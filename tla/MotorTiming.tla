----------------------------- MODULE MotorTiming -----------------------------
(***************************************************************************)
(* The arithmetic of stm/src/motor_acquire.c: the (PSC, ARR) pair a timer  *)
(* is given for a rate, and the speed the tach interrupt derives from two  *)
(* captures of a 16-bit microsecond counter.                               *)
(***************************************************************************)
EXTENDS Integers

TIM_PCLK_HZ == 84000000
Counts16    == 65536        \* values of a 16-bit register

CeilDiv(a, b) == (a + b - 1) \div b

-----------------------------------------------------------------------------
(* compute_psc_arr                                                         *)

Total(hz) == IF TIM_PCLK_HZ \div hz = 0 THEN 1 ELSE TIM_PCLK_HZ \div hz

\* What presc is shifted through.
Powers == {1, 2, 4, 8, 16, 32, 64, 128, 256, 512, 1024, 2048, 4096, 8192, 16384, 32768, 65536}

Fits(total, p) == CeilDiv(total, p) <= Counts16

\* The loop stops at the first that fits; 65536 always does.
Prescaler(total) ==
  CHOOSE p \in Powers : Fits(total, p) /\ \A q \in Powers : q < p => ~Fits(total, q)

\* The clamps of arr change nothing: total is at least 1 and p fits.
PscArr(hz) ==
  LET p == Prescaler(Total(hz)) IN [psc |-> p - 1, arr |-> CeilDiv(Total(hz), p) - 1]

\* Ticks of the input clock between two updates of the timer.
Period(pa) == (pa.psc + 1) * (pa.arr + 1)

-----------------------------------------------------------------------------
(* HAL_TIM_IC_CaptureCallback                                              *)

Elapsed(last, now) == (now - last) % Counts16

RpmOf(period_us) ==
  IF 60000000 \div period_us > 65535 THEN 65535 ELSE 60000000 \div period_us

\* s_rpm after a capture that is not the first; two at one tick change nothing.
Captured(rpm, last, now) ==
  IF Elapsed(last, now) > 0 THEN RpmOf(Elapsed(last, now)) ELSE rpm
=============================================================================
