---------------------------- MODULE MCMotorSend ----------------------------
(* The firmware on its own, with a master that clocks in anything: valid    *)
(* commands in any order and repetition, damaged, unknown and out-of-range  *)
(* ones, or none.                                                           *)
EXTENDS MotorChannel, MotorTiming

Cfg(rows, source, run, rate, imu) ==
  [block_rows |-> rows, source |-> source, run_state |-> run,
   sample_rate_hz |-> rate, imu_rate_hz |-> imu]

MCDefault == Cfg(2, 1, 1, 20000, 1000)

SetConfig(seq, p) ==
  [cmd |-> "SET_CONFIG", schema_ok |-> TRUE, cmd_seq |-> seq, payload |-> p, crc_ok |-> TRUE]

\* A SET_CONFIG that changes every field and stops the acquisition.  The
\* double buffer and the service steps do not depend on which one it is.
MCInputs == { NoCmd, SetConfig(1, Cfg(1, 1, 0, 100, 10)) }

\* A new row count and sample rate in one command.
MCBoth == { NoCmd, SetConfig(1, Cfg(1, 1, 1, 100, 1000)) }

\* The arithmetic of the timers at the rates a config may ask for, and the
\* tach at a wrap, at its floor and at its cap.
ASSUME TimerExamples ==
  /\ PscArr(20000) = [psc |-> 0, arr |-> 4199]
  /\ PscArr(1000) = [psc |-> 1, arr |-> 41999]
  /\ PscArr(100) = [psc |-> 15, arr |-> 52499]
  /\ PscArr(10) = [psc |-> 255, arr |-> 32812]

ASSUME TachExamples ==
  /\ Captured(0, 65000, 19464) = 3000
  /\ Captured(0, 0, 65535) = 915
  /\ Captured(0, 7, 8) = 65535
  /\ Captured(3000, 7, 7) = 3000
=============================================================================
