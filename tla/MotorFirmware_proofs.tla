--------------------------- MODULE MotorFirmware_proofs ----------------------------
(***************************************************************************)
(* What the firmware promises to the outside: its sender is the channel    *)
(* the controller and the dashboard rely on, it refuses no configuration   *)
(* the Pi's loader accepts, and its timers and its tachometer compute what *)
(* they stand for.                                                         *)
(***************************************************************************)
EXTENDS MotorChannel, MotorTiming, MotorSend_proofs, MotorController_proofs

-----------------------------------------------------------------------------
(* The sender implements the channel, for every counter width, set of      *)
(* inputs, configuration and bound on SPI errors.                          *)

\* What the refinement needs to know of a reachable state.
Sane == TypeOK /\ Handshake

(* The channel counts and types as the firmware does.                       *)
LEMMA ChannelWire ==
  /\ Channel!Frame = Frame
  /\ \A x, mod : Channel!Inc(x, mod) = Inc(x, mod)
BY DEF Channel!Frame, Channel!AckFlags, Channel!Inc, Frame, AckFlags, Inc

(* A buffer in the DMA's hands is a frame on offer.                         *)
LEMMA OfferIsFrame ==
  ASSUME Sane
  PROVE  /\ OnOffer = NoFrame <=> s_tx_idx < 0
         /\ s_tx_idx < 0 => Behind = NoFrame
<1>1. s_tx_idx >= 0 => s_frame[s_tx_idx] \in Frame
  BY DEF Sane, TypeOK, SendTypeOK
<1>2. s_tx_idx \in {-1, 0, 1}
  BY DEF Sane, TypeOK, SendTypeOK
<1> QED
  BY <1>1, <1>2, WireAssumption DEF OnOffer, Behind, Sane, Handshake

(* A block interrupt assembles the frame with the next sequence number.     *)
LEMMA BuiltIsNumbered ==
  ASSUME TypeOK, NEW ok \in BOOLEAN, BlockReady(ok)
  PROVE  /\ s_frame'[Other(s_tx_idx)] \in Frame
         /\ s_frame'[Other(s_tx_idx)].seq = s_seq
<1>1. s_frame'[Other(s_tx_idx)] = AssembledFrame(s_block_rows)
  BY OtherBuffer DEF BlockReady, TypeOK, SendTypeOK
<1>2. AssembledFrame(s_block_rows) \in Frame /\ AssembledFrame(s_block_rows).seq = s_seq
  BY DEF AssembledFrame, Frame, TypeOK, AcquireTypeOK, SendTypeOK
<1> QED
  BY <1>1, <1>2

(* The block interrupt produces a frame.                                    *)
LEMMA BlockProduces ==
  ASSUME Sane, Sane', NEW ok \in BOOLEAN, BlockReady(ok)
  PROVE  Channel!Produce
<1>1. s_seq' = Inc(s_seq, SeqMod) /\ g_spi_err' = g_spi_err
  BY DEF BlockReady
<1>2. s_tx_idx \in {-1, 0, 1}
  BY DEF Sane, TypeOK, SendTypeOK
<1>3. CASE s_tx_idx < 0 /\ ArmTx(Other(s_tx_idx), ok) /\ UNCHANGED s_pending
  <2>1. OnOffer = NoFrame /\ Behind = NoFrame /\ Behind' = NoFrame
    BY <1>3, OfferIsFrame DEF Behind, Sane, TypeOK, SendTypeOK, Handshake
  <2>2. CASE ok
    <3>1. OnOffer' = s_frame'[Other(s_tx_idx)]
      BY <1>3, <2>2, OtherBuffer DEF ArmTx, OnOffer
    <3> QED
      BY <1>1, <2>1, <3>1, BuiltIsNumbered, ChannelWire
      DEF Channel!Produce, Channel!Newest, Sane
  <2>3. CASE ~ ok
    <3>1. OnOffer' = NoFrame
      BY <1>3, <2>3 DEF ArmTx, OnOffer
    <3> QED
      BY <1>1, <2>1, <3>1, ChannelWire DEF Channel!Produce
  <2> QED
    BY <2>2, <2>3
<1>4. CASE /\ s_tx_idx >= 0
           /\ s_skipped' = SkippedByWaiting
           /\ s_pending' = TRUE
           /\ UNCHANGED <<s_tx_idx, dr, spi>>
  <2>1. OnOffer # NoFrame /\ OnOffer' = OnOffer
    <3>1. s_frame'[s_tx_idx] = s_frame[s_tx_idx]
      BY <1>2, <1>4, OtherBuffer DEF BlockReady, Sane, TypeOK, SendTypeOK
    <3> QED
      BY <1>2, <1>4, <3>1, OfferIsFrame DEF OnOffer
  <2>2. Behind' = s_frame'[Other(s_tx_idx)]
    BY <1>4 DEF Behind
  <2> QED
    BY <1>1, <2>1, <2>2, BuiltIsNumbered, ChannelWire
      DEF Channel!Produce, Channel!Newest, Sane
<1> QED
  BY <1>3, <1>4 DEF BlockReady

(* A completion delivers the frame on offer.                                *)
LEMMA CompletionDelivers ==
  ASSUME Sane, Sane', NEW ok \in BOOLEAN, TxRxCplt(ok)
  PROVE  Channel!Deliver
<1>1. s_tx_idx >= 0 /\ UNCHANGED <<s_seq, s_frame, g_spi_err>> /\ s_pending' = FALSE
  BY DEF TxRxCplt, Sane, TypeOK, SendTypeOK, Handshake
<1>2. OnOffer # NoFrame /\ Behind' = NoFrame
  BY <1>1, OfferIsFrame DEF Behind, Sane, TypeOK, SendTypeOK
<1>3. OnOffer' \in {Behind, NoFrame}
  <2>1. CASE s_pending /\ ArmTx(NextToArm, ok)
    BY <1>1, <2>1, OtherBuffer DEF ArmTx, NextToArm, OnOffer, Behind
  <2>2. CASE GoIdle
    BY <2>2 DEF GoIdle, OnOffer
  <2> QED
    BY <2>1, <2>2 DEF TxRxCplt
<1> QED
  BY <1>1, <1>2, <1>3 DEF Channel!Deliver

(* An SPI error offers the interrupted frame again, or nothing.             *)
LEMMA ErrorRetries ==
  ASSUME Sane, Sane', NEW ok \in BOOLEAN, SpiError(ok)
  PROVE  Channel!Retry
<1>1. /\ s_tx_idx >= 0
      /\ UNCHANGED <<s_seq, s_frame>>
      /\ s_pending' = FALSE
      /\ g_spi_err' = g_spi_err + 1
      /\ ArmTx(s_tx_idx, ok)
  BY DEF SpiError, Sane, TypeOK, SendTypeOK, Handshake
<1>2. OnOffer # NoFrame /\ Behind' = NoFrame
  BY <1>1, OfferIsFrame DEF Behind, Sane, TypeOK, SendTypeOK
<1>3. OnOffer' \in {OnOffer, NoFrame}
  BY <1>1 DEF ArmTx, OnOffer
<1> QED
  BY <1>1, <1>2, <1>3 DEF Channel!Retry

(* A transfer and an access of motor_acquire_service are stutters.          *)
LEMMA RestStutters ==
  ASSUME \/ \E input \in Inputs, whole \in BOOLEAN : SpiTransfer(input, whole)
         \/ \E ok \in BOOLEAN : MainLoop(ok)
         \/ UNCHANGED stmVars
  PROVE  UNCHANGED Channel!channelVars
BY DEF SpiTransfer, MainLoop, stmVars, sendVars, txVars, Channel!channelVars, OnOffer, Behind

(* The firmware's double-buffered sender implements the frame channel: one  *)
(* frame on offer, the newest behind it, nothing reordered or altered.      *)
THEOREM ImplementsChannel == Spec => ChannelSpec
<1>1. StmInit => Channel!Init
  BY DEF StmInit, SendInit, Channel!Init, OnOffer, Behind
<1>2. Sane /\ Sane' /\ [Next]_stmVars => [Channel!Next]_(Channel!channelVars)
  <2> SUFFICES ASSUME Sane, Sane', [Next]_stmVars
               PROVE  Channel!Next \/ UNCHANGED Channel!channelVars
    OBVIOUS
  <2>1. dr' = (OnOffer' # NoFrame)
    <3>1. dr' \in BOOLEAN /\ (dr' <=> s_tx_idx' >= 0) /\ s_tx_idx' \in {-1, 0, 1}
      BY DEF Sane, TypeOK, SendTypeOK, Handshake
    <3>2. OnOffer' = NoFrame <=> s_tx_idx' < 0
      <4>1. s_tx_idx' >= 0 => s_frame'[s_tx_idx'] \in Frame
        BY DEF Sane, TypeOK, SendTypeOK
      <4> QED
        BY <3>1, <4>1, WireAssumption DEF OnOffer
    <3> QED
      BY <3>1, <3>2
  <2>2. ASSUME NEW ok \in BOOLEAN, StmInterrupt(ok) PROVE Channel!Next
    BY <2>1, <2>2, BlockProduces, CompletionDelivers, ErrorRetries DEF StmInterrupt, Channel!Next
  <2> QED
    BY <2>2, RestStutters DEF Next
<1> QED
  BY <1>1, <1>2, TypeCorrect, HandshakeHolds, PTL DEF Spec, ChannelSpec, Channel!Spec, Sane

-----------------------------------------------------------------------------
(* The loader of the Pi (config.c) and the range test of the STM32         *)
(* (apply_set_config in motor_send.c) are written apart, with their own    *)
(* literals.                                                               *)

\* A file config_load_file accepts passes the STM32's own range test, and
\* asks for the source it has: process_pending_cmd never answers NACK_RANGE
\* to a command the Pi loaded from a file.
THEOREM AcceptedIsAcceptable ==
  ASSUME NEW doc, Accepted(doc), DefaultFits
  PROVE  /\ Loaded(doc).stm \in Config
         /\ InRange(Loaded(doc).stm)
         /\ Loaded(doc).stm.source = MOTOR_SOURCE_ADC
<1>1. Loaded(doc).stm = [f \in StmFields |-> Loaded(doc).stm[f]]
  BY DEF Loaded, Filled, StmDefaults, StmFields
<1>2. \A f \in StmFields : Loaded(doc).stm[f] \in StmRange(f)
  BY FieldsInRange
<1>3. PICK p : p = Loaded(doc).stm
  OBVIOUS
<1>4. /\ p.block_rows \in 1 .. MaxRows
      /\ p.source = MOTOR_SOURCE_ADC
      /\ p.run_state \in {MOTOR_RUN_STOP, MOTOR_RUN_RUN}
      /\ p.sample_rate_hz \in Rate(100, 100000)
      /\ p.imu_rate_hz \in Rate(10, 1000)
  BY <1>2, <1>3, RangesOfRecord
<1>5. p = [f \in StmFields |-> p[f]]
  BY <1>1, <1>3
<1>6. p \in Config
  BY <1>4, <1>5, WireAssumption, SMT
  DEF Config, Rate, StmFields, MOTOR_SOURCE_ADC, MOTOR_RUN_RUN, MOTOR_RUN_STOP
<1>7. InRange(p)
  BY <1>4, SMT DEF InRange, Rate, MOTOR_SOURCE_ADC, MOTOR_RUN_RUN, MOTOR_RUN_STOP
<1> QED  BY <1>3, <1>4, <1>6, <1>7

\* The intact SET_CONFIG that carries it is applied, or recognised as one
\* that was.
COROLLARY FileNeverRefused ==
  ASSUME NEW doc, Accepted(doc), DefaultFits,
         NEW c, c.cmd = "SET_CONFIG", c.crc_ok, c.schema_ok, c.payload = Loaded(doc).stm
  PROVE  Verdict(c) \in {"duplicate", "apply"}
BY AcceptedIsAcceptable DEF Verdict

-----------------------------------------------------------------------------
(* What the two computations of motor_acquire.c guarantee for every input. *)

\* A quotient and what it leaves over.
LEMMA Division ==
  ASSUME NEW a \in Nat, NEW b \in Nat \ {0}
  PROVE  a \div b \in Nat /\ b * (a \div b) <= a /\ a < b * (a \div b) + b
BY SMT

(* Rounding up exceeds the quotient by less than one.                       *)
LEMMA CeilDivBounds ==
  ASSUME NEW a \in Nat \ {0}, NEW b \in Nat \ {0}
  PROVE  /\ CeilDiv(a, b) \in Nat \ {0}
         /\ a <= b * CeilDiv(a, b)
         /\ b * CeilDiv(a, b) < a + b
<1> DEFINE n == a + b - 1
           q == n \div b
<1>1. n \in Nat /\ CeilDiv(a, b) = q
  BY SMT DEF CeilDiv
<1>2. q \in Nat /\ b * q <= n /\ n < b * q + b
  BY SMT, <1>1, Division
<1>3. b * 0 = 0
  BY SMT
<1>4. q # 0
  BY SMT, <1>2, <1>3, n >= b
<1> QED  BY SMT, <1>1, <1>2, <1>4, b * q \in Nat

\* A rate from 1 Hz to the clock's own, and the counts it comes to.
Rates == {hz \in Nat : 1 <= hz /\ hz <= TIM_PCLK_HZ}

(* The clock ticks of one period, at any rate the config can ask for.       *)
LEMMA TotalBounds ==
  ASSUME NEW hz \in Rates
  PROVE  Total(hz) \in Rates
<1> DEFINE q == TIM_PCLK_HZ \div hz
<1>1. TIM_PCLK_HZ \in Nat \ {0}
  BY SMT DEF TIM_PCLK_HZ
<1>2. q \in Nat /\ hz * q <= TIM_PCLK_HZ /\ hz \in Nat \ {0}
  BY <1>1, Division, SMT DEF Rates
<1>3. Total(hz) = IF q = 0 THEN 1 ELSE q
  BY SMT DEF Total
<1> HIDE DEF q
<1>4. q <= hz * q
  BY <1>2, SMT
<1>5. hz * q \in Nat
  BY <1>2, SMT
<1> QED  BY <1>1, <1>2, <1>3, <1>4, <1>5, SMT DEF Rates

(* Every prescaler the search tries is positive.                            *)
LEMMA PowersPositive ==
  ASSUME NEW p \in Powers
  PROVE  p \in Nat \ {0} /\ p <= Counts16
BY SMT DEF Powers, Counts16

\* The loop of compute_psc_arr stops.
LEMMA LeastPower ==
  ASSUME NEW S \in SUBSET Powers, Counts16 \in S
  PROVE  \E p \in S : \A q \in S : p <= q
BY SMT DEF Powers, Counts16

(* The search ends: the largest prescaler makes every rate fit 16 bits.     *)
LEMMA PrescalerFits ==
  ASSUME NEW total \in Rates
  PROVE  /\ Prescaler(total) \in Powers
         /\ Fits(total, Prescaler(total))
<1> DEFINE S == {p \in Powers : Fits(total, p)}
<1>1. Counts16 \in S /\ S \in SUBSET Powers
  <2>1. Counts16 \in Powers
    BY SMT DEF Powers, Counts16
  <2>2. Fits(total, Counts16)
    BY SMT DEF Fits, CeilDiv, TIM_PCLK_HZ, Counts16, Rates
  <2> QED  BY <2>1, <2>2, SMT
<1> HIDE DEF S
<1>2. PICK p \in S : \A q \in S : p <= q
  BY <1>1, LeastPower
<1> USE DEF S
<1>3. \A q \in Powers : q < p => ~Fits(total, q)
  BY <1>2, PowersPositive, SMT
<1>4. Prescaler(total) \in Powers /\ Fits(total, Prescaler(total))
  BY <1>2, <1>3, SMT DEF Prescaler
<1> QED  BY <1>4, SMT

\* Both values fit the 16-bit registers of the timer, and the timer counts
\* the clock's ticks for one period of the rate, plus at most the prescaler
\* (compute_psc_arr in motor_acquire.c).
THEOREM PscArrIsRight ==
  ASSUME NEW hz \in Rates
  PROVE  /\ PscArr(hz).psc \in Nat /\ PscArr(hz).psc < Counts16
         /\ PscArr(hz).arr \in Nat /\ PscArr(hz).arr < Counts16
         /\ Total(hz) <= Period(PscArr(hz))
         /\ Period(PscArr(hz)) <= Total(hz) + PscArr(hz).psc
<1> DEFINE t == Total(hz)
           p == Prescaler(t)
           n == CeilDiv(t, p)
<1>1. t \in Nat \ {0} /\ p \in Powers /\ n <= Counts16
  BY TotalBounds, PrescalerFits, SMT DEF Fits, Rates
<1>2. p \in Nat \ {0} /\ p <= Counts16
  BY <1>1, PowersPositive, SMT
<1>3. n \in Nat \ {0} /\ t <= p * n /\ p * n < t + p
  BY <1>1, <1>2, CeilDivBounds, SMT
<1>4. PscArr(hz) = [psc |-> p - 1, arr |-> n - 1]
  BY SMT DEF PscArr
<1> HIDE DEF t, p, n
<1>5. Period(PscArr(hz)) = p * n /\ p * n \in Nat
  <2>1. Period(PscArr(hz)) = ((p - 1) + 1) * ((n - 1) + 1)
    BY <1>4, SMT DEF Period
  <2>2. (p - 1) + 1 = p /\ (n - 1) + 1 = n
    BY <1>2, <1>3, SMT
  <2> QED  BY <1>2, <1>3, <2>1, <2>2, SMT
<1>6. /\ PscArr(hz).psc = p - 1 /\ PscArr(hz).arr = n - 1
      /\ Counts16 \in Nat
  BY <1>4, SMT DEF Counts16
<1> QED  BY <1>1, <1>2, <1>3, <1>5, <1>6, SMT DEF t

\* Two captures are at most 65535 us apart, or look as if they were: however
\* slowly the motor turns, a capture never sets a speed below 915 rpm
\* (HAL_TIM_IC_CaptureCallback in motor_acquire.c).
THEOREM TachFloor ==
  ASSUME NEW rpm \in Nat, NEW last \in Nat, NEW now \in Nat,
         last < Counts16, now < Counts16
  PROVE  /\ now = last => Captured(rpm, last, now) = rpm
         /\ now # last => /\ Captured(rpm, last, now) \in Nat
                          /\ 915 <= Captured(rpm, last, now)
                          /\ Captured(rpm, last, now) <= 65535
<1> DEFINE e == Elapsed(last, now)
<1>1. e \in Nat /\ e <= 65535 /\ (e = 0 <=> now = last)
  BY SMT DEF Elapsed, Counts16
<1>2. Captured(rpm, last, now) = IF e > 0 THEN RpmOf(e) ELSE rpm
  BY SMT DEF Captured
<1> HIDE DEF e
<1>3. CASE now = last
  BY <1>1, <1>2, <1>3, SMT
<1>4. CASE now # last
  <2> DEFINE r == 60000000 \div e
  <2>1. e \in Nat \ {0} /\ e <= 65535
    BY <1>1, <1>4, SMT
  <2>2. r \in Nat /\ 60000000 < e * r + e
    BY <2>1, Division, SMT
  <2>3. RpmOf(e) = IF r > 65535 THEN 65535 ELSE r
    BY SMT DEF RpmOf
  <2> HIDE DEF r
  <2>4. r >= 915
    <3>1. SUFFICES ASSUME r <= 914 PROVE FALSE
      BY <2>2, SMT
    <3>2. e * r <= e * 914
      BY <2>1, <2>2, <3>1, SMT
    <3>3. e * 914 <= 65535 * 914
      BY <2>1, SMT
    <3> QED  BY <2>1, <2>2, <3>2, <3>3, SMT
  <2> QED  BY <1>2, <1>4, <2>1, <2>2, <2>3, <2>4, SMT
<1> QED  BY <1>3, <1>4, SMT

(* The difference of two readings of the counter is that of the times.      *)
LEMMA ElapsedIsPeriod ==
  ASSUME NEW t \in Nat, NEW period \in Nat
  PROVE  Elapsed(t % Counts16, (t + period) % Counts16) = period % Counts16
BY SMT DEF Elapsed, Counts16

(* Whatever a counter shows that lost whole wraps is too fast a speed.      *)
LEMMA LostWrapsReadFast ==
  ASSUME NEW period \in Nat, NEW e \in Nat \ {0}, e <= 65535, e + 65536 <= period
  PROVE  60000000 \div period < RpmOf(e)
<1> DEFINE true == 60000000 \div period
           r == 60000000 \div e
<1>1. true \in Nat /\ period * true <= 60000000
  BY Division, SMT
<1>2. r \in Nat /\ 60000000 < e * r + e
  BY Division, SMT
<1>3. RpmOf(e) = IF r > 65535 THEN 65535 ELSE r
  BY SMT DEF RpmOf
<1> HIDE DEF true, r
<1>4. true <= 915
  <2>1. SUFFICES ASSUME true >= 916 PROVE FALSE
    BY <1>1, SMT
  <2>2. 65536 * 916 <= 65536 * true /\ 65536 * true <= period * true
    BY <1>1, <2>1, SMT
  <2> QED  BY <1>1, <2>2, SMT
<1>5. CASE period <= 65573
  <2>1. e <= 37
    BY <1>5, SMT
  <2>2. r > 65535
    <3>1. SUFFICES ASSUME r <= 65535 PROVE FALSE
      BY <1>2, SMT
    <3>2. e * r <= e * 65535
      BY <1>2, <3>1, SMT
    <3> QED  BY <1>2, <2>1, <3>2, SMT
  <2> QED  BY <1>1, <1>3, <1>4, <2>2, SMT DEF true
<1>6. CASE period > 65573
  <2>1. true <= 914
    <3>1. SUFFICES ASSUME true >= 915 PROVE FALSE
      BY <1>1, SMT
    <3>2. 65574 * 915 <= 65574 * true /\ 65574 * true <= period * true
      BY <1>1, <1>6, <3>1, SMT
    <3> QED  BY <1>1, <3>2, SMT
  <2>2. r >= 915
    <3>1. SUFFICES ASSUME r <= 914 PROVE FALSE
      BY <1>2, SMT
    <3>2. e * r <= e * 914
      BY <1>2, <3>1, SMT
    <3> QED  BY <1>2, <3>2, SMT
  <2> QED  BY <1>1, <1>2, <1>3, <2>1, <2>2, SMT DEF true
<1> QED  BY <1>5, <1>6

\* Two edges a period apart, in us: a period that fits the counter reads as
\* the speed it is (or the cap), a longer one as a faster shaft than it is or,
\* after whole wraps, changes nothing (HAL_TIM_IC_CaptureCallback).
THEOREM TachReadsSlowAsFast ==
  ASSUME NEW rpm \in Nat, NEW t \in Nat, NEW period \in Nat \ {0}
  PROVE  /\ period < Counts16 =>
              Captured(rpm, t % Counts16, (t + period) % Counts16) = RpmOf(period)
         /\ period >= Counts16 =>
              IF period % Counts16 = 0
              THEN Captured(rpm, t % Counts16, (t + period) % Counts16) = rpm
              ELSE 60000000 \div period < Captured(rpm, t % Counts16, (t + period) % Counts16)
<1> DEFINE e == period % Counts16
<1>1. Captured(rpm, t % Counts16, (t + period) % Counts16) = IF e > 0 THEN RpmOf(e) ELSE rpm
  BY ElapsedIsPeriod DEF Captured
<1>2. e \in Nat /\ e <= 65535 /\ (period < Counts16 => e = period)
      /\ (period >= Counts16 => e + 65536 <= period)
  BY SMT DEF Counts16
<1> HIDE DEF e
<1>3. e # 0 /\ period >= Counts16 => 60000000 \div period < RpmOf(e)
  BY <1>2, LostWrapsReadFast, SMT
<1>4. Counts16 \in Nat
  BY DEF Counts16
<1> QED  BY <1>1, <1>2, <1>3, <1>4, SMT DEF e
=============================================================================
