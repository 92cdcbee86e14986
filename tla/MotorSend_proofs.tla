-------------------------- MODULE MotorSend_proofs --------------------------
(***************************************************************************)
(* Proofs about the firmware (module MotorSend) for every row limit,       *)
(* counter width, set of inputs and bound on SPI errors.                   *)
(***************************************************************************)
EXTENDS MotorSend, TLAPS

-----------------------------------------------------------------------------
(* Lemmas about the operators.                                             *)

(* A wrapping counter stays in its range.                                   *)
LEMMA IncInRange ==
  ASSUME NEW m \in Nat \ {0}, NEW x \in 0 .. m - 1
  PROVE  Inc(x, m) \in 0 .. m - 1
BY DEF Inc

(* Other names a buffer, and never the one it is given.                     *)
LEMMA OtherBuffer ==
  ASSUME NEW i
  PROVE  Other(i) \in 0 .. 1 /\ Other(i) # i
BY DEF Other

(* Every outcome of a command latches one of the flags of the header.       *)
LEMMA AckOfVerdict ==
  ASSUME NEW c
  PROVE  AckOf(Verdict(c)) \in AckFlags
BY DEF AckOf, Verdict, AckFlags

(* The setters are only called with a payload that passed the range test.   *)
LEMMA SettersInRange ==
  ASSUME NEW c, CallsSetters(Verdict(c))
  PROVE  InRange(c.payload)
BY DEF CallsSetters, Verdict

(* A request for an in-range payload leaves well-typed requests.            *)
LEMMA RequestType ==
  ASSUME AcquireTypeOK, NEW p \in Config, NEW a \in Config, InRange(p), Request(p, a)
  PROVE  /\ s_pending_block_rows' \in 0 .. MaxRows
         /\ s_pending_sample_rate' \in Nat
         /\ s_pending_imu_rate' \in Nat
         /\ s_pending_run_state' \in {MOTOR_RUN_STOP, MOTOR_RUN_RUN, NoRequest}
<1>1. /\ p.block_rows \in 1 .. MaxRows
      /\ p.run_state \in {MOTOR_RUN_STOP, MOTOR_RUN_RUN}
      /\ p.sample_rate_hz \in Nat
      /\ p.imu_rate_hz \in Nat
  BY DEF InRange, Config
<1> QED
  BY <1>1, WireAssumption DEF Request, AcquireTypeOK

-----------------------------------------------------------------------------
(* Type correctness.                                                       *)

(* The initial values have the types of the variables.                      *)
LEMMA TypeInit == StmInit => TypeOK
<1> SUFFICES ASSUME StmInit PROVE TypeOK
  OBVIOUS
<1>1. AcquireTypeOK
  BY WireAssumption, SendAssumption
  DEF StmInit, AcquireInit, AcquireTypeOK, ServicePoints, NoLocals, Config, InRange,
      MOTOR_RUN_STOP, MOTOR_RUN_RUN, NoRequest
<1>2. ZeroFrame \in Frame
  BY WireAssumption DEF ZeroFrame, Frame, AckFlags
<1>3. s_frame \in [0 .. 1 -> Frame]
  BY <1>2 DEF StmInit, SendInit
<1>4. /\ s_seq \in 0 .. SeqMod - 1
      /\ s_sent \in 0 .. SeqMod - 1
      /\ s_skipped \in 0 .. SeqMod - 1
      /\ s_latched_cmd_seq \in 0 .. CmdMod - 1
      /\ s_last_applied_seq \in 0 .. CmdMod - 1
  BY WireAssumption DEF StmInit, SendInit
<1>5. SendTypeOK
  BY <1>3, <1>4, SendAssumption DEF StmInit, SendInit, SendTypeOK, AckFlags
<1> QED
  BY <1>1, <1>5 DEF TypeOK

(* Emptying two of the locals of motor_acquire_service keeps them typed.    *)
LEMMA ProgramLocals ==
  ASSUME NEW S, NEW l \in [rate: Nat, rows: 0 .. MaxRows, imu: Nat, run: S]
  PROVE  [l EXCEPT !.rate = 0, !.rows = 0] \in [rate: Nat, rows: 0 .. MaxRows, imu: Nat, run: S]
<1>1. 0 \in 0 .. MaxRows
  BY WireAssumption
<1>2. [l EXCEPT !.rate = 0] \in [rate: Nat, rows: 0 .. MaxRows, imu: Nat, run: S]
  OBVIOUS
<1> QED
  BY <1>1, <1>2

(* One access of motor_acquire_service keeps the types of its variables.    *)
LEMMA ServiceType ==
  ASSUME AcquireTypeOK, NEW ok \in BOOLEAN, Service(ok)
  PROVE  AcquireTypeOK'
<1> USE WireAssumption DEF AcquireTypeOK, Goto, programmed, requests, ServicePoints
<1>1. CASE ReadRate
  BY <1>1 DEF ReadRate
<1>2. CASE ReadRows
  BY <1>2 DEF ReadRows
<1>3. CASE ClearRate
  BY <1>3 DEF ClearRate
<1>4. CASE ClearRows
  BY <1>4 DEF ClearRows
<1>5. CASE StopAdc
  BY <1>5 DEF StopAdc, AdcStopped
<1>6. CASE Program
  <2>1. s_block_rows' \in 1 .. MaxRows /\ s_sample_rate_hz' \in Nat
    BY <1>6 DEF Program
  <2>3. local' \in [rate: Nat, rows: 0 .. MaxRows, imu: Nat,
                    run: {MOTOR_RUN_STOP, MOTOR_RUN_RUN, NoRequest}]
    BY <1>6, ProgramLocals DEF Program
  <2>4. pc' = "rearm" /\ UNCHANGED <<s_imu_rate_hz, s_running, adc_dma, requests>>
    BY <1>6 DEF Program
  <2> QED
    BY <2>1, <2>3, <2>4
<1>7. CASE ReadImu
  BY <1>7 DEF ReadImu
<1>8. CASE ClearImu
  BY <1>8 DEF ClearImu
<1>9. CASE ReadRun
  BY <1>9 DEF ReadRun
<1>10. CASE ClearRun
  BY <1>10 DEF ClearRun
<1>11. CASE SwitchAdc
  BY <1>11 DEF SwitchAdc
<1>12. CASE SetRunning
  BY <1>12 DEF SetRunning
<1>13. CASE Rearm(ok)
  BY <1>13 DEF Rearm, Rearmed
<1> QED
  BY <1>1, <1>2, <1>3, <1>4, <1>5, <1>6, <1>7, <1>8, <1>9, <1>10, <1>11, <1>12, <1>13
  DEF Service

(* What the tail of the block interrupt leaves is well typed.               *)
LEMMA ProcessType ==
  ASSUME TypeOK, ProcessPendingCmd
  PROVE  /\ s_pending_cmd' \in Command \union {NoCmd}
         /\ s_latched_ack_flags' \in AckFlags
         /\ s_latched_cmd_seq' \in 0 .. CmdMod - 1
         /\ s_config_applied_latch' \in BOOLEAN
         /\ s_last_applied_seq' \in 0 .. CmdMod - 1
         /\ s_have_last_applied' \in BOOLEAN
         /\ s_active_config' \in Config
         /\ s_pending_block_rows' \in 0 .. MaxRows
         /\ s_pending_sample_rate' \in Nat
         /\ s_pending_imu_rate' \in Nat
         /\ s_pending_run_state' \in {MOTOR_RUN_STOP, MOTOR_RUN_RUN, NoRequest}
<1>1. CASE s_pending_cmd = NoCmd
  <2>1. ~ (s_pending_cmd # NoCmd)
    BY <1>1
  <2> QED
    BY <2>1 DEF ProcessPendingCmd, TypeOK, AcquireTypeOK, SendTypeOK, requests
<1>2. CASE s_pending_cmd # NoCmd
  <2> DEFINE c == s_pending_cmd
  <2>1. c \in Command /\ ProcessCmd(c)
    BY <1>2 DEF ProcessPendingCmd, TypeOK, SendTypeOK
  <2>2. c.cmd_seq \in 0 .. CmdMod - 1 /\ c.payload \in Config
    BY <2>1 DEF Command
  <2> HIDE DEF c
  <2>3. /\ s_pending_block_rows' \in 0 .. MaxRows
        /\ s_pending_sample_rate' \in Nat
        /\ s_pending_imu_rate' \in Nat
        /\ s_pending_run_state' \in {MOTOR_RUN_STOP, MOTOR_RUN_RUN, NoRequest}
    <3>1. CASE CallsSetters(Verdict(c))
      <4>1. InRange(c.payload)
        BY <3>1, SettersInRange
      <4>2. Request(c.payload, s_active_config)
        BY <2>1, <3>1 DEF ProcessCmd
      <4> QED
        BY <2>2, <4>1, <4>2, RequestType DEF TypeOK, SendTypeOK
    <3>2. CASE ~ CallsSetters(Verdict(c))
      BY <2>1, <3>2 DEF ProcessCmd, requests, TypeOK, AcquireTypeOK
    <3> QED
      BY <3>1, <3>2
  <2>4. s_latched_ack_flags' \in AckFlags
    BY <2>1, AckOfVerdict DEF ProcessCmd
  <2>5. /\ s_pending_cmd' \in Command \union {NoCmd}
        /\ s_latched_cmd_seq' \in 0 .. CmdMod - 1
        /\ s_config_applied_latch' \in BOOLEAN
        /\ s_last_applied_seq' \in 0 .. CmdMod - 1
        /\ s_have_last_applied' \in BOOLEAN
        /\ s_active_config' \in Config
    BY <2>1, <2>2 DEF ProcessCmd, TypeOK, SendTypeOK
  <2> QED
    BY <2>3, <2>4, <2>5
<1> QED
  BY <1>1, <1>2

(* arm_tx leaves a well-typed buffer index, counter, line and SPI state.    *)
LEMMA ArmTxType ==
  ASSUME NEW ok \in BOOLEAN, NEW i \in 0 .. 1, s_skipped \in 0 .. SeqMod - 1, ArmTx(i, ok)
  PROVE  /\ s_tx_idx' \in {-1, 0, 1}
         /\ s_skipped' \in 0 .. SeqMod - 1
         /\ dr' \in BOOLEAN
         /\ spi' \in {"idle", "armed", "done"}
BY IncInRange, WireAssumption DEF ArmTx

(* A step of the firmware whatever the master clocks in, or a reset: what    *)
(* the board does when a real controller is at the other end of the wire.   *)
FirmwareStep ==
  \/ \E ok \in BOOLEAN : StmInterrupt(ok)
  \/ \E input \in Command \union {NoCmd}, whole \in BOOLEAN : SpiTransfer(input, whole)
  \/ \E ok \in BOOLEAN : MainLoop(ok)
  \/ StmReset

(* The inputs of this module are among those.                               *)
LEMMA NextIsFirmwareStep == [Next]_stmVars => [FirmwareStep]_stmVars
BY SendAssumption DEF Next, FirmwareStep

(* Every step of the firmware keeps every type, and so does a reset.        *)
LEMMA TypeFirmware == TypeOK /\ [FirmwareStep]_stmVars => TypeOK'
<1> SUFFICES ASSUME TypeOK, [FirmwareStep]_stmVars PROVE TypeOK'
  OBVIOUS
<1>1. ASSUME NEW ok \in BOOLEAN, BlockReady(ok) PROVE TypeOK'
  <2> DEFINE b == Other(s_tx_idx)
  <2>1. b \in 0 .. 1
    BY OtherBuffer
  <2>2. AssembledFrame(s_block_rows) \in Frame
    BY DEF AssembledFrame, Frame, TypeOK, AcquireTypeOK, SendTypeOK
  <2>3. s_frame' \in [0 .. 1 -> Frame]
    BY <1>1, <2>1, <2>2 DEF BlockReady, TypeOK, SendTypeOK
  <2>4. s_seq' \in 0 .. SeqMod - 1
    BY <1>1, IncInRange, WireAssumption DEF BlockReady, TypeOK, SendTypeOK
  <2>5. /\ s_tx_idx' \in {-1, 0, 1}
        /\ s_skipped' \in 0 .. SeqMod - 1
        /\ dr' \in BOOLEAN
        /\ spi' \in {"idle", "armed", "done"}
        /\ s_pending' \in BOOLEAN
    <3>1. CASE s_tx_idx < 0 /\ ArmTx(b, ok) /\ UNCHANGED s_pending
      BY <2>1, <3>1, ArmTxType DEF TypeOK, SendTypeOK
    <3>2. CASE /\ s_skipped' = SkippedByWaiting
               /\ s_pending' = TRUE
               /\ UNCHANGED <<s_tx_idx, dr, spi>>
      BY <3>2, IncInRange, WireAssumption DEF SkippedByWaiting, TypeOK, SendTypeOK
    <3> QED
      BY <1>1, <3>1, <3>2 DEF BlockReady
  <2>6. UNCHANGED <<s_sent, g_spi_err, s_rx_dummy, programmed, pc, local>>
    BY <1>1 DEF BlockReady
  <2>7. ProcessPendingCmd
    BY <1>1 DEF BlockReady
  <2>8. AcquireTypeOK'
    BY <2>6, <2>7, ProcessType DEF TypeOK, AcquireTypeOK, programmed
  <2>9. SendTypeOK'
    BY <2>3, <2>4, <2>5, <2>6, <2>7, ProcessType DEF TypeOK, SendTypeOK
  <2> QED
    BY <2>8, <2>9 DEF TypeOK
<1>2. ASSUME NEW ok \in BOOLEAN, TxRxCplt(ok) PROVE TypeOK'
  <2>1. s_sent' \in 0 .. SeqMod - 1
    BY <1>2, IncInRange, WireAssumption DEF TxRxCplt, TypeOK, SendTypeOK
  <2>2. /\ s_tx_idx' \in {-1, 0, 1}
        /\ s_skipped' \in 0 .. SeqMod - 1
        /\ dr' \in BOOLEAN
        /\ spi' \in {"idle", "armed", "done"}
    <3>1. CASE ArmTx(NextToArm, ok)
      BY <3>1, OtherBuffer, ArmTxType DEF NextToArm, TypeOK, SendTypeOK
    <3>2. CASE GoIdle /\ UNCHANGED s_skipped
      BY <3>2 DEF GoIdle, TypeOK, SendTypeOK
    <3> QED
      BY <1>2, <3>1, <3>2 DEF TxRxCplt
  <2>3. s_pending_cmd' \in Command \union {NoCmd}
    BY <1>2 DEF TxRxCplt, Sniffed, TypeOK, SendTypeOK
  <2>4. SendTypeOK'
    BY <1>2, <2>1, <2>2, <2>3 DEF TxRxCplt, ackVars, TypeOK, SendTypeOK
  <2>5. AcquireTypeOK'
    BY <1>2 DEF TxRxCplt, acquireVars, programmed, requests, TypeOK, AcquireTypeOK
  <2> QED
    BY <2>4, <2>5 DEF TypeOK
<1>3. ASSUME NEW ok \in BOOLEAN, SpiError(ok) PROVE TypeOK'
  <2> DEFINE i == IF s_tx_idx >= 0 THEN s_tx_idx ELSE 0
  <2>1. i \in 0 .. 1
    BY DEF TypeOK, SendTypeOK
  <2>2. /\ s_tx_idx' \in {-1, 0, 1}
        /\ s_skipped' \in 0 .. SeqMod - 1
        /\ dr' \in BOOLEAN
        /\ spi' \in {"idle", "armed", "done"}
    BY <1>3, <2>1, ArmTxType DEF SpiError, TypeOK, SendTypeOK
  <2>3. /\ g_spi_err' \in Nat
        /\ s_pending' \in BOOLEAN
        /\ s_rx_dummy' \in Command \union {NoCmd}
    <3>1. g_spi_err' = g_spi_err + 1 /\ s_pending' = FALSE /\ s_rx_dummy' = NoCmd
      BY <1>3 DEF SpiError
    <3>2. g_spi_err \in Nat
      BY DEF TypeOK, SendTypeOK
    <3>3. g_spi_err' \in Nat
      BY <3>1, <3>2
    <3>4. s_pending' \in BOOLEAN
      BY <3>1
    <3>5. s_rx_dummy' \in Command \union {NoCmd}
      BY <3>1
    <3> QED
      BY <3>3, <3>4, <3>5
  <2>4. UNCHANGED <<s_seq, s_frame, s_sent, s_pending_cmd, ackVars, acquireVars>>
    BY <1>3 DEF SpiError, cmdVars
  <2>5. SendTypeOK'
    BY <2>2, <2>3, <2>4 DEF ackVars, TypeOK, SendTypeOK
  <2>6. AcquireTypeOK'
    BY <2>4 DEF acquireVars, programmed, requests, TypeOK, AcquireTypeOK
  <2> QED
    BY <2>5, <2>6 DEF TypeOK
<1>4. ASSUME NEW input \in Command \union {NoCmd}, NEW whole \in BOOLEAN, SpiTransfer(input, whole) PROVE TypeOK'
  <2>1. SendTypeOK'
    BY <1>4 DEF SpiTransfer, cmdVars, ackVars, TypeOK, SendTypeOK
  <2>2. AcquireTypeOK'
    BY <1>4 DEF SpiTransfer, acquireVars, programmed, requests, TypeOK, AcquireTypeOK
  <2> QED
    BY <2>1, <2>2 DEF TypeOK
<1>5. CASE \E ok \in BOOLEAN : MainLoop(ok)
  <2>1. AcquireTypeOK'
    BY <1>5, ServiceType DEF MainLoop, TypeOK
  <2>2. SendTypeOK'
    BY <1>5 DEF MainLoop, sendVars, txVars, cmdVars, ackVars, TypeOK, SendTypeOK
  <2> QED
    BY <2>1, <2>2 DEF TypeOK
<1>6. CASE UNCHANGED stmVars
  BY <1>6 DEF stmVars, acquireVars, programmed, requests, sendVars, txVars, cmdVars, ackVars,
              TypeOK, AcquireTypeOK, SendTypeOK
<1>7. CASE StmReset
  <2>1. AcquireTypeOK'
    BY <1>7, WireAssumption, SendAssumption
    DEF StmReset, AcquireTypeOK, ServicePoints, NoLocals, Config, InRange,
        MOTOR_RUN_STOP, MOTOR_RUN_RUN, NoRequest
  <2>2. ZeroFrame \in Frame
    BY WireAssumption DEF ZeroFrame, Frame, AckFlags
  <2>3. s_frame' \in [0 .. 1 -> Frame]
    BY <1>7, <2>2 DEF StmReset
  <2>4. /\ s_seq' \in 0 .. SeqMod - 1
        /\ s_sent' \in 0 .. SeqMod - 1
        /\ s_skipped' \in 0 .. SeqMod - 1
        /\ s_latched_cmd_seq' \in 0 .. CmdMod - 1
        /\ s_last_applied_seq' \in 0 .. CmdMod - 1
    BY <1>7, WireAssumption DEF StmReset
  <2>5. SendTypeOK'
    BY <1>7, <2>3, <2>4, SendAssumption DEF StmReset, SendTypeOK, AckFlags
  <2> QED
    BY <2>1, <2>5 DEF TypeOK
<1> QED
  BY <1>1, <1>2, <1>3, <1>4, <1>5, <1>6, <1>7 DEF FirmwareStep, StmInterrupt

(* So does every step of this module.                                       *)
LEMMA TypeStep == TypeOK /\ [Next]_stmVars => TypeOK'
BY TypeFirmware, NextIsFirmwareStep

(* Every variable of the firmware keeps its C type's range, for every row   *)
(* limit and counter width: no handler stores an unreduced counter or an    *)
(* unchecked field of a command.                                            *)
THEOREM TypeCorrect == Spec => []TypeOK
BY TypeInit, TypeStep, PTL DEF Spec

-----------------------------------------------------------------------------
(* The double buffer.                                                      *)

(* The handshake is inductive on well-typed states.                         *)
LEMMA HandshakeFirmware == TypeOK /\ Handshake /\ [FirmwareStep]_stmVars => Handshake'
<1> SUFFICES ASSUME TypeOK, Handshake, [FirmwareStep]_stmVars PROVE Handshake'
  OBVIOUS
<1> USE DEF Handshake
<1>1. ASSUME NEW ok \in BOOLEAN, NEW i \in 0 .. 1, ArmTx(i, ok)
      PROVE  (dr' <=> s_tx_idx' >= 0) /\ (dr' <=> spi' # "idle") /\ (ok => s_tx_idx' >= 0)
  BY <1>1 DEF ArmTx
<1>2. ASSUME NEW ok \in BOOLEAN, BlockReady(ok) PROVE Handshake'
  <2>1. CASE s_tx_idx < 0 /\ ArmTx(Other(s_tx_idx), ok) /\ UNCHANGED s_pending
    <3>1. ~ s_pending
      BY <2>1 DEF TypeOK, SendTypeOK
    <3> QED
      BY <1>1, <2>1, <3>1, OtherBuffer
  <2>2. CASE s_tx_idx >= 0 /\ s_pending' = TRUE /\ UNCHANGED <<s_tx_idx, dr, spi>>
    BY <2>2
  <2> QED
    BY <1>2, <2>1, <2>2 DEF BlockReady
<1>3. ASSUME NEW ok \in BOOLEAN, TxRxCplt(ok) PROVE Handshake'
  <2>1. CASE ArmTx(NextToArm, ok)
    BY <1>1, <1>3, <2>1, OtherBuffer DEF TxRxCplt, NextToArm
  <2>2. CASE GoIdle
    BY <1>3, <2>2 DEF TxRxCplt, GoIdle
  <2> QED
    BY <1>3, <2>1, <2>2 DEF TxRxCplt
<1>4. ASSUME NEW ok \in BOOLEAN, SpiError(ok) PROVE Handshake'
  <2> DEFINE i == IF s_tx_idx >= 0 THEN s_tx_idx ELSE 0
  <2>1. i \in 0 .. 1
    BY DEF TypeOK, SendTypeOK
  <2> QED
    BY <1>1, <1>4, <2>1 DEF SpiError
<1>5. ASSUME NEW input, NEW whole \in BOOLEAN, SpiTransfer(input, whole) PROVE Handshake'
  BY <1>5 DEF SpiTransfer
<1>6. CASE \E ok \in BOOLEAN : MainLoop(ok)
  BY <1>6 DEF MainLoop, sendVars, txVars
<1>7. CASE UNCHANGED stmVars
  BY <1>7 DEF stmVars, sendVars, txVars
<1>8. CASE StmReset
  BY <1>8 DEF StmReset
<1> QED
  BY <1>2, <1>3, <1>4, <1>5, <1>6, <1>7, <1>8 DEF FirmwareStep, StmInterrupt

(* The data-ready line is high exactly while a buffer is armed or being     *)
(* completed, and no frame ever waits behind nothing.                       *)
THEOREM HandshakeHolds == Spec => []Handshake
<1>1. StmInit => Handshake
  BY DEF StmInit, SendInit, Handshake
<1> QED
  BY <1>1, TypeCorrect, HandshakeFirmware, NextIsFirmwareStep, PTL DEF Spec

(* No step of the firmware writes the buffer that stays in the DMA's hands: *)
(* motor_on_block_ready builds in the other one.                            *)
THEOREM InFlightStable == Spec => InFlightFrameStable
<1>1. TypeOK /\ [Next]_stmVars =>
        [s_tx_idx >= 0 /\ s_tx_idx' = s_tx_idx => s_frame'[s_tx_idx] = s_frame[s_tx_idx]]_stmVars
  <2> SUFFICES ASSUME TypeOK, Next, s_tx_idx >= 0, s_tx_idx' = s_tx_idx
               PROVE  s_frame'[s_tx_idx] = s_frame[s_tx_idx]
    OBVIOUS
  <2>1. ASSUME NEW ok \in BOOLEAN, BlockReady(ok)
        PROVE  s_frame'[s_tx_idx] = s_frame[s_tx_idx]
    BY <2>1, OtherBuffer DEF BlockReady, TypeOK, SendTypeOK
  <2>2. ASSUME ~ (\E ok \in BOOLEAN : BlockReady(ok)) PROVE UNCHANGED s_frame
    BY <2>2 DEF Next, StmInterrupt, TxRxCplt, SpiError, SpiTransfer, MainLoop, sendVars, txVars
  <2> QED
    BY <2>1, <2>2
<1> QED
  BY <1>1, TypeCorrect, PTL DEF Spec, InFlightFrameStable

(* The frame that waits behind a transfer is the newest one.                *)
NewestWaits == s_pending => Inc(s_frame[Other(s_tx_idx)].seq, SeqMod) = s_seq

(* The invariant of the double buffer, on well-typed states.                *)
BufferInv == TypeOK /\ Handshake /\ NewestWaits

(* After a block interrupt the buffer just built holds the newest frame.    *)
LEMMA BuiltIsNewest ==
  ASSUME TypeOK, NEW ok \in BOOLEAN, BlockReady(ok)
  PROVE  Inc(s_frame'[Other(s_tx_idx)].seq, SeqMod) = s_seq'
BY OtherBuffer DEF BlockReady, AssembledFrame, TypeOK, SendTypeOK

(* NewestWaits is inductive with the handshake.                             *)
LEMMA NewestWaitsStep == BufferInv /\ [Next]_stmVars => NewestWaits'
<1> SUFFICES ASSUME BufferInv, [Next]_stmVars, s_pending'
             PROVE  Inc(s_frame'[Other(s_tx_idx')].seq, SeqMod) = s_seq'
  BY DEF NewestWaits
<1>1. ASSUME NEW ok \in BOOLEAN, BlockReady(ok)
      PROVE  Inc(s_frame'[Other(s_tx_idx')].seq, SeqMod) = s_seq'
  <2>1. UNCHANGED s_tx_idx
    <3>1. CASE s_tx_idx < 0 /\ UNCHANGED s_pending
      <4>1. s_pending
        BY <3>1
      <4> QED
        BY <3>1, <4>1 DEF BufferInv, Handshake, TypeOK, SendTypeOK
    <3> QED
      BY <1>1, <3>1 DEF BlockReady
  <2> QED
    BY <1>1, <2>1, BuiltIsNewest DEF BufferInv
<1>2. ASSUME ~ (\E ok \in BOOLEAN : BlockReady(ok))
      PROVE  s_pending /\ UNCHANGED <<s_frame, s_tx_idx, s_seq>>
  BY <1>2 DEF Next, StmInterrupt, TxRxCplt, SpiError, SpiTransfer, MainLoop, stmVars, sendVars,
              txVars
<1>3. CASE ~ (\E ok \in BOOLEAN : BlockReady(ok))
  BY <1>2, <1>3 DEF BufferInv, NewestWaits
<1> QED
  BY <1>1, <1>3

(* Whatever buffer is handed to the DMA holds the newest block, except when *)
(* HAL_SPI_ErrorCallback sends the interrupted one again.                   *)
THEOREM ArmsNewest == Spec => ArmsNewestFrame
<1>1. StmInit => NewestWaits
  BY DEF StmInit, SendInit, NewestWaits
<1>2. BufferInv /\ [Next]_stmVars =>
        [spi # "armed" /\ spi' = "armed" /\ g_spi_err' = g_spi_err =>
           Inc(s_frame'[s_tx_idx'].seq, SeqMod) = s_seq']_stmVars
  <2> SUFFICES ASSUME BufferInv, Next, spi # "armed", spi' = "armed", g_spi_err' = g_spi_err
               PROVE  Inc(s_frame'[s_tx_idx'].seq, SeqMod) = s_seq'
    OBVIOUS
  <2>1. ASSUME NEW ok \in BOOLEAN, BlockReady(ok)
        PROVE  Inc(s_frame'[s_tx_idx'].seq, SeqMod) = s_seq'
    <3>1. s_tx_idx' = Other(s_tx_idx)
      BY <2>1 DEF BlockReady, ArmTx
    <3> QED
      BY <2>1, <3>1, BuiltIsNewest DEF BufferInv
  <2>2. ASSUME NEW ok \in BOOLEAN, TxRxCplt(ok)
        PROVE  Inc(s_frame'[s_tx_idx'].seq, SeqMod) = s_seq'
    <3>1. s_pending /\ s_tx_idx' = Other(s_tx_idx) /\ UNCHANGED <<s_frame, s_seq>>
      BY <2>2 DEF TxRxCplt, ArmTx, NextToArm, GoIdle
    <3> QED
      BY <3>1 DEF BufferInv, NewestWaits
  <2>3. ASSUME NEW ok \in BOOLEAN, SpiError(ok) PROVE FALSE
    BY <2>3 DEF SpiError, BufferInv, TypeOK, SendTypeOK
  <2>4. ASSUME NEW input \in Inputs, NEW whole \in BOOLEAN, SpiTransfer(input, whole) PROVE FALSE
    BY <2>4 DEF SpiTransfer
  <2>5. CASE \E ok \in BOOLEAN : MainLoop(ok)
    BY <2>5 DEF MainLoop, sendVars, txVars
  <2> QED
    BY <2>1, <2>2, <2>3, <2>4, <2>5 DEF Next, StmInterrupt
<1> QED
  BY <1>1, <1>2, NewestWaitsStep, TypeCorrect, HandshakeHolds, PTL
  DEF Spec, BufferInv, ArmsNewestFrame

-----------------------------------------------------------------------------
(* Accounting.                                                             *)

(* Frames in the DMA's hands or waiting.                                    *)
Outstanding == (IF s_tx_idx >= 0 THEN 1 ELSE 0) + (IF s_pending THEN 1 ELSE 0)

(* FramesAccounted without a quantifier: the two sides differ by at most    *)
(* two laps of the counters.                                                *)
Balanced(seq, sent, skipped, n) ==
  \/ sent + skipped + n = seq
  \/ sent + skipped + n = seq + SeqMod
  \/ sent + skipped + n = seq + SeqMod + SeqMod

(* The two forms say the same.                                              *)
LEMMA AccountedForms ==
  ASSUME TypeOK
  PROVE  FramesAccounted <=>
           (g_spi_err = 0 => Balanced(s_seq, s_sent, s_skipped, Outstanding))
<1> DEFINE total == s_sent + s_skipped + Outstanding
<1>1. /\ SeqMod \in Nat
      /\ s_seq \in Nat
      /\ s_sent \in Nat
      /\ s_skipped \in Nat
      /\ Outstanding \in 0 .. 2
  BY WireAssumption DEF TypeOK, SendTypeOK, Outstanding
<1>2. FramesAccounted <=> (g_spi_err = 0 => \E wraps \in 0 .. 2 : s_seq + wraps * SeqMod = total)
  BY <1>1 DEF FramesAccounted, Outstanding
<1>3. (\E wraps \in 0 .. 2 : s_seq + wraps * SeqMod = total)
        <=> \/ s_seq + 0 * SeqMod = total
            \/ s_seq + 1 * SeqMod = total
            \/ s_seq + 2 * SeqMod = total
  <2>1. \A w \in 0 .. 2 : w = 0 \/ w = 1 \/ w = 2
    OBVIOUS
  <2>2. 0 \in 0 .. 2 /\ 1 \in 0 .. 2 /\ 2 \in 0 .. 2
    OBVIOUS
  <2> HIDE DEF total
  <2> QED
    BY <2>1, <2>2, Zenon
<1>4. 0 * SeqMod = 0 /\ 1 * SeqMod = SeqMod /\ 2 * SeqMod = SeqMod + SeqMod
  BY <1>1
<1> QED
  BY <1>1, <1>2, <1>3, <1>4 DEF Balanced

(* One more frame numbered, and one more of sent, skipped or outstanding.   *)
LEMMA BalancedNumbered ==
  ASSUME NEW q \in 0 .. SeqMod - 1, NEW s \in 0 .. SeqMod - 1, NEW k \in 0 .. SeqMod - 1,
         NEW n \in 0 .. 2, Balanced(q, s, k, n)
  PROVE  /\ Balanced(Inc(q, SeqMod), s, Inc(k, SeqMod), n)
         /\ n < 2 => Balanced(Inc(q, SeqMod), s, k, n + 1)
BY WireAssumption DEF Balanced, Inc

(* A frame that was outstanding is sent, or skipped.                        *)
LEMMA BalancedDone ==
  ASSUME NEW q \in 0 .. SeqMod - 1, NEW s \in 0 .. SeqMod - 1, NEW k \in 0 .. SeqMod - 1,
         NEW n \in 1 .. 2, Balanced(q, s, k, n)
  PROVE  /\ Balanced(q, Inc(s, SeqMod), k, n - 1)
         /\ Balanced(q, s, Inc(k, SeqMod), n - 1)
BY WireAssumption DEF Balanced, Inc

(* arm_tx with no other frame around: one outstanding, or one skipped.      *)
LEMMA ArmTxCounts ==
  ASSUME NEW ok \in BOOLEAN, NEW i \in 0 .. 1, ArmTx(i, ok), ~ s_pending'
  PROVE  \/ Outstanding' = 1 /\ s_skipped' = s_skipped
         \/ Outstanding' = 0 /\ s_skipped' = Inc(s_skipped, SeqMod)
BY DEF ArmTx, Outstanding

(* The balance is kept by every step that is not an SPI error.              *)
LEMMA BalancedStep ==
  ASSUME TypeOK, Handshake, [Next]_stmVars, g_spi_err' = g_spi_err,
         Balanced(s_seq, s_sent, s_skipped, Outstanding)
  PROVE  Balanced(s_seq, s_sent, s_skipped, Outstanding)'
<1>1. /\ s_seq \in 0 .. SeqMod - 1
      /\ s_sent \in 0 .. SeqMod - 1
      /\ s_skipped \in 0 .. SeqMod - 1
      /\ s_tx_idx \in {-1, 0, 1}
      /\ Outstanding \in 0 .. 2
  BY DEF TypeOK, SendTypeOK, Outstanding
<1>2. ASSUME NEW ok \in BOOLEAN, BlockReady(ok)
      PROVE  Balanced(s_seq', s_sent', s_skipped', Outstanding')
  <2>1. s_seq' = Inc(s_seq, SeqMod) /\ s_sent' = s_sent
    BY <1>2 DEF BlockReady
  <2>2. CASE s_tx_idx < 0 /\ ArmTx(Other(s_tx_idx), ok) /\ UNCHANGED s_pending
    <3>1. Outstanding = 0 /\ ~ s_pending'
      BY <1>1, <2>2 DEF Outstanding, Handshake
    <3> QED
      BY <1>1, <2>1, <2>2, <3>1, ArmTxCounts, OtherBuffer, BalancedNumbered
  <2>3. CASE /\ s_tx_idx >= 0
             /\ s_skipped' = SkippedByWaiting
             /\ s_pending' = TRUE
             /\ UNCHANGED <<s_tx_idx, dr, spi>>
    <3>1. Outstanding' = 2
      BY <2>3 DEF Outstanding
    <3>2. CASE s_pending
      BY <1>1, <2>1, <2>3, <3>1, <3>2, BalancedNumbered DEF Outstanding, SkippedByWaiting
    <3>3. CASE ~ s_pending
      BY <1>1, <2>1, <2>3, <3>1, <3>3, BalancedNumbered DEF Outstanding, SkippedByWaiting
    <3> QED
      BY <3>2, <3>3
  <2> QED
    BY <1>2, <2>2, <2>3 DEF BlockReady
<1>3. ASSUME NEW ok \in BOOLEAN, TxRxCplt(ok)
      PROVE  Balanced(s_seq', s_sent', s_skipped', Outstanding')
  <2>1. s_seq' = s_seq /\ s_sent' = Inc(s_sent, SeqMod) /\ ~ s_pending' /\ s_tx_idx >= 0
    BY <1>1, <1>3 DEF TxRxCplt, Handshake
  <2>2. CASE s_pending /\ ArmTx(NextToArm, ok)
    <3>1. Outstanding = 2
      BY <2>1, <2>2 DEF Outstanding
    <3>2. Balanced(s_seq', s_sent', s_skipped, 1)
      BY <1>1, <2>1, <3>1, BalancedDone
    <3>3. s_sent' \in 0 .. SeqMod - 1
      BY <1>1, <2>1, IncInRange, WireAssumption
    <3>4. Balanced(s_seq', s_sent', Inc(s_skipped, SeqMod), 0)
      BY <1>1, <2>1, <3>2, <3>3, BalancedDone
    <3> QED
      BY <2>1, <2>2, <3>2, <3>4, ArmTxCounts, OtherBuffer DEF NextToArm
  <2>3. CASE ~ s_pending /\ GoIdle /\ UNCHANGED s_skipped
    <3>1. Outstanding = 1 /\ Outstanding' = 0
      BY <2>1, <2>3 DEF Outstanding, GoIdle
    <3> QED
      BY <1>1, <2>1, <2>3, <3>1, BalancedDone
  <2> QED
    BY <1>3, <2>2, <2>3 DEF TxRxCplt
<1>4. ASSUME NEW ok \in BOOLEAN, SpiError(ok) PROVE FALSE
  BY <1>4 DEF SpiError, TypeOK, SendTypeOK
<1>5. ASSUME \/ \E input \in Inputs, whole \in BOOLEAN : SpiTransfer(input, whole)
             \/ \E ok \in BOOLEAN : MainLoop(ok)
             \/ UNCHANGED stmVars
      PROVE  UNCHANGED <<s_seq, s_sent, s_skipped, s_tx_idx, s_pending>>
  BY <1>5 DEF SpiTransfer, MainLoop, stmVars, sendVars, txVars
<1>6. CASE \/ \E input \in Inputs, whole \in BOOLEAN : SpiTransfer(input, whole)
           \/ \E ok \in BOOLEAN : MainLoop(ok)
           \/ UNCHANGED stmVars
  BY <1>5, <1>6 DEF Outstanding
<1> QED
  BY <1>2, <1>3, <1>4, <1>6 DEF Next, StmInterrupt

(* As long as no SPI error occurred, every frame that got a sequence number *)
(* was sent, was counted as skipped, is in flight or waits, for every width *)
(* of the counters.                                                         *)
THEOREM Accounted == Spec => []FramesAccounted
<1> DEFINE Inv == g_spi_err = 0 => Balanced(s_seq, s_sent, s_skipped, Outstanding)
<1>1. StmInit => Inv
  BY DEF StmInit, SendInit, Balanced, Outstanding
<1>2. TypeOK /\ Handshake /\ Inv /\ [Next]_stmVars => Inv'
  <2> SUFFICES ASSUME TypeOK, Handshake, Inv, [Next]_stmVars, g_spi_err' = 0
               PROVE  Balanced(s_seq, s_sent, s_skipped, Outstanding)'
    OBVIOUS
  <2>1. g_spi_err' = g_spi_err
    <3>1. CASE \E ok \in BOOLEAN : SpiError(ok)
      BY <3>1 DEF SpiError, TypeOK, SendTypeOK
    <3>2. CASE ~ (\E ok \in BOOLEAN : SpiError(ok))
      BY <3>2 DEF Next, StmInterrupt, BlockReady, TxRxCplt, SpiTransfer, MainLoop, stmVars,
                  sendVars, txVars
    <3> QED
      BY <3>1, <3>2
  <2> QED
    BY <2>1, BalancedStep
<1>3. TypeOK /\ Inv => FramesAccounted
  BY AccountedForms
<1> QED
  BY <1>1, <1>2, <1>3, TypeCorrect, HandshakeHolds, PTL DEF Spec

-----------------------------------------------------------------------------
(* Acquisition.                                                            *)

(* Where service is about to change the row count and to arm the stream     *)
(* again, and where it has switched the stream off and not yet the flag,    *)
(* there is no stream.                                                      *)
SwitchedOff ==
  pc \in {"program", "rearm"} \/ (pc = "set_running" /\ local.run = MOTOR_RUN_STOP) => adc_dma = 0

(* Together with the two facts about the stream this is inductive.          *)
StreamInv == RowsMatchDma /\ StoppedMeansSilent /\ SwitchedOff

(* One access of motor_acquire_service keeps the stream consistent.         *)
LEMMA ServiceStream ==
  ASSUME AcquireTypeOK, StreamInv, NEW ok \in BOOLEAN, Service(ok)
  PROVE  StreamInv'
<1> USE DEF StreamInv, RowsMatchDma, StoppedMeansSilent, SwitchedOff, Goto
<1>1. CASE StopAdc
  BY <1>1 DEF StopAdc, AdcStopped
<1>2. CASE Program
  BY <1>2 DEF Program
<1>3. CASE Rearm(ok)
  BY <1>3 DEF Rearm, Rearmed
<1>4. CASE SwitchAdc
  BY <1>4 DEF SwitchAdc, AcquireTypeOK
<1>5. CASE SetRunning
  BY <1>5 DEF SetRunning, AcquireTypeOK
<1>6. CASE ReadRate \/ ReadRows \/ ClearRate \/ ClearRows \/ ReadImu \/ ClearImu
             \/ ReadRun \/ ClearRun
  BY <1>6 DEF ReadRate, ReadRows, ClearRate, ClearRows, ReadImu, ClearImu, ReadRun, ClearRun,
              programmed
<1> QED
  BY <1>1, <1>2, <1>3, <1>4, <1>5, <1>6 DEF Service

(* While the stream runs it is armed for the rows the block interrupt       *)
(* splits by, and while the acquisition is stopped there is no stream, at   *)
(* every point where an interrupt can cut motor_acquire_service in two.     *)
THEOREM StreamConsistent == Spec => [](RowsMatchDma /\ StoppedMeansSilent)
<1>1. StmInit => StreamInv
  BY DEF StmInit, AcquireInit, StreamInv, RowsMatchDma, StoppedMeansSilent, SwitchedOff
<1>2. TypeOK /\ StreamInv /\ [Next]_stmVars => StreamInv'
  <2> SUFFICES ASSUME TypeOK, StreamInv, [Next]_stmVars PROVE StreamInv'
    OBVIOUS
  <2>1. CASE \E ok \in BOOLEAN : MainLoop(ok)
    BY <2>1, ServiceStream DEF MainLoop, TypeOK
  <2>2. CASE ~ \E ok \in BOOLEAN : MainLoop(ok)
    <3>1. UNCHANGED <<programmed, pc, local>>
      BY <2>2 DEF Next, StmInterrupt, BlockReady, TxRxCplt, SpiError, SpiTransfer, acquireVars,
                  stmVars
    <3> QED
      BY <3>1 DEF programmed, StreamInv, RowsMatchDma, StoppedMeansSilent, SwitchedOff
  <2> QED
    BY <2>1, <2>2
<1> QED
  BY <1>1, <1>2, TypeCorrect, PTL DEF Spec, StreamInv

(* A stopped acquisition is never woken by a reconfiguration that arrives   *)
(* meanwhile, at whatever access of motor_acquire_service the stop or the   *)
(* reconfiguration came in.                                                 *)
THEOREM StoppedIsSilent == Spec => []StoppedMeansSilent
BY StreamConsistent, PTL
=============================================================================
