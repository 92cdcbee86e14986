------------------------------ MODULE MotorSend ------------------------------
(***************************************************************************)
(* The STM32 firmware: stm/src/motor_send.c (double-buffered frames, the   *)
(* data-ready line, commands sniffed from the master) driven by the blocks *)
(* of MotorAcquire.  Every action but Service is one interrupt handler and *)
(* runs to completion; the main loop's Service steps interleave with them. *)
(***************************************************************************)
EXTENDS MotorAcquire

CONSTANTS
  Inputs,     \* what the master may clock in: commands or NoCmd
  MaxSpiErr   \* bound on the SPI errors of a behaviour

VARIABLES
  s_seq, s_frame,
  s_tx_idx,               \* buffer handed to the DMA, -1 if none
  s_pending,              \* the other buffer holds a frame that waits
  s_sent, s_skipped, g_spi_err,
  dr,                     \* the data-ready pin
  spi,                    \* SPI2 and its DMA: "idle", "armed", "done"
  s_rx_dummy,             \* what a finished transfer received
  s_pending_cmd,          \* NoCmd stands for s_cmd_pending = 0
  s_latched_ack_flags, s_latched_cmd_seq, s_config_applied_latch,
  s_last_applied_seq, s_have_last_applied, s_active_config

txVars  == <<s_seq, s_frame, s_tx_idx, s_pending, s_sent, s_skipped, g_spi_err,
             dr, spi, s_rx_dummy>>
ackVars == <<s_latched_ack_flags, s_latched_cmd_seq, s_config_applied_latch,
             s_last_applied_seq, s_have_last_applied, s_active_config>>
cmdVars == <<s_pending_cmd, ackVars>>
sendVars == <<txVars, cmdVars>>
stmVars  == <<acquireVars, sendVars>>

SendTypeOK ==
  /\ s_seq \in 0 .. SeqMod - 1
  /\ s_frame \in [0 .. 1 -> Frame]
  /\ s_tx_idx \in {-1, 0, 1}
  /\ s_pending \in BOOLEAN
  /\ s_sent \in 0 .. SeqMod - 1
  /\ s_skipped \in 0 .. SeqMod - 1
  /\ g_spi_err \in Nat
  /\ dr \in BOOLEAN
  /\ spi \in {"idle", "armed", "done"}
  /\ s_rx_dummy \in Command \union {NoCmd}
  /\ s_pending_cmd \in Command \union {NoCmd}
  /\ s_latched_ack_flags \in AckFlags
  /\ s_latched_cmd_seq \in 0 .. CmdMod - 1
  /\ s_config_applied_latch \in BOOLEAN
  /\ s_last_applied_seq \in 0 .. CmdMod - 1
  /\ s_have_last_applied \in BOOLEAN
  /\ s_active_config \in Config

\* Every firmware variable has its C type's range.
TypeOK == AcquireTypeOK /\ SendTypeOK

\* Static initialisers and motor_send_init.
SendInit ==
  /\ s_seq = 0
  /\ s_frame = [i \in 0 .. 1 |-> ZeroFrame]
  /\ s_tx_idx = -1
  /\ s_pending = FALSE
  /\ s_sent = 0
  /\ s_skipped = 0
  /\ g_spi_err = 0
  /\ dr = FALSE
  /\ spi = "idle"
  /\ s_rx_dummy = NoCmd
  /\ s_pending_cmd = NoCmd
  /\ s_latched_ack_flags = "none"
  /\ s_latched_cmd_seq = 0
  /\ s_config_applied_latch = FALSE
  /\ s_last_applied_seq = CmdMod - 1
  /\ s_have_last_applied = FALSE
  /\ s_active_config = DefaultConfig

-----------------------------------------------------------------------------
(* process_pending_cmd                                                     *)

\* The range test, which lets SOURCE_SYNTH (0) through.
InRange(p) ==
  /\ p.block_rows \in 1 .. MaxRows
  /\ p.source \in 0 .. MOTOR_SOURCE_ADC
  /\ p.run_state \in {MOTOR_RUN_STOP, MOTOR_RUN_RUN}
  /\ p.sample_rate_hz = 0 \/ (100 <= p.sample_rate_hz /\ p.sample_rate_hz <= 100000)
  /\ p.imu_rate_hz = 0 \/ (10 <= p.imu_rate_hz /\ p.imu_rate_hz <= 1000)

\* Mutant: every command is new.
NeverDuplicate(c) == FALSE

\* The Pi repeats a command until it sees the answer.
IsDuplicate(c) == s_have_last_applied /\ c.cmd_seq = s_last_applied_seq

\* The tests in the order the code makes them.
Verdict(c) ==
  IF ~c.crc_ok THEN "nack_crc"
  ELSE IF ~c.schema_ok THEN "nack_ver"
  ELSE IF c.cmd = "PING" THEN "ping"
  ELSE IF c.cmd # "SET_CONFIG" THEN "nack_cmd"
  ELSE IF IsDuplicate(c) THEN "duplicate"
  ELSE IF ~InRange(c.payload) THEN "nack_range"
  ELSE IF c.payload.source # MOTOR_SOURCE_ADC THEN "nack_source"
  ELSE "apply"

\* The flags each outcome latches; a wrong source is a range error too.
AckOf(v) == CASE v = "nack_source" -> "nack_range"
              [] v \in AckFlags    -> v
              [] OTHER             -> "ok"

\* The source is only refused after the setters were called.
CallsSetters(v) == v \in {"apply", "nack_source"}

ProcessCmd(c) ==
  LET v == Verdict(c) IN
  /\ s_pending_cmd' = NoCmd
  /\ s_latched_cmd_seq' = c.cmd_seq
  /\ s_latched_ack_flags' = AckOf(v)
  /\ s_config_applied_latch' = (v = "apply")
  /\ s_last_applied_seq' = IF v = "apply" THEN c.cmd_seq ELSE s_last_applied_seq
  /\ s_have_last_applied' = (s_have_last_applied \/ v = "apply")
  /\ s_active_config' = IF v = "apply" THEN c.payload ELSE s_active_config
  /\ IF CallsSetters(v) THEN Request(c.payload, s_active_config) ELSE UNCHANGED requests

\* The tail of the block interrupt; assemble_frame has consumed the one-shot.
ProcessPendingCmd ==
  \/ /\ s_pending_cmd = NoCmd
     /\ s_config_applied_latch' = FALSE
     /\ UNCHANGED <<s_pending_cmd, s_latched_ack_flags, s_latched_cmd_seq,
                    s_last_applied_seq, s_have_last_applied, s_active_config, requests>>
  \/ /\ s_pending_cmd # NoCmd
     /\ ProcessCmd(s_pending_cmd)

-----------------------------------------------------------------------------
(* arm_tx: the HAL may refuse the DMA (ok = FALSE), then the frame is      *)
(* skipped and the line stays low.                                         *)
ArmTx(idx, ok) ==
  /\ s_tx_idx' = IF ok THEN idx ELSE -1
  /\ s_skipped' = IF ok THEN s_skipped ELSE Inc(s_skipped, SeqMod)
  /\ dr' = ok
  /\ spi' = IF ok THEN "armed" ELSE "idle"

\* Mutant: blocks are built in the buffer named by s_tx_idx itself.
OtherIsFree(idx) == IF idx = 1 THEN 1 ELSE 0

\* The buffer that is not idx.
Other(idx) == IF idx = 0 THEN 1 ELSE 0

AssembledFrame(n) ==
  [seq |-> s_seq, ack |-> s_latched_ack_flags, config_applied |-> s_config_applied_latch,
   reserved |-> s_latched_cmd_seq, n_rows |-> n]

\* Mutant: the overwritten frame is not counted.
OverwriteUncounted == s_skipped

\* A block that becomes ready while another one waits overwrites it.
SkippedByWaiting == IF s_pending THEN Inc(s_skipped, SeqMod) ELSE s_skipped

\* ADC half/full callback -> fill_rows -> motor_on_block_ready.
BlockReady(ok) ==
  /\ adc_dma # 0
  /\ s_frame' = [s_frame EXCEPT ![Other(s_tx_idx)] = AssembledFrame(s_block_rows)]
  /\ s_seq' = Inc(s_seq, SeqMod)
  /\ \/ s_tx_idx < 0 /\ ArmTx(Other(s_tx_idx), ok) /\ UNCHANGED s_pending
     \/ /\ s_tx_idx >= 0
        /\ s_skipped' = SkippedByWaiting
        /\ s_pending' = TRUE
        /\ UNCHANGED <<s_tx_idx, dr, spi>>
  /\ ProcessPendingCmd
  /\ UNCHANGED <<s_sent, g_spi_err, s_rx_dummy, programmed, pc, local>>

\* The master clocks the whole buffer, or gives up before its end.
SpiTransfer(input, whole) ==
  /\ spi = "armed"
  /\ spi' = IF whole THEN "done" ELSE "armed"
  /\ s_rx_dummy' = input
  /\ UNCHANGED <<s_seq, s_frame, s_tx_idx, s_pending, s_sent, s_skipped, g_spi_err, dr,
                 cmdVars, acquireVars>>

\* Mutant: the buffer just sent is sent again.
SameBuffer == s_tx_idx

\* The completion hands over the other buffer, if a frame waits there.
NextToArm == Other(s_tx_idx)

\* Mutant: the index of the finished transfer is left behind.
GoIdleKeepingIndex == UNCHANGED s_tx_idx /\ dr' = FALSE /\ spi' = "idle"

\* Nothing waits: no buffer, the line low.
GoIdle == s_tx_idx' = -1 /\ dr' = FALSE /\ spi' = "idle"

\* A command is taken only when none waits to be processed.
Sniffed == IF s_pending_cmd = NoCmd THEN s_rx_dummy ELSE s_pending_cmd

TxRxCplt(ok) ==
  /\ spi = "done"
  /\ s_sent' = Inc(s_sent, SeqMod)
  /\ s_pending_cmd' = Sniffed
  /\ s_rx_dummy' = NoCmd
  /\ s_pending' = FALSE
  /\ \/ s_pending /\ ArmTx(NextToArm, ok)
     \/ ~s_pending /\ GoIdle /\ UNCHANGED s_skipped
  /\ UNCHANGED <<s_seq, s_frame, g_spi_err, ackVars, acquireVars>>

\* HAL reports errors only for a transfer it was given: it enables the error
\* interrupt with the DMA and disables it with the completion, so the buffer 0
\* the callback falls back to is never the one armed.
SpiError(ok) ==
  /\ spi # "idle"
  /\ g_spi_err < MaxSpiErr
  /\ g_spi_err' = g_spi_err + 1
  /\ s_pending' = FALSE
  /\ s_rx_dummy' = NoCmd
  /\ ArmTx(IF s_tx_idx >= 0 THEN s_tx_idx ELSE 0, ok)
  /\ UNCHANGED <<s_seq, s_frame, s_sent, cmdVars, acquireVars>>

\* A HAL that refuses the ADC's DMA is the only ok = FALSE that differs.
MainLoop(ok) == Service(ok) /\ UNCHANGED sendVars

-----------------------------------------------------------------------------
StmInit == AcquireInit /\ SendInit

\* Power or watchdog reset: every static is back at its initial value.
StmReset ==
  /\ s_block_rows' = DefaultConfig.block_rows
  /\ s_sample_rate_hz' = DefaultConfig.sample_rate_hz
  /\ s_imu_rate_hz' = DefaultConfig.imu_rate_hz
  /\ s_running' = TRUE
  /\ adc_dma' = DefaultConfig.block_rows
  /\ s_pending_block_rows' = 0
  /\ s_pending_sample_rate' = 0
  /\ s_pending_imu_rate' = 0
  /\ s_pending_run_state' = NoRequest
  /\ pc' = "rate"
  /\ local' = NoLocals
  /\ s_seq' = 0
  /\ s_frame' = [i \in 0 .. 1 |-> ZeroFrame]
  /\ s_tx_idx' = -1
  /\ s_pending' = FALSE
  /\ s_sent' = 0
  /\ s_skipped' = 0
  /\ g_spi_err' = 0
  /\ dr' = FALSE
  /\ spi' = "idle"
  /\ s_rx_dummy' = NoCmd
  /\ s_pending_cmd' = NoCmd
  /\ s_latched_ack_flags' = "none"
  /\ s_latched_cmd_seq' = 0
  /\ s_config_applied_latch' = FALSE
  /\ s_last_applied_seq' = CmdMod - 1
  /\ s_have_last_applied' = FALSE
  /\ s_active_config' = DefaultConfig

StmInterrupt(ok) == BlockReady(ok) \/ TxRxCplt(ok) \/ SpiError(ok)

Next ==
  \/ \E ok \in BOOLEAN : StmInterrupt(ok) \/ MainLoop(ok)
  \/ \E input \in Inputs, whole \in BOOLEAN : SpiTransfer(input, whole)

Spec == StmInit /\ [][Next]_stmVars

ASSUME SendAssumption ==
  /\ Inputs \subseteq Command \union {NoCmd}
  /\ MaxSpiErr \in Nat
  /\ DefaultConfig \in Config
  /\ InRange(DefaultConfig)
  /\ DefaultConfig.source = MOTOR_SOURCE_ADC

-----------------------------------------------------------------------------
(* The data-ready handshake: the line is high exactly while a buffer is in  *)
(* the DMA's hands, and a frame waits only behind one that is.  A frame     *)
(* waiting behind nothing would never be sent, a line stuck high would make *)
(* the Pi clock an unarmed slave (arm_tx, TxRxCplt and Error callbacks).    *)
Handshake ==
  /\ dr <=> s_tx_idx >= 0
  /\ dr <=> spi # "idle"
  /\ s_pending => s_tx_idx >= 0

(* The frame on the wire never changes under the DMA: no block that becomes *)
(* ready during a transfer is assembled into the buffer being sent (the     *)
(* choice of `build` in motor_on_block_ready).                              *)
InFlightFrameStable ==
  [][s_tx_idx >= 0 /\ s_tx_idx' = s_tx_idx => s_frame'[s_tx_idx] = s_frame[s_tx_idx]]_stmVars

(* Every frame numbered by the firmware is accounted for: sent, counted in  *)
(* s_skipped, in flight or waiting, however blocks, completions and refused *)
(* arms interleave and whatever counter wraps, as long as no SPI error      *)
(* occurred (the Pi reads the gaps of seq as drops).                        *)
FramesAccounted ==
  g_spi_err = 0 =>
    \E wraps \in 0 .. 2 :
      s_seq + wraps * SeqMod
        = s_sent + s_skipped + (IF s_tx_idx >= 0 THEN 1 ELSE 0) + (IF s_pending THEN 1 ELSE 0)

(* A buffer is handed to the DMA only while it holds the newest block       *)
(* assembled, so the ping-pong never puts an older block on the wire after  *)
(* a newer one; the retransmission after an SPI error is the one exception. *)
ArmsNewestFrame ==
  [][spi # "armed" /\ spi' = "armed" /\ g_spi_err' = g_spi_err =>
       Inc(s_frame'[s_tx_idx'].seq, SeqMod) = s_seq']_stmVars

(* Comment at motor_send.c:318: the active config is what was programmed,   *)
(* so with no request open and service not in the middle of one, the        *)
(* acquisition runs what the firmware acknowledged.                         *)
ProgrammedIsActive ==
  (requests = <<0, 0, 0, NoRequest>> /\ local = NoLocals) =>
    /\ s_block_rows = s_active_config.block_rows
    /\ s_active_config.sample_rate_hz \in {0, s_sample_rate_hz}
    /\ s_active_config.imu_rate_hz \in {0, s_imu_rate_hz}
    /\ s_running = (s_active_config.run_state = MOTOR_RUN_RUN)
=============================================================================
