--------------------------- MODULE MotorLink_proofs ---------------------------
(***************************************************************************)
(* The two boards joined by the wire, for every row limit, set of configs, *)
(* bound on the retries and on the faults: damaged frames and commands,    *)
(* abandoned exchanges, refused arms, SPI errors and resets of the STM32   *)
(* in any number and at any step.                                          *)
(***************************************************************************)
EXTENDS MotorLink, MotorSend_proofs, MotorController_proofs

-----------------------------------------------------------------------------
(* Type correctness.                                                       *)

(* Damage leaves a command a command, or takes its magic away.              *)
LEMMA DamagedType ==
  ASSUME NEW t \in Command, NEW c \in Damaged(t)
  PROVE  c \in Command \union {NoCmd}
<1>1. 0 \in 0 .. CmdMod - 1
  BY WireAssumption
<1> QED  BY <1>1 DEF Damaged, Command

(* Which steps of the link are steps of the firmware, and with what input.  *)
LEMMA LinkIsFirmwareStep ==
  ASSUME TypeOK, ControllerTypeOK, [LinkNext]_linkVars
  PROVE  [FirmwareStep]_stmVars
<1>1. TxFrame \in Command \union {NoCmd} /\ s_rx_dummy \in Command \union {NoCmd}
  BY TxFrameType DEF TypeOK, SendTypeOK
<1>2. CASE StmStep \/ StmRefusedArm \/ StmAdcRefused \/ StmSpiError \/ LinkStmReset
  BY <1>2 DEF StmStep, StmRefusedArm, StmAdcRefused, StmSpiError, LinkStmReset, FirmwareStep,
              StmInterrupt
<1>3. CASE Exchange \/ ExchangeRxDamaged \/ ExchangeOutOfStep
  BY <1>1, <1>3 DEF Exchange, ExchangeRxDamaged, ExchangeOutOfStep, FirmwareStep
<1>4. CASE ExchangeTxDamaged
  <2>1. PICK c \in Damaged(TxFrame) : SpiTransfer(c, TRUE)
    BY <1>4 DEF ExchangeTxDamaged
  <2>2. c \in Command \union {NoCmd}
    BY <1>1, <1>4, DamagedType DEF ExchangeTxDamaged
  <2> QED  BY <2>1, <2>2 DEF FirmwareStep
<1>6. CASE ExchangeInterrupted
  <2>1. PICK c \in Begun, whole \in BOOLEAN : SpiTransfer(c, whole)
    BY <1>6 DEF ExchangeInterrupted, Begun
  <2>2. c \in Command \union {NoCmd}
    BY <1>1, DamagedType DEF Begun
  <2> QED  BY <2>1, <2>2 DEF FirmwareStep
<1>5. CASE ExchangeStaleLine \/ PiReload \/ PiReopen \/ PiRestart \/ UNCHANGED linkVars
  BY <1>5 DEF ExchangeStaleLine, PiReload, PiReopen, PiRestart, linkVars
<1> QED  BY <1>2, <1>3, <1>4, <1>5, <1>6 DEF LinkNext

(* The controller's types are kept by every step of the link.               *)
LEMMA ControllerStep ==
  ASSUME ControllerTypeOK, [LinkNext]_linkVars
  PROVE  ControllerTypeOK'
<1>1. CASE UNCHANGED piVars
  BY <1>1 DEF piVars, ControllerTypeOK
<1>2. CASE Exchange \/ ExchangeRxDamaged \/ ExchangeTxDamaged \/ ExchangeOutOfStep
             \/ ExchangeStaleLine
  BY <1>2, ReceiveType DEF Exchange, ExchangeRxDamaged, ExchangeTxDamaged, ExchangeOutOfStep,
                           ExchangeStaleLine
<1>3. CASE PiReload \/ PiReopen
  <2>1. cfg_stm \in Config /\ Configs \subseteq Config
    BY ControllerAssumption DEF ControllerTypeOK
  <2> QED  BY <1>3, <2>1, ReloadType DEF PiReload, PiReopen
<1>4. CASE PiRestart
  BY <1>4, StartupType, ControllerAssumption DEF PiRestart
<1> QED
  BY <1>1, <1>2, <1>3, <1>4 DEF LinkNext, StmStep, StmRefusedArm, StmAdcRefused, StmSpiError,
                                LinkStmReset, ExchangeInterrupted, linkVars

(* Only a fault puts the boards out of step.                                *)
CutIsFault == cut \in BOOLEAN /\ (cut => faults # 0)

LEMMA CutStep ==
  ASSUME CutIsFault, faults \in 0 .. MaxFaults, [LinkNext]_linkVars
  PROVE  CutIsFault'
<1>0. cut' \in BOOLEAN
  BY DEF LinkNext, StmStep, StmRefusedArm, StmAdcRefused, StmSpiError, LinkStmReset, Exchange,
    ExchangeRxDamaged, ExchangeTxDamaged, ExchangeInterrupted, ExchangeOutOfStep, ExchangeStaleLine,
    PiReload, PiReopen, PiRestart, linkVars, CutIsFault
<1>1. CASE Fault
  <2>1. faults' # 0
    BY <1>1, LinkAssumption DEF Fault
  <2> QED  BY <1>0, <2>1 DEF CutIsFault
<1>2. ASSUME faults' = faults, cut' => cut PROVE CutIsFault'
  BY <1>0, <1>2 DEF CutIsFault
<1>3. CASE StmStep
  <2>1. cut' = (cut /\ spi' # "idle") /\ faults' = faults
    BY <1>3 DEF StmStep
  <2> QED  BY <1>2, <2>1
<1>4. CASE StmSpiError
  BY <1>2, <1>4 DEF StmSpiError
<1>5. CASE ExchangeOutOfStep
  BY <1>2, <1>5 DEF ExchangeOutOfStep
<1>6. CASE Exchange \/ PiReload \/ PiRestart \/ UNCHANGED linkVars
  <2>1. cut' = cut /\ faults' = faults
    BY <1>6 DEF Exchange, PiReload, PiRestart, linkVars
  <2> QED  BY <1>2, <2>1
<1>7. CASE StmRefusedArm \/ StmAdcRefused \/ LinkStmReset \/ ExchangeRxDamaged
             \/ ExchangeTxDamaged \/ ExchangeInterrupted \/ ExchangeStaleLine \/ PiReopen
  <2>1. Fault
    BY <1>7 DEF StmRefusedArm, StmAdcRefused, LinkStmReset, ExchangeRxDamaged, ExchangeTxDamaged,
                ExchangeInterrupted, ExchangeStaleLine, PiReopen
  <2> QED  BY <1>1, <2>1
<1> QED  BY <1>3, <1>4, <1>5, <1>6, <1>7 DEF LinkNext

(* The counters of the environment stay within their bounds.                *)
LEMMA EnvironmentStep ==
  ASSUME faults \in 0 .. MaxFaults, restarts \in 0 .. MaxRestarts, [LinkNext]_linkVars
  PROVE  faults' \in 0 .. MaxFaults /\ restarts' \in 0 .. MaxRestarts
<1>1. CASE Fault /\ UNCHANGED restarts
  BY <1>1, LinkAssumption DEF Fault
<1>2. CASE PiRestart
  BY <1>2, LinkAssumption DEF PiRestart
<1>3. CASE UNCHANGED <<faults, restarts>>
  BY <1>3
<1> QED
  BY <1>1, <1>2, <1>3 DEF LinkNext, StmStep, StmRefusedArm, StmAdcRefused, StmSpiError,
    LinkStmReset, Exchange, ExchangeRxDamaged, ExchangeTxDamaged, ExchangeInterrupted,
    ExchangeOutOfStep, ExchangeStaleLine, PiReload, PiReopen, linkVars

(* The types, with the handshake of the firmware: a line that is high names *)
(* a buffer.                                                                *)
LinkTyped == LinkTypeOK /\ Handshake /\ CutIsFault

(* The initial states are well typed.                                       *)
LEMMA LinkTypeInit == LinkInit => LinkTyped
<1> SUFFICES ASSUME LinkInit PROVE LinkTyped
  OBVIOUS
<1>1. TypeOK /\ Handshake
  BY TypeInit DEF LinkInit, StmInit, SendInit, Handshake
<1>2. ControllerTypeOK
  BY StartupType, ControllerAssumption DEF LinkInit
<1>3. CutIsFault
  BY DEF LinkInit, CutIsFault
<1>4. faults \in 0 .. MaxFaults /\ restarts \in 0 .. MaxRestarts
  BY LinkAssumption DEF LinkInit
<1> QED  BY <1>1, <1>2, <1>3, <1>4 DEF LinkTyped, LinkTypeOK, CutIsFault

(* Every step of the link keeps the types of both boards.                   *)
LEMMA LinkTypeStep == LinkTyped /\ [LinkNext]_linkVars => LinkTyped'
<1> SUFFICES ASSUME LinkTyped, [LinkNext]_linkVars PROVE LinkTyped'
  OBVIOUS
<1>1. TypeOK' /\ Handshake'
  BY LinkIsFirmwareStep, TypeFirmware, HandshakeFirmware DEF LinkTyped, LinkTypeOK
<1>2. ControllerTypeOK' /\ CutIsFault' /\ faults' \in 0 .. MaxFaults
      /\ restarts' \in 0 .. MaxRestarts
  BY ControllerStep, CutStep, EnvironmentStep DEF LinkTyped, LinkTypeOK
<1> QED  BY <1>1, <1>2 DEF LinkTyped, LinkTypeOK, CutIsFault

(* Both boards' variables keep their types, whatever is damaged, lost,      *)
(* reset or restarted.                                                      *)
THEOREM LinkTypeCorrect == LinkSpec => []LinkTypeOK
<1>1. LinkSpec => []LinkTyped
  BY LinkTypeInit, LinkTypeStep, PTL DEF LinkSpec
<1> QED  BY <1>1, PTL DEF LinkTyped

-----------------------------------------------------------------------------
(* Acknowledgements.  The sequence numbers of one controller process only   *)
(* grow, so along the way a command takes (the receive buffer, the sniffed  *)
(* command, the last one applied, the latched answer, the frames) they fall *)
(* in the order of the way.                                                 *)

(* The command in g_cmd is the newest one of this process.                  *)
CurrentSeq == g_cmd.seq \in 1 .. MaxCmds

(* What the firmware received is from this process, not newer than its      *)
(* command; an undamaged copy of that very command carries its payload.     *)
Received(c) ==
  c # NoCmd =>
    /\ c.cmd_seq <= g_cmd.seq
    /\ c.crc_ok => /\ c.cmd = "SET_CONFIG" /\ c.schema_ok
                   /\ c.cmd_seq >= 1
                   /\ c.cmd_seq = g_cmd.seq => c.payload = g_cmd.payload

(* The command waiting to be processed was clocked in before the one in the *)
(* receive buffer.                                                          *)
ReceivedInOrder ==
  /\ Received(s_rx_dummy)
  /\ Received(s_pending_cmd)
  /\ s_rx_dummy # NoCmd /\ s_pending_cmd # NoCmd /\ s_rx_dummy.crc_ok /\ s_pending_cmd.crc_ok =>
       s_pending_cmd.cmd_seq <= s_rx_dummy.cmd_seq

(* Nothing older than the last command applied is still on its way.         *)
NotBefore(c) == c # NoCmd /\ c.crc_ok => s_last_applied_seq <= c.cmd_seq

(* The last command applied: if it is the Pi's, its config is the active    *)
(* one.                                                                     *)
LastApplied ==
  s_have_last_applied =>
    /\ s_last_applied_seq <= g_cmd.seq
    /\ s_last_applied_seq = g_cmd.seq => s_active_config = g_cmd.payload
    /\ NotBefore(s_rx_dummy)
    /\ NotBefore(s_pending_cmd)

(* An ACK is latched for the last command applied only, and the one-shot of *)
(* CONFIG_APPLIED with it.                                                  *)
LatchedLast ==
  s_latched_ack_flags = "ok" \/ s_config_applied_latch =>
    s_have_last_applied /\ s_latched_cmd_seq = s_last_applied_seq

(* A frame that acknowledges or announces names no newer command than that; *)
(* while another announcement is due, an older one.                         *)
FrameOfApplied(f) ==
  /\ f.ack = "ok" \/ f.config_applied => s_have_last_applied /\ f.reserved <= s_last_applied_seq
  /\ f.config_applied /\ s_config_applied_latch => f.reserved < s_last_applied_seq

FramesOfApplied == \A i \in 0 .. 1 : FrameOfApplied(s_frame[i])

CommandInv ==
  /\ CurrentSeq
  /\ ReceivedInOrder
  /\ LastApplied
  /\ LatchedLast
  /\ FramesOfApplied
  /\ AnnouncedOnce

(* The invariant holds when both boards start.                              *)
LEMMA CommandInit ==
  ASSUME MaxCmds < CmdMod
  PROVE  LinkInit => CommandInv
<1> SUFFICES ASSUME LinkInit PROVE CommandInv
  OBVIOUS
<1>1. PICK p \in Configs : ControllerInit(p)
  BY DEF LinkInit
<1>2. Inc(0, CmdMod) = 1
  BY LinkAssumption, WireAssumption DEF Inc
<1>3. CurrentSeq
  BY <1>1, <1>2, LinkAssumption DEF ControllerInit, Queued, CurrentSeq
<1>4. \A i \in 0 .. 1 : s_frame[i] = ZeroFrame
  BY DEF LinkInit, StmInit, SendInit
<1>5. FramesOfApplied /\ AnnouncedOnce
  BY <1>4 DEF FramesOfApplied, FrameOfApplied, AnnouncedOnce, ZeroFrame
<1> QED
  BY <1>3, <1>5 DEF LinkInit, StmInit, SendInit, CommandInv, ReceivedInOrder, Received, LastApplied,
                    LatchedLast

(* The numbers the order is about.                                          *)
LEMMA CommandNumbers ==
  ASSUME LinkTypeOK
  PROVE  /\ s_last_applied_seq \in Int /\ s_latched_cmd_seq \in Int /\ g_cmd.seq \in Int
         /\ s_rx_dummy # NoCmd => s_rx_dummy \in Command /\ s_rx_dummy.cmd_seq \in Int
         /\ s_pending_cmd # NoCmd => s_pending_cmd \in Command /\ s_pending_cmd.cmd_seq \in Int
         /\ \A i \in 0 .. 1 : s_frame[i].reserved \in Int
BY DEF LinkTypeOK, TypeOK, SendTypeOK, ControllerTypeOK, Command, Frame

(* An ACK answers a command that was not refused.                           *)
LEMMA AckOkOutcome ==
  ASSUME NEW v \in {"nack_crc", "nack_ver", "ping", "nack_cmd", "duplicate", "nack_range",
                    "nack_source", "apply"},
         AckOf(v) = "ok"
  PROVE  v \in {"ping", "duplicate", "apply"}
<1>1. v = "nack_source" => AckOf(v) # "ok"
  BY DEF AckOf
<1>2. v \in {"nack_crc", "nack_ver", "nack_cmd", "nack_range"} => AckOf(v) = v
  BY DEF AckOf, AckFlags
<1> QED  BY <1>1, <1>2

(* The command of the Pi is the same before and after a step.               *)
SameCommand == g_cmd'.seq = g_cmd.seq /\ g_cmd'.payload = g_cmd.payload

(* The block interrupt, on the command it processes.                        *)
LEMMA ProcessInv ==
  ASSUME LinkTypeOK, CommandInv, ProcessPendingCmd, SameCommand, UNCHANGED s_rx_dummy
  PROVE  /\ CurrentSeq' /\ ReceivedInOrder' /\ LastApplied' /\ LatchedLast'
         /\ s_have_last_applied => s_have_last_applied' /\ s_last_applied_seq <= s_last_applied_seq'
         /\ s_config_applied_latch' /\ s_have_last_applied => s_last_applied_seq < s_last_applied_seq'
<1> USE DEF CommandInv, SameCommand
<1>1. CASE s_pending_cmd = NoCmd
  <2>1. /\ s_config_applied_latch' = FALSE
        /\ UNCHANGED <<s_pending_cmd, s_latched_ack_flags, s_latched_cmd_seq,
                       s_last_applied_seq, s_have_last_applied, s_active_config, s_rx_dummy>>
    BY <1>1 DEF ProcessPendingCmd
  <2> QED
    BY <2>1, CommandNumbers
    DEF CurrentSeq, ReceivedInOrder, Received, LastApplied, NotBefore, LatchedLast
<1>2. CASE s_pending_cmd # NoCmd
  <2> DEFINE c == s_pending_cmd
             v == Verdict(c)
  <2>1. ProcessCmd(c) /\ c \in Command /\ c.cmd_seq \in Int
    BY <1>2, CommandNumbers DEF ProcessPendingCmd
  <2>2. /\ s_pending_cmd' = NoCmd /\ s_latched_cmd_seq' = c.cmd_seq
        /\ s_latched_ack_flags' = AckOf(v)
        /\ s_config_applied_latch' = (v = "apply")
        /\ s_last_applied_seq' = IF v = "apply" THEN c.cmd_seq ELSE s_last_applied_seq
        /\ s_have_last_applied' = (s_have_last_applied \/ v = "apply")
        /\ s_active_config' = IF v = "apply" THEN c.payload ELSE s_active_config
    BY <2>1 DEF ProcessCmd
  <2>3. CurrentSeq' /\ ReceivedInOrder'
    BY <2>2 DEF CurrentSeq, ReceivedInOrder, Received
  <2>4. AckOf(v) = "ok" => v \in {"ping", "duplicate", "apply"}
    BY AckOkOutcome DEF Verdict
  <2>5. v # "ping"
    BY <1>2, <2>1 DEF ReceivedInOrder, Received, Verdict
  <2>6. v = "duplicate" => s_have_last_applied /\ c.cmd_seq = s_last_applied_seq
    BY DEF Verdict, IsDuplicate
  <2>7. v = "apply" => c.crc_ok /\ (s_have_last_applied => c.cmd_seq # s_last_applied_seq)
    BY DEF Verdict, IsDuplicate
  <2>8. LatchedLast'
    BY <2>2, <2>4, <2>5, <2>6 DEF LatchedLast
  <2>9. v = "apply" /\ s_have_last_applied => s_last_applied_seq < c.cmd_seq
    BY <1>2, <2>1, <2>7, CommandNumbers DEF LastApplied, NotBefore
  <2>10. LastApplied'
    <3>1. CASE v = "apply"
      <4>1. s_last_applied_seq' = c.cmd_seq /\ s_active_config' = c.payload
        BY <2>2, <3>1
      <4>2. c.cmd_seq <= g_cmd.seq /\ (c.cmd_seq = g_cmd.seq => c.payload = g_cmd.payload)
        BY <1>2, <2>7, <3>1 DEF ReceivedInOrder, Received
      <4>3. s_rx_dummy # NoCmd /\ s_rx_dummy.crc_ok => c.cmd_seq <= s_rx_dummy.cmd_seq
        BY <1>2, <2>7, <3>1 DEF ReceivedInOrder
      <4> QED  BY <2>2, <4>1, <4>2, <4>3 DEF LastApplied, NotBefore
    <3>2. CASE v # "apply"
      BY <2>2, <3>2 DEF LastApplied, NotBefore
    <3> QED  BY <3>1, <3>2
  <2>11. s_have_last_applied => s_have_last_applied' /\ s_last_applied_seq <= s_last_applied_seq'
    <3>1. s_last_applied_seq <= s_last_applied_seq
      BY CommandNumbers
    <3>2. v = "apply" /\ s_have_last_applied => s_last_applied_seq <= c.cmd_seq
      BY <2>1, <2>9, CommandNumbers
    <3> HIDE DEF c, v
    <3> QED  BY <2>2, <3>1, <3>2
  <2>12. s_config_applied_latch' /\ s_have_last_applied => s_last_applied_seq < s_last_applied_seq'
    BY <2>2, <2>9
  <2> QED
    BY <2>3, <2>8, <2>10, <2>11, <2>12
<1> QED  BY <1>1, <1>2

(* The frame the block interrupt builds, from what was latched before.      *)
LEMMA BlockInv ==
  ASSUME LinkTypeOK, CommandInv, NEW ok \in BOOLEAN, BlockReady(ok), SameCommand
  PROVE  CommandInv'
<1> USE DEF CommandInv
<1> DEFINE b == Other(s_tx_idx)
           f == AssembledFrame(s_block_rows)
<1>1. /\ ProcessPendingCmd /\ UNCHANGED s_rx_dummy
      /\ s_frame' = [s_frame EXCEPT ![b] = f] /\ b \in 0 .. 1
  BY OtherBuffer DEF BlockReady
<1>2. \A i \in 0 .. 1 : s_frame'[i] = IF i = b THEN f ELSE s_frame[i]
  BY <1>1 DEF LinkTypeOK, TypeOK, SendTypeOK
<1>3. /\ CurrentSeq' /\ ReceivedInOrder' /\ LastApplied' /\ LatchedLast'
      /\ s_have_last_applied => s_have_last_applied' /\ s_last_applied_seq <= s_last_applied_seq'
      /\ s_config_applied_latch' /\ s_have_last_applied => s_last_applied_seq < s_last_applied_seq'
  BY <1>1, ProcessInv
<1>4. /\ f.ack = s_latched_ack_flags /\ f.config_applied = s_config_applied_latch
      /\ f.reserved = s_latched_cmd_seq
  BY DEF AssembledFrame
<1>5. f.ack = "ok" \/ f.config_applied => s_have_last_applied /\ f.reserved = s_last_applied_seq
  BY <1>4 DEF LatchedLast
<1>6. s_last_applied_seq' \in Int /\ s_last_applied_seq \in Int /\ f.reserved \in Int
  BY <1>1, <1>4, CommandNumbers, ProcessType DEF LinkTypeOK
<1> HIDE DEF b, f
<1>7. ASSUME NEW i \in 0 .. 1 PROVE FrameOfApplied(s_frame[i])'
  <2>1. CASE i = b
    BY <1>2, <1>3, <1>5, <1>6, <2>1 DEF FrameOfApplied
  <2>2. CASE i # b
    <3>1. s_frame'[i] = s_frame[i] /\ s_frame[i].reserved \in Int /\ FrameOfApplied(s_frame[i])
      BY <1>2, <2>2, CommandNumbers DEF FramesOfApplied
    <3> QED  BY <1>3, <1>6, <3>1 DEF FrameOfApplied
  <2> QED  BY <2>1, <2>2
<1>8. AnnouncedOnce'
  <2> SUFFICES ASSUME \A i \in 0 .. 1 : s_frame'[i].config_applied
               PROVE  s_frame'[0].reserved # s_frame'[1].reserved
    BY DEF AnnouncedOnce
  <2>1. f.config_applied /\ s_config_applied_latch
    BY <1>1, <1>2, <1>4 DEF f
  <2>2. \A i \in 0 .. 1 : i # b => s_frame[i].reserved < f.reserved
    BY <1>2, <1>5, <2>1 DEF FramesOfApplied, FrameOfApplied
  <2>3. \A i \in 0 .. 1 : s_frame[i].reserved \in Int
    BY CommandNumbers
  <2> QED  BY <1>1, <1>2, <1>6, <2>2, <2>3
<1> QED  BY <1>3, <1>7, <1>8 DEF FramesOfApplied

(* A step of the firmware that is not an interrupt's tail moves a received  *)
(* command on, or forgets it.                                               *)
LEMMA CompletionInv ==
  ASSUME LinkTypeOK, CommandInv, SameCommand, UNCHANGED <<ackVars, s_frame>>,
         s_rx_dummy' \in {s_rx_dummy, NoCmd},
         s_pending_cmd' = s_pending_cmd \/ (s_pending_cmd = NoCmd /\ s_pending_cmd' = s_rx_dummy
                                              /\ s_rx_dummy' = NoCmd)
  PROVE  CommandInv'
<1> USE DEF CommandInv, SameCommand
<1>2. CurrentSeq' /\ LatchedLast' /\ FramesOfApplied' /\ AnnouncedOnce'
  BY DEF CurrentSeq, LatchedLast, FramesOfApplied, FrameOfApplied, AnnouncedOnce, ackVars
<1>3. ReceivedInOrder' /\ LastApplied'
  BY DEF ReceivedInOrder, Received, LastApplied, NotBefore, ackVars
<1> QED  BY <1>2, <1>3

(* What the exchange clocks in is the Pi's command, damaged or not, or      *)
(* nothing.                                                                 *)
LEMMA TransferInv ==
  ASSUME LinkTypeOK, CommandInv, NEW c, NEW whole, SpiTransfer(c, whole), SameCommand,
         c # NoCmd => /\ c.cmd_seq <= g_cmd.seq
                      /\ c.crc_ok => c = TxFrame /\ g_cmd.state = "pending"
  PROVE  CommandInv'
<1> USE DEF CommandInv, SameCommand
<1>1. /\ s_rx_dummy' = c
      /\ UNCHANGED <<s_frame, s_pending_cmd, ackVars>>
  BY DEF SpiTransfer, cmdVars
<1>2. CurrentSeq' /\ LatchedLast' /\ FramesOfApplied' /\ AnnouncedOnce'
  BY <1>1 DEF CurrentSeq, LatchedLast, FramesOfApplied, FrameOfApplied, AnnouncedOnce, ackVars
<1>3. c # NoCmd /\ c.crc_ok =>
        /\ c.cmd = "SET_CONFIG" /\ c.schema_ok /\ c.cmd_seq = g_cmd.seq /\ c.payload = g_cmd.payload
  BY DEF TxFrame
<1>4. ReceivedInOrder'
  BY <1>1, <1>3, CommandNumbers DEF ReceivedInOrder, Received, CurrentSeq
<1>5. LastApplied'
  BY <1>1, <1>3 DEF LastApplied, NotBefore, ackVars
<1> QED  BY <1>2, <1>4, <1>5

(* A step of the Pi that keeps its command disturbs nothing.                *)
LEMMA PiInv ==
  ASSUME CommandInv, SameCommand, UNCHANGED stmVars
  PROVE  CommandInv'
BY DEF CommandInv, CurrentSeq, ReceivedInOrder, Received, LastApplied, NotBefore, LatchedLast,
       FramesOfApplied, FrameOfApplied, AnnouncedOnce, SameCommand, stmVars, sendVars, txVars,
       cmdVars, ackVars

(* A new command is newer than everything on its way.                       *)
LEMMA QueueInv ==
  ASSUME MaxCmds < CmdMod, LinkTypeOK, CommandInv, UNCHANGED stmVars, g_cmd.seq < MaxCmds,
         NEW p, g_cmd' = Queued(p, g_cmd.seq)
  PROVE  CommandInv'
<1> USE DEF CommandInv
<1>1. g_cmd'.seq = g_cmd.seq + 1
  BY LinkAssumption, WireAssumption DEF Queued, Inc, CurrentSeq
<1>2. UNCHANGED <<s_frame, s_rx_dummy, s_pending_cmd, ackVars>>
  BY DEF stmVars, sendVars, txVars, cmdVars
<1>3. LatchedLast' /\ FramesOfApplied' /\ AnnouncedOnce'
  BY <1>2 DEF LatchedLast, FramesOfApplied, FrameOfApplied, AnnouncedOnce, ackVars
<1>4. CurrentSeq'
  BY <1>1, LinkAssumption DEF CurrentSeq
<1>5. ReceivedInOrder'
  BY <1>1, <1>2, CommandNumbers DEF ReceivedInOrder, Received
<1>6. LastApplied'
  BY <1>1, <1>2, CommandNumbers DEF LastApplied, NotBefore, ackVars
<1> QED  BY <1>3, <1>4, <1>5, <1>6

(* What an exchange does to the Pi leaves its command.                      *)
LEMMA ReceiveKeepsCommand ==
  ASSUME ControllerTypeOK, NEW f, Receive(f)
  PROVE  SameCommand
<1>1. Counted.seq = g_cmd.seq /\ Counted.payload = g_cmd.payload
      /\ Counted \in [state: {"idle", "pending"}, seq: 0 .. CmdMod - 1,
                      retries_left: Int, payload: Config]
  BY DEF Counted, ControllerTypeOK
<1> QED  BY <1>1 DEF Receive, Observe, SameCommand

(* Every step of the link keeps the order, as long as the controller is not *)
(* restarted.                                                               *)
LEMMA CommandStep ==
  ASSUME MaxCmds < CmdMod, LinkTyped, CommandInv, [LinkNext]_linkVars, ~PiRestart
  PROVE  CommandInv'
<1>0. LinkTypeOK /\ ControllerTypeOK
  BY DEF LinkTyped, LinkTypeOK
<1>1. ASSUME UNCHANGED piVars PROVE SameCommand
  BY <1>1 DEF piVars, SameCommand
<1>2. CASE \E ok \in BOOLEAN : BlockReady(ok) /\ UNCHANGED piVars
  BY <1>0, <1>1, <1>2, BlockInv
<1>3. CASE \E ok \in BOOLEAN : TxRxCplt(ok) /\ UNCHANGED piVars
  <2>1. /\ UNCHANGED <<ackVars, s_frame>> /\ s_rx_dummy' = NoCmd
        /\ s_pending_cmd' = Sniffed
    BY <1>3 DEF TxRxCplt
  <2> QED  BY <1>0, <1>1, <1>3, <2>1, CompletionInv DEF Sniffed
<1>4. CASE \E ok \in BOOLEAN : SpiError(ok) /\ UNCHANGED piVars
  <2>1. UNCHANGED <<ackVars, s_frame, s_pending_cmd>> /\ s_rx_dummy' = NoCmd
    BY <1>4 DEF SpiError, cmdVars
  <2> QED  BY <1>0, <1>1, <1>4, <2>1, CompletionInv
<1>5. CASE \E ok \in BOOLEAN : MainLoop(ok) /\ UNCHANGED piVars
  <2>1. UNCHANGED <<ackVars, s_frame, s_pending_cmd, s_rx_dummy>>
    BY <1>5 DEF MainLoop, sendVars, txVars, cmdVars
  <2> QED  BY <1>0, <1>1, <1>5, <2>1, CompletionInv
<1>6. CASE LinkStmReset
  <2>1. StmReset /\ SameCommand
    BY <1>1, <1>6 DEF LinkStmReset
  <2>2. \A i \in 0 .. 1 : s_frame'[i] = ZeroFrame
    BY <2>1 DEF StmReset
  <2>3. FramesOfApplied' /\ AnnouncedOnce'
    BY <2>2 DEF FramesOfApplied, FrameOfApplied, AnnouncedOnce, ZeroFrame
  <2> QED
    BY <2>1, <2>3 DEF StmReset, SameCommand, CommandInv, CurrentSeq, ReceivedInOrder, Received,
                      LastApplied, LatchedLast
<1>7. ASSUME NEW c, NEW whole, SpiTransfer(c, whole), SameCommand,
             c # NoCmd => TxFrame # NoCmd /\ c \in {TxFrame} \union Damaged(TxFrame)
      PROVE  CommandInv'
  <2>1. TxFrame # NoCmd =>
          TxFrame \in Command /\ TxFrame.cmd_seq = g_cmd.seq /\ g_cmd.state = "pending"
    BY <1>0, TxFrameType DEF TxFrame
  <2>2. ASSUME c # NoCmd, c \in Damaged(TxFrame)
        PROVE  c.crc_ok = FALSE /\ c.cmd_seq \in {0, g_cmd.seq}
    BY <1>7, <2>1, <2>2 DEF Damaged, Command
  <2>3. 0 <= g_cmd.seq /\ g_cmd.seq <= g_cmd.seq
    BY LinkAssumption DEF CommandInv, CurrentSeq
  <2>4. c # NoCmd => /\ c.cmd_seq <= g_cmd.seq
                     /\ c.crc_ok => c = TxFrame /\ g_cmd.state = "pending"
    BY <1>7, <2>1, <2>2, <2>3
  <2> QED  BY <1>0, <1>7, <2>4, TransferInv
<1>8. CASE Exchange \/ ExchangeRxDamaged \/ ExchangeInterrupted \/ ExchangeTxDamaged
  <2>1. SameCommand
    <3>1. (\E f : Receive(f)) \/ UNCHANGED piVars
      BY <1>8 DEF Exchange, ExchangeRxDamaged, ExchangeInterrupted, ExchangeTxDamaged
    <3> QED  BY <1>0, <1>1, <3>1, ReceiveKeepsCommand
  <2>2. PICK c, whole :
          /\ SpiTransfer(c, whole)
          /\ c # NoCmd => TxFrame # NoCmd /\ c \in {TxFrame} \union Damaged(TxFrame)
    <3>1. CASE SpiTransfer(TxFrame, TRUE)
      BY <3>1
    <3>2. CASE ExchangeTxDamaged
      BY <3>2 DEF ExchangeTxDamaged
    <3>3. CASE ExchangeInterrupted
      BY <3>3 DEF ExchangeInterrupted, Begun
    <3> QED  BY <1>8, <3>1, <3>2, <3>3 DEF Exchange, ExchangeRxDamaged
  <2> QED  BY <1>7, <2>1, <2>2
<1>13. CASE ExchangeOutOfStep
  <2>1. UNCHANGED <<s_rx_dummy, s_frame, s_pending_cmd, ackVars>> /\ SameCommand
    BY <1>0, <1>13, ReceiveKeepsCommand DEF ExchangeOutOfStep, SpiTransfer, cmdVars
  <2> QED  BY <1>0, <2>1, CompletionInv
<1>9. CASE ExchangeStaleLine
  BY <1>0, <1>9, ReceiveKeepsCommand, PiInv DEF ExchangeStaleLine
<1>10. CASE PiReload
  <2>1. PICK p \in Configs \ {cfg_stm} : Reload(p, FALSE)
    BY <1>10 DEF PiReload
  <2>2. g_cmd' = Queued(p, g_cmd.seq)
    BY <2>1 DEF Reload
  <2> QED  BY <1>0, <1>10, <2>2, QueueInv DEF PiReload
<1>11. CASE PiReopen
  <2>1. SameCommand
    BY <1>0, <1>11 DEF PiReopen, Reload, ControllerTypeOK, SameCommand
  <2> QED  BY <1>11, <2>1, PiInv DEF PiReopen
<1>12. CASE UNCHANGED linkVars
  BY <1>1, <1>12, PiInv DEF linkVars
<1> QED
  BY <1>2, <1>3, <1>4, <1>5, <1>6, <1>8, <1>9, <1>10, <1>11, <1>12, <1>13
  DEF LinkNext, StmStep, StmRefusedArm, StmAdcRefused, StmSpiError

(* What holds in every state, restarts of the controller counted.           *)
LinkInv == LinkTyped /\ (restarts = 0 => CommandInv)

(* It is inductive.                                                         *)
LEMMA LinkInvariant ==
  ASSUME MaxCmds < CmdMod
  PROVE  LinkSpec => []LinkInv
<1>1. LinkInit => LinkInv
  BY LinkTypeInit, CommandInit DEF LinkInv
<1>2. LinkInv /\ [LinkNext]_linkVars => LinkInv'
  <2> SUFFICES ASSUME LinkInv, [LinkNext]_linkVars, restarts' = 0 PROVE CommandInv'
    BY LinkTypeStep DEF LinkInv
  <2>1. restarts \in Nat
    BY DEF LinkInv, LinkTyped, LinkTypeOK
  <2>2. ~PiRestart
    BY <2>1 DEF PiRestart
  <2>3. restarts = 0
    BY <2>2 DEF LinkNext, StmStep, StmRefusedArm, StmAdcRefused, StmSpiError, LinkStmReset,
      Exchange, ExchangeRxDamaged, ExchangeTxDamaged, ExchangeInterrupted, ExchangeOutOfStep,
      ExchangeStaleLine, PiReload,
      PiReopen, linkVars
  <2> QED  BY <2>2, <2>3, CommandStep DEF LinkInv
<1> QED  BY <1>1, <1>2, PTL DEF LinkSpec

(* However often a command is clocked in, one frame announces it: while the *)
(* controller is not restarted and has not used up its sequence numbers,    *)
(* no two buffers announce the same command, through resets of the STM32    *)
(* and damaged commands too.                                                *)
THEOREM EachAnnouncedOnce ==
  ASSUME MaxCmds < CmdMod
  PROVE  LinkSpec => [](restarts = 0 => AnnouncedOnce)
<1>1. LinkInv => (restarts = 0 => AnnouncedOnce)
  BY DEF LinkInv, CommandInv
<1> QED  BY <1>1, LinkInvariant, PTL

(* The frame the Pi takes for an ACK of its command is one of the last      *)
(* command applied.                                                         *)
LEMMA AckOfActive ==
  ASSUME LinkTyped, CommandInv, NEW f, Receive(f), active_stm' # active_stm,
         f # NoFrame => dr /\ f = s_frame[s_tx_idx]
  PROVE  s_active_config = active_stm'
<1>0. LinkTypeOK /\ ControllerTypeOK
  BY DEF LinkTyped, LinkTypeOK
<1>1. Valid(f) /\ Observe(f, Counted)
  BY DEF Receive
<1>2. Counted.seq = g_cmd.seq /\ Counted.payload = g_cmd.payload
  BY <1>0 DEF Counted, ControllerTypeOK
<1>3. f.reserved = g_cmd.seq /\ f.ack = "ok" /\ active_stm' = g_cmd.payload
  BY <1>1, <1>2 DEF Observe, Answers
<1>4. PICK i \in 0 .. 1 : f = s_frame[i]
  BY <1>0, <1>1 DEF Valid, LinkTyped, Handshake, LinkTypeOK, TypeOK, SendTypeOK
<1>5. s_have_last_applied /\ g_cmd.seq <= s_last_applied_seq
  BY <1>3, <1>4 DEF CommandInv, FramesOfApplied, FrameOfApplied
<1>6. s_last_applied_seq = g_cmd.seq
  BY <1>0, <1>5, CommandNumbers DEF CommandInv, LastApplied
<1> QED  BY <1>3, <1>5, <1>6 DEF CommandInv, LastApplied

(* An ACK means that the STM32 runs on that very config: no frame that was  *)
(* late, no duplicate, no damaged command and no reset of the STM32 makes   *)
(* the Pi take another one for it, in a process that has not used up its    *)
(* sequence numbers.  A restarted controller starts them over: see the run  *)
(* that finds the property violated.                                        *)
THEOREM AckIsOfActive ==
  ASSUME MaxCmds < CmdMod, MaxRestarts = 0
  PROVE  LinkSpec => AckMeansApplied
<1>1. LinkInv /\ [LinkNext]_linkVars =>
        [active_stm' # active_stm /\ active_stm' # UnknownConfig =>
           s_active_config = active_stm']_linkVars
  <2> SUFFICES ASSUME LinkInv, LinkNext, active_stm' # active_stm
               PROVE  s_active_config = active_stm'
    OBVIOUS
  <2>1. restarts = 0
    BY DEF LinkInv, LinkTyped, LinkTypeOK
  <2>2. ~PiRestart
    BY <2>1 DEF PiRestart
  <2>3. PICK f : Receive(f) /\ (f # NoFrame => dr /\ f = s_frame[s_tx_idx])
    BY <2>2 DEF LinkNext, StmStep, StmRefusedArm, StmAdcRefused, StmSpiError, LinkStmReset,
      Exchange, ExchangeRxDamaged, ExchangeTxDamaged, ExchangeInterrupted, ExchangeOutOfStep,
      ExchangeStaleLine, PiReload,
      PiReopen, Reload, piVars
  <2> QED  BY <2>1, <2>3, AckOfActive DEF LinkInv
<1> QED  BY <1>1, LinkInvariant, PTL DEF LinkSpec, AckMeansApplied

-----------------------------------------------------------------------------
(* Agreement.  In a run without faults the Pi never gives a command up: it  *)
(* counts one attempt per exchange, and the frames that do not answer yet   *)
(* are bounded by the place the command has reached.                        *)

Quiet == faults = 0 /\ restarts = 0 /\ g_spi_err = 0

(* The firmware has no reason to refuse the config.                         *)
Acceptable(p) == InRange(p) /\ p.source = MOTOR_SOURCE_ADC

Undamaged(c) ==
  c # NoCmd => c.crc_ok /\ c.schema_ok /\ c.cmd = "SET_CONFIG" /\ Acceptable(c.payload)

(* What is on its way to process_pending_cmd; it empties the receive buffer *)
(* only at a completion and a block interrupt clears the way.               *)
WayIn ==
  /\ Undamaged(s_rx_dummy) /\ Undamaged(s_pending_cmd)
  /\ s_rx_dummy # NoCmd => spi = "done"
  /\ s_pending_cmd # NoCmd => ~s_pending

(* The firmware has processed the Pi's command.                             *)
Reached == s_latched_cmd_seq = g_cmd.seq

(* The answer, once latched, and the frames that carry it: those assembled  *)
(* later, never one of before behind one of after.                          *)
WayOut ==
  /\ s_latched_cmd_seq <= g_cmd.seq
  /\ Reached => s_latched_ack_flags = "ok" /\ s_have_last_applied /\ s_last_applied_seq = g_cmd.seq
  /\ \A i \in 0 .. 1 : /\ s_frame[i].reserved <= g_cmd.seq
                       /\ s_frame[i].reserved = g_cmd.seq => Reached /\ s_frame[i].ack = "ok"
  /\ s_pending /\ s_frame[s_tx_idx].reserved = g_cmd.seq =>
       s_frame[Other(s_tx_idx)].reserved = g_cmd.seq

Is(c) == c # NoCmd /\ c.cmd_seq = g_cmd.seq

Old(i) == s_frame[i].reserved # g_cmd.seq

(* The exchanges that may yet bring no answer.                              *)
Lag ==
  IF Reached
  THEN (IF spi = "armed" /\ Old(s_tx_idx) THEN 1 ELSE 0)
         + (IF s_pending /\ Old(Other(s_tx_idx)) THEN 1 ELSE 0)
  ELSE IF Is(s_pending_cmd) THEN (IF spi = "armed" THEN 2 ELSE 1)
  ELSE IF Is(s_rx_dummy) THEN (IF s_pending_cmd = NoCmd THEN 2 ELSE 3)
  ELSE IF s_rx_dummy # NoCmd \/ (s_pending_cmd # NoCmd /\ spi # "idle") THEN 4
  ELSE 3

Budget == g_cmd.state = "pending" => Lag = 0 \/ Lag < g_cmd.retries_left

Agreed ==
  /\ g_cmd.payload = cfg_stm /\ Acceptable(cfg_stm)
  /\ g_cmd.state = "idle" =>
       Reached /\ active_stm = s_active_config /\ active_stm = cfg_stm

AgreeInv == Quiet => WayIn /\ WayOut /\ Budget /\ Agreed

(* The same, where the run is known to be quiet.                            *)
AgreeParts == WayIn /\ WayOut /\ Budget /\ Agreed

(* The numbers the budget is about.                                         *)
LEMMA AgreeTypes ==
  ASSUME LinkTyped
  PROVE  /\ s_tx_idx \in {-1, 0, 1} /\ Other(s_tx_idx) \in 0 .. 1 /\ Other(s_tx_idx) # s_tx_idx
         /\ s_tx_idx >= 0 <=> spi # "idle"
         /\ s_pending \in BOOLEAN /\ (s_pending => s_tx_idx >= 0)
         /\ spi \in {"idle", "armed", "done"}
         /\ s_latched_cmd_seq \in Int /\ g_cmd.seq \in Int /\ g_cmd.retries_left \in Nat
         /\ g_cmd.state \in {"idle", "pending"}
         /\ s_last_applied_seq \in Int
         /\ \A i \in 0 .. 1 : s_frame[i] \in Frame /\ s_frame[i].reserved \in Int
         /\ s_rx_dummy \in Command \union {NoCmd} /\ s_pending_cmd \in Command \union {NoCmd}
         /\ \A c \in Command : c.cmd_seq \in Int
         /\ NoCmd \notin Command
BY OtherBuffer, WireAssumption, ControllerAssumption
   DEF LinkTyped, LinkTypeOK, TypeOK, SendTypeOK, ControllerTypeOK, Handshake, Command, Frame

(* Processing a command nobody damaged latches an ACK, and once the Pi's    *)
(* command was processed it is no other that follows.                       *)
LEMMA ProcessAgrees ==
  ASSUME LinkTyped, CommandInv, WayIn, WayOut, ProcessPendingCmd, UNCHANGED g_cmd
  PROVE  /\ s_pending_cmd' = NoCmd
         /\ s_latched_cmd_seq' <= g_cmd.seq
         /\ Reached' <=> Reached \/ Is(s_pending_cmd)
         /\ Reached' => /\ s_latched_ack_flags' = "ok"
                        /\ s_have_last_applied' /\ s_last_applied_seq' = g_cmd.seq
         /\ Reached => s_active_config' = s_active_config
<1>1. CASE s_pending_cmd = NoCmd
  BY <1>1 DEF ProcessPendingCmd, WayOut, Reached, Is
<1>2. CASE s_pending_cmd # NoCmd
  <2> DEFINE c == s_pending_cmd
             v == Verdict(c)
  <2>1. /\ s_pending_cmd' = NoCmd /\ s_latched_cmd_seq' = c.cmd_seq
        /\ s_latched_ack_flags' = AckOf(v)
        /\ s_last_applied_seq' = IF v = "apply" THEN c.cmd_seq ELSE s_last_applied_seq
        /\ s_have_last_applied' = (s_have_last_applied \/ v = "apply")
        /\ s_active_config' = IF v = "apply" THEN c.payload ELSE s_active_config
    BY <1>2 DEF ProcessPendingCmd, ProcessCmd
  <2>2. v = IF IsDuplicate(c) THEN "duplicate" ELSE "apply"
    BY <1>2 DEF WayIn, Undamaged, Acceptable, Verdict
  <2>3. AckOf(v) = "ok"
    BY <2>2 DEF AckOf, AckFlags
  <2>4. c.cmd_seq \in Int /\ c.cmd_seq <= g_cmd.seq
    BY <1>2, AgreeTypes DEF CommandInv, ReceivedInOrder, Received
  <2>5. ASSUME Reached PROVE IsDuplicate(c) /\ c.cmd_seq = g_cmd.seq
    <3>1. s_have_last_applied /\ s_last_applied_seq = g_cmd.seq
      BY <2>5 DEF WayOut
    <3>2. s_last_applied_seq <= c.cmd_seq
      BY <1>2, <3>1 DEF CommandInv, LastApplied, NotBefore, WayIn, Undamaged
    <3>3. c.cmd_seq = g_cmd.seq
      BY <2>4, <3>1, <3>2, AgreeTypes
    <3> QED  BY <3>1, <3>3 DEF IsDuplicate
  <2>6. s_have_last_applied' /\ s_last_applied_seq' = c.cmd_seq
    BY <2>1, <2>2 DEF IsDuplicate
  <2> QED
    BY <1>2, <2>1, <2>2, <2>3, <2>4, <2>5, <2>6 DEF Reached, Is
<1> QED  BY <1>1, <1>2

(* The block interrupt: the frame it assembles carries what was latched     *)
(* before it, and what it processes shortens the wait.                      *)
LEMMA BlockAgrees ==
  ASSUME LinkTyped, CommandInv, AgreeParts, BlockReady(TRUE), UNCHANGED piVars
  PROVE  AgreeParts'
<1> USE DEF AgreeParts
<1>0. PICK t \in {-1, 0, 1}, o \in 0 .. 1 : t = s_tx_idx /\ o = Other(s_tx_idx) /\ o # t
  BY AgreeTypes
<1>1. /\ UNCHANGED <<g_cmd, active_stm, cfg_stm, s_rx_dummy>>
      /\ ProcessPendingCmd
      /\ s_frame' = [s_frame EXCEPT ![o] = AssembledFrame(s_block_rows)]
  BY <1>0 DEF BlockReady, piVars
<1>2. s_frame'[o].reserved = s_latched_cmd_seq /\ s_frame'[o].ack = s_latched_ack_flags
      /\ \A i \in 0 .. 1 : i # o => s_frame'[i] = s_frame[i]
  BY <1>0, <1>1, AgreeTypes, s_frame \in [0 .. 1 -> Frame]
  DEF AssembledFrame, LinkTyped, LinkTypeOK, TypeOK, SendTypeOK
<1>3. /\ s_pending_cmd' = NoCmd
      /\ s_latched_cmd_seq' <= g_cmd.seq
      /\ Reached' <=> Reached \/ Is(s_pending_cmd)
      /\ Reached' => /\ s_latched_ack_flags' = "ok"
                     /\ s_have_last_applied' /\ s_last_applied_seq' = g_cmd.seq
      /\ Reached => s_active_config' = s_active_config
  BY <1>1, ProcessAgrees
<1>4. \/ t = -1 /\ s_tx_idx' = o /\ spi' = "armed" /\ spi = "idle" /\ ~s_pending /\ ~s_pending'
      \/ t # -1 /\ s_tx_idx' = t /\ spi' = spi /\ spi \in {"armed", "done"} /\ s_pending'
  BY <1>0, AgreeTypes DEF BlockReady, ArmTx
<1>5. WayIn'
  <2>1. s_rx_dummy # NoCmd => spi' = "done"
    BY <1>4 DEF WayIn
  <2> QED  BY <1>1, <1>3, <2>1 DEF WayIn, Undamaged
<1>6. t # -1 => Other(s_tx_idx') = o
  BY <1>0, <1>4
<1>7. WayOut'
  <2>1. \A i \in 0 .. 1 : /\ s_frame'[i].reserved <= g_cmd.seq
                          /\ s_frame'[i].reserved = g_cmd.seq => Reached' /\ s_frame'[i].ack = "ok"
    BY <1>2, <1>3 DEF WayOut, Reached
  <2>2. ASSUME s_pending', s_frame'[s_tx_idx'].reserved = g_cmd.seq
        PROVE  s_frame'[o].reserved = g_cmd.seq
    <3>1. t \in 0 .. 1 /\ s_frame[t].reserved = g_cmd.seq
      BY <1>0, <1>2, <1>4, <2>2
    <3> QED  BY <1>2, <3>1 DEF WayOut, Reached
  <2> QED  BY <1>1, <1>3, <1>4, <1>6, <2>1, <2>2 DEF WayOut, Reached
<1>8. Budget'
  <2>1. Lag' = 0 \/ Lag' <= Lag
    <3>1. CASE Reached
      <4>1. Reached' /\ ~Old(o)'
        BY <1>1, <1>2, <1>3, <3>1 DEF Old, Reached
      <4>2. CASE t = -1
        BY <1>4, <4>1, <4>2 DEF Lag
      <4>3. CASE t # -1
        <5>1. Old(t)' <=> Old(t)
          BY <1>0, <1>1, <1>2, <4>3 DEF Old
        <5>2. Lag' = IF spi = "armed" /\ Old(t) THEN 1 ELSE 0
          BY <1>4, <1>6, <4>1, <4>3, <5>1 DEF Lag
        <5> QED  BY <1>0, <3>1, <5>2 DEF Lag
      <4> QED  BY <4>2, <4>3
    <3>2. CASE ~Reached /\ Is(s_pending_cmd)
      <4>1. Lag = IF spi = "armed" THEN 2 ELSE 1
        BY <3>2 DEF Lag
      <4>2. Lag' = (IF spi' = "armed" /\ Old(s_tx_idx)' THEN 1 ELSE 0)
                     + (IF s_pending' /\ Old(Other(s_tx_idx))' THEN 1 ELSE 0)
        BY <1>3, <3>2 DEF Lag
      <4>3. Lag' \in 0 .. (IF spi' = "armed" THEN 1 ELSE 0) + (IF s_pending' THEN 1 ELSE 0)
        BY <4>2
      <4> QED  BY <1>4, <4>1, <4>3
    <3>3. CASE ~Reached /\ ~Is(s_pending_cmd)
      <4>1. ~Reached' /\ ~Is(s_pending_cmd)' /\ (Is(s_rx_dummy)' <=> Is(s_rx_dummy))
        BY <1>1, <1>3, <3>3 DEF Is
      <4> QED  BY <1>1, <1>3, <3>3, <4>1 DEF Lag
    <3> QED  BY <3>1, <3>2, <3>3
  <2>2. Lag \in Int /\ Lag' \in Int
    BY DEF Lag
  <2> QED  BY <1>1, <2>1, <2>2, AgreeTypes DEF Budget
<1>9. Agreed'
  BY <1>1, <1>3 DEF Agreed
<1> QED  BY <1>5, <1>7, <1>8, <1>9

(* A completion moves the command on, and hands over the frame that waits.  *)
LEMMA CompletionAgrees ==
  ASSUME LinkTyped, CommandInv, AgreeParts, TxRxCplt(TRUE), UNCHANGED piVars
  PROVE  AgreeParts'
<1> USE DEF AgreeParts
<1>0. PICK t \in 0 .. 1, o \in 0 .. 1 : t = s_tx_idx /\ o = Other(s_tx_idx) /\ o # t
  BY AgreeTypes DEF TxRxCplt
<1>1. /\ UNCHANGED <<g_cmd, active_stm, cfg_stm, s_frame, ackVars>>
      /\ spi = "done" /\ s_pending_cmd' = Sniffed /\ s_rx_dummy' = NoCmd /\ ~s_pending'
      /\ \/ s_pending /\ s_tx_idx' = o /\ spi' = "armed"
         \/ ~s_pending /\ s_tx_idx' = -1 /\ spi' = "idle"
  BY <1>0 DEF TxRxCplt, ArmTx, NextToArm, GoIdle, piVars
<1>2. WayIn'
  BY <1>1 DEF WayIn, Undamaged, Sniffed
<1>3. (Reached' <=> Reached) /\ \A i : Old(i)' <=> Old(i)
  BY <1>1 DEF Reached, Old, ackVars
<1>4. WayOut'
  BY <1>1, <1>3 DEF WayOut, Reached, ackVars
<1>5. Budget'
  <2>1. Lag' <= Lag
    <3>1. CASE Reached
      BY <1>0, <1>1, <1>3, <3>1 DEF Lag
    <3>2. CASE ~Reached /\ Is(s_pending_cmd)
      <4>1. ~s_pending /\ Is(s_pending_cmd)'
        BY <1>1, <3>2 DEF WayIn, Is, Sniffed
      <4> QED  BY <1>1, <1>3, <3>2, <4>1 DEF Lag
    <3>3. CASE ~Reached /\ ~Is(s_pending_cmd) /\ Is(s_rx_dummy)
      <4>1. CASE s_pending_cmd = NoCmd
        <5>1. Is(s_pending_cmd)'
          BY <1>1, <3>3, <4>1 DEF Is, Sniffed
        <5> QED  BY <1>1, <1>3, <3>3, <4>1, <5>1 DEF Lag
      <4>2. CASE s_pending_cmd # NoCmd
        <5>1. s_pending_cmd' = s_pending_cmd /\ ~s_pending /\ ~Is(s_pending_cmd)' /\ ~Is(s_rx_dummy)'
          BY <1>1, <3>3, <4>2 DEF WayIn, Is, Sniffed
        <5> QED  BY <1>1, <1>3, <3>3, <4>2, <5>1 DEF Lag
      <4> QED  BY <4>1, <4>2
    <3>4. CASE ~Reached /\ ~Is(s_pending_cmd) /\ ~Is(s_rx_dummy)
      <4>1. ~Is(s_pending_cmd)' /\ ~Is(s_rx_dummy)'
        BY <1>1, <3>4 DEF Is, Sniffed
      <4>2. s_pending_cmd = NoCmd /\ s_rx_dummy = NoCmd => s_pending_cmd' = NoCmd
        BY <1>1 DEF Sniffed
      <4> QED  BY <1>1, <1>3, <3>4, <4>1, <4>2 DEF Lag
    <3> QED  BY <3>1, <3>2, <3>3, <3>4
  <2>2. Lag \in Nat /\ Lag' \in Nat
    BY DEF Lag
  <2> QED  BY <1>1, <2>1, <2>2, AgreeTypes DEF Budget
<1>6. Agreed'
  BY <1>1, <1>3 DEF Agreed, ackVars
<1> QED  BY <1>2, <1>4, <1>5, <1>6

(* An exchange takes the command along.  If its frame does not answer, one  *)
(* of the frames that need not has gone; if it does, the boards agree.      *)
LEMMA ExchangeAgrees ==
  ASSUME LinkTyped, CommandInv, AgreeParts, Exchange
  PROVE  AgreeParts'
<1> USE DEF AgreeParts
<1>0. PICK t \in 0 .. 1, o \in 0 .. 1 : t = s_tx_idx /\ o = Other(s_tx_idx) /\ o # t
  BY AgreeTypes DEF Exchange, LinkTyped, Handshake
<1> DEFINE f == s_frame[t]
<1>1. /\ UNCHANGED <<s_frame, s_tx_idx, s_pending, s_pending_cmd, ackVars, cfg_stm>>
      /\ spi = "armed" /\ spi' = "done" /\ s_rx_dummy' = TxFrame /\ s_rx_dummy = NoCmd
      /\ Receive(f)
  BY <1>0 DEF Exchange, SpiTransfer, Receive, cmdVars, WayIn
<1>2. g_cmd'.seq = g_cmd.seq /\ g_cmd'.payload = g_cmd.payload
  BY <1>1, ReceiveKeepsCommand DEF LinkTyped, LinkTypeOK, SameCommand
<1>3. (Reached' <=> Reached) /\ \A i : Old(i)' <=> Old(i)
  BY <1>1, <1>2 DEF Reached, Old, ackVars
<1>4. WayOut'
  BY <1>1, <1>2, <1>3 DEF WayOut, Reached, ackVars
<1>5. WayIn'
  <2>1. Undamaged(TxFrame)
    BY DEF TxFrame, Undamaged, Agreed
  <2> QED  BY <1>1, <2>1 DEF WayIn, Undamaged
<1>6. CASE g_cmd.state = "idle"
  <2>1. UNCHANGED <<active_stm, g_cmd>>
    BY <1>1, <1>6 DEF Receive, Observe, Counted, Answers
  <2> QED  BY <1>1, <1>3, <1>4, <1>5, <1>6, <2>1 DEF Budget, Agreed, ackVars
<1>7. CASE g_cmd.state = "pending" /\ Old(t)
  <2>1. Lag # 0 /\ Lag \in Nat
    BY <1>0, <1>1, <1>7 DEF Lag
  <2>2. Lag' = Lag - 1
    <3>1. CASE Reached
      BY <1>0, <1>1, <1>3, <1>7, <3>1 DEF Lag
    <3>2. CASE ~Reached /\ Is(s_pending_cmd)
      <4>1. Is(s_pending_cmd)'
        BY <1>1, <1>2, <3>2 DEF Is
      <4> QED  BY <1>1, <1>3, <3>2, <4>1 DEF Lag
    <3>3. CASE ~Reached /\ ~Is(s_pending_cmd)
      <4>1. TxFrame \in Command /\ TxFrame.cmd_seq = g_cmd.seq
        BY <1>7, TxFrameType DEF TxFrame, Command, LinkTyped, LinkTypeOK, ControllerTypeOK
      <4>2. Is(s_rx_dummy)'
        BY <1>1, <1>2, <4>1, AgreeTypes DEF Is
      <4>3. ~Is(s_pending_cmd)' /\ ~Is(s_rx_dummy)
        BY <1>1, <1>2, <3>3 DEF Is
      <4> QED  BY <1>1, <1>3, <3>3, <4>2, <4>3 DEF Lag
    <3> QED  BY <3>1, <3>2, <3>3
  <2>3. g_cmd.retries_left > Lag
    BY <1>7, <2>1 DEF Budget
  <2>4. Counted = [g_cmd EXCEPT !.retries_left = @ - 1]
    BY <1>7, <2>1, <2>3, AgreeTypes DEF Counted
  <2>5. Counted.state = "pending" /\ Counted.seq = g_cmd.seq /\ Counted.retries_left = g_cmd.retries_left - 1
    BY <1>7, <2>4 DEF LinkTyped, LinkTypeOK, ControllerTypeOK
  <2>6. Counted.retries_left # 0 /\ ~Answers(f, Counted)
    BY <1>7, <2>1, <2>3, <2>5, AgreeTypes DEF Answers, Old
  <2>7. g_cmd' = Counted /\ active_stm' = active_stm
    BY <1>1, <2>5, <2>6 DEF Receive, Observe
  <2>8. Budget'
    BY <2>1, <2>2, <2>3, <2>5, <2>7, AgreeTypes DEF Budget
  <2> QED
    BY <1>1, <1>2, <1>4, <1>5, <2>5, <2>7, <2>8 DEF Agreed
<1>8. CASE g_cmd.state = "pending" /\ ~Old(t)
  <2>1. Reached /\ f.ack = "ok" /\ f.reserved = g_cmd.seq
    BY <1>0, <1>8 DEF WayOut, Old
  <2>2. s_active_config = g_cmd.payload
    BY <2>1 DEF WayOut, CommandInv, LastApplied
  <2>3. Lag' = 0
    <3>1. s_pending => ~Old(o)
      BY <1>0, <2>1 DEF WayOut, Old
    <3> QED  BY <1>0, <1>1, <1>3, <2>1, <3>1 DEF Lag
  <2>4. Counted.state = "pending" /\ Counted.seq = g_cmd.seq /\ Counted.payload = g_cmd.payload
    BY <1>8 DEF Counted, LinkTyped, LinkTypeOK, ControllerTypeOK
  <2>5. CASE Valid(f)
    <3>1. g_cmd' = [Counted EXCEPT !.state = "idle"] /\ active_stm' = g_cmd.payload
      BY <1>1, <2>1, <2>4, <2>5 DEF Receive, Observe, Answers
    <3> QED
      BY <1>1, <1>2, <1>3, <1>4, <1>5, <2>1, <2>2, <2>3, <3>1 DEF Budget, Agreed, ackVars
  <2>6. CASE ~Valid(f)
    <3>1. g_cmd' = Counted
      BY <1>1, <2>6 DEF Receive
    <3> QED
      BY <1>1, <1>2, <1>4, <1>5, <2>3, <2>4, <3>1 DEF Budget, Agreed
  <2> QED  BY <2>5, <2>6
<1> QED  BY <1>6, <1>7, <1>8, AgreeTypes

(* A new command meets at most four frames that do not answer it, so the    *)
(* budget it is given is enough.                                            *)
LEMMA QueueAgrees ==
  ASSUME MaxCmds < CmdMod, 5 <= MaxRetries, \A p \in Configs : Acceptable(p),
         LinkTyped, CommandInv, AgreeParts, PiReload
  PROVE  AgreeParts'
<1> USE DEF AgreeParts
<1>1. PICK p \in Configs \ {cfg_stm} : Reload(p, FALSE)
  BY DEF PiReload
<1>2. cfg_stm' = p /\ g_cmd' = Queued(p, g_cmd.seq) /\ g_cmd.seq < MaxCmds
  BY <1>1 DEF Reload, PiReload
<1>3. g_cmd'.seq = g_cmd.seq + 1 /\ g_cmd'.state = "pending" /\ g_cmd'.retries_left = MaxRetries
      /\ g_cmd'.payload = p
  BY <1>2, LinkAssumption, WireAssumption DEF Queued, Inc, CommandInv, CurrentSeq
<1>4. UNCHANGED stmVars
  BY DEF PiReload
<1>5. WayIn'
  BY <1>4 DEF WayIn, Undamaged, stmVars, sendVars, txVars, cmdVars
<1>6. s_latched_cmd_seq <= g_cmd.seq /\ \A i \in 0 .. 1 : s_frame[i].reserved <= g_cmd.seq
  BY DEF WayOut
<1>7. ~Reached' /\ \A i \in 0 .. 1 : s_frame'[i].reserved < g_cmd'.seq
  BY <1>3, <1>4, <1>6, AgreeTypes DEF Reached, stmVars, sendVars, txVars, cmdVars, ackVars
<1>8. WayOut'
  <2>1. s_latched_cmd_seq' <= g_cmd'.seq
    BY <1>3, <1>4, <1>6, AgreeTypes DEF stmVars, sendVars, cmdVars, ackVars
  <2>2. \A i \in 0 .. 1 : s_frame'[i].reserved <= g_cmd'.seq /\ s_frame'[i].reserved # g_cmd'.seq
    BY <1>3, <1>4, <1>6, AgreeTypes DEF stmVars, sendVars, txVars
  <2>3. s_pending' => s_tx_idx' \in 0 .. 1
    BY <1>4, AgreeTypes DEF stmVars, sendVars, txVars
  <2> QED  BY <1>7, <2>1, <2>2, <2>3 DEF WayOut
<1>9. Lag' <= 4
  <2>1. ~Is(s_pending_cmd)' /\ ~Is(s_rx_dummy)'
    <3>1. /\ s_pending_cmd # NoCmd => s_pending_cmd.cmd_seq \in Int /\ s_pending_cmd.cmd_seq <= g_cmd.seq
          /\ s_rx_dummy # NoCmd => s_rx_dummy.cmd_seq \in Int /\ s_rx_dummy.cmd_seq <= g_cmd.seq
      BY AgreeTypes DEF CommandInv, ReceivedInOrder, Received
    <3> QED  BY <1>3, <1>4, <3>1, AgreeTypes DEF Is, stmVars, sendVars, txVars, cmdVars
  <2> QED  BY <1>7, <2>1 DEF Lag
<1>10. Budget'
  <2>1. Lag' \in Nat /\ MaxRetries \in Nat
    BY ControllerAssumption DEF Lag
  <2> QED  BY <1>3, <1>9, <2>1 DEF Budget
<1>11. Agreed'
  BY <1>2, <1>3 DEF Agreed
<1> QED  BY <1>5, <1>8, <1>10, <1>11

(* The main loop of the firmware takes no part.                             *)
LEMMA StutterAgrees ==
  ASSUME AgreeParts, UNCHANGED <<sendVars, piVars>>
  PROVE  AgreeParts'
BY DEF AgreeParts, WayIn, Undamaged, WayOut, Reached, Budget, Lag, Is, Old, Agreed, sendVars,
       txVars, cmdVars, ackVars, piVars

(* A run without faults has taken none of the steps that are one.           *)
LEMMA QuietStep ==
  ASSUME LinkTyped, [LinkNext]_linkVars, Quiet'
  PROVE  /\ Quiet
         /\ \/ UNCHANGED <<sendVars, piVars>>
            \/ (BlockReady(TRUE) \/ TxRxCplt(TRUE)) /\ UNCHANGED piVars
            \/ Exchange
            \/ PiReload
<1>1. faults \in Nat /\ restarts \in Nat /\ g_spi_err \in Nat
  BY DEF LinkTyped, LinkTypeOK, TypeOK, SendTypeOK
<1>2. ~Fault /\ ~PiRestart
  BY <1>1 DEF Quiet, Fault, PiRestart
<1>3. ~StmSpiError
  BY <1>1 DEF Quiet, StmSpiError, SpiError
<1>4. ~ExchangeOutOfStep
  BY DEF Quiet, ExchangeOutOfStep, LinkTyped, CutIsFault
<1>5. StmStep \/ Exchange \/ PiReload \/ UNCHANGED linkVars
  BY <1>2, <1>3, <1>4 DEF LinkNext, StmRefusedArm, StmAdcRefused, LinkStmReset, ExchangeRxDamaged,
                    ExchangeTxDamaged, ExchangeInterrupted, ExchangeStaleLine, PiReopen
<1>6. UNCHANGED <<faults, restarts, g_spi_err>>
  BY <1>5 DEF StmStep, MainLoop, BlockReady, TxRxCplt, Exchange, SpiTransfer, PiReload, linkVars,
              stmVars, sendVars, txVars
<1> QED
  BY <1>5, <1>6 DEF Quiet, StmStep, MainLoop, linkVars, stmVars

(* A quiet run starts with no command, and every board on its default.      *)
LEMMA AgreeInit ==
  ASSUME MaxCmds < CmdMod, 5 <= MaxRetries, \A p \in Configs : Acceptable(p)
  PROVE  LinkInit => AgreeInv
<1> SUFFICES ASSUME LinkInit PROVE AgreeParts
  BY DEF AgreeInv, AgreeParts
<1>1. PICK p \in Configs : ControllerInit(p)
  BY DEF LinkInit
<1>2. Inc(0, CmdMod) = 1
  BY LinkAssumption, WireAssumption DEF Inc
<1>3. /\ g_cmd.seq = 1 /\ g_cmd.state = "pending" /\ g_cmd.payload = p /\ cfg_stm = p
      /\ g_cmd.retries_left = MaxRetries
  BY <1>1, <1>2 DEF ControllerInit, Queued
<1>4. /\ \A i \in 0 .. 1 : s_frame[i] = ZeroFrame
      /\ s_pending = FALSE /\ s_rx_dummy = NoCmd /\ s_pending_cmd = NoCmd /\ s_latched_cmd_seq = 0
  BY DEF LinkInit, StmInit, SendInit
<1>5. WayIn /\ WayOut
  BY <1>3, <1>4 DEF WayIn, WayOut, Undamaged, Reached, ZeroFrame
<1>6. Lag = 3
  BY <1>3, <1>4 DEF Lag, Reached, Is
<1> QED
  BY <1>3, <1>5, <1>6, ControllerAssumption DEF AgreeParts, Budget, Agreed

(* Without faults, restarts and SPI errors the boards agree whenever the Pi *)
(* is idle: it never gives a command up, as long as its budget is at least  *)
(* five attempts (32 in the code; with four TLC finds a command given up),  *)
(* the firmware would accept every configuration, and the sequence numbers  *)
(* of the process have not wrapped (cmd_count_attempt and cmd_observe       *)
(* against the two buffers and the one sniffed command of the firmware).    *)
THEOREM IdleBoardsAgree ==
  ASSUME MaxCmds < CmdMod, 5 <= MaxRetries, \A p \in Configs : Acceptable(p)
  PROVE  LinkSpec => []AgreedWhenIdle
<1>1. LinkInit => AgreeInv
  BY AgreeInit
<1>2. LinkInv /\ AgreeInv /\ [LinkNext]_linkVars => AgreeInv'
  <2> SUFFICES ASSUME LinkInv, AgreeInv, [LinkNext]_linkVars, Quiet' PROVE AgreeParts'
    BY DEF AgreeInv, AgreeParts
  <2>1. LinkTyped
    BY DEF LinkInv
  <2>2. CommandInv /\ AgreeParts
    BY <2>1, QuietStep DEF LinkInv, AgreeInv, AgreeParts, Quiet
  <2> QED
    BY <2>1, <2>2, QuietStep, BlockAgrees, CompletionAgrees, ExchangeAgrees, QueueAgrees,
       StutterAgrees
<1>3. AgreeInv => AgreedWhenIdle
  BY DEF AgreeInv, Quiet, Agreed, AgreedWhenIdle
<1> QED
  BY <1>1, <1>2, <1>3, LinkInvariant, PTL DEF LinkSpec
=============================================================================
