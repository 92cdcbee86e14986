------------------------------ MODULE MotorLink ------------------------------
(***************************************************************************)
(* The firmware and the controller joined by the SPI wire.  The Pi starts  *)
(* an exchange when it reads the data-ready line high; the exchange moves  *)
(* the armed frame one way and the Pi's command the other.  Faults: either *)
(* direction damaged, an exchange the Pi abandons on a signal, an exchange *)
(* begun on a line the firmware has not lowered yet, SPI errors, refused   *)
(* arms, a reset of the STM32, a restart of the controller.                *)
(***************************************************************************)
EXTENDS MotorSend, MotorController

CONSTANTS
  MaxCmds,      \* bound on the commands one controller process queues
  MaxFaults,    \* bound on wire faults, refused arms, STM resets and bus
                \* reopenings together
  MaxRestarts   \* bound on controller restarts

ASSUME LinkAssumption ==
  /\ MaxCmds \in Nat \ {0}
  /\ MaxFaults \in Nat
  /\ MaxRestarts \in Nat

VARIABLES
  cut,         \* an exchange was cut short: the Pi's clocks and the frames
               \* of the firmware are out of step
  faults, restarts

linkVars == <<stmVars, piVars, cut, faults, restarts>>

LinkInit ==
  /\ StmInit
  /\ \E p \in Configs : ControllerInit(p)
  /\ cut = FALSE
  /\ faults = 0
  /\ restarts = 0

Fault == faults < MaxFaults /\ faults' = faults + 1

\* The interrupts and the main loop of the firmware.  The rest of an exchange
\* that is out of step goes nowhere once the firmware has nothing armed.
StmStep ==
  /\ MainLoop(TRUE) \/ BlockReady(TRUE) \/ TxRxCplt(TRUE)
  /\ cut' = (cut /\ spi' # "idle")
  /\ UNCHANGED <<piVars, faults, restarts>>

StmRefusedArm ==
  /\ Fault
  /\ BlockReady(FALSE) \/ TxRxCplt(FALSE)
  /\ spi' = "idle"
  /\ cut' = FALSE
  /\ UNCHANGED <<piVars, restarts>>

\* service loses the acquisition: nothing starts it again.
StmAdcRefused ==
  /\ Fault
  /\ s_running
  /\ pc = "rearm"
  /\ MainLoop(FALSE)
  /\ UNCHANGED <<piVars, cut, restarts>>

StmSpiError ==
  /\ \E ok \in BOOLEAN : SpiError(ok)
  /\ cut' = FALSE
  /\ UNCHANGED <<piVars, faults, restarts>>

\* The Pi is not told.
LinkStmReset == Fault /\ StmReset /\ cut' = FALSE /\ UNCHANGED <<piVars, restarts>>

-----------------------------------------------------------------------------
Exchange ==
  /\ dr
  /\ ~cut
  /\ SpiTransfer(TxFrame, TRUE)
  /\ Receive(s_frame[s_tx_idx])
  /\ UNCHANGED <<cut, faults, restarts>>

\* The frame arrives damaged.
ExchangeRxDamaged ==
  /\ dr
  /\ ~cut
  /\ Fault
  /\ SpiTransfer(TxFrame, TRUE)
  /\ Receive(NoFrame)
  /\ UNCHANGED <<cut, restarts>>

\* The command arrives damaged: its magic, or anything behind it.
Damaged(c) == {NoCmd} \union {[c EXCEPT !.crc_ok = FALSE, !.cmd_seq = s] : s \in {0, c.cmd_seq}}

ExchangeTxDamaged ==
  /\ dr
  /\ ~cut
  /\ Fault
  /\ TxFrame # NoCmd
  /\ \E c \in Damaged(TxFrame) : SpiTransfer(c, TRUE)
  /\ Receive(s_frame[s_tx_idx])
  /\ UNCHANGED <<cut, restarts>>

\* What can be left of the command by an exchange that ends early; the next
\* one, out of step, goes on behind it.
Begun == {TxFrame} \union (IF TxFrame = NoCmd THEN {} ELSE Damaged(TxFrame))

\* EINTR, with the whole buffer clocked or a part of it: the Pi neither
\* counts the attempt nor reads the frame.
ExchangeInterrupted ==
  /\ dr
  /\ ~cut
  /\ Fault
  /\ \/ SpiTransfer(TxFrame, TRUE) /\ UNCHANGED cut
     \/ \E c \in Begun : SpiTransfer(c, FALSE) /\ cut' = TRUE
  /\ UNCHANGED <<piVars, restarts>>

\* The exchange after that: it ends the old frame in its middle.  Its own end
\* falls into the next frame, if one is armed by then.
ExchangeOutOfStep ==
  /\ dr
  /\ cut
  /\ SpiTransfer(s_rx_dummy, TRUE)
  /\ Receive(NoFrame)
  /\ cut' \in BOOLEAN
  /\ UNCHANGED <<faults, restarts>>

\* The line is still high from a transfer whose completion interrupt has not
\* run; nobody drives the bus.
ExchangeStaleLine ==
  /\ dr
  /\ spi = "done"
  /\ Fault
  /\ Receive(NoFrame)
  /\ UNCHANGED <<stmVars, cut, restarts>>

-----------------------------------------------------------------------------
PiReload ==
  /\ g_cmd.seq < MaxCmds
  /\ \E p \in Configs \ {cfg_stm} : Reload(p, FALSE)
  /\ UNCHANGED <<stmVars, cut, faults, restarts>>

\* The bus was reopened for a wire parameter; the stm tier is the same.
PiReopen ==
  /\ Fault
  /\ g_cmd.state = "pending"
  /\ Reload(cfg_stm, TRUE)
  /\ UNCHANGED <<stmVars, cut, restarts>>

PiRestart ==
  /\ restarts < MaxRestarts
  /\ restarts' = restarts + 1
  /\ \E p \in Configs : Startup(p)
  /\ UNCHANGED <<stmVars, cut, faults>>

LinkNext ==
  \/ StmStep \/ StmRefusedArm \/ StmAdcRefused \/ StmSpiError \/ LinkStmReset
  \/ Exchange \/ ExchangeRxDamaged \/ ExchangeTxDamaged
  \/ ExchangeInterrupted \/ ExchangeOutOfStep \/ ExchangeStaleLine
  \/ PiReload \/ PiReopen \/ PiRestart

LinkSpec == LinkInit /\ [][LinkNext]_linkVars

(* Interrupts of enabled sources are served, the main loop runs whenever   *)
(* no interrupt does, and the Pi polls the line at least every 2 ms, so    *)
(* none of these steps is postponed for ever once it can happen.  Out of   *)
(* step, some exchange outlasts the old frame with no block ready in that  *)
(* very time.  Nothing is assumed of faults, reloads or restarts.          *)
LinkFairness ==
  /\ WF_linkVars(StmStep /\ BlockReady(TRUE))
  /\ WF_linkVars(StmStep /\ TxRxCplt(TRUE))
  /\ WF_linkVars(StmStep /\ MainLoop(TRUE))
  /\ WF_linkVars(Exchange)
  /\ WF_linkVars(ExchangeOutOfStep)
  /\ SF_linkVars(ExchangeOutOfStep /\ ~cut')

FairLinkSpec == LinkSpec /\ LinkFairness

-----------------------------------------------------------------------------
LinkTypeOK ==
  /\ TypeOK
  /\ ControllerTypeOK
  /\ cut \in BOOLEAN
  /\ faults \in 0 .. MaxFaults
  /\ restarts \in 0 .. MaxRestarts

(* When the Pi takes a command for acknowledged, that very config is the    *)
(* STM32's active config, whatever was lost, damaged, repeated or reset in  *)
(* between (cmd_observe against the duplicate test of process_pending_cmd). *)
AckMeansApplied ==
  [][active_stm' # active_stm /\ active_stm' # UnknownConfig =>
       s_active_config = active_stm']_linkVars

(* Without faults the two boards agree whenever nothing is in flight: the   *)
(* Pi is idle and knows a config, and it is the one the STM32 committed.    *)
AgreedWhenIdle ==
  (faults = 0 /\ restarts = 0 /\ g_spi_err = 0 /\ g_cmd.state = "idle") =>
    /\ active_stm = s_active_config
    /\ active_stm = cfg_stm

(* However often a command is clocked in, it is applied once and announced  *)
(* by one frame: the two buffers never both announce the same command.      *)
AnnouncedOnce ==
  (\A i \in 0 .. 1 : s_frame[i].config_applied) => s_frame[0].reserved # s_frame[1].reserved

(* HAL_ADC_Start_DMA failed in service, and nobody looked: with no block    *)
(* there is no frame, and with no frame no command is seen any more.        *)
AdcLost == s_running /\ adc_dma = 0 /\ pc \notin {"program", "rearm", "set_running"}

(* motor_controller.c:289: a queued command rides every exchange until it   *)
(* is ACKed, NACKed or its retries are used up; so every command is settled *)
(* unless the acquisition is lost.                                          *)
CommandSettles == g_cmd.state = "pending" ~> (g_cmd.state = "idle" \/ AdcLost)

(* Data keeps flowing: whatever faults occur, another transfer completes,   *)
(* unless the acquisition is lost.  It fails if a frame can wait with       *)
(* nothing in flight or the line can be left low over an armed buffer.      *)
FramesKeepFlowing == []<>(spi = "done" \/ AdcLost)
=============================================================================
