----------------------------- MODULE SeqAccount -----------------------------
(***************************************************************************)
(* What the controller makes of the sequence numbers of the frames the     *)
(* firmware sends (main loop of giga_spi/motor_controller.c): duplicates   *)
(* are not published, gaps are counted as drops, a step back is a reset.   *)
(* The firmware is MotorSend without commands; the ghosts `number`,        *)
(* `blocks`, `first` and `newest` tell a frame's real place in the stream, *)
(* which the Pi cannot see.                                                *)
(***************************************************************************)
EXTENDS MotorSend

CONSTANTS
  MaxBlocks,    \* bound on the blocks of a behaviour
  MaxBehind,    \* bound on the blocks since the newest one the Pi accounted
  MaxFaults     \* bound on frames dropped unread, STM32 resets and bus
                \* reinitialisations together

ASSUME AccountAssumption ==
  /\ MaxBlocks \in Nat /\ MaxBehind \in Nat /\ MaxFaults \in Nat
  /\ SeqMod % 2 = 0 /\ MaxBehind < SeqMod \div 2

VARIABLES
  have_last, last_seq,
  st,           \* the four counters of controller_stats_t the loop updates
  blocks,       \* ghost: blocks assembled so far
  number,       \* ghost: which of them each buffer holds
  first, newest,\* ghost: those published since the baseline, 0 if none
  lost, stm_resets, reinits   \* ghosts: the faults so far

countVars == <<have_last, last_seq, st, first, newest>>
boundVars == <<lost, stm_resets, reinits>>
accountVars == <<stmVars, countVars, blocks, number, boundVars>>

FaultsLeft == lost + stm_resets + reinits < MaxFaults

(* The counters of controller_stats_t only grow, the baseline is a uint32_t *)
(* and what was published is a range of the blocks sampled.                 *)
AccountTypeOK ==
  /\ have_last \in BOOLEAN
  /\ last_seq \in 0 .. SeqMod - 1
  /\ st \in [duplicates: Nat, seq_drops: Nat, resets: Nat, frames_ok: Nat]
  /\ blocks \in 0 .. MaxBlocks
  /\ number \in [0 .. 1 -> 0 .. MaxBlocks]
  /\ first \in 0 .. MaxBlocks
  /\ newest \in first .. MaxBlocks

AccountInit ==
  /\ StmInit
  /\ have_last = FALSE
  /\ last_seq = 0
  /\ st = [duplicates |-> 0, seq_drops |-> 0, resets |-> 0, frames_ok |-> 0]
  /\ blocks = 0
  /\ number = [i \in 0 .. 1 |-> 0]
  /\ first = 0
  /\ newest = 0
  /\ lost = 0
  /\ stm_resets = 0
  /\ reinits = 0

-----------------------------------------------------------------------------
\* Mutant: the difference is taken before the wrap.
UnwrappedDiff(a, b) == a - b

\* (int32_t)(a - b) of two unsigned counters.
SignedDiff(a, b) ==
  LET d == (a - b) % SeqMod IN IF d < SeqMod \div 2 THEN d ELSE d - SeqMod

\* Mutant: a gap is counted by its length.
DropsOfGap(diff) == diff

\* The frames missing between two that are diff apart.
Drops(diff) == diff - 1

\* Mutant: every frame is published.
AlwaysPublished(diff) == TRUE

\* publish: all frames but the repetition of the last one.
Published(diff) == diff # 0

\* Sequence accounting and publication of one valid frame.
Account(f, n) ==
  LET diff == SignedDiff(f.seq, last_seq)
      new  == ~have_last \/ Published(diff)
  IN /\ have_last' = TRUE
     /\ last_seq' = f.seq
     /\ st' = [ duplicates |-> st.duplicates + (IF have_last /\ diff = 0 THEN 1 ELSE 0),
                seq_drops  |-> st.seq_drops + (IF have_last /\ diff > 1 THEN Drops(diff) ELSE 0),
                resets     |-> st.resets + (IF have_last /\ diff < 0 THEN 1 ELSE 0),
                frames_ok  |-> st.frames_ok + (IF new THEN 1 ELSE 0) ]
     /\ first' = IF have_last THEN first ELSE n
     /\ newest' = n

-----------------------------------------------------------------------------
Block ==
  /\ blocks < MaxBlocks
  /\ blocks - newest < MaxBehind
  /\ blocks' = blocks + 1
  /\ number' = [number EXCEPT ![Other(s_tx_idx)] = blocks + 1]
  /\ \E ok \in BOOLEAN : BlockReady(ok)
  /\ UNCHANGED <<countVars, boundVars>>

\* No command is sent, so the main loop never finds a request to service.
Firmware ==
  /\ \E ok \in BOOLEAN : TxRxCplt(ok) \/ SpiError(ok)
  /\ UNCHANGED <<countVars, blocks, number, boundVars>>

\* Every static of the firmware, and the numbering of its frames, start again.
FirmwareReset ==
  /\ FaultsLeft
  /\ stm_resets' = stm_resets + 1
  /\ StmReset
  /\ UNCHANGED <<countVars, blocks, number, lost, reinits>>

FrameAccounted ==
  /\ SpiTransfer(NoCmd, TRUE)
  /\ Account(s_frame[s_tx_idx], number[s_tx_idx])
  /\ UNCHANGED <<blocks, number, boundVars>>

\* Damaged, of the wrong size, or abandoned on a signal: an exchange cut short changes
\* nothing here until the next one, out of step, has clocked the rest of the frame.
FrameLost ==
  /\ FaultsLeft
  /\ lost' = lost + 1
  /\ SpiTransfer(NoCmd, TRUE)
  /\ UNCHANGED <<countVars, blocks, number, stm_resets, reinits>>

\* handle_reload after a bus reinitialisation: the baseline is dropped.
Reinit ==
  /\ FaultsLeft
  /\ have_last
  /\ reinits' = reinits + 1
  /\ have_last' = FALSE
  /\ UNCHANGED <<stmVars, last_seq, st, first, newest, blocks, number, lost, stm_resets>>

AccountNext == Block \/ Firmware \/ FirmwareReset \/ FrameAccounted \/ FrameLost \/ Reinit

AccountSpec == AccountInit /\ [][AccountNext]_accountVars

-----------------------------------------------------------------------------
(* The drops the Pi reports are exactly the blocks missing in what it       *)
(* published, whatever lost them: a waiting frame overwritten, a refused    *)
(* arm, an SPI error, a damaged exchange, and across the wrap of seq.       *)
DropsExact ==
  (stm_resets = 0 /\ reinits = 0 /\ have_last) =>
    st.seq_drops + st.frames_ok = newest - first + 1

(* Blocks are published in the order they were sampled and none twice, also *)
(* when the firmware sends the interrupted frame again after an SPI error.  *)
PublishedInOrder ==
  [][stm_resets = 0 /\ reinits = 0 /\ st'.frames_ok # st.frames_ok =>
       newest' > newest]_accountVars

(* The Pi reports no reset that did not happen, and at most one for each.   *)
NoFalseReset == st.resets <= stm_resets
=============================================================================
