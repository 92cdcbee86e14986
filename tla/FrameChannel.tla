---------------------------- MODULE FrameChannel ----------------------------
(***************************************************************************)
(* What the firmware's sender promises the Pi, without buffers, DMA or     *)
(* interrupts: at most one frame is on offer, at most one waits, only the  *)
(* newest block ever waits, and the data-ready line says whether a frame   *)
(* is on offer.  Frames may be lost; they are never altered, reordered or  *)
(* offered again, except that a counted transfer error may offer the same  *)
(* frame again.                                                            *)
(***************************************************************************)
EXTENDS MotorWire

VARIABLES
  next,     \* sequence number of the next block
  current,  \* the frame on offer
  waiting,  \* the frame behind it
  line,     \* data-ready
  errors    \* transfers that failed

channelVars == <<next, current, waiting, line, errors>>

Init ==
  /\ next = 0
  /\ current = NoFrame
  /\ waiting = NoFrame
  /\ line = FALSE
  /\ errors = 0

\* The frame of the next block.
Newest(f) == f \in Frame /\ f.seq = next

\* A block is ready: its frame is offered, lost, or replaces the waiting one.
Produce ==
  /\ next' = Inc(next, SeqMod)
  /\ \/ current = NoFrame /\ (Newest(current') \/ current' = NoFrame) /\ UNCHANGED waiting
     \/ current # NoFrame /\ Newest(waiting') /\ UNCHANGED current
  /\ UNCHANGED errors

\* The frame on offer was clocked out; the waiting one takes its place.
Deliver ==
  /\ current # NoFrame
  /\ current' \in {waiting, NoFrame}
  /\ waiting' = NoFrame
  /\ UNCHANGED <<next, errors>>

\* The transfer failed.
Retry ==
  /\ current # NoFrame
  /\ current' \in {current, NoFrame}
  /\ waiting' = NoFrame
  /\ errors' = errors + 1
  /\ UNCHANGED next

Next ==
  /\ Produce \/ Deliver \/ Retry
  /\ line' = (current' # NoFrame)

Spec == Init /\ [][Next]_channelVars
=============================================================================
