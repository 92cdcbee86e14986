------------------------------ MODULE MotorShm ------------------------------
(***************************************************************************)
(* giga_spi/motor_shm.h and its consumer motor_monitor.c: the region the   *)
(* controller publishes every frame into, twice.  A cell is one seqlock    *)
(* and the fields it guards: the snapshot, or one slot of the ring.  The   *)
(* fields are plain memory, so each is a step of its own and within a copy *)
(* they go in any order; the fences of the code keep them between the two  *)
(* accesses of the lock word.  A field's value is the number of the block  *)
(* that wrote it.  The controller may die at any step and start again on   *)
(* the same object; the monitor is never told.                             *)
(***************************************************************************)
EXTENDS Integers, FiniteSets

CONSTANTS
  Depth,       \* MOTOR_RING_DEPTH (16 in the code)
  Fields,      \* the parts of a block that are copied one after the other
  Tries,       \* attempts of a read (64 in the code)
  PosMod,      \* 2^64: write_pos and read_pos are uint64_t
  MaxBlocks,   \* bound on the blocks of one controller process
  MaxRestarts  \* bound on restarts of the controller

ASSUME ShmAssumption ==
  /\ Depth \in Nat \ {0}
  /\ Fields # {}
  /\ Tries \in Nat \ {0}
  /\ PosMod \in Nat /\ PosMod % Depth = 0
  /\ MaxBlocks \in Nat /\ MaxBlocks + Depth < PosMod
  /\ MaxRestarts \in Nat

VARIABLES
  lock,        \* seqlock / seq, by cell: odd while the cell is written
  data,        \* the fields, by cell
  write_pos,   \* committed blocks of this controller process
  block,       \* number of the block being published, over all processes
  restarts,
  pub,         \* controller: next step, the cell and the fields to write
  read_pos,    \* monitor: its cursor
  wp,          \* its copy of write_pos
  drops,       \* its count of lost blocks
  rd,          \* its read under way: next step, cell, s1, fields to copy, tries
  out          \* the copy it makes

Snap  == -1
Slots == 0 .. Depth - 1
Cells == Slots \union {Snap}

shmVars == <<lock, data, write_pos>>
pubVars == <<block, restarts, pub>>
monVars == <<read_pos, wp, drops, rd, out>>
vars    == <<shmVars, pubVars, monVars>>

ShmTypeOK ==
  /\ lock \in [Cells -> Nat]
  /\ data \in [Cells -> [Fields -> Nat]]
  /\ write_pos \in 0 .. MaxBlocks
  /\ block \in Nat
  /\ restarts \in 0 .. MaxRestarts
  /\ pub \in [step: {"open", "copy", "advance", "init", "init_pos", "gone"}, cell: Cells, todo: SUBSET Fields]
  /\ read_pos \in 0 .. PosMod - 1
  /\ wp \in 0 .. MaxBlocks
  /\ drops \in 0 .. PosMod - 1
  /\ rd \in [step: {"attach", "load", "copy", "wp"}, cell: Cells, s1: Nat,
             todo: SUBSET Fields, tries: 0 .. Tries - 1]
  /\ out \in [Fields -> Nat]

\* motor_snapshot_read / motor_ring_read_slot begin on a cell.
ReadOf(c) == [step |-> "load", cell |-> c, s1 |-> 0, todo |-> Fields, tries |-> 0]

\* A fresh object is zero; motor_shm_region_init leaves it so.
Init ==
  /\ lock = [c \in Cells |-> 0]
  /\ data = [c \in Cells |-> [f \in Fields |-> 0]]
  /\ write_pos = 0
  /\ block = 1
  /\ restarts = 0
  /\ pub = [step |-> "open", cell |-> Snap, todo |-> {}]
  /\ read_pos = 0
  /\ wp = 0
  /\ drops = 0
  /\ rd = [ReadOf(Snap) EXCEPT !.step = "attach"]
  /\ out = [f \in Fields |-> 0]

-----------------------------------------------------------------------------
(* The controller: motor_snapshot_publish, then motor_ring_publish.        *)

\* Mutant: the lock word stays even during the copy.
WriteBeginsEven(c) == UNCHANGED lock

\* seqlock -> odd.
WriteBegins(c) == lock' = [lock EXCEPT ![c] = @ + 1]

OpenCell ==
  /\ pub.step = "open"
  /\ write_pos < MaxBlocks
  /\ WriteBegins(pub.cell)
  /\ pub' = [pub EXCEPT !.step = "copy", !.todo = Fields]
  /\ UNCHANGED <<data, write_pos, block, restarts, monVars>>

WriteField(f) ==
  /\ pub.step = "copy"
  /\ f \in pub.todo
  /\ data' = [data EXCEPT ![pub.cell][f] = block]
  /\ pub' = [pub EXCEPT !.todo = @ \ {f}]
  /\ UNCHANGED <<lock, write_pos, block, restarts, monVars>>

\* Mutant: the index is taken after it was advanced.
NextSlotAhead == (write_pos + 1) % Depth

\* Where this block goes.
NextSlot == write_pos % Depth

\* seqlock -> even; after the snapshot comes the slot, after the slot write_pos.
CommitCell ==
  /\ pub.step = "copy"
  /\ pub.todo = {}
  /\ lock' = [lock EXCEPT ![pub.cell] = @ + 1]
  /\ pub' = IF pub.cell = Snap
            THEN [pub EXCEPT !.step = "open", !.cell = NextSlot]
            ELSE [pub EXCEPT !.step = "advance"]
  /\ UNCHANGED <<data, write_pos, block, restarts, monVars>>

Advance ==
  /\ pub.step = "advance"
  /\ write_pos' = write_pos + 1
  /\ block' = block + 1
  /\ pub' = [pub EXCEPT !.step = "open", !.cell = Snap]
  /\ UNCHANGED <<lock, data, restarts, monVars>>

\* The process ends in order, or the bus or the pin could not be set up after
\* shm_setup: the object loses its name.  A later process gets another one,
\* which a monitor that has this one mapped does not see.
Shutdown ==
  /\ pub.step = "open"
  /\ pub.cell = Snap
  /\ pub' = [pub EXCEPT !.step = "gone"]
  /\ UNCHANGED <<shmVars, block, restarts, monVars>>

\* The process was killed, wherever it was; the new one finds the object.
Restart ==
  /\ restarts < MaxRestarts
  /\ pub.step # "gone"
  /\ restarts' = restarts + 1
  /\ pub' = [step |-> "init", cell |-> Snap, todo |-> {}]
  /\ block' = block + 1
  /\ UNCHANGED <<shmVars, monVars>>

\* motor_shm_region_init: the snapshot's lock, write_pos, each slot's lock.
InitCell ==
  /\ pub.step = "init"
  /\ lock' = [lock EXCEPT ![pub.cell] = 0]
  /\ pub' = CASE pub.cell = Snap      -> [pub EXCEPT !.step = "init_pos"]
              [] pub.cell = Depth - 1 -> [pub EXCEPT !.step = "open", !.cell = Snap]
              [] OTHER                -> [pub EXCEPT !.cell = @ + 1]
  /\ UNCHANGED <<data, write_pos, block, restarts, monVars>>

InitWritePos ==
  /\ pub.step = "init_pos"
  /\ write_pos' = 0
  /\ pub' = [pub EXCEPT !.step = "init", !.cell = 0]
  /\ UNCHANGED <<lock, data, block, restarts, monVars>>

Publish == OpenCell \/ (\E f \in Fields : WriteField(f)) \/ CommitCell \/ Advance

-----------------------------------------------------------------------------
(* The monitor: the snapshot, then write_pos, then the slots up to it.     *)

\* With the object mapped, the cursor starts at what is published now.
Attach ==
  /\ rd.step = "attach"
  /\ read_pos' = write_pos
  /\ rd' = ReadOf(Snap)
  /\ UNCHANGED <<shmVars, pubVars, wp, drops, out>>

\* The next slot to drain, or the next refresh when the cursor is at `upto`.
Drain(pos, upto) == rd' = ReadOf(IF pos < upto THEN pos % Depth ELSE Snap)

\* The read returned: from the snapshot on to write_pos, from a slot to the next.
Return(lost) ==
  IF rd.cell = Snap
  THEN rd' = [ReadOf(Snap) EXCEPT !.step = "wp"] /\ UNCHANGED <<read_pos, drops>>
  ELSE /\ read_pos' = (read_pos + 1) % PosMod
       /\ drops' = (drops + lost) % PosMod
       /\ Drain(read_pos + 1, wp)

\* Mutant: a failed attempt is not counted.
TriesUncounted == rd.tries

\* Attempts made, this one included.
TriesMade == rd.tries + 1

\* The attempt failed: try again or return false.
Retry ==
  IF TriesMade = Tries
  THEN Return(1)
  ELSE rd' = [ReadOf(rd.cell) EXCEPT !.tries = TriesMade] /\ UNCHANGED <<read_pos, drops>>

LoadLock ==
  /\ rd.step = "load"
  /\ IF lock[rd.cell] % 2 = 1
     THEN Retry
     ELSE /\ rd' = [rd EXCEPT !.step = "copy", !.s1 = lock[rd.cell]]
          /\ UNCHANGED <<read_pos, drops>>
  /\ UNCHANGED <<shmVars, pubVars, wp, out>>

CopyField(f) ==
  /\ rd.step = "copy"
  /\ f \in rd.todo
  /\ out' = [out EXCEPT ![f] = data[rd.cell][f]]
  /\ rd' = [rd EXCEPT !.todo = @ \ {f}]
  /\ UNCHANGED <<shmVars, pubVars, read_pos, wp, drops>>

Copied == rd.step = "copy" /\ rd.todo = {}

\* Mutant: the second look at the lock word is left out.
NeverOverwritten == TRUE

\* s1 = s2
NotOverwritten == lock[rd.cell] = rd.s1

CheckLock ==
  /\ Copied
  /\ IF NotOverwritten THEN Return(0) ELSE Retry
  /\ UNCHANGED <<shmVars, pubVars, wp, out>>

\* Mutant: one block too many is given up.
OldestBlockLate(w) == (w - Depth + 1) % PosMod

\* Mutant: a cursor of a signed type.
OldestBlockSigned(w) == w - Depth

\* Where a lapped cursor goes on.
OldestBlock(w) == (w - Depth) % PosMod

\* Mutant: signed arithmetic.
SignedBehind == write_pos - read_pos

\* Unsigned: a cursor ahead of write_pos is very far behind.
Behind == (write_pos - read_pos) % PosMod

LoadWritePos ==
  LET start == IF Behind > Depth THEN OldestBlock(write_pos) ELSE read_pos
  IN /\ rd.step = "wp"
     /\ wp' = write_pos
     /\ drops' = (drops + (IF Behind > Depth THEN Behind - Depth ELSE 0)) % PosMod
     /\ read_pos' = start
     /\ Drain(start, write_pos)
     /\ UNCHANGED <<shmVars, pubVars, out>>

Monitor == Attach \/ LoadLock \/ (\E f \in Fields : CopyField(f)) \/ CheckLock \/ LoadWritePos

Next == Publish \/ Shutdown \/ Restart \/ InitCell \/ InitWritePos \/ Monitor

Spec == Init /\ [][Next]_vars

(* The monitor is a loop with no blocking call but a sleep.  Nothing is    *)
(* assumed of the controller: it may stop, or be killed, at any step.      *)
FairSpec == Spec /\ WF_vars(Monitor)

-----------------------------------------------------------------------------
\* The read at hand is about to return true.
Succeeds == Copied /\ NotOverwritten

(* A read that returns true holds one block, all of it: the fields were     *)
(* not copied across a publication (the seqlock of motor_snapshot_read and  *)
(* motor_ring_read_slot, as long as the object is not initialised again).   *)
NeverTorn == restarts = 0 /\ Succeeds => \A f, g \in Fields : out[f] = out[g]

(* What a successful read of position p of the ring returns is block p or a *)
(* whole number of laps newer, never older: write_pos is only moved past a  *)
(* slot that is committed.                                                  *)
NeverOlder ==
  restarts = 0 /\ Succeeds /\ rd.cell # Snap =>
    \A f \in Fields : out[f] - 1 >= read_pos /\ (out[f] - 1) % Depth = rd.cell

(* A block the cursor passes without delivering it cannot be delivered any  *)
(* more: its slot holds a newer one or is being written (the lapped check   *)
(* and the failed reads of motor_monitor.c).                                *)
DropsAreLost ==
  [][restarts = 0 /\ rd.step # "attach" /\ ~Succeeds =>
       \A p \in read_pos .. read_pos' - 1 :
         \/ \E f \in Fields : data[p % Depth][f] # p + 1
         \/ pub.cell = p % Depth /\ pub.step = "copy"]_vars

(* The monitor always comes back to write_pos, even when the controller     *)
(* died inside a publication and left a lock word odd.                      *)
NeverHangs == []<>(rd.step = "wp")

(* If the controller pauses after at least Depth blocks, the monitor gets   *)
(* to where it stopped, also when the controller restarted under it and     *)
(* write_pos went back to 0.                                                *)
CatchesUp ==
  \A n \in Depth .. MaxBlocks : write_pos = n ~> (read_pos = n \/ write_pos # n)

(* motor_shm.h:166: false is returned if the slot was overwritten, so true  *)
(* means the block at `pos`.                                                *)
ReturnsBlockAsked ==
  restarts = 0 /\ Succeeds /\ rd.cell # Snap => \A f \in Fields : out[f] - 1 = read_pos
=============================================================================
