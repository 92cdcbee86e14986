--------------------------- MODULE MotorShm_proofs ---------------------------
(***************************************************************************)
(* The seqlock and the ring, as long as the controller is not restarted on *)
(* the object: no read is torn, none is older than what it was asked for,  *)
(* and what the monitor gives up cannot be delivered any more.  Proved for *)
(* every ring size, set of fields, bound on the retries and on the blocks. *)
(***************************************************************************)
EXTENDS MotorShm, TLAPS

-----------------------------------------------------------------------------
(* Arithmetic of positions.                                                *)

\* A remainder is below the modulus.
LEMMA ModRange ==
  ASSUME NEW x \in Int, NEW m \in Nat \ {0}
  PROVE  x % m \in 0 .. m - 1
BY SMT

\* A number below the modulus is its own remainder.
LEMMA ModSmall ==
  ASSUME NEW m \in Nat \ {0}, NEW x \in 0 .. m - 1
  PROVE  x % m = x
BY SMT

\* A quotient and what it leaves over.
LEMMA DivMod ==
  ASSUME NEW x \in Nat, NEW m \in Nat \ {0}
  PROVE  x = m * (x \div m) + (x % m) /\ x \div m \in Int /\ x % m \in 0 .. m - 1
BY SMT

\* The only multiple of m strictly between -m and m is 0.
LEMMA SmallMultiple ==
  ASSUME NEW m \in Nat \ {0}, NEW k \in Int, -m < m * k, m * k < m
  PROVE  k = 0
<1>1. CASE k >= 1
  <2>1. PICK j \in Nat : k = j + 1
    BY <1>1, SMT
  <2>2. m * k = m * j + m
    BY <2>1, SMT
  <2>3. m * j >= 0
    BY <2>1, SMT
  <2> QED  BY <2>2, <2>3, m * j \in Int, SMT
<1>2. CASE k <= -1
  <2>1. PICK j \in Nat : k = -1 - j
    BY <1>2, -1 - k \in Nat, SMT
  <2>2. m * k = -(m * j) - m
    BY <2>1, SMT
  <2>3. m * j >= 0
    BY <2>1, SMT
  <2> QED  BY <2>2, <2>3, m * j \in Int, SMT
<1> QED  BY <1>1, <1>2, SMT

\* A lap later the same slot comes round.
LEMMA ModLap ==
  ASSUME NEW x \in Nat, NEW m \in Nat \ {0}
  PROVE  (x + m) % m = x % m
<1> DEFINE q == x \div m
           r == (x + m) \div m
           a == x % m
           b == (x + m) % m
<1>1. x = m * q + a /\ q \in Int /\ a \in 0 .. m - 1
  BY DivMod
<1>2. x + m = m * r + b /\ r \in Int /\ b \in 0 .. m - 1
  BY DivMod, x + m \in Nat
<1> HIDE DEF q, r, a, b
<1>3. m * (r - q - 1) = m * r - m * q - m
  BY <1>1, <1>2, SMT
<1>4. m * r \in Int /\ m * q \in Int
  BY <1>1, <1>2, SMT
<1>5. r - q - 1 = 0
  BY <1>1, <1>2, <1>3, <1>4, SmallMultiple,
     -m < m * (r - q - 1), m * (r - q - 1) < m, r - q - 1 \in Int, SMT
<1>6. m * r = m * q + m
  BY <1>1, <1>2, <1>3, <1>4, <1>5, SMT
<1> QED  BY <1>1, <1>2, <1>4, <1>6, SMT DEF a, b

\* The bounds of the counters, as numbers.
LEMMA Bounds ==
  /\ Depth \in Nat \ {0}
  /\ Tries \in Nat \ {0}
  /\ PosMod \in Nat \ {0}
  /\ MaxBlocks \in Nat /\ MaxBlocks + Depth < PosMod
BY ShmAssumption, SMT

\* A position names a slot, and a slot is not the snapshot.
LEMMA SlotIsCell ==
  ASSUME NEW p \in Int
  PROVE  p % Depth \in Slots /\ p % Depth \in Cells /\ p % Depth # Snap
BY ModRange, Bounds, SMT DEF Slots, Cells, Snap

-----------------------------------------------------------------------------
(* Type correctness.                                                       *)

\* A block is only begun below the bound, and write_pos waits for it.
OpenBelowBound == pub.step \in {"copy", "advance"} => write_pos < MaxBlocks


ShmTyped == ShmTypeOK /\ OpenBelowBound

\* The initial values have the types of the variables.
LEMMA TypeInit == Init => ShmTyped
<1> SUFFICES ASSUME Init PROVE ShmTyped
  OBVIOUS
<1>1. Snap \in Cells
  BY DEF Cells
<1>2. 0 \in 0 .. MaxBlocks /\ 0 \in 0 .. MaxRestarts /\ 0 \in 0 .. PosMod - 1 /\ 0 \in 0 .. Tries - 1
  BY Bounds, ShmAssumption, SMT
<1> QED  BY <1>1, <1>2 DEF Init, ShmTyped, ShmTypeOK, OpenBelowBound, ReadOf

\* A read that begins on a cell is well typed.
LEMMA ReadOfType ==
  ASSUME NEW c \in Cells
  PROVE  ReadOf(c) \in [step: {"attach", "load", "copy", "wp"}, cell: Cells, s1: Nat,
                        todo: SUBSET Fields, tries: 0 .. Tries - 1]
<1>1. 0 \in 0 .. Tries - 1
  BY Bounds, SMT
<1> QED  BY <1>1 DEF ReadOf

\* The type of the monitor's own variables.
MonTypeOK ==
  /\ read_pos \in 0 .. PosMod - 1
  /\ wp \in 0 .. MaxBlocks
  /\ drops \in 0 .. PosMod - 1
  /\ rd \in [step: {"attach", "load", "copy", "wp"}, cell: Cells, s1: Nat,
             todo: SUBSET Fields, tries: 0 .. Tries - 1]
  /\ out \in [Fields -> Nat]

\* Draining goes on with a well-typed read.
LEMMA DrainType ==
  ASSUME NEW p \in Int, NEW w, Drain(p, w)
  PROVE  rd' \in [step: {"attach", "load", "copy", "wp"}, cell: Cells, s1: Nat,
                  todo: SUBSET Fields, tries: 0 .. Tries - 1]
<1>1. p % Depth \in Cells /\ Snap \in Cells
  BY SlotIsCell DEF Cells
<1> QED  BY <1>1, ReadOfType DEF Drain

\* However a read ends, the cursor, the drops and the next read are typed.
LEMMA ReturnType ==
  ASSUME MonTypeOK, NEW lost \in Int, Return(lost), UNCHANGED <<wp, out>>
  PROVE  MonTypeOK'
<1>1. CASE rd.cell = Snap
  <2>1. Snap \in Cells
    BY DEF Cells
  <2> QED  BY <1>1, <2>1, ReadOfType DEF Return, MonTypeOK
<1>2. CASE rd.cell # Snap
  <2>1. read_pos + 1 \in Int /\ drops + lost \in Int
    BY SMT DEF MonTypeOK
  <2>2. read_pos' \in 0 .. PosMod - 1 /\ drops' \in 0 .. PosMod - 1
    BY <1>2, <2>1, ModRange, Bounds DEF Return
  <2>3. Drain(read_pos + 1, wp)
    BY <1>2 DEF Return
  <2> QED  BY <2>1, <2>2, <2>3, DrainType DEF MonTypeOK
<1> QED  BY <1>1, <1>2

\* So they are when it is tried again.
LEMMA RetryType ==
  ASSUME MonTypeOK, Retry, UNCHANGED <<wp, out>>
  PROVE  MonTypeOK'
<1>1. CASE TriesMade = Tries
  BY <1>1, ReturnType DEF Retry
<1>2. CASE TriesMade # Tries
  <2>1. rd.cell \in Cells
    BY DEF MonTypeOK
  <2>2. TriesMade \in 0 .. Tries - 1
    BY <1>2, Bounds, SMT DEF TriesMade, MonTypeOK
  <2> QED  BY <1>2, <2>1, <2>2, ReadOfType DEF Retry, MonTypeOK
<1> QED  BY <1>1, <1>2

\* The type of the controller's variables and of the region.
PubTypeOK ==
  /\ lock \in [Cells -> Nat]
  /\ data \in [Cells -> [Fields -> Nat]]
  /\ write_pos \in 0 .. MaxBlocks
  /\ block \in Nat
  /\ restarts \in 0 .. MaxRestarts
  /\ pub \in [step: {"open", "copy", "advance", "init", "init_pos", "gone"}, cell: Cells, todo: SUBSET Fields]

\* A step of the controller keeps them typed.
LEMMA PublishType ==
  ASSUME PubTypeOK, OpenBelowBound, Publish \/ Shutdown \/ Restart \/ InitCell \/ InitWritePos
  PROVE  PubTypeOK' /\ OpenBelowBound'
<1>9. \A c \in Cells : c # Snap /\ c # Depth - 1 => c + 1 \in Cells
  BY Bounds, SMT DEF Cells, Slots, Snap
<1> USE DEF PubTypeOK, OpenBelowBound
<1>0. pub.cell \in Cells /\ lock[pub.cell] \in Nat /\ lock[pub.cell] + 1 \in Nat
  OBVIOUS
<1>1. CASE OpenCell
  <2>1. lock' \in [Cells -> Nat]
    BY <1>0, <1>1 DEF OpenCell, WriteBegins
  <2>2. pub' \in [step: {"open", "copy", "advance", "init", "init_pos", "gone"}, cell: Cells, todo: SUBSET Fields]
    BY <1>1 DEF OpenCell
  <2> QED  BY <1>1, <2>1, <2>2 DEF OpenCell
<1>2. CASE \E f \in Fields : WriteField(f)
  <2>1. PICK f \in Fields : WriteField(f)
    BY <1>2
  <2>2. data' \in [Cells -> [Fields -> Nat]]
    BY <2>1 DEF WriteField
  <2>3. pub' \in [step: {"open", "copy", "advance", "init", "init_pos", "gone"}, cell: Cells, todo: SUBSET Fields]
    BY <2>1 DEF WriteField
  <2> QED  BY <2>1, <2>2, <2>3 DEF WriteField
<1>3. CASE CommitCell
  <2>1. NextSlot \in Cells
    BY SlotIsCell, SMT DEF NextSlot
  <2>2. lock' \in [Cells -> Nat]
    BY <1>0, <1>3 DEF CommitCell
  <2>3. pub' \in [step: {"open", "copy", "advance", "init", "init_pos", "gone"}, cell: Cells, todo: SUBSET Fields]
    BY <1>3, <2>1 DEF CommitCell
  <2> QED  BY <1>3, <2>2, <2>3 DEF CommitCell
<1>4. CASE Advance
  <2>1. Snap \in Cells
    BY DEF Cells
  <2>2. write_pos' \in 0 .. MaxBlocks /\ block' \in Nat
    BY <1>4, Bounds, SMT DEF Advance
  <2>3. pub' \in [step: {"open", "copy", "advance", "init", "init_pos", "gone"}, cell: Cells, todo: SUBSET Fields]
        /\ pub'.step = "open"
    BY <1>4, <2>1 DEF Advance
  <2> QED  BY <1>4, <2>2, <2>3 DEF Advance
<1>5. CASE Restart
  <2>1. Snap \in Cells
    BY DEF Cells
  <2>2. restarts' \in 0 .. MaxRestarts /\ block' \in Nat
    BY <1>5, ShmAssumption, SMT DEF Restart
  <2> QED  BY <1>5, <2>1, <2>2 DEF Restart, shmVars
<1>6. CASE InitCell
  <2>1. Snap \in Cells /\ 0 \in Nat
    BY DEF Cells
  <2>2. lock' \in [Cells -> Nat]
    BY <1>6, <2>1 DEF InitCell
  <2>3. pub.cell # Snap /\ pub.cell # Depth - 1 => pub.cell + 1 \in Cells
    BY <1>0, <1>9
  <2>4. Snap # Depth - 1
    BY Bounds, SMT DEF Snap
  <2>5. pub' \in [step: {"open", "copy", "advance", "init", "init_pos", "gone"}, cell: Cells, todo: SUBSET Fields]
        /\ pub'.step \notin {"copy", "advance"}
    BY <1>6, <2>1, <2>3, <2>4 DEF InitCell
  <2> QED  BY <1>6, <2>2, <2>5 DEF InitCell
<1>7. CASE InitWritePos
  <2>1. 0 \in Cells /\ 0 \in 0 .. MaxBlocks
    BY Bounds, SMT DEF Cells, Slots
  <2> QED  BY <1>7, <2>1 DEF InitWritePos
<1>8. CASE Shutdown
  <2>1. pub' = [pub EXCEPT !.step = "gone"] /\ UNCHANGED <<shmVars, block, restarts>>
    BY <1>8 DEF Shutdown
  <2>2. pub' \in [step: {"open", "copy", "advance", "init", "init_pos", "gone"}, cell: Cells, todo: SUBSET Fields]
        /\ pub'.step = "gone"
    BY <2>1
  <2> QED  BY <2>1, <2>2 DEF shmVars
<1> QED  BY <1>1, <1>2, <1>3, <1>4, <1>5, <1>6, <1>7, <1>8 DEF Publish

\* A step of the monitor keeps its own typed.
LEMMA MonitorType ==
  ASSUME MonTypeOK, PubTypeOK, Monitor
  PROVE  MonTypeOK'
<1>1. CASE Attach
  <2>1. Snap \in Cells /\ write_pos \in 0 .. PosMod - 1
    BY Bounds, SMT DEF Cells, PubTypeOK
  <2> QED  BY <1>1, <2>1, ReadOfType DEF Attach, MonTypeOK
<1>2. CASE LoadLock
  <2>1. CASE lock[rd.cell] % 2 = 1
    BY <1>2, <2>1, RetryType DEF LoadLock
  <2>2. CASE lock[rd.cell] % 2 # 1
    BY <1>2, <2>2 DEF LoadLock, MonTypeOK, PubTypeOK
  <2> QED  BY <2>1, <2>2
<1>3. CASE \E f \in Fields : CopyField(f)
  BY <1>3 DEF CopyField, MonTypeOK, PubTypeOK
<1>4. CASE CheckLock
  BY <1>4, ReturnType, RetryType DEF CheckLock
<1>5. CASE LoadWritePos
  <2> DEFINE start == IF Behind > Depth THEN OldestBlock(write_pos) ELSE read_pos
             lost  == IF Behind > Depth THEN Behind - Depth ELSE 0
  <2>1. Behind \in 0 .. PosMod - 1
    BY ModRange, Bounds, write_pos - read_pos \in Int DEF Behind, MonTypeOK, PubTypeOK
  <2>2. OldestBlock(write_pos) \in 0 .. PosMod - 1
    BY ModRange, Bounds, write_pos - Depth \in Int DEF OldestBlock, PubTypeOK
  <2>3. start \in 0 .. PosMod - 1 /\ start \in Int
    BY <2>2, SMT DEF MonTypeOK
  <2>4. drops + lost \in Int
    BY <2>1, Bounds, SMT DEF MonTypeOK
  <2>5. drops' \in 0 .. PosMod - 1
    BY <1>5, <2>4, ModRange, Bounds DEF LoadWritePos
  <2>6. read_pos' = start /\ Drain(start, write_pos) /\ wp' = write_pos /\ out' = out
    BY <1>5 DEF LoadWritePos
  <2> HIDE DEF start, lost
  <2> QED  BY <2>3, <2>5, <2>6, DrainType DEF MonTypeOK, PubTypeOK
<1> QED  BY <1>1, <1>2, <1>3, <1>4, <1>5 DEF Monitor

\* A step keeps all the types.
LEMMA TypeStep ==
  ASSUME ShmTyped, [Next]_vars
  PROVE  ShmTyped'
<1>1. ShmTypeOK <=> MonTypeOK /\ PubTypeOK
  BY DEF ShmTypeOK, MonTypeOK, PubTypeOK
<1>2. ShmTypeOK' <=> MonTypeOK' /\ PubTypeOK'
  BY DEF ShmTypeOK, MonTypeOK, PubTypeOK
<1>3. CASE Publish \/ Shutdown \/ Restart \/ InitCell \/ InitWritePos
  <2>1. UNCHANGED monVars
    BY <1>3 DEF Publish, OpenCell, WriteField, CommitCell, Advance, Shutdown, Restart, InitCell,
              InitWritePos
  <2>2. MonTypeOK'
    BY <1>1, <2>1 DEF ShmTyped, MonTypeOK, monVars
  <2> QED  BY <1>1, <1>2, <1>3, <2>2, PublishType DEF ShmTyped
<1>4. CASE Monitor
  <2>1. UNCHANGED <<shmVars, pubVars>>
    BY <1>4 DEF Monitor, Attach, LoadLock, CopyField, CheckLock, LoadWritePos
  <2>2. PubTypeOK' /\ OpenBelowBound'
    BY <1>1, <2>1 DEF ShmTyped, PubTypeOK, OpenBelowBound, shmVars, pubVars
  <2> QED  BY <1>1, <1>2, <1>4, <2>2, MonitorType DEF ShmTyped
<1>5. CASE UNCHANGED vars
  BY <1>5 DEF ShmTyped, ShmTypeOK, OpenBelowBound, vars, shmVars, pubVars, monVars
<1> QED  BY <1>3, <1>4, <1>5 DEF Next

(* The variables of the controller, the region and the monitor keep their   *)
(* types, whatever restarts there are.                                      *)
THEOREM TypeCorrect == Spec => []ShmTypeOK
<1>1. Spec => []ShmTyped
  BY TypeInit, TypeStep, PTL DEF Spec
<1> QED  BY <1>1, PTL DEF ShmTyped

-----------------------------------------------------------------------------
(* The seqlock.  A read is whole because the lock word is odd exactly while *)
(* its cell is written, and only grows: a reader that finds an even value   *)
(* twice saw no write in between.                                           *)

\* The controller is writing this cell.
Copying(c) == pub.step = "copy" /\ pub.cell = c

\* Without a restart the controller is in one of the steps of Publish, or at
\* its end.
PubAlive == pub.step \in {"open", "copy", "advance", "gone"}

\* The lock word of a cell is odd exactly while the cell is written.
LockOdd == \A c \in Cells : lock[c] % 2 = 1 <=> Copying(c)

\* A cell nobody writes holds one block; the one being written has the new
\* block in the fields that are done.
WholeCells ==
  \A c \in Cells :
    IF Copying(c)
    THEN \A f \in Fields \ pub.todo : data[c][f] = block
    ELSE \A f, g \in Fields : data[c][f] = data[c][g]

\* A read begins with every field to copy.  The copy began under an even lock
\* word, and as long as the word is the same the fields copied so far are those
\* of the cell.
ReadClean ==
  /\ rd.step = "load" => rd.todo = Fields
  /\ rd.step = "copy" =>
       /\ rd.s1 % 2 = 0
       /\ rd.s1 <= lock[rd.cell]
       /\ lock[rd.cell] = rd.s1 => \A f \in Fields \ rd.todo : out[f] = data[rd.cell][f]

SeqlockInv == PubAlive /\ LockOdd /\ WholeCells /\ ReadClean

\* A parity changes with each increment.
LEMMA Parity ==
  ASSUME NEW n \in Nat
  PROVE  (n + 1) % 2 = 1 <=> n % 2 # 1
BY SMT

\* The invariant holds of the fresh object.
LEMMA SeqlockInit == Init => SeqlockInv
<1> SUFFICES ASSUME Init PROVE SeqlockInv
  OBVIOUS
<1>1. 0 % 2 = 0
  BY SMT
<1> QED
  BY <1>1 DEF Init, SeqlockInv, PubAlive, LockOdd, WholeCells, ReadClean, Copying, ReadOf

\* A step of the controller keeps it.
LEMMA SeqlockPublish ==
  ASSUME ShmTyped, SeqlockInv, Publish
  PROVE  SeqlockInv'
<1> USE DEF SeqlockInv
<1>0. /\ pub.cell \in Cells /\ lock[pub.cell] \in Nat /\ lock \in [Cells -> Nat]
      /\ data \in [Cells -> [Fields -> Nat]] /\ rd.cell \in Cells /\ rd.s1 \in Nat
      /\ lock[rd.cell] \in Nat
  BY DEF ShmTyped, ShmTypeOK
<1>1. UNCHANGED <<rd, out>>
  BY DEF Publish, OpenCell, WriteField, CommitCell, Advance, monVars
<1>2. CASE OpenCell
  <2>1. /\ pub' = [pub EXCEPT !.step = "copy", !.todo = Fields]
        /\ lock' = [lock EXCEPT ![pub.cell] = @ + 1] /\ pub.step = "open" /\ data' = data
    BY <1>2 DEF OpenCell, WriteBegins
  <2>2. pub'.step = "copy" /\ pub'.cell = pub.cell /\ pub'.todo = Fields
    BY <2>1 DEF ShmTyped, ShmTypeOK
  <2>3. PubAlive'
    BY <2>2 DEF PubAlive
  <2>4. LockOdd'
    BY <1>0, <2>1, <2>2, Parity DEF LockOdd, Copying
  <2>5. WholeCells'
    BY <2>1, <2>2 DEF WholeCells, Copying
  <2>6. ReadClean'
    <3>1. CASE rd.cell = pub.cell
      BY <1>0, <1>1, <2>1, <3>1, SMT DEF ReadClean
    <3>2. CASE rd.cell # pub.cell
      BY <1>0, <1>1, <2>1, <3>2 DEF ReadClean
    <3> QED  BY <3>1, <3>2
  <2> QED  BY <2>3, <2>4, <2>5, <2>6
<1>3. CASE \E f \in Fields : WriteField(f)
  <2> PICK f \in Fields : WriteField(f)
    BY <1>3
  <2>1. /\ pub.step = "copy" /\ data' = [data EXCEPT ![pub.cell][f] = block]
        /\ pub' = [pub EXCEPT !.todo = @ \ {f}] /\ lock' = lock /\ block' = block
    BY DEF WriteField
  <2>2. pub'.step = pub.step /\ pub'.cell = pub.cell /\ pub'.todo = pub.todo \ {f}
    BY <2>1 DEF ShmTyped, ShmTypeOK
  <2>3. PubAlive' /\ LockOdd'
    BY <2>1, <2>2 DEF PubAlive, LockOdd, Copying
  <2>4. /\ \A c \in Cells : c # pub.cell => data'[c] = data[c]
        /\ data'[pub.cell] = [data[pub.cell] EXCEPT ![f] = block]
    BY <1>0, <2>1
  <2>5. WholeCells'
    BY <1>0, <2>1, <2>2, <2>4 DEF WholeCells, Copying
  <2>6. ReadClean'
    <3>1. CASE rd.cell = pub.cell
      <4>1. lock[rd.cell] % 2 = 1
        BY <1>0, <2>1, <3>1 DEF LockOdd, Copying
      <4>2. rd.step = "copy" => lock[rd.cell] # rd.s1
        BY <4>1, SMT DEF ReadClean
      <4> QED  BY <1>1, <2>1, <4>2 DEF ReadClean
    <3>2. CASE rd.cell # pub.cell
      BY <1>0, <1>1, <2>1, <2>4, <3>2 DEF ReadClean
    <3> QED  BY <3>1, <3>2
  <2> QED  BY <2>3, <2>5, <2>6
<1>4. CASE CommitCell
  <2>1. /\ pub.step = "copy" /\ pub.todo = {} /\ lock' = [lock EXCEPT ![pub.cell] = @ + 1]
        /\ data' = data
    BY <1>4 DEF CommitCell
  <2>2. pub'.step \in {"open", "advance"}
    BY <1>4 DEF CommitCell, ShmTyped, ShmTypeOK
  <2>3. PubAlive'
    BY <2>2 DEF PubAlive
  <2>4. LockOdd'
    BY <1>0, <2>1, <2>2, Parity DEF LockOdd, Copying
  <2>5. WholeCells'
    BY <1>0, <2>1, <2>2 DEF WholeCells, Copying
  <2>6. ReadClean'
    <3>1. CASE rd.cell = pub.cell
      BY <1>0, <1>1, <2>1, <3>1, SMT DEF ReadClean
    <3>2. CASE rd.cell # pub.cell
      BY <1>0, <1>1, <2>1, <3>2 DEF ReadClean
    <3> QED  BY <3>1, <3>2
  <2> QED  BY <2>3, <2>4, <2>5, <2>6
<1>5. CASE Advance
  <2>1. pub.step = "advance" /\ pub'.step = "open" /\ UNCHANGED <<lock, data>>
    BY <1>5 DEF Advance, ShmTyped, ShmTypeOK
  <2> QED
    BY <1>1, <2>1 DEF PubAlive, LockOdd, WholeCells, ReadClean, Copying
<1> QED  BY <1>2, <1>3, <1>4, <1>5 DEF Publish

\* Where a read goes on when it returns or is tried again: not in the copy.
LEMMA NotCopying ==
  ASSUME ShmTyped, (\E lost : Return(lost)) \/ Retry
  PROVE  rd'.step \in {"load", "wp"} /\ rd'.todo = Fields
<1>1. ASSUME NEW lost, Return(lost) PROVE rd'.step \in {"load", "wp"} /\ rd'.todo = Fields
  BY <1>1 DEF Return, Drain, ReadOf
<1> QED  BY <1>1 DEF Retry, ReadOf

\* A step of the monitor keeps it.
LEMMA SeqlockMonitor ==
  ASSUME ShmTyped, SeqlockInv, Monitor
  PROVE  SeqlockInv'
<1> USE DEF SeqlockInv
<1>0. /\ lock \in [Cells -> Nat] /\ rd.cell \in Cells /\ lock[rd.cell] \in Nat
      /\ out \in [Fields -> Nat] /\ rd.todo \subseteq Fields
  BY DEF ShmTyped, ShmTypeOK
<1>1. UNCHANGED <<shmVars, pubVars>>
  BY DEF Monitor, Attach, LoadLock, CopyField, CheckLock, LoadWritePos
<1>2. PubAlive' /\ LockOdd' /\ WholeCells'
  BY <1>1 DEF PubAlive, LockOdd, WholeCells, Copying, shmVars, pubVars
<1>3. CASE Attach \/ LoadWritePos
  <2>1. rd'.step # "copy" /\ rd'.todo = Fields
    BY <1>3 DEF Attach, LoadWritePos, Drain, ReadOf
  <2> QED  BY <1>2, <2>1 DEF ReadClean
<1>4. CASE LoadLock
  <2>1. CASE lock[rd.cell] % 2 = 1
    BY <1>2, <1>4, <2>1, NotCopying DEF LoadLock, ReadClean
  <2>2. CASE lock[rd.cell] % 2 # 1
    <3>1. /\ rd.step = "load"
          /\ rd'.step = "copy" /\ rd'.cell = rd.cell /\ rd'.s1 = lock[rd.cell] /\ rd'.todo = rd.todo
      BY <1>4, <2>2 DEF LoadLock, ShmTyped, ShmTypeOK
    <3>2. lock[rd.cell] % 2 = 0 /\ lock[rd.cell] <= lock[rd.cell]
      BY <1>0, <2>2, SMT
    <3> QED  BY <1>1, <1>2, <3>1, <3>2 DEF ReadClean, shmVars
  <2> QED  BY <2>1, <2>2
<1>5. CASE \E f \in Fields : CopyField(f)
  <2> PICK f \in Fields : CopyField(f)
    BY <1>5
  <2>1. /\ rd.step = "copy" /\ out' = [out EXCEPT ![f] = data[rd.cell][f]]
        /\ rd' = [rd EXCEPT !.todo = @ \ {f}] /\ lock' = lock /\ data' = data
    BY <1>1 DEF CopyField, shmVars
  <2>2. rd'.step = "copy" /\ rd'.cell = rd.cell /\ rd'.s1 = rd.s1 /\ rd'.todo = rd.todo \ {f}
    BY <2>1 DEF ShmTyped, ShmTypeOK
  <2>3. \A g \in Fields : out'[g] = IF g = f THEN data[rd.cell][f] ELSE out[g]
    BY <1>0, <2>1
  <2>4. ReadClean'
    BY <2>1, <2>2, <2>3 DEF ReadClean
  <2> QED  BY <1>2, <2>4
<1>6. CASE CheckLock
  BY <1>2, <1>6, NotCopying DEF CheckLock, ReadClean
<1> QED  BY <1>3, <1>4, <1>5, <1>6 DEF Monitor

\* Every step keeps it, as long as the controller is not restarted.
LEMMA SeqlockStep ==
  ASSUME ShmTyped, restarts = 0 => SeqlockInv, [Next]_vars
  PROVE  (restarts = 0 => SeqlockInv)'
<1> SUFFICES ASSUME restarts' = 0 PROVE SeqlockInv'
  OBVIOUS
<1>1. ~Restart
  BY SMT DEF Restart, ShmTyped, ShmTypeOK
<1>2. CASE Publish
  BY <1>2, SeqlockPublish DEF Publish, OpenCell, WriteField, CommitCell, Advance
<1>3. CASE Monitor
  BY <1>3, SeqlockMonitor DEF Monitor, Attach, LoadLock, CopyField, CheckLock, LoadWritePos, pubVars
<1>4. CASE InitCell \/ InitWritePos
  BY <1>4 DEF InitCell, InitWritePos, SeqlockInv, PubAlive
<1>5. CASE UNCHANGED vars
  BY <1>5 DEF vars, shmVars, pubVars, monVars, SeqlockInv, PubAlive, LockOdd, WholeCells, ReadClean, Copying
<1>6. CASE Shutdown
  <2>1. /\ pub.step = "open" /\ pub'.step = "gone" /\ pub'.cell = pub.cell
        /\ UNCHANGED <<lock, data, block, rd, out, restarts>>
    BY <1>6 DEF Shutdown, shmVars, monVars, ShmTyped, ShmTypeOK
  <2>2. SeqlockInv /\ \A c : ~Copying(c) /\ ~Copying(c)'
    BY <2>1 DEF Copying
  <2> QED  BY <2>1, <2>2 DEF SeqlockInv, PubAlive, LockOdd, WholeCells, ReadClean
<1> QED  BY <1>1, <1>2, <1>3, <1>4, <1>5, <1>6 DEF Next

\* A read about to succeed found its cell whole, and took all of it.
LEMMA SucceedsWhole ==
  ASSUME ShmTyped, SeqlockInv, Succeeds
  PROVE  \A f, g \in Fields : out[f] = data[rd.cell][f] /\ out[f] = out[g]
<1>1. rd.cell \in Cells /\ lock[rd.cell] = rd.s1 /\ rd.step = "copy" /\ rd.todo = {}
  BY DEF Succeeds, Copied, NotOverwritten, ShmTyped, ShmTypeOK
<1>2. \A f \in Fields : out[f] = data[rd.cell][f]
  BY <1>1 DEF SeqlockInv, ReadClean
<1>3. lock[rd.cell] % 2 # 1
  BY <1>1, SMT DEF SeqlockInv, ReadClean
<1>4. ~Copying(rd.cell)
  BY <1>1, <1>3 DEF SeqlockInv, LockOdd
<1> QED  BY <1>1, <1>2, <1>4 DEF SeqlockInv, WholeCells

(* A read that returns true holds one block, all of it, whatever the fields *)
(* are and in whatever order they are written and copied, for any number of *)
(* tries.                                                                   *)
THEOREM SeqlockNeverTorn == Spec => []NeverTorn
<1>1. Spec => []ShmTyped
  BY TypeInit, TypeStep, PTL DEF Spec
<1>2. Init => (restarts = 0 => SeqlockInv)
  BY SeqlockInit
<1>3. ShmTyped /\ (restarts = 0 => SeqlockInv) => NeverTorn
  BY SucceedsWhole DEF NeverTorn
<1> QED  BY <1>1, <1>2, <1>3, SeqlockStep, PTL DEF Spec

-----------------------------------------------------------------------------
(* The ring.  write_pos is moved past a slot only once the slot is          *)
(* committed, so what is below it can be read, or was lapped by a newer      *)
(* block of the same slot.                                                   *)

\* The block being published is the next one, and it goes to its own slot.
PubPlace ==
  /\ block = write_pos + 1
  /\ pub.cell # Snap => pub.cell = write_pos % Depth
  /\ pub.step = "advance" => pub.cell # Snap /\ \A f \in Fields : data[pub.cell][f] = block

\* A slot only ever holds the blocks of its own positions.
OwnSlot ==
  \A c \in Slots, f \in Fields : data[c][f] = 0 \/ (data[c][f] - 1) % Depth = c

\* Every position below write_pos was committed.
Committed ==
  \A p \in 0 .. write_pos - 1 : \A f \in Fields : data[p % Depth][f] >= p + 1

\* The cursor is not ahead of what is published, and a slot is only read for
\* the position of the cursor.
Cursor ==
  /\ wp <= write_pos
  /\ read_pos <= write_pos
  /\ rd.cell # Snap => /\ rd.step \in {"load", "copy"}
                       /\ rd.cell = read_pos % Depth
                       /\ read_pos < wp

\* A slot whose lock word moved during the copy is gone: a newer block is in it
\* or on its way.
Overtaken ==
  rd.step = "copy" /\ rd.cell # Snap /\ lock[rd.cell] # rd.s1 =>
    Copying(rd.cell) \/ \A f \in Fields : data[rd.cell][f] > read_pos + 1

RingInv == PubPlace /\ OwnSlot /\ Committed /\ Cursor /\ Overtaken

\* The invariant holds of the fresh object.
LEMMA RingInit == Init => RingInv
<1> SUFFICES ASSUME Init PROVE RingInv
  OBVIOUS
<1>1. 0 \in 0 .. 0 /\ 0 .. 0 - 1 = {}
  BY SMT
<1>2. PubPlace /\ Cursor
  BY SMT DEF Init, PubPlace, Cursor, ReadOf
<1>3. OwnSlot /\ Overtaken
  BY DEF Init, OwnSlot, Overtaken, Slots, Cells, ReadOf
<1>4. Committed
  BY <1>1 DEF Init, Committed
<1> QED  BY <1>2, <1>3, <1>4 DEF RingInv

\* A step of the controller keeps it.
LEMMA RingPublish ==
  ASSUME ShmTyped, SeqlockInv, RingInv, Publish
  PROVE  RingInv'
<1> USE DEF RingInv
<1>0. /\ pub.cell \in Cells /\ rd.cell \in Cells /\ lock \in [Cells -> Nat]
      /\ data \in [Cells -> [Fields -> Nat]]
      /\ write_pos \in Nat /\ block \in Nat /\ read_pos \in Nat /\ wp \in Nat
      /\ rd.s1 \in Nat /\ Depth \in Nat \ {0}
  BY Bounds, SMT DEF ShmTyped, ShmTypeOK
<1>1. UNCHANGED <<rd, out, read_pos, wp>>
  BY DEF Publish, OpenCell, WriteField, CommitCell, Advance, monVars
<1>2. CASE OpenCell
  <2>1. /\ lock' = [lock EXCEPT ![pub.cell] = @ + 1]
        /\ pub.step = "open" /\ UNCHANGED <<data, write_pos, block>>
    BY <1>2 DEF OpenCell, WriteBegins
  <2>2. pub'.step = "copy" /\ pub'.cell = pub.cell
    BY <1>2 DEF OpenCell, ShmTyped, ShmTypeOK
  <2>3. PubPlace' /\ OwnSlot' /\ Committed' /\ Cursor'
    BY <1>1, <2>1, <2>2 DEF PubPlace, OwnSlot, Committed, Cursor
  <2>4. Overtaken'
    <3>1. CASE rd.cell = pub.cell
      BY <1>1, <2>2, <3>1 DEF Overtaken, Copying
    <3>2. CASE rd.cell # pub.cell
      BY <1>0, <1>1, <2>1, <3>2 DEF Overtaken, Copying
    <3> QED  BY <3>1, <3>2
  <2> QED  BY <2>3, <2>4
<1>3. CASE \E f \in Fields : WriteField(f)
  <2> PICK f \in Fields : WriteField(f)
    BY <1>3
  <2>1. /\ pub.step = "copy" /\ data' = [data EXCEPT ![pub.cell][f] = block]
        /\ UNCHANGED <<lock, write_pos, block>>
    BY DEF WriteField
  <2>2. pub'.step = "copy" /\ pub'.cell = pub.cell
    BY <2>1 DEF WriteField, ShmTyped, ShmTypeOK
  <2>3. \A c \in Cells, g \in Fields :
          data'[c][g] = IF c = pub.cell /\ g = f THEN block ELSE data[c][g]
    BY <1>0, <2>1
  <2>4. PubPlace' /\ Cursor'
    BY <1>1, <2>1, <2>2 DEF PubPlace, Cursor
  <2>5. OwnSlot'
    <3> SUFFICES ASSUME NEW c \in Slots, NEW g \in Fields
                 PROVE  data'[c][g] = 0 \/ (data'[c][g] - 1) % Depth = c
      BY DEF OwnSlot
    <3>1. c \in Cells /\ c # Snap
      BY SMT DEF Cells, Slots, Snap
    <3>2. CASE c = pub.cell /\ g = f
      <4>1. data'[c][g] = block /\ block - 1 = write_pos
        BY <1>0, <2>3, <3>1, <3>2 DEF PubPlace
      <4>2. c = write_pos % Depth
        BY <3>1, <3>2 DEF PubPlace
      <4> QED  BY <4>1, <4>2
    <3>3. CASE ~(c = pub.cell /\ g = f)
      BY <2>3, <3>1, <3>3 DEF OwnSlot
    <3> QED  BY <3>2, <3>3
  <2>6. Committed'
    <3> SUFFICES ASSUME NEW p \in 0 .. write_pos - 1, NEW g \in Fields
                 PROVE  data'[p % Depth][g] >= p + 1
      BY <2>1 DEF Committed
    <3>1. p % Depth \in Cells /\ p \in Int
      BY SlotIsCell
    <3>2. data[p % Depth][g] >= p + 1
      BY DEF Committed
    <3>3. block >= p + 1
      BY <1>0, SMT DEF PubPlace
    <3> QED  BY <2>3, <3>1, <3>2, <3>3
  <2>7. Overtaken'
    <3>1. CASE rd.cell = pub.cell
      BY <1>1, <2>2, <3>1 DEF Overtaken, Copying
    <3>2. CASE rd.cell # pub.cell
      BY <1>0, <1>1, <2>1, <2>2, <2>3, <3>2 DEF Overtaken, Copying
    <3> QED  BY <3>1, <3>2
  <2> QED  BY <2>4, <2>5, <2>6, <2>7
<1>4. CASE CommitCell
  <2>1. /\ pub.step = "copy" /\ pub.todo = {} /\ lock' = [lock EXCEPT ![pub.cell] = @ + 1]
        /\ UNCHANGED <<data, write_pos, block>>
    BY <1>4 DEF CommitCell
  <2>2. \A f \in Fields : data[pub.cell][f] = block
    BY <1>0, <2>1 DEF SeqlockInv, WholeCells, Copying
  <2>3. OwnSlot' /\ Committed' /\ Cursor'
    BY <1>1, <2>1 DEF OwnSlot, Committed, Cursor
  <2>4. PubPlace'
    <3>1. CASE pub.cell = Snap
      <4>1. pub'.step = "open" /\ pub'.cell = write_pos % Depth
        BY <1>4, <3>1 DEF CommitCell, NextSlot, ShmTyped, ShmTypeOK
      <4> QED  BY <2>1, <4>1 DEF PubPlace
    <3>2. CASE pub.cell # Snap
      <4>1. pub'.step = "advance" /\ pub'.cell = pub.cell
        BY <1>4, <3>2 DEF CommitCell, ShmTyped, ShmTypeOK
      <4> QED  BY <2>1, <2>2, <3>2, <4>1 DEF PubPlace
    <3> QED  BY <3>1, <3>2
  <2>5. Overtaken'
    <3>1. CASE rd.cell = pub.cell /\ rd.cell # Snap
      <4>1. rd.cell # Snap => read_pos + 1 < block
        BY <1>0, SMT DEF PubPlace, Cursor
      <4>2. \A f \in Fields : data[rd.cell][f] > read_pos + 1
        BY <1>0, <2>2, <3>1, <4>1, SMT
      <4> QED  BY <1>1, <2>1, <4>2 DEF Overtaken
    <3>2. CASE rd.cell # pub.cell
      BY <1>0, <1>1, <2>1, <3>2 DEF Overtaken, Copying
    <3>3. CASE rd.cell = Snap
      BY <1>1, <3>3 DEF Overtaken
    <3> QED  BY <3>1, <3>2, <3>3
  <2> QED  BY <2>3, <2>4, <2>5
<1>5. CASE Advance
  <2>1. /\ pub.step = "advance" /\ write_pos' = write_pos + 1 /\ block' = block + 1
        /\ UNCHANGED <<lock, data>>
    BY <1>5 DEF Advance
  <2>2. pub'.step = "open" /\ pub'.cell = Snap
    BY <1>5 DEF Advance, ShmTyped, ShmTypeOK
  <2>3. PubPlace'
    BY <1>0, <2>1, <2>2, SMT DEF PubPlace
  <2>4. OwnSlot'
    BY <2>1 DEF OwnSlot
  <2>5. Cursor'
    BY <1>0, <1>1, <2>1, SMT DEF Cursor
  <2>6. Committed'
    <3> SUFFICES ASSUME NEW p \in 0 .. write_pos, NEW g \in Fields
                 PROVE  data[p % Depth][g] >= p + 1
      <4>1. write_pos' - 1 = write_pos
        BY <1>0, <2>1, SMT
      <4> QED  BY <2>1, <4>1 DEF Committed
    <3>1. CASE p = write_pos
      BY <1>0, <2>1, <3>1, SMT DEF PubPlace
    <3>2. CASE p # write_pos
      <4>1. p \in 0 .. write_pos - 1
        BY <1>0, <3>2, SMT
      <4> QED  BY <4>1 DEF Committed
    <3> QED  BY <3>1, <3>2
  <2>7. Overtaken'
    BY <1>1, <2>1, <2>2 DEF Overtaken, Copying
  <2> QED  BY <2>3, <2>4, <2>5, <2>6, <2>7
<1> QED  BY <1>2, <1>3, <1>4, <1>5 DEF Publish

\* Draining from a position not ahead of write_pos keeps the cursor in place.
LEMMA DrainCursor ==
  ASSUME NEW p \in Int, NEW w \in Int, write_pos' \in Int, p <= w, w <= write_pos', Drain(p, w),
         read_pos' = p, wp' = w
  PROVE  Cursor' /\ rd'.step = "load"
<1>1. rd'.step = "load" /\ (rd'.cell # Snap => p < w /\ rd'.cell = p % Depth)
  BY DEF Drain, ReadOf
<1>2. p <= write_pos'
  BY SMT
<1> QED  BY <1>1, <1>2 DEF Cursor

\* A read that returns moves the cursor by one if it was of a slot.
LEMMA ReturnCursor ==
  ASSUME ShmTyped, Cursor, NEW lost, Return(lost), UNCHANGED <<wp, write_pos>>
  PROVE  /\ Cursor' /\ rd'.step # "copy"
         /\ read_pos' = IF rd.cell = Snap THEN read_pos ELSE read_pos + 1
<1>0. /\ read_pos \in Nat /\ wp \in Nat /\ write_pos \in 0 .. MaxBlocks
      /\ MaxBlocks \in Nat /\ MaxBlocks < PosMod /\ PosMod \in Nat \ {0}
  BY Bounds, SMT DEF ShmTyped, ShmTypeOK
<1>1. CASE rd.cell = Snap
  <2>1. rd' = [ReadOf(Snap) EXCEPT !.step = "wp"] /\ read_pos' = read_pos
    BY <1>1 DEF Return
  <2>2. rd'.cell = Snap /\ rd'.step = "wp"
    BY <2>1 DEF ReadOf
  <2> QED  BY <1>1, <2>1, <2>2 DEF Cursor
<1>2. CASE rd.cell # Snap
  <2>1. read_pos + 1 <= wp /\ wp <= write_pos' /\ read_pos + 1 \in 0 .. PosMod - 1
    BY <1>0, <1>2, SMT DEF Cursor
  <2>2. read_pos' = read_pos + 1
    BY <1>0, <1>2, <2>1, ModSmall DEF Return
  <2>3. Drain(read_pos + 1, wp)
    BY <1>2 DEF Return
  <2>4. Cursor' /\ rd'.step = "load"
    BY <1>0, <2>1, <2>2, <2>3, DrainCursor, read_pos + 1 \in Int, wp \in Int, write_pos' \in Int
  <2> QED  BY <1>2, <2>2, <2>4
<1> QED  BY <1>1, <1>2

\* So it is when the read is tried again: the cursor moves only if the tries
\* are used up.
LEMMA RetryCursor ==
  ASSUME ShmTyped, Cursor, rd.step \in {"load", "copy"}, Retry, UNCHANGED <<wp, write_pos>>
  PROVE  /\ Cursor' /\ rd'.step # "copy"
         /\ read_pos' \in {read_pos, IF rd.cell = Snap THEN read_pos ELSE read_pos + 1}
<1>1. CASE TriesMade = Tries
  BY <1>1, ReturnCursor DEF Retry
<1>2. CASE TriesMade # Tries
  <2>1. rd' = [ReadOf(rd.cell) EXCEPT !.tries = TriesMade] /\ read_pos' = read_pos
    BY <1>2 DEF Retry
  <2>2. rd'.cell = rd.cell /\ rd'.step = "load"
    BY <2>1 DEF ReadOf
  <2> QED  BY <2>1, <2>2 DEF Cursor
<1> QED  BY <1>1, <1>2

\* Without a restart the cursor is behind write_pos by what it has to read; a
\* lapped cursor goes on Depth blocks behind.
LEMMA LapArithmetic ==
  ASSUME ShmTyped, Cursor
  PROVE  /\ Behind = write_pos - read_pos
         /\ Behind > Depth => OldestBlock(write_pos) = write_pos - Depth
<1>0. /\ read_pos \in Nat /\ write_pos \in 0 .. MaxBlocks /\ Depth \in Nat \ {0}
      /\ MaxBlocks \in Nat /\ MaxBlocks < PosMod /\ PosMod \in Nat \ {0} /\ read_pos <= write_pos
  BY Bounds, SMT DEF ShmTyped, ShmTypeOK, Cursor
<1>1. write_pos - read_pos \in 0 .. PosMod - 1
  BY <1>0, SMT
<1>2. Behind = write_pos - read_pos
  BY <1>0, <1>1, ModSmall DEF Behind
<1>3. ASSUME Behind > Depth PROVE OldestBlock(write_pos) = write_pos - Depth
  <2>1. write_pos - Depth \in 0 .. PosMod - 1
    BY <1>0, <1>2, <1>3, SMT
  <2> QED  BY <1>0, <2>1, ModSmall DEF OldestBlock
<1> QED  BY <1>2, <1>3

\* A step of the monitor keeps the invariant.
LEMMA RingMonitor ==
  ASSUME ShmTyped, SeqlockInv, RingInv, Monitor
  PROVE  RingInv'
<1> USE DEF RingInv
<1>0. /\ read_pos \in Nat /\ wp \in Nat /\ write_pos \in Nat /\ Depth \in Nat \ {0}
      /\ rd.cell \in Cells
  BY Bounds, SMT DEF ShmTyped, ShmTypeOK
<1>1. UNCHANGED <<shmVars, pubVars>>
  BY DEF Monitor, Attach, LoadLock, CopyField, CheckLock, LoadWritePos
<1>2. PubPlace' /\ OwnSlot' /\ Committed' /\ UNCHANGED <<lock, data, write_pos, pub>>
  BY <1>1 DEF PubPlace, OwnSlot, Committed, shmVars, pubVars
<1>3. CASE Attach
  <2>1. read_pos' = write_pos /\ wp' = wp /\ rd'.cell = Snap /\ rd'.step = "load"
    BY <1>3 DEF Attach, ReadOf
  <2> QED  BY <1>0, <1>2, <2>1 DEF Cursor, Overtaken
<1>4. CASE LoadLock
  <2>1. CASE lock[rd.cell] % 2 = 1
    BY <1>2, <1>4, <2>1, RetryCursor DEF LoadLock, Overtaken
  <2>2. CASE lock[rd.cell] % 2 # 1
    <3>1. /\ rd.step = "load" /\ UNCHANGED <<read_pos, wp>>
          /\ rd'.step = "copy" /\ rd'.cell = rd.cell /\ rd'.s1 = lock[rd.cell]
      BY <1>4, <2>2 DEF LoadLock, ShmTyped, ShmTypeOK
    <3> QED  BY <1>2, <3>1 DEF Cursor, Overtaken
  <2> QED  BY <2>1, <2>2
<1>5. CASE \E f \in Fields : CopyField(f)
  <2> PICK f \in Fields : CopyField(f)
    BY <1>5
  <2>1. /\ rd.step = "copy" /\ UNCHANGED <<read_pos, wp>>
        /\ rd'.step = "copy" /\ rd'.cell = rd.cell /\ rd'.s1 = rd.s1
    BY DEF CopyField, ShmTyped, ShmTypeOK
  <2> QED  BY <1>2, <2>1 DEF Cursor, Overtaken, Copying
<1>6. CASE CheckLock
  BY <1>2, <1>6, ReturnCursor, RetryCursor DEF CheckLock, Copied, Overtaken
<1>7. CASE LoadWritePos
  <2> DEFINE start == IF Behind > Depth THEN OldestBlock(write_pos) ELSE read_pos
  <2>1. start \in Int /\ start <= write_pos
    BY <1>0, LapArithmetic, SMT DEF Cursor
  <2>2. read_pos' = start /\ Drain(start, write_pos) /\ wp' = write_pos
    BY <1>7 DEF LoadWritePos
  <2> HIDE DEF start
  <2>3. Cursor' /\ rd'.step = "load"
    BY <1>0, <1>2, <2>1, <2>2, DrainCursor, write_pos <= write_pos', SMT
  <2> QED  BY <1>2, <2>3 DEF Overtaken
<1> QED  BY <1>3, <1>4, <1>5, <1>6, <1>7 DEF Monitor

\* Every step keeps it, as long as the controller is not restarted.
LEMMA RingStep ==
  ASSUME ShmTyped, restarts = 0 => SeqlockInv /\ RingInv, [Next]_vars
  PROVE  (restarts = 0 => RingInv)'
<1> SUFFICES ASSUME restarts' = 0 PROVE RingInv'
  OBVIOUS
<1>1. ~Restart
  BY SMT DEF Restart, ShmTyped, ShmTypeOK
<1>2. CASE Publish
  BY <1>2, RingPublish DEF Publish, OpenCell, WriteField, CommitCell, Advance
<1>3. CASE Monitor
  BY <1>3, RingMonitor DEF Monitor, Attach, LoadLock, CopyField, CheckLock, LoadWritePos, pubVars
<1>4. CASE InitCell \/ InitWritePos
  BY <1>4 DEF InitCell, InitWritePos, SeqlockInv, PubAlive
<1>5. CASE UNCHANGED vars
  BY <1>5 DEF vars, shmVars, pubVars, monVars,
              RingInv, PubPlace, OwnSlot, Committed, Cursor, Overtaken, Copying
<1>6. CASE Shutdown
  <2>1. /\ pub.step = "open" /\ pub'.step = "gone" /\ pub'.cell = pub.cell
        /\ UNCHANGED <<shmVars, block, monVars, restarts>>
    BY <1>6 DEF Shutdown, ShmTyped, ShmTypeOK
  <2>2. RingInv /\ \A c : ~Copying(c) /\ ~Copying(c)'
    BY <2>1 DEF Copying
  <2> QED
    BY <2>1, <2>2 DEF shmVars, monVars, RingInv, PubPlace, OwnSlot, Committed, Cursor, Overtaken
<1> QED  BY <1>1, <1>2, <1>3, <1>4, <1>5, <1>6 DEF Next

\* What holds in every state, restarts counted.
RegionInv == ShmTyped /\ (restarts = 0 => SeqlockInv /\ RingInv)

\* The three parts together are inductive.
LEMMA RegionInvariant == Spec => []RegionInv
<1>1. Init => RegionInv
  BY TypeInit, SeqlockInit, RingInit DEF RegionInv
<1>2. RegionInv /\ [Next]_vars => RegionInv'
  BY TypeStep, SeqlockStep, RingStep DEF RegionInv
<1> QED  BY <1>1, <1>2, PTL DEF Spec

(* A slot read of position p returns block p, or one that lapped it by      *)
(* whole turns of the ring: write_pos is never ahead of a slot that is not  *)
(* committed.                                                               *)
THEOREM RingNeverOlder == Spec => []NeverOlder
<1>1. RegionInv => NeverOlder
  <2> SUFFICES ASSUME RegionInv, restarts = 0, Succeeds, rd.cell # Snap, NEW f \in Fields
               PROVE  out[f] - 1 >= read_pos /\ (out[f] - 1) % Depth = rd.cell
    BY DEF NeverOlder
  <2>1. ShmTyped /\ SeqlockInv /\ RingInv
    BY DEF RegionInv
  <2>2. /\ rd.cell \in Slots /\ read_pos \in Nat /\ write_pos \in Nat /\ wp \in Nat
        /\ data[rd.cell][f] \in Nat
    BY <2>1 DEF ShmTyped, ShmTypeOK, Cells
  <2>3. out[f] = data[rd.cell][f]
    BY <2>1, SucceedsWhole
  <2>4. rd.cell = read_pos % Depth /\ read_pos \in 0 .. write_pos - 1
    BY <2>1, <2>2, SMT DEF RingInv, Cursor
  <2>5. data[rd.cell][f] >= read_pos + 1
    BY <2>1, <2>4 DEF RingInv, Committed
  <2>6. (data[rd.cell][f] - 1) % Depth = rd.cell
    BY <2>1, <2>2, <2>5, SMT DEF RingInv, OwnSlot
  <2> QED  BY <2>2, <2>3, <2>5, <2>6, SMT
<1> QED  BY <1>1, RegionInvariant, PTL

(* What the monitor passes without delivering it is lost for good: the lap  *)
(* check and the used-up tries never skip a block that could still be read. *)
THEOREM RingDropsAreLost == Spec => DropsAreLost
<1> DEFINE Lost(p) == \/ \E f \in Fields : data[p % Depth][f] # p + 1
                      \/ pub.cell = p % Depth /\ pub.step = "copy"
<1>1. RegionInv /\ [Next]_vars =>
        [restarts = 0 /\ rd.step # "attach" /\ ~Succeeds =>
           \A p \in read_pos .. read_pos' - 1 : Lost(p)]_vars
  <2> SUFFICES ASSUME RegionInv, Next, restarts = 0, rd.step # "attach", ~Succeeds,
                      NEW p \in read_pos .. read_pos' - 1
               PROVE  Lost(p)
    OBVIOUS
  <2>0. /\ ShmTyped /\ SeqlockInv /\ RingInv
        /\ read_pos \in Nat /\ write_pos \in Nat /\ rd.cell \in Cells /\ Depth \in Nat \ {0}
        /\ data \in [Cells -> [Fields -> Nat]] /\ Cursor
    BY Bounds, SMT DEF RegionInv, RingInv, ShmTyped, ShmTypeOK
  <2>1. PICK f \in Fields : TRUE
    BY ShmAssumption
  <2>2. ASSUME read_pos' = read_pos PROVE FALSE
    BY <2>0, <2>2, SMT
  <2>3. Monitor
    BY <2>2 DEF Next, Publish, OpenCell, WriteField, CommitCell, Advance, Shutdown, Restart,
                InitCell, InitWritePos, monVars
  <2>4. ASSUME read_pos' \in {read_pos, IF rd.cell = Snap THEN read_pos ELSE read_pos + 1}
        PROVE  p = read_pos /\ rd.cell # Snap /\ rd.cell = p % Depth
    <3>1. read_pos' = read_pos + 1 /\ rd.cell # Snap
      BY <2>2, <2>4
    <3>2. p = read_pos
      BY <2>0, <3>1, SMT
    <3> QED  BY <2>0, <3>1, <3>2 DEF Cursor
  <2>5. CASE LoadLock
    <3>1. lock[rd.cell] % 2 = 1 /\ Retry /\ UNCHANGED <<wp, write_pos>> /\ rd.step = "load"
      BY <2>2, <2>5 DEF LoadLock, shmVars
    <3>2. rd.cell = p % Depth
      BY <2>0, <2>4, <3>1, RetryCursor
    <3> QED  BY <2>0, <3>1, <3>2 DEF SeqlockInv, LockOdd, Copying
  <2>6. CASE CheckLock
    <3>1. Retry /\ UNCHANGED <<wp, write_pos>> /\ rd.step = "copy" /\ lock[rd.cell] # rd.s1
      BY <2>6 DEF CheckLock, Succeeds, Copied, NotOverwritten, shmVars
    <3>2. p = read_pos /\ rd.cell = p % Depth /\ rd.cell # Snap
      BY <2>0, <2>4, <3>1, RetryCursor
    <3>3. Copying(rd.cell) \/ data[rd.cell][f] > read_pos + 1
      BY <2>0, <3>1, <3>2 DEF RingInv, Overtaken
    <3>4. data[rd.cell][f] \in Nat
      BY <2>0
    <3>5. data[rd.cell][f] > read_pos + 1 => data[rd.cell][f] # p + 1
      BY <2>0, <3>2, <3>4, SMT
    <3> QED  BY <3>2, <3>3, <3>5 DEF Copying
  <2>7. CASE LoadWritePos
    <3>1. Behind > Depth /\ read_pos' = OldestBlock(write_pos)
      BY <2>2, <2>7 DEF LoadWritePos
    <3>2. read_pos' = write_pos - Depth
      BY <2>0, <3>1, LapArithmetic
    <3>3. p \in Nat /\ p + Depth \in 0 .. write_pos - 1
      BY <2>0, <3>2, SMT
    <3>4. (p + Depth) % Depth = p % Depth
      BY <2>0, <3>3, ModLap
    <3>5. data[p % Depth][f] >= p + Depth + 1
      BY <2>0, <3>3, <3>4 DEF RingInv, Committed
    <3>6. data[p % Depth][f] \in Nat
      BY <2>0, <3>3, SlotIsCell, p \in Int
    <3> QED  BY <2>0, <3>3, <3>5, <3>6, SMT
  <2>8. CASE Attach \/ \E g \in Fields : CopyField(g)
    BY <2>2, <2>8 DEF Attach, CopyField
  <2> QED  BY <2>3, <2>5, <2>6, <2>7, <2>8 DEF Monitor
<1> QED  BY <1>1, RegionInvariant, PTL DEF Spec, DropsAreLost

=============================================================================
