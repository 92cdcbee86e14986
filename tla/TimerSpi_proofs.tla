--------------------------- MODULE TimerSpi_proofs ---------------------------
(***************************************************************************)
(* The record of the timer-driven master, for any number of handler        *)
(* threads, samples, shared objects and faults: what the semaphore         *)
(* guarantees while nothing pulled it away, and what it still guarantees   *)
(* of the counters when something did.                                     *)
(***************************************************************************)
EXTENDS TimerSpi, FiniteSetTheorems, TLAPS

-----------------------------------------------------------------------------
(* Types, the numbers not yet bounded.                                     *)

ObjectRecord == [size: {"none", "empty", "full"}, lock: Int, seq: Nat, data: [n: Nat, seq: Nat]]
ReaderRecord == [step: {"open", "poll", "wait", "seq", "data", "post", "off"},
                 obj: 0 .. MaxObjects, seq: Nat, data: [n: Nat, seq: Nat], last_seq: {NoSeq} \union Nat,
                 tries: 0 .. OpenAttempts]
HandlerRecord == [step: {"idle", "wait", "seq", "data", "post", "print"}, n: Nat, seq: Nat]

Shapes ==
  /\ object \in [Objects -> ObjectRecord]
  /\ name \in 0 .. MaxObjects
  /\ g_shm \in 0 .. MaxObjects
  /\ g_seq \in Nat
  /\ main \in {"down", "size", "map", "init", "clear", "arm", "run", "wait", "post", "disarm",
               "destroy", "unmap", "unlink"}
  /\ handler \in [Handlers -> HandlerRecord]
  /\ reader \in ReaderRecord
  /\ samples \in 0 .. MaxSamples
  /\ emitted \in Nat
  /\ overlapped \in BOOLEAN
  /\ unlocked \in BOOLEAN
  /\ faults \in 0 .. MaxFaults

\* Where the master is: it has an object mapped exactly between Mmap and Unmap,
\* it is the object of the name, and threads run only after the timer was armed.
\* A reader that looked the object up has one.
Places ==
  /\ g_shm # 0 <=> main \notin {"down", "size", "map", "unlink"}
  /\ g_shm # 0 => g_shm = name
  /\ main # "down" => name # 0
  /\ main \in {"down", "size", "map", "init", "clear", "arm"} => \A h \in Handlers : handler[h] = Idle
  /\ reader.step \notin {"open", "off"} => reader.obj # 0

Shaped == Shapes /\ Places

\* Both hold from the start.
LEMMA ShapedInit == TimerInit => Shaped
<1> SUFFICES ASSUME TimerInit PROVE Shaped
  OBVIOUS
<1>1. 0 \in 0 .. MaxObjects /\ 0 \in 0 .. MaxSamples /\ 0 \in 0 .. MaxFaults /\ 0 \in 0 .. OpenAttempts
  BY TimerAssumption
<1>2. Zeroed \in ObjectRecord /\ Idle \in HandlerRecord /\ Away \in ReaderRecord
  BY <1>1 DEF Zeroed, Idle, Away, Sample, ObjectRecord, HandlerRecord, ReaderRecord
<1>3. Shapes
  BY <1>1, <1>2 DEF TimerInit, Shapes
<1>4. Places
  BY DEF TimerInit, Places, Away, Idle
<1> QED  BY <1>3, <1>4 DEF Shaped

\* One access of main.
LEMMA MainShaped ==
  ASSUME Shaped, ShmOpen \/ Stop \/ MainStep \/ InterruptedWait
  PROVE  Shaped'
<1> USE DEF Shaped
<1>0. 0 \in 0 .. MaxObjects /\ Idle \in HandlerRecord
  BY TimerAssumption DEF Idle, HandlerRecord
<1>a. g_shm # 0 => g_shm \in Objects
  BY TimerAssumption DEF Shapes, Objects
<1>1. CASE ShmOpen
  <2>1. name' \in 0 .. MaxObjects /\ name' # 0 /\ object' \in [Objects -> ObjectRecord]
    <3>1. CASE name # 0
      BY <1>1, <3>1 DEF ShmOpen, Shapes
    <3>2. CASE name = 0
      <4>1. PICK o \in Objects : name' = o /\ object' = [object EXCEPT ![o].size = "empty"]
        BY <1>1, <3>2 DEF ShmOpen, Unused
      <4>2. object[o] \in ObjectRecord
        BY DEF Shapes
      <4>3. [object[o] EXCEPT !.size = "empty"] \in ObjectRecord
        BY <4>2 DEF ObjectRecord
      <4>4. object' \in [Objects -> ObjectRecord]
        BY <4>1, <4>3 DEF Shapes
      <4> QED  BY <4>1, <4>4, TimerAssumption DEF Objects
    <3> QED  BY <3>1, <3>2
  <2>2. main = "down" /\ main' = "size" /\ g_shm' = 0 /\ unlocked' \in BOOLEAN
        /\ UNCHANGED <<g_shm, g_seq, handler, reader, samples, emitted, overlapped, faults>>
    BY <1>1 DEF ShmOpen, Main, Shapes, Places
  <2> QED  BY <2>1, <2>2 DEF Shapes, Places
<1>6. CASE Ftruncate \/ Mmap \/ StartFails
  <2>1. name \in Objects
    BY <1>6, TimerAssumption DEF Ftruncate, Mmap, StartFails, Main, Shapes, Places, Objects
  <2>2. object' \in [Objects -> ObjectRecord]
    BY <1>6, <2>1 DEF Ftruncate, Mmap, StartFails, Shapes, ObjectRecord
  <2> QED
    BY <1>0, <1>6, <2>1, <2>2 DEF Ftruncate, Mmap, StartFails, Main, Shapes, Places, ghostVars
<1>2. CASE SemInit \/ ClearSeq \/ LastWait \/ LastPost \/ Destroy
  <2>1. g_shm \in Objects
    BY <1>a, <1>2 DEF SemInit, ClearSeq, LastWait, LastPost, Destroy, Main, Places
  <2>2. object' \in [Objects -> ObjectRecord]
    BY <1>2, <2>1 DEF SemInit, ClearSeq, LastWait, LastPost, Destroy, Cleared, Waited, Posted,
                      Shapes, ObjectRecord
  <2>3. main \in {"init", "clear"} => \A h \in Handlers : handler[h] = Idle
    BY DEF Places
  <2> QED
    BY <1>2, <2>1, <2>2, <2>3 DEF SemInit, ClearSeq, LastWait, LastPost, Destroy, Main, Shapes,
                                  Places,
                                  ghostVars
<1>3. CASE Arm \/ Stop \/ Disarm \/ Unmap
  BY <1>0, <1>3 DEF Arm, Stop, Disarm, Unmap, Main, Shapes, Places, ghostVars
<1>4. CASE InterruptedWait
  <2>1. faults' \in 0 .. MaxFaults
    BY <1>4, TimerAssumption DEF InterruptedWait, Fault, Shapes
  <2> QED  BY <1>4, <2>1 DEF InterruptedWait, Main, Shapes, Places
<1>5. CASE Unlink
  BY <1>0, <1>5 DEF Unlink, Ends, Shapes, Places, ghostVars
<1> QED  BY <1>1, <1>2, <1>3, <1>4, <1>5, <1>6 DEF MainStep

\* One step of a handler thread.
LEMMA HandlerShaped ==
  ASSUME Shaped, NEW h \in Handlers, Tick(h) \/ HandlerStep(h)
  PROVE  Shaped'
<1> USE DEF Shaped
<1>0. Idle \in HandlerRecord
  BY DEF Idle, HandlerRecord
<1>1. CASE Tick(h)
  <2>1. samples + 1 \in 0 .. MaxSamples /\ samples + 1 \in Nat
    BY <1>1, TimerAssumption DEF Tick, Shapes
  <2>2. handler' \in [Handlers -> HandlerRecord]
    BY <1>1, <2>1 DEF Tick, Shapes, HandlerRecord
  <2> QED  BY <1>1, <2>1, <2>2 DEF Tick, Armed, Shapes, Places, masterVars
<1>2. CASE HandlerStep(h)
  <2>1. g_shm \in Objects /\ handler[h].step # "idle"
    BY <1>2, TimerAssumption DEF HandlerStep, TakeLock, StoreSeq, StoreData, GiveLock, PrintRecord,
                                 At, Shapes, Objects
  <2>a. handler[h] \in HandlerRecord /\ g_seq \in Nat
    BY DEF Shapes
  <2>b. \A step \in {"seq", "data", "post", "print"} :
          To(h, step) \in HandlerRecord /\ [handler[h] EXCEPT !.step = step, !.seq = g_seq] \in HandlerRecord
    BY <2>a DEF To, HandlerRecord
  <2>2. handler' \in [Handlers -> HandlerRecord]
    BY <1>0, <1>2, <2>b DEF HandlerStep, TakeLock, StoreSeq, StoreData, GiveLock, PrintRecord, At,
                            Shapes
  <2>3. object' \in [Objects -> ObjectRecord] /\ g_seq' \in Nat
    BY <1>2, <2>1 DEF HandlerStep, TakeLock, StoreSeq, StoreData, GiveLock, PrintRecord, Waited,
                      Posted, Sample,
                      Shapes, ObjectRecord, HandlerRecord, masterVars
  <2>4. main \notin {"down", "size", "map", "init", "clear", "arm"}
    BY <2>1 DEF Places, Idle
  <2> QED
    BY <1>2, <2>2, <2>3, <2>4 DEF HandlerStep, TakeLock, StoreSeq, StoreData, GiveLock,
                                  PrintRecord, Shapes, Places,
                                  masterVars, ghostVars
<1> QED  BY <1>1, <1>2

\* One step of the dashboard's thread.
LEMMA ReaderShaped ==
  ASSUME Shaped, ReaderStep \/ ReaderStop
  PROVE  Shaped'
<1> USE DEF Shaped
<1>0. Away \in ReaderRecord
  BY TimerAssumption DEF Away, ReaderRecord, Sample
<1>4. CASE MmapFails \/ BusError \/ Poll
  <2>1. reader \in ReaderRecord
    BY DEF Shapes
  <2>2. reader' \in ReaderRecord /\ (reader'.step \notin {"open", "off"} => reader'.obj # 0)
    BY <1>0, <1>4, <2>1 DEF MmapFails, BusError, Poll, ReaderAt, Away, ReaderRecord, Places
  <2> QED
    BY <1>4, <2>2 DEF MmapFails, BusError, Poll, Shapes, Places, masterVars, ghostVars
<1>1. CASE Open
  <2>0. reader \in ReaderRecord /\ name \in 0 .. MaxObjects
    BY DEF Shapes
  <2>1. reader' \in ReaderRecord
    <3>1. reader.tries + 1 < OpenAttempts => reader.tries + 1 \in 0 .. OpenAttempts
      BY <2>0, TimerAssumption DEF ReaderRecord
    <3>2. CASE reader' = [reader EXCEPT !.step = "poll", !.obj = name]
      <4>1. [reader EXCEPT !.step = "poll"] \in ReaderRecord
        BY <2>0 DEF ReaderRecord
      <4> QED  BY <2>0, <3>2, <4>1 DEF ReaderRecord
    <3>3. CASE reader.tries + 1 < OpenAttempts /\ reader' = [reader EXCEPT !.tries = @ + 1]
      BY <2>0, <3>1, <3>3 DEF ReaderRecord
    <3>4. CASE reader' = [reader EXCEPT !.step = "off"]
      BY <2>0, <3>4 DEF ReaderRecord
    <3> QED  BY <1>1, <3>2, <3>3, <3>4 DEF Open, ReaderAt
  <2>2. reader'.step \notin {"open", "off"} => reader'.obj # 0
    <3>1. reader \in ReaderRecord /\ (name # 0 \/ reader'.step \in {"open", "off"})
      BY <1>1 DEF Open, ReaderAt, Shapes, ReaderRecord
    <3>2. name # 0 => reader'.obj = name
      BY <1>1 DEF Open, ReaderAt, Shapes, ReaderRecord
    <3> QED  BY <3>1, <3>2
  <2> QED  BY <1>1, <2>1, <2>2 DEF Open, Shapes, Places, masterVars, ghostVars
<1>2. CASE ReaderWait \/ ReadSeq \/ ReadData \/ PostAndEmit
  <2>1. reader.obj \in Objects
    BY <1>2, TimerAssumption DEF ReaderWait, ReadSeq, ReadData, PostAndEmit, ReaderAt, Shapes,
                                 Places,
                                 ReaderRecord, Objects
  <2>2. object' \in [Objects -> ObjectRecord]
    BY <1>2, <2>1 DEF ReaderWait, ReadSeq, ReadData, PostAndEmit, Waited, Posted, Shapes,
                      ObjectRecord
  <2>3. reader' \in ReaderRecord
    <3>1. reader \in ReaderRecord /\ object[reader.obj] \in ObjectRecord
      BY <2>1 DEF Shapes
    <3>2. CASE ReaderWait \/ ReadSeq \/ ReadData
      BY <3>1, <3>2 DEF ReaderWait, ReadSeq, ReadData, ReaderAt, ReaderRecord, ObjectRecord
    <3>3. CASE PostAndEmit
      BY <1>0, <3>1, <3>3 DEF PostAndEmit, ReaderAt, ReaderRecord
    <3> QED  BY <1>2, <3>2, <3>3
  <2>4. reader'.obj = reader.obj /\ emitted' \in Nat
    BY <1>0, <1>2 DEF ReaderWait, ReadSeq, ReadData, PostAndEmit, ReaderAt, Shapes, ReaderRecord,
                      ghostVars
  <2> QED
    BY <1>2, <2>1, <2>2, <2>3, <2>4 DEF ReaderWait, ReadSeq, ReadData, PostAndEmit, Shapes, Places,
                                        Objects,
                                  masterVars, ghostVars
<1>3. CASE ReaderStop
  BY <1>0, <1>3 DEF ReaderStop, Shapes, Places, Away, ReaderRecord, masterVars, ghostVars
<1> QED  BY <1>1, <1>2, <1>3, <1>4 DEF ReaderStep

\* A process dies.
LEMMA DeathShaped ==
  ASSUME Shaped, FaultAfterUnmap \/ KillMaster \/ KillReader
  PROVE  Shaped'
<1> USE DEF Shaped
<1>0. 0 \in 0 .. MaxObjects /\ Idle \in HandlerRecord /\ Away \in ReaderRecord
  BY TimerAssumption DEF Idle, HandlerRecord, Away, ReaderRecord, Sample
<1>1. faults' \in 0 .. MaxFaults
  BY TimerAssumption DEF FaultAfterUnmap, KillMaster, KillReader, Fault, Shapes
<1>2. CASE FaultAfterUnmap \/ KillMaster
  BY <1>0, <1>1, <1>2 DEF FaultAfterUnmap, KillMaster, Ends, Shapes, Places, ghostVars
<1>3. CASE KillReader
  BY <1>0, <1>1, <1>3 DEF KillReader, Shapes, Places, Away, ReaderRecord, masterVars, ghostVars
<1> QED  BY <1>2, <1>3

\* Types and places are inductive.
LEMMA ShapedStep == Shaped /\ [TimerNext]_timerVars => Shaped'
<1> SUFFICES ASSUME Shaped, [TimerNext]_timerVars PROVE Shaped'
  OBVIOUS
<1>1. CASE UNCHANGED timerVars
  BY <1>1 DEF timerVars, masterVars, ghostVars, Shaped, Shapes, Places
<1> QED
  BY <1>1, MainShaped, HandlerShaped, ReaderShaped, DeathShaped DEF TimerNext

-----------------------------------------------------------------------------
(* The semaphore while nobody pulled it away: unlocked is FALSE.            *)

ReaderHolds(o) == reader.obj = o /\ reader.step \in {"seq", "data", "post"}
Holds(h) == handler[h].step \in {"seq", "data", "post"}
Whole(o) == object[o].data.seq = object[o].seq

\* A semaphore is free, taken or destroyed; only that of the object that has the
\* name is free.
LockValues ==
  \A o \in Objects : object[o].lock \in {-1, 0, 1} /\ (object[o].lock = 1 => o = name)

\* A reader inside has taken the semaphore of the object that has the name, or
\* passed one that is destroyed.
ReaderSection ==
  \A o \in Objects :
    ReaderHolds(o) => object[o].lock # 1 /\ (o = name \/ object[o].lock = -1)

\* Before sem_init the object is fresh and nobody gets in; until sem_destroy the semaphore
\* exists, and afterwards it never does again under this name.
MainSection ==
  /\ main \in {"size", "map", "init"} => object[name].lock = 0 /\ ~ReaderHolds(name) /\ Whole(name)
  /\ main \in {"size", "map", "init", "clear"} => object[name].seq = 0
  /\ main \in {"clear", "arm", "run", "wait", "post", "disarm", "destroy"} => object[g_shm].lock # -1
  /\ main = "post" => object[g_shm].lock = 0 /\ ~ReaderHolds(g_shm)
  /\ main = "unmap" => object[g_shm].lock = -1
  /\ main = "unlink" => object[name].lock = -1

\* A handler inside is the only one there, with the number of the record its own until
\* it has stored the data, or has stored everything before the semaphore was destroyed;
\* none waits for a destroyed one.
HandlerSection ==
  g_shm # 0 =>
    \A h \in Handlers :
      /\ Holds(h) =>
           \/ /\ object[g_shm].lock = 0 /\ main # "post" /\ ~ReaderHolds(g_shm)
              /\ \A k \in Handlers : Holds(k) => k = h
              /\ handler[h].step = "data" => handler[h].seq = object[g_shm].seq
           \/ object[g_shm].lock = -1 /\ handler[h].step = "post"
      /\ handler[h].step = "wait" => object[g_shm].lock # -1

\* A record that is half written is locked, with the writer inside or dead.
RecordSection ==
  \A o \in Objects :
    \/ Whole(o)
    \/ /\ object[o].lock = 0 /\ ~ReaderHolds(o)
       /\ g_shm = o => \E h \in Handlers : handler[h].step = "data"

\* What the reader has copied is still what the record says.
ReadSection ==
  /\ reader.step = "data" => reader.seq = object[reader.obj].seq
  /\ reader.step = "post" => reader.data.seq = reader.seq

Exclusion == LockValues /\ ReaderSection /\ MainSection /\ HandlerSection /\ RecordSection /\ ReadSection

\* All objects are fresh.
LEMMA ExclusionInit == TimerInit => Exclusion
BY DEF TimerInit, Exclusion, LockValues, ReaderSection, MainSection, HandlerSection, RecordSection,
       ReadSection, ReaderHolds, Holds, Whole, Zeroed, Away, Idle, Sample

\* The shared objects by name, and the one the master has mapped.
LEMMA Mapped ==
  ASSUME Shaped
  PROVE  /\ g_shm # 0 => g_shm \in Objects /\ g_shm = name
         /\ reader.step \notin {"open", "off"} => reader.obj \in Objects
         /\ 0 \notin Objects
BY TimerAssumption DEF Shaped, Shapes, Places, Objects, ReaderRecord

\* shm_open: the object is a fresh one, or the semaphore is set up over an old one.
LEMMA StartExclusion ==
  ASSUME Shaped, Exclusion, ShmOpen, ~unlocked'
  PROVE  Exclusion'
<1> USE DEF Exclusion
<1>1. name = 0 /\ main = "down" /\ main' = "size" /\ g_shm' = g_shm /\ g_shm = 0
      /\ UNCHANGED <<handler, reader>>
  BY DEF ShmOpen, Main, Shaped, Places
<1>3. PICK o \in Objects : /\ name' = o /\ object[o] = Zeroed
                           /\ object' = [object EXCEPT ![o].size = "empty"]
  BY <1>1 DEF ShmOpen, Unused
<1>4. object[o].lock = 0 /\ object[o].seq = 0 /\ Whole(o)
  BY <1>3 DEF Zeroed, Whole, Sample
<1>5. ~ReaderHolds(o)
  BY <1>1, <1>3, <1>4, Mapped DEF ReaderSection
<1>a. \A p \in Objects : /\ object'[p].lock = object[p].lock /\ object'[p].seq = object[p].seq
                         /\ object'[p].data = object[p].data
  BY <1>3 DEF Shaped, Shapes, ObjectRecord
<1>6. MainSection'
  BY <1>1, <1>3, <1>4, <1>5, <1>a DEF MainSection, ReaderHolds, Whole
<1>7. LockValues' /\ ReaderSection'
  BY <1>1, <1>a, Mapped DEF LockValues, ReaderSection, ReaderHolds
<1>8. HandlerSection'
  BY <1>1 DEF HandlerSection
<1>9. RecordSection' /\ ReadSection'
  BY <1>1, <1>4, <1>a, Mapped DEF RecordSection, ReadSection, ReaderHolds, Whole
<1> QED  BY <1>6, <1>7, <1>8, <1>9

\* The other steps of main.
LEMMA MainExclusion ==
  ASSUME Shaped, Exclusion, Stop \/ MainStep, ~unlocked'
  PROVE  Exclusion'
<1> USE DEF Exclusion
<1>0. /\ object \in [Objects -> ObjectRecord]
      /\ g_shm # 0 => g_shm \in Objects /\ g_shm = name
      /\ main \notin {"down", "size", "map", "unlink"} => g_shm # 0
      /\ 0 \notin Objects
  BY Mapped DEF Shaped, Shapes, Places
<1>9. CASE Ftruncate \/ Mmap
  <2>1. /\ main \in {"size", "map"} /\ g_shm = 0 /\ main' = (IF main = "size" THEN "map" ELSE "init")
        /\ name \in Objects /\ g_shm' \in {0, name} /\ UNCHANGED <<name, handler, reader>>
        /\ \A h \in Handlers : handler[h].step = "idle"
    BY <1>9, TimerAssumption DEF Ftruncate, Mmap, Main, Shaped, Shapes, Places, Objects, Idle
  <2>2. \A p \in Objects : /\ object'[p].lock = object[p].lock /\ object'[p].seq = object[p].seq
                           /\ object'[p].data = object[p].data
    BY <1>0, <1>9, <2>1 DEF Ftruncate, Mmap, ObjectRecord
  <2>3. LockValues' /\ ReaderSection' /\ HandlerSection'
    BY <2>1, <2>2 DEF LockValues, ReaderSection, HandlerSection, ReaderHolds, Holds
  <2>4. MainSection'
    BY <2>1, <2>2 DEF MainSection, ReaderHolds, Whole
  <2>5. RecordSection' /\ ReadSection'
    BY <2>1, <2>2, Mapped DEF RecordSection, ReadSection, MainSection, ReaderHolds, Whole
  <2> QED  BY <2>3, <2>4, <2>5
<1>10. CASE StartFails
  <2>1. /\ main \in {"size", "map"} /\ main' = "down" /\ g_shm = 0 /\ name' = 0
        /\ UNCHANGED <<object, g_shm, handler, reader>>
    BY <1>10 DEF StartFails, Main, Shaped, Places
  <2> QED
    BY <1>0, <2>1 DEF LockValues, ReaderSection, MainSection, HandlerSection, RecordSection,
                      ReadSection,
                      ReaderHolds, Whole
<1>1. CASE SemInit
  <2>1. g_shm \in Objects /\ main = "init" /\ main' = "clear"
        /\ object' = [object EXCEPT ![g_shm].lock = 1]
        /\ UNCHANGED <<name, g_shm, handler, reader>>
    BY <1>0, <1>1 DEF SemInit, Main
  <2>2. /\ object'[g_shm].lock = 1 /\ object'[g_shm].seq = object[g_shm].seq
        /\ object'[g_shm].data = object[g_shm].data
        /\ \A o \in Objects \ {g_shm} : object'[o] = object[o]
    BY <1>0, <2>1 DEF ObjectRecord
  <2>3. \A h \in Handlers : handler[h].step = "idle"
    BY <2>1 DEF Shaped, Places, Idle
  <2>4. ~ReaderHolds(g_shm) /\ object[g_shm].seq = 0 /\ Whole(g_shm)
    BY <1>0, <2>1, <2>3 DEF MainSection, RecordSection
  <2>5. LockValues' /\ ReaderSection' /\ MainSection' /\ HandlerSection'
    BY <1>0, <2>1, <2>2, <2>3, <2>4 DEF LockValues, ReaderSection, MainSection, HandlerSection,
                                        ReaderHolds, Holds
  <2>6. RecordSection' /\ ReadSection'
    BY <2>1, <2>2, <2>4, Mapped DEF RecordSection, ReadSection, ReaderHolds, Whole
  <2> QED  BY <2>5, <2>6
<1>2. CASE ClearSeq
  <2>1. main = "clear" /\ main' = "arm" /\ g_shm \in Objects /\ object[g_shm].seq = 0
        /\ UNCHANGED <<name, g_shm, handler, reader>>
    BY <1>0, <1>2 DEF ClearSeq, Main, MainSection
  <2>2. object' = object
    BY <1>0, <1>2, <2>1 DEF ClearSeq, Cleared, ObjectRecord
  <2> QED
    BY <2>1, <2>2 DEF LockValues, ReaderSection, MainSection, HandlerSection, RecordSection,
                      ReadSection,
                      ReaderHolds, Holds, Whole
<1>3. CASE Arm \/ Stop \/ Disarm
  <2>1. /\ main \in {"arm", "run", "disarm"} /\ main' \in {"run", "destroy", "wait"}
        /\ UNCHANGED <<name, g_shm, handler, reader, object>>
    BY <1>3 DEF Arm, Stop, Disarm, Main
  <2> QED
    BY <2>1 DEF LockValues, ReaderSection, MainSection, HandlerSection, RecordSection, ReadSection,
                ReaderHolds, Holds, Whole
<1>4. CASE LastWait
  <2>1. /\ main = "wait" /\ main' = "post" /\ g_shm \in Objects /\ object[g_shm].lock = 1
        /\ object' = Waited(g_shm) /\ UNCHANGED <<name, g_shm, handler, reader>>
    BY <1>0, <1>4 DEF LastWait, Main, CanWait, MainSection, LockValues
  <2>2. /\ object'[g_shm].lock = 0 /\ object'[g_shm].seq = object[g_shm].seq
        /\ object'[g_shm].data = object[g_shm].data
        /\ \A o \in Objects \ {g_shm} : object'[o] = object[o]
    BY <1>0, <2>1 DEF Waited, ObjectRecord
  <2>3. ~ReaderHolds(g_shm) /\ (\A h \in Handlers : ~Holds(h)) /\ Whole(g_shm) /\ g_shm # 0
    BY <1>0, <2>1 DEF ReaderSection, HandlerSection, RecordSection
  <2>4. LockValues' /\ ReaderSection' /\ MainSection' /\ HandlerSection'
    BY <2>1, <2>2, <2>3 DEF LockValues, ReaderSection, MainSection, HandlerSection, ReaderHolds,
                            Holds
  <2>5. RecordSection' /\ ReadSection'
    BY <2>1, <2>2, <2>3, Mapped DEF RecordSection, ReadSection, ReaderHolds, Whole
  <2> QED  BY <2>4, <2>5
<1>5. CASE LastPost
  <2>1. /\ main = "post" /\ main' = "disarm" /\ g_shm \in Objects /\ object[g_shm].lock = 0
        /\ object' = Posted(g_shm) /\ UNCHANGED <<name, g_shm, handler, reader>>
    BY <1>0, <1>5 DEF LastPost, Main, MainSection
  <2>2. /\ object'[g_shm].lock = 1 /\ object'[g_shm].seq = object[g_shm].seq
        /\ object'[g_shm].data = object[g_shm].data
        /\ \A o \in Objects \ {g_shm} : object'[o] = object[o]
    BY <1>0, <2>1 DEF Posted, ObjectRecord
  <2>3. ~ReaderHolds(g_shm) /\ (\A h \in Handlers : ~Holds(h)) /\ g_shm # 0
    BY <1>0, <2>1 DEF MainSection, HandlerSection
  <2>4. Whole(g_shm)
    BY <2>1, <2>3 DEF RecordSection, Holds
  <2>5. LockValues' /\ ReaderSection' /\ MainSection' /\ HandlerSection'
    BY <1>0, <2>1, <2>2, <2>3 DEF LockValues, ReaderSection, MainSection, HandlerSection,
                                  ReaderHolds, Holds
  <2>6. RecordSection' /\ ReadSection'
    BY <2>1, <2>2, <2>4, Mapped DEF RecordSection, ReadSection, ReaderHolds, Whole
  <2> QED  BY <2>5, <2>6
<1>6. CASE Destroy
  <2>1. /\ main = "destroy" /\ main' = "unmap" /\ g_shm \in Objects
        /\ object' = [object EXCEPT ![g_shm].lock = -1] /\ UNCHANGED <<name, g_shm, handler, reader>>
        /\ \A h \in Handlers : handler[h].step \notin {"wait", "seq", "data"}
    BY <1>0, <1>6 DEF Destroy, Main
  <2>2. /\ object'[g_shm].lock = -1 /\ object'[g_shm].seq = object[g_shm].seq
        /\ object'[g_shm].data = object[g_shm].data
        /\ \A o \in Objects \ {g_shm} : object'[o] = object[o]
    BY <1>0, <2>1 DEF ObjectRecord
  <2>3. Whole(g_shm)
    BY <2>1 DEF RecordSection
  <2>4. LockValues' /\ ReaderSection' /\ MainSection' /\ HandlerSection'
    BY <2>1, <2>2 DEF LockValues, ReaderSection, MainSection, HandlerSection, ReaderHolds, Holds
  <2>5. RecordSection' /\ ReadSection'
    BY <2>1, <2>2, <2>3, Mapped DEF RecordSection, ReadSection, ReaderHolds, Whole
  <2> QED  BY <2>4, <2>5
<1>7. CASE Unmap
  <2>1. /\ main = "unmap" /\ main' = "unlink" /\ g_shm' = 0
        /\ UNCHANGED <<object, name, handler, reader>>
    BY <1>7 DEF Unmap, Main
  <2> QED
    BY <1>0, <2>1 DEF LockValues, ReaderSection, MainSection, HandlerSection, RecordSection,
                      ReadSection,
                      ReaderHolds, Holds, Whole
<1>8. CASE Unlink
  <2>1. /\ main = "unlink" /\ main' = "down" /\ g_shm' = 0 /\ name' = 0
        /\ UNCHANGED <<object, reader>>
    BY <1>8 DEF Unlink, Ends
  <2>2. object[name].lock = -1
    BY <2>1 DEF MainSection
  <2> QED
    BY <1>0, <2>1, <2>2 DEF LockValues, ReaderSection, MainSection, HandlerSection, RecordSection,
                            ReadSection,
                      ReaderHolds, Whole
<1> QED  BY <1>1, <1>2, <1>3, <1>4, <1>5, <1>6, <1>7, <1>8, <1>9, <1>10 DEF MainStep

\* One step of a handler thread.
LEMMA HandlerExclusion ==
  ASSUME Shaped, Exclusion, NEW h \in Handlers, Tick(h) \/ HandlerStep(h), ~unlocked'
  PROVE  Exclusion'
<1> USE DEF Exclusion
<1>0. /\ object \in [Objects -> ObjectRecord]
      /\ handler \in [Handlers -> HandlerRecord]
      /\ g_shm # 0 => g_shm \in Objects /\ g_shm = name
      /\ main \notin {"down", "size", "map", "unlink"} => g_shm # 0
      /\ 0 \notin Objects
  BY Mapped DEF Shaped, Shapes, Places
<1>1. CASE Tick(h)
  <2>1. /\ main \in {"run", "wait", "post", "disarm"} /\ g_shm \in Objects
        /\ handler'[h].step = "wait" /\ handler[h].step = "idle"
        /\ \A k \in Handlers \ {h} : handler'[k] = handler[k]
        /\ UNCHANGED <<object, name, g_shm, g_seq, main, reader>>
    BY <1>0, <1>1 DEF Tick, Armed, Idle, masterVars
  <2>2. \A k \in Handlers : (Holds(k)' <=> Holds(k)) /\ (Holds(k) => handler'[k].step = handler[k].step)
    BY <1>0, <2>1 DEF Holds
  <2>3. object[g_shm].lock # -1
    BY <2>1 DEF MainSection
  <2>4. HandlerSection'
    BY <1>0, <2>1, <2>2, <2>3 DEF HandlerSection, ReaderHolds
  <2>5. RecordSection'
    BY <1>0, <2>1 DEF RecordSection, ReaderHolds, Whole
  <2> QED
    BY <2>1, <2>4, <2>5 DEF LockValues, ReaderSection, MainSection, ReadSection, ReaderHolds
<1> SUFFICES ASSUME HandlerStep(h) PROVE Exclusion'
  BY <1>1
<1>a. /\ g_shm \in Objects /\ g_shm # 0 /\ g_shm = name
      /\ UNCHANGED <<name, g_shm, main, reader>>
      /\ main \notin {"down", "size", "map", "init", "clear", "arm", "unlink"}
      /\ \A k \in Handlers \ {h} : handler'[k] = handler[k]
  <2>1. handler[h] # Idle /\ g_shm # 0
    BY DEF HandlerStep, TakeLock, StoreSeq, StoreData, GiveLock, PrintRecord, At, Idle
  <2> QED
    BY <1>0, <2>1 DEF HandlerStep, TakeLock, StoreSeq, StoreData, GiveLock, PrintRecord, At,
                      masterVars, Shaped, Places
<1>2. CASE TakeLock(h)
  <2>1. /\ handler[h].step = "wait" /\ handler'[h].step = "seq"
        /\ object' = Waited(g_shm) /\ object[g_shm].lock # 0
    BY <1>0, <1>2 DEF TakeLock, At, To, CanWait, HandlerRecord
  <2>2. object[g_shm].lock = 1
    BY <1>a, <2>1 DEF LockValues, HandlerSection
  <2>3. /\ object'[g_shm].lock = 0 /\ object'[g_shm].seq = object[g_shm].seq
        /\ object'[g_shm].data = object[g_shm].data
        /\ \A o \in Objects \ {g_shm} : object'[o] = object[o]
    BY <1>0, <1>a, <2>1, <2>2 DEF Waited, ObjectRecord
  <2>4. ~ReaderHolds(g_shm) /\ (\A k \in Handlers : ~Holds(k)) /\ Whole(g_shm) /\ main # "post"
    BY <1>a, <2>2 DEF ReaderSection, HandlerSection, RecordSection, MainSection
  <2>5. LockValues' /\ ReaderSection' /\ MainSection'
    BY <1>a, <2>2, <2>3, <2>4 DEF LockValues, ReaderSection, MainSection, ReaderHolds
  <2>6. HandlerSection'
    BY <1>a, <2>1, <2>3, <2>4 DEF HandlerSection, ReaderHolds, Holds
  <2>7. RecordSection' /\ ReadSection'
    BY <1>a, <2>2, <2>3, <2>4, Mapped DEF RecordSection, ReadSection, ReaderHolds, Whole
  <2> QED  BY <2>5, <2>6, <2>7
<1>3. CASE StoreSeq(h) \/ StoreData(h)
  <2>1. /\ handler[h].step \in {"seq", "data"}
        /\ handler'[h].step = IF handler[h].step = "seq" THEN "data" ELSE "post"
    <3>1. CASE StoreSeq(h)
      BY <1>0, <3>1 DEF StoreSeq, At, HandlerRecord
    <3>2. CASE StoreData(h)
      BY <1>0, <3>2 DEF StoreData, At, To, HandlerRecord
    <3> QED  BY <1>3, <3>1, <3>2
  <2>2. /\ object[g_shm].lock = 0 /\ main # "post" /\ ~ReaderHolds(g_shm)
        /\ \A k \in Handlers : Holds(k) => k = h
        /\ handler[h].step = "data" => handler[h].seq = object[g_shm].seq
    BY <1>a, <2>1 DEF HandlerSection, Holds
  <2>3. /\ object'[g_shm].lock = 0
        /\ \A o \in Objects \ {g_shm} : object'[o] = object[o]
        /\ handler[h].step = "data" => object'[g_shm].data.seq = object'[g_shm].seq
        /\ handler[h].step = "seq" => handler'[h].seq = object'[g_shm].seq
    <3>1. CASE StoreSeq(h)
      BY <1>0, <1>a, <2>2, <3>1 DEF StoreSeq, At, ObjectRecord, HandlerRecord
    <3>2. CASE StoreData(h)
      BY <1>0, <1>a, <2>2, <3>2 DEF StoreData, At, Sample, ObjectRecord
    <3> QED  BY <1>3, <3>1, <3>2
  <2>4. LockValues' /\ ReaderSection'
    BY <1>a, <2>2, <2>3 DEF LockValues, ReaderSection, ReaderHolds
  <2>5. MainSection'
    BY <1>a, <2>2, <2>3 DEF MainSection, ReaderHolds, Whole
  <2>6. HandlerSection'
    BY <1>a, <2>1, <2>2, <2>3 DEF HandlerSection, ReaderHolds, Holds
  <2>7. RecordSection'
    BY <1>a, <2>1, <2>2, <2>3 DEF RecordSection, ReaderHolds, Whole
  <2>8. ReadSection'
    BY <1>a, <2>2, <2>3, Mapped DEF ReadSection, ReaderHolds
  <2> QED  BY <2>4, <2>5, <2>6, <2>7, <2>8
<1>4. CASE GiveLock(h)
  <2>1. /\ handler[h].step = "post" /\ handler'[h].step = "print"
        /\ object' = Posted(g_shm)
    BY <1>0, <1>4 DEF GiveLock, At, To, HandlerRecord
  <2>2. CASE object[g_shm].lock = -1
    <3>1. object' = object
      BY <1>0, <1>a, <2>1, <2>2 DEF Posted, ObjectRecord
    <3>2. HandlerSection'
      BY <1>a, <2>1, <2>2, <3>1 DEF HandlerSection, ReaderHolds, Holds
    <3>3. RecordSection'
      BY <1>a, <2>1, <2>2, <3>1 DEF RecordSection, ReaderHolds, Whole
    <3> QED
      BY <1>a, <3>1, <3>2, <3>3 DEF LockValues, ReaderSection, MainSection, ReadSection, ReaderHolds
  <2>3. CASE object[g_shm].lock # -1
    <3>1. /\ object[g_shm].lock = 0 /\ main # "post" /\ ~ReaderHolds(g_shm)
          /\ \A k \in Handlers : Holds(k) => k = h
      BY <1>a, <2>1, <2>3 DEF HandlerSection, Holds
    <3>2. /\ object'[g_shm].lock = 1 /\ object'[g_shm].seq = object[g_shm].seq
          /\ object'[g_shm].data = object[g_shm].data
          /\ \A o \in Objects \ {g_shm} : object'[o] = object[o]
      BY <1>0, <1>a, <2>1, <3>1 DEF Posted, ObjectRecord
    <3>3. Whole(g_shm)
      BY <1>a, <2>1, <3>1 DEF RecordSection, Holds
    <3>4. main # "unmap"
      BY <2>3 DEF MainSection
    <3>5. LockValues' /\ ReaderSection' /\ MainSection'
      BY <1>a, <3>1, <3>2, <3>4 DEF LockValues, ReaderSection, MainSection, ReaderHolds
    <3>6. HandlerSection'
      BY <1>a, <2>1, <3>1, <3>2 DEF HandlerSection, ReaderHolds, Holds
    <3>7. RecordSection' /\ ReadSection'
      BY <1>a, <3>2, <3>3, Mapped DEF RecordSection, ReadSection, ReaderHolds, Whole
    <3> QED  BY <3>5, <3>6, <3>7
  <2> QED  BY <2>2, <2>3
<1>5. CASE PrintRecord(h)
  <2>1. object' = object /\ handler[h].step = "print" /\ handler'[h].step = "idle"
    BY <1>0, <1>5 DEF PrintRecord, At, Idle
  <2>2. \A k \in Handlers : /\ Holds(k)' <=> Holds(k)
                           /\ handler'[k].step # "idle" => handler'[k] = handler[k]
    BY <1>a, <2>1 DEF Holds
  <2>3. HandlerSection'
    BY <1>a, <2>1, <2>2 DEF HandlerSection, ReaderHolds, Holds
  <2>4. RecordSection'
    BY <1>a, <2>1 DEF RecordSection, ReaderHolds, Whole
  <2> QED
    BY <1>a, <2>1, <2>3, <2>4 DEF LockValues, ReaderSection, MainSection, ReadSection, ReaderHolds,
                                  Whole
<1> QED  BY <1>2, <1>3, <1>4, <1>5 DEF HandlerStep

\* One step of the dashboard's thread.
LEMMA ReaderExclusion ==
  ASSUME Shaped, Exclusion, ReaderStep \/ ReaderStop, ~unlocked'
  PROVE  Exclusion'
<1> USE DEF Exclusion
<1>0. /\ object \in [Objects -> ObjectRecord] /\ reader \in ReaderRecord
      /\ g_shm # 0 => g_shm \in Objects /\ g_shm = name
      /\ main \notin {"down", "size", "map", "unlink"} => g_shm # 0
      /\ main = "unlink" => name # 0
      /\ reader.step \notin {"open", "off"} => reader.obj \in Objects
      /\ 0 \notin Objects
  BY Mapped DEF Shaped, Shapes, Places
<1>a. UNCHANGED <<name, g_shm, main, handler>>
  BY DEF ReaderStep, ReaderStop, Open, MmapFails, Poll, BusError, ReaderWait, ReadSeq, ReadData,
         PostAndEmit, masterVars
<1>1. CASE Open \/ MmapFails \/ Poll \/ BusError \/ ReaderStop
  <2>1. /\ object' = object /\ reader.step \in {"open", "poll", "wait"}
        /\ reader'.step \in {"open", "poll", "wait", "off"}
    BY <1>0, <1>1 DEF Open, MmapFails, Poll, BusError, ReaderStop, ReaderAt, Away, ReaderRecord
  <2>2. \A o \in Objects : ~ReaderHolds(o) /\ ~ReaderHolds(o)'
    BY <2>1 DEF ReaderHolds
  <2>a. main # "down" => name \in Objects
    BY TimerAssumption DEF Shaped, Shapes, Places, Objects
  <2>3. MainSection' /\ HandlerSection'
    BY <1>0, <1>a, <2>1, <2>2, <2>a DEF MainSection, HandlerSection, Holds, Whole
  <2>4. RecordSection'
    BY <1>0, <1>a, <2>1, <2>2 DEF RecordSection, Whole
  <2> QED
    BY <1>a, <2>1, <2>2, <2>3, <2>4 DEF LockValues, ReaderSection, ReadSection
<1>2. CASE ReaderWait
  <2> DEFINE o == reader.obj
  <2>1. /\ reader.step = "wait" /\ reader'.step = "seq" /\ reader'.obj = o /\ o \in Objects
        /\ object' = Waited(o) /\ object[o].lock # 0
    BY <1>0, <1>2 DEF ReaderWait, ReaderAt, CanWait, ReaderRecord
  <2>2. \A p \in Objects : ~ReaderHolds(p) /\ (ReaderHolds(p)' <=> p = o)
    BY <2>1 DEF ReaderHolds
  <2>3. object[o].lock \in {-1, 1} /\ Whole(o)
    BY <2>1 DEF LockValues, RecordSection
  <2>4. /\ object'[o].lock = IF object[o].lock = 1 THEN 0 ELSE -1
        /\ object'[o].seq = object[o].seq /\ object'[o].data = object[o].data
        /\ \A p \in Objects \ {o} : object'[p] = object[p]
    BY <1>0, <2>1, <2>3 DEF Waited, ObjectRecord
  <2> HIDE DEF o
  <2>5. LockValues'
    BY <1>a, <2>3, <2>4 DEF LockValues
  <2>a. ReaderSection'
    BY <1>a, <2>2, <2>3, <2>4 DEF LockValues, ReaderSection
  <2>6. MainSection'
    <3>1. main # "down" => name \in Objects
      BY TimerAssumption DEF Shaped, Shapes, Places, Objects
    <3>2. (main \in {"size", "map", "init"} => name # o) /\ (main = "post" => g_shm # o)
      BY <2>3 DEF MainSection
    <3> QED
      BY <1>0, <1>a, <2>2, <2>3, <2>4, <3>1, <3>2 DEF MainSection, Whole
  <2>7. HandlerSection'
    <3>1. g_shm = o => \A h \in Handlers : ~Holds(h) \/ object[o].lock = -1
      BY <1>0, <2>1, <2>3 DEF HandlerSection
    <3> QED
      BY <1>0, <1>a, <2>1, <2>2, <2>3, <2>4, <3>1 DEF HandlerSection, Holds
  <2>8. RecordSection'
    BY <1>0, <1>a, <2>2, <2>3, <2>4 DEF RecordSection, Whole
  <2>9. ReadSection'
    BY <2>1 DEF ReadSection
  <2> QED  BY <2>5, <2>a, <2>6, <2>7, <2>8, <2>9
<1>3. CASE ReadSeq \/ ReadData
  <2>1. /\ object' = object /\ reader'.obj = reader.obj
        /\ reader.step \in {"seq", "data"} /\ reader'.step \in {"data", "post"}
        /\ reader.obj \in Objects
    BY <1>0, <1>3 DEF ReadSeq, ReadData, ReaderAt, ReaderRecord
  <2>2. \A o \in Objects : ReaderHolds(o)' <=> ReaderHolds(o)
    BY <2>1 DEF ReaderHolds
  <2>3. Whole(reader.obj)
    BY <2>1 DEF RecordSection, ReaderHolds
  <2>4. ReadSection'
    BY <1>0, <1>3, <2>1, <2>3 DEF ReadSeq, ReadData, ReaderAt, ReadSection, ReaderRecord, Whole
  <2>a. main # "down" => name \in Objects
    BY TimerAssumption DEF Shaped, Shapes, Places, Objects
  <2>5. MainSection' /\ HandlerSection'
    BY <1>0, <1>a, <2>1, <2>2, <2>a DEF MainSection, HandlerSection, Holds, Whole
  <2>6. RecordSection'
    BY <1>0, <1>a, <2>1, <2>2 DEF RecordSection, Whole
  <2> QED
    BY <1>a, <2>1, <2>2, <2>4, <2>5, <2>6 DEF LockValues, ReaderSection
<1>4. CASE PostAndEmit
  <2> DEFINE o == reader.obj
  <2>1. /\ reader.step = "post" /\ reader'.step = "poll" /\ o \in Objects
        /\ object' = Posted(o)
    BY <1>0, <1>4 DEF PostAndEmit, ReaderAt, Away
  <2>2. \A p \in Objects : ~ReaderHolds(p)' /\ (ReaderHolds(p) <=> p = o)
    BY <2>1 DEF ReaderHolds
  <2>3. object[o].lock \in {-1, 0} /\ Whole(o) /\ (object[o].lock = 0 => o = name)
    BY <2>1, <2>2 DEF LockValues, ReaderSection, RecordSection
  <2>4. /\ object'[o].lock = IF object[o].lock = 0 THEN 1 ELSE -1
        /\ object'[o].seq = object[o].seq /\ object'[o].data = object[o].data
        /\ \A p \in Objects \ {o} : object'[p] = object[p]
    BY <1>0, <2>1, <2>3 DEF Posted, ObjectRecord
  <2> HIDE DEF o
  <2>5. LockValues'
    BY <1>a, <2>3, <2>4 DEF LockValues
  <2>6. ReaderSection'
    BY <2>2 DEF ReaderSection
  <2>7. MainSection'
    <3>1. main # "down" => name \in Objects
      BY TimerAssumption DEF Shaped, Shapes, Places, Objects
    <3>2. main \in {"size", "map", "init"} => name # o
      BY <2>2, <3>1 DEF MainSection
    <3> QED
      BY <1>0, <1>a, <2>2, <2>3, <2>4, <3>1, <3>2 DEF MainSection, Whole
  <2>8. HandlerSection'
    BY <1>0, <1>a, <2>1, <2>2, <2>3, <2>4 DEF HandlerSection, Holds
  <2>9. RecordSection'
    BY <1>0, <1>a, <2>2, <2>3, <2>4 DEF RecordSection, Whole
  <2>10. ReadSection'
    BY <2>1 DEF ReadSection
  <2> QED  BY <2>5, <2>6, <2>7, <2>8, <2>9, <2>10
<1> QED  BY <1>1, <1>2, <1>3, <1>4 DEF ReaderStep

\* A process dies: what it held stays as it was.
LEMMA DeathExclusion ==
  ASSUME Shaped, Exclusion, FaultAfterUnmap \/ KillMaster \/ KillReader
  PROVE  Exclusion'
<1> USE DEF Exclusion
<1>0. /\ g_shm # 0 => g_shm \in Objects
      /\ 0 \notin Objects
  BY Mapped
<1>1. CASE FaultAfterUnmap \/ KillMaster
  <2>1. /\ main' = "down" /\ g_shm' = 0
        /\ UNCHANGED <<object, name, reader>>
    BY <1>1 DEF FaultAfterUnmap, KillMaster, Ends
  <2> QED
    BY <1>0, <2>1 DEF LockValues, ReaderSection, MainSection, HandlerSection, RecordSection,
                      ReadSection,
                      ReaderHolds, Whole
<1>2. CASE KillReader
  <2>1. /\ reader'.step = "off"
        /\ UNCHANGED <<object, name, g_shm, main, handler>>
    BY <1>2 DEF KillReader, Away, masterVars
  <2> QED
    BY <1>0, <2>1 DEF LockValues, ReaderSection, MainSection, HandlerSection, RecordSection,
                      ReadSection,
                      ReaderHolds, Holds, Whole
<1> QED  BY <1>1, <1>2

\* The semaphore excludes as long as nothing pulled it away; nothing gives it
\* back afterwards.
LEMMA ExclusionStep ==
  Shaped /\ (~unlocked => Exclusion) /\ [TimerNext]_timerVars => (~unlocked => Exclusion)'
<1> SUFFICES ASSUME Shaped, ~unlocked => Exclusion, [TimerNext]_timerVars, ~unlocked' PROVE Exclusion'
  OBVIOUS
<1>1. ~unlocked
  BY DEF TimerNext, ShmOpen, Stop, MainStep, Ftruncate, Mmap, StartFails, SemInit, ClearSeq, Arm,
         LastWait, LastPost, Disarm, Destroy,
         Unmap, Unlink, InterruptedWait, Tick, HandlerStep, TakeLock, StoreSeq, StoreData,
         GiveLock, PrintRecord,
         FaultAfterUnmap, ReaderStep, Open, MmapFails, Poll, BusError, ReaderWait, ReadSeq,
         ReadData, PostAndEmit, ReaderStop,
         KillMaster, KillReader, ghostVars, timerVars
<1>2. CASE UNCHANGED timerVars
  BY <1>1, <1>2 DEF timerVars, masterVars, ghostVars, Exclusion, LockValues, ReaderSection,
                    MainSection,
                    HandlerSection, RecordSection, ReadSection, ReaderHolds, Holds, Whole
<1>3. CASE InterruptedWait
  BY <1>3 DEF InterruptedWait
<1> QED
  BY <1>1, <1>2, <1>3, StartExclusion, MainExclusion, HandlerExclusion, ReaderExclusion, DeathExclusion
     DEF TimerNext

(* The dashboard never joins the number of one record to the data of        *)
(* another, whatever handlers overlap, wherever a process is killed and     *)
(* however often the master is started again, as long as the semaphore is   *)
(* one.                                                                     *)
THEOREM RecordsAreWhole == TimerSpec => []WholeRecords
<1>1. TimerInit => Shaped /\ (~unlocked => Exclusion)
  BY ShapedInit, ExclusionInit
<1>2. Shaped /\ (~unlocked => Exclusion) /\ [TimerNext]_timerVars
        => (Shaped /\ (~unlocked => Exclusion))'
  BY ShapedStep, ExclusionStep
<1>3. (~unlocked => Exclusion) => WholeRecords
  BY DEF Exclusion, ReadSection, WholeRecords
<1> QED  BY <1>1, <1>2, <1>3, PTL DEF TimerSpec

-----------------------------------------------------------------------------
(* The order of the samples.                                                *)

\* Every sample around was exchanged.
Exchanged ==
  /\ \A h \in Handlers : handler[h].n <= samples
  /\ \A o \in Objects : object[o].data.n <= samples
  /\ reader.data.n <= samples
  /\ emitted <= samples

\* While no handlers overlapped, a handler that writes has the newest sample, and
\* what the reader is about to take is no older than what it handed on.
Forward ==
  /\ \A h \in Handlers : Writing(h) => handler[h].n = samples
  /\ reader.step = "open" => emitted = 0
  /\ reader.step \in {"poll", "wait", "seq", "data", "post"} => emitted <= object[reader.obj].data.n
  /\ reader.step = "post" => /\ emitted <= reader.data.n
                             /\ reader.data.n <= object[reader.obj].data.n

Order == Exchanged /\ (~overlapped => Forward)

\* Nothing was exchanged yet.
LEMMA OrderInit == TimerInit => Order
<1> SUFFICES ASSUME TimerInit PROVE Order
  OBVIOUS
<1>1. /\ \A h \in Handlers : handler[h] = Idle
      /\ \A o \in Objects : object[o] = Zeroed
      /\ reader = Away /\ samples = 0 /\ emitted = 0
  BY DEF TimerInit
<1> QED  BY <1>1 DEF Order, Exchanged, Forward, Writing, Zeroed, Idle, Away, Sample

\* A step that leaves the records' data and the reader alone, and only ends handlers.
LEMMA SameOrder ==
  ASSUME Shaped, Order,
         \A o \in Objects : object'[o].data = object[o].data,
         \A h \in Handlers : handler'[h] = Idle
                             \/ (handler'[h].n = handler[h].n /\ (Writing(h)' => Writing(h))),
         UNCHANGED <<reader, samples, emitted, overlapped>>
  PROVE  Order'
<1>1. 0 <= samples /\ Idle.n = 0
  BY TimerAssumption DEF Shaped, Shapes, Idle
<1>2. Exchanged'
  BY <1>1 DEF Order, Exchanged
<1>3. \A h \in Handlers : Writing(h)' => Writing(h) /\ handler'[h].n = handler[h].n
  BY DEF Writing, Idle
<1>4. ~overlapped => Forward'
  BY <1>3, Mapped DEF Order, Forward
<1> QED  BY <1>2, <1>4 DEF Order

\* Main, the semaphore, the number and the deaths of the master.
LEMMA MasterOrder ==
  ASSUME Shaped, Order,
         \/ ShmOpen \/ Stop \/ MainStep \/ InterruptedWait \/ FaultAfterUnmap \/ KillMaster
         \/ \E h \in Handlers : TakeLock(h) \/ StoreSeq(h) \/ GiveLock(h) \/ PrintRecord(h)
  PROVE  Order'
<1>1. UNCHANGED <<reader, samples, emitted, overlapped>>
  BY DEF ShmOpen, Stop, MainStep, Ftruncate, Mmap, StartFails, SemInit, ClearSeq, Arm, LastWait,
         LastPost, Disarm, Destroy, Unmap, Unlink,
         InterruptedWait, FaultAfterUnmap, KillMaster, TakeLock, StoreSeq, GiveLock, PrintRecord,
         ghostVars
<1>2. object \in [Objects -> ObjectRecord] /\ handler \in [Handlers -> HandlerRecord]
  BY DEF Shaped, Shapes
<1>3. CASE ShmOpen \/ Stop \/ MainStep \/ InterruptedWait \/ FaultAfterUnmap \/ KillMaster
  <2>1. \A h \in Handlers : handler'[h] = Idle \/ handler'[h] = handler[h]
    BY <1>3 DEF ShmOpen, Stop, MainStep, Ftruncate, Mmap, StartFails, SemInit, ClearSeq, Arm,
                LastWait, LastPost, Disarm, Destroy, Unmap,
                Unlink, InterruptedWait, FaultAfterUnmap, KillMaster, Ends
  <2>2. CASE ShmOpen \/ Ftruncate \/ SemInit \/ Destroy \/ LastWait \/ LastPost \/ ClearSeq
    <3>1. \A o \in Objects : object'[o].data = object[o].data
      BY <1>2, <2>2 DEF ShmOpen, Ftruncate, SemInit, Destroy, LastWait, LastPost, ClearSeq, Waited,
                        Posted, Cleared, ObjectRecord
    <3>2. \A h \in Handlers : handler'[h] = handler[h] => (Writing(h)' => Writing(h))
      BY DEF Writing
    <3> QED  BY <1>1, <2>1, <3>1, <3>2, SameOrder
  <2>3. CASE object' = object
    <3>1. \A h \in Handlers : handler'[h] = handler[h] => (Writing(h)' => Writing(h))
      BY DEF Writing
    <3> QED  BY <1>1, <2>1, <2>3, <3>1, SameOrder
  <2> QED
    BY <1>3, <2>2, <2>3 DEF ShmOpen, Stop, MainStep, Ftruncate, Mmap, StartFails, Arm, Disarm,
                            Unmap, Unlink, InterruptedWait,
                            FaultAfterUnmap, KillMaster
<1>4. ASSUME NEW h \in Handlers, TakeLock(h) \/ StoreSeq(h) \/ GiveLock(h) \/ PrintRecord(h)
      PROVE  Order'
  <2>1. \A o \in Objects : object'[o].data = object[o].data
    <3>1. CASE PrintRecord(h)
      BY <3>1 DEF PrintRecord
    <3>2. CASE TakeLock(h) \/ GiveLock(h)
      BY <1>2, <3>2 DEF TakeLock, GiveLock, Waited, Posted, ObjectRecord
    <3>3. CASE StoreSeq(h)
      BY <1>2, <3>3 DEF StoreSeq, ObjectRecord
    <3> QED  BY <1>4, <3>1, <3>2, <3>3
  <2>2. \A k \in Handlers \ {h} : handler'[k] = handler[k]
    BY <1>2, <1>4 DEF TakeLock, StoreSeq, GiveLock, PrintRecord, At
  <2>3. handler'[h] = Idle \/ (handler'[h].n = handler[h].n /\ (Writing(h)' => Writing(h)))
    <3>1. CASE PrintRecord(h)
      BY <1>2, <3>1 DEF PrintRecord, At
    <3>2. CASE StoreSeq(h)
      BY <1>2, <3>2 DEF StoreSeq, At, Writing, HandlerRecord
    <3>3. CASE TakeLock(h) \/ GiveLock(h)
      BY <1>2, <3>3 DEF TakeLock, GiveLock, At, To, Writing, HandlerRecord
    <3> QED  BY <1>4, <3>1, <3>2, <3>3
  <2>4. \A k \in Handlers : handler'[k] = Idle
                             \/ (handler'[k].n = handler[k].n /\ (Writing(k)' => Writing(k)))
    BY <2>2, <2>3 DEF Writing
  <2> QED  BY <1>1, <2>1, <2>4, SameOrder
<1> QED  BY <1>3, <1>4

\* A new sample, and its store: nothing newer was exchanged meanwhile.
LEMMA SampleOrder ==
  ASSUME Shaped, Order, NEW h \in Handlers, Tick(h) \/ StoreData(h)
  PROVE  Order'
<1>0. /\ object \in [Objects -> ObjectRecord] /\ handler \in [Handlers -> HandlerRecord]
      /\ reader \in ReaderRecord /\ samples \in Nat /\ emitted \in Nat
      /\ reader.step \in {"poll", "wait", "seq", "data", "post"} => reader.obj \in Objects
      /\ UNCHANGED <<reader, emitted>>
  BY Mapped, TimerAssumption DEF Shaped, Shapes, Tick, StoreData, ghostVars
<1>1. CASE Tick(h)
  <2>1. /\ samples' = samples + 1 /\ object' = object
        /\ handler'[h].n = samples + 1
        /\ \A k \in Handlers \ {h} : handler'[k] = handler[k]
        /\ handler[h] = Idle
    BY <1>0, <1>1 DEF Tick
  <2>2. ~overlapped' => ~overlapped /\ \A k \in Handlers : ~Writing(k)
    BY <1>1 DEF Tick
  <2>3. Exchanged'
    BY <1>0, <2>1 DEF Order, Exchanged, HandlerRecord, ObjectRecord, ReaderRecord
  <2>4. ~overlapped' => Forward'
    <3>1. ~overlapped' => \A k \in Handlers : Writing(k)' => handler'[k].n = samples'
      BY <2>1, <2>2 DEF Writing
    <3> QED  BY <1>0, <2>1, <2>2, <3>1 DEF Order, Forward
  <2> QED  BY <2>3, <2>4 DEF Order
<1>2. CASE StoreData(h)
  <2>1. /\ samples' = samples /\ overlapped' = overlapped
        /\ g_shm \in Objects
        /\ \A o \in Objects \ {g_shm} : object'[o] = object[o]
        /\ object'[g_shm].data.n = handler[h].n
        /\ Writing(h)
        /\ \A k \in Handlers : handler'[k].n = handler[k].n /\ (Writing(k)' => Writing(k))
    BY <1>0, <1>2, Mapped DEF StoreData, At, To, Sample, ghostVars, ObjectRecord, HandlerRecord,
                              Writing
  <2>2. Exchanged'
    BY <1>0, <2>1 DEF Order, Exchanged
  <2>3. ~overlapped => Forward'
    BY <1>0, <2>1 DEF Order, Forward, Exchanged
  <2> QED  BY <2>1, <2>2, <2>3 DEF Order
<1> QED  BY <1>1, <1>2

\* The dashboard's thread.
LEMMA ReaderOrder ==
  ASSUME Shaped, Order, ReaderStep \/ ReaderStop \/ KillReader
  PROVE  Order' /\ (~overlapped' => emitted' >= emitted)
<1>0. /\ object \in [Objects -> ObjectRecord] /\ handler \in [Handlers -> HandlerRecord]
      /\ reader \in ReaderRecord /\ samples \in Nat /\ emitted \in Nat
      /\ reader.step \in {"poll", "wait", "seq", "data", "post"} => reader.obj \in Objects
      /\ UNCHANGED <<handler, samples, overlapped>>
  BY Mapped, TimerAssumption DEF Shaped, Shapes, ReaderStep, ReaderStop, KillReader, Open,
                                 MmapFails, Poll, BusError, ReaderWait, ReadSeq,
     ReadData, PostAndEmit, ghostVars
<1>1. CASE Open \/ MmapFails \/ BusError \/ ReaderStop \/ KillReader
  <2>1. /\ object' = object /\ emitted' = emitted /\ reader'.data.n \in {0, reader.data.n}
        /\ reader'.step \in {"open", "poll", "off"}
        /\ reader'.step \in {"open", "poll"} => reader.step = "open"
        /\ reader'.step = "poll" => reader'.obj = name /\ name # 0
    <3>1. CASE Open
      BY <1>0, <3>1 DEF Open, ReaderAt, ghostVars, ReaderRecord
    <3>2. CASE MmapFails \/ BusError \/ ReaderStop \/ KillReader
      BY <1>0, <3>2 DEF MmapFails, BusError, ReaderStop, KillReader, ReaderAt, Away, Sample,
                        ghostVars
    <3> QED  BY <1>1, <3>1, <3>2
  <2>2. Exchanged'
    BY <1>0, <2>1 DEF Order, Exchanged
  <2>3. ~overlapped => Forward'
    <3>1. name # 0 => object[name].data.n \in Nat
      BY TimerAssumption DEF Shaped, Shapes, ObjectRecord, Objects
    <3> QED  BY <1>0, <2>1, <3>1 DEF Order, Forward, Writing
  <2> QED  BY <1>0, <2>1, <2>2, <2>3 DEF Order
<1>2. CASE Poll \/ ReaderWait \/ ReadSeq \/ ReadData
  <2>1. /\ \A o \in Objects : object'[o].data = object[o].data
        /\ emitted' = emitted /\ reader'.obj = reader.obj
        /\ reader.step \in {"poll", "wait", "seq", "data"}
        /\ reader'.step \in {"wait", "seq", "data", "post"}
        /\ reader.obj \in Objects /\ object[reader.obj].data.n \in Nat
        /\ reader'.step = "post" => reader'.data = object[reader.obj].data
        /\ reader'.data \in {reader.data, object[reader.obj].data}
    <3>1. CASE ReaderWait
      BY <1>0, <3>1 DEF ReaderWait, ReaderAt, Waited, ghostVars, ReaderRecord, ObjectRecord
    <3>2. CASE ReadSeq
      BY <1>0, <3>2 DEF ReadSeq, ReaderAt, ghostVars, ReaderRecord, ObjectRecord
    <3>3. CASE ReadData
      BY <1>0, <3>3 DEF ReadData, ReaderAt, ghostVars, ReaderRecord, ObjectRecord
    <3>4. CASE Poll
      BY <1>0, <3>4 DEF Poll, ReaderAt, ghostVars, ReaderRecord, ObjectRecord
    <3> QED  BY <1>2, <3>1, <3>2, <3>3, <3>4
  <2>2. Exchanged'
    BY <1>0, <2>1 DEF Order, Exchanged
  <2>3. ~overlapped => Forward'
    BY <1>0, <2>1 DEF Order, Forward, Writing
  <2> QED  BY <1>0, <2>1, <2>2, <2>3 DEF Order
<1>3. CASE PostAndEmit
  <2>1. /\ \A o \in Objects : object'[o].data = object[o].data
        /\ emitted' \in {emitted, reader.data.n} /\ reader'.obj = reader.obj
        /\ reader.step = "post" /\ reader'.step = "poll"
        /\ reader'.data.n = 0
    BY <1>0, <1>3 DEF PostAndEmit, ReaderAt, Posted, Away, Sample, ReaderRecord, ObjectRecord
  <2>2. Exchanged'
    BY <1>0, <2>1 DEF Order, Exchanged
  <2>3. ~overlapped => Forward' /\ emitted' >= emitted
    BY <1>0, <2>1 DEF Order, Forward, Writing, ReaderRecord
  <2> QED  BY <1>0, <2>2, <2>3 DEF Order
<1> QED  BY <1>1, <1>2, <1>3 DEF ReaderStep

\* The order is inductive.
LEMMA OrderStep ==
  Shaped /\ Order /\ [TimerNext]_timerVars => Order' /\ (~overlapped' => emitted' >= emitted)
<1> SUFFICES ASSUME Shaped, Order, [TimerNext]_timerVars
             PROVE  Order' /\ (~overlapped' => emitted' >= emitted)
  OBVIOUS
<1>1. CASE ReaderStep \/ ReaderStop \/ KillReader
  BY <1>1, ReaderOrder
<1>2. CASE ~(ReaderStep \/ ReaderStop \/ KillReader)
  <2>a. ASSUME NEW h \in Handlers, Tick(h) \/ HandlerStep(h) PROVE emitted' = emitted
    BY <2>a DEF Tick, HandlerStep, TakeLock, StoreSeq, StoreData, GiveLock, PrintRecord, ghostVars
  <2>1. emitted' = emitted /\ emitted \in Int
    BY <1>2, <2>a DEF TimerNext, ShmOpen, Stop, MainStep, Ftruncate, Mmap, StartFails, SemInit,
                      ClearSeq, Arm, LastWait, LastPost, Disarm, Destroy,
                Unmap, Unlink, InterruptedWait, FaultAfterUnmap, KillMaster, ghostVars, timerVars,
                Shaped, Shapes
  <2>2. CASE UNCHANGED timerVars
    BY <2>1, <2>2 DEF timerVars, ghostVars, Order, Exchanged, Forward, Writing
  <2>3. Order'
    BY <1>2, <2>2, MasterOrder, SampleOrder DEF TimerNext, HandlerStep
  <2> QED  BY <2>1, <2>3
<1> QED  BY <1>1, <1>2

(* The dashboard never goes back to an older sample while no two handler    *)
(* threads overlapped, for any number of restarts and kills of the master.  *)
THEOREM SamplesGoForward == TimerSpec => NeverBackwards
<1>1. TimerInit => Shaped /\ Order
  BY ShapedInit, OrderInit
<1>2. Shaped /\ Order /\ [TimerNext]_timerVars => (Shaped /\ Order)'
  BY ShapedStep, OrderStep
<1>3. Shaped /\ Order /\ [TimerNext]_timerVars => [~overlapped' => emitted' >= emitted]_timerVars
  BY OrderStep
<1> QED  BY <1>1, <1>2, <1>3, PTL DEF TimerSpec, NeverBackwards

-----------------------------------------------------------------------------
(* The counters.                                                            *)

\* Handlers with a sample that has no number yet, and those between a sem_wait
\* and its sem_post.
Unnumbered == {h \in Handlers : handler[h].step \in {"wait", "seq"}}
Within(o) == {h \in Handlers : g_shm = o /\ Holds(h)}

\* The sem_post calls that are still to come.
Owed(o) == Cardinality(Within(o)) + (IF g_shm = o /\ main = "post" THEN 1 ELSE 0)
                                  + (IF ReaderHolds(o) THEN 1 ELSE 0)

\* No more numbers were given than samples exchanged, so all the copies fit.
NumberCount == g_seq + Cardinality(Unnumbered) <= samples
NumberBounds ==
  /\ \A o \in Objects : object[o].seq <= MaxSamples /\ object[o].data.seq <= MaxSamples
  /\ \A h \in Handlers : handler[h].seq <= MaxSamples
  /\ reader.seq <= MaxSamples /\ reader.data.seq <= MaxSamples /\ reader.last_seq <= MaxSamples

\* sem_init over an object a reader is inside of gives it one more than it has
\* taken, an interrupted wait one more each.
LockCount ==
  \A o \in Objects :
    \/ object[o].lock = -1
    \/ object[o].lock \in Nat /\ object[o].lock + Owed(o) <= 2 + faults

Counts == NumberCount /\ NumberBounds /\ LockCount

\* Sets of handlers are finite, and one more or less counts.
LEMMA CountHandlers ==
  ASSUME NEW S \in SUBSET Handlers
  PROVE  /\ Cardinality(S) \in Nat
         /\ \A T \in SUBSET S : Cardinality(T) <= Cardinality(S)
         /\ \A h \in S : Cardinality(S \ {h}) = Cardinality(S) - 1
         /\ \A h \in Handlers \ S : Cardinality(S \union {h}) = Cardinality(S) + 1
         /\ S = {} => Cardinality(S) = 0
<1>1. IsFiniteSet(S)
  BY TimerAssumption, FS_Subset
<1> QED
  BY <1>1, FS_Subset, FS_CardinalityType, FS_RemoveElement, FS_AddElement, FS_EmptySet

\* The values of the counted terms.
LEMMA CountTypes ==
  /\ Cardinality(Unnumbered) \in Nat /\ Cardinality(Unnumbered') \in Nat
  /\ \A o : /\ Cardinality(Within(o)) \in Nat /\ Cardinality(Within(o)') \in Nat
            /\ Owed(o) \in Nat /\ Owed(o)' \in Nat
<1>1. /\ Unnumbered \in SUBSET Handlers /\ Unnumbered' \in SUBSET Handlers
      /\ \A o : Within(o) \in SUBSET Handlers /\ Within(o)' \in SUBSET Handlers
  BY DEF Unnumbered, Within
<1>2. /\ Cardinality(Unnumbered) \in Nat /\ Cardinality(Unnumbered') \in Nat
      /\ \A o : Cardinality(Within(o)) \in Nat /\ Cardinality(Within(o)') \in Nat
  BY <1>1, CountHandlers
<1> QED  BY <1>2 DEF Owed

\* Nothing is counted yet.
LEMMA CountsInit == TimerInit => Counts
<1> SUFFICES ASSUME TimerInit PROVE Counts
  OBVIOUS
<1>1. Unnumbered = {} /\ \A o : Within(o) = {} /\ ~ReaderHolds(o)
  BY DEF TimerInit, Unnumbered, Within, Holds, ReaderHolds, Idle, Away
<1>2. Cardinality(Unnumbered) = 0 /\ \A o : Cardinality(Within(o)) = 0
  BY <1>1, CountHandlers
<1>3. \A o : Owed(o) = 0
  BY <1>1, <1>2 DEF Owed, TimerInit
<1>4. /\ \A o \in Objects : object[o].lock = 0 /\ object[o].seq = 0 /\ object[o].data.seq = 0
      /\ reader.seq = 0 /\ reader.data.seq = 0 /\ reader.last_seq = -1 /\ g_seq = 0
      /\ samples = 0 /\ faults = 0 /\ \A h \in Handlers : handler[h].seq = 0
  BY DEF TimerInit, Zeroed, Idle, Away, NoSeq, Sample
<1> QED
  BY <1>2, <1>3, <1>4, TimerAssumption DEF Counts, NumberCount, NumberBounds, LockCount

\* A step of which no thread comes out in a section, and no semaphore is touched
\* but destroyed.
LEMMA NoMoreOwed ==
  ASSUME Shaped, LockCount,
         \A o \in Objects : object'[o].lock = object[o].lock \/ object'[o].lock = -1,
         \A o \in Objects : Within(o)' \subseteq Within(o),
         \A o \in Objects : (g_shm' = o /\ main' = "post") => (g_shm = o /\ main = "post"),
         \A o \in Objects : ReaderHolds(o)' => ReaderHolds(o),
         faults' \in {faults, faults + 1}
  PROVE  LockCount'
<1>1. faults \in Nat
  BY TimerAssumption DEF Shaped, Shapes
<1>2. SUFFICES ASSUME NEW o \in Objects, object'[o].lock = object[o].lock, object[o].lock \in Nat
               PROVE  object'[o].lock + Owed(o)' <= 2 + faults'
  BY DEF LockCount
<1>3. Cardinality(Within(o)') <= Cardinality(Within(o))
  BY CountHandlers DEF Within
<1>4. Owed(o)' <= Owed(o)
  BY <1>3, CountTypes DEF Owed
<1> QED  BY <1>1, <1>2, <1>4, CountTypes DEF LockCount

\* A step at the semaphore of one object: one more inside for each it takes, at
\* least one less for each it gives, or a fault.
LEMMA OwedAtOne ==
  ASSUME Shaped, LockCount, NEW p \in Objects, UNCHANGED faults,
         \A o \in Objects \ {p} : object'[o].lock = object[o].lock /\ Owed(o)' <= Owed(o),
         \/ object'[p].lock = -1
         \/ /\ object[p].lock \in Nat /\ object'[p].lock \in Nat
            /\ object'[p].lock + Owed(p)' <= object[p].lock + Owed(p)
  PROVE  LockCount'
<1>1. faults \in Nat
  BY TimerAssumption DEF Shaped, Shapes
<1>2. SUFFICES ASSUME NEW o \in Objects, object'[o].lock # -1
               PROVE  object'[o].lock \in Nat /\ object'[o].lock + Owed(o)' <= 2 + faults
  BY DEF LockCount
<1> QED  BY <1>1, <1>2, CountTypes DEF LockCount

\* sem_init, and the waits and posts of main and of the reader.
LEMMA SemaphoreOwed ==
  ASSUME Shaped, LockCount,
         SemInit \/ LastWait \/ LastPost \/ InterruptedWait \/ ReaderWait \/ PostAndEmit
  PROVE  LockCount'
<1>0. /\ object \in [Objects -> ObjectRecord] /\ faults \in Nat /\ reader \in ReaderRecord
      /\ main \notin {"down", "size", "map", "unlink"} => g_shm \in Objects
      /\ reader.step \notin {"open", "off"} => reader.obj \in Objects
  BY Mapped, TimerAssumption DEF Shaped, Shapes, Places
<1>1. CASE SemInit
  <2>1. /\ main = "init" /\ main' = "clear" /\ g_shm \in Objects
        /\ object'[g_shm].lock = 1 /\ \A o \in Objects \ {g_shm} : object'[o] = object[o]
        /\ UNCHANGED <<g_shm, handler, reader, faults>>
    BY <1>0, <1>1 DEF SemInit, Main, ObjectRecord, ghostVars
  <2>2. \A o : Within(o)' = {}
    BY <2>1 DEF Shaped, Places, Idle, Within, Holds
  <2>3. \A o : Cardinality(Within(o)') = 0
    BY <2>2, CountHandlers
  <2>4. \A o \in Objects : Owed(o)' <= Owed(o) /\ Owed(o)' <= 1
    BY <2>1, <2>3, CountTypes DEF Owed, ReaderHolds
  <2> QED  BY <1>0, <2>1, <2>4, CountTypes DEF LockCount
<1>2. CASE LastWait \/ LastPost \/ InterruptedWait
  <2>1. /\ main \in {"wait", "post"} /\ g_shm \in Objects
        /\ UNCHANGED <<g_shm, handler, reader>>
        /\ main' = IF main = "wait" THEN "post" ELSE "disarm"
    BY <1>0, <1>2 DEF LastWait, LastPost, InterruptedWait, Main
  <2>2. /\ \A o : Within(o)' = Within(o)
        /\ \A o : ReaderHolds(o)' <=> ReaderHolds(o)
    BY <2>1 DEF Within, Holds, ReaderHolds
  <2>3. /\ \A o \in Objects \ {g_shm} : Owed(o)' = Owed(o)
        /\ main = "wait" => Owed(g_shm)' = Owed(g_shm) + 1
        /\ main = "post" => Owed(g_shm)' = Owed(g_shm) - 1
    BY <2>1, <2>2, CountTypes DEF Owed
  <2>4. CASE LastWait
    <3>1. /\ object'[g_shm].lock = IF object[g_shm].lock > 0 THEN object[g_shm].lock - 1 ELSE object[g_shm].lock
          /\ \A o \in Objects \ {g_shm} : object'[o] = object[o]
          /\ object[g_shm].lock # 0 /\ object[g_shm].lock \in Int /\ faults' = faults /\ main = "wait"
      BY <1>0, <2>1, <2>4 DEF LastWait, Waited, CanWait, Main, ObjectRecord, ghostVars
    <3> QED  BY <2>1, <2>3, <3>1, OwedAtOne, CountTypes DEF LockCount
  <2>5. CASE LastPost
    <3>1. /\ object'[g_shm].lock = IF object[g_shm].lock >= 0 THEN object[g_shm].lock + 1 ELSE object[g_shm].lock
          /\ \A o \in Objects \ {g_shm} : object'[o] = object[o]
          /\ object[g_shm].lock \in Int /\ faults' = faults /\ main = "post"
      BY <1>0, <2>1, <2>5 DEF LastPost, Posted, Main, ObjectRecord, ghostVars
    <3> QED  BY <2>1, <2>3, <3>1, OwedAtOne, CountTypes DEF LockCount
  <2>6. CASE InterruptedWait
    <3>1. object' = object /\ faults' = faults + 1 /\ main = "wait"
      BY <2>6 DEF InterruptedWait, Fault, Main
    <3>2. \A o \in Objects : Owed(o)' <= Owed(o) + 1
      BY <2>1, <2>3, <3>1, CountTypes
    <3> QED  BY <1>0, <3>1, <3>2, CountTypes DEF LockCount
  <2> QED  BY <1>2, <2>4, <2>5, <2>6
<1>3. CASE ReaderWait \/ PostAndEmit
  <2>p. PICK p \in Objects : p = reader.obj
    BY <1>0, <1>3 DEF ReaderWait, PostAndEmit, ReaderAt
  <2>1. /\ reader.step = (IF ReaderWait THEN "wait" ELSE "post")
        /\ reader'.step = (IF ReaderWait THEN "seq" ELSE "poll") /\ reader'.obj = p
        /\ p \in Objects /\ UNCHANGED <<g_shm, handler, main, faults>>
    <3>1. CASE ReaderWait
      BY <1>0, <2>p, <3>1 DEF ReaderWait, ReaderAt, ReaderRecord, masterVars
    <3>2. CASE PostAndEmit /\ ~ReaderWait
      BY <1>0, <2>p, <3>2 DEF PostAndEmit, ReaderAt, Away, masterVars
    <3> QED  BY <1>3, <3>1, <3>2
  <2>2. /\ \A o : Within(o)' = Within(o)
        /\ \A o \in Objects \ {p} : ReaderHolds(o)' <=> ReaderHolds(o)
        /\ ReaderWait => ReaderHolds(p)' /\ ~ReaderHolds(p)
        /\ ~ReaderWait => ReaderHolds(p) /\ ~ReaderHolds(p)'
    BY <2>p, <2>1 DEF Within, Holds, ReaderHolds
  <2>3. /\ \A o \in Objects \ {p} : Owed(o)' = Owed(o)
        /\ ReaderWait => Owed(p)' = Owed(p) + 1
        /\ ~ReaderWait => Owed(p)' = Owed(p) - 1
    BY <2>1, <2>2, CountTypes DEF Owed
  <2>4. CASE ReaderWait
    <3>1. /\ object'[p].lock = IF object[p].lock > 0 THEN object[p].lock - 1 ELSE object[p].lock
          /\ \A o \in Objects \ {p} : object'[o] = object[o]
          /\ object[p].lock # 0 /\ object[p].lock \in Int
      BY <1>0, <2>p, <2>1, <2>4 DEF ReaderWait, Waited, CanWait, ObjectRecord
    <3> QED  BY <2>1, <2>3, <2>4, <3>1, OwedAtOne, CountTypes DEF LockCount
  <2>5. CASE ~ReaderWait
    <3>1. /\ object'[p].lock = IF object[p].lock >= 0 THEN object[p].lock + 1 ELSE object[p].lock
          /\ \A o \in Objects \ {p} : object'[o] = object[o]
          /\ object[p].lock \in Int
      BY <1>0, <1>3, <2>p, <2>1, <2>5 DEF PostAndEmit, Posted, ObjectRecord
    <3> QED  BY <2>1, <2>3, <2>5, <3>1, OwedAtOne, CountTypes DEF LockCount
  <2> QED  BY <2>4, <2>5
<1> QED  BY <1>1, <1>2, <1>3

\* The wait and the post of a handler.
LEMMA HandlerOwed ==
  ASSUME Shaped, LockCount, NEW h \in Handlers, TakeLock(h) \/ GiveLock(h)
  PROVE  LockCount'
<1>0. /\ object \in [Objects -> ObjectRecord] /\ handler \in [Handlers -> HandlerRecord]
      /\ g_shm \in Objects /\ UNCHANGED <<g_shm, main, reader, faults>>
  BY Mapped DEF Shaped, Shapes, TakeLock, GiveLock, At, masterVars, ghostVars
<1>1. \A o \in Objects \ {g_shm} : Within(o) = {} /\ Within(o)' = {}
  BY <1>0 DEF Within
<1>2. \A o \in Objects \ {g_shm} : Owed(o)' = Owed(o)
  BY <1>0, <1>1 DEF Owed, ReaderHolds
<1>3. Within(g_shm) \in SUBSET Handlers /\ (ReaderHolds(g_shm)' <=> ReaderHolds(g_shm))
  BY <1>0 DEF Within, ReaderHolds
<1>4. CASE TakeLock(h)
  <2>1. /\ object'[g_shm].lock = IF object[g_shm].lock > 0 THEN object[g_shm].lock - 1 ELSE object[g_shm].lock
        /\ \A o \in Objects \ {g_shm} : object'[o] = object[o]
        /\ object[g_shm].lock # 0 /\ object[g_shm].lock \in Int
    BY <1>0, <1>4 DEF TakeLock, Waited, CanWait, ObjectRecord
  <2>2. h \in Handlers \ Within(g_shm) /\ Within(g_shm)' = Within(g_shm) \union {h}
    BY <1>0, <1>4 DEF TakeLock, At, To, Within, Holds, HandlerRecord
  <2>3. Cardinality(Within(g_shm)') = Cardinality(Within(g_shm)) + 1
    BY <1>3, <2>2, CountHandlers
  <2>4. Owed(g_shm)' = Owed(g_shm) + 1
    BY <1>0, <1>3, <2>3, CountTypes DEF Owed
  <2> QED  BY <1>0, <1>2, <2>1, <2>4, OwedAtOne, CountTypes DEF LockCount
<1>5. CASE GiveLock(h)
  <2>1. /\ object'[g_shm].lock = IF object[g_shm].lock >= 0 THEN object[g_shm].lock + 1 ELSE object[g_shm].lock
        /\ \A o \in Objects \ {g_shm} : object'[o] = object[o]
        /\ object[g_shm].lock \in Int
    BY <1>0, <1>5 DEF GiveLock, Posted, ObjectRecord
  <2>2. h \in Within(g_shm) /\ Within(g_shm)' = Within(g_shm) \ {h}
    BY <1>0, <1>5 DEF GiveLock, At, To, Within, Holds, HandlerRecord
  <2>3. Cardinality(Within(g_shm)') = Cardinality(Within(g_shm)) - 1
    BY <1>3, <2>2, CountHandlers
  <2>4. Owed(g_shm)' = Owed(g_shm) - 1
    BY <1>0, <1>3, <2>3, CountTypes DEF Owed
  <2> QED  BY <1>0, <1>2, <2>1, <2>4, OwedAtOne, CountTypes DEF LockCount
<1> QED  BY <1>4, <1>5

\* Every other step leaves the semaphores or destroys one, and no thread comes in.
LEMMA LockStep == Shaped /\ LockCount /\ [TimerNext]_timerVars => LockCount'
<1> SUFFICES ASSUME Shaped, LockCount, [TimerNext]_timerVars PROVE LockCount'
  OBVIOUS
<1>0. /\ object \in [Objects -> ObjectRecord] /\ handler \in [Handlers -> HandlerRecord]
      /\ 0 \notin Objects /\ reader \in ReaderRecord
  BY Mapped DEF Shaped, Shapes
<1>1. CASE ShmOpen \/ Stop \/ Ftruncate \/ Mmap \/ StartFails \/ ClearSeq \/ Arm \/ Disarm \/ Destroy \/ Unmap \/ Unlink
           \/ FaultAfterUnmap \/ KillMaster
  <2>1. /\ reader' = reader /\ faults' \in {faults, faults + 1} /\ main' # "post"
        /\ handler' = handler \/ \A h \in Handlers : handler'[h] = Idle
        /\ g_shm' \in {g_shm, 0} \/ \A h \in Handlers : handler'[h] = Idle
    BY <1>1 DEF ShmOpen, Stop, Ftruncate, Mmap, StartFails, ClearSeq, Arm, Disarm, Destroy, Unmap,
                Unlink, FaultAfterUnmap, KillMaster,
                Ends, Main, Fault, ghostVars, Shaped, Places
  <2>2. \A o \in Objects : object'[o].lock = object[o].lock \/ object'[o].lock = -1
    BY <1>0, <1>1 DEF ShmOpen, Stop, Ftruncate, Mmap, StartFails, ClearSeq, Arm, Disarm, Destroy,
                      Unmap, Unlink, FaultAfterUnmap, KillMaster,
                      Cleared, ObjectRecord
  <2>3. \A o \in Objects : Within(o)' \subseteq Within(o)
    BY <1>0, <2>1 DEF Within, Holds, Idle
  <2> QED  BY <2>1, <2>2, <2>3, NoMoreOwed DEF ReaderHolds
<1>2. ASSUME NEW h \in Handlers, Tick(h) \/ StoreSeq(h) \/ StoreData(h) \/ PrintRecord(h)
      PROVE  LockCount'
  <2>1. UNCHANGED <<g_shm, main, reader, faults>>
    BY <1>2 DEF Tick, StoreSeq, StoreData, PrintRecord, masterVars, ghostVars
  <2>2. \A o \in Objects : object'[o].lock = object[o].lock
    BY <1>0, <1>2 DEF Tick, StoreSeq, StoreData, PrintRecord, ObjectRecord
  <2>3. \A k \in Handlers : Holds(k)' => Holds(k)
    <3>1. CASE Tick(h)
      BY <1>0, <3>1 DEF Tick, Holds, HandlerRecord
    <3>2. CASE StoreSeq(h)
      BY <1>0, <3>2 DEF StoreSeq, At, Holds, HandlerRecord
    <3>3. CASE StoreData(h)
      BY <1>0, <3>3 DEF StoreData, At, To, Holds, HandlerRecord
    <3>4. CASE PrintRecord(h)
      BY <1>0, <3>4 DEF PrintRecord, At, Holds, Idle
    <3> QED  BY <1>2, <3>1, <3>2, <3>3, <3>4
  <2> QED  BY <2>1, <2>2, <2>3, NoMoreOwed DEF Within, ReaderHolds
<1>3. CASE \/ Open \/ MmapFails \/ Poll \/ BusError \/ ReadSeq \/ ReadData
          \/ ReaderStop \/ KillReader
  <2>1. UNCHANGED <<object, g_shm, main, handler>> /\ faults' \in {faults, faults + 1}
    BY <1>3 DEF Open, MmapFails, Poll, BusError, ReadSeq, ReadData, ReaderStop, KillReader, Fault,
                masterVars
  <2>2. \A o \in Objects : ReaderHolds(o)' => ReaderHolds(o)
    <3>1. CASE Open \/ Poll
      BY <1>0, <3>1 DEF Open, Poll, ReaderAt, ReaderHolds, ReaderRecord
    <3>2. CASE ReadSeq \/ ReadData
      BY <1>0, <3>2 DEF ReadSeq, ReadData, ReaderAt, ReaderHolds, ReaderRecord
    <3>3. CASE MmapFails \/ BusError \/ ReaderStop \/ KillReader
      BY <3>3 DEF MmapFails, BusError, ReaderStop, KillReader, ReaderAt, Away, ReaderHolds
    <3> QED  BY <1>3, <3>1, <3>2, <3>3
  <2> QED  BY <2>1, <2>2, NoMoreOwed DEF Within, Holds
<1>4. CASE UNCHANGED timerVars
  <2>1. UNCHANGED <<object, g_shm, main, handler, reader, faults>>
    BY <1>4 DEF timerVars, masterVars
  <2> QED  BY <2>1, NoMoreOwed DEF Within, Holds, ReaderHolds
<1> QED
  BY <1>1, <1>2, <1>3, <1>4, SemaphoreOwed, HandlerOwed DEF TimerNext, MainStep, HandlerStep,
                                                            ReaderStep

\* A number is given to a sample that has none yet.
LEMMA NumberStep ==
  Shaped /\ NumberCount /\ NumberBounds /\ [TimerNext]_timerVars => (NumberCount /\ NumberBounds)'
<1> SUFFICES ASSUME Shaped, NumberCount, NumberBounds, [TimerNext]_timerVars
             PROVE  NumberCount' /\ NumberBounds'
  OBVIOUS
<1>0. /\ object \in [Objects -> ObjectRecord] /\ handler \in [Handlers -> HandlerRecord]
      /\ 0 \notin Objects /\ reader \in ReaderRecord
      /\ reader.step \notin {"open", "off"} => reader.obj \in Objects
      /\ g_seq \in Nat /\ samples \in Nat /\ samples <= MaxSamples /\ MaxSamples \in Nat
  BY Mapped, TimerAssumption DEF Shaped, Shapes
<1>a. Unnumbered \in SUBSET Handlers /\ Unnumbered' \in SUBSET Handlers
  BY DEF Unnumbered
<1>1. CASE ShmOpen \/ Stop \/ MainStep \/ InterruptedWait \/ FaultAfterUnmap \/ KillMaster
  <2>1. UNCHANGED <<reader, samples>>
    BY <1>1 DEF ShmOpen, Stop, MainStep, Ftruncate, Mmap, StartFails, SemInit, ClearSeq, Arm,
                LastWait, LastPost, Disarm, Destroy, Unmap,
                Unlink, InterruptedWait, FaultAfterUnmap, KillMaster, ghostVars
  <2>2. \/ g_seq' = g_seq /\ handler' = handler
        \/ g_seq' = 0 /\ \A h \in Handlers : handler'[h] = Idle
    BY <1>1 DEF ShmOpen, Stop, MainStep, Ftruncate, Mmap, StartFails, SemInit, ClearSeq, Arm,
                LastWait, LastPost, Disarm, Destroy, Unmap,
                Unlink, InterruptedWait, FaultAfterUnmap, KillMaster, Ends, masterVars
  <2>3. Unnumbered' \subseteq Unnumbered
    BY <2>2 DEF Unnumbered, Idle
  <2>4. NumberCount'
    BY <1>0, <1>a, <2>1, <2>2, <2>3, CountHandlers, CountTypes DEF NumberCount
  <2>5. \A o \in Objects : object'[o].seq \in {0, object[o].seq} /\ object'[o].data = object[o].data
    <3>1. CASE ShmOpen \/ Ftruncate \/ SemInit \/ Destroy \/ LastWait \/ LastPost \/ ClearSeq
      BY <1>0, <3>1 DEF ShmOpen, Ftruncate, SemInit, Destroy, LastWait, LastPost, ClearSeq, Waited,
                        Posted, Cleared, ObjectRecord
    <3>2. CASE object' = object
      BY <3>2
    <3> QED
      BY <1>1, <3>1, <3>2 DEF ShmOpen, Stop, MainStep, Ftruncate, Mmap, StartFails, Arm, Disarm,
                              Unmap, Unlink, InterruptedWait,
                              FaultAfterUnmap, KillMaster
  <2>6. \A h \in Handlers : handler'[h].seq <= MaxSamples
    BY <1>0, <2>2 DEF NumberBounds, Idle
  <2> QED  BY <1>0, <2>1, <2>4, <2>5, <2>6 DEF NumberBounds
<1>2. ASSUME NEW h \in Handlers, Tick(h)
      PROVE  NumberCount' /\ NumberBounds'
  <2>1. /\ samples' = samples + 1 /\ UNCHANGED <<object, g_seq, reader>>
        /\ h \notin Unnumbered /\ Unnumbered' = Unnumbered \union {h}
    BY <1>0, <1>2 DEF Tick, Unnumbered, Idle, masterVars
  <2>2. Cardinality(Unnumbered') = Cardinality(Unnumbered) + 1
    BY <1>a, <2>1, CountHandlers
  <2>3. \A k \in Handlers : handler'[k].seq <= MaxSamples
    BY <1>0, <1>2 DEF Tick, NumberBounds
  <2> QED  BY <1>0, <2>1, <2>2, <2>3, CountTypes DEF NumberCount, NumberBounds
<1>3. ASSUME NEW h \in Handlers, TakeLock(h) \/ StoreData(h) \/ GiveLock(h) \/ PrintRecord(h)
      PROVE  NumberCount' /\ NumberBounds'
  <2>1. UNCHANGED <<samples, g_seq, reader>> /\ Unnumbered' = Unnumbered
    BY <1>0, <1>3 DEF TakeLock, StoreData, GiveLock, PrintRecord, At, To, Unnumbered, Idle,
                      masterVars,
                      ghostVars, HandlerRecord
  <2>2. \A o \in Objects : /\ object'[o].seq = object[o].seq
                           /\ object'[o].data.seq \in {object[o].data.seq, handler[h].seq}
    <3>1. CASE PrintRecord(h)
      BY <3>1 DEF PrintRecord
    <3>2. CASE TakeLock(h) \/ GiveLock(h)
      BY <1>0, <3>2 DEF TakeLock, GiveLock, Waited, Posted, ObjectRecord
    <3>3. CASE StoreData(h)
      BY <1>0, <3>3 DEF StoreData, Sample, ObjectRecord
    <3> QED  BY <1>3, <3>1, <3>2, <3>3
  <2>3. \A k \in Handlers : handler'[k].seq \in {0, handler[k].seq}
    BY <1>0, <1>3 DEF TakeLock, StoreData, GiveLock, PrintRecord, At, To, Idle, HandlerRecord
  <2> QED  BY <1>0, <2>1, <2>2, <2>3 DEF NumberCount, NumberBounds
<1>4. ASSUME NEW h \in Handlers, StoreSeq(h)
      PROVE  NumberCount' /\ NumberBounds'
  <2>1. /\ g_seq' = g_seq + 1 /\ UNCHANGED <<samples, reader>>
        /\ h \in Unnumbered /\ Unnumbered' = Unnumbered \ {h}
    BY <1>0, <1>4 DEF StoreSeq, At, Unnumbered, ghostVars, HandlerRecord
  <2>2. Cardinality(Unnumbered') = Cardinality(Unnumbered) - 1
    BY <1>a, <2>1, CountHandlers
  <2>3. g_seq <= MaxSamples
    BY <1>0, CountTypes DEF NumberCount
  <2>4. \A o \in Objects : object'[o].seq \in {object[o].seq, g_seq} /\ object'[o].data = object[o].data
    BY <1>0, <1>4 DEF StoreSeq, ObjectRecord
  <2>5. \A k \in Handlers : handler'[k].seq \in {handler[k].seq, g_seq}
    BY <1>0, <1>4 DEF StoreSeq, At, HandlerRecord
  <2> QED  BY <1>0, <2>1, <2>2, <2>3, <2>4, <2>5, CountTypes DEF NumberCount, NumberBounds
<1>5. CASE ReaderStep \/ ReaderStop \/ KillReader
  <2>1. UNCHANGED <<samples, g_seq, handler>>
    BY <1>5 DEF ReaderStep, ReaderStop, KillReader, Open, MmapFails, Poll, BusError, ReaderWait,
                ReadSeq, ReadData, PostAndEmit,
                masterVars, ghostVars
  <2>2. \A o \in Objects : object'[o].seq = object[o].seq /\ object'[o].data = object[o].data
    <3>1. CASE ReaderWait
      BY <1>0, <3>1 DEF ReaderWait, Waited, ObjectRecord
    <3>2. CASE PostAndEmit
      BY <1>0, <3>2 DEF PostAndEmit, Posted, ObjectRecord
    <3>3. CASE object' = object
      BY <3>3
    <3> QED
      BY <1>5, <3>1, <3>2, <3>3 DEF ReaderStep, ReaderStop, KillReader, Open, MmapFails, Poll,
                                    BusError, ReadSeq, ReadData
  <2>3. /\ reader'.seq <= MaxSamples /\ reader'.data.seq <= MaxSamples /\ reader'.last_seq <= MaxSamples
    <3>1. CASE Open \/ Poll \/ ReaderWait
      BY <1>0, <3>1 DEF Open, Poll, ReaderWait, ReaderAt, ReaderRecord, NumberBounds
    <3>2. CASE ReadSeq
      BY <1>0, <3>2 DEF ReadSeq, ReaderAt, ReaderRecord, NumberBounds
    <3>3. CASE ReadData
      BY <1>0, <3>3 DEF ReadData, ReaderAt, ReaderRecord, NumberBounds
    <3>4. CASE PostAndEmit
      BY <1>0, <3>4 DEF PostAndEmit, ReaderAt, Away, Sample, NumberBounds
    <3>5. CASE MmapFails \/ BusError \/ ReaderStop \/ KillReader
      BY <1>0, <3>5 DEF MmapFails, BusError, ReaderStop, KillReader, ReaderAt, Away, NoSeq, Sample
    <3> QED  BY <1>5, <3>1, <3>2, <3>3, <3>4, <3>5 DEF ReaderStep
  <2> QED  BY <1>0, <2>1, <2>2, <2>3 DEF NumberCount, NumberBounds, Unnumbered
<1>6. CASE UNCHANGED timerVars
  BY <1>6 DEF timerVars, masterVars, ghostVars, NumberCount, NumberBounds, Unnumbered
<1> QED
  BY <1>1, <1>2, <1>3, <1>4, <1>5, <1>6 DEF TimerNext, HandlerStep

(* Every variable keeps its type: numbers do not outrun the samples, and a  *)
(* semaphore never counts beyond two and the faults.                        *)
THEOREM TimerTypeCorrect == TimerSpec => []TimerTypeOK
<1>1. TimerInit => Shaped /\ Order /\ Counts
  BY ShapedInit, OrderInit, CountsInit
<1>2. Shaped /\ Order /\ Counts /\ [TimerNext]_timerVars => (Shaped /\ Order /\ Counts)'
  BY ShapedStep, OrderStep, LockStep, NumberStep DEF Counts
<1>3. Shaped /\ Order /\ Counts => TimerTypeOK
  <2> SUFFICES ASSUME Shaped, Exchanged, NumberCount, NumberBounds, LockCount PROVE TimerTypeOK
    BY DEF Order, Counts
  <2>0. /\ MaxSamples \in Nat /\ samples \in Nat /\ samples <= MaxSamples /\ MaxFaults \in Nat
        /\ faults \in Nat /\ faults <= MaxFaults
    BY TimerAssumption DEF Shaped, Shapes
  <2>1. ASSUME NEW o \in Objects
        PROVE  object[o] \in [size: {"none", "empty", "full"}, lock: -1 .. 2 + MaxFaults,
                             seq: 0 .. MaxSamples, data: SampleType]
    <3>1. object[o] \in ObjectRecord
      BY DEF Shaped, Shapes
    <3>2. object[o].lock \in -1 .. 2 + MaxFaults
      BY <2>0, CountTypes DEF LockCount
    <3>3. object[o].seq \in 0 .. MaxSamples /\ object[o].data \in SampleType
      BY <2>0, <3>1 DEF ObjectRecord, SampleType, Exchanged, NumberBounds
    <3> QED  BY <3>1, <3>2, <3>3 DEF ObjectRecord
  <2>2. ASSUME NEW h \in Handlers
        PROVE  handler[h] \in [step: {"idle", "wait", "seq", "data", "post", "print"},
                              n: 0 .. MaxSamples, seq: 0 .. MaxSamples]
    <3>1. handler[h] \in HandlerRecord
      BY DEF Shaped, Shapes
    <3> QED  BY <2>0, <3>1 DEF HandlerRecord, Exchanged, NumberBounds
  <2>3. reader \in [step: {"open", "poll", "wait", "seq", "data", "post", "off"},
                    obj: 0 .. MaxObjects, seq: 0 .. MaxSamples, data: SampleType,
                    last_seq: {NoSeq} \union 0 .. MaxSamples, tries: 0 .. OpenAttempts]
    <3>1. reader \in ReaderRecord
      BY DEF Shaped, Shapes
    <3>2. reader.seq \in 0 .. MaxSamples /\ reader.data \in SampleType
          /\ reader.last_seq \in {NoSeq} \union 0 .. MaxSamples
      BY <2>0, <3>1 DEF ReaderRecord, SampleType, Exchanged, NumberBounds
    <3> QED  BY <3>1, <3>2 DEF ReaderRecord
  <2>4. g_seq \in 0 .. MaxSamples /\ emitted \in 0 .. MaxSamples
    BY <2>0, CountTypes DEF Shaped, Shapes, NumberCount, Exchanged
  <2> QED  BY <2>1, <2>2, <2>3, <2>4 DEF Shaped, Shapes, TimerTypeOK
<1> QED  BY <1>1, <1>2, <1>3, PTL DEF TimerSpec

=============================================================================
