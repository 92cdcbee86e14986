------------------------------ MODULE TimerSpi ------------------------------
(***************************************************************************)
(* old_timer_spi/spi_master.c and the thread of the Qt dashboard that      *)
(* reads it (Cluster/SpiReader.cpp).  Every timer tick starts a thread     *)
(* that exchanges 15 bytes with the STM32 and writes the one record of the *)
(* shared object under a process-shared semaphore; the reader polls that   *)
(* record under the same semaphore.  No result of sem_wait is looked at.   *)
(* Samples are numbered in the order of their exchanges, and a stored      *)
(* sample remembers the sequence number its writer gave it: both are       *)
(* ghosts, the dashboard sees neither.                                     *)
(***************************************************************************)
EXTENDS Integers, FiniteSets

CONSTANTS
  Handlers,      \* threads the timer can have running at once
  OpenAttempts,  \* of SpiReader::run (20 in the code)
  MaxSamples,    \* bound on the exchanges
  MaxObjects,    \* bound on the shared objects created under the name
  MaxFaults      \* bound on kills and interrupted waits

ASSUME TimerAssumption ==
  /\ IsFiniteSet(Handlers)
  /\ OpenAttempts \in Nat \ {0}
  /\ MaxSamples \in Nat
  /\ MaxObjects \in Nat
  /\ MaxFaults \in Nat

VARIABLES
  object,        \* the shared objects: size, semaphore, seq and data of the record
  name,          \* the object SHM_NAME stands for, 0 if none
  g_shm,         \* the object the master has mapped, 0 if none
  g_seq,
  main,          \* the next step of main
  handler,       \* of each timer thread: its next step, its sample and (ghost) the number
                 \* it stored
  reader,        \* of the dashboard: step, object, what it read, last_seq, tries
  samples,       \* ghost: exchanges so far
  emitted,       \* ghost: the sample last handed to the dashboard
  overlapped,    \* ghost: a handler started while another one had not ended
  unlocked,      \* ghost: the semaphore was destroyed under a handler, set up again over
                 \* an old object, or passed without being taken
  faults

masterVars == <<g_shm, g_seq, main>>
ghostVars  == <<samples, emitted, overlapped, unlocked>>
timerVars  == <<object, name, masterVars, handler, reader, ghostVars, faults>>

Objects == 1 .. MaxObjects
Sample(n, seq) == [n |-> n, seq |-> seq]

\* UINT32_MAX, which no record has.
NoSeq == -1

\* A fresh object has no size, then zeroes; lock = -1 is a destroyed semaphore.
Zeroed == [size |-> "none", lock |-> 0, seq |-> 0, data |-> Sample(0, 0)]
Idle   == [step |-> "idle", n |-> 0, seq |-> 0]
Away   == [step |-> "open", obj |-> 0, seq |-> 0, data |-> Sample(0, 0), last_seq |-> NoSeq,
           tries |-> 0]

SampleType == [n: 0 .. MaxSamples, seq: 0 .. MaxSamples]

TimerTypeOK ==
  /\ object \in [Objects -> [size: {"none", "empty", "full"}, lock: -1 .. 2 + MaxFaults,
                             seq: 0 .. MaxSamples, data: SampleType]]
  /\ name \in 0 .. MaxObjects
  /\ g_shm \in 0 .. MaxObjects
  /\ g_seq \in 0 .. MaxSamples
  /\ main \in {"down", "size", "map", "init", "clear", "arm", "run", "wait", "post", "disarm",
               "destroy", "unmap", "unlink"}
  /\ handler \in [Handlers -> [step: {"idle", "wait", "seq", "data", "post", "print"},
                               n: 0 .. MaxSamples, seq: 0 .. MaxSamples]]
  /\ reader \in [step: {"open", "poll", "wait", "seq", "data", "post", "off"},
                 obj: 0 .. MaxObjects, seq: 0 .. MaxSamples, data: SampleType,
                 last_seq: {NoSeq} \union 0 .. MaxSamples, tries: 0 .. OpenAttempts]
  /\ samples \in 0 .. MaxSamples
  /\ emitted \in 0 .. MaxSamples
  /\ overlapped \in BOOLEAN
  /\ unlocked \in BOOLEAN
  /\ faults \in 0 .. MaxFaults

TimerInit ==
  /\ object = [o \in Objects |-> Zeroed]
  /\ name = 0
  /\ g_shm = 0
  /\ g_seq = 0
  /\ main = "down"
  /\ handler = [h \in Handlers |-> Idle]
  /\ reader = Away
  /\ samples = 0
  /\ emitted = 0
  /\ overlapped = FALSE
  /\ unlocked = FALSE
  /\ faults = 0

Fault == faults < MaxFaults /\ faults' = faults + 1

-----------------------------------------------------------------------------
(* The semaphore: a wait on a destroyed one returns at once.               *)

CanWait(o) == object[o].lock # 0

\* Mutant: the semaphore is passed without being taken.
NotTaken(o) == object
Waited(o) == [object EXCEPT ![o].lock = IF @ > 0 THEN @ - 1 ELSE @]

\* Mutant: the semaphore is not given back.
NotPosted(o) == object
Posted(o) == [object EXCEPT ![o].lock = IF @ >= 0 THEN @ + 1 ELSE @]

-----------------------------------------------------------------------------
(* main of spi_master                                                      *)

Main(from, to) == main = from /\ main' = to

\* Objects are never named again once unlinked; the next is a fresh one.
Unused == {o \in Objects : object[o] = Zeroed}

\* shm_open creates the object, with no size yet, or finds the one a killed master left.
ShmOpen ==
  /\ Main("down", "size")
  /\ \/ name # 0 /\ UNCHANGED <<object, name>>
     \/ /\ name = 0
        /\ \E o \in Unused :
             /\ \A p \in Unused : o <= p
             /\ name' = o
             /\ object' = [object EXCEPT ![o].size = "empty"]
  /\ unlocked' = (unlocked \/ name # 0)
  /\ UNCHANGED <<g_shm, g_seq, handler, reader, samples, emitted, overlapped, faults>>

Ftruncate ==
  /\ Main("size", "map")
  /\ object' = [object EXCEPT ![name].size = "full"]
  /\ UNCHANGED <<name, g_shm, g_seq, handler, reader, ghostVars, faults>>

Mmap ==
  /\ Main("map", "init")
  /\ g_shm' = name
  /\ UNCHANGED <<object, name, g_seq, handler, reader, ghostVars, faults>>

\* ftruncate or mmap failed: the object loses its name, whoever has found it.
StartFails ==
  /\ Main("size", "down") \/ Main("map", "down")
  /\ name' = 0
  /\ UNCHANGED <<object, g_shm, g_seq, handler, reader, ghostVars, faults>>

SemInit ==
  /\ Main("init", "clear")
  /\ object' = [object EXCEPT ![g_shm].lock = 1]
  /\ UNCHANGED <<name, g_shm, g_seq, handler, reader, ghostVars, faults>>

\* Mutant: the whole record is cleared.
ClearedRecord(o) == [o EXCEPT !.seq = 0, !.data = Sample(0, 0)]

\* Only the number is.
Cleared(o) == [o EXCEPT !.seq = 0]

ClearSeq ==
  /\ Main("clear", "arm")
  /\ object' = [object EXCEPT ![g_shm] = Cleared(@)]
  /\ UNCHANGED <<name, g_shm, g_seq, handler, reader, ghostVars, faults>>

\* timer_create and timer_settime, or their error path.
Arm ==
  /\ Main("arm", "run") \/ Main("arm", "destroy")
  /\ UNCHANGED <<object, name, g_shm, g_seq, handler, reader, ghostVars, faults>>

\* SIGINT or SIGTERM.
Stop ==
  /\ Main("run", "wait")
  /\ UNCHANGED <<object, name, g_shm, g_seq, handler, reader, ghostVars, faults>>

\* The last record is read between two steps.
LastWait ==
  /\ Main("wait", "post")
  /\ CanWait(g_shm)
  /\ object' = Waited(g_shm)
  /\ UNCHANGED <<name, g_shm, g_seq, handler, reader, ghostVars, faults>>

\* A second signal ends the wait without the semaphore, and nobody notices.
InterruptedWait ==
  /\ Main("wait", "post")
  /\ ~CanWait(g_shm)
  /\ Fault
  /\ unlocked' = TRUE
  /\ UNCHANGED <<object, name, g_shm, g_seq, handler, reader, samples, emitted, overlapped>>

LastPost ==
  /\ Main("post", "disarm")
  /\ object' = Posted(g_shm)
  /\ UNCHANGED <<name, g_shm, g_seq, handler, reader, ghostVars, faults>>

\* The threads the timer has started run on.
Disarm ==
  /\ Main("disarm", "destroy")
  /\ UNCHANGED <<object, name, g_shm, g_seq, handler, reader, ghostVars, faults>>

Destroy ==
  /\ Main("destroy", "unmap")
  /\ object' = [object EXCEPT ![g_shm].lock = -1]
  /\ unlocked' = (unlocked \/ \E h \in Handlers : handler[h].step \in {"wait", "seq", "data"})
  /\ UNCHANGED <<name, g_shm, g_seq, handler, reader, samples, emitted, overlapped, faults>>

Unmap ==
  /\ Main("unmap", "unlink")
  /\ g_shm' = 0
  /\ UNCHANGED <<object, name, g_seq, handler, reader, ghostVars, faults>>

\* The process ends, with its mapping, its counter and its threads.
Ends ==
  /\ main' = "down"
  /\ g_shm' = 0
  /\ g_seq' = 0
  /\ handler' = [h \in Handlers |-> Idle]

\* shm_unlink and the return from main.
Unlink ==
  /\ main = "unlink"
  /\ Ends
  /\ name' = 0
  /\ UNCHANGED <<object, reader, ghostVars, faults>>

MainStep == \/ Ftruncate \/ Mmap \/ StartFails \/ SemInit \/ ClearSeq \/ Arm
            \/ LastWait \/ LastPost \/ Disarm \/ Destroy \/ Unmap \/ Unlink

-----------------------------------------------------------------------------
(* timer_handler                                                           *)

At(h, from, change) ==
  /\ g_shm # 0
  /\ handler[h].step = from
  /\ handler' = [handler EXCEPT ![h] = change]

To(h, step) == [handler[h] EXCEPT !.step = step]

\* Past its sem_post a thread writes nothing any more.
Writing(h) == handler[h].step \in {"wait", "seq", "data", "post"}

Armed == main \in {"run", "wait", "post", "disarm"}

\* A tick and its exchange; a failed one leaves nothing.
Tick(h) ==
  /\ Armed
  /\ handler[h] = Idle
  /\ samples < MaxSamples
  /\ samples' = samples + 1
  /\ handler' = [handler EXCEPT ![h] = [step |-> "wait", n |-> samples + 1, seq |-> 0]]
  /\ overlapped' = (overlapped \/ \E other \in Handlers : Writing(other))
  /\ UNCHANGED <<object, name, masterVars, reader, emitted, unlocked, faults>>

TakeLock(h) ==
  /\ At(h, "wait", To(h, "seq"))
  /\ CanWait(g_shm)
  /\ object' = Waited(g_shm)
  /\ UNCHANGED <<name, masterVars, reader, ghostVars, faults>>

StoreSeq(h) ==
  /\ At(h, "seq", [handler[h] EXCEPT !.step = "data", !.seq = g_seq])
  /\ object' = [object EXCEPT ![g_shm].seq = g_seq]
  /\ g_seq' = g_seq + 1
  /\ UNCHANGED <<name, g_shm, main, reader, ghostVars, faults>>

\* rx_time and data.
StoreData(h) ==
  /\ At(h, "data", To(h, "post"))
  /\ object' = [object EXCEPT ![g_shm].data = Sample(handler[h].n, handler[h].seq)]
  /\ UNCHANGED <<name, masterVars, reader, ghostVars, faults>>

GiveLock(h) ==
  /\ At(h, "post", To(h, "print"))
  /\ object' = Posted(g_shm)
  /\ UNCHANGED <<name, masterVars, reader, ghostVars, faults>>

\* print_record reads the number again, from the object and without the
\* semaphore; what it shows changes nothing.
PrintRecord(h) ==
  /\ At(h, "print", Idle)
  /\ UNCHANGED <<object, name, masterVars, reader, ghostVars, faults>>

\* A thread that outlives munmap faults, and the process with it; shm_unlink
\* is not reached.
FaultAfterUnmap ==
  /\ main = "unlink"
  /\ \E h \in Handlers : handler[h] # Idle
  /\ Ends
  /\ UNCHANGED <<object, name, reader, ghostVars, faults>>

HandlerStep(h) ==
  TakeLock(h) \/ StoreSeq(h) \/ StoreData(h) \/ GiveLock(h) \/ PrintRecord(h)

-----------------------------------------------------------------------------
(* SpiReader::run                                                          *)

ReaderAt(from, change) == reader.step = from /\ reader' = change

\* An object with no size yet can be mapped too.
Open ==
  /\ ReaderAt("open",
       IF name # 0 THEN [reader EXCEPT !.step = "poll", !.obj = name]
       ELSE IF reader.tries + 1 < OpenAttempts THEN [reader EXCEPT !.tries = @ + 1]
       ELSE [reader EXCEPT !.step = "off"])
  /\ UNCHANGED <<object, name, masterVars, handler, ghostVars, faults>>

\* mmap may refuse it.
MmapFails ==
  /\ ReaderAt("open", [Away EXCEPT !.step = "off"])
  /\ name # 0 /\ object[name].size = "empty"
  /\ UNCHANGED <<object, name, masterVars, handler, ghostVars, faults>>

\* m_running is set.
Poll ==
  /\ ReaderAt("poll", [reader EXCEPT !.step = "wait"])
  /\ UNCHANGED <<object, name, masterVars, handler, ghostVars, faults>>

\* Touching a page past the end of the object is a bus error and ends the reader.
BusError ==
  /\ ReaderAt("wait", [Away EXCEPT !.step = "off"])
  /\ object[reader.obj].size = "empty"
  /\ UNCHANGED <<object, name, masterVars, handler, ghostVars, faults>>

ReaderWait ==
  /\ ReaderAt("wait", [reader EXCEPT !.step = "seq"])
  /\ object[reader.obj].size = "full"
  /\ CanWait(reader.obj)
  /\ object' = Waited(reader.obj)
  /\ UNCHANGED <<name, masterVars, handler, ghostVars, faults>>

ReadSeq ==
  /\ ReaderAt("seq", [reader EXCEPT !.step = "data", !.seq = object[reader.obj].seq])
  /\ UNCHANGED <<object, name, masterVars, handler, ghostVars, faults>>

ReadData ==
  /\ ReaderAt("data", [reader EXCEPT !.step = "post", !.data = object[reader.obj].data])
  /\ UNCHANGED <<object, name, masterVars, handler, ghostVars, faults>>

\* Mutant: only growing numbers are new, and none is above UINT32_MAX.
NewIfGreater == reader.last_seq # NoSeq /\ reader.seq > reader.last_seq

IsNew == reader.seq # reader.last_seq

\* The rest of the round is the thread's own: newData goes to the Qt thread
\* through its event queue, in order, and the thread sleeps.
PostAndEmit ==
  /\ ReaderAt("post", [Away EXCEPT !.step = "poll", !.obj = reader.obj,
                                   !.last_seq = IF IsNew THEN reader.seq ELSE reader.last_seq])
  /\ object' = Posted(reader.obj)
  /\ emitted' = IF IsNew THEN reader.data.n ELSE emitted
  /\ UNCHANGED <<name, masterVars, handler, samples, overlapped, unlocked, faults>>

\* stop() is looked at between two polls: not while the thread waits for the semaphore.
ReaderStop ==
  /\ reader.step \in {"open", "poll"}
  /\ reader' = [Away EXCEPT !.step = "off"]
  /\ UNCHANGED <<object, name, masterVars, handler, ghostVars, faults>>

ReaderStep == \/ Open \/ MmapFails \/ Poll \/ BusError
              \/ ReaderWait \/ ReadSeq \/ ReadData \/ PostAndEmit

-----------------------------------------------------------------------------
\* Neither process cleans up; the object and its semaphore stay.  A reader
\* killed outside the semaphore and not waiting for it is one that stopped.
KillMaster ==
  /\ main # "down"
  /\ Fault
  /\ Ends
  /\ UNCHANGED <<object, name, reader, ghostVars>>

KillReader ==
  /\ reader.step \in {"wait", "seq", "data", "post"}
  /\ Fault
  /\ reader' = [Away EXCEPT !.step = "off"]
  /\ UNCHANGED <<object, name, masterVars, handler, ghostVars>>

TimerNext ==
  \/ ShmOpen \/ Stop \/ MainStep \/ InterruptedWait
  \/ \E h \in Handlers : Tick(h) \/ HandlerStep(h)
  \/ FaultAfterUnmap
  \/ ReaderStep
  \/ ReaderStop
  \/ KillMaster \/ KillReader

TimerSpec == TimerInit /\ [][TimerNext]_timerVars

(* Threads run, and a semaphore that is posted again and again does not     *)
(* pass over a waiter for ever (waiters are queued): strong fairness, for   *)
(* a thread is at one step at a time and only its wait is ever disabled.    *)
(* Nothing is assumed of starts, signals, ticks and kills.                  *)
FairTimerSpec ==
  /\ TimerSpec
  /\ SF_timerVars(MainStep)
  /\ \A h \in Handlers : SF_timerVars(HandlerStep(h))
  /\ SF_timerVars(ReaderStep)

-----------------------------------------------------------------------------
(* The reader never joins the number of one record to the data of another   *)
(* while the semaphore is one: main has not destroyed it under a thread the *)
(* timer left running, nor set it up again over the object of a master that *)
(* died, nor passed it on an interrupted sem_wait.                          *)
WholeRecords ==
  (~unlocked /\ reader.step = "post") =>
    reader.data.seq = reader.seq

(* The dashboard never goes back to an older sample as long as no two       *)
(* handler threads overlapped: neither at a restart of the master on the    *)
(* same object, whose number starts again over the old data, nor on a new   *)
(* object.                                                                  *)
NeverBackwards == [][~overlapped' => emitted' >= emitted]_timerVars

(* A sample in the record reaches the dashboard, or a later one does, if it *)
(* is not number 0: the reader that attached before it has taken the zeroed *)
(* record for number 0 already.                                             *)
SamplesReachDashboard ==
  \A n \in 2 .. MaxSamples :
    (/\ reader.obj # 0
     /\ object[reader.obj].data.n = n /\ object[reader.obj].data.seq # 0)
      ~> (emitted >= n \/ reader.step = "off" \/ overlapped \/ unlocked \/ faults > 0)

(* A stop ends the process, whatever handlers and the reader do.            *)
StopEnds == main = "wait" ~> (main = "down" \/ faults > 0)
=============================================================================
