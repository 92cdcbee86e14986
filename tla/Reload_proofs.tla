--------------------------- MODULE Reload_proofs ---------------------------
(***************************************************************************)
(* Between two reloads the hardware is what the configuration says, for    *)
(* every set of files, table of descriptors and number of edits, signals   *)
(* and kills.                                                              *)
(***************************************************************************)
EXTENDS Reload, MotorController_proofs

-----------------------------------------------------------------------------
(* Types.                                                                  *)

\* A pi tier the bus can be opened with.
Sound(pi) == DOMAIN pi = PiFields /\ Slot(pi) \in Slots /\ pi.dataready_pin \in 0 .. 27

Types == ReloadTypeOK /\ Sound(cfg_pi) /\ Sound(next.pi)

(* The defaults can be opened, whatever the size of the descriptor table.   *)
LEMMA DefaultsSound == Sound(PiDefaults) /\ StmDefaults \in Config
<1>1. DOMAIN PiDefaults = PiFields
  BY SMT DEF PiDefaults, PiFields
<1>2. Slot(PiDefaults) = <<0, 0>> /\ PiDefaults.dataready_pin = 17
  BY SMT DEF Slot, PiDefaults
<1>3. <<0, 0>> \in Slots
  BY ReloadAssumption, SMT DEF Slots
<1>4. StmDefaults \in Config
  BY DEF StmDefaults, Config, MOTOR_SOURCE_ADC, MOTOR_RUN_RUN
<1> QED  BY <1>1, <1>2, <1>3, <1>4, SMT DEF Sound

(* So can a file the loader accepts.                                        *)
LEMMA LoadedSound ==
  ASSUME NEW doc \in Docs \union {NoFile}, Usable(doc)
  PROVE  Sound(Loaded(doc).pi) /\ Loaded(doc).stm \in Config
<1>1. doc \in Docs /\ Accepted(doc)
  BY DEF Usable
<1> QED  BY <1>1, PiTierLoaded, LoadedIsConfig, ReloadAssumption DEF Sound

(* The initial states are well typed.                                       *)
LEMMA TypesInit == ReloadInit => Types
<1> SUFFICES ASSUME ReloadInit PROVE Types
  OBVIOUS
<1>1. ControllerTypeOK
  BY DefaultsSound, StartupType DEF ReloadInit
<1>2. Sound(cfg_pi) /\ Sound(next.pi) /\ next.stm \in Config
  BY DefaultsSound DEF ReloadInit, Defaults
<1>3. /\ file \in [doc: Docs \union {NoFile}, stamp: 1 .. MaxEdits + 1]
      /\ seen \in 0 .. MaxEdits + 1
      /\ faults \in 0 .. MaxFaults /\ restarts \in 0 .. MaxRestarts
      /\ tries \in 0 .. OpenTries - 1
  BY ReloadAssumption DEF ReloadInit
<1>4. watch \in [enabled: BOOLEAN, base: 0 .. MaxEdits + 1, first: BOOLEAN]
  <2>1. PICK w \in BOOLEAN : watch = [NoWatch EXCEPT !.enabled = w]
    BY DEF ReloadInit
  <2>2. watch = [enabled |-> w, base |-> 0, first |-> FALSE]
    BY <2>1 DEF NoWatch
  <2>3. 0 \in 0 .. MaxEdits + 1
    BY ReloadAssumption
  <2> QED  BY <2>2, <2>3
<1>5. spi_link \in [bus: 0 .. MAX_SPI_BUSES - 1, dev: 0 .. MAX_SPI_BUS_DEVICES - 1,
                    configured: BOOLEAN]
  BY ReloadAssumption DEF ReloadInit
<1>6. /\ spi_device_fd \in [Slots -> {"closed", "live", "stale"}]
      /\ driver \in {"up", "starting", "down"}
  BY DEF ReloadInit, AllClosed
<1>7. DOMAIN conf \in ConfFiles /\ DOMAIN wire = DOMAIN conf
  <2>1. PICK keys \in ConfFiles : conf = [k \in keys |-> Wanted(PiDefaults)[k]]
    BY DEF ReloadInit
  <2> QED  BY <2>1 DEF ReloadInit
<1>8. dr_line \in [pin: -1 .. 27, armed: SUBSET (0 .. 27)]
  BY DEF ReloadInit, NoPins
<1>9. g_reload \in BOOLEAN /\ stat_due \in BOOLEAN /\ boot \in BOOLEAN /\ pc \in Steps
  BY DEF ReloadInit, Steps
<1> QED  BY <1>1, <1>2, <1>3, <1>4, <1>5, <1>6, <1>7, <1>8, <1>9 DEF Types, ReloadTypeOK, Sound

(* Every step keeps the types: of the file and the counters, ...            *)
LEMMA CountersStep ==
  ASSUME ReloadTypeOK, [ReloadNext]_reloadVars
  PROVE  /\ (file \in [doc: Docs \union {NoFile}, stamp: 1 .. MaxEdits + 1])'
         /\ (seen \in 0 .. MaxEdits + 1)'
         /\ (faults \in 0 .. MaxFaults /\ restarts \in 0 .. MaxRestarts)'
<1> USE ReloadAssumption DEF ReloadTypeOK
<1>1. CASE Edit
  <2>1. PICK d \in Docs \union {NoFile} : file' = [doc |-> d, stamp |-> file.stamp + 1]
    BY <1>1 DEF Edit
  <2>2. file.stamp + 1 \in 1 .. MaxEdits + 1
    BY <1>1 DEF Edit
  <2> QED  BY <1>1, <2>1, <2>2 DEF Edit
<1>2. CASE Load
  BY <1>2 DEF Load
<1>3. CASE Restart
  BY <1>3 DEF Restart, Fault, fileVars
<1>4. CASE UNCHANGED <<fileVars, restarts>> /\ (Fault \/ UNCHANGED faults)
  BY <1>4 DEF fileVars, Fault
<1>5. \/ Edit \/ Load \/ Restart
      \/ UNCHANGED <<fileVars, restarts>> /\ (Fault \/ UNCHANGED faults)
  BY DEF ReloadNext, Program, reloadVars, Poll, KeepBus, CloseBus, Slay, Respawn, OpenBus, Adopt,
         ArmPin, NoDataready, Sync, Exchange, ExchangeFails, NoExchange, Sighup, Second, DriverUp
<1> QED  BY <1>1, <1>2, <1>3, <1>4, <1>5

(* ... of the signals, the watch and the place in the loop, ...             *)
LEMMA ControlStep ==
  ASSUME ReloadTypeOK, [ReloadNext]_reloadVars
  PROVE  /\ (g_reload \in BOOLEAN /\ stat_due \in BOOLEAN /\ boot \in BOOLEAN)'
         /\ (watch \in [enabled: BOOLEAN, base: 0 .. MaxEdits + 1, first: BOOLEAN])'
         /\ (pc \in Steps)'
<1> USE DEF ReloadTypeOK
<1>1. /\ g_reload' \in BOOLEAN /\ stat_due' \in BOOLEAN /\ boot' \in BOOLEAN
  BY DEF ReloadNext, Program, reloadVars, signalVars, Poll, Load, KeepBus, CloseBus, Slay, Respawn, OpenBus,
         Adopt, NoDataready, Sync, Exchange, ExchangeFails, NoExchange, Edit, Sighup, Second,
         DriverUp, Restart
<1>2. pc' \in Steps
  BY DEF ReloadNext, Program, reloadVars, Poll, Load, KeepBus, CloseBus, Slay, Respawn, OpenBus,
         Adopt, NoDataready, Sync, Exchange, ExchangeFails, NoExchange, Edit, Sighup, Second,
         DriverUp, Restart, Goto, Steps
<1>3. watch' \in [enabled: BOOLEAN, base: 0 .. MaxEdits + 1, first: BOOLEAN]
  <2>1. file.stamp \in 0 .. MaxEdits + 1 /\ 0 \in 0 .. MaxEdits + 1
    BY ReloadAssumption
  <2>2. CASE Poll
    BY <2>1, <2>2 DEF Poll
  <2>3. CASE Load
    BY <2>3 DEF Load, Usable
  <2>4. CASE Sync
    BY <2>1, <2>4 DEF Sync, Synced
  <2>5. CASE Restart
    <3>1. watch' = [enabled |-> watch.enabled, base |-> 0, first |-> FALSE]
      BY <2>5 DEF Restart, NoWatch
    <3> QED  BY <2>1, <3>1
  <2>6. CASE UNCHANGED watch
    BY <2>6
  <2>7. Poll \/ Load \/ Sync \/ Restart \/ UNCHANGED watch
    BY DEF ReloadNext, Program, reloadVars, KeepBus, CloseBus, Slay, Respawn, OpenBus,
           Adopt, NoDataready, Exchange, ExchangeFails, NoExchange, Edit, Sighup, Second, DriverUp
  <2> QED  BY <2>2, <2>3, <2>4, <2>5, <2>6, <2>7
<1> QED  BY <1>1, <1>2, <1>3

(* ... of the configuration a step has to reach and of the one it has, ...  *)
LEMMA ConfigStep ==
  ASSUME Types, [ReloadNext]_reloadVars
  PROVE  /\ ControllerTypeOK'
         /\ Sound(cfg_pi)' /\ Sound(next.pi)' /\ (next.stm \in Config)'
<1> USE DEF Types, ReloadTypeOK
<1>1. CASE Load
  <2>1. ControllerTypeOK' /\ cfg_pi' = cfg_pi
    BY <1>1 DEF Load, piVars, ControllerTypeOK
  <2>2. CASE next' = Loaded(file.doc) /\ Usable(file.doc)
    BY <2>1, <2>2, LoadedSound DEF Sound
  <2>3. CASE next' = Defaults \/ next' = next
    BY <2>1, <2>3, DefaultsSound DEF Defaults, Sound
  <2> QED  BY <1>1, <2>2, <2>3 DEF Load
<1>2. CASE Adopt
  <2>1. ControllerTypeOK'
    BY <1>2, StartupType, ReloadType DEF Adopt
  <2> QED  BY <1>2, <2>1 DEF Adopt, Sound
<1>3. CASE Restart
  <2>1. ControllerTypeOK' /\ next' = Defaults /\ cfg_pi' = PiDefaults
    BY <1>3 DEF Restart, piVars, ControllerTypeOK
  <2> QED  BY <2>1, DefaultsSound DEF Defaults, Sound
<1>4. CASE UNCHANGED <<next, cfg_pi>> /\ (UNCHANGED piVars \/ \E f : Receive(f))
  <2>1. ControllerTypeOK'
    BY <1>4, ReceiveType DEF piVars, ControllerTypeOK
  <2> QED  BY <1>4, <2>1 DEF Sound
<1>5. \/ Load \/ Adopt \/ Restart
      \/ UNCHANGED <<next, cfg_pi>> /\ (UNCHANGED piVars \/ \E f : Receive(f))
  BY DEF ReloadNext, Program, reloadVars, Poll, KeepBus, CloseBus, Slay, Respawn, OpenBus,
         NoDataready, Sync, Exchange, ExchangeFails, NoExchange, Edit, Sighup, Second, DriverUp
<1> QED  BY <1>1, <1>2, <1>3, <1>4, <1>5

(* ... of the bus and of the line.                                          *)
LEMMA BusStep ==
  ASSUME Types, [ReloadNext]_reloadVars
  PROVE  /\ (tries \in 0 .. OpenTries - 1)'
         /\ (spi_link \in [bus: 0 .. MAX_SPI_BUSES - 1, dev: 0 .. MAX_SPI_BUS_DEVICES - 1,
                           configured: BOOLEAN])'
         /\ (spi_device_fd \in [Slots -> {"closed", "live", "stale"}])'
<1> USE DEF Types, ReloadTypeOK
<1>1. /\ Slot(next.pi) \in Slots /\ next.pi.spi_bus \in 0 .. MAX_SPI_BUSES - 1
      /\ next.pi.spi_dev \in 0 .. MAX_SPI_BUS_DEVICES - 1
      /\ Slot(cfg_pi) \in Slots
  BY SMT DEF Sound, Slots, Slot
<1>2. <<spi_link.bus, spi_link.dev>> \in Slots
  BY SMT DEF Slots
<1>3. \A slot \in Slots : WithOpen(slot) \in [Slots -> {"closed", "live", "stale"}]
  BY DEF WithOpen
<1>4. ClosedLink \in [Slots -> {"closed", "live", "stale"}]
  BY <1>2 DEF ClosedLink
<1>5. AllClosed \in [Slots -> {"closed", "live", "stale"}]
  BY DEF AllClosed
<1>6. spi_device_fd' \in [Slots -> {"closed", "live", "stale"}]
  BY <1>1, <1>3, <1>4, <1>5
  DEF ReloadNext, Program, reloadVars, busVars, Poll, Load, KeepBus, CloseBus, Slay, Respawn,
      OpenBus, Adopt, NoDataready, Sync, Exchange, ExchangeFails, NoExchange, Edit, Sighup,
      Second, DriverUp, Restart
<1>7. tries' \in 0 .. OpenTries - 1
  BY ReloadAssumption
  DEF ReloadNext, Program, reloadVars, busVars, Poll, Load, KeepBus, CloseBus, Slay, Respawn,
      OpenBus, Adopt, NoDataready, Sync, Exchange, ExchangeFails, NoExchange, Edit, Sighup,
      Second, DriverUp, Restart
<1>8. spi_link' \in [bus: 0 .. MAX_SPI_BUSES - 1, dev: 0 .. MAX_SPI_BUS_DEVICES - 1,
                     configured: BOOLEAN]
  <2>1. CASE OpenBus
    <3>1. CASE spi_link' = [bus |-> next.pi.spi_bus, dev |-> next.pi.spi_dev, configured |-> TRUE]
      BY <1>1, <3>1
    <3>2. CASE spi_link' = [spi_link EXCEPT !.configured = FALSE]
      BY <3>2
    <3> QED  BY <2>1, <3>1, <3>2 DEF OpenBus
  <2>2. CASE Restart
    BY <2>2, ReloadAssumption DEF Restart
  <2>3. CASE spi_link' = [spi_link EXCEPT !.configured = FALSE] \/ UNCHANGED spi_link
    BY <2>3
  <2>4. \/ OpenBus \/ Restart
        \/ spi_link' = [spi_link EXCEPT !.configured = FALSE] \/ UNCHANGED spi_link
    BY DEF ReloadNext, Program, reloadVars, busVars, Poll, Load, KeepBus, CloseBus, Slay, Respawn,
           Adopt, NoDataready, Sync, Exchange, ExchangeFails, NoExchange, Edit, Sighup, Second,
           DriverUp
  <2> QED  BY <2>1, <2>2, <2>3, <2>4
<1> QED  BY <1>6, <1>7, <1>8

(* Stopping and starting the driver keeps the types.                        *)
LEMMA DriverStep ==
  ASSUME Types, [ReloadNext]_reloadVars
  PROVE  /\ (DOMAIN conf \in ConfFiles /\ DOMAIN wire = DOMAIN conf)'
         /\ (driver \in {"up", "starting", "down"})'
         /\ (dr_line \in [pin: -1 .. 27, armed: SUBSET (0 .. 27)])'
<1> USE DEF Types, ReloadTypeOK
<1>1. DOMAIN conf' = DOMAIN conf /\ DOMAIN wire' = DOMAIN conf
  BY DEF ReloadNext, Program, reloadVars, busVars, Poll, Load, KeepBus, CloseBus, Slay, Respawn,
         OpenBus, Adopt, NoDataready, Sync, Exchange, ExchangeFails, NoExchange, Edit, Sighup,
         Second, DriverUp, Restart
<1>2. driver' \in {"up", "starting", "down"}
  BY DEF ReloadNext, Program, reloadVars, busVars, Poll, Load, KeepBus, CloseBus, Slay, Respawn,
         OpenBus, Adopt, NoDataready, Sync, Exchange, ExchangeFails, NoExchange, Edit, Sighup,
         Second, DriverUp, Restart
<1>3. dr_line' \in [pin: -1 .. 27, armed: SUBSET (0 .. 27)]
  <2>1. CASE Adopt
    <3>1. next.pi.dataready_pin \in 0 .. 27
      BY DEF Sound
    <3> QED  BY <2>1, <3>1 DEF Adopt, ArmPin
  <2>2. CASE dr_line' = NoPins \/ UNCHANGED dr_line
    BY <2>2 DEF NoPins
  <2>3. Adopt \/ dr_line' = NoPins \/ UNCHANGED dr_line
    BY DEF ReloadNext, Program, reloadVars, busVars, Poll, Load, KeepBus, CloseBus, Slay, Respawn,
           OpenBus, NoDataready, Sync, Exchange, ExchangeFails, NoExchange, Edit, Sighup, Second,
           DriverUp, Restart
  <2> QED  BY <2>1, <2>2, <2>3
<1> QED  BY <1>1, <1>2, <1>3

(* Every step of the program and of its surroundings keeps the types.       *)
LEMMA TypesStep == Types /\ [ReloadNext]_reloadVars => Types'
BY CountersStep, ControlStep, ConfigStep, BusStep, DriverStep DEF Types, ReloadTypeOK, Sound

(* The state of the process, the bus and the driver stay within their types *)
(* whatever is edited, signalled, broken and killed.  In particular the pin *)
(* is always one of the header's, which dataready_arm_pin does not test;    *)
(* that the device is one of the descriptor table's rests on the assumption *)
(* about the files, as the loader accepts two buses more.                   *)
THEOREM ReloadTypeCorrect == ReloadSpec => []ReloadTypeOK
<1>1. Types => ReloadTypeOK
  BY DEF Types
<1> QED  BY <1>1, TypesInit, TypesStep, PTL DEF ReloadSpec

-----------------------------------------------------------------------------
(* The hardware.                                                           *)

\* spi.conf, as rewritten for this tier.
Tuned(pi) == \A k \in DOMAIN conf : conf[k] = Wanted(pi)[k]

\* Exactly this tier's device is open, on the driver that runs.
Opened(pi) ==
  /\ spi_device_fd = [s \in Slots |-> IF s = Slot(pi) THEN "live" ELSE "closed"]
  /\ spi_link = [bus |-> pi.spi_bus, dev |-> pi.spi_dev, configured |-> TRUE]

Closed == spi_device_fd = AllClosed /\ ~spi_link.configured

\* The loop reads a pin that is subscribed.
Listening(pi) == dr_line.pin = pi.dataready_pin /\ dr_line.pin \in dr_line.armed

Bouncing == pc \in {"slay", "respawn"}
Running  == ~boot /\ pc \in {"poll", "load", "close", "exchange"}

(* What holds at each step of a life in which nothing failed: the config a  *)
(* step has still to reach is next up to the adoption, and cfg after it.    *)
Following ==
  /\ pc # "exit"
  /\ boot => pc \notin {"poll", "exchange"}
  /\ ~Bouncing => driver = "up" /\ wire = conf
  /\ driver # "starting"
  /\ Running => Tuned(cfg_pi) /\ Opened(cfg_pi)
  /\ ~boot \/ pc = "sync" => Listening(cfg_pi)
  /\ boot /\ pc \in {"load", "close"} => Closed
  /\ Bouncing \/ pc = "open" => Tuned(next.pi) /\ Closed
  /\ pc = "pin" => Tuned(next.pi) /\ Opened(next.pi)
  /\ pc = "sync" => Tuned(cfg_pi) /\ Opened(cfg_pi)

FollowsInv == faults = 0 => Following

(* A start finds a driver that is up on the spi.conf of the last process.   *)
LEMMA FollowingInit == ReloadInit => FollowsInv
BY DefaultsSound DEF ReloadInit, FollowsInv, Following, Running, Bouncing, Closed, Defaults

(* Faults are counted, never forgotten.                                     *)
LEMMA NoFaultSoFar ==
  ASSUME Types, [ReloadNext]_reloadVars, faults' = 0
  PROVE  faults = 0 /\ ~Fault
<1>1. faults \in Nat
  BY ReloadAssumption DEF Types, ReloadTypeOK
<1>2. ~Fault
  BY <1>1 DEF Fault
<1>3. UNCHANGED faults
  BY <1>2 DEF ReloadNext, Program, reloadVars, Poll, Load, KeepBus, CloseBus, Slay, Respawn,
      OpenBus, Adopt, ArmPin, NoDataready, Sync, Exchange, ExchangeFails, NoExchange, Edit,
      Sighup, Second, DriverUp, Restart
<1> QED  BY <1>2, <1>3

(* The main loop and the load leave the hardware alone.                     *)
LEMMA LoopFollows ==
  ASSUME Types, Following, Poll \/ Load
  PROVE  Following'
<1> USE DEF Following, Running, Bouncing, Tuned, Opened, Closed, Listening, Goto, busVars
<1>1. CASE Poll
  BY <1>1 DEF Poll
<1>2. CASE Load
  BY <1>2 DEF Load
<1> QED  BY <1>1, <1>2

(* Two tiers that do not differ on the wire ask for the same bus.           *)
LEMMA SameWire ==
  ASSUME NEW a, NEW b, ~WireDiffers(a, b)
  PROVE  Wanted(a) = Wanted(b) /\ Slot(a) = Slot(b) /\ a.spi_bus = b.spi_bus /\ a.spi_dev = b.spi_dev
BY DEF WireDiffers, WireFields, Wanted, Slot

(* A reload that keeps the bus has reached its config already.              *)
LEMMA KeepBusFollows ==
  ASSUME Types, Following, KeepBus
  PROVE  Following'
<1>1. ~boot /\ pc = "close" /\ pc' = "pin" /\ ~WireDiffers(next.pi, cfg_pi)
  BY DEF KeepBus, BusChanged, Goto
<1>2. Tuned(cfg_pi) /\ Opened(cfg_pi) /\ Listening(cfg_pi) /\ driver = "up" /\ wire = conf
  BY <1>1 DEF Following, Running, Bouncing
<1>3. Tuned(next.pi) /\ Opened(next.pi)
  BY <1>1, <1>2, SameWire DEF Tuned, Opened
<1>4. UNCHANGED <<boot, next, cfg_pi, busVars, dr_line>>
  BY DEF KeepBus
<1> QED
  BY <1>1, <1>2, <1>3, <1>4 DEF Following, Running, Bouncing, Tuned, Opened, Listening, busVars

(* close_spi closes what is open, and spi.conf is this tier's afterwards.   *)
LEMMA CloseBusFollows ==
  ASSUME Types, Following, ~Fault, CloseBus
  PROVE  Following'
<1>1. pc = "close" /\ pc' \in {"slay", "open"}
  BY DEF CloseBus, Goto
<1>2. driver = "up" /\ wire = conf /\ (~boot => Listening(cfg_pi))
  BY <1>1 DEF Following, Bouncing
<1>3. ClosedLink = AllClosed
  <2>1. CASE boot
    BY <1>1, <2>1 DEF Following, Closed, ClosedLink
  <2>2. CASE ~boot
    <3>1. Opened(cfg_pi)
      BY <1>1, <2>2 DEF Following, Running
    <3>2. spi_link.configured /\ <<spi_link.bus, spi_link.dev>> = Slot(cfg_pi)
      BY <3>1 DEF Opened, Slot
    <3> QED  BY <3>1, <3>2 DEF Opened, ClosedLink, AllClosed
  <2> QED  BY <2>1, <2>2
<1>4. Closed'
  BY <1>3 DEF CloseBus, Closed, AllClosed, Types, ReloadTypeOK
<1>5. Tuned(next.pi)' /\ (pc' # "slay" => conf' = conf)
  <2>1. CASE ConfDiffers
    BY <2>1 DEF CloseBus, Tuned, Goto
  <2>2. CASE ~ConfDiffers
    <3>1. DOMAIN conf \subseteq SpiConfKeys
      BY ReloadAssumption DEF Types, ReloadTypeOK
    <3>2. Tuned(next.pi)
      BY <2>2, <3>1 DEF ConfDiffers, Tuned
    <3> QED  BY <2>2, <3>2 DEF CloseBus, Tuned, Goto
  <2> QED  BY <2>1, <2>2
<1>6. UNCHANGED <<boot, next, cfg_pi, dr_line, driver, wire>>
  BY DEF CloseBus
<1> QED
  BY <1>1, <1>2, <1>4, <1>5, <1>6 DEF Following, Running, Bouncing, Listening

(* The bounce takes no descriptor with it, and the driver that comes back   *)
(* reads the new spi.conf.                                                  *)
LEMMA BounceFollows ==
  ASSUME Types, Following, ~Fault, Slay \/ Respawn \/ DriverUp
  PROVE  Following'
<1> USE DEF Following, Running, Bouncing, Tuned, Closed, Listening, Goto
<1>1. CASE Slay
  <2>1. Closed'
    BY <1>1 DEF Slay, AllClosed
  <2> QED  BY <1>1, <2>1 DEF Slay
<1>2. CASE Respawn
  BY <1>2 DEF Respawn
<1>3. ~DriverUp
  BY DEF DriverUp
<1> QED  BY <1>1, <1>2, <1>3

(* open_spi opens the device at the first try, and no other is open.        *)
LEMMA OpenFollows ==
  ASSUME Types, Following, OpenBus
  PROVE  Following'
<1>1. pc = "open" /\ Tuned(next.pi) /\ Closed /\ driver = "up" /\ wire = conf
      /\ (~boot => Listening(cfg_pi))
  BY DEF OpenBus, Goto, Following, Bouncing
<1>2. Slot(next.pi) \in Slots
  BY DEF Types, Sound
<1>3. spi_device_fd' = [s \in Slots |-> IF s = Slot(next.pi) THEN "live" ELSE "closed"]
  BY <1>1, <1>2 DEF OpenBus, WithOpen, Closed, AllClosed
<1>4. pc' = "pin" /\ Opened(next.pi)'
  BY <1>2, <1>3 DEF OpenBus, Goto, Opened
<1>5. UNCHANGED <<boot, next, cfg_pi, conf, driver, wire, dr_line>>
  BY DEF OpenBus
<1> QED
  BY <1>1, <1>4, <1>5 DEF Following, Running, Bouncing, Tuned, Listening

(* The adoption makes next the config, once the pin is this tier's.         *)
LEMMA AdoptFollows ==
  ASSUME Types, Following, ~Fault, Adopt \/ Sync
  PROVE  Following'
<1>1. CASE Adopt
  <2>1. pc = "pin" /\ pc' = "sync" /\ cfg_pi' = next.pi /\ UNCHANGED <<boot, next, busVars>>
    BY <1>1 DEF Adopt, Goto
  <2>2. Tuned(next.pi) /\ Opened(next.pi) /\ driver = "up" /\ wire = conf
        /\ (~boot => Listening(cfg_pi))
    BY <2>1 DEF Following, Bouncing
  <2>3. Listening(cfg_pi)'
    <3>1. CASE PinChanged
      BY <1>1, <2>1, <3>1 DEF Adopt, ArmPin, Listening
    <3>2. CASE ~PinChanged
      BY <1>1, <2>1, <2>2, <3>2 DEF Adopt, ArmPin, PinChanged, Listening
    <3> QED  BY <3>1, <3>2
  <2> QED
    BY <2>1, <2>2, <2>3 DEF Following, Running, Bouncing, Tuned, Opened, busVars
<1>2. CASE Sync
  BY <1>2 DEF Sync, Goto, Following, Running, Bouncing, Tuned, Opened, Closed, Listening, busVars
<1> QED  BY <1>1, <1>2

(* An exchange finds the device open, and opens nothing.                    *)
LEMMA ExchangeFollows ==
  ASSUME Types, Following, NEW f, Exchange(f) \/ ExchangeFails \/ NoExchange
  PROVE  Following'
<1>1. pc = "exchange" /\ pc' = "poll"
  BY DEF Exchange, ExchangeFails, NoExchange, Goto
<1>2. ~boot /\ Opened(cfg_pi) /\ Slot(cfg_pi) \in Slots
  BY <1>1 DEF Following, Running, Types, Sound
<1>3. WithOpen(Slot(cfg_pi)) = spi_device_fd
  BY <1>2 DEF Opened, WithOpen
<1>4. UNCHANGED <<boot, next, cfg_pi, spi_device_fd, spi_link, conf, driver, wire, dr_line>>
  BY <1>3 DEF Exchange, ExchangeFails, NoExchange, busVars
<1> QED
  BY <1>1, <1>2, <1>4 DEF Following, Running, Bouncing, Tuned, Opened, Listening

(* A new process has nothing open, and finds the driver up unless the old   *)
(* one died in the middle of a bounce.                                      *)
LEMMA RestartFollows ==
  ASSUME Types, Following, ~Fault, Restart
  PROVE  Following'
<1>1. ~Bouncing
  BY DEF Restart, Bouncing
<1>2. driver = "up" /\ wire = conf
  BY <1>1 DEF Following
<1>3. Closed' /\ pc' = "load" /\ boot' /\ UNCHANGED <<conf, driver, wire>>
  BY DEF Restart, Closed, AllClosed
<1> QED
  BY <1>2, <1>3 DEF Following, Running, Bouncing

(* Editors, signals and the clock touch none of it.                         *)
LEMMA OutsideFollows ==
  ASSUME Following, Edit \/ Sighup \/ Second \/ UNCHANGED reloadVars
  PROVE  Following'
<1>1. UNCHANGED <<pc, boot, next, cfg_pi, busVars, dr_line>>
  BY DEF Edit, Sighup, Second, reloadVars
<1> QED
  BY <1>1 DEF Following, Running, Bouncing, Tuned, Opened, Closed, Listening, busVars

(* As long as nothing failed, no step parts the hardware from the config.   *)
LEMMA FollowingStep == Types /\ FollowsInv /\ [ReloadNext]_reloadVars => FollowsInv'
<1> SUFFICES ASSUME Types, FollowsInv, [ReloadNext]_reloadVars, faults' = 0
             PROVE  Following'
  BY DEF FollowsInv
<1>1. Following /\ ~Fault
  BY NoFaultSoFar DEF FollowsInv
<1>2. ~NoDataready
  BY <1>1 DEF NoDataready
<1> QED
  BY <1>1, <1>2, LoopFollows, KeepBusFollows, CloseBusFollows, BounceFollows, OpenFollows,
     AdoptFollows, ExchangeFollows, RestartFollows, OutsideFollows DEF ReloadNext, Program

(* As long as no step failed and no bounce was cut in two, between reloads  *)
(* the driver runs with the spi.conf of the config, exactly its device is   *)
(* open on that driver, and its pin is the one subscribed, whatever files,  *)
(* signals and kills came before (handle_reload, spi_apply_conf, close_spi).*)
THEOREM HardwareIsConfig == ReloadSpec => []HardwareFollowsConfig
<1>1. Types /\ FollowsInv => HardwareFollowsConfig
  <2> SUFFICES ASSUME Types, Following, Working PROVE
      /\ driver = "up"
      /\ \A k \in DOMAIN wire : wire[k] = Wanted(cfg_pi)[k]
      /\ \A s \in Slots : spi_device_fd[s] = (IF s = Slot(cfg_pi) THEN "live" ELSE "closed")
      /\ dr_line.pin = cfg_pi.dataready_pin /\ dr_line.pin \in dr_line.armed
    BY DEF FollowsInv, HardwareFollowsConfig
  <2>1. ~boot /\ Running /\ ~Bouncing
    BY DEF Following, Working, Running, Bouncing
  <2> QED  BY <2>1 DEF Following, Tuned, Opened, Listening
<1> QED
  BY <1>1, TypesInit, TypesStep, FollowingInit, FollowingStep, PTL DEF ReloadSpec
=============================================================================
