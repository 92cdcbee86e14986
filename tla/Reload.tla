------------------------------- MODULE Reload -------------------------------
(***************************************************************************)
(* giga_spi/motor_controller.c: the life of a configuration, from the file *)
(* to the hardware.  The main loop notices an edit (file watch) or a       *)
(* SIGHUP, loads the file, closes the SPI device, rewrites spi.conf,       *)
(* restarts the spi-dwc driver, reopens, moves the data-ready pin, adopts  *)
(* the config and queues the stm tier as a SET_CONFIG.  The start of the   *)
(* program takes the same steps.  The steps are cut where another process  *)
(* can come between: the editor of the file, the driver, a signal, a kill. *)
(* The baseline of the frame numbers, which a reopened bus drops too, is   *)
(* the subject of SeqAccount; the STM32 is reduced to frames that may say  *)
(* anything.                                                               *)
(***************************************************************************)
EXTENDS MotorController, ConfigFile

CONSTANTS
  Docs,                \* the documents an editor may save
  NoFile,              \* the file is absent, as in the middle of a swap
  MAX_SPI_BUSES,       \* the descriptor table of rpi_spi.c (6 and 10)
  MAX_SPI_BUS_DEVICES,
  ConfFiles,           \* the sets of keys an spi.conf may have
  FrameRows,           \* the row counts of the frames that come in
  OpenTries,           \* tries of open_spi after a bounce (5 in the code)
  MaxEdits,            \* bound on the versions of the file
  MaxFaults,           \* bound on failing steps and interrupted bounces
  MaxRestarts          \* bound on kills of the controller

VARIABLES
  file,       \* its content and a stamp for mtime and size
  g_reload,   \* SIGHUP came since it was last asked
  stat_due,   \* a second passed since the last stat
  watch,      \* cfg_watch_t; base is the stamp, 0 for no baseline
  pc, boot,   \* where the process is, and whether still in its start
  next,       \* the config being applied
  cfg_pi,     \* cfg.pi
  tries,
  spi_link,   \* spi_link_t
  spi_device_fd,   \* "closed", "live", or "stale": opened on a driver slain since
  conf,       \* spi.conf
  driver, wire,    \* spi-dwc, and the spi.conf it read when it came up
  dr_line,    \* dataready_t.pin and the pins with an edge subscription
  seen,       \* ghost: the stamp of the version loaded last
  faults, restarts

fileVars   == <<file, seen>>
signalVars == <<g_reload, stat_due>>
busVars    == <<tries, spi_link, spi_device_fd, conf, driver, wire>>
reloadVars == <<fileVars, signalVars, watch, pc, boot, next, cfg_pi, busVars, dr_line, piVars,
                faults, restarts>>

Slots == (0 .. MAX_SPI_BUSES - 1) \X (0 .. MAX_SPI_BUS_DEVICES - 1)
Slot(pi) == <<pi.spi_bus, pi.spi_dev>>
AllClosed == [s \in Slots |-> "closed"]

Usable(doc) == doc # NoFile /\ Accepted(doc)

\* The pairs of spi_apply_conf.
Wanted(pi) == [clock_rate  |-> pi.spi_clock_hz, cpha        |-> pi.spi_cpha,
               word_width  |-> pi.spi_word_width, idle_insert |-> pi.spi_idle_insert]

SpiConfKeys == DOMAIN Wanted(PiDefaults)

ASSUME ReloadAssumption ==
  /\ NoFile \notin Docs
  /\ \A keys \in ConfFiles : keys \subseteq SpiConfKeys
  /\ MaxEdits \in Nat /\ MaxFaults \in Nat /\ MaxRestarts \in Nat
  /\ OpenTries \in Nat \ {0}
  /\ MAX_SPI_BUSES \in Nat \ {0} /\ MAX_SPI_BUS_DEVICES \in Nat \ {0}
  /\ \A d \in Docs : Accepted(d) => Slot(Loaded(d).pi) \in Slots

NoPins == [pin |-> -1, armed |-> {}]
NoWatch == [enabled |-> FALSE, base |-> 0, first |-> FALSE]

Steps == {"poll", "load", "close", "slay", "respawn", "open", "pin", "sync", "exchange", "exit"}

ReloadTypeOK ==
  /\ ControllerTypeOK
  /\ file \in [doc: Docs \union {NoFile}, stamp: 1 .. MaxEdits + 1]
  /\ seen \in 0 .. MaxEdits + 1
  /\ g_reload \in BOOLEAN /\ stat_due \in BOOLEAN /\ boot \in BOOLEAN
  /\ watch \in [enabled: BOOLEAN, base: 0 .. MaxEdits + 1, first: BOOLEAN]
  /\ pc \in Steps
  /\ DOMAIN cfg_pi = PiFields /\ DOMAIN next.pi = PiFields /\ next.stm \in Config
  /\ tries \in 0 .. OpenTries - 1
  /\ spi_link \in [bus: 0 .. MAX_SPI_BUSES - 1, dev: 0 .. MAX_SPI_BUS_DEVICES - 1,
                   configured: BOOLEAN]
  /\ spi_device_fd \in [Slots -> {"closed", "live", "stale"}]
  /\ DOMAIN conf \in ConfFiles /\ DOMAIN wire = DOMAIN conf
  /\ driver \in {"up", "starting", "down"}
  /\ dr_line \in [pin: -1 .. 27, armed: SUBSET (0 .. 27)]
  /\ faults \in 0 .. MaxFaults /\ restarts \in 0 .. MaxRestarts

ReloadInit ==
  /\ \E d \in Docs \union {NoFile} : file = [doc |-> d, stamp |-> 1]
  /\ seen = 0
  /\ g_reload = FALSE
  /\ stat_due = TRUE
  /\ \E w \in BOOLEAN : watch = [NoWatch EXCEPT !.enabled = w]
  /\ pc = "load"
  /\ boot = TRUE
  /\ next = Defaults
  /\ cfg_pi = PiDefaults
  /\ tries = 0
  /\ spi_link = [bus |-> 0, dev |-> 0, configured |-> FALSE]
  /\ spi_device_fd = AllClosed
  /\ \E keys \in ConfFiles : conf = [k \in keys |-> Wanted(PiDefaults)[k]]
  /\ driver = "up"
  /\ wire = conf
  /\ dr_line = NoPins
  /\ ControllerInit(StmDefaults)
  /\ faults = 0
  /\ restarts = 0

Fault == faults < MaxFaults /\ faults' = faults + 1

Goto(from, to) == pc = from /\ pc' = to

-----------------------------------------------------------------------------
(* The main loop, up to the reload.                                        *)

Statted == watch.enabled /\ stat_due /\ file.doc # NoFile

\* Mutant: the first look at the file never triggers.
FiredOnChangeOnly == Statted /\ watch.base # 0 /\ watch.base # file.stamp

\* cfg_watch_fired; without a baseline only a start on defaults triggers.
Fired == Statted /\ IF watch.base = 0 THEN watch.first ELSE watch.base # file.stamp

Poll ==
  /\ Goto("poll", IF g_reload \/ Fired THEN "load" ELSE "exchange")
  /\ g_reload' = FALSE
  /\ stat_due' = FALSE
  /\ watch' = IF Statted
              THEN [watch EXCEPT !.base = file.stamp, !.first = @ /\ watch.base # 0]
              ELSE watch
  /\ UNCHANGED <<fileVars, boot, next, cfg_pi, busVars, dr_line, piVars, faults, restarts>>

\* config_load_file; the start falls back to the defaults, a reload is over.
Load ==
  /\ Goto("load", IF boot \/ Usable(file.doc) THEN "close" ELSE "exchange")
  /\ next' = IF Usable(file.doc) THEN Loaded(file.doc) ELSE IF boot THEN Defaults ELSE next
  /\ seen' = file.stamp
  /\ watch' = [watch EXCEPT !.first = IF boot THEN ~Usable(file.doc) ELSE @]
  /\ UNCHANGED <<file, signalVars, boot, cfg_pi, busVars, dr_line, piVars, faults, restarts>>

-----------------------------------------------------------------------------
(* The bus.                                                                *)

\* Mutant: the target of the reload is closed, not the device opened.
ClosedTarget ==
  IF spi_link.configured THEN [spi_device_fd EXCEPT ![Slot(next.pi)] = "closed"]
  ELSE spi_device_fd

\* close_spi: the device open_spi succeeded on last, and only that.
ClosedLink ==
  IF spi_link.configured
  THEN [spi_device_fd EXCEPT ![<<spi_link.bus, spi_link.dev>>] = "closed"]
  ELSE spi_device_fd

\* A key spi.conf does not have counts as different, and is not added.
ConfDiffers ==
  \E k \in SpiConfKeys : k \in DOMAIN conf => conf[k] # Wanted(next.pi)[k]

BusChanged == boot \/ WireDiffers(next.pi, cfg_pi)

KeepBus ==
  /\ ~BusChanged
  /\ Goto("close", "pin")
  /\ UNCHANGED <<fileVars, signalVars, watch, boot, next, cfg_pi, busVars, dr_line, piVars,
                 faults, restarts>>

\* close_spi and the first half of spi_apply_conf.
CloseBus ==
  /\ BusChanged
  /\ spi_device_fd' = ClosedLink
  /\ spi_link' = [spi_link EXCEPT !.configured = FALSE]
  /\ \/ ~ConfDiffers /\ Goto("close", "open") /\ UNCHANGED <<conf, faults>>
     \/ /\ ConfDiffers
        /\ Goto("close", "slay")
        /\ conf' = [k \in DOMAIN conf |-> Wanted(next.pi)[k]]
        /\ UNCHANGED faults
     \/ ConfDiffers /\ Goto("close", "open") /\ Fault /\ UNCHANGED conf
  /\ UNCHANGED <<fileVars, signalVars, watch, boot, next, cfg_pi, tries, driver, wire, dr_line,
                 piVars, restarts>>

\* bounce_spi_dwc, in two: `slay` ...
Slay ==
  /\ Goto("slay", "respawn")
  /\ driver' = "down"
  /\ spi_device_fd' = [s \in Slots |-> IF spi_device_fd[s] = "live" THEN "stale"
                                       ELSE spi_device_fd[s]]
  /\ UNCHANGED <<fileVars, signalVars, watch, boot, next, cfg_pi, tries, spi_link, conf, wire,
                 dr_line, piVars, faults, restarts>>

\* ... and the new instance, which may need more than the second it is given,
\* or not come up at all.
Respawn ==
  /\ Goto("respawn", "open")
  /\ \/ driver' = "up" /\ wire' = conf /\ UNCHANGED faults
     \/ Fault /\ driver' \in {"starting", "down"} /\ UNCHANGED wire
  /\ UNCHANGED <<fileVars, signalVars, watch, boot, next, cfg_pi, tries, spi_link,
                 spi_device_fd, conf, dr_line, piVars, restarts>>

DriverUp ==
  /\ driver = "starting"
  /\ driver' = "up"
  /\ wire' = conf
  /\ UNCHANGED <<fileVars, signalVars, watch, pc, boot, next, cfg_pi, tries, spi_link,
                 spi_device_fd, conf, dr_line, piVars, faults, restarts>>

\* open_spi_device_fd: nothing is opened where the table has a descriptor.
WithOpen(slot) ==
  IF spi_device_fd[slot] = "closed" /\ driver = "up"
  THEN [spi_device_fd EXCEPT ![slot] = "live"] ELSE spi_device_fd

\* open_spi; SET_CONFIG to a stale descriptor fails.
OpenBus ==
  /\ spi_device_fd' = WithOpen(Slot(next.pi))
  /\ IF spi_device_fd'[Slot(next.pi)] = "live"
     THEN /\ Goto("open", "pin")
          /\ spi_link' = [bus |-> next.pi.spi_bus, dev |-> next.pi.spi_dev, configured |-> TRUE]
          /\ tries' = 0
     ELSE /\ Goto("open", IF boot THEN "exit" ELSE IF tries = OpenTries - 1 THEN "pin" ELSE "open")
          /\ spi_link' = [spi_link EXCEPT !.configured = FALSE]
          /\ tries' = IF boot \/ tries = OpenTries - 1 THEN 0 ELSE tries + 1
  /\ UNCHANGED <<fileVars, signalVars, watch, boot, next, cfg_pi, conf, driver, wire, dr_line,
                 piVars, faults, restarts>>

-----------------------------------------------------------------------------
(* The pin, the adoption, the baseline.                                    *)

PinChanged == boot \/ next.pi.dataready_pin # cfg_pi.dataready_pin

\* dataready_arm_pin: d->pin is set before anything can fail.
ArmPin ==
  \/ ~PinChanged /\ UNCHANGED <<dr_line, faults>>
  \/ /\ PinChanged
     /\ dr_line' = [pin |-> next.pi.dataready_pin,
                    armed |-> dr_line.armed \union {next.pi.dataready_pin}]
     /\ UNCHANGED faults
  \/ PinChanged /\ ~boot /\ Fault /\ dr_line' = [dr_line EXCEPT !.pin = next.pi.dataready_pin]

\* The rest of handle_reload, whatever of the above failed.
Adopt ==
  /\ Goto("pin", "sync")
  /\ ArmPin
  /\ cfg_pi' = next.pi
  /\ IF boot THEN Startup(next.stm) ELSE Reload(next.stm, WireDiffers(next.pi, cfg_pi))
  /\ UNCHANGED <<fileVars, signalVars, watch, boot, next, busVars, restarts>>

\* dataready_setup fails: the program ends, and its descriptors with it.
NoDataready ==
  /\ boot
  /\ Goto("pin", "exit")
  /\ Fault
  /\ spi_device_fd' = AllClosed
  /\ spi_link' = [spi_link EXCEPT !.configured = FALSE]
  /\ UNCHANGED <<fileVars, signalVars, watch, boot, next, cfg_pi, tries, conf, driver, wire,
                 dr_line, piVars, restarts>>

\* cfg_watch_sync; a start on defaults keeps waiting for its file.
Synced ==
  IF watch.enabled /\ file.doc # NoFile /\ ~(boot /\ watch.first)
  THEN [watch EXCEPT !.base = file.stamp] ELSE watch

Sync ==
  /\ Goto("sync", IF boot THEN "poll" ELSE "exchange")
  /\ watch' = Synced
  /\ boot' = FALSE
  /\ UNCHANGED <<fileVars, signalVars, next, cfg_pi, busVars, dr_line, piVars, faults, restarts>>

-----------------------------------------------------------------------------
(* The exchange at the end of an iteration.                                *)

\* What may come in: an ACK or a NACK of this command or of an old one, the
\* frame of an STM32 that has seen no command, or nothing that passes the CRC.
Incoming ==
  {f \in [seq: {0}, ack: {"none", "ok", "nack_crc"}, config_applied: BOOLEAN,
          reserved: 0 .. CmdMod - 1, n_rows: FrameRows] : f.ack = "none" => f.reserved = 0}
  \union {NoFrame}

\* rpi_spi_write_read_data opens the device itself if it has to.
Exchange(f) ==
  /\ Goto("exchange", "poll")
  /\ spi_device_fd' = WithOpen(Slot(cfg_pi))
  /\ spi_device_fd'[Slot(cfg_pi)] = "live"
  /\ Receive(f)
  /\ UNCHANGED <<fileVars, signalVars, watch, boot, next, cfg_pi, tries, spi_link, conf, driver,
                 wire, dr_line, faults, restarts>>

ExchangeFails ==
  /\ Goto("exchange", "poll")
  /\ spi_device_fd' = WithOpen(Slot(cfg_pi))
  /\ spi_device_fd'[Slot(cfg_pi)] # "live"
  /\ UNCHANGED <<fileVars, signalVars, watch, boot, next, cfg_pi, tries, spi_link, conf, driver,
                 wire, dr_line, piVars, faults, restarts>>

\* No data-ready within the poll period, or an exchange cut off by a signal.
NoExchange ==
  /\ Goto("exchange", "poll")
  /\ UNCHANGED <<fileVars, signalVars, watch, boot, next, cfg_pi, busVars, dr_line, piVars,
                 faults, restarts>>

Program ==
  \/ Poll \/ Load \/ KeepBus \/ CloseBus \/ Slay \/ Respawn \/ OpenBus
  \/ Adopt \/ NoDataready \/ Sync
  \/ (\E f \in Incoming : Exchange(f)) \/ ExchangeFails \/ NoExchange

-----------------------------------------------------------------------------
(* What happens to the process.                                            *)

Edit ==
  /\ file.stamp <= MaxEdits
  /\ \E d \in Docs \union {NoFile} : file' = [doc |-> d, stamp |-> file.stamp + 1]
  /\ UNCHANGED <<seen, signalVars, watch, pc, boot, next, cfg_pi, busVars, dr_line, piVars,
                 faults, restarts>>

\* The handler is installed after the first load.
Sighup ==
  /\ ~g_reload
  /\ pc # "exit" /\ ~(boot /\ pc = "load")
  /\ g_reload' = TRUE
  /\ UNCHANGED <<fileVars, stat_due, watch, pc, boot, next, cfg_pi, busVars, dr_line, piVars,
                 faults, restarts>>

Second ==
  /\ watch.enabled
  /\ ~stat_due
  /\ stat_due' = TRUE
  /\ UNCHANGED <<fileVars, g_reload, watch, pc, boot, next, cfg_pi, busVars, dr_line, piVars,
                 faults, restarts>>

\* A kill, or an exit, and a new process; spi.conf and the driver stay as they
\* are.  A bounce cut in two is a fault: spi.conf already says the new values.
Restart ==
  /\ restarts < MaxRestarts
  /\ restarts' = restarts + 1
  /\ IF pc \in {"slay", "respawn"} THEN Fault ELSE UNCHANGED faults
  /\ pc' = "load"
  /\ boot' = TRUE
  /\ g_reload' = FALSE
  /\ stat_due' = TRUE
  /\ watch' = [NoWatch EXCEPT !.enabled = watch.enabled]
  /\ next' = Defaults
  /\ cfg_pi' = PiDefaults
  /\ tries' = 0
  /\ spi_link' = [bus |-> 0, dev |-> 0, configured |-> FALSE]
  /\ spi_device_fd' = AllClosed
  /\ dr_line' = NoPins
  /\ UNCHANGED <<fileVars, conf, driver, wire, piVars>>

ReloadNext == Program \/ Edit \/ Sighup \/ Second \/ DriverUp \/ Restart

ReloadSpec == ReloadInit /\ [][ReloadNext]_reloadVars

(* The process runs, seconds pass, and now and then a frame passes the      *)
(* validation: with frames of one size and a board that is not stopped the  *)
(* link delivers them (FramesKeepFlowing of MotorLink).  Whether a frame    *)
(* answers the command, and how, is left open; nothing is assumed of        *)
(* editors, signals, faults and kills.                                      *)
FairReloadSpec ==
  /\ ReloadSpec
  /\ WF_reloadVars(Program)
  /\ WF_reloadVars(Second)
  /\ SF_reloadVars(\E f \in Incoming : Valid(f) /\ Exchange(f))

-----------------------------------------------------------------------------
Working == pc \in {"poll", "exchange"}

(* As long as no step failed and no bounce was cut in two, between reloads  *)
(* the hardware is what cfg says: the driver that runs has read the spi.conf *)
(* of this config, exactly the configured device is open and its descriptor *)
(* is of this driver, and the pin the loop reads is subscribed             *)
(* (handle_reload, spi_apply_conf, close_spi and the descriptor table).     *)
HardwareFollowsConfig ==
  (faults = 0 /\ Working) =>
    /\ driver = "up"
    /\ \A k \in DOMAIN wire : wire[k] = Wanted(cfg_pi)[k]
    /\ \A s \in Slots : spi_device_fd[s] = (IF s = Slot(cfg_pi) THEN "live" ELSE "closed")
    /\ dr_line.pin = cfg_pi.dataready_pin /\ dr_line.pin \in dr_line.armed

\* From the read of the file to the stat that makes it the baseline.
Applying == {"close", "slay", "respawn", "open", "pin", "sync"}

(* An edit the watch has not taken for its baseline is loaded, or overtaken *)
(* by another one.  An edit while a version is being applied is not covered: *)
(* cfg_watch_sync takes it for the version that was loaded                  *)
(* (motor_controller.c:798).                                                *)
EditPickedUp ==
  \A s \in 1 .. MaxEdits + 1 :
    (/\ watch.enabled /\ (watch.first \/ watch.base # 0) /\ watch.base # s
     /\ file.stamp = s /\ file.doc # NoFile /\ pc \notin Applying)
      ~> (seen = s \/ file.stamp # s \/ pc = "exit")

(* Once the last version of the file is loaded it is the one commanded, and  *)
(* its command ends, acknowledged, refused or given up: no reload that came *)
(* while an earlier command was pending leaves that one in charge, and none  *)
(* leaves a command pending for ever (the command tier of handle_reload).   *)
LastFileCommanded ==
  <>[](faults = 0 /\ seen = file.stamp /\ Usable(file.doc) =>
         g_cmd.state = "idle" /\ g_cmd.payload = Loaded(file.doc).stm)

(* config.h:108: the caller of spi_apply_conf must have closed any open SPI *)
(* descriptor, because the restart of spi-dwc invalidates it.               *)
NoFdAcrossBounce == pc = "slay" => spi_device_fd = AllClosed
=============================================================================
