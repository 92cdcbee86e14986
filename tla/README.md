# Verification of the motor telemetry chain

TLA+ models, TLC configurations and TLAPS proofs for the system in this
repository: an STM32 samples motor sensors and streams blocks over SPI to a
QNX Raspberry Pi 5, which publishes them in shared memory.

## The system

| Part | Code | State | Operations | Hard because |
|---|---|---|---|---|
| Acquisition | `stm/src/motor_acquire.c`, `main.c` | programmed row count, rates, run state; ADC stream; `s_pending_*` requests | ADC half/full interrupts, setters called from the block interrupt, `motor_acquire_service` in the main loop | a reconfiguration is split between an interrupt and an interruptible loop |
| Sender | `stm/src/motor_send.c` | two frame buffers, `s_tx_idx`, `s_pending`, data-ready line, latched ACK, active config | `motor_on_block_ready`, SPI completion and error callbacks, `process_pending_cmd` | blocks, completions, refused DMA and errors in any order |
| Wire contract | `motor_wire.h` (both boards) | none | frame header, flags, SET_CONFIG | the ACK rides in frames that may be lost or overwritten |
| Controller | `giga_spi/motor_controller.c` | `g_cmd`, `active_stm`, `cfg`, sequence baseline, statistics | main loop: reload, wait, exchange, validate, observe, publish | repeats, budgets and size gate over an unreliable wire |
| Config and reload | `giga_spi/config.c`, `handle_reload` | loaded config, spi.conf, driver process | load, diff by tier, bounce driver, reopen, re-point GPIO, queue command | every step can fail half-way |
| Bus and GPIO libraries | `rpi_spi.c`, `rpi_gpio.c` | fd table, GPIO connection | open, configure, exchange, cleanup | partial failures |
| Shared memory | `motor_shm.h`, `motor_monitor.c` | seqlock snapshot, ring of seqlocked slots, `write_pos`, the monitor's cursor | publish, read, attach, drain | lock-free copies, lapping, a publisher that dies |
| Timer SPI | `old_timer_spi/` | shared record, process-shared semaphore | timer handler threads, readers | overlapping handlers, a holder that dies |
| Dashboard | `Cluster/` | reader thread, displayed values | poll shared memory, emit | thread of Qt against shared memory |

The boards share nothing but the SPI transfer (full duplex: a frame one way, a
command or nothing the other) and the data-ready line. Inside the STM32 the
ADC, SPI, I2C and DMA interrupts have one NVIC priority (`motor_send.c:463`,
`motor_acquire.c:162`, `250`), so handlers run to completion and interleave only with the main loop. The
controller is one thread; it meets the monitor only in the mapped region, and
the editor of its configuration only in the file. The timer-driven master and
the dashboard are an older pair of programs with a shared record of their own.
`PROJECT.json` lists every part, the ones left out too, and the hazards.

## Modules

- `MotorWire`: what a command and a frame carry; bytes, magic and CRC are
  abstracted to valid or not (`NoCmd`, `NoFrame`).
- `MotorAcquire`: `motor_acquire_service` as one action per access of shared
  state (`ReadRate` ... `SetRunning`), the setters as `Request`, the ADC
  stream as the number of rows it is armed for. The HAL may refuse to arm it
  (`Rearm(FALSE)`, `SwitchAdc(FALSE)`), which the code does not notice.
- `MotorSend` (extends it): one action per interrupt handler. `BlockReady` is
  the ADC callback with all it calls (`assemble_frame`, `arm_tx`,
  `process_pending_cmd`); `TxRxCplt` and `SpiError` are the HAL callbacks;
  `SpiTransfer` is the master clocking a buffer, the whole of it or a part.
  `arm_tx` may be refused. HAL reports an SPI error only while the DMA runs, so
  `SpiError` needs a frame in flight and the fallback to buffer 0 at line 404
  is not reached.
- `MotorController`: the controller's `g_cmd`, `active_stm` and `cfg.stm`;
  `Receive` is what the loop does with a frame, `Reload` the command tier of
  `handle_reload`.
- `MotorLink`: both boards over the wire, with faults. A signal may end an
  exchange before all bytes were clocked (`ExchangeInterrupted`); then the next
  exchanges run out of step with the frames until one outlasts the old frame.
- `MotorShm`: the region, field by field, a controller that may end in order and
  unlink it, or be killed and started again at any step, and the monitor.
- `SeqAccount` (extends `MotorSend`): what the main loop counts and publishes
  from frame numbers (`Account`), with ghosts for the real place of each block
  in the stream. No command is sent, so the main loop of the firmware does
  nothing and is left out.
- `FrameChannel`: the abstract specification of the sender: one frame on offer,
  one behind it, the newest; frames may be lost and never altered, reordered or
  offered twice, but for a counted transfer error. It knows no buffers, DMA,
  commands or interrupts. `MotorChannel` is the refinement mapping: the buffer
  `s_tx_idx` is the frame on offer, with `s_pending` the other one waits.
- `ConfigFile`: `config_load_file` as operators on documents (sections that map
  the fields present to JSON values): `Accepted`, `Loaded`, `WireDiffers`.
- `Reload` (extends `MotorController` and `ConfigFile`): the main loop with the
  file, its watch, SIGHUP, spi.conf, the driver, the descriptor table of
  `rpi_spi.c` and the data-ready pin. `Load`, `CloseBus`, `Slay`, `Respawn`,
  `OpenBus`, `Adopt`, `Sync` are the stretches of `handle_reload` (and, with
  `boot`, of the start of `main`) between which another process can act. The
  command tier is `MotorController.Reload`. A frame may say anything
  (`Incoming`: no answer, ACK or NACK to any command number, CONFIG_APPLIED or
  not, another size, or not valid at all).
- `TimerSpi`: `spi_master.c` (main, and a pool of timer threads that may
  overlap), its shared record and semaphore, and the thread `SpiReader`. One
  action per access of the record, and one each for shm_open, ftruncate and
  mmap, any of which may fail.
- `MotorTiming`: the prescaler search and the tach arithmetic.
- `MCMotorSend`, `MCMotorLink`, `MCMotorShm`, `MCSeqAccount`, `MCReload`,
  `MCTimerSpi`: instances for TLC. `MCMotorSend` also evaluates `MotorTiming` on
  the rates and captures the comments of the code name.
- `MotorSend_proofs`, `MotorController_proofs` (lemmas on the controller and the
  loader), `MotorFirmware_proofs`, `MotorLink_proofs`, `MotorShm_proofs`,
  `SeqAccount_proofs`, `Reload_proofs`, `TimerSpi_proofs`: the theorems.

Definitions marked "Mutant" are the mutated forms used to test the properties:
each property is violated when the named definition is replaced by its mutant.
No specification refers to them.

## Runs

| Run | Question | Result |
|---|---|---|
| `firmware` | does the double buffer keep its handshake, its in-flight frame and its accounts; is the stream consistent at every point service can be interrupted; does the sender implement `FrameChannel` | holds |
| `link` | with any one fault and one SPI error, does an acknowledgment mean the config was applied; without faults, do idle boards agree | holds |
| `link_live` | is every command settled and does data keep flowing, with one fault, one SPI error, one controller restart | holds with frames of one size, unless the HAL refuses to restart the ADC |
| `shm` | are successful reads whole and no older than asked, are only lost blocks given up, does the monitor never hang and catch up | holds |
| `seq_account` | are the drops the Pi reports exactly the missing blocks, is nothing published twice or out of order, is every reported reset real | holds |
| `reload` | does the hardware follow the config that was loaded, is every edit picked up, is the last file the one commanded | holds, with the exceptions below |
| `timer_spi` | are records whole, does the dashboard never step back, do samples arrive, does a stop end | holds, with the exceptions below |
| `service_lost_update` | `motor_send.c:318`: the active config is what was programmed | violated |
| `controller_restart` | `motor_controller.c:746`: the initial SET_CONFIG makes the STM32 match | violated |
| `resize_unsettled` | `motor_controller.c:289`: a command ends ACKed, NACKed or given up | violated when the frame size changes |
| `ring_read_newer` | `motor_shm.h:166`: a read of an overwritten slot returns false | violated |
| `reload_stale_fd` | `config.h:108`: no SPI descriptor is open when spi-dwc is restarted | violated after a slow driver start and a second reload |

The findings in `PROJECT.json` explain the five counterexamples. The cause of
`service_lost_update`, a config that is active before it is programmed, also
spends CONFIG_APPLIED on a frame of the old size (`motor_wire.h:107` calls it
the first frame of the new config).

What the last passing runs leave out, each because the code does not
provide for it:

- `HardwareFollowsConfig` and `LastFileCommanded` speak of behaviours where no
  step failed and no kill cut a driver restart in two. After a failure the code
  adopts the config all the same and waits for another reload.
- `LastFileCommanded` says that the command of the last file ends, not that it
  ends well: it may be refused or given up. That an ACK is an ACK of the config
  applied is `AckMeansApplied` (one life of the controller: a second one may take
  an old ACK for its own, `controller_restart`); that the STM32 answers in the end
  is `CommandSettles`, for frames of one size (`resize_unsettled`) and a board that
  is not told to stop (it produces no further frame, so the ACK of the stop may
  stay behind). Nothing is claimed of the STM32 outside of these.
- `CommandSettles` and `FramesKeepFlowing` end when the ADC was to be restarted
  and HAL refused (`AdcLost`): nobody tries again and no block comes any more.
- `EditPickedUp` leaves out edits between the read of the file and the stat
  that makes it the baseline: `cfg_watch_sync` takes them for loaded.
- `WholeRecords` leaves out what follows once the semaphore was destroyed under
  a running handler, initialised again over an old object, or passed on an
  interrupted wait. It compares the number the reader took with the number the
  writer of the data stored, so a mix of two writers shows. `NeverBackwards`
  leaves out overlapping handlers; `StopEnds` and `SamplesReachDashboard` kills;
  the latter also sample number 0 (see its comment) and a reader that ended, as
  it does by a bus error when it maps the object between shm_open and ftruncate.
- `StopEnds` is about main. A handler that is left may fault on the unmapped
  object, as late as at the number it prints (`FaultAfterUnmap`), and ends the
  process before shm_unlink.

`README_config.md` (172 and its field table) still says that SIGHUP never
applies SPI parameters; the code, and so `Reload`, does.

### Bounds, and why they suffice

- Rows: 2 at most (300 in the code); properties compare row counts, one value
  to change from and one to change to is all they distinguish.
- Frame counters: modulo 3 in `firmware`, so every counter wraps several times;
  modulo 1 in the link runs, where nothing depends on them. Command numbers are
  modulo 3 to 6, above the number of commands a run queues: a wrap of the
  16-bit number within one outstanding command is not explored.
- `firmware`: 2 SPI errors, one command that changes every field. The buffers
  never look at the payload, and service treats every changed field alike.
- `link`: 2 commands per controller process, 1 fault, 1 SPI error, a retry
  budget of 5 (32 in the code). 5 is the least budget that suffices without
  faults (below); under a fault it runs out, so both outcomes happen.
- `link_live`: budget 2, so giving up happens often; one command per process and
  frames of one size.
- `shm`: a ring of 2 slots (16), 2 attempts (64), 2 fields, 3 blocks per
  process, one restart: the monitor is lapped, reads are overwritten, attempts
  run out. Positions are modulo 6 (2^64), so a cursor ahead of `write_pos`
  wraps. Lock words do not wrap (2^31 publications inside one copy).

- `seq_account`: numbers modulo 6 (2^32), 10 blocks, so they wrap; gaps of up
  to 2 blocks, below half the modulus: a gap of 2^31 blocks (months) would read
  as a reset. One SPI error and two faults (lost frame, reset, reopened bus).
  `DropsExact` and `PublishedInOrder` are about runs without reset or reopened
  bus, where the code gives up the baseline on purpose. The behaviour ends at
  the block bound, so deadlock is not checked.

- `reload`: four documents (the wire; device and sample rate; pin and IMU rate;
  one refused for one bad field) and no file; one edit after the first version,
  one fault, one kill, one retry, two tries of `open_spi` (5), a table of 1 x 2
  (6 x 10), an spi.conf with and without `idle_insert`; frames of the size asked
  for and of another. One edit reaches every pair of documents, since the first
  one is arbitrary; the kill loads a third time. `reload_stale_fd` needs two
  edits and no kill.
- `timer_spi`: two handlers (overlap is about pairs), two samples, two objects
  (a clean restart makes the second), one fault, two attempts to open (20).
- Deadlock is not checked in the reload and timer runs: edits, restarts, samples
  and objects are bounded, a program may exit, and a killed holder of the
  semaphore really does stop the others.

### Fairness

`LinkFairness` asks that an enabled interrupt is eventually served, that the
main loop goes on whenever it can (it never blocks: `HAL_Delay` polls), and
that the Pi exchanges when the line is high (it polls at least every
2 ms, `poll_ns`). After an exchange that was cut short, each further one ends
the old frame in its middle and goes on into the next one if a block comes in
that very moment; that this does not happen for ever is a strong fairness, and
the only assumption about the rest of a cut frame. Faults, reloads, restarts
are not fair. In `MotorShm` only the monitor is fair; the controller may stop at
any step.

`FairReloadSpec`: the controller's process runs, seconds pass, and infinitely
many exchanges bring a valid frame, which is what `FramesKeepFlowing` says of a
board that is not stopped; what those frames say, and whether they answer, is
open. Edits, signals, faults and kills are not fair. `FairTimerSpec`: every
thread that can step infinitely often does; strong, because its wait on the
semaphore is enabled and disabled by others and sem_wait queues. Starts,
signals, ticks and kills are not fair.

## Proofs

`MotorSend_proofs` proves for every row limit, counter width, input set and
bound on SPI errors, from `WireAssumption` and `SendAssumption` (positive
limits; the defaults are in range; the master clocks commands or nothing):

- `TypeCorrect`: `Spec => []TypeOK`. `TypeOK` is inductive as it stands; the
  work is that payload fields only reach the requests after the range test
  (`SettersInRange`).
- `HandshakeHolds`: inductive on typed states.
- `InFlightStable`: from `TypeOK`, because `Other(i) # i`.
- `ArmsNewest`: needs the strengthening `NewestWaits` (a frame that waits
  carries the last number given out), inductive with the handshake.
- `Accounted`: the existential over wraps is replaced by `Balanced`, a linear
  disjunction, kept by one lemma per way a frame changes hands.
- `StreamConsistent`: `RowsMatchDma` and `StoppedMeansSilent` are inductive
  together and not alone.
- `StoppedIsSilent`: the second half of that invariant.

`MotorFirmware_proofs` holds what else is said of the firmware:

- `ImplementsChannel`: `Spec => ChannelSpec`. Every step of the firmware is a
  `Produce`, `Deliver` or `Retry` of the channel or leaves the mapped variables
  alone; the invariants it needs are the types and the handshake (a frame waits
  only behind one in flight).
- `AcceptedIsAcceptable` and `FileNeverRefused`, from `DefaultFits` (the default
  of 200 rows is within the firmware's limit): a file the loader accepts yields a
  config inside the firmware's range test, so the firmware never answers
  NACK_RANGE to one. The two range tests are in two programs that share no
  code, so nothing but such a proof keeps them together.
- `PscArrIsRight` (16-bit registers, period at most one prescaled tick too long,
  for every rate), `TachFloor` and `TachReadsSlowAsFast` (what a 16-bit capture
  cannot tell: no speed below 915 is ever reported, and a shaft slower than one
  edge per wrap of the counter is reported at the speed of the period left when
  the lost wraps are taken off).

`MotorLink_proofs` is about both boards and the wire, for every set of configs,
retry budget and number of faults:

- `LinkTypeCorrect`: `LinkTypeOK` is inductive with the handshake.
- `EachAnnouncedOnce` and `AckIsOfActive` assume that the controller's numbers do
  not wrap (`MaxCmds < CmdMod`: 65535 reloads), and one controller process: the
  first is stated of states with `restarts = 0`, the second with
  `MaxRestarts = 0`. A restarted controller starts its numbers over, which is
  how `controller_restart` breaks the claim of the code. The invariant
  (`CommandInv`) orders the numbers along the way of a command: what is sniffed
  or pending was applied at the earliest, and what is latched or in a frame was
  received.
- `IdleBoardsAgree`: without faults the idle boards agree, if all configs are
  acceptable (every file is, by `AcceptedIsAcceptable`) and the budget is 5 or
  more. `AgreedWhenIdle` says nothing of a pending command, so the invariant has
  to say why none is ever given up: `Lag` counts the exchanges still to come that
  do not answer (the frame on offer, the one behind it, the command being sniffed
  and processed), is 4 at most when a command is queued, and stays below the
  retries left. With a budget of 4 TLC finds a command given up without any fault,
  so the bound is tight; the code has 32.

`MotorShm_proofs`, for every ring, set of fields, number of tries and restarts:

- `TypeCorrect`: needs that a publication in progress is below the block bound.
- `SeqlockNeverTorn`: a lock word is odd exactly while its cell is written
  (`LockOdd`), cells nobody writes are of one block (`WholeCells`), and a copy whose
  lock word has not moved agrees with the cell so far (`ReadClean`).
- `RingNeverOlder` and `RingDropsAreLost`: every position below `write_pos` was
  committed to its own slot (`Committed`, `OwnSlot`), and a slot whose lock word
  moved is gone (`Overtaken`). The cursor is never ahead of `write_pos`, so its
  arithmetic modulo 2^64 is that of integers (`MaxBlocks + Depth < PosMod`).

  The last three are about an object that is not initialised again (`restarts = 0`);
  a publisher that stops for ever inside a publication is included.

`SeqAccount_proofs`, for gaps below half of the numbers (`AccountAssumption`):
`AccountTypeCorrect`, `DropsAreExact`, `ResetsAreReal`, `PublishesInOrder`, from one
invariant. `Placed` ties a number to the place of its block in the stream, one lap
up or down, for the frames on offer and for the Pi's baseline (`Baseline`, as long as
every reset was seen); then the signed difference of two numbers is the distance of
their blocks, through any number of wraps.

`Reload_proofs`, for every set of files, edits, signals, kills and failures:

- `ReloadTypeCorrect`: also that the pin is always one of the header's, which the
  GPIO code does not test. That the device is in the descriptor table rests on
  `ReloadAssumption`: the loader accepts bus numbers above the table (a hazard).
- `HardwareIsConfig`: `Following` says, for every step of `handle_reload` and of the
  start of `main`, which of spi.conf, driver, device and pin already belong to the
  config being adopted and which still to the one before.

`TimerSpi_proofs`, for every number of handlers, samples, restarts and faults:

- `RecordsAreWhole`: `Exclusion`, mutual exclusion by a semaphore that is created,
  destroyed and named anew: who may be inside of which object, and that a
  half-written record has its writer inside or dead.
- `SamplesGoForward`: `Order`, a handler under way has the newest sample.
- `TimerTypeCorrect`: bounds on the numbers need a count of the handlers (`Counts`):
  those with a sample and no number yet, and the sem_post calls still owed.

Every safety invariant and every safety action property of the passing runs is
stated by one of these theorems.

Model-checked only: liveness (`CommandSettles`, `FramesKeepFlowing`, `NeverHangs`,
`CatchesUp`, `EditPickedUp`, `LastFileCommanded`,
`SamplesReachDashboard`, `StopEnds`), since the prover has no means for fairness.

## Not modelled

Sensor values, timestamps, CRC arithmetic, register programming, priorities
of processes, logging and statistics that nothing reads. The bytes of a cut
transfer: what the STM32 makes of them is a command, a damaged one or none. The
IMU interrupt cannot come
between the reads of a block (one priority), so the cached reading is data.
In `Reload`, a failing DCMD_SPI_SET_CONFIG on a live descriptor, bus numbers
outside the table, and two versions of a file with one mtime and size.

Most lines of C and C++ in the repository are no program of its own:
`build-qnx-rpi5/` is generated, `giga_spi/cJSON.c` is vendored, `zip/` and
`more_adcs/` are archives of older versions, `motor_controller_debug.c` is an
older copy with more logging, and the probes, bench slaves and
`proto_reader.c` exchange or print once more what a modelled part does. The
components of `PROJECT.json` give the reason for each.

## Plan

1. The reload loop on the wire with the real firmware in one specification,
   where the last file reaches the STM32; today the link runs queue configs
   directly, and the reload run takes any frame.
2. An abstract specification of config agreement (one register, written by
   the Pi, adopted by the STM32, confirmed to the Pi) that `MotorLink`
   implements within one controller process, proved from `CommandInv`.
3. `EachAnnouncedOnce` and `AckIsOfActive` for restarted controllers whose
   numbers the STM32 has not seen, to say how far the claim of
   `motor_controller.c:746` can be saved.
4. CRC by table against bit by bit; `rpi_gpio.c` in more detail.
