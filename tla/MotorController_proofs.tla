------------------------ MODULE MotorController_proofs ------------------------
(***************************************************************************)
(* Lemmas on what the Pi sends and on where it has it from: the command    *)
(* transmitter stays well typed whatever it is given, and an accepted file *)
(* yields a configuration in range.  The link, the reload and the          *)
(* firmware's promises rest on them.                                       *)
(***************************************************************************)
EXTENDS MotorController, ConfigFile, TLAPS

-----------------------------------------------------------------------------
(* The command transmitter.                                                *)

(* A queued command is a well-typed record with the next sequence number.   *)
LEMMA QueuedType ==
  ASSUME NEW p \in Config, NEW n \in 0 .. CmdMod - 1
  PROVE  Queued(p, n) \in [state: {"idle", "pending"}, seq: 0 .. CmdMod - 1,
                           retries_left: 0 .. MaxRetries, payload: Config]
<1>1. Inc(n, CmdMod) \in 0 .. CmdMod - 1
  BY WireAssumption DEF Inc
<1>2. MaxRetries \in 0 .. MaxRetries
  BY ControllerAssumption
<1> QED  BY <1>1, <1>2 DEF Queued

(* What the Pi clocks out is a command or nothing.                          *)
LEMMA TxFrameType ==
  ASSUME ControllerTypeOK
  PROVE  TxFrame \in Command \union {NoCmd}
BY DEF ControllerTypeOK, TxFrame, Command

(* A new process queues its configuration with the STM32's state unknown.   *)
LEMMA StartupType ==
  ASSUME NEW p \in Config
  PROVE  /\ ControllerInit(p) => ControllerTypeOK
         /\ Startup(p) => ControllerTypeOK'
<1>1. 0 \in 0 .. CmdMod - 1 /\ UnknownConfig \in Config
  BY WireAssumption DEF UnknownConfig, Config
<1> QED  BY <1>1, QueuedType DEF ControllerInit, Startup, ControllerTypeOK

(* Whatever the exchange returned, the transmitter stays well typed.        *)
LEMMA ReceiveType ==
  ASSUME ControllerTypeOK, NEW f, Receive(f)
  PROVE  ControllerTypeOK'
<1>1. Counted \in [state: {"idle", "pending"}, seq: 0 .. CmdMod - 1,
                   retries_left: 0 .. MaxRetries, payload: Config]
  <2>1. CASE g_cmd.state = "pending" /\ g_cmd.retries_left > 0
    <3>1. g_cmd.retries_left - 1 \in 0 .. MaxRetries
      BY <2>1, ControllerAssumption DEF ControllerTypeOK
    <3> QED  BY <2>1, <3>1 DEF Counted, ControllerTypeOK
  <2>2. CASE ~(g_cmd.state = "pending" /\ g_cmd.retries_left > 0)
    BY <2>2 DEF Counted, ControllerTypeOK
  <2> QED  BY <2>1, <2>2
<1>2. CASE Valid(f)
  <2>1. Observe(f, Counted) /\ cfg_stm' = cfg_stm
    BY <1>2 DEF Receive
  <2> QED  BY <1>1, <2>1 DEF Observe, ControllerTypeOK
<1>3. CASE ~Valid(f)
  BY <1>1, <1>3 DEF Receive, ControllerTypeOK
<1> QED  BY <1>2, <1>3

(* Nor does a reload disturb it.                                            *)
LEMMA ReloadType ==
  ASSUME ControllerTypeOK, NEW p \in Config, NEW reopened, Reload(p, reopened)
  PROVE  ControllerTypeOK'
<1>1. MaxRetries \in 0 .. MaxRetries
  BY ControllerAssumption
<1>2. Queued(p, g_cmd.seq) \in [state: {"idle", "pending"}, seq: 0 .. CmdMod - 1,
                                retries_left: 0 .. MaxRetries, payload: Config]
  BY QueuedType DEF ControllerTypeOK
<1> QED  BY <1>1, <1>2 DEF Reload, ControllerTypeOK

-----------------------------------------------------------------------------
(* The configuration file: what config_load_file (config.c) promises of a  *)
(* file it accepts.                                                        *)

\* MOTOR_MAX_ROWS_PER_BLOCK leaves room for the default block.
DefaultFits == StmDefaults.block_rows <= MaxRows

\* The defaults of each section pass the tests the file would have to pass.
LEMMA DefaultsInRange ==
  ASSUME DefaultFits
  PROVE  \A f \in StmFields : StmDefaults[f] \in StmRange(f)
<1> USE WireAssumption DEF DefaultFits, StmDefaults, MOTOR_SOURCE_ADC, MOTOR_RUN_RUN,
                           MOTOR_RUN_STOP
<1>1. StmDefaults["block_rows"] \in StmRange("block_rows")  BY DEF StmRange
<1>2. StmDefaults["source"] \in StmRange("source")  BY DEF StmRange
<1>3. StmDefaults["run_state"] \in StmRange("run_state")  BY DEF StmRange
<1>4. StmDefaults["sample_rate_hz"] \in StmRange("sample_rate_hz")  BY DEF StmRange, Rate
<1>5. StmDefaults["imu_rate_hz"] \in StmRange("imu_rate_hz")  BY DEF StmRange, Rate
<1> QED  BY <1>1, <1>2, <1>3, <1>4, <1>5 DEF StmFields

\* Each field of the stm tier, read or defaulted, is in the loader's range.
LEMMA FieldsInRange ==
  ASSUME NEW doc, Accepted(doc), DefaultFits
  PROVE  \A f \in StmFields : Loaded(doc).stm[f] \in StmRange(f)
<1>1. DOMAIN StmDefaults = StmFields
  BY DEF StmDefaults, StmFields
<1>2. TAKE f \in StmFields
<1>3. Loaded(doc).stm[f] = IF f \in DOMAIN doc.stm THEN Value(f, doc.stm[f]) ELSE StmDefaults[f]
  BY <1>1 DEF Loaded, Filled
<1>4. CASE f \in DOMAIN doc.stm
  BY <1>3, <1>4 DEF Accepted
<1>5. CASE f \notin DOMAIN doc.stm
  BY <1>3, <1>5, DefaultsInRange
<1> QED  BY <1>4, <1>5

\* The ranges of the five fields, spelled out for the record they make.
LEMMA RangesOfRecord ==
  ASSUME NEW p, \A f \in StmFields : p[f] \in StmRange(f)
  PROVE  /\ p.block_rows \in 1 .. MaxRows
         /\ p.source = MOTOR_SOURCE_ADC
         /\ p.run_state \in {MOTOR_RUN_STOP, MOTOR_RUN_RUN}
         /\ p.sample_rate_hz \in Rate(100, 100000)
         /\ p.imu_rate_hz \in Rate(10, 1000)
<1>1. p["block_rows"] \in StmRange("block_rows")  BY SMT DEF StmFields
<1>2. p["source"] \in StmRange("source")  BY SMT DEF StmFields
<1>3. p["run_state"] \in StmRange("run_state")  BY SMT DEF StmFields
<1>4. p["sample_rate_hz"] \in StmRange("sample_rate_hz")  BY SMT DEF StmFields
<1>5. p["imu_rate_hz"] \in StmRange("imu_rate_hz")  BY SMT DEF StmFields
<1>6. p.block_rows \in 1 .. MaxRows  BY <1>1, SMT DEF StmRange
<1>7. p.source = MOTOR_SOURCE_ADC  BY <1>2, SMT DEF StmRange
<1>8. p.run_state \in {MOTOR_RUN_STOP, MOTOR_RUN_RUN}  BY <1>3, SMT DEF StmRange
<1>9. p.sample_rate_hz \in Rate(100, 100000)  BY <1>4, SMT DEF StmRange
<1>10. p.imu_rate_hz \in Rate(10, 1000)  BY <1>5, SMT DEF StmRange
<1> QED  BY <1>6, <1>7, <1>8, <1>9, <1>10
\* The pi tier has its fields, and the pin is one of the header's.
LEMMA PiTierLoaded ==
  ASSUME NEW doc, Accepted(doc)
  PROVE  /\ DOMAIN Loaded(doc).pi = PiFields
         /\ Loaded(doc).pi.dataready_pin \in 0 .. 27
<1>1. DOMAIN PiDefaults = PiFields /\ PiDefaults.dataready_pin = 17
  BY SMT DEF PiDefaults, PiFields
<1>2. Loaded(doc).pi = [f \in PiFields |-> IF f \in DOMAIN doc.pi THEN Value(f, doc.pi[f])
                                           ELSE PiDefaults[f]]
  BY <1>1 DEF Loaded, Filled
<1>3. "dataready_pin" \in PiFields
  BY DEF PiFields
<1>4. CASE "dataready_pin" \in DOMAIN doc.pi
  <2>1. Value("dataready_pin", doc.pi["dataready_pin"]) \in PiRange("dataready_pin")
    BY <1>3, <1>4 DEF Accepted
  <2>2. PiRange("dataready_pin") = 0 .. 27
    BY Zenon DEF PiRange
  <2> QED  BY <1>2, <1>3, <1>4, <2>1, <2>2
<1>5. CASE "dataready_pin" \notin DOMAIN doc.pi
  BY <1>1, <1>2, <1>3, <1>5, SMT
<1> QED  BY <1>2, <1>4, <1>5

\* The stm tier is a config of the wire's types, whatever MaxRows allows.
LEMMA LoadedIsConfig ==
  ASSUME NEW doc, Accepted(doc)
  PROVE  Loaded(doc).stm \in Config
<1> DEFINE s == Loaded(doc).stm
<1>1. DOMAIN StmDefaults = StmFields
  BY DEF StmDefaults, StmFields
<1>2. s = [f \in StmFields |-> IF f \in DOMAIN doc.stm THEN Value(f, doc.stm[f])
                               ELSE StmDefaults[f]]
  BY <1>1 DEF Loaded, Filled
<1>3. \A f \in StmFields : s[f] \in Nat
  <2> TAKE f \in StmFields
  <2>1. StmRange(f) \subseteq Nat
    <3> USE WireAssumption DEF StmRange, Rate, MOTOR_SOURCE_ADC, MOTOR_RUN_STOP, MOTOR_RUN_RUN
    <3>1. CASE f = "block_rows"  BY <3>1, SMT
    <3>2. CASE f = "source"  BY <3>2, SMT
    <3>3. CASE f = "run_state"  BY <3>3, SMT
    <3>4. CASE f = "sample_rate_hz"  BY <3>4, SMT
    <3>5. CASE f = "imu_rate_hz"  BY <3>5, SMT
    <3> QED  BY <3>1, <3>2, <3>3, <3>4, <3>5 DEF StmFields
  <2>2. StmDefaults[f] \in Nat
    BY DEF StmDefaults, StmFields, MOTOR_SOURCE_ADC, MOTOR_RUN_RUN
  <2>3. f \in DOMAIN doc.stm => Value(f, doc.stm[f]) \in StmRange(f)
    BY DEF Accepted
  <2> QED  BY <1>2, <2>1, <2>2, <2>3
<1> HIDE DEF s
<1>4. s = [f \in StmFields |-> s[f]]
  BY <1>2
<1> QED  BY <1>3, <1>4 DEF Config, StmFields, s
=============================================================================
