----------------------------- MODULE ConfigFile -----------------------------
(***************************************************************************)
(* giga_spi/config.c: what config_load_file makes of the JSON file.  A     *)
(* document has two sections, each the function from the fields present to *)
(* their JSON values; a missing section is the empty function.  A field    *)
(* that is missing keeps its default, one field that is wrong rejects the  *)
(* whole file.  Fields the loader does not know are ignored.               *)
(***************************************************************************)
EXTENDS MotorWire

\* The six scaling constants are one field, in tenths: nothing but the range
\* test and the copy is done with them.
PiFields  == {"spi_bus", "spi_dev", "spi_mode", "spi_clock_hz", "spi_cpha", "spi_word_width",
              "spi_idle_insert", "rt_priority", "dataready_pin", "scaling"}
StmFields == {"block_rows", "source", "run_state", "sample_rate_hz", "imu_rate_hz"}

\* CONFIG_DEFAULTS
PiDefaults == [spi_bus |-> 0, spi_dev |-> 0, spi_mode |-> 0, spi_clock_hz |-> 4000000,
               spi_cpha |-> 0, spi_word_width |-> 8, spi_idle_insert |-> 0,
               rt_priority |-> 30, dataready_pin |-> 17, scaling |-> 10]
StmDefaults == [block_rows |-> 200, source |-> MOTOR_SOURCE_ADC, run_state |-> MOTOR_RUN_RUN,
                sample_rate_hz |-> 20000, imu_rate_hz |-> 1000]

\* A JSON value: a number, counted in tenths, or a string; the loader treats
\* any other like a string it does not know.
Number(t) == [is |-> "number", tenths |-> t]
Text(s)   == [is |-> "string", text |-> s]

\* The C conversion of a double to an integer.
Trunc(t) == IF t >= 0 THEN t \div 10 ELSE -((-t) \div 10)

-----------------------------------------------------------------------------
ClockRange   == 100000 .. 50000000
ScalingRange == -10000000 .. 10000000

\* What the range tests of the pi section leave of each field.
PiRange(field) ==
  CASE field \in {"spi_bus", "spi_dev"}          -> 0 .. 7
    [] field = "spi_mode"                        -> 0 .. 3
    [] field = "spi_clock_hz"                    -> ClockRange
    [] field \in {"spi_cpha", "spi_idle_insert"} -> 0 .. 1
    [] field = "spi_word_width"                  -> {8, 16, 32}
    [] field = "rt_priority"                     -> 1 .. 63
    [] field = "dataready_pin"                   -> 0 .. 27
    [] field = "scaling"                         -> ScalingRange

\* A rate of 0 leaves the STM32 alone.
Rate(lo, hi) == {r \in Nat : r = 0 \/ (lo <= r /\ r <= hi)}

\* The same of the stm section.
StmRange(field) ==
  CASE field = "block_rows"     -> 1 .. MaxRows
    [] field = "source"         -> {MOTOR_SOURCE_ADC}
    [] field = "run_state"      -> {MOTOR_RUN_STOP, MOTOR_RUN_RUN}
    [] field = "sample_rate_hz" -> Rate(100, 100000)
    [] field = "imu_rate_hz"    -> Rate(10, 1000)

\* j_uint tests the sign of the double, j_int only the converted value.
Unsigned == {"spi_clock_hz", "block_rows", "sample_rate_hz", "imu_rate_hz"}

\* The names j_source and j_run_state accept.
Names(field) ==
  CASE field = "source"    -> {"adc"}
    [] field = "run_state" -> {"run", "stop"}
    [] OTHER               -> {}

Value(field, v) ==
  IF v.is = "string" THEN (IF v.text = "stop" THEN MOTOR_RUN_STOP ELSE 1)
  ELSE IF field = "scaling" THEN v.tenths
  ELSE Trunc(v.tenths)

WellFormed(field, v) ==
  \/ v.is = "number" /\ (field \in Unsigned => v.tenths >= 0)
  \/ v.is = "string" /\ v.text \in Names(field)

Accepted(doc) ==
  /\ \A f \in DOMAIN doc.pi \cap PiFields :
       WellFormed(f, doc.pi[f]) /\ Value(f, doc.pi[f]) \in PiRange(f)
  /\ \A f \in DOMAIN doc.stm \cap StmFields :
       WellFormed(f, doc.stm[f]) /\ Value(f, doc.stm[f]) \in StmRange(f)

\* What the fields read as, the default where there is none.
Filled(section, default) ==
  [f \in DOMAIN default |-> IF f \in DOMAIN section THEN Value(f, section[f]) ELSE default[f]]

\* The config committed to *out, for an accepted document.
Loaded(doc) == [pi |-> Filled(doc.pi, PiDefaults), stm |-> Filled(doc.stm, StmDefaults)]

Defaults == [pi |-> PiDefaults, stm |-> StmDefaults]

-----------------------------------------------------------------------------
\* config_spi_wire_differs
WireFields == {"spi_bus", "spi_dev", "spi_mode", "spi_clock_hz", "spi_cpha", "spi_word_width",
               "spi_idle_insert"}
WireDiffers(a, b) == \E f \in WireFields : a[f] # b[f]
=============================================================================
