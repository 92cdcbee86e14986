----------------------------- MODULE MotorWire -----------------------------
(***************************************************************************)
(* The contract both boards compile: what a SET_CONFIG asks for, what a    *)
(* command frame and a data frame carry.  Bytes, magics and CRC words are  *)
(* abstracted to what the receivers decide on: a tx buffer that does not   *)
(* start with MOTOR_CMD_MAGIC is NoCmd, a received frame that fails the    *)
(* magic, version or CRC test is NoFrame.                                  *)
(***************************************************************************)
EXTENDS Integers

CONSTANTS
  MaxRows,  \* MOTOR_MAX_ROWS_PER_BLOCK (300 in the code)
  CmdMod,   \* 2^16: cmd_seq and _reserved are uint16_t
  SeqMod,   \* 2^32: frame counters are uint32_t
  NoCmd,    \* a transmit buffer without a command
  NoFrame   \* a receive buffer without a valid frame

\* Mutant: the counter of a wider type, never reduced.
IncUnwrapped(x, mod) == x + 1

\* An unsigned counter of the wire.
Inc(x, mod) == IF x = mod - 1 THEN 0 ELSE x + 1

\* config_payload_t without its reserved bytes.
Config == [block_rows: Nat, source: Nat, run_state: Nat,
           sample_rate_hz: Nat, imu_rate_hz: Nat]

MOTOR_SOURCE_ADC == 1
MOTOR_RUN_STOP   == 0
MOTOR_RUN_RUN    == 1

\* { 0 } on active_stm: block_rows = 0 means the running config is unknown.
UnknownConfig == [block_rows |-> 0, source |-> 0, run_state |-> 0,
                  sample_rate_hz |-> 0, imu_rate_hz |-> 0]

\* A command frame whose first word is MOTOR_CMD_MAGIC.  schema_ok is the
\* schema_version test, crc_ok the CRC test.
Command == [cmd: {"SET_CONFIG", "PING", "other"}, schema_ok: BOOLEAN,
            cmd_seq: 0 .. CmdMod - 1, payload: Config, crc_ok: BOOLEAN]

\* The ACK_* / NACK_* bits of the header's flags.
AckFlags == {"none", "ok", "nack_range", "nack_crc", "nack_ver", "nack_cmd"}

\* frame_header_t: config_applied is its own bit of flags, reserved echoes
\* the cmd_seq of the last command processed.
Frame == [seq: 0 .. SeqMod - 1, ack: AckFlags, config_applied: BOOLEAN,
          reserved: 0 .. CmdMod - 1, n_rows: Nat]

\* The static buffers before the first block is assembled.
ZeroFrame == [seq |-> 0, ack |-> "none", config_applied |-> FALSE,
              reserved |-> 0, n_rows |-> 0]

ASSUME WireAssumption ==
  /\ MaxRows \in Nat \ {0}
  /\ CmdMod \in Nat \ {0}
  /\ SeqMod \in Nat \ {0}
  /\ NoCmd \notin Command
  /\ NoFrame \notin Frame
=============================================================================
