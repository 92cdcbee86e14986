--------------------------- MODULE MotorController ---------------------------
(***************************************************************************)
(* giga_spi/motor_controller.c: the command transmitter of the Pi.  One    *)
(* SET_CONFIG at a time rides every exchange until a frame answers it; the *)
(* row count of the frames is locked to the last config acknowledged.      *)
(* One iteration of the main loop is one action: the process has a single  *)
(* thread and a reload is only acted upon between two exchanges.  The      *)
(* accounting of frame sequence numbers in the same loop reads frames only *)
(* (module SeqAccount).                                                    *)
(***************************************************************************)
EXTENDS MotorWire

CONSTANTS
  Configs,     \* the stm tiers the configuration file may hold
  MaxRetries   \* CMD_MAX_RETRIES (32 in the code)

ASSUME ControllerAssumption == Configs \subseteq Config /\ MaxRetries \in Nat

VARIABLES
  g_cmd,       \* state, seq, retries_left and payload; the frame follows
  active_stm,  \* what the Pi believes the STM32 runs
  cfg_stm      \* cfg.stm: what the file asked for last

piVars == <<g_cmd, active_stm, cfg_stm>>

ControllerTypeOK ==
  /\ g_cmd \in [state: {"idle", "pending"}, seq: 0 .. CmdMod - 1,
                retries_left: 0 .. MaxRetries, payload: Config]
  /\ active_stm \in Config
  /\ cfg_stm \in Config

-----------------------------------------------------------------------------
(* cmd_queue_set_config / cmd_build_set_config                             *)

\* Mutant: the sequence number is not advanced.
QueuedSameSeq(p, seq) ==
  [state |-> "pending", seq |-> seq, retries_left |-> MaxRetries, payload |-> p]

Queued(p, seq) ==
  [state |-> "pending", seq |-> Inc(seq, CmdMod), retries_left |-> MaxRetries, payload |-> p]

\* main up to the loop: the counter starts at 0 in every process.
Startup(p) ==
  /\ cfg_stm' = p
  /\ active_stm' = UnknownConfig
  /\ g_cmd' = Queued(p, 0)

ControllerInit(p) ==
  /\ cfg_stm = p
  /\ active_stm = UnknownConfig
  /\ g_cmd = Queued(p, 0)

\* Mutant: a command that is still pending keeps its payload.
ReloadIfIdle(p, reopened) ==
  /\ cfg_stm' = p
  /\ g_cmd' = IF p # cfg_stm /\ g_cmd.state = "idle" THEN Queued(p, g_cmd.seq)
              ELSE IF reopened /\ g_cmd.state = "pending"
              THEN [g_cmd EXCEPT !.retries_left = MaxRetries]
              ELSE g_cmd
  /\ UNCHANGED active_stm

\* The command tier of handle_reload: a bus that was reopened gives a pending
\* command a fresh budget, a changed stm tier replaces it.
Reload(p, reopened) ==
  /\ cfg_stm' = p
  /\ g_cmd' = IF p # cfg_stm THEN Queued(p, g_cmd.seq)
              ELSE IF reopened /\ g_cmd.state = "pending"
              THEN [g_cmd EXCEPT !.retries_left = MaxRetries]
              ELSE g_cmd
  /\ UNCHANGED active_stm

\* cmd_fill_tx
TxFrame ==
  IF g_cmd.state = "pending"
  THEN [cmd |-> "SET_CONFIG", schema_ok |-> TRUE, cmd_seq |-> g_cmd.seq,
        payload |-> g_cmd.payload, crc_ok |-> TRUE]
  ELSE NoCmd

-----------------------------------------------------------------------------
\* Mutant: the budget is decremented past 0.
CountedPastZero ==
  IF g_cmd.state = "pending" THEN [g_cmd EXCEPT !.retries_left = @ - 1] ELSE g_cmd

\* cmd_count_attempt
Counted ==
  IF g_cmd.state = "pending" /\ g_cmd.retries_left > 0
  THEN [g_cmd EXCEPT !.retries_left = @ - 1] ELSE g_cmd

\* Mutant: the size gate without the unknown-config exception.
ValidOnceSized(f) ==
  f # NoFrame /\ f.n_rows \in 1 .. MaxRows
    /\ (f.n_rows = active_stm.block_rows \/ f.config_applied)

\* Frame validation: the size gate knows one exception, CONFIG_APPLIED.
Valid(f) ==
  /\ f # NoFrame
  /\ f.n_rows \in 1 .. MaxRows
  /\ \/ active_stm.block_rows = 0
     \/ f.n_rows = active_stm.block_rows
     \/ f.config_applied

\* Mutant: any frame answers the pending command.
AnyAnswer(f, cmd) == cmd.state = "pending"

\* The frame echoes the sequence number of the pending command.
Answers(f, cmd) == cmd.state = "pending" /\ f.reserved = cmd.seq

\* cmd_observe, on the command as counted.
Observe(f, cmd) ==
  LET mine == Answers(f, cmd)
      acked == mine /\ f.ack = "ok"
      settled == \/ mine /\ f.ack # "none"
                 \/ ~mine /\ cmd.state = "pending" /\ cmd.retries_left = 0
  IN /\ active_stm' = IF acked THEN cmd.payload ELSE active_stm
     /\ g_cmd' = IF settled THEN [cmd EXCEPT !.state = "idle"] ELSE cmd

\* The part of the loop after the exchange returned success.
Receive(f) ==
  /\ IF Valid(f) THEN Observe(f, Counted) ELSE g_cmd' = Counted /\ UNCHANGED active_stm
  /\ UNCHANGED cfg_stm
=============================================================================
