---------------------------- MODULE MCSeqAccount ----------------------------
(* The accounting on a firmware with counters that wrap after six frames.   *)
EXTENDS SeqAccount

MCDefault ==
  [block_rows |-> 1, source |-> MOTOR_SOURCE_ADC, run_state |-> MOTOR_RUN_RUN,
   sample_rate_hz |-> 20000, imu_rate_hz |-> 1000]
=============================================================================
