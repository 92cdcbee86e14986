---------------------------- MODULE MCMotorLink ----------------------------
(* Both boards on small configurations.                                     *)
EXTENDS MotorLink

Cfg(rows, run, rate) ==
  [block_rows |-> rows, source |-> MOTOR_SOURCE_ADC, run_state |-> run,
   sample_rate_hz |-> rate, imu_rate_hz |-> 1000]

MCDefault == Cfg(2, 1, 20000)

\* The frame size of the default, another frame size, a stop.
SameSize == {Cfg(2, 1, 100)}
Resizing == {MCDefault, Cfg(1, 1, 20000)}
Stopping == {Cfg(1, 1, 20000), Cfg(2, 0, 20000)}
=============================================================================
