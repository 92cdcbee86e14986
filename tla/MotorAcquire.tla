---------------------------- MODULE MotorAcquire ----------------------------
(***************************************************************************)
(* stm/src/motor_acquire.c: what the acquisition is programmed to do and   *)
(* the reconfiguration that is split between the block interrupt, which    *)
(* only leaves a request in s_pending_*, and motor_acquire_service(), run  *)
(* by the main loop and interruptible between any two of its accesses.     *)
(* The steps below are those accesses, in program order.  Interrupts run   *)
(* to completion: ADC, SPI and their DMA streams share one NVIC priority.  *)
(***************************************************************************)
EXTENDS MotorWire

CONSTANT DefaultConfig   \* what main.c passes to the two init functions

VARIABLES
  s_block_rows, s_sample_rate_hz, s_imu_rate_hz, s_running,
  adc_dma,               \* rows per half the ADC stream is armed for; 0 = off
  s_pending_block_rows, s_pending_sample_rate, s_pending_imu_rate,
  s_pending_run_state,
  pc,                    \* next access of motor_acquire_service
  local                  \* its locals new_rate, new_rows, new_imu and r

programmed == <<s_block_rows, s_sample_rate_hz, s_imu_rate_hz, s_running, adc_dma>>
requests   == <<s_pending_block_rows, s_pending_sample_rate, s_pending_imu_rate,
                s_pending_run_state>>
acquireVars == <<programmed, requests, pc, local>>

NoRequest == 255         \* 0xFF: no run_state request
NoLocals  == [rate |-> 0, rows |-> 0, imu |-> 0, run |-> NoRequest]

ServicePoints == {"rate", "rows", "clear_rate", "clear_rows", "stop_adc",
                  "program", "rearm", "imu", "clear_imu", "run", "clear_run", "run_state",
                  "set_running"}

AcquireTypeOK ==
  /\ s_block_rows \in 1 .. MaxRows
  /\ s_sample_rate_hz \in Nat
  /\ s_imu_rate_hz \in Nat
  /\ s_running \in BOOLEAN
  /\ adc_dma \in 0 .. MaxRows
  /\ s_pending_block_rows \in 0 .. MaxRows
  /\ s_pending_sample_rate \in Nat
  /\ s_pending_imu_rate \in Nat
  /\ s_pending_run_state \in {MOTOR_RUN_STOP, MOTOR_RUN_RUN, NoRequest}
  /\ pc \in ServicePoints
  /\ local \in [rate: Nat, rows: 0 .. MaxRows, imu: Nat,
                run: {MOTOR_RUN_STOP, MOTOR_RUN_RUN, NoRequest}]

\* motor_acquire_init, then motor_acquire_start.
AcquireInit ==
  /\ s_block_rows = DefaultConfig.block_rows
  /\ s_sample_rate_hz = DefaultConfig.sample_rate_hz
  /\ s_imu_rate_hz = DefaultConfig.imu_rate_hz
  /\ s_running = TRUE
  /\ adc_dma = DefaultConfig.block_rows
  /\ s_pending_block_rows = 0
  /\ s_pending_sample_rate = 0
  /\ s_pending_imu_rate = 0
  /\ s_pending_run_state = NoRequest
  /\ pc = "rate"
  /\ local = NoLocals

-----------------------------------------------------------------------------
(* Called from the block interrupt.                                        *)

\* The motor_acquire_set_* calls for the fields in which p differs from the
\* active config; a rate of 0 asks for no change.
Request(p, active) ==
  /\ s_pending_block_rows' =
       IF p.block_rows # active.block_rows THEN p.block_rows ELSE s_pending_block_rows
  /\ s_pending_sample_rate' =
       IF p.sample_rate_hz \notin {0, active.sample_rate_hz}
       THEN p.sample_rate_hz ELSE s_pending_sample_rate
  /\ s_pending_imu_rate' =
       IF p.imu_rate_hz \notin {0, active.imu_rate_hz}
       THEN p.imu_rate_hz ELSE s_pending_imu_rate
  /\ s_pending_run_state' =
       IF p.run_state # active.run_state THEN p.run_state ELSE s_pending_run_state

-----------------------------------------------------------------------------
(* motor_acquire_service, one action per access of shared state.           *)

Goto(from, to) == pc = from /\ pc' = to

ReadRate ==
  /\ Goto("rate", "rows")
  /\ local' = [local EXCEPT !.rate = s_pending_sample_rate]
  /\ UNCHANGED <<programmed, requests>>

ReadRows ==
  /\ Goto("rows", IF local.rate = 0 /\ s_pending_block_rows = 0 THEN "imu" ELSE "clear_rate")
  /\ local' = [local EXCEPT !.rows = s_pending_block_rows]
  /\ UNCHANGED <<programmed, requests>>

ClearRate ==
  /\ Goto("clear_rate", "clear_rows")
  /\ s_pending_sample_rate' = 0
  /\ UNCHANGED <<programmed, s_pending_block_rows, s_pending_imu_rate,
                 s_pending_run_state, local>>

ClearRows ==
  /\ Goto("clear_rows", "stop_adc")
  /\ s_pending_block_rows' = 0
  /\ UNCHANGED <<programmed, s_pending_sample_rate, s_pending_imu_rate,
                 s_pending_run_state, local>>

\* Mutant: the stream is left on.
AdcLeftOn == adc_dma

\* was_running is s_running: only this thread writes it.
AdcStopped == IF s_running THEN 0 ELSE adc_dma

StopAdc ==
  /\ Goto("stop_adc", "program")
  /\ adc_dma' = AdcStopped
  /\ UNCHANGED <<s_block_rows, s_sample_rate_hz, s_imu_rate_hz, s_running,
                 requests, local>>

\* tim3_program, which no interrupt looks at, and the new row count.
Program ==
  /\ Goto("program", "rearm")
  /\ s_sample_rate_hz' = IF local.rate # 0 THEN local.rate ELSE s_sample_rate_hz
  /\ s_block_rows' = IF local.rows # 0 THEN local.rows ELSE s_block_rows
  /\ local' = [local EXCEPT !.rate = 0, !.rows = 0]
  /\ UNCHANGED <<s_imu_rate_hz, s_running, adc_dma, requests>>

\* Mutant: was_running is not consulted.
RearmedAlways(ok) == IF ok THEN s_block_rows ELSE 0

\* The stream is armed again if it was on.
Rearmed(ok) == IF s_running THEN (IF ok THEN s_block_rows ELSE 0) ELSE adc_dma

\* HAL_ADC_Start_DMA, whose result is not looked at.
Rearm(ok) ==
  /\ Goto("rearm", "imu")
  /\ adc_dma' = Rearmed(ok)
  /\ UNCHANGED <<s_block_rows, s_sample_rate_hz, s_imu_rate_hz, s_running, requests, local>>

ReadImu ==
  /\ Goto("imu", IF s_pending_imu_rate = 0 THEN "run" ELSE "clear_imu")
  /\ local' = [local EXCEPT !.imu = s_pending_imu_rate]
  /\ UNCHANGED <<programmed, requests>>

\* The block interrupt never reads s_imu_rate_hz, so tim2_program can go with
\* the access that empties the request.
ClearImu ==
  /\ Goto("clear_imu", "run")
  /\ s_pending_imu_rate' = 0
  /\ s_imu_rate_hz' = local.imu
  /\ local' = [local EXCEPT !.imu = 0]
  /\ UNCHANGED <<s_block_rows, s_sample_rate_hz, s_running, adc_dma,
                 s_pending_block_rows, s_pending_sample_rate, s_pending_run_state>>

ReadRun ==
  /\ Goto("run", IF s_pending_run_state = NoRequest THEN "rate" ELSE "clear_run")
  /\ local' = [local EXCEPT !.run = s_pending_run_state]
  /\ UNCHANGED <<programmed, requests>>

ClearRun ==
  /\ Goto("clear_run", "run_state")
  /\ s_pending_run_state' = NoRequest
  /\ UNCHANGED <<programmed, s_pending_block_rows, s_pending_sample_rate,
                 s_pending_imu_rate, local>>

\* motor_acquire_stop / motor_acquire_start, both no-ops in the state they
\* lead to: first the stream (a start that the HAL refuses never returns) ...
SwitchAdc ==
  /\ Goto("run_state", "set_running")
  /\ adc_dma' = IF s_running = (local.run # MOTOR_RUN_STOP) THEN adc_dma
                ELSE IF s_running THEN 0 ELSE s_block_rows
  /\ UNCHANGED <<s_block_rows, s_sample_rate_hz, s_imu_rate_hz, s_running, requests, local>>

\* ... then the flag; service returns and the main loop will call it again.
SetRunning ==
  /\ Goto("set_running", "rate")
  /\ s_running' = (local.run # MOTOR_RUN_STOP)
  /\ local' = [local EXCEPT !.run = NoRequest]
  /\ UNCHANGED <<s_block_rows, s_sample_rate_hz, s_imu_rate_hz, adc_dma, requests>>

Service(ok) ==
  \/ ReadRate \/ ReadRows \/ ClearRate \/ ClearRows \/ StopAdc \/ Program \/ Rearm(ok)
  \/ ReadImu \/ ClearImu
  \/ ReadRun \/ ClearRun \/ SwitchAdc \/ SetRunning

-----------------------------------------------------------------------------
(* The block interrupt splits a circular buffer by s_block_rows, so as long *)
(* as the stream runs it must be armed for exactly that many rows per half; *)
(* otherwise rows of one block are handed over as rows of another: service  *)
(* must have it off before the count changes and on only afterwards         *)
(* (ConvHalfCplt / ConvCplt against motor_acquire_service).                 *)
RowsMatchDma == adc_dma # 0 => adc_dma = s_block_rows

(* A reconfiguration that arrives while the acquisition is stopped must not *)
(* wake it, and a completed stop leaves no stream running; a start has the  *)
(* stream on before it sets the flag.                                       *)
StoppedMeansSilent == ~s_running /\ pc # "set_running" => adc_dma = 0
=============================================================================
