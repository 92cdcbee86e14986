----------------------------- MODULE MCTimerSpi -----------------------------
(* Two handler threads, one dashboard, a clean restart and a kill.          *)
EXTENDS TimerSpi
=============================================================================
