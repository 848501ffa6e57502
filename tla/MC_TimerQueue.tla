---------------------------- MODULE MC_TimerQueue ----------------------------
(* Timers of each kind, and a clock of a few ticks.                          *)
EXTENDS TimerQueue

=============================================================================
