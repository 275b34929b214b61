------------------------------ MODULE MCRateLock ------------------------------
(* Login loops that compete for rate keys over a clock of MaxTime units.     *)
EXTENDS RateLock
================================================================================
