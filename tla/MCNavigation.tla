------------------------------ MODULE MCNavigation ------------------------------
(* An instance of Navigation for TLC. *)
EXTENDS Navigation

\* From 0.208 s to 0.375 s: over before the fifth to the eighth tick.
HeroTicks == 5..8
================================================================================
