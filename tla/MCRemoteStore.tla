------------------------------ MODULE MCRemoteStore ------------------------------
(* Instances of RemoteStore for TLC. *)
EXTENDS RemoteStore, TLC

CONSTANTS t1, t2
================================================================================
