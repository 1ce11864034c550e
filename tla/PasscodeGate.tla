------------------------------- MODULE PasscodeGate -------------------------------
(***************************************************************************)
(* What the passcode screen is for, with animations and transitions left   *)
(* out: nobody gets inside without having typed the passcode since the     *)
(* screen last asked for it, and locking asks again.                       *)
(***************************************************************************)
VARIABLES
    place,  \* where the person is: "outside", "asked" or "inside"
    typed   \* the passcode has been typed since it was asked for

gateVars == <<place, typed>>

GateInit == place = "outside" /\ typed = FALSE

Ask   == place = "outside" /\ place' = "asked" /\ typed' = FALSE
Type  == place = "asked" /\ place' = place /\ typed' = TRUE
Enter == place = "asked" /\ typed /\ place' = "inside" /\ typed' = typed
Lock  == place = "inside" /\ place' = "asked" /\ typed' = FALSE
Leave == place = "asked" /\ place' = "outside" /\ typed' = typed

GateNext == Ask \/ Type \/ Enter \/ Lock \/ Leave

GateSpec == GateInit /\ [][GateNext]_gateVars
================================================================================
