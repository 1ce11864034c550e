------------------------------ MODULE CouponLedger ------------------------------
(***************************************************************************)
(* What the coupons promise the two people, with networks and screens left *)
(* out.  A coupon is given by a phone that goes on giving until it knows   *)
(* that it was heard; a coupon that was redeemed in the meantime is given  *)
(* back by that.  Once the phone knows, the coupon is given for good, and  *)
(* redeemed at most once and for ever.  Whoever is told that a gift or a   *)
(* redeem went through is told what has happened.                          *)
(***************************************************************************)
CONSTANTS Coupon, NotGiven

VARIABLES
    ledger,     \* per coupon: NotGiven, "unredeemed", "redeemed" or "givenBack"
    giving,     \* the coupons that a phone is still giving
    heard       \* what somebody was told went through, <<what, coupon>>

ledgerVars == <<ledger, giving, heard>>

LedgerInit ==
    /\ ledger \in [Coupon -> {NotGiven, "unredeemed", "redeemed"}]
    /\ giving = {}
    /\ heard = {}

Offer(c) ==
    /\ ledger[c] = NotGiven
    /\ giving' = giving \cup {c}
    /\ UNCHANGED <<ledger, heard>>

Give(c) ==
    /\ c \in giving /\ ledger[c] = NotGiven
    /\ ledger' = [ledger EXCEPT ![c] = "unredeemed"]
    /\ UNCHANGED <<giving, heard>>

GiveBack(c) ==
    /\ c \in giving /\ ledger[c] = "redeemed"
    /\ ledger' = [ledger EXCEPT ![c] = "givenBack"]
    /\ UNCHANGED <<giving, heard>>

\* The phone has its answer, or is refused.
Settle(c) ==
    /\ giving' = giving \ {c}
    /\ UNCHANGED <<ledger, heard>>

Redeem(c) ==
    /\ ledger[c] \in {"unredeemed", "givenBack"}
    /\ ledger' = [ledger EXCEPT ![c] = "redeemed"]
    /\ UNCHANGED <<giving, heard>>

HearGiven(c) ==
    /\ ledger[c] # NotGiven /\ c \notin giving
    /\ heard' = heard \cup {<<"set", c>>}
    /\ UNCHANGED <<ledger, giving>>

HearRedeemed(c) ==
    /\ ledger[c] \in {"redeemed", "givenBack"}
    /\ heard' = heard \cup {<<"update", c>>}
    /\ UNCHANGED <<ledger, giving>>

LedgerNext == \E c \in Coupon :
    \/ Offer(c) \/ Give(c) \/ GiveBack(c) \/ Settle(c)
    \/ Redeem(c) \/ HearGiven(c) \/ HearRedeemed(c)

LedgerSpec == LedgerInit /\ [][LedgerNext]_ledgerVars
================================================================================
