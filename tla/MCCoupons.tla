-------------------------------- MODULE MCCoupons --------------------------------
(* Instances of Coupons for TLC. *)
EXTENDS Coupons, TLC

CONSTANTS d1, d2, c1, c2

OnePerson == [d \in Device |-> {"Lauren"}]
EitherPerson == [d \in Device |-> Who]
OneEach == [d \in Device |-> IF d = d1 THEN {"Lauren"} ELSE {"Antonio"}]

\* The coupons waiting for Lauren; the other names are UUIDs still unused.
Waiting(ids) ==
    server = [doc \in Doc |-> IF doc \in {"Lauren"} \X ids
                              THEN [value |-> "unredeemed", version |-> 1] ELSE Missing]

NoneInit == Init /\ Waiting({})
OneInit  == Init /\ Waiting({c1})
TwoInit  == Init /\ Waiting({c1, c2})

NoneSpec == NoneInit /\ [][Next]_vars

\* A phone with two coupons waiting for Lauren, who alone uses it; or a phone
\* both use in turn, with one coupon to give.
UsedByOne == server[<<"Lauren", c2>>] # Missing
InTurn ==
    \/ UsedByOne /\ \A d \in Device : screen[d] # "Antonio"
    \/ ~UsedByOne /\ \A r \in requested : r[2][2] = c1
PhoneSpec == (NoneInit \/ TwoInit) /\ [][Next /\ InTurn']_vars

\* Two phones and one coupon to give.  It does not matter which person gives
\* it, and the gift sheet of the other one is left closed.
LaurenGives == presented[d2] \notin {"sheet", "sheetAlert"}
GivenSpec == NoneInit /\ [][Next /\ LaurenGives']_vars

OneFairSpec == OneInit /\ [][Next]_vars /\ Fairness /\ KillsStop

\* The state without the history of the open screens, which no action and
\* none of NothingLost, ToldIsTrue and LedgerSpec reads.
WithoutScreenHistory == <<firestoreVars, screenVars, requested, refused, told>>
================================================================================
