-------------------------------- MODULE MCCalendar --------------------------------
(* Instances of Calendar for TLC. *)
EXTENDS Calendar, TLC

CONSTANTS d1, d2, e1, e2, a, b

\* The events in the calendar at first, all on one date; the other names are
\* UUIDs still unused.
Planned(ids) ==
    server = [doc \in Doc |-> IF doc[2] \in ids
                              THEN [value |-> a, version |-> 1] ELSE Missing]

EmptyInit == Init /\ Planned({})
OneInit   == Init /\ Planned({e1})

EmptySpec == EmptyInit /\ [][Next]_vars

\* Events are only added.
NobodyDeletes == requested \cap {"delete"} \X Event = {}
AddingSpec == EmptyInit /\ [][Next /\ NobodyDeletes']_vars

\* Incomplete submits, and dates selected late or deselected, are left to
\* AddingSpec: the table follows the selection, so that it does not matter to
\* anything else when a date is selected.  Nor is the add sheet opened once
\* every name is given, when it could only be swiped away again.
Selecting(d) == open[d] /\ selectedDates[d] = {} => selectedDates'[d] # {}
Deselecting(d) == open'[d] /\ ~(selectedDates[d] \subseteq selectedDates'[d])
Idle(d) == presented'[d] = "sheet" /\ ~\E id \in DocId : IsUUID(id)'
Straight == \A d \in Device :
    Selecting(d) /\ ~Deselecting(d) /\ presented'[d] # "sheetAlert" /\ ~Idle(d)
OneSpec == OneInit /\ [][Next /\ Straight]_vars

\* What concerns the screen of one phone only is left to the runs with one
\* phone: alerts, and what is presented on one phone while something is
\* presented on the other.
Presenting(d) == presented[d] \in {"sheet", "actions"}
Alerting(d) == presented[d] = "alert" \/ \E i \in Fetched(d) : ~mainQueue[d][i].ok
Apart == /\ \A d \in Device : ~Alerting(d)
         /\ \A d, other \in Device : Presenting(d) /\ Presenting(other) => d = other
ApartSpec == EmptyInit /\ [][Next /\ Straight /\ Apart']_vars

\* Installations are alike, and so are unused names, and dates.
Alike == Permutations(Device) \cup Permutations(DocId) \cup Permutations(Value)

\* The state without the history of the open screens, which no action and
\* neither NothingLost nor LedgerSpec reads.
WithoutScreenHistory == <<firestoreVars, screenVars, requested, refused, told>>
================================================================================
