------------------------------ MODULE CalendarLedger ------------------------------
(***************************************************************************)
(* What the shared calendar promises, with networks and screens left out:  *)
(* it holds only events somebody proposed, each under the date proposed    *)
(* for it; an event leaves only when somebody chose that event.  A phone   *)
(* goes on adding an event until it knows that it was heard, and an event  *)
(* that was removed in the meantime comes back by that; once it knows, the *)
(* event that leaves never comes back.  Whoever is told that an event is   *)
(* removed is told what has happened.                                      *)
(***************************************************************************)
CONSTANTS Id, Date, NoDate

VARIABLES
    calendar,   \* per event: its date, or NoDate
    left,       \* the events that have been removed
    proposed,   \* <<id, date>> somebody asked to add
    adding,     \* those that a phone is still adding
    condemned,  \* <<id, date>> somebody asked to remove
    heard       \* the events somebody was told are removed

ledgerVars == <<calendar, left, proposed, adding, condemned, heard>>

LedgerInit ==
    /\ calendar \in [Id -> Date \cup {NoDate}]
    /\ left = {} /\ proposed = {} /\ adding = {} /\ condemned = {} /\ heard = {}

\* New events, each with a name of its own.
Propose(events) ==
    /\ \A event \in events :
        /\ calendar[event[1]] = NoDate /\ event[1] \notin left
        /\ \A other \in proposed \cup events : other[1] = event[1] => other = event
        /\ event \notin proposed
    /\ proposed' = proposed \cup events
    /\ adding' = adding \cup events
    /\ UNCHANGED <<calendar, left, condemned, heard>>

Condemn(event) ==
    /\ condemned' = condemned \cup {event}
    /\ UNCHANGED <<calendar, left, proposed, adding, heard>>

Add(id, date) ==
    /\ <<id, date>> \in adding /\ calendar[id] = NoDate
    /\ calendar' = [calendar EXCEPT ![id] = date]
    /\ UNCHANGED <<left, proposed, adding, condemned, heard>>

\* The phone has its answer, or is refused.
Settle(id, date) ==
    /\ adding' = adding \ {<<id, date>>}
    /\ UNCHANGED <<calendar, left, proposed, condemned, heard>>

Remove(id) ==
    /\ <<id, calendar[id]>> \in condemned
    /\ calendar' = [calendar EXCEPT ![id] = NoDate]
    /\ left' = left \cup {id}
    /\ UNCHANGED <<proposed, adding, condemned, heard>>

\* An event that has left, or that will never come.
HearRemoved(id) ==
    /\ \/ id \in left
       \/ calendar[id] = NoDate /\ \A date \in Date : <<id, date>> \notin adding
    /\ heard' = heard \cup {id}
    /\ UNCHANGED <<calendar, left, proposed, adding, condemned>>

LedgerNext ==
    \/ \E events \in SUBSET (Id \X Date) : Propose(events)
    \/ \E event \in Id \X Date : Condemn(event)
    \/ \E id \in Id, date \in Date : Add(id, date) \/ Settle(id, date)
    \/ \E id \in Id : Remove(id) \/ HearRemoved(id)

LedgerSpec == LedgerInit /\ [][LedgerNext]_ledgerVars
================================================================================
