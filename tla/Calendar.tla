-------------------------------- MODULE Calendar --------------------------------
(***************************************************************************)
(* The calendar of Celeste on every device: OurCalendarViewController, the *)
(* AddCalendarEventViewController sheet and the action sheet it presents,  *)
(* and CalendarServices, over Firestore.  An event is the name of its      *)
(* document and its date.  Actions are touches, blocks of the main queue,  *)
(* and the events of the Firestore client and its surroundings.            *)
(***************************************************************************)
EXTENDS Firestore

CONSTANTS
    MaxPending,     \* bound: writes queued, and fetches awaited, on a device
    MaxBacklog      \* bound: posted blocks that a touch can still overtake

ASSUME CollectionIsCalendar == Collection = {"Calendar"}
ASSUME WriteCallbackIsKind == WriteCallback = {"posted", "removed"}
ASSUME MaxPendingAssumption == MaxPending \in Nat \ {0}
ASSUME MaxBacklogAssumption == MaxBacklog \in Nat

VARIABLES
    open,           \* per device: the calendar is on screen
    calendarData,   \* per device: the events of the last answer
    selectedDates,  \* per device: the dates selected in the FSCalendar
    calendarEventsTableData,    \* per device: the rows of the table
    presented,      \* per device: what the screen presents on top of itself
    chosen,         \* per device: the event the action sheet was opened for
    \* History, read by no action except that a UUID is never drawn twice:
    requested,      \* the writes asked for, <<op, event>>
    refused,        \* the writes the server refused, <<op, id>>
    told,           \* the events whose removal a screen was told of
    added,          \* per device: events added from the screen that is open
    gone,           \* per device: removals told to the screen that is open
    fetchFailed     \* per device: the last fetch of the open screen failed

screenVars == <<open, calendarData, selectedDates, calendarEventsTableData, presented, chosen>>
historyVars == <<requested, refused, told, added, gone, fetchFailed>>
vars == <<firestoreVars, screenVars, historyVars>>

Event == DocId \X Value
DocOf(event) == <<"Calendar", event[1]>>
Request == {"set", "delete"} \X Event
Block == WriteResult \cup QueryResult

\* The types of the variables; and nothing happens to a screen that is gone.
TypeOK ==
    /\ FirestoreTypeOK
    /\ mainQueue \in [Device -> Seq(Block)]
    /\ open \in [Device -> BOOLEAN]
    /\ calendarData \in [Device -> SUBSET Event]
    /\ selectedDates \in [Device -> SUBSET Value]
    /\ calendarEventsTableData \in [Device -> SUBSET Event]
    /\ presented \in [Device -> {"nothing", "alert", "sheet", "sheetAlert", "actions"}]
    /\ chosen \in [Device -> SUBSET Event]
    /\ requested \in SUBSET Request
    /\ refused \in SUBSET ({"set", "delete"} \X DocId)
    /\ told \in SUBSET DocId
    /\ added \in [Device -> SUBSET Event]
    /\ gone \in [Device -> SUBSET DocId]
    /\ fetchFailed \in [Device -> BOOLEAN]
    /\ \A d \in Device : ~open[d] => calendarData[d] = {} /\ presented[d] = "nothing"

Init ==
    /\ FirestoreInit
    /\ open = [d \in Device |-> FALSE]
    /\ calendarData = [d \in Device |-> {}]
    /\ selectedDates = [d \in Device |-> {}]
    /\ calendarEventsTableData = [d \in Device |-> {}]
    /\ presented = [d \in Device |-> "nothing"]
    /\ chosen = [d \in Device |-> {}]
    /\ requested = {} /\ refused = {} /\ told = {}
    /\ added = [d \in Device |-> {}]
    /\ gone = [d \in Device |-> {}]
    /\ fetchFailed = [d \in Device |-> FALSE]

(***************************************************************************)
(* Pieces of handlers.                                                     *)
(***************************************************************************)
TableOf(data, dates) == {event \in data : event[2] \in dates}

\* displayAlert on the calendar: UIKit drops what is presented on a
\* controller that already presents something.
AlertOnCalendar(now) == IF now = "nothing" THEN "alert" ELSE now

\* The screen is deallocated with what it presents.
ResetScreen(d) ==
    /\ open' = [open EXCEPT ![d] = FALSE]
    /\ calendarData' = [calendarData EXCEPT ![d] = {}]
    /\ selectedDates' = [selectedDates EXCEPT ![d] = {}]
    /\ calendarEventsTableData' = [calendarEventsTableData EXCEPT ![d] = {}]
    /\ presented' = [presented EXCEPT ![d] = "nothing"]
    /\ chosen' = [chosen EXCEPT ![d] = {}]
    /\ added' = [added EXCEPT ![d] = {}]
    /\ gone' = [gone EXCEPT ![d] = {}]
    /\ fetchFailed' = [fetchFailed EXCEPT ![d] = FALSE]

\* Handlers of the screen find it gone.  Those of an add sheet find the
\* sheet: its drop-down's selectionAction holds it for ever.
HeldByScreen == {"fetched", "removed"}

WriteWithoutScreen(m) == IF m.callback \in HeldByScreen THEN WithoutCallback(m) ELSE m

\* A fault: handlers that hold the screen strongly outlive it.
KeepHandlers(d) == UNCHANGED <<mutationQueue, listeners, mainQueue>>

\* What was still posted to the main queue does nothing any more.
ReleaseHandlers(d) ==
    /\ mutationQueue' = [mutationQueue EXCEPT ![d] =
           [i \in DOMAIN @ |-> WriteWithoutScreen(@[i])]]
    /\ listeners' = [listeners EXCEPT ![d] = [coll \in Collection |-> 0]]
    /\ mainQueue' = [mainQueue EXCEPT ![d] = <<>>]

(***************************************************************************)
(* Touches.  What is presented keeps touches from the screen below.        *)
(***************************************************************************)
Touchable(d) == open[d] /\ presented[d] = "nothing"

Fetched(d) == {i \in DOMAIN mainQueue[d] : mainQueue[d][i].callback = "fetched"}

CanFetch(d) == listeners[d]["Calendar"] + Cardinality(Fetched(d)) < MaxPending

\* Home presents a new OurCalendarViewController; viewDidLoad fetches.
OpenCalendar(d) ==
    /\ ~open[d]
    /\ open' = [open EXCEPT ![d] = TRUE]
    /\ GetDocuments(d, "Calendar")
    /\ UNCHANGED <<serverVars, mutationQueue, documentCache, watchStream, mainQueue,
                   calendarData, selectedDates, calendarEventsTableData, presented, chosen,
                   historyVars>>

\* backButton: dismiss(animated:).
BackTapped(d) ==
    /\ Touchable(d)
    /\ ResetScreen(d)
    /\ ReleaseHandlers(d)
    /\ UNCHANGED <<serverVars, documentCache, listenTargets, watchStream, configured,
                   requested, refused, told>>

\* didSelect and didDeselect: the table follows the selection.
DateTapped(d, date) ==
    /\ Touchable(d)
    /\ selectedDates' = [selectedDates EXCEPT ![d] =
           IF date \in @ THEN @ \ {date} ELSE @ \cup {date}]
    /\ calendarEventsTableData' = [calendarEventsTableData EXCEPT ![d] =
           TableOf(calendarData[d], selectedDates'[d])]
    /\ UNCHANGED <<firestoreVars, open, calendarData, presented, chosen, historyVars>>

\* addButton: a sheet for the selected dates, or an alert.
AddTapped(d) ==
    /\ Touchable(d)
    /\ presented' = [presented EXCEPT ![d] =
           IF selectedDates[d] = {} THEN AlertOnCalendar(@) ELSE "sheet"]
    /\ UNCHANGED <<firestoreVars, open, calendarData, selectedDates, calendarEventsTableData,
                   chosen, historyVars>>

\* submitTapped without a name or a type.
SubmitIncomplete(d) ==
    /\ presented[d] = "sheet"
    /\ presented' = [presented EXCEPT ![d] = "sheetAlert"]
    /\ UNCHANGED <<firestoreVars, open, calendarData, selectedDates, calendarEventsTableData,
                   chosen, historyVars>>

\* UUID() never gives a name that was ever given.
IsUUID(id) ==
    server[<<"Calendar", id>>] = Missing /\ \A date \in Value : <<"set", <<id, date>>>> \notin requested

\* One event with a name of its own for every selected date.
EventsFor(dates) ==
    {events \in [1..Cardinality(dates) -> {id \in DocId : IsUUID(id)} \X dates] :
        \A i, j \in DOMAIN events : i # j => events[i][1] # events[j][1]
                                              /\ events[i][2] # events[j][2]}

\* A fault: the events but the first get lost.
FirstEvent(events) == <<NewMutation("set", DocOf(events[1]), events[1][2], "posted")>>

NewEvents(events) == [i \in DOMAIN events |->
    NewMutation("set", DocOf(events[i]), events[i][2], "posted")]

\* submitTapped with a name and a type: postCalendarEvents queues every
\* write and completes with success at once, so the calendar fetches and
\* the sheet is dismissed.
SubmitTapped(d) ==
    /\ presented[d] = "sheet"
    /\ CanFetch(d)
    /\ Len(mutationQueue[d]) + Cardinality(selectedDates[d]) <= MaxPending
    /\ \E events \in EventsFor(selectedDates[d]) :
        LET new == {events[i] : i \in DOMAIN events}
        IN  /\ mutationQueue' = [mutationQueue EXCEPT ![d] = @ \o NewEvents(events)]
            /\ requested' = requested \cup {"set"} \X new
            /\ added' = [added EXCEPT ![d] = @ \cup new]
    /\ GetDocuments(d, "Calendar")
    /\ presented' = [presented EXCEPT ![d] = "nothing"]
    /\ UNCHANGED <<serverVars, documentCache, watchStream, mainQueue, open, calendarData,
                   selectedDates, calendarEventsTableData, chosen, refused, told, gone,
                   fetchFailed>>

\* The sheet is swiped away.
SheetSwiped(d) ==
    /\ presented[d] = "sheet"
    /\ presented' = [presented EXCEPT ![d] = "nothing"]
    /\ UNCHANGED <<firestoreVars, open, calendarData, selectedDates, calendarEventsTableData,
                   chosen, historyVars>>

\* calendarMoreTapped on a row: an action sheet that keeps the row's event.
MoreTapped(d, event) ==
    /\ Touchable(d)
    /\ event \in calendarEventsTableData[d]
    /\ presented' = [presented EXCEPT ![d] = "actions"]
    /\ chosen' = [chosen EXCEPT ![d] = {event}]
    /\ UNCHANGED <<firestoreVars, open, calendarData, selectedDates, calendarEventsTableData,
                   historyVars>>

\* A fault: the row is looked up again, in the table as it is now.
DeleteRow(d, event) ==
    /\ presented[d] = "actions"
    /\ event \in chosen[d]
    /\ Len(mutationQueue[d]) < MaxPending /\ Len(mainQueue[d]) <= MaxBacklog /\ CanFetch(d)
    /\ \E row \in calendarEventsTableData[d] :
        WriteMutation(d, "delete", DocOf(row), NoDocument, "removed")
    /\ presented' = [presented EXCEPT ![d] = "nothing"]
    /\ chosen' = [chosen EXCEPT ![d] = {}]
    /\ requested' = requested \cup {<<"delete", event>>}
    /\ UNCHANGED <<serverVars, documentCache, listenTargets, listeners, watchStream, configured,
                   mainQueue, open, calendarData, selectedDates, calendarEventsTableData,
                   refused, told, added, gone, fetchFailed>>

\* "Delete" in the action sheet: removeCalendarEvent on the event it keeps.
DeleteChosen(d, event) ==
    /\ presented[d] = "actions"
    /\ event \in chosen[d]
    /\ Len(mutationQueue[d]) < MaxPending /\ Len(mainQueue[d]) <= MaxBacklog /\ CanFetch(d)
    /\ WriteMutation(d, "delete", DocOf(event), NoDocument, "removed")
    /\ presented' = [presented EXCEPT ![d] = "nothing"]
    /\ chosen' = [chosen EXCEPT ![d] = {}]
    /\ requested' = requested \cup {<<"delete", event>>}
    /\ UNCHANGED <<serverVars, documentCache, listenTargets, listeners, watchStream, configured,
                   mainQueue, open, calendarData, selectedDates, calendarEventsTableData,
                   refused, told, added, gone, fetchFailed>>

\* "Dismiss" in the action sheet.
DismissChosen(d) ==
    /\ presented[d] = "actions"
    /\ presented' = [presented EXCEPT ![d] = "nothing"]
    /\ chosen' = [chosen EXCEPT ![d] = {}]
    /\ UNCHANGED <<firestoreVars, open, calendarData, selectedDates, calendarEventsTableData,
                   historyVars>>

\* OK on an alert.
AlertDismissed(d) ==
    /\ presented[d] \in {"alert", "sheetAlert"}
    /\ presented' = [presented EXCEPT ![d] = IF @ = "alert" THEN "nothing" ELSE "sheet"]
    /\ UNCHANGED <<firestoreVars, open, calendarData, selectedDates, calendarEventsTableData,
                   chosen, historyVars>>

(***************************************************************************)
(* Blocks of the main queue, each taken from its front.                    *)
(***************************************************************************)
Front(d, callback) == mainQueue[d] # <<>> /\ Head(mainQueue[d]).callback = callback
PopFront(d) == mainQueue' = [mainQueue EXCEPT ![d] = Tail(@)]

Decoded(docs) == {event \in Event : docs[event[1]] = event[2]}

\* A fault: the table keeps its rows.
FetchSucceededQuietly(d, docs) ==
    /\ calendarData' = [calendarData EXCEPT ![d] = Decoded(docs)]
    /\ fetchFailed' = [fetchFailed EXCEPT ![d] = FALSE]
    /\ UNCHANGED <<presented, calendarEventsTableData>>

\* getCalendarEvents completed: the data and the table are replaced.
FetchSucceeded(d, docs) ==
    /\ calendarData' = [calendarData EXCEPT ![d] = Decoded(docs)]
    /\ calendarEventsTableData' = [calendarEventsTableData EXCEPT ![d] =
           TableOf(Decoded(docs), selectedDates[d])]
    /\ fetchFailed' = [fetchFailed EXCEPT ![d] = FALSE]
    /\ UNCHANGED presented

FetchFailed(d) ==
    /\ presented' = [presented EXCEPT ![d] = AlertOnCalendar(@)]
    /\ fetchFailed' = [fetchFailed EXCEPT ![d] = TRUE]
    /\ UNCHANGED <<calendarData, calendarEventsTableData>>

FetchCompleted(d) ==
    /\ Front(d, "fetched")
    /\ PopFront(d)
    /\ LET result == Head(mainQueue[d])
       IN  \/ result.ok /\ FetchSucceeded(d, result.docs)
           \/ ~result.ok /\ FetchFailed(d)
    /\ UNCHANGED <<serverVars, clientVars, open, selectedDates, chosen, requested, refused,
                   told, added, gone>>

\* A fault: success does not fetch.
RemoveSucceededQuietly(d, id) ==
    /\ told' = told \cup {id}
    /\ gone' = [gone EXCEPT ![d] = @ \cup {id}]
    /\ UNCHANGED <<configured, listenTargets, listeners, presented>>

RemoveSucceeded(d, id) ==
    /\ GetDocuments(d, "Calendar")
    /\ told' = told \cup {id}
    /\ gone' = [gone EXCEPT ![d] = @ \cup {id}]
    /\ UNCHANGED presented

RemoveFailed(d) ==
    /\ presented' = [presented EXCEPT ![d] = AlertOnCalendar(@)]
    /\ UNCHANGED <<configured, listenTargets, listeners, told, gone>>

\* removeCalendarEvent completed.
RemoveCompleted(d) ==
    /\ Front(d, "removed")
    /\ PopFront(d)
    /\ LET result == Head(mainQueue[d])
       IN  \/ result.ok /\ RemoveSucceeded(d, result.doc[2])
           \/ ~result.ok /\ RemoveFailed(d)
    /\ UNCHANGED <<serverVars, mutationQueue, documentCache, watchStream, open, calendarData,
                   selectedDates, calendarEventsTableData, chosen, requested, refused, added,
                   fetchFailed>>

\* The handler of one setData: nothing if it was made; if it was refused,
\* displayAlert on a sheet that is no longer presented, which UIKit drops.
PostAnswered(d) ==
    /\ Front(d, "posted")
    /\ PopFront(d)
    /\ UNCHANGED <<serverVars, clientVars, screenVars, historyVars>>

(***************************************************************************)
(* The Firestore client and the world around the app.                      *)
(***************************************************************************)
ClientEvent(d) ==
    \/ Commit(d)
    \/ HandleSuccessfulWrite(d)
    \/ SendWatchSnapshot(d)
    \/ ApplyRemoteEvent(d)
    \/ HandleOnlineStateChange(d)
    \/ HandleRejectedListen(d)
    \/ Disconnect(d)
    \/ Connect(d)

WriteRefused(d) ==
    /\ HandleRejectedWrite(d)
    /\ refused' = refused \cup
           {<<Head(mutationQueue[d]).op, Head(mutationQueue[d]).doc[2]>>}
    /\ UNCHANGED <<screenVars, requested, told, added, gone, fetchFailed>>

\* The app is killed, by the user or the system; it starts closed again.
Kill(d) ==
    /\ KillProcess(d)
    /\ ResetScreen(d)
    /\ UNCHANGED <<requested, refused, told>>

MainBlock(d) ==
    \/ FetchCompleted(d)
    \/ RemoveCompleted(d)
    \/ PostAnswered(d)

Touch(d) ==
    \/ OpenCalendar(d)
    \/ BackTapped(d)
    \/ \E date \in Value : DateTapped(d, date)
    \/ AddTapped(d)
    \/ SubmitIncomplete(d)
    \/ SubmitTapped(d)
    \/ SheetSwiped(d)
    \/ \E event \in Event : MoreTapped(d, event) \/ DeleteChosen(d, event)
    \/ DismissChosen(d)
    \/ AlertDismissed(d)

Next ==
    \E d \in Device :
        \/ Touch(d)
        \/ MainBlock(d)
        \/ ClientEvent(d) /\ UNCHANGED <<screenVars, historyVars>>
        \/ WriteRefused(d)
        \/ Kill(d)

Spec == Init /\ [][Next]_vars

(***************************************************************************)
(* Properties.                                                             *)
(***************************************************************************)
IsQueued(op, id) == \E d \in Device : \E i \in DOMAIN mutationQueue[d] :
    mutationQueue[d][i].op = op /\ mutationQueue[d][i].doc[2] = id

\* An event was added when its document has existed.  It is removed when the
\* document does not exist, and is not still to be created for the first
\* time; or it was removed and then created a second time, which makes three
\* versions.
BroughtBack(id) == server[<<"Calendar", id>>].version > 2

Made(r) ==
    IF r[1] = "set" THEN server[DocOf(r[2])].version > 0
    ELSE \/ /\ server[DocOf(r[2])].value = NoDocument
            /\ server[DocOf(r[2])].version > 0 \/ ~IsQueued("set", r[2][1])
         \/ BroughtBack(r[2][1])

Refused(r) == <<r[1], r[2][1]>> \in refused

\* An addition or a removal the person asked for has been made, or is in the
\* queue of a device, or was refused: every one of the writes of one Submit,
\* although it is completed before any of them was sent.
NothingLost == \A r \in requested : Made(r) \/ Refused(r) \/ IsQueued(r[1], r[2][1])

FetchPending(d) == listeners[d]["Calendar"] > 0 \/ Fetched(d) # {}

\* "Added Events" is true of the screen that says so: an event added from it
\* is in the table when its date is selected, from the answer to the fetch
\* that follows on, unless that fetch failed, the server refused the event,
\* or somebody asked to remove it.
AddedIsShown ==
    \A d \in Device : \A event \in added[d] :
        \/ event[2] \notin selectedDates[d]
        \/ event \in calendarEventsTableData[d]
        \/ FetchPending(d) \/ fetchFailed[d]
        \/ <<"set", event[1]>> \in refused
        \/ <<"delete", event>> \in requested

\* An event whose removal this screen was told of is in the table only until
\* the fetch that follows is answered, or if that fetch failed.
NotShownOnceGone(ids) ==
    \A d \in Device : \A event \in calendarEventsTableData[d] :
        event[1] \in gone[d] \cap ids => FetchPending(d) \/ fetchFailed[d]
GoneIsNotShown == NotShownOnceGone(DocId)

\* While a screen is open a removed event that it no longer shows does not
\* come back: fetches started by opening, adding and removing are answered
\* in the order in which the client knew the documents.
StaysOnceGone(ids) ==
    \A d \in Device, event \in Event :
        /\ open[d] /\ open'[d]
        /\ event[1] \in gone[d] \cap ids /\ event \notin calendarData[d]
        => event \notin calendarData'[d]
GoneStaysGone == [][StaysOnceGone(DocId)]_vars

IsAdding(event) == \E d \in Device : \E i \in DOMAIN mutationQueue[d] :
    LET m == mutationQueue[d][i]
    IN  m.op = "set" /\ m.doc = DocOf(event) /\ m.value = event[2]

\* Server and screens together keep the promise of CalendarLedger.
Ledger == INSTANCE CalendarLedger WITH
    Id        <- DocId,
    Date      <- Value,
    NoDate    <- NoDocument,
    calendar  <- [id \in DocId |-> server[<<"Calendar", id>>].value],
    left      <- {id \in DocId : server[<<"Calendar", id>>].version > 1},
    proposed  <- {event \in Event : <<"set", event>> \in requested},
    adding    <- {event \in Event : IsAdding(event)},
    condemned <- {event \in Event : <<"delete", event>> \in requested},
    heard     <- told
LedgerSpec == Ledger!LedgerSpec
================================================================================
