----------------------------- MODULE CalendarProofs -----------------------------

(***************************************************************************)
(* The types of Calendar, for every number of devices, names and dates and *)
(* every bound, and with them what the queues of a device hold: additions  *)
(* and removals, and nothing that a closed screen would have to answer.    *)
(***************************************************************************)
EXTENDS Calendar, FirestoreProofs, FiniteSetTheorems

(***************************************************************************)
(* TypeOK is inductive together with three facts: the writes queued are    *)
(* additions and removals; no fetch and no removal is answered to a screen *)
(* that is closed, or its handler would show events to nobody; and only    *)
(* finitely many dates are selected, so that an addition has as many       *)
(* writes as it has dates.                                                 *)
(***************************************************************************)
ScreenTypeOK ==
    /\ open \in [Device -> BOOLEAN]
    /\ calendarData \in [Device -> SUBSET Event]
    /\ selectedDates \in [Device -> SUBSET Value]
    /\ calendarEventsTableData \in [Device -> SUBSET Event]
    /\ presented \in [Device -> {"nothing", "alert", "sheet", "sheetAlert", "actions"}]
    /\ chosen \in [Device -> SUBSET Event]
    /\ added \in [Device -> SUBSET Event]
    /\ gone \in [Device -> SUBSET DocId]
    /\ fetchFailed \in [Device -> BOOLEAN]
    /\ \A d \in Device : ~open[d] => calendarData[d] = {} /\ presented[d] = "nothing"

RequestTypeOK ==
    /\ requested \in SUBSET Request
    /\ refused \in SUBSET ({"set", "delete"} \X DocId)
    /\ told \in SUBSET DocId

CalendarWrite(m) ==
    \/ m.op = "set" /\ m.value \in Value /\ m.callback \in {"posted", NoCallback}
    \/ m.op = "delete" /\ m.value = NoDocument /\ m.callback \in {"removed", NoCallback}

CalendarWrites ==
    \A d \in Device : \A i \in DOMAIN mutationQueue[d] : CalendarWrite(mutationQueue[d][i])

ClosedIsQuiet ==
    \A d \in Device : ~open[d] =>
        /\ listeners[d]["Calendar"] = 0
        /\ \A i \in DOMAIN mainQueue[d] : mainQueue[d][i].callback \notin HeldByScreen
        /\ \A i \in DOMAIN mutationQueue[d] : mutationQueue[d][i].callback # "removed"

SelectionFinite == \A d \in Device : IsFiniteSet(selectedDates[d])

TypeInv == TypeOK /\ CalendarWrites /\ ClosedIsQuiet /\ SelectionFinite

LEMMA TypeParts == TypeOK <=> QueueTypes(Block) /\ ScreenTypeOK /\ RequestTypeOK
  BY DEF TypeOK, QueueTypes, ScreenTypeOK, RequestTypeOK, Block

LEMMA CallbackKinds ==
    /\ NoCallback \notin {"posted", "removed", "fetched"}
    /\ "Calendar" \in Collection /\ Collection = {"Calendar"}
    /\ \A b \in Block : b.callback \in {"posted", "removed", "fetched"}
  BY NoCallbackAssumption, WriteCallbackIsKind, CollectionIsCalendar
  DEF Block, WriteResult, QueryResult

LEMMA TypeInit == Init => TypeInv
<1> SUFFICES ASSUME Init PROVE TypeInv
  OBVIOUS
<1> USE DEF Init, FirestoreInit
<1>1. FirestoreTypeOK
  BY EmptySeq DEF FirestoreTypeOK, Document, Missing, Version, MaybeValue
<1>2. TypeOK
  BY <1>1, EmptySeq DEF TypeOK
<1>3. CalendarWrites /\ ClosedIsQuiet
  BY CallbackKinds DEF CalendarWrites, ClosedIsQuiet
<1>4. SelectionFinite
  BY FS_EmptySet DEF SelectionFinite
<1> QED
  BY <1>2, <1>3, <1>4 DEF TypeInv

(***************************************************************************)
(* What keeps the facts about the queues.                                  *)
(***************************************************************************)

\* Every block is one that was posted before.
BlocksKept ==
    \A e \in Device : \A i \in DOMAIN mainQueue'[e] :
        \E j \in DOMAIN mainQueue[e] : mainQueue'[e][i] = mainQueue[e][j]

LEMMA SameBlocksKept ==
    ASSUME mainQueue' = mainQueue
    PROVE  BlocksKept
  BY DEF BlocksKept

LEMMA PopFrontKeeps ==
    ASSUME TypeInv, NEW d \in Device, mainQueue[d] # <<>>, PopFront(d)
    PROVE  /\ mainQueue' \in [Device -> Seq(Block)]
           /\ BlocksKept
           /\ Head(mainQueue[d]) \in Block
           /\ \E i \in DOMAIN mainQueue[d] : Head(mainQueue[d]) = mainQueue[d][i]
<1>1. mainQueue \in [Device -> Seq(Block)]
  BY DEF TypeInv, TypeOK
<1>2. mainQueue' = [mainQueue EXCEPT ![d] = Tail(mainQueue[d])]
  BY DEF PopFront
<1>3. /\ mainQueue' \in [Device -> Seq(Block)]
      /\ Head(mainQueue[d]) \in Block /\ Head(mainQueue[d]) = mainQueue[d][1]
      /\ 1 \in DOMAIN mainQueue[d]
      /\ \A e \in Device \ {d} : mainQueue'[e] = mainQueue[e]
      /\ \A i \in DOMAIN mainQueue'[d] :
            i + 1 \in DOMAIN mainQueue[d] /\ mainQueue'[d][i] = mainQueue[d][i + 1]
  BY <1>1, <1>2, ShrunkQueue
<1>4. BlocksKept
  BY <1>3 DEF BlocksKept
<1> QED
  BY <1>3, <1>4

LEMMA WritesKeptQuiet ==
    ASSUME TypeInv, WritesKept
    PROVE  /\ CalendarWrites'
           /\ \A d \in Device : ~open[d] =>
                \A i \in DOMAIN mutationQueue'[d] : mutationQueue'[d][i].callback # "removed"
  BY CallbackKinds DEF TypeInv, CalendarWrites, CalendarWrite, ClosedIsQuiet, WritesKept, KeptWrite

LEMMA BlocksKeptQuiet ==
    ASSUME TypeInv, BlocksKept
    PROVE  \A d \in Device : ~open[d] =>
                \A i \in DOMAIN mainQueue'[d] : mainQueue'[d][i].callback \notin HeldByScreen
  BY DEF TypeInv, ClosedIsQuiet, BlocksKept

\* A block that is posted: to an open screen, or one it does not hold.
LEMMA PostedQuiet ==
    ASSUME TypeInv, NEW d \in Device, NEW n, NEW block, Posted(d, n, block),
           n > 0 /\ ~open[d] => block.callback \notin HeldByScreen
    PROVE  \A e \in Device : ~open[e] =>
                \A i \in DOMAIN mainQueue'[e] : mainQueue'[e][i].callback \notin HeldByScreen
  BY DEF TypeInv, ClosedIsQuiet, Posted

LEMMA QuietKept ==
    ASSUME TypeInv, WritesKept, BlocksKept, UNCHANGED <<open, listeners>>
    PROVE  CalendarWrites' /\ ClosedIsQuiet'
  BY WritesKeptQuiet, BlocksKeptQuiet DEF TypeInv, ClosedIsQuiet

(***************************************************************************)
(* The events of the client.                                               *)
(***************************************************************************)

\* The oldest write leaves its queue, and its handler is told.
LEMMA WriteLeavesQuiet ==
    ASSUME TypeInv, NEW d \in Device, NEW ok \in BOOLEAN, mutationQueue[d] # <<>>,
           NotifyUser(d, Head(mutationQueue[d]), ok),
           mutationQueue' = [mutationQueue EXCEPT ![d] = Tail(mutationQueue[d])],
           UNCHANGED <<open, listeners>>
    PROVE  CalendarWrites' /\ ClosedIsQuiet'
<1> DEFINE m == Head(mutationQueue[d])
           answer == [callback |-> m.callback, ok |-> ok, doc |-> m.doc]
<1>1. mutationQueue \in [Device -> Seq(Mutation)] /\ QueueTypes(Block)
  BY TypeParts DEF TypeInv, TypeOK, FirestoreTypeOK
<1>2. /\ m \in Mutation /\ m = mutationQueue[d][1] /\ 1 \in DOMAIN mutationQueue[d]
      /\ \A e \in Device \ {d} : mutationQueue'[e] = mutationQueue[e]
      /\ \A i \in DOMAIN mutationQueue'[d] : /\ i + 1 \in DOMAIN mutationQueue[d]
                                            /\ mutationQueue'[d][i] = mutationQueue[d][i + 1]
  BY <1>1, ShrunkQueue
<1>3. \A e \in Device : \A i \in DOMAIN mutationQueue'[e] :
        \E j \in DOMAIN mutationQueue[e] : mutationQueue'[e][i] = mutationQueue[e][j]
  BY <1>2
<1>4. \A e \in Device : ~open[e] =>
        \A i \in DOMAIN mainQueue'[e] : mainQueue'[e][i].callback \notin HeldByScreen
  <2>1. answer.callback = m.callback
    OBVIOUS
  <2>2. CASE m.callback = NoCallback /\ mainQueue' = mainQueue
    BY <2>2, BlocksKeptQuiet, SameBlocksKept
  <2>3. CASE Posted(d, 1, answer)
    <3>1. ~open[d] => m.callback \notin HeldByScreen
      BY <1>2, CallbackKinds DEF TypeInv, CalendarWrites, CalendarWrite, ClosedIsQuiet, HeldByScreen
    <3> HIDE DEF answer, m
    <3> QED
      BY <2>1, <2>3, <3>1, PostedQuiet
  <2> QED
    BY <1>1, <1>2, <2>2, <2>3, NotifyUserPosts
<1> QED
  BY <1>3, <1>4 DEF TypeInv, CalendarWrites, ClosedIsQuiet

LEMMA ClientEventQuiet ==
    ASSUME TypeInv, NEW d \in Device, ClientEvent(d) \/ HandleRejectedWrite(d), open' = open
    PROVE  CalendarWrites' /\ ClosedIsQuiet'
<1> USE DEF serverVars, clientVars
<1>0. QueueTypes(Block) /\ FirestoreTypeOK
  BY TypeParts DEF TypeInv, QueueTypes
<1>1. CASE Commit(d)
  <2>1. PICK i \in DOMAIN mutationQueue[d] : WriteMade(d, i)
    BY <1>0, <1>1, CommitMakesWrite
  <2>2. /\ \A e \in Device : DOMAIN mutationQueue'[e] = DOMAIN mutationQueue[e]
        /\ \A e \in Device : \A j \in DOMAIN mutationQueue[e] :
            /\ mutationQueue'[e][j].op = mutationQueue[e][j].op
            /\ mutationQueue'[e][j].value = mutationQueue[e][j].value
            /\ mutationQueue'[e][j].callback = mutationQueue[e][j].callback
    BY <2>1 DEF WriteMade
  <2>3. UNCHANGED <<listeners, mainQueue>>
    BY <1>1 DEF Commit
  <2> QED
    BY <2>2, <2>3 DEF TypeInv, CalendarWrites, CalendarWrite, ClosedIsQuiet
<1>2. CASE HandleSuccessfulWrite(d)
  <2>1. UNCHANGED listeners
    BY <1>2 DEF HandleSuccessfulWrite
  <2> QED
    BY <1>0, <1>2, <2>1, HandleSuccessfulWriteDoes, WriteLeavesQuiet
<1>3. CASE HandleRejectedWrite(d)
  BY <1>3, WriteLeavesQuiet DEF HandleRejectedWrite
<1>4. CASE SendWatchSnapshot(d) \/ Disconnect(d) \/ Connect(d)
  <2>1. UNCHANGED <<listeners, mainQueue>>
    BY <1>4 DEF SendWatchSnapshot, Disconnect, Connect
  <2>2. WritesKept
    BY <1>0, <1>4, ConnectionKeepsWrites, SameWritesKept DEF SendWatchSnapshot
  <2> QED
    BY <2>1, <2>2, QuietKept, SameBlocksKept
<1>5. CASE ApplyRemoteEvent(d) \/ HandleOnlineStateChange(d) \/ HandleRejectedListen(d)
  <2>1. PICK coll \in Collection, block \in QueryResult :
            /\ Posted(d, listeners[d][coll], block)
            /\ listeners' = [listeners EXCEPT ![d][coll] = 0]
    BY <1>0, <1>5, FetchesPosted
  <2>2. WritesKept
    BY <1>0, <1>5, FetchesAnswered, SameWritesKept
  <2>3. coll = "Calendar" /\ listeners \in [Device -> [Collection -> Nat]]
    BY <1>0, CallbackKinds DEF FirestoreTypeOK
  <2>4. \A e \in Device : ~open[e] => listeners'[e]["Calendar"] = 0
    BY <2>1, <2>3, CallbackKinds DEF TypeInv, ClosedIsQuiet
  <2>5. listeners[d][coll] > 0 /\ ~open[d] => block.callback \notin HeldByScreen
    BY <2>3 DEF TypeInv, ClosedIsQuiet
  <2>6. \A e \in Device : ~open[e] =>
            \A i \in DOMAIN mainQueue'[e] : mainQueue'[e][i].callback \notin HeldByScreen
    BY <2>1, <2>5, PostedQuiet
  <2> QED
    BY <2>2, <2>4, <2>6, WritesKeptQuiet DEF ClosedIsQuiet
<1> QED
  BY <1>1, <1>2, <1>3, <1>4, <1>5 DEF ClientEvent

LEMMA ClientEventType ==
    ASSUME TypeInv, NEW d \in Device, ClientEvent(d), UNCHANGED <<screenVars, historyVars>>
    PROVE  TypeInv'
<1>1. QueueTypes(Block)'
  BY TypeParts, ClientStepType DEF TypeInv, ClientEvent, ClientStep
<1>2. ScreenTypeOK' /\ RequestTypeOK'
  BY TypeParts DEF TypeInv, ScreenTypeOK, RequestTypeOK, screenVars, historyVars
<1>3. TypeOK'
  BY <1>1, <1>2 DEF TypeOK, QueueTypes, ScreenTypeOK, RequestTypeOK, Block
<1>4. SelectionFinite'
  BY DEF TypeInv, SelectionFinite, screenVars
<1> QED
  BY <1>3, <1>4, ClientEventQuiet DEF TypeInv, screenVars

LEMMA WriteRefusedType ==
    ASSUME TypeInv, NEW d \in Device, WriteRefused(d)
    PROVE  TypeInv'
<1> DEFINE m == Head(mutationQueue[d])
<1>1. QueueTypes(Block)'
  BY TypeParts, ClientStepType DEF TypeInv, WriteRefused, ClientStep
<1>2. mutationQueue[d] # <<>> /\ mutationQueue[d] \in Seq(Mutation)
  BY DEF WriteRefused, HandleRejectedWrite, TypeInv, TypeOK, FirestoreTypeOK
<1>3. m \in Mutation /\ m = mutationQueue[d][1] /\ 1 \in DOMAIN mutationQueue[d]
  BY <1>2, TailElement, HeadTailProperties
<1>4. m.op \in {"set", "delete"} /\ m.doc[2] \in DocId
  BY <1>3 DEF TypeInv, CalendarWrites, CalendarWrite, Mutation, Doc
<1>5. refused' \in SUBSET ({"set", "delete"} \X DocId)
  BY <1>4 DEF WriteRefused, TypeInv, TypeOK
<1>6. ScreenTypeOK' /\ RequestTypeOK'
  BY <1>5, TypeParts DEF TypeInv, ScreenTypeOK, RequestTypeOK, WriteRefused, screenVars
<1>7. TypeOK'
  BY <1>1, <1>6 DEF TypeOK, QueueTypes, ScreenTypeOK, RequestTypeOK, Block
<1>8. SelectionFinite'
  BY DEF TypeInv, SelectionFinite, WriteRefused, screenVars
<1> QED
  BY <1>7, <1>8, ClientEventQuiet DEF TypeInv, WriteRefused, screenVars

(***************************************************************************)
(* Lemmas about the pieces of handlers.                                    *)
(***************************************************************************)

\* One Submit: for each date one event, of a name of its own that is unused,
\* and one write for each event.
LEMMA EventsForWrites ==
    ASSUME TypeInv, NEW d \in Device, NEW events \in EventsFor(selectedDates[d])
    PROVE  /\ DOMAIN events = 1..Cardinality(selectedDates[d])
           /\ Cardinality(selectedDates[d]) \in Nat
           /\ \A i \in DOMAIN events :
                /\ events[i] \in Event /\ IsUUID(events[i][1])
                /\ events[i] = <<events[i][1], events[i][2]>>
           /\ \A i, j \in DOMAIN events : events[i][1] = events[j][1] => i = j
           /\ NewEvents(events) \in Seq(Mutation) /\ DOMAIN NewEvents(events) = DOMAIN events
           /\ \A i \in DOMAIN events : LET m == NewEvents(events)[i] IN
                /\ m.op = "set" /\ m.doc = DocOf(events[i]) /\ m.value = events[i][2]
                /\ m.callback = "posted" /\ ~m.committed
<1> DEFINE dates == selectedDates[d]
           n == Cardinality(dates)
<1>1. dates \in SUBSET Value /\ n \in Nat
  BY FS_CardinalityType DEF TypeInv, TypeOK, SelectionFinite
<1>2. /\ events \in [1..n -> {id \in DocId : IsUUID(id)} \X dates]
      /\ \A i, j \in DOMAIN events : i # j => events[i][1] # events[j][1]
  BY DEF EventsFor
<1>3. DOMAIN events = 1..n
  BY <1>2
<1>4. \A i \in DOMAIN events :
        /\ events[i] \in Event /\ IsUUID(events[i][1]) /\ events[i] = <<events[i][1], events[i][2]>>
        /\ DocOf(events[i]) \in Doc /\ events[i][2] \in Value
  BY <1>1, <1>2, <1>3, CallbackKinds DEF Event, DocOf, Doc
<1>5. \A i \in DOMAIN events :
        LET m == NewMutation("set", DocOf(events[i]), events[i][2], "posted")
        IN  /\ m \in Mutation /\ m.op = "set" /\ m.doc = DocOf(events[i])
            /\ m.value = events[i][2] /\ m.callback = "posted" /\ ~m.committed
  BY <1>4, WriteCallbackIsKind DEF NewMutation, Mutation, MaybeValue, Version
<1>6. NewEvents(events) \in [1..n -> Mutation]
  BY <1>3, <1>5 DEF NewEvents
<1>7. NewEvents(events) \in Seq(Mutation) /\ DOMAIN NewEvents(events) = DOMAIN events
  BY <1>1, <1>3, <1>6
<1>8. \A i \in DOMAIN events : NewEvents(events)[i]
            = NewMutation("set", DocOf(events[i]), events[i][2], "posted")
  BY DEF NewEvents
<1> QED
  BY <1>1, <1>2, <1>3, <1>4, <1>5, <1>7, <1>8

LEMMA GetDocumentsType ==
    ASSUME TypeInv, NEW d \in Device, GetDocuments(d, "Calendar")
    PROVE  /\ configured' \in [Device -> BOOLEAN]
           /\ listenTargets' \in [Device -> SUBSET Collection]
           /\ listeners' \in [Device -> [Collection -> Nat]]
           /\ \A e \in Device \ {d} : listeners'[e] = listeners[e]
           /\ listeners'[d]["Calendar"] = listeners[d]["Calendar"] + 1
  BY CallbackKinds DEF TypeInv, TypeOK, FirestoreTypeOK, GetDocuments

LEMMA ResetScreenType ==
    ASSUME TypeInv, NEW d \in Device, ResetScreen(d)
    PROVE  /\ ScreenTypeOK' /\ SelectionFinite'
           /\ open'[d] = FALSE /\ \A e \in Device \ {d} : open'[e] = open[e]
<1>1. SelectionFinite'
  BY FS_EmptySet DEF TypeInv, TypeOK, SelectionFinite, ResetScreen
<1>2. /\ open' \in [Device -> BOOLEAN]
      /\ calendarData' \in [Device -> SUBSET Event]
      /\ selectedDates' \in [Device -> SUBSET Value]
      /\ calendarEventsTableData' \in [Device -> SUBSET Event]
      /\ presented' \in [Device -> {"nothing", "alert", "sheet", "sheetAlert", "actions"}]
      /\ chosen' \in [Device -> SUBSET Event]
      /\ added' \in [Device -> SUBSET Event]
      /\ gone' \in [Device -> SUBSET DocId]
      /\ fetchFailed' \in [Device -> BOOLEAN]
      /\ open'[d] = FALSE /\ \A e \in Device \ {d} : open'[e] = open[e]
  BY DEF TypeInv, TypeOK, ResetScreen
<1>3. \A e \in Device : ~open'[e] => calendarData'[e] = {} /\ presented'[e] = "nothing"
  BY DEF TypeInv, TypeOK, ResetScreen
<1> QED
  BY <1>1, <1>2, <1>3 DEF ScreenTypeOK

\* Handlers of a screen that goes are taken from its writes, those of the
\* add sheet stay.
LEMMA WriteWithoutScreenKeeps ==
    ASSUME NEW q \in Seq(Mutation), \A i \in DOMAIN q : CalendarWrite(q[i])
    PROVE  LET queue == [i \in DOMAIN q |-> WriteWithoutScreen(q[i])]
           IN  /\ queue \in Seq(Mutation) /\ DOMAIN queue = DOMAIN q
               /\ \A i \in DOMAIN q : KeptWrite(queue[i], q[i]) /\ queue[i].callback # "removed"
<1> DEFINE queue == [i \in DOMAIN q |-> WriteWithoutScreen(q[i])]
<1>1. /\ DOMAIN q = 1..Len(q) /\ Len(q) \in Nat
      /\ \A i \in DOMAIN q : q[i] \in Mutation
  BY ElementOfSeq, LenProperties
<1>2. \A m \in Mutation : /\ WriteWithoutScreen(m) \in Mutation
                        /\ KeptWrite(WriteWithoutScreen(m), m)
                        /\ WriteWithoutScreen(m).callback # "removed"
  <2> TAKE m \in Mutation
  <2>1. KeptWrite(m, m)
    BY DEF KeptWrite
  <2> QED
    BY <2>1, WithoutCallbackKeeps, CallbackKinds DEF WriteWithoutScreen, HeldByScreen
<1>3. queue \in [1..Len(q) -> Mutation]
  BY <1>1, <1>2
<1>4. queue \in Seq(Mutation) /\ DOMAIN queue = DOMAIN q
  BY <1>1, <1>3
<1> QED
  BY <1>1, <1>2, <1>4

(***************************************************************************)
(* Touches.                                                                *)
(***************************************************************************)
LEMMA TypeOfParts ==
    ASSUME QueueTypes(Block)', ScreenTypeOK', RequestTypeOK', CalendarWrites', ClosedIsQuiet',
           SelectionFinite'
    PROVE  TypeInv'
  BY DEF TypeInv, TypeOK, QueueTypes, ScreenTypeOK, RequestTypeOK

LEMMA OpenCalendarType ==
    ASSUME TypeInv, NEW d \in Device, OpenCalendar(d)
    PROVE  TypeInv'
<1> USE DEF serverVars, historyVars
<1>1. /\ configured' \in [Device -> BOOLEAN]
      /\ listenTargets' \in [Device -> SUBSET Collection]
      /\ listeners' \in [Device -> [Collection -> Nat]]
      /\ \A e \in Device \ {d} : listeners'[e] = listeners[e]
  BY GetDocumentsType DEF OpenCalendar
<1>2. QueueTypes(Block)'
  BY <1>1, TypeParts DEF TypeInv, QueueTypes, FirestoreTypeOK, OpenCalendar
<1>3. ScreenTypeOK' /\ RequestTypeOK'
  BY TypeParts DEF TypeInv, ScreenTypeOK, RequestTypeOK, OpenCalendar
<1>4. /\ open'[d] = TRUE /\ \A e \in Device \ {d} : open'[e] = open[e]
      /\ UNCHANGED <<mutationQueue, mainQueue>>
  BY DEF OpenCalendar, TypeInv, TypeOK
<1>5. ClosedIsQuiet'
  BY <1>1, <1>4 DEF TypeInv, ClosedIsQuiet
<1>6. CalendarWrites' /\ SelectionFinite'
  BY <1>4 DEF OpenCalendar, TypeInv, CalendarWrites, SelectionFinite
<1> QED
  BY <1>2, <1>3, <1>5, <1>6, TypeOfParts

\* A screen that goes leaves nothing to answer.
LEMMA GoneScreenQuiet ==
    ASSUME TypeInv, NEW d \in Device, WritesKept, ResetScreen(d),
           \A i \in DOMAIN mutationQueue[d] : mutationQueue'[d][i].callback # "removed",
           listeners' = [listeners EXCEPT ![d] = [coll \in Collection |-> 0]],
           mainQueue' = [mainQueue EXCEPT ![d] = <<>>]
    PROVE  CalendarWrites' /\ ClosedIsQuiet'
<1>1. /\ mainQueue'[d] = <<>> /\ \A e \in Device \ {d} : mainQueue'[e] = mainQueue[e]
      /\ listeners'[d]["Calendar"] = 0 /\ \A e \in Device \ {d} : listeners'[e] = listeners[e]
  BY CallbackKinds DEF TypeInv, TypeOK, FirestoreTypeOK
<1>2. /\ open'[d] = FALSE /\ \A e \in Device \ {d} : open'[e] = open[e]
  BY ResetScreenType
<1>3. DOMAIN mutationQueue'[d] = DOMAIN mutationQueue[d]
  BY DEF WritesKept
<1>4. ClosedIsQuiet'
  <2> SUFFICES ASSUME NEW e \in Device, ~open'[e]
               PROVE  /\ listeners'[e]["Calendar"] = 0
                      /\ \A i \in DOMAIN mainQueue'[e] : mainQueue'[e][i].callback \notin HeldByScreen
                      /\ \A i \in DOMAIN mutationQueue'[e] :
                            mutationQueue'[e][i].callback # "removed"
    BY DEF ClosedIsQuiet
  <2>1. CASE e = d
    BY <1>1, <1>3, <2>1
  <2>2. CASE e # d
    BY <1>1, <1>2, <2>2, WritesKeptQuiet DEF TypeInv, ClosedIsQuiet
  <2> QED
    BY <2>1, <2>2
<1> QED
  BY <1>4, WritesKeptQuiet

LEMMA BackTappedKeeps ==
    ASSUME TypeInv, NEW d \in Device, ReleaseHandlers(d)
    PROVE  /\ WritesKept /\ mutationQueue' \in [Device -> Seq(Mutation)]
           /\ \A i \in DOMAIN mutationQueue[d] : mutationQueue'[d][i].callback # "removed"
<1> DEFINE q == mutationQueue[d]
           queue == [i \in DOMAIN q |-> WriteWithoutScreen(q[i])]
<1>1. FirestoreTypeOK /\ q \in Seq(Mutation) /\ \A i \in DOMAIN q : CalendarWrite(q[i])
  BY DEF TypeInv, TypeOK, FirestoreTypeOK, CalendarWrites
<1>2. /\ queue \in Seq(Mutation) /\ DOMAIN queue = DOMAIN q
      /\ \A i \in DOMAIN q : KeptWrite(queue[i], q[i]) /\ queue[i].callback # "removed"
  BY <1>1, WriteWithoutScreenKeeps
<1>3. mutationQueue' = [mutationQueue EXCEPT ![d] = queue]
  BY DEF ReleaseHandlers
<1> HIDE DEF queue
<1>4. WritesKept
  BY <1>1, <1>2, <1>3, MappedQueueKeeps
<1>5. mutationQueue' \in [Device -> Seq(Mutation)] /\ mutationQueue'[d] = queue
  BY <1>1, <1>2, <1>3 DEF FirestoreTypeOK
<1> QED
  BY <1>2, <1>4, <1>5

LEMMA BackTappedType ==
    ASSUME TypeInv, NEW d \in Device, BackTapped(d)
    PROVE  TypeInv'
<1> USE DEF serverVars
<1>1. /\ WritesKept /\ mutationQueue' \in [Device -> Seq(Mutation)]
      /\ \A i \in DOMAIN mutationQueue[d] : mutationQueue'[d][i].callback # "removed"
  BY BackTappedKeeps DEF BackTapped
<1>2. /\ listeners' = [listeners EXCEPT ![d] = [coll \in Collection |-> 0]]
      /\ mainQueue' = [mainQueue EXCEPT ![d] = <<>>]
      /\ ResetScreen(d)
  BY DEF BackTapped, ReleaseHandlers
<1>3. CalendarWrites' /\ ClosedIsQuiet'
  BY <1>1, <1>2, GoneScreenQuiet
<1>4. QueueTypes(Block)'
  BY <1>1, <1>2, TypeParts, EmptySeq DEF TypeInv, QueueTypes, FirestoreTypeOK, BackTapped
<1>5. ScreenTypeOK' /\ SelectionFinite'
  BY <1>2, ResetScreenType
<1>6. RequestTypeOK'
  BY TypeParts DEF TypeInv, RequestTypeOK, BackTapped
<1> QED
  BY <1>3, <1>4, <1>5, <1>6, TypeOfParts

LEMMA KillType ==
    ASSUME TypeInv, NEW d \in Device, Kill(d)
    PROVE  TypeInv'
<1>1. WritesKept /\ QueueTypes(Block)'
  BY ConnectionKeepsWrites, TypeParts, ClientStepType DEF TypeInv, QueueTypes, Kill, ClientStep
<1>2. /\ listeners' = [listeners EXCEPT ![d] = [coll \in Collection |-> 0]]
      /\ mainQueue' = [mainQueue EXCEPT ![d] = <<>>]
      /\ mutationQueue' = [mutationQueue EXCEPT ![d] = Resent(Orphaned(mutationQueue[d]))]
      /\ ResetScreen(d)
  BY DEF Kill, KillProcess
<1>3. mutationQueue[d] \in Seq(Mutation) /\ mutationQueue'[d] = Resent(Orphaned(mutationQueue[d]))
  BY <1>2 DEF TypeInv, TypeOK, FirestoreTypeOK
<1>4. \A i \in DOMAIN mutationQueue[d] : mutationQueue'[d][i].callback # "removed"
  BY <1>3, ResentOrphanedKeeps, CallbackKinds
<1>5. CalendarWrites' /\ ClosedIsQuiet'
  BY <1>1, <1>2, <1>4, GoneScreenQuiet
<1>6. ScreenTypeOK' /\ SelectionFinite'
  BY <1>2, ResetScreenType
<1>7. RequestTypeOK'
  BY TypeParts DEF TypeInv, RequestTypeOK, Kill
<1> QED
  BY <1>1, <1>5, <1>6, <1>7, TypeOfParts

\* Touches that leave the client alone.
ScreenTouch(d) ==
    \/ \E date \in Value : DateTapped(d, date)
    \/ AddTapped(d) \/ SubmitIncomplete(d) \/ SheetSwiped(d)
    \/ \E event \in Event : MoreTapped(d, event)
    \/ DismissChosen(d) \/ AlertDismissed(d)

LEMMA ScreenTouchType ==
    ASSUME TypeInv, NEW d \in Device, ScreenTouch(d)
    PROVE  TypeInv'
<1> USE DEF firestoreVars, serverVars, clientVars, historyVars, ScreenTouch
<1>1. UNCHANGED <<firestoreVars, open, historyVars>>
  BY DEF DateTapped, AddTapped, SubmitIncomplete, SheetSwiped, MoreTapped, DismissChosen,
         AlertDismissed
<1>2. QueueTypes(Block)' /\ RequestTypeOK' /\ CalendarWrites' /\ ClosedIsQuiet'
  BY <1>1, TypeParts DEF TypeInv, QueueTypes, FirestoreTypeOK, RequestTypeOK, CalendarWrites,
                         ClosedIsQuiet
<1>3. CASE \E date \in Value : DateTapped(d, date)
  <2>1. PICK date \in Value : DateTapped(d, date)
    BY <1>3
  <2>2. selectedDates' = [selectedDates EXCEPT ![d] =
            IF date \in selectedDates[d] THEN selectedDates[d] \ {date}
                                         ELSE selectedDates[d] \cup {date}]
    BY <2>1 DEF DateTapped
  <2>3. IsFiniteSet(selectedDates[d] \ {date}) /\ IsFiniteSet(selectedDates[d] \cup {date})
    BY FS_RemoveElement, FS_AddElement DEF TypeInv, SelectionFinite
  <2>4. SelectionFinite'
    BY <2>2, <2>3 DEF TypeInv, TypeOK, SelectionFinite
  <2>5. selectedDates' \in [Device -> SUBSET Value]
    BY <2>2 DEF TypeInv, TypeOK
  <2>6. TableOf(calendarData[d], selectedDates'[d]) \subseteq Event
    BY DEF TableOf, TypeInv, TypeOK
  <2>7. calendarEventsTableData' \in [Device -> SUBSET Event]
    BY <2>1, <2>6 DEF DateTapped, TypeInv, TypeOK
  <2>8. ScreenTypeOK'
    BY <1>1, <2>1, <2>5, <2>7, TypeParts DEF TypeInv, ScreenTypeOK, DateTapped
  <2> QED
    BY <1>2, <2>4, <2>8, TypeOfParts
<1>4. CASE \/ AddTapped(d) \/ SubmitIncomplete(d) \/ SheetSwiped(d)
           \/ \E event \in Event : MoreTapped(d, event)
           \/ DismissChosen(d) \/ AlertDismissed(d)
  <2>1. presented \in [Device -> {"nothing", "alert", "sheet", "sheetAlert", "actions"}]
    BY DEF TypeInv, TypeOK
  <2>2. chosen \in [Device -> SUBSET Event]
    BY DEF TypeInv, TypeOK
  <2>3. presented' \in [Device -> {"nothing", "alert", "sheet", "sheetAlert", "actions"}]
    <3>1. CASE AddTapped(d)
      BY <2>1, <3>1 DEF AddTapped, AlertOnCalendar
    <3>2. CASE \E event \in Event : MoreTapped(d, event)
      BY <2>1, <3>2 DEF MoreTapped
    <3>3. CASE SubmitIncomplete(d) \/ SheetSwiped(d) \/ DismissChosen(d) \/ AlertDismissed(d)
      BY <2>1, <3>3 DEF SubmitIncomplete, SheetSwiped, DismissChosen, AlertDismissed
    <3> QED
      BY <1>4, <3>1, <3>2, <3>3
  <2>4. chosen' \in [Device -> SUBSET Event]
    <3>1. CASE \E event \in Event : MoreTapped(d, event)
      <4>1. PICK event \in Event : MoreTapped(d, event)
        BY <3>1
      <4>2. {event} \in SUBSET Event
        OBVIOUS
      <4> QED
        BY <2>2, <4>1, <4>2 DEF MoreTapped
    <3>2. CASE DismissChosen(d)
      BY <2>2, <3>2 DEF DismissChosen
    <3>3. CASE AddTapped(d) \/ SubmitIncomplete(d) \/ SheetSwiped(d) \/ AlertDismissed(d)
      BY <2>2, <3>3 DEF AddTapped, SubmitIncomplete, SheetSwiped, AlertDismissed
    <3> QED
      BY <1>4, <3>1, <3>2, <3>3
  <2>5. UNCHANGED <<calendarData, selectedDates, calendarEventsTableData>>
    BY <1>4 DEF AddTapped, SubmitIncomplete, SheetSwiped, MoreTapped, DismissChosen,
                AlertDismissed
  <2>6. open[d]
    BY <1>4 DEF AddTapped, SubmitIncomplete, SheetSwiped, MoreTapped, DismissChosen,
                AlertDismissed, Touchable, TypeInv, TypeOK
  <2>7. \A e \in Device \ {d} : presented'[e] = presented[e]
    BY <1>4 DEF AddTapped, SubmitIncomplete, SheetSwiped, MoreTapped, DismissChosen,
                AlertDismissed, TypeInv, TypeOK
  <2>8. ScreenTypeOK'
    BY <1>1, <2>3, <2>4, <2>5, <2>6, <2>7, TypeParts DEF TypeInv, ScreenTypeOK
  <2>9. SelectionFinite'
    BY <2>5 DEF TypeInv, SelectionFinite
  <2> QED
    BY <1>2, <2>8, <2>9, TypeOfParts
<1> QED
  BY <1>3, <1>4

\* What Submit and Delete in the action sheet put into a queue.
LEMMA SubmitTappedQueues ==
    ASSUME TypeInv, NEW d \in Device, SubmitTapped(d)
    PROVE  \E events \in EventsFor(selectedDates[d]) :
            /\ mutationQueue' = [mutationQueue EXCEPT ![d] = mutationQueue[d] \o NewEvents(events)]
            /\ requested' = requested \cup {"set"} \X {events[i] : i \in DOMAIN events}
            /\ added' = [added EXCEPT ![d] = added[d] \cup {events[i] : i \in DOMAIN events}]
  BY DEF SubmitTapped

LEMMA SubmitTappedType ==
    ASSUME TypeInv, NEW d \in Device, SubmitTapped(d)
    PROVE  TypeInv'
<1> USE DEF serverVars
<1>0. /\ mutationQueue \in [Device -> Seq(Mutation)]
      /\ QueueTypes(Block) /\ ScreenTypeOK /\ RequestTypeOK
  BY TypeParts DEF TypeInv, TypeOK, FirestoreTypeOK
<1>1. PICK events \in EventsFor(selectedDates[d]) :
        /\ mutationQueue' = [mutationQueue EXCEPT ![d] = mutationQueue[d] \o NewEvents(events)]
        /\ requested' = requested \cup {"set"} \X {events[i] : i \in DOMAIN events}
        /\ added' = [added EXCEPT ![d] = added[d] \cup {events[i] : i \in DOMAIN events}]
  BY SubmitTappedQueues
<1> DEFINE new == NewEvents(events)
<1>2. /\ \A i \in DOMAIN events : events[i] \in Event
      /\ new \in Seq(Mutation) /\ DOMAIN new = DOMAIN events
      /\ \A i \in DOMAIN events : new[i].op = "set" /\ new[i].value = events[i][2]
                                  /\ new[i].callback = "posted"
  BY EventsForWrites
<1>3. \A i \in DOMAIN new : CalendarWrite(new[i]) /\ new[i].callback = "posted"
  BY <1>2 DEF CalendarWrite, Event
<1>19. new \in Seq(Mutation) /\ mutationQueue' = [mutationQueue EXCEPT ![d] = mutationQueue[d] \o new]
  BY <1>1, <1>2
<1> HIDE DEF new
<1>4. /\ mutationQueue' \in [Device -> Seq(Mutation)]
      /\ \A e \in Device : \A i \in DOMAIN mutationQueue[e] : mutationQueue'[e][i] = mutationQueue[e][i]
      /\ \A e \in Device : \A i \in DOMAIN mutationQueue'[e] :
            \/ i \in DOMAIN mutationQueue[e]
            \/ \E k \in DOMAIN new : mutationQueue'[e][i] = new[k]
  <2>1. /\ mutationQueue' \in [Device -> Seq(Mutation)]
        /\ \A e \in Device : \A i \in DOMAIN mutationQueue[e] :
            i \in DOMAIN mutationQueue'[e] /\ mutationQueue'[e][i] = mutationQueue[e][i]
        /\ \A e \in Device : \A i \in DOMAIN mutationQueue'[e] :
            \/ i \in DOMAIN mutationQueue[e]
            \/ /\ e = d /\ i > Len(mutationQueue[d]) /\ i - Len(mutationQueue[d]) \in DOMAIN new
               /\ mutationQueue'[e][i] = new[i - Len(mutationQueue[d])]
    BY <1>0, <1>19, GrownQueue
  <2> QED
    BY <2>1
<1>5. open[d] /\ open' = open
  BY <1>0 DEF SubmitTapped, ScreenTypeOK
<1>6. /\ configured' \in [Device -> BOOLEAN]
      /\ listenTargets' \in [Device -> SUBSET Collection]
      /\ listeners' \in [Device -> [Collection -> Nat]]
      /\ \A e \in Device \ {d} : listeners'[e] = listeners[e]
  BY GetDocumentsType DEF SubmitTapped
<1>7. QueueTypes(Block)'
  BY <1>0, <1>4, <1>6 DEF QueueTypes, FirestoreTypeOK, SubmitTapped
<1>8. {"set"} \X {events[i] : i \in DOMAIN events} \subseteq Request
  BY <1>2 DEF Request
<1>9. RequestTypeOK'
  BY <1>0, <1>1, <1>8 DEF RequestTypeOK, SubmitTapped
<1>10. {events[i] : i \in DOMAIN events} \subseteq Event
  BY <1>2
<1>11. added' \in [Device -> SUBSET Event]
  BY <1>0, <1>1, <1>10 DEF ScreenTypeOK
<1>12. /\ presented' = [presented EXCEPT ![d] = "nothing"]
       /\ UNCHANGED <<open, calendarData, selectedDates, calendarEventsTableData, chosen, gone,
                      fetchFailed, mainQueue>>
  BY DEF SubmitTapped
<1>13. presented' \in [Device -> {"nothing", "alert", "sheet", "sheetAlert", "actions"}]
       /\ \A e \in Device : presented'[e] \in {presented[e], "nothing"}
  BY <1>0, <1>12 DEF ScreenTypeOK
<1>14. ScreenTypeOK'
  BY <1>0, <1>11, <1>12, <1>13 DEF ScreenTypeOK
<1>15. CalendarWrites'
  BY <1>3, <1>4 DEF TypeInv, CalendarWrites
<1>16. \A e \in Device : \A i \in DOMAIN mutationQueue'[e] :
        mutationQueue'[e][i].callback = "removed" => i \in DOMAIN mutationQueue[e]
                                        /\ mutationQueue[e][i].callback = "removed"
  BY <1>3, <1>4
<1>17. ClosedIsQuiet'
  <2> SUFFICES ASSUME NEW e \in Device, ~open'[e]
               PROVE  /\ listeners'[e]["Calendar"] = 0
                      /\ \A i \in DOMAIN mainQueue'[e] : mainQueue'[e][i].callback \notin HeldByScreen
                      /\ \A i \in DOMAIN mutationQueue'[e] :
                            mutationQueue'[e][i].callback # "removed"
    BY DEF ClosedIsQuiet
  <2>1. e # d /\ ~open[e] /\ mainQueue' = mainQueue
    BY <1>5, <1>12
  <2> QED
    BY <1>6, <1>16, <2>1 DEF TypeInv, ClosedIsQuiet
<1>18. SelectionFinite'
  BY <1>12 DEF TypeInv, SelectionFinite
<1> QED
  BY <1>7, <1>9, <1>14, <1>15, <1>17, <1>18, TypeOfParts

LEMMA DeleteMutation ==
    ASSUME NEW event \in Event,
           NEW m, m = NewMutation("delete", DocOf(event), NoDocument, "removed")
    PROVE  /\ m \in Mutation /\ CalendarWrite(m)
           /\ m.op = "delete" /\ m.doc = DocOf(event) /\ m.value = NoDocument
           /\ m.callback = "removed" /\ m.committed = FALSE
  BY CallbackKinds, WriteCallbackIsKind
  DEF Event, DocOf, Doc, NewMutation, Mutation, MaybeValue, Version, CalendarWrite

LEMMA DeleteChosenType ==
    ASSUME TypeInv, NEW d \in Device, NEW event \in Event, DeleteChosen(d, event)
    PROVE  TypeInv'
<1> USE DEF serverVars
<1>0. /\ mutationQueue \in [Device -> Seq(Mutation)]
      /\ QueueTypes(Block) /\ ScreenTypeOK /\ RequestTypeOK
  BY TypeParts DEF TypeInv, TypeOK, FirestoreTypeOK
<1> DEFINE m == NewMutation("delete", DocOf(event), NoDocument, "removed")
<1>1. m \in Mutation /\ CalendarWrite(m)
  BY DeleteMutation
<1>2. mutationQueue' = [mutationQueue EXCEPT ![d] = Append(mutationQueue[d], m)]
  BY DEF DeleteChosen, WriteMutation
<1> HIDE DEF m
<1>3. /\ mutationQueue' \in [Device -> Seq(Mutation)]
      /\ \A e \in Device : \A i \in DOMAIN mutationQueue[e] : mutationQueue'[e][i] = mutationQueue[e][i]
      /\ \A e \in Device : \A i \in DOMAIN mutationQueue'[e] :
            i \in DOMAIN mutationQueue[e] \/ (e = d /\ mutationQueue'[e][i] = m)
  BY <1>0, <1>1, <1>2, AppendedQueue
<1>4. /\ open[d] /\ presented' = [presented EXCEPT ![d] = "nothing"]
      /\ chosen' = [chosen EXCEPT ![d] = {}]
      /\ requested' = requested \cup {<<"delete", event>>}
      /\ UNCHANGED <<open, calendarData, selectedDates, calendarEventsTableData, added, gone,
                     fetchFailed, refused, told, mainQueue, listeners>>
  BY <1>0 DEF DeleteChosen, ScreenTypeOK
<1>5. QueueTypes(Block)'
  BY <1>0, <1>3 DEF QueueTypes, FirestoreTypeOK, DeleteChosen
<1>6. presented' \in [Device -> {"nothing", "alert", "sheet", "sheetAlert", "actions"}]
      /\ \A e \in Device : presented'[e] \in {presented[e], "nothing"}
  BY <1>0, <1>4 DEF ScreenTypeOK
<1>7. ScreenTypeOK'
  BY <1>0, <1>4, <1>6 DEF ScreenTypeOK
<1>8. <<"delete", event>> \in Request
  BY DEF Request
<1>9. RequestTypeOK'
  BY <1>0, <1>4, <1>8 DEF RequestTypeOK
<1>10. CalendarWrites'
  BY <1>1, <1>3 DEF TypeInv, CalendarWrites
<1>11. ClosedIsQuiet'
  <2> SUFFICES ASSUME NEW e \in Device, ~open'[e]
               PROVE  /\ listeners'[e]["Calendar"] = 0
                      /\ \A i \in DOMAIN mainQueue'[e] : mainQueue'[e][i].callback \notin HeldByScreen
                      /\ \A i \in DOMAIN mutationQueue'[e] :
                            mutationQueue'[e][i].callback # "removed"
    BY DEF ClosedIsQuiet
  <2>1. e # d /\ ~open[e]
    BY <1>4
  <2>2. \A i \in DOMAIN mutationQueue'[e] :
            i \in DOMAIN mutationQueue[e] /\ mutationQueue'[e][i] = mutationQueue[e][i]
    BY <1>3, <2>1
  <2> QED
    BY <1>4, <2>1, <2>2 DEF TypeInv, ClosedIsQuiet
<1>12. SelectionFinite'
  BY <1>4 DEF TypeInv, SelectionFinite
<1> QED
  BY <1>5, <1>7, <1>9, <1>10, <1>11, <1>12, TypeOfParts

(***************************************************************************)
(* Blocks of the main queue.                                               *)
(***************************************************************************)

\* What is at the front of a queue: the answer to a fetch, or to a removal,
\* is for a screen that is open.
LEMMA FrontBlock ==
    ASSUME TypeInv, NEW d \in Device, mainQueue[d] # <<>>
    PROVE  /\ Head(mainQueue[d]).callback = "fetched" => Head(mainQueue[d]) \in QueryResult
           /\ Head(mainQueue[d]).callback # "fetched" => Head(mainQueue[d]) \in WriteResult
           /\ Head(mainQueue[d]).callback \in HeldByScreen => open[d]
<1>1. mainQueue[d] \in Seq(Block)
  BY DEF TypeInv, TypeOK
<1>2. Head(mainQueue[d]) \in Block /\ Head(mainQueue[d]) = mainQueue[d][1] /\ 1 \in DOMAIN mainQueue[d]
  BY <1>1, TailElement, HeadTailProperties
<1>3. \A b \in WriteResult : b.callback # "fetched"
  BY CallbackKinds, WriteCallbackIsKind DEF WriteResult
<1>4. \A b \in QueryResult : b.callback = "fetched"
  BY DEF QueryResult
<1> QED
  BY <1>2, <1>3, <1>4 DEF Block, TypeInv, TypeOK, ClosedIsQuiet

\* A block that is run changes the client only in what it fetches.
LEMMA RunBlockQuiet ==
    ASSUME TypeInv, NEW d \in Device, open[d], mainQueue[d] # <<>>, PopFront(d),
           UNCHANGED <<open, mutationQueue>>,
           \A e \in Device \ {d} : listeners'[e] = listeners[e]
    PROVE  CalendarWrites' /\ ClosedIsQuiet'
<1>1. BlocksKept /\ WritesKept
  BY PopFrontKeeps, SameWritesKept
<1> QED
  BY <1>1, WritesKeptQuiet, BlocksKeptQuiet DEF TypeInv, ClosedIsQuiet

LEMMA FetchCompletedType ==
    ASSUME TypeInv, NEW d \in Device, FetchCompleted(d)
    PROVE  TypeInv'
<1> USE DEF serverVars, clientVars
<1> DEFINE result == Head(mainQueue[d])
<1>0. QueueTypes(Block) /\ ScreenTypeOK /\ RequestTypeOK
  BY TypeParts DEF TypeInv
<1>1. mainQueue[d] # <<>> /\ result.callback = "fetched" /\ PopFront(d)
  BY DEF FetchCompleted, Front
<1>2. open[d] /\ result \in QueryResult
  BY <1>1, FrontBlock DEF HeldByScreen
<1>3. mainQueue' \in [Device -> Seq(Block)]
  BY <1>1, PopFrontKeeps
<1>4. UNCHANGED <<server, connected, mutationQueue, documentCache, listenTargets, listeners,
                  watchStream, configured, open, selectedDates, chosen, requested, refused,
                  told, added, gone>>
  BY DEF FetchCompleted
<1>5. CalendarWrites' /\ ClosedIsQuiet'
  BY <1>1, <1>2, <1>4, RunBlockQuiet
<1>6. QueueTypes(Block)' /\ RequestTypeOK'
  BY <1>0, <1>3, <1>4 DEF QueueTypes, FirestoreTypeOK, RequestTypeOK
<1>7. Decoded(result.docs) \subseteq Event /\ TableOf(Decoded(result.docs), selectedDates[d]) \subseteq Event
  BY DEF Decoded, TableOf
<1>8. /\ calendarData' \in [Device -> SUBSET Event]
      /\ calendarEventsTableData' \in [Device -> SUBSET Event]
      /\ presented' \in [Device -> {"nothing", "alert", "sheet", "sheetAlert", "actions"}]
      /\ fetchFailed' \in [Device -> BOOLEAN]
      /\ \A e \in Device \ {d} : calendarData'[e] = calendarData[e] /\ presented'[e] = presented[e]
  <2> HIDE DEF result
  <2>1. CASE FetchSucceeded(d, result.docs)
    BY <1>0, <1>7, <2>1 DEF ScreenTypeOK, FetchSucceeded
  <2>2. CASE FetchFailed(d)
    BY <1>0, <2>2 DEF ScreenTypeOK, FetchFailed, AlertOnCalendar
  <2>3. FetchSucceeded(d, result.docs) \/ FetchFailed(d)
    BY DEF FetchCompleted, result
  <2> QED
    BY <2>1, <2>2, <2>3
<1>9. ScreenTypeOK'
  BY <1>0, <1>2, <1>4, <1>8 DEF ScreenTypeOK
<1>10. SelectionFinite'
  BY <1>4 DEF TypeInv, SelectionFinite
<1> QED
  BY <1>5, <1>6, <1>9, <1>10, TypeOfParts

LEMMA RemoveCompletedType ==
    ASSUME TypeInv, NEW d \in Device, RemoveCompleted(d)
    PROVE  TypeInv'
<1> USE DEF serverVars
<1> DEFINE result == Head(mainQueue[d])
<1>0. QueueTypes(Block) /\ ScreenTypeOK /\ RequestTypeOK
  BY TypeParts DEF TypeInv
<1>1. mainQueue[d] # <<>> /\ result.callback = "removed" /\ PopFront(d)
  BY DEF RemoveCompleted, Front
<1>2. open[d] /\ result \in WriteResult
  BY <1>1, FrontBlock DEF HeldByScreen
<1>3. mainQueue' \in [Device -> Seq(Block)]
  BY <1>1, PopFrontKeeps
<1>4. result.doc[2] \in DocId
  BY <1>2 DEF WriteResult, Doc
<1>5. /\ UNCHANGED <<server, connected, mutationQueue, documentCache, watchStream, open,
                     calendarData, selectedDates, calendarEventsTableData, chosen, requested,
                     refused, added, fetchFailed>>
      /\ RemoveSucceeded(d, result.doc[2]) \/ RemoveFailed(d)
  BY DEF RemoveCompleted
<1> HIDE DEF result
<1>6. /\ configured' \in [Device -> BOOLEAN]
      /\ listenTargets' \in [Device -> SUBSET Collection]
      /\ listeners' \in [Device -> [Collection -> Nat]]
      /\ \A e \in Device \ {d} : listeners'[e] = listeners[e]
      /\ told' \in SUBSET DocId
      /\ gone' \in [Device -> SUBSET DocId]
      /\ presented' \in [Device -> {"nothing", "alert", "sheet", "sheetAlert", "actions"}]
      /\ \A e \in Device \ {d} : presented'[e] = presented[e]
  <2>1. CASE RemoveSucceeded(d, result.doc[2])
    BY <1>0, <1>4, <2>1, GetDocumentsType DEF RemoveSucceeded, ScreenTypeOK, RequestTypeOK
  <2>2. CASE RemoveFailed(d)
    BY <1>0, <2>2 DEF RemoveFailed, ScreenTypeOK, RequestTypeOK, AlertOnCalendar, QueueTypes,
                      FirestoreTypeOK
  <2> QED
    BY <1>5, <2>1, <2>2
<1>7. CalendarWrites' /\ ClosedIsQuiet'
  BY <1>1, <1>2, <1>5, <1>6, RunBlockQuiet
<1>8. QueueTypes(Block)'
  BY <1>0, <1>3, <1>5, <1>6 DEF QueueTypes, FirestoreTypeOK
<1>9. RequestTypeOK'
  BY <1>0, <1>5, <1>6 DEF RequestTypeOK
<1>10. ScreenTypeOK'
  BY <1>0, <1>2, <1>5, <1>6 DEF ScreenTypeOK
<1>11. SelectionFinite'
  BY <1>5 DEF TypeInv, SelectionFinite
<1> QED
  BY <1>7, <1>8, <1>9, <1>10, <1>11, TypeOfParts

LEMMA PostAnsweredType ==
    ASSUME TypeInv, NEW d \in Device, PostAnswered(d)
    PROVE  TypeInv'
<1>0. QueueTypes(Block) /\ ScreenTypeOK /\ RequestTypeOK
  BY TypeParts DEF TypeInv
<1>1. mainQueue[d] # <<>> /\ PopFront(d)
  BY DEF PostAnswered, Front
<1>2. mainQueue' \in [Device -> Seq(Block)] /\ BlocksKept
  BY <1>1, PopFrontKeeps
<1>3. UNCHANGED <<server, connected, mutationQueue, documentCache, listenTargets, listeners,
                  watchStream, configured, screenVars, historyVars>>
  BY DEF PostAnswered, serverVars, clientVars
<1>4. CalendarWrites' /\ ClosedIsQuiet'
  BY <1>2, <1>3, SameWritesKept, QuietKept DEF screenVars
<1>5. QueueTypes(Block)' /\ RequestTypeOK'
  BY <1>0, <1>2, <1>3 DEF QueueTypes, FirestoreTypeOK, RequestTypeOK, historyVars
<1>6. ScreenTypeOK' /\ SelectionFinite'
  BY <1>0, <1>3 DEF TypeInv, ScreenTypeOK, SelectionFinite, screenVars, historyVars
<1> QED
  BY <1>4, <1>5, <1>6, TypeOfParts

(***************************************************************************)
(* The types, for every step.                                              *)
(***************************************************************************)
LEMMA TypeStep == TypeInv /\ [Next]_vars => TypeInv'
<1> SUFFICES ASSUME TypeInv, [Next]_vars PROVE TypeInv'
  OBVIOUS
<1>1. CASE Next
  <2>1. PICK d \in Device :
            \/ Touch(d) \/ MainBlock(d)
            \/ ClientEvent(d) /\ UNCHANGED <<screenVars, historyVars>>
            \/ WriteRefused(d) \/ Kill(d)
    BY <1>1 DEF Next
  <2>2. CASE Touch(d)
    <3>1. \/ ScreenTouch(d) \/ OpenCalendar(d) \/ BackTapped(d) \/ SubmitTapped(d)
          \/ \E event \in Event : DeleteChosen(d, event)
      BY <2>2 DEF Touch, ScreenTouch
    <3> QED
      BY <3>1, ScreenTouchType, OpenCalendarType, BackTappedType, SubmitTappedType,
         DeleteChosenType
  <2>3. CASE MainBlock(d)
    BY <2>3, FetchCompletedType, RemoveCompletedType, PostAnsweredType DEF MainBlock
  <2> QED
    BY <2>1, <2>2, <2>3, ClientEventType, WriteRefusedType, KillType
<1>2. CASE UNCHANGED vars
  <2>1. QueueTypes(Block)' /\ ScreenTypeOK' /\ RequestTypeOK'
    BY <1>2, TypeParts DEF TypeInv, QueueTypes, FirestoreTypeOK, ScreenTypeOK, RequestTypeOK,
         vars, firestoreVars, serverVars, clientVars, screenVars, historyVars
  <2>2. CalendarWrites' /\ ClosedIsQuiet' /\ SelectionFinite'
    BY <1>2 DEF TypeInv, CalendarWrites, ClosedIsQuiet, SelectionFinite,
         vars, firestoreVars, serverVars, clientVars, screenVars, historyVars
  <2> QED
    BY <2>1, <2>2, TypeOfParts
<1> QED
  BY <1>1, <1>2

LEMMA TypeInvHolds == Spec => []TypeInv
  BY TypeInit, TypeStep, PTL DEF Spec

\* Every variable of the calendar keeps its type, with any number of devices,
\* names and dates and whatever the bounds on queues and fetches; and nothing
\* is put on a screen after its controller is gone: no handler that would
\* fill it or present on it is left when it closes.
THEOREM CalendarTypeCorrect == Spec => []TypeOK
<1>1. TypeInv => TypeOK
  BY DEF TypeInv
<1> QED
  BY <1>1, TypeInvHolds, PTL
=================================================================================
