------------------------------- MODULE RemoteStore -------------------------------
(***************************************************************************)
(* The part of the Firestore client that talks to the backend, for one     *)
(* device: RemoteStore with its two streams, the watch stream that brings  *)
(* the answers to queries and the write stream that carries the queued     *)
(* writes, and the tracker that decides when the client is offline.  All   *)
(* of it runs on the serial worker queue: every action is one block of     *)
(* that queue, a call of the app or an event of the network, of a timer or *)
(* of the credentials.  Firestore.tla abstracts from all of this; here is  *)
(* why it may.                                                             *)
(*                                                                         *)
(* A HARD_ASSERT that fails aborts the app.  Each record below has a field *)
(* sound that says no assertion about it has failed.                       *)
(***************************************************************************)
EXTENDS Integers, Sequences, FiniteSets

CONSTANTS
    Target,                 \* the queries the app fetches
    MaxPendingWrites,       \* kMaxPendingWrites: writes in the pipeline at a time
    MaxWrites,              \* bound: writes the app makes
    MaxCredentialChanges    \* bound: changes of the credentials

ASSUME BoundsAssumption ==
    /\ MaxPendingWrites \in Nat \ {0}
    /\ MaxWrites \in Nat
    /\ MaxCredentialChanges \in Nat

VARIABLES
    watch,              \* the watch stream
    write,              \* the write stream
    online,             \* the online state tracker
    listenTargets,      \* the queries the client listens to
    watched,            \* of these, the ones requested on the open watch stream
    waiting,            \* of these, the ones whose fetch has no answer yet
    mutationQueue,      \* the batches of writes without an answer, oldest first
    asked,              \* how many batches the app has made: the last batch id
    writePipeline,      \* the batches taken for sending
    handshakeComplete,  \* the open write stream has answered the handshake
    sent,               \* the batches sent on this write stream, without answer
    made,               \* how many of them the server has made
    credentialChanges   \* how often the credentials have changed

watchVars == <<watch, online, listenTargets, watched, waiting>>
writeVars == <<write, mutationQueue, asked, writePipeline, handshakeComplete, sent, made>>
vars == <<watchVars, writeVars, credentialChanges>>

BatchId == 1..MaxWrites

(***************************************************************************)
(* A stream.  Starting covers the time to get a token (token) and the call *)
(* to the backend after it.  stale counts the requests for a token that    *)
(* were out when the stream was closed; they are answered all the same.    *)
(***************************************************************************)
Stream == [state: {"Initial", "Starting", "Open", "Error", "Backoff"}, token: BOOLEAN,
           stale: 0..MaxCredentialChanges, timers: SUBSET {"backoff", "idle"}, sound: BOOLEAN]

\* failures counts up to kMaxWatchStreamFailures.
kMaxWatchStreamFailures == 1
Tracker == [state: {"Unknown", "Online", "Offline"}, failures: 0..kMaxWatchStreamFailures,
            timer: BOOLEAN, sound: BOOLEAN]

TypeOK ==
    /\ watch \in Stream /\ write \in Stream
    /\ online \in Tracker
    /\ listenTargets \subseteq Target
    /\ watched \subseteq Target
    /\ waiting \subseteq listenTargets
    /\ mutationQueue \in Seq(BatchId)
    /\ asked \in 0..MaxWrites
    /\ writePipeline \in Seq(BatchId)
    /\ handshakeComplete \in BOOLEAN
    /\ sent \in Seq(BatchId)
    /\ made \in 0..Len(sent)
    /\ credentialChanges \in 0..MaxCredentialChanges

(***************************************************************************)
(* Streams.                                                                *)
(***************************************************************************)
NewStream == [state |-> "Initial", token |-> FALSE, stale |-> 0, timers |-> {}, sound |-> TRUE]

HardAssert(st, condition) == [st EXCEPT !.sound = @ /\ condition]

IsOpen(st) == st.state = "Open"
IsStarted(st) == st.state \in {"Starting", "Open", "Backoff"}
IsCalling(st) == st.state = "Starting" /\ ~st.token

\* After an error a stream starts with a delay.
Start(st) ==
    IF st.state = "Error"
    THEN [st EXCEPT !.state = "Backoff", !.timers = @ \cup {"backoff"}]
    ELSE [HardAssert(st, st.state = "Initial") EXCEPT !.state = "Starting", !.token = TRUE]

\* The delay is over.
RestartAfterBackoff(st) ==
    Start([HardAssert(st, st.state = "Backoff") EXCEPT
               !.state = "Initial", !.timers = @ \ {"backoff"}])

InhibitBackoff(st) == [HardAssert(st, ~IsStarted(st)) EXCEPT !.state = "Initial"]

\* A stream that is open and not used for a minute stops.
MarkIdle(st) == IF IsOpen(st) THEN [st EXCEPT !.timers = @ \cup {"idle"}] ELSE st

\* A fault: sending leaves the idle timer running.
SendOnly(st) == HardAssert(st, IsOpen(st))

Send(st) == [HardAssert(st, IsOpen(st)) EXCEPT !.timers = @ \ {"idle"}]

\* The stream itself, before its owner is told; a stream is asked to close
\* for an error, or stopped gracefully if it is started.
Close(st, graceful) ==
    [HardAssert(st, IsStarted(st)) EXCEPT
        !.state  = IF graceful THEN "Initial" ELSE "Error",
        !.token  = FALSE,
        !.stale  = IF st.token THEN @ + 1 ELSE @,
        !.timers = {}]

(***************************************************************************)
(* The online state tracker.                                               *)
(***************************************************************************)
NewTracker == [state |-> "Unknown", failures |-> 0, timer |-> FALSE, sound |-> TRUE]

\* The first attempt to connect has ten seconds.
HandleWatchStreamStart(tr) ==
    IF tr.failures # 0 THEN tr
    ELSE [HardAssert(tr, ~tr.timer) EXCEPT !.state = "Unknown", !.timer = TRUE]

HandleWatchStreamFailure(tr) ==
    IF tr.state = "Online"
    THEN [HardAssert(tr, tr.failures = 0 /\ ~tr.timer) EXCEPT !.state = "Unknown"]
    ELSE IF tr.failures + 1 >= kMaxWatchStreamFailures
    THEN [tr EXCEPT !.failures = kMaxWatchStreamFailures, !.timer = FALSE, !.state = "Offline"]
    ELSE [tr EXCEPT !.failures = @ + 1]

UpdateState(tr, state) ==
    [tr EXCEPT !.state = state, !.failures = 0, !.timer = FALSE]

\* A fault: nobody is told that the client is offline.
SetQuietly(tr) == online' = tr /\ UNCHANGED waiting

\* The tracker's new state is broadcast when it differs.  Offline answers
\* every fetch from the cache; the other states answer none.
SetAndBroadcast(tr) ==
    /\ online' = tr
    /\ waiting' = IF tr.state = "Offline" /\ online.state # "Offline" THEN {} ELSE waiting

(***************************************************************************)
(* The watch stream.                                                       *)
(***************************************************************************)

\* A fetch: getDocuments waits for the server's answer unless the client is
\* offline.  A second fetch of a query joins the listeners of the first and
\* does not get here.
Listen(t) ==
    /\ t \notin listenTargets
    /\ listenTargets' = listenTargets \cup {t}
    /\ waiting' = IF online.state = "Offline" THEN waiting ELSE waiting \cup {t}
    /\ \/ /\ ~IsStarted(watch)
          /\ watch' = Start(watch)
          /\ online' = HandleWatchStreamStart(online)
          /\ UNCHANGED watched
       \/ /\ IsOpen(watch)
          /\ watch' = Send(watch)
          /\ watched' = watched \cup {t}
          /\ UNCHANGED online
       \/ /\ IsStarted(watch) /\ ~IsOpen(watch)
          /\ UNCHANGED <<watch, watched, online>>
    /\ UNCHANGED <<writeVars, credentialChanges>>

\* The listener of a fetch removes itself after its answer.
StopListening(t) ==
    /\ t \in listenTargets \ waiting
    /\ listenTargets' = listenTargets \ {t}
    /\ watched' = watched \ {t}
    /\ watch' = IF ~IsOpen(watch) THEN watch
                ELSE IF listenTargets' = {} THEN MarkIdle(Send(watch)) ELSE Send(watch)
    /\ IF listenTargets' = {} /\ ~IsOpen(watch)
       THEN SetAndBroadcast(UpdateState(online, "Unknown"))
       ELSE UNCHANGED <<online, waiting>>
    /\ UNCHANGED <<writeVars, credentialChanges>>

\* A fault: a stream that failed is left alone.
WatchStreamLeft(st, graceful) ==
    /\ watched' = {}
    /\ watch' = Close(st, graceful)
    /\ SetAndBroadcast(UpdateState(online, "Unknown"))

\* The watch stream is closed, and started again if it is needed.
OnWatchStreamClose(st, graceful) ==
    LET closed == Close(st, graceful)
    IN  /\ watched' = {}
        /\ IF listenTargets # {}
           THEN /\ watch' = Start(HardAssert(closed, ~graceful))
                /\ SetAndBroadcast(HandleWatchStreamStart(HandleWatchStreamFailure(online)))
           ELSE /\ watch' = closed
                /\ SetAndBroadcast(UpdateState(online, "Unknown"))

\* A fault: nothing is sent when the stream opens.
NoWatches(listened) == {}

\* The queries to request on a stream that has opened: those listened to
\* before, and those that came while it was starting.
ExistingWatches(listened) == listened

OnWatchStreamOpen ==
    /\ IsCalling(watch)
    /\ LET open == [watch EXCEPT !.state = "Open"]
       IN  watch' = IF ExistingWatches(listenTargets) = {} THEN open ELSE Send(open)
    /\ watched' = ExistingWatches(listenTargets)
    /\ UNCHANGED <<online, listenTargets, waiting, writeVars, credentialChanges>>

WatchStreamFails ==
    /\ IsCalling(watch) \/ IsOpen(watch)
    /\ OnWatchStreamClose(watch, FALSE)
    /\ UNCHANGED <<listenTargets, writeVars, credentialChanges>>

\* Whatever the server says, it can be reached.  What it says may complete
\* the results of some of the queries.
OnWatchStreamChange ==
    /\ IsOpen(watch)
    /\ online' = UpdateState(online, "Online")
    /\ \E complete \in SUBSET watched : waiting' = waiting \ complete
    /\ UNCHANGED <<watch, listenTargets, watched, writeVars, credentialChanges>>

\* A fault: the query is dropped and its fetch is not told.
NobodyTold(t) == waiting

\* The fetch of a refused query gets the error.
HandleRejectedListen(t) == waiting \ {t}

\* The server refuses a query.  Its listeners are gone with it, and nothing
\* is said to the stream.
ProcessTargetError(t) ==
    /\ IsOpen(watch)
    /\ t \in watched
    /\ online' = UpdateState(online, "Online")
    /\ listenTargets' = listenTargets \ {t}
    /\ watched' = watched \ {t}
    /\ waiting' = HandleRejectedListen(t)
    /\ UNCHANGED <<watch, writeVars, credentialChanges>>

\* Ten seconds without a word from the server.
OnlineStateTimeout ==
    /\ online.timer
    /\ SetAndBroadcast([HardAssert(online, online.state = "Unknown") EXCEPT
                            !.timer = FALSE, !.state = "Offline"])
    /\ UNCHANGED <<watch, listenTargets, watched, writeVars, credentialChanges>>

(***************************************************************************)
(* The write stream.                                                       *)
(***************************************************************************)

\* A fault: the pipeline is refilled from the head of the queue.
FilledAgain(queue, pipeline) ==
    LET room == MaxPendingWrites - Len(pipeline)
    IN  pipeline \o SubSeq(queue, 1, IF room < Len(queue) THEN room ELSE Len(queue))

\* The pipeline with the batches that follow its last one, as many as there
\* is room for.
Filled(queue, pipeline) ==
    LET last == IF pipeline = <<>> THEN 0 ELSE pipeline[Len(pipeline)]
        skip == Cardinality({i \in DOMAIN queue : queue[i] <= last})
        room == MaxPendingWrites - Len(pipeline)
    IN  pipeline \o SubSeq(queue, skip + 1,
                           IF skip + room < Len(queue) THEN skip + room ELSE Len(queue))

\* A fault: batches are sent as soon as the stream is open.
SendsAtOnce(st) == IsOpen(st)

\* A batch that joins the pipeline is sent at once on an established stream.
SendsBatches(st) == IsOpen(st) /\ handshakeComplete

\* Fill the pipeline of the stream st, which has carried the batches
\* unanswered, and start it if there is something to send.
FillWritePipeline(st, queue, pipeline, unanswered) ==
    LET filled == Filled(queue, pipeline)
        added  == SubSeq(filled, Len(pipeline) + 1, Len(filled))
        sends  == added # <<>> /\ SendsBatches(st)
        used   == IF sends THEN HardAssert(Send(st), handshakeComplete)
                  ELSE IF filled = <<>> THEN MarkIdle(st) ELSE st
    IN  /\ writePipeline' = filled
        /\ sent' = IF sends THEN unanswered \o added ELSE unanswered
        /\ write' = IF filled # <<>> /\ ~IsStarted(used) THEN Start(used) ELSE used

\* The app makes a write; it is on disk before anything is sent.
WriteMutations ==
    /\ asked < MaxWrites
    /\ asked' = asked + 1
    /\ mutationQueue' = Append(mutationQueue, asked + 1)
    /\ FillWritePipeline(write, mutationQueue', writePipeline, sent)
    /\ UNCHANGED <<watchVars, handshakeComplete, made, credentialChanges>>

OnWriteStreamOpen ==
    /\ IsCalling(write)
    /\ write' = HardAssert(Send([write EXCEPT !.state = "Open"]), ~handshakeComplete)
    /\ UNCHANGED <<watchVars, mutationQueue, asked, writePipeline, handshakeComplete,
                   sent, made, credentialChanges>>

\* The first answer on a stream: everything in the pipeline is sent.
OnWriteStreamHandshakeComplete ==
    /\ IsOpen(write) /\ ~handshakeComplete
    /\ handshakeComplete' = TRUE
    /\ sent' = sent \o writePipeline
    /\ write' = IF writePipeline = <<>> THEN write ELSE Send(write)
    /\ UNCHANGED <<watchVars, mutationQueue, asked, writePipeline, made, credentialChanges>>

\* The server makes the next batch on the stream and answers it.
ServerCommits ==
    /\ IsOpen(write)
    /\ made < Len(sent)
    /\ made' = made + 1
    /\ UNCHANGED <<watchVars, write, mutationQueue, asked, writePipeline,
                   handshakeComplete, sent, credentialChanges>>

\* An answered batch leaves the queue.
Without(queue, b) ==
    LET i == CHOOSE i \in DOMAIN queue : queue[i] = b
    IN  SubSeq(queue, 1, i - 1) \o SubSeq(queue, i + 1, Len(queue))

\* An answer is taken for the answer to the first batch of the pipeline.
OnWriteStreamMutationResult ==
    /\ IsOpen(write)
    /\ made > 0
    /\ LET rest == IF writePipeline = <<>> THEN <<>> ELSE Tail(writePipeline)
       IN  /\ mutationQueue' = IF writePipeline = <<>> THEN mutationQueue
                               ELSE Without(mutationQueue, Head(writePipeline))
           /\ FillWritePipeline(HardAssert(write, writePipeline # <<>>),
                                mutationQueue', rest, Tail(sent))
    /\ made' = made - 1
    /\ UNCHANGED <<watchVars, asked, handshakeComplete, credentialChanges>>

\* A fault: a write stream that failed waits for the next write.
StaysClosed(closed) == closed

\* The write stream is started again if there is something to send.
StartedIfNeeded(closed) == IF writePipeline = <<>> THEN closed ELSE Start(closed)

\* The write stream breaks, or its token or its handshake is refused: the
\* batches in the pipeline are sent again on the next stream.
WriteStreamFails ==
    /\ IsCalling(write) \/ IsOpen(write)
    /\ write' = StartedIfNeeded(Close(write, FALSE))
    /\ handshakeComplete' = FALSE
    /\ sent' = <<>>
    /\ made' = 0
    /\ UNCHANGED <<watchVars, mutationQueue, asked, writePipeline, credentialChanges>>

\* The server refuses a batch for good and ends the stream, the answers to
\* the batches before it having been read.  The client drops the first batch
\* of its pipeline and starts again without delay.
HandleWriteError ==
    /\ IsOpen(write) /\ handshakeComplete
    /\ sent # <<>> /\ made = 0
    /\ mutationQueue' = Without(mutationQueue, Head(writePipeline))
    /\ FillWritePipeline(InhibitBackoff(Close(write, FALSE)),
                         mutationQueue', Tail(writePipeline), <<>>)
    /\ handshakeComplete' = FALSE
    /\ made' = 0
    /\ UNCHANGED <<watchVars, asked, credentialChanges>>

(***************************************************************************)
(* Either stream: credentials and timers.                                  *)
(***************************************************************************)

\* A token, or the failure to get one, arrives for a stream that is starting.
WatchCredentials ==
    /\ watch.token
    /\ \/ /\ watch' = [HardAssert(watch, watch.state = "Starting") EXCEPT !.token = FALSE]
          /\ UNCHANGED <<online, waiting, watched>>
       \/ OnWatchStreamClose([watch EXCEPT !.token = FALSE], FALSE)
    /\ UNCHANGED <<listenTargets, writeVars, credentialChanges>>

WriteCredentials ==
    /\ write.token
    /\ LET answered == [write EXCEPT !.token = FALSE]
       IN  \/ write' = HardAssert(answered, write.state = "Starting")
           \/ write' = StartedIfNeeded(Close(answered, FALSE))
    /\ UNCHANGED <<watchVars, mutationQueue, asked, writePipeline, handshakeComplete, sent, made,
                   credentialChanges>>

\* A fault: the close count is not compared.
Resumed(st) == HardAssert([st EXCEPT !.stale = @ - 1, !.token = FALSE], st.state = "Starting")

\* A token that was requested before the stream was closed is ignored.
Ignored(st) == [st EXCEPT !.stale = @ - 1]

StaleWatchCredentials ==
    /\ watch.stale > 0
    /\ watch' = Ignored(watch)
    /\ UNCHANGED <<online, listenTargets, watched, waiting, writeVars, credentialChanges>>

StaleWriteCredentials ==
    /\ write.stale > 0
    /\ write' = Ignored(write)
    /\ UNCHANGED <<watchVars, mutationQueue, asked, writePipeline, handshakeComplete, sent, made,
                   credentialChanges>>

WatchBackoffElapsed ==
    /\ "backoff" \in watch.timers
    /\ watch' = RestartAfterBackoff(watch)
    /\ UNCHANGED <<online, listenTargets, watched, waiting, writeVars, credentialChanges>>

WriteBackoffElapsed ==
    /\ "backoff" \in write.timers
    /\ write' = RestartAfterBackoff(write)
    /\ UNCHANGED <<watchVars, mutationQueue, asked, writePipeline, handshakeComplete, sent, made,
                   credentialChanges>>

\* A stream nobody used for a minute is stopped.
WatchStreamIdle ==
    /\ "idle" \in watch.timers
    /\ OnWatchStreamClose(watch, TRUE)
    /\ UNCHANGED <<listenTargets, writeVars, credentialChanges>>

WriteStreamIdle ==
    /\ "idle" \in write.timers
    /\ write' = StartedIfNeeded(HardAssert(Close(write, TRUE), writePipeline = <<>>))
    /\ handshakeComplete' = FALSE
    /\ sent' = <<>>
    /\ made' = 0
    /\ UNCHANGED <<watchVars, mutationQueue, asked, writePipeline, credentialChanges>>

\* A graceful stop; of a stream that is not started it does nothing.
Stop(st) == IF IsStarted(st) THEN Close(st, TRUE) ELSE st

\* New credentials: the network is disabled, which stops both streams and
\* empties the pipeline, and enabled again.
HandleCredentialChange ==
    /\ credentialChanges < MaxCredentialChanges
    /\ credentialChanges' = credentialChanges + 1
    /\ LET unknown == UpdateState(online, "Unknown")
       IN  IF listenTargets # {}
           THEN /\ watch' = Start(Stop(watch))
                /\ SetAndBroadcast(HandleWatchStreamStart(unknown))
           ELSE /\ watch' = Stop(watch)
                /\ SetAndBroadcast(unknown)
    /\ watched' = {}
    /\ FillWritePipeline(Stop(write), mutationQueue, <<>>, <<>>)
    /\ handshakeComplete' = FALSE
    /\ made' = 0
    /\ UNCHANGED <<listenTargets, mutationQueue, asked>>

\* The process dies and runs again: the queue was on disk.
Restart ==
    /\ watch' = NewStream
    /\ online' = NewTracker
    /\ listenTargets' = {}
    /\ watched' = {}
    /\ waiting' = {}
    /\ FillWritePipeline(NewStream, mutationQueue, <<>>, <<>>)
    /\ handshakeComplete' = FALSE
    /\ made' = 0
    /\ UNCHANGED <<mutationQueue, asked, credentialChanges>>

Init ==
    /\ watch = NewStream
    /\ write = NewStream
    /\ online = NewTracker
    /\ listenTargets = {}
    /\ watched = {}
    /\ waiting = {}
    /\ mutationQueue = <<>>
    /\ asked = 0
    /\ writePipeline = <<>>
    /\ handshakeComplete = FALSE
    /\ sent = <<>>
    /\ made = 0
    /\ credentialChanges = 0

Next ==
    \/ \E t \in Target : Listen(t) \/ StopListening(t) \/ ProcessTargetError(t)
    \/ OnWatchStreamOpen \/ WatchStreamFails \/ OnWatchStreamChange \/ OnlineStateTimeout
    \/ WriteMutations \/ OnWriteStreamOpen \/ OnWriteStreamHandshakeComplete
    \/ ServerCommits \/ OnWriteStreamMutationResult \/ WriteStreamFails \/ HandleWriteError
    \/ WatchCredentials \/ StaleWatchCredentials \/ WatchBackoffElapsed
    \/ WriteCredentials \/ StaleWriteCredentials \/ WriteBackoffElapsed
    \/ WatchStreamIdle \/ WriteStreamIdle \/ HandleCredentialChange \/ Restart

(***************************************************************************)
(* What the backend and the worker queue are relied upon to do.  A call    *)
(* ends: it opens the stream or fails.  A token comes or fails to come,    *)
(* and delays end.  What a stream that opens again and again carries       *)
(* arrives some time; no such promise is made that a stream ever opens,    *)
(* except for writes, which nothing but the server can settle.             *)
(***************************************************************************)
WatchCallEnds == OnWatchStreamOpen \/ (IsCalling(watch) /\ WatchStreamFails)
QueryAnswered(t) == t \in waiting /\ OnWatchStreamChange /\ t \notin waiting'

WatchFairness ==
    /\ WF_vars(WatchCredentials)
    /\ WF_vars(WatchBackoffElapsed)
    /\ WF_vars(WatchCallEnds)
    /\ \A t \in Target : SF_vars(QueryAnswered(t))

WriteFairness ==
    /\ SF_vars(WriteCredentials /\ write'.state = "Starting")
    /\ WF_vars(WriteBackoffElapsed)
    /\ SF_vars(OnWriteStreamOpen)
    /\ SF_vars(OnWriteStreamHandshakeComplete)
    /\ SF_vars(ServerCommits)
    /\ SF_vars(OnWriteStreamMutationResult)

\* The process is not killed for ever.
RestartsStop == <>[][~Restart]_vars

Spec == Init /\ [][Next]_vars
FairSpec == Spec /\ WatchFairness /\ WriteFairness /\ RestartsStop

(***************************************************************************)
(* Safety.                                                                 *)
(***************************************************************************)

\* No HARD_ASSERT of the streams, the tracker or RemoteStore fails, in
\* whatever order calls, tokens, timers, answers and failures come: none
\* aborts the app.
AssertionsHold == watch.sound /\ write.sound /\ online.sound

\* A stream somebody needs is on its way: with a query listened to the watch
\* stream, with a batch in the pipeline the write stream is open, starting
\* or waiting to start again; and a queued write has reached the pipeline
\* unless that is full.
NeededStreamsRun ==
    /\ listenTargets # {} => IsStarted(watch)
    /\ writePipeline # <<>> => IsStarted(write)
    /\ mutationQueue # <<>> => writePipeline # <<>>

\* The n-th answer on a write stream answers the n-th batch of the pipeline,
\* which is how OnWriteStreamMutationResult takes it: an established stream
\* has carried exactly the pipeline, each batch once and in order, and the
\* pipeline is what the queue begins with.
SentIsPipeline ==
    /\ sent = IF IsOpen(write) /\ handshakeComplete THEN writePipeline ELSE <<>>
    /\ Len(writePipeline) <= Len(mutationQueue)
    /\ writePipeline = SubSeq(mutationQueue, 1, Len(writePipeline))

\* The server is asked for exactly the queries the client listens to.
WatchedIsListened == watched = IF IsOpen(watch) THEN listenTargets ELSE {}

\* An established write stream without work is stopped after a minute, and
\* no stream with work is: the idle timer runs in the first case only.
OnlyIdleStreamsStop ==
    /\ "idle" \in watch.timers => listenTargets = {}
    /\ IsOpen(write) => ("idle" \in write.timers <=> writePipeline = <<>>)

\* "If the timeout is reached, we transition to Offline rather than waiting
\* indefinitely" (online_state_tracker.cc): while a query is listened to and
\* it is unknown whether the backend can be reached, the timeout is running.
UnknownIsTimed ==
    online.state = "Unknown" /\ listenTargets # {} => online.timer

\* The writes of the device fare as WriteDelivery says.
Delivery == INSTANCE WriteDelivery WITH
    Write <- BatchId, MaxOnWire <- MaxPendingWrites,
    queue <- mutationQueue, committed <- {sent[i] : i \in 1..made}
DeliverySpec == Delivery!DeliverySpec

(***************************************************************************)
(* Liveness.                                                               *)
(***************************************************************************)

\* Every fetch is answered, by the server or from the cache, even when no
\* stream ever opens.
FetchesEnd == \A t \in Target : t \in waiting ~> t \notin waiting

\* Every write is answered, whatever breaks on the way.
Queued(b) == \E i \in DOMAIN mutationQueue : mutationQueue[i] = b
WritesSettle == \A b \in BatchId : Queued(b) ~> ~Queued(b)
================================================================================
