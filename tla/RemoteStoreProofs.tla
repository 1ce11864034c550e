---------------------------- MODULE RemoteStoreProofs ----------------------------
(***************************************************************************)
(* Proofs about RemoteStore, for any queries, any room in the pipeline and *)
(* any number of writes and of changes of the credentials: no assertion of *)
(* the client fails, needed streams run, the answers of a write stream     *)
(* meet the writes they answer, and the writes fare as WriteDelivery says. *)
(*                                                                         *)
(* The watch half and the write half share nothing but the count of        *)
(* credential changes, so each has an invariant of its own.                *)
(***************************************************************************)
EXTENDS RemoteStore, TLAPS, FiniteSetTheorems, SequenceTheorems

(***************************************************************************)
(* Streams.  A sound stream asks for a token only while it starts, backs   *)
(* off only in Backoff and idles only while it is open; it has not         *)
(* outlived more token requests than there were credential changes.        *)
(***************************************************************************)
StreamInv(st, n) ==
    /\ st \in Stream
    /\ st.sound
    /\ st.token => st.state = "Starting"
    /\ "backoff" \in st.timers => st.state = "Backoff"
    /\ "idle" \in st.timers => st.state = "Open"
    /\ st.stale <= n

LEMMA NewStreamIsSound == StreamInv(NewStream, 0) /\ ~IsStarted(NewStream) /\ ~IsOpen(NewStream)
BY BoundsAssumption DEF StreamInv, NewStream, Stream, IsStarted, IsOpen

\* A stream that is not started can be.
LEMMA StartIsSound ==
    ASSUME NEW st, NEW n \in Nat, StreamInv(st, n), ~IsStarted(st)
    PROVE  /\ StreamInv(Start(st), n)
           /\ IsStarted(Start(st)) /\ ~IsOpen(Start(st))
           /\ "idle" \notin Start(st).timers
BY DEF StreamInv, Stream, Start, HardAssert, IsStarted, IsOpen

LEMMA RestartIsSound ==
    ASSUME NEW st, NEW n \in Nat, StreamInv(st, n), "backoff" \in st.timers
    PROVE  /\ StreamInv(RestartAfterBackoff(st), n)
           /\ IsStarted(RestartAfterBackoff(st)) /\ ~IsOpen(RestartAfterBackoff(st))
           /\ "idle" \notin RestartAfterBackoff(st).timers
BY DEF StreamInv, Stream, RestartAfterBackoff, Start, HardAssert, IsStarted, IsOpen

LEMMA SendIsSound ==
    ASSUME NEW st, NEW n \in Nat, StreamInv(st, n), IsOpen(st)
    PROVE  /\ StreamInv(Send(st), n)
           /\ IsOpen(Send(st)) /\ IsStarted(Send(st))
           /\ "idle" \notin Send(st).timers
BY DEF StreamInv, Stream, Send, HardAssert, IsStarted, IsOpen

LEMMA MarkIdleIsSound ==
    ASSUME NEW st, NEW n \in Nat, StreamInv(st, n)
    PROVE  /\ StreamInv(MarkIdle(st), n)
           /\ IsOpen(MarkIdle(st)) <=> IsOpen(st)
           /\ IsStarted(MarkIdle(st)) <=> IsStarted(st)
           /\ IsOpen(st) => "idle" \in MarkIdle(st).timers
BY DEF StreamInv, Stream, MarkIdle, IsStarted, IsOpen

\* Closing a stream leaves a token request behind only if one was out.
LEMMA CloseIsSound ==
    ASSUME NEW st, NEW n \in Nat, StreamInv(st, n), IsStarted(st), NEW graceful \in BOOLEAN,
           ~st.token
    PROVE  /\ StreamInv(Close(st, graceful), n)
           /\ ~IsStarted(Close(st, graceful)) /\ ~IsOpen(Close(st, graceful))
           /\ Close(st, graceful).timers = {}
BY DEF StreamInv, Stream, Close, HardAssert, IsStarted, IsOpen

LEMMA StopIsSound ==
    ASSUME NEW st, NEW n \in Nat, StreamInv(st, n), n < MaxCredentialChanges
    PROVE  /\ StreamInv(Stop(st), n + 1)
           /\ ~IsStarted(Stop(st)) /\ ~IsOpen(Stop(st))
<1> DEFINE left == IF st.token THEN st.stale + 1 ELSE st.stale
<1>1. CASE IsStarted(st)
  <2>1. left \in 0..MaxCredentialChanges /\ left <= n + 1
    BY BoundsAssumption DEF StreamInv, Stream
  <2> HIDE DEF left
  <2>2. Stop(st) = [st EXCEPT !.sound = TRUE, !.state = "Initial", !.token = FALSE,
                              !.stale = left, !.timers = {}]
    BY <1>1 DEF StreamInv, Stream, Stop, Close, HardAssert, left
  <2>3. Stop(st) \in Stream
    BY <2>1, <2>2 DEF StreamInv, Stream
  <2>4. /\ Stop(st).sound = TRUE /\ Stop(st).state = "Initial" /\ Stop(st).token = FALSE
        /\ Stop(st).stale = left /\ Stop(st).timers = {}
    BY <2>2 DEF StreamInv, Stream
  <2> QED
    BY <2>1, <2>3, <2>4 DEF StreamInv, IsStarted, IsOpen
<1>2. CASE ~IsStarted(st)
  BY <1>2, BoundsAssumption DEF StreamInv, Stream, Stop, IsStarted, IsOpen
<1> QED
  BY <1>1, <1>2

LEMMA InhibitIsSound ==
    ASSUME NEW st, NEW n \in Nat, StreamInv(st, n), ~IsStarted(st)
    PROVE  /\ StreamInv(InhibitBackoff(st), n)
           /\ ~IsStarted(InhibitBackoff(st)) /\ ~IsOpen(InhibitBackoff(st))
BY DEF StreamInv, Stream, InhibitBackoff, HardAssert, IsStarted, IsOpen

LEMMA AnsweredIsSound ==
    ASSUME NEW st, NEW n \in Nat, StreamInv(st, n), st.token
    PROVE  /\ StreamInv([st EXCEPT !.token = FALSE], n)
           /\ IsStarted([st EXCEPT !.token = FALSE]) /\ ~IsOpen([st EXCEPT !.token = FALSE])
           /\ "idle" \notin [st EXCEPT !.token = FALSE].timers
           /\ ~[st EXCEPT !.token = FALSE].token
BY DEF StreamInv, Stream, IsStarted, IsOpen

LEMMA OpenedIsSound ==
    ASSUME NEW st, NEW n \in Nat, StreamInv(st, n), IsCalling(st)
    PROVE  /\ StreamInv([st EXCEPT !.state = "Open"], n)
           /\ IsOpen([st EXCEPT !.state = "Open"]) /\ IsStarted([st EXCEPT !.state = "Open"])
           /\ "idle" \notin [st EXCEPT !.state = "Open"].timers
BY DEF StreamInv, Stream, IsCalling, IsStarted, IsOpen

LEMMA IgnoredIsSound ==
    ASSUME NEW st, NEW n \in Nat, StreamInv(st, n), st.stale > 0
    PROVE  /\ StreamInv(Ignored(st), n)
           /\ IsOpen(Ignored(st)) <=> IsOpen(st)
           /\ IsStarted(Ignored(st)) <=> IsStarted(st)
           /\ Ignored(st).timers = st.timers
<1>1. st.stale \in 0..MaxCredentialChanges /\ st.stale - 1 \in 0..MaxCredentialChanges
  BY BoundsAssumption DEF StreamInv, Stream
<1>2. st.stale - 1 <= n
  BY <1>1, BoundsAssumption DEF StreamInv
<1> QED
  BY <1>1, <1>2 DEF StreamInv, Stream, Ignored, IsStarted, IsOpen

\* An assertion that holds changes nothing.
LEMMA HardAssertHolds ==
    ASSUME NEW st, NEW n \in Nat, StreamInv(st, n), NEW P \in BOOLEAN, P
    PROVE  /\ StreamInv(HardAssert(st, P), n)
           /\ HardAssert(st, P).state = st.state
           /\ HardAssert(st, P).token = st.token
           /\ HardAssert(st, P).timers = st.timers
           /\ IsOpen(HardAssert(st, P)) <=> IsOpen(st)
           /\ IsStarted(HardAssert(st, P)) <=> IsStarted(st)
<1>1. HardAssert(st, P) = [st EXCEPT !.sound = TRUE]
  BY DEF StreamInv, HardAssert
<1> QED
  BY <1>1 DEF StreamInv, Stream, IsOpen, IsStarted

LEMMA MoreChanges ==
    ASSUME NEW st, NEW n \in Nat, StreamInv(st, n)
    PROVE  StreamInv(st, n + 1)
BY DEF StreamInv, Stream

(***************************************************************************)
(* The watch half.                                                         *)
(***************************************************************************)

\* The timeout runs only while nothing is known of a stream that is on its
\* way, and only a stream that has not failed can be known to be online.
TrackerInv(tr, started) ==
    /\ tr \in Tracker
    /\ tr.sound
    /\ tr.timer => tr.state = "Unknown" /\ tr.failures = 0 /\ started
    /\ tr.state = "Online" => tr.failures = 0

WatchInv ==
    /\ credentialChanges \in 0..MaxCredentialChanges
    /\ StreamInv(watch, credentialChanges)
    /\ TrackerInv(online, IsStarted(watch))
    /\ listenTargets \subseteq Target
    /\ waiting \subseteq listenTargets
    /\ watched = IF IsOpen(watch) THEN listenTargets ELSE {}
    /\ listenTargets # {} => IsStarted(watch)
    /\ "idle" \in watch.timers => listenTargets = {}

LEMMA TrackerRecords ==
    Tracker = [state: {"Unknown", "Online", "Offline"}, failures: {0, 1},
               timer: BOOLEAN, sound: BOOLEAN]
<1>1. 0..1 = {0, 1}
  OBVIOUS
<1> QED
  BY <1>1 DEF Tracker, kMaxWatchStreamFailures

LEMMA UpdateIsSound ==
    ASSUME NEW tr, NEW started \in BOOLEAN, NEW after \in BOOLEAN, TrackerInv(tr, started),
           NEW state \in {"Unknown", "Online", "Offline"}
    PROVE  /\ TrackerInv(UpdateState(tr, state), after)
           /\ UpdateState(tr, state).state = state
<1>1. UpdateState(tr, state) \in Tracker
  BY TrackerRecords DEF TrackerInv, UpdateState
<1>2. /\ UpdateState(tr, state).state = state
      /\ UpdateState(tr, state).failures = 0
      /\ UpdateState(tr, state).timer = FALSE
      /\ UpdateState(tr, state).sound = tr.sound
  BY DEF TrackerInv, Tracker, UpdateState
<1> QED
  BY <1>1, <1>2 DEF TrackerInv

LEMMA TrackerStartIsSound ==
    ASSUME NEW tr, TrackerInv(tr, FALSE)
    PROVE  TrackerInv(HandleWatchStreamStart(tr), TRUE)
BY DEF TrackerInv, Tracker, HandleWatchStreamStart, HardAssert, kMaxWatchStreamFailures

\* A failed stream leaves no timeout behind.
LEMMA TrackerFailureIsSound ==
    ASSUME NEW tr, NEW started \in BOOLEAN, TrackerInv(tr, started)
    PROVE  TrackerInv(HandleWatchStreamFailure(tr), FALSE)
<1> DEFINE failed == HandleWatchStreamFailure(tr)
<1>1. CASE tr.state = "Online"
  <2>1. tr.failures = 0 /\ tr.timer = FALSE /\ tr.sound = TRUE
    BY <1>1 DEF TrackerInv, Tracker
  <2>2. failed = [tr EXCEPT !.sound = TRUE, !.state = "Unknown"]
    BY <1>1, <2>1 DEF TrackerInv, Tracker, HandleWatchStreamFailure, HardAssert
  <2>3. failed \in Tracker
    BY <2>2, TrackerRecords DEF TrackerInv
  <2>4. failed.timer = FALSE /\ failed.sound = TRUE /\ failed.state = "Unknown"
    BY <2>1, <2>2 DEF TrackerInv, Tracker
  <2> QED
    BY <2>3, <2>4 DEF TrackerInv
<1>2. CASE tr.state # "Online"
  <2>1. failed = [tr EXCEPT !.failures = 1, !.timer = FALSE, !.state = "Offline"]
    BY <1>2 DEF TrackerInv, Tracker, HandleWatchStreamFailure, kMaxWatchStreamFailures
  <2>2. failed \in Tracker
    BY <2>1, TrackerRecords DEF TrackerInv
  <2>3. failed.timer = FALSE /\ failed.sound = tr.sound /\ failed.state = "Offline"
    BY <2>1 DEF TrackerInv, Tracker
  <2> QED
    BY <2>2, <2>3 DEF TrackerInv
<1> QED
  BY <1>1, <1>2

LEMMA WatchInit == Init => WatchInv
BY NewStreamIsSound, BoundsAssumption
   DEF Init, WatchInv, TrackerInv, Tracker, NewTracker, kMaxWatchStreamFailures, IsStarted, IsOpen, NewStream

\* What a close of the watch stream leads to.
LEMMA WatchCloses ==
    ASSUME WatchInv, NEW st, NEW graceful \in BOOLEAN,
           StreamInv(st, credentialChanges), IsStarted(st), ~st.token,
           graceful => listenTargets = {},
           OnWatchStreamClose(st, graceful), UNCHANGED <<listenTargets, credentialChanges>>
    PROVE  WatchInv'
<1> DEFINE closed == Close(st, graceful)
<1>1. credentialChanges \in Nat
  BY BoundsAssumption DEF WatchInv
<1>2. /\ StreamInv(closed, credentialChanges)
      /\ ~IsStarted(closed) /\ ~IsOpen(closed)
      /\ closed.timers = {}
  BY <1>1, CloseIsSound
<1>3. waiting' \subseteq listenTargets'
  BY DEF OnWatchStreamClose, SetAndBroadcast, WatchInv
<1> HIDE DEF closed
<1>4. CASE listenTargets # {}
  <2> DEFINE asserted == HardAssert(closed, ~graceful)
  <2>1. /\ StreamInv(asserted, credentialChanges)
        /\ ~IsStarted(asserted)
    BY <1>1, <1>2, <1>4, HardAssertHolds
  <2> HIDE DEF asserted
  <2>2. /\ StreamInv(Start(asserted), credentialChanges)
        /\ IsStarted(Start(asserted)) /\ ~IsOpen(Start(asserted))
        /\ "idle" \notin Start(asserted).timers
    BY <1>1, <2>1, StartIsSound
  <2>3. TrackerInv(HandleWatchStreamStart(HandleWatchStreamFailure(online)), TRUE)
    <3>1. IsStarted(watch) \in BOOLEAN
      BY DEF IsStarted
    <3> QED
      BY <3>1, TrackerFailureIsSound, TrackerStartIsSound DEF WatchInv
  <2>4. /\ watch' = Start(asserted)
        /\ online' = HandleWatchStreamStart(HandleWatchStreamFailure(online))
        /\ watched' = {}
    BY <1>4 DEF OnWatchStreamClose, SetAndBroadcast, asserted, closed
  <2> QED
    BY <1>3, <1>4, <2>2, <2>3, <2>4 DEF WatchInv
<1>5. CASE listenTargets = {}
  <2>1. /\ watch' = closed
        /\ online' = UpdateState(online, "Unknown")
        /\ watched' = {}
    BY <1>5 DEF OnWatchStreamClose, SetAndBroadcast, closed
  <2>2. TrackerInv(UpdateState(online, "Unknown"), FALSE)
    <3>1. IsStarted(watch) \in BOOLEAN
      BY DEF IsStarted
    <3> QED
      BY <3>1, UpdateIsSound DEF WatchInv
  <2>3. IsStarted(closed) = FALSE /\ IsOpen(closed) = FALSE
    BY <1>2 DEF IsStarted, IsOpen
  <2> QED
    BY <1>2, <1>3, <1>5, <2>1, <2>2, <2>3 DEF WatchInv
<1> QED
  BY <1>4, <1>5

LEMMA ListenStep == ASSUME WatchInv, NEW t \in Target, Listen(t) PROVE WatchInv'
<1>1. credentialChanges \in Nat /\ credentialChanges' = credentialChanges
  BY BoundsAssumption DEF WatchInv, Listen
<1>2. listenTargets' = listenTargets \cup {t} /\ listenTargets' \subseteq Target
  BY DEF Listen, WatchInv
<1>3. waiting' \subseteq listenTargets'
  BY <1>2 DEF Listen, WatchInv
<1>4. CASE ~IsStarted(watch) /\ watch' = Start(watch) /\ online' = HandleWatchStreamStart(online)
           /\ UNCHANGED watched
  <2>1. /\ StreamInv(Start(watch), credentialChanges)
        /\ IsStarted(Start(watch)) = TRUE /\ IsOpen(Start(watch)) = FALSE
        /\ "idle" \notin Start(watch).timers
    BY <1>1, <1>4, StartIsSound DEF WatchInv, IsStarted, IsOpen
  <2>2. IsStarted(watch) = FALSE /\ IsOpen(watch) = FALSE
    BY <1>4 DEF IsStarted, IsOpen
  <2>3. TrackerInv(HandleWatchStreamStart(online), TRUE)
    BY <2>2, TrackerStartIsSound DEF WatchInv
  <2> QED
    BY <1>1, <1>2, <1>3, <1>4, <2>1, <2>2, <2>3 DEF WatchInv
<1>5. CASE IsOpen(watch) /\ watch' = Send(watch) /\ watched' = watched \cup {t} /\ UNCHANGED online
  <2>1. /\ StreamInv(Send(watch), credentialChanges)
        /\ IsStarted(Send(watch)) = TRUE /\ IsOpen(Send(watch)) = TRUE
        /\ "idle" \notin Send(watch).timers
    BY <1>1, <1>5, SendIsSound DEF WatchInv, IsStarted, IsOpen
  <2>2. IsStarted(watch) = TRUE /\ IsOpen(watch) = TRUE
    BY <1>5 DEF IsStarted, IsOpen
  <2> QED
    BY <1>1, <1>2, <1>3, <1>5, <2>1, <2>2 DEF WatchInv
<1>6. CASE IsStarted(watch) /\ ~IsOpen(watch) /\ UNCHANGED <<watch, watched, online>>
  <2>1. "idle" \notin watch.timers
    BY <1>6 DEF WatchInv, StreamInv, IsOpen
  <2>2. IsStarted(watch) = TRUE /\ IsOpen(watch) = FALSE
    BY <1>6 DEF IsStarted, IsOpen
  <2> QED
    BY <1>1, <1>2, <1>3, <1>6, <2>1, <2>2 DEF WatchInv
<1> QED
  BY <1>4, <1>5, <1>6 DEF Listen

LEMMA StopListeningStep == ASSUME WatchInv, NEW t \in Target, StopListening(t) PROVE WatchInv'
<1>1. credentialChanges \in Nat /\ credentialChanges' = credentialChanges
  BY BoundsAssumption DEF WatchInv, StopListening
<1>2. /\ t \in listenTargets \ waiting
      /\ listenTargets' = listenTargets \ {t} /\ listenTargets' \subseteq Target
      /\ watched' = watched \ {t}
  BY DEF StopListening, WatchInv
<1>3. waiting' \subseteq listenTargets'
  BY <1>2 DEF StopListening, SetAndBroadcast, WatchInv
<1>4. IsStarted(watch) = TRUE
  BY <1>2 DEF WatchInv, IsStarted
<1>5. CASE IsOpen(watch)
  <2>1. /\ StreamInv(Send(watch), credentialChanges)
        /\ IsStarted(Send(watch)) = TRUE /\ IsOpen(Send(watch)) = TRUE
        /\ "idle" \notin Send(watch).timers
    BY <1>1, <1>5, SendIsSound DEF WatchInv, IsStarted, IsOpen
  <2>2. /\ StreamInv(MarkIdle(Send(watch)), credentialChanges)
        /\ IsStarted(MarkIdle(Send(watch))) = TRUE /\ IsOpen(MarkIdle(Send(watch))) = TRUE
    BY <1>1, <2>1, MarkIdleIsSound DEF IsStarted, IsOpen
  <2>3. online' = online
    BY <1>5 DEF StopListening
  <2>4. IsOpen(watch) = TRUE
    BY <1>5 DEF IsOpen
  <2>5. CASE listenTargets' = {}
    <3>1. watch' = MarkIdle(Send(watch))
      BY <1>5, <2>5 DEF StopListening
    <3> QED
      BY <1>1, <1>2, <1>3, <1>4, <2>2, <2>3, <2>4, <2>5, <3>1 DEF WatchInv
  <2>6. CASE listenTargets' # {}
    <3>1. watch' = Send(watch)
      BY <1>5, <2>6 DEF StopListening
    <3> QED
      BY <1>1, <1>2, <1>3, <1>4, <2>1, <2>3, <2>4, <3>1 DEF WatchInv
  <2> QED
    BY <2>5, <2>6
<1>6. CASE ~IsOpen(watch)
  <2>1. watch' = watch /\ IsOpen(watch) = FALSE
    BY <1>6 DEF StopListening, IsOpen
  <2>2. "idle" \notin watch.timers
    BY <1>6 DEF WatchInv, StreamInv, IsOpen
  <2>3. TrackerInv(online', TRUE)
    <3>1. online' = online \/ online' = UpdateState(online, "Unknown")
      BY DEF StopListening, SetAndBroadcast
    <3> QED
      BY <1>4, <3>1, UpdateIsSound DEF WatchInv
  <2> QED
    BY <1>1, <1>2, <1>3, <1>4, <2>1, <2>2, <2>3 DEF WatchInv
<1> QED
  BY <1>5, <1>6

LEMMA WatchOpenStep == ASSUME WatchInv, OnWatchStreamOpen PROVE WatchInv'
<1> DEFINE open == [watch EXCEPT !.state = "Open"]
<1>1. credentialChanges \in Nat /\ credentialChanges' = credentialChanges
  BY BoundsAssumption DEF WatchInv, OnWatchStreamOpen
<1>2. /\ StreamInv(open, credentialChanges)
      /\ IsOpen(open) = TRUE /\ IsStarted(open) = TRUE
      /\ "idle" \notin open.timers
  BY <1>1, OpenedIsSound DEF WatchInv, OnWatchStreamOpen, IsStarted, IsOpen
<1>3. watch' = IF listenTargets = {} THEN open ELSE Send(open)
  BY DEF OnWatchStreamOpen, ExistingWatches
<1> HIDE DEF open
<1>4. /\ StreamInv(Send(open), credentialChanges)
      /\ IsOpen(Send(open)) = TRUE /\ IsStarted(Send(open)) = TRUE
      /\ "idle" \notin Send(open).timers
  BY <1>1, <1>2, SendIsSound DEF IsOpen, IsStarted
<1>5. IsStarted(watch) = TRUE
  BY DEF OnWatchStreamOpen, IsCalling, IsStarted
<1>6. /\ StreamInv(watch', credentialChanges)
      /\ IsOpen(watch') = TRUE /\ IsStarted(watch') = TRUE
      /\ "idle" \notin watch'.timers
  BY <1>2, <1>3, <1>4
<1>7. UNCHANGED <<online, listenTargets, waiting>> /\ watched' = listenTargets
  BY DEF OnWatchStreamOpen, ExistingWatches
<1> QED
  BY <1>1, <1>5, <1>6, <1>7 DEF WatchInv

LEMMA WatchMessageStep ==
    ASSUME WatchInv, OnWatchStreamChange \/ \E t \in Target : ProcessTargetError(t)
    PROVE  WatchInv'
<1>1. TrackerInv(UpdateState(online, "Online"), TRUE)
  <2>1. IsStarted(watch) \in BOOLEAN
    BY DEF IsStarted
  <2> QED
    BY <2>1, UpdateIsSound DEF WatchInv
<1>2. IsStarted(watch) = TRUE /\ IsOpen(watch) = TRUE
  BY DEF OnWatchStreamChange, ProcessTargetError, IsStarted, IsOpen
<1>3. /\ watch' = watch /\ credentialChanges' = credentialChanges
      /\ online' = UpdateState(online, "Online")
  BY DEF OnWatchStreamChange, ProcessTargetError
<1>4. /\ listenTargets' \subseteq listenTargets
      /\ waiting' \subseteq listenTargets'
      /\ watched' = listenTargets'
  BY <1>2 DEF OnWatchStreamChange, ProcessTargetError, HandleRejectedListen, WatchInv
<1> QED
  BY <1>1, <1>2, <1>3, <1>4 DEF WatchInv

LEMMA TimeoutStep == ASSUME WatchInv, OnlineStateTimeout PROVE WatchInv'
<1> DEFINE offline == [HardAssert(online, online.state = "Unknown") EXCEPT
                           !.timer = FALSE, !.state = "Offline"]
<1>1. online.state = "Unknown" /\ online.sound = TRUE /\ online \in Tracker
  BY DEF WatchInv, TrackerInv, OnlineStateTimeout, Tracker
<1>2. offline = [online EXCEPT !.sound = TRUE, !.timer = FALSE, !.state = "Offline"]
  BY <1>1 DEF Tracker, HardAssert
<1>3. offline \in Tracker
  BY <1>1, <1>2, TrackerRecords
<1>4. offline.sound = TRUE /\ offline.timer = FALSE /\ offline.state = "Offline"
  BY <1>1, <1>2 DEF Tracker
<1>5. online' = offline /\ waiting' \subseteq waiting
  BY DEF OnlineStateTimeout, SetAndBroadcast
<1> HIDE DEF offline
<1>6. TrackerInv(online', IsStarted(watch))
  BY <1>3, <1>4, <1>5 DEF TrackerInv
<1> QED
  BY <1>5, <1>6 DEF OnlineStateTimeout, WatchInv

LEMMA WatchFailsStep == ASSUME WatchInv, WatchStreamFails PROVE WatchInv'
<1>1. IsStarted(watch) /\ ~watch.token
  BY DEF WatchInv, StreamInv, Stream, WatchStreamFails, IsCalling, IsOpen, IsStarted
<1> QED
  BY <1>1, WatchCloses DEF WatchInv, WatchStreamFails

LEMMA WatchIdleStep == ASSUME WatchInv, WatchStreamIdle PROVE WatchInv'
<1>1. IsStarted(watch) /\ ~watch.token /\ listenTargets = {}
  BY DEF WatchInv, StreamInv, Stream, WatchStreamIdle, IsStarted
<1> QED
  BY <1>1, WatchCloses DEF WatchInv, WatchStreamIdle

LEMMA WatchCredentialsStep == ASSUME WatchInv, WatchCredentials PROVE WatchInv'
<1> DEFINE answered == [watch EXCEPT !.token = FALSE]
<1>1. credentialChanges \in Nat /\ credentialChanges' = credentialChanges
  BY BoundsAssumption DEF WatchInv, WatchCredentials
<1>2. /\ StreamInv(answered, credentialChanges)
      /\ IsStarted(answered) = TRUE /\ IsOpen(answered) = FALSE
      /\ "idle" \notin answered.timers
      /\ ~answered.token
  BY <1>1, AnsweredIsSound DEF WatchInv, WatchCredentials, IsStarted, IsOpen
<1>3. CASE OnWatchStreamClose(answered, FALSE)
  BY <1>2, <1>3, WatchCloses DEF WatchCredentials
<1>4. CASE /\ watch' = [HardAssert(watch, watch.state = "Starting") EXCEPT !.token = FALSE]
           /\ UNCHANGED <<online, waiting, watched>>
  <2>1. watch.state = "Starting" /\ watch.sound = TRUE /\ watch \in Stream
    BY DEF WatchInv, StreamInv, WatchCredentials, Stream
  <2>2. watch' = [watch EXCEPT !.sound = TRUE, !.token = FALSE]
    BY <1>4, <2>1 DEF HardAssert
  <2>3. watch' \in Stream
    BY <2>1, <2>2 DEF Stream
  <2>4. /\ watch'.sound = TRUE /\ watch'.token = FALSE /\ watch'.state = watch.state
        /\ watch'.stale = watch.stale /\ watch'.timers = watch.timers
    BY <2>1, <2>2 DEF Stream
  <2>5. StreamInv(watch', credentialChanges')
    BY <1>1, <2>3, <2>4 DEF WatchInv, StreamInv
  <2>6. IsStarted(watch') = IsStarted(watch) /\ IsOpen(watch') = IsOpen(watch)
    BY <2>4 DEF IsStarted, IsOpen
  <2> QED
    BY <1>1, <1>4, <2>4, <2>5, <2>6 DEF WatchInv, WatchCredentials
<1> QED
  BY <1>3, <1>4 DEF WatchCredentials

LEMMA StaleWatchStep == ASSUME WatchInv, StaleWatchCredentials PROVE WatchInv'
<1>1. credentialChanges \in Nat /\ credentialChanges' = credentialChanges
  BY BoundsAssumption DEF WatchInv, StaleWatchCredentials
<1>2. /\ StreamInv(watch', credentialChanges')
      /\ watch'.timers = watch.timers
  BY <1>1, IgnoredIsSound DEF WatchInv, StaleWatchCredentials
<1>3. IsOpen(watch') = IsOpen(watch) /\ IsStarted(watch') = IsStarted(watch)
  BY <1>1, IgnoredIsSound DEF WatchInv, StaleWatchCredentials, IsOpen, IsStarted
<1> QED
  BY <1>1, <1>2, <1>3 DEF WatchInv, StaleWatchCredentials

LEMMA WatchBackoffStep == ASSUME WatchInv, WatchBackoffElapsed PROVE WatchInv'
<1>1. credentialChanges \in Nat /\ credentialChanges' = credentialChanges
  BY BoundsAssumption DEF WatchInv, WatchBackoffElapsed
<1>2. /\ StreamInv(watch', credentialChanges')
      /\ IsStarted(watch') = TRUE /\ IsOpen(watch') = FALSE
      /\ "idle" \notin watch'.timers
  BY <1>1, RestartIsSound DEF WatchInv, WatchBackoffElapsed, IsOpen, IsStarted
<1>3. IsStarted(watch) = TRUE /\ IsOpen(watch) = FALSE
  BY DEF WatchInv, StreamInv, WatchBackoffElapsed, IsStarted, IsOpen
<1> QED
  BY <1>1, <1>2, <1>3 DEF WatchInv, WatchBackoffElapsed

LEMMA WatchCredentialChangeStep == ASSUME WatchInv, HandleCredentialChange PROVE WatchInv'
<1> DEFINE n == credentialChanges + 1
           unknown == UpdateState(online, "Unknown")
<1>1. credentialChanges \in Nat /\ n \in 0..MaxCredentialChanges /\ credentialChanges' = n
  BY BoundsAssumption DEF WatchInv, HandleCredentialChange
<1>2. /\ StreamInv(Stop(watch), n)
      /\ IsStarted(Stop(watch)) = FALSE /\ IsOpen(Stop(watch)) = FALSE
  BY <1>1, StopIsSound DEF WatchInv, HandleCredentialChange, IsStarted, IsOpen
<1>3. TrackerInv(unknown, FALSE)
  <2>1. IsStarted(watch) \in BOOLEAN
    BY DEF IsStarted
  <2> QED
    BY <2>1, UpdateIsSound DEF WatchInv
<1>4. waiting' \subseteq listenTargets' /\ listenTargets' = listenTargets /\ watched' = {}
  BY DEF HandleCredentialChange, SetAndBroadcast, WatchInv
<1> HIDE DEF n, unknown
<1>5. CASE listenTargets # {}
  <2>1. /\ StreamInv(Start(Stop(watch)), n)
        /\ IsStarted(Start(Stop(watch))) = TRUE /\ IsOpen(Start(Stop(watch))) = FALSE
        /\ "idle" \notin Start(Stop(watch)).timers
    BY <1>1, <1>2, StartIsSound DEF IsStarted, IsOpen
  <2>2. TrackerInv(HandleWatchStreamStart(unknown), TRUE)
    BY <1>3, TrackerStartIsSound
  <2>3. watch' = Start(Stop(watch)) /\ online' = HandleWatchStreamStart(unknown)
    BY <1>5 DEF HandleCredentialChange, SetAndBroadcast, unknown
  <2> QED
    BY <1>1, <1>4, <1>5, <2>1, <2>2, <2>3 DEF WatchInv
<1>6. CASE listenTargets = {}
  <2>1. watch' = Stop(watch) /\ online' = unknown
    BY <1>6 DEF HandleCredentialChange, SetAndBroadcast, unknown
  <2> QED
    BY <1>1, <1>2, <1>3, <1>4, <1>6, <2>1 DEF WatchInv
<1> QED
  BY <1>5, <1>6

LEMMA WatchRestartStep == ASSUME WatchInv, Restart PROVE WatchInv'
<1>1. credentialChanges \in Nat /\ credentialChanges' = credentialChanges
  BY BoundsAssumption DEF WatchInv, Restart
<1>2. /\ StreamInv(NewStream, credentialChanges)
      /\ IsStarted(NewStream) = FALSE /\ IsOpen(NewStream) = FALSE
  BY <1>1, NewStreamIsSound DEF StreamInv, NewStream, IsStarted, IsOpen
<1>3. TrackerInv(NewTracker, FALSE)
  BY TrackerRecords DEF TrackerInv, NewTracker
<1> QED
  BY <1>1, <1>2, <1>3 DEF WatchInv, Restart

\* The actions of the write half.
WriteStep ==
    \/ WriteMutations \/ OnWriteStreamOpen \/ OnWriteStreamHandshakeComplete
    \/ ServerCommits \/ OnWriteStreamMutationResult \/ WriteStreamFails \/ HandleWriteError
    \/ WriteCredentials \/ StaleWriteCredentials \/ WriteBackoffElapsed \/ WriteStreamIdle

LEMMA WatchStep == WatchInv /\ [Next]_vars => WatchInv'
<1> SUFFICES ASSUME WatchInv, [Next]_vars PROVE WatchInv'
  OBVIOUS
<1>1. CASE WriteStep \/ UNCHANGED vars
  <2>1. UNCHANGED <<watchVars, credentialChanges>>
    BY <1>1 DEF WriteStep, vars, WriteMutations, OnWriteStreamOpen, OnWriteStreamHandshakeComplete,
          ServerCommits, OnWriteStreamMutationResult, WriteStreamFails, HandleWriteError,
          WriteCredentials, StaleWriteCredentials, WriteBackoffElapsed, WriteStreamIdle
  <2> QED
    BY <2>1 DEF WatchInv, watchVars
<1> QED
  BY <1>1, ListenStep, StopListeningStep, WatchOpenStep, WatchMessageStep, TimeoutStep,
     WatchFailsStep, WatchIdleStep, WatchCredentialsStep, StaleWatchStep, WatchBackoffStep,
     WatchCredentialChangeStep, WatchRestartStep
     DEF Next, WriteStep

(***************************************************************************)
(* The queue and the pipeline.  Batch ids grow along the queue, and the    *)
(* pipeline is as much of its beginning as there is room for.              *)
(***************************************************************************)
Growing(queue) == \A i, j \in 1..Len(queue) : i < j => queue[i] < queue[j]

Room(queue) == IF MaxPendingWrites < Len(queue) THEN MaxPendingWrites ELSE Len(queue)
Front(queue) == SubSeq(queue, 1, Room(queue))

LEMMA RoomIsNatural ==
    ASSUME NEW queue \in Seq(BatchId)
    PROVE  /\ Len(queue) \in Nat
           /\ Room(queue) \in 0..Len(queue) /\ Room(queue) <= MaxPendingWrites
           /\ Room(queue) = 0 <=> queue = <<>>
BY BoundsAssumption, LenProperties, EmptySeq DEF Room

LEMMA PrefixProperties ==
    ASSUME NEW queue \in Seq(BatchId), NEW k \in 0..Len(queue)
    PROVE  /\ SubSeq(queue, 1, k) \in Seq(BatchId)
           /\ Len(SubSeq(queue, 1, k)) = k
           /\ \A i \in 1..k : SubSeq(queue, 1, k)[i] = queue[i]
           /\ SubSeq(queue, 1, k) = <<>> <=> k = 0
<1>1. Len(queue) \in Nat
  BY LenProperties
<1>2. \A i \in 1..k : queue[i] \in BatchId
  BY <1>1, ElementOfSeq
<1>3. /\ SubSeq(queue, 1, k) \in Seq(BatchId)
      /\ Len(SubSeq(queue, 1, k)) = k
      /\ \A i \in 1..k : SubSeq(queue, 1, k)[i] = queue[i]
  BY <1>1, <1>2, SubSeqProperties
<1> QED
  BY <1>3, EmptySeq

\* Refilling a pipeline that is a prefix of the queue makes it the front.
LEMMA FilledIsFront ==
    ASSUME NEW queue \in Seq(BatchId), Growing(queue), NEW k \in 0..Room(queue)
    PROVE  Filled(queue, SubSeq(queue, 1, k)) = Front(queue)
<1> DEFINE pipeline == SubSeq(queue, 1, k)
           last     == IF pipeline = <<>> THEN 0 ELSE pipeline[Len(pipeline)]
           before   == {i \in DOMAIN queue : queue[i] <= last}
<1>1. /\ Len(queue) \in Nat /\ DOMAIN queue = 1..Len(queue)
      /\ Room(queue) \in 0..Len(queue) /\ Room(queue) <= MaxPendingWrites
      /\ MaxPendingWrites \in Nat
  BY RoomIsNatural, LenProperties, BoundsAssumption
<1>2. k \in 0..Len(queue)
  BY <1>1
<1>3. Len(pipeline) = k /\ (pipeline = <<>> <=> k = 0) /\ \A i \in 1..k : pipeline[i] = queue[i]
  BY <1>2, PrefixProperties
<1>4. \A i \in 1..Len(queue) : queue[i] \in Nat \ {0}
  BY ElementOfSeq, BoundsAssumption DEF BatchId
<1>5. before = 1..k
  <2>1. ASSUME k = 0 PROVE before = 1..k
    <3>1. last = 0
      BY <1>3, <2>1
    <3> HIDE DEF last
    <3>2. \A i \in 1..Len(queue) : ~(queue[i] <= last)
      BY <1>4, <3>1
    <3> QED
      BY <1>1, <2>1, <3>2
  <2>2. ASSUME k # 0 PROVE before = 1..k
    <3>1. last = queue[k] /\ k \in 1..Len(queue)
      BY <1>1, <1>2, <1>3, <2>2
    <3> HIDE DEF last
    <3>2. ASSUME NEW i \in 1..Len(queue)
          PROVE  queue[i] <= queue[k] <=> i <= k
      BY <1>4, <3>1 DEF Growing
    <3> QED
      BY <1>1, <3>1, <3>2
  <2> HIDE DEF before
  <2> QED
    BY <2>1, <2>2
<1>6. Cardinality(before) = k
  <2> HIDE DEF before
  <2>1. k \in Nat
    BY <1>1
  <2>2. Cardinality(1..k) = k
    <3>1. Cardinality(1..k) = IF 1 > k THEN 0 ELSE k - 1 + 1
      BY <2>1, FS_Interval
    <3> QED
      BY <2>1, <3>1
  <2> QED
    BY <1>5, <2>2
<1>7. Filled(queue, pipeline) =
          pipeline \o SubSeq(queue, k + 1, IF k + (MaxPendingWrites - k) < Len(queue)
                                           THEN k + (MaxPendingWrites - k) ELSE Len(queue))
  BY <1>3, <1>6 DEF Filled
<1>8. Filled(queue, pipeline) = pipeline \o SubSeq(queue, k + 1, Room(queue))
  <2>1. k + (MaxPendingWrites - k) = MaxPendingWrites
    BY <1>1, <1>2
  <2> QED
    BY <1>7, <2>1 DEF Room
<1>9. pipeline \o SubSeq(queue, k + 1, Room(queue)) = SubSeq(queue, 1, Room(queue))
  <2>1. 1 \in 1..(Len(queue) + 1) /\ k \in (1 - 1)..Len(queue) /\ Room(queue) \in k..Len(queue)
    BY <1>1, <1>2
  <2> QED
    BY <2>1, ConcatAdjacentSubSeq
<1> QED
  BY <1>8, <1>9 DEF Front

\* What joined the pipeline.
LEMMA AddedToFront ==
    ASSUME NEW queue \in Seq(BatchId), NEW k \in 0..Room(queue)
    PROVE  LET added == SubSeq(Front(queue), k + 1, Len(Front(queue)))
           IN  /\ SubSeq(queue, 1, k) \o added = Front(queue)
               /\ added = <<>> <=> k = Room(queue)
<1> DEFINE added == SubSeq(Front(queue), k + 1, Len(Front(queue)))
<1>1. Len(queue) \in Nat /\ Room(queue) \in 0..Len(queue)
  BY RoomIsNatural
<1>2. /\ Front(queue) \in Seq(BatchId)
      /\ Len(Front(queue)) = Room(queue)
      /\ \A i \in 1..Room(queue) : Front(queue)[i] = queue[i]
  BY <1>1, PrefixProperties DEF Front
<1>3. k \in 0..Len(Front(queue)) /\ k \in 0..Len(queue)
  BY <1>1, <1>2
<1>4. SubSeq(queue, 1, k) = SubSeq(Front(queue), 1, k)
  <2>1. /\ SubSeq(queue, 1, k) \in Seq(BatchId) /\ Len(SubSeq(queue, 1, k)) = k
        /\ \A i \in 1..k : SubSeq(queue, 1, k)[i] = queue[i]
    BY <1>3, PrefixProperties
  <2>2. /\ SubSeq(Front(queue), 1, k) \in Seq(BatchId) /\ Len(SubSeq(Front(queue), 1, k)) = k
        /\ \A i \in 1..k : SubSeq(Front(queue), 1, k)[i] = Front(queue)[i]
    BY <1>2, <1>3, PrefixProperties
  <2>3. \A i \in 1..k : i \in 1..Room(queue)
    BY <1>1
  <2> QED
    BY <1>2, <2>1, <2>2, <2>3, SeqEqual
<1>5. SubSeq(Front(queue), 1, k) \o added = SubSeq(Front(queue), 1, Len(Front(queue)))
  <2>1. /\ 1 \in 1..(Len(Front(queue)) + 1) /\ k \in (1 - 1)..Len(Front(queue))
        /\ Len(Front(queue)) \in k..Len(Front(queue))
    BY <1>1, <1>2, <1>3
  <2> QED
    BY <1>2, <2>1, ConcatAdjacentSubSeq
<1>6. SubSeq(queue, 1, k) \o added = Front(queue)
  BY <1>2, <1>4, <1>5, SubSeqFull
<1>7. added = <<>> <=> k = Room(queue)
  <2>1. \A i \in (k + 1)..Len(Front(queue)) : Front(queue)[i] \in BatchId
    BY <1>1, <1>2, <1>3, ElementOfSeq
  <2>2. added \in Seq(BatchId) /\ Len(added) = IF k + 1 <= Room(queue) THEN Room(queue) - k ELSE 0
    BY <1>1, <1>2, <1>3, <2>1, SubSeqProperties
  <2> HIDE DEF added
  <2>3. added = <<>> <=> Len(added) = 0
    BY <2>2, EmptySeq
  <2>4. Len(added) = 0 <=> k = Room(queue)
    BY <1>1, <1>2, <1>3, <2>2
  <2> QED
    BY <2>3, <2>4
<1> QED
  BY <1>6, <1>7

\* The batch the server answers or refuses is the first of the queue.
LEMMA WithoutFirst ==
    ASSUME NEW queue \in Seq(BatchId), Growing(queue), queue # <<>>
    PROVE  /\ Front(queue) # <<>> /\ Head(Front(queue)) = queue[1] /\ Head(queue) = queue[1]
           /\ Without(queue, Head(Front(queue))) = Tail(queue)
           /\ Tail(queue) \in Seq(BatchId) /\ Growing(Tail(queue))
           /\ Tail(Front(queue)) = SubSeq(Tail(queue), 1, Room(queue) - 1)
           /\ Room(queue) - 1 \in 0..Room(Tail(queue))
<1>1. /\ Len(queue) \in Nat \ {0} /\ DOMAIN queue = 1..Len(queue)
      /\ Room(queue) \in 1..Len(queue)
  BY RoomIsNatural, LenProperties, EmptySeq
<1>2. /\ Front(queue) \in Seq(BatchId) /\ Front(queue) # <<>>
      /\ Len(Front(queue)) = Room(queue)
      /\ \A i \in 1..Room(queue) : Front(queue)[i] = queue[i]
  BY <1>1, PrefixProperties DEF Front
<1>3. Head(Front(queue)) = queue[1] /\ Head(queue) = queue[1]
  BY <1>1, <1>2
<1>4. /\ Tail(queue) \in Seq(BatchId) /\ Len(Tail(queue)) = Len(queue) - 1
      /\ \A i \in 1..Len(Tail(queue)) : Tail(queue)[i] = queue[i + 1]
  BY HeadTailProperties
<1>5. Without(queue, Head(Front(queue))) = Tail(queue)
  <2> DEFINE n == CHOOSE i \in DOMAIN queue : queue[i] = queue[1]
  <2>1. \A i \in 1..Len(queue) : queue[i] \in Nat
    BY ElementOfSeq, BoundsAssumption DEF BatchId
  <2>2. \A i \in 1..Len(queue) : queue[i] = queue[1] => i = 1
    BY <1>1, <2>1 DEF Growing
  <2>3. n \in DOMAIN queue /\ queue[n] = queue[1]
    BY <1>1
  <2>4. n = 1
    BY <1>1, <2>2, <2>3
  <2>5. Without(queue, queue[1]) = SubSeq(queue, 1, n - 1) \o SubSeq(queue, n + 1, Len(queue))
    BY DEF Without
  <2> HIDE DEF n
  <2>6. SubSeq(queue, 1, n - 1) = <<>>
    BY <2>4, SubSeqEmpty
  <2>7. SubSeq(queue, n + 1, Len(queue)) = Tail(queue)
    BY <2>4, TailIsSubSeq
  <2> QED
    BY <1>3, <1>4, <2>5, <2>6, <2>7, ConcatEmptySeq
<1>6. Growing(Tail(queue))
  BY <1>1, <1>4 DEF Growing
<1>7. Room(queue) - 1 \in 0..Room(Tail(queue))
  BY <1>1, <1>4, BoundsAssumption DEF Room
<1>8. Tail(Front(queue)) = SubSeq(Tail(queue), 1, Room(queue) - 1)
  <2>1. Room(queue) - 1 \in 0..Len(Tail(queue))
    BY <1>1, <1>4
  <2>2. /\ SubSeq(Tail(queue), 1, Room(queue) - 1) \in Seq(BatchId)
        /\ Len(SubSeq(Tail(queue), 1, Room(queue) - 1)) = Room(queue) - 1
        /\ \A i \in 1..(Room(queue) - 1) :
               SubSeq(Tail(queue), 1, Room(queue) - 1)[i] = Tail(queue)[i]
    BY <1>4, <2>1, PrefixProperties
  <2>3. /\ Tail(Front(queue)) \in Seq(BatchId) /\ Len(Tail(Front(queue))) = Room(queue) - 1
        /\ \A i \in 1..(Room(queue) - 1) : Tail(Front(queue))[i] = Front(queue)[i + 1]
    BY <1>2, HeadTailProperties
  <2>4. ASSUME NEW i \in 1..(Room(queue) - 1)
        PROVE  Tail(queue)[i] = Front(queue)[i + 1]
    BY <1>1, <1>2, <1>4
  <2> QED
    BY <2>2, <2>3, <2>4, SeqEqual
<1> QED
  BY <1>2, <1>3, <1>4, <1>5, <1>6, <1>7, <1>8

\* A write joins the end of the queue.
LEMMA AppendFront ==
    ASSUME NEW queue \in Seq(BatchId), Growing(queue), NEW b \in BatchId,
           \A i \in 1..Len(queue) : queue[i] < b
    PROVE  /\ Append(queue, b) \in Seq(BatchId) /\ Growing(Append(queue, b))
           /\ Append(queue, b) # <<>>
           /\ Front(queue) = SubSeq(Append(queue, b), 1, Room(queue))
           /\ Room(queue) \in 0..Room(Append(queue, b))
<1> DEFINE longer == Append(queue, b)
<1>1. Len(queue) \in Nat /\ Room(queue) \in 0..Len(queue)
  BY RoomIsNatural
<1>2. /\ longer \in Seq(BatchId) /\ longer # <<>>
      /\ Len(longer) = Len(queue) + 1
      /\ \A i \in 1..Len(queue) : longer[i] = queue[i]
      /\ longer[Len(queue) + 1] = b
  BY AppendProperties
<1> HIDE DEF longer
<1>3. Growing(longer)
  <2>1. ASSUME NEW i \in 1..Len(longer), NEW j \in 1..Len(longer), i < j
        PROVE  longer[i] < longer[j]
    <3>1. i \in 1..Len(queue) /\ longer[i] = queue[i]
      BY <1>1, <1>2, <2>1
    <3>2. CASE j = Len(queue) + 1
      BY <1>2, <3>1, <3>2
    <3>3. CASE j # Len(queue) + 1
      <4>1. j \in 1..Len(queue) /\ longer[j] = queue[j]
        BY <1>1, <1>2, <3>3
      <4> QED
        BY <2>1, <3>1, <4>1 DEF Growing
    <3> QED
      BY <3>2, <3>3
  <2> QED
    BY <2>1 DEF Growing
<1>4. Room(queue) \in 0..Room(longer)
  BY <1>1, <1>2, BoundsAssumption DEF Room
<1>5. Front(queue) = SubSeq(longer, 1, Room(queue))
  <2>1. /\ SubSeq(queue, 1, Room(queue)) \in Seq(BatchId)
        /\ Len(SubSeq(queue, 1, Room(queue))) = Room(queue)
        /\ \A i \in 1..Room(queue) : SubSeq(queue, 1, Room(queue))[i] = queue[i]
    BY <1>1, PrefixProperties
  <2>2. Room(queue) \in 0..Len(longer) /\ \A i \in 1..Room(queue) : i \in 1..Len(queue)
    BY <1>1, <1>2
  <2>3. /\ SubSeq(longer, 1, Room(queue)) \in Seq(BatchId)
        /\ Len(SubSeq(longer, 1, Room(queue))) = Room(queue)
        /\ \A i \in 1..Room(queue) : SubSeq(longer, 1, Room(queue))[i] = longer[i]
    BY <1>2, <2>2, PrefixProperties
  <2> QED
    BY <1>2, <2>1, <2>2, <2>3, SeqEqual DEF Front
<1> QED
  BY <1>2, <1>3, <1>4, <1>5 DEF longer

(***************************************************************************)
(* The write half.  The pipeline is the front of the queue at every moment,*)
(* not only after it was filled; a stream on its way has work until it is  *)
(* established, and an established stream has carried just the pipeline.   *)
(***************************************************************************)
WriteInv ==
    /\ credentialChanges \in 0..MaxCredentialChanges
    /\ StreamInv(write, credentialChanges)
    /\ asked \in 0..MaxWrites
    /\ mutationQueue \in Seq(BatchId)
    /\ Growing(mutationQueue)
    /\ \A i \in 1..Len(mutationQueue) : mutationQueue[i] <= asked
    /\ writePipeline = Front(mutationQueue)
    /\ handshakeComplete \in BOOLEAN
    /\ handshakeComplete => IsOpen(write)
    /\ sent = IF handshakeComplete THEN writePipeline ELSE <<>>
    /\ made \in 0..Len(sent)
    /\ writePipeline # <<>> => IsStarted(write)
    /\ IsStarted(write) /\ ~handshakeComplete => writePipeline # <<>>
    /\ IsOpen(write) => ("idle" \in write.timers <=> writePipeline = <<>>)

LEMMA WriteInit == Init => WriteInv
<1> SUFFICES ASSUME Init PROVE WriteInv
  OBVIOUS
<1>1. /\ <<>> \in Seq(BatchId) /\ Len(<<>>) = 0 /\ Growing(<<>>)
      /\ Front(<<>>) = <<>>
  <2>1. <<>> \in Seq(BatchId) /\ Len(<<>>) = 0
    BY EmptySeq
  <2>2. Room(<<>>) = 0
    BY <2>1, BoundsAssumption DEF Room
  <2> QED
    BY <2>1, <2>2, SubSeqEmpty DEF Growing, Front
<1>2. StreamInv(NewStream, 0) /\ IsStarted(NewStream) = FALSE /\ IsOpen(NewStream) = FALSE
  BY NewStreamIsSound DEF IsStarted, IsOpen
<1>3. /\ mutationQueue \in Seq(BatchId) /\ Growing(mutationQueue)
      /\ writePipeline = Front(mutationQueue)
      /\ made \in 0..Len(sent)
      /\ \A i \in 1..Len(mutationQueue) : mutationQueue[i] <= asked
  BY <1>1 DEF Init
<1>4. credentialChanges \in 0..MaxCredentialChanges /\ asked \in 0..MaxWrites
  BY BoundsAssumption DEF Init
<1>5. StreamInv(write, credentialChanges) /\ IsStarted(write) = FALSE /\ IsOpen(write) = FALSE
  BY <1>2 DEF Init
<1>6. handshakeComplete = FALSE /\ sent = <<>> /\ writePipeline = <<>>
  BY DEF Init
<1> QED
  BY <1>3, <1>4, <1>5, <1>6 DEF WriteInv

\* Filling the pipeline of a stream that has carried what is left of it.
LEMMA FillIsSound ==
    ASSUME NEW st, NEW n \in Nat, StreamInv(st, n), handshakeComplete \in BOOLEAN,
           NEW queue \in Seq(BatchId), Growing(queue), NEW k \in 0..Room(queue),
           NEW unanswered,
           unanswered = IF SendsBatches(st) THEN SubSeq(queue, 1, k) ELSE <<>>,
           k = 0 => ~IsStarted(st) \/ SendsBatches(st),
           "idle" \in st.timers => k = 0,
           k # 0 => "idle" \notin st.timers,
           FillWritePipeline(st, queue, SubSeq(queue, 1, k), unanswered)
    PROVE  /\ StreamInv(write', n)
           /\ writePipeline' = Front(queue)
           /\ sent' = IF SendsBatches(st) THEN writePipeline' ELSE <<>>
           /\ IsOpen(write') = IsOpen(st)
           /\ writePipeline' # <<>> => IsStarted(write')
           /\ IsStarted(write') /\ ~SendsBatches(st) => writePipeline' # <<>>
           /\ IsOpen(write') => ("idle" \in write'.timers <=> writePipeline' = <<>>)
<1> DEFINE pipeline == SubSeq(queue, 1, k)
           filled == Front(queue)
           added  == SubSeq(filled, Len(pipeline) + 1, Len(filled))
           sends  == added # <<>> /\ SendsBatches(st)
           used   == IF sends THEN HardAssert(Send(st), handshakeComplete)
                     ELSE IF filled = <<>> THEN MarkIdle(st) ELSE st
<1>1. /\ Len(queue) \in Nat /\ Room(queue) \in 0..Len(queue)
      /\ k \in 0..Len(queue)
      /\ Filled(queue, pipeline) = filled
  BY RoomIsNatural, FilledIsFront
<1>2. Len(pipeline) = k /\ (pipeline = <<>> <=> k = 0)
  BY <1>1, PrefixProperties
<1>3. pipeline \o added = filled /\ (added = <<>> <=> k = Room(queue))
  BY <1>2, AddedToFront
<1>4. filled = <<>> <=> Room(queue) = 0
  BY <1>1, PrefixProperties DEF Front
<1>5. /\ writePipeline' = filled
      /\ sent' = IF sends THEN unanswered \o added ELSE unanswered
      /\ write' = IF filled # <<>> /\ ~IsStarted(used) THEN Start(used) ELSE used
  BY <1>1 DEF FillWritePipeline
<1>6. k = Room(queue) => pipeline = filled
  BY DEF Front
<1> HIDE DEF pipeline, filled, added
<1>7. sent' = IF SendsBatches(st) THEN filled ELSE <<>>
  BY <1>3, <1>5, <1>6 DEF pipeline
<1>8. IsStarted(st) \in BOOLEAN /\ IsOpen(st) \in BOOLEAN /\ (IsOpen(st) => IsStarted(st))
  BY DEF IsStarted, IsOpen
<1>9. CASE sends
  <2>1. SendsBatches(st) /\ IsOpen(st) /\ handshakeComplete /\ filled # <<>>
    <3>1. k # Room(queue)
      BY <1>3, <1>9
    <3> QED
      BY <1>1, <1>4, <1>9, <3>1 DEF SendsBatches
  <2>2. /\ StreamInv(Send(st), n) /\ IsOpen(Send(st)) /\ IsStarted(Send(st))
        /\ "idle" \notin Send(st).timers
    BY <2>1, SendIsSound
  <2>3. used = HardAssert(Send(st), handshakeComplete)
    BY <1>9
  <2> HIDE DEF used, sends
  <2>4. /\ StreamInv(used, n) /\ IsOpen(used) /\ IsStarted(used)
        /\ "idle" \notin used.timers
    BY <2>1, <2>2, <2>3, HardAssertHolds
  <2>5. write' = used
    BY <1>5, <2>4
  <2>6. IsOpen(used) = TRUE /\ IsStarted(used) = TRUE /\ IsOpen(st) = TRUE
    BY <2>1, <2>4 DEF IsOpen, IsStarted
  <2> QED
    BY <1>5, <1>7, <2>1, <2>4, <2>5, <2>6 DEF filled
<1>10. CASE ~sends /\ filled = <<>>
  <2>1. used = MarkIdle(st) /\ k = 0
    BY <1>1, <1>4, <1>10
  <2> HIDE DEF used, sends
  <2>2. write' = used
    BY <1>5, <1>10
  <2>3. /\ StreamInv(used, n)
        /\ IsOpen(used) <=> IsOpen(st)
        /\ IsStarted(used) <=> IsStarted(st)
        /\ IsOpen(st) => "idle" \in used.timers
    BY <2>1, MarkIdleIsSound
  <2>4. IsOpen(used) = IsOpen(st) /\ IsStarted(used) = IsStarted(st)
    BY <2>3 DEF IsOpen, IsStarted
  <2> QED
    BY <1>5, <1>7, <1>10, <2>1, <2>2, <2>3, <2>4 DEF filled
<1>11. CASE ~sends /\ filled # <<>>
  <2>1. used = st
    BY <1>11
  <2>2. SendsBatches(st) => k # 0
    <3>1. SendsBatches(st) => added = <<>>
      BY <1>11
    <3> QED
      BY <1>3, <1>4, <1>11, <3>1
  <2> HIDE DEF used, sends
  <2>3. CASE IsStarted(st)
    <3>1. write' = st /\ IsStarted(st) = TRUE
      BY <1>5, <1>8, <2>1, <2>3
    <3>2. k # 0
      BY <2>2, <2>3
    <3> QED
      BY <1>5, <1>7, <1>11, <2>3, <3>1, <3>2 DEF filled
  <2>4. CASE ~IsStarted(st)
    <3>1. write' = Start(st)
      BY <1>5, <1>11, <2>1, <2>4
    <3>2. /\ StreamInv(Start(st), n)
          /\ IsStarted(Start(st)) /\ ~IsOpen(Start(st))
      BY <2>4, StartIsSound
    <3>3. IsStarted(Start(st)) = TRUE /\ IsOpen(Start(st)) = FALSE /\ IsOpen(st) = FALSE
      BY <2>4, <3>2 DEF IsOpen, IsStarted
    <3> QED
      BY <1>5, <1>7, <1>11, <3>1, <3>2, <3>3 DEF filled
  <2> QED
    BY <2>3, <2>4
<1> QED
  BY <1>9, <1>10, <1>11

LEMMA WriteMutationsStep == ASSUME WriteInv, WriteMutations PROVE WriteInv'
<1> DEFINE longer == Append(mutationQueue, asked + 1)
           k == Room(mutationQueue)
<1>1. /\ credentialChanges \in Nat /\ credentialChanges' = credentialChanges
      /\ asked + 1 \in BatchId /\ asked \in Nat
      /\ asked' = asked + 1 /\ asked' \in 0..MaxWrites
      /\ handshakeComplete' = handshakeComplete /\ made' = made
      /\ mutationQueue' = longer
  BY BoundsAssumption DEF WriteInv, WriteMutations, BatchId
<1>2. \A i \in 1..Len(mutationQueue) : mutationQueue[i] \in Nat /\ mutationQueue[i] < asked + 1
  <2>1. \A i \in 1..Len(mutationQueue) : mutationQueue[i] \in BatchId
    BY ElementOfSeq DEF WriteInv
  <2>2. \A i \in 1..Len(mutationQueue) : mutationQueue[i] \in Nat
    BY <2>1, BoundsAssumption DEF BatchId
  <2> QED
    BY <1>1, <2>2 DEF WriteInv
<1>3. /\ longer \in Seq(BatchId) /\ Growing(longer) /\ longer # <<>>
      /\ writePipeline = SubSeq(longer, 1, k)
      /\ k \in 0..Room(longer)
  BY <1>1, <1>2, AppendFront DEF WriteInv
<1>4. \A i \in 1..Len(longer) : longer[i] <= asked + 1
  <2>1. Len(longer) = Len(mutationQueue) + 1 /\ Len(mutationQueue) \in Nat
    BY <1>1, AppendProperties, LenProperties DEF WriteInv
  <2>2. ASSUME NEW i \in 1..Len(longer) PROVE longer[i] <= asked + 1
    <3>1. CASE i = Len(mutationQueue) + 1
      <4>1. longer[Len(mutationQueue) + 1] = asked + 1
        BY <1>1, AppendProperties DEF WriteInv
      <4> QED
        BY <1>1, <3>1, <4>1
    <3>2. CASE i # Len(mutationQueue) + 1
      <4>1. i \in 1..Len(mutationQueue)
        BY <2>1, <3>2
      <4>2. longer[i] = mutationQueue[i]
        BY <1>1, <4>1, AppendProperties DEF WriteInv
      <4>3. mutationQueue[i] \in Nat /\ mutationQueue[i] < asked + 1
        BY <1>2, <4>1
      <4> QED
        BY <1>1, <4>2, <4>3
    <3> QED
      BY <3>1, <3>2
  <2> QED
    BY <2>2
<1>5. Len(writePipeline) = k /\ (writePipeline = <<>> <=> k = 0)
  <2>1. k \in 0..Len(longer)
    BY <1>3, RoomIsNatural
  <2> QED
    BY <1>3, <2>1, PrefixProperties
<1>6. FillWritePipeline(write, longer, SubSeq(longer, 1, k), sent)
  BY <1>1, <1>3 DEF WriteMutations
<1> HIDE DEF longer, k
<1>7. SendsBatches(write) = handshakeComplete
  BY DEF WriteInv, SendsBatches, IsOpen
<1>8. "idle" \in write.timers => IsOpen(write)
  BY DEF WriteInv, StreamInv, IsOpen
<1>9. IsOpen(write) => IsStarted(write)
  BY DEF IsOpen, IsStarted
<1>10. /\ StreamInv(write', credentialChanges)
       /\ writePipeline' = Front(longer)
       /\ sent' = IF SendsBatches(write) THEN writePipeline' ELSE <<>>
       /\ IsOpen(write') = IsOpen(write)
       /\ writePipeline' # <<>> => IsStarted(write')
       /\ IsStarted(write') /\ ~SendsBatches(write) => writePipeline' # <<>>
       /\ IsOpen(write') => ("idle" \in write'.timers <=> writePipeline' = <<>>)
  <2>1. k = 0 => ~IsStarted(write) \/ SendsBatches(write)
    BY <1>5, <1>7 DEF WriteInv
  <2>2. /\ "idle" \in write.timers => k = 0
        /\ k # 0 => "idle" \notin write.timers
    BY <1>5, <1>8 DEF WriteInv
  <2>3. sent = IF SendsBatches(write) THEN SubSeq(longer, 1, k) ELSE <<>>
    BY <1>3, <1>7 DEF WriteInv
  <2>4. StreamInv(write, credentialChanges) /\ handshakeComplete \in BOOLEAN
    BY DEF WriteInv
  <2> QED
    BY <1>1, <1>3, <1>6, <2>1, <2>2, <2>3, <2>4, FillIsSound
<1>11. made' \in 0..Len(sent')
  <2>1. made \in 0..Len(sent)
    BY DEF WriteInv
  <2>2. CASE handshakeComplete
    <3>1. sent = writePipeline /\ sent' = Front(longer)
      BY <1>7, <1>10, <2>2 DEF WriteInv
    <3>2. Len(Front(longer)) = Room(longer) /\ Room(longer) \in Nat
      BY <1>3, RoomIsNatural, PrefixProperties DEF Front
    <3> QED
      BY <1>1, <1>3, <1>5, <2>1, <3>1, <3>2
  <2>3. CASE ~handshakeComplete
    BY <1>1, <1>7, <1>10, <2>1, <2>3 DEF WriteInv
  <2> QED
    BY <2>2, <2>3
<1> QED
  BY <1>1, <1>3, <1>4, <1>7, <1>10, <1>11 DEF WriteInv

\* An answered or a refused batch: the next one to be answered moves up.
LEMMA AnswerFacts ==
    ASSUME WriteInv, sent # <<>>
    PROVE  /\ handshakeComplete /\ IsOpen(write) /\ SendsBatches(write)
           /\ sent = writePipeline /\ sent \in Seq(BatchId)
           /\ mutationQueue # <<>> /\ "idle" \notin write.timers
           /\ Without(mutationQueue, Head(writePipeline)) = Tail(mutationQueue)
           /\ Tail(mutationQueue) \in Seq(BatchId) /\ Growing(Tail(mutationQueue))
           /\ Tail(writePipeline) = SubSeq(Tail(mutationQueue), 1, Room(mutationQueue) - 1)
           /\ Room(mutationQueue) - 1 \in 0..Room(Tail(mutationQueue))
           /\ Len(sent) = Room(mutationQueue)
           /\ \A i \in 1..Len(Tail(mutationQueue)) : Tail(mutationQueue)[i] <= asked
<1>1. handshakeComplete /\ IsOpen(write) /\ sent = writePipeline /\ writePipeline # <<>>
  BY DEF WriteInv
<1>2. /\ Room(mutationQueue) \in 0..Len(mutationQueue)
      /\ Room(mutationQueue) = 0 <=> mutationQueue = <<>>
  BY RoomIsNatural DEF WriteInv
<1>3. /\ writePipeline \in Seq(BatchId) /\ Len(writePipeline) = Room(mutationQueue)
      /\ writePipeline = <<>> <=> Room(mutationQueue) = 0
  BY <1>2, PrefixProperties DEF WriteInv, Front
<1>4. mutationQueue # <<>>
  BY <1>1, <1>2, <1>3
<1>5. /\ Len(Tail(mutationQueue)) = Len(mutationQueue) - 1
      /\ \A i \in 1..Len(Tail(mutationQueue)) : Tail(mutationQueue)[i] = mutationQueue[i + 1]
      /\ Len(mutationQueue) \in Nat
  BY <1>4, HeadTailProperties, LenProperties DEF WriteInv
<1>6. \A i \in 1..Len(Tail(mutationQueue)) : Tail(mutationQueue)[i] <= asked
  BY <1>5 DEF WriteInv
<1>7. "idle" \notin write.timers
  BY <1>1 DEF WriteInv
<1>8. SendsBatches(write)
  BY <1>1 DEF SendsBatches
<1> QED
  BY <1>1, <1>3, <1>4, <1>6, <1>7, <1>8, WithoutFirst DEF WriteInv

LEMMA WriteOpenStep == ASSUME WriteInv, OnWriteStreamOpen PROVE WriteInv'
<1> DEFINE opened == [write EXCEPT !.state = "Open"]
<1>1. /\ credentialChanges \in Nat
      /\ UNCHANGED <<mutationQueue, asked, writePipeline, handshakeComplete, sent, made,
                     credentialChanges>>
  BY BoundsAssumption DEF WriteInv, OnWriteStreamOpen
<1>2. IsStarted(write) = TRUE /\ IsOpen(write) = FALSE
  BY DEF OnWriteStreamOpen, IsCalling, IsStarted, IsOpen
<1>3. handshakeComplete = FALSE /\ writePipeline # <<>>
  BY <1>2 DEF WriteInv
<1>4. StreamInv(opened, credentialChanges) /\ IsOpen(opened)
  BY <1>1, OpenedIsSound DEF WriteInv, OnWriteStreamOpen
<1> HIDE DEF opened
<1>5. /\ StreamInv(Send(opened), credentialChanges)
      /\ "idle" \notin Send(opened).timers
      /\ IsOpen(Send(opened)) /\ IsStarted(Send(opened))
  BY <1>1, <1>4, SendIsSound
<1>6. write' = HardAssert(Send(opened), ~handshakeComplete)
  BY DEF OnWriteStreamOpen, opened
<1>7. /\ StreamInv(write', credentialChanges)
      /\ write'.timers = Send(opened).timers
      /\ IsOpen(write') /\ IsStarted(write')
  BY <1>1, <1>3, <1>5, <1>6, HardAssertHolds
<1> QED
  BY <1>1, <1>3, <1>5, <1>7 DEF WriteInv

LEMMA HandshakeStep == ASSUME WriteInv, OnWriteStreamHandshakeComplete PROVE WriteInv'
<1>1. /\ credentialChanges \in Nat
      /\ UNCHANGED <<mutationQueue, asked, writePipeline, made, credentialChanges>>
      /\ handshakeComplete' = TRUE
  BY BoundsAssumption DEF WriteInv, OnWriteStreamHandshakeComplete
<1>2. IsOpen(write) /\ IsStarted(write) /\ handshakeComplete = FALSE /\ writePipeline # <<>>
  BY DEF WriteInv, OnWriteStreamHandshakeComplete, IsOpen, IsStarted
<1>3. sent = <<>> /\ sent' = <<>> \o writePipeline /\ made = 0
  <2>1. sent = <<>>
    BY <1>2 DEF WriteInv
  <2>2. Len(<<>>) = 0
    BY EmptySeq
  <2> QED
    BY <2>1, <2>2 DEF WriteInv, OnWriteStreamHandshakeComplete
<1>4. writePipeline \in Seq(BatchId)
  BY RoomIsNatural, PrefixProperties DEF WriteInv, Front
<1>5. sent' = writePipeline /\ Len(writePipeline) \in Nat
  BY <1>3, <1>4, ConcatEmptySeq, LenProperties
<1>6. /\ StreamInv(write', credentialChanges)
      /\ IsOpen(write') /\ IsStarted(write')
      /\ "idle" \notin write'.timers
  BY <1>1, <1>2, SendIsSound DEF WriteInv, OnWriteStreamHandshakeComplete
<1> QED
  BY <1>1, <1>2, <1>3, <1>5, <1>6 DEF WriteInv

LEMMA ServerCommitsStep == ASSUME WriteInv, ServerCommits PROVE WriteInv'
<1>1. UNCHANGED <<write, mutationQueue, asked, writePipeline, handshakeComplete, sent,
                  credentialChanges>>
  BY DEF ServerCommits
<1>2. sent \in Seq(BatchId) /\ Len(sent) \in Nat
  <2>1. writePipeline \in Seq(BatchId)
    BY RoomIsNatural, PrefixProperties DEF WriteInv, Front
  <2> QED
    BY <2>1, EmptySeq, LenProperties DEF WriteInv
<1>3. made' \in 0..Len(sent)
  BY <1>2 DEF WriteInv, ServerCommits
<1> QED
  BY <1>1, <1>3 DEF WriteInv

LEMMA MutationResultStep == ASSUME WriteInv, OnWriteStreamMutationResult PROVE WriteInv'
<1> DEFINE rest == Tail(mutationQueue)
           k == Room(mutationQueue) - 1
           st == HardAssert(write, writePipeline # <<>>)
<1>1. /\ credentialChanges \in Nat /\ credentialChanges' = credentialChanges
      /\ asked' = asked /\ handshakeComplete' = handshakeComplete /\ made' = made - 1
      /\ made > 0
  BY BoundsAssumption DEF WriteInv, OnWriteStreamMutationResult
<1>2. sent # <<>> /\ made \in 0..Len(sent)
  BY <1>1, EmptySeq DEF WriteInv
<1>3. /\ handshakeComplete = TRUE /\ IsOpen(write) = TRUE
      /\ sent = writePipeline /\ sent \in Seq(BatchId)
      /\ "idle" \notin write.timers
      /\ Without(mutationQueue, Head(writePipeline)) = rest
      /\ rest \in Seq(BatchId) /\ Growing(rest)
      /\ Tail(writePipeline) = SubSeq(rest, 1, k)
      /\ k \in 0..Room(rest)
      /\ Len(sent) = k + 1
      /\ \A i \in 1..Len(rest) : rest[i] <= asked
  <2>1. Room(mutationQueue) \in Nat
    BY RoomIsNatural DEF WriteInv
  <2>2. /\ handshakeComplete = TRUE /\ IsOpen(write) = TRUE
    BY <1>2, AnswerFacts DEF IsOpen, WriteInv
  <2>3. Len(sent) = k + 1
    BY <1>2, <2>1, AnswerFacts
  <2> QED
    BY <1>2, <2>2, <2>3, AnswerFacts
<1>4. /\ StreamInv(st, credentialChanges) /\ st.timers = write.timers
      /\ IsOpen(st) = TRUE /\ IsStarted(st) = TRUE
  <2>1. writePipeline # <<>>
    BY <1>2, <1>3
  <2> QED
    BY <1>1, <1>3, <2>1, HardAssertHolds DEF WriteInv, IsOpen, IsStarted
<1>5. mutationQueue' = rest /\ FillWritePipeline(st, rest, SubSeq(rest, 1, k), SubSeq(rest, 1, k))
  BY <1>2, <1>3 DEF OnWriteStreamMutationResult
<1> HIDE DEF rest, k, st
<1>6. SendsBatches(st) = TRUE
  BY <1>3, <1>4 DEF SendsBatches
<1>7. /\ StreamInv(write', credentialChanges)
      /\ writePipeline' = Front(rest)
      /\ sent' = writePipeline'
      /\ IsOpen(write') = TRUE
      /\ writePipeline' # <<>> => IsStarted(write')
      /\ IsOpen(write') => ("idle" \in write'.timers <=> writePipeline' = <<>>)
  BY <1>1, <1>3, <1>4, <1>5, <1>6, FillIsSound
<1>8. made' \in 0..Len(sent')
  <2>1. Len(Front(rest)) = Room(rest) /\ Room(rest) \in Nat
    BY <1>3, RoomIsNatural, PrefixProperties DEF Front
  <2>2. k \in Int
    BY <1>3
  <2> QED
    BY <1>1, <1>2, <1>3, <1>7, <2>1, <2>2
<1> QED
  BY <1>1, <1>3, <1>5, <1>7, <1>8 DEF WriteInv

\* A stream that was closed is started again if there is something to send.
LEMMA RestartedIfNeeded ==
    ASSUME WriteInv, NEW closed, StreamInv(closed, credentialChanges), ~IsStarted(closed),
           ~IsOpen(closed),
           UNCHANGED <<mutationQueue, asked, writePipeline, credentialChanges>>,
           write' = StartedIfNeeded(closed),
           handshakeComplete' = FALSE, sent' = <<>>, made' = 0
    PROVE  WriteInv'
<1>1. credentialChanges \in Nat /\ made' \in 0..Len(sent')
  BY BoundsAssumption, EmptySeq DEF WriteInv
<1>2. CASE writePipeline = <<>>
  <2>1. write' = closed
    BY <1>2 DEF StartedIfNeeded
  <2>2. IsStarted(closed) = FALSE /\ IsOpen(closed) = FALSE
    BY DEF IsStarted, IsOpen
  <2> QED
    BY <1>1, <1>2, <2>1, <2>2 DEF WriteInv
<1>3. CASE writePipeline # <<>>
  <2>1. write' = Start(closed)
    BY <1>3 DEF StartedIfNeeded
  <2>2. /\ StreamInv(Start(closed), credentialChanges)
        /\ IsStarted(Start(closed)) = TRUE /\ IsOpen(Start(closed)) = FALSE
    BY <1>1, StartIsSound DEF IsStarted, IsOpen
  <2> QED
    BY <1>1, <1>3, <2>1, <2>2 DEF WriteInv
<1> QED
  BY <1>2, <1>3

LEMMA WriteFailsStep == ASSUME WriteInv, WriteStreamFails PROVE WriteInv'
<1>1. IsStarted(write) /\ ~write.token
  BY DEF WriteInv, StreamInv, Stream, WriteStreamFails, IsCalling, IsOpen, IsStarted
<1>2. credentialChanges \in Nat
  BY BoundsAssumption DEF WriteInv
<1>3. /\ StreamInv(Close(write, FALSE), credentialChanges)
      /\ ~IsStarted(Close(write, FALSE)) /\ ~IsOpen(Close(write, FALSE))
  BY <1>1, <1>2, CloseIsSound DEF WriteInv
<1> QED
  BY <1>3, RestartedIfNeeded DEF WriteStreamFails

LEMMA WriteIdleStep == ASSUME WriteInv, WriteStreamIdle PROVE WriteInv'
<1>1. IsOpen(write) /\ IsStarted(write) /\ ~write.token /\ writePipeline = <<>>
  BY DEF WriteInv, StreamInv, Stream, WriteStreamIdle, IsOpen, IsStarted
<1>2. credentialChanges \in Nat
  BY BoundsAssumption DEF WriteInv
<1>3. /\ StreamInv(Close(write, TRUE), credentialChanges)
      /\ ~IsStarted(Close(write, TRUE)) /\ ~IsOpen(Close(write, TRUE))
  BY <1>1, <1>2, CloseIsSound DEF WriteInv
<1> DEFINE closed == HardAssert(Close(write, TRUE), writePipeline = <<>>)
<1>4. /\ StreamInv(closed, credentialChanges)
      /\ ~IsStarted(closed) /\ ~IsOpen(closed)
  BY <1>1, <1>2, <1>3, HardAssertHolds
<1>5. write' = StartedIfNeeded(closed)
  BY DEF WriteStreamIdle
<1> HIDE DEF closed
<1> QED
  BY <1>4, <1>5, RestartedIfNeeded DEF WriteStreamIdle

LEMMA WriteCredentialsStep == ASSUME WriteInv, WriteCredentials PROVE WriteInv'
<1> DEFINE answered == [write EXCEPT !.token = FALSE]
<1>1. /\ credentialChanges \in Nat
      /\ UNCHANGED <<mutationQueue, asked, writePipeline, handshakeComplete, sent, made,
                     credentialChanges>>
  BY BoundsAssumption DEF WriteInv, WriteCredentials
<1>2. /\ StreamInv(answered, credentialChanges)
      /\ IsStarted(answered) /\ ~IsOpen(answered)
      /\ "idle" \notin answered.timers /\ ~answered.token
  BY <1>1, AnsweredIsSound DEF WriteInv, WriteCredentials
<1>3. write.state = "Starting" /\ IsStarted(write) = TRUE /\ IsOpen(write) = FALSE
  BY DEF WriteInv, StreamInv, WriteCredentials, IsStarted, IsOpen
<1>4. handshakeComplete = FALSE /\ sent = <<>> /\ made = 0
  <2>1. handshakeComplete = FALSE
    BY <1>3 DEF WriteInv
  <2> QED
    BY <2>1, EmptySeq DEF WriteInv
<1>5. \/ write' = HardAssert(answered, write.state = "Starting")
      \/ write' = StartedIfNeeded(Close(answered, FALSE))
  BY DEF WriteCredentials
<1> HIDE DEF answered
<1>6. CASE write' = HardAssert(answered, write.state = "Starting")
  <2>1. StreamInv(write', credentialChanges) /\ IsStarted(write') /\ ~IsOpen(write')
    BY <1>1, <1>2, <1>3, <1>6, HardAssertHolds
  <2>2. IsStarted(write') = TRUE /\ IsOpen(write') = FALSE
    BY <2>1 DEF IsStarted, IsOpen
  <2> QED
    BY <1>1, <1>3, <1>4, <2>1, <2>2 DEF WriteInv
<1>7. CASE write' = StartedIfNeeded(Close(answered, FALSE))
  <2>1. /\ StreamInv(Close(answered, FALSE), credentialChanges)
        /\ ~IsStarted(Close(answered, FALSE)) /\ ~IsOpen(Close(answered, FALSE))
    BY <1>1, <1>2, CloseIsSound
  <2> QED
    BY <1>1, <1>4, <1>7, <2>1, RestartedIfNeeded
<1> QED
  BY <1>5, <1>6, <1>7

LEMMA StaleWriteStep == ASSUME WriteInv, StaleWriteCredentials PROVE WriteInv'
<1>1. /\ credentialChanges \in Nat
      /\ UNCHANGED <<mutationQueue, asked, writePipeline, handshakeComplete, sent, made,
                     credentialChanges>>
  BY BoundsAssumption DEF WriteInv, StaleWriteCredentials
<1>2. StreamInv(write', credentialChanges) /\ write'.timers = write.timers
  BY <1>1, IgnoredIsSound DEF WriteInv, StaleWriteCredentials
<1>3. IsOpen(write') = IsOpen(write) /\ IsStarted(write') = IsStarted(write)
  BY <1>1, IgnoredIsSound DEF WriteInv, StaleWriteCredentials, IsOpen, IsStarted
<1> QED
  BY <1>1, <1>2, <1>3 DEF WriteInv

LEMMA WriteBackoffStep == ASSUME WriteInv, WriteBackoffElapsed PROVE WriteInv'
<1>1. /\ credentialChanges \in Nat
      /\ UNCHANGED <<mutationQueue, asked, writePipeline, handshakeComplete, sent, made,
                     credentialChanges>>
  BY BoundsAssumption DEF WriteInv, WriteBackoffElapsed
<1>2. /\ StreamInv(write', credentialChanges)
      /\ IsStarted(write') = TRUE /\ IsOpen(write') = FALSE
  BY <1>1, RestartIsSound DEF WriteInv, WriteBackoffElapsed, IsOpen, IsStarted
<1>3. IsStarted(write) = TRUE /\ IsOpen(write) = FALSE
  BY DEF WriteInv, StreamInv, WriteBackoffElapsed, IsStarted, IsOpen
<1> QED
  BY <1>1, <1>2, <1>3 DEF WriteInv

LEMMA WriteErrorStep == ASSUME WriteInv, HandleWriteError PROVE WriteInv'
<1> DEFINE rest == Tail(mutationQueue)
           k == Room(mutationQueue) - 1
           st == InhibitBackoff(Close(write, FALSE))
<1>1. /\ credentialChanges \in Nat /\ credentialChanges' = credentialChanges
      /\ asked' = asked /\ handshakeComplete' = FALSE /\ made' = 0
      /\ sent # <<>>
  BY BoundsAssumption DEF WriteInv, HandleWriteError
<1>2. /\ Without(mutationQueue, Head(writePipeline)) = rest
      /\ rest \in Seq(BatchId) /\ Growing(rest)
      /\ Tail(writePipeline) = SubSeq(rest, 1, k)
      /\ k \in 0..Room(rest)
      /\ \A i \in 1..Len(rest) : rest[i] <= asked
  BY <1>1, AnswerFacts
<1>3. IsStarted(write) /\ ~write.token
  BY DEF HandleWriteError, WriteInv, StreamInv, Stream, IsStarted, IsOpen
<1>4. StreamInv(Close(write, FALSE), credentialChanges) /\ ~IsStarted(Close(write, FALSE))
  BY <1>1, <1>3, CloseIsSound DEF WriteInv
<1>5. StreamInv(st, credentialChanges) /\ ~IsStarted(st) /\ ~IsOpen(st)
  BY <1>1, <1>4, InhibitIsSound
<1>6. mutationQueue' = rest /\ FillWritePipeline(st, rest, SubSeq(rest, 1, k), <<>>)
  BY <1>2 DEF HandleWriteError
<1> HIDE DEF rest, k, st
<1>7. "idle" \notin st.timers /\ SendsBatches(st) = FALSE /\ IsOpen(st) = FALSE
  BY <1>5 DEF SendsBatches, StreamInv, IsOpen
<1>8. /\ StreamInv(write', credentialChanges)
      /\ writePipeline' = Front(rest)
      /\ sent' = <<>>
      /\ IsOpen(write') = FALSE
      /\ writePipeline' # <<>> => IsStarted(write')
      /\ IsStarted(write') => writePipeline' # <<>>
  BY <1>1, <1>2, <1>5, <1>6, <1>7, FillIsSound DEF WriteInv
<1>9. made' \in 0..Len(sent')
  BY <1>1, <1>8, EmptySeq
<1> QED
  BY <1>1, <1>2, <1>6, <1>8, <1>9 DEF WriteInv

\* The pipeline is emptied and filled from the queue, for a stream that is
\* not started.
LEMMA FilledAnew ==
    ASSUME WriteInv, NEW st, NEW n \in 0..MaxCredentialChanges, StreamInv(st, n),
           ~IsStarted(st), ~IsOpen(st), credentialChanges' = n,
           UNCHANGED <<mutationQueue, asked>>,
           FillWritePipeline(st, mutationQueue, <<>>, <<>>),
           handshakeComplete' = FALSE, made' = 0
    PROVE  WriteInv'
<1>1. n \in Nat
  BY BoundsAssumption
<1>2. /\ mutationQueue \in Seq(BatchId) /\ Growing(mutationQueue)
      /\ 0 \in 0..Room(mutationQueue)
      /\ SubSeq(mutationQueue, 1, 0) = <<>>
  BY RoomIsNatural, SubSeqEmpty DEF WriteInv
<1>3. "idle" \notin st.timers /\ SendsBatches(st) = FALSE /\ IsOpen(st) = FALSE
  BY DEF SendsBatches, StreamInv, IsOpen
<1>4. /\ StreamInv(write', n)
      /\ writePipeline' = Front(mutationQueue)
      /\ sent' = <<>>
      /\ IsOpen(write') = FALSE
      /\ writePipeline' # <<>> => IsStarted(write')
      /\ IsStarted(write') => writePipeline' # <<>>
  BY <1>1, <1>2, <1>3, FillIsSound DEF WriteInv
<1>5. made' \in 0..Len(sent')
  BY <1>4, EmptySeq
<1> QED
  BY <1>1, <1>4, <1>5 DEF WriteInv

LEMMA WriteCredentialChangeStep == ASSUME WriteInv, HandleCredentialChange PROVE WriteInv'
<1>1. /\ credentialChanges \in Nat /\ credentialChanges < MaxCredentialChanges
      /\ credentialChanges + 1 \in 0..MaxCredentialChanges
  BY BoundsAssumption DEF WriteInv, HandleCredentialChange
<1>2. /\ StreamInv(Stop(write), credentialChanges + 1)
      /\ ~IsStarted(Stop(write)) /\ ~IsOpen(Stop(write))
  BY <1>1, StopIsSound DEF WriteInv
<1> QED
  BY <1>1, <1>2, FilledAnew DEF HandleCredentialChange

LEMMA WriteRestartStep == ASSUME WriteInv, Restart PROVE WriteInv'
<1>1. StreamInv(NewStream, credentialChanges) /\ ~IsStarted(NewStream) /\ ~IsOpen(NewStream)
  BY NewStreamIsSound, BoundsAssumption DEF WriteInv, StreamInv, NewStream
<1> QED
  BY <1>1, FilledAnew DEF WriteInv, Restart

\* The actions of the watch half.
WatchOnlyStep ==
    \/ \E t \in Target : Listen(t) \/ StopListening(t) \/ ProcessTargetError(t)
    \/ OnWatchStreamOpen \/ WatchStreamFails \/ OnWatchStreamChange \/ OnlineStateTimeout
    \/ WatchCredentials \/ StaleWatchCredentials \/ WatchBackoffElapsed \/ WatchStreamIdle

LEMMA WatchOnlyKeepsWrites ==
    WatchOnlyStep \/ UNCHANGED vars => UNCHANGED <<writeVars, credentialChanges>>
BY DEF WatchOnlyStep, vars, Listen, StopListening, ProcessTargetError, OnWatchStreamOpen,
       WatchStreamFails, OnWatchStreamChange, OnlineStateTimeout, WatchCredentials,
       StaleWatchCredentials, WatchBackoffElapsed, WatchStreamIdle

LEMMA WriteHalfStep == WriteInv /\ [Next]_vars => WriteInv'
<1> SUFFICES ASSUME WriteInv, [Next]_vars PROVE WriteInv'
  OBVIOUS
<1>1. CASE WatchOnlyStep \/ UNCHANGED vars
  <2>1. UNCHANGED <<writeVars, credentialChanges>>
    BY <1>1, WatchOnlyKeepsWrites
  <2> QED
    BY <2>1 DEF WriteInv, writeVars
<1> QED
  BY <1>1, WriteMutationsStep, WriteOpenStep, HandshakeStep, ServerCommitsStep,
     MutationResultStep, WriteFailsStep, WriteErrorStep, WriteCredentialsStep, StaleWriteStep,
     WriteBackoffStep, WriteIdleStep, WriteCredentialChangeStep, WriteRestartStep
     DEF Next, WatchOnlyStep

(***************************************************************************)
(* Safety.                                                                 *)
(***************************************************************************)
LEMMA StoreInvariant == Spec => [](WatchInv /\ WriteInv)
<1>1. WatchInv /\ WriteInv /\ [Next]_vars => (WatchInv /\ WriteInv)'
  BY WatchStep, WriteHalfStep
<1> QED
  BY WatchInit, WriteInit, <1>1, PTL DEF Spec

LEMMA PipelineFacts ==
    ASSUME WriteInv
    PROVE  /\ writePipeline \in Seq(BatchId) /\ sent \in Seq(BatchId)
           /\ Len(writePipeline) = Room(mutationQueue)
           /\ Room(mutationQueue) \in 0..Len(mutationQueue)
           /\ writePipeline = <<>> <=> mutationQueue = <<>>
           /\ handshakeComplete => IsOpen(write)
<1>1. /\ Room(mutationQueue) \in 0..Len(mutationQueue)
      /\ Room(mutationQueue) = 0 <=> mutationQueue = <<>>
  BY RoomIsNatural DEF WriteInv
<1>2. /\ writePipeline \in Seq(BatchId) /\ Len(writePipeline) = Room(mutationQueue)
      /\ writePipeline = <<>> <=> Room(mutationQueue) = 0
  BY <1>1, PrefixProperties DEF WriteInv, Front
<1>3. sent \in Seq(BatchId)
  BY <1>2, EmptySeq DEF WriteInv
<1> QED
  BY <1>1, <1>2, <1>3 DEF WriteInv

\* The client's account of its streams, queries and writes is well typed in
\* every reachable state (the members of RemoteStore, its streams and the
\* online state tracker).
THEOREM StoreTypeCorrect == Spec => []TypeOK
<1>1. WatchInv /\ WriteInv => TypeOK
  <2> SUFFICES ASSUME WatchInv, WriteInv PROVE TypeOK
    OBVIOUS
  <2>1. watched \subseteq Target
    BY DEF WatchInv
  <2>2. writePipeline \in Seq(BatchId) /\ sent \in Seq(BatchId)
    BY PipelineFacts
  <2> QED
    BY <2>1, <2>2 DEF TypeOK, WatchInv, WriteInv, StreamInv, TrackerInv
<1> QED
  BY StoreInvariant, <1>1, PTL

\* None of the HARD_ASSERTs of the streams, the tracker and RemoteStore can
\* fail, so none aborts the app: a token is only ever taken for the stream
\* that asked for it, a stream is started and stopped only when it may be,
\* nothing is sent on a stream that is not open, and the ten seconds are
\* running only while nothing is known.
THEOREM NoAssertionFails == Spec => []AssertionsHold
<1>1. WatchInv /\ WriteInv => AssertionsHold
  BY DEF WatchInv, WriteInv, StreamInv, TrackerInv, AssertionsHold
<1> QED
  BY StoreInvariant, <1>1, PTL

\* No query and no queued write is left behind without a stream that is
\* open or on its way, whatever closes (OnWatchStreamClose, OnWriteStreamClose
\* and HandleCredentialChange start again what is needed).
THEOREM StreamsRunWhenNeeded == Spec => []NeededStreamsRun
<1>1. WatchInv /\ WriteInv => NeededStreamsRun
  BY PipelineFacts DEF WatchInv, WriteInv, NeededStreamsRun
<1> QED
  BY StoreInvariant, <1>1, PTL

\* OnWriteStreamMutationResult takes each answer for the answer to the first
\* batch of the pipeline; it is, however many batches there are and however
\* many fit into the pipeline.
THEOREM AnswersMeetTheirWrites == Spec => []SentIsPipeline
<1>1. WriteInv => SentIsPipeline
  <2> SUFFICES ASSUME WriteInv PROVE SentIsPipeline
    OBVIOUS
  <2>1. Len(writePipeline) <= Len(mutationQueue)
    <3>1. Len(mutationQueue) \in Nat
      BY LenProperties DEF WriteInv
    <3> QED
      BY <3>1, PipelineFacts
  <2>2. writePipeline = SubSeq(mutationQueue, 1, Len(writePipeline))
    BY PipelineFacts DEF WriteInv, Front
  <2> QED
    BY <2>1, <2>2 DEF SentIsPipeline, WriteInv
<1> QED
  BY StoreInvariant, <1>1, PTL

\* The watch stream carries a request for each listened query and for no
\* other (Listen, StopListening, OnWatchStreamOpen, ProcessTargetError).
THEOREM ServerKnowsTheQueries == Spec => []WatchedIsListened
<1>1. WatchInv => WatchedIsListened
  BY DEF WatchInv, WatchedIsListened
<1> QED
  BY StoreInvariant, <1>1, PTL

\* The idle timer (MarkIdle, CancelIdleCheck) never stops a stream that has
\* work, and always stops a write stream without.
THEOREM OnlyIdleStreamsAreStopped == Spec => []OnlyIdleStreamsStop
<1>1. WatchInv /\ WriteInv => OnlyIdleStreamsStop
  BY DEF WatchInv, WriteInv, OnlyIdleStreamsStop
<1> QED
  BY StoreInvariant, <1>1, PTL

(***************************************************************************)
(* Refinement.                                                             *)
(***************************************************************************)

\* The first m batches on a stream that has carried the front of the queue,
\* or nothing, are the first m of the queue.
LEMMA CarriedIsFront ==
    ASSUME NEW queue \in Seq(BatchId), NEW established \in BOOLEAN, NEW carried, NEW m,
           carried = IF established THEN Front(queue) ELSE <<>>,
           m \in 0..Len(carried)
    PROVE  m \in 0..Room(queue) /\ \A i \in 1..m : carried[i] = queue[i]
<1>1. Room(queue) \in 0..Len(queue)
  BY RoomIsNatural
<1>2. CASE established
  <2>1. /\ Len(carried) = Room(queue)
        /\ \A i \in 1..Room(queue) : carried[i] = queue[i]
    BY <1>1, <1>2, PrefixProperties DEF Front
  <2>2. \A i \in 1..m : carried[i] = queue[i]
    BY <1>1, <2>1
  <2> QED
    BY <2>1, <2>2
<1>3. CASE ~established
  <2>1. m = 0
    BY <1>3, EmptySeq
  <2>2. \A i \in 1..m : FALSE
    BY <2>1
  <2> QED
    BY <1>1, <2>1, <2>2
<1> QED
  BY <1>2, <1>3

LEMMA DeliveryStep ==
    ASSUME WriteInv, [Next]_vars
    PROVE  [Delivery!DeliveryNext]_(Delivery!deliveryVars)
<1> DEFINE committed == {sent[i] : i \in 1..made}
<1>1. WriteInv'
  BY WriteHalfStep
<1>2. committed = {mutationQueue[i] : i \in 1..made} /\ made \in 0..Room(mutationQueue)
  <2>1. /\ mutationQueue \in Seq(BatchId) /\ handshakeComplete \in BOOLEAN
        /\ sent = IF handshakeComplete THEN Front(mutationQueue) ELSE <<>>
        /\ made \in 0..Len(sent)
    BY DEF WriteInv
  <2>2. made \in 0..Room(mutationQueue) /\ \A i \in 1..made : sent[i] = mutationQueue[i]
    BY <2>1, CarriedIsFront
  <2> QED
    BY <2>2
<1>3. committed' = {mutationQueue'[i] : i \in 1..made'}
  <2>1. /\ mutationQueue' \in Seq(BatchId) /\ handshakeComplete' \in BOOLEAN
        /\ sent' = IF handshakeComplete' THEN Front(mutationQueue') ELSE <<>>
        /\ made' \in 0..Len(sent')
    BY <1>1 DEF WriteInv, Front, Room
  <2>2. \A i \in 1..made' : sent'[i] = mutationQueue'[i]
    BY <2>1, CarriedIsFront
  <2> QED
    BY <2>2
<1>4. /\ mutationQueue \in Seq(BatchId) /\ Len(mutationQueue) \in Nat
      /\ DOMAIN mutationQueue = 1..Len(mutationQueue)
      /\ Room(mutationQueue) \in 0..Len(mutationQueue)
      /\ Room(mutationQueue) <= MaxPendingWrites
      /\ made \in 0..Len(mutationQueue)
      /\ MaxPendingWrites \in Nat
  BY <1>2, RoomIsNatural, LenProperties, BoundsAssumption DEF WriteInv
<1>5. \A i \in 1..Len(mutationQueue) : mutationQueue[i] \in Nat
  <2>1. \A i \in 1..Len(mutationQueue) : mutationQueue[i] \in BatchId
    BY ElementOfSeq DEF WriteInv
  <2> QED
    BY <2>1, BoundsAssumption DEF BatchId
<1> HIDE DEF committed
<1>6. CASE /\ mutationQueue' = mutationQueue /\ made' = made
  BY <1>2, <1>3, <1>6 DEF Delivery!deliveryVars, committed
<1>7. CASE /\ mutationQueue' = mutationQueue /\ made' = 0
  <2>1. \A i \in 1..made' : FALSE
    BY <1>7
  <2>2. committed' = {}
    BY <1>3, <2>1
  <2>3. Delivery!Lose
    BY <1>7, <2>2 DEF Delivery!Lose, committed
  <2> QED
    BY <2>3 DEF Delivery!DeliveryNext
<1>8. ASSUME WriteMutations PROVE Delivery!DeliveryNext
  <2>1. /\ mutationQueue' = Append(mutationQueue, asked + 1) /\ made' = made
        /\ asked + 1 \in BatchId
    BY <1>8, BoundsAssumption DEF WriteMutations, WriteInv, BatchId
  <2>2. \A i \in 1..Len(mutationQueue) : mutationQueue'[i] = mutationQueue[i]
    BY <1>4, <2>1, AppendProperties
  <2>3. \A i \in 1..made : mutationQueue'[i] = mutationQueue[i]
    BY <1>4, <2>2
  <2>4. committed' = committed
    BY <1>2, <1>3, <2>1, <2>3
  <2>5. Delivery!Ask(asked + 1)
    BY <2>1, <2>4 DEF Delivery!Ask, committed
  <2> QED
    BY <2>1, <2>5 DEF Delivery!DeliveryNext
<1>9. ASSUME ServerCommits PROVE Delivery!DeliveryNext
  <2> DEFINE next == made + 1
  <2>1. mutationQueue' = mutationQueue /\ made' = next /\ made < Len(sent) /\ sent # <<>>
    BY <1>4, <1>9, EmptySeq DEF ServerCommits
  <2>2. Len(sent) = Room(mutationQueue)
    BY <2>1, AnswerFacts
  <2>3. next \in 1..Len(mutationQueue) /\ next <= MaxPendingWrites
    BY <1>4, <2>1, <2>2
  <2>4. mutationQueue[next] \notin committed
    <3>1. \A i \in 1..made : mutationQueue[i] < mutationQueue[next]
      BY <1>4, <2>3 DEF WriteInv, Growing
    <3>2. \A i \in 1..made : mutationQueue[i] # mutationQueue[next]
      BY <1>4, <1>5, <2>3, <3>1
    <3> QED
      BY <1>2, <3>2
  <2>5. \A j \in 1..(next - 1) : mutationQueue[j] \in committed
    BY <1>2, <1>4
  <2>6. 1..made' = 1..made \cup {next}
    BY <1>4, <2>1
  <2>7. committed' = committed \cup {mutationQueue[next]}
    <3> HIDE DEF next
    <3> QED
      BY <1>2, <1>3, <2>1, <2>6
  <2> HIDE DEF next
  <2>8. Delivery!Make
    BY <1>4, <2>1, <2>3, <2>4, <2>5, <2>7 DEF Delivery!Make, committed
  <2> QED
    BY <2>8 DEF Delivery!DeliveryNext
<1>10. ASSUME OnWriteStreamMutationResult PROVE Delivery!DeliveryNext
  <2>1. made > 0 /\ made' = made - 1 /\ made \in Nat
    BY <1>4, <1>10 DEF OnWriteStreamMutationResult
  <2>2. sent # <<>>
    BY <2>1, EmptySeq DEF WriteInv
  <2>3. /\ mutationQueue' = Tail(mutationQueue) /\ mutationQueue # <<>>
        /\ Head(mutationQueue) = mutationQueue[1]
    BY <1>10, <2>2, AnswerFacts, WithoutFirst DEF OnWriteStreamMutationResult, WriteInv
  <2>4. /\ Len(mutationQueue') = Len(mutationQueue) - 1
        /\ \A i \in 1..Len(mutationQueue') : mutationQueue'[i] = mutationQueue[i + 1]
    BY <1>4, <2>3, HeadTailProperties
  <2>5. 1 \in 1..made /\ mutationQueue[1] \in committed
    BY <1>2, <2>1
  <2>6. committed' = committed \ {mutationQueue[1]}
    <3>1. \A i \in 1..made' : /\ i + 1 \in 1..made
                              /\ mutationQueue'[i] = mutationQueue[i + 1]
                              /\ mutationQueue[i + 1] # mutationQueue[1]
      <4>1. ASSUME NEW i \in 1..made'
            PROVE  /\ i + 1 \in 1..made
                   /\ mutationQueue'[i] = mutationQueue[i + 1]
                   /\ mutationQueue[i + 1] # mutationQueue[1]
        <5>1. /\ i + 1 \in 1..made /\ i + 1 \in 1..Len(mutationQueue)
              /\ i \in 1..Len(mutationQueue') /\ 1 \in 1..Len(mutationQueue)
              /\ 1 < i + 1
          BY <1>4, <2>1, <2>4
        <5>2. mutationQueue[1] < mutationQueue[i + 1]
          BY <5>1 DEF WriteInv, Growing
        <5>3. mutationQueue[1] \in Nat /\ mutationQueue[i + 1] \in Nat
          BY <1>5, <5>1
        <5>4. mutationQueue'[i] = mutationQueue[i + 1]
          BY <2>4, <5>1
        <5> QED
          BY <5>1, <5>2, <5>3, <5>4
      <4> QED
        BY <4>1
    <3>2. \A x \in committed' : x \in committed /\ x # mutationQueue[1]
      BY <1>2, <1>3, <3>1
    <3>3. ASSUME NEW i \in 1..made, mutationQueue[i] # mutationQueue[1]
          PROVE  mutationQueue[i] \in committed'
      <4>1. i # 1 /\ i - 1 \in 1..made' /\ (i - 1) + 1 = i
        BY <1>4, <2>1, <3>3
      <4>2. mutationQueue'[i - 1] = mutationQueue[(i - 1) + 1]
        BY <3>1, <4>1
      <4> QED
        BY <1>3, <4>1, <4>2
    <3> QED
      BY <1>2, <3>2, <3>3
  <2>7. Delivery!Succeed
    BY <2>3, <2>5, <2>6 DEF Delivery!Succeed, committed
  <2> QED
    BY <2>7 DEF Delivery!DeliveryNext
<1>11. ASSUME HandleWriteError PROVE Delivery!DeliveryNext
  <2>1. sent # <<>> /\ made = 0 /\ made' = 0
    BY <1>11 DEF HandleWriteError
  <2>2. mutationQueue' = Tail(mutationQueue) /\ mutationQueue # <<>>
    BY <1>11, <2>1, AnswerFacts DEF HandleWriteError
  <2>3. committed = {} /\ committed' = {}
    <3>1. (\A i \in 1..made : FALSE) /\ (\A i \in 1..made' : FALSE)
      BY <2>1
    <3> QED
      BY <1>2, <1>3, <3>1
  <2>4. Delivery!Refuse
    BY <2>2, <2>3 DEF Delivery!Refuse, committed
  <2> QED
    BY <2>4 DEF Delivery!DeliveryNext
<1>12. CASE WatchOnlyStep \/ UNCHANGED vars
  <2>1. mutationQueue' = mutationQueue /\ made' = made
    BY <1>12, WatchOnlyKeepsWrites DEF writeVars
  <2> QED
    BY <1>6, <2>1
<1>13. CASE \/ OnWriteStreamOpen \/ OnWriteStreamHandshakeComplete
            \/ WriteCredentials \/ StaleWriteCredentials \/ WriteBackoffElapsed
  <2>1. mutationQueue' = mutationQueue /\ made' = made
    BY <1>13 DEF OnWriteStreamOpen, OnWriteStreamHandshakeComplete, WriteCredentials,
          StaleWriteCredentials, WriteBackoffElapsed
  <2> QED
    BY <1>6, <2>1
<1>14. CASE WriteStreamFails \/ WriteStreamIdle \/ HandleCredentialChange \/ Restart
  <2>1. mutationQueue' = mutationQueue /\ made' = 0
    BY <1>14 DEF WriteStreamFails, WriteStreamIdle, HandleCredentialChange, Restart
  <2> QED
    BY <1>7, <2>1
<1> QED
  BY <1>8, <1>9, <1>10, <1>11, <1>12, <1>13, <1>14 DEF Next, WatchOnlyStep

\* The client implements WriteDelivery: each write is answered in the order
\* it was made, success is reported only of a write the server has made on
\* the stream that answers, and a stream that is lost takes no write with it
\* (the write pipeline and the mutation queue of RemoteStore and LocalStore).
THEOREM StoreImplementsDelivery == Spec => DeliverySpec
<1>1. Init => Delivery!DeliveryInit
  <2> SUFFICES ASSUME Init PROVE Delivery!DeliveryInit
    OBVIOUS
  <2>1. mutationQueue \in Seq(BatchId)
    BY EmptySeq DEF Init
  <2>2. \A i \in 1..made : FALSE
    BY DEF Init
  <2>3. {sent[i] : i \in 1..made} = {}
    BY <2>2
  <2> QED
    BY <2>1, <2>3 DEF Delivery!DeliveryInit
<1>2. WatchInv /\ WriteInv /\ [Next]_vars => [Delivery!DeliveryNext]_(Delivery!deliveryVars)
  BY DeliveryStep
<1> QED
  BY StoreInvariant, <1>1, <1>2, PTL DEF Spec, DeliverySpec, Delivery!DeliverySpec
================================================================================
