------------------------------- MODULE Firestore -------------------------------
(***************************************************************************)
(* Cloud Firestore as Celeste uses it: the documents on the server, and on *)
(* every device the client that the app links (Pods/FirebaseFirestore).    *)
(* The client keeps a persistent queue of the writes the server has not    *)
(* acknowledged and a persistent cache of the documents it has seen; its   *)
(* worker queue is serial, so each of its handlers is one action here.     *)
(* What the client has to tell the app it posts, in order, to the main     *)
(* dispatch queue of the device.                                           *)
(***************************************************************************)
EXTENDS Integers, Sequences, FiniteSets

CONSTANTS
    Device,             \* the installations of the app
    Collection,         \* the collections the app queries
    DocId,              \* the document names the app uses in a collection
    Value,              \* what a document can say, as far as the app can tell
    NoDocument,         \* stands for the value of a document that does not exist
    WriteCallback,      \* the completion handlers the app gives to its writes
    NoCallback,         \* no handler, or one whose controller is gone
    MaxPendingWrites,   \* kMaxPendingWrites: writes on the wire at a time
    MaxVersion          \* bound: how often a document changes

ASSUME NoDocumentAssumption == NoDocument \notin Value
ASSUME NoCallbackAssumption == NoCallback \notin WriteCallback \cup {"fetched"}
ASSUME MaxPendingWritesAssumption == MaxPendingWrites \in Nat \ {0}
ASSUME MaxVersionAssumption == MaxVersion \in Nat

VARIABLES
    server,         \* the documents, each with the version of its last change
    mutationQueue,  \* per device: the writes not yet acknowledged, oldest first
    documentCache,  \* per device: the last known server state of each document
    listenTargets,  \* per device: the collections the client listens to
    listeners,      \* per device and collection: app callbacks still to be called
    watchStream,    \* per device: query results sent by the server, not yet read
    connected,      \* per device: the backend can be reached
    configured,     \* per device: the process runs and has created its client
    mainQueue       \* per device: blocks posted to the main queue, oldest first

serverVars == <<server, connected>>
clientVars == <<mutationQueue, documentCache, listenTargets, listeners, watchStream, configured>>
firestoreVars == <<serverVars, clientVars, mainQueue>>

Doc == Collection \X DocId
MaybeValue == Value \cup {NoDocument}
Version == Nat
Document == [value: MaybeValue, version: Version]
Missing == [value |-> NoDocument, version |-> 0]

(***************************************************************************)
(* A write.  "set" creates or replaces a document, "update" changes one    *)
(* that must exist, "delete" removes one.  committed says that the server  *)
(* has made the write and its answer has not reached the client; version   *)
(* is then the commit version the answer carries.                          *)
(***************************************************************************)
Mutation == [op: {"set", "update", "delete"}, doc: Doc, value: MaybeValue,
             callback: WriteCallback \cup {NoCallback}, committed: BOOLEAN, version: Version]

WriteResult == [callback: WriteCallback, ok: BOOLEAN, doc: Doc]
QueryResult == [callback: {"fetched"}, ok: BOOLEAN, docs: [DocId -> MaybeValue]]

\* Results the server has put on the watch stream for one collection.
WatchSnapshot == [collection: Collection, docs: [DocId -> Document]]

FirestoreTypeOK ==
    /\ server \in [Doc -> Document]
    /\ mutationQueue \in [Device -> Seq(Mutation)]
    /\ documentCache \in [Device -> [Doc -> Document]]
    /\ listenTargets \in [Device -> SUBSET Collection]
    /\ listeners \in [Device -> [Collection -> Nat]]
    /\ watchStream \in [Device -> SUBSET WatchSnapshot]
    /\ connected \in [Device -> BOOLEAN]
    /\ configured \in [Device -> BOOLEAN]

(***************************************************************************)
(* What a write does to the value of its document.  An update of a missing *)
(* document does nothing: the server refuses it, and locally its           *)
(* precondition fails.                                                     *)
(***************************************************************************)
PreconditionHolds(m, value) == m.op = "update" => value # NoDocument

ApplyMutation(m, value) ==
    IF PreconditionHolds(m, value) THEN m.value ELSE NoDocument

LastOf(S) == CHOOSE i \in S : \A j \in S : j <= i

(***************************************************************************)
(* A document as the app sees it: its cached value with every unacknow-    *)
(* ledged write applied in order.  Whether it exists is decided by the     *)
(* last set or delete, what it says by the last write.                     *)
(***************************************************************************)
LocalValue(queue, doc, base) ==
    LET writes == {i \in DOMAIN queue : queue[i].doc = doc}
        making == {i \in writes : queue[i].op # "update"}
        exists == IF making = {} THEN base # NoDocument ELSE queue[LastOf(making)].op = "set"
    IN  CASE ~exists      -> NoDocument
          [] writes = {}  -> base
          [] OTHER        -> queue[LastOf(writes)].value

LocalView(queue, cache, coll) ==
    [id \in DocId |-> LocalValue(queue, <<coll, id>>, cache[<<coll, id>>].value)]

(***************************************************************************)
(* What the app calls.                                                     *)
(***************************************************************************)

\* A write that nobody but its device has seen.
NewMutation(op, doc, value, callback) ==
    [op |-> op, doc |-> doc, value |-> value, callback |-> callback,
     committed |-> FALSE, version |-> 0]

\* WriteMutations: the write joins the persistent queue, its handler is kept
\* in memory.  setData, updateData and delete all end here.
WriteMutation(d, op, doc, value, callback) ==
    mutationQueue' = [mutationQueue EXCEPT ![d] =
        Append(@, NewMutation(op, doc, value, callback))]

\* getDocuments: a listener that is removed by its first event.  Using the
\* client creates it.
GetDocuments(d, coll) ==
    /\ configured' = [configured EXCEPT ![d] = TRUE]
    /\ listenTargets' = [listenTargets EXCEPT ![d] = @ \cup {coll}]
    /\ listeners' = [listeners EXCEPT ![d][coll] = @ + 1]

(***************************************************************************)
(* Events of the client.                                                   *)
(***************************************************************************)

\* A fault: an error is reported as success.
NotifyUserOfSuccess(d, m, ok) ==
    mainQueue' = IF m.callback = NoCallback THEN mainQueue
                 ELSE [mainQueue EXCEPT ![d] =
                         Append(@, [callback |-> m.callback, ok |-> TRUE, doc |-> m.doc])]

\* Post the outcome of a write to its handler; writes restored from disk
\* have none.
NotifyUser(d, m, ok) ==
    mainQueue' = IF m.callback = NoCallback THEN mainQueue
                 ELSE [mainQueue EXCEPT ![d] =
                         Append(@, [callback |-> m.callback, ok |-> ok, doc |-> m.doc])]

\* The first event of the listeners of a collection, which also removes them.
RaiseInitialEvent(d, coll, ok, docs) ==
    /\ mainQueue' = [mainQueue EXCEPT ![d] = @ \o
           [i \in 1..listeners[d][coll] |-> [callback |-> "fetched", ok |-> ok, docs |-> docs]]]
    /\ listeners' = [listeners EXCEPT ![d][coll] = 0]
    /\ listenTargets' = [listenTargets EXCEPT ![d] = @ \ {coll}]

\* A fault: writes restored from disk are not sent.
IsNextOfSession(queue, i) ==
    /\ i <= MaxPendingWrites
    /\ ~queue[i].committed /\ queue[i].callback # NoCallback
    /\ \A j \in 1..(i - 1) : queue[j].committed

\* The i-th write of a queue is the next one the server gets to see.
IsNext(queue, i) ==
    /\ i <= MaxPendingWrites
    /\ ~queue[i].committed
    /\ \A j \in 1..(i - 1) : queue[j].committed

\* The server makes the next write on the wire, in queue order.  A write
\* that changes nothing keeps the document's version.
Commit(d) ==
    /\ configured[d] /\ connected[d]
    /\ \E i \in 1..Len(mutationQueue[d]) :
        LET m   == mutationQueue[d][i]
            old == server[m.doc]
            new == [value   |-> ApplyMutation(m, old.value),
                    version |-> IF ApplyMutation(m, old.value) = old.value
                                THEN old.version ELSE old.version + 1]
        IN  /\ IsNext(mutationQueue[d], i)
            /\ PreconditionHolds(m, old.value)
            /\ new.version <= MaxVersion
            /\ server' = [server EXCEPT ![m.doc] = new]
            /\ mutationQueue' = [mutationQueue EXCEPT ![d][i] =
                   [m EXCEPT !.committed = TRUE, !.version = new.version]]
    /\ UNCHANGED <<documentCache, listenTargets, listeners, watchStream, connected,
                   configured, mainQueue>>

\* A fault: a write counts as made as soon as it is queued.
Queued(m) == m.callback \in WriteCallback \cup {NoCallback}

Answered(m) == m.committed

\* The answer to the oldest write arrives: its handler is told, the cache
\* takes the write unless it knows something newer, the write is forgotten.
HandleSuccessfulWrite(d) ==
    /\ configured[d] /\ connected[d]
    /\ mutationQueue[d] # <<>>
    /\ LET m == Head(mutationQueue[d]) IN
        /\ Answered(m)
        /\ NotifyUser(d, m, TRUE)
        /\ documentCache' = [documentCache EXCEPT ![d][m.doc] =
               IF @.version < m.version
               THEN [value |-> ApplyMutation(m, @.value), version |-> m.version]
               ELSE @]
        /\ mutationQueue' = [mutationQueue EXCEPT ![d] = Tail(@)]
    /\ UNCHANGED <<serverVars, listenTargets, listeners, watchStream, configured>>

\* The server refuses the oldest write for good (no such document, no
\* permission, ...): it is dropped and its handler is told.
HandleRejectedWrite(d) ==
    /\ configured[d] /\ connected[d]
    /\ mutationQueue[d] # <<>>
    /\ ~Head(mutationQueue[d]).committed
    /\ NotifyUser(d, Head(mutationQueue[d]), FALSE)
    /\ mutationQueue' = [mutationQueue EXCEPT ![d] = Tail(@)]
    /\ UNCHANGED <<serverVars, documentCache, listenTargets, listeners, watchStream, configured>>

\* The server answers a query: the snapshot is on its way.
SendWatchSnapshot(d) ==
    /\ configured[d] /\ connected[d]
    /\ \E coll \in listenTargets[d] :
        /\ \A s \in watchStream[d] : s.collection # coll
        /\ watchStream' = [watchStream EXCEPT ![d] = @ \cup
               {[collection |-> coll, docs |-> [id \in DocId |-> server[<<coll, id>>]]]}]
    /\ UNCHANGED <<serverVars, mutationQueue, documentCache, listenTargets, listeners,
                   configured, mainQueue>>

\* A fault: a late snapshot overwrites newer documents.
LastRead(doc, cached) == doc

Newer(doc, cached) == IF doc.version >= cached.version THEN doc ELSE cached

\* The snapshot arrives: documents not older than the cached ones are taken,
\* and the listeners see the cache with the pending writes on top.
ApplyRemoteEvent(d) ==
    /\ configured[d] /\ connected[d]
    /\ \E s \in watchStream[d] :
        LET fresh == [doc \in Doc |->
                IF doc[1] = s.collection THEN Newer(s.docs[doc[2]], documentCache[d][doc])
                                         ELSE documentCache[d][doc]]
        IN  /\ documentCache' = [documentCache EXCEPT ![d] = fresh]
            /\ watchStream' = [watchStream EXCEPT ![d] = @ \ {s}]
            /\ RaiseInitialEvent(d, s.collection, TRUE,
                                 LocalView(mutationQueue[d], fresh, s.collection))
    /\ UNCHANGED <<serverVars, mutationQueue, configured>>

\* The stream failed or nothing came for ten seconds: the client considers
\* itself offline and its listeners are served from the cache.
HandleOnlineStateChange(d) ==
    /\ configured[d]
    /\ \E coll \in listenTargets[d] :
        /\ RaiseInitialEvent(d, coll, TRUE, LocalView(mutationQueue[d], documentCache[d], coll))
        /\ watchStream' = [watchStream EXCEPT ![d] = {s \in @ : s.collection # coll}]
    /\ UNCHANGED <<serverVars, mutationQueue, documentCache, configured>>

\* The server refuses the query: the listeners get the error.
HandleRejectedListen(d) ==
    /\ configured[d] /\ connected[d]
    /\ \E coll \in listenTargets[d] :
        /\ RaiseInitialEvent(d, coll, FALSE, [id \in DocId |-> NoDocument])
        /\ watchStream' = [watchStream EXCEPT ![d] = {s \in @ : s.collection # coll}]
    /\ UNCHANGED <<serverVars, mutationQueue, documentCache, configured>>

\* The queue when the stream that carried its writes is gone.  Each of them
\* is sent again, and since the handshake of the next stream does not carry
\* the stream token, the server makes again the ones it had made already.
Resent(queue) ==
    [i \in DOMAIN queue |-> [queue[i] EXCEPT !.committed = FALSE, !.version = 0]]

\* The backend goes out of reach, and with it what was on the watch stream
\* and the answers to writes.
Disconnect(d) ==
    /\ connected[d]
    /\ connected' = [connected EXCEPT ![d] = FALSE]
    /\ watchStream' = [watchStream EXCEPT ![d] = {}]
    /\ mutationQueue' = [mutationQueue EXCEPT ![d] = Resent(@)]
    /\ UNCHANGED <<server, documentCache, listenTargets, listeners, configured, mainQueue>>

Connect(d) ==
    /\ ~connected[d]
    /\ connected' = [connected EXCEPT ![d] = TRUE]
    /\ UNCHANGED <<server, clientVars, mainQueue>>

WithoutCallback(m) == [m EXCEPT !.callback = NoCallback]

\* A fault: the queue is kept in memory.
Forgotten(queue) == <<>>

\* The writes whose handlers are gone.
Orphaned(queue) == [i \in DOMAIN queue |-> WithoutCallback(queue[i])]

\* The process dies.  The queue and the cache are on disk, handlers,
\* listeners and posted blocks are not.
KillProcess(d) ==
    /\ mutationQueue' = [mutationQueue EXCEPT ![d] = Resent(Orphaned(@))]
    /\ listenTargets' = [listenTargets EXCEPT ![d] = {}]
    /\ listeners' = [listeners EXCEPT ![d] = [coll \in Collection |-> 0]]
    /\ watchStream' = [watchStream EXCEPT ![d] = {}]
    /\ mainQueue' = [mainQueue EXCEPT ![d] = <<>>]
    /\ configured' = [configured EXCEPT ![d] = FALSE]
    /\ UNCHANGED <<serverVars, documentCache>>

(***************************************************************************)
(* No document has been cached yet when the app starts for the first time. *)
(***************************************************************************)
FirestoreInit ==
    /\ server \in [Doc -> {Missing} \cup [value: Value, version: {1}]]
    /\ mutationQueue = [d \in Device |-> <<>>]
    /\ documentCache = [d \in Device |-> [doc \in Doc |-> Missing]]
    /\ listenTargets = [d \in Device |-> {}]
    /\ listeners = [d \in Device |-> [coll \in Collection |-> 0]]
    /\ watchStream = [d \in Device |-> {}]
    /\ connected = [d \in Device |-> TRUE]
    /\ configured = [d \in Device |-> FALSE]
    /\ mainQueue = [d \in Device |-> <<>>]
================================================================================
