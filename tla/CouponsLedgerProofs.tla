-------------------------- MODULE CouponsLedgerProofs --------------------------
(***************************************************************************)
(* Theorems about what Coupons promises: no request is lost, success is    *)
(* told only of what has happened, Coupons implements CouponLedger, no     *)
(* spinner is left for good, and the carousel shows "Redeemed" with        *)
(* reason.                                                                 *)
(***************************************************************************)
EXTENDS CouponsProofs, FiniteSetTheorems

(***************************************************************************)
(* The inductive invariant.  A write that was made has happened; no two    *)
(* gifts in the queues are of the same coupon; the version of a coupon     *)
(* tells that it was given, and if by a phone that can give it again, that *)
(* it was redeemed since, so that what gives it back is its third change;  *)
(* an answer that waits for the main queue is true, and no phone gives     *)
(* again what was answered.                                                *)
(***************************************************************************)
WellQueued(m) ==
    /\ m.committed => Happened(<<m.op, m.doc>>)
    /\ m.op = "set" => <<"set", m.doc>> \in requested

QueuesWell ==
    \A d \in Device : \A i \in DOMAIN mutationQueue[d] : WellQueued(mutationQueue[d][i])

SetsDistinct ==
    \A d, e \in Device : \A i \in DOMAIN mutationQueue[d], j \in DOMAIN mutationQueue[e] :
        /\ mutationQueue[d][i].op = "set" /\ mutationQueue[e][j].op = "set"
        /\ mutationQueue[d][i].doc = mutationQueue[e][j].doc
        => d = e /\ i = j

Counted(doc) ==
    /\ server[doc].value # NoDocument <=> server[doc].version >= 1
    /\ server[doc].value = "redeemed" /\ <<"set", doc>> \in requested => server[doc].version >= 2

VersionsCount == \A doc \in Doc : Counted(doc)

NotGiving(doc) == \A d \in Device : ~QueuedOn(d, <<"set", doc>>)

TrueAnswer(b) ==
    /\ b.callback = "redeemed" => (b.ok => Happened(<<"update", b.doc>>))
    /\ b.callback = "gifted"   => (b.ok => Happened(<<"set", b.doc>>) /\ NotGiving(b.doc))

AnswersTrue ==
    \A d \in Device : \A i \in DOMAIN mainQueue[d] : TrueAnswer(mainQueue[d][i])

LedgerInv ==
    QueuesWell /\ SetsDistinct /\ VersionsCount /\ AnswersTrue /\ ToldIsTrue /\ NothingLost

LEMMA LedgerInvInit == Init => LedgerInv
<1> SUFFICES ASSUME Init PROVE LedgerInv
  OBVIOUS
<1>1. VersionsCount
  <2>1. \A doc \in Doc : server[doc] \in {Missing} \cup [value: Value, version: {1}]
    BY DEF Init, FirestoreInit
  <2>2. requested = {}
    BY DEF Init
  <2> QED
    BY <2>1, <2>2, NoDocumentAssumption DEF VersionsCount, Counted, Missing
<1> QED
  BY <1>1 DEF Init, FirestoreInit, LedgerInv, QueuesWell, SetsDistinct, AnswersTrue, ToldIsTrue,
              NothingLost

\* What has happened is a fact of the server alone.
LEMMA HappenedKept ==
    ASSUME server' = server
    PROVE  \A r : Happened(r)' <=> Happened(r)
  BY DEF Happened, OnServer, GivenBack, GivenAgain

(***************************************************************************)
(* Most steps leave the queued writes what they were, but for handlers and *)
(* for what must be made again, and post no answer.                        *)
(***************************************************************************)
SameWrites ==
    \A d \in Device :
        /\ DOMAIN mutationQueue'[d] = DOMAIN mutationQueue[d]
        /\ \A i \in DOMAIN mutationQueue[d] :
            /\ mutationQueue'[d][i].op = mutationQueue[d][i].op
            /\ mutationQueue'[d][i].doc = mutationQueue[d][i].doc
            /\ mutationQueue'[d][i].committed => mutationQueue[d][i].committed

NoNewAnswers ==
    \A d \in Device : \A i \in DOMAIN mainQueue'[d] :
        mainQueue'[d][i].callback \in {"redeemed", "gifted"}
        => \E j \in DOMAIN mainQueue[d] : mainQueue'[d][i] = mainQueue[d][j]

LEMMA KeptIsSame ==
    ASSUME WritesKept
    PROVE  SameWrites
  BY DEF WritesKept, KeptWrite, SameWrites

LEMMA SameWritesKeep ==
    ASSUME QueuesWell, SetsDistinct, VersionsCount, NothingLost, SameWrites,
           UNCHANGED <<server, requested, refused>>
    PROVE  /\ QueuesWell' /\ SetsDistinct' /\ VersionsCount' /\ NothingLost'
           /\ \A doc : NotGiving(doc) => NotGiving(doc)'
<1>1. \A r : Happened(r)' <=> Happened(r)
  BY HappenedKept
<1>2. QueuesWell'
  BY <1>1 DEF QueuesWell, SameWrites, WellQueued
<1>3. SetsDistinct'
  BY DEF SetsDistinct, SameWrites
<1>4. \A d \in Device : \A r : QueuedOn(d, r) <=> QueuedOn(d, r)'
  BY DEF QueuedOn, SameWrites
<1>5. NothingLost'
  BY <1>1, <1>4 DEF NothingLost
<1>6. VersionsCount'
  BY DEF VersionsCount, Counted
<1>7. \A doc : NotGiving(doc) => NotGiving(doc)'
  BY <1>4 DEF NotGiving
<1> QED
  BY <1>2, <1>3, <1>5, <1>6, <1>7

LEMMA NoNewAnswersKeep ==
    ASSUME AnswersTrue, NoNewAnswers, server' = server,
           \A doc : NotGiving(doc) => NotGiving(doc)'
    PROVE  AnswersTrue'
<1>1. \A b : TrueAnswer(b) => TrueAnswer(b)'
  BY HappenedKept DEF TrueAnswer
<1>2. \A b : b.callback \notin {"redeemed", "gifted"} => TrueAnswer(b)'
  BY DEF TrueAnswer
<1> QED
  BY <1>1, <1>2 DEF AnswersTrue, NoNewAnswers

LEMMA QuietStep ==
    ASSUME LedgerInv, SameWrites, NoNewAnswers, UNCHANGED <<server, requested, refused, told>>
    PROVE  LedgerInv'
<1>1. QueuesWell' /\ SetsDistinct' /\ VersionsCount' /\ NothingLost' /\ AnswersTrue'
  BY SameWritesKeep, NoNewAnswersKeep DEF LedgerInv
<1>2. ToldIsTrue'
  BY HappenedKept DEF LedgerInv, ToldIsTrue
<1> QED
  BY <1>1, <1>2 DEF LedgerInv

LEMMA UnchangedQueues ==
    /\ mutationQueue' = mutationQueue => SameWrites
    /\ mainQueue' = mainQueue => NoNewAnswers
  BY DEF SameWrites, NoNewAnswers

LEMMA PopFrontAnswers ==
    ASSUME TypeInv, NEW d \in Device, mainQueue[d] # <<>>, PopFront(d)
    PROVE  NoNewAnswers
<1>1. mainQueue[d] \in Seq(Block)
  BY DEF TypeInv, TypeOK
<1>2. \A i \in DOMAIN Tail(mainQueue[d]) :
          i + 1 \in DOMAIN mainQueue[d] /\ Tail(mainQueue[d])[i] = mainQueue[d][i + 1]
  BY <1>1, TailElement
<1> QED
  BY <1>2 DEF PopFront, NoNewAnswers, TypeInv, TypeOK

LEMMA PostAnswers ==
    ASSUME TypeInv, NEW d \in Device, NEW b, Post(d, b), b.callback \notin {"redeemed", "gifted"}
    PROVE  NoNewAnswers
<1>1. mainQueue[d] \in Seq(Block)
  BY DEF TypeInv, TypeOK
<1>2. \A i \in DOMAIN Append(mainQueue[d], b) :
          \/ Append(mainQueue[d], b)[i] = b
          \/ i \in DOMAIN mainQueue[d] /\ Append(mainQueue[d], b)[i] = mainQueue[d][i]
  BY <1>1, AppendElement
<1> QED
  BY <1>2 DEF Post, NoNewAnswers, TypeInv, TypeOK

LEMMA OrphanedWrites ==
    ASSUME TypeInv, NEW d \in Device,
           mutationQueue' = [mutationQueue EXCEPT ![d] = Orphaned(@)]
    PROVE  SameWrites
<1>1. \A i \in DOMAIN mutationQueue[d] : mutationQueue[d][i] \in Mutation
  BY ElementOfSeq, LenProperties DEF TypeInv, TypeOK, FirestoreTypeOK
<1>2. \A m \in Mutation : /\ WithoutCallback(m).op = m.op
                        /\ WithoutCallback(m).doc = m.doc
                        /\ WithoutCallback(m).committed = m.committed
  BY DEF WithoutCallback, Mutation
<1> QED
  BY <1>1, <1>2 DEF Orphaned, SameWrites, TypeInv, TypeOK, FirestoreTypeOK

LEMMA CloseSheetWrites ==
    ASSUME TypeInv, NEW d \in Device, NEW queue, CloseSheet(d, queue),
           \A i \in DOMAIN queue : \E j \in DOMAIN mainQueue[d] : queue[i] = mainQueue[d][j]
    PROVE  SameWrites /\ NoNewAnswers
<1>1. \A i \in DOMAIN mutationQueue[d] : mutationQueue[d][i] \in Mutation
  BY ElementOfSeq, LenProperties DEF TypeInv, TypeOK, FirestoreTypeOK
<1>2. \A m \in Mutation : /\ WithoutGiftHandler(m).op = m.op
                        /\ WithoutGiftHandler(m).doc = m.doc
                        /\ WithoutGiftHandler(m).committed = m.committed
  BY DEF WithoutGiftHandler, WithoutCallback, Mutation
<1>3. SameWrites
  BY <1>1, <1>2 DEF CloseSheet, SameWrites, TypeInv, TypeOK, FirestoreTypeOK
<1>4. NoCallback \notin {"redeemed", "gifted"}
  BY NoCallbackAssumption, WriteCallbackIsKind
<1>5. \A b : WithoutSheet(b).callback \in {"redeemed", "gifted"} => WithoutSheet(b) = b
  BY <1>4 DEF WithoutSheet
<1>6. /\ mainQueue'[d] = [i \in DOMAIN queue |-> WithoutSheet(queue[i])]
      /\ \A e \in Device \ {d} : mainQueue'[e] = mainQueue[e]
  BY DEF CloseSheet, TypeInv, TypeOK
<1>7. NoNewAnswers
  BY <1>5, <1>6 DEF NoNewAnswers
<1> QED
  BY <1>3, <1>7

LEMMA RaiseInitialEventAnswers ==
    ASSUME TypeInv, NEW d \in Device, NEW coll \in Collection, NEW ok, NEW docs,
           RaiseInitialEvent(d, coll, ok, docs)
    PROVE  NoNewAnswers
<1> DEFINE b == [callback |-> "fetched", ok |-> ok, docs |-> docs]
           new == [i \in 1..listeners[d][coll] |-> b]
<1>1. listeners[d][coll] \in Nat /\ mainQueue[d] \in Seq(Block)
  BY DEF TypeInv, TypeOK, FirestoreTypeOK
<1>2. /\ mainQueue' = [mainQueue EXCEPT ![d] = mainQueue[d] \o new]
      /\ b.callback = "fetched"
  BY DEF RaiseInitialEvent
<1>3. \A i \in DOMAIN (mainQueue[d] \o new) :
          \/ i \in DOMAIN mainQueue[d] /\ (mainQueue[d] \o new)[i] = mainQueue[d][i]
          \/ (mainQueue[d] \o new)[i] = b
  BY <1>1, RaisedElement
<1> HIDE DEF new, b
<1> QED
  BY <1>2, <1>3 DEF NoNewAnswers, TypeInv, TypeOK

\* The steps that neither ask for a write nor make, answer or refuse one.
Quiet(d) ==
    \/ SendWatchSnapshot(d) /\ UNCHANGED historyVars
    \/ ApplyRemoteEvent(d) /\ UNCHANGED historyVars
    \/ HandleOnlineStateChange(d) /\ UNCHANGED historyVars
    \/ HandleRejectedListen(d) /\ UNCHANGED historyVars
    \/ Disconnect(d) /\ UNCHANGED historyVars
    \/ Connect(d) /\ UNCHANGED historyVars
    \/ Kill(d)
    \/ CloseTapped(d)
    \/ \E who \in Who : OpenCoupons(d, who)
    \/ GiftTapped(d) \/ SubmitIncomplete(d) \/ AlertDismissed(d)
    \/ SheetSwiped(d)
    \/ FetchCouponsCompleted(d)
    \/ SpinnerAdded(d) \/ SpinnerRemoved(d) \/ NothingLeftToDo(d)
    \/ \E v \in View : SpinnerExpires(d, v)

LEMMA QuietActionsDo ==
    ASSUME TypeInv, LedgerInv, NEW d \in Device, Quiet(d)
    PROVE  SameWrites /\ NoNewAnswers /\ UNCHANGED <<server, requested, refused, told>>
<1> USE DEF historyVars, serverVars, clientVars, firestoreVars, screenVars
<1>1. CASE SendWatchSnapshot(d) /\ UNCHANGED historyVars
  BY <1>1, UnchangedQueues DEF SendWatchSnapshot
<1>9. CASE (Disconnect(d) \/ Connect(d)) /\ UNCHANGED historyVars
  BY <1>9, UnchangedQueues, ConnectionKeepsWrites, KeptIsSame
     DEF Disconnect, Connect, TypeInv, TypeOK
<1>2. CASE ApplyRemoteEvent(d) /\ UNCHANGED historyVars
  <2>1. PICK s \in watchStream[d] : \E docs : RaiseInitialEvent(d, s.collection, TRUE, docs)
    BY <1>2 DEF ApplyRemoteEvent
  <2>2. s \in WatchSnapshot
    BY DEF TypeInv, TypeOK, FirestoreTypeOK
  <2>3. s.collection \in Collection
    BY <2>2 DEF WatchSnapshot
  <2>4. NoNewAnswers
    BY <2>1, <2>3, RaiseInitialEventAnswers
  <2> QED
    BY <1>2, <2>4, UnchangedQueues DEF ApplyRemoteEvent
<1>3. CASE (HandleOnlineStateChange(d) \/ HandleRejectedListen(d)) /\ UNCHANGED historyVars
  <2>1. PICK coll \in listenTargets[d] : \E ok, docs : RaiseInitialEvent(d, coll, ok, docs)
    BY <1>3 DEF HandleOnlineStateChange, HandleRejectedListen
  <2>2. coll \in Collection
    BY DEF TypeInv, TypeOK, FirestoreTypeOK
  <2>3. NoNewAnswers
    BY <2>1, <2>2, RaiseInitialEventAnswers
  <2> QED
    BY <1>3, <2>3, UnchangedQueues DEF HandleOnlineStateChange, HandleRejectedListen
<1>4. CASE Kill(d) \/ CloseTapped(d)
  <2>1. mainQueue' = [mainQueue EXCEPT ![d] = <<>>]
    BY <1>4 DEF Kill, KillProcess, CloseTapped, ReleaseHandlers
  <2>2. NoNewAnswers
    BY <2>1 DEF NoNewAnswers, TypeInv, TypeOK
  <2>3. SameWrites
    BY <1>4, OrphanedWrites, ConnectionKeepsWrites, KeptIsSame
       DEF Kill, CloseTapped, ReleaseHandlers, TypeInv, TypeOK
  <2> QED
    BY <1>4, <2>2, <2>3 DEF Kill, KillProcess, CloseTapped
<1>5. CASE \/ \E who \in Who : OpenCoupons(d, who)
           \/ GiftTapped(d) \/ SubmitIncomplete(d) \/ AlertDismissed(d)
  BY <1>5, UnchangedQueues DEF OpenCoupons, GiftTapped, SubmitIncomplete, AlertDismissed
<1>6. CASE SheetSwiped(d)
  <2>1. SameWrites /\ NoNewAnswers
    BY <1>6, CloseSheetWrites DEF SheetSwiped
  <2> QED
    BY <1>6, <2>1 DEF SheetSwiped
<1>7. CASE \/ FetchCouponsCompleted(d)
           \/ SpinnerAdded(d) \/ SpinnerRemoved(d) \/ NothingLeftToDo(d)
  <2>1. mainQueue[d] # <<>> /\ PopFront(d)
    BY <1>7 DEF FetchCouponsCompleted, SpinnerAdded, SpinnerRemoved, NothingLeftToDo, Front
  <2>2. NoNewAnswers
    BY <2>1, PopFrontAnswers
  <2> QED
    BY <1>7, <2>2, UnchangedQueues
    DEF FetchCouponsCompleted, SpinnerAdded, SpinnerRemoved, NothingLeftToDo
<1>8. CASE \E v \in View : SpinnerExpires(d, v)
  <2>1. PICK v \in View : SpinnerExpires(d, v)
    BY <1>8
  <2>2. NoNewAnswers
    <3>1. Post(d, [callback |-> "removeSpinner", on |-> v])
      BY <2>1 DEF SpinnerExpires
    <3> QED
      BY <3>1, PostAnswers
  <2> QED
    BY <2>1, <2>2, UnchangedQueues DEF SpinnerExpires
<1> QED
  BY <1>1, <1>2, <1>3, <1>4, <1>5, <1>6, <1>7, <1>8, <1>9 DEF Quiet

LEMMA QuietActions ==
    ASSUME TypeInv, LedgerInv, NEW d \in Device, Quiet(d)
    PROVE  LedgerInv'
  BY QuietActionsDo, QuietStep

(***************************************************************************)
(* The steps that matter, one by one.                                      *)
(***************************************************************************)

\* What is told is the answer at the front of the main queue.
LEMMA AnswerHeard ==
    ASSUME LedgerInv, NEW r, Happened(r), SameWrites, NoNewAnswers,
           UNCHANGED <<server, requested, refused>>, told' \in {told, told \cup {r}}
    PROVE  LedgerInv'
<1>1. QueuesWell' /\ SetsDistinct' /\ VersionsCount' /\ NothingLost' /\ AnswersTrue'
  BY SameWritesKeep, NoNewAnswersKeep DEF LedgerInv
<1>2. ToldIsTrue'
  BY HappenedKept DEF LedgerInv, ToldIsTrue
<1> QED
  BY <1>1, <1>2 DEF LedgerInv

LEMMA FrontAnswer ==
    ASSUME TypeInv, LedgerInv, NEW d \in Device, NEW callback \in {"redeemed", "gifted"},
           Front(d, callback), Head(mainQueue[d]).ok
    PROVE  LET doc == Head(mainQueue[d]).doc
           IN  IF callback = "redeemed" THEN Happened(<<"update", doc>>)
                                        ELSE Happened(<<"set", doc>>) /\ NotGiving(doc)
<1>1. mainQueue[d] \in Seq(Block) /\ mainQueue[d] # <<>>
  BY DEF TypeInv, TypeOK, Front
<1>2. TrueAnswer(Head(mainQueue[d]))
  BY <1>1, TailElement DEF LedgerInv, AnswersTrue
<1> QED
  BY <1>2 DEF TrueAnswer, Front

LEMMA CompletionKeeps ==
    ASSUME TypeInv, NEW d \in Device, RedeemCouponCompleted(d) \/ GiftCouponCompleted(d)
    PROVE  SameWrites /\ NoNewAnswers /\ UNCHANGED <<server, requested, refused>>
<1>1. /\ mainQueue[d] # <<>> /\ mainQueue[d] \in Seq(Block)
      /\ UNCHANGED <<server, requested, refused>>
  BY DEF RedeemCouponCompleted, GiftCouponCompleted, Front, serverVars, TypeInv, TypeOK
<1>2. CASE PopFront(d) /\ mutationQueue' = mutationQueue
  BY <1>1, <1>2, UnchangedQueues, PopFrontAnswers
<1>3. CASE CloseSheet(d, Tail(mainQueue[d]))
  <2>1. \A i \in DOMAIN Tail(mainQueue[d]) :
            \E j \in DOMAIN mainQueue[d] : Tail(mainQueue[d])[i] = mainQueue[d][j]
    BY <1>1, TailElement
  <2> QED
    BY <1>1, <1>3, <2>1, CloseSheetWrites
<1> QED
  BY <1>2, <1>3 DEF RedeemCouponCompleted, GiftCouponCompleted, GiftSucceeded, GiftFailed

LEMMA RedeemCouponCompletedLedger ==
    ASSUME TypeInv, LedgerInv, NEW d \in Device, RedeemCouponCompleted(d)
    PROVE  LedgerInv'
<1> DEFINE doc == Head(mainQueue[d]).doc
<1>1. Front(d, "redeemed") /\ UNCHANGED <<server, requested, refused>> /\ SameWrites /\ NoNewAnswers
  BY CompletionKeeps DEF RedeemCouponCompleted
<1>2. CASE Head(mainQueue[d]).ok /\ RedeemSucceeded(d, doc)
  <2>1. Happened(<<"update", doc>>)
    BY <1>1, <1>2, FrontAnswer
  <2>2. told' = told \cup {<<"update", doc>>}
    BY <1>2 DEF RedeemSucceeded
  <2> QED
    BY <1>1, <2>1, <2>2, AnswerHeard
<1>3. CASE RedeemFailed(d)
  BY <1>1, <1>3, QuietStep DEF RedeemFailed
<1> QED
  BY <1>2, <1>3 DEF RedeemCouponCompleted

LEMMA GiftCouponCompletedLedger ==
    ASSUME TypeInv, LedgerInv, NEW d \in Device, GiftCouponCompleted(d)
    PROVE  LedgerInv'
<1> DEFINE doc == Head(mainQueue[d]).doc
<1>1. Front(d, "gifted") /\ UNCHANGED <<server, requested, refused>> /\ SameWrites /\ NoNewAnswers
  BY CompletionKeeps DEF GiftCouponCompleted
<1>2. CASE Head(mainQueue[d]).ok /\ GiftSucceeded(d, doc)
  <2>1. Happened(<<"set", doc>>)
    BY <1>1, <1>2, FrontAnswer
  <2>2. told' = told \cup {<<"set", doc>>}
    BY <1>2 DEF GiftSucceeded
  <2> QED
    BY <1>1, <2>1, <2>2, AnswerHeard
<1>3. CASE GiftFailed(d)
  BY <1>1, <1>3, QuietStep DEF GiftFailed
<1> QED
  BY <1>2, <1>3 DEF GiftCouponCompleted

\* A write joins a queue.
LEMMA RequestLedger ==
    ASSUME TypeInv, LedgerInv, NEW d \in Device, NEW op \in {"set", "update"}, NEW doc,
           NEW value, NEW callback, NEW v,
           Post(d, [callback |-> "addSpinner", on |-> v]),
           WriteMutation(d, op, doc, value, callback),
           requested' = requested \cup {<<op, doc>>}, UNCHANGED <<server, refused, told>>,
           op = "set" => server[doc].value = NoDocument /\ <<"set", doc>> \notin requested,
           NoDocument \notin {"unredeemed", "redeemed"}
    PROVE  LedgerInv'
<1> DEFINE m == [op |-> op, doc |-> doc, value |-> value, callback |-> callback,
                 committed |-> FALSE, version |-> 0]
           q == mutationQueue[d]
<1>1. q \in Seq(Mutation) /\ DOMAIN q = 1..Len(q) /\ Len(q) \in Nat
  BY LenProperties DEF TypeInv, TypeOK, FirestoreTypeOK
<1>2. /\ mutationQueue'[d] = Append(q, m)
      /\ \A e \in Device \ {d} : mutationQueue'[e] = mutationQueue[e]
  BY DEF WriteMutation, NewMutation, TypeInv, TypeOK, FirestoreTypeOK
<1>3. m.op = op /\ m.doc = doc /\ ~m.committed
  OBVIOUS
<1> HIDE DEF m
<1>4. /\ DOMAIN Append(q, m) = 1..(Len(q) + 1) /\ Append(q, m)[Len(q) + 1] = m
      /\ \A i \in DOMAIN q : Append(q, m)[i] = q[i]
  <2>1. q \in Seq(Mutation \cup {m})
    BY <1>1, SeqMonotonic
  <2> QED
    BY <1>1, <2>1, AppendProperties, LenProperties
<1>5. \A e \in Device : \A i \in DOMAIN mutationQueue'[e] :
            \/ e = d /\ i = Len(q) + 1 /\ mutationQueue'[e][i] = m
            \/ i \in DOMAIN mutationQueue[e] /\ mutationQueue'[e][i] = mutationQueue[e][i]
  <2> TAKE e \in Device
  <2>1. CASE e # d
    BY <1>2, <2>1
  <2>2. CASE e = d
    BY <1>1, <1>2, <1>4, <2>2
  <2> QED
    BY <2>1, <2>2
<1>6. \A e \in Device : \A i \in DOMAIN mutationQueue[e] :
            i \in DOMAIN mutationQueue'[e] /\ mutationQueue'[e][i] = mutationQueue[e][i]
  <2> TAKE e \in Device
  <2>1. CASE e # d
    BY <1>2, <2>1
  <2>2. CASE e = d
    BY <1>1, <1>2, <1>4, <2>2
  <2> QED
    BY <2>1, <2>2
<1>7. QueuesWell'
  <2>1. WellQueued(m)'
    BY <1>3 DEF WellQueued
  <2>2. \A w : WellQueued(w) => WellQueued(w)'
    BY HappenedKept DEF WellQueued
  <2> QED
    BY <1>5, <2>1, <2>2 DEF LedgerInv, QueuesWell
<1>8. SetsDistinct'
  <2>1. \A e \in Device : \A i \in DOMAIN mutationQueue[e] :
            op = "set" /\ mutationQueue[e][i].op = "set" => mutationQueue[e][i].doc # doc
    BY DEF LedgerInv, QueuesWell, WellQueued
  <2> QED
    BY <1>3, <1>5, <2>1 DEF LedgerInv, SetsDistinct
<1>9. AnswersTrue' /\ ToldIsTrue' /\ VersionsCount'
  <2>1. NoNewAnswers
    BY PostAnswers
  <2>2. \A b : TrueAnswer(b) => TrueAnswer(b)'
    <3> SUFFICES ASSUME NEW b, TrueAnswer(b) PROVE TrueAnswer(b)'
      OBVIOUS
    <3>1. CASE b.callback = "gifted" /\ b.ok
      <4>1. Happened(<<"set", b.doc>>) /\ NotGiving(b.doc)
        BY <3>1 DEF TrueAnswer
      <4>2. server[b.doc].value # NoDocument
        BY <4>1 DEF Happened, OnServer
      <4>3. NotGiving(b.doc)'
        BY <1>3, <1>5, <4>1, <4>2 DEF NotGiving, QueuedOn
      <4> QED
        BY <3>1, <4>1, <4>3, HappenedKept DEF TrueAnswer
    <3> QED
      BY <3>1, HappenedKept DEF TrueAnswer
  <2>3. AnswersTrue'
    <3>1. \A b : b.callback \notin {"redeemed", "gifted"} => TrueAnswer(b)'
      BY DEF TrueAnswer
    <3> QED
      BY <2>1, <2>2, <3>1 DEF LedgerInv, AnswersTrue, NoNewAnswers
  <2>4. ToldIsTrue'
    BY HappenedKept DEF LedgerInv, ToldIsTrue
  <2>5. VersionsCount'
    BY DEF LedgerInv, VersionsCount, Counted
  <2> QED
    BY <2>3, <2>4, <2>5
<1>10. NothingLost'
  <2>1. \A e \in Device : \A r : QueuedOn(e, r) => QueuedOn(e, r)'
    BY <1>6 DEF QueuedOn
  <2>2. QueuedOn(d, <<op, doc>>)'
    BY <1>1, <1>2, <1>3, <1>4 DEF QueuedOn
  <2> QED
    BY <2>1, <2>2, HappenedKept DEF LedgerInv, NothingLost
<1> QED
  BY <1>7, <1>8, <1>9, <1>10 DEF LedgerInv

LEMMA TappedLedger ==
    ASSUME TypeInv, LedgerInv, NEW d \in Device, NEW id \in DocId,
           RedeemTapped(d, id) \/ SubmitTapped(d, id)
    PROVE  LedgerInv'
<1>0. NoDocument \notin {"unredeemed", "redeemed"}
  BY NoDocumentAssumption, ValueIsRedeemed
<1>1. CASE RedeemTapped(d, id)
  <2>1. UNCHANGED <<server, refused, told>>
    BY <1>1 DEF RedeemTapped, serverVars
  <2> QED
    BY <1>0, <1>1, <2>1, RequestLedger DEF RedeemTapped
<1>2. CASE SubmitTapped(d, id)
  <2> DEFINE doc == <<Other(screen[d]), id>>
  <2>1. UNCHANGED <<server, refused, told>>
    BY <1>2 DEF SubmitTapped, serverVars
  <2>2. server[doc].value = NoDocument /\ <<"set", doc>> \notin requested
    BY <1>2 DEF SubmitTapped, IsUUID, Other, Who, Missing
  <2> HIDE DEF doc
  <2>3. /\ Post(d, [callback |-> "addSpinner", on |-> "gift"])
        /\ WriteMutation(d, "set", doc, "unredeemed", "gifted")
        /\ requested' = requested \cup {<<"set", doc>>}
    BY <1>2 DEF SubmitTapped, doc
  <2> QED
    BY <1>0, <2>1, <2>2, <2>3, RequestLedger
<1> QED
  BY <1>1, <1>2

\* All but the oldest write of a device stay.
LEMMA OthersStay ==
    ASSUME TypeInv, NEW d \in Device, mutationQueue[d] # <<>>,
           mutationQueue' = [mutationQueue EXCEPT ![d] = Tail(@)]
    PROVE  /\ 1 \in DOMAIN mutationQueue[d] /\ Head(mutationQueue[d]) = mutationQueue[d][1]
           /\ \A e \in Device : \A i \in DOMAIN mutationQueue'[e] :
                \E j \in DOMAIN mutationQueue[e] : /\ mutationQueue'[e][i] = mutationQueue[e][j]
                                                   /\ e = d => j # 1
           /\ \A e \in Device : \A j \in DOMAIN mutationQueue[e] :
                (e = d => j # 1) =>
                    \E i \in DOMAIN mutationQueue'[e] : mutationQueue'[e][i] = mutationQueue[e][j]
<1> DEFINE q == mutationQueue[d]
<1>1. q \in Seq(Mutation)
  BY DEF TypeInv, TypeOK, FirestoreTypeOK
<1>2. /\ Head(q) = q[1] /\ 1 \in DOMAIN q /\ Len(q) \in Nat /\ DOMAIN q = 1..Len(q)
      /\ DOMAIN Tail(q) = 1..(Len(q) - 1)
      /\ \A i \in DOMAIN Tail(q) : i + 1 \in DOMAIN q /\ Tail(q)[i] = q[i + 1]
  BY <1>1, TailElement, HeadTailProperties, LenProperties
<1>3. /\ mutationQueue'[d] = Tail(q)
      /\ \A e \in Device \ {d} : mutationQueue'[e] = mutationQueue[e]
  BY DEF TypeInv, TypeOK, FirestoreTypeOK
<1>4. \A i \in DOMAIN Tail(q) : \E j \in DOMAIN q : Tail(q)[i] = q[j] /\ j # 1
  <2>1. \A i \in DOMAIN Tail(q) : i + 1 # 1
    BY <1>2
  <2> QED
    BY <1>2, <2>1
<1>5. \A j \in DOMAIN q : j # 1 => \E i \in DOMAIN Tail(q) : Tail(q)[i] = q[j]
  <2> TAKE j \in DOMAIN q
  <2> HAVE j # 1
  <2>1. j - 1 \in DOMAIN Tail(q) /\ (j - 1) + 1 = j
    BY <1>2
  <2>2. Tail(q)[j - 1] = q[(j - 1) + 1]
    BY <1>2, <2>1
  <2> QED
    BY <2>1, <2>2
<1> HIDE DEF q
<1>6. mutationQueue[d] = q
  BY DEF q
<1>7. ASSUME NEW e \in Device
      PROVE  /\ \A i \in DOMAIN mutationQueue'[e] :
                \E j \in DOMAIN mutationQueue[e] : /\ mutationQueue'[e][i] = mutationQueue[e][j]
                                                   /\ e = d => j # 1
             /\ \A j \in DOMAIN mutationQueue[e] :
                (e = d => j # 1) =>
                    \E i \in DOMAIN mutationQueue'[e] : mutationQueue'[e][i] = mutationQueue[e][j]
  <2>1. CASE e = d
    <3>1. mutationQueue'[e] = Tail(q) /\ mutationQueue[e] = q
      BY <1>3, <1>6, <2>1
    <3> QED
      BY <1>4, <1>5, <2>1, <3>1
  <2>2. CASE e # d
    BY <1>3, <2>2
  <2> QED
    BY <2>1, <2>2
<1> QED
  BY <1>2, <1>6, <1>7

\* The oldest write leaves its queue once it is made or refused.
LEMMA WriteLeaves ==
    ASSUME TypeInv, LedgerInv, NEW d \in Device, NEW ok \in BOOLEAN, mutationQueue[d] # <<>>,
           NotifyUser(d, Head(mutationQueue[d]), ok),
           mutationQueue' = [mutationQueue EXCEPT ![d] = Tail(@)],
           UNCHANGED <<server, requested, told>>, refused \subseteq refused',
           LET m == Head(mutationQueue[d])
           IN  IF ok THEN m.committed ELSE <<m.op, m.doc>> \in refused'
    PROVE  LedgerInv'
<1> DEFINE q == mutationQueue[d]
           m == Head(q)
           b == [callback |-> m.callback, ok |-> ok, doc |-> m.doc]
<1>1. q \in Seq(Mutation) /\ mainQueue[d] \in Seq(Block)
  BY DEF TypeInv, TypeOK, FirestoreTypeOK
<1>2. /\ m = q[1] /\ 1 \in DOMAIN q /\ Len(q) \in Nat /\ DOMAIN q = 1..Len(q)
      /\ DOMAIN Tail(q) = 1..(Len(q) - 1)
      /\ \A i \in DOMAIN Tail(q) : i + 1 \in DOMAIN q /\ Tail(q)[i] = q[i + 1]
  BY <1>1, TailElement, HeadTailProperties, LenProperties
<1>3. /\ mutationQueue'[d] = Tail(q)
      /\ \A e \in Device \ {d} : mutationQueue'[e] = mutationQueue[e]
  BY DEF TypeInv, TypeOK, FirestoreTypeOK
<1>4. \A r : Happened(r)' <=> Happened(r)
  BY HappenedKept
<1>5. QueuesWell'
  <2>1. \A w : WellQueued(w) => WellQueued(w)'
    BY <1>4 DEF WellQueued
  <2>2. \A e \in Device : \A i \in DOMAIN mutationQueue'[e] :
            \E j \in DOMAIN mutationQueue[e] : mutationQueue'[e][i] = mutationQueue[e][j]
    BY <1>2, <1>3
  <2> QED
    BY <2>1, <2>2 DEF LedgerInv, QueuesWell
<1>6. SetsDistinct'
  <2>1. \A e \in Device : \A i \in DOMAIN mutationQueue'[e] :
            \E j \in DOMAIN mutationQueue[e] :
                /\ mutationQueue'[e][i] = mutationQueue[e][j]
                /\ j = IF e = d THEN i + 1 ELSE i
    <3> TAKE e \in Device
    <3>1. CASE e = d
      BY <1>2, <1>3, <3>1
    <3>2. CASE e # d
      BY <1>3, <3>2
    <3> QED
      BY <3>1, <3>2
  <2>2. \A e \in Device : \A i \in DOMAIN mutationQueue'[e] : i \in Int
    <3>1. \A e \in Device : mutationQueue'[e] \in Seq(Mutation)
      BY <1>1, <1>3, HeadTailProperties DEF TypeInv, TypeOK, FirestoreTypeOK
    <3> QED
      BY <3>1, LenProperties
  <2> SUFFICES ASSUME NEW e \in Device, NEW f \in Device, NEW i \in DOMAIN mutationQueue'[e],
                      NEW k \in DOMAIN mutationQueue'[f],
                      mutationQueue'[e][i].op = "set", mutationQueue'[f][k].op = "set",
                      mutationQueue'[e][i].doc = mutationQueue'[f][k].doc
               PROVE  e = f /\ i = k
    BY DEF SetsDistinct
  <2>3. PICK j \in DOMAIN mutationQueue[e] :
            mutationQueue'[e][i] = mutationQueue[e][j] /\ j = IF e = d THEN i + 1 ELSE i
    BY <2>1
  <2>4. PICK l \in DOMAIN mutationQueue[f] :
            mutationQueue'[f][k] = mutationQueue[f][l] /\ l = IF f = d THEN k + 1 ELSE k
    BY <2>1
  <2>5. e = f /\ j = l
    BY <2>3, <2>4 DEF LedgerInv, SetsDistinct
  <2>6. i \in Int /\ k \in Int
    BY <2>2
  <2> QED
    BY <2>3, <2>4, <2>5, <2>6
<1>7. ok => Happened(<<m.op, m.doc>>)
  BY <1>2 DEF LedgerInv, QueuesWell, WellQueued
<1>11. \A e \in Device : \A i \in DOMAIN mutationQueue'[e] :
            \E j \in DOMAIN mutationQueue[e] : /\ mutationQueue'[e][i] = mutationQueue[e][j]
                                               /\ e = d => j # 1
  BY OthersStay
<1> HIDE DEF q, m, b
<1>15. /\ \A e \in Device : \A r : QueuedOn(e, r)' <=>
             \E i \in DOMAIN mutationQueue'[e] : mutationQueue'[e][i].op = r[1] /\ mutationQueue'[e][i].doc = r[2]
      /\ \A e \in Device : \A r : QueuedOn(e, r) <=>
             \E i \in DOMAIN mutationQueue[e] : mutationQueue[e][i].op = r[1] /\ mutationQueue[e][i].doc = r[2]
  BY DEF QueuedOn
<1>12. \A doc : NotGiving(doc) => NotGiving(doc)'
  <2>1. \A e \in Device : \A r : QueuedOn(e, r)' => QueuedOn(e, r)
    BY <1>11, <1>15
  <2> QED
    BY <2>1 DEF NotGiving
<1>13. \A doc : m.op = "set" /\ doc = m.doc => NotGiving(doc)'
  <2> SUFFICES ASSUME m.op = "set", NEW e \in Device, NEW i \in DOMAIN mutationQueue'[e],
                      mutationQueue'[e][i].op = "set", mutationQueue'[e][i].doc = m.doc
               PROVE  FALSE
    BY <1>15 DEF NotGiving
  <2>1. PICK j \in DOMAIN mutationQueue[e] : /\ mutationQueue'[e][i] = mutationQueue[e][j]
                                             /\ e = d => j # 1
    BY <1>11
  <2>2. /\ mutationQueue[e][j].op = "set" /\ mutationQueue[e][j].doc = mutationQueue[d][1].doc
        /\ mutationQueue[d][1].op = "set" /\ 1 \in DOMAIN mutationQueue[d]
    BY <1>2, <2>1 DEF m, q
  <2>3. e = d /\ j = 1
    BY <2>2 DEF LedgerInv, SetsDistinct
  <2> QED
    BY <2>1, <2>3
<1> USE DEF q, m, b
<1>8. AnswersTrue'
  <2>1. mainQueue' = mainQueue \/ mainQueue' = [mainQueue EXCEPT ![d] = Append(mainQueue[d], b)]
    BY DEF NotifyUser
  <2>2. \A a : a = b => TrueAnswer(a)'
    <3>1. CouponWrite(m)
      BY <1>2 DEF TypeInv, CouponWrites
    <3>2. b.callback = m.callback /\ b.ok = ok /\ b.doc = m.doc
      OBVIOUS
    <3>3. NoCallback \notin {"redeemed", "gifted"}
      BY NoCallbackAssumption, WriteCallbackIsKind
    <3> QED
      BY <1>4, <1>7, <1>13, <3>1, <3>2, <3>3 DEF TrueAnswer, CouponWrite
  <2> HIDE DEF b
  <2>3. \A i \in DOMAIN Append(mainQueue[d], b) :
            \/ Append(mainQueue[d], b)[i] = b
            \/ i \in DOMAIN mainQueue[d] /\ Append(mainQueue[d], b)[i] = mainQueue[d][i]
    BY <1>1, AppendElement
  <2>4. \A a : TrueAnswer(a) => TrueAnswer(a)'
    BY <1>4, <1>12 DEF TrueAnswer
  <2>5. \A e \in Device : \A i \in DOMAIN mainQueue'[e] :
            \/ mainQueue'[e][i] = b
            \/ i \in DOMAIN mainQueue[e] /\ mainQueue'[e][i] = mainQueue[e][i]
    BY <2>1, <2>3 DEF TypeInv, TypeOK
  <2>6. \A e \in Device : \A i \in DOMAIN mainQueue[e] : TrueAnswer(mainQueue[e][i])
    BY DEF LedgerInv, AnswersTrue
  <2>7. \A e \in Device : \A i \in DOMAIN mainQueue'[e] : \A a : a = mainQueue'[e][i] => TrueAnswer(a)'
    BY <2>2, <2>4, <2>5, <2>6
  <2> QED
    BY <2>7 DEF AnswersTrue
<1>9. ToldIsTrue'
  BY <1>4 DEF LedgerInv, ToldIsTrue
<1>10. NothingLost'
  <2> SUFFICES ASSUME NEW r \in requested
               PROVE  Happened(r) \/ r \in refused' \/ \E e \in Device : QueuedOn(e, r)'
    BY <1>4 DEF NothingLost
  <2>1. Happened(r) \/ r \in refused' \/ \E e \in Device : QueuedOn(e, r)
    BY DEF LedgerInv, NothingLost
  <2>2. ASSUME NEW e \in Device, QueuedOn(e, r)
        PROVE  Happened(r) \/ r \in refused' \/ QueuedOn(e, r)'
    <3>1. PICK i \in DOMAIN mutationQueue[e] :
              mutationQueue[e][i].op = r[1] /\ mutationQueue[e][i].doc = r[2]
      BY <2>2 DEF QueuedOn
    <3>2. CASE e # d
      BY <1>3, <3>1, <3>2 DEF QueuedOn
    <3>3. CASE e = d /\ i # 1
      <4>1. i - 1 \in DOMAIN Tail(q) /\ Tail(q)[i - 1] = q[i]
        BY <1>2, <3>3
      <4> QED
        BY <1>3, <3>1, <3>3, <4>1 DEF QueuedOn
    <3>4. CASE e = d /\ i = 1
      <4>1. m.op = r[1] /\ m.doc = r[2]
        BY <1>2, <3>1, <3>4
      <4>2. r = <<r[1], r[2]>>
        BY DEF TypeInv, TypeOK, Request
      <4> HIDE DEF m
      <4> QED
        BY <1>7, <4>1, <4>2 DEF m
    <3> QED
      BY <3>2, <3>3, <3>4
  <2> QED
    BY <2>1, <2>2
<1>14. VersionsCount'
  BY DEF LedgerInv, VersionsCount, Counted
<1> QED
  BY <1>5, <1>6, <1>8, <1>9, <1>10, <1>14 DEF LedgerInv

LEMMA AnsweredLedger ==
    ASSUME TypeInv, LedgerInv, NEW d \in Device,
           \/ HandleSuccessfulWrite(d) /\ UNCHANGED historyVars
           \/ WriteRefused(d)
    PROVE  LedgerInv'
<1>1. CASE HandleSuccessfulWrite(d) /\ UNCHANGED historyVars
  BY <1>1, WriteLeaves DEF HandleSuccessfulWrite, Answered, serverVars, historyVars
<1>2. CASE WriteRefused(d)
  BY <1>2, WriteLeaves DEF WriteRefused, HandleRejectedWrite, serverVars
<1> QED
  BY <1>1, <1>2

\* What the server does when it makes a write: a redeem needs the coupon, and
\* what changes the coupon counts as a version.
Made(m) ==
    /\ server' \in [Doc -> Document]
    /\ m.doc \in Doc
    /\ m.op = "update" => server[m.doc].value # NoDocument
    /\ server'[m.doc].value = m.value
    /\ server'[m.doc].version = IF m.value = server[m.doc].value
                                THEN server[m.doc].version ELSE server[m.doc].version + 1
    /\ \A doc \in Doc \ {m.doc} : server'[doc] = server[doc]

LEMMA CommitMakes ==
    ASSUME TypeInv, NEW d \in Device, NEW i, WriteMade(d, i)
    PROVE  /\ CouponWrite(mutationQueue[d][i]) /\ Made(mutationQueue[d][i])
           /\ \A e \in Device : \A j \in DOMAIN mutationQueue[e] :
                  mutationQueue'[e][j].committed
                      => mutationQueue[e][j].committed \/ (e = d /\ j = i)
<1> DEFINE m == mutationQueue[d][i]
<1>1. CouponWrite(m)
  BY DEF TypeInv, CouponWrites, WriteMade
<1>2. PreconditionHolds(m, server[m.doc].value)
  BY DEF WriteMade
<1>3. /\ m.op = "update" => server[m.doc].value # NoDocument
      /\ ApplyMutation(m, server[m.doc].value) = m.value
  BY <1>2 DEF PreconditionHolds, ApplyMutation
<1>4. Made(m)
  BY <1>3 DEF WriteMade, Made
<1>5. \A e \in Device : \A j \in DOMAIN mutationQueue[e] :
          mutationQueue'[e][j].committed => mutationQueue[e][j].committed \/ (e = d /\ j = i)
  BY DEF WriteMade
<1> QED
  BY <1>1, <1>4, <1>5

\* What has happened has happened: a gift made again is a third change.
LEMMA MadeKeeps ==
    ASSUME TypeInv, LedgerInv, NEW m \in Mutation, CouponWrite(m), Made(m),
           m.op = "set" => <<"set", m.doc>> \in requested, requested' = requested
    PROVE  /\ Happened(<<m.op, m.doc>>)'
           /\ \A r \in Request : Happened(r) => Happened(r)'
           /\ VersionsCount'
<1> USE DEF Happened, OnServer, GivenBack, GivenAgain
<1>1. NoDocument \notin {"unredeemed", "redeemed"}
  BY NoDocumentAssumption, ValueIsRedeemed
<1>2. /\ m.doc \in Doc /\ server[m.doc].version \in Nat /\ Counted(m.doc)
      /\ server[m.doc].value \in {"unredeemed", "redeemed", NoDocument}
  BY ValueIsRedeemed
     DEF Made, TypeInv, TypeOK, FirestoreTypeOK, Document, Version, MaybeValue, LedgerInv, VersionsCount
<1> DEFINE old == server[m.doc].version
           new == server'[m.doc].version
<1>3. /\ server'[m.doc].value = m.value
      /\ m.value = server[m.doc].value => new = old
      /\ m.value # server[m.doc].value => new = old + 1
  BY DEF Made
<1>4. ASSUME m.op = "set"
      PROVE  /\ Counted(m.doc)' /\ Happened(<<"set", m.doc>>)'
             /\ Happened(<<"update", m.doc>>) => Happened(<<"update", m.doc>>)'
  <2>1. m.value = "unredeemed" /\ <<"set", m.doc>> \in requested
    BY <1>4 DEF CouponWrite
  <2>2. server[m.doc].value = "redeemed" => old >= 2 /\ new > 2
    BY <1>1, <1>2, <1>3, <2>1 DEF Counted
  <2>3. Counted(m.doc)'
    <3>1. server'[m.doc].value = "unredeemed" /\ requested' = requested
      BY <1>3, <2>1
    <3>2. new >= 1
      BY <1>1, <1>2, <1>3, <2>1 DEF Counted
    <3> QED
      BY <1>1, <3>1, <3>2 DEF Counted
  <2>4. Happened(<<"update", m.doc>>) => Happened(<<"update", m.doc>>)'
    BY <1>1, <1>2, <1>3, <2>1, <2>2
  <2>5. Happened(<<"set", m.doc>>)'
    BY <1>1, <1>3, <2>1
  <2> QED
    BY <1>4, <2>3, <2>4, <2>5
<1>5. ASSUME m.op = "update"
      PROVE  Counted(m.doc)' /\ Happened(<<"set", m.doc>>)' /\ Happened(<<"update", m.doc>>)'
  <2>1. m.value = "redeemed" /\ server[m.doc].value # NoDocument
    BY <1>5 DEF CouponWrite, Made
  <2>2. Counted(m.doc)'
    <3>1. server'[m.doc].value = "redeemed" /\ requested' = requested
      BY <1>3, <2>1
    <3>2. new >= 1 /\ (<<"set", m.doc>> \in requested => new >= 2)
      BY <1>1, <1>2, <1>3, <2>1 DEF Counted
    <3> QED
      BY <1>1, <3>1, <3>2 DEF Counted
  <2>3. Happened(<<"update", m.doc>>)' /\ Happened(<<"set", m.doc>>)'
    BY <1>1, <1>3, <2>1
  <2> QED
    BY <1>5, <2>2, <2>3
<1>6. Counted(m.doc)' /\ Happened(<<m.op, m.doc>>)'
  BY <1>4, <1>5 DEF CouponWrite
<1>7. \A r \in Request : Happened(r) => Happened(r)'
  <2> SUFFICES ASSUME NEW r \in Request, Happened(r) PROVE Happened(r)'
    OBVIOUS
  <2>1. r[1] \in {"set", "update"} /\ r[2] \in Doc /\ r = <<r[1], r[2]>>
    BY DEF Request
  <2>2. CASE r[2] # m.doc
    <3>1. server'[r[2]] = server[r[2]]
      BY <2>1, <2>2 DEF Made
    <3> QED
      BY <3>1
  <2>3. CASE r[2] = m.doc
    <3>1. /\ Happened(<<"update", m.doc>>) => Happened(<<"update", m.doc>>)'
          /\ Happened(<<"set", m.doc>>)'
      BY <1>4, <1>5 DEF CouponWrite
    <3> QED
      BY <2>1, <2>3, <3>1
  <2> QED
    BY <2>2, <2>3
<1>8. VersionsCount'
  <2> SUFFICES ASSUME NEW doc \in Doc PROVE Counted(doc)'
    BY DEF VersionsCount
  <2>1. CASE doc # m.doc
    <3>1. server'[doc] = server[doc] /\ Counted(doc)
      BY <2>1 DEF Made, LedgerInv, VersionsCount
    <3> QED
      BY <3>1 DEF Counted
  <2> QED
    BY <1>6, <2>1
<1> QED
  BY <1>6, <1>7, <1>8

LEMMA CommitLedger ==
    ASSUME TypeInv, LedgerInv, NEW d \in Device, Commit(d), UNCHANGED historyVars
    PROVE  LedgerInv'
<1>0. PICK i \in DOMAIN mutationQueue[d] : WriteMade(d, i)
  BY CommitMakesWrite DEF TypeInv, TypeOK
<1>1. PICK m : m = mutationQueue[d][i] /\ WriteMade(d, i)
  BY <1>0
<1>2. /\ m \in Mutation /\ CouponWrite(m) /\ Made(m)
      /\ \A e \in Device : \A j \in DOMAIN mutationQueue[e] :
             mutationQueue'[e][j].committed
                 => mutationQueue[e][j].committed \/ (e = d /\ j = i)
  <2>1. m \in Mutation
    BY <1>1 DEF WriteMade
  <2>2. /\ CouponWrite(mutationQueue[d][i]) /\ Made(mutationQueue[d][i])
        /\ \A e \in Device : \A j \in DOMAIN mutationQueue[e] :
               mutationQueue'[e][j].committed
                   => mutationQueue[e][j].committed \/ (e = d /\ j = i)
    BY <1>0, CommitMakes
  <2> QED
    BY <1>1, <2>1, <2>2
<1>3. UNCHANGED <<mainQueue, requested, refused, told>>
  BY DEF Commit, historyVars
<1>4. /\ Happened(<<m.op, m.doc>>)'
      /\ \A r \in Request : Happened(r) => Happened(r)'
      /\ VersionsCount'
  <2>1. m.op = "set" => <<"set", m.doc>> \in requested
    BY <1>1 DEF LedgerInv, QueuesWell, WellQueued
  <2> QED
    BY <1>2, <1>3, <2>1, MadeKeeps
<1>5. /\ \A e \in Device : DOMAIN mutationQueue'[e] = DOMAIN mutationQueue[e]
      /\ \A e \in Device : \A j \in DOMAIN mutationQueue[e] :
             /\ mutationQueue'[e][j].op = mutationQueue[e][j].op
             /\ mutationQueue'[e][j].doc = mutationQueue[e][j].doc
  BY <1>1 DEF WriteMade
<1>6. \A e \in Device : \A j \in DOMAIN mutationQueue[e] :
            <<mutationQueue[e][j].op, mutationQueue[e][j].doc>> \in Request
  <2> TAKE e \in Device
  <2> TAKE j \in DOMAIN mutationQueue[e]
  <2>1. mutationQueue[e][j] \in Mutation
    BY ElementOfSeq, LenProperties DEF TypeInv, TypeOK, FirestoreTypeOK
  <2>2. CouponWrite(mutationQueue[e][j])
    BY DEF TypeInv, CouponWrites
  <2> QED
    BY <2>1, <2>2 DEF CouponWrite, Mutation, Request
<1>7. QueuesWell'
  <2> SUFFICES ASSUME NEW e \in Device, NEW j \in DOMAIN mutationQueue[e], NEW w, NEW v,
                      w = mutationQueue[e][j], v = mutationQueue'[e][j]
               PROVE  WellQueued(v)'
    BY <1>5 DEF QueuesWell
  <2>1. /\ v.op = w.op /\ v.doc = w.doc /\ WellQueued(w)
        /\ v.committed => w.committed \/ (e = d /\ j = i)
    BY <1>2, <1>5 DEF LedgerInv, QueuesWell
  <2>2. v.committed => Happened(<<w.op, w.doc>>)'
    <3>1. CASE w.committed
      BY <1>4, <1>6, <2>1, <3>1 DEF WellQueued
    <3>2. CASE e = d /\ j = i
      BY <1>1, <1>4, <2>1, <3>2
    <3> QED
      BY <2>1, <3>1, <3>2
  <2> QED
    BY <1>3, <2>1, <2>2 DEF WellQueued
<1>8. SetsDistinct'
  BY <1>5 DEF LedgerInv, SetsDistinct
<1>9. \A e \in Device : \A r : QueuedOn(e, r) <=> QueuedOn(e, r)'
  BY <1>5 DEF QueuedOn
<1>10. AnswersTrue'
  <2>1. \A e \in Device : \A j \in DOMAIN mainQueue[e] : mainQueue[e][j] \in Block
    BY ElementOfSeq, LenProperties DEF TypeInv, TypeOK
  <2>2. \A b \in Block : b.callback \in {"redeemed", "gifted"} => b.doc \in Doc
    <3>1. NoCallback \notin {"redeemed", "gifted"}
      BY NoCallbackAssumption, WriteCallbackIsKind
    <3> QED
      BY <3>1 DEF Block, WriteResult, QueryResult, SpinnerBlock
  <2>3. \A b \in Block : TrueAnswer(b) => TrueAnswer(b)'
    <3> SUFFICES ASSUME NEW b \in Block, TrueAnswer(b) PROVE TrueAnswer(b)'
      OBVIOUS
    <3>1. b.callback \in {"redeemed", "gifted"} =>
            <<"update", b.doc>> \in Request /\ <<"set", b.doc>> \in Request
      BY <2>2 DEF Request
    <3>2. \A doc : NotGiving(doc) => NotGiving(doc)'
      BY <1>9 DEF NotGiving
    <3> QED
      BY <1>4, <3>1, <3>2 DEF TrueAnswer
  <2> QED
    BY <1>3, <2>1, <2>3 DEF LedgerInv, AnswersTrue
<1>11. ToldIsTrue'
  BY <1>3, <1>4 DEF TypeInv, TypeOK, LedgerInv, ToldIsTrue
<1>12. NothingLost'
  BY <1>3, <1>4, <1>9 DEF TypeInv, TypeOK, LedgerInv, NothingLost
<1> QED
  BY <1>4, <1>7, <1>8, <1>10, <1>11, <1>12 DEF LedgerInv

(***************************************************************************)
(* The theorems.                                                           *)
(***************************************************************************)
LEMMA StepCases ==
    ASSUME Next
    PROVE  \E d \in Device :
            \/ Quiet(d)
            \/ \E id \in DocId : RedeemTapped(d, id) \/ SubmitTapped(d, id)
            \/ RedeemCouponCompleted(d) \/ GiftCouponCompleted(d)
            \/ Commit(d) /\ UNCHANGED historyVars
            \/ HandleSuccessfulWrite(d) /\ UNCHANGED historyVars
            \/ WriteRefused(d)
  BY DEF Next, Touch, MainBlock, ClientEvent, Quiet

LEMMA LedgerStep == TypeInv /\ LedgerInv /\ [Next]_vars => LedgerInv'
<1> SUFFICES ASSUME TypeInv, LedgerInv, [Next]_vars PROVE LedgerInv'
  OBVIOUS
<1>1. CASE Next
  BY <1>1, StepCases, QuietActions, TappedLedger, RedeemCouponCompletedLedger,
     GiftCouponCompletedLedger, CommitLedger, AnsweredLedger
<1>2. CASE UNCHANGED vars
  BY <1>2, QuietStep, UnchangedQueues DEF vars, firestoreVars, serverVars, clientVars, historyVars
<1> QED
  BY <1>1, <1>2

LEMMA LedgerInvariant == Spec => [](TypeInv /\ LedgerInv)
<1>1. Init => TypeInv /\ LedgerInv
  BY TypeInit, LedgerInvInit
<1>2. (TypeInv /\ LedgerInv) /\ [Next]_vars => (TypeInv /\ LedgerInv)'
  BY TypeStep, LedgerStep
<1> QED
  BY <1>1, <1>2, PTL DEF Spec

\* Whatever is killed, disconnected, closed or swiped away, and however often
\* a write is made again: what was asked for has been made, or is queued on a
\* device, or was refused.
THEOREM RequestsAreKept == Spec => []NothingLost
<1>1. TypeInv /\ LedgerInv => NothingLost
  BY DEF LedgerInv
<1> QED
  BY <1>1, LedgerInvariant, PTL

\* Success is told only of what the server has made, and only a gift made
\* again takes a redeem back that was told.
THEOREM SuccessIsTrue == Spec => []ToldIsTrue
<1>1. TypeInv /\ LedgerInv => ToldIsTrue
  BY DEF LedgerInv
<1> QED
  BY <1>1, LedgerInvariant, PTL

(***************************************************************************)
(* The refinement: what the ledger says of a coupon, and who gives it.     *)
(* Commit is Give, GiveBack or Redeem; a tap on Submit is Offer; a gift    *)
(* that leaves its queue is Settle; a completion that succeeds is HearGiven*)
(* or HearRedeemed; every other step is a stutter.                         *)
(***************************************************************************)
Entry(doc) == IF GivenBack(doc) THEN "givenBack" ELSE server[doc].value
Giving == {doc \in Doc : \E d \in Device : QueuedOn(d, <<"set", doc>>)}

LEMMA LedgerIs ==
    /\ Ledger!LedgerInit <=>
           /\ [doc \in Doc |-> Entry(doc)] \in [Doc -> {NoDocument, "unredeemed", "redeemed"}]
           /\ Giving = {} /\ told = {}
    /\ (UNCHANGED Ledger!ledgerVars) <=>
           /\ [doc \in Doc |-> Entry(doc)]' = [doc \in Doc |-> Entry(doc)]
           /\ Giving' = Giving /\ told' = told
  BY DEF Ledger!LedgerInit, Ledger!ledgerVars, Entry, Giving

LEMMA LedgerStarts == Init => Ledger!LedgerInit
<1> SUFFICES ASSUME Init PROVE Ledger!LedgerInit
  OBVIOUS
<1>1. \A doc \in Doc : server[doc] \in {Missing} \cup [value: Value, version: {1}]
  BY DEF Init, FirestoreInit
<1>2. \A doc \in Doc : Entry(doc) \in {NoDocument, "unredeemed", "redeemed"}
  BY <1>1, ValueIsRedeemed, NoDocumentAssumption DEF Entry, GivenBack, GivenAgain, Missing
<1>3. \A d \in Device : \A r : ~QueuedOn(d, r)
  BY DEF Init, FirestoreInit, QueuedOn
<1>4. Giving = {} /\ told = {}
  BY <1>3 DEF Init, Giving
<1> QED
  BY <1>2, <1>4, LedgerIs

\* The ledger reads the server; who gives is read from the queues.
LEMMA EntriesKept ==
    ASSUME server' = server
    PROVE  [doc \in Doc |-> Entry(doc)]' = [doc \in Doc |-> Entry(doc)]
  BY DEF Entry, GivenBack, GivenAgain

LEMMA SameWritesGive ==
    ASSUME SameWrites
    PROVE  Giving' = Giving
<1>1. \A d \in Device : \A r : QueuedOn(d, r) <=> QueuedOn(d, r)'
  BY DEF QueuedOn, SameWrites
<1> QED
  BY <1>1 DEF Giving

LEMMA LedgerStutters ==
    ASSUME UNCHANGED <<server, told>>, SameWrites
    PROVE  UNCHANGED Ledger!ledgerVars
  BY EntriesKept, SameWritesGive, LedgerIs

LEMMA EntryChanges ==
    ASSUME NEW c \in Doc, \A doc \in Doc \ {c} : server'[doc] = server[doc]
    PROVE  [doc \in Doc |-> Entry(doc)]' = [[doc \in Doc |-> Entry(doc)] EXCEPT ![c] = Entry(c)']
<1>1. \A doc \in Doc \ {c} : Entry(doc)' = Entry(doc)
  BY DEF Entry, GivenBack, GivenAgain
<1> QED
  BY <1>1

LEMMA CommitRefines ==
    ASSUME TypeInv, LedgerInv, NEW d \in Device, Commit(d), UNCHANGED historyVars
    PROVE  [Ledger!LedgerNext]_(Ledger!ledgerVars)
<1>0. PICK i \in DOMAIN mutationQueue[d] : WriteMade(d, i)
  BY CommitMakesWrite DEF TypeInv, TypeOK
<1>1. PICK m : m = mutationQueue[d][i] /\ CouponWrite(m) /\ Made(m)
  BY <1>0, CommitMakes
<1>2. PICK c \in Doc : c = m.doc
  BY <1>1 DEF Made
<1>3. Giving' = Giving /\ told' = told
  <2>1. /\ \A e \in Device : DOMAIN mutationQueue'[e] = DOMAIN mutationQueue[e]
        /\ \A e \in Device : \A j \in DOMAIN mutationQueue[e] :
               /\ mutationQueue'[e][j].op = mutationQueue[e][j].op
               /\ mutationQueue'[e][j].doc = mutationQueue[e][j].doc
    BY <1>0 DEF WriteMade
  <2>2. \A e \in Device : \A r : QueuedOn(e, r) <=> QueuedOn(e, r)'
    BY <2>1 DEF QueuedOn
  <2> QED
    BY <2>2 DEF Giving, historyVars
<1>4. [doc \in Doc |-> Entry(doc)]' = [[doc \in Doc |-> Entry(doc)] EXCEPT ![c] = Entry(c)']
  BY <1>1, <1>2, EntryChanges DEF Made
<1>5. NoDocument \notin {"unredeemed", "redeemed", "givenBack"}
  BY NoDocumentAssumption, ValueIsRedeemed, NoDocumentIsNotGivenBack
<1>6. /\ server[c].version \in Nat /\ Counted(c)
      /\ server[c].value \in {"unredeemed", "redeemed", NoDocument}
  BY ValueIsRedeemed
     DEF TypeInv, TypeOK, FirestoreTypeOK, Document, Version, MaybeValue, LedgerInv, VersionsCount
<1>7. /\ server'[c].value = m.value
      /\ m.value = server[c].value => server'[c].version = server[c].version
      /\ m.value # server[c].value => server'[c].version = server[c].version + 1
  BY <1>1, <1>2 DEF Made
<1>8. ASSUME Entry(c)' = Entry(c) PROVE UNCHANGED Ledger!ledgerVars
  BY <1>3, <1>4, <1>8, LedgerIs
<1>9. CASE m.op = "set"
  <2>1. m.value = "unredeemed" /\ c \in Giving /\ <<"set", c>> \in requested
    <3>1. m.value = "unredeemed"
      BY <1>1, <1>9 DEF CouponWrite
    <3>2. QueuedOn(d, <<"set", c>>)
      BY <1>1, <1>2, <1>9 DEF QueuedOn
    <3>3. <<"set", c>> \in requested
      BY <1>1, <1>2, <1>9 DEF LedgerInv, QueuesWell, WellQueued
    <3> QED
      BY <3>1, <3>2, <3>3 DEF Giving
  <2>2. CASE server[c].value = NoDocument
    <3>1. server[c].version = 0
      BY <1>6, <2>2 DEF Counted
    <3>2. Entry(c) = NoDocument /\ Entry(c)' = "unredeemed"
      BY <1>5, <1>7, <2>1, <2>2, <3>1 DEF Entry, GivenBack, GivenAgain
    <3>3. Ledger!Give(c)
      BY <1>3, <1>4, <2>1, <3>2 DEF Ledger!Give, Entry, Giving
    <3> QED
      BY <3>3 DEF Ledger!LedgerNext
  <2>3. CASE server[c].value = "redeemed"
    <3>1. server'[c].version > 2
      BY <1>6, <1>7, <2>1, <2>3 DEF Counted
    <3>2. Entry(c) = "redeemed" /\ Entry(c)' = "givenBack"
      BY <1>7, <2>1, <2>3, <3>1 DEF Entry, GivenBack, GivenAgain
    <3>3. Ledger!GiveBack(c)
      BY <1>3, <1>4, <2>1, <3>2 DEF Ledger!GiveBack, Entry, Giving
    <3> QED
      BY <3>3 DEF Ledger!LedgerNext
  <2>4. CASE server[c].value = "unredeemed"
    <3>1. Entry(c)' = Entry(c)
      BY <1>7, <2>1, <2>4 DEF Entry, GivenBack, GivenAgain
    <3> QED
      BY <1>8, <3>1
  <2> QED
    BY <1>6, <2>2, <2>3, <2>4
<1>10. CASE m.op = "update"
  <2>1. m.value = "redeemed" /\ server[c].value # NoDocument
    BY <1>1, <1>2, <1>10 DEF CouponWrite, Made
  <2>2. Entry(c)' = "redeemed"
    BY <1>7, <2>1 DEF Entry, GivenBack, GivenAgain
  <2>3. CASE server[c].value = "unredeemed"
    <3>1. Entry(c) \in {"unredeemed", "givenBack"}
      BY <2>3 DEF Entry
    <3>2. Ledger!Redeem(c)
      BY <1>3, <1>4, <2>2, <3>1 DEF Ledger!Redeem, Entry, Giving
    <3> QED
      BY <3>2 DEF Ledger!LedgerNext
  <2>4. CASE server[c].value = "redeemed"
    <3>1. Entry(c) = "redeemed"
      BY <2>4 DEF Entry, GivenBack
    <3> QED
      BY <1>8, <2>2, <3>1
  <2> QED
    BY <1>6, <2>1, <2>3, <2>4
<1> QED
  BY <1>1, <1>9, <1>10 DEF CouponWrite

\* A gift that is asked for is offered, one that leaves its queue is settled.
LEMMA TappedRefines ==
    ASSUME TypeInv, LedgerInv, NEW d \in Device, NEW id \in DocId,
           RedeemTapped(d, id) \/ SubmitTapped(d, id)
    PROVE  [Ledger!LedgerNext]_(Ledger!ledgerVars)
<1>1. ASSUME NEW op, NEW doc, NEW value, NEW callback, WriteMutation(d, op, doc, value, callback)
      PROVE  \A e \in Device : \A r \in Request : QueuedOn(e, r)' <=>
                QueuedOn(e, r) \/ (e = d /\ r = <<op, doc>>)
  <2> DEFINE q == mutationQueue[d]
             m == NewMutation(op, doc, value, callback)
  <2>1. q \in Seq(Mutation \cup {m}) /\ DOMAIN q = 1..Len(q) /\ Len(q) \in Nat
    BY SeqMonotonic, LenProperties DEF TypeInv, TypeOK, FirestoreTypeOK
  <2>2. /\ mutationQueue'[d] = Append(q, m)
        /\ \A e \in Device \ {d} : mutationQueue'[e] = mutationQueue[e]
    BY <1>1 DEF WriteMutation, TypeInv, TypeOK, FirestoreTypeOK
  <2>3. m.op = op /\ m.doc = doc
    BY DEF NewMutation
  <2> HIDE DEF m
  <2>4. /\ DOMAIN Append(q, m) = 1..(Len(q) + 1) /\ Append(q, m)[Len(q) + 1] = m
        /\ \A i \in DOMAIN q : Append(q, m)[i] = q[i]
    BY <2>1, AppendProperties, LenProperties
  <2> SUFFICES ASSUME NEW e \in Device, NEW r \in Request
               PROVE  QueuedOn(e, r)' <=> QueuedOn(e, r) \/ (e = d /\ r = <<op, doc>>)
    OBVIOUS
  <2>5. r = <<op, doc>> <=> r[1] = op /\ r[2] = doc
    BY DEF Request
  <2>6. CASE e = d
    <3>1. \A i \in 1..(Len(q) + 1) : i \in DOMAIN q \/ i = Len(q) + 1
      BY <2>1
    <3>2. DOMAIN q \subseteq 1..(Len(q) + 1) /\ Len(q) + 1 \in 1..(Len(q) + 1)
      BY <2>1
    <3> HIDE DEF q
    <3>3. QueuedOn(e, r)' <=> \E i \in 1..(Len(q) + 1) :
                Append(q, m)[i].op = r[1] /\ Append(q, m)[i].doc = r[2]
      BY <2>2, <2>4, <2>6 DEF QueuedOn
    <3>4. QueuedOn(e, r) <=> \E i \in DOMAIN q : q[i].op = r[1] /\ q[i].doc = r[2]
      BY <2>6 DEF QueuedOn, q
    <3> QED
      BY <2>3, <2>4, <2>5, <2>6, <3>1, <3>2, <3>3, <3>4
  <2>7. CASE e # d
    BY <2>2, <2>7 DEF QueuedOn
  <2> QED
    BY <2>6, <2>7
<1>2. \A doc \in Doc : <<"set", doc>> \in Request
  BY DEF Request
<1>3. UNCHANGED <<server, told>>
  BY DEF RedeemTapped, SubmitTapped, serverVars
<1>4. CASE RedeemTapped(d, id)
  <2>1. Giving' = Giving
    <3>1. WriteMutation(d, "update", <<screen[d], id>>, "redeemed", "redeemed")
      BY <1>4 DEF RedeemTapped
    <3>2. \A e \in Device : \A r \in Request : r[1] = "set" => (QueuedOn(e, r)' <=> QueuedOn(e, r))
      BY <1>1, <3>1
    <3> QED
      BY <1>2, <3>2 DEF Giving
  <2> QED
    BY <1>3, <2>1, EntriesKept, LedgerIs
<1>5. CASE SubmitTapped(d, id)
  <2>1. PICK c : c = <<Other(screen[d]), id>>
    OBVIOUS
  <2>2. /\ WriteMutation(d, "set", c, "unredeemed", "gifted")
        /\ server[c] = Missing /\ c \in Doc
    BY <1>5, <2>1, CollectionIsWho DEF SubmitTapped, IsUUID, Other, Who, Doc
  <2>3. \A e \in Device : \A r \in Request : QueuedOn(e, r)' <=>
                QueuedOn(e, r) \/ (e = d /\ r = <<"set", c>>)
    BY <1>1, <2>2
  <2>4. Giving' = Giving \cup {c}
    BY <1>2, <2>2, <2>3 DEF Giving
  <2>5. Entry(c) = NoDocument
    BY <2>2, NoDocumentAssumption, ValueIsRedeemed DEF Missing, Entry, GivenBack, GivenAgain
  <2>6. Ledger!Offer(c)
    BY <1>3, <2>2, <2>4, <2>5, EntriesKept DEF Ledger!Offer, Entry, Giving
  <2> QED
    BY <2>2, <2>6 DEF Ledger!LedgerNext
<1> QED
  BY <1>4, <1>5

LEMMA LeavingRefines ==
    ASSUME TypeInv, LedgerInv, NEW d \in Device,
           \/ HandleSuccessfulWrite(d) /\ UNCHANGED historyVars
           \/ WriteRefused(d)
    PROVE  [Ledger!LedgerNext]_(Ledger!ledgerVars)
<1>1. /\ mutationQueue[d] # <<>> /\ mutationQueue' = [mutationQueue EXCEPT ![d] = Tail(@)]
      /\ UNCHANGED <<server, told>>
  BY DEF HandleSuccessfulWrite, WriteRefused, HandleRejectedWrite, serverVars, historyVars
<1>2. PICK m : m = Head(mutationQueue[d])
  OBVIOUS
<1>3. /\ 1 \in DOMAIN mutationQueue[d] /\ m = mutationQueue[d][1]
      /\ \A e \in Device : \A i \in DOMAIN mutationQueue'[e] :
           \E j \in DOMAIN mutationQueue[e] : /\ mutationQueue'[e][i] = mutationQueue[e][j]
                                              /\ e = d => j # 1
      /\ \A e \in Device : \A j \in DOMAIN mutationQueue[e] :
           (e = d => j # 1) =>
               \E i \in DOMAIN mutationQueue'[e] : mutationQueue'[e][i] = mutationQueue[e][j]
  BY <1>1, <1>2, OthersStay
<1>4. CouponWrite(m) /\ m.doc \in Doc
  <2>1. CouponWrite(m)
    BY <1>3 DEF TypeInv, CouponWrites
  <2>2. m \in Mutation
    BY <1>3, ElementOfSeq, LenProperties DEF TypeInv, TypeOK, FirestoreTypeOK
  <2> QED
    BY <2>1, <2>2 DEF Mutation
<1> DEFINE Sets(e, doc) == \E i \in DOMAIN mutationQueue[e] :
                mutationQueue[e][i].op = "set" /\ mutationQueue[e][i].doc = doc
<1>5. /\ Giving = {doc \in Doc : \E e \in Device : Sets(e, doc)}
      /\ Giving' = {doc \in Doc : \E e \in Device : Sets(e, doc)'}
  BY DEF Giving, QueuedOn
<1>6. \A e \in Device, doc \in Doc : Sets(e, doc)' => Sets(e, doc)
  BY <1>3
<1>7. \A e \in Device, doc \in Doc : Sets(e, doc) => Sets(e, doc)' \/ (m.op = "set" /\ m.doc = doc)
  <2> SUFFICES ASSUME NEW e \in Device, NEW doc \in Doc, NEW j \in DOMAIN mutationQueue[e],
                      mutationQueue[e][j].op = "set", mutationQueue[e][j].doc = doc
               PROVE  Sets(e, doc)' \/ (m.op = "set" /\ m.doc = doc)
    OBVIOUS
  <2>1. CASE e = d => j # 1
    BY <1>3, <2>1
  <2>2. CASE e = d /\ j = 1
    BY <1>3, <2>2
  <2> QED
    BY <2>1, <2>2
<1>8. m.op = "set" => \A e \in Device : ~Sets(e, m.doc)'
  <2> SUFFICES ASSUME m.op = "set", NEW e \in Device, NEW i \in DOMAIN mutationQueue'[e],
                      mutationQueue'[e][i].op = "set", mutationQueue'[e][i].doc = m.doc
               PROVE  FALSE
    OBVIOUS
  <2>1. PICK j \in DOMAIN mutationQueue[e] : /\ mutationQueue'[e][i] = mutationQueue[e][j]
                                             /\ e = d => j # 1
    BY <1>3
  <2>2. e = d /\ j = 1
    BY <1>3, <2>1 DEF LedgerInv, SetsDistinct
  <2> QED
    BY <2>1, <2>2
<1>9. CASE m.op = "set"
  <2>1. Giving' = Giving \ {m.doc}
    BY <1>5, <1>6, <1>7, <1>8, <1>9
  <2>2. Ledger!Settle(m.doc)
    BY <1>1, <2>1, EntriesKept DEF Ledger!Settle, Entry, Giving
  <2> QED
    BY <1>4, <2>2 DEF Ledger!LedgerNext
<1>10. CASE m.op # "set"
  <2>1. Giving' = Giving
    BY <1>5, <1>6, <1>7, <1>10
  <2> QED
    BY <1>1, <2>1, EntriesKept, LedgerIs
<1> QED
  BY <1>9, <1>10

LEMMA HearingRefines ==
    ASSUME TypeInv, LedgerInv, NEW d \in Device,
           RedeemCouponCompleted(d) \/ GiftCouponCompleted(d)
    PROVE  [Ledger!LedgerNext]_(Ledger!ledgerVars)
<1> DEFINE b == Head(mainQueue[d])
<1>1. UNCHANGED server /\ Giving' = Giving
  <2>1. UNCHANGED server /\ SameWrites
    BY CompletionKeeps
  <2> QED
    BY <2>1, SameWritesGive
<1>2. b \in Block
  <2>1. mainQueue[d] \in Seq(Block) /\ mainQueue[d] # <<>>
    BY DEF TypeInv, TypeOK, RedeemCouponCompleted, GiftCouponCompleted, Front
  <2> QED
    BY <2>1, TailElement, ElementOfSeq, LenProperties
<1>3. b.callback \in {"redeemed", "gifted"} => b.doc \in Doc
  <2>1. NoCallback \notin {"redeemed", "gifted"}
    BY NoCallbackAssumption, WriteCallbackIsKind
  <2> QED
    BY <1>2, <2>1 DEF Block, WriteResult, QueryResult, SpinnerBlock
<1>4. CASE RedeemCouponCompleted(d) /\ b.ok /\ RedeemSucceeded(d, b.doc)
  <2>1. Front(d, "redeemed") /\ told' = told \cup {<<"update", b.doc>>}
    BY <1>4 DEF RedeemCouponCompleted, RedeemSucceeded
  <2>2. b.doc \in Doc /\ Happened(<<"update", b.doc>>)
    BY <1>3, <1>4, <2>1, FrontAnswer DEF Front
  <2>3. PICK c \in Doc : c = b.doc
    BY <2>2
  <2> HIDE DEF b
  <2>4. Entry(c) \in {"redeemed", "givenBack"}
    BY <2>2, <2>3 DEF Happened, OnServer, Entry, GivenBack
  <2>5. Ledger!HearRedeemed(c)
    BY <1>1, <2>1, <2>3, <2>4, EntriesKept DEF Ledger!HearRedeemed, Entry, Giving
  <2> QED
    BY <2>5 DEF Ledger!LedgerNext
<1>5. CASE GiftCouponCompleted(d) /\ b.ok /\ GiftSucceeded(d, b.doc)
  <2>1. Front(d, "gifted") /\ told' = told \cup {<<"set", b.doc>>}
    BY <1>5 DEF GiftCouponCompleted, GiftSucceeded
  <2>2. b.doc \in Doc /\ Happened(<<"set", b.doc>>) /\ NotGiving(b.doc)
    BY <1>3, <1>5, <2>1, FrontAnswer DEF Front
  <2>3. PICK c \in Doc : c = b.doc
    BY <2>2
  <2> HIDE DEF b
  <2>4. c \notin Giving
    BY <2>2, <2>3 DEF NotGiving, Giving
  <2>5. Entry(c) # NoDocument
    BY <2>2, <2>3, NoDocumentIsNotGivenBack DEF Happened, OnServer, Entry
  <2>6. Ledger!HearGiven(c)
    BY <1>1, <2>1, <2>3, <2>4, <2>5, EntriesKept DEF Ledger!HearGiven, Entry, Giving
  <2> QED
    BY <2>6 DEF Ledger!LedgerNext
<1>6. CASE RedeemFailed(d) \/ GiftFailed(d)
  <2>1. UNCHANGED told
    BY <1>6 DEF RedeemFailed, GiftFailed
  <2> QED
    BY <1>1, <2>1, EntriesKept, LedgerIs
<1> QED
  BY <1>4, <1>5, <1>6 DEF RedeemCouponCompleted, GiftCouponCompleted

LEMMA StepRefines ==
    TypeInv /\ LedgerInv /\ [Next]_vars => [Ledger!LedgerNext]_(Ledger!ledgerVars)
<1> SUFFICES ASSUME TypeInv, LedgerInv, [Next]_vars
             PROVE  [Ledger!LedgerNext]_(Ledger!ledgerVars)
  OBVIOUS
<1>1. ASSUME NEW d \in Device, Quiet(d) PROVE UNCHANGED Ledger!ledgerVars
  BY <1>1, QuietActionsDo, LedgerStutters
<1>2. CASE Next
  BY <1>1, <1>2, StepCases, TappedRefines, CommitRefines, LeavingRefines, HearingRefines
<1>3. CASE UNCHANGED vars
  BY <1>3, LedgerStutters, UnchangedQueues
     DEF vars, firestoreVars, serverVars, clientVars, historyVars
<1> QED
  BY <1>2, <1>3

\* Phones, clients and server together keep the promise of CouponLedger: a
\* coupon is given by whoever goes on giving it until he is heard, and from
\* then on is redeemed at most once and for ever; what is told is true.
THEOREM CouponsImplementLedger == Spec => LedgerSpec
<1>1. Init => Ledger!LedgerInit
  BY LedgerStarts
<1>2. TypeInv /\ LedgerInv /\ [Next]_vars => [Ledger!LedgerNext]_(Ledger!ledgerVars)
  BY StepRefines
<1> QED
  BY <1>1, <1>2, LedgerInvariant, PTL DEF Spec, LedgerSpec, Ledger!LedgerSpec


(***************************************************************************)
(* Counting.  How many of the first p elements of a queue are in S, and    *)
(* what becomes of that number when the queue grows, shrinks or is mapped. *)
(***************************************************************************)
CountTo(q, S, p) == Cardinality({i \in DOMAIN q : i <= p /\ q[i] \in S})
One(e, S) == IF e \in S THEN 1 ELSE 0

LEMMA CountToType ==
    ASSUME NEW B, NEW q \in Seq(B), NEW S, NEW p \in Nat
    PROVE  /\ IsFiniteSet({i \in DOMAIN q : i <= p /\ q[i] \in S})
           /\ CountTo(q, S, p) \in Nat
           /\ CountTo(q, S, 0) = 0
<1> DEFINE C == {i \in DOMAIN q : i <= p /\ q[i] \in S}
<1>1. Len(q) \in Nat /\ DOMAIN q = 1..Len(q)
  BY LenProperties
<1>2. IsFiniteSet(1..Len(q)) /\ C \in SUBSET (1..Len(q))
  BY <1>1, FS_Interval
<1>3. IsFiniteSet(C)
  <2> HIDE DEF C
  <2> QED
    BY <1>2, FS_Subset
<1>4. Cardinality(C) \in Nat
  BY <1>3, FS_CardinalityType
<1>5. {i \in DOMAIN q : i <= 0 /\ q[i] \in S} = {}
  BY <1>1
<1> QED
  BY <1>3, <1>4, <1>5, FS_EmptySet DEF CountTo

LEMMA CountSame ==
    ASSUME NEW q, NEW r, NEW S, NEW p, DOMAIN q = DOMAIN r,
           \A i \in DOMAIN q : q[i] \in S <=> r[i] \in S
    PROVE  CountTo(q, S, p) = CountTo(r, S, p)
<1>1. {i \in DOMAIN q : i <= p /\ q[i] \in S} = {i \in DOMAIN r : i <= p /\ r[i] \in S}
  OBVIOUS
<1> QED
  BY <1>1 DEF CountTo

LEMMA CountNone ==
    ASSUME NEW q, NEW S, NEW p, \A i \in DOMAIN q : q[i] \notin S
    PROVE  CountTo(q, S, p) = 0
<1>1. {i \in DOMAIN q : i <= p /\ q[i] \in S} = {}
  OBVIOUS
<1> QED
  BY <1>1, FS_EmptySet DEF CountTo

LEMMA CountAppend ==
    ASSUME NEW B, NEW q \in Seq(B), NEW b \in B, NEW S
    PROVE  /\ \A p \in 0..Len(q) : CountTo(Append(q, b), S, p) = CountTo(q, S, p)
           /\ CountTo(Append(q, b), S, Len(q) + 1) = CountTo(q, S, Len(q)) + One(b, S)
<1> DEFINE a == Append(q, b)
           C == {i \in DOMAIN q : i <= Len(q) /\ q[i] \in S}
           D == {i \in DOMAIN a : i <= Len(q) + 1 /\ a[i] \in S}
<1>1. Len(q) \in Nat /\ DOMAIN q = 1..Len(q)
  BY LenProperties
<1>2. /\ a \in Seq(B) /\ DOMAIN a = 1..(Len(q) + 1) /\ a[Len(q) + 1] = b
      /\ \A i \in 1..Len(q) : a[i] = q[i]
  BY AppendProperties, LenProperties
<1> HIDE DEF a
<1>3. \A p \in 0..Len(q) : CountTo(a, S, p) = CountTo(q, S, p)
  <2> TAKE p \in 0..Len(q)
  <2>1. {i \in DOMAIN q : i <= p /\ q[i] \in S} = {i \in DOMAIN a : i <= p /\ a[i] \in S}
    BY <1>1, <1>2
  <2> QED
    BY <2>1 DEF CountTo
<1>4. D = IF b \in S THEN C \cup {Len(q) + 1} ELSE C
  BY <1>1, <1>2
<1>5. IsFiniteSet(C) /\ Len(q) + 1 \notin C
  <2>1. IsFiniteSet(C)
    BY <1>1, CountToType
  <2> QED
    BY <1>1, <2>1
<1>6. Cardinality(D) = Cardinality(C) + One(b, S)
  <2> HIDE DEF C, D
  <2>1. Cardinality(C) \in Nat
    BY <1>5, FS_CardinalityType
  <2>2. Cardinality(C \cup {Len(q) + 1}) = Cardinality(C) + 1
    BY <1>5, FS_AddElement
  <2> QED
    BY <1>4, <2>1, <2>2 DEF One
<1> QED
  BY <1>3, <1>6 DEF CountTo, a

LEMMA CountTail ==
    ASSUME NEW B, NEW q \in Seq(B), q # <<>>, NEW S, NEW p \in Nat
    PROVE  CountTo(q, S, p + 1) = CountTo(Tail(q), S, p) + One(Head(q), S)
<1> DEFINE t == Tail(q)
           C == {i \in DOMAIN t : i <= p /\ t[i] \in S}
           D == {i \in DOMAIN q : i <= p + 1 /\ q[i] \in S}
           R == D \ {1}
<1>1. /\ Len(q) \in Nat \ {0} /\ DOMAIN q = 1..Len(q) /\ Head(q) = q[1]
      /\ t \in Seq(B) /\ DOMAIN t = 1..(Len(q) - 1)
      /\ \A i \in 1..(Len(q) - 1) : t[i] = q[i + 1]
  BY HeadTailProperties, LenProperties, EmptySeq
<1> HIDE DEF t
<1>2. IsFiniteSet(C) /\ IsFiniteSet(D)
  <2> t \in Seq(B)
    BY <1>1
  <2>1. IsFiniteSet(C)
    BY CountToType
  <2>2. p + 1 \in Nat
    OBVIOUS
  <2>3. IsFiniteSet(D)
    BY <2>2, CountToType
  <2> QED
    BY <2>1, <2>3
<1> DEFINE f == [i \in C |-> i + 1]
<1>3. f \in Bijection(C, R)
  <2>1. \A i \in C : i \in Nat /\ i + 1 \in R
    BY <1>1
  <2>2. \A j \in R : j - 1 \in C /\ f[j - 1] = j
    BY <1>1
  <2>3. \A i, j \in C : f[i] = f[j] => i = j
    BY <2>1
  <2> HIDE DEF C, D
  <2>4. f \in [C -> R]
    BY <2>1
  <2>5. \A j \in R : \E i \in C : f[i] = j
    BY <2>2
  <2> HIDE DEF f, R
  <2>6. f \in Injection(C, R)
    BY <2>3, <2>4 DEF Injection, IsInjective
  <2>7. f \in Surjection(C, R)
    BY <2>4, <2>5 DEF Surjection
  <2> QED
    BY <2>6, <2>7 DEF Bijection
<1>4. 1 \in D <=> Head(q) \in S
  BY <1>1
<1> HIDE DEF C, D, f
<1>5. Cardinality(R) = Cardinality(C)
  <2>1. ExistsBijection(C, R)
    BY <1>3 DEF ExistsBijection
  <2> QED
    BY <1>2, <2>1, FS_Bijection
<1>6. Cardinality(R) = IF 1 \in D THEN Cardinality(D) - 1 ELSE Cardinality(D)
  BY <1>2, FS_RemoveElement
<1>7. Cardinality(D) \in Nat /\ Cardinality(C) \in Nat
  BY <1>2, FS_CardinalityType
<1>8. Cardinality(D) = Cardinality(C) + One(Head(q), S)
  BY <1>4, <1>5, <1>6, <1>7 DEF One
<1> QED
  BY <1>8 DEF CountTo, C, D, t

LEMMA CountConcat ==
    ASSUME NEW B, NEW q \in Seq(B), NEW n \in Seq(B), NEW S,
           \A i \in DOMAIN n : n[i] \notin S, NEW p \in Nat
    PROVE  CountTo(q \o n, S, p) = CountTo(q, S, IF p <= Len(q) THEN p ELSE Len(q))
<1> DEFINE c == q \o n
<1>1. /\ Len(q) \in Nat /\ DOMAIN q = 1..Len(q) /\ Len(n) \in Nat /\ DOMAIN n = 1..Len(n)
      /\ c \in Seq(B) /\ DOMAIN c = 1..(Len(q) + Len(n))
      /\ \A i \in 1..(Len(q) + Len(n)) : c[i] = IF i <= Len(q) THEN q[i] ELSE n[i - Len(q)]
  BY ConcatProperties, LenProperties
<1> HIDE DEF c
<1>2. {i \in DOMAIN c : i <= p /\ c[i] \in S}
        = {i \in DOMAIN q : i <= (IF p <= Len(q) THEN p ELSE Len(q)) /\ q[i] \in S}
  <2>1. \A i \in DOMAIN c : c[i] \in S => i <= Len(q) /\ c[i] = q[i]
    <3> TAKE i \in DOMAIN c
    <3>1. CASE i <= Len(q)
      BY <1>1, <3>1
    <3>2. CASE i > Len(q)
      <4>1. i - Len(q) \in DOMAIN n /\ c[i] = n[i - Len(q)]
        BY <1>1, <3>2
      <4> QED
        BY <4>1
    <3> QED
      BY <1>1, <3>1, <3>2
  <2>2. \A i \in DOMAIN q : i \in DOMAIN c /\ c[i] = q[i] /\ i <= Len(q)
    BY <1>1
  <2>3. \A i \in DOMAIN c : i <= Len(q) => i \in DOMAIN q
    BY <1>1
  <2>4. \A i \in DOMAIN q : i <= p <=> i <= (IF p <= Len(q) THEN p ELSE Len(q))
    BY <1>1
  <2> QED
    BY <2>1, <2>2, <2>3, <2>4
<1> QED
  BY <1>2 DEF CountTo, c

(***************************************************************************)
(* Spinners.  The account of a view: the spinners that cover it and those  *)
(* on their way, against the requests awaited, the answers posted, the     *)
(* timers and the removals posted.  A removal never comes before the       *)
(* spinner it removes: however many blocks of the main queue have run, the *)
(* removals among them are not more than the spinners.                     *)
(***************************************************************************)
Calls(callback) == {b \in Block : b.callback = callback}
CallsOn(callback, v) == {b \in Block : b.callback = callback /\ b.on = v}
Awaiting(callback) == {m \in Mutation : m.callback = callback}

Balanced(q, w, spinning, timers, v) ==
    spinning + CountTo(q, CallsOn("addSpinner", v), Len(q))
        = CountTo(w, Awaiting(KindOf(v)), Len(w)) + CountTo(q, Calls(KindOf(v)), Len(q))
            + timers + CountTo(q, CallsOn("removeSpinner", v), Len(q))

RemovalsFollow(q, spinning, v) ==
    \A p \in 0..Len(q) : CountTo(q, CallsOn("removeSpinner", v), p)
                            <= spinning + CountTo(q, CallsOn("addSpinner", v), p)

Account(q, w, spinning, timers, v) ==
    /\ Balanced(q, w, spinning, timers, v)
    /\ RemovalsFollow(q, spinning, v)

Accounts == \A d \in Device, v \in View :
    Account(mainQueue[d], mutationQueue[d], spinners[d][v], expiring[d][v], v)

\* The account says what SpinnersAccounted says.
LEMMA AccountsBalance == TypeInv /\ Accounts => SpinnersAccounted
<1> SUFFICES ASSUME TypeInv, Accounts, NEW d \in Device, NEW v \in View
             PROVE  spinners[d][v] + Blocks(d, "addSpinner", v)
                        = Awaited(d, KindOf(v)) + Answers(d, KindOf(v))
                            + expiring[d][v] + Blocks(d, "removeSpinner", v)
  BY DEF SpinnersAccounted
<1> DEFINE q == mainQueue[d]
           w == mutationQueue[d]
<1>1. q \in Seq(Block) /\ w \in Seq(Mutation)
  BY DEF TypeInv, TypeOK, FirestoreTypeOK
<1>2. /\ \A i \in DOMAIN q : q[i] \in Block /\ i <= Len(q)
      /\ \A i \in DOMAIN w : w[i] \in Mutation /\ i <= Len(w)
  BY <1>1, ElementOfSeq, LenProperties
<1>3. \A callback : {i \in DOMAIN q : i <= Len(q) /\ q[i] \in CallsOn(callback, v)}
                    = {i \in DOMAIN q : q[i].callback = callback /\ q[i].on = v}
  BY <1>2 DEF CallsOn
<1>4. \A callback : {i \in DOMAIN q : i <= Len(q) /\ q[i] \in Calls(callback)}
                    = {i \in DOMAIN q : q[i].callback = callback}
  BY <1>2 DEF Calls
<1>5. \A callback : {i \in DOMAIN w : i <= Len(w) /\ w[i] \in Awaiting(callback)}
                    = {i \in DOMAIN w : w[i].callback = callback}
  BY <1>2 DEF Awaiting
<1>6. \A callback : /\ Blocks(d, callback, v) = CountTo(q, CallsOn(callback, v), Len(q))
                    /\ Answers(d, callback) = CountTo(q, Calls(callback), Len(q))
                    /\ Awaited(d, callback) = CountTo(w, Awaiting(callback), Len(w))
  BY <1>3, <1>4, <1>5 DEF Blocks, Answers, Awaited, CountTo
<1>7. Balanced(q, w, spinners[d][v], expiring[d][v], v)
  BY DEF Accounts, Account
<1> QED
  BY <1>6, <1>7 DEF Balanced

\* What one block counts for.
LEMMA OneBlock ==
    /\ \A b \in Block : \A v \in View :
        /\ b.callback # "addSpinner" => One(b, CallsOn("addSpinner", v)) = 0
        /\ b.callback # "removeSpinner" => One(b, CallsOn("removeSpinner", v)) = 0
        /\ b.callback # KindOf(v) => One(b, Calls(KindOf(v))) = 0
        /\ b.callback = KindOf(v) => One(b, Calls(KindOf(v))) = 1
        /\ b.callback = "addSpinner" => One(b, CallsOn("addSpinner", v)) = IF b.on = v THEN 1 ELSE 0
        /\ b.callback = "removeSpinner" => One(b, CallsOn("removeSpinner", v)) = IF b.on = v THEN 1 ELSE 0
    /\ \A m \in Mutation, v \in View :
        One(m, Awaiting(KindOf(v))) = IF m.callback = KindOf(v) THEN 1 ELSE 0
    /\ \A v \in View : KindOf(v) \in {"redeemed", "gifted"}
    /\ \A v, u \in View : KindOf(v) = KindOf(u) => u = v
  BY DEF One, Calls, CallsOn, Awaiting, KindOf, View

(***************************************************************************)
(* What keeps an account.                                                  *)
(***************************************************************************)
Counts(q, w, v) ==
    /\ \A p \in 0..Len(q) : /\ CountTo(q, CallsOn("addSpinner", v), p) \in Nat
                            /\ CountTo(q, CallsOn("removeSpinner", v), p) \in Nat
    /\ CountTo(q, CallsOn("addSpinner", v), Len(q)) \in Nat
    /\ CountTo(q, CallsOn("removeSpinner", v), Len(q)) \in Nat
    /\ CountTo(q, CallsOn("addSpinner", v), 0) = 0
    /\ CountTo(q, CallsOn("removeSpinner", v), 0) = 0
    /\ CountTo(q, Calls(KindOf(v)), Len(q)) \in Nat
    /\ CountTo(w, Awaiting(KindOf(v)), Len(w)) \in Nat

LEMMA CountsAreNumbers ==
    ASSUME NEW q \in Seq(Block), NEW w \in Seq(Mutation), NEW v \in View
    PROVE  Counts(q, w, v) /\ Len(q) \in Nat /\ Len(w) \in Nat
<1>1. Len(q) \in Nat /\ Len(w) \in Nat
  BY LenProperties
<1>2. \A p \in 0..Len(q) : p \in Nat
  OBVIOUS
<1>3. \A S : \A p \in Nat : CountTo(q, S, p) \in Nat /\ CountTo(q, S, 0) = 0
  BY CountToType
<1>4. \A S : \A p \in Nat : CountTo(w, S, p) \in Nat
  BY CountToType
<1> QED
  BY <1>1, <1>2, <1>3, <1>4 DEF Counts

\* A block leaves the main queue: a spinner that goes up, or comes down, or
\* an answer, for which a timer starts.
LEMMA AccountPop ==
    ASSUME NEW q \in Seq(Block), NEW w \in Seq(Mutation), NEW v \in View, NEW n \in Nat, NEW t \in Nat,
           Account(q, w, n, t, v), q # <<>>, NEW m \in Nat,
           m + One(Head(q), CallsOn("removeSpinner", v)) = n + One(Head(q), CallsOn("addSpinner", v))
    PROVE  Account(Tail(q), w, m, t + One(Head(q), Calls(KindOf(v))), v)
<1> DEFINE s == Tail(q)
           h == Head(q)
           added == CallsOn("addSpinner", v)
           removed == CallsOn("removeSpinner", v)
           answered == Calls(KindOf(v))
<1>1. s \in Seq(Block) /\ Len(s) = Len(q) - 1 /\ Len(q) \in Nat /\ Len(s) \in Nat
  BY HeadTailProperties, LenProperties
<1>2. Counts(s, w, v) /\ Counts(q, w, v)
  BY <1>1, CountsAreNumbers
<1>3. \A S : \A p \in Nat : CountTo(q, S, p + 1) = CountTo(s, S, p) + One(h, S)
  BY CountTail
<1>4. /\ One(h, added) \in Nat /\ One(h, removed) \in Nat /\ One(h, answered) \in Nat
      /\ m + One(h, removed) = n + One(h, added)
  BY DEF One
<1>5. \A S : CountTo(q, S, Len(q)) = CountTo(s, S, Len(s)) + One(h, S)
  <2>1. Len(s) + 1 = Len(q)
    BY <1>1
  <2> QED
    BY <1>1, <1>3, <2>1
<1>6. n + CountTo(q, added, Len(q)) = CountTo(w, Awaiting(KindOf(v)), Len(w))
                + CountTo(q, answered, Len(q)) + t + CountTo(q, removed, Len(q))
  BY DEF Account, Balanced
<1>11. \A p \in 0..Len(q) : CountTo(q, removed, p) <= n + CountTo(q, added, p)
  BY DEF Account, RemovalsFollow
<1>7. /\ \A p \in 0..Len(s) : CountTo(s, added, p) \in Nat /\ CountTo(s, removed, p) \in Nat
      /\ CountTo(s, added, Len(s)) \in Nat /\ CountTo(s, removed, Len(s)) \in Nat
      /\ CountTo(s, answered, Len(s)) \in Nat /\ CountTo(w, Awaiting(KindOf(v)), Len(w)) \in Nat
  BY <1>2 DEF Counts
<1> HIDE DEF s, h, added, removed, answered
<1>8. m + CountTo(s, added, Len(s)) = CountTo(w, Awaiting(KindOf(v)), Len(w))
                + CountTo(s, answered, Len(s)) + (t + One(h, answered)) + CountTo(s, removed, Len(s))
  <2>1. /\ CountTo(q, added, Len(q)) = CountTo(s, added, Len(s)) + One(h, added)
        /\ CountTo(q, removed, Len(q)) = CountTo(s, removed, Len(s)) + One(h, removed)
        /\ CountTo(q, answered, Len(q)) = CountTo(s, answered, Len(s)) + One(h, answered)
    BY <1>5
  <2>2. /\ CountTo(s, added, Len(s)) \in Nat /\ CountTo(s, removed, Len(s)) \in Nat
        /\ CountTo(s, answered, Len(s)) \in Nat /\ CountTo(w, Awaiting(KindOf(v)), Len(w)) \in Nat
    BY <1>7
  <2> DEFINE a == CountTo(s, added, Len(s))
             r == CountTo(s, removed, Len(s))
             c == CountTo(s, answered, Len(s))
             l == CountTo(w, Awaiting(KindOf(v)), Len(w))
             x == One(h, added)
             y == One(h, removed)
             z == One(h, answered)
  <2>3. /\ a \in Nat /\ r \in Nat /\ c \in Nat /\ l \in Nat /\ x \in Nat /\ y \in Nat /\ z \in Nat
        /\ m + y = n + x
    BY <1>4, <2>2
  <2>4. n + (a + x) = l + (c + z) + t + (r + y)
    BY <1>6, <2>1
  <2> HIDE DEF a, r, c, l, x, y, z
  <2>5. m + a = l + c + (t + z) + r
    BY <2>3, <2>4
  <2> QED
    BY <2>5 DEF a, r, c, l, z
<1>9. ASSUME NEW p \in 0..Len(s)
      PROVE  CountTo(s, removed, p) <= m + CountTo(s, added, p)
  <2>1. p + 1 \in 0..Len(q) /\ p \in Nat
    BY <1>1
  <2>2. /\ CountTo(q, added, p + 1) = CountTo(s, added, p) + One(h, added)
        /\ CountTo(q, removed, p + 1) = CountTo(s, removed, p) + One(h, removed)
    BY <1>3, <2>1
  <2>3. CountTo(q, removed, p + 1) <= n + CountTo(q, added, p + 1)
    BY <1>11, <2>1
  <2> DEFINE a == CountTo(s, added, p)
             r == CountTo(s, removed, p)
             x == One(h, added)
             y == One(h, removed)
  <2>4. /\ a \in Nat /\ r \in Nat /\ x \in Nat /\ y \in Nat /\ m + y = n + x
    BY <1>4, <1>7
  <2>5. r + y <= n + (a + x)
    BY <2>2, <2>3
  <2> HIDE DEF a, r, x, y
  <2>6. r <= m + a
    BY <2>4, <2>5
  <2> QED
    BY <2>6 DEF a, r
<1>10. Balanced(s, w, m, t + One(h, answered), v) /\ RemovalsFollow(s, m, v)
  BY <1>8, <1>9 DEF Balanced, RemovalsFollow, added, removed, answered
<1> QED
  BY <1>10 DEF Account, s, h, answered

\* A spinner that is to be removed is there.
LEMMA RemovalFindsSpinner ==
    ASSUME NEW q \in Seq(Block), NEW w \in Seq(Mutation), NEW v \in View, NEW n \in Nat, NEW t \in Nat,
           Account(q, w, n, t, v), q # <<>>, One(Head(q), CallsOn("removeSpinner", v)) = 1
    PROVE  n > 0
<1> DEFINE added == CallsOn("addSpinner", v)
           removed == CallsOn("removeSpinner", v)
<1>1. /\ Len(q) \in Nat \ {0} /\ Head(q) \in Block /\ Tail(q) \in Seq(Block)
  BY HeadTailProperties, LenProperties, EmptySeq
<1>2. \A S : CountTo(q, S, 0 + 1) = CountTo(Tail(q), S, 0) + One(Head(q), S)
  <2> 0 \in Nat
    OBVIOUS
  <2> QED
    BY CountTail
<1>3. \A S : CountTo(Tail(q), S, 0) = 0
  <2> 0 \in Nat
    OBVIOUS
  <2> QED
    BY <1>1, CountToType
<1>4. CountTo(q, removed, 1) = 1 /\ CountTo(q, added, 1) = 0
  <2>1. Head(q).callback = "removeSpinner"
    BY DEF One, CallsOn
  <2>2. One(Head(q), added) = 0
    BY <2>1 DEF One, CallsOn
  <2> HIDE DEF added, removed
  <2>3. CountTo(q, removed, 0 + 1) = 0 + One(Head(q), removed) /\ CountTo(q, added, 0 + 1) = 0 + One(Head(q), added)
    BY <1>2, <1>3
  <2> QED
    BY <2>2, <2>3 DEF removed
<1>5. CountTo(q, removed, 1) <= n + CountTo(q, added, 1)
  BY <1>1 DEF Account, RemovalsFollow
<1> QED
  BY <1>4, <1>5

\* A block joins the main queue, and what is awaited, or its timers, change
\* to match.
LEMMA AccountPost ==
    ASSUME NEW q \in Seq(Block), NEW w \in Seq(Mutation), NEW v \in View, NEW n \in Nat, NEW t \in Nat,
           Account(q, w, n, t, v), NEW b \in Block, NEW later \in Seq(Mutation), NEW u \in Nat,
           CountTo(later, Awaiting(KindOf(v)), Len(later)) + u
                + One(b, Calls(KindOf(v))) + One(b, CallsOn("removeSpinner", v))
              = CountTo(w, Awaiting(KindOf(v)), Len(w)) + t + One(b, CallsOn("addSpinner", v))
    PROVE  Account(Append(q, b), later, n, u, v)
<1> DEFINE s == Append(q, b)
           added == CallsOn("addSpinner", v)
           removed == CallsOn("removeSpinner", v)
           answered == Calls(KindOf(v))
           awaited == CountTo(w, Awaiting(KindOf(v)), Len(w))
           left == CountTo(later, Awaiting(KindOf(v)), Len(later))
<1>1. s \in Seq(Block) /\ Len(s) = Len(q) + 1 /\ Len(q) \in Nat
  BY AppendProperties, LenProperties
<1>2. Counts(s, later, v) /\ Counts(q, w, v)
  BY <1>1, CountsAreNumbers
<1>3. \A S : /\ \A p \in 0..Len(q) : CountTo(s, S, p) = CountTo(q, S, p)
             /\ CountTo(s, S, Len(q) + 1) = CountTo(q, S, Len(q)) + One(b, S)
  BY CountAppend
<1>4. /\ One(b, added) \in Nat /\ One(b, removed) \in Nat /\ One(b, answered) \in Nat
      /\ left + u + One(b, answered) + One(b, removed) = awaited + t + One(b, added)
  BY DEF One
<1>5. /\ n + CountTo(q, added, Len(q)) = awaited
                + CountTo(q, answered, Len(q)) + t + CountTo(q, removed, Len(q))
      /\ \A p \in 0..Len(q) : CountTo(q, removed, p) <= n + CountTo(q, added, p)
  BY DEF Account, Balanced, RemovalsFollow
<1>6. /\ CountTo(q, added, Len(q)) \in Nat /\ CountTo(q, removed, Len(q)) \in Nat
      /\ CountTo(q, answered, Len(q)) \in Nat /\ awaited \in Nat /\ left \in Nat
  BY <1>2 DEF Counts
<1> HIDE DEF s, added, removed, answered, awaited, left
<1>7. /\ CountTo(s, added, Len(s)) = CountTo(q, added, Len(q)) + One(b, added)
      /\ CountTo(s, removed, Len(s)) = CountTo(q, removed, Len(q)) + One(b, removed)
      /\ CountTo(s, answered, Len(s)) = CountTo(q, answered, Len(q)) + One(b, answered)
  BY <1>1, <1>3
<1>8. n + CountTo(s, added, Len(s)) = left
                + CountTo(s, answered, Len(s)) + u + CountTo(s, removed, Len(s))
  <2> DEFINE a == CountTo(q, added, Len(q))
             r == CountTo(q, removed, Len(q))
             c == CountTo(q, answered, Len(q))
             x == One(b, added)
             y == One(b, removed)
             z == One(b, answered)
  <2>1. /\ a \in Nat /\ r \in Nat /\ c \in Nat /\ awaited \in Nat /\ left \in Nat
        /\ x \in Nat /\ y \in Nat /\ z \in Nat
        /\ left + u + z + y = awaited + t + x /\ n + a = awaited + c + t + r
    BY <1>4, <1>5, <1>6
  <2> HIDE DEF a, r, c, x, y, z
  <2>2. n + (a + x) = left + (c + z) + u + (r + y)
    BY <2>1
  <2> QED
    BY <1>7, <2>2 DEF a, r, c, x, y, z
<1>9. ASSUME NEW p \in 0..Len(s)
      PROVE  CountTo(s, removed, p) <= n + CountTo(s, added, p)
  <2>1. CASE p = Len(s)
    <3>1. CountTo(s, removed, Len(s)) <= n + CountTo(s, added, Len(s))
      <4> DEFINE a == CountTo(s, added, Len(s))
                 r == CountTo(s, removed, Len(s))
                 c == CountTo(s, answered, Len(s))
      <4>1. /\ a \in Nat /\ r \in Nat /\ c \in Nat /\ left \in Nat
            /\ n + a = left + c + u + r
        BY <1>2, <1>6, <1>8 DEF Counts, added, removed, answered
      <4> HIDE DEF a, r, c
      <4>2. r <= n + a
        BY <4>1
      <4> QED
        BY <4>2 DEF a, r
    <3> QED
      BY <2>1, <3>1
  <2>2. CASE p # Len(s)
    <3>1. p \in 0..Len(q)
      BY <1>1, <2>2
    <3> QED
      BY <1>3, <1>5, <3>1
  <2> QED
    BY <2>1, <2>2
<1>10. Balanced(s, later, n, u, v) /\ RemovalsFollow(s, n, v)
  BY <1>8, <1>9 DEF Balanced, RemovalsFollow, added, removed, answered, left
<1> QED
  BY <1>10 DEF Account, s

\* Answers of fetches join the main queue.
LEMMA AccountFetched ==
    ASSUME NEW q \in Seq(Block), NEW w \in Seq(Mutation), NEW v \in View, NEW n \in Nat, NEW t \in Nat,
           Account(q, w, n, t, v), NEW new \in Seq(Block),
           \A i \in DOMAIN new : new[i].callback = "fetched"
    PROVE  Account(q \o new, w, n, t, v)
<1> DEFINE s == q \o new
           added == CallsOn("addSpinner", v)
           removed == CallsOn("removeSpinner", v)
           answered == Calls(KindOf(v))
<1>1. s \in Seq(Block) /\ Len(s) >= Len(q) /\ Len(q) \in Nat /\ Len(s) \in Nat
  BY ConcatProperties, LenProperties
<1>2. \A i \in DOMAIN new : new[i] \notin added /\ new[i] \notin removed /\ new[i] \notin answered
  BY DEF CallsOn, Calls, KindOf
<1> HIDE DEF added, removed, answered
<1>3. ASSUME NEW S \in {added, removed, answered}, NEW p \in Nat
      PROVE  CountTo(s, S, p) = CountTo(q, S, IF p <= Len(q) THEN p ELSE Len(q))
  <2>1. \A i \in DOMAIN new : new[i] \notin S
    BY <1>2
  <2> QED
    BY <2>1, CountConcat
<1>4. Balanced(q, w, n, t, v) /\ RemovalsFollow(q, n, v)
  BY DEF Account
<1> HIDE DEF s
<1>5. Balanced(s, w, n, t, v)
  <2>1. \A S \in {added, removed, answered} : CountTo(s, S, Len(s)) = CountTo(q, S, Len(q))
    BY <1>1, <1>3
  <2> QED
    BY <1>4, <2>1 DEF Balanced, added, removed, answered
<1>6. RemovalsFollow(s, n, v)
  <2> SUFFICES ASSUME NEW p \in 0..Len(s) PROVE CountTo(s, removed, p) <= n + CountTo(s, added, p)
    BY DEF RemovalsFollow, added, removed
  <2>1. PICK k \in 0..Len(q) : CountTo(s, removed, p) = CountTo(q, removed, k) /\ CountTo(s, added, p) = CountTo(q, added, k)
    <3> DEFINE k == IF p <= Len(q) THEN p ELSE Len(q)
    <3>1. k \in 0..Len(q) /\ p \in Nat
      BY <1>1
    <3>2. CountTo(s, removed, p) = CountTo(q, removed, k) /\ CountTo(s, added, p) = CountTo(q, added, k)
      BY <1>3, <3>1
    <3> QED
      BY <3>1, <3>2
  <2>2. CountTo(q, removed, k) <= n + CountTo(q, added, k)
    BY <1>4 DEF RemovalsFollow, added, removed
  <2> QED
    BY <2>1, <2>2
<1> QED
  BY <1>5, <1>6 DEF Account, s

\* Queues that are mapped without changing what counts.
LEMMA AccountMapped ==
    ASSUME NEW q \in Seq(Block), NEW w \in Seq(Mutation), NEW v \in View, NEW n \in Nat, NEW t \in Nat,
           Account(q, w, n, t, v), NEW r \in Seq(Block), NEW x \in Seq(Mutation),
           DOMAIN r = DOMAIN q, DOMAIN x = DOMAIN w,
           \A S \in {CallsOn("addSpinner", v), CallsOn("removeSpinner", v), Calls(KindOf(v))} :
                \A i \in DOMAIN q : q[i] \in S <=> r[i] \in S,
           \A i \in DOMAIN w : w[i] \in Awaiting(KindOf(v)) <=> x[i] \in Awaiting(KindOf(v))
    PROVE  Account(r, x, n, t, v)
<1>1. Len(r) = Len(q) /\ Len(x) = Len(w)
  BY LenProperties
<1>2. \A p : \A S \in {CallsOn("addSpinner", v), CallsOn("removeSpinner", v), Calls(KindOf(v))} :
          CountTo(q, S, p) = CountTo(r, S, p)
  BY CountSame
<1>3. \A p : CountTo(w, Awaiting(KindOf(v)), p) = CountTo(x, Awaiting(KindOf(v)), p)
  BY CountSame
<1> QED
  BY <1>1, <1>2, <1>3 DEF Account, Balanced, RemovalsFollow

\* Queues in which nothing counts.
LEMMA AccountCleared ==
    ASSUME NEW q \in Seq(Block), NEW w \in Seq(Mutation), NEW v \in View,
           \A S \in {CallsOn("addSpinner", v), CallsOn("removeSpinner", v), Calls(KindOf(v))} :
                \A i \in DOMAIN q : q[i] \notin S,
           \A i \in DOMAIN w : w[i] \notin Awaiting(KindOf(v))
    PROVE  Account(q, w, 0, 0, v)
<1>1. \A p : \A S \in {CallsOn("addSpinner", v), CallsOn("removeSpinner", v), Calls(KindOf(v))} :
          CountTo(q, S, p) = 0
  BY CountNone
<1>2. \A p : CountTo(w, Awaiting(KindOf(v)), p) = 0
  BY CountNone
<1> QED
  BY <1>1, <1>2 DEF Account, Balanced, RemovalsFollow

(***************************************************************************)
(* Every action keeps the accounts.                                        *)
(***************************************************************************)
AccountOf(d, v) == Account(mainQueue[d], mutationQueue[d], spinners[d][v], expiring[d][v], v)

OthersAlone(d) == \A e \in Device \ {d} :
    /\ mainQueue'[e] = mainQueue[e] /\ mutationQueue'[e] = mutationQueue[e]
    /\ spinners'[e] = spinners[e] /\ expiring'[e] = expiring[e]

LEMMA AccountsOfOne ==
    ASSUME Accounts, NEW d \in Device, OthersAlone(d), \A v \in View : AccountOf(d, v)'
    PROVE  Accounts'
  BY DEF Accounts, AccountOf, OthersAlone

LEMMA AccountFacts ==
    ASSUME TypeInv, Accounts, NEW d \in Device
    PROVE  /\ mainQueue[d] \in Seq(Block) /\ mutationQueue[d] \in Seq(Mutation)
           /\ \A v \in View : /\ spinners[d][v] \in Nat /\ expiring[d][v] \in Nat
                              /\ Account(mainQueue[d], mutationQueue[d], spinners[d][v], expiring[d][v], v)
  BY DEF TypeInv, TypeOK, FirestoreTypeOK, Accounts

LEMMA AccountsInit == Init => Accounts
<1> SUFFICES ASSUME Init, NEW d \in Device, NEW v \in View
             PROVE  Account(mainQueue[d], mutationQueue[d], spinners[d][v], expiring[d][v], v)
  BY DEF Accounts
<1>1. /\ mainQueue[d] = <<>> /\ mutationQueue[d] = <<>> /\ spinners[d][v] = 0 /\ expiring[d][v] = 0
  BY DEF Init, FirestoreInit
<1>2. Account(<<>>, <<>>, 0, 0, v)
  <2>1. <<>> \in Seq(Block) /\ <<>> \in Seq(Mutation) /\ DOMAIN <<>> = {}
    BY EmptySeq
  <2> DEFINE e == <<>>
  <2>2. e \in Seq(Block) /\ e \in Seq(Mutation) /\ DOMAIN e = {}
    BY <2>1
  <2> HIDE DEF e
  <2>3. Account(e, e, 0, 0, v)
    BY <2>2, AccountCleared
  <2> QED
    BY <2>3 DEF e
<1> QED
  BY <1>1, <1>2

\* Steps that leave the main queue, the spinners and the timers alone, and
\* change no handler of a write.
LEMMA QuietAccounts ==
    ASSUME TypeInv, TypeInv', Accounts, UNCHANGED <<mainQueue, spinners, expiring>>,
           \A e \in Device : /\ DOMAIN mutationQueue'[e] = DOMAIN mutationQueue[e]
                             /\ \A i \in DOMAIN mutationQueue[e] :
                                mutationQueue'[e][i].callback = mutationQueue[e][i].callback
    PROVE  Accounts'
<1> SUFFICES ASSUME NEW e \in Device, NEW v \in View
             PROVE  Account(mainQueue[e], mutationQueue'[e], spinners[e][v], expiring[e][v], v)
  BY DEF Accounts
<1> DEFINE q == mainQueue[e]
           w == mutationQueue[e]
           x == mutationQueue'[e]
<1>1. /\ q \in Seq(Block) /\ w \in Seq(Mutation) /\ x \in Seq(Mutation)
      /\ spinners[e][v] \in Nat /\ expiring[e][v] \in Nat
      /\ Account(q, w, spinners[e][v], expiring[e][v], v)
  BY AccountFacts DEF TypeInv, TypeOK, FirestoreTypeOK
<1>2. \A i \in DOMAIN w : w[i] \in Mutation /\ x[i] \in Mutation
  BY <1>1, ElementOfSeq, LenProperties
<1>3. \A i \in DOMAIN w : w[i] \in Awaiting(KindOf(v)) <=> x[i] \in Awaiting(KindOf(v))
  BY <1>2 DEF Awaiting
<1> HIDE DEF q, w, x
<1>4. DOMAIN x = DOMAIN w
  BY DEF x, w
<1>5. Account(q, x, spinners[e][v], expiring[e][v], v)
  BY <1>1, <1>3, <1>4, AccountMapped
<1> QED
  BY <1>5 DEF q, x

LEMMA ClientAccountsQuiet ==
    ASSUME TypeInv, TypeInv', Accounts, NEW d \in Device, UNCHANGED screenVars,
           Commit(d) \/ SendWatchSnapshot(d) \/ Disconnect(d) \/ Connect(d)
    PROVE  Accounts'
<1> SUFFICES /\ UNCHANGED <<mainQueue, spinners, expiring>>
             /\ \A e \in Device : /\ DOMAIN mutationQueue'[e] = DOMAIN mutationQueue[e]
                                  /\ \A i \in DOMAIN mutationQueue[e] :
                                     mutationQueue'[e][i].callback = mutationQueue[e][i].callback
  BY QuietAccounts
<1> USE DEF screenVars, clientVars, serverVars
<1>0. FirestoreTypeOK /\ mutationQueue[d] \in Seq(Mutation)
  BY DEF TypeInv, TypeOK, FirestoreTypeOK
<1>1. CASE SendWatchSnapshot(d) \/ Connect(d)
  BY <1>1 DEF SendWatchSnapshot, Connect
<1>2. CASE Commit(d)
  <2>1. PICK i \in DOMAIN mutationQueue[d] : WriteMade(d, i)
    BY <1>0, <1>2, CommitMakesWrite
  <2>2. /\ \A e \in Device : DOMAIN mutationQueue'[e] = DOMAIN mutationQueue[e]
        /\ \A e \in Device : \A j \in DOMAIN mutationQueue[e] :
              mutationQueue'[e][j].callback = mutationQueue[e][j].callback
    BY <2>1 DEF WriteMade
  <2>3. mainQueue' = mainQueue
    BY <1>2 DEF Commit
  <2> QED
    BY <2>2, <2>3
<1>3. CASE Disconnect(d)
  <2>1. mutationQueue' = [mutationQueue EXCEPT ![d] = Resent(mutationQueue[d])]
    BY <1>3 DEF Disconnect
  <2>2. /\ DOMAIN Resent(mutationQueue[d]) = DOMAIN mutationQueue[d]
        /\ \A i \in DOMAIN mutationQueue[d] :
              Resent(mutationQueue[d])[i].callback = mutationQueue[d][i].callback
    BY <1>0, ResentType
  <2>3. /\ mutationQueue'[d] = Resent(mutationQueue[d])
        /\ \A e \in Device \ {d} : mutationQueue'[e] = mutationQueue[e]
    BY <1>0, <2>1 DEF FirestoreTypeOK
  <2>4. \A e \in Device : /\ DOMAIN mutationQueue'[e] = DOMAIN mutationQueue[e]
                          /\ \A i \in DOMAIN mutationQueue[e] :
                             mutationQueue'[e][i].callback = mutationQueue[e][i].callback
    BY <2>2, <2>3
  <2> QED
    BY <1>3, <2>4 DEF Disconnect
<1> QED
  BY <1>1, <1>2, <1>3

\* An answer to a write leaves its queue and is posted, unless nobody waits.
LEMMA AnswerAccounts ==
    ASSUME TypeInv, TypeInv', Accounts, NEW d \in Device, UNCHANGED <<spinners, expiring>>,
           mutationQueue[d] # <<>>, NEW ok \in BOOLEAN, NotifyUser(d, Head(mutationQueue[d]), ok),
           mutationQueue' = [mutationQueue EXCEPT ![d] = Tail(@)]
    PROVE  Accounts'
<1> DEFINE q == mainQueue[d]
           w == mutationQueue[d]
           m == Head(w)
           b == [callback |-> m.callback, ok |-> ok, doc |-> m.doc]
<1>1. /\ q \in Seq(Block) /\ w \in Seq(Mutation) /\ w # <<>>
      /\ \A v \in View : /\ spinners[d][v] \in Nat /\ expiring[d][v] \in Nat
                         /\ Account(q, w, spinners[d][v], expiring[d][v], v)
  BY AccountFacts
<1>2. /\ m \in Mutation /\ Tail(w) \in Seq(Mutation) /\ Len(w) = Len(Tail(w)) + 1
      /\ Len(Tail(w)) \in Nat
  BY <1>1, HeadTailProperties, LenProperties
<1>3. \A S : CountTo(w, S, Len(w)) = CountTo(Tail(w), S, Len(Tail(w))) + One(m, S)
  BY <1>1, <1>2, CountTail
<1>4. mutationQueue'[d] = Tail(w) /\ \A e \in Device \ {d} : mutationQueue'[e] = mutationQueue[e]
  BY DEF TypeInv, TypeOK, FirestoreTypeOK
<1>5. /\ m.callback = NoCallback => mainQueue' = mainQueue
      /\ m.callback # NoCallback => mainQueue' = [mainQueue EXCEPT ![d] = Append(q, b)]
  BY DEF NotifyUser
<1>6. OthersAlone(d)
  BY <1>4, <1>5 DEF OthersAlone, TypeInv, TypeOK
<1>7. ASSUME NEW v \in View PROVE AccountOf(d, v)'
  <2> SUFFICES Account(mainQueue'[d], Tail(w), spinners[d][v], expiring[d][v], v)
    BY <1>4 DEF AccountOf
  <2>1. One(m, Awaiting(KindOf(v))) = IF m.callback = KindOf(v) THEN 1 ELSE 0
    BY <1>2, OneBlock
  <2>2. CountTo(Tail(w), Awaiting(KindOf(v)), Len(Tail(w))) \in Nat
    BY <1>2, CountToType
  <2>3. KindOf(v) \in {"redeemed", "gifted"}
    BY DEF KindOf
  <2>4. CASE m.callback = NoCallback
    <3>1. KindOf(v) # NoCallback
      BY <2>3, NoCallbackAssumption, WriteCallbackIsKind
    <3>2. CountTo(Tail(w), Awaiting(KindOf(v)), Len(Tail(w))) = CountTo(w, Awaiting(KindOf(v)), Len(w))
      <4> HIDE DEF m, w
      <4> QED
        BY <1>3, <2>1, <2>2, <2>4, <3>1
    <3>3. Account(q, Tail(w), spinners[d][v], expiring[d][v], v)
      <4> HIDE DEF w, q
      <4> QED
        BY <1>1, <3>2 DEF Account, Balanced
    <3> QED
      BY <1>5, <2>4, <3>3
  <2>5. CASE m.callback # NoCallback
    <3>1. b \in Block /\ b.callback = m.callback
      BY <1>2, <2>5 DEF Mutation, Block, WriteResult
    <3>2. mainQueue'[d] = Append(q, b)
      BY <1>5, <2>5 DEF TypeInv, TypeOK
    <3>3. m.callback \in {"redeemed", "gifted"}
      BY <1>2, <2>5, WriteCallbackIsKind DEF Mutation
    <3> HIDE DEF b, q, w, m
    <3>4. /\ One(b, CallsOn("addSpinner", v)) = 0 /\ One(b, CallsOn("removeSpinner", v)) = 0
          /\ One(b, Calls(KindOf(v))) = IF m.callback = KindOf(v) THEN 1 ELSE 0
      BY <3>1, <3>3, OneBlock
    <3>5. CountTo(Tail(w), Awaiting(KindOf(v)), Len(Tail(w))) + expiring[d][v]
                + One(b, Calls(KindOf(v))) + One(b, CallsOn("removeSpinner", v))
              = CountTo(w, Awaiting(KindOf(v)), Len(w)) + expiring[d][v] + One(b, CallsOn("addSpinner", v))
      <4> DEFINE left == CountTo(Tail(w), Awaiting(KindOf(v)), Len(Tail(w)))
                 all == CountTo(w, Awaiting(KindOf(v)), Len(w))
                 o == One(m, Awaiting(KindOf(v)))
                 t == expiring[d][v]
      <4>1. left \in Nat /\ all = left + o /\ t \in Nat
        BY <1>1, <1>3, <2>2
      <4>2. One(b, Calls(KindOf(v))) = o /\ o \in {0, 1}
        BY <2>1, <3>4
      <4> HIDE DEF left, all, o, t
      <4>3. left + t + o + 0 = all + t + 0
        BY <4>1, <4>2
      <4> QED
        BY <3>4, <4>2, <4>3 DEF left, all, t
    <3>6. Account(Append(q, b), Tail(w), spinners[d][v], expiring[d][v], v)
      BY <1>1, <1>2, <3>1, <3>5, AccountPost
    <3> QED
      BY <3>2, <3>6
  <2> QED
    BY <2>4, <2>5
<1> QED
  BY <1>6, <1>7, AccountsOfOne

\* The answers of fetches.
LEMMA FetchedAccounts ==
    ASSUME TypeInv, Accounts, NEW d \in Device, NEW coll \in Collection, NEW ok \in BOOLEAN,
           NEW docs \in [DocId -> MaybeValue],
           RaiseInitialEvent(d, coll, ok, docs), UNCHANGED <<mutationQueue, spinners, expiring>>
    PROVE  Accounts'
<1> DEFINE q == mainQueue[d]
           b == [callback |-> "fetched", ok |-> ok, docs |-> docs]
           new == [i \in 1..listeners[d][coll] |-> b]
<1>1. /\ q \in Seq(Block) /\ mutationQueue[d] \in Seq(Mutation) /\ listeners[d][coll] \in Nat
      /\ \A v \in View : /\ spinners[d][v] \in Nat /\ expiring[d][v] \in Nat
                         /\ Account(q, mutationQueue[d], spinners[d][v], expiring[d][v], v)
  BY AccountFacts DEF TypeInv, TypeOK, FirestoreTypeOK
<1>2. b \in Block
  BY DEF Block, QueryResult
<1>3. new \in Seq(Block) /\ \A i \in DOMAIN new : new[i].callback = "fetched"
  BY <1>1, <1>2
<1>4. mainQueue' = [mainQueue EXCEPT ![d] = q \o new]
  BY DEF RaiseInitialEvent
<1>5. mainQueue'[d] = q \o new /\ \A e \in Device \ {d} : mainQueue'[e] = mainQueue[e]
  BY <1>4 DEF TypeInv, TypeOK
<1> HIDE DEF new, q
<1>6. \A v \in View : Account(q \o new, mutationQueue[d], spinners[d][v], expiring[d][v], v)
  BY <1>1, <1>3, AccountFetched
<1>7. \A v \in View : AccountOf(d, v)'
  BY <1>5, <1>6 DEF AccountOf
<1> QED
  BY <1>5, <1>7, AccountsOfOne DEF OthersAlone

LEMMA ClientAccounts ==
    ASSUME TypeInv, TypeInv', Accounts, NEW d \in Device, UNCHANGED screenVars,
           ClientEvent(d) \/ HandleRejectedWrite(d)
    PROVE  Accounts'
<1> USE DEF screenVars, clientVars, serverVars
<1>1. CASE Commit(d) \/ SendWatchSnapshot(d) \/ Disconnect(d) \/ Connect(d)
  BY <1>1, ClientAccountsQuiet
<1>2. CASE HandleSuccessfulWrite(d)
  <2>1. /\ mutationQueue[d] # <<>> /\ NotifyUser(d, Head(mutationQueue[d]), TRUE)
        /\ mutationQueue' = [mutationQueue EXCEPT ![d] = Tail(@)]
    BY <1>2 DEF HandleSuccessfulWrite
  <2> QED
    BY <2>1, AnswerAccounts
<1>3. CASE HandleRejectedWrite(d)
  <2>1. /\ mutationQueue[d] # <<>> /\ NotifyUser(d, Head(mutationQueue[d]), FALSE)
        /\ mutationQueue' = [mutationQueue EXCEPT ![d] = Tail(@)]
    BY <1>3 DEF HandleRejectedWrite
  <2> QED
    BY <2>1, AnswerAccounts
<1>4. CASE ApplyRemoteEvent(d) \/ HandleOnlineStateChange(d) \/ HandleRejectedListen(d)
  <2>1. QueueTypes(Block)
    BY DEF QueueTypes, TypeInv, TypeOK, Block
  <2>2. PICK coll \in Collection, ok \in BOOLEAN, docs \in [DocId -> MaybeValue] :
            RaiseInitialEvent(d, coll, ok, docs)
    BY <1>4, <2>1, FetchesAnswered
  <2>3. mutationQueue' = mutationQueue
    BY <1>4 DEF ApplyRemoteEvent, HandleOnlineStateChange, HandleRejectedListen
  <2> QED
    BY <2>2, <2>3, FetchedAccounts
<1> QED
  BY <1>1, <1>2, <1>3, <1>4 DEF ClientEvent

\* A closed screen has no spinner, no timer and nobody who waits.
LEMMA ClosedAccounts ==
    ASSUME TypeInv, TypeInv', Accounts, NEW d \in Device, Kill(d) \/ CloseTapped(d)
    PROVE  Accounts'
<1>1. FirestoreTypeOK /\ mutationQueue[d] \in Seq(Mutation)
  BY DEF TypeInv, TypeOK, FirestoreTypeOK
<1>2. PICK x \in Seq(Mutation) :
          /\ mutationQueue' = [mutationQueue EXCEPT ![d] = x]
          /\ \A i \in DOMAIN x : x[i].callback = NoCallback
  <2>1. CASE Kill(d)
    <3> DEFINE x == Resent(Orphaned(mutationQueue[d]))
    <3>1. x \in Seq(Mutation) /\ \A i \in DOMAIN x : x[i].callback = NoCallback
      BY <1>1, ResentOrphanedKeeps
    <3>2. mutationQueue' = [mutationQueue EXCEPT ![d] = x]
      BY <2>1 DEF Kill, KillProcess
    <3> QED
      BY <3>1, <3>2
  <2>2. CASE CloseTapped(d)
    <3> DEFINE x == Orphaned(mutationQueue[d])
    <3>1. \A i \in DOMAIN mutationQueue[d] : mutationQueue[d][i] \in Mutation
      BY <1>1, ElementOfSeq, LenProperties
    <3>2. x \in Seq(Mutation) /\ \A i \in DOMAIN x : x[i].callback = NoCallback
      BY <1>1, <3>1, OrphanedType, WithoutCallbackKeeps DEF Orphaned
    <3>3. mutationQueue' = [mutationQueue EXCEPT ![d] = x]
      BY <2>2 DEF CloseTapped, ReleaseHandlers
    <3> QED
      BY <3>2, <3>3
  <2> QED
    BY <2>1, <2>2
<1>3. /\ mainQueue' = [mainQueue EXCEPT ![d] = <<>>]
      /\ spinners' = [spinners EXCEPT ![d] = [v \in View |-> 0]]
      /\ expiring' = [expiring EXCEPT ![d] = [v \in View |-> 0]]
  BY DEF Kill, KillProcess, CloseTapped, ReleaseHandlers, ResetScreen
<1>4. /\ mainQueue'[d] = <<>> /\ mutationQueue'[d] = x
      /\ \A v \in View : spinners'[d][v] = 0 /\ expiring'[d][v] = 0
  BY <1>2, <1>3 DEF TypeInv, TypeOK, FirestoreTypeOK
<1>5. OthersAlone(d)
  BY <1>2, <1>3 DEF OthersAlone, TypeInv, TypeOK, FirestoreTypeOK
<1>6. ASSUME NEW v \in View PROVE AccountOf(d, v)'
  <2> DEFINE e == <<>>
  <2>1. e \in Seq(Block) /\ DOMAIN e = {}
    BY EmptySeq
  <2>2. \A i \in DOMAIN x : x[i] \notin Awaiting(KindOf(v))
    <3>1. KindOf(v) # NoCallback
      BY NoCallbackAssumption, WriteCallbackIsKind DEF KindOf
    <3> QED
      BY <1>2, <3>1 DEF Awaiting
  <2>3. mainQueue'[d] = e
    BY <1>4
  <2> HIDE DEF e
  <2>4. Account(e, x, 0, 0, v)
    BY <2>1, <2>2, AccountCleared
  <2> QED
    BY <1>4, <2>3, <2>4 DEF AccountOf
<1> QED
  BY <1>5, <1>6, AccountsOfOne

\* The sheet leaves, and takes its spinners, its timers and its handlers.
LEMMA SheetAccounts ==
    ASSUME TypeInv, TypeInv', Accounts, NEW d \in Device, NEW q \in Seq(Block), CloseSheet(d, q),
           Account(q, mutationQueue[d], spinners[d]["coupons"], expiring[d]["coupons"], "coupons")
    PROVE  Accounts'
<1> DEFINE w == mutationQueue[d]
           r == [i \in DOMAIN q |-> WithoutSheet(q[i])]
           x == [i \in DOMAIN w |-> WithoutGiftHandler(w[i])]
<1>0. NoCallback \notin {"addSpinner", "removeSpinner", "redeemed", "gifted"}
  BY NoCallbackAssumption, WriteCallbackIsKind, NoCallbackIsNoSpinner
<1>1. /\ mainQueue'[d] = r /\ mutationQueue'[d] = x
      /\ spinners'[d]["gift"] = 0 /\ expiring'[d]["gift"] = 0
      /\ spinners'[d]["coupons"] = spinners[d]["coupons"]
      /\ expiring'[d]["coupons"] = expiring[d]["coupons"]
  BY DEF CloseSheet, TypeInv, TypeOK, FirestoreTypeOK, View
<1>2. OthersAlone(d)
  BY DEF OthersAlone, CloseSheet, TypeInv, TypeOK, FirestoreTypeOK
<1>3. /\ r \in Seq(Block) /\ DOMAIN r = DOMAIN q
      /\ x \in Seq(Mutation) /\ w \in Seq(Mutation) /\ DOMAIN x = DOMAIN w
  <2>1. mainQueue'[d] \in Seq(Block) /\ mutationQueue'[d] \in Seq(Mutation) /\ w \in Seq(Mutation)
    BY DEF TypeInv, TypeOK, FirestoreTypeOK
  <2>2. DOMAIN r = DOMAIN q /\ DOMAIN x = DOMAIN w
    OBVIOUS
  <2> HIDE DEF r, x
  <2> QED
    BY <1>1, <2>1, <2>2
<1>4. /\ \A i \in DOMAIN q : q[i] \in Block /\ r[i] \in Block /\ r[i] = WithoutSheet(q[i])
      /\ \A i \in DOMAIN w : w[i] \in Mutation /\ x[i] \in Mutation /\ x[i] = WithoutGiftHandler(w[i])
  BY <1>3, ElementOfSeq, LenProperties
<1> HIDE DEF r, x, w
<1>5. AccountOf(d, "gift")'
  <2>1. \A b \in Block : /\ WithoutSheet(b) \notin Calls("gifted")
                         /\ WithoutSheet(b) \notin CallsOn("addSpinner", "gift")
                         /\ WithoutSheet(b) \notin CallsOn("removeSpinner", "gift")
    BY <1>0 DEF WithoutSheet, Calls, CallsOn
  <2>2. \A m \in Mutation : WithoutGiftHandler(m) \notin Awaiting("gifted")
    BY <1>0 DEF WithoutGiftHandler, WithoutCallback, Awaiting, Mutation
  <2>3. KindOf("gift") = "gifted" /\ "gift" \in View
    BY DEF KindOf, View
  <2>4. \A S \in {CallsOn("addSpinner", "gift"), CallsOn("removeSpinner", "gift"), Calls(KindOf("gift"))} :
            \A i \in DOMAIN r : r[i] \notin S
    BY <1>3, <1>4, <2>1, <2>3
  <2>5. \A i \in DOMAIN x : x[i] \notin Awaiting(KindOf("gift"))
    BY <1>3, <1>4, <2>2, <2>3
  <2>6. Account(r, x, 0, 0, "gift")
    BY <1>3, <2>3, <2>4, <2>5, AccountCleared
  <2> QED
    BY <1>1, <2>6 DEF AccountOf
<1>6. AccountOf(d, "coupons")'
  <2>1. \A b \in Block : /\ WithoutSheet(b) \in Calls("redeemed") <=> b \in Calls("redeemed")
                         /\ WithoutSheet(b) \in CallsOn("addSpinner", "coupons") <=> b \in CallsOn("addSpinner", "coupons")
                         /\ WithoutSheet(b) \in CallsOn("removeSpinner", "coupons") <=> b \in CallsOn("removeSpinner", "coupons")
    BY <1>0 DEF WithoutSheet, Calls, CallsOn
  <2>2. \A m \in Mutation : WithoutGiftHandler(m) \in Mutation
                            => (m \in Awaiting("redeemed") <=> WithoutGiftHandler(m) \in Awaiting("redeemed"))
    BY <1>0 DEF WithoutGiftHandler, WithoutCallback, Awaiting, Mutation
  <2>3. KindOf("coupons") = "redeemed" /\ "coupons" \in View
    BY DEF KindOf, View
  <2>4. \A S \in {CallsOn("addSpinner", "coupons"), CallsOn("removeSpinner", "coupons"), Calls(KindOf("coupons"))} :
            \A i \in DOMAIN q : q[i] \in S <=> r[i] \in S
    BY <1>4, <2>1, <2>3
  <2>5. \A i \in DOMAIN w : w[i] \in Awaiting(KindOf("coupons")) <=> x[i] \in Awaiting(KindOf("coupons"))
    BY <1>4, <2>2, <2>3
  <2>6. spinners[d]["coupons"] \in Nat /\ expiring[d]["coupons"] \in Nat
    BY DEF TypeInv, TypeOK, View
  <2>7. Account(q, w, spinners[d]["coupons"], expiring[d]["coupons"], "coupons")
    BY DEF w
  <2>8. Account(r, x, spinners[d]["coupons"], expiring[d]["coupons"], "coupons")
    BY <1>3, <2>3, <2>4, <2>5, <2>6, <2>7, AccountMapped
  <2> QED
    BY <1>1, <2>8 DEF AccountOf
<1> QED
  BY <1>2, <1>5, <1>6, AccountsOfOne DEF View

\* A block of the main queue runs.
LEMMA RunAccounts ==
    ASSUME TypeInv, TypeInv', Accounts, NEW d \in Device, mainQueue[d] # <<>>, PopFront(d),
           mutationQueue' = mutationQueue,
           \A e \in Device \ {d} : spinners'[e] = spinners[e] /\ expiring'[e] = expiring[e],
           \A v \in View :
             /\ spinners'[d][v] + One(Head(mainQueue[d]), CallsOn("removeSpinner", v))
                    = spinners[d][v] + One(Head(mainQueue[d]), CallsOn("addSpinner", v))
             /\ expiring'[d][v] = expiring[d][v] + One(Head(mainQueue[d]), Calls(KindOf(v)))
    PROVE  Accounts'
<1>1. /\ mainQueue'[d] = Tail(mainQueue[d])
      /\ \A e \in Device \ {d} : mainQueue'[e] = mainQueue[e]
  BY DEF PopFront, TypeInv, TypeOK
<1>2. OthersAlone(d)
  BY <1>1 DEF OthersAlone
<1>3. ASSUME NEW v \in View PROVE AccountOf(d, v)'
  <2>1. /\ mainQueue[d] \in Seq(Block) /\ mutationQueue[d] \in Seq(Mutation)
        /\ spinners[d][v] \in Nat /\ expiring[d][v] \in Nat
        /\ Account(mainQueue[d], mutationQueue[d], spinners[d][v], expiring[d][v], v)
    BY AccountFacts
  <2>2. spinners'[d][v] \in Nat
    BY DEF TypeInv, TypeOK
  <2>3. Account(Tail(mainQueue[d]), mutationQueue[d], spinners'[d][v],
                expiring[d][v] + One(Head(mainQueue[d]), Calls(KindOf(v))), v)
    BY <2>1, <2>2, AccountPop
  <2> QED
    BY <1>1, <2>3 DEF AccountOf
<1> QED
  BY <1>2, <1>3, AccountsOfOne

LEMMA HeadIsBlock ==
    ASSUME TypeInv, NEW d \in Device, NEW callback, Front(d, callback)
    PROVE  /\ mainQueue[d] # <<>> /\ mainQueue[d] \in Seq(Block)
           /\ Head(mainQueue[d]) \in Block /\ Head(mainQueue[d]).callback = callback
<1>1. mainQueue[d] \in Seq(Block) /\ mainQueue[d] # <<>>
  BY DEF TypeInv, TypeOK, Front
<1> QED
  BY <1>1, HeadTailProperties DEF Front

LEMMA FetchCompletedAccounts ==
    ASSUME TypeInv, TypeInv', Accounts, NEW d \in Device,
           FetchCouponsCompleted(d) \/ NothingLeftToDo(d)
    PROVE  Accounts'
<1> DEFINE b == Head(mainQueue[d])
<1>1. /\ PopFront(d) /\ UNCHANGED <<mutationQueue, spinners, expiring>>
      /\ Front(d, "fetched") \/ Front(d, NoCallback)
  BY DEF FetchCouponsCompleted, NothingLeftToDo, clientVars, screenVars
<1>2. mainQueue[d] # <<>> /\ b \in Block /\ b.callback \in {"fetched", NoCallback}
  BY <1>1, HeadIsBlock
<1> HIDE DEF b
<1>3. \A v \in View : /\ One(b, CallsOn("removeSpinner", v)) = 0 /\ One(b, CallsOn("addSpinner", v)) = 0
                      /\ One(b, Calls(KindOf(v))) = 0
  <2>1. b.callback \notin {"addSpinner", "removeSpinner", "redeemed", "gifted"}
    BY <1>2, NoCallbackAssumption, WriteCallbackIsKind, NoCallbackIsNoSpinner
  <2> QED
    BY <1>2, <2>1, OneBlock
<1>4. \A v \in View : spinners[d][v] \in Nat /\ expiring[d][v] \in Nat
  BY DEF TypeInv, TypeOK
<1>5. \A v \in View :
             /\ spinners'[d][v] + One(b, CallsOn("removeSpinner", v))
                    = spinners[d][v] + One(b, CallsOn("addSpinner", v))
             /\ expiring'[d][v] = expiring[d][v] + One(b, Calls(KindOf(v)))
  BY <1>1, <1>3, <1>4
<1> QED
  BY <1>1, <1>2, <1>5, RunAccounts DEF b

LEMMA SpinnerRunsAccounts ==
    ASSUME TypeInv, TypeInv', Accounts, NEW d \in Device, SpinnerAdded(d) \/ SpinnerRemoved(d)
    PROVE  Accounts'
<1> DEFINE b == Head(mainQueue[d])
<1>1. /\ PopFront(d) /\ UNCHANGED <<mutationQueue, expiring>>
      /\ Front(d, "addSpinner") \/ Front(d, "removeSpinner")
  BY DEF SpinnerAdded, SpinnerRemoved, clientVars
<1>2. /\ mainQueue[d] # <<>> /\ mainQueue[d] \in Seq(Block) /\ b \in Block
      /\ b.callback \in {"addSpinner", "removeSpinner"}
  BY <1>1, HeadIsBlock
<1>3. b.on \in View
  BY <1>2, NoCallbackIsNoSpinner, WriteCallbackIsKind DEF Block, WriteResult, QueryResult, SpinnerBlock
<1>4. /\ \A e \in Device : spinners[e] \in [View -> Nat] /\ expiring[e] \in [View -> Nat]
  BY DEF TypeInv, TypeOK
<1>5. /\ b.callback = "addSpinner" => spinners' = [spinners EXCEPT ![d][b.on] = @ + 1]
      /\ b.callback = "removeSpinner" => spinners' = [spinners EXCEPT ![d][b.on] = IF @ > 0 THEN @ - 1 ELSE 0]
  BY DEF SpinnerAdded, SpinnerRemoved, Front
<1>6. \A e \in Device \ {d} : spinners'[e] = spinners[e] /\ expiring'[e] = expiring[e]
  BY <1>1, <1>2, <1>5 DEF TypeInv, TypeOK
<1>7. b.callback = "removeSpinner" => spinners[d][b.on] > 0
  <2> SUFFICES ASSUME b.callback = "removeSpinner" PROVE spinners[d][b.on] > 0
    OBVIOUS
  <2>1. One(b, CallsOn("removeSpinner", b.on)) = 1
    <3> HIDE DEF b
    <3> QED
      BY <1>2, <1>3, OneBlock
  <2>2. /\ mutationQueue[d] \in Seq(Mutation) /\ spinners[d][b.on] \in Nat /\ expiring[d][b.on] \in Nat
        /\ Account(mainQueue[d], mutationQueue[d], spinners[d][b.on], expiring[d][b.on], b.on)
    BY <1>3, AccountFacts
  <2> QED
    BY <1>2, <1>3, <2>1, <2>2, RemovalFindsSpinner
<1> HIDE DEF b
<1>8. ASSUME NEW v \in View
      PROVE  /\ spinners'[d][v] + One(b, CallsOn("removeSpinner", v))
                    = spinners[d][v] + One(b, CallsOn("addSpinner", v))
             /\ expiring'[d][v] = expiring[d][v] + One(b, Calls(KindOf(v)))
  <2>1. One(b, Calls(KindOf(v))) = 0
    <3>1. KindOf(v) \in {"redeemed", "gifted"}
      BY DEF KindOf
    <3> QED
      BY <1>2, <3>1, OneBlock
  <2>2. spinners[d][v] \in Nat /\ expiring[d][v] \in Nat
    BY <1>4
  <2>3. CASE b.callback = "addSpinner"
    <3>1. /\ One(b, CallsOn("removeSpinner", v)) = 0
          /\ One(b, CallsOn("addSpinner", v)) = IF b.on = v THEN 1 ELSE 0
      BY <1>2, <2>3, OneBlock
    <3>2. spinners'[d][v] = IF b.on = v THEN spinners[d][v] + 1 ELSE spinners[d][v]
      BY <1>3, <1>4, <1>5, <2>3 DEF TypeInv, TypeOK
    <3> QED
      BY <1>1, <2>1, <2>2, <3>1, <3>2
  <2>4. CASE b.callback = "removeSpinner"
    <3>1. /\ One(b, CallsOn("addSpinner", v)) = 0
          /\ One(b, CallsOn("removeSpinner", v)) = IF b.on = v THEN 1 ELSE 0
      BY <1>2, <2>4, OneBlock
    <3>2. spinners'[d][v] = IF b.on = v THEN spinners[d][v] - 1 ELSE spinners[d][v]
      BY <1>3, <1>4, <1>5, <1>7, <2>4 DEF TypeInv, TypeOK
    <3> QED
      BY <1>1, <2>1, <2>2, <3>1, <3>2
  <2> QED
    BY <1>2, <2>3, <2>4
<1> QED
  BY <1>1, <1>2, <1>6, <1>8, RunAccounts DEF b

\* An answer is told: its timer starts.
LEMMA AnswerRunsAccounts ==
    ASSUME TypeInv, TypeInv', Accounts, NEW d \in Device, NEW u \in View, Front(d, KindOf(u)),
           PopFront(d), UNCHANGED <<mutationQueue, spinners>>,
           expiring' = [expiring EXCEPT ![d][u] = @ + 1]
    PROVE  Accounts'
<1> DEFINE b == Head(mainQueue[d])
<1>1. /\ mainQueue[d] # <<>> /\ b \in Block /\ b.callback = KindOf(u)
      /\ KindOf(u) \in {"redeemed", "gifted"}
  BY HeadIsBlock DEF KindOf
<1> HIDE DEF b
<1>2. \A v \in View : /\ One(b, CallsOn("removeSpinner", v)) = 0 /\ One(b, CallsOn("addSpinner", v)) = 0
                      /\ One(b, Calls(KindOf(v))) = IF v = u THEN 1 ELSE 0
  <2> TAKE v \in View
  <2>1. b.callback \notin {"addSpinner", "removeSpinner"}
    BY <1>1
  <2>2. One(b, CallsOn("removeSpinner", v)) = 0 /\ One(b, CallsOn("addSpinner", v)) = 0
    BY <1>1, <2>1, OneBlock
  <2>3. b.callback = KindOf(v) <=> v = u
    BY <1>1, OneBlock
  <2>4. One(b, Calls(KindOf(v))) = IF v = u THEN 1 ELSE 0
    BY <1>1, <2>3, OneBlock
  <2> QED
    BY <2>2, <2>4
<1>3. \A v \in View : spinners[d][v] \in Nat /\ expiring[d][v] \in Nat
  BY DEF TypeInv, TypeOK
<1>4. /\ \A v \in View : expiring'[d][v] = IF v = u THEN expiring[d][v] + 1 ELSE expiring[d][v]
      /\ \A e \in Device \ {d} : expiring'[e] = expiring[e]
  BY DEF TypeInv, TypeOK
<1>5. \A v \in View :
             /\ spinners'[d][v] + One(b, CallsOn("removeSpinner", v))
                    = spinners[d][v] + One(b, CallsOn("addSpinner", v))
             /\ expiring'[d][v] = expiring[d][v] + One(b, Calls(KindOf(v)))
  BY <1>2, <1>3, <1>4
<1> QED
  BY <1>1, <1>4, <1>5, RunAccounts DEF b

LEMMA RedeemCompletedAccounts ==
    ASSUME TypeInv, TypeInv', Accounts, NEW d \in Device, RedeemCouponCompleted(d)
    PROVE  Accounts'
<1>1. /\ Front(d, KindOf("coupons")) /\ PopFront(d) /\ UNCHANGED <<mutationQueue, spinners>>
      /\ expiring' = [expiring EXCEPT ![d]["coupons"] = @ + 1] /\ "coupons" \in View
  BY DEF RedeemCouponCompleted, RedeemSucceeded, RedeemFailed, KindOf, View
<1> QED
  BY <1>1, AnswerRunsAccounts

LEMMA GiftCompletedAccounts ==
    ASSUME TypeInv, TypeInv', Accounts, NEW d \in Device, GiftCouponCompleted(d)
    PROVE  Accounts'
<1>1. "gift" \in View /\ KindOf("gift") = "gifted" /\ "coupons" \in View /\ KindOf("coupons") = "redeemed"
  BY DEF KindOf, View
<1>2. Front(d, KindOf("gift"))
  BY <1>1 DEF GiftCouponCompleted
<1>3. CASE /\ PopFront(d) /\ UNCHANGED <<mutationQueue, spinners>>
           /\ expiring' = [expiring EXCEPT ![d]["gift"] = @ + 1]
  BY <1>1, <1>2, <1>3, AnswerRunsAccounts
<1>4. CASE CloseSheet(d, Tail(mainQueue[d]))
  <2> DEFINE b == Head(mainQueue[d])
  <2>1. /\ mainQueue[d] # <<>> /\ mainQueue[d] \in Seq(Block) /\ b \in Block /\ b.callback = "gifted"
    BY <1>1, <1>2, HeadIsBlock
  <2>2. /\ mutationQueue[d] \in Seq(Mutation)
        /\ spinners[d]["coupons"] \in Nat /\ expiring[d]["coupons"] \in Nat
        /\ Account(mainQueue[d], mutationQueue[d], spinners[d]["coupons"], expiring[d]["coupons"], "coupons")
    BY <1>1, AccountFacts
  <2>3. /\ One(b, CallsOn("removeSpinner", "coupons")) = 0 /\ One(b, CallsOn("addSpinner", "coupons")) = 0
        /\ One(b, Calls(KindOf("coupons"))) = 0
    <3> HIDE DEF b
    <3> QED
      BY <1>1, <2>1, OneBlock
  <2> DEFINE n == spinners[d]["coupons"]
             t == expiring[d]["coupons"]
  <2>4. n \in Nat /\ t \in Nat /\ n + One(b, CallsOn("removeSpinner", "coupons"))
                = n + One(b, CallsOn("addSpinner", "coupons"))
    BY <2>2, <2>3
  <2> HIDE DEF n, t
  <2>5. Account(Tail(mainQueue[d]), mutationQueue[d], n, t + One(b, Calls(KindOf("coupons"))), "coupons")
    BY <1>1, <2>1, <2>2, <2>4, AccountPop DEF n, t
  <2>6. t + One(b, Calls(KindOf("coupons"))) = t
    BY <2>3, <2>4
  <2>7. Account(Tail(mainQueue[d]), mutationQueue[d], spinners[d]["coupons"], expiring[d]["coupons"], "coupons")
    BY <2>5, <2>6 DEF n, t
  <2>8. Tail(mainQueue[d]) \in Seq(Block)
    BY <2>1, HeadTailProperties
  <2> QED
    BY <1>4, <2>7, <2>8, SheetAccounts
<1> QED
  BY <1>3, <1>4 DEF GiftCouponCompleted, GiftSucceeded, GiftFailed

\* A request: its spinner is on its way, and its answer is awaited.
LEMMA RequestAccounts ==
    ASSUME TypeInv, TypeInv', Accounts, NEW d \in Device, NEW u \in View,
           Post(d, [callback |-> "addSpinner", on |-> u]),
           NEW m \in Mutation, m.callback = KindOf(u),
           mutationQueue' = [mutationQueue EXCEPT ![d] = Append(@, m)],
           UNCHANGED <<spinners, expiring>>
    PROVE  Accounts'
<1> DEFINE q == mainQueue[d]
           w == mutationQueue[d]
           b == [callback |-> "addSpinner", on |-> u]
<1>1. /\ mainQueue'[d] = Append(q, b) /\ mutationQueue'[d] = Append(w, m)
      /\ OthersAlone(d)
  BY DEF Post, OthersAlone, TypeInv, TypeOK, FirestoreTypeOK
<1>2. b \in Block /\ b.callback = "addSpinner" /\ b.on = u
  BY DEF Block, SpinnerBlock
<1> HIDE DEF b
<1>3. ASSUME NEW v \in View PROVE AccountOf(d, v)'
  <2>1. /\ q \in Seq(Block) /\ w \in Seq(Mutation)
        /\ spinners[d][v] \in Nat /\ expiring[d][v] \in Nat
        /\ Account(q, w, spinners[d][v], expiring[d][v], v)
    BY AccountFacts
  <2> HIDE DEF q, w
  <2> DEFINE a == Append(w, m)
             before == CountTo(w, Awaiting(KindOf(v)), Len(w))
             after == CountTo(a, Awaiting(KindOf(v)), Len(a))
             o == IF u = v THEN 1 ELSE 0
             t == expiring[d][v]
  <2>2. a \in Seq(Mutation) /\ Len(a) = Len(w) + 1 /\ Len(w) \in Nat
    BY <2>1, AppendProperties, LenProperties
  <2>3. One(m, Awaiting(KindOf(v))) = o
    BY OneBlock
  <2>4. CountTo(a, Awaiting(KindOf(v)), Len(w) + 1) = before + One(m, Awaiting(KindOf(v)))
    BY <2>1, CountAppend
  <2>5. before \in Nat /\ t \in Nat /\ o \in Nat /\ after = before + o
    BY <2>1, <2>2, <2>3, <2>4, CountToType
  <2>6. /\ One(b, CallsOn("addSpinner", v)) = o /\ One(b, CallsOn("removeSpinner", v)) = 0
        /\ One(b, Calls(KindOf(v))) = 0
    <3>1. KindOf(v) \in {"redeemed", "gifted"}
      BY DEF KindOf
    <3> QED
      BY <1>2, <3>1, OneBlock
  <2> HIDE DEF a, before, after, o, t
  <2>7. after + t + One(b, Calls(KindOf(v))) + One(b, CallsOn("removeSpinner", v))
            = before + t + One(b, CallsOn("addSpinner", v))
    <3>1. after + t + 0 + 0 = before + t + o
      BY <2>5
    <3> QED
      BY <2>6, <3>1
  <2>8. Account(Append(q, b), a, spinners[d][v], t, v)
    BY <1>2, <2>1, <2>2, <2>7, AccountPost DEF after, before, t
  <2> QED
    BY <1>1, <2>8 DEF AccountOf, a, t
<1> QED
  BY <1>1, <1>3, AccountsOfOne

LEMMA TappedAccounts ==
    ASSUME TypeInv, TypeInv', Accounts, NEW d \in Device, NEW id \in DocId,
           RedeemTapped(d, id) \/ SubmitTapped(d, id)
    PROVE  Accounts'
<1>1. screen[d] \in Who \cup {"closed"} /\ "coupons" \in View /\ "gift" \in View
  BY DEF TypeInv, TypeOK, View
<1>2. CASE RedeemTapped(d, id)
  <2> DEFINE m == NewMutation("update", <<screen[d], id>>, "redeemed", "redeemed")
  <2>1. <<screen[d], id>> \in Doc
    BY <1>1, <1>2, CollectionIsWho DEF RedeemTapped, ScreenTouchable, Doc
  <2>2. m \in Mutation /\ m.callback = KindOf("coupons")
    BY <2>1, ValueIsRedeemed, WriteCallbackIsKind DEF NewMutation, Mutation, MaybeValue, Version, KindOf
  <2>3. /\ Post(d, [callback |-> "addSpinner", on |-> "coupons"]) /\ UNCHANGED <<spinners, expiring>>
        /\ mutationQueue' = [mutationQueue EXCEPT ![d] = Append(@, m)]
    BY <1>2 DEF RedeemTapped, WriteMutation, screenVars
  <2> HIDE DEF m
  <2> QED
    BY <1>1, <2>2, <2>3, RequestAccounts
<1>3. CASE SubmitTapped(d, id)
  <2> DEFINE m == NewMutation("set", <<Other(screen[d]), id>>, "unredeemed", "gifted")
  <2>1. <<Other(screen[d]), id>> \in Doc
    BY CollectionIsWho DEF Doc, Other, Who
  <2>2. m \in Mutation /\ m.callback = KindOf("gift")
    BY <2>1, ValueIsRedeemed, WriteCallbackIsKind DEF NewMutation, Mutation, MaybeValue, Version, KindOf
  <2>3. /\ Post(d, [callback |-> "addSpinner", on |-> "gift"]) /\ UNCHANGED <<spinners, expiring>>
        /\ mutationQueue' = [mutationQueue EXCEPT ![d] = Append(@, m)]
    BY <1>3 DEF SubmitTapped, WriteMutation, screenVars
  <2> HIDE DEF m
  <2> QED
    BY <1>1, <2>2, <2>3, RequestAccounts
<1> QED
  BY <1>2, <1>3

\* A timer fires: its removal is posted.
LEMMA ExpiryAccounts ==
    ASSUME TypeInv, TypeInv', Accounts, NEW d \in Device, NEW u \in View, SpinnerExpires(d, u)
    PROVE  Accounts'
<1> DEFINE q == mainQueue[d]
           w == mutationQueue[d]
           b == [callback |-> "removeSpinner", on |-> u]
<1>1. /\ mainQueue'[d] = Append(q, b) /\ UNCHANGED <<mutationQueue, spinners>>
      /\ expiring[d][u] > 0 /\ expiring' = [expiring EXCEPT ![d][u] = @ - 1]
      /\ OthersAlone(d)
  BY DEF SpinnerExpires, Post, OthersAlone, clientVars, TypeInv, TypeOK
<1>2. b \in Block /\ b.callback = "removeSpinner" /\ b.on = u
  BY DEF Block, SpinnerBlock
<1> HIDE DEF b
<1>3. ASSUME NEW v \in View PROVE AccountOf(d, v)'
  <2>1. /\ q \in Seq(Block) /\ w \in Seq(Mutation)
        /\ spinners[d][v] \in Nat /\ expiring[d][v] \in Nat
        /\ Account(q, w, spinners[d][v], expiring[d][v], v)
    BY AccountFacts
  <2> HIDE DEF q, w
  <2> DEFINE l == CountTo(w, Awaiting(KindOf(v)), Len(w))
             o == IF u = v THEN 1 ELSE 0
             t == expiring[d][v]
             s == expiring'[d][v]
  <2>2. l \in Nat
    BY <2>1, CountToType, LenProperties
  <2>3. t \in Nat /\ s \in Nat /\ o \in Nat /\ s + o = t
    BY <1>1, <2>1 DEF TypeInv, TypeOK
  <2>4. /\ One(b, CallsOn("removeSpinner", v)) = o /\ One(b, CallsOn("addSpinner", v)) = 0
        /\ One(b, Calls(KindOf(v))) = 0
    <3>1. KindOf(v) \in {"redeemed", "gifted"}
      BY DEF KindOf
    <3> QED
      BY <1>2, <3>1, OneBlock
  <2> HIDE DEF l, o, t, s
  <2>5. l + s + One(b, Calls(KindOf(v))) + One(b, CallsOn("removeSpinner", v))
            = l + t + One(b, CallsOn("addSpinner", v))
    <3>1. l + s + 0 + o = l + t + 0
      BY <2>2, <2>3
    <3> QED
      BY <2>4, <3>1
  <2>6. Account(Append(q, b), w, spinners[d][v], s, v)
    <3>1. Account(q, w, spinners[d][v], t, v)
      BY <2>1 DEF t
    <3> QED
      BY <1>2, <2>1, <2>3, <2>5, <3>1, AccountPost DEF l
  <2> QED
    BY <1>1, <2>6 DEF AccountOf, w, s
<1> QED
  BY <1>1, <1>3, AccountsOfOne

LEMMA AccountsStep == TypeInv /\ Accounts /\ [Next]_vars /\ TypeInv' => Accounts'
<1> SUFFICES ASSUME TypeInv, TypeInv', Accounts, [Next]_vars PROVE Accounts'
  OBVIOUS
<1>1. CASE UNCHANGED vars
  BY <1>1 DEF vars, screenVars, firestoreVars, clientVars, Accounts
<1>2. CASE Next
  <2>1. PICK d \in Device :
          \/ Touch(d) \/ MainBlock(d) \/ (\E v \in View : SpinnerExpires(d, v))
          \/ (ClientEvent(d) /\ UNCHANGED <<screenVars, historyVars>>)
          \/ WriteRefused(d) \/ Kill(d)
    BY <1>2 DEF Next
  <2>2. CASE Kill(d) \/ CloseTapped(d)
    BY <2>2, ClosedAccounts
  <2>3. CASE ClientEvent(d) /\ UNCHANGED <<screenVars, historyVars>>
    BY <2>3, ClientAccounts
  <2>4. CASE WriteRefused(d)
    BY <2>4, ClientAccounts DEF WriteRefused
  <2>5. CASE MainBlock(d)
    BY <2>5, FetchCompletedAccounts, RedeemCompletedAccounts, GiftCompletedAccounts,
       SpinnerRunsAccounts DEF MainBlock
  <2>6. CASE \E v \in View : SpinnerExpires(d, v)
    BY <2>6, ExpiryAccounts
  <2>7. CASE (\E who \in Who : OpenCoupons(d, who)) \/ GiftTapped(d) \/ SubmitIncomplete(d) \/ AlertDismissed(d)
    <3>1. UNCHANGED <<mainQueue, spinners, expiring, mutationQueue>>
      BY <2>7 DEF OpenCoupons, GiftTapped, SubmitIncomplete, AlertDismissed, firestoreVars, clientVars
    <3> QED
      BY <3>1, QuietAccounts
  <2>8. CASE \E id \in DocId : RedeemTapped(d, id) \/ SubmitTapped(d, id)
    BY <2>8, TappedAccounts
  <2>9. CASE SheetSwiped(d)
    <3>1. CloseSheet(d, mainQueue[d])
      BY <2>9 DEF SheetSwiped
    <3>2. mainQueue[d] \in Seq(Block) /\ "coupons" \in View
      BY DEF TypeInv, TypeOK, View
    <3>3. Account(mainQueue[d], mutationQueue[d], spinners[d]["coupons"], expiring[d]["coupons"], "coupons")
      BY <3>2, AccountFacts
    <3> QED
      BY <3>1, <3>2, <3>3, SheetAccounts
  <2> QED
    BY <2>1, <2>2, <2>3, <2>4, <2>5, <2>6, <2>7, <2>8, <2>9 DEF Touch
<1> QED
  BY <1>1, <1>2

\* Every spinner, on a view or on its way, belongs to a request that is
\* still awaited, to an answer about to be told, or to a timer: on no device,
\* after no sequence of touches, answers, failures and kills, is anybody left
\* behind a spinner for good (displaySpinner, removeSpinner and the
\* completions of redeemCoupon and giftCoupon).
THEOREM SpinnersAreAccounted == Spec => []SpinnersAccounted
<1>1. Init => Accounts
  BY AccountsInit
<1>2. TypeInv /\ Accounts /\ [Next]_vars /\ TypeInv' => Accounts'
  BY AccountsStep
<1>3. TypeInv /\ Accounts => SpinnersAccounted
  BY AccountsBalance
<1> QED
  BY <1>1, <1>2, <1>3, TypeInvariant, PTL DEF Spec

(***************************************************************************)
(* What the carousel shows is explained.  The copies that a device has of  *)
(* a coupon, and the answers posted to its screen, say "redeemed" only if  *)
(* the redeem has happened, is queued here or was refused, none of which   *)
(* any step undoes.                                                        *)
(***************************************************************************)
Explained(d, doc) ==
    LET r == <<"update", doc>> IN Happened(r) \/ QueuedOn(d, r) \/ r \in refused

CopiesTrue ==
    \A d \in Device, doc \in Doc :
        /\ documentCache[d][doc].value = "redeemed" => Happened(<<"update", doc>>)
        /\ \A s \in watchStream[d] :
            s.collection = doc[1] /\ s.docs[doc[2]].value = "redeemed" => Happened(<<"update", doc>>)

ListensOwn == \A d \in Device, coll \in Collection : listeners[d][coll] > 0 => coll = screen[d]

\* What a screen shows, or is about to, it has reason to show.
BackedFor(d, who, docs) ==
    \A id \in DocId : docs[id] = "redeemed" => who # "closed" /\ Explained(d, <<who, id>>)
Backed(d, docs) == BackedFor(d, screen[d], docs)

ShowsBacked ==
    \A d \in Device :
        /\ Backed(d, coupons[d])
        /\ \A i \in DOMAIN mainQueue[d] :
            mainQueue[d][i].callback = "fetched" => Backed(d, mainQueue[d][i].docs)

ShownInv == CopiesTrue /\ ListensOwn /\ ShowsBacked

LEMMA CouponNames ==
    /\ NoDocument # "unredeemed" /\ NoDocument # "redeemed"
    /\ NoCallback \notin {"redeemed", "gifted", "fetched"}
    /\ \A who \in Who, id \in DocId : <<who, id>> \in Doc /\ <<"update", <<who, id>>>> \in Request
    /\ \A doc \in Doc : <<"update", doc>> \in Request /\ doc = <<doc[1], doc[2]>>
                        /\ doc[1] \in Collection /\ doc[2] \in DocId
    /\ "closed" \notin Collection
<1>1. /\ NoDocument # "unredeemed" /\ NoDocument # "redeemed"
      /\ NoCallback \notin {"redeemed", "gifted", "fetched"}
  BY NoDocumentAssumption, ValueIsRedeemed, NoCallbackAssumption, WriteCallbackIsKind
<1>2. \A doc \in Doc : /\ <<"update", doc>> \in Request /\ doc = <<doc[1], doc[2]>>
                       /\ doc[1] \in Collection /\ doc[2] \in DocId
  BY DEF Doc, Request
<1>3. \A who \in Who, id \in DocId : <<who, id>> \in Doc
  BY CollectionIsWho DEF Doc
<1>4. "closed" \notin Collection
  BY CollectionIsWho DEF Who
<1> QED
  BY <1>1, <1>2, <1>3, <1>4

LEMMA ShownInit == Init => ShownInv
<1> SUFFICES ASSUME Init PROVE ShownInv
  OBVIOUS
<1>1. /\ \A d \in Device, doc \in Doc : documentCache[d][doc].value = NoDocument
      /\ \A d \in Device : watchStream[d] = {} /\ mainQueue[d] = <<>> /\ coupons[d] = NoCoupons
      /\ \A d \in Device, coll \in Collection : listeners[d][coll] = 0
  BY DEF Init, FirestoreInit, Missing
<1> QED
  BY <1>1, CouponNames DEF ShownInv, CopiesTrue, ListensOwn, ShowsBacked, Backed, BackedFor, NoCoupons

\* What has happened stays so, and what explains a coupon.
LEMMA HappenedStays ==
    ASSUME TypeInv, LedgerInv, Next
    PROVE  \A r \in Request : Happened(r) => Happened(r)'
<1>1. PICK d \in Device :
        \/ Quiet(d)
        \/ \E id \in DocId : RedeemTapped(d, id) \/ SubmitTapped(d, id)
        \/ RedeemCouponCompleted(d) \/ GiftCouponCompleted(d)
        \/ Commit(d) /\ UNCHANGED historyVars
        \/ HandleSuccessfulWrite(d) /\ UNCHANGED historyVars
        \/ WriteRefused(d)
  BY StepCases
<1>2. CASE Commit(d) /\ UNCHANGED historyVars
  <2>1. PICK i \in DOMAIN mutationQueue[d] : WriteMade(d, i)
    BY <1>2, CommitMakesWrite DEF TypeInv, TypeOK
  <2>2. PICK m : m = mutationQueue[d][i]
    OBVIOUS
  <2>3. /\ m \in Mutation /\ CouponWrite(m) /\ Made(m)
        /\ m.op = "set" => <<"set", m.doc>> \in requested
    BY <2>1, <2>2, CommitMakes DEF WriteMade, LedgerInv, QueuesWell, WellQueued
  <2> QED
    BY <1>2, <2>3, MadeKeeps DEF historyVars
<1>3. CASE ~(Commit(d) /\ UNCHANGED historyVars)
  <2>1. Quiet(d) => server' = server
    BY QuietActionsDo
  <2>2. server' = server
    BY <1>1, <1>3, <2>1
       DEF RedeemTapped, SubmitTapped, RedeemCouponCompleted, GiftCouponCompleted,
           HandleSuccessfulWrite, WriteRefused, HandleRejectedWrite, serverVars
  <2> QED
    BY <2>2, HappenedKept
<1> QED
  BY <1>2, <1>3

LEMMA LeavingExplained ==
    ASSUME TypeInv, LedgerInv, NEW d \in Device, NEW ok \in BOOLEAN, mutationQueue[d] # <<>>,
           mutationQueue' = [mutationQueue EXCEPT ![d] = Tail(@)], refused \subseteq refused',
           LET m == Head(mutationQueue[d])
           IN  IF ok THEN m.committed ELSE <<m.op, m.doc>> \in refused',
           NEW e \in Device, NEW r, r[1] = "update", r = <<r[1], r[2]>>, QueuedOn(e, r)
    PROVE  Happened(r) \/ QueuedOn(e, r)' \/ r \in refused'
<1>1. PICK j \in DOMAIN mutationQueue[e] :
        mutationQueue[e][j].op = r[1] /\ mutationQueue[e][j].doc = r[2]
  BY DEF QueuedOn
<1>2. /\ 1 \in DOMAIN mutationQueue[d] /\ Head(mutationQueue[d]) = mutationQueue[d][1]
      /\ \A f \in Device : \A k \in DOMAIN mutationQueue[f] :
            (f = d => k # 1) =>
                \E i \in DOMAIN mutationQueue'[f] : mutationQueue'[f][i] = mutationQueue[f][k]
  BY OthersStay
<1>3. CASE e = d => j # 1
  BY <1>1, <1>2, <1>3 DEF QueuedOn
<1>4. CASE e = d /\ j = 1
  <2>1. PICK m : m = Head(mutationQueue[d])
    OBVIOUS
  <2>2. WellQueued(m) /\ <<m.op, m.doc>> = r
    BY <1>1, <1>2, <1>4, <2>1 DEF LedgerInv, QueuesWell
  <2> QED
    BY <2>1, <2>2 DEF WellQueued
<1> QED
  BY <1>3, <1>4

LEMMA ExplainedStays ==
    ASSUME TypeInv, LedgerInv, Next
    PROVE  \A e \in Device, doc \in Doc : Explained(e, doc) => Explained(e, doc)'
<1> SUFFICES ASSUME NEW e \in Device, NEW doc \in Doc, NEW r, r = <<"update", doc>>,
                    Happened(r) \/ QueuedOn(e, r) \/ r \in refused
             PROVE  Happened(r)' \/ QueuedOn(e, r)' \/ r \in refused'
  BY DEF Explained
<1>0. r \in Request /\ r[1] = "update" /\ r = <<r[1], r[2]>>
  BY CouponNames
<1>1. Happened(r) => Happened(r)'
  BY <1>0, HappenedStays
<1>2. PICK d \in Device :
        \/ Quiet(d)
        \/ \E id \in DocId : RedeemTapped(d, id) \/ SubmitTapped(d, id)
        \/ RedeemCouponCompleted(d) \/ GiftCouponCompleted(d)
        \/ Commit(d) /\ UNCHANGED historyVars
        \/ HandleSuccessfulWrite(d) /\ UNCHANGED historyVars
        \/ WriteRefused(d)
  BY StepCases
<1>3. CASE SameWrites /\ refused' = refused
  BY <1>1, <1>3 DEF SameWrites, QueuedOn
<1>4. CASE Quiet(d)
  BY <1>3, <1>4, QuietActionsDo
<1>5. CASE RedeemCouponCompleted(d) \/ GiftCouponCompleted(d)
  BY <1>3, <1>5, CompletionKeeps
<1>6. CASE \E id \in DocId : RedeemTapped(d, id) \/ SubmitTapped(d, id)
  <2>1. PICK m : mutationQueue' = [mutationQueue EXCEPT ![d] = Append(@, m)] /\ refused' = refused
    BY <1>6 DEF RedeemTapped, SubmitTapped, WriteMutation
  <2>2. mutationQueue[d] \in Seq(Mutation) /\ mutationQueue \in [Device -> Seq(Mutation)]
    BY DEF TypeInv, TypeOK, FirestoreTypeOK
  <2>3. \A i \in DOMAIN mutationQueue[e] :
            i \in DOMAIN mutationQueue'[e] /\ mutationQueue'[e][i] = mutationQueue[e][i]
    <3>1. CASE e = d
      <4>1. mutationQueue'[e] = Append(mutationQueue[e], m)
        BY <2>1, <2>2, <3>1
      <4>2. mutationQueue[e] \in Seq(Mutation)
        BY <2>2, <3>1
      <4>3. \A i \in 1..Len(mutationQueue[e]) :
                i \in 1..(Len(mutationQueue[e]) + 1)
                /\ Append(mutationQueue[e], m)[i] = mutationQueue[e][i]
        BY <4>2
      <4>4. /\ DOMAIN mutationQueue[e] = 1..Len(mutationQueue[e])
            /\ DOMAIN Append(mutationQueue[e], m) = 1..(Len(mutationQueue[e]) + 1)
        BY <4>2
      <4> QED
        BY <4>1, <4>3, <4>4
    <3>2. CASE e # d
      BY <2>1, <2>2, <3>2
    <3> QED
      BY <3>1, <3>2
  <2> QED
    BY <1>1, <2>1, <2>3 DEF QueuedOn
<1>7. CASE Commit(d) /\ UNCHANGED historyVars
  <2>1. PICK i \in DOMAIN mutationQueue[d] : WriteMade(d, i)
    BY <1>7, CommitMakesWrite DEF TypeInv, TypeOK
  <2>2. QueuedOn(e, r) => QueuedOn(e, r)'
    BY <2>1 DEF WriteMade, QueuedOn
  <2> QED
    BY <1>1, <1>7, <2>2 DEF historyVars
<1>8. CASE \/ HandleSuccessfulWrite(d) /\ UNCHANGED historyVars
           \/ WriteRefused(d)
  <2>1. \E ok \in BOOLEAN :
            /\ mutationQueue[d] # <<>> /\ mutationQueue' = [mutationQueue EXCEPT ![d] = Tail(@)]
            /\ refused \subseteq refused'
            /\ LET m == Head(mutationQueue[d])
               IN  IF ok THEN m.committed ELSE <<m.op, m.doc>> \in refused'
    BY <1>8 DEF HandleSuccessfulWrite, Answered, WriteRefused, HandleRejectedWrite, historyVars
  <2>2. QueuedOn(e, r) => Happened(r) \/ QueuedOn(e, r)' \/ r \in refused'
    BY <1>0, <2>1, LeavingExplained
  <2> QED
    BY <1>1, <2>1, <2>2
<1> QED
  BY <1>2, <1>4, <1>5, <1>6, <1>7, <1>8

(***************************************************************************)
(* Copies: a device reads the server, takes what it has read, or keeps the *)
(* write that was answered.                                                *)
(***************************************************************************)
CopiesFrom ==
    \A d \in Device, doc \in Doc :
        /\ documentCache'[d][doc].value = "redeemed" =>
              \/ documentCache[d][doc].value = "redeemed"
              \/ \E s \in watchStream[d] : s.collection = doc[1] /\ s.docs[doc[2]].value = "redeemed"
              \/ Happened(<<"update", doc>>)
        /\ \A s \in watchStream'[d] : s.collection = doc[1] /\ s.docs[doc[2]].value = "redeemed" =>
              s \in watchStream[d] \/ server[doc].value = "redeemed"

LEMMA SameCopies ==
    ASSUME documentCache' = documentCache, \A d \in Device : watchStream'[d] \subseteq watchStream[d]
    PROVE  CopiesFrom
  BY DEF CopiesFrom

LEMMA AnsweredCopies ==
    ASSUME TypeInv, LedgerInv, NEW d \in Device, HandleSuccessfulWrite(d)
    PROVE  CopiesFrom
<1>0. PICK m : m = Head(mutationQueue[d])
  OBVIOUS
<1>1. LET n == Head(mutationQueue[d]) IN
        /\ mutationQueue[d] # <<>> /\ n \in Mutation /\ n.committed
        /\ \A e \in Device, doc \in Doc :
            ~(e = d /\ doc = n.doc) => documentCache'[e][doc] = documentCache[e][doc]
        /\ documentCache'[d][n.doc] =
            IF documentCache[d][n.doc].version < n.version
            THEN [value |-> ApplyMutation(n, documentCache[d][n.doc].value), version |-> n.version]
            ELSE documentCache[d][n.doc]
  BY HandleSuccessfulWriteDoes DEF TypeInv, TypeOK
<1>2. /\ mutationQueue[d] # <<>> /\ m \in Mutation /\ m.committed
      /\ \A e \in Device, doc \in Doc :
            ~(e = d /\ doc = m.doc) => documentCache'[e][doc] = documentCache[e][doc]
      /\ documentCache'[d][m.doc] =
            IF documentCache[d][m.doc].version < m.version
            THEN [value |-> ApplyMutation(m, documentCache[d][m.doc].value), version |-> m.version]
            ELSE documentCache[d][m.doc]
  BY <1>0, <1>1
<1>3. watchStream' = watchStream
  BY DEF HandleSuccessfulWrite
<1>4. mutationQueue[d] \in Seq(Mutation)
  BY DEF TypeInv, TypeOK, FirestoreTypeOK
<1>5. 1 \in DOMAIN mutationQueue[d] /\ m = mutationQueue[d][1]
  BY <1>0, <1>2, <1>4, TailElement
<1>6. CouponWrite(m) /\ WellQueued(m)
  BY <1>5 DEF TypeInv, CouponWrites, LedgerInv, QueuesWell
<1>7. /\ m.op = "update" => Happened(<<"update", m.doc>>)
      /\ m.op = "set" => m.value = "unredeemed"
      /\ m.op \in {"set", "update"}
  BY <1>2, <1>6 DEF WellQueued, CouponWrite
<1>8. ASSUME m.op = "set" PROVE ApplyMutation(m, documentCache[d][m.doc].value) # "redeemed"
  BY <1>7, <1>8, CouponNames DEF ApplyMutation
<1>9. documentCache'[d][m.doc].value = "redeemed" =>
        documentCache[d][m.doc].value = "redeemed" \/ Happened(<<"update", m.doc>>)
  BY <1>2, <1>7, <1>8
<1> QED
  BY <1>2, <1>3, <1>9 DEF CopiesFrom

LEMMA FetchedCopies ==
    ASSUME TypeInv, NEW d \in Device,
           ApplyRemoteEvent(d) \/ HandleOnlineStateChange(d) \/ HandleRejectedListen(d)
    PROVE  CopiesFrom
<1>1. QueueTypes(Block)
  BY DEF TypeInv, TypeOK, QueueTypes, Block
<1>2. /\ \A e \in Device \ {d} : documentCache'[e] = documentCache[e]
      /\ \A doc \in Doc :
            \/ documentCache'[d][doc] = documentCache[d][doc]
            \/ \E s \in watchStream[d] : /\ s.collection = doc[1]
                                        /\ documentCache'[d][doc] = s.docs[doc[2]]
      /\ \A e \in Device : watchStream'[e] \subseteq watchStream[e]
  BY <1>1, FetchesAnswered
<1> QED
  BY <1>2 DEF CopiesFrom

LEMMA SentCopies ==
    ASSUME TypeInv, NEW d \in Device, SendWatchSnapshot(d)
    PROVE  CopiesFrom
<1>1. PICK coll \in listenTargets[d] :
        watchStream' = [watchStream EXCEPT ![d] = @ \cup
            {[collection |-> coll, docs |-> [id \in DocId |-> server[<<coll, id>>]]]}]
  BY DEF SendWatchSnapshot
<1>2. PICK s : s = [collection |-> coll, docs |-> [id \in DocId |-> server[<<coll, id>>]]]
  OBVIOUS
<1>3. documentCache' = documentCache /\ watchStream \in [Device -> SUBSET WatchSnapshot]
  BY DEF SendWatchSnapshot, TypeInv, TypeOK, FirestoreTypeOK
<1>4. /\ watchStream'[d] = watchStream[d] \cup {s}
      /\ \A e \in Device \ {d} : watchStream'[e] = watchStream[e]
  BY <1>1, <1>2, <1>3
<1>5. \A doc \in Doc : s.collection = doc[1] => s.docs[doc[2]] = server[doc]
  <2> SUFFICES ASSUME NEW doc \in Doc, s.collection = doc[1] PROVE s.docs[doc[2]] = server[doc]
    OBVIOUS
  <2>1. doc = <<coll, doc[2]>> /\ doc[2] \in DocId
    BY <1>2, CouponNames
  <2> QED
    BY <1>2, <2>1
<1> QED
  BY <1>3, <1>4, <1>5 DEF CopiesFrom

LEMMA CopiesStep ==
    ASSUME TypeInv, LedgerInv, CopiesTrue, Next
    PROVE  CopiesTrue'
<1> SUFFICES CopiesFrom
  <2>1. \A doc \in Doc : Happened(<<"update", doc>>) => Happened(<<"update", doc>>)'
    BY HappenedStays, CouponNames
  <2>2. \A doc \in Doc : server[doc].value = "redeemed" => Happened(<<"update", doc>>)
    BY DEF Happened, OnServer
  <2> QED
    BY <2>1, <2>2 DEF CopiesFrom, CopiesTrue
<1>1. PICK d \in Device :
        \/ Touch(d)
        \/ MainBlock(d)
        \/ \E v \in View : SpinnerExpires(d, v)
        \/ ClientEvent(d) /\ UNCHANGED <<screenVars, historyVars>>
        \/ WriteRefused(d)
        \/ Kill(d)
  BY DEF Next
<1>2. CASE documentCache' = documentCache /\ watchStream' = watchStream
  BY <1>2, SameCopies
<1>3. CASE Touch(d)
  BY <1>2, <1>3 DEF Touch, OpenCoupons, CloseTapped, RedeemTapped, SubmitTapped, GiftTapped, SubmitIncomplete,
                    SheetSwiped, AlertDismissed, firestoreVars, clientVars
<1>4. CASE MainBlock(d)
  BY <1>2, <1>4 DEF MainBlock, FetchCouponsCompleted, RedeemCouponCompleted, GiftCouponCompleted, SpinnerAdded,
                    SpinnerRemoved, NothingLeftToDo, clientVars
<1>5. CASE \E v \in View : SpinnerExpires(d, v)
  BY <1>2, <1>5 DEF SpinnerExpires, clientVars
<1>6. CASE ClientEvent(d)
  <2>1. CASE Commit(d) \/ Connect(d)
    BY <1>2, <2>1 DEF Commit, Connect, clientVars
  <2>2. CASE Disconnect(d)
    BY <2>2, SameCopies DEF Disconnect, TypeInv, TypeOK, FirestoreTypeOK
  <2> QED
    BY <1>6, <2>1, <2>2, AnsweredCopies, FetchedCopies, SentCopies DEF ClientEvent
<1>7. CASE WriteRefused(d)
  BY <1>2, <1>7 DEF WriteRefused, HandleRejectedWrite
<1>8. CASE Kill(d)
  BY <1>8, SameCopies DEF Kill, KillProcess, TypeInv, TypeOK, FirestoreTypeOK
<1> QED
  BY <1>1, <1>3, <1>4, <1>5, <1>6, <1>7, <1>8

(***************************************************************************)
(* Screens: a fetch that is awaited is of the coupons on screen, and what  *)
(* the screen shows was posted to it.                                      *)
(***************************************************************************)
LEMMA ListensStep ==
    ASSUME TypeInv, ListensOwn, Next
    PROVE  ListensOwn'
<1>0. listeners \in [Device -> [Collection -> Nat]] /\ screen \in [Device -> Who \cup {"closed"}]
  BY DEF TypeInv, TypeOK, FirestoreTypeOK
<1>1. PICK d \in Device :
        \/ Touch(d)
        \/ MainBlock(d)
        \/ \E v \in View : SpinnerExpires(d, v)
        \/ ClientEvent(d) /\ UNCHANGED <<screenVars, historyVars>>
        \/ WriteRefused(d)
        \/ Kill(d)
  BY DEF Next
<1>2. CASE listeners' = listeners /\ screen' = screen
  BY <1>2 DEF ListensOwn
<1>3. CASE /\ listeners' = [listeners EXCEPT ![d] = [coll \in Collection |-> 0]]
           /\ \A e \in Device \ {d} : screen'[e] = screen[e]
  BY <1>0, <1>3 DEF ListensOwn
<1>4. CASE Touch(d)
  <2>1. CASE \E who \in Who : OpenCoupons(d, who)
    <3>1. PICK who \in Who : OpenCoupons(d, who)
      BY <2>1
    <3>2. /\ screen[d] = "closed" /\ screen' = [screen EXCEPT ![d] = who]
          /\ listeners' = [listeners EXCEPT ![d][who] = @ + 1]
      BY <3>1 DEF OpenCoupons, GetDocuments
    <3>3. \A coll \in Collection : listeners[d][coll] = 0
      <4>1. \A coll \in Collection : coll # "closed" /\ listeners[d][coll] \in Nat
        BY <1>0, CouponNames
      <4> QED
        BY <3>2, <4>1 DEF ListensOwn
    <3>4. /\ \A coll \in Collection \ {who} : listeners'[d][coll] = 0
          /\ \A e \in Device \ {d} : listeners'[e] = listeners[e] /\ screen'[e] = screen[e]
          /\ screen'[d] = who
      BY <1>0, <3>2, <3>3
    <3> QED
      BY <3>4 DEF ListensOwn
  <2>2. CASE CloseTapped(d)
    BY <1>0, <1>3, <2>2 DEF CloseTapped, ResetScreen, ReleaseHandlers
  <2> QED
    BY <1>2, <1>4, <2>1, <2>2
       DEF Touch, RedeemTapped, SubmitTapped, GiftTapped, SubmitIncomplete, SheetSwiped, AlertDismissed,
           firestoreVars, clientVars, screenVars
<1>5. CASE MainBlock(d)
  <2>1. CASE RedeemCouponCompleted(d)
    <3>1. screen' = screen /\ (GetDocuments(d, screen[d]) \/ listeners' = listeners)
      BY <2>1 DEF RedeemCouponCompleted, RedeemSucceeded, RedeemFailed
    <3>2. CASE GetDocuments(d, screen[d])
      <4>1. listeners' = [listeners EXCEPT ![d][screen[d]] = @ + 1]
        BY <3>2 DEF GetDocuments
      <4>2. \A e \in Device, coll \in Collection :
                listeners'[e][coll] = listeners[e][coll] \/ (e = d /\ coll = screen[d])
        BY <1>0, <4>1
      <4> QED
        BY <3>1, <4>2 DEF ListensOwn
    <3> QED
      BY <1>2, <3>1, <3>2
  <2> QED
    BY <1>2, <1>5, <2>1 DEF MainBlock, FetchCouponsCompleted, GiftCouponCompleted, SpinnerAdded, SpinnerRemoved,
                            NothingLeftToDo, clientVars, screenVars
<1>6. CASE \E v \in View : SpinnerExpires(d, v)
  BY <1>2, <1>6 DEF SpinnerExpires, clientVars
<1>7. CASE ClientEvent(d) /\ UNCHANGED <<screenVars, historyVars>>
  <2>1. CASE ApplyRemoteEvent(d) \/ HandleOnlineStateChange(d) \/ HandleRejectedListen(d)
    <3>1. QueueTypes(Block)
      BY DEF TypeInv, TypeOK, QueueTypes, Block
    <3>2. PICK coll \in Collection : listeners' = [listeners EXCEPT ![d][coll] = 0]
      BY <2>1, <3>1, FetchesPosted
    <3>3. \A e \in Device, c \in Collection : listeners'[e][c] = listeners[e][c] \/ listeners'[e][c] = 0
      BY <1>0, <3>2
    <3> QED
      BY <1>7, <3>3 DEF ListensOwn, screenVars
  <2> QED
    BY <1>2, <1>7, <2>1 DEF ClientEvent, Commit, HandleSuccessfulWrite, SendWatchSnapshot, Disconnect, Connect,
                            clientVars, screenVars
<1>8. CASE WriteRefused(d)
  BY <1>2, <1>8 DEF WriteRefused, HandleRejectedWrite, screenVars
<1>9. CASE Kill(d)
  BY <1>0, <1>3, <1>9 DEF Kill, KillProcess, ResetScreen
<1> QED
  BY <1>1, <1>4, <1>5, <1>6, <1>7, <1>8, <1>9

BlocksFrom(d) ==
    \A i \in DOMAIN mainQueue'[d] : mainQueue'[d][i].callback = "fetched" =>
        \/ \E j \in DOMAIN mainQueue[d] : mainQueue'[d][i] = mainQueue[d][j]
        \/ \A docs : docs = mainQueue'[d][i].docs => Backed(d, docs)'

ScreenFrom(d) ==
    /\ \/ screen'[d] = screen[d] \/ screen[d] = "closed"
       \/ coupons'[d] = NoCoupons /\ mainQueue'[d] = <<>>
    /\ \/ coupons'[d] \in {coupons[d], NoCoupons}
       \/ \E i \in DOMAIN mainQueue[d] : /\ mainQueue[d][i].callback = "fetched"
                                         /\ coupons'[d] = mainQueue[d][i].docs
    /\ BlocksFrom(d)

LEMMA ShowsStep ==
    ASSUME TypeInv, LedgerInv, ShowsBacked, Next, \A d \in Device : ScreenFrom(d)
    PROVE  ShowsBacked'
<1> SUFFICES ASSUME NEW d \in Device
             PROVE  /\ \A docs : docs = coupons'[d] => Backed(d, docs)'
                    /\ \A i \in DOMAIN mainQueue'[d] : mainQueue'[d][i].callback = "fetched" =>
                        \A docs : docs = mainQueue'[d][i].docs => Backed(d, docs)'
  BY DEF ShowsBacked, Backed
<1>1. /\ ScreenFrom(d) /\ screen[d] \in Who \cup {"closed"}
      /\ \A doc \in Doc : Explained(d, doc) => Explained(d, doc)'
  BY ExplainedStays DEF TypeInv, TypeOK
<1>2. \A docs : (\A id \in DocId : docs[id] # "redeemed") => Backed(d, docs)'
  BY DEF Backed, BackedFor
<1>3. \A id \in DocId : NoCoupons[id] # "redeemed"
  BY CouponNames DEF NoCoupons
<1>4. CASE coupons'[d] = NoCoupons /\ mainQueue'[d] = <<>>
  BY <1>2, <1>3, <1>4
<1>5. CASE screen'[d] = screen[d] \/ screen[d] = "closed"
  <2>1. ASSUME NEW docs, Backed(d, docs) PROVE Backed(d, docs)'
    <3>1. CASE screen[d] = "closed"
      BY <1>2, <2>1, <3>1 DEF Backed, BackedFor
    <3>2. CASE screen[d] # "closed" /\ screen'[d] = screen[d]
      <4>1. PICK who \in Who : who = screen[d] /\ who = screen'[d]
        BY <1>1, <3>2
      <4>2. \A id \in DocId : <<who, id>> \in Doc
        BY CouponNames
      <4>3. BackedFor(d, who, docs)
        BY <2>1, <4>1 DEF Backed
      <4>4. \A id \in DocId : Explained(d, <<who, id>>) => Explained(d, <<who, id>>)'
        BY <1>1, <4>2
      <4>5. BackedFor(d, who, docs)'
        BY <4>3, <4>4 DEF BackedFor
      <4> QED
        BY <4>1, <4>5 DEF Backed
    <3> QED
      BY <1>5, <3>1, <3>2
  <2>2. /\ Backed(d, coupons[d])
        /\ \A i \in DOMAIN mainQueue[d] :
            mainQueue[d][i].callback = "fetched" => Backed(d, mainQueue[d][i].docs)
    BY DEF ShowsBacked
  <2>3. \A docs : docs = coupons'[d] => Backed(d, docs)'
    BY <1>1, <1>2, <1>3, <2>1, <2>2 DEF ScreenFrom
  <2>4. \A i \in DOMAIN mainQueue'[d] : mainQueue'[d][i].callback = "fetched" =>
            \A docs : docs = mainQueue'[d][i].docs => Backed(d, docs)'
    BY <1>1, <2>1, <2>2 DEF ScreenFrom, BlocksFrom
  <2> QED
    BY <2>3, <2>4
<1> QED
  BY <1>1, <1>4, <1>5 DEF ScreenFrom

NoNewFetches ==
    \A d \in Device : \A i \in DOMAIN mainQueue'[d] : mainQueue'[d][i].callback = "fetched" =>
        \E j \in DOMAIN mainQueue[d] : mainQueue'[d][i] = mainQueue[d][j]

LEMMA NoFetches ==
    ASSUME TypeInv, NEW d \in Device
    PROVE  /\ mainQueue' = mainQueue => NoNewFetches
           /\ \A b : Post(d, b) /\ b.callback # "fetched" => NoNewFetches
           /\ mainQueue[d] # <<>> /\ PopFront(d) => NoNewFetches
           /\ \A m, ok : NotifyUser(d, m, ok) /\ m.callback # "fetched" => NoNewFetches
<1>0. mainQueue \in [Device -> Seq(Block)] /\ mainQueue[d] \in Seq(Block)
  BY DEF TypeInv, TypeOK
<1>1. mainQueue' = mainQueue => NoNewFetches
  BY DEF NoNewFetches
<1>2. ASSUME NEW b, Post(d, b), b.callback # "fetched" PROVE NoNewFetches
  <2>1. \A i \in DOMAIN Append(mainQueue[d], b) :
            \/ Append(mainQueue[d], b)[i] = b
            \/ i \in DOMAIN mainQueue[d] /\ Append(mainQueue[d], b)[i] = mainQueue[d][i]
    BY <1>0, AppendElement
  <2> QED
    BY <1>0, <1>2, <2>1 DEF Post, NoNewFetches
<1>3. ASSUME mainQueue[d] # <<>>, PopFront(d) PROVE NoNewFetches
  <2>1. \A i \in DOMAIN Tail(mainQueue[d]) :
            i + 1 \in DOMAIN mainQueue[d] /\ Tail(mainQueue[d])[i] = mainQueue[d][i + 1]
    BY <1>0, <1>3, TailElement
  <2> QED
    BY <1>0, <1>3, <2>1 DEF PopFront, NoNewFetches
<1>4. ASSUME NEW m, NEW ok, NotifyUser(d, m, ok), m.callback # "fetched" PROVE NoNewFetches
  <2>1. PICK b : b = [callback |-> m.callback, ok |-> ok, doc |-> m.doc]
    OBVIOUS
  <2>2. b.callback # "fetched" /\ (mainQueue' = mainQueue \/ Post(d, b))
    BY <1>4, <2>1 DEF NotifyUser, Post
  <2> QED
    BY <1>1, <1>2, <2>2
<1> QED
  BY <1>1, <1>2, <1>3, <1>4

LEMMA SheetFetches ==
    ASSUME TypeInv, NEW d \in Device, NEW queue, CloseSheet(d, queue),
           \A i \in DOMAIN queue : \E j \in DOMAIN mainQueue[d] : queue[i] = mainQueue[d][j]
    PROVE  NoNewFetches
<1>1. /\ mainQueue'[d] = [i \in DOMAIN queue |-> WithoutSheet(queue[i])]
      /\ \A e \in Device \ {d} : mainQueue'[e] = mainQueue[e]
  BY DEF CloseSheet, TypeInv, TypeOK
<1>2. \A b : WithoutSheet(b).callback = "fetched" => WithoutSheet(b) = b
  BY CouponNames DEF WithoutSheet
<1> QED
  BY <1>1, <1>2 DEF NoNewFetches

\* Steps that neither answer a fetch nor replace the screen.
LEMMA SameScreens ==
    ASSUME NoNewFetches, screen' = screen, coupons' = coupons
    PROVE  \A d \in Device : ScreenFrom(d)
  BY DEF NoNewFetches, ScreenFrom, BlocksFrom

LEMMA ResetScreens ==
    ASSUME TypeInv, NEW d \in Device, ResetScreen(d), mainQueue' = [mainQueue EXCEPT ![d] = <<>>]
    PROVE  \A e \in Device : ScreenFrom(e)
<1>1. /\ screen'[d] = "closed" /\ coupons'[d] = NoCoupons /\ mainQueue'[d] = <<>>
      /\ \A e \in Device \ {d} : /\ screen'[e] = screen[e] /\ coupons'[e] = coupons[e]
                                 /\ mainQueue'[e] = mainQueue[e]
  BY DEF ResetScreen, TypeInv, TypeOK
<1> QED
  BY <1>1 DEF ScreenFrom, BlocksFrom

LEMMA ShownScreens ==
    ASSUME TypeInv, NEW d \in Device, FetchCouponsCompleted(d)
    PROVE  \A e \in Device : ScreenFrom(e)
<1>0. mainQueue[d] \in Seq(Block) /\ coupons \in [Device -> [DocId -> MaybeValue]]
  BY DEF TypeInv, TypeOK
<1>1. /\ mainQueue[d] # <<>> /\ Head(mainQueue[d]).callback = "fetched" /\ NoNewFetches
      /\ screen' = screen
  BY NoFetches DEF FetchCouponsCompleted, Front
<1>2. 1 \in DOMAIN mainQueue[d] /\ Head(mainQueue[d]) = mainQueue[d][1]
  BY <1>0, <1>1, TailElement
<1>3. coupons' = coupons \/ coupons' = [coupons EXCEPT ![d] = Head(mainQueue[d]).docs]
  BY DEF FetchCouponsCompleted
<1>4. \A e \in Device : \/ coupons'[e] = coupons[e]
                        \/ e = d /\ coupons'[e] = mainQueue[d][1].docs
  BY <1>0, <1>2, <1>3
<1> QED
  BY <1>1, <1>2, <1>4 DEF ScreenFrom, BlocksFrom, NoNewFetches

LEMMA AnsweredScreens ==
    ASSUME TypeInv, CopiesTrue', ListensOwn, NEW d \in Device, screen' = screen, coupons' = coupons,
           ApplyRemoteEvent(d) \/ HandleOnlineStateChange(d) \/ HandleRejectedListen(d)
    PROVE  \A e \in Device : ScreenFrom(e)
<1>1. QueueTypes(Block)
  BY DEF TypeInv, TypeOK, QueueTypes, Block
<1>2. PICK coll \in Collection, b \in QueryResult :
            /\ b.ok => b.docs = LocalView(mutationQueue[d], documentCache'[d], coll)
            /\ ~b.ok => b.docs = [id \in DocId |-> NoDocument]
            /\ Posted(d, listeners[d][coll], b)
  BY <1>1, FetchesPosted
<1>3. mutationQueue' = mutationQueue /\ mutationQueue[d] \in Seq(Mutation)
  BY <1>1, FetchesAnswered DEF TypeInv, TypeOK, FirestoreTypeOK
<1>4. ASSUME listeners[d][coll] > 0, NEW docs, docs = b.docs
      PROVE  Backed(d, docs)'
  <2>1. coll = screen[d] /\ coll = screen'[d] /\ coll # "closed"
    BY <1>4, CouponNames DEF ListensOwn
  <2> SUFFICES ASSUME NEW id \in DocId, docs[id] = "redeemed", NEW doc, doc = <<coll, id>>
               PROVE  Explained(d, doc)'
    BY <2>1 DEF Backed, BackedFor
  <2>2. b.ok
    BY <1>2, <1>4, CouponNames
  <2>3. /\ LocalValue(mutationQueue[d], doc, documentCache'[d][doc].value) = "redeemed"
        /\ doc \in Doc
    BY <1>2, <1>4, <2>2, CollectionIsWho, CouponNames DEF LocalView
  <2>4. \/ documentCache'[d][doc].value = "redeemed"
        \/ \E i \in DOMAIN mutationQueue[d] :
            mutationQueue[d][i].doc = doc /\ mutationQueue[d][i].value = "redeemed"
    BY <1>3, <2>3, LocalValueOrigin, CouponNames
  <2>5. CASE documentCache'[d][doc].value = "redeemed"
    BY <2>3, <2>5 DEF CopiesTrue, Explained
  <2>6. CASE \E i \in DOMAIN mutationQueue[d] :
                mutationQueue[d][i].doc = doc /\ mutationQueue[d][i].value = "redeemed"
    <3>1. PICK i \in DOMAIN mutationQueue[d] :
                mutationQueue[d][i].doc = doc /\ mutationQueue[d][i].value = "redeemed"
      BY <2>6
    <3>2. mutationQueue[d][i].op = "update"
      BY <3>1 DEF TypeInv, CouponWrites, CouponWrite
    <3>3. QueuedOn(d, <<"update", doc>>)'
      BY <1>3, <3>1, <3>2 DEF QueuedOn
    <3> QED
      BY <3>3 DEF Explained
  <2> QED
    BY <2>4, <2>5, <2>6
<1>5. ASSUME NEW e \in Device PROVE BlocksFrom(e)
  <2>1. \A i \in DOMAIN mainQueue'[e] :
            \/ \E j \in DOMAIN mainQueue[e] : mainQueue'[e][i] = mainQueue[e][j]
            \/ e = d /\ listeners[d][coll] > 0 /\ mainQueue'[e][i] = b
    BY <1>2 DEF Posted
  <2> QED
    BY <1>4, <2>1 DEF BlocksFrom
<1> QED
  BY <1>5 DEF ScreenFrom

LEMMA ScreensStep ==
    ASSUME TypeInv, CopiesTrue', ListensOwn, Next
    PROVE  \A e \in Device : ScreenFrom(e)
<1>0. mainQueue \in [Device -> Seq(Block)] /\ mutationQueue \in [Device -> Seq(Mutation)]
  BY DEF TypeInv, TypeOK, FirestoreTypeOK
<1>1. PICK d \in Device :
        \/ Touch(d)
        \/ MainBlock(d)
        \/ \E v \in View : SpinnerExpires(d, v)
        \/ ClientEvent(d) /\ UNCHANGED <<screenVars, historyVars>>
        \/ WriteRefused(d)
        \/ Kill(d)
  BY DEF Next
<1>2. CASE mainQueue' = mainQueue /\ screen' = screen /\ coupons' = coupons
  BY <1>2, NoFetches, SameScreens
<1>3. CASE Touch(d)
  <2>1. CASE \E who \in Who : OpenCoupons(d, who)
    <3>1. /\ screen[d] = "closed" /\ mainQueue' = mainQueue /\ coupons' = coupons
          /\ \A e \in Device \ {d} : screen'[e] = screen[e]
      BY <2>1 DEF OpenCoupons, TypeInv, TypeOK
    <3>2. NoNewFetches
      BY <3>1, NoFetches
    <3> QED
      BY <3>1, <3>2 DEF ScreenFrom, BlocksFrom, NoNewFetches
  <2>2. CASE CloseTapped(d)
    BY <2>2, ResetScreens DEF CloseTapped, ReleaseHandlers
  <2>3. CASE \E id \in DocId : RedeemTapped(d, id) \/ SubmitTapped(d, id)
    <3>1. PICK v : Post(d, [callback |-> "addSpinner", on |-> v]) /\ screen' = screen /\ coupons' = coupons
      BY <2>3 DEF RedeemTapped, SubmitTapped, screenVars
    <3>2. NoNewFetches
      BY <3>1, NoFetches
    <3> QED
      BY <3>1, <3>2, SameScreens
  <2>4. CASE SheetSwiped(d)
    BY <2>4, SheetFetches, SameScreens DEF SheetSwiped
  <2> QED
    BY <1>2, <1>3, <2>1, <2>2, <2>3, <2>4
       DEF Touch, GiftTapped, SubmitIncomplete, AlertDismissed, firestoreVars
<1>4. CASE MainBlock(d)
  <2>1. CASE FetchCouponsCompleted(d)
    BY <2>1, ShownScreens
  <2>2. CASE RedeemCouponCompleted(d) \/ SpinnerAdded(d) \/ SpinnerRemoved(d) \/ NothingLeftToDo(d)
    <3>1. mainQueue[d] # <<>> /\ PopFront(d) /\ screen' = screen /\ coupons' = coupons
      BY <2>2 DEF RedeemCouponCompleted, SpinnerAdded, SpinnerRemoved, NothingLeftToDo, Front, screenVars
    <3>2. NoNewFetches
      BY <3>1, NoFetches
    <3> QED
      BY <3>1, <3>2, SameScreens
  <2>3. CASE GiftCouponCompleted(d)
    <3>1. /\ mainQueue[d] # <<>> /\ screen' = screen /\ coupons' = coupons
          /\ PopFront(d) \/ CloseSheet(d, Tail(mainQueue[d]))
      BY <2>3 DEF GiftCouponCompleted, GiftSucceeded, GiftFailed, Front
    <3>2. \A i \in DOMAIN Tail(mainQueue[d]) :
              \E j \in DOMAIN mainQueue[d] : Tail(mainQueue[d])[i] = mainQueue[d][j]
      BY <1>0, <3>1, TailElement
    <3>3. NoNewFetches
      BY <3>1, <3>2, NoFetches, SheetFetches
    <3> QED
      BY <3>1, <3>3, SameScreens
  <2> QED
    BY <1>4, <2>1, <2>2, <2>3 DEF MainBlock
<1>5. CASE \E v \in View : SpinnerExpires(d, v)
  <2>1. PICK v : Post(d, [callback |-> "removeSpinner", on |-> v]) /\ screen' = screen /\ coupons' = coupons
    BY <1>5 DEF SpinnerExpires
  <2>2. NoNewFetches
    BY <2>1, NoFetches
  <2> QED
    BY <2>1, <2>2, SameScreens
<1>6. CASE (HandleSuccessfulWrite(d) /\ UNCHANGED screenVars) \/ WriteRefused(d)
  <2>1. PICK m, ok : /\ m = Head(mutationQueue[d]) /\ mutationQueue[d] # <<>> /\ NotifyUser(d, m, ok)
                     /\ screen' = screen /\ coupons' = coupons
    BY <1>6 DEF HandleSuccessfulWrite, WriteRefused, HandleRejectedWrite, screenVars
  <2>2. m \in Mutation
    BY <1>0, <2>1, HeadTailProperties
  <2>3. m.callback # "fetched"
    BY <2>2, WriteCallbackIsKind, CouponNames DEF Mutation
  <2>4. NoNewFetches
    BY <2>1, <2>3, NoFetches
  <2> QED
    BY <2>1, <2>4, SameScreens
<1>7. CASE ClientEvent(d) /\ UNCHANGED <<screenVars, historyVars>>
  <2>1. screen' = screen /\ coupons' = coupons /\ UNCHANGED screenVars
    BY <1>7 DEF screenVars
  <2>2. CASE ApplyRemoteEvent(d) \/ HandleOnlineStateChange(d) \/ HandleRejectedListen(d)
    BY <2>1, <2>2, AnsweredScreens
  <2> QED
    BY <1>2, <1>6, <1>7, <2>1, <2>2 DEF ClientEvent, Commit, SendWatchSnapshot, Disconnect, Connect
<1>8. CASE Kill(d)
  BY <1>8, ResetScreens DEF Kill, KillProcess
<1> QED
  BY <1>1, <1>3, <1>4, <1>5, <1>6, <1>7, <1>8

LEMMA ShownNextStep == TypeInv /\ LedgerInv /\ ShownInv /\ [Next]_vars => ShownInv'
<1>1. CASE TypeInv /\ LedgerInv /\ ShownInv /\ Next
  <2>1. CopiesTrue' /\ ListensOwn'
    BY <1>1, CopiesStep, ListensStep DEF ShownInv
  <2>2. ShowsBacked'
    BY <1>1, <2>1, ScreensStep, ShowsStep DEF ShownInv
  <2> QED
    BY <2>1, <2>2 DEF ShownInv
<1>2. CASE ShownInv /\ UNCHANGED vars
  <2>1. UNCHANGED <<server, documentCache, watchStream, listeners, mainQueue, mutationQueue, screen,
                    coupons, refused>>
    BY <1>2 DEF vars, firestoreVars, serverVars, clientVars, screenVars, historyVars
  <2>2. \A d, doc : Explained(d, doc)' <=> Explained(d, doc)
    BY <2>1 DEF Explained, Happened, OnServer, GivenBack, GivenAgain, QueuedOn
  <2>3. CopiesTrue' /\ ListensOwn'
    BY <1>2, <2>1, HappenedKept DEF ShownInv, CopiesTrue, ListensOwn
  <2>4. \A d, docs : Backed(d, docs) => Backed(d, docs)'
    <3>1. \A d, who, docs : BackedFor(d, who, docs) => BackedFor(d, who, docs)'
      BY <2>2 DEF BackedFor
    <3>2. \A d : screen'[d] = screen[d]
      BY <2>1
    <3> QED
      BY <3>1, <3>2 DEF Backed
  <2>5. ShowsBacked'
    BY <1>2, <2>1, <2>4 DEF ShownInv, ShowsBacked
  <2> QED
    BY <2>3, <2>5 DEF ShownInv
<1> QED
  BY <1>1, <1>2

\* On any number of devices, whatever is made again, the carousel shows a
\* coupon as redeemed only when that has happened, is asked for by this very
\* phone, or was refused after an answer had shown it.
THEOREM RedeemedIsExplained == Spec => []CarouselExplained
<1>1. Init => TypeInv /\ LedgerInv /\ ShownInv
  BY TypeInit, LedgerInvInit, ShownInit
<1>2. (TypeInv /\ LedgerInv /\ ShownInv) /\ [Next]_vars => (TypeInv /\ LedgerInv /\ ShownInv)'
  BY TypeStep, LedgerStep, ShownNextStep
<1>3. TypeInv /\ LedgerInv /\ ShownInv => CarouselExplained
  BY DEF ShownInv, ShowsBacked, Backed, BackedFor, Explained, CarouselExplained
<1> QED
  BY <1>1, <1>2, <1>3, PTL DEF Spec
================================================================================
