----------------------------- MODULE CouponsProofs -----------------------------
(***************************************************************************)
(* The types of Coupons, for every number of devices and coupons and every *)
(* bound, and with them two facts about queues and closed screens that the *)
(* types rest on and that CouponsLedgerProofs uses.                        *)
(***************************************************************************)
EXTENDS Coupons, FirestoreProofs

(***************************************************************************)
(* Types.  TypeOK is inductive together with two facts: a redeem is        *)
(* answered to an open screen only, or its handler would fetch the coupons *)
(* of nobody; and the writes queued are gifts and redeems.                 *)
(***************************************************************************)
ClosedIsQuiet ==
    \A d \in Device : screen[d] = "closed" =>
        /\ \A i \in DOMAIN mainQueue[d] : mainQueue[d][i].callback # "redeemed"
        /\ \A i \in DOMAIN mutationQueue[d] : mutationQueue[d][i].callback # "redeemed"

CouponWrite(m) ==
    \/ m.op = "set" /\ m.value = "unredeemed" /\ m.callback \in {"gifted", NoCallback}
    \/ m.op = "update" /\ m.value = "redeemed" /\ m.callback \in {"redeemed", NoCallback}

CouponWrites ==
    \A d \in Device : \A i \in DOMAIN mutationQueue[d] : CouponWrite(mutationQueue[d][i])

TypeInv == TypeOK /\ ClosedIsQuiet /\ CouponWrites

LEMMA TypeInit == Init => TypeInv
<1> SUFFICES ASSUME Init PROVE TypeInv
  OBVIOUS
<1> USE DEF Init, FirestoreInit
<1>1. FirestoreTypeOK
  BY EmptySeq DEF FirestoreTypeOK, Document, Missing, Version, MaybeValue
<1>2. NoCoupons \in [DocId -> MaybeValue]
  BY DEF NoCoupons, MaybeValue
<1>3. TypeOK
  BY <1>1, <1>2, EmptySeq DEF TypeOK
<1>4. ClosedIsQuiet
  BY DEF ClosedIsQuiet
<1>5. CouponWrites
  BY DEF CouponWrites
<1> QED
  BY <1>3, <1>4, <1>5 DEF TypeInv

(***************************************************************************)
(* What the shared pieces of actions do to the types.                      *)
(***************************************************************************)
LEMMA GetDocumentsType ==
    ASSUME TypeOK, NEW d \in Device, NEW coll \in Collection, GetDocuments(d, coll)
    PROVE  /\ configured' \in [Device -> BOOLEAN]
           /\ listenTargets' \in [Device -> SUBSET Collection]
           /\ listeners' \in [Device -> [Collection -> Nat]]
  BY DEF TypeOK, FirestoreTypeOK, GetDocuments

LEMMA WriteMutationType ==
    ASSUME TypeOK, NEW d \in Device, NEW op \in {"set", "update", "delete"}, NEW doc \in Doc,
           NEW value \in MaybeValue, NEW callback \in WriteCallback,
           WriteMutation(d, op, doc, value, callback)
    PROVE  mutationQueue' \in [Device -> Seq(Mutation)]
<1> DEFINE m == [op |-> op, doc |-> doc, value |-> value, callback |-> callback,
                 committed |-> FALSE, version |-> 0]
<1>1. m \in Mutation
  BY DEF Mutation, Version
<1>2. mutationQueue[d] \in Seq(Mutation)
  BY DEF TypeOK, FirestoreTypeOK
<1>3. Append(mutationQueue[d], m) \in Seq(Mutation)
  BY <1>1, <1>2, AppendProperties
<1> QED
  BY <1>3 DEF TypeOK, FirestoreTypeOK, WriteMutation, NewMutation

LEMMA PostType ==
    ASSUME TypeOK, NEW d \in Device, NEW block \in Block, Post(d, block)
    PROVE  mainQueue' \in [Device -> Seq(Block)]
<1>1. Append(mainQueue[d], block) \in Seq(Block)
  BY AppendProperties DEF TypeOK
<1> QED
  BY <1>1 DEF TypeOK, Post

LEMMA PopFrontType ==
    ASSUME TypeOK, NEW d \in Device, mainQueue[d] # <<>>, PopFront(d)
    PROVE  mainQueue' \in [Device -> Seq(Block)] /\ Head(mainQueue[d]) \in Block
<1>1. Tail(mainQueue[d]) \in Seq(Block) /\ Head(mainQueue[d]) \in Block
  BY HeadTailProperties DEF TypeOK
<1> QED
  BY <1>1 DEF TypeOK, PopFront

LEMMA NotifyUserType ==
    ASSUME TypeOK, NEW d \in Device, NEW m \in Mutation, NEW ok \in BOOLEAN,
           NotifyUser(d, m, ok)
    PROVE  mainQueue' \in [Device -> Seq(Block)]
<1> DEFINE b == [callback |-> m.callback, ok |-> ok, doc |-> m.doc]
<1>1. CASE m.callback = NoCallback
  BY <1>1 DEF TypeOK, NotifyUser
<1>2. CASE m.callback # NoCallback
  <2>1. b \in Block
    BY <1>2 DEF Mutation, Block, WriteResult
  <2>2. Append(mainQueue[d], b) \in Seq(Block)
    BY <2>1, AppendProperties DEF TypeOK
  <2> QED
    BY <1>2, <2>2 DEF TypeOK, NotifyUser
<1> QED
  BY <1>1, <1>2

LEMMA RaiseInitialEventType ==
    ASSUME TypeOK, NEW d \in Device, NEW coll \in Collection, NEW ok \in BOOLEAN,
           NEW docs \in [DocId -> MaybeValue], RaiseInitialEvent(d, coll, ok, docs)
    PROVE  /\ mainQueue' \in [Device -> Seq(Block)]
           /\ listeners' \in [Device -> [Collection -> Nat]]
           /\ listenTargets' \in [Device -> SUBSET Collection]
<1> DEFINE b == [callback |-> "fetched", ok |-> ok, docs |-> docs]
           new == [i \in 1..listeners[d][coll] |-> b]
<1>1. b \in Block
  BY DEF Block, QueryResult
<1>2. new \in Seq(Block)
  <2>1. listeners[d][coll] \in Nat
    BY DEF TypeOK, FirestoreTypeOK
  <2>2. new \in [1..listeners[d][coll] -> Block]
    BY <1>1
  <2> QED
    BY <2>1, <2>2
<1>3. mainQueue[d] \o new \in Seq(Block)
  BY <1>2, ConcatProperties DEF TypeOK
<1>4. mainQueue' \in [Device -> Seq(Block)]
  BY <1>3 DEF TypeOK, RaiseInitialEvent
<1> QED
  BY <1>4 DEF TypeOK, FirestoreTypeOK, RaiseInitialEvent

LEMMA ResetScreenType ==
    ASSUME TypeOK, NEW d \in Device, ResetScreen(d)
    PROVE  /\ screen' \in [Device -> Who \cup {"closed"}]
           /\ loaded' \in [Device -> BOOLEAN]
           /\ coupons' \in [Device -> [DocId -> MaybeValue]]
           /\ presented' \in [Device -> {"nothing", "alert", "sheet", "sheetAlert"}]
           /\ spinners' \in [Device -> [View -> Nat]]
           /\ expiring' \in [Device -> [View -> Nat]]
           /\ confirmed' \in [Device -> SUBSET DocId]
           /\ fetchFailed' \in [Device -> BOOLEAN]
<1>1. NoCoupons \in [DocId -> MaybeValue]
  BY DEF NoCoupons, MaybeValue
<1> QED
  BY <1>1 DEF TypeOK, ResetScreen

LEMMA ReleaseHandlersType ==
    ASSUME TypeOK, NEW d \in Device, ReleaseHandlers(d)
    PROVE  /\ mutationQueue' \in [Device -> Seq(Mutation)]
           /\ listeners' \in [Device -> [Collection -> Nat]]
           /\ mainQueue' \in [Device -> Seq(Block)]
<1>1. Orphaned(mutationQueue[d]) \in Seq(Mutation)
  BY OrphanedType DEF TypeOK, FirestoreTypeOK
<1> QED
  BY <1>1, EmptySeq DEF TypeOK, FirestoreTypeOK, ReleaseHandlers

LEMMA CloseSheetType ==
    ASSUME TypeOK, NEW d \in Device, NEW queue \in Seq(Block), CloseSheet(d, queue)
    PROVE  /\ presented' \in [Device -> {"nothing", "alert", "sheet", "sheetAlert"}]
           /\ spinners' \in [Device -> [View -> Nat]]
           /\ expiring' \in [Device -> [View -> Nat]]
           /\ mutationQueue' \in [Device -> Seq(Mutation)]
           /\ mainQueue' \in [Device -> Seq(Block)]
<1> DEFINE writes == [i \in DOMAIN mutationQueue[d] |-> WithoutGiftHandler(mutationQueue[d][i])]
           blocks == [i \in DOMAIN queue |-> WithoutSheet(queue[i])]
<1>1. writes \in Seq(Mutation)
  <2>1. \A m \in Mutation : WithoutGiftHandler(m) \in Mutation
    BY DEF WithoutGiftHandler, WithoutCallback, Mutation
  <2>2. mutationQueue[d] \in Seq(Mutation)
    BY DEF TypeOK, FirestoreTypeOK
  <2>3. writes \in [1..Len(mutationQueue[d]) -> Mutation]
    BY <2>1, <2>2, ElementOfSeq, LenProperties
  <2> HIDE DEF writes
  <2> QED
    BY <2>2, <2>3, LenProperties
<1>2. blocks \in Seq(Block)
  <2>1. \A b \in Block : WithoutSheet(b) \in Block
    BY DEF WithoutSheet, Block
  <2>2. blocks \in [1..Len(queue) -> Block]
    BY <2>1, ElementOfSeq, LenProperties
  <2> QED
    BY <2>2, LenProperties
<1>3. mutationQueue' = [mutationQueue EXCEPT ![d] = writes]
  BY DEF CloseSheet
<1>4. mainQueue' = [mainQueue EXCEPT ![d] = blocks]
  BY DEF CloseSheet
<1> HIDE DEF writes, blocks
<1>5. mutationQueue' \in [Device -> Seq(Mutation)]
  BY <1>1, <1>3 DEF TypeOK, FirestoreTypeOK
<1>6. mainQueue' \in [Device -> Seq(Block)]
  BY <1>2, <1>4 DEF TypeOK
<1>7. spinners' \in [Device -> [View -> Nat]] /\ expiring' \in [Device -> [View -> Nat]]
  BY DEF TypeOK, CloseSheet, View
<1>8. presented' \in [Device -> {"nothing", "alert", "sheet", "sheetAlert"}]
  BY DEF TypeOK, CloseSheet
<1> QED
  BY <1>5, <1>6, <1>7, <1>8

(***************************************************************************)
(* Every action keeps the types.                                           *)
(***************************************************************************)
LEMMA CommitType ==
    ASSUME TypeInv, NEW d \in Device, Commit(d), UNCHANGED <<screenVars, historyVars>>
    PROVE  TypeInv'
<1> USE DEF TypeInv
<1>1. PICK i \in 1..Len(mutationQueue[d]) :
        LET m   == mutationQueue[d][i]
            old == server[m.doc]
            new == [value   |-> ApplyMutation(m, old.value),
                    version |-> IF ApplyMutation(m, old.value) = old.value
                                THEN old.version ELSE old.version + 1]
        IN  /\ server' = [server EXCEPT ![m.doc] = new]
            /\ mutationQueue' = [mutationQueue EXCEPT ![d][i] =
                   [m EXCEPT !.committed = TRUE, !.version = new.version]]
  BY DEF Commit
<1> DEFINE m == mutationQueue[d][i]
           old == server[m.doc]
           new == [value   |-> ApplyMutation(m, old.value),
                   version |-> IF ApplyMutation(m, old.value) = old.value
                               THEN old.version ELSE old.version + 1]
           made == [m EXCEPT !.committed = TRUE, !.version = new.version]
<1>2. mutationQueue[d] \in Seq(Mutation) /\ m \in Mutation
  BY ElementOfSeq DEF TypeOK, FirestoreTypeOK
<1>3. m.doc \in Doc /\ m.value \in MaybeValue
  BY <1>2 DEF Mutation
<1>4. old \in Document
  BY <1>3 DEF TypeOK, FirestoreTypeOK
<1>5. new \in Document
  BY <1>3, <1>4 DEF Document, Version, ApplyMutation, MaybeValue
<1>6. server' \in [Doc -> Document]
  <2> HIDE DEF new
  <2> QED
    BY <1>1, <1>3, <1>5 DEF TypeOK, FirestoreTypeOK, new
<1>7. /\ made \in Mutation /\ made.callback = m.callback
      /\ made.op = m.op /\ made.value = m.value
  BY <1>2, <1>5 DEF Mutation, Document
<1>8. mutationQueue' = [mutationQueue EXCEPT ![d] = [mutationQueue[d] EXCEPT ![i] = made]]
  BY <1>1
<1> HIDE DEF new, made
<1>9. [mutationQueue[d] EXCEPT ![i] = made] \in Seq(Mutation)
  BY <1>2, <1>7, ExceptSeq
<1>10. mutationQueue' \in [Device -> Seq(Mutation)]
  BY <1>8, <1>9 DEF TypeOK, FirestoreTypeOK
<1>11. TypeOK'
  BY <1>6, <1>10 DEF TypeOK, FirestoreTypeOK, Commit, screenVars, historyVars
<1>12. ClosedIsQuiet' /\ CouponWrites'
  <2>1. mainQueue' = mainQueue /\ screen' = screen
    BY DEF Commit, screenVars
  <2>2. \A e \in Device : DOMAIN mutationQueue'[e] = DOMAIN mutationQueue[e]
    BY <1>8 DEF TypeOK, FirestoreTypeOK
  <2>3. \A e \in Device : \A j \in DOMAIN mutationQueue[e] :
            /\ mutationQueue'[e][j].callback = mutationQueue[e][j].callback
            /\ mutationQueue'[e][j].op = mutationQueue[e][j].op
            /\ mutationQueue'[e][j].value = mutationQueue[e][j].value
    BY <1>7, <1>8 DEF TypeOK, FirestoreTypeOK
  <2>4. ClosedIsQuiet'
    BY <2>1, <2>2, <2>3 DEF ClosedIsQuiet
  <2>5. CouponWrites'
    BY <2>2, <2>3 DEF CouponWrites, CouponWrite
  <2> QED
    BY <2>4, <2>5
<1> QED
  BY <1>11, <1>12

\* Taking the oldest write off a queue and telling its handler.
LEMMA NotifyAndForgetType ==
    ASSUME TypeInv, NEW d \in Device, NEW ok \in BOOLEAN, mutationQueue[d] # <<>>,
           NotifyUser(d, Head(mutationQueue[d]), ok), screen' = screen,
           mutationQueue' = [mutationQueue EXCEPT ![d] = Tail(@)]
    PROVE  /\ Head(mutationQueue[d]) \in Mutation
           /\ mutationQueue' \in [Device -> Seq(Mutation)]
           /\ mainQueue' \in [Device -> Seq(Block)]
           /\ ClosedIsQuiet' /\ CouponWrites'
<1> DEFINE m == Head(mutationQueue[d])
           b == [callback |-> m.callback, ok |-> ok, doc |-> m.doc]
<1>1. mutationQueue[d] \in Seq(Mutation) /\ mainQueue[d] \in Seq(Block)
  BY DEF TypeInv, TypeOK, FirestoreTypeOK
<1>2. m \in Mutation /\ Tail(mutationQueue[d]) \in Seq(Mutation)
  BY <1>1, HeadTailProperties
<1>3. mutationQueue' \in [Device -> Seq(Mutation)]
  BY <1>2 DEF TypeInv, TypeOK, FirestoreTypeOK
<1>4. mainQueue' \in [Device -> Seq(Block)]
  BY <1>2, NotifyUserType DEF TypeInv
<1>5. ClosedIsQuiet'
  <2> SUFFICES ASSUME NEW e \in Device, screen[e] = "closed"
               PROVE  /\ \A i \in DOMAIN mainQueue'[e] : mainQueue'[e][i].callback # "redeemed"
                      /\ \A i \in DOMAIN mutationQueue'[e] :
                            mutationQueue'[e][i].callback # "redeemed"
    BY DEF ClosedIsQuiet
  <2>1. /\ \A i \in DOMAIN mainQueue[e] : mainQueue[e][i].callback # "redeemed"
        /\ \A i \in DOMAIN mutationQueue[e] : mutationQueue[e][i].callback # "redeemed"
    BY DEF TypeInv, ClosedIsQuiet
  <2>2. CASE e # d
    BY <2>1, <2>2 DEF NotifyUser, TypeInv, TypeOK, FirestoreTypeOK
  <2>3. CASE e = d
    <3>1. m = mutationQueue[d][1] /\ 1 \in DOMAIN mutationQueue[d]
      BY <1>1
    <3>2. b.callback # "redeemed"
      BY <2>1, <2>3, <3>1
    <3>3. mutationQueue'[d] = Tail(mutationQueue[d])
      BY DEF TypeInv, TypeOK, FirestoreTypeOK
    <3>4. \A i \in DOMAIN mutationQueue'[d] : mutationQueue'[d][i].callback # "redeemed"
      BY <1>1, <2>1, <2>3, <3>3, HeadTailProperties, LenProperties
    <3>5. mainQueue'[d] = mainQueue[d] \/ mainQueue'[d] = Append(mainQueue[d], b)
      BY DEF NotifyUser, TypeInv, TypeOK
    <3>6. \A i \in DOMAIN mainQueue'[d] : mainQueue'[d][i].callback # "redeemed"
      <4>1. \A i \in DOMAIN Append(mainQueue[d], b) :
                Append(mainQueue[d], b)[i].callback # "redeemed"
        <5> HIDE DEF b
        <5>1. \A i \in DOMAIN Append(mainQueue[d], b) :
                \/ Append(mainQueue[d], b)[i] = b
                \/ i \in DOMAIN mainQueue[d] /\ Append(mainQueue[d], b)[i] = mainQueue[d][i]
          BY <1>1, AppendElement
        <5> QED
          BY <2>1, <2>3, <3>2, <5>1
      <4> QED
        BY <2>1, <2>3, <3>5, <4>1
    <3> QED
      BY <2>3, <3>4, <3>6
  <2> QED
    BY <2>2, <2>3
<1>6. CouponWrites'
  <2>1. \A e \in Device : mutationQueue'[e] = IF e = d THEN Tail(mutationQueue[d]) ELSE mutationQueue[e]
    BY DEF TypeInv, TypeOK, FirestoreTypeOK
  <2>2. \A i \in DOMAIN Tail(mutationQueue[d]) : CouponWrite(Tail(mutationQueue[d])[i])
    BY <1>1, TailElement DEF TypeInv, CouponWrites
  <2> QED
    BY <2>1, <2>2 DEF TypeInv, CouponWrites
<1> QED
  BY <1>2, <1>3, <1>4, <1>5, <1>6

LEMMA HandleSuccessfulWriteType ==
    ASSUME TypeInv, NEW d \in Device, HandleSuccessfulWrite(d),
           UNCHANGED <<screenVars, historyVars>>
    PROVE  TypeInv'
<1> DEFINE m == Head(mutationQueue[d])
           old == documentCache[d][m.doc]
           new == IF old.version < m.version
                  THEN [value |-> ApplyMutation(m, old.value), version |-> m.version]
                  ELSE old
<1>1. /\ NotifyUser(d, m, TRUE) /\ screen' = screen
      /\ mutationQueue[d] # <<>> /\ mutationQueue' = [mutationQueue EXCEPT ![d] = Tail(@)]
      /\ documentCache' = [documentCache EXCEPT ![d][m.doc] = new]
  BY DEF HandleSuccessfulWrite, screenVars
<1>2. /\ m \in Mutation /\ ClosedIsQuiet' /\ CouponWrites'
      /\ mutationQueue' \in [Device -> Seq(Mutation)] /\ mainQueue' \in [Device -> Seq(Block)]
  BY <1>1, NotifyAndForgetType
<1>3. m.doc \in Doc /\ m.value \in MaybeValue /\ m.version \in Version
  BY <1>2 DEF Mutation
<1>4. old \in Document
  BY <1>3 DEF TypeInv, TypeOK, FirestoreTypeOK
<1>5. new \in Document
  BY <1>3, <1>4 DEF Document, ApplyMutation, MaybeValue
<1>6. documentCache' \in [Device -> [Doc -> Document]]
  <2> HIDE DEF new
  <2> QED
    BY <1>1, <1>3, <1>5 DEF TypeInv, TypeOK, FirestoreTypeOK
<1> QED
  BY <1>2, <1>6 DEF TypeInv, TypeOK, FirestoreTypeOK, HandleSuccessfulWrite, serverVars,
                    screenVars, historyVars

LEMMA WriteRefusedType ==
    ASSUME TypeInv, NEW d \in Device, WriteRefused(d)
    PROVE  TypeInv'
<1> DEFINE m == Head(mutationQueue[d])
<1>1. /\ NotifyUser(d, m, FALSE) /\ screen' = screen
      /\ mutationQueue[d] # <<>> /\ mutationQueue' = [mutationQueue EXCEPT ![d] = Tail(@)]
  BY DEF WriteRefused, HandleRejectedWrite, screenVars
<1>2. /\ m \in Mutation /\ ClosedIsQuiet' /\ CouponWrites'
      /\ mutationQueue' \in [Device -> Seq(Mutation)] /\ mainQueue' \in [Device -> Seq(Block)]
  BY <1>1, NotifyAndForgetType
<1>3. CouponWrite(m)
  <2>1. mutationQueue[d] \in Seq(Mutation)
    BY DEF TypeInv, TypeOK, FirestoreTypeOK
  <2> QED
    BY <1>1, <2>1, TailElement DEF TypeInv, CouponWrites
<1>4. <<m.op, m.doc>> \in Request
  BY <1>2, <1>3 DEF CouponWrite, Mutation, Request
<1>5. refused' \in SUBSET Request
  BY <1>4 DEF WriteRefused, TypeInv, TypeOK
<1> QED
  BY <1>2, <1>5 DEF TypeInv, TypeOK, FirestoreTypeOK, WriteRefused, HandleRejectedWrite,
                    serverVars, screenVars

LEMMA SendWatchSnapshotType ==
    ASSUME TypeInv, NEW d \in Device, SendWatchSnapshot(d), UNCHANGED <<screenVars, historyVars>>
    PROVE  TypeInv'
<1>1. PICK coll \in listenTargets[d] :
        watchStream' = [watchStream EXCEPT ![d] = @ \cup
            {[collection |-> coll, docs |-> [id \in DocId |-> server[<<coll, id>>]]]}]
  BY DEF SendWatchSnapshot
<1>2. coll \in Collection
  BY DEF TypeInv, TypeOK, FirestoreTypeOK
<1>3. [collection |-> coll, docs |-> [id \in DocId |-> server[<<coll, id>>]]] \in WatchSnapshot
  BY <1>2 DEF TypeInv, TypeOK, FirestoreTypeOK, Doc, WatchSnapshot
<1>4. watchStream' \in [Device -> SUBSET WatchSnapshot]
  BY <1>1, <1>3 DEF TypeInv, TypeOK, FirestoreTypeOK
<1> QED
  BY <1>4 DEF TypeInv, TypeOK, FirestoreTypeOK, ClosedIsQuiet, CouponWrites, SendWatchSnapshot,
              serverVars, screenVars, historyVars

\* Answers to fetches are no answers to redeems.
LEMMA RaiseInitialEventQuiet ==
    ASSUME TypeInv, NEW d \in Device, NEW coll \in Collection, NEW ok, NEW docs,
           RaiseInitialEvent(d, coll, ok, docs), UNCHANGED <<screen, mutationQueue>>
    PROVE  ClosedIsQuiet' /\ CouponWrites'
<1> DEFINE b == [callback |-> "fetched", ok |-> ok, docs |-> docs]
           new == [i \in 1..listeners[d][coll] |-> b]
<1>1. listeners[d][coll] \in Nat /\ mainQueue[d] \in Seq(Block)
  BY DEF TypeInv, TypeOK, FirestoreTypeOK
<1>2. mainQueue' = [mainQueue EXCEPT ![d] = mainQueue[d] \o new]
  BY DEF RaiseInitialEvent
<1>3. \A i \in DOMAIN (mainQueue[d] \o new) :
          \/ i \in DOMAIN mainQueue[d] /\ (mainQueue[d] \o new)[i] = mainQueue[d][i]
          \/ (mainQueue[d] \o new)[i] = b
  BY <1>1, RaisedElement
<1>4. b.callback # "redeemed"
  OBVIOUS
<1>5. ClosedIsQuiet'
  <2> HIDE DEF new, b
  <2> QED
    BY <1>2, <1>3, <1>4 DEF TypeInv, TypeOK, ClosedIsQuiet
<1> QED
  BY <1>5 DEF TypeInv, CouponWrites

LEMMA ApplyRemoteEventType ==
    ASSUME TypeInv, NEW d \in Device, ApplyRemoteEvent(d), UNCHANGED <<screenVars, historyVars>>
    PROVE  TypeInv'
<1>1. PICK s \in watchStream[d] :
        LET fresh == [doc \in Doc |->
                IF doc[1] = s.collection THEN Newer(s.docs[doc[2]], documentCache[d][doc])
                                         ELSE documentCache[d][doc]]
        IN  /\ documentCache' = [documentCache EXCEPT ![d] = fresh]
            /\ watchStream' = [watchStream EXCEPT ![d] = @ \ {s}]
            /\ RaiseInitialEvent(d, s.collection, TRUE,
                                 LocalView(mutationQueue[d], fresh, s.collection))
  BY DEF ApplyRemoteEvent
<1> DEFINE fresh == [doc \in Doc |->
                IF doc[1] = s.collection THEN Newer(s.docs[doc[2]], documentCache[d][doc])
                                         ELSE documentCache[d][doc]]
           docs == LocalView(mutationQueue[d], fresh, s.collection)
<1>2. s \in WatchSnapshot
  BY DEF TypeInv, TypeOK, FirestoreTypeOK
<1>3. s.collection \in Collection /\ s.docs \in [DocId -> Document]
  BY <1>2 DEF WatchSnapshot
<1>4. fresh \in [Doc -> Document]
  BY <1>3 DEF TypeInv, TypeOK, FirestoreTypeOK, Newer, Doc
<1>5. docs \in [DocId -> MaybeValue]
  <2> HIDE DEF fresh
  <2> QED
    BY <1>3, <1>4, LocalViewType DEF TypeInv, TypeOK, FirestoreTypeOK
<1>6. /\ documentCache' = [documentCache EXCEPT ![d] = fresh]
      /\ RaiseInitialEvent(d, s.collection, TRUE, docs)
  BY <1>1
<1> HIDE DEF fresh, docs
<1>7. /\ mainQueue' \in [Device -> Seq(Block)]
      /\ listeners' \in [Device -> [Collection -> Nat]]
      /\ listenTargets' \in [Device -> SUBSET Collection]
  BY <1>3, <1>5, <1>6, RaiseInitialEventType DEF TypeInv
<1>8. ClosedIsQuiet' /\ CouponWrites'
  <2>1. UNCHANGED <<screen, mutationQueue>>
    BY DEF ApplyRemoteEvent, screenVars
  <2> QED
    BY <1>3, <1>6, <2>1, RaiseInitialEventQuiet
<1>9. watchStream' \in [Device -> SUBSET WatchSnapshot]
  BY <1>1 DEF TypeInv, TypeOK, FirestoreTypeOK
<1>10. documentCache' \in [Device -> [Doc -> Document]]
  BY <1>4, <1>6 DEF TypeInv, TypeOK, FirestoreTypeOK
<1> QED
  BY <1>7, <1>8, <1>9, <1>10
  DEF TypeInv, TypeOK, FirestoreTypeOK, ApplyRemoteEvent, serverVars, screenVars, historyVars

LEMMA HandleOnlineStateChangeType ==
    ASSUME TypeInv, NEW d \in Device, HandleOnlineStateChange(d),
           UNCHANGED <<screenVars, historyVars>>
    PROVE  TypeInv'
<1>1. PICK coll \in listenTargets[d] :
        /\ RaiseInitialEvent(d, coll, TRUE, LocalView(mutationQueue[d], documentCache[d], coll))
        /\ watchStream' = [watchStream EXCEPT ![d] = {s \in @ : s.collection # coll}]
  BY DEF HandleOnlineStateChange
<1>2. coll \in Collection
  BY DEF TypeInv, TypeOK, FirestoreTypeOK
<1>3. LocalView(mutationQueue[d], documentCache[d], coll) \in [DocId -> MaybeValue]
  BY <1>2, LocalViewType DEF TypeInv, TypeOK, FirestoreTypeOK
<1>4. /\ mainQueue' \in [Device -> Seq(Block)]
      /\ listeners' \in [Device -> [Collection -> Nat]]
      /\ listenTargets' \in [Device -> SUBSET Collection]
  BY <1>1, <1>2, <1>3, RaiseInitialEventType DEF TypeInv
<1>5. ClosedIsQuiet' /\ CouponWrites'
  <2>1. UNCHANGED <<screen, mutationQueue>>
    BY DEF HandleOnlineStateChange, screenVars
  <2> QED
    BY <1>1, <1>2, <2>1, RaiseInitialEventQuiet
<1>6. watchStream' \in [Device -> SUBSET WatchSnapshot]
  BY <1>1 DEF TypeInv, TypeOK, FirestoreTypeOK
<1> QED
  BY <1>4, <1>5, <1>6
  DEF TypeInv, TypeOK, FirestoreTypeOK, HandleOnlineStateChange, serverVars, screenVars, historyVars

LEMMA HandleRejectedListenType ==
    ASSUME TypeInv, NEW d \in Device, HandleRejectedListen(d),
           UNCHANGED <<screenVars, historyVars>>
    PROVE  TypeInv'
<1>1. PICK coll \in listenTargets[d] :
        /\ RaiseInitialEvent(d, coll, FALSE, [id \in DocId |-> NoDocument])
        /\ watchStream' = [watchStream EXCEPT ![d] = {s \in @ : s.collection # coll}]
  BY DEF HandleRejectedListen
<1>2. coll \in Collection
  BY DEF TypeInv, TypeOK, FirestoreTypeOK
<1>3. [id \in DocId |-> NoDocument] \in [DocId -> MaybeValue]
  BY DEF MaybeValue
<1>4. /\ mainQueue' \in [Device -> Seq(Block)]
      /\ listeners' \in [Device -> [Collection -> Nat]]
      /\ listenTargets' \in [Device -> SUBSET Collection]
  BY <1>1, <1>2, <1>3, RaiseInitialEventType DEF TypeInv
<1>5. ClosedIsQuiet' /\ CouponWrites'
  <2>1. UNCHANGED <<screen, mutationQueue>>
    BY DEF HandleRejectedListen, screenVars
  <2> QED
    BY <1>1, <1>2, <2>1, RaiseInitialEventQuiet
<1>6. watchStream' \in [Device -> SUBSET WatchSnapshot]
  BY <1>1 DEF TypeInv, TypeOK, FirestoreTypeOK
<1> QED
  BY <1>4, <1>5, <1>6
  DEF TypeInv, TypeOK, FirestoreTypeOK, HandleRejectedListen, serverVars, screenVars, historyVars

LEMMA ConnectionType ==
    ASSUME TypeInv, NEW d \in Device, Disconnect(d) \/ Connect(d),
           UNCHANGED <<screenVars, historyVars>>
    PROVE  TypeInv'
<1> USE DEF serverVars, clientVars, screenVars, historyVars
<1>1. CASE Connect(d)
  BY <1>1 DEF TypeInv, TypeOK, FirestoreTypeOK, ClosedIsQuiet, CouponWrites, Connect
<1>2. CASE Disconnect(d)
  <2>1. mutationQueue[d] \in Seq(Mutation)
    BY DEF TypeInv, TypeOK, FirestoreTypeOK
  <2>2. mutationQueue' = [mutationQueue EXCEPT ![d] = Resent(mutationQueue[d])]
    BY <1>2 DEF Disconnect
  <2>3. TypeOK'
    BY <1>2, <2>1, <2>2, ResentType DEF TypeInv, TypeOK, FirestoreTypeOK, Disconnect
  <2>4. \A e \in Device :
            /\ DOMAIN mutationQueue'[e] = DOMAIN mutationQueue[e]
            /\ \A i \in DOMAIN mutationQueue[e] :
                /\ mutationQueue'[e][i].callback = mutationQueue[e][i].callback
                /\ mutationQueue'[e][i].op = mutationQueue[e][i].op
                /\ mutationQueue'[e][i].value = mutationQueue[e][i].value
    BY <2>1, <2>2, ResentType DEF TypeInv, TypeOK, FirestoreTypeOK
  <2>5. ClosedIsQuiet'
    BY <1>2, <2>4 DEF TypeInv, ClosedIsQuiet, Disconnect
  <2>6. CouponWrites'
    BY <1>2, <2>4 DEF TypeInv, CouponWrites, CouponWrite, Disconnect
  <2> QED
    BY <2>3, <2>5, <2>6 DEF TypeInv
<1> QED
  BY <1>1, <1>2

LEMMA ClientEventType ==
    ASSUME TypeInv, NEW d \in Device, ClientEvent(d), UNCHANGED <<screenVars, historyVars>>
    PROVE  TypeInv'
  BY CommitType, HandleSuccessfulWriteType, SendWatchSnapshotType, ApplyRemoteEventType,
     HandleOnlineStateChangeType, HandleRejectedListenType, ConnectionType DEF ClientEvent

\* Once the handlers are gone nothing is answered.
LEMMA ReleaseQuiet ==
    ASSUME TypeInv, NEW d \in Device,
           NEW queue, queue = Orphaned(mutationQueue[d]) \/ queue = Resent(Orphaned(mutationQueue[d])),
           mutationQueue' = [mutationQueue EXCEPT ![d] = queue],
           mainQueue' = [mainQueue EXCEPT ![d] = <<>>],
           screen' = [screen EXCEPT ![d] = "closed"]
    PROVE  ClosedIsQuiet' /\ CouponWrites'
<1>1. mutationQueue[d] \in Seq(Mutation)
  BY DEF TypeInv, TypeOK, FirestoreTypeOK
<1>2. \A i \in DOMAIN Orphaned(mutationQueue[d]) :
          /\ i \in DOMAIN mutationQueue[d]
          /\ Orphaned(mutationQueue[d])[i].callback = NoCallback
          /\ Orphaned(mutationQueue[d])[i].op = mutationQueue[d][i].op
          /\ Orphaned(mutationQueue[d])[i].value = mutationQueue[d][i].value
  <2> TAKE i \in DOMAIN Orphaned(mutationQueue[d])
  <2>1. i \in DOMAIN mutationQueue[d]
    BY DEF Orphaned
  <2>2. mutationQueue[d][i] \in Mutation
    BY <1>1, <2>1, ElementOfSeq, LenProperties
  <2>3. Orphaned(mutationQueue[d])[i] = WithoutCallback(mutationQueue[d][i])
    BY <2>1 DEF Orphaned
  <2> QED
    BY <2>1, <2>2, <2>3 DEF WithoutCallback, Mutation
<1>3. /\ DOMAIN queue = DOMAIN Orphaned(mutationQueue[d])
      /\ \A i \in DOMAIN queue :
          /\ queue[i].callback = Orphaned(mutationQueue[d])[i].callback
          /\ queue[i].op = Orphaned(mutationQueue[d])[i].op
          /\ queue[i].value = Orphaned(mutationQueue[d])[i].value
  BY <1>1, OrphanedType, ResentType
<1>4. NoCallback # "redeemed"
  BY NoCallbackAssumption, WriteCallbackIsKind
<1>5. ClosedIsQuiet'
  BY <1>2, <1>4, <1>3 DEF TypeInv, TypeOK, FirestoreTypeOK, ClosedIsQuiet
<1>6. CouponWrites'
  BY <1>2, <1>3 DEF TypeInv, TypeOK, FirestoreTypeOK, CouponWrites, CouponWrite
<1> QED
  BY <1>5, <1>6

LEMMA KillType ==
    ASSUME TypeInv, NEW d \in Device, Kill(d)
    PROVE  TypeInv'
<1>1. mutationQueue[d] \in Seq(Mutation)
  BY DEF TypeInv, TypeOK, FirestoreTypeOK
<1>2. mutationQueue' = [mutationQueue EXCEPT ![d] = Resent(Orphaned(mutationQueue[d]))]
  BY DEF Kill, KillProcess
<1>3. ClosedIsQuiet' /\ CouponWrites'
  BY <1>2, ReleaseQuiet DEF Kill, KillProcess, ResetScreen
<1>4. Resent(Orphaned(mutationQueue[d])) \in Seq(Mutation)
  BY <1>1, OrphanedType, ResentType
<1>5. FirestoreTypeOK'
  BY <1>2, <1>4 DEF TypeInv, TypeOK, FirestoreTypeOK, Kill, KillProcess, serverVars
<1>6. TypeOK'
  BY <1>5, ResetScreenType DEF TypeInv, TypeOK, Kill, KillProcess
<1> QED
  BY <1>3, <1>6 DEF TypeInv

LEMMA CloseTappedType ==
    ASSUME TypeInv, NEW d \in Device, CloseTapped(d)
    PROVE  TypeInv'
<1>1. ClosedIsQuiet' /\ CouponWrites'
  BY ReleaseQuiet DEF CloseTapped, ReleaseHandlers, ResetScreen
<1>2. FirestoreTypeOK'
  BY ReleaseHandlersType DEF TypeInv, TypeOK, FirestoreTypeOK, CloseTapped, serverVars
<1>3. TypeOK'
  BY <1>2, ReleaseHandlersType, ResetScreenType DEF TypeInv, TypeOK, CloseTapped
<1> QED
  BY <1>1, <1>3 DEF TypeInv

LEMMA OpenCouponsType ==
    ASSUME TypeInv, NEW d \in Device, NEW who \in Who, OpenCoupons(d, who)
    PROVE  TypeInv'
<1>1. who \in Collection
  BY CollectionIsWho
<1>2. /\ configured' \in [Device -> BOOLEAN]
      /\ listenTargets' \in [Device -> SUBSET Collection]
      /\ listeners' \in [Device -> [Collection -> Nat]]
  BY <1>1, GetDocumentsType DEF OpenCoupons, TypeInv
<1>3. TypeOK'
  BY <1>2 DEF TypeInv, TypeOK, FirestoreTypeOK, OpenCoupons, serverVars, historyVars
<1>4. \A e \in Device : screen'[e] = "closed" => screen[e] = "closed"
  BY DEF TypeInv, TypeOK, OpenCoupons, Who
<1>5. ClosedIsQuiet' /\ CouponWrites'
  BY <1>4 DEF TypeInv, ClosedIsQuiet, CouponWrites, OpenCoupons
<1> QED
  BY <1>3, <1>5 DEF TypeInv

\* A request posts a spinner and queues a write.
LEMMA RequestQuiet ==
    ASSUME TypeInv, NEW d \in Device, NEW op, NEW doc, NEW value, NEW callback, NEW v,
           Post(d, [callback |-> "addSpinner", on |-> v]),
           WriteMutation(d, op, doc, value, callback), screen' = screen,
           callback = "redeemed" => screen[d] # "closed",
           \A m : m.op = op /\ m.value = value /\ m.callback = callback => CouponWrite(m)
    PROVE  ClosedIsQuiet' /\ CouponWrites'
<1> DEFINE m == [op |-> op, doc |-> doc, value |-> value, callback |-> callback,
                 committed |-> FALSE, version |-> 0]
           b == [callback |-> "addSpinner", on |-> v]
<1>1. mutationQueue[d] \in Seq(Mutation) /\ mainQueue[d] \in Seq(Block)
  BY DEF TypeInv, TypeOK, FirestoreTypeOK
<1>2. /\ mutationQueue' = [mutationQueue EXCEPT ![d] = Append(mutationQueue[d], m)]
      /\ mainQueue' = [mainQueue EXCEPT ![d] = Append(mainQueue[d], b)]
  BY DEF Post, WriteMutation, NewMutation
<1>3. CouponWrite(m) /\ m.callback = callback /\ b.callback # "redeemed"
  OBVIOUS
<1> HIDE DEF m, b
<1>4. \A i \in DOMAIN Append(mutationQueue[d], m) :
          \/ Append(mutationQueue[d], m)[i] = m
          \/ i \in DOMAIN mutationQueue[d] /\ Append(mutationQueue[d], m)[i] = mutationQueue[d][i]
  BY <1>1, AppendElement
<1>5. \A i \in DOMAIN Append(mainQueue[d], b) :
          \/ Append(mainQueue[d], b)[i] = b
          \/ i \in DOMAIN mainQueue[d] /\ Append(mainQueue[d], b)[i] = mainQueue[d][i]
  BY <1>1, AppendElement
<1>6. ClosedIsQuiet'
  BY <1>2, <1>3, <1>4, <1>5 DEF TypeInv, TypeOK, FirestoreTypeOK, ClosedIsQuiet
<1>7. CouponWrites'
  BY <1>2, <1>3, <1>4 DEF TypeInv, TypeOK, FirestoreTypeOK, CouponWrites
<1> QED
  BY <1>6, <1>7

LEMMA RedeemTappedType ==
    ASSUME TypeInv, NEW d \in Device, NEW id \in DocId, RedeemTapped(d, id)
    PROVE  TypeInv'
<1>1. screen[d] \in Collection /\ screen[d] # "closed"
  BY CollectionIsWho DEF TypeInv, TypeOK, RedeemTapped, ScreenTouchable
<1>2. <<screen[d], id>> \in Doc
  BY <1>1 DEF Doc
<1>3. mutationQueue' \in [Device -> Seq(Mutation)]
  <2>1. "redeemed" \in MaybeValue /\ "redeemed" \in WriteCallback
    BY ValueIsRedeemed, WriteCallbackIsKind DEF MaybeValue
  <2> QED
    BY <1>2, <2>1, WriteMutationType DEF TypeInv, RedeemTapped
<1>4. mainQueue' \in [Device -> Seq(Block)]
  <2>1. [callback |-> "addSpinner", on |-> "coupons"] \in Block
    BY DEF Block, SpinnerBlock, View
  <2> QED
    BY <2>1, PostType DEF TypeInv, RedeemTapped
<1>5. ClosedIsQuiet' /\ CouponWrites'
  <2>1. screen' = screen
    BY DEF RedeemTapped, screenVars
  <2> QED
    BY <1>1, <2>1, RequestQuiet DEF RedeemTapped, CouponWrite
<1>6. requested' \in SUBSET Request
  <2>1. <<"update", <<screen[d], id>>>> \in Request
    BY <1>2 DEF Request
  <2>2. requested \in SUBSET Request
    BY DEF TypeInv, TypeOK
  <2> QED
    BY <2>1, <2>2 DEF RedeemTapped
<1> QED
  BY <1>3, <1>4, <1>5, <1>6
  DEF TypeInv, TypeOK, FirestoreTypeOK, RedeemTapped, serverVars, screenVars

LEMMA SubmitTappedType ==
    ASSUME TypeInv, NEW d \in Device, NEW id \in DocId, SubmitTapped(d, id)
    PROVE  TypeInv'
<1>1. <<Other(screen[d]), id>> \in Doc
  BY CollectionIsWho DEF Doc, Other, Who
<1>2. mutationQueue' \in [Device -> Seq(Mutation)]
  <2>1. "unredeemed" \in MaybeValue /\ "gifted" \in WriteCallback
    BY ValueIsRedeemed, WriteCallbackIsKind DEF MaybeValue
  <2> QED
    BY <1>1, <2>1, WriteMutationType DEF TypeInv, SubmitTapped
<1>3. mainQueue' \in [Device -> Seq(Block)]
  <2>1. [callback |-> "addSpinner", on |-> "gift"] \in Block
    BY DEF Block, SpinnerBlock, View
  <2> QED
    BY <2>1, PostType DEF TypeInv, SubmitTapped
<1>4. ClosedIsQuiet' /\ CouponWrites'
  <2>1. screen' = screen
    BY DEF SubmitTapped, screenVars
  <2> QED
    BY <2>1, RequestQuiet DEF SubmitTapped, CouponWrite
<1>5. requested' \in SUBSET Request
  <2>1. <<"set", <<Other(screen[d]), id>>>> \in Request
    BY <1>1 DEF Request
  <2>2. requested \in SUBSET Request
    BY DEF TypeInv, TypeOK
  <2> QED
    BY <2>1, <2>2 DEF SubmitTapped
<1> QED
  BY <1>2, <1>3, <1>4, <1>5
  DEF TypeInv, TypeOK, FirestoreTypeOK, SubmitTapped, serverVars, screenVars

LEMMA PresentationType ==
    ASSUME TypeInv, NEW d \in Device, GiftTapped(d) \/ SubmitIncomplete(d) \/ AlertDismissed(d)
    PROVE  TypeInv'
<1>1. presented' \in [Device -> {"nothing", "alert", "sheet", "sheetAlert"}]
  BY DEF TypeInv, TypeOK, GiftTapped, SubmitIncomplete, AlertDismissed, AlertOn
<1> QED
  BY <1>1 DEF TypeInv, TypeOK, FirestoreTypeOK, ClosedIsQuiet, CouponWrites, GiftTapped,
              SubmitIncomplete, AlertDismissed, firestoreVars, serverVars, clientVars, historyVars

\* A sheet that closes takes its handlers with it and adds none.
LEMMA CloseSheetQuiet ==
    ASSUME TypeInv, NEW d \in Device, NEW queue \in Seq(Block), CloseSheet(d, queue),
           screen' = screen,
           \A i \in DOMAIN queue : \E j \in DOMAIN mainQueue[d] : queue[i] = mainQueue[d][j]
    PROVE  ClosedIsQuiet' /\ CouponWrites'
<1>1. NoCallback # "redeemed"
  BY NoCallbackAssumption, WriteCallbackIsKind
<1>2. \A b : b.callback # "redeemed" => WithoutSheet(b).callback # "redeemed"
  BY <1>1 DEF WithoutSheet
<1>3. \A m \in Mutation : /\ m.callback # "redeemed" => WithoutGiftHandler(m).callback # "redeemed"
                          /\ CouponWrite(m) => CouponWrite(WithoutGiftHandler(m))
  BY <1>1 DEF WithoutGiftHandler, WithoutCallback, Mutation, CouponWrite
<1>4. \A e \in Device : /\ mutationQueue[e] \in Seq(Mutation)
                        /\ \A i \in DOMAIN mutationQueue[e] : mutationQueue[e][i] \in Mutation
  BY ElementOfSeq, LenProperties DEF TypeInv, TypeOK, FirestoreTypeOK
<1>5. \A e \in Device \ {d} : mainQueue'[e] = mainQueue[e] /\ mutationQueue'[e] = mutationQueue[e]
  BY DEF CloseSheet, TypeInv, TypeOK, FirestoreTypeOK
<1>6. /\ mainQueue'[d] = [i \in DOMAIN queue |-> WithoutSheet(queue[i])]
      /\ mutationQueue'[d] =
            [i \in DOMAIN mutationQueue[d] |-> WithoutGiftHandler(mutationQueue[d][i])]
  BY DEF CloseSheet, TypeInv, TypeOK, FirestoreTypeOK
<1>7. ClosedIsQuiet'
  <2> SUFFICES ASSUME NEW e \in Device, screen[e] = "closed"
               PROVE  /\ \A i \in DOMAIN mainQueue'[e] : mainQueue'[e][i].callback # "redeemed"
                      /\ \A i \in DOMAIN mutationQueue'[e] :
                            mutationQueue'[e][i].callback # "redeemed"
    BY DEF ClosedIsQuiet
  <2>1. /\ \A i \in DOMAIN mainQueue[e] : mainQueue[e][i].callback # "redeemed"
        /\ \A i \in DOMAIN mutationQueue[e] : mutationQueue[e][i].callback # "redeemed"
    BY DEF TypeInv, ClosedIsQuiet
  <2>2. CASE e # d
    BY <1>5, <2>1, <2>2
  <2>3. CASE e = d
    <3>1. \A i \in DOMAIN queue : queue[i].callback # "redeemed"
      BY <2>1, <2>3
    <3>2. \A i \in DOMAIN mainQueue'[e] : mainQueue'[e][i].callback # "redeemed"
      BY <1>2, <1>6, <2>3, <3>1
    <3>3. \A i \in DOMAIN mutationQueue'[e] : mutationQueue'[e][i].callback # "redeemed"
      BY <1>3, <1>4, <1>6, <2>1, <2>3
    <3> QED
      BY <3>2, <3>3
  <2> QED
    BY <2>2, <2>3
<1>8. CouponWrites'
  BY <1>3, <1>4, <1>5, <1>6 DEF TypeInv, CouponWrites
<1> QED
  BY <1>7, <1>8

LEMMA SheetSwipedType ==
    ASSUME TypeInv, NEW d \in Device, SheetSwiped(d)
    PROVE  TypeInv'
<1>1. mainQueue[d] \in Seq(Block) /\ CloseSheet(d, mainQueue[d])
  BY DEF TypeInv, TypeOK, SheetSwiped
<1>2. ClosedIsQuiet' /\ CouponWrites'
  <2>1. screen' = screen
    BY DEF SheetSwiped
  <2> QED
    BY <1>1, <2>1, CloseSheetQuiet
<1> QED
  BY <1>1, <1>2, CloseSheetType
  DEF TypeInv, TypeOK, FirestoreTypeOK, SheetSwiped, serverVars, historyVars

\* A block that runs leaves the others as they are.
LEMMA PopFrontQuiet ==
    ASSUME TypeInv, NEW d \in Device, mainQueue[d] # <<>>, PopFront(d),
           UNCHANGED <<screen, mutationQueue>>
    PROVE  ClosedIsQuiet' /\ CouponWrites'
<1>1. mainQueue[d] \in Seq(Block)
  BY DEF TypeInv, TypeOK
<1>2. \A i \in DOMAIN Tail(mainQueue[d]) :
          i + 1 \in DOMAIN mainQueue[d] /\ Tail(mainQueue[d])[i] = mainQueue[d][i + 1]
  BY <1>1, TailElement
<1>3. ClosedIsQuiet'
  BY <1>2 DEF TypeInv, TypeOK, ClosedIsQuiet, PopFront
<1> QED
  BY <1>3 DEF TypeInv, CouponWrites

\* What kind of block a handler finds at the front.
LEMMA FrontType ==
    ASSUME TypeInv, NEW d \in Device, NEW callback, Front(d, callback)
    PROVE  /\ mainQueue[d] # <<>>
           /\ callback \in WriteCallback => Head(mainQueue[d]) \in WriteResult
           /\ callback = "fetched" => Head(mainQueue[d]) \in QueryResult
           /\ callback \in {"addSpinner", "removeSpinner"} => Head(mainQueue[d]) \in SpinnerBlock
<1>1. mainQueue[d] \in Seq(Block) /\ mainQueue[d] # <<>>
  BY DEF TypeInv, TypeOK, Front
<1>2. Head(mainQueue[d]) \in Block
  BY <1>1, HeadTailProperties
<1> QED
  BY <1>1, <1>2, NoCallbackAssumption, NoCallbackIsNoSpinner, WriteCallbackIsKind
  DEF Front, Block, WriteResult, QueryResult, SpinnerBlock

LEMMA FetchCouponsCompletedType ==
    ASSUME TypeInv, NEW d \in Device, FetchCouponsCompleted(d)
    PROVE  TypeInv'
<1> DEFINE result == Head(mainQueue[d])
<1>1. mainQueue[d] # <<>> /\ result \in QueryResult
  BY FrontType DEF FetchCouponsCompleted
<1>2. mainQueue' \in [Device -> Seq(Block)]
  BY <1>1, PopFrontType DEF TypeInv, FetchCouponsCompleted
<1>3. ClosedIsQuiet' /\ CouponWrites'
  BY <1>1, PopFrontQuiet DEF FetchCouponsCompleted, clientVars
<1>4. /\ coupons' \in [Device -> [DocId -> MaybeValue]]
      /\ loaded' \in [Device -> BOOLEAN]
      /\ presented' \in [Device -> {"nothing", "alert", "sheet", "sheetAlert"}]
      /\ fetchFailed' \in [Device -> BOOLEAN]
  BY <1>1 DEF TypeInv, TypeOK, FetchCouponsCompleted, QueryResult, AlertOn
<1> QED
  BY <1>2, <1>3, <1>4
  DEF TypeInv, TypeOK, FirestoreTypeOK, FetchCouponsCompleted, serverVars, clientVars

LEMMA RedeemCouponCompletedType ==
    ASSUME TypeInv, NEW d \in Device, RedeemCouponCompleted(d)
    PROVE  TypeInv'
<1> DEFINE result == Head(mainQueue[d])
<1>1. mainQueue[d] # <<>> /\ result \in WriteResult
  BY FrontType, WriteCallbackIsKind DEF RedeemCouponCompleted
<1>2. mainQueue' \in [Device -> Seq(Block)]
  BY <1>1, PopFrontType DEF TypeInv, RedeemCouponCompleted
<1>3. ClosedIsQuiet' /\ CouponWrites'
  BY <1>1, PopFrontQuiet DEF RedeemCouponCompleted
<1>4. screen[d] \in Collection
  <2>1. mainQueue[d] \in Seq(Block)
    BY DEF TypeInv, TypeOK
  <2>2. 1 \in DOMAIN mainQueue[d] /\ mainQueue[d][1].callback = "redeemed"
    BY <1>1, <2>1, TailElement DEF RedeemCouponCompleted, Front
  <2>3. screen[d] # "closed"
    BY <2>2 DEF TypeInv, ClosedIsQuiet
  <2> QED
    BY <2>3, CollectionIsWho DEF TypeInv, TypeOK
<1>5. /\ result.doc \in Doc /\ result.doc[2] \in DocId
      /\ <<"update", result.doc>> \in Request
  BY <1>1 DEF WriteResult, Doc, Request
<1>6. /\ configured' \in [Device -> BOOLEAN]
      /\ listenTargets' \in [Device -> SUBSET Collection]
      /\ listeners' \in [Device -> [Collection -> Nat]]
      /\ told' \in SUBSET Request
      /\ confirmed' \in [Device -> SUBSET DocId]
      /\ expiring' \in [Device -> [View -> Nat]]
      /\ presented' \in [Device -> {"nothing", "alert", "sheet", "sheetAlert"}]
  <2>1. CASE RedeemSucceeded(d, result.doc)
    <3>1. /\ configured' \in [Device -> BOOLEAN]
          /\ listenTargets' \in [Device -> SUBSET Collection]
          /\ listeners' \in [Device -> [Collection -> Nat]]
      BY <1>4, <2>1, GetDocumentsType DEF TypeInv, RedeemSucceeded
    <3>2. told' \in SUBSET Request
      <4>1. told \in SUBSET Request /\ told' = told \cup {<<"update", result.doc>>}
        BY <2>1 DEF TypeInv, TypeOK, RedeemSucceeded
      <4> HIDE DEF result
      <4> QED
        BY <1>5, <4>1
    <3>3. confirmed' \in [Device -> SUBSET DocId]
      BY <1>5, <2>1 DEF TypeInv, TypeOK, RedeemSucceeded
    <3>4. expiring' \in [Device -> [View -> Nat]] /\ presented' = presented
      BY <2>1 DEF TypeInv, TypeOK, RedeemSucceeded, View
    <3> QED
      BY <3>1, <3>2, <3>3, <3>4 DEF TypeInv, TypeOK
  <2>2. CASE RedeemFailed(d)
    <3>1. expiring' \in [Device -> [View -> Nat]]
      BY <2>2 DEF TypeInv, TypeOK, RedeemFailed, View
    <3>2. presented' \in [Device -> {"nothing", "alert", "sheet", "sheetAlert"}]
      BY <2>2 DEF TypeInv, TypeOK, RedeemFailed, AlertOn
    <3> QED
      BY <2>2, <3>1, <3>2 DEF TypeInv, TypeOK, FirestoreTypeOK, RedeemFailed
  <2> QED
    BY <2>1, <2>2 DEF RedeemCouponCompleted
<1> QED
  BY <1>2, <1>3, <1>6 DEF TypeInv, TypeOK, FirestoreTypeOK, RedeemCouponCompleted, serverVars

LEMMA GiftCouponCompletedType ==
    ASSUME TypeInv, NEW d \in Device, GiftCouponCompleted(d)
    PROVE  TypeInv'
<1> DEFINE result == Head(mainQueue[d])
<1>1. mainQueue[d] # <<>> /\ result \in WriteResult
  BY FrontType, WriteCallbackIsKind DEF GiftCouponCompleted
<1>2. mainQueue[d] \in Seq(Block) /\ screen' = screen
  BY DEF TypeInv, TypeOK, GiftCouponCompleted
<1>3. told \in SUBSET Request /\ <<"set", result.doc>> \in Request
  BY <1>1 DEF TypeInv, TypeOK, WriteResult, Request
<1> DEFINE Kept ==
      /\ mutationQueue' \in [Device -> Seq(Mutation)]
      /\ mainQueue' \in [Device -> Seq(Block)]
      /\ told' \in SUBSET Request
      /\ spinners' \in [Device -> [View -> Nat]]
      /\ expiring' \in [Device -> [View -> Nat]]
      /\ presented' \in [Device -> {"nothing", "alert", "sheet", "sheetAlert"}]
      /\ ClosedIsQuiet' /\ CouponWrites'
<1>4. ASSUME GiftFailed(d) PROVE Kept
  <2>1. mainQueue' \in [Device -> Seq(Block)] /\ ClosedIsQuiet' /\ CouponWrites'
    BY <1>1, <1>2, <1>4, PopFrontType, PopFrontQuiet DEF TypeInv, GiftFailed
  <2>2. presented' \in [Device -> {"nothing", "alert", "sheet", "sheetAlert"}]
    BY <1>4 DEF TypeInv, TypeOK, GiftFailed, AlertOn
  <2>3. expiring' \in [Device -> [View -> Nat]]
    BY <1>4 DEF TypeInv, TypeOK, GiftFailed, View
  <2> QED
    BY <1>4, <2>1, <2>2, <2>3 DEF TypeInv, TypeOK, FirestoreTypeOK, GiftFailed
<1>5. ASSUME GiftSucceeded(d, result.doc) PROVE Kept
  <2>1. told' \in SUBSET Request
    <3>1. told' = told \cup {<<"set", result.doc>>}
      BY <1>5 DEF GiftSucceeded
    <3> HIDE DEF result
    <3> QED
      BY <1>3, <3>1
  <2>2. CASE presented[d] = "sheetAlert"
    <3>1. /\ PopFront(d) /\ UNCHANGED <<mutationQueue, spinners>>
          /\ presented' = [presented EXCEPT ![d] = "sheet"]
          /\ expiring' = [expiring EXCEPT ![d]["gift"] = @ + 1]
      BY <1>5, <2>2 DEF GiftSucceeded
    <3>2. mainQueue' \in [Device -> Seq(Block)] /\ ClosedIsQuiet' /\ CouponWrites'
      BY <1>1, <1>2, <3>1, PopFrontType, PopFrontQuiet DEF TypeInv
    <3>3. presented' \in [Device -> {"nothing", "alert", "sheet", "sheetAlert"}]
      BY <3>1 DEF TypeInv, TypeOK
    <3>4. expiring' \in [Device -> [View -> Nat]]
      BY <3>1 DEF TypeInv, TypeOK, View
    <3> QED
      BY <2>1, <3>1, <3>2, <3>3, <3>4 DEF TypeInv, TypeOK, FirestoreTypeOK
  <2>3. CASE presented[d] # "sheetAlert"
    <3>1. CloseSheet(d, Tail(mainQueue[d]))
      BY <1>5, <2>3 DEF GiftSucceeded
    <3>2. Tail(mainQueue[d]) \in Seq(Block)
      BY <1>1, <1>2, HeadTailProperties
    <3>3. \A i \in DOMAIN Tail(mainQueue[d]) :
              \E j \in DOMAIN mainQueue[d] : Tail(mainQueue[d])[i] = mainQueue[d][j]
      BY <1>1, <1>2, TailElement
    <3>4. ClosedIsQuiet' /\ CouponWrites'
      BY <1>2, <3>1, <3>2, <3>3, CloseSheetQuiet
    <3> QED
      BY <2>1, <3>1, <3>2, <3>4, CloseSheetType DEF TypeInv
  <2> QED
    BY <2>2, <2>3
<1>6. Kept
  BY <1>4, <1>5 DEF GiftCouponCompleted
<1> QED
  BY <1>6 DEF TypeInv, TypeOK, FirestoreTypeOK, GiftCouponCompleted, serverVars

LEMMA SpinnerBlockType ==
    ASSUME TypeInv, NEW d \in Device, SpinnerAdded(d) \/ SpinnerRemoved(d)
    PROVE  TypeInv'
<1> DEFINE v == Head(mainQueue[d]).on
<1>1. mainQueue[d] # <<>> /\ v \in View
  BY FrontType DEF SpinnerAdded, SpinnerRemoved, SpinnerBlock
<1>2. PopFront(d) /\ UNCHANGED <<screen, mutationQueue>>
  BY DEF SpinnerAdded, SpinnerRemoved, clientVars
<1>3. mainQueue' \in [Device -> Seq(Block)] /\ ClosedIsQuiet' /\ CouponWrites'
  BY <1>1, <1>2, PopFrontType, PopFrontQuiet DEF TypeInv
<1>4. spinners' \in [Device -> [View -> Nat]]
  <2>1. spinners[d][v] \in Nat
    BY <1>1 DEF TypeInv, TypeOK
  <2>2. CASE SpinnerAdded(d)
    <3>1. spinners' = [spinners EXCEPT ![d][v] = spinners[d][v] + 1]
      BY <2>2 DEF SpinnerAdded
    <3> HIDE DEF v
    <3> QED
      BY <1>1, <2>1, <3>1 DEF TypeInv, TypeOK
  <2>3. CASE SpinnerRemoved(d)
    <3>1. spinners' = [spinners EXCEPT ![d][v] =
                          IF spinners[d][v] > 0 THEN spinners[d][v] - 1 ELSE 0]
      BY <2>3 DEF SpinnerRemoved
    <3> HIDE DEF v
    <3> QED
      BY <1>1, <2>1, <3>1 DEF TypeInv, TypeOK
  <2> QED
    BY <2>2, <2>3
<1> QED
  BY <1>3, <1>4 DEF TypeInv, TypeOK, FirestoreTypeOK, SpinnerAdded, SpinnerRemoved, serverVars,
                    clientVars, historyVars

LEMMA NothingLeftToDoType ==
    ASSUME TypeInv, NEW d \in Device, NothingLeftToDo(d)
    PROVE  TypeInv'
<1>1. mainQueue[d] # <<>> /\ PopFront(d) /\ UNCHANGED <<screen, mutationQueue>>
  BY DEF NothingLeftToDo, Front, clientVars, screenVars
<1>2. mainQueue' \in [Device -> Seq(Block)] /\ ClosedIsQuiet' /\ CouponWrites'
  BY <1>1, PopFrontType, PopFrontQuiet DEF TypeInv
<1> QED
  BY <1>2 DEF TypeInv, TypeOK, FirestoreTypeOK, NothingLeftToDo, serverVars, clientVars,
              screenVars, historyVars

LEMMA SpinnerExpiresType ==
    ASSUME TypeInv, NEW d \in Device, NEW v \in View, SpinnerExpires(d, v)
    PROVE  TypeInv'
<1> DEFINE b == [callback |-> "removeSpinner", on |-> v]
<1>1. b \in Block /\ mainQueue[d] \in Seq(Block)
  BY DEF Block, SpinnerBlock, TypeInv, TypeOK
<1>2. mainQueue' \in [Device -> Seq(Block)]
  BY <1>1, PostType DEF TypeInv, SpinnerExpires
<1>3. expiring' \in [Device -> [View -> Nat]]
  BY DEF TypeInv, TypeOK, SpinnerExpires
<1>4. ClosedIsQuiet'
  <2>1. /\ mainQueue' = [mainQueue EXCEPT ![d] = Append(mainQueue[d], b)]
        /\ UNCHANGED <<screen, mutationQueue>>
    BY DEF SpinnerExpires, Post, clientVars
  <2>2. b.callback # "redeemed"
    OBVIOUS
  <2> HIDE DEF b
  <2>3. \A i \in DOMAIN Append(mainQueue[d], b) :
            \/ Append(mainQueue[d], b)[i] = b
            \/ i \in DOMAIN mainQueue[d] /\ Append(mainQueue[d], b)[i] = mainQueue[d][i]
    BY <1>1, AppendElement
  <2> QED
    BY <2>1, <2>2, <2>3 DEF TypeInv, TypeOK, ClosedIsQuiet
<1>5. CouponWrites'
  BY DEF TypeInv, CouponWrites, SpinnerExpires, clientVars
<1> QED
  BY <1>2, <1>3, <1>4, <1>5
  DEF TypeInv, TypeOK, FirestoreTypeOK, SpinnerExpires, serverVars, clientVars, historyVars

LEMMA TypeStep == TypeInv /\ [Next]_vars => TypeInv'
<1> SUFFICES ASSUME TypeInv, [Next]_vars PROVE TypeInv'
  OBVIOUS
<1>1. ASSUME NEW d \in Device, Touch(d) PROVE TypeInv'
  BY <1>1, OpenCouponsType, CloseTappedType, RedeemTappedType, SubmitTappedType,
     PresentationType, SheetSwipedType DEF Touch
<1>2. ASSUME NEW d \in Device, MainBlock(d) PROVE TypeInv'
  BY <1>2, FetchCouponsCompletedType, RedeemCouponCompletedType, GiftCouponCompletedType,
     SpinnerBlockType, NothingLeftToDoType DEF MainBlock
<1>3. CASE UNCHANGED vars
  BY <1>3 DEF TypeInv, TypeOK, FirestoreTypeOK, ClosedIsQuiet, CouponWrites, vars, firestoreVars,
              serverVars, clientVars, screenVars, historyVars
<1> QED
  BY <1>1, <1>2, <1>3, SpinnerExpiresType, ClientEventType, WriteRefusedType, KillType DEF Next

LEMMA TypeInvariant == Spec => []TypeInv
  BY TypeInit, TypeStep, PTL DEF Spec

\* The state always has the types TypeOK gives it: in particular every fetch
\* and every redeem is about the coupons of a person, and a document the
\* carousel shows is one that can exist.
THEOREM TypeCorrect == Spec => []TypeOK
<1>1. TypeInv => TypeOK
  BY DEF TypeInv
<1> QED
  BY <1>1, TypeInvariant, PTL
================================================================================
