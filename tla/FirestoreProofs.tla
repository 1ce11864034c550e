------------------------------ MODULE FirestoreProofs ------------------------------
(***************************************************************************)
(* Lemmas about the Firestore client, for any app that uses it: what the   *)
(* operators on queues return, and what each event of the client does to   *)
(* the queue of writes, the cache, the server and the main queue.          *)
(***************************************************************************)
EXTENDS Firestore, TLAPS, SequenceTheorems, WellFoundedInduction

(***************************************************************************)
(* Lemmas about the operators.                                             *)
(***************************************************************************)

\* The last of a non-empty set of queue positions is one of them, and none
\* of them comes after it.
LEMMA LastOfMember ==
    ASSUME NEW n \in Nat, NEW S \in SUBSET (1..n), S # {}
    PROVE  LastOf(S) \in S /\ \A j \in S : j <= LastOf(S)
<1> DEFINE D == {k \in Nat : \E i \in S : k = n - i}
<1>1. D \subseteq Nat
  OBVIOUS
<1>2. D # {}
  <2>1. PICK i \in S : TRUE
    OBVIOUS
  <2>2. n - i \in D
    OBVIOUS
  <2> QED
    BY <2>2
<1> HIDE DEF D
<1>3. PICK k \in D : \A m \in D : ~(<<m, k>> \in OpToRel(<, Nat))
  BY <1>1, <1>2, NatLessThanWellFounded, WFMin
<1>4. \A m \in D : k <= m
  <2> TAKE m \in D
  <2>1. m \in Nat /\ k \in Nat
    BY <1>1
  <2>2. ~(m < k)
    <3>1. <<m, k>> \in Nat \X Nat
      BY <2>1
    <3>2. OpToRel(<, Nat) = {ss \in Nat \X Nat : ss[1] < ss[2]}
      BY DEF OpToRel
    <3> QED
      BY <1>3, <3>1, <3>2
  <2> QED
    BY <2>1, <2>2
<1>5. PICK i \in S : k = n - i
  BY DEF D
<1>6. \A j \in S : j <= i
  <2> TAKE j \in S
  <2>1. n - j \in D
    BY DEF D
  <2> QED
    BY <1>4, <1>5, <2>1
<1> QED
  BY <1>6 DEF LastOf

\* The elements of a queue that grew, or lost its head.
LEMMA AppendElement ==
    ASSUME NEW S, NEW q \in Seq(S), NEW e
    PROVE  \A i \in DOMAIN Append(q, e) :
                \/ i = Len(q) + 1 /\ Append(q, e)[i] = e
                \/ i \in DOMAIN q /\ Append(q, e)[i] = q[i]
<1>1. q \in Seq(S \cup {e})
  BY SeqMonotonic
<1> QED
  BY <1>1, AppendProperties, LenProperties

LEMMA TailElement ==
    ASSUME NEW S, NEW q \in Seq(S), q # <<>>
    PROVE  /\ Head(q) = q[1] /\ 1 \in DOMAIN q
           /\ \A i \in DOMAIN Tail(q) : i + 1 \in DOMAIN q /\ Tail(q)[i] = q[i + 1]
  BY HeadTailProperties, LenProperties

\* A queue to which the same block was added n times.
LEMMA RaisedElement ==
    ASSUME NEW S, NEW q \in Seq(S), NEW n \in Nat, NEW b
    PROVE  LET new == [i \in 1..n |-> b] IN
           \A i \in DOMAIN (q \o new) : \/ i \in DOMAIN q /\ (q \o new)[i] = q[i]
                                      \/ (q \o new)[i] = b
<1> DEFINE new == [i \in 1..n |-> b]
<1>1. new \in Seq({b}) /\ Len(new) = n
  <2>1. new \in [1..n -> {b}]
    OBVIOUS
  <2> QED
    BY <2>1
<1> HIDE DEF new
<1>2. q \in Seq(S \cup {b}) /\ new \in Seq(S \cup {b})
  BY <1>1, SeqMonotonic
<1>3. \A i \in 1..Len(new) : new[i] = b
  BY <1>1, ElementOfSeq
<1>4. \A i \in DOMAIN (q \o new) : \/ i \in DOMAIN q /\ (q \o new)[i] = q[i]
                                   \/ (q \o new)[i] = b
  BY <1>1, <1>2, <1>3, ConcatProperties, LenProperties
<1> QED
  BY <1>4 DEF new

\* What the app sees of a collection is a value for every document name.
LEMMA LocalViewType ==
    ASSUME NEW q \in Seq(Mutation), NEW cache \in [Doc -> Document], NEW coll \in Collection
    PROVE  LocalView(q, cache, coll) \in [DocId -> MaybeValue]
<1> SUFFICES ASSUME NEW id \in DocId
             PROVE  LocalValue(q, <<coll, id>>, cache[<<coll, id>>].value) \in MaybeValue
  BY DEF LocalView
<1> DEFINE doc == <<coll, id>>
           writes == {i \in DOMAIN q : q[i].doc = doc}
<1>1. doc \in Doc /\ cache[doc].value \in MaybeValue
  BY DEF Doc, Document
<1>2. writes \in SUBSET (1..Len(q))
  BY LenProperties
<1>3. ASSUME writes # {} PROVE q[LastOf(writes)].value \in MaybeValue
  <2>1. LastOf(writes) \in 1..Len(q)
    BY <1>2, <1>3, LastOfMember, LenProperties
  <2>2. q[LastOf(writes)] \in Mutation
    BY <2>1, ElementOfSeq
  <2> QED
    BY <2>2 DEF Mutation
<1> QED
  BY <1>1, <1>3 DEF LocalValue, MaybeValue

\* Taking handlers away leaves a queue of writes.
LEMMA OrphanedType ==
    ASSUME NEW q \in Seq(Mutation)
    PROVE  Orphaned(q) \in Seq(Mutation)
<1>1. \A i \in 1..Len(q) : q[i] \in Mutation
  BY ElementOfSeq
<1>2. \A m \in Mutation : WithoutCallback(m) \in Mutation
  BY DEF WithoutCallback, Mutation
<1>3. Orphaned(q) \in [1..Len(q) -> Mutation]
  BY <1>1, <1>2, LenProperties DEF Orphaned
<1> QED
  BY <1>3, LenProperties

\* Sending a queue again changes nothing but what counts as made.
LEMMA ResentType ==
    ASSUME NEW q \in Seq(Mutation)
    PROVE  /\ Resent(q) \in Seq(Mutation)
           /\ DOMAIN Resent(q) = DOMAIN q
           /\ \A i \in DOMAIN q : /\ Resent(q)[i].callback = q[i].callback
                                /\ Resent(q)[i].op = q[i].op
                                /\ Resent(q)[i].value = q[i].value
<1>1. \A i \in 1..Len(q) : q[i] \in Mutation
  BY ElementOfSeq
<1>2. DOMAIN q = 1..Len(q)
  BY LenProperties
<1>3. Resent(q) = [i \in 1..Len(q) |-> [q[i] EXCEPT !.committed = FALSE, !.version = 0]]
  BY <1>2 DEF Resent
<1>4. \A m \in Mutation :
        LET n == [m EXCEPT !.committed = FALSE, !.version = 0]
        IN  n \in Mutation /\ n.callback = m.callback /\ n.op = m.op /\ n.value = m.value
  BY DEF Mutation, Version
<1>5. Resent(q) \in [1..Len(q) -> Mutation]
  BY <1>1, <1>3, <1>4
<1>6. Resent(q) \in Seq(Mutation)
  BY <1>5, LenProperties
<1> QED
  BY <1>1, <1>2, <1>3, <1>4, <1>6

\* What the app sees of a document is its cached value, or what a write that
\* is still queued says.
LEMMA LocalValueOrigin ==
    ASSUME NEW q \in Seq(Mutation), NEW doc, NEW base
    PROVE  \/ LocalValue(q, doc, base) = NoDocument
           \/ LocalValue(q, doc, base) = base
           \/ \E i \in DOMAIN q : q[i].doc = doc /\ q[i].value = LocalValue(q, doc, base)
<1> DEFINE writes == {i \in DOMAIN q : q[i].doc = doc}
<1>1. writes \in SUBSET (1..Len(q)) /\ Len(q) \in Nat
  BY LenProperties
<1>2. ASSUME writes # {} PROVE LastOf(writes) \in writes
  <2> HIDE DEF writes
  <2> QED
    BY <1>1, <1>2, LastOfMember
<1> QED
  BY <1>2 DEF LocalValue

(***************************************************************************)
(* The queues of the devices, of writes or of blocks, when that of one     *)
(* device grows at its end or loses its head.                              *)
(***************************************************************************)
LEMMA GrownQueue ==
    ASSUME NEW B, NEW f \in [Device -> Seq(B)], NEW d \in Device, NEW new \in Seq(B),
           NEW g, g = [f EXCEPT ![d] = f[d] \o new]
    PROVE  /\ g \in [Device -> Seq(B)]
           /\ \A e \in Device : \A i \in DOMAIN f[e] : i \in DOMAIN g[e] /\ g[e][i] = f[e][i]
           /\ \A e \in Device : \A i \in DOMAIN g[e] :
                \/ i \in DOMAIN f[e]
                \/ /\ e = d /\ i > Len(f[d]) /\ i - Len(f[d]) \in DOMAIN new
                   /\ g[e][i] = new[i - Len(f[d])]
           /\ \A k \in DOMAIN new : Len(f[d]) + k \in DOMAIN g[d]
                                    /\ g[d][Len(f[d]) + k] = new[k]
<1>1. /\ f[d] \in Seq(B) /\ f[d] \o new \in Seq(B) /\ g[d] = f[d] \o new
      /\ \A e \in Device \ {d} : g[e] = f[e]
  BY ConcatProperties
<1>2. /\ DOMAIN f[d] = 1..Len(f[d]) /\ Len(f[d]) \in Nat
      /\ DOMAIN new = 1..Len(new) /\ Len(new) \in Nat
      /\ DOMAIN g[d] = 1..(Len(f[d]) + Len(new))
  BY <1>1, LenProperties, ConcatProperties
<1>3. \A i \in 1..(Len(f[d]) + Len(new)) :
          g[d][i] = IF i <= Len(f[d]) THEN f[d][i] ELSE new[i - Len(f[d])]
  BY <1>1, ConcatProperties
<1>4. g \in [Device -> Seq(B)]
  BY <1>1
<1>5. \A e \in Device : \A i \in DOMAIN f[e] : i \in DOMAIN g[e] /\ g[e][i] = f[e][i]
  <2> TAKE e \in Device
  <2>1. CASE e = d
    BY <1>2, <1>3, <2>1
  <2>2. CASE e # d
    BY <1>1, <2>2
  <2> QED
    BY <2>1, <2>2
<1>6. \A e \in Device : \A i \in DOMAIN g[e] :
                \/ i \in DOMAIN f[e]
                \/ /\ e = d /\ i > Len(f[d]) /\ i - Len(f[d]) \in DOMAIN new
                   /\ g[e][i] = new[i - Len(f[d])]
  <2> TAKE e \in Device
  <2>1. CASE e = d
    BY <1>2, <1>3, <2>1
  <2>2. CASE e # d
    BY <1>1, <2>2
  <2> QED
    BY <2>1, <2>2
<1>7. \A k \in DOMAIN new : Len(f[d]) + k \in DOMAIN g[d] /\ g[d][Len(f[d]) + k] = new[k]
  BY <1>2, <1>3
<1> QED
  BY <1>4, <1>5, <1>6, <1>7

LEMMA AppendedQueue ==
    ASSUME NEW B, NEW f \in [Device -> Seq(B)], NEW d \in Device, NEW b \in B,
           NEW g, g = [f EXCEPT ![d] = Append(f[d], b)]
    PROVE  /\ g \in [Device -> Seq(B)]
           /\ \A e \in Device : \A i \in DOMAIN f[e] : i \in DOMAIN g[e] /\ g[e][i] = f[e][i]
           /\ \A e \in Device : \A i \in DOMAIN g[e] :
                i \in DOMAIN f[e] \/ (e = d /\ i > Len(f[d]) /\ g[e][i] = b)
           /\ Len(f[d]) + 1 \in DOMAIN g[d] /\ g[d][Len(f[d]) + 1] = b
<1>1. f[d] \in Seq(B) /\ Append(f[d], b) = f[d] \o <<b>>
  BY AppendIsConcat
<1>2. <<b>> \in Seq(B) /\ DOMAIN <<b>> = {1} /\ <<b>>[1] = b
  OBVIOUS
<1>3. Len(f[d]) \in Nat
  BY <1>1, LenProperties
<1> DEFINE new == <<b>>
<1>4. new \in Seq(B) /\ g = [f EXCEPT ![d] = f[d] \o new]
  BY <1>1, <1>2
<1>5. DOMAIN new = {1} /\ new[1] = b
  BY <1>2
<1> HIDE DEF new
<1>6. /\ g \in [Device -> Seq(B)]
      /\ \A e \in Device : \A i \in DOMAIN f[e] : i \in DOMAIN g[e] /\ g[e][i] = f[e][i]
      /\ \A e \in Device : \A i \in DOMAIN g[e] :
                \/ i \in DOMAIN f[e]
                \/ /\ e = d /\ i > Len(f[d]) /\ i - Len(f[d]) \in DOMAIN new
                   /\ g[e][i] = new[i - Len(f[d])]
      /\ \A k \in DOMAIN new : Len(f[d]) + k \in DOMAIN g[d] /\ g[d][Len(f[d]) + k] = new[k]
  BY <1>4, GrownQueue
<1>7. \A e \in Device : \A i \in DOMAIN g[e] :
                i \in DOMAIN f[e] \/ (e = d /\ i > Len(f[d]) /\ g[e][i] = b)
  BY <1>5, <1>6
<1> QED
  BY <1>5, <1>6, <1>7

LEMMA ShrunkQueue ==
    ASSUME NEW B, NEW f \in [Device -> Seq(B)], NEW d \in Device, f[d] # <<>>,
           NEW g, g = [f EXCEPT ![d] = Tail(f[d])]
    PROVE  /\ g \in [Device -> Seq(B)]
           /\ Head(f[d]) \in B /\ Head(f[d]) = f[d][1] /\ 1 \in DOMAIN f[d]
           /\ \A e \in Device : DOMAIN f[e] \in SUBSET Nat /\ DOMAIN g[e] \in SUBSET Nat
           /\ \A e \in Device \ {d} : g[e] = f[e]
           /\ \A i \in DOMAIN g[d] : i + 1 \in DOMAIN f[d] /\ g[d][i] = f[d][i + 1]
           /\ \A i \in DOMAIN f[d] : i # 1 => i - 1 \in DOMAIN g[d] /\ g[d][i - 1] = f[d][i]
<1>1. /\ f[d] \in Seq(B) /\ g[d] = Tail(f[d]) /\ \A e \in Device \ {d} : g[e] = f[e]
  OBVIOUS
<1>2. /\ Head(f[d]) \in B /\ Tail(f[d]) \in Seq(B) /\ Len(Tail(f[d])) = Len(f[d]) - 1
      /\ \A i \in 1..Len(Tail(f[d])) : Tail(f[d])[i] = f[d][i + 1]
  BY <1>1, HeadTailProperties
<1>3. /\ DOMAIN f[d] = 1..Len(f[d]) /\ Len(f[d]) \in Nat
      /\ DOMAIN g[d] = 1..(Len(f[d]) - 1)
  BY <1>1, <1>2, LenProperties
<1>4. Head(f[d]) = f[d][1] /\ 1 \in DOMAIN f[d]
  BY <1>1, TailElement
<1>5. g \in [Device -> Seq(B)]
  BY <1>1, <1>2
<1>6. \A e \in Device : DOMAIN f[e] \in SUBSET Nat /\ DOMAIN g[e] \in SUBSET Nat
  BY <1>5, LenProperties
<1>7. \A i \in DOMAIN g[d] : i + 1 \in DOMAIN f[d] /\ g[d][i] = f[d][i + 1]
  BY <1>1, <1>2, <1>3
<1>8. \A i \in DOMAIN f[d] : i # 1 => i - 1 \in DOMAIN g[d] /\ g[d][i - 1] = f[d][i]
  BY <1>1, <1>2, <1>3
<1> QED
  BY <1>1, <1>2, <1>4, <1>5, <1>6, <1>7, <1>8

(***************************************************************************)
(* What the events of the client do, for any set of blocks of the main     *)
(* queue that includes the results of writes and queries.                  *)
(***************************************************************************)
QueueTypes(B) ==
    /\ FirestoreTypeOK
    /\ mainQueue \in [Device -> Seq(B)]
    /\ WriteResult \cup QueryResult \subseteq B

\* The main queue of a device grew by n copies of a block.
Posted(d, n, b) ==
    /\ \A e \in Device : \A i \in DOMAIN mainQueue[e] :
        i \in DOMAIN mainQueue'[e] /\ mainQueue'[e][i] = mainQueue[e][i]
    /\ \A e \in Device : \A i \in DOMAIN mainQueue'[e] :
        \/ i \in DOMAIN mainQueue[e]
        \/ e = d /\ i > Len(mainQueue[d]) /\ n > 0 /\ mainQueue'[e][i] = b
    /\ n > 0 => \E i \in DOMAIN mainQueue'[d] : i > Len(mainQueue[d]) /\ mainQueue'[d][i] = b

\* The outcome of a write is posted to its handler, if that is still there.
LEMMA NotifyUserPosts ==
    ASSUME NEW B, QueueTypes(B), NEW d \in Device, NEW m \in Mutation, NEW ok \in BOOLEAN,
           NotifyUser(d, m, ok),
           NEW b, b = [callback |-> m.callback, ok |-> ok, doc |-> m.doc]
    PROVE  /\ mainQueue' \in [Device -> Seq(B)]
           /\ \/ m.callback = NoCallback /\ mainQueue' = mainQueue
              \/ m.callback \in WriteCallback /\ b \in WriteResult /\ Posted(d, 1, b)
<1>1. mainQueue \in [Device -> Seq(B)]
  BY DEF QueueTypes
<1>2. CASE m.callback = NoCallback
  BY <1>1, <1>2 DEF NotifyUser
<1>3. CASE m.callback # NoCallback
  <2>1. m.callback \in WriteCallback /\ b \in B /\ b \in WriteResult
    BY <1>3 DEF Mutation, QueueTypes, WriteResult
  <2>2. mainQueue' = [mainQueue EXCEPT ![d] = Append(mainQueue[d], b)]
    BY <1>3 DEF NotifyUser
  <2>3. /\ mainQueue' \in [Device -> Seq(B)]
        /\ \A e \in Device : \A i \in DOMAIN mainQueue[e] :
              i \in DOMAIN mainQueue'[e] /\ mainQueue'[e][i] = mainQueue[e][i]
        /\ \A e \in Device : \A i \in DOMAIN mainQueue'[e] :
              i \in DOMAIN mainQueue[e]
              \/ (e = d /\ i > Len(mainQueue[d]) /\ mainQueue'[e][i] = b)
        /\ Len(mainQueue[d]) + 1 \in DOMAIN mainQueue'[d]
        /\ mainQueue'[d][Len(mainQueue[d]) + 1] = b
    BY <1>1, <2>1, <2>2, AppendedQueue
  <2>4. Len(mainQueue[d]) + 1 > Len(mainQueue[d])
    BY <1>1, LenProperties
  <2>5. Posted(d, 1, b)
    BY <2>3, <2>4 DEF Posted
  <2> QED
    BY <2>1, <2>3, <2>5
<1> QED
  BY <1>2, <1>3

\* The listeners of a collection are told, and there are none any more.
LEMMA RaiseInitialEventPosts ==
    ASSUME NEW B, QueueTypes(B), NEW d \in Device, NEW coll \in Collection, NEW ok \in BOOLEAN,
           NEW docs \in [DocId -> MaybeValue], RaiseInitialEvent(d, coll, ok, docs),
           NEW b, b = [callback |-> "fetched", ok |-> ok, docs |-> docs]
    PROVE  /\ mainQueue' \in [Device -> Seq(B)]
           /\ Posted(d, listeners[d][coll], b)
           /\ listeners' \in [Device -> [Collection -> Nat]]
           /\ listeners' = [listeners EXCEPT ![d][coll] = 0]
           /\ listenTargets' \in [Device -> SUBSET Collection]
<1> DEFINE new == [i \in 1..listeners[d][coll] |-> b]
<1>1. b \in B
  BY DEF QueueTypes, QueryResult
<1>2. listeners[d][coll] \in Nat
  BY DEF QueueTypes, FirestoreTypeOK
<1>3. mainQueue' = [mainQueue EXCEPT ![d] = mainQueue[d] \o new]
  BY DEF RaiseInitialEvent
<1>4. DOMAIN new = 1..listeners[d][coll] /\ \A k \in DOMAIN new : new[k] = b
  OBVIOUS
<1>4a. new \in Seq(B)
  <2>1. new \in [1..listeners[d][coll] -> B]
    BY <1>1
  <2> QED
    BY <1>2, <2>1
<1> HIDE DEF new
<1>5. mainQueue \in [Device -> Seq(B)]
  BY DEF QueueTypes
<1>6. /\ mainQueue' \in [Device -> Seq(B)]
      /\ \A e \in Device : \A i \in DOMAIN mainQueue[e] :
            i \in DOMAIN mainQueue'[e] /\ mainQueue'[e][i] = mainQueue[e][i]
      /\ \A e \in Device : \A i \in DOMAIN mainQueue'[e] :
            \/ i \in DOMAIN mainQueue[e]
            \/ /\ e = d /\ i > Len(mainQueue[d]) /\ i - Len(mainQueue[d]) \in DOMAIN new
               /\ mainQueue'[e][i] = new[i - Len(mainQueue[d])]
      /\ \A k \in DOMAIN new : Len(mainQueue[d]) + k \in DOMAIN mainQueue'[d]
                               /\ mainQueue'[d][Len(mainQueue[d]) + k] = new[k]
  BY <1>3, <1>4a, <1>5, GrownQueue
<1>7. \A e \in Device : \A i \in DOMAIN mainQueue'[e] :
            \/ i \in DOMAIN mainQueue[e]
            \/ /\ e = d /\ i > Len(mainQueue[d]) /\ listeners[d][coll] > 0
               /\ mainQueue'[e][i] = b
  BY <1>2, <1>4, <1>6
<1>8. listeners[d][coll] > 0 => \E i \in DOMAIN mainQueue'[d] :
            i > Len(mainQueue[d]) /\ mainQueue'[d][i] = b
  <2> SUFFICES ASSUME listeners[d][coll] > 0
               PROVE  \E i \in DOMAIN mainQueue'[d] : i > Len(mainQueue[d]) /\ mainQueue'[d][i] = b
    OBVIOUS
  <2>1. Len(mainQueue[d]) \in Nat
    BY <1>5, LenProperties
  <2>2. 1 \in DOMAIN new /\ new[1] = b
    BY <1>2, <1>4
  <2>3. /\ Len(mainQueue[d]) + 1 \in DOMAIN mainQueue'[d]
        /\ mainQueue'[d][Len(mainQueue[d]) + 1] = b
    BY <1>6, <2>2
  <2>4. Len(mainQueue[d]) + 1 > Len(mainQueue[d])
    BY <2>1
  <2> QED
    BY <2>3, <2>4
<1>9. /\ listeners' \in [Device -> [Collection -> Nat]]
      /\ listeners' = [listeners EXCEPT ![d][coll] = 0]
      /\ listenTargets' \in [Device -> SUBSET Collection]
  BY DEF QueueTypes, FirestoreTypeOK, RaiseInitialEvent
<1>10. Posted(d, listeners[d][coll], b)
  BY <1>6, <1>7, <1>8 DEF Posted
<1> QED
  BY <1>6, <1>9, <1>10

\* The server makes the i-th write of a device: the document takes its value
\* and, if that is a change, a new version, which the write now carries.
WriteMade(d, i) ==
    /\ i \in DOMAIN mutationQueue[d]
    /\ mutationQueue[d][i] \in Mutation /\ ~mutationQueue[d][i].committed
    /\ \A j \in 1..(i - 1) : mutationQueue[d][j].committed
    /\ server' \in [Doc -> Document]
    /\ LET m   == mutationQueue[d][i]
           old == server[m.doc]
       IN  /\ m.doc \in Doc
           /\ PreconditionHolds(m, old.value)
           /\ server'[m.doc].value = ApplyMutation(m, old.value)
           /\ server'[m.doc].version = IF server'[m.doc].value = old.value
                                       THEN old.version ELSE old.version + 1
           /\ \A doc \in Doc \ {m.doc} : server'[doc] = server[doc]
    /\ mutationQueue' \in [Device -> Seq(Mutation)]
    /\ \A e \in Device : DOMAIN mutationQueue'[e] = DOMAIN mutationQueue[e]
    /\ \A e \in Device : \A j \in DOMAIN mutationQueue[e] :
        /\ mutationQueue'[e][j].op = mutationQueue[e][j].op
        /\ mutationQueue'[e][j].doc = mutationQueue[e][j].doc
        /\ mutationQueue'[e][j].value = mutationQueue[e][j].value
        /\ mutationQueue'[e][j].callback = mutationQueue[e][j].callback
        /\ ~(e = d /\ j = i) => mutationQueue'[e][j] = mutationQueue[e][j]
    /\ mutationQueue'[d][i].committed = TRUE
    /\ mutationQueue'[d][i].version = server'[mutationQueue[d][i].doc].version

LEMMA CommitMakesWrite ==
    ASSUME FirestoreTypeOK, NEW d \in Device, Commit(d)
    PROVE  \E i \in DOMAIN mutationQueue[d] : WriteMade(d, i)
<1>1. PICK i \in 1..Len(mutationQueue[d]) :
        LET m   == mutationQueue[d][i]
            old == server[m.doc]
            new == [value   |-> ApplyMutation(m, old.value),
                    version |-> IF ApplyMutation(m, old.value) = old.value
                                THEN old.version ELSE old.version + 1]
        IN  /\ IsNext(mutationQueue[d], i)
            /\ PreconditionHolds(m, old.value)
            /\ server' = [server EXCEPT ![m.doc] = new]
            /\ mutationQueue' = [mutationQueue EXCEPT ![d][i] =
                   [m EXCEPT !.committed = TRUE, !.version = new.version]]
  BY DEF Commit
<1> DEFINE q == mutationQueue[d]
           m == q[i]
           old == server[m.doc]
           new == [value   |-> ApplyMutation(m, old.value),
                   version |-> IF ApplyMutation(m, old.value) = old.value
                               THEN old.version ELSE old.version + 1]
           made == [m EXCEPT !.committed = TRUE, !.version = new.version]
<1>2. q \in Seq(Mutation) /\ m \in Mutation /\ DOMAIN q = 1..Len(q)
  BY ElementOfSeq, LenProperties DEF FirestoreTypeOK
<1>3. m.doc \in Doc /\ m.value \in MaybeValue
  BY <1>2 DEF Mutation
<1>4. old \in Document
  BY <1>3 DEF FirestoreTypeOK
<1>5. new \in Document
  BY <1>3, <1>4 DEF Document, Version, ApplyMutation, MaybeValue
<1>6. /\ new.value = ApplyMutation(m, old.value)
      /\ new.version = IF new.value = old.value THEN old.version ELSE old.version + 1
  OBVIOUS
<1>7. /\ made \in Mutation /\ made.op = m.op /\ made.doc = m.doc /\ made.value = m.value
      /\ made.callback = m.callback /\ made.committed = TRUE /\ made.version = new.version
  BY <1>2, <1>5 DEF Mutation, Document
<1>8. /\ server' = [server EXCEPT ![m.doc] = new]
      /\ mutationQueue' = [mutationQueue EXCEPT ![d] = [q EXCEPT ![i] = made]]
      /\ ~m.committed /\ \A j \in 1..(i - 1) : q[j].committed
      /\ PreconditionHolds(m, old.value)
  BY <1>1 DEF IsNext
<1> HIDE DEF new, made
<1>9. /\ server' \in [Doc -> Document] /\ server'[m.doc] = new
      /\ \A doc \in Doc \ {m.doc} : server'[doc] = server[doc]
  BY <1>3, <1>5, <1>8 DEF FirestoreTypeOK
<1>10. [q EXCEPT ![i] = made] \in Seq(Mutation)
  BY <1>2, <1>7, ExceptSeq
<1>11. /\ mutationQueue' \in [Device -> Seq(Mutation)]
       /\ \A e \in Device : DOMAIN mutationQueue'[e] = DOMAIN mutationQueue[e]
  BY <1>2, <1>8, <1>10 DEF FirestoreTypeOK
<1>12. /\ mutationQueue'[d][i] = made
       /\ \A e \in Device : \A j \in DOMAIN mutationQueue[e] :
            ~(e = d /\ j = i) => mutationQueue'[e][j] = mutationQueue[e][j]
  BY <1>2, <1>8 DEF FirestoreTypeOK
<1>13. \A e \in Device : \A j \in DOMAIN mutationQueue[e] :
        /\ mutationQueue'[e][j].op = mutationQueue[e][j].op
        /\ mutationQueue'[e][j].doc = mutationQueue[e][j].doc
        /\ mutationQueue'[e][j].value = mutationQueue[e][j].value
        /\ mutationQueue'[e][j].callback = mutationQueue[e][j].callback
  BY <1>7, <1>12
<1>14. /\ server'[m.doc].value = ApplyMutation(m, old.value)
       /\ server'[m.doc].version = IF server'[m.doc].value = old.value
                                   THEN old.version ELSE old.version + 1
  BY <1>6, <1>9
<1>15. /\ mutationQueue'[d][i].committed = TRUE
       /\ mutationQueue'[d][i].version = server'[m.doc].version
  BY <1>7, <1>9, <1>12
<1>16. i \in DOMAIN q /\ m \in Mutation /\ ~m.committed /\ \A j \in 1..(i - 1) : q[j].committed
  BY <1>2, <1>8
<1>17. WriteMade(d, i)
  BY <1>3, <1>8, <1>9, <1>11, <1>12, <1>13, <1>14, <1>15, <1>16 DEF WriteMade
<1> QED
  BY <1>16, <1>17

\* The three events that answer fetches: a snapshot that arrives, which can
\* only replace a cached document by one that is not older, a time-out, and a
\* refusal.  The answer is what the client then knows.
LEMMA FetchesAnswered ==
    ASSUME NEW B, QueueTypes(B), NEW d \in Device,
           ApplyRemoteEvent(d) \/ HandleOnlineStateChange(d) \/ HandleRejectedListen(d)
    PROVE  \E coll \in Collection, ok \in BOOLEAN, docs \in [DocId -> MaybeValue] :
            /\ RaiseInitialEvent(d, coll, ok, docs)
            /\ documentCache' \in [Device -> [Doc -> Document]]
            /\ ok => docs = LocalView(mutationQueue[d], documentCache'[d], coll)
            /\ ~ok => docs = [id \in DocId |-> NoDocument]
            /\ \A e \in Device \ {d} : documentCache'[e] = documentCache[e]
            /\ \A doc \in Doc :
                \/ documentCache'[d][doc] = documentCache[d][doc]
                \/ \E s \in watchStream[d] : /\ s.collection = doc[1]
                                            /\ documentCache'[d][doc] = s.docs[doc[2]]
                                            /\ s.docs[doc[2]].version >= documentCache[d][doc].version
            /\ watchStream' \in [Device -> SUBSET WatchSnapshot]
            /\ \A e \in Device : watchStream'[e] \subseteq watchStream[e]
            /\ UNCHANGED <<server, connected, mutationQueue, configured>>
<1> USE DEF serverVars
<1>1. CASE ApplyRemoteEvent(d)
  <2>1. PICK s \in watchStream[d] :
        LET fresh == [doc \in Doc |->
                IF doc[1] = s.collection THEN Newer(s.docs[doc[2]], documentCache[d][doc])
                                         ELSE documentCache[d][doc]]
        IN  /\ documentCache' = [documentCache EXCEPT ![d] = fresh]
            /\ watchStream' = [watchStream EXCEPT ![d] = @ \ {s}]
            /\ RaiseInitialEvent(d, s.collection, TRUE,
                                 LocalView(mutationQueue[d], fresh, s.collection))
    BY <1>1 DEF ApplyRemoteEvent
  <2> DEFINE fresh == [doc \in Doc |->
                IF doc[1] = s.collection THEN Newer(s.docs[doc[2]], documentCache[d][doc])
                                         ELSE documentCache[d][doc]]
             docs == LocalView(mutationQueue[d], fresh, s.collection)
  <2>2. s.collection \in Collection /\ s.docs \in [DocId -> Document]
    BY DEF QueueTypes, FirestoreTypeOK, WatchSnapshot
  <2>3. fresh \in [Doc -> Document]
    BY <2>2 DEF QueueTypes, FirestoreTypeOK, Newer, Doc
  <2>4. /\ documentCache' = [documentCache EXCEPT ![d] = fresh]
        /\ RaiseInitialEvent(d, s.collection, TRUE, docs)
    BY <2>1
  <2>5. \A doc \in Doc :
            \/ fresh[doc] = documentCache[d][doc]
            \/ /\ s.collection = doc[1] /\ fresh[doc] = s.docs[doc[2]]
               /\ s.docs[doc[2]].version >= documentCache[d][doc].version
    BY DEF Newer
  <2> HIDE DEF fresh
  <2>6. /\ documentCache' \in [Device -> [Doc -> Document]] /\ documentCache'[d] = fresh
        /\ \A e \in Device \ {d} : documentCache'[e] = documentCache[e]
    BY <2>3, <2>4 DEF QueueTypes, FirestoreTypeOK
  <2>7. docs \in [DocId -> MaybeValue] /\ docs = LocalView(mutationQueue[d], documentCache'[d], s.collection)
    <3>1. documentCache'[d] = fresh /\ mutationQueue[d] \in Seq(Mutation)
      BY <2>6 DEF QueueTypes, FirestoreTypeOK
    <3> QED
      BY <2>2, <2>3, <3>1, LocalViewType
  <2>8. /\ watchStream' \in [Device -> SUBSET WatchSnapshot]
        /\ \A e \in Device : watchStream'[e] \subseteq watchStream[e]
    BY <2>1 DEF QueueTypes, FirestoreTypeOK
  <2>9. UNCHANGED <<server, connected, mutationQueue, configured>>
    BY <1>1 DEF ApplyRemoteEvent
  <2>10. \A doc \in Doc :
                \/ documentCache'[d][doc] = documentCache[d][doc]
                \/ \E t \in watchStream[d] : /\ t.collection = doc[1]
                                            /\ documentCache'[d][doc] = t.docs[doc[2]]
                                            /\ t.docs[doc[2]].version >= documentCache[d][doc].version
    BY <2>5, <2>6
  <2> HIDE DEF docs
  <2> QED
    BY <2>2, <2>4, <2>6, <2>7, <2>8, <2>9, <2>10
<1>2. CASE HandleOnlineStateChange(d) \/ HandleRejectedListen(d)
  <2>1. PICK coll \in listenTargets[d] :
            /\ \/ RaiseInitialEvent(d, coll, TRUE, LocalView(mutationQueue[d], documentCache[d], coll))
               \/ RaiseInitialEvent(d, coll, FALSE, [id \in DocId |-> NoDocument])
            /\ watchStream' = [watchStream EXCEPT ![d] = {s \in @ : s.collection # coll}]
    BY <1>2 DEF HandleOnlineStateChange, HandleRejectedListen
  <2>2. /\ coll \in Collection /\ mutationQueue[d] \in Seq(Mutation)
        /\ documentCache \in [Device -> [Doc -> Document]]
    BY DEF QueueTypes, FirestoreTypeOK
  <2>3. /\ LocalView(mutationQueue[d], documentCache[d], coll) \in [DocId -> MaybeValue]
        /\ [id \in DocId |-> NoDocument] \in [DocId -> MaybeValue]
    BY <2>2, LocalViewType DEF MaybeValue
  <2>4. UNCHANGED <<server, connected, mutationQueue, configured, documentCache>>
    BY <1>2 DEF HandleOnlineStateChange, HandleRejectedListen
  <2>5. /\ watchStream' \in [Device -> SUBSET WatchSnapshot]
        /\ \A e \in Device : watchStream'[e] \subseteq watchStream[e]
    BY <2>1 DEF QueueTypes, FirestoreTypeOK
  <2> DEFINE view == LocalView(mutationQueue[d], documentCache[d], coll)
             none == [id \in DocId |-> NoDocument]
  <2>6. view = LocalView(mutationQueue[d], documentCache'[d], coll)
    BY <2>4
  <2>7. /\ view \in [DocId -> MaybeValue] /\ none \in [DocId -> MaybeValue]
        /\ RaiseInitialEvent(d, coll, TRUE, view) \/ RaiseInitialEvent(d, coll, FALSE, none)
    BY <2>1, <2>3
  <2>8. none = [id \in DocId |-> NoDocument]
    OBVIOUS
  <2> HIDE DEF view, none
  <2>9. CASE RaiseInitialEvent(d, coll, TRUE, view)
    BY <2>2, <2>4, <2>5, <2>6, <2>7, <2>9
  <2>10. CASE RaiseInitialEvent(d, coll, FALSE, none)
    BY <2>2, <2>4, <2>5, <2>7, <2>8, <2>10
  <2> QED
    BY <2>7, <2>9, <2>10
<1> QED
  BY <1>1, <1>2

\* The same in terms of the main queue: one block for every listener of a
\* collection, after what was posted before.
LEMMA FetchesPosted ==
    ASSUME NEW B, QueueTypes(B), NEW d \in Device,
           ApplyRemoteEvent(d) \/ HandleOnlineStateChange(d) \/ HandleRejectedListen(d)
    PROVE  \E coll \in Collection, b \in QueryResult :
            /\ b.ok => b.docs = LocalView(mutationQueue[d], documentCache'[d], coll)
            /\ ~b.ok => b.docs = [id \in DocId |-> NoDocument]
            /\ mainQueue' \in [Device -> Seq(B)]
            /\ Posted(d, listeners[d][coll], b)
            /\ listeners' \in [Device -> [Collection -> Nat]]
            /\ listeners' = [listeners EXCEPT ![d][coll] = 0]
            /\ listenTargets' \in [Device -> SUBSET Collection]
<1>1. PICK coll \in Collection, ok \in BOOLEAN, docs \in [DocId -> MaybeValue] :
            /\ RaiseInitialEvent(d, coll, ok, docs)
            /\ ok => docs = LocalView(mutationQueue[d], documentCache'[d], coll)
            /\ ~ok => docs = [id \in DocId |-> NoDocument]
  BY FetchesAnswered
<1> DEFINE b == [callback |-> "fetched", ok |-> ok, docs |-> docs]
<1>2. b \in QueryResult /\ b.docs = docs /\ b.ok = ok
  BY DEF QueryResult
<1>3. /\ mainQueue' \in [Device -> Seq(B)]
      /\ Posted(d, listeners[d][coll], b)
      /\ listeners' \in [Device -> [Collection -> Nat]]
      /\ listeners' = [listeners EXCEPT ![d][coll] = 0]
      /\ listenTargets' \in [Device -> SUBSET Collection]
  <2>1. CASE ok = TRUE
    <3>1. RaiseInitialEvent(d, coll, TRUE, docs)
      BY <1>1, <2>1
    <3>2. b = [callback |-> "fetched", ok |-> TRUE, docs |-> docs]
      BY <2>1
    <3> HIDE DEF b
    <3> QED
      BY <3>1, <3>2, RaiseInitialEventPosts
  <2>2. CASE ok = FALSE
    <3>1. RaiseInitialEvent(d, coll, FALSE, docs)
      BY <1>1, <2>2
    <3>2. b = [callback |-> "fetched", ok |-> FALSE, docs |-> docs]
      BY <2>2
    <3> HIDE DEF b
    <3> QED
      BY <3>1, <3>2, RaiseInitialEventPosts
  <2> QED
    BY <2>1, <2>2
<1>4. /\ b.ok => b.docs = LocalView(mutationQueue[d], documentCache'[d], coll)
      /\ ~b.ok => b.docs = [id \in DocId |-> NoDocument]
  BY <1>1, <1>2
<1> HIDE DEF b
<1> QED
  BY <1>2, <1>3, <1>4

\* The answer to the oldest write.
LEMMA HandleSuccessfulWriteDoes ==
    ASSUME FirestoreTypeOK, NEW d \in Device, HandleSuccessfulWrite(d)
    PROVE  LET m == Head(mutationQueue[d]) IN
            /\ mutationQueue[d] # <<>> /\ m \in Mutation /\ m.committed
            /\ NotifyUser(d, m, TRUE)
            /\ mutationQueue' = [mutationQueue EXCEPT ![d] = Tail(mutationQueue[d])]
            /\ documentCache' \in [Device -> [Doc -> Document]]
            /\ \A e \in Device, doc \in Doc :
                ~(e = d /\ doc = m.doc) => documentCache'[e][doc] = documentCache[e][doc]
            /\ documentCache'[d][m.doc] =
                IF documentCache[d][m.doc].version < m.version
                THEN [value |-> ApplyMutation(m, documentCache[d][m.doc].value), version |-> m.version]
                ELSE documentCache[d][m.doc]
<1> DEFINE m == Head(mutationQueue[d])
           old == documentCache[d][m.doc]
           new == IF old.version < m.version
                  THEN [value |-> ApplyMutation(m, old.value), version |-> m.version]
                  ELSE old
<1>1. /\ mutationQueue[d] # <<>> /\ mutationQueue[d] \in Seq(Mutation)
      /\ m.committed /\ NotifyUser(d, m, TRUE)
      /\ mutationQueue' = [mutationQueue EXCEPT ![d] = Tail(mutationQueue[d])]
      /\ documentCache' = [documentCache EXCEPT ![d][m.doc] = new]
  BY DEF HandleSuccessfulWrite, Answered, FirestoreTypeOK
<1>2. m \in Mutation
  BY <1>1, HeadTailProperties
<1>3. m.doc \in Doc /\ m.value \in MaybeValue /\ m.version \in Version
  BY <1>2 DEF Mutation
<1>4. old \in Document
  BY <1>3 DEF FirestoreTypeOK
<1>5. new \in Document
  BY <1>3, <1>4 DEF Document, ApplyMutation, MaybeValue
<1> HIDE DEF new
<1>6. /\ documentCache' \in [Device -> [Doc -> Document]]
      /\ \A e \in Device, doc \in Doc :
            ~(e = d /\ doc = m.doc) => documentCache'[e][doc] = documentCache[e][doc]
      /\ documentCache'[d][m.doc] = new
  BY <1>1, <1>3, <1>5 DEF FirestoreTypeOK
<1> QED
  BY <1>1, <1>2, <1>6 DEF new

\* Every event of the client keeps its types.
ClientStep(d) ==
    \/ Commit(d) \/ HandleSuccessfulWrite(d) \/ HandleRejectedWrite(d)
    \/ SendWatchSnapshot(d) \/ ApplyRemoteEvent(d) \/ HandleOnlineStateChange(d)
    \/ HandleRejectedListen(d) \/ Disconnect(d) \/ Connect(d) \/ KillProcess(d)

LEMMA ClientStepType ==
    ASSUME NEW B, QueueTypes(B), NEW d \in Device, ClientStep(d)
    PROVE  QueueTypes(B)'
<1> USE DEF serverVars, clientVars
<1>1. CASE Commit(d)
  <2>1. PICK i \in DOMAIN mutationQueue[d] : WriteMade(d, i)
    BY <1>1, CommitMakesWrite DEF QueueTypes
  <2>2. server' \in [Doc -> Document] /\ mutationQueue' \in [Device -> Seq(Mutation)]
    BY <2>1 DEF WriteMade
  <2> QED
    BY <1>1, <2>2 DEF Commit, QueueTypes, FirestoreTypeOK
<1>2. CASE HandleSuccessfulWrite(d)
  <2> DEFINE m == Head(mutationQueue[d])
  <2>1. /\ mutationQueue[d] # <<>> /\ m \in Mutation /\ NotifyUser(d, m, TRUE)
        /\ mutationQueue' = [mutationQueue EXCEPT ![d] = Tail(mutationQueue[d])]
        /\ documentCache' \in [Device -> [Doc -> Document]]
    BY <1>2, HandleSuccessfulWriteDoes DEF QueueTypes
  <2>2. mainQueue' \in [Device -> Seq(B)]
    BY <2>1, NotifyUserPosts
  <2>3. mutationQueue' \in [Device -> Seq(Mutation)]
    BY <2>1, ShrunkQueue DEF QueueTypes, FirestoreTypeOK
  <2> QED
    BY <1>2, <2>1, <2>2, <2>3 DEF HandleSuccessfulWrite, QueueTypes, FirestoreTypeOK
<1>3. CASE HandleRejectedWrite(d)
  <2> DEFINE m == Head(mutationQueue[d])
  <2>1. /\ mutationQueue[d] # <<>> /\ mutationQueue[d] \in Seq(Mutation)
        /\ NotifyUser(d, m, FALSE)
        /\ mutationQueue' = [mutationQueue EXCEPT ![d] = Tail(mutationQueue[d])]
    BY <1>3 DEF HandleRejectedWrite, QueueTypes, FirestoreTypeOK
  <2>2. m \in Mutation /\ mutationQueue' \in [Device -> Seq(Mutation)]
    BY <2>1, ShrunkQueue DEF QueueTypes, FirestoreTypeOK
  <2>3. mainQueue' \in [Device -> Seq(B)]
    BY <2>1, <2>2, NotifyUserPosts
  <2> QED
    BY <1>3, <2>2, <2>3 DEF HandleRejectedWrite, QueueTypes, FirestoreTypeOK
<1>4. CASE SendWatchSnapshot(d)
  <2>1. PICK coll \in listenTargets[d] :
        watchStream' = [watchStream EXCEPT ![d] = @ \cup
            {[collection |-> coll, docs |-> [id \in DocId |-> server[<<coll, id>>]]]}]
    BY <1>4 DEF SendWatchSnapshot
  <2>2. coll \in Collection
    BY DEF QueueTypes, FirestoreTypeOK
  <2>3. [collection |-> coll, docs |-> [id \in DocId |-> server[<<coll, id>>]]] \in WatchSnapshot
    BY <2>2 DEF QueueTypes, FirestoreTypeOK, Doc, WatchSnapshot
  <2>4. watchStream' \in [Device -> SUBSET WatchSnapshot]
    BY <2>1, <2>3 DEF QueueTypes, FirestoreTypeOK
  <2> QED
    BY <1>4, <2>4 DEF SendWatchSnapshot, QueueTypes, FirestoreTypeOK
<1>5. CASE ApplyRemoteEvent(d) \/ HandleOnlineStateChange(d) \/ HandleRejectedListen(d)
  <2>1. /\ documentCache' \in [Device -> [Doc -> Document]]
        /\ watchStream' \in [Device -> SUBSET WatchSnapshot]
        /\ UNCHANGED <<server, connected, mutationQueue, configured>>
    BY <1>5, FetchesAnswered
  <2>2. /\ mainQueue' \in [Device -> Seq(B)]
        /\ listeners' \in [Device -> [Collection -> Nat]]
        /\ listenTargets' \in [Device -> SUBSET Collection]
    BY <1>5, FetchesPosted
  <2> QED
    BY <2>1, <2>2 DEF QueueTypes, FirestoreTypeOK
<1>6. CASE Connect(d)
  BY <1>6 DEF Connect, QueueTypes, FirestoreTypeOK
<1>7. CASE Disconnect(d)
  <2>1. Resent(mutationQueue[d]) \in Seq(Mutation)
    BY ResentType DEF QueueTypes, FirestoreTypeOK
  <2> QED
    BY <1>7, <2>1 DEF Disconnect, QueueTypes, FirestoreTypeOK
<1>8. CASE KillProcess(d)
  <2>1. Resent(Orphaned(mutationQueue[d])) \in Seq(Mutation)
    BY OrphanedType, ResentType DEF QueueTypes, FirestoreTypeOK
  <2> QED
    BY <1>8, <2>1, EmptySeq DEF KillProcess, QueueTypes, FirestoreTypeOK
<1> QED
  BY <1>1, <1>2, <1>3, <1>4, <1>5, <1>6, <1>7, <1>8 DEF ClientStep

(***************************************************************************)
(* A write that only lost its handler, or counts as not made again.        *)
(***************************************************************************)
KeptWrite(n, m) ==
    /\ n.op = m.op /\ n.doc = m.doc /\ n.value = m.value
    /\ n.callback \in {m.callback, NoCallback}
    /\ n.committed => m.committed /\ n.version = m.version

WritesKept ==
    \A e \in Device :
        /\ DOMAIN mutationQueue'[e] = DOMAIN mutationQueue[e]
        /\ \A i \in DOMAIN mutationQueue[e] : KeptWrite(mutationQueue'[e][i], mutationQueue[e][i])

LEMMA SameWritesKept ==
    ASSUME mutationQueue' = mutationQueue
    PROVE  WritesKept
  BY DEF WritesKept, KeptWrite

LEMMA WithoutCallbackKeeps ==
    \A m \in Mutation : /\ WithoutCallback(m) \in Mutation
                        /\ KeptWrite(WithoutCallback(m), m)
                        /\ WithoutCallback(m).callback = NoCallback
  BY DEF WithoutCallback, Mutation, KeptWrite

LEMMA ResentKeeps ==
    ASSUME NEW q \in Seq(Mutation)
    PROVE  \A i \in DOMAIN q : KeptWrite(Resent(q)[i], q[i])
<1>1. \A i \in DOMAIN q : q[i] \in Mutation
  BY ElementOfSeq, LenProperties
<1>2. \A m \in Mutation : KeptWrite([m EXCEPT !.committed = FALSE, !.version = 0], m)
  BY DEF KeptWrite, Mutation
<1> QED
  BY <1>1, <1>2 DEF Resent

LEMMA MappedQueueKeeps ==
    ASSUME FirestoreTypeOK, NEW d \in Device, NEW queue \in Seq(Mutation),
           mutationQueue' = [mutationQueue EXCEPT ![d] = queue],
           DOMAIN queue = DOMAIN mutationQueue[d],
           \A i \in DOMAIN mutationQueue[d] : KeptWrite(queue[i], mutationQueue[d][i])
    PROVE  WritesKept
<1>1. /\ mutationQueue'[d] = queue
      /\ \A e \in Device \ {d} : mutationQueue'[e] = mutationQueue[e]
  BY DEF FirestoreTypeOK
<1>2. \A m : KeptWrite(m, m)
  BY DEF KeptWrite
<1> QED
  BY <1>1, <1>2 DEF WritesKept

LEMMA ResentOrphanedKeeps ==
    ASSUME NEW q \in Seq(Mutation)
    PROVE  LET queue == Resent(Orphaned(q))
           IN  /\ queue \in Seq(Mutation) /\ DOMAIN queue = DOMAIN q
               /\ \A i \in DOMAIN q : /\ KeptWrite(queue[i], q[i])
                                    /\ queue[i].callback = NoCallback
<1> DEFINE o == Orphaned(q)
<1>1. o \in Seq(Mutation) /\ DOMAIN o = DOMAIN q
  BY OrphanedType DEF Orphaned
<1>2. \A i \in DOMAIN q : q[i] \in Mutation
  BY ElementOfSeq, LenProperties
<1>3. \A i \in DOMAIN q : KeptWrite(o[i], q[i]) /\ o[i].callback = NoCallback
  BY <1>2, WithoutCallbackKeeps DEF Orphaned
<1> HIDE DEF o
<1>4. /\ Resent(o) \in Seq(Mutation) /\ DOMAIN Resent(o) = DOMAIN o
      /\ \A i \in DOMAIN o : KeptWrite(Resent(o)[i], o[i]) /\ Resent(o)[i].callback = o[i].callback
  BY <1>1, ResentType, ResentKeeps
<1>5. \A n, m, l : KeptWrite(n, m) /\ KeptWrite(m, l) => KeptWrite(n, l)
  BY DEF KeptWrite
<1> QED
  BY <1>1, <1>3, <1>4, <1>5 DEF o

LEMMA ConnectionKeepsWrites ==
    ASSUME FirestoreTypeOK, NEW d \in Device, Disconnect(d) \/ Connect(d) \/ KillProcess(d)
    PROVE  WritesKept
<1>1. mutationQueue[d] \in Seq(Mutation)
  BY DEF FirestoreTypeOK
<1>2. CASE Connect(d)
  BY <1>2, SameWritesKept DEF Connect, clientVars
<1>3. CASE Disconnect(d)
  <2>1. mutationQueue' = [mutationQueue EXCEPT ![d] = Resent(mutationQueue[d])]
    BY <1>3 DEF Disconnect
  <2> QED
    BY <1>1, <2>1, ResentType, ResentKeeps, MappedQueueKeeps
<1>4. CASE KillProcess(d)
  <2> DEFINE queue == Resent(Orphaned(mutationQueue[d]))
  <2>1. mutationQueue' = [mutationQueue EXCEPT ![d] = queue]
    BY <1>4 DEF KillProcess
  <2>2. /\ queue \in Seq(Mutation) /\ DOMAIN queue = DOMAIN mutationQueue[d]
        /\ \A i \in DOMAIN mutationQueue[d] : KeptWrite(queue[i], mutationQueue[d][i])
    BY <1>1, ResentOrphanedKeeps
  <2> HIDE DEF queue
  <2> QED
    BY <2>1, <2>2, MappedQueueKeeps
<1> QED
  BY <1>2, <1>3, <1>4
====================================================================================
