----------------------------- MODULE WriteDelivery -----------------------------
(***************************************************************************)
(* What becomes of the writes of one device, with streams, credentials and *)
(* pipelines left out: they are made and answered one after the other in   *)
(* the order they were asked for, success is reported only of a write the  *)
(* server has made on the stream that answers, and a stream that is lost   *)
(* takes back no more than the knowledge of what was made.                 *)
(***************************************************************************)
EXTENDS Integers, Sequences

CONSTANTS Write, MaxOnWire

VARIABLES
    queue,      \* the writes without an answer, oldest first
    committed   \* those the server has made, their answers on the way

deliveryVars == <<queue, committed>>

\* Writes restored from disk are in the queue at the start.
DeliveryInit == queue \in Seq(Write) /\ committed = {}

Ask(b) ==
    /\ queue' = Append(queue, b)
    /\ UNCHANGED committed

\* The server makes the oldest write that it has not made, if it has been sent.
Make ==
    \E i \in DOMAIN queue :
        /\ i <= MaxOnWire
        /\ queue[i] \notin committed
        /\ \A j \in 1..(i - 1) : queue[j] \in committed
        /\ committed' = committed \cup {queue[i]}
        /\ UNCHANGED queue

Succeed ==
    /\ queue # <<>>
    /\ Head(queue) \in committed
    /\ queue' = Tail(queue)
    /\ committed' = committed \ {Head(queue)}

\* The server refuses the oldest write: it was not made, and the stream ends.
Refuse ==
    /\ queue # <<>>
    /\ committed = {}
    /\ queue' = Tail(queue)
    /\ UNCHANGED committed

\* The stream is lost, with the answers on it.
Lose ==
    /\ committed' = {}
    /\ UNCHANGED queue

DeliveryNext == Make \/ Succeed \/ Refuse \/ Lose \/ \E b \in Write : Ask(b)

DeliverySpec == DeliveryInit /\ [][DeliveryNext]_deliveryVars
================================================================================
