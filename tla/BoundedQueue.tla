--------------------------- MODULE BoundedQueue ---------------------------
(***************************************************************************)
(* What MpMcQueue promises (the documentation of enqueue and dequeue in    *)
(* mpmc.rs): a first-in first-out queue of at most Capacity items, each of *)
(* which reaches one caller of dequeue.                                    *)
(***************************************************************************)
EXTENDS Naturals, Sequences

CONSTANTS Thread, Item, Capacity, Nothing

VARIABLES
  queue,  \* the items, the oldest first
  got     \* what the last dequeue of every thread has returned

vars == <<queue, got>>

Init == queue = <<>> /\ got = [t \in Thread |-> Nothing]

\* A new call forgets the result of the last one.
Call(t) == got' = [got EXCEPT ![t] = Nothing] /\ UNCHANGED queue

Enqueue(v) ==
  /\ Len(queue) < Capacity
  /\ queue' = Append(queue, v)
  /\ UNCHANGED got

Dequeue(t) ==
  /\ queue # <<>> /\ got[t] = Nothing
  /\ got' = [got EXCEPT ![t] = Head(queue)]
  /\ queue' = Tail(queue)

Next ==
  \/ \E v \in Item : Enqueue(v)
  \/ \E t \in Thread : Call(t) \/ Dequeue(t)

Spec == Init /\ [][Next]_vars
=============================================================================
