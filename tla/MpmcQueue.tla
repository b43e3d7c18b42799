----------------------------- MODULE MpmcQueue -----------------------------
(***************************************************************************)
(* The bounded multi-producer multi-consumer queue of mpmc.rs: a ring of N *)
(* cells, each with a sequence number that says which position the cell is *)
(* ready for, and one counter per end that callers advance by              *)
(* compare_exchange_weak.                                                  *)
(*                                                                         *)
(* A step is one access to shared memory.  The sequence numbers are        *)
(* written with Release and read with Acquire, so what is read from a cell *)
(* is what was written before its number was.  Positions are usize, too    *)
(* wide to wrap here, but they are compared by their low Width bits only   *)
(* (the cast to i8).                                                       *)
(***************************************************************************)
EXTENDS Integers, Sequences

CONSTANTS
  Producer,  \* threads that call enqueue
  Consumer,  \* threads that call dequeue
  Item,
  N,        \* number of cells, a power of two
  Width,    \* bits of the comparison: 8 in the code
  Starts,   \* positions the queue may have reached, empty, when a run begins
  Extra,    \* enqueues a run may do (bounds the positions)
  Nothing

ASSUME QueueAssumption ==
  /\ N \in Nat /\ N > 1 /\ Width \in Nat \ {0}
  /\ Starts \subseteq Nat /\ Extra \in Nat
  /\ Nothing \notin Item

Thread == Producer \cup Consumer

VARIABLES
  sequence,     \* Cell.sequence
  data,         \* Cell.data, Nothing while uninitialised
  enqueue_pos, dequeue_pos,
  limit,        \* where enqueue_pos stops
  pc,           \* <<operation, step>> of each thread
  pos,          \* its local pos, 0 between calls
  item          \* the item it brings or has got

queueVars == <<sequence, data, enqueue_pos, dequeue_pos>>
vars == <<queueVars, limit, pc, pos, item>>

Cell == 0 .. N - 1
Op == {"enqueue", "dequeue"}
Step == {"load", "sequence", "exchange", "access", "store"}
Idle == <<"idle", "idle">>

TypeOK ==
  /\ sequence \in [Cell -> Nat]
  /\ data \in [Cell -> Item \cup {Nothing}]
  /\ enqueue_pos \in Nat /\ dequeue_pos \in Nat /\ limit \in Nat
  /\ pc \in [Thread -> (Op \X Step) \cup {Idle}]
  /\ pos \in [Thread -> Nat]
  /\ item \in [Thread -> Item \cup {Nothing}]

\* An empty queue at position s: MpMcQueue::new, or what is left of it after s
\* items went through.
Init ==
  \E s \in Starts :
    /\ sequence = [c \in Cell |->
                     CHOOSE p \in s .. s + N - 1 : p % N = c]
    /\ data = [c \in Cell |-> Nothing]
    /\ enqueue_pos = s /\ dequeue_pos = s
    /\ limit = s + Extra
    /\ pc = [t \in Thread |-> Idle]
    /\ pos = [t \in Thread |-> 0]
    /\ item = [t \in Thread |-> Nothing]

-----------------------------------------------------------------------------
\* (a as i8).wrapping_sub(b as i8): the difference of the low bits, signed.
Dif(a, b) ==
  LET d == (a - b) % 2 ^ Width
  IN  IF d < 2 ^ (Width - 1) THEN d ELSE d - 2 ^ Width

Counter(op) == IF op = "enqueue" THEN enqueue_pos ELSE dequeue_pos

\* Mutant: dequeue takes the number of a cell that is ready to be filled.
ReadyEither(op, p) == p

\* The number a cell has when it is ready for op at position p ...
Ready(op, p) == IF op = "enqueue" THEN p ELSE p + 1

\* ... and the number op leaves for the next one.
Done(op, p) == IF op = "enqueue" THEN p + 1 ELSE p + N

Goto(t, op, step) == pc' = [pc EXCEPT ![t] = <<op, step>>]

\* The call ends; the caller keeps what a dequeue has got.
Return(t, result) ==
  /\ pc' = [pc EXCEPT ![t] = Idle]
  /\ pos' = [pos EXCEPT ![t] = 0]
  /\ item' = [item EXCEPT ![t] = result]

CallEnqueue(t, v) ==
  /\ t \in Producer /\ pc[t] = Idle /\ enqueue_pos < limit
  /\ item' = [item EXCEPT ![t] = v]
  /\ Goto(t, "enqueue", "load")
  /\ UNCHANGED <<queueVars, limit, pos>>

CallDequeue(t) ==
  /\ t \in Consumer /\ pc[t] = Idle
  /\ item' = [item EXCEPT ![t] = Nothing]
  /\ Goto(t, "dequeue", "load")
  /\ UNCHANGED <<queueVars, limit, pos>>

LoadPos(t, op) ==
  /\ pc[t] = <<op, "load">>
  /\ pos' = [pos EXCEPT ![t] = Counter(op)]
  /\ Goto(t, op, "sequence")
  /\ UNCHANGED <<queueVars, limit, item>>

\* Mutant: a full cell, or an empty one, is waited for.
LoadSequenceWaits(t, op) ==
  /\ pc[t] = <<op, "sequence">>
  /\ LET dif == Dif(sequence[pos[t] % N], Ready(op, pos[t]))
     IN  pc' = [pc EXCEPT ![t] = <<op, IF dif = 0 THEN "exchange" ELSE "load">>]
  /\ UNCHANGED <<queueVars, limit, pos, item>>

\* Mutant: a position that others have passed counts as full, or empty.
LoadSequenceStale(t, op) ==
  /\ pc[t] = <<op, "sequence">>
  /\ LET dif == Dif(sequence[pos[t] % N], Ready(op, pos[t]))
     IN  \/ dif = 0 /\ Goto(t, op, "exchange") /\ UNCHANGED <<pos, item>>
         \/ dif # 0 /\ Return(t, Nothing)
  /\ UNCHANGED <<queueVars, limit>>

\* The comparison decides: claim the position, give up (full or empty), or look
\* where the counter is now.
LoadSequence(t, op) ==
  /\ pc[t] = <<op, "sequence">>
  /\ LET dif == Dif(sequence[pos[t] % N], Ready(op, pos[t]))
     IN  \/ dif = 0 /\ Goto(t, op, "exchange") /\ UNCHANGED <<pos, item>>
         \/ dif < 0 /\ Return(t, Nothing)
         \/ dif > 0 /\ Goto(t, op, "load") /\ UNCHANGED <<pos, item>>
  /\ UNCHANGED <<queueVars, limit>>

\* compare_exchange_weak succeeds ...
Exchange(t, op) ==
  /\ pc[t] = <<op, "exchange">> /\ Counter(op) = pos[t]
  /\ \/ op = "enqueue" /\ enqueue_pos' = pos[t] + 1 /\ UNCHANGED dequeue_pos
     \/ op = "dequeue" /\ dequeue_pos' = pos[t] + 1 /\ UNCHANGED enqueue_pos
  /\ Goto(t, op, "access")
  /\ UNCHANGED <<sequence, data, limit, pos, item>>

\* ... or fails, because the counter has moved or for no reason; pos stays.
ExchangeFails(t, op) ==
  /\ pc[t] = <<op, "exchange">>
  /\ Goto(t, op, "sequence")
  /\ UNCHANGED <<queueVars, limit, pos, item>>

\* The item is written to, or read from, the claimed cell.
Access(t, op) ==
  /\ pc[t] = <<op, "access">>
  /\ \/ /\ op = "enqueue"
        /\ data' = [data EXCEPT ![pos[t] % N] = item[t]]
        /\ UNCHANGED item
     \/ /\ op = "dequeue"
        /\ item' = [item EXCEPT ![t] = data[pos[t] % N]]
        /\ UNCHANGED data
  /\ Goto(t, op, "store")
  /\ UNCHANGED <<sequence, enqueue_pos, dequeue_pos, limit, pos>>

StoreSequence(t, op) ==
  /\ pc[t] = <<op, "store">>
  /\ sequence' = [sequence EXCEPT ![pos[t] % N] = Done(op, pos[t])]
  /\ Return(t, IF op = "dequeue" THEN item[t] ELSE Nothing)
  /\ UNCHANGED <<data, enqueue_pos, dequeue_pos, limit>>

Run(t) ==
  \E op \in Op :
    \/ LoadPos(t, op) \/ LoadSequence(t, op)
    \/ Exchange(t, op) \/ ExchangeFails(t, op)
    \/ Access(t, op) \/ StoreSequence(t, op)

Next ==
  \E t \in Thread :
    \/ \E v \in Item : CallEnqueue(t, v)
    \/ CallDequeue(t)
    \/ Run(t)

\* A thread that is inside a call goes on, and a compare_exchange_weak that keeps
\* being possible does not fail for no reason for ever.
Fairness ==
  \A t \in Thread :
    /\ WF_vars(Run(t))
    /\ SF_vars(\E op \in Op : Exchange(t, op))

Spec == Init /\ [][Next]_vars /\ Fairness
-----------------------------------------------------------------------------
(***************************************************************************)
(* Properties.                                                             *)
(***************************************************************************)
\* The item at a claimed position: on its way or in its cell.
ItemAt(p) ==
  IF \E t \in Thread : pc[t] = <<"enqueue", "access">> /\ pos[t] = p
  THEN item[CHOOSE t \in Thread : pc[t] = <<"enqueue", "access">> /\ pos[t] = p]
  ELSE data[p % N]

\* MpMcQueue behaves as the bounded queue: enqueue and dequeue take effect at
\* their exchange, the item of a position is not lost, torn or delivered twice,
\* and never more than N are inside.
Abstract ==
  INSTANCE BoundedQueue WITH
    Capacity <- N,
    queue <- [i \in 1 .. enqueue_pos - dequeue_pos |-> ItemAt(dequeue_pos + i - 1)],
    got <- [t \in Thread |->
              IF pc[t] = <<"dequeue", "access">> THEN data[pos[t] % N]
              ELSE IF pc[t][1] = "enqueue" THEN Nothing ELSE item[t]]
ImplementsQueue == Abstract!Spec

\* A call of op has taken position p and has not passed its cell on yet.
UnderWay(op, p) ==
  \E t \in Thread : pc[t] \in {<<op, "access">>, <<op, "store">>} /\ pos[t] = p

\* What a call may give up for: nothing is inside, or the enqueue of the item at
\* the front is under way; N items are inside, or the dequeue that frees the cell
\* of the next one is under way.
Blocked(op) ==
  IF op = "dequeue"
  THEN enqueue_pos = dequeue_pos \/ UnderWay("enqueue", dequeue_pos)
  ELSE enqueue_pos - dequeue_pos = N \/ UnderWay("dequeue", enqueue_pos - N)

\* A call gives up for no other reason, whatever the low bits of the numbers it
\* compares.
GivesUpRightly ==
  [][\A t \in Thread, op \in Op :
       pc[t] = <<op, "sequence">> /\ pc'[t] = Idle => Blocked(op)]_vars

\* What the documentation says of dequeue, "or `None` if the queue is empty"
\* (mpmc.rs:101): no item whose enqueue is over is inside.  It does not hold: a
\* stalled enqueue at the front hides those behind it.
NoneOnlyIfEmpty ==
  [][\A t \in Thread :
       pc[t] = <<"dequeue", "sequence">> /\ pc'[t] = Idle =>
         \A p \in dequeue_pos .. enqueue_pos - 1 : sequence[p % N] # p + 1]_vars

\* Every call returns.
CallsReturn == \A t \in Thread : pc[t] # Idle ~> pc[t] = Idle
=============================================================================
