---------------------------- MODULE PerCpuStacks ----------------------------
(***************************************************************************)
(* What a per-CPU array promises (the documentation of PerCpuArray in      *)
(* collections/concurrent.rs: "A race-free per cpu array data structure"): *)
(* one bounded stack per CPU and class, on which push and pop of the       *)
(* thread that runs on the CPU are atomic.                                 *)
(***************************************************************************)
EXTENDS Naturals, Sequences

CONSTANTS Thread, Cpu, Class, Item, Capacity, None

VARIABLES
  stack,  \* the items cached for every CPU and class
  mine,   \* the items every thread owns
  on      \* the CPU every thread runs on, or None

vars == <<stack, mine, on>>

Init ==
  /\ stack = [x \in Cpu \X Class |-> <<>>]
  /\ mine \in [Thread -> SUBSET Item]
  /\ on = [t \in Thread |-> None]

\* The kernel moves threads as it likes.
Schedule == on' \in [Thread -> Cpu \cup {None}] /\ UNCHANGED <<stack, mine>>

Push(t, cl, v) ==
  LET x == <<on[t], cl>>
  IN  /\ on[t] # None /\ v \in mine[t]
      /\ Len(stack[x]) < Capacity
      /\ stack' = [stack EXCEPT ![x] = Append(@, v)]
      /\ mine' = [mine EXCEPT ![t] = @ \ {v}]
      /\ UNCHANGED on

Pop(t, cl) ==
  LET x == <<on[t], cl>>
      n == Len(stack[x])
  IN  /\ on[t] # None /\ n > 0
      /\ stack' = [stack EXCEPT ![x] = SubSeq(@, 1, n - 1)]
      /\ mine' = [mine EXCEPT ![t] = @ \cup {stack[x][n]}]
      /\ UNCHANGED on

Next ==
  \/ Schedule
  \/ \E t \in Thread, cl \in Class : Pop(t, cl) \/ \E v \in Item : Push(t, cl, v)

Spec == Init /\ [][Next]_vars
=============================================================================
