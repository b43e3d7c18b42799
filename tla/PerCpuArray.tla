---------------------------- MODULE PerCpuArray ----------------------------
(***************************************************************************)
(* The lock-free per-CPU arrays of collections/concurrent.rs, which        *)
(* cpu_cache.rs repeats: an array of pointers per CPU and size class, with *)
(* a header that says where its top is, and a push and a pop written as    *)
(* Linux restartable sequences.                                            *)
(*                                                                         *)
(* A step is one access to memory by the assembly code.  The kernel may    *)
(* take a thread off its CPU after any of them and resume it on any CPU.   *)
(* A thread it takes off inside the sequence whose descriptor it has       *)
(* published (rseq_cs) resumes at the abort handler, which starts over.    *)
(***************************************************************************)
EXTENDS Integers, Sequences

CONSTANTS
  Thread, Cpu, Item,
  NUM_ARRS,  \* arrays per CPU, one per size class
  DATA_LEN,  \* words for the data of one CPU
  None

Class == 0 .. NUM_ARRS - 1

ASSUME ArrayAssumption ==
  /\ NUM_ARRS \in Nat \ {0} /\ DATA_LEN \in Nat
  /\ (DATA_LEN \div 8) \div NUM_ARRS > 1
  /\ None \notin Cpu /\ None \notin Item

VARIABLES
  current,  \* FlatArrayHeader.current of every CPU and class
  data,     \* the words of every CPU, counted from its headers
  mine,     \* the items every thread owns
  on,       \* the CPU every thread runs on, or None
  abi,      \* the threads whose RSEQ_ABI is registered
  cs,       \* rseq.ptr64: the sequence every thread has published, or None
  pc,       \* <<operation, step>>
  reg       \* the registers of the assembly code

vars == <<current, data, mine, on, abi, cs, pc, reg>>

-----------------------------------------------------------------------------
(***************************************************************************)
(* FlatArrayList: the arrays lie behind the headers, one after the other.  *)
(***************************************************************************)
initial_capacity == (DATA_LEN \div 8) \div NUM_ARRS - 1
begin(cl) == NUM_ARRS + cl * initial_capacity
end(cl) == begin(cl) + initial_capacity
Word == NUM_ARRS .. NUM_ARRS + DATA_LEN - 1

Idle == <<"idle", "idle">>
NoReg == [cl |-> 0, val |-> None, cpu |-> None, before |-> 0, after |-> 0]

\* Everything is empty (the first word of an array holds its own address as a target
\* to prefetch, which is no item).  One thread brings the items.
Init ==
  /\ current = [x \in Cpu \X Class |-> begin(x[2])]
  /\ data = [c \in Cpu |-> [w \in Word |-> None]]
  /\ \E t \in Thread : mine = [u \in Thread |-> IF u = t THEN Item ELSE {}]
  /\ on = [t \in Thread |-> None]
  /\ abi = {}
  /\ cs = [t \in Thread |-> None]
  /\ pc = [t \in Thread |-> Idle]
  /\ reg = [t \in Thread |-> NoReg]

-----------------------------------------------------------------------------
(***************************************************************************)
(* The kernel.                                                             *)
(***************************************************************************)
\* Between start_ip and the commit of the descriptor.
InSection(t) == pc[t][2] \in {"cpu", "current", "bound", "access", "commit"}

Preempt(t) ==
  /\ on[t] # None
  /\ on' = [on EXCEPT ![t] = None]
  /\ cs' = [cs EXCEPT ![t] = None]
  /\ pc' = [pc EXCEPT ![t] =
              IF t \in abi /\ InSection(t) /\ cs[t] = pc[t][1] THEN <<pc[t][1], "prepare">> ELSE @]
  /\ UNCHANGED <<current, data, mine, abi, reg>>

Resume(t, c) ==
  /\ on[t] = None
  /\ \A u \in Thread : on[u] # c
  /\ on' = [on EXCEPT ![t] = c]
  /\ UNCHANGED <<current, data, mine, abi, cs, pc, reg>>

-----------------------------------------------------------------------------
(***************************************************************************)
(* push and pop.                                                           *)
(***************************************************************************)
Runs(t, op, step) == on[t] # None /\ pc[t] = <<op, step>>
Goto(t, op, step) == pc' = [pc EXCEPT ![t] = <<op, step>>]

CallPush(t, cl, v) ==
  /\ on[t] # None /\ pc[t] = Idle /\ v \in mine[t]
  /\ Goto(t, "push", "register")
  /\ reg' = [reg EXCEPT ![t] = [NoReg EXCEPT !.cl = cl, !.val = v]]
  /\ UNCHANGED <<current, data, mine, on, abi, cs>>

CallPop(t, cl) ==
  /\ on[t] # None /\ pc[t] = Idle
  /\ Goto(t, "pop", "register")
  /\ reg' = [reg EXCEPT ![t] = [NoReg EXCEPT !.cl = cl]]
  /\ UNCHANGED <<current, data, mine, on, abi, cs>>

\* register_current_thread_checked: from the first call on the kernel keeps the CPU
\* number in RSEQ_ABI and looks at rseq_cs.  (A failing system call is a panic.)
Register(t, op) ==
  /\ Runs(t, op, "register")
  /\ abi' = abi \cup {t}
  /\ Goto(t, op, "prepare")
  /\ UNCHANGED <<current, data, mine, on, cs, reg>>

\* Mutant: the descriptor is not published.
PrepareUnpublished(t, op) ==
  /\ Runs(t, op, "prepare")
  /\ Goto(t, op, "cpu")
  /\ UNCHANGED <<current, data, mine, on, abi, cs, reg>>

\* 3: the descriptor is published.
Prepare(t, op) ==
  /\ Runs(t, op, "prepare")
  /\ cs' = [cs EXCEPT ![t] = op]
  /\ Goto(t, op, "cpu")
  /\ UNCHANGED <<current, data, mine, on, abi, reg>>

\* 4: the number of the CPU, and with it the address of its headers.
LoadCpu(t, op) ==
  /\ Runs(t, op, "cpu")
  /\ reg' = [reg EXCEPT ![t].cpu = IF t \in abi THEN on[t] ELSE None]
  /\ Goto(t, op, "current")
  /\ UNCHANGED <<current, data, mine, on, abi, cs>>

LoadCurrent(t, op) ==
  /\ Runs(t, op, "current")
  /\ LET top == current[<<reg[t].cpu, reg[t].cl>>]
     IN  reg' = [reg EXCEPT ![t].before = top, ![t].after = top]
  /\ Goto(t, op, "bound")
  /\ UNCHANGED <<current, data, mine, on, abi, cs>>

\* The comparison with the end or the beginning, and the jump over the rest.
PushBound(t) ==
  /\ Runs(t, "push", "bound")
  /\ Goto(t, "push", IF reg[t].after >= end(reg[t].cl) THEN "after" ELSE "access")
  /\ UNCHANGED <<current, data, mine, on, abi, cs, reg>>

PopBound(t) ==
  /\ Runs(t, "pop", "bound")
  /\ Goto(t, "pop", IF reg[t].after <= begin(reg[t].cl) THEN "after" ELSE "access")
  /\ UNCHANGED <<current, data, mine, on, abi, cs, reg>>

\* "The side effect is allowed because we always retry": the item is written into
\* the free word at the top.
PushStore(t) ==
  /\ Runs(t, "push", "access")
  /\ data' = [data EXCEPT ![reg[t].cpu][reg[t].after] = reg[t].val]
  /\ Goto(t, "push", "commit")
  /\ UNCHANGED <<current, mine, on, abi, cs, reg>>

\* The item is read from the word below the top (after a prefetch of the next).
PopLoad(t) ==
  /\ Runs(t, "pop", "access")
  /\ reg' = [reg EXCEPT ![t].val = data[reg[t].cpu][reg[t].after - 1]]
  /\ Goto(t, "pop", "commit")
  /\ UNCHANGED <<current, data, mine, on, abi, cs>>

\* The one store that commits: the new top.
SetCurrent(t, op, top) ==
  /\ Runs(t, op, "commit")
  /\ current' = [current EXCEPT ![<<reg[t].cpu, reg[t].cl>>] = top]
  /\ reg' = [reg EXCEPT ![t].after = top]
  /\ Goto(t, op, "after")
  /\ UNCHANGED <<data, mine, on, abi, cs>>

PushCommit(t) == SetCurrent(t, "push", reg[t].after + 1)
PopCommit(t) == SetCurrent(t, "pop", reg[t].after - 1)

\* The call succeeded if the register has moved, and the item has changed hands;
\* otherwise err_handler is called, and here the caller keeps its item or gets none.
Moved(t) == reg[t].after # reg[t].before

Owned(t) ==
  IF pc[t] = <<"push", "after">> /\ Moved(t) THEN mine[t] \ {reg[t].val}
  ELSE IF pc[t] = <<"pop", "after">> /\ Moved(t) THEN mine[t] \cup {reg[t].val}
  ELSE mine[t]

Return(t, op) ==
  /\ Runs(t, op, "after")
  /\ mine' = [mine EXCEPT ![t] = Owned(t)]
  /\ pc' = [pc EXCEPT ![t] = Idle]
  /\ reg' = [reg EXCEPT ![t] = NoReg]
  /\ UNCHANGED <<current, data, on, abi, cs>>

PushReturn(t) == Return(t, "push")
PopReturn(t) == Return(t, "pop")

Next ==
  \E t \in Thread :
    \/ Preempt(t)
    \/ \E c \in Cpu : Resume(t, c)
    \/ \E cl \in Class : CallPop(t, cl) \/ \E v \in Item : CallPush(t, cl, v)
    \/ \E op \in {"push", "pop"} :
         Register(t, op) \/ Prepare(t, op) \/ LoadCpu(t, op) \/ LoadCurrent(t, op)
    \/ PushBound(t) \/ PushStore(t) \/ PushCommit(t) \/ PushReturn(t)
    \/ PopBound(t) \/ PopLoad(t) \/ PopCommit(t) \/ PopReturn(t)

Spec == Init /\ [][Next]_vars
-----------------------------------------------------------------------------
(***************************************************************************)
(* Properties.                                                             *)
(***************************************************************************)
\* push and pop take effect at their commit, on the stack of the CPU the thread
\* runs on at that moment, wherever it was before: no preemption or migration
\* loses an item, hands it out twice, overfills an array or mixes two classes.
Abstract ==
  INSTANCE PerCpuStacks WITH
    Capacity <- initial_capacity,
    stack <- [x \in Cpu \X Class |->
                [i \in 1 .. current[x] - begin(x[2]) |-> data[x[1]][begin(x[2]) + i - 1]]],
    mine <- [t \in Thread |-> Owned(t)]
ImplementsStacks == Abstract!Spec
=============================================================================
