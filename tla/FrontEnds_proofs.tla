-------------------------- MODULE FrontEnds_proofs --------------------------
(***************************************************************************)
(* The front ends that keep freed objects per CPU or per thread.           *)
(*                                                                         *)
(* First part: PerCpuArray implements PerCpuStacks for any threads, CPUs,  *)
(* items, number of classes and size of the arrays.  A thread is inside    *)
(* its sequence only while it runs on the CPU whose number it has loaded,  *)
(* because the kernel sends it back to the beginning whenever it takes it  *)
(* off; and no other thread runs on that CPU.  So the top it has read is   *)
(* still the top when it commits, the word it has written is the free word *)
(* there, and the commit is a push or a pop of the stack.                  *)
(*                                                                         *)
(* Second part: an object of MemCache is in one place, for any threads,    *)
(* classes and objects.  The sections of a cache do not overlap, whatever  *)
(* their lengths; a step writes the words of one section, of which it      *)
(* leaves a list without repetitions; and what the list gains or loses,    *)
(* the zone or the program loses or gains.                                 *)
(*                                                                         *)
(* Third part: the three invariants of SizeClasses, for any sets of        *)
(* requests and resizes.  Where the run of a class ends in the index array *)
(* is the size of the class, counted in units of 8 up to 1024 and of 128   *)
(* above: so the index of a request lies in the run of the least class     *)
(* that is large enough.                                                   *)
(*                                                                         *)
(* Fourth part: the batches of CpuCache balance, for any threads, cores,   *)
(* objects, capacity and length of a batch.  A copy of an object is a cell *)
(* (owner, position) of the caches or of the calls; a step changes the     *)
(* cells of one core and of one call, and what these gain, the zone, the   *)
(* program and the objects lost or made twice by the step lose.            *)
(***************************************************************************)
EXTENDS PerCpuArray, MemCache, SizeClasses, CpuCache, LinkedLists_proofs

-----------------------------------------------------------------------------
(***************************************************************************)
(* The arrays of a CPU lie one behind the other, inside its words.         *)
(***************************************************************************)
LEMMA NextMultiple ==
  ASSUME NEW n \in Nat, NEW q \in Nat, NEW d \in Nat, q < d
  PROVE  q * n + n <= d * n
<1>1. (q + 1) * n = q * n + n BY SMTT(30)
<1>2. (q + 1) * n <= d * n BY SMTT(30)
<1>3. q * n \in Nat /\ d * n \in Nat BY SMTT(30)
<1> QED BY <1>1, <1>2, <1>3

LEMMA ArraysFit ==
  /\ initial_capacity \in Nat \ {0} /\ NUM_ARRS \in Nat \ {0} /\ DATA_LEN \in Nat
  /\ NUM_ARRS * initial_capacity <= DATA_LEN
<1> DEFINE a == DATA_LEN \div 8
           b == a \div NUM_ARRS
<1>1. NUM_ARRS \in Nat \ {0} /\ DATA_LEN \in Nat /\ b > 1 BY ArrayAssumption
<1>2. a \in Nat /\ a <= DATA_LEN BY <1>1, Division
<1>3. b \in Nat /\ NUM_ARRS * b <= a
  <2>1. b \in Nat /\ a % NUM_ARRS \in 0 .. NUM_ARRS - 1
        /\ a = NUM_ARRS * b + (a % NUM_ARRS)
    BY <1>1, <1>2, Division
  <2> HIDE DEF a, b
  <2>2. NUM_ARRS * b \in Nat BY <1>1, <2>1
  <2> QED BY <1>1, <1>2, <2>1, <2>2
<1>4. initial_capacity = b - 1 BY DEF initial_capacity
<1> HIDE DEF a, b
<1>5. initial_capacity \in Nat \ {0} BY <1>1, <1>3, <1>4
<1>6. NUM_ARRS * (b - 1) <= NUM_ARRS * b BY <1>1, <1>3, SMTT(30)
<1>7. NUM_ARRS * (b - 1) \in Nat /\ NUM_ARRS * b \in Nat
  BY <1>1, <1>3, <1>4, <1>5
<1> QED BY <1>1, <1>2, <1>3, <1>4, <1>5, <1>6, <1>7

LEMMA ArrayBounds ==
  ASSUME NEW cl \in Class
  PROVE  /\ begin(cl) \in Nat /\ end(cl) \in Nat
         /\ begin(cl) < end(cl) /\ end(cl) = begin(cl) + initial_capacity
         /\ begin(cl) .. end(cl) - 1 \subseteq Word
<1>1. /\ initial_capacity \in Nat \ {0} /\ NUM_ARRS \in Nat \ {0} /\ DATA_LEN \in Nat
      /\ NUM_ARRS * initial_capacity <= DATA_LEN
      /\ cl \in Nat /\ cl < NUM_ARRS
  BY ArraysFit DEF Class
<1> DEFINE k == initial_capacity
           m == cl * k
<1>2. m \in Nat BY <1>1
<1>3. m + k <= NUM_ARRS * k BY <1>1, NextMultiple
<1>4. begin(cl) = NUM_ARRS + m /\ end(cl) = NUM_ARRS + m + k BY DEF begin, end
<1>5. NUM_ARRS * k \in Nat /\ k \in Nat \ {0} BY <1>1
<1> HIDE DEF m, k
<1>6. m + k <= DATA_LEN BY <1>1, <1>2, <1>3, <1>5 DEF k
<1> QED BY <1>1, <1>2, <1>4, <1>5, <1>6 DEF Word, k

\* No word belongs to two of them.
LEMMA ArraysApart ==
  ASSUME NEW cl \in Class, NEW d \in Class,
         NEW w \in begin(cl) .. end(cl) - 1, w \in begin(d) .. end(d) - 1
  PROVE  cl = d
<1> DEFINE k == initial_capacity
           m == cl * k
           n == d * k
<1>1. k \in Nat /\ cl \in Nat /\ d \in Nat /\ NUM_ARRS \in Nat BY ArraysFit DEF Class
<1>2. m \in Nat /\ n \in Nat BY <1>1
<1>3. begin(cl) = NUM_ARRS + m /\ end(cl) = NUM_ARRS + m + k BY DEF begin, end
<1>4. begin(d) = NUM_ARRS + n /\ end(d) = NUM_ARRS + n + k BY DEF begin, end
<1>5. ASSUME cl < d PROVE FALSE
  <2>1. m + k <= n BY <1>1, <1>5, NextMultiple
  <2> HIDE DEF m, n, k
  <2> QED BY <1>1, <1>2, <1>3, <1>4, <2>1
<1>6. ASSUME d < cl PROVE FALSE
  <2>1. n + k <= m BY <1>1, <1>6, NextMultiple
  <2> HIDE DEF m, n, k
  <2> QED BY <1>1, <1>2, <1>3, <1>4, <2>1
<1> QED BY <1>1, <1>5, <1>6

-----------------------------------------------------------------------------
(***************************************************************************)
(* The inductive invariant.                                                *)
(***************************************************************************)
Call == {"push", "pop"}
Where == {"register", "prepare", "cpu", "current", "bound", "access", "commit",
          "after"}

At(t, op, step) == pc[t] = <<op, step>>

Types ==
  /\ current \in [Cpu \X Class -> Int]
  /\ data \in [Cpu -> [Word -> Item \cup {None}]]
  /\ mine \in [Thread -> SUBSET Item]
  /\ on \in [Thread -> Cpu \cup {None}]
  /\ abi \subseteq Thread
  /\ cs \in [Thread -> Call \cup {None}]
  /\ pc \in [Thread -> (Call \X Where) \cup {Idle}]
  /\ reg \in [Thread -> [cl : Class, val : Item \cup {None}, cpu : Cpu \cup {None},
                         before : Int, after : Int]]

\* The top of every array is inside it, or just behind it.
TopsInside ==
  \A c \in Cpu, cl \in Class :
    begin(cl) <= current[<<c, cl>>] /\ current[<<c, cl>>] <= end(cl)

\* What lies below a top is an item.
ItemsBelow ==
  \A c \in Cpu, cl \in Class : \A w \in begin(cl) .. current[<<c, cl>>] - 1 :
    data[c][w] \in Item

OneThreadPerCpu ==
  \A t, u \in Thread : on[t] # None /\ on[t] = on[u] => t = u

\* A push brings an item of the caller's, and a pop that succeeds one for it;
\* the kernel knows every thread that has begun a sequence, and a thread is
\* inside one only while it runs.
CallInv(t) ==
  /\ \A step \in Where : At(t, "push", step) => reg[t].val \in mine[t]
  /\ \A op \in Call, step \in Where :
       At(t, op, step) /\ step # "register" => t \in abi
  /\ \A op \in Call, step \in {"cpu", "current", "bound", "access", "commit"} :
       At(t, op, step) => on[t] # None /\ cs[t] = op
  /\ At(t, "pop", "after") /\ Moved(t) => reg[t].val \in Item

\* What it has loaded since is still so.
LoadedInv(t) ==
  /\ \A op \in Call, step \in {"current", "bound", "access", "commit"} :
       At(t, op, step) => reg[t].cpu = on[t]
  /\ \A op \in Call, step \in {"bound", "access", "commit"} :
       At(t, op, step) => /\ reg[t].before = reg[t].after
                          /\ reg[t].after = current[<<on[t], reg[t].cl>>]
  /\ \A step \in {"access", "commit"} :
       /\ At(t, "push", step) => reg[t].after < end(reg[t].cl)
       /\ At(t, "pop", step) => begin(reg[t].cl) < reg[t].after
  /\ At(t, "push", "commit") => data[on[t]][reg[t].after] = reg[t].val
  /\ At(t, "pop", "commit") => data[on[t]][reg[t].after - 1] = reg[t].val

ArrayInv ==
  /\ Types /\ TopsInside /\ ItemsBelow /\ OneThreadPerCpu
  /\ \A t \in Thread : CallInv(t) /\ LoadedInv(t)

-----------------------------------------------------------------------------
(***************************************************************************)
(* Every step keeps the invariant.                                         *)
(***************************************************************************)
LEMMA InitArrayInv == Init => ArrayInv
<1> SUFFICES ASSUME Init PROVE ArrayInv OBVIOUS
<1>1. 0 \in Class BY ArraysFit DEF Class
<1>2. \A cl \in Class : begin(cl) \in Nat /\ begin(cl) < end(cl) /\ end(cl) \in Nat
  BY ArrayBounds
<1>3. Types BY <1>1, <1>2 DEF Init, Types, NoReg
<1>4. TopsInside BY <1>2 DEF Init, TopsInside
<1>5. OneThreadPerCpu BY DEF Init, OneThreadPerCpu
<1>9. ItemsBelow BY <1>2 DEF Init, ItemsBelow
<1>6. \A t \in Thread : \A op \in Call : \A step : ~ At(t, op, step)
  BY DEF Init, At, Idle, Call
<1>7. "push" \in Call /\ "pop" \in Call BY DEF Call
<1>8. \A t \in Thread : CallInv(t) /\ LoadedInv(t)
  BY <1>6, <1>7 DEF CallInv, LoadedInv
<1> QED BY <1>3, <1>4, <1>5, <1>8, <1>9 DEF ArrayInv

\* A thread keeps its part when others move, as long as they leave the arrays of
\* its CPU alone.
LEMMA OthersKeep ==
  ASSUME NEW u \in Thread, Types, CallInv(u), LoadedInv(u),
         pc'[u] = pc[u], reg'[u] = reg[u], on'[u] = on[u], cs'[u] = cs[u],
         mine'[u] = mine[u], abi \subseteq abi',
         on[u] # None => /\ data'[on[u]] = data[on[u]]
                         /\ \A cl \in Class : current'[<<on[u], cl>>] = current[<<on[u], cl>>]
  PROVE  CallInv(u)' /\ LoadedInv(u)'
<1>1. CallInv(u)' BY DEF CallInv, At, Moved
<1>2. reg[u].cl \in Class BY DEF Types
<1>3. \A op \in Call, step \in {"cpu", "current", "bound", "access", "commit"} :
        At(u, op, step) => on[u] # None
  BY DEF CallInv
<1>4. "push" \in Call /\ "pop" \in Call BY DEF Call
<1>5. LoadedInv(u)' BY <1>2, <1>3, <1>4 DEF LoadedInv, At
<1> QED BY <1>1, <1>5

\* A step of one thread that leaves the arrays alone.
LEMMA QuietStep ==
  ASSUME ArrayInv, NEW t \in Thread, Types', UNCHANGED <<current, data>>,
         abi \subseteq abi',
         \A u \in Thread : u # t =>
           /\ pc'[u] = pc[u] /\ reg'[u] = reg[u] /\ on'[u] = on[u]
           /\ cs'[u] = cs[u] /\ mine'[u] = mine[u],
         OneThreadPerCpu', CallInv(t)', LoadedInv(t)'
  PROVE  ArrayInv'
<1>1. \A u \in Thread : u # t => CallInv(u)' /\ LoadedInv(u)'
  BY OthersKeep DEF ArrayInv
<1>2. \A cl : begin(cl)' = begin(cl) /\ end(cl)' = end(cl) BY DEF begin, end
<1>3. TopsInside' BY <1>2 DEF ArrayInv, TopsInside
<1>4. ItemsBelow' BY <1>2 DEF ArrayInv, ItemsBelow
<1> QED BY <1>1, <1>3, <1>4 DEF ArrayInv

\* Where the threads are after one of them has moved.
LEMMA Moves ==
  ASSUME Types, NEW t \in Thread, NEW o \in Call, NEW s \in Where, Goto(t, o, s)
  PROVE  /\ \A u \in Thread : u # t => pc'[u] = pc[u]
         /\ pc' \in [Thread -> (Call \X Where) \cup {Idle}]
         /\ \A op \in Call, step \in Where : At(t, op, step)' <=> op = o /\ step = s
BY DEF Types, At, Goto

LEMMA Steps ==
  /\ "push" \in Call /\ "pop" \in Call /\ "push" # "pop"
  /\ {"cpu", "current", "bound", "access", "commit"} \subseteq Where
  /\ {"register", "prepare", "after"} \subseteq Where
BY DEF Call, Where

LEMMA PreemptKeeps ==
  ASSUME ArrayInv, NEW t \in Thread, Preempt(t)
  PROVE  ArrayInv'
<1>1. Types BY DEF ArrayInv
<1>2. /\ UNCHANGED <<current, data, mine, abi, reg>>
      /\ on' = [on EXCEPT ![t] = None] /\ cs' = [cs EXCEPT ![t] = None]
  BY DEF Preempt
<1>3. \A u \in Thread : u # t => pc'[u] = pc[u] /\ on'[u] = on[u] /\ cs'[u] = cs[u]
  BY <1>1, <1>2 DEF Preempt, Types
<1>4. on'[t] = None BY <1>1, <1>2 DEF Types
<1>5. \/ \E op \in Call, step \in {"cpu", "current", "bound", "access", "commit"} :
           At(t, op, step) /\ pc'[t] = <<op, "prepare">>
      \/ /\ \A op \in Call, step \in {"cpu", "current", "bound", "access", "commit"} :
              ~ At(t, op, step)
         /\ pc'[t] = pc[t]
  <2>1. CASE \E op \in Call, step \in {"cpu", "current", "bound", "access", "commit"} :
               At(t, op, step)
    <3>1. PICK op \in Call, step \in {"cpu", "current", "bound", "access", "commit"} :
            At(t, op, step)
      BY <2>1
    <3>2. step \in Where /\ step # "register" BY <3>1, Steps
    <3>3. t \in abi /\ cs[t] = op BY <3>1, <3>2 DEF ArrayInv, CallInv
    <3>4. pc'[t] = <<op, "prepare">>
      BY <1>1, <3>1, <3>3 DEF Preempt, InSection, At, Types
    <3> QED BY <3>1, <3>4
  <2>2. CASE \A op \in Call, step \in {"cpu", "current", "bound", "access", "commit"} :
               ~ At(t, op, step)
    <3>1. ~ InSection(t)
      BY <1>1, <2>2 DEF Types, InSection, At, Idle, Call
    <3>2. pc'[t] = pc[t] BY <1>1, <3>1 DEF Preempt, Types
    <3> QED BY <2>2, <3>2
  <2> QED BY <2>1, <2>2
<1>6. pc' \in [Thread -> (Call \X Where) \cup {Idle}]
  <2>1. pc'[t] \in (Call \X Where) \cup {Idle}
    <3>1. \A op \in Call : <<op, "prepare">> \in Call \X Where BY Steps
    <3> QED BY <1>1, <1>5, <3>1 DEF Types
  <2>2. pc' = [pc EXCEPT ![t] = pc'[t]] BY <1>1 DEF Preempt, Types
  <2> QED BY <1>1, <2>1, <2>2 DEF Types
<1>7. Types' BY <1>1, <1>2, <1>6 DEF Types
<1>8. OneThreadPerCpu'
  BY <1>3, <1>4 DEF ArrayInv, OneThreadPerCpu
<1>9. CallInv(t) /\ LoadedInv(t) BY DEF ArrayInv
<1>10. \A op \in Call, step \in {"cpu", "current", "bound", "access", "commit"} :
         ~ At(t, op, step)'
  BY <1>5 DEF At
<1>11. CallInv(t)'
  <2>1. \A step \in Where : At(t, "push", step)' => reg'[t].val \in mine'[t]
    BY <1>2, <1>5, <1>9, Steps DEF CallInv, At
  <2>2. \A op \in Call, step \in Where : At(t, op, step)' /\ step # "register" => t \in abi'
    <3>1. CASE pc'[t] = pc[t] BY <1>2, <1>9, <3>1 DEF CallInv, At
    <3>2. CASE \E op \in Call, step \in {"cpu", "current", "bound", "access", "commit"} :
                 At(t, op, step)
      <4>1. t \in abi BY <1>9, <3>2, Steps DEF CallInv
      <4> QED BY <1>2, <4>1
    <3> QED BY <1>5, <3>1, <3>2
  <2>3. At(t, "pop", "after")' /\ Moved(t)' => reg'[t].val \in Item
    BY <1>2, <1>5, <1>9 DEF CallInv, At, Moved
  <2> QED BY <1>10, <2>1, <2>2, <2>3 DEF CallInv
<1>12. LoadedInv(t)' BY <1>10, Steps DEF LoadedInv
<1> QED BY <1>2, <1>3, <1>7, <1>8, <1>11, <1>12, QuietStep

LEMMA ResumeKeeps ==
  ASSUME ArrayInv, NEW t \in Thread, NEW c \in Cpu, Resume(t, c)
  PROVE  ArrayInv'
<1>1. Types BY DEF ArrayInv
<1>2. /\ UNCHANGED <<current, data, mine, abi, cs, pc, reg>>
      /\ on' = [on EXCEPT ![t] = c] /\ on[t] = None
      /\ \A u \in Thread : on[u] # c
  BY DEF Resume
<1>3. Types' BY <1>1, <1>2 DEF Types
<1>4. OneThreadPerCpu'
  BY <1>1, <1>2 DEF ArrayInv, OneThreadPerCpu, Types
<1>5. CallInv(t) /\ LoadedInv(t) BY DEF ArrayInv
<1>6. \A op \in Call, step \in {"cpu", "current", "bound", "access", "commit"} :
        ~ At(t, op, step) /\ ~ At(t, op, step)'
  BY <1>2, <1>5 DEF CallInv, At
<1>7. CallInv(t)' BY <1>2, <1>5, <1>6 DEF CallInv, At, Moved
<1>8. LoadedInv(t)' BY <1>6, Steps DEF LoadedInv
<1>9. \A u \in Thread : u # t => on'[u] = on[u] BY <1>1, <1>2 DEF Types
<1> QED BY <1>2, <1>3, <1>4, <1>7, <1>8, <1>9, QuietStep

\* The registers of a call, ...
LEMMA RegOfCall ==
  ASSUME NEW cl, NEW v
  PROVE  /\ [NoReg EXCEPT !.cl = cl] =
              [cl |-> cl, val |-> None, cpu |-> None, before |-> 0, after |-> 0]
         /\ [NoReg EXCEPT !.cl = cl, !.val = v] =
              [cl |-> cl, val |-> v, cpu |-> None, before |-> 0, after |-> 0]
<1> DEFINE d == [NoReg EXCEPT !.cl = cl]
<1>1. d = [cl |-> cl, val |-> None, cpu |-> None, before |-> 0, after |-> 0]
  BY DEF NoReg
<1> HIDE DEF d
<1>2. [d EXCEPT !.val = v] =
        [cl |-> cl, val |-> v, cpu |-> None, before |-> 0, after |-> 0]
  BY <1>1
<1> QED BY <1>1, <1>2 DEF d

\* ... and with the top in them.
LEMMA RegLoaded ==
  ASSUME Types, NEW t \in Thread, NEW top
  PROVE  [[reg[t] EXCEPT !.before = top] EXCEPT !.after = top] =
           [cl |-> reg[t].cl, val |-> reg[t].val, cpu |-> reg[t].cpu,
            before |-> top, after |-> top]
<1> DEFINE r == reg[t]
           d == [r EXCEPT !.before = top]
<1>1. r = [cl |-> r.cl, val |-> r.val, cpu |-> r.cpu, before |-> r.before,
           after |-> r.after]
  BY DEF Types
<1> HIDE DEF r
<1>2. d = [cl |-> r.cl, val |-> r.val, cpu |-> r.cpu, before |-> top,
           after |-> r.after]
  BY <1>1
<1> HIDE DEF d
<1>3. [d EXCEPT !.after = top] =
        [cl |-> r.cl, val |-> r.val, cpu |-> r.cpu, before |-> top, after |-> top]
  BY <1>2
<1> QED BY <1>3 DEF d, r

\* The calls, and the first steps of the sequences.
LEMMA CallKeeps ==
  ASSUME ArrayInv, NEW t \in Thread, NEW cl \in Class,
         CallPop(t, cl) \/ \E v \in Item : CallPush(t, cl, v)
  PROVE  ArrayInv'
<1>1. Types BY DEF ArrayInv
<1>2. PICK op \in Call, v \in Item \cup {None} :
        /\ Goto(t, op, "register") /\ (op = "push" => v \in mine[t])
        /\ reg' = [reg EXCEPT ![t] = [NoReg EXCEPT !.cl = cl, !.val = v]]
        /\ UNCHANGED <<current, data, mine, on, abi, cs>>
  <2>1. CASE CallPop(t, cl)
    <3>1. [NoReg EXCEPT !.cl = cl] = [NoReg EXCEPT !.cl = cl, !.val = None]
      BY RegOfCall
    <3> QED BY <2>1, <3>1, Steps DEF CallPop
  <2>2. CASE \E v \in Item : CallPush(t, cl, v) BY <2>2, Steps DEF CallPush
  <2> QED BY <2>1, <2>2
<1>3. /\ [NoReg EXCEPT !.cl = cl, !.val = v].val = v
      /\ [NoReg EXCEPT !.cl = cl, !.val = v] \in
           [cl : Class, val : Item \cup {None}, cpu : Cpu \cup {None},
            before : Int, after : Int]
  <2> DEFINE e == [NoReg EXCEPT !.cl = cl, !.val = v]
  <2>1. e = [cl |-> cl, val |-> v, cpu |-> None, before |-> 0, after |-> 0]
    BY RegOfCall
  <2> HIDE DEF e
  <2>2. e.val = v BY <2>1
  <2>3. e \in [cl : Class, val : Item \cup {None}, cpu : Cpu \cup {None},
               before : Int, after : Int]
    BY <2>1
  <2> QED BY <2>2, <2>3 DEF e
<1>4. /\ reg'[t].val = v /\ \A u \in Thread : u # t => reg'[u] = reg[u]
      /\ reg' \in [Thread -> [cl : Class, val : Item \cup {None},
                              cpu : Cpu \cup {None}, before : Int, after : Int]]
  BY <1>1, <1>2, <1>3 DEF Types
<1>5. /\ \A u \in Thread : u # t => pc'[u] = pc[u]
      /\ pc' \in [Thread -> (Call \X Where) \cup {Idle}]
      /\ \A o \in Call, step \in Where : At(t, o, step)' <=> o = op /\ step = "register"
  BY <1>1, <1>2, Moves, Steps
<1>6. Types' BY <1>1, <1>2, <1>4, <1>5 DEF Types
<1>7. OneThreadPerCpu' BY <1>2 DEF ArrayInv, OneThreadPerCpu
<1>8. CallInv(t)' BY <1>2, <1>4, <1>5, Steps DEF CallInv
<1>9. LoadedInv(t)' BY <1>5, Steps DEF LoadedInv
<1> QED BY <1>2, <1>4, <1>5, <1>6, <1>7, <1>8, <1>9, QuietStep

LEMMA BeginKeeps ==
  ASSUME ArrayInv, NEW t \in Thread, NEW op \in Call,
         Register(t, op) \/ Prepare(t, op)
  PROVE  ArrayInv'
<1>1. Types BY DEF ArrayInv
<1>2. PICK was \in {"register", "prepare"}, to \in {"prepare", "cpu"} :
        /\ on[t] # None /\ At(t, op, was) /\ Goto(t, op, to)
        /\ UNCHANGED <<current, data, mine, on, reg>>
        /\ abi' \subseteq Thread /\ abi \subseteq abi' /\ t \in abi'
        /\ cs' \in [Thread -> Call \cup {None}]
        /\ \A u \in Thread : u # t => cs'[u] = cs[u]
        /\ to = "cpu" => cs'[t] = op
  <2>1. CASE Register(t, op)
    BY <1>1, <2>1 DEF Register, Runs, At, Types
  <2>2. CASE Prepare(t, op)
    <3>1. At(t, op, "prepare") BY <2>2 DEF Prepare, Runs, At
    <3>2. t \in abi BY <3>1, Steps DEF ArrayInv, CallInv
    <3> QED BY <1>1, <2>2, <3>1, <3>2 DEF Prepare, Runs, Types
  <2> QED BY <2>1, <2>2
<1>3. /\ \A u \in Thread : u # t => pc'[u] = pc[u]
      /\ pc' \in [Thread -> (Call \X Where) \cup {Idle}]
      /\ \A o \in Call, step \in Where : At(t, o, step)' <=> o = op /\ step = to
  BY <1>1, <1>2, Moves, Steps
<1>4. Types' BY <1>1, <1>2, <1>3 DEF Types
<1>5. OneThreadPerCpu' BY <1>2 DEF ArrayInv, OneThreadPerCpu
<1>6. op = "push" => reg[t].val \in mine[t] BY <1>2, Steps DEF ArrayInv, CallInv
<1>7. CallInv(t)' BY <1>2, <1>3, <1>6, Steps DEF CallInv
<1>8. LoadedInv(t)' BY <1>2, <1>3, Steps DEF LoadedInv
<1> QED BY <1>2, <1>3, <1>4, <1>5, <1>7, <1>8, QuietStep

LEMMA LoadCpuKeeps ==
  ASSUME ArrayInv, NEW t \in Thread, NEW op \in Call, LoadCpu(t, op)
  PROVE  ArrayInv'
<1>1. Types BY DEF ArrayInv
<1>2. At(t, op, "cpu") /\ Goto(t, op, "current") BY DEF LoadCpu, Runs, At
<1>3. /\ t \in abi /\ on[t] # None /\ cs[t] = op
      /\ op = "push" => reg[t].val \in mine[t]
  BY <1>2, Steps DEF ArrayInv, CallInv
<1>4. UNCHANGED <<current, data, mine, on, abi, cs>> BY DEF LoadCpu
<1>5. reg' = [reg EXCEPT ![t].cpu = on[t]] BY <1>3 DEF LoadCpu
<1>6. /\ reg'[t].cpu = on[t] /\ reg'[t].val = reg[t].val
      /\ \A u \in Thread : u # t => reg'[u] = reg[u]
      /\ reg' \in [Thread -> [cl : Class, val : Item \cup {None},
                              cpu : Cpu \cup {None}, before : Int, after : Int]]
  BY <1>1, <1>5 DEF Types
<1>7. /\ \A u \in Thread : u # t => pc'[u] = pc[u]
      /\ pc' \in [Thread -> (Call \X Where) \cup {Idle}]
      /\ \A o \in Call, step \in Where : At(t, o, step)' <=> o = op /\ step = "current"
  BY <1>1, <1>2, Moves, Steps
<1>8. Types' BY <1>1, <1>4, <1>6, <1>7 DEF Types
<1>9. OneThreadPerCpu' BY <1>4 DEF ArrayInv, OneThreadPerCpu
<1>10. CallInv(t)' BY <1>3, <1>4, <1>6, <1>7, Steps DEF CallInv
<1>11. LoadedInv(t)' BY <1>4, <1>6, <1>7, Steps DEF LoadedInv
<1> QED BY <1>4, <1>6, <1>7, <1>8, <1>9, <1>10, <1>11, QuietStep

LEMMA LoadCurrentKeeps ==
  ASSUME ArrayInv, NEW t \in Thread, NEW op \in Call, LoadCurrent(t, op)
  PROVE  ArrayInv'
<1>1. Types BY DEF ArrayInv
<1>2. At(t, op, "current") /\ Goto(t, op, "bound") BY DEF LoadCurrent, Runs, At
<1>3. /\ t \in abi /\ on[t] # None /\ cs[t] = op /\ reg[t].cpu = on[t]
      /\ op = "push" => reg[t].val \in mine[t]
  BY <1>2, Steps, ZenonT(40) DEF ArrayInv, CallInv, LoadedInv
<1>4. UNCHANGED <<current, data, mine, on, abi, cs>> BY DEF LoadCurrent
<1> DEFINE top == current[<<on[t], reg[t].cl>>]
           r == reg[t]
           d == [r EXCEPT !.before = top]
           e == [d EXCEPT !.after = top]
<1>5. top \in Int /\ r.cl \in Class BY <1>1, <1>3 DEF Types
<1>6. reg' = [reg EXCEPT ![t] = e] BY <1>1, <1>3 DEF LoadCurrent, Types
<1>7. e = [cl |-> r.cl, val |-> r.val, cpu |-> r.cpu, before |-> top, after |-> top]
  BY <1>1, RegLoaded
<1> HIDE DEF e, d, top
<1>8. e \in [cl : Class, val : Item \cup {None}, cpu : Cpu \cup {None},
             before : Int, after : Int]
  BY <1>1, <1>5, <1>7 DEF Types
<1>9. /\ reg'[t] = e /\ \A u \in Thread : u # t => reg'[u] = reg[u]
      /\ reg' \in [Thread -> [cl : Class, val : Item \cup {None},
                              cpu : Cpu \cup {None}, before : Int, after : Int]]
  BY <1>1, <1>6, <1>8 DEF Types
<1>10. /\ \A u \in Thread : u # t => pc'[u] = pc[u]
       /\ pc' \in [Thread -> (Call \X Where) \cup {Idle}]
       /\ \A o \in Call, step \in Where : At(t, o, step)' <=> o = op /\ step = "bound"
  BY <1>1, <1>2, Moves, Steps
<1>11. Types' BY <1>1, <1>4, <1>9, <1>10 DEF Types
<1>12. OneThreadPerCpu' BY <1>4 DEF ArrayInv, OneThreadPerCpu
<1>13. CallInv(t)' BY <1>3, <1>4, <1>7, <1>9, <1>10, Steps DEF CallInv
<1>14. LoadedInv(t)'
  BY <1>3, <1>4, <1>7, <1>9, <1>10, Steps DEF LoadedInv, top
<1> QED BY <1>4, <1>9, <1>10, <1>11, <1>12, <1>13, <1>14, QuietStep

LEMMA BoundKeeps ==
  ASSUME ArrayInv, NEW t \in Thread, PushBound(t) \/ PopBound(t)
  PROVE  ArrayInv'
<1>1. Types BY DEF ArrayInv
<1>2. PICK op \in Call, to \in {"after", "access"} :
        /\ At(t, op, "bound") /\ Goto(t, op, to)
        /\ UNCHANGED <<current, data, mine, on, abi, cs, reg>>
        /\ op = "push" /\ to = "access" => ~ (reg[t].after >= end(reg[t].cl))
        /\ op = "pop" /\ to = "access" => ~ (reg[t].after <= begin(reg[t].cl))
  BY Steps DEF PushBound, PopBound, Runs, At
<1>3. CallInv(t) /\ LoadedInv(t) BY DEF ArrayInv
<1>4. /\ t \in abi /\ on[t] # None /\ cs[t] = op /\ reg[t].cpu = on[t]
      /\ op = "push" => reg[t].val \in mine[t]
  BY <1>2, <1>3, Steps DEF CallInv, LoadedInv
<1>5. /\ reg[t].before = reg[t].after
      /\ reg[t].after = current[<<on[t], reg[t].cl>>]
  BY <1>2, <1>3, Steps DEF LoadedInv
<1>6. /\ \A u \in Thread : u # t => pc'[u] = pc[u]
      /\ pc' \in [Thread -> (Call \X Where) \cup {Idle}]
      /\ \A o \in Call, step \in Where : At(t, o, step)' <=> o = op /\ step = to
  BY <1>1, <1>2, Moves, Steps
<1>7. Types' BY <1>1, <1>2, <1>6 DEF Types
<1>8. OneThreadPerCpu' BY <1>2 DEF ArrayInv, OneThreadPerCpu
<1>9. CallInv(t)' BY <1>2, <1>4, <1>5, <1>6, Steps DEF CallInv, Moved
<1>10. reg[t].after \in Int /\ begin(reg[t].cl) \in Nat /\ end(reg[t].cl) \in Nat
  BY <1>1, ArrayBounds DEF Types
<1>11. /\ op = "push" /\ to = "access" => reg[t].after < end(reg[t].cl)
       /\ op = "pop" /\ to = "access" => begin(reg[t].cl) < reg[t].after
  BY <1>2, <1>10
<1>12. \A c : begin(c)' = begin(c) /\ end(c)' = end(c) BY DEF begin, end
<1>13. LoadedInv(t)' BY <1>2, <1>4, <1>5, <1>6, <1>11, <1>12, Steps DEF LoadedInv
<1> QED BY <1>2, <1>6, <1>7, <1>8, <1>9, <1>13, QuietStep

\* A step that writes to the arrays of the CPU its thread runs on.
LEMMA WritingStep ==
  ASSUME ArrayInv, NEW t \in Thread, Types', TopsInside', ItemsBelow', on[t] # None,
         UNCHANGED <<mine, on, abi, cs>>,
         \A c \in Cpu : c # on[t] =>
           /\ data'[c] = data[c]
           /\ \A cl \in Class : current'[<<c, cl>>] = current[<<c, cl>>],
         \A u \in Thread : u # t => pc'[u] = pc[u] /\ reg'[u] = reg[u],
         CallInv(t)', LoadedInv(t)'
  PROVE  ArrayInv'
<1>1. OneThreadPerCpu' BY DEF ArrayInv, OneThreadPerCpu
<1>2. ASSUME NEW u \in Thread, u # t PROVE CallInv(u)' /\ LoadedInv(u)'
  <2>1. on[u] # None => on[u] \in Cpu /\ on[u] # on[t]
    BY <1>2 DEF ArrayInv, Types, OneThreadPerCpu
  <2> QED BY <1>2, <2>1, OthersKeep DEF ArrayInv
<1> QED BY <1>1, <1>2 DEF ArrayInv

\* What a thread knows when it is about to store or load an item, ...
LEMMA AtAccess ==
  ASSUME ArrayInv, NEW t \in Thread, NEW op \in Call,
         NEW step \in {"access", "commit"}, At(t, op, step)
  PROVE  /\ on[t] \in Cpu /\ reg[t].cpu = on[t] /\ t \in abi /\ cs[t] = op
         /\ reg[t].cl \in Class /\ reg[t].val \in Item \cup {None}
         /\ reg[t].after \in Int /\ reg[t].before = reg[t].after
         /\ reg[t].after = current[<<on[t], reg[t].cl>>]
         /\ begin(reg[t].cl) <= reg[t].after /\ reg[t].after <= end(reg[t].cl)
         /\ begin(reg[t].cl) \in Nat /\ end(reg[t].cl) \in Nat
         /\ op = "push" => reg[t].val \in mine[t] /\ reg[t].after < end(reg[t].cl)
         /\ op = "pop" => begin(reg[t].cl) < reg[t].after
<1>1. Types /\ CallInv(t) /\ LoadedInv(t) BY DEF ArrayInv
<1>2. t \in abi /\ on[t] # None /\ cs[t] = op /\ reg[t].cpu = on[t]
  BY <1>1, Steps DEF CallInv, LoadedInv
<1>3. on[t] \in Cpu /\ reg[t].cl \in Class /\ reg[t].after \in Int
      /\ reg[t].val \in Item \cup {None}
  BY <1>1, <1>2 DEF Types
<1>4. /\ reg[t].before = reg[t].after
      /\ reg[t].after = current[<<on[t], reg[t].cl>>]
  BY <1>1 DEF LoadedInv
<1>5. begin(reg[t].cl) <= reg[t].after /\ reg[t].after <= end(reg[t].cl)
  BY <1>3, <1>4 DEF ArrayInv, TopsInside
<1>6. op = "push" => reg[t].val \in mine[t] /\ reg[t].after < end(reg[t].cl)
  BY <1>1, Steps DEF CallInv, LoadedInv
<1>7. op = "pop" => begin(reg[t].cl) < reg[t].after
  BY <1>1 DEF LoadedInv
<1> QED BY <1>2, <1>3, <1>4, <1>5, <1>6, <1>7, ArrayBounds

\* ... and the words it stores to or loads from.
LEMMA WordsInside ==
  ASSUME NEW cl \in Class, NEW w \in begin(cl) .. end(cl) - 1
  PROVE  w \in Word
BY ArrayBounds

LEMMA StoreKeeps ==
  ASSUME ArrayInv, NEW t \in Thread, PushStore(t)
  PROVE  ArrayInv'
<1>1. Types BY DEF ArrayInv
<1>2. At(t, "push", "access") /\ Goto(t, "push", "commit")
      /\ UNCHANGED <<current, mine, on, abi, cs, reg>>
  BY DEF PushStore, Runs, At
<1> DEFINE c == on[t]
           w == reg[t].after
<1>3. /\ c \in Cpu /\ reg[t].cpu = c /\ t \in abi /\ cs[t] = "push"
      /\ reg[t].val \in mine[t] /\ reg[t].val \in Item \cup {None}
      /\ reg[t].before = w /\ w = current[<<c, reg[t].cl>>]
      /\ w < end(reg[t].cl)
  BY <1>2, AtAccess, Steps
<1>4. w \in begin(reg[t].cl) .. end(reg[t].cl) - 1 /\ reg[t].cl \in Class
  <2>1. /\ reg[t].cl \in Class /\ w \in Int
        /\ begin(reg[t].cl) <= w /\ w <= end(reg[t].cl)
        /\ begin(reg[t].cl) \in Nat /\ end(reg[t].cl) \in Nat
    BY <1>2, AtAccess, Steps
  <2> HIDE DEF w
  <2> QED BY <1>3, <2>1
<1>5. w \in Word BY <1>4, WordsInside
<1>6. data' = [data EXCEPT ![c][w] = reg[t].val] BY <1>3 DEF PushStore
<1> HIDE DEF c, w
<1>7. /\ data' \in [Cpu -> [Word -> Item \cup {None}]]
      /\ \A d \in Cpu : d # c => data'[d] = data[d]
      /\ data'[c][w] = reg[t].val
  BY <1>1, <1>3, <1>5, <1>6 DEF Types
<1>8. /\ \A u \in Thread : u # t => pc'[u] = pc[u]
      /\ pc' \in [Thread -> (Call \X Where) \cup {Idle}]
      /\ \A o \in Call, step \in Where : At(t, o, step)' <=> o = "push" /\ step = "commit"
  BY <1>1, <1>2, Moves, Steps
<1>9. Types' BY <1>1, <1>2, <1>7, <1>8 DEF Types
<1>10. \A cl : begin(cl)' = begin(cl) /\ end(cl)' = end(cl) BY DEF begin, end
<1>11. TopsInside' BY <1>2, <1>10 DEF ArrayInv, TopsInside
<1>15. ItemsBelow'
  <2>1. reg[t].val \in Item BY <1>1, <1>3 DEF Types
  <2>2. \A d \in Cpu, v \in Word : data'[d][v] = data[d][v] \/ data'[d][v] \in Item
    BY <1>1, <1>3, <1>5, <1>6, <2>1 DEF Types
  <2> SUFFICES ASSUME NEW d \in Cpu, NEW cl \in Class,
                      NEW v \in begin(cl) .. current[<<d, cl>>] - 1
               PROVE  data'[d][v] \in Item
    BY <1>2, <1>10 DEF ItemsBelow
  <2>3. v \in begin(cl) .. end(cl) - 1
    BY <1>1, ArrayBounds DEF ArrayInv, TopsInside, Types
  <2>4. v \in Word BY <2>3, WordsInside
  <2>5. data[d][v] \in Item BY DEF ArrayInv, ItemsBelow
  <2> QED BY <2>2, <2>4, <2>5
<1>12. c # None BY <1>3, ArrayAssumption
<1>13. CallInv(t)' BY <1>2, <1>3, <1>8, <1>12, Steps DEF CallInv, c
<1>14. LoadedInv(t)'
  BY <1>2, <1>3, <1>7, <1>8, <1>10, Steps DEF LoadedInv, c, w
<1> QED BY <1>2, <1>7, <1>8, <1>9, <1>11, <1>12, <1>13, <1>14, <1>15, WritingStep DEF c

LEMMA LoadKeeps ==
  ASSUME ArrayInv, NEW t \in Thread, PopLoad(t)
  PROVE  ArrayInv'
<1>1. Types BY DEF ArrayInv
<1>2. At(t, "pop", "access") /\ Goto(t, "pop", "commit")
      /\ UNCHANGED <<current, data, mine, on, abi, cs>>
  BY DEF PopLoad, Runs, At
<1> DEFINE c == on[t]
           w == reg[t].after
<1>3. /\ c \in Cpu /\ reg[t].cpu = c /\ t \in abi /\ cs[t] = "pop"
      /\ reg[t].before = w /\ w = current[<<c, reg[t].cl>>]
      /\ begin(reg[t].cl) < w
  BY <1>2, AtAccess, Steps
<1>4. w - 1 \in begin(reg[t].cl) .. end(reg[t].cl) - 1 /\ reg[t].cl \in Class
  <2>1. /\ reg[t].cl \in Class /\ w \in Int
        /\ begin(reg[t].cl) <= w /\ w <= end(reg[t].cl)
        /\ begin(reg[t].cl) \in Nat /\ end(reg[t].cl) \in Nat
    BY <1>2, AtAccess, Steps
  <2> HIDE DEF w
  <2> QED BY <1>3, <2>1
<1>5. w - 1 \in Word BY <1>4, WordsInside
<1> DEFINE v == data[c][w - 1]
<1>6. reg' = [reg EXCEPT ![t].val = v] BY <1>3 DEF PopLoad
<1> HIDE DEF c, w
<1>7. v \in Item \cup {None} BY <1>1, <1>3, <1>5 DEF Types
<1>8. /\ reg' \in [Thread -> [cl : Class, val : Item \cup {None},
                              cpu : Cpu \cup {None}, before : Int, after : Int]]
      /\ \A u \in Thread : u # t => reg'[u] = reg[u]
      /\ reg'[t].val = v /\ reg'[t].cl = reg[t].cl /\ reg'[t].cpu = reg[t].cpu
      /\ reg'[t].before = reg[t].before /\ reg'[t].after = w
  <2> HIDE DEF v
  <2> QED BY <1>1, <1>6, <1>7 DEF Types, w
<1>9. /\ \A u \in Thread : u # t => pc'[u] = pc[u]
      /\ pc' \in [Thread -> (Call \X Where) \cup {Idle}]
      /\ \A o \in Call, step \in Where : At(t, o, step)' <=> o = "pop" /\ step = "commit"
  BY <1>1, <1>2, Moves, Steps
<1>10. Types' BY <1>1, <1>2, <1>8, <1>9 DEF Types
<1>11. \A cl : begin(cl)' = begin(cl) /\ end(cl)' = end(cl) BY DEF begin, end
<1>12. OneThreadPerCpu' BY <1>2 DEF ArrayInv, OneThreadPerCpu
<1>13. c # None BY <1>3, ArrayAssumption
<1>14. CallInv(t)' BY <1>2, <1>3, <1>9, <1>13, Steps DEF CallInv, c
<1>15. LoadedInv(t)'
  BY <1>2, <1>3, <1>8, <1>9, <1>11, Steps DEF LoadedInv, c
<1> QED BY <1>2, <1>8, <1>9, <1>10, <1>12, <1>14, <1>15, QuietStep

LEMMA CommitKeeps ==
  ASSUME ArrayInv, NEW t \in Thread, PushCommit(t) \/ PopCommit(t)
  PROVE  ArrayInv'
<1>1. Types BY DEF ArrayInv
<1> DEFINE c == on[t]
           w == reg[t].after
           k == reg[t].cl
<1>2. PICK op \in Call, top \in Int :
        /\ At(t, op, "commit") /\ SetCurrent(t, op, top)
        /\ begin(k) <= top /\ top <= end(k)
        /\ op = "push" => top = w + 1
        /\ op = "pop" => top = w - 1
  <2>1. CASE PushCommit(t)
    <3>1. At(t, "push", "commit") BY <2>1 DEF PushCommit, SetCurrent, Runs, At
    <3>2. /\ w \in Int /\ begin(k) <= w /\ w < end(k)
          /\ begin(k) \in Nat /\ end(k) \in Nat
      BY <3>1, AtAccess, Steps
    <3> HIDE DEF w, k
    <3>3. w + 1 \in Int /\ begin(k) <= w + 1 /\ w + 1 <= end(k) BY <3>2
    <3> QED BY <2>1, <3>1, <3>3, Steps DEF PushCommit, w
  <2>2. CASE PopCommit(t)
    <3>1. At(t, "pop", "commit") BY <2>2 DEF PopCommit, SetCurrent, Runs, At
    <3>2. /\ w \in Int /\ begin(k) < w /\ w <= end(k)
          /\ begin(k) \in Nat /\ end(k) \in Nat
      BY <3>1, AtAccess, Steps
    <3> HIDE DEF w, k
    <3>3. w - 1 \in Int /\ begin(k) <= w - 1 /\ w - 1 <= end(k) BY <3>2
    <3> QED BY <2>2, <3>1, <3>3, Steps DEF PopCommit, w
  <2> QED BY <2>1, <2>2
<1>3. /\ c \in Cpu /\ reg[t].cpu = c /\ t \in abi /\ cs[t] = op /\ k \in Class
      /\ op = "push" => reg[t].val \in mine[t]
      /\ w = current[<<c, k>>] /\ w \in Int /\ begin(k) \in Nat
      /\ op = "pop" => begin(k) < w
  BY <1>2, AtAccess
<1>4. /\ current' = [current EXCEPT ![<<c, k>>] = top]
      /\ reg' = [reg EXCEPT ![t].after = top] /\ Goto(t, op, "after")
      /\ UNCHANGED <<data, mine, on, abi, cs>>
  BY <1>2, <1>3 DEF SetCurrent
<1>5. /\ op = "push" => data[c][w] \in Item
      /\ op = "pop" => reg[t].val \in Item
  <2>1. op = "push" => data[c][w] = reg[t].val
    BY <1>2 DEF ArrayInv, LoadedInv
  <2>2. mine[t] \subseteq Item BY <1>1 DEF Types
  <2>3. op = "pop" => data[c][w - 1] = reg[t].val
    BY <1>2 DEF ArrayInv, LoadedInv
  <2> HIDE DEF c, k, w
  <2>4. op = "pop" => w - 1 \in begin(k) .. current[<<c, k>>] - 1 BY <1>3
  <2>5. op = "pop" => data[c][w - 1] \in Item
    BY <1>3, <2>4 DEF ArrayInv, ItemsBelow
  <2> QED BY <1>3, <2>1, <2>2, <2>3, <2>5
<1> HIDE DEF c, k, w
<1>6. /\ current' \in [Cpu \X Class -> Int] /\ current'[<<c, k>>] = top
      /\ \A d \in Cpu, cl \in Class :
           d # c \/ cl # k => current'[<<d, cl>>] = current[<<d, cl>>]
  BY <1>1, <1>3, <1>4 DEF Types
<1>7. /\ reg' \in [Thread -> [cl : Class, val : Item \cup {None},
                              cpu : Cpu \cup {None}, before : Int, after : Int]]
      /\ \A u \in Thread : u # t => reg'[u] = reg[u]
      /\ reg'[t].val = reg[t].val
  BY <1>1, <1>4 DEF Types
<1>8. /\ \A u \in Thread : u # t => pc'[u] = pc[u]
      /\ pc' \in [Thread -> (Call \X Where) \cup {Idle}]
      /\ \A o \in Call, step \in Where : At(t, o, step)' <=> o = op /\ step = "after"
  BY <1>1, <1>4, Moves, Steps
<1>9. Types' BY <1>1, <1>4, <1>6, <1>7, <1>8 DEF Types
<1>10. \A cl : begin(cl)' = begin(cl) /\ end(cl)' = end(cl) BY DEF begin, end
<1>11. TopsInside'
  <2> SUFFICES ASSUME NEW d \in Cpu, NEW cl \in Class
               PROVE  begin(cl) <= current'[<<d, cl>>] /\ current'[<<d, cl>>] <= end(cl)
    BY <1>10 DEF TopsInside
  <2>1. CASE d = c /\ cl = k BY <1>2, <1>6, <2>1
  <2>2. CASE d # c \/ cl # k BY <1>6, <2>2 DEF ArrayInv, TopsInside
  <2> QED BY <2>1, <2>2
<1>12. ItemsBelow'
  <2> SUFFICES ASSUME NEW d \in Cpu, NEW cl \in Class,
                      NEW v \in begin(cl) .. current'[<<d, cl>>] - 1
               PROVE  data[d][v] \in Item
    BY <1>4, <1>10 DEF ItemsBelow
  <2>1. CASE d = c /\ cl = k
    <3>1. v \in begin(k) .. top - 1 BY <1>6, <2>1
    <3>2. CASE op = "push" /\ v = w BY <1>5, <2>1, <3>2
    <3>3. CASE ~ (op = "push" /\ v = w)
      <4>0. v \in Int BY <1>3, <3>1
      <4>1. op = "push" => v \in begin(k) .. current[<<c, k>>] - 1
        BY <1>2, <1>3, <3>1, <3>3, <4>0
      <4>2. op = "pop" => v \in begin(k) .. current[<<c, k>>] - 1
        BY <1>2, <1>3, <3>1, <4>0
      <4>3. v \in begin(k) .. current[<<c, k>>] - 1 BY <4>1, <4>2 DEF Call
      <4> QED BY <1>3, <2>1, <4>3 DEF ArrayInv, ItemsBelow
    <3> QED BY <3>2, <3>3
  <2>2. CASE d # c \/ cl # k
    <3>1. v \in begin(cl) .. current[<<d, cl>>] - 1 BY <1>6, <2>2
    <3> QED BY <3>1 DEF ArrayInv, ItemsBelow
  <2> QED BY <2>1, <2>2
<1>13. c # None BY <1>3, ArrayAssumption
<1>14. CallInv(t)' BY <1>3, <1>4, <1>5, <1>7, <1>8, Steps DEF CallInv
<1>15. LoadedInv(t)' BY <1>8, Steps DEF LoadedInv
<1> QED BY <1>4, <1>6, <1>7, <1>8, <1>9, <1>11, <1>12, <1>13, <1>14, <1>15,
           WritingStep DEF c

LEMMA ReturnKeeps ==
  ASSUME ArrayInv, NEW t \in Thread, PushReturn(t) \/ PopReturn(t)
  PROVE  ArrayInv'
<1>1. Types BY DEF ArrayInv
<1>2. PICK op \in Call : Return(t, op) BY Steps DEF PushReturn, PopReturn
<1>3. /\ mine' = [mine EXCEPT ![t] = Owned(t)] /\ pc' = [pc EXCEPT ![t] = Idle]
      /\ reg' = [reg EXCEPT ![t] = NoReg] /\ UNCHANGED <<current, data, on, abi, cs>>
      /\ At(t, op, "after")
  BY <1>2 DEF Return, Runs, At
<1>4. Owned(t) \subseteq Item
  <2>1. mine[t] \subseteq Item BY <1>1 DEF Types
  <2>2. op = "pop" /\ Moved(t) => reg[t].val \in Item
    BY <1>3 DEF ArrayInv, CallInv
  <2> QED BY <1>3, <2>1, <2>2 DEF Owned, At, Call
<1>5. 0 \in Class BY ArraysFit DEF Class
<1>6. Types'
  <2>1. NoReg \in [cl : Class, val : Item \cup {None}, cpu : Cpu \cup {None},
                   before : Int, after : Int]
    BY <1>5 DEF NoReg
  <2> QED BY <1>1, <1>3, <1>4, <2>1 DEF Types
<1>7. \A u \in Thread : u # t => pc'[u] = pc[u] /\ reg'[u] = reg[u] /\ mine'[u] = mine[u]
  BY <1>1, <1>3 DEF Types
<1>8. \A o \in Call : \A step : ~ At(t, o, step)'
  BY <1>1, <1>3 DEF At, Types, Idle, Call
<1>9. CallInv(t)' /\ LoadedInv(t)' BY <1>8, Steps DEF CallInv, LoadedInv
<1>10. OneThreadPerCpu' BY <1>3 DEF ArrayInv, OneThreadPerCpu
<1> QED BY <1>3, <1>6, <1>7, <1>9, <1>10, QuietStep

\* Every step of the threads and of the kernel keeps the invariant.
LEMMA NextArrayInv ==
  ASSUME ArrayInv, [Next]_vars
  PROVE  ArrayInv'
<1>1. CASE Next
  <2>1. PICK t \in Thread :
          \/ Preempt(t) \/ \E c \in Cpu : Resume(t, c)
          \/ \E cl \in Class : CallPop(t, cl) \/ \E v \in Item : CallPush(t, cl, v)
          \/ \E op \in Call :
               Register(t, op) \/ Prepare(t, op) \/ LoadCpu(t, op) \/ LoadCurrent(t, op)
          \/ PushBound(t) \/ PopBound(t) \/ PushStore(t) \/ PopLoad(t)
          \/ PushCommit(t) \/ PopCommit(t) \/ PushReturn(t) \/ PopReturn(t)
    BY <1>1 DEF Next, Call
  <2> QED BY <2>1, PreemptKeeps, ResumeKeeps, CallKeeps, BeginKeeps, LoadCpuKeeps,
             LoadCurrentKeeps, BoundKeeps, StoreKeeps, LoadKeeps, CommitKeeps,
             ReturnKeeps
<1>2. CASE UNCHANGED vars
  <2>1. Types' /\ TopsInside' /\ ItemsBelow' /\ OneThreadPerCpu'
    BY <1>2 DEF vars, ArrayInv, Types, TopsInside, ItemsBelow, OneThreadPerCpu,
                begin, end, initial_capacity
  <2>2. \A t \in Thread : CallInv(t)' /\ LoadedInv(t)'
    BY <1>2, OthersKeep DEF vars, ArrayInv
  <2> QED BY <2>1, <2>2 DEF ArrayInv
<1> QED BY <1>1, <1>2

\* Every reachable state satisfies the invariant: a thread that is about to store
\* or to commit runs on the CPU whose arrays it changes, with the top it has read.
THEOREM ArrayInvariant == Spec => []ArrayInv
<1>1. Init => ArrayInv BY InitArrayInv
<1>2. ArrayInv /\ [Next]_vars => ArrayInv' BY NextArrayInv
<1> QED BY <1>1, <1>2, PTL DEF Spec

-----------------------------------------------------------------------------
(***************************************************************************)
(* Every step is a step of PerCpuStacks, or none.                          *)
(***************************************************************************)
Stacks ==
  [x \in Cpu \X Class |->
     [i \in 1 .. current[x] - begin(x[2]) |-> data[x[1]][begin(x[2]) + i - 1]]]

Mine == [t \in Thread |-> Owned(t)]

\* The stack of a CPU and a class.
StackOf(c, cl) ==
  [i \in 1 .. current[<<c, cl>>] - begin(cl) |-> data[c][begin(cl) + i - 1]]

LEMMA StacksAre ==
  /\ Stacks = [x \in Cpu \X Class |-> StackOf(x[1], x[2])]
  /\ \A c \in Cpu, cl \in Class : Stacks[<<c, cl>>] = StackOf(c, cl)
<1>1. \A x \in Cpu \X Class : x = <<x[1], x[2]>> OBVIOUS
<1> QED BY <1>1 DEF Stacks, StackOf

LEMMA StackIsSeq ==
  ASSUME ArrayInv, NEW c \in Cpu, NEW cl \in Class
  PROVE  /\ StackOf(c, cl) \in Seq(Item)
         /\ Len(StackOf(c, cl)) = current[<<c, cl>>] - begin(cl)
         /\ current[<<c, cl>>] \in Int
         /\ begin(cl) \in Nat /\ end(cl) = begin(cl) + initial_capacity
         /\ initial_capacity \in Nat
         /\ begin(cl) <= current[<<c, cl>>] /\ current[<<c, cl>>] <= end(cl)
<1> DEFINE n == current[<<c, cl>>] - begin(cl)
<1>1. current[<<c, cl>>] \in Int BY DEF ArrayInv, Types
<1>2. /\ begin(cl) \in Nat /\ end(cl) = begin(cl) + initial_capacity
      /\ begin(cl) <= current[<<c, cl>>] /\ current[<<c, cl>>] <= end(cl)
      /\ initial_capacity \in Nat
  BY ArrayBounds, ArraysFit DEF ArrayInv, TopsInside
<1>3. n \in Nat BY <1>1, <1>2
<1>4. \A i \in 1 .. n : data[c][begin(cl) + i - 1] \in Item
  <2> TAKE i \in 1 .. n
  <2>1. begin(cl) + i - 1 \in begin(cl) .. current[<<c, cl>>] - 1 BY <1>1, <1>2
  <2> QED BY <2>1 DEF ArrayInv, ItemsBelow
<1>5. StackOf(c, cl) \in [1 .. n -> Item] BY <1>4 DEF StackOf
<1>6. StackOf(c, cl) \in Seq(Item) BY <1>3, <1>5, SeqDef
<1>7. DOMAIN StackOf(c, cl) = 1 .. n BY DEF StackOf
<1>8. Len(StackOf(c, cl)) = n BY <1>3, <1>6, <1>7, LenProperties
<1> QED BY <1>1, <1>2, <1>6, <1>8

\* The stacks are the same if the arrays are.
LEMMA SameStacks ==
  ASSUME UNCHANGED <<current, data>>
  PROVE  Stacks' = Stacks
BY DEF Stacks, begin, initial_capacity

\* A thread that is not about to return owns what it has.
LEMMA OwnedElsewhere ==
  ASSUME NEW t \in Thread, ~ At(t, "push", "after"), ~ At(t, "pop", "after")
  PROVE  Owned(t) = mine[t]
BY DEF Owned, At

\* A step inside a call, up to its commit.
LEMMA InsideMaps ==
  ASSUME ArrayInv, NEW t \in Thread, NEW op \in Call,
         NEW was \in Where \ {"after"}, NEW to \in Where,
         At(t, op, was), Goto(t, op, to), UNCHANGED <<mine, on>>,
         to = "after" => reg'[t].after = reg'[t].before,
         \A u \in Thread : u # t => reg'[u] = reg[u],
         Stacks' = Stacks
  PROVE  Stacks' = Stacks /\ Mine' = Mine /\ on' = on
<1>1. Types BY DEF ArrayInv
<1>2. \A u \in Thread : u # t => pc'[u] = pc[u] BY <1>1, Moves
<1>3. pc[t] = <<op, was>> /\ pc'[t] = <<op, to>> BY <1>1 DEF At, Goto, Types
<1>4. Owned(t) = mine[t] BY <1>3 DEF Owned
<1>5. Owned(t)' = mine[t] BY <1>3 DEF Owned, Moved
<1>6. \A u \in Thread : u # t => Owned(u)' = Owned(u)
  BY <1>2 DEF Owned, Moved
<1> QED BY <1>4, <1>5, <1>6 DEF Mine

\* The kernel's steps only move threads.
LEMMA ScheduleMaps ==
  ASSUME ArrayInv, NEW t \in Thread, Preempt(t) \/ \E c \in Cpu : Resume(t, c)
  PROVE  /\ Stacks' = Stacks /\ Mine' = Mine
         /\ on' \in [Thread -> Cpu \cup {None}]
<1>1. Types BY DEF ArrayInv
<1>2. UNCHANGED <<current, data, mine, reg>> BY DEF Preempt, Resume
<1>3. on' \in [Thread -> Cpu \cup {None}] BY <1>1 DEF Preempt, Resume, Types
<1>4. \A u \in Thread : u # t => pc'[u] = pc[u] BY <1>1 DEF Preempt, Resume, Types
<1>5. pc'[t] = pc[t] \/ (InSection(t) /\ pc'[t] = <<pc[t][1], "prepare">>)
  BY <1>1 DEF Preempt, Resume, Types
<1>6. Owned(t)' = Owned(t) BY <1>2, <1>5 DEF Owned, Moved, InSection
<1>7. \A u \in Thread : u # t => Owned(u)' = Owned(u) BY <1>2, <1>4 DEF Owned, Moved
<1> QED BY <1>2, <1>3, <1>6, <1>7, SameStacks DEF Mine

LEMMA AppendIs ==
  ASSUME NEW S, NEW s \in Seq(S), NEW v \in S, NEW n \in Nat, Len(s) = n
  PROVE  Append(s, v) = [i \in 1 .. n + 1 |-> IF i <= n THEN s[i] ELSE v]
<1> DEFINE a == Append(s, v)
           f == [i \in 1 .. n + 1 |-> IF i <= n THEN s[i] ELSE v]
<1>1. /\ a \in Seq(S) /\ Len(a) = n + 1
      /\ \A i \in 1 .. n : a[i] = s[i]
      /\ a[n + 1] = v
  BY AppendProperties
<1> HIDE DEF a
<1>2. \A i \in 1 .. n + 1 : a[i] = IF i <= n THEN s[i] ELSE v
  <2> TAKE i \in 1 .. n + 1
  <2>1. CASE i <= n
    <3>1. i \in 1 .. n BY <2>1
    <3> QED BY <1>1, <2>1, <3>1
  <2>2. CASE i = n + 1
    <3>1. ~ (i <= n) BY <2>2
    <3> QED BY <1>1, <2>2, <3>1
  <2> QED BY <2>1, <2>2
<1>3. a = [i \in 1 .. n + 1 |-> a[i]] BY <1>1, LenProperties
<1>4. a = f BY <1>2, <1>3
<1> QED BY <1>4 DEF a

LEMMA FrontIs ==
  ASSUME NEW S, NEW s \in Seq(S), NEW n \in Nat, n > 0, Len(s) = n
  PROVE  SubSeq(s, 1, n - 1) = [i \in 1 .. n - 1 |-> s[i]]
<1> DEFINE a == SubSeq(s, 1, n - 1)
<1>1. \A i \in 1 .. n - 1 : s[i] \in S BY ElementOfSeq
<1>2. /\ a \in Seq(S) /\ Len(a) = n - 1
      /\ \A i \in 1 .. n - 1 : a[i] = s[i]
  BY <1>1, SubSeqProperties
<1> HIDE DEF a
<1>3. a = [i \in 1 .. n - 1 |-> a[i]] BY <1>2, LenProperties
<1>4. a = [i \in 1 .. n - 1 |-> s[i]] BY <1>2, <1>3
<1> QED BY <1>4 DEF a

\* The item is written behind the top of its array, and in no other.
LEMMA StoreMaps ==
  ASSUME ArrayInv, NEW t \in Thread, PushStore(t)
  PROVE  Stacks' = Stacks
<1>1. Types BY DEF ArrayInv
<1> DEFINE c == on[t]
           w == reg[t].after
           k == reg[t].cl
<1>2. At(t, "push", "access") BY DEF PushStore, Runs, At
<1>3. /\ c \in Cpu /\ reg[t].cpu = c /\ k \in Class /\ w \in Int
      /\ w = current[<<c, k>>] /\ begin(k) <= w /\ w < end(k)
      /\ begin(k) \in Nat /\ end(k) \in Nat
  BY <1>2, AtAccess, Steps
<1>4. current' = current /\ data' = [data EXCEPT ![c][w] = reg[t].val]
  BY <1>3 DEF PushStore
<1> HIDE DEF c, w, k
<1>5. w \in begin(k) .. end(k) - 1 BY <1>3
<1>6. \A d \in Cpu, v \in Word : d # c \/ v # w => data'[d][v] = data[d][v]
  BY <1>1, <1>3, <1>4 DEF Types
<1>7. \A cl : begin(cl)' = begin(cl) BY DEF begin, initial_capacity
<1>8. ASSUME NEW d \in Cpu, NEW cl \in Class PROVE StackOf(d, cl)' = StackOf(d, cl)
  <2>1. \A i \in 1 .. current[<<d, cl>>] - begin(cl) :
          data'[d][begin(cl) + i - 1] = data[d][begin(cl) + i - 1]
    <3> TAKE i \in 1 .. current[<<d, cl>>] - begin(cl)
    <3> DEFINE v == begin(cl) + i - 1
    <3>1. /\ current[<<d, cl>>] \in Int /\ current[<<d, cl>>] <= end(cl)
          /\ begin(cl) \in Nat /\ end(cl) \in Nat
      BY <1>1, ArrayBounds DEF ArrayInv, TopsInside, Types
    <3>2. v \in begin(cl) .. end(cl) - 1 /\ v < current[<<d, cl>>] BY <3>1
    <3>3. v \in Word BY <3>2, WordsInside
    <3> HIDE DEF v
    <3>4. ~ (d = c /\ v = w)
      <4> SUFFICES ASSUME d = c, v = w PROVE FALSE OBVIOUS
      <4>1. cl = k BY <1>3, <1>5, <3>2, ArraysApart
      <4> QED BY <1>3, <3>2, <4>1
    <3>5. data'[d][v] = data[d][v] BY <1>6, <3>3, <3>4
    <3> QED BY <3>5 DEF v
  <2> QED BY <1>4, <1>7, <2>1 DEF StackOf
<1>9. /\ Stacks = [x \in Cpu \X Class |-> StackOf(x[1], x[2])]
      /\ Stacks' = [x \in Cpu \X Class |-> StackOf(x[1], x[2])']
  <2>1. Class' = Class BY DEF Class
  <2>2. \A x \in Cpu \X Class : x = <<x[1], x[2]>> OBVIOUS
  <2> QED BY <2>1, <2>2 DEF Stacks, StackOf
<1> QED BY <1>8, <1>9

\* The commit of a push puts its item on the stack of the CPU the thread runs
\* on, ...
LEMMA PushMaps ==
  ASSUME ArrayInv, NEW t \in Thread, PushCommit(t)
  PROVE  LET x == <<on[t], reg[t].cl>>
             v == reg[t].val
         IN  /\ on[t] # None /\ v \in Mine[t] /\ Len(Stacks[x]) < initial_capacity
             /\ v \in Item
             /\ Stacks' = [Stacks EXCEPT ![x] = Append(@, v)]
             /\ Mine' = [Mine EXCEPT ![t] = @ \ {v}]
             /\ on' = on
<1>1. Types BY DEF ArrayInv
<1> DEFINE c == on[t]
           w == reg[t].after
           k == reg[t].cl
           v == reg[t].val
           x == <<c, k>>
           s == StackOf(c, k)
           n == current[x] - begin(k)
<1>2. At(t, "push", "commit") BY DEF PushCommit, SetCurrent, Runs, At
<1>3. /\ c \in Cpu /\ reg[t].cpu = c /\ k \in Class /\ w \in Int
      /\ w = current[<<c, k>>] /\ begin(k) <= w /\ w < end(k)
      /\ begin(k) \in Nat /\ end(k) \in Nat
      /\ reg[t].before = w /\ v \in mine[t]
  BY <1>2, AtAccess, Steps
<1>4. v \in Item BY <1>1, <1>3 DEF Types
<1>5. /\ current' = [current EXCEPT ![x] = w + 1] /\ data' = data
      /\ reg' = [reg EXCEPT ![t].after = w + 1] /\ Goto(t, "push", "after")
      /\ UNCHANGED <<mine, on>>
  BY <1>3 DEF PushCommit, SetCurrent
<1>6. data[c][w] = v BY <1>2 DEF ArrayInv, LoadedInv
<1>7. /\ s \in Seq(Item) /\ Len(s) = n /\ end(k) = begin(k) + initial_capacity
      /\ initial_capacity \in Nat
  BY <1>3, StackIsSeq
<1>8. Stacks[x] = s BY <1>3, StacksAre
<1>9. Mine[t] = mine[t] BY <1>2, OwnedElsewhere DEF Mine, At
<1>10. Len(s) < initial_capacity
  <2> HIDE DEF s, w, k
  <2> QED BY <1>3, <1>7
<1> HIDE DEF s, w, k, c, v
<1>11. n \in Nat /\ current'[x] - begin(k) = n + 1
  <2>1. current'[x] = w + 1 BY <1>1, <1>3, <1>5 DEF Types
  <2> QED BY <1>3, <2>1
<1>12. Append(s, v) = [i \in 1 .. n + 1 |-> data[c][begin(k) + i - 1]]
  <2>1. Append(s, v) = [i \in 1 .. n + 1 |-> IF i <= n THEN s[i] ELSE v]
    BY <1>4, <1>7, <1>11, AppendIs
  <2>2. \A i \in 1 .. n + 1 :
          data[c][begin(k) + i - 1] = IF i <= n THEN s[i] ELSE v
    <3> TAKE i \in 1 .. n + 1
    <3>1. CASE i <= n
      <4>1. i \in 1 .. n BY <1>11, <3>1
      <4> QED BY <3>1, <4>1 DEF s, StackOf
    <3>2. CASE i = n + 1
      <4>1. begin(k) + i - 1 = w /\ ~ (i <= n) BY <1>3, <1>11, <3>2
      <4> QED BY <1>6, <4>1
    <3> QED BY <1>11, <3>1, <3>2
  <2> QED BY <2>1, <2>2
<1>13. \A cl : begin(cl)' = begin(cl) BY DEF begin, initial_capacity
<1>14. \A y \in Cpu \X Class :
         [i \in 1 .. current'[y] - begin(y[2]) |-> data'[y[1]][begin(y[2]) + i - 1]] =
           IF y = x THEN Append(s, v) ELSE Stacks[y]
  <2> TAKE y \in Cpu \X Class
  <2>1. CASE y = x
    <3>1. y[1] = c /\ y[2] = k BY <2>1
    <3> QED BY <1>5, <1>11, <1>12, <2>1, <3>1
  <2>2. CASE y # x
    <3>1. current'[y] = current[y] BY <1>1, <1>5, <2>2 DEF Types
    <3> QED BY <1>5, <2>2, <3>1 DEF Stacks
  <2> QED BY <2>1, <2>2
<1>15. x \in Cpu \X Class /\ Stacks \in [Cpu \X Class -> {Stacks[y] : y \in Cpu \X Class}]
  BY <1>3 DEF Stacks
<1>16. Stacks' = [Stacks EXCEPT ![x] = Append(@, v)]
  <2>1. Class' = Class BY DEF Class
  <2>2. Stacks' = [y \in Cpu \X Class |->
          [i \in 1 .. current'[y] - begin(y[2]) |-> data'[y[1]][begin(y[2]) + i - 1]]]
    BY <1>13, <2>1 DEF Stacks
  <2>3. Stacks' = [y \in Cpu \X Class |-> IF y = x THEN Append(s, v) ELSE Stacks[y]]
    BY <1>14, <2>2
  <2> QED BY <1>8, <1>15, <2>3
<1>17. Mine' = [Mine EXCEPT ![t] = @ \ {v}]
  <2>1. /\ \A u \in Thread : u # t => pc'[u] = pc[u] /\ reg'[u] = reg[u]
        /\ pc'[t] = <<"push", "after">>
        /\ reg'[t].val = reg[t].val /\ reg'[t].after = w + 1
        /\ reg'[t].before = reg[t].before
    BY <1>1, <1>5 DEF Types, Goto
  <2>2. \A u \in Thread : u # t => Owned(u)' = Owned(u)
    BY <1>5, <2>1 DEF Owned, Moved
  <2>3. Moved(t)'
    <3>1. w + 1 # w BY <1>3
    <3> QED BY <1>3, <2>1, <3>1 DEF Moved
  <2>4. Owned(t)' = mine[t] \ {v} BY <1>5, <2>1, <2>3 DEF Owned, v
  <2> QED BY <1>9, <2>2, <2>4 DEF Mine
<1>18. c # None BY <1>3, ArrayAssumption
<1> QED BY <1>3, <1>4, <1>5, <1>8, <1>9, <1>10, <1>16, <1>17, <1>18 DEF c, k, v

\* ... and that of a pop takes the item on top of it.
LEMMA PopMaps ==
  ASSUME ArrayInv, NEW t \in Thread, PopCommit(t)
  PROVE  LET x == <<on[t], reg[t].cl>>
             n == Len(Stacks[x])
         IN  /\ on[t] # None /\ n > 0
             /\ Stacks' = [Stacks EXCEPT ![x] = SubSeq(@, 1, n - 1)]
             /\ Mine' = [Mine EXCEPT ![t] = @ \cup {Stacks[x][n]}]
             /\ on' = on
<1>1. Types BY DEF ArrayInv
<1> DEFINE c == on[t]
           w == reg[t].after
           k == reg[t].cl
           v == reg[t].val
           x == <<c, k>>
           s == StackOf(c, k)
           n == current[x] - begin(k)
<1>2. At(t, "pop", "commit") BY DEF PopCommit, SetCurrent, Runs, At
<1>3. /\ c \in Cpu /\ reg[t].cpu = c /\ k \in Class /\ w \in Int
      /\ w = current[<<c, k>>] /\ begin(k) < w
      /\ begin(k) \in Nat /\ reg[t].before = w
  BY <1>2, AtAccess, Steps
<1>4. /\ current' = [current EXCEPT ![x] = w - 1] /\ data' = data
      /\ reg' = [reg EXCEPT ![t].after = w - 1] /\ Goto(t, "pop", "after")
      /\ UNCHANGED <<mine, on>>
  BY <1>3 DEF PopCommit, SetCurrent
<1>5. data[c][w - 1] = v BY <1>2 DEF ArrayInv, LoadedInv
<1>6. s \in Seq(Item) /\ Len(s) = n BY <1>3, StackIsSeq
<1>7. Stacks[x] = s BY <1>3, StacksAre
<1>8. Mine[t] = mine[t] BY <1>2, OwnedElsewhere DEF Mine, At
<1> HIDE DEF s, w, k, c, v
<1>9. n \in Nat /\ n > 0 /\ current'[x] - begin(k) = n - 1
  <2>1. current'[x] = w - 1 BY <1>1, <1>3, <1>4 DEF Types
  <2> QED BY <1>3, <2>1
<1>10. s[n] = v
  <2>1. n \in 1 .. n /\ begin(k) + n - 1 = w - 1 BY <1>3, <1>9
  <2> QED BY <1>5, <2>1 DEF s, StackOf
<1>11. SubSeq(s, 1, n - 1) = [i \in 1 .. n - 1 |-> data[c][begin(k) + i - 1]]
  <2>1. SubSeq(s, 1, n - 1) = [i \in 1 .. n - 1 |-> s[i]]
    BY <1>6, <1>9, FrontIs
  <2>2. \A i \in 1 .. n - 1 : s[i] = data[c][begin(k) + i - 1]
    <3> TAKE i \in 1 .. n - 1
    <3>1. i \in 1 .. n BY <1>9
    <3> QED BY <3>1 DEF s, StackOf
  <2> QED BY <2>1, <2>2
<1>12. \A cl : begin(cl)' = begin(cl) BY DEF begin, initial_capacity
<1>13. \A y \in Cpu \X Class :
         [i \in 1 .. current'[y] - begin(y[2]) |-> data'[y[1]][begin(y[2]) + i - 1]] =
           IF y = x THEN SubSeq(s, 1, n - 1) ELSE Stacks[y]
  <2> TAKE y \in Cpu \X Class
  <2>1. CASE y = x
    <3>1. y[1] = c /\ y[2] = k BY <2>1
    <3> QED BY <1>4, <1>9, <1>11, <2>1, <3>1
  <2>2. CASE y # x
    <3>1. current'[y] = current[y] BY <1>1, <1>4, <2>2 DEF Types
    <3> QED BY <1>4, <2>2, <3>1 DEF Stacks
  <2> QED BY <2>1, <2>2
<1>14. x \in Cpu \X Class /\ Stacks \in [Cpu \X Class -> {Stacks[y] : y \in Cpu \X Class}]
  BY <1>3 DEF Stacks
<1>15. Stacks' = [Stacks EXCEPT ![x] = SubSeq(@, 1, n - 1)]
  <2>1. Class' = Class BY DEF Class
  <2>2. Stacks' = [y \in Cpu \X Class |->
          [i \in 1 .. current'[y] - begin(y[2]) |-> data'[y[1]][begin(y[2]) + i - 1]]]
    BY <1>12, <2>1 DEF Stacks
  <2>3. Stacks' = [y \in Cpu \X Class |-> IF y = x THEN SubSeq(s, 1, n - 1) ELSE Stacks[y]]
    BY <1>13, <2>2
  <2> QED BY <1>7, <1>14, <2>3
<1>16. Mine' = [Mine EXCEPT ![t] = @ \cup {v}]
  <2>1. /\ \A u \in Thread : u # t => pc'[u] = pc[u] /\ reg'[u] = reg[u]
        /\ pc'[t] = <<"pop", "after">>
        /\ reg'[t].val = reg[t].val /\ reg'[t].after = w - 1
        /\ reg'[t].before = reg[t].before
    BY <1>1, <1>4 DEF Types, Goto
  <2>2. \A u \in Thread : u # t => Owned(u)' = Owned(u)
    BY <1>4, <2>1 DEF Owned, Moved
  <2>3. Moved(t)'
    <3>1. w - 1 # w BY <1>3
    <3> QED BY <1>3, <2>1, <3>1 DEF Moved
  <2>4. Owned(t)' = mine[t] \cup {v} BY <1>4, <2>1, <2>3 DEF Owned, v
  <2> QED BY <1>8, <2>2, <2>4 DEF Mine
<1>17. c # None BY <1>3, ArrayAssumption
<1>18. Len(Stacks[x]) = n /\ Stacks[x][n] = v BY <1>6, <1>7, <1>10
<1> HIDE DEF n, x
<1>19. /\ c # None /\ Len(Stacks[x]) > 0
       /\ Stacks' = [Stacks EXCEPT ![x] = SubSeq(@, 1, Len(Stacks[x]) - 1)]
       /\ Mine' = [Mine EXCEPT ![t] = @ \cup {Stacks[x][Len(Stacks[x])]}]
       /\ on' = on
  BY <1>4, <1>9, <1>15, <1>16, <1>17, <1>18
<1> QED BY <1>19 DEF c, k, x

LEMMA ReturnMaps ==
  ASSUME ArrayInv, NEW t \in Thread, PushReturn(t) \/ PopReturn(t)
  PROVE  Stacks' = Stacks /\ Mine' = Mine /\ on' = on
<1>1. Types BY DEF ArrayInv
<1>2. /\ mine' = [mine EXCEPT ![t] = Owned(t)] /\ pc' = [pc EXCEPT ![t] = Idle]
      /\ reg' = [reg EXCEPT ![t] = NoReg] /\ UNCHANGED <<current, data, on>>
  BY DEF PushReturn, PopReturn, Return
<1>3. Owned(t)' = Owned(t)
  <2>1. pc'[t] = Idle /\ mine'[t] = Owned(t) BY <1>1, <1>2 DEF Types
  <2>2. Owned(t)' = mine'[t] BY <2>1 DEF Owned, Idle
  <2> QED BY <2>1, <2>2
<1>4. \A u \in Thread : u # t => Owned(u)' = Owned(u)
  BY <1>1, <1>2 DEF Types, Owned, Moved
<1> QED BY <1>2, <1>3, <1>4, SameStacks DEF Mine

\* A call begins.
LEMMA CallMaps ==
  ASSUME ArrayInv, NEW t \in Thread, NEW cl \in Class,
         CallPop(t, cl) \/ \E v \in Item : CallPush(t, cl, v)
  PROVE  Stacks' = Stacks /\ Mine' = Mine /\ on' = on
<1>1. Types BY DEF ArrayInv
<1>2. /\ pc[t] = Idle /\ UNCHANGED <<current, data, mine, on>>
      /\ \E op \in Call : pc'[t] = <<op, "register">>
      /\ \A u \in Thread : u # t => pc'[u] = pc[u] /\ reg'[u] = reg[u]
  BY <1>1, Steps DEF CallPop, CallPush, Goto, Types
<1>3. Owned(t)' = Owned(t) BY <1>2 DEF Owned, Idle
<1>4. \A u \in Thread : u # t => Owned(u)' = Owned(u) BY <1>2 DEF Owned, Moved
<1> QED BY <1>2, <1>3, <1>4, SameStacks DEF Mine

\* Up to its commit a call changes nothing: it loads, ...
LEMMA LoadMaps ==
  ASSUME ArrayInv, NEW t \in Thread, NEW op \in Call,
         Register(t, op) \/ Prepare(t, op) \/ LoadCpu(t, op) \/ LoadCurrent(t, op)
  PROVE  Stacks' = Stacks /\ Mine' = Mine /\ on' = on
<1>1. Types BY DEF ArrayInv
<1>2. /\ UNCHANGED <<current, data, mine, on>>
      /\ \A u \in Thread : u # t => reg'[u] = reg[u]
  BY <1>1 DEF Register, Prepare, LoadCpu, LoadCurrent, Types
<1>3. Stacks' = Stacks BY <1>2, SameStacks
<1>4. CASE Register(t, op)
  <2>1. At(t, op, "register") /\ Goto(t, op, "prepare") BY <1>4 DEF Register, Runs, At
  <2>2. "register" \in Where \ {"after"} /\ "prepare" \in Where /\ "prepare" # "after"
    BY DEF Where
  <2> QED BY <1>2, <1>3, <2>1, <2>2, InsideMaps
<1>5. CASE Prepare(t, op)
  <2>1. At(t, op, "prepare") /\ Goto(t, op, "cpu") BY <1>5 DEF Prepare, Runs, At
  <2>2. "prepare" \in Where \ {"after"} /\ "cpu" \in Where /\ "cpu" # "after"
    BY DEF Where
  <2> QED BY <1>2, <1>3, <2>1, <2>2, InsideMaps
<1>6. CASE LoadCpu(t, op)
  <2>1. At(t, op, "cpu") /\ Goto(t, op, "current") BY <1>6 DEF LoadCpu, Runs, At
  <2>2. "cpu" \in Where \ {"after"} /\ "current" \in Where /\ "current" # "after"
    BY DEF Where
  <2> QED BY <1>2, <1>3, <2>1, <2>2, InsideMaps
<1>7. CASE LoadCurrent(t, op)
  <2>1. At(t, op, "current") /\ Goto(t, op, "bound") BY <1>7 DEF LoadCurrent, Runs, At
  <2>2. "current" \in Where \ {"after"} /\ "bound" \in Where /\ "bound" # "after"
    BY DEF Where
  <2> QED BY <1>2, <1>3, <2>1, <2>2, InsideMaps
<1> QED BY <1>4, <1>5, <1>6, <1>7

\* ... compares the top with the bound of its array (a call that finds it there
\* returns with the top it has read), ...
LEMMA BoundMaps ==
  ASSUME ArrayInv, NEW t \in Thread, PushBound(t) \/ PopBound(t)
  PROVE  Stacks' = Stacks /\ Mine' = Mine /\ on' = on
<1>1. Types BY DEF ArrayInv
<1>2. UNCHANGED <<current, data, mine, on, reg>> BY DEF PushBound, PopBound
<1>3. Stacks' = Stacks BY <1>2, SameStacks
<1>4. PICK op \in Call, to \in {"after", "access"} :
        At(t, op, "bound") /\ Goto(t, op, to)
  BY DEF PushBound, PopBound, Runs, At, Call
<1>5. reg'[t].after = reg'[t].before
  <2>1. reg[t].before = reg[t].after BY <1>4 DEF ArrayInv, LoadedInv
  <2> QED BY <1>2, <2>1
<1>6. "bound" \in Where \ {"after"} /\ to \in Where BY DEF Where
<1> QED BY <1>2, <1>3, <1>4, <1>5, <1>6, InsideMaps

\* ... and writes into the free word, or reads the item.
LEMMA AccessMaps ==
  ASSUME ArrayInv, NEW t \in Thread, PushStore(t) \/ PopLoad(t)
  PROVE  Stacks' = Stacks /\ Mine' = Mine /\ on' = on
<1>1. Types BY DEF ArrayInv
<1>2. /\ UNCHANGED <<mine, on>>
      /\ \A u \in Thread : u # t => reg'[u] = reg[u]
  BY <1>1 DEF PushStore, PopLoad, Types
<1>3. Stacks' = Stacks
  <2>1. CASE PushStore(t) BY <2>1, StoreMaps
  <2>2. CASE PopLoad(t) BY <2>2, SameStacks DEF PopLoad
  <2> QED BY <2>1, <2>2
<1>4. PICK op \in Call : At(t, op, "access") /\ Goto(t, op, "commit")
  BY DEF PushStore, PopLoad, Runs, At, Call
<1>5. "access" \in Where \ {"after"} /\ "commit" \in Where /\ "commit" # "after"
  BY DEF Where
<1> QED BY <1>2, <1>3, <1>4, <1>5, InsideMaps

\* push and pop of a per-CPU array take effect at their commit, on the stack of
\* the CPU their thread runs on, whatever the kernel does before: "A race-free
\* per cpu array data structure" (collections/concurrent.rs).
THEOREM StacksAreImplemented == Spec => ImplementsStacks
<1>1. Init => Abstract!Init
  <2> SUFFICES ASSUME Init
               PROVE  /\ Stacks = [x \in Cpu \X Class |-> <<>>]
                      /\ Mine \in [Thread -> SUBSET Item]
                      /\ on = [t \in Thread |-> None]
    BY DEF Abstract!Init, Stacks, Mine
  <2>1. ArrayInv BY InitArrayInv
  <2>2. \A c \in Cpu, cl \in Class : StackOf(c, cl) = <<>>
    <3> TAKE c \in Cpu, cl \in Class
    <3>1. current[<<c, cl>>] = begin(cl) BY DEF Init
    <3>2. StackOf(c, cl) \in Seq(Item) /\ Len(StackOf(c, cl)) = 0
      BY <2>1, <3>1, StackIsSeq
    <3> QED BY <3>2, EmptySeq
  <2>3. Stacks = [x \in Cpu \X Class |-> <<>>]
    <3>1. \A x \in Cpu \X Class : StackOf(x[1], x[2]) = <<>> BY <2>2
    <3> QED BY <3>1, StacksAre
  <2>4. \A t \in Thread : Owned(t) = mine[t]
    BY OwnedElsewhere DEF Init, At, Idle
  <2>5. Mine \in [Thread -> SUBSET Item] BY <2>1, <2>4 DEF Mine, ArrayInv, Types
  <2> QED BY <2>3, <2>5 DEF Init
<1>2. ArrayInv /\ [Next]_vars => [Abstract!Next]_Abstract!vars
  <2> SUFFICES ASSUME ArrayInv, [Next]_vars
               PROVE  \/ /\ Stacks' = Stacks /\ Mine' = Mine
                         /\ on' \in [Thread -> Cpu \cup {None}]
                      \/ \E t \in Thread, cl \in Class :
                           LET x == <<on[t], cl>>
                               n == Len(Stacks[x])
                           IN  /\ on[t] # None /\ n > 0
                               /\ Stacks' = [Stacks EXCEPT ![x] = SubSeq(@, 1, n - 1)]
                               /\ Mine' = [Mine EXCEPT ![t] = @ \cup {Stacks[x][n]}]
                               /\ on' = on
                      \/ \E t \in Thread, cl \in Class, v \in Item :
                           LET x == <<on[t], cl>>
                           IN  /\ on[t] # None /\ v \in Mine[t]
                               /\ Len(Stacks[x]) < initial_capacity
                               /\ Stacks' = [Stacks EXCEPT ![x] = Append(@, v)]
                               /\ Mine' = [Mine EXCEPT ![t] = @ \ {v}]
                               /\ on' = on
    BY DEF Abstract!Next, Abstract!vars, Abstract!Schedule, Abstract!Push,
           Abstract!Pop, Stacks, Mine
  <2>0. on \in [Thread -> Cpu \cup {None}] BY DEF ArrayInv, Types
  <2>1. CASE UNCHANGED vars
    BY <2>0, <2>1, SameStacks DEF vars, Mine, Owned, Moved
  <2>2. CASE Next
    <3>1. PICK t \in Thread :
            \/ Preempt(t) \/ \E c \in Cpu : Resume(t, c)
            \/ \E cl \in Class : CallPop(t, cl) \/ \E v \in Item : CallPush(t, cl, v)
            \/ \E op \in Call :
                 Register(t, op) \/ Prepare(t, op) \/ LoadCpu(t, op) \/ LoadCurrent(t, op)
            \/ PushBound(t) \/ PopBound(t) \/ PushStore(t) \/ PopLoad(t)
            \/ PushCommit(t) \/ PopCommit(t) \/ PushReturn(t) \/ PopReturn(t)
      BY <2>2 DEF Next, Call
    <3>2. CASE Preempt(t) \/ \E c \in Cpu : Resume(t, c)
      BY <3>2, ScheduleMaps
    <3>3. CASE \E cl \in Class : CallPop(t, cl) \/ \E v \in Item : CallPush(t, cl, v)
      BY <2>0, <3>3, CallMaps
    <3>4. CASE \E op \in Call :
                 Register(t, op) \/ Prepare(t, op) \/ LoadCpu(t, op) \/ LoadCurrent(t, op)
      BY <2>0, <3>4, LoadMaps
    <3>5. CASE PushBound(t) \/ PopBound(t)
      BY <2>0, <3>5, BoundMaps
    <3>6. CASE PushStore(t) \/ PopLoad(t)
      BY <2>0, <3>6, AccessMaps
    <3>7. CASE PushCommit(t)
      <4>1. reg[t].cl \in Class BY DEF ArrayInv, Types
      <4> QED BY <3>7, <4>1, PushMaps
    <3>8. CASE PopCommit(t)
      <4>1. reg[t].cl \in Class BY DEF ArrayInv, Types
      <4> QED BY <3>8, <4>1, PopMaps
    <3>9. CASE PushReturn(t) \/ PopReturn(t)
      BY <2>0, <3>9, ReturnMaps
    <3> QED BY <3>1, <3>2, <3>3, <3>4, <3>5, <3>6, <3>7, <3>8, <3>9
  <2> QED BY <2>1, <2>2
<1> QED BY <1>1, <1>2, ArrayInvariant, PTL DEF ImplementsStacks, Abstract!Spec, Spec
-----------------------------------------------------------------------------
(***************************************************************************)
(* Second part: the thread cache.                                          *)
(***************************************************************************)
\* The ends of the sections exist: the recursion of init reaches the last class.
LEMMA HeadIs ==
  /\ head[0] = 2 /\ \A cl \in 0 .. Len(PageObjects) : head[cl] \in Nat
  /\ \A cl \in Section : head[cl] = head[cl - 1] + 2 * PageObjects[cl]
<1> DEFINE n == Len(PageObjects)
           P == PageObjects
           Rec(f, m) == /\ f \in [0 .. m -> Nat] /\ f[0] = 2
                        /\ \A i \in 1 .. m : f[i] = f[i - 1] + 2 * P[i]
           T == {m \in 0 .. n : \E f : Rec(f, m)}
<1>1. n \in Nat /\ \A i \in 1 .. n : P[i] \in Nat BY MemAssumption
<1>2. 0 \in T
  <2> DEFINE f == [i \in 0 .. 0 |-> 2]
  <2>1. Rec(f, 0) OBVIOUS
  <2> HIDE DEF f, Rec
  <2>2. \E h : Rec(h, 0) BY <2>1
  <2> QED BY <1>1, <2>2
<1>3. ASSUME NEW m \in 0 .. n - 1, m \in T PROVE m + 1 \in T
  <2>1. PICK f : Rec(f, m) BY <1>3
  <2> DEFINE v == f[m] + 2 * P[m + 1]
             g == [i \in 0 .. m + 1 |-> IF i = m + 1 THEN v ELSE f[i]]
  <2>2. m \in Nat /\ m + 1 \in 1 .. n /\ m + 1 \in 0 .. n /\ f[m] \in Nat BY <1>1, <2>1
  <2>3. v \in Nat BY <1>1, <2>2
  <2>4. \A i \in 0 .. m : i # m + 1 /\ i \in 0 .. m + 1 BY <2>2
  <2>5. \A i \in 0 .. m + 1 : i = m + 1 \/ i \in 0 .. m BY <2>2
  <2>6. g \in [0 .. m + 1 -> Nat] BY <2>1, <2>3, <2>5
  <2>7. g[0] = 2 BY <2>1, <2>2, <2>4
  <2>8. \A i \in 0 .. m : g[i] = f[i] BY <2>4
  <2>9. g[m + 1] = v BY <2>2
  <2> HIDE DEF g, v
  <2>10. ASSUME NEW i \in 1 .. m + 1 PROVE g[i] = g[i - 1] + 2 * P[i]
    <3>1. CASE i = m + 1
      <4>1. i - 1 = m /\ m \in 0 .. m BY <2>2, <3>1
      <4> QED BY <2>8, <2>9, <3>1, <4>1 DEF v
    <3>2. CASE i # m + 1
      <4>1. i \in 1 .. m /\ i \in 0 .. m /\ i - 1 \in 0 .. m BY <2>2, <3>2
      <4> QED BY <2>1, <2>8, <4>1
    <3> QED BY <3>1, <3>2
  <2>11. Rec(g, m + 1) BY <2>6, <2>7, <2>10
  <2> HIDE DEF Rec
  <2> QED BY <2>2, <2>11
<1> HIDE DEF T
<1>4. 0 .. n \subseteq T BY <1>1, <1>2, <1>3, Upwards
<1>5. PICK f : Rec(f, n) BY <1>1, <1>4 DEF T
<1>6. f = [cl \in 0 .. n |-> IF cl = 0 THEN 2 ELSE f[cl - 1] + 2 * P[cl]]
  <2>1. \A cl \in 0 .. n : cl = 0 \/ cl \in 1 .. n BY <1>1
  <2>2. \A cl \in 0 .. n : f[cl] = IF cl = 0 THEN 2 ELSE f[cl - 1] + 2 * P[cl]
    BY <1>5, <2>1
  <2> QED BY <1>5, <2>2
<1>7. head = CHOOSE h : h = [cl \in 0 .. n |-> IF cl = 0 THEN 2 ELSE h[cl - 1] + 2 * P[cl]]
  BY DEF head, Base
<1>8. head = [cl \in 0 .. n |-> IF cl = 0 THEN 2 ELSE head[cl - 1] + 2 * P[cl]]
  BY <1>6, <1>7
<1>9. /\ 0 \in 0 .. n /\ \A cl \in 1 .. n : cl \in 0 .. n /\ cl # 0
  BY <1>1
<1>10. head[0] = 2 /\ \A cl \in 1 .. n : head[cl] = head[cl - 1] + 2 * P[cl]
  BY <1>8, <1>9
<1>11. 0 .. n \subseteq {m \in 0 .. n : head[m] \in Nat}
  <2> DEFINE R == {m \in 0 .. n : head[m] \in Nat}
  <2>1. 0 \in R BY <1>9, <1>10
  <2>2. ASSUME NEW m \in 0 .. n - 1, m \in R PROVE m + 1 \in R
    <3>1. m + 1 \in 1 .. n /\ m + 1 \in 0 .. n /\ (m + 1) - 1 = m BY <1>1
    <3>2. head[m + 1] = head[m] + 2 * P[m + 1] BY <1>10, <3>1
    <3> QED BY <1>1, <2>2, <3>1, <3>2
  <2> HIDE DEF R
  <2> QED BY <1>1, <2>1, <2>2, Upwards DEF R
<1> QED BY <1>10, <1>11 DEF Section

\* They never decrease.
LEMMA HeadRises ==
  ASSUME NEW a \in 0 .. Len(PageObjects), NEW b \in a .. Len(PageObjects)
  PROVE  head[a] <= head[b]
<1> DEFINE n == Len(PageObjects)
           T == {j \in 0 .. n - a : head[a] <= head[a + j]}
<1>1. n \in Nat /\ n - a \in Nat /\ \A i \in 1 .. n : PageObjects[i] \in Nat
  BY MemAssumption
<1>2. /\ \A cl \in 0 .. n : head[cl] \in Nat
      /\ \A cl \in 1 .. n : head[cl] = head[cl - 1] + 2 * PageObjects[cl]
  BY HeadIs DEF Section
<1>3. 0 \in T BY <1>1, <1>2
<1>4. ASSUME NEW j \in 0 .. (n - a) - 1, j \in T PROVE j + 1 \in T
  <2>1. /\ j + 1 \in 0 .. n - a /\ a + (j + 1) \in 1 .. n /\ (a + (j + 1)) - 1 = a + j
        /\ a + j \in 0 .. n /\ a \in 0 .. n
    BY <1>1
  <2>2. head[a + (j + 1)] = head[a + j] + 2 * PageObjects[a + (j + 1)] BY <1>2, <2>1
  <2>3. head[a + j] <= head[a + (j + 1)] BY <1>1, <1>2, <2>1, <2>2
  <2>4. head[a] <= head[a + (j + 1)] BY <1>1, <1>2, <1>4, <2>1, <2>2, <2>3
  <2> QED BY <2>1, <2>4
<1> HIDE DEF T
<1>5. 0 .. n - a \subseteq T BY <1>1, <1>3, <1>4, Upwards
<1>6. b - a \in 0 .. n - a /\ a + (b - a) = b BY <1>1
<1> QED BY <1>5, <1>6 DEF T

\* The words of a class.
Stretch(cl) == head[cl - 1] .. head[cl] - 1

\* A section lies in the cache and meets no other.
LEMMA Sections ==
  ASSUME NEW cl \in Section
  PROVE  /\ head[cl - 1] \in Nat /\ head[cl] \in Nat /\ head[cl - 1] <= head[cl]
         /\ head[cl] = head[cl - 1] + 2 * PageObjects[cl] /\ PageObjects[cl] \in Nat \ {0}
         /\ Half(cl) = PageObjects[cl]
         /\ Stretch(cl) \subseteq MemWord
         /\ \A dl \in Section : dl # cl => Stretch(dl) \cap Stretch(cl) = {}
<1> DEFINE n == Len(PageObjects)
<1>1. n \in Nat /\ PageObjects[cl] \in Nat \ {0} /\ cl \in 1 .. n
  BY MemAssumption DEF Section
<1>2. cl - 1 \in 0 .. n /\ cl \in 0 .. n /\ 0 \in 0 .. n /\ n \in 0 .. n BY <1>1
<1>3. /\ head[cl - 1] \in Nat /\ head[cl] \in Nat /\ head[n] \in Nat /\ head[0] = 2
      /\ head[cl] = head[cl - 1] + 2 * PageObjects[cl]
  BY <1>1, <1>2, HeadIs
<1>4. head[0] <= head[cl - 1] /\ head[cl] <= head[n]
  <2>1. cl - 1 \in 0 .. n /\ n \in cl .. n BY <1>1
  <2> QED BY <1>2, <2>1, HeadRises
<1>5. Half(cl) = PageObjects[cl] BY <1>1, <1>3 DEF Half
<1>6. Stretch(cl) \subseteq MemWord BY <1>1, <1>3, <1>4 DEF Stretch, MemWord, Base
<1>7. ASSUME NEW dl \in Section, dl # cl PROVE Stretch(dl) \cap Stretch(cl) = {}
  <2>1. dl \in 1 .. n /\ dl \in 0 .. n /\ dl - 1 \in 0 .. n BY <1>1 DEF Section
  <2>2. head[dl - 1] \in Nat /\ head[dl] \in Nat BY <2>1, HeadIs
  <2>3. CASE dl < cl
    <3>1. cl - 1 \in dl .. n BY <1>1, <2>1, <2>3
    <3>2. head[dl] <= head[cl - 1] BY <2>1, <3>1, HeadRises
    <3> QED BY <1>3, <2>2, <3>2 DEF Stretch
  <2>4. CASE cl < dl
    <3>1. dl - 1 \in cl .. n BY <1>1, <2>1, <2>4
    <3>2. head[cl] <= head[dl - 1] BY <1>2, <3>1, HeadRises
    <3> QED BY <1>3, <2>2, <3>2 DEF Stretch
  <2> QED BY <1>1, <1>7, <2>1, <2>3, <2>4
<1> QED BY <1>1, <1>3, <1>5, <1>6, <1>7

-----------------------------------------------------------------------------
\* What a list of class cl with the top top holds in the words ws.
Content(ws, cl, top) == {ws[w] : w \in head[cl - 1] .. top - 1}

StackOK(ws, cl, top) ==
  /\ top \in head[cl - 1] .. head[cl]
  /\ \A w \in head[cl - 1] .. top - 1 : ws[w] \in MemObject /\ ClassOf[ws[w]] = cl
  /\ \A v, w \in head[cl - 1] .. top - 1 : ws[v] = ws[w] => v = w

Cells == [MemWord -> MemObject \cup {NoObject}]
Lists(l, ws) == [t \in Owner |-> [cl \in Section |-> Content(ws[t], cl, l[t][cl])]]

\* The lists f of the threads A, the zone and the program have every object once.
Parted(A, f, z, h) ==
  /\ z \subseteq MemObject /\ h \subseteq MemObject /\ z \cap h = {}
  /\ \A t \in A, cl \in Section :
       /\ f[t][cl] \subseteq MemObject /\ f[t][cl] \cap z = {} /\ f[t][cl] \cap h = {}
       /\ \A o \in f[t][cl] : ClassOf[o] = cl
  /\ \A t, u \in A : \A cl \in Section : t # u => f[t][cl] \cap f[u][cl] = {}
  /\ \A o \in MemObject : o \in z \/ o \in h \/ \E t \in A : o \in f[t][ClassOf[o]]

\* The inductive invariant.
MemInv ==
  /\ list \in [Owner -> [Section -> Nat]] /\ words \in [Owner -> Cells]
  /\ alive \subseteq Owner
  /\ \A t \in alive, cl \in Section : StackOK(words[t], cl, list[t][cl])
  /\ Parted(alive, Lists(list, words), memZone, memHeld)

\* The lists f and e differ at most in the one of thread t and class cl.
OneDiffers(A, f, e, t, cl) ==
  /\ e[t][cl] \subseteq MemObject /\ \A o \in e[t][cl] : ClassOf[o] = cl
  /\ \A u \in A, dl \in Section : u # t \/ dl # cl => e[u][dl] = f[u][dl]

\* The objects of B, z and h are now those of C, y and g, each in one of the three.
Shared(B, z, h, C, y, g) ==
  /\ C \cup y \cup g = B \cup z \cup h
  /\ C \cap y = {} /\ C \cap g = {} /\ y \cap g = {}

\* Objects move between one list, the zone and the program.
LEMMA Shift ==
  ASSUME NEW A, NEW f, NEW e, NEW z, NEW h, NEW y, NEW g,
         NEW t \in A, NEW cl \in Section, Parted(A, f, z, h),
         OneDiffers(A, f, e, t, cl), Shared(f[t][cl], z, h, e[t][cl], y, g)
  PROVE  Parted(A, e, y, g)
<1> DEFINE C == e[t][cl]
<1>0. /\ C \subseteq MemObject /\ \A o \in C : ClassOf[o] = cl
      /\ C \cup y \cup g = f[t][cl] \cup z \cup h
      /\ C \cap y = {} /\ C \cap g = {} /\ y \cap g = {}
  BY DEF OneDiffers, Shared
<1>1. /\ z \subseteq MemObject /\ h \subseteq MemObject /\ z \cap h = {}
      /\ \A u \in A, dl \in Section :
           /\ f[u][dl] \subseteq MemObject /\ f[u][dl] \cap z = {} /\ f[u][dl] \cap h = {}
           /\ \A o \in f[u][dl] : ClassOf[o] = dl
      /\ \A s, u \in A : \A dl \in Section : s # u => f[s][dl] \cap f[u][dl] = {}
      /\ \A o \in MemObject : o \in z \/ o \in h \/ \E u \in A : o \in f[u][ClassOf[o]]
  BY DEF Parted
<1>2. /\ e[t][cl] = C
      /\ \A u \in A, dl \in Section : u # t \/ dl # cl => e[u][dl] = f[u][dl]
  BY DEF OneDiffers
<1> HIDE DEF C
<1>3. y \subseteq MemObject /\ g \subseteq MemObject BY <1>0, <1>1
<1>4. ASSUME NEW u \in A, NEW dl \in Section
      PROVE  /\ e[u][dl] \subseteq MemObject /\ e[u][dl] \cap y = {} /\ e[u][dl] \cap g = {}
             /\ \A o \in e[u][dl] : ClassOf[o] = dl
  <2>1. CASE u = t /\ dl = cl BY <1>0, <1>2, <2>1
  <2>2. CASE u # t \/ dl # cl
    <3>1. e[u][dl] = f[u][dl] BY <1>2, <2>2
    <3>2. f[u][dl] \cap f[t][cl] = {} BY <1>1, <2>2
    <3>3. f[u][dl] \cap (f[t][cl] \cup z \cup h) = {} BY <1>1, <3>2
    <3> QED BY <1>0, <1>1, <3>1, <3>3
  <2> QED BY <2>1, <2>2
<1>5. ASSUME NEW s \in A, NEW u \in A, NEW dl \in Section, s # u
      PROVE  e[s][dl] \cap e[u][dl] = {}
  <2>1. ASSUME NEW v \in A, v # t PROVE C \cap f[v][cl] = {}
    <3>1. f[v][cl] \cap (f[t][cl] \cup z \cup h) = {} BY <1>1, <2>1
    <3> QED BY <1>0, <3>1
  <2>2. CASE s = t /\ dl = cl BY <1>2, <1>5, <2>1, <2>2
  <2>3. CASE u = t /\ dl = cl BY <1>2, <1>5, <2>1, <2>3
  <2>4. CASE ~ (s = t /\ dl = cl) /\ ~ (u = t /\ dl = cl)
    <3>1. e[s][dl] = f[s][dl] /\ e[u][dl] = f[u][dl] BY <1>2, <2>4
    <3> QED BY <1>1, <1>5, <3>1
  <2> QED BY <2>2, <2>3, <2>4
<1>6. ASSUME NEW o \in MemObject PROVE o \in y \/ o \in g \/ \E u \in A : o \in e[u][ClassOf[o]]
  <2>0. ClassOf[o] \in Section BY MemAssumption DEF Section
  <2>1. CASE o \in f[t][cl] \cup z \cup h
    <3>1. o \in C \/ o \in y \/ o \in g BY <1>0, <2>1
    <3>2. o \in C => ClassOf[o] = cl BY <1>0
    <3> QED BY <1>2, <3>1, <3>2
  <2>2. CASE o \notin f[t][cl] \cup z \cup h
    <3>1. PICK u \in A : o \in f[u][ClassOf[o]] BY <1>1, <2>2
    <3>2. u # t \/ ClassOf[o] # cl BY <2>2, <3>1
    <3> QED BY <1>2, <2>0, <3>1, <3>2
  <2> QED BY <2>1, <2>2
<1> QED BY <1>0, <1>3, <1>4, <1>5, <1>6 DEF Parted

\* A thread gives all its lists to the zone and is gone.
LEMMA Leave ==
  ASSUME NEW A \in SUBSET Owner, NEW f, NEW z, NEW h, Parted(A, f, z, h),
         NEW t \in A, NEW y, y = z \cup UNION {f[t][cl] : cl \in Section}
  PROVE  Parted(A \ {t}, f, y, h)
<1>1. /\ z \subseteq MemObject /\ h \subseteq MemObject /\ z \cap h = {}
      /\ \A u \in A, dl \in Section :
           /\ f[u][dl] \subseteq MemObject /\ f[u][dl] \cap z = {} /\ f[u][dl] \cap h = {}
           /\ \A o \in f[u][dl] : ClassOf[o] = dl
      /\ \A s, u \in A : \A dl \in Section : s # u => f[s][dl] \cap f[u][dl] = {}
      /\ \A o \in MemObject : o \in z \/ o \in h \/ \E u \in A : o \in f[u][ClassOf[o]]
  BY DEF Parted
<1>2. y \subseteq MemObject /\ y \cap h = {} BY <1>1
<1>3. ASSUME NEW u \in A \ {t}, NEW dl \in Section PROVE f[u][dl] \cap y = {}
  <2>1. ASSUME NEW o \in f[u][dl], NEW cl \in Section, o \in f[t][cl] PROVE FALSE
    <3>1. cl = dl BY <1>1, <2>1
    <3> QED BY <1>1, <2>1, <3>1
  <2> QED BY <1>1, <2>1
<1>4. ASSUME NEW o \in MemObject PROVE o \in y \/ o \in h \/ \E u \in A \ {t} : o \in f[u][ClassOf[o]]
  <2>1. ClassOf[o] \in Section BY MemAssumption DEF Section
  <2> QED BY <1>1, <2>1
<1> QED BY <1>1, <1>2, <1>3, <1>4 DEF Parted

\* A step on the list of class cl of thread t.
Touches(t, cl, ws, top) ==
  /\ ws \in Cells /\ StackOK(ws, cl, top)
  /\ \A w \in MemWord \ Stretch(cl) : ws[w] = words[t][w]
  /\ words' = [words EXCEPT ![t] = ws]
  /\ list' = [list EXCEPT ![t] = [list[t] EXCEPT ![cl] = top]]
  /\ alive' = alive

\* Such a step keeps the invariant if the objects only change places.
LEMMA SectionStep ==
  ASSUME MemInv, NEW t \in alive, NEW cl \in Section, NEW ws, NEW top,
         Touches(t, cl, ws, top),
         LET C == Content(ws, cl, top)
             B == Content(words[t], cl, list[t][cl])
         IN  /\ C \cup memZone' \cup memHeld' = B \cup memZone \cup memHeld
             /\ C \cap memZone' = {} /\ C \cap memHeld' = {} /\ memZone' \cap memHeld' = {}
  PROVE  MemInv'
<1> DEFINE f == Lists(list, words)
           C == Content(ws, cl, top)
<1>1. /\ list \in [Owner -> [Section -> Nat]] /\ words \in [Owner -> Cells]
      /\ alive \subseteq Owner
      /\ \A u \in alive, dl \in Section : StackOK(words[u], dl, list[u][dl])
      /\ Parted(alive, f, memZone, memHeld)
  BY DEF MemInv
<1>2. /\ ws \in Cells /\ StackOK(ws, cl, top)
      /\ \A w \in MemWord \ Stretch(cl) : ws[w] = words[t][w]
      /\ words' = [words EXCEPT ![t] = ws]
      /\ list' = [list EXCEPT ![t] = [list[t] EXCEPT ![cl] = top]]
      /\ alive' = alive
  BY DEF Touches
<1>3. /\ words'[t] = ws /\ list'[t][cl] = top /\ t \in Owner
      /\ \A u \in Owner : u # t => words'[u] = words[u] /\ list'[u] = list[u]
      /\ \A dl \in Section : dl # cl => list'[t][dl] = list[t][dl]
      /\ words' \in [Owner -> Cells]
  BY <1>1, <1>2
<1>4. top \in Nat
  <2>1. head[cl - 1] \in Nat /\ head[cl] \in Nat BY Sections
  <2> QED BY <1>2, <2>1 DEF StackOK
<1>5. list' \in [Owner -> [Section -> Nat]] BY <1>1, <1>2, <1>4
<1>6. ASSUME NEW u \in alive, NEW dl \in Section, u # t \/ dl # cl
      PROVE  /\ list'[u][dl] = list[u][dl]
             /\ \A w \in head[dl - 1] .. list[u][dl] - 1 : words'[u][w] = words[u][w]
  <2>1. u \in Owner /\ list'[u][dl] = list[u][dl] BY <1>1, <1>3, <1>6
  <2>2. CASE u # t BY <1>3, <2>1, <2>2
  <2>3. CASE u = t /\ dl # cl
    <3>1. /\ Stretch(dl) \cap Stretch(cl) = {} /\ Stretch(dl) \subseteq MemWord
          /\ head[dl - 1] \in Nat /\ head[dl] \in Nat
      BY <2>3, Sections
    <3>2. list[u][dl] \in head[dl - 1] .. head[dl] BY <1>1 DEF StackOK
    <3>3. head[dl - 1] .. list[u][dl] - 1 \subseteq Stretch(dl) BY <3>1, <3>2 DEF Stretch
    <3>4. \A w \in Stretch(dl) : ws[w] = words[t][w] BY <1>2, <3>1
    <3> QED BY <1>3, <2>1, <2>3, <3>3, <3>4
  <2> QED BY <1>6, <2>1, <2>2, <2>3
<1>7. ASSUME NEW u \in alive, NEW dl \in Section
      PROVE  StackOK(words'[u], dl, list'[u][dl])
  <2>1. CASE u = t /\ dl = cl BY <1>2, <1>3, <2>1
  <2>2. CASE u # t \/ dl # cl
    <3>1. StackOK(words[u], dl, list[u][dl]) BY <1>1
    <3>2. /\ list'[u][dl] = list[u][dl]
          /\ \A w \in head[dl - 1] .. list[u][dl] - 1 : words'[u][w] = words[u][w]
      BY <1>6, <2>2
    <3> QED BY <3>1, <3>2 DEF StackOK
  <2> QED BY <2>1, <2>2
<1>8. ASSUME NEW u \in alive, NEW dl \in Section, u # t \/ dl # cl
      PROVE  Content(words'[u], dl, list'[u][dl]) = Content(words[u], dl, list[u][dl])
  BY <1>6, <1>8 DEF Content
<1> DEFINE e == Lists(list', words')
<1>9. C \subseteq MemObject /\ \A o \in C : ClassOf[o] = cl BY <1>2 DEF StackOK, Content
<1>10. /\ f[t][cl] = Content(words[t], cl, list[t][cl]) /\ e[t][cl] = C
       /\ \A u \in alive, dl \in Section : u # t \/ dl # cl => e[u][dl] = f[u][dl]
  BY <1>1, <1>3, <1>8 DEF Lists
<1> HIDE DEF e, f, C
<1>11. /\ C \cup memZone' \cup memHeld' = f[t][cl] \cup memZone \cup memHeld
       /\ C \cap memZone' = {} /\ C \cap memHeld' = {} /\ memZone' \cap memHeld' = {}
  BY <1>10 DEF C
<1>12. Parted(alive, e, memZone', memHeld')
  <2> DEFINE y == memZone'
             g == memHeld'
  <2>1. Shared(f[t][cl], memZone, memHeld, e[t][cl], y, g) BY <1>10, <1>11 DEF Shared
  <2>2. OneDiffers(alive, f, e, t, cl) BY <1>9, <1>10 DEF OneDiffers
  <2> HIDE DEF y, g
  <2>3. Parted(alive, e, y, g) BY <1>1, <2>1, <2>2, Shift
  <2> QED BY <2>3 DEF y, g
<1> QED BY <1>1, <1>2, <1>3, <1>5, <1>7, <1>12 DEF MemInv, e

-----------------------------------------------------------------------------
\* What the invariant says of one list.
LEMMA OneList ==
  ASSUME MemInv, NEW t \in alive, NEW cl \in Section
  PROVE  LET b == head[cl - 1]
             e == list[t][cl]
             B == Content(words[t], cl, e)
         IN  /\ t \in Owner /\ words[t] \in Cells
             /\ b \in Nat /\ head[cl] \in Nat /\ e \in Nat /\ b <= e /\ e <= head[cl]
             /\ \A w \in b .. e - 1 : words[t][w] \in MemObject /\ ClassOf[words[t][w]] = cl
             /\ \A v, w \in b .. e - 1 : words[t][v] = words[t][w] => v = w
             /\ \A w \in b .. head[cl] - 1 : w \in MemWord /\ w \in Stretch(cl)
             /\ B \subseteq MemObject /\ B \cap memZone = {} /\ B \cap memHeld = {}
             /\ memZone \cap memHeld = {} /\ memZone \subseteq MemObject /\ memHeld \subseteq MemObject
<1>1. /\ list \in [Owner -> [Section -> Nat]] /\ words \in [Owner -> Cells]
      /\ alive \subseteq Owner
      /\ StackOK(words[t], cl, list[t][cl])
      /\ Parted(alive, Lists(list, words), memZone, memHeld)
  BY DEF MemInv
<1>2. Lists(list, words)[t][cl] = Content(words[t], cl, list[t][cl]) BY <1>1 DEF Lists
<1>3. head[cl - 1] \in Nat /\ head[cl] \in Nat /\ Stretch(cl) \subseteq MemWord BY Sections
<1>4. \A w \in head[cl - 1] .. head[cl] - 1 : w \in MemWord /\ w \in Stretch(cl)
  BY <1>3 DEF Stretch
<1>5. list[t][cl] \in Nat /\ head[cl - 1] <= list[t][cl] /\ list[t][cl] <= head[cl]
  BY <1>1, <1>3 DEF StackOK
<1>6. /\ memZone \cap memHeld = {} /\ memZone \subseteq MemObject /\ memHeld \subseteq MemObject
      /\ Content(words[t], cl, list[t][cl]) \cap memZone = {}
      /\ Content(words[t], cl, list[t][cl]) \cap memHeld = {}
  BY <1>1, <1>2 DEF Parted
<1>7. Content(words[t], cl, list[t][cl]) \subseteq MemObject BY <1>1 DEF StackOK, Content
<1> QED BY <1>1, <1>3, <1>4, <1>5, <1>6, <1>7 DEF StackOK

\* allocate from the list
LEMMA PopKeeps ==
  ASSUME MemInv, NEW t \in Owner, NEW cl \in Section, NEW wide \in BOOLEAN,
         Pop(t, cl, wide)
  PROVE  MemInv'
<1> DEFINE b == head[cl - 1]
           e == list[t][cl]
           W == words[t]
           S == Suits(t, cl, wide)
           w == Max(S)
           top == e - 1
           ws == [W EXCEPT ![w] = W[top]]
<1>0. t \in alive /\ S # {} BY DEF Pop
<1>1. /\ t \in Owner /\ W \in Cells
      /\ b \in Nat /\ head[cl] \in Nat /\ e \in Nat /\ b <= e /\ e <= head[cl]
      /\ \A v \in b .. e - 1 : W[v] \in MemObject /\ ClassOf[W[v]] = cl
      /\ \A u, v \in b .. e - 1 : W[u] = W[v] => u = v
      /\ \A v \in b .. head[cl] - 1 : v \in MemWord /\ v \in Stretch(cl)
      /\ Content(W, cl, e) \subseteq MemObject
      /\ Content(W, cl, e) \cap memZone = {} /\ Content(W, cl, e) \cap memHeld = {}
      /\ memZone \cap memHeld = {} /\ memZone \subseteq MemObject /\ memHeld \subseteq MemObject
  BY <1>0, OneList
<1>2. S \subseteq b .. e - 1 BY DEF Suits
<1>3. w \in S
  <2>1. S \in SUBSET Nat /\ IsFiniteSet(b .. e - 1)
    <3>1. b \in Int /\ e - 1 \in Int BY <1>1
    <3>2. IsFiniteSet(b .. e - 1) BY <3>1, FS_Interval
    <3>3. b .. e - 1 \subseteq Nat BY <1>1
    <3> QED BY <1>2, <3>2, <3>3
  <2>2. IsFiniteSet(S) BY <1>2, <2>1, FS_Subset
  <2>3. Max(S) \in S BY <1>0, <2>1, <2>2, Greatest
  <2>4. Max(S) = Max(S) BY DEF Max, Max
  <2> QED BY <2>3, <2>4
<1>4. /\ words' = [words EXCEPT ![t] = ws]
      /\ list' = [list EXCEPT ![t] = [list[t] EXCEPT ![cl] = top]]
      /\ memHeld' = memHeld \cup {W[w]} /\ memZone' = memZone /\ alive' = alive
  <2>1. /\ words' = [words EXCEPT ![t][w] = W[top]]
        /\ list' = [list EXCEPT ![t][cl] = top]
        /\ memHeld' = memHeld \cup {W[w]} /\ memZone' = memZone /\ alive' = alive
    BY DEF Pop
  <2> QED BY <2>1
<1>5. /\ w \in b .. e - 1 /\ top \in b .. e - 1 /\ w \in MemWord /\ w \in Stretch(cl)
      /\ top \in Nat /\ \A v \in b .. top - 1 : v \in b .. e - 1 /\ v # top
      /\ \A v \in b .. e - 1 : v = top \/ v \in b .. top - 1
  <2>1. w \in b .. e - 1 BY <1>2, <1>3
  <2> HIDE DEF w
  <2> QED BY <1>1, <2>1
<1>6. /\ DOMAIN W = MemWord /\ \A v \in b .. e - 1 : v \in MemWord
  BY <1>1 DEF Cells
<1> HIDE DEF S, w, top, b, e, W
<1>7. /\ ws \in Cells /\ \A v \in MemWord \ Stretch(cl) : ws[v] = W[v]
      /\ \A v \in b .. e - 1 : ws[v] = IF v = w THEN W[top] ELSE W[v]
  <2>1. W[top] \in MemObject BY <1>1, <1>5
  <2> QED BY <1>1, <1>5, <1>6, <2>1 DEF Cells
<1> HIDE DEF ws
<1>8. top \in b .. head[cl] BY <1>1, <1>5 DEF top
<1>9. StackOK(ws, cl, top)
  <2>1. \A v \in b .. top - 1 : ws[v] \in MemObject /\ ClassOf[ws[v]] = cl
    BY <1>1, <1>5, <1>7
  <2>2. ASSUME NEW u \in b .. top - 1, NEW v \in b .. top - 1, ws[u] = ws[v] PROVE u = v
    BY <1>1, <1>5, <1>7, <2>2
  <2> QED BY <1>8, <2>1, <2>2 DEF StackOK, b
<1>10. Content(ws, cl, top) = Content(W, cl, e) \ {W[w]}
  <2>1. ASSUME NEW v \in b .. top - 1 PROVE ws[v] \in Content(W, cl, e) /\ ws[v] # W[w]
    <3>1. CASE v = w
      <4>1. ws[v] = W[top] /\ top # w BY <1>5, <1>7, <2>1, <3>1
      <4>2. W[top] # W[w] BY <1>1, <1>5, <4>1
      <4> QED BY <1>5, <4>1, <4>2 DEF Content, b
    <3>2. CASE v # w
      <4>1. ws[v] = W[v] /\ v \in b .. e - 1 BY <1>5, <1>7, <3>2
      <4>2. W[v] # W[w] BY <1>1, <1>5, <3>2, <4>1
      <4> QED BY <4>1, <4>2 DEF Content, b
    <3> QED BY <3>1, <3>2
  <2>2. ASSUME NEW v \in b .. e - 1, W[v] # W[w] PROVE \E u \in b .. top - 1 : ws[u] = W[v]
    <3>1. CASE v = top
      <4>1. w # top BY <2>2, <3>1
      <4>2. w \in b .. top - 1 BY <1>5, <4>1
      <4>3. ws[w] = W[top] BY <1>5, <1>7
      <4> QED BY <3>1, <4>2, <4>3
    <3>2. CASE v # top
      <4>1. v \in b .. top - 1 /\ v # w BY <1>5, <2>2, <3>2
      <4>2. ws[v] = W[v] BY <1>7, <2>2, <4>1
      <4> QED BY <4>1, <4>2
    <3> QED BY <3>1, <3>2
  <2> QED BY <2>1, <2>2 DEF Content, b
<1>11. W[w] \in Content(W, cl, e) BY <1>5 DEF Content, b
<1>12. Touches(t, cl, ws, top) BY <1>4, <1>7, <1>9 DEF Touches, W, ws
<1>13. /\ Content(ws, cl, top) \cup memZone' \cup memHeld' = Content(W, cl, e) \cup memZone \cup memHeld
       /\ Content(ws, cl, top) \cap memZone' = {} /\ Content(ws, cl, top) \cap memHeld' = {}
       /\ memZone' \cap memHeld' = {}
  BY <1>1, <1>4, <1>10, <1>11
<1> QED BY <1>0, <1>12, <1>13, SectionStep DEF W, e

\* deallocate, with room in the section ...
LEMMA PushKeeps ==
  ASSUME MemInv, NEW t \in Owner, NEW o \in MemObject, MemPush(t, o)
  PROVE  MemInv'
<1> DEFINE cl == ClassOf[o]
           b == head[cl - 1]
           e == list[t][cl]
           W == words[t]
           ws == [W EXCEPT ![e] = o]
           top == e + 1
<1>0. t \in alive /\ o \in memHeld /\ cl \in Section /\ e < head[cl]
  BY MemAssumption DEF MemPush, Section
<1> HIDE DEF cl
<1>1. /\ t \in Owner /\ W \in Cells
      /\ b \in Nat /\ head[cl] \in Nat /\ e \in Nat /\ b <= e /\ e <= head[cl]
      /\ \A v \in b .. e - 1 : W[v] \in MemObject /\ ClassOf[W[v]] = cl
      /\ \A u, v \in b .. e - 1 : W[u] = W[v] => u = v
      /\ \A v \in b .. head[cl] - 1 : v \in MemWord /\ v \in Stretch(cl)
      /\ Content(W, cl, e) \subseteq MemObject
      /\ Content(W, cl, e) \cap memZone = {} /\ Content(W, cl, e) \cap memHeld = {}
      /\ memZone \cap memHeld = {} /\ memZone \subseteq MemObject /\ memHeld \subseteq MemObject
  BY <1>0, OneList
<1>4. /\ words' = [words EXCEPT ![t] = ws]
      /\ list' = [list EXCEPT ![t] = [list[t] EXCEPT ![cl] = top]]
      /\ memHeld' = memHeld \ {o} /\ memZone' = memZone /\ alive' = alive
  <2>1. /\ words' = [words EXCEPT ![t][e] = o]
        /\ list' = [list EXCEPT ![t][cl] = top]
        /\ memHeld' = memHeld \ {o} /\ memZone' = memZone /\ alive' = alive
    BY DEF MemPush, cl
  <2> QED BY <2>1
<1>5. /\ e \in b .. head[cl] - 1 /\ top \in b .. head[cl]
      /\ \A v \in b .. top - 1 : v = e \/ v \in b .. e - 1
      /\ \A v \in b .. e - 1 : v # e /\ v \in b .. top - 1
      /\ \A v \in b .. top - 1 : v \in b .. head[cl] - 1
      /\ e \in b .. top - 1
  BY <1>0, <1>1
<1>6. DOMAIN W = MemWord BY <1>1 DEF Cells
<1>7. /\ ws \in Cells /\ \A v \in MemWord \ Stretch(cl) : ws[v] = W[v]
      /\ \A v \in b .. top - 1 : ws[v] = IF v = e THEN o ELSE W[v]
  <2> HIDE DEF W, b, e, top
  <2> QED BY <1>1, <1>5, <1>6 DEF Cells
<1> HIDE DEF ws, W, b, e, top
<1>8. \A v \in b .. e - 1 : W[v] # o
  <2>1. o \notin Content(W, cl, e) BY <1>0, <1>1
  <2> QED BY <2>1 DEF Content, b
<1>9. StackOK(ws, cl, top)
  <2>1. \A v \in b .. top - 1 : ws[v] \in MemObject /\ ClassOf[ws[v]] = cl
    BY <1>0, <1>1, <1>5, <1>7 DEF cl
  <2>2. ASSUME NEW u \in b .. top - 1, NEW v \in b .. top - 1, ws[u] = ws[v] PROVE u = v
    <3>1. u = e \/ u \in b .. e - 1 BY <1>5
    <3>2. v = e \/ v \in b .. e - 1 BY <1>5
    <3> QED BY <1>1, <1>5, <1>7, <1>8, <2>2, <3>1, <3>2
  <2> QED BY <1>5, <2>1, <2>2 DEF StackOK, b
<1>10. Content(ws, cl, top) = Content(W, cl, e) \cup {o}
  <2>1. ASSUME NEW v \in b .. top - 1 PROVE ws[v] \in Content(W, cl, e) \cup {o}
    BY <1>5, <1>7 DEF Content, b
  <2>2. ASSUME NEW v \in b .. e - 1 PROVE \E u \in b .. top - 1 : ws[u] = W[v]
    BY <1>5, <1>7
  <2>3. ws[e] = o BY <1>5, <1>7
  <2> QED BY <1>5, <2>1, <2>2, <2>3 DEF Content, b
<1>12. Touches(t, cl, ws, top) BY <1>4, <1>7, <1>9 DEF Touches, W, ws
<1>13. /\ Content(ws, cl, top) \cup memZone' \cup memHeld' = Content(W, cl, e) \cup memZone \cup memHeld
       /\ Content(ws, cl, top) \cap memZone' = {} /\ Content(ws, cl, top) \cap memHeld' = {}
       /\ memZone' \cap memHeld' = {}
  BY <1>0, <1>1, <1>4, <1>10
<1> QED BY <1>0, <1>12, <1>13, SectionStep DEF W, e

\* ... and of a full section, of which the upper half goes to the zone.
LEMMA PushFullKeeps ==
  ASSUME MemInv, NEW t \in Owner, NEW o \in MemObject, PushFull(t, o)
  PROVE  MemInv'
<1> DEFINE cl == ClassOf[o]
           b == head[cl - 1]
           e == list[t][cl]
           W == words[t]
           p == PageObjects[cl]
           low == e - p
           ws == [W EXCEPT ![low] = o]
           top == low + 1
           up == {W[v] : v \in low .. e - 1}
<1>0. t \in alive /\ o \in memHeld /\ cl \in Section /\ e >= head[cl]
  BY MemAssumption DEF PushFull, Section
<1>1. /\ t \in Owner /\ W \in Cells
      /\ b \in Nat /\ head[cl] \in Nat /\ e \in Nat /\ b <= e /\ e <= head[cl]
      /\ \A v \in b .. e - 1 : W[v] \in MemObject /\ ClassOf[W[v]] = cl
      /\ \A u, v \in b .. e - 1 : W[u] = W[v] => u = v
      /\ \A v \in b .. head[cl] - 1 : v \in MemWord /\ v \in Stretch(cl)
      /\ Content(W, cl, e) \subseteq MemObject
      /\ Content(W, cl, e) \cap memZone = {} /\ Content(W, cl, e) \cap memHeld = {}
      /\ memZone \cap memHeld = {} /\ memZone \subseteq MemObject /\ memHeld \subseteq MemObject
  <2> HIDE DEF cl
  <2> QED BY <1>0, OneList
<1>2. p \in Nat \ {0} /\ head[cl] = b + 2 * p /\ Half(cl) = p
  <2> HIDE DEF cl
  <2> QED BY <1>0, Sections
<1>3. e = b + 2 * p /\ low = b + p /\ low \in Nat /\ top = b + p + 1
  <2> HIDE DEF cl, b, e, p
  <2> QED BY <1>0, <1>1, <1>2
<1>4. /\ words' = [words EXCEPT ![t] = ws]
      /\ list' = [list EXCEPT ![t] = [list[t] EXCEPT ![cl] = top]]
      /\ memHeld' = memHeld \ {o} /\ memZone' = memZone \cup up /\ alive' = alive
  <2>1. /\ memZone' = memZone \cup ToSet(get_slice(t, e - Half(cl), e))
        /\ words' = [words EXCEPT ![t][EvictedTo(e, cl) - 1] = o]
        /\ list' = [list EXCEPT ![t][cl] = EvictedTo(e, cl)]
        /\ memHeld' = memHeld \ {o} /\ alive' = alive
    BY DEF PushFull
  <2>2. EvictedTo(e, cl) = top /\ top - 1 = low /\ e - Half(cl) = low
    <3>1. EvictedTo(e, cl) = e - (p - 1) BY <1>2 DEF EvictedTo
    <3> HIDE DEF e, p, cl, b
    <3> QED BY <1>1, <1>2, <1>3, <3>1
  <2>3. ToSet(get_slice(t, low, e)) = up
    <3> DEFINE s == [i \in 1 .. e - low |-> W[low + i - 1]]
    <3>1. get_slice(t, low, e) = s BY DEF get_slice
    <3>2. ToSet(s) = {s[i] : i \in 1 .. e - low} BY DEF ToSet
    <3>3. \A i \in 1 .. e - low : low + i - 1 \in low .. e - 1 /\ s[i] = W[low + i - 1]
      <4> HIDE DEF W
      <4>1. \A i \in 1 .. e - low : s[i] = W[low + i - 1] OBVIOUS
      <4> HIDE DEF e, low, s
      <4> QED BY <1>1, <1>3, <4>1
    <3>4. \A v \in low .. e - 1 : v - low + 1 \in 1 .. e - low /\ low + (v - low + 1) - 1 = v
      <4> HIDE DEF e, low
      <4> QED BY <1>1, <1>3
    <3> HIDE DEF s, e, low, W
    <3>5. \A v \in low .. e - 1 : s[v - low + 1] = W[v] BY <3>3, <3>4
    <3> QED BY <3>1, <3>2, <3>3, <3>4, <3>5
  <2> HIDE DEF cl, e, W, top, low, up
  <2>4. words' = [words EXCEPT ![t] = [words[t] EXCEPT ![low] = o]] BY <2>1, <2>2
  <2>5. list' = [list EXCEPT ![t] = [list[t] EXCEPT ![cl] = top]] BY <2>1, <2>2
  <2>6. memZone' = memZone \cup up BY <2>1, <2>2, <2>3
  <2> QED BY <2>1, <2>4, <2>5, <2>6 DEF W
<1>6. DOMAIN W = MemWord BY <1>1 DEF Cells
<1> HIDE DEF cl, W, b, e, p, up, low, top
<1>5. /\ low \in b .. head[cl] - 1 /\ top \in b .. head[cl]
      /\ \A v \in b .. top - 1 : v = low \/ v \in b .. low - 1
      /\ \A v \in b .. low - 1 : v # low /\ v \in b .. top - 1 /\ v \in b .. e - 1
                                 /\ v \notin low .. e - 1
      /\ \A v \in b .. e - 1 : v \in b .. low - 1 \/ v \in low .. e - 1
      /\ \A v \in low .. e - 1 : v \in b .. e - 1
      /\ low \in b .. top - 1
  BY <1>1, <1>2, <1>3
<1>7. /\ ws \in Cells /\ \A v \in MemWord \ Stretch(cl) : ws[v] = W[v]
      /\ \A v \in b .. top - 1 : ws[v] = IF v = low THEN o ELSE W[v]
  <2>1. low \in Stretch(cl) /\ \A v \in b .. top - 1 : v \in MemWord BY <1>1, <1>2, <1>3, <1>5
  <2> QED BY <1>1, <1>6, <2>1 DEF Cells
<1> HIDE DEF ws
<1>8. \A v \in b .. e - 1 : W[v] # o
  <2>1. o \notin Content(W, cl, e) BY <1>0, <1>1
  <2> QED BY <2>1 DEF Content, b
<1>9. StackOK(ws, cl, top)
  <2>1. \A v \in b .. top - 1 : ws[v] \in MemObject /\ ClassOf[ws[v]] = cl
    BY <1>0, <1>1, <1>5, <1>7 DEF cl
  <2>2. ASSUME NEW u \in b .. top - 1, NEW v \in b .. top - 1, ws[u] = ws[v] PROVE u = v
    <3>1. u = low \/ u \in b .. low - 1 BY <1>5
    <3>2. v = low \/ v \in b .. low - 1 BY <1>5
    <3> QED BY <1>1, <1>5, <1>7, <1>8, <2>2, <3>1, <3>2
  <2> QED BY <1>5, <2>1, <2>2 DEF StackOK, b
<1>10. Content(W, cl, e) = up \cup Content(W, cl, low)
  BY <1>5 DEF Content, b, up
<1>11. up \cap Content(W, cl, low) = {} BY <1>1, <1>5 DEF Content, b, up
<1>14. Content(ws, cl, top) = Content(W, cl, low) \cup {o}
  <2>1. ASSUME NEW v \in b .. top - 1 PROVE ws[v] \in Content(W, cl, low) \cup {o}
    BY <1>5, <1>7 DEF Content, b
  <2>2. ASSUME NEW v \in b .. low - 1 PROVE \E u \in b .. top - 1 : ws[u] = W[v]
    BY <1>5, <1>7
  <2>3. ws[low] = o BY <1>5, <1>7
  <2> QED BY <1>5, <2>1, <2>2, <2>3 DEF Content, b
<1>12. Touches(t, cl, ws, top) BY <1>4, <1>7, <1>9 DEF Touches, W, ws
<1>13. /\ Content(ws, cl, top) \cup memZone' \cup memHeld' = Content(W, cl, e) \cup memZone \cup memHeld
       /\ Content(ws, cl, top) \cap memZone' = {} /\ Content(ws, cl, top) \cap memHeld' = {}
       /\ memZone' \cap memHeld' = {}
  <2>1. o \notin up /\ o \notin memZone BY <1>0, <1>1, <1>10
  <2> QED BY <1>0, <1>1, <1>4, <1>10, <1>11, <1>14, <2>1
<1> QED BY <1>0, <1>12, <1>13, SectionStep DEF W, e

\* The instance has its own copy of Cardinality.
LEMMA CardinalityIs == \A S : Cardinality(S) = Cardinality(S)
BY DEF Cardinality, Cardinality

\* A batch that SetToSeqs enumerates has every object of the set, each once.
LEMMA BatchIs ==
  ASSUME NEW s, IsFiniteSet(s), NEW c \in SetToSeqs(s)
  PROVE  LET n == Cardinality(s)
         IN  /\ n \in Nat /\ \A i \in 1 .. n : c[i] \in s
             /\ \A i, j \in 1 .. n : c[i] = c[j] => i = j
             /\ \A x \in s : \E i \in 1 .. n : c[i] = x
<1> DEFINE n == Cardinality(s)
<1>1. n \in Nat BY FS_CardinalityType
<1>2. c \in [1 .. n -> s] /\ \A i, j \in 1 .. n : i # j => c[i] # c[j]
  BY CardinalityIs DEF SetToSeqs
<1> HIDE DEF n
<1>3. c \in Seq(s) /\ Len(c) = n /\ IsInjective(c) BY <1>1, <1>2 DEF IsInjective
<1>4. Range(c) = s BY <1>3, FullListHasAll DEF n
<1>5. \A x \in s : \E i \in 1 .. n : c[i] = x BY <1>2, <1>4 DEF Range
<1> QED BY <1>1, <1>2, <1>5 DEF n

\* alloc_slowpath: the batch from the zone.
LEMMA RefillKeeps ==
  ASSUME MemInv, NEW t \in Owner, NEW cl \in Section, NEW wide \in BOOLEAN,
         MemRefill(t, cl, wide)
  PROVE  MemInv'
<1> DEFINE b == head[cl - 1]
           e == list[t][cl]
           W == words[t]
           p == PageObjects[cl]
           n == IF Half(cl) <= head[cl] - e THEN Half(cl) ELSE head[cl] - e
           free == {o \in memZone : ClassOf[o] = cl}
           top == e + n - 1
<1>0. t \in alive /\ head[cl] > e BY DEF MemRefill
<1>1. /\ t \in Owner /\ W \in Cells
      /\ b \in Nat /\ head[cl] \in Nat /\ e \in Nat /\ b <= e /\ e <= head[cl]
      /\ \A v \in b .. e - 1 : W[v] \in MemObject /\ ClassOf[W[v]] = cl
      /\ \A u, v \in b .. e - 1 : W[u] = W[v] => u = v
      /\ \A v \in b .. head[cl] - 1 : v \in MemWord /\ v \in Stretch(cl)
      /\ Content(W, cl, e) \subseteq MemObject
      /\ Content(W, cl, e) \cap memZone = {} /\ Content(W, cl, e) \cap memHeld = {}
      /\ memZone \cap memHeld = {} /\ memZone \subseteq MemObject /\ memHeld \subseteq MemObject
  BY <1>0, OneList
<1>2. p \in Nat \ {0} /\ Half(cl) = p BY Sections
<1> DEFINE Stores(s, c) ==
             /\ memZone' = memZone \ s
             /\ words' = [words EXCEPT ![t] =
                            [w \in MemWord |-> IF w \in e .. e + n - 1 THEN c[w - e + 1] ELSE @[w]]]
             /\ list' = [list EXCEPT ![t][cl] = e + n - 1]
             /\ memHeld' = memHeld \cup {c[n]} /\ alive' = alive
<1>20. \E s \in {x \in SUBSET free : Cardinality(x) = n} :
         \E c \in SetToSeqs(s) : Stores(s, c)
  <2>1. /\ \E s \in {x \in SUBSET free : Cardinality(x) = n} : \E c \in SetToSeqs(s) :
             /\ memZone' = memZone \ s
             /\ words' = [words EXCEPT ![t] =
                            [w \in MemWord |-> IF w \in e .. e + n - 1 THEN c[w - e + 1] ELSE @[w]]]
             /\ list' = [list EXCEPT ![t][cl] = e + n - 1]
             /\ memHeld' = memHeld \cup {c[n]}
        /\ UNCHANGED alive
    BY DEF MemRefill
  <2> HIDE DEF n, free, e
  <2> QED BY <2>1
<1>21. PICK s \in {x \in SUBSET free : Cardinality(x) = n} :
         \E c \in SetToSeqs(s) : Stores(s, c)
  <2> HIDE DEF Stores
  <2> QED BY <1>20
<1>3. PICK c \in SetToSeqs(s) : Stores(s, c) BY <1>21
<1> DEFINE ws == [w \in MemWord |-> IF w \in e .. e + n - 1 THEN c[w - e + 1] ELSE W[w]]
<1>4. /\ words' = [words EXCEPT ![t] = ws]
      /\ list' = [list EXCEPT ![t] = [list[t] EXCEPT ![cl] = top]]
      /\ memHeld' = memHeld \cup {c[n]} /\ memZone' = memZone \ s /\ alive' = alive
  BY <1>3
<1>5. n \in Nat \ {0} /\ e + n <= head[cl]
  <2> HIDE DEF e, p
  <2> QED BY <1>0, <1>1, <1>2
<1>6. /\ \A i \in 1 .. n : c[i] \in s
      /\ \A i, j \in 1 .. n : c[i] = c[j] => i = j
      /\ \A x \in s : \E i \in 1 .. n : c[i] = x
  <2>1. IsFiniteSet(s)
    <3>1. s \subseteq MemObject BY <1>1
    <3> QED BY <3>1, FS_Subset, MemAssumption
  <2>2. Cardinality(s) = n BY CardinalityIs
  <2> HIDE DEF n
  <2> QED BY <2>1, <2>2, BatchIs
<1>7. s \subseteq memZone /\ \A x \in s : ClassOf[x] = cl OBVIOUS
<1> HIDE DEF W, b, e, p, n, free, top
<1>8. /\ top \in b .. head[cl] /\ top \in Nat
      /\ \A v \in b .. top - 1 : v \in b .. e - 1 \/ v \in e .. top - 1
      /\ \A v \in b .. e - 1 : v \in b .. top - 1 /\ v \notin e .. e + n - 1
                               /\ v \in b .. head[cl] - 1
      /\ \A v \in e .. top - 1 : v \in b .. top - 1 /\ v \in e .. e + n - 1
                                 /\ v \in b .. head[cl] - 1
                                 /\ v - e + 1 \in 1 .. n /\ v - e + 1 # n
      /\ \A v \in e .. e + n - 1 : v \in b .. head[cl] - 1 /\ v - e + 1 \in 1 .. n
      /\ \A i \in 1 .. n : i # n => e + i - 1 \in e .. top - 1 /\ (e + i - 1) - e + 1 = i
  BY <1>1, <1>5 DEF top
<1>9. /\ ws \in Cells /\ \A v \in MemWord \ Stretch(cl) : ws[v] = W[v]
      /\ \A v \in b .. e - 1 : ws[v] = W[v]
      /\ \A v \in e .. top - 1 : ws[v] = c[v - e + 1]
  <2>1. \A v \in e .. e + n - 1 : c[v - e + 1] \in MemObject BY <1>1, <1>6, <1>7, <1>8
  <2>2. \A v \in MemWord : W[v] \in MemObject \cup {NoObject} BY <1>1 DEF Cells
  <2>3. ws \in Cells BY <2>1, <2>2 DEF Cells
  <2>4. \A v \in MemWord \ Stretch(cl) : v \notin e .. e + n - 1 BY <1>1, <1>8
  <2>5. \A v \in b .. e - 1 : v \in MemWord /\ v \notin e .. e + n - 1 BY <1>1, <1>8
  <2>6. \A v \in e .. top - 1 : v \in MemWord /\ v \in e .. e + n - 1 BY <1>1, <1>8
  <2> QED BY <2>3, <2>4, <2>5, <2>6
<1> HIDE DEF ws
<1> DEFINE C == Content(W, cl, e)
           D == {c[i] : i \in 1 .. n} \ {c[n]}
<1>10. Content(ws, cl, top) = C \cup D
  <2>1. ASSUME NEW v \in b .. top - 1 PROVE ws[v] \in C \cup D
    <3>1. CASE v \in b .. e - 1 BY <1>9, <3>1 DEF Content, b
    <3>2. CASE v \in e .. top - 1
      <4> DEFINE i == v - e + 1
      <4>1. i \in 1 .. n /\ i # n /\ ws[v] = c[i] BY <1>8, <1>9, <3>2
      <4>2. n \in 1 .. n BY <1>5
      <4>3. c[i] # c[n] BY <1>6, <4>1, <4>2
      <4> QED BY <4>1, <4>3
    <3> QED BY <1>8, <3>1, <3>2
  <2>2. ASSUME NEW v \in b .. e - 1 PROVE \E u \in b .. top - 1 : ws[u] = W[v]
    BY <1>8, <1>9
  <2>3. ASSUME NEW i \in 1 .. n, c[i] # c[n] PROVE \E u \in b .. top - 1 : ws[u] = c[i]
    <3>1. i # n BY <2>3
    <3>2. e + i - 1 \in e .. top - 1 /\ (e + i - 1) - e + 1 = i BY <1>8, <3>1
    <3>3. ws[e + i - 1] = c[i] BY <1>9, <3>2
    <3> QED BY <1>8, <3>2, <3>3
  <2>4. Content(ws, cl, top) \subseteq C \cup D BY <2>1 DEF Content, b
  <2>5. C \subseteq Content(ws, cl, top) BY <2>2 DEF Content, b
  <2>6. D \subseteq Content(ws, cl, top) BY <2>3 DEF Content, b
  <2> QED BY <2>4, <2>5, <2>6
<1>11. StackOK(ws, cl, top)
  <2>1. ASSUME NEW v \in b .. top - 1 PROVE ws[v] \in MemObject /\ ClassOf[ws[v]] = cl
    <3>1. CASE v \in b .. e - 1 BY <1>1, <1>9, <3>1
    <3>2. CASE v \in e .. top - 1
      <4>1. ws[v] \in s BY <1>6, <1>8, <1>9, <3>2
      <4> QED BY <1>1, <1>7, <4>1
    <3> QED BY <1>8, <3>1, <3>2
  <2>2. ASSUME NEW u \in b .. top - 1, NEW v \in b .. top - 1, ws[u] = ws[v] PROVE u = v
    <3>1. ASSUME NEW x \in b .. e - 1, NEW y \in e .. top - 1 PROVE ws[x] # ws[y]
      <4>1. ws[x] \in C BY <1>9, <3>1 DEF Content, b
      <4>2. ws[y] \in s BY <1>6, <1>8, <1>9, <3>1
      <4> QED BY <1>1, <1>7, <4>1, <4>2
    <3>2. CASE u \in b .. e - 1 /\ v \in b .. e - 1 BY <1>1, <1>9, <2>2, <3>2
    <3>3. CASE u \in e .. top - 1 /\ v \in e .. top - 1
      <4>1. u - e + 1 = v - e + 1 BY <1>6, <1>8, <1>9, <2>2, <3>3
      <4>2. u \in Int /\ v \in Int /\ e \in Int BY <1>1, <3>3
      <4> QED BY <4>1, <4>2
    <3> QED BY <1>8, <2>2, <3>1, <3>2, <3>3
  <2> QED BY <1>8, <2>1, <2>2 DEF StackOK, b
<1>12. Touches(t, cl, ws, top) BY <1>4, <1>9, <1>11 DEF Touches, W, ws
<1>13. s = D \cup {c[n]} /\ c[n] \in s
  <2>1. n \in 1 .. n BY <1>5
  <2> QED BY <1>6, <2>1
<1> HIDE DEF C, D
<1>14. D \subseteq s /\ c[n] \notin D BY <1>13 DEF D
<1>15. /\ Content(ws, cl, top) \cup memZone' \cup memHeld' = C \cup memZone \cup memHeld
       /\ Content(ws, cl, top) \cap memZone' = {} /\ Content(ws, cl, top) \cap memHeld' = {}
       /\ memZone' \cap memHeld' = {}
  <2>1. C \cap memZone = {} /\ C \cap memHeld = {} BY <1>1 DEF C
  <2> QED BY <1>1, <1>4, <1>7, <1>10, <1>13, <1>14, <2>1
<1> QED BY <1>0, <1>12, <1>15, SectionStep DEF W, e, C

\* free_thread_cache, with cleanup_cache.
LEMMA ExitKeeps ==
  ASSUME MemInv, NEW t \in Owner, Exit(t)
  PROVE  MemInv'
<1> DEFINE f == Lists(list, words)
           A == alive \ {t}
           top == [cl \in Section |-> head[cl - 1]]
<1>1. /\ list \in [Owner -> [Section -> Nat]] /\ words \in [Owner -> Cells]
      /\ alive \subseteq Owner /\ t \in alive
      /\ \A u \in alive, dl \in Section : StackOK(words[u], dl, list[u][dl])
      /\ Parted(alive, f, memZone, memHeld)
  BY DEF MemInv, Exit
<1>2. /\ memZone' = memZone \cup UNION {ToSet(get_slice(t, head[cl - 1], list[t][cl])) : cl \in Section}
      /\ list' = [list EXCEPT ![t] = top] /\ alive' = A /\ words' = words /\ memHeld' = memHeld
  BY DEF Exit, cleanup_cache, Section
<1>3. ASSUME NEW cl \in Section
      PROVE  ToSet(get_slice(t, head[cl - 1], list[t][cl])) = f[t][cl]
  <2> DEFINE b == head[cl - 1]
             e == list[t][cl]
             W == words[t]
             s == [i \in 1 .. e - b |-> W[b + i - 1]]
  <2>1. b \in Nat /\ e \in Nat BY <1>1, <1>3, Sections
  <2>2. ToSet(get_slice(t, b, e)) = {s[i] : i \in 1 .. e - b}
    BY DEF ToSet, get_slice
  <2>3. f[t][cl] = {W[v] : v \in b .. e - 1} BY <1>1, <1>3 DEF Lists, Content
  <2>4. \A i \in 1 .. e - b : s[i] = W[b + i - 1] OBVIOUS
  <2> HIDE DEF b, e, W, s, f
  <2>5. \A i \in 1 .. e - b : b + i - 1 \in b .. e - 1 BY <2>1
  <2>6. \A v \in b .. e - 1 : v - b + 1 \in 1 .. e - b /\ b + (v - b + 1) - 1 = v BY <2>1
  <2>7. \A v \in b .. e - 1 : s[v - b + 1] = W[v] BY <2>4, <2>6
  <2>8. {s[i] : i \in 1 .. e - b} = {W[v] : v \in b .. e - 1} BY <2>4, <2>5, <2>6, <2>7
  <2> QED BY <2>2, <2>3, <2>8 DEF b, e
<1>4. memZone' = memZone \cup UNION {f[t][cl] : cl \in Section} BY <1>2, <1>3
<1>5. list' \in [Owner -> [Section -> Nat]]
  <2>1. top \in [Section -> Nat] BY Sections
  <2> QED BY <1>1, <1>2, <2>1
<1>6. \A u \in A : u \in alive /\ u # t /\ list'[u] = list[u] BY <1>1, <1>2
<1> HIDE DEF f
<1>7. Parted(A, f, memZone', memHeld)
  <2> DEFINE y == memZone'
  <2>1. y = memZone \cup UNION {f[t][cl] : cl \in Section} BY <1>4
  <2> HIDE DEF y
  <2>2. Parted(alive \ {t}, f, y, memHeld) BY <1>1, <2>1, Leave
  <2> QED BY <2>2 DEF y
<1>8. \A u \in A, cl \in Section : Lists(list', words')[u][cl] = f[u][cl]
  BY <1>1, <1>2, <1>6 DEF Lists, f
<1>9. Parted(A, Lists(list', words'), memZone', memHeld)
  <2> DEFINE g == Lists(list', words')
             y == memZone'
  <2>1. \A u \in A, cl \in Section : g[u][cl] = f[u][cl] BY <1>8
  <2>2. Parted(A, f, y, memHeld) BY <1>7
  <2>3. \A o \in MemObject : ClassOf[o] \in Section BY MemAssumption DEF Section
  <2> HIDE DEF g, y
  <2>4. Parted(A, g, y, memHeld) BY <2>1, <2>2, <2>3 DEF Parted
  <2> QED BY <2>4 DEF g, y
<1> QED BY <1>1, <1>2, <1>5, <1>6, <1>9 DEF MemInv

\* init: every list is empty and the zone has all objects.
LEMMA MemStart ==
  ASSUME MemInit
  PROVE  MemInv
<1>1. /\ list = [t \in Owner |-> [cl \in Section |-> head[cl - 1]]]
      /\ words = [t \in Owner |-> [w \in MemWord |-> NoObject]]
      /\ memZone = MemObject /\ memHeld = {} /\ alive = Owner
  BY DEF MemInit, Section
<1>2. \A cl \in Section : head[cl - 1] \in Nat /\ head[cl] \in Nat /\ head[cl - 1] <= head[cl]
  BY Sections
<1>3. list \in [Owner -> [Section -> Nat]] /\ words \in [Owner -> Cells]
  BY <1>1, <1>2 DEF Cells
<1>4. ASSUME NEW t \in Owner, NEW cl \in Section
      PROVE  StackOK(words[t], cl, list[t][cl]) /\ Lists(list, words)[t][cl] = {}
  <2>1. list[t][cl] = head[cl - 1] BY <1>1
  <2>2. head[cl - 1] .. head[cl - 1] - 1 = {} BY <1>2
  <2> QED BY <1>2, <2>1, <2>2 DEF StackOK, Lists, Content
<1>5. Parted(alive, Lists(list, words), memZone, memHeld) BY <1>1, <1>4 DEF Parted
<1> QED BY <1>1, <1>3, <1>4, <1>5 DEF MemInv

\* Every step keeps it.
LEMMA MemStep ==
  ASSUME MemInv, [MemNext]_memVars
  PROVE  MemInv'
<1>1. CASE UNCHANGED memVars BY <1>1 DEF memVars, MemInv
<1>2. ASSUME NEW t \in Owner, Exit(t) PROVE MemInv' BY <1>2, ExitKeeps
<1>3. ASSUME NEW t \in Owner, NEW cl \in Section, NEW wide \in BOOLEAN,
             Pop(t, cl, wide) \/ MemRefill(t, cl, wide)
      PROVE  MemInv'
  <2>1. cl \in Section BY DEF Section
  <2> QED BY <1>3, <2>1, PopKeeps, RefillKeeps
<1>4. ASSUME NEW t \in Owner, NEW o \in MemObject, MemPush(t, o) \/ PushFull(t, o)
      PROVE  MemInv'
  BY <1>4, PushKeeps, PushFullKeeps
<1> QED BY <1>1, <1>2, <1>3, <1>4 DEF MemNext

\* The invariant puts an object in one place: on the list of its class, at one word.
LEMMA OnePlaceFollows ==
  ASSUME MemInv
  PROVE  OnePlace
<1> DEFINE places(o) == {p \in alive \X Section \X MemWord :
                           /\ head[p[2] - 1] <= p[3] /\ p[3] < list[p[1]][p[2]]
                           /\ words[p[1]][p[3]] = o}
<1> SUFFICES ASSUME NEW o \in MemObject
             PROVE  /\ Cardinality(places(o)) + (IF o \in memZone THEN 1 ELSE 0)
                         + (IF o \in memHeld THEN 1 ELSE 0) = 1
                    /\ \A p \in places(o) : p[2] = ClassOf[o]
  BY CardinalityIs DEF OnePlace
<1> DEFINE f == Lists(list, words)
           k == ClassOf[o]
<1>1. /\ alive \subseteq Owner /\ Parted(alive, f, memZone, memHeld)
      /\ \A t \in alive, cl \in Section : StackOK(words[t], cl, list[t][cl])
      /\ \A t \in alive, cl \in Section : f[t][cl] = Content(words[t], cl, list[t][cl])
  BY DEF MemInv, Lists
<1>2. k \in Section BY MemAssumption DEF Section
<1>3. ASSUME NEW p \in places(o)
      PROVE  /\ p = <<p[1], p[2], p[3]>> /\ p[1] \in alive /\ p[2] \in Section
             /\ p[3] \in head[p[2] - 1] .. list[p[1]][p[2]] - 1
             /\ words[p[1]][p[3]] = o /\ o \in f[p[1]][p[2]] /\ p[2] = k
  <2>1. /\ p = <<p[1], p[2], p[3]>> /\ p[1] \in alive /\ p[2] \in Section
        /\ p[3] \in MemWord /\ words[p[1]][p[3]] = o
        /\ head[p[2] - 1] <= p[3] /\ p[3] < list[p[1]][p[2]]
    BY <1>3 DEF Section
  <2>2. /\ head[p[2] - 1] \in Nat /\ list[p[1]][p[2]] \in Nat /\ p[3] \in Int
    BY <1>1, <2>1, Sections DEF MemInv, MemWord
  <2>3. p[3] \in head[p[2] - 1] .. list[p[1]][p[2]] - 1
    <3> DEFINE x == head[p[2] - 1]
               y == list[p[1]][p[2]]
               z == p[3]
    <3>1. x \in Nat /\ y \in Nat /\ z \in Int /\ x <= z /\ z < y BY <2>1, <2>2
    <3> HIDE DEF x, y, z
    <3>2. z \in x .. y - 1 BY <3>1
    <3> QED BY <3>2 DEF x, y, z
  <2>4. o \in f[p[1]][p[2]] BY <1>1, <2>1, <2>3 DEF Content
  <2> QED BY <1>1, <2>1, <2>3, <2>4 DEF Parted
<1>4. ASSUME NEW t \in alive, o \in f[t][k]
      PROVE  \E w \in MemWord : <<t, k, w>> \in places(o)
  <2>1. PICK w \in head[k - 1] .. list[t][k] - 1 : words[t][w] = o
    BY <1>1, <1>2, <1>4 DEF Content
  <2>2. /\ head[k - 1] \in Nat /\ head[k] \in Nat /\ list[t][k] \in Nat
        /\ list[t][k] <= head[k] /\ w \in Stretch(k) /\ Stretch(k) \subseteq MemWord
    <3>1. /\ head[k - 1] \in Nat /\ head[k] \in Nat /\ Stretch(k) \subseteq MemWord
      BY <1>2, Sections
    <3>2. list[t][k] \in head[k - 1] .. head[k] BY <1>1, <1>2 DEF StackOK
    <3> DEFINE x == head[k - 1]
               y == head[k]
               z == list[t][k]
    <3>3. x \in Nat /\ y \in Nat /\ z \in x .. y /\ w \in x .. z - 1 BY <3>1, <3>2
    <3> HIDE DEF x, y, z
    <3>4. z \in Nat /\ z <= y /\ w \in x .. y - 1 BY <3>3
    <3> QED BY <3>1, <3>4 DEF x, y, z, Stretch
  <2>3. head[k - 1] <= w /\ w < list[t][k] BY <2>1, <2>2
  <2>4. k \in Section BY <1>2 DEF Section
  <2> QED BY <2>1, <2>2, <2>3, <2>4
<1>5. CASE o \in memZone \/ o \in memHeld
  <2>1. \A t \in alive : o \notin f[t][k] BY <1>1, <1>2, <1>5 DEF Parted
  <2>2. places(o) = {} BY <1>3, <2>1
  <2>3. ~ (o \in memZone /\ o \in memHeld) BY <1>1 DEF Parted
  <2> HIDE DEF places
  <2>4. Cardinality(places(o)) = 0 BY <2>2, FS_EmptySet
  <2> QED BY <1>3, <1>5, <2>2, <2>3, <2>4
<1>6. CASE o \notin memZone /\ o \notin memHeld
  <2>1. PICK t \in alive : o \in f[t][k] BY <1>1, <1>6 DEF Parted
  <2>2. PICK w \in MemWord : <<t, k, w>> \in places(o) BY <1>4, <2>1
  <2>3. ASSUME NEW p \in places(o) PROVE p = <<t, k, w>>
    <3>1. p = <<p[1], k, p[3]>> /\ p[1] \in alive /\ o \in f[p[1]][k]
          /\ p[3] \in head[k - 1] .. list[p[1]][k] - 1 /\ words[p[1]][p[3]] = o
      BY <1>3, <2>3
    <3>2. p[1] = t BY <1>1, <1>2, <2>1, <3>1 DEF Parted
    <3> DEFINE d == <<t, k, w>>
    <3>3. d \in places(o) BY <2>2
    <3>4. d[3] \in head[d[2] - 1] .. list[d[1]][d[2]] - 1 /\ words[d[1]][d[3]] = o
      <4> HIDE DEF d
      <4> QED BY <1>3, <3>3
    <3>5. w \in head[k - 1] .. list[t][k] - 1 /\ words[t][w] = o BY <3>4
    <3>6. p[3] = w BY <1>1, <1>2, <3>1, <3>2, <3>5 DEF StackOK
    <3> QED BY <3>1, <3>2, <3>6
  <2> HIDE DEF places
  <2>4. places(o) = {<<t, k, w>>} BY <2>2, <2>3
  <2>5. Cardinality(places(o)) = 1 BY <2>4, FS_Singleton
  <2> QED BY <1>3, <1>6, <2>5
<1> QED BY <1>5, <1>6

\* An object of the thread cache (allocate, deallocate and free_thread_cache of
\* thread_mem_cache.rs) is in exactly one place: the zone, the program, or one word of
\* the list of its class in the cache of one thread.
THEOREM CacheObjectsInOnePlace == MemSpec => []OnePlace
<1>1. MemInit => MemInv BY MemStart
<1>2. MemInv /\ [MemNext]_memVars => MemInv' BY MemStep
<1>3. MemInv => OnePlace BY OnePlaceFollows
<1> QED BY <1>1, <1>2, <1>3, PTL DEF MemSpec
-----------------------------------------------------------------------------
(***************************************************************************)
(* Third part: the size classes.                                           *)
(***************************************************************************)
SizeOf(c) == TC_SIZE_CLASSES[c + 1]
FirstOf(c) == IDX_FIRST[c + 1]
SmallOf(c) == SMALL_SIZE_ARRAY[c + 1]

\* A size is less than the next one, and where the run of a class ends in the index
\* array tells its size.
Rises(c) == SizeOf(c) < SizeOf(c + 1)
Low(c) == SizeOf(c) = 8 * (FirstOf(c + 1) - 1)
High(c) == SizeOf(c) = 128 * (FirstOf(c + 1) - 1) - 15360

\* The tables, entry by entry.
LEMMA Tables ==
  ASSUME NEW c \in 0 .. 63
  PROVE  SizeOf(c) \in Nat /\ SizeOf(c) <= 28032 /\ FirstOf(c) \in Nat
<1>1. SizeOf(c) \in Nat /\ SizeOf(c) <= 28032 BY SMT DEF SizeOf, TC_SIZE_CLASSES
<1>2. FirstOf(c) \in Nat BY SMT DEF FirstOf, IDX_FIRST
<1> QED BY <1>1, <1>2

LEMMA TableRises == \A c \in 0 .. 62 : Rises(c)
BY SMT DEF Rises, SizeOf, TC_SIZE_CLASSES

LEMMA TableRuns == (\A c \in 0 .. 37 : Low(c)) /\ (\A c \in 37 .. 62 : High(c))
BY SMT DEF Low, High, SizeOf, FirstOf, TC_SIZE_CLASSES, IDX_FIRST

LEMMA TableEnds ==
  /\ FirstOf(0) = 0 /\ FirstOf(38) = 129 /\ SizeOf(0) = 0 /\ SizeOf(63) = 28032
  /\ Len(TC_SIZE_CLASSES) = 64 /\ Len(SMALL_SIZE_ARRAY) = 10
BY SMT DEF SizeOf, FirstOf, TC_SIZE_CLASSES, IDX_FIRST, SMALL_SIZE_ARRAY

\* Every class fits in its block, and the block in the lists of the backend.
LEMMA Blocks ==
  /\ \A c \in 1 .. 63 : TC_PAGES[c] \in 1 .. 64
  /\ \A c \in 1 .. 63 : SizeOf(c) \in Nat \ {0} /\ SizeOf(c) <= 4096 * TC_PAGES[c]
  /\ \A c \in 1 .. 9 : SmallOf(c) \in 1 .. 2048
<1>1. \A c \in 1 .. 63 : TC_PAGES[c] \in 1 .. 64
  BY SMT DEF TC_PAGES
<1>2. \A c \in 1 .. 63 : SizeOf(c) \in Nat \ {0} /\ SizeOf(c) <= 4096 * TC_PAGES[c]
  BY SMT DEF SizeOf, TC_SIZE_CLASSES, TC_PAGES
<1>3. \A c \in 1 .. 9 : SmallOf(c) \in 1 .. 2048
  BY SMT DEF SmallOf, SMALL_SIZE_ARRAY
<1> QED BY <1>1, <1>2, <1>3, Zenon

\* The sizes rise with the classes.
LEMMA SizesRise ==
  ASSUME NEW c \in 0 .. 63, NEW d \in 0 .. 63, c <= d
  PROVE  SizeOf(c) <= SizeOf(d)
<1> DEFINE T == {j \in 0 .. 63 - c : SizeOf(c) <= SizeOf(c + j)}
<1>1. 0 \in T BY Tables
<1>2. ASSUME NEW j \in 0 .. (63 - c) - 1, j \in T PROVE j + 1 \in T
  <2>1. c + j \in 0 .. 62 /\ (c + j) + 1 = c + (j + 1) /\ j + 1 \in 0 .. 63 - c
        /\ c + j \in 0 .. 63 /\ c + (j + 1) \in 0 .. 63
    OBVIOUS
  <2>2. SizeOf(c + j) < SizeOf((c + j) + 1)
    <3>1. Rises(c + j) BY <2>1, TableRises
    <3> QED BY <3>1 DEF Rises
  <2>3. SizeOf(c) \in Nat /\ SizeOf(c + j) \in Nat /\ SizeOf(c + (j + 1)) \in Nat
    BY <2>1, Tables
  <2>4. SizeOf(c) <= SizeOf(c + (j + 1)) BY <1>2, <2>1, <2>2, <2>3
  <2> QED BY <2>1, <2>4
<1> HIDE DEF T
<1>3. 0 .. 63 - c \subseteq T BY <1>1, <1>2, Upwards, 63 - c \in Nat
<1>4. d - c \in 0 .. 63 - c /\ c + (d - c) = d OBVIOUS
<1> QED BY <1>3, <1>4 DEF T

\* The class at an index of the array: the one whose run the index is in.
InRun(i, c) ==
  c \in 0 .. 63 /\ FirstOf(c) <= i /\ (c = 63 \/ i < FirstOf(c + 1))

LEMMA ClassAt ==
  ASSUME NEW i \in 0 .. 339
  PROVE  InRun(i, IDX_ARRAY[i])
<1> DEFINE In(c) == FirstOf(c) <= i /\ (c = 63 \/ i < FirstOf(c + 1))
           T == {c \in 0 .. 63 : c = 63 \/ i < FirstOf(c + 1)}
<1>1. 63 \in T /\ T \subseteq Nat OBVIOUS
<1>2. PICK m \in T : \A k \in T : m <= k
  <2>1. T # {} /\ T \in SUBSET Nat BY <1>1
  <2> HIDE DEF T
  <2> QED BY <2>1, Smallest
<1>3. FirstOf(m) <= i
  <2>1. CASE m = 0 BY <2>1, TableEnds
  <2>2. CASE m # 0
    <3>1. m - 1 \in 0 .. 63 /\ m - 1 # 63 /\ (m - 1) + 1 = m /\ ~ (m <= m - 1) BY <2>2
    <3>2. m - 1 \notin T BY <1>2, <3>1
    <3>3. ~ (i < FirstOf(m)) BY <3>1, <3>2
    <3>4. FirstOf(m) \in Nat BY Tables
    <3> QED BY <3>3, <3>4
  <2> QED BY <2>1, <2>2
<1>4. \E c \in 0 .. 63 : In(c) BY <1>2, <1>3, SMTT(30)
<1>5. IDX_ARRAY[i] = CHOOSE c \in 0 .. 63 : In(c)
  <2>1. \A c \in 0 .. 63 : (c + 1) + 1 = c + 2 OBVIOUS
  <2> QED BY <2>1 DEF IDX_ARRAY, FirstOf
<1> HIDE DEF In
<1>6. IDX_ARRAY[i] \in 0 .. 63 /\ In(IDX_ARRAY[i]) BY <1>4, <1>5
<1> QED BY <1>6 DEF In, InRun

\* get_size_class of tc_size_class.rs: the least class that is large enough.
LEMMA BaseClass ==
  ASSUME ~ FixedHeap, NEW n \in Nat, n <= 28032
  PROVE  \E c \in 0 .. 63 :
           /\ get_size_class(n) = <<"Base", c>>
           /\ n <= SizeOf(c) /\ \A d \in 0 .. 63 : d < c => SizeOf(d) < n
<1>1. CASE n <= 1024
  <2> DEFINE i == (n + 7) \div 8
             r == (n + 7) % 8
             c == IDX_ARRAY[i]
  <2>1. i \in Nat /\ r \in 0 .. 7 /\ n + 7 = 8 * i + r
    <3>1. n + 7 \in Nat /\ 8 \in Nat \ {0} OBVIOUS
    <3> QED BY <3>1, Division
  <2>2. get_size_class(n) = <<"Base", c>>
    BY <1>1 DEF get_size_class, get_sizeclass_tuple2
  <2> HIDE DEF i, r
  <2>3. i \in 0 .. 128 /\ n <= 8 * i /\ (i # 0 => 8 * (i - 1) < n) BY <1>1, <2>1
  <2>4. c \in 0 .. 63 /\ FirstOf(c) <= i /\ (c = 63 \/ i < FirstOf(c + 1))
    <3>1. i \in 0 .. 339 BY <2>3
    <3>2. InRun(i, c) BY <3>1, ClassAt
    <3> HIDE DEF c
    <3> QED BY <3>2 DEF InRun
  <2> HIDE DEF c
  <2>5. c \in 0 .. 37
    <3> SUFFICES ASSUME c \in 38 .. 63 PROVE FALSE BY <2>4
    <3>1. FirstOf(c) >= 129
      <4>1. CASE c = 38 BY <4>1, TableEnds
      <4>2. CASE c # 38
        <5>1. c - 1 \in 37 .. 62 /\ (c - 1) + 1 = c /\ 38 \in 0 .. 63 /\ c - 1 \in 0 .. 63
              /\ 38 <= c - 1 /\ 37 \in 37 .. 62 /\ 37 \in 0 .. 63
          BY <2>4, <4>2
        <5>2. SizeOf(c - 1) = 128 * (FirstOf(c) - 1) - 15360
          <6>1. High(c - 1) BY <5>1, TableRuns
          <6> QED BY <5>1, <6>1 DEF High
        <5>3. SizeOf(37) = 128 * (FirstOf(38) - 1) - 15360
          <6>1. High(37) BY <5>1, TableRuns
          <6> QED BY <6>1 DEF High
        <5>4. SizeOf(37) <= SizeOf(c - 1) BY <5>1, SizesRise
        <5>5. FirstOf(38) = 129 BY TableEnds
        <5>6. FirstOf(c) \in Nat BY <2>4, Tables
        <5> QED BY <5>2, <5>3, <5>4, <5>5, <5>6
      <4> QED BY <4>1, <4>2
    <3>2. FirstOf(c) \in Nat BY <2>4, Tables
    <3> QED BY <2>3, <2>4, <3>1, <3>2
  <2>6. n <= SizeOf(c)
    <3>1. Low(c) BY <2>5, TableRuns
    <3>2. SizeOf(c) = 8 * (FirstOf(c + 1) - 1) BY <3>1 DEF Low
    <3>3. FirstOf(c + 1) \in Nat /\ i < FirstOf(c + 1)
      <4>1. c + 1 \in 0 .. 63 /\ c # 63 BY <2>5
      <4> QED BY <2>4, <4>1, Tables
    <3> QED BY <2>3, <3>2, <3>3
  <2>7. ASSUME NEW d \in 0 .. 63, d < c PROVE SizeOf(d) < n
    <3>1. c - 1 \in 0 .. 37 /\ c - 1 \in 0 .. 63 /\ (c - 1) + 1 = c /\ d <= c - 1 /\ c \in 0 .. 63
      BY <2>5, <2>7
    <3>2. Low(c - 1) BY <3>1, TableRuns
    <3>3. SizeOf(c - 1) = 8 * (FirstOf(c) - 1) BY <3>1, <3>2 DEF Low
    <3>4. SizeOf(d) <= SizeOf(c - 1) /\ SizeOf(d) \in Nat BY <3>1, SizesRise, Tables
    <3>5. FirstOf(c) \in Nat /\ SizeOf(c - 1) \in Nat BY <3>1, Tables
    <3>6. i # 0 BY <2>3, <2>4, <3>3, <3>5
    <3> QED BY <2>3, <2>4, <3>3, <3>4, <3>5, <3>6
  <2> QED BY <2>2, <2>4, <2>6, <2>7
<1>2. CASE n > 1024
  <2> DEFINE x == n + 127 + 120 * 128
             i == x \div 128
             r == x % 128
             c == IDX_ARRAY[i]
  <2>1. i \in Nat /\ r \in 0 .. 127 /\ x = 128 * i + r
    <3>1. x \in Nat /\ 128 \in Nat \ {0} OBVIOUS
    <3> HIDE DEF x
    <3> QED BY <3>1, Division
  <2>2. get_size_class(n) = <<"Base", c>>
    BY <1>2 DEF get_size_class, get_sizeclass_tuple2, MAX_SIZE
  <2>9. x = n + 15487 OBVIOUS
  <2> HIDE DEF i, r, x
  <2>3. i \in 129 .. 339 /\ n <= 128 * i - 15360 /\ 128 * (i - 1) - 15360 < n
    BY <1>2, <2>1, <2>9
  <2>8. c = IDX_ARRAY[i] OBVIOUS
  <2> HIDE DEF c
  <2>10. i \in 0 .. 339 BY <2>3
  <2>4. c \in 0 .. 63 /\ FirstOf(c) <= i /\ (c = 63 \/ i < FirstOf(c + 1))
    <3>1. InRun(i, c) BY <2>8, <2>10, ClassAt
    <3> QED BY <3>1 DEF InRun
  <2>5. c \in 38 .. 63
    <3> SUFFICES ASSUME c \in 0 .. 37 PROVE FALSE BY <2>4
    <3>1. c \in 0 .. 63 /\ 37 \in 0 .. 63 /\ c + 1 \in 0 .. 63 /\ c <= 37 OBVIOUS
    <3>2. SizeOf(c) <= SizeOf(37) BY <3>1, SizesRise
    <3>3. Low(c) /\ Low(37) BY TableRuns
    <3>4. SizeOf(c) = 8 * (FirstOf(c + 1) - 1) /\ SizeOf(37) = 8 * (FirstOf(38) - 1)
      BY <3>3 DEF Low
    <3>5. FirstOf(38) = 129 /\ FirstOf(c + 1) \in Nat BY <3>1, Tables, TableEnds
    <3> QED BY <2>3, <2>4, <3>2, <3>4, <3>5
  <2>6. n <= SizeOf(c)
    <3>1. CASE c = 63 BY <3>1, TableEnds
    <3>2. CASE c # 63
      <4>1. c \in 37 .. 62 /\ c + 1 \in 0 .. 63 BY <2>5, <3>2
      <4>2. High(c) BY <4>1, TableRuns
      <4>3. SizeOf(c) = 128 * (FirstOf(c + 1) - 1) - 15360 BY <4>2 DEF High
      <4>4. FirstOf(c + 1) \in Nat BY <4>1, Tables
      <4> QED BY <2>3, <2>4, <3>2, <4>3, <4>4
    <3> QED BY <3>1, <3>2
  <2>7. ASSUME NEW d \in 0 .. 63, d < c PROVE SizeOf(d) < n
    <3>1. c - 1 \in 37 .. 62 /\ c - 1 \in 0 .. 63 /\ (c - 1) + 1 = c /\ d <= c - 1 /\ c \in 0 .. 63
      BY <2>5, <2>7
    <3>2. High(c - 1) BY <3>1, TableRuns
    <3>3. SizeOf(c - 1) = 128 * (FirstOf(c) - 1) - 15360 BY <3>1, <3>2 DEF High
    <3>4. SizeOf(d) <= SizeOf(c - 1) /\ SizeOf(d) \in Nat BY <3>1, SizesRise, Tables
    <3>5. FirstOf(c) \in Nat /\ SizeOf(c - 1) \in Nat BY <3>1, Tables
    <3> QED BY <2>3, <2>4, <3>3, <3>4, <3>5
  <2> QED BY <2>2, <2>4, <2>6, <2>7
<1> QED BY <1>1, <1>2

\* A request above the largest class keeps its size, with either table.
LEMMA LargeClass ==
  ASSUME NEW n \in Nat, n > MAX_SIZE
  PROVE  get_size_class(n) = <<"Large", n>>
<1>1. CASE ~ FixedHeap
  BY <1>1 DEF get_size_class, get_sizeclass_tuple2, MAX_SIZE
<1>2. CASE FixedHeap
  <2> DEFINE q == (n + 7) \div 8
             r == (n + 7) % 8
  <2>1. q \in Nat /\ r \in 0 .. 7 /\ n + 7 = 8 * q + r
    <3>1. n + 7 \in Nat /\ 8 \in Nat \ {0} OBVIOUS
    <3> QED BY <3>1, Division
  <2>2. get_size_class(n) = IF 8 * q <= MAX_SIZE
                                   THEN <<"Base", trailing_zeros(8 * q) - 2>>
                                   ELSE <<"Large", n>>
    BY <1>2 DEF get_size_class, small_get_size_class
  <2>3. MAX_SIZE = 2048 BY <1>2 DEF MAX_SIZE
  <2> HIDE DEF q, r
  <2>4. ~ (8 * q <= 2048) BY <2>1, <2>3
  <2> QED BY <2>2, <2>3, <2>4
<1> QED BY <1>1, <1>2

\* get_size_class of small_size_class.rs counts the trailing zeros of a word.
LEMMA SmallClass ==
  ASSUME FixedHeap, NEW n \in Nat, n <= 2048
  PROVE  \E c \in -2 .. 62 : get_size_class(n) = <<"Base", c>>
<1> DEFINE q == (n + 7) \div 8
           r == (n + 7) % 8
           f == 8 * q
           z == trailing_zeros(f)
           Is(k) == f % 2 ^ k = 0 /\ f % 2 ^ (k + 1) # 0
<1>1. q \in Nat /\ r \in 0 .. 7 /\ n + 7 = 8 * q + r
  <2>1. n + 7 \in Nat /\ 8 \in Nat \ {0} OBVIOUS
  <2> QED BY <2>1, Division
<1>2. get_size_class(n) = IF f <= 2048 THEN <<"Base", z - 2>> ELSE <<"Large", n>>
  BY DEF get_size_class, small_get_size_class, MAX_SIZE
<1>3. f \in Nat /\ f <= 2048
  <2> HIDE DEF q, r
  <2> QED BY <1>1
<1> HIDE DEF f
<1>4. z = IF f = 0 THEN 64 ELSE CHOOSE k \in 0 .. 63 : Is(k)
  BY DEF trailing_zeros
<1>5. ASSUME f # 0 PROVE \E k \in 0 .. 63 : Is(k)
  <2> DEFINE T == {k \in 0 .. 11 : f % 2 ^ (k + 1) # 0}
  <2>1. f % 2 ^ 0 = 0 /\ f % 2 ^ 12 # 0
    <3>1. 2 ^ 0 = 1 /\ 2 ^ 12 = 4096 OBVIOUS
    <3>2. f % 1 = 0 BY <1>3
    <3>3. f % 4096 = f
      <4>1. 4096 \in Nat \ {0} /\ f \in Nat /\ f < 4096 BY <1>3
      <4> QED BY <4>1, Small
    <3> QED BY <1>5, <3>1, <3>2, <3>3
  <2>2. 11 \in T /\ T \subseteq Nat
    <3>1. 11 + 1 = 12 /\ 11 \in 0 .. 11 OBVIOUS
    <3> QED BY <2>1, <3>1
  <2>3. PICK m \in T : \A k \in T : m <= k
    <3> HIDE DEF T
    <3> QED BY <2>2, Smallest
  <2>4. Is(m)
    <3>1. m \in 0 .. 11 /\ f % 2 ^ (m + 1) # 0 OBVIOUS
    <3>2. CASE m = 0 BY <2>1, <3>1, <3>2
    <3>3. CASE m # 0
      <4>1. m - 1 \in 0 .. 11 /\ (m - 1) + 1 = m /\ ~ (m <= m - 1) BY <3>1, <3>3
      <4>2. m - 1 \notin T BY <2>3, <4>1
      <4>3. f % 2 ^ ((m - 1) + 1) = 0 BY <4>1, <4>2
      <4> QED BY <3>1, <4>1, <4>3
    <3> QED BY <3>2, <3>3
  <2>5. m \in 0 .. 63 OBVIOUS
  <2> HIDE DEF Is
  <2> QED BY <2>4, <2>5
<1> HIDE DEF Is, z
<1>6. z \in 0 .. 64 BY <1>4, <1>5
<1> QED BY <1>2, <1>3, <1>6

\* A class is an index below 64 or a size of a request above the largest class.
LEMMA ClassIs ==
  ASSUME NEW n \in Nat
  PROVE  \/ n > 2048 /\ get_size_class(n) = <<"Large", n>>
         \/ \E c \in -2 .. 63 : get_size_class(n) = <<"Base", c>>
<1>1. MAX_SIZE = IF FixedHeap THEN 2048 ELSE 28032 BY DEF MAX_SIZE
<1>2. CASE n > MAX_SIZE BY <1>1, <1>2, LargeClass
<1>3. CASE ~ (n > MAX_SIZE) /\ FixedHeap
  <2>1. n <= 2048 BY <1>1, <1>3
  <2>2. PICK c \in -2 .. 62 : get_size_class(n) = <<"Base", c>>
    BY <1>3, <2>1, SmallClass
  <2>3. c \in -2 .. 63 OBVIOUS
  <2> QED BY <2>2, <2>3
<1>4. CASE ~ (n > MAX_SIZE) /\ ~ FixedHeap
  <2>1. n <= 28032 BY <1>1, <1>4
  <2>2. PICK c \in 0 .. 63 : get_size_class(n) = <<"Base", c>>
    BY <1>4, <2>1, BaseClass
  <2>3. c \in -2 .. 63 OBVIOUS
  <2> QED BY <2>2, <2>3
<1> QED BY <1>2, <1>3, <1>4, SizeAssumption

\* So two requests have the same class if index says so.
LEMMA SameIndex ==
  ASSUME NEW m \in Nat, NEW n \in Nat,
         index(get_size_class(m)) = index(get_size_class(n))
  PROVE  get_size_class(m) = get_size_class(n)
<1> DEFINE a == get_size_class(m)
           b == get_size_class(n)
<1>1. a[2] = b[2] BY DEF index
<1>2. (m > 2048 /\ a = <<"Large", m>>) \/ \E c \in -2 .. 63 : a = <<"Base", c>> BY ClassIs
<1>3. (n > 2048 /\ b = <<"Large", n>>) \/ \E c \in -2 .. 63 : b = <<"Base", c>> BY ClassIs
<1> HIDE DEF a, b
<1>4. a = b BY <1>1, <1>2, <1>3
<1> QED BY <1>4 DEF a, b

\* The memory of an object is of the class its owner computes from the last size.
ObjectInv ==
  req \in Nat \cup {-1} /\ (req # -1 => from = get_size_class(req))

LEMMA ObjectInit == SizeInit => ObjectInv
BY DEF SizeInit, ObjectInv

LEMMA ObjectNext ==
  ASSUME ObjectInv, [SizeNext]_sizeVars
  PROVE  ObjectInv'
<1>1. ASSUME NEW n \in Requests, Alloc(n) PROVE ObjectInv'
  BY <1>1, SizeAssumption DEF Alloc, ObjectInv
<1>2. ASSUME NEW n \in Resizes, Realloc(n) PROVE ObjectInv'
  <2>1. n \in Nat /\ req \in Nat /\ req' = n /\ from = get_size_class(req)
    BY <1>2, SizeAssumption DEF Realloc, ObjectInv
  <2>2. CASE InPlace(n) /\ UNCHANGED from
    <3>1. get_size_class(req) = get_size_class(n)
      BY <2>1, <2>2, SameIndex DEF InPlace
    <3>2. from' = get_size_class(n) BY <2>1, <2>2, <3>1
    <3> QED BY <2>1, <3>2 DEF ObjectInv
  <2>3. CASE from' = get_size_class(n) BY <2>1, <2>3 DEF ObjectInv
  <2> QED BY <1>2, <2>2, <2>3 DEF Realloc
<1>3. CASE Dealloc BY <1>3 DEF Dealloc, ObjectInv
<1>4. CASE UNCHANGED sizeVars BY <1>4 DEF sizeVars, ObjectInv
<1> QED BY <1>1, <1>2, <1>3, <1>4 DEF SizeNext

\* Powers of two up to the greatest that next_power_of_two can return.
LEMMA PowersUpTo30 ==
  /\ Power(0) = 1 /\ Power(30) >= Power(20)
  /\ \A k \in 0 .. 30 : Power(k) \in Nat \ {0}
  /\ \A k \in 1 .. 30 : Power(k) = 2 * Power(k - 1)
<1>1. /\ Power(21) = 2 * Power(20) /\ Power(22) = 2 * Power(21) /\ Power(23) = 2 * Power(22)
      /\ Power(24) = 2 * Power(23) /\ Power(25) = 2 * Power(24) /\ Power(26) = 2 * Power(25)
      /\ Power(27) = 2 * Power(26) /\ Power(28) = 2 * Power(27) /\ Power(29) = 2 * Power(28)
      /\ Power(30) = 2 * Power(29)
  BY SMT DEF Power
<1>2. \A k \in 21 .. 30 : k \in {21, 22, 23, 24, 25, 26, 27, 28, 29, 30}
  BY SMT
<1>3. Power(20) = 1048576 BY SMT, Doubles
<1>4. \A k \in 21 .. 30 : Power(k) \in Nat \ {0} /\ Power(k) = 2 * Power(k - 1)
  BY <1>1, <1>2, <1>3, SMT
<1>5. \A k \in 0 .. 30 : k \in 0 .. 20 \/ k \in 21 .. 30 BY SMT
<1>6. \A k \in 1 .. 30 : k \in 1 .. 20 \/ k \in 21 .. 30 BY SMT
<1>7. \A k \in 0 .. 30 : Power(k) \in Nat \ {0} BY <1>4, <1>5, Doubles, SMT
<1>8. \A k \in 1 .. 30 : Power(k) = 2 * Power(k - 1) BY <1>4, <1>6, Doubles, SMT
<1>9. Power(0) = 1 BY Doubles, SMT
<1>10. Power(30) >= Power(20) BY <1>1, <1>3, SMT
<1> QED BY <1>7, <1>8, <1>9, <1>10

\* next_power_of_two is not below its argument, and its half is.
LEMMA PowerAbove ==
  ASSUME NEW n \in Nat, n <= Power(30)
  PROVE  LET p == next_power_of_two(n)
         IN  p \in Nat \ {0} /\ p >= n /\ (p = 1 \/ p \div 2 < n)
<1> DEFINE P == {2 ^ k : k \in 0 .. 30}
           T == {p \in P : p >= n}
<1>0. P = {Power(k) : k \in 0 .. 30} BY DEF Power
<1> HIDE DEF P
<1>1. /\ P \subseteq Nat \ {0} /\ Power(30) \in P
      /\ \A p \in P : p = 1 \/ (p \div 2 \in P /\ p \div 2 < p)
  <2>1. P \subseteq Nat \ {0} /\ Power(30) \in P BY <1>0, PowersUpTo30
  <2>2. ASSUME NEW p \in P, p # 1 PROVE p \div 2 \in P /\ p \div 2 < p
    <3>1. PICK k \in 0 .. 30 : p = Power(k) BY <1>0
    <3>2. k \in 1 .. 30 /\ k - 1 \in 0 .. 30 BY <2>2, <3>1, PowersUpTo30
    <3> DEFINE h == Power(k - 1)
    <3>3. p = 2 * h /\ h \in Nat \ {0} /\ h \in P BY <1>0, <3>1, <3>2, PowersUpTo30
    <3> HIDE DEF h
    <3>4. p \div 2 = h BY <3>3
    <3> QED BY <3>3, <3>4
  <2> QED BY <2>1, <2>2
<1>2. T \in SUBSET Nat /\ T # {} BY <1>1
<1>3. PICK m \in T : \A k \in T : m <= k BY <1>2, Smallest
<1>4. m = 1 \/ m \div 2 < n BY <1>1, <1>3
<1>5. \E p \in P : n <= p /\ (p = 1 \/ p \div 2 < n) BY <1>3, <1>4
<1> QED BY <1>1, <1>5 DEF next_power_of_two, P

\* SCAllocator::new: the slots of a block, for a class of the thread cache.
LEMMA Layout ==
  ASSUME ~ FixedHeap, NEW c \in 1 .. 63
  PROVE  LET bytes == PageSize * get_num_pages_by_idx(c)
         IN  /\ get_size_class_by_idx(c) <= pg_align(c)
             /\ pg_count(c) * pg_align(c) <= bytes
             /\ pg_count(c) > 0
             /\ get_num_pages_by_idx(c) <= BACKEND_MAX_PAGE
<1> DEFINE size == get_size_class_by_idx(c)
           pages == get_num_pages_by_idx(c)
           bytes == PageSize * pages
           n == pg_count(c)
           perfect == bytes \div n
           rest == perfect - size
           npo == next_power_of_two(rest)
           half == npo \div 2
           least == IF half = 0 THEN 1 ELSE half
           align == pg_align(c)
<1>1. /\ size \in Nat \ {0} /\ size <= bytes /\ pages \in 1 .. 64 /\ bytes = 4096 * pages
      /\ BACKEND_MAX_PAGE = 128
  <2>1. size = SizeOf(c) /\ pages = TC_PAGES[c]
    BY DEF get_size_class_by_idx, SIZE_CLASSES, get_num_pages_by_idx, SizeOf
  <2>2. bytes = 4096 * pages BY DEF PageSize
  <2>3. BACKEND_MAX_PAGE = 128 BY DEF BACKEND_MAX_PAGE
  <2> HIDE DEF size, pages, bytes
  <2> QED BY <2>1, <2>2, <2>3, Blocks
<1>2. n = bytes \div size
  BY DEF pg_count
<1>3. align = IF perfect = next_power_of_two(perfect) THEN perfect
              ELSE least * ((size + least - 1) \div least)
  BY DEF pg_align, RoundUp
<1> HIDE DEF size, pages, bytes, n, align
<1>4. bytes \in Nat /\ bytes <= Power(20)
  <2>1. Power(20) = 1048576 BY Doubles, SMT
  <2> QED BY <1>1, <2>1, SMT
<1>5. n \in Nat \ {0} /\ n * size <= bytes
  <2> DEFINE r == bytes % size
  <2>1. n \in Nat /\ r \in 0 .. size - 1 /\ bytes = size * n + r
    <3>1. size \in Nat \ {0} /\ bytes \in Nat BY <1>1, <1>4
    <3> QED BY <1>2, <3>1, Division
  <2> HIDE DEF r
  <2>2. n # 0
    <3>1. n = 0 => size * n = 0 BY <1>1
    <3> QED BY <1>1, <1>4, <2>1, <3>1
  <2>3. size * n = n * size /\ n * size \in Nat BY <1>1, <2>1
  <2> QED BY <1>1, <1>4, <2>1, <2>2, <2>3
<1>6. perfect \in Nat /\ n * perfect <= bytes /\ bytes < n * (perfect + 1)
  <2> DEFINE r == bytes % n
  <2>1. perfect \in Nat /\ r \in 0 .. n - 1 /\ bytes = n * perfect + r
    BY <1>4, <1>5, Division
  <2> HIDE DEF perfect, r
  <2>2. n * (perfect + 1) = n * perfect + n /\ n * perfect \in Nat BY <1>5, <2>1
  <2> QED BY <1>5, <2>1, <2>2
<1> HIDE DEF perfect
<1>7. size <= perfect
  <2> SUFFICES ASSUME perfect + 1 <= size PROVE FALSE BY <1>1, <1>6
  <2>1. n * (perfect + 1) <= n * size BY <1>1, <1>5, <1>6
  <2>2. n * (perfect + 1) \in Nat /\ n * size \in Nat BY <1>1, <1>5, <1>6
  <2> QED BY <1>4, <1>5, <1>6, <2>1, <2>2
<1>8. rest \in Nat /\ rest <= Power(30)
  <2>1. perfect <= n * perfect /\ n * perfect \in Nat BY <1>5, <1>6
  <2>2. perfect <= bytes BY <1>4, <1>6, <2>1
  <2>3. Power(20) <= Power(30) /\ Power(20) \in Nat /\ Power(30) \in Nat BY PowersUpTo30
  <2> QED BY <1>1, <1>4, <1>6, <1>7, <2>2, <2>3
<1>9. half \in Nat /\ (half = 0 \/ half < rest)
  <2>1. npo \in Nat \ {0} /\ (npo = 1 \/ npo \div 2 < rest)
    <3> HIDE DEF rest
    <3> QED BY <1>8, PowerAbove
  <2> HIDE DEF npo, rest
  <2>2. npo \div 2 \in Nat BY <2>1, Division
  <2>3. npo = 1 => npo \div 2 = 0 OBVIOUS
  <2> QED BY <2>1, <2>2, <2>3
<1> HIDE DEF half
<1>10. least \in Nat \ {0} /\ (least = 1 \/ least < rest) BY <1>9
<1> HIDE DEF least
<1>11. rest = perfect - size OBVIOUS
<1> HIDE DEF rest
<1>12. align \in Nat /\ size <= align /\ align <= perfect
  <2>1. CASE perfect = next_power_of_two(perfect) BY <1>3, <1>6, <1>7, <2>1
  <2>2. CASE perfect # next_power_of_two(perfect)
    <3> DEFINE x == size + least - 1
               q == x \div least
               r == x % least
    <3>1. x \in Nat BY <1>1, <1>10
    <3>2. x = size + least - 1 OBVIOUS
    <3> HIDE DEF x
    <3>3. q \in Nat /\ r \in 0 .. least - 1 /\ x = least * q + r BY <1>10, <3>1, Division
    <3>4. align = least * q BY <1>3, <2>2 DEF x
    <3> HIDE DEF q, r
    <3>5. align \in Nat /\ x = align + r BY <1>10, <3>3, <3>4
    <3>6. size <= align /\ align <= size + least - 1
      BY <1>1, <1>10, <3>2, <3>3, <3>5
    <3> QED BY <1>1, <1>6, <1>7, <1>8, <1>10, <1>11, <3>5, <3>6
  <2> QED BY <2>1, <2>2
<1>13. n * align <= n * perfect /\ n * align \in Nat /\ n * perfect \in Nat
  BY <1>5, <1>6, <1>12
<1>14. n * align <= bytes BY <1>4, <1>6, <1>13
<1>15. n > 0 /\ pages <= BACKEND_MAX_PAGE BY <1>1, <1>5
<1> QED BY <1>12, <1>14, <1>15 DEF size, pages, bytes, n, align

\* deallocate, and realloc when it moves, compute the class from the layout the caller
\* has: it is the class the memory was cut from, after any number of reallocations in
\* place, with either table.
THEOREM FreedToTheClassCutFrom == SizeSpec => []FreedToItsClass
<1>1. SizeInit => ObjectInv BY ObjectInit
<1>2. ObjectInv /\ [SizeNext]_sizeVars => ObjectInv' BY ObjectNext
<1>3. ObjectInv => FreedToItsClass
  BY DEF ObjectInv, FreedToItsClass, FreeClass
<1> QED BY <1>1, <1>2, <1>3, PTL DEF SizeSpec

\* get_sizeclass_tuple2: any request gets the least class that is large enough, and is
\* large only if there is none.
THEOREM RequestsRoundUp ==
  ASSUME ~ FixedHeap
  PROVE  SizeSpec => []RoundsUpToNext
<1>1. SizeInit => ObjectInv BY ObjectInit
<1>2. ObjectInv /\ [SizeNext]_sizeVars => ObjectInv' BY ObjectNext
<1>3. ASSUME ObjectInv PROVE RoundsUpToNext
  <2> SUFFICES ASSUME req # -1
               PROVE  LET cl   == get_size_class(req)
                          fits == {c \in Indices : req <= get_size_class_by_idx(c)}
                      IN  IF fits = {} THEN Large(cl)
                          ELSE cl[1] = "Base" /\ cl[2] \in fits /\ \A c \in fits : cl[2] <= c
    BY DEF RoundsUpToNext
  <2>1. req \in Nat BY <1>3 DEF ObjectInv
  <2> DEFINE cl == get_size_class(req)
             fits == {c \in Indices : req <= get_size_class_by_idx(c)}
  <2>2. fits = {c \in 0 .. 63 : req <= SizeOf(c)}
    <3>1. SIZE_CLASSES = TC_SIZE_CLASSES BY DEF SIZE_CLASSES
    <3>2. Indices = 0 .. 63 BY <3>1, TableEnds DEF Indices
    <3>3. \A c \in 0 .. 63 : get_size_class_by_idx(c) = SizeOf(c)
      BY <3>1 DEF get_size_class_by_idx, SizeOf
    <3> QED BY <3>2, <3>3
  <2> HIDE DEF fits
  <2>3. CASE req > 28032
    <3>1. req > MAX_SIZE BY <2>3 DEF MAX_SIZE
    <3>2. cl = <<"Large", req>> BY <2>1, <3>1, LargeClass
    <3>3. fits = {} 
      <4>1. \A c \in 0 .. 63 : SizeOf(c) \in Nat /\ SizeOf(c) <= 28032 BY Tables
      <4> QED BY <2>1, <2>2, <2>3, <4>1
    <3> HIDE DEF cl
    <3>4. Large(cl) BY <3>2 DEF Large
    <3> QED BY <3>3, <3>4 DEF cl, fits
  <2>4. CASE req <= 28032
    <3>1. PICK k \in 0 .. 63 : /\ cl = <<"Base", k>> /\ req <= SizeOf(k)
                               /\ \A d \in 0 .. 63 : d < k => SizeOf(d) < req
      BY <2>1, <2>4, BaseClass
    <3> HIDE DEF cl
    <3>2. cl[1] = "Base" /\ cl[2] = k /\ k \in fits BY <2>2, <3>1
    <3>3. ASSUME NEW c \in fits PROVE k <= c
      <4>1. c \in 0 .. 63 /\ req <= SizeOf(c) /\ SizeOf(c) \in Nat BY <2>2, Tables
      <4>2. ~ (c < k) BY <2>1, <3>1, <4>1
      <4> QED BY <4>1, <4>2
    <3> QED BY <3>2, <3>3 DEF cl, fits
  <2> QED BY <2>1, <2>3, <2>4
<1> QED BY <1>1, <1>2, <1>3, PTL DEF SizeSpec

\* SCAllocator::new: the slots of a block do not overlap and the last one ends inside
\* the block, for the class of every request.
THEOREM SlotsFitTheBlock ==
  ASSUME ~ FixedHeap
  PROVE  SizeSpec => []SlotsInBlock
<1>1. SizeInit => ObjectInv BY ObjectInit
<1>2. ObjectInv /\ [SizeNext]_sizeVars => ObjectInv' BY ObjectNext
<1>3. ASSUME ObjectInv PROVE SlotsInBlock
  <2> SUFFICES ASSUME req # -1, ~ Large(from), index(from) # 0
               PROVE  LET c == index(from)
                      IN  /\ get_size_class_by_idx(c) <= pg_align(c)
                          /\ pg_count(c) * pg_align(c)
                               <= PageSize * get_num_pages_by_idx(c)
                          /\ pg_count(c) > 0
                          /\ get_num_pages_by_idx(c) <= BACKEND_MAX_PAGE
    BY DEF SlotsInBlock
  <2>1. req \in Nat /\ from = get_size_class(req) BY <1>3 DEF ObjectInv
  <2>2. index(from) \in 1 .. 63
    <3>1. CASE req > 28032
      <4>1. req > MAX_SIZE BY <3>1 DEF MAX_SIZE
      <4>2. from = <<"Large", req>> BY <2>1, <4>1, LargeClass
      <4> QED BY <4>2 DEF Large
    <3>2. CASE req <= 28032
      <4>1. PICK k \in 0 .. 63 : from = <<"Base", k>> BY <2>1, <3>2, BaseClass
      <4>2. index(from) = k BY <4>1 DEF index
      <4> QED BY <4>2
    <3> QED BY <2>1, <3>1, <3>2
  <2> DEFINE c == index(from)
  <2> HIDE DEF c
  <2>3. c \in 1 .. 63 BY <2>2 DEF c
  <2>4. /\ get_size_class_by_idx(c) <= pg_align(c)
        /\ pg_count(c) * pg_align(c)
             <= PageSize * get_num_pages_by_idx(c)
        /\ pg_count(c) > 0
        /\ get_num_pages_by_idx(c) <= BACKEND_MAX_PAGE
    BY <2>3, Layout
  <2> QED BY <2>4 DEF c
<1> QED BY <1>1, <1>2, <1>3, PTL DEF SizeSpec

-----------------------------------------------------------------------------
(***************************************************************************)
(* Fourth part: the batches of the per-CPU cache.                          *)
(***************************************************************************)
CacheCall ==
  [at : {"idle", "zone", "refill", "fill", "push", "evict", "drain"},
   req : Request \cup {Nil}, cpu : Core \cup {Nil}, batch : Seq(Object), n : Nat]

\* What the variables of a call hold at each of its steps.
CallHas(r) ==
  /\ r.at \in {"idle", "zone", "refill"} => r.batch = <<>>
  /\ r.at = "fill" => Len(r.batch) = CWND /\ r.n \in 1 .. CWND
  /\ r.at \in {"push", "evict"} => Len(r.batch) = 1
  /\ r.at = "evict" => r.n = 1
  /\ r.at = "drain" => Len(r.batch) = r.n /\ r.n \in 1 .. CWND - 1

CpuInv ==
  /\ cache \in [Core -> Seq(Object)] /\ \A c \in Core : Len(cache[c]) <= Capacity
  /\ zone \subseteq Object /\ held \in [Object -> Nat]
  /\ th \in [CacheThread -> CacheCall] /\ \A t \in CacheThread : CallHas(th[t])

-----------------------------------------------------------------------------
\* Two sets of pairs that agree but on the row of k differ as these rows do.
RowOf(X, n, k) == {i \in 1 .. n : <<k, i>> \in X}
AgreeBut(K, n, k, A, B) == \A x \in K \X (1 .. n) : x[1] # k => (x \in A <=> x \in B)

LEMMA RowChanges ==
  ASSUME NEW K, IsFiniteSet(K), NEW n \in Nat, NEW k \in K,
         NEW A \in SUBSET (K \X (1 .. n)), NEW B \in SUBSET (K \X (1 .. n)),
         AgreeBut(K, n, k, A, B)
  PROVE  /\ Cardinality(A) \in Nat /\ Cardinality(B) \in Nat
         /\ Cardinality(RowOf(A, n, k)) \in Nat /\ Cardinality(RowOf(B, n, k)) \in Nat
         /\ Cardinality(B) + Cardinality(RowOf(A, n, k))
              = Cardinality(A) + Cardinality(RowOf(B, n, k))
<1> DEFINE Row(X) == RowOf(X, n, k)
           Of(X) == {x \in X : x[1] = k}
           Rest(X) == {x \in X : x[1] # k}
<1>1. IsFiniteSet(1 .. n) BY FS_Interval
<1>2. IsFiniteSet(K \X (1 .. n)) BY <1>1, FS_Product
<1>3. ASSUME NEW X \in SUBSET (K \X (1 .. n))
      PROVE  /\ Cardinality(X) \in Nat /\ Cardinality(Rest(X)) \in Nat
             /\ Cardinality(Row(X)) \in Nat
             /\ Cardinality(X) = Cardinality(Rest(X)) + Cardinality(Row(X))
  <2>1. IsFiniteSet(X) /\ IsFiniteSet(Of(X)) /\ IsFiniteSet(Rest(X)) /\ IsFiniteSet(Row(X))
    <3>1. IsFiniteSet(X) BY <1>2, FS_Subset
    <3>2. Of(X) \in SUBSET X /\ Rest(X) \in SUBSET X /\ Row(X) \in SUBSET (1 .. n) BY DEF RowOf
    <3> HIDE DEF Of, Rest, Row
    <3> QED BY <1>1, <3>1, <3>2, FS_Subset
  <2>2. Cardinality(Of(X)) = Cardinality(Row(X))
    <3> DEFINE f == [i \in Row(X) |-> <<k, i>>]
    <3>1. \A i \in Row(X) : <<k, i>> \in Of(X) BY DEF RowOf
    <3>2. \A x \in Of(X) : x[2] \in Row(X) /\ <<k, x[2]>> = x BY DEF RowOf
    <3> HIDE DEF Of, Row
    <3>3. f \in [Row(X) -> Of(X)] BY <3>1
    <3>4. \A i, j \in Row(X) : f[i] = f[j] => i = j OBVIOUS
    <3>5. \A x \in Of(X) : \E i \in Row(X) : f[i] = x BY <3>2
    <3> HIDE DEF f
    <3>6. f \in Bijection(Row(X), Of(X))
      BY <3>3, <3>4, <3>5 DEF Bijection, Injection, Surjection, IsInjective
    <3>7. ExistsBijection(Row(X), Of(X)) BY <3>6 DEF ExistsBijection
    <3> QED BY <2>1, <3>7, FS_Bijection
  <2>3. X = Rest(X) \cup Of(X) /\ Rest(X) \cap Of(X) = {} OBVIOUS
  <2> HIDE DEF Of, Rest, Row
  <2>4. /\ Cardinality(X) \in Nat /\ Cardinality(Rest(X)) \in Nat
        /\ Cardinality(Of(X)) \in Nat
    BY <2>1, FS_CardinalityType
  <2>5. Cardinality(Rest(X) \cup Of(X)) = Cardinality(Rest(X)) + Cardinality(Of(X))
    <3>1. Cardinality({}) = 0 BY FS_EmptySet
    <3>2. Cardinality(Rest(X) \cup Of(X))
            = Cardinality(Rest(X)) + Cardinality(Of(X)) - Cardinality(Rest(X) \cap Of(X))
      BY <2>1, FS_Union
    <3>3. Cardinality(Rest(X) \cap Of(X)) = 0 BY <2>3, <3>1
    <3> QED BY <2>4, <3>2, <3>3
  <2> QED BY <2>2, <2>3, <2>4, <2>5
<1>4. Rest(A) = Rest(B) BY DEF AgreeBut
<1> HIDE DEF Of, Rest
<1> QED BY <1>3, <1>4

\* A set with at most one element.
LEMMA AtMostOne ==
  ASSUME NEW S, \A x, y \in S : x = y
  PROVE  Cardinality(S) = IF S = {} THEN 0 ELSE 1
<1>1. CASE S = {} BY <1>1, FS_EmptySet
<1>2. CASE S # {}
  <2>1. PICK x \in S : S = {x} BY <1>2
  <2> QED BY <1>2, <2>1, FS_Singleton
<1> QED BY <1>1, <1>2

\* Where a sequence holds o, and where it does with one more object at its end.
Spots(s, n, o) == {i \in 1 .. n : i <= Len(s) /\ s[i] = o}

LEMMA OneMore ==
  ASSUME NEW s \in Seq(Object), NEW n \in Nat, Len(s) < n, NEW v \in Object, NEW o
  PROVE  /\ Cardinality(Spots(s, n, o)) \in Nat
         /\ Cardinality(Spots(Append(s, v), n, o))
              = Cardinality(Spots(s, n, o)) + IF v = o THEN 1 ELSE 0
<1> DEFINE a == {i \in 1 .. n : i <= Len(s) /\ s[i] = o}
           q == Append(s, v)
           m == Len(s) + 1
           b == {i \in 1 .. n : i <= Len(q) /\ q[i] = o}
<1>1. Len(s) \in Nat /\ Len(q) = m /\ m \in 1 .. n /\ q[m] = v
      /\ \A i \in 1 .. Len(s) : q[i] = s[i]
  OBVIOUS
<1>2. IsFiniteSet(a)
  <2>1. a \in SUBSET (1 .. n) /\ IsFiniteSet(1 .. n) BY FS_Interval
  <2> HIDE DEF a
  <2> QED BY <2>1, FS_Subset
<1> HIDE DEF q
<1>3. b = IF v = o THEN a \cup {m} ELSE a
  <2>1. \A i \in 1 .. n : i <= m <=> i \in 1 .. Len(s) \/ i = m BY <1>1
  <2>2. \A i \in 1 .. n : i <= Len(s) <=> i \in 1 .. Len(s) BY <1>1
  <2> HIDE DEF m
  <2> QED BY <1>1, <2>1, <2>2
<1>4. m \notin a BY <1>1
<1> HIDE DEF a, b, m
<1>5. Cardinality(a) \in Nat BY <1>2, FS_CardinalityType
<1>6. Cardinality(a \cup {m}) = Cardinality(a) + 1 BY <1>2, <1>4, FS_AddElement
<1>7. Cardinality(b) = Cardinality(a) + IF v = o THEN 1 ELSE 0 BY <1>3, <1>5, <1>6
<1> QED BY <1>5, <1>7 DEF a, b, q, Spots

\* The words of a row.
CallIdx(r, o) ==
  {i \in 1 .. CWND : /\ i <= Len(r.batch) /\ r.batch[i] = o
                     /\ r.at = "fill" => r.n <= i}

\* A step changes the cache of one CPU: the places in caches change as those in it.
LEMMA CacheChanges ==
  ASSUME CpuInv, NEW c \in Core, NEW s \in Seq(Object), Len(s) <= Capacity,
         cache' = [cache EXCEPT ![c] = s]
  PROVE  /\ cache' \in [Core -> Seq(Object)] /\ \A d \in Core : Len(cache'[d]) <= Capacity
         /\ \A o : /\ Cardinality(InCaches(o)) \in Nat /\ Cardinality(InCaches(o)') \in Nat
                  /\ Cardinality(Spots(cache[c], Capacity, o)) \in Nat
                  /\ Cardinality(Spots(s, Capacity, o)) \in Nat
                  /\ Cardinality(InCaches(o)') + Cardinality(Spots(cache[c], Capacity, o))
                       = Cardinality(InCaches(o)) + Cardinality(Spots(s, Capacity, o))
<1>1. cache \in [Core -> Seq(Object)] /\ \A d \in Core : Len(cache[d]) <= Capacity
  BY DEF CpuInv
<1>2. cache'[c] = s /\ \A d \in Core : d # c => cache'[d] = cache[d] BY <1>1
<1>3. cache' \in [Core -> Seq(Object)] /\ \A d \in Core : Len(cache'[d]) <= Capacity
  BY <1>1, <1>2
<1>4. IsFiniteSet(Core) /\ Capacity \in Nat BY CacheAssumption
<1> SUFFICES ASSUME NEW o
             PROVE  /\ Cardinality(InCaches(o)) \in Nat /\ Cardinality(InCaches(o)') \in Nat
                    /\ Cardinality(Spots(cache[c], Capacity, o)) \in Nat
                    /\ Cardinality(Spots(s, Capacity, o)) \in Nat
                    /\ Cardinality(InCaches(o)') + Cardinality(Spots(cache[c], Capacity, o))
                         = Cardinality(InCaches(o)) + Cardinality(Spots(s, Capacity, o))
  BY <1>3
<1> DEFINE A == InCaches(o)
           B == InCaches(o)'
           a == RowOf(A, Capacity, c)
           b == RowOf(B, Capacity, c)
<1>5. A \in SUBSET (Core \X (1 .. Capacity)) /\ B \in SUBSET (Core \X (1 .. Capacity))
  BY DEF InCaches
<1>6. AgreeBut(Core, Capacity, c, A, B) BY <1>2 DEF InCaches, AgreeBut
<1>7. a = Spots(cache[c], Capacity, o) /\ b = Spots(s, Capacity, o) BY <1>2 DEF InCaches, Spots, RowOf
<1> HIDE DEF A, B
<1>8. /\ Cardinality(A) \in Nat /\ Cardinality(B) \in Nat
      /\ Cardinality(a) \in Nat /\ Cardinality(b) \in Nat
      /\ Cardinality(B) + Cardinality(a) = Cardinality(A) + Cardinality(b)
  <2> HIDE DEF a, b
  <2>1. a = RowOf(A, Capacity, c) /\ b = RowOf(B, Capacity, c) BY DEF a, b
  <2> QED BY <1>4, <1>5, <1>6, <2>1, RowChanges
<1> HIDE DEF a, b
<1> QED BY <1>7, <1>8 DEF A, B

\* A step of thread t leaves the variables r: the same for the places in calls.
LEMMA CallChanges ==
  ASSUME CpuInv, NEW t \in CacheThread, NEW r \in CacheCall, CallHas(r),
         th' = [th EXCEPT ![t] = r]
  PROVE  /\ th' \in [CacheThread -> CacheCall] /\ \A u \in CacheThread : CallHas(th'[u])
         /\ \A o : /\ Cardinality(InCalls(o)) \in Nat /\ Cardinality(InCalls(o)') \in Nat
                  /\ Cardinality(CallIdx(th[t], o)) \in Nat
                  /\ Cardinality(CallIdx(r, o)) \in Nat
                  /\ Cardinality(InCalls(o)') + Cardinality(CallIdx(th[t], o))
                       = Cardinality(InCalls(o)) + Cardinality(CallIdx(r, o))
<1>1. th \in [CacheThread -> CacheCall] /\ \A u \in CacheThread : CallHas(th[u])
  BY DEF CpuInv
<1>2. th'[t] = r /\ \A u \in CacheThread : u # t => th'[u] = th[u] BY <1>1
<1>3. th' \in [CacheThread -> CacheCall] /\ \A u \in CacheThread : CallHas(th'[u])
  BY <1>1, <1>2
<1>4. IsFiniteSet(CacheThread) /\ CWND \in Nat BY CacheAssumption
<1> SUFFICES ASSUME NEW o
             PROVE  /\ Cardinality(InCalls(o)) \in Nat /\ Cardinality(InCalls(o)') \in Nat
                    /\ Cardinality(CallIdx(th[t], o)) \in Nat
                    /\ Cardinality(CallIdx(r, o)) \in Nat
                    /\ Cardinality(InCalls(o)') + Cardinality(CallIdx(th[t], o))
                         = Cardinality(InCalls(o)) + Cardinality(CallIdx(r, o))
  BY <1>3
<1> DEFINE A == InCalls(o)
           B == InCalls(o)'
           a == RowOf(A, CWND, t)
           b == RowOf(B, CWND, t)
<1>5. A \in SUBSET (CacheThread \X (1 .. CWND)) /\ B \in SUBSET (CacheThread \X (1 .. CWND))
  BY DEF InCalls
<1>6. AgreeBut(CacheThread, CWND, t, A, B) BY <1>2 DEF InCalls, AgreeBut
<1>7. a = CallIdx(th[t], o) /\ b = CallIdx(r, o) BY <1>2 DEF InCalls, CallIdx, RowOf
<1> HIDE DEF A, B
<1>8. /\ Cardinality(A) \in Nat /\ Cardinality(B) \in Nat
      /\ Cardinality(a) \in Nat /\ Cardinality(b) \in Nat
      /\ Cardinality(B) + Cardinality(a) = Cardinality(A) + Cardinality(b)
  BY <1>4, <1>5, <1>6, RowChanges
<1> HIDE DEF a, b
<1> QED BY <1>7, <1>8 DEF A, B

\* push and pop.
LEMMA PushAdds ==
  ASSUME CpuInv, NEW c \in Core, NEW v \in Object, push(c, v)
  PROVE  /\ cache' \in [Core -> Seq(Object)] /\ \A d \in Core : Len(cache'[d]) <= Capacity
         /\ \A o : /\ Cardinality(InCaches(o)) \in Nat
                  /\ Cardinality(InCaches(o)')
                       = Cardinality(InCaches(o)) + IF v = o THEN 1 ELSE 0
<1> DEFINE s == Append(cache[c], v)
<1>1. cache[c] \in Seq(Object) /\ Len(cache[c]) <= Capacity /\ Capacity \in Nat
  BY CacheAssumption DEF CpuInv
<1>2. Len(cache[c]) < Capacity /\ cache' = [cache EXCEPT ![c] = s]
  BY <1>1 DEF push, Overflows
<1>3. s \in Seq(Object) /\ Len(s) <= Capacity BY <1>1, <1>2
<1>4. \A o : Cardinality(Spots(s, Capacity, o))
               = Cardinality(Spots(cache[c], Capacity, o)) + IF v = o THEN 1 ELSE 0
  BY <1>1, <1>2, OneMore
<1> HIDE DEF s
<1>5. /\ cache' \in [Core -> Seq(Object)] /\ \A d \in Core : Len(cache'[d]) <= Capacity
      /\ \A o : /\ Cardinality(InCaches(o)) \in Nat /\ Cardinality(InCaches(o)') \in Nat
               /\ Cardinality(Spots(cache[c], Capacity, o)) \in Nat
               /\ Cardinality(Spots(s, Capacity, o)) \in Nat
               /\ Cardinality(InCaches(o)') + Cardinality(Spots(cache[c], Capacity, o))
                    = Cardinality(InCaches(o)) + Cardinality(Spots(s, Capacity, o))
  BY <1>2, <1>3, CacheChanges
<1> QED BY <1>4, <1>5

LEMMA PopRemoves ==
  ASSUME CpuInv, NEW c \in Core, pop(c)
  PROVE  /\ Last(cache[c]) \in Object
         /\ cache' \in [Core -> Seq(Object)] /\ \A d \in Core : Len(cache'[d]) <= Capacity
         /\ \A o : /\ Cardinality(InCaches(o)) \in Nat /\ Cardinality(InCaches(o)') \in Nat
                  /\ Cardinality(InCaches(o)') + (IF Last(cache[c]) = o THEN 1 ELSE 0)
                       = Cardinality(InCaches(o))
<1> DEFINE q == cache[c]
           s == Front(q)
           v == Last(q)
<1>1. q \in Seq(Object) /\ q # <<>> /\ Len(q) <= Capacity /\ Capacity \in Nat
      /\ cache' = [cache EXCEPT ![c] = s]
  BY CacheAssumption DEF CpuInv, pop, Underflows
<1> HIDE DEF q
<1>2. Len(q) \in Nat \ {0} /\ v \in Object BY <1>1 DEF Last
<1>3. s \in Seq(Object) /\ Len(s) = Len(q) - 1 /\ q = Append(s, v)
  <2>1. s \in Seq(Object) /\ Len(s) = Len(q) - 1
        /\ \A i \in 1 .. Len(q) - 1 : s[i] = q[i]
    <3> DEFINE m == Len(q) - 1
    <3>1. m \in Int /\ \A i \in 1 .. m : q[i] \in Object BY <1>1, <1>2
    <3>2. /\ SubSeq(q, 1, m) \in Seq(Object)
          /\ Len(SubSeq(q, 1, m)) = IF 1 <= m THEN m - 1 + 1 ELSE 0
          /\ \A i \in 1 .. m - 1 + 1 : SubSeq(q, 1, m)[i] = q[1 + i - 1]
      <4> HIDE DEF m
      <4> QED BY <3>1, SubSeqProperties
    <3>3. s = SubSeq(q, 1, m) BY DEF Front
    <3>7. m \in Nat BY <1>2
    <3> HIDE DEF s, m
    <3>4. m - 1 + 1 = m /\ (~ 1 <= m => m = 0) /\ \A i \in 1 .. m : 1 + i - 1 = i
      BY <3>7
    <3>5. s \in Seq(Object) /\ Len(s) = m BY <3>2, <3>3, <3>4
    <3>6. \A i \in 1 .. m : s[i] = q[i] BY <3>2, <3>3, <3>4
    <3> QED BY <3>5, <3>6 DEF m
  <2> HIDE DEF s
  <2> QED BY <1>1, <1>2, <2>1 DEF Last
<1> HIDE DEF s, v
<1>4. \A o : Cardinality(Spots(q, Capacity, o))
               = Cardinality(Spots(s, Capacity, o)) + IF v = o THEN 1 ELSE 0
  BY <1>1, <1>2, <1>3, OneMore
<1>5. Len(s) <= Capacity BY <1>1, <1>2, <1>3
<1>6. \A o : /\ Cardinality(InCaches(o)) \in Nat /\ Cardinality(InCaches(o)') \in Nat
              /\ Cardinality(Spots(q, Capacity, o)) \in Nat
              /\ Cardinality(Spots(s, Capacity, o)) \in Nat
              /\ Cardinality(InCaches(o)') + Cardinality(Spots(q, Capacity, o))
                   = Cardinality(InCaches(o)) + Cardinality(Spots(s, Capacity, o))
  BY <1>1, <1>3, <1>5, CacheChanges DEF q
<1>7. cache' \in [Core -> Seq(Object)] /\ \A d \in Core : Len(cache'[d]) <= Capacity
  BY <1>1, <1>3, <1>5, CacheChanges
<1> QED BY <1>2, <1>4, <1>6, <1>7 DEF v, q

-----------------------------------------------------------------------------
(***************************************************************************)
(* How often the variables of a call hold an object.                       *)
(***************************************************************************)
Has(r, o) == Cardinality(CallIdx(r, o))
One(P) == IF P THEN 1 ELSE 0

LEMMA HasNone ==
  ASSUME NEW r, r.batch = <<>>, NEW o PROVE Has(r, o) = 0
<1>1. CallIdx(r, o) = {}
  <2>1. Len(r.batch) = 0 OBVIOUS
  <2>2. \A i \in 1 .. CWND : ~ i <= 0 BY CacheAssumption
  <2> QED BY <2>1, <2>2 DEF CallIdx
<1> QED BY <1>1, FS_EmptySet DEF Has

\* A batch without repetitions.
LEMMA HasBatch ==
  ASSUME NEW r \in CacheCall, r.at # "fill", Len(r.batch) <= CWND, IsInjective(r.batch), NEW o
  PROVE  Has(r, o) = One(o \in ToSet(r.batch))
<1> DEFINE b == r.batch
<1>1. b \in Seq(Object) /\ Len(b) \in Nat BY DEF CacheCall
<1>2. CallIdx(r, o) = {i \in 1 .. CWND : i <= Len(b) /\ b[i] = o} BY DEF CallIdx
<1>3. DOMAIN b = 1 .. Len(b) /\ \A i \in 1 .. CWND : i <= Len(b) <=> i \in 1 .. Len(b)
  BY <1>1, CacheAssumption
<1>4. 1 .. Len(b) \subseteq 1 .. CWND BY <1>1, CacheAssumption
<1> HIDE DEF b
<1>5. CallIdx(r, o) = {i \in DOMAIN b : b[i] = o} BY <1>2, <1>3, <1>4
<1>6. \A i, j \in CallIdx(r, o) : i = j BY <1>5 DEF IsInjective, b
<1>7. CallIdx(r, o) = {} <=> o \notin ToSet(b) BY <1>5 DEF ToSet
<1>8. Cardinality(CallIdx(r, o)) = IF CallIdx(r, o) = {} THEN 0 ELSE 1 BY <1>6, AtMostOne
<1> QED BY <1>7, <1>8 DEF Has, One, b

\* A refill: the n-th object of its batch and those behind it.
LEMMA HasNext ==
  ASSUME NEW r \in CacheCall, r.at = "fill", CallHas(r), NEW q, q = [r EXCEPT !.n = r.n + 1],
         NEW o
  PROVE  Has(q, o) \in Nat /\ Has(r, o) = Has(q, o) + One(r.batch[r.n] = o)
<1> DEFINE b == r.batch
           n == r.n
<1>1. b \in Seq(Object) /\ Len(b) = CWND /\ n \in 1 .. CWND /\ CWND \in Nat
  BY CacheAssumption DEF CacheCall, CallHas
<1>2. q.at = "fill" /\ q.batch = b /\ q.n = n + 1 BY DEF CacheCall
<1> HIDE DEF b, n
<1>3. CallIdx(r, o) = {i \in 1 .. CWND : b[i] = o /\ n <= i}
  BY <1>1 DEF CallIdx, b, n
<1>4. CallIdx(q, o) = {i \in 1 .. CWND : b[i] = o /\ n + 1 <= i}
  BY <1>1, <1>2 DEF CallIdx
<1>5. \A i \in 1 .. CWND : n <= i <=> (n + 1 <= i \/ i = n) BY <1>1
<1>6. ~ n + 1 <= n BY <1>1
<1> DEFINE Q == CallIdx(q, o)
<1>7. CallIdx(r, o) = IF b[n] = o THEN Q \cup {n} ELSE Q BY <1>1, <1>3, <1>4, <1>5
<1>8. n \notin Q BY <1>4, <1>6
<1>9. IsFiniteSet(Q)
  <2>1. Q \in SUBSET (1 .. CWND) BY <1>4
  <2>2. IsFiniteSet(1 .. CWND) BY <1>1, FS_Interval
  <2> HIDE DEF Q
  <2> QED BY <2>1, <2>2, FS_Subset
<1> HIDE DEF Q
<1>10. Cardinality(Q) \in Nat BY <1>9, FS_CardinalityType
<1>11. Cardinality(Q \cup {n}) = Cardinality(Q) + 1 BY <1>8, <1>9, FS_AddElement
<1>12. Cardinality(CallIdx(r, o)) = Cardinality(Q) + One(b[n] = o)
  BY <1>7, <1>10, <1>11 DEF One
<1> QED BY <1>10, <1>12 DEF Has, Q, b, n

\* A refill from its first object on, and the end of a refill.
LEMMA HasFresh ==
  ASSUME NEW r \in CacheCall, r.at = "fill", CallHas(r), r.n = 1, IsInjective(r.batch), NEW o
  PROVE  Has(r, o) = One(o \in ToSet(r.batch))
<1> DEFINE q == [r EXCEPT !.at = "drain"]
<1>1. q \in CacheCall /\ q.at # "fill" /\ q.batch = r.batch BY DEF CacheCall
<1>2. Len(r.batch) = CWND /\ CWND \in Nat BY CacheAssumption DEF CallHas
<1>3. Has(q, o) = One(o \in ToSet(q.batch))
  <2> HIDE DEF q
  <2>1. IsInjective(q.batch) /\ Len(q.batch) <= CWND BY <1>1, <1>2
  <2> QED BY <1>1, <2>1, HasBatch
<1>4. CallIdx(q, o) = CallIdx(r, o)
  <2>1. \A i \in 1 .. CWND : 1 <= i OBVIOUS
  <2> HIDE DEF q
  <2> QED BY <1>1, <2>1 DEF CallIdx
<1> HIDE DEF q
<1> QED BY <1>1, <1>3, <1>4 DEF Has

LEMMA HasRest ==
  ASSUME NEW r \in CacheCall, r.at = "fill", CallHas(r), NEW o,
         r.n < CWND => IsInjective(SubSeq(r.batch, r.n + 1, CWND))
  PROVE  Has(r, o) = One(r.batch[r.n] = o)
                       + One(r.n < CWND /\ o \in ToSet(SubSeq(r.batch, r.n + 1, CWND)))
<1> DEFINE b == r.batch
           n == r.n
           q == [r EXCEPT !.n = n + 1]
           Q == CallIdx(q, o)
           s == SubSeq(b, n + 1, CWND)
<1>1. b \in Seq(Object) /\ Len(b) = CWND /\ n \in 1 .. CWND /\ CWND \in Nat
  BY CacheAssumption DEF CacheCall, CallHas
<1>2. q.at = "fill" /\ q.batch = b /\ q.n = n + 1 BY DEF CacheCall
<1>3. Has(r, o) = Has(q, o) + One(b[n] = o) /\ Has(q, o) \in Nat BY HasNext
<1> HIDE DEF q
<1>4. Q = {i \in 1 .. CWND : b[i] = o /\ n + 1 <= i}
  BY <1>1, <1>2 DEF CallIdx
<1> HIDE DEF Q
<1>5. CASE n = CWND
  <2>1. Q = {} BY <1>1, <1>4, <1>5
  <2>2. Has(q, o) = 0 BY <2>1, FS_EmptySet DEF Has, Q
  <2>3. ~ n < CWND BY <1>1, <1>5
  <2> QED BY <1>3, <2>2, <2>3 DEF One
<1>6. CASE n < CWND
  <2>1. /\ s \in Seq(Object) /\ Len(s) = CWND - n
        /\ \A i \in 1 .. CWND - n : s[i] = b[n + i]
    <3>1. n + 1 \in Int /\ \A i \in n + 1 .. CWND : b[i] \in Object BY <1>1
    <3> DEFINE m == n + 1
    <3>2. /\ SubSeq(b, m, CWND) \in Seq(Object)
          /\ Len(SubSeq(b, m, CWND)) = IF m <= CWND THEN CWND - m + 1 ELSE 0
          /\ \A i \in 1 .. CWND - m + 1 : SubSeq(b, m, CWND)[i] = b[m + i - 1]
      <4>1. m \in Int /\ \A i \in m .. CWND : b[i] \in Object BY <3>1
      <4> HIDE DEF b, m
      <4> QED BY <1>1, <4>1, SubSeqProperties
    <3>3. m <= CWND /\ CWND - m + 1 = CWND - n /\ \A i \in 1 .. CWND - n : m + i - 1 = n + i
      BY <1>1, <1>6
    <3> HIDE DEF b, m
    <3>4. s = SubSeq(b, m, CWND) BY DEF m
    <3> HIDE DEF s
    <3> QED BY <3>2, <3>3, <3>4
  <2>2. IsInjective(s) BY <1>6
  <2>3. DOMAIN s = 1 .. CWND - n BY <2>1
  <2> HIDE DEF s, b, n
  <2>4. \A i \in Q : i - n \in 1 .. CWND - n /\ s[i - n] = o /\ i \in Int
    <3> TAKE i \in Q
    <3>1. i \in 1 .. CWND /\ b[i] = o /\ n + 1 <= i BY <1>4
    <3>2. i - n \in 1 .. CWND - n /\ n + (i - n) = i /\ i \in Int BY <1>1, <3>1
    <3> QED BY <2>1, <3>1, <3>2
  <2>5. \A i, j \in Q : i = j
    <3> TAKE i, j \in Q
    <3>1. i - n = j - n BY <2>2, <2>3, <2>4 DEF IsInjective
    <3> QED BY <1>1, <2>4, <3>1
  <2>6. \A i \in 1 .. CWND - n : s[i] = o => n + i \in Q
    <3> TAKE i \in 1 .. CWND - n
    <3>1. n + i \in 1 .. CWND /\ n + 1 <= n + i BY <1>1
    <3> QED BY <1>4, <2>1, <3>1
  <2>7. Q = {} <=> o \notin ToSet(s)
    <3>1. o \in ToSet(s) <=> \E i \in 1 .. CWND - n : s[i] = o BY <2>3 DEF ToSet
    <3> QED BY <2>4, <2>6, <3>1
  <2>8. Cardinality(Q) = IF Q = {} THEN 0 ELSE 1 BY <2>5, AtMostOne
  <2>9. Has(q, o) = One(o \in ToSet(s)) BY <2>7, <2>8 DEF Has, One, Q
  <2> QED BY <1>3, <1>6, <2>9 DEF s, b, n, One
<1>7. n = CWND \/ n < CWND BY <1>1
<1> QED BY <1>5, <1>6, <1>7

\* pop_batch: one more object in the batch of an eviction.
LEMMA HasMore ==
  ASSUME NEW r \in CacheCall, r.at = "drain", Len(r.batch) < CWND, NEW v \in Object,
         NEW q \in CacheCall, q.at = "drain", q.batch = Append(r.batch, v), NEW o
  PROVE  Has(q, o) = Has(r, o) + One(v = o)
<1>1. r.batch \in Seq(Object) /\ CWND \in Nat BY CacheAssumption DEF CacheCall
<1>2. CallIdx(r, o) = Spots(r.batch, CWND, o) BY DEF CallIdx, Spots
<1>3. CallIdx(q, o) = Spots(Append(r.batch, v), CWND, o) BY DEF CallIdx, Spots
<1>4. Cardinality(Spots(Append(r.batch, v), CWND, o))
        = Cardinality(Spots(r.batch, CWND, o)) + IF v = o THEN 1 ELSE 0
  BY <1>1, OneMore
<1> QED BY <1>2, <1>3, <1>4 DEF Has, One

-----------------------------------------------------------------------------
(***************************************************************************)
(* The balance of a step of one thread.                                    *)
(***************************************************************************)
Balanced ==
  \A o \in Object :
    Places(o)' + Cardinality(Lost(o)) = Places(o) + Cardinality(Gained(o))

\* The places of an object that are not in the hands of a call.
Settled(o) == One(o \in zone) + held[o] + Cardinality(InCaches(o))

LEMMA SettledIsNat ==
  /\ held \in [Object -> Nat] => \A o \in Object : Settled(o) \in Nat
  /\ held' \in [Object -> Nat] => \A o \in Object : Settled(o)' \in Nat
<1>1. ASSUME NEW C \in SUBSET (Core \X (1 .. Capacity)) PROVE Cardinality(C) \in Nat
  <2>1. IsFiniteSet(1 .. Capacity) BY FS_Interval, CacheAssumption
  <2>2. IsFiniteSet(Core \X (1 .. Capacity)) BY <2>1, FS_Product, CacheAssumption
  <2> QED BY <2>2, FS_Subset, FS_CardinalityType
<1>2. \A o : /\ InCaches(o) \in SUBSET (Core \X (1 .. Capacity))
             /\ InCaches(o)' \in SUBSET (Core \X (1 .. Capacity))
  BY DEF InCaches
<1>3. \A o : Cardinality(InCaches(o)) \in Nat /\ Cardinality(InCaches(o)') \in Nat
  BY <1>1, <1>2
<1>4. ASSUME held \in [Object -> Nat], NEW o \in Object PROVE Settled(o) \in Nat
  BY <1>3, <1>4 DEF Settled, One
<1>5. ASSUME held' \in [Object -> Nat], NEW o \in Object PROVE Settled(o)' \in Nat
  BY <1>3, <1>5 DEF Settled, One
<1> QED BY <1>4, <1>5

LEMMA NotReturning ==
  ASSUME CpuInv, NEW t \in CacheThread, NEW r, th' = [th EXCEPT ![t] = r],
         ~ (th[t].at = "fill" /\ r.at = "idle")
  PROVE  \A o : Cardinality(Lost(o)) = 0 /\ Cardinality(Gained(o)) = 0
<1>1. Returning = {} BY DEF Returning, CpuInv
<1>2. \A o : Lost(o) = {} /\ Gained(o) = {} BY <1>1 DEF Lost, Gained
<1> QED BY <1>2, FS_EmptySet

LEMMA Returns ==
  ASSUME CpuInv, NEW t \in CacheThread, NEW r, th' = [th EXCEPT ![t] = r],
         th[t].at = "fill", r.at = "idle"
  PROVE  \A o : /\ Cardinality(Lost(o)) = One(th[t].batch[th[t].n] = o)
                /\ Cardinality(Gained(o)) = One(th[t].batch[1] = o)
<1>1. Returning = {t} BY DEF Returning, CpuInv
<1> TAKE o
<1>2. Lost(o) = IF th[t].batch[th[t].n] = o THEN {t} ELSE {} BY <1>1 DEF Lost
<1>3. Gained(o) = IF th[t].batch[1] = o THEN {t} ELSE {} BY <1>1 DEF Gained
<1>4. Cardinality({}) = 0 /\ Cardinality({t}) = 1 BY FS_EmptySet, FS_Singleton
<1> QED BY <1>2, <1>3, <1>4 DEF One

\* What the zone, the owners and the caches gain, the call loses.
LEMMA Account ==
  ASSUME CpuInv, NEW t \in CacheThread, NEW r \in CacheCall, CallHas(r),
         th' = [th EXCEPT ![t] = r],
         zone' \subseteq Object, held' \in [Object -> Nat],
         cache' \in [Core -> Seq(Object)], \A c \in Core : Len(cache'[c]) <= Capacity,
         \A o \in Object : Settled(o)' + Has(r, o) + Cardinality(Lost(o))
                             = Settled(o) + Has(th[t], o) + Cardinality(Gained(o)),
         \A o \in Object : Cardinality(Lost(o)) \in Nat /\ Cardinality(Gained(o)) \in Nat
  PROVE  CpuInv' /\ Balanced
<1>1. /\ th' \in [CacheThread -> CacheCall] /\ \A u \in CacheThread : CallHas(th'[u])
      /\ \A o : /\ Cardinality(InCalls(o)) \in Nat /\ Cardinality(InCalls(o)') \in Nat
                /\ Has(th[t], o) \in Nat /\ Has(r, o) \in Nat
                /\ Cardinality(InCalls(o)') + Has(th[t], o)
                     = Cardinality(InCalls(o)) + Has(r, o)
  BY CallChanges DEF Has
<1>2. CpuInv' BY <1>1 DEF CpuInv
<1>3. ASSUME NEW o \in Object
      PROVE  Places(o)' + Cardinality(Lost(o)) = Places(o) + Cardinality(Gained(o))
  <2>1. Settled(o) \in Nat BY SettledIsNat DEF CpuInv
  <2>2. Settled(o)' \in Nat BY SettledIsNat
  <2>3. Places(o) = Settled(o) + Cardinality(InCalls(o)) BY DEF Places, Settled, One
  <2>4. Places(o)' = Settled(o)' + Cardinality(InCalls(o)') BY DEF Places, Settled, One
  <2>5. /\ Settled(o)' + Has(r, o) + Cardinality(Lost(o))
             = Settled(o) + Has(th[t], o) + Cardinality(Gained(o))
        /\ Cardinality(Lost(o)) \in Nat /\ Cardinality(Gained(o)) \in Nat
    OBVIOUS
  <2>6. /\ Cardinality(InCalls(o)) \in Nat /\ Cardinality(InCalls(o)') \in Nat
        /\ Has(th[t], o) \in Nat /\ Has(r, o) \in Nat
        /\ Cardinality(InCalls(o)') + Has(th[t], o) = Cardinality(InCalls(o)) + Has(r, o)
    BY <1>1
  <2> DEFINE a == Settled(o)'
             b == Settled(o)
             c == Cardinality(InCalls(o)')
             d == Cardinality(InCalls(o))
             h == Has(th[t], o)
             i == Has(r, o)
             l == Cardinality(Lost(o))
             g == Cardinality(Gained(o))
  <2>7. a \in Nat /\ b \in Nat /\ c \in Nat /\ d \in Nat BY <2>1, <2>2, <2>6
  <2>9. h \in Nat /\ i \in Nat /\ l \in Nat /\ g \in Nat BY <2>5, <2>6
  <2>10. a + i + l = b + h + g BY <2>5
  <2>11. c + h = d + i BY <2>6
  <2>8. (a + c) + l = (b + d) + g
    <3> HIDE DEF a, b, c, d, h, i, l, g
    <3> QED BY <2>7, <2>9, <2>10, <2>11
  <2> QED BY <2>3, <2>4, <2>8
<1> QED BY <1>2, <1>3 DEF Balanced

\* The same, when no refill returns.
LEMMA PlainAccount ==
  ASSUME CpuInv, NEW t \in CacheThread, NEW r \in CacheCall, CallHas(r),
         th' = [th EXCEPT ![t] = r], ~ (th[t].at = "fill" /\ r.at = "idle"),
         zone' \subseteq Object, held' \in [Object -> Nat],
         cache' \in [Core -> Seq(Object)], \A c \in Core : Len(cache'[c]) <= Capacity,
         \A o \in Object : Settled(o)' + Has(r, o) = Settled(o) + Has(th[t], o)
  PROVE  CpuInv' /\ Balanced
<1>1. \A o : Cardinality(Lost(o)) = 0 /\ Cardinality(Gained(o)) = 0 BY NotReturning
<1>2. ASSUME NEW o \in Object
      PROVE  Settled(o)' + Has(r, o) + Cardinality(Lost(o))
               = Settled(o) + Has(th[t], o) + Cardinality(Gained(o))
  <2>1. Settled(o) \in Nat BY SettledIsNat DEF CpuInv
  <2>2. Settled(o)' \in Nat BY SettledIsNat
  <2>3. Has(th[t], o) \in Nat /\ Has(r, o) \in Nat BY CallChanges DEF Has
  <2> QED BY <1>1, <2>1, <2>2, <2>3
<1>3. \A o \in Object : Cardinality(Lost(o)) \in Nat /\ Cardinality(Gained(o)) \in Nat
  BY <1>1
<1> QED BY <1>2, <1>3, Account

-----------------------------------------------------------------------------
(***************************************************************************)
(* The steps.                                                              *)
(***************************************************************************)
LEMMA Current ==
  ASSUME CpuInv, NEW t \in CacheThread
  PROVE  /\ th[t] \in CacheCall /\ CallHas(th[t])
         /\ th[t].batch \in Seq(Object) /\ th[t].n \in Nat
         /\ CWND \in Nat /\ CWND > 1
BY CacheAssumption DEF CpuInv, CacheCall

LEMMA Parts ==
  ASSUME CpuInv, held' \in [Object -> Nat], NEW o \in Object
  PROVE  /\ held[o] \in Nat /\ held'[o] \in Nat
         /\ Cardinality(InCaches(o)) \in Nat /\ Cardinality(InCaches(o)') \in Nat
         /\ cache' = cache => Cardinality(InCaches(o)') = Cardinality(InCaches(o))
         /\ Settled(o) = One(o \in zone) + held[o] + Cardinality(InCaches(o))
         /\ Settled(o)' = One(o \in zone') + held'[o] + Cardinality(InCaches(o)')
<1>1. ASSUME NEW C \in SUBSET (Core \X (1 .. Capacity)) PROVE Cardinality(C) \in Nat
  <2>1. IsFiniteSet(1 .. Capacity) BY FS_Interval, CacheAssumption
  <2>2. IsFiniteSet(Core \X (1 .. Capacity)) BY <2>1, FS_Product, CacheAssumption
  <2> QED BY <2>2, FS_Subset, FS_CardinalityType
<1>2. /\ InCaches(o) \in SUBSET (Core \X (1 .. Capacity))
      /\ InCaches(o)' \in SUBSET (Core \X (1 .. Capacity))
  BY DEF InCaches
<1>3. Cardinality(InCaches(o)) \in Nat /\ Cardinality(InCaches(o)') \in Nat
  BY <1>1, <1>2
<1>4. cache' = cache => InCaches(o)' = InCaches(o) BY DEF InCaches
<1>5. held[o] \in Nat /\ held'[o] \in Nat BY DEF CpuInv
<1> QED BY <1>3, <1>4, <1>5 DEF Settled, One

\* A call moves on to another step.
LEMMA AtStep ==
  ASSUME NEW r \in CacheCall,
         NEW a \in {"idle", "zone", "refill", "fill", "push", "evict", "drain"}
  PROVE  LET q == [r EXCEPT !.at = a]
         IN  q \in CacheCall /\ q.at = a /\ q.batch = r.batch /\ q.n = r.n
BY DEF CacheCall

LEMMA HandsOut ==
  ASSUME CpuInv, NEW p \in Object, Hand(p)
  PROVE  held' \in [Object -> Nat] /\ \A o \in Object : held'[o] = held[o] + One(o = p)
BY DEF CpuInv, Hand, One

LEMMA IdleCall == NoCall \in CacheCall /\ NoCall.batch = <<>> /\ NoCall.at = "idle" /\ CallHas(NoCall)
<1>1. NoCall \in CacheCall /\ NoCall.batch = <<>> /\ NoCall.at = "idle" BY DEF NoCall, CacheCall
<1> QED BY <1>1 DEF CallHas

\* The end of a deallocate.
LEMMA AfterCall ==
  ASSUME CpuInv, NEW t \in CacheThread, AfterDealloc(t)
  PROVE  \E r \in CacheCall : /\ r.batch = <<>> /\ r.at \in {"idle", "zone"} /\ CallHas(r)
                              /\ th' = [th EXCEPT ![t] = r]
<1> DEFINE z == [[NoCall EXCEPT !.req = th[t].req] EXCEPT !.at = "zone"]
<1>1. th[t] \in CacheCall BY Current
<1> DEFINE y == [NoCall EXCEPT !.req = th[t].req]
<1>2. NoCall \in CacheCall /\ NoCall.batch = <<>> /\ NoCall.at = "idle" BY IdleCall
<1>3. z \in CacheCall /\ z.batch = <<>> /\ z.at = "zone"
  <2>1. th[t].req \in Request \cup {Nil} BY <1>1 DEF CacheCall
  <2>2. y \in CacheCall /\ y.batch = <<>> BY <1>2, <2>1 DEF CacheCall
  <2>3. z = [y EXCEPT !.at = "zone"] OBVIOUS
  <2> HIDE DEF y, z
  <2> QED BY <2>2, <2>3, AtStep
<1>4. th' = [th EXCEPT ![t] = NoCall] \/ th' = [th EXCEPT ![t] = z]
  BY DEF AfterDealloc, Done, Enter
<1> HIDE DEF z
<1>5. CallHas(NoCall) /\ CallHas(z) BY <1>2, <1>3 DEF CallHas
<1> QED BY <1>2, <1>3, <1>4, <1>5

LEMMA AllocFromZoneBalances ==
  ASSUME CpuInv, NEW t \in CacheThread, AllocFromZone(t)
  PROVE  CpuInv' /\ Balanced
<1>1. th[t].batch = <<>> /\ th[t].at = "zone" BY Current DEF AllocFromZone, CallHas
<1>2. th' = [th EXCEPT ![t] = NoCall] /\ cache' = cache BY DEF AllocFromZone, Done
<1>3. /\ zone' \subseteq Object /\ held' \in [Object -> Nat]
      /\ \A o \in Object : One(o \in zone') + held'[o] = One(o \in zone) + held[o]
  <2>1. \/ \E p \in zone : zone' = zone \ {p} /\ Hand(p)
        \/ zone' = zone /\ held' = held
    BY DEF AllocFromZone
  <2>2. ASSUME NEW p \in zone, zone' = zone \ {p}, Hand(p)
        PROVE  /\ zone' \subseteq Object /\ held' \in [Object -> Nat]
               /\ \A o \in Object : One(o \in zone') + held'[o] = One(o \in zone) + held[o]
    <3>1. p \in Object /\ zone \subseteq Object /\ held \in [Object -> Nat] BY DEF CpuInv
    <3>2. held' \in [Object -> Nat] /\ \A o \in Object : held'[o] = held[o] + One(o = p)
      BY <2>2, <3>1, HandsOut
    <3> QED BY <2>2, <3>1, <3>2 DEF One
  <2> QED BY <2>1, <2>2 DEF CpuInv
<1>4. ASSUME NEW o \in Object
      PROVE  Settled(o)' + Has(NoCall, o) = Settled(o) + Has(th[t], o)
  <2>1. Has(NoCall, o) = 0 /\ Has(th[t], o) = 0 BY <1>1, IdleCall, HasNone
  <2> QED BY <1>2, <1>3, <2>1, Parts DEF One
<1>5. cache' \in [Core -> Seq(Object)] /\ \A c \in Core : Len(cache'[c]) <= Capacity
  BY <1>2 DEF CpuInv
<1>6. ~ (th[t].at = "fill" /\ NoCall.at = "idle") BY <1>1
<1> QED BY <1>2, <1>3, <1>4, <1>5, <1>6, IdleCall, PlainAccount

LEMMA AllocateBalances ==
  ASSUME CpuInv, NEW t \in CacheThread, NEW c \in Core, NEW ask \in Request, Allocate(t, c, ask)
  PROVE  CpuInv' /\ Balanced
<1> DEFINE call == [NoCall EXCEPT !.req = ask]
           o == Last(cache[c])
           large == [call EXCEPT !.at = "zone"]
           empty == [[call EXCEPT !.cpu = c] EXCEPT !.at = "refill"]
           back == [[call EXCEPT !.batch = <<o>>] EXCEPT !.at = "push"]
<1>1. th[t].at = "idle" /\ th[t].batch = <<>> BY Current DEF Allocate, CallHas
<1>2. \A p : Has(th[t], p) = 0 BY <1>1, HasNone
<1>3. /\ zone \subseteq Object /\ held \in [Object -> Nat]
      /\ cache \in [Core -> Seq(Object)] /\ \A d \in Core : Len(cache[d]) <= Capacity
  BY DEF CpuInv
<1>9. call \in CacheCall /\ call.batch = <<>>
  <2>1. NoCall \in CacheCall /\ NoCall.batch = <<>> BY IdleCall
  <2>2. ask \in Request \cup {Nil} OBVIOUS
  <2> QED BY <2>1, <2>2 DEF CacheCall
<1>4. zone' = zone
      /\ \/ /\ th' = [th EXCEPT ![t] = large] \/ th' = [th EXCEPT ![t] = empty]
            /\ UNCHANGED <<cache, held>>
         \/ pop(c) /\ Hand(o) /\ th' = [th EXCEPT ![t] = NoCall]
         \/ pop(c) /\ th' = [th EXCEPT ![t] = back] /\ held' = held
  BY DEF Allocate, Done, Enter
<1>5. CASE /\ th' = [th EXCEPT ![t] = large] \/ th' = [th EXCEPT ![t] = empty]
           /\ UNCHANGED <<cache, held>>
  <2>1. large \in CacheCall /\ large.batch = <<>> /\ large.at = "zone"
    <3> HIDE DEF call
    <3> QED BY <1>9, AtStep
  <2>2. empty \in CacheCall /\ empty.batch = <<>> /\ empty.at = "refill"
    <3> DEFINE q == [call EXCEPT !.cpu = c]
    <3> HIDE DEF call
    <3>1. q \in CacheCall /\ q.batch = <<>> BY <1>9 DEF CacheCall
    <3>2. empty = [q EXCEPT !.at = "refill"] OBVIOUS
    <3> HIDE DEF q, empty
    <3> QED BY <3>1, <3>2, AtStep
  <2> HIDE DEF large, empty, call
  <2>3. PICK r \in {large, empty} : th' = [th EXCEPT ![t] = r] BY <1>5
  <2>4. r \in CacheCall /\ CallHas(r) /\ r.batch = <<>> BY <2>1, <2>2 DEF CallHas
  <2>5. ASSUME NEW p \in Object PROVE Settled(p)' + Has(r, p) = Settled(p) + Has(th[t], p)
    <3>1. Has(r, p) = 0 BY <2>4, HasNone
    <3> QED BY <1>2, <1>3, <1>4, <1>5, <3>1, Parts DEF One
  <2> QED BY <1>1, <1>3, <1>4, <1>5, <2>3, <2>4, <2>5, PlainAccount
<1>6. ASSUME pop(c)
      PROVE  /\ o \in Object
             /\ cache' \in [Core -> Seq(Object)] /\ \A d \in Core : Len(cache'[d]) <= Capacity
             /\ \A p : /\ Cardinality(InCaches(p)) \in Nat /\ Cardinality(InCaches(p)') \in Nat
                       /\ Cardinality(InCaches(p)') + One(o = p) = Cardinality(InCaches(p))
  BY <1>6, PopRemoves DEF One
<1>7. CASE pop(c) /\ Hand(o) /\ th' = [th EXCEPT ![t] = NoCall]
  <2> HIDE DEF o
  <2>1. held' \in [Object -> Nat] /\ \A p \in Object : held'[p] = held[p] + One(p = o)
    BY <1>6, <1>7, HandsOut
  <2>2. ASSUME NEW p \in Object
        PROVE  Settled(p)' + Has(NoCall, p) = Settled(p) + Has(th[t], p)
    <3>1. Has(NoCall, p) = 0 BY IdleCall, HasNone
    <3>2. /\ held[p] \in Nat /\ held'[p] = held[p] + One(p = o)
          /\ Cardinality(InCaches(p)) \in Nat /\ Cardinality(InCaches(p)') \in Nat
          /\ Cardinality(InCaches(p)') + One(o = p) = Cardinality(InCaches(p))
          /\ Settled(p) = One(p \in zone) + held[p] + Cardinality(InCaches(p))
          /\ Settled(p)' = One(p \in zone) + held'[p] + Cardinality(InCaches(p)')
      BY <1>4, <1>6, <1>7, <2>1, Parts
    <3> QED BY <1>2, <3>1, <3>2 DEF One
  <2> QED BY <1>1, <1>3, <1>4, <1>6, <1>7, <2>1, <2>2, IdleCall, PlainAccount
<1>8. CASE pop(c) /\ th' = [th EXCEPT ![t] = back] /\ held' = held
  <2>1. o \in Object BY <1>6, <1>8
  <2> HIDE DEF o
  <2>2. back \in CacheCall /\ back.batch = <<o>> /\ back.at = "push"
    <3> DEFINE q == [call EXCEPT !.batch = <<o>>]
    <3> HIDE DEF call
    <3>0. <<o>> \in Seq(Object) BY <2>1
    <3>1. q \in CacheCall /\ q.batch = <<o>> BY <1>9, <3>0 DEF CacheCall
    <3>2. back = [q EXCEPT !.at = "push"] OBVIOUS
    <3> HIDE DEF q, back
    <3> QED BY <3>1, <3>2, AtStep
  <2> HIDE DEF back
  <2>3. CallHas(back) BY <2>2 DEF CallHas
  <2>4. ASSUME NEW p \in Object
        PROVE  Settled(p)' + Has(back, p) = Settled(p) + Has(th[t], p)
    <3>1. Has(back, p) = One(p = o)
      <4>1. Len(back.batch) <= CWND /\ IsInjective(back.batch)
        BY <2>2, Current DEF IsInjective
      <4>2. ToSet(back.batch) = {o} BY <2>2 DEF ToSet
      <4> QED BY <2>2, <4>1, <4>2, HasBatch DEF One
    <3>2. /\ held[p] \in Nat /\ held'[p] = held[p]
          /\ Cardinality(InCaches(p)) \in Nat /\ Cardinality(InCaches(p)') \in Nat
          /\ Cardinality(InCaches(p)') + One(o = p) = Cardinality(InCaches(p))
          /\ Settled(p) = One(p \in zone) + held[p] + Cardinality(InCaches(p))
          /\ Settled(p)' = One(p \in zone) + held'[p] + Cardinality(InCaches(p)')
      BY <1>3, <1>4, <1>6, <1>8, Parts
    <3> QED BY <1>2, <3>1, <3>2 DEF One
  <2> QED BY <1>1, <1>3, <1>4, <1>6, <1>8, <2>2, <2>3, <2>4, PlainAccount
<1> QED BY <1>4, <1>5, <1>7, <1>8

LEMMA RefillBalances ==
  ASSUME CpuInv, NEW t \in CacheThread, NEW c \in Core, Refill(t, c)
  PROVE  CpuInv' /\ Balanced
<1> DEFINE stay == [th[t] EXCEPT !.at = "zone"]
<1>1. /\ th[t] \in CacheCall /\ th[t].at = "refill" /\ th[t].batch = <<>>
      /\ CWND \in Nat /\ CWND > 1
  BY Current DEF Refill, CallHas
<1>2. \A p : Has(th[t], p) = 0 BY <1>1, HasNone
<1>3. /\ zone \subseteq Object /\ held \in [Object -> Nat]
      /\ cache \in [Core -> Seq(Object)] /\ \A d \in Core : Len(cache[d]) <= Capacity
  BY DEF CpuInv
<1>4. /\ UNCHANGED <<cache, held>>
      /\ \/ \E b \in Batches :
              /\ zone' = zone \ ToSet(b)
              /\ th' = [th EXCEPT ![t] = [[th[t] EXCEPT !.batch = b, !.n = 1] EXCEPT !.at = "fill"]]
         \/ zone' = zone /\ th' = [th EXCEPT ![t] = stay]
  BY DEF Refill, Enter
<1>5. CASE zone' = zone /\ th' = [th EXCEPT ![t] = stay]
  <2>1. stay \in CacheCall /\ stay.at = "zone" /\ stay.batch = <<>> BY <1>1, AtStep
  <2> HIDE DEF stay
  <2>2. CallHas(stay) BY <2>1 DEF CallHas
  <2>3. ASSUME NEW p \in Object PROVE Settled(p)' + Has(stay, p) = Settled(p) + Has(th[t], p)
    <3>1. Has(stay, p) = 0 BY <2>1, HasNone
    <3>2. Settled(p)' = Settled(p) BY <1>3, <1>4, <1>5, Parts
    <3> QED BY <1>2, <3>1, <3>2
  <2> QED BY <1>1, <1>3, <1>4, <1>5, <2>1, <2>2, <2>3, PlainAccount
<1>6. ASSUME NEW b \in Batches,
             zone' = zone \ ToSet(b),
             th' = [th EXCEPT ![t] = [[th[t] EXCEPT !.batch = b, !.n = 1] EXCEPT !.at = "fill"]]
      PROVE  CpuInv' /\ Balanced
  <2> DEFINE r == [[th[t] EXCEPT !.batch = b, !.n = 1] EXCEPT !.at = "fill"]
  <2>1. PICK s \in SUBSET (zone \cap SmallObject) : Cardinality(s) = CWND /\ b \in SetToSeqs(s)
    BY DEF Batches
  <2>2. b \in [1 .. CWND -> s] /\ \A i, j \in 1 .. CWND : i # j => b[i] # b[j]
    BY <2>1, CardinalityIs DEF SetToSeqs
  <2>3. b \in Seq(Object) /\ Len(b) = CWND /\ IsInjective(b) /\ ToSet(b) \subseteq zone
    <3>1. s \subseteq zone /\ s \subseteq Object BY <1>3
    <3> QED BY <1>1, <2>2, <3>1 DEF IsInjective, ToSet
  <2>4. r \in CacheCall /\ r.at = "fill" /\ r.batch = b /\ r.n = 1
    <3> DEFINE q == [th[t] EXCEPT !.batch = b, !.n = 1]
    <3>1. q \in CacheCall /\ q.batch = b /\ q.n = 1 BY <1>1, <2>3 DEF CacheCall
    <3>2. r = [q EXCEPT !.at = "fill"] OBVIOUS
    <3> HIDE DEF q, r
    <3> QED BY <3>1, <3>2 DEF CacheCall
  <2>5. th' = [th EXCEPT ![t] = r] BY <1>6
  <2> HIDE DEF r
  <2>6. CallHas(r) BY <1>1, <2>3, <2>4 DEF CallHas
  <2>7. ASSUME NEW p \in Object PROVE Settled(p)' + Has(r, p) = Settled(p) + Has(th[t], p)
    <3>1. Has(r, p) = One(p \in ToSet(b)) BY <2>3, <2>4, <2>6, HasFresh
    <3>2. One(p \in zone') + One(p \in ToSet(b)) = One(p \in zone) BY <1>6, <2>3 DEF One
    <3>3. /\ held[p] \in Nat /\ held'[p] = held[p]
          /\ Cardinality(InCaches(p)) \in Nat
          /\ Settled(p) = One(p \in zone) + held[p] + Cardinality(InCaches(p))
          /\ Settled(p)' = One(p \in zone') + held[p] + Cardinality(InCaches(p))
      BY <1>3, <1>4, Parts
    <3> QED BY <1>2, <3>1, <3>2, <3>3 DEF One
  <2>8. zone' \subseteq Object BY <1>3, <1>6
  <2> QED BY <1>1, <1>3, <1>4, <2>4, <2>5, <2>6, <2>7, <2>8, PlainAccount
<1> QED BY <1>4, <1>5, <1>6

LEMMA PushBatchBalances ==
  ASSUME CpuInv, NEW t \in CacheThread, NEW c \in Core, PushBatch(t, c)
  PROVE  CpuInv' /\ Balanced
<1> DEFINE n == th[t].n
           v == th[t].batch[n]
           q == [th[t] EXCEPT !.n = n + 1]
           r == [q EXCEPT !.at = "fill"]
<1>1. /\ th[t] \in CacheCall /\ CallHas(th[t]) /\ th[t].at = "fill" /\ n < CWND
      /\ th[t].batch \in Seq(Object) /\ n \in Nat /\ CWND \in Nat
      /\ Len(th[t].batch) = CWND /\ n \in 1 .. CWND
  BY Current DEF PushBatch, CallHas
<1>2. v \in Object BY <1>1
<1>3. push(c, v) /\ zone' = zone /\ held' = held /\ th' = [th EXCEPT ![t] = r]
  BY DEF PushBatch, Enter
<1>4. q \in CacheCall /\ q.at = "fill" /\ q.batch = th[t].batch /\ q.n = n + 1
  BY <1>1 DEF CacheCall
<1>5. r = q /\ r \in CacheCall
  <2> HIDE DEF q
  <2> QED BY <1>4 DEF CacheCall
<1>6. \A p : Has(q, p) \in Nat /\ Has(th[t], p) = Has(q, p) + One(v = p)
  BY <1>1, HasNext
<1> HIDE DEF q, r
<1>7. CallHas(r)
  <2>1. n + 1 \in 1 .. CWND BY <1>1
  <2> QED BY <1>1, <1>4, <1>5, <2>1 DEF CallHas
<1> HIDE DEF v
<1>8. /\ cache' \in [Core -> Seq(Object)] /\ \A d \in Core : Len(cache'[d]) <= Capacity
      /\ \A o : /\ Cardinality(InCaches(o)) \in Nat
                /\ Cardinality(InCaches(o)') = Cardinality(InCaches(o)) + One(v = o)
  BY <1>2, <1>3, PushAdds DEF One
<1>9. zone \subseteq Object /\ held \in [Object -> Nat] BY DEF CpuInv
<1>10. ASSUME NEW p \in Object PROVE Settled(p)' + Has(r, p) = Settled(p) + Has(th[t], p)
  <2>1. /\ held[p] \in Nat
        /\ Settled(p) = One(p \in zone) + held[p] + Cardinality(InCaches(p))
        /\ Settled(p)' = One(p \in zone) + held[p] + Cardinality(InCaches(p)')
    BY <1>3, <1>9, Parts
  <2>2. /\ Has(r, p) \in Nat /\ Has(th[t], p) = Has(r, p) + One(v = p)
        /\ Cardinality(InCaches(p)) \in Nat
        /\ Cardinality(InCaches(p)') = Cardinality(InCaches(p)) + One(v = p)
    BY <1>5, <1>6, <1>8
  <2> QED BY <2>1, <2>2 DEF One
<1>11. ~ (th[t].at = "fill" /\ r.at = "idle") BY <1>4, <1>5
<1> QED BY <1>3, <1>5, <1>7, <1>8, <1>9, <1>10, <1>11, PlainAccount

LEMMA RefillReturnBalances ==
  ASSUME CpuInv, NEW t \in CacheThread, NEW c \in Core, RefillReturn(t, c)
  PROVE  CpuInv' /\ Balanced
<1> DEFINE b == th[t].batch
           n == th[t].n
           s == SubSeq(b, n + 1, CWND)
           Rest(p) == One(n < CWND /\ p \in ToSet(s))
<1>1. /\ th[t] \in CacheCall /\ CallHas(th[t]) /\ th[t].at = "fill"
      /\ b \in Seq(Object) /\ Len(b) = CWND /\ n \in 1 .. CWND /\ CWND \in Nat /\ CWND > 1
  BY Current DEF RefillReturn, CallHas
<1>2. /\ zone \subseteq Object /\ held \in [Object -> Nat]
      /\ cache \in [Core -> Seq(Object)] /\ \A d \in Core : Len(cache[d]) <= Capacity
  BY DEF CpuInv
<1>3. /\ \/ n < CWND /\ deallocate_batch_to_slab(s)
         \/ n = CWND /\ zone' = zone
      /\ Hand(b[1]) /\ th' = [th EXCEPT ![t] = NoCall] /\ cache' = cache
  BY DEF RefillReturn, Done
<1>4. n < CWND => IsInjective(s) /\ ToSet(s) \cap zone = {} /\ zone' = zone \cup ToSet(s)
  BY <1>1, <1>3 DEF deallocate_batch_to_slab
<1>5. n < CWND => ToSet(s) \subseteq Object
  <2>1. \A i \in n + 1 .. CWND : b[i] \in Object BY <1>1
  <2>2. s \in Seq(Object)
    <3> DEFINE m == n + 1
    <3>1. m \in Int BY <1>1
    <3> HIDE DEF b, n, m
    <3>2. SubSeq(b, m, CWND) \in Seq(Object) BY <1>1, <2>1, <3>1, SubSeqProperties DEF m
    <3> QED BY <3>2 DEF m
  <2> HIDE DEF s
  <2> QED BY <2>2 DEF ToSet
<1>6. \A p : Has(th[t], p) = One(b[n] = p) + Rest(p) BY <1>1, <1>4, HasRest
<1>7. \A p : Cardinality(Lost(p)) = One(b[n] = p) /\ Cardinality(Gained(p)) = One(b[1] = p)
  BY <1>1, <1>3, IdleCall, Returns
<1>8. b[1] \in Object BY <1>1
<1> HIDE DEF s, b, n
<1>9. /\ zone' \subseteq Object
      /\ \A p : One(p \in zone') = One(p \in zone) + Rest(p)
  <2>1. CASE n < CWND BY <1>2, <1>4, <1>5, <2>1 DEF One
  <2>2. CASE ~ n < CWND BY <1>2, <1>3, <2>2 DEF One
  <2> QED BY <2>1, <2>2
<1>10. held' \in [Object -> Nat] /\ \A p \in Object : held'[p] = held[p] + One(p = b[1])
  BY <1>3, <1>8, HandsOut
<1>11. \A P : One(P) \in {0, 1} BY DEF One
<1> HIDE DEF Rest
<1>12. ASSUME NEW p \in Object
       PROVE  Settled(p)' + Has(NoCall, p) + Cardinality(Lost(p))
                = Settled(p) + Has(th[t], p) + Cardinality(Gained(p))
  <2>1. /\ held[p] \in Nat /\ Cardinality(InCaches(p)) \in Nat
        /\ Settled(p) = One(p \in zone) + held[p] + Cardinality(InCaches(p))
        /\ Settled(p)' = One(p \in zone') + held'[p] + Cardinality(InCaches(p))
    BY <1>2, <1>3, <1>10, Parts
  <2>2. Has(NoCall, p) = 0 BY IdleCall, HasNone
  <2>3. held'[p] = held[p] + One(b[1] = p) BY <1>10 DEF One
  <2> DEFINE z == One(p \in zone)
             y == Rest(p)
             l == One(b[n] = p)
             g == One(b[1] = p)
  <2>4. z \in {0, 1} /\ y \in {0, 1} /\ l \in {0, 1} /\ g \in {0, 1} BY <1>11 DEF Rest
  <2>5. /\ Settled(p) = z + held[p] + Cardinality(InCaches(p))
        /\ Settled(p)' = (z + y) + (held[p] + g) + Cardinality(InCaches(p))
        /\ Has(th[t], p) = l + y /\ Cardinality(Lost(p)) = l /\ Cardinality(Gained(p)) = g
    BY <1>6, <1>7, <1>9, <2>1, <2>3
  <2> HIDE DEF z, y, l, g
  <2> QED BY <2>1, <2>2, <2>4, <2>5
<1>13. \A p \in Object : Cardinality(Lost(p)) \in Nat /\ Cardinality(Gained(p)) \in Nat
  BY <1>7, <1>11
<1> QED BY <1>2, <1>3, <1>9, <1>10, <1>12, <1>13, IdleCall, Account

\* A call that has one object in its hands.
LEMMA HasOne ==
  ASSUME NEW r \in CacheCall, r.at \in {"push", "evict", "drain"}, NEW v \in Object,
         r.batch = <<v>>, NEW p
  PROVE  Has(r, p) = One(p = v)
<1>1. Len(r.batch) <= CWND /\ IsInjective(r.batch) BY CacheAssumption DEF IsInjective
<1>2. ToSet(r.batch) = {v} BY DEF ToSet
<1> QED BY <1>1, <1>2, HasBatch DEF One

LEMMA DeallocateBalances ==
  ASSUME CpuInv, NEW t \in CacheThread, NEW v \in Object, Deallocate(t, v)
  PROVE  CpuInv' /\ Balanced
<1> DEFINE q == [NoCall EXCEPT !.batch = <<v>>]
           r == [q EXCEPT !.at = "push"]
<1>1. th[t].at = "idle" /\ th[t].batch = <<>> BY Current DEF Deallocate, CallHas
<1>2. /\ zone \subseteq Object /\ held \in [Object -> Nat]
      /\ cache \in [Core -> Seq(Object)] /\ \A d \in Core : Len(cache[d]) <= Capacity
  BY DEF CpuInv
<1>3. /\ held[v] > 0 /\ held' = [held EXCEPT ![v] = @ - 1]
      /\ th' = [th EXCEPT ![t] = r] /\ cache' = cache /\ zone' = zone
  BY DEF Deallocate, Enter
<1>4. q \in CacheCall /\ q.batch = <<v>>
  <2>1. <<v>> \in Seq(Object) OBVIOUS
  <2> QED BY <2>1, IdleCall DEF CacheCall
<1> HIDE DEF q
<1>5. r \in CacheCall /\ r.at = "push" /\ r.batch = <<v>> BY <1>4 DEF CacheCall
<1> HIDE DEF r
<1>6. CallHas(r) BY <1>5 DEF CallHas
<1>7. held' \in [Object -> Nat] /\ \A p \in Object : held'[p] + One(p = v) = held[p]
  BY <1>2, <1>3 DEF One
<1>8. ASSUME NEW p \in Object PROVE Settled(p)' + Has(r, p) = Settled(p) + Has(th[t], p)
  <2>1. Has(r, p) = One(p = v) /\ Has(th[t], p) = 0 BY <1>1, <1>5, HasOne, HasNone
  <2>2. /\ held[p] \in Nat /\ held'[p] \in Nat /\ held'[p] + One(p = v) = held[p]
        /\ Cardinality(InCaches(p)) \in Nat
        /\ Settled(p) = One(p \in zone) + held[p] + Cardinality(InCaches(p))
        /\ Settled(p)' = One(p \in zone) + held'[p] + Cardinality(InCaches(p))
    BY <1>2, <1>3, <1>7, Parts
  <2> QED BY <2>1, <2>2 DEF One
<1> QED BY <1>1, <1>2, <1>3, <1>5, <1>6, <1>7, <1>8, PlainAccount

\* A call gives what it has to the zone, without repetitions and new to the zone, and ends.
LEMMA GivesToZone ==
  ASSUME CpuInv, NEW t \in CacheThread, NEW S \in SUBSET Object,
         AfterDealloc(t), th[t].at # "fill", S \cap zone = {}, zone' = zone \cup S,
         cache' = cache, held' = held, \A p : Has(th[t], p) = One(p \in S)
  PROVE  CpuInv' /\ Balanced
<1>1. PICK r \in CacheCall : /\ r.batch = <<>> /\ CallHas(r) /\ th' = [th EXCEPT ![t] = r]
  BY AfterCall
<1>2. /\ zone \subseteq Object /\ held \in [Object -> Nat]
      /\ cache \in [Core -> Seq(Object)] /\ \A d \in Core : Len(cache[d]) <= Capacity
  BY DEF CpuInv
<1>3. ASSUME NEW p \in Object PROVE Settled(p)' + Has(r, p) = Settled(p) + Has(th[t], p)
  <2>1. Has(r, p) = 0 /\ Has(th[t], p) = One(p \in S) BY <1>1, HasNone
  <2>2. One(p \in zone') = One(p \in zone) + One(p \in S) BY DEF One
  <2>3. /\ held[p] \in Nat /\ Cardinality(InCaches(p)) \in Nat
        /\ Settled(p) = One(p \in zone) + held[p] + Cardinality(InCaches(p))
        /\ Settled(p)' = One(p \in zone') + held[p] + Cardinality(InCaches(p))
    BY <1>2, Parts
  <2> QED BY <2>1, <2>2, <2>3 DEF One
<1>4. zone' \subseteq Object BY <1>2
<1> QED BY <1>1, <1>2, <1>3, <1>4, PlainAccount

\* A call moves on, and keeps what it has in its hands.
LEMMA OnlyMovesOn ==
  ASSUME CpuInv, NEW t \in CacheThread, NEW r \in CacheCall, CallHas(r),
         th' = [th EXCEPT ![t] = r], r.at # "fill", r.at # "idle", th[t].at # "fill",
         r.batch = th[t].batch, UNCHANGED <<cache, zone, held>>
  PROVE  CpuInv' /\ Balanced
<1>1. /\ zone \subseteq Object /\ held \in [Object -> Nat]
      /\ cache \in [Core -> Seq(Object)] /\ \A d \in Core : Len(cache[d]) <= Capacity
  BY DEF CpuInv
<1>2. \A p : Has(r, p) = Has(th[t], p) BY DEF Has, CallIdx
<1>3. \A p \in Object : Settled(p)' = Settled(p) BY DEF Settled, InCaches
<1> QED BY <1>1, <1>2, <1>3, PlainAccount

LEMMA OneInHand ==
  ASSUME CpuInv, NEW t \in CacheThread, th[t].at \in {"push", "evict"}
  PROVE  LET o == th[t].batch[1]
         IN  o \in Object /\ th[t].batch = <<o>> /\ \A p : Has(th[t], p) = One(p \in {o})
<1> DEFINE o == th[t].batch[1]
<1>1. /\ th[t] \in CacheCall /\ th[t].batch \in Seq(Object) /\ Len(th[t].batch) = 1
  BY Current DEF CallHas
<1>2. o \in Object /\ th[t].batch = <<o>> BY <1>1
<1>3. \A p : Has(th[t], p) = One(p = o) BY <1>1, <1>2, HasOne
<1>4. \A p : One(p \in {o}) = One(p = o) BY DEF One
<1> QED BY <1>2, <1>3, <1>4

LEMMA PushBalances ==
  ASSUME CpuInv, NEW t \in CacheThread, NEW c \in Core, Push(t, c)
  PROVE  CpuInv' /\ Balanced
<1> DEFINE o == th[t].batch[1]
           q == [th[t] EXCEPT !.cpu = c, !.n = 1]
           r == [q EXCEPT !.at = "evict"]
<1>1. th[t].at = "push" /\ held' = held /\ th[t] \in CacheCall BY Current DEF Push
<1>2. o \in Object /\ th[t].batch = <<o>> /\ \A p : Has(th[t], p) = One(p \in {o})
  BY <1>1, OneInHand
<1>3. \/ dealloc_to_zone(o) /\ AfterDealloc(t) /\ cache' = cache
      \/ push(c, o) /\ AfterDealloc(t) /\ zone' = zone
      \/ th' = [th EXCEPT ![t] = r] /\ UNCHANGED <<cache, zone>>
  BY DEF Push, Enter
<1>4. CASE dealloc_to_zone(o) /\ AfterDealloc(t) /\ cache' = cache
  <2> HIDE DEF o
  <2>1. {o} \cap zone = {} /\ zone' = zone \cup {o} BY <1>4 DEF dealloc_to_zone
  <2> QED BY <1>1, <1>2, <1>4, <2>1, GivesToZone
<1>5. CASE push(c, o) /\ AfterDealloc(t) /\ zone' = zone
  <2> HIDE DEF o
  <2>1. PICK u \in CacheCall : /\ u.batch = <<>> /\ CallHas(u) /\ th' = [th EXCEPT ![t] = u]
    BY <1>5, AfterCall
  <2>2. /\ cache' \in [Core -> Seq(Object)] /\ \A d \in Core : Len(cache'[d]) <= Capacity
        /\ \A p : /\ Cardinality(InCaches(p)) \in Nat
                  /\ Cardinality(InCaches(p)')
                       = Cardinality(InCaches(p)) + IF o = p THEN 1 ELSE 0
    BY <1>2, <1>5, PushAdds
  <2>3. zone \subseteq Object /\ held \in [Object -> Nat] BY DEF CpuInv
  <2>4. ASSUME NEW p \in Object PROVE Settled(p)' + Has(u, p) = Settled(p) + Has(th[t], p)
    <3>1. Has(u, p) = 0 /\ Has(th[t], p) = One(p \in {o}) BY <1>2, <2>1, HasNone
    <3>2. /\ held[p] \in Nat /\ Cardinality(InCaches(p)) \in Nat
          /\ Settled(p) = One(p \in zone) + held[p] + Cardinality(InCaches(p))
          /\ Settled(p)' = One(p \in zone) + held[p] + Cardinality(InCaches(p)')
          /\ Cardinality(InCaches(p)') = Cardinality(InCaches(p)) + IF o = p THEN 1 ELSE 0
      BY <1>1, <1>5, <2>2, <2>3, Parts
    <3> QED BY <3>1, <3>2 DEF One
  <2> QED BY <1>1, <1>5, <2>1, <2>2, <2>3, <2>4, PlainAccount
<1>6. CASE th' = [th EXCEPT ![t] = r] /\ UNCHANGED <<cache, zone>>
  <2>1. q \in CacheCall /\ q.batch = th[t].batch /\ q.n = 1 BY <1>1 DEF CacheCall
  <2> HIDE DEF q
  <2>2. r \in CacheCall /\ r.at = "evict" /\ r.batch = th[t].batch /\ r.n = 1
    BY <2>1 DEF CacheCall
  <2> HIDE DEF r
  <2>3. CallHas(r) BY <1>2, <2>2 DEF CallHas
  <2> QED BY <1>1, <1>6, <2>2, <2>3, OnlyMovesOn
<1> QED BY <1>3, <1>4, <1>5, <1>6

LEMMA EvictBalances ==
  ASSUME CpuInv, NEW t \in CacheThread, NEW c \in Core, Evict(t, c)
  PROVE  CpuInv' /\ Balanced
<1> DEFINE o == th[t].batch[1]
           r == [th[t] EXCEPT !.at = "drain"]
<1>1. /\ th[t].at = "evict" /\ held' = held /\ cache' = cache
      /\ th[t] \in CacheCall /\ th[t].n = 1 /\ CWND \in Nat /\ CWND > 1
  BY Current DEF Evict, CallHas
<1>2. o \in Object /\ th[t].batch = <<o>> /\ \A p : Has(th[t], p) = One(p \in {o})
  BY <1>1, OneInHand
<1>3. \/ th' = [th EXCEPT ![t] = r] /\ zone' = zone
      \/ dealloc_to_zone(o) /\ AfterDealloc(t)
  BY DEF Evict, Enter
<1>4. CASE dealloc_to_zone(o) /\ AfterDealloc(t)
  <2> HIDE DEF o
  <2>1. {o} \cap zone = {} /\ zone' = zone \cup {o} BY <1>4 DEF dealloc_to_zone
  <2> QED BY <1>1, <1>2, <1>4, <2>1, GivesToZone
<1>5. CASE th' = [th EXCEPT ![t] = r] /\ zone' = zone
  <2>1. r \in CacheCall /\ r.at = "drain" /\ r.batch = th[t].batch /\ r.n = 1
    BY <1>1 DEF CacheCall
  <2> HIDE DEF r
  <2>2. CallHas(r) BY <1>1, <1>2, <2>1 DEF CallHas
  <2> QED BY <1>1, <1>5, <2>1, <2>2, OnlyMovesOn
<1> QED BY <1>3, <1>4, <1>5

LEMMA PopBatchBalances ==
  ASSUME CpuInv, NEW t \in CacheThread, NEW c \in Core, PopBatch(t, c)
  PROVE  CpuInv' /\ Balanced
<1> DEFINE b == th[t].batch
           n == th[t].n
           v == Last(cache[c])
           q == [th[t] EXCEPT !.batch = Append(b, v), !.n = n + 1]
           r == [q EXCEPT !.at = "drain"]
<1>1. /\ th[t] \in CacheCall /\ th[t].at = "drain" /\ b \in Seq(Object) /\ Len(b) = n
      /\ n \in Nat /\ n < CWND - 1 /\ CWND \in Nat /\ CWND > 1
  BY Current DEF PopBatch, CallHas
<1>2. pop(c) /\ th' = [th EXCEPT ![t] = r] /\ zone' = zone /\ held' = held
  BY DEF PopBatch, Enter
<1>3. /\ v \in Object
      /\ cache' \in [Core -> Seq(Object)] /\ \A d \in Core : Len(cache'[d]) <= Capacity
      /\ \A p : /\ Cardinality(InCaches(p)) \in Nat /\ Cardinality(InCaches(p)') \in Nat
                /\ Cardinality(InCaches(p)') + One(v = p) = Cardinality(InCaches(p))
  BY <1>2, PopRemoves DEF One
<1> HIDE DEF v
<1>4. Append(b, v) \in Seq(Object) /\ Len(Append(b, v)) = n + 1 /\ n + 1 \in Nat BY <1>1, <1>3
<1>5. q \in CacheCall /\ q.batch = Append(b, v) /\ q.n = n + 1 BY <1>1, <1>4 DEF CacheCall
<1> HIDE DEF q
<1>6. r \in CacheCall /\ r.at = "drain" /\ r.batch = Append(b, v) /\ r.n = n + 1
  BY <1>5 DEF CacheCall
<1> HIDE DEF r
<1>7. CallHas(r)
  <2>1. n + 1 \in 1 .. CWND - 1 BY <1>1
  <2> QED BY <1>4, <1>6, <2>1 DEF CallHas
<1>8. zone \subseteq Object /\ held \in [Object -> Nat] BY DEF CpuInv
<1>9. ASSUME NEW p \in Object PROVE Settled(p)' + Has(r, p) = Settled(p) + Has(th[t], p)
  <2>1. Has(r, p) = Has(th[t], p) + One(v = p)
    <3> DEFINE h == th[t]
    <3>1. /\ h \in CacheCall /\ h.at = "drain" /\ Len(h.batch) < CWND /\ v \in Object
          /\ r \in CacheCall /\ r.at = "drain" /\ r.batch = Append(h.batch, v)
      BY <1>1, <1>3, <1>6
    <3> HIDE DEF h
    <3>2. Has(r, p) = Has(h, p) + One(v = p) BY <3>1, HasMore
    <3> QED BY <3>2 DEF h
  <2>2. Has(th[t], p) \in Nat BY <1>2, <1>6, <1>7, CallChanges DEF Has
  <2>3. /\ held[p] \in Nat
        /\ Settled(p) = One(p \in zone) + held[p] + Cardinality(InCaches(p))
        /\ Settled(p)' = One(p \in zone) + held[p] + Cardinality(InCaches(p)')
        /\ Cardinality(InCaches(p)) \in Nat /\ Cardinality(InCaches(p)') \in Nat
        /\ Cardinality(InCaches(p)') + One(v = p) = Cardinality(InCaches(p))
    BY <1>2, <1>3, <1>8, Parts
  <2> QED BY <2>1, <2>2, <2>3 DEF One
<1> QED BY <1>1, <1>2, <1>3, <1>6, <1>7, <1>8, <1>9, PlainAccount

LEMMA EvictReturnBalances ==
  ASSUME CpuInv, NEW t \in CacheThread, NEW c \in Core, EvictReturn(t, c)
  PROVE  CpuInv' /\ Balanced
<1> DEFINE b == th[t].batch
           S == ToSet(b)
<1>1. /\ th[t] \in CacheCall /\ th[t].at = "drain" /\ b \in Seq(Object) /\ Len(b) <= CWND
  BY Current DEF EvictReturn, CallHas
<1>2. /\ IsInjective(b) /\ S \cap zone = {} /\ zone' = zone \cup S
      /\ AfterDealloc(t) /\ cache' = cache /\ held' = held
  BY DEF EvictReturn, deallocate_batch_to_slab
<1>3. \A p : Has(th[t], p) = One(p \in S) BY <1>1, <1>2, HasBatch
<1>4. S \subseteq Object BY <1>1 DEF ToSet
<1> HIDE DEF S
<1> QED BY <1>1, <1>2, <1>3, <1>4, GivesToZone

\* Every step keeps the invariant and is balanced; one that changes nothing is too.
LEMMA CpuStep == CpuInv /\ [CpuNext]_cpuVars => CpuInv' /\ [Balanced]_cpuVars
<1>1. ASSUME CpuInv, UNCHANGED cpuVars PROVE CpuInv'
  BY <1>1 DEF CpuInv, cpuVars
<1>2. ASSUME CpuInv, CpuNext PROVE CpuInv' /\ Balanced
  <2>1. PICK t \in CacheThread :
          \/ AllocFromZone(t)
          \/ \E o \in Object : Deallocate(t, o)
          \/ \E c \in Core :
               \/ \E ask \in Request : Allocate(t, c, ask)
               \/ Refill(t, c) \/ PushBatch(t, c) \/ RefillReturn(t, c)
               \/ Push(t, c) \/ Evict(t, c) \/ PopBatch(t, c) \/ EvictReturn(t, c)
    BY <1>2 DEF CpuNext
  <2>2. CASE AllocFromZone(t) BY <1>2, <2>2, AllocFromZoneBalances
  <2>3. CASE \E o \in Object : Deallocate(t, o) BY <1>2, <2>3, DeallocateBalances
  <2>4. ASSUME NEW c \in Core,
               \/ \E ask \in Request : Allocate(t, c, ask)
               \/ Refill(t, c) \/ PushBatch(t, c) \/ RefillReturn(t, c)
               \/ Push(t, c) \/ Evict(t, c) \/ PopBatch(t, c) \/ EvictReturn(t, c)
        PROVE  CpuInv' /\ Balanced
    BY <1>2, <2>4, AllocateBalances, RefillBalances, PushBatchBalances, RefillReturnBalances,
       PushBalances, EvictBalances, PopBatchBalances, EvictReturnBalances
  <2> QED BY <2>1, <2>2, <2>3, <2>4
<1> QED BY <1>1, <1>2

LEMMA InitCpuInv == CpuInit => CpuInv
<1> SUFFICES ASSUME CpuInit PROVE CpuInv OBVIOUS
<1>1. NoCall \in CacheCall /\ CallHas(NoCall) BY IdleCall
<1>2. <<>> \in Seq(Object) /\ Len(<<>>) = 0 /\ 0 <= Capacity BY CacheAssumption
<1>3. cache = [c \in Core |-> <<>>] /\ zone = Object /\ held = [o \in Object |-> 0]
      /\ th = [t \in CacheThread |-> NoCall]
  BY DEF CpuInit
<1> QED BY <1>1, <1>2, <1>3 DEF CpuInv

(* BatchesBalance: refills, evictions, pushes and pops of the per-CPU cache, with the    *)
(* thread migrating between any two of them, move objects one for one between the zone,  *)
(* the caches and the callers; only the return of refill_cache exchanges one for another *)
(* (cache/cpu_cache.rs:595, 624).                                                        *)
THEOREM BatchesAlwaysBalance == CpuSpec => BatchesBalance
<1>1. CpuInv /\ [CpuNext]_cpuVars => CpuInv' /\ [Balanced]_cpuVars BY CpuStep
<1> QED BY <1>1, InitCpuInv, PTL DEF CpuSpec, BatchesBalance, Balanced
=============================================================================
