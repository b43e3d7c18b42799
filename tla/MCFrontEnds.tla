----------------------------- MODULE MCFrontEnds -----------------------------
(***************************************************************************)
(* Small instances of what a build may have in front of the slabs: the     *)
(* per-CPU front end (CpuCache), the one for few threads (MemCache), and   *)
(* the per-CPU arrays one instruction at a time (PerCpuArray).  A          *)
(* behaviour is one of a single part, chosen in the initial state, while   *)
(* the others stay as they begin.                                          *)
(***************************************************************************)
EXTENDS CpuCache, MemCache, PerCpuArray

CONSTANTS e, y

VARIABLE build  \* the part that is running

\* Sections of four and of two words, and one object more than a section holds.
Pages == <<2, 1>>
Objects == SmallObject \cup {e} \cup LargeObject \cup {y}
Classes == [o \in Objects |-> IF o \in SmallObject \cup {e} THEN 1 ELSE 2]
WideObjects == WideObject \cup {y}

MCInit ==
  /\ build \in {"cpu", "mem", "percpu"}
  /\ CpuInit /\ MemInit /\ Init

MCNext ==
  /\ UNCHANGED build
  /\ \/ build = "cpu" /\ CpuNext /\ UNCHANGED <<memVars, vars>>
     \/ build = "mem" /\ MemNext /\ UNCHANGED <<cpuVars, vars>>
     \/ build = "percpu" /\ Next /\ UNCHANGED <<cpuVars, memVars>>

MCSpec == MCInit /\ [][MCNext]_<<build, cpuVars, memVars, vars>>
-----------------------------------------------------------------------------
Symmetry ==
  Permutations(Thread) \cup Permutations(Cpu) \cup Permutations(SmallObject \ WideObject)

(***************************************************************************)
(* What no step reads is not told apart.  In MemCache these are the words  *)
(* above a list, which are written before they are read.                   *)
(***************************************************************************)
MemView ==
  [t \in Owner |->
     [w \in MemWord |->
        IF \E cl \in Section : head[cl - 1] <= w /\ w < list[t][cl] THEN words[t][w]
        ELSE NoObject]]

(***************************************************************************)
(* In PerCpuArray they are the words from the top of an array on (a push   *)
(* writes the first of them before it commits, which is kept), the         *)
(* registers before they are loaded, and the published sequence of a       *)
(* thread that has not reached or has left it.                             *)
(***************************************************************************)
Written(c, w) == \E t \in Thread : pc[t][2] = "commit" /\ reg[t].cpu = c /\ reg[t].after = w
LiveWord(c, w) ==
  \/ \E cl \in Class : begin(cl) <= w /\ w < current[<<c, cl>>]
  \/ Written(c, w)
LiveReg(t) ==
  CASE pc[t][2] \in {"register", "prepare", "cpu"} ->
         [reg[t] EXCEPT !.cpu = None, !.before = 0, !.after = 0,
                        !.val = IF pc[t][1] = "pop" THEN None ELSE @]
    [] pc[t][2] = "current" -> [reg[t] EXCEPT !.before = 0, !.after = 0]
    [] pc[t][2] = "after" ->
         [reg[t] EXCEPT !.cpu = None, !.before = 0, !.after = IF Moved(t) THEN 1 ELSE 0]
    [] OTHER -> reg[t]
ArrayView ==
  <<current, [c \in Cpu |-> [w \in Word |-> IF LiveWord(c, w) THEN data[c][w] ELSE None]],
    mine, on, abi, [t \in Thread |-> IF InSection(t) THEN cs[t] ELSE None], pc,
    [t \in Thread |-> LiveReg(t)]>>

View ==
  <<build,
    CASE build = "cpu" -> cpuVars
      [] build = "mem" -> <<list, MemView, memZone, memHeld, alive>>
      [] build = "percpu" -> ArrayView>>
=============================================================================
