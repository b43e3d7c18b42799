----------------------------- MODULE RadixTree -----------------------------
(***************************************************************************)
(* The radix tree from pages to descriptors (collections/radix_tree.rs)    *)
(* and the way slabs enter and remove the pages of a block in it           *)
(* (handle_rd_tree_insert and handle_rd_tree_remove of efficient_sc.rs).   *)
(*                                                                         *)
(* Nothing is locked.  The root and the leaves are mapped by whoever finds *)
(* them missing and installed by compare_exchange; entries are plain words.*)
(* A step is one access to RDPTR, to a slot of the root or to an entry;    *)
(* mapping and unmapping a node only its thread knows goes with the step   *)
(* next to it.  A node is a function from slots to leaves or to values.    *)
(***************************************************************************)
EXTENDS Integers, Sequences, FiniteSets

CONSTANTS
  Thread,
  Leaves,       \* slots of the root in use (2^18 in the code)
  LeafSize,     \* entries of a leaf, 2^18 in the code
  InsertSplit,  \* 1 << 16: handle_rd_tree_insert splits at its multiples
  RemoveSplit,  \* 4096: handle_rd_tree_remove does at these
  Block,        \* blocks the slabs may own: <<first page, number of pages>>
  Null

ASSUME RadixAssumption ==
  /\ Leaves \in Nat \ {0} /\ LeafSize \in Nat \ {0}
  /\ InsertSplit \in Nat \ {0} /\ LeafSize % InsertSplit = 0
  /\ RemoveSplit \in Nat \ {0} /\ LeafSize % RemoveSplit = 0
  /\ Null \notin Nat
  /\ Block \subseteq Nat \X (1 .. RemoveSplit)
  /\ \A b \in Block : b[2] <= InsertSplit /\ b[1] + b[2] <= Leaves * LeafSize
  /\ \A b, c \in Block :
       b # c => b[1] + b[2] <= c[1] \/ c[1] + c[2] <= b[1]

Page == 0 .. Leaves * LeafSize - 1
Pages(b) == b[1] .. b[1] + b[2] - 1
Zero == <<0, 0>>             \* the word 0: nothing is entered
Value == Block \cup {Zero}   \* else the descriptor of a block stands for it

LeafOf(p) == p \div LeafSize
EntryOf(p) == p % LeafSize

VARIABLES
  rdptr,   \* RDPTR, the root
  mem,     \* the mapped nodes
  fresh,   \* the number of nodes ever mapped, whose next is the next address
  pc,      \* where a thread is in its call
  call,    \* what the call still has to do: parts <<first page, pages>>, of which
           \* the first done entries are written, and the value to be written
  tree,    \* the root and ...
  leaf,    \* ... the leaf a thread works on
  mine,    \* the node a thread has mapped and not installed yet
  got,     \* what the last get_mut of a thread has returned
  state    \* "out", "entering", "in" or "leaving", for every block

threadVars == <<pc, call, tree, leaf, mine>>
vars == <<rdptr, mem, fresh, threadVars, got, state>>

NodeId == 1 .. fresh
Idle == [op |-> "none", parts |-> <<>>, done |-> 0, value |-> Zero]

TypeOK ==
  /\ rdptr \in NodeId \cup {Null}
  /\ DOMAIN mem \subseteq NodeId /\ fresh \in Nat
  /\ \A t \in Thread :
       /\ pc[t] \in {"idle", "root", "casroot", "slot", "casleaf", "entry"}
       /\ pc[t] = "idle" <=> call[t] = Idle
       /\ pc[t] \in {"slot", "casleaf", "entry"} => tree[t] \in NodeId
       /\ pc[t] = "entry" => leaf[t] \in NodeId
       /\ mine[t] \in NodeId \cup {Null}
  /\ got \in [Thread -> Value]
  /\ state \in [Block -> {"out", "entering", "in", "leaving"}]

Init ==
  /\ rdptr = Null /\ mem = <<>> /\ fresh = 0
  /\ pc = [t \in Thread |-> "idle"]
  /\ call = [t \in Thread |-> Idle]
  /\ tree = [t \in Thread |-> Null]
  /\ leaf = [t \in Thread |-> Null]
  /\ mine = [t \in Thread |-> Null]
  /\ got = [t \in Thread |-> Zero]
  /\ state = [b \in Block |-> "out"]

Goto(t, where) == pc' = [pc EXCEPT ![t] = where]

-----------------------------------------------------------------------------
(***************************************************************************)
(* Calls.                                                                  *)
(***************************************************************************)
\* A block in one part, or in two that meet at a multiple of split.
Parts(b, split) ==
  LET rem == split - (b[1] % split)
  IN  IF rem >= b[2] THEN <<b>>
      ELSE << <<b[1], rem>>, <<b[1] + rem, b[2] - rem>> >>

Start(t, op, parts, value) ==
  /\ pc[t] = "idle"
  /\ call' = [call EXCEPT ![t] = [op |-> op, parts |-> parts, done |-> 0,
                                  value |-> value]]
  /\ Goto(t, "root")
  /\ UNCHANGED <<rdptr, mem, fresh, tree, leaf, mine, got>>

\* The thread that has just taken the block from the backend enters it ...
HandleRdTreeInsert(t, b) ==
  /\ state[b] = "out"
  /\ Start(t, "insert", Parts(b, InsertSplit), b)
  /\ state' = [state EXCEPT ![b] = "entering"]

\* ... and one that holds the slab's lock removes it.
HandleRdTreeRemove(t, b) ==
  /\ state[b] = "in"
  /\ Start(t, "remove", Parts(b, RemoveSplit), Zero)
  /\ state' = [state EXCEPT ![b] = "leaving"]

\* deallocate_batch looks up a page of a block of its own, free of the backend
\* the pages before and after one of its own.
GetMut(t, p) ==
  /\ Start(t, "get", << <<p, 1>> >>, Zero)
  /\ UNCHANGED state

Part(t) == Head(call[t].parts)

-----------------------------------------------------------------------------
(***************************************************************************)
(* get_rd_tree.                                                            *)
(***************************************************************************)
NewNode(n, size, init) ==
  mem' = [i \in DOMAIN mem \cup {n} |->
            IF i = n THEN [s \in 0 .. size - 1 |-> init] ELSE mem[i]]

Unmapped(n) == [i \in DOMAIN mem \ {n} |-> mem[i]]

LoadRoot(t) ==
  /\ pc[t] = "root"
  /\ \/ /\ rdptr # Null
        /\ tree' = [tree EXCEPT ![t] = rdptr]
        /\ Goto(t, "slot")
        /\ UNCHANGED <<mem, fresh, mine>>
     \/ /\ rdptr = Null
        /\ fresh' = fresh + 1
        /\ NewNode(fresh + 1, Leaves, Null)
        /\ mine' = [mine EXCEPT ![t] = fresh + 1]
        /\ Goto(t, "casroot")
        /\ UNCHANGED tree
  /\ UNCHANGED <<rdptr, call, leaf, got, state>>

CasRoot(t) ==
  /\ pc[t] = "casroot"
  /\ \/ /\ rdptr = Null
        /\ rdptr' = mine[t]
        /\ tree' = [tree EXCEPT ![t] = mine[t]]
        /\ UNCHANGED mem
     \/ /\ rdptr # Null
        /\ mem' = Unmapped(mine[t])
        /\ tree' = [tree EXCEPT ![t] = rdptr]
        /\ UNCHANGED rdptr
  /\ mine' = [mine EXCEPT ![t] = Null]
  /\ Goto(t, "slot")
  /\ UNCHANGED <<fresh, call, leaf, got, state>>

-----------------------------------------------------------------------------
(***************************************************************************)
(* RadixNodeHead: from the root to the leaf.                               *)
(***************************************************************************)
Slot(t) == mem[tree[t]][LeafOf(Part(t)[1])]

\* One part is done; the block has changed when all are.
EndPart(t) ==
  /\ leaf' = [leaf EXCEPT ![t] = Null]
  /\ \/ /\ Len(call[t].parts) > 1
        /\ call' = [call EXCEPT ![t].parts = Tail(@), ![t].done = 0]
        /\ Goto(t, "slot")
        /\ UNCHANGED <<tree, state>>
     \/ /\ Len(call[t].parts) = 1
        /\ call' = [call EXCEPT ![t] = Idle]
        /\ tree' = [tree EXCEPT ![t] = Null]
        /\ Goto(t, "idle")
        /\ state' = [b \in Block |->
             CASE Part(t)[1] \notin Pages(b) \/ call[t].op = "get" -> state[b]
               [] Part(t)[1] \in Pages(b) /\ call[t].op = "insert" -> "in"
               [] Part(t)[1] \in Pages(b) /\ call[t].op = "remove" -> "out"]

\* A missing leaf is made by insert; remove has nothing to do, and get_mut
\* returns 0.
LoadLeaf(t) ==
  /\ pc[t] = "slot"
  /\ \/ /\ Slot(t) # Null
        /\ leaf' = [leaf EXCEPT ![t] = Slot(t)]
        /\ Goto(t, "entry")
        /\ UNCHANGED <<mem, fresh, call, tree, mine, got, state>>
     \/ /\ Slot(t) = Null /\ call[t].op = "insert"
        /\ fresh' = fresh + 1
        /\ NewNode(fresh + 1, LeafSize, Zero)
        /\ mine' = [mine EXCEPT ![t] = fresh + 1]
        /\ Goto(t, "casleaf")
        /\ UNCHANGED <<call, tree, leaf, got, state>>
     \/ /\ Slot(t) = Null /\ call[t].op # "insert"
        /\ got' = IF call[t].op = "get" THEN [got EXCEPT ![t] = Zero] ELSE got
        /\ EndPart(t)
        /\ UNCHANGED <<mem, fresh, mine>>
  /\ UNCHANGED rdptr

\* Mutants: a store in place of the compare_exchange; a loser that keeps its
\* leaf mapped.
CasLeafStore(t) ==
  /\ pc[t] = "casleaf"
  /\ mem' = [mem EXCEPT ![tree[t]][LeafOf(Part(t)[1])] = mine[t]]
  /\ leaf' = [leaf EXCEPT ![t] = mine[t]]
  /\ mine' = [mine EXCEPT ![t] = Null]
  /\ Goto(t, "entry")
  /\ UNCHANGED <<rdptr, fresh, call, tree, got, state>>
CasLeafLeaks(t) ==
  /\ pc[t] = "casleaf"
  /\ \/ /\ Slot(t) = Null
        /\ mem' = [mem EXCEPT ![tree[t]][LeafOf(Part(t)[1])] = mine[t]]
        /\ leaf' = [leaf EXCEPT ![t] = mine[t]]
     \/ /\ Slot(t) # Null
        /\ leaf' = [leaf EXCEPT ![t] = Slot(t)]
        /\ UNCHANGED mem
  /\ mine' = [mine EXCEPT ![t] = Null]
  /\ Goto(t, "entry")
  /\ UNCHANGED <<rdptr, fresh, call, tree, got, state>>

CasLeaf(t) ==
  /\ pc[t] = "casleaf"
  /\ \/ /\ Slot(t) = Null
        /\ mem' = [mem EXCEPT ![tree[t]][LeafOf(Part(t)[1])] = mine[t]]
        /\ leaf' = [leaf EXCEPT ![t] = mine[t]]
     \/ /\ Slot(t) # Null
        /\ mem' = Unmapped(mine[t])
        /\ leaf' = [leaf EXCEPT ![t] = Slot(t)]
  /\ mine' = [mine EXCEPT ![t] = Null]
  /\ Goto(t, "entry")
  /\ UNCHANGED <<rdptr, fresh, call, tree, got, state>>

-----------------------------------------------------------------------------
(***************************************************************************)
(* RadixBottomNode: the entries of a part lie side by side in one leaf.    *)
(***************************************************************************)
EntryNow(t) == EntryOf(Part(t)[1]) + call[t].done

\* insert and remove write the entries one by one.
WriteEntry(t) ==
  /\ pc[t] = "entry" /\ call[t].op # "get"
  /\ mem' = [mem EXCEPT ![leaf[t]][EntryNow(t)] = call[t].value]
  /\ \/ /\ call[t].done + 1 < Part(t)[2]
        /\ call' = [call EXCEPT ![t].done = @ + 1]
        /\ UNCHANGED <<pc, tree, leaf, state>>
     \/ /\ call[t].done + 1 = Part(t)[2]
        /\ EndPart(t)
  /\ UNCHANGED <<rdptr, fresh, mine, got>>

ReadEntry(t) ==
  /\ pc[t] = "entry" /\ call[t].op = "get"
  /\ got' = [got EXCEPT ![t] = mem[leaf[t]][EntryNow(t)]]
  /\ EndPart(t)
  /\ UNCHANGED <<rdptr, mem, fresh, mine>>

Next ==
  \E t \in Thread :
    \/ \E b \in Block : HandleRdTreeInsert(t, b) \/ HandleRdTreeRemove(t, b)
    \/ \E b \in Block : \E p \in Pages(b) : GetMut(t, p)
    \/ LoadRoot(t) \/ CasRoot(t)
    \/ LoadLeaf(t) \/ CasLeaf(t)
    \/ WriteEntry(t) \/ ReadEntry(t)

Spec == Init /\ [][Next]_vars
-----------------------------------------------------------------------------
(***************************************************************************)
(* Properties.                                                             *)
(***************************************************************************)
Entry(p) ==
  IF rdptr = Null THEN Zero
  ELSE IF mem[rdptr][LeafOf(p)] = Null THEN Zero
  ELSE mem[mem[rdptr][LeafOf(p)]][EntryOf(p)]

\* A block that was entered is found at each of its pages, and one that was
\* removed, though split at other multiples than when it was entered, at none:
\* no entry is written to a node that lost, to a neighbour's page or not at all.
EntriesMatchBlocks ==
  \A b \in Block : \A p \in Pages(b) :
    /\ state[b] = "in" => Entry(p) = b
    /\ state[b] = "out" => Entry(p) = Zero

\* Every mapped node is the root, a leaf of it, or on its way there: the losers
\* of the compare_exchange unmap theirs.
NoNodeLeak ==
  \A n \in DOMAIN mem :
    \/ n = rdptr
    \/ rdptr # Null /\ \E i \in 0 .. Leaves - 1 : mem[rdptr][i] = n
    \/ \E t \in Thread : mine[t] = n

\* For its users the tree is a map that every call reads or writes page by page;
\* building nodes, and losing the race to, shows nowhere.
Map == INSTANCE PageMap WITH map <- [p \in Page |-> Entry(p)]
ImplementsMap == Map!Spec
=============================================================================
