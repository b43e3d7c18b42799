------------------------- MODULE RadixTree_proofs -------------------------
(***************************************************************************)
(* Proofs about the radix tree, for every number of threads, every size of *)
(* root and leaves, every set of disjoint blocks:                          *)
(*   - EntriesMatchBlocks: an entered block is found at all of its pages,  *)
(*     a removed one at none (BlocksAreFound);                             *)
(*   - NoNodeLeak: no node is mapped and lost (NodesAreKept);              *)
(*   - ImplementsMap: for its users the tree is a map (TreeIsMap).         *)
(* The arithmetic comes first: a page is a slot of the root and an entry   *)
(* of a leaf, and a part, cut at a multiple of a divisor of the leaf size, *)
(* lies in one leaf.  The invariant is in five groups: the nodes, what     *)
(* each thread has mapped, where it stands, the parts it has left to       *)
(* write, and the blocks.  What each step does to the map of the pages is  *)
(* stated once (Entries...) and used for the invariant and the refinement. *)
(***************************************************************************)
EXTENDS RadixTree, SequenceTheorems, TLAPS

-----------------------------------------------------------------------------
(***************************************************************************)
(* Arithmetic.                                                             *)
(***************************************************************************)
\* Quotient and remainder.
LEMMA Division ==
  ASSUME NEW x \in Nat, NEW n \in Nat \ {0}
  PROVE  /\ x \div n \in Nat /\ x % n \in 0 .. n - 1
         /\ x = n * (x \div n) + (x % n)
  OBVIOUS

\* The multiple behind n * q.
LEMMA NextMultiple ==
  ASSUME NEW n \in Nat, NEW q \in Nat
  PROVE  n * q \in Nat /\ n * (q + 1) \in Nat /\ n * (q + 1) = n * q + n
<1>1. n * q \in Nat BY SMTT(30)
<1>2. n * (q + 1) = n * q + n BY SMTT(30)
<1> QED BY <1>1, <1>2

\* ... are the only numbers that give x.
LEMMA DivisionUnique ==
  ASSUME NEW n \in Nat \ {0}, NEW q \in Nat, NEW r \in 0 .. n - 1,
         NEW d \in Nat, NEW s \in 0 .. n - 1, n * q + r = n * d + s
  PROVE  q = d /\ r = s
<1>1. CASE q < d
  <2>1. n * (q + 1) <= n * d BY <1>1
  <2>2. n * (q + 1) = n * q + n BY NextMultiple
  <2> QED BY <2>1, <2>2
<1>2. CASE q > d
  <2>1. n * (d + 1) <= n * q BY <1>2
  <2>2. n * (d + 1) = n * d + n BY NextMultiple
  <2> QED BY <2>1, <2>2
<1> QED BY <1>1, <1>2

\* n * q + r has the quotient q and the remainder r.
LEMMA DivisionOf ==
  ASSUME NEW n \in Nat \ {0}, NEW q \in Nat, NEW r \in 0 .. n - 1
  PROVE  (n * q + r) \div n = q /\ (n * q + r) % n = r
<1> DEFINE x == n * q + r
<1>1. x \in Nat OBVIOUS
<1>2. /\ x \div n \in Nat /\ x % n \in 0 .. n - 1
      /\ n * q + r = n * (x \div n) + (x % n)
  BY <1>1, Division
<1> QED BY <1>2, DivisionUnique

Slots == 0 .. Leaves - 1
Entries == 0 .. LeafSize - 1

\* A page has a slot of the root and an entry of the leaf there, and is given
\* by them.
LEMMA PageSpot ==
  ASSUME NEW p \in Page
  PROVE  /\ LeafOf(p) \in Slots /\ EntryOf(p) \in Entries
         /\ p = LeafSize * LeafOf(p) + EntryOf(p)
<1>1. Leaves \in Nat \ {0} /\ LeafSize \in Nat \ {0} BY RadixAssumption
<1>2. p \in Nat /\ p < LeafSize * Leaves BY <1>1 DEF Page
<1>3. /\ LeafOf(p) \in Nat /\ EntryOf(p) \in 0 .. LeafSize - 1
      /\ p = LeafSize * LeafOf(p) + EntryOf(p)
  BY <1>1, <1>2, Division DEF LeafOf, EntryOf
<1>4. ASSUME LeafOf(p) >= Leaves PROVE FALSE
  <2>1. LeafSize * LeafOf(p) >= LeafSize * Leaves BY <1>1, <1>3, <1>4
  <2>2. LeafSize * LeafOf(p) \in Nat /\ LeafSize * Leaves \in Nat BY <1>1, <1>3
  <2> QED BY <2>1, <2>2, <1>2, <1>3
<1> QED BY <1>1, <1>3, <1>4 DEF Slots, Entries

\* A part: at least one page, all of them in one leaf.
Fits(part) ==
  /\ part[1] \in Page /\ part[2] \in Nat \ {0}
  /\ EntryOf(part[1]) + part[2] <= LeafSize

\* The entries of the pages of a part lie side by side.
LEMMA SideBySide ==
  ASSUME NEW part, Fits(part), NEW d \in 0 .. part[2] - 1
  PROVE  /\ part[1] + d \in Page
         /\ LeafOf(part[1] + d) = LeafOf(part[1])
         /\ EntryOf(part[1] + d) = EntryOf(part[1]) + d
<1> DEFINE x == part[1]  q == LeafOf(x)  e == EntryOf(x)
<1>1. Leaves \in Nat \ {0} /\ LeafSize \in Nat \ {0} BY RadixAssumption
<1>2. /\ q \in 0 .. Leaves - 1 /\ e \in 0 .. LeafSize - 1
      /\ x = LeafSize * q + e
      /\ x \in Nat
  BY PageSpot, <1>1 DEF Fits, Slots, Entries, Page
<1>3. e + d \in 0 .. LeafSize - 1 /\ d \in Nat BY <1>1, <1>2 DEF Fits
<1>4. x + d = LeafSize * q + (e + d)
  <2>1. LeafSize * q \in Nat BY <1>1, <1>2
  <2> QED BY <2>1, <1>2, <1>3
<1>5. (x + d) \div LeafSize = q /\ (x + d) % LeafSize = e + d
  <2>1. q \in Nat BY <1>2
  <2> HIDE DEF q, e, x
  <2> QED BY <1>1, <1>3, <1>4, <2>1, DivisionOf
<1>6. x + d \in Page
  <2>1. LeafSize * q <= LeafSize * (Leaves - 1) BY <1>1, <1>2
  <2>2. LeafSize * (Leaves - 1) = Leaves * LeafSize - LeafSize BY <1>1
  <2>3. LeafSize * q \in Nat /\ Leaves * LeafSize \in Nat BY <1>1, <1>2
  <2>4. x + d < Leaves * LeafSize /\ x + d \in Nat
    <3> HIDE DEF q, e, x
    <3> QED BY <1>1, <1>2, <1>3, <1>4, <2>1, <2>2, <2>3
  <2> QED BY <2>3, <2>4 DEF Page
<1> QED BY <1>5, <1>6 DEF LeafOf, EntryOf

\* No multiple of a divisor of the leaf size is passed before the leaf ends.
LEMMA LeafEndsAtMultiple ==
  ASSUME NEW split \in Nat \ {0}, LeafSize % split = 0, NEW p \in Page
  PROVE  /\ split - (p % split) \in 1 .. split
         /\ EntryOf(p) + (split - (p % split)) <= LeafSize
<1> DEFINE k == LeafSize \div split  a == LeafOf(p)  e == EntryOf(p)
           c == e \div split  f == e % split
<1>1. Leaves \in Nat \ {0} /\ LeafSize \in Nat \ {0} BY RadixAssumption
<1>2. k \in Nat /\ LeafSize = split * k
  <2>1. k \in Nat /\ LeafSize = split * k + 0 BY <1>1, Division
  <2> QED BY <2>1
<1>3. a \in Nat /\ e \in 0 .. LeafSize - 1 /\ p = LeafSize * a + e
  BY PageSpot, <1>1 DEF Slots, Entries
<1>4. c \in Nat /\ f \in 0 .. split - 1 /\ e = split * c + f
  <2>1. e \in Nat BY <1>1, <1>3
  <2> HIDE DEF e
  <2> QED BY <2>1, Division
<1> HIDE DEF k, a, e, c, f
<1>5. p = split * (k * a + c) + f
  <2>1. LeafSize * a = split * (k * a) BY <1>2, <1>3, SMTT(30)
  <2>2. split * (k * a + c) = split * (k * a) + split * c
    BY <1>2, <1>3, <1>4, SMTT(30)
  <2>3. split * (k * a) \in Nat /\ split * c \in Nat
    BY <1>2, <1>3, <1>4, NextMultiple
  <2> QED BY <2>1, <2>2, <2>3, <1>3, <1>4
<1>6. p % split = f
  <2>1. k * a + c \in Nat BY <1>2, <1>3, <1>4
  <2> QED BY <2>1, <1>4, <1>5, DivisionOf
<1>7. c < k
  <2>1. ASSUME c >= k PROVE FALSE
    <3>1. split * c >= split * k BY <2>1, <1>2, <1>4, SMTT(30)
    <3> QED BY <3>1, <1>1, <1>2, <1>3, <1>4
  <2> QED BY <2>1, <1>2, <1>4
<1>8. split * (c + 1) <= split * k /\ split * (c + 1) = split * c + split
  <2>1. split * (c + 1) <= split * k BY <1>7, <1>2, <1>4, SMTT(30)
  <2> QED BY <2>1, <1>4, NextMultiple
<1>9. e + (split - f) <= LeafSize
  <2>1. split * c \in Nat BY <1>4, NextMultiple
  <2> QED BY <2>1, <1>8, <1>2, <1>4
<1> QED BY <1>4, <1>6, <1>9 DEF e

\* The parts of a block fit, and follow each other up to the block's end.
Reaches(parts, b) ==
  /\ parts \in Seq(Nat \X Nat) /\ Len(parts) \in {1, 2}
  /\ \A i \in 1 .. Len(parts) : Fits(parts[i])
  /\ Len(parts) = 1 => parts[1][1] + parts[1][2] = b[1] + b[2]
  /\ Len(parts) = 2 => /\ parts[2][1] = parts[1][1] + parts[1][2]
                       /\ parts[2][1] + parts[2][2] = b[1] + b[2]

LEMMA BlockIsPages ==
  ASSUME NEW b \in Block
  PROVE  /\ b \in Nat \X Nat /\ b = <<b[1], b[2]>>
         /\ b[1] \in Nat /\ b[2] \in Nat \ {0}
         /\ b[2] <= RemoveSplit /\ b[2] <= InsertSplit
         /\ b[1] \in Pages(b) /\ Pages(b) \subseteq Page
         /\ \A p \in Page : p \in Pages(b) <=> b[1] <= p /\ p < b[1] + b[2]
<1>1. /\ Leaves \in Nat \ {0} /\ LeafSize \in Nat \ {0}
      /\ InsertSplit \in Nat \ {0} /\ RemoveSplit \in Nat \ {0}
      /\ b \in Nat \X (1 .. RemoveSplit) /\ b[2] <= InsertSplit
      /\ b[1] + b[2] <= Leaves * LeafSize
  BY RadixAssumption
<1>2. b \in Nat \X Nat /\ b = <<b[1], b[2]>> /\ b[1] \in Nat /\ b[2] \in Nat \ {0}
  BY <1>1
<1>3. Leaves * LeafSize \in Nat BY <1>1
<1> QED BY <1>1, <1>2, <1>3 DEF Pages, Page

LEMMA PartsReach ==
  ASSUME NEW b \in Block, NEW split \in {InsertSplit, RemoveSplit}
  PROVE  /\ Reaches(Parts(b, split), b)
         /\ Head(Parts(b, split)) = Parts(b, split)[1]
         /\ Parts(b, split)[1][1] = b[1]
<1> DEFINE rem == split - (b[1] % split)
           P == <<b[1], rem>>
           Q == <<b[1] + rem, b[2] - rem>>
<1>1. /\ split \in Nat \ {0} /\ LeafSize % split = 0
      /\ LeafSize \in Nat \ {0}
  BY RadixAssumption
<1>2. /\ b \in Nat \X Nat /\ b[1] \in Page /\ b[1] \in Nat /\ b[2] \in Nat \ {0}
      /\ b[2] <= split
      /\ \A p \in Page : p \in Pages(b) <=> b[1] <= p /\ p < b[1] + b[2]
      /\ Pages(b) \subseteq Page
  BY BlockIsPages
<1>3. rem \in 1 .. split /\ EntryOf(b[1]) + rem <= LeafSize
  BY <1>1, <1>2, LeafEndsAtMultiple
<1>4. EntryOf(b[1]) \in Nat BY <1>1, <1>2, PageSpot DEF Entries
<1>5. CASE rem >= b[2]
  <2>1. Parts(b, split) = <<b>> BY <1>5 DEF Parts
  <2>2. Fits(b)
    <3> HIDE DEF rem
    <3> QED BY <1>1, <1>2, <1>3, <1>4, <1>5 DEF Fits
  <2>3. Reaches(<<b>>, b)
    <3>1. <<b>> \in Seq(Nat \X Nat) /\ Len(<<b>>) = 1 /\ <<b>>[1] = b BY <1>2
    <3> QED BY <3>1, <2>2 DEF Reaches
  <2> QED BY <2>1, <2>3
<1>6. CASE ~ (rem >= b[2])
  <2>1. Parts(b, split) = <<P, Q>> BY <1>6 DEF Parts
  <2>2. Fits(P)
    <3> HIDE DEF rem
    <3> QED BY <1>1, <1>2, <1>3, <1>4 DEF Fits
  <2>3. Q[1] \in Page
    <3>1. b[1] + rem \in Pages(b)
      <4> HIDE DEF rem
      <4> QED BY <1>1, <1>2, <1>3, <1>6 DEF Pages
    <3> QED BY <3>1, <1>2
  <2>4. (b[1] + rem) % split = 0
    <3>1. /\ b[1] \div split \in Nat /\ b[1] % split \in 0 .. split - 1
          /\ b[1] = split * (b[1] \div split) + (b[1] % split)
      BY <1>1, <1>2, Division
    <3>2. b[1] + rem = split * (b[1] \div split + 1) + 0
      <4> DEFINE q == b[1] \div split  r == b[1] % split
      <4>1. split * (q + 1) = split * q + split /\ split * q \in Nat
        <5>1. q \in Nat /\ split \in Nat BY <1>1, <3>1
        <5> HIDE DEF q
        <5> QED BY <5>1, NextMultiple
      <4>2. q \in Nat /\ r \in 0 .. split - 1 /\ b[1] = split * q + r
            /\ rem = split - r
        BY <3>1
      <4> HIDE DEF q, r, rem
      <4>3. b[1] + rem = split * (q + 1) + 0 BY <1>1, <1>2, <4>1, <4>2
      <4> QED BY <4>3 DEF q
    <3>3. b[1] \div split + 1 \in Nat BY <3>1
    <3> HIDE DEF rem
    <3> QED BY <1>1, <3>2, <3>3, DivisionOf
  <2>5. EntryOf(Q[1]) + split <= LeafSize
    <3>1. Q[1] % split = 0 BY <2>4
    <3> HIDE DEF Q
    <3>2. EntryOf(Q[1]) + (split - (Q[1] % split)) <= LeafSize
      BY <1>1, <2>3, LeafEndsAtMultiple
    <3> QED BY <3>1, <3>2, <1>1
  <2>6. Fits(Q)
    <3>1. EntryOf(Q[1]) \in Nat
      <4> HIDE DEF Q
      <4> QED BY <1>1, <2>3, PageSpot DEF Entries
    <3>2. Q[2] \in Nat \ {0} /\ Q[2] <= split
      <4> HIDE DEF rem
      <4> QED BY <1>1, <1>2, <1>3, <1>6
    <3> HIDE DEF Q
    <3> QED BY <2>3, <2>5, <3>1, <3>2, <1>1 DEF Fits
  <2>7. Reaches(<<P, Q>>, b)
    <3>1. P \in Nat \X Nat /\ Q \in Nat \X Nat
      <4> HIDE DEF rem
      <4> QED BY <1>1, <1>2, <1>3, <1>6
    <3>2. /\ Q[1] = P[1] + P[2] /\ Q[1] + Q[2] = b[1] + b[2]
      <4> HIDE DEF rem
      <4> QED BY <1>1, <1>2, <1>3, <1>6
    <3>3. /\ <<P, Q>> \in Seq(Nat \X Nat) /\ Len(<<P, Q>>) = 2
          /\ <<P, Q>>[1] = P /\ <<P, Q>>[2] = Q
      <4> HIDE DEF P, Q
      <4> QED BY <3>1
    <3> HIDE DEF P, Q
    <3>4. \A i \in 1 .. 2 : Fits(<<P, Q>>[i]) BY <2>2, <2>6, <3>3
    <3> QED BY <3>2, <3>3, <3>4 DEF Reaches
  <2> QED BY <2>1, <2>7
<1> QED BY <1>5, <1>6

-----------------------------------------------------------------------------
(***************************************************************************)
(* The inductive invariant.                                                *)
(***************************************************************************)
Call == [op : {"none", "insert", "remove", "get"}, parts : Seq(Nat \X Nat),
         done : Nat, value : Value]

Types ==
  /\ fresh \in Nat /\ DOMAIN mem \subseteq NodeId
  /\ pc \in [Thread -> {"idle", "root", "casroot", "slot", "casleaf", "entry"}]
  /\ call \in [Thread -> Call]
  /\ tree \in [Thread -> NodeId \cup {Null}]
  /\ leaf \in [Thread -> NodeId \cup {Null}]
  /\ mine \in [Thread -> NodeId \cup {Null}]
  /\ got \in [Thread -> Value]
  /\ state \in [Block -> {"out", "entering", "in", "leaving"}]

\* The root leads to the leaves, every one in a single slot.
NodesInv ==
  rdptr # Null =>
    /\ rdptr \in DOMAIN mem
    /\ mem[rdptr] \in [Slots -> DOMAIN mem \cup {Null}]
    /\ \A i \in Slots : mem[rdptr][i] # Null =>
         /\ mem[rdptr][i] # rdptr
         /\ mem[mem[rdptr][i]] \in [Entries -> Value]
    /\ \A i, j \in Slots :
         mem[rdptr][i] = mem[rdptr][j] /\ mem[rdptr][i] # Null => i = j

\* A node that is not installed is empty, and only its thread knows it.
MineInv ==
  \A t \in Thread :
    /\ mine[t] = Null <=> pc[t] \notin {"casroot", "casleaf"}
    /\ mine[t] # Null =>
         /\ mine[t] \in DOMAIN mem /\ mine[t] # rdptr
         /\ rdptr # Null => \A i \in Slots : mem[rdptr][i] # mine[t]
         /\ \A u \in Thread : u # t => mine[u] # mine[t]
    /\ pc[t] = "casroot" => mem[mine[t]] = [s \in Slots |-> Null]
    /\ pc[t] = "casleaf" => mem[mine[t]] = [s \in Entries |-> Zero]

\* A thread on its way down works on the root, and then on the leaf of its part.
PlaceInv ==
  \A t \in Thread :
    /\ pc[t] \in {"slot", "casleaf", "entry"} => rdptr # Null /\ tree[t] = rdptr
    /\ pc[t] = "casleaf" => call[t].op = "insert"
    /\ pc[t] = "entry" => /\ mem[rdptr][LeafOf(Part(t)[1])] # Null
                          /\ leaf[t] = mem[rdptr][LeafOf(Part(t)[1])]

\* The block a thread enters or removes, and how far it is.
Works(t, b) ==
  /\ pc[t] # "idle" /\ call[t].op # "get" /\ Part(t)[1] \in Pages(b)
Now(t) == Part(t)[1] + call[t].done
Writing(t, b) ==
  /\ Part(t)[1] \in Pages(b) /\ Reaches(call[t].parts, b)
  /\ \/ call[t].op = "insert" /\ state[b] = "entering" /\ call[t].value = b
     \/ call[t].op = "remove" /\ state[b] = "leaving" /\ call[t].value = Zero
  /\ \A p \in Pages(b) : p < Now(t) => Entry(p) = call[t].value

CallInv(t) ==
  /\ call[t].op \in {"insert", "remove", "get"}
  /\ call[t].parts # <<>> /\ Fits(Part(t)) /\ call[t].done < Part(t)[2]
  /\ call[t].op = "get" => Len(call[t].parts) = 1
  /\ call[t].op # "get" => \E b \in Block : Writing(t, b)
CallsInv ==
  \A t \in Thread : IF pc[t] = "idle" THEN call[t] = Idle ELSE CallInv(t)
AloneInv ==
  \A t, u \in Thread, b \in Block : Works(t, b) /\ Works(u, b) => t = u

TreeInv ==
  /\ Types /\ NodesInv /\ MineInv /\ PlaceInv /\ NoNodeLeak
  /\ CallsInv /\ AloneInv /\ EntriesMatchBlocks

-----------------------------------------------------------------------------
(***************************************************************************)
(* The nodes, step by step.                                                *)
(***************************************************************************)
\* What the other threads know of themselves is not changed.
Others(t) ==
  \A u \in Thread \ {t} :
    /\ pc'[u] = pc[u] /\ call'[u] = call[u] /\ tree'[u] = tree[u]
    /\ leaf'[u] = leaf[u] /\ mine'[u] = mine[u]

\* No page's entry changes.
EntriesKept == \A p \in Page : Entry(p)' = Entry(p)
NodesInvs == NodesInv /\ MineInv /\ PlaceInv /\ NoNodeLeak

\* A call starts, goes on to the next part or ends: the nodes stay, and the
\* thread has none in its hands.
LEMMA NodesStay ==
  ASSUME Types, NodesInvs, NEW t \in Thread, Others(t),
         UNCHANGED <<rdptr, mem, mine>>, pc[t] \notin {"casroot", "casleaf"},
         pc'[t] \in {"idle", "root", "slot"},
         pc'[t] = "slot" => rdptr # Null /\ tree'[t] = rdptr
  PROVE  NodesInvs' /\ EntriesKept
<1>1. NodesInv' /\ EntriesKept BY DEF NodesInvs, NodesInv, EntriesKept, Entry
<1>2. MineInv'
  BY DEF NodesInvs, MineInv, Others
<1>3. PlaceInv'
  BY DEF NodesInvs, PlaceInv, Others, Part
<1>4. NoNodeLeak'
  BY DEF NodesInvs, NoNodeLeak
<1> QED BY <1>1, <1>2, <1>3, <1>4 DEF NodesInvs

\* EndPart is such a change.
LEMMA EndPartStep ==
  ASSUME Types, NEW t \in Thread, EndPart(t), UNCHANGED mine
  PROVE  /\ Others(t) /\ pc'[t] \in {"idle", "slot"}
         /\ pc'[t] = "slot" => tree'[t] = tree[t]
  BY DEF EndPart, Types, Others, Goto

LEMMA LoadRootNodes ==
  ASSUME Types, NodesInvs, NEW t \in Thread, LoadRoot(t)
  PROVE  NodesInvs' /\ EntriesKept
<1>1. /\ pc \in [Thread -> {"idle", "root", "casroot", "slot", "casleaf", "entry"}]
      /\ pc[t] = "root" /\ UNCHANGED <<rdptr, call, leaf>>
  BY DEF LoadRoot, Types
<1>2. CASE rdptr # Null
  <2>1. /\ tree' = [tree EXCEPT ![t] = rdptr] /\ UNCHANGED <<mem, mine>>
        /\ pc' = [pc EXCEPT ![t] = "slot"]
    BY <1>2 DEF LoadRoot, Goto
  <2>2. Others(t) /\ pc'[t] = "slot" /\ tree'[t] = rdptr
    BY <1>1, <2>1 DEF Others, Types
  <2> QED BY <1>1, <1>2, <2>1, <2>2, NodesStay
<1>3. CASE rdptr = Null
  <2> DEFINE n == fresh + 1
  <2>1. /\ fresh' = n /\ NewNode(n, Leaves, Null)
        /\ mine' = [mine EXCEPT ![t] = n]
        /\ pc' = [pc EXCEPT ![t] = "casroot"] /\ UNCHANGED tree
    BY <1>3 DEF LoadRoot, Goto
  <2>2. /\ DOMAIN mem' = DOMAIN mem \cup {n} /\ mem'[n] = [s \in Slots |-> Null]
        /\ \A i \in DOMAIN mem : i # n => mem'[i] = mem[i]
    BY <2>1 DEF NewNode, Slots
  <2>3. n \in Nat /\ n \notin DOMAIN mem /\ n # Null
        /\ \A u \in Thread : mine[u] # n
    BY RadixAssumption DEF Types, NodeId
  <2>4. mine'[t] = n /\ pc'[t] = "casroot" /\ \A u \in Thread \ {t} :
          mine'[u] = mine[u] /\ pc'[u] = pc[u]
    BY <2>1 DEF Types
  <2> HIDE DEF n
  <2>5. NodesInv' /\ EntriesKept BY <1>1, <1>3 DEF NodesInv, EntriesKept, Entry
  <2>6. MineInv' BY <1>1, <1>3, <2>2, <2>3, <2>4 DEF NodesInvs, MineInv
  <2>7. PlaceInv' BY <1>1, <1>3, <2>1, <2>4 DEF NodesInvs, PlaceInv, Part
  <2>8. ASSUME NEW m \in DOMAIN mem'
        PROVE  m = rdptr' \/ \E u \in Thread : mine'[u] = m
    <3>1. CASE m = n BY <3>1, <2>4
    <3>2. CASE m # n
      <4>1. m \in DOMAIN mem /\ m # Null
        BY <3>2, <2>2, RadixAssumption DEF Types, NodeId
      <4>2. PICK u \in Thread : mine[u] = m
        BY <4>1, <1>3 DEF NodesInvs, NoNodeLeak
      <4>3. u # t BY <4>1, <4>2, <1>1 DEF NodesInvs, MineInv
      <4> QED BY <4>2, <4>3, <2>4
    <3> QED BY <3>1, <3>2
  <2>9. NoNodeLeak' BY <2>8 DEF NoNodeLeak
  <2> QED BY <2>9, <2>5, <2>6, <2>7 DEF NodesInvs
<1> QED BY <1>2, <1>3

\* The winner installs an empty root, and the loser's goes.
LEMMA CasRootNodes ==
  ASSUME Types, NodesInvs, NEW t \in Thread, CasRoot(t)
  PROVE  NodesInvs' /\ EntriesKept
<1> DEFINE n == mine[t]
<1>1. /\ pc[t] = "casroot" /\ UNCHANGED <<call, leaf>>
      /\ mine'[t] = Null /\ pc'[t] = "slot"
      /\ \A u \in Thread \ {t} :
           mine'[u] = mine[u] /\ pc'[u] = pc[u] /\ tree'[u] = tree[u]
  BY DEF CasRoot, Types, Goto
<1>2. /\ n # Null /\ n \in DOMAIN mem /\ n # rdptr
      /\ rdptr # Null => \A i \in Slots : mem[rdptr][i] # n
      /\ \A u \in Thread : u # t => mine[u] # n
      /\ mem[n] = [s \in Slots |-> Null]
  BY <1>1 DEF NodesInvs, MineInv
<1>3. CASE rdptr = Null
  <2>1. rdptr' = n /\ mem' = mem /\ tree'[t] = n
    BY <1>3 DEF CasRoot, Types
  <2>2. \A p \in Page : LeafOf(p) \in Slots BY PageSpot
  <2>3. \A p \in Page : Entry(p)' = Entry(p)
    BY <1>2, <1>3, <2>1, <2>2 DEF Entry
  <2> HIDE DEF n
  <2>4. NodesInv' BY <1>2, <2>1 DEF NodesInv
  <2>5. MineInv' BY <1>1, <1>2, <1>3, <2>1 DEF NodesInvs, MineInv
  <2>6. PlaceInv' BY <1>1, <1>2, <1>3, <2>1 DEF NodesInvs, PlaceInv, Part
  <2>7. NoNodeLeak' BY <1>1, <1>2, <1>3, <2>1 DEF NodesInvs, NoNodeLeak, n
  <2> QED BY <2>3, <2>4, <2>5, <2>6, <2>7 DEF NodesInvs, EntriesKept
<1>4. CASE rdptr # Null
  <2>1. rdptr' = rdptr /\ mem' = Unmapped(n) /\ tree'[t] = rdptr
    BY <1>4 DEF CasRoot, Types
  <2>2. /\ DOMAIN mem' = DOMAIN mem \ {n}
        /\ \A i \in DOMAIN mem \ {n} : mem'[i] = mem[i]
    BY <2>1 DEF Unmapped
  <2> HIDE DEF n
  <2>3. /\ rdptr \in DOMAIN mem /\ mem'[rdptr] = mem[rdptr]
        /\ mem[rdptr] \in [Slots -> DOMAIN mem \cup {Null}]
        /\ \A i \in Slots : mem[rdptr][i] # Null =>
             mem'[mem[rdptr][i]] = mem[mem[rdptr][i]]
    BY <1>2, <1>4, <2>2 DEF NodesInvs, NodesInv
  <2>4. \A p \in Page : LeafOf(p) \in Slots BY PageSpot
  <2>5. \A p \in Page : Entry(p)' = Entry(p)
    BY <1>4, <2>1, <2>3, <2>4 DEF Entry
  <2>6. NodesInv'
    <3>1. mem[rdptr] \in [Slots -> DOMAIN mem' \cup {Null}]
      BY <1>2, <1>4, <2>2, <2>3
    <3> QED BY <1>2, <1>4, <2>1, <2>2, <2>3, <3>1 DEF NodesInvs, NodesInv
  <2>7. MineInv' BY <1>1, <1>2, <1>4, <2>1, <2>2, <2>3 DEF NodesInvs, MineInv
  <2>8. PlaceInv' BY <1>1, <1>2, <1>4, <2>1, <2>3 DEF NodesInvs, PlaceInv, Part
  <2>9. NoNodeLeak'
    BY <1>1, <1>2, <1>4, <2>1, <2>2, <2>3 DEF NodesInvs, NoNodeLeak, n, Slots
  <2> QED BY <2>5, <2>6, <2>7, <2>8, <2>9 DEF NodesInvs, EntriesKept
<1> QED BY <1>3, <1>4

\* Going down from the root, a missing leaf is mapped by insert; EndPart else.
LEMMA LoadLeafNodes ==
  ASSUME Types, NodesInvs, NEW t \in Thread, LoadLeaf(t)
  PROVE  NodesInvs' /\ EntriesKept
<1>1. /\ pc[t] = "slot" /\ rdptr' = rdptr /\ rdptr # Null /\ tree[t] = rdptr
      /\ mine[t] = Null
  BY DEF LoadLeaf, NodesInvs, PlaceInv, MineInv
<1>2. CASE /\ Slot(t) # Null
           /\ leaf' = [leaf EXCEPT ![t] = Slot(t)]
           /\ Goto(t, "entry")
           /\ UNCHANGED <<mem, fresh, call, tree, mine, got, state>>
  <2>1. /\ pc'[t] = "entry" /\ leaf'[t] = Slot(t)
        /\ \A u \in Thread \ {t} : pc'[u] = pc[u] /\ leaf'[u] = leaf[u]
    BY <1>2 DEF Types, Goto
  <2>2. NodesInv' /\ EntriesKept
    BY <1>1, <1>2 DEF NodesInvs, NodesInv, EntriesKept, Entry
  <2>3. MineInv' BY <1>1, <1>2, <2>1 DEF NodesInvs, MineInv
  <2>4. PlaceInv' BY <1>1, <1>2, <2>1 DEF NodesInvs, PlaceInv, Part, Slot
  <2>5. NoNodeLeak' BY <1>1, <1>2 DEF NodesInvs, NoNodeLeak
  <2> QED BY <2>2, <2>3, <2>4, <2>5 DEF NodesInvs
<1>3. CASE /\ Slot(t) = Null /\ call[t].op = "insert"
           /\ fresh' = fresh + 1
           /\ NewNode(fresh + 1, LeafSize, Zero)
           /\ mine' = [mine EXCEPT ![t] = fresh + 1]
           /\ Goto(t, "casleaf")
           /\ UNCHANGED <<call, tree, leaf, got, state>>
  <2> DEFINE n == fresh + 1
  <2>1. /\ DOMAIN mem' = DOMAIN mem \cup {n} /\ mem'[n] = [s \in Entries |-> Zero]
        /\ \A i \in DOMAIN mem : i # n => mem'[i] = mem[i]
    BY <1>3 DEF NewNode, Entries
  <2>2. n \in Nat /\ n \notin DOMAIN mem /\ n # Null
        /\ \A u \in Thread : mine[u] # n
    BY RadixAssumption DEF Types, NodeId
  <2>3. mine'[t] = n /\ pc'[t] = "casleaf" /\ \A u \in Thread \ {t} :
          mine'[u] = mine[u] /\ pc'[u] = pc[u]
    BY <1>3 DEF Types, Goto
  <2> HIDE DEF n
  <2>4. /\ rdptr \in DOMAIN mem /\ mem'[rdptr] = mem[rdptr]
        /\ mem[rdptr] \in [Slots -> DOMAIN mem \cup {Null}]
        /\ \A i \in Slots : mem[rdptr][i] # Null =>
             mem'[mem[rdptr][i]] = mem[mem[rdptr][i]]
    BY <1>1, <2>1, <2>2 DEF NodesInvs, NodesInv
  <2>5. \A p \in Page : LeafOf(p) \in Slots BY PageSpot
  <2>6. \A p \in Page : Entry(p)' = Entry(p) BY <1>1, <2>4, <2>5 DEF Entry
  <2>7. NodesInv'
    <3>1. mem[rdptr] \in [Slots -> DOMAIN mem' \cup {Null}] BY <2>1, <2>4
    <3> QED BY <1>1, <2>1, <2>2, <2>4, <3>1 DEF NodesInvs, NodesInv
  <2>8. MineInv'
    <3>1. \A i \in Slots : mem[rdptr][i] # n BY <2>2, <2>4
    <3>2. n # rdptr BY <2>2, <2>4
    <3> QED BY <1>1, <2>1, <2>2, <2>3, <2>4, <3>1, <3>2 DEF NodesInvs, MineInv
  <2>9. PlaceInv' BY <1>1, <1>3, <2>3, <2>4 DEF NodesInvs, PlaceInv, Part
  <2>10. ASSUME NEW m \in DOMAIN mem'
         PROVE  \/ m = rdptr' \/ \E i \in 0 .. Leaves - 1 : mem'[rdptr'][i] = m
                \/ \E u \in Thread : mine'[u] = m
    <3>1. CASE m = n BY <3>1, <2>3
    <3>2. CASE m # n
      <4>1. m \in DOMAIN mem /\ m # Null
        BY <3>2, <2>1, RadixAssumption DEF Types, NodeId
      <4>2. CASE \E u \in Thread : mine[u] = m
        <5>1. PICK u \in Thread : mine[u] = m BY <4>2
        <5>2. u # t BY <4>1, <5>1, <1>1
        <5> QED BY <5>1, <5>2, <2>3
      <4>3. CASE \E i \in 0 .. Leaves - 1 : mem[rdptr][i] = m
        BY <4>3, <1>1, <2>4
      <4> QED BY <4>1, <4>2, <4>3, <1>1 DEF NodesInvs, NoNodeLeak
    <3> QED BY <3>1, <3>2
  <2>11. NoNodeLeak' BY <2>10, <1>1 DEF NoNodeLeak
  <2> QED BY <2>6, <2>7, <2>8, <2>9, <2>11 DEF NodesInvs, EntriesKept
<1>4. CASE EndPart(t) /\ UNCHANGED <<mem, fresh, mine>>
  <2>1. Others(t) /\ pc'[t] \in {"idle", "slot"}
        /\ (pc'[t] = "slot" => tree'[t] = tree[t])
    BY <1>4, EndPartStep
  <2> QED BY <1>1, <1>4, <2>1, NodesStay
<1> QED BY <1>2, <1>3, <1>4 DEF LoadLeaf

\* The winner installs an empty leaf in the slot it found empty.
LEMMA CasLeafNodes ==
  ASSUME Types, NodesInvs, NEW t \in Thread, CasLeaf(t),
         LeafOf(Part(t)[1]) \in Slots
  PROVE  NodesInvs' /\ EntriesKept
<1> DEFINE n == mine[t]  k == LeafOf(Part(t)[1])
<1>1. /\ pc[t] = "casleaf" /\ UNCHANGED <<rdptr, call, tree>>
      /\ rdptr # Null /\ tree[t] = rdptr /\ Slot(t) = mem[rdptr][k] /\ k \in Slots
      /\ mine'[t] = Null /\ pc'[t] = "entry"
      /\ \A u \in Thread \ {t} :
           mine'[u] = mine[u] /\ pc'[u] = pc[u] /\ leaf'[u] = leaf[u]
  BY DEF CasLeaf, Types, Goto, NodesInvs, PlaceInv, Slot
<1>2. /\ n # Null /\ n \in DOMAIN mem /\ n # rdptr
      /\ \A i \in Slots : mem[rdptr][i] # n
      /\ \A u \in Thread : u # t => mine[u] # n
      /\ mem[n] = [s \in Entries |-> Zero]
  BY <1>1 DEF NodesInvs, MineInv
<1>3. /\ rdptr \in DOMAIN mem
      /\ mem[rdptr] \in [Slots -> DOMAIN mem \cup {Null}]
      /\ \A i \in Slots : mem[rdptr][i] # Null =>
           /\ mem[rdptr][i] # rdptr
           /\ mem[mem[rdptr][i]] \in [Entries -> Value]
      /\ \A i, j \in Slots :
           mem[rdptr][i] = mem[rdptr][j] /\ mem[rdptr][i] # Null => i = j
  BY <1>1 DEF NodesInvs, NodesInv
<1>4. \A p \in Page : LeafOf(p) \in Slots /\ EntryOf(p) \in Entries BY PageSpot
<1>5. CASE Slot(t) = Null
  <2>1. /\ mem' = [mem EXCEPT ![rdptr][k] = n] /\ leaf'[t] = n
    BY <1>1, <1>5 DEF CasLeaf, Types
  <2> HIDE DEF n, k
  <2>2. /\ DOMAIN mem' = DOMAIN mem
        /\ mem'[rdptr] = [mem[rdptr] EXCEPT ![k] = n]
        /\ \A i \in DOMAIN mem \ {rdptr} : mem'[i] = mem[i]
    BY <1>3, <2>1
  <2>3. /\ mem'[rdptr] \in [Slots -> DOMAIN mem \cup {Null}]
        /\ mem'[rdptr][k] = n
        /\ \A i \in Slots \ {k} : mem'[rdptr][i] = mem[rdptr][i]
    BY <1>1, <1>2, <1>3, <2>2
  <2>4. \A p \in Page : Entry(p)' = Entry(p)
    <3>1. ASSUME NEW p \in Page, LeafOf(p) = k PROVE Entry(p)' = Entry(p)
      <4>1. Entry(p) = Zero BY <1>1, <1>5, <3>1 DEF Entry
      <4>2. Entry(p)' = mem'[n][EntryOf(p)]
        BY <1>1, <1>2, <2>3, <3>1 DEF Entry
      <4> QED BY <4>1, <4>2, <1>2, <1>4, <2>2
    <3>2. ASSUME NEW p \in Page, LeafOf(p) # k PROVE Entry(p)' = Entry(p)
      <4>1. mem'[rdptr][LeafOf(p)] = mem[rdptr][LeafOf(p)]
        BY <1>4, <2>3, <3>2
      <4>2. mem[rdptr][LeafOf(p)] # Null =>
              mem'[mem[rdptr][LeafOf(p)]] = mem[mem[rdptr][LeafOf(p)]]
        BY <1>3, <1>4, <2>2
      <4> QED BY <1>1, <4>1, <4>2 DEF Entry
    <3> QED BY <3>1, <3>2
  <2>5. Zero \in Value BY DEF Value
  <2>6. NodesInv'
    <3>1. \A i \in Slots : mem'[rdptr][i] # Null =>
            /\ mem'[rdptr][i] # rdptr
            /\ mem'[mem'[rdptr][i]] \in [Entries -> Value]
      <4>1. mem'[n] \in [Entries -> Value] BY <1>2, <2>2, <2>5
      <4> QED BY <1>2, <1>3, <2>2, <2>3, <4>1
    <3>2. \A i, j \in Slots :
            mem'[rdptr][i] = mem'[rdptr][j] /\ mem'[rdptr][i] # Null => i = j
      BY <1>2, <1>3, <2>3
    <3> QED BY <1>1, <1>3, <2>2, <2>3, <3>1, <3>2 DEF NodesInv
  <2>7. MineInv'
    BY <1>1, <1>2, <2>2, <2>3 DEF NodesInvs, MineInv, n
  <2>8. PlaceInv'
    <3>1. \A i \in Slots : mem[rdptr][i] # Null => mem'[rdptr][i] = mem[rdptr][i]
      BY <1>1, <1>5, <2>3
    <3>2. \A i : i \notin Slots => mem'[rdptr][i] = mem[rdptr][i]
      BY <1>1, <1>3, <2>2
    <3> QED BY <1>1, <1>2, <2>1, <2>3, <3>1, <3>2 DEF NodesInvs, PlaceInv, Part, k
  <2>9. ASSUME NEW m \in DOMAIN mem'
        PROVE  \/ m = rdptr \/ \E i \in 0 .. Leaves - 1 : mem'[rdptr][i] = m
               \/ \E u \in Thread : mine'[u] = m
    <3>1. CASE m = n BY <3>1, <1>1, <2>3 DEF Slots
    <3>2. CASE m # n
      <4>1. m \in DOMAIN mem /\ m # Null
        BY <2>2, RadixAssumption DEF Types, NodeId
      <4>2. CASE \E u \in Thread : mine[u] = m BY <4>2, <3>2, <1>1 DEF n
      <4>3. CASE \E i \in Slots : mem[rdptr][i] = m
        BY <4>1, <4>3, <1>1, <1>5, <2>3 DEF Slots
      <4> QED BY <4>1, <4>2, <4>3 DEF NodesInvs, NoNodeLeak, Slots
    <3> QED BY <3>1, <3>2
  <2>10. NoNodeLeak' BY <2>9, <1>1 DEF NoNodeLeak
  <2> QED BY <2>4, <2>6, <2>7, <2>8, <2>10 DEF NodesInvs, EntriesKept
<1>6. CASE Slot(t) # Null
  <2>1. mem' = Unmapped(n) /\ leaf'[t] = mem[rdptr][k]
    BY <1>1, <1>6 DEF CasLeaf, Types
  <2>2. /\ DOMAIN mem' = DOMAIN mem \ {n}
        /\ \A i \in DOMAIN mem \ {n} : mem'[i] = mem[i]
    BY <2>1 DEF Unmapped
  <2> HIDE DEF n, k
  <2>3. /\ mem'[rdptr] = mem[rdptr]
        /\ mem[rdptr] \in [Slots -> DOMAIN mem' \cup {Null}]
        /\ \A i \in Slots : mem[rdptr][i] # Null =>
             mem'[mem[rdptr][i]] = mem[mem[rdptr][i]]
    BY <1>2, <1>3, <2>2
  <2>4. \A p \in Page : Entry(p)' = Entry(p) BY <1>1, <1>4, <2>3 DEF Entry
  <2>5. NodesInv' BY <1>1, <1>2, <1>3, <2>2, <2>3 DEF NodesInv
  <2>6. MineInv' BY <1>1, <1>2, <2>2, <2>3 DEF NodesInvs, MineInv, n
  <2>7. PlaceInv' BY <1>1, <1>6, <2>1, <2>3 DEF NodesInvs, PlaceInv, Part, k
  <2>8. NoNodeLeak'
    BY <1>1, <1>2, <2>2, <2>3 DEF NodesInvs, NoNodeLeak, n, Slots
  <2> QED BY <2>4, <2>5, <2>6, <2>7, <2>8 DEF NodesInvs, EntriesKept
<1> QED BY <1>5, <1>6

LEMMA ReadEntryNodes ==
  ASSUME Types, NodesInvs, NEW t \in Thread, ReadEntry(t)
  PROVE  NodesInvs' /\ EntriesKept
<1>1. /\ pc[t] = "entry" /\ EndPart(t) /\ UNCHANGED <<rdptr, mem, mine>>
      /\ rdptr # Null /\ tree[t] = rdptr
  BY DEF ReadEntry, NodesInvs, PlaceInv
<1>2. Others(t) /\ pc'[t] \in {"idle", "slot"}
      /\ (pc'[t] = "slot" => tree'[t] = tree[t])
  BY <1>1, EndPartStep
<1> QED BY <1>1, <1>2, NodesStay

\* A write changes the entry of the page the thread is at, and no other.
LEMMA WriteEntryNodes ==
  ASSUME Types, NodesInvs, NEW t \in Thread, WriteEntry(t),
         Fits(Part(t)), call[t].done < Part(t)[2]
  PROVE  /\ NodesInvs' /\ Now(t) \in Page
         /\ \A p \in Page :
              Entry(p)' = IF p = Now(t) THEN call[t].value ELSE Entry(p)
<1> DEFINE n == leaf[t]  k == LeafOf(Part(t)[1])  e == EntryNow(t)
<1>1. /\ pc[t] = "entry" /\ UNCHANGED <<rdptr, mine>>
      /\ rdptr # Null /\ tree[t] = rdptr /\ n = mem[rdptr][k] /\ n # Null
      /\ mem' = [mem EXCEPT ![n][e] = call[t].value]
  BY DEF WriteEntry, NodesInvs, PlaceInv
<1>2. call[t].done \in 0 .. Part(t)[2] - 1 /\ call[t].value \in Value
  BY DEF Types, Call, Fits
<1>3. /\ Now(t) \in Page /\ LeafOf(Now(t)) = k /\ EntryOf(Now(t)) = e
  BY <1>2, SideBySide DEF Now, EntryNow
<1>4. \A p \in Page : LeafOf(p) \in Slots /\ EntryOf(p) \in Entries
                      /\ p = LeafSize * LeafOf(p) + EntryOf(p)
  BY PageSpot
<1>5. k \in Slots /\ e \in Entries BY <1>3, <1>4
<1>6. /\ rdptr \in DOMAIN mem
      /\ mem[rdptr] \in [Slots -> DOMAIN mem \cup {Null}]
      /\ \A i \in Slots : mem[rdptr][i] # Null =>
           /\ mem[rdptr][i] # rdptr
           /\ mem[mem[rdptr][i]] \in [Entries -> Value]
      /\ \A i, j \in Slots :
           mem[rdptr][i] = mem[rdptr][j] /\ mem[rdptr][i] # Null => i = j
  BY <1>1 DEF NodesInvs, NodesInv
<1>7. n \in DOMAIN mem /\ n # rdptr /\ mem[n] \in [Entries -> Value]
  BY <1>1, <1>5, <1>6
<1>8. \A p \in Page : LeafOf(p) = k /\ EntryOf(p) = e => p = Now(t)
  <2> HIDE DEF k, e
  <2> QED BY <1>3, <1>4
<1> HIDE DEF n, k, e
<1>9. /\ DOMAIN mem' = DOMAIN mem
      /\ mem'[n] = [mem[n] EXCEPT ![e] = call[t].value]
      /\ \A i \in DOMAIN mem \ {n} : mem'[i] = mem[i]
  BY <1>1, <1>7
<1>10. ASSUME NEW p \in Page
       PROVE  Entry(p)' = IF p = Now(t) THEN call[t].value ELSE Entry(p)
  <2>1. mem'[rdptr] = mem[rdptr] BY <1>6, <1>7, <1>9
  <2>2. CASE LeafOf(p) = k /\ EntryOf(p) = e
    <3>1. p = Now(t) BY <2>2, <1>8
    <3>2. Entry(p)' = mem'[n][e] BY <1>1, <2>1, <2>2 DEF Entry
    <3> QED BY <3>1, <3>2, <1>5, <1>7, <1>9
  <2>3. CASE LeafOf(p) = k /\ EntryOf(p) # e
    <3>1. Entry(p)' = mem'[n][EntryOf(p)] /\ Entry(p) = mem[n][EntryOf(p)]
      BY <1>1, <2>1, <2>3 DEF Entry
    <3>2. mem'[n][EntryOf(p)] = mem[n][EntryOf(p)] BY <1>4, <1>7, <1>9, <2>3
    <3> QED BY <3>1, <3>2, <2>3, <1>3
  <2>4. CASE LeafOf(p) # k
    <3>1. CASE mem[rdptr][LeafOf(p)] = Null BY <3>1, <2>1, <2>4, <1>1, <1>3 DEF Entry
    <3>2. CASE mem[rdptr][LeafOf(p)] # Null
      <4>1. mem[rdptr][LeafOf(p)] \in DOMAIN mem \ {n}
        BY <3>2, <2>4, <1>1, <1>4, <1>5, <1>6
      <4> QED BY <4>1, <2>1, <2>4, <1>1, <1>3, <1>9 DEF Entry
    <3> QED BY <3>1, <3>2
  <2> QED BY <2>2, <2>3, <2>4
<1>11. NodesInv'
  <2>1. mem'[n] \in [Entries -> Value] BY <1>2, <1>5, <1>7, <1>9
  <2> QED BY <2>1, <1>1, <1>6, <1>7, <1>9 DEF NodesInv
<1>12. /\ Others(t) /\ \/ pc'[t] \in {"idle", "slot"}
                          /\ (pc'[t] = "slot" => tree'[t] = rdptr)
                       \/ /\ UNCHANGED <<pc, tree, leaf>>
                          /\ Part(t)' = Part(t) /\ call'[t].op = call[t].op
  <2>1. CASE EndPart(t) BY <2>1, <1>1, EndPartStep
  <2>2. CASE /\ call' = [call EXCEPT ![t].done = @ + 1]
             /\ UNCHANGED <<pc, tree, leaf, state>>
    <3>1. \A u \in Thread \ {t} : call'[u] = call[u] BY <2>2 DEF Types
    <3>2. call'[t].parts = call[t].parts /\ call'[t].op = call[t].op
      BY <2>2 DEF Types, Call
    <3> QED BY <2>2, <3>1, <3>2, <1>1 DEF Others, Part
  <2> QED BY <2>1, <2>2 DEF WriteEntry
<1>13. MineInv'
  <2>1. \A u \in Thread : mine[u] # Null => mine[u] # n
    BY <1>1, <1>5 DEF NodesInvs, MineInv
  <2>2. \A u \in Thread : pc'[u] \in {"casroot", "casleaf"} <=>
                          pc[u] \in {"casroot", "casleaf"}
    BY <1>1, <1>12 DEF Others
  <2>3. \A u \in Thread : /\ pc'[u] = "casroot" => pc[u] = "casroot"
                          /\ pc'[u] = "casleaf" => pc[u] = "casleaf"
    BY <1>1, <1>12 DEF Others
  <2>4. mem'[rdptr] = mem[rdptr] BY <1>6, <1>7, <1>9
  <2>5. \A u \in Thread : mine[u] # Null => mem'[mine[u]] = mem[mine[u]]
    BY <2>1, <1>9 DEF NodesInvs, MineInv
  <2> QED BY <1>1, <1>9, <2>2, <2>3, <2>4, <2>5 DEF NodesInvs, MineInv
<1>14. PlaceInv'
  <2>1. mem'[rdptr] = mem[rdptr] BY <1>6, <1>7, <1>9
  <2> QED BY <2>1, <1>1, <1>12 DEF NodesInvs, PlaceInv, Others, Part
<1>15. NoNodeLeak'
  <2>1. mem'[rdptr] = mem[rdptr] BY <1>6, <1>7, <1>9
  <2> QED BY <2>1, <1>1, <1>9 DEF NodesInvs, NoNodeLeak
<1> QED BY <1>3, <1>10, <1>11, <1>13, <1>14, <1>15 DEF NodesInvs

-----------------------------------------------------------------------------
(***************************************************************************)
(* The calls, step by step.                                                *)
(***************************************************************************)
LEMMA BlocksApart ==
  ASSUME NEW b \in Block, NEW c \in Block, NEW p \in Pages(b), p \in Pages(c)
  PROVE  b = c
<1>1. b # c => b[1] + b[2] <= c[1] \/ c[1] + c[2] <= b[1] BY RadixAssumption
<1>2. /\ b[1] \in Nat /\ b[2] \in Nat /\ c[1] \in Nat /\ c[2] \in Nat
  BY BlockIsPages
<1> QED BY <1>1, <1>2 DEF Pages

LEMMA ZeroIsNoBlock == Zero \notin Block
<1>1. \A b \in Block : b[2] \in Nat \ {0} BY BlockIsPages
<1>2. Zero[2] = 0 BY DEF Zero
<1> QED BY <1>1, <1>2

\* The block a thread works on is the one it enters or removes.
LEMMA WorksOn ==
  ASSUME CallsInv, NEW t \in Thread, NEW b \in Block, Works(t, b)
  PROVE  Writing(t, b)
<1>1. CallInv(t) /\ call[t].op # "get" /\ Part(t)[1] \in Pages(b)
  BY DEF CallsInv, Works
<1>2. PICK c \in Block : Writing(t, c) BY <1>1 DEF CallInv
<1>3. c = b BY <1>1, <1>2, BlocksApart DEF Writing
<1> QED BY <1>2, <1>3

\* A call stays what it is when its block and the block's entries do.
LEMMA CallKept ==
  ASSUME CallsInv, NEW u \in Thread, call'[u] = call[u], pc[u] # "idle",
         \A b \in Block : Works(u, b) =>
           state'[b] = state[b] /\ \A p \in Pages(b) : Entry(p)' = Entry(p)
  PROVE  CallInv(u)'
<1>1. CallInv(u) BY DEF CallsInv
<1>2. Part(u)' = Part(u) /\ Now(u)' = Now(u) BY DEF Part, Now
<1>3. ASSUME call[u].op # "get" PROVE \E b \in Block : Writing(u, b)'
  <2>1. PICK b \in Block : Writing(u, b) BY <1>1, <1>3 DEF CallInv
  <2>2. Works(u, b) BY <2>1, <1>3 DEF Writing, Works
  <2>3. state'[b] = state[b] /\ \A p \in Pages(b) : Entry(p)' = Entry(p)
    BY <2>2
  <2>4. Writing(u, b)' BY <2>1, <2>3, <1>2 DEF Writing
  <2> QED BY <2>4
<1> QED BY <1>1, <1>2, <1>3 DEF CallInv

CallInvs == CallsInv /\ AloneInv /\ EntriesMatchBlocks

\* Steps on the way down change neither the calls nor the blocks.
LEMMA CallsStay ==
  ASSUME CallInvs, EntriesKept, UNCHANGED <<call, state>>,
         \A t \in Thread : pc'[t] = "idle" <=> pc[t] = "idle"
  PROVE  CallInvs'
<1>1. \A b \in Block : Pages(b) \subseteq Page BY BlockIsPages
<1>2. CallsInv'
  <2> SUFFICES ASSUME NEW u \in Thread
               PROVE (IF pc[u] = "idle" THEN call[u] = Idle ELSE CallInv(u))'
    BY DEF CallsInv
  <2>1. CASE pc[u] = "idle" BY <2>1 DEF CallInvs, CallsInv
  <2>2. CASE pc[u] # "idle"
    <3>1. CallInv(u)' BY <1>1, <2>2, CallKept DEF CallInvs, EntriesKept
    <3> QED BY <2>2, <3>1
  <2> QED BY <2>1, <2>2
<1>3. AloneInv' BY DEF CallInvs, AloneInv, Works, Part
<1>4. EntriesMatchBlocks'
  BY <1>1 DEF CallInvs, EntriesMatchBlocks, EntriesKept
<1> QED BY <1>2, <1>3, <1>4 DEF CallInvs

\* The end of a part whose pages are all written.
PartWritten(t) ==
  IF call[t].op = "get" THEN EntriesKept
  ELSE \A b \in Block : Works(t, b) =>
         /\ \A p \in Page \ Pages(b) : Entry(p)' = Entry(p)
         /\ \A p \in Pages(b) :
              p < Part(t)[1] + Part(t)[2] => Entry(p)' = call[t].value

LEMMA OthersKept ==
  ASSUME CallInvs, NEW t \in Thread, pc[t] # "idle", PartWritten(t), Others(t),
         \A b \in Block : ~ Works(t, b) => state'[b] = state[b],
         NEW u \in Thread \ {t}
  PROVE  (IF pc[u] = "idle" THEN call[u] = Idle ELSE CallInv(u))'
<1>1. pc'[u] = pc[u] /\ call'[u] = call[u] BY DEF Others
<1>2. CASE pc[u] = "idle" BY <1>1, <1>2 DEF CallInvs, CallsInv
<1>3. CASE pc[u] # "idle"
  <2>1. ASSUME NEW b \in Block, Works(u, b)
        PROVE  state'[b] = state[b] /\ \A p \in Pages(b) : Entry(p)' = Entry(p)
    <3>1. ~ Works(t, b) BY <2>1 DEF CallInvs, AloneInv
    <3>2. Pages(b) \subseteq Page BY BlockIsPages
    <3>3. CASE call[t].op = "get"
      BY <3>1, <3>2, <3>3 DEF PartWritten, EntriesKept
    <3>4. CASE call[t].op # "get"
      <4>1. PICK c \in Block : Writing(t, c)
        BY <3>4 DEF CallInvs, CallsInv, CallInv
      <4>2. Works(t, c) BY <3>4, <4>1 DEF Writing, Works
      <4>3. \A p \in Pages(b) : p \notin Pages(c)
        BY <3>1, <4>2, BlocksApart
      <4> QED BY <3>1, <3>2, <3>4, <4>2, <4>3 DEF PartWritten
    <3> QED BY <3>3, <3>4
  <2>2. CallInv(u)' BY <1>1, <1>3, <2>1, CallKept DEF CallInvs
  <2> QED BY <1>1, <1>3, <2>2
<1> QED BY <1>2, <1>3

LEMMA TailOfTwo ==
  ASSUME NEW S, NEW s \in Seq(S), Len(s) = 2
  PROVE  /\ Tail(s) \in Seq(S) /\ Len(Tail(s)) = 1 /\ Tail(s) # <<>>
         /\ Tail(s)[1] = s[2] /\ Head(Tail(s)) = s[2]
<1>1. s # <<>> OBVIOUS
<1>2. /\ Tail(s) \in Seq(S) /\ Len(Tail(s)) = Len(s) - 1
      /\ \A i \in 1 .. Len(Tail(s)) : Tail(s)[i] = s[i + 1]
  BY <1>1, HeadTailProperties
<1> DEFINE r == Tail(s)
<1>3. r \in Seq(S) /\ Len(r) = 1 /\ \A i \in 1 .. 1 : r[i] = s[i + 1]
  BY <1>2
<1> HIDE DEF r
<1>4. r # <<>> /\ r[1] = s[2] /\ Head(r) = r[1] BY <1>3
<1> QED BY <1>3, <1>4 DEF r

\* The next part of the call, or the end of it.
LEMMA PartEnds ==
  ASSUME Types, CallInvs, NEW t \in Thread, pc[t] # "idle", EndPart(t),
         UNCHANGED mine, PartWritten(t)
  PROVE  CallInvs'
<1>1. Others(t) BY EndPartStep
<1>2. /\ CallInv(t) /\ call[t] \in Call
      /\ call[t].parts \in Seq(Nat \X Nat) /\ call[t].parts # <<>>
      /\ Part(t) = call[t].parts[1] /\ call[t].done \in Nat
      /\ Len(call[t].parts) \in Nat
  BY DEF CallInvs, CallsInv, CallInv, Types, Call, Part
<1>3. CASE Len(call[t].parts) > 1
  <2> DEFINE next == Tail(call[t].parts)
  <2>1. /\ call' = [call EXCEPT ![t].parts = Tail(@), ![t].done = 0]
        /\ pc' = [pc EXCEPT ![t] = "slot"] /\ UNCHANGED state
    <3> DEFINE n == Len(call[t].parts)
    <3>1. n # 1
      <4>1. n > 1 BY <1>3
      <4> HIDE DEF n
      <4> QED BY <4>1
    <3> QED BY <3>1 DEF EndPart, Goto
  <2>2. /\ pc'[t] = "slot" /\ call'[t].parts = next /\ call'[t].done = 0
        /\ call'[t].op = call[t].op /\ call'[t].value = call[t].value
    BY <1>2, <2>1 DEF Types, Call
  <2>3. call[t].op # "get" BY <1>2, <1>3 DEF CallInv
  <2>4. PICK b \in Block : Writing(t, b) BY <1>2, <2>3 DEF CallInv
  <2>5. /\ Reaches(call[t].parts, b) /\ Len(call[t].parts) = 2
        /\ Works(t, b)
    <3>1. Reaches(call[t].parts, b) /\ Works(t, b) BY <2>3, <2>4 DEF Writing, Works
    <3>2. Len(call[t].parts) \in {1, 2} BY <3>1 DEF Reaches
    <3>3. Len(call[t].parts) # 1
      <4> DEFINE n == Len(call[t].parts)
      <4>1. n > 1 BY <1>3
      <4> HIDE DEF n
      <4>2. n # 1 BY <4>1
      <4> QED BY <4>2 DEF n
    <3> QED BY <3>1, <3>2, <3>3
  <2>6. next \in Seq(Nat \X Nat) /\ Len(next) = 1 /\ next # <<>>
        /\ Head(next) = call[t].parts[2] /\ next[1] = call[t].parts[2]
    BY <1>2, <2>5, TailOfTwo
  <2> DEFINE Q == call[t].parts[2]
  <2>7. Part(t)' = Q BY <2>2, <2>6 DEF Part
  <2>8. /\ Fits(Q) /\ Q[1] = Part(t)[1] + Part(t)[2]
        /\ Q[1] + Q[2] = b[1] + b[2] /\ Fits(Part(t))
    BY <1>2, <2>5 DEF Reaches
  <2>9. Q[1] \in Pages(b)
    <3>1. Q[1] \in Page /\ Q[2] \in Nat \ {0} /\ Part(t)[2] \in Nat \ {0}
          /\ Part(t)[1] \in Pages(b)
      BY <2>4, <2>8 DEF Fits, Writing
    <3>2. Part(t)[1] \in Nat /\ b[1] \in Nat /\ b[2] \in Nat
      BY <3>1, BlockIsPages DEF Pages
    <3> HIDE DEF Q
    <3> QED BY <2>8, <3>1, <3>2 DEF Pages
  <2>10. Reaches(next, b)
    <3> HIDE DEF next
    <3>1. \A i \in 1 .. Len(next) : Fits(next[i]) BY <2>6, <2>8
    <3> QED BY <2>6, <2>8, <3>1 DEF Reaches
  <2>11. Now(t)' = Part(t)[1] + Part(t)[2]
    <3>1. Now(t)' = Q[1] + 0 BY <2>2, <2>7 DEF Now
    <3>2. Q[1] \in Nat
      <4> HIDE DEF Q
      <4> QED BY <2>9, BlockIsPages DEF Pages
    <3> HIDE DEF Q
    <3> QED BY <2>8, <3>1, <3>2
  <2> HIDE DEF next, Q
  <2>12. Writing(t, b)'
    <3>1. \A p \in Pages(b) : p < Now(t)' => Entry(p)' = call'[t].value
      BY <2>2, <2>3, <2>5, <2>11 DEF PartWritten
    <3> QED BY <2>1, <2>2, <2>4, <2>7, <2>9, <2>10, <3>1 DEF Writing
  <2>13. CallInv(t)'
    <3>1. Q[2] \in Nat \ {0} BY <2>8 DEF Fits
    <3>2. call'[t].done < Part(t)'[2] BY <2>2, <2>7, <3>1
    <3> QED BY <1>2, <2>2, <2>3, <2>6, <2>7, <2>8, <2>12, <3>2 DEF CallInv
  <2>14. CallsInv'
    <3>1. \A u \in Thread \ {t} :
            (IF pc[u] = "idle" THEN call[u] = Idle ELSE CallInv(u))'
      BY <1>1, <2>1, OthersKept
    <3> QED BY <2>2, <2>13, <3>1 DEF CallsInv
  <2>15. \A u \in Thread, c \in Block : Works(u, c)' => Works(u, c)
    <3>1. ASSUME NEW c \in Block, Works(t, c)' PROVE Works(t, c)
      <4>1. Q[1] \in Pages(c) BY <2>7, <3>1 DEF Works
      <4>2. c = b BY <2>9, <4>1, BlocksApart
      <4> QED BY <2>5, <4>2
    <3>2. ASSUME NEW u \in Thread \ {t}, NEW c \in Block, Works(u, c)'
          PROVE  Works(u, c)
      BY <1>1, <3>2 DEF Others, Works, Part
    <3> QED BY <3>1, <3>2
  <2>16. AloneInv' BY <2>15 DEF CallInvs, AloneInv
  <2>17. EntriesMatchBlocks'
    <3>1. ASSUME NEW c \in Block, NEW p \in Pages(c), c # b
          PROVE  Entry(p)' = Entry(p)
      <4>1. p \notin Pages(b) BY <3>1, BlocksApart
      <4>2. p \in Page BY BlockIsPages
      <4> QED BY <2>3, <2>5, <4>1, <4>2 DEF PartWritten
    <3>2. state[b] \notin {"in", "out"} BY <2>4 DEF Writing
    <3> QED BY <2>1, <3>1, <3>2 DEF CallInvs, EntriesMatchBlocks
  <2> QED BY <2>14, <2>16, <2>17 DEF CallInvs
<1>4. CASE Len(call[t].parts) = 1
  <2>1. /\ call' = [call EXCEPT ![t] = Idle]
        /\ pc' = [pc EXCEPT ![t] = "idle"]
        /\ state' = [b \in Block |->
             CASE Part(t)[1] \notin Pages(b) \/ call[t].op = "get" -> state[b]
               [] Part(t)[1] \in Pages(b) /\ call[t].op = "insert" -> "in"
               [] Part(t)[1] \in Pages(b) /\ call[t].op = "remove" -> "out"]
    <3>1. ~ (Len(call[t].parts) > 1) BY <1>4
    <3> QED BY <3>1 DEF EndPart, Goto
  <2>2. pc'[t] = "idle" /\ call'[t] = Idle BY <2>1 DEF Types
  <2>3. \A b \in Block : ~ Works(t, b) => state'[b] = state[b]
    BY <2>1 DEF Works
  <2>4. CallsInv'
    <3>1. \A u \in Thread \ {t} :
            (IF pc[u] = "idle" THEN call[u] = Idle ELSE CallInv(u))'
      BY <1>1, <2>3, OthersKept
    <3> QED BY <2>2, <3>1 DEF CallsInv
  <2>5. AloneInv'
    BY <1>1, <2>2 DEF CallInvs, AloneInv, Works, Others, Part
  <2>6. EntriesMatchBlocks'
    <3> SUFFICES ASSUME NEW b \in Block, NEW p \in Pages(b)
                 PROVE  /\ state'[b] = "in" => Entry(p)' = b
                        /\ state'[b] = "out" => Entry(p)' = Zero
      BY DEF EntriesMatchBlocks
    <3>1. p \in Page BY BlockIsPages
    <3>2. CASE Works(t, b)
      <4>1. Writing(t, b) /\ call[t].op # "get"
        BY <3>2, WorksOn DEF CallInvs, Works
      <4>2. /\ Part(t)[1] + Part(t)[2] = b[1] + b[2]
            /\ b[1] \in Nat /\ b[2] \in Nat
        BY <1>2, <1>4, <4>1, BlockIsPages DEF Writing, Reaches
      <4>3. Entry(p)' = call[t].value
        BY <3>2, <4>1, <4>2 DEF PartWritten, Pages
      <4>4. /\ call[t].op = "insert" => state'[b] = "in"
            /\ call[t].op = "remove" => state'[b] = "out"
        BY <2>1, <3>2 DEF Works
      <4> QED BY <4>1, <4>3, <4>4 DEF Writing
    <3>3. CASE ~ Works(t, b)
      <4>1. Entry(p)' = Entry(p)
        <5>1. CASE call[t].op = "get" BY <5>1, <3>1 DEF PartWritten, EntriesKept
        <5>2. CASE call[t].op # "get"
          <6>1. PICK c \in Block : Writing(t, c) BY <1>2, <5>2 DEF CallInv
          <6>2. Works(t, c) BY <5>2, <6>1 DEF Writing, Works
          <6>3. p \notin Pages(c) BY <3>3, <6>2, BlocksApart
          <6> QED BY <3>1, <5>2, <6>2, <6>3 DEF PartWritten
        <5> QED BY <5>1, <5>2
      <4> QED BY <2>3, <3>3, <4>1 DEF CallInvs, EntriesMatchBlocks
    <3> QED BY <3>2, <3>3
  <2> QED BY <2>4, <2>5, <2>6 DEF CallInvs
<1> QED BY <1>3, <1>4 DEF EndPart

\* The entry of one page is written, and others of its part are left.
LEMMA EntryWritten ==
  ASSUME Types, CallInvs, NEW t \in Thread, pc[t] # "idle",
         call[t].op # "get", call[t].done + 1 < Part(t)[2],
         call' = [call EXCEPT ![t].done = @ + 1], UNCHANGED <<pc, state>>,
         \A p \in Page :
           Entry(p)' = IF p = Now(t) THEN call[t].value ELSE Entry(p)
  PROVE  CallInvs'
<1>1. /\ CallInv(t) /\ call[t] \in Call /\ call[t].done \in Nat
      /\ Fits(Part(t)) /\ Part(t) \in Nat \X Nat
  BY DEF CallInvs, CallsInv, CallInv, Types, Call, Part
<1>2. PICK b \in Block : Writing(t, b) BY <1>1 DEF CallInv
<1>3. /\ call'[t].parts = call[t].parts /\ call'[t].op = call[t].op
      /\ call'[t].value = call[t].value /\ call'[t].done = call[t].done + 1
      /\ \A u \in Thread \ {t} : call'[u] = call[u]
  BY <1>1 DEF Types, Call
<1>4. Part(t)' = Part(t) /\ Now(t)' = Now(t) + 1
  <2>1. Part(t)' = Part(t) BY <1>3 DEF Part
  <2> QED BY <1>1, <1>3, <2>1 DEF Now
<1>5. Works(t, b) BY <1>2 DEF Works, Writing
<1>6. Now(t) \in Pages(b)
  <2>1. /\ Part(t)[1] \in Pages(b) /\ Part(t)[1] + Part(t)[2] <= b[1] + b[2]
        /\ b[1] \in Nat /\ b[2] \in Nat /\ Part(t)[1] \in Nat
        /\ Part(t)[2] \in Nat
    <3> DEFINE parts == call[t].parts
    <3>1. Part(t) = parts[1]
      BY <1>1 DEF Part, CallInv, Call
    <3>2. /\ parts \in Seq(Nat \X Nat) /\ Len(parts) \in {1, 2}
          /\ \A i \in 1 .. Len(parts) : Fits(parts[i])
          /\ Len(parts) = 1 => parts[1][1] + parts[1][2] = b[1] + b[2]
          /\ Len(parts) = 2 => /\ parts[2][1] = parts[1][1] + parts[1][2]
                               /\ parts[2][1] + parts[2][2] = b[1] + b[2]
      BY <1>2 DEF Writing, Reaches
    <3>3. Part(t)[1] \in Pages(b) /\ b[1] \in Nat /\ b[2] \in Nat
      BY <1>2, BlockIsPages DEF Writing
    <3>4. CASE Len(parts) = 1 BY <1>1, <3>1, <3>2, <3>3, <3>4
    <3>5. CASE Len(parts) = 2
      <4>1. parts[2] \in Nat \X Nat BY <3>2, <3>5
      <4> HIDE DEF parts
      <4> QED BY <1>1, <3>1, <3>2, <3>3, <3>5, <4>1
    <3> QED BY <3>2, <3>4, <3>5
  <2> QED BY <2>1, <1>1 DEF Now, Pages
<1>7. /\ Pages(b) \subseteq Page
      /\ \A p \in Page \ Pages(b) : Entry(p)' = Entry(p)
  BY <1>6, BlockIsPages
<1>8. Writing(t, b)'
  <2>1. \A p \in Pages(b) : p < Now(t)' => Entry(p)' = call'[t].value
    <3>1. ASSUME NEW p \in Pages(b), p < Now(t) + 1
          PROVE  p = Now(t) \/ p < Now(t)
      <4>1. Pages(b) \subseteq Nat BY BlockIsPages DEF Pages
      <4> QED BY <1>6, <3>1, <4>1
    <3> QED BY <1>2, <1>3, <1>4, <1>7, <3>1 DEF Writing
  <2> QED BY <2>1, <1>2, <1>3, <1>4 DEF Writing
<1>9. CallInv(t)'
  <2>1. call'[t].done < Part(t)'[2] BY <1>3, <1>4
  <2> QED BY <1>1, <1>3, <1>4, <1>8, <2>1 DEF CallInv
<1>10. CallsInv'
  <2> SUFFICES ASSUME NEW u \in Thread \ {t}
               PROVE (IF pc[u] = "idle" THEN call[u] = Idle ELSE CallInv(u))'
    BY <1>9 DEF CallsInv
  <2>1. CASE pc[u] = "idle" BY <2>1, <1>3 DEF CallInvs, CallsInv
  <2>2. CASE pc[u] # "idle"
    <3>1. ASSUME NEW c \in Block, Works(u, c), NEW p \in Pages(c)
          PROVE  Entry(p)' = Entry(p)
      <4>1. c # b BY <3>1, <1>5 DEF CallInvs, AloneInv
      <4>2. p \notin Pages(b) BY <4>1, BlocksApart
      <4>3. p \in Page BY BlockIsPages
      <4> QED BY <1>7, <4>2, <4>3
    <3>2. CallInv(u)' BY <1>3, <2>2, <3>1, CallKept DEF CallInvs
    <3> QED BY <2>2, <3>2
  <2> QED BY <2>1, <2>2
<1>11. AloneInv'
  <2>1. \A u \in Thread : Part(u)' = Part(u) /\ call'[u].op = call[u].op
    BY <1>3, <1>4 DEF Part
  <2> QED BY <2>1 DEF CallInvs, AloneInv, Works
<1>12. EntriesMatchBlocks'
  <2>1. ASSUME NEW c \in Block, NEW p \in Pages(c), c # b
        PROVE  Entry(p)' = Entry(p)
    <3>1. p \notin Pages(b) BY <2>1, BlocksApart
    <3>2. p \in Page BY BlockIsPages
    <3> QED BY <1>7, <3>1, <3>2
  <2>2. state[b] \notin {"in", "out"} BY <1>2 DEF Writing
  <2> QED BY <2>1, <2>2 DEF CallInvs, EntriesMatchBlocks
<1> QED BY <1>10, <1>11, <1>12 DEF CallInvs

\* A call to enter or to remove a block starts.
LEMMA BlockTaken ==
  ASSUME Types, CallInvs, EntriesKept, NEW t \in Thread, NEW b \in Block,
         NEW split \in {InsertSplit, RemoveSplit},
         NEW op, NEW value, NEW now,
         \/ op = "insert" /\ value = b /\ now = "entering" /\ state[b] = "out"
         \/ op = "remove" /\ value = Zero /\ now = "leaving" /\ state[b] = "in",
         Start(t, op, Parts(b, split), value),
         state' = [state EXCEPT ![b] = now]
  PROVE  CallInvs'
<1> DEFINE parts == Parts(b, split)
<1>1. /\ pc[t] = "idle" /\ pc'[t] = "root"
      /\ call'[t] = [op |-> op, parts |-> parts, done |-> 0, value |-> value]
      /\ \A u \in Thread \ {t} : call'[u] = call[u] /\ pc'[u] = pc[u]
  BY DEF Start, Types, Goto
<1>2. /\ Reaches(parts, b) /\ Head(parts) = parts[1] /\ parts[1][1] = b[1]
      /\ b[1] \in Nat /\ b[2] \in Nat /\ b[1] \in Pages(b)
      /\ Pages(b) \subseteq Page
  BY PartsReach, BlockIsPages
<1> HIDE DEF parts
<1>3. /\ call'[t].op = op /\ call'[t].parts = parts /\ call'[t].done = 0
      /\ call'[t].value = value
  BY <1>1
<1>4. Part(t)' = parts[1] /\ Now(t)' = b[1]
  <2>1. Part(t)' = parts[1] BY <1>2, <1>3 DEF Part
  <2> QED BY <1>2, <1>3, <2>1 DEF Now
<1>5. state'[b] = now /\ \A c \in Block \ {b} : state'[c] = state[c]
  BY DEF Types
<1>6. ASSUME NEW u \in Thread, NEW c \in Block, Works(u, c)
      PROVE  u # t /\ c # b
  <2>1. Writing(u, c) BY <1>6, WorksOn DEF CallInvs
  <2> QED BY <1>1, <1>6, <2>1 DEF Works, Writing
<1>7. Writing(t, b)'
  <2>1. \A p \in Pages(b) : ~ (p < b[1]) BY <1>2 DEF Pages
  <2> QED BY <1>2, <1>3, <1>4, <1>5, <2>1 DEF Writing
<1>8. CallInv(t)'
  <2>1. /\ parts \in Seq(Nat \X Nat) /\ Len(parts) \in {1, 2}
        /\ \A i \in 1 .. Len(parts) : Fits(parts[i])
    BY <1>2 DEF Reaches
  <2>2. parts # <<>> /\ Fits(parts[1])
    <3>1. CASE Len(parts) = 1 BY <3>1, <2>1
    <3>2. CASE Len(parts) = 2
      <4>1. 1 \in 1 .. 2 /\ Len(<<>>) # 2 OBVIOUS
      <4>2. Fits(parts[1]) BY <2>1, <3>2, <4>1
      <4> QED BY <3>2, <4>1, <4>2
    <3> QED BY <2>1, <3>1, <3>2
  <2>3. 0 < parts[1][2] BY <2>2 DEF Fits
  <2> QED BY <1>3, <1>4, <1>7, <2>2, <2>3 DEF CallInv
<1>9. CallsInv'
  <2> SUFFICES ASSUME NEW u \in Thread \ {t}
               PROVE (IF pc[u] = "idle" THEN call[u] = Idle ELSE CallInv(u))'
    BY <1>1, <1>8 DEF CallsInv
  <2>1. CASE pc[u] = "idle" BY <2>1, <1>1 DEF CallInvs, CallsInv
  <2>2. CASE pc[u] # "idle"
    <3>1. ASSUME NEW c \in Block, Works(u, c)
          PROVE  state'[c] = state[c] /\ \A p \in Pages(c) : Entry(p)' = Entry(p)
      <4>1. Pages(c) \subseteq Page BY BlockIsPages
      <4> QED BY <1>5, <1>6, <3>1, <4>1 DEF EntriesKept
    <3>2. CallInv(u)' BY <1>1, <2>2, <3>1, CallKept DEF CallInvs
    <3> QED BY <1>1, <2>2, <3>2
  <2> QED BY <2>1, <2>2
<1>10. AloneInv'
  <2>1. ASSUME NEW c \in Block, Works(t, c)' PROVE c = b
    BY <1>2, <1>4, <2>1, BlocksApart DEF Works
  <2>2. ASSUME NEW u \in Thread \ {t}, NEW c \in Block, Works(u, c)'
        PROVE  Works(u, c) /\ c # b
    <3>1. Works(u, c) BY <1>1, <2>2 DEF Works, Part
    <3> QED BY <1>6, <3>1
  <2> SUFFICES ASSUME NEW u \in Thread, NEW w \in Thread, NEW c \in Block,
                      Works(u, c)', Works(w, c)'
               PROVE  u = w
    BY DEF AloneInv
  <2>3. CASE u = t \/ w = t BY <2>1, <2>2, <2>3
  <2>4. CASE u # t /\ w # t
    <3>1. Works(u, c) /\ Works(w, c) BY <2>2, <2>4
    <3> QED BY <3>1 DEF CallInvs, AloneInv
  <2> QED BY <2>3, <2>4
<1>11. EntriesMatchBlocks'
  <2>1. \A c \in Block : Pages(c) \subseteq Page BY BlockIsPages
  <2> QED BY <1>5, <2>1 DEF CallInvs, EntriesMatchBlocks, EntriesKept
<1> QED BY <1>9, <1>10, <1>11 DEF CallInvs

\* A lookup starts.
LEMMA LookupStarts ==
  ASSUME Types, CallInvs, EntriesKept, NEW t \in Thread, NEW p \in Page,
         GetMut(t, p)
  PROVE  CallInvs'
<1>1. /\ pc[t] = "idle" /\ pc'[t] = "root" /\ UNCHANGED state
      /\ call'[t] = [op |-> "get", parts |-> << <<p, 1>> >>, done |-> 0,
                     value |-> Zero]
      /\ \A u \in Thread \ {t} : call'[u] = call[u] /\ pc'[u] = pc[u]
  BY DEF GetMut, Start, Types, Goto
<1>2. /\ call'[t].op = "get" /\ call'[t].parts = << <<p, 1>> >>
      /\ call'[t].done = 0 /\ Part(t)' = <<p, 1>>
  BY <1>1 DEF Part
<1>3. Fits(<<p, 1>>)
  <2>1. EntryOf(p) \in 0 .. LeafSize - 1 BY PageSpot DEF Entries
  <2>2. LeafSize \in Nat BY RadixAssumption
  <2> QED BY <2>1, <2>2 DEF Fits
<1>4. CallInv(t)' BY <1>2, <1>3 DEF CallInv
<1>5. \A b \in Block : Pages(b) \subseteq Page BY BlockIsPages
<1>6. CallsInv'
  <2> SUFFICES ASSUME NEW u \in Thread \ {t}
               PROVE (IF pc[u] = "idle" THEN call[u] = Idle ELSE CallInv(u))'
    BY <1>1, <1>4 DEF CallsInv
  <2>1. CASE pc[u] = "idle" BY <2>1, <1>1 DEF CallInvs, CallsInv
  <2>2. CASE pc[u] # "idle"
    <3>1. CallInv(u)'
      BY <1>1, <1>5, <2>2, CallKept DEF CallInvs, EntriesKept
    <3> QED BY <1>1, <2>2, <3>1
  <2> QED BY <2>1, <2>2
<1>7. AloneInv' BY <1>1, <1>2 DEF CallInvs, AloneInv, Works, Part
<1>8. EntriesMatchBlocks'
  BY <1>1, <1>5 DEF CallInvs, EntriesMatchBlocks, EntriesKept
<1> QED BY <1>6, <1>7, <1>8 DEF CallInvs

-----------------------------------------------------------------------------
(***************************************************************************)
(* Every step keeps the invariant.                                         *)
(***************************************************************************)
LEMMA NodesAreIds ==
  ASSUME Types, NodesInv, rdptr # Null
  PROVE  /\ rdptr \in NodeId
         /\ \A i \in Slots : mem[rdptr][i] \in NodeId \cup {Null}
  BY DEF Types, NodesInv

\* A call's parts stay pairs of numbers.
LEMMA EndPartTypes ==
  ASSUME Types, CallsInv, NEW t \in Thread, pc[t] # "idle", EndPart(t),
         UNCHANGED <<fresh, mine>>, DOMAIN mem' \subseteq NodeId,
         got' \in [Thread -> Value]
  PROVE  Types'
<1>1. /\ call[t] \in Call /\ call[t].parts \in Seq(Nat \X Nat)
      /\ call[t].parts # <<>>
  BY DEF Types, CallsInv, CallInv, Call
<1>2. Tail(call[t].parts) \in Seq(Nat \X Nat) BY <1>1, HeadTailProperties
<1>3. NodeId' = NodeId BY DEF NodeId
<1>4. /\ leaf' \in [Thread -> NodeId \cup {Null}]
      /\ pc' \in [Thread -> {"idle", "root", "casroot", "slot", "casleaf", "entry"}]
      /\ tree' \in [Thread -> NodeId \cup {Null}]
  BY DEF EndPart, Types, Goto
<1>5. call' \in [Thread -> Call]
  <2>1. Idle \in Call BY DEF Idle, Call, Value
  <2>2. CASE call' = [call EXCEPT ![t] = Idle] BY <2>1, <2>2 DEF Types
  <2>3. CASE call' = [call EXCEPT ![t].parts = Tail(@), ![t].done = 0]
    <3>1. call'[t] = [call[t] EXCEPT !.parts = Tail(call[t].parts), !.done = 0]
      BY <2>3 DEF Types
    <3>2. call'[t] \in Call
      <4> DEFINE now == call[t]  next == Tail(call[t].parts)
      <4>1. now \in Call /\ next \in Seq(Nat \X Nat) BY <1>1, <1>2
      <4>2. call'[t] = [now EXCEPT !.parts = next, !.done = 0] BY <3>1
      <4> HIDE DEF now, next
      <4>3. now = [op |-> now.op, parts |-> now.parts, done |-> now.done,
                   value |-> now.value]
        BY <4>1 DEF Call
      <4>4. call'[t] = [op |-> now.op, parts |-> next, done |-> 0,
                        value |-> now.value]
        BY <4>2, <4>3
      <4>5. /\ now.op \in {"none", "insert", "remove", "get"}
            /\ now.value \in Value
        BY <4>1 DEF Call
      <4> QED BY <4>1, <4>4, <4>5 DEF Call
    <3>3. call' = [call EXCEPT ![t] = call'[t]] BY <2>3 DEF Types
    <3> QED BY <3>2, <3>3 DEF Types
  <2> QED BY <2>2, <2>3 DEF EndPart
<1>6. state' \in [Block -> {"out", "entering", "in", "leaving"}]
  <2>1. CASE UNCHANGED state BY <2>1 DEF Types
  <2>2. CASE state' = [b \in Block |->
             CASE Part(t)[1] \notin Pages(b) \/ call[t].op = "get" -> state[b]
               [] Part(t)[1] \in Pages(b) /\ call[t].op = "insert" -> "in"
               [] Part(t)[1] \in Pages(b) /\ call[t].op = "remove" -> "out"]
    <3>1. call[t].op \in {"get", "insert", "remove"} BY DEF CallsInv, CallInv
    <3> QED BY <2>2, <3>1 DEF Types
  <2> QED BY <2>1, <2>2 DEF EndPart
<1> QED BY <1>3, <1>4, <1>5, <1>6 DEF Types

LEMMA StartTypes ==
  ASSUME Types, NEW t \in Thread, NEW op \in {"insert", "remove", "get"},
         NEW parts \in Seq(Nat \X Nat), NEW value \in Value,
         Start(t, op, parts, value),
         state' \in [Block -> {"out", "entering", "in", "leaving"}]
  PROVE  Types'
<1>1. NodeId' = NodeId BY DEF NodeId, Start
<1>2. [op |-> op, parts |-> parts, done |-> 0, value |-> value] \in Call
  BY DEF Call
<1> QED BY <1>1, <1>2 DEF Types, Start, Goto

LEMMA StartSteps ==
  ASSUME TreeInv, NEW t \in Thread, NEW b \in Block,
         \/ HandleRdTreeInsert(t, b) \/ HandleRdTreeRemove(t, b)
         \/ \E p \in Pages(b) : GetMut(t, p)
  PROVE  TreeInv' /\ EntriesKept /\ UNCHANGED got
<1>1. Types /\ NodesInvs /\ CallInvs BY DEF TreeInv, NodesInvs, CallInvs
<1>2. ASSUME NEW op, NEW parts, NEW value, Start(t, op, parts, value)
      PROVE  NodesInvs' /\ EntriesKept /\ UNCHANGED got
  <2>1. /\ Others(t) /\ UNCHANGED <<rdptr, mem, mine, got>>
        /\ pc[t] = "idle" /\ pc'[t] = "root"
    BY <1>1, <1>2 DEF Start, Goto, Types, Others
  <2> QED BY <1>1, <2>1, NodesStay
<1>3. ASSUME NEW split \in {InsertSplit, RemoveSplit}
      PROVE  Parts(b, split) \in Seq(Nat \X Nat)
  BY PartsReach DEF Reaches
<1>4. b \in Value /\ Zero \in Value BY DEF Value
<1>5. CASE HandleRdTreeInsert(t, b)
  <2>1. Start(t, "insert", Parts(b, InsertSplit), b) /\ state[b] = "out"
        /\ state' = [state EXCEPT ![b] = "entering"]
    BY <1>5 DEF HandleRdTreeInsert
  <2>2. NodesInvs' /\ EntriesKept /\ UNCHANGED got BY <1>2, <2>1
  <2>3. state' \in [Block -> {"out", "entering", "in", "leaving"}]
    BY <1>1, <2>1 DEF Types
  <2>4. Types' BY <1>1, <1>3, <1>4, <2>1, <2>3, StartTypes
  <2>5. CallInvs' BY <1>1, <2>1, <2>2, BlockTaken
  <2> QED BY <2>2, <2>4, <2>5 DEF TreeInv, NodesInvs, CallInvs
<1>6. CASE HandleRdTreeRemove(t, b)
  <2>1. Start(t, "remove", Parts(b, RemoveSplit), Zero) /\ state[b] = "in"
        /\ state' = [state EXCEPT ![b] = "leaving"]
    BY <1>6 DEF HandleRdTreeRemove
  <2>2. NodesInvs' /\ EntriesKept /\ UNCHANGED got BY <1>2, <2>1
  <2>3. state' \in [Block -> {"out", "entering", "in", "leaving"}]
    BY <1>1, <2>1 DEF Types
  <2>4. Types' BY <1>1, <1>3, <1>4, <2>1, <2>3, StartTypes
  <2>5. CallInvs' BY <1>1, <2>1, <2>2, BlockTaken
  <2> QED BY <2>2, <2>4, <2>5 DEF TreeInv, NodesInvs, CallInvs
<1>7. CASE \E p \in Pages(b) : GetMut(t, p)
  <2>1. PICK p \in Page : GetMut(t, p) BY <1>7, BlockIsPages
  <2>2. Start(t, "get", << <<p, 1>> >>, Zero) /\ UNCHANGED state
    BY <2>1 DEF GetMut
  <2>3. NodesInvs' /\ EntriesKept /\ UNCHANGED got BY <1>2, <2>2
  <2>4. p \in Nat BY DEF Page
  <2>5. << <<p, 1>> >> \in Seq(Nat \X Nat) BY <2>4
  <2>6. state' \in [Block -> {"out", "entering", "in", "leaving"}]
    BY <1>1, <2>2 DEF Types
  <2>7. Types' BY <1>1, <1>4, <2>2, <2>5, <2>6, StartTypes
  <2>8. CallInvs' BY <1>1, <2>1, <2>3, LookupStarts
  <2> QED BY <2>3, <2>7, <2>8 DEF TreeInv, NodesInvs, CallInvs
<1> QED BY <1>5, <1>6, <1>7

LEMMA LoadRootStep ==
  ASSUME TreeInv, NEW t \in Thread, LoadRoot(t)
  PROVE  TreeInv' /\ EntriesKept /\ UNCHANGED got
<1>1. Types /\ NodesInvs /\ CallInvs BY DEF TreeInv, NodesInvs, CallInvs
<1>2. NodesInvs' /\ EntriesKept BY <1>1, LoadRootNodes
<1>3. UNCHANGED <<call, state, got>> /\ \A u \in Thread :
        pc'[u] = "idle" <=> pc[u] = "idle"
  BY <1>1 DEF LoadRoot, Types, Goto
<1>4. CallInvs' BY <1>1, <1>2, <1>3, CallsStay
<1>5. Types'
  <2>1. CASE rdptr # Null
    <3>1. rdptr \in NodeId BY <1>1, <2>1, NodesAreIds DEF NodesInvs
    <3>2. NodeId' = NodeId BY <2>1 DEF LoadRoot, NodeId
    <3> QED BY <1>1, <2>1, <3>1, <3>2 DEF LoadRoot, Types, Goto
  <2>2. CASE rdptr = Null
    <3>1. fresh \in Nat /\ fresh' = fresh + 1
          /\ DOMAIN mem' = DOMAIN mem \cup {fresh + 1}
      BY <1>1, <2>2 DEF LoadRoot, Types, NewNode
    <3>2. NodeId \subseteq NodeId' /\ fresh + 1 \in NodeId' /\ fresh' \in Nat
      BY <3>1 DEF NodeId
    <3> QED BY <1>1, <2>2, <3>1, <3>2 DEF LoadRoot, Types, Goto
  <2> QED BY <2>1, <2>2
<1> QED BY <1>2, <1>3, <1>4, <1>5 DEF TreeInv, NodesInvs, CallInvs

LEMMA CasRootStep ==
  ASSUME TreeInv, NEW t \in Thread, CasRoot(t)
  PROVE  TreeInv' /\ EntriesKept /\ UNCHANGED got
<1>1. Types /\ NodesInvs /\ CallInvs BY DEF TreeInv, NodesInvs, CallInvs
<1>2. NodesInvs' /\ EntriesKept BY <1>1, CasRootNodes
<1>3. UNCHANGED <<call, state, got>> /\ \A u \in Thread :
        pc'[u] = "idle" <=> pc[u] = "idle"
  BY <1>1 DEF CasRoot, Types, Goto
<1>4. CallInvs' BY <1>1, <1>2, <1>3, CallsStay
<1>5. Types'
  <2>1. rdptr # Null => rdptr \in NodeId BY <1>1, NodesAreIds DEF NodesInvs
  <2>2. NodeId' = NodeId BY DEF CasRoot, NodeId
  <2>3. DOMAIN mem' \subseteq DOMAIN mem BY DEF CasRoot, Unmapped
  <2> QED BY <1>1, <2>1, <2>2, <2>3 DEF CasRoot, Types, Goto
<1> QED BY <1>2, <1>3, <1>4, <1>5 DEF TreeInv, NodesInvs, CallInvs

\* Where there is no leaf, none of the pages of the part is entered.
LEMMA LoadLeafStep ==
  ASSUME TreeInv, NEW t \in Thread, LoadLeaf(t)
  PROVE  /\ TreeInv' /\ EntriesKept
         /\ \/ UNCHANGED got
            \/ \E p \in Page : got' = [got EXCEPT ![t] = Entry(p)]
<1>1. Types /\ NodesInvs /\ CallInvs BY DEF TreeInv, NodesInvs, CallInvs
<1>2. NodesInvs' /\ EntriesKept BY <1>1, LoadLeafNodes
<1>3. /\ pc[t] = "slot" /\ UNCHANGED rdptr /\ rdptr # Null /\ tree[t] = rdptr
      /\ CallInv(t) /\ Fits(Part(t)) /\ call[t] \in Call
      /\ call[t].done \in Nat
  BY <1>1 DEF LoadLeaf, NodesInvs, PlaceInv, CallInvs, CallsInv, CallInv, Types,
              Call
<1>4. /\ LeafOf(Part(t)[1]) \in Slots /\ Part(t)[1] \in Page
  BY <1>3, PageSpot DEF Fits
<1>5. CASE /\ Slot(t) # Null
           /\ leaf' = [leaf EXCEPT ![t] = Slot(t)]
           /\ Goto(t, "entry")
           /\ UNCHANGED <<mem, fresh, call, tree, mine, got, state>>
  <2>1. Slot(t) \in NodeId
    BY <1>1, <1>3, <1>4, <1>5, NodesAreIds DEF Slot, NodesInvs
  <2>2. Types' BY <1>1, <1>5, <2>1 DEF Types, Goto, NodeId
  <2>3. \A u \in Thread : pc'[u] = "idle" <=> pc[u] = "idle"
    BY <1>1, <1>3, <1>5 DEF Goto, Types
  <2>4. CallInvs' BY <1>1, <1>2, <1>5, <2>3, CallsStay
  <2> QED BY <1>2, <1>5, <2>2, <2>4 DEF TreeInv, NodesInvs, CallInvs
<1>6. CASE /\ Slot(t) = Null /\ call[t].op = "insert"
           /\ fresh' = fresh + 1
           /\ NewNode(fresh + 1, LeafSize, Zero)
           /\ mine' = [mine EXCEPT ![t] = fresh + 1]
           /\ Goto(t, "casleaf")
           /\ UNCHANGED <<call, tree, leaf, got, state>>
  <2>1. fresh \in Nat /\ fresh' = fresh + 1
        /\ DOMAIN mem' = DOMAIN mem \cup {fresh + 1}
    BY <1>1, <1>6 DEF Types, NewNode
  <2>2. NodeId \subseteq NodeId' /\ fresh + 1 \in NodeId' /\ fresh' \in Nat
    BY <2>1 DEF NodeId
  <2>3. Types' BY <1>1, <1>6, <2>1, <2>2 DEF Types, Goto
  <2>4. \A u \in Thread : pc'[u] = "idle" <=> pc[u] = "idle"
    BY <1>1, <1>3, <1>6 DEF Goto, Types
  <2>5. CallInvs' BY <1>1, <1>2, <1>6, <2>4, CallsStay
  <2> QED BY <1>2, <1>6, <2>3, <2>5 DEF TreeInv, NodesInvs, CallInvs
<1>7. CASE /\ Slot(t) = Null /\ call[t].op # "insert"
           /\ got' = IF call[t].op = "get" THEN [got EXCEPT ![t] = Zero] ELSE got
           /\ EndPart(t)
           /\ UNCHANGED <<mem, fresh, mine>>
  <2>1. got' \in [Thread -> Value] BY <1>1, <1>7 DEF Types, Value
  <2>2. Types'
    BY <1>1, <1>3, <1>7, <2>1, EndPartTypes DEF Types, CallInvs
  <2>3. \A p \in Page : LeafOf(p) = LeafOf(Part(t)[1]) => Entry(p) = Zero
    BY <1>3, <1>7 DEF Entry, Slot
  <2>4. ASSUME NEW b \in Block, Works(t, b), NEW p \in Pages(b),
               p < Part(t)[1] + Part(t)[2]
        PROVE  Entry(p)' = call[t].value
    <3>1. Writing(t, b) BY <1>1, <2>4, WorksOn DEF CallInvs
    <3>2. call[t].value = Zero BY <1>7, <3>1 DEF Writing
    <3>3. p \in Page BY BlockIsPages
    <3>4. CASE p < Now(t) BY <1>2, <3>1, <3>3, <3>4 DEF Writing, EntriesKept
    <3>5. CASE ~ (p < Now(t))
      <4> DEFINE d == p - Part(t)[1]
      <4>1. /\ p \in Nat /\ Part(t)[1] \in Nat /\ Part(t)[2] \in Nat
        BY <1>3, <1>4, <3>3 DEF Page, Fits
      <4>2. d \in 0 .. Part(t)[2] - 1 /\ p = Part(t)[1] + d
        BY <1>3, <2>4, <3>5, <4>1 DEF Now
      <4> HIDE DEF d
      <4>3. LeafOf(p) = LeafOf(Part(t)[1]) BY <1>3, <4>2, SideBySide
      <4> QED BY <1>2, <2>3, <3>2, <3>3, <4>3 DEF EntriesKept
    <3> QED BY <3>4, <3>5
  <2>5. PartWritten(t)
    BY <1>2, <2>4 DEF PartWritten, EntriesKept
  <2>6. CallInvs' BY <1>1, <1>3, <1>7, <2>5, PartEnds
  <2>7. \/ UNCHANGED got
        \/ \E p \in Page : got' = [got EXCEPT ![t] = Entry(p)]
    <3>1. Entry(Part(t)[1]) = Zero BY <1>4, <2>3
    <3> QED BY <1>4, <1>7, <3>1
  <2> QED BY <1>2, <2>2, <2>6, <2>7 DEF TreeInv, NodesInvs, CallInvs
<1> QED BY <1>5, <1>6, <1>7 DEF LoadLeaf

LEMMA CasLeafStep ==
  ASSUME TreeInv, NEW t \in Thread, CasLeaf(t)
  PROVE  TreeInv' /\ EntriesKept /\ UNCHANGED got
<1>1. Types /\ NodesInvs /\ CallInvs BY DEF TreeInv, NodesInvs, CallInvs
<1>2. /\ pc[t] = "casleaf" /\ rdptr # Null /\ tree[t] = rdptr
      /\ Fits(Part(t))
  BY <1>1 DEF CasLeaf, NodesInvs, PlaceInv, CallInvs, CallsInv, CallInv
<1>3. LeafOf(Part(t)[1]) \in Slots BY <1>2, PageSpot DEF Fits
<1>4. NodesInvs' /\ EntriesKept BY <1>1, <1>3, CasLeafNodes
<1>5. UNCHANGED <<call, state, got>> /\ \A u \in Thread :
        pc'[u] = "idle" <=> pc[u] = "idle"
  BY <1>1 DEF CasLeaf, Types, Goto
<1>6. CallInvs' BY <1>1, <1>4, <1>5, CallsStay
<1>7. Types'
  <2>1. Slot(t) \in NodeId \cup {Null}
    BY <1>1, <1>2, <1>3, NodesAreIds DEF Slot, NodesInvs
  <2>2. NodeId' = NodeId BY DEF CasLeaf, NodeId
  <2>3. DOMAIN mem' \subseteq DOMAIN mem BY DEF CasLeaf, Unmapped
  <2> QED BY <1>1, <2>1, <2>2, <2>3 DEF CasLeaf, Types, Goto
<1> QED BY <1>4, <1>5, <1>6, <1>7 DEF TreeInv, NodesInvs, CallInvs

LEMMA WriteEntryStep ==
  ASSUME TreeInv, NEW t \in Thread, WriteEntry(t)
  PROVE  /\ TreeInv' /\ UNCHANGED got
         /\ Now(t) \in Page /\ call[t].value \in Value
         /\ \A p \in Page :
              Entry(p)' = IF p = Now(t) THEN call[t].value ELSE Entry(p)
<1>1. Types /\ NodesInvs /\ CallInvs BY DEF TreeInv, NodesInvs, CallInvs
<1>2. /\ pc[t] = "entry" /\ CallInv(t) /\ Fits(Part(t))
      /\ call[t].done < Part(t)[2] /\ call[t] \in Call
      /\ call[t].op # "get" /\ UNCHANGED <<rdptr, fresh, mine, got>>
  BY <1>1 DEF WriteEntry, CallInvs, CallsInv, CallInv, Types
<1>3. /\ NodesInvs' /\ Now(t) \in Page
      /\ \A p \in Page :
           Entry(p)' = IF p = Now(t) THEN call[t].value ELSE Entry(p)
  BY <1>1, <1>2, WriteEntryNodes
<1>4. DOMAIN mem' = DOMAIN mem /\ NodeId' = NodeId BY <1>2 DEF WriteEntry, NodeId
<1>5. CASE /\ call[t].done + 1 < Part(t)[2]
           /\ call' = [call EXCEPT ![t].done = @ + 1]
           /\ UNCHANGED <<pc, tree, leaf, state>>
  <2>1. CallInvs' BY <1>1, <1>2, <1>3, <1>5, EntryWritten
  <2>2. call' \in [Thread -> Call]
    <3>1. ASSUME NEW r \in Call PROVE [r EXCEPT !.done = r.done + 1] \in Call
      <4>1. /\ r = [op |-> r.op, parts |-> r.parts,
                   done |-> r.done, value |-> r.value]
            /\ r.done + 1 \in Nat
        BY DEF Call
      <4>2. [r EXCEPT !.done = r.done + 1]
              = [op |-> r.op, parts |-> r.parts,
                 done |-> r.done + 1, value |-> r.value]
        BY <4>1
      <4> QED BY <4>1, <4>2 DEF Call
    <3>2. [call[t] EXCEPT !.done = call[t].done + 1] \in Call BY <1>2, <3>1
    <3> QED BY <1>1, <1>5, <3>2 DEF Types
  <2>3. Types' BY <1>1, <1>2, <1>4, <1>5, <2>2 DEF Types
  <2> QED BY <1>2, <1>3, <2>1, <2>3 DEF TreeInv, NodesInvs, CallInvs, Call
<1>6. CASE call[t].done + 1 = Part(t)[2] /\ EndPart(t)
  <2>1. Types'
    BY <1>1, <1>2, <1>4, <1>6, EndPartTypes DEF Types, CallInvs
  <2>2. ASSUME NEW b \in Block, Works(t, b)
        PROVE  /\ \A p \in Page \ Pages(b) : Entry(p)' = Entry(p)
               /\ \A p \in Pages(b) :
                    p < Part(t)[1] + Part(t)[2] => Entry(p)' = call[t].value
    <3>1. Writing(t, b) BY <1>1, <2>2, WorksOn DEF CallInvs
    <3>2. /\ Part(t)[1] \in Nat /\ Part(t)[2] \in Nat /\ call[t].done \in Nat
          /\ Pages(b) \subseteq Page /\ Page \subseteq Nat
      BY <1>2, BlockIsPages DEF Fits, Page, Call
    <3>3. Part(t)[1] + Part(t)[2] = Now(t) + 1 BY <1>6, <3>2 DEF Now
    <3>4. Now(t) \in Pages(b)
      <4>1. Part(t)[1] + Part(t)[2] <= b[1] + b[2]
        <5> DEFINE parts == call[t].parts
        <5>1. /\ parts \in Seq(Nat \X Nat) /\ Len(parts) \in {1, 2}
              /\ \A i \in 1 .. Len(parts) : Fits(parts[i])
              /\ Len(parts) = 1 => parts[1][1] + parts[1][2] = b[1] + b[2]
              /\ Len(parts) = 2 => /\ parts[2][1] = parts[1][1] + parts[1][2]
                                   /\ parts[2][1] + parts[2][2] = b[1] + b[2]
          BY <3>1 DEF Writing, Reaches
        <5>2. Part(t) = parts[1] BY <1>2, <5>1 DEF Part, CallInv
        <5>3. b[1] \in Nat /\ b[2] \in Nat BY BlockIsPages
        <5>4. CASE Len(parts) = 1 BY <5>1, <5>2, <5>3, <5>4
        <5>5. CASE Len(parts) = 2
          <6>1. parts[2] \in Nat \X Nat BY <5>1, <5>5
          <6> HIDE DEF parts
          <6> QED BY <3>2, <5>1, <5>2, <5>3, <5>5, <6>1
        <5> QED BY <5>1, <5>4, <5>5
      <4>2. Part(t)[1] \in Pages(b) /\ b[1] \in Nat /\ b[2] \in Nat
        BY <3>1, BlockIsPages DEF Writing
      <4> QED BY <1>6, <3>2, <4>1, <4>2 DEF Now, Pages
    <3>5. ASSUME NEW p \in Pages(b), p < Now(t) + 1
          PROVE  p = Now(t) \/ p < Now(t)
      <4>1. p \in Nat /\ Now(t) \in Nat BY <3>2, <3>4
      <4> QED BY <3>5, <4>1
    <3> QED BY <1>3, <3>1, <3>2, <3>3, <3>4, <3>5 DEF Writing
  <2>3. PartWritten(t) BY <1>2, <2>2 DEF PartWritten
  <2>4. CallInvs' BY <1>1, <1>2, <1>6, <2>3, PartEnds
  <2> QED BY <1>2, <1>3, <2>1, <2>4 DEF TreeInv, NodesInvs, CallInvs, Call
<1> QED BY <1>5, <1>6 DEF WriteEntry

LEMMA ReadEntryStep ==
  ASSUME TreeInv, NEW t \in Thread, ReadEntry(t)
  PROVE  /\ TreeInv' /\ EntriesKept
         /\ \E p \in Page : got' = [got EXCEPT ![t] = Entry(p)]
<1>1. Types /\ NodesInvs /\ CallInvs BY DEF TreeInv, NodesInvs, CallInvs
<1>2. /\ pc[t] = "entry" /\ CallInv(t) /\ Fits(Part(t))
      /\ call[t].done < Part(t)[2] /\ call[t] \in Call /\ call[t].done \in Nat
      /\ call[t].op = "get" /\ UNCHANGED <<rdptr, mem, fresh, mine>>
      /\ rdptr # Null /\ leaf[t] = mem[rdptr][LeafOf(Part(t)[1])]
      /\ leaf[t] # Null
  BY <1>1 DEF ReadEntry, CallInvs, CallsInv, CallInv, Types, Call, NodesInvs,
              PlaceInv
<1>3. NodesInvs' /\ EntriesKept BY <1>1, ReadEntryNodes
<1>4. call[t].done \in 0 .. Part(t)[2] - 1 BY <1>2 DEF Fits
<1>5. /\ Now(t) \in Page /\ LeafOf(Now(t)) = LeafOf(Part(t)[1])
      /\ EntryOf(Now(t)) = EntryNow(t)
  BY <1>2, <1>4, SideBySide DEF Now, EntryNow
<1>6. Entry(Now(t)) = mem[leaf[t]][EntryNow(t)] BY <1>2, <1>5 DEF Entry
<1>7. got' = [got EXCEPT ![t] = Entry(Now(t))] BY <1>6 DEF ReadEntry
<1>8. Entry(Now(t)) \in Value
  <2>1. LeafOf(Now(t)) \in Slots /\ EntryOf(Now(t)) \in Entries
    BY <1>5, PageSpot
  <2>2. mem[leaf[t]] \in [Entries -> Value]
    BY <1>1, <1>2, <1>5, <2>1 DEF NodesInvs, NodesInv
  <2> QED BY <1>5, <1>6, <2>1, <2>2
<1>9. got' \in [Thread -> Value] BY <1>1, <1>7, <1>8 DEF Types
<1>10. Types'
  <2>1. EndPart(t) BY DEF ReadEntry
  <2> QED BY <1>1, <1>2, <1>9, <2>1, EndPartTypes DEF Types, CallInvs
<1>11. PartWritten(t) BY <1>2, <1>3 DEF PartWritten
<1>12. CallInvs' BY <1>1, <1>2, <1>11, PartEnds DEF ReadEntry
<1> QED BY <1>3, <1>5, <1>7, <1>10, <1>12 DEF TreeInv, NodesInvs, CallInvs

LEMMA TreeInit ==
  ASSUME Init
  PROVE  TreeInv /\ \A p \in Page : Entry(p) = Zero
<1>1. fresh \in Nat /\ DOMAIN mem = {} BY DEF Init
<1>2. Idle \in Call /\ Zero \in Value BY DEF Idle, Call, Value
<1>3. Types BY <1>1, <1>2 DEF Init, Types
<1>4. NodesInv /\ PlaceInv /\ NoNodeLeak
  BY <1>1 DEF Init, NodesInv, PlaceInv, NoNodeLeak
<1>5. MineInv BY DEF Init, MineInv
<1>6. CallsInv /\ AloneInv BY DEF Init, CallsInv, AloneInv, Works
<1>7. \A p : Entry(p) = Zero BY DEF Init, Entry
<1>8. EntriesMatchBlocks BY <1>7 DEF Init, EntriesMatchBlocks
<1> QED BY <1>3, <1>4, <1>5, <1>6, <1>7, <1>8 DEF TreeInv

\* What a step is to the users of the tree.
MapStep ==
  \/ EntriesKept /\ UNCHANGED got
  \/ EntriesKept /\ \E t \in Thread, p \in Page : got' = [got EXCEPT ![t] = Entry(p)]
  \/ /\ UNCHANGED got
     /\ \E p \in Page, v \in Value : \A q \in Page :
          Entry(q)' = IF q = p THEN v ELSE Entry(q)

LEMMA TreeNext ==
  ASSUME TreeInv, [Next]_vars
  PROVE  TreeInv' /\ MapStep
<1>1. CASE UNCHANGED vars
  <2>1. TreeInv'
    BY <1>1 DEF vars, threadVars, TreeInv, Types, NodeId, NodesInv, MineInv,
       PlaceInv, NoNodeLeak, CallsInv, CallInv, Writing, AloneInv, Works,
       EntriesMatchBlocks, Entry, Now, Part
  <2>2. MapStep BY <1>1 DEF vars, MapStep, EntriesKept, Entry
  <2> QED BY <2>1, <2>2
<1>2. ASSUME NEW t \in Thread, NEW b \in Block,
             \/ HandleRdTreeInsert(t, b) \/ HandleRdTreeRemove(t, b)
             \/ \E p \in Pages(b) : GetMut(t, p)
      PROVE  TreeInv' /\ MapStep
  BY <1>2, StartSteps DEF MapStep
<1>3. ASSUME NEW t \in Thread, LoadRoot(t) PROVE TreeInv' /\ MapStep
  BY <1>3, LoadRootStep DEF MapStep
<1>4. ASSUME NEW t \in Thread, CasRoot(t) PROVE TreeInv' /\ MapStep
  BY <1>4, CasRootStep DEF MapStep
<1>5. ASSUME NEW t \in Thread, LoadLeaf(t) PROVE TreeInv' /\ MapStep
  BY <1>5, LoadLeafStep DEF MapStep
<1>6. ASSUME NEW t \in Thread, CasLeaf(t) PROVE TreeInv' /\ MapStep
  BY <1>6, CasLeafStep DEF MapStep
<1>7. ASSUME NEW t \in Thread, WriteEntry(t) PROVE TreeInv' /\ MapStep
  BY <1>7, WriteEntryStep DEF MapStep
<1>8. ASSUME NEW t \in Thread, ReadEntry(t) PROVE TreeInv' /\ MapStep
  BY <1>8, ReadEntryStep DEF MapStep
<1> QED BY <1>1, <1>2, <1>3, <1>4, <1>5, <1>6, <1>7, <1>8 DEF Next

-----------------------------------------------------------------------------
(***************************************************************************)
(* The theorems.                                                           *)
(***************************************************************************)
\* The nodes, the threads' places in them and the parts they have left fit
\* together in every reachable state: the inductive invariant.
THEOREM TreeInvariant == Spec => []TreeInv
<1>1. Init => TreeInv BY TreeInit
<1>2. TreeInv /\ [Next]_vars => TreeInv' BY TreeNext
<1> QED BY <1>1, <1>2, PTL DEF Spec

\* A block that handle_rd_tree_insert has entered is found at all of its pages
\* and one that handle_rd_tree_remove has removed at none, whatever other
\* threads enter, remove, look up or map meanwhile, and although the two split
\* the block at different multiples.
THEOREM BlocksAreFound == Spec => []EntriesMatchBlocks
<1>1. TreeInv => EntriesMatchBlocks BY DEF TreeInv
<1> QED BY <1>1, TreeInvariant, PTL

\* get_rd_tree and insert keep every node they map in the tree or unmap it.
THEOREM NodesAreKept == Spec => []NoNodeLeak
<1>1. TreeInv => NoNodeLeak BY DEF TreeInv
<1> QED BY <1>1, TreeInvariant, PTL

\* For its users the tree is a map from pages to values: the steps that map,
\* install and unmap nodes change no page's value, a write changes one page's,
\* and get_mut returns the value the page has then.
THEOREM TreeIsMap == Spec => ImplementsMap
<1>1. Init => Map!Init
  BY TreeInit DEF Map!Init, Init
<1>2. TreeInv /\ [Next]_vars => [Map!Next]_(Map!vars)
  <2> SUFFICES ASSUME TreeInv, [Next]_vars
               PROVE  [Map!Next]_(Map!vars)
    OBVIOUS
  <2>1. MapStep BY TreeNext
  <2> DEFINE m == [p \in Page |-> Entry(p)]
  <2>2. m' = [p \in Page |-> Entry(p)'] OBVIOUS
  <2>3. EntriesKept => m' = m BY <2>2 DEF EntriesKept
  <2>4. CASE EntriesKept /\ UNCHANGED got BY <2>3, <2>4 DEF Map!vars
  <2>5. CASE EntriesKept /\
             \E t \in Thread, p \in Page : got' = [got EXCEPT ![t] = Entry(p)]
    <3>1. PICK t \in Thread, p \in Page : got' = [got EXCEPT ![t] = Entry(p)]
      BY <2>5
    <3>2. m[p] = Entry(p) OBVIOUS
    <3>3. Map!Read(t, p) BY <2>3, <2>5, <3>1, <3>2 DEF Map!Read
    <3> QED BY <3>3 DEF Map!Next
  <2>6. CASE /\ UNCHANGED got
             /\ \E p \in Page, v \in Value : \A q \in Page :
                  Entry(q)' = IF q = p THEN v ELSE Entry(q)
    <3>1. PICK p \in Page, v \in Value : \A q \in Page :
            Entry(q)' = IF q = p THEN v ELSE Entry(q)
      BY <2>6
    <3>2. m' = [m EXCEPT ![p] = v] BY <2>2, <3>1
    <3>3. Map!Write(p, v) BY <2>6, <3>2 DEF Map!Write
    <3> QED BY <3>3 DEF Map!Next
  <2> QED BY <2>1, <2>4, <2>5, <2>6 DEF MapStep
<1> QED BY <1>1, <1>2, TreeInvariant, PTL DEF Spec, ImplementsMap, Map!Spec
=============================================================================
