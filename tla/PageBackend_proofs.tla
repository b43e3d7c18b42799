------------------------- MODULE PageBackend_proofs -------------------------
(***************************************************************************)
(* The proofs of the two backends that hand out pages.                     *)
(*                                                                         *)
(* PageBackend: the blocks of the program, of the lists, of the calls in   *)
(* progress and of BUMP tile the mapped memory, the marks of the radix     *)
(* tree are those of the listed blocks, and what alloc returns overlaps    *)
(* nothing in use.  Every step replaces one block by the blocks that tile  *)
(* it (Becomes), apart from the map and unmap calls.                       *)
(*                                                                         *)
(* BuddySystem: the tree says which memory is free, alloc fails only if    *)
(* there is none, and what it returns overlaps nothing in use.             *)
(***************************************************************************)
EXTENDS PageBackend, BuddySystem, LinkedLists_proofs

P(b) == Pages(b[2], b[3])

Held == <<"held">>
List == <<"list">>
Bump == <<"bump">>
CallOf(t) == <<"call", t>>

HeldBlocks == {<<Held, b[1], b[2]>> : b \in held}
CallBlocks == UNION {InFlight(t) : t \in Thread}
BumpBlock == <<Bump, bump.low, bump.top - bump.low>>

-----------------------------------------------------------------------------
(***************************************************************************)
(* The inductive invariant.                                                *)
(***************************************************************************)
Calls ==
  [at : {"idle", "scan", "split", "prev", "joinPrev", "linkPrev",
         "next", "joinNext", "linkNext", "put"},
   ptr : Nat, n : Nat, idx : Nat, fin : Nat, len : Nat]

\* The types.  A block of a failed mmap begins below Region, which need not be
\* a page of the address space.
Types ==
  /\ held \subseteq Nat \X (Nat \ {0})
  /\ list \in [Index -> Seq(Page)]
  /\ mark \in [Page -> 0 .. BackendMaxPage]
  /\ bump \in [low : Nat, top : Nat] /\ bump.low <= bump.top
  /\ mapped \subseteq Page
  /\ op \in [Thread -> Calls]

\* A set of blocks tiles the memory M.
Tiles(S, M) ==
  /\ \A a, b \in S : a # b => Disjoint(P(a) \cap M, P(b) \cap M)
  /\ M \subseteq UNION {P(b) : b \in S}

\* A block is mapped, or from a region that mmap failed to return: these are
\* held by the program or by BUMP only.
IsMapped(b) == P(b) \subseteq mapped
Failed(b) == /\ MmapFails /\ b[2] + b[3] <= Region
             /\ b[1] \in {Held, Bump}
Sound(b) ==
  /\ b[2] \in Nat /\ b[3] \in Nat
  /\ b[1] # Bump => b[3] > 0
  /\ IsMapped(b) \/ Failed(b)
BlocksAreSound == \A b \in Blocks : Sound(b)

\* The memory below Region, where a failed region would be, is never mapped.
LowUnmapped == \A p \in mapped : p >= Region

\* s is the first page of a block short enough for a list.  It remains one:
\* such a block is split and passed on, but never joined or unmapped.
Short(b) == b[1] # Bump /\ b[3] <= BackendMaxPage
Starts(s) == s \in mapped /\ \E b \in Blocks : b[2] = s /\ Short(b)

\* What a call in progress knows.
CallInv(t) ==
  LET o == op[t] IN
  /\ o.at = "scan" => o.n \in Request /\ o.idx >= o.n
  /\ o.at = "split" => o.n \in Request /\ o.idx \in Index /\ o.n < o.idx
  /\ o.at \in Freeing => o.fin = o.ptr /\ o.len = o.n /\ o.n > 0
  /\ o.at \in {"joinPrev", "linkPrev"} => Starts(o.ptr - o.idx)
  /\ o.at \in {"joinNext", "linkNext"} => Starts(o.ptr + o.n)
CallsInv == \A t \in Thread : CallInv(t)

BackendInv ==
  /\ Types /\ NoSharing(list) /\ BlocksAreSound /\ LowUnmapped
  /\ Tiles(Blocks, mapped) /\ MarksMatchLists /\ CallsInv

-----------------------------------------------------------------------------
(***************************************************************************)
(* Tilings.                                                                *)
(***************************************************************************)
\* The set T has the blocks of S, but for those of A, and those of N.
Replaces(S, T, A, N) == \A b : b \in T <=> (b \in S /\ b \notin A) \/ b \in N

\* The blocks N are the block a, cut up.
CutUp(a, N) ==
  /\ \A c \in N : P(c) \subseteq P(a)
  /\ \A c, d \in N : c # d => Disjoint(P(c), P(d))
  /\ P(a) \subseteq UNION {P(c) : c \in N}

\* Cutting up a block of a tiling gives a tiling.
LEMMA CutTiles ==
  ASSUME NEW S, NEW T, NEW M, NEW a \in S, NEW N, Tiles(S, M),
         Replaces(S, T, {a}, N), CutUp(a, N)
  PROVE  Tiles(T, M)
<1>1. ASSUME NEW b \in T, NEW c \in T, b # c
      PROVE  Disjoint(P(b) \cap M, P(c) \cap M)
  <2>1. CASE b \in N /\ c \in N BY <2>1, <1>1 DEF CutUp, Disjoint
  <2>2. CASE b \in N /\ c \notin N
    <3>1. c \in S /\ c # a BY <2>2, <1>1 DEF Replaces
    <3>2. Disjoint(P(a) \cap M, P(c) \cap M) BY <3>1 DEF Tiles
    <3> QED BY <3>2, <2>2 DEF CutUp, Disjoint
  <2>3. CASE b \notin N /\ c \in N
    <3>1. b \in S /\ b # a BY <2>3, <1>1 DEF Replaces
    <3>2. Disjoint(P(b) \cap M, P(a) \cap M) BY <3>1 DEF Tiles
    <3> QED BY <3>2, <2>3 DEF CutUp, Disjoint
  <2>4. CASE b \notin N /\ c \notin N
    BY <2>4, <1>1 DEF Replaces, Tiles
  <2> QED BY <2>1, <2>2, <2>3, <2>4
<1>2. ASSUME NEW p \in M PROVE \E b \in T : p \in P(b)
  <2>1. PICK b \in S : p \in P(b) BY DEF Tiles
  <2>2. CASE b = a
    <3>1. PICK c \in N : p \in P(c) BY <2>1, <2>2 DEF CutUp
    <3> QED BY <3>1 DEF Replaces
  <2>3. CASE b # a BY <2>1, <2>3 DEF Replaces
  <2> QED BY <2>2, <2>3
<1> QED BY <1>1, <1>2 DEF Tiles

\* Two blocks of a tiling that share a page of the memory are the same.
LEMMA SameBlock ==
  ASSUME NEW S, NEW M, Tiles(S, M), NEW a \in S, NEW b \in S,
         NEW p \in M, p \in P(a), p \in P(b)
  PROVE  a = b
  BY DEF Tiles, Disjoint

\* A block as long as the whole takes its place.
LEMMA SamePages ==
  ASSUME NEW a, NEW c, P(c) = P(a)
  PROVE  CutUp(a, {c})
  BY DEF CutUp

\* A block is cut in two.
LEMMA TwoPieces ==
  ASSUME NEW s \in Nat, NEW k \in Nat, NEW i \in 0 .. k,
         NEW a, NEW c, NEW d, a[2] = s, a[3] = k, c[2] = s, c[3] = i,
         d[2] = s + i, d[3] = k - i
  PROVE  CutUp(a, {c, d})
<1>1. \A p : p \in P(a) <=> p \in Int /\ s <= p /\ p < s + k BY DEF P, Pages
<1>2. \A p : p \in P(c) <=> p \in Int /\ s <= p /\ p < s + i BY DEF P, Pages
<1>3. \A p : p \in P(d) <=> p \in Int /\ s + i <= p /\ p < s + k BY DEF P, Pages
<1> QED BY <1>1, <1>2, <1>3 DEF CutUp, Disjoint

-----------------------------------------------------------------------------
(***************************************************************************)
(* The blocks, by who has them.                                            *)
(***************************************************************************)
LEMMA OwnersDiffer ==
  /\ Held # List /\ Held # Bump /\ List # Bump
  /\ \A t : CallOf(t) # Held /\ CallOf(t) # List /\ CallOf(t) # Bump
  /\ \A t, u : t # u => CallOf(t) # CallOf(u)
<1>1. /\ Held[1] = "held" /\ List[1] = "list" /\ Bump[1] = "bump"
      /\ \A t : CallOf(t)[1] = "call" /\ CallOf(t)[2] = t
  BY DEF Held, List, Bump, CallOf
<1> QED BY <1>1

LEMMA BlocksAre ==
  \A b : b \in Blocks <=> \/ b \in HeldBlocks \/ b \in Listed
                          \/ b \in CallBlocks \/ b = BumpBlock
  BY DEF Blocks, HeldBlocks, CallBlocks, BumpBlock, Held, Bump

LEMMA ListedAre ==
  \A b : b \in Listed <=>
    \E k \in Index : \E s \in Range(list[k]) : b = <<List, s, k>>
  BY DEF Listed, List

LEMMA OwnersAre ==
  /\ \A b \in HeldBlocks : b[1] = Held
  /\ \A b \in Listed : b[1] = List
  /\ \A t \in Thread : \A b \in InFlight(t) : b[1] = CallOf(t)
  /\ \A b \in CallBlocks : \E t \in Thread : b[1] = CallOf(t)
  /\ BumpBlock[1] = Bump
<1>1. \A b \in HeldBlocks : b[1] = Held BY DEF HeldBlocks
<1>2. \A b \in Listed : b[1] = List BY ListedAre
<1>3. \A t \in Thread : \A b \in InFlight(t) : b[1] = CallOf(t)
  BY DEF InFlight, CallOf
<1>4. \A b \in CallBlocks : \E t \in Thread : b[1] = CallOf(t)
  BY <1>3 DEF CallBlocks
<1> QED BY <1>1, <1>2, <1>3, <1>4 DEF BumpBlock

LEMMA BlocksAreNext ==
  \A b : b \in Blocks' <=> \/ b \in HeldBlocks' \/ b \in Listed'
                           \/ b \in CallBlocks' \/ b = BumpBlock'
  BY DEF Blocks, HeldBlocks, CallBlocks, BumpBlock, Held, Bump

LEMMA NoneReplaced == \A S : Replaces(S, S, {}, {})
  BY DEF Replaces

\* The block of a list that is taken off it, or put on it.
LEMMA ListRemove ==
  ASSUME Types, NoSharing(list), NEW k \in Index, list[k] # <<>>, RemoveOne(k),
         NEW s, s = Head(list[k])
  PROVE  /\ list' \in [Index -> Seq(Page)] /\ NoSharing(list)'
         /\ mark' \in [Page -> 0 .. BackendMaxPage]
         /\ s \in Page /\ <<List, s, k>> \in Listed
         /\ Range(list'[k]) = Range(list[k]) \ {s}
         /\ \A j \in Index : j # k => list'[j] = list[j]
         /\ Replaces(Listed, Listed', {<<List, s, k>>}, {})
<1>0. 0 \in 0 .. BackendMaxPage BY BackendAssumption
<1>1. list[k] \in Seq(Page) /\ IsInjective(list[k]) BY DEF Types, NoSharing
<1>2. /\ Tail(list[k]) \in Seq(Page) /\ IsInjective(Tail(list[k]))
      /\ s \in Page /\ s \in Range(list[k])
      /\ Range(Tail(list[k])) = Range(list[k]) \ {s}
  BY <1>1, TailElements
<1>3. /\ list' \in [Index -> Seq(Page)] /\ list'[k] = Tail(list[k])
      /\ \A j \in Index : j # k => list'[j] = list[j]
  BY <1>2 DEF Types, RemoveOne
<1>4. \A x \in Range(list[k]) : NotElsewhere(list, x, {k})
  BY OnOneList DEF Types
<1>5. NoSharing(list')
  <2>1. SameElsewhere(list, list', {k}) BY <1>3 DEF SameElsewhere, Types
  <2>2. \A x \in Range(list'[k]) : NotElsewhere(list, x, {k})
    BY <1>2, <1>3, <1>4
  <2>3. IsInjective(list'[k]) /\ list \in [Index -> Seq(Page)]
    BY <1>2, <1>3 DEF Types
  <2> QED BY <2>1, <2>2, <2>3, <1>3, AssignList
<1>6. mark' \in [Page -> 0 .. BackendMaxPage]
  BY <1>0 DEF Types, RemoveOne, Marked
<1>7. ASSUME NEW b
      PROVE  b \in Listed' <=> b \in Listed /\ b # <<List, s, k>>
  <2>1. b \in Listed' <=>
          \E j \in Index : \E r \in Range(list'[j]) : b = <<List, r, j>>
    BY DEF Listed, List
  <2>2. \A j \in Index : j # k => s \notin Range(list[j])
    BY <1>2, <1>4 DEF NotElsewhere, Types
  <2>3. \A j \in Index : \A r :
          r \in Range(list'[j]) <=> r \in Range(list[j]) /\ (r # s \/ j # k)
    BY <2>2, <1>2, <1>3
  <2>4. \A j, r : <<List, r, j>> = <<List, s, k>> <=> r = s /\ j = k
    OBVIOUS
  <2> QED BY <2>1, <2>3, <2>4, ListedAre
<1> QED BY <1>2, <1>3, <1>5, <1>6, <1>7, ListedAre DEF Replaces

LEMMA PushElements ==
  ASSUME NEW S, NEW s \in Seq(S), IsInjective(s), NEW x \in S, x \notin Range(s)
  PROVE  /\ <<x>> \o s \in Seq(S) /\ IsInjective(<<x>> \o s)
         /\ Range(<<x>> \o s) = {x} \cup Range(s)
<1> DEFINE q == <<x>>
<1>1. q \in Seq(S) /\ Len(q) = 1 /\ q[1] = x OBVIOUS
<1> HIDE DEF q
<1>2. IsInjective(q) BY <1>1, Injective
<1>3. Range(q) = {x}
  <2>1. \A y : y \in Range(q) <=> \E i \in 1 .. Len(q) : q[i] = y
    BY <1>1, InRange
  <2> QED BY <2>1, <1>1
<1>4. Disjoint(Range(q), Range(s)) BY <1>3 DEF Disjoint
<1>5. /\ q \o s \in Seq(S) /\ IsInjective(q \o s)
      /\ Range(q \o s) = Range(q) \cup Range(s)
  BY <1>1, <1>2, <1>4, ConcatElements
<1> QED BY <1>3, <1>5 DEF q

LEMMA ListInsert ==
  ASSUME Types, NoSharing(list), NEW k \in Index, NEW s \in Page,
         \A j \in Index : s \notin Range(list[j]), InsertOne(k, s)
  PROVE  /\ list' \in [Index -> Seq(Page)] /\ NoSharing(list)'
         /\ mark' \in [Page -> 0 .. BackendMaxPage]
         /\ Range(list'[k]) = Range(list[k]) \cup {s}
         /\ \A j \in Index : j # k => list'[j] = list[j]
         /\ Replaces(Listed, Listed', {}, {<<List, s, k>>})
<1>1. list[k] \in Seq(Page) /\ IsInjective(list[k]) BY DEF Types, NoSharing
<1>3. /\ <<s>> \o list[k] \in Seq(Page) /\ IsInjective(<<s>> \o list[k])
      /\ Range(<<s>> \o list[k]) = {s} \cup Range(list[k])
  BY ONLY <1>1, s \in Page, s \notin Range(list[k]), PushElements
<1>4. /\ list' \in [Index -> Seq(Page)] /\ list'[k] = <<s>> \o list[k]
      /\ \A j \in Index : j # k => list'[j] = list[j]
  BY <1>3 DEF Types, InsertOne
<1>5. \A x \in Range(list[k]) : NotElsewhere(list, x, {k})
  BY OnOneList DEF Types
<1>6. NoSharing(list')
  <2>1. SameElsewhere(list, list', {k}) BY <1>4 DEF SameElsewhere, Types
  <2>2. \A x \in Range(list'[k]) : NotElsewhere(list, x, {k})
    BY <1>3, <1>4, <1>5 DEF NotElsewhere, Types
  <2>3. IsInjective(list'[k]) /\ list \in [Index -> Seq(Page)]
    BY <1>3, <1>4 DEF Types
  <2> QED BY <2>1, <2>2, <2>3, <1>4, AssignList
<1>7. mark' \in [Page -> 0 .. BackendMaxPage]
  <2>1. k \in 0 .. BackendMaxPage BY BackendAssumption DEF Index
  <2> QED BY <2>1 DEF Types, InsertOne, Marked
<1>8. ASSUME NEW b
      PROVE  b \in Listed' <=> b \in Listed \/ b = <<List, s, k>>
  <2>1. b \in Listed' <=>
          \E j \in Index : \E r \in Range(list'[j]) : b = <<List, r, j>>
    BY DEF Listed, List
  <2> QED BY <2>1, <1>3, <1>4, ListedAre
<1> QED BY <1>3, <1>4, <1>6, <1>7, <1>8 DEF Replaces

\* What a thread's step does to the blocks of calls in progress.
LEMMA CallEnters ==
  ASSUME Types, NEW t \in Thread, NEW c, c \in Calls, Enter(t, c)
  PROVE  /\ op' \in [Thread -> Calls] /\ op'[t] = c
         /\ \A u \in Thread \ {t} : op'[u] = op[u]
         /\ Replaces(CallBlocks, CallBlocks', InFlight(t), InFlight(t)')
<1>1. /\ op' \in [Thread -> Calls] /\ op'[t] = c
      /\ \A u \in Thread \ {t} : op'[u] = op[u]
  BY DEF Types, Enter
<1>2. \A u \in Thread \ {t} : InFlight(u)' = InFlight(u)
  BY <1>1 DEF InFlight, At
<1>3. \A u \in Thread \ {t} : \A b \in InFlight(u) : b \notin InFlight(t)
  BY OwnersAre, OwnersDiffer
<1>4. \A b : b \in CallBlocks <=> \E u \in Thread : b \in InFlight(u)
  BY DEF CallBlocks
<1>5. \A b : b \in CallBlocks' <=> \E u \in Thread : b \in InFlight(u)'
  BY DEF CallBlocks
<1> QED BY <1>1, <1>2, <1>3, <1>4, <1>5 DEF Replaces

-----------------------------------------------------------------------------
(***************************************************************************)
(* What the invariant says of the blocks, step by step.                    *)
(***************************************************************************)
\* What every step promises of the blocks.
BlocksStep ==
  /\ BlocksAreSound' /\ Tiles(Blocks, mapped)' /\ LowUnmapped'
  /\ \A s : Starts(s) => Starts(s)'

\* The first page of a short block begins one of its pieces.
KeepsStart(a, N) ==
  a[1] # Bump =>
    \E c \in N : c[1] # Bump /\ c[2] = a[2] /\ c[3] <= a[3]

\* A step that cuts up one block.
LEMMA BlockCut ==
  ASSUME BlocksAreSound, Tiles(Blocks, mapped), LowUnmapped, mapped' = mapped,
         NEW a \in Blocks, NEW N, Replaces(Blocks, Blocks', {a}, N),
         CutUp(a, N), KeepsStart(a, N), \A c \in N : Sound(c)
  PROVE  BlocksStep
<1>1. BlocksAreSound'
  <2>1. \A b \in Blocks' : Sound(b) BY DEF BlocksAreSound, Replaces
  <2> QED BY <2>1 DEF BlocksAreSound, Sound, IsMapped, Failed
<1>2. Tiles(Blocks', mapped) BY CutTiles
<1>3. ASSUME NEW s, Starts(s) PROVE Starts(s)'
  <2>1. PICK b \in Blocks : b[2] = s /\ Short(b) BY <1>3 DEF Starts
  <2>2. CASE b = a
    <3>1. PICK c \in N : c[1] # Bump /\ c[2] = a[2] /\ c[3] <= a[3]
      BY <2>1, <2>2 DEF KeepsStart, Short
    <3>2. a[3] \in Nat /\ c[3] \in Nat BY DEF BlocksAreSound, Sound
    <3>3. BackendMaxPage \in Nat BY BackendAssumption
    <3>4. c \in Blocks' BY DEF Replaces
    <3> QED BY <1>3, <2>1, <2>2, <3>1, <3>2, <3>3, <3>4 DEF Starts, Short
  <2>3. CASE b # a
    <3>1. b \in Blocks' BY <2>3 DEF Replaces
    <3> QED BY <1>3, <2>1, <3>1 DEF Starts, Short
  <2> QED BY <2>2, <2>3
<1> QED BY <1>1, <1>2, <1>3 DEF BlocksStep, Tiles, LowUnmapped

\* A step that leaves the blocks alone.
LEMMA BlocksStay ==
  ASSUME BlocksAreSound, Tiles(Blocks, mapped), LowUnmapped, mapped' = mapped,
         Replaces(Blocks, Blocks', {}, {})
  PROVE  BlocksStep
<1>1. \A b : b \in Blocks' <=> b \in Blocks BY DEF Replaces
<1>2. Blocks' = Blocks BY <1>1
<1> QED BY <1>2 DEF BlocksStep, BlocksAreSound, Sound, IsMapped, Failed, Tiles,
                    LowUnmapped, Starts, Short

\* The other calls do not notice.
LEMMA CallsKept ==
  ASSUME Types, CallsInv, BlocksStep, NEW t \in Thread,
         \A u \in Thread \ {t} : op'[u] = op[u], CallInv(t)'
  PROVE  CallsInv'
<1>1. ASSUME NEW u \in Thread \ {t} PROVE CallInv(u)'
  <2>1. CallInv(u) /\ op'[u] = op[u] BY DEF CallsInv
  <2>2. \A s : Starts(s) => Starts(s)' BY DEF BlocksStep
  <2> QED BY <2>1, <2>2 DEF CallInv
<1> QED BY <1>1 DEF CallsInv

\* A page of a block.
LEMMA InBlock ==
  ASSUME NEW b, NEW s \in Nat, NEW n \in Nat, b[2] = s, b[3] = n, NEW p
  PROVE  p \in P(b) <=> p \in Int /\ s <= p /\ p < s + n
  BY DEF P, Pages

\* The first and the last page of a listed block are mapped.
LEMMA ListedEnds ==
  ASSUME Types, BlocksAreSound, NEW k \in Index, NEW s \in Range(list[k])
  PROVE  /\ <<List, s, k>> \in Blocks
         /\ s \in P(<<List, s, k>>) /\ s + k - 1 \in P(<<List, s, k>>)
         /\ P(<<List, s, k>>) \subseteq mapped
         /\ s \in Page /\ s + k - 1 \in Page
<1>1. <<List, s, k>> \in Blocks BY ListedAre, BlocksAre
<1>2. Sound(<<List, s, k>>) BY <1>1 DEF BlocksAreSound
<1>3. s \in Nat /\ k \in Nat /\ k > 0 BY <1>2, OwnersDiffer DEF Sound
<1>4. s \in P(<<List, s, k>>) /\ s + k - 1 \in P(<<List, s, k>>)
  BY <1>3, InBlock
<1>5. P(<<List, s, k>>) \subseteq mapped
  BY <1>2, OwnersDiffer DEF Sound, IsMapped, Failed
<1> QED BY <1>1, <1>4, <1>5 DEF Types

\* A page of another block is none of them.
LEMMA NoListedEnd ==
  ASSUME Types, BlocksAreSound, Tiles(Blocks, mapped),
         NEW k \in Index, NEW s \in Range(list[k]), NEW a \in Blocks,
         a # <<List, s, k>>, NEW p \in P(a)
  PROVE  p # s /\ p # s + k - 1
<1> DEFINE b == <<List, s, k>>
<1>1. /\ b \in Blocks /\ s \in P(b) /\ s + k - 1 \in P(b)
      /\ P(b) \subseteq mapped
  BY ListedEnds
<1> HIDE DEF b
<1>2. a # b BY DEF b
<1> QED BY <1>1, <1>2, SameBlock

\* The marks of a block that leaves its list go, those of the others stay.
LEMMA MarksRemove ==
  ASSUME Types, NoSharing(list), BlocksAreSound, Tiles(Blocks, mapped),
         MarksMatchLists, NEW k \in Index, list[k] # <<>>, RemoveOne(k)
  PROVE  MarksMatchLists'
<1> DEFINE s == Head(list[k])  a == <<List, s, k>>
<1>1. /\ s \in Range(list[k]) /\ Range(list'[k]) = Range(list[k]) \ {s}
      /\ \A j \in Index : j # k => list'[j] = list[j]
  <2>1. list[k] \in Seq(Page) /\ IsInjective(list[k]) BY DEF Types, NoSharing
  <2> QED BY <2>1, ListRemove, TailElements
<1>2. /\ a \in Blocks /\ s \in P(a) /\ s + k - 1 \in P(a)
      /\ s \in Page /\ s + k - 1 \in Page
  BY <1>1, ListedEnds
<1>3. ASSUME NEW j \in Index, NEW r \in Range(list'[j])
      PROVE  /\ r \in Range(list[j]) /\ <<List, r, j>> # a
             /\ r \notin {s, s + k - 1} /\ r + j - 1 \notin {s, s + k - 1}
  <2>1. r \in Range(list[j]) BY <1>1
  <2>2. s \notin Range(list'[k]) BY <1>1
  <2>3. <<List, r, j>> # a BY <1>3, <2>2
  <2> HIDE DEF a, s
  <2> QED BY <1>2, <2>1, <2>3, NoListedEnd
<1>4. ASSUME NEW j \in Index, NEW r \in Range(list[j]), <<List, r, j>> # a
      PROVE  r \in Range(list'[j])
  BY <1>1, <1>4
<1>5. mark' = [[mark EXCEPT ![s] = 0] EXCEPT ![s + k - 1] = 0]
  BY DEF RemoveOne, Marked
<1>6. \A p \in Page :
        mark'[p] = IF p = s \/ p = s + k - 1 THEN 0 ELSE mark[p]
  BY <1>2, <1>5 DEF Types
<1>7. a = <<List, s, k>> OBVIOUS
<1> HIDE DEF s, a
<1>8. ASSUME NEW p \in Page, NEW j \in Index
      PROVE  mark'[p] = j <=>
               \E r \in Range(list'[j]) : p = r \/ p = r + j - 1
  <2>0. j # 0 BY DEF Index
  <2>1. CASE p = s \/ p = s + k - 1
    BY <2>0, <2>1, <1>3, <1>6
  <2>2. CASE ~ (p = s \/ p = s + k - 1)
    <3>1. mark'[p] = mark[p] BY <2>2, <1>6
    <3>2. mark[p] = j <=> \E r \in Range(list[j]) : p = r \/ p = r + j - 1
      BY DEF MarksMatchLists
    <3>3. ASSUME NEW r \in Range(list[j]), p = r \/ p = r + j - 1
          PROVE  r \in Range(list'[j])
      <4>1. <<List, r, j>> # a BY <3>3, <2>2, <1>7
      <4> QED BY <4>1, <1>4
    <3> QED BY <3>1, <3>2, <3>3, <1>3
  <2> QED BY <2>1, <2>2
<1> QED BY <1>8 DEF MarksMatchLists

\* The marks of a block that joins a list come from a block that was on none.
LEMMA MarksInsert ==
  ASSUME Types, BlocksAreSound, Tiles(Blocks, mapped), MarksMatchLists,
         NEW k \in Index, NEW s \in Page, InsertOne(k, s),
         NEW a \in Blocks, a \notin Listed,
         s \in P(a), s + k - 1 \in P(a), s + k - 1 \in Page,
         Range(list'[k]) = Range(list[k]) \cup {s},
         \A j \in Index : j # k => list'[j] = list[j]
  PROVE  MarksMatchLists'
<1>1. ASSUME NEW j \in Index, NEW r \in Range(list[j])
      PROVE  r \notin {s, s + k - 1} /\ r + j - 1 \notin {s, s + k - 1}
  <2>1. a # <<List, r, j>> BY ListedAre
  <2> QED BY <2>1, NoListedEnd
<1>2. mark' = [[mark EXCEPT ![s] = k] EXCEPT ![s + k - 1] = k]
  BY DEF InsertOne, Marked
<1>3. \A p \in Page :
        mark'[p] = IF p = s \/ p = s + k - 1 THEN k ELSE mark[p]
  BY <1>2 DEF Types
<1>4. ASSUME NEW p \in Page, NEW j \in Index
      PROVE  mark'[p] = j <=>
               \E r \in Range(list'[j]) : p = r \/ p = r + j - 1
  <2>1. CASE p = s \/ p = s + k - 1
    <3>1. mark'[p] = k BY <2>1, <1>3
    <3>2. ASSUME NEW r \in Range(list'[j]), p = r \/ p = r + j - 1 PROVE j = k
      BY <3>2, <2>1, <1>1
    <3>3. s \in Range(list'[k]) OBVIOUS
    <3> QED BY <2>1, <3>1, <3>2, <3>3
  <2>2. CASE ~ (p = s \/ p = s + k - 1)
    <3>1. mark'[p] = mark[p] BY <2>2, <1>3
    <3>2. mark[p] = j <=> \E r \in Range(list[j]) : p = r \/ p = r + j - 1
      BY DEF MarksMatchLists
    <3>3. ASSUME NEW r, p = r \/ p = r + j - 1
          PROVE  r \in Range(list'[j]) <=> r \in Range(list[j])
      BY <3>3, <2>2
    <3> QED BY <3>1, <3>2, <3>3
  <2> QED BY <2>1, <2>2
<1> QED BY <1>4 DEF MarksMatchLists

-----------------------------------------------------------------------------
(***************************************************************************)
(* The steps that leave the blocks where they are.                         *)
(***************************************************************************)
LEMMA InFlightIs ==
  \A t \in Thread :
    /\ op[t].at \in {"idle", "scan"} => InFlight(t) = {}
    /\ op[t].at = "split" =>
         InFlight(t) = {<<CallOf(t), op[t].ptr, op[t].idx>>}
    /\ op[t].at \in Freeing =>
         InFlight(t) = {<<CallOf(t), op[t].fin, op[t].len>>}
<1> SUFFICES ASSUME NEW t \in Thread
             PROVE  /\ op[t].at \in {"idle", "scan"} => InFlight(t) = {}
                    /\ op[t].at = "split" =>
                         InFlight(t) = {<<CallOf(t), op[t].ptr, op[t].idx>>}
                    /\ op[t].at \in Freeing =>
                         InFlight(t) = {<<CallOf(t), op[t].fin, op[t].len>>}
  OBVIOUS
<1>1. ASSUME op[t].at \in {"idle", "scan"} PROVE InFlight(t) = {}
  BY <1>1 DEF InFlight, At, Freeing, Linking
<1>2. ASSUME op[t].at = "split"
      PROVE  InFlight(t) = {<<CallOf(t), op[t].ptr, op[t].idx>>}
  BY <1>2 DEF InFlight, At, CallOf, Freeing, Linking
<1>3. ASSUME op[t].at \in Freeing
      PROVE  InFlight(t) = {<<CallOf(t), op[t].fin, op[t].len>>}
  BY <1>3 DEF InFlight, At, CallOf, Freeing
<1> QED BY <1>1, <1>2, <1>3

LEMMA InFlightNext ==
  \A t \in Thread :
    /\ op'[t].at \in {"idle", "scan"} => InFlight(t)' = {}
    /\ op'[t].at = "split" =>
         InFlight(t)' = {<<CallOf(t), op'[t].ptr, op'[t].idx>>}
    /\ op'[t].at \in Freeing =>
         InFlight(t)' = {<<CallOf(t), op'[t].fin, op'[t].len>>}
<1>1. (\A t \in Thread :
         /\ op[t].at \in {"idle", "scan"} => InFlight(t) = {}
         /\ op[t].at = "split" =>
              InFlight(t) = {<<CallOf(t), op[t].ptr, op[t].idx>>}
         /\ op[t].at \in Freeing =>
              InFlight(t) = {<<CallOf(t), op[t].fin, op[t].len>>})'
  BY InFlightIs, PTL
<1> QED BY <1>1 DEF CallOf, Freeing

\* A step of a call that moves no block.
LEMMA QuietStep ==
  ASSUME BackendInv, NEW t \in Thread, NEW c \in Calls, Enter(t, c),
         UNCHANGED <<held, list, mark, bump, mapped>>,
         InFlight(t)' = InFlight(t), BlocksStep => CallInv(t)'
  PROVE  BackendInv'
<1>1. Types /\ CallsInv BY DEF BackendInv
<1>2. /\ op' \in [Thread -> Calls] /\ op'[t] = c
      /\ \A u \in Thread \ {t} : op'[u] = op[u]
      /\ Replaces(CallBlocks, CallBlocks', InFlight(t), InFlight(t)')
  BY <1>1, CallEnters
<1>3. /\ HeldBlocks' = HeldBlocks /\ Listed' = Listed
      /\ BumpBlock' = BumpBlock
  BY DEF HeldBlocks, Listed, BumpBlock, Bump, Held
<1>4. CallBlocks' = CallBlocks
  <2>1. InFlight(t) \subseteq CallBlocks BY DEF CallBlocks
  <2>2. \A b : b \in CallBlocks' <=> b \in CallBlocks
    BY <2>1, <1>2 DEF Replaces
  <2> QED BY <2>2
<1>5. Replaces(Blocks, Blocks', {}, {})
  <2>1. Blocks' = Blocks
    BY <1>3, <1>4 DEF Blocks, HeldBlocks, CallBlocks, BumpBlock, Held, Bump
  <2> QED BY <2>1, NoneReplaced
<1>6. BlocksStep BY <1>5, BlocksStay DEF BackendInv
<1>7. CallsInv' BY <1>1, <1>2, <1>6, CallsKept
<1> QED BY <1>2, <1>6, <1>7 DEF BackendInv, BlocksStep, Types, MarksMatchLists

LEMMA CallIsRecord ==
  ASSUME NEW c \in Calls
  PROVE  c = [at |-> c.at, ptr |-> c.ptr, n |-> c.n, idx |-> c.idx,
              fin |-> c.fin, len |-> c.len]
  BY DEF Calls

LEMMA CallWith ==
  ASSUME NEW c \in Calls, NEW at, NEW k
  PROVE  [c EXCEPT !.at = at, !.idx = k]
           = [at |-> at, ptr |-> c.ptr, n |-> c.n, idx |-> k,
              fin |-> c.fin, len |-> c.len]
<1> DEFINE d == [c EXCEPT !.at = at]
<1>1. d = [at |-> at, ptr |-> c.ptr, n |-> c.n, idx |-> c.idx,
           fin |-> c.fin, len |-> c.len]
  BY CallIsRecord
<1> HIDE DEF d
<1>2. [d EXCEPT !.idx = k]
        = [at |-> at, ptr |-> c.ptr, n |-> c.n, idx |-> k,
           fin |-> c.fin, len |-> c.len]
  BY <1>1
<1> QED BY <1>2 DEF d

LEMMA AllocStep ==
  ASSUME BackendInv, NEW t \in Thread, NEW n \in Request, Alloc(t, n)
  PROVE  BackendInv'
<1> DEFINE c == [at |-> "scan", ptr |-> 0, n |-> n, idx |-> n,
                 fin |-> 0, len |-> 0]
<1>1. n \in Nat BY BackendAssumption
<1>2. c \in Calls BY <1>1 DEF Calls
<1>3. Enter(t, c)
  <2> DEFINE d == [Idle EXCEPT !.at = "scan"]  e == [d EXCEPT !.n = n]
  <2>1. d = [at |-> "scan", ptr |-> 0, n |-> 0, idx |-> 0,
             fin |-> 0, len |-> 0]
    BY DEF Idle
  <2> HIDE DEF d
  <2>2. e = [at |-> "scan", ptr |-> 0, n |-> n, idx |-> 0,
             fin |-> 0, len |-> 0]
    BY <2>1
  <2> HIDE DEF e
  <2>3. [e EXCEPT !.idx = n] = c BY <2>2
  <2>4. [Idle EXCEPT !.at = "scan", !.n = n, !.idx = n] = c
    BY <2>3 DEF e, d
  <2> QED BY <2>4 DEF Alloc
<1>4. op'[t] = c BY <1>2, <1>3, CallEnters DEF BackendInv
<1>5. InFlight(t) = {} BY InFlightIs DEF Alloc, At
<1>6. InFlight(t)' = {} BY <1>4, InFlightNext
<1>7. CallInv(t)' BY <1>1, <1>4 DEF CallInv, Freeing, Linking
<1> HIDE DEF c
<1> QED BY <1>2, <1>3, <1>5, <1>6, <1>7, QuietStep DEF Alloc

LEMMA ScanOnStep ==
  ASSUME BackendInv, NEW t \in Thread, ScanOn(t)
  PROVE  BackendInv'
<1> DEFINE o == op[t]
           c == [at |-> o.at, ptr |-> o.ptr, n |-> o.n, idx |-> o.idx + 1,
                 fin |-> o.fin, len |-> o.len]
<1>1. o \in Calls /\ CallInv(t) /\ o.at = "scan"
  BY DEF BackendInv, Types, CallsInv, ScanOn, At
<1>2. c \in Calls BY <1>1 DEF Calls
<1>3. Enter(t, c)
  <2>1. [o EXCEPT !.idx = o.idx + 1] = c BY <1>1, CallIsRecord
  <2> QED BY <2>1 DEF ScanOn
<1>4. op'[t] = c BY <1>2, <1>3, CallEnters DEF BackendInv
<1>5. InFlight(t) = {} BY <1>1, InFlightIs
<1>6. InFlight(t)' = {} BY <1>1, <1>4, InFlightNext
<1>7. CallInv(t)'
  <2>1. o.n \in Request /\ o.idx >= o.n /\ o.n \in Nat /\ o.idx \in Nat
    BY <1>1 DEF CallInv, Calls
  <2> QED BY <1>1, <1>4, <2>1 DEF CallInv
<1> HIDE DEF c
<1> QED BY <1>2, <1>3, <1>5, <1>6, <1>7, QuietStep DEF ScanOn

\* The block of a call to free.
LEMMA FreedBlock ==
  ASSUME BackendInv, NEW t \in Thread, op[t].at \in Freeing,
         NEW a, a = <<CallOf(t), op[t].ptr, op[t].n>>
  PROVE  /\ InFlight(t) = {a} /\ a \in Blocks /\ a \notin Listed
         /\ op[t].ptr \in Nat /\ op[t].n \in Nat \ {0}
         /\ op[t].fin = op[t].ptr /\ op[t].len = op[t].n
         /\ P(a) \subseteq mapped
<1>1. /\ op[t] \in Calls /\ op[t].fin = op[t].ptr /\ op[t].len = op[t].n
      /\ op[t].n > 0
  BY DEF BackendInv, Types, CallsInv, CallInv, Freeing
<1>2. InFlight(t) = {a} BY <1>1, InFlightIs
<1>3. a \in Blocks BY <1>2, BlocksAre DEF CallBlocks
<1>4. a \notin Listed BY OwnersAre, OwnersDiffer
<1>5. P(a) \subseteq mapped
  BY <1>3, OwnersDiffer DEF BackendInv, BlocksAreSound, Sound, IsMapped, Failed
<1> QED BY <1>1, <1>2, <1>3, <1>4, <1>5 DEF Calls

\* A mark belongs to a listed block.
LEMMA MarkOfBlock ==
  ASSUME BackendInv, NEW p, MarkAt(p) > 0
  PROVE  /\ MarkAt(p) \in Index /\ p \in Page
         /\ \E s \in Range(list[MarkAt(p)]) : p = s \/ p = s + MarkAt(p) - 1
<1>1. p \in Page /\ MarkAt(p) = mark[p] BY DEF MarkAt
<1>2. MarkAt(p) \in Index
  BY <1>1, BackendAssumption DEF BackendInv, Types, Index
<1> QED BY <1>1, <1>2 DEF BackendInv, MarksMatchLists

\* The mark in front of a block that is freed leads to the beginning of the
\* block that ends there ...
LEMMA MarkedBefore ==
  ASSUME BackendInv, NEW t \in Thread, op[t].at \in Freeing,
         NEW k, k = MarkAt(op[t].ptr - 1), k > 0
  PROVE  k \in Index /\ Starts(op[t].ptr - k)
<1> DEFINE a == <<CallOf(t), op[t].ptr, op[t].n>>
<1>1. /\ a \in Blocks /\ a \notin Listed /\ P(a) \subseteq mapped
      /\ op[t].ptr \in Nat /\ op[t].n \in Nat \ {0}
  BY FreedBlock
<1>2. op[t].ptr \in P(a) BY <1>1, InBlock
<1> HIDE DEF a
<1>3. k \in Index BY MarkOfBlock
<1>4. PICK s \in Range(list[k]) : \/ op[t].ptr - 1 = s
                                  \/ op[t].ptr - 1 = s + k - 1
  BY MarkOfBlock
<1> DEFINE b == <<List, s, k>>
<1>5. /\ b \in Blocks /\ s \in P(b) /\ P(b) \subseteq mapped /\ s \in Nat
      /\ k \in Nat /\ k <= BackendMaxPage
  BY <1>3, ListedEnds, BackendAssumption DEF BackendInv, Page, Index
<1>6. b \in Listed BY <1>3, ListedAre
<1>7. op[t].ptr = s + k
  <2>1. CASE op[t].ptr - 1 = s /\ k > 1
    <3>1. op[t].ptr \in P(b) BY <2>1, <1>1, <1>5, InBlock
    <3> HIDE DEF b
    <3>2. a = b BY <3>1, <1>1, <1>2, <1>5, SameBlock DEF BackendInv
    <3> QED BY <3>2, <1>1, <1>6
  <2> QED BY <2>1, <1>1, <1>4, <1>5
<1>8. op[t].ptr - k = s BY <1>5, <1>7
<1>9. b[1] # Bump /\ b[2] = s /\ b[3] = k BY OwnersDiffer
<1> HIDE DEF b
<1> QED BY <1>3, <1>5, <1>8, <1>9 DEF Starts, Short

\* ... and the mark behind it is at the beginning of a block.
LEMMA MarkedBehind ==
  ASSUME BackendInv, NEW t \in Thread, op[t].at \in Freeing,
         NEW k, k = MarkAt(op[t].ptr + op[t].n), k > 0
  PROVE  k \in Index /\ Starts(op[t].ptr + op[t].n)
<1> DEFINE a == <<CallOf(t), op[t].ptr, op[t].n>>  e == op[t].ptr + op[t].n
<1>1. /\ a \in Blocks /\ a \notin Listed /\ P(a) \subseteq mapped
      /\ op[t].ptr \in Nat /\ op[t].n \in Nat \ {0}
  BY FreedBlock
<1>2. e - 1 \in P(a) /\ e \in Nat BY <1>1, InBlock
<1> HIDE DEF a
<1>3. k \in Index BY MarkOfBlock
<1>4. PICK s \in Range(list[k]) : e = s \/ e = s + k - 1
  BY MarkOfBlock
<1> DEFINE b == <<List, s, k>>
<1> HIDE DEF e
<1>5. /\ b \in Blocks /\ s \in P(b) /\ P(b) \subseteq mapped /\ s \in Nat
      /\ k \in Nat /\ k <= BackendMaxPage
  BY <1>3, ListedEnds, BackendAssumption DEF BackendInv, Page, Index
<1>6. b \in Listed BY <1>3, ListedAre
<1>7. e = s
  <2>1. CASE e = s + k - 1 /\ k > 1
    <3>1. e - 1 \in P(b) BY <2>1, <1>2, <1>5, InBlock
    <3> HIDE DEF b
    <3>2. a = b BY <3>1, <1>1, <1>2, <1>5, SameBlock DEF BackendInv
    <3> QED BY <3>2, <1>1, <1>6
  <2>2. CASE e = s + k - 1 /\ ~ (k > 1)
    <3>1. k = 1 BY <2>2, <1>3, <1>5 DEF Index
    <3> QED BY <3>1, <2>2, <1>5
  <2> QED BY <2>1, <2>2, <1>4
<1>9. b[1] # Bump /\ b[2] = s /\ b[3] = k BY OwnersDiffer
<1> HIDE DEF b
<1> QED BY <1>3, <1>5, <1>7, <1>9 DEF Starts, Short, e

\* The next field of a node is not the node itself, and that of another page is
\* not unless the program made it so: remove_spec_one takes no block off its
\* list then.
LEMMA NoSelfLink ==
  ASSUME BackendInv, ~ SelfLinks, NEW s, NEW next \in NextField(s)
  PROVE  next # s
<1>1. CASE ~ IsNode(s) BY <1>1 DEF NextField
<1>2. CASE IsNode(s)
  <2>1. PICK k \in Index : \E i \in DOMAIN list[k] :
          /\ list[k][i] = s
          /\ next = IF i < Len(list[k]) THEN list[k][i + 1] ELSE Null
    BY <1>2 DEF NextField, LinkOf
  <2>2. PICK i \in DOMAIN list[k] :
          /\ list[k][i] = s
          /\ next = IF i < Len(list[k]) THEN list[k][i + 1] ELSE Null
    BY <2>1
  <2>3. list[k] \in Seq(Page) /\ IsInjective(list[k])
    BY DEF BackendInv, Types, NoSharing
  <2> DEFINE q == list[k]
  <2>4. q \in Seq(Page) /\ IsInjective(q) /\ i \in DOMAIN q /\ q[i] = s
        /\ next = IF i < Len(q) THEN q[i + 1] ELSE Null
    BY <2>2, <2>3
  <2> HIDE DEF q
  <2>5. CASE i < Len(q)
    <3>1. /\ i \in 1 .. Len(q) /\ i + 1 \in 1 .. Len(q) /\ i # i + 1
          /\ Len(q) \in Nat
      BY <2>4, <2>5
    <3>2. \A j, l \in 1 .. Len(q) : q[j] = q[l] => j = l
      BY ONLY <2>4, Injective
    <3>3. q[i + 1] # q[i] BY <3>1, <3>2
    <3> QED BY <3>3, <2>4, <2>5
  <2>6. CASE ~ (i < Len(q))
    <3>1. next = Null /\ s \in Page BY <2>4, <2>6
    <3> QED BY <3>1, BackendAssumption
  <2> QED BY <2>5, <2>6
<1> QED BY <1>1, <1>2

\* A call that goes from one stage of free to another.
LEMMA FreeGoesOn ==
  ASSUME BackendInv, NEW t \in Thread, op[t].at \in Freeing,
         NEW at \in Freeing, NEW k \in Nat,
         Enter(t, [at |-> at, ptr |-> op[t].ptr, n |-> op[t].n, idx |-> k,
                   fin |-> op[t].fin, len |-> op[t].len]),
         UNCHANGED <<held, list, mark, bump, mapped>>,
         at \in {"joinPrev", "linkPrev"} => Starts(op[t].ptr - k),
         at \in {"joinNext", "linkNext"} => Starts(op[t].ptr + op[t].n)
  PROVE  BackendInv'
<1> DEFINE c == [at |-> at, ptr |-> op[t].ptr, n |-> op[t].n, idx |-> k,
                 fin |-> op[t].fin, len |-> op[t].len]
<1>1. op[t] \in Calls BY DEF BackendInv, Types
<1>2. c \in Calls BY <1>1 DEF Calls, Freeing, Linking
<1>3. op'[t] = c BY <1>2, CallEnters DEF BackendInv
<1>4. InFlight(t)' = InFlight(t)
  <2>1. /\ op'[t].at \in Freeing
        /\ op'[t].fin = op[t].fin /\ op'[t].len = op[t].len
    BY <1>3
  <2>2. InFlight(t) = {<<CallOf(t), op[t].fin, op[t].len>>} BY InFlightIs
  <2>3. InFlight(t)' = {<<CallOf(t), op'[t].fin, op'[t].len>>}
    BY <2>1, InFlightNext
  <2> QED BY <2>1, <2>2, <2>3
<1>5. ASSUME BlocksStep PROVE CallInv(t)'
  <2>1. /\ op[t].fin = op[t].ptr /\ op[t].len = op[t].n /\ op[t].n > 0
    BY DEF BackendInv, CallsInv, CallInv, Freeing
  <2>2. \A s : Starts(s) => Starts(s)' BY <1>5 DEF BlocksStep
  <2>3. at \notin {"scan", "split"} BY DEF Freeing, Linking
  <2> QED BY <1>3, <2>1, <2>2, <2>3 DEF CallInv
<1> HIDE DEF c
<1> QED BY <1>2, <1>4, <1>5, QuietStep DEF c

LEMMA ReadPrevStep ==
  ASSUME BackendInv, NEW t \in Thread, ReadPrev(t)
  PROVE  BackendInv'
<1> DEFINE k == MarkAt(op[t].ptr - 1)
           at == IF k > 0 THEN "joinPrev" ELSE "next"
<1>1. op[t] \in Calls /\ op[t].at = "prev" /\ op[t].at \in Freeing
  BY DEF BackendInv, Types, ReadPrev, At, Freeing
<1>2. k \in Nat
  BY BackendAssumption DEF BackendInv, Types, MarkAt
<1>3. k > 0 => Starts(op[t].ptr - k) BY <1>1, MarkedBefore
<1>4. UNCHANGED <<held, list, mark, bump, mapped>> BY DEF ReadPrev
<1>5. Enter(t, [op[t] EXCEPT !.at = at, !.idx = k]) BY DEF ReadPrev
<1> HIDE DEF k
<1>6. [op[t] EXCEPT !.at = at, !.idx = k]
        = [at |-> at, ptr |-> op[t].ptr, n |-> op[t].n, idx |-> k,
           fin |-> op[t].fin, len |-> op[t].len]
  BY <1>1, CallWith, ZenonT(40)
<1>7. at \in Freeing BY DEF Freeing
<1>8. at \in {"joinPrev", "linkPrev"} => Starts(op[t].ptr - k) BY <1>3
<1>9. at \notin {"joinNext", "linkNext"} OBVIOUS
<1> HIDE DEF at
<1> QED BY <1>1, <1>2, <1>4, <1>5, <1>6, <1>7, <1>8, <1>9, FreeGoesOn

LEMMA ReadNextStep ==
  ASSUME BackendInv, NEW t \in Thread, ReadNext(t)
  PROVE  BackendInv'
<1> DEFINE k == MarkAt(op[t].ptr + op[t].n)
           at == IF k > 0 THEN "joinNext" ELSE "put"
<1>1. op[t] \in Calls /\ op[t].at = "next" /\ op[t].at \in Freeing
  BY DEF BackendInv, Types, ReadNext, At, Freeing
<1>2. k \in Nat
  BY BackendAssumption DEF BackendInv, Types, MarkAt
<1>3. k > 0 => Starts(op[t].ptr + op[t].n) BY <1>1, MarkedBehind
<1>4. UNCHANGED <<held, list, mark, bump, mapped>> BY DEF ReadNext
<1>5. Enter(t, [op[t] EXCEPT !.at = at, !.idx = k]) BY DEF ReadNext
<1> HIDE DEF k
<1>6. [op[t] EXCEPT !.at = at, !.idx = k]
        = [at |-> at, ptr |-> op[t].ptr, n |-> op[t].n, idx |-> k,
           fin |-> op[t].fin, len |-> op[t].len]
  BY <1>1, CallWith, ZenonT(40)
<1>7. at \in Freeing BY DEF Freeing
<1>8. at \in {"joinNext", "linkNext"} => Starts(op[t].ptr + op[t].n) BY <1>3
<1>9. at \notin {"joinPrev", "linkPrev"} OBVIOUS
<1> HIDE DEF at
<1> QED BY <1>1, <1>2, <1>4, <1>5, <1>6, <1>7, <1>8, <1>9, FreeGoesOn

LEMMA JoinPrevStep ==
  ASSUME BackendInv, NEW t \in Thread, JoinPrev(t)
  PROVE  BackendInv'
<1> DEFINE at == IF MarkAt(op[t].ptr - op[t].idx) > 0 THEN "linkPrev" ELSE "next"
<1>1. /\ op[t] \in Calls /\ op[t].at \in Freeing
      /\ Starts(op[t].ptr - op[t].idx)
  BY DEF BackendInv, Types, CallsInv, CallInv, JoinPrev, At, Freeing
<1>2. /\ Enter(t, [op[t] EXCEPT !.at = at])
      /\ UNCHANGED <<held, list, mark, bump, mapped>>
  BY DEF JoinPrev
<1>3. at \in Freeing /\ at \notin {"joinNext", "linkNext"}
  BY DEF Freeing, Linking
<1> HIDE DEF at
<1>4. [op[t] EXCEPT !.at = at]
        = [at |-> at, ptr |-> op[t].ptr, n |-> op[t].n, idx |-> op[t].idx,
           fin |-> op[t].fin, len |-> op[t].len]
  BY <1>1, CallIsRecord
<1>5. op[t].idx \in Nat BY <1>1 DEF Calls
<1> QED BY <1>1, <1>2, <1>3, <1>4, <1>5, FreeGoesOn

LEMMA CombinePrevStep ==
  ASSUME BackendInv, ~ SelfLinks, NEW t \in Thread, CombinePrev(t)
  PROVE  BackendInv'
<1>1. op[t] \in Calls /\ op[t].at \in Freeing
  BY DEF BackendInv, Types, CombinePrev, At, Freeing, Linking
<1>2. \A next \in NextField(op[t].ptr - op[t].idx) :
        next # op[t].ptr - op[t].idx
  BY NoSelfLink
<1>3. /\ Enter(t, [op[t] EXCEPT !.at = "next"])
      /\ UNCHANGED <<held, list, mark, bump, mapped>>
  BY <1>2 DEF CombinePrev
<1>4. [op[t] EXCEPT !.at = "next"]
        = [at |-> "next", ptr |-> op[t].ptr, n |-> op[t].n, idx |-> op[t].idx,
           fin |-> op[t].fin, len |-> op[t].len]
  BY <1>1, CallIsRecord
<1>5. op[t].idx \in Nat /\ "next" \in Freeing BY <1>1 DEF Calls, Freeing
<1> QED BY <1>1, <1>3, <1>4, <1>5, FreeGoesOn

LEMMA JoinNextStep ==
  ASSUME BackendInv, NEW t \in Thread, JoinNext(t)
  PROVE  BackendInv'
<1> DEFINE at == IF MarkAt(op[t].ptr + op[t].n) > 0 THEN "linkNext" ELSE "put"
<1>1. /\ op[t] \in Calls /\ op[t].at \in Freeing
      /\ Starts(op[t].ptr + op[t].n)
  BY DEF BackendInv, Types, CallsInv, CallInv, JoinNext, At, Freeing
<1>2. /\ Enter(t, [op[t] EXCEPT !.at = at])
      /\ UNCHANGED <<held, list, mark, bump, mapped>>
  BY DEF JoinNext
<1>3. at \in Freeing /\ at \notin {"joinPrev", "linkPrev"}
  BY DEF Freeing, Linking
<1> HIDE DEF at
<1>4. [op[t] EXCEPT !.at = at]
        = [at |-> at, ptr |-> op[t].ptr, n |-> op[t].n, idx |-> op[t].idx,
           fin |-> op[t].fin, len |-> op[t].len]
  BY <1>1, CallIsRecord
<1>5. op[t].idx \in Nat BY <1>1 DEF Calls
<1> QED BY <1>1, <1>2, <1>3, <1>4, <1>5, FreeGoesOn

LEMMA CombineNextStep ==
  ASSUME BackendInv, ~ SelfLinks, NEW t \in Thread, CombineNext(t)
  PROVE  BackendInv'
<1>1. op[t] \in Calls /\ op[t].at \in Freeing
  BY DEF BackendInv, Types, CombineNext, At, Freeing, Linking
<1>2. \A next \in NextField(op[t].ptr + op[t].n) :
        next # op[t].ptr + op[t].n
  BY NoSelfLink
<1>3. /\ Enter(t, [op[t] EXCEPT !.at = "put"])
      /\ UNCHANGED <<held, list, mark, bump, mapped>>
  BY <1>2 DEF CombineNext
<1>4. [op[t] EXCEPT !.at = "put"]
        = [at |-> "put", ptr |-> op[t].ptr, n |-> op[t].n, idx |-> op[t].idx,
           fin |-> op[t].fin, len |-> op[t].len]
  BY <1>1, CallIsRecord
<1>5. op[t].idx \in Nat /\ "put" \in Freeing BY <1>1 DEF Calls, Freeing
<1> QED BY <1>1, <1>3, <1>4, <1>5, FreeGoesOn

-----------------------------------------------------------------------------
(***************************************************************************)
(* The steps that pass a block on.                                         *)
(***************************************************************************)
LEMMA HeldGains ==
  ASSUME NEW s, NEW n, held' = held \cup {<<s, n>>}
  PROVE  Replaces(HeldBlocks, HeldBlocks', {}, {<<Held, s, n>>})
<1>1. \A c : c \in HeldBlocks <=> \E d \in held : c = <<Held, d[1], d[2]>>
  BY DEF HeldBlocks
<1>2. \A c : c \in HeldBlocks' <=> \E d \in held' : c = <<Held, d[1], d[2]>>
  BY DEF HeldBlocks, Held
<1>3. ASSUME NEW c
      PROVE  c \in HeldBlocks' <=> c \in HeldBlocks \/ c = <<Held, s, n>>
  <2> DEFINE h == <<s, n>>
  <2>1. h[1] = s /\ h[2] = n OBVIOUS
  <2>2. \A d : d \in held' <=> d \in held \/ d = h OBVIOUS
  <2> HIDE DEF h
  <2> QED BY <2>1, <2>2, <1>1, <1>2
<1> QED BY <1>3 DEF Replaces

LEMMA HeldLoses ==
  ASSUME Types, NEW b \in held, held' = held \ {b}
  PROVE  /\ Replaces(HeldBlocks, HeldBlocks', {<<Held, b[1], b[2]>>}, {})
         /\ <<Held, b[1], b[2]>> \in HeldBlocks
<1>1. \A c \in held : c = <<c[1], c[2]>> BY DEF Types
<1>2. \A c : c \in HeldBlocks <=> \E d \in held : c = <<Held, d[1], d[2]>>
  BY DEF HeldBlocks
<1>3. \A c : c \in HeldBlocks' <=>
               \E d \in held : d # b /\ c = <<Held, d[1], d[2]>>
  BY DEF HeldBlocks
<1>4. \A d \in held : <<Held, d[1], d[2]>> = <<Held, b[1], b[2]>> => d = b
  BY <1>1
<1> QED BY <1>2, <1>3, <1>4 DEF Replaces

LEMMA BumpStays ==
  ASSUME bump' = bump
  PROVE  BumpBlock' = BumpBlock
  BY DEF BumpBlock, Bump

LEMMA ListsStay ==
  ASSUME list' = list
  PROVE  Replaces(Listed, Listed', {}, {})
  BY DEF Listed, Replaces

\* A call that returns.
LEMMA Returns ==
  ASSUME Types, NEW t \in Thread, Return(t)
  PROVE  /\ op' \in [Thread -> Calls]
         /\ \A u \in Thread \ {t} : op'[u] = op[u]
         /\ Replaces(CallBlocks, CallBlocks', InFlight(t), {})
         /\ CallInv(t)'
<1>1. Idle \in Calls BY DEF Calls, Idle
<1>2. /\ op' \in [Thread -> Calls] /\ op'[t] = Idle
      /\ \A u \in Thread \ {t} : op'[u] = op[u]
      /\ Replaces(CallBlocks, CallBlocks', InFlight(t), InFlight(t)')
  BY <1>1, CallEnters DEF Return
<1>3. op'[t].at = "idle" BY <1>2 DEF Idle
<1>4. InFlight(t)' = {} BY <1>3, InFlightNext
<1>5. CallInv(t)' BY <1>3 DEF CallInv, Freeing, Linking
<1> QED BY <1>2, <1>4, <1>5

\* The head of a list.
LEMMA HeadBlock ==
  ASSUME BackendInv, NEW k \in Index, list[k] # <<>>,
         NEW s, s = Head(list[k])
  PROVE  /\ s \in Nat /\ s \in Page /\ k \in Nat \ {0}
         /\ <<List, s, k>> \in Blocks /\ <<List, s, k>> \in Listed
         /\ P(<<List, s, k>>) \subseteq mapped
<1>1. list[k] \in Seq(Page) /\ IsInjective(list[k])
  BY DEF BackendInv, Types, NoSharing
<1>2. s \in Range(list[k]) /\ s \in Page BY <1>1, TailElements
<1>3. s \in Nat /\ k \in Nat \ {0} BY <1>2, BackendAssumption DEF Page, Index
<1>4. /\ <<List, s, k>> \in Blocks
      /\ P(<<List, s, k>>) \subseteq mapped
  BY <1>2, ListedEnds DEF BackendInv
<1> QED BY <1>2, <1>3, <1>4, ListedAre

\* A mapped block passed on as a whole.
LEMMA BlockPassed ==
  ASSUME BackendInv, mapped' = mapped, NEW s \in Nat, NEW k \in Nat \ {0},
         NEW o, NEW q, o # Bump, q # Bump, <<o, s, k>> \in Blocks,
         P(<<o, s, k>>) \subseteq mapped,
         Replaces(Blocks, Blocks', {<<o, s, k>>}, {<<q, s, k>>})
  PROVE  BlocksStep
<1> DEFINE a == <<o, s, k>>  c == <<q, s, k>>
<1>1. P(c) = P(a) BY DEF P
<1>2. /\ a[1] = o /\ a[2] = s /\ a[3] = k
      /\ c[1] = q /\ c[2] = s /\ c[3] = k
  OBVIOUS
<1>3. Sound(c) BY <1>1, <1>2 DEF Sound, IsMapped
<1>4. Replaces(Blocks, Blocks', {a}, {c}) /\ a \in Blocks OBVIOUS
<1> HIDE DEF a, c
<1>5. CutUp(a, {c}) BY <1>1, SamePages
<1>6. KeepsStart(a, {c}) BY <1>2 DEF KeepsStart
<1> QED BY <1>3, <1>4, <1>5, <1>6, BlockCut DEF BackendInv

LEMMA RequestNat == \A n \in Request : n \in Nat /\ n >= 1 /\ n <= Region
<1>1. Region \in Nat /\ Request \subseteq 1 .. Region BY BackendAssumption
<1> QED BY <1>1

LEMMA TakeExactStep ==
  ASSUME BackendInv, NEW t \in Thread, TakeExact(t)
  PROVE  BackendInv'
<1> DEFINE k == op[t].idx  s == Head(list[k])
<1>1. /\ op[t].at = "scan" /\ CallInv(t) /\ op[t] \in Calls
      /\ Types /\ NoSharing(list)
  BY DEF BackendInv, Types, CallsInv, TakeExact, At
<1>2. k \in Index
  <2>1. k \in Request /\ k <= BackendMaxPage
    BY <1>1 DEF CallInv, TakeExact
  <2>2. k \in Nat /\ k >= 1 BY <2>1, RequestNat
  <2> HIDE DEF k
  <2> QED BY <2>1, <2>2, BackendAssumption DEF Index
<1>3. /\ list[k] # <<>> /\ RemoveOne(k) /\ held' = held \cup {<<s, k>>}
      /\ Return(t) /\ bump' = bump /\ mapped' = mapped
  BY DEF TakeExact
<1> HIDE DEF k
<1>4. /\ s \in Nat /\ s \in Page /\ k \in Nat \ {0}
      /\ <<List, s, k>> \in Blocks /\ <<List, s, k>> \in Listed
      /\ P(<<List, s, k>>) \subseteq mapped
  BY <1>2, <1>3, HeadBlock
<1>5. /\ list' \in [Index -> Seq(Page)] /\ NoSharing(list)'
      /\ mark' \in [Page -> 0 .. BackendMaxPage]
      /\ Replaces(Listed, Listed', {<<List, s, k>>}, {})
  BY <1>1, <1>2, <1>3, ListRemove
<1>6. MarksMatchLists' BY <1>2, <1>3, MarksRemove DEF BackendInv
<1> HIDE DEF s
<1>7. Replaces(HeldBlocks, HeldBlocks', {}, {<<Held, s, k>>})
  BY <1>3, HeldGains
<1>8. /\ op' \in [Thread -> Calls]
      /\ \A u \in Thread \ {t} : op'[u] = op[u]
      /\ Replaces(CallBlocks, CallBlocks', {}, {})
      /\ CallInv(t)'
  BY <1>1, <1>3, Returns, InFlightIs
<1>9. Replaces(Blocks, Blocks', {<<List, s, k>>}, {<<Held, s, k>>})
  BY <1>3, <1>5, <1>7, <1>8, BumpStays, BlocksAre, BlocksAreNext, OwnersAre,
     OwnersDiffer DEF Replaces
<1>10. BlocksStep BY <1>3, <1>4, <1>9, OwnersDiffer, BlockPassed
<1>11. CallsInv' BY <1>1, <1>8, <1>10, CallsKept DEF BackendInv
<1>12. Types' BY <1>1, <1>3, <1>4, <1>5, <1>8 DEF Types
<1> QED BY <1>5, <1>6, <1>10, <1>11, <1>12 DEF BackendInv, BlocksStep

LEMMA TakeParentStep ==
  ASSUME BackendInv, NEW t \in Thread, TakeParent(t)
  PROVE  BackendInv'
<1> DEFINE k == op[t].idx  s == Head(list[k])
           c == [at |-> "split", ptr |-> s, n |-> op[t].n, idx |-> k,
                 fin |-> op[t].fin, len |-> op[t].len]
<1>1. /\ op[t].at = "scan" /\ op[t] \in Calls /\ op[t].n \in Request
      /\ Types /\ NoSharing(list)
  BY DEF BackendInv, Types, CallsInv, CallInv, TakeParent, At
<1>2. k \in Index /\ op[t].n < k
  <2>1. /\ k > op[t].n /\ k <= BackendMaxPage /\ k \in Nat
        /\ op[t].n \in Nat /\ op[t].n >= 1
    BY <1>1, RequestNat DEF TakeParent, Calls
  <2> HIDE DEF k
  <2> QED BY <2>1, BackendAssumption DEF Index
<1>3. /\ list[k] # <<>> /\ RemoveOne(k)
      /\ Enter(t, [op[t] EXCEPT !.at = "split", !.ptr = s])
      /\ held' = held /\ bump' = bump /\ mapped' = mapped
  BY DEF TakeParent
<1>4. /\ s \in Nat /\ s \in Page /\ k \in Nat \ {0}
      /\ <<List, s, k>> \in Blocks /\ <<List, s, k>> \in Listed
      /\ P(<<List, s, k>>) \subseteq mapped
  BY <1>2, <1>3, HeadBlock
<1>5. /\ list' \in [Index -> Seq(Page)] /\ NoSharing(list)'
      /\ mark' \in [Page -> 0 .. BackendMaxPage]
      /\ Replaces(Listed, Listed', {<<List, s, k>>}, {})
  BY <1>1, <1>2, <1>3, ListRemove
<1>6. MarksMatchLists' BY <1>2, <1>3, MarksRemove DEF BackendInv
<1> HIDE DEF s
<1>7. HeldBlocks' = HeldBlocks BY <1>3 DEF HeldBlocks, Held
<1>8. [op[t] EXCEPT !.at = "split", !.ptr = s] = c
  <2> DEFINE d == [op[t] EXCEPT !.at = "split"]
  <2>1. d = [at |-> "split", ptr |-> op[t].ptr, n |-> op[t].n,
             idx |-> op[t].idx, fin |-> op[t].fin, len |-> op[t].len]
    BY <1>1, CallIsRecord
  <2> HIDE DEF d
  <2>2. [d EXCEPT !.ptr = s] = c BY <2>1
  <2> QED BY <2>2 DEF d
<1>9. c \in Calls /\ c.at = "split" /\ c.ptr = s /\ c.idx = k /\ c.n = op[t].n
  BY <1>1, <1>4 DEF Calls
<1> HIDE DEF c, k
<1>10. /\ op' \in [Thread -> Calls] /\ op'[t] = c
       /\ \A u \in Thread \ {t} : op'[u] = op[u]
       /\ Replaces(CallBlocks, CallBlocks', InFlight(t), InFlight(t)')
  BY <1>1, <1>3, <1>8, <1>9, CallEnters
<1>11. InFlight(t) = {} /\ InFlight(t)' = {<<CallOf(t), s, k>>}
  BY <1>1, <1>9, <1>10, InFlightIs, InFlightNext
<1>12. Replaces(Blocks, Blocks', {<<List, s, k>>}, {<<CallOf(t), s, k>>})
  BY <1>3, <1>5, <1>7, <1>10, <1>11, BumpStays, BlocksAre, BlocksAreNext,
     OwnersAre, OwnersDiffer DEF Replaces
<1>13. BlocksStep BY <1>3, <1>4, <1>12, OwnersDiffer, BlockPassed
<1>14. CallInv(t)' BY <1>1, <1>2, <1>9, <1>10 DEF CallInv, Freeing, Linking
<1>15. CallsInv' BY <1>1, <1>10, <1>13, <1>14, CallsKept DEF BackendInv
<1>16. Types' BY <1>1, <1>3, <1>5, <1>10 DEF Types
<1> QED BY <1>5, <1>6, <1>13, <1>15, <1>16 DEF BackendInv, BlocksStep

LEMMA FreeCall ==
  ASSUME NEW s, NEW n
  PROVE  [Idle EXCEPT !.at = "prev", !.ptr = s, !.n = n, !.fin = s, !.len = n]
           = [at |-> "prev", ptr |-> s, n |-> n, idx |-> 0,
              fin |-> s, len |-> n]
<1> DEFINE d == [Idle EXCEPT !.at = "prev"]  e == [d EXCEPT !.ptr = s]
           f == [e EXCEPT !.n = n]  g == [f EXCEPT !.fin = s]
<1>1. d = [at |-> "prev", ptr |-> 0, n |-> 0, idx |-> 0, fin |-> 0, len |-> 0]
  BY DEF Idle
<1> HIDE DEF d
<1>2. e = [at |-> "prev", ptr |-> s, n |-> 0, idx |-> 0, fin |-> 0, len |-> 0]
  BY <1>1
<1> HIDE DEF e
<1>3. f = [at |-> "prev", ptr |-> s, n |-> n, idx |-> 0, fin |-> 0, len |-> 0]
  BY <1>2
<1> HIDE DEF f
<1>4. g = [at |-> "prev", ptr |-> s, n |-> n, idx |-> 0, fin |-> s, len |-> 0]
  BY <1>3
<1> HIDE DEF g
<1>5. [g EXCEPT !.len = n]
        = [at |-> "prev", ptr |-> s, n |-> n, idx |-> 0, fin |-> s, len |-> n]
  BY <1>4
<1> QED BY <1>5 DEF d, e, f, g

LEMMA FreeStep ==
  ASSUME BackendInv, NEW t \in Thread, NEW b \in held, Free(t, b)
  PROVE  BackendInv'
<1>1. /\ op[t].at = "idle" /\ Types /\ b \in Nat \X (Nat \ {0})
      /\ held' = held \ {b} /\ UNCHANGED <<list, mark, bump, mapped>>
      /\ Pages(b[1], b[2]) \subseteq mapped
  BY DEF BackendInv, Types, Free, At
<1>2. PICK s \in Nat, k \in Nat \ {0} : b[1] = s /\ b[2] = k BY <1>1
<1> DEFINE c == [at |-> "prev", ptr |-> s, n |-> k, idx |-> 0,
                 fin |-> s, len |-> k]
<1>3. Enter(t, c) BY <1>2, FreeCall, ZenonT(40) DEF Free
<1>4. /\ c \in Calls /\ c.at = "prev" /\ c.ptr = s /\ c.n = k
      /\ c.fin = s /\ c.len = k
  BY DEF Calls
<1> HIDE DEF c
<1>5. /\ op' \in [Thread -> Calls] /\ op'[t] = c
      /\ \A u \in Thread \ {t} : op'[u] = op[u]
      /\ Replaces(CallBlocks, CallBlocks', InFlight(t), InFlight(t)')
  BY <1>1, <1>3, <1>4, CallEnters
<1>6. InFlight(t) = {} /\ InFlight(t)' = {<<CallOf(t), s, k>>}
  <2>1. op'[t].at \in Freeing BY <1>4, <1>5 DEF Freeing
  <2> QED BY <1>1, <1>4, <1>5, <2>1, InFlightIs, InFlightNext
<1>7. /\ Replaces(HeldBlocks, HeldBlocks', {<<Held, s, k>>}, {})
      /\ <<Held, s, k>> \in HeldBlocks
  BY <1>1, <1>2, HeldLoses
<1>8. <<Held, s, k>> \in Blocks /\ P(<<Held, s, k>>) \subseteq mapped
  BY <1>1, <1>2, <1>7, BlocksAre DEF P
<1>9. Replaces(Blocks, Blocks', {<<Held, s, k>>}, {<<CallOf(t), s, k>>})
  BY <1>1, <1>5, <1>6, <1>7, BumpStays, ListsStay, BlocksAre, BlocksAreNext,
     OwnersAre, OwnersDiffer DEF Replaces
<1>10. BlocksStep BY <1>1, <1>8, <1>9, OwnersDiffer, BlockPassed
<1>11. CallInv(t)' BY <1>4, <1>5 DEF CallInv
<1>12. CallsInv' BY <1>1, <1>5, <1>10, <1>11, CallsKept DEF BackendInv
<1>13. Types' BY <1>1, <1>5 DEF Types
<1>14. NoSharing(list)' /\ MarksMatchLists'
  BY <1>1 DEF BackendInv, MarksMatchLists
<1> QED BY <1>10, <1>12, <1>13, <1>14 DEF BackendInv, BlocksStep

LEMMA PutBackStep ==
  ASSUME BackendInv, NEW t \in Thread, PutBack(t)
  PROVE  BackendInv'
<1> DEFINE s == op[t].ptr  k == op[t].n  a == <<CallOf(t), s, k>>
<1>1. /\ op[t].at \in Freeing /\ Types /\ NoSharing(list)
      /\ op[t].len <= BackendMaxPage /\ InsertOne(op[t].len, op[t].fin)
      /\ Return(t) /\ UNCHANGED <<held, bump, mapped>>
  BY DEF BackendInv, PutBack, At, Freeing
<1>2. /\ InFlight(t) = {a} /\ a \in Blocks /\ a \notin Listed
      /\ s \in Nat /\ k \in Nat \ {0} /\ op[t].fin = s /\ op[t].len = k
      /\ P(a) \subseteq mapped
  BY <1>1, FreedBlock
<1> HIDE DEF s, k
<1>3. k \in Index BY <1>1, <1>2, BackendAssumption DEF Index
<1>4. s \in P(a) /\ s + k - 1 \in P(a) BY <1>2, InBlock
<1>5. s \in Page /\ s + k - 1 \in Page BY <1>1, <1>2, <1>4 DEF Types
<1> HIDE DEF a
<1>6. \A j \in Index : s \notin Range(list[j])
  <2>1. ASSUME NEW j \in Index, NEW r \in Range(list[j]) PROVE s # r
    <3>1. a # <<List, r, j>> BY <1>2, ListedAre
    <3> QED BY <1>2, <1>4, <3>1, NoListedEnd DEF BackendInv
  <2> QED BY <2>1
<1>7. /\ list' \in [Index -> Seq(Page)] /\ NoSharing(list)'
      /\ mark' \in [Page -> 0 .. BackendMaxPage]
      /\ Range(list'[k]) = Range(list[k]) \cup {s}
      /\ \A j \in Index : j # k => list'[j] = list[j]
      /\ Replaces(Listed, Listed', {}, {<<List, s, k>>})
  BY <1>1, <1>2, <1>3, <1>5, <1>6, ListInsert
<1>8. MarksMatchLists'
  BY <1>1, <1>2, <1>3, <1>4, <1>5, <1>7, MarksInsert DEF BackendInv
<1>9. /\ op' \in [Thread -> Calls]
      /\ \A u \in Thread \ {t} : op'[u] = op[u]
      /\ Replaces(CallBlocks, CallBlocks', {a}, {})
      /\ CallInv(t)'
  BY <1>1, <1>2, Returns
<1>10. HeldBlocks' = HeldBlocks BY <1>1 DEF HeldBlocks, Held
<1>11. a = <<CallOf(t), s, k>> BY DEF a
<1>12. Replaces(Blocks, Blocks', {<<CallOf(t), s, k>>}, {<<List, s, k>>})
  BY <1>1, <1>7, <1>9, <1>10, <1>11, BumpStays, BlocksAre, BlocksAreNext,
     OwnersAre, OwnersDiffer DEF Replaces
<1>13. BlocksStep BY <1>1, <1>2, <1>11, <1>12, OwnersDiffer, BlockPassed
<1>14. CallsInv' BY <1>1, <1>9, <1>13, CallsKept DEF BackendInv
<1>15. Types' BY <1>1, <1>7, <1>9 DEF Types
<1> QED BY <1>7, <1>8, <1>13, <1>14, <1>15 DEF BackendInv, BlocksStep

LEMMA UnmapStep ==
  ASSUME BackendInv, NEW t \in Thread, Unmap(t)
  PROVE  BackendInv'
<1> DEFINE a == <<CallOf(t), op[t].ptr, op[t].n>>
<1>1. /\ op[t].at \in Freeing /\ Types
      /\ op[t].len > BackendMaxPage /\ mapped' = mapped \ P(a)
      /\ Return(t) /\ UNCHANGED <<held, list, mark, bump>>
      /\ InFlight(t) = {a} /\ a \in Blocks /\ a[3] > BackendMaxPage
  <2>1. op[t].at \in Freeing BY DEF Unmap, At, Freeing
  <2>2. /\ InFlight(t) = {a} /\ a \in Blocks
        /\ op[t].fin = op[t].ptr /\ op[t].len = op[t].n
    BY <2>1, FreedBlock
  <2> QED BY <2>1, <2>2 DEF BackendInv, Unmap, P
<1>2. CallOf(t) = a[1] OBVIOUS
<1> HIDE DEF a
<1>3. /\ op' \in [Thread -> Calls]
      /\ \A u \in Thread \ {t} : op'[u] = op[u]
      /\ Replaces(CallBlocks, CallBlocks', {a}, {})
      /\ CallInv(t)'
  BY <1>1, Returns
<1>4. HeldBlocks' = HeldBlocks BY <1>1 DEF HeldBlocks, Held
<1>5. \A b : b \in Blocks' <=> b \in Blocks /\ b # a
  BY <1>1, <1>2, <1>3, <1>4, BumpStays, ListsStay, BlocksAre, BlocksAreNext,
     OwnersAre, OwnersDiffer DEF Replaces
<1>6. BackendMaxPage \in Nat BY BackendAssumption
<1>7. ASSUME NEW b \in Blocks, b # a PROVE P(b) \cap mapped \subseteq mapped'
  <2>1. Disjoint(P(b) \cap mapped, P(a) \cap mapped)
    BY <1>1, <1>7 DEF BackendInv, Tiles
  <2> QED BY <1>1, <2>1 DEF Disjoint
<1>8. BlocksAreSound'
  <2>1. ASSUME NEW b \in Blocks, b # a PROVE Sound(b)'
    <3>1. Sound(b) BY DEF BackendInv, BlocksAreSound
    <3>2. P(b) \subseteq mapped => P(b) \subseteq mapped' BY <2>1, <1>7
    <3> QED BY <3>1, <3>2 DEF Sound, IsMapped, Failed
  <2> QED BY <2>1, <1>5 DEF BlocksAreSound
<1>9. Tiles(Blocks, mapped)'
  <2>1. ASSUME NEW b \in Blocks', NEW c \in Blocks', b # c
        PROVE  Disjoint(P(b) \cap mapped', P(c) \cap mapped')
    <3>1. Disjoint(P(b) \cap mapped, P(c) \cap mapped)
      BY <2>1, <1>5 DEF BackendInv, Tiles
    <3> QED BY <1>1, <3>1 DEF Disjoint
  <2>2. ASSUME NEW p \in mapped' PROVE \E b \in Blocks' : p \in P(b)
    <3>1. p \in mapped /\ p \notin P(a) BY <1>1
    <3>2. PICK b \in Blocks : p \in P(b)
      BY <3>1 DEF BackendInv, Tiles
    <3> QED BY <1>5, <3>1, <3>2
  <2> QED BY <2>1, <2>2 DEF Tiles
<1>10. ASSUME NEW s, Starts(s) PROVE Starts(s)'
  <2>1. PICK b \in Blocks : b[2] = s /\ Short(b) BY <1>10 DEF Starts
  <2>2. Sound(b) /\ Sound(a) BY <1>1 DEF BackendInv, BlocksAreSound
  <2>3. b # a BY <1>1, <1>6, <2>1, <2>2 DEF Short, Sound
  <2>4. s \in P(b) BY <2>1, <2>2, InBlock DEF Short, Sound
  <2>5. s \in mapped' BY <1>7, <1>10, <2>3, <2>4 DEF Starts
  <2> QED BY <1>5, <2>1, <2>3, <2>5 DEF Starts, Short
<1>11. BlocksStep
  BY <1>1, <1>8, <1>9, <1>10 DEF BlocksStep, LowUnmapped, BackendInv
<1>12. CallsInv' BY <1>1, <1>3, <1>11, CallsKept DEF BackendInv
<1>13. Types' BY <1>1, <1>3 DEF Types
<1>14. NoSharing(list)' /\ MarksMatchLists'
  BY <1>1 DEF BackendInv, MarksMatchLists
<1> QED BY <1>11, <1>12, <1>13, <1>14 DEF BackendInv, BlocksStep

-----------------------------------------------------------------------------
(***************************************************************************)
(* The steps that cut blocks up.                                           *)
(***************************************************************************)
LEMMA SplitParentStep ==
  ASSUME BackendInv, NEW t \in Thread, SplitParent(t)
  PROVE  BackendInv'
<1> DEFINE s == op[t].ptr  k == op[t].idx  n == op[t].n
           a == <<CallOf(t), s, k>>
           c == <<Held, s, n>>  d == <<List, s + n, k - n>>
<1>1. /\ op[t].at = "split" /\ Types /\ NoSharing(list)
      /\ InsertOne(k - n, s + n) /\ held' = held \cup {<<s, n>>}
      /\ Return(t) /\ UNCHANGED <<bump, mapped>>
      /\ n \in Request /\ k \in Index /\ n < k /\ op[t] \in Calls
  BY DEF BackendInv, Types, CallsInv, CallInv, SplitParent, At
<1>2. s \in Nat /\ k \in Nat /\ n \in Nat /\ n >= 1
  BY <1>1, RequestNat DEF Calls
<1>3. InFlight(t) = {a} BY <1>1, InFlightIs
<1>4. /\ a[1] = CallOf(t) /\ a[2] = s /\ a[3] = k
      /\ c[1] = Held /\ c[2] = s /\ c[3] = n
      /\ d[1] = List /\ d[2] = s + n /\ d[3] = k - n
  OBVIOUS
<1>5. a = <<CallOf(t), s, k>> /\ c = <<Held, s, n>> /\ d = <<List, s + n, k - n>>
  OBVIOUS
<1> HIDE DEF s, k, n, a, c, d
<1>6. a \in Blocks /\ a \notin Listed
  BY <1>3, <1>4, BlocksAre, OwnersAre, OwnersDiffer DEF CallBlocks
<1>7. P(a) \subseteq mapped
  BY <1>4, <1>6, OwnersDiffer
     DEF BackendInv, BlocksAreSound, Sound, IsMapped, Failed
<1>8. CutUp(a, {c, d}) BY <1>1, <1>2, <1>4, TwoPieces
<1>9. k - n \in Index /\ k <= BackendMaxPage
  BY <1>1, <1>2, BackendAssumption DEF Index
<1>10. s + n \in P(a) /\ s + n + (k - n) - 1 \in P(a)
  BY <1>1, <1>2, <1>4, InBlock
<1>11. s + n \in Page /\ s + n + (k - n) - 1 \in Page
  BY <1>1, <1>7, <1>10 DEF Types
<1>12. \A j \in Index : s + n \notin Range(list[j])
  <2>1. ASSUME NEW j \in Index, NEW r \in Range(list[j]) PROVE s + n # r
    <3>1. a # <<List, r, j>> BY <1>6, ListedAre
    <3> QED BY <1>6, <1>10, <3>1, NoListedEnd DEF BackendInv
  <2> QED BY <2>1
<1>13. /\ list' \in [Index -> Seq(Page)] /\ NoSharing(list)'
       /\ mark' \in [Page -> 0 .. BackendMaxPage]
       /\ Range(list'[k - n]) = Range(list[k - n]) \cup {s + n}
       /\ \A j \in Index : j # k - n => list'[j] = list[j]
       /\ Replaces(Listed, Listed', {}, {d})
  BY <1>1, <1>5, <1>9, <1>11, <1>12, ListInsert
<1>14. MarksMatchLists'
  BY <1>1, <1>6, <1>9, <1>10, <1>11, <1>13, MarksInsert DEF BackendInv
<1>15. /\ op' \in [Thread -> Calls]
       /\ \A u \in Thread \ {t} : op'[u] = op[u]
       /\ Replaces(CallBlocks, CallBlocks', {a}, {})
       /\ CallInv(t)'
  BY <1>1, <1>3, Returns
<1>16. Replaces(HeldBlocks, HeldBlocks', {}, {c}) BY <1>1, <1>5, HeldGains
<1>17. Replaces(Blocks, Blocks', {a}, {c, d})
  BY <1>1, <1>4, <1>13, <1>15, <1>16, BumpStays, BlocksAre, BlocksAreNext,
     OwnersAre, OwnersDiffer DEF Replaces
<1>18. Sound(c) /\ Sound(d)
  <2>1. P(c) \subseteq mapped /\ P(d) \subseteq mapped
    BY <1>7, <1>8 DEF CutUp
  <2>2. s + n \in Nat /\ k - n \in Nat /\ k - n > 0 BY <1>1, <1>2
  <2> QED BY <1>2, <1>4, <2>1, <2>2 DEF Sound, IsMapped
<1>19. KeepsStart(a, {c, d})
  BY <1>1, <1>2, <1>4, OwnersDiffer DEF KeepsStart
<1>20. BlocksStep
  BY <1>1, <1>6, <1>8, <1>17, <1>18, <1>19, BlockCut DEF BackendInv
<1>21. CallsInv' BY <1>1, <1>15, <1>20, CallsKept DEF BackendInv
<1>22. Types' BY <1>1, <1>2, <1>13, <1>15 DEF Types
<1> QED BY <1>13, <1>14, <1>20, <1>21, <1>22 DEF BackendInv, BlocksStep

\* BUMP cuts n pages off its block.
LEMMA BumpCutStep ==
  ASSUME BackendInv, NEW t \in Thread, op[t].at = "scan",
         NEW n, n = op[t].n, ~ BumpShort(n),
         bump' = [bump EXCEPT !.top = @ - n], mapped' = mapped,
         held' = held \cup {<<bump'.top, n>>}, Return(t),
         UNCHANGED <<list, mark>>
  PROVE  BackendInv'
<1>1. Types /\ op[t] \in Calls /\ n \in Request
  BY DEF BackendInv, Types, CallsInv, CallInv
<1>2. PICK low \in Nat, top \in Nat : bump.low = low /\ bump.top = top
  BY <1>1 DEF Types
<1>3. n \in Nat /\ n >= 1 /\ low + n <= top
  BY <1>1, <1>2, RequestNat DEF BumpShort
<1>4. bump' = [low |-> low, top |-> top - n] BY <1>1, <1>2 DEF Types
<1>5. bump'.low = low /\ bump'.top = top - n BY <1>4
<1> DEFINE a == BumpBlock  c == <<Bump, low, top - n - low>>
           d == <<Held, top - n, n>>
<1>6. /\ a[1] = Bump /\ a[2] = low /\ a[3] = top - low
      /\ c[1] = Bump /\ c[2] = low /\ c[3] = top - n - low
      /\ d[1] = Held /\ d[2] = top - n /\ d[3] = n
  BY <1>2 DEF BumpBlock
<1>7. BumpBlock' = c BY <1>5 DEF BumpBlock, Bump
<1>8. d = <<Held, top - n, n>> OBVIOUS
<1>9. a = BumpBlock /\ a \in Blocks BY BlocksAre
<1> HIDE DEF a, c, d
<1>10. CutUp(a, {c, d})
  <2>1. /\ top - low \in Nat /\ top - n - low \in 0 .. top - low
        /\ top - n = low + (top - n - low) /\ n = (top - low) - (top - n - low)
    BY <1>3
  <2> QED BY <1>6, <2>1, TwoPieces
<1>11. Replaces(HeldBlocks, HeldBlocks', {}, {d}) BY <1>5, <1>8, HeldGains
<1>12. /\ op' \in [Thread -> Calls]
       /\ \A u \in Thread \ {t} : op'[u] = op[u]
       /\ Replaces(CallBlocks, CallBlocks', {}, {})
       /\ CallInv(t)'
  BY <1>1, Returns, InFlightIs
<1>13. Replaces(Blocks, Blocks', {a}, {c, d})
  BY <1>6, <1>7, <1>9, <1>11, <1>12, ListsStay, BlocksAre, BlocksAreNext,
     OwnersAre, OwnersDiffer DEF Replaces
<1>14. Sound(c) /\ Sound(d)
  <2>1. Sound(a) BY <1>9 DEF BackendInv, BlocksAreSound
  <2>2. IsMapped(a) => IsMapped(c) /\ IsMapped(d)
    BY <1>10 DEF CutUp, IsMapped
  <2>3. Failed(a) => Failed(c) /\ Failed(d)
    <3>1. Region \in Nat BY BackendAssumption
    <3> QED BY <1>3, <1>6, <3>1 DEF Failed
  <2>4. top - n \in Nat /\ top - n - low \in Nat BY <1>3
  <2> QED BY <1>3, <1>6, <2>1, <2>2, <2>3, <2>4 DEF Sound
<1>15. KeepsStart(a, {c, d}) BY <1>6 DEF KeepsStart
<1>16. BlocksStep
  BY <1>9, <1>10, <1>13, <1>14, <1>15, BlockCut DEF BackendInv
<1>17. CallsInv' BY <1>1, <1>12, <1>16, CallsKept DEF BackendInv
<1>18. Types'
  <2>1. top - n \in Nat /\ low <= top - n /\ n \in Nat \ {0} BY <1>3
  <2> QED BY <1>1, <1>4, <1>5, <1>12, <2>1, SMTT(40) DEF Types
<1>19. NoSharing(list)' /\ MarksMatchLists'
  BY DEF BackendInv, MarksMatchLists
<1> QED BY <1>16, <1>17, <1>18, <1>19 DEF BackendInv, BlocksStep

\* A region that mmap returned is new memory above Region; one that it failed to
\* return begins at page 0.
LEMMA RegionIsNew ==
  ASSUME BackendInv, NEW s \in RegionStarts
  PROVE  /\ s \in Nat /\ Mmapped(s) \subseteq Page
         /\ Disjoint(Pages(s, Region), mapped)
         /\ \/ Mmapped(s) = Pages(s, Region) /\ s >= Region
            \/ Mmapped(s) = {} /\ s = 0 /\ MmapFails
<1>1. NPages \in Nat /\ Region \in Nat /\ Region # 0 BY BackendAssumption
<1>2. CASE s \in FreeRegions
  <2>1. /\ s \in Page /\ s >= Region /\ s + Region <= NPages
        /\ Disjoint(Pages(s, Region), mapped)
    BY <1>2 DEF FreeRegions
  <2>2. s \in Nat /\ s # 0 BY <1>1, <2>1 DEF Page
  <2>3. Mmapped(s) = Pages(s, Region) BY <2>2 DEF Mmapped
  <2>4. Pages(s, Region) \subseteq Page BY <1>1, <2>1, <2>2 DEF Pages, Page
  <2> QED BY <2>1, <2>2, <2>3, <2>4
<1>3. CASE s \notin FreeRegions
  <2>1. s = 0 /\ MmapFails BY <1>3 DEF RegionStarts
  <2>2. Mmapped(s) = {} BY <2>1 DEF Mmapped
  <2>3. \A p \in Pages(s, Region) : p < Region BY <1>1, <2>1 DEF Pages
  <2>4. \A p \in mapped : p >= Region /\ p \in Nat
    BY DEF BackendInv, LowUnmapped, Types, Page
  <2>5. Disjoint(Pages(s, Region), mapped)
    BY <1>1, <2>3, <2>4 DEF Disjoint
  <2> QED BY <2>1, <2>2, <2>5
<1> QED BY <1>2, <1>3

\* The blocks when BUMP gives up its block a for a region R, cut into N.
LEMMA RegionReplaced ==
  ASSUME BackendInv, NEW s \in RegionStarts,
         NEW a \in Blocks, a[1] = Bump,
         mapped' = (mapped \ P(a)) \cup Mmapped(s),
         NEW e, P(e) = Pages(s, Region),
         NEW N, CutUp(e, N), Replaces(Blocks, Blocks', {a}, N),
         \A c \in N : /\ c[2] \in Nat /\ c[3] \in Nat
                      /\ c[1] = Bump \/ (c[1] = Held /\ c[3] > 0)
                      /\ s = 0 => c[2] + c[3] <= Region
  PROVE  BlocksStep
<1>1. /\ Disjoint(P(e), mapped) /\ Mmapped(s) \subseteq P(e)
      /\ \/ Mmapped(s) = P(e) /\ s >= Region
         \/ Mmapped(s) = {} /\ s = 0 /\ MmapFails
  BY RegionIsNew
<1>2. Region \in Nat BY BackendAssumption
<1>3. \A b : b \in Blocks' <=> (b \in Blocks /\ b # a) \/ b \in N
  BY DEF Replaces
<1>4. \A c \in N : P(c) \subseteq P(e) BY DEF CutUp
<1>5. \A p \in Mmapped(s) : p \in Int /\ p >= Region
  <2>1. s \in Nat BY RegionIsNew
  <2>2. \A p \in Pages(s, Region) : p \in Int /\ p >= s BY <2>1, <1>2 DEF Pages
  <2> QED BY <1>1, <1>2, <2>1, <2>2
<1>6. ASSUME NEW b \in Blocks, b # a
      PROVE  /\ P(b) \cap mapped \subseteq mapped'
             /\ P(b) \cap mapped' \subseteq mapped
  <2>1. Disjoint(P(b) \cap mapped, P(a) \cap mapped)
    BY <1>6 DEF BackendInv, Tiles
  <2>2. P(b) \cap Mmapped(s) = {}
    <3>1. Sound(b) BY DEF BackendInv, BlocksAreSound
    <3>2. CASE IsMapped(b) BY <3>2, <1>1 DEF IsMapped, Disjoint
    <3>3. CASE Failed(b)
      <4>1. b[2] \in Nat /\ b[3] \in Nat /\ b[2] + b[3] <= Region
        BY <3>1, <3>3 DEF Sound, Failed
      <4>2. \A p \in P(b) : p \in Int /\ p < Region
        BY <4>1, <1>2, InBlock
      <4> QED BY <4>2, <1>2, <1>5
    <3> QED BY <3>1, <3>2, <3>3 DEF Sound
  <2> QED BY <2>1, <2>2 DEF Disjoint
<1>7. BlocksAreSound'
  <2>1. ASSUME NEW b \in Blocks, b # a PROVE Sound(b)'
    <3>1. Sound(b) BY DEF BackendInv, BlocksAreSound
    <3>2. P(b) \subseteq mapped => P(b) \subseteq mapped' BY <2>1, <1>6
    <3> QED BY <3>1, <3>2 DEF Sound, IsMapped, Failed
  <2>2. ASSUME NEW b \in N PROVE Sound(b)'
    <3>1. CASE Mmapped(s) = P(e)
      <4>1. P(b) \subseteq mapped' BY <3>1, <1>4
      <4> QED BY <4>1, OwnersDiffer DEF Sound, IsMapped
    <3>2. CASE s = 0 /\ MmapFails
      BY <3>2, OwnersDiffer DEF Sound, Failed
    <3> QED BY <3>1, <3>2, <1>1
  <2> QED BY <2>1, <2>2, <1>3 DEF BlocksAreSound
<1>8. Tiles(Blocks, mapped)'
  <2>1. ASSUME NEW b \in Blocks, b # a, NEW c \in N
        PROVE  Disjoint(P(b) \cap mapped', P(c) \cap mapped')
    BY <2>1, <1>1, <1>4, <1>6 DEF Disjoint
  <2>2. ASSUME NEW b \in Blocks, b # a, NEW c \in Blocks, c # a, b # c
        PROVE  Disjoint(P(b) \cap mapped', P(c) \cap mapped')
    <3>1. Disjoint(P(b) \cap mapped, P(c) \cap mapped)
      BY <2>2 DEF BackendInv, Tiles
    <3> QED BY <2>2, <3>1, <1>6 DEF Disjoint
  <2>3. ASSUME NEW b \in N, NEW c \in N, b # c
        PROVE  Disjoint(P(b) \cap mapped', P(c) \cap mapped')
    BY <2>3 DEF CutUp, Disjoint
  <2>4. ASSUME NEW b \in Blocks', NEW c \in Blocks', b # c
        PROVE  Disjoint(P(b) \cap mapped', P(c) \cap mapped')
    <3>1. CASE b \in N /\ c \in N BY <3>1, <2>3, <2>4
    <3>2. CASE b \in N /\ c \notin N
      <4>1. Disjoint(P(c) \cap mapped', P(b) \cap mapped')
        BY <3>2, <2>1, <1>3
      <4> QED BY <4>1 DEF Disjoint
    <3>3. CASE b \notin N /\ c \in N BY <3>3, <2>1, <1>3
    <3>4. CASE b \notin N /\ c \notin N BY <3>4, <2>2, <2>4, <1>3
    <3> QED BY <3>1, <3>2, <3>3, <3>4
  <2>5. ASSUME NEW p \in mapped' PROVE \E b \in Blocks' : p \in P(b)
    <3>1. CASE p \in P(e)
      <4>1. PICK c \in N : p \in P(c) BY <3>1 DEF CutUp
      <4> QED BY <4>1, <1>3
    <3>2. CASE p \notin P(e)
      <4>1. p \in mapped /\ p \notin P(a) BY <3>2, <1>1
      <4>2. PICK b \in Blocks : p \in P(b)
        BY <4>1 DEF BackendInv, Tiles
      <4> QED BY <4>1, <4>2, <1>3
    <3> QED BY <3>1, <3>2
  <2> QED BY <2>4, <2>5 DEF Tiles
<1>9. ASSUME NEW x, Starts(x) PROVE Starts(x)'
  <2>1. PICK b \in Blocks : b[2] = x /\ Short(b) BY <1>9 DEF Starts
  <2>2. b # a BY <2>1 DEF Short
  <2>3. Sound(b) BY DEF BackendInv, BlocksAreSound
  <2>4. x \in P(b) BY <2>1, <2>3, InBlock DEF Short, Sound
  <2>5. x \in mapped' BY <1>6, <1>9, <2>2, <2>4 DEF Starts
  <2> QED BY <1>3, <2>1, <2>2, <2>5 DEF Starts, Short
<1>10. LowUnmapped' BY <1>5 DEF LowUnmapped, BackendInv
<1> QED BY <1>7, <1>8, <1>9, <1>10 DEF BlocksStep

\* BUMP begins a region and cuts n pages off it.
LEMMA BumpInitStep ==
  ASSUME BackendInv, NEW t \in Thread, op[t].at = "scan",
         NEW n, n = op[t].n, NEW s \in RegionStarts,
         bump' = [low |-> s, top |-> s + Region - n], mapped' = BumpInit(s),
         held' = held \cup {<<bump'.top, n>>}, Return(t),
         UNCHANGED <<list, mark>>
  PROVE  BackendInv'
<1>1. Types /\ op[t] \in Calls /\ n \in Request
  BY DEF BackendInv, Types, CallsInv, CallInv
<1>2. PICK low \in Nat, top \in Nat : bump.low = low /\ bump.top = top
  BY <1>1 DEF Types
<1>3. /\ n \in Nat /\ n >= 1 /\ n <= Region /\ Region \in Nat /\ s \in Nat
      /\ Mmapped(s) \subseteq Page /\ low <= top
  BY <1>1, <1>2, RequestNat, BackendAssumption, RegionIsNew DEF Types
<1>4. bump'.low = s /\ bump'.top = s + Region - n OBVIOUS
<1> DEFINE a == BumpBlock  e == <<Bump, s, Region>>
           c == <<Bump, s, Region - n>>  d == <<Held, s + Region - n, n>>
<1>5. /\ a[1] = Bump /\ a[2] = low /\ a[3] = top - low
      /\ e[2] = s /\ e[3] = Region
      /\ c[1] = Bump /\ c[2] = s /\ c[3] = Region - n
      /\ d[1] = Held /\ d[2] = s + Region - n /\ d[3] = n
  BY <1>2 DEF BumpBlock
<1>6. BumpBlock' = c
  <2> HIDE DEF a, c, d, e
  <2>2. BumpBlock' = <<Bump, bump'.low, bump'.top - bump'.low>>
    BY DEF BumpBlock, Bump
  <2>3. bump'.top - bump'.low = Region - n BY ONLY <1>3, <1>4
  <2> QED BY <1>4, <2>2, <2>3 DEF c
<1>7. d = <<Held, s + Region - n, n>> OBVIOUS
<1>8. a = BumpBlock /\ a \in Blocks BY BlocksAre
<1> HIDE DEF a, c, d, e
<1>9. CutUp(e, {c, d})
  <2>1. /\ Region - n \in 0 .. Region /\ s + Region - n = s + (Region - n)
        /\ n = Region - (Region - n)
    BY <1>3
  <2> QED BY <1>3, <1>5, <2>1, TwoPieces
<1>10. Replaces(HeldBlocks, HeldBlocks', {}, {d}) BY <1>4, <1>7, HeldGains
<1>11. /\ op' \in [Thread -> Calls]
       /\ \A u \in Thread \ {t} : op'[u] = op[u]
       /\ Replaces(CallBlocks, CallBlocks', {}, {})
       /\ CallInv(t)'
  BY <1>1, Returns, InFlightIs
<1>12. Replaces(Blocks, Blocks', {a}, {c, d})
  BY <1>5, <1>6, <1>8, <1>10, <1>11, ListsStay, BlocksAre, BlocksAreNext,
     OwnersAre, OwnersDiffer DEF Replaces
<1>13. mapped' = (mapped \ P(a)) \cup Mmapped(s)
  <2>1. P(a) = low .. top - 1
    <3>1. P(a) = low .. low + (top - low) - 1 BY <1>5 DEF P, Pages
    <3>2. low + (top - low) - 1 = top - 1 BY <1>3
    <3> QED BY <3>1, <3>2
  <2> QED BY <2>1, <1>2 DEF BumpInit
<1>14. P(e) = Pages(s, Region) BY <1>5 DEF P
<1>15. \A b \in {c, d} : /\ b[2] \in Nat /\ b[3] \in Nat
                         /\ b[1] = Bump \/ (b[1] = Held /\ b[3] > 0)
                         /\ s = 0 => b[2] + b[3] <= Region
  BY <1>3, <1>5
<1>16. BlocksStep
  <2> DEFINE N == {c, d}
  <2>1. /\ CutUp(e, N) /\ Replaces(Blocks, Blocks', {a}, N)
        /\ \A b \in N : /\ b[2] \in Nat /\ b[3] \in Nat
                        /\ b[1] = Bump \/ (b[1] = Held /\ b[3] > 0)
                        /\ s = 0 => b[2] + b[3] <= Region
    BY <1>9, <1>12, <1>15
  <2> HIDE DEF N
  <2> QED BY <1>5, <1>8, <1>13, <1>14, <2>1, RegionReplaced
<1>17. CallsInv' BY <1>1, <1>11, <1>16, CallsKept DEF BackendInv
<1>18. Types'
  <2>1. s + Region - n \in Nat /\ s <= s + Region - n /\ n \in Nat \ {0} BY <1>3
  <2>2. mapped' \subseteq Page BY <1>1, <1>3, <1>13 DEF Types
  <2> QED BY <1>1, <1>3, <1>4, <1>11, <2>1, <2>2 DEF Types
<1>19. NoSharing(list)' /\ MarksMatchLists'
  BY DEF BackendInv, MarksMatchLists
<1> QED BY <1>16, <1>17, <1>18, <1>19 DEF BackendInv, BlocksStep

LEMMA BumpAllocStep ==
  ASSUME BackendInv, NEW t \in Thread, BumpAlloc(t)
  PROVE  BackendInv'
<1> DEFINE n == op[t].n
<1>1. /\ op[t].at = "scan" /\ held' = held \cup {<<bump'.top, n>>}
      /\ Return(t) /\ UNCHANGED <<list, mark>>
  BY DEF BumpAlloc, At
<1>2. CASE /\ ~ BumpShort(n) /\ mapped' = mapped
           /\ bump' = [bump EXCEPT !.top = @ - n]
  BY <1>1, <1>2, BumpCutStep
<1>3. CASE /\ BumpShort(n)
           /\ \E s \in RegionStarts :
                /\ bump' = [low |-> s, top |-> s + Region - n]
                /\ mapped' = BumpInit(s)
  BY <1>1, <1>3, BumpInitStep
<1> QED BY <1>2, <1>3 DEF BumpAlloc

-----------------------------------------------------------------------------
(***************************************************************************)
(* The invariant, and what follows from it.                                *)
(***************************************************************************)
LEMMA InitHolds == Init => BackendInv
<1> SUFFICES ASSUME Init PROVE BackendInv
  OBVIOUS
<1>1. BackendMaxPage \in Nat /\ Region \in Nat BY BackendAssumption
<1>2. Types
  <2>1. Idle \in Calls BY DEF Calls, Idle
  <2>2. <<>> \in Seq(Page) /\ 0 \in 0 .. BackendMaxPage BY <1>1
  <2> QED BY <2>1, <2>2 DEF Init, Types
<1>3. \A k \in Index : list[k] = <<>> /\ Range(list[k]) = {}
  <2>1. Range(<<>>) = {} BY DEF Range
  <2> QED BY <2>1 DEF Init
<1>4. NoSharing(list)
  <2>1. IsInjective(<<>>) BY DEF IsInjective
  <2> QED BY <2>1, <1>2, <1>3 DEF NoSharing, Disjoint, Types
<1>5. \A t \in Thread : op[t].at = "idle" BY DEF Init, Idle
<1>6. BumpBlock[1] = Bump /\ BumpBlock[2] = 0 /\ BumpBlock[3] = 0
  <2>1. bump.low = 0 /\ bump.top = 0 BY DEF Init
  <2> QED BY <2>1 DEF BumpBlock
<1>7. \A b \in Blocks : b = BumpBlock
  <2>1. HeldBlocks = {} BY DEF HeldBlocks, Init
  <2>2. \A b : b \notin Listed BY <1>3, ListedAre
  <2>3. \A b : b \notin CallBlocks BY <1>5, InFlightIs DEF CallBlocks
  <2> QED BY <2>1, <2>2, <2>3, BlocksAre
<1>8. P(BumpBlock) = {}
  <2>1. \A p : p \notin P(BumpBlock)
    <3> DEFINE b == BumpBlock
    <3>1. b[2] = 0 /\ b[3] = 0 BY <1>6
    <3> HIDE DEF b
    <3>2. \A p : p \in P(b) <=> p \in Int /\ 0 <= p /\ p < 0 + 0
      BY <3>1, InBlock
    <3> QED BY <3>2 DEF b
  <2> QED BY <2>1
<1>9. BlocksAreSound
  <2>1. Sound(BumpBlock) BY <1>6, <1>8 DEF Sound, IsMapped
  <2> QED BY <2>1, <1>7 DEF BlocksAreSound
<1>10. mapped = {} BY DEF Init
<1>11. Tiles(Blocks, mapped) BY <1>7, <1>10 DEF Tiles
<1>12. MarksMatchLists
  <2>1. \A p \in Page : mark[p] = 0 BY DEF Init
  <2>2. \A k \in Index : k # 0 BY DEF Index
  <2> QED BY <2>1, <2>2, <1>3 DEF MarksMatchLists
<1>13. CallsInv BY <1>5 DEF CallsInv, CallInv, Freeing, Linking
<1> QED BY <1>2, <1>4, <1>9, <1>10, <1>11, <1>12, <1>13
        DEF BackendInv, LowUnmapped

LEMMA StutterHolds ==
  ASSUME BackendInv, UNCHANGED vars
  PROVE  BackendInv'
<1>1. /\ held' = held /\ list' = list /\ mark' = mark /\ bump' = bump
      /\ mapped' = mapped /\ op' = op
  BY DEF vars
<1>2. \A t \in Thread : InFlight(t)' = InFlight(t) BY <1>1 DEF InFlight, At
<1>3. Blocks' = Blocks
  <2>1. HeldBlocks' = HeldBlocks /\ Listed' = Listed
    BY <1>1 DEF HeldBlocks, Held, Listed
  <2>2. CallBlocks' = CallBlocks BY <1>2 DEF CallBlocks
  <2>3. BumpBlock' = BumpBlock BY <1>1, BumpStays
  <2>4. \A b : b \in Blocks' <=> b \in Blocks
    BY <2>1, <2>2, <2>3, BlocksAre, BlocksAreNext
  <2> QED BY <2>4
<1>4. Types' BY <1>1 DEF BackendInv, Types
<1>5. BlocksAreSound' /\ Tiles(Blocks, mapped)' /\ LowUnmapped'
  BY <1>1, <1>3 DEF BackendInv, BlocksAreSound, Sound, IsMapped, Failed, Tiles,
                    LowUnmapped
<1>6. NoSharing(list)' /\ MarksMatchLists'
  BY <1>1 DEF BackendInv, MarksMatchLists
<1>7. \A s : Starts(s) => Starts(s)' BY <1>1, <1>3 DEF Starts, Short
<1>8. CallsInv'
  <2>1. ASSUME NEW t \in Thread PROVE CallInv(t)'
    <3>1. CallInv(t) BY DEF BackendInv, CallsInv
    <3> QED BY <1>1, <1>7, <3>1 DEF CallInv
  <2> QED BY <2>1 DEF CallsInv
<1> QED BY <1>4, <1>5, <1>6, <1>8 DEF BackendInv

\* Every step keeps the invariant: alloc and free, whatever the other calls
\* do between their critical sections.
LEMMA StepHolds ==
  ASSUME ~ SelfLinks, BackendInv, [Next]_vars
  PROVE  BackendInv'
<1>1. CASE UNCHANGED vars BY <1>1, StutterHolds
<1>2. CASE Next
  <2>1. PICK t \in Thread :
          \/ \E n \in Request : Alloc(t, n)
          \/ ScanOn(t) \/ TakeExact(t) \/ TakeParent(t) \/ SplitParent(t)
          \/ BumpAlloc(t) \/ NoSpace(t)
          \/ \E b \in held : Free(t, b)
          \/ ReadPrev(t) \/ JoinPrev(t) \/ CombinePrev(t)
          \/ ReadNext(t) \/ JoinNext(t) \/ CombineNext(t)
          \/ PutBack(t) \/ Unmap(t)
    BY <1>2 DEF Next
  <2>2. ASSUME NEW n \in Request, Alloc(t, n) PROVE BackendInv'
    BY <2>2, AllocStep
  <2>3. CASE ScanOn(t) BY <2>3, ScanOnStep
  <2>4. CASE TakeExact(t) BY <2>4, TakeExactStep
  <2>5. CASE TakeParent(t) BY <2>5, TakeParentStep
  <2>6. CASE SplitParent(t) BY <2>6, SplitParentStep
  <2>7. CASE BumpAlloc(t) BY <2>7, BumpAllocStep
  <2>8. CASE NoSpace(t) BY <2>8, StutterHolds DEF NoSpace
  <2>9. ASSUME NEW b \in held, Free(t, b) PROVE BackendInv'
    BY <2>9, FreeStep
  <2>10. CASE ReadPrev(t) BY <2>10, ReadPrevStep
  <2>11. CASE JoinPrev(t) BY <2>11, JoinPrevStep
  <2>12. CASE ReadNext(t) BY <2>12, ReadNextStep
  <2>13. CASE JoinNext(t) BY <2>13, JoinNextStep
  <2>14. CASE PutBack(t) BY <2>14, PutBackStep
  <2>15. CASE Unmap(t) BY <2>15, UnmapStep
  <2>16. CASE CombinePrev(t) BY <2>16, CombinePrevStep
  <2>17. CASE CombineNext(t) BY <2>17, CombineNextStep
  <2> QED BY <2>1, <2>2, <2>3, <2>4, <2>5, <2>6, <2>7, <2>8, <2>9, <2>10,
             <2>11, <2>12, <2>13, <2>14, <2>15, <2>16, <2>17
<1> QED BY <1>1, <1>2

\* The invariant of the page backend holds in every state, whether or not mmap
\* fails, as long as no page of the program holds its own address where
\* remove_spec_one looks for a next field.
THEOREM BackendInvariant ==
  ASSUME ~ SelfLinks
  PROVE  Spec => []BackendInv
<1>1. BackendInv /\ [Next]_vars => BackendInv' BY StepHolds
<1> QED BY <1>1, InitHolds, PTL DEF Spec

\* No two owners share a mapped page and no mapped page is lost, in every
\* interleaving of FreeList::alloc and FreeList::free, under the same condition.
THEOREM BlocksAlwaysTile ==
  ASSUME ~ SelfLinks
  PROVE  Spec => []BlocksTileMemory
<1>1. BackendInv => BlocksTileMemory
  BY DEF BackendInv, Tiles, BlocksTileMemory, P
<1> QED BY <1>1, BackendInvariant, PTL

\* The radix tree marks exactly the ends of the listed blocks, with their
\* sizes: remove_one and insert_one keep list and marks together, and
\* remove_spec_one clears no mark under the same condition.
THEOREM MarksAlwaysMatch ==
  ASSUME ~ SelfLinks
  PROVE  Spec => []MarksMatchLists
<1>1. BackendInv => MarksMatchLists BY DEF BackendInv
<1> QED BY <1>1, BackendInvariant, PTL

\* remove_spec_one reads links in mapped memory, although the block may have
\* left its list since its mark was read, under the same condition: it is at
\* most a block of the program, or a part of it that begins at the same page.
THEOREM LinksAreReadInMappedMemory ==
  ASSUME ~ SelfLinks
  PROVE  Spec => []LinksReadAreMapped
<1>1. BackendInv => LinksReadAreMapped
  <2> SUFFICES ASSUME BackendInv, NEW t \in Thread
               PROVE  /\ At(t, "linkPrev") => op[t].ptr - op[t].idx \in mapped
                      /\ At(t, "linkNext") => op[t].ptr + op[t].n \in mapped
    BY DEF LinksReadAreMapped
  <2>1. CallInv(t) BY DEF BackendInv, CallsInv
  <2> QED BY <2>1 DEF CallInv, At, Starts
<1> QED BY <1>1, BackendInvariant, PTL

-----------------------------------------------------------------------------
(***************************************************************************)
(* The promise to slabs and large requests, if mmap does not fail.         *)
(***************************************************************************)
\* All blocks are mapped then.
LEMMA AllMapped ==
  ASSUME BackendInv, ~ MmapFails, NEW b \in Blocks
  PROVE  P(b) \subseteq mapped
  BY DEF BackendInv, BlocksAreSound, Sound, Failed, IsMapped

LEMMA HeldBlock ==
  ASSUME BackendInv, NEW u \in held
  PROVE  <<Held, u[1], u[2]>> \in Blocks
  BY BlocksAre DEF HeldBlocks

\* What the program gets lies in a block it did not have, or in new memory.
LEMMA HandsOut ==
  ASSUME BackendInv, ~ MmapFails, NEW s \in Nat, NEW n \in Request,
         held' = held \cup {<<s, n>>}, Pages(s, n) \subseteq Page,
         \/ \E a \in Blocks : a[1] # Held /\ Pages(s, n) \subseteq P(a)
         \/ Disjoint(Pages(s, n), mapped)
  PROVE  Contract!Alloc
<1>1. n \in Nat /\ n >= 1 BY RequestNat
<1>2. s \in Page
  <2>1. s \in Pages(s, n) BY <1>1 DEF Pages
  <2> QED BY <2>1
<1>3. ASSUME NEW u \in held PROVE Disjoint(Pages(s, n), Pages(u[1], u[2]))
  <2> DEFINE b == <<Held, u[1], u[2]>>
  <2>1. b \in Blocks /\ P(b) = Pages(u[1], u[2]) /\ b[1] = Held
    BY HeldBlock DEF P
  <2> HIDE DEF b
  <2>2. P(b) \subseteq mapped BY <2>1, AllMapped
  <2>3. CASE Disjoint(Pages(s, n), mapped) BY <2>1, <2>2, <2>3 DEF Disjoint
  <2>4. ASSUME NEW a \in Blocks, a[1] # Held, Pages(s, n) \subseteq P(a)
        PROVE  Disjoint(Pages(s, n), Pages(u[1], u[2]))
    <3>1. P(a) \subseteq mapped BY AllMapped
    <3>2. Disjoint(P(a) \cap mapped, P(b) \cap mapped)
      BY <2>1, <2>4 DEF BackendInv, Tiles
    <3> QED BY <2>1, <2>2, <2>4, <3>1, <3>2 DEF Disjoint
  <2> QED BY <2>3, <2>4
<1> DEFINE e == <<s, n>>
<1>4. e \in Page \X Request /\ e[1] = s /\ e[2] = n BY <1>2
<1>5. held' = held \cup {e} OBVIOUS
<1> HIDE DEF e
<1>6. \A u \in held : ~ PagesOverlap(e, u)
  BY <1>3, <1>4 DEF PagesOverlap
<1> QED BY <1>4, <1>5, <1>6 DEF Contract!Alloc

LEMMA TakeExactAllocs ==
  ASSUME BackendInv, ~ MmapFails, NEW t \in Thread, TakeExact(t)
  PROVE  Contract!Alloc
<1> DEFINE k == op[t].idx  s == Head(list[k])
<1>1. /\ op[t].n \in Request /\ k = op[t].n /\ k <= BackendMaxPage
      /\ list[k] # <<>> /\ held' = held \cup {<<s, k>>}
  BY DEF BackendInv, CallsInv, CallInv, TakeExact, At
<1> HIDE DEF k
<1>2. k \in Request /\ k \in Index
  <2>1. k \in Nat /\ k >= 1 BY <1>1, RequestNat
  <2> QED BY <1>1, <2>1, BackendAssumption DEF Index
<1>3. /\ s \in Nat /\ <<List, s, k>> \in Blocks
      /\ P(<<List, s, k>>) \subseteq mapped
  BY <1>1, <1>2, HeadBlock
<1> HIDE DEF s
<1>4. Pages(s, k) = P(<<List, s, k>>) BY DEF P
<1>5. Pages(s, k) \subseteq Page
  BY <1>3, <1>4 DEF BackendInv, Types
<1>6. <<List, s, k>>[1] # Held BY OwnersDiffer
<1> QED BY <1>1, <1>2, <1>3, <1>4, <1>5, <1>6, HandsOut

LEMMA SplitParentAllocs ==
  ASSUME BackendInv, ~ MmapFails, NEW t \in Thread, SplitParent(t)
  PROVE  Contract!Alloc
<1> DEFINE s == op[t].ptr  k == op[t].idx  n == op[t].n
           a == <<CallOf(t), s, k>>
<1>1. /\ op[t].at = "split" /\ held' = held \cup {<<s, n>>}
      /\ n \in Request /\ k \in Nat /\ n < k /\ s \in Nat
  BY DEF BackendInv, Types, Calls, CallsInv, CallInv, SplitParent, At
<1>2. a \in Blocks BY <1>1, InFlightIs, BlocksAre DEF CallBlocks
<1>3. a[1] # Held /\ a[2] = s /\ a[3] = k BY OwnersDiffer
<1> HIDE DEF s, n, k, a
<1>4. Pages(s, n) \subseteq P(a)
  <2>1. n \in Nat BY <1>1, RequestNat
  <2> QED BY <1>1, <1>3, <2>1 DEF P, Pages
<1>5. Pages(s, n) \subseteq Page
  BY <1>2, <1>4, AllMapped DEF BackendInv, Types
<1> QED BY <1>1, <1>2, <1>3, <1>4, <1>5, HandsOut

LEMMA BumpAllocAllocs ==
  ASSUME BackendInv, ~ MmapFails, NEW t \in Thread, BumpAlloc(t)
  PROVE  Contract!Alloc
<1> DEFINE n == op[t].n
<1>1. /\ n \in Request /\ held' = held \cup {<<bump'.top, n>>}
  BY DEF BackendInv, CallsInv, CallInv, BumpAlloc, At
<1>2. n \in Nat /\ n >= 1 /\ n <= Region /\ Region \in Nat
  BY <1>1, RequestNat, BackendAssumption
<1>3. CASE /\ ~ BumpShort(n) /\ bump' = [bump EXCEPT !.top = @ - n]
  <2> HIDE DEF n
  <2>1. PICK low \in Nat, top \in Nat : bump.low = low /\ bump.top = top
    BY DEF BackendInv, Types
  <2>2. low + n <= top BY <1>2, <1>3, <2>1 DEF BumpShort
  <2>3. bump'.top = top - n BY <1>3, <2>1 DEF BackendInv, Types
  <2> DEFINE a == BumpBlock
  <2>4. /\ a \in Blocks /\ a[1] # Held /\ a[2] = low /\ a[3] = top - low
    BY <2>1, BlocksAre, OwnersDiffer DEF BumpBlock
  <2> HIDE DEF a
  <2>5. top - n \in Nat /\ top - low \in Nat BY <1>2, <2>2
  <2>6. Pages(top - n, n) \subseteq P(a)
    <3>1. \A p : p \in P(a) <=> p \in Int /\ low <= p /\ p < low + (top - low)
      BY <2>4, <2>5, InBlock
    <3>2. \A p \in Pages(top - n, n) : p \in Int /\ top - n <= p /\ p < top
      BY <1>2, <2>1 DEF Pages
    <3> QED BY <1>2, <2>2, <3>1, <3>2
  <2>7. Pages(top - n, n) \subseteq Page
    BY <2>4, <2>6, AllMapped DEF BackendInv, Types
  <2> QED BY <1>1, <2>3, <2>4, <2>5, <2>6, <2>7, HandsOut
<1>4. ASSUME NEW s \in RegionStarts,
             bump' = [low |-> s, top |-> s + Region - n]
      PROVE  Contract!Alloc
  <2> HIDE DEF n
  <2>1. /\ s \in Nat /\ Disjoint(Pages(s, Region), mapped)
        /\ Pages(s, Region) \subseteq Page
    BY RegionIsNew
  <2>2. bump'.top = s + Region - n /\ s + Region - n \in Nat
    BY <1>2, <1>4, <2>1
  <2> DEFINE v == s + Region - n
  <2>3. \A p \in Pages(v, n) : p \in Pages(s, Region)
    BY <1>2, <2>1 DEF Pages
  <2>4. held' = held \cup {<<v, n>>} /\ v \in Nat BY <1>1, <2>2
  <2>5. Disjoint(Pages(v, n), mapped) /\ Pages(v, n) \subseteq Page
    BY <2>1, <2>3 DEF Disjoint
  <2> HIDE DEF v
  <2> QED BY <1>1, <2>4, <2>5, HandsOut
<1> QED BY <1>3, <1>4 DEF BumpAlloc

\* What alloc returns is mapped, if mmap does not fail and no page of the
\* program holds its own address as a next field.
THEOREM HeldBlocksAreMapped ==
  ASSUME ~ SelfLinks, ~ MmapFails
  PROVE  Spec => []HeldIsMapped
<1>1. BackendInv => HeldIsMapped
  <2> SUFFICES ASSUME BackendInv, NEW b \in held
               PROVE  Pages(b[1], b[2]) \subseteq mapped
    BY DEF HeldIsMapped
  <2>1. <<Held, b[1], b[2]>> \in Blocks BY HeldBlock
  <2> QED BY <2>1, AllMapped DEF P
<1> QED BY <1>1, BackendInvariant, PTL

\* A step of the page backend is a step of the contract or leaves the blocks
\* of the program alone.
LEMMA ContractStep ==
  ASSUME BackendInv, ~ MmapFails, [Next]_vars
  PROVE  [Contract!Next]_held
<1>1. CASE UNCHANGED vars BY <1>1 DEF vars
<1>2. CASE Next
  <2>1. PICK t \in Thread :
          \/ \E n \in Request : Alloc(t, n)
          \/ ScanOn(t) \/ TakeExact(t) \/ TakeParent(t) \/ SplitParent(t)
          \/ BumpAlloc(t) \/ NoSpace(t)
          \/ \E b \in held : Free(t, b)
          \/ ReadPrev(t) \/ JoinPrev(t) \/ CombinePrev(t)
          \/ ReadNext(t) \/ JoinNext(t) \/ CombineNext(t)
          \/ PutBack(t) \/ Unmap(t)
    BY <1>2 DEF Next
  <2>2. CASE TakeExact(t) \/ SplitParent(t) \/ BumpAlloc(t)
    BY <2>2, TakeExactAllocs, SplitParentAllocs, BumpAllocAllocs
       DEF Contract!Next
  <2>3. ASSUME NEW b \in held, Free(t, b) PROVE Contract!Next
    BY <2>3 DEF Free, Contract!Next, Contract!Dealloc
  <2>4. CASE (\E n \in Request : Alloc(t, n)) \/ ScanOn(t) \/ TakeParent(t)
    BY <2>4 DEF Alloc, ScanOn, TakeParent
  <2>5. CASE NoSpace(t) \/ PutBack(t) \/ Unmap(t)
    BY <2>5 DEF NoSpace, PutBack, Unmap, vars
  <2>6. CASE ReadPrev(t) \/ JoinPrev(t) \/ ReadNext(t) \/ JoinNext(t)
    BY <2>6 DEF ReadPrev, JoinPrev, ReadNext, JoinNext
  <2>7. CASE CombinePrev(t) \/ CombineNext(t)
    BY <2>7 DEF CombinePrev, CombineNext
  <2> QED BY <2>1, <2>2, <2>3, <2>4, <2>5, <2>6, <2>7
<1> QED BY <1>1, <1>2

\* FreeList::alloc returns pages that nobody has, and FreeList::free takes back
\* only what was handed out, if mmap does not fail and no page of the program
\* holds its own address as a next field.
THEOREM BackendImplementsContract ==
  ASSUME ~ SelfLinks, ~ MmapFails
  PROVE  Spec => ImplementsContract
<1>1. Init => Contract!Init BY DEF Init, Contract!Init
<1>2. BackendInv /\ [Next]_vars => [Contract!Next]_held BY ContractStep
<1> QED BY <1>1, <1>2, BackendInvariant, PTL
        DEF ImplementsContract, Contract!Spec, Spec

-----------------------------------------------------------------------------
(***************************************************************************)
(* The buddy heap.  Its tree keeps at every node what its children give    *)
(* (Kept), from which it follows what every node says of the blocks in use *)
(* (Right), the way down to a free block (WalkFinds), and that taking and  *)
(* giving back a node keep the tree (Taking, Giving).                      *)
(*                                                                         *)
(* First the powers of two.                                                *)
(***************************************************************************)
LEMMA Powers ==
  /\ TwoTo[0] = 1 /\ \A k \in 0 .. Width : TwoTo[k] \in Nat \ {0}
  /\ \A k \in 0 .. Width - 1 : TwoTo[k + 1] = 2 * TwoTo[k]
<1>0. Width \in Nat BY BuddyAssumption
<1> DEFINE S == Nat \ {0}
           g == [x \in (1 .. Width) \X S |-> 2 * x[2]]
<1>1. g \in [(1 .. Width) \X S -> S] OBVIOUS
<1>2. PICK f : Follows(f, Width, S, 1, g)
  <2> HIDE DEF g, S
  <2>1. 1 \in S BY DEF S
  <2> QED BY <1>0, <1>1, <2>1, Recursion
<1>3. \A k \in 1 .. Width : f[k - 1] \in S BY <1>0, <1>2 DEF Follows
<1>4. f[0] = 1 /\ \A k \in 1 .. Width : f[k] = 2 * f[k - 1] BY <1>2, <1>3 DEF Follows
<1>5. f = [k \in 0 .. Width |-> IF k = 0 THEN 1 ELSE 2 * f[k - 1]]
  <2>1. ASSUME NEW k \in 0 .. Width PROVE f[k] = IF k = 0 THEN 1 ELSE 2 * f[k - 1]
    <3>1. CASE k = 0 BY <1>4, <3>1
    <3>2. CASE k # 0
      <4>1. k \in 1 .. Width BY <1>0, <3>2
      <4> QED BY <1>4, <3>2, <4>1
    <3> QED BY <3>1, <3>2
  <2> QED BY <1>2, <2>1 DEF Follows
<1>6. TwoTo = [k \in 0 .. Width |-> IF k = 0 THEN 1 ELSE 2 * TwoTo[k - 1]] BY <1>5 DEF TwoTo
<1> HIDE DEF S, g
<1>7. TwoTo[0] = 1 BY <1>0, <1>6
<1>8. ASSUME NEW k \in 0 .. Width - 1 PROVE TwoTo[k + 1] = 2 * TwoTo[k]
  <2>1. k + 1 \in 0 .. Width /\ k + 1 # 0 /\ (k + 1) - 1 = k BY <1>0
  <2> QED BY <1>6, <2>1
<1> DEFINE T == {k \in 0 .. Width : TwoTo[k] \in Nat \ {0}}
<1>9. 0 \in T BY <1>0, <1>7
<1>10. ASSUME NEW k \in 0 .. Width - 1, k \in T PROVE k + 1 \in T
  <2>1. k + 1 \in 0 .. Width BY <1>0
  <2>2. TwoTo[k + 1] = 2 * TwoTo[k] /\ TwoTo[k] \in Nat \ {0} BY <1>8, <1>10
  <2> QED BY <2>1, <2>2
<1> HIDE DEF T
<1>11. 0 .. Width \subseteq T BY <1>0, <1>9, <1>10, Upwards
<1> QED BY <1>7, <1>8, <1>11 DEF T

LEMMA PowerSum ==
  ASSUME NEW a \in 0 .. Width, NEW b \in 0 .. Width - a
  PROVE  TwoTo[a + b] = TwoTo[a] * TwoTo[b]
<1> DEFINE T == {k \in 0 .. Width - a : TwoTo[a + k] = TwoTo[a] * TwoTo[k]}
<1>0. Width \in Nat /\ Width - a \in Nat BY BuddyAssumption
<1>1. /\ TwoTo[0] = 1 /\ \A k \in 0 .. Width : TwoTo[k] \in Nat \ {0}
      /\ \A k \in 0 .. Width - 1 : TwoTo[k + 1] = 2 * TwoTo[k]
  BY Powers
<1>2. 0 \in T
  <2>1. TwoTo[a] \in Nat /\ a + 0 = a BY <1>0, <1>1
  <2> QED BY <1>0, <1>1, <2>1
<1>3. ASSUME NEW k \in 0 .. (Width - a) - 1, k \in T PROVE k + 1 \in T
  <2> DEFINE x == TwoTo[a]
             y == TwoTo[k]
  <2>1. /\ k \in 0 .. Width - 1 /\ a + k \in 0 .. Width - 1 /\ (a + k) + 1 = a + (k + 1)
        /\ k + 1 \in 0 .. Width - a /\ k \in 0 .. Width
    BY <1>0
  <2>2. TwoTo[a + (k + 1)] = 2 * TwoTo[a + k] /\ TwoTo[k + 1] = 2 * y BY <1>1, <2>1
  <2>3. TwoTo[a + k] = x * y BY <1>3
  <2>4. x \in Nat /\ y \in Nat BY <1>0, <1>1, <2>1
  <2> HIDE DEF x, y
  <2>5. 2 * (x * y) = x * (2 * y) BY <2>4
  <2> QED BY <2>1, <2>2, <2>3, <2>5 DEF x
<1> HIDE DEF T
<1>4. 0 .. Width - a \subseteq T BY <1>0, <1>2, <1>3, Upwards
<1> QED BY <1>4 DEF T

LEMMA PowerRises ==
  ASSUME NEW a \in 0 .. Width, NEW b \in 0 .. Width
  PROVE  /\ a <= b => TwoTo[a] <= TwoTo[b]
         /\ a < b => 2 * TwoTo[a] <= TwoTo[b]
<1>0. Width \in Nat BY BuddyAssumption
<1>1. ASSUME NEW c \in 0 .. Width, NEW d \in 0 .. Width, c <= d PROVE TwoTo[c] <= TwoTo[d]
  <2>1. d - c \in 0 .. Width - c /\ c + (d - c) = d /\ d - c \in 0 .. Width BY <1>0, <1>1
  <2>2. TwoTo[d] = TwoTo[c] * TwoTo[d - c] BY <2>1, PowerSum
  <2> DEFINE x == TwoTo[c]
             y == TwoTo[d - c]
  <2>3. x \in Nat \ {0} /\ y \in Nat \ {0} BY <1>0, <2>1, Powers
  <2> HIDE DEF x, y
  <2>4. x <= x * y BY <2>3
  <2> QED BY <2>2, <2>4 DEF x, y
<1>2. ASSUME a < b PROVE 2 * TwoTo[a] <= TwoTo[b]
  <2>1. a + 1 \in 0 .. Width /\ a + 1 <= b BY <1>0, <1>2
  <2>2. TwoTo[a + 1] <= TwoTo[b] BY <1>1, <2>1
  <2>3. TwoTo[a + 1] = 2 * TwoTo[a]
    <3>1. a \in 0 .. Width - 1 BY <1>0, <1>2
    <3> QED BY <3>1, Powers
  <2> QED BY <2>2, <2>3
<1> QED BY <1>1, <1>2

-----------------------------------------------------------------------------
(***************************************************************************)
(* Nodes and levels.                                                       *)
(***************************************************************************)
AtLevel(n, l) == n \in Nat /\ l \in 0 .. MAX_ORDER /\ TwoTo[l] <= n /\ n < 2 * TwoTo[l]

LEMMA Bounds ==
  /\ MAX_ORDER \in Nat /\ BASE_ORDER \in Nat /\ Width \in Nat
  /\ \A l \in 0 .. MAX_ORDER : l \in 0 .. Width - 1 /\ l \in 0 .. Width /\ l + 1 \in 0 .. Width
  /\ BASE_ORDER + MAX_ORDER < Width - 1
BY BuddyAssumption

LEMMA LevelOf ==
  ASSUME NEW n, NEW l, AtLevel(n, l)
  PROVE  n \in Node /\ Level(n) = l
<1>1. n \in Nat /\ l \in 0 .. MAX_ORDER /\ TwoTo[l] <= n /\ n < 2 * TwoTo[l]
  BY DEF AtLevel
<1>2. /\ MAX_ORDER \in Nat /\ Width \in Nat /\ l \in 0 .. Width /\ l + 1 \in 0 .. Width
      /\ MAX_ORDER \in 0 .. Width /\ MAX_ORDER + 1 \in 0 .. Width /\ l + 1 <= MAX_ORDER + 1
  BY <1>1, Bounds
<1>3. /\ TwoTo[l] \in Nat \ {0} /\ TwoTo[l + 1] = 2 * TwoTo[l]
      /\ TwoTo[l + 1] <= TwoTo[MAX_ORDER + 1] /\ TwoTo[MAX_ORDER + 1] \in Nat \ {0}
  BY <1>2, Powers, PowerRises
<1>4. n \in 1 .. TwoTo[MAX_ORDER + 1] - 1 BY <1>1, <1>3
<1>5. n \in Node BY <1>4 DEF Node
<1> DEFINE Is(k) == TwoTo[k] <= n /\ n < TwoTo[k + 1]
<1>6. ASSUME NEW k \in 0 .. MAX_ORDER, Is(k) PROVE k = l
  <2>1. k \in 0 .. Width /\ TwoTo[k] \in Nat /\ TwoTo[k + 1] = 2 * TwoTo[k]
    BY <1>2, Bounds, Powers
  <2>2. k < l => 2 * TwoTo[k] <= TwoTo[l] BY <1>2, <2>1, PowerRises
  <2>3. l < k => 2 * TwoTo[l] <= TwoTo[k] BY <1>2, <2>1, PowerRises
  <2>4. ~ (k < l) /\ ~ (l < k) BY <1>1, <1>3, <1>6, <2>1, <2>2, <2>3
  <2> QED BY <1>1, <2>4
<1>7. Is(l) BY <1>1, <1>3
<1>8. Level(n) = CHOOSE k \in 0 .. MAX_ORDER : Is(k) BY DEF Level
<1> HIDE DEF Is
<1>9. Level(n) = l BY <1>1, <1>6, <1>7, <1>8
<1> QED BY <1>5, <1>9

LEMMA NodeLevel ==
  ASSUME NEW n \in Node
  PROVE  AtLevel(n, Level(n))
<1>0. MAX_ORDER \in Nat /\ Width \in Nat BY Bounds
<1>1. n \in 1 .. TwoTo[MAX_ORDER + 1] - 1 /\ MAX_ORDER \in 0 .. MAX_ORDER
  BY <1>0 DEF Node
<1>2. MAX_ORDER + 1 \in 0 .. Width /\ TwoTo[MAX_ORDER + 1] \in Nat
  BY <1>1, Bounds, Powers
<1>3. n \in Nat \ {0} /\ n < TwoTo[MAX_ORDER + 1] BY <1>1, <1>2
<1> DEFINE T == {k \in 0 .. MAX_ORDER : n < TwoTo[k + 1]}
<1>4. T # {} /\ T \in SUBSET Nat BY <1>1, <1>3
<1>5. PICK l \in T : \A k \in T : l <= k
  <2> HIDE DEF T
  <2> QED BY <1>4, Smallest
<1>6. l \in 0 .. Width /\ TwoTo[l] \in Nat \ {0} /\ TwoTo[l + 1] = 2 * TwoTo[l]
  <2>1. l \in 0 .. Width /\ l \in 0 .. Width - 1 BY Bounds
  <2> QED BY <1>0, <2>1, Powers
<1>7. TwoTo[l] <= n
  <2>1. CASE l = 0
    <3>1. TwoTo[0] = 1 BY Powers
    <3> QED BY <1>3, <2>1, <3>1
  <2>2. CASE l # 0
    <3>1. l - 1 \in 0 .. MAX_ORDER /\ (l - 1) + 1 = l /\ ~ (l <= l - 1) BY <1>0, <2>2
    <3>2. l - 1 \notin T BY <1>5, <3>1
    <3>3. ~ (n < TwoTo[l]) BY <3>1, <3>2
    <3> QED BY <1>3, <1>6, <3>3
  <2> QED BY <2>1, <2>2
<1>8. AtLevel(n, l) BY <1>3, <1>6, <1>7 DEF AtLevel
<1> QED BY <1>8, LevelOf

\* The parent and the children.
LEMMA Parent ==
  ASSUME NEW n \in Node, n # 1
  PROVE  /\ n \div 2 \in Node /\ Level(n \div 2) = Level(n) - 1 /\ Level(n) # 0
         /\ n = 2 * (n \div 2) \/ n = 2 * (n \div 2) + 1
<1> DEFINE l == Level(n)
           p == n \div 2
<1>1. n \in Nat /\ l \in 0 .. MAX_ORDER /\ TwoTo[l] <= n /\ n < 2 * TwoTo[l]
  BY NodeLevel DEF AtLevel
<1> HIDE DEF l
<1>2. l # 0
  <2>1. TwoTo[0] = 1 BY Powers
  <2> QED BY <1>1, <2>1
<1>3. l - 1 \in 0 .. MAX_ORDER /\ (l - 1) + 1 = l /\ l - 1 \in 0 .. Width
  BY <1>1, <1>2, Bounds
<1>4. TwoTo[l] = 2 * TwoTo[l - 1] /\ TwoTo[l - 1] \in Nat BY <1>3, Powers, Bounds
<1>5. p \in Nat /\ (n = 2 * p \/ n = 2 * p + 1) BY <1>1
<1> HIDE DEF p
<1>6. TwoTo[l - 1] <= p /\ p < 2 * TwoTo[l - 1] BY <1>1, <1>4, <1>5
<1>7. AtLevel(p, l - 1) BY <1>3, <1>5, <1>6 DEF AtLevel
<1>8. p \in Node /\ Level(p) = l - 1 BY <1>7, LevelOf
<1> QED BY <1>2, <1>5, <1>8 DEF l, p

LEMMA Root ==
  1 \in Node /\ Level(1) = 0
<1>1. AtLevel(1, 0)
  <2>1. TwoTo[0] = 1 /\ MAX_ORDER \in Nat BY Powers, Bounds
  <2> QED BY <2>1 DEF AtLevel
<1> QED BY <1>1, LevelOf

LEMMA Children ==
  ASSUME NEW n \in Node, Level(n) < MAX_ORDER,
         NEW c \in {2 * n, 2 * n + 1}
  PROVE  /\ c \in Node /\ Level(c) = Level(n) + 1 /\ c \div 2 = n /\ c # 1 /\ c # n
<1> DEFINE l == Level(n)
<1>1. n \in Nat /\ l \in 0 .. MAX_ORDER /\ TwoTo[l] <= n /\ n < 2 * TwoTo[l]
  BY NodeLevel DEF AtLevel
<1>2. l < MAX_ORDER OBVIOUS
<1> HIDE DEF l
<1>3. l + 1 \in 0 .. MAX_ORDER /\ l \in 0 .. Width BY <1>1, <1>2, Bounds
<1>4. TwoTo[l + 1] = 2 * TwoTo[l] /\ TwoTo[l] \in Nat \ {0} BY <1>3, Powers, Bounds
<1>5. c \in Nat /\ c \div 2 = n /\ c # 1 /\ c # n BY <1>1, <1>4
<1>6. TwoTo[l + 1] <= c /\ c < 2 * TwoTo[l + 1] BY <1>1, <1>4
<1>7. AtLevel(c, l + 1) BY <1>3, <1>5, <1>6 DEF AtLevel
<1>8. c \in Node /\ Level(c) = l + 1 BY <1>7, LevelOf
<1> QED BY <1>5, <1>8 DEF l

\* The node j levels above.
Up(n, j) == n \div TwoTo[j]

LEMMA UpIs ==
  ASSUME NEW n \in Node, NEW j \in 0 .. Level(n)
  PROVE  Up(n, j) \in Node /\ Level(Up(n, j)) = Level(n) - j
<1> DEFINE l == Level(n)
           p == TwoTo[j]
           q == n \div p
           r == n % p
           k == l - j
           w == TwoTo[k]
<1>1. n \in Nat /\ l \in 0 .. MAX_ORDER /\ TwoTo[l] <= n /\ n < 2 * TwoTo[l]
  BY NodeLevel DEF AtLevel
<1>2. j \in 0 .. l OBVIOUS
<1> HIDE DEF l
<1>3. /\ j \in 0 .. Width /\ k \in 0 .. MAX_ORDER /\ k \in 0 .. Width - j /\ k \in 0 .. Width
      /\ j + k = l
  BY <1>1, <1>2, Bounds
<1>4. TwoTo[l] = p * w BY <1>3, PowerSum
<1>5. p \in Nat \ {0} /\ w \in Nat \ {0} BY <1>3, Powers, Bounds
<1> HIDE DEF p, w, k
<1>6. q \in Nat /\ r \in 0 .. p - 1 /\ n = p * q + r BY <1>1, <1>5, Division
<1> HIDE DEF q, r
<1>7. w <= q
  <2> SUFFICES ASSUME q + 1 <= w PROVE FALSE BY <1>5, <1>6
  <2>1. p * (q + 1) <= p * w BY <1>5, <1>6
  <2>2. p * (q + 1) = p * q + p /\ p * q \in Nat /\ p * w \in Nat BY <1>5, <1>6
  <2> QED BY <1>1, <1>4, <1>5, <1>6, <2>1, <2>2
<1>8. q < 2 * w
  <2> SUFFICES ASSUME 2 * w <= q PROVE FALSE BY <1>5, <1>6
  <2>1. p * (2 * w) <= p * q BY <1>5, <1>6
  <2>2. p * (2 * w) = 2 * (p * w) /\ p * q \in Nat /\ p * w \in Nat BY <1>5, <1>6
  <2> QED BY <1>1, <1>4, <1>5, <1>6, <2>1, <2>2
<1>9. AtLevel(q, k) BY <1>3, <1>6, <1>7, <1>8 DEF AtLevel, w
<1>10. q \in Node /\ Level(q) = k BY <1>9, LevelOf
<1> QED BY <1>10 DEF q, p, k, l, Up

\* Going up in two steps.
LEMMA UpTwice ==
  ASSUME NEW n \in Node, NEW i \in 0 .. Level(n), NEW j \in 0 .. Level(n) - i
  PROVE  Up(Up(n, i), j) = Up(n, i + j)
<1>1. n \in Nat /\ Level(n) \in 0 .. MAX_ORDER BY NodeLevel DEF AtLevel
<1>2. i \in 0 .. Width /\ j \in 0 .. Width - i /\ j \in 0 .. Width BY <1>1, Bounds
<1>3. TwoTo[i + j] = TwoTo[i] * TwoTo[j] BY <1>2, PowerSum
<1>4. TwoTo[i] \in Nat \ {0} /\ TwoTo[j] \in Nat \ {0} BY <1>2, Powers, Bounds
<1> QED BY <1>1, <1>3, <1>4, DivideTwice DEF Up

-----------------------------------------------------------------------------
LEMMA BelowIs ==
  ASSUME NEW n \in Node, NEW m \in Node
  PROVE  /\ IsBelow(n, m) <=> Level(m) <= Level(n) /\ Up(n, Level(n) - Level(m)) = m
         /\ Level(n) \in 0 .. MAX_ORDER /\ Level(m) \in 0 .. MAX_ORDER
         /\ Level(n) \in Nat /\ Level(m) \in Nat /\ n \in Nat /\ m \in Nat
         /\ Up(n, 0) = n
<1>1. /\ n \in Nat /\ m \in Nat /\ Level(n) \in 0 .. MAX_ORDER /\ Level(m) \in 0 .. MAX_ORDER
  BY NodeLevel DEF AtLevel
<1>2. IsBelow(n, m) <=> Level(n) >= Level(m) /\ Up(n, Level(n) - Level(m)) = m
  BY DEF IsBelow, Up
<1>3. n \div 1 = n BY <1>1
<1>4. Up(n, 0) = n BY <1>3, Powers DEF Up
<1>5. Level(n) \in Nat /\ Level(m) \in Nat BY <1>1, Bounds
<1> QED BY <1>1, <1>2, <1>4, <1>5

LEMMA BelowSelf ==
  ASSUME NEW n \in Node
  PROVE  IsBelow(n, n)
<1>1. Level(n) - Level(n) = 0 BY BelowIs
<1> QED BY <1>1, BelowIs

LEMMA BelowSameLevel ==
  ASSUME NEW n \in Node, NEW m \in Node, IsBelow(n, m)
  PROVE  /\ Level(n) <= Level(m) => n = m
         /\ n # m => Level(m) < Level(n)
<1>1. Level(n) \in Nat /\ Level(m) \in Nat /\ Level(m) <= Level(n) /\ Up(n, Level(n) - Level(m)) = m
      /\ Up(n, 0) = n
  BY BelowIs
<1>2. ASSUME Level(n) <= Level(m) PROVE n = m
  <2>1. Level(n) - Level(m) = 0 BY <1>1, <1>2
  <2> QED BY <1>1, <2>1
<1> QED BY <1>1, <1>2

LEMMA BelowTrans ==
  ASSUME NEW a \in Node, NEW b \in Node, NEW c \in Node,
         IsBelow(a, b), IsBelow(b, c)
  PROVE  IsBelow(a, c)
<1> DEFINE i == Level(a) - Level(b)
           j == Level(b) - Level(c)
<1>1. /\ Level(a) \in Nat /\ Level(b) \in Nat /\ Level(c) \in Nat
      /\ Level(b) <= Level(a) /\ Level(c) <= Level(b) /\ Up(a, i) = b /\ Up(b, j) = c
  BY BelowIs
<1>2. i \in 0 .. Level(a) /\ j \in 0 .. Level(a) - i /\ i + j = Level(a) - Level(c)
      /\ Level(c) <= Level(a)
  BY <1>1
<1> HIDE DEF i, j
<1>3. Up(a, i + j) = c BY <1>1, <1>2, UpTwice
<1> QED BY <1>2, <1>3, BelowIs

\* What is above a node is one line.
LEMMA BelowLinear ==
  ASSUME NEW n \in Node, NEW a \in Node, NEW b \in Node,
         IsBelow(n, a), IsBelow(n, b)
  PROVE  /\ Level(b) <= Level(a) => IsBelow(a, b)
         /\ IsBelow(a, b) \/ IsBelow(b, a)
<1>1. ASSUME NEW c \in Node, NEW d \in Node, IsBelow(n, c), IsBelow(n, d),
             Level(d) <= Level(c)
      PROVE  IsBelow(c, d)
  <2> DEFINE i == Level(n) - Level(c)
             j == Level(c) - Level(d)
  <2>1. /\ Level(n) \in Nat /\ Level(c) \in Nat /\ Level(d) \in Nat /\ Level(c) <= Level(n)
        /\ Up(n, i) = c /\ Up(n, Level(n) - Level(d)) = d
    BY <1>1, BelowIs
  <2>2. i \in 0 .. Level(n) /\ j \in 0 .. Level(n) - i /\ i + j = Level(n) - Level(d)
    BY <1>1, <2>1
  <2> HIDE DEF i
  <2>3. Up(c, j) = d
    <3> HIDE DEF j
    <3> QED BY <2>1, <2>2, UpTwice
  <2> QED BY <1>1, <2>3, BelowIs
<1>2. Level(a) \in Nat /\ Level(b) \in Nat BY BelowIs
<1> QED BY <1>1, <1>2

LEMMA BelowParent ==
  ASSUME NEW n \in Node, n # 1
  PROVE  /\ IsBelow(n, n \div 2)
         /\ \A m \in Node : IsBelow(n, m) /\ n # m => IsBelow(n \div 2, m)
<1>1. n \div 2 \in Node /\ Level(n \div 2) = Level(n) - 1 /\ Level(n) # 0 BY Parent
<1>2. Level(n) \in Nat BY BelowIs
<1>3. TwoTo[1] = 2
  <2>1. TwoTo[0 + 1] = 2 * TwoTo[0] /\ TwoTo[0] = 1
    <3>1. 0 \in 0 .. Width - 1 BY Bounds
    <3> QED BY <3>1, Powers
  <2> QED BY <2>1
<1>4. Up(n, 1) = n \div 2 BY <1>3 DEF Up
<1>5. IsBelow(n, n \div 2)
  <2>1. Level(n) - Level(n \div 2) = 1 /\ Level(n \div 2) <= Level(n) BY <1>1, <1>2
  <2> QED BY <1>1, <1>4, <2>1, BelowIs
<1>6. ASSUME NEW m \in Node, IsBelow(n, m), n # m PROVE IsBelow(n \div 2, m)
  <2>1. Level(m) < Level(n) /\ Level(m) \in Nat BY <1>6, BelowSameLevel, BelowIs
  <2>2. Level(m) <= Level(n \div 2) BY <1>1, <1>2, <2>1
  <2> QED BY <1>1, <1>5, <1>6, <2>2, BelowLinear
<1> QED BY <1>5, <1>6

LEMMA BelowChild ==
  ASSUME NEW m \in Node, Level(m) < MAX_ORDER,
         NEW c \in {2 * m, 2 * m + 1}
  PROVE  /\ c \in Node /\ Level(c) = Level(m) + 1 /\ c # m /\ IsBelow(c, m) /\ ~ IsBelow(m, c)
         /\ \A n \in Node : IsBelow(c, n) /\ c # n => IsBelow(m, n)
<1>1. c \in Node /\ Level(c) = Level(m) + 1 /\ c \div 2 = m /\ c # 1 /\ c # m BY Children
<1>2. IsBelow(c, m) /\ \A n \in Node : IsBelow(c, n) /\ c # n => IsBelow(m, n)
  BY <1>1, BelowParent
<1>3. ~ IsBelow(m, c) BY <1>1, BelowIs
<1> QED BY <1>1, <1>2, <1>3

\* Below a node is below one of its children.
LEMMA BelowOneChild ==
  ASSUME NEW n \in Node, NEW m \in Node, IsBelow(n, m), n # m
  PROVE  Level(m) < MAX_ORDER /\ (IsBelow(n, 2 * m) \/ IsBelow(n, 2 * m + 1))
<1> DEFINE k == Level(n) - Level(m)
           c == Up(n, k - 1)
<1>1. /\ Level(n) \in Nat /\ Level(m) \in Nat /\ Up(n, k) = m /\ Level(m) < Level(n)
      /\ Level(n) \in 0 .. MAX_ORDER /\ MAX_ORDER \in Nat /\ m \in Nat /\ n \in Nat
  BY BelowIs, BelowSameLevel, Bounds
<1>2. k \in Nat \ {0} /\ k - 1 \in 0 .. Level(n) /\ 1 \in 0 .. Level(n) - (k - 1) /\ (k - 1) + 1 = k
      /\ k <= Level(n)
  BY <1>1
<1>3. c \in Node /\ Level(c) = Level(n) - (k - 1)
  <2> HIDE DEF k
  <2> QED BY <1>2, UpIs
<1>4. Up(c, 1) = m
  <2> HIDE DEF k
  <2> QED BY <1>1, <1>2, UpTwice
<1>5. TwoTo[1] = 2
  <2>1. TwoTo[0 + 1] = 2 * TwoTo[0] /\ TwoTo[0] = 1
    <3>1. 0 \in 0 .. Width - 1 BY Bounds
    <3> QED BY <3>1, Powers
  <2> QED BY <2>1
<1>6. c \div 2 = m BY <1>4, <1>5 DEF Up
<1>7. c \in Nat /\ Level(c) <= Level(n) /\ Level(n) - Level(c) = k - 1
  <2>1. c \in Nat BY <1>3, BelowIs
  <2> QED BY <1>1, <1>2, <1>3, <2>1
<1>8. IsBelow(n, c) BY <1>3, <1>7, BelowIs
<1> HIDE DEF c
<1>9. c = 2 * m \/ c = 2 * m + 1 BY <1>1, <1>6, <1>7
<1> QED BY <1>1, <1>8, <1>9

LEMMA BelowRoot ==
  ASSUME NEW n \in Node
  PROVE  IsBelow(n, 1)
<1>1. n \in Nat /\ Level(n) \in 0 .. MAX_ORDER /\ TwoTo[Level(n)] <= n /\ n < 2 * TwoTo[Level(n)]
  BY NodeLevel DEF AtLevel
<1>2. TwoTo[Level(n)] \in Nat \ {0} BY <1>1, Powers, Bounds
<1>3. n \div TwoTo[Level(n)] = 1
  <2> DEFINE p == TwoTo[Level(n)]
  <2>1. p \in Nat \ {0} /\ 1 * p <= n /\ n < (1 + 1) * p BY <1>1, <1>2
  <2> HIDE DEF p
  <2>2. n \div p = 1 BY <1>1, <2>1, QuotientBound
  <2> QED BY <2>2 DEF p
<1>4. 1 \in Node /\ Level(1) = 0 BY Root
<1>5. Level(n) \in Nat BY BelowIs
<1>6. Level(n) - Level(1) = Level(n) /\ Level(1) <= Level(n) BY <1>4, <1>5
<1> QED BY <1>3, <1>4, <1>6, BelowIs DEF Up

-----------------------------------------------------------------------------
(***************************************************************************)
(* The tree over a set of nodes L that are in use.                         *)
(***************************************************************************)
\* A node of L lies above n.
Over(L, n) == \E m \in L : IsBelow(n, m) /\ n # m

Antichain(L) == L \subseteq Node /\ \A a, b \in L : IsBelow(a, b) => a = b

Tree == [Node -> 0 .. MAX_ORDER + 1]

\* What every node says, by its children.
KeptAt(T, L, n) ==
  /\ Over(L, n) => T[n] = NodeOrder(n) + 1
  /\ n \in L => T[n] = 0
  /\ ~ Over(L, n) /\ n \notin L =>
       /\ Level(n) = MAX_ORDER => T[n] = 1
       /\ Level(n) # MAX_ORDER => T[n] = update_block(T[2 * n], T[2 * n + 1], NodeOrder(n))
Kept(T, L) == T \in Tree /\ \A n \in Node : KeptAt(T, L, n)

\* What every node says, by the nodes in use.
Right(T, L, n) ==
  /\ T[n] <= NodeOrder(n) + 1
  /\ ~ Over(L, n) => (T[n] = NodeOrder(n) + 1 <=> Apart(L, n))
  /\ \A d \in Node : IsBelow(d, n) /\ Apart(L, d) => NodeOrder(d) + 1 <= T[n]
  /\ ~ Over(L, n) /\ T[n] # 0 =>
       \E d \in Node : IsBelow(d, n) /\ Apart(L, d) /\ T[n] = NodeOrder(d) + 1

LEMMA OrderOf ==
  ASSUME NEW n \in Node
  PROVE  /\ NodeOrder(n) \in 0 .. MAX_ORDER /\ NodeOrder(n) \in Nat
         /\ NodeOrder(n) = MAX_ORDER - Level(n)
         /\ NodeOrder(n) = 0 <=> Level(n) = MAX_ORDER
         /\ Level(n) \in 0 .. MAX_ORDER /\ Level(n) \in Nat
<1>1. Level(n) \in 0 .. MAX_ORDER /\ MAX_ORDER \in Nat BY NodeLevel, Bounds DEF AtLevel
<1>2. NodeOrder(n) = MAX_ORDER - Level(n) BY DEF NodeOrder
<1> QED BY <1>1, <1>2

LEMMA OrderBelow ==
  ASSUME NEW n \in Node, NEW d \in Node, IsBelow(d, n)
  PROVE  NodeOrder(d) <= NodeOrder(n)
<1>1. Level(n) <= Level(d) BY BelowIs
<1>2. /\ Level(n) \in Nat /\ NodeOrder(n) = MAX_ORDER - Level(n) /\ MAX_ORDER \in Nat
  BY OrderOf, Bounds
<1>3. Level(d) \in Nat /\ NodeOrder(d) = MAX_ORDER - Level(d) BY OrderOf
<1> QED BY <1>1, <1>2, <1>3

\* The children of an inner node.
LEMMA Halves ==
  ASSUME NEW n \in Node, Level(n) # MAX_ORDER, NEW c \in {2 * n, 2 * n + 1}
  PROVE  /\ c \in Node /\ Level(c) = Level(n) + 1 /\ NodeOrder(c) + 1 = NodeOrder(n)
         /\ c # n /\ IsBelow(c, n) /\ ~ IsBelow(n, c)
         /\ \A m \in Node : IsBelow(c, m) /\ c # m => IsBelow(n, m)
<1>1. Level(n) \in 0 .. MAX_ORDER /\ MAX_ORDER \in Nat BY OrderOf, Bounds
<1>2. Level(n) < MAX_ORDER BY <1>1
<1>3. /\ c \in Node /\ Level(c) = Level(n) + 1 /\ c # n /\ IsBelow(c, n) /\ ~ IsBelow(n, c)
      /\ \A m \in Node : IsBelow(c, m) /\ c # m => IsBelow(n, m)
  BY <1>2, BelowChild
<1>4. NodeOrder(c) = MAX_ORDER - Level(c) /\ NodeOrder(n) = MAX_ORDER - Level(n)
  BY <1>3, OrderOf
<1> QED BY <1>1, <1>3, <1>4

LEMMA Combining ==
  ASSUME NEW l \in Nat, NEW r \in Nat, NEW o \in Nat
  PROVE  /\ l = o /\ r = o => update_block(l, r, o) = o + 1
         /\ ~ (l = o /\ r = o) => update_block(l, r, o) = Biggest(l, r)
         /\ l <= Biggest(l, r) /\ r <= Biggest(l, r) /\ Biggest(l, r) \in {l, r}
         /\ Biggest(l, r) \in Nat
BY DEF update_block, Biggest

\* A node no other is above, nor in use, has free children or has not.
LEMMA ApartChildren ==
  ASSUME NEW L, L \subseteq Node, NEW n \in Node, ~ Over(L, n), n \notin L,
         Level(n) # MAX_ORDER
  PROVE  /\ ~ Over(L, 2 * n) /\ ~ Over(L, 2 * n + 1)
         /\ Apart(L, n) <=> Apart(L, 2 * n) /\ Apart(L, 2 * n + 1)
<1>1. ASSUME NEW c \in {2 * n, 2 * n + 1} PROVE ~ Over(L, c)
  <2> SUFFICES ASSUME NEW m \in L, IsBelow(c, m), c # m PROVE FALSE BY DEF Over
  <2>1. m \in Node /\ IsBelow(n, m) BY Halves
  <2> QED BY <2>1 DEF Over
<1>2. ASSUME NEW c \in {2 * n, 2 * n + 1}, Apart(L, n) PROVE Apart(L, c)
  <2>1. c \in Node /\ IsBelow(c, n) BY Halves
  <2>2. ASSUME NEW m \in L PROVE ~ IsBelow(c, m) /\ ~ IsBelow(m, c)
    <3>1. m \in Node /\ ~ IsBelow(n, m) /\ ~ IsBelow(m, n) BY <1>2 DEF Apart
    <3>2. ~ IsBelow(m, c) BY <2>1, <3>1, BelowTrans
    <3>3. ASSUME IsBelow(c, m) PROVE FALSE
      <4>1. c = m BY <2>1, <3>1, <3>3, Halves
      <4> QED BY <2>1, <3>1, <4>1
    <3> QED BY <3>2, <3>3
  <2> QED BY <2>2 DEF Apart
<1>3. ASSUME Apart(L, 2 * n), Apart(L, 2 * n + 1) PROVE Apart(L, n)
  <2>1. ASSUME NEW m \in L PROVE ~ IsBelow(n, m) /\ ~ IsBelow(m, n)
    <3>1. m \in Node /\ n # m OBVIOUS
    <3>2. ~ IsBelow(n, m) BY <3>1 DEF Over
    <3>3. ASSUME IsBelow(m, n) PROVE FALSE
      <4>1. IsBelow(m, 2 * n) \/ IsBelow(m, 2 * n + 1) BY <3>1, <3>3, BelowOneChild
      <4> QED BY <1>3, <4>1 DEF Apart
    <3> QED BY <3>2, <3>3
  <2> QED BY <2>1 DEF Apart
<1> QED BY <1>1, <1>2, <1>3

\* Every node is right if its children are.
LEMMA RightNode ==
  ASSUME NEW L, Antichain(L), NEW T \in Tree, NEW n \in Node, KeptAt(T, L, n),
         Level(n) # MAX_ORDER => Right(T, L, 2 * n) /\ Right(T, L, 2 * n + 1)
  PROVE  Right(T, L, n)
<1> DEFINE o == NodeOrder(n)
<1>1. o \in Nat /\ MAX_ORDER \in Nat /\ (o = 0 <=> Level(n) = MAX_ORDER) BY OrderOf, Bounds
<1>2. L \subseteq Node BY DEF Antichain
<1>3. ASSUME NEW d \in Node, IsBelow(d, n) PROVE NodeOrder(d) \in Nat /\ NodeOrder(d) <= o
  BY <1>3, OrderOf, OrderBelow
<1>4. IsBelow(n, n) BY BelowSelf
<1> HIDE DEF o
<1>5. CASE Over(L, n)
  <2>1. T[n] = o + 1 BY <1>5 DEF KeptAt, o
  <2>2. T[n] <= o + 1 BY <1>1, <2>1
  <2>3. \A d \in Node : IsBelow(d, n) /\ Apart(L, d) => NodeOrder(d) + 1 <= T[n]
    BY <1>1, <1>3, <2>1
  <2> QED BY <1>5, <2>2, <2>3 DEF Right, o
<1>6. CASE ~ Over(L, n) /\ n \in L
  <2>1. T[n] = 0 /\ T[n] <= o + 1 /\ T[n] # o + 1
    <3>1. T[n] = 0 BY <1>6 DEF KeptAt
    <3> QED BY <1>1, <3>1
  <2>2. \A d \in Node : IsBelow(d, n) => ~ Apart(L, d) BY <1>6 DEF Apart
  <2>3. ~ Apart(L, n) BY <1>4, <2>2
  <2> QED BY <1>6, <2>1, <2>2, <2>3 DEF Right, o
<1>7. CASE ~ Over(L, n) /\ n \notin L /\ Level(n) = MAX_ORDER
  <2>1. T[n] = 1 /\ o = 0 BY <1>1, <1>7 DEF KeptAt
  <2>2. Apart(L, n)
    <3>1. ASSUME NEW m \in L PROVE ~ IsBelow(n, m) /\ ~ IsBelow(m, n)
      <4>1. m \in Node /\ n # m BY <1>2, <1>7
      <4>2. ~ IsBelow(n, m) BY <1>7, <4>1 DEF Over
      <4>3. Level(m) \in 0 .. MAX_ORDER BY <4>1, OrderOf
      <4>4. ~ (Level(n) < Level(m)) BY <1>1, <1>7, <4>3
      <4>5. ~ IsBelow(m, n) BY <4>1, <4>4, BelowSameLevel
      <4> QED BY <4>2, <4>5
    <3> QED BY <3>1 DEF Apart
  <2>3. \A d \in Node : IsBelow(d, n) => NodeOrder(d) + 1 <= T[n] BY <1>3, <2>1
  <2>4. T[n] = o + 1 /\ T[n] <= o + 1 BY <2>1
  <2> QED BY <1>4, <2>2, <2>3, <2>4 DEF Right, o
<1>8. CASE ~ Over(L, n) /\ n \notin L /\ Level(n) # MAX_ORDER
  <2> DEFINE l == T[2 * n]
             r == T[2 * n + 1]
  <2>1. T[n] = update_block(l, r, o) BY <1>8 DEF KeptAt, o
  <2>2. ASSUME NEW c \in {2 * n, 2 * n + 1}
        PROVE  /\ c \in Node /\ IsBelow(c, n) /\ ~ Over(L, c) /\ T[c] <= o
               /\ T[c] \in Nat
               /\ T[c] = o <=> Apart(L, c)
               /\ \A d \in Node : IsBelow(d, c) /\ Apart(L, d) => NodeOrder(d) + 1 <= T[c]
               /\ T[c] # 0 =>
                    \E d \in Node : IsBelow(d, c) /\ Apart(L, d) /\ T[c] = NodeOrder(d) + 1
    <3>1. c \in Node /\ IsBelow(c, n) /\ NodeOrder(c) + 1 = o BY <1>8, Halves DEF o
    <3>2. ~ Over(L, c) BY <1>2, <1>8, ApartChildren
    <3>3. Right(T, L, c) BY <1>8
    <3>4. T[c] \in Nat BY <3>1, <1>1 DEF Tree
    <3> QED BY <3>1, <3>2, <3>3, <3>4 DEF Right
  <2>3. Apart(L, n) <=> Apart(L, 2 * n) /\ Apart(L, 2 * n + 1)
    BY <1>2, <1>8, ApartChildren
  <2>4. l \in Nat /\ r \in Nat /\ l <= o /\ r <= o /\ (l = o /\ r = o <=> Apart(L, n))
    BY <2>2, <2>3
  <2> HIDE DEF l, r
  <2>5. CASE l = o /\ r = o
    <3>1. T[n] = o + 1 BY <1>1, <2>1, <2>4, <2>5, Combining
    <3>2. Apart(L, n) BY <2>4, <2>5
    <3>3. T[n] <= o + 1 /\ \A d \in Node : IsBelow(d, n) => NodeOrder(d) + 1 <= T[n]
      BY <1>1, <1>3, <3>1
    <3> QED BY <1>4, <3>1, <3>2, <3>3 DEF Right, o
  <2>6. CASE ~ (l = o /\ r = o)
    <3>1. T[n] = Biggest(l, r) BY <1>1, <2>1, <2>4, <2>6, Combining
    <3>2. l <= T[n] /\ r <= T[n] /\ T[n] \in {l, r} /\ T[n] \in Nat
      BY <1>1, <2>4, <3>1, Combining, SMTT(30)
    <3>3. T[n] <= o /\ T[n] # o + 1 /\ T[n] <= o + 1 BY <1>1, <2>4, <3>2
    <3>4. ~ Apart(L, n) BY <2>4, <2>6
    <3>5. ASSUME NEW d \in Node, IsBelow(d, n), Apart(L, d) PROVE NodeOrder(d) + 1 <= T[n]
      <4>1. d # n BY <3>4, <3>5
      <4>2. PICK c \in {2 * n, 2 * n + 1} : IsBelow(d, c) BY <3>5, <4>1, BelowOneChild
      <4>3. NodeOrder(d) + 1 <= T[c] /\ T[c] \in Nat BY <2>2, <3>5, <4>2
      <4>4. T[c] <= T[n] BY <3>2, <4>2 DEF l, r
      <4>5. NodeOrder(d) \in Nat BY OrderOf
      <4> QED BY <3>2, <4>3, <4>4, <4>5
    <3>6. ASSUME T[n] # 0
          PROVE  \E d \in Node : IsBelow(d, n) /\ Apart(L, d) /\ T[n] = NodeOrder(d) + 1
      <4>1. PICK c \in {2 * n, 2 * n + 1} : T[n] = T[c] BY <3>2 DEF l, r
      <4>2. PICK d \in Node : IsBelow(d, c) /\ Apart(L, d) /\ T[c] = NodeOrder(d) + 1
        BY <2>2, <3>6, <4>1
      <4>3. IsBelow(d, n) BY <2>2, <4>2, BelowTrans
      <4> QED BY <4>1, <4>2, <4>3
    <3> QED BY <3>3, <3>4, <3>5, <3>6 DEF Right, o
  <2> QED BY <2>5, <2>6
<1> QED BY <1>5, <1>6, <1>7, <1>8

LEMMA KeptIsRight ==
  ASSUME NEW L, Antichain(L), NEW T, Kept(T, L)
  PROVE  \A n \in Node : Right(T, L, n)
<1> DEFINE S == {k \in 0 .. MAX_ORDER : \A n \in Node : NodeOrder(n) = k => Right(T, L, n)}
<1>0. MAX_ORDER \in Nat BY Bounds
<1>1. T \in Tree /\ \A n \in Node : KeptAt(T, L, n) BY DEF Kept
<1>2. 0 \in S
  <2>1. ASSUME NEW n \in Node, NodeOrder(n) = 0 PROVE Right(T, L, n)
    <3>1. Level(n) = MAX_ORDER BY <2>1, OrderOf
    <3> QED BY <1>1, <3>1, RightNode
  <2> QED BY <1>0, <2>1
<1>3. ASSUME NEW k \in 0 .. MAX_ORDER - 1, k \in S PROVE k + 1 \in S
  <2>1. ASSUME NEW n \in Node, NodeOrder(n) = k + 1 PROVE Right(T, L, n)
    <3>1. ASSUME Level(n) # MAX_ORDER, NEW c \in {2 * n, 2 * n + 1} PROVE Right(T, L, c)
      <4>1. c \in Node /\ NodeOrder(c) + 1 = NodeOrder(n) BY <3>1, Halves
      <4>2. NodeOrder(c) = k
        <5>1. NodeOrder(c) \in Nat BY <4>1, OrderOf
        <5> QED BY <1>0, <2>1, <4>1, <5>1
      <4> QED BY <1>3, <4>1, <4>2
    <3>2. Level(n) # MAX_ORDER => Right(T, L, 2 * n) /\ Right(T, L, 2 * n + 1) BY <3>1
    <3> QED BY <1>1, <3>2, RightNode
  <2>2. k + 1 \in 0 .. MAX_ORDER BY <1>0
  <2> QED BY <2>1, <2>2
<1> HIDE DEF S
<1>4. 0 .. MAX_ORDER \subseteq S BY <1>0, <1>2, <1>3, Upwards
<1>5. ASSUME NEW n \in Node PROVE Right(T, L, n)
  <2>1. NodeOrder(n) \in S BY <1>4, OrderOf
  <2> QED BY <2>1 DEF S
<1> QED BY <1>5

\* What the allocator reads at the root is there, and nothing larger.
LEMMA HasIs ==
  ASSUME NEW L, Antichain(L), NEW T, Kept(T, L), NEW o \in Nat, ~ Has(T, o),
         NEW d \in Node, NodeOrder(d) = o
  PROVE  ~ Apart(L, d)
<1> SUFFICES ASSUME Apart(L, d) PROVE FALSE OBVIOUS
<1>1. 1 \in Node /\ IsBelow(d, 1) BY Root, BelowRoot
<1>2. T[1] \in 0 .. MAX_ORDER + 1 /\ MAX_ORDER \in Nat BY <1>1, Bounds DEF Kept, Tree
<1>3. o + 1 <= T[1] BY <1>1, KeptIsRight DEF Right
<1> QED BY <1>2, <1>3 DEF Has

\* The maximum that TreeMatchesLive speaks of.
LEMMA LargestIs ==
  ASSUME NEW L, NEW T \in Tree, NEW n \in Node, Right(T, L, n), ~ Over(L, n)
  PROVE  T[n] = Max({0} \cup {NodeOrder(d) + 1 : d \in {x \in Node : IsBelow(x, n) /\ Apart(L, x)}})
<1> DEFINE S == {0} \cup {NodeOrder(d) + 1 : d \in {x \in Node : IsBelow(x, n) /\ Apart(L, x)}}
<1>1. S \subseteq Nat
  <2>1. \A d \in Node : NodeOrder(d) + 1 \in Nat BY OrderOf
  <2> QED BY <2>1
<1>2. T[n] \in S BY DEF Right
<1>3. T[n] \in Nat /\ MAX_ORDER \in Nat BY Bounds DEF Tree
<1>4. \A y \in S : T[n] >= y BY <1>3 DEF Right
<1> HIDE DEF S
<1>5. ASSUME NEW x \in S, \A y \in S : x >= y PROVE x = T[n]
  <2>1. x >= T[n] /\ T[n] >= x /\ x \in Nat BY <1>1, <1>2, <1>4, <1>5
  <2> QED BY <1>3, <2>1
<1>6. Max(S) = T[n] BY <1>2, <1>4, <1>5 DEF Max
<1> QED BY <1>6 DEF S

LEMMA TreeMatches ==
  ASSUME Antichain(LiveNodes), Kept(flat_blocks, LiveNodes)
  PROVE  TreeMatchesLive
<1> DEFINE L == LiveNodes
           T == flat_blocks
<1>1. T \in Tree /\ \A n \in Node : KeptAt(T, L, n) BY DEF Kept
<1>2. \A n \in Node : Right(T, L, n) BY KeptIsRight
<1>3. ASSUME NEW n \in Node
      PROVE  T[n] =
               IF \E m \in L : IsBelow(n, m) /\ n # m THEN NodeOrder(n) + 1
               ELSE Max({0} \cup {NodeOrder(d) + 1 :
                          d \in {x \in Node : IsBelow(x, n) /\ Apart(L, x)}})
  <2>1. CASE Over(L, n)
    <3>1. T[n] = NodeOrder(n) + 1 BY <1>1, <2>1 DEF KeptAt
    <3> QED BY <2>1, <3>1 DEF Over
  <2>2. CASE ~ Over(L, n)
    <3>1. T[n] = Max({0} \cup {NodeOrder(d) + 1 : d \in {x \in Node : IsBelow(x, n) /\ Apart(L, x)}})
      <4> HIDE DEF L, T
      <4> QED BY <1>1, <1>2, <2>2, LargestIs
    <3> QED BY <2>2, <3>1 DEF Over
  <2> QED BY <2>1, <2>2
<1> QED BY <1>3 DEF TreeMatchesLive

-----------------------------------------------------------------------------
(***************************************************************************)
(* The walks of the allocator.                                             *)
(***************************************************************************)
\* What a node gets from its children, with and without merging.
Combine(T, p, merge) ==
  IF merge THEN update_block(T[2 * p], T[2 * p + 1], NodeOrder(p))
  ELSE Biggest(T[2 * p], T[2 * p + 1])

LEMMA CombineIs ==
  ASSUME NEW T \in Tree, NEW p \in Node, Level(p) # MAX_ORDER, NEW merge \in BOOLEAN
  PROVE  /\ Combine(T, p, merge) \in 0 .. MAX_ORDER + 1
         /\ \A q \in Node, v \in 0 .. MAX_ORDER + 1 : Level(q) <= Level(p) =>
              Combine([T EXCEPT ![q] = v], p, merge) = Combine(T, p, merge)
<1> DEFINE l == T[2 * p]
           r == T[2 * p + 1]
           o == NodeOrder(p)
<1>1. ASSUME NEW c \in {2 * p, 2 * p + 1}
      PROVE  c \in Node /\ Level(c) = Level(p) + 1
  BY Halves
<1>2. l \in 0 .. MAX_ORDER + 1 /\ r \in 0 .. MAX_ORDER + 1 BY <1>1 DEF Tree
<1>3. o \in 0 .. MAX_ORDER /\ MAX_ORDER \in Nat /\ Level(p) \in Nat BY OrderOf, Bounds
<1>4. ASSUME NEW q \in Node, NEW v \in 0 .. MAX_ORDER + 1, Level(q) <= Level(p)
      PROVE  Combine([T EXCEPT ![q] = v], p, merge) = Combine(T, p, merge)
  <2>1. q # 2 * p /\ q # 2 * p + 1 BY <1>1, <1>3, <1>4
  <2>2. [T EXCEPT ![q] = v][2 * p] = T[2 * p] /\ [T EXCEPT ![q] = v][2 * p + 1] = T[2 * p + 1]
    BY <1>1, <2>1 DEF Tree
  <2> QED BY <2>2 DEF Combine
<1>5. Combine(T, p, merge) \in 0 .. MAX_ORDER + 1
  <2> HIDE DEF l, r, o
  <2>1. update_block(l, r, o) \in 0 .. MAX_ORDER + 1 /\ Biggest(l, r) \in 0 .. MAX_ORDER + 1
    BY <1>2, <1>3 DEF update_block, Biggest
  <2>2. Combine(T, p, merge) = IF merge THEN update_block(l, r, o) ELSE Biggest(l, r)
    BY DEF Combine, l, r, o
  <2> QED BY <2>1, <2>2
<1> QED BY <1>4, <1>5

\* One step of the way up.
Climb(T, node, k, merge) == [T EXCEPT ![Up(node, k)] = Combine(T, Up(node, k), merge)]

LEMMA UpInner ==
  ASSUME NEW node \in Node, NEW k \in 1 .. Level(node)
  PROVE  /\ Up(node, k) \in Node /\ Level(Up(node, k)) = Level(node) - k
         /\ Level(Up(node, k)) # MAX_ORDER /\ Level(node) \in Nat
<1>1. Level(node) \in 0 .. MAX_ORDER /\ MAX_ORDER \in Nat BY OrderOf, Bounds
<1>2. k \in 0 .. Level(node) BY <1>1
<1>3. Up(node, k) \in Node /\ Level(Up(node, k)) = Level(node) - k BY <1>2, UpIs
<1> QED BY <1>1, <1>3

LEMMA ClimbType ==
  ASSUME NEW T \in Tree, NEW node \in Node, NEW k \in 1 .. Level(node), NEW merge \in BOOLEAN
  PROVE  Climb(T, node, k, merge) \in Tree
<1>1. Up(node, k) \in Node /\ Level(Up(node, k)) # MAX_ORDER BY UpInner
<1>2. Combine(T, Up(node, k), merge) \in 0 .. MAX_ORDER + 1 BY <1>1, CombineIs
<1> QED BY <1>2 DEF Climb, Tree

\* The way up as a function of the number of levels climbed.
Ascent(f, T, node, merge) ==
  f = [k \in 0 .. Level(node) |-> IF k = 0 THEN T ELSE Climb(f[k - 1], node, k, merge)]

LEMMA AscentExists ==
  ASSUME NEW T \in Tree, NEW node \in Node, NEW merge \in BOOLEAN
  PROVE  \E f : Ascent(f, T, node, merge)
<1> DEFINE n == Level(node)
           g == [x \in (1 .. n) \X Tree |-> Climb(x[2], node, x[1], merge)]
<1>1. n \in Nat BY OrderOf
<1>2. \A x \in (1 .. n) \X Tree : Climb(x[2], node, x[1], merge) \in Tree BY ClimbType
<1>3. g \in [(1 .. n) \X Tree -> Tree] BY <1>2
<1>4. PICK f : Follows(f, n, Tree, T, g)
  <2> HIDE DEF g, n
  <2> QED BY <1>1, <1>3, Recursion
<1>5. ASSUME NEW k \in 1 .. n PROVE f[k - 1] \in Tree /\ f[k] = Climb(f[k - 1], node, k, merge)
  <2>1. k - 1 \in 0 .. n BY <1>1
  <2>2. f[k - 1] \in Tree BY <1>4, <2>1 DEF Follows
  <2> QED BY <1>4, <2>2 DEF Follows
<1>6. f = [k \in 0 .. n |-> IF k = 0 THEN T ELSE Climb(f[k - 1], node, k, merge)]
  <2>1. ASSUME NEW k \in 0 .. n PROVE f[k] = IF k = 0 THEN T ELSE Climb(f[k - 1], node, k, merge)
    <3>1. CASE k = 0 BY <1>4, <3>1 DEF Follows
    <3>2. CASE k # 0
      <4>1. k \in 1 .. n BY <1>1, <3>2
      <4> QED BY <1>5, <3>2, <4>1
    <3> QED BY <3>1, <3>2
  <2>2. f \in [0 .. n -> Tree] BY <1>4 DEF Follows
  <2> HIDE DEF n
  <2> QED BY <2>1, <2>2
<1> QED BY <1>6 DEF Ascent

LEMMA AboveIsAscent ==
  ASSUME NEW T \in Tree, NEW node \in Node, NEW merge \in BOOLEAN
  PROVE  \E f : Ascent(f, T, node, merge) /\ Above(T, node, merge) = f[Level(node)]
<1> DEFINE up == CHOOSE f : Ascent(f, T, node, merge)
<1>1. Ascent(up, T, node, merge) BY AscentExists
<1>2. Above(T, node, merge) = up[Level(node)]
  BY DEF Above, Ascent, Climb, Combine, Up
<1> QED BY <1>1, <1>2

\* x lies strictly above node.
IsAbove(x, node) == IsBelow(node, x) /\ node # x

LEMMA AboveIsUp ==
  ASSUME NEW node \in Node, NEW x \in Node
  PROVE  /\ IsAbove(x, node) => x = Up(node, Level(node) - Level(x))
                                /\ Level(node) - Level(x) \in 1 .. Level(node)
         /\ \A j \in 1 .. Level(node) : IsAbove(Up(node, j), node)
<1>1. Level(node) \in Nat /\ Level(x) \in Nat BY OrderOf
<1>2. ASSUME IsAbove(x, node)
      PROVE  /\ x = Up(node, Level(node) - Level(x))
             /\ Level(node) - Level(x) \in 1 .. Level(node)
  <2>1. IsBelow(node, x) /\ node # x BY <1>2 DEF IsAbove
  <2>2. Level(x) < Level(node) BY <2>1, BelowSameLevel
  <2> QED BY <1>1, <2>1, <2>2, BelowIs
<1>3. ASSUME NEW j \in 1 .. Level(node) PROVE IsAbove(Up(node, j), node)
  <2> DEFINE p == Up(node, j)
  <2>1. p \in Node /\ Level(p) = Level(node) - j BY UpInner
  <2>2. Level(node) - Level(p) = j /\ Level(p) <= Level(node) /\ Level(p) # Level(node)
    BY <1>1, <2>1
  <2>3. IsBelow(node, p)
    <3>1. Up(node, Level(node) - Level(p)) = p BY <2>2
    <3> HIDE DEF p
    <3> QED BY <2>1, <2>2, <3>1, BelowIs
  <2>4. node # p BY <2>2
  <2> QED BY <2>3, <2>4 DEF IsAbove
<1> QED BY <1>2, <1>3

\* What has been climbed after k levels.
Climbed(R, T, node, k, merge) ==
  /\ R \in Tree
  /\ \A x \in Node : (\A j \in 1 .. k : x # Up(node, j)) => R[x] = T[x]
  /\ \A j \in 1 .. k : R[Up(node, j)] = Combine(R, Up(node, j), merge)

LEMMA ClimbOne ==
  ASSUME NEW T \in Tree, NEW node \in Node, NEW merge \in BOOLEAN,
         NEW k \in 0 .. Level(node) - 1, NEW R, Climbed(R, T, node, k, merge)
  PROVE  Climbed(Climb(R, node, k + 1, merge), T, node, k + 1, merge)
<1> DEFINE p == Up(node, k + 1)
           v == Combine(R, p, merge)
           S == Climb(R, node, k + 1, merge)
<1>1. Level(node) \in Nat /\ k + 1 \in 1 .. Level(node) /\ k \in Nat BY OrderOf
<1>2. p \in Node /\ Level(p) = Level(node) - (k + 1) /\ Level(p) # MAX_ORDER
  BY <1>1, UpInner
<1>3. R \in Tree BY DEF Climbed
<1>4. v \in 0 .. MAX_ORDER + 1 BY <1>2, <1>3, CombineIs
<1>5. S = [R EXCEPT ![p] = v] BY DEF Climb
<1> HIDE DEF v, S, p
<1>6. S \in Tree BY <1>3, <1>4, <1>5 DEF Tree
<1>7. S[p] = v /\ \A x \in Node : x # p => S[x] = R[x] BY <1>2, <1>3, <1>5 DEF Tree
<1>8. \A x \in Node : Level(x) # MAX_ORDER /\ Level(p) <= Level(x) =>
        Combine(S, x, merge) = Combine(R, x, merge)
  <2>1. ASSUME NEW x \in Node, Level(x) # MAX_ORDER, Level(p) <= Level(x)
        PROVE  Combine([R EXCEPT ![p] = v], x, merge) = Combine(R, x, merge)
    BY <1>2, <1>3, <1>4, <2>1, CombineIs
  <2> QED BY <1>5, <2>1
<1>9. ASSUME NEW x \in Node, \A j \in 1 .. k + 1 : x # Up(node, j) PROVE S[x] = T[x]
  <2>1. x # p BY <1>1, <1>9 DEF p
  <2>2. \A j \in 1 .. k : j \in 1 .. k + 1 BY <1>1
  <2>3. R[x] = T[x] BY <1>9, <2>2 DEF Climbed
  <2> QED BY <1>7, <2>1, <2>3
<1>10. ASSUME NEW j \in 1 .. k + 1 PROVE S[Up(node, j)] = Combine(S, Up(node, j), merge)
  <2>1. j \in 1 .. Level(node) BY <1>1
  <2>2. Up(node, j) \in Node /\ Level(Up(node, j)) = Level(node) - j /\ Level(Up(node, j)) # MAX_ORDER
    BY <2>1, UpInner
  <2>3. Level(p) <= Level(Up(node, j)) BY <1>1, <1>2, <2>1, <2>2
  <2>4. Combine(S, Up(node, j), merge) = Combine(R, Up(node, j), merge) BY <1>8, <2>2, <2>3
  <2>5. CASE j = k + 1
    <3>1. Up(node, j) = p BY <2>5 DEF p
    <3>2. S[p] = Combine(R, p, merge) BY <1>7 DEF v
    <3> QED BY <2>4, <3>1, <3>2
  <2>6. CASE j # k + 1
    <3>1. j \in 1 .. k BY <1>1, <2>6
    <3>2. Up(node, j) # p BY <1>1, <1>2, <2>2, <3>1
    <3>3. R[Up(node, j)] = Combine(R, Up(node, j), merge) BY <3>1 DEF Climbed
    <3>4. S[Up(node, j)] = R[Up(node, j)] BY <1>7, <2>2, <3>2
    <3> QED BY <2>4, <3>3, <3>4
  <2> QED BY <2>5, <2>6
<1>11. Climbed(S, T, node, k + 1, merge) BY <1>6, <1>9, <1>10 DEF Climbed
<1> QED BY <1>11 DEF S

LEMMA AboveIs ==
  ASSUME NEW T \in Tree, NEW node \in Node, NEW merge \in BOOLEAN
  PROVE  /\ Above(T, node, merge) \in Tree
         /\ \A x \in Node : IF IsAbove(x, node)
                            THEN Above(T, node, merge)[x] = Combine(Above(T, node, merge), x, merge)
                            ELSE Above(T, node, merge)[x] = T[x]
<1> DEFINE n == Level(node)
           R == Above(T, node, merge)
<1>0. n \in Nat BY OrderOf
<1>1. PICK f : Ascent(f, T, node, merge) /\ R = f[n] BY AboveIsAscent
<1>2. \A k \in 0 .. n : f[k] = IF k = 0 THEN T ELSE Climb(f[k - 1], node, k, merge)
  BY <1>1 DEF Ascent
<1> DEFINE K == {k \in 0 .. n : Climbed(f[k], T, node, k, merge)}
<1> HIDE DEF R
<1>3. 0 \in K
  <2>1. f[0] = T BY <1>0, <1>2
  <2>2. Climbed(T, T, node, 0, merge)
    <3>1. \A j \in 1 .. 0 : FALSE OBVIOUS
    <3> QED BY <3>1 DEF Climbed
  <2> QED BY <1>0, <2>1, <2>2
<1>4. ASSUME NEW k \in 0 .. n - 1, k \in K PROVE k + 1 \in K
  <2>1. k + 1 \in 0 .. n /\ k + 1 # 0 /\ (k + 1) - 1 = k BY <1>0
  <2>2. f[k + 1] = Climb(f[k], node, k + 1, merge) BY <1>2, <2>1
  <2>3. Climbed(f[k], T, node, k, merge) BY <1>4
  <2>4. Climbed(f[k + 1], T, node, k + 1, merge) BY <2>2, <2>3, ClimbOne
  <2> QED BY <2>1, <2>4
<1> HIDE DEF K
<1>5. 0 .. n \subseteq K BY <1>0, <1>3, <1>4, Upwards
<1>6. Climbed(R, T, node, n, merge)
  <2>1. n \in K BY <1>0, <1>5
  <2> QED BY <1>1, <2>1 DEF K
<1>7. ASSUME NEW x \in Node
      PROVE  IF IsAbove(x, node) THEN R[x] = Combine(R, x, merge) ELSE R[x] = T[x]
  <2>1. CASE IsAbove(x, node)
    <3>1. PICK j \in 1 .. n : x = Up(node, j) BY <2>1, AboveIsUp
    <3>2. R[Up(node, j)] = Combine(R, Up(node, j), merge) BY <1>6 DEF Climbed
    <3> QED BY <2>1, <3>1, <3>2
  <2>2. CASE ~ IsAbove(x, node)
    <3>1. \A j \in 1 .. n : x # Up(node, j) BY <2>2, AboveIsUp
    <3>2. R[x] = T[x] BY <1>6, <3>1 DEF Climbed
    <3> QED BY <2>2, <3>2
  <2> QED BY <2>1, <2>2
<1> QED BY <1>6, <1>7 DEF R, Climbed

\* T with v at node and everything above it worked out anew.
Renewed(R, T, node, v, merge) ==
  /\ R \in Tree /\ R[node] = v
  /\ \A x \in Node : IsAbove(x, node) => R[x] = Combine(R, x, merge)
  /\ \A x \in Node : ~ IsBelow(node, x) => R[x] = T[x]

LEMMA RenewedIs ==
  ASSUME NEW T \in Tree, NEW node \in Node, NEW v \in 0 .. MAX_ORDER + 1, NEW merge \in BOOLEAN
  PROVE  Renewed(Above([T EXCEPT ![node] = v], node, merge), T, node, v, merge)
<1> DEFINE S == [T EXCEPT ![node] = v]
           R == Above(S, node, merge)
<1>1. S \in Tree /\ S[node] = v /\ \A x \in Node : x # node => S[x] = T[x] BY DEF Tree
<1> HIDE DEF S
<1>2. /\ R \in Tree
      /\ \A x \in Node : IF IsAbove(x, node) THEN R[x] = Combine(R, x, merge) ELSE R[x] = S[x]
  BY <1>1, AboveIs
<1> HIDE DEF R
<1>3. ~ IsAbove(node, node) BY DEF IsAbove
<1>4. R[node] = v BY <1>1, <1>2, <1>3
<1>5. ASSUME NEW x \in Node, ~ IsBelow(node, x) PROVE R[x] = T[x]
  <2>1. x # node BY <1>5, BelowSelf
  <2>2. ~ IsAbove(x, node) BY <1>5 DEF IsAbove
  <2> QED BY <1>1, <1>2, <2>1, <2>2
<1> QED BY <1>2, <1>4, <1>5 DEF Renewed, R, S

\* A node beside the renewed one says what it said.
LEMMA Beside ==
  ASSUME NEW T \in Tree, NEW node \in Node, NEW v, NEW merge \in BOOLEAN,
         NEW R, Renewed(R, T, node, v, merge), NEW L, NEW M,
         NEW n \in Node, KeptAt(T, L, n), ~ IsBelow(node, n),
         Over(M, n) <=> Over(L, n), n \in M <=> n \in L
  PROVE  KeptAt(R, M, n)
<1>1. R[n] = T[n] BY DEF Renewed
<1>2. ASSUME Level(n) # MAX_ORDER, NEW c \in {2 * n, 2 * n + 1} PROVE R[c] = T[c]
  <2>1. /\ c \in Node
        /\ \A m \in Node : IsBelow(c, m) /\ c # m => IsBelow(n, m) BY <1>2, Halves
  <2>2. IsBelow(c, n) BY <1>2, Halves
  <2>3. ~ IsBelow(node, c) BY <2>1, <2>2, BelowTrans
  <2> QED BY <2>1, <2>3 DEF Renewed
<1>3. Level(n) # MAX_ORDER => R[2 * n] = T[2 * n] /\ R[2 * n + 1] = T[2 * n + 1] BY <1>2
<1> QED BY <1>1, <1>3 DEF KeptAt

\* Giving back a node in use.
LEMMA Giving ==
  ASSUME NEW L, Antichain(L), NEW T, Kept(T, L), NEW node \in L,
         NEW R, Renewed(R, T, node, NodeOrder(node) + 1, TRUE)
  PROVE  Kept(R, L \ {node})
<1> DEFINE M == L \ {node}
<1>1. /\ T \in Tree /\ node \in Node /\ L \subseteq Node
      /\ \A a \in L, b \in L : IsBelow(a, b) => a = b
  BY DEF Kept, Antichain
<1>2. \A n \in Node : KeptAt(T, L, n) BY DEF Kept
<1>3. ASSUME NEW n \in Node, IsBelow(node, n) PROVE ~ Over(M, n) /\ n \notin M
  <2>1. ASSUME NEW m \in M, IsBelow(n, m) PROVE FALSE
    <3>1. IsBelow(node, m) BY <1>1, <1>3, <2>1, BelowTrans
    <3> QED BY <1>1, <3>1
  <2>2. \A m \in M : n # m BY <2>1, BelowSelf
  <2> QED BY <2>1, <2>2 DEF Over
<1>4. ASSUME NEW n \in Node PROVE KeptAt(R, M, n)
  <2>1. NodeOrder(n) \in Nat /\ (NodeOrder(n) = 0 <=> Level(n) = MAX_ORDER) BY OrderOf
  <2>2. CASE IsAbove(n, node)
    <3>1. IsBelow(node, n) /\ node # n BY <2>2 DEF IsAbove
    <3>2. ~ Over(M, n) /\ n \notin M BY <1>3, <3>1
    <3>3. Level(n) # MAX_ORDER
      <4>1. Level(n) < Level(node) BY <1>1, <3>1, BelowSameLevel
      <4>2. Level(node) \in 0 .. MAX_ORDER /\ MAX_ORDER \in Nat BY <1>1, OrderOf, Bounds
      <4> QED BY <4>1, <4>2
    <3>4. R[n] = update_block(R[2 * n], R[2 * n + 1], NodeOrder(n))
      BY <2>2 DEF Renewed, Combine
    <3> QED BY <3>2, <3>3, <3>4 DEF KeptAt
  <2>3. CASE IsBelow(n, node)
    <3>1. ~ Over(M, n) /\ n \notin M
      <4>1. CASE n = node BY <1>1, <1>3, <4>1, BelowSelf
      <4>2. CASE n # node
        <5>1. ASSUME NEW m \in M, IsBelow(n, m) PROVE FALSE
          <6>1. IsBelow(node, m) \/ IsBelow(m, node) BY <1>1, <2>3, <5>1, BelowLinear
          <6> QED BY <1>1, <6>1
        <5>2. \A m \in M : n # m BY <5>1, BelowSelf
        <5> QED BY <5>1, <5>2 DEF Over
      <4> QED BY <4>1, <4>2
    <3>2. R[n] = NodeOrder(n) + 1
      <4>1. CASE n = node BY <4>1 DEF Renewed
      <4>2. CASE n # node
        <5>1. ~ IsBelow(node, n)
          <6>1. IsBelow(node, n) => n = node
            <7>1. Level(n) \in Nat /\ Level(node) \in Nat BY <1>1, OrderOf
            <7>2. Level(node) < Level(n) BY <1>1, <2>3, <4>2, BelowSameLevel
            <7>3. ~ (Level(n) <= Level(node)) BY <7>1, <7>2
            <7> QED BY <1>1, <7>3, BelowIs
          <6> QED BY <4>2, <6>1
        <5>2. Over(L, n) BY <2>3, <4>2 DEF Over
        <5>3. T[n] = NodeOrder(n) + 1 BY <1>2, <5>2 DEF KeptAt
        <5> QED BY <5>1, <5>3 DEF Renewed
      <4> QED BY <4>1, <4>2
    <3>3. CASE Level(n) = MAX_ORDER
      <4>1. R[n] = 1 BY <2>1, <3>2, <3>3
      <4> QED BY <3>1, <3>3, <4>1 DEF KeptAt
    <3>4. CASE Level(n) # MAX_ORDER
      <4>1. ASSUME NEW c \in {2 * n, 2 * n + 1} PROVE R[c] = NodeOrder(n)
        <5>1. /\ c \in Node /\ IsBelow(c, n) /\ c # n /\ NodeOrder(c) + 1 = NodeOrder(n)
              /\ ~ IsBelow(n, c)
          BY <3>4, Halves
        <5>2. IsBelow(c, node) BY <1>1, <2>3, <5>1, BelowTrans
        <5>3. ~ IsBelow(node, c) BY <1>1, <2>3, <5>1, BelowTrans
        <5>4. c # node BY <1>1, <5>3, BelowSelf
        <5>5. Over(L, c) BY <5>2, <5>4 DEF Over
        <5>6. T[c] = NodeOrder(c) + 1 BY <1>2, <5>1, <5>5 DEF KeptAt
        <5> QED BY <5>1, <5>3, <5>6 DEF Renewed
      <4>2. update_block(R[2 * n], R[2 * n + 1], NodeOrder(n)) = NodeOrder(n) + 1
        BY <4>1 DEF update_block
      <4> QED BY <3>1, <3>2, <3>4, <4>2 DEF KeptAt
    <3> QED BY <3>3, <3>4
  <2>4. CASE ~ IsAbove(n, node) /\ ~ IsBelow(n, node)
    <3>1. n # node BY <1>1, <2>4, BelowSelf
    <3>2. ~ IsBelow(node, n) BY <2>4, <3>1 DEF IsAbove
    <3>3. Over(M, n) <=> Over(L, n) BY <2>4 DEF Over
    <3>4. n \in M <=> n \in L BY <3>1
    <3> HIDE DEF M
    <3> QED BY <1>1, <1>2, <3>2, <3>3, <3>4, Beside
  <2> QED BY <2>2, <2>3, <2>4
<1>5. R \in Tree BY DEF Renewed
<1> QED BY <1>4, <1>5 DEF Kept

\* A node below two others, or two nodes of which one is apart from the other's set.
LEMMA ApartBelow ==
  ASSUME NEW L, L \subseteq Node, NEW node \in Node, Apart(L, node),
         NEW n \in Node, IsBelow(n, node)
  PROVE  Apart(L, n) /\ ~ Over(L, n) /\ n \notin L
<1>1. ASSUME NEW m \in L PROVE ~ IsBelow(n, m) /\ ~ IsBelow(m, n)
  <2>1. m \in Node /\ ~ IsBelow(node, m) /\ ~ IsBelow(m, node) BY DEF Apart
  <2>2. ~ IsBelow(m, n) BY <2>1, BelowTrans
  <2>3. IsBelow(n, m) => IsBelow(node, m) \/ IsBelow(m, node) BY <2>1, BelowLinear
  <2> QED BY <2>1, <2>2, <2>3
<1>2. n \notin L BY <1>1, BelowSelf
<1> QED BY <1>1, <1>2 DEF Apart, Over

\* Once a node is in use nothing above it is free as a whole.
LEMMA NeverWhole ==
  ASSUME NEW T \in Tree, \A n \in Node : T[n] <= NodeOrder(n) + 1,
         NEW node \in Node, NEW R, Renewed(R, T, node, 0, FALSE)
  PROVE  \A n \in Node : IsBelow(node, n) => R[n] <= NodeOrder(n)
<1> DEFINE n(k) == Up(node, k)
           K == {k \in 0 .. Level(node) : R[n(k)] <= NodeOrder(n(k))}
<1>0. Level(node) \in Nat BY OrderOf
<1>1. 0 \in K
  <2>1. n(0) = node BY BelowIs
  <2>2. R[node] = 0 BY DEF Renewed
  <2>3. NodeOrder(node) \in Nat BY OrderOf
  <2> QED BY <1>0, <2>1, <2>2, <2>3
<1>2. ASSUME NEW k \in 0 .. Level(node) - 1, k \in K PROVE k + 1 \in K
  <2> DEFINE p == Up(node, k + 1)
             c == Up(node, k)
  <2>1. k + 1 \in 1 .. Level(node) /\ k + 1 \in 0 .. Level(node) /\ k \in 0 .. Level(node)
        /\ 1 \in 0 .. Level(node) - k /\ k \in Nat
    BY <1>0
  <2>2. p \in Node /\ Level(p) = Level(node) - (k + 1) /\ Level(p) # MAX_ORDER
    BY <2>1, UpInner
  <2>3. c \in Node /\ Level(c) = Level(node) - k BY <2>1, UpIs
  <2>4. Up(c, 1) = p BY <2>1, UpTwice
  <2>5. IsAbove(p, node) BY <2>1, AboveIsUp
  <2>6. R[c] <= NodeOrder(c) BY <1>2
  <2> HIDE DEF p, c
  <2>7. Level(c) = Level(p) + 1 /\ Level(p) \in Nat /\ Level(c) - Level(p) = 1 BY <1>0, <2>1, <2>2, <2>3, OrderOf
  <2>8. IsBelow(c, p) /\ c # p
    <3>1. Level(p) <= Level(c) /\ c # p BY <2>7
    <3> QED BY <2>2, <2>3, <2>4, <2>7, <3>1, BelowIs
  <2>9. IsBelow(c, 2 * p) \/ IsBelow(c, 2 * p + 1) BY <2>2, <2>3, <2>8, BelowOneChild
  <2>10. ASSUME NEW d \in {2 * p, 2 * p + 1} PROVE R[d] <= NodeOrder(p) /\ R[d] \in Nat
    <3>1. d \in Node /\ Level(d) = Level(p) + 1 /\ NodeOrder(d) + 1 = NodeOrder(p)
      BY <2>2, Halves
    <3>2. R[d] \in Nat /\ NodeOrder(d) \in Nat /\ MAX_ORDER \in Nat
      BY <3>1, OrderOf, Bounds DEF Renewed, Tree
    <3>3. CASE d = c BY <2>6, <3>1, <3>2, <3>3
    <3>4. CASE d # c
      <4>1. ~ IsBelow(node, d)
        <5> SUFFICES ASSUME IsBelow(node, d) PROVE FALSE OBVIOUS
        <5>1. Up(node, Level(node) - Level(d)) = d BY <3>1, BelowIs
        <5>2. Level(node) - Level(d) = k BY <1>0, <2>1, <2>2, <3>1
        <5> QED BY <3>4, <5>1, <5>2 DEF c
      <4>2. R[d] = T[d] BY <3>1, <4>1 DEF Renewed
      <4>3. R[d] <= NodeOrder(d) + 1 BY <3>1, <4>2
      <4> QED BY <3>1, <3>2, <4>3
    <3> QED BY <3>3, <3>4
  <2>11. R[p] = Biggest(R[2 * p], R[2 * p + 1]) BY <2>2, <2>5 DEF Renewed, Combine
  <2>12. R[p] \in {R[2 * p], R[2 * p + 1]} BY <2>11 DEF Biggest
  <2>13. R[p] <= NodeOrder(p) BY <2>10, <2>12
  <2> QED BY <2>1, <2>13 DEF p
<1> HIDE DEF K
<1>3. 0 .. Level(node) \subseteq K BY <1>0, <1>1, <1>2, Upwards
<1>4. ASSUME NEW m \in Node, IsBelow(node, m) PROVE R[m] <= NodeOrder(m)
  <2>1. Level(m) <= Level(node) /\ Up(node, Level(node) - Level(m)) = m /\ Level(m) \in Nat
    BY <1>4, BelowIs
  <2>2. Level(node) - Level(m) \in K BY <1>0, <1>3, <2>1
  <2> QED BY <2>1, <2>2 DEF K
<1> QED BY <1>4

\* Taking a node that nothing in use shares anything with.
LEMMA Taking ==
  ASSUME NEW L, Antichain(L), NEW T, Kept(T, L), NEW node \in Node, Apart(L, node),
         NEW R, Renewed(R, T, node, 0, FALSE)
  PROVE  Kept(R, L \cup {node}) /\ Antichain(L \cup {node})
<1> DEFINE M == L \cup {node}
<1>1. T \in Tree /\ L \subseteq Node BY DEF Kept, Antichain
<1>2. \A n \in Node : KeptAt(T, L, n) /\ Right(T, L, n) BY KeptIsRight DEF Kept
<1>3. Antichain(M)
  <2>1. ASSUME NEW a \in M, NEW b \in M, IsBelow(a, b) PROVE a = b
    BY <2>1 DEF Antichain, Apart
  <2> QED BY <1>1, <2>1 DEF Antichain
<1>4. \A n \in Node : IsBelow(node, n) => R[n] <= NodeOrder(n)
  <2>1. \A n \in Node : T[n] <= NodeOrder(n) + 1 BY <1>2 DEF Right
  <2> QED BY <1>1, <2>1, NeverWhole
<1>5. R \in Tree /\ R[node] = 0 BY DEF Renewed
<1>6. ASSUME NEW n \in Node PROVE KeptAt(R, M, n)
  <2>1. NodeOrder(n) \in Nat /\ (NodeOrder(n) = 0 <=> Level(n) = MAX_ORDER) BY OrderOf
  <2>2. CASE IsAbove(n, node)
    <3>1. IsBelow(node, n) /\ node # n BY <2>2 DEF IsAbove
    <3>2. ~ Over(M, n)
      <4> SUFFICES ASSUME NEW m \in M, IsBelow(n, m), n # m PROVE FALSE BY DEF Over
      <4>1. m \in Node /\ IsBelow(node, m) BY <1>1, <3>1, BelowTrans
      <4>2. m = node BY <4>1 DEF Apart
      <4>3. Level(node) \in Nat /\ Level(n) \in Nat /\ Level(n) < Level(node)
        BY <3>1, OrderOf, BelowSameLevel
      <4>4. Level(node) < Level(n) BY <4>2, BelowSameLevel
      <4> QED BY <4>3, <4>4
    <3>3. n \notin M BY <3>1 DEF Apart
    <3>4. Level(n) # MAX_ORDER
      <4>1. Level(n) < Level(node) BY <3>1, BelowSameLevel
      <4>2. Level(node) \in 0 .. MAX_ORDER /\ MAX_ORDER \in Nat BY OrderOf, Bounds
      <4> QED BY <4>1, <4>2
    <3>5. R[n] = Biggest(R[2 * n], R[2 * n + 1]) BY <2>2 DEF Renewed, Combine
    <3>6. PICK c \in {2 * n, 2 * n + 1} : IsBelow(node, c) BY <3>1, BelowOneChild
    <3>7. c \in Node /\ NodeOrder(c) + 1 = NodeOrder(n) BY <3>4, Halves
    <3>8. R[c] # NodeOrder(n)
      <4>1. R[c] <= NodeOrder(c) /\ R[c] \in Nat /\ NodeOrder(c) \in Nat /\ MAX_ORDER \in Nat
        BY <1>4, <1>5, <3>6, <3>7, OrderOf, Bounds DEF Tree
      <4> QED BY <3>7, <4>1
    <3>9. R[n] = update_block(R[2 * n], R[2 * n + 1], NodeOrder(n))
      BY <3>5, <3>8 DEF update_block
    <3> HIDE DEF M
    <3> QED BY <3>2, <3>3, <3>4, <3>9 DEF KeptAt
  <2>3. CASE n = node
    <3>1. ~ Over(M, node)
      <4> SUFFICES ASSUME NEW m \in M, IsBelow(node, m), node # m PROVE FALSE BY DEF Over
      <4> QED BY DEF Apart
    <3>2. node \in M OBVIOUS
    <3> HIDE DEF M
    <3> QED BY <1>5, <2>3, <3>1, <3>2 DEF KeptAt
  <2>4. CASE IsBelow(n, node) /\ n # node
    <3>1. Over(M, n) BY <2>4 DEF Over
    <3>2. Apart(L, n) /\ ~ Over(L, n) /\ n \notin M BY <1>1, <2>4, ApartBelow
    <3>3. ~ IsBelow(node, n)
      <4>1. Level(n) \in Nat /\ Level(node) \in Nat BY OrderOf
      <4>2. Level(node) < Level(n) BY <2>4, BelowSameLevel
      <4>3. ~ (Level(n) <= Level(node)) BY <4>1, <4>2
      <4> QED BY <4>3, BelowIs
    <3>4. T[n] = NodeOrder(n) + 1 BY <1>2, <3>2 DEF Right
    <3>5. R[n] = NodeOrder(n) + 1 BY <3>3, <3>4 DEF Renewed
    <3> HIDE DEF M
    <3> QED BY <3>1, <3>2, <3>5 DEF KeptAt
  <2>5. CASE ~ IsBelow(n, node) /\ ~ IsBelow(node, n)
    <3>1. n # node BY <2>5, BelowSelf
    <3>2. Over(M, n) <=> Over(L, n) BY <2>5 DEF Over
    <3>3. n \in M <=> n \in L BY <3>1
    <3> HIDE DEF M
    <3> QED BY <1>1, <1>2, <2>5, <3>2, <3>3, Beside
  <2>6. IsBelow(node, n) => n = node \/ IsAbove(n, node) BY DEF IsAbove
  <2> QED BY <2>2, <2>3, <2>4, <2>5, <2>6
<1> QED BY <1>3, <1>5, <1>6 DEF Kept

\* Where the memory of a node begins, and how much it is.
AddrOf(n) == (n - TwoTo[Level(n)]) * TwoTo[BASE_ORDER + NodeOrder(n)]
SpanOf(n) == TwoTo[BASE_ORDER + NodeOrder(n)]

LEMMA SpanIs ==
  ASSUME NEW n \in Node
  PROVE  /\ SpanOf(n) \in Nat \ {0} /\ TwoTo[Level(n)] \in Nat \ {0}
         /\ BASE_ORDER + NodeOrder(n) \in 0 .. Width - 1 /\ Level(n) \in 0 .. Width
         /\ Level(n) \in Nat /\ NodeOrder(n) = MAX_ORDER - Level(n) /\ NodeOrder(n) \in Nat
         /\ n \in Nat /\ TwoTo[Level(n)] <= n /\ n < 2 * TwoTo[Level(n)]
         /\ AddrOf(n) = (n - TwoTo[Level(n)]) * SpanOf(n) /\ AddrOf(n) \in Nat
         /\ TwoTo[Level(n)] * SpanOf(n) = TwoTo[BASE_ORDER + MAX_ORDER]
         /\ TwoTo[BASE_ORDER + MAX_ORDER] \in Nat \ {0}
<1> DEFINE l == Level(n)
           o == NodeOrder(n)
<1>1. /\ l \in 0 .. MAX_ORDER /\ l \in Nat /\ o \in Nat /\ o = MAX_ORDER - l /\ o \in 0 .. MAX_ORDER
      /\ MAX_ORDER \in Nat /\ BASE_ORDER \in Nat /\ Width \in Nat
      /\ BASE_ORDER + MAX_ORDER < Width - 1
  BY OrderOf, Bounds
<1>2. n \in Nat /\ TwoTo[l] <= n /\ n < 2 * TwoTo[l] BY NodeLevel DEF AtLevel
<1> HIDE DEF l, o
<1>3. /\ BASE_ORDER + o \in 0 .. Width - 1 /\ BASE_ORDER + o \in 0 .. Width /\ l \in 0 .. Width
      /\ BASE_ORDER + o \in 0 .. Width - l /\ l + (BASE_ORDER + o) = BASE_ORDER + MAX_ORDER
      /\ BASE_ORDER + MAX_ORDER \in 0 .. Width
  BY <1>1
<1>4. /\ TwoTo[BASE_ORDER + o] \in Nat \ {0} /\ TwoTo[l] \in Nat \ {0}
      /\ TwoTo[BASE_ORDER + MAX_ORDER] \in Nat \ {0}
  BY <1>3, Powers
<1>5. TwoTo[l] * TwoTo[BASE_ORDER + o] = TwoTo[BASE_ORDER + MAX_ORDER] BY <1>3, PowerSum
<1> DEFINE x == TwoTo[l]
           s == TwoTo[BASE_ORDER + o]
<1>6. x \in Nat /\ s \in Nat /\ x <= n BY <1>2, <1>4
<1> HIDE DEF x, s
<1>7. (n - x) * s \in Nat BY <1>2, <1>6
<1>8. SpanOf(n) = s /\ AddrOf(n) = (n - x) * s BY DEF SpanOf, AddrOf, x, s, l, o
<1> QED BY <1>1, <1>2, <1>3, <1>4, <1>5, <1>7, <1>8 DEF l, o, x, s

\* The node of an address, and the memory within the heap.
LEMMA AddrIs ==
  ASSUME NEW n \in Node
  PROVE  /\ AddrOf(n) \in Address
         /\ AddrOf(n) + SpanOf(n) <= TwoTo[BASE_ORDER + MAX_ORDER]
         /\ NodeOf(AddrOf(n), NodeOrder(n)) = n
<1> DEFINE x == TwoTo[Level(n)]
           s == SpanOf(n)
           a == AddrOf(n)
           h == TwoTo[BASE_ORDER + MAX_ORDER]
<1>1. /\ s \in Nat \ {0} /\ x \in Nat \ {0} /\ n \in Nat /\ x <= n /\ n < 2 * x
      /\ a = (n - x) * s /\ a \in Nat /\ x * s = h /\ h \in Nat \ {0}
  BY SpanIs
<1>2. NodeOrder(n) = MAX_ORDER - Level(n) /\ Level(n) \in Nat /\ NodeOrder(n) \in Nat
      /\ MAX_ORDER \in Nat /\ BASE_ORDER \in Nat
  BY SpanIs, Bounds
<1>3. s = TwoTo[NodeOrder(n) + BASE_ORDER] /\ x = TwoTo[MAX_ORDER - NodeOrder(n)]
  <2>1. NodeOrder(n) + BASE_ORDER = BASE_ORDER + NodeOrder(n) /\ MAX_ORDER - NodeOrder(n) = Level(n)
    BY <1>2
  <2> QED BY <2>1 DEF SpanOf
<1>4. NodeOf(a, NodeOrder(n)) = x - 1 + a \div s + 1 BY <1>3 DEF NodeOf
<1> HIDE DEF x, s, a, h
<1> DEFINE y == n - x
<1>5. y \in Nat /\ y + 1 <= x BY <1>1
<1>6. a = y * s BY <1>1
<1>7. n = x + y BY <1>1
<1> HIDE DEF y
<1>8. (y + 1) * s <= x * s /\ (y + 1) * s = y * s + s BY <1>1, <1>5
<1>9. a + s <= h BY <1>1, <1>6, <1>8
<1>10. a \div s = y
  <2>1. a < (y + 1) * s BY <1>1, <1>6, <1>8
  <2> QED BY <1>1, <1>5, <1>6, <2>1, QuotientBound
<1>11. NodeOf(a, NodeOrder(n)) = n BY <1>1, <1>4, <1>5, <1>7, <1>10
<1>12. a \in 0 .. h - 1 BY <1>1, <1>9
<1> QED BY <1>9, <1>11, <1>12 DEF a, s, h, Address

\* The memory of two nodes, neither above the other, has nothing in common.
LEMMA SameLevel ==
  ASSUME NEW a \in Node, NEW n \in Node, Level(a) = Level(n), a < n
  PROVE  AddrOf(a) + SpanOf(a) <= AddrOf(n)
<1> DEFINE x == TwoTo[Level(n)]
           s == SpanOf(n)
<1>1. SpanOf(a) = s
  <2>1. NodeOrder(a) = NodeOrder(n) BY OrderOf
  <2> QED BY <2>1 DEF SpanOf
<1>2. /\ s \in Nat /\ x \in Nat /\ n \in Nat /\ a \in Nat /\ x <= a /\ x <= n
      /\ AddrOf(n) = (n - x) * s /\ AddrOf(a) = (a - x) * s
  BY <1>1, SpanIs
<1> HIDE DEF x, s
<1> DEFINE y == a - x
           z == n - x
<1>3. y \in Nat /\ z \in Nat /\ y + 1 <= z BY <1>2
<1>4. AddrOf(n) = z * s /\ AddrOf(a) = y * s BY <1>2
<1> HIDE DEF y, z
<1>5. (y + 1) * s <= z * s /\ (y + 1) * s = y * s + s BY <1>2, <1>3
<1> QED BY <1>1, <1>4, <1>5

LEMMA WithinAncestor ==
  ASSUME NEW m \in Node, NEW j \in 0 .. Level(m)
  PROVE  /\ AddrOf(Up(m, j)) <= AddrOf(m)
         /\ AddrOf(m) + SpanOf(m) <= AddrOf(Up(m, j)) + SpanOf(Up(m, j))
<1> DEFINE a == Up(m, j)
           p == TwoTo[j]
           r == m % p
           x == TwoTo[Level(a)]
           s == SpanOf(m)
<1>1. a \in Node /\ Level(a) = Level(m) - j BY UpIs
<1>2. /\ s \in Nat \ {0} /\ x \in Nat \ {0} /\ m \in Nat /\ Level(m) \in Nat /\ TwoTo[Level(m)] \in Nat
      /\ AddrOf(m) = (m - TwoTo[Level(m)]) * s
      /\ a \in Nat /\ x <= a /\ AddrOf(a) = (a - x) * SpanOf(a)
  <2> HIDE DEF a
  <2> QED BY <1>1, SpanIs
<1>3. /\ j \in 0 .. Width /\ Level(a) \in 0 .. Width /\ j \in 0 .. Width - Level(a)
      /\ Level(a) + j = Level(m)
      /\ BASE_ORDER + NodeOrder(m) \in 0 .. Width - j
      /\ j + (BASE_ORDER + NodeOrder(m)) = BASE_ORDER + NodeOrder(a)
  <2>1. /\ NodeOrder(m) = MAX_ORDER - Level(m) /\ NodeOrder(a) = MAX_ORDER - Level(a)
        /\ Level(a) \in Nat /\ NodeOrder(a) \in Nat /\ NodeOrder(m) \in Nat
        /\ BASE_ORDER + NodeOrder(a) \in 0 .. Width - 1
        /\ Level(m) \in 0 .. Width
    <3> HIDE DEF a
    <3> QED BY <1>1, SpanIs
  <2>2. MAX_ORDER \in Nat /\ BASE_ORDER \in Nat /\ Width \in Nat BY Bounds
  <2> HIDE DEF a
  <2> QED BY <1>1, <1>2, <2>1, <2>2
<1>4. TwoTo[Level(m)] = x * p /\ SpanOf(a) = p * s
  <2>1. TwoTo[Level(a) + j] = TwoTo[Level(a)] * TwoTo[j] BY <1>3, PowerSum
  <2>2. TwoTo[j + (BASE_ORDER + NodeOrder(m))] = TwoTo[j] * TwoTo[BASE_ORDER + NodeOrder(m)]
    BY <1>3, PowerSum
  <2> QED BY <1>3, <2>1, <2>2 DEF SpanOf
<1>5. p \in Nat \ {0} BY <1>3, Powers
<1>6. a = m \div p BY DEF Up
<1> HIDE DEF a, p, x, s
<1>7. r \in 0 .. p - 1 /\ m = p * a + r BY <1>2, <1>5, <1>6, Division
<1> HIDE DEF r
<1> DEFINE y == a - x
<1>8. y \in Nat /\ a = x + y BY <1>2
<1>9. AddrOf(a) = y * (p * s) BY <1>2, <1>4
<1> HIDE DEF y
<1>10. m - x * p = y * p + r
  <2>1. p * (x + y) = x * p + y * p BY <1>2, <1>5, <1>8
  <2>2. x * p \in Nat /\ y * p \in Nat BY <1>2, <1>5, <1>8
  <2> QED BY <1>7, <1>8, <2>1, <2>2
<1>11. AddrOf(m) = (y * p + r) * s BY <1>2, <1>4, <1>10
<1>12. (y * p + r) * s = y * (p * s) + r * s /\ r * s \in Nat /\ y * (p * s) \in Nat
  BY <1>2, <1>5, <1>7, <1>8
<1>13. r * s + s <= p * s
  <2>1. r + 1 <= p /\ r \in Nat BY <1>5, <1>7
  <2>2. (r + 1) * s <= p * s /\ (r + 1) * s = r * s + s BY <1>2, <1>5, <2>1
  <2> QED BY <2>2
<1>14. AddrOf(a) <= AddrOf(m) /\ AddrOf(m) + s <= AddrOf(a) + SpanOf(a)
  <2>1. AddrOf(m) = AddrOf(a) + r * s /\ AddrOf(a) \in Nat BY <1>9, <1>11, <1>12
  <2>2. p * s \in Nat BY <1>2, <1>5
  <2> QED BY <1>2, <1>4, <1>12, <1>13, <2>1, <2>2
<1> QED BY <1>14 DEF a, s

LEMMA SpansApart ==
  ASSUME NEW n \in Node, NEW m \in Node, ~ IsBelow(n, m), ~ IsBelow(m, n)
  PROVE  AddrOf(n) + SpanOf(n) <= AddrOf(m) \/ AddrOf(m) + SpanOf(m) <= AddrOf(n)
<1>1. ASSUME NEW x \in Node, NEW y \in Node, ~ IsBelow(y, x), Level(x) <= Level(y)
      PROVE  AddrOf(x) + SpanOf(x) <= AddrOf(y) \/ AddrOf(y) + SpanOf(y) <= AddrOf(x)
  <2> DEFINE j == Level(y) - Level(x)
             a == Up(y, j)
  <2>1. Level(x) \in Nat /\ Level(y) \in Nat BY OrderOf
  <2>2. j \in 0 .. Level(y) BY <1>1, <2>1
  <2>3. a \in Node /\ Level(a) = Level(x)
    <3>1. Level(y) - j = Level(x) BY <2>1
    <3> HIDE DEF j
    <3> QED BY <2>2, <3>1, UpIs
  <2>4. a # x BY <1>1, BelowIs
  <2>5. AddrOf(a) <= AddrOf(y) /\ AddrOf(y) + SpanOf(y) <= AddrOf(a) + SpanOf(a)
    <3> HIDE DEF j
    <3> QED BY <2>2, WithinAncestor
  <2> HIDE DEF a, j
  <2>6. /\ AddrOf(a) \in Nat /\ SpanOf(a) \in Nat /\ AddrOf(x) \in Nat /\ SpanOf(x) \in Nat
        /\ AddrOf(y) \in Nat /\ SpanOf(y) \in Nat /\ a \in Nat /\ x \in Nat
    BY <2>3, SpanIs
  <2>7. a < x \/ x < a BY <2>4, <2>6
  <2>8. AddrOf(a) + SpanOf(a) <= AddrOf(x) \/ AddrOf(x) + SpanOf(x) <= AddrOf(a)
    BY <2>3, <2>7, SameLevel
  <2> QED BY <2>5, <2>6, <2>8
<1>2. Level(n) \in Nat /\ Level(m) \in Nat BY OrderOf
<1>3. CASE Level(n) <= Level(m) BY <1>1, <1>3
<1>4. CASE Level(m) <= Level(n) BY <1>1, <1>4
<1> QED BY <1>2, <1>3, <1>4

\* The address of a child.
LEMMA ChildAddr ==
  ASSUME NEW n \in Node, Level(n) # MAX_ORDER
  PROVE  /\ AddrOf(2 * n) = AddrOf(n)
         /\ AddrOf(2 * n + 1) = AddrOf(n) + TwoTo[BASE_ORDER + MAX_ORDER - (Level(n) + 1)]
<1> DEFINE x == TwoTo[Level(n)]
           s == TwoTo[BASE_ORDER + MAX_ORDER - (Level(n) + 1)]
           a == 2 * n
           b == 2 * n + 1
<1>1. /\ x \in Nat /\ x <= n /\ n \in Nat /\ Level(n) \in Nat /\ AddrOf(n) = (n - x) * SpanOf(n)
      /\ NodeOrder(n) = MAX_ORDER - Level(n) /\ NodeOrder(n) \in Nat
      /\ BASE_ORDER + NodeOrder(n) \in 0 .. Width - 1
      /\ MAX_ORDER \in Nat /\ BASE_ORDER \in Nat /\ Width \in Nat /\ Level(n) \in 0 .. Width - 1
  <2>1. Level(n) \in 0 .. MAX_ORDER BY OrderOf
  <2> QED BY <2>1, SpanIs, Bounds
<1>2. ASSUME NEW c \in {a, b}
      PROVE  /\ c \in Node /\ Level(c) = Level(n) + 1 /\ NodeOrder(c) + 1 = NodeOrder(n)
             /\ AddrOf(c) = (c - TwoTo[Level(c)]) * SpanOf(c) /\ NodeOrder(c) \in Nat
             /\ NodeOrder(c) = MAX_ORDER - Level(c)
  <2>1. c \in Node /\ Level(c) = Level(n) + 1 /\ NodeOrder(c) + 1 = NodeOrder(n) BY Halves
  <2> HIDE DEF a, b
  <2> QED BY <2>1, SpanIs
<1>3. TwoTo[Level(n) + 1] = 2 * x BY <1>1, Powers
<1>4. NodeOrder(n) # 0 BY OrderOf
<1>5. ASSUME NEW c \in {a, b} PROVE SpanOf(c) = s
  <2>1. BASE_ORDER + NodeOrder(c) = BASE_ORDER + MAX_ORDER - (Level(n) + 1)
    <3> HIDE DEF a, b, s, x
    <3> QED BY <1>1, <1>2
  <2> QED BY <2>1 DEF SpanOf
<1>6. SpanOf(n) = 2 * s /\ s \in Nat
  <2> DEFINE k == BASE_ORDER + MAX_ORDER - (Level(n) + 1)
  <2>1. k \in 0 .. Width - 1 /\ k + 1 = BASE_ORDER + NodeOrder(n) /\ k \in 0 .. Width
    BY <1>1, <1>4
  <2> HIDE DEF k
  <2>2. TwoTo[k + 1] = 2 * TwoTo[k] /\ TwoTo[k] \in Nat BY <2>1, Powers
  <2> QED BY <2>1, <2>2 DEF SpanOf, k
<1>7. AddrOf(a) = (a - 2 * x) * s /\ AddrOf(b) = (b - 2 * x) * s BY <1>2, <1>3, <1>5
<1> DEFINE y == n - x
<1>8. y \in Nat /\ a - 2 * x = 2 * y /\ b - 2 * x = 2 * y + 1 BY <1>1
<1> HIDE DEF s, y
<1>9. AddrOf(n) = y * (2 * s) BY <1>1, <1>6 DEF y
<1>10. AddrOf(a) = (2 * y) * s /\ AddrOf(b) = (2 * y + 1) * s BY <1>7, <1>8
<1> HIDE DEF a, b
<1>11. (2 * y) * s = y * (2 * s) /\ (2 * y + 1) * s = y * (2 * s) + s BY <1>6, <1>8
<1> QED BY <1>9, <1>10, <1>11 DEF a, b, s

Spot == [node : Nat, addr : Nat]

\* One step of the way down, to level l.
Descend(T, order, x, l) ==
  IF T[2 * x.node] > order THEN [x EXCEPT !.node = 2 * x.node]
  ELSE [node |-> 2 * x.node + 1, addr |-> x.addr + TwoTo[BASE_ORDER + MAX_ORDER - l]]

Descent(f, T, order) ==
  f = [l \in 0 .. MAX_ORDER |->
         IF l = 0 THEN [node |-> 1, addr |-> 0] ELSE Descend(T, order, f[l - 1], l)]

LEMMA DescendType ==
  ASSUME NEW T, NEW order, NEW x \in Spot, NEW l \in 1 .. MAX_ORDER
  PROVE  Descend(T, order, x, l) \in Spot
<1> DEFINE k == BASE_ORDER + MAX_ORDER - l
<1>1. TwoTo[k] \in Nat
  <2>1. k \in 0 .. Width BY Bounds
  <2> HIDE DEF k
  <2> QED BY <2>1, Powers
<1>2. x.node \in Nat /\ x.addr \in Nat BY DEF Spot
<1>3. [x EXCEPT !.node = 2 * x.node] = [node |-> 2 * x.node, addr |-> x.addr] BY DEF Spot
<1>4. 2 * x.node \in Nat /\ 2 * x.node + 1 \in Nat /\ x.addr + TwoTo[k] \in Nat BY <1>1, <1>2
<1>5. /\ [node |-> 2 * x.node, addr |-> x.addr] \in Spot
      /\ [node |-> 2 * x.node + 1, addr |-> x.addr + TwoTo[k]] \in Spot
  <2> HIDE DEF k
  <2> QED BY <1>2, <1>4 DEF Spot
<1> QED BY <1>3, <1>5 DEF Descend

LEMMA DescentExists ==
  ASSUME NEW T, NEW order
  PROVE  \E f : Descent(f, T, order)
<1> DEFINE n == MAX_ORDER
           r == [node |-> 1, addr |-> 0]
           g == [x \in (1 .. n) \X Spot |-> Descend(T, order, x[2], x[1])]
<1>1. n \in Nat BY Bounds
<1>2. \A x \in (1 .. n) \X Spot : Descend(T, order, x[2], x[1]) \in Spot BY DescendType
<1>3. g \in [(1 .. n) \X Spot -> Spot] BY <1>2
<1>4. r \in Spot BY DEF Spot
<1> HIDE DEF r
<1>5. PICK f : Follows(f, n, Spot, r, g)
  <2> HIDE DEF g, n
  <2> QED BY <1>1, <1>3, <1>4, Recursion
<1>6. ASSUME NEW l \in 1 .. n PROVE f[l] = Descend(T, order, f[l - 1], l)
  <2>1. l - 1 \in 0 .. n BY <1>1
  <2>2. f[l - 1] \in Spot BY <1>5, <2>1 DEF Follows
  <2> QED BY <1>5, <2>2 DEF Follows
<1>7. f = [l \in 0 .. n |-> IF l = 0 THEN r ELSE Descend(T, order, f[l - 1], l)]
  <2>1. ASSUME NEW l \in 0 .. n PROVE f[l] = IF l = 0 THEN r ELSE Descend(T, order, f[l - 1], l)
    <3>1. CASE l = 0 BY <1>5, <3>1 DEF Follows
    <3>2. CASE l # 0
      <4>1. l \in 1 .. n BY <1>1, <3>2
      <4> QED BY <1>6, <3>2, <4>1
    <3> QED BY <3>1, <3>2
  <2>2. f \in [0 .. n -> Spot] BY <1>5 DEF Follows
  <2> HIDE DEF n
  <2> QED BY <2>1, <2>2
<1> QED BY <1>7 DEF Descent, r

LEMMA WalkIsDescent ==
  ASSUME NEW T, NEW order
  PROVE  \E f : Descent(f, T, order) /\ Walk(T, order) = f[MAX_ORDER - order]
<1> DEFINE down == CHOOSE f : Descent(f, T, order)
<1>1. Descent(down, T, order) BY DescentExists
<1>2. Walk(T, order) = down[MAX_ORDER - order] BY DEF Walk, Descent, Descend
<1> QED BY <1>1, <1>2

\* What holds on every level of the way down: there is a block of the order below.
Reached(T, L, order, x, l) ==
  /\ x \in Spot /\ x.node \in Node /\ Level(x.node) = l /\ x.addr = AddrOf(x.node)
  /\ T[x.node] > order /\ ~ Over(L, x.node)

LEMMA DescendOne ==
  ASSUME NEW L, Antichain(L), NEW T, Kept(T, L), NEW order \in Nat,
         NEW l \in Nat, l < MAX_ORDER - order,
         NEW x, Reached(T, L, order, x, l)
  PROVE  Reached(T, L, order, Descend(T, order, x, l + 1), l + 1)
<1> DEFINE n == x.node
           o == NodeOrder(n)
           y == Descend(T, order, x, l + 1)
           p == TwoTo[BASE_ORDER + MAX_ORDER - (l + 1)]
<1>1. /\ x \in Spot /\ n \in Node /\ Level(n) = l /\ x.addr = AddrOf(n) /\ T[n] > order /\ ~ Over(L, n)
      /\ T \in Tree /\ KeptAt(T, L, n) /\ L \subseteq Node
  BY DEF Reached, Kept, Antichain
<1>2. MAX_ORDER \in Nat /\ l + 1 \in 1 .. MAX_ORDER /\ l # MAX_ORDER BY Bounds
<1>3. o = MAX_ORDER - l /\ o \in Nat /\ o > order
  <2>1. o = MAX_ORDER - Level(n) /\ o \in Nat
    <3> HIDE DEF n
    <3> QED BY <1>1, OrderOf
  <2> QED BY <1>1, <1>2, <2>1
<1>4. y \in Spot BY <1>1, <1>2, DescendType
<1>5. y = IF T[2 * n] > order THEN [node |-> 2 * n, addr |-> x.addr]
          ELSE [node |-> 2 * n + 1, addr |-> x.addr + p]
  <2>1. [x EXCEPT !.node = 2 * n] = [node |-> 2 * n, addr |-> x.addr] BY <1>1 DEF Spot
  <2> QED BY <2>1 DEF Descend
<1> HIDE DEF n, y, o
<1>6. n \notin L
  <2>1. T[n] \in Nat BY <1>1, <1>2 DEF Tree
  <2>2. T[n] # 0 BY <1>1, <2>1
  <2> QED BY <1>1, <2>2 DEF KeptAt
<1>7. ASSUME NEW c \in {2 * n, 2 * n + 1}
      PROVE  c \in Node /\ Level(c) = l + 1 /\ ~ Over(L, c) /\ T[c] \in Nat
  <2>1. c \in Node /\ Level(c) = l + 1 BY <1>1, <1>2, Halves
  <2>2. ~ Over(L, c) BY <1>1, <1>2, <1>6, ApartChildren
  <2> QED BY <1>1, <1>2, <2>1, <2>2 DEF Tree
<1>8. T[n] = update_block(T[2 * n], T[2 * n + 1], o) BY <1>1, <1>2, <1>6 DEF KeptAt, o
<1>9. AddrOf(2 * n) = x.addr /\ AddrOf(2 * n + 1) = x.addr + p
  BY <1>1, <1>2, ChildAddr
<1>10. CASE T[2 * n] > order
  <2>1. y.node = 2 * n /\ y.addr = x.addr BY <1>5, <1>10
  <2> QED BY <1>4, <1>7, <1>9, <1>10, <2>1 DEF Reached, y
<1>11. CASE ~ (T[2 * n] > order)
  <2>1. y.node = 2 * n + 1 /\ y.addr = x.addr + p BY <1>5, <1>11
  <2>2. T[2 * n] \in Nat /\ T[2 * n + 1] \in Nat BY <1>7
  <2>3. T[2 * n + 1] > order BY <1>1, <1>3, <1>8, <1>11, <2>2 DEF update_block, Biggest
  <2> QED BY <1>4, <1>7, <1>9, <2>1, <2>3 DEF Reached, y
<1> QED BY <1>10, <1>11

\* allocate finds a block of the order that nothing in use shares anything with.
LEMMA WalkFinds ==
  ASSUME NEW L, Antichain(L), NEW T, Kept(T, L), NEW order \in Nat, Has(T, order)
  PROVE  LET w == Walk(T, order)
         IN  /\ w.node \in Node /\ NodeOrder(w.node) = order
             /\ Apart(L, w.node) /\ w.addr = AddrOf(w.node)
<1>0. MAX_ORDER \in Nat BY Bounds
<1>1. 1 \in Node /\ Level(1) = 0 /\ T \in Tree BY Root DEF Kept
<1>2. T[1] \in 0 .. MAX_ORDER + 1 /\ T[1] > order /\ order \in 0 .. MAX_ORDER
  <2>1. T[1] \in 0 .. MAX_ORDER + 1 BY <1>1 DEF Tree
  <2> QED BY <1>0, <2>1 DEF Has
<1> DEFINE n == MAX_ORDER - order
<1>3. n \in Nat /\ n <= MAX_ORDER BY <1>0, <1>2
<1>4. PICK f : Descent(f, T, order) /\ Walk(T, order) = f[n] BY WalkIsDescent
<1>5. \A l \in 0 .. MAX_ORDER :
        f[l] = IF l = 0 THEN [node |-> 1, addr |-> 0] ELSE Descend(T, order, f[l - 1], l)
  BY <1>4 DEF Descent
<1> DEFINE K == {l \in 0 .. n : Reached(T, L, order, f[l], l)}
<1>6. 0 \in K
  <2> DEFINE r == [node |-> 1, addr |-> 0]
  <2>1. f[0] = r BY <1>0, <1>5
  <2>2. r \in Spot /\ r.node = 1 /\ r.addr = 0 BY DEF Spot
  <2>3. AddrOf(1) = 0
    <3>1. TwoTo[0] = 1 BY Powers
    <3>2. SpanOf(1) \in Nat /\ AddrOf(1) = (1 - TwoTo[Level(1)]) * SpanOf(1) BY <1>1, SpanIs
    <3>3. AddrOf(1) = 0 * SpanOf(1) BY <1>1, <3>1, <3>2
    <3> QED BY <3>2, <3>3
  <2>4. ~ Over(L, 1)
    <3>1. ASSUME NEW m \in L, IsBelow(1, m), 1 # m PROVE FALSE
      <4>1. m \in Node BY DEF Antichain
      <4>2. Level(m) < Level(1) /\ Level(m) \in Nat BY <1>1, <3>1, <4>1, BelowSameLevel, OrderOf
      <4> QED BY <1>1, <4>2
    <3> QED BY <3>1 DEF Over
  <2> HIDE DEF r
  <2>5. Reached(T, L, order, f[0], 0) BY <1>1, <1>2, <2>1, <2>2, <2>3, <2>4 DEF Reached
  <2> QED BY <1>3, <2>5
<1>7. ASSUME NEW l \in 0 .. n - 1, l \in K PROVE l + 1 \in K
  <2>1. l + 1 \in 0 .. MAX_ORDER /\ l + 1 # 0 /\ (l + 1) - 1 = l /\ l \in Nat
        /\ l < MAX_ORDER - order /\ l + 1 \in 0 .. n
    BY <1>0, <1>2, <1>3
  <2>2. f[l + 1] = Descend(T, order, f[l], l + 1) BY <1>5, <2>1
  <2>3. Reached(T, L, order, f[l], l) BY <1>7
  <2>4. Reached(T, L, order, f[l + 1], l + 1) BY <2>1, <2>2, <2>3, DescendOne
  <2> QED BY <2>1, <2>4
<1> HIDE DEF K
<1>8. 0 .. n \subseteq K BY <1>3, <1>6, <1>7, Upwards
<1>9. Reached(T, L, order, f[n], n)
  <2>1. n \in K BY <1>3, <1>8
  <2> QED BY <2>1 DEF K
<1> DEFINE w == Walk(T, order)
           m == w.node
<1>10. /\ m \in Node /\ Level(m) = n /\ w.addr = AddrOf(m) /\ T[m] > order /\ ~ Over(L, m)
  BY <1>4, <1>9 DEF Reached
<1> HIDE DEF w, m
<1>11. NodeOrder(m) = order
  <2>1. NodeOrder(m) = MAX_ORDER - Level(m) BY <1>10, OrderOf
  <2> QED BY <1>0, <1>2, <1>10, <2>1
<1>12. Apart(L, m)
  <2>1. Right(T, L, m) BY <1>10, KeptIsRight
  <2>2. T[m] \in Nat BY <1>0, <1>1, <1>10 DEF Tree
  <2>3. T[m] = NodeOrder(m) + 1 BY <1>10, <1>11, <2>1, <2>2 DEF Right
  <2> QED BY <1>10, <2>1, <2>3 DEF Right
<1> QED BY <1>10, <1>11, <1>12 DEF w, m

-----------------------------------------------------------------------------
(***************************************************************************)
(* Sizes and orders.                                                       *)
(***************************************************************************)
\* Rounding a size up to pages does not overflow below isize::MAX.
LEMMA PagesOf ==
  ASSUME NEW size \in 1 .. IsizeMax
  PROVE  next_page_size(size) \in 1 .. TwoTo[Width]
<1> DEFINE p == TwoTo[BASE_ORDER]
           h == TwoTo[Width - 1]
           w == TwoTo[Width]
           x == size + p - 1
           q == x \div p
           r == x % p
<1>1. p \in Nat \ {0} /\ h \in Nat \ {0} /\ w = 2 * h /\ p <= h
  <2>1. /\ BASE_ORDER \in 0 .. Width /\ Width - 1 \in 0 .. Width - 1 /\ (Width - 1) + 1 = Width
        /\ Width - 1 \in 0 .. Width /\ BASE_ORDER <= Width - 1
    BY Bounds
  <2>2. TwoTo[(Width - 1) + 1] = 2 * TwoTo[Width - 1] BY <2>1, Powers
  <2> QED BY <2>1, <2>2, Powers, PowerRises
<1>2. size \in Nat \ {0} /\ size < h BY <1>1 DEF IsizeMax
<1>3. next_page_size(size) = IF size % p = 0 THEN size ELSE (q * p) % w
  BY DEF next_page_size, PAGE_SIZE
<1> HIDE DEF p, h, w
<1>4. x \in Nat BY <1>1, <1>2
<1> HIDE DEF x
<1>5. q \in Nat /\ r \in 0 .. p - 1 /\ x = p * q + r BY <1>1, <1>4, Division
<1> HIDE DEF q, r
<1> DEFINE z == q * p
<1>6. z \in Nat /\ p * q = z BY <1>1, <1>5
<1> HIDE DEF z
<1>7. z >= size /\ z < w BY <1>1, <1>2, <1>5, <1>6 DEF x
<1>8. z % w = z BY <1>1, <1>6, <1>7, Small
<1>9. next_page_size(size) \in {size, z} BY <1>3, <1>8 DEF z
<1> QED BY <1>1, <1>2, <1>6, <1>7, <1>9 DEF w

\* A block of the order is long enough.
LEMMA OrderFits ==
  ASSUME NEW size, next_page_size(size) \in 1 .. TwoTo[Width]
  PROVE  /\ Order(size) \in Nat /\ BASE_ORDER + Order(size) <= Width
         /\ next_page_size(size) <= TwoTo[BASE_ORDER + Order(size)]
<1> DEFINE np == next_page_size(size)
           Fits(k) == TwoTo[k] >= np /\ (k = 0 \/ TwoTo[k - 1] < np)
           K == {k \in 0 .. Width : TwoTo[k] >= np}
           lg == CHOOSE k \in 0 .. Width : Fits(k)
<1>1. Width \in Nat /\ TwoTo[Width] \in Nat /\ BASE_ORDER \in 0 .. Width
  <2>1. Width \in Nat /\ Width \in 0 .. Width /\ BASE_ORDER \in 0 .. Width BY Bounds
  <2> QED BY <2>1, Powers
<1>2. np \in Nat \ {0} /\ np <= TwoTo[Width] BY <1>1
<1> HIDE DEF np
<1>3. Width \in K BY <1>1, <1>2
<1>4. K \in SUBSET Nat /\ K # {} BY <1>1, <1>3
<1>5. PICK k \in K : \A i \in K : k <= i
  <2> HIDE DEF K
  <2> QED BY <1>4, Smallest
<1>6. Fits(k)
  <2>1. CASE k = 0 BY <2>1
  <2>2. CASE k # 0
    <3>1. k - 1 \in 0 .. Width /\ ~ (k <= k - 1) BY <1>1, <2>2
    <3>2. k - 1 \notin K BY <1>5, <3>1
    <3>3. TwoTo[k - 1] \in Nat BY <3>1, Powers
    <3> QED BY <1>2, <3>1, <3>2, <3>3
  <2> QED BY <2>1, <2>2
<1>7. k \in 0 .. Width OBVIOUS
<1> HIDE DEF Fits
<1>8. lg \in 0 .. Width /\ Fits(lg) BY <1>6, <1>7
<1>9. log2(np) = lg BY DEF log2, Fits
<1>10. Order(size) = IF np = 0 \/ lg < BASE_ORDER THEN 0 ELSE lg - BASE_ORDER
  BY <1>9 DEF Order, order_checked, np
<1> HIDE DEF lg
<1>11. TwoTo[lg] \in Nat /\ np <= TwoTo[lg]
  <2>1. TwoTo[lg] \in Nat BY <1>8, Powers
  <2> QED BY <1>2, <1>8, <2>1 DEF Fits
<1>12. CASE lg < BASE_ORDER
  <2>1. Order(size) = 0 BY <1>10, <1>12
  <2>2. BASE_ORDER + Order(size) = BASE_ORDER BY <1>1, <2>1
  <2>3. TwoTo[lg] <= TwoTo[BASE_ORDER] /\ TwoTo[BASE_ORDER] \in Nat
    BY <1>1, <1>8, <1>12, Powers, PowerRises
  <2>4. np <= TwoTo[BASE_ORDER] BY <1>2, <1>11, <2>3
  <2> QED BY <1>1, <2>1, <2>2, <2>4 DEF np
<1>13. CASE ~ (lg < BASE_ORDER)
  <2>1. Order(size) = lg - BASE_ORDER BY <1>2, <1>10, <1>13
  <2>2. Order(size) \in Nat /\ BASE_ORDER + Order(size) = lg BY <1>1, <1>8, <1>13, <2>1
  <2> QED BY <1>1, <1>8, <1>11, <2>2 DEF np
<1> QED BY <1>12, <1>13

-----------------------------------------------------------------------------
(***************************************************************************)
(* The blocks of the program.                                              *)
(***************************************************************************)
\* The node of a block, and what makes it a block of the heap.
NodeAt(b) == NodeOf(b.addr, Order(b.size))
Placed(b) ==
  /\ b.kind = "memory" /\ b.size \in Size
  /\ NodeAt(b) \in Node /\ NodeOrder(NodeAt(b)) = Order(b.size)
  /\ b.addr = AddrOf(NodeAt(b))
  /\ next_page_size(b.size) \in 1 .. TwoTo[Width]

LEMMA PlacedIs ==
  ASSUME NEW b, Placed(b)
  PROVE  /\ NodeAt(b) \in Node /\ b.addr \in Nat /\ next_page_size(b.size) \in Nat \ {0}
         /\ next_page_size(b.size) <= SpanOf(NodeAt(b))
         /\ Bytes(b) \in Address \X (1 .. TwoTo[BASE_ORDER + MAX_ORDER])
         /\ Bytes(b)[1] + Bytes(b)[2] <= TwoTo[BASE_ORDER + MAX_ORDER]
<1> DEFINE n == NodeAt(b)
           np == next_page_size(b.size)
           h == TwoTo[BASE_ORDER + MAX_ORDER]
<1>1. /\ n \in Node /\ NodeOrder(n) = Order(b.size) /\ b.addr = AddrOf(n)
      /\ np \in 1 .. TwoTo[Width]
  BY DEF Placed
<1>2. np <= TwoTo[BASE_ORDER + NodeOrder(n)] BY <1>1, OrderFits
<1>3. np <= SpanOf(n) BY <1>2 DEF SpanOf
<1>4. Bytes(b) = <<b.addr, np>> BY DEF Bytes
<1>5. TwoTo[Width] \in Nat
  <2>1. Width \in 0 .. Width BY Bounds
  <2> QED BY <2>1, Powers
<1> HIDE DEF n, np, h
<1>6. /\ AddrOf(n) \in Address /\ AddrOf(n) \in Nat /\ SpanOf(n) \in Nat
      /\ AddrOf(n) + SpanOf(n) <= h /\ h \in Nat
  BY <1>1, SpanIs, AddrIs DEF h
<1>7. np \in Nat \ {0} /\ np \in 1 .. h /\ b.addr + np <= h BY <1>1, <1>3, <1>5, <1>6
<1>8. Bytes(b)[1] = b.addr /\ Bytes(b)[2] = np /\ Bytes(b) \in Address \X (1 .. h)
  BY <1>1, <1>4, <1>6, <1>7
<1> QED BY <1>1, <1>3, <1>6, <1>7, <1>8 DEF n, np, h

\* Blocks of nodes of which neither is below the other share no byte.
LEMMA PlacedApart ==
  ASSUME NEW b, Placed(b), NEW c, Placed(c),
         ~ IsBelow(NodeAt(b), NodeAt(c)), ~ IsBelow(NodeAt(c), NodeAt(b))
  PROVE  ~ Overlap(Bytes(b), Bytes(c)) /\ Bytes(b) # Bytes(c)
<1> DEFINE n == NodeAt(b)
           m == NodeAt(c)
           x == next_page_size(b.size)
           y == next_page_size(c.size)
<1>1. /\ n \in Node /\ b.addr = AddrOf(n) /\ b.addr \in Nat /\ x \in Nat \ {0} /\ x <= SpanOf(n)
      /\ m \in Node /\ c.addr = AddrOf(m) /\ c.addr \in Nat /\ y \in Nat \ {0} /\ y <= SpanOf(m)
  BY PlacedIs DEF Placed
<1>2. SpanOf(n) \in Nat /\ SpanOf(m) \in Nat
  <2> HIDE DEF n, m, x, y
  <2> QED BY <1>1, SpanIs
<1>3. AddrOf(n) + SpanOf(n) <= AddrOf(m) \/ AddrOf(m) + SpanOf(m) <= AddrOf(n)
  BY <1>1, SpansApart
<1>4. Bytes(b) = <<b.addr, x>> /\ Bytes(c) = <<c.addr, y>> BY DEF Bytes
<1> HIDE DEF n, m, x, y
<1>5. b.addr + x <= c.addr \/ c.addr + y <= b.addr BY <1>1, <1>2, <1>3
<1>6. b.addr # c.addr /\ ~ (b.addr < c.addr + y /\ c.addr < b.addr + x) BY <1>1, <1>5
<1>7. Bytes(b)[1] = b.addr /\ Bytes(b)[2] = x /\ Bytes(c)[1] = c.addr /\ Bytes(c)[2] = y
  BY <1>4
<1> QED BY <1>6, <1>7 DEF Overlap

\* Where a block of memory can be: in a slot, or on its way there.
Places == ({"slot"} \X Caller \X Slot) \cup ({"new"} \X Caller \X {"new"})
AtPlace(p) == IF p[1] = "slot" THEN slots[p[2]][p[3]] ELSE moves[p[2]].new
HeapBlocks == [p \in Places |-> AtPlace(p)]

Used(B) == {p \in Places : B[p].kind = "memory"}
NodesOf(B) == {NodeAt(B[p]) : p \in Used(B)}
ExtentsOf(B) == {Bytes(B[p]) : p \in Used(B)}
Incomparable(n, m) == ~ IsBelow(n, m) /\ ~ IsBelow(m, n)

AreSound(B) ==
  /\ \A p \in Used(B) : Placed(B[p])
  /\ \A p, q \in Used(B) : p # q => Incomparable(NodeAt(B[p]), NodeAt(B[q]))

LEMMA SoundIs ==
  ASSUME NEW B, AreSound(B)
  PROVE  Antichain(NodesOf(B))
<1>1. \A p \in Used(B) : NodeAt(B[p]) \in Node BY DEF AreSound, Placed
<1>2. ASSUME NEW p \in Used(B), NEW q \in Used(B), IsBelow(NodeAt(B[p]), NodeAt(B[q]))
      PROVE  NodeAt(B[p]) = NodeAt(B[q])
  BY <1>2 DEF AreSound, Incomparable
<1> QED BY <1>1, <1>2 DEF Antichain, NodesOf

\* A place that held no memory gets a block of its own.
LEMMA Gained ==
  ASSUME NEW B, AreSound(B), NEW C, NEW p \in Places, B[p].kind # "memory",
         \A q \in Places : q # p => C[q] = B[q],
         Placed(C[p]), Apart(NodesOf(B), NodeAt(C[p]))
  PROVE  /\ AreSound(C)
         /\ NodesOf(C) = NodesOf(B) \cup {NodeAt(C[p])}
         /\ ExtentsOf(C) = ExtentsOf(B) \cup {Bytes(C[p])}
         /\ \A u \in ExtentsOf(B) : ~ Overlap(Bytes(C[p]), u)
<1>1. C[p].kind = "memory" BY DEF Placed
<1>2. Used(C) = Used(B) \cup {p} /\ p \notin Used(B) BY <1>1 DEF Used
<1>3. \A q \in Used(B) : C[q] = B[q] /\ Placed(B[q]) BY <1>2 DEF Used, AreSound
<1>4. ASSUME NEW q \in Used(B)
      PROVE  Incomparable(NodeAt(C[p]), NodeAt(B[q])) /\ Incomparable(NodeAt(B[q]), NodeAt(C[p]))
  <2>1. NodeAt(B[q]) \in NodesOf(B) BY DEF NodesOf
  <2> QED BY <2>1 DEF Apart, Incomparable
<1>5. AreSound(C)
  <2>1. \A q \in Used(C) : Placed(C[q]) BY <1>2, <1>3
  <2>2. ASSUME NEW q \in Used(C), NEW r \in Used(C), q # r
        PROVE  Incomparable(NodeAt(C[q]), NodeAt(C[r]))
    <3>1. CASE q = p
      <4>1. r \in Used(B) BY <1>2, <2>2, <3>1
      <4> QED BY <1>3, <1>4, <3>1, <4>1
    <3>2. CASE r = p
      <4>1. q \in Used(B) BY <1>2, <2>2, <3>2
      <4> QED BY <1>3, <1>4, <3>2, <4>1
    <3>3. CASE q # p /\ r # p
      <4>1. q \in Used(B) /\ r \in Used(B) BY <1>2, <3>3
      <4> QED BY <1>3, <2>2, <4>1 DEF AreSound
    <3> QED BY <3>1, <3>2, <3>3
  <2> QED BY <2>1, <2>2 DEF AreSound
<1>6. NodesOf(C) = NodesOf(B) \cup {NodeAt(C[p])} BY <1>2, <1>3 DEF NodesOf
<1>7. ExtentsOf(C) = ExtentsOf(B) \cup {Bytes(C[p])} BY <1>2, <1>3 DEF ExtentsOf
<1>8. ASSUME NEW u \in ExtentsOf(B) PROVE ~ Overlap(Bytes(C[p]), u)
  <2>1. PICK q \in Used(B) : u = Bytes(B[q]) BY DEF ExtentsOf
  <2>2. Placed(B[q]) BY <1>3
  <2> QED BY <1>4, <2>1, <2>2, PlacedApart DEF Incomparable
<1> QED BY <1>5, <1>6, <1>7, <1>8

\* A place loses its block.
LEMMA Lost ==
  ASSUME NEW B, AreSound(B), NEW C, NEW p \in Used(B), C[p].kind # "memory",
         \A q \in Places : q # p => C[q] = B[q]
  PROVE  /\ AreSound(C)
         /\ NodesOf(C) = NodesOf(B) \ {NodeAt(B[p])}
         /\ ExtentsOf(C) = ExtentsOf(B) \ {Bytes(B[p])}
<1>1. Used(C) = Used(B) \ {p} BY DEF Used
<1>2. \A q \in Used(C) : C[q] = B[q] /\ q \in Used(B) BY <1>1 DEF Used
<1>3. AreSound(C) BY <1>2 DEF AreSound
<1>4. ASSUME NEW q \in Used(B), q # p
      PROVE  NodeAt(B[q]) # NodeAt(B[p]) /\ Bytes(B[q]) # Bytes(B[p])
  <2>1. Placed(B[p]) /\ Placed(B[q]) /\ Incomparable(NodeAt(B[q]), NodeAt(B[p]))
    BY <1>4 DEF AreSound
  <2>2. NodeAt(B[p]) \in Node BY <2>1 DEF Placed
  <2>3. NodeAt(B[q]) # NodeAt(B[p]) BY <2>1, <2>2, BelowSelf DEF Incomparable
  <2> QED BY <2>1, <2>3, PlacedApart DEF Incomparable
<1>5. NodesOf(C) = NodesOf(B) \ {NodeAt(B[p])} BY <1>1, <1>2, <1>4 DEF NodesOf
<1>6. ExtentsOf(C) = ExtentsOf(B) \ {Bytes(B[p])} BY <1>1, <1>2, <1>4 DEF ExtentsOf
<1> QED BY <1>3, <1>5, <1>6

\* The block of one place passes to another.
LEMMA Passed ==
  ASSUME NEW B, AreSound(B), NEW C, NEW p \in Places, NEW r \in Used(B),
         B[p].kind # "memory", C[r].kind # "memory", C[p] = B[r],
         \A q \in Places : q # p /\ q # r => C[q] = B[q]
  PROVE  AreSound(C) /\ NodesOf(C) = NodesOf(B) /\ ExtentsOf(C) = ExtentsOf(B)
<1> DEFINE g(q) == IF q = p THEN r ELSE q
<1>1. p \notin Used(B) /\ p # r /\ Used(C) = (Used(B) \ {r}) \cup {p} BY DEF Used
<1>2. \A q \in Used(C) : g(q) \in Used(B) /\ C[q] = B[g(q)] BY <1>1 DEF Used
<1>3. \A q \in Used(C), s \in Used(C) : q # s => g(q) # g(s) BY <1>1
<1>4. \A q \in Used(B) : \E s \in Used(C) : g(s) = q BY <1>1
<1> HIDE DEF g
<1>5. AreSound(C) BY <1>2, <1>3 DEF AreSound
<1>6. NodesOf(C) = NodesOf(B) BY <1>2, <1>4 DEF NodesOf
<1>7. ExtentsOf(C) = ExtentsOf(B) BY <1>2, <1>4 DEF ExtentsOf
<1> QED BY <1>5, <1>6, <1>7

\* A block is resized in place.
LEMMA Resized ==
  ASSUME NEW B, AreSound(B), NEW C, NEW p \in Used(B),
         Placed(C[p]), NodeAt(C[p]) = NodeAt(B[p]), Bytes(C[p]) = Bytes(B[p]),
         \A q \in Places : q # p => C[q] = B[q]
  PROVE  AreSound(C) /\ NodesOf(C) = NodesOf(B) /\ ExtentsOf(C) = ExtentsOf(B)
<1>1. Used(C) = Used(B) BY DEF Used, Placed
<1>2. \A q \in Used(B) : /\ NodeAt(C[q]) = NodeAt(B[q]) /\ Bytes(C[q]) = Bytes(B[q])
                         /\ Placed(C[q])
  BY DEF Used, AreSound
<1>3. AreSound(C) BY <1>1, <1>2 DEF AreSound
<1>4. NodesOf(C) = NodesOf(B) BY <1>1, <1>2 DEF NodesOf
<1>5. ExtentsOf(C) = ExtentsOf(B) BY <1>1, <1>2 DEF ExtentsOf
<1> QED BY <1>3, <1>4, <1>5

LEMMA PlacesAre ==
  /\ LiveNodes = NodesOf(HeapBlocks)
  /\ InUse = ExtentsOf(HeapBlocks)
<1> DEFINE All == InSlots \cup Moving
<1>1. \A p \in Places : HeapBlocks[p] = AtPlace(p) BY DEF HeapBlocks
<1>2. \A p \in Places : AtPlace(p) \in All
  <2>1. ASSUME NEW p \in {"slot"} \X Caller \X Slot PROVE AtPlace(p) \in InSlots
    BY DEF AtPlace, InSlots
  <2>2. ASSUME NEW p \in {"new"} \X Caller \X {"new"} PROVE AtPlace(p) \in Moving
    BY DEF AtPlace, Moving
  <2> QED BY <2>1, <2>2 DEF Places
<1>3. ASSUME NEW b \in All PROVE \E p \in Places : AtPlace(p) = b
  <2>1. CASE b \in InSlots
    <3>1. PICK t \in Caller, s \in Slot : b = slots[t][s] BY <2>1 DEF InSlots
    <3>2. AtPlace(<<"slot", t, s>>) = b /\ <<"slot", t, s>> \in Places
      BY <3>1 DEF AtPlace, Places
    <3> QED BY <3>2
  <2>2. CASE b \in Moving
    <3>1. PICK t \in Caller : b = moves[t].new BY <2>2 DEF Moving
    <3>2. AtPlace(<<"new", t, "new">>) = b /\ <<"new", t, "new">> \in Places
      BY <3>1 DEF AtPlace, Places
    <3> QED BY <3>2
  <2> QED BY <2>1, <2>2
<1> HIDE DEF All
<1>4. LiveNodes = {NodeAt(b) : b \in {x \in All : x.kind = "memory"}}
  BY DEF LiveNodes, NodeAt, All
<1>5. InUse = {Bytes(b) : b \in {x \in All : x.kind = "memory"}}
  BY DEF InUse, All
<1>6. LiveNodes = NodesOf(HeapBlocks)
  <2>1. ASSUME NEW n \in LiveNodes PROVE n \in NodesOf(HeapBlocks)
    <3>1. PICK b \in All : b.kind = "memory" /\ n = NodeAt(b) BY <1>4
    <3>2. PICK p \in Places : AtPlace(p) = b BY <1>3
    <3> QED BY <1>1, <3>1, <3>2 DEF NodesOf, Used
  <2>2. ASSUME NEW n \in NodesOf(HeapBlocks) PROVE n \in LiveNodes
    BY <1>1, <1>2, <1>4 DEF NodesOf, Used
  <2> QED BY <2>1, <2>2
<1>7. InUse = ExtentsOf(HeapBlocks)
  <2>1. ASSUME NEW n \in InUse PROVE n \in ExtentsOf(HeapBlocks)
    <3>1. PICK b \in All : b.kind = "memory" /\ n = Bytes(b) BY <1>5
    <3>2. PICK p \in Places : AtPlace(p) = b BY <1>3
    <3> QED BY <1>1, <3>1, <3>2 DEF ExtentsOf, Used
  <2>2. ASSUME NEW n \in ExtentsOf(HeapBlocks) PROVE n \in InUse
    BY <1>1, <1>2, <1>5 DEF ExtentsOf, Used
  <2> QED BY <2>1, <2>2
<1> QED BY <1>6, <1>7

-----------------------------------------------------------------------------
(***************************************************************************)
(* The inductive invariant.                                                *)
(***************************************************************************)
SlotBlocks == {Empty, Dangling} \cup {Memory(a, s) : a \in Address, s \in Size}
Underway(t) ==
  /\ moves[t].next \in {"copy", "dealloc"} /\ moves[t].slot \in Slot
  /\ moves[t].new.kind = "memory" /\ slots[t][moves[t].slot].kind = "memory"

HeapTypes ==
  /\ slots \in [Caller -> [Slot -> SlotBlocks]]
  /\ moves \in [Caller -> [next : {"idle", "copy", "dealloc"}, slot : Slot \cup {0},
                           new : SlotBlocks]]
  /\ \A t \in Caller : moves[t] = Returned \/ Underway(t)
  /\ failed \in 0 .. Width

\* What a failed call says of the nodes in use.
Full(f, L) == f # NoOrder => \A n \in Node : NodeOrder(n) = f => ~ Apart(L, n)

HeapInv ==
  /\ HeapTypes /\ AreSound(HeapBlocks)
  /\ Kept(flat_blocks, NodesOf(HeapBlocks))
  /\ Full(failed, NodesOf(HeapBlocks))

\* What a step may do to the extents in use.
HeapExtent ==
  {e \in Address \X (1 .. TwoTo[BASE_ORDER + MAX_ORDER]) :
     e[1] + e[2] <= TwoTo[BASE_ORDER + MAX_ORDER]}
ExtentStep(E, F) ==
  \/ F = E
  \/ \E e \in HeapExtent : (\A u \in E : ~ Overlap(e, u)) /\ F = E \cup {e}
  \/ \E e \in E : F = E \ {e}

\* A step that leads to a good state with the blocks C.
Good(C) ==
  /\ AreSound(C) /\ Kept(flat_blocks', NodesOf(C)) /\ Full(failed', NodesOf(C))
  /\ ExtentStep(ExtentsOf(HeapBlocks), ExtentsOf(C))

LEMMA SlotBlockIs ==
  /\ Empty \in SlotBlocks /\ Dangling \in SlotBlocks
  /\ \A a \in Address, s \in Size : Memory(a, s) \in SlotBlocks
  /\ \A b \in SlotBlocks : b = Empty \/ b = Dangling \/ b.kind = "memory"
  /\ Empty.kind # "memory" /\ Dangling.kind # "memory"
  /\ \A a, s : Memory(a, s).kind = "memory" /\ Memory(a, s).addr = a /\ Memory(a, s).size = s
<1>1. \A a, s : Memory(a, s).kind = "memory" /\ Memory(a, s).addr = a /\ Memory(a, s).size = s
  BY DEF Memory
<1>2. Empty.kind # "memory" /\ Dangling.kind # "memory" BY DEF Empty, Dangling
<1> QED BY <1>1, <1>2 DEF SlotBlocks

\* alloc returns memory that shares nothing with what is in use.
LEMMA Allocated ==
  ASSUME HeapInv, NEW size \in Size \ {0}, NEW addr, AllocOk(size, addr),
         NEW C, NEW p \in Places, HeapBlocks[p].kind # "memory", C[p] = Memory(addr, size),
         \A q \in Places : q # p => C[q] = HeapBlocks[q]
  PROVE  Good(C)
<1> DEFINE B == HeapBlocks
           L == NodesOf(B)
           T == flat_blocks
           o == Order(size)
           w == Walk(T, o)
           n == w.node
           b == Memory(addr, size)
<1>1. AreSound(B) /\ Antichain(L) /\ Kept(T, L) BY SoundIs DEF HeapInv
<1>2. size \in 1 .. IsizeMax
  <2>1. TwoTo[Width] \in Nat /\ TwoTo[Width - 1] \in Nat
    <3>1. Width \in 0 .. Width /\ Width - 1 \in 0 .. Width BY Bounds
    <3> QED BY <3>1, Powers
  <2>2. size \in 0 .. TwoTo[Width] - 1 /\ size # 0 BY BuddyAssumption
  <2>3. size <= IsizeMax BY DEF AllocOk
  <2> QED BY <2>1, <2>2, <2>3 DEF IsizeMax
<1>3. next_page_size(size) \in 1 .. TwoTo[Width] /\ o \in Nat BY <1>2, PagesOf, OrderFits
<1>4. /\ Has(T, o) /\ addr = w.addr /\ flat_blocks' = Above([T EXCEPT ![n] = 0], n, FALSE)
      /\ failed' = NoOrder
  BY DEF AllocOk, Take
<1>5. b.kind = "memory" /\ b.addr = addr /\ b.size = size BY SlotBlockIs
<1>6. C[p] = b OBVIOUS
<1> HIDE DEF B, L, T, o, b
<1>7. n \in Node /\ NodeOrder(n) = o /\ Apart(L, n) /\ w.addr = AddrOf(n)
  BY <1>1, <1>3, <1>4, WalkFinds
<1> HIDE DEF w
<1>8. NodeAt(b) = n
  <2>1. NodeOf(AddrOf(n), NodeOrder(n)) = n BY <1>7, AddrIs
  <2> QED BY <1>4, <1>5, <1>7, <2>1 DEF NodeAt, o
<1>9. Placed(b) BY <1>3, <1>4, <1>5, <1>7, <1>8 DEF Placed, o
<1>10. Renewed(flat_blocks', T, n, 0, FALSE)
  <2>1. T \in Tree /\ 0 \in 0 .. MAX_ORDER + 1 BY <1>1, Bounds DEF Kept
  <2> QED BY <1>4, <1>7, <2>1, RenewedIs
<1>11. Kept(flat_blocks', L \cup {n}) BY <1>1, <1>7, <1>10, Taking
<1>12. /\ AreSound(C) /\ NodesOf(C) = L \cup {n} /\ ExtentsOf(C) = ExtentsOf(B) \cup {Bytes(b)}
       /\ \A u \in ExtentsOf(B) : ~ Overlap(Bytes(b), u)
  BY <1>1, <1>6, <1>7, <1>8, <1>9, Gained DEF B, L
<1>13. Bytes(b) \in HeapExtent BY <1>9, PlacedIs DEF HeapExtent
<1>14. ExtentStep(ExtentsOf(B), ExtentsOf(C)) BY <1>12, <1>13 DEF ExtentStep
<1>15. Full(failed', NodesOf(C)) BY <1>4 DEF Full
<1> QED BY <1>11, <1>12, <1>14, <1>15 DEF Good, B

\* alloc returns null: there is no free block of the order.
LEMMA Refused ==
  ASSUME HeapInv, NEW size \in Size \ {0}, AllocNull(size)
  PROVE  Good(HeapBlocks) /\ failed' \in 0 .. Width
<1> DEFINE B == HeapBlocks
           L == NodesOf(B)
<1>1. /\ AreSound(B) /\ Antichain(L) /\ Kept(flat_blocks, L) /\ flat_blocks' = flat_blocks
  BY SoundIs DEF HeapInv, AllocNull
<1>2. NoOrder \in 0 .. Width BY Bounds DEF NoOrder
<1>3. CASE size > IsizeMax
  <2>1. failed' = NoOrder BY <1>3 DEF AllocNull
  <2> QED BY <1>1, <1>2, <2>1 DEF Good, Full, ExtentStep
<1>4. CASE ~ (size > IsizeMax)
  <2>1. failed' = Order(size) /\ ~ Has(flat_blocks, Order(size)) BY <1>4 DEF AllocNull
  <2>2. size \in 1 .. IsizeMax
    <3>1. TwoTo[Width] \in Nat /\ TwoTo[Width - 1] \in Nat
      <4>1. Width \in 0 .. Width /\ Width - 1 \in 0 .. Width BY Bounds
      <4> QED BY <4>1, Powers
    <3>2. size \in 0 .. TwoTo[Width] - 1 /\ size # 0 BY BuddyAssumption
    <3> QED BY <1>4, <3>1, <3>2 DEF IsizeMax
  <2>3. Order(size) \in Nat /\ BASE_ORDER + Order(size) <= Width /\ BASE_ORDER \in Nat
        /\ Width \in Nat
    BY <2>2, PagesOf, OrderFits, Bounds
  <2>4. failed' \in 0 .. Width BY <2>1, <2>3
  <2>5. Full(failed', L)
    <3> HIDE DEF L
    <3> QED BY <1>1, <2>1, <2>3, HasIs DEF Full
  <2> QED BY <1>1, <2>4, <2>5 DEF Good, ExtentStep
<1> QED BY <1>3, <1>4

\* dealloc merges the block with what is free around it.
LEMMA GivenBack ==
  ASSUME HeapInv, NEW p \in Used(HeapBlocks),
         Dealloc(HeapBlocks[p].addr, HeapBlocks[p].size)
  PROVE  /\ Kept(flat_blocks', NodesOf(HeapBlocks) \ {NodeAt(HeapBlocks[p])})
         /\ failed' = NoOrder
         /\ Bytes(HeapBlocks[p]) \in ExtentsOf(HeapBlocks)
<1> DEFINE B == HeapBlocks
           L == NodesOf(B)
           T == flat_blocks
           b == B[p]
           n == NodeAt(b)
           o == Order(b.size)
<1>1. AreSound(B) /\ Antichain(L) /\ Kept(T, L) BY SoundIs DEF HeapInv
<1>2. Placed(b) BY <1>1 DEF AreSound
<1>3. n \in Node /\ NodeOrder(n) = o BY <1>2 DEF Placed
<1>4. n \in L BY DEF NodesOf
<1>5. flat_blocks' = Above([T EXCEPT ![n] = o + 1], n, TRUE) /\ failed' = NoOrder
  BY DEF Dealloc, Give, NodeAt
<1> HIDE DEF n, o, T, L
<1>6. T \in Tree /\ o + 1 \in 0 .. MAX_ORDER + 1
  <2>1. NodeOrder(n) \in 0 .. MAX_ORDER /\ MAX_ORDER \in Nat BY <1>3, OrderOf, Bounds
  <2> QED BY <1>1, <1>3, <2>1 DEF Kept
<1>7. Renewed(flat_blocks', T, n, NodeOrder(n) + 1, TRUE) BY <1>3, <1>5, <1>6, RenewedIs
<1>8. Kept(flat_blocks', L \ {n}) BY <1>1, <1>4, <1>7, Giving
<1> QED BY <1>5, <1>8 DEF L, n, ExtentsOf

LEMMA Freed ==
  ASSUME HeapInv, NEW p \in Used(HeapBlocks),
         Dealloc(HeapBlocks[p].addr, HeapBlocks[p].size),
         NEW C, C[p].kind # "memory", \A q \in Places : q # p => C[q] = HeapBlocks[q]
  PROVE  Good(C)
<1> DEFINE B == HeapBlocks
<1>1. AreSound(B) BY DEF HeapInv
<1>2. /\ Kept(flat_blocks', NodesOf(B) \ {NodeAt(B[p])}) /\ failed' = NoOrder
      /\ Bytes(B[p]) \in ExtentsOf(B)
  BY GivenBack
<1>3. /\ AreSound(C) /\ NodesOf(C) = NodesOf(B) \ {NodeAt(B[p])}
      /\ ExtentsOf(C) = ExtentsOf(B) \ {Bytes(B[p])}
  BY <1>1, Lost
<1>4. ExtentStep(ExtentsOf(B), ExtentsOf(C)) BY <1>2, <1>3 DEF ExtentStep
<1> QED BY <1>2, <1>3, <1>4 DEF Good, Full

\* A moved block is in its slot once the old one is given back.
LEMMA Replaced ==
  ASSUME HeapInv, NEW p \in Used(HeapBlocks), NEW r \in Used(HeapBlocks), p # r,
         Dealloc(HeapBlocks[p].addr, HeapBlocks[p].size),
         NEW C, C[p] = HeapBlocks[r], C[r] = Empty,
         \A q \in Places : q # p /\ q # r => C[q] = HeapBlocks[q]
  PROVE  Good(C)
<1> DEFINE B == HeapBlocks
           M == [q \in Places |-> IF q = p THEN Empty ELSE B[q]]
<1>1. p \in Places /\ r \in Places /\ B[r].kind = "memory" /\ Empty.kind # "memory"
  BY SlotBlockIs DEF Used
<1>2. M[p] = Empty /\ \A q \in Places : q # p => M[q] = B[q] BY <1>1
<1> HIDE DEF M
<1>3. AreSound(B) BY DEF HeapInv
<1>4. /\ Kept(flat_blocks', NodesOf(B) \ {NodeAt(B[p])}) /\ failed' = NoOrder
      /\ Bytes(B[p]) \in ExtentsOf(B)
  BY GivenBack
<1> HIDE DEF B
<1>5. /\ AreSound(M) /\ NodesOf(M) = NodesOf(B) \ {NodeAt(B[p])}
      /\ ExtentsOf(M) = ExtentsOf(B) \ {Bytes(B[p])}
  BY <1>1, <1>2, <1>3, Lost DEF B
<1>6. r \in Used(M) /\ M[p].kind # "memory" /\ C[r].kind # "memory" /\ C[p] = M[r]
      /\ \A q \in Places : q # p /\ q # r => C[q] = M[q]
  BY <1>1, <1>2 DEF Used, B
<1>7. AreSound(C) /\ NodesOf(C) = NodesOf(M) /\ ExtentsOf(C) = ExtentsOf(M)
  BY <1>1, <1>5, <1>6, Passed
<1>8. ExtentStep(ExtentsOf(B), ExtentsOf(C)) BY <1>4, <1>5, <1>7 DEF ExtentStep
<1> QED BY <1>4, <1>5, <1>7, <1>8 DEF Good, Full, B

\* A step that leaves the memory alone.
LEMMA Untouched ==
  ASSUME HeapInv, UNCHANGED flat_blocks, failed' = NoOrder, NEW C,
         \A q \in Places : \/ C[q] = HeapBlocks[q]
                           \/ C[q].kind # "memory" /\ HeapBlocks[q].kind # "memory"
  PROVE  Good(C)
<1> DEFINE B == HeapBlocks
<1>1. AreSound(B) /\ Kept(flat_blocks, NodesOf(B)) BY DEF HeapInv
<1> HIDE DEF B
<1>2. Used(C) = Used(B) /\ \A q \in Used(B) : C[q] = B[q] BY DEF Used, B
<1>3. AreSound(C) BY <1>1, <1>2 DEF AreSound
<1>4. NodesOf(C) = NodesOf(B) /\ ExtentsOf(C) = ExtentsOf(B) BY <1>2 DEF NodesOf, ExtentsOf
<1> QED BY <1>1, <1>3, <1>4 DEF Good, Full, ExtentStep, B

LEMMA InPlace ==
  ASSUME HeapInv, UNCHANGED flat_blocks, failed' = NoOrder, NEW C,
         NEW p \in Used(HeapBlocks), NEW size \in Size,
         next_page_size(HeapBlocks[p].size) = next_page_size(size),
         C[p] = Memory(HeapBlocks[p].addr, size),
         \A q \in Places : q # p => C[q] = HeapBlocks[q]
  PROVE  Good(C)
<1> DEFINE B == HeapBlocks
           b == B[p]
           c == C[p]
<1>1. AreSound(B) /\ Kept(flat_blocks, NodesOf(B)) BY DEF HeapInv
<1>2. c.kind = "memory" /\ c.addr = b.addr /\ c.size = size BY SlotBlockIs
<1>3. Order(c.size) = Order(b.size) /\ next_page_size(c.size) = next_page_size(b.size)
  BY <1>2 DEF Order
<1>4. NodeAt(c) = NodeAt(b) /\ Bytes(c) = Bytes(b) BY <1>2, <1>3 DEF NodeAt, Bytes
<1>5. Placed(b) BY <1>1 DEF AreSound
<1>6. Placed(c) BY <1>2, <1>3, <1>4, <1>5 DEF Placed
<1>7. AreSound(C) /\ NodesOf(C) = NodesOf(B) /\ ExtentsOf(C) = ExtentsOf(B)
  BY <1>1, <1>4, <1>6, Resized
<1> QED BY <1>1, <1>7 DEF Good, Full, ExtentStep

-----------------------------------------------------------------------------
(***************************************************************************)
(* The steps.                                                              *)
(***************************************************************************)
LEMMA PlaceIs ==
  /\ \A t \in Caller, s \in Slot :
       /\ <<"slot", t, s>> \in Places /\ HeapBlocks[<<"slot", t, s>>] = slots[t][s]
       /\ HeapBlocks'[<<"slot", t, s>>] = slots'[t][s]
  /\ \A t \in Caller :
       /\ <<"new", t, "new">> \in Places /\ HeapBlocks[<<"new", t, "new">>] = moves[t].new
       /\ HeapBlocks'[<<"new", t, "new">>] = moves'[t].new
  /\ \A q \in Places : \/ \E t \in Caller, s \in Slot : q = <<"slot", t, s>>
                       \/ \E t \in Caller : q = <<"new", t, "new">>
<1>1. \A p \in Places : HeapBlocks[p] = AtPlace(p) /\ HeapBlocks'[p] = AtPlace(p)'
  BY DEF HeapBlocks
<1>2. ASSUME NEW t \in Caller, NEW s \in Slot
      PROVE  /\ <<"slot", t, s>> \in Places /\ AtPlace(<<"slot", t, s>>) = slots[t][s]
             /\ AtPlace(<<"slot", t, s>>)' = slots'[t][s]
  BY DEF Places, AtPlace
<1>3. ASSUME NEW t \in Caller
      PROVE  /\ <<"new", t, "new">> \in Places /\ AtPlace(<<"new", t, "new">>) = moves[t].new
             /\ AtPlace(<<"new", t, "new">>)' = moves'[t].new
  BY DEF Places, AtPlace
<1>4. ASSUME NEW q \in Places
      PROVE  \/ \E t \in Caller, s \in Slot : q = <<"slot", t, s>>
             \/ \E t \in Caller : q = <<"new", t, "new">>
  BY DEF Places
<1> QED BY <1>1, <1>2, <1>3, <1>4

\* A slot of a thread that is not in a call of its own changes.
LEMMA SlotChanges ==
  ASSUME HeapTypes, NEW t \in Caller, NEW s \in Slot, NEW b \in SlotBlocks,
         moves[t] = Returned, Hold(t, s, b), UNCHANGED moves, failed' \in 0 .. Width
  PROVE  /\ HeapTypes' /\ HeapBlocks'[<<"slot", t, s>>] = b
         /\ \A q \in Places : q # <<"slot", t, s>> => HeapBlocks'[q] = HeapBlocks[q]
<1>1. /\ slots' \in [Caller -> [Slot -> SlotBlocks]] /\ slots'[t][s] = b
      /\ \A u \in Caller, i \in Slot : <<u, i>> # <<t, s>> => slots'[u][i] = slots[u][i]
  BY DEF HeapTypes, Hold
<1>2. ASSUME NEW u \in Caller PROVE moves'[u] = Returned \/ Underway(u)'
  <2>1. CASE u = t BY <2>1
  <2>2. CASE u # t
    <3>1. moves[u] = Returned \/ Underway(u) BY DEF HeapTypes
    <3>2. Underway(u) => Underway(u)'
      <4> SUFFICES ASSUME Underway(u) PROVE Underway(u)' OBVIOUS
      <4>1. moves[u].slot \in Slot BY DEF Underway
      <4>2. slots'[u][moves[u].slot] = slots[u][moves[u].slot] BY <1>1, <2>2, <4>1
      <4> QED BY <4>2 DEF Underway
    <3> QED BY <3>1, <3>2
  <2> QED BY <2>1, <2>2
<1>3. HeapTypes'
  <2>1. moves' \in [Caller -> [next : {"idle", "copy", "dealloc"}, slot : Slot \cup {0},
                               new : SlotBlocks]]
    BY DEF HeapTypes
  <2>2. \A u \in Caller : moves'[u] = Returned \/ Underway(u)' BY <1>2
  <2> QED BY <1>1, <2>1, <2>2 DEF HeapTypes, SlotBlocks, Address, Empty, Dangling, Memory, Returned
<1>4. HeapBlocks'[<<"slot", t, s>>] = b BY <1>1, PlaceIs
<1>5. ASSUME NEW q \in Places, q # <<"slot", t, s>> PROVE HeapBlocks'[q] = HeapBlocks[q]
  <2>1. CASE \E u \in Caller, i \in Slot : q = <<"slot", u, i>>
    <3>1. PICK u \in Caller, i \in Slot : q = <<"slot", u, i>> BY <2>1
    <3>2. <<u, i>> # <<t, s>> BY <1>5, <3>1
    <3>3. slots'[u][i] = slots[u][i] BY <1>1, <3>2
    <3> QED BY <3>1, <3>3, PlaceIs
  <2>2. CASE \E u \in Caller : q = <<"new", u, "new">> BY <2>2, PlaceIs
  <2> QED BY <2>1, <2>2, PlaceIs
<1> QED BY <1>3, <1>4, <1>5

LEMMA NothingMoves ==
  ASSUME HeapTypes, UNCHANGED <<slots, moves>>, failed' \in 0 .. Width
  PROVE  HeapTypes' /\ HeapBlocks' = HeapBlocks
<1>1. HeapTypes'
  BY DEF HeapTypes, SlotBlocks, Address, Empty, Dangling, Memory, Returned, Underway
<1>2. HeapBlocks' = HeapBlocks BY DEF HeapBlocks, AtPlace
<1> QED BY <1>1, <1>2

LEMMA NoOrderIs == NoOrder \in 0 .. Width
BY Bounds DEF NoOrder

\* Memory for an empty slot.
LEMMA IntoSlot ==
  ASSUME HeapInv, NEW t \in Caller, NEW s \in Slot, NEW size \in Size \ {0},
         moves[t] = Returned, slots[t][s].kind # "memory", UNCHANGED moves,
         \/ \E addr \in Address : AllocOk(size, addr) /\ Hold(t, s, Memory(addr, size))
         \/ AllocNull(size) /\ UNCHANGED slots
  PROVE  HeapTypes' /\ Good(HeapBlocks')
<1>0. HeapTypes BY DEF HeapInv
<1>1. ASSUME NEW addr \in Address, AllocOk(size, addr), Hold(t, s, Memory(addr, size))
      PROVE  HeapTypes' /\ Good(HeapBlocks')
  <2>1. failed' \in 0 .. Width BY <1>1, NoOrderIs DEF AllocOk
  <2>2. Memory(addr, size) \in SlotBlocks BY SlotBlockIs
  <2>3. /\ HeapTypes' /\ HeapBlocks'[<<"slot", t, s>>] = Memory(addr, size)
        /\ \A q \in Places : q # <<"slot", t, s>> => HeapBlocks'[q] = HeapBlocks[q]
    BY <1>0, <1>1, <2>1, <2>2, SlotChanges
  <2>4. <<"slot", t, s>> \in Places /\ HeapBlocks[<<"slot", t, s>>].kind # "memory" BY PlaceIs
  <2>5. Good(HeapBlocks') BY <1>1, <2>3, <2>4, Allocated
  <2> QED BY <2>3, <2>5
<1>2. ASSUME AllocNull(size), UNCHANGED slots PROVE HeapTypes' /\ Good(HeapBlocks')
  <2>1. Good(HeapBlocks) /\ failed' \in 0 .. Width BY <1>2, Refused
  <2>2. HeapTypes' /\ HeapBlocks' = HeapBlocks BY <1>0, <1>2, <2>1, NothingMoves
  <2> QED BY <2>1, <2>2
<1> QED BY <1>1, <1>2

LEMMA AllocateStep ==
  ASSUME HeapInv, NEW t \in Caller, NEW s \in Slot, NEW size \in Size, Allocate(t, s, size)
  PROVE  HeapTypes' /\ Good(HeapBlocks')
<1>0. HeapTypes /\ moves[t] = Returned /\ slots[t][s] = Empty /\ UNCHANGED moves
  BY DEF HeapInv, Allocate
<1>1. slots[t][s].kind # "memory" BY <1>0, SlotBlockIs
<1>2. CASE size = 0 /\ Hold(t, s, Dangling) /\ failed' = NoOrder /\ UNCHANGED flat_blocks
  <2>1. Dangling \in SlotBlocks /\ Dangling.kind # "memory" BY SlotBlockIs
  <2>2. /\ HeapTypes' /\ HeapBlocks'[<<"slot", t, s>>] = Dangling
        /\ \A q \in Places : q # <<"slot", t, s>> => HeapBlocks'[q] = HeapBlocks[q]
    BY <1>0, <1>2, <2>1, NoOrderIs, SlotChanges
  <2>3. HeapBlocks[<<"slot", t, s>>].kind # "memory" BY <1>1, PlaceIs
  <2>4. Good(HeapBlocks') BY <1>2, <2>1, <2>2, <2>3, Untouched
  <2> QED BY <2>2, <2>4
<1>3. CASE size # 0 /\ \/ \E addr \in Address : AllocOk(size, addr) /\ Hold(t, s, Memory(addr, size))
                       \/ AllocNull(size) /\ UNCHANGED slots
  BY <1>0, <1>1, <1>3, IntoSlot
<1> QED BY <1>2, <1>3 DEF Allocate

LEMMA DeallocateStep ==
  ASSUME HeapInv, NEW t \in Caller, NEW s \in Slot, Deallocate(t, s)
  PROVE  HeapTypes' /\ Good(HeapBlocks')
<1>0. HeapTypes /\ moves[t] = Returned /\ slots[t][s] # Empty /\ UNCHANGED moves /\ Hold(t, s, Empty)
  BY DEF HeapInv, Deallocate
<1>1. failed' \in 0 .. Width /\ failed' = NoOrder BY NoOrderIs DEF Deallocate, Dealloc
<1>2. Empty \in SlotBlocks /\ Empty.kind # "memory" BY SlotBlockIs
<1>3. /\ HeapTypes' /\ HeapBlocks'[<<"slot", t, s>>] = Empty
      /\ \A q \in Places : q # <<"slot", t, s>> => HeapBlocks'[q] = HeapBlocks[q]
  BY <1>0, <1>1, <1>2, SlotChanges
<1>4. <<"slot", t, s>> \in Places /\ HeapBlocks[<<"slot", t, s>>] = slots[t][s] BY PlaceIs
<1>5. CASE slots[t][s] = Dangling
  <2>1. HeapBlocks[<<"slot", t, s>>].kind # "memory" BY <1>4, <1>5, SlotBlockIs
  <2>2. UNCHANGED flat_blocks BY <1>5 DEF Deallocate
  <2>3. Good(HeapBlocks') BY <1>1, <1>2, <1>3, <2>1, <2>2, Untouched
  <2> QED BY <1>3, <2>3
<1>6. CASE slots[t][s] # Dangling
  <2>1. slots[t][s].kind = "memory"
    <3>1. slots[t][s] \in SlotBlocks BY <1>0 DEF HeapTypes
    <3> QED BY <1>0, <1>6, <3>1, SlotBlockIs
  <2>2. <<"slot", t, s>> \in Used(HeapBlocks) BY <1>4, <2>1 DEF Used
  <2>3. Dealloc(HeapBlocks[<<"slot", t, s>>].addr, HeapBlocks[<<"slot", t, s>>].size)
    BY <1>4, <1>6 DEF Deallocate
  <2>4. Good(HeapBlocks') BY <1>2, <1>3, <2>2, <2>3, Freed
  <2> QED BY <1>3, <2>4
<1> QED BY <1>5, <1>6

\* A call takes a second block, or leaves the first alone.
LEMMA MoveStep ==
  ASSUME HeapInv, NEW t \in Caller, NEW s \in Slot, NEW size \in Size \ {0},
         moves[t] = Returned, slots[t][s].kind = "memory", Move(t, s, size)
  PROVE  HeapTypes' /\ Good(HeapBlocks')
<1>0. HeapTypes BY DEF HeapInv
<1>1. ASSUME NEW addr \in Address, AllocOk(size, addr), UNCHANGED slots,
             moves' = [moves EXCEPT ![t] =
                        [next |-> "copy", slot |-> s, new |-> Memory(addr, size)]]
      PROVE  HeapTypes' /\ Good(HeapBlocks')
  <2> DEFINE b == Memory(addr, size)
             m == [next |-> "copy", slot |-> s, new |-> b]
  <2>1. failed' \in 0 .. Width BY <1>1, NoOrderIs DEF AllocOk
  <2>2. b \in SlotBlocks /\ b.kind = "memory" BY SlotBlockIs
  <2> HIDE DEF b
  <2>3. m.next = "copy" /\ m.slot = s /\ m.new = b
        /\ m \in [next : {"idle", "copy", "dealloc"}, slot : Slot \cup {0}, new : SlotBlocks]
    BY <2>2
  <2>4. moves'= [moves EXCEPT ![t] = m] BY <1>1 DEF b
  <2> HIDE DEF m
  <2>5. /\ moves'[t] = m /\ \A u \in Caller : u # t => moves'[u] = moves[u]
        /\ moves' \in [Caller -> [next : {"idle", "copy", "dealloc"}, slot : Slot \cup {0},
                                  new : SlotBlocks]]
    BY <1>0, <2>3, <2>4 DEF HeapTypes
  <2>6. ASSUME NEW u \in Caller PROVE moves'[u] = Returned \/ Underway(u)'
    <3>1. CASE u = t
      <4>1. Underway(t)' BY <1>1, <2>2, <2>3, <2>5 DEF Underway
      <4> QED BY <3>1, <4>1
    <3>2. CASE u # t
      <4>1. moves[u] = Returned \/ Underway(u) BY <1>0 DEF HeapTypes
      <4>2. moves'[u] = moves[u] BY <2>5, <3>2
      <4> QED BY <1>1, <4>1, <4>2 DEF Underway
    <3> QED BY <3>1, <3>2
  <2>7. HeapTypes'
    <3>1. slots' \in [Caller -> [Slot -> SlotBlocks]] BY <1>0, <1>1 DEF HeapTypes
    <3> QED BY <2>1, <2>5, <2>6, <3>1
            DEF HeapTypes, SlotBlocks, Address, Empty, Dangling, Memory, Returned
  <2>8. HeapBlocks'[<<"new", t, "new">>] = b BY <2>3, <2>5, PlaceIs
  <2>9. ASSUME NEW q \in Places, q # <<"new", t, "new">> PROVE HeapBlocks'[q] = HeapBlocks[q]
    <3>1. CASE \E u \in Caller, i \in Slot : q = <<"slot", u, i>> BY <1>1, <3>1, PlaceIs
    <3>2. CASE \E u \in Caller : q = <<"new", u, "new">>
      <4>1. PICK u \in Caller : q = <<"new", u, "new">> BY <3>2
      <4>2. u # t BY <2>9, <4>1
      <4>3. moves'[u] = moves[u] BY <2>5, <4>2
      <4> QED BY <4>1, <4>3, PlaceIs
    <3> QED BY <3>1, <3>2, PlaceIs
  <2>10. <<"new", t, "new">> \in Places /\ HeapBlocks[<<"new", t, "new">>].kind # "memory"
    <3>1. HeapBlocks[<<"new", t, "new">>] = moves[t].new /\ <<"new", t, "new">> \in Places BY PlaceIs
    <3>2. moves[t].new = Empty BY DEF Returned
    <3> QED BY <3>1, <3>2, SlotBlockIs
  <2>11. Good(HeapBlocks') BY <1>1, <2>8, <2>9, <2>10, Allocated DEF b
  <2> QED BY <2>7, <2>11
<1>2. ASSUME AllocNull(size), UNCHANGED <<slots, moves>> PROVE HeapTypes' /\ Good(HeapBlocks')
  <2>1. Good(HeapBlocks) /\ failed' \in 0 .. Width BY <1>2, Refused
  <2>2. HeapTypes' /\ HeapBlocks' = HeapBlocks BY <1>0, <1>2, <2>1, NothingMoves
  <2> QED BY <2>1, <2>2
<1> QED BY <1>1, <1>2 DEF Move

LEMMA ReallocStep ==
  ASSUME HeapInv, NEW t \in Caller, NEW s \in Slot, NEW size \in Size, Realloc(t, s, size)
  PROVE  HeapTypes' /\ Good(HeapBlocks')
<1>0. HeapTypes /\ moves[t] = Returned /\ slots[t][s].kind = "memory" /\ size \in Size \ {0}
  BY DEF HeapInv, Realloc
<1>1. CASE /\ next_page_size(slots[t][s].size) = next_page_size(size)
           /\ Hold(t, s, Memory(slots[t][s].addr, size))
           /\ failed' = NoOrder /\ UNCHANGED <<flat_blocks, moves>>
  <2> DEFINE p == <<"slot", t, s>>
             b == Memory(slots[t][s].addr, size)
  <2>1. p \in Places /\ HeapBlocks[p] = slots[t][s] BY PlaceIs
  <2>2. p \in Used(HeapBlocks) BY <1>0, <2>1 DEF Used
  <2>3. slots[t][s].addr \in Address
    <3>1. Placed(HeapBlocks[p]) BY <2>2 DEF HeapInv, AreSound
    <3>2. NodeAt(HeapBlocks[p]) \in Node /\ HeapBlocks[p].addr = AddrOf(NodeAt(HeapBlocks[p]))
      BY <3>1 DEF Placed
    <3> QED BY <2>1, <3>2, AddrIs
  <2>4. b \in SlotBlocks BY <2>3, SlotBlockIs
  <2> HIDE DEF b
  <2>5. /\ HeapTypes' /\ HeapBlocks'[p] = b
        /\ \A q \in Places : q # p => HeapBlocks'[q] = HeapBlocks[q]
    BY <1>0, <1>1, <2>4, NoOrderIs, SlotChanges DEF b
  <2> HIDE DEF p
  <2>6. Good(HeapBlocks') BY <1>0, <1>1, <2>1, <2>2, <2>5, InPlace DEF b
  <2> QED BY <2>5, <2>6
<1>2. CASE Move(t, s, size) BY <1>0, <1>2, MoveStep
<1> QED BY <1>1, <1>2 DEF Realloc

LEMMA GrowStep ==
  ASSUME HeapInv, NEW t \in Caller, NEW s \in Slot, NEW size \in Size, Grow(t, s, size)
  PROVE  HeapTypes' /\ Good(HeapBlocks')
<1>0. moves[t] = Returned /\ size \in Size \ {0} BY DEF Grow
<1>1. CASE slots[t][s].kind = "memory" /\ Move(t, s, size) BY <1>0, <1>1, MoveStep
<1>2. CASE /\ slots[t][s] = Dangling
           /\ \/ \E addr \in Address : AllocOk(size, addr) /\ Hold(t, s, Memory(addr, size))
              \/ AllocNull(size) /\ UNCHANGED slots
           /\ UNCHANGED moves
  <2>1. slots[t][s].kind # "memory" BY <1>2, SlotBlockIs
  <2> QED BY <1>0, <1>2, <2>1, IntoSlot
<1> QED BY <1>1, <1>2 DEF Grow

LEMMA CopyStep ==
  ASSUME HeapInv, NEW t \in Caller, Copy(t)
  PROVE  HeapTypes' /\ Good(HeapBlocks')
<1>0. /\ HeapTypes /\ moves[t].next = "copy" /\ UNCHANGED <<flat_blocks, slots>>
      /\ moves' = [moves EXCEPT ![t].next = "dealloc"] /\ failed' = NoOrder
  BY DEF HeapInv, Copy
<1>1. moves[t] # Returned /\ Underway(t) BY <1>0 DEF HeapTypes, Returned
<1>2. /\ moves'[t] = [moves[t] EXCEPT !.next = "dealloc"]
      /\ \A u \in Caller : u # t => moves'[u] = moves[u]
      /\ moves[t] \in [next : {"idle", "copy", "dealloc"}, slot : Slot \cup {0}, new : SlotBlocks]
  BY <1>0 DEF HeapTypes
<1>3. /\ moves'[t].next = "dealloc" /\ moves'[t].slot = moves[t].slot
      /\ moves'[t].new = moves[t].new
      /\ moves'[t] \in [next : {"idle", "copy", "dealloc"}, slot : Slot \cup {0}, new : SlotBlocks]
  BY <1>2
<1>4. moves' \in [Caller -> [next : {"idle", "copy", "dealloc"}, slot : Slot \cup {0},
                             new : SlotBlocks]]
  <2>1. \A u \in Caller : moves[u] \in [next : {"idle", "copy", "dealloc"}, slot : Slot \cup {0},
                                        new : SlotBlocks]
    BY <1>0 DEF HeapTypes
  <2>2. moves' = [u \in Caller |-> moves'[u]] BY <1>0 DEF HeapTypes
  <2> QED BY <1>2, <1>3, <2>1, <2>2
<1>5. ASSUME NEW u \in Caller PROVE moves'[u] = Returned \/ Underway(u)'
  <2>1. CASE u = t
    <3>1. Underway(t)' BY <1>0, <1>1, <1>3 DEF Underway
    <3> QED BY <2>1, <3>1
  <2>2. CASE u # t
    <3>1. moves[u] = Returned \/ Underway(u) BY <1>0 DEF HeapTypes
    <3> QED BY <1>0, <1>2, <2>2, <3>1 DEF Underway
  <2> QED BY <2>1, <2>2
<1>6. HeapTypes'
  <2>1. slots' \in [Caller -> [Slot -> SlotBlocks]] BY <1>0 DEF HeapTypes
  <2>2. failed' \in 0 .. Width BY <1>0, NoOrderIs
  <2> QED BY <1>4, <1>5, <2>1, <2>2
          DEF HeapTypes, SlotBlocks, Address, Empty, Dangling, Memory, Returned
<1>7. ASSUME NEW q \in Places PROVE HeapBlocks'[q] = HeapBlocks[q]
  <2>1. CASE \E u \in Caller, i \in Slot : q = <<"slot", u, i>> BY <1>0, <2>1, PlaceIs
  <2>2. CASE \E u \in Caller : q = <<"new", u, "new">>
    <3>1. PICK u \in Caller : q = <<"new", u, "new">> BY <2>2
    <3>2. moves'[u].new = moves[u].new BY <1>2, <1>3
    <3> QED BY <3>1, <3>2, PlaceIs
  <2> QED BY <2>1, <2>2, PlaceIs
<1>8. Good(HeapBlocks') BY <1>0, <1>7, Untouched
<1> QED BY <1>6, <1>8

LEMMA DeallocOldStep ==
  ASSUME HeapInv, NEW t \in Caller, DeallocOld(t)
  PROVE  HeapTypes' /\ Good(HeapBlocks')
<1> DEFINE s == moves[t].slot
           b == moves[t].new
           p == <<"slot", t, s>>
           r == <<"new", t, "new">>
<1>0. /\ HeapTypes /\ moves[t].next = "dealloc" /\ Dealloc(slots[t][s].addr, slots[t][s].size)
      /\ Hold(t, s, b) /\ moves' = [moves EXCEPT ![t] = Returned]
  BY DEF HeapInv, DeallocOld
<1>1. moves[t] # Returned /\ Underway(t) BY <1>0 DEF HeapTypes, Returned
<1>2. s \in Slot /\ b.kind = "memory" /\ slots[t][s].kind = "memory" BY <1>1 DEF Underway
<1>3. b \in SlotBlocks BY <1>0 DEF HeapTypes
<1>4. Returned \in [next : {"idle", "copy", "dealloc"}, slot : Slot \cup {0}, new : SlotBlocks]
  BY SlotBlockIs DEF Returned
<1> HIDE DEF s, b
<1>5. /\ slots' \in [Caller -> [Slot -> SlotBlocks]] /\ slots'[t][s] = b
      /\ \A u \in Caller, i \in Slot : <<u, i>> # <<t, s>> => slots'[u][i] = slots[u][i]
  BY <1>0, <1>2, <1>3 DEF HeapTypes, Hold
<1>6. /\ moves' \in [Caller -> [next : {"idle", "copy", "dealloc"}, slot : Slot \cup {0},
                                new : SlotBlocks]]
      /\ moves'[t] = Returned /\ \A u \in Caller : u # t => moves'[u] = moves[u]
  BY <1>0, <1>4 DEF HeapTypes
<1>7. ASSUME NEW u \in Caller PROVE moves'[u] = Returned \/ Underway(u)'
  <2>1. CASE u = t BY <1>6, <2>1
  <2>2. CASE u # t
    <3>1. moves[u] = Returned \/ Underway(u) BY <1>0 DEF HeapTypes
    <3>2. Underway(u) => Underway(u)'
      <4> SUFFICES ASSUME Underway(u) PROVE Underway(u)' OBVIOUS
      <4>1. moves[u].slot \in Slot BY DEF Underway
      <4>2. slots'[u][moves[u].slot] = slots[u][moves[u].slot] BY <1>5, <2>2, <4>1
      <4> QED BY <1>6, <2>2, <4>2 DEF Underway
    <3> QED BY <1>6, <2>2, <3>1, <3>2
  <2> QED BY <2>1, <2>2
<1>8. failed' = NoOrder BY <1>0 DEF Dealloc
<1>9. HeapTypes'
  BY <1>5, <1>6, <1>7, <1>8, NoOrderIs
     DEF HeapTypes, SlotBlocks, Address, Empty, Dangling, Memory, Returned
<1>10. /\ p \in Places /\ r \in Places /\ HeapBlocks[p] = slots[t][s] /\ HeapBlocks[r] = b
       /\ HeapBlocks'[p] = b /\ HeapBlocks'[r] = Empty /\ p # r
  <2>1. moves'[t].new = Empty BY <1>6 DEF Returned
  <2>2. p # r OBVIOUS
  <2> QED BY <1>2, <1>5, <2>1, <2>2, PlaceIs DEF b
<1>11. ASSUME NEW q \in Places, q # p, q # r PROVE HeapBlocks'[q] = HeapBlocks[q]
  <2>1. CASE \E u \in Caller, i \in Slot : q = <<"slot", u, i>>
    <3>1. PICK u \in Caller, i \in Slot : q = <<"slot", u, i>> BY <2>1
    <3>2. <<u, i>> # <<t, s>> BY <1>11, <3>1
    <3>3. slots'[u][i] = slots[u][i] BY <1>5, <3>2
    <3> QED BY <3>1, <3>3, PlaceIs
  <2>2. CASE \E u \in Caller : q = <<"new", u, "new">>
    <3>1. PICK u \in Caller : q = <<"new", u, "new">> BY <2>2
    <3>2. u # t BY <1>11, <3>1
    <3>3. moves'[u].new = moves[u].new BY <1>6, <3>2
    <3> QED BY <3>1, <3>3, PlaceIs
  <2> QED BY <2>1, <2>2, PlaceIs
<1> HIDE DEF p, r
<1>12. p \in Used(HeapBlocks) /\ r \in Used(HeapBlocks) BY <1>2, <1>10 DEF Used
<1>13. Good(HeapBlocks')
  <2>1. Dealloc(HeapBlocks[p].addr, HeapBlocks[p].size) BY <1>0, <1>10
  <2> QED BY <1>10, <1>11, <1>12, <2>1, Replaced
<1> QED BY <1>9, <1>13

LEMMA HeapStep ==
  ASSUME HeapInv, [BuddyNext]_buddyVars
  PROVE  HeapInv' /\ ExtentStep(ExtentsOf(HeapBlocks), ExtentsOf(HeapBlocks)')
<1>1. ASSUME BuddyNext PROVE HeapTypes' /\ Good(HeapBlocks')
  <2> SUFFICES ASSUME NEW t \in Caller,
                      \/ Copy(t)
                      \/ DeallocOld(t)
                      \/ \E s \in Slot :
                           \/ Deallocate(t, s)
                           \/ \E size \in Size : \/ Allocate(t, s, size) \/ Realloc(t, s, size)
                                                 \/ Grow(t, s, size)
               PROVE  HeapTypes' /\ Good(HeapBlocks')
    BY <1>1 DEF BuddyNext
  <2> QED BY CopyStep, DeallocOldStep, DeallocateStep, AllocateStep, ReallocStep, GrowStep
<1>2. ASSUME UNCHANGED buddyVars PROVE HeapTypes' /\ Good(HeapBlocks')
  <2>1. HeapTypes' /\ HeapBlocks' = HeapBlocks
    BY <1>2, NothingMoves DEF HeapInv, HeapTypes, buddyVars
  <2>2. Good(HeapBlocks) BY <1>2 DEF Good, HeapInv, ExtentStep, buddyVars
  <2> QED BY <2>1, <2>2
<1>3. HeapTypes' /\ Good(HeapBlocks') BY <1>1, <1>2
<1> QED BY <1>3 DEF Good, HeapInv

LEMMA HeapInit ==
  ASSUME BuddyInit
  PROVE  HeapInv /\ InUse = {}
<1> DEFINE B == HeapBlocks
           T == flat_blocks
<1>1. /\ T = NewTree /\ slots = [t \in Caller |-> [s \in Slot |-> Empty]]
      /\ moves = [t \in Caller |-> Returned] /\ failed = NoOrder
  BY DEF BuddyInit
<1>2. HeapTypes
  <2>1. Returned \in [next : {"idle", "copy", "dealloc"}, slot : Slot \cup {0}, new : SlotBlocks]
    BY SlotBlockIs DEF Returned
  <2>2. slots \in [Caller -> [Slot -> SlotBlocks]] BY <1>1, SlotBlockIs
  <2> QED BY <1>1, <2>1, <2>2, NoOrderIs DEF HeapTypes
<1>3. Used(B) = {}
  <2>1. ASSUME NEW q \in Places PROVE B[q] = Empty
    <3>1. CASE \E u \in Caller, i \in Slot : q = <<"slot", u, i>> BY <1>1, <3>1, PlaceIs
    <3>2. CASE \E u \in Caller : q = <<"new", u, "new">> BY <1>1, <3>2, PlaceIs DEF Returned
    <3> QED BY <3>1, <3>2, PlaceIs
  <2> QED BY <2>1, SlotBlockIs DEF Used
<1>4. AreSound(B) /\ NodesOf(B) = {} /\ ExtentsOf(B) = {} BY <1>3 DEF AreSound, NodesOf, ExtentsOf
<1>5. \A n \in Node : T[n] = NodeOrder(n) + 1 BY <1>1 DEF NewTree
<1>6. Kept(T, {})
  <2>1. T \in Tree
    <3>1. MAX_ORDER \in Nat BY Bounds
    <3>2. \A n \in Node : NodeOrder(n) + 1 \in 0 .. MAX_ORDER + 1 BY <3>1, OrderOf
    <3> QED BY <1>1, <3>2 DEF Tree, NewTree
  <2>2. ASSUME NEW n \in Node PROVE KeptAt(T, {}, n)
    <3>1. Level(n) = MAX_ORDER => T[n] = 1
      <4>1. Level(n) = MAX_ORDER => NodeOrder(n) = 0 BY OrderOf
      <4> QED BY <1>5, <4>1
    <3>2. ASSUME Level(n) # MAX_ORDER
          PROVE  T[n] = update_block(T[2 * n], T[2 * n + 1], NodeOrder(n))
      <4>1. ASSUME NEW c \in {2 * n, 2 * n + 1} PROVE T[c] = NodeOrder(n)
        <5>1. c \in Node /\ NodeOrder(c) + 1 = NodeOrder(n) BY <3>2, Halves
        <5> QED BY <1>5, <5>1
      <4> HIDE DEF T
      <4>2. T[2 * n] = NodeOrder(n) /\ T[2 * n + 1] = NodeOrder(n) BY <4>1
      <4> QED BY <1>5, <4>2 DEF update_block
    <3> QED BY <3>1, <3>2 DEF KeptAt, Over
  <2> QED BY <2>1, <2>2 DEF Kept
<1>7. Full(failed, NodesOf(B)) BY <1>1 DEF Full
<1> QED BY <1>2, <1>4, <1>6, <1>7, PlacesAre DEF HeapInv

\* alloc, dealloc, realloc and grow keep the tree the children's sum of what the
\* blocks in the threads' hands leave over, and no two of them lie in one node.
THEOREM HeapInvariant == BuddySpec => []HeapInv
<1>1. BuddyInit => HeapInv BY HeapInit
<1>2. HeapInv /\ [BuddyNext]_buddyVars => HeapInv' BY HeapStep
<1> QED BY <1>1, <1>2, PTL DEF BuddySpec

\* Every node of flat_blocks that update_block can reach is the largest order free
\* below it: allocate and deallocate leave no stale parent behind.
THEOREM TreeAlwaysMatches == BuddySpec => []TreeMatchesLive
<1>1. HeapInv => TreeMatchesLive
  <2>1. HeapInv => Antichain(LiveNodes) /\ Kept(flat_blocks, LiveNodes)
    BY SoundIs, PlacesAre DEF HeapInv
  <2> QED BY <2>1, TreeMatches
<1> QED BY <1>1, HeapInvariant, PTL

\* alloc answers null only when no aligned block of the order is free: the halves
\* that deallocate frees are always merged as far as they can be.
THEOREM NullAlwaysWhenFull == BuddySpec => []NullOnlyWhenFull
<1>1. HeapInv => NullOnlyWhenFull
  BY PlacesAre DEF HeapInv, Full, NullOnlyWhenFull, FreeNode, Apart
<1> QED BY <1>1, HeapInvariant, PTL

\* What alloc, realloc and grow return lies in the heap and overlaps nothing that
\* a thread holds, its own block that is being copied included.
THEOREM BuddyImplementsContract == BuddySpec => HeapImplementsContract
<1>0. InUse' = ExtentsOf(HeapBlocks)'
  <2>1. InUse = ExtentsOf(HeapBlocks) BY PlacesAre
  <2>2. (InUse = ExtentsOf(HeapBlocks))' BY <2>1, PTL
  <2> QED BY <2>2
<1>1. BuddyInit => BuddyContract!Init BY HeapInit DEF BuddyContract!Init
<1>2. HeapInv /\ [BuddyNext]_buddyVars => [BuddyContract!Next]_InUse
  <2> SUFFICES ASSUME HeapInv, [BuddyNext]_buddyVars PROVE [BuddyContract!Next]_InUse OBVIOUS
  <2>1. ExtentStep(ExtentsOf(HeapBlocks), ExtentsOf(HeapBlocks)') BY HeapStep
  <2>2. InUse = ExtentsOf(HeapBlocks) BY PlacesAre
  <2>3. InUse' = ExtentsOf(HeapBlocks)' BY <1>0
  <2>4. ExtentStep(InUse, InUse') BY <2>1, <2>2, <2>3
  <2> QED BY <2>4 DEF ExtentStep, HeapExtent, BuddyContract!Next, BuddyContract!Alloc,
                      BuddyContract!Dealloc
<1> QED BY <1>1, <1>2, HeapInvariant, PTL
        DEF BuddySpec, HeapImplementsContract, BuddyContract!Spec
=============================================================================
