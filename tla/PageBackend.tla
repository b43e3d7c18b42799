---------------------------- MODULE PageBackend ----------------------------
(***************************************************************************)
(* The page backend that slabs and large requests draw on: FREELIST, an    *)
(* array of lists of free blocks by number of pages (freelist/mod.rs), over *)
(* BUMP, which cuts blocks off the top of a mapped region                   *)
(* (freelist/bump.rs).                                                     *)
(*                                                                         *)
(* An address is a page number.  A free block of k pages is on list k      *)
(* (index k - 1 in the code) and the radix tree marks its first and its    *)
(* last page with k, which is where free looks for neighbours to combine.  *)
(* Every list has a lock of its own and every call takes one list lock at  *)
(* a time: a step is one critical section, or one of the unlocked reads of *)
(* a mark.  The critical section of remove_spec_one is two steps, because  *)
(* the lock it takes need not be the one that guards the page it reads.    *)
(* Allocation and freeing take several steps each.                         *)
(***************************************************************************)
EXTENDS LinkedLists, FiniteSets

CONSTANTS
  Thread,
  NPages,          \* size of the address space (bounds the heap)
  Region,          \* DEFAULT_SIZE: pages that BUMP maps at once
  BackendMaxPage,  \* BACKEND_MAX_PAGE: number of lists
  Request,         \* the numbers of pages asked for
  MaxHeld,         \* blocks the program holds at most (bounds the state)
  MmapFails,       \* may mmap fail?
  SelfLinks,       \* may the program store in a page, where a node has its
                   \* next field, the address of the page itself?
  Null

Page  == 0 .. NPages - 1
Index == 1 .. BackendMaxPage
Pages(s, n) == s .. s + n - 1

ASSUME BackendAssumption ==
  /\ NPages \in Nat /\ Region \in Nat \ {0} /\ BackendMaxPage \in Nat \ {0}
  /\ Request \subseteq 1 .. Region
  /\ MmapFails \in BOOLEAN /\ SelfLinks \in BOOLEAN
  /\ Null \notin Page

VARIABLES
  held,    \* blocks the program has: <<first page, number of pages>>
  list,    \* FreeList.lists: first pages of the free blocks, head first
  mark,    \* radix tree: the size of the free block a page begins or ends
  bump,    \* BumpAlloc: [low |-> check_point, top |-> current]
  mapped,  \* pages the operating system has mapped
  op       \* the call each thread is in

vars == <<held, list, mark, bump, mapped, op>>

\* A call: where it is, the block and size it is about, the list it is at or
\* the mark it has read, and the block it will put back.
Idle == [at |-> "idle", ptr |-> 0, n |-> 0, idx |-> 0, fin |-> 0, len |-> 0]

TypeOK ==
  /\ held \subseteq Page \X Nat
  /\ list \in [Index -> Seq(Page)]
  /\ mark \in [Page -> 0 .. BackendMaxPage]
  /\ bump \in [low : Nat, top : Nat]
  /\ mapped \subseteq Page
  /\ op \in [Thread ->
       [at : {"idle", "scan", "split", "prev", "joinPrev", "linkPrev",
              "next", "joinNext", "linkNext", "put"},
        ptr : Nat, n : Nat, idx : Nat, fin : Nat, len : Nat]]

Init ==
  /\ held = {}
  /\ list = [k \in Index |-> <<>>]
  /\ mark = [p \in Page |-> 0]
  /\ bump = [low |-> 0, top |-> 0]
  /\ mapped = {}
  /\ op = [t \in Thread |-> Idle]

Enter(t, call) == op' = [op EXCEPT ![t] = call]
Return(t) == Enter(t, Idle)
At(t, where) == op[t].at = where

\* The stages of free, and those at which remove_spec_one holds a list's lock.
Linking == {"linkPrev", "linkNext"}
Freeing == {"prev", "joinPrev", "next", "joinNext", "put"} \cup Linking
Locked(k) == \E t \in Thread : op[t].at \in Linking /\ op[t].idx = k

-----------------------------------------------------------------------------
(***************************************************************************)
(* FreeList::alloc.                                                        *)
(***************************************************************************)
\* A request above the longest list goes straight to BUMP.
Alloc(t, n) ==
  /\ At(t, "idle")
  /\ Cardinality(held) < MaxHeld
  /\ Enter(t, [Idle EXCEPT !.at = "scan", !.n = n, !.idx = n])
  /\ UNCHANGED <<held, list, mark, bump, mapped>>

\* The marks once the block of k pages at s is off, or on, its list.
Marked(s, k, v) == [mark EXCEPT ![s] = v, ![s + k - 1] = v]

\* Mutant: the mark of the last page stays.
RemoveOneKeepsMark(k) ==
  /\ ~ Locked(k)
  /\ list' = [list EXCEPT ![k] = Tail(@)]
  /\ mark' = [mark EXCEPT ![Head(list[k])] = 0]

\* remove_one: the head of list k leaves it and loses its marks.
RemoveOne(k) ==
  /\ ~ Locked(k)
  /\ list' = [list EXCEPT ![k] = Tail(@)]
  /\ mark' = Marked(Head(list[k]), k, 0)

\* insert_one: the block at s becomes the head of list k.
InsertOne(k, s) ==
  /\ ~ Locked(k)
  /\ list' = [list EXCEPT ![k] = <<s>> \o @]
  /\ mark' = Marked(s, k, k)

\* A list that is long enough is empty: look at the next longer one.
ScanOn(t) ==
  /\ At(t, "scan") /\ op[t].idx <= BackendMaxPage
  /\ ~ Locked(op[t].idx) /\ list[op[t].idx] = <<>>
  /\ Enter(t, [op[t] EXCEPT !.idx = @ + 1])
  /\ UNCHANGED <<held, list, mark, bump, mapped>>

\* A block of the size asked for is returned.
TakeExact(t) ==
  LET k == op[t].idx IN
  /\ At(t, "scan") /\ k <= BackendMaxPage /\ k = op[t].n
  /\ list[k] # <<>>
  /\ RemoveOne(k)
  /\ held' = held \cup {<<Head(list[k]), k>>}
  /\ Return(t)
  /\ UNCHANGED <<bump, mapped>>

\* A longer block is taken; what is too much of it goes back later, under the
\* lock of another list.
TakeParent(t) ==
  LET k == op[t].idx IN
  /\ At(t, "scan") /\ k <= BackendMaxPage /\ k > op[t].n
  /\ list[k] # <<>>
  /\ RemoveOne(k)
  /\ Enter(t, [op[t] EXCEPT !.at = "split", !.ptr = Head(list[k])])
  /\ UNCHANGED <<held, bump, mapped>>

\* Mutant: the remainder is entered one page too long.
SplitParentLong(t) ==
  LET o == op[t] IN
  /\ At(t, "split")
  /\ InsertOne(o.idx - o.n, o.ptr + o.n - 1)
  /\ held' = held \cup {<<o.ptr, o.n>>}
  /\ Return(t)
  /\ UNCHANGED <<bump, mapped>>

SplitParent(t) ==
  LET o == op[t] IN
  /\ At(t, "split")
  /\ InsertOne(o.idx - o.n, o.ptr + o.n)
  /\ held' = held \cup {<<o.ptr, o.n>>}
  /\ Return(t)
  /\ UNCHANGED <<bump, mapped>>

\* The regions mmap can return: page 0 up to Region is the memory at address
\* null, which is never mapped.
FreeRegions ==
  {s \in Page : /\ s >= Region /\ s % Region = 0 /\ s + Region <= NPages
                /\ Disjoint(Pages(s, Region), mapped)}

\* What BumpAlloc::init makes its region begin at: what mmap returns, or null if
\* that is an error.
RegionStarts == FreeRegions \cup (IF MmapFails THEN {0} ELSE {})
Mmapped(s) == IF s = 0 THEN {} ELSE Pages(s, Region)

\* The pages mapped after init unmapped the rest of the old region and mapped
\* the new one at s.
BumpInit(s) == (mapped \ (bump.low .. bump.top - 1)) \cup Mmapped(s)

\* The part of BUMP left over is too small for n pages.
BumpShort(n) == bump.low + n > bump.top

\* BumpAlloc::alloc cuts n pages off the top, of a new region if need be.
BumpAlloc(t) ==
  LET n == op[t].n IN
  /\ At(t, "scan") /\ op[t].idx > BackendMaxPage
  /\ \/ /\ ~ BumpShort(n)
        /\ bump' = [bump EXCEPT !.top = @ - n]
        /\ UNCHANGED mapped
     \/ /\ BumpShort(n)
        /\ \E s \in RegionStarts :
             /\ bump' = [low |-> s, top |-> s + Region - n]
             /\ mapped' = BumpInit(s)
  /\ held' = held \cup {<<bump'.top, n>>}
  /\ Return(t)
  /\ UNCHANGED <<list, mark>>

\* The bound on the address space is reached: the request stays where it is.
NoSpace(t) ==
  /\ ~ MmapFails
  /\ At(t, "scan") /\ op[t].idx > BackendMaxPage
  /\ BumpShort(op[t].n) /\ FreeRegions = {}
  /\ UNCHANGED vars

-----------------------------------------------------------------------------
(***************************************************************************)
(* FreeList::free.                                                         *)
(***************************************************************************)
MarkAt(p) == IF p \in Page THEN mark[p] ELSE 0

\* A block that is not mapped is never freed: the program dies of its first
\* use.
Free(t, b) ==
  /\ At(t, "idle")
  /\ b \in held /\ Pages(b[1], b[2]) \subseteq mapped
  /\ held' = held \ {b}
  /\ Enter(t, [Idle EXCEPT !.at = "prev", !.ptr = b[1], !.n = b[2],
                           !.fin = b[1], !.len = b[2]])
  /\ UNCHANGED <<list, mark, bump, mapped>>

\* The mark of the page before the block is read without a lock ...
ReadPrev(t) ==
  LET k == MarkAt(op[t].ptr - 1) IN
  /\ At(t, "prev")
  /\ Enter(t, [op[t] EXCEPT !.at = IF k > 0 THEN "joinPrev" ELSE "next", !.idx = k])
  /\ UNCHANGED <<held, list, mark, bump, mapped>>

IsNode(p) == \E k \in Index : p \in Range(list[k])

\* What the next field of a node is: the link to the node after it.
LinkOf(p, next) ==
  \E k \in Index : \E i \in DOMAIN list[k] :
    /\ list[k][i] = p
    /\ next = IF i < Len(list[k]) THEN list[k][i + 1] ELSE Null

\* What the next field of a DoubleLinkedList at page p can hold: the link if p
\* is a node, else whatever is left in the page.  Every page that was ever marked
\* has been the program's, so that is its own address only if the program may put
\* it there.
NextField(p) ==
  {next \in Page \cup {Null} :
     IF IsNode(p) THEN LinkOf(p, next) ELSE next = p => SelfLinks}

\* ... and the list it names is locked by remove_spec_one, which reads the
\* mark of the block's first page again and keeps the lock if there is one.
\* The lock does not guard that page if the block is on another list by now.
JoinPrev(t) ==
  LET s == op[t].ptr - op[t].idx IN
  /\ At(t, "joinPrev") /\ ~ Locked(op[t].idx)
  /\ Enter(t, [op[t] EXCEPT !.at = IF MarkAt(s) > 0 THEN "linkPrev" ELSE "next"])
  /\ UNCHANGED <<held, list, mark, bump, mapped>>

\* remove_current on the node at s whose next field is s itself, in the lock of
\* list k: it becomes the head of that list if its prev field is empty, and
\* the successor of the node that its prev field names otherwise.  A list that
\* has s twice at its end is one that turns round at s.
RemoveSelfLinked(k, s, prev) ==
  list' = [j \in Index |->
    IF prev = Null
    THEN IF j = k THEN <<s, s>> ELSE list[j]
    ELSE IF prev \in Range(list[j])
         THEN SubSeq(list[j], 1, CHOOSE i \in DOMAIN list[j] : list[j][i] = prev)
                \o <<s, s>>
         ELSE list[j]]

\* Only then is the next field of the page read.  The block is combined if it
\* is the page's own address: the prev field is the program's then as well.
\* The lists are followed no further than this step.
CombinePrev(t) ==
  LET o == op[t]
      s == o.ptr - o.idx
  IN
  /\ At(t, "linkPrev")
  /\ \E next \in NextField(s) :
       IF next = s
       THEN /\ mark' = Marked(s, o.idx, 0)
            /\ \E prev \in Page \cup {Null} : RemoveSelfLinked(o.idx, s, prev)
            /\ Enter(t, [o EXCEPT !.at = "next", !.fin = s, !.len = @ + o.idx])
       ELSE /\ Enter(t, [o EXCEPT !.at = "next"])
            /\ UNCHANGED <<list, mark>>
  /\ UNCHANGED <<held, bump, mapped>>

\* The same for the page behind the block.
ReadNext(t) ==
  LET k == MarkAt(op[t].ptr + op[t].n) IN
  /\ At(t, "next")
  /\ Enter(t, [op[t] EXCEPT !.at = IF k > 0 THEN "joinNext" ELSE "put", !.idx = k])
  /\ UNCHANGED <<held, list, mark, bump, mapped>>

JoinNext(t) ==
  LET s == op[t].ptr + op[t].n IN
  /\ At(t, "joinNext") /\ ~ Locked(op[t].idx)
  /\ Enter(t, [op[t] EXCEPT !.at = IF MarkAt(s) > 0 THEN "linkNext" ELSE "put"])
  /\ UNCHANGED <<held, list, mark, bump, mapped>>

CombineNext(t) ==
  LET o == op[t]
      s == o.ptr + o.n
  IN
  /\ At(t, "linkNext")
  /\ \E next \in NextField(s) :
       IF next = s
       THEN /\ mark' = Marked(s, o.idx, 0)
            /\ \E prev \in Page \cup {Null} : RemoveSelfLinked(o.idx, s, prev)
            /\ Enter(t, [o EXCEPT !.at = "put", !.len = @ + o.idx])
       ELSE /\ Enter(t, [o EXCEPT !.at = "put"])
            /\ UNCHANGED <<list, mark>>
  /\ UNCHANGED <<held, bump, mapped>>

\* The block goes on its list ...
PutBack(t) ==
  LET o == op[t] IN
  /\ At(t, "put") /\ o.len <= BackendMaxPage
  /\ InsertOne(o.len, o.fin)
  /\ Return(t)
  /\ UNCHANGED <<held, bump, mapped>>

\* Mutant: every block can go back to the operating system.
UnmapAnyLength(t) ==
  LET o == op[t] IN
  /\ At(t, "put")
  /\ mapped' = mapped \ Pages(o.fin, o.len)
  /\ Return(t)
  /\ UNCHANGED <<held, list, mark, bump>>

\* ... or, longer than every list, back to the operating system.
Unmap(t) ==
  LET o == op[t] IN
  /\ At(t, "put") /\ o.len > BackendMaxPage
  /\ mapped' = mapped \ Pages(o.fin, o.len)
  /\ Return(t)
  /\ UNCHANGED <<held, list, mark, bump>>

Next ==
  \E t \in Thread :
    \/ \E n \in Request : Alloc(t, n)
    \/ ScanOn(t) \/ TakeExact(t) \/ TakeParent(t) \/ SplitParent(t)
    \/ BumpAlloc(t) \/ NoSpace(t)
    \/ \E b \in held : Free(t, b)
    \/ ReadPrev(t) \/ JoinPrev(t) \/ CombinePrev(t)
    \/ ReadNext(t) \/ JoinNext(t) \/ CombineNext(t)
    \/ PutBack(t) \/ Unmap(t)

Spec == Init /\ [][Next]_vars
-----------------------------------------------------------------------------
(***************************************************************************)
(* Properties.                                                             *)
(***************************************************************************)
\* Every block, with the one who has it: the program, a list, a call in
\* progress, or BUMP (the part of its region not cut yet).
Listed == UNION {{<<<<"list">>, s, k>> : s \in Range(list[k])} : k \in Index}
InFlight(t) ==
  CASE At(t, "split") -> {<<<<"call", t>>, op[t].ptr, op[t].idx>>}
    [] op[t].at \in Freeing ->
         {<<<<"call", t>>, op[t].fin, op[t].len>>}
    [] OTHER -> {}
Blocks ==
  {<<<<"held">>, b[1], b[2]>> : b \in held} \cup Listed
    \cup (UNION {InFlight(t) : t \in Thread})
    \cup {<<<<"bump">>, bump.low, bump.top - bump.low>>}

\* The blocks tile the mapped memory: a mapped page is in exactly one of them,
\* so no two callers share a page and none is lost, however the calls to alloc
\* and free interleave.  It holds if no page of the program holds its own
\* address where a node has its next field (~ SelfLinks).
BlocksTileMemory ==
  /\ NoSharing(list)
  /\ \A a, b \in Blocks : a # b =>
       Disjoint(Pages(a[2], a[3]) \cap mapped, Pages(b[2], b[3]) \cap mapped)
  /\ mapped \subseteq UNION {Pages(b[2], b[3]) : b \in Blocks}

\* A page is marked iff a listed block begins or ends there, and with its
\* size: two lists' locks, and the unlocked reads, never leave a mark behind.
MarksMatchLists ==
  \A p \in Page, k \in Index :
    mark[p] = k <=>
      \E s \in Range(list[k]) : p = s \/ p = s + k - 1

\* remove_spec_one dereferences a page because its mark was set
\* (freelist/mod.rs:105-107).  By then the block may have been taken, cut up
\* and handed out under the lock of another list, but its memory is not back
\* with the operating system.
LinksReadAreMapped ==
  \A t \in Thread :
    /\ At(t, "linkPrev") => op[t].ptr - op[t].idx \in mapped
    /\ At(t, "linkNext") => op[t].ptr + op[t].n \in mapped

\* free joins to its block only a free one ("successfully combine with
\* previous", freelist/mod.rs:194): what it will put back shares no page with
\* a block of the program.  It does not hold: the page whose next field is read
\* may be the program's by then.
CombinesFreeBlocks ==
  \A t \in Thread : op[t].at \in Freeing =>
    \A b \in held : Disjoint(Pages(op[t].fin, op[t].len), Pages(b[1], b[2]))

\* What the program has is memory: BUMP returns mapped pages or an error
\* ("identify if it fails and return null", bump.rs:49).  It holds only if mmap
\* never fails.
HeldIsMapped == \A b \in held : Pages(b[1], b[2]) \subseteq mapped

\* free combines a block with its free neighbours (the comments at
\* freelist/mod.rs:194 and 212): with no call in progress, no two listed blocks
\* are adjacent if one list is long enough for both.  It does not hold: remove_spec_one
\* never finds one.
Coalesced ==
  (\A t \in Thread : At(t, "idle")) =>
    \A a, b \in Listed :
      a[2] + a[3] = b[2] => a[3] + b[3] > BackendMaxPage

\* The promise to slabs and large requests.
PagesOverlap(d, e) == ~ Disjoint(Pages(d[1], d[2]), Pages(e[1], e[2]))
Contract == INSTANCE AllocatorContract WITH
  Extent <- Page \X Request, Overlap <- PagesOverlap, inUse <- held
ImplementsContract == Contract!Spec
=============================================================================
