----------------------------- MODULE SlabCache -----------------------------
(***************************************************************************)
(* The allocation path every request takes: the per-thread caches          *)
(* (cache/thread_cache.rs), the per-class slab allocators they refill from *)
(* and flush to (zone.rs, sc/efficient_sc.rs), the page descriptors with   *)
(* their free lists (page/efficient_page.rs) and the radix tree that maps  *)
(* an address back to its descriptor (collections/radix_tree.rs).          *)
(*                                                                         *)
(* A block is what one descriptor gets from the page backend               *)
(* (pg_num * PAGE_SIZE bytes).  The object <<c, b, i>> is slot i of block  *)
(* b cut for size class c, at address b + i * pg_align.  Two objects share *)
(* bytes iff they are the same object or cut the same block differently.   *)
(*                                                                         *)
(* A free object stores the link of the list it is on in its first word,   *)
(* so the lists are kept as sequences indexed by what holds their head:    *)
(* the `list' of a cache unit, the `ptr' of a page descriptor, or the      *)
(* local `head' of a deallocate_batch in progress.                         *)
(*                                                                         *)
(* Thread-private work and the section it runs under one slab lock are one *)
(* step when they release no block to the backend; flushing a cache, which *)
(* does, takes one step per page run and per destroyed page, with the lock *)
(* of the class held in between.                                           *)
(***************************************************************************)
EXTENDS LinkedLists

CONSTANTS
  Thread,     \* the program's threads
  NClass,     \* size classes 1..NClass (class 0 serves size 0 and owns nothing)
  Block,      \* blocks the backend can give (bounds the heap)
  MaxPages,   \* page descriptors PG_BUMP can give (bounds the descriptors)
  PgCount,    \* pg_count: objects in a block, per class
  Align,      \* the alignments requested
  AlignedTo,  \* which objects satisfy each of them
  EmptyLimit, \* empty_count above which an empty page is destroyed (2048)
  Null

Class == 1 .. NClass
Page  == 1 .. MaxPages
Kind  == {"full", "partial", "empty", "uninit"}
Slots(c) == 0 .. PgCount[c] - 1
Objects(c, b) == {<<c, b, i>> : i \in Slots(c)}
Object == UNION {Objects(c, b) : c \in Class, b \in Block}

CacheHead(t, c) == <<"cache", t, c>>
PageHead(p)     == <<"page", p>>
BatchHead(t)    == <<"batch", t>>
ListHead == {CacheHead(t, c) : t \in Thread, c \in Class}
              \cup {PageHead(p) : p \in Page}
              \cup {BatchHead(t) : t \in Thread}

ASSUME ConstantAssumption ==
  /\ NClass \in Nat /\ MaxPages \in Nat /\ EmptyLimit \in Nat
  /\ PgCount \in [Class -> Nat \ {0}]
  /\ 1 \in Align
  /\ AlignedTo \in [Align -> SUBSET Object] /\ AlignedTo[1] = Object
  /\ Null \notin Block /\ Null \notin Thread

VARIABLES
  live,       \* objects the program holds
  large,      \* blocks the program holds directly (requests above the classes)
  chain,      \* the objects linked from each list head, first one first
  length,     \* ThreadCacheUnit.list.length
  bump,       \* ThreadCacheUnit.bump_{ptr,count}: slots never used so far
  phase,      \* "run", "exit" (in free_thread_cache) or "dead"
  cleanIdx,   \* the class cleanup_cache_unchecked is at
  lock,       \* the mutex of each slab: its owner or Null
  ring,       \* the four circular page lists of each class, head first
  emptyCount, \* SCAllocator.empty_count
  counter,    \* ObjectPage.counter
  data,       \* ObjectPage.data: the block of a descriptor, or Null
  victim,     \* the page a flush is destroying, or 0
  pgBump,     \* descriptors PG_BUMP has given out
  rd,         \* radix tree: block -> descriptor, or 0
  freeBlocks  \* blocks the backend holds

cacheVars == <<chain, length, bump>>
slabVars  == <<ring, emptyCount, counter, data, pgBump>>
vars == <<live, large, chain, length, bump, phase, cleanIdx, lock, ring,
          emptyCount, counter, data, victim, pgBump, rd, freeBlocks>>

NoBump == [blk |-> Null, next |-> 0, count |-> 0]

TypeOK ==
  /\ live \subseteq Object
  /\ large \subseteq Block
  /\ chain \in [ListHead -> Seq(Object)]
  /\ length \in [Thread \X Class -> Nat]
  /\ bump \in [Thread \X Class ->
                 [blk : Block \cup {Null}, next : Nat, count : Nat]]
  /\ phase \in [Thread -> {"run", "exit", "dead"}]
  /\ cleanIdx \in [Thread -> 1 .. NClass + 1]
  /\ lock \in [Class -> Thread \cup {Null}]
  /\ ring \in [Class \X Kind -> Seq(Page)]
  /\ emptyCount \in [Class -> Nat]
  /\ counter \in [Page -> Nat]
  /\ data \in [Page -> Block \cup {Null}]
  /\ victim \in [Thread -> Page \cup {0}]
  /\ pgBump \in 0 .. MaxPages
  /\ rd \in [Block -> Page \cup {0}]
  /\ freeBlocks \subseteq Block

Init ==
  /\ live = {} /\ large = {}
  /\ chain = [h \in ListHead |-> <<>>]
  /\ length = [u \in Thread \X Class |-> 0]
  /\ bump = [u \in Thread \X Class |-> NoBump]
  /\ phase = [t \in Thread |-> "run"]
  /\ cleanIdx = [t \in Thread |-> 1]
  /\ lock = [c \in Class |-> Null]
  /\ ring = [r \in Class \X Kind |-> <<>>]
  /\ emptyCount = [c \in Class |-> 0]
  /\ counter = [p \in Page |-> 0]
  /\ data = [p \in Page |-> Null]
  /\ victim = [t \in Thread |-> 0]
  /\ pgBump = 0
  /\ rd = [b \in Block |-> 0]
  /\ freeBlocks = Block

-----------------------------------------------------------------------------
(***************************************************************************)
(* The cache unit of thread t for class c.                                 *)
(***************************************************************************)
CacheList(t, c) == chain[CacheHead(t, c)]

\* The k-th object from bump_ptr on.
BumpObject(t, c, k) == <<c, bump[<<t, c>>].blk, bump[<<t, c>>].next + k>>

\* Mutant: bump_ptr still points at the object just handed out.
BumpRunNotAdvanced(b, next, count) ==
  IF count = 0 THEN NoBump ELSE [blk |-> b, next |-> next - 1, count |-> count]

\* A run of `count' unused slots of block b; bump_ptr is not read again once
\* the run is used up, so an empty run is forgotten.
BumpRun(b, next, count) ==
  IF count = 0 THEN NoBump ELSE [blk |-> b, next |-> next, count |-> count]

\* Mutant: the loop over the run stops one object early.
PushBumpShort(t, c, k) ==
  [j \in 1 .. k - 1 |-> BumpObject(t, c, k - 1 - j)] \o CacheList(t, c)

\* The unit's list after its first k bump objects were pushed on it (`free').
PushBump(t, c, k) ==
  [j \in 1 .. k |-> BumpObject(t, c, k - j)] \o CacheList(t, c)

\* Mutant: the head of the list is popped whatever its alignment.
FirstAlignedHead(s, a, i) == i \in DOMAIN s /\ i = 1

\* The element pop_unchecked_aligned finds, if there is one.
FirstAligned(s, a, i) ==
  /\ i \in DOMAIN s
  /\ s[i] \in AlignedTo[a]
  /\ \A j \in 1 .. i - 1 : s[j] \notin AlignedTo[a]

ListMisses(t, c, a) ==
  \/ length[<<t, c>>] = 0
  \/ \A i \in DOMAIN CacheList(t, c) : CacheList(t, c)[i] \notin AlignedTo[a]

\* Case 1 of ThreadCacheUnit::allocate: reuse the first aligned listed object.
AllocFromList(t, c, a) ==
  /\ phase[t] = "run"
  /\ length[<<t, c>>] > 0
  /\ \E i \in DOMAIN CacheList(t, c) :
       /\ FirstAligned(CacheList(t, c), a, i)
       /\ chain' = [chain EXCEPT ![CacheHead(t, c)] = RemoveAt(@, i)]
       /\ live' = live \cup {CacheList(t, c)[i]}
  /\ length' = [length EXCEPT ![<<t, c>>] = @ - 1]
  /\ UNCHANGED <<large, bump, phase, cleanIdx, lock, slabVars, victim, rd,
                 freeBlocks>>

\* Case 2: walk the bump run; the misaligned objects passed over are freed
\* into the list.
AllocFromBump(t, c, a) ==
  /\ phase[t] = "run"
  /\ ListMisses(t, c, a)
  /\ \E k \in 0 .. bump[<<t, c>>].count - 1 :
       /\ BumpObject(t, c, k) \in AlignedTo[a]
       /\ \A j \in 0 .. k - 1 : BumpObject(t, c, j) \notin AlignedTo[a]
       /\ live' = live \cup {BumpObject(t, c, k)}
       /\ chain' = [chain EXCEPT ![CacheHead(t, c)] = PushBump(t, c, k)]
       /\ length' = [length EXCEPT ![<<t, c>>] = @ + k]
       /\ bump' = [bump EXCEPT ![<<t, c>>] =
                     BumpRun(@.blk, @.next + k + 1, @.count - k - 1)]
  /\ UNCHANGED <<large, phase, cleanIdx, lock, slabVars, victim, rd,
                 freeBlocks>>

\* Case 3 goes to the slab: neither the list nor the bump run has an aligned
\* object, and the whole run has been pushed on the list.
NeedsRefill(t, c, a) ==
  /\ phase[t] = "run"
  /\ ListMisses(t, c, a)
  /\ \A k \in 0 .. bump[<<t, c>>].count - 1 :
       BumpObject(t, c, k) \notin AlignedTo[a]

-----------------------------------------------------------------------------
(***************************************************************************)
(* The slab of class c: SCAllocator, under its mutex.                      *)
(***************************************************************************)
\* ObjectPage::allocate_all on a page of block b, with the use the cache
\* makes of the answer: everything free in the page goes to the cache unit
\* and its first object to the program.  A page with nothing allocated comes
\* as a bump run, one in use as the chain of its free objects.
AllocateAll(t, c, p, b, used) ==
  LET n == bump[<<t, c>>].count IN
  /\ counter' = [counter EXCEPT ![p] = PgCount[c]]
  /\ \/ /\ used = 0
        /\ live' = live \cup {<<c, b, 0>>}
        /\ bump' = [bump EXCEPT ![<<t, c>>] = BumpRun(b, 1, PgCount[c] - 1)]
        /\ chain' = [chain EXCEPT ![CacheHead(t, c)] = PushBump(t, c, n),
                                  ![PageHead(p)] = <<>>]
        /\ length' = [length EXCEPT ![<<t, c>>] = @ + n]
     \/ /\ used # 0
        /\ length[<<t, c>>] + n = 0    \* assert_eq!(self.list.length, 0)
        /\ live' = live \cup {Head(chain[PageHead(p)])}
        /\ bump' = [bump EXCEPT ![<<t, c>>] = NoBump]
        /\ chain' = [chain EXCEPT ![CacheHead(t, c)] = Tail(chain[PageHead(p)]),
                                  ![PageHead(p)] = <<>>]
        /\ length' = [length EXCEPT ![<<t, c>>] = PgCount[c] - used - 1]

\* Mutant: the drained page is linked on the full ring and not unlinked from
\* the partial one.
AllocFromPartialKept(t, c, a) ==
  LET p == Head(ring[<<c, "partial">>]) IN
  /\ NeedsRefill(t, c, a) /\ lock[c] = Null
  /\ ring[<<c, "partial">>] # <<>> /\ a = 1
  /\ AllocateAll(t, c, p, data[p], counter[p])
  /\ ring' = [ring EXCEPT ![<<c, "full">>] = Append(@, p)]
  /\ UNCHANGED <<large, phase, cleanIdx, lock, emptyCount, data, victim,
                 pgBump, rd, freeBlocks>>

\* allocate_batch_v2, the branch that drains the first partial page.
AllocFromPartial(t, c, a) ==
  LET p == Head(ring[<<c, "partial">>]) IN
  /\ NeedsRefill(t, c, a) /\ lock[c] = Null
  /\ ring[<<c, "partial">>] # <<>> /\ a = 1
  /\ AllocateAll(t, c, p, data[p], counter[p])
  /\ ring' = [ring EXCEPT ![<<c, "partial">>] = Tail(@),
                          ![<<c, "full">>] = Append(@, p)]
  /\ UNCHANGED <<large, phase, cleanIdx, lock, emptyCount, data, victim,
                 pgBump, rd, freeBlocks>>

\* The other branch: get_empty finds a page that is kept empty ...
AllocFromEmpty(t, c, a) ==
  LET p == Head(ring[<<c, "empty">>]) IN
  /\ NeedsRefill(t, c, a) /\ lock[c] = Null
  /\ ring[<<c, "partial">>] = <<>> \/ a # 1
  /\ ring[<<c, "empty">>] # <<>>
  /\ AllocateAll(t, c, p, data[p], counter[p])
  /\ ring' = [ring EXCEPT ![<<c, "empty">>] = Tail(@),
                          ![<<c, "full">>] = Append(@, p)]
  /\ emptyCount' = [emptyCount EXCEPT ![c] = @ - 1]
  /\ UNCHANGED <<large, phase, cleanIdx, lock, data, victim, pgBump, rd,
                 freeBlocks>>

\* ... or get_uninit gives a descriptor (a destroyed one, or a new one from
\* PG_BUMP) a fresh block, which is entered into the radix tree.
AllocFromFresh(t, c, a) ==
  LET reuse == ring[<<c, "uninit">>] # <<>>
      p == IF reuse THEN Head(ring[<<c, "uninit">>]) ELSE pgBump + 1
  IN
  /\ NeedsRefill(t, c, a) /\ lock[c] = Null
  /\ ring[<<c, "partial">>] = <<>> \/ a # 1
  /\ ring[<<c, "empty">>] = <<>>
  /\ p <= MaxPages
  /\ \E b \in freeBlocks :
       /\ freeBlocks' = freeBlocks \ {b}
       /\ data' = [data EXCEPT ![p] = b]
       /\ rd' = [rd EXCEPT ![b] = p]
       /\ AllocateAll(t, c, p, b, 0)
  /\ ring' = [ring EXCEPT ![<<c, "uninit">>] = IF reuse THEN Tail(@) ELSE @,
                          ![<<c, "full">>] = Append(@, p)]
  /\ pgBump' = IF reuse THEN pgBump ELSE pgBump + 1
  /\ UNCHANGED <<large, phase, cleanIdx, lock, emptyCount, victim>>

\* ThreadCacheUnit::allocate
Alloc(t, c, a) ==
  \/ AllocFromList(t, c, a)
  \/ AllocFromBump(t, c, a)
  \/ AllocFromPartial(t, c, a)
  \/ AllocFromEmpty(t, c, a)
  \/ AllocFromFresh(t, c, a)

\* ThreadCacheUnit::deallocate: any thread may free any object it was given;
\* it goes on the list of the freeing thread.
Dealloc(t, o) ==
  /\ phase[t] = "run"
  /\ o \in live
  /\ live' = live \ {o}
  /\ chain' = [chain EXCEPT ![CacheHead(t, o[1])] = <<o>> \o @]
  /\ length' = [length EXCEPT ![<<t, o[1]>>] = @ + 1]
  /\ UNCHANGED <<large, bump, phase, cleanIdx, lock, slabVars, victim, rd,
                 freeBlocks>>

\* allocate_large and deallocate_large: the backend serves the request.
AllocLarge(t, b) ==
  /\ phase[t] = "run"
  /\ b \in freeBlocks
  /\ freeBlocks' = freeBlocks \ {b}
  /\ large' = large \cup {b}
  /\ UNCHANGED <<live, cacheVars, phase, cleanIdx, lock, slabVars, victim, rd>>

DeallocLarge(t, b) ==
  /\ phase[t] = "run"
  /\ b \in large
  /\ large' = large \ {b}
  /\ freeBlocks' = freeBlocks \cup {b}
  /\ UNCHANGED <<live, cacheVars, phase, cleanIdx, lock, slabVars, victim, rd>>

-----------------------------------------------------------------------------
(***************************************************************************)
(* Thread exit: free_thread_cache, run by the TLS destructor.              *)
(***************************************************************************)
Exit(t) ==
  /\ phase[t] = "run"
  /\ phase' = [phase EXCEPT ![t] = "exit"]
  /\ UNCHANGED <<live, large, cacheVars, cleanIdx, lock, slabVars, victim, rd,
                 freeBlocks>>

\* ThreadCacheUnit::clean_up: the bump run joins the list; an empty list is
\* skipped, else the slab is locked and the list becomes the batch.
CleanUp(t, c) ==
  LET n == bump[<<t, c>>].count IN
  /\ phase[t] = "exit" /\ cleanIdx[t] = c
  /\ \A d \in Class : lock[d] # t
  /\ \/ /\ length[<<t, c>>] + n = 0
        /\ cleanIdx' = [cleanIdx EXCEPT ![t] = c + 1]
        /\ UNCHANGED <<lock, chain>>
     \/ /\ length[<<t, c>>] + n > 0
        /\ lock[c] = Null
        /\ lock' = [lock EXCEPT ![c] = t]
        /\ chain' = [chain EXCEPT ![CacheHead(t, c)] = <<>>,
                                  ![BatchHead(t)] = PushBump(t, c, n)]
        /\ UNCHANGED cleanIdx
  /\ length' = [length EXCEPT ![<<t, c>>] = 0]
  /\ bump' = [bump EXCEPT ![<<t, c>>] = NoBump]
  /\ UNCHANGED <<live, large, phase, slabVars, victim, rd, freeBlocks>>

\* s starts with n, and no more, objects of one block.
IsRun(s, n) ==
  /\ n \in 1 .. Len(s)
  /\ \A i \in 1 .. n : s[i][2] = s[1][2]
  /\ n < Len(s) => s[n + 1][2] # s[1][2]

\* Mutant: is_full with < for <=.
RingOfStrict(c, p) == IF counter[p] > PgCount[c] THEN "full" ELSE "partial"

\* Where deallocate_batch expects a page: is_full decides it.
RingOf(c, p) == IF counter[p] >= PgCount[c] THEN "full" ELSE "partial"

\* The state deallocate_batch asserts before it takes the next run of n
\* objects off the batch s: the radix tree knows the block, the descriptor
\* has it, enough of it is allocated, and the page is where remove_full or
\* remove_partial look for it.
RunIsSane(c, s, n) ==
  LET b == s[1][2]
      p == rd[b]
  IN /\ p # 0
     /\ data[p] = b
     /\ counter[p] >= n
     /\ p \in Range(ring[<<c, RingOf(c, p)>>])

\* Mutants: the walk over a run of n objects counts one too many or one too few.
LeftOneLess(p, n) == counter[p] - n - 1
LeftOneMore(p, n) == counter[p] - n + 1

\* The objects of page p still allocated once a run of n has come back.
Left(p, n) == counter[p] - n

\* Mutant: the limit is tested with >= on the next value.
KeepsEmptyOneMore(c) == emptyCount[c] <= EmptyLimit + 1

\* try_insert_ety and insert_ety: is one more empty page of class c kept?
KeepsEmpty(c) == emptyCount[c] <= EmptyLimit

\* One turn of deallocate_batch's loop: the longest run of objects of one
\* page is spliced into that page's free list, and the page changes ring.
DeallocateRun(t, c, n) ==
  LET s == chain[BatchHead(t)]
      p == rd[s[1][2]]
      from == RingOf(c, p)
      left == Left(p, n)
  IN
  /\ lock[c] = t /\ victim[t] = 0
  /\ IsRun(s, n) /\ RunIsSane(c, s, n)
  /\ chain' = [chain EXCEPT
                 ![BatchHead(t)] = SubSeq(s, n + 1, Len(s)),
                 ![PageHead(p)] = SubSeq(s, 1, n) \o @]
  /\ counter' = [counter EXCEPT ![p] = left]
  /\ \E i \in DOMAIN ring[<<c, from>>] :
       /\ ring[<<c, from>>][i] = p
       /\ \/ /\ left = 0 /\ ~ KeepsEmpty(c)
             /\ ring' = [ring EXCEPT ![<<c, from>>] = RemoveAt(@, i)]
             /\ victim' = [victim EXCEPT ![t] = p]
             /\ UNCHANGED emptyCount
          \/ /\ left = 0 /\ KeepsEmpty(c)
             /\ ring' = [ring EXCEPT ![<<c, from>>] = RemoveAt(@, i),
                                     ![<<c, "empty">>] = Append(@, p)]
             /\ emptyCount' = [emptyCount EXCEPT ![c] = @ + 1]
             /\ UNCHANGED victim
          \/ /\ left > 0 /\ from = "full"
             /\ ring' = [ring EXCEPT ![<<c, "full">>] = RemoveAt(@, i),
                                     ![<<c, "partial">>] = Append(@, p)]
             /\ UNCHANGED <<emptyCount, victim>>
          \/ /\ left > 0 /\ from = "partial"
             /\ UNCHANGED <<ring, emptyCount, victim>>
  /\ UNCHANGED <<live, large, length, bump, phase, cleanIdx, lock, data,
                 pgBump, rd, freeBlocks>>

\* handle_rd_tree_remove: the block leaves the radix tree ...
HandleRdTreeRemove(t, c) ==
  /\ lock[c] = t /\ victim[t] # 0
  /\ rd[data[victim[t]]] = victim[t]
  /\ rd' = [rd EXCEPT ![data[victim[t]]] = 0]
  /\ UNCHANGED <<live, large, cacheVars, phase, cleanIdx, lock, slabVars,
                 victim, freeBlocks>>

\* Mutant: the block is returned while the radix tree still names the page.
InsertUninitFirst(t, c) ==
  LET p == victim[t] IN
  /\ lock[c] = t /\ p # 0
  /\ freeBlocks' = freeBlocks \cup {data[p]}
  /\ data' = [data EXCEPT ![p] = Null]
  /\ chain' = [chain EXCEPT ![PageHead(p)] = <<>>]
  /\ counter' = [counter EXCEPT ![p] = 0]
  /\ ring' = [ring EXCEPT ![<<c, "uninit">>] = Append(@, p)]
  /\ victim' = [victim EXCEPT ![t] = 0]
  /\ UNCHANGED <<live, large, length, bump, phase, cleanIdx, lock, emptyCount,
                 pgBump, rd>>

\* ... before insert_uninit keeps the descriptor and destroy_page returns the
\* block to the backend.
InsertUninit(t, c) ==
  LET p == victim[t] IN
  /\ lock[c] = t /\ p # 0
  /\ rd[data[p]] = 0
  /\ freeBlocks' = freeBlocks \cup {data[p]}
  /\ data' = [data EXCEPT ![p] = Null]
  /\ chain' = [chain EXCEPT ![PageHead(p)] = <<>>]
  /\ counter' = [counter EXCEPT ![p] = 0]
  /\ ring' = [ring EXCEPT ![<<c, "uninit">>] = Append(@, p)]
  /\ victim' = [victim EXCEPT ![t] = 0]
  /\ UNCHANGED <<live, large, length, bump, phase, cleanIdx, lock, emptyCount,
                 pgBump, rd>>

DestroyPage(t, c) == HandleRdTreeRemove(t, c) \/ InsertUninit(t, c)

\* Mutant: the guard is leaked.
EndBatchLeaksLock(t, c) ==
  /\ lock[c] = t /\ victim[t] = 0
  /\ chain[BatchHead(t)] = <<>>
  /\ cleanIdx[t] = c
  /\ cleanIdx' = [cleanIdx EXCEPT ![t] = c + 1]
  /\ UNCHANGED <<live, large, cacheVars, phase, lock, slabVars, victim, rd,
                 freeBlocks>>

\* Mutant: the loop over the units advances twice.
EndBatchSkips(t, c) ==
  /\ lock[c] = t /\ victim[t] = 0
  /\ chain[BatchHead(t)] = <<>>
  /\ lock' = [lock EXCEPT ![c] = Null]
  /\ cleanIdx' = [cleanIdx EXCEPT ![t] = c + 2]
  /\ UNCHANGED <<live, large, cacheVars, phase, slabVars, victim, rd,
                 freeBlocks>>

\* The batch is done: the guard of deallocate_batch_to_slab drops the lock.
EndBatch(t, c) ==
  /\ lock[c] = t /\ victim[t] = 0
  /\ chain[BatchHead(t)] = <<>>
  /\ lock' = [lock EXCEPT ![c] = Null]
  /\ cleanIdx' = [cleanIdx EXCEPT ![t] = c + 1]
  /\ UNCHANGED <<live, large, cacheVars, phase, slabVars, victim, rd,
                 freeBlocks>>

\* Mutant: the loop over the units leaves out the last one.
DieEarly(t) ==
  /\ phase[t] = "exit" /\ cleanIdx[t] = NClass
  /\ phase' = [phase EXCEPT ![t] = "dead"]
  /\ UNCHANGED <<live, large, cacheVars, cleanIdx, lock, slabVars, victim, rd,
                 freeBlocks>>

\* Every unit is clean: the cache itself goes back to META_BUMP.
Die(t) ==
  /\ phase[t] = "exit" /\ cleanIdx[t] = NClass + 1
  /\ phase' = [phase EXCEPT ![t] = "dead"]
  /\ UNCHANGED <<live, large, cacheVars, cleanIdx, lock, slabVars, victim, rd,
                 freeBlocks>>

Flush(t) ==
  \/ \E c \in Class :
       \/ CleanUp(t, c)
       \/ \E n \in 1 .. Len(chain[BatchHead(t)]) : DeallocateRun(t, c, n)
       \/ DestroyPage(t, c)
       \/ EndBatch(t, c)
  \/ Die(t)

\* All threads are gone.
Finished == (\A t \in Thread : phase[t] = "dead") /\ UNCHANGED vars

Next ==
  \/ \E t \in Thread :
       \/ \E c \in Class, a \in Align : Alloc(t, c, a)
       \/ \E o \in live : Dealloc(t, o)
       \/ \E b \in Block : AllocLarge(t, b) \/ DeallocLarge(t, b)
       \/ Exit(t)
       \/ Flush(t)
  \/ Finished

Spec == Init /\ [][Next]_vars

\* A thread in its TLS destructor keeps running.
FairSpec == Spec /\ \A t \in Thread : WF_vars(Flush(t))
-----------------------------------------------------------------------------
(***************************************************************************)
(* Properties.                                                             *)
(***************************************************************************)
Linked == AllLinked(chain)
BumpObjects(u) == {BumpObject(u[1], u[2], k) : k \in 0 .. bump[u].count - 1}
Bumped == UNION {BumpObjects(u) : u \in Thread \X Class}

\* No object is in two places: held by the program, linked twice in one list
\* or in two, or still ahead of some bump_ptr.  This is what keeps
\* ThreadCacheUnit::allocate, in any thread, from returning memory in use.
OnePlacePerObject ==
  /\ NoSharing(chain)
  /\ \A u, v \in Thread \X Class :
       u # v => Disjoint(BumpObjects(u), BumpObjects(v))
  /\ Disjoint(Linked, Bumped)
  /\ Disjoint(live, Linked) /\ Disjoint(live, Bumped)

\* Pages of class c with a block: those on a ring other than `uninit', and the
\* one a flush of c is destroying.
InitedPages(c) ==
  (UNION {Range(ring[<<c, k>>]) : k \in {"full", "partial", "empty"}})
    \cup {victim[t] : t \in {u \in Thread : lock[c] = u /\ victim[u] # 0}}

\* Nothing leaks, and nothing is made up: the objects held by the program,
\* linked from a list or ahead of a bump_ptr are all the objects of the
\* blocks the classes own.
NoLeak ==
  live \cup Linked \cup Bumped =
    UNION {UNION {Objects(c, data[p]) : p \in InitedPages(c)} : c \in Class}

\* Each descriptor PG_BUMP gave out is on exactly one ring of one class, once,
\* or is being destroyed by the one flush that took it off its ring.
RingsPartitionPages ==
  /\ NoSharing(ring)
  /\ AllLinked(ring) \cup ({victim[t] : t \in Thread} \ {0}) = 1 .. pgBump
  /\ \A t \in Thread : victim[t] # 0 =>
       /\ victim[t] \notin AllLinked(ring)
       /\ \E c \in Class : lock[c] = t
       /\ \A u \in Thread : victim[u] = victim[t] => u = t

\* counter is the number of objects out of the page, the rest is on its free
\* list, and the ring it is on says which of the two is zero.  allocate_all,
\* is_full and is_empty rely on all three.
PageAccounting ==
  \A c \in Class, k \in Kind : \A p \in Range(ring[<<c, k>>]) :
    LET free == Len(chain[PageHead(p)]) IN
    /\ k = "full"    => counter[p] = PgCount[c] /\ free = 0
    /\ k = "partial" => /\ counter[p] > 0 /\ free > 0
                        /\ counter[p] + free = PgCount[c]
    /\ k = "empty"   => counter[p] = 0 /\ free = PgCount[c]
    /\ k = "uninit"  => counter[p] = 0 /\ free = 0 /\ data[p] = Null

\* A block belongs to the backend, to one large allocation or to one page
\* descriptor; the radix tree names that descriptor, and nothing else, until
\* just before the block is returned.
RadixMatchesPages ==
  /\ Disjoint(freeBlocks, large)
  /\ \A b \in freeBlocks \cup large : rd[b] = 0
  /\ \A p \in Page : data[p] # Null =>
       /\ data[p] \notin freeBlocks \cup large
       /\ \/ rd[data[p]] = p
          \/ rd[data[p]] = 0 /\ \E t \in Thread : victim[t] = p
  /\ \A b \in Block : rd[b] # 0 => data[rd[b]] = b
  /\ \A p, q \in Page : data[p] # Null /\ data[p] = data[q] => p = q

\* list.length counts the objects that really are on the list: it is set from
\* pg_count - counter on a refill and then only adjusted.
LengthIsExact ==
  \A t \in Thread, c \in Class : length[<<t, c>>] = Len(CacheList(t, c))

\* The assertions of deallocate_batch and ObjectPage::deallocate hold for the
\* next run of every batch, and that of ThreadCacheUnit::allocate for every
\* refill from a partial page.
AssertionsHold ==
  /\ \A t \in Thread, c \in Class :
       LET s == chain[BatchHead(t)] IN
       lock[c] = t /\ victim[t] = 0 =>
         \A n \in 1 .. Len(s) : IsRun(s, n) => RunIsSane(c, s, n)
  /\ \A t \in Thread, c \in Class :
       NeedsRefill(t, c, 1) => length[<<t, c>>] + bump[<<t, c>>].count = 0

\* The slab keeps at most one empty page above the limit, and its counter
\* counts them.
EmptyPagesBounded ==
  \A c \in Class :
    /\ emptyCount[c] = Len(ring[<<c, "empty">>])
    /\ emptyCount[c] <= EmptyLimit + 1

\* A thread that is gone has left nothing behind in its cache, and it holds no
\* slab.
DeadHoldNothing ==
  \A t \in Thread : phase[t] = "dead" =>
    /\ \A c \in Class :
         CacheList(t, c) = <<>> /\ bump[<<t, c>>].count = 0 /\ lock[c] # t
    /\ chain[BatchHead(t)] = <<>> /\ victim[t] = 0

\* An allocation hands out one object, which the program did not hold and which
\* is aligned as the layout asked.
AllocIsAligned ==
  [][\A t \in Thread, c \in Class, a \in Align :
       Alloc(t, c, a) => \E o \in AlignedTo[a] \ live : live' = live \cup {o}]_vars

\* A thread that exits gets through its destructor: the slab locks it needs
\* are released to it.
ExitCompletes == \A t \in Thread : phase[t] = "exit" ~> phase[t] = "dead"

\* "We first try to alloc from partial, then create empty page"
\* (efficient_sc.rs:322): a block is fetched only when no page of the class
\* has a free object left.  It does not hold for alignments other than 1.
PartialFirst ==
  [][\A t \in Thread, c \in Class, a \in Align :
       AllocFromFresh(t, c, a) => ring[<<c, "partial">>] = <<>>]_vars

\* The contract of GlobalAlloc: extents are objects and whole blocks.
ExtentOverlap(d, e) == d[2] = e[2] /\ (d[1] = e[1] => d[3] = e[3])
Contract == INSTANCE AllocatorContract WITH
  Extent <- Object \cup {<<0, b, 0>> : b \in Block},
  Overlap <- ExtentOverlap,
  inUse <- live \cup {<<0, b, 0>> : b \in large}

\* Seen from the program, every step is an allocation of memory that is not
\* in use, the return of an allocation, or invisible.
ImplementsContract == Contract!Spec
=============================================================================
