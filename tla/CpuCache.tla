------------------------------ MODULE CpuCache ------------------------------
(***************************************************************************)
(* The per-CPU front end of cache/cpu_cache.rs: objects of a size class    *)
(* are cached per CPU; an empty cache is refilled with a batch from the    *)
(* zone and a full one evicts a batch to it.                               *)
(*                                                                         *)
(* push and pop are single steps, which PerCpuArray shows they are.        *)
(* Between two of them the kernel may migrate the thread, so every step    *)
(* runs on a CPU of its own, c, and only what the code remembers of an     *)
(* earlier one (the cpu an overflow or underflow reported) is state.       *)
(*                                                                         *)
(* Classes share no state but the zone, so one base class and the large    *)
(* sizes, which pass by the caches, stand for all.                         *)
(***************************************************************************)
EXTENDS Naturals, Sequences, FiniteSets, SequencesExt

CONSTANTS
  CacheThread, Core,
  SmallObject,  \* objects of the base class
  LargeObject,  \* objects of a large size
  WideObject,   \* the small objects at an address of a wide alignment
  CWND,         \* objects per batch
  Capacity,     \* get_capacity: objects per cache
  Nil

Object == SmallObject \cup LargeObject
Request == {"small", "wide", "large"}

ASSUME CacheAssumption ==
  /\ SmallObject \cap LargeObject = {} /\ WideObject \subseteq SmallObject
  /\ IsFiniteSet(CacheThread) /\ IsFiniteSet(Core)
  /\ CWND \in Nat \ {0, 1} /\ Capacity \in Nat \ {0}
  /\ Nil \notin Object \cup Core

VARIABLES
  cache,  \* the stack of every CPU
  zone,   \* the free objects of the zone
  held,   \* how many owners an object has among the callers
  th      \* every thread: where it is in a call, and the call's variables

cpuVars == <<cache, zone, held, th>>

(***************************************************************************)
(* req: the request of an allocate in progress, or Nil for a deallocate;   *)
(* cpu: what pop or push reported; batch and n: the local variables (ptr   *)
(* of a deallocate is the first of its batch).                             *)
(***************************************************************************)
NoCall == [at |-> "idle", req |-> Nil, cpu |-> Nil, batch |-> <<>>, n |-> 0]

Enter(t, at, fields) == th' = [th EXCEPT ![t] = [fields EXCEPT !.at = at]]
Done(t) == th' = [th EXCEPT ![t] = NoCall]

CpuInit ==
  /\ cache = [c \in Core |-> <<>>]
  /\ zone = Object
  /\ held = [o \in Object |-> 0]
  /\ th = [t \in CacheThread |-> NoCall]

Aligned(o, req) == req = "wide" => o \in WideObject
Hand(o) == held' = [held EXCEPT ![o] = @ + 1]

\* The two steps on the cache of CPU c; push reports an overflow, pop an underflow.
Underflows(c) == cache[c] = <<>>
Overflows(c) == Len(cache[c]) = Capacity

pop(c) == ~Underflows(c) /\ cache' = [cache EXCEPT ![c] = Front(@)]
push(c, o) == ~Overflows(c) /\ cache' = [cache EXCEPT ![c] = Append(@, o)]

-----------------------------------------------------------------------------
(***************************************************************************)
(* The zone, as these calls read it.  zone.rs has both functions with      *)
(* other signatures (allocate_batch_from_slab returns a list of objects,   *)
(* deallocate_batch_to_slab takes one), so this file is not compiled with  *)
(* it.  That a batch is CWND objects or none is an assumption, from the    *)
(* batch_size the calls pass and the Ok they test.  An object the zone     *)
(* already holds it does not take (EDBFRE, or an assertion: the program    *)
(* ends).                                                                  *)
(***************************************************************************)
Batches ==
  UNION {SetToSeqs(s) : s \in {s \in SUBSET (zone \cap SmallObject) : Cardinality(s) = CWND}}

deallocate_batch_to_slab(b) ==
  /\ IsInjective(b) /\ ToSet(b) \cap zone = {}
  /\ zone' = zone \cup ToSet(b)

dealloc_to_zone(o) == o \notin zone /\ zone' = zone \cup {o}

\* alloc_from_zone, the end of an allocate.
AllocFromZone(t) ==
  LET fit == {o \in zone : (o \in LargeObject <=> th[t].req = "large") /\ Aligned(o, th[t].req)}
  IN  /\ th[t].at = "zone"
      /\ \/ \E o \in fit : zone' = zone \ {o} /\ Hand(o)
         \/ fit = {} /\ UNCHANGED <<zone, held>>
      /\ Done(t)
      /\ UNCHANGED cache

-----------------------------------------------------------------------------
(***************************************************************************)
(* allocate.                                                               *)
(***************************************************************************)
\* A large request goes to the zone, any other pops.  A popped object that is not
\* aligned is put back with deallocate, and the zone serves the request.
Allocate(t, c, req) ==
  LET call == [NoCall EXCEPT !.req = req]
      o == Last(cache[c])
  IN  /\ th[t].at = "idle"
      /\ \/ /\ req = "large"
            /\ Enter(t, "zone", call)
            /\ UNCHANGED <<cache, zone, held>>
         \/ /\ req # "large" /\ Underflows(c)
            /\ Enter(t, "refill", [call EXCEPT !.cpu = c])
            /\ UNCHANGED <<cache, zone, held>>
         \/ /\ req # "large" /\ pop(c)
            /\ \/ Aligned(o, req) /\ Hand(o) /\ Done(t)
               \/ /\ ~Aligned(o, req)
                  /\ Enter(t, "push", [call EXCEPT !.batch = <<o>>])
                  /\ UNCHANGED held
            /\ UNCHANGED zone

\* refill_cache: only on the CPU whose cache was found empty.
Refill(t, c) ==
  /\ th[t].at = "refill"
  /\ \/ /\ c = th[t].cpu
        /\ \E b \in Batches :
             /\ zone' = zone \ ToSet(b)
             /\ Enter(t, "fill", [th[t] EXCEPT !.batch = b, !.n = 1])
     \/ /\ c # th[t].cpu \/ Batches = {}
        /\ Enter(t, "zone", th[t])
        /\ UNCHANGED zone
  /\ UNCHANGED <<cache, held>>

\* push_batch with start_idx 1: n counts from 1, and batch[n - start_idx] (the
\* n-th here) is pushed.
PushBatch(t, c) ==
  LET n == th[t].n
  IN  /\ th[t].at = "fill" /\ n < CWND /\ push(c, th[t].batch[n])
      /\ Enter(t, "fill", [th[t] EXCEPT !.n = n + 1])
      /\ UNCHANGED <<zone, held>>

\* The rest of refill_cache: batch[n..] goes back to the zone, batch[0] is returned.
RefillReturn(t, c) ==
  LET b == th[t].batch  n == th[t].n
  IN  /\ th[t].at = "fill" /\ (n = CWND \/ Overflows(c))
      /\ \/ n < CWND /\ deallocate_batch_to_slab(SubSeq(b, n + 1, CWND))
         \/ n = CWND /\ UNCHANGED zone
      /\ Hand(b[1])
      /\ Done(t)
      /\ UNCHANGED cache

-----------------------------------------------------------------------------
(***************************************************************************)
(* deallocate, of the caller or of the unaligned object.                   *)
(***************************************************************************)
AfterDealloc(t) ==
  IF th[t].req = Nil THEN Done(t) ELSE Enter(t, "zone", [NoCall EXCEPT !.req = th[t].req])

Deallocate(t, o) ==
  /\ th[t].at = "idle" /\ held[o] > 0
  /\ held' = [held EXCEPT ![o] = @ - 1]
  /\ Enter(t, "push", [NoCall EXCEPT !.batch = <<o>>])
  /\ UNCHANGED <<cache, zone>>

Push(t, c) ==
  LET o == th[t].batch[1]
  IN  /\ th[t].at = "push"
      /\ \/ /\ o \in LargeObject
            /\ dealloc_to_zone(o)
            /\ AfterDealloc(t)
            /\ UNCHANGED cache
         \/ /\ o \in SmallObject /\ push(c, o)
            /\ AfterDealloc(t)
            /\ UNCHANGED zone
         \/ /\ o \in SmallObject /\ Overflows(c)
            /\ Enter(t, "evict", [th[t] EXCEPT !.cpu = c, !.n = 1])
            /\ UNCHANGED <<cache, zone>>
      /\ UNCHANGED held

\* evict_cache: only on the CPU whose cache was found full, otherwise
\* dealloc_to_zone.
Evict(t, c) ==
  LET o == th[t].batch[1]
  IN  /\ th[t].at = "evict"
      /\ \/ /\ c = th[t].cpu
            /\ Enter(t, "drain", th[t])
            /\ UNCHANGED zone
         \/ /\ c # th[t].cpu
            /\ dealloc_to_zone(o)
            /\ AfterDealloc(t)
      /\ UNCHANGED <<cache, held>>

\* pop_batch with start_idx 1, behind ptr, up to CWND - 1.
PopBatch(t, c) ==
  /\ th[t].at = "drain" /\ th[t].n < CWND - 1 /\ pop(c)
  /\ Enter(t, "drain", [th[t] EXCEPT !.batch = Append(@, Last(cache[c])), !.n = @ + 1])
  /\ UNCHANGED <<zone, held>>


EvictReturn(t, c) ==
  /\ th[t].at = "drain" /\ (th[t].n >= CWND - 1 \/ Underflows(c))
  /\ deallocate_batch_to_slab(th[t].batch)
  /\ AfterDealloc(t)
  /\ UNCHANGED <<cache, held>>

CpuNext ==
  \E t \in CacheThread :
    \/ AllocFromZone(t)
    \/ \E o \in Object : Deallocate(t, o)
    \/ \E c \in Core :
         \/ \E req \in Request : Allocate(t, c, req)
         \/ Refill(t, c) \/ PushBatch(t, c) \/ RefillReturn(t, c)
         \/ Push(t, c) \/ Evict(t, c) \/ PopBatch(t, c) \/ EvictReturn(t, c)

CpuSpec == CpuInit /\ [][CpuNext]_cpuVars
-----------------------------------------------------------------------------
(***************************************************************************)
(* Properties.                                                             *)
(***************************************************************************)
\* The words of the caches, and the variables of the calls in progress, that hold
\* object o: a refill has in its hands what it has not pushed yet, from n on.
InCaches(o) ==
  {x \in Core \X (1 .. Capacity) :
     x[2] <= Len(cache[x[1]]) /\ cache[x[1]][x[2]] = o}

InCalls(o) ==
  {x \in CacheThread \X (1 .. CWND) :
     /\ x[2] <= Len(th[x[1]].batch) /\ th[x[1]].batch[x[2]] = o
     /\ th[x[1]].at = "fill" => th[x[1]].n <= x[2]}

\* In how many places the object is: the zone, a cache, a call, an owner.
Places(o) ==
  (IF o \in zone THEN 1 ELSE 0) + held[o]
    + Cardinality(InCaches(o)) + Cardinality(InCalls(o))

\* What the return of refill_cache takes away and adds: the n-th object of the batch
\* was neither pushed nor given back, the first was pushed and is returned.
Returning == {t \in CacheThread : th[t].at = "fill" /\ th'[t].at = "idle"}
Lost(o) == {t \in Returning : th[t].batch[th[t].n] = o}
Gained(o) == {t \in Returning : th[t].batch[1] = o}

\* Every step moves a batch or an object without losing or doubling it, wherever the
\* thread migrates between two pushes or pops and whatever the other threads do to the
\* same cache: the one exception is the return of refill_cache, which exchanges exactly
\* one object of its batch for a second owner of the first.
BatchesBalance ==
  [][\A o \in Object :
       Places(o)' + Cardinality(Lost(o)) = Places(o) + Cardinality(Gained(o))]_cpuVars


\* What refill_cache claims (cpu_cache.rs:600): "Upon success, return the first one for
\* immediate usage".  The first one is then the caller's alone, and every other object
\* of the batch is in the cache or in the zone.  The code pushes batch[n - start_idx],
\* so the first one is in the cache as well and the n-th is nowhere.
ObjectsInOnePlace == \A o \in Object : Places(o) = 1
=============================================================================
