------------------------------ MODULE MemCache ------------------------------
(***************************************************************************)
(* The thread cache of cache/thread_mem_cache.rs: all free lists of a      *)
(* thread lie in one stretch of words, one section per size class.  head   *)
(* holds the ends of the sections, list the tops of the lists.  A full     *)
(* section gives the upper half of its words to the zone, an empty one     *)
(* takes half a section from it.                                           *)
(*                                                                         *)
(* Large sizes go to the zone and touch no list; they are left out.        *)
(* A cache belongs to one thread and a call enters the zone at most once   *)
(* per class, under the zone's lock, so a call is one step.                *)
(***************************************************************************)
EXTENDS Naturals, FiniteSets, SequencesExt

CONSTANTS
  Owner,       \* the threads: each owns a cache
  MemObject,
  ClassOf,     \* the size class of every object
  PageObjects, \* the objects of a page of every class, from class 1 on
  MemWide,     \* the objects at an address of a wide alignment
  NoObject

Section == 1 .. Len(PageObjects)

ASSUME MemAssumption ==
  /\ IsFiniteSet(MemObject) /\ PageObjects \in Seq(Nat \ {0})
  /\ ClassOf \in [MemObject -> Section]

VARIABLES
  list,    \* the top of every list
  words,   \* the words of every cache
  memZone, \* the free objects of the zone
  memHeld, \* the objects the program has
  alive    \* the threads whose destructor has not run

memVars == <<list, words, memZone, memHeld, alive>>

-----------------------------------------------------------------------------
\* init: a section has twice the objects of a page.  The first words of a cache hold
\* head and list themselves.
Base == 2
head[cl \in 0 .. Len(PageObjects)] ==
  IF cl = 0 THEN Base ELSE head[cl - 1] + 2 * PageObjects[cl]
MemWord == Base .. head[Len(PageObjects)] - 1

MemInit ==
  /\ list = [t \in Owner |-> [cl \in Section |-> head[cl - 1]]]
  /\ words = [t \in Owner |-> [w \in MemWord |-> NoObject]]
  /\ memZone = MemObject
  /\ memHeld = {}
  /\ alive = Owner

Half(cl) == (head[cl] - head[cl - 1]) \div 2
MemAligned(o, wide) == wide => o \in MemWide
get_slice(t, from, to) == [i \in 1 .. to - from |-> words[t][from + i - 1]]

-----------------------------------------------------------------------------
\* The words of the list with a suitable object, of which the topmost is taken.
Suits(t, cl, wide) == {w \in head[cl - 1] .. list[t][cl] - 1 : MemAligned(words[t][w], wide)}

\* allocate, from the list: the fast path at alignment 1 and pop_aligned, which moves
\* the topmost object into the gap.
Pop(t, cl, wide) ==
  LET w == Max(Suits(t, cl, wide))
      top == list[t][cl] - 1
  IN  /\ t \in alive /\ Suits(t, cl, wide) # {}
      /\ words' = [words EXCEPT ![t][w] = words[t][top]]
      /\ list' = [list EXCEPT ![t][cl] = top]
      /\ memHeld' = memHeld \cup {words[t][w]}
      /\ UNCHANGED <<memZone, alive>>

\* alloc_slowpath, from the zone: it writes a batch above the list, the last of
\* which is returned.  The assertion on the room left is the second conjunct.  The
\* zone looks at no alignment, and gives all it is asked for or nothing (ENOMEM).
MemRefill(t, cl, wide) ==
  LET end == list[t][cl]
      n == IF Half(cl) <= head[cl] - end THEN Half(cl) ELSE head[cl] - end
      free == {o \in memZone : ClassOf[o] = cl}
  IN  /\ t \in alive /\ Suits(t, cl, wide) = {}
      /\ head[cl] > end
      /\ \E s \in {s \in SUBSET free : Cardinality(s) = n} : \E b \in SetToSeqs(s) :
           /\ memZone' = memZone \ s
           /\ words' = [words EXCEPT ![t] =
                          [w \in MemWord |-> IF w \in end .. end + n - 1 THEN b[w - end + 1] ELSE @[w]]]
           /\ list' = [list EXCEPT ![t][cl] = end + n - 1]
           /\ memHeld' = memHeld \cup {b[n]}
      /\ UNCHANGED alive

MemPush(t, o) ==
  LET cl == ClassOf[o]
      top == list[t][cl]
  IN  /\ t \in alive /\ o \in memHeld /\ top < head[cl]
      /\ words' = [words EXCEPT ![t][top] = o]
      /\ list' = [list EXCEPT ![t][cl] = top + 1]
      /\ memHeld' = memHeld \ {o}
      /\ UNCHANGED <<memZone, alive>>

\* Mutant: the top is left where the evicted half began.
EvictedToLow(end, cl) == end - Half(cl)

\* Half a section less, and the object that is freed.
EvictedTo(end, cl) == end - (Half(cl) - 1)

\* deallocate, of a full section: the upper half goes to the zone and o takes the
\* first place of it.
PushFull(t, o) ==
  LET cl == ClassOf[o]
      end == list[t][cl]
      top == EvictedTo(end, cl)
  IN  /\ t \in alive /\ o \in memHeld /\ end >= head[cl]
      /\ memZone' = memZone \cup ToSet(get_slice(t, end - Half(cl), end))
      /\ words' = [words EXCEPT ![t][top - 1] = o]
      /\ list' = [list EXCEPT ![t][cl] = top]
      /\ memHeld' = memHeld \ {o}
      /\ UNCHANGED alive

\* Every list, from the bottom of its section to its top, goes to the zone.
cleanup_cache(t) ==
  memZone' = memZone \cup UNION {ToSet(get_slice(t, head[cl - 1], list[t][cl])) : cl \in Section}

\* free_thread_cache: after the lists, the words of the cache are returned.
Exit(t) ==
  /\ t \in alive
  /\ cleanup_cache(t)
  /\ list' = [list EXCEPT ![t] = [cl \in Section |-> head[cl - 1]]]
  /\ alive' = alive \ {t}
  /\ UNCHANGED <<words, memHeld>>

MemNext ==
  \E t \in Owner :
    \/ Exit(t)
    \/ \E cl \in Section, wide \in BOOLEAN : Pop(t, cl, wide) \/ MemRefill(t, cl, wide)
    \/ \E o \in MemObject : MemPush(t, o) \/ PushFull(t, o)

MemSpec == MemInit /\ [][MemNext]_memVars
-----------------------------------------------------------------------------
\* Every object is in exactly one place: free in the zone, with the program, or in
\* one word of the list of its own class in one thread, although pop_aligned, refill
\* and eviction move whole ranges of words by the same four offsets.
OnePlace ==
  \A o \in MemObject :
    LET places == {p \in alive \X Section \X MemWord :
                     /\ head[p[2] - 1] <= p[3] /\ p[3] < list[p[1]][p[2]]
                     /\ words[p[1]][p[3]] = o}
    IN  /\ Cardinality(places) + (IF o \in memZone THEN 1 ELSE 0) + (IF o \in memHeld THEN 1 ELSE 0) = 1
        /\ \A p \in places : p[2] = ClassOf[o]
=============================================================================
