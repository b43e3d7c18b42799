---------------------------- MODULE SizeClasses ----------------------------
(***************************************************************************)
(* Sizes: the size class of a request (tc_size_class.rs, or with the       *)
(* feature fixed_heap small_size_class.rs), how a slab lays its slots out  *)
(* in a block (SCAllocator::new), and the life of one object that is       *)
(* allocated, reallocated in place or by moving, and freed with the layout *)
(* its owner knows (cache/mod.rs, thread_cache.rs).                        *)
(*                                                                         *)
(* A class is <<"Base", index>> or <<"Large", size>>.                      *)
(***************************************************************************)
EXTENDS Integers, Sequences

CONSTANTS
  FixedHeap,  \* feature fixed_heap: the small tables
  Requests,   \* sizes that are allocated
  Resizes     \* sizes that realloc is called with

ASSUME SizeAssumption ==
  FixedHeap \in BOOLEAN /\ Requests \subseteq Nat /\ Resizes \subseteq Nat

PageSize == 4096

(***************************************************************************)
(* The tables.  Entry i of the source is entry i + 1 here.                 *)
(***************************************************************************)
TC_SIZE_CLASSES ==
  << 0, 8, 16, 24, 32, 40, 48, 56, 64, 72, 80, 88, 96, 104, 112, 120, 128, 144,
     160, 176, 192, 208, 224, 240, 256, 280, 304, 352, 384, 424, 480, 512, 576,
     640, 704, 832, 896, 1024, 1152, 1280, 1408, 1536, 1792, 2048, 2176, 2304,
     2432, 2944, 3200, 3584, 4096, 4608, 5376, 6528, 8192, 9344, 10880, 13056,
     13952, 16384, 19072, 21760, 24576, 28032 >>

\* The first index of IDX_ARRAY that holds each class; the array never decreases.
IDX_FIRST ==
  << 0, 1, 2, 3, 4, 5, 6, 7, 8, 9, 10, 11, 12, 13, 14, 15, 16, 17, 19, 21, 23, 25,
     27, 29, 31, 33, 36, 39, 45, 49, 54, 61, 65, 73, 81, 89, 105, 113, 129, 130,
     131, 132, 133, 135, 137, 138, 139, 140, 144, 146, 149, 153, 157, 163, 172,
     185, 194, 206, 223, 230, 249, 270, 291, 313 >>

IDX_ARRAY ==
  [i \in 0 .. 339 |->
     CHOOSE c \in 0 .. 63 : /\ IDX_FIRST[c + 1] <= i
                            /\ c = 63 \/ i < IDX_FIRST[c + 2]]

\* Classes 1 to 23 take one page, 24 to 30 two, and so on.
TC_PAGES ==
  [c \in 0 .. 63 |->
     CASE c = 0         -> 0
       [] c \in 1 .. 23  -> 1
       [] c \in 24 .. 30 -> 2
       [] c \in 31 .. 36 -> 4
       [] c \in 37 .. 42 -> 8
       [] c \in 43 .. 49 -> 16
       [] c \in 50 .. 53 -> 32
       [] c \in 54 .. 63 -> 64]

SMALL_SIZE_ARRAY == << 0, 8, 16, 32, 64, 128, 256, 512, 1024, 2048 >>

MAX_SIZE == IF FixedHeap THEN 2048 ELSE 28032
BACKEND_MAX_PAGE == IF FixedHeap THEN 32 ELSE 128
SIZE_CLASSES == IF FixedHeap THEN SMALL_SIZE_ARRAY ELSE TC_SIZE_CLASSES
Indices == 0 .. Len(SIZE_CLASSES) - 1
get_size_class_by_idx(c) == SIZE_CLASSES[c + 1]
get_num_pages_by_idx(c) == IF FixedHeap THEN 1 ELSE TC_PAGES[c]

-----------------------------------------------------------------------------
(***************************************************************************)
(* The class of a request.                                                 *)
(***************************************************************************)
\* Mutant: the request is rounded down to a multiple of eight.
get_sizeclass_tuple2_down(req) ==
  IF req <= 1024 THEN <<"Base", IDX_ARRAY[req \div 8]>>
  ELSE IF req <= MAX_SIZE
       THEN <<"Base", IDX_ARRAY[(req + 127 + 120 * 128) \div 128]>>
       ELSE <<"Large", req>>

get_sizeclass_tuple2(req) ==
  IF req <= 1024 THEN <<"Base", IDX_ARRAY[(req + 7) \div 8]>>
  ELSE IF req <= MAX_SIZE
       THEN <<"Base", IDX_ARRAY[(req + 127 + 120 * 128) \div 128]>>
       ELSE <<"Large", req>>

trailing_zeros(n) ==
  IF n = 0 THEN 64
  ELSE CHOOSE k \in 0 .. 63 : n % 2 ^ k = 0 /\ n % 2 ^ (k + 1) # 0

small_get_size_class(req) ==
  LET final_size == 8 * ((req + 7) \div 8)
  IN  IF final_size <= MAX_SIZE
      THEN <<"Base", trailing_zeros(final_size) - 2>>
      ELSE <<"Large", req>>

get_size_class(req) ==
  IF FixedHeap THEN small_get_size_class(req) ELSE get_sizeclass_tuple2(req)

index(cl) == cl[2]

-----------------------------------------------------------------------------
(***************************************************************************)
(* The slots of a block: SCAllocator::new, for a class of nonzero size.    *)
(***************************************************************************)
pg_count(c) == (PageSize * get_num_pages_by_idx(c)) \div get_size_class_by_idx(c)

next_power_of_two(n) ==
  CHOOSE p \in {2 ^ k : k \in 0 .. 30} : n <= p /\ (p = 1 \/ p \div 2 < n)

RoundUp(n, a) == a * ((n + a - 1) \div a)

\* Mutant: the gap between two slots is not halved.
pg_align_wide(c) ==
  LET size    == get_size_class_by_idx(c)
      perfect == (PageSize * get_num_pages_by_idx(c)) \div pg_count(c)
      gap     == next_power_of_two(perfect - size)
  IN  IF perfect = next_power_of_two(perfect) THEN perfect ELSE RoundUp(size, gap)

\* The distance of two slots: what the block allows if that is a power of two,
\* else the size rounded up to a power of two that the gap has room for.
pg_align(c) ==
  LET size    == get_size_class_by_idx(c)
      perfect == (PageSize * get_num_pages_by_idx(c)) \div pg_count(c)
      half    == next_power_of_two(perfect - size) \div 2
  IN  IF perfect = next_power_of_two(perfect) THEN perfect
      ELSE RoundUp(size, IF half = 0 THEN 1 ELSE half)

-----------------------------------------------------------------------------
(***************************************************************************)
(* One object.                                                             *)
(***************************************************************************)
VARIABLES
  req,    \* the size its owner has asked for last, -1 if there is no object
  from    \* the class its memory was cut from

sizeVars == <<req, from>>
NoClass == <<"Base", 0>>
Large(cl) == cl[1] = "Large"

SizeInit == req = -1 /\ from = NoClass

Alloc(n) ==
  /\ req = -1
  /\ req' = n /\ from' = get_size_class(n)

\* The list, or the page count, that an object is freed with.
FreeClass == get_size_class(req)

Dealloc ==
  /\ req # -1
  /\ req' = -1 /\ from' = NoClass

\* Mutant: an object that shrinks stays where it is.
InPlaceShrink(n) == index(get_size_class(n)) <= index(get_size_class(req))

InPlace(n) == index(get_size_class(req)) = index(get_size_class(n))

\* In place, or by an allocation, a copy and a free.
Realloc(n) ==
  /\ req # -1
  /\ req' = n
  /\ \/ InPlace(n) /\ UNCHANGED from
     \/ ~ InPlace(n) /\ from' = get_size_class(n)

SizeNext ==
  \/ \E n \in Requests : Alloc(n)
  \/ \E n \in Resizes : Realloc(n)
  \/ Dealloc

SizeSpec == SizeInit /\ [][SizeNext]_sizeVars
-----------------------------------------------------------------------------
(***************************************************************************)
(* Properties.                                                             *)
(***************************************************************************)
\* deallocate, and realloc when it moves, find the class by the layout their
\* caller knows: it is the class the object was cut from, also after any number
\* of reallocations in place.
FreedToItsClass == req # -1 => FreeClass = from

\* "round the size up to next size class" (cache/thread_cache.rs:172): the class
\* is the least one that is large enough, and a request is large only if there
\* is none.
RoundsUpToNext ==
  req # -1 =>
    LET cl   == get_size_class(req)
        fits == {c \in Indices : req <= get_size_class_by_idx(c)}
    IN  IF fits = {} THEN Large(cl)
        ELSE cl[1] = "Base" /\ cl[2] \in fits /\ \A c \in fits : cl[2] <= c

\* The last slot of a block ends inside the block, no slot begins before the
\* one below it ends, and the block is one that the backend's lists can hold.
SlotsInBlock ==
  req # -1 /\ ~ Large(from) /\ index(from) # 0 =>
    LET c == index(from)
    IN  /\ get_size_class_by_idx(c) <= pg_align(c)
        /\ pg_count(c) * pg_align(c) <= PageSize * get_num_pages_by_idx(c)
        /\ pg_count(c) > 0
        /\ get_num_pages_by_idx(c) <= BACKEND_MAX_PAGE
=============================================================================
