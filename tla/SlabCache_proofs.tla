-------------------------- MODULE SlabCache_proofs --------------------------
(***************************************************************************)
(* What holds of SlabCache for every number of threads, classes, blocks    *)
(* and descriptors.                                                        *)
(*                                                                         *)
(* PagesInv is the part of the inductive invariant about the pages: the    *)
(* rings of every class, the page each flush is destroying, the block of   *)
(* every descriptor, the radix tree and the backend.  It is inductive by   *)
(* itself: the guards of DeallocateRun tell all that these need to know of *)
(* the objects.                                                            *)
(*                                                                         *)
(* CountsInv, in the second part, adds the types, the counters of every    *)
(* page and the lengths of the threads' lists.  PlacesInv, in the third,   *)
(* builds on both for the objects themselves.                              *)
(***************************************************************************)
EXTENDS SlabCache, LinkedLists_proofs

Ring == Class \X Kind

PagesTypeOK ==
  /\ large \subseteq Block
  /\ freeBlocks \subseteq Block
  /\ lock \in [Class -> Thread \cup {Null}]
  /\ ring \in [Ring -> Seq(Page)]
  /\ emptyCount \in [Class -> Nat]
  /\ data \in [Page -> Block \cup {Null}]
  /\ victim \in [Thread -> Page \cup {0}]
  /\ pgBump \in 0 .. MaxPages
  /\ rd \in [Block -> Page \cup {0}]

\* Every descriptor given out is linked once or is being destroyed.
RingsInv ==
  /\ NoSharing(ring)
  /\ \A r \in Ring : \A p \in Range(ring[r]) : p <= pgBump
  /\ \A p \in 1 .. pgBump : \/ \E r \in Ring : p \in Range(ring[r])
                            \/ \E t \in Thread : victim[t] = p

\* The page a flush destroys is off the rings and in no other hands, and it
\* keeps its block, while the slab is locked.
VictimsInv ==
  \A t \in Thread : victim[t] # 0 =>
    /\ victim[t] <= pgBump
    /\ NotElsewhere(ring, victim[t], {})
    /\ \E c \in Class : lock[c] = t
    /\ data[victim[t]] \in Block
    /\ rd[data[victim[t]]] \in {0, victim[t]}
    /\ \A u \in Thread : victim[u] = victim[t] => u = t

\* Who owns a block, and what the radix tree says about it.
BlocksInv ==
  /\ Disjoint(freeBlocks, large)
  /\ \A r \in Ring : r[2] # "uninit" =>
       \A p \in Range(ring[r]) : data[p] \in Block /\ rd[data[p]] = p
  /\ \A r \in Ring : r[2] = "uninit" =>
       \A p \in Range(ring[r]) : data[p] = Null
  /\ \A p \in Page : p > pgBump => data[p] = Null
  /\ \A b \in Block : rd[b] # 0 => data[rd[b]] = b
  /\ \A p \in Page : data[p] # Null => data[p] \notin freeBlocks \cup large
  /\ \A p, q \in Page : data[p] # Null /\ data[p] = data[q] => p = q

PagesInv == PagesTypeOK /\ RingsInv /\ VictimsInv /\ BlocksInv /\ EmptyPagesBounded

pageVars == <<large, freeBlocks, lock, ring, emptyCount, data, victim, pgBump, rd>>

\* The initial state has no pages.
LEMMA PagesInit == Init => PagesInv
<1> SUFFICES ASSUME Init PROVE PagesInv
  OBVIOUS
<1>0. /\ large = {} /\ freeBlocks = Block /\ pgBump = 0
      /\ ring = [r \in Ring |-> <<>>] /\ emptyCount = [c \in Class |-> 0]
      /\ data = [p \in Page |-> Null] /\ rd = [b \in Block |-> 0]
      /\ victim = [t \in Thread |-> 0] /\ lock = [c \in Class |-> Null]
  BY DEF Init, Ring
<1>1. \A r \in Ring : ring[r] = <<>> /\ Len(ring[r]) = 0 /\ Range(ring[r]) = {}
  BY <1>0 DEF Range
<1>2. PagesTypeOK
  BY <1>0, ConstantAssumption DEF PagesTypeOK, Page
<1>3. NoSharing(ring)
  <2>1. DOMAIN ring = Ring
    BY <1>0
  <2>2. IsInjective(<<>>)
    BY DEF IsInjective
  <2> QED BY <1>1, <2>1, <2>2 DEF NoSharing, Disjoint
<1>4. RingsInv
  BY <1>0, <1>1, <1>3 DEF RingsInv
<1>5. VictimsInv
  BY <1>0 DEF VictimsInv
<1>6. BlocksInv
  BY <1>0, <1>1, ConstantAssumption DEF BlocksInv, Disjoint
<1>7. EmptyPagesBounded
  <2>1. ASSUME NEW c \in Class PROVE <<c, "empty">> \in Ring
    BY DEF Ring, Kind
  <2>2. EmptyLimit \in Nat
    BY ConstantAssumption
  <2>3. ASSUME NEW c \in Class
        PROVE  /\ emptyCount[c] = Len(ring[<<c, "empty">>])
               /\ emptyCount[c] <= EmptyLimit + 1
    BY <2>1, <2>2, <1>0, <1>1
  <2> QED BY <2>3 DEF EmptyPagesBounded
<1> QED BY <1>2, <1>4, <1>5, <1>6, <1>7 DEF PagesInv

\* A page moves between two rings, neither of which is `uninit': what the
\* blocks, the radix tree and the flushes rely on is untouched.
LEMMA MovePage ==
  ASSUME PagesInv, NEW g \in Ring, NEW h \in Ring, g # h,
         g[2] # "uninit", h[2] # "uninit", NEW p \in Page,
         ring' \in [Ring -> Seq(Page)], NoSharing(ring'),
         Loses(ring, ring', g, p), Gains(ring, ring', h, p),
         SameElsewhere(ring, ring', {g, h}),
         UNCHANGED <<large, freeBlocks, lock, data, victim, pgBump, rd>>
  PROVE  RingsInv' /\ VictimsInv' /\ BlocksInv'
<1> USE DEF PagesInv
<1>1. DOMAIN ring = Ring /\ DOMAIN ring' = Ring
  BY DEF PagesTypeOK
<1>2. /\ \A r \in Ring \ {g, h} : ring'[r] = ring[r]
      /\ p \in Range(ring[g])
      /\ \A q : q \in Range(ring'[g]) <=> q \in Range(ring[g]) /\ q # p
      /\ \A q : q \in Range(ring'[h]) <=> q \in Range(ring[h]) \/ q = p
  BY <1>1 DEF Loses, Gains, SameElsewhere
<1>3. /\ \A r \in Ring : \A q \in Range(ring'[r]) :
            q \in Range(ring[r]) \/ (r = h /\ q \in Range(ring[g]))
      /\ \A r \in Ring : \A q \in Range(ring[r]) : \E s \in Ring : q \in Range(ring'[s])
  BY <1>2
<1>4. RingsInv'
  BY <1>3 DEF RingsInv
<1>5. VictimsInv'
  <2> SUFFICES ASSUME NEW t \in Thread, victim[t] # 0
               PROVE  NotElsewhere(ring', victim[t], {})
    BY DEF VictimsInv
  <2> QED BY <1>1, <1>3 DEF VictimsInv, NotElsewhere
<1>6. BlocksInv'
  BY <1>3 DEF BlocksInv
<1> QED BY <1>4, <1>5, <1>6

\* A step that touches no page keeps PagesInv.
LEMMA PagesUnchanged ==
  ASSUME PagesInv, UNCHANGED pageVars
  PROVE  PagesInv'
<1>1. PagesTypeOK'
  BY DEF PagesInv, PagesTypeOK, pageVars
<1>2. RingsInv'
  BY DEF PagesInv, RingsInv, pageVars
<1>3. VictimsInv'
  BY DEF PagesInv, VictimsInv, pageVars
<1>4. BlocksInv'
  BY DEF PagesInv, BlocksInv, pageVars
<1>5. EmptyPagesBounded'
  BY DEF PagesInv, EmptyPagesBounded, pageVars
<1> QED BY <1>1, <1>2, <1>3, <1>4, <1>5 DEF PagesInv

\* The rings of a class.
LEMMA RingNames ==
  ASSUME NEW c \in Class
  PROVE  /\ \A k \in Kind : <<c, k>> \in Ring
         /\ <<c, "full">> \in Ring /\ <<c, "partial">> \in Ring
         /\ <<c, "empty">> \in Ring /\ <<c, "uninit">> \in Ring
  BY DEF Ring, Kind

\* remove_full, remove_partial, remove_empty followed by insert_full,
\* insert_partial, insert_ety.
LEMMA RingMove ==
  ASSUME PagesInv, NEW g \in Ring, NEW h \in Ring, g # h,
         g[2] # "uninit", h[2] # "uninit", NEW i \in 1 .. Len(ring[g]),
         ring' = [ring EXCEPT ![g] = RemoveAt(@, i), ![h] = Append(@, ring[g][i])],
         UNCHANGED <<large, freeBlocks, lock, data, victim, pgBump, rd>>
  PROVE  /\ ring' \in [Ring -> Seq(Page)]
         /\ Len(ring'[g]) = Len(ring[g]) - 1 /\ Len(ring'[h]) = Len(ring[h]) + 1
         /\ \A r \in Ring \ {g, h} : ring'[r] = ring[r]
         /\ RingsInv' /\ VictimsInv' /\ BlocksInv'
<1>1. /\ ring \in [Ring -> Seq(Page)] /\ NoSharing(ring)
      /\ ring[g] \in Seq(Page) /\ ring[h] \in Seq(Page) /\ ring[g][i] \in Page
      /\ IsInjective(ring[g])
  BY DEF PagesInv, PagesTypeOK, RingsInv, NoSharing
<1>2. RemoveAt(ring[g], i) \in Seq(Page) /\ Append(ring[h], ring[g][i]) \in Seq(Page)
  BY <1>1, RemoveAtElements
<1>3. /\ ring' \in [Ring -> Seq(Page)]
      /\ ring'[g] = RemoveAt(ring[g], i) /\ ring'[h] = Append(ring[h], ring[g][i])
      /\ \A r \in Ring \ {g, h} : ring'[r] = ring[r]
      /\ SameElsewhere(ring, ring', {g, h})
  BY <1>1, <1>2 DEF SameElsewhere
<1>4. PICK p \in Page : p = ring[g][i]
  BY <1>1
<1>5. /\ NoSharing(ring') /\ Loses(ring, ring', g, ring[g][i])
      /\ Gains(ring, ring', h, ring[g][i])
  BY ONLY <1>1, <1>3, MoveOne, g # h, g \in Ring, h \in Ring, i \in 1 .. Len(ring[g])
<1>6. RingsInv' /\ VictimsInv' /\ BlocksInv'
  BY <1>3, <1>4, <1>5, MovePage
<1> QED BY <1>3, <1>5, <1>6 DEF Loses, Gains

\* Draining the first partial page: partial -> full.
LEMMA PagesAllocFromPartial ==
  ASSUME PagesInv, NEW t \in Thread, NEW c \in Class, NEW a \in Align,
         AllocFromPartial(t, c, a)
  PROVE  PagesInv'
<1> DEFINE g == <<c, "partial">>
           h == <<c, "full">>
<1>1. g \in Ring /\ h \in Ring /\ g # h /\ g[2] # "uninit" /\ h[2] # "uninit"
  BY RingNames
<1>2. ring[g] \in Seq(Page) /\ ring[g] # <<>>
  BY <1>1 DEF PagesInv, PagesTypeOK, AllocFromPartial
<1>3. Tail(ring[g]) = RemoveAt(ring[g], 1) /\ Head(ring[g]) = ring[g][1]
      /\ 1 \in 1 .. Len(ring[g])
  BY <1>2, TailIsRemoveAt
<1>4. ring' = [ring EXCEPT ![g] = RemoveAt(@, 1), ![h] = Append(@, ring[g][1])]
  BY <1>3 DEF AllocFromPartial
<1>5. UNCHANGED <<large, freeBlocks, lock, data, victim, pgBump, rd, emptyCount>>
  BY DEF AllocFromPartial
<1>6. /\ ring' \in [Ring -> Seq(Page)]
      /\ \A r \in Ring \ {g, h} : ring'[r] = ring[r]
      /\ RingsInv' /\ VictimsInv' /\ BlocksInv'
  BY <1>1, <1>3, <1>4, <1>5, RingMove
<1>7. PagesTypeOK'
  BY <1>5, <1>6 DEF PagesInv, PagesTypeOK
<1>8. EmptyPagesBounded'
  <2>1. ASSUME NEW d \in Class PROVE ring'[<<d, "empty">>] = ring[<<d, "empty">>]
    BY <1>6, RingNames
  <2> QED BY <2>1, <1>5 DEF PagesInv, EmptyPagesBounded
<1> QED BY <1>6, <1>7, <1>8 DEF PagesInv

\* Reusing a page that was kept empty: empty -> full, one fewer kept.
LEMMA PagesAllocFromEmpty ==
  ASSUME PagesInv, NEW t \in Thread, NEW c \in Class, NEW a \in Align,
         AllocFromEmpty(t, c, a)
  PROVE  PagesInv'
<1> DEFINE g == <<c, "empty">>
           h == <<c, "full">>
<1>1. g \in Ring /\ h \in Ring /\ g # h /\ g[2] # "uninit" /\ h[2] # "uninit"
  BY RingNames
<1>2. ring[g] \in Seq(Page) /\ ring[g] # <<>>
  BY <1>1 DEF PagesInv, PagesTypeOK, AllocFromEmpty
<1>3. Tail(ring[g]) = RemoveAt(ring[g], 1) /\ Head(ring[g]) = ring[g][1]
      /\ 1 \in 1 .. Len(ring[g])
  BY <1>2, TailIsRemoveAt
<1>4. ring' = [ring EXCEPT ![g] = RemoveAt(@, 1), ![h] = Append(@, ring[g][1])]
  BY <1>3 DEF AllocFromEmpty
<1>5. /\ UNCHANGED <<large, freeBlocks, lock, data, victim, pgBump, rd>>
      /\ emptyCount' = [emptyCount EXCEPT ![c] = @ - 1]
  BY DEF AllocFromEmpty
<1>6. /\ ring' \in [Ring -> Seq(Page)] /\ Len(ring'[g]) = Len(ring[g]) - 1
      /\ \A r \in Ring \ {g, h} : ring'[r] = ring[r]
      /\ RingsInv' /\ VictimsInv' /\ BlocksInv'
  BY <1>1, <1>3, <1>4, <1>5, RingMove
<1>7. emptyCount[c] \in Nat /\ emptyCount[c] = Len(ring[g]) /\ Len(ring[g]) > 0
  BY <1>2, EmptySeq DEF PagesInv, PagesTypeOK, EmptyPagesBounded
<1>8. emptyCount' \in [Class -> Nat]
  BY <1>5, <1>7 DEF PagesInv, PagesTypeOK
<1>9. PagesTypeOK'
  BY <1>5, <1>6, <1>8 DEF PagesInv, PagesTypeOK
<1>10. EmptyPagesBounded'
  <2> SUFFICES ASSUME NEW d \in Class
               PROVE  /\ emptyCount'[d] = Len(ring'[<<d, "empty">>])
                      /\ emptyCount'[d] <= EmptyLimit + 1
    BY DEF EmptyPagesBounded
  <2>1. /\ emptyCount[d] = Len(ring[<<d, "empty">>])
        /\ emptyCount[d] <= EmptyLimit + 1
        /\ emptyCount[d] \in Nat /\ EmptyLimit \in Nat /\ emptyCount \in [Class -> Nat]
    BY ConstantAssumption DEF PagesInv, PagesTypeOK, EmptyPagesBounded
  <2>2. CASE d = c
    BY <2>1, <2>2, <1>5, <1>6, <1>7
  <2>3. CASE d # c
    <3>1. ring'[<<d, "empty">>] = ring[<<d, "empty">>]
      BY <2>3, <1>6, RingNames
    <3> QED BY <3>1, <2>1, <2>3, <1>5
  <2> QED BY <2>2, <2>3
<1> QED BY <1>6, <1>9, <1>10 DEF PagesInv

\* Descriptor p leaves the ring it may be on for ring h.
JoinsRing(p, h) ==
  \A r \in Ring : \A q : q \in Range(ring'[r]) <=>
    (q \in Range(ring[r]) /\ q # p) \/ (q = p /\ r = h)

\* Descriptor p, and no other, may have been given out by PG_BUMP.
GivenOut(p) ==
  /\ pgBump' \in pgBump .. MaxPages /\ p <= pgBump'
  /\ \A q \in 1 .. pgBump' : q <= pgBump \/ q = p

NoVictim(p) == \A t \in Thread : victim[t] # p

\* A descriptor without a block gets one and joins the full ring.
LEMMA FreshPage ==
  ASSUME PagesInv, NEW h \in Ring, h[2] = "full",
         NEW p \in Page, NEW b \in freeBlocks, data[p] = Null,
         NoVictim(p), ring' \in [Ring -> Seq(Page)], NoSharing(ring'),
         JoinsRing(p, h), GivenOut(p),
         freeBlocks' = freeBlocks \ {b},
         data' = [data EXCEPT ![p] = b], rd' = [rd EXCEPT ![b] = p],
         UNCHANGED <<large, lock, victim>>
  PROVE  RingsInv' /\ VictimsInv' /\ BlocksInv'
<1> USE DEF PagesInv, JoinsRing, GivenOut, NoVictim
<1>1. /\ DOMAIN ring = Ring /\ DOMAIN ring' = Ring /\ b \in Block
      /\ pgBump \in Nat /\ pgBump' \in Nat /\ pgBump <= pgBump'
      /\ MaxPages \in Nat /\ p \in Nat
      /\ \A q \in Page : q \in Nat
      /\ \A r \in Ring : \A q \in Range(ring[r]) : q \in Page
  <2>1. \A r \in Ring : \A q \in Range(ring[r]) : q \in Page
    <3> SUFFICES ASSUME NEW r \in Ring, NEW q \in Range(ring[r]) PROVE q \in Page
      OBVIOUS
    <3>1. ring[r] \in Seq(Page)
      BY DEF PagesTypeOK
    <3> QED BY <3>1, RangeType
  <2> QED BY <2>1, ConstantAssumption DEF PagesTypeOK, Page
<1>2. /\ data'[p] = b /\ \A q \in Page : q # p => data'[q] = data[q]
      /\ rd'[b] = p /\ \A d \in Block : d # b => rd'[d] = rd[d]
  BY <1>1 DEF PagesTypeOK
<1>3. \A q \in Page : data[q] # b
  BY <1>1, ConstantAssumption DEF BlocksInv
<1>4. RingsInv'
  <2>1. ASSUME NEW r \in Ring, NEW q \in Range(ring'[r]) PROVE q <= pgBump'
    <3>1. CASE q = p  BY <3>1
    <3>2. CASE q # p
      <4>1. q \in Nat /\ q <= pgBump  BY <3>2, <1>1 DEF RingsInv
      <4> QED BY <4>1, <1>1
    <3> QED BY <3>1, <3>2
  <2>2. ASSUME NEW q \in 1 .. pgBump'
        PROVE  \/ \E r \in Ring : q \in Range(ring'[r])
               \/ \E t \in Thread : victim[t] = q
    <3>1. CASE q = p  BY <3>1
    <3>2. CASE q # p
      <4>1. q \in 1 .. pgBump  BY <3>2, <1>1
      <4> QED BY <4>1, <3>2 DEF RingsInv
    <3> QED BY <3>1, <3>2
  <2> QED BY <2>1, <2>2 DEF RingsInv
<1>5. VictimsInv'
  <2> SUFFICES ASSUME NEW t \in Thread, victim[t] # 0
               PROVE  /\ victim[t] <= pgBump'
                      /\ NotElsewhere(ring', victim[t], {})
                      /\ data'[victim[t]] \in Block
                      /\ rd'[data'[victim[t]]] \in {0, victim[t]}
    BY DEF VictimsInv
  <2>1. victim[t] \in Page /\ victim[t] # p /\ victim[t] <= pgBump
        /\ NotElsewhere(ring, victim[t], {}) /\ data[victim[t]] \in Block
        /\ rd[data[victim[t]]] \in {0, victim[t]}
    BY DEF VictimsInv, PagesTypeOK
  <2>2. NotElsewhere(ring', victim[t], {})
    BY <2>1, <1>1 DEF NotElsewhere
  <2>3. data'[victim[t]] = data[victim[t]] /\ data[victim[t]] # b
    BY <2>1, <1>2, <1>3
  <2>4. victim[t] <= pgBump'
    <3>1. victim[t] \in Nat  BY <2>1, <1>1
    <3> QED BY <3>1, <2>1, <1>1
  <2>5. rd'[data[victim[t]]] = rd[data[victim[t]]]
    BY <2>1, <2>3, <1>2
  <2> QED BY <2>1, <2>2, <2>3, <2>4, <2>5
<1>6. BlocksInv'
  <2>1. Disjoint(freeBlocks', large')
    BY DEF BlocksInv, Disjoint
  <2>2. ASSUME NEW r \in Ring, r[2] # "uninit", NEW q \in Range(ring'[r])
        PROVE  data'[q] \in Block /\ rd'[data'[q]] = q
    <3>1. CASE q = p  BY <3>1, <1>1, <1>2
    <3>2. CASE q # p
      <4>1. q \in Page /\ data[q] \in Block /\ rd[data[q]] = q
        BY <3>2, <2>2, <1>1 DEF BlocksInv
      <4> QED BY <4>1, <3>2, <1>2, <1>3
    <3> QED BY <3>1, <3>2
  <2>3. ASSUME NEW r \in Ring, r[2] = "uninit", NEW q \in Range(ring'[r])
        PROVE  data'[q] = Null
    <3>1. q \in Range(ring[r]) /\ q # p
      BY <2>3
    <3> QED BY <3>1, <2>3, <1>1, <1>2 DEF BlocksInv
  <2>4. ASSUME NEW q \in Page, q > pgBump' PROVE data'[q] = Null
    BY <2>4, <1>1, <1>2 DEF BlocksInv
  <2>5. ASSUME NEW d \in Block, rd'[d] # 0 PROVE data'[rd'[d]] = d
    <3>1. CASE d = b  BY <3>1, <1>2
    <3>2. CASE d # b
      <4>1. rd'[d] = rd[d] /\ rd[d] \in Page /\ data[rd[d]] = d
        BY <3>2, <2>5, <1>2 DEF BlocksInv, PagesTypeOK
      <4>2. rd[d] # p
        BY <4>1, ConstantAssumption
      <4> QED BY <4>1, <4>2, <1>2
    <3> QED BY <3>1, <3>2
  <2>6. ASSUME NEW q \in Page, data'[q] # Null
        PROVE  data'[q] \notin freeBlocks' \cup large'
    <3>1. CASE q = p  BY <3>1, <1>2 DEF BlocksInv, Disjoint
    <3>2. CASE q # p  BY <3>2, <2>6, <1>2 DEF BlocksInv
    <3> QED BY <3>1, <3>2
  <2>7. ASSUME NEW q \in Page, NEW r \in Page, data'[q] # Null, data'[q] = data'[r]
        PROVE  q = r
    <3>1. CASE q # p /\ r # p  BY <3>1, <2>7, <1>2 DEF BlocksInv
    <3>2. CASE q = p \/ r = p  BY <3>2, <2>7, <1>2, <1>3
    <3> QED BY <3>1, <3>2
  <2> QED BY <2>1, <2>2, <2>3, <2>4, <2>5, <2>6, <2>7 DEF BlocksInv
<1> QED BY <1>4, <1>5, <1>6

\* A new block: uninit -> full, or a new descriptor -> full.
LEMMA PagesAllocFromFresh ==
  ASSUME PagesInv, NEW t \in Thread, NEW c \in Class, NEW a \in Align,
         AllocFromFresh(t, c, a)
  PROVE  PagesInv'
<1> DEFINE g == <<c, "uninit">>
           h == <<c, "full">>
<1>1. g \in Ring /\ h \in Ring /\ g # h /\ g[2] = "uninit" /\ h[2] = "full"
  BY RingNames
<1>2. /\ ring \in [Ring -> Seq(Page)] /\ NoSharing(ring)
      /\ ring[g] \in Seq(Page) /\ ring[h] \in Seq(Page) /\ IsInjective(ring[g])
      /\ MaxPages \in Nat /\ pgBump \in 0 .. MaxPages /\ data \in [Page -> Block \cup {Null}]
      /\ rd \in [Block -> Page \cup {0}] /\ freeBlocks \subseteq Block
  BY <1>1, ConstantAssumption DEF PagesInv, PagesTypeOK, RingsInv, NoSharing
<1>3. UNCHANGED <<large, lock, victim, emptyCount>>
  BY DEF AllocFromFresh
<1>4. ASSUME NEW p \in Page, NEW b \in freeBlocks,
             p = IF ring[g] # <<>> THEN Head(ring[g]) ELSE pgBump + 1,
             freeBlocks' = freeBlocks \ {b},
             data' = [data EXCEPT ![p] = b], rd' = [rd EXCEPT ![b] = p],
             ring' = [ring EXCEPT ![g] = IF ring[g] # <<>> THEN Tail(@) ELSE @,
                                  ![h] = Append(@, p)],
             pgBump' = IF ring[g] # <<>> THEN pgBump ELSE pgBump + 1
      PROVE  PagesInv'
  <2>1. /\ ring' \in [Ring -> Seq(Page)] /\ NoSharing(ring')
        /\ \A r \in Ring \ {g, h} : ring'[r] = ring[r]
        /\ JoinsRing(p, h) /\ data[p] = Null /\ NoVictim(p) /\ GivenOut(p)
    <3>1. CASE ring[g] # <<>>
      <4>1. /\ Tail(ring[g]) = RemoveAt(ring[g], 1) /\ p = ring[g][1]
            /\ 1 \in 1 .. Len(ring[g])
        BY <3>1, <1>2, <1>4, TailIsRemoveAt
      <4>2. RemoveAt(ring[g], 1) \in Seq(Page) /\ Append(ring[h], p) \in Seq(Page)
        BY <4>1, <1>2, RemoveAtElements
      <4>3. /\ ring' \in [Ring -> Seq(Page)] /\ SameElsewhere(ring, ring', {g, h})
            /\ ring'[g] = RemoveAt(ring[g], 1) /\ ring'[h] = Append(ring[h], ring[g][1])
            /\ \A r \in Ring \ {g, h} : ring'[r] = ring[r]
        BY <4>1, <4>2, <3>1, <1>1, <1>2, <1>4 DEF SameElsewhere
      <4>4. /\ NoSharing(ring') /\ Loses(ring, ring', g, ring[g][1])
            /\ Gains(ring, ring', h, ring[g][1])
            /\ NotElsewhere(ring, ring[g][1], {g})
        BY ONLY <4>1, <4>3, <1>1, <1>2, MoveOne
      <4>5. /\ p \in Range(ring[g])
            /\ \A r \in Ring \ {g} : p \notin Range(ring[r])
        BY <4>1, <4>4, <1>2 DEF Loses, NotElsewhere
      <4>6. JoinsRing(p, h)
        <5>1. /\ Range(ring'[g]) = Range(ring[g]) \ {p}
              /\ Range(ring'[h]) = Range(ring[h]) \cup {p}
          BY <4>1, <4>4 DEF Loses, Gains
        <5> SUFFICES ASSUME NEW r \in Ring, NEW q
                     PROVE  q \in Range(ring'[r]) <=>
                       (q \in Range(ring[r]) /\ q # p) \/ (q = p /\ r = h)
          BY DEF JoinsRing
        <5>2. CASE r = g  BY <5>1, <5>2, <1>1
        <5>3. CASE r = h  BY <5>1, <5>3, <4>5, <1>1
        <5>4. CASE r # g /\ r # h  BY <5>4, <4>3, <4>5
        <5> QED BY <5>2, <5>3, <5>4
      <4>7. data[p] = Null /\ p <= pgBump
        BY <4>5, <1>1 DEF PagesInv, BlocksInv, RingsInv
      <4>8. NoVictim(p)
        <5> SUFFICES ASSUME NEW u \in Thread, victim[u] = p PROVE FALSE
          BY DEF NoVictim
        <5>1. p # 0  BY <1>2 DEF Page
        <5> QED BY <5>1, <4>5, <1>1, <1>2 DEF PagesInv, VictimsInv, NotElsewhere
      <4>9. pgBump' = pgBump
        BY <3>1, <1>4
      <4>10. GivenOut(p)
        BY <4>7, <4>9, <1>2 DEF GivenOut
      <4> QED BY <4>3, <4>4, <4>6, <4>7, <4>8, <4>10
    <3>2. CASE ring[g] = <<>>
      <4>1. p = pgBump + 1 /\ pgBump' = pgBump + 1
        BY <3>2, <1>4
      <4>2. ASSUME NEW r \in Ring, NEW q \in Range(ring[r]) PROVE q # p
        <5>1. ring[r] \in Seq(Page)  BY <1>2
        <5>2. q \in Page /\ q <= pgBump
          BY <5>1, RangeType DEF PagesInv, RingsInv
        <5> QED BY <5>2, <4>1, <1>2 DEF Page
      <4>3. Append(ring[h], p) \in Seq(Page)
        BY <1>2
      <4>4. /\ ring' \in [Ring -> Seq(Page)] /\ SameElsewhere(ring, ring', {h})
            /\ ring'[h] = Append(ring[h], p) /\ \A r \in Ring \ {h} : ring'[r] = ring[r]
        BY <4>3, <3>2, <1>1, <1>2, <1>4 DEF SameElsewhere
      <4>5. NotElsewhere(ring, p, {})
        BY <4>2, <1>2 DEF NotElsewhere
      <4>6. NoSharing(ring') /\ Gains(ring, ring', h, p)
        BY ONLY <4>4, <4>5, <1>1, <1>2, LinkOne, p \in Page
      <4>7. JoinsRing(p, h)
        BY <4>2, <4>4, <4>6, <1>1 DEF Gains, JoinsRing
      <4>8. data[p] = Null
        BY <4>1, <1>2 DEF PagesInv, BlocksInv, Page
      <4>9. NoVictim(p)
        <5> SUFFICES ASSUME NEW u \in Thread, victim[u] = p PROVE FALSE
          BY DEF NoVictim
        <5>1. p # 0  BY <1>2 DEF Page
        <5>2. p <= pgBump  BY <5>1 DEF PagesInv, VictimsInv
        <5> QED BY <5>2, <4>1, <1>2
      <4>10. GivenOut(p)
        BY <4>1, <1>2 DEF Page, GivenOut
      <4> QED BY <4>4, <4>6, <4>7, <4>8, <4>9, <4>10
    <3> QED BY <3>1, <3>2
  <2>2. RingsInv' /\ VictimsInv' /\ BlocksInv'
    BY <2>1, <1>1, <1>3, <1>4, FreshPage
  <2>3. PagesTypeOK'
    <3>1. pgBump' \in 0 .. MaxPages
      BY <2>1, <1>2 DEF GivenOut
    <3>2. b \in Block /\ data' \in [Page -> Block \cup {Null}]
          /\ rd' \in [Block -> Page \cup {0}] /\ freeBlocks' \subseteq Block
      BY <1>2, <1>4
    <3> QED BY <3>1, <3>2, <2>1, <1>3 DEF PagesInv, PagesTypeOK
  <2>4. EmptyPagesBounded'
    <3>1. ASSUME NEW d \in Class PROVE ring'[<<d, "empty">>] = ring[<<d, "empty">>]
      BY <2>1, RingNames
    <3> QED BY <3>1, <1>3 DEF PagesInv, EmptyPagesBounded
  <2> QED BY <2>2, <2>3, <2>4 DEF PagesInv
<1>5. /\ \E p \in Page, b \in freeBlocks :
           /\ p = IF ring[g] # <<>> THEN Head(ring[g]) ELSE pgBump + 1
           /\ freeBlocks' = freeBlocks \ {b}
           /\ data' = [data EXCEPT ![p] = b] /\ rd' = [rd EXCEPT ![b] = p]
           /\ ring' = [ring EXCEPT ![g] = IF ring[g] # <<>> THEN Tail(@) ELSE @,
                                   ![h] = Append(@, p)]
      /\ pgBump' = IF ring[g] # <<>> THEN pgBump ELSE pgBump + 1
  <2> DEFINE p == IF ring[g] # <<>> THEN Head(ring[g]) ELSE pgBump + 1
  <2>1. p \in Page
    <3>1. CASE ring[g] # <<>>
      BY <3>1, <1>2, HeadTailProperties
    <3>2. CASE ring[g] = <<>>
      <4>1. p = pgBump + 1 /\ p <= MaxPages
        BY <3>2 DEF AllocFromFresh
      <4> QED BY <4>1, <1>2 DEF Page
    <3> QED BY <3>1, <3>2
  <2>2. PICK b \in freeBlocks :
          /\ freeBlocks' = freeBlocks \ {b}
          /\ data' = [data EXCEPT ![p] = b] /\ rd' = [rd EXCEPT ![b] = p]
    BY DEF AllocFromFresh
  <2>3. /\ ring' = [ring EXCEPT ![g] = IF ring[g] # <<>> THEN Tail(@) ELSE @,
                                ![h] = Append(@, p)]
        /\ pgBump' = IF ring[g] # <<>> THEN pgBump ELSE pgBump + 1
    BY DEF AllocFromFresh
  <2> HIDE DEF p
  <2>4. p = IF ring[g] # <<>> THEN Head(ring[g]) ELSE pgBump + 1
    BY DEF p
  <2> QED BY ONLY <2>1, <2>2, <2>3, <2>4
<1> QED BY <1>4, <1>5

\* Large requests move a block between the backend and the program.
LEMMA PagesLarge ==
  ASSUME PagesInv, NEW t \in Thread, NEW b \in Block,
         AllocLarge(t, b) \/ DeallocLarge(t, b)
  PROVE  PagesInv'
<1>1. /\ UNCHANGED <<lock, ring, emptyCount, data, victim, pgBump, rd>>
      /\ \/ b \in freeBlocks /\ freeBlocks' = freeBlocks \ {b} /\ large' = large \cup {b}
         \/ b \in large /\ large' = large \ {b} /\ freeBlocks' = freeBlocks \cup {b}
  BY DEF AllocLarge, DeallocLarge, slabVars
<1>2. PagesTypeOK' /\ RingsInv' /\ VictimsInv' /\ EmptyPagesBounded'
  BY <1>1 DEF PagesInv, PagesTypeOK, RingsInv, VictimsInv, EmptyPagesBounded
<1>3. freeBlocks' \cup large' = freeBlocks \cup large /\ Disjoint(freeBlocks', large')
  BY <1>1 DEF PagesInv, BlocksInv, Disjoint
<1>4. BlocksInv'
  BY <1>1, <1>3 DEF PagesInv, BlocksInv
<1> QED BY <1>2, <1>4 DEF PagesInv

\* Locking a slab that is free, for a flush.
LEMMA PagesCleanUp ==
  ASSUME PagesInv, NEW t \in Thread, NEW c \in Class, CleanUp(t, c)
  PROVE  PagesInv'
<1>1. CASE UNCHANGED lock
  BY <1>1, PagesUnchanged DEF CleanUp, slabVars, pageVars
<1>2. CASE lock[c] = Null /\ lock' = [lock EXCEPT ![c] = t]
  <2>1. UNCHANGED <<large, freeBlocks, ring, emptyCount, data, victim, pgBump, rd>>
    BY DEF CleanUp, slabVars
  <2>2. PagesTypeOK' /\ RingsInv' /\ BlocksInv' /\ EmptyPagesBounded'
    BY <2>1, <1>2 DEF PagesInv, PagesTypeOK, RingsInv, BlocksInv, EmptyPagesBounded
  <2>3. \A u \in Thread : (\E d \in Class : lock[d] = u) => \E d \in Class : lock'[d] = u
    BY <1>2, ConstantAssumption DEF PagesInv, PagesTypeOK
  <2>4. VictimsInv'
    BY <2>1, <2>3 DEF PagesInv, VictimsInv
  <2> QED BY <2>2, <2>4 DEF PagesInv
<1> QED BY <1>1, <1>2 DEF CleanUp

\* The lock is released only when nothing is being destroyed.
LEMMA PagesEndBatch ==
  ASSUME PagesInv, NEW t \in Thread, NEW c \in Class, EndBatch(t, c)
  PROVE  PagesInv'
<1>1. /\ lock[c] = t /\ victim[t] = 0 /\ lock' = [lock EXCEPT ![c] = Null]
      /\ UNCHANGED <<large, freeBlocks, ring, emptyCount, data, victim, pgBump, rd>>
  BY DEF EndBatch, slabVars
<1>2. PagesTypeOK' /\ RingsInv' /\ BlocksInv' /\ EmptyPagesBounded'
  BY <1>1 DEF PagesInv, PagesTypeOK, RingsInv, BlocksInv, EmptyPagesBounded
<1>3. \A u \in Thread \ {t} :
        (\E d \in Class : lock[d] = u) => \E d \in Class : lock'[d] = u
  BY <1>1 DEF PagesInv, PagesTypeOK
<1>4. VictimsInv'
  BY <1>1, <1>3 DEF PagesInv, VictimsInv
<1> QED BY <1>2, <1>4 DEF PagesInv

\* The block of the victim leaves the radix tree.
LEMMA PagesHandleRdTreeRemove ==
  ASSUME PagesInv, NEW t \in Thread, NEW c \in Class, HandleRdTreeRemove(t, c)
  PROVE  PagesInv'
<1> USE DEF PagesInv
<1> DEFINE v == victim[t]
           b == data[v]
<1>1. /\ v # 0 /\ rd[b] = v /\ rd' = [rd EXCEPT ![b] = 0]
      /\ UNCHANGED <<large, freeBlocks, lock, ring, emptyCount, data, victim, pgBump>>
  BY DEF HandleRdTreeRemove, slabVars
<1>2. /\ v \in Page /\ b \in Block /\ rd \in [Block -> Page \cup {0}]
      /\ DOMAIN ring = Ring /\ data \in [Page -> Block \cup {Null}]
      /\ NotElsewhere(ring, v, {})
  BY <1>1 DEF VictimsInv, PagesTypeOK
<1>3. rd'[b] = 0 /\ \A d \in Block : d # b => rd'[d] = rd[d]
  BY <1>1, <1>2
<1>4. PagesTypeOK' /\ RingsInv' /\ EmptyPagesBounded'
  BY <1>1, <1>2 DEF PagesTypeOK, RingsInv, EmptyPagesBounded
<1>5. VictimsInv'
  <2> SUFFICES ASSUME NEW u \in Thread, victim[u] # 0
               PROVE  rd'[data[victim[u]]] \in {0, victim[u]}
    BY <1>1 DEF VictimsInv
  <2> QED BY <1>3 DEF VictimsInv
<1>6. BlocksInv'
  <2>1. ASSUME NEW r \in Ring, r[2] # "uninit", NEW q \in Range(ring[r])
        PROVE  data[q] \in Block /\ rd'[data[q]] = q
    <3>1. q # v  BY <1>2 DEF NotElsewhere
    <3>2. data[q] \in Block /\ rd[data[q]] = q  BY <2>1 DEF BlocksInv
    <3>3. data[q] # b  BY <3>1, <3>2, <1>1
    <3> QED BY <3>2, <3>3, <1>3
  <2>2. ASSUME NEW d \in Block, rd'[d] # 0 PROVE data[rd'[d]] = d
    BY <2>2, <1>3 DEF BlocksInv
  <2> QED BY <2>1, <2>2, <1>1 DEF BlocksInv
<1> QED BY <1>4, <1>5, <1>6

\* The descriptor of the victim is kept and its block goes to the backend.
LEMMA PagesInsertUninit ==
  ASSUME PagesInv, NEW t \in Thread, NEW c \in Class, InsertUninit(t, c)
  PROVE  PagesInv'
<1> DEFINE v == victim[t]
           b == data[v]
           h == <<c, "uninit">>
<1>1. /\ v # 0 /\ rd[b] = 0
      /\ freeBlocks' = freeBlocks \cup {b} /\ data' = [data EXCEPT ![v] = Null]
      /\ ring' = [ring EXCEPT ![h] = Append(@, v)] /\ victim' = [victim EXCEPT ![t] = 0]
      /\ UNCHANGED <<large, lock, emptyCount, pgBump, rd>>
  BY DEF InsertUninit
<1>2. /\ h \in Ring /\ h[2] = "uninit" /\ ring \in [Ring -> Seq(Page)] /\ NoSharing(ring)
      /\ data \in [Page -> Block \cup {Null}] /\ victim \in [Thread -> Page \cup {0}]
      /\ rd \in [Block -> Page \cup {0}]
  BY RingNames DEF PagesInv, PagesTypeOK, RingsInv
<1>3. /\ v \in Page /\ v <= pgBump /\ b \in Block /\ NotElsewhere(ring, v, {})
      /\ \A u \in Thread : victim[u] = v => u = t
  BY <1>1, <1>2 DEF PagesInv, VictimsInv
<1> HIDE DEF v, b
<1>4. /\ ring' \in [Ring -> Seq(Page)] /\ SameElsewhere(ring, ring', {h})
      /\ ring'[h] = Append(ring[h], v) /\ \A r \in Ring \ {h} : ring'[r] = ring[r]
  BY <1>1, <1>2, <1>3 DEF SameElsewhere
<1>5. NoSharing(ring') /\ Gains(ring, ring', h, v)
  BY ONLY <1>2, <1>3, <1>4, LinkOne
<1>6. /\ data'[v] = Null /\ \A q \in Page : q # v => data'[q] = data[q]
      /\ victim'[t] = 0 /\ \A u \in Thread : u # t => victim'[u] = victim[u]
      /\ \A q \in Page : q # v => data[q] # b
      /\ v = victim[t] /\ b = data[v]
  BY <1>1, <1>2, <1>3, ConstantAssumption DEF PagesInv, BlocksInv, v, b
<1>7. \A r \in Ring : \A q : q \in Range(ring'[r]) <=>
        q \in Range(ring[r]) \/ (r = h /\ q = v)
  BY <1>4, <1>5 DEF Gains
<1>8. \A r \in Ring : \A q \in Range(ring[r]) : q # v /\ q \in Page
  <2> SUFFICES ASSUME NEW r \in Ring, NEW q \in Range(ring[r]) PROVE q # v /\ q \in Page
    OBVIOUS
  <2>1. ring[r] \in Seq(Page)  BY <1>2
  <2>2. q \in Page  BY <2>1, RangeType
  <2> QED BY <2>2, <1>2, <1>3 DEF NotElsewhere
<1>9. PagesTypeOK'
  BY <1>1, <1>2, <1>3, <1>4 DEF PagesInv, PagesTypeOK
<1>10. RingsInv'
  <2>1. \A r \in Ring : \A q \in Range(ring'[r]) : q <= pgBump'
    BY <1>1, <1>3, <1>7 DEF PagesInv, RingsInv
  <2>2. ASSUME NEW q \in 1 .. pgBump'
        PROVE  \/ \E r \in Ring : q \in Range(ring'[r])
               \/ \E u \in Thread : victim'[u] = q
    <3>1. CASE q = v  BY <3>1, <1>2, <1>7
    <3>2. CASE q # v
      <4>1. \/ \E r \in Ring : q \in Range(ring[r])
            \/ \E u \in Thread : victim[u] = q
        BY <1>1 DEF PagesInv, RingsInv
      <4>2. CASE \E r \in Ring : q \in Range(ring[r])
        BY <4>2, <1>7
      <4>3. ASSUME NEW u \in Thread, victim[u] = q PROVE victim'[u] = q
        BY <4>3, <3>2, <1>6
      <4> QED BY <4>1, <4>2, <4>3
    <3> QED BY <3>1, <3>2
  <2> QED BY <2>1, <2>2, <1>5 DEF RingsInv
<1>11. VictimsInv'
  <2> SUFFICES ASSUME NEW u \in Thread, victim'[u] # 0
               PROVE  /\ victim'[u] <= pgBump'
                      /\ NotElsewhere(ring', victim'[u], {})
                      /\ \E d \in Class : lock'[d] = u
                      /\ data'[victim'[u]] \in Block
                      /\ rd'[data'[victim'[u]]] \in {0, victim'[u]}
                      /\ \A w \in Thread : victim'[w] = victim'[u] => w = u
    BY DEF VictimsInv
  <2>1. u # t /\ victim'[u] = victim[u] /\ victim[u] # v /\ victim[u] \in Page
    BY <1>2, <1>3, <1>6
  <2>2. /\ victim[u] <= pgBump /\ NotElsewhere(ring, victim[u], {})
        /\ \E d \in Class : lock[d] = u
        /\ data[victim[u]] \in Block /\ rd[data[victim[u]]] \in {0, victim[u]}
        /\ \A w \in Thread : victim[w] = victim[u] => w = u
    BY <2>1 DEF PagesInv, VictimsInv
  <2>3. NotElsewhere(ring', victim[u], {})
    BY <2>1, <2>2, <1>2, <1>4, <1>7 DEF NotElsewhere
  <2>4. \A w \in Thread : victim'[w] = victim'[u] => w = u
    BY <2>1, <2>2, <1>6
  <2> QED BY <2>1, <2>2, <2>3, <2>4, <1>1, <1>6
<1>12. BlocksInv'
  <2>1. Disjoint(freeBlocks', large') /\ b \notin freeBlocks \cup large
    BY <1>1, <1>3, <1>6, ConstantAssumption DEF PagesInv, BlocksInv, Disjoint
  <2>2. ASSUME NEW r \in Ring, r[2] # "uninit", NEW q \in Range(ring'[r])
        PROVE  data'[q] \in Block /\ rd'[data'[q]] = q
    BY <2>2, <1>1, <1>2, <1>6, <1>7, <1>8 DEF PagesInv, BlocksInv
  <2>3. ASSUME NEW r \in Ring, r[2] = "uninit", NEW q \in Range(ring'[r])
        PROVE  data'[q] = Null
    BY <2>3, <1>6, <1>7, <1>8 DEF PagesInv, BlocksInv
  <2>4. ASSUME NEW q \in Page, q > pgBump' PROVE data'[q] = Null
    BY <2>4, <1>1, <1>6 DEF PagesInv, BlocksInv
  <2>5. ASSUME NEW d \in Block, rd'[d] # 0 PROVE data'[rd'[d]] = d
    <3>1. rd'[d] = rd[d] /\ rd[d] \in Page /\ data[rd[d]] = d
      BY <2>5, <1>1, <1>2 DEF PagesInv, BlocksInv
    <3>2. rd[d] # v  BY <3>1, <2>5, <1>1, <1>6
    <3> QED BY <3>1, <3>2, <1>6
  <2>6. ASSUME NEW q \in Page, data'[q] # Null
        PROVE  data'[q] \notin freeBlocks' \cup large'
    BY <2>6, <1>1, <1>6 DEF PagesInv, BlocksInv
  <2>7. ASSUME NEW q \in Page, NEW r \in Page, data'[q] # Null, data'[q] = data'[r]
        PROVE  q = r
    BY <2>7, <1>6 DEF PagesInv, BlocksInv
  <2> QED BY <2>1, <2>2, <2>3, <2>4, <2>5, <2>6, <2>7 DEF BlocksInv
<1>13. EmptyPagesBounded'
  <2>1. ASSUME NEW d \in Class PROVE ring'[<<d, "empty">>] = ring[<<d, "empty">>]
    BY <1>4, RingNames
  <2> QED BY <2>1, <1>1 DEF PagesInv, EmptyPagesBounded
<1> QED BY <1>9, <1>10, <1>11, <1>12, <1>13 DEF PagesInv

\* A page becomes empty while enough are kept: it leaves its ring for the
\* flush that destroys it.
LEMMA TakePage ==
  ASSUME PagesInv, NEW t \in Thread, NEW c \in Class, NEW g \in Ring,
         g[2] # "uninit", g[2] # "empty", lock[c] = t, victim[t] = 0,
         NEW i \in 1 .. Len(ring[g]), ring' = [ring EXCEPT ![g] = RemoveAt(@, i)],
         victim' = [victim EXCEPT ![t] = ring[g][i]],
         UNCHANGED <<large, freeBlocks, lock, emptyCount, data, pgBump, rd>>
  PROVE  PagesInv'
<1>1. /\ ring \in [Ring -> Seq(Page)] /\ NoSharing(ring)
      /\ ring[g] \in Seq(Page) /\ IsInjective(ring[g])
      /\ victim \in [Thread -> Page \cup {0}] /\ data \in [Page -> Block \cup {Null}]
      /\ rd \in [Block -> Page \cup {0}]
  BY DEF PagesInv, PagesTypeOK, RingsInv, NoSharing
<1>2. PICK p \in Page : p = ring[g][i] /\ p \in Range(ring[g])
  BY <1>1, InRange
<1>3. RemoveAt(ring[g], i) \in Seq(Page)
  BY <1>1, RemoveAtElements
<1>4. /\ ring' \in [Ring -> Seq(Page)] /\ SameElsewhere(ring, ring', {g})
      /\ ring'[g] = RemoveAt(ring[g], i) /\ \A r \in Ring \ {g} : ring'[r] = ring[r]
  BY <1>1, <1>3 DEF SameElsewhere
<1>5. /\ NoSharing(ring') /\ Loses(ring, ring', g, ring[g][i])
      /\ NotElsewhere(ring, ring[g][i], {g})
  BY ONLY <1>1, <1>4, UnlinkOne, g \in Ring, i \in 1 .. Len(ring[g])
<1>6. /\ \A r \in Ring : \A q : q \in Range(ring'[r]) <=> q \in Range(ring[r]) /\ q # p
      /\ NotElsewhere(ring', p, {})
  BY <1>1, <1>2, <1>4, <1>5 DEF Loses, NotElsewhere
<1>7. /\ p <= pgBump /\ p # 0 /\ data[p] \in Block /\ rd[data[p]] = p
      /\ \A u \in Thread : victim[u] # p
  <2>1. p # 0
    BY ConstantAssumption DEF Page
  <2>2. p <= pgBump /\ data[p] \in Block /\ rd[data[p]] = p
    BY <1>2 DEF PagesInv, RingsInv, BlocksInv
  <2>3. ASSUME NEW u \in Thread, victim[u] = p PROVE FALSE
    BY <2>1, <2>3, <1>1, <1>2 DEF PagesInv, VictimsInv, NotElsewhere
  <2> QED BY <2>1, <2>2, <2>3
<1>8. victim'[t] = p /\ \A u \in Thread : u # t => victim'[u] = victim[u]
  BY <1>1, <1>2
<1>9. PagesTypeOK'
  BY <1>1, <1>2, <1>4 DEF PagesInv, PagesTypeOK
<1>10. RingsInv'
  <2>1. \A r \in Ring : \A q \in Range(ring'[r]) : q <= pgBump'
    BY <1>6 DEF PagesInv, RingsInv
  <2>2. ASSUME NEW q \in 1 .. pgBump'
        PROVE  \/ \E r \in Ring : q \in Range(ring'[r])
               \/ \E u \in Thread : victim'[u] = q
    <3>1. CASE q = p  BY <3>1, <1>8
    <3>2. CASE q # p
      <4>1. \/ \E r \in Ring : q \in Range(ring[r])
            \/ \E u \in Thread : victim[u] = q
        BY DEF PagesInv, RingsInv
      <4>2. CASE \E r \in Ring : q \in Range(ring[r])
        BY <4>2, <3>2, <1>6
      <4>3. ASSUME NEW u \in Thread, victim[u] = q PROVE victim'[u] = q
        <5>1. q # 0  OBVIOUS
        <5> QED BY <5>1, <4>3, <1>8
      <4> QED BY <4>1, <4>2, <4>3
    <3> QED BY <3>1, <3>2
  <2> QED BY <2>1, <2>2, <1>5 DEF RingsInv
<1>11. VictimsInv'
  <2> SUFFICES ASSUME NEW u \in Thread, victim'[u] # 0
               PROVE  /\ victim'[u] <= pgBump'
                      /\ NotElsewhere(ring', victim'[u], {})
                      /\ \E d \in Class : lock'[d] = u
                      /\ data'[victim'[u]] \in Block
                      /\ rd'[data'[victim'[u]]] \in {0, victim'[u]}
                      /\ \A w \in Thread : victim'[w] = victim'[u] => w = u
    BY Zenon DEF VictimsInv
  <2>1. CASE u = t
    BY <2>1, <1>6, <1>7, <1>8
  <2>2. CASE u # t
    <3>1. victim'[u] = victim[u] /\ victim[u] # 0 /\ victim[u] # p
      BY <2>2, <1>7, <1>8
    <3>2. /\ victim[u] <= pgBump /\ NotElsewhere(ring, victim[u], {})
          /\ \E d \in Class : lock[d] = u
          /\ data[victim[u]] \in Block /\ rd[data[victim[u]]] \in {0, victim[u]}
          /\ \A w \in Thread : victim[w] = victim[u] => w = u
      BY <3>1 DEF PagesInv, VictimsInv
    <3>3. NotElsewhere(ring', victim[u], {})
      BY <3>2, <1>1, <1>4, <1>6 DEF NotElsewhere
    <3>4. \A w \in Thread : victim'[w] = victim'[u] => w = u
      BY <3>1, <3>2, <1>8
    <3> QED BY <3>1, <3>2, <3>3, <3>4
  <2> QED BY <2>1, <2>2
<1>12. BlocksInv'
  BY <1>6 DEF PagesInv, BlocksInv
<1>13. EmptyPagesBounded'
  <2>1. ASSUME NEW d \in Class PROVE ring'[<<d, "empty">>] = ring[<<d, "empty">>]
    BY <1>4, RingNames
  <2> QED BY <2>1 DEF PagesInv, EmptyPagesBounded
<1> QED BY <1>9, <1>10, <1>11, <1>12, <1>13 DEF PagesInv

\* A run of objects returns to its page: the page changes ring or is taken off.
LEMMA PagesDeallocateRun ==
  ASSUME PagesInv, NEW t \in Thread, NEW c \in Class, NEW n, DeallocateRun(t, c, n)
  PROVE  PagesInv'
<1> DEFINE s == chain[BatchHead(t)]
           p == rd[s[1][2]]
           from == RingOf(c, p)
           left == Left(p, n)
           g == <<c, from>>
           e == <<c, "empty">>
<1>1. /\ lock[c] = t /\ victim[t] = 0
      /\ UNCHANGED <<large, freeBlocks, lock, data, pgBump, rd>>
  BY DEF DeallocateRun
<1>2. /\ from \in {"full", "partial"} /\ g \in Ring /\ e \in Ring /\ g # e
      /\ <<c, "partial">> \in Ring /\ <<c, "full">> \in Ring
      /\ g[2] \in {"full", "partial"} /\ e[2] = "empty"
  BY RingNames DEF RingOf
<1>3. PICK i \in DOMAIN ring[g] :
       /\ ring[g][i] = p
       /\ \/ /\ left = 0 /\ ~ KeepsEmpty(c)
             /\ ring' = [ring EXCEPT ![g] = RemoveAt(@, i)]
             /\ victim' = [victim EXCEPT ![t] = p]
             /\ UNCHANGED emptyCount
          \/ /\ left = 0 /\ KeepsEmpty(c)
             /\ ring' = [ring EXCEPT ![g] = RemoveAt(@, i), ![e] = Append(@, p)]
             /\ emptyCount' = [emptyCount EXCEPT ![c] = @ + 1]
             /\ UNCHANGED victim
          \/ /\ left > 0 /\ from = "full"
             /\ ring' = [ring EXCEPT ![<<c, "full">>] = RemoveAt(@, i),
                                     ![<<c, "partial">>] = Append(@, p)]
             /\ UNCHANGED <<emptyCount, victim>>
          \/ UNCHANGED <<ring, emptyCount, victim>>
  BY DEF DeallocateRun
<1> HIDE DEF p, from, left
<1>4. i \in 1 .. Len(ring[g]) /\ ring \in [Ring -> Seq(Page)]
  BY <1>2, <1>3 DEF PagesInv, PagesTypeOK
<1>5. CASE /\ ring' = [ring EXCEPT ![g] = RemoveAt(@, i)]
           /\ victim' = [victim EXCEPT ![t] = p]
           /\ UNCHANGED emptyCount
  <2>1. victim' = [victim EXCEPT ![t] = ring[g][i]]
    BY <1>3, <1>5
  <2> QED BY <2>1, <1>1, <1>2, <1>4, <1>5, TakePage
<1>6. CASE /\ KeepsEmpty(c)
           /\ ring' = [ring EXCEPT ![g] = RemoveAt(@, i), ![e] = Append(@, p)]
           /\ emptyCount' = [emptyCount EXCEPT ![c] = @ + 1]
           /\ UNCHANGED victim
  <2>1. ring' = [ring EXCEPT ![g] = RemoveAt(@, i), ![e] = Append(@, ring[g][i])]
    BY <1>3, <1>6
  <2>2. /\ ring' \in [Ring -> Seq(Page)]
        /\ Len(ring'[e]) = Len(ring[e]) + 1
        /\ \A r \in Ring \ {g, e} : ring'[r] = ring[r]
        /\ RingsInv' /\ VictimsInv' /\ BlocksInv'
    BY <2>1, <1>1, <1>2, <1>4, <1>6, RingMove
  <2>3. emptyCount \in [Class -> Nat] /\ emptyCount' \in [Class -> Nat] /\ EmptyLimit \in Nat
    BY <1>6, ConstantAssumption DEF PagesInv, PagesTypeOK
  <2>4. PagesTypeOK'
    BY <2>2, <2>3, <1>1, <1>6 DEF PagesInv, PagesTypeOK
  <2>5. EmptyPagesBounded'
    <3> SUFFICES ASSUME NEW d \in Class
                 PROVE  /\ emptyCount'[d] = Len(ring'[<<d, "empty">>])
                        /\ emptyCount'[d] <= EmptyLimit + 1
      BY DEF EmptyPagesBounded
    <3>1. /\ emptyCount[d] = Len(ring[<<d, "empty">>])
          /\ emptyCount[d] <= EmptyLimit + 1
      BY DEF PagesInv, EmptyPagesBounded
    <3>2. CASE d = c
      BY <3>1, <3>2, <2>2, <2>3, <1>6 DEF KeepsEmpty
    <3>3. CASE d # c
      <4>1. ring'[<<d, "empty">>] = ring[<<d, "empty">>]
        BY <3>3, <2>2, RingNames
      <4> QED BY <4>1, <3>1, <3>3, <2>3, <1>6
    <3> QED BY <3>2, <3>3
  <2> QED BY <2>2, <2>4, <2>5 DEF PagesInv
<1>7. CASE /\ from = "full"
           /\ ring' = [ring EXCEPT ![<<c, "full">>] = RemoveAt(@, i),
                                   ![<<c, "partial">>] = Append(@, p)]
           /\ UNCHANGED <<emptyCount, victim>>
  <2> DEFINE h == <<c, "partial">>
  <2>1. /\ ring' = [ring EXCEPT ![g] = RemoveAt(@, i), ![h] = Append(@, ring[g][i])]
        /\ g # h /\ g[2] # "uninit" /\ h[2] # "uninit" /\ h \in Ring
    BY <1>2, <1>3, <1>7
  <2>2. /\ ring' \in [Ring -> Seq(Page)]
        /\ \A r \in Ring \ {g, h} : ring'[r] = ring[r]
        /\ RingsInv' /\ VictimsInv' /\ BlocksInv'
    BY <2>1, <1>1, <1>2, <1>4, <1>7, RingMove
  <2>3. PagesTypeOK'
    BY <2>2, <1>1, <1>7 DEF PagesInv, PagesTypeOK
  <2>4. EmptyPagesBounded'
    <3>1. ASSUME NEW d \in Class PROVE ring'[<<d, "empty">>] = ring[<<d, "empty">>]
      BY <2>2, <1>7, RingNames
    <3> QED BY <3>1, <1>7 DEF PagesInv, EmptyPagesBounded
  <2> QED BY <2>2, <2>3, <2>4 DEF PagesInv
<1>8. CASE UNCHANGED <<ring, emptyCount, victim>>
  BY <1>1, <1>8, PagesUnchanged DEF pageVars
<1> QED BY <1>3, <1>5, <1>6, <1>7, <1>8

\* Every step keeps the pages in order.
LEMMA PagesNext ==
  ASSUME PagesInv, [Next]_vars
  PROVE  PagesInv'
<1>1. CASE UNCHANGED vars
  BY <1>1, PagesUnchanged DEF vars, pageVars
<1>2. CASE Finished
  BY <1>2, PagesUnchanged DEF Finished, vars, pageVars
<1>3. ASSUME NEW t \in Thread, NEW c \in Class, NEW a \in Align, Alloc(t, c, a)
      PROVE  PagesInv'
  <2>1. CASE AllocFromList(t, c, a)
    BY <2>1, PagesUnchanged DEF AllocFromList, slabVars, pageVars
  <2>2. CASE AllocFromBump(t, c, a)
    BY <2>2, PagesUnchanged DEF AllocFromBump, slabVars, pageVars
  <2>3. CASE AllocFromPartial(t, c, a)
    BY <2>3, PagesAllocFromPartial
  <2>4. CASE AllocFromEmpty(t, c, a)
    BY <2>4, PagesAllocFromEmpty
  <2>5. CASE AllocFromFresh(t, c, a)
    BY <2>5, PagesAllocFromFresh
  <2> QED BY <2>1, <2>2, <2>3, <2>4, <2>5, <1>3 DEF Alloc
<1>4. ASSUME NEW t \in Thread, NEW o \in live, Dealloc(t, o)
      PROVE  PagesInv'
  BY <1>4, PagesUnchanged DEF Dealloc, slabVars, pageVars
<1>5. ASSUME NEW t \in Thread, NEW b \in Block, AllocLarge(t, b) \/ DeallocLarge(t, b)
      PROVE  PagesInv'
  BY <1>5, PagesLarge
<1>6. ASSUME NEW t \in Thread, Exit(t) \/ Die(t)
      PROVE  PagesInv'
  BY <1>6, PagesUnchanged DEF Exit, Die, slabVars, pageVars
<1>7. ASSUME NEW t \in Thread, NEW c \in Class,
             \/ CleanUp(t, c)
             \/ \E n \in 1 .. Len(chain[BatchHead(t)]) : DeallocateRun(t, c, n)
             \/ DestroyPage(t, c)
             \/ EndBatch(t, c)
      PROVE  PagesInv'
  BY <1>7, PagesCleanUp, PagesDeallocateRun, PagesHandleRdTreeRemove,
     PagesInsertUninit, PagesEndBatch DEF DestroyPage
<1> QED BY <1>1, <1>2, <1>3, <1>4, <1>5, <1>6, <1>7 DEF Next, Flush

\* In every reachable state the pages are in order.
THEOREM PagesInvariant == Spec => []PagesInv
<1>1. Init => PagesInv
  BY PagesInit
<1>2. PagesInv /\ [Next]_vars => PagesInv'
  BY PagesNext
<1> QED BY <1>1, <1>2, PTL DEF Spec

\* Each descriptor is on one ring of one class or in the hands of one flush,
\* whatever the threads do (the circular lists of efficient_sc.rs).
THEOREM PagesArePartitioned == Spec => []RingsPartitionPages
<1>1. ASSUME PagesInv PROVE RingsPartitionPages
  <2>1. /\ ring \in [Ring -> Seq(Page)] /\ DOMAIN ring = Ring /\ NoSharing(ring)
        /\ victim \in [Thread -> Page \cup {0}] /\ pgBump \in Nat
    BY <1>1, ConstantAssumption DEF PagesInv, PagesTypeOK, RingsInv
  <2>2. ASSUME NEW r \in Ring, NEW p \in Range(ring[r]) PROVE p \in 1 .. pgBump
    <3>1. ring[r] \in Seq(Page)  BY <2>1
    <3>2. p \in Page  BY <3>1, RangeType
    <3> QED BY <3>2, <2>1, <1>1, ConstantAssumption DEF PagesInv, RingsInv, Page
  <2>3. ASSUME NEW t \in Thread, victim[t] # 0 PROVE victim[t] \in 1 .. pgBump
    <3>1. victim[t] \in Page  BY <2>1, <2>3
    <3> QED BY <3>1, <2>1, <2>3, <1>1, ConstantAssumption
          DEF PagesInv, VictimsInv, Page
  <2>4. ASSUME NEW p \in 1 .. pgBump
        PROVE  p \in AllLinked(ring) \cup ({victim[t] : t \in Thread} \ {0})
    <3>1. \/ \E r \in Ring : p \in Range(ring[r])
          \/ \E t \in Thread : victim[t] = p
      BY <1>1 DEF PagesInv, RingsInv
    <3>2. p # 0
      OBVIOUS
    <3> QED BY <3>1, <3>2, <2>1 DEF AllLinked
  <2>5. AllLinked(ring) \cup ({victim[t] : t \in Thread} \ {0}) = 1 .. pgBump
    BY <2>1, <2>2, <2>3, <2>4 DEF AllLinked
  <2>6. ASSUME NEW t \in Thread, victim[t] # 0
        PROVE  /\ victim[t] \notin AllLinked(ring)
               /\ \E c \in Class : lock[c] = t
               /\ \A u \in Thread : victim[u] = victim[t] => u = t
    <3>1. NotElsewhere(ring, victim[t], {})
      BY <2>6, <1>1 DEF PagesInv, VictimsInv
    <3>2. victim[t] \notin AllLinked(ring)
      BY <3>1, <2>1 DEF NotElsewhere, AllLinked
    <3> QED BY <3>2, <2>6, <1>1 DEF PagesInv, VictimsInv
  <2> QED BY <2>1, <2>5, <2>6 DEF RingsPartitionPages
<1> QED BY <1>1, PagesInvariant, PTL

\* A block has one owner, and the radix tree leads from it to that owner until
\* just before the block is returned (handle_rd_tree_insert and _remove).
THEOREM RadixIsRight == Spec => []RadixMatchesPages
<1>1. ASSUME PagesInv PROVE RadixMatchesPages
  <2>1. /\ data \in [Page -> Block \cup {Null}] /\ rd \in [Block -> Page \cup {0}]
        /\ freeBlocks \subseteq Block /\ large \subseteq Block
    BY <1>1 DEF PagesInv, PagesTypeOK
  <2>2. ASSUME NEW b \in freeBlocks \cup large PROVE rd[b] = 0
    BY <2>1, <1>1, ConstantAssumption DEF PagesInv, BlocksInv
  <2>3. ASSUME NEW p \in Page, data[p] # Null
        PROVE  \/ rd[data[p]] = p
               \/ rd[data[p]] = 0 /\ \E t \in Thread : victim[t] = p
    <3>1. p \in 1 .. pgBump
      BY <2>3, <1>1, ConstantAssumption DEF PagesInv, PagesTypeOK, BlocksInv, Page
    <3>2. CASE \E r \in Ring : p \in Range(ring[r])
      BY <3>2, <2>3, <1>1 DEF PagesInv, BlocksInv
    <3>3. CASE \E t \in Thread : victim[t] = p
      BY <3>1, <3>3, <1>1 DEF PagesInv, VictimsInv
    <3> QED BY <3>1, <3>2, <3>3, <1>1 DEF PagesInv, RingsInv
  <2> QED BY <2>2, <2>3, <1>1 DEF RadixMatchesPages, PagesInv, BlocksInv
<1> QED BY <1>1, PagesInvariant, PTL

\* empty_count counts the empty ring and never passes the limit by more than
\* one (try_insert_ety, insert_ety, remove_empty).
THEOREM EmptyPagesStayBounded == Spec => []EmptyPagesBounded
<1>1. PagesInv => EmptyPagesBounded
  BY DEF PagesInv
<1> QED BY <1>1, PagesInvariant, PTL

-----------------------------------------------------------------------------
(***************************************************************************)
(* Type correctness of SlabCache and the counters: ObjectPage.counter      *)
(* against the free list of the page and the ring it is on, list.length    *)
(* against the list, and the bump run against the end of its block.  None  *)
(* is inductive alone: a refill from a partial page sets list.length from  *)
(* the page's counter and takes the head of its free list, so the types    *)
(* need the accounts, and the accounts need PagesInv to know that a page   *)
(* is on one ring only.                                                    *)
(***************************************************************************)

\* A bump run stays inside one block of the class.
BumpInv ==
  \A u \in Thread \X Class : bump[u].count > 0 =>
    bump[u].blk \in Block /\ bump[u].next + bump[u].count <= PgCount[u[2]]

CountsInv == TypeOK /\ PageAccounting /\ BumpInv /\ LengthIsExact

\* The account of page p on ring r.
PageFine(r, p) ==
  LET free == Len(chain[PageHead(p)]) IN
  /\ r[2] = "full"    => counter[p] = PgCount[r[1]] /\ free = 0
  /\ r[2] = "partial" => /\ counter[p] > 0 /\ free > 0
                         /\ counter[p] + free = PgCount[r[1]]
  /\ r[2] = "empty"   => counter[p] = 0 /\ free = PgCount[r[1]]
  /\ r[2] = "uninit"  => counter[p] = 0 /\ free = 0 /\ data[p] = Null

\* The heads are different heads.
LEMMA Heads ==
  ASSUME NEW t \in Thread, NEW c \in Class
  PROVE  /\ CacheHead(t, c) \in ListHead /\ BatchHead(t) \in ListHead
         /\ CacheHead(t, c) # BatchHead(t)
         /\ \A u \in Thread, d \in Class :
              /\ CacheHead(u, d) = CacheHead(t, c) => u = t /\ d = c
              /\ CacheHead(u, d) # BatchHead(t)
  BY DEF ListHead, CacheHead, BatchHead

\* The heads of the free lists of pages are different from all others.
LEMMA PageHeads ==
  ASSUME NEW p \in Page
  PROVE  /\ PageHead(p) \in ListHead
         /\ \A t \in Thread, c \in Class : CacheHead(t, c) # PageHead(p)
         /\ \A t \in Thread : BatchHead(t) # PageHead(p)
         /\ \A q \in Page : PageHead(q) = PageHead(p) => q = p
  BY DEF ListHead, CacheHead, PageHead, BatchHead

\* What is in Object.
LEMMA ObjectFields ==
  /\ \A c \in Class, b \in Block : \A i \in Slots(c) : <<c, b, i>> \in Object
  /\ \A o \in Object : o[1] \in Class /\ o[2] \in Block
<1>1. ASSUME NEW c \in Class, NEW b \in Block, NEW i \in Slots(c)
      PROVE  <<c, b, i>> \in Object
  <2>1. <<c, b, i>> \in Objects(c, b)
    BY DEF Objects
  <2> QED BY <2>1 DEF Object
<1>2. ASSUME NEW o \in Object PROVE o[1] \in Class /\ o[2] \in Block
  <2>1. PICK c \in Class, b \in Block : o \in Objects(c, b)
    BY DEF Object
  <2> QED BY <2>1 DEF Objects
<1> QED BY <1>1, <1>2

\* PageAccounting, page by page.
LEMMA Accounts ==
  PageAccounting <=> \A r \in Ring : \A p \in Range(ring[r]) : PageFine(r, p)
  BY DEF PageAccounting, PageFine, Ring

\* The classes have slots, and their counts are numbers.
LEMMA Counts ==
  ASSUME NEW c \in Class
  PROVE  PgCount[c] \in Nat /\ PgCount[c] > 0 /\ Slots(c) = 0 .. PgCount[c] - 1
  BY ConstantAssumption DEF Slots

\* The objects of a bump run are objects of its block.
LEMMA BumpObjectType ==
  ASSUME CountsInv, NEW t \in Thread, NEW c \in Class,
         NEW k \in 0 .. bump[<<t, c>>].count - 1
  PROVE  BumpObject(t, c, k) \in Object
<1> DEFINE u == <<t, c>>
<1>1. /\ u \in Thread \X Class /\ u[2] = c
      /\ bump[u].count \in Nat /\ bump[u].next \in Nat /\ bump[u].count > 0
  BY DEF CountsInv, TypeOK
<1>2. bump[u].blk \in Block /\ bump[u].next + bump[u].count <= PgCount[c]
  BY <1>1 DEF CountsInv, BumpInv
<1>3. bump[u].next + k \in Slots(c)
  BY <1>1, <1>2, Counts
<1> QED BY <1>2, <1>3, ObjectFields DEF BumpObject

\* Freeing the first k objects of a bump run lengthens the list by k.
LEMMA PushBumpType ==
  ASSUME CountsInv, NEW t \in Thread, NEW c \in Class,
         NEW k \in 0 .. bump[<<t, c>>].count
  PROVE  /\ PushBump(t, c, k) \in Seq(Object)
         /\ Len(PushBump(t, c, k)) = k + length[<<t, c>>]
<1> DEFINE s == [j \in 1 .. k |-> BumpObject(t, c, k - j)]
<1>1. bump[<<t, c>>].count \in Nat
  BY DEF CountsInv, TypeOK
<1>2. \A j \in 1 .. k : BumpObject(t, c, k - j) \in Object
  BY <1>1, BumpObjectType
<1>3. s \in Seq(Object) /\ Len(s) = k
  BY <1>1, <1>2
<1>4. CacheList(t, c) \in Seq(Object) /\ length[<<t, c>>] = Len(CacheList(t, c))
  BY Heads DEF CountsInv, TypeOK, CacheList, LengthIsExact
<1> HIDE DEF s
<1>5. s \o CacheList(t, c) \in Seq(Object)
      /\ Len(s \o CacheList(t, c)) = Len(s) + Len(CacheList(t, c))
  BY <1>3, <1>4
<1> QED BY <1>3, <1>4, <1>5 DEF PushBump, s

CacheTypeOK ==
  /\ live \subseteq Object
  /\ chain \in [ListHead -> Seq(Object)]
  /\ length \in [Thread \X Class -> Nat]
  /\ bump \in [Thread \X Class ->
                 [blk : Block \cup {Null}, next : Nat, count : Nat]]
  /\ phase \in [Thread -> {"run", "exit", "dead"}]
  /\ cleanIdx \in [Thread -> 1 .. NClass + 1]
  /\ counter \in [Page -> Nat]

\* The types of the pages come with PagesInv.
LEMMA TypesSplit == PagesInv => (TypeOK <=> CacheTypeOK)
  BY DEF PagesInv, PagesTypeOK, CacheTypeOK, TypeOK, Ring

\* The free list and the fields of every page but p are untouched.
OtherPagesKept(p) ==
  \A q \in Page : q # p =>
    /\ chain'[PageHead(q)] = chain[PageHead(q)]
    /\ counter'[q] = counter[q] /\ data'[q] = data[q]

\* Every page but p stays where it is; p is where its account says.
PageLands(p) ==
  \A r \in Ring : \A q \in Range(ring'[r]) :
    IF q = p THEN PageFine(r, p)' ELSE q \in Range(ring[r])

\* A step on one page keeps the accounts of the others.
LEMMA AccountsKept ==
  ASSUME PageAccounting, PagesInv', NEW p, OtherPagesKept(p), PageLands(p)
  PROVE  PageAccounting'
<1> SUFFICES ASSUME NEW r \in Ring, NEW q \in Range(ring'[r]) PROVE PageFine(r, q)'
  <2>1. \A r \in Ring : \A q \in Range(ring'[r]) : PageFine(r, q)'
    OBVIOUS
  <2> QED BY <2>1 DEF PageAccounting, PageFine, Ring
<1>1. q \in Page
  <2>1. ring'[r] \in Seq(Page)
    BY DEF PagesInv, PagesTypeOK
  <2> QED BY <2>1, RangeType
<1>2. CASE q = p
  BY <1>2 DEF PageLands
<1>3. CASE q # p
  <2>1. q \in Range(ring[r])
    BY <1>3 DEF PageLands
  <2>2. PageFine(r, q)
    BY <2>1, Accounts
  <2> QED BY <2>2, <1>1, <1>3 DEF OtherPagesKept, PageFine
<1> QED BY <1>2, <1>3

\* A step that links only objects of caches and batches keeps all accounts.
LEMMA AccountsUntouched ==
  ASSUME PageAccounting, PagesInv', OtherPagesKept(0), ring' = ring
  PROVE  PageAccounting'
<1>1. PageLands(0)
  <2> SUFFICES ASSUME NEW r \in Ring, NEW q \in Range(ring'[r]), q = 0
               PROVE  FALSE
    BY DEF PageLands
  <2>1. ring'[r] \in Seq(Page)
    BY DEF PagesInv, PagesTypeOK
  <2>2. q \in Page
    BY <2>1, RangeType
  <2> QED BY <2>2, ConstantAssumption DEF Page
<1> QED BY <1>1, AccountsKept

\* In the initial state everything is zero.
LEMMA CountsInit == Init => CountsInv
<1> SUFFICES ASSUME Init PROVE CountsInv
  OBVIOUS
<1>1. /\ chain = [h \in ListHead |-> <<>>] /\ live = {}
      /\ length = [u \in Thread \X Class |-> 0]
      /\ bump = [u \in Thread \X Class |-> NoBump]
      /\ ring = [r \in Ring |-> <<>>]
      /\ phase = [t \in Thread |-> "run"] /\ cleanIdx = [t \in Thread |-> 1]
      /\ counter = [p \in Page |-> 0]
  BY DEF Init, Ring
<1>2. TypeOK
  <2>1. CacheTypeOK
    BY <1>1, ConstantAssumption DEF CacheTypeOK, NoBump
  <2> QED BY <2>1, PagesInit, TypesSplit
<1>3. PageAccounting
  <2>1. \A r \in Ring : Range(ring[r]) = {}
    BY <1>1 DEF Range
  <2> QED BY <2>1, Accounts
<1>4. BumpInv
  BY <1>1 DEF BumpInv, NoBump
<1>5. LengthIsExact
  <2> SUFFICES ASSUME NEW t \in Thread, NEW c \in Class
               PROVE  length[<<t, c>>] = Len(CacheList(t, c))
    BY DEF LengthIsExact
  <2>1. CacheList(t, c) = <<>>
    BY <1>1, Heads DEF CacheList
  <2> QED BY <1>1, <2>1
<1> QED BY <1>2, <1>3, <1>4, <1>5 DEF CountsInv

Run == [blk : Block \cup {Null}, next : Nat, count : Nat]

\* The run r stays inside a block of class c.
RunFits(r, c) == r.count > 0 => r.blk \in Block /\ r.next + r.count <= PgCount[c]

\* BumpInv, run by run.
LEMMA Runs == BumpInv <=> \A t \in Thread, c \in Class : RunFits(bump[<<t, c>>], c)
  BY DEF BumpInv, RunFits

\* What BumpRun makes of a run.
LEMMA BumpRunType ==
  ASSUME NEW b \in Block \cup {Null}, NEW n \in Nat, NEW k \in Nat, NEW c \in Class,
         k > 0 => b \in Block /\ n + k <= PgCount[c]
  PROVE  BumpRun(b, n, k) \in Run /\ RunFits(BumpRun(b, n, k), c)
  BY DEF BumpRun, NoBump, Run, RunFits

\* A step in one cache unit, with the list, the length and the run it leaves.
LEMMA UnitStep ==
  ASSUME CountsInv, NEW t \in Thread, NEW c \in Class,
         NEW s \in Seq(Object), NEW r \in Run, RunFits(r, c),
         chain' \in [ListHead -> Seq(Object)], CacheList(t, c)' = s,
         SameElsewhere(chain, chain', {CacheHead(t, c)}
                         \cup {BatchHead(u) : u \in Thread} \cup {PageHead(p) : p \in Page}),
         length' = [length EXCEPT ![<<t, c>>] = Len(s)],
         bump' = [bump EXCEPT ![<<t, c>>] = r]
  PROVE  /\ length' \in [Thread \X Class -> Nat]
         /\ bump' \in [Thread \X Class -> Run]
         /\ BumpInv' /\ LengthIsExact'
<1>1. /\ length \in [Thread \X Class -> Nat] /\ bump \in [Thread \X Class -> Run]
      /\ DOMAIN chain = ListHead
  BY DEF CountsInv, TypeOK, Run
<1>2. length' \in [Thread \X Class -> Nat] /\ bump' \in [Thread \X Class -> Run]
  BY <1>1
<1>3. ASSUME NEW u \in Thread, NEW d \in Class
      PROVE  RunFits(bump'[<<u, d>>], d)
  <2>1. RunFits(bump[<<u, d>>], d)
    BY Runs DEF CountsInv
  <2>2. CASE u = t /\ d = c
    BY <1>1, <2>2
  <2>3. CASE ~ (u = t /\ d = c)
    <3>1. bump'[<<u, d>>] = bump[<<u, d>>]
      BY <1>1, <2>3
    <3> QED BY <3>1, <2>1
  <2> QED BY <2>2, <2>3
<1>4. BumpInv'
  BY <1>3 DEF BumpInv, RunFits
<1>5. ASSUME NEW u \in Thread, NEW d \in Class
      PROVE  length'[<<u, d>>] = Len(chain'[CacheHead(u, d)])
  <2>1. length[<<u, d>>] = Len(chain[CacheHead(u, d)])
    BY DEF CountsInv, LengthIsExact, CacheList
  <2>2. CASE u = t /\ d = c
    BY <1>1, <2>2 DEF CacheList
  <2>3. CASE ~ (u = t /\ d = c)
    <3>1. length'[<<u, d>>] = length[<<u, d>>]
      BY <1>1, <2>3
    <3>2. CacheHead(u, d) \notin {CacheHead(t, c)} \cup {BatchHead(v) : v \in Thread}
                                   \cup {PageHead(p) : p \in Page}
      BY <2>3, Heads, PageHeads
    <3>3. chain'[CacheHead(u, d)] = chain[CacheHead(u, d)]
      BY <3>2, <1>1, Heads DEF SameElsewhere
    <3> QED BY <3>1, <3>3, <2>1
  <2> QED BY <2>2, <2>3
<1>6. LengthIsExact'
  BY <1>5 DEF LengthIsExact, CacheList
<1> QED BY <1>2, <1>4, <1>6

\* A step of the program in one cache unit, which sees no page.
LEMMA CacheStep ==
  ASSUME CountsInv, PagesInv', NEW t \in Thread, NEW c \in Class,
         NEW s \in Seq(Object), NEW r \in Run, RunFits(r, c),
         chain' = [chain EXCEPT ![CacheHead(t, c)] = s],
         length' = [length EXCEPT ![<<t, c>>] = Len(s)],
         bump' = [bump EXCEPT ![<<t, c>>] = r],
         live' \subseteq Object, UNCHANGED <<phase, cleanIdx, counter, ring, data>>
  PROVE  CountsInv'
<1>1. chain \in [ListHead -> Seq(Object)] /\ CacheHead(t, c) \in ListHead
  BY Heads DEF CountsInv, TypeOK
<1>2. /\ chain' \in [ListHead -> Seq(Object)] /\ CacheList(t, c)' = s
      /\ SameElsewhere(chain, chain', {CacheHead(t, c)}
                         \cup {BatchHead(u) : u \in Thread} \cup {PageHead(p) : p \in Page})
  BY <1>1 DEF SameElsewhere, CacheList
<1>3. /\ length' \in [Thread \X Class -> Nat]
      /\ bump' \in [Thread \X Class -> Run]
      /\ BumpInv' /\ LengthIsExact'
  BY <1>2, UnitStep
<1>4. OtherPagesKept(0)
  BY <1>1, PageHeads DEF OtherPagesKept
<1>5. PageAccounting'
  BY <1>4, AccountsUntouched DEF CountsInv
<1>6. CacheTypeOK'
  BY <1>2, <1>3 DEF CountsInv, TypeOK, CacheTypeOK, Run
<1>7. TypeOK'
  BY <1>6 DEF PagesInv, PagesTypeOK, CacheTypeOK, TypeOK, Ring
<1> QED BY <1>3, <1>5, <1>7 DEF CountsInv

\* Removing one element, or cutting a list, whatever its elements.
LEMMA RemoveAtType ==
  ASSUME NEW S, NEW s \in Seq(S), NEW i \in 1 .. Len(s)
  PROVE  RemoveAt(s, i) \in Seq(S) /\ Len(RemoveAt(s, i)) = Len(s) - 1
<1>1. SubSeq(s, 1, i - 1) \in Seq(S) /\ Len(SubSeq(s, 1, i - 1)) = i - 1
  OBVIOUS
<1>2. SubSeq(s, i + 1, Len(s)) \in Seq(S) /\ Len(SubSeq(s, i + 1, Len(s))) = Len(s) - i
  OBVIOUS
<1>3. PICK l \in Seq(S), r \in Seq(S) :
        l = SubSeq(s, 1, i - 1) /\ r = SubSeq(s, i + 1, Len(s))
  BY <1>1, <1>2
<1>4. l \o r \in Seq(S) /\ Len(l \o r) = Len(l) + Len(r)
  OBVIOUS
<1>5. RemoveAt(s, i) = l \o r
  BY <1>3 DEF RemoveAt
<1>6. Len(l) = i - 1 /\ Len(r) = Len(s) - i /\ Len(s) \in Nat /\ i \in Nat
  BY <1>1, <1>2, <1>3
<1> QED BY <1>4, <1>5, <1>6

\* What the invariant says of one cache unit.
LEMMA UnitTypes ==
  ASSUME CountsInv, NEW t \in Thread, NEW c \in Class
  PROVE  /\ CacheList(t, c) \in Seq(Object)
         /\ length[<<t, c>>] = Len(CacheList(t, c)) /\ length[<<t, c>>] \in Nat
         /\ bump[<<t, c>>] \in Run /\ RunFits(bump[<<t, c>>], c)
         /\ bump[<<t, c>>].count \in Nat /\ bump[<<t, c>>].next \in Nat
         /\ bump[<<t, c>>].blk \in Block \cup {Null}
         /\ length \in [Thread \X Class -> Nat] /\ bump \in [Thread \X Class -> Run]
         /\ chain \in [ListHead -> Seq(Object)] /\ live \subseteq Object
<1>1. /\ length \in [Thread \X Class -> Nat] /\ bump \in [Thread \X Class -> Run]
      /\ chain \in [ListHead -> Seq(Object)] /\ live \subseteq Object
  BY DEF CountsInv, TypeOK, Run
<1>2. CacheList(t, c) \in Seq(Object) /\ length[<<t, c>>] = Len(CacheList(t, c))
  BY <1>1, Heads DEF CountsInv, LengthIsExact, CacheList
<1>3. bump[<<t, c>>] \in Run /\ RunFits(bump[<<t, c>>], c)
  BY <1>1, Runs DEF CountsInv
<1> QED BY <1>1, <1>2, <1>3 DEF Run

\* Case 1 of ThreadCacheUnit::allocate.
LEMMA CountsAllocFromList ==
  ASSUME CountsInv, PagesInv', NEW t \in Thread, NEW c \in Class, NEW a \in Align,
         AllocFromList(t, c, a)
  PROVE  CountsInv'
<1> DEFINE l == CacheList(t, c)
<1>1. PICK i \in DOMAIN l :
        /\ chain' = [chain EXCEPT ![CacheHead(t, c)] = RemoveAt(@, i)]
        /\ live' = live \cup {l[i]}
  BY DEF AllocFromList
<1>2. /\ length' = [length EXCEPT ![<<t, c>>] = @ - 1]
      /\ UNCHANGED <<bump, phase, cleanIdx, counter, ring, data>>
  BY DEF AllocFromList, slabVars
<1>3. i \in 1 .. Len(l) /\ l[i] \in Object
  <2>1. l \in Seq(Object)
    BY UnitTypes
  <2> QED BY <2>1
<1>4. RemoveAt(l, i) \in Seq(Object) /\ Len(RemoveAt(l, i)) = Len(l) - 1
  BY <1>3, UnitTypes, RemoveAtType
<1>5. chain' = [chain EXCEPT ![CacheHead(t, c)] = RemoveAt(l, i)]
  BY <1>1 DEF CacheList
<1>6. length' = [length EXCEPT ![<<t, c>>] = Len(RemoveAt(l, i))]
  BY <1>2, <1>4, UnitTypes
<1>7. bump' = [bump EXCEPT ![<<t, c>>] = bump[<<t, c>>]] /\ live' \subseteq Object
  BY <1>1, <1>2, <1>3, UnitTypes
<1> HIDE DEF l
<1> QED BY <1>2, <1>4, <1>5, <1>6, <1>7, UnitTypes, CacheStep

\* Case 2: the objects passed over are freed into the list.
LEMMA CountsAllocFromBump ==
  ASSUME CountsInv, PagesInv', NEW t \in Thread, NEW c \in Class, NEW a \in Align,
         AllocFromBump(t, c, a)
  PROVE  CountsInv'
<1> DEFINE u == <<t, c>>
<1>1. PICK k \in 0 .. bump[u].count - 1 :
        /\ live' = live \cup {BumpObject(t, c, k)}
        /\ chain' = [chain EXCEPT ![CacheHead(t, c)] = PushBump(t, c, k)]
        /\ length' = [length EXCEPT ![u] = @ + k]
        /\ bump' = [bump EXCEPT ![u] = BumpRun(@.blk, @.next + k + 1, @.count - k - 1)]
  BY DEF AllocFromBump
<1>2. UNCHANGED <<phase, cleanIdx, counter, ring, data>>
  BY DEF AllocFromBump, slabVars
<1>3. k \in Nat /\ k \in 0 .. bump[u].count
  BY UnitTypes
<1>4. PushBump(t, c, k) \in Seq(Object) /\ Len(PushBump(t, c, k)) = k + length[u]
  BY <1>3, PushBumpType
<1>5. PICK r : r = BumpRun(bump[u].blk, bump[u].next + k + 1, bump[u].count - k - 1)
  OBVIOUS
<1>6. r \in Run /\ RunFits(r, c)
  <2>1. /\ bump[u].next + k + 1 \in Nat /\ bump[u].count - k - 1 \in Nat
        /\ bump[u].blk \in Block /\ bump[u].next + bump[u].count <= PgCount[c]
        /\ bump[u].next \in Nat /\ bump[u].count \in Nat
    BY <1>3, UnitTypes DEF RunFits
  <2>2. bump[u].next + k + 1 + (bump[u].count - k - 1) <= PgCount[c]
    <3>1. PgCount[c] \in Nat
      BY Counts
    <3> QED BY <3>1, <2>1, <1>3
  <2> QED BY <2>1, <2>2, <1>5, BumpRunType
<1>7. length' = [length EXCEPT ![u] = Len(PushBump(t, c, k))]
  <2>1. length[u] + k = Len(PushBump(t, c, k))
    BY <1>3, <1>4, UnitTypes
  <2> QED BY <2>1, <1>1
<1>8. bump' = [bump EXCEPT ![u] = r]
  BY <1>1, <1>5
<1>9. live' \subseteq Object
  BY <1>1, UnitTypes, BumpObjectType
<1> QED BY <1>1, <1>2, <1>4, <1>6, <1>7, <1>8, <1>9, CacheStep

\* A freed object joins the list of the freeing thread.
LEMMA CountsDealloc ==
  ASSUME CountsInv, PagesInv', NEW t \in Thread, NEW o \in live, Dealloc(t, o)
  PROVE  CountsInv'
<1>1. /\ live' = live \ {o}
      /\ chain' = [chain EXCEPT ![CacheHead(t, o[1])] = <<o>> \o @]
      /\ length' = [length EXCEPT ![<<t, o[1]>>] = @ + 1]
      /\ UNCHANGED <<bump, phase, cleanIdx, counter, ring, data>>
  BY DEF Dealloc, slabVars
<1>2. o \in Object
  BY DEF CountsInv, TypeOK
<1>3. PICK c \in Class : c = o[1]
  BY <1>2, ObjectFields
<1>4. PICK s : s = <<o>> \o CacheList(t, c)
  OBVIOUS
<1>5. s \in Seq(Object) /\ Len(s) = 1 + Len(CacheList(t, c))
  <2>1. CacheList(t, c) \in Seq(Object)
    BY UnitTypes
  <2> QED BY <2>1, <1>2, <1>4
<1>6. chain' = [chain EXCEPT ![CacheHead(t, c)] = s]
  BY <1>1, <1>3, <1>4 DEF CacheList
<1>7. length' = [length EXCEPT ![<<t, c>>] = Len(s)]
  <2>1. length[<<t, c>>] + 1 = Len(s)
    BY <1>5, UnitTypes
  <2> QED BY <2>1, <1>1, <1>3
<1>8. bump' = [bump EXCEPT ![<<t, c>>] = bump[<<t, c>>]] /\ live' \subseteq Object
  BY <1>1, UnitTypes
<1>9. bump[<<t, c>>] \in Run /\ RunFits(bump[<<t, c>>], c)
  BY UnitTypes
<1> QED BY <1>9, <1>1, <1>5, <1>6, <1>7, <1>8, CacheStep

\* allocate_all hands out a page of `used' allocated objects, the rest free.
LEMMA RefillCounts ==
  ASSUME CountsInv, NEW t \in Thread, NEW c \in Class, NEW p \in Page,
         NEW b \in Block, NEW used \in Nat, AllocateAll(t, c, p, b, used),
         used # 0 => /\ Len(chain[PageHead(p)]) > 0
                     /\ used + Len(chain[PageHead(p)]) = PgCount[c]
  PROVE  /\ live' \subseteq Object
         /\ chain' \in [ListHead -> Seq(Object)]
         /\ length' \in [Thread \X Class -> Nat]
         /\ bump' \in [Thread \X Class -> Run]
         /\ counter' \in [Page -> Nat]
         /\ BumpInv' /\ LengthIsExact'
         /\ counter'[p] = PgCount[c] /\ Len(chain'[PageHead(p)]) = 0
         /\ \A q \in Page : q # p => /\ chain'[PageHead(q)] = chain[PageHead(q)]
                                     /\ counter'[q] = counter[q]
<1> DEFINE u == <<t, c>>
           n == bump[u].count
           h == CacheHead(t, c)
           g == PageHead(p)
<1>1. /\ chain \in [ListHead -> Seq(Object)] /\ counter \in [Page -> Nat]
      /\ h \in ListHead /\ g \in ListHead /\ h # g /\ chain[g] \in Seq(Object)
      /\ PgCount[c] \in Nat /\ PgCount[c] > 0 /\ n \in Nat
  BY Heads, PageHeads, Counts, UnitTypes DEF CountsInv, TypeOK
<1>2. counter' = [counter EXCEPT ![p] = PgCount[c]]
  BY DEF AllocateAll
<1>3. PICK s \in Seq(Object), r \in Run :
        /\ RunFits(r, c)
        /\ chain' = [chain EXCEPT ![h] = s, ![g] = <<>>]
        /\ length' = [length EXCEPT ![u] = Len(s)]
        /\ bump' = [bump EXCEPT ![u] = r]
        /\ live' \subseteq Object
  <2>1. CASE used = 0
    <3>1. /\ live' = live \cup {<<c, b, 0>>}
          /\ bump' = [bump EXCEPT ![u] = BumpRun(b, 1, PgCount[c] - 1)]
          /\ chain' = [chain EXCEPT ![h] = PushBump(t, c, n), ![g] = <<>>]
          /\ length' = [length EXCEPT ![u] = @ + n]
      BY <2>1 DEF AllocateAll
    <3>2. PushBump(t, c, n) \in Seq(Object) /\ Len(PushBump(t, c, n)) = n + length[u]
      BY <1>1, PushBumpType
    <3>3. length' = [length EXCEPT ![u] = Len(PushBump(t, c, n))]
      <4>1. length[u] + n = Len(PushBump(t, c, n))
        BY <3>2, <1>1, UnitTypes
      <4> QED BY <4>1, <3>1
    <3>4. BumpRun(b, 1, PgCount[c] - 1) \in Run /\ RunFits(BumpRun(b, 1, PgCount[c] - 1), c)
      <4>1. PgCount[c] - 1 \in Nat /\ 1 + (PgCount[c] - 1) <= PgCount[c] /\ 1 \in Nat
        BY <1>1
      <4> QED BY <4>1, BumpRunType
    <3>5. live' \subseteq Object
      <4>1. 0 \in Slots(c)
        BY <1>1, Counts
      <4> QED BY <4>1, <3>1, ObjectFields, UnitTypes
    <3> QED BY <3>1, <3>2, <3>3, <3>4, <3>5
  <2>2. CASE used # 0
    <3>1. /\ live' = live \cup {Head(chain[g])}
          /\ bump' = [bump EXCEPT ![u] = NoBump]
          /\ chain' = [chain EXCEPT ![h] = Tail(chain[g]), ![g] = <<>>]
          /\ length' = [length EXCEPT ![u] = PgCount[c] - used - 1]
      BY <2>2 DEF AllocateAll
    <3>2. /\ Tail(chain[g]) \in Seq(Object) /\ Len(Tail(chain[g])) = Len(chain[g]) - 1
          /\ Head(chain[g]) \in Object
      <4>1. Len(chain[g]) > 0 /\ chain[g] # <<>>
        BY <2>2, <1>1
      <4> QED BY <4>1, <1>1
    <3>3. PgCount[c] - used - 1 = Len(Tail(chain[g]))
      <4>1. Len(chain[g]) \in Nat /\ used + Len(chain[g]) = PgCount[c]
        BY <2>2, <1>1
      <4> QED BY <4>1, <3>2
    <3>4. NoBump \in Run /\ RunFits(NoBump, c)
      BY DEF NoBump, Run, RunFits
    <3>5. live' \subseteq Object
      BY <3>1, <3>2, UnitTypes
    <3> QED BY <3>1, <3>2, <3>3, <3>4, <3>5
  <2> QED BY <2>1, <2>2
<1>4. /\ chain' \in [ListHead -> Seq(Object)] /\ chain'[h] = s /\ chain'[g] = <<>>
      /\ \A k \in ListHead \ {h, g} : chain'[k] = chain[k]
  <2>1. <<>> \in Seq(Object)
    OBVIOUS
  <2> QED BY <2>1, <1>1, <1>3
<1>5. SameElsewhere(chain, chain', {CacheHead(t, c)}
                      \cup {BatchHead(v) : v \in Thread} \cup {PageHead(q) : q \in Page})
  BY <1>1, <1>4 DEF SameElsewhere
<1>6. CacheList(t, c)' = s
  BY <1>4 DEF CacheList
<1>7. /\ length' \in [Thread \X Class -> Nat] /\ bump' \in [Thread \X Class -> Run]
      /\ BumpInv' /\ LengthIsExact'
  BY <1>3, <1>4, <1>5, <1>6, UnitStep
<1>8. ASSUME NEW q \in Page, q # p
      PROVE  chain'[PageHead(q)] = chain[PageHead(q)] /\ counter'[q] = counter[q]
  <2>1. PageHead(q) \in ListHead \ {h, g}
    BY <1>8, PageHeads
  <2> QED BY <2>1, <1>1, <1>2, <1>4, <1>8
<1>9. counter' \in [Page -> Nat] /\ counter'[p] = PgCount[c] /\ Len(chain'[g]) = 0
  BY <1>1, <1>2, <1>4
<1> QED BY <1>3, <1>4, <1>7, <1>8, <1>9

\* Every page but p stays where it is.
StaysBut(p) == \A r \in Ring : \A q \in Range(ring'[r]) : q # p => q \in Range(ring[r])

\* Append adds one element.
LEMMA RangeAppend ==
  ASSUME NEW S, NEW s \in Seq(S), NEW x \in S
  PROVE  Append(s, x) \in Seq(S) /\ Range(Append(s, x)) = Range(s) \cup {x}
<1>1. Append(s, x) \in Seq(S) /\ Len(Append(s, x)) = Len(s) + 1
  OBVIOUS
<1>2. ASSUME NEW y
      PROVE  (\E i \in 1 .. Len(s) + 1 : Append(s, x)[i] = y) <=>
             (\E i \in 1 .. Len(s) : s[i] = y) \/ y = x
  <2>1. /\ \A i \in 1 .. Len(s) : Append(s, x)[i] = s[i]
        /\ Append(s, x)[Len(s) + 1] = x /\ Len(s) \in Nat
    OBVIOUS
  <2> QED BY <2>1
<1> QED BY <1>1, <1>2, InRange

\* A page goes from ring g, or from nowhere, to ring h.
LEMMA Shift ==
  ASSUME PagesInv, NEW g \in Ring, NEW h \in Ring, g # h, NEW p \in Page,
         NEW s \in Seq(Page), Range(s) \subseteq Range(ring[g]),
         ring' = [ring EXCEPT ![g] = s, ![h] = Append(@, p)]
  PROVE  StaysBut(p) /\ p \in Range(ring'[h])
<1>1. ring \in [Ring -> Seq(Page)] /\ ring[h] \in Seq(Page)
  BY DEF PagesInv, PagesTypeOK
<1>2. /\ ring'[g] = s /\ ring'[h] = Append(ring[h], p)
      /\ \A r \in Ring \ {g, h} : ring'[r] = ring[r]
  BY <1>1
<1>3. Range(Append(ring[h], p)) = Range(ring[h]) \cup {p}
  BY <1>1, RangeAppend
<1> QED BY <1>2, <1>3 DEF StaysBut

\* A page that is on ring h, and whose account fits h, lands.
LEMMA Lands ==
  ASSUME PagesInv', NEW h \in Ring, NEW p, StaysBut(p),
         p \in Range(ring'[h]), PageFine(h, p)'
  PROVE  PageLands(p)
<1> SUFFICES ASSUME NEW r \in Ring, p \in Range(ring'[r]) PROVE r = h
  BY DEF PageLands, StaysBut
<1>1. DOMAIN ring' = Ring /\ NoSharing(ring')
  BY DEF PagesInv, PagesTypeOK, RingsInv
<1> QED BY <1>1 DEF NoSharing, Disjoint

\* A refill that leaves page p, handed out whole, on the full ring of class c.
LEMMA RefillKeepsCounts ==
  ASSUME CountsInv, PagesInv', NEW t \in Thread, NEW c \in Class, NEW p \in Page,
         NEW b \in Block, NEW used \in Nat, AllocateAll(t, c, p, b, used),
         used # 0 => /\ Len(chain[PageHead(p)]) > 0
                     /\ used + Len(chain[PageHead(p)]) = PgCount[c],
         StaysBut(p), p \in Range(ring'[<<c, "full">>]),
         \A q \in Page : q # p => data'[q] = data[q],
         UNCHANGED <<phase, cleanIdx>>
  PROVE  CountsInv'
<1>1. /\ live' \subseteq Object
      /\ chain' \in [ListHead -> Seq(Object)]
      /\ length' \in [Thread \X Class -> Nat]
      /\ bump' \in [Thread \X Class -> Run]
      /\ counter' \in [Page -> Nat]
      /\ BumpInv' /\ LengthIsExact'
      /\ counter'[p] = PgCount[c] /\ Len(chain'[PageHead(p)]) = 0
      /\ \A q \in Page : q # p => /\ chain'[PageHead(q)] = chain[PageHead(q)]
                                  /\ counter'[q] = counter[q]
  BY RefillCounts
<1>2. OtherPagesKept(p)
  BY <1>1 DEF OtherPagesKept
<1>3. PICK h \in Ring : h = <<c, "full">>
  BY RingNames
<1>4. PageFine(h, p)'
  BY <1>1, <1>3 DEF PageFine
<1>5. PageLands(p)
  BY <1>3, <1>4, Lands
<1>6. PageAccounting'
  BY <1>2, <1>5, AccountsKept DEF CountsInv
<1>7. TypeOK'
  <2>1. CacheTypeOK'
    BY <1>1 DEF CountsInv, TypeOK, CacheTypeOK, Run
  <2> QED BY <2>1 DEF PagesInv, PagesTypeOK, CacheTypeOK, TypeOK, Ring
<1> QED BY <1>1, <1>6, <1>7 DEF CountsInv

\* The first page of a ring.
LEMMA HeadPage ==
  ASSUME PagesInv, NEW g \in Ring, ring[g] # <<>>
  PROVE  /\ Head(ring[g]) \in Page /\ Head(ring[g]) \in Range(ring[g])
         /\ Tail(ring[g]) \in Seq(Page) /\ Range(Tail(ring[g])) \subseteq Range(ring[g])
         /\ g[2] # "uninit" => data[Head(ring[g])] \in Block
<1>1. ring[g] \in Seq(Page) /\ IsInjective(ring[g])
  BY DEF PagesInv, PagesTypeOK, RingsInv, NoSharing
<1>2. /\ Head(ring[g]) \in Page /\ Head(ring[g]) \in Range(ring[g])
      /\ Tail(ring[g]) \in Seq(Page) /\ Range(Tail(ring[g])) \subseteq Range(ring[g])
  BY <1>1, TailElements
<1> QED BY <1>2 DEF PagesInv, BlocksInv

\* A partial page is drained.
LEMMA CountsAllocFromPartial ==
  ASSUME CountsInv, PagesInv, PagesInv', NEW t \in Thread, NEW c \in Class,
         NEW a \in Align, AllocFromPartial(t, c, a)
  PROVE  CountsInv'
<1>1. PICK g \in Ring, h \in Ring : g = <<c, "partial">> /\ h = <<c, "full">>
  BY RingNames
<1>2. PICK p : p = Head(ring[g])
  OBVIOUS
<1>3. /\ ring[g] # <<>> /\ AllocateAll(t, c, p, data[p], counter[p])
      /\ ring' = [ring EXCEPT ![g] = Tail(@), ![h] = Append(@, p)]
      /\ UNCHANGED <<data, phase, cleanIdx>>
  BY <1>1, <1>2 DEF AllocFromPartial
<1>4. /\ p \in Page /\ p \in Range(ring[g]) /\ data[p] \in Block
      /\ Tail(ring[g]) \in Seq(Page) /\ Range(Tail(ring[g])) \subseteq Range(ring[g])
      /\ g # h
  BY <1>1, <1>2, <1>3, HeadPage
<1>5. StaysBut(p) /\ p \in Range(ring'[h])
  BY <1>3, <1>4, Shift
<1>6. counter[p] \in Nat
  BY <1>4 DEF CountsInv, TypeOK
<1>7. Len(chain[PageHead(p)]) > 0 /\ counter[p] + Len(chain[PageHead(p)]) = PgCount[c]
  <2>1. PageFine(g, p)
    BY <1>4, Accounts DEF CountsInv
  <2> QED BY <2>1, <1>1 DEF PageFine
<1> QED BY <1>1, <1>3, <1>4, <1>5, <1>6, <1>7, RefillKeepsCounts

\* A page that was kept empty is handed out whole.
LEMMA CountsAllocFromEmpty ==
  ASSUME CountsInv, PagesInv, PagesInv', NEW t \in Thread, NEW c \in Class,
         NEW a \in Align, AllocFromEmpty(t, c, a)
  PROVE  CountsInv'
<1>1. PICK g \in Ring, h \in Ring : g = <<c, "empty">> /\ h = <<c, "full">>
  BY RingNames
<1>2. PICK p : p = Head(ring[g])
  OBVIOUS
<1>3. /\ ring[g] # <<>> /\ AllocateAll(t, c, p, data[p], counter[p])
      /\ ring' = [ring EXCEPT ![g] = Tail(@), ![h] = Append(@, p)]
      /\ UNCHANGED <<data, phase, cleanIdx>>
  BY <1>1, <1>2 DEF AllocFromEmpty
<1>4. /\ p \in Page /\ p \in Range(ring[g]) /\ data[p] \in Block
      /\ Tail(ring[g]) \in Seq(Page) /\ Range(Tail(ring[g])) \subseteq Range(ring[g])
      /\ g # h
  BY <1>1, <1>2, <1>3, HeadPage
<1>5. StaysBut(p) /\ p \in Range(ring'[h])
  BY <1>3, <1>4, Shift
<1>6. counter[p] = 0
  <2>1. PageFine(g, p)
    BY <1>4, Accounts DEF CountsInv
  <2> QED BY <2>1, <1>1 DEF PageFine
<1>7. counter[p] \in Nat
  BY <1>6
<1> QED BY <1>1, <1>3, <1>4, <1>5, <1>6, <1>7, RefillKeepsCounts

\* A fresh block is handed out whole.
LEMMA CountsAllocFromFresh ==
  ASSUME CountsInv, PagesInv, PagesInv', NEW t \in Thread, NEW c \in Class,
         NEW a \in Align, AllocFromFresh(t, c, a)
  PROVE  CountsInv'
<1>1. PICK g \in Ring, h \in Ring : g = <<c, "uninit">> /\ h = <<c, "full">> /\ g # h
  BY RingNames
<1>2. PICK p : p = IF ring[g] # <<>> THEN Head(ring[g]) ELSE pgBump + 1
  OBVIOUS
<1>3. PICK b \in freeBlocks :
        data' = [data EXCEPT ![p] = b] /\ AllocateAll(t, c, p, b, 0)
  BY <1>1, <1>2 DEF AllocFromFresh
<1>4. PICK s : s = IF ring[g] # <<>> THEN Tail(ring[g]) ELSE ring[g]
  OBVIOUS
<1>5. /\ ring' = [ring EXCEPT ![g] = s, ![h] = Append(@, p)]
      /\ p <= MaxPages /\ UNCHANGED <<phase, cleanIdx>>
  BY <1>1, <1>2, <1>4 DEF AllocFromFresh
<1>6. /\ ring[g] \in Seq(Page) /\ b \in Block /\ data \in [Page -> Block \cup {Null}]
      /\ pgBump \in Nat /\ MaxPages \in Nat
  BY ConstantAssumption DEF PagesInv, PagesTypeOK
<1>7. p \in Page /\ s \in Seq(Page) /\ Range(s) \subseteq Range(ring[g])
  <2>1. CASE ring[g] # <<>>
    BY <2>1, <1>2, <1>4, HeadPage
  <2>2. CASE ring[g] = <<>>
    BY <2>2, <1>2, <1>4, <1>5, <1>6 DEF Page
  <2> QED BY <2>1, <2>2
<1>8. StaysBut(p) /\ p \in Range(ring'[h])
  BY <1>1, <1>5, <1>7, Shift
<1>9. \A q \in Page : q # p => data'[q] = data[q]
  BY <1>3, <1>6
<1> QED BY <1>1, <1>3, <1>5, <1>6, <1>7, <1>8, <1>9, RefillKeepsCounts

\* The steps that leave the caches, the free lists and the rings alone.
LEMMA CountsElsewhere ==
  ASSUME CountsInv, PagesInv', UNCHANGED <<live, chain, length, bump, counter, ring, data>>,
         phase' \in [Thread -> {"run", "exit", "dead"}],
         cleanIdx' \in [Thread -> 1 .. NClass + 1]
  PROVE  CountsInv'
<1>1. CacheTypeOK'
  BY DEF CountsInv, TypeOK, CacheTypeOK
<1>2. TypeOK'
  BY <1>1 DEF PagesInv, PagesTypeOK, CacheTypeOK, TypeOK, Ring
<1>3. BumpInv' /\ LengthIsExact' /\ PageAccounting'
  BY DEF CountsInv, BumpInv, LengthIsExact, PageAccounting, CacheList
<1> QED BY <1>2, <1>3 DEF CountsInv

\* Large requests, the lock of a slab and the radix tree are none of its business.
LEMMA CountsOther ==
  ASSUME CountsInv, PagesInv', NEW t \in Thread,
         \/ UNCHANGED vars \/ Exit(t) \/ Die(t)
         \/ \E b \in Block : AllocLarge(t, b) \/ DeallocLarge(t, b)
         \/ \E c \in Class : EndBatch(t, c) \/ HandleRdTreeRemove(t, c)
  PROVE  CountsInv'
<1>1. /\ phase \in [Thread -> {"run", "exit", "dead"}]
      /\ cleanIdx \in [Thread -> 1 .. NClass + 1] /\ NClass \in Nat
  BY ConstantAssumption DEF CountsInv, TypeOK
<1>2. UNCHANGED <<live, chain, length, bump, counter, ring, data>>
  BY DEF vars, Exit, Die, AllocLarge, DeallocLarge, EndBatch, HandleRdTreeRemove,
         cacheVars, slabVars
<1>3. phase' \in [Thread -> {"run", "exit", "dead"}]
  BY <1>1 DEF vars, Exit, Die, AllocLarge, DeallocLarge, EndBatch, HandleRdTreeRemove
<1>4. cleanIdx' \in [Thread -> 1 .. NClass + 1]
  <2>1. CASE \E c \in Class : EndBatch(t, c)
    <3>1. PICK c \in Class : cleanIdx' = [cleanIdx EXCEPT ![t] = c + 1]
      BY <2>1 DEF EndBatch
    <3>2. c + 1 \in 1 .. NClass + 1
      BY <1>1 DEF Class
    <3> QED BY <3>1, <3>2, <1>1
  <2>2. CASE ~ \E c \in Class : EndBatch(t, c)
    BY <2>2, <1>1 DEF vars, Exit, Die, AllocLarge, DeallocLarge, HandleRdTreeRemove
  <2> QED BY <2>1, <2>2
<1> QED BY <1>2, <1>3, <1>4, CountsElsewhere

\* clean_up empties one unit of an exiting thread.
LEMMA CountsCleanUp ==
  ASSUME CountsInv, PagesInv', NEW t \in Thread, NEW c \in Class, CleanUp(t, c)
  PROVE  CountsInv'
<1> DEFINE u == <<t, c>>
           n == bump[u].count
           h == CacheHead(t, c)
           g == BatchHead(t)
<1>1. /\ chain \in [ListHead -> Seq(Object)] /\ h \in ListHead /\ g \in ListHead
      /\ h # g /\ n \in Nat /\ length[u] \in Nat /\ length[u] = Len(chain[h])
      /\ chain[h] \in Seq(Object)
      /\ cleanIdx \in [Thread -> 1 .. NClass + 1] /\ NClass \in Nat
  BY Heads, UnitTypes, ConstantAssumption DEF CountsInv, TypeOK, CacheList
<1>2. /\ length' = [length EXCEPT ![u] = 0] /\ bump' = [bump EXCEPT ![u] = NoBump]
      /\ UNCHANGED <<live, phase, counter, ring, data>>
  BY DEF CleanUp, slabVars
<1>3. NoBump \in Run /\ RunFits(NoBump, c) /\ <<>> \in Seq(Object) /\ Len(<<>>) = 0
  BY DEF NoBump, Run, RunFits
<1>4. /\ chain' \in [ListHead -> Seq(Object)] /\ chain'[h] = <<>>
      /\ \A k \in ListHead \ {h, g} : chain'[k] = chain[k]
  <2>1. CASE length[u] + n = 0
    <3>1. chain' = chain /\ Len(chain[h]) = 0
      BY <2>1, <1>1 DEF CleanUp
    <3>2. chain[h] = <<>>
      BY <3>1, <1>1
    <3> QED BY <3>1, <3>2, <1>1
  <2>2. CASE length[u] + n > 0
    <3>1. chain' = [chain EXCEPT ![h] = <<>>, ![g] = PushBump(t, c, n)]
      BY <2>2, <1>1 DEF CleanUp
    <3>2. PushBump(t, c, n) \in Seq(Object)
      BY <1>1, PushBumpType
    <3> QED BY <3>1, <3>2, <1>1, <1>3
  <2> QED BY <2>1, <2>2, <1>1
<1>5. cleanIdx' \in [Thread -> 1 .. NClass + 1]
  <2>1. c + 1 \in 1 .. NClass + 1
    BY <1>1 DEF Class
  <2> QED BY <2>1, <1>1 DEF CleanUp
<1>6. SameElsewhere(chain, chain', {CacheHead(t, c)}
                      \cup {BatchHead(v) : v \in Thread} \cup {PageHead(q) : q \in Page})
  BY <1>1, <1>4 DEF SameElsewhere
<1>7. CacheList(t, c)' = <<>> /\ length' = [length EXCEPT ![u] = Len(<<>>)]
  BY <1>2, <1>3, <1>4 DEF CacheList
<1>8. /\ length' \in [Thread \X Class -> Nat] /\ bump' \in [Thread \X Class -> Run]
      /\ BumpInv' /\ LengthIsExact'
  BY <1>2, <1>3, <1>4, <1>6, <1>7, UnitStep
<1>9. PageAccounting'
  <2>1. OtherPagesKept(0)
    BY <1>1, <1>2, <1>4, PageHeads DEF OtherPagesKept
  <2> QED BY <2>1, <1>2, AccountsUntouched DEF CountsInv
<1>10. TypeOK'
  <2>1. CacheTypeOK'
    BY <1>2, <1>4, <1>5, <1>8 DEF CountsInv, TypeOK, CacheTypeOK, Run
  <2> QED BY <2>1 DEF PagesInv, PagesTypeOK, CacheTypeOK, TypeOK, Ring
<1> QED BY <1>8, <1>9, <1>10 DEF CountsInv

\* A step on the pages alone keeps the cache units.
LEMMA UnitsUntouched ==
  ASSUME CountsInv, UNCHANGED <<length, bump>>,
         \A t \in Thread, c \in Class : chain'[CacheHead(t, c)] = chain[CacheHead(t, c)]
  PROVE  BumpInv' /\ LengthIsExact'
  BY DEF CountsInv, BumpInv, LengthIsExact, CacheList

\* A destroyed page keeps nothing but its descriptor.
LEMMA CountsInsertUninit ==
  ASSUME CountsInv, PagesInv, PagesInv', NEW t \in Thread, NEW c \in Class,
         InsertUninit(t, c)
  PROVE  CountsInv'
<1>1. PICK p : p = victim[t]
  OBVIOUS
<1>2. PICK h \in Ring : h = <<c, "uninit">>
  BY RingNames
<1>3. /\ p # 0
      /\ data' = [data EXCEPT ![p] = Null]
      /\ chain' = [chain EXCEPT ![PageHead(p)] = <<>>]
      /\ counter' = [counter EXCEPT ![p] = 0]
      /\ ring' = [ring EXCEPT ![h] = Append(@, p)]
      /\ UNCHANGED <<live, length, bump, phase, cleanIdx>>
  BY <1>1, <1>2 DEF InsertUninit
<1>4. /\ p \in Page /\ ring \in [Ring -> Seq(Page)] /\ ring[h] \in Seq(Page)
      /\ data \in [Page -> Block \cup {Null}]
  BY <1>1, <1>3 DEF PagesInv, PagesTypeOK
<1>5. chain \in [ListHead -> Seq(Object)] /\ counter \in [Page -> Nat]
  BY DEF CountsInv, TypeOK
<1>6. /\ chain' \in [ListHead -> Seq(Object)] /\ chain'[PageHead(p)] = <<>>
      /\ \A k \in ListHead \ {PageHead(p)} : chain'[k] = chain[k]
      /\ counter' \in [Page -> Nat] /\ counter'[p] = 0 /\ data'[p] = Null
  <2>1. PageHead(p) \in ListHead /\ <<>> \in Seq(Object)
    BY <1>4, PageHeads
  <2> QED BY <2>1, <1>3, <1>4, <1>5
<1>7. BumpInv' /\ LengthIsExact'
  <2>1. ASSUME NEW u \in Thread, NEW d \in Class
        PROVE  chain'[CacheHead(u, d)] = chain[CacheHead(u, d)]
    BY <1>4, <1>6, Heads, PageHeads
  <2> QED BY <2>1, <1>3, UnitsUntouched
<1>8. OtherPagesKept(p)
  <2> SUFFICES ASSUME NEW q \in Page, q # p
               PROVE  /\ chain'[PageHead(q)] = chain[PageHead(q)]
                      /\ counter'[q] = counter[q] /\ data'[q] = data[q]
    BY DEF OtherPagesKept
  <2>1. PageHead(q) \in ListHead \ {PageHead(p)}
    BY <1>4, PageHeads
  <2> QED BY <2>1, <1>3, <1>4, <1>5, <1>6
<1>9. StaysBut(p) /\ p \in Range(ring'[h])
  <2>1. ring'[h] = Append(ring[h], p) /\ \A r \in Ring \ {h} : ring'[r] = ring[r]
    BY <1>3, <1>4
  <2>2. Range(Append(ring[h], p)) = Range(ring[h]) \cup {p}
    BY <1>4, RangeAppend
  <2> QED BY <2>1, <2>2 DEF StaysBut
<1>10. PageFine(h, p)'
  <2>1. Len(chain'[PageHead(p)]) = 0
    BY <1>6
  <2> QED BY <2>1, <1>2, <1>6 DEF PageFine
<1>11. PageAccounting'
  BY <1>8, <1>9, <1>10, Lands, AccountsKept DEF CountsInv
<1>12. TypeOK'
  <2>1. CacheTypeOK'
    BY <1>3, <1>6 DEF CountsInv, TypeOK, CacheTypeOK
  <2> QED BY <2>1 DEF PagesInv, PagesTypeOK, CacheTypeOK, TypeOK, Ring
<1> QED BY <1>7, <1>11, <1>12 DEF CountsInv

\* Taking the i-th page off a ring.
LEMMA RingRemove ==
  ASSUME PagesInv, NEW g \in Ring, NEW i \in DOMAIN ring[g]
  PROVE  /\ RemoveAt(ring[g], i) \in Seq(Page)
         /\ Range(RemoveAt(ring[g], i)) \subseteq Range(ring[g])
         /\ ring[g][i] \in Page /\ ring[g][i] \in Range(ring[g])
<1>1. ring[g] \in Seq(Page) /\ IsInjective(ring[g]) /\ i \in 1 .. Len(ring[g])
  BY DEF PagesInv, PagesTypeOK, RingsInv, NoSharing
<1>2. ring[g][i] \in Range(ring[g])
  BY DEF Range
<1> QED BY <1>1, <1>2, RemoveAtElements, RangeType

\* A run of n objects comes back to its page.
LEMMA CountsDeallocateRun ==
  ASSUME CountsInv, PagesInv, PagesInv', NEW t \in Thread, NEW c \in Class, NEW n,
         DeallocateRun(t, c, n)
  PROVE  CountsInv'
<1>1. PICK s, p, from : /\ s = chain[BatchHead(t)] /\ p = rd[s[1][2]]
                        /\ from = RingOf(c, p)
  OBVIOUS
<1>2. from \in {"full", "partial"}
  BY <1>1 DEF RingOf
<1>3. PICK g \in Ring, e \in Ring, h \in Ring :
        g = <<c, from>> /\ e = <<c, "empty">> /\ h = <<c, "partial">>
  BY <1>2, RingNames
<1>4. /\ IsRun(s, n) /\ RunIsSane(c, s, n)
      /\ chain' = [chain EXCEPT ![BatchHead(t)] = SubSeq(s, n + 1, Len(s)),
                                ![PageHead(p)] = SubSeq(s, 1, n) \o @]
      /\ counter' = [counter EXCEPT ![p] = Left(p, n)]
      /\ UNCHANGED <<live, length, bump, phase, cleanIdx, data>>
  BY <1>1 DEF DeallocateRun
<1>5. PICK i \in DOMAIN ring[g] :
       /\ ring[g][i] = p
       /\ \/ /\ Left(p, n) = 0
             /\ ring' = [ring EXCEPT ![g] = RemoveAt(@, i)]
             /\ victim' = [victim EXCEPT ![t] = p]
          \/ /\ Left(p, n) = 0
             /\ ring' = [ring EXCEPT ![g] = RemoveAt(@, i), ![e] = Append(@, p)]
          \/ /\ Left(p, n) > 0 /\ from = "full"
             /\ ring' = [ring EXCEPT ![g] = RemoveAt(@, i), ![h] = Append(@, p)]
          \/ /\ Left(p, n) > 0 /\ from = "partial" /\ ring' = ring
  <2>1. PICK i \in DOMAIN ring[<<c, from>>] :
         /\ ring[<<c, from>>][i] = p
         /\ \/ /\ Left(p, n) = 0
               /\ ring' = [ring EXCEPT ![<<c, from>>] = RemoveAt(@, i)]
               /\ victim' = [victim EXCEPT ![t] = p]
            \/ /\ Left(p, n) = 0
               /\ ring' = [ring EXCEPT ![<<c, from>>] = RemoveAt(@, i),
                                       ![<<c, "empty">>] = Append(@, p)]
            \/ /\ Left(p, n) > 0 /\ from = "full"
               /\ ring' = [ring EXCEPT ![<<c, "full">>] = RemoveAt(@, i),
                                       ![<<c, "partial">>] = Append(@, p)]
            \/ /\ Left(p, n) > 0 /\ from = "partial" /\ ring' = ring
    BY <1>1, ZenonT(40) DEF DeallocateRun
  <2>2. from = "full" => <<c, "full">> = g
    BY <1>3
  <2> QED BY <2>1, <2>2, <1>3
<1>6. /\ RemoveAt(ring[g], i) \in Seq(Page) /\ p \in Page /\ p \in Range(ring[g])
      /\ Range(RemoveAt(ring[g], i)) \subseteq Range(ring[g])
  BY <1>5, RingRemove
<1>7. /\ chain \in [ListHead -> Seq(Object)] /\ counter \in [Page -> Nat]
      /\ s \in Seq(Object) /\ chain[PageHead(p)] \in Seq(Object)
      /\ PageHead(p) \in ListHead /\ BatchHead(t) \in ListHead
      /\ BatchHead(t) # PageHead(p) /\ counter[p] \in Nat
  BY <1>1, <1>6, Heads, PageHeads DEF CountsInv, TypeOK
<1>8. /\ n \in 1 .. Len(s) /\ n \in Nat /\ n > 0 /\ counter[p] >= n
      /\ Left(p, n) = counter[p] - n /\ Left(p, n) \in Nat
  <2>1. n \in 1 .. Len(s) /\ counter[p] >= n
    BY <1>1, <1>4 DEF IsRun, RunIsSane
  <2> QED BY <2>1, <1>7 DEF Left
<1>9. PICK k \in Seq(Object), l \in Seq(Object) :
        k = SubSeq(s, n + 1, Len(s)) /\ l = SubSeq(s, 1, n) /\ Len(l) = n
  <2>1. SubSeq(s, 1, n) \in Seq(Object) /\ Len(SubSeq(s, 1, n)) = n
    BY <1>7, <1>8
  <2>2. SubSeq(s, n + 1, Len(s)) \in Seq(Object)
    BY <1>7, <1>8
  <2> QED BY <2>1, <2>2
<1>10. /\ l \o chain[PageHead(p)] \in Seq(Object)
       /\ Len(l \o chain[PageHead(p)]) = n + Len(chain[PageHead(p)])
  BY <1>7, <1>9
<1>11. /\ chain' \in [ListHead -> Seq(Object)]
       /\ Len(chain'[PageHead(p)]) = n + Len(chain[PageHead(p)])
       /\ \A j \in ListHead \ {BatchHead(t), PageHead(p)} : chain'[j] = chain[j]
       /\ counter' \in [Page -> Nat] /\ counter'[p] = Left(p, n)
  BY <1>4, <1>6, <1>7, <1>8, <1>9, <1>10
<1>12. BumpInv' /\ LengthIsExact'
  <2>1. ASSUME NEW u \in Thread, NEW d \in Class
        PROVE  chain'[CacheHead(u, d)] = chain[CacheHead(u, d)]
    BY <1>6, <1>11, Heads, PageHeads
  <2> QED BY <2>1, <1>4, UnitsUntouched
<1>13. OtherPagesKept(p)
  <2> SUFFICES ASSUME NEW q \in Page, q # p
               PROVE  /\ chain'[PageHead(q)] = chain[PageHead(q)]
                      /\ counter'[q] = counter[q] /\ data'[q] = data[q]
    BY DEF OtherPagesKept
  <2>1. PageHead(q) \in ListHead \ {BatchHead(t), PageHead(p)}
    BY <1>6, PageHeads
  <2> QED BY <2>1, <1>4, <1>7, <1>11
<1>14. /\ counter[p] + Len(chain[PageHead(p)]) = PgCount[c]
       /\ counter'[p] + Len(chain'[PageHead(p)]) = PgCount[c]
       /\ Len(chain'[PageHead(p)]) > 0 /\ PgCount[c] \in Nat
  <2>1. PageFine(g, p)
    BY <1>6, Accounts DEF CountsInv
  <2>2. counter[p] + Len(chain[PageHead(p)]) = PgCount[c] /\ PgCount[c] \in Nat
    BY <2>1, <1>2, <1>3, <1>7, Counts DEF PageFine
  <2>3. Len(chain[PageHead(p)]) \in Nat
    BY <1>7
  <2> QED BY <2>2, <2>3, <1>7, <1>8, <1>11
<1>15. PageLands(p)
  <2>1. CASE Left(p, n) = 0 /\ victim' = [victim EXCEPT ![t] = p]
             /\ ring' = [ring EXCEPT ![g] = RemoveAt(@, i)]
    <3>1. victim'[t] = p /\ p # 0 /\ ring \in [Ring -> Seq(Page)]
      BY <2>1, <1>6, ConstantAssumption DEF PagesInv, PagesTypeOK, Page
    <3>2. NotElsewhere(ring', p, {}) /\ DOMAIN ring' = Ring
      BY <3>1 DEF PagesInv, VictimsInv, PagesTypeOK
    <3>3. ring'[g] = RemoveAt(ring[g], i) /\ \A r \in Ring \ {g} : ring'[r] = ring[r]
      BY <2>1, <3>1
    <3> QED BY <3>2, <3>3, <1>6 DEF PageLands, NotElsewhere
  <2>2. CASE Left(p, n) = 0
             /\ ring' = [ring EXCEPT ![g] = RemoveAt(@, i), ![e] = Append(@, p)]
    <3>1. g # e
      BY <1>2, <1>3
    <3>2. StaysBut(p) /\ p \in Range(ring'[e])
      BY <2>2, <3>1, <1>6, Shift
    <3>3. PageFine(e, p)'
      BY <2>2, <1>3, <1>11, <1>14 DEF PageFine
    <3> QED BY <3>2, <3>3, Lands
  <2>3. CASE Left(p, n) > 0 /\ from = "full"
             /\ ring' = [ring EXCEPT ![g] = RemoveAt(@, i), ![h] = Append(@, p)]
    <3>1. g # h
      BY <2>3, <1>3
    <3>2. StaysBut(p) /\ p \in Range(ring'[h])
      BY <2>3, <3>1, <1>6, Shift
    <3>3. PageFine(h, p)'
      BY <2>3, <1>3, <1>11, <1>14 DEF PageFine
    <3> QED BY <3>2, <3>3, Lands
  <2>4. CASE Left(p, n) > 0 /\ from = "partial" /\ ring' = ring
    <3>1. StaysBut(p) /\ p \in Range(ring'[h]) /\ g = h
      BY <2>4, <1>3, <1>6 DEF StaysBut
    <3>2. PageFine(h, p)'
      BY <2>4, <1>3, <1>11, <1>14 DEF PageFine
    <3> QED BY <3>1, <3>2, Lands
  <2> QED BY <2>1, <2>2, <2>3, <2>4, <1>5
<1>16. PageAccounting'
  BY <1>13, <1>15, AccountsKept DEF CountsInv
<1>17. TypeOK'
  <2>1. CacheTypeOK'
    BY <1>4, <1>11 DEF CountsInv, TypeOK, CacheTypeOK
  <2> QED BY <2>1 DEF PagesInv, PagesTypeOK, CacheTypeOK, TypeOK, Ring
<1> QED BY <1>12, <1>16, <1>17 DEF CountsInv

\* Every step keeps the types and the counts.
LEMMA CountsNext ==
  ASSUME CountsInv, PagesInv, PagesInv', [Next]_vars
  PROVE  CountsInv'
<1>1. CASE UNCHANGED vars
  <2>1. /\ UNCHANGED <<live, chain, length, bump, counter, ring, data>>
        /\ phase' = phase /\ cleanIdx' = cleanIdx
    BY <1>1 DEF vars
  <2> QED BY <2>1, CountsElsewhere DEF CountsInv, TypeOK
<1>2. CASE Finished
  BY <1>1, <1>2 DEF Finished
<1>3. ASSUME NEW t \in Thread, NEW c \in Class, NEW a \in Align, Alloc(t, c, a)
      PROVE  CountsInv'
  BY <1>3, CountsAllocFromList, CountsAllocFromBump, CountsAllocFromPartial,
     CountsAllocFromEmpty, CountsAllocFromFresh DEF Alloc
<1>4. ASSUME NEW t \in Thread, NEW o \in live, Dealloc(t, o)
      PROVE  CountsInv'
  BY <1>4, CountsDealloc
<1>5. ASSUME NEW t \in Thread, NEW b \in Block, AllocLarge(t, b) \/ DeallocLarge(t, b)
      PROVE  CountsInv'
  BY <1>5, CountsOther
<1>6. ASSUME NEW t \in Thread, Exit(t) \/ Die(t)
      PROVE  CountsInv'
  BY <1>6, CountsOther
<1>7. ASSUME NEW t \in Thread, NEW c \in Class,
             \/ CleanUp(t, c)
             \/ \E n \in 1 .. Len(chain[BatchHead(t)]) : DeallocateRun(t, c, n)
             \/ DestroyPage(t, c)
             \/ EndBatch(t, c)
      PROVE  CountsInv'
  BY <1>7, CountsCleanUp, CountsDeallocateRun, CountsInsertUninit, CountsOther
     DEF DestroyPage
<1> QED BY <1>1, <1>2, <1>3, <1>4, <1>5, <1>6, <1>7 DEF Next, Flush

\* In every reachable state the types and the counts are right.
THEOREM CountsInvariant == Spec => []CountsInv
<1>1. Init => CountsInv
  BY CountsInit
<1>2. CountsInv /\ PagesInv /\ PagesInv' /\ [Next]_vars => CountsInv'
  BY CountsNext
<1> QED BY <1>1, <1>2, PagesInvariant, PTL DEF Spec

\* The variables keep their types, whatever the threads do: in particular no
\* counter of the caches and the pages goes below zero.
THEOREM TypeCorrect == Spec => []TypeOK
<1>1. CountsInv => TypeOK
  BY DEF CountsInv
<1> QED BY <1>1, CountsInvariant, PTL

\* ObjectPage.counter and the free list of the page add up to pg_count, and
\* the ring agrees with both (allocate_all, deallocate, is_full, is_empty).
THEOREM PagesAddUp == Spec => []PageAccounting
<1>1. CountsInv => PageAccounting
  BY DEF CountsInv
<1> QED BY <1>1, CountsInvariant, PTL

\* list.length is the length of the list, also after a refill that computes it
\* from the page's counter (thread_cache.rs).
THEOREM LengthsAreExact == Spec => []LengthIsExact
<1>1. CountsInv => LengthIsExact
  BY DEF CountsInv
<1> QED BY <1>1, CountsInvariant, PTL

-----------------------------------------------------------------------------
(***************************************************************************)
(* Where the objects of SlabCache are.  An object of a block that a class  *)
(* owns is in exactly one spot: with the program, on one list (of a cache  *)
(* unit, a page or a flush) or ahead of one bump_ptr.  Every step takes    *)
(* objects from some spots to others, so what it leaves of this is one     *)
(* argument (Moving) on the few spots it touches.                          *)
(*                                                                         *)
(* PlacesInv needs PagesInv and CountsInv: a page that becomes empty has   *)
(* all its objects on its own list because its counter says so, and only   *)
(* therefore may its block be returned.                                    *)
(***************************************************************************)
LiveSpot == <<"live">>
BumpSpot(t, c) == <<"bump", t, c>>
BumpSpots == {BumpSpot(t, c) : t \in Thread, c \in Class}
Spot == {LiveSpot} \cup ListHead \cup BumpSpots

\* The objects in every spot.
Held ==
  [x \in Spot |-> IF x = LiveSpot THEN live
                  ELSE IF x \in BumpSpots THEN BumpObjects(<<x[2], x[3]>>)
                  ELSE Range(chain[x])]

\* The sets of a family indexed by the spots: pairwise disjoint, and all of them.
Apart(f) == \A x, y \in Spot : x # y => Disjoint(f[x], f[y])
All(f) == UNION {f[x] : x \in Spot}

\* An object exists while a page of its class has its block.
Owned(o) == \E p \in InitedPages(o[1]) : data[p] = o[2]

\* What is on the lists of a cache unit, a flush and a page.
ListsInv ==
  /\ \A h \in ListHead : IsInjective(chain[h])
  /\ \A t \in Thread, c \in Class : \A o \in Range(CacheList(t, c)) : o[1] = c
  /\ \A t \in Thread : \A o \in Range(chain[BatchHead(t)]) : lock[o[1]] = t
  /\ \A p \in Page : \A o \in Range(chain[PageHead(p)]) : o[2] = data[p]
  /\ \A p \in Page : p > pgBump => chain[PageHead(p)] = <<>>

\* A page that is being destroyed has all its objects.
VictimsFull ==
  \A t \in Thread, c \in Class : victim[t] # 0 /\ lock[c] = t =>
    Len(chain[PageHead(victim[t])]) = PgCount[c]

PlacesInv ==
  /\ Apart(Held)
  /\ \A o : o \in All(Held) <=> o \in Object /\ Owned(o)
  /\ ListsInv
  /\ VictimsFull

\* Thread t has nothing of class c left in its cache.
Clean(t, c) == CacheList(t, c) = <<>> /\ bump[<<t, c>>].count = 0

\* How far an exiting thread has got.
ExitInv ==
  \A t \in Thread :
    /\ phase[t] = "run" => cleanIdx[t] = 1
    /\ phase[t] = "dead" => cleanIdx[t] = NClass + 1
    /\ \A c \in Class : lock[c] = t => phase[t] = "exit" /\ cleanIdx[t] = c /\ Clean(t, c)
    /\ \A c \in Class : c < cleanIdx[t] => Clean(t, c)

-----------------------------------------------------------------------------
(***************************************************************************)
(* Moving objects between spots.                                           *)
(***************************************************************************)
\* The family g is f after the objects M went from spot x to spot y.
Moved(f, g, x, y, M) ==
  /\ M \subseteq f[x]
  /\ g[x] = f[x] \ M
  /\ g[y] = f[y] \cup M
  /\ \A z \in Spot \ {x, y} : g[z] = f[z]

\* Objects that move stay in one spot each, and none is lost.
LEMMA Moving ==
  ASSUME NEW f, NEW g, NEW x \in Spot, NEW y \in Spot, x # y, NEW M,
         Apart(f), Moved(f, g, x, y, M)
  PROVE  Apart(g) /\ All(g) = All(f)
<1>1. /\ M \subseteq f[x] /\ g[x] = f[x] \ M /\ g[y] = f[y] \cup M
      /\ \A z \in Spot \ {x, y} : g[z] = f[z]
  BY DEF Moved
<1>2. Apart(g)
  <2>1. SUFFICES ASSUME NEW v \in Spot, NEW w \in Spot, v # w,
                        NEW o, o \in g[v], o \in g[w]
                 PROVE  FALSE
    BY DEF Apart, Disjoint
  <2>2. \A z \in Spot : o \in g[z] => IF o \in M THEN z = y ELSE o \in f[z]
    <3>1. \A z \in Spot : z # x => Disjoint(f[z], f[x])
      BY DEF Apart
    <3> QED BY <3>1, <1>1 DEF Disjoint
  <2> QED BY <2>1, <2>2 DEF Apart, Disjoint
<1>3. All(g) = All(f)
  <2>1. ASSUME NEW o PROVE (\E z \in Spot : o \in g[z]) <=> (\E z \in Spot : o \in f[z])
    <3>1. ASSUME NEW z \in Spot, o \in g[z] PROVE \E v \in Spot : o \in f[v]
      BY <3>1, <1>1
    <3>2. ASSUME NEW z \in Spot, o \in f[z] PROVE \E v \in Spot : o \in g[v]
      BY <3>2, <1>1
    <3> QED BY <3>1, <3>2
  <2> QED BY <2>1 DEF All
<1> QED BY <1>2, <1>3

\* What a move leaves is a family.
LEMMA CanMove ==
  ASSUME NEW f, NEW x \in Spot, NEW y \in Spot, x # y, NEW M, M \subseteq f[x]
  PROVE  \E g : Moved(f, g, x, y, M)
<1> DEFINE g == [z \in Spot |-> IF z = x THEN f[x] \ M
                                ELSE IF z = y THEN f[y] \cup M ELSE f[z]]
<1>1. Moved(f, g, x, y, M)
  BY DEF Moved
<1> HIDE DEF g
<1> QED BY <1>1

\* New objects, in no spot so far, arrive in spot y.
LEMMA Arriving ==
  ASSUME NEW f, NEW y \in Spot, NEW N, Apart(f), Disjoint(N, All(f))
  PROVE  \E g : /\ Apart(g) /\ All(g) = All(f) \cup N
                /\ g[y] = f[y] \cup N
                /\ \A z \in Spot \ {y} : g[z] = f[z]
<1> DEFINE g == [z \in Spot |-> IF z = y THEN f[y] \cup N ELSE f[z]]
<1>1. g[y] = f[y] \cup N /\ \A z \in Spot \ {y} : g[z] = f[z]
  OBVIOUS
<1> HIDE DEF g
<1>2. \A z \in Spot : Disjoint(N, f[z])
  BY DEF All, Disjoint
<1>3. Apart(g)
  BY <1>1, <1>2 DEF Apart, Disjoint
<1>4. All(g) = All(f) \cup N
  BY <1>1 DEF All
<1> QED BY <1>1, <1>3, <1>4

\* All objects of spot x go away.
LEMMA Leaving ==
  ASSUME NEW f, NEW g, NEW x \in Spot, Apart(f), g[x] = {},
         \A z \in Spot \ {x} : g[z] = f[z]
  PROVE  Apart(g) /\ All(g) = All(f) \ f[x]
<1>1. Apart(g)
  BY DEF Apart, Disjoint
<1>2. All(g) = All(f) \ f[x]
  BY DEF Apart, All, Disjoint
<1> QED BY <1>1, <1>2

-----------------------------------------------------------------------------
(***************************************************************************)
(* What is in the spots.                                                   *)
(***************************************************************************)
\* The k objects of class c in block b from slot n on, and those of a run.
Slice(c, b, n, k) == {<<c, b, n + j>> : j \in 0 .. k - 1}
RunObjects(r, c) == Slice(c, r.blk, r.next, r.count)

HeldParts ==
  /\ Held[LiveSpot] = live
  /\ \A h \in ListHead : Held[h] = Range(chain[h])
  /\ \A t \in Thread, c \in Class : Held[BumpSpot(t, c)] = RunObjects(bump[<<t, c>>], c)

\* The spots are different spots.
LEMMA Spots ==
  /\ LiveSpot \in Spot /\ LiveSpot \notin ListHead /\ LiveSpot \notin BumpSpots
  /\ \A h \in ListHead : h \in Spot /\ h \notin BumpSpots /\ h # LiveSpot
  /\ \A t \in Thread, c \in Class :
       /\ BumpSpot(t, c) \in BumpSpots /\ BumpSpot(t, c) \in Spot
       /\ BumpSpot(t, c) \notin ListHead /\ BumpSpot(t, c) # LiveSpot
       /\ BumpSpot(t, c)[2] = t /\ BumpSpot(t, c)[3] = c
  /\ \A x \in Spot : x = LiveSpot \/ x \in ListHead \/ x \in BumpSpots
<1>1. \A x \in BumpSpots : x[1] = "bump"
  BY DEF BumpSpots, BumpSpot
<1>2. \A h \in ListHead : h[1] \in {"cache", "page", "batch"}
  BY DEF ListHead, CacheHead, PageHead, BatchHead
<1>3. LiveSpot[1] = "live"
  BY DEF LiveSpot
<1>4. \A h \in ListHead : h \notin BumpSpots /\ h # LiveSpot
  BY <1>1, <1>2, <1>3
<1>5. LiveSpot \notin BumpSpots
  BY <1>1, <1>3
<1>6. \A t \in Thread, c \in Class :
        BumpSpot(t, c) \in BumpSpots /\ BumpSpot(t, c)[2] = t /\ BumpSpot(t, c)[3] = c
  BY DEF BumpSpots, BumpSpot
<1> QED BY <1>4, <1>5, <1>6 DEF Spot

\* Held, spot by spot.
LEMMA HeldIs == HeldParts
<1>1. Held[LiveSpot] = live
  BY Spots DEF Held
<1>2. ASSUME NEW h \in ListHead PROVE Held[h] = Range(chain[h])
  BY Spots DEF Held
<1>3. ASSUME NEW t \in Thread, NEW c \in Class
      PROVE  Held[BumpSpot(t, c)] = RunObjects(bump[<<t, c>>], c)
  <2>1. Held[BumpSpot(t, c)] = BumpObjects(<<t, c>>)
    BY Spots DEF Held
  <2>2. BumpObjects(<<t, c>>) = RunObjects(bump[<<t, c>>], c)
    BY DEF BumpObjects, BumpObject, RunObjects, Slice
  <2> QED BY <2>1, <2>2
<1> QED BY <1>1, <1>2, <1>3 DEF HeldParts

LEMMA HeldIsNext == HeldParts'
  BY HeldIs, PTL

\* A step in the unit of thread t for class c, and on the lists G, leaves the
\* other spots alone.
LEMMA HeldElsewhere ==
  ASSUME NEW t \in Thread, NEW c \in Class, NEW G,
         \A h \in ListHead \ G : chain'[h] = chain[h],
         \A u \in Thread, d \in Class :
           u # t \/ d # c => bump'[<<u, d>>] = bump[<<u, d>>]
  PROVE  \A x \in Spot \ ({LiveSpot, BumpSpot(t, c)} \cup G) : Held'[x] = Held[x]
<1> SUFFICES ASSUME NEW x \in Spot, x # LiveSpot, x # BumpSpot(t, c), x \notin G
             PROVE  Held'[x] = Held[x]
  OBVIOUS
<1>1. CASE x \in ListHead
  BY <1>1, HeldIs, HeldIsNext DEF HeldParts
<1>2. CASE x \in BumpSpots
  <2>1. PICK u \in Thread, d \in Class : x = BumpSpot(u, d)
    BY <1>2 DEF BumpSpots
  <2>2. bump'[<<u, d>>] = bump[<<u, d>>]
    BY <2>1
  <2>3. Held[x] = RunObjects(bump[<<u, d>>], d)
    BY <2>1, HeldIs DEF HeldParts
  <2>4. Held'[x] = RunObjects(bump'[<<u, d>>], d)
    BY <2>1, HeldIsNext DEF HeldParts
  <2> QED BY <2>2, <2>3, <2>4
<1> QED BY <1>1, <1>2, Spots

\* The objects of a run that BumpRun makes.
LEMMA BumpRunObjects ==
  ASSUME NEW b, NEW n \in Nat, NEW k \in Nat, NEW c
  PROVE  RunObjects(BumpRun(b, n, k), c) = Slice(c, b, n, k)
<1>1. CASE k = 0
  <2>1. 0 .. k - 1 = {}
    BY <1>1
  <2>2. BumpRun(b, n, k).count = 0
    BY <1>1 DEF BumpRun, NoBump
  <2>3. 0 .. BumpRun(b, n, k).count - 1 = {}
    BY <2>2
  <2> QED BY <2>1, <2>3 DEF RunObjects, Slice
<1>2. CASE k # 0
  BY <1>2 DEF BumpRun, RunObjects
<1> QED BY <1>1, <1>2

LEMMA NoRunObjects ==
  ASSUME NEW c PROVE RunObjects(NoBump, c) = {}
<1>1. 0 .. NoBump.count - 1 = {}
  BY DEF NoBump
<1> QED BY <1>1 DEF RunObjects, Slice

\* Using up the first k objects of a run, and the next one.
LEMMA RunSplit ==
  ASSUME NEW r \in Run, NEW k \in 0 .. r.count - 1, NEW c
  PROVE  LET first == Slice(c, r.blk, r.next, k)
             o == <<c, r.blk, r.next + k>>
             rest == RunObjects(BumpRun(r.blk, r.next + k + 1, r.count - k - 1), c)
         IN /\ RunObjects(r, c) = first \cup {o} \cup rest
            /\ o \notin first /\ o \notin rest /\ Disjoint(first, rest)
<1> DEFINE first == Slice(c, r.blk, r.next, k)
           o == <<c, r.blk, r.next + k>>
           n == r.next + k + 1
           m == r.count - k - 1
           rest == Slice(c, r.blk, n, m)
<1>1. r.next \in Nat /\ r.count \in Nat /\ k \in Nat /\ n \in Nat /\ m \in Nat
  BY DEF Run
<1>2. RunObjects(BumpRun(r.blk, n, m), c) = rest
  BY <1>1, BumpRunObjects
<1>3. o \notin first /\ o \notin rest /\ Disjoint(first, rest)
  BY <1>1 DEF Disjoint, Slice
<1>4. ASSUME NEW i \in 0 .. r.count - 1
      PROVE  <<c, r.blk, r.next + i>> \in first \cup {o} \cup rest
  <2>1. CASE i < k
    BY <2>1, <1>1 DEF Slice
  <2>2. CASE i = k
    BY <2>2
  <2>3. CASE i > k
    <3>1. i - k - 1 \in 0 .. m - 1 /\ n + (i - k - 1) = r.next + i
      BY <2>3, <1>1
    <3>2. <<c, r.blk, n + (i - k - 1)>> \in rest
      BY <3>1 DEF Slice
    <3> QED BY <3>1, <3>2
  <2> QED BY <2>1, <2>2, <2>3, <1>1
<1>5. first \subseteq RunObjects(r, c) /\ o \in RunObjects(r, c)
  BY <1>1 DEF RunObjects, Slice
<1>6. rest \subseteq RunObjects(r, c)
  <2>1. ASSUME NEW j \in 0 .. m - 1
        PROVE  <<c, r.blk, n + j>> \in RunObjects(r, c)
    <3>1. k + 1 + j \in 0 .. r.count - 1 /\ r.next + (k + 1 + j) = n + j
      BY <1>1
    <3>2. <<c, r.blk, r.next + (k + 1 + j)>> \in RunObjects(r, c)
      BY <3>1 DEF RunObjects, Slice
    <3> QED BY <3>1, <3>2
  <2> QED BY <2>1 DEF Slice
<1>7. RunObjects(r, c) \subseteq first \cup {o} \cup rest
  <2> HIDE DEF o, first, rest
  <2> QED BY <1>4 DEF RunObjects, Slice
<1> HIDE DEF first, o, rest
<1>8. RunObjects(r, c) = first \cup {o} \cup rest
  BY <1>5, <1>6, <1>7
<1> QED BY <1>2, <1>3, <1>8 DEF first, o, rest, n, m

\* The list after the first k objects of the run were freed into it.
LEMMA PushBumpElements ==
  ASSUME CountsInv, PlacesInv, NEW t \in Thread, NEW c \in Class,
         NEW k \in 0 .. bump[<<t, c>>].count
  PROVE  LET first == Slice(c, bump[<<t, c>>].blk, bump[<<t, c>>].next, k)
         IN /\ IsInjective(PushBump(t, c, k))
            /\ Range(PushBump(t, c, k)) = first \cup Range(CacheList(t, c))
            /\ first \subseteq RunObjects(bump[<<t, c>>], c)
<1> DEFINE r == bump[<<t, c>>]
           first == Slice(c, r.blk, r.next, k)
           l == CacheList(t, c)
           s == [j \in 1 .. k |-> BumpObject(t, c, k - j)]
<1>1. r \in Run /\ l \in Seq(Object) /\ r.next \in Nat /\ r.count \in Nat /\ k \in Nat
  BY UnitTypes
<1>2. \A j \in 1 .. k : s[j] = <<c, r.blk, r.next + (k - j)>>
  BY DEF BumpObject
<1>3. s \in Seq(Object) /\ Len(s) = k
  <2>1. ASSUME NEW j \in 1 .. k PROVE BumpObject(t, c, k - j) \in Object
    <3>1. k - j \in 0 .. bump[<<t, c>>].count - 1
      BY <1>1
    <3> QED BY <3>1, BumpObjectType
  <2>2. s \in [1 .. k -> Object]
    BY <2>1
  <2> QED BY <2>2, <1>1
<1>4. first \subseteq RunObjects(r, c)
  BY <1>1 DEF RunObjects, Slice
<1>5. Range(s) = first
  <2>1. ASSUME NEW j \in 1 .. k PROVE s[j] \in first
    BY <1>1, <1>2 DEF Slice
  <2>2. ASSUME NEW j \in 0 .. k - 1
        PROVE  \E i \in 1 .. Len(s) : s[i] = <<c, r.blk, r.next + j>>
    <3>1. k - j \in 1 .. k /\ k - (k - j) = j
      BY <1>1
    <3>2. s[k - j] = <<c, r.blk, r.next + (k - (k - j))>>
      BY <3>1, <1>2
    <3>3. s[k - j] = <<c, r.blk, r.next + j>>
      BY <3>1, <3>2
    <3> QED BY <3>1, <3>3, <1>3
  <2> HIDE DEF s, first
  <2>3. \A x \in Range(s) : x \in first
    BY <2>1, <1>3, InRange
  <2>4. \A x \in first : x \in Range(s)
    BY <2>2, <1>3, InRange DEF first, Slice
  <2> QED BY <2>3, <2>4
<1>6. IsInjective(s)
  <2>1. ASSUME NEW i \in 1 .. k, NEW j \in 1 .. k, s[i] = s[j] PROVE i = j
    <3>1. r.next + (k - i) = r.next + (k - j)
      BY <2>1, <1>2
    <3> QED BY <3>1, <1>1
  <2> HIDE DEF s
  <2> QED BY <2>1, <1>3, Injective
<1>7. Disjoint(first, Range(l))
  <2>1. Held[BumpSpot(t, c)] = RunObjects(r, c) /\ Held[CacheHead(t, c)] = Range(l)
    BY HeldIs, Heads DEF HeldParts, CacheList
  <2>2. Disjoint(RunObjects(r, c), Range(l))
    BY <2>1, Heads, Spots DEF PlacesInv, Apart
  <2> QED BY <2>2, <1>4 DEF Disjoint
<1>8. IsInjective(l)
  BY Heads DEF PlacesInv, ListsInv, CacheList
<1>9. PushBump(t, c, k) = s \o l
  BY DEF PushBump
<1> HIDE DEF s, l, first
<1>10. IsInjective(s \o l) /\ Range(s \o l) = Range(s) \cup Range(l)
  BY <1>1, <1>3, <1>6, <1>7, <1>5, <1>8, ConcatElements
<1> QED BY <1>4, <1>5, <1>9, <1>10 DEF first, r, l

-----------------------------------------------------------------------------
(***************************************************************************)
(* The pages that have a block.                                            *)
(***************************************************************************)
\* Page p has a block of class c: it is on a ring, or being destroyed.
OnRing(c, p) == \E k \in Kind \ {"uninit"} : p \in Range(ring[<<c, k>>])
BeingDestroyed(c, p) == p # 0 /\ \E t \in Thread : lock[c] = t /\ victim[t] = p
InitedIs == \A c \in Class : \A p : p \in InitedPages(c) <=> OnRing(c, p) \/ BeingDestroyed(c, p)

LEMMA Inited == InitedIs
<1>1. Kind \ {"uninit"} = {"full", "partial", "empty"}
  BY DEF Kind
<1>2. ASSUME NEW c \in Class, NEW p
      PROVE  p \in InitedPages(c) <=> OnRing(c, p) \/ BeingDestroyed(c, p)
  <2>1. p \in UNION {Range(ring[<<c, k>>]) : k \in {"full", "partial", "empty"}}
          <=> OnRing(c, p)
    BY <1>1 DEF OnRing
  <2>2. p \in {victim[t] : t \in {u \in Thread : lock[c] = u /\ victim[u] # 0}}
          <=> BeingDestroyed(c, p)
    BY DEF BeingDestroyed
  <2> QED BY <2>1, <2>2 DEF InitedPages
<1> QED BY <1>2 DEF InitedIs

LEMMA InitedNext == InitedIs'
  BY Inited, PTL

\* Such a page is a descriptor given out, and it has its block.
LEMMA InitedFacts ==
  ASSUME PagesInv, NEW c \in Class, NEW p \in InitedPages(c)
  PROVE  p \in Page /\ p <= pgBump /\ data[p] \in Block
<1>1. CASE OnRing(c, p)
  <2>1. PICK k \in Kind \ {"uninit"} : p \in Range(ring[<<c, k>>])
    BY <1>1 DEF OnRing
  <2>2. <<c, k>> \in Ring /\ <<c, k>>[2] # "uninit"
    BY RingNames
  <2>3. ring[<<c, k>>] \in Seq(Page)
    BY <2>2 DEF PagesInv, PagesTypeOK
  <2>4. p \in Page
    BY <2>1, <2>3, RangeType
  <2> QED BY <2>1, <2>2, <2>4 DEF PagesInv, RingsInv, BlocksInv
<1>2. CASE BeingDestroyed(c, p)
  BY <1>2 DEF BeingDestroyed, PagesInv, PagesTypeOK, VictimsInv
<1> QED BY <1>1, <1>2, Inited DEF InitedIs

\* A page has the block of one class only, and no other page has that block.
LEMMA OwnerUnique ==
  ASSUME PagesInv, ExitInv, NEW c \in Class, NEW d \in Class,
         NEW p \in InitedPages(c), NEW q \in InitedPages(d), data[p] = data[q]
  PROVE  p = q /\ c = d
<1>1. p \in Page /\ q \in Page /\ data[p] \in Block
  BY InitedFacts
<1>2. p = q
  BY <1>1, ConstantAssumption DEF PagesInv, BlocksInv
<1>3. CASE OnRing(c, p) /\ OnRing(d, p)
  <2>1. PICK k \in Kind, l \in Kind :
          p \in Range(ring[<<c, k>>]) /\ p \in Range(ring[<<d, l>>])
    BY <1>3 DEF OnRing
  <2>2. <<c, k>> \in Ring /\ <<d, l>> \in Ring
    BY RingNames
  <2>3. DOMAIN ring = Ring
    BY DEF PagesInv, PagesTypeOK
  <2>4. <<c, k>> = <<d, l>>
    BY <2>1, <2>2, <2>3 DEF PagesInv, RingsInv, NoSharing, Disjoint
  <2> QED BY <2>4, <1>2
<1>4. ASSUME NEW e \in Class, NEW f \in Class, BeingDestroyed(e, p), OnRing(f, p)
      PROVE  FALSE
  <2>1. PICK t \in Thread : victim[t] = p /\ p # 0
    BY <1>4 DEF BeingDestroyed
  <2>2. PICK k \in Kind : p \in Range(ring[<<f, k>>])
    BY <1>4 DEF OnRing
  <2>3. NotElsewhere(ring, p, {})
    BY <2>1 DEF PagesInv, VictimsInv
  <2>4. <<f, k>> \in DOMAIN ring
    BY RingNames DEF PagesInv, PagesTypeOK
  <2> QED BY <2>2, <2>3, <2>4 DEF NotElsewhere
<1>5. CASE BeingDestroyed(c, p) /\ BeingDestroyed(d, p)
  <2>1. PICK t \in Thread, u \in Thread :
          lock[c] = t /\ victim[t] = p /\ lock[d] = u /\ victim[u] = p /\ p # 0
    BY <1>5 DEF BeingDestroyed
  <2>2. t = u
    BY <2>1 DEF PagesInv, VictimsInv
  <2> QED BY <2>1, <2>2, <1>2 DEF ExitInv
<1>6. /\ OnRing(c, p) \/ BeingDestroyed(c, p)
      /\ OnRing(d, p) \/ BeingDestroyed(d, p)
  BY <1>2, Inited DEF InitedIs
<1> QED BY <1>2, <1>3, <1>4, <1>5, <1>6

\* While no page gets or loses a block, the objects that exist are the same.
LEMMA SameOwned ==
  ASSUME \A d \in Class : InitedPages(d)' = InitedPages(d), data' = data
  PROVE  \A o \in Object : Owned(o)' <=> Owned(o)
<1> SUFFICES ASSUME NEW o \in Object PROVE Owned(o)' <=> Owned(o)
  OBVIOUS
<1>1. o[1] \in Class
  BY ObjectFields
<1>2. InitedPages(o[1])' = InitedPages(o[1])
  BY <1>1
<1> QED BY <1>2 DEF Owned

\* A page goes from ring to ring.
LEMMA MoveJoins ==
  ASSUME PagesInv, NEW g \in Ring, NEW h \in Ring, g # h, NEW i \in DOMAIN ring[g],
         ring' = [ring EXCEPT ![g] = RemoveAt(@, i), ![h] = Append(@, ring[g][i])]
  PROVE  JoinsRing(ring[g][i], h)
<1>1. ring \in [Ring -> Seq(Page)] /\ NoSharing(ring)
  BY DEF PagesInv, PagesTypeOK, RingsInv
<1>2. i \in 1 .. Len(ring[g]) /\ ring[g][i] \in Page /\ IsInjective(ring[g])
  <2>1. ring[g] \in Seq(Page)
    BY <1>1
  <2> QED BY <1>1, <2>1 DEF NoSharing
<1>3. RemoveAt(ring[g], i) \in Seq(Page)
  BY <1>1, <1>2, RemoveAtElements
<1>4. Append(ring[h], ring[g][i]) \in Seq(Page)
  BY <1>1, <1>2
<1>5. /\ ring' \in [Ring -> Seq(Page)]
      /\ ring'[g] = RemoveAt(ring[g], i) /\ ring'[h] = Append(ring[h], ring[g][i])
      /\ SameElsewhere(ring, ring', {g, h})
  BY <1>1, <1>3, <1>4 DEF SameElsewhere
<1>6. /\ Loses(ring, ring', g, ring[g][i]) /\ Gains(ring, ring', h, ring[g][i])
      /\ NotElsewhere(ring, ring[g][i], {g})
  BY ONLY <1>1, <1>2, <1>5, MoveOne, g # h, g \in Ring, h \in Ring
<1>7. DOMAIN ring = Ring
  BY <1>1
<1> QED BY <1>5, <1>6, <1>7 DEF JoinsRing, Loses, Gains, NotElsewhere, SameElsewhere

LEMMA TailJoins ==
  ASSUME PagesInv, NEW g \in Ring, NEW h \in Ring, g # h, ring[g] # <<>>,
         ring' = [ring EXCEPT ![g] = Tail(@), ![h] = Append(@, Head(ring[g]))]
  PROVE  JoinsRing(Head(ring[g]), h)
<1>1. ring[g] \in Seq(Page)
  BY DEF PagesInv, PagesTypeOK
<1>2. /\ Tail(ring[g]) = RemoveAt(ring[g], 1) /\ Head(ring[g]) = ring[g][1]
      /\ 1 \in 1 .. Len(ring[g])
  BY <1>1, TailIsRemoveAt
<1>3. ring' = [ring EXCEPT ![g] = RemoveAt(@, 1), ![h] = Append(@, ring[g][1])]
  BY <1>2
<1>4. 1 \in DOMAIN ring[g]
  BY <1>1, <1>2
<1>5. JoinsRing(ring[g][1], h)
  BY ONLY PagesInv, g # h, g \in Ring, h \in Ring, <1>3, <1>4, MoveJoins
<1> QED BY <1>2, <1>5

\* A page that joins a ring of class c has its block; the others are as before.
LEMMA JoinInited ==
  ASSUME PagesInv, NEW c \in Class, NEW k \in Kind \ {"uninit"}, NEW p,
         JoinsRing(p, <<c, k>>), NoVictim(p), UNCHANGED <<lock, victim>>
  PROVE  \A d \in Class :
           InitedPages(d)' = IF d = c THEN InitedPages(d) \cup {p} ELSE InitedPages(d) \ {p}
<1> SUFFICES ASSUME NEW d \in Class, NEW q
             PROVE  q \in InitedPages(d)' <=>
                      IF d = c THEN q \in InitedPages(d) \/ q = p
                               ELSE q \in InitedPages(d) /\ q # p
  OBVIOUS
<1>1. BeingDestroyed(d, q)' <=> BeingDestroyed(d, q)
  BY DEF BeingDestroyed
<1>2. BeingDestroyed(d, q) => q # p
  BY DEF BeingDestroyed, NoVictim
<1>3. OnRing(d, q)' <=> (OnRing(d, q) /\ q # p) \/ (q = p /\ d = c)
  <2>1. \A l \in Kind : <<d, l>> \in Ring
    BY RingNames
  <2>2. \A l \in Kind : q \in Range(ring'[<<d, l>>]) <=>
          (q \in Range(ring[<<d, l>>]) /\ q # p) \/ (q = p /\ d = c /\ l = k)
    BY <2>1 DEF JoinsRing
  <2> QED BY <2>2 DEF OnRing
<1> QED BY <1>1, <1>2, <1>3, Inited, InitedNext DEF InitedIs

-----------------------------------------------------------------------------
(***************************************************************************)
(* Threads that exit.                                                      *)
(***************************************************************************)
\* The unit of thread u for class d is untouched.
UnitKept(u, d) ==
  chain'[CacheHead(u, d)] = chain[CacheHead(u, d)] /\ bump'[<<u, d>>] = bump[<<u, d>>]

\* ExitInv, thread by thread.
ExitFine(t) ==
  /\ phase[t] = "run" => cleanIdx[t] = 1
  /\ phase[t] = "dead" => cleanIdx[t] = NClass + 1
  /\ \A c \in Class : lock[c] = t => phase[t] = "exit" /\ cleanIdx[t] = c /\ Clean(t, c)
  /\ \A c \in Class : c < cleanIdx[t] => Clean(t, c)

LEMMA ExitParts == ExitInv <=> \A t \in Thread : ExitFine(t)
  BY DEF ExitInv, ExitFine

LEMMA ExitPartsNext == ExitInv' <=> \A t \in Thread : ExitFine(t)'
  BY DEF ExitInv, ExitFine

\* Its own units are none of the business of the flushes of the other threads.
LEMMA ExitOthers ==
  ASSUME NEW u \in Thread, ExitFine(u), phase'[u] = phase[u], cleanIdx'[u] = cleanIdx[u],
         \A c \in Class : lock'[c] = u <=> lock[c] = u, \A c \in Class : UnitKept(u, c)
  PROVE  ExitFine(u)'
  BY DEF ExitFine, UnitKept, Clean, CacheList

\* A running thread may do what it wants with its own units.
LEMMA ExitRunning ==
  ASSUME ExitInv, NEW t \in Thread, phase[t] = "run",
         UNCHANGED <<phase, cleanIdx, lock>>,
         \A u \in Thread \ {t}, c \in Class : UnitKept(u, c)
  PROVE  ExitInv'
<1>1. ASSUME NEW u \in Thread \ {t} PROVE ExitFine(u)'
  BY <1>1, ExitParts, ExitOthers
<1>2. ExitFine(t)'
  <2>1. cleanIdx[t] = 1 /\ \A c \in Class : lock[c] # t
    BY DEF ExitInv
  <2>2. \A c \in Class : ~ (c < 1)
    BY DEF Class
  <2> QED BY <2>1, <2>2 DEF ExitFine
<1> QED BY <1>1, <1>2, ExitPartsNext

\* A step that leaves the units alone.
LEMMA ExitUntouched ==
  ASSUME ExitInv, UNCHANGED <<phase, cleanIdx, lock>>,
         \A u \in Thread, c \in Class : UnitKept(u, c)
  PROVE  ExitInv'
<1>1. ASSUME NEW u \in Thread PROVE ExitFine(u)'
  BY <1>1, ExitParts, ExitOthers
<1> QED BY <1>1, ExitPartsNext

LEMMA ExitInit == Init => ExitInv
<1> SUFFICES ASSUME Init PROVE ExitInv
  OBVIOUS
<1>1. /\ phase = [t \in Thread |-> "run"] /\ cleanIdx = [t \in Thread |-> 1]
      /\ lock = [c \in Class |-> Null]
  BY DEF Init
<1>2. \A c \in Class : ~ (c < 1)
  BY DEF Class
<1> QED BY <1>1, <1>2, ConstantAssumption DEF ExitInv

LEMMA ExitAlloc ==
  ASSUME CountsInv, PagesInv, ExitInv, NEW t \in Thread, NEW c \in Class, NEW a \in Align,
         Alloc(t, c, a)
  PROVE  ExitInv'
<1>1. chain \in [ListHead -> Seq(Object)] /\ bump \in [Thread \X Class -> Run]
  BY UnitTypes
<1>2. ASSUME NEW s, NEW r, NEW g, g = PageHead(1) \/ \E p \in Page : g = PageHead(p),
             NEW q,
             \/ chain' = [chain EXCEPT ![CacheHead(t, c)] = s]
             \/ chain' = [chain EXCEPT ![CacheHead(t, c)] = s, ![g] = q],
             \/ bump' = bump
             \/ bump' = [bump EXCEPT ![<<t, c>>] = r],
             NEW u \in Thread \ {t}, NEW d \in Class
      PROVE  UnitKept(u, d)
  <2>1. CacheHead(u, d) # CacheHead(t, c) /\ CacheHead(u, d) \in ListHead
    BY Heads
  <2>2. CacheHead(u, d) # g
    BY <1>2 DEF CacheHead, PageHead
  <2>3. chain'[CacheHead(u, d)] = chain[CacheHead(u, d)]
    BY <2>1, <2>2, <1>1, <1>2
  <2>4. bump'[<<u, d>>] = bump[<<u, d>>]
    BY <1>1, <1>2
  <2> QED BY <2>3, <2>4 DEF UnitKept
<1>3. ASSUME NEW p \in Page, NEW b, NEW used, AllocateAll(t, c, p, b, used),
             NEW u \in Thread \ {t}, NEW d \in Class
      PROVE  UnitKept(u, d)
  <2>1. \E s, q : chain' = [chain EXCEPT ![CacheHead(t, c)] = s, ![PageHead(p)] = q]
    BY <1>3 DEF AllocateAll
  <2>2. \E r : bump' = [bump EXCEPT ![<<t, c>>] = r]
    BY <1>3 DEF AllocateAll
  <2> QED BY <2>1, <2>2, <1>2
<1>4. CASE AllocFromList(t, c, a) \/ AllocFromBump(t, c, a)
  <2>1. phase[t] = "run" /\ UNCHANGED <<phase, cleanIdx, lock>>
    BY <1>4 DEF AllocFromList, AllocFromBump
  <2>2. \E s : chain' = [chain EXCEPT ![CacheHead(t, c)] = s]
    BY <1>4 DEF AllocFromList, AllocFromBump
  <2>3. bump' = bump \/ \E r : bump' = [bump EXCEPT ![<<t, c>>] = r]
    BY <1>4 DEF AllocFromList, AllocFromBump
  <2>4. \A u \in Thread \ {t}, d \in Class : UnitKept(u, d)
    BY <2>2, <2>3, <1>2
  <2> QED BY <2>1, <2>4, ExitRunning
<1>5. CASE AllocFromPartial(t, c, a) \/ AllocFromEmpty(t, c, a) \/ AllocFromFresh(t, c, a)
  <2>1. phase[t] = "run" /\ UNCHANGED <<phase, cleanIdx, lock>>
    BY <1>5 DEF AllocFromPartial, AllocFromEmpty, AllocFromFresh, NeedsRefill
  <2>2. \E p \in Page : \E b, used : AllocateAll(t, c, p, b, used)
    <3>1. CASE AllocFromPartial(t, c, a)
      <4>1. Head(ring[<<c, "partial">>]) \in Page
        BY <3>1, HeadPage, RingNames DEF AllocFromPartial
      <4> QED BY <3>1, <4>1 DEF AllocFromPartial
    <3>2. CASE AllocFromEmpty(t, c, a)
      <4>1. Head(ring[<<c, "empty">>]) \in Page
        BY <3>2, HeadPage, RingNames DEF AllocFromEmpty
      <4> QED BY <3>2, <4>1 DEF AllocFromEmpty
    <3>3. CASE AllocFromFresh(t, c, a)
      <4> DEFINE p == IF ring[<<c, "uninit">>] # <<>> THEN Head(ring[<<c, "uninit">>])
                      ELSE pgBump + 1
      <4>1. p <= MaxPages /\ \E b : AllocateAll(t, c, p, b, 0)
        BY <3>3 DEF AllocFromFresh
      <4>2. p \in Page
        <5>1. CASE ring[<<c, "uninit">>] # <<>>
          BY <5>1, HeadPage, RingNames
        <5>2. CASE ring[<<c, "uninit">>] = <<>>
          <6>1. pgBump \in Nat /\ MaxPages \in Nat
            BY ConstantAssumption DEF PagesInv, PagesTypeOK
          <6> QED BY <5>2, <6>1, <4>1 DEF Page
        <5> QED BY <5>1, <5>2
      <4> HIDE DEF p
      <4> QED BY <4>1, <4>2
    <3> QED BY <1>5, <3>1, <3>2, <3>3
  <2>3. \A u \in Thread \ {t}, d \in Class : UnitKept(u, d)
    BY <2>2, <1>3
  <2> QED BY <2>1, <2>3, ExitRunning
<1> QED BY <1>4, <1>5 DEF Alloc

LEMMA ExitDealloc ==
  ASSUME CountsInv, ExitInv, NEW t \in Thread, NEW o \in live, Dealloc(t, o)
  PROVE  ExitInv'
<1>1. o[1] \in Class
  BY ObjectFields DEF CountsInv, TypeOK
<1>2. chain \in [ListHead -> Seq(Object)]
  BY <1>1, UnitTypes
<1>3. /\ chain' = [chain EXCEPT ![CacheHead(t, o[1])] = <<o>> \o @]
      /\ phase[t] = "run" /\ UNCHANGED <<bump, phase, cleanIdx, lock>>
  BY DEF Dealloc
<1>4. ASSUME NEW u \in Thread \ {t}, NEW d \in Class PROVE UnitKept(u, d)
  <2>1. CacheHead(u, d) # CacheHead(t, o[1]) /\ CacheHead(u, d) \in ListHead
    BY <1>1, Heads
  <2> QED BY <2>1, <1>2, <1>3 DEF UnitKept
<1> QED BY <1>3, <1>4, ExitRunning

\* clean_up: the unit is empty, whether the thread goes on or takes the lock.
LEMMA ExitCleanUp ==
  ASSUME CountsInv, PagesInv, ExitInv, NEW t \in Thread, NEW c \in Class, CleanUp(t, c)
  PROVE  ExitInv'
<1> DEFINE u == <<t, c>>
<1>1. /\ phase[t] = "exit" /\ cleanIdx[t] = c /\ phase' = phase
      /\ \A d \in Class : lock[d] # t
      /\ bump' = [bump EXCEPT ![u] = NoBump]
  BY DEF CleanUp
<1>2. /\ chain \in [ListHead -> Seq(Object)] /\ bump \in [Thread \X Class -> Run]
      /\ lock \in [Class -> Thread \cup {Null}] /\ cleanIdx \in [Thread -> 1 .. NClass + 1]
      /\ NClass \in Nat /\ Null \notin Thread
  BY UnitTypes, ConstantAssumption DEF PagesInv, PagesTypeOK, CountsInv, TypeOK
<1>3. CASE /\ length[u] + bump[u].count = 0
           /\ cleanIdx' = [cleanIdx EXCEPT ![t] = c + 1] /\ UNCHANGED <<lock, chain>>
  <2>1. CacheList(t, c) = <<>>
    <3>1. CacheList(t, c) \in Seq(Object) /\ length[u] = Len(CacheList(t, c)) /\ length[u] = 0
      BY <1>3, UnitTypes
    <3> QED BY <3>1, EmptySeq
  <2>2. Clean(t, c)'
    BY <2>1, <1>1, <1>2, <1>3 DEF Clean, CacheList, NoBump
  <2>3. ASSUME NEW v \in Thread, NEW d \in Class, <<v, d>> # u PROVE UnitKept(v, d)
    BY <2>3, <1>1, <1>2, <1>3 DEF UnitKept
  <2>4. ASSUME NEW v \in Thread \ {t} PROVE ExitFine(v)'
    <3>1. cleanIdx'[v] = cleanIdx[v]
      BY <1>2, <1>3
    <3> QED BY <3>1, <2>3, <1>1, <1>3, ExitParts, ExitOthers
  <2>5. ExitFine(t)'
    <3>1. cleanIdx'[t] = c + 1
      BY <1>2, <1>3
    <3>2. ASSUME NEW d \in Class, d < c + 1 PROVE Clean(t, d)'
      <4>1. CASE d = c
        BY <4>1, <2>2
      <4>2. CASE d # c
        <5>1. d < cleanIdx[t]
          BY <4>2, <3>2, <1>1 DEF Class
        <5>2. Clean(t, d) /\ UnitKept(t, d)
          BY <5>1, <4>2, <2>3 DEF ExitInv
        <5> QED BY <5>2 DEF Clean, UnitKept, CacheList
      <4> QED BY <4>1, <4>2
    <3> QED BY <3>1, <3>2, <1>1, <1>3 DEF ExitFine
  <2> QED BY <2>4, <2>5, ExitPartsNext
<1>4. CASE /\ lock' = [lock EXCEPT ![c] = t] /\ lock[c] = Null /\ cleanIdx' = cleanIdx
           /\ chain' = [chain EXCEPT ![CacheHead(t, c)] = <<>>,
                                     ![BatchHead(t)] = PushBump(t, c, bump[u].count)]
  <2>1. /\ CacheHead(t, c) \in ListHead
        /\ CacheHead(t, c) # BatchHead(t)
    BY Heads
  <2>2. Clean(t, c)'
    BY <2>1, <1>1, <1>2, <1>4 DEF Clean, CacheList, NoBump
  <2>3. ASSUME NEW v \in Thread, NEW d \in Class, <<v, d>> # u PROVE UnitKept(v, d)
    <3>1. /\ CacheHead(v, d) # CacheHead(t, c) /\ CacheHead(v, d) # BatchHead(t)
          /\ CacheHead(v, d) \in ListHead
      BY <2>3, Heads
    <3> QED BY <3>1, <2>3, <1>1, <1>2, <1>4 DEF UnitKept
  <2>4. ASSUME NEW v \in Thread \ {t} PROVE ExitFine(v)'
    <3>1. \A d \in Class : lock'[d] = v <=> lock[d] = v
      BY <1>2, <1>4
    <3> QED BY <3>1, <2>3, <1>1, <1>4, ExitParts, ExitOthers
  <2>5. ExitFine(t)'
    <3>1. ASSUME NEW d \in Class, lock'[d] = t PROVE d = c
      BY <3>1, <1>1, <1>2, <1>4
    <3>2. ASSUME NEW d \in Class, d < c PROVE Clean(t, d)'
      <4>1. Clean(t, d) /\ d # c
        BY <3>2, <1>1 DEF ExitInv, Class
      <4>2. UnitKept(t, d)
        BY <4>1, <2>3
      <4> QED BY <4>1, <4>2 DEF Clean, UnitKept, CacheList
    <3> QED BY <3>1, <3>2, <2>2, <1>1, <1>4 DEF ExitFine
  <2> QED BY <2>4, <2>5, ExitPartsNext
<1> QED BY <1>3, <1>4 DEF CleanUp

\* The steps of a flush leave the units alone.
LEMMA ExitFlush ==
  ASSUME CountsInv, PagesInv, ExitInv, NEW t \in Thread, NEW c \in Class,
         \/ \E n : DeallocateRun(t, c, n)
         \/ DestroyPage(t, c)
  PROVE  ExitInv'
<1>1. chain \in [ListHead -> Seq(Object)]
  BY UnitTypes
<1>2. UNCHANGED <<bump, phase, cleanIdx, lock>>
  BY DEF DeallocateRun, DestroyPage, HandleRdTreeRemove, InsertUninit, cacheVars
<1>3. ASSUME NEW d \in Class, NEW u \in Thread
      PROVE  chain'[CacheHead(u, d)] = chain[CacheHead(u, d)]
  <2>1. /\ CacheHead(u, d) \in ListHead /\ CacheHead(u, d) # BatchHead(t)
        /\ \A p : CacheHead(u, d) # PageHead(p)
    BY Heads DEF CacheHead, PageHead
  <2>2. CASE \E n : DeallocateRun(t, c, n)
    <3>1. PICK n : DeallocateRun(t, c, n)
      BY <2>2
    <3>2. \E p, q, r : chain' = [chain EXCEPT ![BatchHead(t)] = q, ![PageHead(p)] = r]
      BY <3>1 DEF DeallocateRun
    <3> QED BY <3>2, <2>1, <1>1
  <2>3. CASE HandleRdTreeRemove(t, c)
    BY <2>3 DEF HandleRdTreeRemove, cacheVars
  <2>4. CASE InsertUninit(t, c)
    <3>1. \E p : chain' = [chain EXCEPT ![PageHead(p)] = <<>>]
      BY <2>4 DEF InsertUninit
    <3> QED BY <3>1, <2>1, <1>1
  <2> QED BY <2>2, <2>3, <2>4 DEF DestroyPage
<1> QED BY <1>2, <1>3, ExitUntouched DEF UnitKept

\* The lock is released and the thread goes on to the next class.
LEMMA ExitEndBatch ==
  ASSUME CountsInv, PagesInv, ExitInv, NEW t \in Thread, NEW c \in Class, EndBatch(t, c)
  PROVE  ExitInv'
<1>1. /\ lock[c] = t /\ lock' = [lock EXCEPT ![c] = Null]
      /\ cleanIdx' = [cleanIdx EXCEPT ![t] = c + 1]
      /\ UNCHANGED <<chain, bump, phase>>
  BY DEF EndBatch, cacheVars
<1>2. /\ lock \in [Class -> Thread \cup {Null}] /\ cleanIdx \in [Thread -> 1 .. NClass + 1]
      /\ Null \notin Thread
  BY ConstantAssumption DEF PagesInv, PagesTypeOK, CountsInv, TypeOK
<1>3. \A u \in Thread, d \in Class : UnitKept(u, d) /\ (Clean(u, d)' <=> Clean(u, d))
  BY <1>1 DEF UnitKept, Clean, CacheList
<1>4. ASSUME NEW v \in Thread \ {t} PROVE ExitFine(v)'
  <2>1. /\ cleanIdx'[v] = cleanIdx[v] /\ phase'[v] = phase[v]
        /\ \A d \in Class : lock'[d] = v <=> lock[d] = v
    BY <1>1, <1>2
  <2> QED BY <2>1, <1>3, ExitParts, ExitOthers
<1>5. ExitFine(t)'
  <2>1. phase[t] = "exit" /\ cleanIdx[t] = c /\ Clean(t, c)
    BY <1>1 DEF ExitInv
  <2>2. \A d \in Class : lock'[d] # t
    BY <1>1, <1>2 DEF ExitInv
  <2>3. cleanIdx'[t] = c + 1
    BY <1>1, <1>2
  <2>4. ASSUME NEW d \in Class, d < c + 1 PROVE Clean(t, d)
    <3>1. d = c \/ d < cleanIdx[t]
      BY <2>4, <2>1 DEF Class
    <3> QED BY <3>1, <2>1 DEF ExitInv
  <2> QED BY <2>1, <2>2, <2>3, <2>4, <1>1, <1>3 DEF ExitFine
<1> QED BY <1>4, <1>5, ExitPartsNext

\* A thread starts to exit, or is done.
LEMMA ExitPhase ==
  ASSUME CountsInv, ExitInv, NEW t \in Thread, Exit(t) \/ Die(t)
  PROVE  ExitInv'
<1>1. /\ UNCHANGED <<chain, bump, cleanIdx, lock>>
      /\ \/ phase[t] = "run" /\ phase' = [phase EXCEPT ![t] = "exit"]
         \/ /\ phase[t] = "exit" /\ cleanIdx[t] = NClass + 1
            /\ phase' = [phase EXCEPT ![t] = "dead"]
  BY DEF Exit, Die, cacheVars
<1>2. /\ phase \in [Thread -> {"run", "exit", "dead"}] /\ NClass \in Nat
  BY ConstantAssumption DEF CountsInv, TypeOK
<1>3. \A u \in Thread, d \in Class : UnitKept(u, d) /\ (Clean(u, d)' <=> Clean(u, d))
  BY <1>1 DEF UnitKept, Clean, CacheList
<1>4. ASSUME NEW v \in Thread \ {t} PROVE ExitFine(v)'
  <2>1. phase'[v] = phase[v]
    BY <1>1, <1>2
  <2> QED BY <2>1, <1>1, <1>3, ExitParts, ExitOthers
<1>5. ExitFine(t)'
  <2>1. \A c \in Class : lock[c] = t => phase[t] = "exit" /\ cleanIdx[t] = c
    BY DEF ExitInv
  <2>2. \A c \in Class : c # NClass + 1
    BY <1>2 DEF Class
  <2>3. \A c \in Class : lock[c] # t
    BY <1>1, <2>1, <2>2
  <2>4. phase'[t] = "exit" \/ (phase'[t] = "dead" /\ cleanIdx[t] = NClass + 1)
    BY <1>1, <1>2
  <2>5. \A c \in Class : c < cleanIdx[t] => Clean(t, c)
    BY DEF ExitInv
  <2> QED BY <2>3, <2>4, <2>5, <1>1, <1>3 DEF ExitFine
<1> QED BY <1>4, <1>5, ExitPartsNext

\* Every step keeps ExitInv.
LEMMA ExitNext ==
  ASSUME CountsInv, PagesInv, ExitInv, [Next]_vars
  PROVE  ExitInv'
<1>1. ASSUME NEW t \in Thread, \E b \in Block : AllocLarge(t, b) \/ DeallocLarge(t, b)
      PROVE  ExitInv'
  BY <1>1, ExitUntouched DEF AllocLarge, DeallocLarge, cacheVars, UnitKept
<1>2. CASE UNCHANGED vars
  BY <1>2, ExitUntouched DEF vars, UnitKept
<1>3. ASSUME NEW t \in Thread, Flush(t)
      PROVE  ExitInv'
  BY <1>3, ExitCleanUp, ExitFlush, ExitEndBatch, ExitPhase DEF Flush
<1>4. ASSUME NEW t \in Thread, NEW c \in Class, NEW a \in Align, Alloc(t, c, a)
      PROVE  ExitInv'
  BY <1>4, ExitAlloc
<1>5. ASSUME NEW t \in Thread, NEW o \in live, Dealloc(t, o)
      PROVE  ExitInv'
  BY <1>5, ExitDealloc
<1>6. ASSUME NEW t \in Thread, Exit(t)
      PROVE  ExitInv'
  BY <1>6, ExitPhase
<1> QED BY <1>1, <1>2, <1>3, <1>4, <1>5, <1>6 DEF Next, Finished

-----------------------------------------------------------------------------
(***************************************************************************)
(* The objects of a block.                                                 *)
(***************************************************************************)
\* The objects of a block are a slice of it, as many as the class has slots.
LEMMA BlockObjects ==
  ASSUME NEW c \in Class, NEW b
  PROVE  /\ Objects(c, b) = {<<c, b, 0>>} \cup Slice(c, b, 1, PgCount[c] - 1)
         /\ <<c, b, 0>> \notin Slice(c, b, 1, PgCount[c] - 1)
         /\ <<c, b, 0>> \in Objects(c, b)
         /\ IsFiniteSet(Objects(c, b)) /\ Cardinality(Objects(c, b)) = PgCount[c]
<1> DEFINE n == PgCount[c]
           f == [i \in Slots(c) |-> <<c, b, i>>]
<1>1. n \in Nat /\ n > 0 /\ Slots(c) = 0 .. n - 1
  BY Counts
<1>2. ASSUME NEW i \in Slots(c)
      PROVE  <<c, b, i>> \in {<<c, b, 0>>} \cup Slice(c, b, 1, n - 1)
  <2>1. CASE i = 0
    BY <2>1
  <2>2. CASE i # 0
    <3>1. i - 1 \in 0 .. n - 1 - 1 /\ 1 + (i - 1) = i
      BY <2>2, <1>1
    <3>2. <<c, b, 1 + (i - 1)>> \in Slice(c, b, 1, n - 1)
      BY <3>1 DEF Slice
    <3> QED BY <3>1, <3>2
  <2> QED BY <2>1, <2>2
<1>3. ASSUME NEW j \in 0 .. n - 1 - 1
      PROVE  <<c, b, 1 + j>> \in Objects(c, b) /\ <<c, b, 1 + j>> # <<c, b, 0>>
  BY <1>1 DEF Objects
<1>4. <<c, b, 0>> \in Objects(c, b)
  BY <1>1 DEF Objects
<1>5. Slice(c, b, 1, n - 1) \subseteq Objects(c, b) /\ <<c, b, 0>> \notin Slice(c, b, 1, n - 1)
  BY <1>3 DEF Slice
<1>6. Objects(c, b) \subseteq {<<c, b, 0>>} \cup Slice(c, b, 1, n - 1)
  BY <1>2 DEF Objects
<1>7. f \in Bijection(Slots(c), Objects(c, b))
  BY DEF Bijection, Injection, Surjection, IsInjective, Objects
<1>8. ExistsBijection(Slots(c), Objects(c, b))
  BY <1>7 DEF ExistsBijection
<1>9. IsFiniteSet(Slots(c)) /\ Cardinality(Slots(c)) = n
  BY <1>1, FS_Interval
<1>10. IsFiniteSet(Objects(c, b)) /\ Cardinality(Objects(c, b)) = n
  BY <1>8, <1>9, FS_Bijection
<1> QED BY <1>4, <1>5, <1>6, <1>10

\* What is held is there.
LEMMA HeldOwned ==
  ASSUME PlacesInv, NEW x \in Spot, NEW o \in Held[x]
  PROVE  o \in Object /\ o[1] \in Class /\ \E p \in InitedPages(o[1]) : data[p] = o[2]
<1>1. o \in All(Held)
  BY DEF All
<1>2. o \in Object /\ Owned(o)
  BY <1>1 DEF PlacesInv
<1> QED BY <1>2, ObjectFields DEF Owned

\* Two objects of one block are of the same class.
LEMMA SameBlock ==
  ASSUME PagesInv, ExitInv, NEW c \in Class, NEW d \in Class,
         NEW p \in InitedPages(c), NEW o, Owned(o), o[1] = d, o[2] = data[p]
  PROVE  c = d
  BY OwnerUnique DEF Owned

\* The list of a page has objects of its block only.
LEMMA PageListIn ==
  ASSUME PagesInv, CountsInv, ExitInv, PlacesInv, NEW c \in Class, NEW p \in InitedPages(c)
  PROVE  /\ chain[PageHead(p)] \in Seq(Objects(c, data[p]))
         /\ IsInjective(chain[PageHead(p)])
         /\ \A o \in Range(chain[PageHead(p)]) : o \in Objects(c, data[p]) /\ o[1] = c
<1> DEFINE l == chain[PageHead(p)]
<1>1. p \in Page /\ data[p] \in Block
  BY InitedFacts
<1>2. PageHead(p) \in ListHead /\ PageHead(p) \in Spot /\ l \in Seq(Object)
  BY <1>1, PageHeads, Spots DEF CountsInv, TypeOK
<1>3. ASSUME NEW o \in Range(l) PROVE o \in Objects(c, data[p]) /\ o[1] = c
  <2>1. o \in Held[PageHead(p)]
    BY <1>2, HeldIs DEF HeldParts
  <2>2. o \in Object /\ o[1] \in Class /\ Owned(o)
    BY <1>2, <2>1, HeldOwned DEF Owned
  <2>3. o[2] = data[p]
    BY <1>1 DEF PlacesInv, ListsInv
  <2>4. o[1] = c
    BY <2>2, <2>3, SameBlock
  <2>5. PICK d \in Class, b \in Block : o \in Objects(d, b)
    BY <2>2 DEF Object
  <2>6. d = c /\ b = data[p]
    BY <2>3, <2>4, <2>5 DEF Objects
  <2> QED BY <2>4, <2>5, <2>6
<1>4. \A i \in 1 .. Len(l) : l[i] \in Objects(c, data[p])
  BY <1>2, <1>3, InRange
<1>5. l \in Seq(Objects(c, data[p]))
  BY <1>2, <1>4
<1>6. IsInjective(l)
  BY <1>2 DEF PlacesInv, ListsInv
<1> QED BY <1>3, <1>5, <1>6

\* A page with a full list has all the objects of its block.
LEMMA PageFull ==
  ASSUME PagesInv, CountsInv, ExitInv, PlacesInv, NEW c \in Class, NEW p \in InitedPages(c),
         Len(chain[PageHead(p)]) = PgCount[c]
  PROVE  Held[PageHead(p)] = Objects(c, data[p])
<1>1. p \in Page
  BY InitedFacts
<1>2. /\ chain[PageHead(p)] \in Seq(Objects(c, data[p])) /\ IsInjective(chain[PageHead(p)])
  BY PageListIn
<1>3. /\ IsFiniteSet(Objects(c, data[p]))
      /\ Cardinality(Objects(c, data[p])) = PgCount[c]
  BY BlockObjects
<1>4. Range(chain[PageHead(p)]) = Objects(c, data[p])
  BY <1>2, <1>3, FullListHasAll
<1> QED BY <1>1, <1>4, PageHeads, HeldIs DEF HeldParts

-----------------------------------------------------------------------------
(***************************************************************************)
(* What the invariant asks of a step.                                      *)
(***************************************************************************)
\* ListsInv after a step that changes the lists of the heads G.
LEMMA ListsFrom ==
  ASSUME ListsInv, NEW G, \A h \in ListHead \ G : chain'[h] = chain[h],
         \A h \in ListHead \cap G : IsInjective(chain'[h]),
         \A t \in Thread, c \in Class : CacheHead(t, c) \in G =>
           \A o \in Range(chain'[CacheHead(t, c)]) : o[1] = c,
         \A t \in Thread : \A o \in Range(chain'[BatchHead(t)]) : lock'[o[1]] = t,
         \A p \in Page : \A o \in Range(chain'[PageHead(p)]) : o[2] = data'[p],
         \A p \in Page : p > pgBump' => chain'[PageHead(p)] = <<>>
  PROVE  ListsInv'
<1>1. \A h \in ListHead : IsInjective(chain'[h])
  BY DEF ListsInv
<1>2. \A t \in Thread, c \in Class : CacheHead(t, c) \in ListHead
  BY Heads
<1>3. \A t \in Thread, c \in Class : \A o \in Range(chain'[CacheHead(t, c)]) : o[1] = c
  BY <1>2 DEF ListsInv, CacheList
<1> QED BY <1>1, <1>3 DEF ListsInv, CacheList

\* ListsInv after a step that changes the list of one unit and empties that of
\* page q, if there is such a page.
LEMMA ListsUnit ==
  ASSUME ListsInv, PagesInv, PagesInv', NEW t \in Thread, NEW c \in Class, NEW q,
         \A h \in ListHead : h # CacheHead(t, c) /\ h # PageHead(q) => chain'[h] = chain[h],
         IsInjective(chain'[CacheHead(t, c)]),
         \A o \in Range(chain'[CacheHead(t, c)]) : o[1] = c,
         q \in Page => chain'[PageHead(q)] = <<>>,
         \A p \in Page : p # q => data'[p] = data[p], pgBump <= pgBump', lock' = lock
  PROVE  ListsInv'
<1> DEFINE G == {CacheHead(t, c), PageHead(q)}
<1>0. IsInjective(<<>>) /\ Range(<<>>) = {}
  BY DEF IsInjective, Range
<1>1. \A h \in ListHead \ G : chain'[h] = chain[h]
  OBVIOUS
<1>2. ASSUME NEW h \in ListHead \cap G PROVE IsInjective(chain'[h])
  <2>1. h = PageHead(q) => q \in Page
    BY DEF ListHead, PageHead, CacheHead, BatchHead
  <2> QED BY <2>1, <1>0, <1>2
<1>3. ASSUME NEW u \in Thread, NEW d \in Class, CacheHead(u, d) \in G
      PROVE  u = t /\ d = c
  <2>1. CacheHead(u, d) # PageHead(q)
    BY DEF CacheHead, PageHead
  <2> QED BY <1>3, <2>1, Heads
<1>4. ASSUME NEW u \in Thread, NEW o \in Range(chain'[BatchHead(u)])
      PROVE  lock'[o[1]] = u
  <2>1. BatchHead(u) \in ListHead /\ BatchHead(u) # CacheHead(t, c)
    BY Heads
  <2>2. BatchHead(u) # PageHead(q)
    BY DEF BatchHead, PageHead
  <2>3. chain'[BatchHead(u)] = chain[BatchHead(u)]
    BY <2>1, <2>2, <1>1
  <2> QED BY <2>3 DEF ListsInv
<1>5. ASSUME NEW p \in Page
      PROVE  /\ \A o \in Range(chain'[PageHead(p)]) : o[2] = data'[p]
             /\ p > pgBump' => chain'[PageHead(p)] = <<>>
  <2>1. CASE p = q
    BY <2>1, <1>0
  <2>2. CASE p # q
    <3>1. PageHead(p) \in ListHead /\ PageHead(p) \notin G
      BY <2>2, PageHeads DEF CacheHead, PageHead
    <3>2. chain'[PageHead(p)] = chain[PageHead(p)]
      BY <3>1, <1>1
    <3>3. p > pgBump' => p > pgBump
      BY DEF PagesInv, PagesTypeOK, Page
    <3> QED BY <2>2, <3>2, <3>3 DEF ListsInv
  <2> QED BY <2>1, <2>2
<1> HIDE DEF G
<1> QED BY <1>1, <1>2, <1>3, <1>4, <1>5, ListsFrom

\* The same when no page is touched.
LEMMA UnitListsKept ==
  ASSUME ListsInv, PagesInv, PagesInv', NEW t \in Thread, NEW c \in Class,
         \A h \in ListHead \ {CacheHead(t, c)} : chain'[h] = chain[h],
         IsInjective(chain'[CacheHead(t, c)]),
         \A o \in Range(chain'[CacheHead(t, c)]) : o[1] = c,
         UNCHANGED <<data, pgBump, lock>>
  PROVE  ListsInv'
<1>1. 0 \notin Page /\ pgBump <= pgBump'
  BY DEF Page, PagesInv, PagesTypeOK
<1> QED BY <1>1, ListsUnit

\* A page that is being destroyed is left alone.
LEMMA VictimsKept ==
  ASSUME VictimsFull, UNCHANGED <<victim, lock>>,
         \A t \in Thread : victim[t] # 0 => chain'[PageHead(victim[t])] = chain[PageHead(victim[t])]
  PROVE  VictimsFull'
  BY DEF VictimsFull

\* The objects that exist are held, by the same pages as before.
LEMMA PlacesFrom ==
  ASSUME PlacesInv, Apart(Held'), All(Held') = All(Held),
         \A d \in Class : InitedPages(d)' = InitedPages(d), data' = data,
         ListsInv', VictimsFull'
  PROVE  PlacesInv'
<1>1. \A o \in Object : Owned(o)' <=> Owned(o)
  BY SameOwned
<1>2. \A o : o \in All(Held') <=> o \in Object /\ Owned(o)'
  BY <1>1 DEF PlacesInv
<1>3. Apart(Held)' /\ All(Held)' = All(Held')
  BY DEF Apart, All
<1> QED BY <1>2, <1>3 DEF PlacesInv

LEMMA SamePages ==
  ASSUME UNCHANGED <<ring, victim, lock>>
  PROVE  \A d \in Class : InitedPages(d)' = InitedPages(d)
  BY DEF InitedPages

-----------------------------------------------------------------------------
(***************************************************************************)
(* The steps of the program.                                               *)
(***************************************************************************)
LEMMA PlacesInit == Init => PlacesInv
<1> SUFFICES ASSUME Init PROVE PlacesInv
  OBVIOUS
<1>1. /\ live = {} /\ chain = [h \in ListHead |-> <<>>]
      /\ bump = [u \in Thread \X Class |-> NoBump]
      /\ lock = [c \in Class |-> Null] /\ ring = [r \in Class \X Kind |-> <<>>]
      /\ victim = [t \in Thread |-> 0]
  BY DEF Init
<1>2. IsInjective(<<>>) /\ Range(<<>>) = {}
  BY DEF IsInjective, Range
<1>3. \A x \in Spot : Held[x] = {}
  <2>1. \A h \in ListHead : Held[h] = {}
    BY <1>1, <1>2, HeldIs DEF HeldParts
  <2>2. Held[LiveSpot] = {}
    BY <1>1, HeldIs DEF HeldParts
  <2>3. ASSUME NEW t \in Thread, NEW c \in Class PROVE Held[BumpSpot(t, c)] = {}
    BY <1>1, HeldIs, NoRunObjects DEF HeldParts
  <2> QED BY <2>1, <2>2, <2>3, Spots DEF BumpSpots
<1>4. ASSUME NEW c \in Class, NEW p \in InitedPages(c) PROVE FALSE
  <2>1. \A k \in Kind : ring[<<c, k>>] = <<>>
    BY <1>1
  <2>2. ~ OnRing(c, p)
    BY <2>1, <1>2 DEF OnRing
  <2>3. ~ BeingDestroyed(c, p)
    BY <1>1 DEF BeingDestroyed
  <2> QED BY <2>2, <2>3, Inited DEF InitedIs
<1>5. \A o \in Object : ~ Owned(o)
  BY <1>4, ObjectFields DEF Owned
<1>6. Apart(Held) /\ All(Held) = {}
  BY <1>3 DEF Apart, All, Disjoint
<1>7. ListsInv
  <2>1. \A h \in ListHead : IsInjective(chain[h]) /\ Range(chain[h]) = {} /\ chain[h] = <<>>
    BY <1>1, <1>2
  <2>2. \A t \in Thread : BatchHead(t) \in ListHead
    BY DEF ListHead
  <2> QED BY <2>1, <2>2, Heads, PageHeads DEF ListsInv, CacheList
<1>8. VictimsFull
  BY <1>1 DEF VictimsFull
<1> QED BY <1>5, <1>6, <1>7, <1>8 DEF PlacesInv

\* Where the heads of a unit are.
LEMMA UnitSpots ==
  ASSUME NEW t \in Thread, NEW c \in Class
  PROVE  /\ CacheHead(t, c) \in Spot /\ BatchHead(t) \in Spot
         /\ BumpSpot(t, c) \in Spot /\ LiveSpot \in Spot
         /\ CacheHead(t, c) \in ListHead /\ BatchHead(t) \in ListHead
         /\ CacheHead(t, c) # BatchHead(t)
         /\ CacheHead(t, c) # BumpSpot(t, c) /\ CacheHead(t, c) # LiveSpot
         /\ BatchHead(t) # BumpSpot(t, c) /\ BatchHead(t) # LiveSpot
         /\ BumpSpot(t, c) # LiveSpot
         /\ Held[CacheHead(t, c)] = Range(CacheList(t, c))
         /\ Held[BatchHead(t)] = Range(chain[BatchHead(t)])
         /\ Held[BumpSpot(t, c)] = RunObjects(bump[<<t, c>>], c)
         /\ Held[LiveSpot] = live
         /\ Held'[CacheHead(t, c)] = Range(chain'[CacheHead(t, c)])
         /\ Held'[BatchHead(t)] = Range(chain'[BatchHead(t)])
         /\ Held'[BumpSpot(t, c)] = RunObjects(bump'[<<t, c>>], c)
         /\ Held'[LiveSpot] = live'
<1>1. CacheHead(t, c) \in ListHead /\ BatchHead(t) \in ListHead /\ CacheHead(t, c) # BatchHead(t)
  BY Heads
<1> QED BY <1>1, Spots, HeldIs, HeldIsNext DEF HeldParts, CacheList

\* The spot of a page.
LEMMA PageSpots ==
  ASSUME NEW p \in Page
  PROVE  /\ PageHead(p) \in Spot /\ PageHead(p) \in ListHead /\ PageHead(p) # LiveSpot
         /\ \A t \in Thread, c \in Class : PageHead(p) # BumpSpot(t, c)
         /\ \A t \in Thread, c \in Class : PageHead(p) # CacheHead(t, c)
         /\ \A t \in Thread : PageHead(p) # BatchHead(t)
         /\ Held[PageHead(p)] = Range(chain[PageHead(p)])
         /\ Held'[PageHead(p)] = Range(chain'[PageHead(p)])
<1>1. PageHead(p) \in ListHead
  BY PageHeads
<1> QED BY <1>1, PageHeads, Spots, HeldIs, HeldIsNext DEF HeldParts

\* Case 1 of ThreadCacheUnit::allocate: one object goes from the list to the
\* program.
LEMMA PlacesAllocFromList ==
  ASSUME PagesInv, PagesInv', CountsInv, PlacesInv, NEW t \in Thread, NEW c \in Class,
         NEW a \in Align, AllocFromList(t, c, a)
  PROVE  PlacesInv'
<1> DEFINE l == CacheList(t, c)
           h == CacheHead(t, c)
<1>1. PICK i \in DOMAIN l : /\ chain' = [chain EXCEPT ![h] = RemoveAt(@, i)]
                            /\ live' = live \cup {l[i]}
  BY DEF AllocFromList
<1>2. UNCHANGED <<bump, lock, victim, ring, data, pgBump>>
  BY DEF AllocFromList, slabVars
<1>3. chain \in [ListHead -> Seq(Object)] /\ h \in ListHead /\ l = chain[h] /\ l \in Seq(Object)
  BY UnitTypes, Heads DEF CacheList
<1>4. IsInjective(l) /\ \A o \in Range(l) : o[1] = c
  BY <1>3 DEF PlacesInv, ListsInv
<1>5. i \in 1 .. Len(l) /\ l[i] \in Range(l)
  BY <1>3, InRange
<1>6. /\ chain'[h] = RemoveAt(l, i) /\ IsInjective(RemoveAt(l, i))
      /\ Range(RemoveAt(l, i)) = Range(l) \ {l[i]}
  BY <1>1, <1>3, <1>4, <1>5, RemoveAtElements
<1>7. \A g \in ListHead \ {h} : chain'[g] = chain[g]
  BY <1>1, <1>3
<1>8. Moved(Held, Held', h, LiveSpot, {l[i]})
  <2>1. Held[h] = Range(l) /\ Held'[h] = Range(l) \ {l[i]}
    BY <1>6, UnitSpots
  <2>2. Held[LiveSpot] = live /\ Held'[LiveSpot] = live \cup {l[i]}
    BY <1>1, UnitSpots
  <2>3. \A x \in Spot \ ({LiveSpot, BumpSpot(t, c)} \cup {h}) : Held'[x] = Held[x]
    BY <1>2, <1>7, HeldElsewhere
  <2>4. Held'[BumpSpot(t, c)] = Held[BumpSpot(t, c)]
    BY <1>2, UnitSpots
  <2> HIDE DEF l, h
  <2> QED BY <2>1, <2>2, <2>3, <2>4, <1>5 DEF Moved
<1>9. Apart(Held') /\ All(Held') = All(Held)
  BY <1>8, UnitSpots, Moving DEF PlacesInv
<1>10. ListsInv'
  <2> HIDE DEF l, h
  <2>1. IsInjective(chain'[h]) /\ \A o \in Range(chain'[h]) : o[1] = c
    BY <1>4, <1>6
  <2> QED BY <2>1, <1>2, <1>7, UnitListsKept DEF PlacesInv, h
<1>11. VictimsFull'
  <2>1. ASSUME NEW u \in Thread, victim[u] # 0
        PROVE  chain'[PageHead(victim[u])] = chain[PageHead(victim[u])]
    BY <2>1, <1>7, PageHeads DEF PagesInv, PagesTypeOK
  <2> QED BY <2>1, <1>2, VictimsKept DEF PlacesInv
<1> QED BY <1>2, <1>9, <1>10, <1>11, SamePages, PlacesFrom

\* A step that leaves the free lists of pages alone leaves the victims alone.
LEMMA VictimsUntouched ==
  ASSUME VictimsFull, PagesInv, UNCHANGED <<victim, lock>>,
         \A p \in Page : chain'[PageHead(p)] = chain[PageHead(p)]
  PROVE  VictimsFull'
<1>1. \A t \in Thread : victim[t] # 0 => victim[t] \in Page
  BY DEF PagesInv, PagesTypeOK
<1> QED BY <1>1, VictimsKept

\* Case 2: the objects passed over go from the run to the list, the next one to
\* the program.
LEMMA PlacesAllocFromBump ==
  ASSUME PagesInv, PagesInv', CountsInv, PlacesInv, NEW t \in Thread, NEW c \in Class,
         NEW a \in Align, AllocFromBump(t, c, a)
  PROVE  PlacesInv'
<1> DEFINE u == <<t, c>>
           h == CacheHead(t, c)
           r == bump[u]
<1>1. PICK k \in 0 .. r.count - 1 :
        /\ live' = live \cup {BumpObject(t, c, k)}
        /\ chain' = [chain EXCEPT ![h] = PushBump(t, c, k)]
        /\ bump' = [bump EXCEPT ![u] = BumpRun(@.blk, @.next + k + 1, @.count - k - 1)]
  BY DEF AllocFromBump
<1>2. UNCHANGED <<lock, victim, ring, data, pgBump>>
  BY DEF AllocFromBump, slabVars
<1>3. /\ chain \in [ListHead -> Seq(Object)] /\ h \in ListHead /\ r \in Run
      /\ bump \in [Thread \X Class -> Run] /\ r.count \in Nat
  BY UnitTypes, Heads
<1>4. k \in 0 .. r.count
  BY <1>3
<1>5. PICK first : first = Slice(c, r.blk, r.next, k)
  OBVIOUS
<1>6. PICK o : o = BumpObject(t, c, k)
  OBVIOUS
<1>7. /\ IsInjective(PushBump(t, c, k))
      /\ Range(PushBump(t, c, k)) = first \cup Range(CacheList(t, c))
  BY <1>4, <1>5, PushBumpElements
<1>8. /\ RunObjects(r, c) = first \cup {o} \cup RunObjects(bump'[u], c)
      /\ o \notin first /\ o \notin RunObjects(bump'[u], c)
      /\ Disjoint(first, RunObjects(bump'[u], c))
  <2>1. bump'[u] = BumpRun(r.blk, r.next + k + 1, r.count - k - 1)
    BY <1>1, <1>3
  <2>2. o = <<c, r.blk, r.next + k>>
    BY <1>6 DEF BumpObject
  <2> HIDE DEF r
  <2> QED BY <2>1, <2>2, <1>3, <1>5, RunSplit
<1>9. /\ chain'[h] = PushBump(t, c, k)
      /\ \A g \in ListHead \ {h} : chain'[g] = chain[g]
      /\ \A v \in Thread, d \in Class : v # t \/ d # c => bump'[<<v, d>>] = bump[<<v, d>>]
  BY <1>1, <1>3
<1> HIDE DEF r, h, u
<1>10. PICK f : Moved(Held, f, BumpSpot(t, c), h, first)
  <2>1. first \subseteq Held[BumpSpot(t, c)]
    BY <1>8, UnitSpots DEF r, u
  <2> QED BY <2>1, UnitSpots, CanMove DEF h
<1>11. Apart(f) /\ All(f) = All(Held)
  BY <1>10, UnitSpots, Moving DEF PlacesInv, h
<1>12. Moved(f, Held', BumpSpot(t, c), LiveSpot, {o})
  <2>1. f[BumpSpot(t, c)] = RunObjects(r, c) \ first
    BY <1>10, UnitSpots DEF Moved, r, u
  <2>2. Held'[BumpSpot(t, c)] = RunObjects(bump'[u], c)
    BY UnitSpots DEF u
  <2>3. o \in f[BumpSpot(t, c)] /\ Held'[BumpSpot(t, c)] = f[BumpSpot(t, c)] \ {o}
    BY <2>1, <2>2, <1>8 DEF Disjoint
  <2>4. f[LiveSpot] = live /\ Held'[LiveSpot] = live \cup {o}
    BY <1>1, <1>6, <1>10, UnitSpots DEF Moved, h
  <2>5. Held'[h] = f[h]
    BY <1>7, <1>9, <1>10, UnitSpots, ZenonT(40) DEF Moved, h
  <2>6. \A x \in Spot \ ({LiveSpot, BumpSpot(t, c)} \cup {h}) : Held'[x] = Held[x]
    BY <1>9, HeldElsewhere
  <2>7. \A x \in Spot \ {BumpSpot(t, c), LiveSpot} : Held'[x] = f[x]
    BY <2>5, <2>6, <1>10 DEF Moved
  <2> QED BY <2>3, <2>4, <2>7 DEF Moved
<1>13. Apart(Held') /\ All(Held') = All(Held)
  BY <1>11, <1>12, UnitSpots, Moving
<1>14. ListsInv'
  <2>1. \A x \in Range(CacheList(t, c)) : x[1] = c
    BY DEF PlacesInv, ListsInv
  <2>2. \A x \in first : x[1] = c
    BY <1>5 DEF Slice
  <2>3. IsInjective(chain'[h]) /\ \A x \in Range(chain'[h]) : x[1] = c
    BY <2>1, <2>2, <1>7, <1>9
  <2> QED BY <2>3, <1>2, <1>9, UnitListsKept DEF PlacesInv, h
<1>15. VictimsFull'
  BY <1>2, <1>9, PageHeads, VictimsUntouched DEF PlacesInv, h
<1> QED BY <1>2, <1>13, <1>14, <1>15, SamePages, PlacesFrom

\* A freed object goes from the program to the list of the freeing thread.
LEMMA PlacesDealloc ==
  ASSUME PagesInv, PagesInv', CountsInv, PlacesInv, NEW t \in Thread, NEW o \in live,
         Dealloc(t, o)
  PROVE  PlacesInv'
<1>1. o \in Object
  BY DEF CountsInv, TypeOK
<1>2. PICK c \in Class : c = o[1]
  BY <1>1, ObjectFields
<1> DEFINE l == CacheList(t, c)
           h == CacheHead(t, c)
<1>3. /\ live' = live \ {o} /\ chain' = [chain EXCEPT ![h] = <<o>> \o @]
      /\ UNCHANGED <<bump, lock, victim, ring, data, pgBump>>
  BY <1>2 DEF Dealloc, slabVars
<1>4. chain \in [ListHead -> Seq(Object)] /\ h \in ListHead /\ l = chain[h] /\ l \in Seq(Object)
  BY UnitTypes, Heads DEF CacheList
<1>5. IsInjective(l) /\ \A x \in Range(l) : x[1] = c
  BY <1>4 DEF PlacesInv, ListsInv
<1>6. Disjoint({o}, Range(l))
  <2>1. Held[LiveSpot] = live /\ Held[h] = Range(l) /\ LiveSpot # h /\ h \in Spot /\ LiveSpot \in Spot
    BY UnitSpots
  <2> QED BY <2>1 DEF PlacesInv, Apart, Disjoint
<1>7. <<o>> \in Seq(Object) /\ IsInjective(<<o>>) /\ Range(<<o>>) = {o}
  BY <1>1 DEF IsInjective, Range
<1>8. /\ chain'[h] = <<o>> \o l /\ IsInjective(<<o>> \o l)
      /\ Range(<<o>> \o l) = {o} \cup Range(l)
      /\ \A g \in ListHead \ {h} : chain'[g] = chain[g]
  <2>1. chain'[h] = <<o>> \o l /\ \A g \in ListHead \ {h} : chain'[g] = chain[g]
    BY <1>3, <1>4
  <2> HIDE DEF l, h
  <2>2. PICK s \in Seq(Object) : s = <<o>> /\ IsInjective(s) /\ Range(s) = {o}
    BY <1>7
  <2>3. Disjoint(Range(s), Range(l)) /\ l \in Seq(Object) /\ IsInjective(l)
    BY <2>2, <1>4, <1>5, <1>6
  <2>4. IsInjective(s \o l) /\ Range(s \o l) = Range(s) \cup Range(l)
    BY ONLY <2>2, <2>3, ConcatElements
  <2> QED BY <2>1, <2>2, <2>4
<1> HIDE DEF l, h
<1>9. Moved(Held, Held', LiveSpot, h, {o})
  <2>1. Held[h] = Range(l) /\ Held'[h] = Range(l) \cup {o}
    BY <1>8, UnitSpots DEF l, h
  <2>2. Held[LiveSpot] = live /\ Held'[LiveSpot] = live \ {o}
    BY <1>3, UnitSpots
  <2>3. \A x \in Spot \ ({LiveSpot, BumpSpot(t, c)} \cup {h}) : Held'[x] = Held[x]
    BY <1>3, <1>8, HeldElsewhere
  <2>4. Held'[BumpSpot(t, c)] = Held[BumpSpot(t, c)]
    BY <1>3, UnitSpots
  <2> QED BY <2>1, <2>2, <2>3, <2>4 DEF Moved
<1>10. Apart(Held') /\ All(Held') = All(Held)
  BY <1>9, UnitSpots, Moving DEF PlacesInv, h
<1>11. ListsInv'
  <2>1. IsInjective(chain'[h]) /\ \A x \in Range(chain'[h]) : x[1] = c
    BY <1>2, <1>5, <1>8
  <2> QED BY <2>1, <1>3, <1>8, UnitListsKept DEF PlacesInv, h
<1>12. VictimsFull'
  BY <1>3, <1>8, PageHeads, VictimsUntouched DEF PlacesInv, h
<1> QED BY <1>3, <1>10, <1>11, <1>12, SamePages, PlacesFrom

-----------------------------------------------------------------------------
(***************************************************************************)
(* The refills: allocate_all.                                              *)
(***************************************************************************)
\* A page whose list holds all the objects b has for class c is handed out
\* whole: the old run goes to the list, the first object to the program, the
\* others become the run.
LEMMA RefillWhole ==
  ASSUME CountsInv, PlacesInv, NEW t \in Thread, NEW c \in Class, NEW p \in Page,
         NEW b \in Block, AllocateAll(t, c, p, b, 0),
         NEW f, Apart(f), f[PageHead(p)] = Objects(c, b),
         \A z \in Spot \ {PageHead(p)} : f[z] = Held[z]
  PROVE  /\ Apart(Held') /\ All(Held') = All(f)
         /\ IsInjective(chain'[CacheHead(t, c)])
         /\ \A o \in Range(chain'[CacheHead(t, c)]) : o[1] = c
         /\ chain'[PageHead(p)] = <<>>
         /\ \A g \in ListHead : g # CacheHead(t, c) /\ g # PageHead(p) => chain'[g] = chain[g]
<1> DEFINE u == <<t, c>>
           h == CacheHead(t, c)
           q == PageHead(p)
           n == bump[u].count
           y == BumpSpot(t, c)
           o == <<c, b, 0>>
           rest == Slice(c, b, 1, PgCount[c] - 1)
           old == RunObjects(bump[u], c)
<1>1. /\ live' = live \cup {o}
      /\ bump' = [bump EXCEPT ![u] = BumpRun(b, 1, PgCount[c] - 1)]
      /\ chain' = [chain EXCEPT ![h] = PushBump(t, c, n), ![q] = <<>>]
  BY DEF AllocateAll
<1>2. /\ chain \in [ListHead -> Seq(Object)] /\ h \in ListHead /\ q \in ListHead /\ h # q
      /\ bump \in [Thread \X Class -> Run] /\ n \in Nat /\ n \in 0 .. n
  <2>1. h \in ListHead /\ q \in ListHead /\ h # q
    BY UnitSpots, PageSpots
  <2>2. n \in Nat
    BY UnitTypes
  <2>3. n \in 0 .. n
    BY <2>2
  <2>4. chain \in [ListHead -> Seq(Object)] /\ bump \in [Thread \X Class -> Run]
    BY UnitTypes
  <2> QED BY <2>1, <2>2, <2>3, <2>4
<1>3. /\ chain'[h] = PushBump(t, c, n) /\ chain'[q] = <<>>
      /\ \A g \in ListHead \ {h, q} : chain'[g] = chain[g]
      /\ bump'[u] = BumpRun(b, 1, PgCount[c] - 1)
      /\ \A v \in Thread, d \in Class : v # t \/ d # c => bump'[<<v, d>>] = bump[<<v, d>>]
  BY <1>1, <1>2
<1>4. IsInjective(chain'[h]) /\ Range(chain'[h]) = old \cup Range(CacheList(t, c))
  BY <1>2, <1>3, PushBumpElements DEF RunObjects
<1>5. Objects(c, b) = {o} \cup rest /\ o \notin rest
  BY BlockObjects
<1>6. RunObjects(bump'[u], c) = rest
  <2>1. 1 \in Nat /\ PgCount[c] - 1 \in Nat
    BY Counts
  <2> QED BY <2>1, <1>3, BumpRunObjects
<1>7. /\ Held[h] = Range(CacheList(t, c)) /\ Held[y] = old /\ Held[LiveSpot] = live
      /\ Held'[h] = Range(chain'[h]) /\ Held'[y] = rest /\ Held'[LiveSpot] = live \cup {o}
      /\ Held'[q] = {}
  <2>1. Range(<<>>) = {}
    BY DEF Range
  <2> QED BY <2>1, <1>1, <1>3, <1>6, UnitSpots, PageSpots
<1>8. /\ h \in Spot /\ q \in Spot /\ y \in Spot /\ LiveSpot \in Spot
      /\ h # q /\ h # y /\ h # LiveSpot /\ q # y /\ q # LiveSpot /\ y # LiveSpot
  BY UnitSpots, PageSpots
<1>9. \A z \in Spot \ {LiveSpot, y, h, q} : Held'[z] = Held[z]
  <2>1. \A g \in ListHead \ {h, q} : chain'[g] = chain[g]
    BY <1>3
  <2>2. \A z \in Spot \ ({LiveSpot, BumpSpot(t, c)} \cup {h, q}) : Held'[z] = Held[z]
    BY ONLY <2>1, <1>3, t \in Thread, c \in Class, HeldElsewhere
  <2> QED BY <2>2
<1>10. \A x \in Range(chain'[h]) : x[1] = c
  <2>1. \A x \in Range(CacheList(t, c)) : x[1] = c
    BY DEF PlacesInv, ListsInv
  <2>2. \A x \in old : x[1] = c
    BY DEF RunObjects, Slice
  <2> QED BY <2>1, <2>2, <1>4
<1> HIDE DEF u, h, q, n, y, o, rest, old
<1>11. PICK f1 : Moved(f, f1, y, h, old)
  <2>1. f[y] = old
    BY <1>7, <1>8 DEF q
  <2> QED BY <2>1, <1>8, CanMove
<1>12. PICK f2 : Moved(f1, f2, q, LiveSpot, {o})
  <2>1. f1[q] = Objects(c, b)
    BY <1>8, <1>11 DEF Moved, q
  <2> QED BY <2>1, <1>5, <1>8, CanMove
<1>13. Moved(f2, Held', q, y, rest)
  <2>1. f2[q] = rest
    BY <1>5, <1>8, <1>11, <1>12 DEF Moved, q
  <2>2. f2[y] = {}
    BY <1>7, <1>8, <1>11, <1>12 DEF Moved, q
  <2>3. f2[h] = Held'[h]
    BY <1>4, <1>7, <1>8, <1>11, <1>12 DEF Moved, q
  <2>4. f2[LiveSpot] = Held'[LiveSpot]
    BY <1>7, <1>8, <1>11, <1>12 DEF Moved, q
  <2>5. \A z \in Spot \ {LiveSpot, y, h, q} : Held'[z] = f2[z]
    BY <1>9, <1>11, <1>12 DEF Moved, q
  <2> QED BY <2>1, <2>2, <2>3, <2>4, <2>5, <1>7 DEF Moved
<1>14. Apart(f1) /\ All(f1) = All(f)
  BY <1>8, <1>11, Moving
<1>15. Apart(f2) /\ All(f2) = All(f)
  BY <1>8, <1>12, <1>14, Moving
<1>16. Apart(Held') /\ All(Held') = All(f)
  BY <1>8, <1>13, <1>15, Moving
<1> QED BY <1>3, <1>4, <1>10, <1>16 DEF h, q

\* A page in use is handed out as the chain of its free objects: the first one
\* goes to the program, the others to the list, which was empty.
LEMMA RefillChain ==
  ASSUME PagesInv, CountsInv, ExitInv, PlacesInv, NEW t \in Thread, NEW c \in Class,
         NEW p \in InitedPages(c), NEW b, NEW used, used # 0, AllocateAll(t, c, p, b, used),
         Len(chain[PageHead(p)]) > 0
  PROVE  /\ Apart(Held') /\ All(Held') = All(Held)
         /\ IsInjective(chain'[CacheHead(t, c)])
         /\ \A o \in Range(chain'[CacheHead(t, c)]) : o[1] = c
         /\ chain'[PageHead(p)] = <<>>
         /\ \A g \in ListHead : g # CacheHead(t, c) /\ g # PageHead(p) => chain'[g] = chain[g]
<1> DEFINE u == <<t, c>>
           h == CacheHead(t, c)
           q == PageHead(p)
           y == BumpSpot(t, c)
           l == chain[q]
<1>0. p \in Page
  BY InitedFacts
<1>1. /\ length[u] + bump[u].count = 0
      /\ live' = live \cup {Head(l)}
      /\ bump' = [bump EXCEPT ![u] = NoBump]
      /\ chain' = [chain EXCEPT ![h] = Tail(l), ![q] = <<>>]
  BY DEF AllocateAll
<1>2. /\ chain \in [ListHead -> Seq(Object)] /\ h \in ListHead /\ q \in ListHead /\ h # q
      /\ bump \in [Thread \X Class -> Run] /\ bump[u].count \in Nat
      /\ length[u] \in Nat /\ length[u] = Len(chain[h]) /\ l \in Seq(Object)
  BY <1>0, UnitTypes, UnitSpots, PageSpots DEF CacheList
<1>3. /\ chain'[h] = Tail(l) /\ chain'[q] = <<>>
      /\ \A g \in ListHead \ {h, q} : chain'[g] = chain[g]
      /\ bump'[u] = NoBump
      /\ \A v \in Thread, d \in Class : v # t \/ d # c => bump'[<<v, d>>] = bump[<<v, d>>]
  BY <1>1, <1>2
<1>4. IsInjective(l) /\ \A x \in Range(l) : x[1] = c
  BY PageListIn
<1>5. /\ IsInjective(Tail(l)) /\ Head(l) \in Range(l)
      /\ Range(Tail(l)) = Range(l) \ {Head(l)}
  <2>1. l # <<>>
    BY <1>2
  <2> QED BY <2>1, <1>2, <1>4, TailElements
<1>6. Held[h] = {} /\ Held[y] = {}
  <2>1. chain[h] = <<>> /\ bump[u].count = 0
    BY <1>1, <1>2, EmptySeq
  <2>2. RunObjects(bump[u], c) = {}
    <3>1. 0 .. bump[u].count - 1 = {}
      BY <2>1
    <3> QED BY <3>1 DEF RunObjects, Slice
  <2>3. Range(<<>>) = {}
    BY DEF Range
  <2> QED BY <2>1, <2>2, <2>3, UnitSpots DEF CacheList
<1>7. /\ Held[LiveSpot] = live /\ Held[q] = Range(l)
      /\ Held'[h] = Range(Tail(l)) /\ Held'[y] = {} /\ Held'[LiveSpot] = live \cup {Head(l)}
      /\ Held'[q] = {}
  <2>1. Range(<<>>) = {}
    BY DEF Range
  <2>2. Held[LiveSpot] = live /\ Held'[LiveSpot] = live \cup {Head(l)}
    BY <1>1, UnitSpots
  <2>3. Held[q] = Range(l) /\ Held'[q] = {}
    BY <2>1, <1>0, <1>3, PageSpots
  <2>4. Held'[h] = Range(Tail(l))
    BY <1>3, UnitSpots
  <2>5. Held'[y] = {}
    BY <1>3, NoRunObjects, UnitSpots
  <2> QED BY <2>2, <2>3, <2>4, <2>5
<1>8. /\ h \in Spot /\ q \in Spot /\ y \in Spot /\ LiveSpot \in Spot
      /\ h # q /\ h # y /\ h # LiveSpot /\ q # y /\ q # LiveSpot /\ y # LiveSpot
  BY <1>0, UnitSpots, PageSpots
<1>9. \A z \in Spot \ {LiveSpot, y, h, q} : Held'[z] = Held[z]
  <2>1. \A g \in ListHead \ {h, q} : chain'[g] = chain[g]
    BY <1>3
  <2>2. \A z \in Spot \ ({LiveSpot, BumpSpot(t, c)} \cup {h, q}) : Held'[z] = Held[z]
    BY ONLY <2>1, <1>3, t \in Thread, c \in Class, HeldElsewhere
  <2> QED BY <2>2
<1> HIDE DEF u, h, q, y, l
<1>10. PICK f : Moved(Held, f, q, LiveSpot, {Head(l)})
  BY <1>5, <1>7, <1>8, CanMove
<1>11. Moved(f, Held', q, h, Range(Tail(l)))
  <2>1. f[q] = Range(Tail(l)) /\ f[h] = {} /\ f[y] = {} /\ f[LiveSpot] = Held'[LiveSpot]
    BY <1>5, <1>6, <1>7, <1>8, <1>10 DEF Moved
  <2>2. \A z \in Spot \ {LiveSpot, y, h, q} : Held'[z] = f[z]
    BY <1>9, <1>10 DEF Moved
  <2> QED BY <2>1, <2>2, <1>7 DEF Moved
<1>12. Apart(f) /\ All(f) = All(Held)
  BY <1>8, <1>10, Moving DEF PlacesInv
<1>13. Apart(Held') /\ All(Held') = All(Held)
  BY <1>8, <1>11, <1>12, Moving
<1> QED BY <1>3, <1>4, <1>5, <1>13 DEF h, q

\* A page that is on a ring is not being destroyed.
LEMMA RingNotVictim ==
  ASSUME PagesInv, NEW r \in Ring, NEW p \in Range(ring[r]), p \in Page
  PROVE  NoVictim(p)
<1> SUFFICES ASSUME NEW t \in Thread, victim[t] = p PROVE FALSE
  BY DEF NoVictim
<1>1. victim[t] # 0
  BY DEF Page
<1>2. NotElsewhere(ring, p, {}) /\ DOMAIN ring = Ring
  BY <1>1 DEF PagesInv, PagesTypeOK, VictimsInv
<1> QED BY <1>2 DEF NotElsewhere

\* What a refill from page p leaves, once the objects are where they should be.
LEMMA RefillRest ==
  ASSUME PagesInv, PagesInv', PlacesInv, NEW t \in Thread, NEW c \in Class, NEW p \in Page,
         NoVictim(p), UNCHANGED <<victim, lock>>, pgBump <= pgBump',
         \A q \in Page : q # p => data'[q] = data[q],
         IsInjective(chain'[CacheHead(t, c)]),
         \A o \in Range(chain'[CacheHead(t, c)]) : o[1] = c,
         chain'[PageHead(p)] = <<>>,
         \A g \in ListHead : g # CacheHead(t, c) /\ g # PageHead(p) => chain'[g] = chain[g]
  PROVE  ListsInv' /\ VictimsFull'
<1>1. ListsInv'
  BY ListsUnit DEF PlacesInv
<1>2. ASSUME NEW u \in Thread, victim[u] # 0
      PROVE  chain'[PageHead(victim[u])] = chain[PageHead(victim[u])]
  <2>1. victim[u] \in Page /\ victim[u] # p
    BY <1>2 DEF PagesInv, PagesTypeOK, NoVictim
  <2>2. /\ PageHead(victim[u]) \in ListHead /\ PageHead(victim[u]) # CacheHead(t, c)
        /\ PageHead(victim[u]) # PageHead(p)
    BY <2>1, PageHeads
  <2> QED BY <2>2
<1>3. VictimsFull'
  BY <1>2, VictimsKept DEF PlacesInv
<1> QED BY <1>1, <1>3

\* The head of a ring of class c goes to another: no page gets or loses a block.
LEMMA HeadMoves ==
  ASSUME PagesInv, ExitInv, NEW c \in Class, NEW k \in Kind \ {"uninit"},
         NEW l \in Kind \ {"uninit"}, k # l, ring[<<c, k>>] # <<>>,
         ring' = [ring EXCEPT ![<<c, k>>] = Tail(@),
                              ![<<c, l>>] = Append(@, Head(ring[<<c, k>>]))],
         UNCHANGED <<lock, victim>>
  PROVE  LET p == Head(ring[<<c, k>>])
         IN /\ p \in Page /\ p \in InitedPages(c) /\ NoVictim(p)
            /\ p \in Range(ring[<<c, k>>]) /\ data[p] \in Block
            /\ \A d \in Class : InitedPages(d)' = InitedPages(d)
<1> DEFINE g == <<c, k>>
           h == <<c, l>>
           p == Head(ring[g])
<1>1. g \in Ring /\ h \in Ring /\ g # h /\ g[2] # "uninit"
  BY RingNames
<1>2. p \in Page /\ p \in Range(ring[g]) /\ data[p] \in Block
  BY <1>1, HeadPage
<1>3. NoVictim(p)
  BY <1>1, <1>2, RingNotVictim
<1>4. p \in InitedPages(c)
  BY <1>2, Inited DEF InitedIs, OnRing
<1>5. JoinsRing(p, h)
  BY <1>1, TailJoins
<1>6. \A d \in Class :
        InitedPages(d)' = IF d = c THEN InitedPages(d) \cup {p} ELSE InitedPages(d) \ {p}
  BY <1>3, <1>5, JoinInited
<1>7. \A d \in Class : d # c => p \notin InitedPages(d)
  BY <1>4, OwnerUnique
<1>8. \A d \in Class : InitedPages(d)' = InitedPages(d)
  <2> HIDE DEF p
  <2> QED BY <1>4, <1>6, <1>7
<1> QED BY <1>2, <1>3, <1>4, <1>8

\* A partial page is drained.
LEMMA PlacesAllocFromPartial ==
  ASSUME PagesInv, PagesInv', CountsInv, ExitInv, PlacesInv, NEW t \in Thread,
         NEW c \in Class, NEW a \in Align, AllocFromPartial(t, c, a)
  PROVE  PlacesInv'
<1> DEFINE p == Head(ring[<<c, "partial">>])
<1>1. /\ ring[<<c, "partial">>] # <<>>
      /\ AllocateAll(t, c, p, data[p], counter[p])
      /\ ring' = [ring EXCEPT ![<<c, "partial">>] = Tail(@), ![<<c, "full">>] = Append(@, p)]
      /\ UNCHANGED <<lock, victim, data, pgBump>>
  BY DEF AllocFromPartial
<1>2. /\ p \in Page /\ p \in InitedPages(c) /\ NoVictim(p)
      /\ p \in Range(ring[<<c, "partial">>])
      /\ \A d \in Class : InitedPages(d)' = InitedPages(d)
  <2>1. /\ "partial" \in Kind \ {"uninit"} /\ "full" \in Kind \ {"uninit"}
        /\ "partial" # "full"
    BY DEF Kind
  <2> QED BY <2>1, <1>1, HeadMoves
<1>3. counter[p] # 0 /\ Len(chain[PageHead(p)]) > 0
  <2>1. "partial" \in Kind
    BY DEF Kind
  <2>2. counter[p] > 0 /\ Len(chain[PageHead(p)]) > 0
    BY <2>1, <1>2 DEF CountsInv, PageAccounting
  <2> QED BY <2>2
<1>4. /\ Apart(Held') /\ All(Held') = All(Held)
      /\ IsInjective(chain'[CacheHead(t, c)])
      /\ \A o \in Range(chain'[CacheHead(t, c)]) : o[1] = c
      /\ chain'[PageHead(p)] = <<>>
      /\ \A g \in ListHead : g # CacheHead(t, c) /\ g # PageHead(p) => chain'[g] = chain[g]
  <2> HIDE DEF p
  <2> QED BY <1>1, <1>2, <1>3, RefillChain
<1>5. ListsInv' /\ VictimsFull'
  <2>1. pgBump <= pgBump'
    BY <1>1 DEF PagesInv, PagesTypeOK
  <2> HIDE DEF p
  <2> QED BY <2>1, <1>1, <1>2, <1>4, RefillRest
<1> QED BY <1>1, <1>2, <1>4, <1>5, PlacesFrom

\* A page that was kept empty is handed out whole.
LEMMA PlacesAllocFromEmpty ==
  ASSUME PagesInv, PagesInv', CountsInv, ExitInv, PlacesInv, NEW t \in Thread,
         NEW c \in Class, NEW a \in Align, AllocFromEmpty(t, c, a)
  PROVE  PlacesInv'
<1> DEFINE p == Head(ring[<<c, "empty">>])
<1>1. /\ ring[<<c, "empty">>] # <<>>
      /\ AllocateAll(t, c, p, data[p], counter[p])
      /\ ring' = [ring EXCEPT ![<<c, "empty">>] = Tail(@), ![<<c, "full">>] = Append(@, p)]
      /\ UNCHANGED <<lock, victim, data, pgBump>>
  BY DEF AllocFromEmpty
<1>2. /\ p \in Page /\ p \in InitedPages(c) /\ NoVictim(p) /\ data[p] \in Block
      /\ p \in Range(ring[<<c, "empty">>])
      /\ \A d \in Class : InitedPages(d)' = InitedPages(d)
  <2>1. /\ "empty" \in Kind \ {"uninit"} /\ "full" \in Kind \ {"uninit"}
        /\ "empty" # "full"
    BY DEF Kind
  <2> QED BY <2>1, <1>1, HeadMoves
<1>3. counter[p] = 0 /\ Len(chain[PageHead(p)]) = PgCount[c]
  <2>1. "empty" \in Kind
    BY DEF Kind
  <2> QED BY <2>1, <1>2 DEF CountsInv, PageAccounting
<1>4. Held[PageHead(p)] = Objects(c, data[p])
  BY <1>2, <1>3, PageFull
<1>5. /\ Apart(Held') /\ All(Held') = All(Held)
      /\ IsInjective(chain'[CacheHead(t, c)])
      /\ \A o \in Range(chain'[CacheHead(t, c)]) : o[1] = c
      /\ chain'[PageHead(p)] = <<>>
      /\ \A g \in ListHead : g # CacheHead(t, c) /\ g # PageHead(p) => chain'[g] = chain[g]
  <2> HIDE DEF p
  <2>1. AllocateAll(t, c, p, data[p], 0)
    BY <1>1, <1>3
  <2>2. Apart(Held) /\ \A z \in Spot \ {PageHead(p)} : Held[z] = Held[z]
    BY DEF PlacesInv
  <2> QED BY <2>1, <2>2, <1>2, <1>4, RefillWhole
<1>6. ListsInv' /\ VictimsFull'
  <2>1. pgBump <= pgBump'
    BY <1>1 DEF PagesInv, PagesTypeOK
  <2> HIDE DEF p
  <2> QED BY <2>1, <1>1, <1>2, <1>5, RefillRest
<1> QED BY <1>1, <1>2, <1>5, <1>6, PlacesFrom

\* The descriptor that gets a fresh block: it has none so far, nothing is on its
\* list, and it joins the full ring.
LEMMA FreshJoins ==
  ASSUME PagesInv, CountsInv, PlacesInv, NEW c \in Class, NEW p, p <= MaxPages,
         p = IF ring[<<c, "uninit">>] # <<>> THEN Head(ring[<<c, "uninit">>]) ELSE pgBump + 1,
         ring' = [ring EXCEPT
                   ![<<c, "uninit">>] = IF ring[<<c, "uninit">>] # <<>> THEN Tail(@) ELSE @,
                   ![<<c, "full">>] = Append(@, p)]
  PROVE  /\ p \in Page /\ data[p] = Null /\ NoVictim(p) /\ chain[PageHead(p)] = <<>>
         /\ JoinsRing(p, <<c, "full">>)
<1> DEFINE g == <<c, "uninit">>
           h == <<c, "full">>
<1>1. g \in Ring /\ h \in Ring /\ g # h /\ "uninit" \in Kind
  BY RingNames DEF Kind
<1>2. /\ ring \in [Ring -> Seq(Page)] /\ pgBump \in Nat /\ MaxPages \in Nat
      /\ \A q \in Page : chain[PageHead(q)] \in Seq(Object)
  BY PageHeads, ConstantAssumption DEF PagesInv, PagesTypeOK, CountsInv, TypeOK
<1>3. CASE ring[g] # <<>>
  <2>1. p = Head(ring[g]) /\ p \in Page /\ p \in Range(ring[g])
    BY <1>1, <1>3, HeadPage
  <2>2. data[p] = Null
    BY <2>1, <1>1 DEF PagesInv, BlocksInv
  <2>3. NoVictim(p)
    BY <2>1, <1>1, RingNotVictim
  <2>4. Len(chain[PageHead(p)]) = 0
    BY <2>1, <1>1 DEF CountsInv, PageAccounting
  <2>5. chain[PageHead(p)] = <<>>
    BY <2>1, <2>4, <1>2, EmptySeq
  <2>6. ring' = [ring EXCEPT ![g] = Tail(@), ![h] = Append(@, Head(ring[g]))]
    BY <2>1, <1>3
  <2>7. JoinsRing(p, h)
    BY <2>1, <2>6, <1>1, <1>3, TailJoins
  <2> QED BY <2>1, <2>2, <2>3, <2>5, <2>7
<1>4. CASE ring[g] = <<>>
  <2>1. p = pgBump + 1 /\ p \in Page /\ p > pgBump
    BY <1>2, <1>4 DEF Page
  <2>2. data[p] = Null
    BY <2>1 DEF PagesInv, BlocksInv
  <2>3. NoVictim(p)
    BY <2>1, <1>2 DEF NoVictim, PagesInv, PagesTypeOK, VictimsInv
  <2>4. chain[PageHead(p)] = <<>>
    BY <2>1 DEF PlacesInv, ListsInv
  <2>5. ASSUME NEW r \in Ring PROVE p \notin Range(ring[r])
    BY <2>1, <1>2 DEF PagesInv, RingsInv
  <2>6. /\ ring'[h] = Append(ring[h], p)
        /\ \A r \in Ring \ {h} : ring'[r] = ring[r]
    BY <1>1, <1>2, <1>4
  <2>7. Range(ring'[h]) = Range(ring[h]) \cup {p}
    BY <2>1, <2>6, <1>1, <1>2, RangeAppend
  <2>8. JoinsRing(p, h)
    BY <2>5, <2>6, <2>7, <1>1 DEF JoinsRing
  <2> QED BY <2>1, <2>2, <2>3, <2>4, <2>8
<1> QED BY <1>3, <1>4

\* A fresh block is handed out whole: its objects are new.
LEMMA PlacesAllocFromFresh ==
  ASSUME PagesInv, PagesInv', CountsInv, ExitInv, PlacesInv, NEW t \in Thread,
         NEW c \in Class, NEW a \in Align, AllocFromFresh(t, c, a)
  PROVE  PlacesInv'
<1>1. PICK p : p = IF ring[<<c, "uninit">>] # <<>> THEN Head(ring[<<c, "uninit">>])
                   ELSE pgBump + 1
  OBVIOUS
<1>2. PICK b \in freeBlocks : data' = [data EXCEPT ![p] = b] /\ AllocateAll(t, c, p, b, 0)
  BY <1>1 DEF AllocFromFresh
<1>3. /\ p <= MaxPages /\ UNCHANGED <<lock, victim>>
      /\ ring' = [ring EXCEPT
                   ![<<c, "uninit">>] = IF ring[<<c, "uninit">>] # <<>> THEN Tail(@) ELSE @,
                   ![<<c, "full">>] = Append(@, p)]
      /\ pgBump' = IF ring[<<c, "uninit">>] # <<>> THEN pgBump ELSE pgBump + 1
  BY <1>1 DEF AllocFromFresh
<1>4. /\ p \in Page /\ data[p] = Null /\ NoVictim(p) /\ chain[PageHead(p)] = <<>>
      /\ JoinsRing(p, <<c, "full">>)
  BY <1>1, <1>3, FreshJoins
<1>5. /\ b \in Block /\ data \in [Page -> Block \cup {Null}] /\ pgBump <= pgBump'
      /\ Null \notin Block
  BY <1>3, ConstantAssumption DEF PagesInv, PagesTypeOK
<1>6. data'[p] = b /\ \A q \in Page : q # p => data'[q] = data[q]
  BY <1>2, <1>4, <1>5
<1>7. \A d \in Class :
        InitedPages(d)' = IF d = c THEN InitedPages(d) \cup {p} ELSE InitedPages(d) \ {p}
  <2>1. "full" \in Kind \ {"uninit"}
    BY DEF Kind
  <2> QED BY <2>1, <1>3, <1>4, JoinInited
<1>8. \A d \in Class : p \notin InitedPages(d)
  BY <1>4, <1>5, InitedFacts
<1> DEFINE N == Objects(c, b)
<1>9. \A o \in N : o \in Object /\ o[1] = c /\ o[2] = b
  BY <1>5, ObjectFields DEF Objects
<1>10. Disjoint(N, All(Held))
  <2> SUFFICES ASSUME NEW o \in N, o \in All(Held) PROVE FALSE
    BY DEF Disjoint
  <2>1. Owned(o)
    BY DEF PlacesInv
  <2>2. PICK q \in InitedPages(c) : data[q] = b
    BY <2>1, <1>9 DEF Owned
  <2>3. q \in Page /\ data[q] # Null
    BY <2>2, <1>5, InitedFacts
  <2> QED BY <2>2, <2>3 DEF PagesInv, BlocksInv
<1>11. PICK f : /\ Apart(f) /\ All(f) = All(Held) \cup N
                /\ f[PageHead(p)] = Held[PageHead(p)] \cup N
                /\ \A z \in Spot \ {PageHead(p)} : f[z] = Held[z]
  <2> HIDE DEF N
  <2> QED BY <1>4, <1>10, PageSpots, Arriving DEF PlacesInv
<1>12. f[PageHead(p)] = Objects(c, b)
  <2>1. Held[PageHead(p)] = {}
    <3>1. Range(<<>>) = {}
      BY DEF Range
    <3> QED BY <3>1, <1>4, PageSpots
  <2> QED BY <2>1, <1>11
<1>13. /\ Apart(Held') /\ All(Held') = All(f)
       /\ IsInjective(chain'[CacheHead(t, c)])
       /\ \A o \in Range(chain'[CacheHead(t, c)]) : o[1] = c
       /\ chain'[PageHead(p)] = <<>>
       /\ \A g \in ListHead : g # CacheHead(t, c) /\ g # PageHead(p) => chain'[g] = chain[g]
  BY <1>2, <1>4, <1>5, <1>11, <1>12, RefillWhole
<1>14. ListsInv' /\ VictimsFull'
  BY <1>3, <1>4, <1>5, <1>6, <1>13, RefillRest
<1>15. ASSUME NEW o \in Object PROVE Owned(o)' <=> Owned(o) \/ o \in N
  <2>1. o[1] \in Class
    BY ObjectFields
  <2>2. \A q \in InitedPages(o[1]) : q # p /\ q \in Page
    BY <2>1, <1>8, InitedFacts
  <2>3. InitedPages(o[1])' = IF o[1] = c THEN InitedPages(o[1]) \cup {p} ELSE InitedPages(o[1])
    BY <2>1, <1>7, <1>8
  <2>4. o[1] = c /\ o[2] = b <=> o \in N
    BY <1>9 DEF Object, Objects
  <2>5. Owned(o)' <=> \E q \in InitedPages(o[1])' : data'[q] = o[2]
    BY DEF Owned
  <2>6. \A q \in InitedPages(o[1]) : data'[q] = data[q]
    BY <2>2, <1>6
  <2> HIDE DEF N
  <2> QED BY <2>3, <2>4, <2>5, <2>6, <1>6 DEF Owned
<1>16. \A o : o \in All(Held') <=> o \in Object /\ Owned(o)'
  <2> HIDE DEF N
  <2> QED BY <1>9, <1>11, <1>13, <1>15 DEF PlacesInv
<1>17. Apart(Held)' /\ All(Held)' = All(Held')
  BY <1>13 DEF Apart, All
<1> QED BY <1>14, <1>16, <1>17 DEF PlacesInv

-----------------------------------------------------------------------------
(***************************************************************************)
(* The flushes.                                                            *)
(***************************************************************************)
\* A thread without a slab has no batch and no victim.
LEMMA NoBatch ==
  ASSUME PagesInv, PlacesInv, NEW t \in Thread, \A d \in Class : lock[d] # t
  PROVE  Range(chain[BatchHead(t)]) = {} /\ victim[t] = 0
<1>1. victim[t] = 0
  BY DEF PagesInv, VictimsInv
<1>2. BatchHead(t) \in ListHead
  BY DEF ListHead
<1>3. ASSUME NEW o \in Range(chain[BatchHead(t)]) PROVE FALSE
  <2>1. BatchHead(t) \in Spot /\ o \in Held[BatchHead(t)]
    BY <1>2, Spots, HeldIs DEF HeldParts
  <2>2. o[1] \in Class
    BY <2>1, HeldOwned
  <2> QED BY <2>2 DEF PlacesInv, ListsInv
<1> QED BY <1>1, <1>3

\* clean_up of an empty unit.
LEMMA PlacesCleanUpEmpty ==
  ASSUME PagesInv, PagesInv', CountsInv, PlacesInv, NEW t \in Thread, NEW c \in Class,
         length[<<t, c>>] + bump[<<t, c>>].count = 0,
         bump' = [bump EXCEPT ![<<t, c>>] = NoBump],
         UNCHANGED <<live, chain, lock, victim, ring, data, pgBump>>
  PROVE  PlacesInv'
<1> DEFINE u == <<t, c>>
<1>1. /\ bump \in [Thread \X Class -> Run] /\ bump[u].count \in Nat /\ length[u] \in Nat
      /\ IsInjective(CacheList(t, c)) /\ \A o \in Range(CacheList(t, c)) : o[1] = c
  BY UnitTypes, Heads DEF PlacesInv, ListsInv, CacheList
<1>2. \A v \in Thread, d \in Class : v # t \/ d # c => bump'[<<v, d>>] = bump[<<v, d>>]
  BY <1>1
<1>3. Held'[BumpSpot(t, c)] = Held[BumpSpot(t, c)]
  <2>1. 0 .. bump[u].count - 1 = {}
    BY <1>1
  <2>2. RunObjects(bump[u], c) = {}
    BY <2>1 DEF RunObjects, Slice
  <2>3. bump'[u] = NoBump
    BY <1>1
  <2> QED BY <2>2, <2>3, NoRunObjects, UnitSpots, ZenonT(40)
<1>4. \A z \in Spot : Held'[z] = Held[z]
  <2>1. \A g \in ListHead \ {} : chain'[g] = chain[g]
    OBVIOUS
  <2>2. \A z \in Spot \ ({LiveSpot, BumpSpot(t, c)} \cup {}) : Held'[z] = Held[z]
    BY ONLY <2>1, <1>2, t \in Thread, c \in Class, HeldElsewhere
  <2> QED BY <2>2, <1>3, UnitSpots
<1>5. Apart(Held') /\ All(Held') = All(Held)
  BY <1>4 DEF PlacesInv, Apart, All
<1>6. ListsInv' /\ VictimsFull'
  <2>1. IsInjective(chain'[CacheHead(t, c)]) /\ \A o \in Range(chain'[CacheHead(t, c)]) : o[1] = c
    BY <1>1 DEF CacheList
  <2> QED BY <2>1, UnitListsKept, VictimsUntouched DEF PlacesInv
<1> QED BY <1>5, <1>6, SamePages, PlacesFrom

\* clean_up of a unit with objects: the run goes to the list, the list to the
\* batch.
LEMMA PlacesCleanUpFull ==
  ASSUME PagesInv, PagesInv', CountsInv, PlacesInv, NEW t \in Thread, NEW c \in Class,
         \A d \in Class : lock[d] # t,
         lock[c] = Null, lock' = [lock EXCEPT ![c] = t],
         bump' = [bump EXCEPT ![<<t, c>>] = NoBump],
         chain' = [chain EXCEPT ![CacheHead(t, c)] = <<>>,
                                ![BatchHead(t)] = PushBump(t, c, bump[<<t, c>>].count)],
         UNCHANGED <<live, victim, ring, data, pgBump>>
  PROVE  PlacesInv'
<1> DEFINE u == <<t, c>>
           h == CacheHead(t, c)
           g == BatchHead(t)
           y == BumpSpot(t, c)
           old == RunObjects(bump[u], c)
           l == CacheList(t, c)
           s == PushBump(t, c, bump[u].count)
<1>1. /\ bump \in [Thread \X Class -> Run] /\ bump[u].count \in Nat
      /\ chain \in [ListHead -> Seq(Object)]
      /\ lock \in [Class -> Thread \cup {Null}] /\ Null \notin Thread
  BY UnitTypes, ConstantAssumption DEF PagesInv, PagesTypeOK
<1>2. /\ h \in Spot /\ g \in Spot /\ y \in Spot /\ LiveSpot \in Spot
      /\ h \in ListHead /\ g \in ListHead
      /\ h # g /\ h # y /\ h # LiveSpot /\ g # y /\ g # LiveSpot /\ y # LiveSpot
  BY UnitSpots
<1>3. IsInjective(s) /\ Range(s) = old \cup Range(l)
  <2>1. bump[u].count \in 0 .. bump[u].count
    BY <1>1
  <2> QED BY <2>1, PushBumpElements DEF RunObjects
<1>4. /\ chain'[h] = <<>> /\ chain'[g] = s
      /\ \A k \in ListHead \ {h, g} : chain'[k] = chain[k]
      /\ bump'[u] = NoBump
      /\ \A v \in Thread, d \in Class : v # t \/ d # c => bump'[<<v, d>>] = bump[<<v, d>>]
  BY <1>1, <1>2
<1>5. Range(chain[g]) = {} /\ victim[t] = 0
  BY NoBatch
<1>6. /\ Held[h] = Range(l) /\ Held[y] = old /\ Held[g] = {}
      /\ Held'[h] = {} /\ Held'[y] = {} /\ Held'[g] = Range(s)
      /\ Held'[LiveSpot] = Held[LiveSpot]
  <2>1. Range(<<>>) = {}
    BY DEF Range
  <2>2. Held[h] = Range(l) /\ Held'[h] = {}
    BY <2>1, <1>4, UnitSpots, ZenonT(40)
  <2>3. Held[y] = old /\ Held'[y] = {}
    BY <1>4, NoRunObjects, UnitSpots
  <2>4. Held[g] = {} /\ Held'[g] = Range(s)
    BY <1>4, <1>5, UnitSpots
  <2> QED BY <2>2, <2>3, <2>4, UnitSpots
<1>7. \A z \in Spot \ {LiveSpot, y, h, g} : Held'[z] = Held[z]
  <2>1. \A k \in ListHead \ {h, g} : chain'[k] = chain[k]
    BY <1>4
  <2>2. \A z \in Spot \ ({LiveSpot, BumpSpot(t, c)} \cup {h, g}) : Held'[z] = Held[z]
    BY ONLY <2>1, <1>4, t \in Thread, c \in Class, HeldElsewhere
  <2> QED BY <2>2
<1>8. \A o \in Range(s) : o[1] = c
  <2>1. \A o \in Range(l) : o[1] = c
    BY DEF PlacesInv, ListsInv
  <2> QED BY <2>1, <1>3 DEF RunObjects, Slice
<1> HIDE DEF u, h, g, y, old, l, s
<1>9. PICK f : Moved(Held, f, y, h, old)
  BY <1>2, <1>6, CanMove
<1>10. Moved(f, Held', h, g, Range(s))
  <2>1. f[h] = Range(s) /\ f[y] = {} /\ f[g] = {} /\ f[LiveSpot] = Held[LiveSpot]
    BY <1>2, <1>3, <1>6, <1>9 DEF Moved
  <2>2. \A z \in Spot \ {LiveSpot, y, h, g} : Held'[z] = f[z]
    BY <1>7, <1>9 DEF Moved
  <2> QED BY <2>1, <2>2, <1>6 DEF Moved
<1>11. Apart(f) /\ All(f) = All(Held)
  BY <1>2, <1>9, Moving DEF PlacesInv
<1>12. Apart(Held') /\ All(Held') = All(Held)
  BY <1>2, <1>10, <1>11, Moving
<1>13. ASSUME NEW d \in Class, NEW v \in Thread, lock'[d] = v
       PROVE  IF d = c THEN v = t ELSE lock[d] = v
  BY <1>1, <1>13
<1>14. ASSUME NEW d \in Class PROVE InitedPages(d)' = InitedPages(d)
  <2> SUFFICES ASSUME NEW q PROVE q \in InitedPages(d)' <=> q \in InitedPages(d)
    OBVIOUS
  <2>1. OnRing(d, q)' <=> OnRing(d, q)
    BY DEF OnRing
  <2>2. BeingDestroyed(d, q)' <=> BeingDestroyed(d, q)
    <3>1. BeingDestroyed(d, q)' => BeingDestroyed(d, q)
      BY <1>5, <1>13 DEF BeingDestroyed
    <3>2. BeingDestroyed(d, q) => BeingDestroyed(d, q)'
      BY <1>1 DEF BeingDestroyed
    <3> QED BY <3>1, <3>2
  <2> QED BY <2>1, <2>2, Inited, InitedNext DEF InitedIs
<1>15. VictimsFull'
  <2>1. ASSUME NEW v \in Thread, NEW d \in Class, victim[v] # 0, lock'[d] = v
        PROVE  Len(chain'[PageHead(victim[v])]) = PgCount[d]
    <3>1. lock[d] = v /\ victim[v] \in Page
      BY <2>1, <1>5, <1>13 DEF PagesInv, PagesTypeOK
    <3>2. chain'[PageHead(victim[v])] = chain[PageHead(victim[v])]
      BY <3>1, <1>4, PageSpots DEF h, g
    <3> QED BY <2>1, <3>1, <3>2 DEF PlacesInv, VictimsFull
  <2> QED BY <2>1 DEF VictimsFull
<1>16. ListsInv'
  <2> DEFINE G == {h, g}
  <2>1. \A k \in ListHead \ G : chain'[k] = chain[k]
    BY <1>4
  <2>2. \A k \in ListHead \cap G : IsInjective(chain'[k])
    <3>1. IsInjective(<<>>)
      BY DEF IsInjective
    <3> QED BY <3>1, <1>3, <1>4
  <2>3. ASSUME NEW v \in Thread, NEW d \in Class, CacheHead(v, d) \in G
        PROVE  \A o \in Range(chain'[CacheHead(v, d)]) : o[1] = d
    <3>1. CacheHead(v, d) = h
      BY <2>3, Heads DEF g
    <3>2. Range(<<>>) = {}
      BY DEF Range
    <3> QED BY <3>1, <3>2, <1>4
  <2>4. ASSUME NEW v \in Thread, NEW o \in Range(chain'[BatchHead(v)])
        PROVE  lock'[o[1]] = v
    <3>1. CASE v = t
      BY <3>1, <1>1, <1>4, <1>8, <2>4 DEF g
    <3>2. CASE v # t
      <4>1. BatchHead(v) \in ListHead /\ BatchHead(v) # h /\ BatchHead(v) # g
        BY <3>2, Heads DEF h, g, BatchHead
      <4>2. o \in Range(chain[BatchHead(v)])
        BY <4>1, <1>4, <2>4
      <4>3. o \in Held[BatchHead(v)] /\ BatchHead(v) \in Spot
        BY <4>1, <4>2, HeldIs, Spots DEF HeldParts
      <4>4. o[1] \in Class /\ lock[o[1]] = v
        BY <4>2, <4>3, HeldOwned DEF PlacesInv, ListsInv
      <4>5. o[1] # c
        BY <4>4, <1>1
      <4> QED BY <4>4, <4>5, <1>1
    <3> QED BY <3>1, <3>2
  <2>5. ASSUME NEW p \in Page
        PROVE  /\ \A o \in Range(chain'[PageHead(p)]) : o[2] = data'[p]
               /\ p > pgBump' => chain'[PageHead(p)] = <<>>
    <3>1. chain'[PageHead(p)] = chain[PageHead(p)]
      BY <1>4, PageSpots DEF h, g
    <3> QED BY <3>1 DEF PlacesInv, ListsInv
  <2>6. ListsInv
    BY DEF PlacesInv
  <2>7. \A v \in Thread, d \in Class : CacheHead(v, d) \in G =>
          \A o \in Range(chain'[CacheHead(v, d)]) : o[1] = d
    BY <2>3
  <2>8. \A v \in Thread : \A o \in Range(chain'[BatchHead(v)]) : lock'[o[1]] = v
    BY <2>4
  <2>9. /\ \A p \in Page : \A o \in Range(chain'[PageHead(p)]) : o[2] = data'[p]
        /\ \A p \in Page : p > pgBump' => chain'[PageHead(p)] = <<>>
    BY <2>5
  <2> HIDE DEF G
  <2> QED BY ONLY <2>1, <2>2, <2>6, <2>7, <2>8, <2>9, ListsFrom
<1> QED BY <1>12, <1>14, <1>15, <1>16, PlacesFrom

LEMMA PlacesCleanUp ==
  ASSUME PagesInv, PagesInv', CountsInv, PlacesInv, NEW t \in Thread, NEW c \in Class,
         CleanUp(t, c)
  PROVE  PlacesInv'
<1>1. /\ \A d \in Class : lock[d] # t
      /\ bump' = [bump EXCEPT ![<<t, c>>] = NoBump]
      /\ UNCHANGED <<live, victim, ring, data, pgBump>>
      /\ \/ length[<<t, c>>] + bump[<<t, c>>].count = 0 /\ UNCHANGED <<lock, chain>>
         \/ /\ lock[c] = Null /\ lock' = [lock EXCEPT ![c] = t]
            /\ chain' = [chain EXCEPT ![CacheHead(t, c)] = <<>>,
                                      ![BatchHead(t)] = PushBump(t, c, bump[<<t, c>>].count)]
  BY DEF CleanUp, slabVars
<1> QED BY <1>1, PlacesCleanUpEmpty, PlacesCleanUpFull

\* A run of n objects, of the block of p, goes from the batch of t to the list
\* of p.
RunGoesBack(t, p, n) ==
  LET s == chain[BatchHead(t)] IN
  /\ IsRun(s, n) /\ data[p] = s[1][2] /\ p <= pgBump
  /\ chain' = [chain EXCEPT ![BatchHead(t)] = SubSeq(s, n + 1, Len(s)),
                            ![PageHead(p)] = SubSeq(s, 1, n) \o @]
  /\ UNCHANGED <<live, bump, lock, data, pgBump>>

\* What it leaves of the lists.
LEMMA RunMoves ==
  ASSUME PagesInv, CountsInv, PlacesInv, NEW t \in Thread, NEW p \in Page, NEW n,
         RunGoesBack(t, p, n)
  PROVE  /\ Apart(Held') /\ All(Held') = All(Held) /\ ListsInv'
         /\ \A h \in ListHead \ {BatchHead(t), PageHead(p)} : chain'[h] = chain[h]
<1>0. PICK s :
        /\ s = chain[BatchHead(t)] /\ IsRun(s, n) /\ data[p] = s[1][2] /\ p <= pgBump
        /\ chain' = [chain EXCEPT ![BatchHead(t)] = SubSeq(s, n + 1, Len(s)),
                                  ![PageHead(p)] = SubSeq(s, 1, n) \o @]
        /\ UNCHANGED <<live, bump, lock, data, pgBump>>
  BY DEF RunGoesBack
<1>1. PICK h \in ListHead, g \in ListHead :
        /\ h = PageHead(p) /\ g = BatchHead(t) /\ h # g
        /\ h \in Spot /\ g \in Spot /\ h # LiveSpot /\ g # LiveSpot
  BY PageSpots, Spots, PageHeads DEF ListHead
<1>2. /\ chain \in [ListHead -> Seq(Object)] /\ s \in Seq(Object) /\ IsInjective(s)
      /\ chain[h] \in Seq(Object) /\ IsInjective(chain[h])
  BY <1>0, <1>1 DEF CountsInv, TypeOK, PlacesInv, ListsInv
<1>3. n \in 1 .. Len(s) /\ n \in 0 .. Len(s) /\ \A i \in 1 .. n : s[i][2] = s[1][2]
  BY <1>0, <1>2 DEF IsRun
<1>4. PICK l, r : l = SubSeq(s, 1, n) /\ r = SubSeq(s, n + 1, Len(s))
  OBVIOUS
<1>5. /\ l \in Seq(Object) /\ r \in Seq(Object) /\ IsInjective(l) /\ IsInjective(r)
      /\ Disjoint(Range(l), Range(r)) /\ Range(l) \cup Range(r) = Range(s)
      /\ Len(l) = n
  BY ONLY <1>2, <1>3, <1>4, CutElements
<1>6. \A o \in Range(l) : o[2] = data[p]
  <2>1. ASSUME NEW i \in 1 .. n PROVE SubSeq(s, 1, n)[i] = s[i]
    <3>1. s \in Seq(Object) /\ n \in 1 .. Len(s)
      BY <1>2, <1>3
    <3> QED BY ONLY <3>1, i \in 1 .. n
  <2>2. ASSUME NEW o \in Range(l) PROVE o[2] = data[p]
    <3>1. PICK i \in 1 .. n : l[i] = o
      BY <1>5, InRange
    <3>2. l[i] = s[i]
      BY <2>1, <1>4
    <3> QED BY <3>1, <3>2, <1>0, <1>3
  <2> QED BY <2>2
<1>7. Held[g] = Range(s) /\ Held[h] = Range(chain[h])
  BY <1>0, <1>1, HeldIs DEF HeldParts
<1>8. Disjoint(Range(l), Range(chain[h]))
  <2>1. Disjoint(Held[g], Held[h])
    BY <1>1 DEF PlacesInv, Apart
  <2> QED BY <2>1, <1>5, <1>7 DEF Disjoint
<1>9. /\ l \o chain[h] \in Seq(Object) /\ IsInjective(l \o chain[h])
      /\ Range(l \o chain[h]) = Range(l) \cup Range(chain[h])
  <2>1. PICK q : q = chain[h]
    OBVIOUS
  <2>2. q \in Seq(Object) /\ IsInjective(q) /\ Disjoint(Range(l), Range(q))
    BY <2>1, <1>2, <1>8
  <2>3. /\ l \o q \in Seq(Object) /\ IsInjective(l \o q)
        /\ Range(l \o q) = Range(l) \cup Range(q)
    BY ONLY <2>2, <1>5, ConcatElements
  <2> QED BY <2>1, <2>3
<1>10. /\ chain'[g] = r /\ chain'[h] = l \o chain[h]
       /\ \A k \in ListHead \ {g, h} : chain'[k] = chain[k]
  BY <1>0, <1>1, <1>2, <1>4
<1>11. Moved(Held, Held', g, h, Range(l))
  <2>1. Held'[g] = Range(r) /\ Held'[h] = Range(l) \cup Range(chain[h])
    BY <1>1, <1>9, <1>10, HeldIsNext DEF HeldParts
  <2>2. Held'[LiveSpot] = Held[LiveSpot]
    BY <1>0, HeldIs, HeldIsNext DEF HeldParts
  <2>3. ASSUME NEW z \in Spot, z # g, z # h PROVE Held'[z] = Held[z]
    <3>1. CASE z \in ListHead
      BY <3>1, <2>3, <1>10, HeldIs, HeldIsNext DEF HeldParts
    <3>2. CASE z \in BumpSpots
      <4>1. PICK u \in Thread, d \in Class : z = BumpSpot(u, d)
        BY <3>2 DEF BumpSpots
      <4>2. Held[z] = RunObjects(bump[<<u, d>>], d) /\ Held'[z] = RunObjects(bump'[<<u, d>>], d)
        BY <4>1, HeldIs, HeldIsNext DEF HeldParts
      <4> QED BY <4>2, <1>0
    <3> QED BY <3>1, <3>2, <2>2, Spots
  <2> QED BY <2>1, <2>3, <1>5, <1>7 DEF Moved, Disjoint
<1>12. Apart(Held') /\ All(Held') = All(Held)
  BY <1>1, <1>11, Moving DEF PlacesInv
<1>13. ListsInv'
  <2>1. PICK G : G = {g, h}
    OBVIOUS
  <2>2. \A k \in ListHead \ G : chain'[k] = chain[k]
    BY <2>1, <1>10
  <2>3. \A k \in ListHead \cap G : IsInjective(chain'[k])
    BY <2>1, <1>5, <1>9, <1>10
  <2>4. \A v \in Thread, d \in Class : CacheHead(v, d) \notin G
    BY <2>1, <1>1, Heads, PageHeads
  <2>5. \A v \in Thread : \A o \in Range(chain'[BatchHead(v)]) : lock'[o[1]] = v
    <3>1. ASSUME NEW v \in Thread PROVE Range(chain'[BatchHead(v)]) \subseteq Range(chain[BatchHead(v)])
      <4>1. CASE v = t
        BY <4>1, <1>0, <1>1, <1>5, <1>10
      <4>2. CASE v # t
        <5>1. BatchHead(v) \in ListHead \ {g, h}
          <6>1. BatchHead(v) \in ListHead
            BY DEF ListHead
          <6>2. BatchHead(v) # BatchHead(t)
            BY <4>2 DEF BatchHead
          <6> QED BY <6>1, <6>2, <1>1, PageHeads
        <5> QED BY <5>1, <1>10
      <4> QED BY <4>1, <4>2
    <3> QED BY <3>1, <1>0 DEF PlacesInv, ListsInv
  <2>6. ASSUME NEW q \in Page
        PROVE  /\ \A o \in Range(chain'[PageHead(q)]) : o[2] = data'[q]
               /\ q > pgBump' => chain'[PageHead(q)] = <<>>
    <3>1. CASE q = p
      <4>1. \A o \in Range(chain[h]) : o[2] = data[p]
        BY <1>1 DEF PlacesInv, ListsInv
      <4>2. ~ (p > pgBump)
        BY <1>0 DEF PagesInv, PagesTypeOK, Page
      <4> QED BY <3>1, <4>1, <4>2, <1>0, <1>1, <1>6, <1>9, <1>10
    <3>2. CASE q # p
      <4>1. PageHead(q) \in ListHead \ {g, h}
        BY <3>2, <1>1, PageHeads
      <4> QED BY <4>1, <1>0, <1>10 DEF PlacesInv, ListsInv
    <3> QED BY <3>1, <3>2
  <2>7. /\ \A q \in Page : \A o \in Range(chain'[PageHead(q)]) : o[2] = data'[q]
        /\ \A q \in Page : q > pgBump' => chain'[PageHead(q)] = <<>>
    BY <2>6
  <2>8. ListsInv
    BY DEF PlacesInv
  <2>9. \A v \in Thread, d \in Class : CacheHead(v, d) \in G =>
          \A o \in Range(chain'[CacheHead(v, d)]) : o[1] = d
    BY <2>4
  <2> QED BY ONLY <2>2, <2>3, <2>5, <2>7, <2>8, <2>9, ListsFrom
<1> QED BY <1>1, <1>10, <1>12, <1>13

\* A page that leaves its ring for the hands of the flush is still a page with
\* a block.
LEMMA TakenInited ==
  ASSUME PagesInv, PagesInv', ExitInv, NEW t \in Thread, NEW c \in Class,
         NEW k \in {"full", "partial"}, lock[c] = t, victim[t] = 0,
         NEW i \in DOMAIN ring[<<c, k>>], NEW p, p = ring[<<c, k>>][i],
         ring' = [ring EXCEPT ![<<c, k>>] = RemoveAt(@, i)],
         victim' = [victim EXCEPT ![t] = p], UNCHANGED lock
  PROVE  \A d \in Class : InitedPages(d)' = InitedPages(d)
<1> DEFINE g == <<c, k>>
<1>1. g \in Ring /\ k \in Kind \ {"uninit"}
  BY RingNames DEF Kind
<1>2. /\ ring \in [Ring -> Seq(Page)] /\ ring[g] \in Seq(Page) /\ IsInjective(ring[g])
      /\ victim \in [Thread -> Page \cup {0}]
  BY <1>1 DEF PagesInv, PagesTypeOK, RingsInv, NoSharing
<1>3. i \in 1 .. Len(ring[g]) /\ p \in Page /\ p # 0 /\ p \in Range(ring[g])
  <2>1. i \in DOMAIN ring[g] /\ p = ring[g][i]
    OBVIOUS
  <2> HIDE DEF g
  <2>2. p \in Page /\ p \in Range(ring[g])
    BY <2>1, <1>1, RingRemove
  <2>3. i \in 1 .. Len(ring[g])
    BY <2>1, <1>2
  <2>4. 0 \notin Page
    BY DEF Page
  <2> QED BY <2>2, <2>3, <2>4
<1>4. Range(RemoveAt(ring[g], i)) = Range(ring[g]) \ {p}
  BY <1>2, <1>3, RemoveAtElements
<1>5. /\ Range(ring'[g]) = Range(ring[g]) \ {p}
      /\ \A r \in Ring \ {g} : ring'[r] = ring[r]
      /\ victim'[t] = p /\ \A u \in Thread \ {t} : victim'[u] = victim[u]
  BY <1>1, <1>2, <1>4
<1>6. \A d \in Class : lock[d] = t => d = c
  BY DEF ExitInv
<1> SUFFICES ASSUME NEW d \in Class, NEW q
             PROVE  q \in InitedPages(d)' <=> q \in InitedPages(d)
  OBVIOUS
<1>7. BeingDestroyed(d, q)' <=> BeingDestroyed(d, q) \/ (d = c /\ q = p)
  <2>1. BeingDestroyed(d, q)' => BeingDestroyed(d, q) \/ (d = c /\ q = p)
    BY <1>5, <1>6 DEF BeingDestroyed
  <2>2. BeingDestroyed(d, q) => BeingDestroyed(d, q)'
    BY <1>5 DEF BeingDestroyed
  <2>3. d = c /\ q = p => BeingDestroyed(d, q)'
    BY <1>3, <1>5 DEF BeingDestroyed
  <2> QED BY <2>1, <2>2, <2>3
<1>8. OnRing(d, q)' \/ (d = c /\ q = p) <=> OnRing(d, q) \/ (d = c /\ q = p)
  <2>1. \A l \in Kind : <<d, l>> \in Ring
    BY RingNames
  <2>2. ASSUME NEW l \in Kind, q # p \/ d # c
        PROVE  q \in Range(ring'[<<d, l>>]) <=> q \in Range(ring[<<d, l>>])
    <3>1. CASE <<d, l>> = g
      BY <3>1, <2>2, <1>5
    <3>2. CASE <<d, l>> # g
      BY <3>2, <2>1, <1>5
    <3> QED BY <3>1, <3>2
  <2> QED BY <2>2 DEF OnRing
<1>9. d = c /\ q = p => OnRing(d, q)
  BY <1>1, <1>3 DEF OnRing
<1> QED BY <1>7, <1>8, <1>9, Inited, InitedNext DEF InitedIs

\* A page that changes ring within its class is still a page with a block.
LEMMA MovedInited ==
  ASSUME PagesInv, ExitInv, NEW c \in Class, NEW k \in {"full", "partial"},
         NEW m \in {"partial", "empty"}, k # m,
         NEW i \in DOMAIN ring[<<c, k>>], NEW p, p = ring[<<c, k>>][i],
         ring' = [ring EXCEPT ![<<c, k>>] = RemoveAt(@, i), ![<<c, m>>] = Append(@, p)],
         UNCHANGED <<lock, victim>>
  PROVE  \A d \in Class : InitedPages(d)' = InitedPages(d)
<1>1. /\ k \in Kind \ {"uninit"} /\ m \in Kind \ {"uninit"}
      /\ <<c, k>> \in Ring /\ <<c, m>> \in Ring /\ <<c, k>> # <<c, m>>
  BY RingNames DEF Kind
<1>2. PICK g \in Ring, h \in Ring : g = <<c, k>> /\ h = <<c, m>> /\ g # h
  BY <1>1
<1>3. i \in DOMAIN ring[g]
  BY <1>2
<1>4. ring' = [ring EXCEPT ![g] = RemoveAt(@, i), ![h] = Append(@, ring[g][i])]
  BY <1>2
<1>5. JoinsRing(ring[g][i], h)
  BY ONLY PagesInv, <1>2, <1>3, <1>4, MoveJoins
<1>6. p \in Page /\ p \in Range(ring[g])
  BY <1>2, <1>3, RingRemove
<1>7. NoVictim(p)
  BY <1>6, RingNotVictim
<1>8. \A d \in Class :
        InitedPages(d)' = IF d = c THEN InitedPages(d) \cup {p} ELSE InitedPages(d) \ {p}
  BY <1>1, <1>2, <1>5, <1>7, JoinInited
<1>9. p \in InitedPages(c)
  BY <1>1, <1>2, <1>6, Inited DEF InitedIs, OnRing
<1>10. \A d \in Class : d # c => p \notin InitedPages(d)
  BY <1>9, OwnerUnique
<1> QED BY <1>8, <1>9, <1>10

\* deallocate_batch, one turn of its loop.
LEMMA PlacesDeallocateRun ==
  ASSUME PagesInv, PagesInv', CountsInv, ExitInv, PlacesInv, NEW t \in Thread,
         NEW c \in Class, NEW n, DeallocateRun(t, c, n)
  PROVE  PlacesInv'
<1>1. PICK s, p, from : /\ s = chain[BatchHead(t)] /\ p = rd[s[1][2]]
                        /\ from = RingOf(c, p)
  OBVIOUS
<1>2. from \in {"full", "partial"}
  BY <1>1, SMTT(30) DEF RingOf
<1>3. /\ IsRun(s, n) /\ RunIsSane(c, s, n) /\ lock[c] = t /\ victim[t] = 0
      /\ chain' = [chain EXCEPT ![BatchHead(t)] = SubSeq(s, n + 1, Len(s)),
                                ![PageHead(p)] = SubSeq(s, 1, n) \o @]
      /\ UNCHANGED <<live, bump, lock, data, pgBump>>
  BY <1>1, ZenonT(40) DEF DeallocateRun
<1>4. PICK i \in DOMAIN ring[<<c, from>>] :
       /\ ring[<<c, from>>][i] = p
       /\ \/ /\ Left(p, n) = 0
             /\ ring' = [ring EXCEPT ![<<c, from>>] = RemoveAt(@, i)]
             /\ victim' = [victim EXCEPT ![t] = p]
          \/ /\ ring' = [ring EXCEPT ![<<c, from>>] = RemoveAt(@, i),
                                     ![<<c, "empty">>] = Append(@, p)]
             /\ UNCHANGED victim
          \/ /\ from = "full"
             /\ ring' = [ring EXCEPT ![<<c, "full">>] = RemoveAt(@, i),
                                     ![<<c, "partial">>] = Append(@, p)]
             /\ UNCHANGED victim
          \/ UNCHANGED <<ring, victim>>
  BY <1>1, ZenonT(40) DEF DeallocateRun
<1>5. PICK g \in Ring : g = <<c, from>> /\ g[2] # "uninit"
  BY <1>2, RingNames
<1>6. p \in Page /\ p \in Range(ring[g]) /\ p <= pgBump /\ data[p] = s[1][2]
  <2>1. p \in Page /\ p \in Range(ring[g])
    BY <1>4, <1>5, RingRemove
  <2>2. p <= pgBump
    BY <2>1 DEF PagesInv, RingsInv
  <2> QED BY <2>1, <2>2, <1>1, <1>3 DEF RunIsSane
<1>7. NoVictim(p)
  BY <1>6, RingNotVictim
<1>8. /\ Apart(Held') /\ All(Held') = All(Held) /\ ListsInv'
      /\ \A h \in ListHead \ {BatchHead(t), PageHead(p)} : chain'[h] = chain[h]
  <2>1. RunGoesBack(t, p, n)
    BY <1>1, <1>3, <1>6 DEF RunGoesBack
  <2> QED BY <2>1, <1>6, RunMoves, SMTT(30)
<1>9. \A d \in Class : InitedPages(d)' = InitedPages(d)
  <2>1. CASE ring' = [ring EXCEPT ![<<c, from>>] = RemoveAt(@, i)]
             /\ victim' = [victim EXCEPT ![t] = p]
    BY <2>1, <1>2, <1>3, <1>4, TakenInited
  <2>2. CASE /\ ring' = [ring EXCEPT ![<<c, from>>] = RemoveAt(@, i),
                                     ![<<c, "empty">>] = Append(@, p)]
             /\ UNCHANGED victim
    <3>1. "empty" \in {"partial", "empty"} /\ from # "empty"
      BY <1>2
    <3> QED BY <2>2, <3>1, <1>2, <1>3, <1>4, MovedInited
  <2>3. CASE /\ from = "full"
             /\ ring' = [ring EXCEPT ![<<c, "full">>] = RemoveAt(@, i),
                                     ![<<c, "partial">>] = Append(@, p)]
             /\ UNCHANGED victim
    <3>1. /\ "partial" \in {"partial", "empty"} /\ "full" \in {"full", "partial"}
          /\ "full" # "partial"
      OBVIOUS
    <3> QED BY <2>3, <3>1, <1>3, <1>4, MovedInited
  <2>4. CASE UNCHANGED <<ring, victim>>
    BY <2>4, <1>3, SamePages
  <2> QED BY <2>1, <2>2, <2>3, <2>4, <1>4
<1>10. VictimsFull'
  <2> SUFFICES ASSUME NEW u \in Thread, NEW d \in Class, victim'[u] # 0, lock'[d] = u
               PROVE  Len(chain'[PageHead(victim'[u])]) = PgCount[d]
    BY DEF VictimsFull
  <2>1. victim \in [Thread -> Page \cup {0}] /\ lock[d] = u
    BY <1>3 DEF PagesInv, PagesTypeOK
  <2>2. CASE victim'[u] = victim[u]
    <3>1. victim[u] \in Page /\ victim[u] # p
      BY <2>1, <2>2, <1>7 DEF NoVictim
    <3>2. chain'[PageHead(victim[u])] = chain[PageHead(victim[u])]
      BY <3>1, <1>6, <1>8, PageHeads
    <3> QED BY <2>1, <2>2, <3>2 DEF PlacesInv, VictimsFull
  <2>3. CASE victim'[u] # victim[u]
    <3>1. u = t /\ victim'[u] = p /\ Left(p, n) = 0
      BY <2>1, <2>3, <1>4
    <3>2. d = c
      BY <2>1, <3>1, <1>3 DEF ExitInv
    <3>3. PageFine(g, p)
      BY <1>6, Accounts DEF CountsInv
    <3>4. /\ chain \in [ListHead -> Seq(Object)] /\ s \in Seq(Object)
          /\ chain[PageHead(p)] \in Seq(Object) /\ counter[p] \in Nat
          /\ PageHead(p) \in ListHead /\ BatchHead(t) \in ListHead
          /\ BatchHead(t) # PageHead(p)
      BY <1>1, <1>6, Heads, PageHeads DEF CountsInv, TypeOK
    <3>5. PgCount[c] \in Nat /\ counter[p] + Len(chain[PageHead(p)]) = PgCount[c]
      BY <3>3, <3>4, <1>2, <1>5, Counts DEF PageFine
    <3>6. n \in 1 .. Len(s) /\ n \in Nat /\ counter[p] = n
      <4>1. n \in 1 .. Len(s)
        BY <1>3 DEF IsRun
      <4> QED BY <4>1, <3>1, <3>4 DEF Left
    <3>7. SubSeq(s, 1, n) \in Seq(Object) /\ Len(SubSeq(s, 1, n)) = n
      BY ONLY <3>4, <3>6
    <3>8. Len(SubSeq(s, 1, n) \o chain[PageHead(p)]) = n + Len(chain[PageHead(p)])
      BY ONLY <3>4, <3>7
    <3>9. chain'[PageHead(p)] = SubSeq(s, 1, n) \o chain[PageHead(p)]
      BY <1>3, <3>4
    <3> QED BY <3>1, <3>2, <3>5, <3>6, <3>8, <3>9
  <2> QED BY <2>2, <2>3
<1> QED BY <1>3, <1>8, <1>9, <1>10, PlacesFrom

\* destroy_page returns a block whose objects are all on the list of the page:
\* no other spot loses an object.
LEMMA PlacesInsertUninit ==
  ASSUME PagesInv, PagesInv', CountsInv, ExitInv, PlacesInv, NEW t \in Thread,
         NEW c \in Class, InsertUninit(t, c)
  PROVE  PlacesInv'
<1>1. PICK p, b : p = victim[t] /\ b = data[p]
  OBVIOUS
<1>2. PICK g \in Ring : g = <<c, "uninit">>
  BY RingNames
<1>3. /\ lock[c] = t /\ p # 0 /\ data' = [data EXCEPT ![p] = Null]
      /\ chain' = [chain EXCEPT ![PageHead(p)] = <<>>]
      /\ ring' = [ring EXCEPT ![g] = Append(@, p)]
      /\ victim' = [victim EXCEPT ![t] = 0]
      /\ UNCHANGED <<live, bump, lock, pgBump>>
  BY <1>1, <1>2 DEF InsertUninit
<1>4. /\ p \in Page /\ b \in Block /\ \A u \in Thread : victim[u] = p => u = t
      /\ NotElsewhere(ring, p, {})
      /\ data \in [Page -> Block \cup {Null}] /\ victim \in [Thread -> Page \cup {0}]
      /\ ring \in [Ring -> Seq(Page)] /\ Null \notin Block /\ 0 \notin Page
      /\ chain \in [ListHead -> Seq(Object)]
  <2>1. /\ data \in [Page -> Block \cup {Null}] /\ victim \in [Thread -> Page \cup {0}]
        /\ ring \in [Ring -> Seq(Page)] /\ chain \in [ListHead -> Seq(Object)]
    BY DEF PagesInv, PagesTypeOK, CountsInv, TypeOK
  <2>2. Null \notin Block /\ 0 \notin Page
    BY ConstantAssumption DEF Page
  <2>3. /\ b \in Block /\ \A u \in Thread : victim[u] = p => u = t
        /\ NotElsewhere(ring, p, {})
    BY <1>1, <1>3 DEF PagesInv, VictimsInv
  <2>4. p \in Page
    BY <2>1, <1>1, <1>3
  <2> QED BY <2>1, <2>2, <2>3, <2>4
<1>5. \A d \in Class : lock[d] = t => d = c
  BY <1>3 DEF ExitInv
<1>6. p \in InitedPages(c)
  BY <1>1, <1>3, Inited DEF InitedIs, BeingDestroyed
<1>7. Held[PageHead(p)] = Objects(c, b)
  <2>1. Len(chain[PageHead(p)]) = PgCount[c]
    BY <1>1, <1>3 DEF PlacesInv, VictimsFull
  <2> QED BY <2>1, <1>1, <1>6, PageFull
<1>8. /\ PageHead(p) \in Spot /\ PageHead(p) \in ListHead
      /\ chain'[PageHead(p)] = <<>> /\ Range(<<>>) = {} /\ IsInjective(<<>>)
      /\ \A h \in ListHead \ {PageHead(p)} : chain'[h] = chain[h]
  <2>1. Range(<<>>) = {} /\ IsInjective(<<>>)
    BY DEF Range, IsInjective
  <2> QED BY <2>1, <1>3, <1>4, PageSpots
<1>9. /\ Held'[PageHead(p)] = {}
      /\ \A z \in Spot \ {PageHead(p)} : Held'[z] = Held[z]
  <2>1. Held'[PageHead(p)] = {}
    BY <1>4, <1>8, PageSpots
  <2>2. Held'[LiveSpot] = Held[LiveSpot]
    BY <1>3, HeldIs, HeldIsNext DEF HeldParts
  <2>3. ASSUME NEW z \in ListHead, z # PageHead(p) PROVE Held'[z] = Held[z]
    BY <2>3, <1>8, HeldIs, HeldIsNext DEF HeldParts
  <2>4. ASSUME NEW z \in BumpSpots PROVE Held'[z] = Held[z]
    <3>1. PICK u \in Thread, d \in Class : z = BumpSpot(u, d)
      BY DEF BumpSpots
    <3>2. Held[z] = RunObjects(bump[<<u, d>>], d) /\ Held'[z] = RunObjects(bump'[<<u, d>>], d)
      BY <3>1, HeldIs, HeldIsNext DEF HeldParts
    <3> QED BY <3>2, <1>3
  <2> QED BY <2>1, <2>2, <2>3, <2>4, Spots
<1>10. PICK x, f, q : /\ x \in Spot /\ x = PageHead(p)
                      /\ f = Held /\ q = Held' /\ Apart(f)
                      /\ q[x] = {} /\ \A z \in Spot \ {x} : q[z] = f[z]
  BY <1>8, <1>9 DEF PlacesInv
<1>11. Apart(q) /\ All(q) = All(f) \ f[x]
  <2>1. x \in Spot /\ Apart(f) /\ q[x] = {} /\ \A z \in Spot \ {x} : q[z] = f[z]
    BY <1>10
  <2> QED BY ONLY <2>1, Leaving
<1>12. Apart(Held)' /\ All(Held)' = All(Held) \ Objects(c, b)
  <2>1. Apart(Held)' <=> Apart(q)
    BY <1>10 DEF Apart
  <2>2. All(Held)' = All(q)
    BY <1>10 DEF All
  <2> QED BY <2>1, <2>2, <1>7, <1>10, <1>11
<1>13. ASSUME NEW d \in Class PROVE InitedPages(d)' = InitedPages(d) \ {p}
  <2> SUFFICES ASSUME NEW q1
               PROVE  q1 \in InitedPages(d)' <=> q1 \in InitedPages(d) /\ q1 # p
    OBVIOUS
  <2>1. BeingDestroyed(d, q1)' <=> BeingDestroyed(d, q1) /\ q1 # p
    <3>1. victim'[t] = 0 /\ \A u \in Thread \ {t} : victim'[u] = victim[u]
      BY <1>3, <1>4
    <3>2. BeingDestroyed(d, q1)' => BeingDestroyed(d, q1) /\ q1 # p
      BY <3>1, <1>3, <1>4 DEF BeingDestroyed
    <3>3. BeingDestroyed(d, q1) /\ q1 # p => BeingDestroyed(d, q1)'
      BY <3>1, <1>1, <1>3 DEF BeingDestroyed
    <3> QED BY <3>2, <3>3
  <2>2. OnRing(d, q1)' <=> OnRing(d, q1)
    <3>1. ASSUME NEW k \in Kind \ {"uninit"} PROVE ring'[<<d, k>>] = ring[<<d, k>>]
      <4>1. <<d, k>> \in Ring /\ <<d, k>> # g
        BY <1>2, RingNames
      <4> QED BY <4>1, <1>3, <1>4
    <3> QED BY <3>1 DEF OnRing
  <2>3. OnRing(d, q1) => q1 # p
    <3>1. \A k \in Kind : <<d, k>> \in Ring
      BY RingNames
    <3> QED BY <3>1, <1>4 DEF OnRing, NotElsewhere
  <2> QED BY <2>1, <2>2, <2>3, Inited, InitedNext DEF InitedIs
<1>14. ASSUME NEW o \in Object PROVE Owned(o)' <=> Owned(o) /\ o \notin Objects(c, b)
  <2>1. o[1] \in Class
    BY ObjectFields
  <2>2. InitedPages(o[1])' = InitedPages(o[1]) \ {p}
    BY <2>1, <1>13
  <2>3. \A q1 \in InitedPages(o[1])' : data'[q1] = data[q1]
    BY <2>1, <2>2, <1>3, <1>4, InitedFacts
  <2>4. o \in Objects(c, b) <=> o[1] = c /\ o[2] = b
    BY DEF Object, Objects
  <2>5. Owned(o)' <=> \E q1 \in InitedPages(o[1])' : data'[q1] = o[2]
    BY DEF Owned
  <2>6. Owned(o)' <=> \E q1 \in InitedPages(o[1]) \ {p} : data[q1] = o[2]
    BY <2>2, <2>3, <2>5
  <2>7. ASSUME Owned(o)' PROVE Owned(o) /\ o \notin Objects(c, b)
    <3>1. PICK q1 \in InitedPages(o[1]) : q1 # p /\ data[q1] = o[2]
      BY <2>6, <2>7
    <3>2. ASSUME o[1] = c, o[2] = b PROVE FALSE
      BY <3>1, <3>2, <1>1, <1>6, OwnerUnique
    <3> QED BY <3>1, <3>2, <2>4 DEF Owned
  <2>8. ASSUME Owned(o), o \notin Objects(c, b) PROVE Owned(o)'
    <3>1. PICK q1 \in InitedPages(o[1]) : data[q1] = o[2]
      BY <2>8 DEF Owned
    <3>2. ASSUME q1 = p PROVE FALSE
      <4>1. o[1] = c
        BY <3>1, <3>2, <2>1, <1>6, OwnerUnique
      <4> QED BY <4>1, <3>1, <3>2, <2>4, <2>8, <1>1
    <3> QED BY <3>1, <3>2, <2>6
  <2> QED BY <2>7, <2>8
<1>15. \A o : o \in All(Held)' <=> o \in Object /\ Owned(o)'
  BY <1>12, <1>14 DEF PlacesInv
<1>16. VictimsFull'
  <2> SUFFICES ASSUME NEW u \in Thread, NEW d \in Class, victim'[u] # 0, lock'[d] = u
               PROVE  Len(chain'[PageHead(victim'[u])]) = PgCount[d]
    BY DEF VictimsFull
  <2>1. u # t /\ victim'[u] = victim[u] /\ lock[d] = u
    BY <1>3, <1>4
  <2>2. victim[u] \in Page /\ victim[u] # p
    BY <2>1, <1>4
  <2>3. chain'[PageHead(victim[u])] = chain[PageHead(victim[u])]
    BY <2>2, <1>4, <1>8, PageHeads
  <2> QED BY <2>1, <2>3 DEF PlacesInv, VictimsFull
<1>17. ListsInv'
  <2>1. PICK G : G = {PageHead(p)}
    OBVIOUS
  <2>2. \A k \in ListHead \ G : chain'[k] = chain[k]
    BY <2>1, <1>8
  <2>3. \A k \in ListHead \cap G : IsInjective(chain'[k])
    BY <2>1, <1>8
  <2>4. \A v \in Thread, d \in Class : CacheHead(v, d) \in G =>
          \A o \in Range(chain'[CacheHead(v, d)]) : o[1] = d
    BY <2>1, <1>4, PageHeads
  <2>5. \A v \in Thread : \A o \in Range(chain'[BatchHead(v)]) : lock'[o[1]] = v
    <3>1. \A v \in Thread : chain'[BatchHead(v)] = chain[BatchHead(v)]
      BY <1>4, <1>8, PageHeads DEF ListHead
    <3> QED BY <3>1, <1>3 DEF PlacesInv, ListsInv
  <2>6. ASSUME NEW q1 \in Page
        PROVE  /\ \A o \in Range(chain'[PageHead(q1)]) : o[2] = data'[q1]
               /\ q1 > pgBump' => chain'[PageHead(q1)] = <<>>
    <3>1. CASE q1 = p
      BY <3>1, <1>8
    <3>2. CASE q1 # p
      <4>1. chain'[PageHead(q1)] = chain[PageHead(q1)] /\ data'[q1] = data[q1]
        BY <3>2, <1>3, <1>4, <1>8, PageHeads
      <4> QED BY <4>1, <1>3 DEF PlacesInv, ListsInv
    <3> QED BY <3>1, <3>2
  <2>7. /\ \A q1 \in Page : \A o \in Range(chain'[PageHead(q1)]) : o[2] = data'[q1]
        /\ \A q1 \in Page : q1 > pgBump' => chain'[PageHead(q1)] = <<>>
    BY <2>6
  <2>8. ListsInv
    BY DEF PlacesInv
  <2> QED BY ONLY <2>2, <2>3, <2>4, <2>5, <2>7, <2>8, ListsFrom
<1> QED BY <1>12, <1>15, <1>16, <1>17 DEF PlacesInv

\* Steps that move no object and change no page.
LEMMA PlacesUntouched ==
  ASSUME PlacesInv, UNCHANGED <<live, chain, bump, lock, victim, ring, data, pgBump>>
  PROVE  PlacesInv'
<1>1. Held' = Held
  BY DEF Held, BumpObjects, BumpObject
<1>2. Apart(Held') /\ All(Held') = All(Held)
  BY <1>1 DEF PlacesInv
<1>3. \A d \in Class : InitedPages(d)' = InitedPages(d)
  BY SamePages
<1>4. ListsInv'
  BY DEF PlacesInv, ListsInv, CacheList
<1>5. VictimsFull'
  BY DEF PlacesInv, VictimsFull
<1> QED BY <1>2, <1>3, <1>4, <1>5, PlacesFrom

\* The end of a flush.
LEMMA PlacesEndBatch ==
  ASSUME PagesInv, CountsInv, PlacesInv, NEW t \in Thread, NEW c \in Class, EndBatch(t, c)
  PROVE  PlacesInv'
<1>1. /\ lock[c] = t /\ victim[t] = 0 /\ chain[BatchHead(t)] = <<>>
      /\ lock' = [lock EXCEPT ![c] = Null]
      /\ UNCHANGED <<live, chain, bump, victim, ring, data, pgBump>>
  BY DEF EndBatch, cacheVars, slabVars
<1>2. lock \in [Class -> Thread \cup {Null}] /\ Null \notin Thread
  BY ConstantAssumption DEF PagesInv, PagesTypeOK
<1>3. \A d \in Class, u \in Thread : lock'[d] = u <=> lock[d] = u /\ d # c
  BY <1>1, <1>2
<1>4. Held' = Held
  BY <1>1 DEF Held, BumpObjects, BumpObject
<1>5. Apart(Held') /\ All(Held') = All(Held)
  BY <1>4 DEF PlacesInv
<1>6. ASSUME NEW d \in Class PROVE InitedPages(d)' = InitedPages(d)
  <2> SUFFICES ASSUME NEW q PROVE q \in InitedPages(d)' <=> q \in InitedPages(d)
    OBVIOUS
  <2>1. OnRing(d, q)' <=> OnRing(d, q)
    BY <1>1 DEF OnRing
  <2>2. BeingDestroyed(d, q)' <=> BeingDestroyed(d, q)
    BY <1>1, <1>3 DEF BeingDestroyed
  <2> QED BY <2>1, <2>2, Inited, InitedNext DEF InitedIs
<1>7. ListsInv'
  <2>1. ASSUME NEW v \in Thread, NEW o \in Range(chain[BatchHead(v)]) PROVE lock'[o[1]] = v
    <3>1. BatchHead(v) \in Spot /\ o \in Held[BatchHead(v)]
      BY Spots, HeldIs DEF HeldParts, ListHead
    <3>2. o[1] \in Class /\ lock[o[1]] = v
      BY <3>1, HeldOwned DEF PlacesInv, ListsInv
    <3>3. v # t
      <4>1. Range(<<>>) = {}
        BY DEF Range
      <4> QED BY <4>1, <1>1
    <3> QED BY <3>2, <3>3, <1>1, <1>3
  <2> QED BY <2>1, <1>1 DEF PlacesInv, ListsInv, CacheList
<1>8. VictimsFull'
  BY <1>1, <1>3 DEF PlacesInv, VictimsFull
<1> QED BY <1>1, <1>5, <1>6, <1>7, <1>8, PlacesFrom

\* Every step keeps every object in one spot.
LEMMA PlacesNext ==
  ASSUME PagesInv, PagesInv', CountsInv, ExitInv, PlacesInv, [Next]_vars
  PROVE  PlacesInv'
<1>1. ASSUME NEW t \in Thread, NEW c \in Class, NEW a \in Align, Alloc(t, c, a)
      PROVE  PlacesInv'
  BY <1>1, PlacesAllocFromList, PlacesAllocFromBump, PlacesAllocFromPartial,
     PlacesAllocFromEmpty, PlacesAllocFromFresh DEF Alloc
<1>2. ASSUME NEW t \in Thread, NEW o \in live, Dealloc(t, o) PROVE PlacesInv'
  BY <1>2, PlacesDealloc
<1>3. ASSUME NEW t \in Thread, NEW b \in Block, AllocLarge(t, b) \/ DeallocLarge(t, b)
      PROVE  PlacesInv'
  BY <1>3, PlacesUntouched DEF AllocLarge, DeallocLarge, cacheVars, slabVars
<1>4. ASSUME NEW t \in Thread, Exit(t) \/ Die(t) PROVE PlacesInv'
  BY <1>4, PlacesUntouched DEF Exit, Die, cacheVars, slabVars
<1>5. ASSUME NEW t \in Thread, NEW c \in Class,
             \/ CleanUp(t, c)
             \/ \E n \in 1 .. Len(chain[BatchHead(t)]) : DeallocateRun(t, c, n)
             \/ DestroyPage(t, c)
             \/ EndBatch(t, c)
      PROVE  PlacesInv'
  <2>1. CASE HandleRdTreeRemove(t, c)
    BY <2>1, PlacesUntouched DEF HandleRdTreeRemove, cacheVars, slabVars
  <2> QED BY <1>5, <2>1, PlacesCleanUp, PlacesDeallocateRun, PlacesInsertUninit,
             PlacesEndBatch DEF DestroyPage
<1>6. CASE UNCHANGED vars
  BY <1>6, PlacesUntouched DEF vars
<1> QED BY <1>1, <1>2, <1>3, <1>4, <1>5, <1>6 DEF Next, Flush, Finished

\* Where the objects are, in every reachable state: each in one spot, those of
\* the owned blocks and no others, whatever the threads do.
THEOREM PlacesInvariant == Spec => [](PlacesInv /\ ExitInv)
<1>1. Init => PlacesInv /\ ExitInv
  BY PlacesInit, ExitInit
<1>2. PagesInv /\ PagesInv' /\ CountsInv /\ PlacesInv /\ ExitInv /\ [Next]_vars
        => PlacesInv' /\ ExitInv'
  BY PlacesNext, ExitNext
<1> QED BY <1>1, <1>2, PagesInvariant, CountsInvariant, PTL DEF Spec

-----------------------------------------------------------------------------
(***************************************************************************)
(* The properties.                                                         *)
(***************************************************************************)
\* Linked and Bumped by spots.
LEMMA LinkedAndBumped ==
  ASSUME CountsInv
  PROVE  /\ DOMAIN chain = ListHead
         /\ \A o : o \in Linked <=> \E h \in ListHead : o \in Held[h]
         /\ \A o : o \in Bumped <=> \E x \in BumpSpots : o \in Held[x]
         /\ \A u \in Thread \X Class :
              /\ BumpSpot(u[1], u[2]) \in BumpSpots
              /\ Held[BumpSpot(u[1], u[2])] = BumpObjects(u)
<1>1. DOMAIN chain = ListHead
  BY DEF CountsInv, TypeOK
<1>2. ASSUME NEW o PROVE o \in Linked <=> \E h \in ListHead : o \in Held[h]
  BY <1>1, HeldIs DEF HeldParts, Linked, AllLinked
<1>3. ASSUME NEW u \in Thread \X Class
      PROVE  /\ BumpSpot(u[1], u[2]) \in BumpSpots
             /\ Held[BumpSpot(u[1], u[2])] = BumpObjects(u)
  <2>1. PICK t \in Thread, c \in Class : u = <<t, c>> /\ u[1] = t /\ u[2] = c
    OBVIOUS
  <2>2. BumpObjects(<<t, c>>) = RunObjects(bump[<<t, c>>], c)
    BY DEF BumpObjects, BumpObject, RunObjects, Slice
  <2>3. Held[BumpSpot(t, c)] = RunObjects(bump[<<t, c>>], c)
    BY HeldIs DEF HeldParts
  <2>4. BumpSpot(t, c) \in BumpSpots
    BY Spots
  <2> QED BY <2>1, <2>2, <2>3, <2>4
<1>4. ASSUME NEW o PROVE o \in Bumped <=> \E x \in BumpSpots : o \in Held[x]
  <2>1. ASSUME o \in Bumped PROVE \E x \in BumpSpots : o \in Held[x]
    BY <2>1, <1>3 DEF Bumped
  <2>2. ASSUME NEW x \in BumpSpots, o \in Held[x] PROVE o \in Bumped
    <3>1. PICK t \in Thread, c \in Class : x = BumpSpot(t, c)
      BY DEF BumpSpots
    <3>2. PICK u : u = <<t, c>>
      OBVIOUS
    <3> u \in Thread \X Class /\ u[1] = t /\ u[2] = c
      BY <3>2
    <3>3. o \in BumpObjects(u)
      BY <2>2, <3>1, <3>2, <1>3
    <3> QED BY <3>3 DEF Bumped
  <2> QED BY <2>1, <2>2
<1> QED BY <1>1, <1>2, <1>3, <1>4

\* No object is in two places at once, in any thread's cache, on any page or
\* with the program (ThreadCacheUnit::allocate and deallocate).
THEOREM ObjectsInOnePlace == Spec => []OnePlacePerObject
<1>1. ASSUME CountsInv, PlacesInv PROVE OnePlacePerObject
  <2>1. ASSUME NEW x \in Spot, NEW y \in Spot, x # y PROVE Disjoint(Held[x], Held[y])
    BY <1>1, <2>1 DEF PlacesInv, Apart
  <2>2. NoSharing(chain)
    <3>1. ASSUME NEW g \in ListHead, NEW h \in ListHead, g # h
          PROVE  Disjoint(Range(chain[g]), Range(chain[h]))
      BY <2>1, <3>1, Spots, HeldIs DEF HeldParts
    <3> QED BY <1>1, <3>1, LinkedAndBumped DEF NoSharing, PlacesInv, ListsInv
  <2>3. ASSUME NEW u \in Thread \X Class, NEW v \in Thread \X Class, u # v
        PROVE  Disjoint(BumpObjects(u), BumpObjects(v))
    <3>1. BumpSpot(u[1], u[2]) # BumpSpot(v[1], v[2])
      BY <2>3 DEF BumpSpot
    <3> QED BY <3>1, <2>1, <1>1, LinkedAndBumped DEF Spot
  <2>4. Disjoint(Linked, Bumped)
    <3> SUFFICES ASSUME NEW o, o \in Linked, o \in Bumped PROVE FALSE
      BY DEF Disjoint
    <3>1. PICK h \in ListHead, x \in BumpSpots : o \in Held[h] /\ o \in Held[x]
      BY <1>1, LinkedAndBumped
    <3> QED BY <3>1, <2>1, Spots DEF Disjoint, Spot
  <2>5. Disjoint(live, Linked) /\ Disjoint(live, Bumped)
    <3> SUFFICES ASSUME NEW o \in live, o \in Linked \/ o \in Bumped PROVE FALSE
      BY DEF Disjoint
    <3>1. PICK x \in ListHead \cup BumpSpots : o \in Held[x]
      BY <1>1, LinkedAndBumped
    <3>2. o \in Held[LiveSpot] /\ x # LiveSpot /\ x \in Spot /\ LiveSpot \in Spot
      BY Spots, HeldIs DEF HeldParts, Spot
    <3> QED BY <3>1, <3>2, <2>1 DEF Disjoint
  <2> QED BY <2>2, <2>3, <2>4, <2>5 DEF OnePlacePerObject
<1> QED BY <1>1, CountsInvariant, PlacesInvariant, PTL

\* The objects of the blocks the classes own are all somewhere, and nothing
\* else is: a flush, a destroyed page, a thread that exits lose no object.
THEOREM NothingLeaks == Spec => []NoLeak
<1>1. ASSUME PagesInv, CountsInv, PlacesInv PROVE NoLeak
  <2>1. ASSUME NEW o PROVE o \in live \cup Linked \cup Bumped <=> o \in All(Held)
    <3>1. o \in All(Held) <=> \E x \in Spot : o \in Held[x]
      BY DEF All
    <3>2. o \in live <=> o \in Held[LiveSpot]
      BY HeldIs DEF HeldParts
    <3> QED BY <1>1, <3>1, <3>2, LinkedAndBumped DEF Spot
  <2>2. ASSUME NEW o
        PROVE  o \in Object /\ Owned(o) <=>
                 o \in UNION {UNION {Objects(c, data[p]) : p \in InitedPages(c)} : c \in Class}
    <3>1. ASSUME o \in Object, Owned(o)
          PROVE  \E c \in Class : \E p \in InitedPages(c) : o \in Objects(c, data[p])
      <4>1. o[1] \in Class /\ o \in Objects(o[1], o[2])
        BY <3>1 DEF Object, Objects
      <4> QED BY <4>1, <3>1 DEF Owned
    <3>2. ASSUME NEW c \in Class, NEW p \in InitedPages(c), o \in Objects(c, data[p])
          PROVE  o \in Object /\ Owned(o)
      <4>1. data[p] \in Block
        BY <1>1, InitedFacts
      <4>2. o \in Object
        BY <3>2, <4>1 DEF Object
      <4>3. o[1] = c /\ o[2] = data[p]
        BY <3>2 DEF Objects
      <4> QED BY <4>2, <4>3 DEF Owned
    <3> QED BY <3>1, <3>2
  <2> QED BY <1>1, <2>1, <2>2 DEF NoLeak, PlacesInv
<1> QED BY <1>1, PagesInvariant, CountsInvariant, PlacesInvariant, PTL

\* A thread whose destructor has run has left nothing in its cache and holds no
\* slab (free_thread_cache).
THEOREM DeadThreadsHoldNothing == Spec => []DeadHoldNothing
<1>1. ASSUME PagesInv, CountsInv, PlacesInv, ExitInv PROVE DeadHoldNothing
  <2> SUFFICES ASSUME NEW t \in Thread, phase[t] = "dead"
               PROVE  /\ \A c \in Class : Clean(t, c) /\ lock[c] # t
                      /\ chain[BatchHead(t)] = <<>> /\ victim[t] = 0
    BY DEF DeadHoldNothing, Clean
  <2>1. cleanIdx[t] = NClass + 1 /\ \A c \in Class : lock[c] # t
    BY <1>1 DEF ExitInv
  <2>2. \A c \in Class : c < cleanIdx[t]
    BY <2>1, ConstantAssumption DEF Class
  <2>3. \A c \in Class : Clean(t, c)
    BY <1>1, <2>2 DEF ExitInv
  <2>4. Range(chain[BatchHead(t)]) = {} /\ victim[t] = 0
    BY <1>1, <2>1, NoBatch
  <2>5. BatchHead(t) \in ListHead
    BY DEF ListHead
  <2>6. chain[BatchHead(t)] \in Seq(Object)
    BY <1>1, <2>5 DEF CountsInv, TypeOK
  <2>7. chain[BatchHead(t)] = <<>>
    <3>1. ASSUME chain[BatchHead(t)] # <<>> PROVE FALSE
      <4>1. 1 \in 1 .. Len(chain[BatchHead(t)])
        BY <2>6, <3>1, EmptySeq
      <4>2. chain[BatchHead(t)][1] \in Range(chain[BatchHead(t)])
        BY <2>6, <4>1, InRange
      <4> QED BY <2>4, <4>2
    <3> QED BY <3>1
  <2> QED BY <2>1, <2>3, <2>4, <2>7
<1> QED BY <1>1, PagesInvariant, CountsInvariant, PlacesInvariant, PTL

\* The run at the head of a batch is what deallocate_batch asserts it to be.
LEMMA RunsAreSane ==
  ASSUME PagesInv, CountsInv, PlacesInv, ExitInv, NEW t \in Thread, NEW c \in Class,
         lock[c] = t, victim[t] = 0, NEW n, IsRun(chain[BatchHead(t)], n)
  PROVE  RunIsSane(c, chain[BatchHead(t)], n)
<1>1. PICK s, b : s = chain[BatchHead(t)] /\ b = s[1][2]
  OBVIOUS
<1>2. BatchHead(t) \in Spot /\ Held[BatchHead(t)] = Range(s)
  BY <1>1, Spots, HeldIs DEF HeldParts, ListHead
<1>3. s \in Seq(Object) /\ IsInjective(s)
  <2>1. BatchHead(t) \in ListHead
    BY DEF ListHead
  <2> QED BY <1>1, <2>1 DEF CountsInv, TypeOK, PlacesInv, ListsInv
<1>4. n \in 1 .. Len(s) /\ n \in Nat /\ \A i \in 1 .. n : s[i][2] = b
  BY <1>1, <1>3 DEF IsRun
<1>5. ASSUME NEW o \in Range(s)
      PROVE  o[1] = c /\ o \in Object /\ \E p \in InitedPages(c) : data[p] = o[2]
  <2>1. /\ o \in Object /\ o[1] \in Class
        /\ \E p \in InitedPages(o[1]) : data[p] = o[2]
    BY <1>2, HeldOwned
  <2>2. lock[o[1]] = t
    BY <1>1 DEF PlacesInv, ListsInv
  <2>3. o[1] = c
    BY <2>1, <2>2 DEF ExitInv
  <2> QED BY <2>1, <2>3
<1>6. PICK p \in InitedPages(c) : data[p] = b
  <2>1. 1 \in 1 .. Len(s)
    BY <1>3, <1>4
  <2>2. s[1] \in Range(s)
    BY <1>3, <2>1, InRange
  <2> QED BY <2>2, <1>1, <1>5
<1>7. p \in Page /\ b \in Block
  BY <1>6, InitedFacts
<1>8. PICK k \in Kind \ {"uninit"} : p \in Range(ring[<<c, k>>])
  <2>1. ASSUME BeingDestroyed(c, p) PROVE FALSE
    BY <2>1, Zenon DEF BeingDestroyed
  <2> QED BY <2>1, Inited DEF InitedIs, OnRing
<1>9. PICK r \in Ring : r = <<c, k>> /\ r[1] = c /\ r[2] = k
  BY RingNames
<1>10. rd[b] = p /\ p # 0
  BY <1>6, <1>7, <1>8, <1>9 DEF PagesInv, BlocksInv, Page
<1>11. /\ chain[PageHead(p)] \in Seq(Objects(c, b)) /\ IsInjective(chain[PageHead(p)])
       /\ PageHead(p) \in Spot /\ PageHead(p) # BatchHead(t)
       /\ Held[PageHead(p)] = Range(chain[PageHead(p)])
  BY <1>6, <1>7, PageListIn, PageSpots
<1>12. PICK l, free : l = SubSeq(s, 1, n) /\ free = chain[PageHead(p)]
  OBVIOUS
<1>13. l \in Seq(Object) /\ IsInjective(l) /\ Len(l) = n /\ Range(l) \subseteq Range(s)
  <2>1. n \in 0 .. Len(s)
    BY <1>3, <1>4
  <2>2. /\ l \in Seq(Object) /\ IsInjective(l) /\ Len(l) = n
        /\ Range(l) \cup Range(SubSeq(s, n + 1, Len(s))) = Range(s)
    BY ONLY <2>1, <1>3, <1>12, CutElements
  <2> QED BY <2>2
<1>14. \A i \in 1 .. n : l[i] \in Objects(c, b)
  <2> SUFFICES ASSUME NEW i \in 1 .. n PROVE l[i] \in Objects(c, b)
    OBVIOUS
  <2>1. l[i] = s[i]
    BY ONLY <1>3, <1>4, <1>12, i \in 1 .. n
  <2>2. i \in 1 .. Len(s)
    BY <1>3, <1>4
  <2>3. s[i] \in Range(s)
    BY <2>2, <1>3, InRange
  <2>4. s[i] \in Object /\ s[i][1] = c /\ s[i][2] = b
    BY <2>3, <1>4, <1>5
  <2> QED BY <2>1, <2>4 DEF Object, Objects
<1>15. l \in Seq(Objects(c, b))
  BY <1>13, <1>14
<1>16. Disjoint(Range(l), Range(free))
  <2>1. Disjoint(Range(s), Range(free))
    BY <1>2, <1>11, <1>12 DEF PlacesInv, Apart
  <2> QED BY <2>1, <1>13 DEF Disjoint
<1>17. l \o free \in Seq(Objects(c, b)) /\ IsInjective(l \o free)
       /\ Len(l \o free) = n + Len(free)
  <2>1. free \in Seq(Objects(c, b)) /\ IsInjective(free)
    BY <1>11, <1>12
  <2>2. /\ l \o free \in Seq(Objects(c, b)) /\ IsInjective(l \o free)
        /\ Len(l \o free) = Len(l) + Len(free)
    BY ONLY <2>1, <1>13, <1>15, <1>16, ConcatElements
  <2> QED BY <2>2, <1>13
<1>18. n + Len(free) <= PgCount[c]
  <2>1. IsFiniteSet(Objects(c, b)) /\ Cardinality(Objects(c, b)) = PgCount[c]
    BY BlockObjects
  <2>2. Len(l \o free) <= Cardinality(Objects(c, b))
    BY ONLY <2>1, <1>17, FullListHasAll
  <2> QED BY <2>1, <2>2, <1>17
<1>19. /\ counter[p] \in Nat /\ Len(free) \in Nat /\ PgCount[c] \in Nat
       /\ k \in {"full", "partial", "empty"} /\ PageFine(r, p)
  <2>1. counter[p] \in Nat
    BY <1>7 DEF CountsInv, TypeOK
  <2>2. Len(free) \in Nat
    BY <1>11, <1>12
  <2>3. k \in {"full", "partial", "empty"}
    BY DEF Kind
  <2>4. PageFine(r, p)
    BY <1>8, <1>9, Accounts DEF CountsInv
  <2> QED BY <2>1, <2>2, <2>3, <2>4, Counts
<1>20. counter[p] + Len(free) = PgCount[c]
  BY <1>9, <1>12, <1>19 DEF PageFine
<1>21. counter[p] >= n
  BY <1>4, <1>18, <1>19, <1>20
<1>22. RingOf(c, p) = k
  <2>1. CASE k = "full"
    BY <2>1, <1>9, <1>19 DEF PageFine, RingOf
  <2>2. CASE k = "partial"
    BY <2>2, <1>9, <1>12, <1>19, <1>20 DEF PageFine, RingOf
  <2>3. CASE k = "empty"
    BY <2>3, <1>4, <1>9, <1>19, <1>21 DEF PageFine
  <2> QED BY <2>1, <2>2, <2>3, <1>19
<1> QED BY <1>1, <1>6, <1>8, <1>10, <1>21, <1>22 DEF RunIsSane

\* The assertions of deallocate_batch, ObjectPage::deallocate and
\* ThreadCacheUnit::allocate never fail.
THEOREM AssertionsAlwaysHold == Spec => []AssertionsHold
<1>1. ASSUME PagesInv, CountsInv, PlacesInv, ExitInv PROVE AssertionsHold
  <2>1. ASSUME NEW t \in Thread, NEW c \in Class, NeedsRefill(t, c, 1)
        PROVE  length[<<t, c>>] + bump[<<t, c>>].count = 0
    <3>1. /\ CacheList(t, c) \in Seq(Object) /\ length[<<t, c>>] = Len(CacheList(t, c))
          /\ length[<<t, c>>] \in Nat /\ bump[<<t, c>>].count \in Nat
      BY <1>1, UnitTypes, Heads DEF CountsInv, LengthIsExact
    <3>2. \A o \in Object : o \in AlignedTo[1]
      BY ConstantAssumption
    <3>3. length[<<t, c>>] = 0
      <4>1. CASE \A i \in DOMAIN CacheList(t, c) : CacheList(t, c)[i] \notin AlignedTo[1]
        BY <4>1, <3>1, <3>2
      <4> QED BY <4>1, <2>1 DEF NeedsRefill, ListMisses
    <3>4. ASSUME bump[<<t, c>>].count > 0 PROVE FALSE
      <4>1. 0 \in 0 .. bump[<<t, c>>].count - 1
        BY <3>1, <3>4
      <4>2. BumpObject(t, c, 0) \in AlignedTo[1]
        BY <1>1, <4>1, <3>2, BumpObjectType
      <4> QED BY <4>1, <4>2, <2>1 DEF NeedsRefill
    <3> QED BY <3>1, <3>3, <3>4
  <2>2. ASSUME NEW t \in Thread, NEW c \in Class, lock[c] = t, victim[t] = 0,
               NEW n \in 1 .. Len(chain[BatchHead(t)]), IsRun(chain[BatchHead(t)], n)
        PROVE  RunIsSane(c, chain[BatchHead(t)], n)
    BY <1>1, <2>2, RunsAreSane
  <2> QED BY <2>1, <2>2 DEF AssertionsHold
<1> QED BY <1>1, PagesInvariant, CountsInvariant, PlacesInvariant, PTL

\* A held object that is not in the live spot is not live.
LEMMA NotLive ==
  ASSUME PlacesInv, NEW x \in Spot, x # LiveSpot, NEW o \in Held[x]
  PROVE  o \in Object \ live /\ Owned(o)
<1>1. o \in Object /\ Owned(o)
  BY DEF PlacesInv, All
<1>2. Disjoint(Held[x], live)
  BY Spots, HeldIs DEF PlacesInv, Apart, HeldParts
<1> QED BY <1>1, <1>2 DEF Disjoint

\* What an allocation takes: an object the program does not hold, of a block of
\* the class or of a free one, which is aligned or the first of its block.
Taken(a, o) ==
  /\ o \in Object \ live /\ live' = live \cup {o} /\ large' = large
  /\ Owned(o) \/ o[2] \in freeBlocks
  /\ o \in AlignedTo[a] \/ o[3] = 0

\* allocate_all on a page that is not full.
LEMMA RefillTakes ==
  ASSUME PagesInv, CountsInv, PlacesInv, ExitInv, NEW t \in Thread, NEW c \in Class,
         NEW a \in Align, NEW k \in {"partial", "empty"}, k = "partial" => a = 1,
         NEW p \in Range(ring[<<c, k>>]), AllocateAll(t, c, p, data[p], counter[p]),
         large' = large
  PROVE  \E o : Taken(a, o)
<1>1. PICK r \in Ring : r = <<c, k>> /\ r[1] = c /\ r[2] = k
  BY RingNames
<1>2. p \in InitedPages(c)
  BY Inited DEF InitedIs, OnRing, Kind
<1>3. p \in Page /\ data[p] \in Block
  BY <1>2, InitedFacts
<1>4. /\ chain[PageHead(p)] \in Seq(Objects(c, data[p])) /\ PageHead(p) \in Spot
      /\ PageHead(p) # LiveSpot /\ Held[PageHead(p)] = Range(chain[PageHead(p)])
  BY <1>2, <1>3, PageListIn, PageSpots
<1>5. PageFine(r, p) /\ counter[p] \in Nat
  BY <1>1, <1>3, Accounts DEF CountsInv, TypeOK
<1>6. CASE counter[p] = 0
  <2>1. k = "empty" /\ Len(chain[PageHead(p)]) = PgCount[c]
    BY <1>1, <1>5, <1>6 DEF PageFine
  <2>2. <<c, data[p], 0>> \in Held[PageHead(p)]
    BY <2>1, <1>2, PageFull, BlockObjects
  <2>3. live' = live \cup {<<c, data[p], 0>>}
    BY <1>6 DEF AllocateAll
  <2>4. PICK o : o = <<c, data[p], 0>>
    OBVIOUS
  <2>5. o \in Object \ live /\ Owned(o)
    BY <2>2, <2>4, <1>4, NotLive
  <2>6. o[3] = 0
    BY <2>4
  <2> QED BY <2>3, <2>4, <2>5, <2>6 DEF Taken
<1>7. CASE counter[p] # 0
  <2>1. k = "partial" /\ Len(chain[PageHead(p)]) > 0 /\ a = 1
    BY <1>1, <1>5, <1>7 DEF PageFine
  <2>2. PICK o : o = Head(chain[PageHead(p)])
    OBVIOUS
  <2>3. o \in Held[PageHead(p)]
    <3>1. 1 \in 1 .. Len(chain[PageHead(p)]) /\ o = chain[PageHead(p)][1]
      BY <1>4, <2>1, <2>2
    <3> QED BY <3>1, <1>4, InRange
  <2>4. o \in Object \ live /\ Owned(o)
    BY <2>3, <1>4, NotLive
  <2>5. live' = live \cup {o}
    BY <1>7, <2>2 DEF AllocateAll
  <2> QED BY <2>1, <2>4, <2>5, ConstantAssumption DEF Taken
<1> QED BY <1>6, <1>7

\* ThreadCacheUnit::allocate, all its cases.
LEMMA AllocTakes ==
  ASSUME PagesInv, CountsInv, PlacesInv, ExitInv, NEW t \in Thread, NEW c \in Class,
         NEW a \in Align, Alloc(t, c, a)
  PROVE  \E o : Taken(a, o)
<1>1. CASE AllocFromList(t, c, a)
  <2>1. PICK i \in DOMAIN CacheList(t, c) :
          FirstAligned(CacheList(t, c), a, i) /\ live' = live \cup {CacheList(t, c)[i]}
    BY <1>1 DEF AllocFromList
  <2>2. CacheList(t, c)[i] \in Held[CacheHead(t, c)]
    <3>1. CacheList(t, c) \in Seq(Object) /\ Held[CacheHead(t, c)] = Range(CacheList(t, c))
      BY UnitTypes, UnitSpots
    <3> QED BY <3>1, InRange
  <2>3. CacheList(t, c)[i] \in Object \ live /\ Owned(CacheList(t, c)[i])
    BY <2>2, UnitSpots, NotLive
  <2> QED BY <1>1, <2>1, <2>3 DEF Taken, AllocFromList, FirstAligned
<1>2. CASE AllocFromBump(t, c, a)
  <2>1. PICK k \in 0 .. bump[<<t, c>>].count - 1 :
          BumpObject(t, c, k) \in AlignedTo[a] /\ live' = live \cup {BumpObject(t, c, k)}
    BY <1>2 DEF AllocFromBump
  <2>2. BumpObject(t, c, k) \in Held[BumpSpot(t, c)]
    <3>1. Held[BumpSpot(t, c)] = RunObjects(bump[<<t, c>>], c)
      BY UnitSpots
    <3> QED BY <3>1 DEF RunObjects, Slice, BumpObject
  <2>3. BumpObject(t, c, k) \in Object \ live /\ Owned(BumpObject(t, c, k))
    BY <2>2, UnitSpots, NotLive
  <2> QED BY <1>2, <2>1, <2>3 DEF Taken, AllocFromBump
<1>3. CASE AllocFromPartial(t, c, a)
  <2>1. PICK p : p = Head(ring[<<c, "partial">>])
    OBVIOUS
  <2>2. /\ ring[<<c, "partial">>] # <<>> /\ a = 1 /\ large' = large
        /\ AllocateAll(t, c, p, data[p], counter[p])
    BY <1>3, <2>1 DEF AllocFromPartial
  <2>3. p \in Range(ring[<<c, "partial">>])
    BY <2>1, <2>2, RingNames, HeadPage
  <2> QED BY <2>2, <2>3, RefillTakes
<1>4. CASE AllocFromEmpty(t, c, a)
  <2>1. PICK p : p = Head(ring[<<c, "empty">>])
    OBVIOUS
  <2>2. /\ ring[<<c, "empty">>] # <<>> /\ large' = large
        /\ AllocateAll(t, c, p, data[p], counter[p])
    BY <1>4, <2>1 DEF AllocFromEmpty
  <2>3. p \in Range(ring[<<c, "empty">>])
    BY <2>1, <2>2, RingNames, HeadPage
  <2> QED BY <2>2, <2>3, RefillTakes
<1>5. CASE AllocFromFresh(t, c, a)
  <2>1. PICK b \in freeBlocks : (\E p : AllocateAll(t, c, p, b, 0)) /\ large' = large
    <3>1. PICK p : p = IF ring[<<c, "uninit">>] # <<>> THEN Head(ring[<<c, "uninit">>])
                       ELSE pgBump + 1
      OBVIOUS
    <3>2. \E b \in freeBlocks : AllocateAll(t, c, p, b, 0)
      BY <1>5, <3>1 DEF AllocFromFresh
    <3>3. large' = large
      BY <1>5 DEF AllocFromFresh
    <3> QED BY <3>2, <3>3
  <2>2. PICK o : o = <<c, b, 0>>
    OBVIOUS
  <2> o[1] = c /\ o[2] = b /\ o[3] = 0
    BY <2>2
  <2>3. b \in Block /\ o \in Object
    <3>1. b \in Block
      BY DEF PagesInv, PagesTypeOK
    <3> QED BY <3>1, <2>2, BlockObjects DEF Object
  <2>4. live' = live \cup {o}
    BY <2>1, <2>2 DEF AllocateAll
  <2>5. ASSUME o \in live PROVE FALSE
    <3>1. LiveSpot \in Spot /\ o \in Held[LiveSpot]
      BY <2>5, Spots, HeldIs DEF HeldParts
    <3>2. PICK q \in InitedPages(c) : data[q] = b
      BY <3>1, <2>2, HeldOwned
    <3>3. q \in Page /\ data[q] # Null
      BY <3>2, InitedFacts, ConstantAssumption
    <3> QED BY <3>2, <3>3 DEF PagesInv, BlocksInv
  <2> QED BY <2>1, <2>2, <2>3, <2>4, <2>5 DEF Taken
<1> QED BY <1>1, <1>2, <1>3, <1>4, <1>5 DEF Alloc

\* When every block starts at a multiple of every alignment asked for, every
\* allocation hands out one object, which was not in use and is aligned.
THEOREM AllocsAreAligned ==
  ASSUME \A a \in Align, c \in Class, b \in Block : <<c, b, 0>> \in AlignedTo[a]
  PROVE  Spec => AllocIsAligned
<1>1. ASSUME PagesInv, CountsInv, PlacesInv, ExitInv, NEW t \in Thread, NEW c \in Class,
             NEW a \in Align, Alloc(t, c, a)
      PROVE  \E o \in AlignedTo[a] \ live : live' = live \cup {o}
  <2>1. PICK o : Taken(a, o)
    BY <1>1, AllocTakes
  <2>2. o \in AlignedTo[a]
    <3>1. CASE o[3] = 0
      <4>1. o \in Object
        BY <2>1 DEF Taken
      <4>2. PICK d \in Class, b \in Block : o \in Objects(d, b)
        BY <4>1 DEF Object
      <4>3. o = <<d, b, 0>>
        BY <3>1, <4>2 DEF Objects
      <4> QED BY <4>3
    <3> QED BY <3>1, <2>1 DEF Taken
  <2> QED BY <2>1, <2>2 DEF Taken
<1>2. PagesInv /\ CountsInv /\ PlacesInv /\ ExitInv =>
        \A t \in Thread, c \in Class, a \in Align :
          Alloc(t, c, a) => \E o \in AlignedTo[a] \ live : live' = live \cup {o}
  BY <1>1
<1> QED BY <1>2, PagesInvariant, CountsInvariant, PlacesInvariant, PTL DEF AllocIsAligned

-----------------------------------------------------------------------------
(***************************************************************************)
(* The contract of the global allocator.                                   *)
(***************************************************************************)
\* What the program holds: objects and whole blocks.
Large(b) == <<0, b, 0>>
Extents == Object \cup {Large(b) : b \in Block}
InUse == live \cup {Large(b) : b \in large}

\* The contract with these in it.
ContractStep ==
  \/ \E e \in Extents : /\ \A u \in InUse : ~ ExtentOverlap(e, u)
                        /\ InUse' = InUse \cup {e}
  \/ \E e \in InUse : InUse' = InUse \ {e}
  \/ InUse' = InUse

LEMMA ContractIs ==
  /\ live = {} /\ large = {} => Contract!Init
  /\ ContractStep => [Contract!Next]_InUse
<1>1. live = {} /\ large = {} => Contract!Init
  BY DEF Contract!Init
<1>2. ContractStep => [Contract!Next]_InUse
  BY DEF Contract!Next, Contract!Alloc, Contract!Dealloc, ContractStep, InUse, Extents, Large
<1> QED BY <1>1, <1>2

\* Objects and whole blocks are different extents.
LEMMA LargeIsNoObject ==
  /\ \A o \in Object : o[1] \in Class /\ o # Large(o[2])
  /\ \A o \in Object : \A b : o # Large(b)
  /\ \A b, d : Large(b) = Large(d) => b = d
  /\ \A b : Large(b)[1] = 0 /\ Large(b)[2] = b
<1>1. 0 \notin Class
  BY DEF Class
<1>2. \A b : Large(b)[1] = 0 /\ Large(b)[2] = b
  BY DEF Large
<1>3. \A o \in Object : o[1] \in Class
  BY ObjectFields
<1> QED BY <1>1, <1>2, <1>3

\* An object taken overlaps nothing in use: a live object of the same block is
\* of the same class, and no block in use by itself belongs to a class.
LEMMA TakenIsFree ==
  ASSUME PagesInv, PlacesInv, ExitInv, NEW a, NEW o, Taken(a, o), NEW u \in InUse
  PROVE  ~ ExtentOverlap(o, u)
<1>1. o \in Object /\ o \notin live /\ (Owned(o) \/ o[2] \in freeBlocks)
  BY DEF Taken
<1>2. o[1] \in Class /\ Null \notin Block
  BY <1>1, ObjectFields, ConstantAssumption
<1>3. CASE u \in live
  <2>1. LiveSpot \in Spot /\ u \in Held[LiveSpot]
    BY <1>3, Spots, HeldIs DEF HeldParts
  <2>2. u \in Object /\ u[1] \in Class
    BY <2>1, HeldOwned
  <2>3. PICK q \in InitedPages(u[1]) : data[q] = u[2]
    BY <2>1, HeldOwned
  <2>4. q \in Page /\ data[q] # Null /\ data[q] \notin freeBlocks
    <3>1. q \in Page /\ data[q] \in Block
      BY <2>2, InitedFacts
    <3> QED BY <3>1, <1>2 DEF PagesInv, BlocksInv
  <2> SUFFICES ASSUME o[2] = u[2], o[1] = u[1] => o[3] = u[3] PROVE FALSE
    BY DEF ExtentOverlap
  <2>5. PICK p \in InitedPages(o[1]) : data[p] = o[2]
    BY <1>1, <2>3, <2>4 DEF Owned
  <2>6. o[1] = u[1]
    BY <2>2, <2>3, <2>5, <1>2, OwnerUnique
  <2>7. o = u
    <3>1. \A x \in Object : x = <<x[1], x[2], x[3]>>
      BY DEF Object, Objects
    <3> QED BY <3>1, <2>2, <2>6, <1>1
  <2> QED BY <2>7, <1>1, <1>3
<1>4. CASE u \notin live
  <2>1. PICK b \in large : u = Large(b)
    BY <1>4 DEF InUse
  <2>2. u[2] = b
    BY <2>1, LargeIsNoObject
  <2> SUFFICES ASSUME o[2] = b PROVE FALSE
    BY <2>2 DEF ExtentOverlap
  <2>3. b \notin freeBlocks
    BY DEF PagesInv, BlocksInv, Disjoint
  <2>4. PICK p \in InitedPages(o[1]) : data[p] = o[2]
    BY <1>1, <2>3 DEF Owned
  <2>5. p \in Page /\ data[p] \in Block
    BY <2>4, <1>2, InitedFacts
  <2> QED BY <2>4, <2>5, <1>2 DEF PagesInv, BlocksInv
<1> QED BY <1>3, <1>4

\* allocate_large takes a block that no object in use is in.
LEMMA LargeIsFree ==
  ASSUME PagesInv, PlacesInv, NEW b \in freeBlocks, NEW u \in InUse
  PROVE  ~ ExtentOverlap(Large(b), u)
<1>1. u[2] # b
  <2>1. CASE u \in live
    <3>1. LiveSpot \in Spot /\ u \in Held[LiveSpot]
      BY <2>1, Spots, HeldIs DEF HeldParts
    <3>2. u[1] \in Class
      BY <3>1, HeldOwned
    <3>3. PICK q \in InitedPages(u[1]) : data[q] = u[2]
      BY <3>1, HeldOwned
    <3>4. q \in Page /\ data[q] \in Block
      BY <3>2, InitedFacts
    <3> QED BY <3>3, <3>4, ConstantAssumption DEF PagesInv, BlocksInv
  <2>2. CASE u \notin live
    <3>1. PICK d \in large : u = Large(d)
      BY <2>2 DEF InUse
    <3> QED BY <3>1, LargeIsNoObject DEF PagesInv, BlocksInv, Disjoint
  <2> QED BY <2>1, <2>2
<1> QED BY <1>1, LargeIsNoObject DEF ExtentOverlap

\* Every step of the caches and the slabs is a step of the contract.
LEMMA ContractNext ==
  ASSUME PagesInv, CountsInv, PlacesInv, ExitInv, [Next]_vars
  PROVE  ContractStep
<1>1. live \subseteq Object /\ large \subseteq Block /\ freeBlocks \subseteq Block
  BY DEF CountsInv, TypeOK
<1>2. CASE UNCHANGED <<live, large>>
  BY <1>2 DEF ContractStep, InUse
<1>3. ASSUME NEW t \in Thread, NEW c \in Class, NEW a \in Align, Alloc(t, c, a)
      PROVE  ContractStep
  <2>1. PICK o : Taken(a, o)
    BY <1>3, AllocTakes
  <2>2. \A u \in InUse : ~ ExtentOverlap(o, u)
    BY <2>1, TakenIsFree
  <2>3. o \in Extents /\ InUse' = InUse \cup {o}
    BY <2>1 DEF Taken, InUse, Extents
  <2> QED BY <2>2, <2>3 DEF ContractStep
<1>4. ASSUME NEW t \in Thread, NEW o \in live, Dealloc(t, o) PROVE ContractStep
  <2>1. live' = live \ {o} /\ large' = large
    BY <1>4 DEF Dealloc
  <2>2. \A b : o # Large(b)
    BY <1>1, LargeIsNoObject
  <2>3. o \in InUse /\ InUse' = InUse \ {o}
    BY <2>1, <2>2 DEF InUse
  <2> QED BY <2>3 DEF ContractStep
<1>5. ASSUME NEW t \in Thread, NEW b \in Block, AllocLarge(t, b) PROVE ContractStep
  <2>1. b \in freeBlocks /\ large' = large \cup {b} /\ live' = live
    BY <1>5 DEF AllocLarge
  <2>2. \A u \in InUse : ~ ExtentOverlap(Large(b), u)
    BY <2>1, LargeIsFree
  <2>3. Large(b) \in Extents /\ InUse' = InUse \cup {Large(b)}
    BY <2>1 DEF InUse, Extents
  <2> QED BY <2>2, <2>3 DEF ContractStep
<1>6. ASSUME NEW t \in Thread, NEW b \in Block, DeallocLarge(t, b) PROVE ContractStep
  <2>1. b \in large /\ large' = large \ {b} /\ live' = live
    BY <1>6 DEF DeallocLarge
  <2>2. Large(b) \notin live
    BY <1>1, LargeIsNoObject
  <2>3. {Large(d) : d \in large \ {b}} = {Large(d) : d \in large} \ {Large(b)}
    BY LargeIsNoObject
  <2>4. Large(b) \in InUse /\ InUse' = InUse \ {Large(b)}
    BY <2>1, <2>2, <2>3 DEF InUse
  <2> QED BY <2>4 DEF ContractStep
<1>7. ASSUME NEW t \in Thread, Exit(t) PROVE ContractStep
  BY <1>2, <1>7, SMTT(30) DEF Exit
<1>8. ASSUME NEW t \in Thread, Flush(t) PROVE ContractStep
  BY <1>2, <1>8 DEF Flush, CleanUp, DeallocateRun, DestroyPage, HandleRdTreeRemove,
     InsertUninit, EndBatch, Die
<1> QED BY <1>2, <1>3, <1>4, <1>5, <1>6, <1>7, <1>8 DEF Next, Finished, vars

\* Seen from the program, UniAlloc's caches, slabs and pages are a global
\* allocator: memory that is handed out overlaps nothing in use, and only what
\* was handed out is taken back (GlobalAlloc for RustAllocator).
THEOREM CachesImplementContract == Spec => ImplementsContract
<1>1. Init => live = {} /\ large = {}
  BY DEF Init
<1>2. PagesInv /\ CountsInv /\ PlacesInv /\ ExitInv /\ [Next]_vars
        => [Contract!Next]_InUse
  BY ContractNext, ContractIs
<1>3. Init => Contract!Init
  BY <1>1, ContractIs
<1>4. Spec => [](PagesInv /\ CountsInv /\ PlacesInv /\ ExitInv)
  BY PagesInvariant, CountsInvariant, PlacesInvariant, PTL
<1>5. Spec => Contract!Init /\ [][Contract!Next]_InUse
  BY <1>2, <1>3, <1>4, PTL DEF Spec
<1> QED BY <1>5, PTL DEF ImplementsContract, Contract!Spec, InUse, Large
=============================================================================
