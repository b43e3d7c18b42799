------------------------ MODULE SeparateSlab_proofs ------------------------
(***************************************************************************)
(* What holds of SeparateSlab for every number of classes, blocks and      *)
(* descriptors, every size of objects and every alignment.                 *)
(*                                                                         *)
(* The argument has two halves.  The rings are links between indices: a    *)
(* ring is the sequence met from its start along next, and what unlinking  *)
(* and linking do to the links is removing from and appending to that      *)
(* sequence.  The pages are then sets on the rings: each step changes one  *)
(* page of one class, and moves it to the ring its counter calls for.      *)
(*                                                                         *)
(* A third part is about the rings of the other slab, efficient_sc.rs:     *)
(* PageRings, with pointers that are left stale and two ways to recognise  *)
(* a ring of one page, implements the sequences of Rings.                  *)
(***************************************************************************)
EXTENDS SeparateSlab, PageRings, LinkedLists_proofs

-----------------------------------------------------------------------------
(***************************************************************************)
(* The inductive invariant.                                                *)
(***************************************************************************)
Slab ==
  [start : [Kind -> Nat], count : [Kind -> Nat], len : Nat,
   prev : [Page -> Page], next : [Page -> Page],
   counter : [Page -> Nat], bits : [Page -> SUBSET Nat],
   data : [Page -> Block \cup {Null}]]

\* The position behind i in a sequence that closes on itself.
After(q, i) == IF i = Len(q) THEN 1 ELSE i + 1

\* The links next and prev make the sequence q a ring.
Closed(next, prev, q) ==
  \A i \in 1 .. Len(q) : next[q[i]] = q[After(q, i)] /\ prev[q[After(q, i)]] = q[i]

\* Ring k of s is the sequence q.
IsRing(s, k, q) ==
  /\ q \in Seq(Page) /\ IsInjective(q)
  /\ s.count[k] = Len(q)
  /\ q # <<>> => s.start[k] = q[1]
  /\ Closed(s.next, s.prev, q)

\* The pages met along a ring.
Along(s, k) == [i \in 1 .. s.count[k] |-> Nth(s, k, i - 1)]
On(s, k) == Range(Along(s, k))

RingsInv(s) ==
  /\ s \in Slab /\ s.len <= Pages
  /\ \A k \in Kind : IsRing(s, k, Along(s, k)) /\ On(s, k) \subseteq 0 .. s.len - 1
  /\ \A k, l \in Kind : k # l => On(s, k) \cap On(s, l) = {}

\* A page is on the ring its counter calls for; one that is being destroyed is on
\* none.
PagePlaced(c, p) ==
  LET s == sc[c]
  IN  /\ p \in Unlinked(c) <=> \A k \in Kind : p \notin On(s, k)
      /\ p \in On(s, "full") => is_full(c, s, p)
      /\ p \in On(s, "partial") => ~ is_full(c, s, p)
      /\ p \in On(s, "empty") \cup On(s, "uninit") => is_empty(s, p)
      /\ s.data[p] = Null <=> p \in On(s, "uninit")

PlacedInv(c) == sc[c].len <= MaxPages[c] /\ \A p \in 0 .. sc[c].len - 1 : PagePlaced(c, p)

Slots(c) == 0 .. PgCount(c) - 1
Used(c, s, p) == s.bits[p] \cap Slots(c)

\* The bitmap and the counter of a page say which of its objects are in use.
PageBits(c, p) ==
  LET s == sc[c]
  IN  /\ s.bits[p] \subseteq Bits(c)
      /\ s.counter[p] = Cardinality(Used(c, s, p))
      /\ Used(c, s, p) = {i \in Slots(c) : <<c, s.data[p], i>> \in live}

\* The vector ends at len.
Fresh(s, p) == s.counter[p] = 0 /\ s.bits[p] = {} /\ s.data[p] = Null

BitsInv(c) ==
  /\ \A p \in 0 .. sc[c].len - 1 : PageBits(c, p)
  /\ \A p \in Page : p >= sc[c].len => Fresh(sc[c], p)

Object == Class \X Block \X Nat

Op == [kind : {"idle", "take", "give", "destroy"}, want : Int, objs : Seq(Object), page : Nat]

\* What a call in progress has to give back is in use, and the page it destroys
\* has nothing in use.
OpInv(c) ==
  LET o == op[c]
  IN  /\ o.kind = "take" => o.objs = <<>>
      /\ IsInjective(o.objs) /\ Range(o.objs) \subseteq LiveOf(c)
      /\ o.kind = "give" => o.objs # <<>>
      /\ o.kind = "idle" => o = Idle
      /\ o.kind = "destroy" =>
           /\ o.page < sc[c].len /\ is_empty(sc[c], o.page)
           /\ sc[c].data[o.page] # Null

\* The radix tree has forgotten the block of a page that is being destroyed.
DoomedInv(c) == op[c].kind = "destroy" => rd[sc[c].data[op[c].page]] = 0

\* A block has one owner: the backend, or one page of one class.
BlocksInv ==
  /\ blocks \subseteq Block /\ rd \in [Block -> Nat]
  /\ \A c \in Class : \A p \in 0 .. sc[c].len - 1 : sc[c].data[p] \notin blocks
  /\ \A c, d \in Class : \A p \in 0 .. sc[c].len - 1, q \in 0 .. sc[d].len - 1 :
       sc[c].data[p] = sc[d].data[q] /\ sc[c].data[p] # Null => c = d /\ p = q

LiveInv ==
  /\ live \subseteq Object
  /\ \A o \in live : /\ o[3] \in Slots(o[1])
                     /\ \E p \in 0 .. sc[o[1]].len - 1 : sc[o[1]].data[p] = o[2]

SlabInv ==
  /\ sc \in [Class -> Slab] /\ op \in [Class -> Op]
  /\ \A c \in Class : RingsInv(sc[c]) /\ PlacedInv(c) /\ BitsInv(c) /\ OpInv(c) /\ DoomedInv(c)
  /\ BlocksInv /\ LiveInv /\ RadixMatchesPages

-----------------------------------------------------------------------------
\* Descriptors are numbered from 0.
LEMMA PagesIsNat == Pages \in Nat /\ \A c \in Class : MaxPages[c] <= Pages
<1> DEFINE S == {MaxPages[c] : c \in Class}
<1>1. S \in SUBSET Nat /\ S # {} BY SlabAssumption
<1>2. MaxPages \in Surjection(Class, S) BY SlabAssumption DEF Surjection
<1>3. IsFiniteSet(S) BY <1>2, FS_Surjection, SlabAssumption
<1> QED BY <1>1, <1>3, Greatest DEF Pages

-----------------------------------------------------------------------------
(***************************************************************************)
(* Walking along a ring.                                                   *)
(***************************************************************************)
\* A ring is met round and round.
LEMMA WalkAlong ==
  ASSUME NEW s \in Slab, NEW k \in Kind, NEW q, IsRing(s, k, q), q # <<>>
  PROVE  \A j \in 0 .. Pages : Nth(s, k, j) = q[(j % Len(q)) + 1]
<1> DEFINE L == Len(q)
           g == [n \in 0 .. Pages |-> q[(n % L) + 1]]
           f == CHOOSE h : h = [n \in 0 .. Pages |-> IF n = 0 THEN s.start[k] ELSE s.next[h[n - 1]]]
<1>1. L \in Nat \ {0} /\ Pages \in Nat BY PagesIsNat DEF IsRing
<1>2. \A n \in 0 .. Pages : g[n] = IF n = 0 THEN s.start[k] ELSE s.next[g[n - 1]]
  <2> SUFFICES ASSUME NEW n \in 0 .. Pages
               PROVE  g[n] = IF n = 0 THEN s.start[k] ELSE s.next[g[n - 1]]
    OBVIOUS
  <2>1. CASE n = 0
    <3>1. 0 % L = 0 BY <1>1, Division
    <3> QED BY <2>1, <3>1 DEF IsRing
  <2>2. CASE n # 0
    <3>1. n \in Nat \ {0} /\ n - 1 \in 0 .. Pages /\ n - 1 \in Nat BY <1>1, <2>2
    <3> DEFINE r == (n - 1) % L
    <3>2. r \in 0 .. L - 1 BY <1>1, <3>1, Division
    <3>3. n % L = IF r = L - 1 THEN 0 ELSE r + 1 BY <1>1, <3>1, RemainderStep
    <3> HIDE DEF r
    <3>4. (n % L) + 1 = After(q, r + 1) /\ r + 1 \in 1 .. L BY <1>1, <3>2, <3>3 DEF After
    <3>5. s.next[q[r + 1]] = q[After(q, r + 1)] BY <3>4 DEF IsRing, Closed
    <3>6. g[n - 1] = q[r + 1] BY <3>1 DEF r
    <3>7. g[n] = q[(n % L) + 1] OBVIOUS
    <3> QED BY <2>2, <3>4, <3>5, <3>6, <3>7
  <2> QED BY <2>1, <2>2
<1>3. g = [n \in 0 .. Pages |-> IF n = 0 THEN s.start[k] ELSE s.next[g[n - 1]]]
  BY <1>2, SMTT(30)
<1> HIDE DEF g
<1>4. f = [n \in 0 .. Pages |-> IF n = 0 THEN s.start[k] ELSE s.next[f[n - 1]]]
  BY <1>3
<1>5. \A j : Nth(s, k, j) = f[j] BY DEF Nth
<1> HIDE DEF f
<1> DEFINE T == {n \in 0 .. Pages : f[n] = g[n]}
<1>6. 0 \in T BY <1>1, <1>2, <1>4
<1>7. \A n \in 0 .. Pages - 1 : n \in T => n + 1 \in T
  <2> SUFFICES ASSUME NEW n \in 0 .. Pages - 1, n \in T PROVE n + 1 \in T OBVIOUS
  <2>1. n + 1 \in 0 .. Pages /\ n + 1 # 0 /\ (n + 1) - 1 = n BY <1>1
  <2>2. f[n + 1] = s.next[f[n]] BY <1>4, <2>1
  <2>3. g[n + 1] = s.next[g[n]] BY <1>2, <2>1
  <2> QED BY <2>1, <2>2, <2>3
<1>8. 0 .. Pages \subseteq T BY <1>1, <1>6, <1>7, Upwards
<1> QED BY <1>5, <1>8 DEF g

-----------------------------------------------------------------------------
(***************************************************************************)
(* Links.  What follows is about any two functions next and prev.          *)
(***************************************************************************)
Before(q, i) == IF i = 1 THEN Len(q) ELSE i - 1

\* A sequence without its i-th element.
Without(q, i) == [j \in 1 .. Len(q) - 1 |-> IF j < i THEN q[j] ELSE q[j + 1]]

LEMMA Around ==
  ASSUME NEW D, NEW q \in Seq(D), NEW i \in 1 .. Len(q)
  PROVE  /\ After(q, i) \in 1 .. Len(q) /\ Before(q, i) \in 1 .. Len(q)
         /\ After(q, Before(q, i)) = i /\ Before(q, After(q, i)) = i
BY DEF After, Before

LEMMA WithoutIs ==
  ASSUME NEW D, NEW q \in Seq(D), IsInjective(q), NEW i \in 1 .. Len(q)
  PROVE  /\ Without(q, i) \in Seq(D) /\ IsInjective(Without(q, i))
         /\ Len(Without(q, i)) = Len(q) - 1
         /\ Range(Without(q, i)) = Range(q) \ {q[i]}
<1> DEFINE w == Without(q, i)
           n == Len(q) - 1
           J(j) == IF j < i THEN j ELSE j + 1
<1>1. Len(q) \in Nat /\ n \in Nat /\ DOMAIN q = 1 .. Len(q) OBVIOUS
<1>2. w \in [1 .. n -> D] BY <1>1 DEF Without
<1>4. \A j \in 1 .. n : w[j] = q[J(j)] /\ J(j) \in 1 .. Len(q) /\ J(j) # i
  BY <1>1 DEF Without
<1> HIDE DEF w
<1>3. w \in Seq(D) /\ Len(w) = n /\ DOMAIN w = 1 .. n
  <2>1. w \in Seq(D) BY <1>1, <1>2, SeqDef
  <2>2. DOMAIN w = 1 .. n BY <1>2
  <2>3. Len(w) \in Nat /\ DOMAIN w = 1 .. Len(w) BY <2>1
  <2>4. n \in Nat BY <1>1
  <2>5. \A j \in Nat : j \in 1 .. n <=> j \in 1 .. Len(w) BY <2>2, <2>3
  <2> HIDE DEF n
  <2>6. ~ (n < Len(w)) /\ ~ (Len(w) < n) BY <2>3, <2>4, <2>5
  <2> QED BY <2>1, <2>2, <2>3, <2>4, <2>6
<1>5. IsInjective(w)
  <2> SUFFICES ASSUME NEW a \in 1 .. n, NEW b \in 1 .. n, w[a] = w[b] PROVE a = b
    BY <1>3 DEF IsInjective
  <2>1. J(a) = J(b) BY <1>1, <1>4 DEF IsInjective
  <2> QED BY <2>1, <1>1
<1>6. Range(w) \subseteq Range(q) \ {q[i]}
  <2> SUFFICES ASSUME NEW j \in 1 .. n PROVE w[j] \in Range(q) /\ w[j] # q[i]
    BY <1>3 DEF Range
  <2>1. J(j) \in DOMAIN q /\ i \in DOMAIN q /\ J(j) # i BY <1>1, <1>4
  <2>2. q[J(j)] # q[i] BY <2>1 DEF IsInjective
  <2> QED BY <1>4, <2>1, <2>2 DEF Range
<1>7. ASSUME NEW z \in Range(q) \ {q[i]} PROVE z \in Range(w)
  <2>1. PICK a \in 1 .. Len(q) : z = q[a] BY <1>1 DEF Range
  <2>2. a # i BY <2>1
  <2>3. PICK j \in 1 .. n : J(j) = a
    <3>1. CASE a < i BY <3>1, <1>1
    <3>2. CASE a > i
      <4>1. a - 1 \in 1 .. n /\ J(a - 1) = a BY <3>2, <1>1
      <4> QED BY <4>1
    <3> QED BY <3>1, <3>2, <2>2, <1>1
  <2> QED BY <1>3, <1>4, <2>1, <2>3 DEF Range
<1> QED BY <1>3, <1>5, <1>6, <1>7 DEF w

\* The neighbours of the i-th element are linked to each other instead of to it.
LEMMA ClosedWithout ==
  ASSUME NEW D, NEW q \in Seq(D), IsInjective(q), NEW i \in 1 .. Len(q),
         NEW next, NEW prev, Closed(next, prev, q), NEW next2, NEW prev2,
         \A z \in Range(q) \ {q[i]} :
           /\ next2[z] = IF z = prev[q[i]] THEN next[q[i]] ELSE next[z]
           /\ prev2[z] = IF z = next[q[i]] THEN prev[q[i]] ELSE prev[z]
  PROVE  Closed(next2, prev2, Without(q, i))
<1> DEFINE w == Without(q, i)
           n == Len(q) - 1
           J(j) == IF j < i THEN j ELSE j + 1
           A == After(q, i)
           B == Before(q, i)
<1>1. Len(q) \in Nat /\ n \in Nat /\ DOMAIN q = 1 .. Len(q) OBVIOUS
<1>2. Len(w) = n /\ Range(w) = Range(q) \ {q[i]} BY WithoutIs
<1>3. \A j \in 1 .. n : w[j] = q[J(j)] /\ J(j) \in 1 .. Len(q) /\ J(j) # i
  BY <1>1 DEF Without
<1>13. \A j : After(w, j) = IF j = n THEN 1 ELSE j + 1 BY <1>2 DEF After
<1>14. \A j : /\ After(q, j) = IF j = n + 1 THEN 1 ELSE j + 1
              /\ Before(q, j) = IF j = 1 THEN n + 1 ELSE j - 1
  BY <1>1 DEF After, Before
<1> HIDE DEF w
<1>4. A \in 1 .. Len(q) /\ B \in 1 .. Len(q) /\ After(q, B) = i BY Around
<1>5. next[q[i]] = q[A] /\ prev[q[i]] = q[B] BY <1>4 DEF Closed
<1>6. \A a, b \in 1 .. Len(q) : q[a] = q[b] => a = b BY <1>1 DEF IsInjective
<1>7. \A a \in 1 .. Len(q) : a # i => q[a] \in Range(q) \ {q[i]}
  BY <1>1, <1>6 DEF Range
<1> SUFFICES ASSUME NEW j \in 1 .. n
             PROVE  next2[w[j]] = w[After(w, j)] /\ prev2[w[After(w, j)]] = w[j]
  BY <1>2 DEF Closed, w
<1> DEFINE a == J(j)
           k == After(w, j)
           b == J(k)
<1>8. a \in 1 .. Len(q) /\ a # i /\ w[j] = q[a] BY <1>3
<1>9. k \in 1 .. n BY <1>1, <1>13
<1>10. b \in 1 .. Len(q) /\ b # i /\ w[k] = q[b] BY <1>3, <1>9
<1>11. CASE a = B
  <2>1. b = A BY <1>1, <1>11, <1>13, <1>14
  <2>2. next2[q[a]] = q[A] BY <1>5, <1>7, <1>8, <1>11
  <2>3. prev2[q[b]] = q[B] BY <1>5, <1>7, <1>10, <2>1
  <2> QED BY <2>1, <2>2, <2>3, <1>8, <1>10, <1>11
<1>12. CASE a # B
  <2>1. b = After(q, a) /\ b # A BY <1>1, <1>12, <1>13, <1>14
  <2>2. next2[q[a]] = next[q[a]] BY <1>4, <1>5, <1>6, <1>7, <1>8, <1>12
  <2>3. prev2[q[b]] = prev[q[b]] BY <1>4, <1>5, <1>6, <1>7, <1>10, <2>1
  <2>4. next[q[a]] = q[b] /\ prev[q[b]] = q[a] BY <1>8, <2>1 DEF Closed
  <2> QED BY <2>2, <2>3, <2>4, <1>8, <1>10
<1> QED BY <1>11, <1>12

\* A new element is linked between the last one and the first.
LEMMA ClosedAppend ==
  ASSUME NEW D, NEW q \in Seq(D), IsInjective(q), q # <<>>,
         NEW p, p \notin Range(q),
         NEW next, NEW prev, Closed(next, prev, q), NEW next2, NEW prev2,
         \A z \in Range(q) :
           /\ next2[z] = IF z = prev[q[1]] THEN p ELSE next[z]
           /\ prev2[z] = IF z = q[1] THEN p ELSE prev[z],
         next2[p] = q[1], prev2[p] = prev[q[1]]
  PROVE  Closed(next2, prev2, Append(q, p))
<1> DEFINE w == Append(q, p)
           n == Len(q)
<1>1. n \in Nat \ {0} /\ DOMAIN q = 1 .. n OBVIOUS
<1>2. Len(w) = n + 1 /\ w[n + 1] = p /\ \A i \in 1 .. n : w[i] = q[i] OBVIOUS
<1>3. prev[q[1]] = q[n]
  <2>1. n \in 1 .. n /\ After(q, n) = 1 BY <1>1 DEF After
  <2> QED BY <2>1 DEF Closed
<1>4. \A a, b \in 1 .. n : q[a] = q[b] => a = b BY <1>1 DEF IsInjective
<1>5. \A a \in 1 .. n : q[a] \in Range(q) BY <1>1 DEF Range
<1> SUFFICES ASSUME NEW i \in 1 .. n + 1
             PROVE  next2[w[i]] = w[After(w, i)] /\ prev2[w[After(w, i)]] = w[i]
  BY <1>2 DEF Closed
<1>9. \A a \in 1 .. n : After(q, a) = IF a = n THEN 1 ELSE a + 1 BY DEF After
<1> HIDE DEF w, n
<1>6. CASE i = n + 1
  <2>1. After(w, i) = 1 BY <1>2, <1>6 DEF After
  <2>2. w[1] = q[1] /\ 1 \in 1 .. n BY <1>1, <1>2
  <2>3. prev2[q[1]] = p BY <1>5, <2>2
  <2> QED BY <1>2, <1>6, <2>1, <2>2, <2>3
<1>7. CASE i = n
  <2>1. After(w, i) = n + 1 BY <1>1, <1>2, <1>7 DEF After
  <2>2. next2[q[n]] = p BY <1>1, <1>3, <1>5
  <2> QED BY <1>1, <1>2, <1>3, <1>7, <2>1, <2>2
<1>8. CASE i \in 1 .. n - 1
  <2>1. After(w, i) = i + 1 /\ After(q, i) = i + 1 BY <1>1, <1>2, <1>8, <1>9 DEF After
  <2>2. i \in 1 .. n /\ i + 1 \in 1 .. n /\ n \in 1 .. n /\ 1 \in 1 .. n BY <1>1, <1>8
  <2>3. q[i] # q[n] /\ q[i + 1] # q[1] BY <1>4, <1>8, <2>2
  <2>4. next[q[i]] = q[i + 1] /\ prev[q[i + 1]] = q[i] BY <2>1, <2>2 DEF Closed, n
  <2>5. next2[q[i]] = q[i + 1] BY <1>3, <1>5, <2>2, <2>3, <2>4
  <2>6. prev2[q[i + 1]] = q[i] BY <1>5, <2>2, <2>3, <2>4
  <2> QED BY <1>2, <2>1, <2>2, <2>5, <2>6
<1> QED BY <1>1, <1>6, <1>7, <1>8

\* A ring is what it was when the links of its elements are.
LEMMA ClosedKept ==
  ASSUME NEW D, NEW q \in Seq(D),
         NEW next, NEW prev, Closed(next, prev, q), NEW next2, NEW prev2,
         \A z \in Range(q) : next2[z] = next[z] /\ prev2[z] = prev[z]
  PROVE  Closed(next2, prev2, q)
<1>1. DOMAIN q = 1 .. Len(q) OBVIOUS
<1>2. \A i \in 1 .. Len(q) : q[i] \in Range(q) BY <1>1 DEF Range
<1>3. \A i \in 1 .. Len(q) : After(q, i) \in 1 .. Len(q) BY Around
<1> QED BY <1>2, <1>3 DEF Closed

-----------------------------------------------------------------------------
(***************************************************************************)
(* Unlink and Link on the rings of a slab.                                 *)
(***************************************************************************)
\* What the rings do not touch.
SamePages(s, t) ==
  t.len = s.len /\ t.counter = s.counter /\ t.bits = s.bits /\ t.data = s.data

\* One entry of start or of count is all that changes.
StartAt(s, k, x) == [s EXCEPT !.start[k] = x]
CountAt(s, k, x) == [s EXCEPT !.count[k] = x]

LEMMA StartSet ==
  ASSUME NEW s \in Slab, NEW k \in Kind, NEW x \in Nat, NEW t, t = StartAt(s, k, x)
  PROVE  /\ t \in Slab /\ SamePages(s, t)
         /\ t.start = [s.start EXCEPT ![k] = x] /\ t.count = s.count
         /\ t.next = s.next /\ t.prev = s.prev
<1>1. t.start = [s.start EXCEPT ![k] = x] /\ t.count = s.count BY DEF Slab, StartAt
<1>2. t.next = s.next /\ t.prev = s.prev BY DEF Slab, StartAt
<1>3. SamePages(s, t) BY DEF Slab, StartAt, SamePages
<1>4. [s.start EXCEPT ![k] = x] \in [Kind -> Nat] BY DEF Slab
<1>5. t \in Slab
  <2> DEFINE f == [s.start EXCEPT ![k] = x]
  <2>1. t = [s EXCEPT !.start = f] BY DEF StartAt
  <2>2. f \in [Kind -> Nat] BY <1>4
  <2> HIDE DEF f
  <2> QED BY <2>1, <2>2 DEF Slab
<1> QED BY <1>1, <1>2, <1>3, <1>5

LEMMA CountSet ==
  ASSUME NEW s \in Slab, NEW k \in Kind, NEW x \in Nat, NEW t, t = CountAt(s, k, x)
  PROVE  /\ t \in Slab /\ SamePages(s, t)
         /\ t.count = [s.count EXCEPT ![k] = x] /\ t.start = s.start
         /\ t.next = s.next /\ t.prev = s.prev
<1>1. t.count = [s.count EXCEPT ![k] = x] /\ t.start = s.start BY DEF Slab, CountAt
<1>2. t.next = s.next /\ t.prev = s.prev BY DEF Slab, CountAt
<1>3. SamePages(s, t) BY DEF Slab, CountAt, SamePages
<1>4. [s.count EXCEPT ![k] = x] \in [Kind -> Nat] BY DEF Slab
<1>5. t \in Slab
  <2> DEFINE f == [s.count EXCEPT ![k] = x]
  <2>1. t = [s EXCEPT !.count = f] BY DEF CountAt
  <2>2. f \in [Kind -> Nat] BY <1>4
  <2> HIDE DEF f
  <2> QED BY <2>1, <2>2 DEF Slab
<1> QED BY <1>1, <1>2, <1>3, <1>5

\* What linking p into ring k makes of s, and what unlinking it does.
Linked(s, k, p, t) ==
  /\ s.count[k] = 0 =>
       /\ t \in Slab /\ SamePages(s, t)
       /\ t.count = [s.count EXCEPT ![k] = @ + 1]
       /\ t.start = [s.start EXCEPT ![k] = p]
       /\ t.next = [s.next EXCEPT ![p] = p]
       /\ t.prev = [s.prev EXCEPT ![p] = p]
  /\ s.count[k] # 0 /\ s.start[k] \in Page =>
       /\ t \in Slab /\ SamePages(s, t)
       /\ t.count = [s.count EXCEPT ![k] = @ + 1]
       /\ t.start = s.start
       /\ t.next = [s.next EXCEPT ![s.prev[s.start[k]]] = p, ![p] = s.start[k]]
       /\ t.prev = [s.prev EXCEPT ![s.start[k]] = p, ![p] = s.prev[s.start[k]]]

Cut(s, k, p, t) ==
  /\ t \in Slab /\ SamePages(s, t)
  /\ t.count = [s.count EXCEPT ![k] = @ - 1]
  /\ t.start = IF p = s.start[k] THEN [s.start EXCEPT ![k] = s.next[p]] ELSE s.start
  /\ t.next = [s.next EXCEPT ![s.prev[p]] = s.next[p], ![p] = p]
  /\ t.prev = [s.prev EXCEPT ![s.next[p]] = s.prev[p], ![p] = p]

LEMMA LinkShape ==
  ASSUME NEW s \in Slab, NEW k \in Kind, NEW p \in Page, NEW t, t = Link(s, k, p)
  PROVE  Linked(s, k, p, t)
<1>1. ASSUME s.count[k] = 0 PROVE Linked(s, k, p, t)
  <2> DEFINE u == [s EXCEPT !.start[k] = p]
  <2>1. /\ u \in Slab /\ SamePages(s, u) /\ u.count = s.count /\ u.next = s.next
        /\ u.prev = s.prev /\ u.start = [s.start EXCEPT ![k] = p]
    <3>1. u = StartAt(s, k, p) /\ p \in Nat BY DEF StartAt, Page
    <3> HIDE DEF u
    <3> QED BY <3>1, StartSet
  <2> HIDE DEF u
  <2> DEFINE v == reset_links(u, p)
  <2>2. /\ v \in Slab /\ SamePages(u, v) /\ v.count = u.count /\ v.start = u.start
        /\ v.next = [u.next EXCEPT ![p] = p] /\ v.prev = [u.prev EXCEPT ![p] = p]
    BY <2>1 DEF reset_links, Slab, SamePages
  <2> HIDE DEF v
  <2>3. t = [v EXCEPT !.count[k] = @ + 1] BY <1>1 DEF Link, u, v
  <2>4. /\ t \in Slab /\ SamePages(v, t) /\ t.count = [v.count EXCEPT ![k] = @ + 1]
        /\ t.start = v.start /\ t.next = v.next /\ t.prev = v.prev
    <3>1. v \in Slab /\ v.count[k] + 1 \in Nat BY <2>2 DEF Slab
    <3>2. t = CountAt(v, k, v.count[k] + 1) BY <2>3 DEF CountAt
    <3> QED BY <3>1, <3>2, CountSet
  <2> QED BY <1>1, <2>1, <2>2, <2>4 DEF SamePages, Linked
<1>2. ASSUME s.count[k] # 0, s.start[k] \in Page PROVE Linked(s, k, p, t)
  <2> DEFINE b == s.start[k]
             v == insert_to_prev(s, b, p)
  <2>1. b \in Page /\ s.prev[b] \in Page BY <1>2 DEF Slab
  <2> HIDE DEF b
  <2>2. /\ v \in Slab /\ SamePages(s, v) /\ v.count = s.count /\ v.start = s.start
        /\ v.next = [s.next EXCEPT ![s.prev[b]] = p, ![p] = b]
        /\ v.prev = [s.prev EXCEPT ![b] = p, ![p] = s.prev[b]]
    BY <2>1 DEF insert_to_prev, Slab, SamePages
  <2> HIDE DEF v
  <2>3. t = [v EXCEPT !.count[k] = @ + 1] BY <1>2 DEF Link, v, b
  <2>4. /\ t \in Slab /\ SamePages(v, t) /\ t.count = [v.count EXCEPT ![k] = @ + 1]
        /\ t.start = v.start /\ t.next = v.next /\ t.prev = v.prev
    <3>1. v \in Slab /\ v.count[k] + 1 \in Nat BY <2>2 DEF Slab
    <3>2. t = CountAt(v, k, v.count[k] + 1) BY <2>3 DEF CountAt
    <3> QED BY <3>1, <3>2, CountSet
  <2> QED BY <1>2, <2>2, <2>4 DEF SamePages, Linked, b
<1> QED BY <1>1, <1>2 DEF Linked

LEMMA UnlinkShape ==
  ASSUME NEW s \in Slab, NEW k \in Kind, NEW p \in Page, NEW t, t = Unlink(s, k, p),
         s.count[k] # 0
  PROVE  Cut(s, k, p, t)
<1> DEFINE u == IF p = s.start[k] THEN [s EXCEPT !.start[k] = s.next[p]] ELSE s
           v == [u EXCEPT !.prev[u.next[p]] = u.prev[p], !.next[u.prev[p]] = u.next[p]]
           w == reset_links(v, p)
<1>1. /\ u \in Slab /\ SamePages(s, u) /\ u.count = s.count /\ u.next = s.next
      /\ u.prev = s.prev
      /\ u.start = IF p = s.start[k] THEN [s.start EXCEPT ![k] = s.next[p]] ELSE s.start
  <2>1. s.next[p] \in Page BY DEF Slab
  <2>4. s.next[p] \in Nat BY <2>1 DEF Page
  <2>2. CASE p = s.start[k]
    <3>1. u = StartAt(s, k, s.next[p]) BY <2>2 DEF StartAt
    <3> HIDE DEF u
    <3> QED BY <2>2, <2>4, <3>1, StartSet
  <2>3. CASE p # s.start[k] BY <2>3 DEF SamePages
  <2> QED BY <2>2, <2>3
<1> HIDE DEF u
<1>2. /\ v \in Slab /\ SamePages(u, v) /\ v.count = u.count /\ v.start = u.start
      /\ v.next = [u.next EXCEPT ![u.prev[p]] = u.next[p]]
      /\ v.prev = [u.prev EXCEPT ![u.next[p]] = u.prev[p]]
  BY <1>1 DEF Slab, SamePages
<1> HIDE DEF v
<1>3. /\ w \in Slab /\ SamePages(v, w) /\ w.count = v.count /\ w.start = v.start
      /\ w.next = [v.next EXCEPT ![p] = p] /\ w.prev = [v.prev EXCEPT ![p] = p]
  BY <1>2 DEF reset_links, Slab, SamePages
<1> HIDE DEF w
<1>4. t = [w EXCEPT !.count[k] = @ - 1] BY DEF Unlink, remove_node, u, v, w
<1>5. s.count[k] - 1 \in Nat BY DEF Slab
<1>6. /\ t \in Slab /\ SamePages(w, t) /\ t.count = [w.count EXCEPT ![k] = @ - 1]
      /\ t.start = w.start /\ t.next = w.next /\ t.prev = w.prev
  <2>1. w \in Slab /\ w.count[k] - 1 \in Nat BY <1>1, <1>2, <1>3, <1>5
  <2>2. t = CountAt(w, k, w.count[k] - 1) BY <1>4 DEF CountAt
  <2> QED BY <2>1, <2>2, CountSet
<1> QED BY <1>1, <1>2, <1>3, <1>6 DEF SamePages, Cut

LEMMA RingIsAlong ==
  ASSUME NEW s \in Slab, NEW k \in Kind, NEW q, IsRing(s, k, q)
  PROVE  Len(q) <= Pages /\ Along(s, k) = q /\ On(s, k) = Range(q)
<1>1. q \in Seq(Page) /\ Len(q) \in Nat /\ DOMAIN q = 1 .. Len(q) /\ s.count[k] = Len(q)
  BY DEF IsRing
<1>2. Len(q) <= Pages
  <2>1. IsFiniteSet(Page) /\ Cardinality(Page) = Pages
    BY PagesIsNat, FS_Interval DEF Page
  <2>2. IsFiniteSet(1 .. Len(q)) /\ Cardinality(1 .. Len(q)) = Len(q)
    <3> DEFINE n == Len(q)
    <3>1. n \in Nat BY <1>1
    <3> HIDE DEF n
    <3>2. 1 \in Int /\ n \in Int BY <3>1
    <3>3. IsFiniteSet(1 .. n) /\ Cardinality(1 .. n) = IF 1 > n THEN 0 ELSE n - 1 + 1
      BY <3>2, FS_Interval
    <3> QED BY <3>1, <3>3 DEF n
  <2>3. q \in Injection(1 .. Len(q), Page)
    BY <1>1 DEF IsRing, IsInjective, Injection
  <2> QED BY <2>1, <2>2, <2>3, FS_Injection
<1>3. \A i \in 1 .. Len(q) : Nth(s, k, i - 1) = q[i]
  <2> SUFFICES ASSUME NEW i \in 1 .. Len(q) PROVE Nth(s, k, i - 1) = q[i] OBVIOUS
  <2>1. i - 1 \in 0 .. Pages /\ Len(q) \in Nat \ {0} /\ q # <<>>
    BY <1>1, <1>2, PagesIsNat
  <2>2. (i - 1) % Len(q) = i - 1
    <3> DEFINE n == Len(q)
    <3>1. n \in Nat \ {0} /\ i - 1 \in Nat /\ i - 1 < n BY <1>1, <2>1
    <3> HIDE DEF n
    <3> QED BY <3>1, Small DEF n
  <2> QED BY <2>1, <2>2, WalkAlong
<1>4. Along(s, k) = q BY <1>1, <1>3 DEF Along
<1> QED BY <1>2, <1>4 DEF On

\* From start, next leads to a page of the ring, however often.
LEMMA WalkIsOn ==
  ASSUME NEW s \in Slab, NEW k \in Kind, IsRing(s, k, Along(s, k)), s.count[k] > 0
  PROVE  /\ s.start[k] \in On(s, k) /\ s.start[k] \in Page
         /\ \A j \in 0 .. Pages : Nth(s, k, j) \in On(s, k)
         /\ Nth(s, k, s.count[k]) = s.start[k]
<1> DEFINE q == Along(s, k)
<1>1. q \in Seq(Page) /\ Len(q) = s.count[k] /\ q # <<>> /\ On(s, k) = Range(q)
      /\ Len(q) <= Pages /\ s.start[k] = q[1]
  BY RingIsAlong DEF IsRing
<1> HIDE DEF q
<1>2. Len(q) \in Nat \ {0} /\ DOMAIN q = 1 .. Len(q) BY <1>1
<1>3. \A i \in 1 .. Len(q) : q[i] \in Range(q) /\ q[i] \in Page BY <1>1, <1>2 DEF Range
<1>4. \A j \in 0 .. Pages : Nth(s, k, j) = q[(j % Len(q)) + 1]
  BY <1>1, WalkAlong DEF q
<1>5. ASSUME NEW j \in 0 .. Pages PROVE (j % Len(q)) + 1 \in 1 .. Len(q)
  <2> DEFINE n == Len(q)
             r == j % n
  <2>1. n \in Nat \ {0} /\ j \in Nat BY <1>2, PagesIsNat
  <2> HIDE DEF n
  <2>2. r \in 0 .. n - 1 BY <2>1, Division
  <2> HIDE DEF r
  <2>3. r + 1 \in 1 .. n BY <2>1, <2>2
  <2> QED BY <2>3 DEF n, r
<1>6. Len(q) % Len(q) = 0
  <2>1. 1 * Len(q) <= Len(q) /\ Len(q) < (1 + 1) * Len(q) BY <1>2
  <2>2. Len(q) \div Len(q) = 1 BY <1>2, <2>1, QuotientBound
  <2> QED BY <1>2, <2>2, Division
<1>7. Nth(s, k, Len(q)) = q[1]
  BY <1>1, <1>2, <1>4, <1>6, PagesIsNat
<1>8. \A j \in 0 .. Pages : Nth(s, k, j) \in Range(q) BY <1>3, <1>4, <1>5
<1> QED BY <1>1, <1>2, <1>3, <1>7, <1>8

\* Sequences that are rings are what next leads along.
LEMMA RingsFrom ==
  ASSUME NEW t \in Slab, t.len <= Pages, NEW N,
         \A k \in Kind : IsRing(t, k, N[k]) /\ Range(N[k]) \subseteq 0 .. t.len - 1,
         \A k, l \in Kind : k # l => Range(N[k]) \cap Range(N[l]) = {}
  PROVE  RingsInv(t) /\ \A k \in Kind : On(t, k) = Range(N[k])
<1>1. \A k \in Kind : Along(t, k) = N[k] /\ On(t, k) = Range(N[k]) BY RingIsAlong
<1> QED BY <1>1 DEF RingsInv

LEMMA RingLinks ==
  ASSUME NEW s, RingsInv(s), NEW k \in Kind, NEW q, q = Along(s, k)
  PROVE  /\ q \in Seq(Page) /\ IsInjective(q) /\ Len(q) \in Nat /\ DOMAIN q = 1 .. Len(q)
         /\ IsRing(s, k, q) /\ On(s, k) = Range(q) /\ Len(q) = s.count[k]
         /\ Closed(s.next, s.prev, q)
         /\ \A z \in On(s, k) : s.next[z] \in On(s, k) /\ s.prev[z] \in On(s, k)
<1>1. s \in Slab /\ IsRing(s, k, q) BY DEF RingsInv
<1>2. q \in Seq(Page) /\ IsInjective(q) /\ Len(q) \in Nat /\ DOMAIN q = 1 .. Len(q)
      /\ Closed(s.next, s.prev, q) /\ Len(q) = s.count[k]
  BY <1>1 DEF IsRing
<1>3. On(s, k) = Range(q) BY <1>1, RingIsAlong
<1> HIDE DEF Along
<1>4. ASSUME NEW z \in Range(q) PROVE s.next[z] \in Range(q) /\ s.prev[z] \in Range(q)
  <2>1. PICK i \in 1 .. Len(q) : z = q[i] BY <1>2 DEF Range
  <2>2. /\ After(q, i) \in 1 .. Len(q) /\ Before(q, i) \in 1 .. Len(q)
        /\ After(q, Before(q, i)) = i
    BY <1>2, Around
  <2>3. s.next[z] = q[After(q, i)] /\ s.prev[z] = q[Before(q, i)]
    BY <1>2, <2>1, <2>2 DEF Closed
  <2> QED BY <1>2, <2>2, <2>3 DEF Range
<1> QED BY <1>1, <1>2, <1>3, <1>4

LEMMA LinkRings ==
  ASSUME NEW s, RingsInv(s), NEW k \in Kind, NEW p \in 0 .. s.len - 1,
         \A l \in Kind : p \notin On(s, l), NEW t, t = Link(s, k, p)
  PROVE  /\ RingsInv(t) /\ SamePages(s, t)
         /\ t.count = [s.count EXCEPT ![k] = @ + 1]
         /\ \A l \in Kind : On(t, l) = IF l = k THEN On(s, l) \cup {p} ELSE On(s, l)
<1> DEFINE Q(l) == Along(s, l)
           N == [l \in Kind |-> IF l = k THEN Append(Q(l), p) ELSE Q(l)]
<1>1. s \in Slab /\ s.len <= Pages /\ p \in Page
  <2>1. s \in Slab /\ s.len <= Pages BY DEF RingsInv
  <2>2. s.len \in Nat BY <2>1 DEF Slab
  <2> QED BY <2>1, <2>2, PagesIsNat DEF Page
<1>2. \A l \in Kind : /\ Q(l) \in Seq(Page) /\ IsInjective(Q(l)) /\ Len(Q(l)) \in Nat
                      /\ DOMAIN Q(l) = 1 .. Len(Q(l)) /\ IsRing(s, l, Q(l))
                      /\ On(s, l) = Range(Q(l)) /\ Len(Q(l)) = s.count[l]
                      /\ Closed(s.next, s.prev, Q(l)) /\ On(s, l) \subseteq Page
  <2> TAKE l \in Kind
  <2>1. On(s, l) \subseteq 0 .. s.len - 1 BY DEF RingsInv
  <2>2. 0 .. s.len - 1 \subseteq Page BY <1>1, PagesIsNat DEF Page, Slab
  <2> QED BY <2>1, <2>2, RingLinks
<1>3. \A l \in Kind : \A z \in On(s, l) : s.next[z] \in On(s, l) /\ s.prev[z] \in On(s, l)
  BY RingLinks
<1>4. \A l \in Kind : l # k => On(s, l) \cap On(s, k) = {} BY DEF RingsInv
<1>5. s.count[k] # 0 => s.start[k] = Q(k)[1] /\ s.start[k] \in On(s, k)
  <2>1. IsRing(s, k, Q(k)) /\ Q(k) \in Seq(Page) /\ Len(Q(k)) = s.count[k]
        /\ On(s, k) = Range(Q(k)) /\ DOMAIN Q(k) = 1 .. Len(Q(k)) /\ Len(Q(k)) \in Nat
    BY <1>2
  <2> HIDE DEF Q
  <2> QED BY <2>1 DEF IsRing, Range
<1> HIDE DEF Q
<1>21. Linked(s, k, p, t) BY <1>1, LinkShape
<1>22. s.count[k] # 0 => s.start[k] \in Page BY <1>2, <1>5
<1>23. /\ s.start \in [Kind -> Nat] /\ s.count \in [Kind -> Nat]
       /\ s.next \in [Page -> Page] /\ s.prev \in [Page -> Page]
  BY <1>1 DEF Slab
<1>6. t \in Slab /\ SamePages(s, t) /\ t.count = [s.count EXCEPT ![k] = @ + 1]
  BY <1>21, <1>22 DEF Linked
<1>7. \A l \in Kind \ {k} : IsRing(t, l, Q(l))
  <2> SUFFICES ASSUME NEW l \in Kind \ {k} PROVE IsRing(t, l, Q(l)) OBVIOUS
  <2>1. t.count[l] = s.count[l] BY <1>6, <1>23
  <2>2. t.start[l] = s.start[l]
    BY <1>21, <1>22, <1>23 DEF Linked
  <2>3. \A z \in Range(Q(l)) : t.next[z] = s.next[z] /\ t.prev[z] = s.prev[z]
    <3> SUFFICES ASSUME NEW z \in On(s, l)
                 PROVE  t.next[z] = s.next[z] /\ t.prev[z] = s.prev[z]
      BY <1>2
    <3>1. z # p /\ z \notin On(s, k) /\ z \in Page BY <1>2, <1>4
    <3>2. CASE s.count[k] = 0 BY <1>21, <1>23, <3>1, <3>2 DEF Linked
    <3>3. CASE s.count[k] # 0
      <4>1. z # s.start[k] /\ z # s.prev[s.start[k]] /\ s.start[k] \in Page
        BY <1>2, <1>3, <1>5, <3>1, <3>3
      <4> QED BY <1>21, <1>23, <3>1, <3>3, <4>1 DEF Linked
    <3> QED BY <3>2, <3>3
  <2>4. Closed(t.next, t.prev, Q(l)) BY <1>2, <2>3, ClosedKept
  <2> QED BY <1>2, <2>1, <2>2, <2>4 DEF IsRing
<1>8. /\ IsRing(t, k, Append(Q(k), p))
      /\ Range(Append(Q(k), p)) = Range(Q(k)) \cup {p}
  <2> DEFINE q == Q(k)
             w == Append(q, p)
  <2>1. q \in Seq(Page) /\ IsInjective(q) /\ Len(q) \in Nat /\ DOMAIN q = 1 .. Len(q)
        /\ Len(q) = s.count[k] /\ Range(q) = On(s, k) /\ p \notin Range(q)
        /\ Closed(s.next, s.prev, q) /\ p \in Page
    BY <1>1, <1>2
  <2>10. q # <<>> => q[1] = s.start[k] /\ s.start[k] \in On(s, k) /\ s.count[k] # 0
    BY <1>5, <2>1
  <2> HIDE DEF q
  <2>2. w \in Seq(Page) /\ Len(w) = Len(q) + 1 /\ w # <<>> /\ DOMAIN w = 1 .. Len(q) + 1
        /\ w[Len(q) + 1] = p /\ \A i \in 1 .. Len(q) : w[i] = q[i]
    BY <2>1
  <2> HIDE DEF w
  <2>3. IsInjective(w)
    <3>1. \A i \in 1 .. Len(q) : q[i] # p BY <2>1 DEF Range
    <3> QED BY <2>1, <2>2, <3>1 DEF IsInjective
  <2>4. Range(w) = Range(q) \cup {p}
    <3>1. \A z : z \in Range(w) <=> \E i \in 1 .. Len(q) + 1 : z = w[i] BY <2>2 DEF Range
    <3>2. \A z : z \in Range(q) <=> \E i \in 1 .. Len(q) : z = q[i] BY <2>1 DEF Range
    <3>3. \A i \in 1 .. Len(q) + 1 : i \in 1 .. Len(q) \/ i = Len(q) + 1 BY <2>1
    <3>4. Len(q) + 1 \in 1 .. Len(q) + 1 /\ \A i \in 1 .. Len(q) : i \in 1 .. Len(q) + 1
      BY <2>1
    <3> QED BY <2>2, <3>1, <3>2, <3>3, <3>4
  <2>5. t.count[k] = Len(w) BY <1>6, <1>23, <2>1, <2>2
  <2>6. CASE s.count[k] = 0
    <3>1. t.start[k] = p /\ t.next[p] = p /\ t.prev[p] = p
      BY <1>1, <1>21, <1>23, <2>6 DEF Linked
    <3>2. Len(w) = 1 /\ w[1] = p BY <2>1, <2>2, <2>6
    <3>3. Closed(t.next, t.prev, w) BY <3>1, <3>2 DEF Closed, After
    <3> QED BY <2>2, <2>3, <2>4, <2>5, <3>1, <3>2, <3>3 DEF IsRing, q, w
  <2>7. CASE s.count[k] # 0
    <3>1. q # <<>> BY <2>1, <2>7
    <3> DEFINE b == s.start[k]
    <3>2. b = q[1] /\ b \in On(s, k) /\ b \in Page /\ s.prev[b] \in On(s, k) /\ b # p
          /\ s.prev[b] # p /\ s.prev[b] \in Page
      BY <1>2, <1>3, <2>1, <2>10, <3>1
    <3>3. /\ t.start = s.start
          /\ t.next = [s.next EXCEPT ![s.prev[b]] = p, ![p] = b]
          /\ t.prev = [s.prev EXCEPT ![b] = p, ![p] = s.prev[b]]
          /\ s.next \in [Page -> Page] /\ s.prev \in [Page -> Page]
      BY <1>21, <1>23, <2>7, <3>2 DEF Linked
    <3> HIDE DEF b
    <3>4. t.next[p] = q[1] /\ t.prev[p] = s.prev[q[1]] BY <2>1, <3>2, <3>3
    <3>5. \A z \in Range(q) : /\ t.next[z] = IF z = s.prev[q[1]] THEN p ELSE s.next[z]
                              /\ t.prev[z] = IF z = q[1] THEN p ELSE s.prev[z]
      <4> SUFFICES ASSUME NEW z \in Range(q)
                   PROVE  /\ t.next[z] = IF z = s.prev[q[1]] THEN p ELSE s.next[z]
                          /\ t.prev[z] = IF z = q[1] THEN p ELSE s.prev[z]
        OBVIOUS
      <4>1. z # p /\ z \in Page BY <1>2, <2>1
      <4> QED BY <3>2, <3>3, <4>1
    <3>6. Closed(t.next, t.prev, w) BY <2>1, <3>1, <3>4, <3>5, ClosedAppend DEF w
    <3>7. w[1] = q[1] BY <2>1, <2>2, <3>1
    <3> QED BY <2>2, <2>3, <2>4, <2>5, <3>2, <3>3, <3>6, <3>7 DEF IsRing, b, q, w
  <2> QED BY <2>6, <2>7
<1>9. \A l \in Kind : IsRing(t, l, N[l]) /\ Range(N[l]) \subseteq 0 .. t.len - 1
  <2>1. t.len = s.len BY <1>6 DEF SamePages
  <2>2. \A l \in Kind : On(s, l) \subseteq 0 .. s.len - 1 BY DEF RingsInv
  <2> QED BY <1>2, <1>7, <1>8, <2>1, <2>2
<1>10. \A l \in Kind : Range(N[l]) = IF l = k THEN On(s, l) \cup {p} ELSE On(s, l)
  BY <1>2, <1>8
<1>11. \A l, m \in Kind : l # m => Range(N[l]) \cap Range(N[m]) = {}
  BY <1>10, ZenonT(40) DEF RingsInv
<1> HIDE DEF N
<1>12. t.len <= Pages BY <1>1, <1>6 DEF SamePages
<1>13. RingsInv(t) /\ \A l \in Kind : On(t, l) = Range(N[l])
  BY <1>6, <1>9, <1>11, <1>12, RingsFrom
<1> QED BY <1>6, <1>10, <1>13

LEMMA UnlinkRings ==
  ASSUME NEW s, RingsInv(s), NEW k \in Kind, NEW p \in On(s, k), NEW t, t = Unlink(s, k, p)
  PROVE  /\ RingsInv(t) /\ SamePages(s, t)
         /\ t.count = [s.count EXCEPT ![k] = @ - 1]
         /\ \A l \in Kind : On(t, l) = IF l = k THEN On(s, l) \ {p} ELSE On(s, l)
<1> DEFINE Q(l) == Along(s, l)
<1>1. s \in Slab /\ s.len <= Pages BY DEF RingsInv
<1>2. \A l \in Kind : /\ Q(l) \in Seq(Page) /\ IsInjective(Q(l)) /\ Len(Q(l)) \in Nat
                      /\ DOMAIN Q(l) = 1 .. Len(Q(l)) /\ IsRing(s, l, Q(l))
                      /\ On(s, l) = Range(Q(l)) /\ Len(Q(l)) = s.count[l]
                      /\ Closed(s.next, s.prev, Q(l)) /\ On(s, l) \subseteq Page
  <2> TAKE l \in Kind
  <2>1. On(s, l) \subseteq 0 .. s.len - 1 /\ s.len \in Nat BY <1>1 DEF RingsInv, Slab
  <2>2. 0 .. s.len - 1 \subseteq Page BY <1>1, <2>1, PagesIsNat DEF Page
  <2> QED BY <2>1, <2>2, RingLinks
<1>3. \A l \in Kind : \A z \in On(s, l) : s.next[z] \in On(s, l) /\ s.prev[z] \in On(s, l)
  BY RingLinks
<1>4. \A l \in Kind : l # k => On(s, l) \cap On(s, k) = {} BY DEF RingsInv
<1>5. PICK i \in 1 .. Len(Q(k)) : p = Q(k)[i]
  <2>1. DOMAIN Q(k) = 1 .. Len(Q(k)) /\ p \in Range(Q(k)) BY <1>2
  <2> HIDE DEF Q
  <2> QED BY <2>1 DEF Range
<1> DEFINE N == [l \in Kind |-> IF l = k THEN Without(Q(k), i) ELSE Q(l)]
<1>24. p \in Page /\ s.count[k] # 0
  <2>1. Len(Q(k)) = s.count[k] /\ Len(Q(k)) \in Nat BY <1>2
  <2> HIDE DEF Q
  <2> QED BY <1>2, <1>5, <2>1
<1>25. s.start[k] = Q(k)[1]
  <2>1. IsRing(s, k, Q(k)) /\ Len(Q(k)) # 0 BY <1>2, <1>24
  <2> HIDE DEF Q
  <2> QED BY <2>1 DEF IsRing
<1> HIDE DEF Q
<1>21. Cut(s, k, p, t) BY <1>1, <1>24, UnlinkShape
<1>23. /\ s.start \in [Kind -> Nat] /\ s.count \in [Kind -> Nat]
       /\ s.next \in [Page -> Page] /\ s.prev \in [Page -> Page]
  BY <1>1 DEF Slab
<1>6. t \in Slab /\ SamePages(s, t) /\ t.count = [s.count EXCEPT ![k] = @ - 1]
  BY <1>21 DEF Cut
<1>26. \A z \in Page \ {p} :
         /\ t.next[z] = IF z = s.prev[p] THEN s.next[p] ELSE s.next[z]
         /\ t.prev[z] = IF z = s.next[p] THEN s.prev[p] ELSE s.prev[z]
  BY <1>21, <1>23, <1>24 DEF Cut
<1>7. \A l \in Kind \ {k} : IsRing(t, l, Q(l))
  <2> SUFFICES ASSUME NEW l \in Kind \ {k} PROVE IsRing(t, l, Q(l)) OBVIOUS
  <2>1. t.count[l] = s.count[l] BY <1>6, <1>23
  <2>2. t.start[l] = s.start[l] BY <1>21, <1>23 DEF Cut
  <2>3. \A z \in Range(Q(l)) : t.next[z] = s.next[z] /\ t.prev[z] = s.prev[z]
    <3> SUFFICES ASSUME NEW z \in On(s, l)
                 PROVE  t.next[z] = s.next[z] /\ t.prev[z] = s.prev[z]
      BY <1>2
    <3>1. z \notin On(s, k) /\ z \in Page BY <1>2, <1>4
    <3>2. z # p /\ z # s.prev[p] /\ z # s.next[p] BY <1>3, <3>1
    <3> QED BY <1>26, <3>1, <3>2
  <2>4. Closed(t.next, t.prev, Q(l)) BY <1>2, <2>3, ClosedKept
  <2> QED BY <1>2, <2>1, <2>2, <2>4 DEF IsRing
<1>8. /\ IsRing(t, k, Without(Q(k), i))
      /\ Range(Without(Q(k), i)) = Range(Q(k)) \ {p}
  <2> DEFINE q == Q(k)
             w == Without(q, i)
  <2>1. q \in Seq(Page) /\ IsInjective(q) /\ Len(q) \in Nat /\ DOMAIN q = 1 .. Len(q)
        /\ Len(q) = s.count[k] /\ Range(q) = On(s, k) /\ q[1] = s.start[k]
        /\ Closed(s.next, s.prev, q) /\ q[i] = p /\ i \in 1 .. Len(q)
    BY <1>2, <1>5, <1>25
  <2> HIDE DEF q
  <2>2. w \in Seq(Page) /\ IsInjective(w) /\ Len(w) = Len(q) - 1 /\ Range(w) = Range(q) \ {p}
    BY <2>1, WithoutIs
  <2>3. \A j \in 1 .. Len(q) - 1 : w[j] = IF j < i THEN q[j] ELSE q[j + 1] BY DEF Without
  <2> HIDE DEF w
  <2>4. t.count[k] = Len(w) BY <1>6, <1>23, <2>1, <2>2
  <2>5. \A z \in Range(q) \ {q[i]} :
          /\ t.next[z] = IF z = s.prev[q[i]] THEN s.next[q[i]] ELSE s.next[z]
          /\ t.prev[z] = IF z = s.next[q[i]] THEN s.prev[q[i]] ELSE s.prev[z]
    BY <1>2, <1>26, <2>1
  <2>6. Closed(t.next, t.prev, w) BY <2>1, <2>5, ClosedWithout DEF w
  <2>7. ASSUME w # <<>> PROVE t.start[k] = w[1]
    <3>1. Len(q) > 1 /\ 1 \in 1 .. Len(q) - 1 BY <2>1, <2>2, <2>7
    <3>2. CASE p = s.start[k]
      <4>1. i = 1 BY <2>1, <3>1, <3>2 DEF IsInjective
      <4>2. w[1] = q[2] BY <2>3, <3>1, <4>1
      <4>3. After(q, 1) = 2 /\ 1 \in 1 .. Len(q) BY <2>1, <3>1 DEF After
      <4>4. s.next[p] = q[2] BY <2>1, <4>1, <4>3 DEF Closed
      <4>5. t.start[k] = s.next[p] BY <1>21, <1>23, <3>2 DEF Cut
      <4> QED BY <4>2, <4>4, <4>5
    <3>3. CASE p # s.start[k]
      <4>1. i # 1 BY <2>1, <3>3
      <4>2. w[1] = q[1] BY <2>1, <2>3, <3>1, <4>1
      <4>3. t.start[k] = s.start[k] BY <1>21, <3>3 DEF Cut
      <4> QED BY <2>1, <4>2, <4>3
    <3> QED BY <3>2, <3>3
  <2> QED BY <2>2, <2>4, <2>6, <2>7 DEF IsRing, q, w
<1>9. \A l \in Kind : IsRing(t, l, N[l]) /\ Range(N[l]) \subseteq 0 .. t.len - 1
  <2>1. t.len = s.len BY <1>6 DEF SamePages
  <2>2. \A l \in Kind : On(s, l) \subseteq 0 .. s.len - 1 BY DEF RingsInv
  <2> QED BY <1>2, <1>7, <1>8, <2>1, <2>2
<1>10. \A l \in Kind : Range(N[l]) = IF l = k THEN On(s, l) \ {p} ELSE On(s, l)
  BY <1>2, <1>8
<1>11. \A l, m \in Kind : l # m => Range(N[l]) \cap Range(N[m]) = {}
  <2>1. \A l \in Kind : Range(N[l]) \subseteq On(s, l) BY <1>10
  <2>2. \A l, m \in Kind : l # m => On(s, l) \cap On(s, m) = {} BY DEF RingsInv
  <2> QED BY <2>1, <2>2
<1> HIDE DEF N
<1>12. t.len <= Pages BY <1>1, <1>6 DEF SamePages
<1>13. RingsInv(t) /\ \A l \in Kind : On(t, l) = Range(N[l])
  BY <1>6, <1>9, <1>11, <1>12, RingsFrom
<1> QED BY <1>6, <1>10, <1>13

\* The rings depend on the links alone.
LEMMA SameRings ==
  ASSUME NEW s, RingsInv(s), NEW t \in Slab,
         t.start = s.start, t.count = s.count, t.next = s.next, t.prev = s.prev,
         s.len <= t.len, t.len <= Pages
  PROVE  RingsInv(t) /\ \A k \in Kind : On(t, k) = On(s, k)
<1>1. \A k \in Kind : \A j : Nth(t, k, j) = Nth(s, k, j) BY DEF Nth
<1>2. \A k \in Kind : Along(t, k) = Along(s, k) /\ On(t, k) = On(s, k)
  BY <1>1 DEF Along, On
<1>3. \A k \in Kind : IsRing(t, k, Along(t, k))
  BY <1>2 DEF RingsInv, IsRing
<1>4. \A k \in Kind : On(t, k) \subseteq 0 .. t.len - 1
  <2>1. s \in Slab BY DEF RingsInv
  <2>2. s.len \in Nat /\ t.len \in Nat BY <2>1 DEF Slab
  <2>3. 0 .. s.len - 1 \subseteq 0 .. t.len - 1 BY <2>2
  <2> QED BY <1>2, <2>3 DEF RingsInv
<1> QED BY <1>2, <1>3, <1>4 DEF RingsInv

-----------------------------------------------------------------------------
(***************************************************************************)
(* The objects of a block.                                                 *)
(***************************************************************************)
\* The next power of two exists, and is the next one.
LEMMA NextPower ==
  ASSUME NEW n \in Nat, n <= Power(20)
  PROVE  LET p == NextPowerOfTwo(n)
         IN  p \in Nat \ {0} /\ p >= n /\ (p = 1 \/ p \div 2 < n)
<1> DEFINE P == {2 ^ k : k \in 0 .. 20}
           T == {p \in P : p >= n}
<1>0. P = {Power(k) : k \in 0 .. 20} BY DEF Power
<1> HIDE DEF P
<1>1. /\ P \subseteq Nat \ {0} /\ Power(20) \in P
      /\ \A p \in P : p = 1 \/ (p \div 2 \in P /\ p \div 2 < p)
  <2>1. P \subseteq Nat \ {0} /\ Power(20) \in P BY <1>0, Doubles
  <2>2. ASSUME NEW p \in P, p # 1 PROVE p \div 2 \in P /\ p \div 2 < p
    <3>1. PICK k \in 0 .. 20 : p = Power(k) BY <1>0
    <3>2. k \in 1 .. 20 /\ k - 1 \in 0 .. 20 BY <2>2, <3>1, Doubles
    <3> DEFINE h == Power(k - 1)
    <3>3. p = 2 * h /\ h \in Nat \ {0} /\ h \in P BY <1>0, <3>1, <3>2, Doubles
    <3> HIDE DEF h
    <3>4. p \div 2 = h BY <3>3
    <3> QED BY <3>3, <3>4
  <2> QED BY <2>1, <2>2
<1>2. T \in SUBSET Nat /\ T # {} BY <1>1
<1>3. PICK m \in T : \A k \in T : m <= k BY <1>2, Smallest
<1>4. m = 1 \/ m \div 2 < n BY <1>1, <1>3
<1>5. \E p \in P : p >= n /\ (p = 1 \/ p \div 2 < n) BY <1>3, <1>4
<1> QED BY <1>1, <1>5 DEF NextPowerOfTwo, P

LEMMA PgCountIs ==
  ASSUME NEW c \in Class
  PROVE  /\ SizeClass[c] \in Nat \ {0} /\ BlockBytes \in Nat \ {0}
         /\ PgCount(c) \in Nat \ {0} /\ BlockBytes <= Power(20)
         /\ PgCount(c) * SizeClass[c] <= BlockBytes
         /\ BlockBytes < (PgCount(c) + 1) * SizeClass[c]
<1> DEFINE n == SizeClass[c]
<1>1. Power(20) \in Nat BY Doubles
<1>2. BlockBytes \in 1 .. Power(20) /\ n \in 1 .. BlockBytes BY SlabAssumption DEF Power
<1>3. n \in Nat \ {0} /\ BlockBytes \in Nat \ {0} /\ n <= BlockBytes
      /\ BlockBytes <= Power(20)
  BY <1>1, <1>2
<1> HIDE DEF n
<1> DEFINE q == BlockBytes \div n
           r == BlockBytes % n
<1>4. q \in Nat /\ r \in 0 .. n - 1 /\ BlockBytes = n * q + r BY <1>3, Division
<1>5. PgCount(c) = q BY DEF PgCount, n
<1> HIDE DEF q, r
<1>6. q # 0
  <2>1. q = 0 => n * q = 0 BY <1>3
  <2> QED BY <1>3, <1>4, <2>1
<1>7. q * n = n * q /\ (q + 1) * n = n * q + n BY <1>3, <1>4
<1> QED BY <1>3, <1>4, <1>5, <1>6, <1>7 DEF n

\* Objects do not overlap, and the last one ends within the block.
LEMMA PgAlignIs ==
  ASSUME NEW c \in Class
  PROVE  /\ PgAlign(c) \in Nat \ {0} /\ SizeClass[c] <= PgAlign(c)
         /\ PgCount(c) * PgAlign(c) <= BlockBytes
<1> DEFINE size == SizeClass[c]
           n == PgCount(c)
           perfect == BlockBytes \div n
           rest == perfect - size
           half == NextPowerOfTwo(rest) \div 2
           least == IF half = 0 THEN 1 ELSE half
           up == (size \div least + 1) * least
<1>1. /\ size \in Nat \ {0} /\ BlockBytes \in Nat \ {0} /\ n \in Nat \ {0}
      /\ n * size <= BlockBytes /\ BlockBytes <= Power(20) /\ Power(20) \in Nat
  BY PgCountIs, Doubles
<1>10. PgAlign(c) = IF perfect = NextPowerOfTwo(perfect) THEN perfect
                    ELSE IF size % least = 0 THEN size ELSE up
  BY DEF PgAlign
<1> HIDE DEF size, n
<1>2. perfect \in Nat /\ n * perfect <= BlockBytes /\ BlockBytes < n * (perfect + 1)
  <2> DEFINE r == BlockBytes % n
  <2>1. perfect \in Nat /\ r \in 0 .. n - 1 /\ BlockBytes = n * perfect + r
    BY <1>1, Division
  <2> HIDE DEF perfect, r
  <2>2. n * (perfect + 1) = n * perfect + n /\ n * perfect \in Nat BY <1>1, <2>1
  <2> QED BY <1>1, <2>1, <2>2
<1> HIDE DEF perfect
<1>3. size <= perfect
  <2> SUFFICES ASSUME perfect + 1 <= size PROVE FALSE BY <1>1, <1>2
  <2>1. n * (perfect + 1) <= n * size BY <1>1, <1>2
  <2>2. n * (perfect + 1) \in Nat /\ n * size \in Nat BY <1>1, <1>2
  <2> QED BY <1>1, <1>2, <2>1, <2>2
<1>4. rest \in Nat /\ rest <= perfect /\ perfect <= BlockBytes /\ rest <= Power(20)
  <2>1. perfect <= n * perfect /\ n * perfect \in Nat BY <1>1, <1>2
  <2>2. perfect <= BlockBytes BY <1>1, <1>2, <2>1
  <2> QED BY <1>1, <1>2, <1>3, <2>2
<1> HIDE DEF rest
<1>5. half \in Nat /\ (half = 0 \/ half < rest)
  <2> DEFINE p == NextPowerOfTwo(rest)
  <2>1. p \in Nat \ {0} /\ (p = 1 \/ p \div 2 < rest) BY <1>4, NextPower
  <2> HIDE DEF p
  <2>2. p \div 2 \in Nat BY <2>1, Division
  <2>3. p = 1 => p \div 2 = 0 OBVIOUS
  <2> QED BY <2>1, <2>2, <2>3 DEF p
<1> HIDE DEF half
<1>6. least \in Nat \ {0} /\ (least = 1 \/ least < rest) BY <1>5
<1> HIDE DEF least
<1>7. ASSUME perfect = NextPowerOfTwo(perfect) PROVE PgAlign(c) = perfect
  BY <1>7, <1>10
<1>8. ASSUME perfect # NextPowerOfTwo(perfect), size % least = 0 PROVE PgAlign(c) = size
  BY <1>8, <1>10
<1>9. ASSUME perfect # NextPowerOfTwo(perfect), size % least # 0
      PROVE  PgAlign(c) \in Nat /\ size <= PgAlign(c) /\ PgAlign(c) <= perfect
  <2>1. PgAlign(c) = up BY <1>9, <1>10
  <2> DEFINE q == size \div least
             r == size % least
  <2>2. q \in Nat /\ r \in 0 .. least - 1 /\ size = least * q + r BY <1>1, <1>6, Division
  <2>3. least # 1 BY <1>6, <1>9, <2>2
  <2>4. r # 0 /\ up = (q + 1) * least BY <1>9
  <2> HIDE DEF q, r, up
  <2>5. (q + 1) * least = least * q + least /\ least * q \in Nat BY <1>6, <2>2
  <2>6. up \in Nat /\ size <= up /\ up <= size + least BY <1>1, <1>6, <2>2, <2>4, <2>5
  <2>7. rest = perfect - size BY DEF rest
  <2> QED BY <1>1, <1>2, <1>4, <1>6, <2>1, <2>3, <2>6, <2>7
<1>11. PgAlign(c) \in Nat /\ size <= PgAlign(c) /\ PgAlign(c) <= perfect
  BY <1>1, <1>2, <1>3, <1>7, <1>8, <1>9, <1>10
<1>12. n * PgAlign(c) <= n * perfect /\ n * PgAlign(c) \in Nat /\ n * perfect \in Nat
  BY <1>1, <1>2, <1>11
<1>13. n * PgAlign(c) <= BlockBytes BY <1>1, <1>2, <1>12
<1> QED BY <1>1, <1>11, <1>13 DEF size, n

LEMMA SlotsAre ==
  ASSUME NEW c \in Class
  PROVE  /\ Slots(c) \subseteq Bits(c) /\ Slots(c) \subseteq Nat /\ Bits(c) \subseteq Nat
         /\ IsFiniteSet(Slots(c)) /\ Cardinality(Slots(c)) = PgCount(c)
         /\ IsFiniteSet(Bits(c))
<1> DEFINE n == PgCount(c)
           x == n + WordBits - 1
           q == x \div WordBits
           r == x % WordBits
<1>1. n \in Nat \ {0} /\ WordBits \in Nat \ {0} /\ x \in Nat
  BY PgCountIs, SlabAssumption
<1>2. Slots(c) = 0 .. n - 1 /\ Bits(c) = 0 .. q * WordBits - 1 BY DEF Slots, Bits, Words
<1>3. q \in Nat /\ r \in 0 .. WordBits - 1 /\ x = WordBits * q + r BY <1>1, Division
<1> HIDE DEF n
<1>4. x = n + WordBits - 1 OBVIOUS
<1> HIDE DEF q, r, x
<1>5. WordBits * q \in Nat /\ q * WordBits = WordBits * q BY <1>1, <1>3
<1>6. n <= q * WordBits /\ q * WordBits \in Nat BY <1>1, <1>3, <1>4, <1>5
<1> DEFINE m == q * WordBits
<1>7. 0 \in Int /\ n - 1 \in Int /\ m - 1 \in Int /\ 0 <= n - 1 BY <1>1, <1>6
<1>8. IsFiniteSet(0 .. n - 1) /\ Cardinality(0 .. n - 1) = n
  <2> DEFINE l == n - 1
  <2>1. l \in Int /\ 0 <= l /\ l + 1 = n BY <1>1, <1>7
  <2> HIDE DEF l
  <2>2. IsFiniteSet(0 .. l) /\ Cardinality(0 .. l) = IF 0 > l THEN 0 ELSE l - 0 + 1
    BY <2>1, FS_Interval
  <2> QED BY <2>1, <2>2 DEF l
<1>9. IsFiniteSet(0 .. m - 1) BY <1>7, FS_Interval
<1>10. 0 .. n - 1 \subseteq 0 .. m - 1 BY <1>6, <1>1
<1> QED BY <1>2, <1>8, <1>9, <1>10, <1>1, <1>6 DEF n, m

\* first_fit answers the index of an object.
LEMMA FitsAre ==
  ASSUME NEW c \in Class, NEW s \in Slab, NEW p \in Page, NEW a, Fits(c, s, p, a) # {}
  PROVE  first_fit(c, s, p, a) \in Slots(c) \ s.bits[p]
<1> DEFINE i == Min(Fits(c, s, p, a))
<1>1. Fits(c, s, p, a) \in SUBSET Nat BY SlotsAre DEF Fits
<1>2. i \in Fits(c, s, p, a) BY <1>1, Least
<1>3. first_fit(c, s, p, a) = i BY DEF first_fit
<1> HIDE DEF i
<1>4. i \in Bits(c) \ s.bits[p] /\ i <= PgCount(c) /\ (i + 1) * PgAlign(c) <= BlockBytes
  BY <1>2 DEF Fits
<1>5. i \in Nat BY <1>4, SlotsAre
<1> DEFINE n == PgCount(c)
           d == PgAlign(c)
           z == SizeClass[c]
<1>6. n \in Nat \ {0} /\ d \in Nat \ {0} /\ z \in Nat \ {0} /\ z <= d
      /\ BlockBytes < (n + 1) * z /\ BlockBytes \in Nat
  BY PgCountIs, PgAlignIs
<1> HIDE DEF n, d, z
<1>7. i # n
  <2>1. (n + 1) * z <= (n + 1) * d BY <1>6
  <2>2. (n + 1) * z \in Nat /\ (n + 1) * d \in Nat BY <1>6
  <2>3. (i + 1) * d <= BlockBytes BY <1>4 DEF d
  <2> QED BY <1>6, <2>1, <2>2, <2>3
<1>8. i \in 0 .. n - 1 BY <1>4, <1>5, <1>6, <1>7 DEF n
<1> QED BY <1>3, <1>4, <1>8 DEF Slots, n

\* allocate_batch sets the bits of objects that are free, and no more than asked for.
LEMMA BatchBitsAre ==
  ASSUME NEW c \in Class, NEW s \in Slab, NEW p \in Page, NEW n \in Int
  PROVE  LET I == BatchBits(c, s, p, n)
         IN  /\ I \subseteq Slots(c) \ s.bits[p] /\ IsFiniteSet(I)
             /\ n >= 0 => Cardinality(I) <= n
             /\ n <= 0 => I = {}
<1> DEFINE I == BatchBits(c, s, p, n)
           free(i) == (0 .. i - 1) \ s.bits[p]
           f == [i \in I |-> Cardinality(free(i))]
<1>1. I \subseteq Slots(c) \ s.bits[p] /\ \A i \in I : Cardinality(free(i)) < n
  BY DEF BatchBits, Slots
<1>2. I \subseteq Nat /\ IsFiniteSet(I) BY <1>1, SlotsAre, FS_Subset
<1> HIDE DEF I
<1>3. \A i \in I : IsFiniteSet(free(i)) /\ Cardinality(free(i)) \in Nat
  <2> TAKE i \in I
  <2>1. i - 1 \in Int /\ 0 \in Int BY <1>2
  <2>2. IsFiniteSet(0 .. i - 1) BY <2>1, FS_Interval
  <2>3. IsFiniteSet(free(i)) BY <2>2, FS_Subset
  <2> QED BY <2>3, FS_CardinalityType
<1>4. ASSUME NEW i \in I, NEW j \in I, i < j PROVE Cardinality(free(i)) < Cardinality(free(j))
  <2>1. i \in free(j) /\ i \notin free(i) /\ free(i) \subseteq free(j)
    BY <1>1, <1>2, <1>4
  <2> HIDE DEF free
  <2>2. free(i) # free(j) BY <2>1
  <2> QED BY <1>3, <2>1, <2>2, FS_Subset
<1> HIDE DEF free
<1>5. ASSUME n >= 0 PROVE Cardinality(I) <= n
  <2>1. n - 1 \in Int /\ 0 \in Int /\ n \in Nat BY <1>5
  <2>2. IsFiniteSet(0 .. n - 1) /\ Cardinality(0 .. n - 1) = n
    <3> DEFINE l == n - 1
    <3>1. l \in Int /\ n = l + 1 /\ 0 <= n BY <2>1
    <3> HIDE DEF l
    <3>2. IsFiniteSet(0 .. l) /\ Cardinality(0 .. l) = IF 0 > l THEN 0 ELSE l - 0 + 1
      BY <3>1, FS_Interval
    <3> QED BY <3>1, <3>2 DEF l
  <2>3. \A i \in I : f[i] \in 0 .. n - 1 BY <1>1, <1>3, <2>1
  <2>4. ASSUME NEW i \in I, NEW j \in I, f[i] = f[j] PROVE i = j
    <3>1. Cardinality(free(i)) = Cardinality(free(j)) BY <2>4
    <3> HIDE DEF f
    <3>2. ~ (i < j) /\ ~ (j < i) BY <1>3, <1>4, <3>1
    <3> QED BY <1>2, <3>2
  <2>5. f \in Injection(I, 0 .. n - 1)
    <3>1. f \in [I -> 0 .. n - 1] BY <2>3
    <3> HIDE DEF f
    <3> QED BY <2>4, <3>1 DEF Injection, IsInjective
  <2> QED BY <1>2, <2>2, <2>5, FS_Injection
<1>6. n <= 0 => I = {} BY <1>1, <1>3
<1> QED BY <1>1, <1>2, <1>5, <1>6 DEF I

\* Bits set and bits cleared are counted.
LEMMA Counted ==
  ASSUME NEW U, IsFiniteSet(U), NEW I, IsFiniteSet(I)
  PROVE  /\ Cardinality(U) \in Nat /\ Cardinality(I) \in Nat
         /\ I \cap U = {} => Cardinality(U \cup I) = Cardinality(U) + Cardinality(I)
         /\ I \subseteq U => Cardinality(U \ I) = Cardinality(U) - Cardinality(I)
<1>1. Cardinality(U) \in Nat /\ Cardinality(I) \in Nat BY FS_CardinalityType
<1>2. I \cap U = {} => Cardinality(U \cup I) = Cardinality(U) + Cardinality(I)
  <2> SUFFICES ASSUME I \cap U = {} PROVE Cardinality(U \cup I) = Cardinality(U) + Cardinality(I)
    OBVIOUS
  <2>1. Cardinality(U \cup I) = Cardinality(U) + Cardinality(I) - Cardinality(U \cap I)
    BY FS_Union
  <2>2. Cardinality({}) = 0 BY FS_EmptySet
  <2>3. U \cap I = {} OBVIOUS
  <2>4. Cardinality(U \cap I) = 0 BY <2>2, <2>3, Zenon
  <2> QED BY <1>1, <2>1, <2>4
<1>3. I \subseteq U => Cardinality(U \ I) = Cardinality(U) - Cardinality(I)
  <2>1. Cardinality(U \ I) = Cardinality(U) - Cardinality(U \cap I) BY FS_Difference
  <2>2. I \subseteq U => U \cap I = I OBVIOUS
  <2> QED BY <2>1, <2>2
<1> QED BY <1>1, <1>2, <1>3

-----------------------------------------------------------------------------
(***************************************************************************)
(* A step changes one page p of one class c, and objects of its block b.   *)
(***************************************************************************)
Others(s, t, p) ==
  /\ s.len <= t.len /\ 0 .. t.len - 1 = (0 .. s.len - 1) \cup {p}
  /\ \A z \in Page \ {p} : /\ t.counter[z] = s.counter[z] /\ t.bits[z] = s.bits[z]
                           /\ t.data[z] = s.data[z]
                           /\ \A k \in Kind : z \in On(t, k) <=> z \in On(s, k)

Mine(c, p, b) ==
  \A d \in Class : \A z \in 0 .. sc[d].len - 1 : sc[d].data[z] = b => d = c /\ z = p

SlabStep(c, p, b) ==
  /\ sc' \in [Class -> Slab] /\ op' \in [Class -> Op]
  /\ \A d \in Class \ {c} : sc'[d] = sc[d] /\ op'[d] = op[d]
  /\ RingsInv(sc'[c]) /\ sc'[c].len <= MaxPages[c] /\ Others(sc[c], sc'[c], p)
  /\ sc[c].data[p] \in {b, Null} /\ sc'[c].data[p] \in {b, Null} /\ Mine(c, p, b)
  /\ Unlinked(c) \subseteq {p} /\ Unlinked(c)' \subseteq {p}
  /\ PagePlaced(c, p)' /\ PageBits(c, p)' /\ OpInv(c)'

LiveStep(c, p, b) ==
  /\ \A o \in live : o \in live' \/ (o[1] = c /\ o[2] = b)
  /\ \A o \in live' : o \in live \/ \E i \in Slots(c) : o = <<c, b, i>>
  /\ \A o \in live' : o[1] = c /\ o[2] = b => sc'[c].data[p] = b

BlockStep(c, p, b) ==
  /\ blocks' \subseteq blocks \cup {b} /\ rd' \in [Block -> Nat]
  /\ \A x \in Block \ {b} : rd'[x] = rd[x]
  /\ b \in blocks' => rd'[b] = 0 /\ sc'[c].data[p] # b
  /\ sc'[c].data[p] = b /\ p \notin Unlinked(c)' => rd'[b] = p + 1
  /\ Unlinked(c)' # {} => rd'[b] = 0

LEMMA IsInRange ==
  ASSUME NEW s, RingsInv(s), NEW p \in 0 .. s.len - 1
  PROVE  p \in Page /\ s \in Slab /\ s.len \in Nat /\ s.len <= Pages
<1>1. s \in Slab /\ s.len <= Pages BY DEF RingsInv
<1>2. s.len \in Nat BY <1>1 DEF Slab
<1> QED BY <1>1, <1>2, PagesIsNat DEF Page

LEMMA StepFrame ==
  ASSUME SlabInv, NEW c \in Class, NEW p \in Page, NEW b \in Block, SlabStep(c, p, b)
  PROVE  /\ \A d \in Class : sc[d] \in Slab /\ sc'[d] \in Slab /\ sc[d].len \in Nat
         /\ \A d \in Class : \A z \in 0 .. sc[d].len - 1 : z \in Page
         /\ p \in 0 .. sc'[c].len - 1 /\ Null # b
         /\ \A d \in Class : \A z \in 0 .. sc'[d].len - 1 :
              d # c \/ z # p =>
                /\ z \in 0 .. sc[d].len - 1 /\ z \in Page
                /\ sc'[d].counter[z] = sc[d].counter[z] /\ sc'[d].bits[z] = sc[d].bits[z]
                /\ sc'[d].data[z] = sc[d].data[z] /\ sc[d].data[z] # b
                /\ \A k \in Kind : z \in On(sc'[d], k) <=> z \in On(sc[d], k)
<1>1. \A d \in Class : sc[d] \in Slab /\ sc'[d] \in Slab BY DEF SlabInv, SlabStep
<1>2. \A d \in Class : sc[d].len \in Nat /\ sc'[d].len \in Nat BY <1>1 DEF Slab
<1>3. \A d \in Class : sc[d].len <= Pages BY DEF SlabInv, RingsInv
<1>4. \A d \in Class : \A z \in 0 .. sc[d].len - 1 : z \in Page
  BY <1>2, <1>3, PagesIsNat DEF Page
<1>5. p \in 0 .. sc'[c].len - 1 /\ Null # b BY SlabAssumption DEF SlabStep, Others
<1>6. ASSUME NEW d \in Class, NEW z \in 0 .. sc'[d].len - 1, d # c \/ z # p
      PROVE  /\ z \in 0 .. sc[d].len - 1 /\ z \in Page
             /\ sc'[d].counter[z] = sc[d].counter[z] /\ sc'[d].bits[z] = sc[d].bits[z]
             /\ sc'[d].data[z] = sc[d].data[z] /\ sc[d].data[z] # b
             /\ \A k \in Kind : z \in On(sc'[d], k) <=> z \in On(sc[d], k)
  <2>1. CASE d # c
    <3>1. sc'[d] = sc[d] BY <2>1 DEF SlabStep
    <3>2. z \in 0 .. sc[d].len - 1 BY <3>1
    <3>3. sc[d].data[z] # b BY <2>1, <3>2 DEF SlabStep, Mine
    <3> QED BY <1>4, <3>1, <3>2, <3>3
  <2>2. CASE d = c
    <3>1. z # p /\ Others(sc[c], sc'[c], p) BY <1>6, <2>2 DEF SlabStep
    <3>2. z \in 0 .. sc[c].len - 1 /\ z \in Page BY <1>4, <2>2, <3>1 DEF Others
    <3>3. sc[c].data[z] # b BY <3>1, <3>2 DEF SlabStep, Mine
    <3>4. /\ sc'[c].counter[z] = sc[c].counter[z] /\ sc'[c].bits[z] = sc[c].bits[z]
          /\ sc'[c].data[z] = sc[c].data[z]
          /\ \A k \in Kind : z \in On(sc'[c], k) <=> z \in On(sc[c], k)
      BY <3>1, <3>2 DEF Others
    <3> QED BY <2>2, <3>2, <3>3, <3>4
  <2> QED BY <2>1, <2>2
<1> QED BY <1>1, <1>2, <1>4, <1>5, <1>6

LEMMA StepPlaced ==
  ASSUME SlabInv, NEW c \in Class, NEW p \in Page, NEW b \in Block, SlabStep(c, p, b)
  PROVE  \A d \in Class : PlacedInv(d)'
<1> SUFFICES ASSUME NEW d \in Class, NEW z \in 0 .. sc'[d].len - 1, d # c \/ z # p
             PROVE  PagePlaced(d, z)'
  <2>1. \A d \in Class : sc'[d].len <= MaxPages[d]
    BY DEF SlabStep, SlabInv, PlacedInv
  <2>2. PagePlaced(c, p)' BY DEF SlabStep
  <2> QED BY <2>1, <2>2 DEF PlacedInv
<1>1. /\ z \in 0 .. sc[d].len - 1
      /\ sc'[d].counter[z] = sc[d].counter[z]
      /\ sc'[d].data[z] = sc[d].data[z]
      /\ \A k \in Kind : z \in On(sc'[d], k) <=> z \in On(sc[d], k)
  BY StepFrame
<1>2. PagePlaced(d, z) BY <1>1 DEF SlabInv, PlacedInv
<1>3. z \in Unlinked(d)' <=> z \in Unlinked(d)
  <2>1. CASE d # c BY <2>1 DEF SlabStep, Unlinked
  <2>2. CASE d = c BY <2>2 DEF SlabStep
  <2> QED BY <2>1, <2>2
<1>4. {"full", "partial", "empty", "uninit"} = Kind BY DEF Kind
<1> QED BY <1>1, <1>2, <1>3, <1>4 DEF PagePlaced, is_full, is_empty

LEMMA StepBits ==
  ASSUME SlabInv, NEW c \in Class, NEW p \in Page, NEW b \in Block, SlabStep(c, p, b),
         LiveStep(c, p, b)
  PROVE  \A d \in Class : BitsInv(d)'
<1> SUFFICES ASSUME NEW d \in Class, NEW z \in Page, d # c \/ z # p
             PROVE  /\ z \in 0 .. sc'[d].len - 1 => PageBits(d, z)'
                    /\ z >= sc'[d].len => Fresh(sc'[d], z)
  <2>1. PageBits(c, p)' BY DEF SlabStep
  <2>2. p \in 0 .. sc'[c].len - 1 BY StepFrame
  <2>3. p < sc'[c].len /\ p \in Nat /\ sc'[c].len \in Nat
    <3>1. sc'[c] \in Slab BY StepFrame
    <3>2. sc'[c].len \in Nat BY <3>1 DEF Slab
    <3> QED BY <2>2, <3>2
  <2>4. \A d \in Class : \A z \in 0 .. sc'[d].len - 1 : z \in Page
    BY StepFrame
  <2> QED BY <2>1, <2>3, <2>4 DEF BitsInv
<1>1. CASE z \in 0 .. sc'[d].len - 1
  <2>1. /\ z \in 0 .. sc[d].len - 1
        /\ sc'[d].counter[z] = sc[d].counter[z] /\ sc'[d].bits[z] = sc[d].bits[z]
        /\ sc'[d].data[z] = sc[d].data[z] /\ sc[d].data[z] # b
    BY <1>1, StepFrame
  <2>2. PageBits(d, z) BY <2>1 DEF SlabInv, BitsInv
  <2>3. \A i : <<d, sc[d].data[z], i>> \in live' <=> <<d, sc[d].data[z], i>> \in live
    BY <2>1 DEF LiveStep
  <2>4. PageBits(d, z)' BY <2>1, <2>2, <2>3 DEF PageBits, Used
  <2>5. ~ (z >= sc'[d].len)
    <3>1. sc'[d] \in Slab BY StepFrame
    <3>2. sc'[d].len \in Nat BY <3>1 DEF Slab
    <3> QED BY <1>1, <3>2
  <2> QED BY <2>4, <2>5
<1>2. CASE z >= sc'[d].len
  <2>1. z >= sc[d].len /\ Fresh(sc[d], z)
    <3>1. sc[d].len \in Nat /\ sc'[d].len \in Nat
      <4>1. sc[d] \in Slab /\ sc'[d] \in Slab BY StepFrame
      <4> QED BY <4>1 DEF Slab
    <3>2. sc[d].len <= sc'[d].len
      <4>1. CASE d = c BY <4>1 DEF SlabStep, Others
      <4>2. CASE d # c BY <3>1, <4>2 DEF SlabStep
      <4> QED BY <4>1, <4>2
    <3>3. z \in Nat BY PagesIsNat DEF Page
    <3>4. z >= sc[d].len BY <1>2, <3>1, <3>2, <3>3
    <3> QED BY <3>4 DEF SlabInv, BitsInv
  <2>2. /\ sc'[d].counter[z] = sc[d].counter[z] /\ sc'[d].bits[z] = sc[d].bits[z]
        /\ sc'[d].data[z] = sc[d].data[z]
    <3>1. CASE d = c BY <3>1 DEF SlabStep, Others
    <3>2. CASE d # c BY <3>2 DEF SlabStep
    <3> QED BY <3>1, <3>2
  <2>3. z \notin 0 .. sc'[d].len - 1
    <3>1. sc'[d] \in Slab BY StepFrame
    <3>2. sc'[d].len \in Nat BY <3>1 DEF Slab
    <3>3. z \in Nat BY PagesIsNat DEF Page
    <3> QED BY <1>2, <3>2, <3>3
  <2> QED BY <2>1, <2>2, <2>3 DEF Fresh
<1>3. z \in 0 .. sc'[d].len - 1 \/ z >= sc'[d].len
  <2>1. sc'[d] \in Slab BY StepFrame
  <2>2. sc'[d].len \in Nat BY <2>1 DEF Slab
  <2>3. z \in Nat BY PagesIsNat DEF Page
  <2> QED BY <2>2, <2>3
<1> QED BY <1>1, <1>2, <1>3

LEMMA StepOp ==
  ASSUME SlabInv, NEW c \in Class, NEW p \in Page, NEW b \in Block, SlabStep(c, p, b),
         LiveStep(c, p, b)
  PROVE  \A d \in Class : OpInv(d)'
<1> SUFFICES ASSUME NEW d \in Class \ {c} PROVE OpInv(d)' BY DEF SlabStep
<1>1. sc'[d] = sc[d] /\ op'[d] = op[d] BY DEF SlabStep
<1>2. LiveOf(d) \subseteq LiveOf(d)' BY DEF LiveOf, LiveStep
<1>3. OpInv(d) BY DEF SlabInv
<1> QED BY <1>1, <1>2, <1>3 DEF OpInv, is_empty

LEMMA StepDoomed ==
  ASSUME SlabInv, NEW c \in Class, NEW p \in Page, NEW b \in Block, SlabStep(c, p, b),
         BlockStep(c, p, b)
  PROVE  \A d \in Class : DoomedInv(d)'
<1> SUFFICES ASSUME NEW d \in Class, op'[d].kind = "destroy"
             PROVE  rd'[sc'[d].data[op'[d].page]] = 0
  BY DEF DoomedInv
<1>1. CASE d = c
  <2>1. Unlinked(c)' = {op'[c].page} BY <1>1 DEF Unlinked
  <2>2. op'[c].page = p /\ rd'[b] = 0 BY <2>1 DEF SlabStep, BlockStep
  <2>3. sc'[c].data[p] = b BY <1>1, <2>2 DEF SlabStep, OpInv
  <2> QED BY <1>1, <2>2, <2>3
<1>2. CASE d # c
  <2> DEFINE z == op[d].page
             x == sc[d].data[z]
  <2>1. sc'[d] = sc[d] /\ op'[d] = op[d] BY <1>2 DEF SlabStep
  <2>2. op[d].kind = "destroy" BY <2>1
  <2>3. rd[x] = 0 BY <2>2 DEF SlabInv, DoomedInv
  <2>4. z < sc[d].len /\ x # Null BY <2>2 DEF SlabInv, OpInv
  <2>5. z \in 0 .. sc[d].len - 1
    <3>1. sc[d].len \in Nat /\ z \in Nat BY DEF SlabInv, Slab, Op
    <3> QED BY <2>4, <3>1
  <2>6. x \in Block
    <3>1. RingsInv(sc[d]) BY DEF SlabInv
    <3>2. z \in Page /\ sc[d] \in Slab BY <2>5, <3>1, IsInRange
    <3> QED BY <2>4, <3>2 DEF Slab
  <2>7. x # b BY <1>2, <2>5 DEF SlabStep, Mine
  <2> QED BY <2>1, <2>3, <2>6, <2>7 DEF BlockStep
<1> QED BY <1>1, <1>2

LEMMA StepBlocks ==
  ASSUME SlabInv, NEW c \in Class, NEW p \in Page, NEW b \in Block, SlabStep(c, p, b),
         BlockStep(c, p, b)
  PROVE  BlocksInv'
<1>1. /\ p \in 0 .. sc'[c].len - 1 /\ Null # b /\ Null \notin Block
      /\ sc'[c].data[p] \in {b, Null}
      /\ \A d \in Class : \A z \in 0 .. sc'[d].len - 1 :
           d # c \/ z # p =>
             /\ z \in 0 .. sc[d].len - 1
             /\ sc'[d].data[z] = sc[d].data[z] /\ sc[d].data[z] # b
  BY StepFrame, SlabAssumption DEF SlabStep
<1>2. blocks' \subseteq Block /\ rd' \in [Block -> Nat]
  BY DEF BlockStep, SlabInv, BlocksInv
<1>3. ASSUME NEW d \in Class, NEW z \in 0 .. sc'[d].len - 1 PROVE sc'[d].data[z] \notin blocks'
  <2>1. CASE d # c \/ z # p BY <1>1, <2>1 DEF BlockStep, SlabInv, BlocksInv
  <2>2. CASE d = c /\ z = p BY <1>1, <1>2, <2>2 DEF BlockStep
  <2> QED BY <2>1, <2>2
<1>4. ASSUME NEW d \in Class, NEW e \in Class, NEW y \in 0 .. sc'[d].len - 1,
             NEW z \in 0 .. sc'[e].len - 1,
             sc'[d].data[y] = sc'[e].data[z], sc'[d].data[y] # Null
      PROVE  d = e /\ y = z
  <2>1. CASE (d # c \/ y # p) /\ (e # c \/ z # p)
    BY <1>1, <1>4, <2>1 DEF SlabInv, BlocksInv
  <2>2. CASE d = c /\ y = p BY <1>1, <1>4, <2>2
  <2>3. CASE e = c /\ z = p BY <1>1, <1>4, <2>3
  <2> QED BY <2>1, <2>2, <2>3
<1> QED BY <1>2, <1>3, <1>4 DEF BlocksInv

LEMMA StepLive ==
  ASSUME SlabInv, NEW c \in Class, NEW p \in Page, NEW b \in Block, SlabStep(c, p, b),
         LiveStep(c, p, b)
  PROVE  LiveInv'
<1>1. p \in 0 .. sc'[c].len - 1 /\ sc[c].data[p] \in {b, Null} /\ Null \notin Block
  BY StepFrame, SlabAssumption DEF SlabStep
<1>2. ASSUME NEW o \in live' PROVE o \in Object /\ o[3] \in Slots(o[1])
  <2>1. CASE o \in live BY <2>1 DEF SlabInv, LiveInv
  <2>2. CASE o \notin live
    <3>1. PICK i \in Slots(c) : o = <<c, b, i>> BY <2>2 DEF LiveStep
    <3> QED BY <3>1, SlotsAre DEF Object
  <2> QED BY <2>1, <2>2
<1>3. ASSUME NEW o \in live' PROVE \E z \in 0 .. sc'[o[1]].len - 1 : sc'[o[1]].data[z] = o[2]
  <2>1. CASE o[1] = c /\ o[2] = b BY <1>1, <2>1 DEF LiveStep
  <2>2. CASE o[1] # c \/ o[2] # b
    <3>1. o \in live BY <2>2 DEF LiveStep
    <3>2. o[1] \in Class /\ o[2] \in Block BY <1>2 DEF Object
    <3>3. PICK z \in 0 .. sc[o[1]].len - 1 : sc[o[1]].data[z] = o[2]
      BY <3>1 DEF SlabInv, LiveInv
    <3>4. CASE o[1] # c
      <4>1. sc'[o[1]] = sc[o[1]] BY <3>2, <3>4 DEF SlabStep
      <4> QED BY <3>3, <4>1
    <3>5. CASE o[1] = c
      <4>1. z # p BY <1>1, <2>2, <3>2, <3>3, <3>5
      <4>2. z \in Page /\ z \in 0 .. sc'[c].len - 1
        BY <3>3, <3>5, StepFrame DEF SlabStep, Others
      <4>3. sc'[c].data[z] = sc[c].data[z] BY <4>1, <4>2 DEF SlabStep, Others
      <4> QED BY <3>3, <3>5, <4>2, <4>3
    <3> QED BY <3>4, <3>5
  <2> QED BY <2>1, <2>2
<1> QED BY <1>2, <1>3 DEF LiveInv

LEMMA StepRadix ==
  ASSUME SlabInv, NEW c \in Class, NEW p \in Page, NEW b \in Block, SlabStep(c, p, b),
         BlockStep(c, p, b)
  PROVE  RadixMatchesPages'
<1>1. ASSUME NEW d \in Class, NEW z \in 0 .. sc'[d].len - 1,
             sc'[d].data[z] # Null, z \notin Unlinked(d)'
      PROVE  rd'[sc'[d].data[z]] = z + 1
  <2>1. CASE d = c /\ z = p
    <3>1. sc'[c].data[p] = b BY <1>1, <2>1 DEF SlabStep
    <3> QED BY <1>1, <2>1, <3>1 DEF BlockStep
  <2>2. CASE d # c \/ z # p
    <3>1. /\ z \in 0 .. sc[d].len - 1 /\ z \in Page /\ sc[d] \in Slab
          /\ sc'[d].data[z] = sc[d].data[z] /\ sc[d].data[z] # b
      BY <2>2, StepFrame
    <3>2. sc[d].data[z] \in Block BY <1>1, <3>1 DEF Slab
    <3>3. z \notin Unlinked(d)
      <4>1. CASE d = c BY <2>2, <4>1 DEF SlabStep
      <4>2. CASE d # c BY <1>1, <4>2 DEF SlabStep, Unlinked
      <4> QED BY <4>1, <4>2
    <3>4. rd[sc[d].data[z]] = z + 1 BY <1>1, <3>1, <3>3 DEF SlabInv, RadixMatchesPages
    <3> QED BY <3>1, <3>2, <3>4 DEF BlockStep
  <2> QED BY <2>1, <2>2
<1>2. ASSUME NEW x \in blocks' PROVE rd'[x] = 0
  <2>1. CASE x = b BY <2>1 DEF BlockStep
  <2>2. CASE x # b
    <3>1. x \in blocks /\ x \in Block BY <2>2 DEF BlockStep, SlabInv, BlocksInv
    <3> QED BY <2>2, <3>1 DEF BlockStep, SlabInv, RadixMatchesPages
  <2> QED BY <2>1, <2>2
<1> QED BY <1>1, <1>2 DEF RadixMatchesPages

\* A step that leaves its page in order leaves everything in order.
LEMMA StepInv ==
  ASSUME SlabInv, NEW c \in Class, NEW p \in Page, NEW b \in Block, SlabStep(c, p, b),
         LiveStep(c, p, b), BlockStep(c, p, b)
  PROVE  SlabInv'
<1>1. sc' \in [Class -> Slab] /\ op' \in [Class -> Op] BY DEF SlabStep
<1>2. \A d \in Class : RingsInv(sc'[d]) BY DEF SlabStep, SlabInv
<1>3. \A d \in Class : PlacedInv(d)' BY StepPlaced
<1>4. \A d \in Class : BitsInv(d)' BY StepBits
<1>5. \A d \in Class : OpInv(d)' /\ DoomedInv(d)' BY StepOp, StepDoomed
<1>6. BlocksInv' BY StepBlocks
<1>7. LiveInv' BY StepLive
<1>8. RadixMatchesPages' BY StepRadix
<1> QED BY <1>1, <1>2, <1>3, <1>4, <1>5, <1>6, <1>7, <1>8 DEF SlabInv

-----------------------------------------------------------------------------
(***************************************************************************)
(* What the operations on a slab do, as far as the invariant can tell.     *)
(***************************************************************************)
LEMMA OthersTrans ==
  ASSUME NEW s, NEW t, NEW u, NEW p, s.len \in Int, t.len \in Int, u.len \in Int,
         Others(s, t, p), Others(t, u, p)
  PROVE  Others(s, u, p)
<1>1. s.len <= u.len /\ 0 .. u.len - 1 = (0 .. s.len - 1) \cup {p} BY DEF Others
<1> QED BY <1>1 DEF Others

\* Page p of s gets a counter, bits and a block.
PageAt(s, p, n, B, d) == [s EXCEPT !.counter[p] = n, !.bits[p] = B, !.data[p] = d]

PageSet(s, p, n, B, d, t) ==
  /\ RingsInv(t) /\ Others(s, t, p) /\ t.len = s.len
  /\ t.count = s.count /\ t.start = s.start
  /\ t.counter[p] = n /\ t.bits[p] = B /\ t.data[p] = d
  /\ \A k \in Kind : On(t, k) = On(s, k)

LEMMA PageAtIs ==
  ASSUME NEW s, RingsInv(s), NEW p \in 0 .. s.len - 1, NEW n \in Nat, NEW B \in SUBSET Nat,
         NEW d \in Block \cup {Null}, NEW t, t = PageAt(s, p, n, B, d)
  PROVE  PageSet(s, p, n, B, d, t)
<1>1. s \in Slab /\ s.len <= Pages BY DEF RingsInv
<1>2. p \in Page /\ s.len \in Nat
  <2>1. s.len \in Nat BY <1>1 DEF Slab
  <2> QED BY <1>1, <2>1, PagesIsNat DEF Page
<1>3. /\ t.len = s.len /\ t.start = s.start /\ t.count = s.count
      /\ t.next = s.next /\ t.prev = s.prev
      /\ t.counter = [s.counter EXCEPT ![p] = n]
      /\ t.bits = [s.bits EXCEPT ![p] = B]
      /\ t.data = [s.data EXCEPT ![p] = d]
  BY <1>1 DEF PageAt, Slab
<1>4. /\ [s.counter EXCEPT ![p] = n] \in [Page -> Nat]
      /\ [s.bits EXCEPT ![p] = B] \in [Page -> SUBSET Nat]
      /\ [s.data EXCEPT ![p] = d] \in [Page -> Block \cup {Null}]
  BY <1>1, <1>2 DEF Slab
<1>5. t \in Slab
  <2> DEFINE x == [s.counter EXCEPT ![p] = n]
             y == [s.bits EXCEPT ![p] = B]
             z == [s.data EXCEPT ![p] = d]
  <2>1. t = [s EXCEPT !.counter = x, !.bits = y, !.data = z] BY <1>1 DEF PageAt, Slab
  <2>2. x \in [Page -> Nat] /\ y \in [Page -> SUBSET Nat] /\ z \in [Page -> Block \cup {Null}]
    BY <1>4
  <2> HIDE DEF x, y, z
  <2> QED BY <1>1, <2>1, <2>2 DEF Slab
<1>6. RingsInv(t) /\ \A k \in Kind : On(t, k) = On(s, k)
  BY <1>1, <1>2, <1>3, <1>5, SameRings
<1>7. t.counter[p] = n /\ t.bits[p] = B /\ t.data[p] = d
  BY <1>1, <1>2, <1>3 DEF Slab
<1>8. \A z \in Page \ {p} : t.counter[z] = s.counter[z] /\ t.bits[z] = s.bits[z]
                            /\ t.data[z] = s.data[z]
  BY <1>1, <1>3 DEF Slab
<1>9. 0 .. t.len - 1 = (0 .. s.len - 1) \cup {p} /\ s.len <= t.len BY <1>2, <1>3
<1>10. Others(s, t, p) BY <1>6, <1>8, <1>9 DEF Others
<1> QED BY <1>3, <1>6, <1>7, <1>10 DEF PageSet

\* The bits and the counter of a page; its block.
LEMMA AsPageAt ==
  ASSUME NEW s \in Slab, NEW p \in Page, NEW c \in Class
  PROVE  /\ \A I : SetBits(s, p, I) =
              PageAt(s, p, s.counter[p] + Cardinality(I), s.bits[p] \cup I, s.data[p])
         /\ \A I : ClearBits(s, p, I) =
              PageAt(s, p, s.counter[p] - Cardinality(I), s.bits[p] \ I, s.data[p])
         /\ allocate_all(c, s, p) = PageAt(s, p, PgCount(c), Bits(c), s.data[p])
         /\ \A b : allocate_page(s, p, b) = PageAt(s, p, s.counter[p], s.bits[p], b)
         /\ destroy_page(s, p) = PageAt(s, p, s.counter[p], s.bits[p], Null)
<1>1. /\ s.counter = [s.counter EXCEPT ![p] = s.counter[p]]
      /\ s.bits = [s.bits EXCEPT ![p] = s.bits[p]]
      /\ s.data = [s.data EXCEPT ![p] = s.data[p]]
  BY DEF Slab
<1>2. \A n, B : [s EXCEPT !.bits[p] = B, !.counter[p] = n] = PageAt(s, p, n, B, s.data[p])
  BY <1>1, ZenonT(40) DEF PageAt, Slab
<1>3. \A b : [s EXCEPT !.data[p] = b] = PageAt(s, p, s.counter[p], s.bits[p], b)
  BY <1>1 DEF PageAt, Slab
<1>4. \A I : SetBits(s, p, I) =
               PageAt(s, p, s.counter[p] + Cardinality(I), s.bits[p] \cup I, s.data[p])
  BY <1>2 DEF SetBits
<1>5. \A I : ClearBits(s, p, I) =
               PageAt(s, p, s.counter[p] - Cardinality(I), s.bits[p] \ I, s.data[p])
  BY <1>2 DEF ClearBits
<1> QED BY <1>2, <1>3, <1>4, <1>5 DEF allocate_all, allocate_page, destroy_page

LEMMA LinkIs ==
  ASSUME NEW s, RingsInv(s), NEW k \in Kind, NEW p \in 0 .. s.len - 1,
         \A l \in Kind : p \notin On(s, l), NEW t, t = Link(s, k, p)
  PROVE  /\ RingsInv(t) /\ Others(s, t, p) /\ SamePages(s, t)
         /\ \A l \in Kind : p \in On(t, l) <=> l = k
<1>1. /\ RingsInv(t) /\ SamePages(s, t)
      /\ t.count = [s.count EXCEPT ![k] = @ + 1]
      /\ \A l \in Kind : On(t, l) = IF l = k THEN On(s, l) \cup {p} ELSE On(s, l)
  BY LinkRings
<1>2. p \in Page /\ s.len \in Nat BY IsInRange
<1>3. 0 .. t.len - 1 = (0 .. s.len - 1) \cup {p} /\ s.len <= t.len BY <1>1, <1>2 DEF SamePages
<1>4. Others(s, t, p) BY <1>1, <1>3 DEF Others, SamePages
<1> QED BY <1>1, <1>4

LEMMA UnlinkIs ==
  ASSUME NEW s, RingsInv(s), NEW k \in Kind, NEW p \in On(s, k), NEW t, t = Unlink(s, k, p)
  PROVE  /\ RingsInv(t) /\ Others(s, t, p) /\ SamePages(s, t) /\ p \in 0 .. s.len - 1
         /\ t.count = [s.count EXCEPT ![k] = @ - 1]
         /\ \A l \in Kind : p \notin On(t, l)
<1>1. /\ RingsInv(t) /\ SamePages(s, t)
      /\ t.count = [s.count EXCEPT ![k] = @ - 1]
      /\ \A l \in Kind : On(t, l) = IF l = k THEN On(s, l) \ {p} ELSE On(s, l)
  BY UnlinkRings
<1>2. p \in 0 .. s.len - 1 BY DEF RingsInv
<1>3. s.len \in Nat BY <1>2, IsInRange
<1>4. 0 .. t.len - 1 = (0 .. s.len - 1) \cup {p} /\ s.len <= t.len
  BY <1>1, <1>2, <1>3 DEF SamePages
<1>5. Others(s, t, p) BY <1>1, <1>4 DEF Others, SamePages
<1>6. \A l \in Kind : p \notin On(t, l)
  <2>1. \A l \in Kind : l # k => On(s, l) \cap On(s, k) = {} BY DEF RingsInv
  <2> QED BY <1>1, <2>1
<1> QED BY <1>1, <1>2, <1>5, <1>6

LEMMA MoveIfFullIs ==
  ASSUME NEW c \in Class, NEW s, RingsInv(s), NEW p \in On(s, "partial"),
         NEW t, t = MoveIfFull(c, s, p)
  PROVE  /\ RingsInv(t) /\ Others(s, t, p) /\ SamePages(s, t)
         /\ \A l \in Kind :
              p \in On(t, l) <=> l = IF is_full(c, t, p) THEN "full" ELSE "partial"
<1>1. "full" \in Kind /\ "partial" \in Kind BY DEF Kind
<1>2. p \in 0 .. s.len - 1 BY <1>1 DEF RingsInv
<1>3. CASE is_full(c, s, p)
  <2> DEFINE u == Unlink(s, "partial", p)
  <2>1. /\ RingsInv(u) /\ Others(s, u, p) /\ SamePages(s, u)
        /\ \A l \in Kind : p \notin On(u, l)
    BY <1>1, UnlinkIs
  <2>2. t = Link(u, "full", p) BY <1>3 DEF MoveIfFull
  <2> HIDE DEF u
  <2>3. p \in 0 .. u.len - 1 BY <1>2, <2>1 DEF SamePages
  <2>4. /\ RingsInv(t) /\ Others(u, t, p) /\ SamePages(u, t)
        /\ \A l \in Kind : p \in On(t, l) <=> l = "full"
    BY <1>1, <2>1, <2>2, <2>3, LinkIs
  <2>5. SamePages(s, t) BY <2>1, <2>4 DEF SamePages
  <2>6. s.len \in Int /\ u.len \in Int /\ t.len \in Int
    BY <1>2, <2>1, <2>5, IsInRange DEF SamePages
  <2>7. Others(s, t, p) BY <2>1, <2>4, <2>6, OthersTrans
  <2>8. is_full(c, t, p) BY <1>3, <2>5 DEF is_full, SamePages
  <2> QED BY <2>4, <2>5, <2>7, <2>8
<1>4. CASE ~ is_full(c, s, p)
  <2>1. t = s BY <1>4 DEF MoveIfFull
  <2>2. SamePages(s, t) BY <2>1 DEF SamePages
  <2>3. s.len \in Nat BY <1>2, IsInRange
  <2>4. 0 .. t.len - 1 = (0 .. s.len - 1) \cup {p} /\ s.len <= t.len BY <1>2, <2>1, <2>3
  <2>5. Others(s, t, p) BY <2>1, <2>4 DEF Others
  <2>6. \A l \in Kind : p \in On(t, l) <=> l = "partial"
    <3>1. \A l \in Kind : l # "partial" => On(s, l) \cap On(s, "partial") = {}
      BY <1>1 DEF RingsInv
    <3> QED BY <1>1, <2>1, <3>1
  <2> QED BY <1>4, <2>1, <2>2, <2>5, <2>6
<1> QED BY <1>3, <1>4

\* get_uninit has a page: one of the ring, or a new descriptor.
LEMMA WithUninitIs ==
  ASSUME NEW s, RingsInv(s), s.count["uninit"] > 0 \/ s.len < Pages,
         \A z \in Page : z >= s.len => Fresh(s, z),
         \A z \in On(s, "uninit") : s.counter[z] = 0 /\ s.data[z] = Null,
         NEW u, u = WithUninit(s), NEW p, p = u.start["uninit"]
  PROVE  /\ RingsInv(u) /\ Others(s, u, p) /\ p \in On(u, "uninit")
         /\ u.len \in Nat /\ p \in 0 .. u.len - 1 /\ u.count["uninit"] > 0
         /\ s.count["uninit"] > 0 => u = s
         /\ s.count["uninit"] = 0 => p = s.len /\ u.len = s.len + 1
         /\ u.counter[p] = 0 /\ u.data[p] = Null
         /\ s.count["uninit"] = 0 => u.bits[p] = {}
         /\ u.counter = s.counter /\ u.bits = s.bits /\ u.data = s.data
<1>1. s \in Slab /\ s.len <= Pages /\ "uninit" \in Kind BY DEF RingsInv, Kind
<1>2. s.len \in Nat /\ s.count["uninit"] \in Nat BY <1>1 DEF Slab
<1>3. CASE s.count["uninit"] > 0
  <2>1. u = s BY <1>3 DEF WithUninit
  <2>2. p \in On(s, "uninit")
    <3>1. IsRing(s, "uninit", Along(s, "uninit")) BY <1>1 DEF RingsInv
    <3> QED BY <1>1, <1>3, <2>1, <3>1, WalkIsOn
  <2>3. p \in 0 .. s.len - 1 BY <1>1, <2>2 DEF RingsInv
  <2>4. 0 .. u.len - 1 = (0 .. s.len - 1) \cup {p} /\ s.len <= u.len BY <1>2, <2>1, <2>3
  <2>5. Others(s, u, p) BY <2>1, <2>4 DEF Others
  <2> QED BY <1>2, <1>3, <2>1, <2>2, <2>3, <2>5
<1>4. CASE s.count["uninit"] = 0
  <2> DEFINE v == [s EXCEPT !.len = @ + 1]
             l == s.len
  <2>1. l < Pages /\ l \in Page BY <1>2, <1>4, PagesIsNat DEF Page
  <2>2. /\ v \in Slab /\ v.len = l + 1 /\ v.start = s.start /\ v.count = s.count
        /\ v.next = s.next /\ v.prev = s.prev /\ v.counter = s.counter /\ v.bits = s.bits
        /\ v.data = s.data
    BY <1>1, <1>2 DEF Slab
  <2> DEFINE w == push(s)
             x == StartAt(w, "uninit", l)
             t == Link(v, "uninit", l)
  <2>3. u = CountAt(x, "uninit", 1)
    <3>1. u = [push(s) EXCEPT !.start["uninit"] = l, !.count["uninit"] = 1]
      BY <1>4 DEF WithUninit
    <3> QED BY <3>1 DEF CountAt, StartAt
  <2>14. w = reset_links(v, l) BY DEF push
  <2> HIDE DEF v, l, w
  <2>15. /\ w \in Slab /\ SamePages(v, w) /\ w.count = v.count /\ w.start = v.start
         /\ w.next = [v.next EXCEPT ![l] = l] /\ w.prev = [v.prev EXCEPT ![l] = l]
    BY <2>1, <2>2, <2>14 DEF reset_links, Slab, SamePages
  <2>16. l \in Nat /\ 1 \in Nat BY <1>2 DEF l
  <2>17. /\ x \in Slab /\ SamePages(w, x) /\ x.start = [w.start EXCEPT !["uninit"] = l]
         /\ x.count = w.count /\ x.next = w.next /\ x.prev = w.prev
    BY <1>1, <2>15, <2>16, StartSet
  <2> HIDE DEF x
  <2>18. /\ u \in Slab /\ SamePages(x, u) /\ u.count = [x.count EXCEPT !["uninit"] = 1]
         /\ u.start = x.start /\ u.next = x.next /\ u.prev = x.prev
    BY <1>1, <2>3, <2>16, <2>17, CountSet
  <2>4. RingsInv(v) /\ \A k \in Kind : On(v, k) = On(s, k)
    <3>1. s.len <= v.len /\ v.len <= Pages BY <1>2, <2>1, <2>2, PagesIsNat DEF l
    <3> QED BY <2>2, <3>1, SameRings
  <2>5. \A k \in Kind : l \notin On(v, k)
    <3>1. \A k \in Kind : On(s, k) \subseteq 0 .. l - 1 BY DEF RingsInv, l
    <3>2. l \notin 0 .. l - 1 BY <1>2 DEF l
    <3> QED BY <2>4, <3>1, <3>2
  <2>6. l \in Nat /\ l \in 0 .. v.len - 1 BY <1>2, <2>2 DEF l
  <2>8. Linked(v, "uninit", l, t) BY <1>1, <2>1, <2>2, LinkShape
  <2>19. /\ RingsInv(t) /\ Others(v, t, l) /\ SamePages(v, t)
         /\ \A k \in Kind : l \in On(t, k) <=> k = "uninit"
    BY <1>1, <2>4, <2>5, <2>6, LinkIs
  <2> HIDE DEF t
  <2>20. v.count["uninit"] = 0 BY <1>4, <2>2
  <2>21. /\ t.count = [v.count EXCEPT !["uninit"] = 1]
         /\ t.start = [v.start EXCEPT !["uninit"] = l]
         /\ t.next = [v.next EXCEPT ![l] = l] /\ t.prev = [v.prev EXCEPT ![l] = l]
    <3>1. t.count = [v.count EXCEPT !["uninit"] = @ + 1] BY <2>8, <2>20 DEF Linked
    <3>2. v.count["uninit"] + 1 = 1 BY <2>20
    <3> QED BY <2>8, <2>20, <3>1, <3>2 DEF Linked
  <2>22. u.count = t.count /\ u.start = t.start /\ u.next = t.next /\ u.prev = t.prev
    BY <2>15, <2>17, <2>18, <2>21
  <2>23. SamePages(v, u) /\ u.len = t.len BY <2>15, <2>17, <2>18, <2>19 DEF SamePages
  <2>7. /\ RingsInv(u) /\ Others(v, u, l) /\ SamePages(v, u)
        /\ \A k \in Kind : l \in On(u, k) <=> k = "uninit"
    <3>1. u.len \in Nat /\ t.len <= u.len /\ u.len <= Pages
      BY <2>6, <2>18, <2>19, <2>23 DEF RingsInv, Slab
    <3>2. RingsInv(u) /\ \A k \in Kind : On(u, k) = On(t, k)
      BY <2>18, <2>19, <2>22, <3>1, SameRings
    <3>3. Others(v, u, l) BY <2>19, <2>23, <3>2 DEF Others, SamePages
    <3> QED BY <2>19, <2>23, <3>2, <3>3
  <2>9. p = l /\ u.count["uninit"] = 1
    <3>1. v.start \in [Kind -> Nat] /\ v.count \in [Kind -> Nat] BY <2>2 DEF Slab
    <3> QED BY <1>1, <2>21, <2>22, <3>1
  <2>10. Others(s, u, l)
    <3>1. u.len = l + 1 BY <2>2, <2>7 DEF SamePages
    <3>2. 0 .. u.len - 1 = (0 .. s.len - 1) \cup {l} /\ s.len <= u.len
      BY <2>6, <3>1 DEF l
    <3> QED BY <2>2, <2>4, <2>7, <3>2 DEF Others
  <2>11. /\ u.counter = s.counter /\ u.bits = s.bits /\ u.data = s.data /\ u.len = l + 1
    BY <2>2, <2>7 DEF SamePages
  <2>12. Fresh(s, l) BY <2>1, <2>6 DEF l
  <2>13. p \in On(u, "uninit") /\ p \in 0 .. u.len - 1
    BY <1>1, <2>6, <2>7, <2>9, <2>11
  <2> QED BY <1>4, <2>6, <2>7, <2>9, <2>10, <2>11, <2>12, <2>13 DEF Fresh, l
<1> QED BY <1>2, <1>3, <1>4

LEMMA EmptyPage ==
  ASSUME SlabInv, NEW c \in Class, NEW p \in 0 .. sc[c].len - 1, sc[c].counter[p] = 0
  PROVE  /\ Used(c, sc[c], p) = {} /\ sc[c].bits[p] \subseteq Bits(c)
         /\ \A i \in Slots(c) : <<c, sc[c].data[p], i>> \notin live
<1>1. PageBits(c, p) BY DEF SlabInv, BitsInv
<1>2. IsFiniteSet(Used(c, sc[c], p)) BY SlotsAre, FS_Subset DEF Used
<1>3. Used(c, sc[c], p) = {} BY <1>1, <1>2, FS_EmptySet DEF PageBits
<1> QED BY <1>1, <1>3 DEF PageBits

\* What get_empty answers: a page on no ring, with a block in which nothing is in use.
GetEmptyAnswer(c, g, t, p, b) ==
  /\ RingsInv(t) /\ Others(sc[c], t, p) /\ p \in 0 .. t.len - 1 /\ t.len <= MaxPages[c]
  /\ \A l \in Kind : p \notin On(t, l)
  /\ t.data[p] = b /\ b \in Block /\ t.counter[p] = 0
  /\ t.bits[p] \subseteq Bits(c) /\ Used(c, t, p) = {}
  /\ sc[c].data[p] \in {b, Null} /\ Mine(c, p, b)
  /\ g.new \subseteq {b} /\ g.new \subseteq blocks
  /\ b \notin g.new => rd[b] = p + 1 /\ b \notin blocks
  /\ \A i \in Slots(c) : <<c, b, i>> \notin live

LEMMA GetEmptyIs ==
  ASSUME SlabInv, NEW c \in Class, op[c].kind # "destroy", NEW g \in GetEmpty(c),
         NEW t, t = g.slab, NEW p, p = g.page
  PROVE  GetEmptyAnswer(c, g, t, p, t.data[p])
<1> DEFINE s == sc[c]
           u == WithUninit(s)
           q == u.start["uninit"]
<1>1. /\ RingsInv(s) /\ s \in Slab /\ s.len \in Nat /\ s.len <= Pages
      /\ s.count \in [Kind -> Nat] /\ {"full", "partial", "empty", "uninit"} = Kind
  BY DEF SlabInv, RingsInv, Slab, Kind
<1>2. \A z \in 0 .. s.len - 1 : PagePlaced(c, z) /\ z \in Page
  BY <1>1, IsInRange DEF SlabInv, PlacedInv
<1>3. Unlinked(c) = {} BY DEF Unlinked
<1>4. \A k \in Kind : On(s, k) \subseteq 0 .. s.len - 1 /\ IsRing(s, k, Along(s, k))
  BY <1>1 DEF RingsInv
<1>5. /\ \/ s.count["empty"] > 0
         \/ s.count["empty"] = 0 /\ (s.count["uninit"] > 0 \/ s.len < MaxPages[c])
      /\ s.len <= MaxPages[c] /\ MaxPages[c] \in Nat /\ MaxPages[c] <= Pages
  <2>1. s.count["empty"] \in Nat BY <1>1
  <2>2. s.len <= MaxPages[c] BY DEF SlabInv, PlacedInv
  <2>3. MaxPages[c] \in Nat /\ MaxPages[c] <= Pages BY PagesIsNat, SlabAssumption
  <2>4. s.count["empty"] > 0 \/ s.count["uninit"] > 0 \/ s.len < MaxPages[c]
    BY SMTT(30) DEF GetEmpty
  <2> QED BY <2>1, <2>2, <2>3, <2>4
<1>6. CASE s.count["empty"] > 0
  <2>1. p = s.start["empty"] /\ t = Unlink(s, "empty", p) /\ g.new = {}
    BY <1>6 DEF GetEmpty
  <2>2. p \in On(s, "empty") BY <1>1, <1>4, <1>6, <2>1, WalkIsOn
  <2> HIDE DEF s
  <2>3. /\ RingsInv(t) /\ Others(s, t, p) /\ SamePages(s, t) /\ p \in 0 .. s.len - 1
        /\ \A l \in Kind : p \notin On(t, l)
    BY <1>1, <2>1, <2>2, UnlinkIs, ZenonT(40)
  <2>4. s.counter[p] = 0 BY <1>2, <2>2, <2>3 DEF PagePlaced, is_empty, s
  <2>5. s.data[p] # Null
    <3>1. p \notin On(s, "uninit") BY <1>1, <2>2 DEF RingsInv
    <3> QED BY <1>2, <2>3, <3>1 DEF PagePlaced, s
  <2>6. s.data[p] \in Block BY <1>1, <1>2, <2>3, <2>5 DEF Slab
  <2>7. /\ Used(c, s, p) = {} /\ s.bits[p] \subseteq Bits(c)
        /\ \A i \in Slots(c) : <<c, s.data[p], i>> \notin live
    BY <2>3, <2>4, EmptyPage DEF s
  <2>8. Mine(c, p, s.data[p]) BY <2>3, <2>5 DEF Mine, SlabInv, BlocksInv, s
  <2>9. rd[s.data[p]] = p + 1 /\ s.data[p] \notin blocks
    BY <1>3, <2>3, <2>5 DEF SlabInv, RadixMatchesPages, BlocksInv, s
  <2>10. t.len = s.len /\ t.counter = s.counter /\ t.bits = s.bits /\ t.data = s.data
    BY <2>3 DEF SamePages
  <2>11. p \in 0 .. t.len - 1 /\ t.len <= MaxPages[c] /\ Used(c, t, p) = {}
    BY <1>5, <2>3, <2>7, <2>10 DEF Used
  <2> QED BY <2>1, <2>3, <2>4, <2>6, <2>7, <2>8, <2>9, <2>10, <2>11 DEF GetEmptyAnswer, s
<1>7. CASE s.count["empty"] = 0
  <2> DEFINE v == Unlink(u, "uninit", q)
  <2>1. PICK b \in blocks : p = q /\ t = allocate_page(v, q, b) /\ g.new = {b}
    BY <1>5, <1>7 DEF GetEmpty
  <2>2. b \in Block /\ b # Null BY SlabAssumption DEF SlabInv, BlocksInv
  <2>3. \A z \in Page : z >= s.len => Fresh(s, z) BY DEF SlabInv, BitsInv
  <2>4. \A z \in On(s, "uninit") : s.counter[z] = 0 /\ s.data[z] = Null
    BY <1>1, <1>2, <1>4 DEF PagePlaced, is_empty
  <2>20. s.count["uninit"] \in Nat BY <1>1
  <2> HIDE DEF s
  <2>5. s.count["uninit"] > 0 \/ s.len < Pages BY <1>1, <1>5, <1>7, PagesIsNat
  <2>24. u = WithUninit(s) /\ q = u.start["uninit"] OBVIOUS
  <2> HIDE DEF u, q
  <2>6. /\ RingsInv(u) /\ Others(s, u, q) /\ q \in On(u, "uninit")
        /\ u.len \in Nat /\ q \in 0 .. u.len - 1 /\ u.count["uninit"] > 0
        /\ s.count["uninit"] > 0 => u = s
        /\ s.count["uninit"] = 0 => q = s.len /\ u.len = s.len + 1
        /\ u.counter[q] = 0 /\ u.data[q] = Null
        /\ s.count["uninit"] = 0 => u.bits[q] = {}
        /\ u.counter = s.counter /\ u.bits = s.bits /\ u.data = s.data
    BY <1>1, <2>3, <2>4, <2>5, <2>24, WithUninitIs
  <2>7. /\ RingsInv(v) /\ Others(u, v, q) /\ SamePages(u, v)
        /\ \A l \in Kind : q \notin On(v, l)
    BY <1>1, <2>6, UnlinkIs
  <2> HIDE DEF v
  <2>8. v.len = u.len /\ v.counter = u.counter /\ v.bits = u.bits /\ v.data = u.data
    BY <2>7 DEF SamePages
  <2>9. q \in 0 .. v.len - 1 /\ q \in Page /\ v \in Slab BY <2>6, <2>7, <2>8, IsInRange
  <2>10. v.counter[q] \in Nat /\ v.bits[q] \in SUBSET Nat BY <2>9 DEF Slab
  <2>11. t = PageAt(v, q, v.counter[q], v.bits[q], b) BY <2>1, <2>9, AsPageAt
  <2>12. /\ RingsInv(t) /\ Others(v, t, q) /\ t.len = v.len
         /\ t.count = v.count /\ t.start = v.start
         /\ t.counter[q] = v.counter[q] /\ t.bits[q] = v.bits[q] /\ t.data[q] = b
         /\ \A k \in Kind : On(t, k) = On(v, k)
    <3>1. PageSet(v, q, v.counter[q], v.bits[q], b, t)
      BY <2>2, <2>7, <2>9, <2>10, <2>11, PageAtIs
    <3> QED BY <3>1 DEF PageSet
  <2>13. Others(s, t, q)
    <3>1. s.len \in Int /\ u.len \in Int /\ v.len \in Int /\ t.len \in Int
      BY <1>1, <2>6, <2>8, <2>12
    <3>2. Others(s, v, q) BY <2>6, <2>7, <3>1, OthersTrans
    <3> QED BY <2>12, <3>1, <3>2, OthersTrans
  <2>14. t.len <= MaxPages[c] BY <1>1, <1>5, <1>7, <2>6, <2>8, <2>12, <2>20
  <2>15. t.bits[q] \subseteq Bits(c) /\ Used(c, t, q) = {}
    <3>1. CASE s.count["uninit"] > 0
      <4>1. u = s /\ q \in 0 .. s.len - 1 /\ s.counter[q] = 0 BY <2>6, <3>1
      <4>2. Used(c, s, q) = {} /\ s.bits[q] \subseteq Bits(c) BY <4>1, EmptyPage DEF s
      <4> QED BY <2>8, <2>12, <4>1, <4>2 DEF Used
    <3>2. CASE s.count["uninit"] = 0
      <4>1. t.bits[q] = {} BY <2>6, <2>8, <2>12, <3>2
      <4> QED BY <4>1 DEF Used
    <3> QED BY <2>20, <3>1, <3>2
  <2>16. s.data[q] = Null BY <2>6
  <2>17. \A d \in Class : \A z \in 0 .. sc[d].len - 1 : sc[d].data[z] # b
    BY DEF SlabInv, BlocksInv
  <2>18. \A i \in Slots(c) : <<c, b, i>> \notin live
    BY <2>17 DEF SlabInv, LiveInv
  <2>19. Mine(c, q, b) BY <2>17 DEF Mine
  <2>21. \A l \in Kind : q \notin On(t, l) BY <2>7, <2>12
  <2>22. t.counter[q] = 0 /\ q \in 0 .. t.len - 1 BY <2>6, <2>8, <2>12
  <2> QED BY <2>1, <2>2, <2>12, <2>13, <2>14, <2>15, <2>16, <2>18, <2>19, <2>21, <2>22
          DEF GetEmptyAnswer, s
<1> QED BY <1>1, <1>6, <1>7

-----------------------------------------------------------------------------
(***************************************************************************)
(* Taking objects.                                                         *)
(***************************************************************************)
\* A call that has nothing to give back.
QuietOp(c) ==
  /\ op' \in [Class -> Op] /\ \A d \in Class \ {c} : op'[d] = op[d]
  /\ op'[c].kind \in {"idle", "take"} /\ op'[c].objs = <<>>
  /\ op'[c].kind = "idle" => op'[c] = Idle

LEMMA QuietIs ==
  ASSUME NEW c \in Class, QuietOp(c)
  PROVE  OpInv(c)' /\ Unlinked(c)' = {}
<1>1. IsInjective(<<>>) /\ Range(<<>>) = {} BY DEF IsInjective, Range
<1> QED BY <1>1 DEF QuietOp, OpInv, Unlinked

\* A page of get_empty gets objects and goes on the full or the partial ring.
Filled(c, g, I, B, x) ==
  LET p == g.page
      b == g.slab.data[p]
  IN  /\ I \subseteq Slots(c) /\ B \subseteq Bits(c) /\ B \cap Slots(c) = I
      /\ PageSet(g.slab, p, Cardinality(I), B, b, x)
      /\ RadixInsert(g)
      /\ sc' = [sc EXCEPT ![c] =
                  Link(x, IF Cardinality(I) >= PgCount(c) THEN "full" ELSE "partial", p)]
      /\ live' = live \cup Objects(c, b, I)

LEMMA FillStep ==
  ASSUME SlabInv, NEW c \in Class, op[c].kind # "destroy", NEW g \in GetEmpty(c),
         NEW I, NEW B, NEW x, Filled(c, g, I, B, x), QuietOp(c)
  PROVE  SlabInv'
<1> DEFINE s == g.slab
           p == g.page
           b == s.data[p]
           n == Cardinality(I)
           k == IF n >= PgCount(c) THEN "full" ELSE "partial"
           t == Link(x, k, p)
<1>17. /\ I \subseteq Slots(c) /\ B \subseteq Bits(c) /\ B \cap Slots(c) = I
       /\ PageSet(s, p, n, B, b, x) /\ RadixInsert(g)
       /\ sc' = [sc EXCEPT ![c] = t] /\ live' = live \cup Objects(c, b, I)
  BY DEF Filled
<1>18. /\ s = g.slab /\ p = g.page /\ b = s.data[p] /\ t = Link(x, k, p)
       /\ k = (IF n >= PgCount(c) THEN "full" ELSE "partial") /\ n = Cardinality(I)
  OBVIOUS
<1> USE <1>17, <1>18
<1> HIDE DEF s, p, b, n, k, t
<1>1. GetEmptyAnswer(c, g, s, p, b) BY GetEmptyIs
<1>2. /\ RingsInv(s) /\ p \in 0 .. s.len - 1 /\ b \in Block
      /\ \A l \in Kind : p \notin On(s, l)
  BY <1>1 DEF GetEmptyAnswer
<1>3. /\ RingsInv(x) /\ Others(s, x, p) /\ x.len = s.len
      /\ x.counter[p] = n /\ x.bits[p] = B /\ x.data[p] = b
      /\ \A l \in Kind : p \notin On(x, l)
  BY <1>2 DEF PageSet
<1>4. k \in {"full", "partial"} /\ k \in Kind BY DEF Kind
<1>5. /\ RingsInv(t) /\ Others(x, t, p) /\ SamePages(x, t)
      /\ \A l \in Kind : p \in On(t, l) <=> l = k
  <2>1. p \in 0 .. x.len - 1 BY <1>2, <1>3
  <2> QED BY <1>3, <1>4, <2>1, LinkIs
<1>6. /\ t.len = s.len /\ t.counter[p] = n /\ t.bits[p] = B /\ t.data[p] = b
  BY <1>3, <1>5 DEF SamePages
<1>7. p \in Page /\ s.len \in Nat /\ t \in Slab
  BY <1>2, <1>5, IsInRange DEF RingsInv
<1>8. sc' \in [Class -> Slab] /\ sc'[c] = t /\ \A d \in Class \ {c} : sc'[d] = sc[d]
  BY <1>7 DEF SlabInv
<1>9. Others(sc[c], t, p)
  <2>1. sc[c].len \in Int BY DEF SlabInv, Slab
  <2>2. s.len \in Int /\ x.len \in Int /\ t.len \in Int BY <1>3, <1>6, <1>7
  <2>3. Others(sc[c], s, p) BY <1>1 DEF GetEmptyAnswer
  <2>4. Others(s, t, p) BY <1>3, <1>5, <2>2, OthersTrans
  <2> QED BY <2>1, <2>2, <2>3, <2>4, OthersTrans
<1>10. OpInv(c)' /\ Unlinked(c)' = {} /\ Unlinked(c) = {} BY QuietIs DEF Unlinked
<1>11. b # Null BY <1>2, SlabAssumption
<1>12. PagePlaced(c, p)'
  <2>1. is_full(c, t, p) <=> k = "full" BY <1>6 DEF is_full
  <2>2. {"full", "partial", "empty", "uninit"} = Kind BY DEF Kind
  <2>3. /\ p \in On(t, "full") <=> k = "full"
        /\ p \in On(t, "partial") <=> k = "partial"
        /\ p \notin On(t, "empty") /\ p \notin On(t, "uninit")
    BY <1>4, <1>5, <2>2
  <2>4. k = "partial" => ~ is_full(c, t, p) BY <2>1
  <2>5. t.data[p] # Null BY <1>6, <1>11, SMTT(30)
  <2> QED BY <1>4, <1>5, <1>8, <1>10, <2>1, <2>3, <2>4, <2>5 DEF PagePlaced
<1>13. PageBits(c, p)'
  <2>1. \A i \in Slots(c) : <<c, b, i>> \in live' <=> i \in I
    BY <1>1 DEF GetEmptyAnswer, Objects
  <2>2. I = {i \in Slots(c) : <<c, b, i>> \in live'} BY <2>1
  <2> QED BY <1>6, <1>8, <2>2 DEF PageBits, Used
<1>14. SlabStep(c, p, b)
  <2>1. t.len <= MaxPages[c] BY <1>1, <1>6 DEF GetEmptyAnswer
  <2>2. sc[c].data[p] \in {b, Null} /\ Mine(c, p, b) BY <1>1 DEF GetEmptyAnswer
  <2>3. op' \in [Class -> Op] /\ \A d \in Class \ {c} : op'[d] = op[d] BY DEF QuietOp
  <2> QED BY <1>5, <1>6, <1>8, <1>9, <1>10, <1>12, <1>13, <2>1, <2>2, <2>3 DEF SlabStep
<1>15. LiveStep(c, p, b)
  BY <1>6, <1>8 DEF LiveStep, Objects
<1>16. BlockStep(c, p, b)
  <2>1. /\ g.new \subseteq {b} /\ (b \notin g.new => rd[b] = p + 1 /\ b \notin blocks)
    BY <1>1 DEF GetEmptyAnswer
  <2>2. /\ rd' = [y \in Block |-> IF y \in g.new THEN p + 1 ELSE rd[y]]
        /\ blocks' = blocks \ g.new
    BY DEF RadixInsert
  <2>3. rd \in [Block -> Nat] /\ p + 1 \in Nat BY <1>2, <1>7 DEF SlabInv, BlocksInv
  <2>4. rd' \in [Block -> Nat] BY <2>2, <2>3
  <2>5. b \notin blocks' /\ rd'[b] = p + 1 BY <1>2, <2>1, <2>2
  <2>6. \A y \in Block \ {b} : rd'[y] = rd[y] BY <2>1, <2>2
  <2> QED BY <1>10, <2>2, <2>4, <2>5, <2>6 DEF BlockStep
<1> QED BY <1>2, <1>7, <1>14, <1>15, <1>16, StepInv

LEMMA BitsFilled ==
  ASSUME NEW c \in Class, NEW g, NEW s, NEW p, NEW b, GetEmptyAnswer(c, g, s, p, b),
         NEW I \in SUBSET Slots(c), NEW x, x = SetBits(s, p, I)
  PROVE  \E B \in SUBSET Bits(c) :
           B \cap Slots(c) = I /\ PageSet(s, p, Cardinality(I), B, b, x)
<1>1. /\ RingsInv(s) /\ p \in 0 .. s.len - 1 /\ s.data[p] = b /\ b \in Block
      /\ s.counter[p] = 0 /\ s.bits[p] \subseteq Bits(c) /\ Used(c, s, p) = {}
  BY DEF GetEmptyAnswer
<1>2. p \in Page /\ s \in Slab BY <1>1, IsInRange
<1>3. Slots(c) \subseteq Bits(c) /\ Bits(c) \subseteq Nat /\ IsFiniteSet(I)
  BY SlotsAre, FS_Subset
<1>4. Cardinality(I) \in Nat BY <1>3, FS_CardinalityType
<1> DEFINE B == s.bits[p] \cup I
<1>5. B \in SUBSET Bits(c) /\ B \in SUBSET Nat /\ B \cap Slots(c) = I
  BY <1>1, <1>3 DEF Used
<1>6. x = PageAt(s, p, Cardinality(I), B, b)
  <2>1. x = PageAt(s, p, s.counter[p] + Cardinality(I), B, s.data[p]) BY <1>2, AsPageAt
  <2>2. s.counter[p] + Cardinality(I) = Cardinality(I) BY <1>1, <1>4
  <2> QED BY <1>1, <2>1, <2>2
<1> HIDE DEF B
<1>7. PageSet(s, p, Cardinality(I), B, b, x) BY <1>1, <1>4, <1>5, <1>6, PageAtIs
<1> QED BY <1>5, <1>7

LEMMA FillBits ==
  ASSUME SlabInv, NEW c \in Class, op[c].kind # "destroy", NEW g \in GetEmpty(c),
         RadixInsert(g), NEW I \in SUBSET Slots(c), NEW x, x = SetBits(g.slab, g.page, I),
         NEW k, k = (IF Cardinality(I) >= PgCount(c) THEN "full" ELSE "partial"),
         sc' = [sc EXCEPT ![c] = Link(x, k, g.page)],
         live' = live \cup Objects(c, g.slab.data[g.page], I), QuietOp(c)
  PROVE  SlabInv'
<1> DEFINE s == g.slab
           p == g.page
           b == s.data[p]
<1>1. GetEmptyAnswer(c, g, s, p, b) BY GetEmptyIs
<1>2. PICK B \in SUBSET Bits(c) : B \cap Slots(c) = I /\ PageSet(s, p, Cardinality(I), B, b, x)
  BY <1>1, BitsFilled
<1>3. Filled(c, g, I, B, x) BY <1>2 DEF Filled
<1> QED BY <1>3, FillStep

LEMMA PlaceIs ==
  ASSUME NEW c \in Class, NEW s, NEW p, NEW n, NEW B, NEW b, NEW x, PageSet(s, p, n, B, b, x)
  PROVE  Place(c, x, p) = Link(x, IF n >= PgCount(c) THEN "full" ELSE "partial", p)
BY DEF Place, is_full, PageSet

LEMMA TakeEmptyStep ==
  ASSUME SlabInv, NEW c \in Class, NEW a \in Align, op[c].kind # "destroy", TakeEmpty(c, a),
         QuietOp(c)
  PROVE  SlabInv'
<1>1. PICK g \in GetEmpty(c) :
        LET s == g.slab
            p == g.page
            I == IF CanAllocate(c, s, p, a) THEN {first_fit(c, s, p, a)} ELSE {}
        IN  /\ RadixInsert(g)
            /\ sc' = [sc EXCEPT ![c] = Place(c, SetBits(s, p, I), p)]
            /\ live' = live \cup Objects(c, s.data[p], I)
  BY DEF TakeEmpty
<1> DEFINE s == g.slab
           p == g.page
           I == IF CanAllocate(c, s, p, a) THEN {first_fit(c, s, p, a)} ELSE {}
           x == SetBits(s, p, I)
           k == IF Cardinality(I) >= PgCount(c) THEN "full" ELSE "partial"
<1>2. GetEmptyAnswer(c, g, s, p, s.data[p]) BY GetEmptyIs
<1>3. p \in Page /\ s \in Slab BY <1>2, IsInRange DEF GetEmptyAnswer
<1>4. I \in SUBSET Slots(c)
  <2>1. CanAllocate(c, s, p, a) => first_fit(c, s, p, a) \in Slots(c)
    BY <1>3, FitsAre DEF CanAllocate
  <2> QED BY <2>1
<1> HIDE DEF I
<1>5. PICK B \in SUBSET Bits(c) : PageSet(s, p, Cardinality(I), B, s.data[p], x)
  BY <1>2, <1>4, BitsFilled
<1>6. Place(c, x, p) = Link(x, k, p) BY <1>5, PlaceIs
<1>7. RadixInsert(g) /\ sc' = [sc EXCEPT ![c] = Link(x, k, p)]
      /\ live' = live \cup Objects(c, s.data[p], I)
  BY <1>1, <1>6 DEF I
<1>8. x = SetBits(g.slab, g.page, I)
      /\ k = (IF Cardinality(I) >= PgCount(c) THEN "full" ELSE "partial")
  OBVIOUS
<1> HIDE DEF x, k
<1> QED BY <1>4, <1>7, <1>8, FillBits

LEMMA TakeAllStep ==
  ASSUME SlabInv, NEW c \in Class, op[c].kind # "destroy", NEW g \in GetEmpty(c),
         TakeAll(c, g), QuietOp(c)
  PROVE  SlabInv'
<1> DEFINE s == g.slab
           p == g.page
           b == s.data[p]
           x == allocate_all(c, s, p)
           n == PgCount(c)
           t == Link(x, "full", p)
<1>1. GetEmptyAnswer(c, g, s, p, b) BY GetEmptyIs
<1>2. RingsInv(s) /\ p \in 0 .. s.len - 1 /\ b \in Block BY <1>1 DEF GetEmptyAnswer
<1>3. p \in Page /\ s \in Slab BY <1>2, IsInRange
<1>4. x = PageAt(s, p, n, Bits(c), b) BY <1>3, AsPageAt
<1>5. /\ Slots(c) \subseteq Bits(c) /\ Bits(c) \subseteq Nat
      /\ Cardinality(Slots(c)) = n /\ n \in Nat
  BY SlotsAre, PgCountIs
<1>6. s = g.slab /\ p = g.page /\ b = s.data[p] /\ t = Link(x, "full", p) OBVIOUS
<1>7. RadixInsert(g) /\ sc' = [sc EXCEPT ![c] = Place(c, x, p)]
      /\ live' = live \cup Objects(c, b, Slots(c))
  BY DEF TakeAll, Slots
<1> HIDE DEF x, n, t
<1>8. PageSet(s, p, n, Bits(c), b, x) BY <1>2, <1>4, <1>5, PageAtIs
<1>9. n >= PgCount(c) BY <1>5 DEF n
<1>10. Place(c, x, p) = t BY <1>6, <1>8, <1>9, PlaceIs
<1>11. "full" = (IF Cardinality(Slots(c)) >= PgCount(c) THEN "full" ELSE "partial")
  BY <1>5, <1>9
<1>12. Bits(c) \cap Slots(c) = Slots(c) BY <1>5
<1>13. Filled(c, g, Slots(c), Bits(c), x)
  BY <1>5, <1>6, <1>7, <1>8, <1>10, <1>11, <1>12 DEF Filled
<1> QED BY <1>13, FillStep

LEMMA WantsIs ==
  ASSUME SlabInv, NEW c \in Class, op[c].kind = "take", NEW n \in Int, Wants(c, n)
  PROVE  QuietOp(c)
<1>1. op \in [Class -> Op] /\ op[c] \in Op /\ op[c].objs = <<>> BY DEF SlabInv, OpInv
<1>2. Idle \in Op /\ Idle.kind = "idle" /\ Idle.objs = <<>> BY DEF Idle, Op
<1> DEFINE u == op[c]
           v == [u EXCEPT !.want = @ - n]
           o == IF n = u.want THEN Idle ELSE v
<1>3. op' = [op EXCEPT ![c] = o] BY DEF Wants
<1>4. o \in Op /\ o.objs = <<>> /\ o.kind \in {"idle", "take"} /\ (o.kind = "idle" => o = Idle)
  <2>1. u \in Op /\ u.objs = <<>> /\ u.kind = "take" BY <1>1
  <2> HIDE DEF u
  <2>2. v \in Op /\ v.objs = <<>> /\ v.kind = "take" BY <2>1 DEF Op
  <2> HIDE DEF v
  <2> QED BY <1>2, <2>1, <2>2
<1> HIDE DEF o
<1> QED BY <1>1, <1>3, <1>4 DEF QuietOp

LEMMA BatchFromEmptyStep ==
  ASSUME SlabInv, NEW c \in Class, BatchFromEmpty(c)
  PROVE  SlabInv'
<1> DEFINE want == op[c].want
<1>1. op[c].kind = "take" /\ op[c].kind # "destroy" BY DEF BatchFromEmpty
<1>2. PICK g \in GetEmpty(c) :
        \/ want >= PgCount(c) /\ TakeAll(c, g) /\ Wants(c, PgCount(c))
        \/ LET I == BatchBits(c, g.slab, g.page, want)
           IN  /\ want < PgCount(c)
               /\ RadixInsert(g)
               /\ sc' = [sc EXCEPT ![c] = Link(SetBits(g.slab, g.page, I), "partial", g.page)]
               /\ live' = live \cup Objects(c, g.slab.data[g.page], I)
               /\ Wants(c, Cardinality(I))
  BY DEF BatchFromEmpty
<1>3. want \in Int /\ PgCount(c) \in Nat \ {0} BY PgCountIs DEF SlabInv, Op
<1>4. CASE want >= PgCount(c) /\ TakeAll(c, g) /\ Wants(c, PgCount(c))
  <2>1. QuietOp(c) BY <1>1, <1>3, <1>4, WantsIs
  <2> QED BY <1>1, <1>4, <2>1, TakeAllStep
<1> DEFINE s == g.slab
           p == g.page
           I == BatchBits(c, s, p, want)
           x == SetBits(s, p, I)
<1>5. CASE /\ want < PgCount(c)
           /\ RadixInsert(g)
           /\ sc' = [sc EXCEPT ![c] = Link(x, "partial", p)]
           /\ live' = live \cup Objects(c, s.data[p], I)
           /\ Wants(c, Cardinality(I))
  <2>1. GetEmptyAnswer(c, g, s, p, s.data[p]) BY <1>1, GetEmptyIs
  <2>2. p \in Page /\ s \in Slab BY <2>1, IsInRange DEF GetEmptyAnswer
  <2> HIDE DEF want
  <2>3. /\ I \subseteq Slots(c) \ s.bits[p] /\ IsFiniteSet(I)
        /\ want >= 0 => Cardinality(I) <= want
        /\ want <= 0 => I = {}
    BY <1>3, <2>2, BatchBitsAre
  <2> HIDE DEF I
  <2>4. Cardinality(I) \in Nat /\ (I = {} => Cardinality(I) = 0)
    BY <2>3, FS_CardinalityType, FS_EmptySet
  <2>5. ~ (Cardinality(I) >= PgCount(c)) BY <1>3, <1>5, <2>3, <2>4
  <2>6. QuietOp(c) BY <1>1, <1>5, <2>4, WantsIs
  <2>7. I \in SUBSET Slots(c) BY <2>3
  <2>8. "partial" = (IF Cardinality(I) >= PgCount(c) THEN "full" ELSE "partial") BY <2>5
  <2>9. PICK B \in SUBSET Bits(c) : B \cap Slots(c) = I
                                    /\ PageSet(s, p, Cardinality(I), B, s.data[p], x)
    BY <2>1, <2>7, BitsFilled
  <2>10. Filled(c, g, I, B, x) BY <1>5, <2>7, <2>8, <2>9 DEF Filled
  <2> QED BY <1>1, <2>6, <2>10, FillStep
<1> QED BY <1>2, <1>4, <1>5

\* A page of the partial ring gets objects, and leaves the ring if they were its last.
PartialTaken(c, p, I) ==
  LET s == sc[c]
  IN  /\ p \in On(s, "partial") /\ I \subseteq Slots(c) \ s.bits[p] /\ IsFiniteSet(I)
      /\ sc' = [sc EXCEPT ![c] = MoveIfFull(c, SetBits(s, p, I), p)]
      /\ live' = live \cup Objects(c, s.data[p], I)
      /\ UNCHANGED <<rd, blocks>>

LEMMA PartialStep ==
  ASSUME SlabInv, NEW c \in Class, op[c].kind # "destroy", NEW p, NEW I,
         PartialTaken(c, p, I), QuietOp(c)
  PROVE  SlabInv'
<1> DEFINE s == sc[c]
           b == s.data[p]
           x == SetBits(s, p, I)
           t == MoveIfFull(c, x, p)
           B == s.bits[p] \cup I
           n == s.counter[p] + Cardinality(I)
<1>1. /\ p \in On(s, "partial") /\ I \subseteq Slots(c) \ s.bits[p] /\ IsFiniteSet(I)
      /\ sc' = [sc EXCEPT ![c] = t] /\ live' = live \cup Objects(c, b, I)
      /\ rd' = rd /\ blocks' = blocks
  BY DEF PartialTaken
<1>2. {"full", "partial", "empty", "uninit"} = Kind /\ RingsInv(s)
  BY DEF Kind, SlabInv
<1>3. p \in 0 .. s.len - 1 /\ p \notin On(s, "uninit") BY <1>1, <1>2 DEF RingsInv
<1>4. p \in Page /\ s \in Slab /\ s.len \in Nat BY <1>2, <1>3, IsInRange
<1>5. PagePlaced(c, p) /\ PageBits(c, p) /\ s.len <= MaxPages[c]
  BY <1>3 DEF SlabInv, PlacedInv, BitsInv
<1>6. b # Null /\ b \in Block BY <1>3, <1>4, <1>5 DEF PagePlaced, Slab
<1>7. Mine(c, p, b) BY <1>3, <1>6 DEF Mine, SlabInv, BlocksInv
<1>8. Unlinked(c) = {} BY DEF Unlinked
<1>9. rd[b] = p + 1 /\ b \notin blocks
  BY <1>3, <1>6, <1>8 DEF SlabInv, RadixMatchesPages, BlocksInv
<1>10. /\ Slots(c) \subseteq Bits(c) /\ Bits(c) \subseteq Nat
       /\ B \subseteq Bits(c) /\ B \cap Slots(c) = Used(c, s, p) \cup I
       /\ I \cap Used(c, s, p) = {} /\ IsFiniteSet(Used(c, s, p))
  BY <1>1, <1>5, SlotsAre, FS_Subset DEF PageBits, Used
<1>11. n \in Nat /\ n = Cardinality(Used(c, s, p) \cup I)
  <2>1. s.counter[p] = Cardinality(Used(c, s, p)) BY <1>5 DEF PageBits
  <2>2. /\ Cardinality(Used(c, s, p)) \in Nat /\ Cardinality(I) \in Nat
        /\ Cardinality(Used(c, s, p) \cup I) = Cardinality(Used(c, s, p)) + Cardinality(I)
    BY <1>1, <1>10, Counted
  <2> QED BY <2>1, <2>2
<1>12. x = PageAt(s, p, n, B, b) BY <1>4, AsPageAt
<1> HIDE DEF s, b, B, n, x, t
<1>13. PageSet(s, p, n, B, b, x) BY <1>2, <1>3, <1>6, <1>10, <1>11, <1>12, PageAtIs
<1>14. /\ RingsInv(x) /\ Others(s, x, p) /\ x.len = s.len
       /\ x.counter[p] = n /\ x.bits[p] = B /\ x.data[p] = b
       /\ p \in On(x, "partial")
  BY <1>1, <1>2, <1>13 DEF PageSet
<1>15. /\ RingsInv(t) /\ Others(x, t, p) /\ SamePages(x, t)
       /\ \A l \in Kind :
            p \in On(t, l) <=> l = IF is_full(c, t, p) THEN "full" ELSE "partial"
  BY <1>14, MoveIfFullIs DEF t
<1>16. t.len = s.len /\ t.counter[p] = n /\ t.bits[p] = B /\ t.data[p] = b
  BY <1>14, <1>15 DEF SamePages
<1>17. t \in Slab BY <1>15 DEF RingsInv
<1>18. sc' \in [Class -> Slab] /\ sc'[c] = t /\ \A d \in Class \ {c} : sc'[d] = sc[d]
  BY <1>1, <1>17 DEF SlabInv
<1>19. Others(s, t, p)
  <2>1. s.len \in Int /\ x.len \in Int /\ t.len \in Int BY <1>4, <1>14, <1>16
  <2> QED BY <1>14, <1>15, <2>1, OthersTrans
<1>20. OpInv(c)' /\ Unlinked(c)' = {} BY QuietIs
<1>21. PagePlaced(c, p)'
  <2>1. /\ p \in On(t, "full") <=> is_full(c, t, p)
        /\ p \in On(t, "partial") <=> ~ is_full(c, t, p)
        /\ p \notin On(t, "empty") /\ p \notin On(t, "uninit")
    BY <1>2, <1>15
  <2>2. t.data[p] # Null BY <1>6, <1>16
  <2> QED BY <1>2, <1>18, <1>20, <2>1, <2>2 DEF PagePlaced
<1>22. PageBits(c, p)'
  <2>1. \A i \in Slots(c) : <<c, b, i>> \in live <=> i \in Used(c, s, p)
    BY <1>5 DEF PageBits, s, b
  <2>2. \A i \in Slots(c) : <<c, b, i>> \in live' <=> i \in Used(c, s, p) \cup I
    BY <1>1, <2>1 DEF Objects
  <2>3. Used(c, t, p) = Used(c, s, p) \cup I BY <1>10, <1>16 DEF Used
  <2>4. Used(c, t, p) = {i \in Slots(c) : <<c, b, i>> \in live'}
    BY <2>2, <2>3 DEF Used
  <2> QED BY <1>10, <1>11, <1>16, <1>18, <2>3, <2>4 DEF PageBits
<1>23. SlabStep(c, p, b)
  <2>1. op' \in [Class -> Op] /\ \A d \in Class \ {c} : op'[d] = op[d] BY DEF QuietOp
  <2>2. sc[c].data[p] = b /\ t.len <= MaxPages[c] /\ Others(sc[c], t, p)
    BY <1>5, <1>16, <1>19 DEF s, b
  <2> QED BY <1>7, <1>8, <1>15, <1>16, <1>18, <1>20, <1>21, <1>22, <2>1, <2>2 DEF SlabStep
<1>24. LiveStep(c, p, b)
  BY <1>1, <1>16, <1>18 DEF LiveStep, Objects
<1>25. BlockStep(c, p, b)
  <2>1. rd \in [Block -> Nat] BY DEF SlabInv, BlocksInv
  <2> QED BY <1>1, <1>9, <1>20, <2>1 DEF BlockStep
<1> QED BY <1>4, <1>6, <1>23, <1>24, <1>25, StepInv

LEMMA TakePartialStep ==
  ASSUME SlabInv, NEW c \in Class, NEW a, op[c].kind # "destroy", NEW p \in Page,
         TakePartial(c, a, p), QuietOp(c)
  PROVE  SlabInv'
<1> DEFINE s == sc[c]
           i == first_fit(c, s, p, a)
           J == {j \in 1 .. Pages : Nth(s, "partial", j) = s.start["partial"]} \cup {Pages}
<1>1. s \in Slab /\ IsRing(s, "partial", Along(s, "partial")) /\ "partial" \in Kind
  BY DEF SlabInv, RingsInv, Kind
<1>2. PICK j \in 0 .. Min(J) - 1 : p = Nth(s, "partial", j) /\ CanAllocate(c, s, p, a)
  BY DEF TakePartial, Hit
<1>3. j \in 0 .. Pages
  <2>1. J \subseteq Nat /\ Pages \in J BY PagesIsNat
  <2> HIDE DEF J
  <2>2. Min(J) <= Pages /\ Min(J) \in Nat BY <2>1, Least
  <2> QED BY <2>2, PagesIsNat
<1>4. s.count["partial"] > 0 BY DEF TakePartial, Hit
<1>5. p \in On(s, "partial") BY <1>1, <1>2, <1>3, <1>4, WalkIsOn
<1>6. i \in Slots(c) \ s.bits[p] BY <1>1, <1>2, FitsAre DEF CanAllocate
<1>7. /\ sc' = [sc EXCEPT ![c] = MoveIfFull(c, SetBits(s, p, {i}), p)]
      /\ live' = live \cup Objects(c, s.data[p], {i}) /\ UNCHANGED <<rd, blocks>>
  BY DEF TakePartial, Objects
<1>8. IsFiniteSet({i}) BY FS_Singleton
<1>9. PartialTaken(c, p, {i}) BY <1>5, <1>6, <1>7, <1>8 DEF PartialTaken
<1> QED BY <1>9, PartialStep

LEMMA BatchFromPartialStep ==
  ASSUME SlabInv, NEW c \in Class, BatchFromPartial(c)
  PROVE  SlabInv'
<1> DEFINE s == sc[c]
           p == s.start["partial"]
           want == op[c].want
           I == BatchBits(c, s, p, want)
<1>1. s \in Slab /\ IsRing(s, "partial", Along(s, "partial")) /\ "partial" \in Kind
  BY DEF SlabInv, RingsInv, Kind
<1>2. /\ op[c].kind = "take" /\ s.count["partial"] > 0
      /\ sc' = [sc EXCEPT ![c] = MoveIfFull(c, SetBits(s, p, I), p)]
      /\ live' = live \cup Objects(c, s.data[p], I)
      /\ Wants(c, Cardinality(I)) /\ UNCHANGED <<rd, blocks>>
  BY DEF BatchFromPartial
<1>3. p \in On(s, "partial") /\ p \in Page BY <1>1, <1>2, WalkIsOn
<1>4. want \in Int BY DEF SlabInv, Op
<1>5. I \subseteq Slots(c) \ s.bits[p] /\ IsFiniteSet(I)
  <2> HIDE DEF want
  <2> QED BY <1>1, <1>3, <1>4, BatchBitsAre
<1>6. Cardinality(I) \in Nat BY <1>5, FS_CardinalityType
<1>7. PartialTaken(c, p, I) BY <1>2, <1>3, <1>5 DEF PartialTaken
<1> HIDE DEF s, p, want, I
<1>8. QuietOp(c) BY <1>2, <1>6, WantsIs
<1> QED BY <1>2, <1>7, <1>8, PartialStep

\* allocate, allocate_batch and the first object of allocate_batch_v2.
LEMMA IdleIsQuiet ==
  ASSUME SlabInv, NEW c \in Class, op[c] = Idle, op' = op
  PROVE  op[c].kind # "destroy" /\ QuietOp(c)
BY DEF SlabInv, QuietOp, Idle

LEMMA TakeStep ==
  ASSUME SlabInv, NEW c \in Class, NEW a \in Align, op[c].kind # "destroy", Take(c, a),
         QuietOp(c)
  PROVE  SlabInv'
BY TakePartialStep, TakeEmptyStep DEF Take

LEMMA AllocateStep ==
  ASSUME SlabInv, NEW c \in Class, NEW a \in Align,
         Allocate(c, a) \/ AllocateBatchOne(c, a) \/ AllocateBatchPage(c, a)
  PROVE  SlabInv'
<1>1. op[c] = Idle /\ op' = op BY DEF Allocate, AllocateBatchOne, AllocateBatchPage
<1>2. op[c].kind # "destroy" /\ QuietOp(c) BY <1>1, IdleIsQuiet
<1>3. CASE Allocate(c, a) BY <1>2, <1>3, TakeStep DEF Allocate
<1>4. CASE AllocateBatchOne(c, a) BY <1>2, <1>4, TakePartialStep DEF AllocateBatchOne
<1>5. CASE AllocateBatchPage(c, a) BY <1>2, <1>5, TakeAllStep DEF AllocateBatchPage
<1> QED BY <1>3, <1>4, <1>5

LEMMA AllocateBatchV2Step ==
  ASSUME SlabInv, NEW c \in Class, NEW n \in 1 .. MaxTake, AllocateBatchV2(c, n)
  PROVE  SlabInv'
<1> DEFINE v == [Idle EXCEPT !.kind = "take", !.want = n - 1]
           o == IF n = 1 THEN Idle ELSE v
<1>1. op[c] = Idle /\ Take(c, 1) /\ op' = [op EXCEPT ![c] = o] BY DEF AllocateBatchV2
<1>2. 1 \in Align /\ MaxTake \in Nat BY SlabAssumption
<1>3. o \in Op /\ o.objs = <<>> /\ o.kind \in {"idle", "take"} /\ (o.kind = "idle" => o = Idle)
  <2>1. n - 1 \in Int BY <1>2
  <2>2. Idle \in Op /\ Idle.objs = <<>> /\ Idle.kind = "idle" BY DEF Op, Idle
  <2>3. v \in Op /\ v.objs = <<>> /\ v.kind = "take" BY <2>1, <2>2 DEF Op
  <2> HIDE DEF v
  <2> QED BY <2>2, <2>3
<1> HIDE DEF o
<1>4. op \in [Class -> Op] /\ op[c].kind # "destroy" BY <1>1 DEF SlabInv, Idle
<1>5. QuietOp(c) BY <1>1, <1>3, <1>4 DEF QuietOp
<1> QED BY <1>1, <1>2, <1>4, <1>5, TakeStep

-----------------------------------------------------------------------------
(***************************************************************************)
(* Giving objects back.                                                    *)
(***************************************************************************)
\* Objects I of block b, which are in use, and the ones the call has left.
Gives(c, b, I, rest) ==
  /\ op[c].kind # "destroy" /\ b \in Block /\ I # {} /\ I \subseteq Slots(c)
  /\ \A i \in I : <<c, b, i>> \in live
  /\ rest \in Seq(Object) /\ IsInjective(rest)
  /\ \A j \in DOMAIN rest : rest[j] \in LiveOf(c) \ Objects(c, b, I)

\* The page the objects are on: its ring is the full or the partial one.
GivesFrom(c, b, I, p) ==
  LET s == sc[c]
  IN  /\ RingsInv(s) /\ p \in 0 .. s.len - 1 /\ s.len <= MaxPages[c]
      /\ s.data[p] = b /\ b # Null /\ Mine(c, p, b) /\ b \notin blocks /\ rd[b] = p + 1
      /\ p \in On(s, IF is_full(c, s, p) THEN "full" ELSE "partial")
      /\ I \subseteq Used(c, s, p) /\ PageBits(c, p) /\ IsFiniteSet(Used(c, s, p))
      /\ s.counter[p] - Cardinality(I) = Cardinality(Used(c, s, p) \ I)
      /\ Cardinality(Used(c, s, p) \ I) \in Nat
      /\ Cardinality(Used(c, s, p) \ I) < PgCount(c)

LEMMA GivesFromIs ==
  ASSUME SlabInv, NEW c \in Class, NEW b, NEW I, NEW rest, Gives(c, b, I, rest)
  PROVE  GivesFrom(c, b, I, rd[b] - 1)
<1> DEFINE s == sc[c]
<1>1. RingsInv(s) /\ s \in Slab /\ s.len <= MaxPages[c] /\ Unlinked(c) = {}
  BY DEF SlabInv, RingsInv, PlacedInv, Gives, Unlinked
<1>2. b \in Block /\ b # Null BY SlabAssumption DEF Gives
<1>3. PICK p \in 0 .. s.len - 1 : s.data[p] = b
  <2>1. PICK i \in I : <<c, b, i>> \in live BY DEF Gives
  <2>2. <<c, b, i>>[1] = c /\ <<c, b, i>>[2] = b OBVIOUS
  <2> QED BY <2>1, <2>2 DEF SlabInv, LiveInv
<1>4. p \in Page BY <1>1, <1>3, IsInRange
<1>5. rd[b] = p + 1 /\ b \notin blocks
  BY <1>1, <1>2, <1>3 DEF SlabInv, RadixMatchesPages, BlocksInv
<1>6. rd[b] - 1 = p BY <1>3, <1>4, <1>5 DEF Page
<1>7. Mine(c, p, b) BY <1>2, <1>3 DEF Mine, SlabInv, BlocksInv
<1>8. PagePlaced(c, p) /\ PageBits(c, p) BY <1>3 DEF SlabInv, PlacedInv, BitsInv
<1>9. I \subseteq Used(c, s, p) BY <1>3, <1>8 DEF PageBits, Gives
<1>10. IsFiniteSet(Used(c, s, p)) /\ Used(c, s, p) \subseteq Slots(c) /\ IsFiniteSet(I)
  BY <1>9, SlotsAre, FS_Subset DEF Used
<1> DEFINE U == Used(c, s, p)
<1>11. s.counter[p] = Cardinality(U) BY <1>8 DEF PageBits
<1>12. /\ Cardinality(U) \in Nat /\ Cardinality(I) \in Nat
       /\ Cardinality(U \ I) = Cardinality(U) - Cardinality(I)
  BY <1>9, <1>10, Counted
<1>13. Cardinality(I) > 0
  <2>1. Cardinality(I) # 0 BY <1>10, FS_EmptySet DEF Gives
  <2> QED BY <1>12, <2>1
<1>14. Cardinality(U) <= PgCount(c) /\ PgCount(c) \in Nat
  BY <1>10, SlotsAre, PgCountIs, FS_Subset
<1>15. Cardinality(U \ I) \in Nat BY <1>10, FS_Subset, FS_CardinalityType
<1>16. Cardinality(U \ I) < PgCount(c) BY <1>12, <1>13, <1>14
<1>17. s.counter[p] - Cardinality(I) = Cardinality(U \ I) /\ s.counter[p] # 0
  BY <1>11, <1>12, <1>13, <1>15
<1>18. p \in On(s, IF is_full(c, s, p) THEN "full" ELSE "partial")
  <2>1. {"full", "partial", "empty", "uninit"} = Kind BY DEF Kind
  <2>2. p \notin On(s, "empty") /\ p \notin On(s, "uninit")
    BY <1>8, <1>17 DEF PagePlaced, is_empty
  <2>3. p \in On(s, "full") \/ p \in On(s, "partial")
    BY <1>1, <1>8, <2>1, <2>2 DEF PagePlaced
  <2> QED BY <1>8, <2>3 DEF PagePlaced
<1> QED BY <1>1, <1>2, <1>3, <1>5, <1>6, <1>7, <1>8, <1>9, <1>10, <1>15, <1>16, <1>17, <1>18
        DEF GivesFrom

\* The allocator t, in which page p has been given n objects, with p on ring k only or,
\* for k = "none", on no ring.
Given(c, b, I, p, n, k, t) ==
  /\ t \in Slab /\ RingsInv(t) /\ Others(sc[c], t, p) /\ t.len = sc[c].len
  /\ t.counter[p] = n /\ t.bits[p] = sc[c].bits[p] \ I /\ t.data[p] = b
  /\ \A l \in Kind : p \in On(t, l) <=> l = k

LEMMA SettleIs ==
  ASSUME NEW c \in Class, NEW b \in Block, NEW I, NEW p, GivesFrom(c, b, I, p),
         NEW n, n = Cardinality(Used(c, sc[c], p) \ I),
         NEW x, x = ClearBits(sc[c], p, I),
         NEW t, t = Settle(c, x, p, is_full(c, sc[c], p))
  PROVE  /\ x.counter[p] = n
         /\ Given(c, b, I, p, n,
                  IF is_full(c, sc[c], p) \/ n = 0 THEN "none" ELSE "partial", t)
<1> DEFINE s == sc[c]
           B == s.bits[p] \ I
           full == is_full(c, s, p)
<1>1. RingsInv(s) /\ p \in 0 .. s.len - 1 /\ s.data[p] = b /\ n \in Nat
      /\ s.counter[p] - Cardinality(I) = n
      /\ p \in On(s, IF full THEN "full" ELSE "partial")
  BY DEF GivesFrom
<1>2. p \in Page /\ s \in Slab /\ s.len \in Nat BY <1>1, IsInRange
<1>3. x = PageAt(s, p, n, B, b)
  <2>1. x = PageAt(s, p, s.counter[p] - Cardinality(I), B, s.data[p]) BY <1>2, AsPageAt
  <2> QED BY <1>1, <2>1
<1>4. B \in SUBSET Nat BY <1>2 DEF Slab
<1>9. {"full", "partial", "empty", "uninit"} = Kind /\ "none" \notin Kind BY DEF Kind
<1> HIDE DEF s, B
<1>5. PageSet(s, p, n, B, b, x) BY <1>1, <1>3, <1>4, PageAtIs
<1>6. /\ RingsInv(x) /\ Others(s, x, p) /\ x.len = s.len
      /\ x.counter[p] = n /\ x.bits[p] = B /\ x.data[p] = b
      /\ p \in On(x, IF full THEN "full" ELSE "partial")
  BY <1>1, <1>5, <1>9 DEF PageSet
<1>7. CASE full \/ n = 0
  <2> DEFINE k == IF full THEN "full" ELSE "partial"
  <2>1. t = Unlink(x, k, p) BY <1>6, <1>7 DEF Settle, is_empty, s
  <2>2. k \in Kind /\ p \in On(x, k) BY <1>6, <1>9
  <2> HIDE DEF k
  <2>3. /\ RingsInv(t) /\ Others(x, t, p) /\ SamePages(x, t)
        /\ \A l \in Kind : p \notin On(t, l)
    BY <1>6, <2>1, <2>2, UnlinkIs
  <2>4. /\ t.len = s.len /\ t.counter[p] = n /\ t.bits[p] = B /\ t.data[p] = b
    BY <1>6, <2>3 DEF SamePages
  <2>5. Others(s, t, p)
    <3>1. s.len \in Int /\ x.len \in Int /\ t.len \in Int BY <1>2, <1>6, <2>4
    <3> QED BY <1>6, <2>3, <3>1, OthersTrans
  <2>6. t \in Slab BY <2>3 DEF RingsInv
  <2>7. Given(c, b, I, p, n, "none", t)
    BY <1>9, <2>3, <2>4, <2>5, <2>6 DEF Given, s, B
  <2> QED BY <1>6, <1>7, <2>7 DEF s
<1>8. CASE ~ (full \/ n = 0)
  <2>1. t = x BY <1>6, <1>8 DEF Settle, is_empty, s
  <2>2. \A l \in Kind : l # "partial" => On(x, l) \cap On(x, "partial") = {}
    BY <1>6, <1>9 DEF RingsInv
  <2>3. \A l \in Kind : p \in On(t, l) <=> l = "partial" BY <1>6, <1>8, <1>9, <2>1, <2>2
  <2>4. t \in Slab BY <1>6, <2>1 DEF RingsInv
  <2>5. Given(c, b, I, p, n, "partial", t) BY <1>6, <2>1, <2>3, <2>4 DEF Given, s, B
  <2> QED BY <1>6, <1>8, <2>5 DEF s
<1> QED BY <1>7, <1>8

\* What the call has left, and how it ends for each ring.
Left(rest) == IF rest = <<>> THEN Idle ELSE [Idle EXCEPT !.kind = "give", !.objs = rest]
Doom(rest, p) == [Left(rest) EXCEPT !.kind = "destroy", !.page = p]

GivenBack(c, b, I, p, n, k, rest) ==
  /\ n = Cardinality(Used(c, sc[c], p) \ I)
  /\ Given(c, b, I, p, n, k, sc'[c]) /\ \A d \in Class \ {c} : sc'[d] = sc[d]
  /\ sc' \in [Class -> Slab]
  /\ live' = live \ Objects(c, b, I) /\ blocks' = blocks
  /\ \/ k = "partial" /\ n # 0 /\ op' = [op EXCEPT ![c] = Left(rest)] /\ rd' = rd
     \/ k = "empty" /\ n = 0 /\ op' = [op EXCEPT ![c] = Left(rest)] /\ rd' = rd
     \/ /\ k = "none" /\ n = 0 /\ rd' = [rd EXCEPT ![b] = 0]
        /\ op' = [op EXCEPT ![c] = Doom(rest, p)]

LEMMA LeftIs ==
  ASSUME NEW rest \in Seq(Object), NEW p \in Nat
  PROVE  /\ Left(rest) \in Op /\ Left(rest).objs = rest /\ Left(rest).kind \in {"idle", "give"}
         /\ Left(rest).kind = "idle" => Left(rest) = Idle
         /\ Left(rest).kind = "give" => rest # <<>>
         /\ Doom(rest, p) \in Op /\ Doom(rest, p).objs = rest
         /\ Doom(rest, p).kind = "destroy" /\ Doom(rest, p).page = p
<1> DEFINE v == [Idle EXCEPT !.kind = "give", !.objs = rest]
           o == Left(rest)
           q == Doom(rest, p)
<1>1. Idle \in Op /\ Idle.objs = <<>> /\ Idle.kind = "idle" BY DEF Op, Idle
<1>2. v \in Op /\ v.objs = rest /\ v.kind = "give" BY <1>1 DEF Op
<1>3. o = IF rest = <<>> THEN Idle ELSE v BY DEF Left
<1> HIDE DEF v, o
<1>4. /\ o \in Op /\ o.objs = rest /\ o.kind \in {"idle", "give"}
      /\ o.kind = "idle" => o = Idle
      /\ o.kind = "give" => rest # <<>>
  BY <1>1, <1>2, <1>3
<1>5. q \in Op /\ q.objs = rest /\ q.kind = "destroy" /\ q.page = p BY <1>4 DEF Op, Doom, o
<1> QED BY <1>4, <1>5 DEF o

LEMMA GivenOp ==
  ASSUME SlabInv, NEW c \in Class, NEW b, NEW I, NEW p, NEW n, NEW k, NEW rest,
         Gives(c, b, I, rest), GivesFrom(c, b, I, p), GivenBack(c, b, I, p, n, k, rest)
  PROVE  /\ op' \in [Class -> Op] /\ \A d \in Class \ {c} : op'[d] = op[d]
         /\ OpInv(c)' /\ Unlinked(c)' = IF k = "none" THEN {p} ELSE {}
<1> DEFINE o == Left(rest)
           q == Doom(rest, p)
<1>1. p \in 0 .. sc[c].len - 1 /\ p \in Nat
  <2>1. RingsInv(sc[c]) /\ p \in 0 .. sc[c].len - 1 BY DEF GivesFrom
  <2> QED BY <2>1, IsInRange DEF Page
<1>2. /\ o \in Op /\ o.objs = rest /\ o.kind \in {"idle", "give"}
      /\ o.kind = "idle" => o = Idle
      /\ o.kind = "give" => rest # <<>>
      /\ q \in Op /\ q.objs = rest /\ q.kind = "destroy" /\ q.page = p
  <2>1. rest \in Seq(Object) BY DEF Gives
  <2> QED BY <1>1, <2>1, LeftIs
<1>3. \/ k \in {"partial", "empty"} /\ op' = [op EXCEPT ![c] = o]
      \/ k = "none" /\ n = 0 /\ op' = [op EXCEPT ![c] = q]
  BY DEF GivenBack
<1> HIDE DEF o, q
<1>4. op \in [Class -> Op] BY DEF SlabInv
<1>5. op' \in [Class -> Op] /\ \A d \in Class \ {c} : op'[d] = op[d] BY <1>2, <1>3, <1>4
<1>6. Unlinked(c)' = IF k = "none" THEN {p} ELSE {} BY <1>2, <1>3, <1>4 DEF Unlinked
<1>7. IsInjective(rest) /\ Range(rest) \subseteq LiveOf(c)'
  BY DEF Gives, GivenBack, LiveOf, Range
<1>8. k = "none" => /\ p < sc'[c].len /\ is_empty(sc'[c], p) /\ sc'[c].data[p] # Null
  <2>1. sc'[c].len = sc[c].len /\ sc'[c].counter[p] = n /\ sc'[c].data[p] = b /\ b # Null
    BY DEF GivenBack, Given, GivesFrom
  <2>2. sc[c].len \in Nat BY <1>1, IsInRange DEF GivesFrom
  <2> QED BY <1>1, <1>3, <2>1, <2>2 DEF is_empty
<1>9. OpInv(c)'
  <2>1. op'[c].objs = rest BY <1>2, <1>3, <1>4
  <2>2. CASE k \in {"partial", "empty"}
    <3>1. op'[c] = o BY <1>3, <1>4, <2>2
    <3> QED BY <1>2, <1>7, <3>1 DEF OpInv
  <2>3. CASE k = "none"
    <3>1. op'[c] = q BY <1>3, <1>4, <2>3
    <3> QED BY <1>2, <1>7, <1>8, <2>3, <3>1 DEF OpInv
  <2> QED BY <1>3, <2>2, <2>3
<1> QED BY <1>5, <1>6, <1>9

LEMMA GivenStep ==
  ASSUME SlabInv, NEW c \in Class, NEW b, NEW I, NEW p, NEW n, NEW k, NEW rest,
         Gives(c, b, I, rest), GivesFrom(c, b, I, p), GivenBack(c, b, I, p, n, k, rest)
  PROVE  SlabInv'
<1> DEFINE s == sc[c]
           t == sc'[c]
<1>1. /\ RingsInv(s) /\ p \in 0 .. s.len - 1 /\ s.len <= MaxPages[c]
      /\ s.data[p] = b /\ b # Null /\ Mine(c, p, b) /\ b \notin blocks /\ rd[b] = p + 1
      /\ I \subseteq Used(c, s, p) /\ PageBits(c, p)
      /\ Cardinality(Used(c, s, p) \ I) < PgCount(c)
  BY DEF GivesFrom
<1>2. b \in Block /\ Unlinked(c) = {} BY DEF Gives, Unlinked
<1>3. p \in Page /\ s.len \in Nat BY <1>1, IsInRange
<1>4. /\ n = Cardinality(Used(c, s, p) \ I) /\ n \in Nat
      /\ Given(c, b, I, p, n, k, t) /\ \A d \in Class \ {c} : sc'[d] = sc[d]
      /\ sc' \in [Class -> Slab]
      /\ live' = live \ Objects(c, b, I) /\ blocks' = blocks
  BY DEF GivenBack, GivesFrom
<1>5. /\ t \in Slab /\ RingsInv(t) /\ Others(s, t, p) /\ t.len = s.len
      /\ t.counter[p] = n /\ t.bits[p] = s.bits[p] \ I /\ t.data[p] = b
      /\ \A l \in Kind : p \in On(t, l) <=> l = k
  BY <1>4 DEF Given
<1>6. /\ op' \in [Class -> Op] /\ \A d \in Class \ {c} : op'[d] = op[d]
      /\ OpInv(c)' /\ Unlinked(c)' = IF k = "none" THEN {p} ELSE {}
  BY GivenOp
<1>7. \/ k = "partial" /\ n # 0 /\ rd' = rd
      \/ k = "empty" /\ n = 0 /\ rd' = rd
      \/ k = "none" /\ n = 0 /\ rd' = [rd EXCEPT ![b] = 0]
  BY DEF GivenBack
<1> HIDE DEF s, t
<1>8. {"full", "partial", "empty", "uninit"} = Kind BY DEF Kind
<1>9. PagePlaced(c, p)'
  <2>1. /\ p \in On(t, "partial") <=> k = "partial"
        /\ p \in On(t, "empty") <=> k = "empty"
        /\ p \notin On(t, "full") /\ p \notin On(t, "uninit")
        /\ (\A l \in Kind : p \notin On(t, l)) <=> k = "none"
    BY <1>5, <1>7, <1>8
  <2>2. k = "partial" => ~ is_full(c, t, p)
    <3>1. PgCount(c) \in Nat BY PgCountIs
    <3> QED BY <1>1, <1>4, <1>5, <3>1 DEF is_full
  <2>3. k = "empty" => is_empty(t, p) BY <1>5, <1>7 DEF is_empty
  <2>4. p \in Unlinked(c)' <=> k = "none" BY <1>6
  <2>5. t.data[p] # Null BY <1>1, <1>5
  <2> QED BY <2>1, <2>2, <2>3, <2>4, <2>5 DEF PagePlaced, t
<1>10. PageBits(c, p)'
  <2>1. /\ s.bits[p] \subseteq Bits(c)
        /\ \A i \in Slots(c) : <<c, b, i>> \in live <=> i \in Used(c, s, p)
    BY <1>1 DEF PageBits, s
  <2>2. \A i \in Slots(c) : <<c, b, i>> \in live' <=> i \in Used(c, s, p) \ I
    BY <1>4, <2>1 DEF Objects
  <2>3. Used(c, t, p) = Used(c, s, p) \ I BY <1>5 DEF Used
  <2>4. Used(c, t, p) = {i \in Slots(c) : <<c, b, i>> \in live'}
    BY <2>2, <2>3 DEF Used
  <2> QED BY <1>4, <1>5, <2>1, <2>3, <2>4 DEF PageBits, t
<1>11. SlabStep(c, p, b)
  <2>1. sc[c].data[p] = b /\ Others(sc[c], sc'[c], p) /\ sc'[c].len <= MaxPages[c]
    BY <1>1, <1>5 DEF s, t
  <2>2. RingsInv(sc'[c]) /\ sc'[c].data[p] = b BY <1>5 DEF t
  <2> QED BY <1>1, <1>2, <1>4, <1>6, <1>9, <1>10, <2>1, <2>2 DEF SlabStep
<1>12. LiveStep(c, p, b)
  <2>1. sc'[c].data[p] = b BY <1>5 DEF t
  <2> QED BY <1>4, <2>1 DEF LiveStep, Objects
<1>13. BlockStep(c, p, b)
  <2>1. rd \in [Block -> Nat] BY DEF SlabInv, BlocksInv
  <2>2. rd' \in [Block -> Nat] /\ \A x \in Block \ {b} : rd'[x] = rd[x] BY <1>7, <2>1
  <2>3. p \notin Unlinked(c)' => rd'[b] = p + 1 BY <1>1, <1>6, <1>7
  <2>4. Unlinked(c)' # {} => rd'[b] = 0 BY <1>2, <1>6, <1>7, <2>1
  <2> QED BY <1>1, <1>4, <2>2, <2>3, <2>4 DEF BlockStep
<1> QED BY <1>2, <1>3, <1>11, <1>12, <1>13, StepInv

LEMMA RelinkIs ==
  ASSUME NEW c \in Class, NEW b, NEW I, NEW p, NEW n, NEW u, Given(c, b, I, p, n, "none", u),
         NEW k \in Kind, NEW t, t = Link(u, k, p), RingsInv(sc[c]), p \in 0 .. sc[c].len - 1
  PROVE  Given(c, b, I, p, n, k, t)
<1>1. /\ RingsInv(u) /\ Others(sc[c], u, p) /\ u.len = sc[c].len
      /\ u.counter[p] = n /\ u.bits[p] = sc[c].bits[p] \ I /\ u.data[p] = b
      /\ \A l \in Kind : p \notin On(u, l)
  BY DEF Given, Kind
<1>2. /\ RingsInv(t) /\ Others(u, t, p) /\ SamePages(u, t)
      /\ \A l \in Kind : p \in On(t, l) <=> l = k
  BY <1>1, LinkIs
<1>3. /\ t.len = sc[c].len /\ t.counter[p] = n /\ t.bits[p] = sc[c].bits[p] \ I
      /\ t.data[p] = b /\ t \in Slab
  BY <1>1, <1>2 DEF SamePages, RingsInv
<1>4. sc[c].len \in Int BY IsInRange
<1>5. Others(sc[c], t, p) BY <1>1, <1>2, <1>3, <1>4, OthersTrans
<1> QED BY <1>2, <1>3, <1>5 DEF Given

LEMMA GiveRunStep ==
  ASSUME SlabInv, NEW c \in Class, NEW b, NEW I, NEW rest, Gives(c, b, I, rest),
         GiveRun(c, rd[b] - 1, I, rest)
  PROVE  SlabInv'
<1> DEFINE s == sc[c]
           p == rd[b] - 1
           n == Cardinality(Used(c, s, p) \ I)
           x == ClearBits(s, p, I)
           full == is_full(c, s, p)
           u == Settle(c, x, p, full)
           r == sc'[c]
<1>1. GivesFrom(c, b, I, p) BY GivesFromIs
<1>2. b \in Block /\ s.data[p] = b /\ RingsInv(s) /\ p \in 0 .. s.len - 1
  BY <1>1 DEF Gives, GivesFrom
<1>3. /\ live' = live \ Objects(c, b, I) /\ blocks' = blocks
      /\ \/ /\ ~ is_empty(x, p)
            /\ sc' = [sc EXCEPT ![c] = IF full THEN Link(u, "partial", p) ELSE u]
            /\ op' = [op EXCEPT ![c] = Left(rest)]
            /\ rd' = rd
         \/ /\ is_empty(x, p)
            /\ sc' = [sc EXCEPT ![c] = Link(u, "empty", p)]
            /\ op' = [op EXCEPT ![c] = Left(rest)]
            /\ rd' = rd
         \/ /\ is_empty(x, p)
            /\ sc' = [sc EXCEPT ![c] = u]
            /\ rd' = [rd EXCEPT ![b] = 0]
            /\ op' = [op EXCEPT ![c] = Doom(rest, p)]
  BY <1>2 DEF GiveRun, RadixRemove, Left, Doom
<1>4. s = sc[c] /\ x = ClearBits(sc[c], p, I) /\ full = is_full(c, sc[c], p)
      /\ u = Settle(c, x, p, full) /\ n = Cardinality(Used(c, sc[c], p) \ I) /\ r = sc'[c]
  OBVIOUS
<1> HIDE DEF s, p, n, x, full, u, r
<1>5. x.counter[p] = n /\ Given(c, b, I, p, n, IF full \/ n = 0 THEN "none" ELSE "partial", u)
  BY <1>1, <1>2, <1>4, SettleIs
<1>6. is_empty(x, p) <=> n = 0 BY <1>5 DEF is_empty
<1>7. sc \in [Class -> Slab] BY DEF SlabInv
<1>8. "partial" \in Kind /\ "empty" \in Kind BY DEF Kind
<1>9. ASSUME NEW k, NEW t, Given(c, b, I, p, n, k, t), sc' = [sc EXCEPT ![c] = t]
      PROVE  /\ Given(c, b, I, p, n, k, sc'[c]) /\ \A d \in Class \ {c} : sc'[d] = sc[d]
             /\ sc' \in [Class -> Slab]
  <2>1. t \in Slab BY <1>9 DEF Given
  <2> QED BY <1>7, <1>9, <2>1
<1>10. CASE /\ n # 0
            /\ sc' = [sc EXCEPT ![c] = IF full THEN Link(u, "partial", p) ELSE u]
            /\ op' = [op EXCEPT ![c] = Left(rest)]
            /\ rd' = rd
  <2> DEFINE t == IF full THEN Link(u, "partial", p) ELSE u
  <2>1. Given(c, b, I, p, n, "partial", t)
    <3>1. CASE full
      <4>1. Given(c, b, I, p, n, "none", u) /\ t = Link(u, "partial", p) BY <1>5, <3>1
      <4> HIDE DEF t
      <4> QED BY <1>2, <1>4, <1>8, <4>1, RelinkIs
    <3>2. CASE ~ full BY <1>5, <1>10, <3>2
    <3> QED BY <3>1, <3>2
  <2>2. sc' = [sc EXCEPT ![c] = t] BY <1>10
  <2> HIDE DEF t
  <2>3. GivenBack(c, b, I, p, n, "partial", rest)
    BY <1>3, <1>4, <1>9, <1>10, <2>1, <2>2 DEF GivenBack
  <2> QED BY <1>1, <2>3, GivenStep
<1>11. CASE /\ n = 0
            /\ sc' = [sc EXCEPT ![c] = Link(u, "empty", p)]
            /\ op' = [op EXCEPT ![c] = Left(rest)]
            /\ rd' = rd
  <2> DEFINE t == Link(u, "empty", p)
  <2>1. Given(c, b, I, p, n, "none", u) /\ t = Link(u, "empty", p) /\ sc' = [sc EXCEPT ![c] = t]
    BY <1>5, <1>11
  <2> HIDE DEF t
  <2>2. Given(c, b, I, p, n, "empty", t) BY <1>2, <1>4, <1>8, <2>1, RelinkIs
  <2>3. GivenBack(c, b, I, p, n, "empty", rest)
    BY <1>3, <1>4, <1>9, <1>11, <2>1, <2>2 DEF GivenBack
  <2> QED BY <1>1, <2>3, GivenStep
<1>12. CASE /\ n = 0
            /\ sc' = [sc EXCEPT ![c] = u]
            /\ rd' = [rd EXCEPT ![b] = 0]
            /\ op' = [op EXCEPT ![c] = Doom(rest, p)]
  <2>1. Given(c, b, I, p, n, "none", u) BY <1>5, <1>12
  <2>2. GivenBack(c, b, I, p, n, "none", rest)
    BY <1>3, <1>4, <1>9, <1>12, <2>1 DEF GivenBack
  <2> QED BY <1>1, <2>2, GivenStep
<1> QED BY <1>3, <1>6, <1>10, <1>11, <1>12

LEMMA DeallocateStep ==
  ASSUME SlabInv, NEW c \in Class, NEW o, Deallocate(c, o)
  PROVE  SlabInv'
<1> DEFINE b == o[2]
           i == o[3]
<1>1. op[c] = Idle /\ o \in live /\ o[1] = c /\ GiveRun(c, rd[b] - 1, {i}, <<>>)
  BY DEF Deallocate
<1>2. o \in Object /\ i \in Slots(c) BY <1>1 DEF SlabInv, LiveInv
<1>3. o = <<c, b, i>> /\ b \in Block BY <1>1, <1>2 DEF Object
<1>4. <<>> \in Seq(Object) /\ IsInjective(<<>>) /\ DOMAIN <<>> = {} BY DEF IsInjective
<1>5. op[c].kind # "destroy" BY <1>1 DEF Idle
<1> HIDE DEF b, i
<1>6. Gives(c, b, {i}, <<>>) BY <1>1, <1>2, <1>3, <1>4, <1>5 DEF Gives
<1> QED BY <1>1, <1>6, GiveRunStep

LEMMA BatchRunStep ==
  ASSUME SlabInv, NEW c \in Class, BatchRun(c)
  PROVE  SlabInv'
<1> DEFINE objs == op[c].objs
           b == objs[1][2]
           S == {k \in DOMAIN objs : \A j \in 1 .. k : objs[j][2] = b}
           n == Max(S)
           I == {objs[j][3] : j \in 1 .. n}
           rest == SubSeq(objs, n + 1, Len(objs))
<1>1. op[c].kind = "give" /\ GiveRun(c, rd[b] - 1, I, rest) BY DEF BatchRun
<1>2. /\ objs \in Seq(Object) /\ objs # <<>> /\ IsInjective(objs)
      /\ Range(objs) \subseteq LiveOf(c)
  BY <1>1 DEF SlabInv, OpInv, Op
<1> HIDE DEF objs
<1>3. DOMAIN objs = 1 .. Len(objs) /\ Len(objs) \in Nat \ {0} BY <1>2
<1>4. \A j \in 1 .. Len(objs) : objs[j] \in live /\ objs[j][1] = c
  BY <1>2, <1>3 DEF Range, LiveOf
<1>5. \A j \in 1 .. Len(objs) : /\ objs[j] = <<c, objs[j][2], objs[j][3]>>
                                /\ objs[j][2] \in Block /\ objs[j][3] \in Slots(c)
  <2> TAKE j \in 1 .. Len(objs)
  <2> DEFINE o == objs[j]
  <2>1. o \in live /\ o[1] = c BY <1>4
  <2> HIDE DEF o
  <2>2. o \in Object /\ o[3] \in Slots(c) BY <2>1 DEF SlabInv, LiveInv
  <2>3. o = <<c, o[2], o[3]>> /\ o[2] \in Block BY <2>1, <2>2 DEF Object
  <2> QED BY <2>2, <2>3 DEF o
<1>6. n \in 1 .. Len(objs) /\ \A j \in 1 .. n : objs[j][2] = b
  <2>1. S \subseteq 1 .. Len(objs) /\ 1 \in S BY <1>3
  <2>2. IsFiniteSet(1 .. Len(objs)) BY <1>3, FS_Interval
  <2>3. S \in SUBSET Nat /\ S # {} /\ IsFiniteSet(S) BY <2>1, <2>2, <1>3, FS_Subset
  <2>4. n \in S
    <3> HIDE DEF S
    <3> QED BY <2>3, Greatest
  <2> QED BY <2>1, <2>4
<1>7. b \in Block BY <1>3, <1>5
<1> HIDE DEF b, n, S
<1>8. I # {} /\ I \subseteq Slots(c)
  <2>1. objs[1][3] \in I BY <1>6
  <2> QED BY <1>5, <1>6, <2>1
<1>9. \A i \in I : \E j \in 1 .. n : objs[j] = <<c, b, i>> BY <1>3, <1>5, <1>6
<1>10. ASSUME NEW i \in I PROVE <<c, b, i>> \in live
  <2>1. PICK j \in 1 .. n : objs[j] = <<c, b, i>> BY <1>9
  <2>2. j \in 1 .. Len(objs) BY <1>6
  <2> QED BY <1>4, <2>1, <2>2
<1>11. /\ rest \in Seq(Object) /\ Len(rest) = Len(objs) - n
       /\ DOMAIN rest = 1 .. Len(rest)
       /\ \A j \in 1 .. Len(rest) : rest[j] = objs[n + j] /\ n + j \in 1 .. Len(objs)
  <2> DEFINE m == n + 1
             l == Len(objs)
  <2>1. m \in 1 .. l + 1 /\ l \in m - 1 .. l /\ n \in Nat /\ l \in Nat BY <1>3, <1>6
  <2>2. rest = SubSeq(objs, m, l) OBVIOUS
  <2> HIDE DEF m, l, rest
  <2>3. /\ rest \in Seq(Object) /\ Len(rest) = l - m + 1
        /\ \A j \in 1 .. l - m + 1 : rest[j] = objs[m + j - 1]
    BY <1>2, <2>1, <2>2, SubSeqProperties DEF l
  <2>4. l - m + 1 = l - n /\ l - n \in Nat BY <2>1 DEF m
  <2>5. Len(rest) = l - n /\ DOMAIN rest = 1 .. Len(rest) BY <2>3, <2>4
  <2>6. ASSUME NEW j \in 1 .. Len(rest) PROVE rest[j] = objs[n + j] /\ n + j \in 1 .. l
    <3>1. j \in 1 .. l - n /\ m + j - 1 = n + j BY <2>1, <2>4, <2>5 DEF m
    <3> QED BY <2>1, <2>3, <2>4, <3>1
  <2> QED BY <2>3, <2>5, <2>6 DEF l
<1> HIDE DEF rest, I
<1>12. IsInjective(rest)
  <2> SUFFICES ASSUME NEW i \in DOMAIN rest, NEW j \in DOMAIN rest, rest[i] = rest[j]
               PROVE  i = j
    BY DEF IsInjective
  <2>1. n + i \in DOMAIN objs /\ n + j \in DOMAIN objs /\ objs[n + i] = objs[n + j]
    BY <1>3, <1>11
  <2>2. n + i = n + j BY <1>2, <2>1 DEF IsInjective
  <2> QED BY <1>6, <1>11, <2>2
<1>13. ASSUME NEW j \in DOMAIN rest PROVE rest[j] \in LiveOf(c) \ Objects(c, b, I)
  <2>1. j \in 1 .. Len(rest) /\ rest[j] = objs[n + j] /\ n + j \in DOMAIN objs /\ n + j > n
    BY <1>3, <1>6, <1>11
  <2>2. rest[j] \in LiveOf(c) BY <1>2, <2>1 DEF Range
  <2>3. ASSUME rest[j] \in Objects(c, b, I) PROVE FALSE
    <3>1. PICK i \in I : rest[j] = <<c, b, i>> BY <2>3 DEF Objects
    <3>2. PICK m \in 1 .. n : objs[m] = <<c, b, i>> BY <1>9
    <3>3. m \in DOMAIN objs /\ objs[m] = objs[n + j] BY <1>3, <1>6, <2>1, <3>1, <3>2
    <3>4. m = n + j BY <1>2, <2>1, <3>3 DEF IsInjective
    <3> QED BY <1>6, <2>1, <3>4
  <2> QED BY <2>2, <2>3
<1>14. op[c].kind # "destroy" BY <1>1
<1>15. Gives(c, b, I, rest) BY <1>7, <1>8, <1>10, <1>11, <1>12, <1>13, <1>14 DEF Gives
<1> QED BY <1>1, <1>15, GiveRunStep

LEMMA DeallocateBatchStep ==
  ASSUME SlabInv, NEW c \in Class, NEW S \in SUBSET LiveOf(c), NEW objs \in SetToSeqs(S),
         Cardinality(S) \in 1 .. MaxGive, DeallocateBatch(c, objs)
  PROVE  SlabInv'
<1> DEFINE o == [Idle EXCEPT !.kind = "give", !.objs = objs]
<1>1. /\ op[c] = Idle /\ op' = [op EXCEPT ![c] = o]
      /\ sc' = sc /\ rd' = rd /\ blocks' = blocks /\ live' = live
  BY DEF DeallocateBatch
<1>2. objs \in [1 .. Cardinality(S) -> S] /\ IsInjective(objs)
  BY DEF SetToSeqs, IsInjective
<1>3. Cardinality(S) \in Nat \ {0} /\ objs \in Seq(S) /\ Len(objs) = Cardinality(S)
  <2> DEFINE m == Cardinality(S)
  <2>1. m \in Nat \ {0} /\ objs \in [1 .. m -> S] BY <1>2, SlabAssumption
  <2> HIDE DEF m
  <2>2. objs \in Seq(S) /\ Len(objs) = m BY <2>1
  <2> QED BY <2>1, <2>2 DEF m
<1>4. objs \in Seq(Object) /\ objs # <<>> /\ Range(objs) \subseteq LiveOf(c)
  BY <1>2, <1>3 DEF SlabInv, LiveInv, LiveOf, Range
<1>5. Idle \in Op BY DEF Idle, Op
<1>6. o \in Op /\ o.objs = objs /\ o.kind = "give" BY <1>4, <1>5 DEF Op
<1> HIDE DEF o
<1>7. op' \in [Class -> Op] /\ op'[c] = o /\ \A d \in Class \ {c} : op'[d] = op[d]
  BY <1>1, <1>6 DEF SlabInv
<1>8. \A d \in Class : LiveOf(d)' = LiveOf(d) BY <1>1 DEF LiveOf
<1>9. \A d \in Class : Unlinked(d)' = Unlinked(d)
  <2>1. Unlinked(c) = {} /\ Unlinked(c)' = {} BY <1>1, <1>6, <1>7 DEF Unlinked, Idle
  <2> QED BY <1>7, <2>1 DEF Unlinked
<1>10. \A d \in Class : OpInv(d)'
  <2> TAKE d \in Class
  <2>1. CASE d = c BY <1>2, <1>4, <1>6, <1>7, <1>8, <2>1 DEF OpInv
  <2>2. CASE d # c
    <3>1. OpInv(d) BY DEF SlabInv
    <3> QED BY <1>1, <1>7, <1>8, <2>2, <3>1 DEF OpInv
  <2> QED BY <2>1, <2>2
<1>11. \A d \in Class : DoomedInv(d)'
  <2> TAKE d \in Class
  <2>1. CASE d = c BY <1>6, <1>7, <2>1 DEF DoomedInv
  <2>2. CASE d # c
    <3>1. DoomedInv(d) BY DEF SlabInv
    <3> QED BY <1>1, <1>7, <2>2, <3>1 DEF DoomedInv
  <2> QED BY <2>1, <2>2
<1>12. \A d \in Class : RingsInv(sc'[d]) /\ PlacedInv(d)' /\ BitsInv(d)'
  <2> TAKE d \in Class
  <2>1. RingsInv(sc[d]) /\ PlacedInv(d) /\ BitsInv(d) BY DEF SlabInv
  <2>2. PlacedInv(d)' BY <1>1, <1>9, <2>1 DEF PlacedInv, PagePlaced
  <2>3. BitsInv(d)' BY <1>1, <2>1 DEF BitsInv, PageBits
  <2> QED BY <1>1, <2>1, <2>2, <2>3
<1>13. BlocksInv' /\ LiveInv' BY <1>1 DEF SlabInv, BlocksInv, LiveInv
<1>14. RadixMatchesPages' BY <1>1, <1>9 DEF SlabInv, RadixMatchesPages
<1>15. sc' \in [Class -> Slab] BY <1>1 DEF SlabInv
<1> QED BY <1>7, <1>10, <1>11, <1>12, <1>13, <1>14, <1>15 DEF SlabInv

\* The page on no ring gives its block back and goes on the uninit ring.
LEMMA BackUninitStep ==
  ASSUME SlabInv, NEW c \in Class, NEW p, p = op[c].page, NEW b, b = sc[c].data[p],
         BackUninit(c)
  PROVE  SlabInv'
<1> DEFINE s == sc[c]
           v == [op[c] EXCEPT !.kind = "give"]
           o == IF op[c].objs = <<>> THEN Idle ELSE v
           x == destroy_page(s, p)
           t == Link(x, "uninit", p)
<1>1. /\ op[c].kind = "destroy" /\ sc' = [sc EXCEPT ![c] = t]
      /\ blocks' = blocks \cup {b} /\ op' = [op EXCEPT ![c] = o]
      /\ rd' = rd /\ live' = live
  BY DEF BackUninit
<1>2. /\ op[c] \in Op /\ RingsInv(s) /\ s \in Slab /\ s.len \in Nat /\ s.len <= MaxPages[c]
      /\ {"full", "partial", "empty", "uninit"} = Kind /\ "uninit" \in Kind
      /\ s.data[p] = b
  BY DEF SlabInv, RingsInv, Slab, Kind, PlacedInv
<1>3. /\ p < s.len /\ s.counter[p] = 0 /\ b # Null /\ IsInjective(op[c].objs)
      /\ Range(op[c].objs) \subseteq LiveOf(c) /\ rd[b] = 0
  BY <1>1 DEF SlabInv, OpInv, DoomedInv, is_empty
<1>4. p \in 0 .. s.len - 1
  <2>1. p \in Nat BY <1>2 DEF Op
  <2> QED BY <1>2, <1>3, <2>1
<1>5. p \in Page BY <1>2, <1>4, IsInRange
<1>6. b \in Block BY <1>2, <1>3, <1>5 DEF Slab
<1>7. Unlinked(c) = {p} BY <1>1 DEF Unlinked
<1>8. \A l \in Kind : p \notin On(s, l) BY <1>4, <1>7 DEF SlabInv, PlacedInv, PagePlaced
<1>9. Mine(c, p, b) BY <1>3, <1>4 DEF Mine, SlabInv, BlocksInv
<1>10. /\ Used(c, s, p) = {} /\ s.bits[p] \subseteq Bits(c)
       /\ \A i \in Slots(c) : <<c, b, i>> \notin live
  BY <1>3, <1>4, EmptyPage
<1>11. s.bits[p] \in SUBSET Nat BY <1>2, <1>5 DEF Slab
<1>12. x = PageAt(s, p, 0, s.bits[p], Null)
  <2>1. x = PageAt(s, p, s.counter[p], s.bits[p], Null) BY <1>2, <1>5, AsPageAt
  <2> QED BY <1>3, <2>1
<1>13. /\ v \in Op /\ v.objs = op[c].objs /\ v.kind = "give"
       /\ Idle \in Op /\ Idle.objs = <<>> /\ Idle.kind = "idle"
  <2> DEFINE u == op[c]
  <2>1. u \in Op BY <1>2
  <2> HIDE DEF u
  <2>2. /\ [u EXCEPT !.kind = "give"] \in Op /\ [u EXCEPT !.kind = "give"].objs = u.objs
        /\ [u EXCEPT !.kind = "give"].kind = "give"
    BY <2>1 DEF Op
  <2> QED BY <2>2 DEF Idle, Op, u
<1>14. /\ o \in Op /\ o.objs = op[c].objs /\ o.kind \in {"idle", "give"}
       /\ (o.kind = "idle" => o = Idle) /\ (o.kind = "give" => o.objs # <<>>)
  <2> HIDE DEF v
  <2> QED BY <1>13
<1>15. t = Link(x, "uninit", p) /\ s = sc[c] OBVIOUS
<1> HIDE DEF s, v, o, x, t
<1>16. PageSet(s, p, 0, s.bits[p], Null, x) BY <1>2, <1>4, <1>11, <1>12, PageAtIs
<1>17. /\ RingsInv(x) /\ Others(s, x, p) /\ x.len = s.len
       /\ x.counter[p] = 0 /\ x.bits[p] = s.bits[p] /\ x.data[p] = Null
       /\ \A l \in Kind : p \notin On(x, l)
  BY <1>8, <1>16 DEF PageSet
<1>18. /\ RingsInv(t) /\ Others(x, t, p) /\ SamePages(x, t)
       /\ \A l \in Kind : p \in On(t, l) <=> l = "uninit"
  <2>1. p \in 0 .. x.len - 1 BY <1>4, <1>17
  <2> QED BY <1>2, <1>15, <1>17, <2>1, LinkIs
<1>19. /\ t.len = s.len /\ t.counter[p] = 0 /\ t.bits[p] = s.bits[p] /\ t.data[p] = Null
       /\ t \in Slab
  BY <1>17, <1>18 DEF SamePages, RingsInv
<1>20. Others(s, t, p)
  <2>1. s.len \in Int /\ x.len \in Int /\ t.len \in Int BY <1>2, <1>17, <1>19
  <2> QED BY <1>17, <1>18, <2>1, OthersTrans
<1>21. /\ sc' \in [Class -> Slab] /\ sc'[c] = t /\ \A d \in Class \ {c} : sc'[d] = sc[d]
       /\ op' \in [Class -> Op] /\ op'[c] = o /\ \A d \in Class \ {c} : op'[d] = op[d]
  BY <1>1, <1>14, <1>19 DEF SlabInv
<1>22. LiveOf(c)' = LiveOf(c) BY <1>1 DEF LiveOf
<1>23. OpInv(c)' /\ Unlinked(c)' = {}
  BY <1>3, <1>14, <1>21, <1>22 DEF OpInv, Unlinked
<1>24. PagePlaced(c, p)'
  <2>1. /\ p \in On(t, "uninit") /\ p \notin On(t, "full") /\ p \notin On(t, "partial")
        /\ p \notin On(t, "empty")
    BY <1>2, <1>18
  <2>2. is_empty(t, p) /\ t.data[p] = Null BY <1>19 DEF is_empty
  <2> QED BY <1>2, <1>21, <1>23, <2>1, <2>2 DEF PagePlaced
<1>25. PageBits(c, p)'
  <2>1. \A i \in Slots(c) : <<c, Null, i>> \notin live
    BY SlabAssumption DEF SlabInv, LiveInv, Object
  <2>2. Used(c, t, p) = {} BY <1>10, <1>19 DEF Used
  <2>3. Used(c, t, p) = {i \in Slots(c) : <<c, t.data[p], i>> \in live'}
    BY <1>1, <1>19, <2>1, <2>2
  <2>4. Cardinality({}) = 0 BY FS_EmptySet
  <2>5. t.counter[p] = Cardinality(Used(c, t, p)) BY <1>19, <2>2, <2>4
  <2> QED BY <1>10, <1>19, <1>21, <2>3, <2>5 DEF PageBits
<1>26. SlabStep(c, p, b)
  <2>1. sc[c].data[p] = b /\ Others(sc[c], t, p) /\ t.len <= MaxPages[c]
    BY <1>2, <1>15, <1>19, <1>20
  <2> QED BY <1>7, <1>9, <1>18, <1>19, <1>21, <1>23, <1>24, <1>25, <2>1 DEF SlabStep
<1>27. LiveStep(c, p, b)
  <2>1. ASSUME NEW y \in live, y[1] = c, y[2] = b PROVE FALSE
    <3>1. y \in Object /\ y[3] \in Slots(c) BY <2>1 DEF SlabInv, LiveInv
    <3>2. y = <<c, b, y[3]>> BY <2>1, <3>1 DEF Object
    <3> QED BY <1>10, <2>1, <3>1, <3>2
  <2> QED BY <1>1, <2>1 DEF LiveStep
<1>28. BlockStep(c, p, b)
  <2>1. rd \in [Block -> Nat] BY DEF SlabInv, BlocksInv
  <2> QED BY <1>1, <1>3, <1>19, <1>21, <1>23, <2>1 DEF BlockStep
<1> QED BY <1>5, <1>6, <1>26, <1>27, <1>28, StepInv

-----------------------------------------------------------------------------
(***************************************************************************)
(* The invariant holds.                                                    *)
(***************************************************************************)
LEMMA InitInv == Init => SlabInv
<1> SUFFICES ASSUME Init PROVE SlabInv OBVIOUS
<1>1. /\ sc = [c \in Class |-> EmptySlab] /\ op = [c \in Class |-> Idle]
      /\ rd = [b \in Block |-> 0] /\ blocks = Block /\ live = {}
  BY DEF Init
<1>2. Idle \in Op /\ Idle.kind = "idle" /\ Idle.objs = <<>> BY DEF Op, Idle
<1>3. EmptySlab \in Slab /\ EmptySlab.len = 0 /\ \A k \in Kind : EmptySlab.count[k] = 0
  <2>1. Page \subseteq Nat BY PagesIsNat DEF Page
  <2> QED BY <2>1 DEF EmptySlab, Slab
<1>4. \A z \in Page : Fresh(EmptySlab, z) BY DEF EmptySlab, Fresh
<1>5. \A k \in Kind : IsRing(EmptySlab, k, <<>>) /\ Range(<<>>) = {}
  BY <1>3 DEF IsRing, IsInjective, Closed, Range
<1>6. RingsInv(EmptySlab)
  <2>1. \A k \in Kind : Along(EmptySlab, k) = <<>> /\ On(EmptySlab, k) = {}
    BY <1>3, <1>5, RingIsAlong
  <2>2. EmptySlab.len <= Pages BY <1>3, PagesIsNat
  <2> QED BY <1>3, <1>5, <2>1, <2>2 DEF RingsInv
<1>7. \A c \in Class : sc[c] = EmptySlab /\ op[c] = Idle /\ MaxPages[c] \in Nat
  BY <1>1, SlabAssumption
<1>8. \A c \in Class : 0 .. sc[c].len - 1 = {} BY <1>3, <1>7
<1>9. \A c \in Class : PlacedInv(c) BY <1>3, <1>7, <1>8 DEF PlacedInv
<1>10. \A c \in Class : BitsInv(c) BY <1>4, <1>7, <1>8 DEF BitsInv
<1>11. \A c \in Class : OpInv(c) /\ DoomedInv(c)
  <2>1. IsInjective(<<>>) /\ Range(<<>>) = {} BY DEF IsInjective, Range
  <2> QED BY <1>2, <1>7, <2>1 DEF OpInv, DoomedInv
<1>12. BlocksInv BY <1>1, <1>8 DEF BlocksInv
<1>13. LiveInv BY <1>1 DEF LiveInv
<1>14. RadixMatchesPages BY <1>1, <1>8 DEF RadixMatchesPages
<1>15. sc \in [Class -> Slab] /\ op \in [Class -> Op] BY <1>1, <1>2, <1>3
<1> QED BY <1>6, <1>7, <1>9, <1>10, <1>11, <1>12, <1>13, <1>14, <1>15 DEF SlabInv

LEMMA StutterInv == SlabInv /\ UNCHANGED vars => SlabInv'
<1> SUFFICES ASSUME SlabInv, UNCHANGED vars PROVE SlabInv' OBVIOUS
<1>1. sc' = sc /\ op' = op /\ rd' = rd /\ blocks' = blocks /\ live' = live BY DEF vars
<1>2. \A c \in Class : Unlinked(c)' = Unlinked(c) /\ LiveOf(c)' = LiveOf(c)
  BY <1>1 DEF Unlinked, LiveOf
<1>3. \A c \in Class : PlacedInv(c)' /\ BitsInv(c)'
  BY <1>1, <1>2 DEF SlabInv, PlacedInv, PagePlaced, BitsInv, PageBits
<1>4. \A c \in Class : OpInv(c)' /\ DoomedInv(c)'
  BY <1>1, <1>2 DEF SlabInv, OpInv, DoomedInv
<1>5. BlocksInv' /\ LiveInv' BY <1>1 DEF SlabInv, BlocksInv, LiveInv
<1>6. RadixMatchesPages' BY <1>1, <1>2 DEF SlabInv, RadixMatchesPages
<1> QED BY <1>1, <1>3, <1>4, <1>5, <1>6 DEF SlabInv

LEMMA NextInv == SlabInv /\ Next => SlabInv'
<1> SUFFICES ASSUME SlabInv, Next PROVE SlabInv' OBVIOUS
<1>1. PICK c \in Class :
        \/ \E a \in Align : Allocate(c, a) \/ AllocateBatchOne(c, a) \/ AllocateBatchPage(c, a)
        \/ \E n \in 1 .. MaxTake : AllocateBatchV2(c, n)
        \/ BatchFromPartial(c)
        \/ BatchFromEmpty(c)
        \/ \E o \in LiveOf(c) : Deallocate(c, o)
        \/ \E S \in {T \in SUBSET LiveOf(c) : Cardinality(T) \in 1 .. MaxGive} :
             \E objs \in SetToSeqs(S) : DeallocateBatch(c, objs)
        \/ BatchRun(c)
        \/ BackUninit(c)
  BY DEF Next
<1>2. CASE \E a \in Align : Allocate(c, a) \/ AllocateBatchOne(c, a) \/ AllocateBatchPage(c, a)
  BY <1>2, AllocateStep
<1>3. CASE \E n \in 1 .. MaxTake : AllocateBatchV2(c, n) BY <1>3, AllocateBatchV2Step
<1>4. CASE BatchFromPartial(c) BY <1>4, BatchFromPartialStep
<1>5. CASE BatchFromEmpty(c) BY <1>5, BatchFromEmptyStep
<1>6. CASE \E o \in LiveOf(c) : Deallocate(c, o) BY <1>6, DeallocateStep
<1>7. CASE \E S \in {T \in SUBSET LiveOf(c) : Cardinality(T) \in 1 .. MaxGive} :
             \E objs \in SetToSeqs(S) : DeallocateBatch(c, objs)
  BY <1>7, DeallocateBatchStep
<1>8. CASE BatchRun(c) BY <1>8, BatchRunStep
<1>9. CASE BackUninit(c) BY <1>9, BackUninitStep
<1> QED BY <1>1, <1>2, <1>3, <1>4, <1>5, <1>6, <1>7, <1>8, <1>9

(* Every reachable state satisfies the inductive invariant: each ring of each class is  *)
(* a closed sequence of pages, each page is on the ring its counter calls for, counters  *)
(* and bitmaps match the objects in use, and every block has one owner.                  *)
THEOREM SlabInvariant == Spec => []SlabInv
<1>1. SlabInv /\ [Next]_vars => SlabInv' BY NextInv, StutterInv
<1> QED BY <1>1, InitInv, PTL DEF Spec

LEMMA RingIsOn ==
  ASSUME SlabInv, NEW c \in Class, NEW k \in Kind
  PROVE  LET n == sc[c].count[k]
         IN  /\ Ring(c, k) = On(sc[c], k) /\ Cardinality(Ring(c, k)) = n
             /\ n > 0 => Nth(sc[c], k, n) = sc[c].start[k]
             /\ \A p \in Ring(c, k) : sc[c].prev[sc[c].next[p]] = p
<1> DEFINE s == sc[c]
           q == Along(s, k)
           n == s.count[k]
<1>1. RingsInv(s) /\ s \in Slab /\ n \in Nat BY DEF SlabInv, RingsInv, Slab
<1>2. /\ q \in Seq(Page) /\ IsInjective(q) /\ DOMAIN q = 1 .. n
      /\ IsRing(s, k, q) /\ On(s, k) = Range(q) /\ Len(q) = n
      /\ Closed(s.next, s.prev, q)
  <2> HIDE DEF s
  <2>1. /\ q \in Seq(Page) /\ IsInjective(q) /\ Len(q) \in Nat /\ DOMAIN q = 1 .. Len(q)
        /\ IsRing(s, k, q) /\ On(s, k) = Range(q) /\ Len(q) = s.count[k]
        /\ Closed(s.next, s.prev, q)
        /\ \A z \in On(s, k) : s.next[z] \in On(s, k) /\ s.prev[z] \in On(s, k)
    BY <1>1, RingLinks
  <2> QED BY <2>1
<1>3. \A i \in 1 .. n : q[i] = Nth(s, k, i - 1) BY DEF Along
<1>4. Ring(c, k) = Range(q)
  <2>1. Ring(c, k) = {Nth(s, k, j) : j \in 0 .. n - 1} BY DEF Ring
  <2>2. \A j \in 0 .. n - 1 : j + 1 \in 1 .. n /\ (j + 1) - 1 = j BY <1>1
  <2>3. \A i \in 1 .. n : i - 1 \in 0 .. n - 1 BY <1>1
  <2> HIDE DEF q, n, s
  <2>4. \A j \in 0 .. n - 1 : Nth(s, k, j) = q[j + 1] BY <1>3, <2>2
  <2>5. Range(q) \subseteq Ring(c, k) BY <1>2, <1>3, <2>1, <2>3 DEF Range
  <2>6. Ring(c, k) \subseteq Range(q) BY <1>2, <2>1, <2>2, <2>4 DEF Range
  <2> QED BY <2>5, <2>6
<1> HIDE DEF q, n, s
<1>5. Cardinality(Ring(c, k)) = n
  <2>1. IsFiniteSet(1 .. n) /\ Cardinality(1 .. n) = n
    <3>1. 1 \in Int /\ n \in Int BY <1>1
    <3>2. IsFiniteSet(1 .. n) /\ Cardinality(1 .. n) = IF 1 > n THEN 0 ELSE n - 1 + 1
      BY <3>1, FS_Interval
    <3> QED BY <1>1, <3>2
  <2>2. q \in Surjection(1 .. n, Range(q)) /\ q \in Injection(1 .. n, Range(q))
    BY <1>2 DEF Injection, Surjection, IsInjective, Range
  <2> QED BY <1>4, <2>1, <2>2, FS_Surjection
<1>6. n > 0 => Nth(s, k, n) = s.start[k] BY <1>1, <1>2, WalkIsOn DEF q, n
<1>7. \A p \in Ring(c, k) : s.prev[s.next[p]] = p
  BY <1>2, <1>4 DEF Closed, Range
<1> QED BY <1>2, <1>4, <1>5, <1>6, <1>7 DEF s, n

LEMMA PartitionFollows == SlabInv => RingsPartitionPages
<1> SUFFICES ASSUME SlabInv, NEW c \in Class
             PROVE  /\ \A k \in Kind :
                         LET n == sc[c].count[k]
                         IN  /\ Cardinality(Ring(c, k)) = n
                             /\ n > 0 => Nth(sc[c], k, n) = sc[c].start[k]
                             /\ \A p \in Ring(c, k) : sc[c].prev[sc[c].next[p]] = p
                    /\ \A k, l \in Kind : k # l => Ring(c, k) \cap Ring(c, l) = {}
                    /\ (UNION {Ring(c, k) : k \in Kind}) \cup Unlinked(c) = 0 .. sc[c].len - 1
                    /\ \A p \in Ring(c, "full") : is_full(c, sc[c], p)
                    /\ \A p \in Ring(c, "partial") : ~ is_full(c, sc[c], p)
                    /\ \A p \in Ring(c, "empty") \cup Ring(c, "uninit") : is_empty(sc[c], p)
                    /\ \A p \in 0 .. sc[c].len - 1 :
                         sc[c].data[p] = Null <=> p \in Ring(c, "uninit")
  BY DEF RingsPartitionPages
<1> DEFINE s == sc[c]
<1>1. \A k \in Kind : Ring(c, k) = On(s, k) BY RingIsOn
<1>2. RingsInv(s) /\ {"full", "partial", "empty", "uninit"} = Kind BY DEF SlabInv, Kind
<1>3. \A k \in Kind : On(s, k) \subseteq 0 .. s.len - 1 BY <1>2 DEF RingsInv
<1>4. \A k, l \in Kind : k # l => On(s, k) \cap On(s, l) = {} BY <1>2 DEF RingsInv
<1>5. \A p \in 0 .. s.len - 1 : PagePlaced(c, p) BY DEF SlabInv, PlacedInv
<1>6. Unlinked(c) \subseteq 0 .. s.len - 1
  <2> SUFFICES ASSUME op[c].kind = "destroy" PROVE op[c].page \in 0 .. s.len - 1
    BY DEF Unlinked
  <2>1. op[c].page < s.len BY DEF SlabInv, OpInv
  <2>2. op[c].page \in Nat /\ s.len \in Nat BY DEF SlabInv, Op, Slab
  <2> QED BY <2>1, <2>2
<1>7. (UNION {Ring(c, k) : k \in Kind}) \cup Unlinked(c) = 0 .. s.len - 1
  <2>1. \A p \in 0 .. s.len - 1 : p \in Unlinked(c) \/ \E k \in Kind : p \in Ring(c, k)
    BY <1>1, <1>5 DEF PagePlaced
  <2> QED BY <1>1, <1>3, <1>6, <2>1
<1>8. /\ \A p \in On(s, "full") : is_full(c, s, p)
      /\ \A p \in On(s, "partial") : ~ is_full(c, s, p)
      /\ \A p \in On(s, "empty") \cup On(s, "uninit") : is_empty(s, p)
      /\ \A p \in 0 .. s.len - 1 : s.data[p] = Null <=> p \in On(s, "uninit")
  BY <1>2, <1>3, <1>5 DEF PagePlaced
<1> QED BY <1>1, <1>2, <1>4, <1>7, <1>8, RingIsOn

(* RingsPartitionPages: after any sequence of calls the links of ArrayLinkedList form   *)
(* four closed rings that partition the descriptors, each on the ring of its state.     *)
THEOREM RingsPartition == Spec => []RingsPartitionPages
BY SlabInvariant, PartitionFollows, PTL

LEMMA BitsFollow == SlabInv => BitsMatchLive
<1> SUFFICES ASSUME SlabInv, NEW c \in Class, NEW p \in 0 .. sc[c].len - 1
             PROVE  LET mine == {o \in LiveOf(c) : o[2] = sc[c].data[p]}
                    IN  /\ sc[c].counter[p] = Cardinality(mine)
                        /\ sc[c].bits[p] \cap (0 .. PgCount(c) - 1) = {o[3] : o \in mine}
  BY DEF BitsMatchLive
<1> DEFINE s == sc[c]
           b == s.data[p]
           mine == {o \in LiveOf(c) : o[2] = b}
           U == Used(c, s, p)
           f == [i \in U |-> <<c, b, i>>]
<1>1. PageBits(c, p) BY DEF SlabInv, BitsInv
<1>2. IsFiniteSet(U) /\ U \subseteq Slots(c) BY SlotsAre, FS_Subset DEF Used
<1>3. s.counter[p] = Cardinality(U) /\ \A i \in Slots(c) : <<c, b, i>> \in live <=> i \in U
  BY <1>1 DEF PageBits
<1>4. \A o \in mine : o = <<c, b, o[3]>> /\ o[3] \in U
  <2> TAKE o \in mine
  <2>1. o \in live /\ o[1] = c /\ o[2] = b BY DEF LiveOf
  <2>2. o \in Object /\ o[3] \in Slots(c) BY <2>1 DEF SlabInv, LiveInv
  <2>3. o = <<c, b, o[3]>> BY <2>1, <2>2 DEF Object
  <2> QED BY <1>3, <2>1, <2>2, <2>3
<1>5. \A i \in U : <<c, b, i>> \in mine /\ <<c, b, i>>[3] = i
  BY <1>2, <1>3 DEF LiveOf
<1> HIDE DEF s, b, mine, U
<1>6. f \in Surjection(U, mine) /\ f \in Injection(U, mine)
  <2>1. \A i \in U : f[i] = <<c, b, i>> OBVIOUS
  <2>2. f \in [U -> mine] BY <1>5
  <2> HIDE DEF f
  <2>3. \A o \in mine : \E i \in U : f[i] = o BY <1>4, <2>1
  <2>4. \A i, j \in U : f[i] = f[j] => i = j BY <2>1
  <2> QED BY <2>2, <2>3, <2>4 DEF Surjection, Injection, IsInjective
<1>7. Cardinality(mine) = Cardinality(U) BY <1>2, <1>6, FS_Surjection
<1>8. U = {o[3] : o \in mine} BY <1>4, <1>5
<1> QED BY <1>3, <1>7, <1>8 DEF U, s, b, mine, Used, Slots

(* BitsMatchLive: the counter and the bitmap of a page agree with the objects the        *)
(* program holds, through first_fit, whole pages, batches and runs given back.           *)
THEOREM BitsMatch == Spec => []BitsMatchLive
BY SlabInvariant, BitsFollow, PTL

(* RadixMatchesPages: an address leads to the descriptor that owns its block, and a      *)
(* block of the backend has no entry, also while another class holds its own lock        *)
(* between try_back_ety and back_uninit.                                                 *)
THEOREM RadixMatches == Spec => []RadixMatchesPages
<1>1. SlabInv => RadixMatchesPages BY DEF SlabInv
<1> QED BY <1>1, SlabInvariant, PTL

\* Objects i and j of one page are apart, and inside the block.
LEMMA Apart ==
  ASSUME NEW n \in Nat, NEW d \in Nat, NEW z \in Nat, NEW m \in Nat, z <= d, n * d <= m,
         NEW i \in 0 .. n - 1
  PROVE  i * d + z <= m /\ \A j \in 0 .. n - 1 : i < j => i * d + z <= j * d
<1>1. i * d + z <= (i + 1) * d /\ (i + 1) * d \in Nat BY Z3
<1>2. ASSUME NEW j \in Nat, i + 1 <= j PROVE (i + 1) * d <= j * d /\ j * d \in Nat BY <1>2, Z3
<1>3. (i + 1) * d <= n * d /\ n * d \in Nat BY <1>2
<1>4. i * d \in Nat OBVIOUS
<1>5. i * d + z <= m BY <1>1, <1>3, <1>4
<1> QED BY <1>1, <1>2, <1>4, <1>5

LEMMA OverlapFollows == SlabInv => NoOverlap
<1> SUFFICES ASSUME SlabInv, NEW o \in live, NEW q \in live
             PROVE  LET first(x) == x[3] * PgAlign(x[1])
                    IN  /\ first(o) + SizeClass[o[1]] <= BlockBytes
                        /\ o # q /\ o[2] = q[2] =>
                             \/ first(o) + SizeClass[o[1]] <= first(q)
                             \/ first(q) + SizeClass[q[1]] <= first(o)
  BY DEF NoOverlap
<1> DEFINE c == o[1]
           n == PgCount(c)
           d == PgAlign(c)
           z == SizeClass[c]
<1>1. /\ o \in Object /\ o[3] \in Slots(o[1]) /\ q \in Object /\ q[3] \in Slots(q[1])
  BY DEF SlabInv, LiveInv
<1>2. c \in Class /\ o = <<o[1], o[2], o[3]>> /\ q = <<q[1], q[2], q[3]>> /\ q[1] \in Class
      /\ o[2] \in Block
  BY <1>1 DEF Object
<1>3. n \in Nat /\ d \in Nat /\ z \in Nat /\ z <= d /\ n * d <= BlockBytes /\ BlockBytes \in Nat
  BY <1>2, PgCountIs, PgAlignIs
<1>4. o[3] \in 0 .. n - 1 BY <1>1 DEF Slots
<1> HIDE DEF n, d, z
<1>5. o[3] * d + z <= BlockBytes BY <1>3, <1>4, Apart
<1>6. ASSUME o # q, o[2] = q[2]
      PROVE  q[1] = c /\ (o[3] * d + z <= q[3] * d \/ q[3] * d + z <= o[3] * d)
  <2>1. PICK p \in 0 .. sc[c].len - 1 : sc[c].data[p] = o[2] BY DEF SlabInv, LiveInv
  <2>2. PICK r \in 0 .. sc[q[1]].len - 1 : sc[q[1]].data[r] = q[2] BY DEF SlabInv, LiveInv
  <2>3. o[2] # Null BY <1>2, SlabAssumption
  <2>4. q[1] = c BY <1>2, <1>6, <2>1, <2>2, <2>3 DEF SlabInv, BlocksInv
  <2>5. q[3] \in 0 .. n - 1 BY <1>1, <2>4 DEF Slots, n
  <2>6. o[3] # q[3] BY <1>2, <1>6, <2>4
  <2>7. o[3] < q[3] \/ q[3] < o[3] BY <1>4, <2>5, <2>6
  <2>8. o[3] < q[3] => o[3] * d + z <= q[3] * d BY <1>3, <1>4, <2>5, Apart
  <2>9. q[3] < o[3] => q[3] * d + z <= o[3] * d BY <1>3, <1>4, <2>5, Apart
  <2> QED BY <2>4, <2>7, <2>8, <2>9
<1> QED BY <1>5, <1>6 DEF d, z

(* NoOverlap: two objects the program holds do not share a byte and lie in their block,  *)
(* for every size of objects, although pg_align may exceed the size of the class.        *)
THEOREM ObjectsApart == Spec => []NoOverlap
BY SlabInvariant, OverlapFollows, PTL

-----------------------------------------------------------------------------
(***************************************************************************)
(* The rings of efficient_sc.rs (PageRings), for every number of           *)
(* descriptors: a memory stands for four sequences, every step of the code *)
(* is a step of these sequences, and Walk, along next from the start of a  *)
(* ring, finds them.                                                       *)
(***************************************************************************)
Marks == RingKind \cup {NoPage}

Memory ==
  [start : [RingKind -> Descriptor \cup {NoPage}], prev : [Descriptor -> Descriptor \cup {NoPage}],
   next : [Descriptor -> Descriptor \cup {NoPage}], empty_count : Nat]

\* Ring k of the memory m is the sequence q.
PointsAlong(m, k, q) ==
  /\ q \in Seq(Descriptor) /\ IsInjective(q)
  /\ m.start[k] = IF q = <<>> THEN NoPage ELSE q[1]
  /\ Closed(m.next, m.prev, q)

\* The rings of m are the sequences r.
Points(m, r) ==
  /\ m \in Memory /\ r \in [RingKind -> Seq(Descriptor)]
  /\ \A k \in RingKind : PointsAlong(m, k, r[k])
  /\ \A k, l \in RingKind : k # l => Range(r[k]) \cap Range(r[l]) = {}

\* set_prev and set_next change one link.
LEMMA SetPrev ==
  ASSUME NEW m \in Memory, NEW p \in Descriptor, NEW q \in Descriptor \cup {NoPage}
  PROVE  LET t == set_prev(m, p, q)
         IN  /\ t \in Memory /\ t.start = m.start /\ t.empty_count = m.empty_count
             /\ t.next = m.next /\ t.prev = [m.prev EXCEPT ![p] = q]
BY DEF Memory, set_prev

LEMMA SetNext ==
  ASSUME NEW m \in Memory, NEW p \in Descriptor, NEW q \in Descriptor \cup {NoPage}
  PROVE  LET t == set_next(m, p, q)
         IN  /\ t \in Memory /\ t.start = m.start /\ t.empty_count = m.empty_count
             /\ t.prev = m.prev /\ t.next = [m.next EXCEPT ![p] = q]
BY DEF Memory, set_next

\* ... and these the start of a ring, and the counter.
LEMMA SetStart ==
  ASSUME NEW m \in Memory, NEW k \in RingKind, NEW q \in Descriptor \cup {NoPage}
  PROVE  LET t == [m EXCEPT !.start[k] = q]
         IN  /\ t \in Memory /\ t.start = [m.start EXCEPT ![k] = q]
             /\ t.empty_count = m.empty_count /\ t.prev = m.prev /\ t.next = m.next
BY DEF Memory

\* The pages a page of a ring is linked to.
LEMMA Neighbours ==
  ASSUME NEW m \in Memory, NEW k \in RingKind, NEW q, PointsAlong(m, k, q), NEW i \in 1 .. Len(q)
  PROVE  /\ q[i] \in Descriptor /\ q[i] \in Range(q)
         /\ m.next[q[i]] = q[After(q, i)] /\ m.prev[q[i]] = q[Before(q, i)]
         /\ After(q, i) \in 1 .. Len(q) /\ Before(q, i) \in 1 .. Len(q)
         /\ m.next[q[i]] \in Range(q) /\ m.prev[q[i]] \in Range(q)
         /\ m.next[q[i]] \in Descriptor /\ m.prev[q[i]] \in Descriptor
<1>1. q \in Seq(Descriptor) /\ Closed(m.next, m.prev, q) /\ DOMAIN q = 1 .. Len(q)
  BY DEF PointsAlong
<1>2. /\ After(q, i) \in 1 .. Len(q) /\ Before(q, i) \in 1 .. Len(q)
      /\ After(q, Before(q, i)) = i
  BY <1>1, Around
<1>3. m.next[q[i]] = q[After(q, i)] BY <1>1 DEF Closed
<1>4. m.prev[q[i]] = q[Before(q, i)] BY <1>1, <1>2 DEF Closed
<1>5. \A j \in 1 .. Len(q) : q[j] \in Descriptor /\ q[j] \in Range(q) BY <1>1 DEF Range
<1> QED BY <1>2, <1>3, <1>4, <1>5

\* t has the other rings as m has them.
OthersKept(m, r, k, t, q) ==
  \A l \in RingKind \ {k} :
    /\ t.start[l] = m.start[l] /\ Range(r[l]) \cap Range(q) = {}
    /\ \A z \in Range(r[l]) : t.next[z] = m.next[z] /\ t.prev[z] = m.prev[z]

\* A memory with another ring k and the links of the other rings as they were.
LEMMA PointsFrom ==
  ASSUME NEW m, NEW r, Points(m, r), NEW k \in RingKind, NEW t \in Memory,
         NEW q, PointsAlong(t, k, q), OthersKept(m, r, k, t, q)
  PROVE  Points(t, [r EXCEPT ![k] = q])
<1> DEFINE s == [r EXCEPT ![k] = q]
<1>1. /\ m \in Memory /\ r \in [RingKind -> Seq(Descriptor)]
      /\ \A l \in RingKind : PointsAlong(m, l, r[l])
      /\ \A j, l \in RingKind : j # l => Range(r[j]) \cap Range(r[l]) = {}
  BY DEF Points
<1>2. s \in [RingKind -> Seq(Descriptor)] /\ s[k] = q /\ \A l \in RingKind \ {k} : s[l] = r[l]
  BY <1>1 DEF PointsAlong
<1> HIDE DEF s
<1>3. \A l \in RingKind \ {k} : PointsAlong(t, l, r[l])
  <2> SUFFICES ASSUME NEW l \in RingKind \ {k} PROVE PointsAlong(t, l, r[l]) OBVIOUS
  <2>1. /\ r[l] \in Seq(Descriptor) /\ IsInjective(r[l]) /\ Closed(m.next, m.prev, r[l])
        /\ m.start[l] = IF r[l] = <<>> THEN NoPage ELSE r[l][1]
    BY <1>1 DEF PointsAlong
  <2>2. Closed(t.next, t.prev, r[l]) BY <2>1, ClosedKept DEF OthersKept
  <2> QED BY <2>1, <2>2 DEF PointsAlong, OthersKept
<1>4. \A l \in RingKind : PointsAlong(t, l, s[l]) BY <1>2, <1>3
<1>5. \A j, l \in RingKind : j # l => Range(s[j]) \cap Range(s[l]) = {}
  <2> SUFFICES ASSUME NEW j \in RingKind, NEW l \in RingKind, j # l
               PROVE  Range(s[j]) \cap Range(s[l]) = {}
    OBVIOUS
  <2>1. CASE j = k BY <1>2, <2>1 DEF OthersKept
  <2>2. CASE l = k BY <1>2, <2>2 DEF OthersKept
  <2>3. CASE j # k /\ l # k BY <1>1, <1>2, <2>3
  <2> QED BY <2>1, <2>2, <2>3
<1> QED BY <1>2, <1>4, <1>5 DEF Points, s

\* A sequence with one more element.
LEMMA Appended ==
  ASSUME NEW D, NEW q \in Seq(D), IsInjective(q), NEW p \in D, p \notin Range(q)
  PROVE  LET w == Append(q, p)
         IN  /\ w \in Seq(D) /\ IsInjective(w) /\ Range(w) = Range(q) \cup {p}
             /\ Len(w) = Len(q) + 1 /\ w # <<>>
             /\ w[1] = IF q = <<>> THEN p ELSE q[1]
<1> DEFINE w == Append(q, p)
<1>1. /\ w \in Seq(D) /\ Len(w) = Len(q) + 1 /\ Len(q) \in Nat
      /\ DOMAIN w = 1 .. Len(q) + 1 /\ DOMAIN q = 1 .. Len(q)
  OBVIOUS
<1>2. /\ \A i \in 1 .. Len(q) : w[i] = q[i]
      /\ w[Len(q) + 1] = p
  OBVIOUS
<1>3. w[1] = IF q = <<>> THEN p ELSE q[1] OBVIOUS
<1>4. \A i \in 1 .. Len(q) : q[i] # p BY <1>1 DEF Range
<1> HIDE DEF w
<1>5. IsInjective(w)
  <2> SUFFICES ASSUME NEW a \in 1 .. Len(q) + 1, NEW b \in 1 .. Len(q) + 1, w[a] = w[b]
               PROVE  a = b
    BY <1>1 DEF IsInjective
  <2>1. CASE a = Len(q) + 1 /\ b = Len(q) + 1 BY <2>1
  <2>2. CASE a \in 1 .. Len(q) /\ b \in 1 .. Len(q)
    BY <1>1, <1>2, <2>2 DEF IsInjective
  <2>3. CASE a = Len(q) + 1 /\ b \in 1 .. Len(q) BY <1>2, <1>4, <2>3
  <2>4. CASE b = Len(q) + 1 /\ a \in 1 .. Len(q) BY <1>2, <1>4, <2>4
  <2> QED BY <1>1, <2>1, <2>2, <2>3, <2>4
<1>6. Range(w) \subseteq Range(q) \cup {p} BY <1>1, <1>2 DEF Range
<1>7. Range(q) \subseteq Range(w) /\ p \in Range(w) BY <1>1, <1>2 DEF Range
<1>8. w # <<>> BY <1>1
<1> QED BY <1>1, <1>3, <1>5, <1>6, <1>7, <1>8 DEF w

\* insert_full and its like: the page becomes the last of its ring.
LEMMA InsertPoints ==
  ASSUME NoPage \notin Descriptor, NEW m, NEW r, Points(m, r), NEW k \in RingKind, NEW p \in Descriptor,
         \A l \in RingKind : p \notin Range(r[l])
  PROVE  /\ Points(Insert(m, k, p), [r EXCEPT ![k] = Append(@, p)])
         /\ Insert(m, k, p).empty_count = m.empty_count
<1> DEFINE q == r[k]
           w == Append(q, p)
           t == Insert(m, k, p)
<1>1. /\ m \in Memory /\ q \in Seq(Descriptor) /\ IsInjective(q) /\ PointsAlong(m, k, q)
      /\ m.start[k] = (IF q = <<>> THEN NoPage ELSE q[1]) /\ Closed(m.next, m.prev, q)
      /\ p \notin Range(q)
  BY DEF Points, PointsAlong
<1>2. /\ w \in Seq(Descriptor) /\ IsInjective(w) /\ Range(w) = Range(q) \cup {p}
      /\ Len(w) = Len(q) + 1 /\ w # <<>>
      /\ w[1] = IF q = <<>> THEN p ELSE q[1]
  BY <1>1, Appended
<1>3. CASE q = <<>>
  <2> DEFINE a == set_prev(m, p, p)
             b == set_next(a, p, p)
  <2>1. /\ a \in Memory /\ a.start = m.start /\ a.empty_count = m.empty_count
        /\ a.next = m.next /\ a.prev = [m.prev EXCEPT ![p] = p]
    BY <1>1, SetPrev
  <2> HIDE DEF a
  <2>2. /\ b \in Memory /\ b.start = a.start /\ b.empty_count = a.empty_count
        /\ b.prev = a.prev /\ b.next = [a.next EXCEPT ![p] = p]
    BY <2>1, SetNext
  <2>3. t = [b EXCEPT !.start[k] = p] BY <1>1, <1>3 DEF Insert, a
  <2> HIDE DEF b, t
  <2>4. /\ t \in Memory /\ t.start = [b.start EXCEPT ![k] = p]
        /\ t.empty_count = b.empty_count /\ t.prev = b.prev /\ t.next = b.next
    BY <2>2, <2>3, SetStart
  <2>5. /\ t.next[p] = p /\ t.prev[p] = p /\ t.start[k] = p
        /\ \A l \in RingKind \ {k} : t.start[l] = m.start[l]
        /\ \A z \in Descriptor \ {p} : t.next[z] = m.next[z] /\ t.prev[z] = m.prev[z]
    BY <1>1, <2>1, <2>2, <2>4 DEF Memory
  <2>6. Closed(t.next, t.prev, w)
    <3>1. Len(w) = 1 /\ w[1] = p BY <1>2, <1>3
    <3>2. After(w, 1) = 1 BY <3>1 DEF After
    <3> QED BY <2>5, <3>1, <3>2 DEF Closed
  <2>7. PointsAlong(t, k, w) BY <1>2, <1>3, <2>5, <2>6 DEF PointsAlong
  <2>8. OthersKept(m, r, k, t, w)
    <3> SUFFICES ASSUME NEW l \in RingKind \ {k} PROVE
           /\ t.start[l] = m.start[l] /\ Range(r[l]) \cap Range(w) = {}
           /\ \A z \in Range(r[l]) : t.next[z] = m.next[z] /\ t.prev[z] = m.prev[z]
      BY DEF OthersKept
    <3>1. Range(r[l]) \cap Range(q) = {} /\ p \notin Range(r[l]) BY DEF Points
    <3>2. Range(r[l]) \subseteq Descriptor BY DEF Points, Range
    <3> QED BY <1>2, <2>5, <3>1, <3>2
  <2>9. Points(t, [r EXCEPT ![k] = w])
    <3> HIDE DEF w, q
    <3> QED BY <2>4, <2>7, <2>8, PointsFrom
  <2> QED BY <2>1, <2>2, <2>4, <2>9 DEF t
<1>4. CASE q # <<>>
  <2> DEFINE first == q[1]
             last == m.prev[first]
             a == set_prev(m, p, last)
             b == set_next(a, p, first)
             d == set_next(b, last, p)
  <2>0. /\ first \in Descriptor /\ last \in Descriptor /\ first \in Range(q) /\ last \in Range(q)
        /\ first # p /\ last # p
    <3>1. 1 \in 1 .. Len(q) BY <1>1, <1>4
    <3> HIDE DEF q, a, b, d, t, w
    <3>2. first \in Descriptor /\ last \in Descriptor /\ first \in Range(q) /\ last \in Range(q)
      BY <1>1, <3>1, Neighbours
    <3> QED BY <1>1, <3>2
  <2>3. t = set_prev(d, first, p)
    <3>1. first # NoPage BY <2>0
    <3> QED BY <1>1, <1>4, <3>1 DEF Insert
  <2> HIDE DEF t, first, last
  <2>1. /\ a \in Memory /\ a.start = m.start /\ a.empty_count = m.empty_count
        /\ a.next = m.next /\ a.prev = [m.prev EXCEPT ![p] = last]
    BY <1>1, <2>0, SetPrev
  <2> HIDE DEF a
  <2>2. /\ b \in Memory /\ b.start = a.start /\ b.empty_count = a.empty_count
        /\ b.prev = a.prev /\ b.next = [a.next EXCEPT ![p] = first]
    BY <2>0, <2>1, SetNext
  <2> HIDE DEF b
  <2>4. /\ d \in Memory /\ d.start = b.start /\ d.empty_count = b.empty_count
        /\ d.prev = b.prev /\ d.next = [b.next EXCEPT ![last] = p]
    BY <2>0, <2>2, SetNext
  <2> HIDE DEF d
  <2>5. /\ t \in Memory /\ t.start = d.start /\ t.empty_count = d.empty_count
        /\ t.next = d.next /\ t.prev = [d.prev EXCEPT ![first] = p]
    BY <2>0, <2>3, <2>4, SetPrev
  <2>6. m.next \in [Descriptor -> Descriptor \cup {NoPage}] /\ m.prev \in [Descriptor -> Descriptor \cup {NoPage}]
    BY <1>1 DEF Memory
  <2>7. /\ t.next[p] = first /\ t.prev[p] = last
        /\ \A z \in Descriptor \ {p} : /\ t.next[z] = IF z = last THEN p ELSE m.next[z]
                                  /\ t.prev[z] = IF z = first THEN p ELSE m.prev[z]
    BY <2>0, <2>1, <2>2, <2>4, <2>5, <2>6
  <2>8. t.start = m.start BY <2>1, <2>2, <2>4, <2>5
  <2>9. Range(q) \subseteq Descriptor BY <1>1 DEF Range
  <2>10. Closed(t.next, t.prev, w)
    <3>1. \A z \in Range(q) : /\ t.next[z] = IF z = m.prev[q[1]] THEN p ELSE m.next[z]
                              /\ t.prev[z] = IF z = q[1] THEN p ELSE m.prev[z]
      BY <1>1, <2>7, <2>9 DEF first, last
    <3>2. t.next[p] = q[1] /\ t.prev[p] = m.prev[q[1]] BY <2>7 DEF first, last
    <3> QED BY <1>1, <1>4, <3>1, <3>2, ClosedAppend
  <2>11. PointsAlong(t, k, w) BY <1>1, <1>2, <1>4, <2>8, <2>10 DEF PointsAlong
  <2>12. OthersKept(m, r, k, t, w)
    <3> SUFFICES ASSUME NEW l \in RingKind \ {k} PROVE
           /\ t.start[l] = m.start[l] /\ Range(r[l]) \cap Range(w) = {}
           /\ \A z \in Range(r[l]) : t.next[z] = m.next[z] /\ t.prev[z] = m.prev[z]
      BY DEF OthersKept
    <3>1. Range(r[l]) \cap Range(q) = {} /\ p \notin Range(r[l]) BY DEF Points
    <3>2. Range(r[l]) \subseteq Descriptor BY DEF Points, Range
    <3> QED BY <1>2, <2>0, <2>7, <2>8, <3>1, <3>2
  <2>13. Points(t, [r EXCEPT ![k] = w])
    <3> HIDE DEF w, q
    <3> QED BY <2>5, <2>11, <2>12, PointsFrom
  <2> QED BY <2>1, <2>2, <2>4, <2>5, <2>13 DEF t
<1> QED BY <1>3, <1>4

\* In t the neighbours p has in m are linked to each other.
Joined(m, p, t) ==
  \A z \in Descriptor : /\ t.next[z] = IF z = m.prev[p] THEN m.next[p] ELSE m.next[z]
                   /\ t.prev[z] = IF z = m.next[p] THEN m.prev[p] ELSE m.prev[z]

LEMMA JoinIs ==
  ASSUME NEW m \in Memory, NEW p \in Descriptor, m.next[p] \in Descriptor, m.prev[p] \in Descriptor
  PROVE  LET t == Join(m, p)
         IN  /\ t \in Memory /\ t.start = m.start /\ t.empty_count = m.empty_count
             /\ Joined(m, p, t) /\ t.next[p] = m.next[p]
<1> DEFINE x == m.next[p]
           y == m.prev[p]
           a == set_prev(m, x, y)
           t == Join(m, p)
<1>1. m.next \in [Descriptor -> Descriptor \cup {NoPage}] /\ m.prev \in [Descriptor -> Descriptor \cup {NoPage}]
  BY DEF Memory
<1>2. /\ a \in Memory /\ a.start = m.start /\ a.empty_count = m.empty_count
      /\ a.next = m.next /\ a.prev = [m.prev EXCEPT ![x] = y]
  BY SetPrev
<1>3. t = set_next(a, a.prev[p], a.next[p]) BY DEF Join
<1> HIDE DEF a, t
<1>4. a.prev[p] = y /\ a.next[p] = x BY <1>1, <1>2
<1>5. t = set_next(a, y, x) BY <1>3, <1>4
<1>6. /\ t \in Memory /\ t.start = a.start /\ t.empty_count = a.empty_count
      /\ t.prev = a.prev /\ t.next = [a.next EXCEPT ![y] = x]
  BY <1>2, <1>5, SetNext
<1>7. Joined(m, p, t) BY <1>1, <1>2, <1>6 DEF Joined
<1>8. t.next[p] = m.next[p] BY <1>1, <1>2, <1>6
<1> QED BY <1>2, <1>6, <1>7, <1>8 DEF t

LEMMA WithoutFirst ==
  ASSUME NEW D, NEW q \in Seq(D), Len(q) > 1, NEW i \in 1 .. Len(q)
  PROVE  /\ Without(q, i) # <<>>
         /\ Without(q, i)[1] = IF i = 1 THEN q[2] ELSE q[1]
<1>1. Len(q) \in Nat /\ 1 \in 1 .. Len(q) - 1 OBVIOUS
<1>2. Without(q, i)[1] = IF 1 < i THEN q[1] ELSE q[1 + 1] BY <1>1 DEF Without
<1>3. DOMAIN Without(q, i) = 1 .. Len(q) - 1 BY DEF Without
<1>4. Without(q, i) # <<>> BY <1>1, <1>3
<1> QED BY <1>2, <1>4

\* The i-th page has left ring k: its neighbours are joined, and the start is moved
\* on if it was the first one.
LEMMA RemovedPoints ==
  ASSUME NEW m, NEW r, Points(m, r), NEW k \in RingKind, NEW i \in 1 .. Len(r[k]),
         NEW t \in Memory, Joined(m, r[k][i], t),
         \A l \in RingKind \ {k} : t.start[l] = m.start[l],
         t.start[k] = IF Len(r[k]) = 1 THEN NoPage
                      ELSE IF i = 1 THEN m.next[r[k][1]] ELSE r[k][1]
  PROVE  Points(t, [r EXCEPT ![k] = Without(@, i)])
<1> DEFINE q == r[k]
           w == Without(q, i)
           p == q[i]
<1>1. /\ m \in Memory /\ q \in Seq(Descriptor) /\ IsInjective(q) /\ PointsAlong(m, k, q)
      /\ Closed(m.next, m.prev, q)
  BY DEF Points, PointsAlong
<1>2. /\ w \in Seq(Descriptor) /\ IsInjective(w) /\ Len(w) = Len(q) - 1
      /\ Range(w) = Range(q) \ {p}
  BY <1>1, WithoutIs
<1>3. Range(q) \subseteq Descriptor /\ Len(q) \in Nat \ {0} /\ DOMAIN q = 1 .. Len(q)
  BY <1>1 DEF Range
<1>4. Closed(t.next, t.prev, w)
  <2>1. \A z \in Range(q) \ {q[i]} :
           /\ t.next[z] = IF z = m.prev[q[i]] THEN m.next[q[i]] ELSE m.next[z]
           /\ t.prev[z] = IF z = m.next[q[i]] THEN m.prev[q[i]] ELSE m.prev[z]
    BY <1>3 DEF Joined
  <2> QED BY <1>1, <2>1, ClosedWithout
<1>5. t.start[k] = IF w = <<>> THEN NoPage ELSE w[1]
  <2>1. CASE Len(q) = 1
    <3>1. w = <<>> BY <1>2, <2>1
    <3> QED BY <2>1, <3>1
  <2>2. CASE Len(q) # 1 /\ i = 1
    <3>1. w # <<>> /\ w[1] = q[2]
      <4>1. Len(q) > 1
        <5> DEFINE n == Len(q)
        <5>1. n \in Nat \ {0} /\ n # 1 BY <1>3, <2>2
        <5> HIDE DEF n
        <5>2. n > 1 BY <5>1
        <5> QED BY <5>2 DEF n
      <4>2. q \in Seq(Descriptor) /\ i \in 1 .. Len(q) BY <1>1
      <4> HIDE DEF q
      <4> QED BY <2>2, <4>1, <4>2, WithoutFirst
    <3>2. After(q, 1) = 2 BY <2>2 DEF After
    <3>3. m.next[q[1]] = q[2] BY <1>1, <1>3, <2>2, <3>2 DEF Closed
    <3> QED BY <2>2, <3>1, <3>3
  <2>3. CASE Len(q) # 1 /\ i # 1
    <3>1. w # <<>> /\ w[1] = q[1]
      <4>1. Len(q) > 1
        <5> DEFINE n == Len(q)
        <5>1. n \in Nat \ {0} /\ n # 1 BY <1>3, <2>3
        <5> HIDE DEF n
        <5>2. n > 1 BY <5>1
        <5> QED BY <5>2 DEF n
      <4>2. q \in Seq(Descriptor) /\ i \in 1 .. Len(q) BY <1>1
      <4> HIDE DEF q
      <4> QED BY <2>3, <4>1, <4>2, WithoutFirst
    <3> QED BY <2>3, <3>1
  <2> QED BY <2>1, <2>2, <2>3
<1>6. PointsAlong(t, k, w) BY <1>2, <1>4, <1>5 DEF PointsAlong
<1>7. OthersKept(m, r, k, t, w)
  <2> SUFFICES ASSUME NEW l \in RingKind \ {k}
               PROVE  /\ t.start[l] = m.start[l] /\ Range(r[l]) \cap Range(w) = {}
                      /\ \A z \in Range(r[l]) : t.next[z] = m.next[z] /\ t.prev[z] = m.prev[z]
    BY DEF OthersKept
  <2>1. Range(r[l]) \cap Range(q) = {} /\ Range(r[l]) \subseteq Descriptor
    <3>1. Range(r[l]) \cap Range(q) = {} /\ r[l] \in Seq(Descriptor) BY DEF Points
    <3>2. \A D : \A z \in Seq(D) : Range(z) \subseteq D BY DEF Range
    <3> QED BY <3>1, <3>2
  <2>2. m.next[p] \in Range(q) /\ m.prev[p] \in Range(q) BY <1>1, Neighbours
  <2> QED BY <1>2, <2>1, <2>2 DEF Joined
<1>8. Points(t, [r EXCEPT ![k] = w])
  <2> HIDE DEF w, q
  <2> QED BY <1>6, <1>7, PointsFrom
<1> QED BY <1>8

\* The page of a ring that links to itself is alone.
LEMMA AloneIs ==
  ASSUME NEW m, NEW r, Points(m, r), NEW k \in RingKind, r[k] # <<>>
  PROVE  /\ m.start[k] = r[k][1] /\ 1 \in 1 .. Len(r[k])
         /\ m.next[r[k][1]] = r[k][1] <=> Len(r[k]) = 1
<1> DEFINE q == r[k]
<1>1. /\ q \in Seq(Descriptor) /\ IsInjective(q) /\ q # <<>> /\ m.start[k] = q[1]
      /\ Closed(m.next, m.prev, q)
  BY DEF Points, PointsAlong
<1> HIDE DEF q
<1>2. Len(q) \in Nat \ {0} /\ DOMAIN q = 1 .. Len(q) /\ 1 \in 1 .. Len(q) BY <1>1
<1>3. m.next[q[1]] = q[After(q, 1)] BY <1>1, <1>2 DEF Closed
<1>4. CASE Len(q) = 1 BY <1>1, <1>2, <1>3, <1>4 DEF After, q
<1>5. CASE Len(q) # 1
  <2>1. After(q, 1) = 2 /\ 2 \in 1 .. Len(q) BY <1>2, <1>5 DEF After
  <2>2. q[2] # q[1] BY <1>1, <1>2, <2>1 DEF IsInjective
  <2> QED BY <1>1, <1>2, <1>3, <1>5, <2>1, <2>2 DEF q
<1> QED BY <1>4, <1>5

\* remove_full, remove_partial and remove_uninit: the page leaves its ring, wherever
\* it is in it.
LEMMA RemovePoints ==
  ASSUME NEW m, NEW r, Points(m, r), NEW k \in RingKind, NEW i \in 1 .. Len(r[k])
  PROVE  LET t == RemovePage(m, k, r[k][i])
         IN  /\ Points(t, [r EXCEPT ![k] = Without(@, i)])
             /\ t.empty_count = m.empty_count
<1> DEFINE q == r[k]
           p == q[i]
           j == Join(m, p)
           t == RemovePage(m, k, p)
<1>1. /\ m \in Memory /\ q \in Seq(Descriptor) /\ IsInjective(q) /\ PointsAlong(m, k, q) /\ q # <<>>
  BY DEF Points, PointsAlong
<1>2. /\ m.start[k] = q[1] /\ 1 \in 1 .. Len(q)
      /\ m.next[q[1]] = q[1] <=> Len(q) = 1
  BY <1>1, AloneIs
<1>3. p \in Descriptor /\ m.next[p] \in Descriptor /\ m.prev[p] \in Descriptor BY <1>1, Neighbours
<1>4. /\ j \in Memory /\ j.start = m.start /\ j.empty_count = m.empty_count
      /\ Joined(m, p, j) /\ j.next[p] = m.next[p]
  BY <1>1, <1>3, JoinIs
<1>5. p = q[1] <=> i = 1
  BY <1>1, <1>2 DEF IsInjective
<1>6. m.start \in [RingKind -> Descriptor \cup {NoPage}] BY <1>1 DEF Memory
<1>7. t = (IF Len(q) = 1 THEN [m EXCEPT !.start[k] = NoPage]
           ELSE IF i = 1 THEN [j EXCEPT !.start[k] = m.next[q[1]]] ELSE j)
  BY <1>2, <1>4, <1>5 DEF RemovePage
<1> HIDE DEF t, j
<1>8. CASE Len(q) = 1
  <2>1. i = 1 /\ p = q[1] /\ After(q, i) = 1 /\ Before(q, i) = 1
    BY <1>8 DEF After, Before
  <2>2. m.next[p] = p /\ m.prev[p] = p BY <1>1, <2>1, Neighbours
  <2>3. /\ t \in Memory /\ t.start = [m.start EXCEPT ![k] = NoPage]
        /\ t.empty_count = m.empty_count /\ t.prev = m.prev /\ t.next = m.next
    BY <1>1, <1>7, <1>8, SetStart
  <2>4. Joined(m, p, t) BY <2>2, <2>3 DEF Joined
  <2>5. /\ t.start[k] = IF Len(q) = 1 THEN NoPage
                        ELSE IF i = 1 THEN m.next[q[1]] ELSE q[1]
        /\ \A l \in RingKind \ {k} : t.start[l] = m.start[l]
    BY <1>6, <1>8, <2>3
  <2>6. Points(t, [r EXCEPT ![k] = Without(@, i)]) BY <2>3, <2>4, <2>5, RemovedPoints
  <2> QED BY <2>3, <2>6 DEF t
<1>9. CASE Len(q) # 1 /\ i = 1
  <2>1. /\ t \in Memory /\ t.start = [j.start EXCEPT ![k] = m.next[q[1]]]
        /\ t.empty_count = j.empty_count /\ t.prev = j.prev /\ t.next = j.next
    BY <1>3, <1>4, <1>5, <1>7, <1>9, SetStart
  <2>2. Joined(m, p, t) BY <1>4, <2>1 DEF Joined
  <2>3. t.start[k] = m.next[q[1]] /\ \A l \in RingKind \ {k} : t.start[l] = m.start[l]
    BY <1>4, <1>6, <2>1
  <2>4. Points(t, [r EXCEPT ![k] = Without(@, i)]) BY <1>9, <2>1, <2>2, <2>3, RemovedPoints, ZenonT(40)
  <2> QED BY <1>4, <2>1, <2>4 DEF t
<1>10. CASE Len(q) # 1 /\ i # 1
  <2>1. t = j BY <1>7, <1>10
  <2>2. Points(t, [r EXCEPT ![k] = Without(@, i)])
    BY <1>2, <1>4, <1>10, <2>1, RemovedPoints
  <2> QED BY <1>4, <2>1, <2>2 DEF t
<1> QED BY <1>8, <1>9, <1>10

\* remove_empty: the first of the pages the counter counts leaves.
LEMMA RemoveEmptyPoints ==
  ASSUME NEW m, NEW r, Points(m, r), r["empty"] # <<>>, m.empty_count = Len(r["empty"])
  PROVE  LET t == remove_empty(m)
         IN  /\ Points(t, [r EXCEPT !["empty"] = Without(@, 1)])
             /\ t.empty_count = Len(r["empty"]) - 1
<1> DEFINE q == r["empty"]
           p == q[1]
           j == Join(m, p)
           x == IF m.empty_count > 1 THEN m.next[p] ELSE NoPage
           u == [j EXCEPT !.start["empty"] = x]
           t == remove_empty(m)
<1>0. "empty" \in RingKind BY DEF RingKind
<1>1. m \in Memory /\ q \in Seq(Descriptor) /\ PointsAlong(m, "empty", q) /\ q # <<>>
  BY <1>0 DEF Points, PointsAlong
<1>2. m.start["empty"] = q[1] /\ 1 \in 1 .. Len(q) BY <1>0, <1>1, AloneIs
<1>3. p \in Descriptor /\ m.next[p] \in Descriptor /\ m.prev[p] \in Descriptor
  BY <1>0, <1>1, <1>2, Neighbours
<1>4. /\ j \in Memory /\ j.start = m.start /\ j.empty_count = m.empty_count
      /\ Joined(m, p, j) /\ j.next[p] = m.next[p]
  BY <1>1, <1>3, JoinIs
<1>5. /\ u \in Memory /\ u.start = [j.start EXCEPT !["empty"] = x]
      /\ u.empty_count = j.empty_count /\ u.prev = j.prev /\ u.next = j.next
  BY <1>0, <1>3, <1>4, SetStart
<1>6. m.start \in [RingKind -> Descriptor \cup {NoPage}] /\ m.empty_count = Len(q) /\ Len(q) \in Nat \ {0}
  BY <1>1 DEF Memory
<1>7. /\ t \in Memory /\ t.start = u.start /\ t.prev = u.prev /\ t.next = u.next
      /\ t.empty_count = Len(q) - 1
  <2>1. t = [j EXCEPT !.start["empty"] = x, !.empty_count = @ - 1]
    BY <1>2, <1>4 DEF remove_empty
  <2>2. t = [u EXCEPT !.empty_count = Len(q) - 1]
    <3>1. j.empty_count = Len(q) BY <1>4, <1>6
    <3> HIDE DEF j, x, t, q
    <3> QED BY <1>4, <2>1, <3>1 DEF Memory
  <2> HIDE DEF j, x, t, u, q
  <2> QED BY <1>5, <1>6, <2>2 DEF Memory
<1> HIDE DEF t, u, j
<1>8. Joined(m, p, t) BY <1>4, <1>5, <1>7 DEF Joined
<1>9. /\ t.start["empty"] = IF Len(q) = 1 THEN NoPage ELSE m.next[p]
      /\ \A l \in RingKind \ {"empty"} : t.start[l] = m.start[l]
  <2>1. t.start = [m.start EXCEPT !["empty"] = x] BY <1>4, <1>5, <1>7
  <2>2. x = IF Len(q) = 1 THEN NoPage ELSE m.next[p]
    <3>1. m.empty_count > 1 <=> Len(q) # 1
      <4> DEFINE n == Len(q)
      <4>1. m.empty_count = n /\ n \in Nat \ {0} BY <1>6
      <4> HIDE DEF n
      <4>2. m.empty_count > 1 <=> n # 1 BY <4>1
      <4> QED BY <4>2 DEF n
    <3> QED BY <3>1
  <2> HIDE DEF x, q
  <2> QED BY <1>0, <1>6, <2>1, <2>2
<1>10. Points(t, [r EXCEPT !["empty"] = Without(@, 1)])
  BY <1>0, <1>2, <1>7, <1>8, <1>9, RemovedPoints
<1> QED BY <1>7, <1>10 DEF t

\* What Walk meets in the memory m.
WalkOf(m, k) ==
  LET at[i \in 1 .. PageLimit] == IF i = 1 THEN m.start[k] ELSE m.next[at[i - 1]]
      n == CHOOSE n \in 1 .. PageLimit :
             /\ n = PageLimit \/ m.next[at[n]] = m.start[k]
             /\ \A i \in 1 .. n - 1 : m.next[at[i]] # m.start[k]
  IN  IF m.start[k] = NoPage THEN <<>> ELSE [i \in 1 .. n |-> at[i]]

\* A ring has no more pages than there are.
LEMMA RingFits ==
  ASSUME PageLimit \in Nat, NEW q \in Seq(Descriptor), IsInjective(q)
  PROVE  Len(q) <= PageLimit
<1> DEFINE n == Len(q)
<1>1. n \in Nat /\ DOMAIN q = 1 .. n OBVIOUS
<1>2. q \in Injection(1 .. n, Descriptor) BY <1>1 DEF IsInjective, Injection
<1> HIDE DEF n
<1>3. IsFiniteSet(Descriptor) /\ Cardinality(Descriptor) = PageLimit
  <2>1. Descriptor = 1 .. PageLimit BY DEF Descriptor
  <2>2. 1 \in Int /\ PageLimit \in Int OBVIOUS
  <2>3. IsFiniteSet(1 .. PageLimit)
        /\ Cardinality(1 .. PageLimit) = IF 1 > PageLimit THEN 0 ELSE PageLimit - 1 + 1
    BY <2>2, FS_Interval
  <2> QED BY <2>1, <2>3
<1>4. IsFiniteSet(1 .. n) /\ Cardinality(1 .. n) = n
  <2>1. 1 \in Int /\ n \in Int BY <1>1
  <2>2. IsFiniteSet(1 .. n) /\ Cardinality(1 .. n) = IF 1 > n THEN 0 ELSE n - 1 + 1
    BY <2>1, FS_Interval
  <2> QED BY <1>1, <2>2
<1>5. n <= PageLimit BY <1>2, <1>3, <1>4, FS_Injection
<1> QED BY <1>5 DEF n

\* Walk meets the pages of a ring, each once and in their order.
LEMMA WalkIs ==
  ASSUME PageLimit \in Nat, NoPage \notin Descriptor,
         NEW m \in Memory, NEW k \in RingKind, NEW q, PointsAlong(m, k, q)
  PROVE  WalkOf(m, k) = q
<1>1. /\ q \in Seq(Descriptor) /\ IsInjective(q) /\ Closed(m.next, m.prev, q)
      /\ m.start[k] = IF q = <<>> THEN NoPage ELSE q[1]
  BY DEF PointsAlong
<1>2. CASE q = <<>> BY <1>1, <1>2 DEF WalkOf
<1>3. CASE q # <<>>
  <2> DEFINE L == Len(q)
             g == [i \in 1 .. PageLimit |-> q[((i - 1) % L) + 1]]
             f == CHOOSE h : h = [i \in 1 .. PageLimit |->
                                    IF i = 1 THEN m.start[k] ELSE m.next[h[i - 1]]]
             Final(n) == /\ n = PageLimit \/ m.next[f[n]] = m.start[k]
                        /\ \A i \in 1 .. n - 1 : m.next[f[i]] # m.start[k]
             w == CHOOSE n \in 1 .. PageLimit : Final(n)
  <2>1. L \in Nat \ {0} /\ L <= PageLimit /\ DOMAIN q = 1 .. L
    BY <1>1, <1>3, RingFits
  <2>2. m.start[k] = q[1] /\ q[1] # NoPage /\ \A i \in 1 .. L : q[i] \in Descriptor
    BY <1>1, <1>3
  <2>3. \A i \in 1 .. PageLimit : g[i] = IF i = 1 THEN m.start[k] ELSE m.next[g[i - 1]]
    <3> SUFFICES ASSUME NEW i \in 1 .. PageLimit
                 PROVE  g[i] = IF i = 1 THEN m.start[k] ELSE m.next[g[i - 1]]
      OBVIOUS
    <3>1. CASE i = 1
      <4>1. 0 % L = 0 BY <2>1, Small
      <4>2. g[1] = q[(0 % L) + 1] BY <3>1
      <4> QED BY <2>2, <3>1, <4>1, <4>2
    <3>2. CASE i # 1
      <4>1. i - 1 \in Nat \ {0} /\ i - 1 \in 1 .. PageLimit /\ i - 2 \in Nat
            /\ (i - 1) - 1 = i - 2
        BY <3>2
      <4> DEFINE v == (i - 2) % L
      <4>2. v \in 0 .. L - 1 BY <2>1, <4>1, Division
      <4>3. (i - 1) % L = IF ((i - 1) - 1) % L = L - 1 THEN 0 ELSE (((i - 1) - 1) % L) + 1
        BY <2>1, <4>1, RemainderStep
      <4>4. (i - 1) % L = IF v = L - 1 THEN 0 ELSE v + 1 BY <4>1, <4>3
      <4>5. g[i] = q[((i - 1) % L) + 1] OBVIOUS
      <4>6. g[i - 1] = q[v + 1] BY <4>1
      <4> HIDE DEF v, g
      <4>7. ((i - 1) % L) + 1 = After(q, v + 1) /\ v + 1 \in 1 .. L
        <5>1. After(q, v + 1) = IF v + 1 = L THEN 1 ELSE v + 1 + 1 BY DEF After
        <5>2. v \in 0 .. L - 1 /\ L \in Nat BY <2>1, <4>2
        <5> HIDE DEF L
        <5> QED BY <4>4, <5>1, <5>2
      <4>8. m.next[q[v + 1]] = q[After(q, v + 1)] BY <1>1, <4>7 DEF Closed
      <4> QED BY <3>2, <4>5, <4>6, <4>7, <4>8
    <3> QED BY <3>1, <3>2
  <2>4. g = [i \in 1 .. PageLimit |-> IF i = 1 THEN m.start[k] ELSE m.next[g[i - 1]]]
    BY <2>3
  <2>5. \A i \in 1 .. L : g[i] = q[i]
    <3> SUFFICES ASSUME NEW i \in 1 .. L PROVE g[i] = q[i] OBVIOUS
    <3>1. i \in 1 .. PageLimit /\ i - 1 \in Nat /\ i - 1 < L BY <2>1
    <3>2. (i - 1) % L = i - 1 BY <2>1, <3>1, Small
    <3>3. g[i] = q[((i - 1) % L) + 1] BY <3>1, SMTT(30)
    <3> QED BY <3>1, <3>2, <3>3
  <2> HIDE DEF g
  <2>6. f = [i \in 1 .. PageLimit |-> IF i = 1 THEN m.start[k] ELSE m.next[f[i - 1]]]
    BY <2>4
  <2>7. WalkOf(m, k) = [i \in 1 .. w |-> f[i]]
    BY <2>2 DEF WalkOf
  <2> HIDE DEF f, w
  <2>8. 0 .. L - 1 \subseteq {j \in 0 .. L - 1 : f[j + 1] = g[j + 1]}
    <3> DEFINE T == {j \in 0 .. L - 1 : f[j + 1] = g[j + 1]}
    <3>1. 0 \in T
      <4>1. 1 \in 1 .. PageLimit BY <2>1
      <4>2. f[1] = m.start[k] /\ g[1] = m.start[k] BY <2>3, <2>6, <4>1
      <4>3. f[0 + 1] = g[0 + 1] BY <4>2
      <4> QED BY <2>1, <4>3
    <3>2. \A j \in 0 .. (L - 1) - 1 : j \in T => j + 1 \in T
      <4> SUFFICES ASSUME NEW j \in 0 .. (L - 1) - 1, j \in T PROVE j + 1 \in T OBVIOUS
      <4>1. j + 1 \in 0 .. L - 1 /\ (j + 1) + 1 \in 1 .. PageLimit
            /\ (j + 1) + 1 # 1 /\ ((j + 1) + 1) - 1 = j + 1
        BY <2>1
      <4>2. f[(j + 1) + 1] = m.next[f[j + 1]] BY <2>6, <4>1
      <4>3. g[(j + 1) + 1] = m.next[g[j + 1]] BY <2>3, <4>1
      <4> QED BY <4>1, <4>2, <4>3
    <3>3. L - 1 \in Nat BY <2>1
    <3> QED BY <3>1, <3>2, <3>3, Upwards
  <2>9. \A i \in 1 .. L : f[i] = q[i]
    <3> SUFFICES ASSUME NEW i \in 1 .. L PROVE f[i] = q[i] OBVIOUS
    <3>1. i - 1 \in 0 .. L - 1 /\ (i - 1) + 1 = i BY <2>1
    <3>2. f[(i - 1) + 1] = g[(i - 1) + 1] BY <2>8, <3>1
    <3> QED BY <2>5, <3>1, <3>2
  <2>10. \A i \in 1 .. L : m.next[f[i]] = m.start[k] <=> i = L
    <3> SUFFICES ASSUME NEW i \in 1 .. L PROVE m.next[f[i]] = m.start[k] <=> i = L OBVIOUS
    <3>1. m.next[f[i]] = q[After(q, i)] BY <1>1, <2>9 DEF Closed
    <3>2. After(q, i) \in 1 .. L /\ 1 \in 1 .. L BY <1>1, <2>1, Around
    <3>3. q[After(q, i)] = q[1] <=> After(q, i) = 1 BY <1>1, <2>1, <3>2 DEF IsInjective
    <3>4. After(q, i) = 1 <=> i = L
      <4>1. After(q, i) = IF i = L THEN 1 ELSE i + 1 BY DEF After
      <4> HIDE DEF L
      <4> QED BY <2>1, <4>1
    <3> QED BY <2>2, <3>1, <3>3, <3>4
  <2>11. L \in 1 .. PageLimit /\ Final(L)
    <3> HIDE DEF L
    <3> QED BY <2>1, <2>10
  <2>12. ASSUME NEW n \in 1 .. PageLimit, Final(n) PROVE n = L
    <3> HIDE DEF L
    <3>1. CASE n < L BY <2>1, <2>10, <2>12, <3>1
    <3>2. CASE L < n
      <4>1. L \in 1 .. n - 1 /\ L \in 1 .. L BY <2>1, <3>2
      <4> QED BY <2>10, <2>12, <4>1
    <3> QED BY <2>1, <3>1, <3>2
  <2>13. w = L BY <2>11, <2>12 DEF w
  <2>14. [i \in 1 .. L |-> f[i]] = [i \in 1 .. L |-> q[i]] BY <2>9
  <2>15. q = [i \in 1 .. L |-> q[i]] BY <1>1, <2>1
  <2> QED BY <2>7, <2>13, <2>14, <2>15
<1> QED BY <1>2, <1>3

-----------------------------------------------------------------------------
\* The state of PageRings, and the rings r that it stands for.
HasRings(m, o, f, r) ==
  /\ Points(m, r) /\ m.empty_count = Len(r["empty"])
  /\ f \in 0 .. PageLimit /\ \A k \in RingKind : Range(r[k]) \subseteq 1 .. f
  /\ o \in [Descriptor -> Marks]
  /\ \A p \in Descriptor : \A k \in RingKind : o[p] = k <=> p \in Range(r[k])

\* The i-th page of ring k has gone to the end of ring l.
Turned(r, k, l, i) == [r EXCEPT ![k] = Without(@, i), ![l] = Append(@, r[k][i])]

LEMMA RingsAre ==
  ASSUME NEW m, NEW o, NEW f, NEW r, HasRings(m, o, f, r)
  PROVE  [k \in RingKind |-> WalkOf(m, k)] = r
<1>1. NoPage \notin Descriptor /\ PageLimit \in Nat BY RingsAssumption
<1>2. m \in Memory /\ r \in [RingKind -> Seq(Descriptor)] /\ \A k \in RingKind : PointsAlong(m, k, r[k])
  BY DEF HasRings, Points
<1>3. \A k \in RingKind : WalkOf(m, k) = r[k] BY <1>1, <1>2, WalkIs
<1> QED BY <1>2, <1>3

LEMMA RemoveAtIs ==
  ASSUME NEW D, NEW q \in Seq(D), NEW i \in 1 .. Len(q)
  PROVE  SubSeq(q, 1, i - 1) \o SubSeq(q, i + 1, Len(q)) = Without(q, i)
<1> DEFINE n == Len(q)
           a == SubSeq(q, 1, i - 1)
           b == SubSeq(q, i + 1, n)
           s == a \o b
<1>1. n \in Nat /\ i \in Nat /\ i >= 1 /\ i <= n /\ \A j \in 1 .. n : q[j] \in D OBVIOUS
<1>2. a \in Seq(D) /\ Len(a) = i - 1 /\ \A j \in 1 .. i - 1 : a[j] = q[j] BY <1>1
<1>3. b \in Seq(D) /\ Len(b) = n - i /\ \A j \in 1 .. n - i : b[j] = q[i + j] BY <1>1
<1> HIDE DEF a, b
<1>5. /\ s \in Seq(D) /\ Len(s) = n - 1
      /\ \A j \in 1 .. n - 1 : s[j] = IF j < i THEN q[j] ELSE q[j + 1]
  <2>1. s \in Seq(D) /\ Len(s) = Len(a) + Len(b)
    <3>1. a \in Seq(D) /\ b \in Seq(D) BY <1>2, <1>3
    <3> QED BY <3>1
  <2>2. \A j \in 1 .. Len(a) + Len(b) : s[j] = IF j <= Len(a) THEN a[j] ELSE b[j - Len(a)]
    BY <1>2, <1>3
  <2> HIDE DEF s, n
  <2>3. Len(s) = n - 1 BY <1>1, <1>2, <1>3, <2>1
  <2>4. ASSUME NEW j \in 1 .. n - 1 PROVE s[j] = IF j < i THEN q[j] ELSE q[j + 1]
    <3>1. s[j] = IF j <= i - 1 THEN a[j] ELSE b[j - (i - 1)] BY <1>1, <1>2, <1>3, <2>2
    <3>2. CASE j < i BY <1>1, <1>2, <3>1, <3>2
    <3>3. CASE ~ (j < i)
      <4>1. j - (i - 1) \in 1 .. n - i /\ i + (j - (i - 1)) = j + 1 BY <1>1, <3>3
      <4>2. b[j - (i - 1)] = q[j + 1] BY <1>3, <4>1
      <4> QED BY <1>1, <3>1, <3>3, <4>2
    <3> QED BY <3>2, <3>3
  <2> QED BY <2>1, <2>3, <2>4
<1> HIDE DEF s
<1>6. s = [j \in 1 .. n - 1 |-> IF j < i THEN q[j] ELSE q[j + 1]] BY <1>1, <1>5
<1> QED BY <1>6 DEF Without, s, a, b

\* What the code does to one page is a Move of Rings.
LEMMA MoveMaps ==
  ASSUME NEW r, NEW t, HasRings(mem, on, fresh, r),
         HasRings(mem', on', fresh', t), NEW k \in RingKind, NEW l \in RingKind, k # l,
         NEW i \in 1 .. Len(r[k]), t = Turned(r, k, l, i)
  PROVE  Abstract!Move(k, l, i)
<1>1. [h \in RingKind |-> WalkOf(mem, h)] = r BY RingsAre
<1>2. [h \in RingKind |-> WalkOf(mem', h)] = t BY RingsAre
<1>3. RingKind = RingKind BY DEF RingKind
<1>4. \A h : Walk(h) = WalkOf(mem, h) BY DEF Walk, WalkOf
<1>5. \A h : Walk(h)' = WalkOf(mem', h) BY DEF Walk, WalkOf
<1>6. r \in [RingKind -> Seq(Descriptor)] BY DEF HasRings, Points
<1>7. Abstract!RemoveAt(r[k], i) = Without(r[k], i)
  BY <1>6, RemoveAtIs DEF Abstract!RemoveAt
<1>8. t = [r EXCEPT ![k] = Abstract!RemoveAt(@, i), ![l] = Append(@, r[k][i])]
  BY <1>6, <1>7 DEF Turned
<1>9. [h \in RingKind |-> Walk(h)] = r BY <1>1, <1>3, <1>4
<1>10. [h \in RingKind |-> Walk(h)]' = t BY <1>2, <1>3, <1>5
<1> QED BY <1>8, <1>9, <1>10 DEF Abstract!Move

\* The sequences that Walk finds are r.
LEMMA AbstractIs ==
  ASSUME NEW r, HasRings(mem, on, fresh, r)
  PROVE  [h \in RingKind |-> Walk(h)] = r
<1>1. [h \in RingKind |-> WalkOf(mem, h)] = r BY RingsAre
<1>2. RingKind = RingKind BY DEF RingKind
<1>3. \A h : Walk(h) = WalkOf(mem, h) BY DEF Walk, WalkOf
<1> QED BY <1>1, <1>2, <1>3

LEMMA TurnedIs ==
  ASSUME NEW r \in [RingKind -> Seq(Descriptor)], NEW k \in RingKind, NEW l \in RingKind, k # l,
         NEW i \in 1 .. Len(r[k])
  PROVE  LET t == Turned(r, k, l, i)
         IN  /\ t[k] = Without(r[k], i) /\ t[l] = Append(r[l], r[k][i])
             /\ \A h \in RingKind \ {k, l} : t[h] = r[h]
             /\ t = [[r EXCEPT ![k] = Without(@, i)] EXCEPT ![l] = Append(@, r[k][i])]
BY DEF Turned

Removed(r, k, i) == [r EXCEPT ![k] = Without(@, i)]

\* A page that was removed from ring k is inserted in ring l.
LEMMA TurnPoints ==
  ASSUME NoPage \notin Descriptor, NEW m, NEW r, Points(m, r), NEW k \in RingKind, NEW l \in RingKind, k # l,
         NEW i \in 1 .. Len(r[k]), NEW a, Points(a, Removed(r, k, i))
  PROVE  LET t == Insert(a, l, r[k][i])
         IN  Points(t, Turned(r, k, l, i)) /\ t.empty_count = a.empty_count
<1> DEFINE s == [r EXCEPT ![k] = Without(@, i)]
           p == r[k][i]
<1>1. r \in [RingKind -> Seq(Descriptor)] /\ IsInjective(r[k]) /\ r[k] \in Seq(Descriptor)
  BY DEF Points, PointsAlong
<1>2. p \in Descriptor /\ p \in Range(r[k]) BY <1>1 DEF Range
<1>3. Range(Without(r[k], i)) = Range(r[k]) \ {p} BY <1>1, WithoutIs
<1>4. \A h \in RingKind : p \notin Range(s[h])
  <2> SUFFICES ASSUME NEW h \in RingKind PROVE p \notin Range(s[h]) OBVIOUS
  <2>1. CASE h = k BY <1>1, <1>3, <2>1
  <2>2. CASE h # k
    <3>1. Range(r[h]) \cap Range(r[k]) = {} BY <2>2 DEF Points
    <3> QED BY <1>1, <1>2, <2>2, <3>1
  <2> QED BY <2>1, <2>2
<1>5. Turned(r, k, l, i) = [s EXCEPT ![l] = Append(@, p)] BY <1>1, TurnedIs
<1>6. Points(a, s) BY DEF Removed
<1> HIDE DEF s, p
<1>7. /\ Points(Insert(a, l, p), [s EXCEPT ![l] = Append(@, p)])
      /\ Insert(a, l, p).empty_count = a.empty_count
  BY <1>2, <1>4, <1>6, InsertPoints
<1> QED BY <1>5, <1>7 DEF p

\* What RemovePage leaves.
LEMMA RemovedRings ==
  ASSUME NoPage \notin Descriptor, NEW m, NEW r, Points(m, r), NEW k \in RingKind, NEW i \in 1 .. Len(r[k])
  PROVE  /\ Points(RemovePage(m, k, r[k][i]), Removed(r, k, i))
         /\ RemovePage(m, k, r[k][i]).empty_count = m.empty_count
BY RemovePoints DEF Removed

LEMMA RemoveTurns ==
  ASSUME NoPage \notin Descriptor, NEW m, NEW r, Points(m, r), NEW k \in RingKind, NEW l \in RingKind, k # l,
         NEW i \in 1 .. Len(r[k])
  PROVE  LET t == Insert(RemovePage(m, k, r[k][i]), l, r[k][i])
         IN  Points(t, Turned(r, k, l, i)) /\ t.empty_count = m.empty_count
<1> DEFINE a == RemovePage(m, k, r[k][i])
<1>1. /\ Points(a, Removed(r, k, i))
      /\ a.empty_count = m.empty_count
  BY RemovedRings
<1> HIDE DEF a
<1>2. /\ Points(Insert(a, l, r[k][i]), Turned(r, k, l, i))
      /\ Insert(a, l, r[k][i]).empty_count = a.empty_count
  BY <1>1, TurnPoints
<1> QED BY <1>1, <1>2 DEF a

LEMMA CountPoints ==
  ASSUME NEW m, NEW r, Points(m, r), NEW n \in Nat
  PROVE  LET t == [m EXCEPT !.empty_count = n]
         IN  Points(t, r) /\ t.empty_count = n
<1> DEFINE t == [m EXCEPT !.empty_count = n]
<1>1. m \in Memory BY DEF Points
<1>2. /\ t \in Memory /\ t.start = m.start /\ t.next = m.next /\ t.prev = m.prev
      /\ t.empty_count = n
  BY <1>1 DEF Memory
<1> HIDE DEF t
<1>3. \A k \in RingKind : PointsAlong(t, k, r[k]) BY <1>2 DEF Points, PointsAlong
<1> QED BY <1>2, <1>3 DEF Points, t

\* The state after a page has gone from ring k to ring l.
LEMMA TurnKeeps ==
  ASSUME NEW m, NEW o, NEW f, NEW r, HasRings(m, o, f, r),
         NEW k \in RingKind, NEW l \in RingKind, k # l, NEW i \in 1 .. Len(r[k]),
         NEW t, Points(t, Turned(r, k, l, i)),
         t.empty_count = Len(Turned(r, k, l, i)["empty"])
  PROVE  HasRings(t, [o EXCEPT ![r[k][i]] = l], f, Turned(r, k, l, i))
<1> DEFINE s == Turned(r, k, l, i)
           p == r[k][i]
           u == [o EXCEPT ![p] = l]
<1>1. /\ r \in [RingKind -> Seq(Descriptor)] /\ \A h \in RingKind : IsInjective(r[h]) /\ r[h] \in Seq(Descriptor)
      /\ \A g, h \in RingKind : g # h => Range(r[g]) \cap Range(r[h]) = {}
      /\ o \in [Descriptor -> Marks] /\ f \in 0 .. PageLimit
      /\ \A h \in RingKind : Range(r[h]) \subseteq 1 .. f
      /\ \A x \in Descriptor : \A h \in RingKind : o[x] = h <=> x \in Range(r[h])
  BY DEF HasRings, Points, PointsAlong
<1>2. /\ s[k] = Without(r[k], i) /\ s[l] = Append(r[l], p)
      /\ \A h \in RingKind \ {k, l} : s[h] = r[h]
  BY <1>1, TurnedIs
<1>3. p \in Descriptor /\ p \in Range(r[k]) BY <1>1 DEF Range
<1>4. Range(s[k]) = Range(r[k]) \ {p} BY <1>1, <1>2, WithoutIs
<1>5. p \notin Range(r[l]) BY <1>1, <1>3
<1>6. Range(s[l]) = Range(r[l]) \cup {p} BY <1>1, <1>2, <1>3, <1>5, Appended
<1> HIDE DEF s, p
<1>7. \A h \in RingKind : Range(s[h]) \subseteq 1 .. f
  <2> DEFINE F == 1 .. f
  <2>1. p \in F /\ \A h \in RingKind : Range(r[h]) \subseteq F BY <1>1, <1>3
  <2> HIDE DEF F
  <2>2. Range(s[k]) \subseteq F BY <1>4, <2>1
  <2>3. Range(s[l]) \subseteq F BY <1>6, <2>1
  <2>4. \A h \in RingKind : Range(s[h]) \subseteq F BY <1>2, <2>1, <2>2, <2>3
  <2> QED BY <2>4 DEF F
<1>8. u \in [Descriptor -> Marks] BY <1>1 DEF Marks
<1>9. \A x \in Descriptor : \A h \in RingKind : u[x] = h <=> x \in Range(s[h])
  <2> SUFFICES ASSUME NEW x \in Descriptor, NEW h \in RingKind
               PROVE  u[x] = h <=> x \in Range(s[h])
    OBVIOUS
  <2>0. h # k /\ h # l => s[h] = r[h] BY <1>2
  <2>1. CASE x = p
    <3>1. u[x] = l BY <1>1, <2>1
    <3>2. h # k => p \notin Range(r[h]) BY <1>1, <1>3
    <3> QED BY <1>4, <1>6, <2>0, <2>1, <3>1, <3>2
  <2>2. CASE x # p
    <3>1. u[x] = o[x] BY <1>1, <2>2
    <3>2. o[x] = h <=> x \in Range(r[h]) BY <1>1
    <3> QED BY <1>4, <1>6, <2>0, <2>2, <3>1, <3>2
  <2> QED BY <2>1, <2>2
<1> QED BY <1>1, <1>7, <1>8, <1>9 DEF HasRings, s, p

\* The length of the empty ring.
LEMMA EmptyLength ==
  ASSUME NEW r \in [RingKind -> Seq(Descriptor)], NEW k \in RingKind, NEW l \in RingKind, k # l,
         IsInjective(r[k]), NEW i \in 1 .. Len(r[k])
  PROVE  /\ k # "empty" /\ l # "empty" => Turned(r, k, l, i)["empty"] = r["empty"]
         /\ k = "empty" => Len(Turned(r, k, l, i)["empty"]) = Len(r["empty"]) - 1
         /\ l = "empty" => Len(Turned(r, k, l, i)["empty"]) = Len(r["empty"]) + 1
<1>1. "empty" \in RingKind BY DEF RingKind
<1>2. r[k] \in Seq(Descriptor) /\ r[l] \in Seq(Descriptor) OBVIOUS
<1>3. Len(Without(r[k], i)) = Len(r[k]) - 1 BY <1>2, WithoutIs
<1>4. Len(Append(r[l], r[k][i])) = Len(r[l]) + 1 BY <1>2
<1> DEFINE t == Turned(r, k, l, i)
<1>5. /\ t[k] = Without(r[k], i) /\ t[l] = Append(r[l], r[k][i])
      /\ \A h \in RingKind \ {k, l} : t[h] = r[h]
  BY TurnedIs
<1> HIDE DEF t
<1>6. k # "empty" /\ l # "empty" => t["empty"] = r["empty"] BY <1>1, <1>5
<1>7. k = "empty" => Len(t["empty"]) = Len(r["empty"]) - 1 BY <1>3, <1>5
<1>8. l = "empty" => Len(t["empty"]) = Len(r["empty"]) + 1 BY <1>4, <1>5
<1> QED BY <1>6, <1>7, <1>8 DEF t

-----------------------------------------------------------------------------
EInv == \E r : HasRings(mem, on, fresh, r)

\* A step that takes the i-th page out of ring k, by RemovePage, and inserts it in ring l.
LEMMA TurnStep ==
  ASSUME NEW r, HasRings(mem, on, fresh, r), NEW k \in RingKind, NEW l \in RingKind,
         k # l, NEW i \in 1 .. Len(r[k]),
         Points(mem', Turned(r, k, l, i)),
         mem'.empty_count = Len(Turned(r, k, l, i)["empty"]),
         Becomes(r[k][i], l), UNCHANGED fresh
  PROVE  EInv' /\ Abstract!Move(k, l, i)
<1> DEFINE t == Turned(r, k, l, i)
<1>1. HasRings(mem', [on EXCEPT ![r[k][i]] = l], fresh, t) BY TurnKeeps
<1>2. HasRings(mem', on', fresh', t) BY <1>1 DEF Becomes
<1>3. Abstract!Move(k, l, i)
  <2> HIDE DEF t
  <2>1. t = Turned(r, k, l, i) BY DEF t
  <2> QED BY <1>2, <2>1, MoveMaps
<1>4. EInv'
  <2> HIDE DEF t
  <2> QED BY <1>2 DEF EInv
<1> QED BY <1>3, <1>4

\* allocate_batch_v2 from the first partial page ...
LEMMA TakePartialMaps ==
  ASSUME EInv, RingsTakePartial
  PROVE  EInv' /\ Abstract!TakePartial
<1>1. PICK r : HasRings(mem, on, fresh, r) BY DEF EInv
<1> DEFINE q == r["partial"]
<1>2. "partial" \in RingKind /\ "full" \in RingKind /\ "partial" # "full" BY DEF RingKind
<1>3. /\ Points(mem, r) /\ mem.empty_count = Len(r["empty"])
      /\ r \in [RingKind -> Seq(Descriptor)] /\ IsInjective(q)
      /\ mem.start["partial"] = IF q = <<>> THEN NoPage ELSE q[1]
  BY <1>1, <1>2 DEF HasRings, Points, PointsAlong
<1>4. q # <<>> /\ mem.start["partial"] = q[1] BY <1>3 DEF RingsTakePartial
<1>5. 1 \in 1 .. Len(q)
  <2>1. q \in Seq(Descriptor) BY <1>2, <1>3
  <2> HIDE DEF q
  <2> QED BY <1>4, <2>1
<1>7. NoPage \notin Descriptor BY RingsAssumption
<1>8. /\ mem' = Insert(RemovePage(mem, "partial", q[1]), "full", q[1])
      /\ Becomes(q[1], "full") /\ UNCHANGED fresh
  BY <1>4 DEF RingsTakePartial
<1>9. /\ Points(mem', Turned(r, "partial", "full", 1))
      /\ mem'.empty_count = mem.empty_count
  BY <1>2, <1>3, <1>5, <1>7, <1>8, RemoveTurns
<1>10. mem'.empty_count = Len(Turned(r, "partial", "full", 1)["empty"])
  BY <1>2, <1>3, <1>5, <1>9, EmptyLength
<1>11. EInv' /\ Abstract!Move("partial", "full", 1)
  BY <1>1, <1>2, <1>5, <1>8, <1>9, <1>10, TurnStep
<1>12. [h \in RingKind |-> Walk(h)] = r BY <1>1, AbstractIs
<1> QED BY <1>4, <1>8, <1>11, <1>12 DEF Abstract!TakePartial

\* What the start of a ring says.
LEMMA FirstOf ==
  ASSUME NEW r, HasRings(mem, on, fresh, r), NEW k \in RingKind
  PROVE  /\ NoPage \notin Descriptor /\ Points(mem, r) /\ mem.empty_count = Len(r["empty"])
         /\ r \in [RingKind -> Seq(Descriptor)] /\ IsInjective(r[k]) /\ r[k] \in Seq(Descriptor)
         /\ mem.start[k] = NoPage <=> r[k] = <<>>
         /\ mem.start[k] # NoPage => mem.start[k] = r[k][1] /\ 1 \in 1 .. Len(r[k])
<1>1. NoPage \notin Descriptor BY RingsAssumption
<1>2. /\ Points(mem, r) /\ mem.empty_count = Len(r["empty"])
      /\ r \in [RingKind -> Seq(Descriptor)] /\ IsInjective(r[k]) /\ r[k] \in Seq(Descriptor)
      /\ mem.start[k] = IF r[k] = <<>> THEN NoPage ELSE r[k][1]
  BY DEF HasRings, Points, PointsAlong
<1>3. r[k] # <<>> => 1 \in 1 .. Len(r[k]) /\ r[k][1] \in Descriptor
  <2> DEFINE q == r[k]
  <2>1. q \in Seq(Descriptor) BY <1>2
  <2> HIDE DEF q
  <2>2. q # <<>> => 1 \in 1 .. Len(q) /\ q[1] \in Descriptor BY <2>1
  <2> QED BY <2>2 DEF q
<1> QED BY <1>1, <1>2, <1>3

\* ... from the first of the pages kept empty ...
LEMMA TakeEmptyMaps ==
  ASSUME EInv, RingsTakeEmpty
  PROVE  EInv' /\ Abstract!TakeEmpty
<1>1. PICK r : HasRings(mem, on, fresh, r) BY DEF EInv
<1> DEFINE q == r["empty"]
           a == remove_empty(mem)
<1>2. "empty" \in RingKind /\ "full" \in RingKind /\ "empty" # "full" BY DEF RingKind
<1>3. /\ Points(mem, r) /\ mem.empty_count = Len(q) /\ NoPage \notin Descriptor
      /\ r \in [RingKind -> Seq(Descriptor)] /\ IsInjective(q)
      /\ q # <<>> /\ mem.start["empty"] = q[1] /\ 1 \in 1 .. Len(q)
  BY <1>1, <1>2, FirstOf DEF RingsTakeEmpty
<1>4. /\ mem' = Insert(a, "full", q[1])
      /\ Becomes(q[1], "full") /\ UNCHANGED fresh
  BY <1>3 DEF RingsTakeEmpty
<1>5. /\ Points(a, Removed(r, "empty", 1))
      /\ a.empty_count = Len(r["empty"]) - 1
  BY <1>3, RemoveEmptyPoints DEF Removed
<1>6. /\ Points(mem', Turned(r, "empty", "full", 1))
      /\ mem'.empty_count = a.empty_count
  <2> HIDE DEF a
  <2> QED BY <1>2, <1>3, <1>4, <1>5, TurnPoints
<1>7. mem'.empty_count = Len(Turned(r, "empty", "full", 1)["empty"])
  BY <1>2, <1>3, <1>5, <1>6, EmptyLength
<1>8. EInv' /\ Abstract!Move("empty", "full", 1)
  BY <1>1, <1>2, <1>3, <1>4, <1>6, <1>7, TurnStep
<1>9. [h \in RingKind |-> Walk(h)] = r BY <1>1, AbstractIs
<1> QED BY <1>3, <1>4, <1>8, <1>9 DEF Abstract!TakeEmpty

\* ... and from the uninit pages, or with a new descriptor.
LEMMA TakeUninitMaps ==
  ASSUME EInv, TakeUninit
  PROVE  EInv' /\ Abstract!TakeEmpty
<1>1. PICK r : HasRings(mem, on, fresh, r) BY DEF EInv
<1>2. /\ "empty" \in RingKind /\ "full" \in RingKind /\ "uninit" \in RingKind
      /\ "uninit" # "full" /\ "uninit" # "empty" /\ "full" # "empty"
  BY DEF RingKind
<1>3. [h \in RingKind |-> Walk(h)] = r BY <1>1, AbstractIs
<1>4. r["empty"] = <<>> BY <1>1, <1>2, FirstOf DEF TakeUninit
<1>5. CASE mem.start["uninit"] # NoPage
  <2> DEFINE q == r["uninit"]
  <2>1. /\ Points(mem, r) /\ mem.empty_count = Len(r["empty"]) /\ NoPage \notin Descriptor
        /\ r \in [RingKind -> Seq(Descriptor)] /\ IsInjective(q)
        /\ q # <<>> /\ mem.start["uninit"] = q[1] /\ 1 \in 1 .. Len(q)
    BY <1>1, <1>2, <1>5, FirstOf
  <2>2. /\ mem' = Insert(RemovePage(mem, "uninit", q[1]), "full", q[1])
        /\ Becomes(q[1], "full") /\ UNCHANGED fresh
    BY <1>5, <2>1 DEF TakeUninit
  <2>3. /\ Points(mem', Turned(r, "uninit", "full", 1))
        /\ mem'.empty_count = mem.empty_count
    BY <1>2, <2>1, <2>2, RemoveTurns
  <2>4. mem'.empty_count = Len(Turned(r, "uninit", "full", 1)["empty"])
    BY <1>2, <2>1, <2>3, EmptyLength
  <2>5. EInv' /\ Abstract!Move("uninit", "full", 1)
    BY <1>1, <1>2, <2>1, <2>2, <2>3, <2>4, TurnStep
  <2> QED BY <1>3, <1>4, <2>1, <2>2, <2>5 DEF Abstract!TakeEmpty
<1>6. CASE mem.start["uninit"] = NoPage
  <2> DEFINE p == fresh + 1
             t == [r EXCEPT !["full"] = Append(@, p)]
  <2>1. /\ r["uninit"] = <<>> /\ NoPage \notin Descriptor /\ Points(mem, r)
        /\ r \in [RingKind -> Seq(Descriptor)]
    BY <1>1, <1>2, <1>6, FirstOf
  <2>2. /\ fresh < PageLimit /\ mem' = Insert(mem, "full", p)
        /\ on' = [on EXCEPT ![p] = "full"] /\ fresh' = p
    BY <1>6 DEF TakeUninit, Becomes
  <2>3. /\ fresh \in 0 .. PageLimit /\ \A k \in RingKind : Range(r[k]) \subseteq 1 .. fresh
        /\ on \in [Descriptor -> Marks] /\ PageLimit \in Nat
        /\ \A x \in Descriptor : \A k \in RingKind : on[x] = k <=> x \in Range(r[k])
        /\ mem.empty_count = Len(r["empty"])
        /\ \A k \in RingKind : r[k] \in Seq(Descriptor) /\ IsInjective(r[k])
    BY <1>1, RingsAssumption DEF HasRings, Points, PointsAlong
  <2>4. p \in 1 .. PageLimit /\ p \notin 1 .. fresh /\ p \in 1 .. p
        /\ \A x \in 1 .. fresh : x \in 1 .. p
    BY <2>2, <2>3
  <2>5. p \in Descriptor /\ \A k \in RingKind : p \notin Range(r[k])
    BY <2>3, <2>4 DEF Descriptor
  <2> HIDE DEF p
  <2>6. Points(mem', t) /\ mem'.empty_count = mem.empty_count
    BY <1>2, <2>1, <2>2, <2>5, InsertPoints
  <2>7. /\ t \in [RingKind -> Seq(Descriptor)] /\ t["full"] = Append(r["full"], p)
        /\ \A k \in RingKind \ {"full"} : t[k] = r[k]
    BY <1>2, <2>1, <2>5
  <2>8. Range(t["full"]) = Range(r["full"]) \cup {p}
    BY <1>2, <2>3, <2>5, <2>7, Appended
  <2> HIDE DEF t
  <2>9. \A k \in RingKind : Range(t[k]) \subseteq 1 .. p
    <3>1. \A k \in RingKind : Range(r[k]) \subseteq 1 .. p BY <2>3, <2>4
    <3> DEFINE P == 1 .. p
    <3>2. p \in P /\ \A k \in RingKind : Range(r[k]) \subseteq P BY <2>4, <3>1
    <3> HIDE DEF P
    <3>3. \A k \in RingKind : Range(t[k]) \subseteq P BY <2>7, <2>8, <3>2
    <3> QED BY <3>3 DEF P
  <2>10. on' \in [Descriptor -> Marks] BY <1>2, <2>2, <2>3 DEF Marks
  <2>11. \A x \in Descriptor : \A k \in RingKind : on'[x] = k <=> x \in Range(t[k])
    <3> SUFFICES ASSUME NEW x \in Descriptor, NEW k \in RingKind
                 PROVE  on'[x] = k <=> x \in Range(t[k])
      OBVIOUS
    <3>0. /\ k # "full" => t[k] = r[k]
          /\ on[x] = k <=> x \in Range(r[k])
      BY <2>3, <2>7
    <3>1. CASE x = p
      <4>1. on'[x] = "full" BY <2>2, <2>3, <3>1
      <4> QED BY <2>5, <2>8, <3>0, <3>1, <4>1
    <3>2. CASE x # p
      <4>1. on'[x] = on[x] BY <2>2, <2>3, <3>2
      <4> QED BY <2>8, <3>0, <3>2, <4>1
    <3> QED BY <3>1, <3>2
  <2>12. mem'.empty_count = Len(t["empty"]) BY <1>2, <2>3, <2>6, <2>7
  <2>13. p \in 0 .. PageLimit BY <2>3, <2>4
  <2>14. HasRings(mem', on', p, t)
    BY <2>6, <2>9, <2>10, <2>11, <2>12, <2>13 DEF HasRings
  <2>15. HasRings(mem', on', fresh', t) BY <2>2, <2>14
  <2>16. [h \in RingKind |-> Walk(h)]' = t
    <3>1. [h \in RingKind |-> WalkOf(mem', h)] = t BY <2>15, RingsAre
    <3>2. RingKind = RingKind BY DEF RingKind
    <3>3. \A h : Walk(h)' = WalkOf(mem', h) BY DEF Walk, WalkOf
    <3> QED BY <3>1, <3>2, <3>3
  <2>17. t = [r EXCEPT !["full"] = Append(@, fresh + 1)] BY DEF t, p
  <2>18. fresh + 1 \in Descriptor /\ fresh' = fresh + 1
    BY <2>2, <2>5 DEF p, Descriptor
  <2>19. EInv' BY <2>15 DEF EInv
  <2> QED BY <1>3, <1>4, <2>1, <2>16, <2>17, <2>18, <2>19 DEF Abstract!TakeEmpty
<1> QED BY <1>5, <1>6

\* The page of a call of deallocate_batch stands in the ring that on says.
LEMMA PlaceOf ==
  ASSUME NEW r, HasRings(mem, on, fresh, r), NEW p \in Descriptor, on[p] \in RingKind
  PROVE  \E i \in 1 .. Len(r[on[p]]) : r[on[p]][i] = p
<1>1. p \in Range(r[on[p]]) BY DEF HasRings
<1>2. r[on[p]] \in Seq(Descriptor) BY DEF HasRings, Points
<1> DEFINE q == r[on[p]]
<1>3. DOMAIN q = 1 .. Len(q) BY <1>2
<1> QED BY <1>1, <1>3 DEF Range

\* deallocate_batch, when all of the page's objects are free: insert_ety gives the
\* empty ring one more page, or the uninit ring.
LEMMA EmptiedMaps ==
  ASSUME NEW r, HasRings(mem, on, fresh, r),
         NEW k \in {"full", "partial"}, NEW i \in 1 .. Len(r[k]),
         mem' = insert_ety(RemovePage(mem, k, r[k][i]), r[k][i]),
         Becomes(r[k][i], IF mem.empty_count > EmptyMax THEN "uninit" ELSE "empty"),
         UNCHANGED fresh
  PROVE  /\ EInv'
         /\ Abstract!Move(k, IF Len(r["empty"]) > EmptyMax THEN "uninit" ELSE "empty", i)
<1> DEFINE l == IF Len(r["empty"]) > EmptyMax THEN "uninit" ELSE "empty"
           p == r[k][i]
           a == RemovePage(mem, k, p)
           b == Insert(a, l, p)
<1>1. /\ k \in RingKind /\ l \in RingKind /\ k # l /\ k # "empty" /\ "empty" \in RingKind
      /\ "uninit" # "empty"
  BY DEF RingKind
<1>2. /\ NoPage \notin Descriptor /\ Points(mem, r) /\ mem.empty_count = Len(r["empty"])
      /\ r \in [RingKind -> Seq(Descriptor)] /\ IsInjective(r[k])
  BY <1>1, FirstOf
<1>3. Points(a, Removed(r, k, i)) /\ a.empty_count = mem.empty_count
  BY <1>1, <1>2, RemovedRings
<1>4. l = IF a.empty_count > EmptyMax THEN "uninit" ELSE "empty" BY <1>2, <1>3
<1> HIDE DEF a, l
<1>5. Points(b, Turned(r, k, l, i)) /\ b.empty_count = a.empty_count
  BY <1>1, <1>2, <1>3, TurnPoints
<1> HIDE DEF b
<1>6. mem' = IF l = "uninit" THEN b ELSE [b EXCEPT !.empty_count = @ + 1]
  BY <1>1, <1>4 DEF a, b, insert_ety
<1>7. l = "uninit" \/ l = "empty" BY DEF l
<1>8. /\ Points(mem', Turned(r, k, l, i))
      /\ mem'.empty_count = IF l = "empty" THEN Len(r["empty"]) + 1 ELSE Len(r["empty"])
  <2>1. CASE l = "uninit" BY <1>1, <1>2, <1>3, <1>5, <1>6, <2>1
  <2>2. CASE l = "empty"
    <3>1. Len(r["empty"]) \in Nat BY <1>1, <1>2
    <3> DEFINE n == b.empty_count + 1
               c == [b EXCEPT !.empty_count = n]
               t == Turned(r, k, l, i)
    <3>2. mem' = c BY <1>1, <1>6, <2>2
    <3>3. n \in Nat /\ n = Len(r["empty"]) + 1 BY <1>2, <1>3, <1>5, <3>1
    <3> HIDE DEF n, t
    <3>4. Points(b, t) BY <1>5 DEF t
    <3>5. Points(c, t) /\ c.empty_count = n BY <3>3, <3>4, CountPoints
    <3> HIDE DEF c
    <3> QED BY <2>2, <3>2, <3>3, <3>5 DEF t
  <2> QED BY <1>7, <2>1, <2>2
<1>9. mem'.empty_count = Len(Turned(r, k, l, i)["empty"])
  <2>1. /\ k # "empty" /\ l # "empty" => Turned(r, k, l, i)["empty"] = r["empty"]
        /\ k = "empty" => Len(Turned(r, k, l, i)["empty"]) = Len(r["empty"]) - 1
        /\ l = "empty" => Len(Turned(r, k, l, i)["empty"]) = Len(r["empty"]) + 1
    <3>1. k \in RingKind /\ l \in RingKind /\ k # l BY <1>1
    <3>2. r \in [RingKind -> Seq(Descriptor)] /\ IsInjective(r[k]) BY <1>2
    <3>3. i \in 1 .. Len(r[k]) OBVIOUS
    <3> QED BY <3>1, <3>2, <3>3, EmptyLength
  <2> QED BY <1>1, <1>8, <2>1
<1>10. Becomes(p, l) /\ UNCHANGED fresh BY <1>2 DEF l
<1> QED BY <1>1, <1>8, <1>9, <1>10, TurnStep DEF l

\* deallocate_batch
LEMMA GiveMaps ==
  ASSUME EInv, NEW p \in Descriptor, NEW left \in BOOLEAN,
         Give(p, left)
  PROVE  EInv' /\ Abstract!Next
<1>1. PICK r : HasRings(mem, on, fresh, r) BY DEF EInv
<1> DEFINE k == on[p]
<1>2. k \in {"full", "partial"} /\ k \in RingKind /\ UNCHANGED fresh BY DEF Give, RingKind
<1>3. PICK i \in 1 .. Len(r[k]) : r[k][i] = p BY <1>1, <1>2, PlaceOf
<1>4. [h \in RingKind |-> Walk(h)] = r BY <1>1, AbstractIs
<1>5. /\ NoPage \notin Descriptor /\ Points(mem, r) /\ mem.empty_count = Len(r["empty"])
      /\ r \in [RingKind -> Seq(Descriptor)] /\ IsInjective(r[k]) /\ r[k] \in Seq(Descriptor)
  BY <1>1, <1>2, FirstOf
<1>6. i \in DOMAIN r[k] BY <1>5
<1>7. "full" \in RingKind /\ "partial" \in RingKind /\ "full" # "partial" /\ "full" # "empty"
      /\ "partial" # "empty"
  BY DEF RingKind
<1> HIDE DEF k
<1>8. EInv' /\ Abstract!Give(k, i, left)
  <2>1. CASE left /\ k = "full"
    <3>1. /\ mem' = Insert(RemovePage(mem, k, r[k][i]), "partial", r[k][i])
          /\ Becomes(r[k][i], "partial")
      BY <1>3, <2>1 DEF Give, k
    <3>2. /\ Points(mem', Turned(r, k, "partial", i))
          /\ mem'.empty_count = mem.empty_count
      BY <1>2, <1>5, <1>7, <2>1, <3>1, RemoveTurns
    <3>3. mem'.empty_count = Len(Turned(r, k, "partial", i)["empty"])
      <4>1. k # "empty" /\ "partial" # "empty" => Turned(r, k, "partial", i)["empty"] = r["empty"]
        <5>1. k \in RingKind /\ "partial" \in RingKind /\ k # "partial" BY <1>2, <1>7, <2>1
        <5>2. r \in [RingKind -> Seq(Descriptor)] /\ IsInjective(r[k]) BY <1>5
        <5>3. i \in 1 .. Len(r[k]) OBVIOUS
        <5> QED BY <5>1, <5>2, <5>3, EmptyLength
      <4> QED BY <1>5, <1>7, <2>1, <3>2, <4>1
    <3>4. EInv' /\ Abstract!Move(k, "partial", i)
      BY <1>1, <1>2, <1>7, <2>1, <3>1, <3>2, <3>3, TurnStep
    <3> QED BY <1>2, <1>4, <1>6, <2>1, <3>4 DEF Abstract!Give
  <2>2. CASE left /\ k = "partial"
    <3>1. mem' = mem /\ Becomes(p, "partial")
      BY <1>7, <2>2 DEF Give, k
    <3>2. on \in [Descriptor -> Marks] BY <1>1 DEF HasRings
    <3>3. on' = on BY <2>2, <3>1, <3>2 DEF Becomes, k
    <3>4. HasRings(mem', on', fresh', r) BY <1>1, <1>2, <3>1, <3>3
    <3>5. [h \in RingKind |-> Walk(h)]' = r
      <4>1. [h \in RingKind |-> WalkOf(mem', h)] = r BY <3>4, RingsAre
      <4>2. RingKind = RingKind BY DEF RingKind
      <4>3. \A h : Walk(h)' = WalkOf(mem', h) BY DEF Walk, WalkOf
      <4> QED BY <4>1, <4>2, <4>3
    <3>6. EInv' BY <3>4 DEF EInv
    <3> QED BY <1>2, <1>4, <1>6, <2>2, <3>5, <3>6 DEF Abstract!Give
  <2>3. CASE ~ left
    <3>1. /\ mem' = insert_ety(RemovePage(mem, k, r[k][i]), r[k][i])
          /\ Becomes(r[k][i],
                               IF mem.empty_count > EmptyMax THEN "uninit" ELSE "empty")
      BY <1>3, <2>3 DEF Give, k
    <3>2. /\ EInv'
          /\ Abstract!Move(k,
               IF Len(r["empty"]) > EmptyMax THEN "uninit" ELSE "empty", i)
      BY <1>1, <1>2, <3>1, EmptiedMaps
    <3> QED BY <1>2, <1>4, <1>6, <2>3, <3>2 DEF Abstract!Give
  <2> QED BY <1>2, <2>1, <2>2, <2>3
<1> QED BY <1>2, <1>4, <1>6, <1>8 DEF Abstract!Next

\* Every step is a step of the sequences, or leaves them as they are.
LEMMA RingsStep ==
  ASSUME EInv, [RingsNext]_ringsVars
  PROVE  EInv' /\ [Abstract!Next]_Abstract!vars
<1>1. CASE RingsTakePartial BY <1>1, TakePartialMaps DEF Abstract!Next
<1>2. CASE RingsTakeEmpty BY <1>2, TakeEmptyMaps DEF Abstract!Next
<1>3. CASE TakeUninit BY <1>3, TakeUninitMaps DEF Abstract!Next
<1>4. ASSUME NEW p \in Descriptor, NEW left \in BOOLEAN, Give(p, left)
      PROVE  EInv' /\ [Abstract!Next]_Abstract!vars
  BY <1>4, GiveMaps DEF Descriptor
<1>5. CASE UNCHANGED ringsVars
  <2>1. mem' = mem /\ on' = on /\ fresh' = fresh BY <1>5 DEF ringsVars
  <2>2. PICK r : HasRings(mem, on, fresh, r) BY DEF EInv
  <2>3. HasRings(mem', on', fresh', r) BY <2>1, <2>2
  <2>4. [h \in RingKind |-> Walk(h)] = r BY <2>2, AbstractIs
  <2>5. [h \in RingKind |-> Walk(h)]' = r
    <3>1. [h \in RingKind |-> WalkOf(mem', h)] = r BY <2>3, RingsAre
    <3>2. RingKind = RingKind BY DEF RingKind
    <3>3. \A h : Walk(h)' = WalkOf(mem', h) BY DEF Walk, WalkOf
    <3> QED BY <3>1, <3>2, <3>3
  <2> QED BY <2>1, <2>3, <2>4, <2>5 DEF EInv, Abstract!vars
<1> QED BY <1>1, <1>2, <1>3, <1>4, <1>5 DEF RingsNext

LEMMA RingsStart ==
  ASSUME RingsInit
  PROVE  EInv /\ Abstract!Init
<1> DEFINE r == [k \in RingKind |-> <<>>]
<1>1. "empty" \in RingKind BY DEF RingKind
<1>2. /\ mem = [start |-> [k \in RingKind |-> NoPage], prev |-> [p \in Descriptor |-> NoPage],
                next |-> [p \in Descriptor |-> NoPage], empty_count |-> 0]
      /\ on = [p \in Descriptor |-> NoPage] /\ fresh = 0
  BY <1>1 DEF RingsInit, Descriptor
<1>3. mem \in Memory /\ mem.empty_count = 0 /\ mem.start = [k \in RingKind |-> NoPage]
  BY <1>2 DEF Memory
<1>4. r \in [RingKind -> Seq(Descriptor)] /\ \A k \in RingKind : r[k] = <<>> OBVIOUS
<1> HIDE DEF r
<1>5. \A k \in RingKind : Range(r[k]) = {} BY <1>4 DEF Range
<1>6. \A k \in RingKind : PointsAlong(mem, k, r[k])
  BY <1>3, <1>4 DEF PointsAlong, IsInjective, Closed
<1>7. Points(mem, r) BY <1>3, <1>4, <1>5, <1>6 DEF Points
<1>8. mem.empty_count = Len(r["empty"]) BY <1>1, <1>3, <1>4
<1>9. fresh \in 0 .. PageLimit BY <1>2, RingsAssumption
<1>10. \A k \in RingKind : Range(r[k]) \subseteq 1 .. fresh BY <1>5
<1>11. on \in [Descriptor -> Marks] BY <1>2 DEF Marks
<1>12. \A p \in Descriptor : \A k \in RingKind : on[p] = k <=> p \in Range(r[k])
  BY <1>2, <1>5, RingsAssumption
<1>13. HasRings(mem, on, fresh, r) BY <1>7, <1>8, <1>9, <1>10, <1>11, <1>12 DEF HasRings
<1>14. [h \in RingKind |-> Walk(h)] = r BY <1>13, AbstractIs
<1>15. Abstract!Kind = RingKind BY DEF Abstract!Kind, RingKind
<1> QED BY <1>2, <1>13, <1>14, <1>15 DEF EInv, Abstract!Init, r

\* However pages are taken and freed, the pointers of efficient_sc.rs (insert_full,
\* remove_partial, remove_empty, insert_ety and the others) hold the four sequences
\* that SlabCache is written with.
THEOREM RingsAreImplemented == RingsSpec => ImplementsRings
<1>1. RingsInit => EInv /\ Abstract!Init BY RingsStart
<1>2. EInv /\ [RingsNext]_ringsVars =>
        EInv' /\ [Abstract!Next]_Abstract!vars
  BY RingsStep
<1> QED
  BY <1>1, <1>2, PTL DEF RingsSpec, ImplementsRings, Abstract!Spec

=============================================================================
