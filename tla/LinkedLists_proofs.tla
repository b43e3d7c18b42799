------------------------ MODULE LinkedLists_proofs ------------------------
(***************************************************************************)
(* What the operations on one list, and on a family of lists, do to the    *)
(* set of their elements and to the absence of sharing; and, at the end,   *)
(* the facts about numbers that the proofs of several components need.     *)
(***************************************************************************)
EXTENDS LinkedLists, FiniteSetTheorems, SequenceTheorems, TLAPS

\* The families f and q differ at most in the lists of the heads H.
SameElsewhere(f, q, H) == \A k \in DOMAIN f \ H : q[k] = f[k]

\* x is on no list of f but, at most, those of the heads H.
NotElsewhere(f, x, H) == \A k \in DOMAIN f \ H : x \notin Range(f[k])

\* The list of head g has lost x, or gained it, and nothing else.
Loses(f, q, g, x) ==
  /\ x \in Range(f[g])
  /\ Range(q[g]) = Range(f[g]) \ {x}
  /\ Len(q[g]) = Len(f[g]) - 1

Gains(f, q, h, x) ==
  /\ x \notin Range(f[h])
  /\ Range(q[h]) = Range(f[h]) \cup {x}
  /\ Len(q[h]) = Len(f[h]) + 1

\* Replacing the list at h by a list without repetitions, whose elements are
\* on no other list of the family, creates no sharing.
THEOREM AssignList ==
  ASSUME NEW K, NEW S, NEW f \in [K -> Seq(S)], NoSharing(f), NEW h \in K,
         NEW q \in [K -> Seq(S)], SameElsewhere(f, q, {h}),
         IsInjective(q[h]), \A x \in Range(q[h]) : NotElsewhere(f, x, {h})
  PROVE  NoSharing(q)
<1>1. ASSUME NEW k \in K PROVE IsInjective(q[k])
  BY DEF NoSharing, SameElsewhere
<1>2. ASSUME NEW k \in K, NEW l \in K, k # l
      PROVE  Disjoint(Range(q[k]), Range(q[l]))
  <2>1. CASE k # h /\ l # h
    BY <2>1, <1>2 DEF NoSharing, SameElsewhere
  <2>2. CASE k = h
    BY <2>2, <1>2 DEF Disjoint, SameElsewhere, NotElsewhere
  <2>3. CASE l = h
    BY <2>3, <1>2 DEF Disjoint, SameElsewhere, NotElsewhere
  <2> QED BY <2>1, <2>2, <2>3
<1> QED BY <1>1, <1>2 DEF NoSharing

\* Membership in a list, by position.
LEMMA InRange ==
  ASSUME NEW S, NEW s \in Seq(S), NEW x
  PROVE  x \in Range(s) <=> \E i \in 1 .. Len(s) : s[i] = x
  BY DEF Range

\* The elements of a list have its type.
LEMMA RangeType ==
  ASSUME NEW S, NEW s \in Seq(S), NEW x \in Range(s)
  PROVE  x \in S
<1>1. PICK i \in 1 .. Len(s) : s[i] = x
  BY InRange
<1> QED BY <1>1

\* Absence of repetitions, by positions.
LEMMA Injective ==
  ASSUME NEW S, NEW s \in Seq(S)
  PROVE  IsInjective(s) <=> \A i, j \in 1 .. Len(s) : s[i] = s[j] => i = j
  BY DEF IsInjective

\* Removing the i-th element (Linklist::pop_unchecked_aligned, remove_full).
THEOREM RemoveAtElements ==
  ASSUME NEW S, NEW s \in Seq(S), IsInjective(s), NEW i \in 1 .. Len(s)
  PROVE  /\ RemoveAt(s, i) \in Seq(S)
         /\ Len(RemoveAt(s, i)) = Len(s) - 1
         /\ IsInjective(RemoveAt(s, i))
         /\ Range(RemoveAt(s, i)) = Range(s) \ {s[i]}
<1> DEFINE l == SubSeq(s, 1, i - 1)
           r == SubSeq(s, i + 1, Len(s))
           q == RemoveAt(s, i)
<1>0. Len(s) \in Nat /\ i \in Nat /\ \A j \in 1 .. Len(s) : s[j] \in S
  OBVIOUS
<1>1. /\ l \in Seq(S) /\ Len(l) = i - 1
      /\ \A j \in 1 .. i - 1 : l[j] = s[j]
  BY <1>0
<1>2. /\ r \in Seq(S) /\ Len(r) = Len(s) - i
      /\ \A j \in 1 .. Len(s) - i : r[j] = s[i + j]
  BY <1>0
<1> HIDE DEF l, r
<1>3. q = l \o r
  BY DEF RemoveAt, l, r, q
<1>4. /\ q \in Seq(S) /\ Len(q) = Len(s) - 1
      /\ \A j \in 1 .. Len(s) - 1 : q[j] = IF j < i THEN s[j] ELSE s[j + 1]
  <2>1. /\ l \o r \in Seq(S) /\ Len(l \o r) = Len(l) + Len(r)
        /\ \A j \in 1 .. Len(l) + Len(r) :
             (l \o r)[j] = IF j <= Len(l) THEN l[j] ELSE r[j - Len(l)]
    BY <1>1, <1>2, ConcatProperties
  <2>2. ASSUME NEW j \in 1 .. Len(s) - 1
        PROVE  (l \o r)[j] = IF j < i THEN s[j] ELSE s[j + 1]
    <3>1. CASE j < i
      BY <3>1, <2>1, <1>0, <1>1, <1>2
    <3>2. CASE j >= i
      <4>1. /\ j - (i - 1) \in 1 .. Len(s) - i
            /\ i + (j - (i - 1)) = j + 1
        BY <3>2, <1>0
      <4>2. r[j - (i - 1)] = s[j + 1]
        BY <4>1, <1>2
      <4>3. (l \o r)[j] = r[j - Len(l)]
        BY <3>2, <2>1, <1>0, <1>1, <1>2
      <4> QED BY <4>2, <4>3, <3>2, <1>0, <1>1
    <3>3. j < i \/ j >= i
      BY <1>0
    <3> QED BY <3>1, <3>2, <3>3
  <2> HIDE DEF q
  <2>3. Len(l) + Len(r) = Len(s) - 1
    BY <1>0, <1>1, <1>2
  <2> QED BY <2>1, <2>2, <2>3, <1>3
<1> HIDE DEF q
<1>5. IsInjective(q)
  <2>1. \A j, k \in 1 .. Len(s) : s[j] = s[k] => j = k
    BY Injective
  <2>2. ASSUME NEW j \in 1 .. Len(s) - 1, NEW k \in 1 .. Len(s) - 1, q[j] = q[k]
        PROVE  j = k
    <3>1. /\ j \in 1 .. Len(s) /\ j + 1 \in 1 .. Len(s)
          /\ k \in 1 .. Len(s) /\ k + 1 \in 1 .. Len(s)
      BY <1>0
    <3>2. CASE j < i /\ k < i  BY <3>1, <3>2, <2>1, <2>2, <1>4
    <3>3. CASE j < i /\ k >= i
      <4>1. s[j] = s[k + 1]  BY <3>3, <2>2, <1>0, <1>4
      <4>2. j = k + 1  BY <4>1, <3>1, <2>1
      <4> QED BY <4>2, <3>3, <1>0
    <3>4. CASE j >= i /\ k < i
      <4>1. s[j + 1] = s[k]  BY <3>4, <2>2, <1>0, <1>4
      <4>2. j + 1 = k  BY <4>1, <3>1, <2>1
      <4> QED BY <4>2, <3>4, <1>0
    <3>5. CASE j >= i /\ k >= i
      <4>1. s[j + 1] = s[k + 1]  BY <3>5, <2>2, <1>0, <1>4
      <4>2. j + 1 = k + 1  BY <4>1, <3>1, <2>1
      <4> QED BY <4>2
    <3> QED BY <3>2, <3>3, <3>4, <3>5, <1>0
  <2> QED BY <2>2, <1>0, <1>4, Injective
<1>6. ASSUME NEW x PROVE x \in Range(q) <=> x \in Range(s) /\ x # s[i]
  <2>1. ASSUME NEW j \in 1 .. Len(s), j # i
        PROVE  \E k \in 1 .. Len(s) - 1 : q[k] = s[j]
    <3>1. CASE j < i
      <4>1. j \in 1 .. Len(s) - 1 /\ q[j] = s[j]  BY <3>1, <1>0, <1>4
      <4> QED BY <4>1
    <3>2. CASE j > i
      <4>1. j - 1 \in 1 .. Len(s) - 1 /\ q[j - 1] = s[j]  BY <3>2, <1>0, <1>4
      <4> QED BY <4>1
    <3> QED BY <3>1, <3>2, <2>1, <1>0
  <2>2. ASSUME NEW k \in 1 .. Len(s) - 1
        PROVE  \E j \in 1 .. Len(s) : j # i /\ q[k] = s[j]
    <3>1. CASE k < i
      BY <3>1, <1>0, <1>4
    <3>2. CASE k >= i
      <4>1. k + 1 \in 1 .. Len(s) /\ k + 1 # i /\ q[k] = s[k + 1]
        BY <3>2, <1>0, <1>4
      <4> QED BY <4>1
    <3> QED BY <3>1, <3>2, <1>0
  <2>3. \A j \in 1 .. Len(s) : s[j] = s[i] => j = i
    BY Injective
  <2>4. x \in Range(q) <=> \E k \in 1 .. Len(s) - 1 : q[k] = x
    BY <1>4, InRange
  <2>5. x \in Range(s) <=> \E j \in 1 .. Len(s) : s[j] = x
    BY InRange
  <2> QED BY <2>1, <2>2, <2>3, <2>4, <2>5
<1> QED BY <1>4, <1>5, <1>6 DEF q

\* A page that joins a ring goes behind its last one (insert_full,
\* insert_partial, insert_ety, insert_uninit).
THEOREM AppendElements ==
  ASSUME NEW S, NEW s \in Seq(S), IsInjective(s), NEW x \in S, x \notin Range(s)
  PROVE  /\ Append(s, x) \in Seq(S)
         /\ Len(Append(s, x)) = Len(s) + 1
         /\ IsInjective(Append(s, x))
         /\ Range(Append(s, x)) = Range(s) \cup {x}
<1> DEFINE q == Append(s, x)
<1>1. /\ Len(s) \in Nat /\ q \in Seq(S) /\ Len(q) = Len(s) + 1
      /\ \A i \in 1 .. Len(s) : q[i] = s[i]
      /\ q[Len(s) + 1] = x
  BY AppendProperties
<1>2. \A i, j \in 1 .. Len(s) : s[i] = s[j] => i = j
  BY Injective
<1>3. \A i \in 1 .. Len(s) : s[i] # x
  BY InRange
<1> HIDE DEF q
<1>4. ASSUME NEW i \in 1 .. Len(s) + 1, NEW j \in 1 .. Len(s) + 1, q[i] = q[j]
      PROVE  i = j
  BY <1>1, <1>2, <1>3, <1>4
<1>5. IsInjective(q)
  BY <1>1, <1>4, Injective
<1>6. ASSUME NEW y PROVE y \in Range(q) <=> y \in Range(s) \/ y = x
  <2>1. y \in Range(q) <=> \E i \in 1 .. Len(s) + 1 : q[i] = y
    BY <1>1, InRange
  <2>2. y \in Range(s) <=> \E i \in 1 .. Len(s) : s[i] = y
    BY InRange
  <2> QED BY <2>1, <2>2, <1>1
<1> QED BY <1>1, <1>5, <1>6 DEF q

\* Splicing one list in front of another, disjoint, one (deallocate).
THEOREM ConcatElements ==
  ASSUME NEW S, NEW s \in Seq(S), NEW r \in Seq(S),
         IsInjective(s), IsInjective(r), Disjoint(Range(s), Range(r))
  PROVE  /\ s \o r \in Seq(S)
         /\ Len(s \o r) = Len(s) + Len(r)
         /\ IsInjective(s \o r)
         /\ Range(s \o r) = Range(s) \cup Range(r)
<1> DEFINE q == s \o r
<1>1. /\ Len(s) \in Nat /\ Len(r) \in Nat
      /\ q \in Seq(S) /\ Len(q) = Len(s) + Len(r)
      /\ \A i \in 1 .. Len(s) + Len(r) :
           q[i] = IF i <= Len(s) THEN s[i] ELSE r[i - Len(s)]
  BY ConcatProperties
<1>2. /\ \A i, j \in 1 .. Len(s) : s[i] = s[j] => i = j
      /\ \A i, j \in 1 .. Len(r) : r[i] = r[j] => i = j
  BY Injective
<1>3. \A i \in 1 .. Len(s), j \in 1 .. Len(r) : s[i] # r[j]
  BY InRange DEF Disjoint
<1> HIDE DEF q
<1>4. ASSUME NEW i \in 1 .. Len(s) + Len(r), NEW j \in 1 .. Len(s) + Len(r),
             q[i] = q[j]
      PROVE  i = j
  <2>1. CASE i <= Len(s) /\ j <= Len(s)  BY <2>1, <1>1, <1>2, <1>4
  <2>2. CASE i > Len(s) /\ j > Len(s)
    <3>1. i - Len(s) \in 1 .. Len(r) /\ j - Len(s) \in 1 .. Len(r)
      BY <2>2, <1>1
    <3>2. r[i - Len(s)] = r[j - Len(s)]
      BY <2>2, <1>1, <1>4
    <3>3. i - Len(s) = j - Len(s)
      BY <3>1, <3>2, <1>2
    <3> QED BY <3>3, <1>1
  <2>3. CASE i <= Len(s) /\ j > Len(s)
    <3>1. i \in 1 .. Len(s) /\ j - Len(s) \in 1 .. Len(r) /\ ~ (j <= Len(s))
      BY <2>3, <1>1
    <3>2. q[i] = s[i] /\ q[j] = r[j - Len(s)] BY <3>1, <2>3, <1>1
    <3>3. s[i] # r[j - Len(s)] BY <3>1, <1>3
    <3> QED BY <3>2, <3>3, <1>4
  <2>4. CASE i > Len(s) /\ j <= Len(s)
    <3>1. j \in 1 .. Len(s) /\ i - Len(s) \in 1 .. Len(r) /\ ~ (i <= Len(s))
      BY <2>4, <1>1
    <3>2. q[j] = s[j] /\ q[i] = r[i - Len(s)] BY <3>1, <2>4, <1>1
    <3>3. s[j] # r[i - Len(s)] BY <3>1, <1>3
    <3> QED BY <3>2, <3>3, <1>4
  <2> QED BY <2>1, <2>2, <2>3, <2>4, <1>1
<1>5. IsInjective(q)
  BY <1>1, <1>4, Injective
<1>6. Range(q) = Range(s) \cup Range(r)
  BY RangeConcatenation DEF q
<1> QED BY <1>1, <1>5, <1>6 DEF q

\* Cutting a list in two (the runs of ObjectPage::deallocate).
THEOREM CutElements ==
  ASSUME NEW S, NEW s \in Seq(S), IsInjective(s), NEW n \in 0 .. Len(s)
  PROVE  LET l == SubSeq(s, 1, n)
             r == SubSeq(s, n + 1, Len(s))
         IN /\ l \in Seq(S) /\ r \in Seq(S)
            /\ Len(l) = n /\ Len(r) = Len(s) - n
            /\ IsInjective(l) /\ IsInjective(r)
            /\ Disjoint(Range(l), Range(r))
            /\ Range(l) \cup Range(r) = Range(s)
<1> DEFINE l == SubSeq(s, 1, n)
           r == SubSeq(s, n + 1, Len(s))
<1>0. Len(s) \in Nat /\ n \in Nat /\ \A j \in 1 .. Len(s) : s[j] \in S
  OBVIOUS
<1>1. /\ l \in Seq(S) /\ Len(l) = n
      /\ \A j \in 1 .. n : l[j] = s[j]
  BY <1>0
<1>2. /\ r \in Seq(S) /\ Len(r) = Len(s) - n
      /\ \A j \in 1 .. Len(s) - n : r[j] = s[n + j]
  BY <1>0
<1>3. \A i, j \in 1 .. Len(s) : s[i] = s[j] => i = j
  BY Injective
<1> HIDE DEF l, r
<1>4. IsInjective(l)
  BY <1>0, <1>1, <1>3, Injective
<1>5. IsInjective(r)
  <2>1. ASSUME NEW i \in 1 .. Len(s) - n, NEW j \in 1 .. Len(s) - n, r[i] = r[j]
        PROVE  i = j
    <3>1. n + i \in 1 .. Len(s) /\ n + j \in 1 .. Len(s) /\ s[n + i] = s[n + j]
      BY <2>1, <1>0, <1>2
    <3>2. n + i = n + j  BY <3>1, <1>3
    <3> QED BY <3>2, <1>0
  <2> QED BY <2>1, <1>0, <1>2, Injective
<1>6. Disjoint(Range(l), Range(r))
  <2>1. ASSUME NEW i \in 1 .. n, NEW j \in 1 .. Len(s) - n PROVE l[i] # r[j]
    <3>1. i \in 1 .. Len(s) /\ n + j \in 1 .. Len(s) /\ i # n + j
      BY <1>0
    <3> QED BY <3>1, <1>1, <1>2, <1>3
  <2> QED BY <2>1, <1>1, <1>2, InRange DEF Disjoint
<1>7. ASSUME NEW x PROVE x \in Range(s) <=> x \in Range(l) \/ x \in Range(r)
  <2>1. x \in Range(s) <=> \E i \in 1 .. Len(s) : s[i] = x
    BY InRange
  <2>2. x \in Range(l) <=> \E i \in 1 .. n : s[i] = x
    BY <1>1, InRange
  <2>3. x \in Range(r) <=> \E i \in 1 .. Len(s) - n : s[n + i] = x
    <3>1. x \in Range(r) <=> \E i \in 1 .. Len(s) - n : r[i] = x
      BY <1>2, InRange
    <3> QED BY <3>1, <1>2
  <2>4. ASSUME NEW i \in 1 .. Len(s), i > n
        PROVE  \E j \in 1 .. Len(s) - n : s[n + j] = s[i]
    <3>1. i - n \in 1 .. Len(s) - n /\ n + (i - n) = i
      BY <2>4, <1>0
    <3> QED BY <3>1
  <2>5. \A i \in 1 .. n : i \in 1 .. Len(s)
    BY <1>0
  <2>6. \A i \in 1 .. Len(s) - n : n + i \in 1 .. Len(s)
    BY <1>0
  <2>7. ASSUME x \in Range(s) PROVE x \in Range(l) \/ x \in Range(r)
    <3>1. PICK i \in 1 .. Len(s) : s[i] = x  BY <2>1, <2>7
    <3>2. CASE i <= n  BY <3>1, <3>2, <2>2, <1>0
    <3>3. CASE i > n  BY <3>1, <3>3, <2>3, <2>4
    <3> QED BY <3>2, <3>3, <1>0
  <2> QED BY <2>1, <2>2, <2>3, <2>5, <2>6, <2>7
<1> QED BY <1>1, <1>2, <1>4, <1>5, <1>6, <1>7 DEF l, r

\* Taking the head off a list (remove_uninit, remove_empty, the partial page of
\* allocate_batch_v2).
THEOREM TailElements ==
  ASSUME NEW S, NEW s \in Seq(S), IsInjective(s), s # <<>>
  PROVE  /\ Tail(s) \in Seq(S)
         /\ Len(Tail(s)) = Len(s) - 1
         /\ IsInjective(Tail(s))
         /\ Head(s) \in S /\ Head(s) \in Range(s) /\ Head(s) = s[1]
         /\ Range(Tail(s)) = Range(s) \ {Head(s)}
<1> DEFINE l == SubSeq(s, 1, 1)
           r == SubSeq(s, 1 + 1, Len(s))
<1>1. 1 \in 0 .. Len(s) /\ 1 \in 1 .. Len(s) /\ Head(s) = s[1] /\ Tail(s) = r
  BY TailIsSubSeq, EmptySeq
<1>2. /\ r \in Seq(S) /\ Len(r) = Len(s) - 1
      /\ IsInjective(r)
      /\ Disjoint(Range(l), Range(r))
      /\ Range(l) \cup Range(r) = Range(s)
  BY <1>1, CutElements
<1>3. l \in Seq(S) /\ Len(l) = 1 /\ l[1] = s[1]
  BY <1>1
<1> HIDE DEF l, r
<1>4. Range(l) = {s[1]}
  BY <1>3, InRange
<1>5. s[1] \in S
  BY <1>1
<1> QED BY <1>1, <1>2, <1>4, <1>5 DEF Disjoint

\* An element of one list of the family is on no other.
LEMMA OnOneList ==
  ASSUME NEW K, NEW S, NEW f \in [K -> Seq(S)], NoSharing(f),
         NEW g \in K, NEW x \in Range(f[g])
  PROVE  NotElsewhere(f, x, {g})
  BY DEF NoSharing, Disjoint, NotElsewhere

\* Unlinking the i-th element of the list at g.
THEOREM UnlinkOne ==
  ASSUME NEW K, NEW S, NEW f \in [K -> Seq(S)], NoSharing(f),
         NEW g \in K, NEW i \in 1 .. Len(f[g]), NEW q \in [K -> Seq(S)],
         q[g] = RemoveAt(f[g], i), SameElsewhere(f, q, {g})
  PROVE  /\ NoSharing(q)
         /\ f[g][i] \in S
         /\ Loses(f, q, g, f[g][i])
         /\ NotElsewhere(f, f[g][i], {g})
<1> DEFINE x == f[g][i]
<1>1. f[g] \in Seq(S) /\ IsInjective(f[g])
  BY DEF NoSharing
<1>2. /\ IsInjective(q[g]) /\ Len(q[g]) = Len(f[g]) - 1
      /\ Range(q[g]) = Range(f[g]) \ {x}
  BY <1>1, RemoveAtElements
<1>3. x \in S /\ x \in Range(f[g])
  BY <1>1, InRange
<1> HIDE DEF x
<1>4. \A y \in Range(f[g]) : NotElsewhere(f, y, {g})
  BY OnOneList
<1>5. NoSharing(q)
  BY <1>2, <1>4, AssignList
<1> QED BY <1>2, <1>3, <1>4, <1>5 DEF x, Loses

\* Linking an element that is on no list behind the last one at h.
THEOREM LinkOne ==
  ASSUME NEW K, NEW S, NEW f \in [K -> Seq(S)], NoSharing(f),
         NEW h \in K, NEW x \in S, NotElsewhere(f, x, {}),
         NEW q \in [K -> Seq(S)],
         q[h] = Append(f[h], x), SameElsewhere(f, q, {h})
  PROVE  NoSharing(q) /\ Gains(f, q, h, x)
<1>1. f[h] \in Seq(S) /\ IsInjective(f[h])
  BY DEF NoSharing
<1>2. x \notin Range(f[h]) /\ NotElsewhere(f, x, {h})
  BY DEF NotElsewhere
<1>3. /\ IsInjective(q[h]) /\ Len(q[h]) = Len(f[h]) + 1
      /\ Range(q[h]) = Range(f[h]) \cup {x}
  BY <1>1, <1>2, AppendElements
<1>4. \A y \in Range(f[h]) : NotElsewhere(f, y, {h})
  BY OnOneList
<1>5. \A y \in Range(q[h]) : NotElsewhere(f, y, {h})
  BY <1>2, <1>3, <1>4
<1>6. NoSharing(q)
  BY <1>3, <1>5, AssignList
<1> QED BY <1>2, <1>3, <1>6 DEF Gains

\* Moving the i-th element of the list at g behind the last one at h.
THEOREM MoveOne ==
  ASSUME NEW K, NEW S, NEW f \in [K -> Seq(S)], NoSharing(f),
         NEW g \in K, NEW h \in K, g # h, NEW i \in 1 .. Len(f[g]),
         NEW q \in [K -> Seq(S)],
         q[g] = RemoveAt(f[g], i), q[h] = Append(f[h], f[g][i]),
         SameElsewhere(f, q, {g, h})
  PROVE  /\ NoSharing(q)
         /\ f[g][i] \in S
         /\ Loses(f, q, g, f[g][i]) /\ Gains(f, q, h, f[g][i])
         /\ NotElsewhere(f, f[g][i], {g})
<1>1. f[g] \in Seq(S) /\ f[h] \in Seq(S) /\ IsInjective(f[g])
  BY DEF NoSharing
<1>2. RemoveAt(f[g], i) \in Seq(S)
  BY <1>1, RemoveAtElements
<1>3. PICK e \in [K -> Seq(S)] :
           e[g] = RemoveAt(f[g], i) /\ SameElsewhere(f, e, {g})
  <2>1. /\ [f EXCEPT ![g] = RemoveAt(@, i)] \in [K -> Seq(S)]
        /\ SameElsewhere(f, [f EXCEPT ![g] = RemoveAt(@, i)], {g})
    BY <1>2 DEF SameElsewhere
  <2> QED BY <2>1
<1>4. /\ NoSharing(e) /\ f[g][i] \in S
      /\ Loses(f, e, g, f[g][i])
      /\ NotElsewhere(f, f[g][i], {g})
  BY <1>3, UnlinkOne
<1>5. PICK x \in S : x = f[g][i]
  BY <1>4
<1>6. NotElsewhere(e, x, {})
  BY <1>3, <1>4, <1>5 DEF NotElsewhere, SameElsewhere, Loses
<1>7. e[h] = f[h] /\ q[h] = Append(e[h], x) /\ SameElsewhere(e, q, {h})
  BY <1>3, <1>5 DEF SameElsewhere
<1>8. NoSharing(q) /\ Gains(e, q, h, x)
  BY <1>4, <1>6, <1>7, LinkOne
<1>9. Loses(f, q, g, x) /\ Gains(f, q, h, x)
  BY <1>3, <1>4, <1>5, <1>7, <1>8 DEF Loses, Gains
<1> QED BY <1>4, <1>5, <1>8, <1>9

\* Taking the head off a list removes its first element.
LEMMA TailIsRemoveAt ==
  ASSUME NEW S, NEW s \in Seq(S), s # <<>>
  PROVE  Tail(s) = RemoveAt(s, 1) /\ Head(s) = s[1] /\ 1 \in 1 .. Len(s)
<1>1. Len(s) \in Nat /\ Len(s) > 0 /\ 1 \in 1 .. Len(s)
  BY EmptySeq
<1>2. SubSeq(s, 1, 0) = <<>>
  BY <1>1
<1>3. SubSeq(s, 2, Len(s)) \in Seq(S) /\ Tail(s) = SubSeq(s, 2, Len(s))
  BY <1>1, TailIsSubSeq
<1>4. <<>> \o SubSeq(s, 2, Len(s)) = SubSeq(s, 2, Len(s))
  BY <1>3, ConcatEmptySeq
<1>5. RemoveAt(s, 1) = SubSeq(s, 1, 0) \o SubSeq(s, 2, Len(s))
  BY <1>1 DEF RemoveAt
<1>6. Tail(s) = RemoveAt(s, 1)
  BY ONLY <1>2, <1>3, <1>4, <1>5, Zenon
<1> QED BY <1>1, <1>6

\* A list without repetitions is no longer than the set its elements are
\* from, and if it is as long it has all of them.
THEOREM FullListHasAll ==
  ASSUME NEW T, IsFiniteSet(T), NEW s \in Seq(T), IsInjective(s)
  PROVE  /\ Len(s) <= Cardinality(T)
         /\ Len(s) = Cardinality(T) => Range(s) = T
<1>0. Len(s) \in Nat /\ s \in [1 .. Len(s) -> T]
  BY LenProperties
<1>1. IsFiniteSet(1 .. Len(s)) /\ Cardinality(1 .. Len(s)) = Len(s)
  BY <1>0, FS_Interval
<1>2. s \in Injection(1 .. Len(s), T)
  BY <1>0 DEF Injection
<1>3. /\ Cardinality(1 .. Len(s)) <= Cardinality(T)
      /\ Cardinality(1 .. Len(s)) = Cardinality(T) => s \in Surjection(1 .. Len(s), T)
  BY <1>2, FS_Injection
<1>4. ASSUME s \in Surjection(1 .. Len(s), T) PROVE Range(s) = T
  <2>1. ASSUME NEW x PROVE x \in Range(s) <=> \E i \in 1 .. Len(s) : s[i] = x
    BY InRange
  <2> QED BY <2>1, <1>4, <1>0 DEF Surjection
<1> QED BY <1>1, <1>3, <1>4

-----------------------------------------------------------------------------
(***************************************************************************)
(* Numbers.                                                                *)
(***************************************************************************)
\* A set of numbers has a least one.
LEMMA Smallest ==
  ASSUME NEW T \in SUBSET Nat, T # {}
  PROVE  \E m \in T : \A k \in T : m <= k
<1> DEFINE F == {0 .. k : k \in T}
<1>1. F \subseteq FiniteSubsetsOf(Nat)
  <2>1. \A k \in T : 0 .. k \in SUBSET Nat /\ IsFiniteSet(0 .. k) BY FS_Interval
  <2> QED BY <2>1 DEF FiniteSubsetsOf
<1>2. PICK A \in F : \A B \in F : ~ (<<B, A>> \in StrictSubsetOrdering(Nat))
  BY <1>1, F # {}, FS_StrictSubsetOrderingWellFounded, WFMin
<1>3. PICK m \in T : A = 0 .. m OBVIOUS
<1>4. ASSUME NEW k \in T, k < m PROVE FALSE
  <2>1. 0 .. k \in F /\ 0 .. k \subseteq 0 .. m /\ m \notin 0 .. k /\ m \in 0 .. m
    BY <1>4
  <2>2. <<0 .. k, 0 .. m>> \in StrictSubsetOrdering(Nat)
    BY <2>1 DEF StrictSubsetOrdering
  <2> QED BY <1>2, <1>3, <2>1, <2>2
<1> QED BY <1>4

\* A finite set of numbers has a greatest one.
LEMMA Greatest ==
  ASSUME NEW S \in SUBSET Nat, S # {}, IsFiniteSet(S)
  PROVE  Max(S) \in S /\ \A x \in S : x <= Max(S)
<1> DEFINE U(x) == {y \in S : y > x}
           F == {U(x) : x \in S}
<1>1. F \subseteq FiniteSubsetsOf(Nat)
  <2>1. \A x \in S : U(x) \in SUBSET S OBVIOUS
  <2>2. \A x \in S : IsFiniteSet(U(x)) BY <2>1, FS_Subset
  <2> QED BY <2>1, <2>2 DEF FiniteSubsetsOf
<1>2. PICK A \in F : \A B \in F : ~ (<<B, A>> \in StrictSubsetOrdering(Nat))
  BY <1>1, F # {}, FS_StrictSubsetOrderingWellFounded, WFMin
<1>3. PICK m \in S : A = U(m) OBVIOUS
<1>4. ASSUME NEW k \in S, k > m PROVE FALSE
  <2>1. U(k) \in F OBVIOUS
  <2>4. m \in Nat /\ k \in Nat OBVIOUS
  <2>5. \A y \in Nat : y > k => y > m BY <1>4, <2>4
  <2>6. U(k) \subseteq U(m) BY <2>5
  <2>7. k \in U(m) BY <1>4
  <2>8. k \notin U(k) BY <2>4
  <2>3. U(k) \subseteq U(m) /\ k \in U(m) /\ k \notin U(k) BY <2>6, <2>7, <2>8
  <2>2. <<U(k), U(m)>> \in StrictSubsetOrdering(Nat)
    BY <2>3 DEF StrictSubsetOrdering
  <2> QED BY <1>2, <1>3, <2>1, <2>2
<1>5. \E x \in S : \A y \in S : x >= y BY <1>4
<1> QED BY <1>5 DEF Max

\* Min of a set of numbers, which need not be finite.
LEMMA Least ==
  ASSUME NEW S \in SUBSET Nat, S # {}
  PROVE  Min(S) \in S /\ \A x \in S : Min(S) <= x
<1>1. \E x \in S : \A y \in S : x <= y BY Smallest
<1> QED BY <1>1 DEF Min

\* What holds of 0 and of the successor of all it holds of holds up to any bound.
LEMMA Upwards ==
  ASSUME NEW n \in Nat, NEW T, 0 \in T, \A i \in 0 .. n - 1 : i \in T => i + 1 \in T
  PROVE  0 .. n \subseteq T
<1> SUFFICES ASSUME (0 .. n) \ T # {} PROVE FALSE OBVIOUS
<1> DEFINE R == (0 .. n) \ T
<1>1. PICK m \in R : \A k \in R : m <= k
  <2>1. R \in SUBSET Nat /\ R # {} OBVIOUS
  <2> QED BY <2>1, Smallest
<1>2. m # 0 /\ m - 1 \in 0 .. n - 1 BY <1>1
<1>3. m - 1 \in T BY <1>1, <1>2
<1> QED BY <1>1, <1>2, <1>3

\* Quotient and remainder.
LEMMA Division ==
  ASSUME NEW x \in Nat, NEW n \in Nat \ {0}
  PROVE  /\ x \div n \in Nat /\ x % n \in 0 .. n - 1
         /\ x = n * (x \div n) + (x % n)
BY Z3

LEMMA QuotientBound ==
  ASSUME NEW x \in Nat, NEW n \in Nat \ {0}, NEW q \in Nat, q * n <= x, x < (q + 1) * n
  PROVE  x \div n = q
OBVIOUS

\* Dividing twice is dividing by the product.
LEMMA DivideTwice ==
  ASSUME NEW n \in Nat, NEW a \in Nat \ {0}, NEW b \in Nat \ {0}
  PROVE  (n \div a) \div b = n \div (a * b)
<1> DEFINE q == n \div a
           r == n % a
           p == q \div b
           s == q % b
<1>1. q \in Nat /\ r \in 0 .. a - 1 /\ n = a * q + r BY Division
<1>2. p \in Nat /\ s \in 0 .. b - 1 /\ q = b * p + s BY <1>1, Division
<1> HIDE DEF q, r, p, s
<1>3. a * b \in Nat \ {0} /\ p \in Nat BY <1>2
<1>4. n = a * (b * p + s) + r BY <1>1, <1>2
<1>5. a * (b * p + s) = p * (a * b) + a * s BY <1>2
<1>6. a * s + r < a * b /\ a * s + r >= 0 /\ a * s \in Nat
  <2>1. s + 1 <= b BY <1>2
  <2>2. a * (s + 1) <= a * b BY <1>2, <2>1
  <2>3. a * (s + 1) = a * s + a BY <1>2
  <2>4. a * s \in Nat /\ a * b \in Nat BY <1>2
  <2> QED BY <1>1, <2>2, <2>3, <2>4
<1> DEFINE m == a * b
           u == a * s + r
           v == p * m
<1>7. v \in Nat /\ u \in Nat /\ m \in Nat \ {0} /\ u < m /\ n = v + u
  BY <1>1, <1>2, <1>3, <1>4, <1>5, <1>6
<1>8. (p + 1) * m = v + m BY <1>2, <1>3
<1>9. p * m <= n /\ n < (p + 1) * m
  <2> HIDE DEF u, m
  <2>1. v = p * m /\ (p + 1) * m = v + m BY <1>8
  <2> HIDE DEF v
  <2> QED BY <1>7, <2>1
<1> HIDE DEF m
<1>10. n \div m = p BY <1>2, <1>7, <1>9, QuotientBound
<1> QED BY <1>10 DEF m, p, q

LEMMA Small ==
  ASSUME NEW n \in Nat \ {0}, NEW x \in Nat, x < n
  PROVE  x % n = x
<1>1. 0 * n <= x /\ x < (0 + 1) * n OBVIOUS
<1>2. x \div n = 0 BY <1>1, QuotientBound
<1>3. x = n * (x \div n) + (x % n) /\ x % n \in 0 .. n - 1 BY Division
<1> QED BY <1>2, <1>3

LEMMA RemainderStep ==
  ASSUME NEW n \in Nat \ {0}, NEW L \in Nat \ {0}
  PROVE  n % L = IF (n - 1) % L = L - 1 THEN 0 ELSE ((n - 1) % L) + 1
<1> DEFINE q == (n - 1) \div L
           r == (n - 1) % L
<1>1. q \in Nat /\ r \in 0 .. L - 1 /\ n - 1 = L * q + r
  BY Division, n - 1 \in Nat
<1>2. n % L \in 0 .. L - 1 /\ n = L * (n \div L) + (n % L) /\ n \div L \in Nat
  BY Division
<1> HIDE DEF q, r
<1>3. CASE r = L - 1
  <2>1. n = (q + 1) * L BY <1>1, <1>3
  <2>2. (q + 1) * L <= n /\ n < (q + 1 + 1) * L /\ q + 1 \in Nat BY <1>1, <2>1
  <2>3. n \div L = q + 1 BY <2>2, QuotientBound
  <2>4. n % L = 0 BY <1>1, <1>2, <2>1, <2>3
  <2> QED BY <1>3, <2>4 DEF r
<1>4. CASE r # L - 1
  <2>1. n = q * L + r + 1 /\ r + 1 < L BY <1>1, <1>4
  <2>2. q * L <= n /\ n < (q + 1) * L BY <1>1, <2>1
  <2>3. n \div L = q BY <1>1, <2>2, QuotientBound
  <2>4. n % L = r + 1 BY <1>1, <1>2, <2>1, <2>3
  <2> QED BY <1>4, <2>4 DEF r
<1> QED BY <1>3, <1>4

\* A recursive function along a range of numbers exists: f begins with a, and g
\* leads from every value to the next.
Follows(f, n, S, a, g) ==
  /\ f \in [0 .. n -> S] /\ f[0] = a
  /\ \A k \in 1 .. n : f[k] = g[<<k, f[k - 1]>>]

LEMMA Recursion ==
  ASSUME NEW n \in Nat, NEW S, NEW a \in S, NEW g \in [(1 .. n) \X S -> S]
  PROVE  \E f : Follows(f, n, S, a, g)
<1> DEFINE Rec(f, m) == /\ f \in [0 .. m -> S] /\ f[0] = a
                        /\ \A k \in 1 .. m : f[k] = g[<<k, f[k - 1]>>]
           T == {m \in 0 .. n : \E f : Rec(f, m)}
<1>1. 0 \in T
  <2> DEFINE f == [k \in 0 .. 0 |-> a]
  <2>1. f \in [0 .. 0 -> S] /\ f[0] = a /\ \A k \in 1 .. 0 : FALSE OBVIOUS
  <2> HIDE DEF f
  <2>2. Rec(f, 0) BY <2>1
  <2> QED BY <2>2
<1>2. ASSUME NEW m \in 0 .. n - 1, m \in T PROVE m + 1 \in T
  <2>1. PICK f : Rec(f, m) BY <1>2
  <2> DEFINE h == [k \in 0 .. m + 1 |-> IF k = m + 1 THEN g[<<m + 1, f[m]>>] ELSE f[k]]
  <2>2. m \in Nat /\ m + 1 \in 1 .. n /\ f[m] \in S /\ (m + 1) - 1 = m BY <2>1
  <2>3. g[<<m + 1, f[m]>>] \in S BY <2>2
  <2>4. h \in [0 .. m + 1 -> S] /\ h[0] = a BY <2>1, <2>2, <2>3
  <2>5. h[m + 1] = g[<<m + 1, f[m]>>] /\ \A k \in 0 .. m : h[k] = f[k] BY <2>2
  <2> HIDE DEF h
  <2>6. ASSUME NEW k \in 1 .. m + 1 PROVE h[k] = g[<<k, h[k - 1]>>]
    <3>1. CASE k = m + 1
      <4>1. k - 1 = m /\ m \in 0 .. m BY <2>2, <3>1
      <4> QED BY <2>5, <3>1, <4>1
    <3>2. CASE k # m + 1
      <4>1. k \in 1 .. m /\ k \in 0 .. m /\ k - 1 \in 0 .. m BY <2>2, <3>2
      <4> QED BY <2>1, <2>5, <4>1
    <3> QED BY <3>1, <3>2
  <2>7. Rec(h, m + 1) BY <2>4, <2>6
  <2> QED BY <2>2, <2>7
<1> HIDE DEF T
<1>3. 0 .. n \subseteq T BY <1>1, <1>2, Upwards
<1>4. n \in T BY <1>3
<1> QED BY <1>4 DEF T, Follows

Power(k) == 2 ^ k

LEMMA Doubles ==
  /\ Power(0) = 1 /\ Power(20) = 1048576
  /\ \A k \in 0 .. 20 : Power(k) \in Nat \ {0}
  /\ \A k \in 1 .. 20 : Power(k) = 2 * Power(k - 1)
<1>1. /\ Power(0) = 1 /\ Power(1) = 2 /\ Power(2) = 4 /\ Power(3) = 8 /\ Power(4) = 16
      /\ Power(5) = 32 /\ Power(6) = 64 /\ Power(7) = 128 /\ Power(8) = 256
      /\ Power(9) = 512 /\ Power(10) = 1024 /\ Power(11) = 2048 /\ Power(12) = 4096
      /\ Power(13) = 8192 /\ Power(14) = 16384 /\ Power(15) = 32768 /\ Power(16) = 65536
      /\ Power(17) = 131072 /\ Power(18) = 262144 /\ Power(19) = 524288
      /\ Power(20) = 1048576
  BY SMT DEF Power
<1>2. \A k \in 0 .. 20 :
        k \in {0, 1, 2, 3, 4, 5, 6, 7, 8, 9, 10, 11, 12, 13, 14, 15, 16, 17, 18, 19, 20}
  BY SMT
<1>3. \A k \in 0 .. 20 : Power(k) \in Nat \ {0} BY <1>1, <1>2, SMT
<1>4. \A k \in 1 .. 20 : Power(k) = 2 * Power(k - 1) BY <1>1, <1>2, SMT
<1> QED BY <1>1, <1>3, <1>4, SMT
=============================================================================
