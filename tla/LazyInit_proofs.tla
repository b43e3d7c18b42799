-------------------------- MODULE LazyInit_proofs --------------------------
(***************************************************************************)
(* First use and last use for any number of threads: one zone and one      *)
(* array of list heads, and one owner for every unit of metadata.          *)
(*                                                                         *)
(* The argument about memory: what is held or donated is exactly what has  *)
(* been cut from the mapped regions, and a step cuts one fresh object, or  *)
(* passes one object on.  sc::BumpAlloc would also cut an object larger    *)
(* than what is left of its region; ZonesFit says that it does not, and    *)
(* ZonesAlwaysFit when that is certain.                                    *)
(***************************************************************************)
EXTENDS LazyInit, LinkedLists_proofs

-----------------------------------------------------------------------------
(***************************************************************************)
(* The stages of a thread.                                                 *)
(***************************************************************************)
Early == {<<"start">>, <<"key">>, <<"register">>, <<"mark">>, <<"save">>}

\* The thread has an object that it has not published.
Holding(t) ==
  pc[t] \in {<<"publish", "zone">>, <<"publish", "lists">>, <<"discard">>}

\* A key exists before its number is used.
KeyInv ==
  /\ tsd => pkey # 0
  /\ \A t \in Thread : pc[t] \in {<<"mark">>, <<"save">>} => pkey # 0

StageInv(t) ==
  /\ pc[t] # <<"start">> => tcache[t] # Null
  /\ pc[t] \notin Early \cup {<<"dead">>} => specific[t] = tcache[t]
  /\ mine[t] # Null <=> Holding(t)
  /\ pc[t] \in {<<"build", "zone">>, <<"publish", "zone">>} => ref[t]["zone"] = Null
  /\ ref[t]["zone"] = Null => lost[t] = Null

\* What a thread knows is still so when only other threads move.
LEMMA OtherStages ==
  ASSUME NEW t \in Thread, StageInv(t),
         pc'[t] = pc[t], tcache'[t] = tcache[t], specific'[t] = specific[t],
         mine'[t] = mine[t], ref'[t] = ref[t], lost'[t] = lost[t]
  PROVE  StageInv(t)'
BY DEF StageInv, Holding

-----------------------------------------------------------------------------
(***************************************************************************)
(* Who holds which metadata.                                               *)
(***************************************************************************)
Entries(tag, K, f) == {<<tag, k, f[k]>> : k \in {j \in K : f[j] # Null}}

CacheOf ==
  [t \in Thread |-> IF pc[t] \in {<<"start">>, <<"dead">>} THEN Null ELSE tcache[t]]

Statics == Entries("static", Static, value)
Caches == Entries("cache", Thread, CacheOf)
Mines == Entries("mine", Thread, mine)
Losts == Entries("lost", Thread, lost)
Backups == {<<"backup", o, o>> : o \in Range(backup)}

\* As Owned, but a returned cache is not named by its place on the list.
Held == Statics \cup Caches \cup Mines \cup Losts \cup Backups

Apart(S) == \A a, b \in S : a # b => Disjoint(Units(a[3]), Units(b[3]))

\* The units of META_BUMP's regions, and those it has not cut yet.
Mapped == RegionUnits .. meta.regions * RegionUnits + RegionUnits - 1
Fresh == meta.start .. meta.current - 1

Covered(S, D) == (UNION {Units(a[3]) : a \in S}) \cup UNION {Units(d) : d \in D}

RegionInv ==
  /\ meta.start = meta.regions * RegionUnits
  /\ meta.current <= meta.start + RegionUnits
  /\ meta.regions = 0 => meta.current = 0
  /\ meta.regions # 0 => meta.start <= meta.current

MemInv ==
  /\ RegionInv
  /\ IsInjective(backup)
  /\ Apart(Held)
  /\ Covered(Held, donated) = Mapped \ Fresh

LazyInv == TypeOK /\ KeyInv /\ (\A t \in Thread : StageInv(t)) /\ MemInv

\* What is left of the region holds a zone whenever a thread is to build one.
ZonesFit ==
  \A t \in Thread : pc[t] = <<"build", "zone">> =>
    RegionSpent \/ meta.start + ZoneUnits <= meta.current

-----------------------------------------------------------------------------
\* An entry more, or one less, of each kind.
LEMMA StaticAdded ==
  ASSUME NEW k \in Static, NEW o, o # Null, value[k] = Null, value'[k] = o,
         \A j \in Static : j # k => value'[j] = value[j]
  PROVE  Statics' = Statics \cup {<<"static", k, o>>}
BY DEF Statics, Entries, Static

LEMMA CacheAdded ==
  ASSUME NEW k \in Thread, NEW o, o # Null, CacheOf[k] = Null, CacheOf'[k] = o,
         \A j \in Thread : j # k => CacheOf'[j] = CacheOf[j]
  PROVE  Caches' = Caches \cup {<<"cache", k, o>>}
BY DEF Caches, Entries

LEMMA CacheRemoved ==
  ASSUME NEW k \in Thread, CacheOf[k] # Null, CacheOf'[k] = Null,
         \A j \in Thread : j # k => CacheOf'[j] = CacheOf[j]
  PROVE  /\ <<"cache", k, CacheOf[k]>> \in Caches
         /\ Caches' = Caches \ {<<"cache", k, CacheOf[k]>>}
BY DEF Caches, Entries

LEMMA MineAdded ==
  ASSUME NEW k \in Thread, NEW o, o # Null, mine[k] = Null, mine'[k] = o,
         \A j \in Thread : j # k => mine'[j] = mine[j]
  PROVE  Mines' = Mines \cup {<<"mine", k, o>>}
BY DEF Mines, Entries

LEMMA MineRemoved ==
  ASSUME NEW k \in Thread, mine[k] # Null, mine'[k] = Null,
         \A j \in Thread : j # k => mine'[j] = mine[j]
  PROVE  /\ <<"mine", k, mine[k]>> \in Mines
         /\ Mines' = Mines \ {<<"mine", k, mine[k]>>}
BY DEF Mines, Entries

LEMMA LostAdded ==
  ASSUME NEW k \in Thread, NEW o, o # Null, lost[k] = Null, lost'[k] = o,
         \A j \in Thread : j # k => lost'[j] = lost[j]
  PROVE  Losts' = Losts \cup {<<"lost", k, o>>}
BY DEF Losts, Entries

LEMMA LostRemoved ==
  ASSUME NEW k \in Thread, lost[k] # Null, lost'[k] = Null,
         \A j \in Thread : j # k => lost'[j] = lost[j]
  PROVE  /\ <<"lost", k, lost[k]>> \in Losts
         /\ Losts' = Losts \ {<<"lost", k, lost[k]>>}
BY DEF Losts, Entries

\* The kinds of holders are different.
LEMMA Tags ==
  /\ \A a \in Statics : a[1] = "static"
  /\ \A a \in Caches : a[1] = "cache"
  /\ \A a \in Mines : a[1] = "mine"
  /\ \A a \in Losts : a[1] = "lost"
  /\ \A a \in Backups : a[1] = "backup"
BY DEF Statics, Caches, Mines, Losts, Backups, Entries

\* An object passes from one holder to another, ...
LEMMA PassedOn ==
  ASSUME NEW S, Apart(S), NEW D, NEW x \in S, NEW y, y[3] = x[3]
  PROVE  LET T == (S \ {x}) \cup {y}
         IN  Apart(T) /\ Covered(T, D) = Covered(S, D)
<1> DEFINE T == (S \ {x}) \cup {y}
<1>1. Apart(T)
  <2> SUFFICES ASSUME NEW a \in T, NEW b \in T, a # b
               PROVE  Disjoint(Units(a[3]), Units(b[3]))
    BY DEF Apart
  <2>1. CASE a # y /\ b # y BY <2>1 DEF Apart
  <2>2. CASE a = y
    <3>1. b \in S /\ b # x /\ a[3] = x[3] BY <2>2
    <3> QED BY <3>1 DEF Apart
  <2>3. CASE b = y
    <3>1. a \in S /\ a # x /\ b[3] = x[3] BY <2>3
    <3> QED BY <3>1 DEF Apart
  <2> QED BY <2>1, <2>2, <2>3
<1>2. \A u : (\E a \in T : u \in Units(a[3])) <=> (\E a \in S : u \in Units(a[3]))
  OBVIOUS
<1> QED BY <1>1, <1>2 DEF Covered

\* ... or to the backend, ...
LEMMA GivenAway ==
  ASSUME NEW S, Apart(S), NEW D, NEW x \in S
  PROVE  Apart(S \ {x}) /\ Covered(S \ {x}, D \cup {x[3]}) = Covered(S, D)
<1>1. Apart(S \ {x}) BY DEF Apart
<1> QED BY <1>1 DEF Covered

\* ... or comes from META_BUMP.
LEMMA Received ==
  ASSUME NEW S, Apart(S), NEW D, NEW y, Disjoint(Units(y[3]), Covered(S, D))
  PROVE  /\ Apart(S \cup {y})
         /\ Covered(S \cup {y}, D) = Covered(S, D) \cup Units(y[3])
<1>1. \A a \in S : Units(a[3]) \subseteq Covered(S, D) BY DEF Covered
<1>2. Apart(S \cup {y}) BY <1>1 DEF Apart, Disjoint
<1> QED BY <1>2 DEF Covered

\* An object is not empty, so it is held once.
LEMMA ObjectUnits ==
  ASSUME NEW o \in Object
  PROVE  o[1] \in Nat /\ o[2] \in Nat \ {0} /\ o[1] \in Units(o)
<1>1. o[1] \in Unit /\ o[2] \in {1, ZoneUnits} BY DEF Object
<1>2. RegionUnits \in Nat /\ ZoneUnits \in Nat \ {0} BY LazyAssumption
<1>3. o[1] \in Nat
  <2>1. o[1] \in Int /\ RegionUnits <= o[1] BY <1>1, <1>2 DEF Unit
  <2> QED BY <1>2, <2>1
<1>4. o[2] \in Nat \ {0} BY <1>1, <1>2
<1> QED BY <1>3, <1>4 DEF Units

LEMMA HeldOnce ==
  ASSUME Apart(Held), NEW x \in Held, x[1] # "backup", x[3] \in Object
  PROVE  x[3] \notin Range(backup)
<1> SUFFICES ASSUME x[3] \in Range(backup) PROVE FALSE OBVIOUS
<1> DEFINE o == x[3]
           b == <<"backup", o, o>>
<1>1. b \in Held BY DEF Held, Backups
<1>2. b # x OBVIOUS
<1>3. Disjoint(Units(o), Units(o)) BY <1>1, <1>2 DEF Apart
<1>4. o[1] \in Units(o) BY ObjectUnits
<1> QED BY <1>3, <1>4 DEF Disjoint

-----------------------------------------------------------------------------
(***************************************************************************)
(* META_BUMP.                                                              *)
(***************************************************************************)
LEMMA RegionPlace ==
  ASSUME NEW r \in Nat, NEW m \in Nat, r < m
  PROVE  /\ r * RegionUnits \in Nat
         /\ (r + 1) * RegionUnits = r * RegionUnits + RegionUnits
         /\ (m + 1) * RegionUnits \in Nat
         /\ r * RegionUnits + RegionUnits + RegionUnits <= (m + 1) * RegionUnits
<1>1. RegionUnits \in Nat BY LazyAssumption
<1> DEFINE n == RegionUnits
<1> HIDE DEF n
<1>2. n \in Nat BY <1>1 DEF n
<1>3. (r + 1) * n = r * n + n /\ (m + 1) * n = m * n + n BY <1>2, SMTT(30)
<1>4. r * n \in Nat /\ m * n \in Nat BY <1>2, SMTT(30)
<1>5. (r + 1) * n <= m * n BY <1>2, SMTT(30)
<1>6. /\ r * n \in Nat /\ (r + 1) * n = r * n + n /\ (m + 1) * n \in Nat
      /\ r * n + n + n <= (m + 1) * n
  BY <1>2, <1>3, <1>4, <1>5
<1> QED BY <1>6 DEF n

\* An object cut from a region is fresh, and is all that the region loses.
LEMMA Cut ==
  ASSUME TypeOK, RegionInv, NEW n \in {1, ZoneUnits}, MetaTake(n), ~ FromBackup(n),
         RegionSpent \/ meta.start + n <= meta.current
  PROVE  LET o == MetaObject(n)
         IN  /\ o \in Object /\ o[2] = n
             /\ RegionInv' /\ backup' = backup
             /\ Disjoint(Units(o), Mapped \ Fresh)
             /\ (Mapped \ Fresh)' = (Mapped \ Fresh) \cup Units(o)
             /\ meta' \in [start : Nat, current : Nat, regions : 0 .. MaxRegions]
<1> DEFINE R == RegionUnits
           s == meta.start
           c == meta.current
           r == meta.regions
           o == MetaObject(n)
<1>1. /\ R \in Nat \ {0} /\ n \in Nat \ {0} /\ n <= R /\ MaxRegions \in Nat
  BY LazyAssumption
<1>2. /\ s \in Nat /\ c \in Nat /\ r \in 0 .. MaxRegions
      /\ meta \in [start : Nat, current : Nat, regions : 0 .. MaxRegions]
  BY DEF TypeOK
<1>3. /\ s = r * R /\ c <= s + R /\ (r = 0 => c = 0) /\ (r # 0 => s <= c)
  BY DEF RegionInv
<1>4. /\ Mapped = R .. s + R - 1 /\ Fresh = s .. c - 1
  BY <1>3 DEF Mapped, Fresh
<1>5. backup' = backup BY DEF MetaTake
<1>6. CASE ~ RegionSpent
  <2>1. /\ s < c /\ s + n <= c BY <1>2, <1>6 DEF RegionSpent
  <2>2. meta' = [meta EXCEPT !.current = @ - n] BY <1>6 DEF MetaTake
  <2>3. o = <<c - n, n>> BY <1>6 DEF MetaObject
  <2>4. /\ meta'.start = s /\ meta'.current = c - n /\ meta'.regions = r
    BY <1>2, <2>2
  <2>5. r # 0 /\ r - 1 \in Nat /\ r - 1 < MaxRegions /\ (r - 1) + 1 = r
    BY <1>1, <1>2, <1>3, <2>1
  <2>6. R <= s /\ s + R <= (MaxRegions + 1) * R /\ (MaxRegions + 1) * R \in Nat
    <3>1. /\ (r - 1) * R \in Nat
          /\ r * R = (r - 1) * R + R
          /\ (MaxRegions + 1) * R \in Nat
          /\ (r - 1) * R + R + R <= (MaxRegions + 1) * R
      BY <1>1, <2>5, RegionPlace
    <3> HIDE DEF s, R
    <3> QED BY <1>1, <1>3, <3>1
  <2>7. /\ Mapped' = R .. s + R - 1 /\ Fresh' = s .. c - n - 1
    BY <1>3, <2>4 DEF Mapped, Fresh
  <2>8. Units(o) = c - n .. c - 1
    <3>1. o[1] = c - n /\ o[2] = n BY <2>3
    <3> HIDE DEF o, c
    <3> QED BY <1>1, <1>2, <3>1 DEF Units
  <2>9. RegionInv'
    <3> HIDE DEF s, c, r, R
    <3>1. /\ s = r * R /\ c - n <= s + R /\ (r = 0 => c - n = 0)
          /\ (r # 0 => s <= c - n)
      BY <1>1, <1>2, <1>3, <2>1, <2>5
    <3> QED BY <2>4, <3>1 DEF RegionInv, R
  <2>10. o \in Object
    <3>1. c - n \in Unit
      <4> HIDE DEF s, c, R
      <4>1. /\ c - n \in Int /\ R <= c - n /\ c - n <= (MaxRegions + 1) * R - 1
        BY <1>1, <1>2, <1>3, <2>1, <2>6
      <4> QED BY <1>1, <2>6, <4>1 DEF Unit, R
    <3> QED BY <2>3, <3>1 DEF Object
  <2>11. meta' \in [start : Nat, current : Nat, regions : 0 .. MaxRegions]
    <3>1. c - n \in Nat BY <1>1, <1>2, <2>1
    <3> QED BY <1>2, <2>2, <3>1
  <2> HIDE DEF s, c, r, R
  <2>12. Disjoint(Units(o), Mapped \ Fresh)
    <3>1. \A u \in c - n .. c - 1 : u \in s .. c - 1 BY <1>1, <1>2, <2>1
    <3> QED BY <1>4, <2>8, <3>1 DEF Disjoint
  <2>13. (Mapped \ Fresh)' = (Mapped \ Fresh) \cup Units(o)
    <3>1. \A u : (u \in R .. s + R - 1 /\ u \notin s .. c - n - 1) <=>
                   ((u \in R .. s + R - 1 /\ u \notin s .. c - 1) \/ u \in c - n .. c - 1)
      BY <1>1, <1>2, <1>3, <2>1, <2>6
    <3> QED BY <1>4, <2>7, <2>8, <3>1
  <2> QED BY <1>5, <2>3, <2>9, <2>10, <2>11, <2>12, <2>13 DEF o
<1>7. CASE RegionSpent
  <2>1. c <= s BY <1>7 DEF RegionSpent
  <2> DEFINE q == NextStart
  <2>2. /\ r < MaxRegions
        /\ meta' = [start |-> q, current |-> q + R - n, regions |-> r + 1]
    BY <1>7 DEF MetaTake
  <2>3. o = <<q + R - n, n>> BY <1>7 DEF MetaObject
  <2>4. /\ meta'.start = q /\ meta'.current = q + R - n /\ meta'.regions = r + 1
    BY <2>2
  <2>5. /\ q = (r + 1) * R /\ q = s + R /\ q + R <= (MaxRegions + 1) * R
        /\ (MaxRegions + 1) * R \in Nat
    <3>1. /\ r * R \in Nat /\ (r + 1) * R = r * R + R
          /\ (MaxRegions + 1) * R \in Nat
          /\ r * R + R + R <= (MaxRegions + 1) * R
      BY <1>1, <1>2, <2>2, RegionPlace
    <3>2. q = (r + 1) * R BY DEF NextStart
    <3> HIDE DEF q, s, R
    <3> QED BY <1>1, <1>3, <3>1, <3>2
  <2> HIDE DEF q
  <2>6. q \in Nat BY <1>1, <1>2, <2>5
  <2>7. /\ Mapped' = R .. q + R - 1 /\ Fresh' = q .. q + R - n - 1
    <3>1. Mapped' = R .. meta'.regions * R + R - 1 BY DEF Mapped
    <3>2. Fresh' = meta'.start .. meta'.current - 1 BY DEF Fresh
    <3>3. meta'.regions * R = q BY <2>4, <2>5
    <3>4. Mapped' = R .. q + R - 1
      <4> DEFINE k == meta'.regions * R
      <4>1. Mapped' = R .. k + R - 1 /\ k = q BY <3>1, <3>3
      <4> HIDE DEF k
      <4> QED BY <4>1
    <3>5. Fresh' = q .. q + R - n - 1 BY <1>1, <2>4, <2>6, <3>2
    <3> QED BY <3>4, <3>5
  <2>8. Units(o) = q + R - n .. q + R - 1
    <3>1. o[1] = q + R - n /\ o[2] = n BY <2>3
    <3> HIDE DEF o, R
    <3> QED BY <1>1, <2>6, <3>1 DEF Units
  <2>9. RegionInv'
    <3>1. /\ q = (r + 1) * R /\ q + R - n <= q + R /\ r + 1 # 0
          /\ q <= q + R - n
      BY <1>1, <1>2, <2>5, <2>6
    <3> QED BY <2>4, <3>1 DEF RegionInv
  <2>10. o \in Object
    <3>1. q + R - n \in Unit
      <4> HIDE DEF s, R
      <4>1. /\ q + R - n \in Int /\ R <= q + R - n
            /\ q + R - n <= (MaxRegions + 1) * R - 1
        BY <1>1, <1>2, <2>5, <2>6
      <4> QED BY <1>1, <2>5, <4>1 DEF Unit, R
    <3> QED BY <2>3, <3>1 DEF Object
  <2>11. meta' \in [start : Nat, current : Nat, regions : 0 .. MaxRegions]
    <3>1. q + R - n \in Nat /\ r + 1 \in 0 .. MaxRegions BY <1>1, <1>2, <2>2, <2>6
    <3> QED BY <2>2, <2>6, <3>1
  <2> HIDE DEF s, c, r, R
  <2>12. Disjoint(Units(o), Mapped \ Fresh)
    <3>1. \A u \in q + R - n .. q + R - 1 : u \notin R .. s + R - 1
      BY <1>1, <1>2, <2>5, <2>6
    <3> QED BY <1>4, <2>8, <3>1 DEF Disjoint
  <2>13. (Mapped \ Fresh)' = (Mapped \ Fresh) \cup Units(o)
    <3>1. \A u : (u \in R .. q + R - 1 /\ u \notin q .. q + R - n - 1) <=>
                   ((u \in R .. s + R - 1 /\ u \notin s .. c - 1)
                      \/ u \in q + R - n .. q + R - 1)
      BY <1>1, <1>2, <1>3, <2>1, <2>5, <2>6
    <3> QED BY <1>4, <2>7, <2>8, <3>1
  <2> QED BY <1>5, <2>3, <2>9, <2>10, <2>11, <2>12, <2>13 DEF o
<1> QED BY <1>6, <1>7

-----------------------------------------------------------------------------
(***************************************************************************)
(* What a step may do to the holders.                                      *)
(***************************************************************************)
Others == Statics \cup Caches \cup Mines \cup Losts

LEMMA HeldIs ==
  /\ Held = Others \cup Backups /\ \A a \in Others : a[1] # "backup"
  /\ Held' = Others' \cup Backups'
<1>1. Held = Others \cup Backups BY DEF Held, Others
<1>2. \A a \in Others : a[1] # "backup" BY Tags DEF Others
<1>3. Held' = Others' \cup Backups' BY DEF Held, Others
<1> QED BY <1>1, <1>2, <1>3

LEMMA EntriesNext ==
  /\ Statics' = Entries("static", Static, value')
  /\ Caches' = Entries("cache", Thread, CacheOf')
  /\ Mines' = Entries("mine", Thread, mine')
  /\ Losts' = Entries("lost", Thread, lost')
BY DEF Statics, Caches, Mines, Losts, Entries, Static

LEMMA SameMemory ==
  ASSUME UNCHANGED <<metaVars, donated>>
  PROVE  /\ (Mapped \ Fresh)' = Mapped \ Fresh /\ Backups' = Backups
         /\ RegionInv => RegionInv'
BY DEF Mapped, Fresh, Backups, RegionInv, metaVars

LEMMA NothingPasses ==
  ASSUME MemInv, UNCHANGED <<metaVars, donated>>, Others' = Others
  PROVE  MemInv'
<1>1. /\ (Mapped \ Fresh)' = Mapped \ Fresh /\ RegionInv'
  BY SameMemory DEF MemInv
<1>2. Held' = Held BY HeldIs, SameMemory
<1>3. IsInjective(backup') BY DEF MemInv, metaVars
<1>4. Apart(Held') BY <1>2 DEF MemInv
<1>5. Covered(Held', donated') = Mapped \ Fresh BY <1>2 DEF MemInv
<1> QED BY <1>1, <1>3, <1>4, <1>5 DEF MemInv, Apart, Covered, Units

\* MemInv of the next state, in terms of the next holders.
LEMMA MemInvNext ==
  ASSUME RegionInv', IsInjective(backup'), Apart(Held'),
         Covered(Held', donated') = (Mapped \ Fresh)'
  PROVE  MemInv'
BY DEF MemInv, Apart, Covered, Units

LEMMA PassKeeps ==
  ASSUME MemInv, UNCHANGED <<metaVars, donated>>, NEW x \in Others, NEW y,
         y[1] # "backup", y[3] = x[3], Others' = (Others \ {x}) \cup {y}
  PROVE  MemInv'
<1>1. (Mapped \ Fresh)' = Mapped \ Fresh /\ RegionInv' /\ Backups' = Backups
  BY SameMemory DEF MemInv
<1>2. x \in Held /\ x \notin Backups BY HeldIs, Tags
<1>3. Held' = (Held \ {x}) \cup {y} BY <1>1, <1>2, HeldIs
<1>4. Apart(Held) /\ Covered(Held, donated) = Mapped \ Fresh BY DEF MemInv
<1>5. Apart(Held') /\ Covered(Held', donated) = Covered(Held, donated)
  BY <1>2, <1>3, <1>4, PassedOn
<1>6. IsInjective(backup') BY DEF MemInv, metaVars
<1> QED BY <1>1, <1>4, <1>5, <1>6, MemInvNext

LEMMA DonateKeeps ==
  ASSUME MemInv, UNCHANGED metaVars, NEW x \in Others,
         donated' = donated \cup {x[3]}, Others' = Others \ {x}
  PROVE  MemInv'
<1>1. (Mapped \ Fresh)' = Mapped \ Fresh /\ RegionInv' /\ Backups' = Backups
  BY DEF MemInv, Mapped, Fresh, Backups, RegionInv, metaVars
<1>2. x \in Held /\ x \notin Backups BY HeldIs, Tags
<1>3. Held' = Held \ {x} BY <1>1, <1>2, HeldIs
<1>4. Apart(Held) /\ Covered(Held, donated) = Mapped \ Fresh BY DEF MemInv
<1>5. Apart(Held') /\ Covered(Held', donated') = Covered(Held, donated)
  BY <1>2, <1>3, <1>4, GivenAway
<1>6. IsInjective(backup') BY DEF MemInv, metaVars
<1> QED BY <1>1, <1>4, <1>5, <1>6, MemInvNext

LEMMA ReturnKeeps ==
  ASSUME TypeOK, MemInv, NEW x \in Others, x[3] \in Object, MetaDealloc(x[3]),
         donated' = donated, Others' = Others \ {x}
  PROVE  MemInv' /\ backup' \in Seq(Object) /\ meta' = meta
<1> DEFINE o == x[3]
           y == <<"backup", o, o>>
<1>1. meta' = meta /\ backup' = <<o>> \o backup BY DEF MetaDealloc
<1>2. (Mapped \ Fresh)' = Mapped \ Fresh /\ RegionInv'
  BY <1>1 DEF MemInv, Mapped, Fresh, RegionInv
<1>3. /\ x \in Held /\ x \notin Backups /\ x[1] # "backup" BY HeldIs, Tags
<1>4. /\ Apart(Held) /\ Covered(Held, donated) = Mapped \ Fresh /\ IsInjective(backup)
      /\ backup \in Seq(Object)
  BY DEF MemInv, TypeOK
<1>5. o \notin Range(backup) BY <1>3, <1>4, HeldOnce
<1>6. <<o>> \in Seq(Object) /\ IsInjective(<<o>>) /\ Range(<<o>>) = {o}
  <2>1. <<o>> \in Seq(Object) /\ Len(<<o>>) = 1 /\ <<o>>[1] = o OBVIOUS
  <2>2. \A i, j \in 1 .. Len(<<o>>) : <<o>>[i] = <<o>>[j] => i = j BY <2>1
  <2>3. IsInjective(<<o>>) BY <2>1, <2>2, Injective
  <2>4. \A z : z \in Range(<<o>>) <=> \E i \in 1 .. Len(<<o>>) : <<o>>[i] = z
    BY <2>1, InRange
  <2>5. \A z : z \in Range(<<o>>) <=> z = o BY <2>1, <2>4
  <2> QED BY <2>1, <2>3, <2>5
<1>7. /\ backup' \in Seq(Object) /\ IsInjective(backup')
      /\ Range(backup') = Range(backup) \cup {o}
  <2> DEFINE l == <<o>>
  <2>1. l \in Seq(Object) /\ IsInjective(l) /\ Range(l) = {o} BY <1>6
  <2>2. Disjoint(Range(l), Range(backup)) BY <1>5, <2>1 DEF Disjoint
  <2>3. backup' = l \o backup BY <1>1
  <2> HIDE DEF l, o
  <2>4. /\ l \o backup \in Seq(Object) /\ IsInjective(l \o backup)
        /\ Range(l \o backup) = Range(l) \cup Range(backup)
    BY <1>4, <2>1, <2>2, ConcatElements
  <2> QED BY <2>1, <2>3, <2>4
<1> HIDE DEF o
<1>8. Backups' = Backups \cup {y} BY <1>7 DEF Backups
<1>9. Held' = (Held \ {x}) \cup {y} BY <1>3, <1>8, HeldIs
<1>10. y[3] = x[3] BY DEF o
<1>11. Apart(Held') /\ Covered(Held', donated) = Covered(Held, donated)
  BY <1>3, <1>4, <1>9, <1>10, PassedOn, ZenonT(40)
<1> QED BY <1>1, <1>2, <1>4, <1>7, <1>11, MemInvNext

LEMMA TakeKeeps ==
  ASSUME TypeOK, MemInv, NEW n \in {1, ZoneUnits}, MetaTake(n),
         RegionSpent \/ meta.start + n <= meta.current,
         NEW y, y[1] # "backup", y[3] = MetaObject(n),
         donated' = donated, Others' = Others \cup {y}
  PROVE  /\ MemInv' /\ MetaObject(n) \in Object /\ backup' \in Seq(Object)
         /\ meta' \in [start : Nat, current : Nat, regions : 0 .. MaxRegions]
<1>1. /\ Apart(Held) /\ Covered(Held, donated) = Mapped \ Fresh /\ IsInjective(backup)
      /\ backup \in Seq(Object) /\ RegionInv
      /\ meta \in [start : Nat, current : Nat, regions : 0 .. MaxRegions]
  BY DEF MemInv, TypeOK
<1>2. CASE FromBackup(n)
  <2> DEFINE o == Head(backup)
             x == <<"backup", o, o>>
  <2>1. backup' = Tail(backup) /\ meta' = meta /\ backup # <<>> /\ MetaObject(n) = o
    BY <1>2 DEF MetaTake, FromBackup, MetaObject
  <2>2. /\ backup' \in Seq(Object) /\ IsInjective(backup')
        /\ o \in Object /\ o \in Range(backup)
        /\ Range(backup') = Range(backup) \ {o}
    BY <1>1, <2>1, TailElements
  <2>3. (Mapped \ Fresh)' = Mapped \ Fresh /\ RegionInv'
    BY <1>1, <2>1 DEF Mapped, Fresh, RegionInv
  <2> HIDE DEF o
  <2>4. x \in Backups /\ Backups' = Backups \ {x} BY <2>2 DEF Backups
  <2>5. x \in Held /\ x \notin Others BY <2>4, HeldIs
  <2>6. Held' = (Held \ {x}) \cup {y} BY <2>4, <2>5, HeldIs
  <2>7. y[3] = x[3] BY <2>1
  <2> HIDE DEF x
  <2>8. Apart(Held') /\ Covered(Held', donated) = Covered(Held, donated)
    <3>1. /\ Apart((Held \ {x}) \cup {y})
          /\ Covered((Held \ {x}) \cup {y}, donated) = Covered(Held, donated)
      BY <1>1, <2>5, <2>7, PassedOn, ZenonT(40)
    <3> QED BY <2>6, <3>1
  <2> QED BY <1>1, <2>1, <2>2, <2>3, <2>8, MemInvNext
<1>3. CASE ~ FromBackup(n)
  <2> DEFINE o == MetaObject(n)
  <2>1. /\ o \in Object /\ RegionInv' /\ backup' = backup
        /\ Disjoint(Units(o), Mapped \ Fresh)
        /\ (Mapped \ Fresh)' = (Mapped \ Fresh) \cup Units(o)
        /\ meta' \in [start : Nat, current : Nat, regions : 0 .. MaxRegions]
    BY <1>1, <1>3, Cut
  <2> HIDE DEF o
  <2>2. Backups' = Backups BY <2>1 DEF Backups
  <2>3. Held' = Held \cup {y} BY <2>2, HeldIs
  <2>4. y[3] = o BY DEF o
  <2>5. Apart(Held') /\ Covered(Held', donated) = Covered(Held, donated) \cup Units(o)
    <3>1. Disjoint(Units(y[3]), Covered(Held, donated)) BY <1>1, <2>1, <2>4
    <3>2. /\ Apart(Held \cup {y})
          /\ Covered(Held \cup {y}, donated) = Covered(Held, donated) \cup Units(y[3])
      BY <1>1, <3>1, Received, ZenonT(40)
    <3> QED BY <2>3, <2>4, <3>2
  <2>6. Covered(Held', donated') = (Mapped \ Fresh)' BY <1>1, <2>1, <2>5
  <2>7. MemInv' BY <1>1, <2>1, <2>5, <2>6, MemInvNext
  <2> QED BY <1>1, <2>1, <2>7 DEF o
<1> QED BY <1>2, <1>3

LEMMA TakeObject ==
  ASSUME TypeOK, MemInv, NEW n \in {1, ZoneUnits}, MetaTake(n),
         RegionSpent \/ meta.start + n <= meta.current
  PROVE  MetaObject(n) \in Object /\ MetaObject(n) # Null
<1>1. IsInjective(backup) /\ backup \in Seq(Object) /\ RegionInv BY DEF MemInv, TypeOK
<1>2. MetaObject(n) \in Object
  <2>1. CASE FromBackup(n)
    <3>1. backup # <<>> /\ MetaObject(n) = Head(backup)
      BY <2>1 DEF FromBackup, MetaObject
    <3> QED BY <1>1, <3>1, TailElements
  <2>2. CASE ~ FromBackup(n) BY <1>1, <2>2, Cut
  <2> QED BY <2>1, <2>2
<1> QED BY <1>2, NullAssumption

-----------------------------------------------------------------------------
(***************************************************************************)
(* Every step keeps the invariant.                                         *)
(***************************************************************************)
LEMMA InitLazyInv == Init => LazyInv
<1> SUFFICES ASSUME Init PROVE LazyInv OBVIOUS
<1>1. RegionUnits \in Nat \ {0} /\ MaxRegions \in Nat BY LazyAssumption
<1>2. /\ meta = [start |-> 0, current |-> 0, regions |-> 0] /\ backup = <<>>
      /\ donated = {}
  BY DEF Init
<1>3. TypeOK
  <2>1. pc \in [Thread -> PC] BY DEF Init, PC
  <2>2. meta \in [start : Nat, current : Nat, regions : 0 .. MaxRegions]
    BY <1>1, <1>2
  <2>3. backup \in Seq(Object) BY <1>2
  <2>4. /\ tcache \in [Thread -> Object \cup {Null}]
        /\ specific \in [Thread -> Object \cup {Null}]
        /\ mine \in [Thread -> Object \cup {Null}]
        /\ lost \in [Thread -> Object \cup {Null}]
    BY DEF Init
  <2>5. /\ value \in [Static -> Object \cup {Null}]
        /\ ref \in [Thread -> [Static -> Object \cup {Null}]]
    BY DEF Init
  <2>6. tsd \in BOOLEAN /\ pkey \in 0 .. keys /\ keys \in Nat
    <3>1. tsd \in BOOLEAN BY Zenon DEF Init
    <3>2. pkey = 0 /\ keys = 0 BY DEF Init
    <3> QED BY <3>1, <3>2
  <2> QED BY <1>2, <2>1, <2>2, <2>3, <2>4, <2>5, <2>6 DEF TypeOK
<1>4. KeyInv BY DEF Init, KeyInv
<1>5. \A t \in Thread : StageInv(t) BY DEF Init, StageInv, Holding, Early
<1>6. MemInv
  <2>1. Range(<<>>) = {} /\ IsInjective(<<>>)
    <3>1. <<>> \in Seq({}) /\ Len(<<>>) = 0 BY EmptySeq
    <3>2. \A z : z \in Range(<<>>) <=> \E i \in 1 .. 0 : <<>>[i] = z
      BY <3>1, InRange
    <3>3. \A i, j \in 1 .. Len(<<>>) : <<>>[i] = <<>>[j] => i = j BY <3>1
    <3>4. IsInjective(<<>>) BY <3>1, <3>3, Injective
    <3> QED BY <3>2, <3>4
  <2>2. Statics = {} /\ Caches = {} /\ Mines = {} /\ Losts = {} /\ Backups = {}
    BY <1>2, <2>1 DEF Init, Statics, Caches, Mines, Losts, Backups, Entries, CacheOf
  <2>3. Held = {} BY <2>2 DEF Held
  <2>4. RegionInv BY <1>1, <1>2 DEF RegionInv
  <2>5. Mapped \ Fresh = {}
    <3>1. Mapped = RegionUnits .. 0 * RegionUnits + RegionUnits - 1 BY <1>2 DEF Mapped
    <3>2. Mapped = {} BY <1>1, <3>1
    <3> QED BY <3>2
  <2>6. Covered(Held, donated) = {} BY <1>2, <2>3 DEF Covered
  <2>7. Apart(Held) BY <2>3 DEF Apart
  <2> QED BY <1>2, <2>1, <2>4, <2>5, <2>6, <2>7 DEF MemInv
<1> QED BY <1>3, <1>4, <1>5, <1>6 DEF LazyInv

\* A step of one thread.
LEMMA OneMoves ==
  ASSUME LazyInv, NEW t \in Thread, TypeOK', KeyInv', StageInv(t)', MemInv',
         \A u \in Thread : u # t =>
           /\ pc'[u] = pc[u] /\ tcache'[u] = tcache[u] /\ specific'[u] = specific[u]
           /\ mine'[u] = mine[u] /\ ref'[u] = ref[u] /\ lost'[u] = lost[u]
  PROVE  LazyInv'
<1>1. \A u \in Thread : u # t => StageInv(u)' BY OtherStages DEF LazyInv
<1> QED BY <1>1 DEF LazyInv

\* The holders do not change with the key.
LEMMA SameHolders ==
  ASSUME UNCHANGED <<value, tcache, mine, lost>>,
         \A t \in Thread :
           pc'[t] \in {<<"start">>, <<"dead">>} <=> pc[t] \in {<<"start">>, <<"dead">>}
  PROVE  Others' = Others
<1>1. CacheOf' = CacheOf BY DEF CacheOf
<1> QED BY <1>1, EntriesNext DEF Others, Statics, Caches, Mines, Losts

LEMMA NewCacheKeeps ==
  ASSUME LazyInv, NEW t \in Thread, NewCache(t)
  PROVE  LazyInv'
<1> DEFINE o == MetaObject(1)
           y == <<"cache", t, o>>
<1>1. TypeOK /\ MemInv /\ KeyInv /\ StageInv(t) BY DEF LazyInv
<1>2. /\ pc[t] = <<"start">> /\ MetaTake(1)
      /\ tcache' = [tcache EXCEPT ![t] = o] /\ pc' = [pc EXCEPT ![t] = <<"key">>]
      /\ UNCHANGED <<tsd, pkey, keys, specific, value, ref, mine, lost, donated>>
  BY DEF NewCache, Goto, tlsVars
<1>3. RegionSpent \/ meta.start + 1 <= meta.current
  BY <1>1 DEF RegionSpent, TypeOK
<1>4. o \in Object /\ o # Null BY <1>1, <1>2, <1>3, TakeObject
<1> HIDE DEF o
<1>5. Others' = Others \cup {y}
  <2>1. CacheOf[t] = Null BY <1>2 DEF CacheOf
  <2>2. CacheOf'[t] = o /\ \A u \in Thread : u # t => CacheOf'[u] = CacheOf[u]
    BY <1>1, <1>2 DEF CacheOf, TypeOK
  <2>4. Caches' = Caches \cup {y} BY <1>4, <2>1, <2>2, CacheAdded
  <2> QED BY <1>2, <2>4, EntriesNext DEF Others, Statics, Mines, Losts
<1>6. /\ MemInv' /\ backup' \in Seq(Object)
      /\ meta' \in [start : Nat, current : Nat, regions : 0 .. MaxRegions]
  BY <1>1, <1>2, <1>3, <1>5, TakeKeeps DEF o
<1>7. \A u \in Thread : u # t => pc'[u] = pc[u] /\ tcache'[u] = tcache[u]
  BY <1>1, <1>2 DEF TypeOK
<1>8. pc'[t] = <<"key">> /\ tcache'[t] = o BY <1>1, <1>2 DEF TypeOK
<1>9. TypeOK'
  <2>1. pc' \in [Thread -> PC] BY <1>1, <1>2 DEF TypeOK, PC
  <2>2. tcache' \in [Thread -> Object \cup {Null}] BY <1>1, <1>2, <1>4 DEF TypeOK
  <2> QED BY <1>1, <1>2, <1>6, <2>1, <2>2 DEF TypeOK
<1>10. KeyInv' BY <1>1, <1>2, <1>7, <1>8 DEF KeyInv
<1>11. StageInv(t)'
  BY <1>1, <1>2, <1>4, <1>8 DEF StageInv, Holding, Early
<1> QED BY <1>2, <1>6, <1>7, <1>9, <1>10, <1>11, OneMoves

\* The steps around the TLS key move no object.
LEMMA KeyKeeps ==
  ASSUME LazyInv, NEW t \in Thread,
         TestKey(t) \/ RegisterTlsKey(t) \/ MarkKey(t) \/ SaveTls(t)
  PROVE  LazyInv'
<1>1. TypeOK /\ MemInv /\ KeyInv /\ StageInv(t) BY DEF LazyInv
<1>2. UNCHANGED <<tcache, value, ref, mine, lost, metaVars, donated>>
  BY DEF TestKey, RegisterTlsKey, MarkKey, SaveTls
<1>3. PICK w \in {<<"register">>, <<"mark">>, <<"save">>, <<"run">>} :
        pc' = [pc EXCEPT ![t] = w]
  BY DEF TestKey, RegisterTlsKey, MarkKey, SaveTls, Goto
<1>4. pc[t] \in {<<"key">>, <<"register">>, <<"mark">>, <<"save">>}
  BY DEF TestKey, RegisterTlsKey, MarkKey, SaveTls
<1>5. pc'[t] = w /\ \A u \in Thread : u # t => pc'[u] = pc[u]
  BY <1>1, <1>3 DEF TypeOK
<1>6. \A u \in Thread :
        pc'[u] \in {<<"start">>, <<"dead">>} <=> pc[u] \in {<<"start">>, <<"dead">>}
  BY <1>3, <1>4, <1>5
<1>7. MemInv' BY <1>1, <1>2, <1>6, SameHolders, NothingPasses
<1>8. /\ \A u \in Thread : u # t => specific'[u] = specific[u]
      /\ specific' \in [Thread -> Object \cup {Null}]
      /\ w = <<"run">> => specific'[t] = tcache[t]
  <2>1. CASE SaveTls(t)
    <3>1. pkey # 0 BY <1>1, <2>1 DEF SaveTls, KeyInv
    <3>2. specific' = [specific EXCEPT ![t] = tcache[t]] BY <2>1, <3>1 DEF SaveTls
    <3> QED BY <1>1, <3>2 DEF TypeOK
  <2>2. CASE ~ SaveTls(t)
    <3>1. specific' = specific BY <2>2 DEF TestKey, RegisterTlsKey, MarkKey, tlsVars
    <3>2. w # <<"run">> BY <1>1, <1>5, <2>2 DEF TestKey, RegisterTlsKey, MarkKey, Goto, TypeOK
    <3> QED BY <1>1, <3>1, <3>2 DEF TypeOK
  <2> QED BY <2>1, <2>2
<1>9. /\ pkey' \in 0 .. keys' /\ keys' \in Nat /\ (pkey # 0 => pkey' # 0)
      /\ w = <<"mark">> => pkey' # 0
  <2>1. CASE RegisterTlsKey(t)
    <3>1. keys' = keys + 1 /\ pkey' = keys + 1 BY <2>1 DEF RegisterTlsKey
    <3>2. keys \in Nat BY <1>1 DEF TypeOK
    <3> QED BY <3>1, <3>2
  <2>2. CASE ~ RegisterTlsKey(t)
    <3>1. pkey' = pkey /\ keys' = keys BY <2>2 DEF TestKey, MarkKey, SaveTls, tlsVars
    <3>2. w # <<"mark">>
      BY <1>1, <1>5, <2>2 DEF TestKey, MarkKey, SaveTls, Goto, TypeOK
    <3> QED BY <1>1, <3>1, <3>2 DEF TypeOK
  <2> QED BY <2>1, <2>2
<1>10. /\ tsd' \in BOOLEAN
       /\ tsd' => tsd \/ pc[t] = <<"mark">>
       /\ w = <<"save">> => tsd \/ pc[t] = <<"mark">>
  <2>1. CASE TestKey(t)
    <3>1. tsd' = tsd BY <2>1 DEF TestKey, tlsVars
    <3>2. w = <<"save">> => tsd
      <4>1. w = IF tsd THEN <<"save">> ELSE <<"register">>
        BY <1>1, <1>5, <2>1 DEF TestKey, Goto, TypeOK
      <4> QED BY <4>1
    <3> QED BY <1>1, <3>1, <3>2, Zenon DEF TypeOK
  <2>2. CASE RegisterTlsKey(t) \/ SaveTls(t)
    <3>1. tsd' = tsd BY <2>2 DEF RegisterTlsKey, SaveTls
    <3>2. w # <<"save">> BY <1>1, <1>5, <2>2 DEF RegisterTlsKey, SaveTls, Goto, TypeOK
    <3> QED BY <1>1, <3>1, <3>2, Zenon DEF TypeOK
  <2>3. CASE MarkKey(t) BY <2>3, Zenon DEF MarkKey
  <2> QED BY <2>1, <2>2, <2>3
<1>11. TypeOK'
  <2>1. pc' \in [Thread -> PC] BY <1>1, <1>3 DEF TypeOK, PC
  <2>2. meta' = meta /\ backup' = backup BY <1>2 DEF metaVars
  <2> QED BY <1>1, <1>2, <1>8, <1>9, <1>10, <2>1, <2>2 DEF TypeOK
<1>12. KeyInv'
  <2>1. tsd \/ pc[t] = <<"mark">> => pkey # 0 BY <1>1 DEF KeyInv
  <2>2. tsd' => pkey' # 0 BY <1>9, <1>10, <2>1
  <2>3. \A u \in Thread : u # t /\ pc'[u] \in {<<"mark">>, <<"save">>} => pkey' # 0
    BY <1>1, <1>5, <1>9 DEF KeyInv
  <2>4. pc'[t] \in {<<"mark">>, <<"save">>} => pkey' # 0 BY <1>5, <1>9, <1>10, <2>1
  <2> QED BY <2>2, <2>3, <2>4 DEF KeyInv
<1>13. StageInv(t)'
  <2>1. w \in Early \/ w = <<"run">> BY <1>3 DEF Early
  <2> QED BY <1>1, <1>2, <1>4, <1>5, <1>8, <2>1 DEF StageInv, Holding
<1> QED BY <1>2, <1>5, <1>7, <1>8, <1>11, <1>12, <1>13, OneMoves

LEMMA RefSet ==
  ASSUME NEW T, NEW S, NEW K, NEW f \in [T -> [K -> S]], NEW t \in T, NEW k \in K, NEW o \in S
  PROVE  [f EXCEPT ![t][k] = o] \in [T -> [K -> S]]
OBVIOUS

LEMMA LoadKeeps ==
  ASSUME LazyInv, NEW t \in Thread, NEW s \in Static, Load(t, s)
  PROVE  LazyInv'
<1>1. TypeOK /\ MemInv /\ KeyInv /\ StageInv(t) BY DEF LazyInv
<1>2. /\ pc[t] = <<"run">> /\ ref[t][s] = Null
      /\ UNCHANGED <<tcache, tlsVars, value, mine, lost, metaVars, donated>>
  BY DEF Load
<1>3. \/ value[s] # Null /\ ref' = [ref EXCEPT ![t][s] = value[s]] /\ pc' = pc
      \/ pc' = [pc EXCEPT ![t] = <<"build", s>>] /\ ref' = ref
  BY DEF Load, Goto
<1>4. \A u \in Thread : u # t => pc'[u] = pc[u] /\ ref'[u] = ref[u]
  BY <1>1, <1>3 DEF TypeOK
<1>5. pc'[t] = <<"run">> \/ (pc'[t] = <<"build", s>> /\ ref'[t] = ref[t])
  BY <1>1, <1>2, <1>3 DEF TypeOK
<1>6. \A u \in Thread :
        pc'[u] \in {<<"start">>, <<"dead">>} <=> pc[u] \in {<<"start">>, <<"dead">>}
  BY <1>2, <1>4, <1>5
<1>7. MemInv' BY <1>1, <1>2, <1>6, SameHolders, NothingPasses
<1>8. tsd' = tsd /\ pkey' = pkey /\ keys' = keys /\ specific' = specific
  BY <1>2 DEF tlsVars
<1>9. TypeOK'
  <2>1. pc' \in [Thread -> PC]
    <3>1. <<"build", s>> \in PC BY DEF PC
    <3>2. pc \in [Thread -> PC] BY <1>1 DEF TypeOK
    <3> HIDE DEF PC
    <3> QED BY <1>3, <3>1, <3>2
  <2>2. ref' \in [Thread -> [Static -> Object \cup {Null}]]
    <3>1. value[s] \in Object \cup {Null} BY <1>1 DEF TypeOK
    <3>2. ref \in [Thread -> [Static -> Object \cup {Null}]] BY <1>1 DEF TypeOK
    <3> QED BY <1>3, <3>1, <3>2, RefSet
  <2>3. meta' = meta /\ backup' = backup BY <1>2 DEF metaVars
  <2> QED BY <1>1, <1>2, <1>8, <2>1, <2>2, <2>3 DEF TypeOK
<1>10. KeyInv'
  <2>1. \A u \in Thread : pc'[u] \in {<<"mark">>, <<"save">>} =>
                            pc[u] \in {<<"mark">>, <<"save">>}
    BY <1>4, <1>5
  <2> QED BY <1>1, <1>8, <2>1 DEF KeyInv
<1>11. ref'[t]["zone"] = Null => ref[t]["zone"] = Null
  BY <1>1, <1>3 DEF TypeOK, Static
<1>12. pc'[t] = <<"build", "zone">> => ref'[t]["zone"] = Null
  BY <1>2, <1>5
<1>13. StageInv(t)'
  BY <1>1, <1>2, <1>5, <1>8, <1>11, <1>12 DEF StageInv, Holding, Early, Static
<1> QED BY <1>2, <1>4, <1>7, <1>8, <1>9, <1>10, <1>13, OneMoves

LEMMA BuildKeeps ==
  ASSUME LazyInv, ZonesFit, NEW t \in Thread, NEW s \in Static, Build(t, s)
  PROVE  LazyInv'
<1> DEFINE o == MetaObject(Size(s))
           y == <<"mine", t, o>>
<1>1. TypeOK /\ MemInv /\ KeyInv /\ StageInv(t) BY DEF LazyInv
<1>2. /\ pc[t] = <<"build", s>> /\ MetaTake(Size(s))
      /\ mine' = [mine EXCEPT ![t] = o] /\ pc' = [pc EXCEPT ![t] = <<"publish", s>>]
      /\ UNCHANGED <<tcache, tlsVars, value, ref, lost, donated>>
  BY DEF Build, Goto
<1>3. Size(s) \in {1, ZoneUnits} BY DEF Size
<1>4. RegionSpent \/ meta.start + Size(s) <= meta.current
  <2>1. CASE s = "zone" BY <1>2, <2>1 DEF ZonesFit, Size
  <2>2. CASE s # "zone" BY <1>1, <2>2 DEF RegionSpent, TypeOK, Size
  <2> QED BY <2>1, <2>2
<1>5. o \in Object /\ o # Null BY <1>1, <1>2, <1>3, <1>4, TakeObject
<1>6. mine[t] = Null BY <1>1, <1>2 DEF StageInv, Holding
<1>7. pc'[t] = <<"publish", s>> /\ \A u \in Thread : u # t => pc'[u] = pc[u]
  BY <1>1, <1>2 DEF TypeOK
<1>8. /\ mine'[t] = o /\ \A u \in Thread : u # t => mine'[u] = mine[u]
  BY <1>1, <1>2 DEF TypeOK
<1> HIDE DEF o
<1>9. Others' = Others \cup {y}
  <2>1. Mines' = Mines \cup {y} BY <1>5, <1>6, <1>8, MineAdded
  <2>2. CacheOf' = CacheOf BY <1>2, <1>7 DEF CacheOf
  <2> QED BY <1>2, <2>1, <2>2, EntriesNext DEF Others, Statics, Caches, Losts
<1>10. /\ MemInv' /\ backup' \in Seq(Object)
       /\ meta' \in [start : Nat, current : Nat, regions : 0 .. MaxRegions]
  BY <1>1, <1>2, <1>3, <1>4, <1>9, TakeKeeps DEF o
<1>11. tsd' = tsd /\ pkey' = pkey /\ keys' = keys /\ specific' = specific
  BY <1>2 DEF tlsVars
<1>12. TypeOK'
  <2>1. pc' \in [Thread -> PC] BY <1>1, <1>2 DEF TypeOK, PC
  <2>2. mine' \in [Thread -> Object \cup {Null}] BY <1>1, <1>2, <1>5 DEF TypeOK
  <2> QED BY <1>1, <1>2, <1>10, <1>11, <2>1, <2>2 DEF TypeOK
<1>13. KeyInv'
  <2>1. \A u \in Thread : pc'[u] \in {<<"mark">>, <<"save">>} =>
                            pc[u] \in {<<"mark">>, <<"save">>}
    BY <1>7
  <2> QED BY <1>1, <1>11, <2>1 DEF KeyInv
<1>14. StageInv(t)'
  <2>1. pc'[t] = <<"publish", "zone">> => ref[t]["zone"] = Null
    BY <1>1, <1>2, <1>7 DEF StageInv
  <2> QED BY <1>1, <1>2, <1>5, <1>7, <1>8, <1>11, <2>1
          DEF StageInv, Holding, Early, Static
<1> QED BY <1>2, <1>7, <1>8, <1>10, <1>11, <1>12, <1>13, <1>14, OneMoves

LEMMA PublishKeeps ==
  ASSUME LazyInv, NEW t \in Thread, NEW s \in Static, Publish(t, s)
  PROVE  LazyInv'
<1> DEFINE o == mine[t]
           x == <<"mine", t, o>>
<1>1. TypeOK /\ MemInv /\ KeyInv /\ StageInv(t) BY DEF LazyInv
<1>2. /\ pc[t] = <<"publish", s>>
      /\ UNCHANGED <<tcache, tlsVars, metaVars, donated>>
  BY DEF Publish
<1>3. /\ o # Null /\ o \in Object
  BY <1>1, <1>2 DEF StageInv, Holding, Static, TypeOK
<1>4. PICK v \in Object, w \in {<<"run">>, <<"discard">>} :
        /\ ref' = [ref EXCEPT ![t][s] = v] /\ pc' = [pc EXCEPT ![t] = w]
        /\ \/ /\ value[s] = Null /\ value' = [value EXCEPT ![s] = o]
              /\ mine' = [mine EXCEPT ![t] = Null] /\ lost' = lost /\ w = <<"run">>
           \/ /\ s = "lists" /\ value' = value /\ mine' = mine /\ lost' = lost
              /\ w = <<"discard">>
           \/ /\ s = "zone" /\ value' = value /\ mine' = [mine EXCEPT ![t] = Null]
              /\ lost' = [lost EXCEPT ![t] = o] /\ w = <<"run">>
  <2>1. value[s] # Null => value[s] \in Object BY <1>1 DEF TypeOK
  <2>2. CASE value[s] = Null BY <1>3, <2>2 DEF Publish, Goto
  <2>3. CASE value[s] # Null BY <2>1, <2>3 DEF Publish, Goto
  <2> QED BY <2>2, <2>3
<1>5. pc'[t] = w /\ \A u \in Thread : u # t => pc'[u] = pc[u] /\ ref'[u] = ref[u]
  BY <1>1, <1>4 DEF TypeOK
<1>6. tsd' = tsd /\ pkey' = pkey /\ keys' = keys /\ specific' = specific
      /\ meta' = meta /\ backup' = backup
  BY <1>2 DEF tlsVars, metaVars
<1>7. CacheOf' = CacheOf BY <1>2, <1>4, <1>5 DEF CacheOf
<1>8. v # Null BY NullAssumption
<1>9. ref'[t][s] = v BY <1>1, <1>4 DEF TypeOK
<1>10. /\ \A u \in Thread : u # t => mine'[u] = mine[u] /\ lost'[u] = lost[u]
       /\ mine'[t] # Null <=> w = <<"discard">>
       /\ ref'[t]["zone"] = Null => ref[t]["zone"] = Null /\ lost'[t] = lost[t]
  <2>1. mine'[t] # Null <=> w = <<"discard">> BY <1>1, <1>3, <1>4 DEF TypeOK
  <2>2. \A u \in Thread : u # t => mine'[u] = mine[u] /\ lost'[u] = lost[u]
    BY <1>1, <1>4 DEF TypeOK
  <2>3. ref'[t]["zone"] = Null => s # "zone" BY <1>8, <1>9
  <2>4. s # "zone" => ref'[t]["zone"] = ref[t]["zone"] /\ lost' = lost
    BY <1>1, <1>4 DEF TypeOK, Static
  <2> QED BY <2>1, <2>2, <2>3, <2>4
<1>11. MemInv'
  <2>1. CASE /\ value[s] = Null /\ value' = [value EXCEPT ![s] = o]
             /\ mine' = [mine EXCEPT ![t] = Null] /\ lost' = lost
    <3> DEFINE y == <<"static", s, o>>
    <3>1. x \in Mines /\ Mines' = Mines \ {x}
      BY <1>1, <1>3, <2>1, MineRemoved DEF TypeOK
    <3>2. Statics' = Statics \cup {y} BY <1>1, <1>3, <2>1, StaticAdded DEF TypeOK
    <3>3. Caches' = Caches /\ Losts' = Losts
      BY <1>7, <2>1, EntriesNext DEF Caches, Losts
    <3>4. x \in Others /\ Others' = (Others \ {x}) \cup {y}
      BY <3>1, <3>2, <3>3, Tags DEF Others
    <3>5. y[1] # "backup" /\ y[3] = x[3] OBVIOUS
    <3> HIDE DEF x, y
    <3> QED BY <1>1, <1>2, <3>4, <3>5, PassKeeps
  <2>2. CASE value' = value /\ mine' = mine /\ lost' = lost
    <3>1. Others' = Others
      BY <1>7, <2>2, EntriesNext DEF Others, Statics, Caches, Mines, Losts
    <3> QED BY <1>1, <1>2, <3>1, NothingPasses
  <2>3. CASE /\ s = "zone" /\ value' = value /\ mine' = [mine EXCEPT ![t] = Null]
             /\ lost' = [lost EXCEPT ![t] = o]
    <3> DEFINE y == <<"lost", t, o>>
    <3>1. x \in Mines /\ Mines' = Mines \ {x}
      BY <1>1, <1>3, <2>3, MineRemoved DEF TypeOK
    <3>2. lost[t] = Null BY <1>1, <1>2, <2>3 DEF StageInv
    <3>3. Losts' = Losts \cup {y} BY <1>1, <1>3, <2>3, <3>2, LostAdded DEF TypeOK
    <3>4. Caches' = Caches /\ Statics' = Statics
      BY <1>7, <2>3, EntriesNext DEF Caches, Statics
    <3>5. x \in Others /\ Others' = (Others \ {x}) \cup {y}
      BY <3>1, <3>3, <3>4, Tags DEF Others
    <3>6. y[1] # "backup" /\ y[3] = x[3] OBVIOUS
    <3> HIDE DEF x, y
    <3> QED BY <1>1, <1>2, <3>5, <3>6, PassKeeps
  <2> QED BY <1>4, <2>1, <2>2, <2>3
<1>12. TypeOK'
  <2>1. pc' \in [Thread -> PC] BY <1>1, <1>4 DEF TypeOK, PC
  <2>2. ref' \in [Thread -> [Static -> Object \cup {Null}]]
    <3>1. ref \in [Thread -> [Static -> Object \cup {Null}]] BY <1>1 DEF TypeOK
    <3> QED BY <1>4, <3>1, RefSet
  <2>3. /\ value' \in [Static -> Object \cup {Null}]
        /\ mine' \in [Thread -> Object \cup {Null}]
        /\ lost' \in [Thread -> Object \cup {Null}]
    BY <1>1, <1>3, <1>4 DEF TypeOK
  <2> QED BY <1>1, <1>2, <1>6, <2>1, <2>2, <2>3 DEF TypeOK
<1>13. KeyInv'
  <2>1. \A u \in Thread : pc'[u] \in {<<"mark">>, <<"save">>} =>
                            pc[u] \in {<<"mark">>, <<"save">>}
    BY <1>4, <1>5
  <2> QED BY <1>1, <1>6, <2>1 DEF KeyInv
<1>14. StageInv(t)'
  <2>1. pc[t] \notin Early \cup {<<"dead">>} /\ pc[t] # <<"start">>
    BY <1>2 DEF Early
  <2>2. Holding(t)' <=> w = <<"discard">> BY <1>4, <1>5 DEF Holding
  <2>3. pc'[t] \notin {<<"build", "zone">>, <<"publish", "zone">>} BY <1>4, <1>5
  <2> QED BY <1>1, <1>2, <1>6, <1>10, <2>1, <2>2, <2>3 DEF StageInv
<1> QED BY <1>2, <1>5, <1>6, <1>10, <1>11, <1>12, <1>13, <1>14, OneMoves

LEMMA DiscardListsKeeps ==
  ASSUME LazyInv, NEW t \in Thread, DiscardLists(t)
  PROVE  LazyInv'
<1> DEFINE x == <<"mine", t, mine[t]>>
<1>1. TypeOK /\ MemInv /\ KeyInv /\ StageInv(t) BY DEF LazyInv
<1>2. /\ pc[t] = <<"discard">> /\ MetaDealloc(mine[t])
      /\ mine' = [mine EXCEPT ![t] = Null] /\ pc' = [pc EXCEPT ![t] = <<"run">>]
      /\ UNCHANGED <<tcache, tlsVars, value, ref, lost, donated>>
  BY DEF DiscardLists, Goto
<1>3. mine[t] # Null /\ mine[t] \in Object
  BY <1>1, <1>2 DEF StageInv, Holding, TypeOK
<1>4. /\ pc'[t] = <<"run">> /\ mine'[t] = Null
      /\ \A u \in Thread : u # t => pc'[u] = pc[u] /\ mine'[u] = mine[u]
  BY <1>1, <1>2 DEF TypeOK
<1>5. x \in Others /\ Others' = Others \ {x}
  <2>1. x \in Mines /\ Mines' = Mines \ {x} BY <1>3, <1>4, MineRemoved
  <2>2. CacheOf' = CacheOf BY <1>2, <1>4 DEF CacheOf
  <2>3. Statics' = Statics /\ Caches' = Caches /\ Losts' = Losts
    BY <1>2, <2>2, EntriesNext DEF Statics, Caches, Losts
  <2> QED BY <2>1, <2>3, Tags DEF Others
<1>6. MemInv' /\ backup' \in Seq(Object) /\ meta' = meta
  BY <1>1, <1>2, <1>3, <1>5, ReturnKeeps
<1>7. tsd' = tsd /\ pkey' = pkey /\ keys' = keys /\ specific' = specific
  BY <1>2 DEF tlsVars
<1>8. TypeOK'
  <2>1. pc' \in [Thread -> PC] BY <1>1, <1>2 DEF TypeOK, PC
  <2>2. mine' \in [Thread -> Object \cup {Null}] BY <1>1, <1>2 DEF TypeOK
  <2> QED BY <1>1, <1>2, <1>6, <1>7, <2>1, <2>2 DEF TypeOK
<1>9. KeyInv'
  <2>1. \A u \in Thread : pc'[u] \in {<<"mark">>, <<"save">>} =>
                            pc[u] \in {<<"mark">>, <<"save">>}
    BY <1>4
  <2> QED BY <1>1, <1>7, <2>1 DEF KeyInv
<1>10. StageInv(t)'
  BY <1>1, <1>2, <1>4, <1>7 DEF StageInv, Holding, Early
<1> QED BY <1>2, <1>4, <1>6, <1>7, <1>8, <1>9, <1>10, OneMoves

LEMMA DiscardZoneKeeps ==
  ASSUME LazyInv, NEW t \in Thread, DiscardZone(t)
  PROVE  LazyInv'
<1> DEFINE x == <<"lost", t, lost[t]>>
<1>1. TypeOK /\ MemInv /\ KeyInv /\ StageInv(t) BY DEF LazyInv
<1>2. /\ lost[t] # Null /\ donated' = donated \cup {lost[t]}
      /\ lost' = [lost EXCEPT ![t] = Null]
      /\ UNCHANGED <<pc, tcache, tlsVars, value, ref, mine, metaVars>>
  BY DEF DiscardZone
<1>3. lost[t] \in Object BY <1>1, <1>2 DEF TypeOK
<1>4. lost'[t] = Null /\ \A u \in Thread : u # t => lost'[u] = lost[u]
  BY <1>1, <1>2 DEF TypeOK
<1>5. x \in Others /\ Others' = Others \ {x}
  <2>1. x \in Losts /\ Losts' = Losts \ {x} BY <1>2, <1>4, LostRemoved
  <2>2. CacheOf' = CacheOf BY <1>2 DEF CacheOf
  <2>3. Statics' = Statics /\ Caches' = Caches /\ Mines' = Mines
    BY <1>2, <2>2, EntriesNext DEF Statics, Caches, Mines
  <2> QED BY <2>1, <2>3, Tags DEF Others
<1>6. MemInv' BY <1>1, <1>2, <1>5, DonateKeeps
<1>7. /\ tsd' = tsd /\ pkey' = pkey /\ keys' = keys /\ specific' = specific
      /\ meta' = meta /\ backup' = backup
  BY <1>2 DEF tlsVars, metaVars
<1>8. TypeOK' BY <1>1, <1>2, <1>3, <1>7 DEF TypeOK
<1>9. KeyInv' BY <1>1, <1>2, <1>7 DEF KeyInv
<1>10. StageInv(t)' BY <1>1, <1>2, <1>4, <1>7 DEF StageInv, Holding
<1> QED BY <1>2, <1>4, <1>6, <1>7, <1>8, <1>9, <1>10, OneMoves

LEMMA ThreadExitKeeps ==
  ASSUME LazyInv, NEW t \in Thread, ThreadExit(t)
  PROVE  LazyInv'
<1> DEFINE x == <<"cache", t, tcache[t]>>
<1>1. TypeOK /\ MemInv /\ KeyInv /\ StageInv(t) BY DEF LazyInv
<1>2. /\ pc[t] = <<"run">> /\ lost[t] = Null
      /\ specific' = [specific EXCEPT ![t] = Null]
      /\ ref' = [ref EXCEPT ![t] = [s \in Static |-> Null]]
      /\ pc' = [pc EXCEPT ![t] = <<"dead">>]
      /\ UNCHANGED <<tcache, tsd, pkey, keys, value, mine, lost, donated>>
  BY DEF ThreadExit, Goto
\* The destructor of the key runs: the cache was stored before the thread ran.
<1>3. specific[t] = tcache[t] /\ tcache[t] # Null /\ tcache[t] \in Object
  BY <1>1, <1>2 DEF StageInv, Early, TypeOK
<1>4. MetaDealloc(tcache[t]) BY <1>3 DEF ThreadExit
<1>5. /\ pc'[t] = <<"dead">> /\ \A u \in Thread : u # t => pc'[u] = pc[u]
      /\ \A u \in Thread : u # t => specific'[u] = specific[u] /\ ref'[u] = ref[u]
  BY <1>1, <1>2 DEF TypeOK
<1>6. x \in Others /\ Others' = Others \ {x}
  <2>1. CacheOf[t] = tcache[t] /\ CacheOf'[t] = Null BY <1>2, <1>5 DEF CacheOf
  <2>2. \A u \in Thread : u # t => CacheOf'[u] = CacheOf[u] BY <1>2, <1>5 DEF CacheOf
  <2>3. x \in Caches /\ Caches' = Caches \ {x} BY <1>3, <2>1, <2>2, CacheRemoved
  <2>4. Statics' = Statics /\ Mines' = Mines /\ Losts' = Losts
    BY <1>2, EntriesNext DEF Statics, Mines, Losts
  <2> QED BY <2>3, <2>4, Tags DEF Others
<1>7. MemInv' /\ backup' \in Seq(Object) /\ meta' = meta
  <2>1. x[3] = tcache[t] OBVIOUS
  <2> HIDE DEF x
  <2> QED BY <1>1, <1>2, <1>3, <1>4, <1>6, <2>1, ReturnKeeps
<1>8. TypeOK'
  <2>1. pc' \in [Thread -> PC] BY <1>1, <1>2 DEF TypeOK, PC
  <2>2. specific' \in [Thread -> Object \cup {Null}] BY <1>1, <1>2 DEF TypeOK
  <2>3. ref' \in [Thread -> [Static -> Object \cup {Null}]]
    BY <1>1, <1>2 DEF TypeOK
  <2> QED BY <1>1, <1>2, <1>7, <2>1, <2>2, <2>3 DEF TypeOK
<1>9. KeyInv'
  <2>1. \A u \in Thread : pc'[u] \in {<<"mark">>, <<"save">>} =>
                            pc[u] \in {<<"mark">>, <<"save">>}
    BY <1>5
  <2> QED BY <1>1, <1>2, <2>1 DEF KeyInv
<1>10. StageInv(t)'
  BY <1>1, <1>2, <1>3, <1>5 DEF StageInv, Holding, Early
<1> QED BY <1>2, <1>5, <1>7, <1>8, <1>9, <1>10, OneMoves

LEMMA NextLazyInv ==
  ASSUME LazyInv, ZonesFit, [Next]_vars
  PROVE  LazyInv'
<1>1. CASE UNCHANGED vars
  <2>1. UNCHANGED <<pc, tcache, tsd, pkey, keys, specific, value, ref, mine, lost,
                    meta, backup, metaVars, donated>>
    BY <1>1 DEF vars, tlsVars, metaVars
  <2>2. TypeOK /\ KeyInv /\ MemInv BY DEF LazyInv
  <2>3. MemInv' BY <2>1, <2>2, SameHolders, NothingPasses
  <2>4. \A t \in Thread : StageInv(t)' BY <2>1, OtherStages DEF LazyInv
  <2>5. TypeOK' BY <2>1, <2>2 DEF TypeOK
  <2>6. KeyInv' BY <2>1, <2>2 DEF KeyInv
  <2> QED BY <2>3, <2>4, <2>5, <2>6 DEF LazyInv
<1>2. CASE \E t \in Thread :
        \/ NewCache(t) \/ TestKey(t) \/ RegisterTlsKey(t) \/ MarkKey(t) \/ SaveTls(t)
        \/ \E s \in Static : Load(t, s) \/ Build(t, s) \/ Publish(t, s)
        \/ DiscardLists(t) \/ DiscardZone(t) \/ ThreadExit(t)
  BY <1>2, NewCacheKeeps, KeyKeeps, LoadKeeps, BuildKeeps, PublishKeeps,
     DiscardListsKeeps, DiscardZoneKeeps, ThreadExitKeeps
<1> QED BY <1>1, <1>2 DEF Next, Finished

-----------------------------------------------------------------------------
(***************************************************************************)
(* The theorems.                                                           *)
(***************************************************************************)
\* What is held and what has an owner are the same objects.
LEMMA HeldOwned ==
  ASSUME LazyInv
  PROVE  OneOwnerPerUnit /\ NoMetaLeak
<1>1. TypeOK /\ MemInv /\ \A t \in Thread : StageInv(t) BY DEF LazyInv
<1> DEFINE B == {<<"backup", i, backup[i]>> : i \in DOMAIN backup}
<1>2. Owned = Others \cup B
  <2>1. {<<"static", s, value[s]>> : s \in {r \in Static : value[r] # Null}} = Statics
    BY DEF Statics, Entries
  <2>2. {<<"cache", t, tcache[t]>> : t \in {u \in Thread : pc[u] \notin {<<"start">>, <<"dead">>}}}
          = Caches
    <3>1. \A t \in Thread : CacheOf[t] # Null <=> pc[t] \notin {<<"start">>, <<"dead">>}
      BY <1>1 DEF CacheOf, StageInv
    <3>2. \A t \in Thread : CacheOf[t] # Null => CacheOf[t] = tcache[t] BY DEF CacheOf
    <3> QED BY <3>1, <3>2 DEF Caches, Entries
  <2>3. {<<"mine", t, mine[t]>> : t \in {u \in Thread : mine[u] # Null}} = Mines
    BY DEF Mines, Entries
  <2>4. {<<"lost", t, lost[t]>> : t \in {u \in Thread : lost[u] # Null}} = Losts
    BY DEF Losts, Entries
  <2> QED BY <2>1, <2>2, <2>3, <2>4 DEF Owned, Others
<1>3. /\ backup \in Seq(Object) /\ DOMAIN backup = 1 .. Len(backup)
      /\ \A i, j \in 1 .. Len(backup) : backup[i] = backup[j] => i = j
      /\ \A i \in 1 .. Len(backup) : backup[i] \in Range(backup)
      /\ \A o \in Range(backup) : \E i \in 1 .. Len(backup) : backup[i] = o
  BY <1>1, Injective, InRange DEF TypeOK, MemInv
<1>4. Apart(Held) /\ Held = Others \cup Backups BY <1>1, HeldIs DEF MemInv
\* A holder for every owner, and another for another.
<1>5. OneOwnerPerUnit
  <2> SUFFICES ASSUME NEW a \in Owned, NEW b \in Owned, a # b
               PROVE  Disjoint(Units(a[3]), Units(b[3]))
    BY DEF OneOwnerPerUnit
  <2> DEFINE h(c) == IF c \in Others THEN c ELSE <<"backup", c[3], c[3]>>
  <2>1. \A c \in Owned : h(c) \in Held /\ h(c)[3] = c[3]
    <3> TAKE c \in Owned
    <3>1. CASE c \in Others BY <1>4, <3>1
    <3>2. CASE c \notin Others
      <4>1. PICK i \in 1 .. Len(backup) : c = <<"backup", i, backup[i]>>
        BY <1>2, <1>3, <3>2
      <4>2. h(c) = <<"backup", backup[i], backup[i]>> BY <3>2, <4>1
      <4>3. h(c) \in Backups BY <1>3, <4>2 DEF Backups
      <4> QED BY <1>4, <4>1, <4>2, <4>3
    <3> QED BY <3>1, <3>2
  <2>2. h(a) # h(b)
    <3>1. CASE a \in Others /\ b \in Others BY <3>1
    <3>2. CASE a \in Others /\ b \notin Others
      <4>1. h(a)[1] # "backup" /\ h(b)[1] = "backup" BY <3>2, HeldIs
      <4> QED BY <4>1
    <3>3. CASE a \notin Others /\ b \in Others
      <4>1. h(b)[1] # "backup" /\ h(a)[1] = "backup" BY <3>3, HeldIs
      <4> QED BY <4>1
    <3>4. CASE a \notin Others /\ b \notin Others
      <4>1. PICK i \in 1 .. Len(backup) : a = <<"backup", i, backup[i]>>
        BY <1>2, <1>3, <3>4
      <4>2. PICK j \in 1 .. Len(backup) : b = <<"backup", j, backup[j]>>
        BY <1>2, <1>3, <3>4
      <4>3. backup[i] # backup[j] BY <1>3, <4>1, <4>2
      <4>4. h(a)[3] = backup[i] /\ h(b)[3] = backup[j] BY <3>4, <4>1, <4>2
      <4> QED BY <4>3, <4>4
    <3> QED BY <3>1, <3>2, <3>3, <3>4
  <2> HIDE DEF h
  <2>3. Disjoint(Units(h(a)[3]), Units(h(b)[3])) BY <1>4, <2>1, <2>2 DEF Apart
  <2> QED BY <2>1, <2>3
<1>6. UNION {Units(c[3]) : c \in Owned} = UNION {Units(c[3]) : c \in Held}
  <2>1. ASSUME NEW u PROVE (\E c \in Owned : u \in Units(c[3])) <=>
                             (\E c \in Held : u \in Units(c[3]))
    <3>1. ASSUME NEW c \in Owned, u \in Units(c[3]) PROVE \E e \in Held : u \in Units(e[3])
      <4>1. CASE c \in Others BY <1>4, <3>1, <4>1
      <4>2. CASE c \in B
        <5>1. PICK i \in 1 .. Len(backup) : c = <<"backup", i, backup[i]>>
          BY <1>3, <4>2
        <5> DEFINE e == <<"backup", backup[i], backup[i]>>
        <5>2. e \in Held BY <1>3, <1>4 DEF Backups
        <5>3. c[3] = backup[i] /\ e[3] = backup[i] BY <5>1
        <5> QED BY <3>1, <5>2, <5>3
      <4> QED BY <1>2, <4>1, <4>2
    <3>2. ASSUME NEW c \in Held, u \in Units(c[3]) PROVE \E e \in Owned : u \in Units(e[3])
      <4>1. CASE c \in Others BY <1>2, <3>2, <4>1
      <4>2. CASE c \in Backups
        <5>1. PICK o \in Range(backup) : c = <<"backup", o, o>> BY <4>2 DEF Backups
        <5>2. PICK i \in 1 .. Len(backup) : backup[i] = o BY <1>3
        <5> DEFINE e == <<"backup", i, backup[i]>>
        <5>3. e \in Owned BY <1>2, <1>3
        <5>4. c[3] = o /\ e[3] = o BY <5>1, <5>2
        <5> QED BY <3>2, <5>3, <5>4
      <4> QED BY <1>4, <4>1, <4>2
    <3> QED BY <3>1, <3>2
  <2> QED BY <2>1
<1>7. NoMetaLeak
  <2>1. Covered(Held, donated) = Mapped \ Fresh BY <1>1 DEF MemInv
  <2>2. Fresh \subseteq Mapped
    <3> DEFINE n == meta.regions * RegionUnits
    <3>1. /\ meta.start \in Nat /\ meta.current \in Nat /\ meta.regions \in Nat
          /\ RegionUnits \in Nat \ {0}
      BY <1>1, LazyAssumption DEF TypeOK
    <3>2. /\ meta.start = n /\ meta.current <= meta.start + RegionUnits
          /\ meta.regions = 0 => meta.current = 0
      BY <1>1 DEF MemInv, RegionInv
    <3>3. meta.regions # 0 => RegionUnits <= n
      <4> SUFFICES ASSUME meta.regions # 0 PROVE RegionUnits <= n OBVIOUS
      <4>1. meta.regions - 1 \in Nat /\ meta.regions - 1 < meta.regions
            /\ (meta.regions - 1) + 1 = meta.regions
        BY <3>1
      <4> DEFINE r == meta.regions - 1
      <4>2. r * RegionUnits \in Nat /\ (r + 1) * RegionUnits = r * RegionUnits + RegionUnits
        BY <3>1, <4>1, RegionPlace
      <4>3. n = (r + 1) * RegionUnits BY <4>1
      <4> HIDE DEF n
      <4> QED BY <3>1, <4>2, <4>3
    <3>4. Mapped = RegionUnits .. n + RegionUnits - 1 BY DEF Mapped
    <3> HIDE DEF n
    <3> QED BY <3>1, <3>2, <3>3, <3>4 DEF Fresh
  <2>3. Mapped = Fresh \cup Covered(Held, donated) BY <2>1, <2>2
  <2> QED BY <1>6, <2>3 DEF NoMetaLeak, Mapped, Fresh, Covered
<1> QED BY <1>5, <1>7

\* Every reachable state satisfies the invariant, as long as a zone is never cut
\* from what is too small for it (sc::BumpAlloc::alloc does not compare them).
THEOREM MetadataInvariant == Spec /\ []ZonesFit => []LazyInv
<1>1. Init => LazyInv BY InitLazyInv
<1>2. LazyInv /\ ZonesFit /\ [Next]_vars => LazyInv' BY NextLazyInv
<1> QED BY <1>1, <1>2, PTL DEF Spec

\* No two pieces of metadata share memory: a cache that a thread has returned
\* has one new owner, whichever thread made the TLS key (free_thread_cache).
THEOREM UnitsHaveOneOwner == Spec /\ []ZonesFit => []OneOwnerPerUnit
<1>1. LazyInv => OneOwnerPerUnit BY HeldOwned
<1> QED BY <1>1, MetadataInvariant, PTL

\* Every unit cut from META_BUMP is in use, on its list of returned caches or
\* with the backend: the destructor of every thread finds its cache (save_tls).
THEOREM UnitsAreAccountedFor == Spec /\ []ZonesFit => []NoMetaLeak
<1>1. LazyInv => NoMetaLeak BY HeldOwned
<1> QED BY <1>1, MetadataInvariant, PTL

\* The static is set once, and a thread refers to it only when it is set.
RefInv ==
  /\ value = [s \in Static |-> value[s]]
  /\ ref = [t \in Thread |-> [s \in Static |-> ref[t][s]]]
  /\ OneInstance

LEMMA PublishShares ==
  ASSUME RefInv, NEW t \in Thread, NEW s \in Static, Publish(t, s)
  PROVE  RefInv'
<1>1. PICK v : /\ ref' = [ref EXCEPT ![t][s] = v]
               /\ \/ value[s] = Null /\ value' = [value EXCEPT ![s] = v]
                  \/ value' = value /\ v = value[s]
  BY DEF Publish
<1>2. value' = [r \in Static |-> value'[r]] BY <1>1 DEF RefInv
<1>3. /\ ref' = [u \in Thread |-> [r \in Static |-> ref'[u][r]]]
      /\ \A u \in Thread, r \in Static :
           ref'[u][r] = IF u = t /\ r = s THEN v ELSE ref[u][r]
  BY <1>1 DEF RefInv
<1>4. value'[s] = v BY <1>1 DEF RefInv
<1>5. \A r \in Static : r # s => value'[r] = value[r] BY <1>1 DEF RefInv
<1>6. \A u \in Thread : ref[u][s] # Null => value' = value
  BY <1>1 DEF RefInv, OneInstance
<1>7. OneInstance' BY <1>3, <1>4, <1>5, <1>6 DEF RefInv, OneInstance
<1> QED BY <1>2, <1>3, <1>7 DEF RefInv

LEMMA LoadShares ==
  ASSUME RefInv, NEW t \in Thread, NEW s \in Static, Load(t, s)
  PROVE  RefInv'
<1>1. value' = value /\ (ref' = ref \/ ref' = [ref EXCEPT ![t][s] = value[s]])
  BY DEF Load
<1>2. CASE ref' = ref BY <1>1, <1>2 DEF RefInv, OneInstance
<1>3. CASE ref' = [ref EXCEPT ![t][s] = value[s]]
  <2>1. /\ ref' = [u \in Thread |-> [r \in Static |-> ref'[u][r]]]
        /\ \A u \in Thread, r \in Static :
             ref'[u][r] = IF u = t /\ r = s THEN value[s] ELSE ref[u][r]
    BY <1>3 DEF RefInv
  <2> QED BY <1>1, <2>1 DEF RefInv, OneInstance
<1> QED BY <1>1, <1>2, <1>3

\* atomic_static, get_slice: whoever built the zone and the lists, and however
\* many did, all threads work on the same.
THEOREM InstancesAreShared == Spec => []OneInstance
<1>1. Init => RefInv BY DEF Init, RefInv, OneInstance
<1>2. RefInv /\ [Next]_vars => RefInv'
  <2> SUFFICES ASSUME RefInv, [Next]_vars PROVE RefInv' OBVIOUS
  <2>1. CASE UNCHANGED <<value, ref>> BY <2>1 DEF RefInv, OneInstance
  <2>2. ASSUME NEW t \in Thread, ThreadExit(t) PROVE RefInv'
    <3>1. value' = value /\ ref' = [ref EXCEPT ![t] = [s \in Static |-> Null]]
      BY <2>2 DEF ThreadExit
    <3>2. /\ ref' = [u \in Thread |-> [r \in Static |-> ref'[u][r]]]
          /\ \A u \in Thread, r \in Static : ref'[u][r] \in {Null, ref[u][r]}
      BY <3>1 DEF RefInv
    <3> QED BY <3>1, <3>2 DEF RefInv, OneInstance
  <2>3. ASSUME NEW t \in Thread,
               \/ NewCache(t) \/ TestKey(t) \/ RegisterTlsKey(t) \/ MarkKey(t) \/ SaveTls(t)
               \/ (\E s \in Static : Build(t, s)) \/ DiscardLists(t) \/ DiscardZone(t)
        PROVE  UNCHANGED <<value, ref>>
    BY <2>3 DEF NewCache, TestKey, RegisterTlsKey, MarkKey, SaveTls, Build,
                DiscardLists, DiscardZone
  <2>4. CASE UNCHANGED vars BY <2>1, <2>4 DEF vars
  <2>5. CASE Next
    <3>1. CASE Finished BY <2>4, <3>1 DEF Finished
    <3>2. CASE ~ Finished
      BY <2>1, <2>2, <2>3, <2>5, <3>2, LoadShares, PublishShares DEF Next
    <3> QED BY <3>1, <3>2
  <2> QED BY <2>4, <2>5
<1>3. RefInv => OneInstance BY DEF RefInv
<1> QED BY <1>1, <1>2, <1>3, PTL DEF Spec

-----------------------------------------------------------------------------
(***************************************************************************)
(* When zones fit: a region serves every thread's cache, its zone and its  *)
(* array of list heads, so no zone meets the end of a region if there are  *)
(* not more threads than that.                                             *)
(***************************************************************************)
Starting == {t \in Thread : pc[t] = <<"start">>}
Zoning ==
  {t \in Thread : /\ ref[t]["zone"] = Null
                  /\ pc[t] \notin {<<"publish", "zone">>, <<"dead">>}}
Listing ==
  {t \in Thread : /\ ref[t]["lists"] = Null
                  /\ pc[t] \notin {<<"publish", "lists">>, <<"dead">>}}

\* The units that such threads may still cut.
Need(S, Z, L) == Cardinality(S) + ZoneUnits * Cardinality(Z) + Cardinality(L)
Left == IF meta.regions = 0 THEN RegionUnits ELSE meta.current - meta.start

CountInv ==
  /\ Need(Starting, Zoning, Listing) <= Left
  /\ \A t \in Thread : pc[t] = <<"build", "lists">> => ref[t]["lists"] = Null

LEMMA NeedShrinks ==
  ASSUME IsFiniteSet(Thread), NEW S \in SUBSET Thread, NEW Z \in SUBSET Thread,
         NEW L \in SUBSET Thread, NEW S2 \in SUBSET S, NEW Z2 \in SUBSET Z,
         NEW L2 \in SUBSET L
  PROVE  /\ Need(S, Z, L) \in Nat /\ Need(S2, Z2, L2) \in Nat
         /\ Need(S2, Z2, L2) <= Need(S, Z, L)
<1>1. IsFiniteSet(S) /\ IsFiniteSet(Z) /\ IsFiniteSet(L) BY FS_Subset
<1>2. IsFiniteSet(S2) /\ IsFiniteSet(Z2) /\ IsFiniteSet(L2) BY <1>1, FS_Subset
<1>3. /\ Cardinality(S2) <= Cardinality(S) /\ Cardinality(Z2) <= Cardinality(Z)
      /\ Cardinality(L2) <= Cardinality(L)
  BY <1>1, FS_Subset
<1>4. /\ Cardinality(S) \in Nat /\ Cardinality(Z) \in Nat /\ Cardinality(L) \in Nat
      /\ Cardinality(S2) \in Nat /\ Cardinality(Z2) \in Nat /\ Cardinality(L2) \in Nat
  BY <1>1, <1>2, FS_CardinalityType
<1>5. ZoneUnits \in Nat BY LazyAssumption
<1>6. ASSUME NEW k \in Nat, NEW a \in Nat, NEW b \in Nat, a <= b
      PROVE  k * a \in Nat /\ k * b \in Nat /\ k * a <= k * b
  BY <1>6, SMTT(30)
<1> DEFINE p == ZoneUnits * Cardinality(Z)
           q == ZoneUnits * Cardinality(Z2)
<1>7. p \in Nat /\ q \in Nat /\ q <= p BY <1>3, <1>4, <1>5, <1>6
<1>8. /\ Need(S, Z, L) = Cardinality(S) + p + Cardinality(L)
      /\ Need(S2, Z2, L2) = Cardinality(S2) + q + Cardinality(L2)
  BY DEF Need
<1> HIDE DEF p, q
<1> QED BY <1>3, <1>4, <1>7, <1>8

LEMMA NeedOneLess ==
  ASSUME IsFiniteSet(Thread), NEW S \in SUBSET Thread, NEW Z \in SUBSET Thread,
         NEW L \in SUBSET Thread, NEW t \in Thread
  PROVE  /\ t \in S => Need(S \ {t}, Z, L) = Need(S, Z, L) - 1
         /\ t \in L => Need(S, Z, L \ {t}) = Need(S, Z, L) - 1
         /\ t \in Z => Need(S, Z \ {t}, L) = Need(S, Z, L) - ZoneUnits
<1>1. IsFiniteSet(S) /\ IsFiniteSet(Z) /\ IsFiniteSet(L) BY FS_Subset
<1>2. Cardinality(S) \in Nat /\ Cardinality(Z) \in Nat /\ Cardinality(L) \in Nat
  BY <1>1, FS_CardinalityType
<1>3. /\ t \in S => Cardinality(S \ {t}) = Cardinality(S) - 1
      /\ t \in L => Cardinality(L \ {t}) = Cardinality(L) - 1
      /\ t \in Z => Cardinality(Z \ {t}) = Cardinality(Z) - 1
  BY <1>1, FS_RemoveElement
<1>4. ZoneUnits \in Nat BY LazyAssumption
<1>5. ASSUME NEW k \in Nat, NEW a \in Nat
      PROVE  k * a \in Nat /\ k * (a - 1) = k * a - k
  BY SMTT(30)
<1> DEFINE p == ZoneUnits * Cardinality(Z)
<1>6. p \in Nat /\ (t \in Z => ZoneUnits * Cardinality(Z \ {t}) = p - ZoneUnits)
  BY <1>2, <1>3, <1>4, <1>5
<1> HIDE DEF p
<1>7. /\ Need(S, Z, L) = Cardinality(S) + p + Cardinality(L)
      /\ Need(S \ {t}, Z, L) = Cardinality(S \ {t}) + p + Cardinality(L)
      /\ Need(S, Z, L \ {t}) = Cardinality(S) + p + Cardinality(L \ {t})
      /\ Need(S, Z \ {t}, L) =
           Cardinality(S) + ZoneUnits * Cardinality(Z \ {t}) + Cardinality(L)
  BY DEF Need, p
<1> QED BY <1>2, <1>3, <1>4, <1>6, <1>7

\* What a cut leaves.
LEMMA LeftLoses ==
  ASSUME TypeOK, RegionInv, NEW n \in {1, ZoneUnits}, MetaTake(n), n <= Left
  PROVE  /\ Left \in Nat /\ Left' \in Nat /\ Left - n <= Left'
         /\ RegionSpent \/ meta.start + n <= meta.current
<1>1. n \in Nat \ {0} /\ RegionUnits \in Nat \ {0} BY LazyAssumption
<1>2. /\ meta.start \in Nat /\ meta.current \in Nat /\ meta.regions \in Nat
      /\ meta \in [start : Nat, current : Nat, regions : 0 .. MaxRegions]
  BY LazyAssumption DEF TypeOK
<1>3. /\ meta.regions # 0 => meta.start <= meta.current
      /\ meta.regions = 0 => RegionSpent
  BY <1>2 DEF RegionInv, RegionSpent
<1>4. Left \in Nat BY <1>1, <1>2, <1>3 DEF Left
<1>5. RegionSpent \/ meta.start + n <= meta.current
  BY <1>1, <1>2, <1>3 DEF Left
<1>6. CASE FromBackup(n)
  <2>1. meta' = meta BY <1>6 DEF MetaTake, FromBackup
  <2>2. Left' = Left BY <2>1 DEF Left
  <2> QED BY <1>1, <1>4, <1>5, <2>2
<1>7. CASE ~ FromBackup(n) /\ ~ RegionSpent
  <2>1. meta' = [meta EXCEPT !.current = @ - n] BY <1>7 DEF MetaTake
  <2>2. /\ meta'.regions = meta.regions /\ meta'.start = meta.start
        /\ meta'.current = meta.current - n /\ meta.regions # 0
    BY <1>2, <1>3, <1>7, <2>1
  <2>3. Left' = Left - n
    <3>1. Left = meta.current - meta.start BY <2>2 DEF Left
    <3>2. Left' = (meta.current - n) - meta.start BY <2>2 DEF Left
    <3> QED BY <1>1, <1>2, <3>1, <3>2
  <2> QED BY <1>1, <1>4, <1>5, <2>3
<1>8. CASE ~ FromBackup(n) /\ RegionSpent
  <2>1. /\ meta' = [start |-> NextStart, current |-> NextStart + RegionUnits - n,
                    regions |-> meta.regions + 1]
    BY <1>8 DEF MetaTake
  <2>2. meta.regions = 0
    <3> SUFFICES ASSUME meta.regions # 0 PROVE FALSE OBVIOUS
    <3>1. Left <= 0 BY <1>2, <1>8 DEF Left, RegionSpent
    <3> QED BY <1>1, <1>4, <3>1
  <2>3. Left = RegionUnits BY <2>2 DEF Left
  <2> DEFINE s == NextStart
  <2>4. s \in Nat
    <3>1. s = (0 + 1) * RegionUnits BY <2>2 DEF NextStart
    <3> QED BY <1>1, <3>1
  <2>5. meta'.regions = 1 /\ meta'.start = s /\ meta'.current = s + RegionUnits - n
    BY <2>1, <2>2
  <2>6. Left' = (s + RegionUnits - n) - s BY <2>5 DEF Left
  <2> HIDE DEF s
  <2>7. Left' = RegionUnits - n BY <1>1, <2>4, <2>6
  <2> QED BY <1>1, <1>4, <1>5, <2>3, <2>7
<1> QED BY <1>6, <1>7, <1>8

LEMMA CountsFit ==
  ASSUME IsFiniteSet(Thread), LazyInv, CountInv
  PROVE  ZonesFit
<1> SUFFICES ASSUME NEW t \in Thread, pc[t] = <<"build", "zone">>, ~ RegionSpent
             PROVE  meta.start + ZoneUnits <= meta.current
  BY DEF ZonesFit
<1>1. TypeOK /\ RegionInv /\ StageInv(t) BY DEF LazyInv, MemInv
<1>2. t \in Zoning BY <1>1 DEF Zoning, StageInv
<1>3. /\ Starting \in SUBSET Thread /\ Zoning \in SUBSET Thread
      /\ Listing \in SUBSET Thread
  BY DEF Starting, Zoning, Listing
<1> DEFINE N == Need(Starting, Zoning, Listing)
           M == Need(Starting, Zoning \ {t}, Listing)
<1>4. M = N - ZoneUnits BY <1>2, <1>3, NeedOneLess
<1>5. N \in Nat /\ M \in Nat
  BY <1>3, NeedShrinks
<1>6. ZoneUnits \in Nat BY LazyAssumption
<1>7. N <= Left BY DEF CountInv
<1>8. /\ meta.start \in Nat /\ meta.current \in Nat /\ meta.regions # 0
  BY <1>1 DEF TypeOK, RegionInv, RegionSpent
<1>9. Left = meta.current - meta.start BY <1>8 DEF Left
<1> HIDE DEF N, M
<1> QED BY <1>4, <1>5, <1>6, <1>7, <1>8, <1>9

LEMMA CountSetsNow ==
  Starting \in SUBSET Thread /\ Zoning \in SUBSET Thread /\ Listing \in SUBSET Thread
BY DEF Starting, Zoning, Listing

LEMMA CountSets ==
  /\ Starting \in SUBSET Thread /\ Zoning \in SUBSET Thread /\ Listing \in SUBSET Thread
  /\ Starting' \in SUBSET Thread /\ Zoning' \in SUBSET Thread /\ Listing' \in SUBSET Thread
BY DEF Starting, Zoning, Listing

LEMMA NeedNext == Need(Starting, Zoning, Listing)' = Need(Starting', Zoning', Listing')
BY DEF Need

\* A thread cuts what it was counted for, ...
LEMMA CutCounts ==
  ASSUME IsFiniteSet(Thread), LazyInv, CountInv, NEW n \in {1, ZoneUnits}, MetaTake(n),
         Need(Starting', Zoning', Listing') <= Need(Starting, Zoning, Listing) - n
  PROVE  Need(Starting, Zoning, Listing)' <= Left'
<1> DEFINE N == Need(Starting, Zoning, Listing)
           M == Need(Starting', Zoning', Listing')
<1>1. TypeOK /\ RegionInv BY DEF LazyInv, MemInv
<1>2. N \in Nat /\ M \in Nat /\ n \in Nat BY CountSets, NeedShrinks, LazyAssumption
<1>3. N <= Left /\ M <= N - n BY DEF CountInv
<1>4. Left \in Int
  <2>1. /\ RegionUnits \in Nat /\ meta.start \in Nat /\ meta.current \in Nat
    BY <1>1, LazyAssumption DEF TypeOK
  <2> QED BY <2>1 DEF Left
<1> HIDE DEF N, M
<1>5. n <= Left BY <1>2, <1>3, <1>4
<1>6. Left \in Nat /\ Left' \in Nat /\ Left - n <= Left' BY <1>1, <1>5, LeftLoses
<1>7. M <= Left' BY <1>2, <1>3, <1>6
<1> QED BY <1>7, NeedNext DEF M

\* ... and any other step leaves META_BUMP's region as it is.
LEMMA OtherCounts ==
  ASSUME IsFiniteSet(Thread), LazyInv, CountInv, meta' = meta,
         Starting' \subseteq Starting, Zoning' \subseteq Zoning, Listing' \subseteq Listing
  PROVE  Need(Starting, Zoning, Listing)' <= Left'
<1> DEFINE N == Need(Starting, Zoning, Listing)
           M == Need(Starting', Zoning', Listing')
<1>1. TypeOK BY DEF LazyInv
<1>2. N \in Nat /\ M \in Nat /\ M <= N BY CountSets, NeedShrinks
<1>3. N <= Left BY DEF CountInv
<1>4. Left \in Int
  <2>1. /\ RegionUnits \in Nat /\ meta.start \in Nat /\ meta.current \in Nat
    BY <1>1, LazyAssumption DEF TypeOK
  <2> QED BY <2>1 DEF Left
<1>5. Left' = Left BY DEF Left
<1> HIDE DEF N, M
<1>6. M <= Left' BY <1>2, <1>3, <1>4, <1>5
<1> QED BY <1>6, NeedNext DEF M

LEMMA NewCacheCounts ==
  ASSUME IsFiniteSet(Thread), LazyInv, CountInv, NEW t \in Thread, NewCache(t)
  PROVE  CountInv'
<1>1. TypeOK BY DEF LazyInv
<1>2. /\ pc[t] = <<"start">> /\ pc' = [pc EXCEPT ![t] = <<"key">>] /\ ref' = ref
      /\ MetaTake(1)
  BY DEF NewCache, Goto
<1>3. pc'[t] = <<"key">> /\ \A u \in Thread : u # t => pc'[u] = pc[u]
  BY <1>1, <1>2 DEF TypeOK
<1>4. t \in Starting /\ Starting' = Starting \ {t} BY <1>2, <1>3 DEF Starting
<1>5. Zoning' = Zoning BY <1>2, <1>3 DEF Zoning
<1>6. Listing' = Listing BY <1>2, <1>3 DEF Listing
<1>7. Need(Starting', Zoning', Listing') = Need(Starting, Zoning, Listing) - 1
  <2>1. Need(Starting \ {t}, Zoning, Listing) = Need(Starting, Zoning, Listing) - 1
    BY <1>4, CountSetsNow, NeedOneLess
  <2> QED BY <1>4, <1>5, <1>6, <2>1
<1>8. Need(Starting', Zoning', Listing') <= Need(Starting, Zoning, Listing) - 1
  <2>1. Need(Starting, Zoning, Listing) \in Nat BY CountSets, NeedShrinks
  <2> QED BY <1>7, <2>1
<1>9. Need(Starting, Zoning, Listing)' <= Left' BY <1>2, <1>8, CutCounts
<1>10. \A u \in Thread : pc'[u] = <<"build", "lists">> => ref'[u]["lists"] = Null
  BY <1>2, <1>3 DEF CountInv
<1> QED BY <1>9, <1>10 DEF CountInv

LEMMA BuildCounts ==
  ASSUME IsFiniteSet(Thread), LazyInv, CountInv, NEW t \in Thread, NEW s \in Static,
         Build(t, s)
  PROVE  CountInv'
<1>1. TypeOK /\ StageInv(t) BY DEF LazyInv
<1>2. /\ pc[t] = <<"build", s>> /\ pc' = [pc EXCEPT ![t] = <<"publish", s>>]
      /\ ref' = ref /\ MetaTake(Size(s))
  BY DEF Build, Goto
<1>3. pc'[t] = <<"publish", s>> /\ \A u \in Thread : u # t => pc'[u] = pc[u]
  BY <1>1, <1>2 DEF TypeOK
<1>4. Starting' = Starting BY <1>2, <1>3 DEF Starting
<1>5. Need(Starting', Zoning', Listing') = Need(Starting, Zoning, Listing) - Size(s)
  <2>1. CASE s = "zone"
    <3>1. ref[t]["zone"] = Null BY <1>1, <1>2, <2>1 DEF StageInv
    <3>2. t \in Zoning /\ Zoning' = Zoning \ {t} BY <1>2, <1>3, <2>1, <3>1 DEF Zoning
    <3>3. Listing' = Listing BY <1>2, <1>3, <2>1 DEF Listing
    <3>4. Size(s) = ZoneUnits BY <2>1 DEF Size
    <3>5. Need(Starting, Zoning \ {t}, Listing) =
            Need(Starting, Zoning, Listing) - ZoneUnits
      BY <3>2, CountSetsNow, NeedOneLess
    <3> QED BY <1>4, <3>2, <3>3, <3>4, <3>5
  <2>2. CASE s = "lists"
    <3>1. ref[t]["lists"] = Null BY <1>2, <2>2 DEF CountInv
    <3>2. t \in Listing /\ Listing' = Listing \ {t} BY <1>2, <1>3, <2>2, <3>1 DEF Listing
    <3>3. Zoning' = Zoning BY <1>2, <1>3, <2>2 DEF Zoning
    <3>4. Size(s) = 1 BY <2>2 DEF Size
    <3>5. Need(Starting, Zoning, Listing \ {t}) = Need(Starting, Zoning, Listing) - 1
      BY <3>2, CountSetsNow, NeedOneLess
    <3> QED BY <1>4, <3>2, <3>3, <3>4, <3>5
  <2> QED BY <2>1, <2>2 DEF Static
<1>6. Size(s) \in {1, ZoneUnits} /\ Size(s) \in Nat BY LazyAssumption DEF Size
<1>7. Need(Starting', Zoning', Listing') <= Need(Starting, Zoning, Listing) - Size(s)
  <2>1. Need(Starting, Zoning, Listing) \in Nat BY CountSets, NeedShrinks
  <2> QED BY <1>5, <1>6, <2>1
<1>8. Need(Starting, Zoning, Listing)' <= Left' BY <1>2, <1>6, <1>7, CutCounts
<1>9. \A u \in Thread : pc'[u] = <<"build", "lists">> => ref'[u]["lists"] = Null
  BY <1>2, <1>3 DEF CountInv
<1> QED BY <1>8, <1>9 DEF CountInv

\* The other steps of a thread: it does not come back to a stage before.
LEMMA StepCounts ==
  ASSUME IsFiniteSet(Thread), LazyInv, CountInv, NEW t \in Thread,
         \/ TestKey(t) \/ RegisterTlsKey(t) \/ MarkKey(t) \/ SaveTls(t)
         \/ \E s \in Static : Load(t, s) \/ Publish(t, s)
         \/ DiscardLists(t) \/ DiscardZone(t) \/ ThreadExit(t)
  PROVE  CountInv'
<1>1. TypeOK /\ StageInv(t) BY DEF LazyInv
<1> SUFFICES ASSUME TRUE
             PROVE  /\ meta' = meta
                    /\ \A u \in Thread : u # t => pc'[u] = pc[u] /\ ref'[u] = ref[u]
                    /\ t \in Starting' => t \in Starting
                    /\ t \in Zoning' => t \in Zoning
                    /\ t \in Listing' => t \in Listing
                    /\ pc'[t] = <<"build", "lists">> => ref'[t]["lists"] = Null
  <2>1. Starting' \subseteq Starting BY DEF Starting
  <2>2. Zoning' \subseteq Zoning BY DEF Zoning
  <2>3. Listing' \subseteq Listing BY DEF Listing
  <2>4. \A u \in Thread : pc'[u] = <<"build", "lists">> => ref'[u]["lists"] = Null
    BY DEF CountInv
  <2>5. Need(Starting, Zoning, Listing)' <= Left' BY <2>1, <2>2, <2>3, OtherCounts
  <2> QED BY <2>4, <2>5 DEF CountInv
<1>2. CASE TestKey(t) \/ RegisterTlsKey(t) \/ MarkKey(t) \/ SaveTls(t)
  <2>1. /\ pc[t] \in {<<"key">>, <<"register">>, <<"mark">>, <<"save">>}
        /\ meta' = meta /\ ref' = ref
        /\ \E w \in {<<"register">>, <<"mark">>, <<"save">>, <<"run">>} :
             pc' = [pc EXCEPT ![t] = w]
    BY <1>2 DEF TestKey, RegisterTlsKey, MarkKey, SaveTls, Goto, metaVars
  <2>2. /\ pc'[t] \in {<<"register">>, <<"mark">>, <<"save">>, <<"run">>}
        /\ \A u \in Thread : u # t => pc'[u] = pc[u]
    BY <1>1, <2>1 DEF TypeOK
  <2> QED BY <2>1, <2>2 DEF Starting, Zoning, Listing
<1>3. CASE \E s \in Static : Load(t, s)
  <2>1. PICK s \in Static : Load(t, s) BY <1>3
  <2>2. /\ meta' = meta /\ pc[t] = <<"run">> /\ ref[t][s] = Null
        /\ \/ value[s] # Null /\ ref' = [ref EXCEPT ![t][s] = value[s]] /\ pc' = pc
           \/ pc' = [pc EXCEPT ![t] = <<"build", s>>] /\ ref' = ref
    BY <2>1 DEF Load, Goto, metaVars
  <2>3. \A u \in Thread : u # t => pc'[u] = pc[u] /\ ref'[u] = ref[u]
    BY <1>1, <2>2 DEF TypeOK
  <2>4. /\ ref'[t]["zone"] = Null => ref[t]["zone"] = Null
        /\ ref'[t]["lists"] = Null => ref[t]["lists"] = Null
    BY <1>1, <2>2 DEF TypeOK, Static
  <2>5. pc'[t] = <<"run">> \/ (pc'[t] = <<"build", s>> /\ ref' = ref)
    BY <1>1, <2>2 DEF TypeOK
  <2> QED BY <2>2, <2>3, <2>4, <2>5 DEF Starting, Zoning, Listing
<1>4. CASE \E s \in Static : Publish(t, s)
  <2>1. PICK s \in Static : Publish(t, s) BY <1>4
  <2>2. pc[t] = <<"publish", s>> /\ meta' = meta BY <2>1 DEF Publish, metaVars
  <2>3. mine[t] # Null BY <1>1, <2>2 DEF StageInv, Holding, Static
  <2>4. PICK v : /\ v # Null /\ ref' = [ref EXCEPT ![t][s] = v]
                 /\ pc' = [pc EXCEPT ![t] = <<"run">>]
                      \/ pc' = [pc EXCEPT ![t] = <<"discard">>]
    <3>1. CASE value[s] = Null BY <2>1, <2>3, <3>1 DEF Publish, Goto
    <3>2. CASE value[s] # Null BY <2>1, <3>2 DEF Publish, Goto
    <3> QED BY <3>1, <3>2
  <2>5. /\ \A u \in Thread : u # t => pc'[u] = pc[u] /\ ref'[u] = ref[u]
        /\ pc'[t] \in {<<"run">>, <<"discard">>} /\ ref'[t][s] # Null
        /\ \A r \in Static : r # s => ref'[t][r] = ref[t][r]
    BY <1>1, <2>4 DEF TypeOK
  <2>6. CASE s = "zone"
    <3>1. ref'[t]["lists"] = ref[t]["lists"] BY <2>5, <2>6 DEF Static
    <3> QED BY <2>2, <2>5, <2>6, <3>1 DEF Starting, Zoning, Listing
  <2>7. CASE s = "lists"
    <3>1. ref'[t]["zone"] = ref[t]["zone"] BY <2>5, <2>7 DEF Static
    <3> QED BY <2>2, <2>5, <2>7, <3>1 DEF Starting, Zoning, Listing
  <2> QED BY <2>6, <2>7 DEF Static
<1>5. CASE DiscardLists(t) \/ DiscardZone(t)
  <2>1. /\ meta' = meta /\ ref' = ref /\ pc[t] \in {<<"discard">>, <<"run">>}
        /\ pc' = [pc EXCEPT ![t] = <<"run">>] \/ (pc' = pc /\ pc[t] = <<"run">>)
    BY <1>5 DEF DiscardLists, DiscardZone, Goto, MetaDealloc, metaVars
  <2>2. pc'[t] = <<"run">> /\ \A u \in Thread : u # t => pc'[u] = pc[u]
    BY <1>1, <2>1 DEF TypeOK
  <2> QED BY <2>1, <2>2 DEF Starting, Zoning, Listing
<1>6. CASE ThreadExit(t)
  <2>1. /\ meta' = meta /\ pc' = [pc EXCEPT ![t] = <<"dead">>]
        /\ ref' = [ref EXCEPT ![t] = [s \in Static |-> Null]]
    BY <1>6 DEF ThreadExit, Goto, MetaDealloc, metaVars
  <2>2. /\ pc'[t] = <<"dead">>
        /\ \A u \in Thread : u # t => pc'[u] = pc[u] /\ ref'[u] = ref[u]
    BY <1>1, <2>1 DEF TypeOK
  <2> QED BY <2>1, <2>2 DEF Starting, Zoning, Listing
<1> QED BY <1>2, <1>3, <1>4, <1>5, <1>6

\* If one region serves every thread, no zone is cut from what is too small for
\* it, and the theorems above hold without that hypothesis (DEFAULT_SIZE of
\* sc::BumpAlloc is 2^26 bytes, or 2^15 units of ALLOC_UNIT, sc/mod.rs:26, 153).
THEOREM ZonesAlwaysFit ==
  ASSUME IsFiniteSet(Thread), Cardinality(Thread) * (ZoneUnits + 2) <= RegionUnits
  PROVE  Spec => [](ZonesFit /\ OneOwnerPerUnit /\ NoMetaLeak)
<1> DEFINE Inv == LazyInv /\ CountInv
<1>1. Init => Inv
  <2> SUFFICES ASSUME Init PROVE CountInv BY InitLazyInv
  <2>1. Starting = Thread /\ Zoning = Thread /\ Listing = Thread
    BY DEF Init, Starting, Zoning, Listing, Static
  <2>2. Left = RegionUnits BY DEF Init, Left
  <2>3. Cardinality(Thread) \in Nat /\ ZoneUnits \in Nat /\ RegionUnits \in Nat
    BY FS_CardinalityType, LazyAssumption
  <2>4. Need(Thread, Thread, Thread) = Cardinality(Thread) * (ZoneUnits + 2)
    <3>1. ASSUME NEW c \in Nat, NEW z \in Nat PROVE c + z * c + c = c * (z + 2)
      BY SMTT(30)
    <3> QED BY <2>3, <3>1 DEF Need
  <2>5. \A t \in Thread : pc[t] # <<"build", "lists">> BY DEF Init
  <2> QED BY <2>1, <2>2, <2>4, <2>5 DEF CountInv
<1>2. Inv /\ [Next]_vars => Inv'
  <2> SUFFICES ASSUME LazyInv, CountInv, [Next]_vars PROVE LazyInv' /\ CountInv'
    OBVIOUS
  <2>1. LazyInv' BY CountsFit, NextLazyInv
  <2>2. CASE UNCHANGED vars
    <3>1. meta' = meta /\ pc' = pc /\ ref' = ref BY <2>2 DEF vars, metaVars
    <3>2. Starting' = Starting /\ Zoning' = Zoning /\ Listing' = Listing
      BY <3>1 DEF Starting, Zoning, Listing
    <3>3. Need(Starting, Zoning, Listing)' <= Left' BY <3>1, <3>2, OtherCounts
    <3>4. CountInv' BY <3>1, <3>3 DEF CountInv
    <3> QED BY <2>1, <3>4
  <2>3. CASE Next /\ ~ Finished
    <3>1. PICK t \in Thread :
            \/ NewCache(t) \/ TestKey(t) \/ RegisterTlsKey(t) \/ MarkKey(t) \/ SaveTls(t)
            \/ \E s \in Static : Load(t, s) \/ Build(t, s) \/ Publish(t, s)
            \/ DiscardLists(t) \/ DiscardZone(t) \/ ThreadExit(t)
      BY <2>3 DEF Next
    <3>2. CountInv' BY <3>1, NewCacheCounts, BuildCounts, StepCounts
    <3> QED BY <2>1, <3>2
  <2> QED BY <2>2, <2>3 DEF Finished
<1>3. Inv => ZonesFit /\ OneOwnerPerUnit /\ NoMetaLeak BY CountsFit, HeldOwned
<1> QED BY <1>1, <1>2, <1>3, PTL DEF Spec
=============================================================================
