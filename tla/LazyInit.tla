----------------------------- MODULE LazyInit -----------------------------
(***************************************************************************)
(* First use and last use: how a thread gets its cache and its TLS entry   *)
(* (tls_static), how the zone (atomic_static) and the array of list heads  *)
(* (FreeList::get_slice) are built by whoever comes first, and how the     *)
(* cache of a thread that ends returns to META_BUMP (sc/mod.rs).           *)
(*                                                                         *)
(* Memory is counted in units of size_of::<ThreadCache>(), half a page,    *)
(* which is what META_BUMP rounds to.  An object is <<first unit, number   *)
(* of units>>.  A step is one section under META_BUMP's lock, one atomic   *)
(* or plain access to a shared static, or one call of pthread_*.           *)
(***************************************************************************)
EXTENDS LinkedLists, FiniteSets

CONSTANTS
  Thread,
  ZoneUnits,    \* size of ZoneAllocator
  PageUnits,    \* units in a page
  RegionUnits,  \* DEFAULT_SIZE of sc::BumpAlloc: units mapped at once
  MaxRegions,   \* regions mmap can give (bounds the memory)
  Null

ASSUME LazyAssumption ==
  /\ ZoneUnits \in Nat \ {0} /\ PageUnits \in Nat \ {0}
  /\ RegionUnits \in Nat \ {0} /\ MaxRegions \in Nat
  /\ ZoneUnits <= RegionUnits

Static == {"zone", "lists"}
Size(s) == IF s = "zone" THEN ZoneUnits ELSE 1

\* Region r holds the units from r * RegionUnits on; region 0 is address null.
Unit == RegionUnits .. (MaxRegions + 1) * RegionUnits - 1
Object == Unit \X {1, ZoneUnits}
Units(o) == o[1] .. o[1] + o[2] - 1

ASSUME NullAssumption == Null \notin Object

VARIABLES
  pc,        \* where each thread is in its first allocation, or "run", "dead"
  tcache,    \* GlobalTcache_VALUE, one per thread
  tsd,       \* TSD_INITIALIZED
  pkey,      \* PKEY: the TLS key, 0 before one is created
  keys,      \* keys pthread_key_create has made
  specific,  \* what pthread_setspecific has stored for a thread
  value,     \* GLOBAL_ZONE_VALUE and FREELIST.lists
  ref,       \* the zone and the lists a thread is using
  mine,      \* the object a thread has built and not published yet
  lost,      \* the zone a thread has built in vain
  meta,      \* BumpAlloc: start and current, and the regions mapped so far
  backup,    \* MetaBumpAlloc.backup: the list of returned caches
  donated    \* objects returned to the page backend

tlsVars  == <<tsd, pkey, keys, specific>>
metaVars == <<meta, backup>>
vars == <<pc, tcache, tlsVars, value, ref, mine, lost, metaVars, donated>>

PC == {<<w>> : w \in {"start", "key", "register", "mark", "save", "run",
                        "discard", "dead"}}
        \cup ({"build", "publish"} \X Static)

TypeOK ==
  /\ pc \in [Thread -> PC]
  /\ tcache \in [Thread -> Object \cup {Null}]
  /\ tsd \in BOOLEAN /\ pkey \in 0 .. keys /\ keys \in Nat
  /\ specific \in [Thread -> Object \cup {Null}]
  /\ value \in [Static -> Object \cup {Null}]
  /\ ref \in [Thread -> [Static -> Object \cup {Null}]]
  /\ mine \in [Thread -> Object \cup {Null}]
  /\ lost \in [Thread -> Object \cup {Null}]
  /\ meta \in [start : Nat, current : Nat, regions : 0 .. MaxRegions]
  /\ backup \in Seq(Object)
  /\ donated \subseteq Object

Init ==
  /\ pc = [t \in Thread |-> <<"start">>]
  /\ tcache = [t \in Thread |-> Null]
  /\ tsd = FALSE /\ pkey = 0 /\ keys = 0
  /\ specific = [t \in Thread |-> Null]
  /\ value = [s \in Static |-> Null]
  /\ ref = [t \in Thread |-> [s \in Static |-> Null]]
  /\ mine = [t \in Thread |-> Null]
  /\ lost = [t \in Thread |-> Null]
  /\ meta = [start |-> 0, current |-> 0, regions |-> 0]
  /\ backup = <<>>
  /\ donated = {}

Goto(t, where) == pc' = [pc EXCEPT ![t] = where]

-----------------------------------------------------------------------------
(***************************************************************************)
(* META_BUMP: MetaBumpAlloc over sc::BumpAlloc, under its lock.            *)
(***************************************************************************)
\* Nothing is left of the region, or there is none yet.
RegionSpent == meta.current <= meta.start

\* A returned cache serves a request of its size.
FromBackup(n) == n = 1 /\ backup # <<>>

NextStart == (meta.regions + 1) * RegionUnits

\* The object alloc returns for n units ...
MetaObject(n) ==
  IF FromBackup(n) THEN Head(backup)
  ELSE IF RegionSpent THEN <<NextStart + RegionUnits - n, n>>
  ELSE <<meta.current - n, n>>

\* Mutant: the head of the list is returned and stays there.
MetaTakeKeepsHead(n) ==
  \/ FromBackup(n) /\ UNCHANGED metaVars
  \/ /\ ~ FromBackup(n) /\ ~ RegionSpent
     /\ meta' = [meta EXCEPT !.current = @ - n]
     /\ UNCHANGED backup
  \/ /\ ~ FromBackup(n) /\ RegionSpent /\ meta.regions < MaxRegions
     /\ meta' = [start |-> NextStart, current |-> NextStart + RegionUnits - n,
                 regions |-> meta.regions + 1]
     /\ UNCHANGED backup

\* ... and what becomes of META_BUMP: the list loses its head, or the region its
\* top, or a new region is mapped.
MetaTake(n) ==
  \/ /\ FromBackup(n)
     /\ backup' = Tail(backup)
     /\ UNCHANGED meta
  \/ /\ ~ FromBackup(n) /\ ~ RegionSpent
     /\ meta' = [meta EXCEPT !.current = @ - n]
     /\ UNCHANGED backup
  \/ /\ ~ FromBackup(n) /\ RegionSpent /\ meta.regions < MaxRegions
     /\ meta' = [start |-> NextStart, current |-> NextStart + RegionUnits - n,
                 regions |-> meta.regions + 1]
     /\ UNCHANGED backup

MetaDealloc(o) == backup' = <<o>> \o backup /\ UNCHANGED meta

-----------------------------------------------------------------------------
(***************************************************************************)
(* tls_static: the first allocation or free of a thread.                   *)
(***************************************************************************)
NewCache(t) ==
  /\ pc[t] = <<"start">>
  /\ MetaTake(1)
  /\ tcache' = [tcache EXCEPT ![t] = MetaObject(1)]
  /\ Goto(t, <<"key">>)
  /\ UNCHANGED <<tlsVars, value, ref, mine, lost, donated>>

\* Mutant: the flag is set before the key is made.
TestKeyMarks(t) ==
  /\ pc[t] = <<"key">>
  /\ Goto(t, IF tsd THEN <<"save">> ELSE <<"register">>)
  /\ tsd' = TRUE
  /\ UNCHANGED <<tcache, pkey, keys, specific, value, ref, mine, lost, metaVars, donated>>

TestKey(t) ==
  /\ pc[t] = <<"key">>
  /\ Goto(t, IF tsd THEN <<"save">> ELSE <<"register">>)
  /\ UNCHANGED <<tcache, tlsVars, value, ref, mine, lost, metaVars, donated>>

\* register_tls_key: pthread_key_create stores a new key in PKEY.
RegisterTlsKey(t) ==
  /\ pc[t] = <<"register">>
  /\ keys' = keys + 1 /\ pkey' = keys + 1
  /\ Goto(t, <<"mark">>)
  /\ UNCHANGED <<tcache, tsd, specific, value, ref, mine, lost, metaVars, donated>>

MarkKey(t) ==
  /\ pc[t] = <<"mark">>
  /\ tsd' = TRUE
  /\ Goto(t, <<"save">>)
  /\ UNCHANGED <<tcache, pkey, keys, specific, value, ref, mine, lost, metaVars, donated>>

\* save_tls: pthread_setspecific stores the cache under PKEY, if that is a key.
SaveTls(t) ==
  /\ pc[t] = <<"save">>
  /\ specific' = [specific EXCEPT ![t] = IF pkey = 0 THEN Null ELSE tcache[t]]
  /\ Goto(t, <<"run">>)
  /\ UNCHANGED <<tcache, tsd, pkey, keys, value, ref, mine, lost, metaVars, donated>>

-----------------------------------------------------------------------------
(***************************************************************************)
(* atomic_static and get_slice.  A thread comes to the lists through the   *)
(* zone.                                                                   *)
(***************************************************************************)
Load(t, s) ==
  /\ pc[t] = <<"run">> /\ ref[t][s] = Null
  /\ s = "lists" => ref[t]["zone"] # Null
  /\ \/ /\ value[s] # Null
        /\ ref' = [ref EXCEPT ![t][s] = value[s]]
        /\ UNCHANGED pc
     \/ /\ value[s] = Null
        /\ Goto(t, <<"build", s>>)
        /\ UNCHANGED ref
  /\ UNCHANGED <<tcache, tlsVars, value, mine, lost, metaVars, donated>>

Build(t, s) ==
  /\ pc[t] = <<"build", s>>
  /\ MetaTake(Size(s))
  /\ mine' = [mine EXCEPT ![t] = MetaObject(Size(s))]
  /\ Goto(t, <<"publish", s>>)
  /\ UNCHANGED <<tcache, tlsVars, value, ref, lost, donated>>

\* Mutant: a plain store in place of the compare_exchange.
PublishStore(t, s) ==
  /\ pc[t] = <<"publish", s>>
  /\ value' = [value EXCEPT ![s] = mine[t]]
  /\ ref' = [ref EXCEPT ![t][s] = mine[t]]
  /\ mine' = [mine EXCEPT ![t] = Null]
  /\ Goto(t, <<"run">>)
  /\ UNCHANGED <<tcache, tlsVars, lost, metaVars, donated>>

\* The compare_exchange; a loser goes on with the winner's object.
Publish(t, s) ==
  /\ pc[t] = <<"publish", s>>
  /\ \/ /\ value[s] = Null
        /\ value' = [value EXCEPT ![s] = mine[t]]
        /\ ref' = [ref EXCEPT ![t][s] = mine[t]]
        /\ mine' = [mine EXCEPT ![t] = Null]
        /\ Goto(t, <<"run">>)
        /\ UNCHANGED lost
     \/ /\ value[s] # Null /\ s = "lists"
        /\ ref' = [ref EXCEPT ![t][s] = value[s]]
        /\ Goto(t, <<"discard">>)
        /\ UNCHANGED <<value, mine, lost>>
     \/ /\ value[s] # Null /\ s = "zone"
        /\ ref' = [ref EXCEPT ![t][s] = value[s]]
        /\ lost' = [lost EXCEPT ![t] = mine[t]]
        /\ mine' = [mine EXCEPT ![t] = Null]
        /\ Goto(t, <<"run">>)
        /\ UNCHANGED value
  /\ UNCHANGED <<tcache, tlsVars, metaVars, donated>>

\* get_slice returns the loser's array to META_BUMP.
DiscardLists(t) ==
  /\ pc[t] = <<"discard">>
  /\ MetaDealloc(mine[t])
  /\ mine' = [mine EXCEPT ![t] = Null]
  /\ Goto(t, <<"run">>)
  /\ UNCHANGED <<tcache, tlsVars, value, ref, lost, donated>>

\* atomic_static drops the loser's zone as a Box of GlobalBackend, which goes
\* through the lists.
DiscardZone(t) ==
  /\ pc[t] = <<"run">> /\ lost[t] # Null /\ ref[t]["lists"] # Null
  /\ donated' = donated \cup {lost[t]}
  /\ lost' = [lost EXCEPT ![t] = Null]
  /\ UNCHANGED <<pc, tcache, tlsVars, value, ref, mine, metaVars>>

-----------------------------------------------------------------------------
\* Thread exit: the destructor of the key runs if something is stored, and
\* free_thread_cache returns that cache to META_BUMP.
ThreadExit(t) ==
  /\ pc[t] = <<"run">> /\ lost[t] = Null
  /\ \/ /\ specific[t] # Null
        /\ MetaDealloc(specific[t])
     \/ /\ specific[t] = Null
        /\ UNCHANGED metaVars
  /\ specific' = [specific EXCEPT ![t] = Null]
  /\ ref' = [ref EXCEPT ![t] = [s \in Static |-> Null]]
  /\ Goto(t, <<"dead">>)
  /\ UNCHANGED <<tcache, tsd, pkey, keys, value, mine, lost, donated>>

Finished == (\A t \in Thread : pc[t] = <<"dead">>) /\ UNCHANGED vars

Next ==
  \/ \E t \in Thread :
       \/ NewCache(t) \/ TestKey(t) \/ RegisterTlsKey(t) \/ MarkKey(t)
       \/ SaveTls(t)
       \/ \E s \in Static : Load(t, s) \/ Build(t, s) \/ Publish(t, s)
       \/ DiscardLists(t) \/ DiscardZone(t)
       \/ ThreadExit(t)
  \/ Finished

Spec == Init /\ [][Next]_vars
-----------------------------------------------------------------------------
(***************************************************************************)
(* Properties.                                                             *)
(***************************************************************************)
\* Metadata in use or listed as free, with the one who has it.
Owned ==
  {<<"static", s, value[s]>> : s \in {r \in Static : value[r] # Null}}
    \cup {<<"cache", t, tcache[t]>> :
            t \in {u \in Thread : pc[u] \notin {<<"start">>, <<"dead">>}}}
    \cup {<<"mine", t, mine[t]>> : t \in {u \in Thread : mine[u] # Null}}
    \cup {<<"lost", t, lost[t]>> : t \in {u \in Thread : lost[u] # Null}}
    \cup {<<"backup", i, backup[i]>> : i \in DOMAIN backup}

\* All threads work on the same zone and the same lists, whoever built them and
\* however many were built; else two slabs of one class, or two lists of free
\* blocks, would exist side by side.
OneInstance ==
  \A t \in Thread, s \in Static :
    ref[t][s] # Null => ref[t][s] = value[s]

\* No two pieces of metadata share memory: a cache that was returned has one
\* new owner, and none while its thread still runs.
OneOwnerPerUnit ==
  \A a, b \in Owned : a # b => Disjoint(Units(a[3]), Units(b[3]))

\* Every unit cut from META_BUMP's regions is in use, on the list of returned
\* caches or (a zone built in vain) with the backend: the destructor is found
\* for every thread's cache, whichever thread made the key.
NoMetaLeak ==
  RegionUnits .. meta.regions * RegionUnits + RegionUnits - 1 =
    (meta.start .. meta.current - 1)
      \cup (UNION {Units(o[3]) : o \in Owned}) \cup UNION {Units(d) : d \in donated}

\* What the backend is given belongs to nobody else: "The internal
\* representation requires `Box` to allocate objects on heap"
\* (alloc_macros/src/allocator.rs:52), and dropping that Box returns whole pages
\* to the backend.  It does not hold: the zone was cut from META_BUMP.
BackendPages(d) ==
  d[1] .. d[1] + PageUnits * ((d[2] + PageUnits - 1) \div PageUnits) - 1
DonatedIsFree ==
  \A d \in donated : \A o \in Owned : Disjoint(BackendPages(d), Units(o[3]))
=============================================================================
