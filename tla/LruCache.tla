------------------------------ MODULE LruCache ------------------------------
(* common/cache: a cache with a maximal size, a maximal age, or both.      *)
(* Entries are objects (ids): CloneTo shares them between two caches.  The *)
(* methods run under the cache's mutex.                                    *)
EXTENDS Integers, Sequences, FiniteSets

CONSTANTS LruKeys, LruValues,
          MaxEntry,     \* bound: entries ever made
          MaxNow,       \* bound: the clock, in seconds
          NoEntry

ASSUME LruAssumption == NoEntry \notin Nat

VARIABLES conf,     \* the options: [maxAge, maxSize, updateAgeOnGet, staleReturn]
          ents,     \* entry id -> [key, value, expires], in order of creation
          cache,    \* cache -> key -> entry id or NoEntry
          lru,      \* cache -> sequence of entry ids, the front is least recent
          now,      \* the clock
          used,     \* history: cache -> key -> other keys used since its last use
          dropped   \* history: cache -> keys deleted or expired since they were last set

lruVars == <<conf, ents, cache, lru, now, used, dropped>>

Caches == {"c", "n"}
Options == {o \in [maxAge : Nat, maxSize : [Caches -> Nat], updateAgeOnGet : BOOLEAN, staleReturn : BOOLEAN] :
              o.maxAge = 0 => ~o.updateAgeOnGet /\ ~o.staleReturn}

LruInit(O) ==
  /\ conf \in O /\ ents = <<>> /\ now = 0
  /\ cache = [x \in Caches |-> [k \in LruKeys |-> NoEntry]] /\ lru = [x \in Caches |-> <<>>]
  /\ used = [x \in Caches |-> [k \in LruKeys |-> {}]]
  /\ dropped = [x \in Caches |-> LruKeys]

-----------------------------------------------------------------------------
(* A cache value is [map, list]; es is the table of entries.               *)
C(x) == [map |-> cache[x], list |-> lru[x]]

\* list.Remove: the element that holds e is taken out.
Without(q, e) ==
  LET p == CHOOSE i \in 1 .. Len(q) : q[i] = e
  IN [i \in 1 .. Len(q) - 1 |-> IF i < p THEN q[i] ELSE q[i + 1]]

\* deleteElement
DeleteElement(c, es, e) == [map |-> [c.map EXCEPT ![es[e].key] = NoEntry], list |-> Without(c.list, e)]
MoveToBack(c, e) == [map |-> c.map, list |-> Append(Without(c.list, e), e)]

Aged == ~conf.staleReturn /\ conf.maxAge > 0

\* How many entries at the front have expired: stop holds the places of those that have not.
Outdated(q, es) ==
  LET stop == {i \in 1 .. Len(q) : es[q[i]].expires > now}
  IN IF stop = {} THEN Len(q) ELSE (CHOOSE i \in stop : \A j \in stop : i <= j) - 1

\* maybeDeleteOldest: from the front, as long as the entry there has expired.
MaybeDeleteOldest(c, es) ==
  LET cut == Outdated(c.list, es)
      gone == {c.list[i] : i \in 1 .. cut}
  IN IF ~Aged THEN c
     ELSE [map |-> [k \in LruKeys |-> IF c.map[k] \in gone THEN NoEntry ELSE c.map[k]],
           list |-> SubSeq(c.list, cut + 1, Len(c.list))]

\* A mutant: the newest entry makes room.
EvictNewest(x, c, es) ==
  IF conf.maxSize[x] > 0 /\ Len(c.list) > conf.maxSize[x]
  THEN DeleteElement(c, es, c.list[Len(c.list) - 1]) ELSE c

\* The front makes room for a new entry.
Evict(x, c, es) ==
  IF conf.maxSize[x] > 0 /\ Len(c.list) > conf.maxSize[x] THEN DeleteElement(c, es, Head(c.list)) ELSE c

Install(x, c) == cache' = [cache EXCEPT ![x] = c.map] /\ lru' = [lru EXCEPT ![x] = c.list]

\* History: key k is used in cache x.
Use(x, k) == used' = [used EXCEPT ![x] = [j \in LruKeys |-> IF j = k THEN {} ELSE @[j] \cup {k}]]

-----------------------------------------------------------------------------
\* SetWithExpire
SetWithExpire(x, k, v, exp) ==
  LET e == cache[x][k] IN
  /\ \/ /\ e # NoEntry
        /\ ents' = [ents EXCEPT ![e].value = v, ![e].expires = exp]
        /\ Install(x, MaybeDeleteOldest(MoveToBack(C(x), e), ents'))
     \/ /\ e = NoEntry /\ Len(ents) < MaxEntry
        /\ ents' = Append(ents, [key |-> k, value |-> v, expires |-> exp])
        /\ LET n == Len(ents')
               pushed == [map |-> [cache[x] EXCEPT ![k] = n], list |-> Append(lru[x], n)]
           IN Install(x, MaybeDeleteOldest(Evict(x, pushed, ents'), ents'))
  /\ Use(x, k) /\ dropped' = [dropped EXCEPT ![x] = @ \ {k}]
  /\ UNCHANGED <<conf, now>>

\* Set: the age of the options, or none.
Set(x, k, v) == SetWithExpire(x, k, v, IF conf.maxAge > 0 THEN now + conf.maxAge ELSE 0)

Expired(e) == Aged /\ ents[e].expires <= now

\* get, under the lock: an expired entry is deleted and not found.
GetMiss(x, k) ==
  /\ LET e == cache[x][k] IN
     /\ IF e = NoEntry THEN TRUE ELSE Expired(e)
     /\ Install(x, IF e = NoEntry THEN C(x) ELSE MaybeDeleteOldest(DeleteElement(C(x), ents, e), ents))
     /\ dropped' = IF e = NoEntry THEN dropped ELSE [dropped EXCEPT ![x] = @ \cup {k}]
  /\ UNCHANGED <<conf, ents, now, used>>

GetHit(x, k) ==
  /\ LET e == cache[x][k] IN
     /\ e # NoEntry /\ ~Expired(e)
     /\ Install(x, MoveToBack(C(x), e))
     /\ ents' = IF conf.maxAge > 0 /\ conf.updateAgeOnGet
                THEN [ents EXCEPT ![e].expires = now + conf.maxAge] ELSE ents
  /\ Use(x, k)
  /\ UNCHANGED <<conf, now, dropped>>

Delete(x, k) ==
  /\ cache[x][k] # NoEntry
  /\ Install(x, DeleteElement(C(x), ents, cache[x][k]))
  /\ dropped' = [dropped EXCEPT ![x] = @ \cup {k}]
  /\ UNCHANGED <<conf, ents, now, used>>

\* CloneTo: c's entries, not copies of them, in c's order; n's size is not asked.
CloneTo ==
  /\ Install("n", C("c"))
  /\ used' = [used EXCEPT !["n"] = used["c"]] 
  /\ dropped' = [dropped EXCEPT !["n"] = dropped["c"] \cup
                                 {k \in LruKeys : cache["c"][k] = NoEntry}]
  /\ UNCHANGED <<conf, ents, now>>

ClockTicks ==
  /\ now < MaxNow /\ now' = now + 1
  /\ dropped' = [x \in Caches |-> dropped[x] \cup
       {k \in LruKeys : \E e \in DOMAIN ents : cache[x][k] = e /\ Aged /\ ents[e].expires <= now'}]
  /\ UNCHANGED <<conf, ents, cache, lru, used>>

LruNext == \/ \E x \in Caches, k \in LruKeys :
                 \/ GetMiss(x, k) \/ GetHit(x, k) \/ Delete(x, k)
                 \/ \E v \in LruValues : Set(x, k, v)
           \/ CloneTo \/ ClockTicks

LruSpec == LruInit(Options) /\ [][LruNext]_lruVars

-----------------------------------------------------------------------------
(* Properties.                                                             *)

\* An entry that was set, has neither been deleted nor expired, and after which
\* fewer than maxSize other keys were used, is still found (Evict takes the
\* front, and every use moves to the back).
RecentIsKept ==
  \A x \in Caches, k \in LruKeys :
    (/\ k \notin dropped[x]
     /\ conf.maxSize[x] > 0 => Cardinality(used[x][k]) < conf.maxSize[x])
    => cache[x][k] # NoEntry
=============================================================================
