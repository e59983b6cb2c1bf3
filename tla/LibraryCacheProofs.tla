-------------------------- MODULE LibraryCacheProofs --------------------------
(***************************************************************************)
(* The properties of LibraryCache hold for any number of threads, sources, *)
(* functions and calls, and for any limits; the two-level find, build and  *)
(* insert implements SharedCache.                                          *)
(*                                                                         *)
(* What carries the proof: a value belongs to the call that built it, and  *)
(* a call that is still looking in a cache has put nothing of its own      *)
(* there, so that an insertion always brings a value nobody has seen; and  *)
(* the order of a cache's list only says what the requests have said.      *)
(***************************************************************************)
EXTENDS LibraryCache, LruCacheProofs

KeysOf(c) == IF c = Runtime THEN Sources ELSE Functions

\* lru may be the cache c: the values in it were built for their keys, in c, and a
\* library has a cache of its own.
Fits(c, lru) ==
  /\ lru \in Lrus(KeysOf(c), Values) /\ Agrees(lru) /\ WithinLimit(lru)
  /\ \A k \in Keys(lru) :
       /\ lru.entries[k].key = k /\ lru.entries[k].in = c
       /\ c = Runtime => lru.entries[k] \in DOMAIN caches

CachesFit ==
  /\ Runtime \in DOMAIN caches /\ DOMAIN caches \subseteq {Runtime} \cup Libs
  /\ DOMAIN later = DOMAIN caches
  /\ \A c \in DOMAIN caches : Fits(c, caches[c])

\* The list of a cache names keys in the order of the requests for them.
OrderIsLater == \A c \in DOMAIN caches : \A i, j \in 1..Len(caches[c].order) :
  i < j => <<caches[c].order[i], caches[c].order[j]>> \in later[c]

ThreadsOK ==
  /\ pc \in [Threads -> {"idle", "find", "build", "insert"}]
  /\ at \in [Threads -> DOMAIN caches]
  /\ want \in [Threads -> Sources \cup Functions \cup {Runtime}]
  /\ function \in [Threads -> Functions \cup {Runtime}]
  /\ built \in [Threads -> Values \cup {Runtime}]
  /\ calls \in [Threads -> Nat]
  /\ handed \subseteq Values /\ dropped \subseteq Values

\* What a call in progress knows of its lookup.
Lookups == \A t \in Threads : pc[t] # "idle" =>
  /\ calls[t] \in 1..MaxCalls
  /\ want[t] \in KeysOf(at[t]) /\ function[t] \in Functions
  /\ pc[t] = "insert" =>
       /\ built[t] = [key |-> want[t], in |-> at[t], by |-> <<t, calls[t]>>]
       /\ at[t] = Runtime => built[t] \in DOMAIN caches

Holds(v) == v.in \in DOMAIN caches /\ v.key \in Keys(caches[v.in])
            /\ caches[v.in].entries[v.key] = v

\* A value that was handed out is cached until it is dropped.
CachedTillDropped == \A v \in handed : v \in dropped \/ Holds(v)

\* Every answer was built for what was asked.
AnswersFit == answered \subseteq {p \in Ids \X Values : KeyOf(p[2]) = p[1]}

Seen == handed \cup Cached

\* Every value was built by a call that has begun.
BuiltByCalls ==
  /\ \A v \in Seen : v.by[2] <= calls[v.by[1]]
  /\ \A c \in DOMAIN caches \ {Runtime} : c.by[2] <= calls[c.by[1]]

\* All that is seen of a call in progress is its library, and that only once it is
\* looking for its pipeline; its library has no cache before it is built.
NothingSeenEarly == \A t \in Threads : pc[t] # "idle" =>
  /\ \A v \in Seen : v.by = <<t, calls[t]>> => at[t] # Runtime /\ v.in = Runtime
  /\ \A c \in DOMAIN caches \ {Runtime} :
       c.by = <<t, calls[t]>> => at[t] # Runtime \/ pc[t] = "insert"

IInv == CachesFit /\ OrderIsLater /\ ThreadsOK /\ Lookups
        /\ CachedTillDropped /\ AnswersFit /\ BuiltByCalls /\ NothingSeenEarly

-----------------------------------------------------------------------------
(* Values, and steps that touch one cache *)

ValuesIn(lru) == {lru.entries[k] : k \in Keys(lru)}

\* What thread t makes when it builds.
Building(t) == [key |-> want[t], in |-> at[t], by |-> <<t, calls[t]>>]

LEMMA ValueFacts ==
  ASSUME NEW v \in Values
  PROVE  /\ v.by[1] \in Threads /\ v.by[2] \in Nat /\ v.by = <<v.by[1], v.by[2]>>
         /\ v \in Libs => v.in = Runtime
         /\ v # Runtime \/ v \in Pipes
<1>1. v.by \in Threads \X (1..MaxCalls)
  BY DEF Values, Libs, Pipes, Calls
<1>2. v.by[1] \in Threads /\ v.by[2] \in 1..MaxCalls /\ v.by = <<v.by[1], v.by[2]>>
  BY <1>1
<1>3. QED
  BY <1>2, RuntimeAssumption, CacheAssumption DEF Values, Libs

LEMMA BuildingFacts ==
  ASSUME CachesFit, ThreadsOK, Lookups, NEW t \in Threads, pc[t] # "idle"
  PROVE  /\ Building(t) \in Values
         /\ at[t] = Runtime => Building(t) \in Libs
         /\ Building(t).key = want[t] /\ Building(t).in = at[t]
         /\ Building(t).by = <<t, calls[t]>>
<1>1. <<t, calls[t]>> \in Calls
  BY DEF Lookups, Calls
<1>2. at[t] \in {Runtime} \cup Libs
  BY DEF CachesFit, ThreadsOK
<1>3. CASE at[t] = Runtime
  <2>1. want[t] \in Sources
    BY <1>3 DEF Lookups, KeysOf
  <2>2. QED
    BY <1>1, <1>3, <2>1 DEF Building, Values, Libs
<1>4. CASE at[t] # Runtime
  <2>1. want[t] \in Functions
    BY <1>4 DEF Lookups, KeysOf
  <2>2. QED
    BY <1>1, <1>2, <1>4, <2>1 DEF Building, Values, Pipes
<1>5. QED
  BY <1>3, <1>4

LEMMA KeyFacts ==
  ASSUME NEW v \in Values
  PROVE  KeyOf(v) \in Ids
BY DEF Values, Libs, Pipes, Ids, KeyOf

LEMMA AnswerHands ==
  ASSUME NEW t \in Threads, NEW v, Answer(t, v)
  PROVE  handed' = handed \cup {v}
<1> DEFINE p == << <<at[t], want[t]>>, v>>
<1>1. answered' = answered \cup {p} /\ p[2] = v
  BY DEF Answer
<1> HIDE DEF p
<1>2. QED
  BY <1>1 DEF handed

LEMMA CachedAreValues ==
  ASSUME CachesFit, NEW c \in DOMAIN caches
  PROVE  In(c) = ValuesIn(caches[c]) /\ In(c) \subseteq Values /\ In(c) \subseteq Cached
<1>1. caches[c] \in Lrus(KeysOf(c), Values)
  BY DEF CachesFit, Fits
<1>2. caches[c].entries \in [Keys(caches[c]) -> Values]
  BY <1>1, LruParts
<1>3. QED
  BY <1>2 DEF In, ValuesIn, Cached

LEMMA UpdateFacts ==
  ASSUME CachesFit, OrderIsLater, ThreadsOK, CachedTillDropped,
         NEW c \in DOMAIN caches, NEW lru, NEW used, Update(c, lru, used),
         Fits(c, lru), UsesFirst(caches[c], lru, used)
  PROVE  /\ CachesFit' /\ OrderIsLater'
         /\ DOMAIN caches' = DOMAIN caches
         /\ caches'[c] = lru /\ \A d \in DOMAIN caches \ {c} : caches'[d] = caches[d]
         /\ dropped' \subseteq Values
         /\ \A v \in handed : v \in dropped' \/ Holds(v)'
<1>1. /\ DOMAIN caches' = DOMAIN caches /\ DOMAIN later' = DOMAIN later
      /\ caches'[c] = lru /\ \A d \in DOMAIN caches \ {c} : caches'[d] = caches[d]
      /\ \A d \in DOMAIN caches \ {c} : later'[d] = later[d]
  BY DEF Update, CachesFit
<1>2. CachesFit'
  <2>1. ASSUME NEW d \in DOMAIN caches PROVE Fits(d, caches[d])'
    <3>1. CASE d = c
      BY <1>1, <3>1 DEF Fits
    <3>2. CASE d # c
      BY <1>1, <3>2 DEF CachesFit, Fits
    <3>3. QED
      BY <3>1, <3>2
  <2>2. QED
    BY <1>1, <2>1 DEF CachesFit
<1>3. OrderIsLater'
  <2>1. SUFFICES ASSUME NEW d \in DOMAIN caches,
                        NEW i \in 1..Len(caches'[d].order), NEW j \in 1..Len(caches'[d].order), i < j
                 PROVE  <<caches'[d].order[i], caches'[d].order[j]>> \in later'[d]
    BY <1>1 DEF OrderIsLater
  <2>2. CASE d # c
    BY <1>1, <2>1, <2>2 DEF OrderIsLater
  <2>3. CASE d = c
    <3> DEFINE x == lru.order[i]
               y == lru.order[j]
    <3>1. i \in 1..Len(lru.order) /\ j \in 1..Len(lru.order) /\ caches'[d] = lru
      BY <1>1, <2>1, <2>3
    <3>2. Before(lru.order, x, y)
      BY <2>1, <3>1 DEF Before
    <3>3. lru.order \in Seq(KeysOf(c))
      BY LruParts DEF Fits
    <3>4. x \in Keys(lru) /\ y \in Keys(lru) /\ x # y
      BY <2>1, <3>1, <3>3 DEF Fits, Agrees, Range
    <3>5. y \notin used /\ (x \in used \/ Before(caches[c].order, x, y))
      BY <3>2 DEF UsesFirst
    <3>6. Before(caches[c].order, x, y) => <<x, y>> \in later[c]
      BY DEF Before, OrderIsLater
    <3>7. later'[c] = {p \in Keys(lru) \X Keys(lru) :
             p[1] # p[2] /\ p[2] \notin used /\ (p[1] \in used \/ p \in later[c])}
      BY DEF Update, CachesFit
    <3> HIDE DEF x, y
    <3>8. <<x, y>> \in later'[c]
      BY <3>4, <3>5, <3>6, <3>7
    <3>9. QED
      BY <2>3, <3>1, <3>8 DEF x, y
  <2>4. QED
    BY <2>2, <2>3
<1>4. dropped' = dropped \cup (In(c) \ ValuesIn(lru))
  BY DEF Update, ValuesIn
<1>5. dropped' \subseteq Values
  BY <1>4, CachedAreValues DEF ThreadsOK
<1>6. ASSUME NEW v \in handed, v \notin dropped' PROVE Holds(v)'
  <2>1. Holds(v)
    BY <1>4, <1>6 DEF CachedTillDropped
  <2>2. CASE v.in # c
    BY <1>1, <2>1, <2>2 DEF Holds
  <2>3. CASE v.in = c
    <3>1. v \in In(c)
      BY <2>1, <2>3 DEF Holds, In
    <3>2. PICK k \in Keys(lru) : v = lru.entries[k]
      BY <1>4, <1>6, <3>1 DEF ValuesIn
    <3>3. v.key = k
      BY <3>2 DEF Fits
    <3>4. QED
      BY <1>1, <2>3, <3>2, <3>3 DEF Holds
  <2>4. QED
    BY <2>2, <2>3
<1>7. QED
  BY <1>1, <1>2, <1>3, <1>5, <1>6

\* What is cached after such a step.
LEMMA UpdateCached ==
  ASSUME NEW c \in DOMAIN caches, DOMAIN caches' = DOMAIN caches,
         \A d \in DOMAIN caches \ {c} : caches'[d] = caches[d]
  PROVE  /\ Cached' \subseteq Cached \cup ValuesIn(caches'[c])
         /\ ValuesIn(caches'[c]) \subseteq Cached'
         /\ In(c) \subseteq ValuesIn(caches'[c]) => Cached \subseteq Cached'
<1>1. In(c)' = ValuesIn(caches'[c])
  BY DEF In, ValuesIn
<1>2. \A d \in DOMAIN caches \ {c} : In(d)' = In(d)
  BY DEF In
<1>3. QED
  BY <1>1, <1>2 DEF Cached

-----------------------------------------------------------------------------
(* The steps *)

\* A request is answered from the cache it was looking in: with what was cached, or with
\* the thread's own build.
LEMMA Answered ==
  ASSUME IInv, NEW t \in Threads, pc[t] # "idle", NEW lru,
         Fits(at[t], lru), UsesFirst(caches[at[t]], lru, {want[t]}),
         want[t] \in Keys(lru), ValuesIn(lru) \subseteq Cached \cup {Building(t)},
         NEW v, v = lru.entries[want[t]],
         Update(at[t], lru, {want[t]}), Answer(t, v)
  PROVE  IInv'
<1> USE DEF IInv
<1>1. at[t] \in DOMAIN caches /\ calls[t] \in Nat
  BY DEF ThreadsOK
<1>2. /\ CachesFit' /\ OrderIsLater'
      /\ DOMAIN caches' = DOMAIN caches
      /\ caches'[at[t]] = lru /\ \A d \in DOMAIN caches \ {at[t]} : caches'[d] = caches[d]
      /\ dropped' \subseteq Values
      /\ \A w \in handed : w \in dropped' \/ Holds(w)'
  BY <1>1, UpdateFacts
<1>3. /\ v.key = want[t] /\ v.in = at[t]
      /\ at[t] = Runtime => v \in DOMAIN caches
      /\ v \in ValuesIn(lru)
  BY DEF Fits, ValuesIn
<1>4. v \in Values
  <2>1. lru.entries \in [Keys(lru) -> Values]
    BY LruParts DEF Fits
  <2>2. QED
    BY <2>1
<1>5. /\ Building(t) \in Values /\ Building(t).in = at[t] /\ Building(t).by = <<t, calls[t]>>
  BY BuildingFacts
<1>6. Seen' \subseteq Seen \cup {Building(t)}
  <2>1. Cached' \subseteq Cached \cup ValuesIn(lru)
    BY <1>1, <1>2, UpdateCached
  <2>2. handed' = handed \cup {v}
    BY AnswerHands
  <2>3. QED
    BY <1>3, <2>1, <2>2 DEF Seen
<1>7. Seen \subseteq Values
  BY CachedAreValues DEF Seen, Cached, ThreadsOK
<1>8. /\ calls' = calls /\ function' = function
      /\ \A u \in Threads \ {t} :
           pc'[u] = pc[u] /\ at'[u] = at[u] /\ want'[u] = want[u] /\ built'[u] = built[u]
      /\ at[t] = Runtime => pc'[t] = "find" /\ at'[t] = v /\ want'[t] = function[t]
      /\ at[t] # Runtime => pc'[t] = "idle"
  BY DEF Answer, ThreadsOK
<1>9. at[t] = Runtime => v # Runtime
  BY <1>3, <1>4, RuntimeAssumption, ValueFacts DEF Values, Pipes
<1>10. ThreadsOK'
  <2>1. function[t] \in Functions
    BY DEF Lookups
  <2>2. handed' \subseteq Values
    BY <1>4, AnswerHands DEF ThreadsOK
  <2>3. at' \in [Threads -> DOMAIN caches']
    BY <1>2, <1>3 DEF Answer, ThreadsOK, CachesFit
  <2>4. /\ pc' \in [Threads -> {"idle", "find", "build", "insert"}]
        /\ want' \in [Threads -> Sources \cup Functions \cup {Runtime}]
        /\ built' \in [Threads -> Values \cup {Runtime}]
    BY <2>1 DEF Answer, ThreadsOK
  <2>5. QED
    BY <1>2, <1>8, <2>2, <2>3, <2>4 DEF ThreadsOK
<1>11. Lookups'
  <2>1. ASSUME NEW u \in Threads \ {t}, pc'[u] # "idle"
        PROVE  /\ calls'[u] \in 1..MaxCalls
               /\ want'[u] \in KeysOf(at'[u]) /\ function'[u] \in Functions
               /\ pc'[u] = "insert" =>
                    /\ built'[u] = [key |-> want'[u], in |-> at'[u], by |-> <<u, calls'[u]>>]
                    /\ at'[u] = Runtime => built'[u] \in DOMAIN caches'
    BY <1>2, <1>8, <2>1 DEF Lookups
  <2>2. ASSUME pc'[t] # "idle"
        PROVE  /\ calls'[t] \in 1..MaxCalls
               /\ want'[t] \in KeysOf(at'[t]) /\ function'[t] \in Functions
               /\ pc'[t] # "insert"
    BY <1>8, <1>9, <2>2 DEF Lookups, KeysOf
  <2>3. QED
    BY <2>1, <2>2 DEF Lookups, KeysOf
<1>12. CachedTillDropped'
  <2>1. Holds(v)'
    BY <1>1, <1>2, <1>3 DEF Holds
  <2>2. handed' = handed \cup {v}
    BY AnswerHands
  <2>3. QED
    BY <1>2, <2>1, <2>2 DEF CachedTillDropped
<1>13. BuiltByCalls'
  <2>1. Building(t).by[2] <= calls[Building(t).by[1]]
    BY <1>1, <1>5
  <2>2. QED
    BY <1>2, <1>6, <1>8, <2>1 DEF BuiltByCalls
<1>14. NothingSeenEarly'
  <2>1. ASSUME NEW u \in Threads \ {t}, pc'[u] # "idle"
        PROVE  /\ \A w \in Seen' : w.by = <<u, calls'[u]>> => at'[u] # Runtime /\ w.in = Runtime
               /\ \A c \in DOMAIN caches' \ {Runtime} :
                    c.by = <<u, calls'[u]>> => at'[u] # Runtime \/ pc'[u] = "insert"
    <3>1. Building(t).by # <<u, calls'[u]>>
      BY <1>5
    <3>2. QED
      BY <1>2, <1>6, <1>8, <2>1, <3>1 DEF NothingSeenEarly
  <2>2. ASSUME pc'[t] # "idle"
        PROVE  /\ at'[t] # Runtime
               /\ \A w \in Seen' : w.by = <<t, calls'[t]>> => w.in = Runtime
    <3>1. at[t] = Runtime /\ at'[t] # Runtime
      BY <1>8, <1>9, <2>2
    <3>2. QED
      BY <1>5, <1>6, <1>8, <3>1 DEF NothingSeenEarly
  <2>3. QED
    BY <2>1, <2>2 DEF NothingSeenEarly
<1>15. AnswersFit'
  <2>1. KeyOf(v) = <<at[t], want[t]>> /\ KeyOf(v) \in Ids
    BY <1>3, <1>4, KeyFacts DEF KeyOf
  <2>2. answered' = answered \cup {<<KeyOf(v), v>>}
    BY <2>1 DEF Answer
  <2>3. QED
    BY <1>4, <2>1, <2>2 DEF AnswersFit
<1>16. QED
  BY <1>2, <1>10, <1>11, <1>12, <1>13, <1>14, <1>15

\* Find() and insert() leave a cache that fits, with values that were cached or just built.
LEMMA FindFits ==
  ASSUME IInv, NEW c \in DOMAIN caches, NEW k, Has(caches[c], k)
  PROVE  LET lru == Find(caches[c], k) IN
         /\ Fits(c, lru) /\ UsesFirst(caches[c], lru, {k})
         /\ lru.entries = caches[c].entries /\ k \in Keys(lru) /\ ValuesIn(lru) = In(c)
<1> DEFINE lru == Find(caches[c], k)
<1>1. Fits(c, caches[c])
  BY DEF IInv, CachesFit
<1>2. /\ lru \in Lrus(KeysOf(c), Values) /\ Agrees(lru) /\ WithinLimit(lru)
      /\ lru.entries = caches[c].entries /\ UsesFirst(caches[c], lru, {k})
  BY <1>1, FindFacts DEF Fits
<1> HIDE DEF lru
<1>3. Keys(lru) = Keys(caches[c])
  BY <1>2 DEF Keys
<1>4. Fits(c, lru)
  BY <1>1, <1>2, <1>3 DEF Fits
<1>5. k \in Keys(lru) /\ ValuesIn(lru) = In(c)
  BY <1>2, <1>3 DEF Has, ValuesIn, In
<1>6. QED
  BY <1>2, <1>4, <1>5 DEF lru

LEMMA InsertFits ==
  ASSUME IInv, NEW t \in Threads, pc[t] = "insert"
  PROVE  LET c   == caches[at[t]]
             lru == Insert(c, want[t], built[t]) IN
         /\ Fits(at[t], lru) /\ UsesFirst(c, lru, {want[t]})
         /\ want[t] \in Keys(lru)
         /\ Has(c, want[t]) => ValuesIn(lru) = In(at[t])
         /\ ~Has(c, want[t]) => lru.entries[want[t]] = built[t]
         /\ ValuesIn(lru) \subseteq In(at[t]) \cup {built[t]} /\ built[t] = Building(t)
<1> DEFINE c   == caches[at[t]]
           k   == want[t]
           v   == built[t]
           lru == Insert(c, k, v)
<1>1. at[t] \in DOMAIN caches /\ Fits(at[t], c)
  BY DEF IInv, CachesFit, ThreadsOK
<1>2. v = Building(t) /\ (at[t] = Runtime => v \in DOMAIN caches)
  BY DEF IInv, Lookups, Building
<1>3. v \in Values /\ v.key = k /\ v.in = at[t]
  BY <1>2, BuildingFacts DEF IInv
<1>4. k \in KeysOf(at[t])
  BY DEF IInv, Lookups
<1>5. built[t] = Building(t)
  BY DEF IInv, Lookups, Building
<1>6. c \in Lrus(KeysOf(at[t]), Values) /\ Agrees(c) /\ WithinLimit(c)
  BY <1>1 DEF Fits
<1> HIDE DEF c, k, v
<1>7. /\ lru \in Lrus(KeysOf(at[t]), Values) /\ Agrees(lru) /\ WithinLimit(lru)
      /\ Has(lru, k) /\ Keys(lru) \subseteq Keys(c) \cup {k} /\ SameValues(c, lru)
      /\ Has(c, k) => lru.entries = c.entries
      /\ ~Has(c, k) => lru.entries[k] = v
      /\ UsesFirst(c, lru, {k})
  BY <1>3, <1>4, <1>6, InsertFacts
<1> HIDE DEF lru
<1>8. \A j \in Keys(lru) :
        (j \in Keys(c) /\ lru.entries[j] = c.entries[j]) \/ (j = k /\ lru.entries[j] = v)
  BY <1>7 DEF SameValues, Has
<1>9. Fits(at[t], lru)
  BY <1>1, <1>2, <1>3, <1>5, <1>7, <1>8 DEF Fits, v
<1>10. ValuesIn(lru) \subseteq In(at[t]) \cup {v}
  BY <1>8 DEF ValuesIn, In, c
<1>11. Has(c, k) => ValuesIn(lru) = In(at[t])
  BY <1>7 DEF ValuesIn, In, Keys, c
<1>12. QED
  BY <1>5, <1>7, <1>9, <1>10, <1>11 DEF c, k, v, lru, Has

LEMMA InitIInv == Init => IInv
<1> SUFFICES ASSUME Init PROVE IInv
  OBVIOUS
<1>1. PICK n \in Limits : caches = [c \in {Runtime} |-> EmptyLru(n)]
  BY DEF Init
<1>2. n \in Nat
  BY <1>1, CacheAssumption
<1>3. DOMAIN caches = {Runtime} /\ caches[Runtime] = EmptyLru(n) /\ DOMAIN later = {Runtime}
  BY <1>1 DEF Init
<1>4. /\ EmptyLru(n) \in Lrus(KeysOf(Runtime), Values) /\ Keys(EmptyLru(n)) = {}
      /\ Agrees(EmptyLru(n)) /\ WithinLimit(EmptyLru(n)) /\ Len(EmptyLru(n).order) = 0
  BY <1>2, EmptyFacts
<1>5. CachesFit /\ OrderIsLater
  BY <1>3, <1>4 DEF CachesFit, Fits, OrderIsLater
<1>6. Cached = {} /\ handed = {}
  BY <1>3, <1>4 DEF Cached, In, Init, handed
<1>7. ThreadsOK /\ Lookups
  BY <1>3, <1>6 DEF Init, ThreadsOK, Lookups
<1>8. CachedTillDropped /\ AnswersFit /\ BuiltByCalls /\ NothingSeenEarly
  BY <1>3, <1>6 DEF CachedTillDropped, AnswersFit, BuiltByCalls, NothingSeenEarly, Seen, Init
<1>9. QED
  BY <1>5, <1>7, <1>8 DEF IInv

\* Kernel() and Tune() begin a call, which is later than all that was built.
LEMMA CallBegins ==
  ASSUME IInv, NEW t \in Threads, pc[t] = "idle", calls[t] < MaxCalls,
         calls' = [calls EXCEPT ![t] = @ + 1],
         Seen' \subseteq Seen, DOMAIN caches' = DOMAIN caches,
         \A u \in Threads \ {t} : pc'[u] = pc[u] /\ at'[u] = at[u]
  PROVE  BuiltByCalls' /\ NothingSeenEarly' /\ calls' \in [Threads -> Nat]
         /\ calls'[t] \in 1..MaxCalls
<1> USE DEF IInv
<1>1. calls[t] \in Nat /\ calls \in [Threads -> Nat]
  BY DEF ThreadsOK
<1>2. /\ calls'[t] = calls[t] + 1 /\ \A u \in Threads \ {t} : calls'[u] = calls[u]
      /\ calls' \in [Threads -> Nat] /\ calls'[t] \in 1..MaxCalls
  BY <1>1, CacheAssumption
<1>3. Seen \subseteq Values /\ DOMAIN caches \ {Runtime} \subseteq Values
  BY CachedAreValues DEF Seen, Cached, ThreadsOK, CachesFit, Values
<1>4. \A w \in Values : w.by[1] \in Threads /\ w.by[2] \in Nat /\ w.by = <<w.by[1], w.by[2]>>
  BY ValueFacts
<1>5. \A w \in Values : w.by[2] <= calls[w.by[1]] =>
        w.by[2] <= calls'[w.by[1]] /\ w.by # <<t, calls'[t]>>
  <2>1. SUFFICES ASSUME NEW w \in Values, w.by[2] <= calls[w.by[1]]
                 PROVE  w.by[2] <= calls'[w.by[1]] /\ w.by # <<t, calls'[t]>>
    OBVIOUS
  <2>2. CASE w.by[1] = t
    BY <1>1, <1>2, <1>4, <2>1, <2>2
  <2>3. CASE w.by[1] # t
    BY <1>2, <1>4, <2>1, <2>3
  <2>4. QED
    BY <2>2, <2>3
<1>6. BuiltByCalls'
  BY <1>3, <1>5 DEF BuiltByCalls
<1>7. NothingSeenEarly'
  <2>1. ASSUME NEW u \in Threads \ {t}, pc'[u] # "idle"
        PROVE  /\ \A w \in Seen' : w.by = <<u, calls'[u]>> => at'[u] # Runtime /\ w.in = Runtime
               /\ \A c \in DOMAIN caches' \ {Runtime} :
                    c.by = <<u, calls'[u]>> => at'[u] # Runtime \/ pc'[u] = "insert"
    BY <1>2, <2>1 DEF NothingSeenEarly
  <2>2. /\ \A w \in Seen' : w.by # <<t, calls'[t]>>
        /\ \A c \in DOMAIN caches' \ {Runtime} : c.by # <<t, calls'[t]>>
    BY <1>3, <1>5 DEF BuiltByCalls
  <2>3. QED
    BY <2>1, <2>2 DEF NothingSeenEarly
<1>8. QED
  BY <1>2, <1>6, <1>7

LEMMA CachesUnchanged ==
  ASSUME CachesFit, OrderIsLater, UNCHANGED <<caches, later>>
  PROVE  /\ CachesFit' /\ OrderIsLater' /\ Cached' = Cached
         /\ \A v : Holds(v) => Holds(v)'
<1>1. \A c, lru : Fits(c, lru) => Fits(c, lru)'
  BY DEF Fits
<1>2. CachesFit'
  BY <1>1 DEF CachesFit
<1>3. OrderIsLater'
  BY DEF OrderIsLater
<1>4. Cached' = Cached
  BY DEF Cached, In
<1>5. QED
  BY <1>2, <1>3, <1>4 DEF Holds

LEMMA KernelIInv ==
  ASSUME IInv, NEW t \in Threads, NEW s \in Sources, NEW f \in Functions, Kernel(t, s, f)
  PROVE  IInv'
<1> USE DEF IInv
<1>1. UNCHANGED <<caches, later, answered, handed, dropped, built>>
  BY DEF Kernel, handed
<1>2. CachesFit' /\ OrderIsLater' /\ CachedTillDropped' /\ AnswersFit' /\ Seen' = Seen
  BY <1>1, CachesUnchanged DEF Seen, CachedTillDropped, AnswersFit
<1>3. \A u \in Threads \ {t} :
        pc'[u] = pc[u] /\ at'[u] = at[u] /\ want'[u] = want[u] /\ function'[u] = function[u]
  BY DEF Kernel, ThreadsOK
<1>4. /\ BuiltByCalls' /\ NothingSeenEarly' /\ calls' \in [Threads -> Nat]
      /\ calls'[t] \in 1..MaxCalls
  BY <1>1, <1>2, <1>3, CallBegins DEF Kernel
<1>5. ThreadsOK'
  BY <1>1, <1>4 DEF Kernel, ThreadsOK, CachesFit
<1>6. Lookups'
  <2>1. ASSUME NEW u \in Threads \ {t}, pc'[u] # "idle"
        PROVE  /\ calls'[u] \in 1..MaxCalls
               /\ want'[u] \in KeysOf(at'[u]) /\ function'[u] \in Functions
               /\ pc'[u] = "insert" =>
                    /\ built'[u] = [key |-> want'[u], in |-> at'[u], by |-> <<u, calls'[u]>>]
                    /\ at'[u] = Runtime => built'[u] \in DOMAIN caches'
    <3>1. calls'[u] = calls[u]
      BY DEF Kernel, ThreadsOK
    <3>2. QED
      BY <1>1, <1>3, <2>1, <3>1 DEF Lookups
  <2>2. /\ calls'[t] \in 1..MaxCalls /\ pc'[t] = "find"
        /\ want'[t] \in KeysOf(at'[t]) /\ function'[t] \in Functions
    BY <1>4 DEF Kernel, ThreadsOK, KeysOf
  <2>3. QED
    BY <2>1, <2>2 DEF Lookups, KeysOf
<1>7. QED
  BY <1>2, <1>4, <1>5, <1>6

LEMMA TuneIInv ==
  ASSUME IInv, NEW t \in Threads, Tune(t)
  PROVE  IInv' /\ Cached' \subseteq Cached
<1> USE DEF IInv
<1>1. Runtime \in DOMAIN caches /\ Fits(Runtime, caches[Runtime])
  BY DEF CachesFit
<1>2. caches[Runtime] \in Lrus(KeysOf(Runtime), Values) /\ Agrees(caches[Runtime])
  BY <1>1 DEF Fits
<1>3. PICK lru : /\ Update(Runtime, lru, {})
                 /\ lru \in Lrus(KeysOf(Runtime), Values) /\ Agrees(lru) /\ WithinLimit(lru)
                 /\ Keys(lru) \subseteq Keys(caches[Runtime]) /\ SameValues(caches[Runtime], lru)
                 /\ UsesFirst(caches[Runtime], lru, {})
  <2>1. CASE \E n \in Limits : Update(Runtime, SetLimit(caches[Runtime], n), {})
    <3>1. PICK n \in Limits : Update(Runtime, SetLimit(caches[Runtime], n), {})
      BY <2>1
    <3>2. n \in Nat
      BY CacheAssumption
    <3>3. QED
      BY <1>2, <3>1, <3>2, SetLimitFacts
  <2>2. CASE Update(Runtime, Clear(caches[Runtime]), {})
    <3>1. Keys(Clear(caches[Runtime])) = {}
      BY <1>2, ClearFacts
    <3>2. SameValues(caches[Runtime], Clear(caches[Runtime]))
      BY <3>1 DEF SameValues
    <3>3. QED
      BY <1>2, <2>2, <3>1, <3>2, ClearFacts
  <2>3. QED
    BY <2>1, <2>2 DEF Tune
<1>4. Fits(Runtime, lru) /\ ValuesIn(lru) \subseteq In(Runtime)
  BY <1>1, <1>3 DEF Fits, SameValues, ValuesIn, In
<1>5. /\ CachesFit' /\ OrderIsLater'
      /\ DOMAIN caches' = DOMAIN caches /\ dropped' \subseteq Values
      /\ caches'[Runtime] = lru /\ \A d \in DOMAIN caches \ {Runtime} : caches'[d] = caches[d]
      /\ \A w \in handed : w \in dropped' \/ Holds(w)'
  BY <1>1, <1>3, <1>4, UpdateFacts
<1>6. UNCHANGED <<pc, at, want, function, built, answered, handed>>
  BY DEF Tune, handed
<1>7. Cached' \subseteq Cached
  <2>1. In(Runtime) \subseteq Cached
    BY <1>1 DEF Cached
  <2>2. Cached' \subseteq Cached \cup ValuesIn(lru)
    BY <1>1, <1>5, UpdateCached
  <2>3. QED
    BY <1>4, <2>1, <2>2
<1>8. BuiltByCalls' /\ NothingSeenEarly' /\ calls' \in [Threads -> Nat]
  BY <1>5, <1>6, <1>7, CallBegins DEF Tune, Seen
<1>9. CachedTillDropped' /\ AnswersFit'
  BY <1>5, <1>6 DEF CachedTillDropped, AnswersFit
<1>10. ThreadsOK'
  BY <1>5, <1>6, <1>8 DEF ThreadsOK
<1>11. Lookups'
  <2>1. \A u \in Threads : pc[u] # "idle" => calls'[u] = calls[u]
    BY DEF Tune, ThreadsOK
  <2>2. QED
    BY <1>5, <1>6, <2>1 DEF Lookups
<1>12. QED
  BY <1>5, <1>7, <1>8, <1>9, <1>10, <1>11

\* A library that is built comes with a cache that nobody had.
LEMMA BuildIInv ==
  ASSUME IInv, NEW t \in Threads, Build(t)
  PROVE  IInv' /\ Cached' = Cached
         /\ \A c \in DOMAIN caches : c \in DOMAIN caches' /\ caches'[c] = caches[c]
<1> USE DEF IInv
<1>1. PICK v : v = Building(t)
  OBVIOUS
<1>2. /\ pc[t] = "build" /\ pc' = [pc EXCEPT ![t] = "insert"]
      /\ built' = [built EXCEPT ![t] = v]
      /\ UNCHANGED <<at, want, function, calls, answered, handed, dropped>>
  BY <1>1 DEF Build, Building, handed
<1>3. /\ v \in Values /\ (at[t] = Runtime => v \in Libs)
      /\ v.by = <<t, calls[t]>>
  BY <1>1, <1>2, BuildingFacts
<1>4. /\ CachesFit' /\ OrderIsLater' /\ Cached' = Cached
      /\ DOMAIN caches' \subseteq DOMAIN caches \cup {v}
      /\ \A c \in DOMAIN caches : c \in DOMAIN caches' /\ caches'[c] = caches[c]
      /\ at[t] = Runtime => v \in DOMAIN caches'
  <2>1. CASE at[t] # Runtime
    <3>1. UNCHANGED <<caches, later>>
      BY <2>1 DEF Build
    <3>2. QED
      BY <2>1, <3>1, CachesUnchanged
  <2>2. CASE at[t] = Runtime
    <3> DEFINE empty == EmptyLru(kMaxCachedPipelines)
    <3>1. caches' = With(caches, v, empty) /\ later' = With(later, v, {})
      BY <1>1, <2>2 DEF Build, Building
    <3>2. v \in Libs /\ v # Runtime
      BY <1>1, <1>2, <2>2, BuildingFacts, RuntimeAssumption
    <3>3. v \notin DOMAIN caches
      BY <1>2, <1>3, <2>2, <3>2 DEF NothingSeenEarly
    <3>4. /\ empty \in Lrus(KeysOf(v), Values) /\ Keys(empty) = {}
          /\ Agrees(empty) /\ WithinLimit(empty) /\ Len(empty.order) = 0
      BY CacheAssumption, EmptyFacts
    <3> HIDE DEF empty
    <3>5. /\ DOMAIN caches' = DOMAIN caches \cup {v} /\ DOMAIN later' = DOMAIN caches \cup {v}
          /\ caches'[v] = empty
          /\ \A c \in DOMAIN caches : caches'[c] = caches[c] /\ later'[c] = later[c]
      BY <3>1, <3>3 DEF With, CachesFit
    <3>6. CachesFit'
      <4>1. \A c \in DOMAIN caches : Fits(c, caches[c])'
        BY <3>5 DEF CachesFit, Fits
      <4>2. Fits(v, caches[v])'
        BY <3>4, <3>5 DEF Fits
      <4>3. QED
        BY <3>2, <3>5, <4>1, <4>2 DEF CachesFit
    <3>7. OrderIsLater'
      <4>1. \A c \in DOMAIN caches : \A i, j \in 1..Len(caches'[c].order) :
              i < j => <<caches'[c].order[i], caches'[c].order[j]>> \in later'[c]
        BY <3>5 DEF OrderIsLater
      <4>2. \A i, j \in 1..Len(caches'[v].order) : FALSE
        BY <3>4, <3>5
      <4>3. QED
        BY <3>5, <4>1, <4>2 DEF OrderIsLater
    <3>8. Cached' = Cached
      <4>1. In(v)' = {} /\ \A c \in DOMAIN caches : In(c)' = In(c)
        BY <3>4, <3>5 DEF In
      <4>2. QED
        BY <3>5, <4>1 DEF Cached
    <3>9. QED
      BY <3>5, <3>6, <3>7, <3>8
  <2>3. QED
    BY <2>1, <2>2
<1>5. ThreadsOK'
  <2>1. at \in [Threads -> DOMAIN caches']
    BY <1>4 DEF ThreadsOK
  <2>2. QED
    BY <1>2, <1>3, <2>1 DEF ThreadsOK
<1>6. Lookups'
  <2>1. \A u \in Threads \ {t} : pc'[u] = pc[u] /\ built'[u] = built[u]
    BY <1>2 DEF ThreadsOK
  <2>2. pc'[t] = "insert" /\ built'[t] = v
    BY <1>2 DEF ThreadsOK
  <2>3. v = [key |-> want[t], in |-> at[t], by |-> <<t, calls[t]>>]
    BY <1>1 DEF Building
  <2>4. ASSUME NEW u \in Threads \ {t}, pc'[u] # "idle"
        PROVE  /\ calls'[u] \in 1..MaxCalls
               /\ want'[u] \in KeysOf(at'[u]) /\ function'[u] \in Functions
               /\ pc'[u] = "insert" =>
                    /\ built'[u] = [key |-> want'[u], in |-> at'[u], by |-> <<u, calls'[u]>>]
                    /\ at'[u] = Runtime => built'[u] \in DOMAIN caches'
    BY <1>2, <1>4, <2>1, <2>4 DEF Lookups
  <2>5. /\ calls'[t] \in 1..MaxCalls
        /\ want'[t] \in KeysOf(at'[t]) /\ function'[t] \in Functions
        /\ built'[t] = [key |-> want'[t], in |-> at'[t], by |-> <<t, calls'[t]>>]
        /\ at'[t] = Runtime => built'[t] \in DOMAIN caches'
    BY <1>2, <1>4, <2>2, <2>3 DEF Lookups
  <2>6. QED
    BY <2>4, <2>5 DEF Lookups, KeysOf
<1>7. CachedTillDropped' /\ AnswersFit'
  <2>1. \A w \in handed : Holds(w) => Holds(w)'
    BY <1>4 DEF Holds
  <2>2. QED
    BY <1>2, <2>1 DEF CachedTillDropped, AnswersFit
<1>8. Seen' = Seen
  BY <1>2, <1>4 DEF Seen
<1>9. BuiltByCalls'
  <2>1. v.by[2] <= calls[v.by[1]]
    BY <1>3 DEF ThreadsOK
  <2>2. QED
    BY <1>2, <1>4, <1>8, <2>1 DEF BuiltByCalls
<1>10. NothingSeenEarly'
  <2>1. \A u \in Threads \ {t} : pc'[u] = pc[u] /\ v.by # <<u, calls[u]>>
    BY <1>2, <1>3 DEF ThreadsOK
  <2>2. pc'[t] = "insert"
    BY <1>2 DEF ThreadsOK
  <2>3. QED
    BY <1>2, <1>4, <1>8, <2>1, <2>2 DEF NothingSeenEarly
<1>11. QED
  BY <1>4, <1>5, <1>6, <1>7, <1>9, <1>10

\* A step that changes no cache and ends the lookup or goes on to build.
LEMMA MissOrFailIInv ==
  ASSUME IInv, NEW t \in Threads, Miss(t) \/ BuildFails(t)
  PROVE  IInv' /\ UNCHANGED <<caches, later, answered>>
<1> USE DEF IInv
<1>1. /\ pc[t] # "idle"
      /\ UNCHANGED <<caches, later, answered, handed, dropped, function, built, calls>>
      /\ \A u \in Threads \ {t} : pc'[u] = pc[u] /\ at'[u] = at[u] /\ want'[u] = want[u]
      /\ pc'[t] = "idle" \/ (pc'[t] = "build" /\ at'[t] = at[t] /\ want'[t] = want[t])
      /\ pc[t] \in {"find", "build"}
  BY DEF Miss, BuildFails, ThreadsOK, handed
<1>2. CachesFit' /\ OrderIsLater' /\ CachedTillDropped' /\ AnswersFit' /\ Seen' = Seen
  BY <1>1, CachesUnchanged DEF Seen, CachedTillDropped, AnswersFit
<1>3. ThreadsOK'
  <2>1. CASE Miss(t)
    BY <1>1, <2>1 DEF Miss, ThreadsOK
  <2>2. CASE BuildFails(t)
    <3>1. Runtime \in DOMAIN caches
      BY DEF CachesFit
    <3>2. QED
      BY <1>1, <2>2, <3>1 DEF BuildFails, ThreadsOK
  <2>3. QED
    BY <2>1, <2>2
<1>4. Lookups'
  BY <1>1 DEF Lookups
<1>5. BuiltByCalls' /\ NothingSeenEarly'
  BY <1>1, <1>2 DEF BuiltByCalls, NothingSeenEarly
<1>6. QED
  BY <1>1, <1>2, <1>3, <1>4, <1>5

LEMMA HitIInv ==
  ASSUME IInv, NEW t \in Threads, Hit(t)
  PROVE  IInv'
<1>1. at[t] \in DOMAIN caches /\ Has(caches[at[t]], want[t]) /\ pc[t] # "idle"
  BY DEF IInv, ThreadsOK, Hit
<1>2. PICK lru : lru = Find(caches[at[t]], want[t])
  OBVIOUS
<1>3. PICK v : v = caches[at[t]].entries[want[t]]
  OBVIOUS
<1>4. /\ Fits(at[t], lru) /\ UsesFirst(caches[at[t]], lru, {want[t]})
      /\ lru.entries = caches[at[t]].entries /\ want[t] \in Keys(lru)
      /\ ValuesIn(lru) = In(at[t])
  BY <1>1, <1>2, FindFits
<1>5. ValuesIn(lru) \subseteq Cached \cup {Building(t)}
  BY <1>1, <1>4 DEF Cached
<1>6. Update(at[t], lru, {want[t]}) /\ Answer(t, v) /\ v = lru.entries[want[t]]
  BY <1>2, <1>3, <1>4 DEF Hit
<1>7. QED
  BY <1>1, <1>4, <1>5, <1>6, Answered

LEMMA InsertBuiltIInv ==
  ASSUME IInv, NEW t \in Threads, InsertBuilt(t)
  PROVE  IInv'
<1>1. at[t] \in DOMAIN caches /\ pc[t] = "insert"
  BY DEF IInv, ThreadsOK, InsertBuilt
<1>2. PICK lru : lru = Insert(caches[at[t]], want[t], built[t])
  OBVIOUS
<1>3. PICK v : v = lru.entries[want[t]]
  OBVIOUS
<1>4. /\ Fits(at[t], lru) /\ UsesFirst(caches[at[t]], lru, {want[t]})
      /\ want[t] \in Keys(lru) /\ ValuesIn(lru) \subseteq In(at[t]) \cup {built[t]}
      /\ built[t] = Building(t)
  BY <1>1, <1>2, InsertFits
<1>5. ValuesIn(lru) \subseteq Cached \cup {Building(t)}
  BY <1>1, <1>4 DEF Cached
<1>6. Update(at[t], lru, {want[t]}) /\ Answer(t, v)
  BY <1>2, <1>3 DEF InsertBuilt
<1>7. QED
  BY <1>1, <1>3, <1>4, <1>5, <1>6, Answered

\* The invariant holds for every number of threads, keys and calls.
THEOREM Invariance == Spec => []IInv
<1>1. Init => IInv
  BY InitIInv
<1>2. IInv /\ [Next]_vars => IInv'
  <2> SUFFICES ASSUME IInv, [Next]_vars PROVE IInv'
    OBVIOUS
  <2>1. ASSUME NEW t \in Threads, NEW s \in Sources, NEW f \in Functions, Kernel(t, s, f)
        PROVE  IInv'
    BY <2>1, KernelIInv
  <2>2. ASSUME NEW t \in Threads, Tune(t) PROVE IInv'
    BY <2>2, TuneIInv
  <2>3. ASSUME NEW t \in Threads, Step(t) PROVE IInv'
    BY <2>3, HitIInv, InsertBuiltIInv, BuildIInv, MissOrFailIInv DEF Step
  <2>4. CASE UNCHANGED vars
    <3>1. UNCHANGED <<caches, later, pc, at, want, function, built, calls,
                      answered, handed, dropped>>
      BY <2>4 DEF vars, threadVars, handed
    <3>2. CachesFit' /\ OrderIsLater' /\ CachedTillDropped' /\ AnswersFit' /\ Seen' = Seen
      BY <3>1, CachesUnchanged DEF IInv, Seen, CachedTillDropped, AnswersFit
    <3>3. ThreadsOK' /\ Lookups'
      BY <3>1 DEF IInv, ThreadsOK, Lookups
    <3>4. BuiltByCalls' /\ NothingSeenEarly'
      BY <3>1, <3>2 DEF IInv, BuiltByCalls, NothingSeenEarly
    <3>5. QED
      BY <3>2, <3>3, <3>4 DEF IInv
  <2>5. QED
    BY <2>1, <2>2, <2>3, <2>4 DEF Next
<1>3. QED
  BY <1>1, <1>2, PTL DEF Spec

-----------------------------------------------------------------------------
(* What follows for the properties *)

\* The caches keep their shape, their lists name their keys, and nothing exceeds a limit.
THEOREM TypesCorrect == Spec => []TypeOK
<1>1. IInv => TypeOK
  <2> SUFFICES ASSUME IInv PROVE TypeOK
    OBVIOUS
  <2>1. \A c \in DOMAIN caches : In(c) \subseteq Values /\ Agrees(caches[c]) /\ WithinLimit(caches[c])
    BY CachedAreValues DEF IInv, CachesFit, Fits
  <2>2. QED
    BY <2>1 DEF IInv, CachesFit, ThreadsOK, AnswersFit, TypeOK
<1>2. QED
  BY <1>1, Invariance, PTL

\* No lookup is ever answered with a value that was built for another key or library.
THEOREM NoMixUp == Spec => []RightValue
<1>1. IInv => RightValue
  BY DEF IInv, AnswersFit, RightValue
<1>2. QED
  BY <1>1, Invariance, PTL

\* A race of two builds of one key is never visible: both callers get the one that was
\* inserted first, as long as the cache keeps it.
THEOREM RacesShareOneBuild == Spec => []OneBuildIsShared
<1>1. IInv => OneBuildIsShared
  <2> SUFFICES ASSUME IInv, NEW p \in answered, NEW q \in answered, p[1] = q[1],
                      p[2] \notin dropped, q[2] \notin dropped
               PROVE  p[2] = q[2]
    BY DEF OneBuildIsShared
  <2>1. Holds(p[2]) /\ Holds(q[2])
    BY DEF IInv, CachedTillDropped, handed
  <2>2. KeyOf(p[2]) = KeyOf(q[2])
    BY DEF IInv, AnswersFit
  <2>3. QED
    BY <2>1, <2>2 DEF Holds, KeyOf
<1>2. QED
  BY <1>1, Invariance, PTL

LEMMA UpdateEvicts ==
  ASSUME CachesFit, OrderIsLater, NEW c \in DOMAIN caches, NEW lru, NEW used,
         Update(c, lru, used), LosesOldest(caches[c], lru) \/ Keys(lru) = {}
  PROVE  OldestGoFirst
<1> SUFFICES ASSUME NEW d \in DOMAIN caches,
                    Keys(caches[d]) \ Keys(caches'[d]) # {}, Keys(caches'[d]) # {}
             PROVE  /\ \A j \in Keys(caches[d]) \cap Keys(caches'[d]),
                          k \in Keys(caches[d]) \ Keys(caches'[d]) : <<j, k>> \in later[d]
                    /\ Len(caches'[d].order) = caches'[d].limit
  BY DEF OldestGoFirst
<1>1. caches'[c] = lru /\ \A e \in DOMAIN caches \ {c} : caches'[e] = caches[e]
  BY DEF Update
<1>2. d = c /\ LosesOldest(caches[d], caches'[d])
  BY <1>1
<1>3. \A j, k : Before(caches[d].order, j, k) => <<j, k>> \in later[d]
  BY DEF Before, OrderIsLater
<1>4. QED
  BY <1>2, <1>3 DEF LosesOldest

\* Whoever asked, the keys that were asked for longest ago go first, and only as many
\* as the limit says.
THEOREM OldestAreEvicted == Spec => EvictsOldest
<1>1. IInv /\ [Next]_vars => [OldestGoFirst]_vars
  <2> SUFFICES ASSUME IInv, Next PROVE OldestGoFirst
    OBVIOUS
  <2>1. CachesFit /\ OrderIsLater
    BY DEF IInv
  <2>2. ASSUME \A c \in DOMAIN caches : caches'[c] = caches[c] PROVE OldestGoFirst
    BY <2>2 DEF OldestGoFirst
  <2>3. ASSUME NEW t \in Threads, Miss(t) \/ BuildFails(t) PROVE OldestGoFirst
    BY <2>2, <2>3, MissOrFailIInv
  <2>4. ASSUME NEW t \in Threads, Build(t) PROVE OldestGoFirst
    BY <2>2, <2>4, BuildIInv
  <2>5. ASSUME NEW t \in Threads, NEW s \in Sources, NEW f \in Functions, Kernel(t, s, f)
        PROVE  OldestGoFirst
    BY <2>2, <2>5 DEF Kernel
  <2>6. \A c \in DOMAIN caches :
          /\ caches[c] \in Lrus(KeysOf(c), Values) /\ Agrees(caches[c]) /\ WithinLimit(caches[c])
    BY <2>1 DEF CachesFit, Fits
  <2>7. ASSUME NEW t \in Threads, Hit(t) PROVE OldestGoFirst
    <3>1. at[t] \in DOMAIN caches /\ Has(caches[at[t]], want[t])
      BY <2>7 DEF IInv, ThreadsOK, Hit
    <3>2. PICK lru : lru = Find(caches[at[t]], want[t])
      OBVIOUS
    <3>3. Keys(lru) = Keys(caches[at[t]])
      BY <3>1, <3>2, FindFits DEF Keys
    <3>4. LosesOldest(caches[at[t]], lru)
      BY <3>3 DEF LosesOldest
    <3>5. Update(at[t], lru, {want[t]})
      BY <2>7, <3>2 DEF Hit
    <3>6. QED
      BY <2>1, <3>1, <3>4, <3>5, UpdateEvicts
  <2>8. ASSUME NEW t \in Threads, InsertBuilt(t) PROVE OldestGoFirst
    <3>1. at[t] \in DOMAIN caches /\ pc[t] = "insert"
      BY <2>8 DEF IInv, ThreadsOK, InsertBuilt
    <3>2. PICK lru : lru = Insert(caches[at[t]], want[t], built[t])
      OBVIOUS
    <3>3. want[t] \in KeysOf(at[t]) /\ built[t] \in Values
      BY <3>1, BuildingFacts DEF IInv, Lookups, Building
    <3>4. LosesOldest(caches[at[t]], lru)
      <4>1. PICK c : c = caches[at[t]]
        OBVIOUS
      <4>2. c \in Lrus(KeysOf(at[t]), Values) /\ Agrees(c) /\ WithinLimit(c)
        BY <2>6, <3>1, <4>1
      <4>3. LosesOldest(c, Insert(c, want[t], built[t]))
        BY <3>3, <4>2, InsertFacts
      <4>4. QED
        BY <3>2, <4>1, <4>3
    <3>5. Update(at[t], lru, {want[t]})
      BY <2>8, <3>2 DEF InsertBuilt
    <3>6. QED
      BY <2>1, <3>1, <3>4, <3>5, UpdateEvicts
  <2>9. ASSUME NEW t \in Threads, Tune(t) PROVE OldestGoFirst
    <3>1. Runtime \in DOMAIN caches
      BY <2>1 DEF CachesFit
    <3>2. ASSUME NEW n \in Limits, Update(Runtime, SetLimit(caches[Runtime], n), {})
          PROVE  OldestGoFirst
      <4>1. n \in Nat
        BY CacheAssumption
      <4>2. LosesOldest(caches[Runtime], SetLimit(caches[Runtime], n))
        BY <2>6, <3>1, <4>1, SetLimitFacts
      <4>3. QED
        BY <2>1, <3>1, <3>2, <4>2, UpdateEvicts
    <3>3. ASSUME Update(Runtime, Clear(caches[Runtime]), {}) PROVE OldestGoFirst
      <4>1. Keys(Clear(caches[Runtime])) = {}
        BY <2>6, <3>1, ClearFacts
      <4>2. QED
        BY <2>1, <3>1, <3>3, <4>1, UpdateEvicts
    <3>4. QED
      BY <2>9, <3>2, <3>3 DEF Tune
  <2>10. QED
    BY <2>3, <2>4, <2>5, <2>7, <2>8, <2>9 DEF Next, Step
<1>2. QED
  BY <1>1, Invariance, PTL DEF Spec, EvictsOldest

-----------------------------------------------------------------------------
(* Refinement: find, build and insert are one step of SharedCache. *)

\* A build is new to everyone when it is inserted for a key that is not there.
LEMMA InsertFills ==
  ASSUME IInv, NEW t \in Threads, InsertBuilt(t), ~Has(caches[at[t]], want[t])
  PROVE  Shared!Fill
<1>1. at[t] \in DOMAIN caches /\ pc[t] = "insert"
  BY DEF IInv, ThreadsOK, InsertBuilt
<1>2. PICK lru : lru = Insert(caches[at[t]], want[t], built[t])
  OBVIOUS
<1>3. PICK v : v = Building(t)
  OBVIOUS
<1>4. /\ v \in Values /\ v.key = want[t] /\ v.in = at[t] /\ v.by = <<t, calls[t]>>
  BY <1>1, <1>3, BuildingFacts DEF IInv
<1>5. /\ Fits(at[t], lru) /\ UsesFirst(caches[at[t]], lru, {want[t]})
      /\ want[t] \in Keys(lru) /\ lru.entries[want[t]] = v
      /\ ValuesIn(lru) \subseteq In(at[t]) \cup {v}
  BY <1>1, <1>2, <1>3, InsertFits
<1>6. Update(at[t], lru, {want[t]}) /\ answered' = answered \cup {<<KeyOf(v), v>>}
  BY <1>2, <1>4, <1>5 DEF InsertBuilt, Answer, KeyOf
<1>7. /\ DOMAIN caches' = DOMAIN caches
      /\ caches'[at[t]] = lru /\ \A d \in DOMAIN caches \ {at[t]} : caches'[d] = caches[d]
  BY <1>1, <1>6 DEF Update
<1>8. Cached' \subseteq Cached \cup {v} /\ v \in Cached'
  <2>1. v \in ValuesIn(lru)
    BY <1>5 DEF ValuesIn
  <2>2. In(at[t]) \subseteq Cached
    BY <1>1 DEF Cached
  <2>3. Cached' \subseteq Cached \cup ValuesIn(lru) /\ ValuesIn(lru) \subseteq Cached'
    BY <1>1, <1>7, UpdateCached
  <2>4. QED
    BY <1>5, <2>1, <2>2, <2>3
<1>9. v \notin Seen
  <2>1. ASSUME v \in Seen PROVE FALSE
    <3>1. at[t] # Runtime /\ v.in = Runtime
      BY <1>1, <1>4, <2>1 DEF IInv, NothingSeenEarly
    <3>2. QED
      BY <1>4, <3>1
  <2>2. QED
    BY <2>1
<1>10. ASSUME NEW w \in Cached PROVE KeyOf(w) # KeyOf(v)
  <2>1. PICK c \in DOMAIN caches : w \in In(c)
    BY DEF Cached
  <2>2. PICK k \in Keys(caches[c]) : w = caches[c].entries[k]
    BY <2>1 DEF In
  <2>3. w.key = k /\ w.in = c
    BY <2>2 DEF IInv, CachesFit, Fits
  <2>4. ~(w.in = v.in /\ w.key = v.key)
    BY <1>4, <2>3 DEF Has
  <2>5. QED
    BY <2>4 DEF KeyOf
<1>11. Shared!FillFor(KeyOf(v))
  BY <1>4, <1>6, <1>8, <1>9, <1>10 DEF Shared!FillFor, Shared!AnswerWith, Seen, handed
<1>12. QED
  BY <1>4, <1>11, KeyFacts DEF Shared!Fill

\* A request that finds its key, before or after building, is answered with what is cached.
LEMMA FoundHits ==
  ASSUME IInv, NEW t \in Threads, pc[t] # "idle", Has(caches[at[t]], want[t]), NEW lru,
         lru = Find(caches[at[t]], want[t]),
         Update(at[t], lru, {want[t]}), Answer(t, lru.entries[want[t]])
  PROVE  Shared!Hit
<1>1. at[t] \in DOMAIN caches
  BY DEF IInv, ThreadsOK
<1>2. lru.entries = caches[at[t]].entries /\ want[t] \in Keys(lru) /\ ValuesIn(lru) = In(at[t])
  BY <1>1, FindFits
<1>3. PICK v : v = lru.entries[want[t]]
  OBVIOUS
<1>4. v \in In(at[t]) /\ In(at[t]) \subseteq Cached
  BY <1>1, <1>2, <1>3 DEF ValuesIn, Cached
<1>5. answered' = answered \cup {<<KeyOf(v), v>>} /\ v \in Values
  <2>1. v.key = want[t] /\ v.in = at[t]
    BY <1>1, <1>2, <1>3 DEF IInv, CachesFit, Fits, Has
  <2>2. QED
    BY <1>1, <1>3, <1>4, <2>1, CachedAreValues DEF Answer, KeyOf, IInv
<1>6. /\ DOMAIN caches' = DOMAIN caches
      /\ caches'[at[t]] = lru /\ \A d \in DOMAIN caches \ {at[t]} : caches'[d] = caches[d]
  BY <1>1 DEF Update
<1>7. /\ Cached' \subseteq Cached \cup ValuesIn(lru)
      /\ In(at[t]) \subseteq ValuesIn(lru) => Cached \subseteq Cached'
  BY <1>1, <1>6, UpdateCached
<1>8. Cached' = Cached
  BY <1>2, <1>4, <1>7
<1>9. Shared!HitFor(KeyOf(v))
  BY <1>4, <1>5, <1>8 DEF Shared!HitFor, Shared!AnswerWith
<1>10. QED
  BY <1>5, <1>9, KeyFacts DEF Shared!Hit

\* For callers the two caches are one cache that answers each request at one instant.
THEOREM Implementation == Spec => ImplementsSharedCache
<1>1. Init => Shared!SpecInit
  <2> SUFFICES ASSUME Init PROVE Cached = {} /\ answered = {}
    BY DEF Shared!SpecInit
  <2>1. \A n : Keys(EmptyLru(n)) = {}
    BY DEF Keys, EmptyLru
  <2>2. QED
    BY <2>1 DEF Init, Cached, In
<1>2. IInv /\ [Next]_vars => [Shared!SpecNext]_(Shared!specVars)
  <2> SUFFICES ASSUME IInv, [Next]_vars
               PROVE  Shared!SpecNext \/ (Cached' = Cached /\ answered' = answered)
    BY DEF Shared!specVars
  <2>1. ASSUME NEW t \in Threads, Hit(t) PROVE Shared!SpecNext
    <3>1. PICK lru : lru = Find(caches[at[t]], want[t])
      OBVIOUS
    <3>2. at[t] \in DOMAIN caches
      BY DEF IInv, ThreadsOK
    <3>3. /\ pc[t] # "idle" /\ Has(caches[at[t]], want[t]) /\ Update(at[t], lru, {want[t]})
          /\ Answer(t, caches[at[t]].entries[want[t]])
      BY <2>1, <3>1 DEF Hit
    <3>4. lru.entries = caches[at[t]].entries
      BY <3>1, <3>2, <3>3, FindFits
    <3>5. QED
      BY <3>1, <3>3, <3>4, FoundHits DEF Shared!SpecNext
  <2>2. ASSUME NEW t \in Threads, InsertBuilt(t) PROVE Shared!SpecNext
    <3>1. CASE Has(caches[at[t]], want[t])
      <4>1. PICK lru : lru = Find(caches[at[t]], want[t])
        OBVIOUS
      <4>2. /\ pc[t] # "idle" /\ Update(at[t], lru, {want[t]}) /\ Answer(t, lru.entries[want[t]])
        BY <2>2, <3>1, <4>1 DEF InsertBuilt, Insert
      <4>3. QED
        BY <3>1, <4>1, <4>2, FoundHits DEF Shared!SpecNext
    <3>2. CASE ~Has(caches[at[t]], want[t])
      BY <2>2, <3>2, InsertFills DEF Shared!SpecNext
    <3>3. QED
      BY <3>1, <3>2
  <2>3. ASSUME NEW t \in Threads, Tune(t) PROVE Shared!SpecNext
    <3>1. Cached' \subseteq Cached
      BY <2>3, TuneIInv
    <3>2. answered' = answered
      BY <2>3 DEF Tune
    <3>3. QED
      BY <3>1, <3>2 DEF Shared!SpecNext, Shared!Shrink
  <2>4. ASSUME NEW t \in Threads, Build(t) PROVE Cached' = Cached /\ answered' = answered
    BY <2>4, BuildIInv DEF Build
  <2>5. ASSUME UNCHANGED <<caches, later, answered>> PROVE Cached' = Cached /\ answered' = answered
    BY <2>5, CachesUnchanged DEF IInv
  <2>6. ASSUME NEW t \in Threads, Miss(t) \/ BuildFails(t) PROVE UNCHANGED <<caches, later, answered>>
    BY <2>6, MissOrFailIInv
  <2>7. ASSUME NEW t \in Threads, NEW s \in Sources, NEW f \in Functions, Kernel(t, s, f)
        PROVE  UNCHANGED <<caches, later, answered>>
    BY <2>7 DEF Kernel
  <2>8. CASE UNCHANGED vars
    BY <2>5, <2>8 DEF vars
  <2>9. QED
    BY <2>1, <2>2, <2>3, <2>4, <2>5, <2>6, <2>7, <2>8 DEF Next, Step
<1>3. QED
  BY <1>1, <1>2, Invariance, PTL DEF Spec, ImplementsSharedCache, Shared!AbstractSpec
=============================================================================
