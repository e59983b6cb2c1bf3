----------------------------- MODULE CApiProofs -----------------------------
(***************************************************************************)
(* The C API, for any number of threads, handles and calls, and any limit  *)
(* of the pipeline caches: the owners of pipelines are counted right, a    *)
(* status says what happened, and a call that fails leaves nothing behind. *)
(*                                                                         *)
(* IInv counts the owners, finitely many, and says that nothing refers to  *)
(* a pipeline handle that is yet to be used (Objects); and that a call in  *)
(* progress has its batch to itself unless it only waits (Calls).          *)
(***************************************************************************)
EXTENDS CApi, LruCacheProofs, FiniteSetTheorems

\* The handles that are live and share object o, and the libraries that cache it.
Handles(o) == {p \in Pipes : pipe[p] = "live" /\ object[p] = o}
Holders(o) == {l \in Libs : o \in In(cache[l])}

Objects ==
  /\ pipe \in [Pipes -> {"none", "live", "released"}]
  /\ object \in [Pipes -> Pipes \cup {Null}]
  /\ cache \in [Libs -> Lrus(Names, Pipes)]
  /\ refs \in [Pipes -> Int]
  /\ \A l \in Libs : Agrees(cache[l]) /\ WithinLimit(cache[l])
  /\ \A o \in Pipes :
       /\ IsFiniteSet(Handles(o)) /\ IsFiniteSet(Holders(o))
       /\ refs[o] = Cardinality(Handles(o)) + Cardinality(Holders(o))
  /\ \A p \in Pipes : pipe[p] = "none" => Handles(p) = {} /\ Holders(p) = {}
  /\ \A p \in Pipes : pipe[p] = "live" => object[p] \in Pipes

Ops    == {"none", "mr_batch_create", "mr_batch_wait", "mr_dispatch"}
Places == {"idle", "creating", "encode", "submit", "waiting"}

\* What a thread that is inside a call relies on.
CallOK(t) == pc[t] # "idle" =>
  /\ call[t].batch \in Batches
  /\ pc[t] = "creating" => /\ call[t].op \in {"mr_batch_create", "mr_dispatch"}
                           /\ state[call[t].batch] = "none"
  /\ pc[t] \in {"encode", "submit"} => call[t].op = "mr_dispatch"
  /\ call[t].defect \in {"none", "malformed"}
  /\ pc[t] = "waiting" => call[t].op \in {"mr_batch_wait", "mr_dispatch"}
  /\ call[t].op # "mr_dispatch" \/ pc[t] \in {"submit", "waiting"} => call[t].defect = "none"
  /\ call[t].op # "mr_batch_wait" => handle[call[t].batch] = "none"

Exclusive == \A t, u \in Threads :
  t # u /\ pc[t] # "idle" /\ pc[u] # "idle" /\ call[t].batch = call[u].batch =>
    call[t].op = "mr_batch_wait"

Calls ==
  /\ handle \in [Batches -> {"none", "live", "released"}]
  /\ DOMAIN state = Batches /\ DOMAIN work = Batches
  /\ pc \in [Threads -> Places]
  /\ call \in [Threads -> [op : Ops, batch : Batches \cup {Null}, arg : Pipes \cup {Null},
                           defect : Defects]]
  /\ Exclusive /\ \A t \in Threads : CallOK(t)

IInv == Objects /\ Calls

-----------------------------------------------------------------------------
(* The owners of pipelines *)

LEMMA InFacts ==
  ASSUME NEW c \in Lrus(Names, Pipes)
  PROVE  /\ In(c) \subseteq Pipes
         /\ \A n \in Keys(c) : c.entries[n] \in In(c)
  BY LruParts DEF In

LEMMA ObjectsInit == Init => Objects
<1> SUFFICES ASSUME Init PROVE Objects
  OBVIOUS
<1>1. kMaxCachedPipelines \in Nat
  BY CApiAssumption
<1>2. PICK empty \in Lrus(Names, Pipes) :
        /\ empty = EmptyLru(kMaxCachedPipelines) /\ Keys(empty) = {}
        /\ Agrees(empty) /\ WithinLimit(empty)
  BY <1>1, EmptyFacts
<1>3. \A l \in Libs : cache[l] = empty
  BY <1>2 DEF Init
<1>4. \A o \in Pipes : Handles(o) = {} /\ Holders(o) = {}
  BY <1>2, <1>3 DEF Init, Handles, Holders, In
<1>5. IsFiniteSet({}) /\ Cardinality({}) = 0
  BY FS_EmptySet
<1>6. \A o \in Pipes : refs[o] = 0
  BY DEF Init
<1>7. /\ pipe \in [Pipes -> {"none", "live", "released"}] /\ object \in [Pipes -> Pipes \cup {Null}]
      /\ cache \in [Libs -> Lrus(Names, Pipes)] /\ refs \in [Pipes -> Int]
      /\ \A p \in Pipes : pipe[p] # "live"
  BY <1>2 DEF Init
<1>8. ASSUME NEW o \in Pipes
      PROVE  /\ IsFiniteSet(Handles(o)) /\ IsFiniteSet(Holders(o))
             /\ refs[o] = Cardinality(Handles(o)) + Cardinality(Holders(o))
  BY <1>4, <1>5, <1>6
<1>9. QED
  BY <1>2, <1>3, <1>4, <1>7, <1>8 DEF Objects

LEMMA ObjectsKept ==
  ASSUME Objects, UNCHANGED <<pipe, object, cache, refs>>
  PROVE  Objects'
<1>1. \A o \in Pipes : Handles(o)' = Handles(o) /\ Holders(o)' = Holders(o)
  BY DEF Handles, Holders
<1>2. QED
  BY <1>1 DEF Objects

\* One element less, or one more.
LEMMA Recount ==
  ASSUME NEW S, NEW x, IsFiniteSet(S)
  PROVE  /\ Cardinality(S) \in Int
         /\ IsFiniteSet(S \ {x}) /\ IsFiniteSet(S \cup {x})
         /\ x \in S => Cardinality(S \ {x}) = Cardinality(S) - 1
         /\ x \notin S => /\ Cardinality(S \ {x}) = Cardinality(S)
                        /\ Cardinality(S \cup {x}) = Cardinality(S) + 1
<1>1. Cardinality(S) \in Int
  BY FS_CardinalityType
<1>2. /\ IsFiniteSet(S \cup {x})
      /\ Cardinality(S \cup {x}) = IF x \in S THEN Cardinality(S) ELSE Cardinality(S) + 1
  BY FS_AddElement
<1>3. /\ IsFiniteSet(S \ {x})
      /\ Cardinality(S \ {x}) = IF x \in S THEN Cardinality(S) - 1 ELSE Cardinality(S)
  BY FS_RemoveElement
<1>4. QED
  BY <1>1, <1>2, <1>3

\* The library of cache[l] drops some objects, each of which it owned.
LEMMA ReleaseLibraryObjects ==
  ASSUME Objects, NEW t \in Threads, NEW l \in Libs, mr_release_library(t, l)
  PROVE  Objects'
<1>1. /\ refs' = Unref(In(cache[l])) /\ cache' = [cache EXCEPT ![l] = Clear(cache[l])]
      /\ pipe' = pipe /\ object' = object
  BY DEF mr_release_library
<1>2. cache[l] \in Lrus(Names, Pipes)
  BY DEF Objects
<1>3. PICK empty \in Lrus(Names, Pipes) :
        empty = Clear(cache[l]) /\ Keys(empty) = {} /\ Agrees(empty) /\ WithinLimit(empty)
  BY <1>2, ClearFacts
<1>4. /\ cache' \in [Libs -> Lrus(Names, Pipes)]
      /\ \A m \in Libs : Agrees(cache'[m]) /\ WithinLimit(cache'[m])
      /\ In(cache'[l]) = {} /\ \A m \in Libs \ {l} : cache'[m] = cache[m]
  BY <1>1, <1>3 DEF Objects, In
<1>5. \A o \in Pipes : Handles(o)' = Handles(o) /\ Holders(o)' = Holders(o) \ {l}
  BY <1>1, <1>4 DEF Handles, Holders
<1>6. ASSUME NEW o \in Pipes
      PROVE  /\ IsFiniteSet(Handles(o)') /\ IsFiniteSet(Holders(o)') /\ refs'[o] \in Int
             /\ refs'[o] = Cardinality(Handles(o)') + Cardinality(Holders(o)')
  <2>1. /\ IsFiniteSet(Handles(o)) /\ IsFiniteSet(Holders(o)) /\ refs[o] \in Int
        /\ refs[o] = Cardinality(Handles(o)) + Cardinality(Holders(o))
    BY DEF Objects
  <2>2. refs'[o] = refs[o] - (IF o \in In(cache[l]) THEN 1 ELSE 0)
    BY <1>1 DEF Unref
  <2>3. l \in Holders(o) <=> o \in In(cache[l])
    BY DEF Holders
  <2>4. Cardinality(Handles(o)) \in Int
    BY <2>1, FS_CardinalityType
  <2>5. /\ Cardinality(Holders(o)) \in Int /\ IsFiniteSet(Holders(o) \ {l})
        /\ l \in Holders(o) => Cardinality(Holders(o) \ {l}) = Cardinality(Holders(o)) - 1
        /\ l \notin Holders(o) => Cardinality(Holders(o) \ {l}) = Cardinality(Holders(o))
    BY <2>1, Recount
  <2>6. Cardinality(Handles(o)') = Cardinality(Handles(o)) /\ IsFiniteSet(Handles(o)')
    BY <1>5, <2>1
  <2>7. Cardinality(Holders(o)') = Cardinality(Holders(o) \ {l}) /\ IsFiniteSet(Holders(o)')
    BY <1>5, <2>5
  <2>8. CASE o \in In(cache[l])
    <3>1. refs'[o] = refs[o] - 1 /\ Cardinality(Holders(o)') = Cardinality(Holders(o)) - 1
      BY <2>2, <2>3, <2>5, <2>7, <2>8
    <3>2. QED
      BY <2>1, <2>4, <2>5, <2>6, <2>7, <3>1
  <2>9. CASE ~(o \in In(cache[l]))
    <3>1. refs'[o] = refs[o] /\ Cardinality(Holders(o)') = Cardinality(Holders(o))
      BY <2>1, <2>2, <2>3, <2>5, <2>7, <2>9
    <3>2. QED
      BY <2>1, <2>4, <2>5, <2>6, <2>7, <3>1
  <2>10. QED
    BY <2>8, <2>9
<1>7. refs' \in [Pipes -> Int]
  BY <1>1, <1>6 DEF Unref
<1>8. QED
  BY <1>1, <1>4, <1>5, <1>6, <1>7 DEF Objects

LEMMA ReleasePipelineObjects ==
  ASSUME Objects, NEW t \in Threads, NEW p \in Pipes, mr_release_pipeline(t, p)
  PROVE  Objects'
<1>1. /\ pipe[p] = "live" /\ pipe' = [pipe EXCEPT ![p] = "released"]
      /\ refs' = Unref({object[p]}) /\ UNCHANGED <<object, cache>>
  BY DEF mr_release_pipeline
<1>2. \A o \in Pipes : Handles(o)' = Handles(o) \ {p} /\ Holders(o)' = Holders(o)
  BY <1>1 DEF Objects, Handles, Holders
<1>3. ASSUME NEW o \in Pipes
      PROVE  /\ IsFiniteSet(Handles(o)') /\ IsFiniteSet(Holders(o)') /\ refs'[o] \in Int
             /\ refs'[o] = Cardinality(Handles(o)') + Cardinality(Holders(o)')
  <2>1. /\ IsFiniteSet(Handles(o)) /\ IsFiniteSet(Holders(o)) /\ refs[o] \in Int
        /\ refs[o] = Cardinality(Handles(o)) + Cardinality(Holders(o))
    BY DEF Objects
  <2>2. refs'[o] = refs[o] - (IF o = object[p] THEN 1 ELSE 0)
    BY <1>1 DEF Unref
  <2>3. p \in Handles(o) <=> o = object[p]
    BY <1>1 DEF Handles
  <2>4. Cardinality(Holders(o)) \in Int
    BY <2>1, FS_CardinalityType
  <2>5. /\ Cardinality(Handles(o)) \in Int /\ IsFiniteSet(Handles(o) \ {p})
        /\ p \in Handles(o) => Cardinality(Handles(o) \ {p}) = Cardinality(Handles(o)) - 1
        /\ p \notin Handles(o) => Cardinality(Handles(o) \ {p}) = Cardinality(Handles(o))
    BY <2>1, Recount
  <2>6. Cardinality(Holders(o)') = Cardinality(Holders(o)) /\ IsFiniteSet(Holders(o)')
    BY <1>2, <2>1
  <2>7. Cardinality(Handles(o)') = Cardinality(Handles(o) \ {p}) /\ IsFiniteSet(Handles(o)')
    BY <1>2, <2>5
  <2>8. CASE o = object[p]
    <3>1. refs'[o] = refs[o] - 1 /\ Cardinality(Handles(o)') = Cardinality(Handles(o)) - 1
      BY <2>2, <2>3, <2>5, <2>7, <2>8
    <3>2. QED
      BY <2>1, <2>4, <2>5, <2>6, <2>7, <3>1
  <2>9. CASE ~(o = object[p])
    <3>1. refs'[o] = refs[o] /\ Cardinality(Handles(o)') = Cardinality(Handles(o))
      BY <2>1, <2>2, <2>3, <2>5, <2>7, <2>9
    <3>2. QED
      BY <2>1, <2>4, <2>5, <2>6, <2>7, <3>1
  <2>10. QED
    BY <2>8, <2>9
<1>4. refs' \in [Pipes -> Int]
  BY <1>1, <1>3 DEF Unref
<1>5. QED
  BY <1>1, <1>2, <1>3, <1>4 DEF Objects

\* A name that the cache has stays with what it has.
LEMMA HitFacts ==
  ASSUME NEW c \in Lrus(Names, Pipes), Agrees(c), WithinLimit(c),
         NEW n \in Names, Has(c, n), NEW d, d = Find(c, n)
  PROVE  d \in Lrus(Names, Pipes) /\ Agrees(d) /\ WithinLimit(d) /\ d.entries = c.entries
<1>1. LET found == Find(c, n) IN
      /\ found \in Lrus(Names, Pipes) /\ Agrees(found) /\ WithinLimit(found)
      /\ found.entries = c.entries
      /\ UsesFirst(c, found, {n})
  BY FindFacts
<1>2. QED
  BY <1>1

\* A pipeline that the cache has is shared: one more handle owns it.
LEMMA HitObjects ==
  ASSUME Objects, NEW l \in Libs, NEW n \in Names, NEW p \in Pipes, NEW o \in Pipes,
         pipe[p] = "none", Has(cache[l], n), o = cache[l].entries[n],
         pipe' = [pipe EXCEPT ![p] = "live"], object' = [object EXCEPT ![p] = o],
         cache' = [cache EXCEPT ![l] = Find(cache[l], n)],
         \A x \in Pipes : refs'[x] = (IF x = o THEN refs[x] + 1 ELSE refs[x]),
         refs' \in [Pipes -> Int]
  PROVE  Objects'
<1>1. cache[l] \in Lrus(Names, Pipes) /\ Agrees(cache[l]) /\ WithinLimit(cache[l])
  BY DEF Objects
<1>2. PICK lru \in Lrus(Names, Pipes) :
        /\ lru = Find(cache[l], n) /\ lru.entries = cache[l].entries
        /\ Agrees(lru) /\ WithinLimit(lru)
  BY <1>1, HitFacts
<1>3. /\ cache' \in [Libs -> Lrus(Names, Pipes)]
      /\ \A m \in Libs : /\ Agrees(cache'[m]) /\ WithinLimit(cache'[m])
                         /\ cache'[m].entries = cache[m].entries
  BY <1>2 DEF Objects
<1>4. \A x \in Pipes : Holders(x)' = Holders(x)
  BY <1>3 DEF Holders, In, Keys
<1>5. l \in Holders(o) /\ p \notin Handles(o) /\ o # p
  <2>1. l \in Holders(o) /\ p \notin Handles(o)
    BY DEF Holders, Handles, In, Has
  <2>2. QED
    BY <2>1 DEF Objects
<1>6. /\ Handles(o)' = Handles(o) \cup {p}
      /\ \A x \in Pipes \ {o} : Handles(x)' = Handles(x)
  BY DEF Handles, Objects
<1>7. ASSUME NEW x \in Pipes
      PROVE  /\ IsFiniteSet(Handles(x)') /\ IsFiniteSet(Holders(x)')
             /\ refs'[x] = Cardinality(Handles(x)') + Cardinality(Holders(x)')
  <2>1. /\ IsFiniteSet(Handles(x)) /\ IsFiniteSet(Holders(x)) /\ refs[x] \in Int
        /\ refs[x] = Cardinality(Handles(x)) + Cardinality(Holders(x))
    BY DEF Objects
  <2>2. Cardinality(Holders(x)) \in Int /\ Cardinality(Handles(x)) \in Int
    BY <2>1, FS_CardinalityType
  <2>3. Cardinality(Holders(x)') = Cardinality(Holders(x)) /\ IsFiniteSet(Holders(x)')
    BY <1>4, <2>1
  <2>4. CASE x = o
    <3>1. /\ Cardinality(Handles(x) \cup {p}) = Cardinality(Handles(x)) + 1
          /\ IsFiniteSet(Handles(x) \cup {p})
      BY <1>5, <2>1, <2>4, Recount
    <3>2. Cardinality(Handles(x)') = Cardinality(Handles(x)) + 1 /\ IsFiniteSet(Handles(x)')
      BY <1>6, <2>4, <3>1
    <3>3. refs'[x] = refs[x] + 1
      BY <2>4
    <3>4. QED
      BY <2>1, <2>2, <2>3, <3>2, <3>3
  <2>5. CASE x # o
    <3>1. Cardinality(Handles(x)') = Cardinality(Handles(x)) /\ IsFiniteSet(Handles(x)')
      BY <1>6, <2>1, <2>5
    <3>2. QED
      BY <2>1, <2>2, <2>3, <2>5, <3>1
  <2>6. QED
    BY <2>4, <2>5
<1>8. ASSUME NEW x \in Pipes, pipe'[x] = "none"
      PROVE  Handles(x)' = {} /\ Holders(x)' = {}
  <2>1. pipe[x] = "none"
    BY <1>8 DEF Objects
  <2>2. x # o
    BY <2>1, <1>5 DEF Objects
  <2>3. QED
    BY <1>4, <1>6, <2>1, <2>2 DEF Objects
<1>9. /\ pipe' \in [Pipes -> {"none", "live", "released"}] /\ object' \in [Pipes -> Pipes \cup {Null}]
      /\ \A x \in Pipes : pipe'[x] = "live" => object'[x] \in Pipes
  BY DEF Objects
<1>10. QED
  BY <1>3, <1>7, <1>8, <1>9 DEF Objects

\* A name that the cache has not comes in, and others may go out.
LEMMA MissFacts ==
  ASSUME NEW c \in Lrus(Names, Pipes), Agrees(c), WithinLimit(c),
         NEW n \in Names, NEW p \in Pipes, ~Has(c, n), NEW d, d = Insert(c, n, p)
  PROVE  /\ d \in Lrus(Names, Pipes) /\ Agrees(d) /\ WithinLimit(d)
         /\ p \in In(d) /\ In(d) \subseteq In(c) \cup {p} /\ d.entries[n] = p
<1>1. LET e == Insert(c, n, p) IN
      /\ e \in Lrus(Names, Pipes) /\ Agrees(e) /\ WithinLimit(e)
      /\ Has(e, n) /\ Keys(e) \subseteq Keys(c) \cup {n} /\ SameValues(c, e)
      /\ Has(c, n) => e.entries = c.entries
      /\ ~Has(c, n) => e.entries[n] = p
      /\ UsesFirst(c, e, {n}) /\ LosesOldest(c, e)
  BY InsertFacts
<1>2. QED
  BY <1>1 DEF In, Has, SameValues

\* A pipeline that the cache has not is made, with two owners; the cache may lose others.
LEMMA MissObjects ==
  ASSUME Objects, NEW l \in Libs, NEW n \in Names, NEW p \in Pipes,
         NEW lru \in Lrus(Names, Pipes),
         pipe[p] = "none", ~Has(cache[l], n), lru = Insert(cache[l], n, p),
         pipe' = [pipe EXCEPT ![p] = "live"], object' = [object EXCEPT ![p] = p],
         cache' = [cache EXCEPT ![l] = lru],
         refs' \in [Pipes -> Int], refs'[p] = 2,
         \A x \in Pipes \ {p} : refs'[x] = Unref(In(cache[l]) \ In(lru))[x]
  PROVE  Objects'
<1>1. cache[l] \in Lrus(Names, Pipes) /\ Agrees(cache[l]) /\ WithinLimit(cache[l])
  BY DEF Objects
<1>2. lru \in Lrus(Names, Pipes) /\ Agrees(lru) /\ WithinLimit(lru)
  BY <1>1, MissFacts
<1>3. p \in In(lru) /\ In(lru) \subseteq In(cache[l]) \cup {p}
  BY <1>1, MissFacts
<1>4. /\ cache' \in [Libs -> Lrus(Names, Pipes)]
      /\ \A m \in Libs : Agrees(cache'[m]) /\ WithinLimit(cache'[m])
      /\ cache'[l] = lru /\ \A m \in Libs \ {l} : cache'[m] = cache[m]
  BY <1>2 DEF Objects
<1>5. Handles(p) = {} /\ Holders(p) = {}
  BY DEF Objects
<1>6. Handles(p)' = {p} /\ Holders(p)' = {l}
  <2>1. Handles(p)' = {p}
    BY <1>5 DEF Handles, Objects
  <2>2. Holders(p)' = {l}
    BY <1>3, <1>4, <1>5 DEF Holders
  <2>3. QED
    BY <2>1, <2>2
<1>7. ASSUME NEW x \in Pipes \ {p}
      PROVE  /\ Handles(x)' = Handles(x)
             /\ Holders(x)' = IF x \in In(cache[l]) \ In(lru) THEN Holders(x) \ {l} ELSE Holders(x)
  <2>1. Handles(x)' = Handles(x)
    BY DEF Handles, Objects
  <2>2. Holders(x)' \ {l} = Holders(x) \ {l}
    BY <1>4 DEF Holders
  <2>3. (l \in Holders(x)' <=> x \in In(lru)) /\ (l \in Holders(x) <=> x \in In(cache[l]))
    BY <1>4 DEF Holders
  <2>4. x \in In(lru) => x \in In(cache[l])
    BY <1>3
  <2>5. QED
    BY <2>1, <2>2, <2>3, <2>4
<1>8. ASSUME NEW x \in Pipes
      PROVE  /\ IsFiniteSet(Handles(x)') /\ IsFiniteSet(Holders(x)')
             /\ refs'[x] = Cardinality(Handles(x)') + Cardinality(Holders(x)')
  <2>1. CASE x = p
    <3>1. /\ IsFiniteSet({p}) /\ Cardinality({p}) = 1
          /\ IsFiniteSet({l}) /\ Cardinality({l}) = 1
      BY FS_Singleton
    <3>2. IsFiniteSet(Handles(p)') /\ Cardinality(Handles(p)') = 1
      BY <1>6, <3>1, Zenon
    <3>3. IsFiniteSet(Holders(p)') /\ Cardinality(Holders(p)') = 1
      BY <1>6, <3>1, Zenon
    <3>4. QED
      BY <2>1, <3>2, <3>3
  <2>2. CASE x # p
    <3>1. /\ IsFiniteSet(Handles(x)) /\ IsFiniteSet(Holders(x)) /\ refs[x] \in Int
          /\ refs[x] = Cardinality(Handles(x)) + Cardinality(Holders(x))
      BY DEF Objects
    <3>2. Cardinality(Holders(x)) \in Int /\ Cardinality(Handles(x)) \in Int
      BY <3>1, FS_CardinalityType
    <3>3. Cardinality(Handles(x)') = Cardinality(Handles(x)) /\ IsFiniteSet(Handles(x)')
      BY <1>7, <2>2, <3>1
    <3>4. CASE x \in In(cache[l]) \ In(lru)
      <4>1. l \in Holders(x) /\ refs'[x] = refs[x] - 1
        BY <2>2, <3>4 DEF Holders, Unref
      <4>2. /\ Cardinality(Holders(x) \ {l}) = Cardinality(Holders(x)) - 1
            /\ IsFiniteSet(Holders(x) \ {l})
        BY <3>1, <4>1, Recount
      <4>3. /\ Cardinality(Holders(x)') = Cardinality(Holders(x)) - 1
            /\ IsFiniteSet(Holders(x)')
        BY <1>7, <2>2, <3>4, <4>2
      <4>4. QED
        BY <3>1, <3>2, <3>3, <4>1, <4>3
    <3>5. CASE x \notin In(cache[l]) \ In(lru)
      <4>1. refs'[x] = refs[x]
        BY <2>2, <3>1, <3>5 DEF Unref
      <4>2. Cardinality(Holders(x)') = Cardinality(Holders(x)) /\ IsFiniteSet(Holders(x)')
        BY <1>7, <2>2, <3>1, <3>5
      <4>3. QED
        BY <3>1, <3>2, <3>3, <4>1, <4>2
    <3>6. QED
      BY <3>4, <3>5
  <2>3. QED
    BY <2>1, <2>2
<1>9. ASSUME NEW x \in Pipes, pipe'[x] = "none"
      PROVE  Handles(x)' = {} /\ Holders(x)' = {}
  <2>1. pipe[x] = "none" /\ x # p
    BY <1>9 DEF Objects
  <2>2. Handles(x) = {} /\ Holders(x) = {}
    BY <2>1 DEF Objects
  <2>3. QED
    BY <1>7, <2>1, <2>2
<1>10. /\ pipe' \in [Pipes -> {"none", "live", "released"}] /\ object' \in [Pipes -> Pipes \cup {Null}]
       /\ \A x \in Pipes : pipe'[x] = "live" => object'[x] \in Pipes
  BY DEF Objects
<1>11. QED
  BY <1>4, <1>8, <1>9, <1>10 DEF Objects

LEMMA GetPipelineObjects ==
  ASSUME Objects, NEW t \in Threads, NEW l \in Libs, NEW n \in Names, NEW p \in Pipes,
         NEW defect, mr_get_pipeline(t, l, n, p, defect)
  PROVE  Objects'
<1> DEFINE hit == Has(cache[l], n)
           lru == IF hit THEN Find(cache[l], n) ELSE Insert(cache[l], n, p)
<1>1. pipe[p] = "none"
  BY DEF mr_get_pipeline
<1>2. CASE GetOutcome(n, defect) # "none"
  <2>1. UNCHANGED <<pipe, object, cache, refs>>
    BY <1>2 DEF mr_get_pipeline, pipeVars
  <2>2. QED
    BY <2>1, ObjectsKept
<1>3. CASE GetOutcome(n, defect) = "none"
  <2>1. /\ pipe' = [pipe EXCEPT ![p] = "live"] /\ object' = [object EXCEPT ![p] = lru.entries[n]]
        /\ cache' = [cache EXCEPT ![l] = lru]
        /\ refs' = Share(Unref(In(cache[l]) \ In(lru)), hit, lru.entries[n])
    BY <1>3 DEF mr_get_pipeline
  <2>2. cache[l] \in Lrus(Names, Pipes) /\ Agrees(cache[l]) /\ WithinLimit(cache[l])
    BY DEF Objects
  <2>3. refs \in [Pipes -> Int]
    BY DEF Objects
  <2>4. CASE hit
    <3>1. lru = Find(cache[l], n) /\ lru.entries = cache[l].entries
      <4>1. Has(cache[l], n) /\ lru = Find(cache[l], n)
        BY <2>4
      <4> HIDE DEF hit, lru
      <4>2. QED
        BY <2>2, <4>1, HitFacts
    <3>2. PICK o \in Pipes : o = cache[l].entries[n]
      BY <2>2, <2>4, InFacts DEF Has
    <3>3. In(cache[l]) \ In(lru) = {}
      BY <3>1 DEF In, Keys
    <3>4. Unref(In(cache[l]) \ In(lru)) = refs
      BY <2>3, <3>3 DEF Unref
    <3>5. refs' = [refs EXCEPT ![o] = refs[o] + 1]
      BY <2>1, <2>4, <3>1, <3>2, <3>4 DEF Share
    <3>6. object' = [object EXCEPT ![p] = o] /\ cache' = [cache EXCEPT ![l] = Find(cache[l], n)]
      BY <2>1, <3>1, <3>2
    <3>7. /\ \A x \in Pipes : refs'[x] = (IF x = o THEN refs[x] + 1 ELSE refs[x])
          /\ refs' \in [Pipes -> Int]
      BY <2>3, <3>5
    <3>8. Has(cache[l], n) /\ pipe' = [pipe EXCEPT ![p] = "live"]
      BY <2>1, <2>4
    <3>9. QED
      BY <1>1, <3>2, <3>6, <3>7, <3>8, HitObjects
  <2>5. CASE ~hit
    <3>1. PICK new \in Lrus(Names, Pipes) : new = Insert(cache[l], n, p) /\ new = lru /\ new.entries[n] = p
      BY <2>2, <2>5, MissFacts
    <3>2. refs' = [Unref(In(cache[l]) \ In(new)) EXCEPT ![p] = 2]
      BY <2>1, <2>5, <3>1 DEF Share
    <3>3. /\ refs' \in [Pipes -> Int] /\ refs'[p] = 2
          /\ \A x \in Pipes \ {p} : refs'[x] = Unref(In(cache[l]) \ In(new))[x]
      BY <2>3, <3>2 DEF Unref
    <3>4. object' = [object EXCEPT ![p] = p] /\ cache' = [cache EXCEPT ![l] = new]
      BY <2>1, <3>1
    <3>5. ~Has(cache[l], n) /\ pipe' = [pipe EXCEPT ![p] = "live"]
      BY <2>1, <2>5
    <3> HIDE DEF hit, lru
    <3>6. new = Insert(cache[l], n, p)
      BY <3>1
    <3>7. pipe' = [pipe EXCEPT ![p] = "live"]
      BY <3>5
    <3>8. ~Has(cache[l], n)
      BY <3>5
    <3>9. QED
      BY <1>1, <3>3, <3>4, <3>6, <3>7, <3>8, MissObjects
  <2>6. QED
    BY <2>4, <2>5
<1>4. QED
  BY <1>2, <1>3
-----------------------------------------------------------------------------
(* Calls in progress *)

LEMMA CallsInit == Init => Calls
  BY DEF Init, Calls, Batch!SpecInit, Exclusive, CallOK, Call, Places, Ops, Defects

\* No batch comes to be.
NoneMade == \A b \in Batches : state[b] = "none" => state'[b] = "none"

LEMMA CallsKept ==
  ASSUME Calls, UNCHANGED <<handle, state, work, pc, call>>
  PROVE  Calls'
  BY DEF Calls, Exclusive, CallOK

\* A step of thread t, which touches no batch of another call but to wait for it.
LEMMA CallStep ==
  ASSUME Calls, NEW t \in Threads,
         handle' \in [Batches -> {"none", "live", "released"}],
         DOMAIN state' = Batches, DOMAIN work' = Batches,
         pc' \in [Threads -> Places],
         call' \in [Threads -> [op : Ops, batch : Batches \cup {Null}, arg : Pipes \cup {Null},
                                defect : Defects]],
         \A u \in Threads \ {t} : pc'[u] = pc[u] /\ call'[u] = call[u],
         \A u \in Threads \ {t} : pc[u] # "idle" => handle'[call[u].batch] = handle[call[u].batch],
         \A u \in Threads \ {t} : pc[u] = "creating" => state'[call[u].batch] = "none",
         \A u \in Threads \ {t} :
           pc'[t] # "idle" /\ pc[u] # "idle" /\ call'[t].batch = call[u].batch =>
             call'[t].op = "mr_batch_wait" /\ call[u].op = "mr_batch_wait",
         CallOK(t)'
  PROVE  Calls'
<1>1. ASSUME NEW u \in Threads \ {t} PROVE CallOK(u)'
  BY DEF Calls, CallOK
<1>2. Exclusive'
  BY DEF Calls, Exclusive
<1>3. QED
  BY <1>1, <1>2 DEF Calls

LEMMA BlocksCalls ==
  ASSUME Calls, NEW t \in Threads, NEW c, NEW label \in Places \ {"idle"}, Blocks(t, c, label),
         c \in [op : Ops, batch : Batches, arg : Pipes \cup {Null}, defect : Defects],
         UNCHANGED handle, DOMAIN state' = Batches, DOMAIN work' = Batches, NoneMade,
         \/ /\ label = "creating" /\ c.op \in {"mr_batch_create", "mr_dispatch"}
            /\ Unused(c.batch) /\ handle[c.batch] = "none"
            /\ c.op = "mr_batch_create" => c.defect = "none"
            /\ c.defect \in {"none", "malformed"}
         \/ /\ label = "waiting" /\ c.op = "mr_batch_wait" /\ c.defect = "none"
            /\ handle[c.batch] = "live"
  PROVE  Calls'
<1>1. pc' = [pc EXCEPT ![t] = label] /\ call' = [call EXCEPT ![t] = c]
  BY DEF Blocks, Goto
<1>2. /\ pc' \in [Threads -> Places]
      /\ call' \in [Threads -> [op : Ops, batch : Batches \cup {Null}, arg : Pipes \cup {Null},
                                defect : Defects]]
      /\ pc'[t] = label /\ call'[t] = c
      /\ \A u \in Threads \ {t} : pc'[u] = pc[u] /\ call'[u] = call[u]
  BY <1>1 DEF Calls
<1>3. CallOK(t)'
  BY <1>2 DEF CallOK, Unused, NoneMade
<1>4. ASSUME NEW u \in Threads \ {t}, pc[u] # "idle", c.batch = call[u].batch
      PROVE  c.op = "mr_batch_wait" /\ call[u].op = "mr_batch_wait"
  BY <1>4 DEF Unused, Calls, CallOK
<1>5. handle' \in [Batches -> {"none", "live", "released"}]
  BY DEF Calls
<1>6. \A u \in Threads \ {t} : pc[u] = "creating" => state'[call[u].batch] = "none"
  BY DEF Calls, CallOK, NoneMade
<1>7. QED
  BY <1>2, <1>3, <1>4, <1>5, <1>6, CallStep

\* The next point of a call.
LEMMA GoesOnCalls ==
  ASSUME Calls, NEW t \in Threads, NEW label \in Places, pc[t] # "idle", Goto(t, label),
         UNCHANGED call, DOMAIN state' = Batches, DOMAIN work' = Batches,
         UNCHANGED handle \/ (/\ label = "idle" /\ call[t].op # "mr_batch_wait"
                              /\ handle' = [handle EXCEPT ![call[t].batch] = "live"]),
         label \in {"encode", "submit"} => call[t].op = "mr_dispatch",
         label = "waiting" => call[t].op \in {"mr_batch_wait", "mr_dispatch"},
         label \in {"submit", "waiting"} => call[t].defect = "none",
         label # "creating",
         \A b \in Batches \ {call[t].batch} : state[b] = "none" => state'[b] = "none"
  PROVE  Calls'
<1>1. /\ pc' \in [Threads -> Places] /\ pc'[t] = label /\ call' = call
      /\ \A u \in Threads \ {t} : pc'[u] = pc[u] /\ call'[u] = call[u]
  BY DEF Goto, Calls
<1>2. CallOK(t) /\ call[t].batch \in Batches
  BY DEF Calls, CallOK
<1>3. handle' \in [Batches -> {"none", "live", "released"}]
  BY <1>2 DEF Calls
<1>4. ASSUME NEW u \in Threads \ {t}, pc[u] # "idle"
      PROVE  /\ handle'[call[u].batch] = handle[call[u].batch]
             /\ call[t].batch = call[u].batch =>
                  call[t].op = "mr_batch_wait" /\ call[u].op = "mr_batch_wait"
             /\ pc[u] = "creating" => state'[call[u].batch] = "none"
  <2>1. call[t].batch = call[u].batch =>
          call[t].op = "mr_batch_wait" /\ call[u].op = "mr_batch_wait"
    BY <1>4 DEF Calls, Exclusive
  <2>2. call[u].batch \in Batches
    BY <1>4 DEF Calls, CallOK
  <2>3. pc[u] = "creating" => state'[call[u].batch] = "none"
    BY <2>1, <2>2 DEF Calls, CallOK
  <2>4. QED
    BY <2>1, <2>2, <2>3 DEF Calls
<1>5. CallOK(t)'
  BY <1>1, <1>2 DEF CallOK
<1>6. QED
  BY <1>1, <1>3, <1>4, <1>5, CallStep DEF Calls

-----------------------------------------------------------------------------
(* What a call returns *)

LEMMA CaughtBy ==
  ASSUME NEW e, NEW k \in 1..7, Catches[k][1] \in Bases[e] \cup {e},
         \A j \in 1..(k - 1) : Catches[j][1] \notin Bases[e] \cup {e}
  PROVE  Caught(e) = Catches[k][2]
<1> DEFINE Fit(i) == Catches[i][1] \in Bases[e] \cup {e}
           First(i) == Fit(i) /\ \A j \in 1..(i - 1) : ~Fit(j)
<1>1. DOMAIN Catches = 1..7
  BY DEF Catches
<1>2. First(k)
  OBVIOUS
<1>3. Caught(e) = Catches[CHOOSE i \in DOMAIN Catches : First(i)][2]
  BY DEF Caught
<1> HIDE DEF Fit
<1>4. \A i \in 1..7 : First(i) => i = k
  BY <1>2
<1>5. (CHOOSE i \in DOMAIN Catches : First(i)) = k
  BY <1>1, <1>2, <1>4
<1>6. QED
  BY <1>3, <1>5

Outcomes == DOMAIN Bases \cup {"none"}

LEMMA CaughtIs ==
  /\ Caught("MSLFunctionNotFoundError") = "MR_ERROR_FUNCTION_NOT_FOUND"
  /\ Caught("MSLCompileError") = "MR_ERROR_COMPILE"
  /\ Caught("PipelineBuildError") = "MR_ERROR_COMPILE"
  /\ Caught("DispatchError") = "MR_ERROR_DISPATCH"
  /\ Caught("NoDeviceError") = "MR_ERROR_NO_DEVICE"
  /\ Caught("AllocationError") = "MR_ERROR_ALLOCATION"
  /\ Caught("invalid_argument") = "MR_ERROR_INVALID_ARGUMENT"
  /\ Caught("bad_alloc") = "MR_ERROR_UNKNOWN"
<1>1. Caught("MSLFunctionNotFoundError") = Catches[1][2]
  BY CaughtBy DEF Catches, Bases
<1>2. Caught("MSLCompileError") = Catches[2][2] /\ Caught("PipelineBuildError") = Catches[2][2]
  BY CaughtBy DEF Catches, Bases
<1>3. Caught("DispatchError") = Catches[3][2]
  BY CaughtBy DEF Catches, Bases
<1>4. Caught("NoDeviceError") = Catches[4][2]
  BY CaughtBy DEF Catches, Bases
<1>5. Caught("AllocationError") = Catches[5][2]
  BY CaughtBy DEF Catches, Bases
<1>6. Caught("invalid_argument") = Catches[6][2]
  BY CaughtBy DEF Catches, Bases
<1>7. Caught("bad_alloc") = Catches[7][2]
  BY CaughtBy DEF Catches, Bases
<1>8. QED
  BY <1>1, <1>2, <1>3, <1>4, <1>5, <1>6, <1>7 DEF Catches

\* What an exception says of the call that ends with it, and what its end says.
Fits(c, e) ==
  /\ e = "none" =>
       /\ c.defect = "none"
       /\ c.op \in {"mr_batch_wait", "mr_dispatch"} =>
            state[c.batch] = "completed" /\ work[c.batch] = work'[c.batch]
       /\ c.op = "mr_batch_add" => work'[c.batch] = Append(work[c.batch], object[c.arg])
       /\ c.op = "mr_get_pipeline" => c.arg \in Buildable
  /\ e = "MSLFunctionNotFoundError" <=>
       c.op = "mr_get_pipeline" /\ c.defect = "none" /\ c.arg \notin Exported
  /\ e = "MSLCompileError" => c.op = "mr_compile_library"
  /\ e = "PipelineBuildError" => c.op = "mr_get_pipeline" /\ c.arg \in Exported \ Buildable
  /\ e = "DispatchError" =>
       \/ c.op \in {"mr_batch_wait", "mr_dispatch"} /\ state[c.batch] = "error"
       \/ c.op = "mr_dispatch" /\ state[c.batch] = "none"
       \/ c.op = "mr_batch_add" /\ state[c.batch] # "encoding"
       \/ c.op = "mr_batch_create" /\ c.defect = "none"
  /\ e = "invalid_argument" => c.defect \in {"null", "malformed"}
  /\ e = "NoDeviceError" => ~device
  /\ e = "bad_alloc" => c.defect = "memory"

\* All that LeavesNothing says but for what is returned.
Clean(c) ==
  /\ UNCHANGED <<pipeVars, handle>>
  /\ \A b \in Batches : handle[b] = "live" => state'[b] = state[b] /\ work'[b] = work[b]
  /\ c.op = "mr_dispatch" => state'[c.batch] \notin {"encoding", "committed"}

Told == TellsTruth(result') /\ (result'.status # "MR_OK" => LeavesNothing(result'))

LEMMA Reports ==
  ASSUME NEW c, NEW e \in Outcomes, NEW out, Return(c, e, out), Fits(c, e), e # "none" => Clean(c)
  PROVE  Told
<1>1. /\ result'.call = c /\ result'.message = (e # "none")
      /\ result'.status = IF e = "none" THEN "MR_OK" ELSE Caught(e)
      /\ e # "none" => result'.out = Null
  BY DEF Return
<1>2. /\ e = "none" <=> result'.status = "MR_OK"
      /\ e = "MSLFunctionNotFoundError" <=> result'.status = "MR_ERROR_FUNCTION_NOT_FOUND"
      /\ e \in {"MSLCompileError", "PipelineBuildError"} <=> result'.status = "MR_ERROR_COMPILE"
      /\ e = "DispatchError" <=> result'.status = "MR_ERROR_DISPATCH"
      /\ e = "NoDeviceError" <=> result'.status = "MR_ERROR_NO_DEVICE"
      /\ e = "invalid_argument" <=> result'.status = "MR_ERROR_INVALID_ARGUMENT"
      /\ e = "bad_alloc" <=> result'.status = "MR_ERROR_UNKNOWN"
  BY <1>1, CaughtIs DEF Outcomes, Bases
<1>3. TellsTruth(result')
  BY <1>1, <1>2 DEF TellsTruth, Fits
<1>4. ASSUME result'.status # "MR_OK" PROVE LeavesNothing(result')
  BY <1>1, <1>2, <1>4 DEF LeavesNothing, Clean
<1>5. QED
  BY <1>3, <1>4 DEF Told

\* What each action has to show.
Good == IInv' /\ (Returns => Told)

LEMMA Quiet ==
  ASSUME UNCHANGED result
  PROVE  Returns => Told
  BY DEF Returns

-----------------------------------------------------------------------------
(* The actions *)

LEMMA CompileLibrary ==
  ASSUME IInv, NEW t \in Threads, NEW l \in Libs, NEW defect \in Defects,
         mr_compile_library(t, l, defect)
  PROVE  Good
<1> DEFINE c == Call("mr_compile_library", Null, Null, defect)
<1>1. PICK e \in CompileOutcomes(defect) :
        Return(c, e, l) /\ lib' = IF e = "none" THEN [lib EXCEPT ![l] = "live"] ELSE lib
  BY DEF mr_compile_library
<1>2. UNCHANGED <<pipe, handle, object, cache, refs, state, work, pc, call>>
  BY DEF mr_compile_library, batchVars
<1>3. e \in Outcomes /\ Fits(c, e)
  BY <1>1 DEF CompileOutcomes, NeedsDevice, Outcomes, Bases, Fits, Call, Defects
<1>4. e # "none" => Clean(c)
  BY <1>1, <1>2 DEF Clean, Call, pipeVars
<1>5. Told
  BY <1>1, <1>3, <1>4, Reports
<1>6. QED
  BY <1>2, <1>5, ObjectsKept, CallsKept DEF IInv, Good

LEMMA ReleaseLibrary ==
  ASSUME IInv, NEW t \in Threads, NEW l \in Libs, mr_release_library(t, l)
  PROVE  Good
<1>1. UNCHANGED <<handle, state, work, pc, call, result>>
  BY DEF mr_release_library, batchVars
<1>2. QED
  BY <1>1, ReleaseLibraryObjects, CallsKept, Quiet DEF IInv, Good

LEMMA GetPipeline ==
  ASSUME IInv, NEW t \in Threads, NEW l \in Libs, NEW n \in Names, NEW p \in Pipes,
         NEW defect \in Defects, mr_get_pipeline(t, l, n, p, defect)
  PROVE  Good
<1> DEFINE c == Call("mr_get_pipeline", Null, n, defect)
           e == GetOutcome(n, defect)
<1>1. Return(c, e, p) /\ (e # "none" => UNCHANGED pipeVars)
  BY DEF mr_get_pipeline
<1>2. UNCHANGED <<handle, state, work, pc, call>>
  BY DEF mr_get_pipeline, batchVars
<1>3. e \in Outcomes /\ Fits(c, e)
  <2>1. /\ c.op = "mr_get_pipeline" /\ c.arg = n /\ c.defect = defect
        /\ n \in Buildable => n \in Exported
    BY CApiAssumption DEF Call
  <2>2. \/ e = "invalid_argument" /\ defect \in {"null", "malformed"}
        \/ e = "bad_alloc" /\ defect = "memory"
        \/ e = "MSLFunctionNotFoundError" /\ defect = "none" /\ n \notin Exported
        \/ e = "PipelineBuildError" /\ defect = "none" /\ n \in Exported \ Buildable
        \/ e = "none" /\ defect = "none" /\ n \in Exported /\ n \in Buildable
    BY DEF GetOutcome, Defects
  <2> HIDE DEF e, c
  <2>3. QED
    BY <2>1, <2>2 DEF Outcomes, Bases, Fits
<1>4. e # "none" => Clean(c)
  BY <1>1, <1>2 DEF Clean, Call
<1> HIDE DEF e
<1>5. Told
  BY <1>1, <1>3, <1>4, Reports
<1>6. QED
  BY <1>2, <1>5, GetPipelineObjects, CallsKept DEF IInv, Good

LEMMA ReleasePipeline ==
  ASSUME IInv, NEW t \in Threads, NEW p \in Pipes, mr_release_pipeline(t, p)
  PROVE  Good
<1>1. UNCHANGED <<handle, state, work, pc, call, result>>
  BY DEF mr_release_pipeline, batchVars
<1>2. QED
  BY <1>1, ReleasePipelineObjects, CallsKept, Quiet DEF IInv, Good

LEMMA Info ==
  ASSUME IInv, NEW t \in Threads, NEW defect \in {"none", "null"}, mr_info(t, defect)
  PROVE  Good
<1> DEFINE c == Call("mr_info", Null, Null, defect)
<1>1. PICK e \in IF defect = "null" THEN {"invalid_argument"} ELSE NeedsDevice({"none"}) :
        Return(c, e, Null)
  BY DEF mr_info
<1>2. UNCHANGED <<pipeVars, handle, state, work, pc, call>>
  BY DEF mr_info, batchVars
<1>3. e \in Outcomes /\ Fits(c, e)
  BY <1>1 DEF NeedsDevice, Outcomes, Bases, Fits, Call
<1>4. Clean(c)
  BY <1>2 DEF Clean, Call
<1>5. Told
  BY <1>1, <1>3, <1>4, Reports
<1>6. QED
  BY <1>2, <1>5, ObjectsKept, CallsKept DEF IInv, Good, pipeVars

LEMMA WrapBuffer ==
  ASSUME IInv, NEW t \in Threads, NEW defect \in {"none", "null"}, mr_wrap_buffer(t, defect)
  PROVE  Good
<1> DEFINE c == Call("mr_wrap_buffer", Null, Null, defect)
<1>1. PICK e \in IF defect = "null" THEN {"invalid_argument"}
                 ELSE NeedsDevice({"none", "AllocationError"}) :
        Return(c, e, Null)
  BY DEF mr_wrap_buffer
<1>2. UNCHANGED <<pipeVars, handle, state, work, pc, call>>
  BY DEF mr_wrap_buffer, batchVars
<1>3. e \in Outcomes /\ Fits(c, e)
  BY <1>1 DEF NeedsDevice, Outcomes, Bases, Fits, Call
<1>4. Clean(c)
  BY <1>2 DEF Clean, Call
<1>5. Told
  BY <1>1, <1>3, <1>4, Reports
<1>6. QED
  BY <1>2, <1>5, ObjectsKept, CallsKept DEF IInv, Good, pipeVars

LEMMA BatchCreate ==
  ASSUME IInv, NEW t \in Threads, NEW b \in Batches, NEW defect \in {"none", "null", "memory"},
         mr_batch_create(t, b, defect)
  PROVE  Good
<1> DEFINE c == Call("mr_batch_create", b, Null, defect)
<1>1. /\ Unused(b) /\ handle[b] = "none" /\ UNCHANGED <<pipeVars, handle, state, work>>
  BY DEF mr_batch_create, batchVars
<1>2. Objects'
  BY <1>1, ObjectsKept DEF IInv, pipeVars
<1>3. CASE defect = "none" /\ Blocks(t, c, "creating")
  <2>1. /\ c \in [op : Ops, batch : Batches, arg : Pipes \cup {Null}, defect : Defects]
        /\ c.op = "mr_batch_create" /\ c.batch = b /\ c.defect = "none"
        /\ "creating" \in Places \ {"idle"}
    BY <1>3 DEF Call, Ops, Defects, Places
  <2>2. DOMAIN state' = Batches /\ DOMAIN work' = Batches
    BY <1>1 DEF IInv, Calls
  <2>3. UNCHANGED result
    BY <1>3 DEF Blocks
  <2>4. Calls
    BY DEF IInv
  <2> HIDE DEF c
  <2>5. Calls'
    BY <1>1, <1>3, <2>1, <2>2, <2>4, BlocksCalls DEF NoneMade
  <2>6. QED
    BY <1>2, <2>3, <2>5, Quiet DEF IInv, Good
<1>4. ASSUME NEW e \in CASE defect = "null"   -> {"invalid_argument"}
                         [] defect = "memory" -> {"bad_alloc"}
                         [] OTHER             -> NeedsDevice({}),
             Return(c, e, Null), UNCHANGED <<pc, call>>
      PROVE  Good
  <2>1. e \in Outcomes /\ Fits(c, e)
    BY <1>4 DEF NeedsDevice, Outcomes, Bases, Fits, Call
  <2>2. Clean(c)
    BY <1>1 DEF Clean, Call
  <2>3. Told
    BY <1>4, <2>1, <2>2, Reports
  <2>4. QED
    BY <1>1, <1>2, <1>4, <2>3, CallsKept DEF IInv, Good
<1>5. QED
  BY <1>3, <1>4 DEF mr_batch_create

LEMMA BatchAdd ==
  ASSUME IInv, NEW t \in Threads, NEW b \in Batches, NEW p \in Pipes,
         NEW defect \in {"none", "null", "malformed"}, mr_batch_add(t, b, p, defect)
  PROVE  Good
<1> DEFINE c == Call("mr_batch_add", b, p, defect)
           e == AddOutcome(b, defect)
<1>1. /\ Return(c, e, Null) /\ UNCHANGED <<pipeVars, handle, pc, call>>
      /\ e = "none" => Batch!Add(b, object[p])
      /\ e # "none" => UNCHANGED <<state, work>>
  BY DEF mr_batch_add, batchVars
<1>2. /\ c.op = "mr_batch_add" /\ c.batch = b /\ c.arg = p /\ c.defect = defect
  BY DEF Call
<1>3. \/ e = "invalid_argument" /\ defect \in {"null", "malformed"}
      \/ e = "DispatchError" /\ state[b] # "encoding"
      \/ e = "none" /\ defect = "none"
  BY DEF AddOutcome
<1> HIDE DEF e, c
<1>4. DOMAIN state' = Batches /\ DOMAIN work' = Batches /\ state' = state
  BY <1>1 DEF Batch!Add, IInv, Calls
<1>5. e = "none" => work'[b] = Append(work[b], object[p])
  BY <1>1 DEF Batch!Add, IInv, Calls
<1>6. e \in Outcomes /\ Fits(c, e)
  BY <1>2, <1>3, <1>5 DEF Outcomes, Bases, Fits
<1>7. e # "none" => Clean(c)
  BY <1>1, <1>2 DEF Clean
<1>8. Told
  BY <1>1, <1>6, <1>7, Reports
<1>9. Calls'
  BY <1>1, <1>4 DEF IInv, Calls, Exclusive, CallOK
<1>10. QED
  BY <1>1, <1>8, <1>9, ObjectsKept DEF IInv, Good, pipeVars

LEMMA Submitted ==
  ASSUME Calls, NEW b \in Batches, SubmitIfOpen(b)
  PROVE  DOMAIN state' = Batches /\ DOMAIN work' = Batches /\ NoneMade
BY DEF SubmitIfOpen, Batch!Submit, Batch!Become, batchVars, Calls, NoneMade

LEMMA BatchCommit ==
  ASSUME IInv, NEW t \in Threads, NEW b \in Batches, mr_batch_commit(t, b)
  PROVE  Good
<1> DEFINE c == Call("mr_batch_commit", b, Null, "none")
<1>1. /\ Return(c, "none", Null) /\ SubmitIfOpen(b) /\ UNCHANGED <<pipeVars, handle, pc, call>>
  BY DEF mr_batch_commit
<1>2. DOMAIN state' = Batches /\ DOMAIN work' = Batches /\ NoneMade
  BY <1>1, Submitted DEF IInv
<1>3. "none" \in Outcomes /\ Fits(c, "none")
  BY DEF Outcomes, Fits, Call
<1>4. Told
  BY <1>1, <1>3, Reports
<1>5. Calls'
  BY <1>1, <1>2 DEF IInv, Calls, Exclusive, CallOK, NoneMade
<1>6. QED
  BY <1>1, <1>4, <1>5, ObjectsKept DEF IInv, Good, pipeVars

LEMMA BatchWait ==
  ASSUME IInv, NEW t \in Threads, NEW b \in Batches, mr_batch_wait(t, b)
  PROVE  Good
<1> DEFINE c == Call("mr_batch_wait", b, Null, "none")
<1>1. /\ Blocks(t, c, "waiting") /\ handle[b] = "live" /\ SubmitIfOpen(b)
      /\ UNCHANGED <<pipeVars, handle>>
  BY DEF mr_batch_wait
<1>2. DOMAIN state' = Batches /\ DOMAIN work' = Batches /\ NoneMade
  BY <1>1, Submitted DEF IInv
<1>3. /\ c \in [op : Ops, batch : Batches, arg : Pipes \cup {Null}, defect : Defects]
      /\ c.op = "mr_batch_wait" /\ c.batch = b /\ c.defect = "none"
      /\ "waiting" \in Places \ {"idle"}
  BY DEF Call, Ops, Defects, Places
<1>4. UNCHANGED result /\ Calls
  BY <1>1 DEF Blocks, IInv
<1> HIDE DEF c
<1>5. Calls'
  BY <1>1, <1>2, <1>3, <1>4, BlocksCalls
<1>6. QED
  BY <1>1, <1>4, <1>5, ObjectsKept, Quiet DEF IInv, Good, pipeVars

LEMMA ReleaseBatch ==
  ASSUME IInv, NEW t \in Threads, NEW b \in Batches, mr_release_batch(t, b)
  PROVE  Good
<1>1. /\ handle' = [handle EXCEPT ![b] = "released"] /\ UNCHANGED <<pipeVars, pc, call, result>>
      /\ \A u \in Threads : pc[u] # "idle" => call[u].batch # b
      /\ Batch!Drop(b) \/ UNCHANGED batchVars
  BY DEF mr_release_batch
<1>2. DOMAIN state' = Batches /\ DOMAIN work' = Batches
  BY <1>1 DEF Batch!Drop, Batch!Become, batchVars, IInv, Calls
<1>3. handle' \in [Batches -> {"none", "live", "released"}]
  BY <1>1 DEF IInv, Calls
<1>4. ASSUME NEW u \in Threads PROVE CallOK(u)'
  <2>1. NoneMade
    BY <1>1 DEF NoneMade, Batch!Drop, Batch!Become, batchVars, IInv, Calls
  <2>2. QED
    BY <1>1, <2>1 DEF IInv, Calls, CallOK, NoneMade
<1>5. Calls'
  BY <1>1, <1>2, <1>3, <1>4 DEF IInv, Calls, Exclusive
<1>6. QED
  BY <1>1, <1>5, ObjectsKept, Quiet DEF IInv, Good, pipeVars

LEMMA Dispatch ==
  ASSUME IInv, NEW t \in Threads, NEW b \in Batches, NEW p \in Pipes,
         NEW defect \in {"none", "null", "malformed"}, mr_dispatch(t, b, p, defect)
  PROVE  Good
<1> DEFINE c == Call("mr_dispatch", b, p, defect)
<1>1. /\ Unused(b) /\ handle[b] = "none" /\ UNCHANGED <<pipeVars, handle, state, work>>
      /\ \/ defect # "null" /\ Blocks(t, c, "creating")
         \/ defect = "null" /\ Return(c, "invalid_argument", Null) /\ UNCHANGED <<pc, call>>
  BY DEF mr_dispatch, batchVars
<1>2. /\ c \in [op : Ops, batch : Batches, arg : Pipes \cup {Null}, defect : Defects]
      /\ c.op = "mr_dispatch" /\ c.batch = b /\ c.arg = p /\ c.defect = defect
      /\ "creating" \in Places \ {"idle"}
  BY DEF Call, Ops, Defects, Places
<1>3. /\ Objects' /\ Calls /\ DOMAIN state' = Batches /\ DOMAIN work' = Batches
  BY <1>1, ObjectsKept DEF IInv, pipeVars, Calls
<1>4. state[b] = "none" /\ NoneMade
  BY <1>1 DEF Unused, NoneMade
<1> HIDE DEF c
<1>5. CASE defect # "null" /\ Blocks(t, c, "creating")
  <2>1. Calls'
    <3>1. c.defect \in {"none", "malformed"}
      BY <1>2, <1>5
    <3>2. QED
      BY <1>1, <1>2, <1>3, <1>4, <1>5, <3>1, BlocksCalls
  <2>2. UNCHANGED result
    BY <1>5 DEF Blocks
  <2>3. QED
    BY <1>3, <2>1, <2>2, Quiet DEF IInv, Good
<1>6. CASE defect = "null" /\ Return(c, "invalid_argument", Null) /\ UNCHANGED <<pc, call>>
  <2>1. "invalid_argument" \in Outcomes /\ Fits(c, "invalid_argument")
    BY <1>2, <1>6 DEF Outcomes, Bases, Fits
  <2>2. Clean(c)
    BY <1>1, <1>2, <1>4 DEF Clean
  <2>3. Told
    BY <1>6, <2>1, <2>2, Reports
  <2>4. QED
    BY <1>1, <1>3, <1>6, <2>3, CallsKept DEF IInv, Good
<1>7. QED
  BY <1>1, <1>5, <1>6

LEMMA CreatedGood ==
  ASSUME IInv, NEW t \in Threads, Created(t)
  PROVE  Good
<1>1. PICK b \in Batches : b = call[t].batch
  BY DEF IInv, Calls, CallOK, Created
<1>2. PICK c : c = call[t]
  OBVIOUS
<1>3. /\ pc[t] = "creating" /\ state[b] = "none" /\ UNCHANGED <<pipeVars, call>>
      /\ state' = [state EXCEPT ![b] = "encoding"] /\ UNCHANGED work
      /\ \/ c.op = "mr_dispatch" /\ Goto(t, "encode") /\ UNCHANGED <<handle, result>>
         \/ /\ c.op # "mr_dispatch" /\ handle' = [handle EXCEPT ![b] = "live"]
            /\ Goto(t, "idle") /\ Return(c, "none", b)
  BY <1>1, <1>2 DEF Created, Batch!Create, Batch!Become, Leaves
<1>4. /\ c.op \in {"mr_batch_create", "mr_dispatch"} /\ c.batch = b
      /\ c.op # "mr_dispatch" => c.defect = "none"
  BY <1>1, <1>2, <1>3 DEF IInv, Calls, CallOK
<1>5. /\ Objects' /\ Calls /\ DOMAIN state' = Batches /\ DOMAIN work' = Batches
      /\ "encode" \in Places /\ "idle" \in Places /\ pc[t] # "idle"
      /\ \A d \in Batches \ {call[t].batch} : state[d] = "none" => state'[d] = "none"
  BY <1>1, <1>3, ObjectsKept DEF IInv, pipeVars, Calls, Places
<1>6. CASE c.op = "mr_dispatch"
  <2>1. Calls'
    BY <1>2, <1>3, <1>5, <1>6, GoesOnCalls
  <2>2. QED
    BY <1>3, <1>5, <1>6, <2>1, Quiet DEF IInv, Good
<1>7. CASE c.op = "mr_batch_create"
  <2>1. Calls'
    BY <1>1, <1>2, <1>3, <1>5, <1>7, GoesOnCalls
  <2>2. "none" \in Outcomes /\ Fits(c, "none")
    BY <1>4, <1>7 DEF Outcomes, Fits
  <2>3. Told
    BY <1>3, <1>7, <2>2, Reports
  <2>4. QED
    BY <1>5, <2>1, <2>3 DEF IInv, Good
<1>8. QED
  BY <1>4, <1>6, <1>7

LEMMA CreateFailsGood ==
  ASSUME IInv, NEW t \in Threads, CreateFails(t)
  PROVE  Good
<1>1. PICK b \in Batches : b = call[t].batch
  BY DEF IInv, Calls, CallOK, CreateFails
<1>2. PICK c : c = call[t]
  OBVIOUS
<1>3. /\ pc[t] = "creating" /\ UNCHANGED <<pipeVars, handle, state, work, call>>
      /\ Goto(t, "idle") /\ Return(c, "DispatchError", Null)
  BY <1>2 DEF CreateFails, Leaves, batchVars
<1>4. /\ c.op \in {"mr_batch_create", "mr_dispatch"} /\ c.batch = b /\ state[b] = "none"
      /\ c.op # "mr_dispatch" => c.defect = "none"
  BY <1>1, <1>2, <1>3 DEF IInv, Calls, CallOK
<1>5. /\ Objects' /\ Calls /\ DOMAIN state' = Batches /\ DOMAIN work' = Batches
      /\ "idle" \in Places /\ pc[t] # "idle"
  BY <1>3, ObjectsKept DEF IInv, pipeVars, Calls, Places
<1>6. Calls'
  BY <1>3, <1>5, GoesOnCalls
<1>7. "DispatchError" \in Outcomes /\ Fits(c, "DispatchError")
  BY <1>4 DEF Outcomes, Bases, Fits
<1>8. Clean(c)
  BY <1>3, <1>4 DEF Clean
<1>9. Told
  BY <1>3, <1>7, <1>8, Reports
<1>10. QED
  BY <1>5, <1>6, <1>9 DEF IInv, Good

LEMMA EncodeGood ==
  ASSUME IInv, NEW t \in Threads, Encode(t)
  PROVE  Good
<1>1. PICK b \in Batches : b = call[t].batch
  BY DEF IInv, Calls, CallOK, Encode
<1>2. PICK c : c = call[t]
  OBVIOUS
<1>3. /\ pc[t] = "encode" /\ UNCHANGED <<pipeVars, handle, call>>
      /\ \/ /\ c.defect = "malformed" /\ Goto(t, "idle") /\ Return(c, "invalid_argument", Null)
            /\ state' = [state EXCEPT ![b] = "dropped"] /\ UNCHANGED work
         \/ /\ c.defect # "malformed" /\ Goto(t, "submit") /\ UNCHANGED <<state, result>>
            /\ work' = [work EXCEPT ![b] = Append(work[b], object[c.arg])]
  BY <1>1, <1>2 DEF Encode, Leaves, Batch!Drop, Batch!Become, Batch!Add
<1>4. c.op = "mr_dispatch" /\ c.batch = b /\ handle[b] = "none"
  BY <1>1, <1>2, <1>3 DEF IInv, Calls, CallOK
<1>5. /\ Objects' /\ Calls /\ DOMAIN state' = Batches /\ DOMAIN work' = Batches
      /\ "submit" \in Places /\ "idle" \in Places /\ pc[t] # "idle"
      /\ \A d \in Batches \ {call[t].batch} : state[d] = "none" => state'[d] = "none"
  BY <1>1, <1>3, ObjectsKept DEF IInv, pipeVars, Calls, Places
<1>6. CASE c.defect = "malformed"
  <2>1. Calls'
    BY <1>2, <1>3, <1>5, <1>6, GoesOnCalls
  <2>2. "invalid_argument" \in Outcomes /\ Fits(c, "invalid_argument")
    BY <1>4, <1>6 DEF Outcomes, Bases, Fits
  <2>3. Clean(c)
    BY <1>3, <1>4, <1>5, <1>6 DEF Clean, Calls
  <2>4. Told
    BY <1>3, <1>6, <2>2, <2>3, Reports
  <2>5. QED
    BY <1>5, <2>1, <2>4 DEF IInv, Good
<1>7. CASE c.defect # "malformed"
  <2>1. c.defect = "none"
    BY <1>2, <1>3, <1>7 DEF IInv, Calls, CallOK
  <2>2. Calls'
    BY <1>2, <1>3, <1>4, <1>5, <1>7, <2>1, GoesOnCalls
  <2>3. QED
    BY <1>3, <1>5, <1>7, <2>2, Quiet DEF IInv, Good
<1>8. QED
  BY <1>6, <1>7

LEMMA SubmitGood ==
  ASSUME IInv, NEW t \in Threads, Submit(t)
  PROVE  Good
<1>1. /\ pc[t] = "submit" /\ Goto(t, "waiting") /\ UNCHANGED <<pipeVars, handle, call, result, work>>
      /\ state' = [state EXCEPT ![call[t].batch] = "committed"]
  BY DEF Submit, Batch!Submit, Batch!Become
<1>2. call[t].op = "mr_dispatch" /\ call[t].defect = "none" /\ "waiting" \in Places
  BY <1>1 DEF IInv, Calls, CallOK, Places
<1>3. Objects' /\ Calls /\ DOMAIN state' = Batches /\ DOMAIN work' = Batches
  BY <1>1, ObjectsKept DEF IInv, pipeVars, Calls
<1>4. Calls'
  BY <1>1, <1>2, <1>3, GoesOnCalls
<1>5. QED
  BY <1>1, <1>3, <1>4, Quiet DEF IInv, Good

LEMMA WaitedGood ==
  ASSUME IInv, NEW t \in Threads, Waited(t)
  PROVE  Good
<1>1. PICK b \in Batches : b = call[t].batch
  BY DEF IInv, Calls, CallOK, Waited
<1>2. PICK c : c = call[t]
  OBVIOUS
<1>3. PICK e : e = IF state[b] = "error" THEN "DispatchError" ELSE "none"
  OBVIOUS
<1>4. /\ pc[t] = "waiting" /\ state[b] \in {"completed", "error"} /\ Goto(t, "idle")
      /\ Return(c, e, Null) /\ UNCHANGED <<pipeVars, handle, call, state, work>>
  BY <1>1, <1>2, <1>3 DEF Waited, Leaves, Batch!Report
<1>5. c.op \in {"mr_batch_wait", "mr_dispatch"} /\ c.batch = b /\ c.defect = "none"
  BY <1>1, <1>2, <1>4 DEF IInv, Calls, CallOK
<1>6. /\ Objects' /\ Calls /\ DOMAIN state' = Batches /\ DOMAIN work' = Batches
      /\ "idle" \in Places /\ pc[t] # "idle"
  BY <1>4, ObjectsKept DEF IInv, pipeVars, Calls, Places
<1>7. Calls'
  BY <1>4, <1>6, GoesOnCalls
<1>8. e \in Outcomes /\ Fits(c, e)
  BY <1>3, <1>4, <1>5 DEF Outcomes, Bases, Fits
<1>9. Clean(c)
  BY <1>4, <1>5 DEF Clean
<1>10. Told
  BY <1>4, <1>8, <1>9, Reports
<1>11. QED
  BY <1>6, <1>7, <1>10 DEF IInv, Good

LEMMA GpuFinishGood ==
  ASSUME IInv, NEW b \in Batches, GpuFinish(b)
  PROVE  Good
<1>1. /\ UNCHANGED <<pipeVars, handle, pc, call, result, work>>
      /\ state[b] = "committed"
      /\ \E verdict \in {"completed", "error"} : state' = [state EXCEPT ![b] = verdict]
  BY DEF GpuFinish, Batch!Complete, Batch!Become
<1>2. Objects'
  BY <1>1, ObjectsKept DEF IInv, pipeVars
<1>3. Calls'
  <2>1. NoneMade /\ DOMAIN state' = Batches
    BY <1>1 DEF NoneMade, IInv, Calls
  <2>2. QED
    BY <1>1, <2>1 DEF IInv, Calls, Exclusive, CallOK, NoneMade
<1>4. QED
  BY <1>1, <1>2, <1>3, Quiet DEF IInv, Good

-----------------------------------------------------------------------------
(* The theorems *)

LEMMA StepGood == IInv /\ [Next]_vars => Good
<1> SUFFICES ASSUME IInv, [Next]_vars PROVE Good
  OBVIOUS
<1>1. CASE UNCHANGED vars
  <2>1. UNCHANGED <<pipe, object, cache, refs, handle, state, work, pc, call, result>>
    BY <1>1 DEF vars, pipeVars, batchVars
  <2>2. QED
    BY <2>1, ObjectsKept, CallsKept, Quiet DEF IInv, Good
<1>2. CASE Next
  BY <1>2, CompileLibrary, ReleaseLibrary, GetPipeline, ReleasePipeline, Info, WrapBuffer,
     BatchCreate, BatchAdd, BatchCommit, BatchWait, ReleaseBatch, Dispatch, CreatedGood,
     CreateFailsGood, EncodeGood, SubmitGood, WaitedGood, GpuFinishGood DEF Next
<1>3. QED
  BY <1>1, <1>2

\* Owners are counted, and calls keep to their batches, in every reachable state
\* (c_api.cpp:88-331).
THEOREM Invariance == Spec => []IInv
<1>1. Init => IInv
  BY ObjectsInit, CallsInit DEF IInv
<1>2. IInv /\ [Next]_vars => IInv'
  BY StepGood DEF Good
<1>3. QED
  BY <1>1, <1>2, PTL DEF Spec

\* A ComputePipeline has an owner for each live handle and each cache that refers to it,
\* whatever was released or evicted before (c_api.cpp:28-30, 131-145).
THEOREM OwnersAreCounted == Spec => []PipelinesOutliveLibraries
<1>1. IInv => PipelinesOutliveLibraries
  BY DEF IInv, Objects, Handles, Holders, PipelinesOutliveLibraries
<1>2. QED
  BY <1>1, Invariance, PTL

\* No live handle refers to a ComputePipeline that was destroyed (c_api.cpp:28-30).
THEOREM LiveHandlesWork ==
  Spec => [](\A p \in Pipes : pipe[p] = "live" => object[p] \in Pipes /\ refs[object[p]] > 0)
<1>1. ASSUME IInv, NEW p \in Pipes, pipe[p] = "live"
      PROVE  object[p] \in Pipes /\ refs[object[p]] > 0
  <2>1. PICK o \in Pipes : o = object[p]
    BY <1>1 DEF IInv, Objects
  <2>2. /\ IsFiniteSet(Handles(o)) /\ IsFiniteSet(Holders(o)) /\ p \in Handles(o)
        /\ refs[o] = Cardinality(Handles(o)) + Cardinality(Holders(o))
    BY <1>1, <2>1 DEF IInv, Objects, Handles
  <2>3. Cardinality(Handles(o)) \in Nat /\ Cardinality(Holders(o)) \in Nat
    BY <2>2, FS_CardinalityType
  <2>4. Cardinality(Handles(o)) # 0
    BY <2>2, FS_EmptySet
  <2>5. QED
    BY <2>1, <2>2, <2>3, <2>4
<1>2. IInv => \A p \in Pipes : pipe[p] = "live" => object[p] \in Pipes /\ refs[object[p]] > 0
  BY <1>1
<1>3. QED
  BY <1>2, Invariance, PTL

\* Every return of a call tells what happened to it (c_api.cpp:49-78).
THEOREM StatusIsTrue == Spec => StatusTellsTruth
<1>1. IInv /\ [Next]_vars => [Returns => TellsTruth(result')]_vars
  BY StepGood DEF Good, Told
<1>2. QED
  BY <1>1, Invariance, PTL DEF Spec, StatusTellsTruth

\* A call that fails leaves caches, handles and open batches as they were
\* (c_api.cpp:107, 135, 314; dispatch.cpp:328-332).
THEOREM FailuresAreClean == Spec => FailureLeavesNothing
<1>1. IInv /\ [Next]_vars => [Returns /\ result'.status # "MR_OK" => LeavesNothing(result')]_vars
  BY StepGood DEF Good, Told
<1>2. QED
  BY <1>1, Invariance, PTL DEF Spec, FailureLeavesNothing
=============================================================================
