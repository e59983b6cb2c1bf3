----------------------------- MODULE LibraryCache -----------------------------
(***************************************************************************)
(* The two caches a Kernel goes through (src/src/runtime.cpp,              *)
(* src/src/library.cpp): MetalRuntime::library_for looks the source up in  *)
(* the runtime's LruCache of libraries, then Library::pipeline_for looks   *)
(* the function up in that library's LruCache of pipelines.  Both find     *)
(* under the cache's mutex, build with no lock held, and insert under the  *)
(* mutex again; each locked section is one step.  Other threads look up,   *)
(* change the limit and clear in between.                                  *)
(*                                                                         *)
(* A value records the key it was built for, the cache it was built for    *)
(* and the call that built it, so that two builds are told apart.          *)
(***************************************************************************)
EXTENDS LruCache, FiniteSets

CONSTANTS
  Threads,
  Sources,        \* MSL source with its compile options: keys of the libraries
  Functions,      \* function name with its constants: keys of the pipelines
  Limits,         \* values of set_library_cache_limit()
  kMaxCachedPipelines,
  MaxCalls,       \* bound: calls of each thread
  Runtime         \* the cache of the MetalRuntime; a library is its own cache

ASSUME CacheAssumption ==
  /\ Limits \subseteq Nat /\ Limits # {}
  /\ kMaxCachedPipelines \in Nat \ {0} /\ MaxCalls \in Nat

VARIABLES
  caches,         \* the LruCache of the runtime and of every library
  pc, at,         \* the cache a thread is looking in
  want,           \* the key it looks up
  function,       \* the function of its Kernel
  built,          \* what it has built
  calls,
  answered,       \* history: each lookup's cache and key, with the value it returned
  dropped,        \* history: values that were evicted or cleared
  later           \* history: pairs of keys of each cache, the first asked for after the second

threadVars == <<pc, at, want, function, built, calls>>
vars       == <<caches, threadVars, answered, dropped, later>>

Calls  == Threads \X (1..MaxCalls)
Libs   == [key : Sources, in : {Runtime}, by : Calls]
Pipes  == [key : Functions, in : Libs, by : Calls]
Values == Libs \cup Pipes

ASSUME RuntimeAssumption == Runtime \notin Libs

\* A key, with the cache it is looked up in.
Ids      == ({Runtime} \cup Libs) \X (Sources \cup Functions)
KeyOf(v) == <<v.in, v.key>>

\* What library_for and pipeline_for have returned so far.
handed == {p[2] : p \in answered}

In(c) == {caches[c].entries[k] : k \in Keys(caches[c])}

\* Everything that is cached somewhere.
Cached == UNION {In(c) : c \in DOMAIN caches}

Init ==
  /\ \E n \in Limits : caches = [c \in {Runtime} |-> EmptyLru(n)]
  /\ pc       = [t \in Threads |-> "idle"]
  /\ at       = [t \in Threads |-> Runtime]
  /\ want     = [t \in Threads |-> Runtime]
  /\ function = [t \in Threads |-> Runtime]
  /\ built    = [t \in Threads |-> Runtime]
  /\ calls    = [t \in Threads |-> 0]
  /\ answered = {}
  /\ dropped  = {}
  /\ later    = [c \in {Runtime} |-> {}]

\* Cache c becomes lru, after a request for the keys in used; what it no longer holds
\* has been dropped.
Update(c, lru, used) ==
  /\ caches'  = [caches EXCEPT ![c] = lru]
  /\ later'   = [later EXCEPT ![c] = {p \in Keys(lru) \X Keys(lru) :
       p[1] # p[2] /\ p[2] \notin used /\ (p[1] \in used \/ p \in @)}]
  /\ dropped' = dropped \cup (In(c) \ {lru.entries[k] : k \in Keys(lru)})

\* Kernel(source, f)
Kernel(t, source, f) ==
  /\ pc[t] = "idle" /\ calls[t] < MaxCalls
  /\ pc'       = [pc EXCEPT ![t] = "find"]
  /\ at'       = [at EXCEPT ![t] = Runtime]
  /\ want'     = [want EXCEPT ![t] = source]
  /\ function' = [function EXCEPT ![t] = f]
  /\ calls'    = [calls EXCEPT ![t] = @ + 1]
  /\ UNCHANGED <<caches, built, answered, dropped, later>>

\* The lookup of thread t is answered with v: library_for is followed by
\* pipeline_for, and that ends the call.
Answer(t, v) ==
  /\ answered' = answered \cup {<< <<at[t], want[t]>>, v>>}
  /\ pc'   = [pc EXCEPT ![t] = IF at[t] = Runtime THEN "find" ELSE "idle"]
  /\ want' = [want EXCEPT ![t] = IF at[t] = Runtime THEN function[t] ELSE Runtime]
  /\ at'   = [at EXCEPT ![t] = IF at[t] = Runtime THEN v ELSE Runtime]
  /\ built' = [built EXCEPT ![t] = Runtime]
  /\ UNCHANGED <<function, calls>>

Hit(t) ==
  LET c == caches[at[t]] IN
  /\ pc[t] = "find" /\ Has(c, want[t])
  /\ Update(at[t], Find(c, want[t]), {want[t]})
  /\ Answer(t, c.entries[want[t]])

Miss(t) ==
  /\ pc[t] = "find" /\ ~Has(caches[at[t]], want[t])
  /\ pc' = [pc EXCEPT ![t] = "build"]
  /\ UNCHANGED <<caches, at, want, function, built, calls, answered, dropped, later>>

\* new Library, with its own empty cache, or create_specialized and new
\* ComputePipeline: no lock is held.
Build(t) ==
  LET v == [key |-> want[t], in |-> at[t], by |-> <<t, calls[t]>>] IN
  /\ pc[t] = "build"
  /\ pc'    = [pc EXCEPT ![t] = "insert"]
  /\ built' = [built EXCEPT ![t] = v]
  /\ IF at[t] = Runtime
     THEN /\ caches' = With(caches, v, EmptyLru(kMaxCachedPipelines))
          /\ later'  = With(later, v, {})
     ELSE UNCHANGED <<caches, later>>
  /\ UNCHANGED <<at, want, function, calls, answered, dropped>>

\* The build throws; nothing is cached for its key.
BuildFails(t) ==
  /\ pc[t] = "build"
  /\ pc'   = [pc EXCEPT ![t] = "idle"]
  /\ at'   = [at EXCEPT ![t] = Runtime]
  /\ want' = [want EXCEPT ![t] = Runtime]
  /\ UNCHANGED <<caches, function, built, calls, answered, dropped, later>>

\* Mutant: the caller gets its own build even when another one was cached first.
InsertBuilt_OwnBuild(t) ==
  /\ pc[t] = "insert"
  /\ Update(at[t], Insert(caches[at[t]], want[t], built[t]), {want[t]})
  /\ Answer(t, built[t])

\* Mutant: the key is that of the function, in both caches.
InsertBuilt_OtherKey(t) ==
  LET lru == Insert(caches[at[t]], function[t], built[t]) IN
  /\ pc[t] = "insert"
  /\ Update(at[t], lru, {want[t]})
  /\ Answer(t, lru.entries[function[t]])

\* insert(): the caller gets what is cached now, its own build or a racing one.
InsertBuilt(t) ==
  LET lru == Insert(caches[at[t]], want[t], built[t]) IN
  /\ pc[t] = "insert"
  /\ Update(at[t], lru, {want[t]})
  /\ Answer(t, lru.entries[want[t]])

\* set_library_cache_limit(n) and clear_library_cache(), by a thread that is in no other call.
Tune(t) ==
  /\ pc[t] = "idle" /\ calls[t] < MaxCalls
  /\ calls' = [calls EXCEPT ![t] = @ + 1]
  /\ \/ \E n \in Limits : Update(Runtime, SetLimit(caches[Runtime], n), {})
     \/ Update(Runtime, Clear(caches[Runtime]), {})
  /\ UNCHANGED <<pc, at, want, function, built, answered>>

Step(t) == Hit(t) \/ Miss(t) \/ Build(t) \/ BuildFails(t) \/ InsertBuilt(t)

Next == \E t \in Threads :
  \/ \E s \in Sources, f \in Functions : Kernel(t, s, f)
  \/ Tune(t)
  \/ Step(t)

Spec == Init /\ [][Next]_vars

-----------------------------------------------------------------------------
(* Properties *)

TypeOK ==
  /\ DOMAIN caches \subseteq {Runtime} \cup Libs
  /\ \A c \in DOMAIN caches : In(c) \subseteq Values /\ Agrees(caches[c]) /\ WithinLimit(caches[c])
  /\ pc \in [Threads -> {"idle", "find", "build", "insert"}]
  /\ \A t \in Threads : at[t] \in DOMAIN caches
  /\ answered \subseteq Ids \X Values /\ dropped \subseteq Values

\* Whatever a lookup ever returned was built for the key it asked for, in the cache it
\* asked: threads that build and insert at once, while keys are evicted and the limit
\* changes, never get each other's (runtime.cpp:43-56, library.cpp:289-301).
RightValue == \A p \in answered : KeyOf(p[2]) = p[1]

\* Kernels made from one source share one library and one pipeline: one key was answered
\* with two different values only if the cache dropped one of them, so a race of two
\* builds is never visible (runtime.cpp:43-56, library.cpp:296-300).
OneBuildIsShared == \A p, q \in answered :
  p[1] = q[1] /\ p[2] # q[2] => p[2] \in dropped \/ q[2] \in dropped

\* The step evicts no key that was asked for after one it keeps.
OldestGoFirst == \A c \in DOMAIN caches :
  LET gone == Keys(caches[c]) \ Keys(caches'[c])
      kept == Keys(caches[c]) \cap Keys(caches'[c]) IN
  gone # {} /\ Keys(caches'[c]) # {} =>
    /\ \A j \in kept, k \in gone : <<j, k>> \in later[c]
    /\ Len(caches'[c].order) = caches'[c].limit

\* What leaves a cache that is not cleared was asked for before everything that stays,
\* whoever asked, and no more leaves than the limit asks for (lru.h:10-49).
EvictsOldest == [][OldestGoFirst]_vars

Shared == INSTANCE SharedCache WITH cached <- Cached

\* The find, build, insert protocol is a cache that answers each request at one instant.
ImplementsSharedCache == Shared!AbstractSpec
=============================================================================
