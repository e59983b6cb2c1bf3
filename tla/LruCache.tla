------------------------------- MODULE LruCache -------------------------------
(***************************************************************************)
(* LruCache<V> (src/src/lru.h) as a value: order_ lists the keys, the most *)
(* recently used first; entries_ maps each to its value; limit_ is 0 for a *)
(* cache that never evicts.  It has no lock of its own: LibraryCache puts  *)
(* its callers' locks around these operations.                             *)
(***************************************************************************)
EXTENDS Naturals, Sequences, Functions

EmptyLru(limit) == [order |-> << >>, entries |-> << >>, limit |-> limit]

\* f with v under k as well.
With(f, k, v) == [j \in DOMAIN f \cup {k} |-> IF j = k THEN v ELSE f[j]]

Keys(c)   == DOMAIN c.entries
Has(c, k) == k \in Keys(c)

\* Mutant: a hit does not count as a use.
ToFront_Stays(order, k) == order

\* order_.splice(order_.begin(), order_, ...): k moves to the front.
ToFront(order, k) ==
  LET at == CHOOSE i \in 1..Len(order) : order[i] = k IN
  [i \in 1..Len(order) |-> IF i = 1 THEN k ELSE IF i <= at THEN order[i - 1] ELSE order[i]]

\* What find() does to a cache that has k; it returns c.entries[k].
Find(c, k) == [c EXCEPT !.order = ToFront(@, k)]

\* evict(): erases from the back while there are more than limit_ entries.
Evict(c) ==
  IF c.limit = 0 \/ Len(c.order) <= c.limit THEN c
  ELSE LET kept == SubSeq(c.order, 1, c.limit) IN
       [c EXCEPT !.order = kept, !.entries = Restrict(@, Range(kept))]

\* c with v under k, which is used first.
Added(c, k, v) == [c EXCEPT !.order = <<k>> \o @, !.entries = With(@, k, v)]

\* Mutant: the value replaces the one that is already there.
Insert_Replaces(c, k, v) ==
  IF Has(c, k) THEN [Find(c, k) EXCEPT !.entries[k] = v]
  ELSE Evict(Added(c, k, v))

\* insert(): a key that is present keeps its value and counts as used.  Its
\* result is Insert(c, k, v).entries[k].
Insert(c, k, v) ==
  IF Has(c, k) THEN Find(c, k)
  ELSE Evict(Added(c, k, v))

SetLimit(c, limit) == Evict([c EXCEPT !.limit = limit])

\* Mutant: clear() leaves the list of keys behind.
Clear_EntriesOnly(c) == [c EXCEPT !.entries = << >>]

Clear(c) == EmptyLru(c.limit)

\* order_ and entries_ name the same keys, each once.
Agrees(c) ==
  /\ Range(c.order) = Keys(c)
  /\ \A i, j \in 1..Len(c.order) : c.order[i] = c.order[j] => i = j

WithinLimit(c) == c.limit = 0 \/ Len(c.order) <= c.limit
=============================================================================
