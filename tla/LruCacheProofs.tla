---------------------------- MODULE LruCacheProofs ----------------------------
(***************************************************************************)
(* Lemmas about the operations of an LruCache: each keeps order_ and       *)
(* entries_ in agreement and the number of entries within the limit, loses *)
(* only keys from the back of the list, and changes no value.  They hold   *)
(* for any keys K and values V.                                            *)
(***************************************************************************)
EXTENDS LruCache, SequenceTheorems, TLAPS

Lrus(K, V) ==
  [order : Seq(K), entries : UNION {[D -> V] : D \in SUBSET K}, limit : Nat]

\* No key twice.
Once(s) == \A i, j \in 1..Len(s) : s[i] = s[j] => i = j

\* x stands before y, that is, it was used after y.
Before(s, x, y) == \E i, j \in 1..Len(s) : i < j /\ s[i] = x /\ s[j] = y

\* The first n elements of s.
Prefix(new, s) == Len(new) <= Len(s) /\ \A i \in 1..Len(new) : new[i] = s[i]

\* The list after k was used: k is in front, and the others keep their order.
LEMMA ToFrontFacts ==
  ASSUME NEW K, NEW s \in Seq(K), Once(s), NEW k \in Range(s)
  PROVE  LET new == ToFront(s, k) IN
         /\ new \in Seq(K) /\ Len(new) = Len(s)
         /\ Range(new) = Range(s) /\ Once(new)
         /\ new[1] = k
         /\ \A x, y \in Range(s) \ {k} : Before(s, x, y) <=> Before(new, x, y)
<1> DEFINE at  == CHOOSE i \in 1..Len(s) : s[i] = k
           new == ToFront(s, k)
<1>1. Len(s) \in Nat /\ DOMAIN s = 1..Len(s) /\ \A i \in 1..Len(s) : s[i] \in K
  OBVIOUS
<1>2. at \in 1..Len(s) /\ s[at] = k
  <2>1. \E i \in 1..Len(s) : s[i] = k
    BY <1>1 DEF Range
  <2>2. QED
    BY <2>1
<1> HIDE DEF at
<1>3. new = [i \in 1..Len(s) |-> IF i = 1 THEN k ELSE IF i <= at THEN s[i - 1] ELSE s[i]]
  BY DEF ToFront, at
<1> HIDE DEF new
<1>4. new \in Seq(K) /\ Len(new) = Len(s)
  <2>1. \A i \in 1..Len(s) : new[i] \in K
    BY <1>1, <1>2, <1>3
  <2>2. new \in [1..Len(s) -> K]
    BY <1>3, <2>1
  <2>3. QED
    BY <1>1, <2>2
<1>5. new[1] = k
  BY <1>1, <1>2, <1>3
\* Where the element at i comes from, and where it goes.
<1> DEFINE From(i) == IF i = 1 THEN at ELSE IF i <= at THEN i - 1 ELSE i
           To(i)   == IF i = at THEN 1 ELSE IF i < at THEN i + 1 ELSE i
<1>6. \A i \in 1..Len(s) :
        /\ From(i) \in 1..Len(s) /\ To(i) \in 1..Len(s)
        /\ To(From(i)) = i /\ From(To(i)) = i
        /\ new[i] = s[From(i)]
  BY <1>1, <1>2, <1>3
<1>7. \A i, j \in 1..Len(s) \ {at} : i < j <=> To(i) < To(j)
  BY <1>1, <1>2
<1>8. \A i \in 1..Len(s) : new[To(i)] = s[i]
  BY <1>6
<1> HIDE DEF From, To
<1>9. Range(new) = Range(s)
  <2>1. DOMAIN new = 1..Len(s)
    BY <1>3
  <2>2. ASSUME NEW x \in Range(new) PROVE x \in Range(s)
    <3>1. PICK i \in 1..Len(s) : x = new[i]
      BY <2>1 DEF Range
    <3>2. x = s[From(i)] /\ From(i) \in DOMAIN s
      BY <1>1, <1>6, <3>1
    <3>3. QED
      BY <3>2 DEF Range
  <2>3. ASSUME NEW x \in Range(s) PROVE x \in Range(new)
    <3>1. PICK i \in 1..Len(s) : x = s[i]
      BY <1>1 DEF Range
    <3>2. x = new[To(i)] /\ To(i) \in DOMAIN new
      BY <1>6, <1>8, <2>1, <3>1
    <3>3. QED
      BY <3>2 DEF Range
  <2>4. QED
    BY <2>2, <2>3
<1>10. Once(new)
  <2>1. SUFFICES ASSUME NEW i \in 1..Len(s), NEW j \in 1..Len(s), new[i] = new[j]
                 PROVE  i = j
    BY <1>4 DEF Once
  <2>2. s[From(i)] = s[From(j)]
    BY <2>1, <1>6
  <2>3. From(i) = From(j)
    BY <2>2, <1>6 DEF Once
  <2>4. QED
    BY <2>3, <1>6
<1>11. ASSUME NEW x \in Range(s) \ {k}, NEW y \in Range(s) \ {k}
       PROVE  Before(s, x, y) <=> Before(new, x, y)
  <2>1. ASSUME Before(s, x, y) PROVE Before(new, x, y)
    <3>1. PICK i \in 1..Len(s), j \in 1..Len(s) : i < j /\ s[i] = x /\ s[j] = y
      BY <2>1 DEF Before
    <3>2. i # at /\ j # at
      BY <3>1, <1>2
    <3>3. To(i) < To(j) /\ new[To(i)] = x /\ new[To(j)] = y
      BY <3>1, <3>2, <1>7, <1>8
    <3>4. To(i) \in 1..Len(new) /\ To(j) \in 1..Len(new)
      BY <1>4, <1>6
    <3>5. QED
      BY <3>3, <3>4 DEF Before
  <2>2. ASSUME Before(new, x, y) PROVE Before(s, x, y)
    <3>1. PICK i \in 1..Len(s), j \in 1..Len(s) : i < j /\ new[i] = x /\ new[j] = y
      BY <2>2, <1>4 DEF Before
    <3>2. s[From(i)] = x /\ s[From(j)] = y /\ To(From(i)) < To(From(j))
      BY <3>1, <1>6
    <3>3. From(i) # at /\ From(j) # at
      BY <3>2, <1>2
    <3>4. From(i) < From(j) /\ From(i) \in 1..Len(s) /\ From(j) \in 1..Len(s)
      BY <3>2, <3>3, <1>6, <1>7
    <3>5. QED
      BY <3>2, <3>4 DEF Before
  <2>3. QED
    BY <2>1, <2>2
<1>12. QED
  BY <1>4, <1>5, <1>9, <1>10, <1>11 DEF new

-----------------------------------------------------------------------------
(* How the cache d that an operation leaves follows from the cache c before. *)

\* The keys in used are in front; the others stand as they stood.
UsesFirst(c, d, used) == \A x, y :
  Before(d.order, x, y) => y \notin used /\ (x \in used \/ Before(c.order, x, y))

\* What is lost was older than what stays, and no more is lost than the limit asks for.
LosesOldest(c, d) ==
  (Keys(c) \ Keys(d)) # {} /\ Keys(d) # {} =>
    /\ \A j \in Keys(c) \cap Keys(d), k \in Keys(c) \ Keys(d) : Before(c.order, j, k)
    /\ Len(d.order) = d.limit

\* A key never changes its value.
SameValues(c, d) == \A k \in Keys(c) \cap Keys(d) : d.entries[k] = c.entries[k]

LEMMA LruParts ==
  ASSUME NEW K, NEW V, NEW c \in Lrus(K, V)
  PROVE  /\ c.order \in Seq(K) /\ c.limit \in Nat
         /\ Keys(c) \in SUBSET K /\ c.entries \in [Keys(c) -> V]
         /\ \A order \in Seq(K) : [c EXCEPT !.order = order] \in Lrus(K, V)
<1>1. PICK D \in SUBSET K : c.entries \in [D -> V]
  BY DEF Lrus
<1>2. QED
  BY <1>1 DEF Lrus, Keys

LEMMA EmptyFacts ==
  ASSUME NEW K, NEW V, NEW n \in Nat
  PROVE  LET d == EmptyLru(n) IN
         d \in Lrus(K, V) /\ Keys(d) = {} /\ Agrees(d) /\ WithinLimit(d) /\ Len(d.order) = 0
<1> DEFINE none == << >>
<1>1. none \in Seq(K) /\ Len(none) = 0 /\ DOMAIN none = {}
  BY EmptySeq
<1>2. none \in [{} -> V]
  BY <1>1
<1>3. none \in UNION {[D -> V] : D \in SUBSET K}
  BY <1>2
<1>4. EmptyLru(n) \in Lrus(K, V)
  BY <1>1, <1>3 DEF EmptyLru, Lrus
<1>5. Range(none) = {}
  BY <1>1 DEF Range
<1>6. QED
  BY <1>1, <1>4, <1>5 DEF EmptyLru, Keys, Agrees, WithinLimit

LEMMA FindFacts ==
  ASSUME NEW K, NEW V, NEW c \in Lrus(K, V), Agrees(c), WithinLimit(c), NEW k, Has(c, k)
  PROVE  LET d == Find(c, k) IN
         /\ d \in Lrus(K, V) /\ Agrees(d) /\ WithinLimit(d)
         /\ d.entries = c.entries
         /\ UsesFirst(c, d, {k})
<1> DEFINE d   == Find(c, k)
           new == ToFront(c.order, k)
<1>1. c.order \in Seq(K) /\ Once(c.order) /\ k \in Range(c.order)
  BY LruParts DEF Agrees, Has, Once
<1>2. /\ new \in Seq(K) /\ Len(new) = Len(c.order) /\ Range(new) = Range(c.order)
      /\ Once(new) /\ new[1] = k
      /\ \A x, y \in Range(c.order) \ {k} : Before(c.order, x, y) <=> Before(new, x, y)
  BY <1>1, ToFrontFacts
<1>3. d = [c EXCEPT !.order = new]
  BY DEF Find
<1>4. d \in Lrus(K, V)
  BY <1>2, <1>3, LruParts
<1>5. d.order = new /\ d.entries = c.entries /\ d.limit = c.limit
  BY <1>3 DEF Lrus
<1> HIDE DEF d, new
<1>6. Agrees(d) /\ WithinLimit(d)
  BY <1>2, <1>5 DEF Agrees, WithinLimit, Keys, Once
<1>7. ASSUME NEW x, NEW y, Before(new, x, y)
      PROVE  y # k /\ (x = k \/ Before(c.order, x, y))
  <2>1. PICK i, j \in 1..Len(new) : i < j /\ new[i] = x /\ new[j] = y
    BY <1>7 DEF Before
  <2>2. y # k
    BY <1>2, <2>1 DEF Once
  <2>3. x \in Range(new) /\ y \in Range(new)
    BY <1>2, <2>1 DEF Range
  <2>4. QED
    BY <1>2, <1>7, <2>2, <2>3
<1>8. UsesFirst(c, d, {k})
  BY <1>5, <1>7 DEF UsesFirst
<1>9. QED
  BY <1>4, <1>5, <1>6, <1>8 DEF d

LEMMA EvictFacts ==
  ASSUME NEW K, NEW V, NEW c \in Lrus(K, V), Agrees(c)
  PROVE  LET d == Evict(c) IN
         /\ d \in Lrus(K, V) /\ Agrees(d) /\ WithinLimit(d)
         /\ d.limit = c.limit /\ Prefix(d.order, c.order)
         /\ Keys(d) \subseteq Keys(c) /\ SameValues(c, d)
         /\ Len(c.order) > 0 => Len(d.order) > 0
         /\ LosesOldest(c, d)
<1> DEFINE d == Evict(c)
<1>1. /\ c.order \in Seq(K) /\ Len(c.order) \in Nat /\ c.limit \in Nat
      /\ DOMAIN c.order = 1..Len(c.order)
      /\ Keys(c) \in SUBSET K /\ c.entries \in [Keys(c) -> V]
  BY LruParts
<1>2. Once(c.order) /\ Range(c.order) = Keys(c)
  BY DEF Agrees, Once
<1>3. CASE c.limit = 0 \/ Len(c.order) <= c.limit
  <2>1. d = c
    BY <1>3 DEF Evict
  <2>2. QED
    BY <1>1, <1>3, <2>1 DEF WithinLimit, Prefix, SameValues, LosesOldest
<1>4. CASE ~(c.limit = 0 \/ Len(c.order) <= c.limit)
  <2> DEFINE kept == SubSeq(c.order, 1, c.limit)
  <2>1. c.limit \in 1..Len(c.order) /\ c.limit < Len(c.order)
    BY <1>1, <1>4
  <2>2. kept \in Seq(K) /\ Len(kept) = c.limit /\ \A i \in 1..c.limit : kept[i] = c.order[i]
    BY <1>1, <2>1, SubSeqProperties
  <2>3. DOMAIN kept = 1..c.limit
    BY <2>2
  <2>4. d = [c EXCEPT !.order = kept, !.entries = Restrict(c.entries, Range(kept))]
    BY <1>4 DEF Evict
  <2> HIDE DEF kept, d
  <2>5. Range(kept) \subseteq Keys(c)
    BY <1>1, <1>2, <2>1, <2>2, <2>3 DEF Range
  <2>6. /\ Restrict(c.entries, Range(kept)) \in [Range(kept) -> V]
        /\ \A k \in Range(kept) : Restrict(c.entries, Range(kept))[k] = c.entries[k]
    BY <1>1, <2>5 DEF Restrict
  <2>7. d.order = kept /\ d.limit = c.limit /\ d.entries = Restrict(c.entries, Range(kept))
    BY <2>4 DEF Lrus
  <2>8. Range(kept) \in SUBSET K
    BY <1>1, <2>5
  <2>9. Restrict(c.entries, Range(kept)) \in UNION {[D -> V] : D \in SUBSET K}
    BY <2>6, <2>8
  <2>10. d \in Lrus(K, V)
    BY <1>1, <2>2, <2>4, <2>9 DEF Lrus
  <2>11. Keys(d) = Range(kept)
    BY <2>6, <2>7 DEF Keys
  <2>12. Agrees(d) /\ WithinLimit(d)
    <3>1. \A i, j \in 1..Len(kept) : kept[i] = kept[j] => i = j
      BY <1>1, <1>2, <2>1, <2>2 DEF Once
    <3>2. QED
      BY <2>2, <2>7, <2>11, <3>1 DEF Agrees, WithinLimit
  <2>13. Prefix(d.order, c.order) /\ Keys(d) \subseteq Keys(c) /\ SameValues(c, d)
    BY <2>1, <2>2, <2>5, <2>6, <2>7, <2>11 DEF Prefix, SameValues
  <2>14. LosesOldest(c, d)
    <3>1. ASSUME NEW j \in Keys(c) \cap Keys(d), NEW k \in Keys(c) \ Keys(d)
          PROVE  Before(c.order, j, k)
      <4>1. PICK m \in 1..c.limit : c.order[m] = j
        BY <2>2, <2>3, <2>11 DEF Range
      <4>2. PICK n \in 1..Len(c.order) : c.order[n] = k
        BY <1>1, <1>2 DEF Range
      <4>3. n \notin 1..c.limit
        BY <2>2, <2>3, <2>11, <4>2 DEF Range
      <4>4. m < n /\ m \in 1..Len(c.order)
        BY <1>1, <2>1, <4>1, <4>2, <4>3
      <4>5. QED
        BY <4>1, <4>2, <4>4 DEF Before
    <3>2. QED
      BY <2>2, <2>7, <3>1 DEF LosesOldest
  <2>15. QED
    BY <2>1, <2>2, <2>7, <2>10, <2>12, <2>13, <2>14 DEF d
<1>5. QED
  BY <1>3, <1>4

LEMMA PrefixKeepsOrder ==
  ASSUME NEW K, NEW s \in Seq(K), NEW new \in Seq(K), Prefix(new, s), NEW x, NEW y,
         Before(new, x, y)
  PROVE  Before(s, x, y)
<1>1. PICK i, j \in 1..Len(new) : i < j /\ new[i] = x /\ new[j] = y
  BY DEF Before
<1>2. s[i] = x /\ s[j] = y /\ i \in 1..Len(s) /\ j \in 1..Len(s)
  BY <1>1 DEF Prefix
<1>3. QED
  BY <1>1, <1>2 DEF Before

\* A cache to which k was added, before anything is evicted.
LEMMA AddedFacts ==
  ASSUME NEW K, NEW V, NEW c \in Lrus(K, V), Agrees(c),
         NEW k \in K, NEW v \in V, ~Has(c, k)
  PROVE  LET e == Added(c, k, v) IN
         /\ e \in Lrus(K, V) /\ Agrees(e) /\ e.limit = c.limit
         /\ Len(e.order) = Len(c.order) + 1 /\ e.order[1] = k
         /\ Keys(e) = Keys(c) \cup {k} /\ SameValues(c, e) /\ e.entries[k] = v
         /\ UsesFirst(c, e, {k})
<1> DEFINE order   == <<k>> \o c.order
           entries == With(c.entries, k, v)
           e == Added(c, k, v)
<1>1. /\ c.order \in Seq(K) /\ Len(c.order) \in Nat /\ DOMAIN c.order = 1..Len(c.order)
      /\ Keys(c) \in SUBSET K /\ c.entries \in [Keys(c) -> V]
  BY LruParts
<1>2. Once(c.order) /\ Range(c.order) = Keys(c) /\ k \notin Keys(c)
  BY DEF Agrees, Once, Has
<1>3. /\ order \in Seq(K) /\ Len(order) = Len(c.order) + 1
      /\ order[1] = k /\ \A i \in 1..Len(c.order) : order[i + 1] = c.order[i]
  <2>1. <<k>> \in Seq(K) /\ Len(<<k>>) = 1 /\ <<k>>[1] = k
    OBVIOUS
  <2>2. QED
    BY <1>1, <2>1, ConcatProperties
<1>4. /\ DOMAIN entries = Keys(c) \cup {k}
      /\ entries[k] = v /\ \A j \in Keys(c) : entries[j] = c.entries[j]
  <2>1. DOMAIN c.entries = Keys(c)
    BY DEF Keys
  <2>2. QED
    BY <1>2, <2>1 DEF With
<1>5. entries \in [Keys(c) \cup {k} -> V]
  <2>1. entries = [j \in Keys(c) \cup {k} |-> entries[j]]
    BY <1>4 DEF With
  <2>2. \A j \in Keys(c) \cup {k} : entries[j] \in V
    BY <1>1, <1>4
  <2> HIDE DEF entries
  <2>3. QED
    BY <2>1, <2>2
<1> HIDE DEF order, entries
<1>6. entries \in UNION {[D -> V] : D \in SUBSET K}
  <2>1. Keys(c) \cup {k} \in SUBSET K
    BY <1>1
  <2>2. QED
    BY <1>5, <2>1
<1>7. e \in Lrus(K, V) /\ e.order = order /\ e.entries = entries /\ e.limit = c.limit
  <2>1. e = [c EXCEPT !.order = order, !.entries = entries]
    BY DEF Added, order, entries
  <2>2. QED
    BY <1>3, <1>6, <2>1 DEF Lrus
<1> HIDE DEF e
<1>8. Keys(e) = Keys(c) \cup {k}
  BY <1>4, <1>7 DEF Keys
<1>9. DOMAIN order = 1..(Len(c.order) + 1)
  BY <1>3
<1>10. \A i \in 1..Len(order) : i # 1 => i - 1 \in 1..Len(c.order) /\ order[i] = c.order[i - 1]
  BY <1>1, <1>3
<1>11. Range(order) = Keys(c) \cup {k}
  <2>1. ASSUME NEW x \in Range(order) PROVE x \in Keys(c) \cup {k}
    <3>1. PICK i \in 1..Len(order) : order[i] = x
      BY <1>3, <1>9 DEF Range
    <3>2. CASE i = 1
      BY <1>3, <3>1, <3>2
    <3>3. CASE i # 1
      BY <1>1, <1>2, <1>10, <3>1, <3>3 DEF Range
    <3>4. QED
      BY <3>2, <3>3
  <2>2. k \in Range(order)
    <3>1. 1 \in DOMAIN order
      BY <1>1, <1>9
    <3>2. QED
      BY <1>3, <3>1 DEF Range
  <2>3. ASSUME NEW x \in Keys(c) PROVE x \in Range(order)
    <3>1. PICK i \in 1..Len(c.order) : c.order[i] = x
      BY <1>1, <1>2 DEF Range
    <3>2. order[i + 1] = x /\ i + 1 \in DOMAIN order
      BY <1>1, <1>3, <1>9, <3>1
    <3>3. QED
      BY <3>2 DEF Range
  <2>4. QED
    BY <2>1, <2>2, <2>3
<1>12. \A i \in 1..Len(order) : order[i] = k => i = 1
  BY <1>1, <1>2, <1>10 DEF Range
<1>13. \A i, j \in 1..Len(order) : order[i] = order[j] => i = j
  <2>1. SUFFICES ASSUME NEW i \in 1..Len(order), NEW j \in 1..Len(order), order[i] = order[j]
                 PROVE  i = j
    OBVIOUS
  <2>2. CASE i = 1 \/ j = 1
    BY <1>3, <1>12, <2>1, <2>2
  <2>3. CASE i # 1 /\ j # 1
    <3>1. /\ i - 1 \in 1..Len(c.order) /\ j - 1 \in 1..Len(c.order)
          /\ c.order[i - 1] = c.order[j - 1]
      BY <1>10, <2>1, <2>3
    <3>2. i - 1 = j - 1
      BY <1>2, <3>1 DEF Once
    <3>3. QED
      BY <3>2
  <2>4. QED
    BY <2>2, <2>3
<1>14. Agrees(e)
  BY <1>7, <1>8, <1>11, <1>13 DEF Agrees
<1>15. UsesFirst(c, e, {k})
  <2>1. SUFFICES ASSUME NEW x, NEW y, Before(order, x, y)
                 PROVE  y # k /\ (x = k \/ Before(c.order, x, y))
    BY <1>7 DEF UsesFirst
  <2>2. PICK i, j \in 1..Len(order) : i < j /\ order[i] = x /\ order[j] = y
    BY <2>1 DEF Before
  <2>3. y # k
    BY <1>12, <2>2
  <2>4. CASE i = 1
    BY <1>3, <2>2, <2>3, <2>4
  <2>5. CASE i # 1
    <3>1. i - 1 < j - 1 /\ j # 1
      BY <2>2, <2>5
    <3>2. QED
      BY <1>10, <2>2, <2>3, <2>5, <3>1 DEF Before
  <2>6. QED
    BY <2>4, <2>5
<1>16. SameValues(c, e) /\ e.entries[k] = v
  BY <1>4, <1>7, <1>8 DEF SameValues
<1>17. QED
  BY <1>3, <1>7, <1>8, <1>14, <1>15, <1>16 DEF e, order, entries

LEMMA InsertFacts ==
  ASSUME NEW K, NEW V, NEW c \in Lrus(K, V), Agrees(c), WithinLimit(c),
         NEW k \in K, NEW v \in V
  PROVE  LET d == Insert(c, k, v) IN
         /\ d \in Lrus(K, V) /\ Agrees(d) /\ WithinLimit(d)
         /\ Has(d, k) /\ Keys(d) \subseteq Keys(c) \cup {k} /\ SameValues(c, d)
         /\ Has(c, k) => d.entries = c.entries
         /\ ~Has(c, k) => d.entries[k] = v
         /\ UsesFirst(c, d, {k}) /\ LosesOldest(c, d)
<1> DEFINE d == Insert(c, k, v)
<1>1. CASE Has(c, k)
  <2>1. d = Find(c, k)
    BY <1>1 DEF Insert
  <2>2. d \in Lrus(K, V) /\ Agrees(d) /\ WithinLimit(d) /\ d.entries = c.entries
        /\ UsesFirst(c, d, {k})
    BY <1>1, <2>1, FindFacts
  <2> HIDE DEF d
  <2>3. Keys(d) = Keys(c) /\ Has(d, k)
    BY <1>1, <2>2 DEF Keys, Has
  <2>4. SameValues(c, d) /\ LosesOldest(c, d)
    BY <2>2, <2>3 DEF SameValues, LosesOldest
  <2>5. QED
    BY <1>1, <2>2, <2>3, <2>4 DEF d
<1>2. CASE ~Has(c, k)
  <2> DEFINE e == Added(c, k, v)
  <2>1. d = Evict(e)
    BY <1>2 DEF Insert
  <2>2. /\ e \in Lrus(K, V) /\ Agrees(e) /\ e.limit = c.limit
        /\ Len(e.order) = Len(c.order) + 1 /\ e.order[1] = k
        /\ Keys(e) = Keys(c) \cup {k} /\ SameValues(c, e) /\ e.entries[k] = v
        /\ UsesFirst(c, e, {k})
    <3>1. ~Has(c, k)
      BY <1>2
    <3>2. QED
      BY <3>1, AddedFacts
  <2> HIDE DEF e
  <2>3. /\ d \in Lrus(K, V) /\ Agrees(d) /\ WithinLimit(d) /\ Prefix(d.order, e.order)
        /\ Keys(d) \subseteq Keys(e) /\ SameValues(e, d)
        /\ Len(e.order) > 0 => Len(d.order) > 0
        /\ LosesOldest(e, d)
    BY <2>1, <2>2, EvictFacts
  <2> HIDE DEF d
  <2>4. /\ Len(c.order) \in Nat /\ d.order \in Seq(K) /\ e.order \in Seq(K)
        /\ Len(d.order) \in Nat /\ DOMAIN d.order = 1..Len(d.order)
    BY <2>2, <2>3, LruParts
  <2>5. Has(d, k)
    <3>1. Len(d.order) > 0
      BY <2>2, <2>3, <2>4
    <3>2. d.order[1] = k /\ 1 \in DOMAIN d.order
      BY <2>2, <2>3, <2>4, <3>1 DEF Prefix
    <3>3. QED
      BY <2>3, <3>2 DEF Agrees, Has, Range
  <2>6. SameValues(c, d) /\ d.entries[k] = v
    BY <2>2, <2>3, <2>5 DEF SameValues, Has
  <2>7. UsesFirst(c, d, {k})
    BY <2>2, <2>3, <2>4, PrefixKeepsOrder DEF UsesFirst
  <2>8. LosesOldest(c, d)
    <3>1. SUFFICES ASSUME NEW j \in Keys(c) \cap Keys(d), NEW l \in Keys(c) \ Keys(d)
                   PROVE  Before(c.order, j, l) /\ Len(d.order) = d.limit
      <4>1. (Keys(c) \ Keys(d)) # {} /\ Keys(d) # {} => Len(d.order) = d.limit
        BY <2>2, <2>3 DEF LosesOldest
      <4>2. QED
        BY <4>1 DEF LosesOldest
    <3>2. Before(e.order, j, l) /\ Len(d.order) = d.limit
      BY <2>2, <2>3, <3>1 DEF LosesOldest
    <3>3. j # k
      BY <1>2, <3>1 DEF Has
    <3>4. QED
      BY <2>2, <3>2, <3>3 DEF UsesFirst
  <2>9. QED
    BY <1>2, <2>2, <2>3, <2>5, <2>6, <2>7, <2>8 DEF d
<1>3. QED
  BY <1>1, <1>2

LEMMA SetLimitFacts ==
  ASSUME NEW K, NEW V, NEW c \in Lrus(K, V), Agrees(c), NEW n \in Nat
  PROVE  LET d == SetLimit(c, n) IN
         /\ d \in Lrus(K, V) /\ Agrees(d) /\ WithinLimit(d)
         /\ Keys(d) \subseteq Keys(c) /\ SameValues(c, d)
         /\ UsesFirst(c, d, {}) /\ LosesOldest(c, d)
<1> DEFINE e == [c EXCEPT !.limit = n]
           d == SetLimit(c, n)
<1>1. e \in Lrus(K, V) /\ e.order = c.order /\ e.entries = c.entries /\ e.limit = n
  BY DEF Lrus
<1>2. d = Evict(e)
  BY DEF SetLimit
<1> HIDE DEF e
<1>3. Keys(e) = Keys(c) /\ Agrees(e)
  BY <1>1 DEF Keys, Agrees
<1>4. /\ d \in Lrus(K, V) /\ Agrees(d) /\ WithinLimit(d) /\ Prefix(d.order, e.order)
      /\ Keys(d) \subseteq Keys(e) /\ SameValues(e, d) /\ LosesOldest(e, d)
  BY <1>1, <1>2, <1>3, EvictFacts
<1> HIDE DEF d
<1>5. SameValues(c, d) /\ LosesOldest(c, d)
  BY <1>1, <1>3, <1>4 DEF SameValues, LosesOldest
<1>6. UsesFirst(c, d, {})
  <2>1. c.order \in Seq(K) /\ d.order \in Seq(K)
    BY <1>4, LruParts
  <2>2. QED
    BY <1>1, <1>4, <2>1, PrefixKeepsOrder DEF UsesFirst
<1>7. QED
  BY <1>3, <1>4, <1>5, <1>6 DEF d

LEMMA ClearFacts ==
  ASSUME NEW K, NEW V, NEW c \in Lrus(K, V)
  PROVE  LET d == Clear(c) IN
         /\ d \in Lrus(K, V) /\ Keys(d) = {} /\ Agrees(d) /\ WithinLimit(d)
         /\ UsesFirst(c, d, {})
<1> DEFINE d == Clear(c)
<1>1. c.limit \in Nat
  BY LruParts
<1>2. d = EmptyLru(c.limit)
  BY DEF Clear
<1>3. d \in Lrus(K, V) /\ Keys(d) = {} /\ Agrees(d) /\ WithinLimit(d) /\ Len(d.order) = 0
  BY <1>1, <1>2, EmptyFacts
<1> HIDE DEF d
<1>4. UsesFirst(c, d, {})
  BY <1>3 DEF UsesFirst, Before
<1>5. QED
  BY <1>3, <1>4 DEF d
=============================================================================
