----------------------------- MODULE SharedCache -----------------------------
(***************************************************************************)
(* What callers may rely on from a cache shared by threads: a request for  *)
(* a key is answered, at one instant, with the value cached for that key,  *)
(* or with a new one for it that is cached from then on.  Which values     *)
(* leave the cache is left open.                                           *)
(***************************************************************************)
CONSTANTS
  Ids,          \* what a request asks for: a key, and the cache it is looked up in
  Values,       \* values that can be built
  KeyOf(_)      \* the key a value was built for

VARIABLES
  cached,       \* values in the cache
  answered      \* keys that were asked for, each with the value it was answered with

specVars == <<cached, answered>>

SpecInit == cached = {} /\ answered = {}

\* A request for k is answered with v, which was built for it.
AnswerWith(k, v) ==
  /\ KeyOf(v) = k
  /\ answered' = answered \cup {<<k, v>>}

HitFor(k) == \E v \in cached :
  /\ AnswerWith(k, v)
  /\ UNCHANGED cached

\* A value is cached when it is first given out; others may make room for it.
FillFor(k) == \E v \in Values \ (cached \cup {p[2] : p \in answered}) :
  /\ \A w \in cached : KeyOf(w) # k
  /\ AnswerWith(k, v)
  /\ cached' \subseteq cached \cup {v}
  /\ v \in cached'

Hit  == \E k \in Ids : HitFor(k)
Fill == \E k \in Ids : FillFor(k)

Shrink ==
  /\ cached' \subseteq cached
  /\ UNCHANGED answered

SpecNext == Hit \/ Fill \/ Shrink

AbstractSpec == SpecInit /\ [][SpecNext]_specVars
=============================================================================
