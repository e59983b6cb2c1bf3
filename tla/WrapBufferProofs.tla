--------------------------- MODULE WrapBufferProofs ---------------------------
(***************************************************************************)
(* mr_wrap_buffer, for every width of size_t, page size and memory map:    *)
(* the four comparisons of Overflows refuse exactly what does not fit, the *)
(* GPU stays inside what the caller gave it, and a copy cannot be told     *)
(* from the caller's own pages.                                            *)
(*                                                                         *)
(* IInv adds where a buffer lies in relation to the caller's range         *)
(* (Placed) and where each byte is that a kernel was launched on           *)
(* (Accounted).                                                            *)
(***************************************************************************)
EXTENDS WrapBuffer, TLAPS

\* The caller's bytes that the private copy knows to be written, and those that
\* launches have yet to write.
InCopy == {ptr + i : i \in copy}
Coming == {buf.base + bound : bound \in pending}

Types ==
  /\ vm \in Maps
  /\ ptr \in Address /\ size \in Address
  /\ mem \subseteq Int /\ copy \subseteq Int /\ pending \subseteq Int /\ intended \subseteq Int
  /\ flushed \in BOOLEAN

\* The Metal buffer is a copy of the caller's range, or the pages around it.
Placed == buf # None =>
  /\ buf.base \in Int /\ buf.length \in Nat /\ buf.offset \in Address /\ buf.owns \in BOOLEAN
  /\ buf.base + buf.offset = ptr
  /\ buf.owns  => buf.offset = 0 /\ buf.length = size
  /\ ~buf.owns =>
       /\ size > 0 /\ ~Overflows(ptr, size)
       /\ buf.base = PageStart(ptr) /\ buf.length = WrappedLength(ptr, size)
       /\ InOneRegion(PageStart(ptr), WrappedLength(ptr, size), {"rw"})

\* Launches end before the buffer does, and each writes a byte of the caller's range.
Contained ==
  /\ buf = None => pending = {}
  /\ \A bound \in pending : buf.base + bound \in Range(ptr, size)

\* What kernels were launched on is in the caller's memory, in the copy, or yet to be
\* written; the copy knows all that the caller's range did.
Accounted ==
  /\ mem \subseteq intended
  /\ buf # None /\ ~buf.owns => intended = mem \cup Coming
  /\ buf # None /\ buf.owns =>
       /\ intended = mem \cup InCopy \cup Coming
       /\ mem \cap Range(ptr, size) \subseteq InCopy
       /\ flushed => InCopy \subseteq mem

IInv == Types /\ RefusesOverflow /\ Placed /\ Contained /\ Accounted

-----------------------------------------------------------------------------
(* Pages *)

LEMMA Constants == WordMax \in Nat /\ PageSize \in Nat /\ PageSize > 0 /\ Address \subseteq Nat
  BY PageAssumption DEF Address

LEMMA Division ==
  ASSUME NEW n \in Int
  PROVE  /\ n \div PageSize \in Int /\ n % PageSize \in 0..(PageSize - 1)
         /\ n = (n \div PageSize) * PageSize + (n % PageSize)
  BY Constants

LEMMA Multiple ==
  ASSUME NEW c \in Int
  PROVE  c * PageSize \in Int /\ (c * PageSize) % PageSize = 0
  BY Constants

\* Multiples of the page size are at least a page apart.
LEMMA PageApart ==
  ASSUME NEW c \in Int, NEW d \in Int, c * PageSize < d * PageSize
  PROVE  c * PageSize + PageSize <= d * PageSize
<1>1. c < d
  BY Constants
<1>2. QED
  BY <1>1, Constants

\* The pages of an address end where the address space does, or before.
LEMMA Top == \E k \in Int : WordMax + 1 = k * PageSize
<1>1. WordMax = (WordMax \div PageSize) * PageSize + (PageSize - 1) /\ WordMax \div PageSize \in Int
  BY Division, PageAssumption, Constants
<1>2. WordMax + 1 = (WordMax \div PageSize + 1) * PageSize
  BY <1>1, Constants
<1>3. QED
  BY <1>1, <1>2

LEMMA PageFacts ==
  ASSUME NEW p \in Address
  PROVE  /\ Offset(p) \in 0..(PageSize - 1) /\ Offset(p) <= p /\ Offset(p) \in Address
         /\ PageStart(p) \in Nat /\ PageStart(p) + Offset(p) = p
         /\ PageStart(p) = (p \div PageSize) * PageSize /\ p \div PageSize \in Int
<1>1. p \in Nat /\ p <= WordMax
  BY PageAssumption DEF Address
<1>2. /\ p \div PageSize \in Int /\ p % PageSize \in 0..(PageSize - 1)
      /\ p = (p \div PageSize) * PageSize + (p % PageSize)
  BY <1>1, Division
<1>3. p % PageSize <= p
  BY <1>1, <1>2, Constants
<1>4. QED
  BY <1>1, <1>2, <1>3, Constants DEF Offset, PageStart, Address

\* The length is rounded up to pages, if the sum does not wrap.
LEMMA LengthFacts ==
  ASSUME NEW p \in Address, NEW n \in Address, Offset(p) + n <= WordMax - (PageSize - 1)
  PROVE  /\ WrappedLength(p, n) \in Nat
         /\ \E q \in Int : WrappedLength(p, n) = q * PageSize
         /\ Offset(p) + n <= WrappedLength(p, n) /\ WrappedLength(p, n) < Offset(p) + n + PageSize
<1> DEFINE sum == Offset(p) + n + PageSize - 1
<1>0. Offset(p) \in Nat /\ n \in Nat
  BY PageFacts, Constants
<1>1. sum \in 0..WordMax
  BY <1>0, Constants
<1>2. Word(sum) = sum
  BY <1>1, Constants DEF Word
<1>3. WrappedLength(p, n) = (sum \div PageSize) * PageSize
  BY <1>2 DEF WrappedLength
<1>4. /\ sum \div PageSize \in Int /\ sum % PageSize \in 0..(PageSize - 1)
      /\ sum = (sum \div PageSize) * PageSize + (sum % PageSize)
  BY <1>1, Division
<1> HIDE DEF sum
<1>5. PICK q \in Int : q = sum \div PageSize /\ WrappedLength(p, n) = q * PageSize
  BY <1>3, <1>4
<1>6. PICK length \in Int, rest \in 0..(PageSize - 1) : length = q * PageSize /\ sum = length + rest
  BY <1>4, <1>5, Constants
<1>7. sum = Offset(p) + n + PageSize - 1
  BY DEF sum
<1>8. Offset(p) + n <= length /\ length < Offset(p) + n + PageSize
  BY <1>0, <1>6, <1>7, Constants
<1>9. QED
  BY <1>0, <1>5, <1>6, <1>8

\* The first page boundary at or after the end of the range.
LEMMA RoundedEndFacts ==
  ASSUME NEW p \in Nat, NEW n \in Nat
  PROVE  /\ \E c \in Int : RoundedEnd(p, n) = c * PageSize
         /\ p + n <= RoundedEnd(p, n) /\ RoundedEnd(p, n) < p + n + PageSize
<1> DEFINE end == p + n + PageSize - 1
<1>1. /\ end \div PageSize \in Int /\ end % PageSize \in 0..(PageSize - 1)
      /\ end = (end \div PageSize) * PageSize + (end % PageSize)
  BY Division, Constants
<1>2. PICK c \in Int : c = end \div PageSize
  BY <1>1
<1>3. PICK e \in Int : e = c * PageSize
  BY Constants
<1>4. p + n <= e /\ e < p + n + PageSize
  BY <1>1, <1>2, <1>3, Constants
<1>5. e % PageSize = 0
  BY <1>3, Multiple
<1>6. e \in (p + n)..(p + n + PageSize) /\ e % PageSize = 0 /\ e < p + n + PageSize
  BY <1>4, <1>5, Constants
<1>7. PICK r \in (p + n)..(p + n + PageSize) :
        r = RoundedEnd(p, n) /\ r % PageSize = 0 /\ r < p + n + PageSize
  BY <1>6 DEF RoundedEnd
<1>8. r = (r \div PageSize) * PageSize /\ r \div PageSize \in Int
  BY <1>7, Division, Constants
<1>9. \E d \in Int : RoundedEnd(p, n) = d * PageSize
  BY <1>7, <1>8
<1>10. QED
  BY <1>7, <1>9, Constants

\* The comparisons find exactly the ranges whose pages do not fit below the top.
LEMMA OverflowsIff ==
  ASSUME NEW p \in Address, NEW n \in Address
  PROVE  Overflows(p, n) <=> RoundedEnd(p, n) > WordMax
<1>1. p \in Nat /\ n \in Nat /\ p <= WordMax /\ n <= WordMax
  BY PageAssumption DEF Address
<1>2. PICK c \in Int : /\ RoundedEnd(p, n) = c * PageSize
                       /\ p + n <= c * PageSize /\ c * PageSize < p + n + PageSize
  BY <1>1, RoundedEndFacts
<1>3. c * PageSize \in Int
  BY Constants
<1>4. CASE Offset(p) + n > WordMax - (PageSize - 1)
  <2>1. PICK k \in Int : WordMax + 1 = k * PageSize
    BY Top
  <2>2. ASSUME c * PageSize <= WordMax PROVE FALSE
    <3>1. c * PageSize < k * PageSize
      BY <2>1, <2>2, <1>3, Constants
    <3>2. c * PageSize + PageSize <= k * PageSize
      BY <3>1, PageApart
    <3>3. p + n <= WordMax + 1 - PageSize
      BY <3>2, <2>1, <1>1, <1>2, <1>3, Constants
    <3>4. QED
      BY <3>3, <1>1, <1>4, PageFacts, Constants
  <2>3. Overflows(p, n)
    BY <1>4 DEF Overflows
  <2>4. QED
    BY <1>2, <1>3, <2>2, <2>3, Constants
<1>5. CASE Offset(p) + n <= WordMax - (PageSize - 1)
  <2>1. PICK q \in Int : /\ WrappedLength(p, n) = q * PageSize /\ WrappedLength(p, n) \in Nat
                         /\ Offset(p) + n <= WrappedLength(p, n)
                         /\ WrappedLength(p, n) < Offset(p) + n + PageSize
    BY <1>5, LengthFacts
  <2>2. PICK a \in Int : PageStart(p) = a * PageSize
    BY PageFacts
  <2>3. /\ PageStart(p) \in Nat /\ Offset(p) \in Nat /\ PageStart(p) + Offset(p) = p
    BY PageFacts
  <2>4. PICK e \in Int : e = PageStart(p) + WrappedLength(p, n) /\ e = (a + q) * PageSize
    BY <2>1, <2>2, <2>3, Constants
  <2>5. p + n <= e /\ e < p + n + PageSize
    BY <2>1, <2>3, <2>4, <1>1, Constants
  <2>6. e = c * PageSize
    <3>1. ~(e < c * PageSize)
      <4>1. ASSUME e < c * PageSize PROVE FALSE
        <5>1. e + PageSize <= c * PageSize
          BY <4>1, <2>4, PageApart
        <5>2. QED
          BY <5>1, <2>5, <1>1, <1>2, <1>3, Constants
      <4>2. QED
        BY <4>1
    <3>2. ~(c * PageSize < e)
      <4>1. ASSUME c * PageSize < e PROVE FALSE
        <5>1. c * PageSize + PageSize <= e
          BY <4>1, <2>4, PageApart
        <5>2. QED
          BY <5>1, <2>5, <1>1, <1>2, <1>3, Constants
      <4>2. QED
        BY <4>1
    <3>3. QED
      BY <3>1, <3>2, <1>3
  <2>7. Overflows(p, n) <=> WrappedLength(p, n) > WordMax - PageStart(p)
    BY <1>1, <1>5, <2>1, <2>3, Constants DEF Overflows
  <2>8. QED
    BY <2>1, <2>3, <2>4, <2>6, <2>7, <1>2, Constants
<1>6. QED
  BY <1>4, <1>5, <1>1, PageFacts, Constants
-----------------------------------------------------------------------------
(* The actions *)

\* The pages around a range that fits hold it.
LEMMA PagesHold ==
  ASSUME NEW p \in Address, NEW n \in Address, ~Overflows(p, n)
  PROVE  /\ PageStart(p) \in Nat /\ WrappedLength(p, n) \in Nat
         /\ PageStart(p) <= p /\ p + n <= PageStart(p) + WrappedLength(p, n)
<1>1. Offset(p) \in Nat /\ n \in Nat
  BY PageFacts, Constants
<1>2. Offset(p) + n <= WordMax - (PageSize - 1)
  BY <1>1, Constants DEF Overflows
<1>3. WrappedLength(p, n) \in Nat /\ Offset(p) + n <= WrappedLength(p, n)
  BY <1>2, LengthFacts
<1>4. PageStart(p) \in Nat /\ PageStart(p) + Offset(p) = p
  BY PageFacts
<1>5. QED
  BY <1>1, <1>3, <1>4

LEMMA InitInv == Init => IInv
<1> SUFFICES ASSUME Init PROVE IInv
  OBVIOUS
<1>1. 0 \in Address
  BY PageAssumption DEF Address
<1>2. Types
  BY <1>1 DEF Init, Types
<1>3. QED
  BY <1>2 DEF Init, IInv, RefusesOverflow, Placed, Contained, Accounted, Range

LEMMA WrapInv ==
  ASSUME IInv, NEW p \in Address, NEW n \in Address, Wrap(p, n)
  PROVE  IInv'
<1>1. /\ buf = None /\ pending = {} /\ p \in Nat /\ n \in Nat
      /\ ptr' = p /\ size' = n /\ intended' = mem /\ flushed' = FALSE
      /\ vm' = vm /\ mem' = mem /\ pending' = {}
  BY Constants DEF Wrap, IInv, Contained
<1>2. RefusesOverflow'
  <2>1. n > 0 /\ p > 0 => (outcome' = "overflow" <=> Overflows(p, n))
    BY <1>1 DEF Wrap, Refuse, ZeroCopy, Copied, Null
  <2>2. RoundedEnd(p, n)' = RoundedEnd(p, n)
    BY DEF RoundedEnd
  <2>3. QED
    BY <1>1, <2>1, OverflowsIff DEF RefusesOverflow
<1>3. CASE Refuse(p, n)
  <2>1. buf' = None /\ copy' = copy
    BY <1>1, <1>3 DEF Refuse
  <2>2. Types'
    BY <1>1, <2>1 DEF IInv, Types
  <2>3. QED
    BY <1>1, <1>2, <2>1, <2>2 DEF IInv, Placed, Contained, Accounted
<1>4. CASE ZeroCopy(p, n)
  <2>1. /\ n > 0 /\ ~Overflows(p, n) /\ copy' = copy
        /\ InOneRegion(PageStart(p), WrappedLength(p, n), {"rw"})
        /\ buf' = [base |-> PageStart(p), length |-> WrappedLength(p, n), offset |-> Offset(p),
                   owns |-> FALSE]
    BY <1>4 DEF ZeroCopy
  <2>2. Types'
    BY <1>1, <2>1 DEF IInv, Types
  <2>3. Placed'
    <3>1. /\ Overflows(ptr, size)' = Overflows(p, n) /\ PageStart(ptr)' = PageStart(p)
          /\ WrappedLength(ptr, size)' = WrappedLength(p, n)
      BY <1>1 DEF Overflows, PageStart, WrappedLength, Offset
    <3>2. InOneRegion(PageStart(ptr), WrappedLength(ptr, size), {"rw"})'
            = InOneRegion(PageStart(p), WrappedLength(p, n), {"rw"})
      BY <1>1, <3>1 DEF InOneRegion
    <3>3. QED
      BY <1>1, <2>1, <3>1, <3>2, PagesHold, PageFacts DEF Placed
  <2>4. Contained' /\ Accounted'
    BY <1>1, <2>1 DEF Contained, Accounted, Coming
  <2>5. QED
    BY <1>2, <2>2, <2>3, <2>4 DEF IInv
<1>5. CASE Copied(p, n)
  <2>1. /\ buf' = [base |-> p, length |-> n, offset |-> 0, owns |-> TRUE]
        /\ copy' = {a - p : a \in mem \cap Range(p, n)}
    BY <1>5 DEF Copied
  <2>2. Types'
    <3>1. \A a \in mem : a - p \in Int
      BY <1>1 DEF IInv, Types
    <3>2. copy' \subseteq Int
      BY <2>1, <3>1
    <3>3. QED
      BY <1>1, <3>2 DEF IInv, Types
  <2>3. Placed'
    BY <1>1, <2>1, Constants DEF Placed, Address
  <2>4. InCopy' = mem \cap Range(p, n)
    <3>1. \A a \in mem \cap Range(p, n) : a \in Int /\ p + (a - p) = a
      BY <1>1 DEF IInv, Types
    <3>2. QED
      BY <1>1, <2>1, <3>1 DEF InCopy
  <2>5. Contained' /\ Accounted'
    BY <1>1, <2>1, <2>4 DEF Contained, Accounted, Coming, Range
  <2>6. QED
    BY <1>2, <2>2, <2>3, <2>5 DEF IInv
<1>6. QED
  BY <1>3, <1>4, <1>5 DEF Wrap

\* What stays true while the buffer does.
LEMMA SameBuffer ==
  ASSUME IInv, UNCHANGED <<vm, ptr, size, outcome, buf>>
  PROVE  RefusesOverflow' /\ Placed'
<1>1. RefusesOverflow'
  BY DEF IInv, RefusesOverflow, RoundedEnd
<1>2. /\ Overflows(ptr, size)' = Overflows(ptr, size) /\ PageStart(ptr)' = PageStart(ptr)
      /\ WrappedLength(ptr, size)' = WrappedLength(ptr, size)
      /\ InOneRegion(PageStart(ptr), WrappedLength(ptr, size), {"rw"})'
           = InOneRegion(PageStart(ptr), WrappedLength(ptr, size), {"rw"})
  BY DEF Overflows, PageStart, WrappedLength, Offset, InOneRegion
<1>3. QED
  BY <1>1, <1>2 DEF IInv, Placed

LEMMA LaunchInv ==
  ASSUME IInv, NEW offset \in Address, Launch(offset)
  PROVE  IInv'
<1>1. /\ buf # None /\ UNCHANGED <<vm, ptr, size, outcome, buf, mem, copy, flushed>>
      /\ offset \in Nat
  BY Constants DEF Launch
<1>2. /\ buf.base \in Int /\ buf.length \in Nat /\ buf.offset \in Nat /\ ptr \in Nat /\ size \in Nat
      /\ buf.owns \in BOOLEAN /\ buf.base + buf.offset = ptr
  BY <1>1, Constants DEF IInv, Types, Placed
<1>3. RefusesOverflow' /\ Placed'
  BY <1>1, SameBuffer
<1>4. CASE buf.length = 0
  <2>1. pending' = pending /\ intended' = intended
    BY <1>4 DEF Launch
  <2>2. QED
    BY <1>1, <1>3, <2>1 DEF IInv, Types, Contained, Accounted, InCopy, Coming, Range
<1>5. CASE buf.length # 0
  <2>1. PICK bound : /\ bound = Bind(offset) /\ bound # None
                     /\ pending' = pending \cup {bound} /\ intended' = intended \cup {ptr + offset}
    BY <1>5 DEF Launch
  <2>2. /\ offset < size \/ (offset = 0 /\ size = 0)
        /\ offset <= WordMax - buf.offset /\ bound = Word(offset + buf.offset)
    BY <1>1, <1>2, <2>1, Constants DEF Bind
  <2>3. bound = offset + buf.offset
    BY <1>1, <1>2, <2>2, Constants DEF Word
  <2>4. bound \in Int /\ buf.base + bound = ptr + offset
    BY <1>1, <1>2, <2>3
  <2>5. size # 0
    <3>1. CASE buf.owns
      BY <1>1, <1>5, <3>1 DEF IInv, Placed
    <3>2. CASE ~buf.owns
      BY <1>1, <1>2, <3>2 DEF IInv, Placed
    <3>3. QED
      BY <3>1, <3>2
  <2>6. ptr + offset \in Range(ptr, size)
    BY <1>1, <1>2, <2>2, <2>5 DEF Range
  <2>7. Coming' = Coming \cup {ptr + offset}
    BY <1>1, <2>1, <2>4 DEF Coming
  <2>8. Types'
    <3>1. ptr + offset \in Int
      BY <1>1, <1>2
    <3>2. pending' \subseteq Int /\ intended' \subseteq Int
      BY <2>1, <2>4, <3>1 DEF IInv, Types
    <3>3. QED
      BY <1>1, <3>2 DEF IInv, Types
  <2>9. Contained'
    BY <1>1, <2>1, <2>4, <2>6 DEF IInv, Contained, Range
  <2>10. InCopy' = InCopy /\ Range(ptr, size)' = Range(ptr, size)
    BY <1>1 DEF InCopy, Range
  <2>11. Accounted'
    BY <1>1, <2>1, <2>7, <2>10 DEF IInv, Accounted
  <2>12. QED
    BY <1>3, <2>8, <2>9, <2>11 DEF IInv
<1>6. QED
  BY <1>4, <1>5

LEMMA RunInv ==
  ASSUME IInv, NEW bound \in pending, Run(bound)
  PROVE  IInv'
<1>1. /\ buf # None /\ UNCHANGED <<vm, ptr, size, outcome, buf, intended>>
      /\ pending' = pending \ {bound} /\ bound \in Int
  BY DEF Run, IInv, Types, Contained
<1>2. /\ buf.base \in Int /\ buf.base + bound \in Range(ptr, size)
      /\ buf.owns => buf.base = ptr
  BY <1>1, Constants DEF IInv, Types, Placed, Contained
<1>3. RefusesOverflow' /\ Placed'
  BY <1>1, SameBuffer
<1>4. Coming = Coming' \cup {buf.base + bound} /\ Range(ptr, size)' = Range(ptr, size)
  BY <1>1 DEF Coming, Range
<1>5. Contained'
  BY <1>1, <1>4 DEF IInv, Contained
<1>6. CASE buf.owns
  <2>1. copy' = copy \cup {bound} /\ flushed' = FALSE /\ mem' = mem
    BY <1>6 DEF Run
  <2>2. InCopy' = InCopy \cup {buf.base + bound}
    BY <1>1, <1>2, <1>6, <2>1 DEF InCopy
  <2>3. Types' /\ Accounted'
    BY <1>1, <1>4, <1>6, <2>1, <2>2 DEF IInv, Types, Accounted
  <2>4. QED
    BY <1>3, <1>5, <2>3 DEF IInv
<1>7. CASE ~buf.owns
  <2>1. mem' = mem \cup {buf.base + bound} /\ copy' = copy /\ flushed' = flushed
    BY <1>7 DEF Run
  <2>2. Types' /\ Accounted'
    BY <1>1, <1>2, <1>4, <1>7, <2>1 DEF IInv, Types, Accounted
  <2>3. QED
    BY <1>3, <1>5, <2>2 DEF IInv
<1>8. QED
  BY <1>6, <1>7

LEMMA FlushInv ==
  ASSUME IInv, Flush
  PROVE  IInv'
<1>1. /\ buf # None /\ UNCHANGED <<vm, ptr, size, outcome, buf, copy, pending, intended>>
      /\ flushed' = TRUE
  BY DEF Flush
<1>2. RefusesOverflow' /\ Placed' /\ Contained'
  BY <1>1, SameBuffer DEF IInv, Contained, Range
<1>3. InCopy' = InCopy /\ Coming' = Coming /\ Range(ptr, size)' = Range(ptr, size)
  BY <1>1 DEF InCopy, Coming, Range
<1>4. CASE buf.owns
  <2>1. mem' = (mem \ Range(ptr, size)) \cup InCopy
    BY <1>1, <1>4 DEF Flush, Flushed, IInv, Placed, InCopy
  <2>2. mem' = mem \cup InCopy
    BY <1>1, <1>4, <2>1 DEF IInv, Accounted
  <2>3. InCopy \subseteq Int
    BY Constants DEF IInv, Types, InCopy
  <2>4. Types' /\ Accounted'
    BY <1>1, <1>3, <1>4, <2>1, <2>2, <2>3 DEF IInv, Types, Accounted
  <2>5. QED
    BY <1>2, <2>4 DEF IInv
<1>5. CASE ~buf.owns
  <2>1. mem' = mem
    BY <1>5 DEF Flush
  <2>2. Types' /\ Accounted'
    BY <1>1, <1>3, <1>5, <2>1 DEF IInv, Types, Accounted
  <2>3. QED
    BY <1>2, <2>2 DEF IInv
<1>6. QED
  BY <1>4, <1>5

LEMMA ReleaseInv ==
  ASSUME IInv, Release
  PROVE  IInv'
<1>1. /\ buf' = None /\ copy' = {} /\ pending = {}
      /\ UNCHANGED <<vm, ptr, size, outcome, mem, pending, intended, flushed>>
  BY DEF Release
<1>2. RefusesOverflow'
  BY <1>1 DEF IInv, RefusesOverflow, RoundedEnd
<1>3. QED
  BY <1>1, <1>2 DEF IInv, Types, Placed, Contained, Accounted

\* The invariant holds for every address space and memory map.
THEOREM Invariance == Spec => []IInv
<1>1. IInv /\ [Next]_vars => IInv'
  <2> SUFFICES ASSUME IInv, [Next]_vars PROVE IInv'
    OBVIOUS
  <2>1. CASE UNCHANGED vars
    <3>1. UNCHANGED <<vm, ptr, size, outcome, buf, mem, copy, pending, intended, flushed>>
      BY <2>1 DEF vars
    <3>2. QED
      BY <3>1, SameBuffer DEF IInv, Types, Contained, Accounted, InCopy, Coming, Range
  <2>2. QED
    BY <2>1, WrapInv, LaunchInv, RunInv, FlushInv, ReleaseInv DEF Next
<1>2. QED
  BY <1>1, InitInv, PTL DEF Spec

-----------------------------------------------------------------------------
(* What follows for the properties *)

\* A range is refused exactly if its pages do not fit, whatever the width of size_t.
THEOREM OverflowIsRefused == Spec => []RefusesOverflow
<1>1. IInv => RefusesOverflow
  BY DEF IInv
<1>2. QED
  BY <1>1, Invariance, PTL

\* The GPU gets mapped memory that holds the caller's range, and every launch writes
\* inside that range.
THEOREM LaunchesStayInside == Spec => []BoundWhereAsked
<1>1. IInv => BoundWhereAsked
  <2> SUFFICES ASSUME IInv, buf # None PROVE BoundWhereAsked
    BY DEF BoundWhereAsked
  <2>1. ASSUME ~buf.owns
        PROVE  /\ \A a \in Range(buf.base, buf.length) :
                    \E r \in vm : r.prot = "rw" /\ a \in r.first..r.last
               /\ Range(ptr, size) \subseteq Range(buf.base, buf.length)
    <3>1. /\ ~Overflows(ptr, size) /\ ptr \in Address /\ size \in Address
          /\ buf.base = PageStart(ptr) /\ buf.length = WrappedLength(ptr, size)
      BY <2>1 DEF IInv, Types, Placed
    <3>2. /\ buf.base \in Nat /\ buf.length \in Nat /\ buf.base <= ptr
          /\ ptr + size <= buf.base + buf.length
      BY <3>1, PagesHold
    <3>3. PICK r \in vm : /\ r.prot = "rw" /\ buf.base \in r.first..r.last
                          /\ buf.length <= (r.last - r.first + 1) - (buf.base - r.first)
      BY <2>1, <3>1 DEF IInv, Placed, InOneRegion
    <3>4. r.first \in Int /\ r.last \in Int
      <4>1. r.first \in Address /\ r.last \in r.first..WordMax
        BY <3>3, MapAssumption DEF IInv, Types
      <4>2. PICK first \in Address : r.first = first
        BY <4>1
      <4>3. first \in Nat /\ r.last \in first..WordMax
        BY <4>1, <4>2, Constants
      <4>4. QED
        BY <4>2, <4>3, Constants
    <3>5. \A a \in Range(buf.base, buf.length) : a \in r.first..r.last
      BY <3>2, <3>3, <3>4 DEF Range
    <3>6. Range(ptr, size) \subseteq Range(buf.base, buf.length)
      BY <3>1, <3>2, Constants DEF Range
    <3>7. QED
      BY <3>3, <3>5, <3>6
  <2>2. \A bound \in pending : buf.base + bound \in intended
    <3>1. Coming \subseteq intended
      BY DEF IInv, Accounted
    <3>2. QED
      BY <3>1 DEF Coming
  <2>3. QED
    BY <2>1, <2>2 DEF BoundWhereAsked, IInv, Contained
<1>2. QED
  BY <1>1, Invariance, PTL

\* After a wait and a flush the caller's memory holds what the kernels wrote and is
\* otherwise untouched, whichever path the wrap took.
THEOREM PathsLookAlike == Spec => []Transparent
<1>1. IInv => Transparent
  <2> SUFFICES ASSUME IInv, buf # None, pending = {}, flushed \/ ~buf.owns
               PROVE  mem = intended
    BY DEF Transparent, IInv, Accounted
  <2>1. Coming = {}
    BY DEF Coming
  <2>2. QED
    BY <2>1 DEF IInv, Accounted
<1>2. QED
  BY <1>1, Invariance, PTL
=============================================================================
