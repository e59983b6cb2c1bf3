------------------------------ MODULE WrapBuffer ------------------------------
(***************************************************************************)
(* Host memory wrapped for the GPU through the C API (src/src/c_api.cpp):  *)
(* mr_wrap_buffer rounds [ptr, ptr + size) out to pages and wraps those    *)
(* without copying, or takes a private copy; build_launch turns an offset  *)
(* into the caller's memory into one into the Metal buffer;                *)
(* mr_buffer_flush_to brings a private copy back.                          *)
(*                                                                         *)
(* Addresses and size_t end at WordMax, and + wraps.  `vm' is the memory   *)
(* map of the process.  A byte is known by whether a kernel wrote it: a    *)
(* launch writes the byte at its offset, once the GPU gets to it.          *)
(***************************************************************************)
EXTENDS Integers, FiniteSets

CONSTANTS
  WordMax,      \* SIZE_MAX
  PageSize,
  Maps,         \* memory maps: sets of regions [first, last, prot]
  MaxLaunches, MaxWraps,    \* bounds
  None

Word(n) == n % (WordMax + 1)
Address == 0..WordMax

\* The address space is a whole number of pages.
ASSUME PageAssumption ==
  WordMax \in Nat /\ PageSize \in 1..WordMax /\ WordMax % PageSize = PageSize - 1
ASSUME MapAssumption ==
  \A m \in Maps : \A r \in m : r.first \in Address /\ r.last \in r.first..WordMax

VARIABLES
  vm,
  ptr, size,        \* arguments of the last mr_wrap_buffer
  outcome,          \* what it did
  buf,              \* the MRBuffer: [base, length, offset, owns], None if there is none
  mem,              \* host bytes that hold what a kernel wrote
  copy,             \* the same of the private copy, by offset
  pending,          \* offsets in the Metal buffer that kernels have yet to write
  intended,         \* history: host bytes the kernels were launched on
  flushed,          \* history: nothing ran since the copy was brought back
  launches, wraps

vars == <<vm, ptr, size, outcome, buf, mem, copy, pending, intended, flushed, launches, wraps>>

Init ==
  /\ vm \in Maps
  /\ ptr = 0 /\ size = 0 /\ outcome = "none" /\ buf = None
  /\ mem = {} /\ copy = {} /\ pending = {} /\ intended = {} /\ flushed = FALSE
  /\ launches = 0 /\ wraps = 0

-----------------------------------------------------------------------------
(* mr_wrap_buffer *)

Offset(p)    == p % PageSize
PageStart(p) == p - Offset(p)

WrappedLength(p, n) == (Word(Offset(p) + n + PageSize - 1) \div PageSize) * PageSize

\* Mutant: the end of the range is only compared after rounding.
Overflows_RoundedOnly(p, n) == WrappedLength(p, n) > WordMax - PageStart(p)

Overflows(p, n) ==
  \/ n > WordMax - p
  \/ n > WordMax - Offset(p)
  \/ Offset(p) + n > WordMax - (PageSize - 1)
  \/ WrappedLength(p, n) > WordMax - PageStart(p)

\* region_is_mapped_rw, with prots = {"rw"}: one region holds the whole range.
InOneRegion(start, length, prots) == \E r \in vm :
  /\ r.prot \in prots
  /\ start \in r.first..r.last
  /\ length <= (r.last - r.first + 1) - (start - r.first)

\* The caller's own range: memory it may read, or write.
Owned(p, n, prots) == \A a \in p..(p + n - 1) : \E r \in vm : r.prot \in prots /\ a \in r.first..r.last

Range(p, n) == p..(p + n - 1)

Null(p, n) == p = 0 /\ n > 0

Refuse(p, n) ==
  /\ n > 0
  /\ outcome' = IF Null(p, n) THEN "null" ELSE "overflow"
  /\ Null(p, n) \/ Overflows(p, n)
  /\ UNCHANGED <<buf, copy>>

\* Buffer(device, page_start, wrapped_length)
ZeroCopy(p, n) ==
  /\ n > 0 /\ ~Null(p, n) /\ ~Overflows(p, n)
  /\ InOneRegion(PageStart(p), WrappedLength(p, n), {"rw"})
  /\ outcome' = "zeroCopy"
  /\ buf' = [base |-> PageStart(p), length |-> WrappedLength(p, n), offset |-> Offset(p),
             owns |-> FALSE]
  /\ UNCHANGED copy

\* Buffer(device, size_bytes) and memcpy
Copied(p, n) ==
  /\ n > 0 => /\ ~Null(p, n) /\ ~Overflows(p, n)
               /\ ~InOneRegion(PageStart(p), WrappedLength(p, n), {"rw"})
  /\ outcome' = "copied"
  /\ buf'  = [base |-> p, length |-> n, offset |-> 0, owns |-> TRUE]
  /\ copy' = {a - p : a \in mem \cap Range(p, n)}

Wrap(p, n) ==
  /\ buf = None /\ wraps < MaxWraps
  /\ Null(p, n) \/ Overflows(p, n) \/ Owned(p, n, {"r", "rw"})
  /\ ptr' = p /\ size' = n
  /\ Refuse(p, n) \/ ZeroCopy(p, n) \/ Copied(p, n)
  /\ intended' = mem
  /\ flushed'  = FALSE
  /\ wraps'    = wraps + 1
  /\ UNCHANGED <<vm, mem, pending, launches>>

-----------------------------------------------------------------------------
(* Launches *)

\* Mutant: the offset is passed on as it is.
Bind_Unshifted(offset) ==
  IF offset >= size /\ ~(offset = 0 /\ size = 0) THEN None ELSE offset

\* Mutant: the offset is compared with the wrapped pages.
Bind_PageBounds(offset) ==
  IF offset >= buf.length /\ ~(offset = 0 /\ size = 0) THEN None ELSE Word(offset + buf.offset)

\* build_launch: the offset into the Metal buffer, or an error.
Bind(offset) ==
  IF \/ offset >= size /\ ~(offset = 0 /\ size = 0)
     \/ offset > WordMax - buf.offset
  THEN None ELSE Word(offset + buf.offset)

\* mr_batch_add or mr_dispatch with the buffer at an offset; validate() looks at
\* what it is bound to.  An empty buffer has no byte to write.
Launch(offset) ==
  LET bound == Bind(offset) IN
  /\ buf # None /\ launches < MaxLaunches
  /\ bound # None
  /\ bound < buf.length \/ (bound = 0 /\ buf.length = 0)
  /\ pending'  = IF buf.length = 0 THEN pending ELSE pending \cup {bound}
  /\ intended' = IF buf.length = 0 THEN intended ELSE intended \cup {ptr + offset}
  /\ launches' = launches + 1
  /\ UNCHANGED <<vm, ptr, size, outcome, buf, mem, copy, flushed, wraps>>

\* The GPU gets to one of the launches.
Run(bound) ==
  /\ bound \in pending
  /\ pending' = pending \ {bound}
  /\ IF buf.owns THEN copy' = copy \cup {bound} /\ flushed' = FALSE /\ UNCHANGED mem
                 ELSE mem' = mem \cup {buf.base + bound} /\ UNCHANGED <<copy, flushed>>
  /\ UNCHANGED <<vm, ptr, size, outcome, buf, intended, launches, wraps>>

\* memcpy(external_ptr, contents, size)
Flushed == (mem \ Range(ptr, buf.length)) \cup {ptr + i : i \in copy}

\* mr_buffer_flush_to; the caller brings back only what it may write.
Flush ==
  /\ buf # None
  /\ IF buf.owns THEN Owned(ptr, size, {"rw"}) /\ mem' = Flushed ELSE UNCHANGED mem
  /\ flushed' = TRUE
  /\ UNCHANGED <<vm, ptr, size, outcome, buf, copy, pending, intended, launches, wraps>>

\* mr_release_buffer, when the caller has waited for its launches.
Release ==
  /\ buf # None /\ pending = {}
  /\ buf' = None /\ copy' = {}
  /\ UNCHANGED <<vm, ptr, size, outcome, mem, pending, intended, flushed, launches, wraps>>

Next ==
  \/ \E p \in Address, n \in Address : Wrap(p, n)
  \/ \E offset \in Address : Launch(offset)
  \/ \E bound \in pending : Run(bound)
  \/ Flush \/ Release

Spec == Init /\ [][Next]_vars

-----------------------------------------------------------------------------
(* Properties *)

RoundedEnd(p, n) == CHOOSE e \in (p + n)..(p + n + PageSize) : e % PageSize = 0 /\ e < p + n + PageSize

\* A range is refused exactly if its pages do not end below the top of the address
\* space: no wrapped sum lets one through or stops a good one (c_api.cpp:181-194).
RefusesOverflow == size > 0 /\ ptr > 0 =>
  (outcome = "overflow" <=> RoundedEnd(ptr, size) > WordMax)

\* What the GPU may touch is mapped, writable and holds the caller's range, and every
\* launch is bound inside the caller's range (c_api.cpp:81-99, 196-202, 254-265).
BoundWhereAsked == buf # None =>
  /\ ~buf.owns =>
       /\ \A a \in Range(buf.base, buf.length) : \E r \in vm : r.prot = "rw" /\ a \in r.first..r.last
       /\ Range(ptr, size) \subseteq Range(buf.base, buf.length)
  /\ \A bound \in pending : buf.base + bound \in intended \cap Range(ptr, size)

\* The two paths look the same to a caller who waits and then flushes: the host
\* memory holds what the kernels wrote, and nothing else changed (c_api.h:80-89).
Transparent ==
  /\ mem \subseteq intended
  /\ buf # None /\ pending = {} /\ (flushed \/ ~buf.owns) => mem = intended

\* "Falls back to an owned copy ... only if the rounded range would leave ptr's VM
\* mapping" (c_api.h:82-84).
CopiesOnlyAcrossMappings == outcome = "copied" /\ size > 0 =>
  ~InOneRegion(PageStart(ptr), WrappedLength(ptr, size), {"r", "rw"})
=============================================================================
