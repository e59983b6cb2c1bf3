----------------------------- MODULE MCWrapBuffer -----------------------------
(* WrapBuffer for TLC: small memory maps. *)
EXTENDS WrapBuffer

Region(first, last, prot) == [first |-> first, last |-> last, prot |-> prot]

\* Two adjacent regions; a hole and a read-only page; the whole address space.
MCMaps == {
  {Region(0, 7, "rw"), Region(8, 11, "rw")},
  {Region(0, 3, "r"), Region(8, 15, "rw")},
  {Region(0, 15, "rw")} }
=============================================================================
