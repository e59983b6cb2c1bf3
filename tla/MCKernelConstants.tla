-------------------------- MODULE MCKernelConstants --------------------------
(* KernelConstants for TLC: one function for each type, and requests around    *)
(* the bounds of its type; functions with several constants; texts that would  *)
(* share a key if it were not for the lengths in it.                           *)
EXTENDS KernelConstants, TLC

\* The characters from ASCII 48 on, and the text of a string.
Characters ==
  "0123456789:;<=>?@ABCDEFGHIJKLMNOPQRSTUVWXYZ[.]._.abcdefghijklmnopqrstuvwxyz"

T(string) ==
  [i \in 1..Len(string) |->
     47 + CHOOSE c \in 1..Len(Characters) : SubSeq(Characters, c, c) = SubSeq(string, i, i)]

A == T("A")
B == T("B")
a == T("a")
b == T("b")
z == T("z")
Nul == T("nul")

MCNameOrder == <<A, B, a, b, T("n"), z>>

MCMalformed == {Nul}

MCCompiles(source, defines) ==
  source = T("s") /\ (A \in DOMAIN defines => defines[A] # T("?"))

Types == Scalars \cup {"float2"}

Constant(type, required) == [type |-> type, required |-> required]

Functions ==
  [f \in {T(t) : t \in Types} |-> T("n") :> Constant(CHOOSE t \in Types : T(t) = f, TRUE)]
    @@ (T("two")   :> (a :> Constant("bool", TRUE) @@ b :> Constant("bool", FALSE)))
    @@ (T("plain") :> << >>)

MCDeclares(source, defines) == Functions

Value(kind, val) == [kind |-> kind, val |-> val]
True             == Value("bool", 1)

\* A numpy scalar, of which only one byte is not 0.
Scalar(dtype, at) ==
  [kind |-> "scalar", dtype |-> dtype,
   val |-> [i \in 1..NumberOfBytes(dtype) |-> IF i = at THEN 1 ELSE 0]]

ValuesFor(t) ==
  {True, [kind |-> "object"], Value("int", -129), Value("int", 128),
   Value("float", 3), Value("float", -55), Scalar(<<2, 64>>, 1)}
    \cup (IF t \in Scalars
          THEN {Value("int", n) : n \in {Lowest(t) - 1, Lowest(t), -1, 0, Highest(t), Highest(t) + 1}}
                 \cup {Scalar(ConstantDtype[u], NumberOfBytes(ConstantDtype[u])) : u \in {t, "char", "uchar"}}
          ELSE {})

Request(defines, function, constants) ==
  [source |-> T("s"), mathMode |-> 2, defines |-> defines, function |-> function,
   constants |-> constants]

None == << >>

MCRequests ==
  UNION {{Request(None, T(t), T("n") :> v) : v \in ValuesFor(t)} : t \in Types}
    \cup {Request(None, f, constants) :
            f \in {T("two"), T("plain"), T("two;a=B1"), Nul},
            constants \in UNION {[names -> {True}] : names \in SUBSET {a, b, z}}}
    \cup {Request(defines, T("plain"), None) :
            defines \in {A :> T("1"), A :> T("1;B=1"), A :> T("1") @@ B :> T("1"),
                         A :> Nul, A :> T("?")}}
    \cup {[Request(None, T("plain"), None) EXCEPT !.mathMode = m] : m \in {0, 1}}
    \cup {[Request(None, T("plain"), None) EXCEPT !.source = s] : s \in {Nul, T(";A=1s")}}
=============================================================================
