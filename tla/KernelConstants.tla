--------------------------- MODULE KernelConstants ---------------------------
(***************************************************************************)
(* Kernel(source, function, math_mode, defines, constants): the keys under *)
(* which libraries and pipelines are cached, the function constants that   *)
(* are refused, and the bytes Metal gets for the others                    *)
(* (src/src/library.cpp, parse_constants in src/src/bindings.cpp).  Calls  *)
(* come one after another: LibraryCache has the races.                     *)
(*                                                                         *)
(* A text is a sequence of characters, known by their ASCII codes, because *)
(* what the keys are about is where one text ends and the next begins.  A  *)
(* byte of a number has Byte values; a float is one of a coarse grid.      *)
(***************************************************************************)
EXTENDS Integers, Sequences, FiniteSets

CONSTANTS
  Byte,               \* 256
  FloatStep,          \* the distance of two floats
  NameOrder,          \* the names of macros and constants, sorted
  Malformed,          \* texts with a NUL byte, or not UTF-8
  Compiles(_, _),     \* Metal: does a source compile with these macros?
  Declares(_, _),     \* Metal: the functions of that library, each with the constants
                      \* it declares, a function from names to [type, required]
  Requests,           \* arguments of Kernel()
  MaxCalls            \* bound: kernels asked for

-----------------------------------------------------------------------------
(* Types and numbers *)

\* kConstantTypes and kEntries: DLPack's code and the width in bits.
ConstantDtype == [
  bool   |-> <<6, 8>>,  char  |-> <<0, 8>>, short  |-> <<0, 16>>, int  |-> <<0, 32>>,
  long   |-> <<0, 64>>, uchar |-> <<1, 8>>, ushort |-> <<1, 16>>, uint |-> <<1, 32>>,
  ulong  |-> <<1, 64>>, half  |-> <<2, 16>>, float |-> <<2, 32>>, bfloat |-> <<4, 16>>]

Scalars  == DOMAIN ConstantDtype
Width(t) == ConstantDtype[t][2]
Signed   == {"char", "short", "int", "long"}
Unsigned == {"uchar", "ushort", "uint", "ulong"}

\* How many patterns of bits a type has.
Square(n) == n * n
Span(t) ==
  CASE Width(t) = 8  -> Byte
    [] Width(t) = 16 -> Square(Byte)
    [] Width(t) = 32 -> Square(Square(Byte))
    [] Width(t) = 64 -> Square(Square(Square(Byte)))

\* numeric_limits<T>::min() and max()
Lowest(t)  == IF t \in Signed THEN -(Span(t) \div 2) ELSE 0
Highest(t) == IF t \in Signed THEN Span(t) \div 2 - 1 ELSE Span(t) - 1

Int64 == Lowest("long")..Highest("long")

\* (float)v: the nearest multiple of FloatStep, of which Span("float") have a pattern.
FloatBits(v)  == (v + FloatStep \div 2) \div FloatStep + Span("float") \div 2
DoubleBits(v) == v - Lowest("long")

\* What a kernel reads from the bytes of a constant.
Read(t, bits) ==
  IF t = "float" THEN (bits - Span("float") \div 2) * FloatStep
  ELSE IF t \in Signed /\ bits > Highest(t) THEN bits - Span(t) ELSE bits

-----------------------------------------------------------------------------
(* Python values: a bool, an int, a float, a numpy scalar, of which val are the *)
(* bytes, the low one first, or another object, such as a longer array.         *)

NumberOfBytes(dtype) == (dtype[2] + 7) \div 8

Text   == Seq(Nat)
Bytes  == Seq(0..(Byte - 1))
Values ==
  [kind : {"bool"}, val : {0, 1}] \cup [kind : {"int"}, val : Int]
    \cup [kind : {"float"}, val : Int64] \cup [kind : {"object"}]
    \cup {v \in [kind : {"scalar"}, dtype : Nat \X Nat, val : Bytes] :
            Len(v.val) = NumberOfBytes(v.dtype)}

ASSUME NumberAssumption ==
  /\ Byte \in Nat \ {0} /\ Byte % 2 = 0
  /\ FloatStep \in Nat \ {0} /\ Span("long") <= FloatStep * Span("float")

ASSUME RequestAssumption ==
  /\ MaxCalls \in Nat
  /\ NameOrder \in Seq(Text)
  /\ \A i, j \in 1..Len(NameOrder) : NameOrder[i] = NameOrder[j] => i = j
  /\ \A r \in Requests :
       /\ r.source \in Text /\ r.function \in Text /\ r.mathMode \in Nat
       /\ r.defines \in [DOMAIN r.defines -> Text]
       /\ r.constants \in [DOMAIN r.constants -> Values]
       /\ \A n \in DOMAIN r.defines \cup DOMAIN r.constants :
            \E i \in 1..Len(NameOrder) : n = NameOrder[i]

\* parse_constants throws: the int is beyond int64, or there is no scalar of a known dtype.
Unparsable(v) ==
  \/ v.kind = "int" /\ v.val \notin Int64
  \/ v.kind = "scalar" /\ \A t \in Scalars : v.dtype # ConstantDtype[t]
  \/ v.kind = "object"

\* Mutant: the lowest number of a type is out of its range.
Fits_Narrower(v, t) == Lowest(t) < v /\ v <= Highest(t)

Fits(v, t) == Lowest(t) <= v /\ v <= Highest(t)

\* coerce() returns: the declared type takes the value.
Coerces(v, t) ==
  /\ t \in Scalars
  /\ \/ v.kind = "scalar" /\ v.dtype = ConstantDtype[t]
     \/ v.kind = "bool" /\ t = "bool"
     \/ v.kind = "float" /\ t = "float"
     \/ v.kind = "int" /\ t = "float"
     \/ v.kind = "int" /\ t \in Signed \cup Unsigned /\ Fits(v.val, t)

\* The number that bytes stand for.
Number(bytes) ==
  LET high[k \in 0..Len(bytes)] ==
        IF k = 0 THEN 0 ELSE bytes[Len(bytes) + 1 - k] + Byte * high[k - 1] IN
  high[Len(bytes)]

\* The bits that coerce() then returns.
Bits(v, t) ==
  IF v.kind = "scalar" THEN Number(v.val)
  ELSE IF v.kind = "bool" THEN v.val
  ELSE IF t = "float" THEN FloatBits(v.val)
  ELSE v.val % Span(t)

-----------------------------------------------------------------------------
(* Keys *)

\* std::to_string of a number that is not negative, and of any.
Decimals(n) ==
  LET text[k \in 0..n] ==
        IF k < 10 THEN <<48 + k>> ELSE text[k \div 10] \o <<48 + (k % 10)>> IN
  text

Decimal(n) == Decimals(n)[n]

SignedDecimal(n) == IF n < 0 THEN <<45>> \o Decimal(-n) ELSE Decimal(n)

\* Mutant: a text is put in a key without its length.
Field_Bare(s) == s

\* 4:text
Field(s) == Decimal(Len(s)) \o <<58>> \o s

\* ;4:name=text
Item(texts, n) ==
  IF n \in DOMAIN texts THEN <<59>> \o Field(n) \o <<61>> \o texts[n] ELSE << >>

\* The items of the first k names, and of all.
Heads(texts) ==
  LET head[k \in 0..Len(NameOrder)] ==
        IF k = 0 THEN << >> ELSE head[k - 1] \o Item(texts, NameOrder[k]) IN
  head

Items(texts) == Heads(texts)[Len(NameOrder)]

\* CompileOptions::cache_key, which starts with math=
CacheKey(mathMode, defines) ==
  <<109, 97, 116, 104, 61>> \o Decimal(mathMode)
    \o Items([n \in DOMAIN defines |-> Field(defines[n])])

LibraryKey(source, mathMode, defines) == Field(CacheKey(mathMode, defines)) \o source

\* The first k bytes, and all: 1,2,3,
ByteHeads(bytes) ==
  LET head[k \in 0..Len(bytes)] ==
        IF k = 0 THEN << >> ELSE head[k - 1] \o Decimal(bytes[k]) \o <<44>> IN
  head

BytesText(bytes) == ByteHeads(bytes)[Len(bytes)]

\* B1, I-12, F345 and E1.32:1,2,3,4,
ValueText(v) ==
  CASE v.kind = "bool"   -> <<66>> \o Decimal(v.val)
    [] v.kind = "int"    -> <<73>> \o SignedDecimal(v.val)
    [] v.kind = "float"  -> <<70>> \o Decimal(DoubleBits(v.val))
    [] v.kind = "scalar" -> <<69>> \o Decimal(v.dtype[1]) \o <<46>> \o Decimal(v.dtype[2])
                              \o <<58>> \o BytesText(v.val)

\* pipeline_key; parse_constants has sorted the constants.
PipelineKey(function, constants) ==
  Field(function) \o Items([n \in DOMAIN constants |-> ValueText(constants[n])])

-----------------------------------------------------------------------------
(* The caches.  Which entries they evict is left open: LruCache says which. *)

VARIABLES
  libraries,          \* the cached libraries by key, each with its cached pipelines
  asked, answer,      \* the last Kernel() and what came of it
  calls

vars == <<libraries, asked, answer, calls>>

NoKernel == [verdict |-> "none"]

\* f with v under k as well.
With(f, k, v) == [j \in DOMAIN f \cup {k} |-> IF j = k THEN v ELSE f[j]]

Init ==
  /\ libraries = << >>
  /\ asked  = << >>
  /\ answer = NoKernel
  /\ calls  = 0

Texts(r) == {r.source} \cup DOMAIN r.defines \cup {r.defines[n] : n \in DOMAIN r.defines}

\* Library::Library throws.
SourceError(r) ==
  IF Texts(r) \cap Malformed # {} THEN "value_error"
  ELSE IF ~Compiles(r.source, r.defines) THEN "compile_error"
  ELSE "none"

\* Mutant: a plain function is made whenever no constants are given.
Plain_NoneGiven(declared, constants) == DOMAIN constants = {}

Plain(declared, constants) == DOMAIN declared = {} /\ DOMAIN constants = {}

Required(declared) == {n \in DOMAIN declared : declared[n].required}

\* create_specialized throws, before Metal is asked for anything but reflection.
ConstantsError(lib, r) ==
  LET functions == Declares(lib.source, lib.defines)
      declared  == functions[r.function]
      given     == DOMAIN r.constants IN
  IF r.function \in Malformed THEN "value_error"
  ELSE IF r.function \notin DOMAIN functions THEN "not_found"
  ELSE IF Plain(declared, r.constants) THEN "none"
  ELSE IF /\ Required(declared) \subseteq given /\ given \subseteq DOMAIN declared
          /\ \A n \in given : Coerces(r.constants[n], declared[n].type)
       THEN "none" ELSE "compile_error"

\* The function as Metal makes it from the declared types and the bytes.
Specialized(lib, r) ==
  LET declared == Declares(lib.source, lib.defines)[r.function] IN
  [source |-> lib.source, mathMode |-> lib.mathMode, defines |-> lib.defines,
   function |-> r.function,
   set |-> [n \in DOMAIN r.constants |->
              [type |-> declared[n].type, bits |-> Bits(r.constants[n], declared[n].type)]]]

NewLibrary(r) == [source |-> r.source, mathMode |-> r.mathMode, defines |-> r.defines,
                  pipelines |-> << >>]

Refused(error)  == [verdict |-> error]
Handed(kernel)  == [verdict |-> "ok", kernel |-> kernel]

KeyOf(r) == LibraryKey(r.source, r.mathMode, r.defines)

\* The source is in no cached library and does not become one.
RefuseSource(r, key) ==
  /\ key \notin DOMAIN libraries /\ SourceError(r) # "none"
  /\ answer' = Refused(SourceError(r))
  /\ UNCHANGED libraries

Parsed(r) == \A n \in DOMAIN r.constants : ~Unparsable(r.constants[n])

\* library_for has answered with lib, which is cached under libraryKey from then on.
WithLibrary(r, libraryKey, lib) ==
  LET parsed == Parsed(r)
      key    == PipelineKey(r.function, r.constants)
      error  == ConstantsError(lib, r)
      Cache(pipelines) ==
        libraries' = With(libraries, libraryKey, [lib EXCEPT !.pipelines = pipelines]) IN
  \/ \* parse_constants throws
     /\ ~parsed
     /\ answer' = Refused("value_error")
     /\ Cache(lib.pipelines)
  \/ \* a hit
     /\ parsed /\ key \in DOMAIN lib.pipelines
     /\ answer' = Handed(lib.pipelines[key])
     /\ Cache(lib.pipelines)
  \/ \* create_specialized throws, or Metal refuses to specialize or to build
     /\ parsed /\ key \notin DOMAIN lib.pipelines
     /\ answer' = Refused(IF error = "none" THEN "metal" ELSE error)
     /\ Cache(lib.pipelines)
  \/ \* a new pipeline
     /\ parsed /\ key \notin DOMAIN lib.pipelines /\ error = "none"
     /\ answer' = Handed(Specialized(lib, r))
     /\ Cache(With(lib.pipelines, key, Specialized(lib, r)))

Kernel(r) ==
  LET key == KeyOf(r) IN
  /\ calls < MaxCalls
  /\ calls' = calls + 1
  /\ asked' = r
  /\ \/ RefuseSource(r, key)
     \/ /\ key \in DOMAIN libraries
        /\ WithLibrary(r, key, libraries[key])
     \/ /\ key \notin DOMAIN libraries /\ SourceError(r) = "none"
        /\ WithLibrary(r, key, NewLibrary(r))

\* A library leaves the cache: a limit, or clear_library_cache().
DropLibrary ==
  /\ \E k \in DOMAIN libraries :
       libraries' = [other \in DOMAIN libraries \ {k} |-> libraries[other]]
  /\ UNCHANGED <<asked, answer, calls>>

\* A pipeline leaves the cache of its library, which holds kMaxCachedPipelines.
DropPipeline ==
  /\ \E k \in DOMAIN libraries : \E p \in DOMAIN libraries[k].pipelines :
       libraries' = [libraries EXCEPT ![k].pipelines =
                       [other \in DOMAIN @ \ {p} |-> @[other]]]
  /\ UNCHANGED <<asked, answer, calls>>

Next == (\E r \in Requests : Kernel(r)) \/ DropLibrary \/ DropPipeline

Spec == Init /\ [][Next]_vars

-----------------------------------------------------------------------------
(* Properties *)

Distance(a, b) == IF a < b THEN b - a ELSE a - b

\* The constant c, read by a kernel, is the value v: exactly for integers, bools and
\* numpy scalars, as nearly as the type can for a float.
Means(c, v) ==
  CASE v.kind = "scalar" -> ConstantDtype[c.type] = v.dtype /\ c.bits = Number(v.val)
    [] v.kind = "bool"   -> c.type = "bool" /\ c.bits = v.val
    [] v.kind \in {"int", "float"} /\ c.type = "float" ->
         \A other \in 0..(Span("float") - 1) :
           Distance(Read("float", c.bits), v.val) <= Distance(Read("float", other), v.val)
    [] v.kind = "int" /\ c.type # "float" ->
         c.type \in Signed \cup Unsigned /\ Read(c.type, c.bits) = v.val
    [] OTHER -> FALSE

\* A kernel, from a cache or new, is the function asked for, of the source, math mode
\* and macros asked for, with the constants asked for and no others: no two requests
\* share a key, and no value changes on its way to the declared type
\* (library.cpp:16-24, 117-208, runtime.cpp:45-46).
GivesWhatWasAsked == answer.verdict = "ok" =>
  LET kernel == answer.kernel IN
  /\ \A part \in {"source", "mathMode", "defines", "function"} : kernel[part] = asked[part]
  /\ DOMAIN kernel.set = DOMAIN asked.constants
  /\ \A n \in DOMAIN kernel.set : Means(kernel.set[n], asked.constants[n])

\* What Metal would take without a word is never left to it: a required constant that
\* is not set, a name the function does not declare (library.cpp:236-269).
NothingLeftToMetal == answer.verdict = "ok" =>
  LET declared == Declares(asked.source, asked.defines)[asked.function] IN
  /\ Required(declared) \subseteq DOMAIN answer.kernel.set
  /\ \A n \in DOMAIN answer.kernel.set :
       n \in DOMAIN declared /\ declared[n].type = answer.kernel.set[n].type

\* No bits of the declared type are the value.
Unrepresentable(v, t) ==
  t \notin Scalars \/ \A bits \in 0..(Span(t) - 1) : ~Means([type |-> t, bits |-> bits], v)

\* A request is refused only for a fault of its own, and is told of the right one,
\* whatever is cached: the bounds of each type are exact (library.cpp:116-183, 225-286).
RefusedForCause ==
  LET functions == Declares(asked.source, asked.defines)
      declared  == functions[asked.function]
      given     == DOMAIN asked.constants IN
  /\ answer.verdict = "value_error" =>
       \/ (Texts(asked) \cup {asked.function}) \cap Malformed # {}
       \/ \E n \in given : Unparsable(asked.constants[n])
  /\ answer.verdict = "not_found" => asked.function \notin DOMAIN functions
  /\ answer.verdict = "compile_error" =>
       \/ ~Compiles(asked.source, asked.defines)
       \/ Required(declared) \ given # {} \/ given \ DOMAIN declared # {}
       \/ \E n \in given : Unrepresentable(asked.constants[n], declared[n].type)
=============================================================================
