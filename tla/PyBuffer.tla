------------------------------- MODULE PyBuffer -------------------------------
(***************************************************************************)
(* The Python class Buffer (PyBuffer in src/src/bindings.cpp): a Metal     *)
(* buffer with a shape and an element type, made from a host array or from *)
(* a shape, refilled from arrays, and read through numpy arrays and DLPack *)
(* tensors that share its memory.                                          *)
(*                                                                         *)
(* A copy is known by its length and a view by the bytes it spans; what    *)
(* the bytes are is left out.  size_t ends at WordMax, and * wraps.  One   *)
(* Buffer object exists at a time.                                         *)
(***************************************************************************)
EXTENDS Integers, Sequences, FiniteSets

CONSTANTS
  WordMax,         \* SIZE_MAX
  Shapes,          \* shapes that the program asks for
  Arrays,          \* host arrays, [shape, dtype, lanes]
  Names,           \* element types that the program may name
  MaxBufferCalls,  \* bound: calls of the program
  None

Word(n) == n % (WordMax + 1)
Size    == 0..WordMax

\* The products of the first n dimensions, and of all.
Products(shape) ==
  LET product[n \in 0..Len(shape)] == IF n = 0 THEN 1 ELSE product[n - 1] * shape[n] IN
  product

Exact(shape) == Products(shape)[Len(shape)]

-----------------------------------------------------------------------------
(* Element types: a name is the (code, bits) that it stands for. *)

DType(code, bits) == [code |-> code, bits |-> bits]

\* DLPack's type codes; the code takes five of them.
Codes  == {"Bool", "Int", "UInt", "Float", "Bfloat", "Complex", "OpaqueHandle"}
DTypes == [code : Codes, bits : Nat]

\* kEntries
Supported ==
  {DType("Bool", 8), DType("Float", 16), DType("Float", 32), DType("Bfloat", 16)}
    \cup {DType(code, bits) : code \in {"Int", "UInt"}, bits \in {8, 16, 32, 64}}

Itemsize(dtype) == (dtype.bits + 7) \div 8

\* nb::ndarray::itemsize() and nbytes()
ElementSize(array) == (array.dtype.bits * array.lanes + 7) \div 8
Nbytes(array)      == Exact(array.shape) * ElementSize(array)

Buffers == [shape : Seq(Size), dtype : DTypes, size : Size, memory : Size \ {0}]

ASSUME BufferAssumption ==
  /\ WordMax \in Nat \ {0} /\ MaxBufferCalls \in Nat
  /\ None \notin Names /\ None \notin DTypes /\ None \notin Buffers /\ None \notin Nat
  /\ Shapes \subseteq Seq(Size)
  /\ Arrays \subseteq [shape : Seq(Size), dtype : DTypes, lanes : Nat]
  /\ \A a \in Arrays : Nbytes(a) \in Size

\* dtype_from_name and from_dlpack: None if they throw.
FromName(name) == IF name \in Supported THEN name ELSE None

FromDlpack(array) ==
  IF array.lanes = 1 /\ array.dtype \in Supported THEN array.dtype ELSE None

\* Mutant: a name relabels elements of any width.
ResolveDtype_AnyWidth(array, name) ==
  IF name = None THEN FromDlpack(array)
  ELSE IF FromName(name) # None /\ array.lanes = 1 THEN FromName(name) ELSE None

\* resolve_dtype: the array's own type, or a name for elements of the same width.
ResolveDtype(array, name) ==
  IF name = None THEN FromDlpack(array)
  ELSE IF FromName(name) # None /\ array.lanes = 1 /\ ElementSize(array) = Itemsize(name)
       THEN FromName(name)
       ELSE None

-----------------------------------------------------------------------------
(* Sizes: None if they overflow. *)

\* Mutant: the product is not checked.
ElementCount_Wraps(shape) ==
  LET count[n \in 0..Len(shape)] == IF n = 0 THEN 1 ELSE Word(count[n - 1] * shape[n]) IN
  count[Len(shape)]

\* One round of the loop of checked_element_count.
Multiplied(count, dim) ==
  IF count = None \/ (dim # 0 /\ count > WordMax \div dim) THEN None
  ELSE Word(count * dim)

Counts(shape) ==
  LET count[n \in 0..Len(shape)] ==
        IF n = 0 THEN 1 ELSE Multiplied(count[n - 1], shape[n]) IN
  count

\* checked_element_count
ElementCount(shape) == Counts(shape)[Len(shape)]

\* checked_byte_count
ByteCount(count, dtype) ==
  IF count = None \/ (count # 0 /\ Itemsize(dtype) > WordMax \div count) THEN None
  ELSE Word(count * Itemsize(dtype))

-----------------------------------------------------------------------------

VARIABLES
  buffer,       \* the PyBuffer, [shape, dtype, size, memory]; None if there is none
  held,         \* the program refers to it
  views,        \* arrays and tensors over its memory that are alive, [shape, dtype]
  copied,       \* bytes of the last memcpy into it
  last,         \* how the last call ended, and of a constructor what it was asked for
  bufferCalls

bufferVars == <<buffer, held, views, copied, last, bufferCalls>>

Ended(how, shape, dtype) == [how |-> how, shape |-> shape, dtype |-> dtype]

BufferInit ==
  /\ buffer = None /\ held = FALSE /\ views = {} /\ copied = 0
  /\ last = Ended("none", << >>, None)
  /\ bufferCalls = 0

BufferCall == bufferCalls < MaxBufferCalls /\ bufferCalls' = bufferCalls + 1

Throws(how) ==
  /\ last' = Ended(how, << >>, None)
  /\ UNCHANGED <<buffer, held, views, copied>>

\* Buffer::Buffer: newBuffer(0) gives none, so an empty buffer has one byte of memory.
\* The device may refuse any length.
Allocate(shape, dtype, length) ==
  LET size == ByteCount(ElementCount(shape), dtype) IN
  \/ /\ size # None
     /\ buffer' = [shape |-> shape, dtype |-> dtype, size |-> size,
                   memory |-> IF size = 0 THEN 1 ELSE size]
     /\ held'   = TRUE
     /\ copied' = length
     /\ last'   = Ended("made", shape, dtype)
  \/ /\ last' = Ended(IF size = None THEN "too large" ELSE "no memory", shape, dtype)
     /\ UNCHANGED <<buffer, held, copied>>

\* Buffer(array, dtype), which copies array.nbytes().
FromArray(array, name) ==
  LET dtype == ResolveDtype(array, name) IN
  /\ buffer = None
  /\ BufferCall
  /\ \/ dtype = None /\ Throws("dtype")
     \/ dtype # None /\ Allocate(array.shape, dtype, Nbytes(array)) /\ UNCHANGED views

\* Buffer.zeros and Buffer.empty; zeros fills the nbytes() of the buffer.
FromShape(shape, name) ==
  /\ buffer = None
  /\ BufferCall
  /\ \/ FromName(name) = None /\ Throws("dtype")
     \/ FromName(name) # None /\ Allocate(shape, name, 0) /\ UNCHANGED views

\* copy_from: the shape may differ, the type and the number of bytes may not.
CopyFrom(array, name) ==
  LET dtype == ResolveDtype(array, name) IN
  /\ held
  /\ BufferCall
  /\ IF dtype # None /\ dtype = buffer.dtype /\ Nbytes(array) = buffer.size
     THEN /\ copied' = Nbytes(array)
          /\ last'   = Ended("copied", << >>, None)
          /\ UNCHANGED <<buffer, held, views>>
     ELSE Throws("mismatch")

\* The new view has the shape of the buffer, and owns a reference to it.
Export(dtype) ==
  /\ views' = views \cup {[shape |-> buffer.shape, dtype |-> dtype]}
  /\ last'  = Ended("exported", << >>, None)
  /\ UNCHANGED <<buffer, held, copied>>

\* to_numpy: numpy has no bfloat16.
ToNumpy(name) ==
  LET dtype == IF name = None THEN buffer.dtype ELSE FromName(name) IN
  /\ held
  /\ BufferCall
  /\ IF dtype = None THEN Throws("dtype")
     ELSE IF Itemsize(dtype) # Itemsize(buffer.dtype) \/ dtype.code = "Bfloat" THEN Throws("type")
     ELSE Export(dtype)

\* __dlpack__ exports every type as it is.
ToDlpack ==
  /\ held
  /\ BufferCall
  /\ Export(buffer.dtype)

\* The program lets go of the Buffer, or of a view; the last reference takes the memory
\* (each array was made with the Buffer as its owner).
Forget ==
  /\ held
  /\ held'   = FALSE
  /\ buffer' = IF views = {} THEN None ELSE buffer
  /\ UNCHANGED <<views, copied, last, bufferCalls>>

ForgetView(view) ==
  /\ view \in views
  /\ views'  = views \ {view}
  /\ buffer' = IF ~held /\ views' = {} THEN None ELSE buffer
  /\ UNCHANGED <<held, copied, last, bufferCalls>>

BufferNext ==
  \/ \E array \in Arrays, name \in Names \cup {None} :
       FromArray(array, name) \/ CopyFrom(array, name)
  \/ \E shape \in Shapes, name \in Names : FromShape(shape, name)
  \/ \E name \in Names \cup {None} : ToNumpy(name)
  \/ ToDlpack \/ Forget
  \/ \E view \in views : ForgetView(view)

BufferSpec == BufferInit /\ [][BufferNext]_bufferVars

-----------------------------------------------------------------------------
(* Properties *)

\* A buffer holds exactly the bytes of its shape, and one is refused as too large only
\* if a product on the way to that number does not fit: a zero in front of it makes
\* every shape small, and no wrapped product lets a shape through (bindings.cpp:108-117,
\* 198-217).
SizesExact ==
  /\ buffer # None => buffer.size = Exact(buffer.shape) * Itemsize(buffer.dtype)
  /\ last.how \in {"made", "too large", "no memory"} =>
       (last.how = "too large" <=>
          \/ \E n \in 0..Len(last.shape) : Products(last.shape)[n] > WordMax
          \/ Exact(last.shape) * Itemsize(last.dtype) > WordMax)

\* However arrays are relabelled on the way in and out, every copy and every view spans
\* the memory that it was made for and no other (bindings.cpp:119-135, 141-144, 155-196).
\* That a view keeps its memory is the owner reference that nanobind holds for it, which
\* Forget and ForgetView take as given: the first conjunct only says what they do.
WithinMemory ==
  /\ views # {} => buffer # None
  /\ \A view \in views : Exact(view.shape) * Itemsize(view.dtype) = buffer.size
  /\ buffer # None => copied <= buffer.memory
  /\ last.how = "copied" /\ held => copied = buffer.size
=============================================================================
