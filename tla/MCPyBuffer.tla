------------------------------ MODULE MCPyBuffer ------------------------------
(* PyBuffer for TLC: sizes up to 31 bytes, element types of one to eight bytes. *)
EXTENDS PyBuffer

MCNames == {DType("UInt", 8), DType("UInt", 16), DType("Bfloat", 16), DType("Float", 32),
            DType("Int", 64), DType("Float", 64)}

\* Products that fit, that wrap to small numbers, and that start or end with a zero.
MCShapes == {<< >>, <<1>>, <<3>>, <<8>>, <<31>>, <<2, 2>>, <<4, 8>>, <<6, 11>>, <<0, 31, 31>>,
             <<31, 31, 0>>, <<2, 0>>, <<2, 4, 4>>}

Array(shape, code, bits, lanes) ==
  [shape |-> shape, dtype |-> DType(code, bits), lanes |-> lanes]

MCArrays == {Array(<<3>>, "UInt", 8, 1), Array(<<2, 2>>, "UInt", 16, 1), Array(<<4>>, "UInt", 16, 1),
             Array(<<1>>, "Float", 32, 1), Array(<<1>>, "Float", 64, 1), Array(<<1>>, "Int", 64, 1),
             Array(<<2>>, "UInt", 16, 2), Array(<<0>>, "Float", 32, 1)}
=============================================================================
