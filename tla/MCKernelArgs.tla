---------------------------- MODULE MCKernelArgs ----------------------------
EXTENDS KernelArgs

\* Kernels of up to two arguments: static, dynamic and strided tensors, with
\* singleton dimensions, and scalars of two types.  Of the tensors of rank 3, one
\* has its strides compiled in and one has them multiplied.
MCSignatures ==
  { <<>>,
    <<Tensor(<<2, 3>>)>>,
    <<Tensor(<<Dynamic, 3>>)>>,
    <<Tensor(<<3, Dynamic>>)>>,
    <<Tensor(<<Dynamic, 3, 3>>)>>,
    <<Tensor(<<Dynamic, Dynamic, 3>>)>>,
    <<Strided(<<2, 3>>, <<1, 2>>)>>,
    <<Strided(<<Dynamic, 1>>, <<Dynamic, 1>>)>>,
    <<Strided(<<Dynamic, 3>>, <<Dynamic, 1>>)>>,
    <<Scalar("f32")>>,
    <<Tensor(<<Dynamic>>), Scalar("f16")>>,
    <<Scalar("f32"), Strided(<<Dynamic>>, <<Dynamic>>)>>,
    <<Strided(<<Dynamic>>, <<Dynamic>>), Tensor(<<Dynamic>>)>> }

View(shape, strides, hasShape, hasStride) ==
  [kind |-> "tensor", type |-> "f32", null |-> FALSE, hasShape |-> hasShape,
   shape |-> shape, hasStride |-> hasStride, strides |-> IF hasStride THEN strides ELSE <<>>]

Other(kind, type, null) ==
  [kind |-> kind, type |-> type, null |-> null, hasShape |-> FALSE,
   shape |-> <<>>, hasStride |-> FALSE, strides |-> <<>>]

\* 9 is beyond MaxI32, and 9 * 2 beyond MaxI64: of <<3, 3, 3>> every size fits into
\* 32 bits and the outer stride does not.
Shapes == {<<2>>, <<9>>, <<2, 3>>, <<1, 3>>, <<2, 1>>, <<0, 3>>, <<3, 2>>, <<2, 9>>, <<3, 3, 3>>}
StridesOf(shape) ==
  CASE Len(shape) = 1 -> {<<1>>, <<2>>, <<9>>}
    [] Len(shape) = 2 -> {<<3, 1>>, <<1, 2>>, <<1, 1>>, <<2, 1>>, <<9, 1>>}
    [] OTHER -> {<<9, 3, 1>>}

MCArguments ==
  UNION {{View(s, st, TRUE, TRUE) : st \in StridesOf(s)} : s \in Shapes}
  \cup {View(s, <<>>, h, FALSE) : s \in Shapes, h \in BOOLEAN}
  \cup {Other("none", "f32", TRUE), Other("pointer", "f32", FALSE), Other("pointer", "f32", TRUE),
        Other("scalar", "f32", FALSE), Other("scalar", "f16", FALSE)}

MCOperands == {<<>>} \cup {<<a>> : a \in MCArguments} \cup {<<a, b>> : a, b \in MCArguments}
=============================================================================
