-------------------------------- MODULE Shapes --------------------------------
(***************************************************************************)
(* Shapes with dynamic dimensions, and the loops over them that the launch *)
(* computations and the argument packing have in common.                   *)
(***************************************************************************)
EXTENDS Integers, Sequences, SequencesExt

Dynamic == -1 \* ShapedType::kDynamic and TensorArgDesc::kDynamic

\* The dynamic dimensions of a shape, or the dynamic strides, in order.
DynamicDims(shape) ==
  FoldLeftDomain(LAMBDA dims, d : IF shape[d] = Dynamic THEN Append(dims, d) ELSE dims, <<>>, shape)

Product(s) == FoldLeft(LAMBDA x, y : x * y, 1, s)
SumOf(s) == FoldLeft(LAMBDA x, y : x + y, 0, s)
=============================================================================
