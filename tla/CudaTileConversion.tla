------------------------- MODULE CudaTileConversion -------------------------
(***************************************************************************)
(* Conversion of a tile's code to CUDA Tile operations                     *)
(* (lib/Conversion/TensorToCudaTile).  Operations with one counterpart     *)
(* keep their name; "extract", "tile_reduce" and "mma" are CUDA Tile's.    *)
(***************************************************************************)
EXTENDS OpVerifiers, CodeRewriting, TileReductions

\* Extents of a tile type are powers of two.
TileType(shape) == \A d \in DOMAIN shape : shape[d] = PowerOf2Ceil(shape[d])

ConvertIota(s, i) ==
    LET extent == i.shape[i.attr]
        ranked == [d \in DOMAIN i.shape |-> IF d = i.attr THEN extent ELSE 1]
        line == EmitTile(s, "iota", <<>>, <<extent>>, 1)
        unit == EmitUnlessType(ranked = <<extent>>, line, "reshape", ranked, "none")
    IN  EmitUnlessType(ranked = i.shape, unit, "broadcast", i.shape, "none")

ConvertSplat(s, i) ==
    LET scalar == EmitTile(s, "scalar", <<>>, <<>>, i.attr)
        unit == EmitTile(scalar, "reshape", <<scalar.value>>, [d \in DOMAIN i.shape |-> 1], "none")
    IN  EmitTile(unit, "broadcast", <<unit.value>>, i.shape, "none")

\* A reshape to the type of its input, or back to the type before the last reshape, disappears.
ConvertReshape(s, i, in) ==
    LET previous == Definition(s.emitted, Renamed(s, i.ins[1]))
        input == [s EXCEPT !.value = Renamed(s, i.ins[1])]
    IN  IF in[1] = i.shape THEN input
        ELSE IF previous.op = "reshape" /\ Definition(s.emitted, previous.ins[1]).shape = i.shape
        THEN [s EXCEPT !.value = previous.ins[1]]
        ELSE EmitTile(s, "reshape", <<input.value>>, i.shape, "none")

\* The reduced dimensions are merged into one, which the reduction removes.
ConvertReduce(s, i, in) ==
    LET dims == i.attr.dims
        kept == SubSeq(in[1], 1, Head(dims) - 1)
        merged == Append(kept, Volume([j \in DOMAIN dims |-> in[1][dims[j]]]))
        mode == i.attr.mode
        input == [s EXCEPT !.value = Renamed(s, i.ins[1])]
        prepared == EmitUnlessType(i.attr.prologueApplied \/ mode \notin {"amax", "norm1", "norm2", "mul_no_zeros"},
                                   input, "prologue", in[1], mode)
        line == EmitUnlessType(Len(dims) = 1, prepared, "reshape", merged, "none")
        reduced == EmitTile(line, "tile_reduce", <<line.value>>, kept,
                            [mode |-> mode, dim |-> Len(kept) + 1])
        finished == EmitUnlessType(mode \notin {"norm2", "avg"}, reduced, "epilogue", kept,
                                   [mode |-> mode, extent |-> i.attr.extent])
    IN  IF ReductionFolds(in[1], i.shape, dims) THEN input
        ELSE IF dims # [j \in DOMAIN dims |-> Len(in[1]) - Len(dims) + j] THEN Failed
        ELSE EmitUnlessType(kept = i.shape, finished, "reshape", i.shape, "none")

ConvertMatmul(s, i, in) ==
    LET operands == [k \in DOMAIN i.ins |-> Renamed(s, i.ins[k])]
        zero == EmitTile(s, "constant", <<>>, i.shape, Pad("zero"))
    IN  IF Len(i.shape) \notin {2, 3} \/ ~MatmulVerified(in, i.shape) THEN Failed
        ELSE IF Len(operands) = 3 THEN EmitTile(s, "mma", operands, i.shape, "none")
        ELSE EmitTile(zero, "mma", Append(operands, zero.value), i.shape, "none")

ConvertOne(s, i, op) ==
    EmitTile(s, op, [k \in DOMAIN i.ins |-> Renamed(s, i.ins[k])], i.shape, i.attr)

RECURSIVE ConvertCode(_, _, _)

\* The regions of an operation, each with its arguments and the value it yields.
RECURSIVE ConvertRegions(_, _, _)
ConvertRegions(s, code, regions) ==
    IF regions = <<>> THEN [s |-> s, regions |-> <<>>]
    ELSE LET first == Head(regions)
             inner == ConvertCode([s EXCEPT !.code = <<>>], code, first.code)
             rest == IF inner = Failed THEN Failed
                     ELSE ConvertRegions([inner EXCEPT !.code = s.code], code, Tail(regions))
         IN  IF rest = Failed THEN Failed
             ELSE [rest EXCEPT !.regions =
                      <<Region(first.args, inner.code, Renamed(inner, first.yield))>> \o @]

ConvertRegionOp(s, code, i) ==
    LET converted == ConvertRegions(s, code, i.regions)
        one == ConvertOne(converted.s, i, i.op)
    IN  IF converted = Failed THEN Failed
        ELSE [one EXCEPT !.code = Append(Front(@), WithRegions(Last(@), converted.regions))]

ConvertOp(s, code, i) ==
    LET in == OperandShapes(code, i)
    IN  CASE i.op = "iota"         -> ConvertIota(s, i)
          [] i.op = "splat"        -> ConvertSplat(s, i)
          [] i.op = "reshape"      -> ConvertReshape(s, i, in)
          [] i.op = "slice"        -> ConvertOne(s, i, "extract")
          [] i.op = "reduce"       -> ConvertReduce(s, i, in)
          [] i.op = "matmul"       -> ConvertMatmul(s, i, in)
          [] i.op \in {"for", "if"} -> ConvertRegionOp(s, code, i)
          [] ~LowerablePointwise(i.op) -> Failed
          [] OTHER                 -> ConvertOne(s, i, i.op)

\* code is the whole tile's code, in which types are looked up.
ConvertCode(s, code, part) ==
    FoldLeft(LAMBDA s0, i :
                LET s1 == IF s0 = Failed THEN Failed ELSE ConvertOp(s0, code, i)
                IN  IF s1 = Failed THEN Failed ELSE Replacing(s1, i),
             s, part)

ConvertTile(code, next) ==
    LET converted == ConvertCode(Emitting(next), code, code)
    IN  IF converted = Failed THEN Failed
        ELSE IF \E i \in ToSet(AllInstructions(converted.code)) : ~TileType(i.shape) THEN Failed
        ELSE [code |-> converted.code, next |-> converted.next]
=============================================================================
