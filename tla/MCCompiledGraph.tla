-------------------------- MODULE MCCompiledGraph --------------------------
(***************************************************************************)
(* The programs that CompiledGraph is checked on.                          *)
(***************************************************************************)
EXTENDS CompiledGraph

Buffer(shape)           == [shape |-> shape, strides |-> <<>>]
Strided(shape, strides) == [shape |-> shape, strides |-> strides]
Do(op, ins, shape)      == [op |-> op, ins |-> ins, shape |-> shape, attr |-> "none"]
With(op, ins, shape, attr) == [op |-> op, ins |-> ins, shape |-> shape, attr |-> attr]
Result(v)               == [value |-> v, strides |-> <<>>]
Program(args, ops, results) ==
    [args |-> args, ops |-> ops, results |-> [i \in DOMAIN results |-> Result(results[i])], tiles |-> {}]
\* A program that is compiled along its iteration spaces' maps too, with these tiles.
Tiled(program, tiles) == [program EXCEPT !.tiles = tiles]
Fold(mode, in, dims, shape) == With("reduce", <<in>>, shape, [dims |-> dims, mode |-> mode])
Sum(in, dims, shape)    == Fold("add", in, dims, shape)
SliceOf(in, starts, limits, steps, shape) ==
    With("slice", <<in>>, shape, [starts |-> starts, limits |-> limits, strides |-> steps])

\* Selections by each comparator in turn, of the last one and the first operand.
Selections(comparators) ==
    FlattenSeq([k \in DOMAIN comparators |->
        <<With("cmp", <<IF k = 1 THEN 1 ELSE 2 * k, 2>>, <<2>>, comparators[k]),
          Do("binary_select", <<2 * k + 1, IF k = 1 THEN 2 ELSE 2 * k, 1>>, <<2>>)>>])
Number(n) == With("constant", <<>>, <<2, 4>>, n)
\* An operation on -2 .. 1 and on 3 or -3.
Division(op) ==
    Program(<<Buffer(<<2, 4>>)>>,
            <<With("iota", <<>>, <<2, 4>>, 2), Number(2), Do("sub", <<2, 3>>, <<2, 4>>), With("iota", <<>>, <<2, 4>>, 1),
              Number(6), Do("mul", <<5, 6>>, <<2, 4>>), Number(3), Do("sub", <<8, 7>>, <<2, 4>>),
              Do(op, <<4, 9>>, <<2, 4>>), Do("add", <<1, 10>>, <<2, 4>>)>>, <<11>>)

MCGraphs == {
    Tiled(Program(<<Buffer(<<2, 3>>), Buffer(<<2, 3>>)>>, <<Do("add", <<1, 2>>, <<2, 3>>)>>, <<3>>), {<<1, 2>>, <<2, 2>>}),
    Program(<<Strided(<<2, 3>>, <<1, 2>>)>>, <<Do("exp", <<1>>, <<2, 3>>)>>, <<2>>),
    Program(<<Strided(<<2, 3>>, <<1, 2>>)>>, <<With("transpose", <<1>>, <<3, 2>>, <<2, 1>>)>>, <<2>>),
    Program(<<Buffer(<<2, 4>>)>>, <<Do("reshape", <<1>>, <<4, 2>>)>>, <<2>>),
    Program(<<Buffer(<<2, 2>>), Strided(<<2, 2>>, <<1, 2>>)>>,
            <<With("cmp", <<1, 2>>, <<2, 2>>, "ogt"), With("softplus_fwd", <<1>>, <<2, 2>>, 1),
              With("swish_fwd", <<4>>, <<2, 2>>, 2), Do("binary_select", <<3, 4, 5>>, <<2, 2>>)>>, <<6>>),
    Program(<<Buffer(<<2, 1>>), Buffer(<<2, 3>>)>>,
            <<Do("broadcast", <<1>>, <<2, 3>>), Do("mul", <<2, 3>>, <<2, 3>>)>>, <<4>>),
    Tiled(Program(<<Buffer(<<2, 4>>)>>, <<Sum(1, <<2>>, <<2, 1>>)>>, <<2>>), {<<>>, <<2, 4>>}),
    Program(<<Buffer(<<2, 4>>)>>, <<Sum(1, <<1>>, <<1, 4>>), Do("exp", <<2>>, <<1, 4>>)>>, <<3>>),
    Tiled(Program(<<Buffer(<<2, 4>>)>>, <<Sum(1, <<2>>, <<2, 1>>), Do("broadcast", <<2>>, <<2, 4>>),
                                   Do("div", <<1, 3>>, <<2, 4>>)>>, <<4>>), {<<1, 4>>}),
    Program(<<Buffer(<<2, 2>>), Buffer(<<2, 3>>)>>, <<Do("matmul", <<1, 2>>, <<2, 3>>)>>, <<3>>),
    Tiled(Program(<<Buffer(<<2, 2>>), Buffer(<<2, 3>>)>>, <<With("concatenate", <<1, 2>>, <<2, 5>>, 2)>>, <<3>>), {<<>>}),
    Program(<<Buffer(<<2, 4>>)>>, <<SliceOf(1, <<0, 1>>, <<2, 4>>, <<1, 2>>, <<2, 2>>)>>, <<2>>),
    \* concatenations: reshaped, transposed, sliced across the parts, reduced
    Program(<<Buffer(<<2, 2>>), Buffer(<<2, 4>>)>>,
            <<With("concatenate", <<1, 2>>, <<2, 6>>, 2), Do("reshape", <<3>>, <<2, 3, 2>>),
              With("transpose", <<4>>, <<3, 2, 2>>, <<2, 3, 1>>)>>, <<5>>),
    Program(<<Buffer(<<2, 2>>), Buffer(<<2, 4>>)>>,
            <<With("concatenate", <<1, 2>>, <<2, 6>>, 2), SliceOf(3, <<0, 1>>, <<2, 6>>, <<1, 2>>, <<2, 3>>)>>, <<4>>),
    Program(<<Buffer(<<1, 4>>), Buffer(<<3, 4>>)>>,
            <<With("concatenate", <<1, 2>>, <<4, 4>>, 1), Sum(3, <<2>>, <<4, 1>>)>>, <<4>>),
    Program(<<Buffer(<<2, 3>>), Buffer(<<2, 3>>)>>,
            <<With("concatenate", <<1, 2>>, <<4, 3>>, 1), Sum(3, <<1>>, <<1, 3>>)>>, <<4>>),
    \* reductions: several dimensions in either order, dropped, broadcast back, of a transpose
    Program(<<Buffer(<<2, 3, 2>>)>>, <<Sum(1, <<1, 3>>, <<1, 3, 1>>)>>, <<2>>),
    Program(<<Buffer(<<2, 3, 2>>)>>, <<Sum(1, <<3, 1>>, <<1, 3, 1>>)>>, <<2>>),
    Program(<<Buffer(<<2, 3, 2>>)>>, <<Sum(1, <<2>>, <<2, 1, 2>>), Do("reshape", <<2>>, <<4>>)>>, <<3>>),
    Program(<<Buffer(<<2, 4>>)>>, <<With("transpose", <<1>>, <<4, 2>>, <<2, 1>>), Sum(2, <<2>>, <<4, 1>>),
                                   Do("broadcast", <<3>>, <<4, 2>>), Do("max", <<2, 4>>, <<4, 2>>)>>, <<5>>),
    Program(<<Buffer(<<2, 4>>)>>, <<Sum(1, <<2>>, <<2, 1>>), Do("broadcast", <<2>>, <<2, 4>>),
              Do("mul", <<1, 3>>, <<2, 4>>), Sum(4, <<1>>, <<1, 4>>)>>, <<5>>),
    \* matmuls: transposed operand, batch, bias, of a reduction
    Program(<<Buffer(<<2, 2>>), Buffer(<<3, 2>>)>>,
            <<With("transpose", <<2>>, <<2, 3>>, <<2, 1>>), Do("matmul", <<1, 3>>, <<2, 3>>)>>, <<4>>),
    Tiled(Program(<<Buffer(<<2, 2, 2>>), Buffer(<<2, 2, 3>>)>>, <<Do("matmul", <<1, 2>>, <<2, 2, 3>>)>>, <<3>>), {<<>>, <<1, 1, 1, 2>>}),
    Program(<<Buffer(<<2, 2>>), Buffer(<<2, 4>>), Buffer(<<1, 4>>)>>,
            <<Do("matmul", <<1, 2>>, <<2, 4>>), Do("broadcast", <<3>>, <<2, 4>>), Do("add", <<4, 5>>, <<2, 4>>),
              Do("reshape", <<6>>, <<2, 2, 2>>)>>, <<7>>),
    Program(<<Buffer(<<2, 4>>), Buffer(<<4, 2>>)>>,
            <<Do("matmul", <<1, 2>>, <<2, 2>>), Sum(3, <<2>>, <<2, 1>>)>>, <<4>>),
    Program(<<Buffer(<<1, 2>>), Buffer(<<2, 4>>)>>,
            <<Do("matmul", <<1, 2>>, <<1, 4>>), Do("broadcast", <<3>>, <<2, 4>>)>>, <<4>>),
    \* values without a buffer
    Program(<<Buffer(<<2, 3>>), Buffer(<<>>)>>,
            <<With("iota", <<>>, <<2, 3>>, 2), Do("splat", <<2>>, <<2, 3>>), Do("mul", <<3, 4>>, <<2, 3>>),
              Do("add", <<1, 5>>, <<2, 3>>)>>, <<6>>),
    \* strip mining: masked and padded tails, two loops, prologues and epilogues
    Program(<<Buffer(<<2, 3>>)>>, <<Do("exp", <<1>>, <<2, 3>>), Sum(2, <<2>>, <<2, 1>>)>>, <<3>>),
    Program(<<Buffer(<<2, 3>>)>>, <<Fold("max", 1, <<2>>, <<2, 1>>)>>, <<2>>),
    Program(<<Buffer(<<2, 3>>)>>, <<Fold("mul", 1, <<2>>, <<2, 1>>)>>, <<2>>),
    Program(<<Buffer(<<3, 2>>)>>, <<Fold("mul_no_zeros", 1, <<1>>, <<1, 2>>)>>, <<2>>),
    Program(<<Buffer(<<3, 2, 3>>)>>, <<Fold("avg", 1, <<1, 3>>, <<1, 2, 1>>)>>, <<2>>),
    Program(<<Buffer(<<3, 2, 3>>)>>, <<Do("exp", <<1>>, <<3, 2, 3>>), Fold("max", 2, <<1, 3>>, <<1, 2, 1>>)>>, <<3>>),
    Program(<<Buffer(<<2, 6>>)>>, <<Fold("norm2", 1, <<2>>, <<2, 1>>)>>, <<2>>),
    Program(<<Strided(<<2, 3>>, <<1, 2>>)>>, <<Fold("norm1", 1, <<2>>, <<2, 1>>)>>, <<2>>),
    Program(<<Buffer(<<2, 3>>)>>, <<Do("convert", <<1>>, <<2, 3>>), Fold("amax", 2, <<2>>, <<2, 1>>)>>, <<3>>),
    Program(<<Buffer(<<2, 1>>)>>, <<Do("broadcast", <<1>>, <<2, 3>>), Fold("min", 2, <<2>>, <<2, 1>>)>>, <<3>>),
    Program(<<Buffer(<<1, 3>>), Buffer(<<2, 3>>)>>,
            <<Do("broadcast", <<1>>, <<2, 3>>), Do("mul", <<2, 3>>, <<2, 3>>), Sum(4, <<2>>, <<2, 1>>)>>, <<5>>),
    Program(<<Buffer(<<2, 3>>)>>,
            <<With("iota", <<>>, <<2, 3>>, 2), Do("add", <<1, 2>>, <<2, 3>>), Sum(3, <<2>>, <<2, 1>>)>>, <<4>>),
    Program(<<Buffer(<<2, 3>>), Buffer(<<3, 2>>)>>,
            <<Do("exp", <<1>>, <<2, 3>>), Do("matmul", <<3, 2>>, <<2, 2>>)>>, <<4>>),
    Program(<<Buffer(<<2, 2, 3>>), Buffer(<<6, 2>>)>>,
            <<With("transpose", <<1>>, <<2, 3, 2>>, <<1, 3, 2>>), Do("reshape", <<3>>, <<2, 6>>),
              Do("matmul", <<4, 2>>, <<2, 2>>)>>, <<5>>),
    \* an outer contraction around an inner one
    Program(<<Buffer(<<2, 4>>)>>,
            <<Fold("max", 1, <<2>>, <<2, 1>>), Do("broadcast", <<2>>, <<2, 4>>), Do("sub", <<1, 3>>, <<2, 4>>),
              Do("exp", <<4>>, <<2, 4>>), Sum(5, <<2>>, <<2, 1>>), Do("broadcast", <<6>>, <<2, 4>>),
              Do("div", <<5, 7>>, <<2, 4>>)>>, <<8>>),
    \* tiles found again: in both branches and after them, and transposed
    Program(<<Buffer(<<2, 2>>), Buffer(<<2, 2>>)>>,
            <<Do("exp", <<1>>, <<2, 2>>), Sum(3, <<2>>, <<2, 1>>), Do("broadcast", <<4>>, <<2, 2>>),
              Do("mul", <<2, 5>>, <<2, 2>>), With("concatenate", <<4, 6>>, <<2, 3>>, 2),
              Do("broadcast", <<4>>, <<2, 3>>), Do("add", <<7, 8>>, <<2, 3>>)>>, <<9>>),
    Program(<<Buffer(<<2, 2>>)>>,
            <<Do("exp", <<1>>, <<2, 2>>), With("transpose", <<2>>, <<2, 2>>, <<2, 1>>),
              Do("add", <<2, 3>>, <<2, 2>>)>>, <<4>>),
    Program(<<Buffer(<<2, 4>>)>>,
            <<Do("exp", <<1>>, <<2, 4>>), With("transpose", <<2>>, <<4, 2>>, <<2, 1>>),
              Do("matmul", <<2, 3>>, <<2, 2>>)>>, <<4>>),
    \* a slice that drops the first part
    Program(<<Buffer(<<2, 2>>), Buffer(<<2, 1>>), Buffer(<<2, 2>>)>>,
            <<With("concatenate", <<1, 2, 3>>, <<2, 5>>, 2), SliceOf(4, <<0, 2>>, <<2, 5>>, <<1, 1>>, <<2, 3>>)>>, <<5>>),
    \* two results
    Program(<<Buffer(<<2, 4>>)>>, <<Do("exp", <<1>>, <<2, 4>>), With("transpose", <<2>>, <<4, 2>>, <<2, 1>>)>>, <<2, 3>>),
    Program(<<Buffer(<<2, 4>>)>>, <<Sum(1, <<2>>, <<2, 1>>), Do("broadcast", <<2>>, <<2, 4>>),
                                   Do("div", <<1, 3>>, <<2, 4>>)>>, <<4, 2>>),
    Program(<<Buffer(<<2, 4>>)>>, <<Do("exp", <<1>>, <<2, 4>>), Do("reshape", <<2>>, <<4, 2>>)>>, <<2, 3>>),
    \* an outer contraction whose extent no tile type has
    Program(<<Buffer(<<2, 3>>)>>, <<Sum(1, <<2>>, <<2, 1>>), Do("broadcast", <<2>>, <<2, 3>>), Do("mul", <<1, 3>>, <<2, 3>>),
                                   Sum(4, <<2>>, <<2, 1>>)>>, <<5>>),
    \* what the reference does not compute: dropped dimensions, batches of batches, softplus with beta 0
    Program(<<Buffer(<<2, 3, 2>>)>>, <<Sum(1, <<1, 3>>, <<3>>)>>, <<2>>),
    Program(<<Buffer(<<1, 2, 2, 2>>), Buffer(<<1, 2, 2, 2>>)>>, <<Do("matmul", <<1, 2>>, <<1, 2, 2, 2>>)>>, <<3>>),
    Program(<<Buffer(<<2, 2>>)>>, <<With("softplus_fwd", <<1>>, <<2, 2>>, 0)>>, <<2>>),
    \* activations, their gradients, comparators, integers of both signs, division by 0
    Program(<<Buffer(<<2>>)>>, <<Do("relu_fwd", <<1>>, <<2>>), Do("sigmoid_fwd", <<2>>, <<2>>), Do("gelu_fwd", <<3>>, <<2>>),
              Do("gelu_approx_tanh_fwd", <<4>>, <<2>>), Do("neg", <<5>>, <<2>>), Do("rsqrt", <<6>>, <<2>>),
              Do("reciprocal", <<7>>, <<2>>), Do("add_square", <<1, 8>>, <<2>>)>>, <<9>>),
    Program(<<Buffer(<<2>>)>>, <<With("elu_fwd", <<1>>, <<2>>, 2), With("swish_fwd", <<2>>, <<2>>, 2),
                                 With("softplus_fwd", <<3>>, <<2>>, 2)>>, <<4>>),
    Program(<<Buffer(<<2>>), Buffer(<<2>>)>>, <<Do("relu_bwd", <<1, 2>>, <<2>>), Do("gelu_bwd", <<1, 3>>, <<2>>),
              Do("sigmoid_bwd", <<1, 4>>, <<2>>), Do("tanh_bwd", <<1, 5>>, <<2>>),
              Do("gelu_approx_tanh_bwd", <<1, 6>>, <<2>>)>>, <<7>>),
    Program(<<Buffer(<<2>>), Buffer(<<2>>)>>, <<With("softplus_bwd", <<1, 2>>, <<2>>, 2), With("swish_bwd", <<1, 3>>, <<2>>, 2),
              With("elu_bwd", <<1, 4>>, <<2>>, 2)>>, <<5>>),
    Program(<<Buffer(<<2>>), Buffer(<<2>>)>>, Selections(<<"eq", "neq", "gt", "ge", "lt", "le">>), <<14>>),
    Program(<<Buffer(<<2>>), Buffer(<<2>>)>>, Selections(<<"oeq", "one", "ogt", "oge", "olt", "ole">>), <<14>>),
    Program(<<Buffer(<<2>>), Buffer(<<2>>)>>, Selections(<<"ueq", "une", "ugt", "uge", "ult", "ule">>), <<14>>),
    Division("div"), Division("mod"), Division("rem"),
    Program(<<Buffer(<<2, 4>>)>>, <<With("iota", <<>>, <<2, 4>>, 2), Do("div", <<2, 2>>, <<2, 4>>),
                                    Do("add", <<1, 3>>, <<2, 4>>)>>, <<4>>),
    \* operations that canonicalization merges, folds and erases
    Program(<<Buffer(<<2, 3, 1>>)>>,
            <<With("transpose", <<1>>, <<3, 1, 2>>, <<2, 3, 1>>), With("transpose", <<2>>, <<1, 3, 2>>, <<2, 1, 3>>)>>, <<3>>),
    Program(<<Buffer(<<2, 3>>)>>,
            <<With("transpose", <<1>>, <<3, 2>>, <<2, 1>>), With("transpose", <<2>>, <<2, 3>>, <<2, 1>>),
              Do("exp", <<3>>, <<2, 3>>)>>, <<4>>),
    Program(<<Buffer(<<2, 7>>)>>,
            <<SliceOf(1, <<0, 1>>, <<2, 7>>, <<1, 2>>, <<2, 3>>), SliceOf(2, <<1, 1>>, <<2, 3>>, <<1, 1>>, <<1, 2>>)>>, <<3>>),
    Program(<<Buffer(<<1, 1>>)>>, <<Do("broadcast", <<1>>, <<1, 3>>), Do("broadcast", <<2>>, <<2, 3>>)>>, <<3>>),
    Program(<<Buffer(<<2, 4>>)>>, <<Do("reshape", <<1>>, <<8>>), Do("reshape", <<2>>, <<4, 2>>), Do("exp", <<2>>, <<8>>)>>, <<3>>),
    Program(<<Buffer(<<2, 4>>)>>, <<Do("reshape", <<1>>, <<8>>), Do("reshape", <<2>>, <<2, 4>>),
                                    With("concatenate", <<3>>, <<2, 4>>, 1), Do("exp", <<4>>, <<2, 4>>)>>, <<5>>),
    Program(<<Buffer(<<2, 4>>)>>, <<SliceOf(1, <<0, 0>>, <<2, 4>>, <<1, 1>>, <<2, 4>>), Fold("avg", 2, <<2, 1>>, <<1, 1>>)>>, <<3>>),
    \* along iteration spaces: strides, no operations, scalars, two results, loops with overhangs
    Tiled(Program(<<Buffer(<<2, 4>>), Strided(<<2, 4>>, <<1, 2>>)>>,
                  <<Do("add", <<1, 2>>, <<2, 4>>), Do("convert", <<3>>, <<2, 4>>)>>, <<4>>), {<<>>, <<1, 2>>}),
    Tiled(Program(<<Buffer(<<2, 4>>)>>, <<>>, <<1>>), {<<>>, <<1, 2>>}),
    Tiled(Program(<<Buffer(<<2, 4>>), Buffer(<<>>)>>,
                  <<Do("splat", <<2>>, <<2, 4>>), Do("mul", <<1, 3>>, <<2, 4>>), Number(3),
                    Do("add", <<4, 5>>, <<2, 4>>)>>, <<6>>), {<<2, 2>>}),
    Tiled(Program(<<Buffer(<<2, 4>>), Buffer(<<2, 1>>)>>,
                  <<Do("exp", <<1>>, <<2, 4>>), Do("broadcast", <<2>>, <<2, 4>>), Do("mul", <<3, 4>>, <<2, 4>>)>>, <<5, 3>>),
          {<<1, 2>>}),
    Tiled(Program(<<Buffer(<<2, 4, 2>>)>>, <<Fold("norm2", 1, <<2>>, <<2, 1, 2>>), Do("exp", <<2>>, <<2, 1, 2>>)>>, <<3>>),
          {<<1, 4, 1>>}),
    Tiled(Program(<<Buffer(<<2, 3>>), Buffer(<<3, 2>>), Buffer(<<1, 2>>)>>,
                  <<Do("matmul", <<1, 2>>, <<2, 2>>), Do("broadcast", <<3>>, <<2, 2>>), Do("add", <<4, 5>>, <<2, 2>>)>>, <<6>>),
          {<<2, 2, 2>>, <<2, 1, 2>>, <<1, 2, 1>>}),
    Tiled(Program(<<Buffer(<<2, 4>>), Buffer(<<4, 2>>)>>,
                  <<Do("exp", <<1>>, <<2, 4>>), Do("matmul", <<3, 2>>, <<2, 2>>)>>, <<4>>), {<<1, 2, 2>>}),
    \* graphs that do not verify
    Program(<<Buffer(<<2, 3>>)>>, <<With("transpose", <<1>>, <<2, 3>>, <<2, 1>>)>>, <<2>>),
    Program(<<Buffer(<<2, 3>>)>>, <<With("transpose", <<1>>, <<2, 2>>, <<1, 1>>)>>, <<2>>),
    Program(<<Buffer(<<2, 3>>), Buffer(<<2, 3>>)>>, <<Do("matmul", <<1, 2>>, <<2, 3>>)>>, <<3>>),
    Program(<<Buffer(<<2, 2, 3>>), Buffer(<<1, 3, 2>>)>>, <<Do("matmul", <<1, 2>>, <<2, 2, 2>>)>>, <<3>>),
    Program(<<Buffer(<<2, 2>>), Buffer(<<2, 3>>)>>, <<With("concatenate", <<1, 2>>, <<2, 4>>, 2)>>, <<3>>),
    Program(<<Buffer(<<2, 2>>), Buffer(<<3, 2>>)>>, <<With("concatenate", <<1, 2>>, <<2, 4>>, 2)>>, <<3>>),
    Program(<<Buffer(<<2, 4>>)>>, <<SliceOf(1, <<0, 1>>, <<2, 5>>, <<1, 2>>, <<2, 2>>)>>, <<2>>),
    Program(<<Buffer(<<2, 4>>)>>, <<SliceOf(1, <<0, 1>>, <<2, 4>>, <<1, 2>>, <<2, 3>>)>>, <<2>>),
    Program(<<Buffer(<<2, 3>>)>>, <<Do("broadcast", <<1>>, <<2, 3>>)>>, <<2>>),
    Program(<<Buffer(<<2, 3>>)>>, <<Do("broadcast", <<1>>, <<4, 3>>)>>, <<2>>),
    Program(<<Buffer(<<2, 3>>)>>, <<Do("reshape", <<1>>, <<4, 2>>)>>, <<2>>),
    Program(<<Buffer(<<2, 3>>)>>, <<Sum(1, <<2>>, <<1, 3>>)>>, <<2>>),
    Program(<<Buffer(<<2, 3>>)>>, <<Sum(1, <<2, 2>>, <<2, 1>>)>>, <<2>>),
    Program(<<Buffer(<<2, 3>>)>>, <<Sum(1, <<3>>, <<2, 3>>)>>, <<2>>),
    Program(<<Buffer(<<2, 3>>), Buffer(<<3, 2>>)>>, <<Do("add", <<1, 2>>, <<2, 3>>)>>, <<3>>),
    Program(<<>>, <<With("iota", <<>>, <<2, 3>>, 3)>>, <<1>>)
}
\* A column is the first argument, and is broadcast.
MCColumnFirst ==
    {Tiled(Program(<<Buffer(<<2, 1>>), Buffer(<<2, 4>>)>>,
                   <<Do("broadcast", <<1>>, <<2, 4>>), Do("mul", <<2, 3>>, <<2, 4>>)>>, <<4>>), {<<1, 2>>})}
\* Reductions of a unit dimension, which they keep.
MCUnitReductions ==
    {Program(<<Buffer(<<2, 1>>)>>, <<Fold(mode, 1, <<2>>, <<2, 1>>)>>, <<2>>) :
        mode \in {"add", "norm1", "norm2", "amax", "mul_no_zeros"}}
=============================================================================
