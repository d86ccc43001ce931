----------------------------- MODULE MCTileGrid -----------------------------
EXTENDS TileGrid

\* Output shape, iteration space and tile sizes: one to three dimensions,
\* static, dynamic and mixed, merged dimensions, single-tile dimensions in
\* every position, a zero extent, first or behind a product that saturates, and products beyond MaxI32 and MaxI64.
MCGraphs ==
  { <<<<5>>, <<5>>, <<2>> >>,
    <<<<4, 3>>, <<4, 3>>, <<2, 1>> >>,
    <<<<2, 2>>, <<4>>, <<1>> >>,
    <<<<0, 3>>, <<0, 3>>, <<1, 2>> >>,
    <<<<2, 1, 2>>, <<2, 1, 2>>, <<1, 1, 1>> >>,
    <<<<1, 3>>, <<1, 3>>, <<1, 1>> >>,
    <<<<5, 3>>, <<5, 3>>, <<1, 1>> >>,
    <<<<9, 9>>, <<9, 9>>, <<1, 1>> >>,
    <<<<7, 2, 0>>, <<7, 2, 0>>, <<1, 1, 1>> >>,
    <<<<Dynamic>>, <<Dynamic>>, <<2>> >>,
    <<<<2, Dynamic>>, <<2, Dynamic>>, <<1, 1>> >>,
    <<<<Dynamic, 2, 1>>, <<Dynamic, 2>>, <<2, 1>> >>,
    <<<<1, 2, Dynamic>>, <<2, Dynamic>>, <<2, 1>> >>,
    <<<<Dynamic, Dynamic>>, <<Dynamic, Dynamic>>, <<1, 1>> >>,
    <<<<4, 2, Dynamic>>, <<4, 2, Dynamic>>, <<1, 1, 2>> >>,
    <<<<Dynamic, 2, Dynamic>>, <<Dynamic, 2, Dynamic>>, <<1, 2, 2>> >> }

MCRequests ==
  {[outShape |-> g[1], iterShape |-> g[2], tile |-> g[3], persistent |-> p,
    smCount |-> s, occupancy |-> 1, native |-> n] :
     g \in MCGraphs, p \in BOOLEAN, s \in {0, 1, 3}, n \in BOOLEAN}
  \cup
  {[outShape |-> <<5>>, iterShape |-> <<5>>, tile |-> <<1>>, persistent |-> TRUE,
    smCount |-> 2, occupancy |-> o, native |-> n] : o \in {0, 1, 2, 4}, n \in BOOLEAN}

MCExtents == {0, 1, 3}
=============================================================================
