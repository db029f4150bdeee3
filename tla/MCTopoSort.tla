---------------------------- MODULE MCTopoSort ----------------------------
EXTENDS TopoSort, TLC

\* a diamond 0 -> {1, 2} -> 3 and an isolated node 4
MCDiamond == {<<0, 1>>, <<0, 2>>, <<1, 3>>, <<2, 3>>}
\* a chain 0 -> 1 -> 2
MCChain == {<<0, 1>>, <<1, 2>>}
=============================================================================
