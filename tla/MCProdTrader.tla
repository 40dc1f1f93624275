---------------------------- MODULE MCProdTrader ----------------------------
(* Instances of ProdTrader for TLC.                                        *)
EXTENDS ProdTrader, TLC

\* Limits: two cents a leg and two open hedges, or three cents and one.
Small == [stake |-> 2, loss |-> 1, open |-> 2, edge |-> 1]
Single == [stake |-> 3, loss |-> 1, open |-> 1, edge |-> 1]
OnlySmall == {Small}
SmallOrSingle == {Small, Single}

\* Nothing but equality is ever asked of a market or of a key.
Symmetry == Permutations(Markets) \cup Permutations(Keys)
=============================================================================
