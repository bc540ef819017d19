-------------------------- MODULE MCShadowScanner --------------------------
(* ShadowScanner for TLC: one market of one asset, listed from the start. *)
EXTENDS ShadowScanner, TLC

CONSTANTS btc, m1

OneAssetOf == m1 :> btc
OneOpen    == m1 :> 0
OneClose   == m1 :> 3

\* A signal every rule approves, and one whose recommended side is too thin.
Depth(y, n) == [d \in {"yes", "no"} |-> IF d = "yes" THEN y ELSE n]
Good == [side |-> "yes", edge |-> 400, ci |-> 10, depth |-> Depth(300, 300),
         comparator |-> "above", strike |-> 1000, reference |-> 1010]
Thin == [Good EXCEPT !.depth = Depth(60, 300)]

GoodOnly == {Good}
GoodOrThin == {Good, Thin}

FillSymmetry == Permutations(Fill)
=============================================================================
