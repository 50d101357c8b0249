---------------------------- MODULE MCChainInvalid ----------------------------
(* Blocks that do not apply: first, on the head, and on other branches.      *)
EXTENDS ChainDatabase

CONSTANTS z1, a1, a2, a3, b2, b3, b4, c2, c3, c4, d4, e5, A, B, t1, t2, x

MCBlocks == {z1, a1, a2, a3, b2, b3, b4, c2, c3, c4, d4, e5}
MCParent == (z1 :> Genesis) @@ (a1 :> Genesis) @@ (a2 :> a1) @@ (a3 :> a2)
            @@ (b2 :> a1) @@ (b3 :> b2) @@ (b4 :> b3) @@ (c2 :> a1) @@ (c3
            :> c2) @@ (c4 :> c3) @@ (d4 :> a3) @@ (e5 :> c4)
MCSigner == (z1 :> A) @@ (a1 :> A) @@ (a2 :> B) @@ (a3 :> A) @@ (b2 :> A) @@
            (b3 :> B) @@ (b4 :> A) @@ (c2 :> B) @@ (c3 :> A) @@ (c4 :> B) @@
            (d4 :> B) @@ (e5 :> A)
MCTxs == [b \in MCBlocks |-> CASE b = a2 -> <<t1>> [] b = b2 -> <<t2>> [] OTHER -> << >>]
MCSpends == (t1 :> x) @@ (t2 :> x)
=============================================================================
