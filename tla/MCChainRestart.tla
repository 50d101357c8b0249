---------------------------- MODULE MCChainRestart ----------------------------
(* Crashes and shutdowns, with forks of one block.                           *)
EXTENDS ChainDatabase

CONSTANTS a1, a2, a3, a4, a5, a6, b3, b4, A, B, t1, x

MCBlocks == {a1, a2, a3, a4, a5, a6, b3, b4}
MCParent == (a1 :> Genesis) @@ (a2 :> a1) @@ (a3 :> a2) @@ (a4 :> a3) @@ (a5
            :> a4) @@ (a6 :> a5) @@ (b3 :> a2) @@ (b4 :> b3)
MCSigner == (a1 :> A) @@ (a2 :> B) @@ (a3 :> A) @@ (a4 :> B) @@ (a5 :> A) @@
            (a6 :> B) @@ (b3 :> B) @@ (b4 :> A)
MCTxs == [b \in MCBlocks |-> IF b = a2 THEN <<t1>> ELSE << >>]
MCSpends == (t1 :> x)
=============================================================================
