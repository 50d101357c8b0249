---------------------------- MODULE MCChainCrash ----------------------------
(* A crash in the middle of a switch of two blocks.                        *)
EXTENDS ChainDatabase

CONSTANTS a1, a2, a3, b2, b3, b4, A, B

MCBlocks == {a1, a2, a3, b2, b3, b4}
MCParent == (a1 :> Genesis) @@ (a2 :> a1) @@ (a3 :> a2) @@ (b2 :> a1) @@ (b3 :> b2)
            @@ (b4 :> b3)
MCSigner == (a1 :> A) @@ (a2 :> B) @@ (a3 :> A) @@ (b2 :> A) @@ (b3 :> B)
            @@ (b4 :> A)
MCTxs == [b \in MCBlocks |-> << >>]
MCSpends == << >>
=============================================================================
