-------------------------- MODULE MCChainDeepSwitch -------------------------
(* A deep switch meets an invalid block.                                   *)
EXTENDS ChainDatabase

CONSTANTS a1, a2, a3, a4, a5, b2, b3, b4, b5, b6, A, B

MCBlocks == {a1, a2, a3, a4, a5, b2, b3, b4, b5, b6}
MCParent == (a1 :> Genesis) @@ (a2 :> a1) @@ (a3 :> a2) @@ (a4 :> a3) @@ (a5 :> a4)
            @@ (b2 :> a1) @@ (b3 :> b2) @@ (b4 :> b3) @@ (b5 :> b4) @@ (b6 :> b5)
MCSigner == (a1 :> A) @@ (a2 :> A) @@ (a3 :> A) @@ (a4 :> A) @@ (a5 :> A)
            @@ (b2 :> B) @@ (b3 :> B) @@ (b4 :> B) @@ (b5 :> B) @@ (b6 :> B)
MCTxs == [b \in MCBlocks |-> << >>]
MCSpends == << >>
=============================================================================
