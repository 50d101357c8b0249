--------------------------- MODULE MCChainOrphans ---------------------------
(* Two branches above one invalid block.                                   *)
EXTENDS ChainDatabase

CONSTANTS a1, a2, a3, a4, b2, b3, b4, b5, c4, c5, A, B

MCBlocks == {a1, a2, a3, a4, b2, b3, b4, b5, c4, c5}
MCParent == (a1 :> Genesis) @@ (a2 :> a1) @@ (a3 :> a2) @@ (a4 :> a3) @@ (b2 :> a1)
            @@ (b3 :> b2) @@ (b4 :> b3) @@ (b5 :> b4) @@ (c4 :> b3) @@ (c5 :> c4)
MCSigner == (a1 :> A) @@ (a2 :> B) @@ (a3 :> A) @@ (a4 :> B) @@ (b2 :> A)
            @@ (b3 :> B) @@ (b4 :> A) @@ (b5 :> B) @@ (c4 :> A) @@ (c5 :> B)
MCTxs == [b \in MCBlocks |-> << >>]
MCSpends == << >>
=============================================================================
