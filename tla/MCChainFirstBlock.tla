-------------------------- MODULE MCChainFirstBlock -------------------------
(* A shutdown right after the first block.                                 *)
EXTENDS ChainDatabase

CONSTANTS a1, a2, A, B

MCBlocks == {a1, a2}
MCParent == (a1 :> Genesis) @@ (a2 :> a1)
MCSigner == (a1 :> A) @@ (a2 :> B)
MCTxs == [b \in MCBlocks |-> << >>]
MCSpends == << >>
=============================================================================
