---------------------------- MODULE MCChainForks ----------------------------
(* Three branches of valid blocks, three witnesses.                        *)
EXTENDS ChainDatabase

CONSTANTS a1, a2, a3, a4, b2, b3, c3, c4, c5, A, B, C, t1, t2, t3, x, y

MCBlocks == {a1, a2, a3, a4, b2, b3, c3, c4, c5}
MCParent == (a1 :> Genesis) @@ (a2 :> a1) @@ (a3 :> a2) @@ (a4 :> a3)
            @@ (b2 :> a1) @@ (b3 :> b2)
            @@ (c3 :> b2) @@ (c4 :> c3) @@ (c5 :> c4)
MCSigner == (a1 :> A) @@ (a2 :> A) @@ (a3 :> C) @@ (a4 :> A)
            @@ (b2 :> B) @@ (b3 :> C)
            @@ (c3 :> A) @@ (c4 :> B) @@ (c5 :> C)
MCTxs == [b \in MCBlocks |->
            CASE b = a2 -> <<t1>> [] b = b3 -> <<t2>> [] b = c4 -> <<t2, t3>> [] OTHER -> << >>]
MCTransactions == {t1, t2, t3}
MCSpends == (t1 :> x) @@ (t2 :> x) @@ (t3 :> y)
=============================================================================
