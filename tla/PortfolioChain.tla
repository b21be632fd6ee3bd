--------------------------- MODULE PortfolioChain ---------------------------
(***************************************************************************)
(* The chain as the query surface sees it: a growing sequence of blocks,  *)
(* each holding a portfolio Storage that satisfies the doc comments.  How *)
(* one block's storage follows from the one before is runtime logic that  *)
(* is not in the repository, so any valid storage may follow any other.    *)
(***************************************************************************)
EXTENDS PortfolioStorage, Sequences

CONSTANT MaxBlocks  \* bound on the length of the chain

ASSUME MaxBlocks \in Nat \ {0}

VARIABLE chain      \* chain[b] is the Storage of block b; Len(chain) is the tip

ChainInit == chain \in { <<s>> : s \in ValidStorages }

\* A new block is imported.
NewBlock ==
    \E s \in ValidStorages :
        /\ Len(chain) < MaxBlocks
        /\ chain' = Append(chain, s)

=============================================================================
