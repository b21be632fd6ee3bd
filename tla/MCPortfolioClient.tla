------------------------- MODULE MCPortfolioClient --------------------------
(* Model values and bounds for PortfolioClient. *)
EXTENDS PortfolioClient, TLC

CONSTANTS d1, n1, n2

MCDids == {d1}
MCNames == {n1, n2}

\* Names are interchangeable: neither the doc relations nor the client
\* treat one name differently.
NameSymmetry == Permutations(MCNames)
=============================================================================
