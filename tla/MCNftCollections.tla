-------------------------- MODULE MCNftCollections --------------------------
(* Model values and bounds for NftCollections. *)
EXTENDS NftCollections

CONSTANTS a1, a2

MCAssets == {a1, a2}
=============================================================================
