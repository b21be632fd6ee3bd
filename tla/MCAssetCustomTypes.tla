------------------------- MODULE MCAssetCustomTypes -------------------------
(* Model values and bounds for AssetCustomTypes. *)
EXTENDS AssetCustomTypes

CONSTANT n1

\* Two contents, one of them empty.
MCNames == {n1, EmptyBytes}
=============================================================================
