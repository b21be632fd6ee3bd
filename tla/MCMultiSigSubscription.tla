---------------------- MODULE MCMultiSigSubscription -----------------------
(* Model values and bounds for MultiSigSubscription. *)
EXTENDS MultiSigSubscription

CONSTANTS s1, s2, s3

MCSigners == {s1, s2, s3}
=============================================================================
