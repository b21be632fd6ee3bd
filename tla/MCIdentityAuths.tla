-------------------------- MODULE MCIdentityAuths ---------------------------
(* Model values and bounds for IdentityAuths. *)
EXTENDS IdentityAuths

CONSTANTS zeroDid, d1, zeroSig, k1

MCDids == {zeroDid, d1}
MCSignatories == {zeroSig, k1}
=============================================================================
