--------------------------- MODULE AcmeFederationMC ---------------------------
(***************************************************************************)
(* AcmeFederation for TLC: two challenges that share a digest.             *)
(***************************************************************************)
EXTENDS AcmeFederation

CONSTANTS ref1, ref2, a, b, c

Shared == [r \in Refs |-> IF r = ref1 THEN {a, b} ELSE {b, c}]
=============================================================================
