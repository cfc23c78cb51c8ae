------------------------------ MODULE MCTokens ------------------------------
(***************************************************************************)
(* Instances of Tokens for TLC.                                            *)
(***************************************************************************)
EXTENDS Tokens

CONSTANTS i1, i2, s1, s2

TwoInstances == {i1, i2}
TwoSecrets == {s1, s2}

=============================================================================
