-------------------------- MODULE MCNetRegistration --------------------------
(* NetRegistration with interchangeable tokens.                            *)
EXTENDS NetRegistration, TLC

TokenSymmetry == Permutations(Token)
=============================================================================
