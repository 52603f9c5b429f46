---------------------------- MODULE MCRilRequests ----------------------------
(***************************************************************************)
(* Values for model checking RilRequests.                                  *)
(***************************************************************************)
EXTENDS RilRequests, TLC

TokenSymmetry == Permutations(Token)

(* Every request of the switch, for the runs about the table alone.        *)
AllRequests == Request \cup {"RADIO_POWER_OFF"}
=============================================================================
