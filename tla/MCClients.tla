------------------------------ MODULE MCClients ------------------------------
(* The client fmt is made again once, which is what the others see of it;  *)
(* so is rfs; the first failure of srs is its last.                        *)
EXTENDS Clients

LoopsForModel == [fmt |-> 2, rfs |-> 2, srs |-> 1]
=============================================================================
