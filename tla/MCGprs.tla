------------------------------- MODULE MCGprs -------------------------------
(* Instances of Gprs.                                                      *)
EXTENDS Gprs

Setups2 == {"s1", "s2"}
Setups3 == {"s1", "s2", "s3"}
Deacts1 == {"d1"}
Deacts2 == {"d1", "d2"}
Lists1 == {"l1"}
=============================================================================
