------------------------------ MODULE MCSmsOut ------------------------------
(* Instances of SmsOut.                                                    *)
EXTENDS SmsOut

WithZero == 0 .. 3
=============================================================================
