------------------------------- MODULE MCSmsIn -------------------------------
(* SmsIn with more messages than there are places, and a tpid of 0. *)
EXTENDS SmsIn
=============================================================================
