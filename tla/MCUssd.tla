------------------------------- MODULE MCUssd -------------------------------
(* Ussd with texts of the lengths at which packing goes over to the next   *)
(* byte, and of characters with all, one and every other bit set.  Beside  *)
(* a header of 2 bytes in messages of 7, the first text has room either    *)
(* way, the second only as it is, and the third is too long if packed.     *)
EXTENDS Ussd

MCSimHistory == <<"SIM_LOCK_SC_PIN1_REQ", "SIM_INIT_COMPLETE">>

MCTexts == {<<127, 1, 85, 64>>, <<127, 42, 1, 64, 85>>, <<64, 127, 1, 42, 85, 99, 127>>}

MCSaid ==
  {[alphabet |-> "gsm7", text |-> <<127, 1, 85, 64, 127, 42, 99, 1, 127, 127, 1, 64, 85, 3, 127>>],
   [alphabet |-> "gsm7", text |-> <<1, 127, 64, 85, 42, 127, 1, 64>>],
   [alphabet |-> "ucs2", text |-> <<65, 233, 8364>>],
   [alphabet |-> "bytes", text |-> <<>>]}
=============================================================================
