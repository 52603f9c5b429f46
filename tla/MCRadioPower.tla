---------------------------- MODULE MCRadioPower ----------------------------
(* RadioPower with a SIM that is unlocked, or has no lock. *)
EXTENDS RadioPower

MCSimHistory == <<"SIM_LOCK_SC_PIN1_REQ", "SIM_INIT_COMPLETE", "SIM_PB_INIT_COMPLETE">>
=============================================================================
