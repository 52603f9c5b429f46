----------------------------- MODULE IpcMessages -----------------------------
(***************************************************************************)
(* The vocabulary of the driver's two conversations: the IPC commands it   *)
(* exchanges with the modem, and the RIL_Errno values it answers rild      *)
(* with.  A command name drops its IPC_ prefix, an errno its RIL_E_ one.   *)
(***************************************************************************)

Command ==
  { "NET_PLMN_LIST", "NET_PLMN_SEL", "NET_MODE_SEL",
    "CALL_OUTGOING", "CALL_LIST", "CALL_RELEASE", "CALL_ANSWER",
    "CALL_CONT_DTMF", "CALL_BURST_DTMF",
    "SEC_PIN_STATUS", "SEC_LOCK_INFO", "SEC_CHANGE_LOCKING_PW",
    "SEC_PHONE_LOCK", "SEC_RSIM_ACCESS",
    "SAT_PROACTIVE_CMD", "SAT_ENVELOPE_CMD", "MISC_ME_IMSI",
    "SND_MIC_MUTE_CTRL", "SND_CLOCK_CTRL", "SND_SPKR_VOLUME_CTRL",
    "SND_AUDIO_PATH_CTRL" }

(* The commands whose response ipc_fmt_dispatch hands to a handler that    *)
(* answers a request.                                                      *)
ResponseCommand ==
  { "NET_PLMN_LIST", "NET_PLMN_SEL", "NET_MODE_SEL", "CALL_LIST", "CALL_BURST_DTMF",
    "SEC_LOCK_INFO", "SEC_PHONE_LOCK", "SEC_RSIM_ACCESS",
    "SAT_PROACTIVE_CMD", "SAT_ENVELOPE_CMD", "MISC_ME_IMSI" }

Errno ==
  { "SUCCESS", "GENERIC_FAILURE", "RADIO_NOT_AVAILABLE", "REQUEST_NOT_SUPPORTED",
    "CANCELLED", "ILLEGAL_SIM_OR_ME", "PASSWORD_INCORRECT" }

(* The custom functions an IPC_GEN_PHONE_RES may be handed to.             *)
Func == { "ipc_net_plmn_sel_complete", "ipc_sec_pin_status_complete" }

(* The code of an IPC_GEN_PHONE_RES, its low byte where a function looks   *)
(* at it: ipc_gen_phone_res_check of libsamsung-ipc accepts only "ok".     *)
Code == { "ok", "0x6f", "0x10", "0x0c", "other" }

(* What the modem owes for a message it was sent: the generic result, a    *)
(* response of the message's own command, or the one and then the other.   *)
Reply == { "GEN", "RESP", "GEN_RESP" }
=============================================================================
