------------------------------- MODULE Handlers -------------------------------
(***************************************************************************)
(* What the request handlers that keep no state of their own do with a     *)
(* request: which expectation they store in the IPC_GEN_PHONE_RES ring,    *)
(* which messages they send to the modem, and which answers they give rild *)
(* at once.  A handler runs under ril_mutex and addresses everything by    *)
(* reqGetId(t), so this is all there is to know of it; the state machine   *)
(* RilRequests carries it out.                                             *)
(*                                                                         *)
(* A script is a record:                                                   *)
(*   registers  whether the handler gets as far as reqGetId(t);            *)
(*   command, how  the expectation it stores, how = "none" for no one;     *)
(*   sends      its messages; part is a message's place among them;        *)
(*   now        the answers it gives before it returns.                    *)
(***************************************************************************)
EXTENDS GenExpects, Sequences

Message == {m \in [command : Command, part : 1..2, reply : Reply] :
              m.reply # "GEN" => m.command \in ResponseCommand}

(* What a handler may answer: a cancel is reported by RIL_onRequestComplete *)
(* and by nobody else.                                                     *)
Outcome == Errno \ {"CANCELLED"}

Script ==
  {s \in [registers : BOOLEAN, command : Command \cup {"NONE"}, how : How,
          sends : SUBSET Message, now : Seq(Outcome)] :
     ~ s.registers => s.how = "none" /\ s.sends = {} /\ s.now = <<>>}

First(command, reply)  == [command |-> command, part |-> 1, reply |-> reply]
Second(command, reply) == [command |-> command, part |-> 2, reply |-> reply]

(* The handler returns without a trace.                                    *)
Silent == [registers |-> FALSE, command |-> "NONE", how |-> "none",
           sends |-> {}, now |-> <<>>]

(* The handler answers and does nothing else; RIL_onRequestComplete itself *)
(* registers the token.                                                    *)
Answer(e) == [Silent EXCEPT !.registers = TRUE, !.now = <<e>>]

(* The handler asks for data, which the modem's response will carry.       *)
Get(command) == [Silent EXCEPT !.registers = TRUE, !.sends = {First(command, "RESP")}]

(* The handler sends a command and answers without waiting for the result. *)
AnswerAnyway(command, reply) ==
  [Answer("SUCCESS") EXCEPT !.sends = {First(command, reply)}]

(* The handler sends a command and stores what its result is to do.        *)
Expect(command, how) ==
  [Silent EXCEPT !.registers = TRUE, !.command = command, !.how = how,
                 !.sends = {First(command, "GEN")}]

(* The handler answers a failure and then goes on as if it had not.        *)
FailAndGoOn(script) == [script EXCEPT !.now = <<"GENERIC_FAILURE">> \o @]

(* Mutant of ril_request_set_preferred_network_type: it answers at once.   *)
AnswerAndExpect == [Expect("NET_MODE_SEL", "complete") EXCEPT !.now = <<"SUCCESS">>]

-----------------------------------------------------------------------------
(* net.c *)
ril_request_query_available_networks      == Get("NET_PLMN_LIST")
ril_request_get_preferred_network_type    == Get("NET_MODE_SEL")
ril_request_query_network_selection_mode  == Get("NET_PLMN_SEL")
ril_request_set_preferred_network_type    == Expect("NET_MODE_SEL", "complete")
ril_request_set_network_selection_automatic ==
  Expect("NET_PLMN_SEL", "ipc_net_plmn_sel_complete")
ril_request_set_network_selection_manual ==
  Expect("NET_PLMN_SEL", "ipc_net_plmn_sel_complete")

(* call.c: dial drops a number that is too long without an answer.  When a *)
(* tone is still on, dtmf and dtmf_start first send the message that stops *)
(* it, under the same aseq; dtmf leaves dtmf_tone as it was.               *)
ril_request_dial(tooLong) ==
  IF tooLong THEN Silent ELSE AnswerAnyway("CALL_OUTGOING", "GEN")
ril_request_get_current_calls == Get("CALL_LIST")
ril_request_hangup            == AnswerAnyway("CALL_RELEASE", "GEN")
ril_request_answer            == AnswerAnyway("CALL_ANSWER", "GEN")

StopTone(tone) == IF tone THEN {First("CALL_CONT_DTMF", "GEN")} ELSE {}

ril_request_dtmf(tone) ==
  [Expect("CALL_BURST_DTMF", "abort") EXCEPT
     !.sends = StopTone(tone) \cup {Second("CALL_BURST_DTMF", "GEN_RESP")}]
ril_request_dtmf_start(tone) ==
  [Expect("CALL_CONT_DTMF", "complete") EXCEPT
     !.sends = StopTone(tone) \cup {Second("CALL_CONT_DTMF", "GEN")}]
ril_request_dtmf_stop == Expect("CALL_CONT_DTMF", "complete")

(* sec.c: enter_sim_pin sends two messages under one aseq; it and the two  *)
(* facility handlers go on after they have answered a failure.  It takes   *)
(* the length of the array of pointers it is given, not of the PIN: whether *)
(* that is too long has nothing to do with the PIN.                        *)
ril_request_enter_sim_pin(tooLong) ==
  LET script == [Expect("SEC_PIN_STATUS", "ipc_sec_pin_status_complete") EXCEPT
                   !.sends = @ \cup {Second("SEC_LOCK_INFO", "RESP")}]
  IN  IF tooLong THEN FailAndGoOn(script) ELSE script
ril_request_change_sim_pin ==
  Expect("SEC_CHANGE_LOCKING_PW", "ipc_sec_pin_status_complete")
ril_request_enter_sim_puk ==
  Expect("SEC_PIN_STATUS", "ipc_sec_pin_status_complete")
ril_request_query_facility_lock(supported) ==
  IF supported THEN Get("SEC_PHONE_LOCK") ELSE FailAndGoOn(Get("SEC_PHONE_LOCK"))
ril_request_set_facility_lock(supported) ==
  LET script == Expect("SEC_PHONE_LOCK", "ipc_sec_pin_status_complete")
  IN  IF supported THEN script ELSE FailAndGoOn(script)
ril_request_sim_io(tooLong) == IF tooLong THEN Silent ELSE Get("SEC_RSIM_ACCESS")

(* misc.c, sat.c, snd.c.                                                   *)
ril_request_get_imsi == Get("MISC_ME_IMSI")
requestSatSendTerminalResponse(tooLong) ==
  LET script == AnswerAnyway("SAT_PROACTIVE_CMD", "RESP")
  IN  IF tooLong THEN FailAndGoOn(script) ELSE script
requestSatSendEnvelopeCommand(tooLong) ==
  IF tooLong THEN FailAndGoOn(Get("SAT_ENVELOPE_CMD")) ELSE Get("SAT_ENVELOPE_CMD")
ril_request_set_mute == Expect("SND_MIC_MUTE_CTRL", "complete")
ril_request_screen_state == Answer("SUCCESS")

(* The switch of onRequest, for these handlers.  A request whose outcome   *)
(* depends on its input has a name for each kind of input.  SET_MUTE has   *)
(* no break and runs into SCREEN_STATE.                                    *)
Handler(tone) ==
  [ QUERY_AVAILABLE_NETWORKS        |-> ril_request_query_available_networks,
    GET_PREFERRED_NETWORK_TYPE      |-> ril_request_get_preferred_network_type,
    QUERY_NETWORK_SELECTION_MODE    |-> ril_request_query_network_selection_mode,
    SET_PREFERRED_NETWORK_TYPE      |-> ril_request_set_preferred_network_type,
    SET_NETWORK_SELECTION_AUTOMATIC |-> ril_request_set_network_selection_automatic,
    SET_NETWORK_SELECTION_MANUAL    |-> ril_request_set_network_selection_manual,
    DIAL                            |-> ril_request_dial(FALSE),
    DIAL_TOO_LONG                   |-> ril_request_dial(TRUE),
    GET_CURRENT_CALLS               |-> ril_request_get_current_calls,
    HANGUP                          |-> ril_request_hangup,
    ANSWER                          |-> ril_request_answer,
    DTMF                            |-> ril_request_dtmf(tone),
    DTMF_START                      |-> ril_request_dtmf_start(tone),
    DTMF_STOP                       |-> ril_request_dtmf_stop,
    ENTER_SIM_PIN                   |-> ril_request_enter_sim_pin(FALSE),
    ENTER_SIM_PIN_TOO_LONG          |-> ril_request_enter_sim_pin(TRUE),
    CHANGE_SIM_PIN                  |-> ril_request_change_sim_pin,
    ENTER_SIM_PUK                   |-> ril_request_enter_sim_puk,
    QUERY_FACILITY_LOCK             |-> ril_request_query_facility_lock(TRUE),
    QUERY_FACILITY_LOCK_UNSUPPORTED |-> ril_request_query_facility_lock(FALSE),
    SET_FACILITY_LOCK               |-> ril_request_set_facility_lock(TRUE),
    SET_FACILITY_LOCK_UNSUPPORTED   |-> ril_request_set_facility_lock(FALSE),
    SIM_IO                          |-> ril_request_sim_io(FALSE),
    SIM_IO_TOO_LONG                 |-> ril_request_sim_io(TRUE),
    GET_IMSI                        |-> ril_request_get_imsi,
    STK_SEND_TERMINAL_RESPONSE      |-> requestSatSendTerminalResponse(FALSE),
    STK_SEND_TERMINAL_RESPONSE_TOO_LONG |-> requestSatSendTerminalResponse(TRUE),
    STK_SEND_ENVELOPE_COMMAND       |-> requestSatSendEnvelopeCommand(FALSE),
    STK_SEND_ENVELOPE_COMMAND_TOO_LONG  |-> requestSatSendEnvelopeCommand(TRUE),
    STK_HANDLE_CALL_SETUP           |-> Answer("SUCCESS"),
    SET_MUTE |-> [ril_request_set_mute EXCEPT !.now = @ \o ril_request_screen_state.now],
    SCREEN_STATE                    |-> ril_request_screen_state,
    NOT_IMPLEMENTED                 |-> Answer("REQUEST_NOT_SUPPORTED") ]

Request == DOMAIN Handler(FALSE)

-----------------------------------------------------------------------------
(* What the handlers of the modem's responses answer: the possible answers *)
(* for each command, faulty telling whether the response is malformed or   *)
(* reports that the burst did not work.                                    *)
ipc_net_plmn_sel(faulty)    == IF faulty THEN <<>> ELSE <<"SUCCESS">>
ipc_misc_me_imsi(faulty)    == IF faulty THEN <<"GENERIC_FAILURE">> ELSE <<"SUCCESS">>
ipc_call_burst_dtmf(faulty) ==
  IF faulty THEN <<"GENERIC_FAILURE", "SUCCESS">> ELSE <<"SUCCESS">>
ipc_net_plmn_list     == <<"SUCCESS">>
ipc_net_mode_sel      == <<"SUCCESS">>
ipc_call_list         == <<"SUCCESS">>
ipc_sec_rsim_access   == <<"SUCCESS">>
ipc_sec_phone_lock    == <<"SUCCESS">>
respondSatEnvelopeCmd == <<"SUCCESS">>
ipc_sec_lock_info     == <<>>
respondSatProactiveCmd == <<>>

ResponseHandler(faulty) ==
  [ NET_PLMN_LIST    |-> ipc_net_plmn_list,
    NET_MODE_SEL     |-> ipc_net_mode_sel,
    NET_PLMN_SEL     |-> ipc_net_plmn_sel(faulty),
    CALL_LIST        |-> ipc_call_list,
    CALL_BURST_DTMF  |-> ipc_call_burst_dtmf(faulty),
    SEC_LOCK_INFO    |-> ipc_sec_lock_info,
    SEC_RSIM_ACCESS  |-> ipc_sec_rsim_access,
    SEC_PHONE_LOCK   |-> ipc_sec_phone_lock,
    MISC_ME_IMSI     |-> ipc_misc_me_imsi(faulty),
    SAT_PROACTIVE_CMD |-> respondSatProactiveCmd,
    SAT_ENVELOPE_CMD |-> respondSatEnvelopeCmd ]

(* What the custom functions answer for the code of an IPC_GEN_PHONE_RES.  *)
ipc_net_plmn_sel_complete(code) ==
  CASE code = "ok"   -> "SUCCESS"
    [] code = "0x6f" -> "ILLEGAL_SIM_OR_ME"
    [] OTHER         -> "GENERIC_FAILURE"

ipc_sec_pin_status_complete(code) ==
  CASE code = "ok"               -> "SUCCESS"
    [] code \in {"0x10", "0x0c"} -> "PASSWORD_INCORRECT"
    [] OTHER                     -> "GENERIC_FAILURE"

CustomFunction(func, code) ==
  IF func = "ipc_net_plmn_sel_complete" THEN ipc_net_plmn_sel_complete(code)
                                        ELSE ipc_sec_pin_status_complete(code)
=============================================================================
