------------------------------ MODULE RadioPower ------------------------------
(***************************************************************************)
(* The radio, the SIM and the identity of the modem: pwr.c, the first half *)
(* of sec.c, misc.c, and ril_tokens_check of samsung-ril.c, which ties     *)
(* them together.  Five requests leave their token in ril_state.tokens and *)
(* are answered when something else has happened:                          *)
(*   RADIO_POWER       when a PIN status comes in normal mode;             *)
(*   GET_SIM_STATUS    by the modem, unless a notification is waiting;     *)
(*   BASEBAND_VERSION  by the modem, once the radio is not off;            *)
(*   GET_IMEI, GET_IMEISV   by one message, once both have been asked for  *)
(*                     and the radio is not off.                           *)
(* SIGNAL_STRENGTH leaves no token, but its answer needs normal mode; that *)
(* the modem is ready for messages (sms.c) is answered when the radio is   *)
(* on, and makes the driver look at the waiting tokens once more.          *)
(*                                                                         *)
(* The handlers call each other, so each is an operator on an effect: the  *)
(* state it leaves, the line to the modem and the answers with what it has *)
(* added to them, and the card rild has seen by then.  The token of rild's *)
(* n-th request is n.  The state of the SIM is known by its place in       *)
(* SimHistory, 0 being what memset leaves.  Both directions of the line    *)
(* keep the order of their messages.                                       *)
(***************************************************************************)
EXTENDS Integers, Sequences, SequencesExt, FiniteSets

CONSTANTS
  Requests,     \* the requests rild makes in this instance
  SimHistory,   \* the states the SIM goes through, as IPC_SEC_PIN_STATUS says
  Garbles,      \* the modem may send serial numbers that are too long
  NRequests,    \* bound: how many requests rild makes
  MaxFailures   \* bound: how often the client fails

Kind == {"RADIO_POWER_ON", "RADIO_POWER_OFF", "GET_SIM_STATUS", "BASEBAND_VERSION",
         "GET_IMEI", "GET_IMEISV", "SIGNAL_STRENGTH"}

(* What a PIN status says of the SIM; ABSENT stands for every state the    *)
(* driver does not know.  That the phone book is complete says nothing new.*)
StatusOf ==
  [SIM_INITIALIZING |-> "NOT_READY",     SIM_LOCK_SC_PIN1_REQ |-> "PIN",
   SIM_LOCK_SC_PUK_REQ |-> "PUK",        SIM_LOCK_SC_CARD_BLOCKED |-> "BLOCKED",
   SIM_LOCK_FD |-> "ABSENT",             SIM_LOCK_PN |-> "NETWORK_PERSO",
   SIM_LOCK_PU |-> "NETWORK_SUBSET_PERSO",
   SIM_LOCK_PP |-> "SERVICE_PROVIDER_PERSO",
   SIM_LOCK_PC |-> "CORPORATE_PERSO",    SIM_INIT_COMPLETE |-> "READY",
   CARD_NOT_PRESENT |-> "ABSENT",        CARD_ERROR |-> "ABSENT"]

PinType == DOMAIN StatusOf \cup {"SIM_PB_INIT_COMPLETE"}
SIM_Status == {StatusOf[type] : type \in DOMAIN StatusOf}

ASSUME HistoryAssumption == SimHistory \in Seq(PinType) /\ SimHistory # <<>>
ASSUME BoundsAssumption == NRequests \in Nat /\ MaxFailures \in Nat /\ Garbles \in BOOLEAN

Token == 1 .. NRequests
NoToken == 0
Waiting == -1                        \* RIL_TOKEN_DATA_WAITING
Pin == 0 .. Len(SimHistory)

VARIABLES
  ril_state,
  toModem, fromModem,   \* messages on their way
  on,                   \* the modem's radio is on
  sim,                  \* the place of the SIM in SimHistory
  requests,             \* what rild asked for so far
  answers,              \* the answers given to each request
  forgotten,            \* requests whose token was cleared, overwritten or left
  told,                 \* rild was told of a new SIM status and has not asked
  view,                 \* the card rild was given last
  crossed,              \* RADIO_POWER off met a modem on its way up
  failures

line == <<toModem, fromModem>>
modem == <<on, sim>>
rild == <<requests, answers, forgotten, told, view, crossed>>
vars == <<ril_state, line, modem, rild, failures>>

Card(status) ==
  [card_state |-> IF status = "ABSENT" THEN "ABSENT" ELSE "PRESENT", app |-> status]

State ==
  [radio_state : {"OFF", "SIM_NOT_READY", "SIM_LOCKED_OR_ABSENT", "ON"},
   sim_status  : SIM_Status,
   power_mode  : {"LPM", "NORMAL"},
   sim_pin_status : Pin,
   radio_power : Token \cup {NoToken}, pin_status : Token \cup {NoToken, Waiting},
   get_imei : Token \cup {NoToken}, get_imeisv : Token \cup {NoToken},
   baseband_version : Token \cup {NoToken}]

(* The messages of this module.                                            *)
Orders  == {"NORMAL", "LPM", "PIN_STATUS", "ME_SN", "ME_VERSION", "ICON_INFO",
            "DEVICE_READY"}
Reports == {"PWR_UP", "NORMAL", "PIN_NOTI", "PIN_STATUS", "ME_SN", "ME_SN_TOO_LONG",
            "ME_VERSION", "ICON_INFO", "DEVICE_READY"}

ToModem   == [what : Orders, token : Token \cup {NoToken}]
FromModem == [what : Reports, token : Token \cup {NoToken}, pin : Pin]

TypeOK ==
  /\ ril_state \in State
  /\ toModem \in Seq(ToModem) /\ fromModem \in Seq(FromModem)
  /\ on \in BOOLEAN /\ sim \in Pin
  /\ requests \in Seq(Kind \cup Requests) /\ Len(requests) <= NRequests
  /\ answers \in [Token -> Seq({"SUCCESS", "GENERIC_FAILURE"})]
  /\ forgotten \subseteq Token
  /\ told \in BOOLEAN /\ view \in {Card(status) : status \in SIM_Status} /\ crossed \in BOOLEAN
  /\ failures \in 0 .. MaxFailures

(* ril_globals_init and ril_state_lpm.                                     *)
Cleared ==
  [radio_state |-> "OFF", sim_status |-> "ABSENT", power_mode |-> "LPM", sim_pin_status |-> 0,
   radio_power |-> NoToken, pin_status |-> NoToken, get_imei |-> NoToken,
   get_imeisv |-> NoToken, baseband_version |-> NoToken]

To(what, t)        == [what |-> what, token |-> t]
From(what, t, pin) == [what |-> what, token |-> t, pin |-> pin]

(* The modem boots.                                                        *)
Booting == <<From("PWR_UP", NoToken, 0)>>

Init ==
  /\ ril_state = Cleared
  /\ toModem = <<>> /\ fromModem = Booting
  /\ on = FALSE /\ sim = 1
  /\ requests = <<>>
  /\ answers = [t \in Token |-> <<>>]
  /\ forgotten = {}
  /\ told = FALSE /\ view = Card("ABSENT") /\ crossed = FALSE
  /\ failures = 0

-----------------------------------------------------------------------------
(* Effects.                                                                *)

(* Nothing has been done yet.                                              *)
Start == [st |-> ril_state, toModem |-> toModem, answers |-> answers, view |-> view,
          news |-> FALSE]

Sending(e, m) == [e EXCEPT !.toModem = Append(@, m)]

(* RIL_onRequestComplete; a null token reaches nobody.                     *)
Completing(e, t, errno) ==
  IF t = NoToken THEN e ELSE [e EXCEPT !.answers[t] = Append(@, errno)]

Off(e) == e.st.radio_state = "OFF"

(* misc.c: BASEBAND_VERSION.                                               *)
ril_request_baseband_version(e, t) ==
  IF e.st.baseband_version # NoToken THEN Completing(e, t, "GENERIC_FAILURE")
  ELSE LET kept == [e EXCEPT !.st.baseband_version = t]
       IN  IF Off(e) THEN kept ELSE Sending(kept, To("ME_VERSION", t))

(* A response ends the request the driver has, whether or not it is the    *)
(* one that was asked for.                                                 *)
ipc_misc_me_version(e, t) ==
  [Completing(e, t, "SUCCESS") EXCEPT !.st.baseband_version = NoToken]

(* misc.c: the serial number is asked for when both tokens are there and   *)
(* the radio is not off.                                                   *)
ril_request_get_imei_send(e) ==
  IF e.st.get_imei = NoToken \/ e.st.get_imeisv = NoToken \/ Off(e) THEN e
  ELSE Sending(e, To("ME_SN", e.st.get_imei))

ril_request_get_imei(e, t) ==
  IF e.st.get_imei # NoToken THEN Completing(e, t, "GENERIC_FAILURE")
  ELSE ril_request_get_imei_send([e EXCEPT !.st.get_imei = t])

ril_request_get_imeisv(e, t) ==
  IF e.st.get_imeisv # NoToken THEN Completing(e, t, "GENERIC_FAILURE")
  ELSE ril_request_get_imei_send([e EXCEPT !.st.get_imeisv = t])

(* The two of the pair, and the one that asked if it is no more of it.     *)
ipc_misc_me_sn_imei(e, t) ==
  LET own  == IF t # e.st.get_imei THEN Completing(e, t, "SUCCESS") ELSE e
      both == Completing(Completing(own, e.st.get_imei, "SUCCESS"),
                         e.st.get_imeisv, "SUCCESS")
  IN  [both EXCEPT !.st.get_imei = NoToken, !.st.get_imeisv = NoToken]

(* samsung-ril.c: what waited for the radio is asked for, if need be again.*)
ril_tokens_check(e) ==
  LET st == e.st
      v  == IF st.baseband_version = NoToken \/ Off(e) THEN e
            ELSE ril_request_baseband_version([e EXCEPT !.st.baseband_version = NoToken],
                                              st.baseband_version)
  IN  IF st.get_imei = NoToken \/ st.get_imeisv = NoToken \/ Off(e) THEN v
      ELSE ril_request_get_imei([v EXCEPT !.st.get_imei = NoToken], st.get_imei)

(* sec.c: the status of the SIM and the radio state that goes with it.     *)
ipc2ril_sim_status(st, pin) ==
  IF pin = 0 THEN "ABSENT"
  ELSE IF SimHistory[pin] = "SIM_PB_INIT_COMPLETE" THEN st.sim_status
  ELSE StatusOf[SimHistory[pin]]

RadioState(status) ==
  CASE status = "READY"     -> "ON"
    [] status = "NOT_READY" -> "SIM_NOT_READY"
    [] OTHER                -> "SIM_LOCKED_OR_ABSENT"

(* The card rild is given: the status chooses the application.             *)
ipc2ril_card_status(st, pin) == Card(ipc2ril_sim_status(st, pin))

ril_state_update(e, status) ==
  IF e.st.power_mode # "NORMAL" THEN e
  ELSE ril_tokens_check([e EXCEPT !.st.sim_status = status,
                                  !.st.radio_state = RadioState(status)])

(* Mutant of PowerAnswered: the token is kept.                             *)
PowerAnsweredKept(e) ==
  IF e.st.power_mode # "NORMAL" \/ e.st.radio_power = NoToken THEN e
  ELSE Completing(e, e.st.radio_power, "SUCCESS")

(* A PIN status in normal mode answers RADIO_POWER.                        *)
PowerAnswered(e) ==
  IF e.st.power_mode # "NORMAL" \/ e.st.radio_power = NoToken THEN e
  ELSE [Completing(e, e.st.radio_power, "SUCCESS") EXCEPT !.st.radio_power = NoToken]

Stored(e, pin) ==
  [ril_state_update(e, ipc2ril_sim_status(e.st, pin)) EXCEPT !.st.sim_pin_status = pin]

(* Mutant of PinNoti: skipped also while another waits to be read.         *)
PinNotiOnce(e, pin) ==
  IF e.st.power_mode # "NORMAL" \/ e.st.pin_status # NoToken THEN e
  ELSE [Stored(e, pin) EXCEPT !.st.pin_status = Waiting, !.news = TRUE]

(* A notification: skipped while a request is in progress.                 *)
PinNoti(e, pin) ==
  IF e.st.power_mode # "NORMAL" \/ e.st.pin_status \notin {NoToken, Waiting} THEN e
  ELSE [Stored(e, pin) EXCEPT !.st.pin_status = Waiting, !.news = TRUE]

(* A response.  rild reads the card if the status is what it asked for.    *)
PinResp(e, t, pin) ==
  LET kept  == Stored(e, pin)
      seen  == IF t # NoToken /\ requests[t] = "GET_SIM_STATUS"
               THEN [kept EXCEPT !.view = ipc2ril_card_status(kept.st, pin)] ELSE kept
  IN  [Completing(seen, t, "SUCCESS") EXCEPT
         !.st.pin_status = IF @ = Waiting THEN @ ELSE NoToken]

ril_request_get_sim_status(e, t) ==
  LET given == [Completing(e, t, "SUCCESS") EXCEPT
                  !.view = ipc2ril_card_status(e.st, e.st.sim_pin_status)]
  IN  CASE e.st.pin_status = Waiting -> [given EXCEPT !.st.pin_status = NoToken]
        [] e.st.pin_status = NoToken ->
             Sending([e EXCEPT !.st.pin_status = t], To("PIN_STATUS", t))
        [] OTHER -> given

(* disp.c *)
ril_request_signal_strength(e, t) == Sending(e, To("ICON_INFO", t))
ipc_disp_icon_info(e, t) ==
  IF e.st.power_mode # "NORMAL" THEN e ELSE Completing(e, t, "SUCCESS")

(* sms.c *)
ipc_sms_device_ready(e) ==
  ril_tokens_check(IF e.st.radio_state = "ON" THEN Sending(e, To("DEVICE_READY", NoToken)) ELSE e)

(* Mutant of ipc_pwr_phone_pwr_up: the radio is taken to be as it was.     *)
PwrUpAsBefore(e) == [e EXCEPT !.st.power_mode = "LPM"]

(* Mutant of ipc_pwr_phone_state: nothing that waited is asked for.        *)
PhoneStateUnchecked(e, state) ==
  [e EXCEPT !.st.power_mode = state,
            !.st.radio_state = IF state = "LPM" THEN "OFF" ELSE "SIM_NOT_READY"]

(* Mutant of RequestNormal: an earlier RADIO_POWER keeps its place.        *)
RequestNormalFirst(e, t) ==
  [Sending(e, To("NORMAL", t)) EXCEPT !.st.radio_power = IF @ = NoToken THEN t ELSE @]

(* pwr.c *)
ipc_pwr_phone_pwr_up(e) ==
  [e EXCEPT !.st.radio_state = "OFF", !.st.power_mode = "LPM"]

ipc_pwr_phone_state(e, state) ==
  ril_tokens_check([e EXCEPT !.st.power_mode = state,
                             !.st.radio_state = IF state = "LPM" THEN "OFF" ELSE "SIM_NOT_READY"])

RequestNormal(e, t) == [Sending(e, To("NORMAL", t)) EXCEPT !.st.radio_power = t]
RequestLpm(e, t) == [Completing(Sending(e, To("LPM", t)), t, "SUCCESS") EXCEPT !.st = Cleared]

-----------------------------------------------------------------------------
(* Steps.                                                                  *)

Apply(e) == ril_state' = e.st /\ toModem' = e.toModem /\ answers' = e.answers

New == Len(requests) + 1
Issue(kind) ==
  /\ kind \in Requests /\ New <= NRequests
  /\ requests' = Append(requests, kind)

Unanswered == {t \in DOMAIN requests : answers[t] = <<>>}

(* The requests that are carried out by one handler each.                  *)
Handled(kind) ==
  CASE kind = "GET_SIM_STATUS"   -> ril_request_get_sim_status(Start, New)
    [] kind = "BASEBAND_VERSION" -> ril_request_baseband_version(Start, New)
    [] kind = "GET_IMEI"         -> ril_request_get_imei(Start, New)
    [] kind = "GET_IMEISV"       -> ril_request_get_imeisv(Start, New)
    [] kind = "SIGNAL_STRENGTH"  -> ril_request_signal_strength(Start, New)

onRequest(kind) ==
  /\ Issue(kind)
  /\ LET e == Handled(kind) IN Apply(e) /\ view' = e.view
  /\ told' = (told /\ kind # "GET_SIM_STATUS")
  /\ UNCHANGED <<fromModem, modem, forgotten, crossed, failures>>

(* RADIO_POWER on: the token of an earlier one is lost.                    *)
RadioPowerOn ==
  /\ Issue("RADIO_POWER_ON")
  /\ Apply(RequestNormal(Start, New))
  /\ forgotten' = forgotten \cup ({ril_state.radio_power} \ {NoToken})
  /\ UNCHANGED <<fromModem, modem, told, view, crossed, failures>>

(* RADIO_POWER off: everything is cleared, so that what is on its way      *)
(* belongs to no token any more.                                           *)
RadioPowerOff ==
  LET forget(s) == [i \in DOMAIN s |-> [s[i] EXCEPT !.token = NoToken]]
  IN  /\ Issue("RADIO_POWER_OFF")
      /\ Apply([RequestLpm(Start, New) EXCEPT !.toModem = forget(@)])
      /\ fromModem' = forget(fromModem)
      /\ forgotten' = forgotten \cup Unanswered
      /\ crossed' = \E m \in ToSet(toModem \o fromModem) : m.what = "NORMAL"
      /\ told' = FALSE /\ view' = Card("ABSENT")
      /\ UNCHANGED <<modem, failures>>

(* ipc_fmt_dispatch, for the messages of this module.  That a serial       *)
(* number is too long is found before anything is done; the tokens stay.   *)
Dispatched(m) ==
  CASE m.what = "PWR_UP"     -> ipc_pwr_phone_pwr_up(Start)
    [] m.what = "NORMAL"     -> ipc_pwr_phone_state(Start, "NORMAL")
    [] m.what = "PIN_NOTI"   -> PinNoti(PowerAnswered(Start), m.pin)
    [] m.what = "PIN_STATUS" -> PinResp(PowerAnswered(Start), m.token, m.pin)
    [] m.what = "ME_SN"      -> ipc_misc_me_sn_imei(Start, m.token)
    [] m.what = "ME_SN_TOO_LONG" -> Start
    [] m.what = "ME_VERSION" -> ipc_misc_me_version(Start, m.token)
    [] m.what = "ICON_INFO"  -> ipc_disp_icon_info(Start, m.token)
    [] m.what = "DEVICE_READY" -> ipc_sms_device_ready(Start)

Receive ==
  /\ fromModem # <<>> /\ Head(fromModem).what \in Reports
  /\ fromModem' = Tail(fromModem)
  /\ UNCHANGED <<modem, requests, crossed, failures>>
  /\ LET e == Dispatched(Head(fromModem))
     IN  Apply(e) /\ view' = e.view /\ told' = (told \/ e.news)
  /\ forgotten' = IF Head(fromModem).what # "ME_SN_TOO_LONG" THEN forgotten
                  ELSE forgotten \cup ({ril_state.get_imei, ril_state.get_imeisv} \ {NoToken})

(* The modem serves its messages in turn.  When its radio comes on it says *)
(* so, then tells the status of the SIM, and that it is ready for messages.*)
Serve ==
  /\ toModem # <<>> /\ Head(toModem).what \in Orders
  /\ toModem' = Tail(toModem)
  /\ LET m == Head(toModem)
     IN  /\ on' = IF m.what \in {"NORMAL", "LPM"} THEN m.what = "NORMAL" ELSE on
         /\ \/ /\ m.what = "NORMAL"
               /\ fromModem' = fromModem \o <<From("NORMAL", NoToken, 0),
                                              From("PIN_NOTI", NoToken, sim),
                                              From("DEVICE_READY", NoToken, 0)>>
            \/ /\ m.what \in {"LPM", "DEVICE_READY"}
               /\ UNCHANGED fromModem
            \/ /\ m.what \notin {"NORMAL", "LPM", "DEVICE_READY"}
               /\ fromModem' = Append(fromModem,
                    From(m.what, m.token, IF m.what = "PIN_STATUS" THEN sim ELSE 0))
            \/ /\ m.what = "ME_SN" /\ Garbles
               /\ fromModem' = Append(fromModem, From("ME_SN_TOO_LONG", m.token, 0))
  /\ UNCHANGED <<ril_state, sim, rild, failures>>

SimChange ==
  /\ on /\ sim < Len(SimHistory)
  /\ sim' = sim + 1
  /\ fromModem' = Append(fromModem, From("PIN_NOTI", NoToken, sim + 1))
  /\ UNCHANGED <<ril_state, toModem, on, rild, failures>>

(* The read loop fails, and the client is made anew, which boots the       *)
(* modem: what was on its way is lost, the driver's state stays.  (What    *)
(* rild asks before that is done is refused at once and leaves no trace.)  *)
ClientFails ==
  /\ failures < MaxFailures
  /\ failures' = failures + 1
  /\ toModem' = <<>> /\ fromModem' = Booting
  /\ on' = FALSE
  /\ UNCHANGED <<ril_state, sim, rild>>

Next ==
  \/ \E kind \in Requests \cap (Kind \ {"RADIO_POWER_ON", "RADIO_POWER_OFF"}) : onRequest(kind)
  \/ RadioPowerOn
  \/ RadioPowerOff
  \/ Receive
  \/ Serve
  \/ SimChange
  \/ ClientFails

Spec == Init /\ [][Next]_vars

(* The reader thread delivers, and the modem serves.                       *)
Fairness == WF_vars(Receive) /\ WF_vars(Serve)

FairSpec == Spec /\ Fairness

-----------------------------------------------------------------------------
(* Properties.                                                             *)

InLine == ToSet(toModem \o fromModem)
UnderWay(whats, t) == \E m \in InLine : m.what \in whats /\ m.token = t
Quiet == toModem = <<>> /\ fromModem = <<>>

(* A token kept for something to happen is kept for something that will:   *)
(* RADIO_POWER for a modem on its way up, GET_SIM_STATUS for an answer     *)
(* under way (a failure of the client loses both), the version and the     *)
(* pair of serial number requests, with the radio on, for an answer or a   *)
(* modem that boots, which makes ril_tokens_check ask again.               *)
WaitingIsUnderway ==
  LET st == ril_state
      Booted == UnderWay({"PWR_UP"}, NoToken)
  IN  /\ failures = 0 /\ st.radio_power # NoToken =>
           \E m \in InLine : m.what \in {"NORMAL", "PIN_NOTI"}
      /\ failures = 0 /\ st.pin_status \in Token => UnderWay({"PIN_STATUS"}, st.pin_status)
      /\ st.radio_state # "OFF" /\ st.baseband_version # NoToken =>
           Booted \/ UnderWay({"ME_VERSION"}, st.baseband_version)
      /\ st.radio_state # "OFF" /\ NoToken \notin {st.get_imei, st.get_imeisv} =>
           \/ Booted
           \/ UnderWay({"ME_SN", "ME_SN_TOO_LONG"}, st.get_imei)
           \/ st.get_imei \in forgotten

(* Every variable has its type, and every token kept waits for something.  *)
RadioInv == TypeOK /\ WaitingIsUnderway

(* When nothing is under way the driver holds the radio to be on if and    *)
(* only if it is, and as ready as the SIM is; not when RADIO_POWER off     *)
(* crossed a modem on its way up, when a failure left the token of         *)
(* GET_SIM_STATUS behind, or when the last news was of the phone book.     *)
RadioAgrees ==
  Quiet /\ ~crossed =>
    /\ on <=> ril_state.radio_state # "OFF"
    /\ on /\ failures = 0 /\ SimHistory[sim] # "SIM_PB_INIT_COMPLETE" =>
         ril_state.radio_state = RadioState(StatusOf[SimHistory[sim]])

(* When nothing is under way and the radio is on, rild was given the state *)
(* the SIM is in, or was told to ask for it and has not.                   *)
RildKnows ==
  Quiet /\ ~crossed /\ failures = 0 /\ on /\ SimHistory[sim] # "SIM_PB_INIT_COMPLETE" =>
    told \/ view = Card(StatusOf[SimHistory[sim]])

(* The requests for the identity may be sent, and answered, again.         *)
Repeatable == {"BASEBAND_VERSION", "GET_IMEI", "GET_IMEISV"}

(* A request for the power or the SIM, which several messages may answer,  *)
(* is answered once.                                                       *)
AnsweredAtMostOnce ==
  \A t \in DOMAIN requests : requests[t] \notin Repeatable => Len(answers[t]) <= 1

(* What rild may count on: the SIM and the power, and the identity once    *)
(* the radio is on and both serial numbers are asked for.                  *)
Promised(t) ==
  LET st == ril_state
  IN  /\ t \in DOMAIN requests
      /\ \/ requests[t] \in {"RADIO_POWER_ON", "RADIO_POWER_OFF", "GET_SIM_STATUS"}
         \/ /\ st.radio_state # "OFF"
            /\ \/ t = st.baseband_version
               \/ t \in {st.get_imei, st.get_imeisv} /\ NoToken \notin {st.get_imei, st.get_imeisv}

(* What is promised is answered, unless the token is cleared, overwritten  *)
(* or left by an answer that cannot be read, or the client fails.          *)
EveryRequestAnswered ==
  \A t \in Token :
    Promised(t) ~> (t \in forgotten \/ answers[t] # <<>> \/ failures > 0)
=============================================================================
