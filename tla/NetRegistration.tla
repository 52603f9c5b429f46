--------------------------- MODULE NetRegistration ---------------------------
(***************************************************************************)
(* The registration and operator state of net.c.  The modem notifies the   *)
(* driver of changes (NOTI) and answers the driver's questions (RESP); the *)
(* driver keeps the latest data and tells rild that something changed;     *)
(* rild then asks for all three kinds of data.  For each kind a token of   *)
(* ril_state.tokens says whether rild has been told and has not asked yet  *)
(* (RIL_TOKEN_DATA_WAITING) or whether a request of rild waits for the     *)
(* modem.                                                                  *)
(*                                                                         *)
(* Data are numbered by the changes in the modem, 0 being what memset      *)
(* leaves, which is also that of a modem without service.  The two         *)
(* directions between driver and modem keep the order of their messages.   *)
(***************************************************************************)
EXTENDS Integers, Sequences, SequencesExt

CONSTANTS
  Token,       \* tokens of rild
  NoToken,     \* (RIL_Token) 0x00
  Waiting,     \* RIL_TOKEN_DATA_WAITING
  InService,   \* the registration states under which an operator is known
  MaxChanges,  \* bound: how often the modem's data change
  MaxPolls,    \* bound: how many requests rild makes that it was not told to
  MaxCycles    \* bound: how often the radio is switched off

ASSUME MarksAssumption ==
  NoToken \notin Token /\ Waiting \notin Token /\ NoToken # Waiting
ASSUME ChangesAssumption == MaxChanges \in Nat /\ InService \subseteq 1 .. MaxChanges
ASSUME BoundsAssumption == MaxPolls \in Nat /\ MaxCycles \in Nat

(* registration_state, gprs_registration_state and operator.               *)
Kind == {"GSM", "GPRS", "PLMN"}
Data == 0 .. MaxChanges

VARIABLES
  tokens,      \* ril_state.tokens, for each kind
  info,        \* ril_state.netinfo, gprs_netinfo and plmndata
  normal,      \* ril_state.power_mode >= POWER_MODE_NORMAL
  toModem,     \* messages on their way to the modem
  fromModem,   \* messages on their way to ipc_fmt_dispatch
  modem,       \* the modem's data
  on,          \* the modem's radio is on
  changes, polls, cycles,   \* how often each bounded thing happened
  told,        \* the kinds rild has been told to ask for
  open,        \* what the request of a token asks the modem for
  view,        \* the data rild was given last
  answers      \* how many answers the request of a token got

driver == <<tokens, info, normal>>
rild == <<open, view, answers>>
vars == <<tokens, info, normal, toModem, fromModem, modem, on, changes, polls,
          cycles, told, rild>>

Ask(k, t)      == [what |-> "GET", kind |-> k, token |-> t]
Power(state)   == [what |-> state, kind |-> "GSM", token |-> NoToken]
Noti(k, d)     == [type |-> "NOTI", kind |-> k, token |-> NoToken, data |-> d]
Resp(k, t, d)  == [type |-> "RESP", kind |-> k, token |-> t, data |-> d]
PhoneState     == [type |-> "NORMAL", kind |-> "GSM", token |-> NoToken, data |-> 0]

TypeOK ==
  /\ tokens \in [Kind -> Token \cup {NoToken, Waiting}]
  /\ info \in [Kind -> Data]
  /\ normal \in BOOLEAN /\ on \in BOOLEAN
  /\ toModem \in Seq([what : {"GET", "NORMAL", "LPM"}, kind : Kind,
                      token : Token \cup {NoToken}])
  /\ fromModem \in Seq([type : {"NOTI", "RESP", "NORMAL"}, kind : Kind,
                        token : Token \cup {NoToken}, data : Data])
  /\ modem \in [Kind -> Data]
  /\ changes \in Data /\ polls \in Nat /\ cycles \in Nat
  /\ told \subseteq Kind
  /\ open \in [Token -> Kind \cup {"none"}]
  /\ view \in [Kind -> Data]
  /\ answers \in [Token -> Nat]

Init ==
  /\ tokens = [k \in Kind |-> NoToken]
  /\ info = [k \in Kind |-> 0]
  /\ normal = FALSE /\ on = FALSE
  /\ toModem = <<>> /\ fromModem = <<>>
  /\ modem = [k \in Kind |-> 0]
  /\ changes = 0 /\ polls = 0 /\ cycles = 0
  /\ told = {}
  /\ open = [t \in Token |-> "none"]
  /\ view = [k \in Kind |-> 0]
  /\ answers = [t \in Token |-> 0]

-----------------------------------------------------------------------------
(* The driver.                                                             *)

(* reg_state says that there is no service.                                *)
OutOfService == info["GSM"] \notin InService

(* The request of t has got n answers by now.                              *)
Answered(t, n) ==
  /\ open' = [u \in Token |-> IF u = t THEN "none" ELSE open[u]]
  /\ answers' = [u \in Token |-> IF u = t THEN n ELSE answers[u]]

(* The modem's message has it answered once more; t may be null.           *)
OneMore(t) == IF t = NoToken THEN 1 ELSE answers[t] + 1

(* It is answered with the data d of kind k ...                            *)
Give(t, k, d, n) ==
  /\ Answered(t, n)
  /\ view' = [view EXCEPT ![k] = IF t = NoToken THEN @ ELSE d]

(* ... or with RIL_E_OP_NOT_ALLOWED_BEFORE_REG_TO_NW.                      *)
Refuse(t, n) == Answered(t, n) /\ UNCHANGED view

(* The modem is asked on behalf of t.                                      *)
AskModem(t, k) ==
  /\ tokens' = [tokens EXCEPT ![k] = t]
  /\ toModem' = Append(toModem, Ask(k, t))
  /\ open' = [open EXCEPT ![t] = k]
  /\ answers' = [answers EXCEPT ![t] = 0]
  /\ UNCHANGED view

(* Mutant of RequestState: it asks beside answering.                       *)
RequestStateAskingOn(t, k) ==
  IF tokens[k] = NoToken THEN AskModem(t, k)
  ELSE /\ tokens' = [tokens EXCEPT ![k] = t]
       /\ Give(t, k, info[k], 1)
       /\ toModem' = Append(toModem, Ask(k, t))

(* A request for data of kind k: the stored data if there are news that    *)
(* rild has been told of or another request is going on, and otherwise a   *)
(* question to the modem.                                                  *)
RequestState(t, k) ==
  IF tokens[k] = NoToken THEN AskModem(t, k)
  ELSE /\ tokens' = [tokens EXCEPT ![k] = IF @ = Waiting THEN NoToken ELSE @]
       /\ Give(t, k, info[k], 1)
       /\ UNCHANGED toModem

ril_request_registration_state(t)      == RequestState(t, "GSM")
ril_request_gprs_registration_state(t) == RequestState(t, "GPRS")

ril_request_operator(t) ==
  IF OutOfService
  THEN /\ Refuse(t, 1)
       /\ tokens' = [tokens EXCEPT !["PLMN"] = NoToken]
       /\ UNCHANGED toModem
  ELSE RequestState(t, "PLMN")

(* Mutant of Unsol: rild is not told of the news.                          *)
UnsolUntold(k, d) ==
  IF tokens[k] \in Token
  THEN UNCHANGED <<tokens, info, told>>
  ELSE /\ info' = [info EXCEPT ![k] = d]
       /\ tokens' = [j \in Kind |-> Waiting]
       /\ UNCHANGED told

(* News of kind k: rild is told, unless it has been told and not yet asked *)
(* for that kind.  While a request for the kind is going on they are       *)
(* dropped, as its answer will carry them.  (That some token is waiting,   *)
(* ril_tokens_net_get_data_waiting, follows from the kind's own waiting.)  *)
Unsol(k, d) ==
  IF tokens[k] \in Token
  THEN UNCHANGED <<tokens, info, told>>
  ELSE /\ info' = [info EXCEPT ![k] = d]
       /\ IF tokens[k] = Waiting
          THEN UNCHANGED <<tokens, told>>
          ELSE /\ tokens' = [j \in Kind |-> Waiting]
               /\ told' = Kind

(* What the end of a request does to the token of its kind: the GPRS case  *)
(* looks at the token of the GSM one.                                      *)
Cleared(k) ==
  LET looked == IF k = "GPRS" THEN "GSM" ELSE k
  IN  IF tokens[looked] # Waiting THEN [tokens EXCEPT ![k] = NoToken] ELSE tokens

(* Mutants of Sol: the data are handed on and not stored; the token stays. *)
SolUnstored(t, k, d) ==
  /\ Give(t, k, d, OneMore(t))
  /\ tokens' = Cleared(k)
  /\ UNCHANGED <<info, told>>
SolUncleared(t, k, d) ==
  /\ info' = [info EXCEPT ![k] = d]
  /\ Give(t, k, d, OneMore(t))
  /\ UNCHANGED <<tokens, told>>

(* The answer to t's question: t is null once the table was cleared.       *)
Sol(t, k, d) ==
  /\ info' = [info EXCEPT ![k] = d]
  /\ Give(t, k, d, OneMore(t))
  /\ tokens' = Cleared(k)
  /\ UNCHANGED told

ipc_net_regist(m) ==
  IF ~ normal THEN UNCHANGED <<tokens, info, told, rild>>
  ELSE \/ m.type = "NOTI" /\ Unsol(m.kind, m.data) /\ UNCHANGED rild
       \/ m.type = "RESP" /\ Sol(m.token, m.kind, m.data)

ipc_net_current_plmn(m) ==
  \/ /\ m.type = "NOTI" /\ OutOfService
     /\ info' = [info EXCEPT !["PLMN"] = m.data]
     /\ UNCHANGED <<tokens, told, rild>>
  \/ /\ m.type = "NOTI" /\ ~ OutOfService
     /\ Unsol("PLMN", m.data)
     /\ UNCHANGED rild
  \/ /\ m.type = "RESP" /\ OutOfService
     /\ info' = [info EXCEPT !["PLMN"] = m.data]
     /\ Refuse(m.token, OneMore(m.token))
     /\ tokens' = Cleared("PLMN")
     /\ UNCHANGED told
  \/ /\ m.type = "RESP" /\ ~ OutOfService
     /\ Sol(m.token, "PLMN", m.data)

(* rild asks for everything when the radio comes up.                       *)
ipc_pwr_phone_state ==
  /\ normal' = TRUE
  /\ told' = Kind
  /\ UNCHANGED <<tokens, info, rild>>

-----------------------------------------------------------------------------
(* Steps.                                                                  *)

(* rild asks while the radio is on, because it was told to or on its own.  *)
Request(t, k) ==
  /\ normal
  /\ open[t] = "none"
  /\ k \in told \/ polls < MaxPolls
  /\ told' = told \ {k}
  /\ polls' = IF k \in told THEN polls ELSE polls + 1
  /\ \/ k = "GSM"  /\ ril_request_registration_state(t)
     \/ k = "GPRS" /\ ril_request_gprs_registration_state(t)
     \/ k = "PLMN" /\ ril_request_operator(t)
  /\ UNCHANGED <<info, normal, fromModem, modem, on, changes, cycles>>

(* ipc_fmt_dispatch takes the next message.                                *)
Receive ==
  /\ fromModem # <<>>
  /\ fromModem' = Tail(fromModem)
  /\ LET m == Head(fromModem)
     IN  \/ m.type = "NORMAL" /\ ipc_pwr_phone_state
         \/ m.type # "NORMAL" /\ m.kind # "PLMN" /\ ipc_net_regist(m) /\ UNCHANGED normal
         \/ m.type # "NORMAL" /\ m.kind = "PLMN" /\ ipc_net_current_plmn(m)
                              /\ UNCHANGED normal
  /\ UNCHANGED <<toModem, modem, on, changes, polls, cycles>>

(* The radio is switched off: everything is cleared, and what is still on  *)
(* its way belongs to no token any more.  The requests then open are never *)
(* answered; rild's next requests have new tokens.                         *)
RadioOff ==
  LET forget(s) == [i \in DOMAIN s |-> [s[i] EXCEPT !.token = NoToken]]
  IN  /\ normal /\ cycles < MaxCycles
      /\ cycles' = cycles + 1
      /\ tokens' = [k \in Kind |-> NoToken]
      /\ info' = [k \in Kind |-> 0]
      /\ normal' = FALSE
      /\ toModem' = Append(forget(toModem), Power("LPM"))
      /\ fromModem' = forget(fromModem)
      /\ told' = {}
      /\ open' = [t \in Token |-> "none"]
      /\ view' = [k \in Kind |-> 0]
      /\ answers' = [t \in Token |-> 0]
      /\ UNCHANGED <<modem, on, changes, polls>>

RadioOn ==
  /\ ~ normal
  /\ Power("NORMAL") \notin ToSet(toModem) /\ PhoneState \notin ToSet(fromModem)
  /\ toModem' = Append(toModem, Power("NORMAL"))
  /\ UNCHANGED <<driver, fromModem, modem, on, changes, polls, cycles, told, rild>>

(* The modem notifies every change of its data while its radio is on.      *)
Change(k) ==
  /\ on /\ changes < MaxChanges
  /\ changes' = changes + 1
  /\ modem' = [modem EXCEPT ![k] = changes + 1]
  /\ fromModem' = Append(fromModem, Noti(k, changes + 1))
  /\ UNCHANGED <<driver, toModem, on, polls, cycles, told, rild>>

(* The modem serves the driver's messages in turn.  Without its radio it   *)
(* has no service.                                                         *)
Serve ==
  /\ toModem # <<>>
  /\ toModem' = Tail(toModem)
  /\ LET m == Head(toModem)
     IN  \/ /\ m.what = "GET"
            /\ fromModem' = Append(fromModem, Resp(m.kind, m.token, modem[m.kind]))
            /\ UNCHANGED <<modem, on>>
         \/ /\ m.what = "NORMAL"
            /\ on' = TRUE
            /\ fromModem' = Append(fromModem, PhoneState)
            /\ UNCHANGED modem
         \/ /\ m.what = "LPM"
            /\ on' = FALSE
            /\ modem' = [k \in Kind |-> 0]
            /\ UNCHANGED fromModem
  /\ UNCHANGED <<driver, changes, polls, cycles, told, rild>>

Next ==
  \/ \E t \in Token, k \in Kind : Request(t, k)
  \/ Receive
  \/ RadioOff
  \/ RadioOn
  \/ \E k \in Kind : Change(k)
  \/ Serve

Spec == Init /\ [][Next]_vars

(* Messages are delivered and served, and rild asks for what it was told   *)
(* to ask for.                                                             *)
Fairness ==
  /\ WF_vars(Receive)
  /\ WF_vars(Serve)
  /\ \A k \in Kind : WF_vars(k \in told /\ \E t \in Token : Request(t, k))

FairSpec == Spec /\ Fairness

-----------------------------------------------------------------------------
(* Properties.                                                             *)

(* The request a token of ril_state.tokens waits for.                      *)
Underway(k) ==
  \/ Ask(k, tokens[k]) \in ToSet(toModem)
  \/ \E d \in Data : Resp(k, tokens[k], d) \in ToSet(fromModem)

(* A kind's token never stays with a request that nobody will answer: that *)
(* would make the driver drop all later notifications of the kind.  (The   *)
(* GPRS token may: the end of its request looks at the GSM one, net.c:666, *)
(* though step 7 of net.c:297 has it reset.)                               *)
NoStuckToken == \A k \in {"GSM", "PLMN"} : tokens[k] \in Token => Underway(k)

(* Nothing is under way between the three parties.                         *)
Settled == normal /\ toModem = <<>> /\ fromModem = <<>> /\ told = {}

(* No change gets lost: although the driver drops notifications and answers *)
(* requests from what it has stored, rild has the modem's registration     *)
(* state once nothing is under way.  (The GPRS one it may miss.)           *)
StateKnown ==
  Settled => view["GSM"] = modem["GSM"]

(* The variables have their types, no token is stuck, no state is missed.  *)
NetInv == TypeOK /\ NoStuckToken /\ StateKnown

(* Stored and fresh answers may cross, and yet rild is never given older   *)
(* data after newer ones, until the radio is switched off.  (0, no         *)
(* service, has no age: an operator that was stored while the radio was    *)
(* off may be followed by it.)                                             *)
NewestLast ==
  [][normal' => \A k \in Kind : view'[k] # 0 => view'[k] >= view[k]]_vars

(* No request is answered both from the stored data and by the modem, nor  *)
(* by two messages of the modem, however requests of one kind overlap and  *)
(* whatever news come in between.                                          *)
AnsweredAtMostOnce == \A t \in Token : answers[t] <= 1

(* Every registration state the modem is in reaches rild, or is overtaken  *)
(* by a later one, or the radio is switched off.                           *)
ChangeReachesRild ==
  \A d \in 1 .. MaxChanges :
    (normal /\ modem["GSM"] = d) ~> (view["GSM"] >= d \/ ~ normal)
=============================================================================
