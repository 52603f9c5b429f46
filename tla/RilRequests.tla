------------------------------ MODULE RilRequests ------------------------------
(***************************************************************************)
(* The life of a request.  rild hands a request over by onRequest, naming  *)
(* it by a token; the driver registers the token, sends messages to the    *)
(* modem under the token's aseq, and gives the token back to rild with an  *)
(* answer, at once or when the modem's reply comes in.  rild may cancel a  *)
(* request meanwhile.  Four parties take steps:                            *)
(*   rild       onRequest (under ril_mutex), onCancel (without a lock);    *)
(*   the modem  the reader thread hands its replies to ipc_fmt_dispatch,   *)
(*              which runs under ril_mutex;                                *)
(*   SRS        the sound clients, whose messages draw an aseq but belong  *)
(*              to no request (under ril_mutex);                           *)
(*   the client whose read loop may fail, losing what was in flight.       *)
(* A handler is one step, since it holds ril_mutex.  onCancel holds no     *)
(* lock, and handlers run between its lookup and the store of its flag.    *)
(* A token the lookup does not find it registers.  If no handler runs      *)
(* meanwhile that is one step; otherwise every read and write of the       *)
(* counter and of the slot is a step of its own, and onCancel and the      *)
(* handlers may be given the same index, set the counter back, or write    *)
(* past the end of the table.  The variable raced remembers that it came   *)
(* to this.  What happens inside a handler then is not split up, and       *)
(* nothing but types is claimed of the table any more.                     *)
(*                                                                         *)
(* Requests here register their token once, when onRequest is entered.     *)
(* SETUP_DATA_CALL alone registers it again in mid-request (gprs.c, a      *)
(* "clean new aseq"), so that it stands in two slots; it is a request of   *)
(* Gprs, not of this module, and OneAseqPerToken and CancelHonoured are    *)
(* not claimed of it.  SEND_SMS and the network requests have modules of   *)
(* their own as well.                                                      *)
(***************************************************************************)
EXTENDS Handlers

CONSTANTS
  Requests,      \* the requests rild makes in this instance
  ModemFaults,   \* what the modem may do: "refuse" a message that asks for
                 \*   data, send a "malformed" response
  SrsCommands,   \* the commands the sound clients send in this instance
  KeepsUp,       \* the counters never come round to an index still owed, and
                 \*   no handler runs while onCancel registers a token
  MaxIssues,     \* bound: how often rild uses the same token
  MaxDraws,      \* bound: how many aseqs are drawn
  MaxFailures    \* bound: how often the client's read loop fails

ASSUME RequestsAssumption == Requests \subseteq Request \cup {"RADIO_POWER_OFF"}
ASSUME SrsCommandsAssumption == SrsCommands \subseteq Command
ASSUME KeepsUpAssumption == KeepsUp \in BOOLEAN
ASSUME BoundsAssumption == MaxIssues \in Nat /\ MaxDraws \in Nat /\ MaxFailures \in Nat

VARIABLES
  table,       \* ril_requests_tokens, ril_request_id
  expects,     \* ipc_gen_phone_res_expects, ipc_gen_phone_res_id
  tone,        \* ril_state.dtmf_tone # 0
  ready,       \* ipc_fmt_client->state = RIL_CLIENT_READY
  failures,    \* how often the read loop has failed
  wire,        \* the messages the modem owes a reply, see Owed
  cancelling,  \* the onCancel in progress: its token, the index it found or
               \*   the counter it read, that index's draw, and its next step
  raced,       \* handlers were running while onCancel registered a token
  issues,      \* how often each token was used by rild
  asked,       \* whether rild cancelled the token's present request
  answers      \* the answers given to the token's present request

vars == <<table, expects, tone, ready, failures, wire, cancelling, raced, issues, asked,
          answers>>

(* A message and the request it belongs to: the token and how many times   *)
(* it had been used; the number of the draw its aseq came from, and that   *)
(* of the expectation stored with it, 0 if none was.                       *)
Owed ==
  {m \in [aseq : Ids, command : Command, part : 1..2, reply : Reply,
          owner : Token \cup {NoToken}, issue : Nat, draw : Int, stored : Nat] :
     m.reply # "GEN" => m.command \in ResponseCommand}

(* What onCancel does next while it registers a token among handlers, and  *)
(* once it has an index.                                                   *)
RegisterStep == {"load", "add", "reload", "wrap", "return", "token", "clear"}
CancelStep == RegisterStep \cup {"none", "flag"}

NotCancelling == [token |-> NoToken, id |-> 0, draw |-> 0, step |-> "none"]

TypeOK ==
  /\ table \in Table
  /\ expects \in Ring
  /\ tone \in BOOLEAN /\ ready \in BOOLEAN
  /\ failures \in Nat
  /\ wire \subseteq Owed
  /\ cancelling \in [token : Token \cup {NoToken}, id : 0 .. NIds, draw : Int,
                     step : CancelStep]
  /\ raced \in BOOLEAN
  /\ cancelling.step \in RegisterStep => raced
  /\ cancelling.step = "add" => cancelling.id \in Ids
  /\ cancelling.step \in {"reload", "wrap"} \/ table.last \in Ids
  /\ issues \in [Token -> Nat]
  /\ asked \in [Token -> {"no", "inherited", "asking", "flagged"}]
  /\ answers \in [Token -> Seq(Errno)]

Init ==
  /\ table = InitialTable
  /\ expects = InitialRing
  /\ tone = FALSE
  /\ ready = TRUE /\ failures = 0
  /\ wire = {}
  /\ cancelling = NotCancelling /\ raced = FALSE
  /\ issues = [t \in Token |-> 0]
  /\ asked = [t \in Token |-> "no"]
  /\ answers = [t \in Token |-> <<>>]

Pending(t) == issues[t] > 0 /\ answers[t] = <<>>

-----------------------------------------------------------------------------
(* Answering.                                                              *)

(* Mutant of RIL_onRequestComplete: the flag is not looked at.             *)
CompleteUncancelled(es, canceled) == es

(* RIL_onRequestComplete, once for each of the answers es: what rild gets  *)
(* for a token whose cancel flag is as given.                              *)
RIL_onRequestComplete(es, canceled) ==
  [i \in DOMAIN es |-> IF canceled THEN "CANCELLED" ELSE es[i]]

(* The answers of a handler that completes the token an aseq stands for.   *)
(* A null token reaches nobody.                                            *)
CompleteAseq(aseq, es) ==
  LET t == ril_request_get_token(table, aseq)
  IN  answers' = IF t = NoToken THEN answers
                 ELSE [answers EXCEPT ![t] =
                         @ \o RIL_onRequestComplete(es, ril_request_get_canceled(table, t))]

-----------------------------------------------------------------------------
(* Requests.                                                               *)

(* rild uses a token again only when its request has been answered.        *)
Issuable(t) ==
  /\ ~ Pending(t)
  /\ issues[t] < MaxIssues
  /\ table.drawn < MaxDraws

(* A cancel flag left by an earlier request of the same token is still     *)
(* there; an onCancel that has not finished applies to the new request.    *)
AskedAtIssue(t) ==
  IF IsRegistered(table, t) /\ ril_request_get_canceled(table, t) THEN "inherited"
  ELSE IF cancelling.token = t THEN "asking" ELSE "no"

Issued(t) ==
  /\ issues' = [issues EXCEPT ![t] = @ + 1]
  /\ asked' = [asked EXCEPT ![t] = AskedAtIssue(t)]

Carry(t, script) ==
  LET tb   == IF script.registers THEN Registered(table, t) ELSE table
      aseq == ril_request_get_id(table, t)
      ring == IF script.how = "none" THEN expects
              ELSE Expecting(expects, aseq, script.command, script.how)
  IN  /\ table' = tb
      /\ expects' = ring
      /\ wire' = wire \cup
           {[aseq |-> aseq, command |-> m.command, part |-> m.part, reply |-> m.reply,
             owner |-> t, issue |-> issues[t] + 1, draw |-> DrawOf(tb, aseq),
             stored |-> IF m.command = script.command THEN ring.drawn ELSE 0] :
            m \in script.sends}
      /\ answers' = [answers EXCEPT ![t] =
           RIL_onRequestComplete(script.now,
             script.registers /\ ril_request_get_canceled(table, t))]

onRequest(t) ==
  /\ Issuable(t)
  /\ Issued(t)
  /\ \E request \in Requests \ {"RADIO_POWER_OFF"} :
       /\ Carry(t, IF ready THEN Handler(tone)[request] ELSE Answer("RADIO_NOT_AVAILABLE"))
       /\ tone' = IF ~ ready THEN tone
                  ELSE CASE request = "DTMF_START" -> TRUE
                         [] request = "DTMF_STOP"  -> FALSE
                         [] OTHER                  -> tone
  /\ UNCHANGED <<ready, failures, cancelling, raced>>

(* ril_request_radio_power with power_state 0: the modem gives no reply to *)
(* the message.  The request is answered, and then everything the driver   *)
(* knows of its requests is cleared.                                       *)
RadioPowerOff(t) ==
  /\ "RADIO_POWER_OFF" \in Requests
  /\ ready
  /\ Issuable(t)
  /\ Issued(t)
  /\ answers' = [answers EXCEPT ![t] =
       RIL_onRequestComplete(<<"SUCCESS">>, ril_request_get_canceled(table, t))]
  /\ table' = ril_requests_tokens_init(Registered(table, t))
  /\ expects' = ipc_gen_phone_res_expects_init(expects)
  /\ tone' = FALSE
  /\ UNCHANGED <<ready, failures, wire, cancelling, raced>>

-----------------------------------------------------------------------------
(* Cancelling: ril_request_set_canceled looks the token up, registers it   *)
(* if it is not in the table, and then stores the flag; no lock is held.   *)

CancelAsked(t) ==
  /\ cancelling = NotCancelling
  /\ Pending(t)
  /\ table.drawn < MaxDraws
  /\ asked[t] \in {"no", "inherited"}
  /\ asked' = [asked EXCEPT ![t] = "asking"]
  /\ UNCHANGED <<expects, tone, ready, failures, wire, issues, answers>>

(* The token is found, or registered without a handler running meanwhile.  *)
OnCancelLookup(t) ==
  /\ CancelAsked(t)
  /\ table' = Registered(table, t)
  /\ cancelling' = LET id == ril_request_get_id(table, t)
                   IN  [token |-> t, id |-> id, draw |-> DrawOf(table', id), step |-> "flag"]
  /\ UNCHANGED raced

(* The token is not found, and handlers run while it is registered.        *)
OnCancelOverlaps(t) ==
  /\ CancelAsked(t)
  /\ ~ IsRegistered(table, t)
  /\ raced' = TRUE
  /\ cancelling' = [NotCancelling EXCEPT !.token = t, !.step = "load"]
  /\ UNCHANGED table

OnCancelGoesOn(step) ==
  /\ cancelling.step = step
  /\ UNCHANGED <<expects, tone, ready, failures, wire, raced, issues, answers>>

(* ril_request_id++ reads the counter ...                                  *)
OnCancelLoad ==
  /\ OnCancelGoesOn("load")
  /\ cancelling' = [cancelling EXCEPT !.id = table.last, !.step = "add"]
  /\ UNCHANGED <<table, asked>>

(* ... and stores it: it may be out of range now, or have been set back.   *)
OnCancelAdd ==
  /\ OnCancelGoesOn("add")
  /\ table' = [table EXCEPT !.last = cancelling.id + 1, !.drawn = @ + 1]
  /\ cancelling' = [cancelling EXCEPT !.step = "reload"]
  /\ UNCHANGED asked

(* ril_request_id %= 0x100 reads it again ...                              *)
OnCancelReload ==
  /\ OnCancelGoesOn("reload")
  /\ cancelling' = [cancelling EXCEPT !.id = table.last, !.step = "wrap"]
  /\ UNCHANGED <<table, asked>>

(* ... and stores the remainder.                                           *)
OnCancelWrap ==
  /\ OnCancelGoesOn("wrap")
  /\ table' = [table EXCEPT !.last = Wrapped(cancelling.id)]
  /\ cancelling' = [cancelling EXCEPT !.step = "return"]
  /\ UNCHANGED asked

(* The counter is read once more for the index that is returned; a handler *)
(* may just have counted it up to NIds, and wrap it only afterwards.       *)
OnCancelReturn ==
  /\ OnCancelGoesOn("return")
  /\ \E id \in {table.last} \cup (IF table.last = 0 THEN {NIds} ELSE {}) :
       cancelling' = [cancelling EXCEPT !.id = id, !.step = "token"]
  /\ UNCHANGED <<table, asked>>

(* A write to the slot of the index; NIds is past the end of the array,    *)
(* where the model has nothing.                                            *)
SlotWrite(written) == table' = IF cancelling.id \in Ids THEN written ELSE table

OnCancelToken ==
  /\ OnCancelGoesOn("token")
  /\ SlotWrite([table EXCEPT !.slot[cancelling.id].token = cancelling.token])
  /\ cancelling' = [cancelling EXCEPT !.step = "clear"]
  /\ UNCHANGED asked

OnCancelClear ==
  /\ OnCancelGoesOn("clear")
  /\ SlotWrite([table EXCEPT !.slot[cancelling.id].canceled = FALSE])
  /\ cancelling' = [cancelling EXCEPT !.step = "flag"]
  /\ UNCHANGED asked

(* The flag is stored, whatever stands in the slot by now.                 *)
OnCancelStore ==
  LET t == cancelling.token
  IN  /\ OnCancelGoesOn("flag")
      /\ SlotWrite([table EXCEPT !.slot[cancelling.id].canceled = TRUE])
      /\ cancelling' = NotCancelling
      /\ asked' = IF /\ Pending(t)
                     /\ cancelling.id \in Ids
                     /\ table.slot[cancelling.id].token = t
                  THEN [asked EXCEPT ![t] = "flagged"] ELSE asked

OnCancelRegisters ==
  \/ OnCancelLoad \/ OnCancelAdd \/ OnCancelReload \/ OnCancelWrap
  \/ OnCancelReturn \/ OnCancelToken \/ OnCancelClear

-----------------------------------------------------------------------------
(* The modem's replies.                                                    *)

(* A message leaves the wire when its last reply has been delivered.       *)
Delivered(m, reply, code) ==
  wire' = IF reply = "GEN" /\ m.reply = "GEN_RESP" /\ code = "ok"
          THEN (wire \ {m}) \cup {[m EXCEPT !.reply = "RESP"]}
          ELSE wire \ {m}

(* IPC_GEN_PHONE_RES is the result of a command; for a message that asks   *)
(* for data it means that the modem refuses.                               *)
MaySendGen(m, code) ==
  \/ m.reply \in {"GEN", "GEN_RESP"}
  \/ m.reply = "RESP" /\ "refuse" \in ModemFaults /\ code # "ok"

(* Mutant of GenAnswers: it goes on after the custom function.             *)
GenAnswersGoingOn(x, command, code) ==
  LET result == IF code = "ok" THEN <<"SUCCESS">> ELSE <<"GENERIC_FAILURE">>
  IN  IF x.how \in Func THEN <<CustomFunction(x.how, code)>> \o result ELSE result

(* The answers ipc_gen_phone_res gives when it has matched expectation x.  *)
(* With another command than the one expected it reports a failure if a    *)
(* custom function is stored, and goes on.                                 *)
GenAnswers(x, command, code) ==
  LET mismatch == IF x.command # command /\ x.how \in Func
                  THEN <<"GENERIC_FAILURE">> ELSE <<>>
      result   == IF code = "ok" THEN <<"SUCCESS">> ELSE <<"GENERIC_FAILURE">>
  IN  mismatch \o CASE x.how \in Func     -> <<CustomFunction(x.how, code)>>
                    [] x.how = "complete" -> result
                    [] x.how = "abort"    -> IF code = "ok" THEN <<>> ELSE result
                    [] x.how = "none"     -> <<>>

ipc_gen_phone_res(m, code) ==
  LET id == ipc_gen_phone_res_get_id(expects, m.aseq)
  IN  /\ MaySendGen(m, code)
      /\ Delivered(m, "GEN", code)
      /\ IF id < 0
         THEN UNCHANGED <<expects, answers>>
         ELSE /\ CompleteAseq(expects.slot[id].aseq,
                              GenAnswers(expects.slot[id], m.command, code))
              /\ expects' = ipc_gen_phone_res_clean_id(expects, id)
      /\ UNCHANGED <<table, tone, ready, failures, cancelling, raced, issues, asked>>

(* The response to a message that asked for data.                          *)
Response(m, faulty) ==
  /\ m.reply = "RESP"
  /\ faulty => "malformed" \in ModemFaults
  /\ Delivered(m, "RESP", "ok")
  /\ CompleteAseq(m.aseq, ResponseHandler(faulty)[m.command])
  /\ UNCHANGED <<table, expects, tone, ready, failures, cancelling, raced, issues, asked>>

-----------------------------------------------------------------------------
(* The sound clients: their message draws an aseq of its own, leaves the   *)
(* slot of that index as it is, and its result interests nobody.           *)
SrsSend(command) ==
  /\ command \in SrsCommands
  /\ table.drawn < MaxDraws
  /\ table' = ril_request_id_new(table)
  /\ wire' = IF ready
             THEN wire \cup {[aseq |-> table'.last, command |-> command, part |-> 1,
                              reply |-> "GEN", owner |-> NoToken, issue |-> 0,
                              draw |-> table'.drawn, stored |-> 0]}
             ELSE wire
  /\ UNCHANGED <<expects, tone, ready, failures, cancelling, raced, issues, asked,
                 answers>>

srs_snd_set_call_clock_sync == SrsSend("SND_CLOCK_CTRL")
srs_snd_set_call_volume     == SrsSend("SND_SPKR_VOLUME_CTRL")
srs_snd_set_call_audio_path == SrsSend("SND_AUDIO_PATH_CTRL")

(* The read loop fails: the client is destroyed and created again, which   *)
(* restarts the modem; until it is ready again, requests are refused.  The *)
(* tables stay as they are.                                                *)
ClientFails ==
  /\ ready
  /\ failures < MaxFailures
  /\ ready' = FALSE
  /\ failures' = failures + 1
  /\ wire' = {}
  /\ UNCHANGED <<table, expects, tone, cancelling, raced, issues, asked, answers>>

ClientReady ==
  /\ ~ ready
  /\ ready' = TRUE
  /\ UNCHANGED <<table, expects, tone, failures, wire, cancelling, raced, issues, asked,
                 answers>>

-----------------------------------------------------------------------------
(* Neither counter has come round to an index somebody still means to use, *)
(* and no registration by onCancel has run into handlers.                  *)
Abreast ==
  /\ ~ raced
  /\ \A m \in wire : /\ InWindow(table, m.draw)
                     /\ m.stored > 0 => expects.drawn - m.stored < NExpects
  /\ cancelling # NotCancelling => InWindow(table, cancelling.draw)

Next ==
  /\ \/ \E t \in Token : onRequest(t)
     \/ \E t \in Token : RadioPowerOff(t)
     \/ \E t \in Token : OnCancelLookup(t)
     \/ \E t \in Token : OnCancelOverlaps(t)
     \/ OnCancelRegisters
     \/ OnCancelStore
     \/ \E m \in wire, code \in Code : ipc_gen_phone_res(m, code)
     \/ \E m \in wire, faulty \in BOOLEAN : Response(m, faulty)
     \/ srs_snd_set_call_clock_sync
     \/ srs_snd_set_call_volume
     \/ srs_snd_set_call_audio_path
     \/ ClientFails
     \/ ClientReady
  /\ KeepsUp => Abreast'

Spec == Init /\ [][Next]_vars

(* The modem replies to every message and the reader thread delivers it;   *)
(* a call of onCancel ends; a client that failed becomes ready again.      *)
Fairness ==
  /\ WF_vars(/\ \/ \E m \in wire, code \in Code : ipc_gen_phone_res(m, code)
                \/ \E m \in wire, faulty \in BOOLEAN : Response(m, faulty)
             /\ KeepsUp => Abreast')
  /\ WF_vars((OnCancelRegisters \/ OnCancelStore) /\ (KeepsUp => Abreast'))
  /\ WF_vars(ClientReady)

FairSpec == Spec /\ Fairness

-----------------------------------------------------------------------------
(* Properties.                                                             *)

(* A reply never reaches another request than its own.  While the counter  *)
(* of ril_request_id_new has not come round, the aseq of a message the     *)
(* modem still owes a reply stands for the token of the request it was     *)
(* sent for, or for no token at all once ril_globals_init has cleared the  *)
(* table; whatever was registered, cancelled or cleared since.  It holds   *)
(* until onCancel has registered a token while handlers ran.               *)
NoMisdelivery ==
  \A m \in wire : ~ raced /\ m.owner \in Token /\ InWindow(table, m.draw) =>
    ril_request_get_token(table, m.aseq) \in {m.owner, NoToken}

(* A token stands in one slot of the table, so that the index onCancel     *)
(* flags, the one messages carry and the one RIL_onRequestComplete looks   *)
(* at are the same: until onCancel has registered a token among handlers.  *)
OneAseqPerToken ==
  \A i, j \in Ids : ~ raced /\ table.slot[i].token = table.slot[j].token =>
                       i = j \/ table.slot[i].token = NoToken

(* What the ring of gen.c expects and what the table of samsung-ril.c      *)
(* remembers agree: as long as an aseq other than 0 stands for the request *)
(* that stored an expectation with it, the expectation is in the ring.     *)
ExpectationKept ==
  \A m \in wire :
    /\ m.stored > 0 /\ m.reply # "RESP" /\ m.aseq # 0
    /\ ril_request_get_token(table, m.aseq) = m.owner
    => Expects(expects, m.aseq, m.command)

(* No request is answered twice: a step that answers a request which has   *)
(* its answer already, and does not come with a new use of the token, can  *)
(* only be one for the request of aseq 0, for which ipc_gen_phone_res_get_id *)
(* mistakes stale expectations.                                            *)
AnsweredAtMostOnce ==
  [][\A t \in Token : answers[t] # <<>> /\ answers'[t] # answers[t] =>
       issues'[t] # issues[t] \/ table.slot[0].token = t]_vars

(* A cancel that has been stored in the slot of a pending request is       *)
(* reported: the request's answer is RIL_E_CANCELLED.  Registrations among *)
(* handlers are the exception: they may clear the flag of another request. *)
CancelHonoured ==
  \A t \in Token : ~ raced /\ asked[t] = "flagged" /\ answers[t] # <<>> =>
    answers[t][1] = "CANCELLED"

(* Nobody is answered RIL_E_CANCELLED who was not cancelled: an aseq that  *)
(* is drawn again does not pass its old flag on, and onCancel, which holds *)
(* no lock between its lookup and its store, flags no other request, as    *)
(* long as the counter does not come round in between.  A token used again *)
(* while it is still in the table does inherit the flag.                   *)
CancelledWhenAsked ==
  \A t \in Token : \A i \in DOMAIN answers[t] :
    answers[t][i] = "CANCELLED" => asked[t] # "no"

(* The driver keeps the promise RequestService makes, the request of aseq  *)
(* 0 being exempt, as long as no counter comes round, every request comes  *)
(* with a fresh token and its handler sends one message.                   *)
Service ==
  INSTANCE RequestService
  WITH asked <- [t \in Token |-> asked[t] # "no"],
       exempt <- {t \in Token : ril_request_get_token(table, 0) = t}

ImplementsService == Service!Spec

(* A request the modem owes a reply under an aseq other than 0, while that *)
(* aseq still stands for it, is answered in the end, unless RADIO_POWER    *)
(* off clears the table before the reply has come.                         *)
OwedRequestAnswered ==
  \A t \in Token :
    (/\ Pending(t)
     /\ \E m \in wire : /\ m.owner = t /\ m.issue = issues[t] /\ m.aseq # 0
                         /\ ril_request_get_token(table, m.aseq) = t)
    ~> ~ Pending(t) \/ ~ IsRegistered(table, t)
=============================================================================
