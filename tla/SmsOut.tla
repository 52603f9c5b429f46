------------------------------- MODULE SmsOut -------------------------------
(***************************************************************************)
(* Sending SMS, sms.c.  One message is sent at a time, which               *)
(* ril_request_sms_lock records; requests that come meanwhile wait in an   *)
(* array, and so does the one in progress while the modem is asked for the *)
(* service center's address.                                               *)
(*                                                                         *)
(* A request is known by its aseq, and each has one of its own; 0 marks a  *)
(* free place of the array, but is an aseq as well.  A PDU is known by the *)
(* request it came with.                                                   *)
(*                                                                         *)
(* The array's copy of a PDU has no terminating NUL, and strlen takes what *)
(* follows it in memory for a part of it.  Whether that makes it too long  *)
(* is open; if it does not, the PDU is sent with a tail, which the model   *)
(* leaves out.                                                             *)
(***************************************************************************)
EXTENDS Integers, Sequences, FiniteSets, FiniteSetsExt

CONSTANTS
  Aseq,         \* the requests
  NPlaces,      \* size of ril_request_sms, 10 in the code
  Pdus,         \* the kinds of PDU rild sends in this instance
  MaxOffs,      \* bound: how often the radio is switched off
  MaxFailures   \* bound: how often the client fails

ASSUME AseqAssumption == Aseq \subseteq Nat /\ NPlaces \in Nat \ {0}
ASSUME PdusAssumption == Pdus \subseteq {"good", "long", "null"}
ASSUME BoundsAssumption == MaxOffs \in Nat /\ MaxFailures \in Nat

Null == -1
Ids == 0 .. NPlaces - 1
Place == [aseq : Aseq \cup {0}, pdu : Aseq \cup {Null}, smsc : BOOLEAN,
          runsOn : BOOLEAN]   \* what follows the PDU makes it too long

VARIABLES
  queue,      \* ril_request_sms
  lock,       \* ril_request_sms_lock
  owed,       \* the replies the modem owes
  kind,       \* the kind of PDU a request came with, "none" before it came
  answers,    \* the answers each request got
  sent,       \* the messages sent: for which request, and whose PDU
  lost,       \* the requests that were dropped: when the array was full, by
              \* RADIO_POWER off, or by a failure of the client
  ignored,    \* whether a refusal of the modem reached no handler
  offs, failures

vars == <<queue, lock, owed, kind, answers, sent, lost, ignored, offs, failures>>

(* A reply that is owed; stale when the request tables were cleared since. *)
Owed == [aseq : Aseq, what : {"SVC_CENTER_ADDR", "GEN", "SEND_MSG"}, stale : BOOLEAN]

Free == [aseq |-> 0, pdu |-> Null, smsc |-> FALSE, runsOn |-> FALSE]

TypeOK ==
  /\ queue \in [Ids -> Place]
  /\ lock \in BOOLEAN
  /\ owed \subseteq Owed
  /\ kind \in [Aseq -> {"none"} \cup Pdus]
  /\ answers \in [Aseq -> Seq({"SUCCESS", "GENERIC_FAILURE"})]
  /\ sent \subseteq [aseq : Aseq, pdu : Aseq]
  /\ lost \subseteq Aseq
  /\ ignored \in BOOLEAN
  /\ offs \in Nat /\ failures \in Nat

Init ==
  /\ queue = [i \in Ids |-> Free]
  /\ lock = FALSE
  /\ owed = {} /\ sent = {} /\ lost = {}
  /\ kind = [r \in Aseq |-> "none"]
  /\ answers = [r \in Aseq |-> <<>>]
  /\ ignored = FALSE
  /\ offs = 0 /\ failures = 0

-----------------------------------------------------------------------------
(* The array.                                                              *)

Taken(q) == {i \in Ids : q[i].aseq # 0 /\ q[i].pdu # Null}
Highest(S) == IF S = {} THEN -1 ELSE Max(S)

(* Mutant of ril_request_sms_clear: the request stays.                     *)
PlaceKept(q, id) == q

ril_request_sms_clear(q, id) == [q EXCEPT ![id] = Free]

(* The array is taken for full when its last place is; then the place 0 is *)
(* given up and the others move down.                                      *)
Full(q) == NPlaces - 1 \in Taken(q)
Shifted(q) == [i \in Ids |-> IF i = NPlaces - 1 THEN Free ELSE q[i + 1]]
ril_request_sms_new(q) == Highest(Taken(q)) + 1

(* The request r is stored; what it came without stays as it was.          *)
Stored(q, id, r, pdu, smsc, runsOn) ==
  [q EXCEPT ![id] = [aseq   |-> r,
                     pdu    |-> IF pdu = Null THEN @.pdu ELSE pdu,
                     smsc   |-> smsc \/ @.smsc,
                     runsOn |-> IF pdu = Null THEN @.runsOn ELSE runsOn]]

(* Mutant of ril_request_sms_add: the last place is written over.          *)
AddOverLast(q, r, pdu, smsc, runsOn) ==
  Stored(q, IF Full(q) THEN NPlaces - 1 ELSE ril_request_sms_new(q), r, pdu, smsc, runsOn)

ril_request_sms_add(q, r, pdu, smsc, runsOn) ==
  IF Full(q) THEN Stored(Shifted(q), NPlaces - 1, r, pdu, smsc, runsOn)
  ELSE Stored(q, ril_request_sms_new(q), r, pdu, smsc, runsOn)

(* Mutant of ril_request_sms_get_id: the place of the next request.        *)
NextPlace(q, r) == Highest(Taken(q))

(* The lowest place that holds the aseq, or -1.                            *)
ril_request_sms_get_id(q, r) ==
  LET holding == {i \in Ids : q[i].aseq = r}
  IN  IF holding = {} THEN -1 ELSE Min(holding)

-----------------------------------------------------------------------------
(* Sending.  What a handler leaves behind is a record of the array q, the  *)
(* lock, the requests that failed on the way, and the request it asked     *)
(* the modem for: its aseq, its PDU and what it asked, or Nothing.         *)

Nothing == [aseq |-> 0, pdu |-> Null, what |-> "NONE"]

(* The checks of the PDU of a place before it is sent.                     *)
Sendable(x) == x.pdu # Null /\ kind[x.pdu] = "good" /\ ~ x.runsOn

(* ril_request_send_sms_next: the lock is given up and the request in the  *)
(* highest place goes on.  If it cannot be sent, it fails and the turn is  *)
(* that of the next one, until one is sent or none is left.  A request     *)
(* without an SMSC goes back to the array until the modem has told it;     *)
(* runsOn tells of its new copy.                                           *)
ril_request_send_sms_next(q, failed, runsOn) ==
  LET fails == {i \in Taken(q) : q[i].smsc /\ ~ Sendable(q[i])}
      next  == Highest(Taken(q) \ fails)
      gone  == {i \in fails : i > next}
      left  == [i \in Ids |-> IF i \in gone \cup {next} THEN Free ELSE q[i]]
      done  == [q |-> left, lock |-> next >= 0, asks |-> Nothing,
                failed |-> failed \cup {q[i].aseq : i \in gone}]
  IN  IF next < 0 THEN done
      ELSE LET x == q[next]
           IN  IF x.smsc
               THEN [done EXCEPT !.asks = [aseq |-> x.aseq, pdu |-> x.pdu, what |-> "GEN"]]
               ELSE [done EXCEPT
                       !.q = ril_request_sms_add(left, x.aseq, x.pdu, FALSE, x.runsOn \/ runsOn),
                       !.asks = [aseq |-> x.aseq, pdu |-> Null, what |-> "SVC_CENTER_ADDR"]]

(* With the SMSC at hand: the PDU of the place x is sent for r, or r fails *)
(* and the next one's turn comes.                                          *)
ril_request_send_sms_complete(q, r, x, runsOn) ==
  IF Sendable(x)
  THEN [q |-> q, lock |-> TRUE, failed |-> {},
        asks |-> [aseq |-> r, pdu |-> x.pdu, what |-> "GEN"]]
  ELSE ril_request_send_sms_next(q, {r}, runsOn)

(* The state after a handler has left s, and answered r with the answers   *)
(* es.  What failed is answered too; nobody is when the tables were        *)
(* cleared, which stale tells of r.                                        *)
Becomes(s, r, es, stale) ==
  LET heard(u) == ~ (stale /\ u = r)
  IN  /\ queue' = s.q
      /\ lock' = s.lock
      /\ answers' = [u \in Aseq |->
           (IF u = r /\ heard(u) THEN answers[u] \o es ELSE answers[u])
             \o (IF u \in s.failed /\ heard(u) THEN <<"GENERIC_FAILURE">> ELSE <<>>)]
      /\ sent' = IF s.asks.what = "GEN"
                 THEN sent \cup {[aseq |-> s.asks.aseq, pdu |-> s.asks.pdu]} ELSE sent

(* The replies owed once m has come in, and s.asks been asked.             *)
Owing(s, rest) ==
  IF s.asks = Nothing THEN rest
  ELSE rest \cup {[aseq |-> s.asks.aseq, what |-> s.asks.what, stale |-> FALSE]}

-----------------------------------------------------------------------------
(* RIL_REQUEST_SEND_SMS and _EXPECT_MORE.                                  *)
ril_request_send_sms(r, k, smsc, runsOn) ==
  LET pdu == IF k = "null" THEN Null ELSE r
      drops == lock /\ Full(queue)
  IN  /\ kind[r] = "none"
      /\ kind' = [kind EXCEPT ![r] = k]
      /\ \/ /\ lock
            /\ queue' = ril_request_sms_add(queue, r, pdu, smsc, runsOn)
            /\ UNCHANGED <<lock, owed, answers, sent>>
         \/ /\ ~ lock /\ ~ smsc
            /\ lock' = TRUE
            /\ queue' = ril_request_sms_add(queue, r, pdu, FALSE, runsOn)
            /\ owed' = owed \cup {[aseq |-> r, what |-> "SVC_CENTER_ADDR", stale |-> FALSE]}
            /\ UNCHANGED <<answers, sent>>
         \/ /\ ~ lock /\ smsc
            /\ LET s == IF k = "good"
                        THEN [q |-> queue, lock |-> TRUE, failed |-> {},
                              asks |-> [aseq |-> r, pdu |-> r, what |-> "GEN"]]
                        ELSE ril_request_send_sms_next(queue, {r}, runsOn)
               IN  Becomes(s, r, <<>>, FALSE) /\ owed' = Owing(s, owed)
      /\ lost' = IF drops /\ queue[0].aseq # 0 THEN lost \cup {queue[0].aseq} ELSE lost
      /\ UNCHANGED <<ignored, offs, failures>>

(* The modem tells the address of the service center.                      *)
ipc_sms_svc_center_addr(m, runsOn) ==
  LET id == ril_request_sms_get_id(queue, m.aseq)
      s  == IF id < 0 THEN ril_request_send_sms_next(queue, {m.aseq}, runsOn)
            ELSE ril_request_send_sms_complete(ril_request_sms_clear(queue, id),
                                               m.aseq, queue[id], runsOn)
  IN  /\ m.what = "SVC_CENTER_ADDR"
      /\ Becomes(s, m.aseq, <<>>, m.stale)
      /\ owed' = Owing(s, owed \ {m})
      /\ UNCHANGED <<kind, lost, ignored, offs, failures>>

(* Mutant of ipc_sms_send_msg_complete: the next one's turn comes before   *)
(* the acknowledgement.                                                    *)
NextOnResult(m, ok, runsOn) ==
  LET s == ril_request_send_sms_next(queue, {}, runsOn)
  IN  /\ m.what = "GEN" /\ (ok \/ ~ m.stale)
      /\ Becomes(s, m.aseq, IF ok THEN <<>> ELSE <<"GENERIC_FAILURE">>, m.stale)
      /\ owed' = Owing(s, owed \ {m})
                   \cup {x \in {[m EXCEPT !.what = "SEND_MSG"]} : ok}
      /\ UNCHANGED <<kind, lost, ignored, offs, failures>>

(* The result of IPC_SMS_SEND_MSG.  A success is followed by the modem's   *)
(* acknowledgement.                                                        *)
ipc_sms_send_msg_complete(m, ok, runsOn) ==
  LET s == ril_request_send_sms_next(queue, {}, runsOn)
  IN  /\ m.what = "GEN"
      /\ \/ /\ ok
            /\ owed' = (owed \ {m}) \cup {[m EXCEPT !.what = "SEND_MSG"]}
            /\ UNCHANGED <<queue, lock, answers, sent>>
         \/ /\ ~ ok /\ ~ m.stale
            /\ Becomes(s, m.aseq, <<"GENERIC_FAILURE">>, FALSE)
            /\ owed' = Owing(s, owed \ {m})
      /\ UNCHANGED <<kind, lost, ignored, offs, failures>>

(* A refusal that ipc_gen_phone_res hands to nobody: of the question for   *)
(* the service center, for which nothing is expected; of a message whose   *)
(* expectation was cleared; and of one of aseq 0, when a clean place of    *)
(* the ring comes before its expectation.                                  *)
ipc_gen_phone_res(m) ==
  /\ m.what = "SVC_CENTER_ADDR" \/ (m.what = "GEN" /\ (m.stale \/ m.aseq = 0))
  /\ owed' = owed \ {m}
  /\ ignored' = TRUE
  /\ UNCHANGED <<queue, lock, kind, answers, sent, lost, offs, failures>>

(* The acknowledgement of a message, with its error or without.            *)
ipc_sms_send_msg(m, e, runsOn) ==
  LET s == ril_request_send_sms_next(queue, {}, runsOn)
  IN  /\ m.what = "SEND_MSG"
      /\ Becomes(s, m.aseq, <<e>>, m.stale)
      /\ owed' = Owing(s, owed \ {m})
      /\ UNCHANGED <<kind, lost, ignored, offs, failures>>

Open(r) == kind[r] # "none" /\ answers[r] = <<>>

(* ril_globals_init: what is on its way then belongs to nobody.            *)
ril_request_sms_init ==
  /\ offs < MaxOffs
  /\ offs' = offs + 1
  /\ queue' = [i \in Ids |-> Free]
  /\ lock' = FALSE
  /\ owed' = {[m EXCEPT !.stale = TRUE] : m \in owed}
  /\ lost' = lost \cup {r \in Aseq : Open(r)}
  /\ UNCHANGED <<kind, answers, sent, ignored, failures>>

(* The client fails and comes back: no reply comes any more, and sms.c     *)
(* does not hear of it.                                                    *)
ClientFails ==
  /\ failures < MaxFailures
  /\ failures' = failures + 1
  /\ owed' = {}
  /\ lost' = lost \cup {m.aseq : m \in owed}
  /\ UNCHANGED <<queue, lock, kind, answers, sent, ignored, offs>>

Next ==
  \/ \E r \in Aseq, k \in Pdus, smsc \in BOOLEAN : \E runsOn \in {FALSE, k = "good"} :
       ril_request_send_sms(r, k, smsc, runsOn)
  \/ \E m \in owed, runsOn \in BOOLEAN : ipc_sms_svc_center_addr(m, runsOn)
  \/ \E m \in owed, ok \in BOOLEAN, runsOn \in BOOLEAN :
       ipc_sms_send_msg_complete(m, ok, runsOn)
  \/ \E m \in owed : ipc_gen_phone_res(m)
  \/ \E m \in owed, e \in {"SUCCESS", "GENERIC_FAILURE"}, runsOn \in BOOLEAN :
       ipc_sms_send_msg(m, e, runsOn)
  \/ ril_request_sms_init
  \/ ClientFails

Spec == Init /\ [][Next]_vars

-----------------------------------------------------------------------------
(* Properties.                                                             *)

(* One message is sent at a time, and the lock tells of it: as long as the *)
(* radio stays on, the modem owes replies for one request at most, and     *)
(* only while the lock is taken.                                           *)
OneInProgress == offs = 0 => Cardinality(owed) <= 1 /\ (owed # {} => lock)

(* No request waits for nothing: as long as the radio stays on, the client *)
(* works and each refusal of the modem finds its handler, the lock is only *)
(* taken while the modem owes a reply, whose handler gives it up; and a    *)
(* request that ought to be sent only waits while the lock is taken, even  *)
(* when a refusal was ignored.                                             *)
NobodyWaitsInVain ==
  offs = 0 /\ failures = 0 =>
    (lock => owed # {} \/ ignored) /\ (Taken(queue) # {} => lock)

(* The variables have their types, one message is in progress at a time,   *)
(* and while one is not nobody waits.                                      *)
SmsOutInv == TypeOK /\ OneInProgress /\ NobodyWaitsInVain

(* As long as the radio stays on no request is answered twice, although    *)
(* one that waits is taken from the array and put back, and is answered by *)
(* whichever handler finds that it cannot be sent.                         *)
AnsweredAtMostOnce == offs = 0 => \A r \in Aseq : Len(answers[r]) <= 1

(* A request with a PDU that is not answered yet waits in the array, also  *)
(* while the modem is asked for its service center, or was handed to the   *)
(* modem, unless it was dropped.  (The request of aseq 0 may be forgotten: *)
(* its place is taken for a free one.)                                     *)
NothingForgotten ==
  \A r \in Aseq \ lost : Open(r) /\ kind[r] # "null" /\ r # 0 =>
    \/ \E i \in Taken(queue) : queue[i].aseq = r
    \/ \E m \in owed : m.aseq = r /\ m.what # "SVC_CENTER_ADDR" /\ ~ m.stale

(* A request is sent with its own PDU, although a place is not cleared of  *)
(* what another request left in it; unless the request has none.           *)
OwnPdu == \A s \in sent : kind[s.aseq] # "null" => s.pdu = s.aseq
=============================================================================
