-------------------------------- MODULE SmsIn --------------------------------
(***************************************************************************)
(* Incoming messages (sms.c): each has a tpid, which the driver queues and *)
(* puts into the delivery report when rild acknowledges.  rild is told a   *)
(* message and acknowledges what it was told in that order, once each; the *)
(* acknowledgement says nothing of which message it is for.                *)
(*                                                                         *)
(* The array of tpids is a sequence of N places; 0 is a free one.  A       *)
(* message is known by its number; the modem waits for the report of those *)
(* in waiting.  PDUs and failure causes are left out.                      *)
(***************************************************************************)
EXTENDS Integers, Sequences, SequencesExt, FiniteSetsExt

CONSTANTS
  N,             \* places in the array (10 in the code)
  Tpids,         \* the tpids the modem gives
  Types,         \* the types of its messages
  MaxMessages,   \* bound: how many messages come
  MaxOffs,       \* bound: how often RADIO_POWER off clears the array
  MaxFailures    \* bound: how often the client fails

ASSUME NAssumption == N \in Nat \ {0}
ASSUME TpidsAssumption == Tpids \subseteq 0 .. 255
ASSUME SmsBoundsAssumption == MaxMessages \in Nat /\ MaxOffs \in Nat /\ MaxFailures \in Nat

VARIABLES
  ipc_sms_tpid_queue,
  fromModem, toModem,   \* messages on their way
  come,                 \* how many messages the modem had so far
  waiting,              \* those whose report it waits for, with their tpid
  pending,              \* those rild was told and has not acknowledged, and
                        \* whether it had acknowledged all others by then
  acks,                 \* the acknowledgements of rild: how each was answered
  offs, failures

rild == <<pending, acks>>
vars == <<ipc_sms_tpid_queue, fromModem, toModem, come, waiting, rild, offs, failures>>

Place == 1 .. N
Free == 0
Verdict == {"SUCCESS", "FAILURE"}
Message == [n : 1 .. MaxMessages, tpid : Tpids, type : Types]
FromModem == [what : {"INCOMING"}, msg : Message] \cup [what : {"REPLY"}, token : Nat, ok : BOOLEAN]
Report == [tpid : Tpids, verdict : Verdict, token : Nat]

TypeOK ==
  /\ ipc_sms_tpid_queue \in [Place -> Tpids \cup {Free}]
  /\ fromModem \in Seq(FromModem) /\ toModem \in Seq(Report)
  /\ come \in 0 .. MaxMessages /\ waiting \subseteq Message
  /\ pending \in Seq([msg : Message, alone : BOOLEAN]) /\ acks \in Seq({"none", "SUCCESS", "GENERIC_FAILURE"})
  /\ offs \in 0 .. MaxOffs /\ failures \in 0 .. MaxFailures

ipc_sms_tpid_queue_init == [i \in Place |-> Free]

Init ==
  /\ ipc_sms_tpid_queue = ipc_sms_tpid_queue_init
  /\ fromModem = <<>> /\ toModem = <<>>
  /\ come = 0 /\ waiting = {}
  /\ pending = <<>> /\ acks = <<>>
  /\ offs = 0 /\ failures = 0

-----------------------------------------------------------------------------
(* The array.                                                              *)

Used(q) == {i \in DOMAIN q : q[i] # Free}

(* The place of the next tpid, 0 if there is none: above all that are used.*)
ipc_sms_tpid_queue_new(q) ==
  IF q[N] # Free THEN 0 ELSE IF Used(q) = {} THEN 1 ELSE Max(Used(q)) + 1

(* All places move down, the first one's tpid is lost.                     *)
MovedDown(q) == [i \in DOMAIN q |-> IF i = N THEN Free ELSE q[i + 1]]

(* Mutant of ipc_sms_tpid_queue_add: into the first place that is free.    *)
AddOverLast(q, tpid) ==
  LET id == ipc_sms_tpid_queue_new(q)
  IN  IF id = 0 THEN [q EXCEPT ![N] = tpid] ELSE [q EXCEPT ![id] = tpid]

ipc_sms_tpid_queue_add(q, tpid) ==
  LET id == ipc_sms_tpid_queue_new(q)
  IN  IF id = 0 THEN [MovedDown(q) EXCEPT ![N] = tpid] ELSE [q EXCEPT ![id] = tpid]

(* Mutant of ipc_sms_tpid_queue_get_next: the first in is the first out.   *)
GetFirst(q) == IF Used(q) = {} THEN 0 ELSE Min(Used(q))

(* The last place that is used, 0 if none is.                              *)
ipc_sms_tpid_queue_get_next(q) == IF Used(q) = {} THEN 0 ELSE Max(Used(q))

ipc_sms_tpid_queue_del(q, id) == [q EXCEPT ![id] = Free]

-----------------------------------------------------------------------------
(* The driver.                                                             *)

(* Whatever its type the message is queued, but rild is told of two only.  *)
ipc_sms_incoming_msg(m) ==
  /\ ipc_sms_tpid_queue' = ipc_sms_tpid_queue_add(ipc_sms_tpid_queue, m.tpid)
  /\ pending' = IF m.type \in {"POINT_TO_POINT", "STATUS_REPORT"}
                THEN Append(pending, [msg |-> m, alone |-> pending = <<>>]) ELSE pending
  /\ UNCHANGED <<acks, toModem>>

Answered(t, errno) == acks' = [acks EXCEPT ![t] = errno]

(* The modem's reply to a report; a refusal is the abort of the            *)
(* expectation, and a report that was accepted is answered by a second     *)
(* message.                                                                *)
ipc_sms_deliver_report(m) ==
  /\ Answered(m.token, IF m.ok THEN "SUCCESS" ELSE "GENERIC_FAILURE")
  /\ UNCHANGED <<ipc_sms_tpid_queue, pending, toModem>>

Receive ==
  /\ fromModem # <<>>
  /\ fromModem' = Tail(fromModem)
  /\ LET m == Head(fromModem)
     IN  \/ m.what = "INCOMING" /\ ipc_sms_incoming_msg(m.msg)
         \/ m.what = "REPLY" /\ m.token # 0 /\ ipc_sms_deliver_report(m)
         \/ /\ m.what = "REPLY" /\ m.token = 0
            /\ UNCHANGED <<ipc_sms_tpid_queue, rild, toModem>>
  /\ UNCHANGED <<come, waiting, offs, failures>>

(* Mutant of Acknowledged: the tpid stays in the queue.                    *)
AcknowledgedKept(id) == ipc_sms_tpid_queue

Acknowledged(id) == ipc_sms_tpid_queue_del(ipc_sms_tpid_queue, id)

ril_request_sms_acknowledge(verdict) ==
  LET id == ipc_sms_tpid_queue_get_next(ipc_sms_tpid_queue)
      t  == Len(acks) + 1
      report == [tpid |-> ipc_sms_tpid_queue[id], verdict |-> verdict, token |-> t]
  IN  /\ pending # <<>>
      /\ pending' = Tail(pending)
      /\ \/ /\ id = 0
            /\ acks' = Append(acks, "GENERIC_FAILURE")
            /\ UNCHANGED <<ipc_sms_tpid_queue, toModem>>
         \/ /\ id # 0
            /\ acks' = Append(acks, "none")
            /\ toModem' = Append(toModem, report)
            /\ ipc_sms_tpid_queue' = Acknowledged(id)
      /\ UNCHANGED <<fromModem, come, waiting, offs, failures>>

(* RADIO_POWER off: the array is cleared and the tokens are forgotten.     *)
RadioPowerOff ==
  /\ offs < MaxOffs
  /\ offs' = offs + 1
  /\ ipc_sms_tpid_queue' = ipc_sms_tpid_queue_init
  /\ fromModem' = [i \in DOMAIN fromModem |->
                     IF fromModem[i].what = "REPLY" THEN [fromModem[i] EXCEPT !.token = 0]
                     ELSE fromModem[i]]
  /\ toModem' = [i \in DOMAIN toModem |-> [toModem[i] EXCEPT !.token = 0]]
  /\ UNCHANGED <<come, waiting, rild, failures>>

-----------------------------------------------------------------------------
(* The modem.                                                              *)

(* A new message; its tpid is that of no other the modem waits for: the    *)
(* lowest there is, of which nothing depends, or 0, which is special.      *)
FreshTpids ==
  LET fresh == Tpids \ {m.tpid : m \in waiting}
  IN  {tpid \in fresh : tpid = 0 \/ \A other \in fresh \ {0} : tpid <= other}

Deliver ==
  /\ come < MaxMessages
  /\ \E tpid \in FreshTpids, type \in Types :
       LET m == [n |-> come + 1, tpid |-> tpid, type |-> type]
       IN  /\ waiting' = waiting \cup {m}
           /\ fromModem' = Append(fromModem, [what |-> "INCOMING", msg |-> m])
  /\ come' = come + 1
  /\ UNCHANGED <<ipc_sms_tpid_queue, toModem, rild, offs, failures>>

(* A report ends the wait for its message, or is refused.                  *)
Serve ==
  /\ toModem # <<>>
  /\ toModem' = Tail(toModem)
  /\ LET r == Head(toModem)
     IN  \E ok \in BOOLEAN :
           /\ fromModem' = Append(fromModem, [what |-> "REPLY", token |-> r.token, ok |-> ok])
           /\ waiting' = IF ok THEN {m \in waiting : m.tpid # r.tpid} ELSE waiting
  /\ UNCHANGED <<ipc_sms_tpid_queue, come, rild, offs, failures>>

(* The client fails: what is on its way is lost, and the modem, booting,   *)
(* waits for nothing; the array stays.                                     *)
ClientFails ==
  /\ failures < MaxFailures
  /\ failures' = failures + 1
  /\ fromModem' = <<>> /\ toModem' = <<>>
  /\ waiting' = {}
  /\ UNCHANGED <<ipc_sms_tpid_queue, come, rild, offs>>

-----------------------------------------------------------------------------

Next ==
  \/ \E verdict \in Verdict : ril_request_sms_acknowledge(verdict)
  \/ RadioPowerOff
  \/ Receive
  \/ Deliver
  \/ Serve
  \/ ClientFails

Spec == Init /\ [][Next]_vars

-----------------------------------------------------------------------------
(* Properties.                                                             *)

(* The tpids fill the array from below, without a gap.                     *)
Compact ==
  \A i, j \in Place :
    i < j /\ ipc_sms_tpid_queue[j] # Free => ipc_sms_tpid_queue[i] # Free

(* The tpids the driver has queued or is reporting, by what holds them.    *)
Held ==
  {[where |-> "queue", i |-> i, tpid |-> ipc_sms_tpid_queue[i]] : i \in Used(ipc_sms_tpid_queue)}
  \cup {[where |-> "line", i |-> i, tpid |-> toModem[i].tpid] : i \in DOMAIN toModem}

(* The array has no gaps; and until the client fails each tpid that is     *)
(* queued or under way belongs to a message the modem waits for, and no    *)
(* two to the same: none is reported twice, whatever is queued, dropped,   *)
(* refused or cleared in between.                                          *)
SmsInInv ==
  /\ TypeOK
  /\ Compact
  /\ failures = 0 =>
       /\ \A h \in Held : \E m \in waiting : m.tpid = h.tpid
       /\ \A g, h \in Held : g.tpid = h.tpid => g = h

(* The array is the bounded stack it is meant to be.                       *)
Stacked(q) == SubSeq(q, 1, ipc_sms_tpid_queue_get_next(q))

Stack == INSTANCE TpidStack WITH stack <- Stacked(ipc_sms_tpid_queue)

ImplementsStack == Stack!Spec

(* No message that came after m has reached the driver yet.                *)
Latest(m) ==
  \A n \in m.n + 1 .. come :
    \E i \in DOMAIN fromModem : fromModem[i].what = "INCOMING" /\ fromModem[i].msg.n = n

(* A message that comes when rild has acknowledged all others, and that it *)
(* acknowledges before the next comes, is reported under its own tpid,     *)
(* whatever else the queue holds, or the acknowledgement fails.  (With     *)
(* others in between the last one's tpid is taken, whichever is meant; a   *)
(* message of tpid 0 is not in the queue.)                                 *)
OwnReport ==
  [][\A p \in ToSet(pending) :
       /\ Len(acks') > Len(acks) /\ pending = <<p>> /\ p.alone
       /\ failures = 0 /\ Latest(p.msg) /\ p.msg.tpid # 0
       => \/ Last(acks') = "GENERIC_FAILURE"
          \/ Last(toModem').tpid = p.msg.tpid /\ Last(toModem').token = Len(acks')]_vars
=============================================================================
