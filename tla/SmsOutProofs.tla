----------------------------- MODULE SmsOutProofs -----------------------------
(***************************************************************************)
(* ril_request_sms_lock does what a lock is for, whatever the size of the  *)
(* array, the requests and their PDUs, and however often the radio is      *)
(* switched off and the client fails.                                      *)
(***************************************************************************)
EXTENDS SmsOut, SequenceTheorems, FiniteSetTheorems, WellFoundedInduction, TLAPS

USE AseqAssumption, PdusAssumption, BoundsAssumption

Queue == [Ids -> Place]
Errno == {"SUCCESS", "GENERIC_FAILURE"}

(* A set of places is empty or has a highest one: that with the least      *)
(* distance from the end.                                                  *)
LEMMA HighestOf ==
  ASSUME NEW S, S \subseteq Ids
  PROVE  \/ S = {} /\ Highest(S) = -1
         \/ Highest(S) \in S /\ \A y \in S : Highest(S) >= y
<1>1. CASE S = {} BY <1>1 DEF Highest
<1>2. CASE S # {}
  <2> DEFINE R == {ss \in Nat \X Nat : ss[1] < ss[2]}
             T == {NPlaces - x : x \in S}
  <2>1. IsWellFoundedOn(R, Nat) BY NatLessThanWellFounded DEF OpToRel
  <2>2. T \subseteq Nat /\ T # {}
    <3>1. \A x \in S : NPlaces - x \in Nat BY DEF Ids
    <3> QED BY <1>2, <3>1
  <2>3. \E d \in T : \A e \in T : <<e, d>> \notin R
    <3> HIDE DEF R, T
    <3> QED BY <2>1, <2>2, WFMin
  <2>4. PICK x \in S : \A e \in T : <<e, NPlaces - x>> \notin R BY <2>3
  <2>5. \A y \in S : x >= y
    <3>1. \A y \in S : NPlaces - y \in T /\ NPlaces - y \in Nat /\ NPlaces - x \in Nat BY DEF Ids
    <3>2. \A y \in S : ~ (NPlaces - y < NPlaces - x) BY <2>4, <3>1
    <3> QED BY <3>2 DEF Ids
  <2>6. Highest(S) = Max(S) BY <1>2 DEF Highest
  <2> QED BY <2>5, <2>6 DEF Max
<1> QED BY <1>1, <1>2

(* And a lowest one, so that the search for an aseq ends at a place that   *)
(* holds it.                                                               *)
LEMMA GetId ==
  ASSUME NEW q, NEW r
  PROVE  \/ /\ ril_request_sms_get_id(q, r) = -1
            /\ \A i \in Ids : q[i].aseq # r
         \/ /\ ril_request_sms_get_id(q, r) \in Ids
            /\ q[ril_request_sms_get_id(q, r)].aseq = r
<1> DEFINE R == {ss \in Nat \X Nat : ss[1] < ss[2]}
           S == {i \in Ids : q[i].aseq = r}
<1>1. IsWellFoundedOn(R, Nat) BY NatLessThanWellFounded DEF OpToRel
<1>2. CASE S # {}
  <2>1. S \subseteq Nat BY DEF Ids
  <2>2. \E n \in S : \A m \in S : <<m, n>> \notin R
    <3> HIDE DEF R, S
    <3> QED BY <1>1, <1>2, <2>1, WFMin
  <2>3. PICK n \in S : \A m \in S : ~ (m < n) BY <2>1, <2>2
  <2>4. \A m \in S : n <= m BY <2>1, <2>3
  <2>5. Min(S) \in S BY <2>4 DEF Min
  <2> QED BY <1>2, <2>5 DEF ril_request_sms_get_id
<1>3. CASE S = {} BY <1>3 DEF ril_request_sms_get_id
<1> QED BY <1>2, <1>3

-----------------------------------------------------------------------------
(* What a handler leaves behind is sound when the lock tells whether the   *)
(* modem was asked, nothing to be sent is left if it was not, and what it  *)
(* was asked to send is a PDU.                                             *)
Sound(s) ==
  /\ s.q \in Queue /\ s.lock \in BOOLEAN
  /\ \/ s.asks = Nothing /\ ~ s.lock /\ Taken(s.q) = {}
     \/ /\ s.lock /\ s.asks.aseq \in Aseq
        /\ \/ s.asks.what = "GEN" /\ s.asks.pdu \in Aseq
           \/ s.asks.what = "SVC_CENTER_ADDR"

(* Storing a request keeps the array typed.                                *)
LEMMA AddTyped ==
  ASSUME NEW q \in Queue, NEW r \in Aseq, NEW pdu \in Aseq \cup {Null},
         NEW smsc \in BOOLEAN, NEW runsOn \in BOOLEAN
  PROVE  ril_request_sms_add(q, r, pdu, smsc, runsOn) \in Queue
<1>1. \A p \in Queue, id \in Ids : Stored(p, id, r, pdu, smsc, runsOn) \in Queue
  BY DEF Stored, Queue, Place
<1>2. CASE Full(q)
  <2>1. Free \in Place BY DEF Free, Place
  <2>2. Shifted(q) \in Queue BY <2>1 DEF Shifted, Queue, Ids
  <2>3. NPlaces - 1 \in Ids BY DEF Ids
  <2> QED BY <1>1, <1>2, <2>2, <2>3 DEF ril_request_sms_add
<1>3. CASE ~ Full(q)
  <2>1. Taken(q) \subseteq Ids /\ NPlaces - 1 \notin Taken(q) BY <1>3 DEF Taken, Full
  <2>2. ril_request_sms_new(q) \in Ids
    BY <2>1, HighestOf DEF ril_request_sms_new, Ids
  <2> QED BY <1>1, <1>3, <2>2 DEF ril_request_sms_add
<1> QED BY <1>2, <1>3

(* What ril_request_send_sms_next leaves behind is sound.                  *)
LEMMA NextSound ==
  ASSUME NEW q \in Queue, NEW failed, NEW runsOn \in BOOLEAN
  PROVE  Sound(ril_request_send_sms_next(q, failed, runsOn))
<1> DEFINE fails == {i \in Taken(q) : q[i].smsc /\ ~ Sendable(q[i])}
           next  == Highest(Taken(q) \ fails)
           gone  == {i \in fails : i > next}
           left  == [i \in Ids |-> IF i \in gone \cup {next} THEN Free ELSE q[i]]
           done  == [q |-> left, lock |-> next >= 0, asks |-> Nothing,
                     failed |-> failed \cup {q[i].aseq : i \in gone}]
           x == q[next]
           s == ril_request_send_sms_next(q, failed, runsOn)
<1> SUFFICES Sound(s) OBVIOUS
<1>1. Taken(q) \subseteq Ids BY DEF Taken
<1>2. \/ Taken(q) \ fails = {} /\ next = -1
      \/ next \in Taken(q) \ fails /\ \A y \in Taken(q) \ fails : next >= y
  BY <1>1, HighestOf
<1>3. left \in Queue
  <2>1. Free \in Place BY DEF Free, Place
  <2> QED BY <2>1 DEF Queue
<1>4. s = IF next < 0 THEN done
          ELSE IF x.smsc
               THEN [done EXCEPT !.asks = [aseq |-> x.aseq, pdu |-> x.pdu, what |-> "GEN"]]
               ELSE [done EXCEPT
                       !.q = ril_request_sms_add(left, x.aseq, x.pdu, FALSE, x.runsOn \/ runsOn),
                       !.asks = [aseq |-> x.aseq, pdu |-> Null, what |-> "SVC_CENTER_ADDR"]]
  BY DEF ril_request_send_sms_next
<1>5. CASE next < 0
  <2>1. next = -1 /\ Taken(q) = fails BY <1>1, <1>2, <1>5 DEF Ids
  <2>2. \A i \in Taken(q) : i \in gone BY <1>1, <2>1 DEF Ids
  <2>3. Taken(left) = {} BY <2>2 DEF Taken, Free
  <2>4. s = done BY <1>4, <1>5
  <2>5. s.q = left /\ s.asks = Nothing BY <2>4
  <2>6. s.lock = FALSE
    <3>1. s.lock = (next >= 0) BY <2>4
    <3>2. (next >= 0) = FALSE BY <2>1
    <3> QED BY <3>1, <3>2
  <2> HIDE DEF left, s
  <2> QED BY <1>3, <2>3, <2>5, <2>6 DEF Sound
<1>6. CASE ~ (next < 0)
  <2>1. next \in Taken(q) \ fails /\ next >= 0 BY <1>1, <1>2, <1>6 DEF Ids
  <2>2. x \in Place /\ x.aseq \in Aseq /\ x.pdu \in Aseq
    <3>1. next \in Taken(q) BY <2>1
    <3> HIDE DEF next
    <3>2. next \in Ids /\ x.aseq # 0 /\ x.pdu # Null BY <3>1 DEF Taken
    <3>3. x \in Place BY <3>2 DEF Queue
    <3> QED BY <3>2, <3>3 DEF Place
  <2>3. CASE x.smsc
    <3>1. /\ s.q = left /\ s.lock = TRUE
          /\ s.asks = [aseq |-> x.aseq, pdu |-> x.pdu, what |-> "GEN"]
      BY <1>4, <1>6, <2>1, <2>3
    <3>2. s.asks.aseq = x.aseq /\ s.asks.pdu = x.pdu /\ s.asks.what = "GEN" BY <3>1
    <3>3. s.q \in Queue BY <1>3, <3>1
    <3> HIDE DEF s, x
    <3> QED BY <2>2, <3>1, <3>2, <3>3 DEF Sound
  <2>4. CASE ~ x.smsc
    <3> DEFINE again == ril_request_sms_add(left, x.aseq, x.pdu, FALSE, x.runsOn \/ runsOn)
    <3>1. /\ s.q = again /\ s.lock = TRUE
          /\ s.asks = [aseq |-> x.aseq, pdu |-> Null, what |-> "SVC_CENTER_ADDR"]
      BY <1>4, <1>6, <2>1, <2>4
    <3>2. x.runsOn \/ runsOn \in BOOLEAN BY <2>2 DEF Place
    <3> HIDE DEF left, x
    <3>3. again \in Queue BY <1>3, <2>2, <3>2, AddTyped
    <3>4. s.asks.aseq = x.aseq /\ s.asks.what = "SVC_CENTER_ADDR" BY <3>1
    <3>5. s.q \in Queue BY <3>1, <3>3
    <3> HIDE DEF s, again
    <3> QED BY <2>2, <3>1, <3>4, <3>5 DEF Sound
  <2> QED BY <2>3, <2>4
<1> QED BY <1>5, <1>6

(* And so is what ril_request_send_sms_complete leaves behind.             *)
LEMMA CompleteSound ==
  ASSUME NEW q \in Queue, NEW r \in Aseq, NEW x \in Place, NEW runsOn \in BOOLEAN
  PROVE  Sound(ril_request_send_sms_complete(q, r, x, runsOn))
<1>1. CASE Sendable(x)
  <2>1. x.pdu \in Aseq BY <1>1 DEF Sendable, Place
  <2> QED BY <1>1, <2>1 DEF ril_request_send_sms_complete, Sound
<1>2. CASE ~ Sendable(x) BY <1>2, NextSound DEF ril_request_send_sms_complete
<1> QED BY <1>1, <1>2

-----------------------------------------------------------------------------
(* As long as the radio stays on the modem owes one reply at most, to a    *)
(* message whose request is known, and then the lock is taken; and while   *)
(* the client works, too, the lock is taken only then, and nobody waits    *)
(* otherwise.                                                              *)
Alone ==
  offs = 0 =>
    /\ \A m, n \in owed : m = n
    /\ \A m \in owed : ~ m.stale
    /\ owed # {} => lock
    /\ failures = 0 => (lock => owed # {} \/ ignored) /\ (Taken(queue) # {} => lock)

IInv == TypeOK /\ Alone

(* A handler that has taken the reply m, or has found the lock free and    *)
(* taken none, keeps that.                                                 *)
LEMMA BecomesKeeps ==
  ASSUME IInv, NEW s, Sound(s), NEW rest, rest \subseteq owed, offs = 0 => rest = {},
         NEW r \in Aseq, NEW es \in Seq(Errno), NEW stale \in BOOLEAN,
         Becomes(s, r, es, stale), owed' = Owing(s, rest),
         kind' \in [Aseq -> {"none"} \cup Pdus], lost' \subseteq Aseq,
         UNCHANGED <<ignored, offs, failures>>
  PROVE  IInv'
<1>1. queue' \in [Ids -> Place] /\ lock' = s.lock /\ lock' \in BOOLEAN
  BY DEF Becomes, Sound, Queue
<1>2. \/ s.asks = Nothing /\ owed' = rest
      \/ /\ s.asks # Nothing /\ s.asks.aseq \in Aseq
         /\ owed' = rest \cup {[aseq |-> s.asks.aseq, what |-> s.asks.what, stale |-> FALSE]}
         /\ s.asks.what \in {"GEN", "SVC_CENTER_ADDR"}
  BY DEF Sound, Owing, Nothing
<1>3. owed' \subseteq Owed
  <2>1. rest \subseteq Owed BY DEF IInv, TypeOK
  <2>2. s.asks.aseq \in Aseq /\ s.asks.what \in {"GEN", "SVC_CENTER_ADDR"} =>
          [aseq |-> s.asks.aseq, what |-> s.asks.what, stale |-> FALSE] \in Owed
    BY DEF Owed
  <2> QED BY <1>2, <2>1, <2>2
<1>4. answers' \in [Aseq -> Seq(Errno)]
  <2>1. \A a \in Seq(Errno), b \in Seq(Errno) : a \o b \in Seq(Errno) BY ConcatProperties
  <2>2. <<"GENERIC_FAILURE">> \in Seq(Errno) /\ <<>> \in Seq(Errno) BY DEF Errno
  <2>3. \A u \in Aseq : answers[u] \in Seq(Errno) BY DEF IInv, TypeOK, Errno
  <2> DEFINE heard(u) == ~ (stale /\ u = r)
             first(u) == IF u = r /\ heard(u) THEN answers[u] \o es ELSE answers[u]
             last(u) == IF u \in s.failed /\ heard(u) THEN <<"GENERIC_FAILURE">> ELSE <<>>
  <2>4. \A u \in Aseq : first(u) \in Seq(Errno) /\ last(u) \in Seq(Errno)
    BY <2>1, <2>2, <2>3
  <2>5. answers' = [u \in Aseq |-> first(u) \o last(u)] BY DEF Becomes
  <2> HIDE DEF first, last
  <2>6. \A u \in Aseq : first(u) \o last(u) \in Seq(Errno) BY <2>1, <2>4
  <2> QED BY <2>5, <2>6
<1>5. sent' \subseteq [aseq : Aseq, pdu : Aseq]
  BY DEF Becomes, Sound, Nothing, IInv, TypeOK
<1>6. Alone'
  <2> SUFFICES ASSUME offs = 0 PROVE Alone' BY DEF Alone
  <2>1. rest = {} OBVIOUS
  <2>2. CASE s.asks = Nothing
    <3>1. ~ s.lock /\ Taken(s.q) = {} BY <2>2 DEF Sound, Nothing
    <3>2. Taken(queue') = {} BY <3>1 DEF Becomes
    <3> QED BY <1>1, <1>2, <2>1, <2>2, <3>1, <3>2 DEF Alone
  <2>3. CASE s.asks # Nothing
    <3> DEFINE new == [aseq |-> s.asks.aseq, what |-> s.asks.what, stale |-> FALSE]
    <3>1. s.lock BY <2>3 DEF Sound
    <3>2. ~ new.stale OBVIOUS
    <3>3. owed' = {new} BY <1>2, <2>1, <2>3
    <3> HIDE DEF new
    <3> QED BY <1>1, <3>1, <3>2, <3>3 DEF Alone
  <2> QED BY <2>2, <2>3
<1> QED BY <1>1, <1>3, <1>4, <1>5, <1>6 DEF IInv, TypeOK, Errno

(* What is left of the replies when the one has come in.                   *)
LEMMA RestOf ==
  ASSUME IInv, NEW m \in owed
  PROVE  /\ owed \ {m} \subseteq owed /\ offs = 0 => owed \ {m} = {}
         /\ m.aseq \in Aseq /\ m.stale \in BOOLEAN
BY DEF IInv, TypeOK, Alone, Owed

-----------------------------------------------------------------------------
(* One lemma for each action.                                              *)

(* A request waits, or asks, or goes its way; with the lock free the modem *)
(* owes nothing.                                                           *)
LEMMA RequestKeeps ==
  ASSUME IInv, NEW r \in Aseq, NEW k \in Pdus, NEW smsc \in BOOLEAN,
         NEW runsOn \in {FALSE, k = "good"}, ril_request_send_sms(r, k, smsc, runsOn)
  PROVE  IInv'
<1> DEFINE pdu == IF k = "null" THEN Null ELSE r
           s == IF k = "good"
                THEN [q |-> queue, lock |-> TRUE, failed |-> {},
                      asks |-> [aseq |-> r, pdu |-> r, what |-> "GEN"]]
                ELSE ril_request_send_sms_next(queue, {r}, runsOn)
<1>1. kind' \in [Aseq -> {"none"} \cup Pdus] /\ lost' \subseteq Aseq
      /\ UNCHANGED <<ignored, offs, failures>>
  <2>1. 0 \in Ids BY DEF Ids
  <2>2. queue[0].aseq # 0 => queue[0].aseq \in Aseq BY <2>1 DEF IInv, TypeOK, Place
  <2> QED BY <2>2 DEF ril_request_send_sms, IInv, TypeOK
<1>2. queue \in Queue /\ runsOn \in BOOLEAN BY DEF IInv, TypeOK, Queue
<1>3. pdu \in Aseq \cup {Null} OBVIOUS
<1>4. CASE lock /\ queue' = ril_request_sms_add(queue, r, pdu, smsc, runsOn)
           /\ UNCHANGED <<lock, owed, answers, sent>>
  <2>1. queue' \in Queue BY <1>2, <1>3, <1>4, AddTyped
  <2>2. TypeOK' BY <1>1, <1>4, <2>1 DEF IInv, TypeOK, Queue
  <2>3. Alone' BY <1>1, <1>4 DEF IInv, Alone
  <2> QED BY <2>2, <2>3 DEF IInv
<1>5. CASE /\ ~ lock /\ lock' = TRUE
           /\ queue' = ril_request_sms_add(queue, r, pdu, FALSE, runsOn)
           /\ owed' = owed \cup {[aseq |-> r, what |-> "SVC_CENTER_ADDR", stale |-> FALSE]}
           /\ UNCHANGED <<answers, sent>>
  <2>1. queue' \in Queue BY <1>2, <1>3, <1>5, AddTyped
  <2>2. [aseq |-> r, what |-> "SVC_CENTER_ADDR", stale |-> FALSE] \in Owed BY DEF Owed
  <2>3. owed' \subseteq Owed BY <1>5, <2>2 DEF IInv, TypeOK
  <2>4. TypeOK' BY <1>1, <1>5, <2>1, <2>3 DEF IInv, TypeOK, Queue
  <2>5. Alone'
    <3> DEFINE new == [aseq |-> r, what |-> "SVC_CENTER_ADDR", stale |-> FALSE]
    <3>1. ~ new.stale OBVIOUS
    <3>2. owed' = owed \cup {new} BY <1>5
    <3> HIDE DEF new
    <3> QED BY <1>1, <1>5, <3>1, <3>2 DEF IInv, Alone
  <2> QED BY <2>4, <2>5 DEF IInv
<1>6. CASE ~ lock /\ Becomes(s, r, <<>>, FALSE) /\ owed' = Owing(s, owed)
  <2>1. Sound(s)
    <3>1. CASE k = "good" BY <1>2, <3>1 DEF Sound
    <3>2. CASE k # "good" BY <1>2, <3>2, NextSound
    <3> QED BY <3>1, <3>2
  <2>2. offs = 0 => owed = {} BY <1>6 DEF IInv, Alone
  <2>3. <<>> \in Seq(Errno) OBVIOUS
  <2> HIDE DEF s
  <2> QED BY <1>1, <1>6, <2>1, <2>2, <2>3, BecomesKeeps
<1> QED BY <1>4, <1>5, <1>6 DEF ril_request_send_sms

(* The address has come in: the request is sent, or the next one's turn    *)
(* comes.                                                                  *)
LEMMA AddressKeeps ==
  ASSUME IInv, NEW m \in owed, NEW runsOn \in BOOLEAN, ipc_sms_svc_center_addr(m, runsOn)
  PROVE  IInv'
<1> DEFINE id == ril_request_sms_get_id(queue, m.aseq)
           s  == IF id < 0 THEN ril_request_send_sms_next(queue, {m.aseq}, runsOn)
                 ELSE ril_request_send_sms_complete(ril_request_sms_clear(queue, id),
                                                    m.aseq, queue[id], runsOn)
<1>1. queue \in Queue BY DEF IInv, TypeOK, Queue
<1>2. Sound(s)
  <2>1. CASE id < 0 BY <1>1, <2>1, NextSound
  <2>2. CASE ~ (id < 0)
    <3>1. id \in Ids BY <2>2, GetId
    <3>2. ril_request_sms_clear(queue, id) \in Queue /\ queue[id] \in Place
      BY <1>1, <3>1 DEF ril_request_sms_clear, Queue, Place, Free
    <3> QED BY <2>2, <3>2, RestOf, CompleteSound
  <2> QED BY <2>1, <2>2
<1>3. Becomes(s, m.aseq, <<>>, m.stale) /\ owed' = Owing(s, owed \ {m})
      /\ UNCHANGED <<kind, lost, ignored, offs, failures>>
  BY DEF ipc_sms_svc_center_addr
<1>4. <<>> \in Seq(Errno) OBVIOUS
<1>5. kind' \in [Aseq -> {"none"} \cup Pdus] /\ lost' \subseteq Aseq BY <1>3 DEF IInv, TypeOK
<1>6. m.aseq \in Aseq /\ m.stale \in BOOLEAN /\ owed \ {m} \subseteq owed
      /\ (offs = 0 => owed \ {m} = {})
  BY RestOf
<1> HIDE DEF s
<1>7. Becomes(s, m.aseq, <<>>, TRUE) \/ Becomes(s, m.aseq, <<>>, FALSE)
  <2>1. m.stale = TRUE \/ m.stale = FALSE BY <1>6
  <2> QED BY <1>3, <2>1, Zenon
<1> QED BY <1>2, <1>3, <1>4, <1>5, <1>6, <1>7, BecomesKeeps

(* The result of IPC_SMS_SEND_MSG: the acknowledgement is to follow, or    *)
(* the next one's turn comes.                                              *)
LEMMA ResultKeeps ==
  ASSUME IInv, NEW m \in owed, NEW ok \in BOOLEAN, NEW runsOn \in BOOLEAN,
         ipc_sms_send_msg_complete(m, ok, runsOn)
  PROVE  IInv'
<1> DEFINE s == ril_request_send_sms_next(queue, {}, runsOn)
<1>1. queue \in Queue BY DEF IInv, TypeOK, Queue
<1>2. Sound(s) BY <1>1, NextSound
<1>3. UNCHANGED <<kind, lost, ignored, offs, failures>> BY DEF ipc_sms_send_msg_complete
<1>4. CASE owed' = (owed \ {m}) \cup {[m EXCEPT !.what = "SEND_MSG"]}
           /\ UNCHANGED <<queue, lock, answers, sent>>
  <2>1. [m EXCEPT !.what = "SEND_MSG"] \in Owed BY DEF IInv, TypeOK, Owed
  <2>2. TypeOK' BY <1>3, <1>4, <2>1 DEF IInv, TypeOK
  <2>3. Alone'
    <3> DEFINE new == [m EXCEPT !.what = "SEND_MSG"]
    <3>1. new.stale = m.stale BY DEF IInv, TypeOK, Owed
    <3>2. owed' = (owed \ {m}) \cup {new} BY <1>4
    <3> HIDE DEF new
    <3> QED BY <1>3, <1>4, <3>1, <3>2 DEF IInv, Alone
  <2> QED BY <2>2, <2>3 DEF IInv
<1>5. CASE Becomes(s, m.aseq, <<"GENERIC_FAILURE">>, FALSE) /\ owed' = Owing(s, owed \ {m})
  <2>1. <<"GENERIC_FAILURE">> \in Seq(Errno) BY DEF Errno
  <2>2. kind' \in [Aseq -> {"none"} \cup Pdus] /\ lost' \subseteq Aseq BY <1>3 DEF IInv, TypeOK
  <2> HIDE DEF s
  <2> QED BY <1>2, <1>3, <1>5, <2>1, <2>2, RestOf, BecomesKeeps
<1> QED BY <1>4, <1>5 DEF ipc_sms_send_msg_complete

(* A refusal that is ignored: the lock stays taken.                        *)
LEMMA RefusalKeeps ==
  ASSUME IInv, NEW m \in owed, ipc_gen_phone_res(m)
  PROVE  IInv'
<1>1. owed' = owed \ {m} /\ ignored' = TRUE
      /\ UNCHANGED <<queue, lock, kind, answers, sent, lost, offs, failures>>
  BY DEF ipc_gen_phone_res
<1>2. TypeOK' BY <1>1 DEF IInv, TypeOK
<1>3. Alone' BY <1>1 DEF IInv, Alone, Taken
<1> QED BY <1>2, <1>3 DEF IInv

(* The acknowledgement: the next one's turn comes.                         *)
LEMMA AcknowledgementKeeps ==
  ASSUME IInv, NEW m \in owed, NEW e \in Errno, NEW runsOn \in BOOLEAN,
         ipc_sms_send_msg(m, e, runsOn)
  PROVE  IInv'
<1> DEFINE s == ril_request_send_sms_next(queue, {}, runsOn)
<1>1. queue \in Queue BY DEF IInv, TypeOK, Queue
<1>2. Sound(s) BY <1>1, NextSound
<1>3. Becomes(s, m.aseq, <<e>>, m.stale) /\ owed' = Owing(s, owed \ {m})
      /\ UNCHANGED <<kind, lost, ignored, offs, failures>>
  BY DEF ipc_sms_send_msg
<1>4. <<e>> \in Seq(Errno) OBVIOUS
<1>5. kind' \in [Aseq -> {"none"} \cup Pdus] /\ lost' \subseteq Aseq BY <1>3 DEF IInv, TypeOK
<1>6. m.aseq \in Aseq /\ m.stale \in BOOLEAN /\ owed \ {m} \subseteq owed
      /\ (offs = 0 => owed \ {m} = {})
  BY RestOf
<1> HIDE DEF s
<1>7. Becomes(s, m.aseq, <<e>>, TRUE) \/ Becomes(s, m.aseq, <<e>>, FALSE)
  <2>1. m.stale = TRUE \/ m.stale = FALSE BY <1>6
  <2> QED BY <1>3, <2>1, Zenon
<1> QED BY <1>2, <1>3, <1>4, <1>5, <1>6, <1>7, BecomesKeeps

-----------------------------------------------------------------------------
(* Every step keeps the invariant.                                         *)
LEMMA StepKeeps == IInv /\ [Next]_vars => IInv'
<1> SUFFICES ASSUME IInv, [Next]_vars PROVE IInv' OBVIOUS
<1>1. ASSUME NEW r \in Aseq, NEW k \in Pdus, NEW smsc \in BOOLEAN,
             NEW runsOn \in {FALSE, k = "good"}, ril_request_send_sms(r, k, smsc, runsOn)
      PROVE  IInv'
  BY <1>1, RequestKeeps
<1>2. ASSUME NEW m \in owed, NEW runsOn \in BOOLEAN, ipc_sms_svc_center_addr(m, runsOn)
      PROVE  IInv'
  BY <1>2, AddressKeeps
<1>3. ASSUME NEW m \in owed, NEW ok \in BOOLEAN, NEW runsOn \in BOOLEAN,
             ipc_sms_send_msg_complete(m, ok, runsOn)
      PROVE  IInv'
  BY <1>3, ResultKeeps
<1>4. ASSUME NEW m \in owed, NEW e \in {"SUCCESS", "GENERIC_FAILURE"}, NEW runsOn \in BOOLEAN,
             ipc_sms_send_msg(m, e, runsOn)
      PROVE  IInv'
  BY <1>4, AcknowledgementKeeps DEF Errno
<1>5. CASE ril_request_sms_init
  <2>1. queue' \in [Ids -> Place]
    BY <1>5 DEF ril_request_sms_init, Free, Place
  <2>2. owed' \subseteq Owed
    <3>1. \A m \in Owed : [m EXCEPT !.stale = TRUE] \in Owed BY DEF Owed
    <3> QED BY <1>5, <3>1 DEF ril_request_sms_init, IInv, TypeOK
  <2>3. lost' \subseteq Aseq /\ lock' \in BOOLEAN /\ offs' \in Nat
        /\ kind' = kind /\ answers' = answers /\ sent' = sent /\ ignored' = ignored /\ failures' = failures
    <3>1. lost' \subseteq Aseq BY <1>5 DEF ril_request_sms_init, IInv, TypeOK
    <3>2. offs' \in Nat /\ lock' \in BOOLEAN
      <4>1. offs \in Nat /\ offs' = offs + 1 BY <1>5 DEF ril_request_sms_init, IInv, TypeOK
      <4>2. lock' = FALSE BY <1>5 DEF ril_request_sms_init
      <4>3. offs' \in Nat BY <4>1
      <4> QED BY <4>2, <4>3
    <3>3. kind' = kind /\ answers' = answers /\ sent' = sent /\ ignored' = ignored /\ failures' = failures
      BY <1>5 DEF ril_request_sms_init
    <3> QED BY <3>1, <3>2, <3>3
  <2>5. TypeOK' BY <2>1, <2>2, <2>3 DEF IInv, TypeOK
  <2>4. Alone' BY <1>5 DEF ril_request_sms_init, IInv, TypeOK, Alone
  <2> QED BY <2>4, <2>5 DEF IInv
<1>6. CASE ClientFails
  <2>3. \A m \in owed : m.aseq \in Aseq BY DEF IInv, TypeOK, Owed
  <2>4. lost' \subseteq Aseq /\ owed' = {} /\ failures' \in Nat
        /\ queue' = queue /\ lock' = lock /\ kind' = kind /\ answers' = answers
        /\ sent' = sent /\ ignored' = ignored /\ offs' = offs
    <3>1. lost' \subseteq Aseq BY <1>6, <2>3 DEF ClientFails, IInv, TypeOK
    <3>2. failures' \in Nat BY <1>6 DEF ClientFails, IInv, TypeOK
    <3>3. owed' = {} /\ queue' = queue /\ lock' = lock /\ kind' = kind /\ answers' = answers
          /\ sent' = sent /\ ignored' = ignored /\ offs' = offs
      BY <1>6 DEF ClientFails
    <3> QED BY <3>1, <3>2, <3>3
  <2>1. TypeOK' BY <2>4 DEF IInv, TypeOK
  <2>2. Alone' BY <1>6 DEF ClientFails, IInv, TypeOK, Alone
  <2> QED BY <2>1, <2>2 DEF IInv
<1>8. ASSUME NEW m \in owed, ipc_gen_phone_res(m) PROVE IInv'
  BY <1>8, RefusalKeeps
<1>7. CASE UNCHANGED vars BY <1>7 DEF vars, IInv, TypeOK, Alone, Taken
<1> QED BY <1>1, <1>2, <1>3, <1>4, <1>5, <1>6, <1>7, <1>8 DEF Next

(* So it holds in every state.                                             *)
LEMMA IInvAlways == Spec => []IInv
<1>1. Init => IInv
  <2> SUFFICES ASSUME Init PROVE IInv OBVIOUS
  <2>1. Free \in Place /\ Free.aseq = 0 BY DEF Free, Place
  <2>2. queue \in [Ids -> Place] /\ Taken(queue) = {} BY <2>1 DEF Init, Taken
  <2>3. TypeOK
    <3>1. answers \in [Aseq -> Seq({"SUCCESS", "GENERIC_FAILURE"})] BY DEF Init
    <3>2. kind \in [Aseq -> {"none"} \cup Pdus] BY DEF Init
    <3> QED BY <2>2, <3>1, <3>2 DEF Init, TypeOK
  <2>4. Alone BY <2>2 DEF Init, Alone
  <2> QED BY <2>3, <2>4 DEF IInv
<1> QED BY <1>1, StepKeeps, PTL DEF Spec

(* The lock of sms.c: as long as the radio stays on one message at most is *)
(* with the modem, and the lock is taken while one is; as long as the      *)
(* client works, nobody waits while it is free, and it is taken only while *)
(* the modem owes the reply that gives it up, unless a refusal reached no  *)
(* handler.  However many requests there are, and places.                  *)
THEOREM OneMessageAtATime == Spec => []SmsOutInv
<1>1. IInv => SmsOutInv
  <2> SUFFICES ASSUME IInv PROVE SmsOutInv OBVIOUS
  <2>1. OneInProgress
    <3> SUFFICES ASSUME offs = 0 PROVE Cardinality(owed) <= 1 /\ (owed # {} => lock)
      BY DEF OneInProgress
    <3>1. CASE owed = {} BY <3>1, FS_EmptySet
    <3>2. CASE owed # {}
      <4>1. PICK m \in owed : owed = {m} BY <3>2 DEF IInv, Alone
      <4>2. Cardinality({m}) = 1 BY FS_Singleton
      <4> QED BY <3>2, <4>1, <4>2 DEF IInv, Alone
    <3> QED BY <3>1, <3>2
  <2>2. NobodyWaitsInVain BY DEF IInv, Alone, NobodyWaitsInVain
  <2> QED BY <2>1, <2>2 DEF IInv, SmsOutInv
<1> QED BY <1>1, IInvAlways, PTL
-----------------------------------------------------------------------------
(* What the array holds, where a handler leaves it.                        *)

(* The array without the requests of some places.                          *)
Without(q, S) == [i \in Ids |-> IF i \in S THEN Free ELSE q[i]]

(* A request is stored in a place that is not taken, after the others have *)
(* moved down if the array is full.                                        *)
LEMMA AddIs ==
  ASSUME NEW q \in Queue, NEW r, NEW pdu, NEW smsc, NEW runsOn
  PROVE  \E id \in Ids, p \in Queue :
           /\ ril_request_sms_add(q, r, pdu, smsc, runsOn) = Stored(p, id, r, pdu, smsc, runsOn)
           /\ id \notin Taken(p)
           /\ \/ ~ Full(q) /\ p = q
              \/ Full(q) /\ p = Shifted(q) /\ p[id] = Free
<1>1. Free \in Place BY DEF Free, Place
<1>2. CASE Full(q)
  <2>1. NPlaces - 1 \in Ids BY DEF Ids
  <2>2. Shifted(q) \in Queue BY <1>1 DEF Shifted, Queue, Ids
  <2>3. Shifted(q)[NPlaces - 1] = Free BY <2>1 DEF Shifted
  <2>4. NPlaces - 1 \notin Taken(Shifted(q)) BY <2>3 DEF Taken, Free
  <2> QED BY <1>2, <2>1, <2>2, <2>3, <2>4 DEF ril_request_sms_add
<1>3. CASE ~ Full(q)
  <2> DEFINE id == ril_request_sms_new(q)
  <2>1. Taken(q) \subseteq Ids /\ NPlaces - 1 \notin Taken(q) BY <1>3 DEF Taken, Full
  <2>2. id \in Ids /\ id \notin Taken(q)
    <3>1. CASE Taken(q) = {} BY <3>1, <2>1, HighestOf DEF ril_request_sms_new, Ids
    <3>2. CASE Taken(q) # {}
      <4>1. Highest(Taken(q)) \in Taken(q) /\ \A y \in Taken(q) : Highest(Taken(q)) >= y
        BY <2>1, <3>2, HighestOf
      <4> QED BY <2>1, <4>1 DEF ril_request_sms_new, Ids
    <3> QED BY <3>1, <3>2
  <2> QED BY <1>3, <2>2 DEF ril_request_sms_add
<1> QED BY <1>2, <1>3

(* ril_request_send_sms_next takes some requests out that fail; then none  *)
(* is left, or the one in place n is sent, or it is stored again until the *)
(* address is known.                                                       *)
NoneLeft(q, s, gone) == s.asks = Nothing /\ gone = Taken(q) /\ s.q = Without(q, gone)

OneSent(q, s, gone, n) ==
  /\ s.asks = [aseq |-> q[n].aseq, pdu |-> q[n].pdu, what |-> "GEN"]
  /\ s.q = Without(q, gone \cup {n})

OneStored(q, s, gone, n) ==
  /\ s.asks = [aseq |-> q[n].aseq, pdu |-> Null, what |-> "SVC_CENTER_ADDR"]
  /\ \E id \in Ids \ Taken(Without(q, gone \cup {n})), on \in BOOLEAN :
       s.q = Stored(Without(q, gone \cup {n}), id, q[n].aseq, q[n].pdu, FALSE, on)

(* ril_request_send_sms_next drops some places, and then finds none left,  *)
(* sends one, or stores one that has to wait.                              *)
LEMMA NextIs ==
  ASSUME NEW q \in Queue, NEW failed, NEW runsOn \in BOOLEAN, NEW s,
         s = ril_request_send_sms_next(q, failed, runsOn)
  PROVE  \E gone \in SUBSET Taken(q) :
           /\ s.failed = failed \cup {q[i].aseq : i \in gone}
           /\ \/ NoneLeft(q, s, gone)
              \/ \E n \in Taken(q) \ gone : OneSent(q, s, gone, n) \/ OneStored(q, s, gone, n)
<1> DEFINE fails == {i \in Taken(q) : q[i].smsc /\ ~ Sendable(q[i])}
           next  == Highest(Taken(q) \ fails)
           gone  == {i \in fails : i > next}
           left  == [i \in Ids |-> IF i \in gone \cup {next} THEN Free ELSE q[i]]
           done  == [q |-> left, lock |-> next >= 0, asks |-> Nothing,
                     failed |-> failed \cup {q[i].aseq : i \in gone}]
           x == q[next]
<1>1. Taken(q) \subseteq Ids BY DEF Taken
<1>2. \/ Taken(q) \ fails = {} /\ next = -1
      \/ next \in Taken(q) \ fails /\ \A y \in Taken(q) \ fails : next >= y
  BY <1>1, HighestOf
<1>3. left \in Queue
  <2>1. Free \in Place BY DEF Free, Place
  <2> QED BY <2>1 DEF Queue
<1>4. s = IF next < 0 THEN done
          ELSE IF x.smsc
               THEN [done EXCEPT !.asks = [aseq |-> x.aseq, pdu |-> x.pdu, what |-> "GEN"]]
               ELSE [done EXCEPT
                       !.q = ril_request_sms_add(left, x.aseq, x.pdu, FALSE, x.runsOn \/ runsOn),
                       !.asks = [aseq |-> x.aseq, pdu |-> Null, what |-> "SVC_CENTER_ADDR"]]
  BY DEF ril_request_send_sms_next
<1>5. gone \in SUBSET Taken(q) OBVIOUS
<1>6. s.failed = failed \cup {q[i].aseq : i \in gone}
  <2> HIDE DEF next, gone, left, x
  <2>1. CASE next < 0 BY <1>4, <2>1
  <2>2. CASE ~ (next < 0) /\ x.smsc BY <1>4, <2>2
  <2>3. CASE ~ (next < 0) /\ ~ x.smsc BY <1>4, <2>3
  <2> QED BY <2>1, <2>2, <2>3
<1>7. CASE next < 0
  <2>1. next = -1 /\ Taken(q) = fails BY <1>1, <1>2, <1>7 DEF Ids
  <2>2. \A i \in Ids : i > next BY <2>1 DEF Ids
  <2>3. gone = Taken(q) BY <1>1, <2>1, <2>2
  <2>4. next \notin Ids BY <2>1 DEF Ids
  <2>5. left = Without(q, gone) BY <2>4 DEF Without
  <2>6. s.q = left /\ s.asks = Nothing BY <1>4, <1>7
  <2> HIDE DEF gone, left
  <2>7. NoneLeft(q, s, gone) BY <2>3, <2>5, <2>6 DEF NoneLeft
  <2> QED BY <1>5, <1>6, <2>7
<1>8. CASE ~ (next < 0)
  <2>1. next \in Taken(q) /\ next \notin gone /\ next \in Ids BY <1>1, <1>2, <1>8 DEF Ids
  <2>2. left = Without(q, gone \cup {next}) BY DEF Without
  <2>3. CASE x.smsc
    <3>1. s.q = left /\ s.asks = [aseq |-> x.aseq, pdu |-> x.pdu, what |-> "GEN"]
      BY <1>4, <1>8, <2>3
    <3>2. OneSent(q, s, gone, next) BY <2>2, <3>1 DEF OneSent
    <3> HIDE DEF gone, left, next
    <3> QED BY <1>5, <1>6, <2>1, <3>2
  <2>4. CASE ~ x.smsc
    <3> DEFINE on == x.runsOn \/ runsOn
               no == FALSE
    <3>1. /\ s.q = ril_request_sms_add(left, x.aseq, x.pdu, no, on)
          /\ s.asks = [aseq |-> x.aseq, pdu |-> Null, what |-> "SVC_CENTER_ADDR"]
      BY <1>4, <1>8, <2>4
    <3>3. on \in BOOLEAN
      <4>1. x.runsOn \in BOOLEAN BY <2>1 DEF Queue, Place
      <4> QED BY <4>1
    <3>2. ~ Full(left)
      <4> SUFFICES ASSUME NPlaces - 1 \in Taken(left) PROVE FALSE BY DEF Full
      <4>1. NPlaces - 1 \in Taken(q) /\ NPlaces - 1 \notin gone /\ NPlaces - 1 # next
        BY DEF Taken, Free
      <4>2. next \in Nat /\ next < NPlaces - 1 BY <1>1, <2>1, <4>1 DEF Ids
      <4>3. NPlaces - 1 \notin fails BY <4>1, <4>2
      <4>4. next >= NPlaces - 1
        <5> HIDE DEF next, fails
        <5> QED BY <1>2, <2>1, <4>1, <4>3
      <4> QED BY <4>2, <4>4
    <3> HIDE DEF gone, left, next, on, no, x
    <3>4. PICK id \in Ids, p \in Queue :
             /\ ril_request_sms_add(left, x.aseq, x.pdu, no, on)
                  = Stored(p, id, x.aseq, x.pdu, no, on)
             /\ id \notin Taken(p)
             /\ \/ ~ Full(left) /\ p = left
                \/ Full(left) /\ p = Shifted(left) /\ p[id] = Free
      BY <1>3, AddIs
    <3>5. /\ s.q = Stored(left, id, x.aseq, x.pdu, no, on)
          /\ id \in Ids \ Taken(left)
      BY <3>1, <3>2, <3>4
    <3>6. OneStored(q, s, gone, next)
      BY <2>2, <3>1, <3>3, <3>5 DEF OneStored, x, no
    <3> QED BY <1>5, <1>6, <2>1, <3>6
  <2> QED BY <2>3, <2>4
<1> QED BY <1>7, <1>8

-----------------------------------------------------------------------------
(* Whose PDU is sent.                                                      *)

(* A place that is not free holds no PDU or that of its request, where a   *)
(* request that came without one may have found another's; kd tells what   *)
(* the requests came with.  And a place that counts as free holds nothing  *)
(* or what the request of aseq 0 came with.                                *)
HasOwn(kd, x) ==
  IF x.aseq = 0 THEN x.pdu \in {Null, 0}
  ELSE kd[x.aseq] # "null" => x.pdu \in {Null, x.aseq}

AllOwn(kd, q) == \A i \in Ids : HasOwn(kd, q[i])

OwnInv == AllOwn(kind, queue) /\ OwnPdu

(* Storing a request with its own PDU keeps each PDU with its request.     *)
LEMMA StoredOwn ==
  ASSUME NEW kd, NEW q \in Queue, AllOwn(kd, q), NEW id \in Ids \ Taken(q),
         NEW r \in Aseq, NEW pdu \in Aseq \cup {Null},
         r = 0 => pdu \in {Null, 0}, r # 0 /\ kd[r] # "null" => pdu = r,
         NEW smsc, NEW on
  PROVE  AllOwn(kd, Stored(q, id, r, pdu, smsc, on))
<1> DEFINE p == Stored(q, id, r, pdu, smsc, on)
<1> SUFFICES ASSUME NEW i \in Ids PROVE HasOwn(kd, p[i]) BY DEF AllOwn
<1>1. CASE i # id
  <2>1. p[i] = q[i] BY <1>1 DEF Stored, Queue
  <2> QED BY <2>1 DEF AllOwn
<1>2. CASE i = id
  <2>1. p[i].aseq = r /\ p[i].pdu = IF pdu = Null THEN q[id].pdu ELSE pdu
    BY <1>2 DEF Stored, Queue
  <2>2. q[id].aseq = 0 \/ q[id].pdu = Null BY DEF Taken
  <2>3. HasOwn(kd, q[id]) BY DEF AllOwn
  <2>4. r = 0 => p[i].pdu \in {Null, 0} BY <2>1, <2>2, <2>3 DEF HasOwn
  <2>5. r # 0 /\ kd[r] # "null" => p[i].pdu = r BY <2>1 DEF Null
  <2> QED BY <2>1, <2>4, <2>5 DEF HasOwn
<1> QED BY <1>1, <1>2

(* So does adding one, which may drop the oldest.                          *)
LEMMA AddOwn ==
  ASSUME NEW kd, NEW q \in Queue, AllOwn(kd, q),
         NEW r \in Aseq, NEW pdu \in Aseq \cup {Null},
         r = 0 => pdu \in {Null, 0}, r # 0 /\ kd[r] # "null" => pdu = r,
         NEW smsc, NEW on
  PROVE  AllOwn(kd, ril_request_sms_add(q, r, pdu, smsc, on))
<1>1. PICK id \in Ids, p \in Queue :
        /\ ril_request_sms_add(q, r, pdu, smsc, on) = Stored(p, id, r, pdu, smsc, on)
        /\ id \notin Taken(p)
        /\ \/ ~ Full(q) /\ p = q
           \/ Full(q) /\ p = Shifted(q) /\ p[id] = Free
  BY AddIs
<1>2. AllOwn(kd, Shifted(q))
  <2> SUFFICES ASSUME NEW i \in Ids PROVE HasOwn(kd, Shifted(q)[i]) BY DEF AllOwn
  <2>1. CASE i = NPlaces - 1
    <3>1. Shifted(q)[i] = Free BY <2>1 DEF Shifted
    <3> QED BY <3>1 DEF HasOwn, Free
  <2>2. CASE i # NPlaces - 1
    <3>1. i + 1 \in Ids /\ Shifted(q)[i] = q[i + 1] BY <2>2 DEF Shifted, Ids
    <3> QED BY <3>1 DEF AllOwn
  <2> QED BY <2>1, <2>2
<1>3. AllOwn(kd, p) BY <1>1, <1>2
<1>4. AllOwn(kd, Stored(p, id, r, pdu, smsc, on)) BY <1>1, <1>3, StoredOwn
<1> QED BY <1>1, <1>4

(* So does emptying some places.                                           *)
LEMMA WithoutOwn ==
  ASSUME NEW kd, NEW q \in Queue, AllOwn(kd, q), NEW S
  PROVE  Without(q, S) \in Queue /\ AllOwn(kd, Without(q, S))
<1>1. Free \in Place /\ HasOwn(kd, Free) BY DEF Free, Place, HasOwn
<1>2. Without(q, S) \in Queue BY <1>1 DEF Without, Queue
<1>3. ASSUME NEW i \in Ids PROVE HasOwn(kd, Without(q, S)[i])
  <2>1. Without(q, S)[i] = Free \/ Without(q, S)[i] = q[i] BY DEF Without
  <2> QED BY <1>1, <2>1 DEF AllOwn
<1> QED BY <1>2, <1>3 DEF AllOwn

(* The modem is asked to send the request's own PDU.                       *)
AsksOwn(s) ==
  s.asks.what = "GEN" /\ kind[s.asks.aseq] # "null" => s.asks.pdu = s.asks.aseq

(* What ril_request_send_sms_next leaves behind holds each its own, and so *)
(* does the message it sends.                                              *)
LEMMA NextOwn ==
  ASSUME NEW q \in Queue, AllOwn(kind, q), NEW failed, NEW runsOn \in BOOLEAN, NEW s,
         s = ril_request_send_sms_next(q, failed, runsOn)
  PROVE  AllOwn(kind, s.q) /\ AsksOwn(s)
<1>1. PICK gone \in SUBSET Taken(q) :
        /\ s.failed = failed \cup {q[i].aseq : i \in gone}
        /\ \/ NoneLeft(q, s, gone)
           \/ \E n \in Taken(q) \ gone : OneSent(q, s, gone, n) \/ OneStored(q, s, gone, n)
  BY NextIs
<1>2. CASE NoneLeft(q, s, gone) BY <1>2, WithoutOwn DEF NoneLeft, Nothing, AsksOwn
<1>3. ASSUME NEW n \in Taken(q) \ gone, OneSent(q, s, gone, n) \/ OneStored(q, s, gone, n)
      PROVE  AllOwn(kind, s.q) /\ AsksOwn(s)
  <2> DEFINE p == Without(q, gone \cup {n})
  <2>1. p \in Queue /\ AllOwn(kind, p) BY WithoutOwn
  <2>2. /\ n \in Ids /\ q[n].aseq # 0 /\ q[n].pdu # Null
        /\ q[n].aseq \in Aseq /\ q[n].pdu \in Aseq
    BY DEF Taken, Queue, Place
  <2>3. kind[q[n].aseq] # "null" => q[n].pdu = q[n].aseq BY <2>2 DEF AllOwn, HasOwn
  <2>4. CASE OneSent(q, s, gone, n) BY <2>1, <2>3, <2>4 DEF OneSent, AsksOwn
  <2>5. CASE OneStored(q, s, gone, n)
    <3>1. PICK id \in Ids \ Taken(p), on \in BOOLEAN :
            s.q = Stored(p, id, q[n].aseq, q[n].pdu, FALSE, on)
      BY <2>5 DEF OneStored
    <3>2. s.asks.what # "GEN" BY <2>5 DEF OneStored
    <3>3. AllOwn(kind, s.q)
      <4> DEFINE no == FALSE
                 r == q[n].aseq
                 pdu == q[n].pdu
      <4>1. s.q = Stored(p, id, r, pdu, no, on) BY <3>1
      <4>2. r \in Aseq /\ pdu \in Aseq \cup {Null} BY <2>2
      <4>3. (r = 0 => pdu \in {Null, 0}) /\ (r # 0 /\ kind[r] # "null" => pdu = r)
        BY <2>2, <2>3
      <4> HIDE DEF no, p, r, pdu
      <4>4. AllOwn(kind, Stored(p, id, r, pdu, no, on))
        BY <2>1, <3>1, <4>2, <4>3, StoredOwn, Zenon
      <4> QED BY <4>1, <4>4
    <3> QED BY <3>2, <3>3 DEF AsksOwn
  <2> QED BY <1>3, <2>4, <2>5
<1> QED BY <1>1, <1>2, <1>3

(* Completing a request sends the message of a request with its own PDU.   *)
LEMMA CompleteOwn ==
  ASSUME NEW q \in Queue, AllOwn(kind, q), NEW r \in Aseq, NEW x \in Place,
         x.aseq = r, HasOwn(kind, x), NEW runsOn \in BOOLEAN, NEW s,
         s = ril_request_send_sms_complete(q, r, x, runsOn)
  PROVE  AllOwn(kind, s.q) /\ AsksOwn(s)
<1>1. CASE Sendable(x)
  <2>1. s.q = q /\ s.asks = [aseq |-> r, pdu |-> x.pdu, what |-> "GEN"]
    BY <1>1 DEF ril_request_send_sms_complete
  <2>2. x.pdu # Null BY <1>1 DEF Sendable
  <2>3. kind[r] # "null" => x.pdu = r BY <2>2 DEF HasOwn
  <2> QED BY <2>1, <2>3 DEF AsksOwn
<1>2. CASE ~ Sendable(x)
  <2>1. s = ril_request_send_sms_next(q, {r}, runsOn)
    BY <1>2 DEF ril_request_send_sms_complete
  <2> QED BY <2>1, NextOwn
<1> QED BY <1>1, <1>2

(* The state a handler leaves keeps that.                                  *)
LEMMA BecomesOwn ==
  ASSUME OwnInv, UNCHANGED kind, NEW s, AllOwn(kind, s.q), AsksOwn(s),
         NEW r, NEW es, NEW stale, Becomes(s, r, es, stale)
  PROVE  OwnInv'
<1>1. queue' = s.q
      /\ sent' = IF s.asks.what = "GEN"
                 THEN sent \cup {[aseq |-> s.asks.aseq, pdu |-> s.asks.pdu]} ELSE sent
  BY DEF Becomes
<1>2. AllOwn(kind', queue') BY <1>1
<1>3. OwnPdu'
  <2> SUFFICES ASSUME NEW x \in sent', kind[x.aseq] # "null" PROVE x.pdu = x.aseq
    BY DEF OwnPdu
  <2> QED BY <1>1 DEF OwnInv, OwnPdu, AsksOwn
<1> QED BY <1>2, <1>3 DEF OwnInv

(* A new request keeps that.                                               *)
LEMMA RequestOwn ==
  ASSUME IInv, OwnInv, NEW r \in Aseq, NEW k \in Pdus, NEW smsc \in BOOLEAN,
         NEW runsOn \in {FALSE, k = "good"}, ril_request_send_sms(r, k, smsc, runsOn)
  PROVE  OwnInv'
<1> DEFINE pdu == IF k = "null" THEN Null ELSE r
           s == IF k = "good"
                THEN [q |-> queue, lock |-> TRUE, failed |-> {},
                      asks |-> [aseq |-> r, pdu |-> r, what |-> "GEN"]]
                ELSE ril_request_send_sms_next(queue, {r}, runsOn)
<1>1. /\ kind[r] = "none" /\ kind' = [kind EXCEPT ![r] = k]
      /\ kind \in [Aseq -> {"none"} \cup Pdus] /\ queue \in Queue
      /\ sent \subseteq [aseq : Aseq, pdu : Aseq]
  BY DEF ril_request_send_sms, IInv, TypeOK, Queue
<1>2. pdu \in Aseq \cup {Null} /\ runsOn \in BOOLEAN OBVIOUS
<1>3. \A u \in Aseq : kind'[u] # "null" => kind[u] # "null" BY <1>1
<1>4. ASSUME NEW q \in Queue, AllOwn(kind, q) PROVE AllOwn(kind', q)
  <2> SUFFICES ASSUME NEW i \in Ids PROVE HasOwn(kind', q[i]) BY DEF AllOwn
  <2>1. q[i].aseq # 0 => q[i].aseq \in Aseq BY DEF Queue, Place
  <2> QED BY <1>3, <1>4, <2>1 DEF AllOwn, HasOwn
<1>5. r = 0 => pdu \in {Null, 0} OBVIOUS
<1>6. r # 0 /\ kind'[r] # "null" => pdu = r BY <1>1
<1>7. ASSUME sent' = sent PROVE OwnPdu' BY <1>1, <1>3, <1>7 DEF OwnInv, OwnPdu
<1>8. ASSUME NEW b \in BOOLEAN PROVE AllOwn(kind', ril_request_sms_add(queue, r, pdu, b, runsOn))
  <2>1. AllOwn(kind', queue) BY <1>1, <1>4 DEF OwnInv
  <2> HIDE DEF pdu
  <2> QED BY <1>1, <1>2, <1>5, <1>6, <2>1, AddOwn
<1>9. CASE /\ queue' = ril_request_sms_add(queue, r, pdu, smsc, runsOn)
                 \/ queue' = ril_request_sms_add(queue, r, pdu, FALSE, runsOn)
           /\ sent' = sent
  BY <1>7, <1>8, <1>9 DEF OwnInv
<1>10. CASE Becomes(s, r, <<>>, FALSE)
  <2>1. CASE k = "good"
    <3>1. queue' = queue /\ sent' = sent \cup {[aseq |-> r, pdu |-> r]}
      BY <1>10, <2>1 DEF Becomes
    <3>2. OwnPdu' BY <1>1, <1>3, <3>1 DEF OwnInv, OwnPdu
    <3> QED BY <1>1, <1>4, <3>1, <3>2 DEF OwnInv
  <2>2. CASE k # "good"
    <3> DEFINE t == ril_request_send_sms_next(queue, {r}, runsOn)
    <3>1. s = t BY <2>2
    <3>2. AllOwn(kind, t.q) /\ AsksOwn(t) BY <1>1, <1>2, NextOwn DEF OwnInv
    <3>3. t.q \in Queue BY <1>1, <1>2, NextSound DEF Sound
    <3>4. queue' = t.q
          /\ sent' = IF t.asks.what = "GEN"
                     THEN sent \cup {[aseq |-> t.asks.aseq, pdu |-> t.asks.pdu]} ELSE sent
      BY <1>10, <3>1 DEF Becomes
    <3>5. t.asks.what = "GEN" => t.asks.aseq \in Aseq
      BY <1>1, <1>2, NextSound DEF Sound, Nothing
    <3> HIDE DEF t
    <3>6. OwnPdu'
      <4> SUFFICES ASSUME NEW x \in sent', kind'[x.aseq] # "null" PROVE x.pdu = x.aseq
        BY DEF OwnPdu
      <4> QED BY <1>1, <1>3, <3>2, <3>4, <3>5 DEF OwnInv, OwnPdu, AsksOwn
    <3> QED BY <1>4, <3>2, <3>3, <3>4, <3>6 DEF OwnInv
  <2> QED BY <2>1, <2>2
<1> QED BY <1>9, <1>10 DEF ril_request_send_sms

(* Every step keeps each PDU with its request.                             *)
LEMMA OwnStep == IInv /\ OwnInv /\ [Next]_vars => OwnInv'
<1> SUFFICES ASSUME IInv, OwnInv, [Next]_vars PROVE OwnInv' OBVIOUS
<1> USE DEF Queue
<1>1. queue \in Queue /\ sent \subseteq [aseq : Aseq, pdu : Aseq] BY DEF IInv, TypeOK
<1>2. ASSUME NEW r \in Aseq, NEW k \in Pdus, NEW smsc \in BOOLEAN,
             NEW runsOn \in {FALSE, k = "good"}, ril_request_send_sms(r, k, smsc, runsOn)
      PROVE  OwnInv'
  BY <1>2, RequestOwn
<1>3. ASSUME NEW m \in owed, NEW runsOn \in BOOLEAN, ipc_sms_svc_center_addr(m, runsOn)
      PROVE  OwnInv'
  <2> DEFINE id == ril_request_sms_get_id(queue, m.aseq)
             s  == IF id < 0 THEN ril_request_send_sms_next(queue, {m.aseq}, runsOn)
                   ELSE ril_request_send_sms_complete(ril_request_sms_clear(queue, id),
                                                      m.aseq, queue[id], runsOn)
  <2>1. Becomes(s, m.aseq, <<>>, m.stale) /\ UNCHANGED kind
    BY <1>3 DEF ipc_sms_svc_center_addr
  <2>2. AllOwn(kind, s.q) /\ AsksOwn(s)
    <3>1. CASE id < 0 BY <1>1, <3>1, NextOwn DEF OwnInv
    <3>2. CASE ~ (id < 0)
      <4>1. id \in Ids /\ queue[id].aseq = m.aseq BY <3>2, GetId
      <4> DEFINE q == ril_request_sms_clear(queue, id)
      <4>2. q \in Queue /\ AllOwn(kind, q)
        <5>1. q = Without(queue, {id}) BY <1>1, <4>1 DEF ril_request_sms_clear, Without
        <5> QED BY <1>1, <5>1, WithoutOwn DEF OwnInv
      <4>3. queue[id] \in Place /\ HasOwn(kind, queue[id]) BY <1>1, <4>1 DEF OwnInv, AllOwn
      <4> HIDE DEF q, id
      <4>4. s = ril_request_send_sms_complete(q, m.aseq, queue[id], runsOn) BY <3>2 DEF q
      <4> HIDE DEF s
      <4> QED BY <4>1, <4>2, <4>3, <4>4, RestOf, CompleteOwn
    <3> QED BY <3>1, <3>2
  <2> HIDE DEF s
  <2> QED BY <2>1, <2>2, BecomesOwn
<1>4. ASSUME NEW m \in owed, NEW ok \in BOOLEAN, NEW runsOn \in BOOLEAN,
             ipc_sms_send_msg_complete(m, ok, runsOn)
      PROVE  OwnInv'
  <2> DEFINE s == ril_request_send_sms_next(queue, {}, runsOn)
  <2>1. AllOwn(kind, s.q) /\ AsksOwn(s) BY <1>1, NextOwn DEF OwnInv
  <2>2. UNCHANGED kind /\ (UNCHANGED <<queue, sent>>
                           \/ Becomes(s, m.aseq, <<"GENERIC_FAILURE">>, FALSE))
    BY <1>4 DEF ipc_sms_send_msg_complete
  <2> HIDE DEF s
  <2>3. CASE UNCHANGED <<queue, sent>> BY <2>2, <2>3 DEF OwnInv, OwnPdu
  <2> QED BY <2>1, <2>2, <2>3, BecomesOwn
<1>5. ASSUME NEW m \in owed, NEW e \in {"SUCCESS", "GENERIC_FAILURE"}, NEW runsOn \in BOOLEAN,
             ipc_sms_send_msg(m, e, runsOn)
      PROVE  OwnInv'
  <2> DEFINE s == ril_request_send_sms_next(queue, {}, runsOn)
  <2>1. AllOwn(kind, s.q) /\ AsksOwn(s) BY <1>1, NextOwn DEF OwnInv
  <2>2. UNCHANGED kind /\ Becomes(s, m.aseq, <<e>>, m.stale)
    BY <1>5 DEF ipc_sms_send_msg
  <2> HIDE DEF s
  <2> QED BY <2>1, <2>2, BecomesOwn
<1>6. CASE ril_request_sms_init
  <2>1. queue' = Without(queue, Ids) /\ kind' = kind /\ sent' = sent
    BY <1>6 DEF ril_request_sms_init, Without
  <2>2. AllOwn(kind, Without(queue, Ids)) BY <1>1, WithoutOwn DEF OwnInv
  <2> QED BY <2>1, <2>2 DEF OwnInv, OwnPdu
<1>7. CASE ClientFails BY <1>7 DEF ClientFails, OwnInv, OwnPdu
<1>9. ASSUME NEW m \in owed, ipc_gen_phone_res(m) PROVE OwnInv'
  BY <1>9 DEF ipc_gen_phone_res, OwnInv, OwnPdu
<1>8. CASE UNCHANGED vars BY <1>8 DEF vars, OwnInv, OwnPdu
<1> QED BY <1>2, <1>3, <1>4, <1>5, <1>6, <1>7, <1>8, <1>9 DEF Next

(* A request is sent with its own PDU and with no other's, however often   *)
(* the array is shifted, and whatever a place was used for before.         *)
THEOREM SentWithOwnPdu == Spec => []OwnPdu
<1>1. Init => OwnInv BY DEF Init, OwnInv, AllOwn, HasOwn, OwnPdu, Free
<1>2. OwnInv => OwnPdu BY DEF OwnInv
<1> QED BY <1>1, <1>2, OwnStep, IInvAlways, PTL DEF Spec

-----------------------------------------------------------------------------
(* Which requests the array holds.                                         *)

(* A request stands in the array: with a PDU, so that it waits for its     *)
(* turn, or without one.                                                   *)
Holds(q, u) == u # 0 /\ \E i \in Ids : q[i].aseq = u
Waits(q, u) == \E i \in Taken(q) : q[i].aseq = u

(* No request stands in two places.                                        *)
Distinct(q) == \A i, j \in Ids : q[i].aseq = q[j].aseq /\ q[i].aseq # 0 => i = j

(* Who waits has a place.                                                  *)
LEMMA WaitsHolds ==
  ASSUME NEW q, NEW u, Waits(q, u)
  PROVE  Holds(q, u)
BY DEF Waits, Holds, Taken

(* Storing a request takes its place from nobody who waits.                *)
LEMMA StoredHolds ==
  ASSUME NEW q \in Queue, NEW id \in Ids \ Taken(q), NEW r \in Aseq,
         NEW pdu \in Aseq \cup {Null}, NEW smsc, NEW on, NEW p,
         p = Stored(q, id, r, pdu, smsc, on)
  PROVE  /\ \A u : Waits(q, u) => Waits(p, u)
         /\ \A u : Holds(p, u) => Holds(q, u) \/ u = r
         /\ pdu # Null /\ r # 0 => Waits(p, r)
         /\ Distinct(q) /\ ~ Holds(q, r) => Distinct(p)
<1>1. /\ p[id].aseq = r /\ p[id].pdu = IF pdu = Null THEN q[id].pdu ELSE pdu
      /\ \A i \in Ids \ {id} : p[i] = q[i]
  BY DEF Stored, Queue
<1>2. \A i \in Taken(q) : i \in Taken(p) /\ p[i] = q[i] BY <1>1 DEF Taken
<1>3. \A u : Waits(q, u) => Waits(p, u) BY <1>2 DEF Waits
<1>4. \A u : Holds(p, u) => Holds(q, u) \/ u = r BY <1>1 DEF Holds
<1>5. pdu # Null /\ r # 0 => Waits(p, r) BY <1>1 DEF Waits, Taken
<1>6. ASSUME Distinct(q), ~ Holds(q, r), NEW i \in Ids, NEW j \in Ids,
             p[i].aseq = p[j].aseq, p[i].aseq # 0
      PROVE  i = j
  <2>1. CASE i # id /\ j # id BY <1>1, <1>6, <2>1 DEF Distinct
  <2>2. CASE i = id /\ j # id BY <1>1, <1>6, <2>2 DEF Holds
  <2>3. CASE i # id /\ j = id BY <1>1, <1>6, <2>3 DEF Holds
  <2> QED BY <2>1, <2>2, <2>3
<1>7. Distinct(q) /\ ~ Holds(q, r) => Distinct(p) BY <1>6 DEF Distinct
<1> QED BY <1>3, <1>4, <1>5, <1>7

(* The request in place 0 is dropped when the array is full, and no other. *)
LEMMA AddHolds ==
  ASSUME NEW q \in Queue, NEW r \in Aseq, NEW pdu \in Aseq \cup {Null}, NEW smsc, NEW on,
         NEW p, p = ril_request_sms_add(q, r, pdu, smsc, on)
  PROVE  /\ \A u : Waits(q, u) => Waits(p, u) \/ (Full(q) /\ u = q[0].aseq)
         /\ \A u : Holds(p, u) => Holds(q, u) \/ u = r
         /\ pdu # Null /\ r # 0 => Waits(p, r)
         /\ Distinct(q) /\ ~ Holds(q, r) => Distinct(p)
<1>1. PICK id \in Ids, o \in Queue :
        /\ ril_request_sms_add(q, r, pdu, smsc, on) = Stored(o, id, r, pdu, smsc, on)
        /\ id \notin Taken(o)
        /\ \/ ~ Full(q) /\ o = q
           \/ Full(q) /\ o = Shifted(q) /\ o[id] = Free
  BY AddIs
<1>2. /\ \A u : Waits(o, u) => Waits(p, u)
      /\ \A u : Holds(p, u) => Holds(o, u) \/ u = r
      /\ pdu # Null /\ r # 0 => Waits(p, r)
      /\ Distinct(o) /\ ~ Holds(o, r) => Distinct(p)
  BY <1>1, StoredHolds
<1>3. CASE o = q BY <1>2, <1>3
<1>4. CASE o = Shifted(q) /\ Full(q)
  <2>1. \A i \in Ids : i # NPlaces - 1 => i + 1 \in Ids /\ o[i] = q[i + 1]
    BY <1>4 DEF Shifted, Ids
  <2>2. \A i \in Ids : i = NPlaces - 1 => o[i].aseq = 0 BY <1>4 DEF Shifted, Free
  <2>3. \A u : Waits(q, u) => Waits(o, u) \/ u = q[0].aseq
    <3> SUFFICES ASSUME NEW i \in Taken(q), i # 0 PROVE Waits(o, q[i].aseq) BY DEF Waits
    <3>1. i \in Ids /\ i - 1 \in Ids /\ i - 1 # NPlaces - 1 /\ (i - 1) + 1 = i
      BY DEF Taken, Ids
    <3>2. o[i - 1] = q[i] BY <2>1, <3>1
    <3> QED BY <3>1, <3>2 DEF Waits, Taken
  <2>4. \A u : Holds(o, u) => Holds(q, u) BY <2>1, <2>2 DEF Holds
  <2>5. ASSUME Distinct(q), NEW i \in Ids, NEW j \in Ids, o[i].aseq = o[j].aseq, o[i].aseq # 0
        PROVE  i = j
    <3>1. i # NPlaces - 1 /\ j # NPlaces - 1 BY <2>2, <2>5
    <3>2. i + 1 = j + 1 BY <2>1, <2>5, <3>1 DEF Distinct
    <3> QED BY <3>2 DEF Ids
  <2>6. Distinct(q) => Distinct(o) BY <2>5 DEF Distinct
  <2> QED BY <1>2, <1>4, <2>3, <2>4, <2>6
<1> QED BY <1>1, <1>3, <1>4

(* Emptying some places takes them from those whose requests they held,    *)
(* and from nobody else.                                                   *)
LEMMA WithoutHolds ==
  ASSUME NEW q \in Queue, NEW S, S \subseteq Ids, NEW p, p = Without(q, S)
  PROVE  /\ p \in Queue
         /\ \A u : Holds(p, u) => Holds(q, u) /\ \E i \in Ids \ S : q[i].aseq = u
         /\ \A u : Waits(q, u) => Waits(p, u) \/ \E i \in S : q[i].aseq = u
         /\ Distinct(q) => Distinct(p)
<1>1. Free \in Place /\ Free.aseq = 0 BY DEF Free, Place
<1>2. p \in Queue BY <1>1 DEF Without, Queue
<1>3. \A i \in Ids : IF i \in S THEN p[i].aseq = 0 ELSE p[i] = q[i] BY <1>1 DEF Without
<1>4. \A u : Holds(p, u) => Holds(q, u) /\ \E i \in Ids \ S : q[i].aseq = u
  BY <1>3 DEF Holds
<1>5. \A u : Waits(q, u) => Waits(p, u) \/ \E i \in S : q[i].aseq = u
  BY <1>3 DEF Waits, Taken
<1>6. Distinct(q) => Distinct(p) BY <1>3 DEF Distinct
<1> QED BY <1>2, <1>4, <1>5, <1>6

(* ril_request_send_sms_next loses nobody: who waited has failed, or is    *)
(* asked for, or waits.  And it confuses nobody: who is left or asked for  *)
(* has not failed.                                                         *)
LEMMA NextHolds ==
  ASSUME NEW q \in Queue, NEW failed, NEW runsOn \in BOOLEAN, NEW s,
         s = ril_request_send_sms_next(q, failed, runsOn)
  PROVE  /\ failed \subseteq s.failed
         /\ \A u \in s.failed : u \in failed \/ Holds(q, u)
         /\ \A u : Waits(q, u) =>
              u \in s.failed \/ (s.asks.what = "GEN" /\ s.asks.aseq = u) \/ Waits(s.q, u)
         /\ \A u : Holds(s.q, u) => Holds(q, u)
         /\ s.asks # Nothing => Holds(q, s.asks.aseq)
         /\ Distinct(q) =>
              /\ Distinct(s.q)
              /\ \A u \in s.failed \ failed : ~ Holds(s.q, u)
              /\ s.asks # Nothing => s.asks.aseq \notin s.failed \ failed
              /\ s.asks # Nothing /\ s.asks.what = "GEN" => ~ Holds(s.q, s.asks.aseq)
<1>1. PICK gone \in SUBSET Taken(q) :
        /\ s.failed = failed \cup {q[i].aseq : i \in gone}
        /\ \/ NoneLeft(q, s, gone)
           \/ \E n \in Taken(q) \ gone : OneSent(q, s, gone, n) \/ OneStored(q, s, gone, n)
  BY NextIs
<1>2. Taken(q) \subseteq Ids /\ \A i \in Taken(q) : q[i].aseq # 0 BY DEF Taken
<1>3. \A i \in Taken(q) : Holds(q, q[i].aseq) /\ Waits(q, q[i].aseq)
  BY <1>2 DEF Holds, Waits
<1>4. failed \subseteq s.failed /\ \A u \in s.failed : u \in failed \/ Holds(q, u)
  BY <1>1, <1>3
<1>5. CASE NoneLeft(q, s, gone)
  <2>1. s.asks = Nothing /\ gone = Taken(q) /\ s.q = Without(q, gone) BY <1>5 DEF NoneLeft
  <2>2. \A u : Waits(q, u) => u \in s.failed BY <1>1, <2>1 DEF Waits
  <2>3. /\ \A u : Holds(s.q, u) => Holds(q, u) /\ \E i \in Ids \ gone : q[i].aseq = u
        /\ Distinct(q) => Distinct(s.q)
    BY <1>2, <2>1, WithoutHolds
  <2>4. ASSUME Distinct(q), NEW u \in s.failed \ failed PROVE ~ Holds(s.q, u)
    <3>1. PICK j \in gone : u = q[j].aseq BY <1>1, <2>4
    <3>2. q[j].aseq # 0 /\ j \in Ids BY <1>2
    <3> QED BY <2>3, <2>4, <3>1, <3>2 DEF Distinct
  <2> QED BY <1>4, <2>1, <2>2, <2>3, <2>4
<1>6. ASSUME NEW n \in Taken(q) \ gone, OneSent(q, s, gone, n) \/ OneStored(q, s, gone, n)
      PROVE  /\ \A u : Waits(q, u) =>
                  u \in s.failed \/ (s.asks.what = "GEN" /\ s.asks.aseq = u) \/ Waits(s.q, u)
             /\ \A u : Holds(s.q, u) => Holds(q, u)
             /\ s.asks # Nothing /\ Holds(q, s.asks.aseq)
             /\ Distinct(q) =>
                  /\ Distinct(s.q)
                  /\ \A u \in s.failed \ failed : ~ Holds(s.q, u)
                  /\ s.asks.aseq \notin s.failed \ failed
                  /\ s.asks.what = "GEN" => ~ Holds(s.q, s.asks.aseq)
  <2> DEFINE p == Without(q, gone \cup {n})
             r == q[n].aseq
             pdu == q[n].pdu
  <2>1. r # 0 /\ r \in Aseq /\ pdu # Null /\ pdu \in Aseq \cup {Null} /\ n \in Ids
    BY DEF Taken, Queue, Place
  <2>2. s.asks.aseq = r /\ s.asks # Nothing
    <3>1. CASE OneSent(q, s, gone, n) BY <2>1, <3>1 DEF OneSent, Nothing
    <3>2. CASE OneStored(q, s, gone, n)
      <4>1. s.asks = [aseq |-> r, pdu |-> Null, what |-> "SVC_CENTER_ADDR"]
        BY <3>2 DEF OneStored
      <4> QED BY <2>1, <4>1 DEF Nothing
    <3> QED BY <1>6, <3>1, <3>2
  <2>3. /\ p \in Queue
        /\ \A u : Holds(p, u) => Holds(q, u) /\ \E i \in Ids \ (gone \cup {n}) : q[i].aseq = u
        /\ \A u : Waits(q, u) => Waits(p, u) \/ \E i \in gone \cup {n} : q[i].aseq = u
        /\ Distinct(q) => Distinct(p)
    BY <1>2, WithoutHolds
  <2>4. \A u : Waits(q, u) => u \in s.failed \/ u = r \/ Waits(p, u)
    <3>1. \A i \in gone : q[i].aseq \in s.failed BY <1>1
    <3> HIDE DEF p
    <3> QED BY <2>3, <3>1
  <2>5. ASSUME Distinct(q), NEW i \in gone \cup {n} PROVE ~ Holds(p, q[i].aseq)
    <3>1. q[i].aseq # 0 /\ i \in Ids BY <1>2
    <3> HIDE DEF p
    <3> QED BY <2>3, <2>5, <3>1 DEF Distinct
  <2>6. Distinct(q) => r \notin s.failed \ failed
    <3> SUFFICES ASSUME Distinct(q), NEW i \in gone, q[i].aseq = r PROVE FALSE BY <1>1
    <3> QED BY <1>2, <2>1 DEF Distinct
  <2>7. Holds(q, r) BY <1>3
  <2>8. \A u \in s.failed \ failed : \E i \in gone : u = q[i].aseq BY <1>1
  <2>9. CASE OneSent(q, s, gone, n)
    <3>1. s.q = p BY <2>9 DEF OneSent
    <3>2. Distinct(q) => ~ Holds(p, r) BY <2>5
    <3>3. Distinct(q) => \A u \in s.failed \ failed : ~ Holds(p, u) BY <2>5, <2>8
    <3>4. s.asks.what = "GEN" BY <2>9 DEF OneSent
    <3> HIDE DEF p, r
    <3> QED BY <2>2, <2>3, <2>4, <2>6, <2>7, <3>1, <3>2, <3>3, <3>4
  <2>10. CASE OneStored(q, s, gone, n)
    <3> DEFINE no == FALSE
    <3>1. PICK id \in Ids \ Taken(p), on \in BOOLEAN : s.q = Stored(p, id, r, pdu, no, on)
      BY <2>10 DEF OneStored
    <3>2. s.asks.what # "GEN" BY <2>10 DEF OneStored
    <3>3. Distinct(q) => ~ Holds(p, r) BY <2>5
    <3>4. Distinct(q) => \A u \in s.failed \ failed : ~ Holds(p, u) BY <2>5, <2>8
    <3> HIDE DEF p, r, pdu, no
    <3>5. /\ \A u : Waits(p, u) => Waits(s.q, u)
          /\ \A u : Holds(s.q, u) => Holds(p, u) \/ u = r
          /\ pdu # Null /\ r # 0 => Waits(s.q, r)
          /\ Distinct(p) /\ ~ Holds(p, r) => Distinct(s.q)
      BY <2>1, <2>3, <3>1, StoredHolds
    <3> QED BY <2>1, <2>2, <2>3, <2>4, <2>6, <2>7, <3>2, <3>3, <3>4, <3>5
  <2> QED BY <1>6, <2>9, <2>10
<1> QED BY <1>1, <1>4, <1>5, <1>6

-----------------------------------------------------------------------------
(* Who is answered.                                                        *)

(* The modem has the message of the request u.                             *)
InHand(O, u) == \E m \in O : m.aseq = u /\ m.what # "SVC_CENTER_ADDR" /\ ~ m.stale

(* What is in the array or with the modem has come in, and the modem owes  *)
(* a stale reply only to a request that was dropped or is answered.  While *)
(* the radio stays on, what is in the array or with the modem has had no   *)
(* answer, nor what has not come yet; and once a message is with the       *)
(* modem, its request is no longer in the array.                           *)
Known ==
  /\ \A u \in Aseq : Holds(queue, u) => kind[u] # "none"
  /\ \A m \in owed : kind[m.aseq] # "none"

StaleWritten == \A m \in owed : m.stale => m.aseq \in lost \/ answers[m.aseq] # <<>>

Unanswered ==
  offs = 0 =>
    /\ Distinct(queue)
    /\ \A u \in Aseq : Holds(queue, u) \/ kind[u] = "none" => answers[u] = <<>>
    /\ \A m \in owed : answers[m.aseq] = <<>>
    /\ \A m \in owed : m.what # "SVC_CENTER_ADDR" => ~ Holds(queue, m.aseq)

(* While the lock is free nobody waits, whatever the radio and the client  *)
(* did.                                                                    *)
FreeIsIdle == ~ lock => Taken(queue) = {}

AnswerInv ==
  FreeIsIdle /\ Known /\ StaleWritten /\ Unanswered /\ NothingForgotten /\ AnsweredAtMostOnce

(* What a handler leaves behind that answered r with es: nobody who waited *)
(* is lost, and, when each has but one place, whoever fails is answered    *)
(* once and is out of the way.                                             *)
LosesNobody(s, r, es) ==
  /\ \A u : Waits(queue, u) =>
       u = r \/ u \in s.failed \/ (s.asks.what = "GEN" /\ s.asks.aseq = u) \/ Waits(s.q, u)
  /\ es # <<>> \/ r \in s.failed \/ (s.asks.what = "GEN" /\ s.asks.aseq = r)
  /\ \A u : Holds(s.q, u) => Holds(queue, u)
  /\ s.asks # Nothing => s.asks.aseq = r \/ Holds(queue, s.asks.aseq)

AnswersOnce(s, r, es) ==
  /\ Distinct(s.q) /\ ~ Holds(s.q, r)
  /\ \A u \in s.failed : \/ u = r /\ es = <<>>
                         \/ u # r /\ Holds(queue, u) /\ ~ Holds(s.q, u)
  /\ s.asks # Nothing =>
       /\ s.asks.aseq \notin s.failed /\ (s.asks.aseq = r => es = <<>>)
       /\ s.asks.what = "GEN" => ~ Holds(s.q, s.asks.aseq)

(* The answers of the request u after a handler: they only grow.           *)
Hears(s, r, es, stale, u) ==
  /\ answers'[u] = <<>> => answers[u] = <<>>
  /\ u \in s.failed /\ ~ (stale /\ u = r) => answers'[u] # <<>>
  /\ u = r /\ ~ stale /\ es # <<>> => answers'[u] # <<>>
  /\ u # r /\ u \notin s.failed => answers'[u] = answers[u]
  /\ u # r /\ answers[u] = <<>> => Len(answers'[u]) <= 1
  /\ u = r /\ answers[u] = <<>> /\ Len(es) <= 1 /\ (r \in s.failed => es = <<>>)
       => Len(answers'[u]) <= 1
  /\ u = r /\ answers[u] = <<>> /\ es = <<>> /\ u \notin s.failed => answers'[u] = <<>>

(* Which answers each request has heard after a handler.                   *)
LEMMA AnswersAfter ==
  ASSUME NEW s, NEW r \in Aseq, NEW es \in Seq(Errno), NEW stale,
         Becomes(s, r, es, stale), answers \in [Aseq -> Seq(Errno)]
  PROVE  \A u \in Aseq : Hears(s, r, es, stale, u)
<1> SUFFICES ASSUME NEW u \in Aseq PROVE Hears(s, r, es, stale, u) OBVIOUS
<1> DEFINE first == IF u = r /\ ~ (stale /\ u = r) THEN answers[u] \o es ELSE answers[u]
           last == IF u \in s.failed /\ ~ (stale /\ u = r) THEN <<"GENERIC_FAILURE">> ELSE <<>>
           one == <<"GENERIC_FAILURE">>
           n == Len(first)
           k == Len(last)
           before == Len(answers[u])
           after == Len(answers'[u])
<1>1. answers'[u] = first \o last BY DEF Becomes
<1>2. one \in Seq(Errno) /\ <<>> \in Seq(Errno) /\ Len(one) = 1 BY DEF Errno
<1>3. \A a, b \in Seq(Errno) : /\ a \o b \in Seq(Errno)
                               /\ Len(a \o b) = Len(a) + Len(b)
                               /\ Len(a) \in Nat /\ (Len(a) = 0 <=> a = <<>>)
                               /\ a \o <<>> = a /\ <<>> \o a = a
  BY ConcatProperties, ConcatEmptySeq, LenProperties, EmptySeq
<1>4. first \in Seq(Errno) /\ last \in Seq(Errno) /\ answers[u] \in Seq(Errno)
  BY <1>2, <1>3
<1>5. u # r => first = answers[u] OBVIOUS
<1>6. u = r /\ ~ stale => first = answers[u] \o es OBVIOUS
<1>7. stale => first = answers[u] OBVIOUS
<1>8. IF u \in s.failed /\ ~ (stale /\ u = r) THEN last = one ELSE last = <<>> OBVIOUS
<1> HIDE DEF first, last, one
<1>9. /\ answers'[u] \in Seq(Errno) /\ after = n + k
      /\ n \in Nat /\ k \in Nat /\ before \in Nat /\ Len(es) \in Nat
  BY <1>1, <1>3, <1>4
<1>10. /\ answers'[u] = <<>> <=> after = 0
       /\ answers[u] = <<>> <=> before = 0
       /\ es = <<>> <=> Len(es) = 0
  BY <1>3, <1>4, <1>9
<1>11. /\ IF u \in s.failed /\ ~ (stale /\ u = r) THEN k = 1 ELSE k = 0
       /\ n = before \/ n = before + Len(es)
       /\ u # r => n = before
       /\ u = r /\ ~ stale => n = before + Len(es)
  BY <1>2, <1>3, <1>4, <1>5, <1>6, <1>7, <1>8
<1>12. u # r /\ u \notin s.failed => answers'[u] = answers[u] BY <1>1, <1>3, <1>4, <1>5, <1>8
<1>13. u = r /\ answers[u] = <<>> /\ es = <<>> /\ u \notin s.failed => answers'[u] = <<>>
  <2> HIDE DEF n, k, before, after
  <2> QED BY <1>9, <1>10, <1>11
<1>14. answers'[u] = <<>> => answers[u] = <<>>
  <2> HIDE DEF n, k, before, after
  <2> QED BY <1>9, <1>10, <1>11
<1>15. u \in s.failed /\ ~ (stale /\ u = r) => answers'[u] # <<>>
  <2> HIDE DEF n, k, before, after
  <2> QED BY <1>9, <1>10, <1>11
<1>16. u = r /\ ~ stale /\ es # <<>> => answers'[u] # <<>>
  <2> HIDE DEF n, k, before, after
  <2> QED BY <1>9, <1>10, <1>11
<1>17. u # r /\ answers[u] = <<>> => after <= 1
  <2> HIDE DEF n, k, before, after
  <2> QED BY <1>9, <1>10, <1>11
<1>18. u = r /\ answers[u] = <<>> /\ Len(es) <= 1 /\ (r \in s.failed => es = <<>>) => after <= 1
  <2> HIDE DEF n, k, before, after
  <2> QED BY <1>9, <1>10, <1>11
<1> QED BY <1>12, <1>13, <1>14, <1>15, <1>16, <1>17, <1>18 DEF Hears

(* A handler that answers r keeps the invariant when it loses nobody, and  *)
(* answers each once.                                                      *)
LEMMA BecomesAnswers ==
  ASSUME IInv, AnswerInv, NEW s, Sound(s), NEW r \in Aseq, NEW es \in Seq(Errno),
         NEW stale \in BOOLEAN, NEW rest \in SUBSET owed, \A m \in owed \ rest : m.aseq = r,
         Becomes(s, r, es, stale), owed' = Owing(s, rest), lost' = lost, offs' = offs,
         \A u \in Aseq \ {r} : kind'[u] = kind[u], kind'[r] # "none",
         stale => r \in lost \/ answers[r] # <<>>,
         LosesNobody(s, r, es),
         offs = 0 => /\ ~ stale /\ rest = {} /\ Len(es) <= 1 /\ answers[r] = <<>>
                     /\ AnswersOnce(s, r, es)
  PROVE  AnswerInv'
<1> DEFINE new == [aseq |-> s.asks.aseq, what |-> s.asks.what, stale |-> FALSE]
<1>1. queue' = s.q BY DEF Becomes
<1>2. /\ owed' = IF s.asks = Nothing THEN rest ELSE rest \cup {new}
      /\ s.asks # Nothing => s.asks.aseq \in Aseq /\ s.asks.what \in {"GEN", "SVC_CENTER_ADDR"}
  BY DEF Owing, Sound
<1>3. /\ \A m \in owed : m.aseq \in Aseq /\ m.stale \in BOOLEAN
      /\ \A u \in Aseq : answers[u] \in Seq(Errno)
      /\ \A i \in Ids : queue[i].aseq # 0 => queue[i].aseq \in Aseq
  BY DEF IInv, TypeOK, Owed, Place, Errno
<1>4. \A u \in Aseq : kind'[u] = "none" => kind[u] = "none" /\ u # r OBVIOUS
<1>0. \A u \in Aseq : Hears(s, r, es, stale, u)
  <2>1. answers \in [Aseq -> Seq(Errno)] BY DEF IInv, TypeOK, Errno
  <2> QED BY <2>1, AnswersAfter, Zenon
<1>5. \A u \in Aseq : answers'[u] = <<>> => answers[u] = <<>> BY <1>0 DEF Hears
<1>6. \A u : Holds(queue, u) => u \in Aseq BY <1>3 DEF Holds
<1>7. Known'
  <2>1. \A u \in Aseq : Holds(queue', u) => kind'[u] # "none"
    BY <1>1, <1>4 DEF AnswerInv, Known, LosesNobody
  <2>2. ASSUME NEW m \in owed' PROVE kind'[m.aseq] # "none"
    <3>1. CASE m \in rest BY <3>1, <1>3, <1>4 DEF AnswerInv, Known
    <3>2. CASE s.asks # Nothing /\ m.aseq = s.asks.aseq
      BY <3>2, <1>2, <1>4 DEF AnswerInv, Known, LosesNobody
    <3> QED BY <1>2, <3>1, <3>2
  <2> QED BY <2>1, <2>2 DEF Known
<1>8. StaleWritten'
  <2> SUFFICES ASSUME NEW m \in owed', m.stale
               PROVE  m.aseq \in lost' \/ answers'[m.aseq] # <<>>
    BY DEF StaleWritten
  <2>1. m \in rest BY <1>2
  <2> QED BY <2>1, <1>3, <1>5 DEF AnswerInv, StaleWritten
<1>9. NothingForgotten'
  <2> SUFFICES ASSUME NEW u \in Aseq, u \notin lost, kind'[u] # "none", answers'[u] = <<>>,
                      kind'[u] # "null", u # 0
               PROVE  Waits(queue', u) \/ InHand(owed', u)
    BY DEF NothingForgotten, Open, Waits, InHand
  <2>1. answers[u] = <<>> BY <1>5
  <2>2. s.asks.what = "GEN" /\ s.asks.aseq = u => InHand(owed', u)
    <3> SUFFICES ASSUME s.asks.what = "GEN", s.asks.aseq = u
                 PROVE  InHand(owed', u)
      OBVIOUS
    <3>1. new \in owed' BY <1>2 DEF Nothing
    <3>2. new.aseq = u /\ new.what = "GEN" /\ ~ new.stale OBVIOUS
    <3> HIDE DEF new
    <3> QED BY <3>1, <3>2 DEF InHand
  <2>3. CASE u = r
    <3>1. ~ stale BY <2>1, <2>3
    <3>2. u \notin s.failed /\ es = <<>> BY <2>3, <3>1, <1>0 DEF Hears
    <3>3. s.asks.what = "GEN" /\ s.asks.aseq = r BY <2>3, <3>2 DEF LosesNobody
    <3> QED BY <2>2, <2>3, <3>3
  <2>4. CASE u # r
    <3>1. u \notin s.failed BY <2>4, <1>0 DEF Hears
    <3>2. kind[u] = kind'[u] BY <2>4
    <3>3. Waits(queue, u) \/ InHand(owed, u)
      BY <2>1, <3>2 DEF AnswerInv, NothingForgotten, Open, Waits, InHand
    <3>4. CASE Waits(queue, u) BY <2>2, <2>4, <3>1, <3>4, <1>1 DEF LosesNobody
    <3>5. CASE InHand(owed, u)
      <4>1. PICK m \in owed : m.aseq = u /\ m.what # "SVC_CENTER_ADDR" /\ ~ m.stale
        BY <3>5 DEF InHand
      <4>2. m \in owed' BY <2>4, <4>1, <1>2
      <4> QED BY <4>1, <4>2 DEF InHand
    <3> QED BY <3>3, <3>4, <3>5
  <2> QED BY <2>3, <2>4
<1>10. ASSUME offs = 0 PROVE Unanswered' /\ AnsweredAtMostOnce'
  <2>1. /\ ~ stale /\ rest = {} /\ Len(es) <= 1 /\ answers[r] = <<>>
        /\ AnswersOnce(s, r, es)
    BY <1>10
  <2>2. \A u \in Aseq : Holds(queue, u) \/ kind[u] = "none" => answers[u] = <<>>
    BY <1>10 DEF AnswerInv, Unanswered
  <2>3. \A u \in Aseq : u # r /\ u \notin s.failed => answers'[u] = answers[u]
    BY <1>0 DEF Hears
  <2>4. ASSUME NEW u \in Aseq, Holds(queue', u) \/ kind'[u] = "none" PROVE answers'[u] = <<>>
    <3>1. u # r BY <2>1, <2>4, <1>1, <1>4 DEF AnswersOnce
    <3>2. answers[u] = <<>> BY <2>2, <2>4, <3>1, <1>1 DEF LosesNobody
    <3>3. u \notin s.failed
      <4>1. CASE Holds(queue', u) BY <2>1, <3>1, <4>1, <1>1 DEF AnswersOnce
      <4>2. CASE kind'[u] = "none"
        <5>1. kind[u] = "none" BY <4>2, <1>4
        <5>2. ~ Holds(queue, u) BY <5>1 DEF AnswerInv, Known
        <5> QED BY <2>1, <3>1, <5>2 DEF AnswersOnce
      <4> QED BY <2>4, <4>1, <4>2
    <3> QED BY <2>3, <3>1, <3>2, <3>3
  <2>5. ASSUME NEW m \in owed'
        PROVE  answers'[m.aseq] = <<>> /\ (m.what # "SVC_CENTER_ADDR" => ~ Holds(queue', m.aseq))
    <3>1. s.asks # Nothing /\ m = new BY <2>1, <1>2
    <3>2. m.aseq = s.asks.aseq /\ m.what = s.asks.what /\ m.aseq \in Aseq BY <3>1, <1>2
    <3> HIDE DEF new
    <3>3. m.what # "SVC_CENTER_ADDR" => ~ Holds(queue', m.aseq)
      BY <2>1, <3>1, <3>2, <1>1, <1>2 DEF AnswersOnce
    <3>4. m.aseq \notin s.failed BY <2>1, <3>1, <3>2 DEF AnswersOnce
    <3>5. CASE m.aseq = r
      <4>1. es = <<>> BY <2>1, <3>1, <3>2, <3>5 DEF AnswersOnce
      <4>2. answers'[m.aseq] = <<>> BY <2>1, <3>2, <3>4, <3>5, <4>1, <1>0 DEF Hears
      <4> QED BY <3>3, <4>2
    <3>6. CASE m.aseq # r
      <4>1. answers[m.aseq] = <<>> BY <2>2, <3>1, <3>2, <3>6 DEF LosesNobody
      <4>2. answers'[m.aseq] = <<>> BY <2>3, <3>2, <3>4, <3>6, <4>1
      <4> QED BY <3>3, <4>2
    <3> QED BY <3>5, <3>6
  <2>6. ASSUME NEW u \in Aseq PROVE Len(answers'[u]) <= 1
    <3>1. CASE u = r
      <4>1. r \in s.failed => es = <<>> BY <2>1 DEF AnswersOnce
      <4> QED BY <2>1, <3>1, <4>1, <1>0 DEF Hears
    <3>2. CASE u # r /\ u \in s.failed
      <4>1. answers[u] = <<>> BY <2>1, <2>2, <3>2 DEF AnswersOnce
      <4> QED BY <3>2, <4>1, <1>0 DEF Hears
    <3>3. CASE u # r /\ u \notin s.failed
      BY <2>3, <3>3, <1>10 DEF AnswerInv, AnsweredAtMostOnce
    <3> QED BY <3>1, <3>2, <3>3
  <2>7. Distinct(queue') BY <2>1, <1>1 DEF AnswersOnce
  <2> QED BY <2>4, <2>5, <2>6, <2>7 DEF Unanswered, AnsweredAtMostOnce
<1>11. offs # 0 => Unanswered' /\ AnsweredAtMostOnce' BY DEF Unanswered, AnsweredAtMostOnce
<1>12. FreeIsIdle'
  <2>1. lock' = s.lock BY DEF Becomes
  <2>2. s.lock \/ Taken(s.q) = {} BY DEF Sound
  <2> QED BY <1>1, <2>1, <2>2 DEF FreeIsIdle
<1> QED BY <1>7, <1>8, <1>9, <1>10, <1>11, <1>12 DEF AnswerInv

(* The next one's turn comes after r was answered with es, or in its place *)
(* when r fails; q is the array, from which r may have been taken.         *)
LEMMA NextAnswers ==
  ASSUME NEW q \in Queue, NEW r, NEW es, NEW failed,
         \/ failed = {r} /\ es = <<>>
         \/ failed = {} /\ es # <<>>,
         NEW runsOn \in BOOLEAN, NEW s, s = ril_request_send_sms_next(q, failed, runsOn),
         \A u : Waits(queue, u) => u = r \/ Waits(q, u),
         \A u : Holds(q, u) => Holds(queue, u)
  PROVE  LosesNobody(s, r, es) /\ (Distinct(q) /\ ~ Holds(q, r) => AnswersOnce(s, r, es))
<1>1. /\ failed \subseteq s.failed
      /\ \A u \in s.failed : u \in failed \/ Holds(q, u)
      /\ \A u : Waits(q, u) =>
           u \in s.failed \/ (s.asks.what = "GEN" /\ s.asks.aseq = u) \/ Waits(s.q, u)
      /\ \A u : Holds(s.q, u) => Holds(q, u)
      /\ s.asks # Nothing => Holds(q, s.asks.aseq)
      /\ Distinct(q) =>
           /\ Distinct(s.q)
           /\ \A u \in s.failed \ failed : ~ Holds(s.q, u)
           /\ s.asks # Nothing => s.asks.aseq \notin s.failed \ failed
           /\ s.asks # Nothing /\ s.asks.what = "GEN" => ~ Holds(s.q, s.asks.aseq)
  BY NextHolds
<1>2. LosesNobody(s, r, es) BY <1>1 DEF LosesNobody
<1>3. ASSUME Distinct(q), ~ Holds(q, r) PROVE AnswersOnce(s, r, es)
  <2>1. Distinct(s.q) /\ ~ Holds(s.q, r) BY <1>1, <1>3
  <2>2. \A u \in s.failed : \/ u = r /\ es = <<>>
                            \/ u # r /\ Holds(queue, u) /\ ~ Holds(s.q, u)
    <3> SUFFICES ASSUME NEW u \in s.failed, ~ (u = r /\ es = <<>>)
                 PROVE  u # r /\ Holds(queue, u) /\ ~ Holds(s.q, u)
      OBVIOUS
    <3>1. u \notin failed OBVIOUS
    <3>2. Holds(q, u) /\ ~ Holds(s.q, u) BY <1>1, <1>3, <3>1
    <3> QED BY <1>3, <3>2
  <2>3. s.asks # Nothing => s.asks.aseq # r BY <1>1, <1>3
  <2>4. s.asks # Nothing => s.asks.aseq \notin s.failed BY <1>1, <1>3, <2>3
  <2> QED BY <1>1, <1>3, <2>1, <2>2, <2>3, <2>4 DEF AnswersOnce
<1> QED BY <1>2, <1>3

(* Completing a request loses nobody who waited, and answers those once    *)
(* that fail on the way.                                                   *)
LEMMA CompleteAnswers ==
  ASSUME NEW q \in Queue, NEW r, NEW x, NEW runsOn \in BOOLEAN, NEW s,
         s = ril_request_send_sms_complete(q, r, x, runsOn),
         \A u : Waits(queue, u) => u = r \/ Waits(q, u),
         \A u : Holds(q, u) => Holds(queue, u)
  PROVE  LosesNobody(s, r, <<>>) /\ (Distinct(q) /\ ~ Holds(q, r) => AnswersOnce(s, r, <<>>))
<1>1. CASE Sendable(x)
  <2>1. /\ s.q = q /\ s.failed = {} /\ s.asks.aseq = r /\ s.asks.what = "GEN"
        /\ s.asks # Nothing
    BY <1>1 DEF ril_request_send_sms_complete, Nothing
  <2> QED BY <2>1 DEF LosesNobody, AnswersOnce
<1>2. CASE ~ Sendable(x)
  <2>1. s = ril_request_send_sms_next(q, {r}, runsOn)
    BY <1>2 DEF ril_request_send_sms_complete
  <2> QED BY <2>1, NextAnswers
<1> QED BY <1>1, <1>2

(* A request that has just come is neither in the array nor with the modem *)
(* and has no answer.                                                      *)
LEMMA RequestAnswers ==
  ASSUME IInv, IInv', AnswerInv, NEW r \in Aseq, NEW k \in Pdus, NEW smsc \in BOOLEAN,
         NEW runsOn \in {FALSE, k = "good"}, ril_request_send_sms(r, k, smsc, runsOn)
  PROVE  AnswerInv'
<1> DEFINE pdu == IF k = "null" THEN Null ELSE r
           s == IF k = "good"
                THEN [q |-> queue, lock |-> TRUE, failed |-> {},
                      asks |-> [aseq |-> r, pdu |-> r, what |-> "GEN"]]
                ELSE ril_request_send_sms_next(queue, {r}, runsOn)
           new == [aseq |-> r, what |-> "SVC_CENTER_ADDR", stale |-> FALSE]
<1>1. /\ kind[r] = "none" /\ kind' = [kind EXCEPT ![r] = k] /\ offs' = offs
      /\ kind \in [Aseq -> {"none"} \cup Pdus] /\ queue \in Queue
      /\ lost' = (IF lock /\ Full(queue) /\ queue[0].aseq # 0
                  THEN lost \cup {queue[0].aseq} ELSE lost)
  BY DEF ril_request_send_sms, IInv, TypeOK, Queue
<1>2. pdu \in Aseq \cup {Null} /\ runsOn \in BOOLEAN OBVIOUS
<1>3. k # "none" /\ kind'[r] = k /\ \A u \in Aseq \ {r} : kind'[u] = kind[u] BY <1>1
<1>4. ~ Holds(queue, r) /\ \A m \in owed : m.aseq # r
  BY <1>1 DEF AnswerInv, Known
<1>5. offs = 0 => answers[r] = <<>> /\ Distinct(queue)
  BY <1>1 DEF AnswerInv, Unanswered
<1>6. \A u : Waits(queue, u) => u # r BY <1>4, WaitsHolds
<1>7. ASSUME NEW b \in BOOLEAN, queue' = ril_request_sms_add(queue, r, pdu, b, runsOn),
             UNCHANGED <<answers, sent>>,
             lock' = TRUE,
             \/ owed' = owed
             \/ owed' = owed \cup {new}
      PROVE  AnswerInv'
  <2>1. /\ \A u : Waits(queue, u) => Waits(queue', u) \/ (Full(queue) /\ u = queue[0].aseq)
        /\ \A u : Holds(queue', u) => Holds(queue, u) \/ u = r
        /\ pdu # Null /\ r # 0 => Waits(queue', r)
        /\ Distinct(queue) /\ ~ Holds(queue, r) => Distinct(queue')
    <3>1. queue \in Queue BY <1>1
    <3>2. pdu \in Aseq \cup {Null} BY <1>2
    <3>3. queue' = ril_request_sms_add(queue, r, pdu, b, runsOn) BY <1>7
    <3> HIDE DEF pdu
    <3> QED BY ONLY <3>1, <3>2, <3>3, r \in Aseq, AddHolds
  <2>2. new.aseq = r /\ new.what = "SVC_CENTER_ADDR" /\ ~ new.stale OBVIOUS
  <2>3. \A m \in owed' : m \in owed \/ m = new BY <1>7
  <2>4. owed \subseteq owed' /\ lost \subseteq lost' BY <1>1, <1>7
  <2> HIDE DEF new
  <2>5. \A m \in owed : m.aseq \in Aseq BY DEF IInv, TypeOK, Owed
  <2>6. Known' BY <1>3, <1>4, <2>1, <2>2, <2>3, <2>5 DEF AnswerInv, Known
  <2>7. StaleWritten' BY <1>7, <2>2, <2>3, <2>4 DEF AnswerInv, StaleWritten
  <2>8. Unanswered'
    <3> SUFFICES ASSUME offs = 0 PROVE Unanswered' BY <1>1 DEF Unanswered
    <3>1. Distinct(queue') BY <1>4, <1>5, <2>1
    <3>2. \A u \in Aseq : Holds(queue', u) \/ kind'[u] = "none" => answers'[u] = <<>>
      BY <1>3, <1>5, <1>7, <2>1 DEF AnswerInv, Unanswered
    <3>3. \A m \in owed' : answers'[m.aseq] = <<>>
      BY <1>5, <1>7, <2>2, <2>3 DEF AnswerInv, Unanswered
    <3>4. \A m \in owed' : m.what # "SVC_CENTER_ADDR" => ~ Holds(queue', m.aseq)
      BY <1>4, <2>1, <2>2, <2>3 DEF AnswerInv, Unanswered
    <3> QED BY <3>1, <3>2, <3>3, <3>4 DEF Unanswered
  <2>9. NothingForgotten'
    <3> SUFFICES ASSUME NEW u \in Aseq, u \notin lost', kind'[u] # "none", answers'[u] = <<>>,
                        kind'[u] # "null", u # 0
                 PROVE  Waits(queue', u) \/ InHand(owed', u)
      BY DEF NothingForgotten, Open, Waits, InHand
    <3>1. CASE u = r
      <4>1. pdu # Null BY <1>3, <3>1 DEF Null
      <4> QED BY <2>1, <3>1, <4>1
    <3>2. CASE u # r
      <4>1. Waits(queue, u) \/ InHand(owed, u)
        BY <1>3, <1>7, <2>4, <3>2 DEF AnswerInv, NothingForgotten, Open, Waits, InHand
      <4>2. CASE Waits(queue, u) /\ ~ (Full(queue) /\ u = queue[0].aseq) BY <2>1, <4>2
      <4>3. CASE Full(queue) /\ u = queue[0].aseq
        <5>1. Taken(queue) # {} BY <4>3 DEF Full
        <5>2. lock BY <5>1 DEF AnswerInv, FreeIsIdle
        <5>3. u \in lost' BY <1>1, <4>3, <5>2
        <5> QED BY <5>3
      <4>4. CASE InHand(owed, u) BY <2>4, <4>4 DEF InHand
      <4> QED BY <4>1, <4>2, <4>3, <4>4
    <3> QED BY <3>1, <3>2
  <2>10. AnsweredAtMostOnce' BY <1>1, <1>7 DEF AnswerInv, AnsweredAtMostOnce
  <2>11. FreeIsIdle' BY <1>7 DEF FreeIsIdle
  <2> QED BY <2>6, <2>7, <2>8, <2>9, <2>10, <2>11 DEF AnswerInv
<1>8. CASE ~ lock /\ Becomes(s, r, <<>>, FALSE) /\ owed' = Owing(s, owed)
  <2>1. Sound(s) /\ LosesNobody(s, r, <<>>) /\ (offs = 0 => AnswersOnce(s, r, <<>>))
    <3>1. CASE k = "good"
      <4>1. /\ s.q = queue /\ s.failed = {} /\ s.asks.aseq = r /\ s.asks.what = "GEN"
            /\ s.asks # Nothing /\ s.asks.pdu = r /\ s.lock = TRUE
        BY <3>1 DEF Nothing
      <4>2. Sound(s) BY <1>1, <4>1 DEF Sound
      <4> HIDE DEF s
      <4> QED BY <1>4, <1>5, <4>1, <4>2 DEF LosesNobody, AnswersOnce
    <3>2. CASE k # "good"
      <4> DEFINE failed == {r}
      <4>1. s = ril_request_send_sms_next(queue, failed, runsOn) BY <3>2
      <4>2. Sound(s) BY <1>1, <1>2, <4>1, NextSound
      <4> HIDE DEF s
      <4>3. LosesNobody(s, r, <<>>)
            /\ (Distinct(queue) /\ ~ Holds(queue, r) => AnswersOnce(s, r, <<>>))
        BY <1>1, <1>2, <4>1, NextAnswers
      <4> QED BY <1>4, <1>5, <4>2, <4>3
    <3> QED BY <3>1, <3>2
  <2>2. <<>> \in Seq(Errno) /\ Len(<<>>) <= 1 OBVIOUS
  <2>3. lost' = lost BY <1>1, <1>8
  <2>4. offs = 0 => owed = {} BY <1>8 DEF IInv, Alone
  <2> DEFINE es == <<>>
             no == FALSE
  <2>5. Becomes(s, r, es, no) /\ owed' = Owing(s, owed) BY <1>8
  <2>6. kind'[r] # "none" BY <1>3
  <2>7. es \in Seq(Errno) /\ no \in BOOLEAN /\ ~ no OBVIOUS
  <2>8. LosesNobody(s, r, es) /\ (offs = 0 => AnswersOnce(s, r, es) /\ Len(es) <= 1)
    BY <2>1, <2>2
  <2> HIDE DEF s, es, no
  <2> QED BY <1>1, <1>3, <1>5, <2>1, <2>3, <2>4, <2>5, <2>6, <2>7, <2>8, BecomesAnswers
<1> QED BY <1>7, <1>8 DEF ril_request_send_sms

(* The address has come in for a request, which is in the array or was     *)
(* dropped.                                                                *)
LEMMA AddressAnswers ==
  ASSUME IInv, AnswerInv, NEW m \in owed, NEW runsOn \in BOOLEAN,
         ipc_sms_svc_center_addr(m, runsOn)
  PROVE  AnswerInv'
<1> DEFINE r == m.aseq
           id == ril_request_sms_get_id(queue, r)
           q == ril_request_sms_clear(queue, id)
           s  == IF id < 0 THEN ril_request_send_sms_next(queue, {r}, runsOn)
                 ELSE ril_request_send_sms_complete(q, r, queue[id], runsOn)
           es == <<>>
<1>1. queue \in Queue BY DEF IInv, TypeOK, Queue
<1>2. /\ Becomes(s, r, es, m.stale) /\ owed' = Owing(s, owed \ {m})
      /\ UNCHANGED <<kind, lost, ignored, offs, failures>>
  BY DEF ipc_sms_svc_center_addr
<1>3. r \in Aseq /\ m.stale \in BOOLEAN /\ (offs = 0 => owed \ {m} = {} /\ ~ m.stale)
  BY RestOf DEF IInv, Alone
<1>4. /\ kind[r] # "none" /\ (m.stale => r \in lost \/ answers[r] # <<>>)
      /\ offs = 0 => answers[r] = <<>> /\ Distinct(queue)
  BY DEF AnswerInv, Known, StaleWritten, Unanswered
<1>5. Sound(s) /\ LosesNobody(s, r, es) /\ (offs = 0 => AnswersOnce(s, r, es))
  <2>1. CASE id < 0
    <3>1. \A i \in Ids : queue[i].aseq # r BY <2>1, GetId DEF Ids
    <3>2. ~ Holds(queue, r) BY <3>1 DEF Holds
    <3>3. s = ril_request_send_sms_next(queue, {r}, runsOn) BY <2>1
    <3>4. Sound(s) BY <1>1, <3>3, NextSound
    <3> HIDE DEF s
    <3>5. LosesNobody(s, r, es) /\ (Distinct(queue) /\ ~ Holds(queue, r) => AnswersOnce(s, r, es))
      BY <1>1, <3>3, NextAnswers
    <3> QED BY <1>4, <3>2, <3>4, <3>5
  <2>2. CASE ~ (id < 0)
    <3>1. id \in Ids /\ queue[id].aseq = r BY <2>2, GetId
    <3>2. q = Without(queue, {id}) BY <1>1, <3>1 DEF ril_request_sms_clear, Without, Queue
    <3>3. queue[id] \in Place BY <1>1, <3>1 DEF Queue
    <3>4. s = ril_request_send_sms_complete(q, r, queue[id], runsOn) BY <2>2
    <3> HIDE DEF s, q, id
    <3>5. /\ q \in Queue
          /\ \A u : Holds(q, u) => Holds(queue, u) /\ \E i \in Ids \ {id} : queue[i].aseq = u
          /\ \A u : Waits(queue, u) => Waits(q, u) \/ \E i \in {id} : queue[i].aseq = u
          /\ Distinct(queue) => Distinct(q)
      BY <1>1, <3>1, <3>2, WithoutHolds
    <3>6. Sound(s) BY <1>3, <3>3, <3>4, <3>5, CompleteSound
    <3>7. \A u : Waits(queue, u) => u = r \/ Waits(q, u) BY <3>1, <3>5
    <3>8. LosesNobody(s, r, <<>>)
          /\ (Distinct(q) /\ ~ Holds(q, r) => AnswersOnce(s, r, <<>>))
      BY <3>4, <3>5, <3>7, CompleteAnswers
    <3>9. Distinct(queue) => ~ Holds(q, r) BY <3>1, <3>5 DEF Distinct, Holds
    <3> QED BY <1>4, <3>5, <3>6, <3>8, <3>9
  <2> QED BY <2>1, <2>2
<1>6. es \in Seq(Errno) /\ Len(es) <= 1 OBVIOUS
<1>7. \A x \in owed \ (owed \ {m}) : x.aseq = r OBVIOUS
<1> DEFINE rest == owed \ {m}
<1>8. rest \in SUBSET owed OBVIOUS
<1> HIDE DEF s, es
<1> QED BY <1>2, <1>3, <1>4, <1>5, <1>6, <1>7, <1>8, BecomesAnswers

(* The next one's turn comes when a message is through: its request is out *)
(* of the array by then.                                                   *)
LEMMA ThroughAnswers ==
  ASSUME IInv, AnswerInv, NEW m \in owed, m.what # "SVC_CENTER_ADDR", NEW e \in Errno,
         NEW runsOn \in BOOLEAN, NEW s, s = ril_request_send_sms_next(queue, {}, runsOn),
         NEW stale \in BOOLEAN, stale => m.stale, m.stale => stale,
         Becomes(s, m.aseq, <<e>>, stale), owed' = Owing(s, owed \ {m}),
         UNCHANGED <<kind, lost, offs>>
  PROVE  AnswerInv'
<1> DEFINE r == m.aseq
           es == <<e>>
<1>1. queue \in Queue BY DEF IInv, TypeOK, Queue
<1>2. r \in Aseq /\ m.stale \in BOOLEAN /\ (offs = 0 => owed \ {m} = {} /\ ~ m.stale)
  BY RestOf DEF IInv, Alone
<1>3. /\ kind[r] # "none" /\ (m.stale => r \in lost \/ answers[r] # <<>>)
      /\ offs = 0 => answers[r] = <<>> /\ Distinct(queue) /\ ~ Holds(queue, r)
  BY DEF AnswerInv, Known, StaleWritten, Unanswered
<1>4. es \in Seq(Errno) /\ Len(es) = 1 /\ es # <<>> OBVIOUS
<1>5. Sound(s) BY <1>1, NextSound
<1>6. LosesNobody(s, r, es) /\ (Distinct(queue) /\ ~ Holds(queue, r) => AnswersOnce(s, r, es))
  <2> DEFINE failed == {}
  <2>1. s = ril_request_send_sms_next(queue, failed, runsOn) /\ failed = {} OBVIOUS
  <2> HIDE DEF es, failed
  <2> QED BY <1>1, <1>4, <2>1, NextAnswers
<1> DEFINE rest == owed \ {m}
<1>7. rest \in SUBSET owed /\ \A x \in owed \ rest : x.aseq = r OBVIOUS
<1>8. Becomes(s, r, es, stale) /\ owed' = Owing(s, rest) OBVIOUS
<1>9. stale => r \in lost \/ answers[r] # <<>> BY <1>3
<1>10. offs = 0 => /\ ~ stale /\ rest = {} /\ Len(es) <= 1 /\ answers[r] = <<>>
                   /\ AnswersOnce(s, r, es)
  BY <1>2, <1>3, <1>4, <1>6
<1> HIDE DEF es, rest, r
<1> QED
  <2>1. \A u \in Aseq \ {r} : kind'[u] = kind[u] OBVIOUS
  <2>2. kind'[r] # "none" BY <1>3
  <2> QED BY <1>2, <1>4, <1>5, <1>6, <1>7, <1>8, <1>9, <1>10, <2>1, <2>2, BecomesAnswers

(* The result of a message: its acknowledgement is still to come, unless   *)
(* it failed.                                                              *)
LEMMA ResultAnswers ==
  ASSUME IInv, AnswerInv, NEW m \in owed, NEW ok \in BOOLEAN, NEW runsOn \in BOOLEAN,
         ipc_sms_send_msg_complete(m, ok, runsOn)
  PROVE  AnswerInv'
<1> DEFINE s == ril_request_send_sms_next(queue, {}, runsOn)
           new == [m EXCEPT !.what = "SEND_MSG"]
<1>1. m.what = "GEN" /\ UNCHANGED <<kind, lost, ignored, offs, failures>>
  BY DEF ipc_sms_send_msg_complete
<1>2. m \in Owed BY DEF IInv, TypeOK
<1>3. CASE owed' = (owed \ {m}) \cup {new} /\ UNCHANGED <<queue, lock, answers, sent>>
  <2>1. new.aseq = m.aseq /\ new.stale = m.stale /\ new.what = "SEND_MSG" BY <1>2 DEF Owed
  <2>2. \A x \in owed' : \E y \in owed : /\ x.aseq = y.aseq /\ x.stale = y.stale
                                         /\ x.what = y.what \/ y = m
    BY <1>3, <2>1
  <2>3. \A y \in owed : y.what # "SVC_CENTER_ADDR" =>
          \E x \in owed' : x.aseq = y.aseq /\ x.stale = y.stale /\ x.what # "SVC_CENTER_ADDR"
    BY <1>3, <2>1
  <2> HIDE DEF new
  <2>4. FreeIsIdle' BY <1>3 DEF AnswerInv, FreeIsIdle
  <2>5. Known'
    <3>1. \A u \in Aseq : Holds(queue', u) => kind'[u] # "none"
      BY <1>1, <1>3 DEF AnswerInv, Known
    <3>2. \A x \in owed' : kind'[x.aseq] # "none" BY <1>1, <2>2 DEF AnswerInv, Known
    <3> QED BY <3>1, <3>2 DEF Known
  <2>6. StaleWritten' BY <1>1, <1>3, <2>2 DEF AnswerInv, StaleWritten
  <2>7. Unanswered'
    <3> SUFFICES ASSUME offs = 0 PROVE Unanswered' BY <1>1 DEF Unanswered
    <3>1. \A x \in owed' : answers'[x.aseq] = <<>>
      BY <1>3, <2>2 DEF AnswerInv, Unanswered
    <3>2. \A x \in owed' : x.what # "SVC_CENTER_ADDR" => ~ Holds(queue', x.aseq)
      BY <1>1, <1>3, <2>2 DEF AnswerInv, Unanswered
    <3> QED BY <1>1, <1>3, <3>1, <3>2 DEF AnswerInv, Unanswered
  <2>8. NothingForgotten'
    <3> SUFFICES ASSUME NEW u \in Aseq, u \notin lost, Open(u), kind[u] # "null", u # 0
                 PROVE  Waits(queue, u) \/ InHand(owed', u)
      BY <1>1, <1>3 DEF NothingForgotten, Open, Waits, InHand
    <3>1. Waits(queue, u) \/ InHand(owed, u)
      BY DEF AnswerInv, NothingForgotten, Waits, InHand
    <3> QED BY <2>3, <3>1 DEF InHand
  <2>9. AnsweredAtMostOnce' BY <1>1, <1>3 DEF AnswerInv, AnsweredAtMostOnce
  <2> QED BY <2>4, <2>5, <2>6, <2>7, <2>8, <2>9 DEF AnswerInv
<1>4. CASE /\ ~ m.stale /\ Becomes(s, m.aseq, <<"GENERIC_FAILURE">>, FALSE)
           /\ owed' = Owing(s, owed \ {m})
  <2> DEFINE e == "GENERIC_FAILURE"
             no == FALSE
  <2>1. e \in Errno /\ no \in BOOLEAN /\ ~ no BY DEF Errno
  <2>2. Becomes(s, m.aseq, <<e>>, no) /\ m.what # "SVC_CENTER_ADDR" BY <1>1, <1>4
  <2> HIDE DEF s, e, no
  <2> QED BY <1>1, <1>4, <2>1, <2>2, ThroughAnswers DEF s
<1> QED BY <1>3, <1>4 DEF ipc_sms_send_msg_complete

(* A refusal that is ignored: who asked for the service center still waits *)
(* in the array, and of the others only stale ones and the request 0 lose  *)
(* their reply.                                                            *)
LEMMA RefusalAnswers ==
  ASSUME IInv, AnswerInv, NEW m \in owed, ipc_gen_phone_res(m)
  PROVE  AnswerInv'
<1>1. /\ m.what = "SVC_CENTER_ADDR" \/ m.stale \/ m.aseq = 0
      /\ owed' = owed \ {m}
      /\ UNCHANGED <<queue, lock, kind, answers, sent, lost, offs>>
  BY DEF ipc_gen_phone_res
<1>2. FreeIsIdle' /\ Known' /\ StaleWritten' /\ Unanswered' /\ AnsweredAtMostOnce'
  BY <1>1 DEF AnswerInv, FreeIsIdle, Known, StaleWritten, Unanswered,
              AnsweredAtMostOnce, Distinct, Holds
<1>3. NothingForgotten'
  <2> SUFFICES ASSUME NEW u \in Aseq, u \notin lost, Open(u), kind[u] # "null", u # 0
               PROVE  Waits(queue, u) \/ InHand(owed \ {m}, u)
    BY <1>1 DEF NothingForgotten, Open, Waits, InHand
  <2>1. Waits(queue, u) \/ InHand(owed, u)
    BY DEF AnswerInv, NothingForgotten, Waits, InHand
  <2> QED BY <1>1, <2>1 DEF InHand
<1> QED BY <1>2, <1>3 DEF AnswerInv

(* Every step keeps the invariant.                                         *)
LEMMA AnswerStep == IInv /\ IInv' /\ AnswerInv /\ [Next]_vars => AnswerInv'
<1> SUFFICES ASSUME IInv, IInv', AnswerInv, [Next]_vars PROVE AnswerInv' OBVIOUS
<1>1. ASSUME NEW r \in Aseq, NEW k \in Pdus, NEW smsc \in BOOLEAN,
             NEW runsOn \in {FALSE, k = "good"}, ril_request_send_sms(r, k, smsc, runsOn)
      PROVE  AnswerInv'
  BY <1>1, RequestAnswers
<1>2. ASSUME NEW m \in owed, NEW runsOn \in BOOLEAN, ipc_sms_svc_center_addr(m, runsOn)
      PROVE  AnswerInv'
  BY <1>2, AddressAnswers
<1>3. ASSUME NEW m \in owed, NEW ok \in BOOLEAN, NEW runsOn \in BOOLEAN,
             ipc_sms_send_msg_complete(m, ok, runsOn)
      PROVE  AnswerInv'
  BY <1>3, ResultAnswers
<1>4. ASSUME NEW m \in owed, NEW e \in {"SUCCESS", "GENERIC_FAILURE"}, NEW runsOn \in BOOLEAN,
             ipc_sms_send_msg(m, e, runsOn)
      PROVE  AnswerInv'
  <2> DEFINE s == ril_request_send_sms_next(queue, {}, runsOn)
  <2>1. /\ m.what # "SVC_CENTER_ADDR" /\ Becomes(s, m.aseq, <<e>>, m.stale)
        /\ owed' = Owing(s, owed \ {m}) /\ UNCHANGED <<kind, lost, offs>>
    BY <1>4 DEF ipc_sms_send_msg
  <2>2. m.stale = TRUE \/ m.stale = FALSE BY RestOf
  <2>3. e \in Errno BY DEF Errno
  <2> DEFINE yes == TRUE
             no == FALSE
  <2>4. \/ m.stale /\ Becomes(s, m.aseq, <<e>>, yes)
        \/ ~ m.stale /\ Becomes(s, m.aseq, <<e>>, no)
    BY <2>1, <2>2, Zenon
  <2>5. yes /\ ~ no /\ yes \in BOOLEAN /\ no \in BOOLEAN OBVIOUS
  <2> HIDE DEF s, yes, no
  <2> QED BY <2>1, <2>3, <2>4, <2>5, ThroughAnswers DEF s
<1>5. CASE ril_request_sms_init
  <2>1. /\ queue' = [i \in Ids |-> Free] /\ lost' = lost \cup {r \in Aseq : Open(r)}
        /\ owed' = {[m EXCEPT !.stale = TRUE] : m \in owed}
        /\ UNCHANGED <<kind, answers>> /\ offs' # 0
    BY <1>5 DEF ril_request_sms_init, IInv, TypeOK
  <2>2. Taken(queue') = {} /\ \A u : ~ Holds(queue', u) BY <2>1 DEF Taken, Holds, Free
  <2>3. \A x \in owed' : x.aseq \in Aseq /\ \E m \in owed : x.aseq = m.aseq
    BY <2>1 DEF IInv, TypeOK, Owed
  <2>4. Known' BY <2>1, <2>2, <2>3 DEF AnswerInv, Known
  <2>5. StaleWritten' BY <2>1, <2>3 DEF AnswerInv, Known, StaleWritten, Open
  <2>6. NothingForgotten' BY <2>1 DEF NothingForgotten, Open
  <2>7. FreeIsIdle' /\ Unanswered' /\ AnsweredAtMostOnce'
    BY <2>1, <2>2 DEF FreeIsIdle, Unanswered, AnsweredAtMostOnce
  <2> QED BY <2>4, <2>5, <2>6, <2>7 DEF AnswerInv
<1>6. CASE ClientFails
  <2>1. /\ owed' = {} /\ lost' = lost \cup {m.aseq : m \in owed}
        /\ UNCHANGED <<queue, lock, kind, answers, offs>>
    BY <1>6 DEF ClientFails
  <2>2. FreeIsIdle' /\ Known' /\ StaleWritten' /\ Unanswered' /\ AnsweredAtMostOnce'
    BY <2>1 DEF AnswerInv, FreeIsIdle, Known, StaleWritten, Unanswered,
                AnsweredAtMostOnce, Distinct, Holds
  <2>3. NothingForgotten'
    <3> SUFFICES ASSUME NEW u \in Aseq, u \notin lost', Open(u), kind[u] # "null", u # 0
                 PROVE  Waits(queue, u)
      BY <2>1 DEF NothingForgotten, Open, Waits, InHand
    <3>1. u \notin lost /\ \A m \in owed : m.aseq # u BY <2>1
    <3> QED BY <3>1 DEF AnswerInv, NothingForgotten, Waits, InHand
  <2> QED BY <2>2, <2>3 DEF AnswerInv
<1>8. ASSUME NEW m \in owed, ipc_gen_phone_res(m) PROVE AnswerInv'
  BY <1>8, RefusalAnswers
<1>7. CASE UNCHANGED vars
  <2>1. UNCHANGED <<queue, lock, owed, kind, answers, sent, lost, offs>> BY <1>7 DEF vars
  <2>2. FreeIsIdle' /\ Known' /\ StaleWritten' /\ Unanswered' /\ AnsweredAtMostOnce'
    BY <2>1 DEF AnswerInv, FreeIsIdle, Known, StaleWritten, Unanswered,
                AnsweredAtMostOnce, Distinct, Holds
  <2>3. NothingForgotten' BY <2>1 DEF AnswerInv, NothingForgotten, Open, Taken
  <2> QED BY <2>2, <2>3 DEF AnswerInv
<1> QED BY <1>1, <1>2, <1>3, <1>4, <1>5, <1>6, <1>7, <1>8 DEF Next

(* The answers are always so.                                              *)
LEMMA AnswerAlways == Spec => []AnswerInv
<1>1. Init => AnswerInv
  <2> SUFFICES ASSUME Init PROVE AnswerInv OBVIOUS
  <2>1. \A u : ~ Holds(queue, u) /\ Taken(queue) = {} BY DEF Init, Holds, Taken, Free
  <2>2. Distinct(queue) BY DEF Init, Distinct, Free
  <2> QED BY <2>1, <2>2 DEF Init, AnswerInv, FreeIsIdle, Known, StaleWritten, Unanswered,
                            NothingForgotten, AnsweredAtMostOnce, Open
<1> QED BY <1>1, AnswerStep, IInvAlways, PTL DEF Spec

(* As long as the radio stays on no request is answered twice, whichever   *)
(* of the handlers finds that it cannot be sent.                           *)
THEOREM SmsAnsweredAtMostOnce == Spec => []AnsweredAtMostOnce
BY AnswerAlways, PTL DEF AnswerInv

(* A request that came with a PDU is answered, or waits in the array or    *)
(* for the modem, unless it was dropped: when the array was full, when the *)
(* radio was switched off, or when the client failed.                      *)
THEOREM NoSmsForgotten == Spec => []NothingForgotten
BY AnswerAlways, PTL DEF AnswerInv
=============================================================================
