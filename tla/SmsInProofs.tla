----------------------------- MODULE SmsInProofs -----------------------------
(***************************************************************************)
(* The queue of incoming messages is a bounded stack (TpidStack), whatever *)
(* its size, the tpids the modem gives and the number of messages, of      *)
(* failures and of times the radio is switched off.                        *)
(***************************************************************************)
EXTENDS SmsIn, SequenceTheorems, WellFoundedInduction, TLAPS

USE NAssumption, TpidsAssumption

(* A queue of tpids; one without a gap, used up to its place k.            *)
Tpid == Tpids \cup {Free}
Queue == [Place -> Tpid]
UsedUpTo(q, k) == \A i \in Place : q[i] # Free <=> i <= k

(* A set of places that is not empty has a greatest element: it is the one *)
(* with the least distance from the end.                                   *)
LEMMA Greatest ==
  ASSUME NEW S, S \subseteq Place, S # {}
  PROVE  Max(S) \in S /\ \A y \in S : Max(S) >= y
<1> DEFINE R == {ss \in Nat \X Nat : ss[1] < ss[2]}
           T == {N - x : x \in S}
<1>1. IsWellFoundedOn(R, Nat) BY NatLessThanWellFounded DEF OpToRel
<1>2. T \subseteq Nat /\ T # {}
  <2>1. \A x \in S : N - x \in Nat BY DEF Place
  <2> QED BY <2>1
<1>3. \E d \in T : \A e \in T : <<e, d>> \notin R
  <2> HIDE DEF R, T
  <2> QED BY <1>1, <1>2, WFMin
<1>4. PICK x \in S : \A e \in T : <<e, N - x>> \notin R BY <1>3
<1>5. \A y \in S : x >= y
  <2>1. \A y \in S : N - y \in T /\ N - y \in Nat /\ N - x \in Nat BY DEF Place
  <2>2. \A y \in S : ~ (N - y < N - x) BY <1>4, <2>1
  <2> QED BY <2>2 DEF Place
<1> QED BY <1>5 DEF Max

(* A function over 1 .. n is a sequence.                                   *)
LEMMA FunctionIsSeq ==
  ASSUME NEW S, NEW n \in Nat, NEW f \in [1 .. n -> S]
  PROVE  f \in Seq(S)
BY SeqDef

(* In a queue without a gap the used places are those up to the last.      *)
LEMMA GetNext ==
  ASSUME NEW q \in Queue,
         \A i, j \in Place : i < j /\ q[j] # Free => q[i] # Free
  PROVE  \E k \in 0 .. N : UsedUpTo(q, k)
<1>1. CASE Used(q) = {}
  <2>1. UsedUpTo(q, 0) BY <1>1 DEF UsedUpTo, Used, Queue, Place
  <2> QED BY <2>1
<1>2. CASE Used(q) # {}
  <2>1. Used(q) \subseteq Place BY DEF Used, Queue
  <2>2. Max(Used(q)) \in Used(q) /\ \A y \in Used(q) : Max(Used(q)) >= y BY <1>2, <2>1, Greatest
  <2> DEFINE k == Max(Used(q))
  <2> HIDE DEF k
  <2>3. k \in Place /\ q[k] # Free /\ \A y \in Place : q[y] # Free => k >= y
    BY <2>2 DEF k, Used, Queue
  <2>4. UsedUpTo(q, k) BY <2>3 DEF UsedUpTo, Place
  <2> QED BY <2>3, <2>4 DEF Place
<1> QED BY <1>1, <1>2

(* And such a queue is what the stack holds: its first k places.           *)
LEMMA StackedIs ==
  ASSUME NEW q \in Queue, NEW k \in 0 .. N, UsedUpTo(q, k)
  PROVE  /\ ipc_sms_tpid_queue_get_next(q) = k
         /\ Stacked(q) \in Seq(Tpid) /\ Len(Stacked(q)) = k
         /\ \A i \in 1 .. k : Stacked(q)[i] = q[i]
<1>1. ipc_sms_tpid_queue_get_next(q) = k
  <2>1. Used(q) = 1 .. k BY DEF Used, UsedUpTo, Queue, Place
  <2>2. CASE k = 0 BY <2>1, <2>2 DEF ipc_sms_tpid_queue_get_next
  <2>3. CASE k # 0
    <3>0. 1 \in 1 .. k /\ 1 .. k \subseteq 1 .. N BY <2>3
    <3>1. Used(q) \subseteq Place /\ Used(q) # {} BY <2>1, <3>0 DEF Place
    <3>2. Max(Used(q)) \in Used(q) /\ \A y \in Used(q) : Max(Used(q)) >= y BY <3>1, Greatest
    <3>3. Max(Used(q)) = k BY <2>1, <2>3, <3>2
    <3> QED BY <3>1, <3>3 DEF ipc_sms_tpid_queue_get_next
  <2> QED BY <2>2, <2>3
<1>2. \A i \in 1 .. k : q[i] \in Tpid BY DEF Queue, Place
<1>3. Stacked(q) = SubSeq(q, 1, k) BY <1>1 DEF Stacked
<1> QED BY <1>1, <1>2, <1>3, SubSeqProperties

(* Adding a tpid moves the others down when the queue is full, and puts it *)
(* above them.                                                             *)
LEMMA AddingPlaces ==
  ASSUME NEW q \in Queue, NEW k \in 0 .. N, UsedUpTo(q, k), NEW tpid \in Tpid
  PROVE  LET r == ipc_sms_tpid_queue_add(q, tpid)
             j == IF k < N THEN k ELSE N - 1
         IN  /\ r \in Queue
             /\ j \in 0 .. N - 1
             /\ \A i \in 1 .. j : r[i] = IF k < N THEN q[i] ELSE q[i + 1]
             /\ r[j + 1] = tpid
             /\ \A i \in Place : i > j + 1 => r[i] = Free
<1> DEFINE r == ipc_sms_tpid_queue_add(q, tpid)
           j == IF k < N THEN k ELSE N - 1
<1>1. ipc_sms_tpid_queue_get_next(q) = k BY StackedIs
<1>2. ipc_sms_tpid_queue_new(q) = IF k = N THEN 0 ELSE k + 1
  <2>1. q[N] # Free <=> k = N BY DEF UsedUpTo, Place
  <2>2. Used(q) = {} <=> k = 0 BY DEF Used, UsedUpTo, Queue, Place
  <2>3. Used(q) # {} => Max(Used(q)) = k BY <1>1 DEF ipc_sms_tpid_queue_get_next
  <2> QED BY <2>1, <2>2, <2>3 DEF ipc_sms_tpid_queue_new
<1> QED
  <2>1. CASE k < N
    <3> DEFINE id == ipc_sms_tpid_queue_new(q)
    <3>0. id = k + 1 /\ id # 0 BY <1>2, <2>1
    <3>1. r = [q EXCEPT ![k + 1] = tpid]
      <4>1. r = IF id = 0 THEN [MovedDown(q) EXCEPT ![N] = tpid] ELSE [q EXCEPT ![id] = tpid]
        BY DEF ipc_sms_tpid_queue_add
      <4> HIDE DEF id, r
      <4> QED BY <4>1, <3>0
    <3> QED BY <2>1, <3>1 DEF Queue, Place, UsedUpTo
  <2>2. CASE ~ (k < N)
    <3>1. k = N BY <2>2
    <3>2. r = [MovedDown(q) EXCEPT ![N] = tpid] BY <1>2, <3>1 DEF ipc_sms_tpid_queue_add
    <3>3. MovedDown(q) \in Queue /\ \A i \in 1 .. N - 1 : MovedDown(q)[i] = q[i + 1]
      BY DEF MovedDown, Queue, Place, Tpid
    <3> QED BY <2>2, <3>1, <3>2, <3>3 DEF Queue, Place
  <2> QED BY <2>1, <2>2

(* So it pushes it, one of 0 only finds room, and the queue stays without  *)
(* a gap.                                                                  *)
LEMMA Adding ==
  ASSUME NEW q \in Queue, NEW k \in 0 .. N, UsedUpTo(q, k), NEW tpid \in Tpid
  PROVE  LET r == ipc_sms_tpid_queue_add(q, tpid)
             room == IF k < N THEN Stacked(q) ELSE Tail(Stacked(q))
         IN  /\ r \in Queue
             /\ \E l \in 0 .. N : UsedUpTo(r, l)
             /\ Stacked(r) = IF tpid = Free THEN room ELSE Append(room, tpid)
<1> DEFINE r == ipc_sms_tpid_queue_add(q, tpid)
           s == Stacked(q)
           room == IF k < N THEN s ELSE Tail(s)
           j == IF k < N THEN k ELSE N - 1
           l == IF tpid = Free THEN j ELSE j + 1
<1>1. /\ ipc_sms_tpid_queue_get_next(q) = k
      /\ s \in Seq(Tpid) /\ Len(s) = k
      /\ \A i \in 1 .. k : s[i] = q[i]
  BY StackedIs
<1>3. /\ r \in Queue
      /\ j \in 0 .. N - 1
      /\ \A i \in 1 .. j : r[i] = IF k < N THEN q[i] ELSE q[i + 1]
      /\ r[j + 1] = tpid
      /\ \A i \in Place : i > j + 1 => r[i] = Free
  BY AddingPlaces
<1> HIDE DEF r
<1>4. l \in 0 .. N /\ UsedUpTo(r, l)
  BY <1>3 DEF UsedUpTo, Place, Queue, Free
<1>5. Stacked(r) \in Seq(Tpid) /\ Len(Stacked(r)) = l /\ \A i \in 1 .. l : Stacked(r)[i] = r[i]
  BY <1>3, <1>4, StackedIs
<1>6. room \in Seq(Tpid) /\ Len(room) = j /\ \A i \in 1 .. j : room[i] = r[i]
  <2>1. CASE k < N BY <1>1, <1>3, <2>1
  <2>2. CASE ~ (k < N)
    <3>1. s # <<>> /\ k = N BY <1>1, <2>2
    <3>2. Tail(s) \in Seq(Tpid) /\ Len(Tail(s)) = k - 1
          /\ \A i \in 1 .. k - 1 : Tail(s)[i] = s[i + 1]
      BY <1>1, <3>1, HeadTailProperties
    <3> QED BY <1>1, <1>3, <2>2, <3>1, <3>2
  <2> QED BY <2>1, <2>2
<1> HIDE DEF s, room
<1>7. CASE tpid = Free
  <2>1. Stacked(r) = room BY <1>3, <1>5, <1>6, <1>7, SeqEqual
  <2> QED BY <1>3, <1>4, <1>7, <2>1 DEF r, s, room
<1>8. CASE tpid # Free
  <2> DEFINE a == Append(room, tpid)
  <2>1. /\ a \in Seq(Tpid) /\ Len(a) = j + 1
        /\ \A i \in 1 .. j : a[i] = room[i]
        /\ a[j + 1] = tpid
    BY <1>6, AppendProperties
  <2> HIDE DEF a
  <2>2. \A i \in 1 .. j + 1 : a[i] = r[i] BY <1>3, <1>6, <2>1
  <2>3. Stacked(r) = a BY <1>3, <1>5, <1>8, <2>1, <2>2, SeqEqual
  <2> QED BY <1>3, <1>4, <1>8, <2>3 DEF r, s, room, a
<1> QED BY <1>7, <1>8

(* Taking out the last tpid pops it.                                       *)
LEMMA Deleting ==
  ASSUME NEW q \in Queue, NEW k \in 1 .. N, UsedUpTo(q, k)
  PROVE  LET r == ipc_sms_tpid_queue_del(q, k)
         IN  /\ r \in Queue
             /\ UsedUpTo(r, k - 1)
             /\ Stacked(r) = SubSeq(Stacked(q), 1, Len(Stacked(q)) - 1)
<1> DEFINE r == ipc_sms_tpid_queue_del(q, k)
           s == Stacked(q)
           t == SubSeq(s, 1, k - 1)
<1>1. /\ r \in Queue
      /\ UsedUpTo(r, k - 1)
      /\ \A i \in 1 .. k - 1 : r[i] = q[i]
  BY DEF ipc_sms_tpid_queue_del, Queue, UsedUpTo, Place, Tpid
<1> HIDE DEF r
<1>2. Stacked(r) \in Seq(Tpid) /\ Len(Stacked(r)) = k - 1
      /\ \A i \in 1 .. k - 1 : Stacked(r)[i] = r[i]
  BY <1>1, StackedIs
<1>3. s \in Seq(Tpid) /\ Len(s) = k /\ \A i \in 1 .. k : s[i] = q[i] BY StackedIs
<1> HIDE DEF s
<1>4. \A i \in 1 .. k - 1 : s[i] \in Tpid BY <1>3, ElementOfSeq
<1>5. t \in Seq(Tpid) /\ Len(t) = k - 1 /\ \A i \in 1 .. k - 1 : t[i] = s[i]
  BY <1>4, SubSeqProperties
<1> HIDE DEF t
<1>6. Stacked(r) = t BY <1>1, <1>2, <1>3, <1>5, SeqEqual
<1> QED BY <1>1, <1>3, <1>6 DEF r, s, t

(* The cleared queue is the empty stack.                                   *)
LEMMA Cleared ==
  /\ ipc_sms_tpid_queue_init \in Queue
  /\ UsedUpTo(ipc_sms_tpid_queue_init, 0)
  /\ Stacked(ipc_sms_tpid_queue_init) = <<>>
<1> DEFINE q == ipc_sms_tpid_queue_init
<1>1. q \in Queue /\ UsedUpTo(q, 0)
  BY DEF ipc_sms_tpid_queue_init, Queue, UsedUpTo, Place, Tpid
<1> HIDE DEF q
<1>2. Stacked(q) \in Seq(Tpid) /\ Len(Stacked(q)) = 0 BY <1>1, StackedIs
<1> QED BY <1>1, <1>2, EmptySeq DEF q

-----------------------------------------------------------------------------
(* What every state has.                                                   *)
IInv == TypeOK /\ Compact

(* The queue of such a state is one of the lemmas.                         *)
LEMMA QueueOf ==
  ASSUME IInv
  PROVE  /\ ipc_sms_tpid_queue \in Queue
         /\ \E k \in 0 .. N : UsedUpTo(ipc_sms_tpid_queue, k)
<1>1. ipc_sms_tpid_queue \in Queue BY DEF IInv, TypeOK, Queue, Tpid
<1> QED BY <1>1, GetNext DEF IInv, Compact

(* A queue that is used up to a place has no gap.                          *)
LEMMA CompactIf ==
  ASSUME ipc_sms_tpid_queue' \in Queue, \E k \in 0 .. N : UsedUpTo(ipc_sms_tpid_queue', k)
  PROVE  Compact' /\ ipc_sms_tpid_queue' \in [Place -> Tpids \cup {Free}]
BY DEF UsedUpTo, Compact, Place, Queue, Tpid

(* An incoming message pushes its tpid.                                    *)
LEMMA IncomingStep ==
  ASSUME IInv, NEW m \in Message, ipc_sms_incoming_msg(m)
  PROVE  Compact' /\ ipc_sms_tpid_queue' \in Queue /\ [Stack!Next]_(Stacked(ipc_sms_tpid_queue))
<1> DEFINE q == ipc_sms_tpid_queue
           s == Stacked(q)
           room(k) == IF k < N THEN s ELSE Tail(s)
<1>1. PICK k \in 0 .. N : UsedUpTo(q, k) BY QueueOf
<1>2. m.tpid \in Tpid BY DEF Message, Tpid
<1>3. q' = ipc_sms_tpid_queue_add(q, m.tpid) BY DEF ipc_sms_incoming_msg
<1>4. q \in Queue BY QueueOf
<1> HIDE DEF q
<1>5. /\ q' \in Queue
      /\ \E l \in 0 .. N : UsedUpTo(q', l)
      /\ Stacked(q') = IF m.tpid = Free THEN room(k) ELSE Append(room(k), m.tpid)
  BY <1>1, <1>2, <1>3, <1>4, Adding
<1>6. Len(s) = k BY <1>1, <1>4, StackedIs
<1>7. [Stack!Next]_s
  <2>1. CASE m.tpid # Free
    <3>1. m.tpid \in Tpids \ {0} BY <1>2, <2>1 DEF Tpid, Free
    <3>2. s' = Append(IF Len(s) < N THEN s ELSE Tail(s), m.tpid) BY <1>5, <1>6, <2>1
    <3>3. Stack!Push(m.tpid) BY <3>2 DEF Stack!Push, q
    <3> QED BY <3>1, <3>3 DEF Stack!Next
  <2>2. CASE m.tpid = Free /\ k < N BY <1>5, <2>2
  <2>3. CASE m.tpid = Free /\ ~ (k < N)
    <3>1. Len(s) = N /\ s' = Tail(s) BY <1>5, <1>6, <2>3
    <3>2. Stack!PushNothing BY <3>1 DEF Stack!PushNothing, q
    <3> QED BY <3>2 DEF Stack!Next
  <2> QED BY <2>1, <2>2, <2>3
<1> QED BY <1>5, <1>7, CompactIf DEF q

(* An acknowledgement pops what it reports, or finds nothing.              *)
LEMMA AcknowledgeStep ==
  ASSUME IInv, NEW verdict \in Verdict, ril_request_sms_acknowledge(verdict)
  PROVE  Compact' /\ ipc_sms_tpid_queue' \in Queue /\ [Stack!Next]_(Stacked(ipc_sms_tpid_queue))
<1> DEFINE q == ipc_sms_tpid_queue
           s == Stacked(q)
<1>1. PICK k \in 0 .. N : UsedUpTo(q, k) BY QueueOf
<1>2. q \in Queue BY QueueOf
<1>3. ipc_sms_tpid_queue_get_next(q) = k /\ Len(s) = k BY <1>1, <1>2, StackedIs
<1>4. CASE q' = q
  <2>1. Compact' /\ ipc_sms_tpid_queue' \in Queue BY <1>1, <1>2, <1>4, CompactIf
  <2>2. s' = s BY <1>4
  <2> QED BY <2>1, <2>2
<1>5. CASE k # 0 /\ q' = ipc_sms_tpid_queue_del(q, k)
  <2>1. k \in 1 .. N /\ k - 1 \in 0 .. N BY <1>5
  <2>2. q' \in Queue /\ UsedUpTo(q', k - 1) /\ s' = SubSeq(s, 1, Len(s) - 1)
    BY <1>1, <1>2, <1>5, <2>1, Deleting
  <2>3. Compact' BY <2>1, <2>2, CompactIf
  <2>4. s # <<>> BY <1>3, <2>1, EmptySeq
  <2>5. Stack!Pop BY <2>2, <2>4 DEF Stack!Pop
  <2> QED BY <2>2, <2>3, <2>5 DEF Stack!Next
<1>6. q' = q \/ (k # 0 /\ q' = ipc_sms_tpid_queue_del(q, k))
  BY <1>3 DEF ril_request_sms_acknowledge, Acknowledged
<1> QED BY <1>4, <1>5, <1>6

(* RADIO_POWER off clears the stack.                                       *)
LEMMA RadioPowerOffStep ==
  ASSUME IInv, RadioPowerOff
  PROVE  Compact' /\ ipc_sms_tpid_queue' \in Queue /\ [Stack!Next]_(Stacked(ipc_sms_tpid_queue))
<1>1. ipc_sms_tpid_queue' = ipc_sms_tpid_queue_init BY DEF RadioPowerOff
<1>2. Stacked(ipc_sms_tpid_queue)' = <<>> BY <1>1, Cleared
<1>3. Stack!Clear BY <1>2 DEF Stack!Clear
<1>4. 0 \in 0 .. N OBVIOUS
<1> QED BY <1>1, <1>3, <1>4, Cleared, CompactIf DEF Stack!Next

-----------------------------------------------------------------------------
(* Every step keeps the invariant, and is a step of the stack or none.     *)
LEMMA StepKeeps ==
  ASSUME IInv, [Next]_vars
  PROVE  IInv' /\ [Stack!Next]_(Stacked(ipc_sms_tpid_queue))
<1> DEFINE q == ipc_sms_tpid_queue
           Same == /\ Compact' /\ q' \in Queue /\ [Stack!Next]_(Stacked(q))
<1>0. q \in Queue /\ \E k \in 0 .. N : UsedUpTo(q, k) BY QueueOf
<1>1. q' = q => Same
  BY <1>0, CompactIf
<1> HIDE DEF Same
<1>2. Same
  <2>1. ASSUME NEW verdict \in Verdict, ril_request_sms_acknowledge(verdict) PROVE Same
    BY <2>1, AcknowledgeStep DEF Same
  <2>2. CASE RadioPowerOff BY <2>2, RadioPowerOffStep DEF Same
  <2>3. CASE Receive
    <3>1. Head(fromModem) \in FromModem
      BY <2>3, HeadTailProperties DEF Receive, IInv, TypeOK
    <3>2. CASE q' = q BY <3>2, <1>1
    <3>3. CASE Head(fromModem).what = "INCOMING" /\ ipc_sms_incoming_msg(Head(fromModem).msg)
      <4>1. Head(fromModem).msg \in Message BY <3>1, <3>3 DEF FromModem
      <4> QED BY <3>3, <4>1, IncomingStep DEF Same
    <3> QED BY <2>3, <3>2, <3>3 DEF Receive, ipc_sms_deliver_report
  <2>4. CASE Deliver BY <2>4, <1>1 DEF Deliver
  <2>5. CASE Serve BY <2>5, <1>1 DEF Serve
  <2>6. CASE ClientFails BY <2>6, <1>1 DEF ClientFails
  <2>7. CASE UNCHANGED vars BY <2>7, <1>1 DEF vars
  <2> QED BY <2>1, <2>2, <2>3, <2>4, <2>5, <2>6, <2>7 DEF Next
<1>3. ipc_sms_tpid_queue' \in [Place -> Tpids \cup {Free}] BY <1>2 DEF Same, Queue, Tpid
<1>4. TypeOK'
  <2> USE SmsBoundsAssumption
  <2> USE DEF IInv, TypeOK, rild
  <2>1. ASSUME NEW verdict \in Verdict, ril_request_sms_acknowledge(verdict) PROVE TypeOK'
    <3> DEFINE id == ipc_sms_tpid_queue_get_next(q)
               t == Len(acks) + 1
               r == [tpid |-> q[id], verdict |-> verdict, token |-> t]
    <3>1. pending' \in Seq([msg : Message, alone : BOOLEAN])
      BY <2>1, HeadTailProperties DEF ril_request_sms_acknowledge
    <3>2. acks' \in Seq({"none", "SUCCESS", "GENERIC_FAILURE"})
      <4>1. acks' = Append(acks, "GENERIC_FAILURE") \/ acks' = Append(acks, "none")
        BY <2>1 DEF ril_request_sms_acknowledge
      <4>2. \A e \in {"none", "SUCCESS", "GENERIC_FAILURE"} :
              Append(acks, e) \in Seq({"none", "SUCCESS", "GENERIC_FAILURE"})
        BY AppendProperties
      <4> QED BY <4>1, <4>2
    <3>3. toModem' \in Seq(Report)
      <4>1. PICK k \in 0 .. N : UsedUpTo(q, k) BY <1>0
      <4>2. id = k BY <1>0, <4>1, StackedIs
      <4>3. CASE k # 0
        <5>1. k \in Place /\ q[k] # Free BY <4>1, <4>3 DEF UsedUpTo, Place
        <5>2. q[k] \in Tpids BY <5>1, <1>0 DEF Queue, Tpid
        <5>3. t \in Nat BY LenProperties
        <5>4. r \in Report BY <4>2, <5>2, <5>3 DEF Report
        <5>5. toModem' = toModem \/ toModem' = Append(toModem, r)
          BY <2>1 DEF ril_request_sms_acknowledge
        <5> HIDE DEF r
        <5>6. Append(toModem, r) \in Seq(Report) BY <5>4, AppendProperties
        <5> QED BY <5>5, <5>6
      <4>4. CASE k = 0 BY <2>1, <4>2, <4>4 DEF ril_request_sms_acknowledge
      <4> QED BY <4>3, <4>4
    <3>4. UNCHANGED <<fromModem, come, waiting, offs, failures>>
      BY <2>1 DEF ril_request_sms_acknowledge
    <3> QED BY <1>3, <3>1, <3>2, <3>3, <3>4
  <2>2. CASE RadioPowerOff
    <3>1. fromModem' \in Seq(FromModem)
      <4>1. \A i \in DOMAIN fromModem : fromModem[i] \in FromModem BY ElementOfSeq, LenProperties
      <4>2. \A m \in FromModem : m.what = "REPLY" => [m EXCEPT !.token = 0] \in FromModem
        BY DEF FromModem
      <4>3. \A i \in DOMAIN fromModem : fromModem'[i] \in FromModem
        BY <2>2, <4>1, <4>2 DEF RadioPowerOff
      <4>4. Len(fromModem) \in Nat /\ fromModem' \in [1 .. Len(fromModem) -> FromModem]
        BY <2>2, <4>3, LenProperties DEF RadioPowerOff
      <4> QED BY <4>4, FunctionIsSeq
    <3>2. toModem' \in Seq(Report)
      <4>1. \A i \in DOMAIN toModem : toModem[i] \in Report BY ElementOfSeq, LenProperties
      <4>2. \A m \in Report : [m EXCEPT !.token = 0] \in Report BY DEF Report
      <4>3. Len(toModem) \in Nat /\ toModem' \in [1 .. Len(toModem) -> Report]
        BY <2>2, <4>1, <4>2, LenProperties DEF RadioPowerOff
      <4> QED BY <4>3, FunctionIsSeq
    <3>3. offs' \in 0 .. MaxOffs /\ UNCHANGED <<come, waiting, rild, failures>>
      BY <2>2 DEF RadioPowerOff
    <3> QED BY <1>3, <3>1, <3>2, <3>3
  <2>3. CASE Receive
    <3>1. Head(fromModem) \in FromModem /\ fromModem' \in Seq(FromModem)
      BY <2>3, HeadTailProperties DEF Receive
    <3>2. UNCHANGED <<toModem, come, waiting, offs, failures>>
      BY <2>3 DEF Receive, ipc_sms_incoming_msg, ipc_sms_deliver_report
    <3>3. CASE Head(fromModem).what = "INCOMING" /\ ipc_sms_incoming_msg(Head(fromModem).msg)
      <4>1. Head(fromModem).msg \in Message BY <3>1, <3>3 DEF FromModem
      <4>2. [msg |-> Head(fromModem).msg, alone |-> pending = <<>>] \in [msg : Message, alone : BOOLEAN]
        BY <4>1
      <4>3. pending' \in Seq([msg : Message, alone : BOOLEAN]) /\ acks' = acks
        BY <3>3, <4>2, AppendProperties DEF ipc_sms_incoming_msg
      <4> QED BY <1>3, <3>1, <3>2, <4>3
    <3>4. CASE ipc_sms_deliver_report(Head(fromModem))
      <4> DEFINE A == {"none", "SUCCESS", "GENERIC_FAILURE"}
      <4>0. Len(acks) \in Nat /\ acks \in [1 .. Len(acks) -> A] BY LenProperties
      <4>1. pending' = pending /\ acks' \in [1 .. Len(acks) -> A]
        BY <3>4, <4>0 DEF ipc_sms_deliver_report, Answered
      <4>2. acks' \in Seq(A) BY <4>0, <4>1, FunctionIsSeq
      <4> QED BY <1>3, <3>1, <3>2, <4>1, <4>2
    <3>5. CASE UNCHANGED rild BY <1>3, <3>1, <3>2, <3>5
    <3> QED BY <2>3, <3>3, <3>4, <3>5 DEF Receive
  <2>4. CASE Deliver
    <3>1. come < MaxMessages /\ come' = come + 1 /\ UNCHANGED <<toModem, rild, offs, failures>>
      BY <2>4 DEF Deliver
    <3>2. PICK tpid \in FreshTpids, type \in Types :
            LET m == [n |-> come + 1, tpid |-> tpid, type |-> type]
            IN  /\ waiting' = waiting \cup {m}
                /\ fromModem' = Append(fromModem, [what |-> "INCOMING", msg |-> m])
      BY <2>4 DEF Deliver
    <3> DEFINE m == [n |-> come + 1, tpid |-> tpid, type |-> type]
    <3>3. m \in Message BY <3>1, <3>2 DEF Message, FreshTpids
    <3> HIDE DEF m
    <3>4. [what |-> "INCOMING", msg |-> m] \in FromModem BY <3>3 DEF FromModem
    <3>5. waiting' \subseteq Message /\ fromModem' \in Seq(FromModem)
      BY <3>2, <3>3, <3>4, AppendProperties DEF m
    <3> QED BY <1>3, <3>1, <3>5
  <2>5. CASE Serve
    <3>1. toModem' \in Seq(Report) /\ Head(toModem) \in Report
      BY <2>5, HeadTailProperties DEF Serve
    <3>2. PICK ok \in BOOLEAN :
            /\ fromModem' = Append(fromModem,
                                   [what |-> "REPLY", token |-> Head(toModem).token, ok |-> ok])
            /\ waiting' = IF ok THEN {m \in waiting : m.tpid # Head(toModem).tpid} ELSE waiting
      BY <2>5 DEF Serve
    <3>3. [what |-> "REPLY", token |-> Head(toModem).token, ok |-> ok] \in FromModem
      BY <3>1 DEF FromModem, Report
    <3>4. fromModem' \in Seq(FromModem) /\ waiting' \subseteq Message
      BY <3>2, <3>3, AppendProperties
    <3>5. UNCHANGED <<come, rild, offs, failures>> BY <2>5 DEF Serve
    <3> QED BY <1>3, <3>1, <3>4, <3>5
  <2>6. CASE ClientFails BY <1>3, <2>6 DEF ClientFails
  <2>7. CASE UNCHANGED vars BY <1>3, <2>7 DEF vars
  <2> QED BY <2>1, <2>2, <2>3, <2>4, <2>5, <2>6, <2>7 DEF Next
<1> QED BY <1>2, <1>4 DEF IInv, Same

-----------------------------------------------------------------------------
(* In every state the array is typed and without a gap.                    *)
LEMMA QueueTyped == Spec => []IInv
<1>1. Init => IInv
  <2> SUFFICES ASSUME Init PROVE IInv OBVIOUS
  <2> USE SmsBoundsAssumption
  <2>1. ipc_sms_tpid_queue = ipc_sms_tpid_queue_init BY DEF Init
  <2>2. ipc_sms_tpid_queue \in [Place -> Tpids \cup {Free}] BY <2>1, Cleared DEF Queue, Tpid
  <2>3. Compact BY <2>1, Cleared DEF Compact, UsedUpTo, Place
  <2> QED BY <2>2, <2>3 DEF Init, IInv, TypeOK
<1>2. IInv /\ [Next]_vars => IInv' BY StepKeeps
<1> QED BY <1>1, <1>2, PTL DEF Spec

(* The array with its moving down, its gaps that must not be and its 0     *)
(* that is no tpid (ipc_sms_tpid_queue_add and _del) is the bounded stack: *)
(* the last tpid in is the first to be reported, and a full array gives up *)
(* the one that has been there longest.                                    *)
THEOREM QueueIsAStack == Spec => ImplementsStack
<1>1. Init => Stack!Init BY Cleared DEF Init, Stack!Init
<1>2. IInv /\ [Next]_vars => [Stack!Next]_(Stacked(ipc_sms_tpid_queue)) BY StepKeeps
<1> QED BY <1>1, <1>2, QueueTyped, PTL DEF Spec, ImplementsStack, Stack!Spec
-----------------------------------------------------------------------------
(* Sequences, place by place.                                              *)

(* The first message of a line, and the places of the others.              *)
LEMMA TailPlaces ==
  ASSUME NEW S, NEW s \in Seq(S), s # <<>>
  PROVE  /\ Tail(s) \in Seq(S) /\ Head(s) \in S
         /\ 1 \in DOMAIN s /\ Head(s) = s[1]
         /\ DOMAIN s \subseteq Nat \ {0}
         /\ \A i \in DOMAIN Tail(s) : i \in Nat \ {0} /\ i + 1 \in DOMAIN s /\ Tail(s)[i] = s[i + 1]
         /\ \A i \in DOMAIN s : i # 1 => i - 1 \in DOMAIN Tail(s) /\ Tail(s)[i - 1] = s[i]
<1>1. /\ Tail(s) \in Seq(S) /\ Head(s) \in S /\ Head(s) = s[1]
      /\ Len(Tail(s)) = Len(s) - 1
      /\ \A i \in 1 .. Len(Tail(s)) : Tail(s)[i] = s[i + 1]
  BY HeadTailProperties
<1>2. /\ Len(s) \in Nat /\ Len(s) # 0 /\ DOMAIN s = 1 .. Len(s)
      /\ DOMAIN Tail(s) = 1 .. Len(Tail(s))
  BY <1>1, LenProperties, EmptySeq
<1> QED BY <1>1, <1>2

(* A message at the end of a line, and the places of the others.           *)
LEMMA AppendPlaces ==
  ASSUME NEW S, NEW s \in Seq(S), NEW x \in S
  PROVE  /\ Append(s, x) \in Seq(S)
         /\ Len(s) + 1 \in DOMAIN Append(s, x) /\ Append(s, x)[Len(s) + 1] = x
         /\ Len(Append(s, x)) = Len(s) + 1
         /\ DOMAIN s \subseteq Nat \ {0} /\ \A i \in DOMAIN s : i < Len(s) + 1
         /\ \A i \in DOMAIN Append(s, x) :
              \/ i \in DOMAIN s /\ Append(s, x)[i] = s[i]
              \/ i = Len(s) + 1
         /\ \A i \in DOMAIN s : i \in DOMAIN Append(s, x) /\ Append(s, x)[i] = s[i]
BY AppendProperties, LenProperties

-----------------------------------------------------------------------------
(* Whose tpid it is.                                                       *)

(* A message with that tpid is in w.                                       *)
Has(w, tpid) == \E m \in w : m.tpid = tpid

IncomingAt(f, i) == i \in DOMAIN f /\ f[i].what = "INCOMING"

(* RADIO_POWER off takes the tokens from the replies, and leaves the       *)
(* messages alone.                                                         *)
LEMMA OffComing ==
  ASSUME fromModem \in Seq(FromModem), RadioPowerOff
  PROVE  \A i : IncomingAt(fromModem', i) =>
           IncomingAt(fromModem, i) /\ fromModem'[i].msg = fromModem[i].msg
<1>1. fromModem' = [i \in DOMAIN fromModem |->
                      IF fromModem[i].what = "REPLY" THEN [fromModem[i] EXCEPT !.token = 0]
                      ELSE fromModem[i]]
  BY DEF RadioPowerOff
<1>2. \A i \in DOMAIN fromModem : fromModem[i] \in FromModem BY ElementOfSeq, LenProperties
<1>3. \A x \in FromModem : x.what = "REPLY" => [x EXCEPT !.token = 0].what = "REPLY"
  BY DEF FromModem
<1>4. \A i \in DOMAIN fromModem' :
        i \in DOMAIN fromModem /\ (fromModem'[i].what = "REPLY" \/ fromModem'[i] = fromModem[i])
  BY <1>1, <1>2, <1>3
<1> QED BY <1>4 DEF IncomingAt

(* And the modem's replies come after them.                                *)
LEMMA ServeComing ==
  ASSUME TypeOK, Serve
  PROVE  \A i : IncomingAt(fromModem', i) =>
           IncomingAt(fromModem, i) /\ fromModem'[i].msg = fromModem[i].msg
<1>1. PICK ok \in BOOLEAN :
        fromModem' = Append(fromModem, [what |-> "REPLY", token |-> Head(toModem).token, ok |-> ok])
  BY DEF Serve
<1> DEFINE x == [what |-> "REPLY", token |-> Head(toModem).token, ok |-> ok]
<1>2. Head(toModem) \in Report BY HeadTailProperties DEF Serve, TypeOK
<1>3. x \in FromModem /\ x.what = "REPLY" BY <1>2 DEF FromModem, Report
<1>4. fromModem' = Append(fromModem, x) BY <1>1
<1> HIDE DEF x
<1>5. \A i \in DOMAIN fromModem' : \/ i \in DOMAIN fromModem /\ fromModem'[i] = fromModem[i]
                                   \/ fromModem'[i] = x
  BY <1>3, <1>4, AppendPlaces DEF TypeOK
<1> QED BY <1>3, <1>5 DEF IncomingAt

(* Each tpid in the queue q, on its way to the modem in t or from it in f  *)
(* belongs to a message in w, and no two are the same.                     *)
Belong(q, t, f, w) ==
  /\ \A i \in Place : q[i] # Free => Has(w, q[i])
  /\ \A i \in DOMAIN t : Has(w, t[i].tpid)
  /\ \A i : IncomingAt(f, i) => Has(w, f[i].msg.tpid)

Differ(q, t, f) ==
  /\ \A i, j \in Place : q[i] # Free /\ q[i] = q[j] => i = j
  /\ \A i, j \in DOMAIN t : t[i].tpid = t[j].tpid => i = j
  /\ \A i, j : IncomingAt(f, i) /\ IncomingAt(f, j) /\ f[i].msg.tpid = f[j].msg.tpid => i = j
  /\ \A i \in Place, j \in DOMAIN t : q[i] # Free => q[i] # t[j].tpid
  /\ \A i \in Place : \A j : q[i] # Free /\ IncomingAt(f, j) => q[i] # f[j].msg.tpid
  /\ \A i \in DOMAIN t : \A j : IncomingAt(f, j) => t[i].tpid # f[j].msg.tpid

Separate(q, t, f, w) == Belong(q, t, f, w) /\ Differ(q, t, f)

(* What is in the queue or under way keeps that when some of it is gone.   *)
LEMMA FewerSeparate ==
  ASSUME NEW q, NEW t, NEW f, NEW w, Separate(q, t, f, w),
         NEW p, \A i \in Place : p[i] # Free => p[i] = q[i],
         NEW u, DOMAIN u = DOMAIN t, \A i \in DOMAIN u : u[i].tpid = t[i].tpid,
         NEW g, \A i : IncomingAt(g, i) => IncomingAt(f, i) /\ g[i].msg = f[i].msg
  PROVE  Separate(p, u, g, w)
<1>1. Belong(p, u, g, w) BY DEF Separate, Belong
<1>2. Differ(p, u, g) BY DEF Separate, Differ
<1> QED BY <1>1, <1>2 DEF Separate

(* An acknowledgement takes a tpid out of the queue and reports it.        *)
LEMMA AcknowledgeSeparate ==
  ASSUME NEW q \in Queue, NEW t \in Seq(Report), NEW f, NEW w, Separate(q, t, f, w),
         NEW k \in Place, q[k] # Free, NEW r \in Report, r.tpid = q[k]
  PROVE  Separate(ipc_sms_tpid_queue_del(q, k), Append(t, r), f, w)
<1> DEFINE p == ipc_sms_tpid_queue_del(q, k)
           u == Append(t, r)
           n == Len(t) + 1
<1>1. \A i \in Place : (p[i] # Free => p[i] = q[i] /\ i # k)
  BY DEF ipc_sms_tpid_queue_del, Queue
<1>2. /\ n \in DOMAIN u /\ u[n] = r
      /\ \A i \in DOMAIN u : (i \in DOMAIN t /\ u[i] = t[i]) \/ i = n
  BY AppendPlaces
<1>3. \A i \in DOMAIN u : (i \in DOMAIN t /\ u[i] = t[i]) \/ (i = n /\ u[i].tpid = q[k])
  BY <1>2
<1> HIDE DEF p, u, n
<1>4. Belong(p, u, f, w) BY <1>1, <1>3 DEF Separate, Belong
<1>5. Differ(p, u, f)
  <2>1. \A i, j \in Place : p[i] # Free /\ p[i] = p[j] => i = j
    BY <1>1 DEF Separate, Differ
  <2>2. \A i, j \in DOMAIN u : u[i].tpid = u[j].tpid => i = j
    BY <1>3 DEF Separate, Differ
  <2>3. \A i \in Place, j \in DOMAIN u : p[i] # Free => p[i] # u[j].tpid
    BY <1>1, <1>3 DEF Separate, Differ
  <2>4. \A i \in Place : \A j : p[i] # Free /\ IncomingAt(f, j) => p[i] # f[j].msg.tpid
    BY <1>1 DEF Separate, Differ
  <2>5. \A i \in DOMAIN u : \A j : IncomingAt(f, j) => u[i].tpid # f[j].msg.tpid
    BY <1>3 DEF Separate, Differ
  <2> QED BY <2>1, <2>2, <2>3, <2>4, <2>5 DEF Separate, Differ
<1> QED BY <1>4, <1>5 DEF Separate, p, u

(* A message that has come in gives its tpid to the queue.                 *)
LEMMA IncomingSeparate ==
  ASSUME NEW q \in Queue, NEW k \in 0 .. N, UsedUpTo(q, k), NEW t,
         NEW f \in Seq(FromModem), f # <<>>, Head(f).what = "INCOMING",
         NEW w, Separate(q, t, f, w)
  PROVE  Separate(ipc_sms_tpid_queue_add(q, Head(f).msg.tpid), t, Tail(f), w)
<1> DEFINE tpid == Head(f).msg.tpid
           p == ipc_sms_tpid_queue_add(q, tpid)
           g == Tail(f)
           j == IF k < N THEN k ELSE N - 1
           from(i) == IF k < N THEN i ELSE i + 1
<1>1. /\ Head(f) \in FromModem /\ 1 \in DOMAIN f /\ Head(f) = f[1]
      /\ \A i \in DOMAIN g : i \in Nat \ {0} /\ i + 1 \in DOMAIN f /\ g[i] = f[i + 1]
  BY TailPlaces
<1>2. tpid \in Tpid BY <1>1 DEF FromModem, Message, Tpid
<1>3. /\ j \in 0 .. N - 1
      /\ \A i \in 1 .. j : p[i] = IF k < N THEN q[i] ELSE q[i + 1]
      /\ p[j + 1] = tpid
      /\ \A i \in Place : i > j + 1 => p[i] = Free
  BY <1>2, AddingPlaces
<1>4. \A i \in Place : p[i] # Free =>
        \/ i = j + 1 /\ p[i] = tpid
        \/ i # j + 1 /\ from(i) \in Place /\ p[i] = q[from(i)]
  <2> SUFFICES ASSUME NEW i \in Place, p[i] # Free
               PROVE  \/ i = j + 1 /\ p[i] = tpid
                      \/ i # j + 1 /\ from(i) \in Place /\ p[i] = q[from(i)]
    OBVIOUS
  <2> HIDE DEF p, tpid
  <2>1. i <= j + 1 BY <1>3 DEF Place
  <2>2. CASE i = j + 1 BY <1>3, <2>2
  <2>3. CASE i # j + 1
    <3>1. i \in 1 .. j BY <1>3, <2>1, <2>3 DEF Place
    <3> QED BY <1>3, <2>3, <3>1 DEF Place
  <2> QED BY <2>2, <2>3
<1>5. \A i, l \in Place : from(i) = from(l) => i = l BY DEF Place
<1>6. IncomingAt(f, 1) /\ f[1].msg.tpid = tpid BY <1>1 DEF IncomingAt
<1>7. \A i : IncomingAt(g, i) => /\ i \in Nat \ {0} /\ IncomingAt(f, i + 1) /\ i + 1 # 1
                                 /\ g[i].msg = f[i + 1].msg
  BY <1>1 DEF IncomingAt
<1> HIDE DEF p, g, j, from, tpid
<1>8. Belong(p, t, g, w)
  <2>1. \A i \in Place : p[i] # Free => Has(w, p[i])
    BY <1>4, <1>6 DEF Separate, Belong
  <2> QED BY <1>7, <2>1 DEF Separate, Belong
<1>9. Differ(p, t, g)
  <2>1. \A i, l \in Place : p[i] # Free /\ p[i] = p[l] => i = l
    <3> SUFFICES ASSUME NEW i \in Place, NEW l \in Place, p[i] # Free, p[i] = p[l] PROVE i = l
      OBVIOUS
    <3>1. CASE i = j + 1 /\ l = j + 1 BY <3>1
    <3>2. CASE i # j + 1 /\ l # j + 1 BY <1>4, <1>5, <3>2 DEF Separate, Differ
    <3>3. \A a \in Place : q[a] # Free => q[a] # tpid BY <1>6 DEF Separate, Differ
    <3>4. i = j + 1 => p[i] = tpid BY <1>4
    <3>5. l = j + 1 => p[l] = tpid BY <1>4
    <3>6. i # j + 1 => from(i) \in Place /\ p[i] = q[from(i)] BY <1>4
    <3>7. l # j + 1 => from(l) \in Place /\ p[l] = q[from(l)] BY <1>4
    <3> QED BY <3>1, <3>2, <3>3, <3>4, <3>5, <3>6, <3>7
  <2>2. \A i, l : IncomingAt(g, i) /\ IncomingAt(g, l) /\ g[i].msg.tpid = g[l].msg.tpid => i = l
    BY <1>7 DEF Separate, Differ
  <2>3. \A i \in Place, l \in DOMAIN t : p[i] # Free => p[i] # t[l].tpid
    BY <1>4, <1>6 DEF Separate, Differ
  <2>4. \A i \in Place : \A l : p[i] # Free /\ IncomingAt(g, l) => p[i] # g[l].msg.tpid
    BY <1>4, <1>6, <1>7 DEF Separate, Differ
  <2>5. \A i \in DOMAIN t : \A l : IncomingAt(g, l) => t[i].tpid # g[l].msg.tpid
    BY <1>7 DEF Separate, Differ
  <2> QED BY <2>1, <2>2, <2>3, <2>4, <2>5 DEF Separate, Differ
<1> QED BY <1>8, <1>9 DEF Separate, p, g, tpid

(* A reply that has come in changes nothing of that.                       *)
LEMMA ReplySeparate ==
  ASSUME NEW q, NEW t, NEW f \in Seq(FromModem), f # <<>>, NEW w, Separate(q, t, f, w)
  PROVE  Separate(q, t, Tail(f), w)
<1> DEFINE g == Tail(f)
<1>1. \A i \in DOMAIN g : i \in Nat \ {0} /\ i + 1 \in DOMAIN f /\ g[i] = f[i + 1]
  BY TailPlaces
<1>2. \A i : IncomingAt(g, i) => /\ i \in Nat \ {0} /\ IncomingAt(f, i + 1)
                                 /\ g[i].msg = f[i + 1].msg
  BY <1>1 DEF IncomingAt
<1> HIDE DEF g
<1>3. Belong(q, t, g, w) BY <1>2 DEF Separate, Belong
<1>4. Differ(q, t, g)
  <2>1. \A i, l : IncomingAt(g, i) /\ IncomingAt(g, l) /\ g[i].msg.tpid = g[l].msg.tpid => i = l
    BY <1>2 DEF Separate, Differ
  <2>2. \A i \in Place : \A l : q[i] # Free /\ IncomingAt(g, l) => q[i] # g[l].msg.tpid
    BY <1>2 DEF Separate, Differ
  <2>3. \A i \in DOMAIN t : \A l : IncomingAt(g, l) => t[i].tpid # g[l].msg.tpid
    BY <1>2 DEF Separate, Differ
  <2> QED BY <2>1, <2>2, <2>3 DEF Separate, Differ
<1> QED BY <1>3, <1>4 DEF Separate, g

(* The modem gives a new message a tpid that no other has it waits for.    *)
LEMMA DeliverSeparate ==
  ASSUME NEW q, NEW t, NEW f \in Seq(FromModem), NEW w, Separate(q, t, f, w),
         NEW m \in Message, ~ Has(w, m.tpid)
  PROVE  Separate(q, t, Append(f, [what |-> "INCOMING", msg |-> m]), w \cup {m})
<1> DEFINE x == [what |-> "INCOMING", msg |-> m]
           g == Append(f, x)
           n == Len(f) + 1
           v == w \cup {m}
<1>1. x \in FromModem BY DEF FromModem
<1>2. /\ n \in DOMAIN g /\ g[n] = x
      /\ \A i \in DOMAIN g : (i \in DOMAIN f /\ g[i] = f[i]) \/ i = n
  BY <1>1, AppendPlaces
<1>3. \A i : IncomingAt(g, i) => \/ IncomingAt(f, i) /\ g[i].msg = f[i].msg
                                 \/ i = n /\ g[i].msg = m
  BY <1>2 DEF IncomingAt
<1>4. \A tpid : Has(w, tpid) => Has(v, tpid) /\ tpid # m.tpid BY DEF Has
<1>5. Has(v, m.tpid) BY DEF Has
<1> HIDE DEF g, n, v
<1>6. Belong(q, t, g, v) BY <1>3, <1>4, <1>5 DEF Separate, Belong
<1>7. Differ(q, t, g)
  <2>1. \A i, l : IncomingAt(g, i) /\ IncomingAt(g, l) /\ g[i].msg.tpid = g[l].msg.tpid => i = l
    BY <1>3, <1>4 DEF Separate, Differ, Belong
  <2>2. \A i \in Place : \A l : q[i] # Free /\ IncomingAt(g, l) => q[i] # g[l].msg.tpid
    BY <1>3, <1>4 DEF Separate, Differ, Belong
  <2>3. \A i \in DOMAIN t : \A l : IncomingAt(g, l) => t[i].tpid # g[l].msg.tpid
    BY <1>3, <1>4 DEF Separate, Differ, Belong
  <2> QED BY <2>1, <2>2, <2>3 DEF Separate, Differ
<1> QED BY <1>6, <1>7 DEF Separate, g, v

(* And it no longer waits for a report that it has accepted.               *)
LEMMA ServeSeparate ==
  ASSUME NEW q, NEW t \in Seq(Report), t # <<>>, NEW f \in Seq(FromModem), NEW w,
         Separate(q, t, f, w), NEW x \in FromModem, x.what = "REPLY",
         NEW v, v = w \/ v = {m \in w : m.tpid # Head(t).tpid}
  PROVE  Separate(q, Tail(t), Append(f, x), v)
<1> DEFINE u == Tail(t)
           g == Append(f, x)
<1>1. /\ 1 \in DOMAIN t /\ Head(t) = t[1]
      /\ \A i \in DOMAIN u : i \in Nat \ {0} /\ i + 1 \in DOMAIN t /\ u[i] = t[i + 1]
  BY TailPlaces
<1>2. /\ g[Len(f) + 1] = x
      /\ \A i \in DOMAIN g : (i \in DOMAIN f /\ g[i] = f[i]) \/ i = Len(f) + 1
  BY AppendPlaces
<1>3. \A i : IncomingAt(g, i) => IncomingAt(f, i) /\ g[i].msg = f[i].msg
  BY <1>2 DEF IncomingAt
<1>4. \A tpid : Has(w, tpid) /\ tpid # t[1].tpid => Has(v, tpid) BY <1>1 DEF Has
<1>5. \A i \in DOMAIN u : i + 1 # 1 BY <1>1
<1> HIDE DEF u, g
<1>6. Belong(q, u, g, v)
  <2>1. \A i \in Place : q[i] # Free => Has(v, q[i])
    BY <1>1, <1>4 DEF Separate, Belong, Differ
  <2>2. \A i \in DOMAIN u : Has(v, u[i].tpid)
    BY <1>1, <1>4, <1>5 DEF Separate, Belong, Differ
  <2>3. \A i : IncomingAt(g, i) => Has(v, g[i].msg.tpid)
    BY <1>1, <1>3, <1>4 DEF Separate, Belong, Differ
  <2> QED BY <2>1, <2>2, <2>3 DEF Belong
<1>7. Differ(q, u, g)
  <2>1. \A i, l \in DOMAIN u : u[i].tpid = u[l].tpid => i = l BY <1>1 DEF Separate, Differ
  <2>2. \A i, l : IncomingAt(g, i) /\ IncomingAt(g, l) /\ g[i].msg.tpid = g[l].msg.tpid => i = l
    BY <1>3 DEF Separate, Differ
  <2>3. \A i \in Place, l \in DOMAIN u : q[i] # Free => q[i] # u[l].tpid
    BY <1>1 DEF Separate, Differ
  <2>4. \A i \in Place : \A l : q[i] # Free /\ IncomingAt(g, l) => q[i] # g[l].msg.tpid
    BY <1>3 DEF Separate, Differ
  <2>5. \A i \in DOMAIN u : \A l : IncomingAt(g, l) => u[i].tpid # g[l].msg.tpid
    BY <1>1, <1>3 DEF Separate, Differ
  <2> QED BY <2>1, <2>2, <2>3, <2>4, <2>5 DEF Separate, Differ
<1> QED BY <1>6, <1>7 DEF Separate, u, g

-----------------------------------------------------------------------------
(* Until the client fails the tpids that are held differ, and each is that *)
(* of a message the modem waits for.                                       *)
Apart ==
  failures = 0 => Separate(ipc_sms_tpid_queue, toModem, fromModem, waiting)

(* Every step keeps the tpids apart.                                       *)
LEMMA ApartStep ==
  ASSUME IInv, Apart, [Next]_vars
  PROVE  Apart'
<1> DEFINE q == ipc_sms_tpid_queue
           t == toModem
           f == fromModem
           w == waiting
<1>0. /\ q \in Queue /\ t \in Seq(Report) /\ f \in Seq(FromModem) /\ failures \in Nat
      /\ \E k \in 0 .. N : UsedUpTo(q, k)
  BY QueueOf, SmsBoundsAssumption DEF IInv, TypeOK
<1>1. PICK k \in 0 .. N : UsedUpTo(q, k) BY <1>0
<1>2. ASSUME NEW verdict \in Verdict, ril_request_sms_acknowledge(verdict) PROVE Apart'
  <2> DEFINE r == [tpid |-> q[k], verdict |-> verdict, token |-> Len(acks) + 1]
  <2>1. ipc_sms_tpid_queue_get_next(q) = k BY <1>0, <1>1, StackedIs
  <2>2. UNCHANGED <<fromModem, waiting, failures>> BY <1>2 DEF ril_request_sms_acknowledge
  <2>3. CASE k = 0
    <3>1. UNCHANGED <<ipc_sms_tpid_queue, toModem>>
      BY <1>2, <2>1, <2>3 DEF ril_request_sms_acknowledge
    <3> QED BY <2>2, <3>1 DEF Apart
  <2>4. CASE k # 0
    <3>1. q' = ipc_sms_tpid_queue_del(q, k) /\ t' = Append(t, r)
      BY <1>2, <2>1, <2>4 DEF ril_request_sms_acknowledge, Acknowledged
    <3>2. k \in Place /\ q[k] # Free BY <1>1, <2>4 DEF UsedUpTo, Place
    <3>3. q[k] \in Tpids BY <1>0, <3>2 DEF Queue, Tpid
    <3>4. Len(acks) + 1 \in Nat BY LenProperties DEF IInv, TypeOK
    <3>5. r \in Report /\ r.tpid = q[k] BY <3>3, <3>4 DEF Report
    <3> HIDE DEF r
    <3>6. failures = 0 => Separate(q, t, f, w) BY DEF Apart
    <3>7. failures = 0 => Separate(q', t', f, w) BY <1>0, <3>1, <3>2, <3>5, <3>6, AcknowledgeSeparate
    <3> QED BY <2>2, <3>7 DEF Apart
  <2> QED BY <2>3, <2>4
<1>3. CASE RadioPowerOff
  <2>1. /\ \A i \in Place : q'[i] = Free
        /\ UNCHANGED <<waiting, failures>>
        /\ t' = [i \in DOMAIN t |-> [t[i] EXCEPT !.token = 0]]
    BY <1>3 DEF RadioPowerOff, ipc_sms_tpid_queue_init
  <2>2. DOMAIN t' = DOMAIN t /\ \A i \in DOMAIN t' : t'[i].tpid = t[i].tpid
    <3>1. \A i \in DOMAIN t : t[i] \in Report BY <1>0, ElementOfSeq, LenProperties
    <3> QED BY <2>1, <3>1 DEF Report
  <2>3. \A i : IncomingAt(f', i) => IncomingAt(f, i) /\ f'[i].msg = f[i].msg
    BY <1>0, <1>3, OffComing
  <2>4. failures = 0 => Separate(q, t, f, w) BY DEF Apart
  <2>5. \A i \in Place : q'[i] # Free => q'[i] = q[i] BY <2>1
  <2>6. failures = 0 => Separate(q', t', f', w)
    <3> HIDE DEF q, t, f, w
    <3> QED BY <2>2, <2>3, <2>4, <2>5, FewerSeparate, Zenon
  <2> QED BY <2>1, <2>6 DEF Apart
<1>4. CASE Receive
  <2>1. f # <<>> /\ f' = Tail(f) /\ UNCHANGED <<toModem, waiting, failures>>
    BY <1>4 DEF Receive, ipc_sms_incoming_msg, ipc_sms_deliver_report
  <2>2. failures = 0 => Separate(q, t, f, w) BY DEF Apart
  <2>3. CASE Head(f).what = "INCOMING" /\ ipc_sms_incoming_msg(Head(f).msg)
    <3>1. q' = ipc_sms_tpid_queue_add(q, Head(f).msg.tpid) BY <2>3 DEF ipc_sms_incoming_msg
    <3>2. failures = 0 => Separate(q', t, f', w)
      BY <1>0, <1>1, <2>1, <2>2, <2>3, <3>1, IncomingSeparate
    <3> QED BY <2>1, <3>2 DEF Apart
  <2>4. CASE q' = q
    <3>1. failures = 0 => Separate(q, t, f', w) BY <1>0, <2>1, <2>2, ReplySeparate
    <3> QED BY <2>1, <2>4, <3>1 DEF Apart
  <2> QED BY <1>4, <2>3, <2>4 DEF Receive, ipc_sms_deliver_report
<1>5. CASE Deliver
  <2>1. PICK tpid \in FreshTpids, type \in Types :
          LET m == [n |-> come + 1, tpid |-> tpid, type |-> type]
          IN  /\ waiting' = waiting \cup {m}
              /\ fromModem' = Append(fromModem, [what |-> "INCOMING", msg |-> m])
    BY <1>5 DEF Deliver
  <2> DEFINE m == [n |-> come + 1, tpid |-> tpid, type |-> type]
  <2>2. come + 1 \in 1 .. MaxMessages /\ UNCHANGED <<ipc_sms_tpid_queue, toModem, failures>>
    BY <1>5, SmsBoundsAssumption DEF Deliver, IInv, TypeOK
  <2>3. m \in Message BY <2>1, <2>2 DEF Message, FreshTpids
  <2>4. ~ Has(w, m.tpid) BY <2>1 DEF FreshTpids, Has
  <2>5. w' = w \cup {m} /\ f' = Append(f, [what |-> "INCOMING", msg |-> m]) BY <2>1
  <2> HIDE DEF m
  <2>6. failures = 0 => Separate(q, t, f', w')
    BY <1>0, <2>3, <2>4, <2>5, DeliverSeparate DEF Apart
  <2> QED BY <2>2, <2>6 DEF Apart
<1>6. CASE Serve
  <2>1. PICK ok \in BOOLEAN :
          /\ f' = Append(f, [what |-> "REPLY", token |-> Head(t).token, ok |-> ok])
          /\ w' = IF ok THEN {m \in w : m.tpid # Head(t).tpid} ELSE w
    BY <1>6 DEF Serve
  <2> DEFINE x == [what |-> "REPLY", token |-> Head(t).token, ok |-> ok]
  <2>2. t # <<>> /\ t' = Tail(t) /\ UNCHANGED <<ipc_sms_tpid_queue, failures>> BY <1>6 DEF Serve
  <2>3. Head(t) \in Report BY <1>0, <2>2, HeadTailProperties
  <2>4. x \in FromModem /\ x.what = "REPLY" BY <2>3 DEF FromModem, Report
  <2>5. f' = Append(f, x) /\ (w' = w \/ w' = {m \in w : m.tpid # Head(t).tpid}) BY <2>1
  <2> HIDE DEF x
  <2>6. failures = 0 => Separate(q, t', f', w')
    BY <1>0, <2>2, <2>4, <2>5, ServeSeparate DEF Apart
  <2> QED BY <2>2, <2>6 DEF Apart
<1>7. CASE ClientFails BY <1>0, <1>7 DEF ClientFails, Apart
<1>8. CASE UNCHANGED vars BY <1>8 DEF vars, Apart
<1> QED BY <1>2, <1>3, <1>4, <1>5, <1>6, <1>7, <1>8 DEF Next

(* The tpids are always apart.                                             *)
LEMMA ApartAlways == Spec => []Apart
<1>1. Init => Apart
  <2> SUFFICES ASSUME Init PROVE Apart OBVIOUS
  <2>1. /\ \A i \in Place : ipc_sms_tpid_queue[i] = Free
        /\ fromModem = <<>> /\ toModem = <<>> /\ DOMAIN <<>> = {}
    BY DEF Init, ipc_sms_tpid_queue_init
  <2>2. \A i : ~ IncomingAt(fromModem, i) BY <2>1 DEF IncomingAt
  <2> QED BY <2>1, <2>2 DEF Apart, Separate, Belong, Differ
<1>2. IInv /\ Apart /\ [Next]_vars => Apart' BY ApartStep
<1> QED BY <1>1, <1>2, QueueTyped, PTL DEF Spec

(* Until the client fails no two messages are reported under one tpid, nor *)
(* one twice, nor one the modem does not wait for; however the queue is    *)
(* filled, overrun and cleared, and reports are refused.                   *)
THEOREM NoTpidTwice == Spec => []SmsInInv
<1>1. IInv /\ Apart => SmsInInv
  <2> SUFFICES ASSUME IInv, Apart PROVE SmsInInv OBVIOUS
  <2>1. ASSUME failures = 0 PROVE \A h \in Held : \E m \in waiting : m.tpid = h.tpid
    <3>1. Belong(ipc_sms_tpid_queue, toModem, fromModem, waiting)
      BY <2>1 DEF Apart, Separate
    <3>2. Used(ipc_sms_tpid_queue) \subseteq Place BY QueueOf DEF Used, Queue
    <3> QED BY <3>1, <3>2 DEF Belong, Has, Held, Used
  <2>2. ASSUME failures = 0 PROVE \A g, h \in Held : g.tpid = h.tpid => g = h
    <3>1. Differ(ipc_sms_tpid_queue, toModem, fromModem) BY <2>2 DEF Apart, Separate
    <3>2. Used(ipc_sms_tpid_queue) \subseteq Place BY QueueOf DEF Used, Queue
    <3>3. \A h \in Held :
            \/ /\ h.i \in Place /\ ipc_sms_tpid_queue[h.i] # Free
               /\ h = [where |-> "queue", i |-> h.i, tpid |-> ipc_sms_tpid_queue[h.i]]
            \/ /\ h.i \in DOMAIN toModem
               /\ h = [where |-> "line", i |-> h.i, tpid |-> toModem[h.i].tpid]
      BY <3>2 DEF Held, Used
    <3> SUFFICES ASSUME NEW g \in Held, NEW h \in Held, g.tpid = h.tpid PROVE g = h
      OBVIOUS
    <3>4. g.i = h.i /\ g.where = h.where BY <3>1, <3>3 DEF Differ
    <3> QED BY <3>3, <3>4
  <2> QED BY <2>1, <2>2 DEF SmsInInv, IInv
<1> QED BY <1>1, ApartAlways, QueueTyped, PTL

-----------------------------------------------------------------------------
(* In which order the messages come.                                       *)

(* Those on their way come in the order of their numbers, after those that *)
(* rild was told; and of the latter at most the first found rild with      *)
(* nothing to acknowledge.                                                 *)
Numbered ==
  /\ \A i : IncomingAt(fromModem, i) => fromModem[i].msg.n <= come
  /\ \A i, j : IncomingAt(fromModem, i) /\ IncomingAt(fromModem, j) /\ i < j
                 => fromModem[i].msg.n < fromModem[j].msg.n
  /\ \A k \in DOMAIN pending : \A i : IncomingAt(fromModem, i)
                                    => pending[k].msg.n < fromModem[i].msg.n
  /\ \A k \in DOMAIN pending : pending[k].msg.n <= come /\ (k # 1 => ~ pending[k].alone)

(* A message that rild was told alone, the latest that reached the driver, *)
(* is on top of the queue, unless that was cleared.                        *)
OnTop ==
  /\ failures = 0 /\ Len(pending) = 1 /\ pending[1].alone
  /\ Latest(pending[1].msg) /\ pending[1].msg.tpid # 0
  => \/ Used(ipc_sms_tpid_queue) = {}
     \/ ipc_sms_tpid_queue[ipc_sms_tpid_queue_get_next(ipc_sms_tpid_queue)] = pending[1].msg.tpid

(* What is known of the messages on their way and of those rild was told.  *)
LEMMA PlacesTyped ==
  ASSUME TypeOK
  PROVE  /\ \A i \in DOMAIN fromModem : i \in Nat \ {0} /\ fromModem[i] \in FromModem
         /\ \A i : IncomingAt(fromModem, i) => fromModem[i].msg \in Message
         /\ \A k \in DOMAIN pending : /\ k \in Nat \ {0} /\ pending[k].msg \in Message
                                      /\ pending[k].alone \in BOOLEAN
         /\ \A m \in Message : m.n \in Nat
         /\ come \in Nat
<1>1. \A i \in DOMAIN fromModem : i \in Nat \ {0} /\ fromModem[i] \in FromModem
  BY ElementOfSeq, LenProperties DEF TypeOK
<1>2. \A i : IncomingAt(fromModem, i) => fromModem[i].msg \in Message
  BY <1>1 DEF IncomingAt, FromModem
<1>3. \A k \in DOMAIN pending : k \in Nat \ {0} /\ pending[k] \in [msg : Message, alone : BOOLEAN]
  <2> DEFINE R == [msg : Message, alone : BOOLEAN]
  <2>1. pending \in Seq(R) BY DEF TypeOK
  <2> HIDE DEF R
  <2>2. \A k \in DOMAIN pending : k \in Nat \ {0} /\ pending[k] \in R
    BY <2>1, ElementOfSeq, LenProperties
  <2> QED BY <2>2 DEF R
<1>4. \A m \in Message : m.n \in Nat BY SmsBoundsAssumption DEF Message
<1>5. come \in Nat BY SmsBoundsAssumption DEF TypeOK
<1> QED BY <1>1, <1>2, <1>3, <1>4, <1>5

(* Every step keeps the messages in their order.                           *)
LEMMA NumberedStep ==
  ASSUME IInv, Numbered, [Next]_vars
  PROVE  Numbered'
<1> DEFINE f == fromModem
<1>0. /\ f \in Seq(FromModem) /\ pending \in Seq([msg : Message, alone : BOOLEAN])
      /\ TypeOK /\ come \in Nat
  BY SmsBoundsAssumption DEF IInv, TypeOK
(* It is enough that those on their way were so already, in that order.   *)
<1>1. ASSUME come' = come, NEW by \in {0, 1},
             \A i : IncomingAt(f', i) =>
               i \in Nat /\ IncomingAt(f, i + by) /\ f'[i].msg = f[i + by].msg,
             NEW on \in {0, 1},
             \A k \in DOMAIN pending' :
               /\ k \in Nat \ {0} /\ k + on \in DOMAIN pending
               /\ pending'[k] = pending[k + on]
      PROVE  Numbered'
  <2>1. \A i : IncomingAt(f', i) => f'[i].msg.n <= come' BY <1>1 DEF Numbered
  <2>2. \A i, j : IncomingAt(f', i) /\ IncomingAt(f', j) /\ i < j => f'[i].msg.n < f'[j].msg.n
    <3> SUFFICES ASSUME NEW i, NEW j, IncomingAt(f', i), IncomingAt(f', j), i < j
                 PROVE  f'[i].msg.n < f'[j].msg.n
      OBVIOUS
    <3>1. i \in Nat /\ j \in Nat /\ i + by < j + by BY <1>1
    <3> QED BY <1>1, <3>1 DEF Numbered
  <2>3. \A k \in DOMAIN pending' : \A i : IncomingAt(f', i) => pending'[k].msg.n < f'[i].msg.n
    BY <1>1 DEF Numbered
  <2>4. \A k \in DOMAIN pending' : pending'[k].msg.n <= come' /\ (k # 1 => ~ pending'[k].alone)
    <3>1. \A k \in DOMAIN pending' : k # 1 => k + on # 1 BY <1>1
    <3> QED BY <1>1, <3>1 DEF Numbered
  <2> QED BY <2>1, <2>2, <2>3, <2>4 DEF Numbered
<1>2. \A k \in DOMAIN pending : k \in Nat \ {0} /\ k + 0 = k BY <1>0, PlacesTyped
<1>3. \A i : IncomingAt(f, i) => i \in Nat /\ i + 0 = i BY <1>0, PlacesTyped DEF IncomingAt
<1>4. f # <<>> => \A i : IncomingAt(Tail(f), i) =>
                     i \in Nat \ {0} /\ IncomingAt(f, i + 1) /\ Tail(f)[i].msg = f[i + 1].msg
  BY <1>0, TailPlaces DEF IncomingAt
<1>5. ASSUME NEW verdict \in Verdict, ril_request_sms_acknowledge(verdict) PROVE Numbered'
  <2>1. pending # <<>> /\ pending' = Tail(pending) /\ UNCHANGED <<fromModem, come>>
    BY <1>5 DEF ril_request_sms_acknowledge
  <2>2. \A k \in DOMAIN pending' : /\ k \in Nat \ {0} /\ k + 1 \in DOMAIN pending
                                   /\ pending'[k] = pending[k + 1]
    BY <1>0, <2>1, TailPlaces
  <2>3. \A i : IncomingAt(f', i) => i \in Nat /\ IncomingAt(f, i + 0) /\ f'[i].msg = f[i + 0].msg
    BY <1>3, <2>1
  <2> QED BY <1>1, <2>1, <2>2, <2>3
<1>6. CASE RadioPowerOff
  <2>1. \A i : IncomingAt(f', i) => IncomingAt(f, i) /\ f'[i].msg = f[i].msg
    BY <1>0, <1>6, OffComing
  <2>2. UNCHANGED <<come, pending>> BY <1>6 DEF RadioPowerOff, rild
  <2>3. \A i : IncomingAt(f', i) => i \in Nat /\ IncomingAt(f, i + 0) /\ f'[i].msg = f[i + 0].msg
    BY <1>3, <2>1
  <2>4. \A k \in DOMAIN pending' : /\ k \in Nat \ {0} /\ k + 0 \in DOMAIN pending
                                   /\ pending'[k] = pending[k + 0]
    BY <1>2, <2>2
  <2> QED BY <1>1, <2>2, <2>3, <2>4
<1>7. CASE Receive
  <2>1. f # <<>> /\ f' = Tail(f) /\ UNCHANGED come BY <1>7 DEF Receive
  <2>2. \A i : IncomingAt(f', i) => i \in Nat /\ IncomingAt(f, i + 1) /\ f'[i].msg = f[i + 1].msg
    BY <1>4, <2>1
  <2>3. CASE pending' = pending
    <3>1. \A k \in DOMAIN pending' : /\ k \in Nat \ {0} /\ k + 0 \in DOMAIN pending
                                     /\ pending'[k] = pending[k + 0]
      BY <1>2, <2>3
    <3> QED BY <1>1, <2>1, <2>2, <3>1
  <2>4. CASE /\ Head(f).what = "INCOMING"
             /\ pending' = Append(pending, [msg |-> Head(f).msg, alone |-> pending = <<>>])
    <3> DEFINE m == Head(f).msg
               x == [msg |-> m, alone |-> pending = <<>>]
    <3>1. 1 \in DOMAIN f /\ Head(f) = f[1] BY <1>0, <2>1, TailPlaces
    <3>2. IncomingAt(f, 1) /\ f[1].msg = m BY <2>4, <3>1 DEF IncomingAt
    <3>3. m \in Message BY <1>0, <3>2, PlacesTyped
    <3>4. x \in [msg : Message, alone : BOOLEAN] BY <3>3
    <3>5. /\ \A k \in DOMAIN pending' : \/ k \in DOMAIN pending /\ pending'[k] = pending[k]
                                        \/ k = Len(pending) + 1 /\ pending'[k] = x
          /\ Len(pending) \in Nat
      BY <1>0, <2>4, <3>4, AppendPlaces, LenProperties
    <3>6. x.msg = m /\ (Len(pending) # 0 => ~ x.alone) BY <1>0, EmptySeq
    <3> HIDE DEF x, m
    <3>7. \A i : IncomingAt(f', i) => /\ i \in Nat \ {0} /\ IncomingAt(f, i + 1) /\ 1 < i + 1
                                      /\ f'[i].msg = f[i + 1].msg
      <4>1. \A i \in Nat \ {0} : 1 < i + 1 OBVIOUS
      <4> QED BY <1>4, <2>1, <4>1
    <3>8. \A i : IncomingAt(f', i) => f'[i].msg.n <= come' BY <2>1, <3>7 DEF Numbered
    <3>9. \A i, j : IncomingAt(f', i) /\ IncomingAt(f', j) /\ i < j => f'[i].msg.n < f'[j].msg.n
      <4> SUFFICES ASSUME NEW i, NEW j, IncomingAt(f', i), IncomingAt(f', j), i < j
                   PROVE  f'[i].msg.n < f'[j].msg.n
        OBVIOUS
      <4>1. i + 1 < j + 1 BY <3>7
      <4> QED BY <3>7, <4>1 DEF Numbered
    <3>10. \A k \in DOMAIN pending' : \A i : IncomingAt(f', i) => pending'[k].msg.n < f'[i].msg.n
      <4>1. \A i : IncomingAt(f', i) => m.n < f'[i].msg.n BY <3>2, <3>7 DEF Numbered
      <4> QED BY <3>5, <3>6, <3>7, <4>1 DEF Numbered
    <3>11. \A k \in DOMAIN pending' : pending'[k].msg.n <= come' /\ (k # 1 => ~ pending'[k].alone)
      <4>1. m.n <= come BY <3>2 DEF Numbered
      <4> QED BY <2>1, <3>5, <3>6, <4>1 DEF Numbered
    <3> QED BY <3>8, <3>9, <3>10, <3>11 DEF Numbered
  <2> QED BY <1>7, <2>3, <2>4
       DEF Receive, ipc_sms_incoming_msg, ipc_sms_deliver_report, rild
<1>8. CASE Deliver
  <2>1. PICK tpid \in FreshTpids, type \in Types :
          LET m == [n |-> come + 1, tpid |-> tpid, type |-> type]
          IN  f' = Append(f, [what |-> "INCOMING", msg |-> m])
    BY <1>8 DEF Deliver
  <2> DEFINE m == [n |-> come + 1, tpid |-> tpid, type |-> type]
             x == [what |-> "INCOMING", msg |-> m]
  <2>2. come' = come + 1 /\ pending' = pending /\ come + 1 \in 1 .. MaxMessages
    BY <1>8, SmsBoundsAssumption DEF Deliver, rild, IInv, TypeOK
  <2>3. m \in Message BY <2>1, <2>2 DEF Message, FreshTpids
  <2>4. x \in FromModem /\ x.msg = m /\ m.n = come + 1 BY <2>3 DEF FromModem
  <2>5. f' = Append(f, x) BY <2>1
  <2> HIDE DEF x, m
  <2>6. /\ \A i \in DOMAIN f' : \/ i \in DOMAIN f /\ f'[i] = f[i] /\ i < Len(f) + 1
                                \/ i = Len(f) + 1 /\ f'[i] = x
        /\ Len(f) \in Nat
    BY <1>0, <2>4, <2>5, AppendPlaces, LenProperties
  <2>7. \A i : IncomingAt(f', i) =>
          \/ IncomingAt(f, i) /\ f'[i].msg = f[i].msg /\ i < Len(f) + 1
          \/ i = Len(f) + 1 /\ f'[i].msg = m
    BY <2>4, <2>6 DEF IncomingAt
  <2>8. \A i : IncomingAt(f, i) => f[i].msg.n \in Nat /\ f[i].msg.n <= come /\ i \in Nat
    BY <1>0, PlacesTyped DEF Numbered, IncomingAt
  <2>9. \A k \in DOMAIN pending : pending[k].msg.n \in Nat /\ pending[k].msg.n <= come
    BY <1>0, PlacesTyped DEF Numbered
  <2>10. \A i : IncomingAt(f', i) => f'[i].msg.n <= come'
    <3> SUFFICES ASSUME NEW i, IncomingAt(f', i) PROVE f'[i].msg.n <= come'
      OBVIOUS
    <3>1. CASE IncomingAt(f, i) /\ f'[i].msg = f[i].msg BY <1>0, <2>2, <2>8, <3>1
    <3>2. CASE f'[i].msg = m BY <1>0, <2>2, <2>4, <3>2
    <3> QED BY <2>7, <3>1, <3>2
  <2>11. \A i, j : IncomingAt(f', i) /\ IncomingAt(f', j) /\ i < j => f'[i].msg.n < f'[j].msg.n
    <3> SUFFICES ASSUME NEW i, NEW j, IncomingAt(f', i), IncomingAt(f', j), i < j
                 PROVE  f'[i].msg.n < f'[j].msg.n
      OBVIOUS
    <3>1. i # Len(f) + 1 BY <2>6, <2>7, <2>8
    <3>2. IncomingAt(f, i) /\ f'[i].msg = f[i].msg BY <2>7, <3>1
    <3>3. CASE IncomingAt(f, j) /\ f'[j].msg = f[j].msg BY <3>2, <3>3 DEF Numbered
    <3>4. CASE f'[j].msg = m BY <1>0, <2>4, <2>8, <3>2, <3>4
    <3> QED BY <2>7, <3>3, <3>4
  <2>12. \A k \in DOMAIN pending' : \A i : IncomingAt(f', i) => pending'[k].msg.n < f'[i].msg.n
    <3> SUFFICES ASSUME NEW k \in DOMAIN pending', NEW i, IncomingAt(f', i)
                 PROVE  pending'[k].msg.n < f'[i].msg.n
      OBVIOUS
    <3>1. CASE IncomingAt(f, i) /\ f'[i].msg = f[i].msg BY <2>2, <3>1 DEF Numbered
    <3>2. CASE f'[i].msg = m BY <1>0, <2>2, <2>4, <2>9, <3>2
    <3> QED BY <2>7, <3>1, <3>2
  <2>13. \A k \in DOMAIN pending' : pending'[k].msg.n <= come' /\ (k # 1 => ~ pending'[k].alone)
    BY <1>0, <2>2, <2>9 DEF Numbered
  <2> QED BY <2>10, <2>11, <2>12, <2>13 DEF Numbered
<1>9. CASE Serve
  <2>1. UNCHANGED <<come, pending>> BY <1>9 DEF Serve, rild
  <2>2. \A i : IncomingAt(f', i) => IncomingAt(f, i) /\ f'[i].msg = f[i].msg
    BY <1>9, ServeComing DEF IInv
  <2>3. \A i : IncomingAt(f', i) => i \in Nat /\ IncomingAt(f, i + 0) /\ f'[i].msg = f[i + 0].msg
    BY <1>3, <2>2
  <2>4. \A k \in DOMAIN pending' : /\ k \in Nat \ {0} /\ k + 0 \in DOMAIN pending
                                   /\ pending'[k] = pending[k + 0]
    BY <1>2, <2>1
  <2> QED BY <1>1, <2>1, <2>3, <2>4
<1>10. CASE ClientFails
  <2>1. UNCHANGED <<come, pending>> /\ f' = <<>> BY <1>10 DEF ClientFails, rild
  <2>2. \A i : ~ IncomingAt(f', i) BY <2>1 DEF IncomingAt
  <2> QED BY <2>1, <2>2 DEF Numbered
<1>11. CASE UNCHANGED vars BY <1>11 DEF vars, rild, Numbered
<1> QED BY <1>5, <1>6, <1>7, <1>8, <1>9, <1>10, <1>11 DEF Next

(* What keeps the queue and rild keeps OnTop, if no message is gone.       *)
LEMMA OnTopKept ==
  ASSUME TypeOK, OnTop, UNCHANGED <<ipc_sms_tpid_queue, pending, failures>>,
         come' \in Nat, come <= come',
         \A i : IncomingAt(fromModem', i) /\ fromModem'[i].msg.n <= come =>
           \E j : IncomingAt(fromModem, j) /\ fromModem[j].msg.n = fromModem'[i].msg.n
  PROVE  OnTop'
<1>1. ASSUME Len(pending) = 1, Latest(pending[1].msg)' PROVE Latest(pending[1].msg)
  <2> DEFINE m == pending[1].msg
  <2>0. UNCHANGED m OBVIOUS
  <2>1. m.n \in Nat /\ come \in Nat
    <3>1. 1 \in DOMAIN pending BY <1>1, LenProperties DEF TypeOK
    <3> QED BY <3>1, PlacesTyped
  <2> HIDE DEF m
  <2>2. \A n \in m.n + 1 .. come' :
          \E i \in DOMAIN fromModem' : fromModem'[i].what = "INCOMING" /\ fromModem'[i].msg.n = n
    BY <1>1, <2>0 DEF Latest, m
  <2>3. ASSUME NEW n \in m.n + 1 .. come
        PROVE  \E i \in DOMAIN fromModem : fromModem[i].what = "INCOMING" /\ fromModem[i].msg.n = n
    <3>1. n \in m.n + 1 .. come' /\ n <= come BY <2>1, <2>3
    <3>2. PICK i : IncomingAt(fromModem', i) /\ fromModem'[i].msg.n = n
      BY <2>2, <3>1 DEF IncomingAt
    <3> QED BY <3>1, <3>2 DEF IncomingAt
  <2> QED BY <2>3 DEF Latest, m
<1> QED BY <1>1 DEF OnTop

(* Every step keeps the tpid of a message that came alone on top.          *)
LEMMA OnTopStep ==
  ASSUME IInv, Numbered, OnTop, [Next]_vars
  PROVE  OnTop'
<1> DEFINE q == ipc_sms_tpid_queue
           f == fromModem
<1>0. /\ f \in Seq(FromModem) /\ pending \in Seq([msg : Message, alone : BOOLEAN])
      /\ TypeOK /\ come \in Nat /\ failures \in Nat
  BY SmsBoundsAssumption DEF IInv, TypeOK
<1>1. ASSUME NEW verdict \in Verdict, ril_request_sms_acknowledge(verdict) PROVE OnTop'
  <2>1. pending # <<>> /\ pending' = Tail(pending) BY <1>1 DEF ril_request_sms_acknowledge
  <2>2. \A k \in DOMAIN pending' : /\ k \in Nat \ {0} /\ k + 1 \in DOMAIN pending
                                   /\ pending'[k] = pending[k + 1]
    BY <1>0, <2>1, TailPlaces
  <2>3. \A k \in DOMAIN pending' : ~ pending'[k].alone BY <2>2 DEF Numbered
  <2>4. pending' \in Seq([msg : Message, alone : BOOLEAN]) BY <1>0, <2>1, HeadTailProperties
  <2>5. Len(pending') = 1 => 1 \in DOMAIN pending' BY <2>4, LenProperties
  <2> QED BY <2>3, <2>5 DEF OnTop
<1>2. CASE RadioPowerOff
  <2>1. Used(q') = {} BY <1>2 DEF RadioPowerOff, Used, ipc_sms_tpid_queue_init
  <2> QED BY <2>1 DEF OnTop
<1>3. CASE Receive
  <2>1. f # <<>> /\ f' = Tail(f) /\ UNCHANGED <<come, failures>> BY <1>3 DEF Receive
  <2>2. \A i : IncomingAt(f', i) => /\ i \in Nat \ {0} /\ IncomingAt(f, i + 1)
                                   /\ f'[i].msg = f[i + 1].msg
    BY <1>0, <2>1, TailPlaces DEF IncomingAt
  <2>3. CASE q' = q /\ pending' = pending
    <3>1. come' \in Nat /\ come <= come' BY <1>0, <2>1
    <3>2. \A i : IncomingAt(f', i) /\ f'[i].msg.n <= come =>
            \E j : IncomingAt(f, j) /\ f[j].msg.n = f'[i].msg.n
      BY <2>2
    <3> QED BY <1>0, <2>1, <2>3, <3>1, <3>2, OnTopKept
  <2>4. CASE Head(f).what = "INCOMING" /\ ipc_sms_incoming_msg(Head(f).msg)
    <3> DEFINE m == Head(f).msg
               x == [msg |-> m, alone |-> pending = <<>>]
    <3>1. 1 \in DOMAIN f /\ Head(f) = f[1] BY <1>0, <2>1, TailPlaces
    <3>2. IncomingAt(f, 1) /\ f[1].msg = m BY <2>4, <3>1 DEF IncomingAt
    <3>3. m \in Message /\ m.n \in Nat BY <1>0, <3>2, PlacesTyped
    <3>4. CASE pending' = Append(pending, x)
      <4>1. x \in [msg : Message, alone : BOOLEAN] BY <3>3
      <4>2. Len(pending) \in Nat BY <1>0, LenProperties
      <4>3. /\ \A k \in DOMAIN pending' : \/ k \in DOMAIN pending /\ pending'[k] = pending[k]
                                          \/ k = Len(pending) + 1 /\ pending'[k] = x
            /\ Len(pending') = Len(pending) + 1 /\ pending'[Len(pending) + 1] = x
        BY <1>0, <3>4, <4>1, AppendPlaces, AppendProperties
      <4>4. Len(pending') = 1 => pending'[1].msg = m
        <5>1. x.msg = m OBVIOUS
        <5>2. Len(pending') = 1 => Len(pending) + 1 = 1 BY <4>2, <4>3
        <5> HIDE DEF x, m
        <5> QED BY <4>3, <5>1, <5>2
      <4>5. PICK k \in 0 .. N : UsedUpTo(q, k) BY QueueOf
      <4> DEFINE j == IF k < N THEN k ELSE N - 1
      <4>6. m.tpid \in Tpid BY <3>3 DEF Message, Tpid
      <4>7. /\ q' \in Queue /\ j \in 0 .. N - 1
            /\ \A i \in 1 .. j : q'[i] = IF k < N THEN q[i] ELSE q[i + 1]
            /\ q'[j + 1] = m.tpid
            /\ \A i \in Place : i > j + 1 => q'[i] = Free
        BY <2>4, <4>5, <4>6, QueueOf, AddingPlaces DEF ipc_sms_incoming_msg
      <4>8. m.tpid # 0 => q'[ipc_sms_tpid_queue_get_next(q')] = m.tpid
        <5> SUFFICES ASSUME m.tpid # 0 PROVE q'[ipc_sms_tpid_queue_get_next(q')] = m.tpid
          OBVIOUS
        <5>1. j + 1 \in 0 .. N BY <4>7
        <5>2. UsedUpTo(q', j + 1) BY <4>5, <4>7 DEF UsedUpTo, Place, Queue, Free
        <5>3. ipc_sms_tpid_queue_get_next(q') = j + 1 BY <4>7, <5>1, <5>2, StackedIs
        <5> QED BY <4>7, <5>3
      <4> HIDE DEF m
      <4> QED BY <4>4, <4>8 DEF OnTop
    (* rild is not told: a later message has reached the driver.           *)
    <3>5. CASE pending' = pending
      <4>1. ASSUME Len(pending) = 1 PROVE ~ Latest(pending[1].msg)'
        <5>1. 1 \in DOMAIN pending BY <1>0, <4>1, LenProperties
        <5>2. pending[1].msg.n \in Nat /\ pending[1].msg.n < m.n /\ m.n <= come
          BY <1>0, <3>2, <5>1, PlacesTyped DEF Numbered
        <5>3. m.n \in pending[1].msg.n + 1 .. come BY <1>0, <3>3, <5>2
        <5>4. \A i : IncomingAt(f', i) => f'[i].msg.n \in Nat /\ m.n < f'[i].msg.n
          <6> SUFFICES ASSUME NEW i, IncomingAt(f', i)
                       PROVE  f'[i].msg.n \in Nat /\ m.n < f'[i].msg.n
            OBVIOUS
          <6>1. 1 < i + 1 /\ IncomingAt(f, i + 1) /\ f'[i].msg = f[i + 1].msg BY <2>2
          <6> QED BY <1>0, <3>2, <6>1, PlacesTyped DEF Numbered
        <5>5. \A i : IncomingAt(f', i) => f'[i].msg.n # m.n BY <3>3, <5>4
        <5> HIDE DEF m
        <5> QED BY <2>1, <3>5, <5>3, <5>5 DEF Latest, IncomingAt
      <4> QED BY <3>5, <4>1 DEF OnTop
    <3> QED BY <2>4, <3>4, <3>5 DEF ipc_sms_incoming_msg
  <2> QED BY <1>3, <2>3, <2>4 DEF Receive, ipc_sms_deliver_report, rild
<1>4. CASE Deliver
  <2>1. PICK tpid \in FreshTpids, type \in Types :
          LET m == [n |-> come + 1, tpid |-> tpid, type |-> type]
          IN  f' = Append(f, [what |-> "INCOMING", msg |-> m])
    BY <1>4 DEF Deliver
  <2> DEFINE m == [n |-> come + 1, tpid |-> tpid, type |-> type]
             x == [what |-> "INCOMING", msg |-> m]
  <2>2. come' = come + 1 /\ UNCHANGED <<q, pending, failures>> /\ come + 1 \in 1 .. MaxMessages
    BY <1>4, SmsBoundsAssumption DEF Deliver, rild, IInv, TypeOK
  <2>3. m \in Message BY <2>1, <2>2 DEF Message, FreshTpids
  <2>4. x \in FromModem /\ x.msg = m /\ m.n = come + 1 BY <2>3 DEF FromModem
  <2>5. f' = Append(f, x) BY <2>1
  <2> HIDE DEF x, m
  <2>6. \A i \in DOMAIN f' : (i \in DOMAIN f /\ f'[i] = f[i]) \/ f'[i] = x
    BY <1>0, <2>4, <2>5, AppendPlaces
  <2>7. \A i : IncomingAt(f', i) => (IncomingAt(f, i) /\ f'[i].msg = f[i].msg) \/ f'[i].msg.n = come + 1
    BY <2>4, <2>6 DEF IncomingAt
  <2>8. \A i : IncomingAt(f', i) /\ f'[i].msg.n <= come => IncomingAt(f, i) /\ f'[i].msg = f[i].msg
    BY <1>0, <2>7
  <2>9. come' \in Nat /\ come <= come' BY <1>0, <2>2
  <2> QED BY <1>0, <2>2, <2>8, <2>9, OnTopKept
<1>5. CASE Serve
  <2>1. UNCHANGED <<come, pending, q, failures>> BY <1>5 DEF Serve, rild
  <2>2. \A i : IncomingAt(f', i) => IncomingAt(f, i) /\ f'[i].msg = f[i].msg
    BY <1>5, ServeComing DEF IInv
  <2> QED BY <1>0, <2>1, <2>2, OnTopKept
<1>6. CASE ClientFails
  <2>1. failures' # 0 BY <1>0, <1>6 DEF ClientFails
  <2> QED BY <2>1 DEF OnTop
<1>7. CASE UNCHANGED vars
  <2>1. UNCHANGED <<come, pending, q, failures, f>> BY <1>7 DEF vars, rild
  <2> QED BY <1>0, <2>1, OnTopKept DEF IncomingAt
<1> QED BY <1>1, <1>2, <1>3, <1>4, <1>5, <1>6, <1>7 DEF Next

(* The messages are always so.                                             *)
LEMMA OnTopAlways == Spec => [](Numbered /\ OnTop)
<1>1. Init => Numbered /\ OnTop
  <2> SUFFICES ASSUME Init PROVE Numbered /\ OnTop OBVIOUS
  <2>1. Len(pending) = 0 /\ DOMAIN pending = {} BY EmptySeq DEF Init
  <2>2. \A i : ~ IncomingAt(fromModem, i) BY DEF Init, IncomingAt
  <2> QED BY <2>1, <2>2 DEF Numbered, OnTop
<1>2. IInv /\ (Numbered /\ OnTop) /\ [Next]_vars => (Numbered /\ OnTop)'
  BY NumberedStep, OnTopStep
<1> QED BY <1>1, <1>2, QueueTyped, PTL DEF Spec

(* A message that comes when rild has acknowledged all others, and that it *)
(* acknowledges before the next one reaches the driver, is reported under  *)
(* its own tpid, or the acknowledgement fails (the queue was cleared): the *)
(* array knows nothing of messages and still gives the right one.  So for  *)
(* any messages, in any order and of any type, the driver keeps no tpid of *)
(* a message that rild was not told above that of the one it answers.      *)
THEOREM AloneReportedAsItself == Spec => OwnReport
<1> DEFINE q == ipc_sms_tpid_queue
           Own(p) == /\ Len(acks') > Len(acks) /\ pending = <<p>> /\ p.alone
                     /\ failures = 0 /\ Latest(p.msg) /\ p.msg.tpid # 0
                     => \/ Last(acks') = "GENERIC_FAILURE"
                        \/ Last(toModem').tpid = p.msg.tpid /\ Last(toModem').token = Len(acks')
<1>1. ASSUME IInv, OnTop, [Next]_vars PROVE \A p \in ToSet(pending) : Own(p)
  <2> SUFFICES ASSUME NEW p, Len(acks') > Len(acks), pending = <<p>>, p.alone,
                      failures = 0, Latest(p.msg), p.msg.tpid # 0
               PROVE  \/ Last(acks') = "GENERIC_FAILURE"
                      \/ Last(toModem').tpid = p.msg.tpid /\ Last(toModem').token = Len(acks')
    OBVIOUS
  <2> DEFINE A == {"none", "SUCCESS", "GENERIC_FAILURE"}
             id == ipc_sms_tpid_queue_get_next(q)
             r(verdict) == [tpid |-> q[id], verdict |-> verdict, token |-> Len(acks) + 1]
  <2>1. acks \in Seq(A) /\ Len(acks) \in Nat /\ toModem \in Seq(Report)
    BY <1>1, LenProperties DEF IInv, TypeOK
  <2>2. PICK verdict \in Verdict : ril_request_sms_acknowledge(verdict)
    <3>1. acks' # acks BY <2>1
    <3>2. CASE Receive
      <4>1. PICK t, e : acks' = [acks EXCEPT ![t] = e]
        BY <3>1, <3>2 DEF Receive, ipc_sms_incoming_msg, ipc_sms_deliver_report, Answered, rild
      <4>2. Len(acks') = Len(acks) BY <2>1, <4>1, LenProperties
      <4> QED BY <2>1, <4>2
    <3> QED BY <1>1, <3>1, <3>2 DEF Next, vars, rild, RadioPowerOff, Deliver, Serve, ClientFails
  <2>3. CASE id = 0
    <3>1. acks' = Append(acks, "GENERIC_FAILURE")
      BY <2>2, <2>3 DEF ril_request_sms_acknowledge
    <3> QED BY <2>1, <3>1, AppendProperties DEF Last
  <2>4. CASE id # 0
    <3>1. /\ acks' = Append(acks, "none")
          /\ toModem' = Append(toModem, r(verdict))
      BY <2>2, <2>4 DEF ril_request_sms_acknowledge
    <3>2. Len(acks') = Len(acks) + 1 BY <2>1, <3>1, AppendProperties
    <3>3. Used(q) # {} BY <2>4 DEF ipc_sms_tpid_queue_get_next
    <3>4. Len(pending) = 1 /\ pending[1] = p OBVIOUS
    <3>5. q[id] = p.msg.tpid BY <1>1, <3>3, <3>4 DEF OnTop
    <3>6. PICK k \in 0 .. N : UsedUpTo(q, k) BY <1>1, QueueOf
    <3>7. r(verdict) \in Report
      <4>1. q \in Queue /\ id = k BY <1>1, <3>6, QueueOf, StackedIs
      <4>2. k \in Place /\ q[k] # Free BY <2>4, <3>6, <4>1 DEF UsedUpTo, Place
      <4> QED BY <2>1, <4>1, <4>2 DEF Report, Queue, Tpid
    <3> HIDE DEF r
    <3>8. Last(toModem') = r(verdict) BY <2>1, <3>1, <3>7, AppendProperties DEF Last
    <3>9. r(verdict).tpid = q[id] /\ r(verdict).token = Len(acks) + 1 BY DEF r
    <3> QED BY <3>2, <3>5, <3>8, <3>9
  <2> QED BY <2>3, <2>4
<1>2. IInv /\ OnTop /\ [Next]_vars => [\A p \in ToSet(pending) : Own(p)]_vars
  BY <1>1
<1> QED BY <1>2, QueueTyped, OnTopAlways, PTL DEF Spec, OwnReport

=============================================================================
