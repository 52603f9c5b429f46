------------------------ MODULE NetRegistrationProofs ------------------------
(***************************************************************************)
(* Theorems about NetRegistration, for any tokens, any number of changes   *)
(* in the modem, of requests of rild and of times the radio is switched    *)
(* off.                                                                    *)
(***************************************************************************)
EXTENDS NetRegistration, SequenceTheorems, TLAPS

USE MarksAssumption, ChangesAssumption, BoundsAssumption

(* What the two directions carry.                                          *)
MaybeToken == Token \cup {NoToken}
ToModem    == [what : {"GET", "NORMAL", "LPM"}, kind : Kind, token : MaybeToken]
FromModem  == [type : {"NOTI", "RESP", "NORMAL"}, kind : Kind, token : MaybeToken, data : Data]

-----------------------------------------------------------------------------
(* Sequences, place by place.                                              *)

(* The first message of a line, and the places of the others.              *)
LEMMA TailPlaces ==
  ASSUME NEW S, NEW s \in Seq(S), s # <<>>
  PROVE  /\ Tail(s) \in Seq(S) /\ Head(s) \in S
         /\ 1 \in DOMAIN s /\ Head(s) = s[1]
         /\ Len(Tail(s)) = Len(s) - 1 /\ Len(s) \in Nat \ {0}
         /\ \A i \in DOMAIN Tail(s) : i \in Nat \ {0} /\ i + 1 \in DOMAIN s /\ Tail(s)[i] = s[i + 1]
         /\ \A i \in DOMAIN s : /\ i \in Nat \ {0} /\ i <= Len(s)
                                /\ i # 1 => i - 1 \in DOMAIN Tail(s) /\ Tail(s)[i - 1] = s[i]
<1>1. /\ Tail(s) \in Seq(S) /\ Head(s) \in S /\ Head(s) = s[1]
      /\ Len(Tail(s)) = Len(s) - 1
      /\ \A i \in 1 .. Len(Tail(s)) : Tail(s)[i] = s[i + 1]
  BY HeadTailProperties
<1>2. /\ Len(s) \in Nat /\ Len(s) # 0 /\ DOMAIN s = 1 .. Len(s)
      /\ DOMAIN Tail(s) = 1 .. Len(Tail(s))
  BY <1>1, LenProperties, EmptySeq
<1> QED BY <1>1, <1>2

(* A message at the end of a line, and the places of the others.           *)
LEMMA AppendPlaces ==
  ASSUME NEW S, NEW s \in Seq(S), NEW x \in S
  PROVE  /\ Append(s, x) \in Seq(S)
         /\ Len(s) + 1 \in DOMAIN Append(s, x) /\ Append(s, x)[Len(s) + 1] = x
         /\ Len(Append(s, x)) = Len(s) + 1 /\ Len(s) \in Nat
         /\ \A i \in DOMAIN s : i \in Nat \ {0} /\ i < Len(s) + 1
         /\ \A i \in DOMAIN Append(s, x) :
              \/ i \in DOMAIN s /\ Append(s, x)[i] = s[i]
              \/ i = Len(s) + 1
         /\ \A i \in DOMAIN s : i \in DOMAIN Append(s, x) /\ Append(s, x)[i] = s[i]
BY AppendProperties, LenProperties

(* The radio is switched off: every message keeps its place, and all but   *)
(* its token.                                                              *)
Forgotten(s) == [i \in DOMAIN s |-> [s[i] EXCEPT !.token = NoToken]]

(* A line to the modem keeps its messages when their tokens are forgotten. *)
LEMMA ForgottenTo ==
  ASSUME NEW s \in Seq(ToModem)
  PROVE  /\ Forgotten(s) \in Seq(ToModem) /\ DOMAIN Forgotten(s) = DOMAIN s
         /\ \A i \in DOMAIN s : /\ s[i] \in ToModem
                                /\ Forgotten(s)[i].token = NoToken
                                /\ Forgotten(s)[i].what = s[i].what
                                /\ Forgotten(s)[i].kind = s[i].kind
<1>1. Len(s) \in Nat /\ DOMAIN s = 1 .. Len(s) /\ \A i \in DOMAIN s : s[i] \in ToModem
  BY ElementOfSeq, LenProperties
<1>2. \A m \in ToModem : /\ [m EXCEPT !.token = NoToken] \in ToModem
                         /\ [m EXCEPT !.token = NoToken].token = NoToken
                         /\ [m EXCEPT !.token = NoToken].what = m.what
                         /\ [m EXCEPT !.token = NoToken].kind = m.kind
  BY DEF ToModem, MaybeToken
<1>3. Forgotten(s) \in [1 .. Len(s) -> ToModem] BY <1>1, <1>2 DEF Forgotten
<1>4. Forgotten(s) \in Seq(ToModem) BY <1>1, <1>3, SeqDef
<1> QED BY <1>1, <1>2, <1>4 DEF Forgotten

(* And so does the line from the modem.                                    *)
LEMMA ForgottenFrom ==
  ASSUME NEW s \in Seq(FromModem)
  PROVE  /\ Forgotten(s) \in Seq(FromModem) /\ DOMAIN Forgotten(s) = DOMAIN s
         /\ \A i \in DOMAIN s : /\ s[i] \in FromModem
                                /\ Forgotten(s)[i].token = NoToken
                                /\ Forgotten(s)[i].type = s[i].type
                                /\ Forgotten(s)[i].kind = s[i].kind
                                /\ Forgotten(s)[i].data = s[i].data
<1>1. Len(s) \in Nat /\ DOMAIN s = 1 .. Len(s) /\ \A i \in DOMAIN s : s[i] \in FromModem
  BY ElementOfSeq, LenProperties
<1>2. \A m \in FromModem : /\ [m EXCEPT !.token = NoToken] \in FromModem
                           /\ [m EXCEPT !.token = NoToken].token = NoToken
                           /\ [m EXCEPT !.token = NoToken].type = m.type
                           /\ [m EXCEPT !.token = NoToken].kind = m.kind
                           /\ [m EXCEPT !.token = NoToken].data = m.data
  BY DEF FromModem, MaybeToken
<1>3. Forgotten(s) \in [1 .. Len(s) -> FromModem] BY <1>1, <1>2 DEF Forgotten
<1>4. Forgotten(s) \in Seq(FromModem) BY <1>1, <1>3, SeqDef
<1> QED BY <1>1, <1>2, <1>4 DEF Forgotten

-----------------------------------------------------------------------------
(* Types.                                                                  *)

(* The messages that are sent have their types.                            *)
LEMMA MessagesTyped ==
  /\ \A k \in Kind, t \in MaybeToken : Ask(k, t) \in ToModem
  /\ Power("NORMAL") \in ToModem /\ Power("LPM") \in ToModem
  /\ \A k \in Kind, d \in Data : Noti(k, d) \in FromModem
  /\ \A k \in Kind, t \in MaybeToken, d \in Data : Resp(k, t, d) \in FromModem
  /\ PhoneState \in FromModem
BY DEF Ask, Power, Noti, Resp, PhoneState, ToModem, FromModem, MaybeToken, Kind, Data

(* What TypeOK says of the two directions.                                 *)
LEMMA QueuesTyped ==
  ASSUME TypeOK
  PROVE  toModem \in Seq(ToModem) /\ fromModem \in Seq(FromModem)
BY DEF TypeOK, ToModem, FromModem, MaybeToken

(* An answer keeps the state of rild typed.                                *)
LEMMA AnsweredTyped ==
  ASSUME TypeOK, NEW t, NEW n \in Nat, Answered(t, n)
  PROVE  open' \in [Token -> Kind \cup {"none"}] /\ answers' \in [Token -> Nat]
BY DEF TypeOK, Answered

(* Every step keeps the types.                                             *)
LEMMA TypeStep ==
  ASSUME TypeOK, [Next]_vars
  PROVE  TypeOK'
<1>0. toModem \in Seq(ToModem) /\ fromModem \in Seq(FromModem) BY QueuesTyped
<1>1. ASSUME NEW t \in Token, NEW k \in Kind, Request(t, k) PROVE TypeOK'
  <2>1. RequestState(t, k) \/ (Refuse(t, 1) /\ tokens' = [tokens EXCEPT !["PLMN"] = NoToken]
                                            /\ UNCHANGED toModem)
    BY <1>1 DEF Request, ril_request_registration_state, ril_request_gprs_registration_state,
                ril_request_operator
  <2>2. /\ told' \subseteq Kind /\ polls' \in Nat
        /\ UNCHANGED <<info, normal, fromModem, modem, on, changes, cycles>>
    BY <1>1 DEF Request, TypeOK
  <2>3. CASE AskModem(t, k)
    <3>1. toModem' \in Seq(ToModem)
      BY <1>0, <2>3, MessagesTyped, AppendPlaces DEF AskModem, MaybeToken
    <3> QED BY <2>2, <2>3, <3>1 DEF TypeOK, AskModem, ToModem, MaybeToken
  <2>4. CASE /\ Give(t, k, info[k], 1) /\ UNCHANGED toModem
             /\ tokens' = [tokens EXCEPT ![k] = IF @ = Waiting THEN NoToken ELSE @]
    <3>1. open' \in [Token -> Kind \cup {"none"}] /\ answers' \in [Token -> Nat]
      BY <2>4, AnsweredTyped DEF Give
    <3>2. view' \in [Kind -> Data] BY <2>4 DEF Give, TypeOK
    <3> QED BY <2>2, <2>4, <3>1, <3>2 DEF TypeOK
  <2>5. CASE Refuse(t, 1) /\ tokens' = [tokens EXCEPT !["PLMN"] = NoToken] /\ UNCHANGED toModem
    <3>1. open' \in [Token -> Kind \cup {"none"}] /\ answers' \in [Token -> Nat]
      BY <2>5, AnsweredTyped DEF Refuse
    <3> QED BY <2>2, <2>5, <3>1 DEF TypeOK, Refuse
  <2> QED BY <2>1, <2>3, <2>4, <2>5 DEF RequestState
<1>2. CASE Receive
  <2> DEFINE m == Head(fromModem)
  <2>1. m \in FromModem /\ fromModem' \in Seq(FromModem)
    BY <1>0, <1>2, TailPlaces DEF Receive
  <2> HIDE DEF m
  <2>2. UNCHANGED <<toModem, modem, on, changes, polls, cycles>> BY <1>2 DEF Receive
  <2>3. m.kind \in Kind /\ m.token \in MaybeToken /\ m.data \in Data BY <2>1 DEF FromModem
  <2>4. OneMore(m.token) \in Nat BY <2>3 DEF OneMore, MaybeToken, TypeOK
  <2>5. \A k \in Kind : Cleared(k) \in [Kind -> Token \cup {NoToken, Waiting}]
    BY DEF Cleared, TypeOK
  <2>6. \A k \in Kind, d \in Data : [info EXCEPT ![k] = d] \in [Kind -> Data] BY DEF TypeOK
  <2>7. "PLMN" \in Kind BY DEF Kind
  <2>8. ASSUME UNCHANGED <<tokens, told, rild, normal>>, NEW k \in Kind,
               info' = info \/ info' = [info EXCEPT ![k] = m.data]
        PROVE  TypeOK'
    <3>1. info' \in [Kind -> Data] BY <2>3, <2>6, <2>8 DEF TypeOK
    <3> QED BY <2>1, <2>2, <2>8, <3>1 DEF TypeOK, rild, FromModem, MaybeToken
  <2>9. ASSUME NEW k \in Kind, Unsol(k, m.data), UNCHANGED <<rild, normal>> PROVE TypeOK'
    <3>1. info' \in [Kind -> Data] BY <2>3, <2>6, <2>9 DEF TypeOK, Unsol
    <3> QED BY <2>1, <2>2, <2>9, <3>1 DEF TypeOK, rild, Unsol, FromModem, MaybeToken
  <2>10. ASSUME NEW k \in Kind, info' = [info EXCEPT ![k] = m.data],
                Answered(m.token, OneMore(m.token)),
                view' = view \/ view' = [view EXCEPT ![k] = IF m.token = NoToken THEN @ ELSE m.data],
                tokens' = Cleared(k), UNCHANGED <<told, normal>>
         PROVE  TypeOK'
    <3>1. open' \in [Token -> Kind \cup {"none"}] /\ answers' \in [Token -> Nat]
      BY <2>4, <2>10, AnsweredTyped
    <3>2. view' \in [Kind -> Data] BY <2>3, <2>10 DEF TypeOK
    <3>3. info' \in [Kind -> Data] BY <2>3, <2>6, <2>10
    <3>4. tokens' \in [Kind -> Token \cup {NoToken, Waiting}] BY <2>5, <2>10
    <3> QED BY <2>1, <2>2, <2>10, <3>1, <3>2, <3>3, <3>4 DEF TypeOK, FromModem, MaybeToken
  <2>11. CASE ipc_pwr_phone_state
    BY <2>1, <2>2, <2>11 DEF ipc_pwr_phone_state, TypeOK, rild, FromModem, MaybeToken
  <2>12. CASE ipc_net_regist(m) /\ UNCHANGED normal
    BY <2>3, <2>8, <2>9, <2>10, <2>12 DEF ipc_net_regist, Sol, Give
  <2>13. CASE ipc_net_current_plmn(m) /\ UNCHANGED normal
    BY <2>7, <2>8, <2>9, <2>10, <2>13 DEF ipc_net_current_plmn, Sol, Give, Refuse
  <2> QED BY <1>2, <2>11, <2>12, <2>13 DEF Receive, m
<1>3. CASE RadioOff
  <2>1. /\ toModem' = Append(Forgotten(toModem), Power("LPM"))
        /\ fromModem' = Forgotten(fromModem)
    BY <1>3 DEF RadioOff, Forgotten
  <2>2. toModem' \in Seq(ToModem) /\ fromModem' \in Seq(FromModem)
    BY <1>0, <2>1, ForgottenTo, ForgottenFrom, MessagesTyped, AppendPlaces
  <2>3. 0 \in Data BY DEF Data
  <2>4. /\ tokens' = [k \in Kind |-> NoToken] /\ info' = [k \in Kind |-> 0]
        /\ view' = [k \in Kind |-> 0] /\ answers' = [t \in Token |-> 0]
        /\ open' = [t \in Token |-> "none"]
        /\ told' = {} /\ normal' = FALSE /\ cycles' = cycles + 1
        /\ UNCHANGED <<modem, on, changes, polls>>
    BY <1>3 DEF RadioOff
  <2>5. /\ tokens' \in [Kind -> Token \cup {NoToken, Waiting}]
        /\ info' \in [Kind -> Data] /\ view' \in [Kind -> Data]
        /\ open' \in [Token -> Kind \cup {"none"}] /\ answers' \in [Token -> Nat]
    BY <2>3, <2>4
  <2>6. cycles \in Nat BY DEF TypeOK
  <2>7. cycles' \in Nat
    <3>1. cycles' = cycles + 1 BY <2>4
    <3> QED BY <2>6, <3>1
  <2> QED BY <2>2, <2>4, <2>5, <2>7 DEF TypeOK, ToModem, FromModem, MaybeToken
<1>4. CASE RadioOn
  <2>1. toModem' \in Seq(ToModem) BY <1>0, <1>4, MessagesTyped, AppendPlaces DEF RadioOn
  <2> QED BY <1>4, <2>1 DEF RadioOn, TypeOK, driver, rild, ToModem, MaybeToken
<1>5. ASSUME NEW k \in Kind, Change(k) PROVE TypeOK'
  <2>1. changes + 1 \in Data BY <1>5 DEF Change, TypeOK, Data
  <2>2. fromModem' \in Seq(FromModem)
    BY <1>0, <1>5, <2>1, MessagesTyped, AppendPlaces DEF Change
  <2> QED BY <1>5, <2>1, <2>2 DEF Change, TypeOK, driver, rild, FromModem, MaybeToken
<1>6. CASE Serve
  <2> DEFINE m == Head(toModem)
  <2>1. m \in ToModem /\ toModem' \in Seq(ToModem) BY <1>0, <1>6, TailPlaces DEF Serve
  <2>2. Resp(m.kind, m.token, modem[m.kind]) \in FromModem
    BY <2>1, MessagesTyped DEF ToModem, TypeOK
  <2>3. fromModem' \in Seq(FromModem)
    <3>1. \A x \in FromModem : Append(fromModem, x) \in Seq(FromModem) BY <1>0, AppendPlaces
    <3>2. \/ fromModem' = fromModem \/ fromModem' = Append(fromModem, PhoneState)
          \/ fromModem' = Append(fromModem, Resp(m.kind, m.token, modem[m.kind]))
      BY <1>6 DEF Serve
    <3> HIDE DEF m
    <3> QED BY <1>0, <2>2, <3>1, <3>2, MessagesTyped
  <2>4. modem' \in [Kind -> Data] /\ on' \in BOOLEAN
    <3>1. 0 \in Data BY DEF Data
    <3>2. \/ UNCHANGED modem \/ modem' = [k \in Kind |-> 0]
      BY <1>6 DEF Serve
    <3>3. on' = on \/ on' = TRUE \/ on' = FALSE BY <1>6 DEF Serve
    <3> QED BY <3>1, <3>2, <3>3 DEF TypeOK
  <2> QED BY <1>6, <2>1, <2>3, <2>4
       DEF Serve, TypeOK, driver, rild, ToModem, FromModem, MaybeToken
<1>7. CASE UNCHANGED vars BY <1>7 DEF vars, driver, rild, TypeOK
<1> QED BY <1>1, <1>2, <1>3, <1>4, <1>5, <1>6, <1>7 DEF Next

-----------------------------------------------------------------------------
(* What is under way while the radio is on, while it is off, and while it  *)
(* comes up again.                                                         *)

(* Only requests have a token, and only news have data.                    *)
Shape(o, f) ==
  /\ \A i \in DOMAIN o : o[i].what # "GET" => o[i] = Power(o[i].what)
  /\ \A i \in DOMAIN f : f[i].type = "NORMAL" => f[i] = PhoneState
  /\ \A i \in DOMAIN f : f[i].type = "NOTI" => f[i].data # 0 /\ f[i].token = NoToken

(* While the radio is on there are questions and their answers, and news.  *)
Operating(o, f) ==
  /\ \A i \in DOMAIN o : o[i].what = "GET" /\ o[i].token \in Token
  /\ \A i \in DOMAIN f : f[i].type # "NORMAL" /\ (f[i].type = "RESP" => f[i].token \in Token)

(* While it is off nothing belongs to a token, and after the order to      *)
(* switch it on, or the message that it is, there is nothing but news.     *)
Booting(o, f) ==
  /\ \A i \in DOMAIN o : /\ o[i].token = NoToken
                         /\ o[i].what = "NORMAL" => /\ i = Len(o)
                                                    /\ \A j \in DOMAIN f : f[j].type # "NORMAL"
  /\ \A i \in DOMAIN f : /\ f[i].token = NoToken
                         /\ f[i].type = "NORMAL" =>
                              o = <<>> /\ \A j \in DOMAIN f : i < j => f[j].type = "NOTI"

(* The modem has been switched off and not on again.                       *)
Down(o, f) ==
  /\ \A i \in DOMAIN o : o[i].what # "LPM"
  /\ \A i \in DOMAIN f : f[i].type # "NORMAL"

Phases ==
  /\ Shape(toModem, fromModem)
  /\ normal => Operating(toModem, fromModem)
  /\ ~ normal =>
       /\ Booting(toModem, fromModem)
       /\ \A k \in Kind : tokens[k] = NoToken
       /\ info["GSM"] = 0
       /\ Down(toModem, fromModem) => ~ on /\ modem["GSM"] = 0

(* One message is taken from the driver's queue, one is added, ...         *)
LEMMA ShapeKept ==
  ASSUME NEW o \in Seq(ToModem), NEW f \in Seq(FromModem), Shape(o, f)
  PROVE  /\ o # <<>> => Shape(Tail(o), f)
         /\ f # <<>> => Shape(o, Tail(f))
         /\ \A x \in ToModem : (x.what # "GET" => x = Power(x.what)) => Shape(Append(o, x), f)
         /\ \A x \in FromModem :
              /\ x.type = "NORMAL" => x = PhoneState
              /\ x.type = "NOTI" => x.data # 0 /\ x.token = NoToken
              => Shape(o, Append(f, x))
<1>1. o # <<>> => Shape(Tail(o), f) BY TailPlaces DEF Shape
<1>2. f # <<>> => Shape(o, Tail(f)) BY TailPlaces DEF Shape
<1>3. ASSUME NEW x \in ToModem, x.what # "GET" => x = Power(x.what)
      PROVE  Shape(Append(o, x), f)
  <2> DEFINE p == Append(o, x)
  <2>1. \A i \in DOMAIN p : (i \in DOMAIN o /\ p[i] = o[i]) \/ p[i] = x BY AppendPlaces
  <2> HIDE DEF p
  <2>2. Shape(p, f) BY <1>3, <2>1 DEF Shape
  <2> QED BY <2>2 DEF p
<1>4. ASSUME NEW x \in FromModem, x.type = "NORMAL" => x = PhoneState,
             x.type = "NOTI" => x.data # 0 /\ x.token = NoToken
      PROVE  Shape(o, Append(f, x))
  <2> DEFINE p == Append(f, x)
  <2>1. \A i \in DOMAIN p : (i \in DOMAIN f /\ p[i] = f[i]) \/ p[i] = x BY AppendPlaces
  <2> HIDE DEF p
  <2>2. Shape(o, p) BY <1>4, <2>1 DEF Shape
  <2> QED BY <2>2 DEF p
<1> QED BY <1>1, <1>2, <1>3, <1>4

(* What the modem sends.                                                   *)
LEMMA SentFields ==
  /\ \A k, t : Ask(k, t).what = "GET" /\ Ask(k, t).token = t /\ Ask(k, t).kind = k
  /\ \A w : Power(w).what = w /\ Power(w).token = NoToken
  /\ \A k, d : /\ Noti(k, d).type = "NOTI" /\ Noti(k, d).token = NoToken
               /\ Noti(k, d).kind = k /\ Noti(k, d).data = d
  /\ \A k, t, d : /\ Resp(k, t, d).type = "RESP" /\ Resp(k, t, d).token = t
                  /\ Resp(k, t, d).kind = k /\ Resp(k, t, d).data = d
  /\ /\ PhoneState.type = "NORMAL" /\ PhoneState.token = NoToken
     /\ PhoneState.kind = "GSM" /\ PhoneState.data = 0
BY DEF Ask, Power, Noti, Resp, PhoneState

(* What the modem's serving one order comes to.                            *)
LEMMA ServeIs ==
  ASSUME TypeOK, Serve
  PROVE  /\ toModem # <<>> /\ toModem' = Tail(toModem)
         /\ UNCHANGED <<driver, changes, polls, cycles, told, rild>>
         /\ Head(toModem) \in ToModem /\ Head(toModem) = toModem[1] /\ 1 \in DOMAIN toModem
         /\ \/ /\ Head(toModem).what = "GET" /\ UNCHANGED <<modem, on>>
               /\ LET m == Head(toModem)
                      x == Resp(m.kind, m.token, modem[m.kind])
                  IN  fromModem' = Append(fromModem, x) /\ x \in FromModem
            \/ /\ Head(toModem).what = "NORMAL" /\ on' = TRUE /\ UNCHANGED modem
               /\ fromModem' = Append(fromModem, PhoneState)
            \/ /\ Head(toModem).what = "LPM" /\ on' = FALSE /\ modem' = [k \in Kind |-> 0]
               /\ UNCHANGED fromModem
<1> DEFINE m == Head(toModem)
<1>1. toModem # <<>> /\ toModem' = Tail(toModem) BY DEF Serve
<1>2. m \in ToModem /\ m = toModem[1] /\ 1 \in DOMAIN toModem
  BY <1>1, QueuesTyped, TailPlaces
<1>3. Resp(m.kind, m.token, modem[m.kind]) \in FromModem
  BY <1>2, MessagesTyped DEF ToModem, TypeOK
<1> QED BY <1>1, <1>2, <1>3 DEF Serve

(* And of the driver's receiving one message.                              *)
LEMMA ReceiveIs ==
  ASSUME TypeOK, Receive
  PROVE  /\ fromModem # <<>> /\ fromModem' = Tail(fromModem)
         /\ UNCHANGED <<toModem, modem, on, changes, polls, cycles>>
         /\ Head(fromModem) \in FromModem /\ Head(fromModem) = fromModem[1]
         /\ 1 \in DOMAIN fromModem
         /\ IF Head(fromModem).type = "NORMAL" THEN ipc_pwr_phone_state
            ELSE /\ UNCHANGED normal
                 /\ \/ Head(fromModem).kind # "PLMN" /\ ipc_net_regist(Head(fromModem))
                    \/ Head(fromModem).kind = "PLMN" /\ ipc_net_current_plmn(Head(fromModem))
<1>1. fromModem # <<>> /\ fromModem' = Tail(fromModem) BY DEF Receive
<1>2. /\ Head(fromModem) \in FromModem /\ Head(fromModem) = fromModem[1]
      /\ 1 \in DOMAIN fromModem
  BY <1>1, QueuesTyped, TailPlaces
<1> QED BY <1>1, <1>2 DEF Receive

(* What the driver receives keeps the phase of the radio.                  *)
LEMMA ReceivePhases ==
  ASSUME TypeOK, Phases, Receive
  PROVE  Phases'
<1> DEFINE f == fromModem
           o == toModem
           m == Head(f)
<1>1. /\ f # <<>> /\ f' = Tail(f) /\ UNCHANGED <<o, modem, on>>
      /\ m = f[1] /\ 1 \in DOMAIN f /\ m \in FromModem
  BY ReceiveIs
<1>2. o \in Seq(ToModem) /\ f \in Seq(FromModem) BY QueuesTyped
<1>3. Shape(o', f') BY <1>1, <1>2, ShapeKept DEF Phases
<1>4. /\ \A i \in DOMAIN f' : i \in Nat \ {0} /\ i + 1 \in DOMAIN f /\ f'[i] = f[i + 1] /\ 1 < i + 1
      /\ \A i \in DOMAIN f : i # 1 => i - 1 \in DOMAIN f' /\ f'[i - 1] = f[i]
  BY <1>1, <1>2, TailPlaces
<1>5. CASE m.type = "NORMAL"
  <2>1. ~ normal /\ o = <<>> /\ normal' = TRUE
    BY <1>1, <1>5, ReceiveIs DEF Phases, Operating, Booting, ipc_pwr_phone_state
  <2>2. \A i \in DOMAIN f' : f'[i].type = "NOTI"
    BY <1>1, <1>4, <1>5, <2>1 DEF Phases, Booting
  <2>3. DOMAIN o = {} BY <2>1
  <2>4. Operating(o', f') BY <1>1, <2>2, <2>3 DEF Operating
  <2> QED BY <1>3, <2>1, <2>4 DEF Phases
<1>6. CASE m.type # "NORMAL"
  <2>1. normal' = normal BY <1>6, ReceiveIs
  <2>2. ASSUME normal PROVE Operating(o', f')
    BY <1>1, <1>4, <2>2 DEF Phases, Operating
  <2>3. ASSUME ~ normal PROVE Booting(o', f')
    <3>1. Booting(o, f) BY <2>3 DEF Phases
    <3>2. \A i, j \in DOMAIN f' : i < j => i + 1 < j + 1 BY <1>4
    <3> QED BY <1>1, <1>4, <3>1, <3>2 DEF Booting
  <2>4. ASSUME ~ normal PROVE (\A k \in Kind : tokens'[k] = NoToken) /\ info'["GSM"] = 0
    <3>1. OutOfService BY <2>4 DEF Phases, OutOfService
    <3>2. /\ tokens' = tokens \/ tokens' = [tokens EXCEPT !["PLMN"] = NoToken]
          /\ info' = info \/ info' = [info EXCEPT !["PLMN"] = m.data]
      <4>1. CASE m.kind # "PLMN" /\ ipc_net_regist(m)
        BY <2>4, <4>1 DEF ipc_net_regist
      <4>2. CASE m.kind = "PLMN" /\ ipc_net_current_plmn(m)
        BY <3>1, <4>2 DEF ipc_net_current_plmn, Cleared
      <4> QED BY <1>6, <4>1, <4>2, ReceiveIs
    <3> QED BY <2>4, <3>2 DEF Phases, TypeOK, Kind
  <2>5. ASSUME ~ normal, Down(o', f') PROVE ~ on' /\ modem'["GSM"] = 0
    <3>1. Down(o, f)
      <4>1. \A i \in DOMAIN f : f[i].type # "NORMAL"
        BY <1>1, <1>4, <1>6, <2>5 DEF Down
      <4> QED BY <1>1, <2>5, <4>1 DEF Down
    <3> QED BY <1>1, <2>5, <3>1 DEF Phases
  <2> QED BY <1>3, <2>1, <2>2, <2>3, <2>4, <2>5 DEF Phases
<1> QED BY <1>5, <1>6

(* What the modem serves keeps it.                                         *)
LEMMA ServePhases ==
  ASSUME TypeOK, Phases, Serve
  PROVE  Phases'
<1> DEFINE f == fromModem
           o == toModem
           m == Head(o)
           x == Resp(m.kind, m.token, modem[m.kind])
<1>1. /\ o # <<>> /\ o' = Tail(o) /\ UNCHANGED <<normal, tokens, info>>
      /\ m = o[1] /\ 1 \in DOMAIN o /\ m \in ToModem
  BY ServeIs DEF driver
<1>2. o \in Seq(ToModem) /\ f \in Seq(FromModem) BY QueuesTyped
<1>3. /\ \A i \in DOMAIN o' : i \in Nat \ {0} /\ i + 1 \in DOMAIN o /\ o'[i] = o[i + 1]
      /\ \A i \in DOMAIN o : i \in Nat \ {0} /\ (i # 1 => i - 1 \in DOMAIN o' /\ o'[i - 1] = o[i])
      /\ Len(o') = Len(o) - 1 /\ Len(o) \in Nat \ {0}
  BY <1>1, <1>2, TailPlaces
<1>4. Shape(o', f) BY <1>1, <1>2, ShapeKept DEF Phases
<1>5. o' \in Seq(ToModem) BY <1>1, <1>2, TailPlaces
<1>6. CASE m.what = "GET"
  <2>0. f' = Append(f, x) /\ x \in FromModem /\ UNCHANGED <<modem, on>> BY <1>6, ServeIs
  <2>1. /\ f' = Append(f, x) /\ x \in FromModem /\ UNCHANGED <<modem, on>>
        /\ x.type = "RESP" /\ x.token = m.token
    BY <2>0 DEF Resp
  <2> HIDE DEF x, m
  <2>2. Shape(o', f') BY <1>2, <1>4, <1>5, <2>1, ShapeKept
  <2>3. /\ \A i \in DOMAIN f' : (i \in DOMAIN f /\ f'[i] = f[i]) \/ (i = Len(f) + 1 /\ f'[i] = x)
        /\ \A i \in DOMAIN f : i \in DOMAIN f' /\ f'[i] = f[i]
    BY <1>2, <2>1, AppendPlaces
  <2>4. ASSUME normal PROVE Operating(o', f')
    <3>1. Operating(o, f) BY <2>4 DEF Phases
    <3>2. x.token \in Token BY <1>1, <2>1, <3>1 DEF Operating
    <3>3. \A i \in DOMAIN o' : o'[i].what = "GET" /\ o'[i].token \in Token
      BY <1>3, <3>1 DEF Operating
    <3> QED BY <2>1, <2>3, <3>1, <3>2, <3>3 DEF Operating
  <2>5. ASSUME ~ normal PROVE Booting(o', f')
    <3>1. Booting(o, f) BY <2>5 DEF Phases
    <3>2. \A j \in DOMAIN f' : f'[j].type # "NORMAL" /\ f'[j].token = NoToken
      BY <1>1, <2>1, <2>3, <3>1 DEF Booting
    <3>3. \A i \in DOMAIN o' : o'[i].token = NoToken /\ (o'[i].what = "NORMAL" => i = Len(o'))
      BY <1>3, <3>1 DEF Booting
    <3> QED BY <3>2, <3>3 DEF Booting
  <2>6. Down(o', f') => Down(o, f)
    <3>1. Down(o', f') => \A i \in DOMAIN f : f[i].type # "NORMAL" BY <2>3 DEF Down
    <3>2. ASSUME Down(o', f'), NEW i \in DOMAIN o PROVE o[i].what # "LPM"
      <4>1. CASE i = 1 BY <1>1, <1>6, <4>1
      <4>2. CASE i # 1
        <5>1. i - 1 \in DOMAIN o' /\ o'[i - 1] = o[i] BY <1>3, <4>2
        <5> QED BY <3>2, <5>1 DEF Down
      <4> QED BY <4>1, <4>2
    <3> QED BY <3>1, <3>2 DEF Down
  <2> QED BY <1>1, <2>1, <2>2, <2>4, <2>5, <2>6 DEF Phases
<1>7. CASE m.what = "NORMAL"
  <2>1. f' = Append(f, PhoneState) BY <1>7, ServeIs
  <2>2. Shape(o', f')
    BY <1>2, <1>4, <1>5, <2>1, ShapeKept, MessagesTyped, SentFields
  <2>3. /\ \A i \in DOMAIN f' : \/ i \in DOMAIN f /\ f'[i] = f[i]
                                \/ i = Len(f) + 1 /\ f'[i] = PhoneState
        /\ \A i \in DOMAIN f : i \in Nat /\ i < Len(f) + 1
        /\ Len(f) + 1 \in DOMAIN f' /\ f'[Len(f) + 1] = PhoneState /\ Len(f) \in Nat
    BY <1>2, <2>1, AppendPlaces, MessagesTyped
  <2>4. ~ normal BY <1>1, <1>7 DEF Phases, Operating
  <2>5. Booting(o, f) BY <2>4 DEF Phases
  <2>6. 1 = Len(o) /\ \A j \in DOMAIN f : f[j].type # "NORMAL" BY <1>1, <1>7, <2>5 DEF Booting
  <2>7. o' = <<>> /\ DOMAIN o' = {}
    <3>0. Len(o') = Len(o) - 1 /\ Len(o) = 1 BY <1>3, <2>6
    <3>1. Len(o') = 0 BY <3>0
    <3> QED BY <1>5, <3>1, EmptySeq, LenProperties
  <2>8. \A i \in DOMAIN f' : f'[i].token = NoToken BY <2>3, <2>5, SentFields DEF Booting
  <2>9. \A i, j \in DOMAIN f' : ~ (f'[i].type = "NORMAL" /\ i < j) BY <2>3, <2>6
  <2>10. Booting(o', f') BY <2>7, <2>8, <2>9 DEF Booting
  <2>11. ~ Down(o', f') BY <2>3, SentFields DEF Down
  <2> QED BY <1>1, <2>2, <2>4, <2>10, <2>11 DEF Phases
<1>8. CASE m.what = "LPM"
  <2>1. UNCHANGED f /\ ~ on' /\ modem' = [k \in Kind |-> 0] BY <1>8, ServeIs
  <2>2. ~ normal BY <1>1, <1>8 DEF Phases, Operating
  <2>3. Booting(o, f) BY <2>2 DEF Phases
  <2>4. \A i \in DOMAIN o' : o'[i].token = NoToken /\ (o'[i].what = "NORMAL" => i = Len(o'))
    BY <1>3, <2>3 DEF Booting
  <2>5. \A j \in DOMAIN f : f[j].type # "NORMAL" BY <1>1, <2>3 DEF Booting
  <2>6. Booting(o', f') BY <2>1, <2>3, <2>4, <2>5 DEF Booting
  <2>7. modem'["GSM"] = 0 BY <2>1 DEF Kind
  <2> QED BY <1>1, <1>4, <2>1, <2>2, <2>6, <2>7 DEF Phases
<1> QED BY <1>1, <1>6, <1>7, <1>8 DEF ToModem

(* Every step keeps the phase of the radio, or goes on to the next one.    *)
LEMMA PhasesStep ==
  ASSUME TypeOK, Phases, [Next]_vars
  PROVE  Phases'
<1> DEFINE f == fromModem
           o == toModem
<1>0. o \in Seq(ToModem) /\ f \in Seq(FromModem) BY QueuesTyped
<1>1. ASSUME NEW t \in Token, NEW k \in Kind, Request(t, k) PROVE Phases'
  <2>1. normal /\ UNCHANGED <<f, normal>> BY <1>1 DEF Request
  <2>2. Operating(o, f) /\ Shape(o, f) BY <2>1 DEF Phases
  <2>3. o' = o \/ o' = Append(o, Ask(k, t))
    BY <1>1 DEF Request, ril_request_registration_state, ril_request_gprs_registration_state,
                ril_request_operator, RequestState, AskModem
  <2>4. CASE o' = o BY <2>1, <2>2, <2>4 DEF Phases
  <2>5. CASE o' = Append(o, Ask(k, t))
    <3>1. Ask(k, t) \in ToModem BY MessagesTyped DEF MaybeToken
    <3>2. Shape(o', f') BY <1>0, <2>1, <2>2, <2>5, <3>1, SentFields, ShapeKept
    <3>3. \A i \in DOMAIN o' : (i \in DOMAIN o /\ o'[i] = o[i]) \/ o'[i] = Ask(k, t)
      BY <1>0, <2>5, <3>1, AppendPlaces
    <3>4. Operating(o', f') BY <2>1, <2>2, <3>3, SentFields DEF Operating
    <3> QED BY <2>1, <3>2, <3>4 DEF Phases
  <2> QED BY <2>3, <2>4, <2>5
<1>2. CASE Receive BY <1>2, ReceivePhases
<1>3. CASE RadioOff
  <2>1. /\ o' = Append(Forgotten(o), Power("LPM")) /\ f' = Forgotten(f)
        /\ normal /\ ~ normal' /\ tokens' = [k \in Kind |-> NoToken] /\ info' = [k \in Kind |-> 0]
    BY <1>3 DEF RadioOff, Forgotten
  <2> DEFINE p == Forgotten(o)
             g == Forgotten(f)
  <2>2. /\ p \in Seq(ToModem) /\ DOMAIN p = DOMAIN o
        /\ \A i \in DOMAIN p : p[i].token = NoToken /\ p[i].what = "GET"
    BY <1>0, <2>1, ForgottenTo DEF Phases, Operating
  <2>3. /\ g \in Seq(FromModem)
        /\ \A i \in DOMAIN g : g[i].token = NoToken /\ g[i].type # "NORMAL"
        /\ \A i \in DOMAIN g : g[i].type = "NOTI" => g[i].data # 0
    BY <1>0, <2>1, ForgottenFrom DEF Phases, Operating, Shape
  <2> HIDE DEF p, g
  <2>4. /\ \A i \in DOMAIN o' : \/ o'[i].token = NoToken /\ o'[i].what = "GET"
                                \/ o'[i] = Power("LPM")
        /\ Len(p) + 1 \in DOMAIN o' /\ o'[Len(p) + 1] = Power("LPM")
    BY <2>1, <2>2, MessagesTyped, AppendPlaces DEF p
  <2>5. Shape(o', f') BY <2>1, <2>3, <2>4, SentFields DEF Shape, g
  <2>6. Booting(o', f') BY <2>1, <2>3, <2>4, SentFields DEF Booting, g
  <2>7. ~ Down(o', f') BY <2>4, SentFields DEF Down
  <2>8. info'["GSM"] = 0 /\ \A k \in Kind : tokens'[k] = NoToken BY <2>1 DEF Kind
  <2> QED BY <2>1, <2>5, <2>6, <2>7, <2>8 DEF Phases
<1>4. CASE RadioOn
  <2>1. /\ o' = Append(o, Power("NORMAL")) /\ ~ normal
        /\ UNCHANGED <<f, normal, tokens, info, on, modem>>
        /\ \A i \in DOMAIN o : o[i] # Power("NORMAL")
        /\ \A i \in DOMAIN f : f[i] # PhoneState
    BY <1>4 DEF RadioOn, driver, ToSet
  <2>2. \A i \in DOMAIN f : f[i].type # "NORMAL" BY <2>1 DEF Phases, Shape
  <2>3. \A i \in DOMAIN o : o[i].what # "NORMAL" BY <2>1 DEF Phases, Shape
  <2>4. /\ \A i \in DOMAIN o' : \/ i \in DOMAIN o /\ o'[i] = o[i]
                                \/ i = Len(o') /\ o'[i] = Power("NORMAL")
        /\ \A i \in DOMAIN o : i \in DOMAIN o' /\ o'[i] = o[i]
    BY <1>0, <2>1, MessagesTyped, AppendPlaces
  <2>5. Shape(o', f') BY <1>0, <2>1, MessagesTyped, SentFields, ShapeKept DEF Phases
  <2>6. Booting(o', f') BY <2>1, <2>2, <2>3, <2>4, SentFields DEF Phases, Booting
  <2>7. Down(o', f') => Down(o, f) BY <2>1, <2>4 DEF Down
  <2> QED BY <2>1, <2>5, <2>6, <2>7 DEF Phases
<1>5. ASSUME NEW k \in Kind, Change(k) PROVE Phases'
  <2>1. /\ f' = Append(f, Noti(k, changes + 1)) /\ changes < MaxChanges
        /\ UNCHANGED <<o, normal, tokens, info, on>> /\ on
    BY <1>5 DEF Change, driver
  <2>2. changes \in Nat /\ changes + 1 \in Data /\ changes + 1 # 0 BY <2>1 DEF TypeOK, Data
  <2> DEFINE x == Noti(k, changes + 1)
  <2>3. x \in FromModem /\ x.type = "NOTI" /\ x.data # 0 /\ x.token = NoToken
    BY <2>2, MessagesTyped, SentFields
  <2> HIDE DEF x
  <2>4. Shape(o', f') BY <1>0, <2>1, <2>3, ShapeKept DEF Phases, x
  <2>5. /\ \A i \in DOMAIN f' : (i \in DOMAIN f /\ f'[i] = f[i]) \/ f'[i] = x
        /\ \A i \in DOMAIN f : i \in DOMAIN f' /\ f'[i] = f[i]
    BY <1>0, <2>1, <2>3, AppendPlaces DEF x
  <2>6. normal => Operating(o', f') BY <2>1, <2>3, <2>5 DEF Phases, Operating
  <2>7. ~ normal => Booting(o', f') BY <2>1, <2>3, <2>5 DEF Phases, Booting
  <2>8. Down(o', f') => Down(o, f) BY <2>1, <2>5 DEF Down
  <2> QED BY <2>1, <2>4, <2>6, <2>7, <2>8 DEF Phases
<1>6. CASE Serve BY <1>6, ServePhases
<1>7. CASE UNCHANGED vars BY <1>7 DEF vars, driver, Phases
<1> QED BY <1>1, <1>2, <1>3, <1>4, <1>5, <1>6, <1>7 DEF Next

-----------------------------------------------------------------------------
(* A token is under way once at most, and its request has no answer then.  *)

Carries(s, t, i) == i \in DOMAIN s /\ s[i].token = t

Nowhere(o, f, t) == \A i : ~ Carries(o, t, i) /\ ~ Carries(f, t, i)

AtMostOnce(o, f, t) ==
  /\ \A i, j : Carries(o, t, i) /\ Carries(o, t, j) => i = j
  /\ \A i, j : Carries(f, t, i) /\ Carries(f, t, j) => i = j
  /\ \A i, j : ~ (Carries(o, t, i) /\ Carries(f, t, j))

Unanswered ==
  \A t \in Token :
    /\ AtMostOnce(toModem, fromModem, t)
    /\ Nowhere(toModem, fromModem, t) \/ (open[t] # "none" /\ answers[t] = 0)

(* Taking a message keeps that, and if it was the token's none is left.    *)
LEMMA OneLess ==
  ASSUME NEW S, NEW s \in Seq(S), s # <<>>, NEW o, NEW t
  PROVE  /\ AtMostOnce(o, s, t) => AtMostOnce(o, Tail(s), t)
         /\ AtMostOnce(s, o, t) => AtMostOnce(Tail(s), o, t)
         /\ Nowhere(o, s, t) => Nowhere(o, Tail(s), t)
         /\ Nowhere(s, o, t) => Nowhere(Tail(s), o, t)
         /\ AtMostOnce(o, s, t) /\ Head(s).token = t => Nowhere(o, Tail(s), t)
         /\ AtMostOnce(s, o, t) /\ Head(s).token = t => Nowhere(Tail(s), o, t)
<1> DEFINE r == Tail(s)
<1>1. \A i \in DOMAIN r : i \in Nat \ {0} /\ i + 1 \in DOMAIN s /\ r[i] = s[i + 1] /\ i + 1 # 1
  BY TailPlaces
<1>2. 1 \in DOMAIN s /\ Head(s) = s[1] BY TailPlaces
<1> HIDE DEF r
<1>3. \A i : Carries(r, t, i) => i \in Nat /\ Carries(s, t, i + 1) /\ i + 1 # 1
  BY <1>1 DEF Carries
<1>4. \A i, j \in Nat : i + 1 = j + 1 => i = j OBVIOUS
<1>5. Head(s).token = t => Carries(s, t, 1) BY <1>2 DEF Carries
<1>6. AtMostOnce(o, s, t) => AtMostOnce(o, r, t) BY <1>3, <1>4 DEF AtMostOnce
<1>7. AtMostOnce(s, o, t) => AtMostOnce(r, o, t) BY <1>3, <1>4 DEF AtMostOnce
<1>8. Nowhere(o, s, t) => Nowhere(o, r, t) BY <1>3 DEF Nowhere
<1>9. Nowhere(s, o, t) => Nowhere(r, o, t) BY <1>3 DEF Nowhere
<1>10. AtMostOnce(o, s, t) /\ Head(s).token = t => Nowhere(o, r, t)
  BY <1>3, <1>5 DEF Nowhere, AtMostOnce
<1>11. AtMostOnce(s, o, t) /\ Head(s).token = t => Nowhere(r, o, t)
  BY <1>3, <1>5 DEF Nowhere, AtMostOnce
<1> QED BY <1>6, <1>7, <1>8, <1>9, <1>10, <1>11 DEF r

(* So does adding one that is not the token's, or the token's only one.    *)
LEMMA OneMoreCarried ==
  ASSUME NEW S, NEW s \in Seq(S), NEW x \in S, NEW o, NEW t
  PROVE  /\ x.token # t /\ AtMostOnce(o, s, t) => AtMostOnce(o, Append(s, x), t)
         /\ x.token # t /\ AtMostOnce(s, o, t) => AtMostOnce(Append(s, x), o, t)
         /\ x.token # t /\ Nowhere(o, s, t) => Nowhere(o, Append(s, x), t)
         /\ x.token # t /\ Nowhere(s, o, t) => Nowhere(Append(s, x), o, t)
         /\ Nowhere(o, s, t) => AtMostOnce(o, Append(s, x), t)
         /\ Nowhere(s, o, t) => AtMostOnce(Append(s, x), o, t)
<1> DEFINE r == Append(s, x)
<1>1. \A i \in DOMAIN r : (i \in DOMAIN s /\ r[i] = s[i]) \/ (i = Len(s) + 1 /\ r[i] = x)
  BY AppendPlaces
<1> HIDE DEF r
<1>2. \A i : Carries(r, t, i) => Carries(s, t, i) \/ (i = Len(s) + 1 /\ x.token = t)
  BY <1>1 DEF Carries
<1>3. x.token # t /\ AtMostOnce(o, s, t) => AtMostOnce(o, r, t) BY <1>2 DEF AtMostOnce
<1>4. x.token # t /\ AtMostOnce(s, o, t) => AtMostOnce(r, o, t) BY <1>2 DEF AtMostOnce
<1>5. x.token # t /\ Nowhere(o, s, t) => Nowhere(o, r, t) BY <1>2 DEF Nowhere
<1>6. x.token # t /\ Nowhere(s, o, t) => Nowhere(r, o, t) BY <1>2 DEF Nowhere
<1>7. Nowhere(o, s, t) => AtMostOnce(o, r, t) BY <1>2 DEF AtMostOnce, Nowhere
<1>8. Nowhere(s, o, t) => AtMostOnce(r, o, t) BY <1>2 DEF AtMostOnce, Nowhere
<1> QED BY <1>3, <1>4, <1>5, <1>6, <1>7, <1>8 DEF r

(* A received message is an answer to its own token at most.               *)
LEMMA ReceiveAnswers ==
  ASSUME TypeOK, Receive, NEW t \in Token, Head(fromModem).token # t
  PROVE  open'[t] = open[t] /\ answers'[t] = answers[t]
<1> DEFINE m == Head(fromModem)
<1>1. UNCHANGED rild \/ Answered(m.token, OneMore(m.token))
  BY ReceiveIs DEF ipc_pwr_phone_state, ipc_net_regist, ipc_net_current_plmn, Sol, Give, Refuse
<1> QED BY <1>1 DEF rild, Answered, TypeOK

(* Every step keeps the token of a message that of a request without an    *)
(* answer.                                                                 *)
LEMMA UnansweredStep ==
  ASSUME TypeOK, Unanswered, [Next]_vars
  PROVE  Unanswered'
<1> DEFINE f == fromModem
           o == toModem
           Kept(t) == open'[t] # "none" /\ answers'[t] = 0
<1>0. o \in Seq(ToModem) /\ f \in Seq(FromModem) BY QueuesTyped
<1>1. \A t \in Token : /\ AtMostOnce(o, f, t) /\ t # NoToken
                       /\ Nowhere(o, f, t) \/ (open[t] # "none" /\ answers[t] = 0)
  BY DEF Unanswered
<1> SUFFICES ASSUME NEW t \in Token
             PROVE  AtMostOnce(o', f', t) /\ (Nowhere(o', f', t) \/ Kept(t))
  BY DEF Unanswered
<1>2. ASSUME NEW u \in Token, NEW k \in Kind, Request(u, k)
      PROVE  AtMostOnce(o', f', t) /\ (Nowhere(o', f', t) \/ Kept(t))
  <2>1. f' = f /\ open[u] = "none" BY <1>2 DEF Request
  <2>2. AskModem(u, k) \/ (o' = o /\ \E n : Answered(u, n))
    BY <1>2 DEF Request, ril_request_registration_state, ril_request_gprs_registration_state,
                ril_request_operator, RequestState, Give, Refuse
  <2>3. u # t => open'[t] = open[t] /\ answers'[t] = answers[t]
    BY <2>2 DEF AskModem, Answered, TypeOK
  <2>4. u = t => Nowhere(o, f, t) BY <1>1, <2>1
  <2>5. CASE o' = o /\ \E n : Answered(u, n)
    BY <1>1, <2>1, <2>3, <2>4, <2>5
  <2>6. CASE AskModem(u, k)
    <3> DEFINE x == Ask(k, u)
    <3>1. x \in ToModem /\ x.token = u BY MessagesTyped, SentFields DEF MaybeToken
    <3>2. o' = Append(o, x) BY <2>6 DEF AskModem
    <3>3. u = t => Kept(t) BY <2>6 DEF AskModem, TypeOK, Kind
    <3> HIDE DEF x, Kept
    <3>4. u = t => AtMostOnce(o', f', t) BY <1>0, <2>1, <2>4, <3>1, <3>2, OneMoreCarried
    <3>5. u # t => /\ AtMostOnce(o', f', t)
                   /\ Nowhere(o, f, t) => Nowhere(o', f', t)
      BY <1>0, <1>1, <2>1, <3>1, <3>2, OneMoreCarried
    <3>6. open[t] # "none" /\ answers[t] = 0 /\ u # t => Kept(t) BY <2>3 DEF Kept
    <3> QED BY <1>1, <3>3, <3>4, <3>5, <3>6
  <2> QED BY <2>2, <2>5, <2>6
<1>3. CASE Receive
  <2>1. f # <<>> /\ f' = Tail(f) /\ o' = o BY <1>3, ReceiveIs
  <2>2. AtMostOnce(o', f', t) BY <1>0, <1>1, <2>1, OneLess
  <2>3. CASE Head(f).token = t BY <1>0, <1>1, <2>1, <2>2, <2>3, OneLess
  <2>4. CASE Head(f).token # t
    <3>1. open'[t] = open[t] /\ answers'[t] = answers[t] BY <1>3, <2>4, ReceiveAnswers
    <3>2. Nowhere(o, f, t) => Nowhere(o', f', t) BY <1>0, <2>1, OneLess
    <3> QED BY <1>1, <2>2, <3>1, <3>2
  <2> QED BY <2>3, <2>4
<1>4. CASE RadioOff
  <2>1. o' = Append(Forgotten(o), Power("LPM")) /\ f' = Forgotten(f)
    BY <1>4 DEF RadioOff, Forgotten
  <2>2. /\ Forgotten(o) \in Seq(ToModem)
        /\ \A i \in DOMAIN Forgotten(o) : Forgotten(o)[i].token = NoToken
        /\ \A i \in DOMAIN f' : f'[i].token = NoToken
    BY <1>0, <2>1, ForgottenTo, ForgottenFrom
  <2>3. \A i \in DOMAIN o' : o'[i].token = NoToken
    BY <2>1, <2>2, MessagesTyped, SentFields, AppendPlaces
  <2>4. Nowhere(o', f', t) BY <1>1, <2>2, <2>3 DEF Nowhere, Carries
  <2> QED BY <2>4 DEF Nowhere, AtMostOnce
<1>5. CASE RadioOn
  <2>1. o' = Append(o, Power("NORMAL")) /\ f' = f /\ UNCHANGED <<open, answers>>
    BY <1>5 DEF RadioOn, rild
  <2> DEFINE x == Power("NORMAL")
  <2>2. x \in ToModem /\ x.token # t BY <1>1, MessagesTyped, SentFields
  <2> HIDE DEF x
  <2>3. AtMostOnce(o', f', t) /\ (Nowhere(o, f, t) => Nowhere(o', f', t))
    BY <1>0, <1>1, <2>1, <2>2, OneMoreCarried DEF x
  <2> QED BY <1>1, <2>1, <2>3
<1>6. ASSUME NEW k \in Kind, Change(k)
      PROVE  AtMostOnce(o', f', t) /\ (Nowhere(o', f', t) \/ Kept(t))
  <2> DEFINE x == Noti(k, changes + 1)
  <2>1. f' = Append(f, x) /\ o' = o /\ UNCHANGED <<open, answers>>
    BY <1>6 DEF Change, rild
  <2>2. x \in FromModem /\ x.token # t
    <3>1. changes + 1 \in Data BY <1>6 DEF Change, TypeOK, Data
    <3> QED BY <1>1, <3>1, MessagesTyped, SentFields
  <2> HIDE DEF x
  <2>3. AtMostOnce(o', f', t) /\ (Nowhere(o, f, t) => Nowhere(o', f', t))
    BY <1>0, <1>1, <2>1, <2>2, OneMoreCarried
  <2> QED BY <1>1, <2>1, <2>3
<1>7. CASE Serve
  <2> DEFINE m == Head(o)
             x == Resp(m.kind, m.token, modem[m.kind])
  <2>1. /\ o # <<>> /\ o' = Tail(o) /\ UNCHANGED <<open, answers>>
        /\ \/ f' = Append(f, x) /\ x \in FromModem /\ m.what = "GET"
           \/ f' = Append(f, PhoneState)
           \/ f' = f
    BY <1>7, ServeIs DEF rild
  <2>2. o' \in Seq(ToModem) BY <1>0, <2>1, TailPlaces
  <2>3. x.token = m.token BY SentFields
  <2>4. PhoneState \in FromModem /\ PhoneState.token # t BY <1>1, MessagesTyped, SentFields
  <2> HIDE DEF x
  <2>5. /\ AtMostOnce(o', f, t) /\ (Nowhere(o, f, t) => Nowhere(o', f, t))
        /\ m.token = t => Nowhere(o', f, t)
    BY <1>0, <1>1, <2>1, OneLess
  <2>6. m.token = t => ~ Nowhere(o, f, t)
    <3>1. 1 \in DOMAIN o /\ Head(o) = o[1] BY <1>0, <2>1, TailPlaces
    <3> QED BY <3>1 DEF Nowhere, Carries
  <2> HIDE DEF m
  <2>7. CASE f' = Append(f, x) /\ x \in FromModem
    <3>1. AtMostOnce(o', f', t)
      <4>1. CASE m.token = t BY <1>0, <2>2, <2>5, <2>7, <4>1, OneMoreCarried
      <4>2. CASE m.token # t BY <1>0, <2>2, <2>3, <2>5, <2>7, <4>2, OneMoreCarried
      <4> QED BY <4>1, <4>2
    <3>2. m.token # t /\ Nowhere(o, f, t) => Nowhere(o', f', t)
      BY <1>0, <2>2, <2>3, <2>5, <2>7, OneMoreCarried
    <3> QED BY <1>1, <2>1, <2>6, <3>1, <3>2
  <2>8. CASE f' = Append(f, PhoneState)
    <3>1. AtMostOnce(o', f', t) /\ (Nowhere(o, f, t) => Nowhere(o', f', t))
      BY <1>0, <2>2, <2>4, <2>5, <2>8, OneMoreCarried
    <3> QED BY <1>1, <2>1, <3>1
  <2>9. CASE f' = f BY <1>1, <2>1, <2>5, <2>9
  <2> QED BY <2>1, <2>7, <2>8, <2>9
<1>8. CASE UNCHANGED vars BY <1>1, <1>8 DEF vars, rild
<1> QED BY <1>2, <1>3, <1>4, <1>5, <1>6, <1>7, <1>8 DEF Next

-----------------------------------------------------------------------------
(* What every state has.                                                   *)
IInv == TypeOK /\ Phases /\ Unanswered

(* Every state has these.                                                  *)
LEMMA IInvAlways == Spec => []IInv
<1>1. Init => IInv
  <2> SUFFICES ASSUME Init PROVE IInv OBVIOUS
  <2>0. 0 \in Data BY DEF Data
  <2>1. toModem = <<>> /\ fromModem = <<>> /\ DOMAIN toModem = {} /\ DOMAIN fromModem = {}
    BY DEF Init
  <2>2. TypeOK
    <3>1. /\ tokens \in [Kind -> Token \cup {NoToken, Waiting}]
          /\ info \in [Kind -> Data] /\ view \in [Kind -> Data] /\ modem \in [Kind -> Data]
          /\ open \in [Token -> Kind \cup {"none"}] /\ answers \in [Token -> Nat]
      BY <2>0 DEF Init
    <3>2. normal \in BOOLEAN /\ on \in BOOLEAN /\ told \subseteq Kind BY DEF Init
    <3>3. changes \in Data /\ polls \in Nat /\ cycles \in Nat BY <2>0 DEF Init
    <3> QED BY <2>1, <3>1, <3>2, <3>3 DEF TypeOK
  <2>3. Phases BY <2>1 DEF Init, Phases, Shape, Booting, Kind
  <2>4. Unanswered BY <2>1 DEF Unanswered, Nowhere, AtMostOnce, Carries
  <2> QED BY <2>2, <2>3, <2>4 DEF IInv
<1>2. IInv /\ [Next]_vars => IInv' BY TypeStep, PhasesStep, UnansweredStep DEF IInv
<1> QED BY <1>1, <1>2, PTL DEF Spec

(* No request is answered both from the stored data and by the modem, nor  *)
(* by two of its messages, however requests and news overlap: an answer    *)
(* from the stored data leaves no question behind, and the question of a   *)
(* request is in one message only, whose request has no answer yet.        *)
THEOREM NetAnsweredAtMostOnce == Spec => []AnsweredAtMostOnce
<1>1. ASSUME IInv, AnsweredAtMostOnce, [Next]_vars PROVE AnsweredAtMostOnce'
  <2> SUFFICES ASSUME NEW t \in Token PROVE answers'[t] <= 1 BY DEF AnsweredAtMostOnce
  <2>0. TypeOK /\ t # NoToken /\ answers[t] <= 1 BY <1>1 DEF IInv, AnsweredAtMostOnce
  <2>1. ASSUME NEW u \in Token, NEW k \in Kind, Request(u, k) PROVE answers'[t] <= 1
    <3>1. CASE AskModem(u, k) BY <2>0, <3>1 DEF AskModem, TypeOK
    <3>2. CASE Refuse(u, 1) BY <2>0, <3>2 DEF Refuse, Answered, TypeOK
    <3>3. CASE Give(u, k, info[k], 1) BY <2>0, <3>3 DEF Give, Answered, TypeOK
    <3> QED BY <2>1, <3>1, <3>2, <3>3
         DEF Request, ril_request_registration_state, ril_request_gprs_registration_state,
             ril_request_operator, RequestState
  <2>2. CASE Receive /\ answers'[t] # answers[t]
    <3> DEFINE m == Head(fromModem)
    <3>1. m.token = t BY <2>0, <2>2, ReceiveAnswers
    <3>2. fromModem[1] = m /\ 1 \in DOMAIN fromModem BY <2>0, <2>2, ReceiveIs
    <3>3. answers[t] = 0 BY <1>1, <3>1, <3>2 DEF IInv, Unanswered, Nowhere, Carries
    <3>4. UNCHANGED rild \/ Answered(m.token, OneMore(m.token))
      BY <2>0, <2>2, ReceiveIs
         DEF ipc_pwr_phone_state, ipc_net_regist, ipc_net_current_plmn, Sol, Give, Refuse
    <3>5. answers'[t] = 1
      BY <2>0, <2>2, <3>1, <3>3, <3>4 DEF rild, Answered, OneMore, TypeOK
    <3> QED BY <3>5
  <2>3. CASE RadioOff BY <2>0, <2>3 DEF RadioOff, TypeOK
  <2>4. CASE answers'[t] = answers[t] BY <2>0, <2>4
  <2> QED BY <1>1, <2>1, <2>2, <2>3, <2>4 DEF Next, vars, rild, RadioOn, Change, Serve
<1>2. Init => AnsweredAtMostOnce BY DEF Init, AnsweredAtMostOnce
<1>3. IInv /\ AnsweredAtMostOnce /\ [Next]_vars => AnsweredAtMostOnce' BY <1>1
<1> QED BY <1>2, <1>3, IInvAlways, PTL DEF Spec

-----------------------------------------------------------------------------
(* No token is stuck.                                                      *)

(* What is on a line stays on it, unless it is the first and taken.        *)
LEMMA Members ==
  ASSUME NEW S, NEW s \in Seq(S), NEW x
  PROVE  /\ s # <<>> /\ x \in ToSet(s) /\ x # Head(s) => x \in ToSet(Tail(s))
         /\ \A y \in S : x \in ToSet(s) => x \in ToSet(Append(s, y))
         /\ \A y \in S : y \in ToSet(Append(s, y))
<1>1. ASSUME s # <<>>, x \in ToSet(s), x # Head(s) PROVE x \in ToSet(Tail(s))
  <2>1. PICK i \in DOMAIN s : s[i] = x BY <1>1 DEF ToSet
  <2>2. i # 1 BY <1>1, <2>1, TailPlaces
  <2>3. i - 1 \in DOMAIN Tail(s) /\ Tail(s)[i - 1] = x BY <1>1, <2>1, <2>2, TailPlaces
  <2> QED BY <2>3 DEF ToSet
<1>2. ASSUME NEW y \in S, x \in ToSet(s) PROVE x \in ToSet(Append(s, y))
  <2>1. PICK i \in DOMAIN s : s[i] = x BY <1>2 DEF ToSet
  <2>2. i \in DOMAIN Append(s, y) /\ Append(s, y)[i] = x BY <2>1, AppendPlaces
  <2> QED BY <2>2 DEF ToSet
<1>3. ASSUME NEW y \in S PROVE y \in ToSet(Append(s, y))
  <2>1. Len(s) + 1 \in DOMAIN Append(s, y) /\ Append(s, y)[Len(s) + 1] = y BY AppendPlaces
  <2> QED BY <2>1 DEF ToSet
<1> QED BY <1>1, <1>2, <1>3

(* A request that goes on after a message had another kind's message, or   *)
(* news that were dropped.                                                 *)
LEMMA ReceiveTokens ==
  ASSUME TypeOK, Phases, Receive, NEW k \in {"GSM", "PLMN"}, tokens'[k] \in Token
  PROVE  /\ tokens'[k] = tokens[k]
         /\ \A t \in Token, d \in Data : Head(fromModem) # Resp(k, t, d)
<1> DEFINE m == Head(fromModem)
<1>1. k \in Kind BY DEF Kind
<1>2. CASE m.type = "NORMAL"
  BY <1>2, ReceiveIs, SentFields DEF ipc_pwr_phone_state
<1>3. CASE m.type # "NORMAL" /\ ~ normal
  <2>1. normal' = normal BY <1>3, ReceiveIs
  <2>2. tokens'[k] = NoToken BY <1>1, <1>3, <2>1, ReceivePhases DEF Phases
  <2> QED BY <2>2
<1>4. CASE m.type # "NORMAL" /\ normal
  <2>0. m \in FromModem /\ m.kind \in Kind BY ReceiveIs DEF FromModem
  <2>1. \A j \in Kind : /\ j # k => Cleared(j)[k] = tokens[k]
                        /\ Cleared(k)[k] \notin Token
    BY <1>1 DEF Cleared, TypeOK
  <2>2. ASSUME NEW j \in Kind, m.type = "RESP", m.kind = j, tokens' = Cleared(j)
        PROVE  tokens'[k] = tokens[k] /\ \A t \in Token, d \in Data : m # Resp(k, t, d)
    BY <2>1, <2>2, SentFields
  <2>3. ASSUME m.type = "NOTI", NEW j \in Kind, tokens' = tokens \/ tokens' = [i \in Kind |-> Waiting]
        PROVE  tokens'[k] = tokens[k] /\ \A t \in Token, d \in Data : m # Resp(k, t, d)
    <3>1. tokens' = tokens BY <1>1, <2>3
    <3> QED BY <2>3, <3>1, SentFields
  <2>4. CASE m.kind # "PLMN" /\ ipc_net_regist(m)
    <3>1. \/ m.type = "NOTI" /\ Unsol(m.kind, m.data)
          \/ m.type = "RESP" /\ Sol(m.token, m.kind, m.data)
      BY <1>4, <2>4 DEF ipc_net_regist
    <3>2. CASE m.type = "NOTI" /\ Unsol(m.kind, m.data) BY <2>0, <2>3, <3>2 DEF Unsol
    <3>3. CASE m.type = "RESP" /\ Sol(m.token, m.kind, m.data) BY <2>0, <2>2, <3>3 DEF Sol
    <3> QED BY <3>1, <3>2, <3>3
  <2>5. CASE m.kind = "PLMN" /\ ipc_net_current_plmn(m)
    <3>1. \/ m.type = "NOTI" /\ (tokens' = tokens \/ tokens' = [i \in Kind |-> Waiting])
          \/ m.type = "RESP" /\ tokens' = Cleared("PLMN")
      BY <2>5 DEF ipc_net_current_plmn, Unsol, Sol
    <3> QED BY <2>0, <2>2, <2>3, <2>5, <3>1
  <2> QED BY <1>4, <2>4, <2>5, ReceiveIs
<1> QED BY <1>2, <1>3, <1>4

(* Every step keeps a token from staying with a request nobody will        *)
(* answer: one that waits has a question or an answer under way.           *)
LEMMA StuckStep ==
  ASSUME TypeOK, Phases, NoStuckToken, [Next]_vars
  PROVE  NoStuckToken'
<1> DEFINE f == fromModem
           o == toModem
<1>0. o \in Seq(ToModem) /\ f \in Seq(FromModem) BY QueuesTyped
<1> SUFFICES ASSUME NEW k \in {"GSM", "PLMN"}, tokens'[k] \in Token PROVE Underway(k)'
  BY DEF NoStuckToken
<1>1. k \in Kind BY DEF Kind
<1>2. tokens[k] \in Token => \/ Ask(k, tokens[k]) \in ToSet(o)
                             \/ \E d \in Data : Resp(k, tokens[k], d) \in ToSet(f)
  BY DEF NoStuckToken, Underway
(* It goes on in the queues that only grew.                                *)
<1>3. ASSUME tokens'[k] = tokens[k],
             o' = o \/ \E x \in ToModem : o' = Append(o, x),
             f' = f \/ \E x \in FromModem : f' = Append(f, x)
      PROVE  Underway(k)'
  <2>1. \A x : x \in ToSet(o) => x \in ToSet(o') BY <1>0, <1>3, Members
  <2>2. \A x : x \in ToSet(f) => x \in ToSet(f') BY <1>0, <1>3, Members
  <2>3. \/ Ask(k, tokens'[k]) \in ToSet(o')
        \/ \E d \in Data : Resp(k, tokens'[k], d) \in ToSet(f')
    BY <1>2, <1>3, <2>1, <2>2
  <2> QED BY <2>3 DEF Underway, Ask, Resp
<1>4. ASSUME NEW t \in Token, NEW j \in Kind, Request(t, j) PROVE Underway(k)'
  <2>1. f' = f BY <1>4 DEF Request
  <2>2. CASE AskModem(t, j)
    <3>1. o' = Append(o, Ask(j, t)) /\ Ask(j, t) \in ToModem
      BY <2>2, MessagesTyped DEF AskModem, MaybeToken
    <3>2. CASE j = k
      <4>1. tokens'[k] = t BY <1>1, <2>2, <3>2 DEF AskModem, TypeOK
      <4>2. Ask(k, t) \in ToSet(o') BY <1>0, <3>1, <3>2, Members
      <4> QED BY <4>1, <4>2 DEF Underway, Ask
    <3>3. CASE j # k
      <4>1. tokens'[k] = tokens[k] BY <1>1, <2>2, <3>3 DEF AskModem, TypeOK
      <4> QED BY <1>3, <2>1, <3>1, <4>1
    <3> QED BY <3>2, <3>3
  <2>3. CASE /\ o' = o
             /\ \/ tokens' = [tokens EXCEPT ![j] = IF @ = Waiting THEN NoToken ELSE @]
                \/ tokens' = [tokens EXCEPT !["PLMN"] = NoToken]
    <3>1. tokens'[k] = tokens[k] BY <1>1, <2>3 DEF TypeOK, Kind
    <3> QED BY <1>3, <2>1, <2>3, <3>1
  <2> QED BY <1>4, <2>2, <2>3
       DEF Request, ril_request_registration_state, ril_request_gprs_registration_state,
           ril_request_operator, RequestState
<1>5. CASE Receive
  <2>1. f # <<>> /\ f' = Tail(f) /\ o' = o BY <1>5, ReceiveIs
  <2>2. /\ tokens'[k] = tokens[k]
        /\ \A d \in Data : Head(f) # Resp(k, tokens[k], d)
    BY <1>5, ReceiveTokens
  <2>3. \A d \in Data : Resp(k, tokens[k], d) \in ToSet(f) => Resp(k, tokens[k], d) \in ToSet(f')
    BY <1>0, <2>1, <2>2, Members
  <2>4. \/ Ask(k, tokens'[k]) \in ToSet(o')
        \/ \E d \in Data : Resp(k, tokens'[k], d) \in ToSet(f')
    BY <1>2, <2>1, <2>2, <2>3
  <2> QED BY <2>4 DEF Underway, Ask, Resp
<1>6. CASE RadioOff BY <1>1, <1>6 DEF RadioOff
<1>7. CASE RadioOn BY <1>3, <1>7, MessagesTyped DEF RadioOn, driver
<1>8. ASSUME NEW j \in Kind, Change(j) PROVE Underway(k)'
  <2>1. changes + 1 \in Data BY <1>8 DEF Change, TypeOK, Data
  <2>2. /\ o' = o /\ f' = Append(f, Noti(j, changes + 1)) /\ tokens' = tokens
        /\ Noti(j, changes + 1) \in FromModem
    BY <1>8, <2>1, MessagesTyped DEF Change, driver
  <2> QED BY <1>3, <2>2
<1>9. CASE Serve
  <2> DEFINE m == Head(o)
             x == Resp(m.kind, m.token, modem[m.kind])
  <2>1. /\ o # <<>> /\ o' = Tail(o) /\ tokens' = tokens /\ m \in ToModem
        /\ \/ f' = Append(f, x) /\ x \in FromModem /\ m.what = "GET"
           \/ f' = Append(f, PhoneState) /\ m.what = "NORMAL"
           \/ f' = f /\ m.what = "LPM"
    BY <1>9, ServeIs DEF driver
  <2>2. \A y : y \in ToSet(f) => y \in ToSet(f')
    <3>1. f' = f \/ \E y \in FromModem : f' = Append(f, y) BY <2>1, MessagesTyped
    <3> QED BY <1>0, <3>1, Members
  <2>3. CASE Ask(k, tokens[k]) = m
    <3>1. m.what = "GET" /\ m.kind = k /\ m.token = tokens[k] BY <2>3 DEF Ask
    <3>2. x = Resp(k, tokens[k], modem[k]) /\ modem[k] \in Data
      BY <1>1, <3>1 DEF TypeOK
    <3>3. x \in ToSet(f')
      <4>1. f' = Append(f, x) /\ x \in FromModem BY <2>1, <3>1
      <4> HIDE DEF x
      <4> QED BY <1>0, <4>1, Members
    <3>4. \E d \in Data : Resp(k, tokens'[k], d) \in ToSet(f') BY <2>1, <3>2, <3>3
    <3> QED BY <3>4 DEF Underway, Resp
  <2>4. CASE Ask(k, tokens[k]) # m
    <3>1. Ask(k, tokens[k]) \in ToSet(o) => Ask(k, tokens[k]) \in ToSet(o')
      BY <1>0, <2>1, <2>4, Members
    <3>2. \/ Ask(k, tokens'[k]) \in ToSet(o')
          \/ \E d \in Data : Resp(k, tokens'[k], d) \in ToSet(f')
      BY <1>2, <2>1, <2>2, <3>1
    <3> QED BY <3>2 DEF Underway, Ask, Resp
  <2> QED BY <2>3, <2>4
<1>10. CASE UNCHANGED vars
  <2>1. o' = o /\ f' = f /\ tokens' = tokens BY <1>10 DEF vars, driver
  <2> QED BY <1>3, <2>1
<1> QED BY <1>4, <1>5, <1>6, <1>7, <1>8, <1>9, <1>10 DEF Next

-----------------------------------------------------------------------------
(* How old the data are.                                                   *)

Of(f, k, i) == i \in DOMAIN f /\ f[i].kind = k

(* What e says is not older than what d says, if it has an age.            *)
NotOlder(e, d) == e = 0 \/ d <= e

(* What rild was given is not older than what the driver has, that not     *)
(* older than what is on its way, in its order, and the modem's the        *)
(* newest.                                                                 *)
Aged(k) ==
  /\ info[k] <= changes /\ view[k] <= changes /\ modem[k] <= changes
  /\ NotOlder(info[k], view[k]) /\ NotOlder(modem[k], view[k]) /\ NotOlder(modem[k], info[k])
  /\ \A i : Of(fromModem, k, i) =>
        /\ fromModem[i].data <= changes
        /\ NotOlder(fromModem[i].data, view[k]) /\ NotOlder(fromModem[i].data, info[k])
        /\ NotOlder(modem[k], fromModem[i].data)
  /\ \A i, j : Of(fromModem, k, i) /\ Of(fromModem, k, j) /\ i < j =>
        NotOlder(fromModem[j].data, fromModem[i].data)

Ages == \A k \in Kind : Aged(k)

(* A received message leaves a kind's data alone, or is stored, and may be *)
(* handed to rild then.                                                    *)
LEMMA ReceiveData ==
  ASSUME TypeOK, Receive, NEW k \in Kind
  PROVE  \/ info'[k] = info[k] /\ view'[k] = view[k]
         \/ /\ Of(fromModem, k, 1) /\ info'[k] = fromModem[1].data
            /\ view'[k] = view[k] \/ view'[k] = fromModem[1].data
<1> DEFINE m == Head(fromModem)
<1>1. /\ m \in FromModem /\ m = fromModem[1] /\ 1 \in DOMAIN fromModem BY ReceiveIs
<1>2. \/ UNCHANGED <<info, view>>
      \/ /\ info' = [info EXCEPT ![m.kind] = m.data]
         /\ view' = view \/ view' = [view EXCEPT ![m.kind] = IF m.token = NoToken THEN @ ELSE m.data]
  BY ReceiveIs DEF ipc_pwr_phone_state, ipc_net_regist, ipc_net_current_plmn, Sol, Unsol, Give,
                   Refuse, rild
<1>3. m.kind \in Kind BY <1>1 DEF FromModem
<1> HIDE DEF m
<1> QED BY <1>1, <1>2, <1>3 DEF TypeOK, Of

(* A request leaves them alone, or rild is handed what the driver has.     *)
LEMMA RequestData ==
  ASSUME TypeOK, NEW t \in Token, NEW j \in Kind, Request(t, j), NEW k \in Kind
  PROVE  /\ info' = info
         /\ view'[k] = view[k] \/ (k = j /\ view'[k] = info[k])
<1>1. UNCHANGED view \/ view' = [view EXCEPT ![j] = IF t = NoToken THEN @ ELSE info[j]]
  BY DEF Request, ril_request_registration_state, ril_request_gprs_registration_state,
         ril_request_operator, RequestState, AskModem, Give, Refuse
<1>2. info' = info BY DEF Request
<1> QED BY <1>1, <1>2 DEF TypeOK

(* The data are numbers.                                                   *)
LEMMA DataTyped ==
  ASSUME TypeOK
  PROVE  /\ \A k \in Kind : info[k] \in Nat /\ view[k] \in Nat /\ modem[k] \in Nat
         /\ \A k, i : Of(fromModem, k, i) => fromModem[i].data \in Nat /\ i \in Nat \ {0}
         /\ changes \in Nat
<1>1. \A i \in DOMAIN fromModem : fromModem[i] \in FromModem /\ i \in Nat \ {0}
  BY QueuesTyped, ElementOfSeq, LenProperties
<1>2. \A i \in DOMAIN fromModem : fromModem[i].data \in Nat BY <1>1 DEF FromModem, Data
<1>3. \A d \in Data : d \in Nat BY DEF Data
<1> QED BY <1>1, <1>2, <1>3 DEF TypeOK, Of

(* The messages of a kind, when one is added.                              *)
LEMMA OfAppended ==
  ASSUME NEW s \in Seq(FromModem), NEW x \in FromModem, NEW r, r = Append(s, x), NEW k
  PROVE  /\ \A i : Of(r, k, i) => \/ Of(s, k, i) /\ r[i].data = s[i].data
                                  \/ i = Len(s) + 1 /\ r[i].data = x.data /\ x.kind = k
         /\ \A i : Of(s, k, i) => i \in Nat /\ i < Len(s) + 1
<1> DEFINE n == Len(s) + 1
<1>1. /\ \A i \in DOMAIN r : (i \in DOMAIN s /\ r[i] = s[i]) \/ (i = n /\ r[i] = x)
      /\ \A i \in DOMAIN s : i \in Nat /\ i < n
  BY AppendPlaces
<1> HIDE DEF n
<1>2. \A i : Of(s, k, i) => i \in Nat /\ i < n BY <1>1 DEF Of
<1>3. ASSUME NEW i, Of(r, k, i)
      PROVE  \/ Of(s, k, i) /\ r[i].data = s[i].data
             \/ i = n /\ r[i].data = x.data /\ x.kind = k
  <2>1. i \in DOMAIN r /\ r[i].kind = k BY <1>3 DEF Of
  <2>2. CASE i \in DOMAIN s /\ r[i] = s[i] BY <2>1, <2>2 DEF Of
  <2>3. CASE i = n /\ r[i] = x BY <2>1, <2>3
  <2> QED BY <1>1, <2>1, <2>2, <2>3
<1> QED BY <1>2, <1>3 DEF n

(* Every step keeps the ages in order.                                     *)
LEMMA AgesStep ==
  ASSUME TypeOK, Ages, [Next]_vars
  PROVE  Ages'
<1> DEFINE f == fromModem
<1>0. toModem \in Seq(ToModem) /\ f \in Seq(FromModem) BY QueuesTyped
<1> SUFFICES ASSUME NEW k \in Kind PROVE Aged(k)'
  BY DEF Ages
<1>1. /\ info[k] \in Nat /\ view[k] \in Nat /\ modem[k] \in Nat /\ changes \in Nat
      /\ \A i : Of(f, k, i) => f[i].data \in Nat /\ i \in Nat \ {0}
  BY DataTyped
<1>2. /\ info[k] <= changes /\ view[k] <= changes /\ modem[k] <= changes
      /\ NotOlder(info[k], view[k]) /\ NotOlder(modem[k], view[k]) /\ NotOlder(modem[k], info[k])
  BY DEF Ages, Aged
<1>3. \A i : Of(f, k, i) =>
         /\ f[i].data <= changes
         /\ NotOlder(f[i].data, view[k]) /\ NotOlder(f[i].data, info[k])
         /\ NotOlder(modem[k], f[i].data)
  BY DEF Ages, Aged
<1>4. \A i, j : Of(f, k, i) /\ Of(f, k, j) /\ i < j => NotOlder(f[j].data, f[i].data)
  BY DEF Ages, Aged
(* Messages that keep their order, or move up by one.                      *)
<1>5. ASSUME NEW by \in {0, 1},
             \A i : Of(f', k, i) => i \in Nat /\ Of(f, k, i + by) /\ f'[i].data = f[i + by].data
      PROVE  \A i, j : Of(f', k, i) /\ Of(f', k, j) /\ i < j => NotOlder(f'[j].data, f'[i].data)
  <2> SUFFICES ASSUME NEW i, NEW j, Of(f', k, i), Of(f', k, j), i < j
               PROVE  NotOlder(f'[j].data, f'[i].data)
    OBVIOUS
  <2>1. i + by < j + by BY <1>5
  <2> QED BY <1>4, <1>5, <2>1
<1> DEFINE Moved(by) == \A i : Of(f', k, i) =>
                          i \in Nat /\ Of(f, k, i + by) /\ f'[i].data = f[i + by].data
           Same == /\ changes' = changes /\ modem'[k] = modem[k] /\ info'[k] = info[k]
                   /\ view'[k] = view[k] \/ view'[k] = info[k]
<1>6. ASSUME Same, NEW by \in {0, 1}, Moved(by) PROVE Aged(k)'
  <2>1. /\ info'[k] <= changes' /\ view'[k] <= changes' /\ modem'[k] <= changes'
        /\ NotOlder(info'[k], view'[k]) /\ NotOlder(modem'[k], view'[k])
        /\ NotOlder(modem'[k], info'[k])
    BY <1>1, <1>2, <1>6 DEF NotOlder
  <2>2. \A i : Of(f', k, i) => /\ f'[i].data <= changes'
                               /\ NotOlder(f'[i].data, view'[k]) /\ NotOlder(f'[i].data, info'[k])
                               /\ NotOlder(modem'[k], f'[i].data)
    BY <1>3, <1>6
  <2> QED BY <1>5, <1>6, <2>1, <2>2 DEF Aged
<1>7. \A i : Of(f, k, i) => i \in Nat /\ i + 0 = i BY <1>1
<1>8. ASSUME NEW t \in Token, NEW j \in Kind, Request(t, j) PROVE Aged(k)'
  <2>1. UNCHANGED <<f, modem, changes>> BY <1>8 DEF Request
  <2>2. Same BY <1>8, <2>1, RequestData
  <2>3. Moved(0) BY <1>7, <2>1
  <2> HIDE DEF Same, Moved
  <2> QED BY <1>6, <2>2, <2>3
<1>9. CASE Receive
  <2>1. f # <<>> /\ f' = Tail(f) /\ UNCHANGED <<modem, changes>> BY <1>9, ReceiveIs
  <2>2. \A i : Of(f', k, i) => /\ i \in Nat \ {0} /\ Of(f, k, i + 1)
                               /\ f'[i].data = f[i + 1].data
    BY <1>0, <2>1, TailPlaces DEF Of
  <2>3. CASE info'[k] = info[k] /\ view'[k] = view[k]
    <3>1. Same BY <2>1, <2>3
    <3>2. Moved(1) BY <2>2
    <3> HIDE DEF Same, Moved
    <3> QED BY <1>6, <3>1, <3>2
  <2>4. CASE /\ Of(f, k, 1) /\ info'[k] = f[1].data
             /\ view'[k] = view[k] \/ view'[k] = f[1].data
    <3> DEFINE d == f[1].data
    <3>1. d \in Nat /\ d <= changes /\ NotOlder(d, view[k]) /\ NotOlder(modem[k], d)
      BY <1>1, <1>3, <2>4
    <3>2. \A i : Of(f', k, i) => NotOlder(f'[i].data, d)
      <4>1. \A i \in Nat \ {0} : 1 < i + 1 OBVIOUS
      <4> QED BY <1>4, <2>2, <2>4, <4>1
    <3>3. \A i : Of(f', k, i) => /\ f'[i].data <= changes' /\ NotOlder(f'[i].data, view[k])
                                 /\ NotOlder(modem'[k], f'[i].data)
      BY <1>3, <2>1, <2>2
    <3>4. info'[k] = d /\ (view'[k] = view[k] \/ view'[k] = d) BY <2>4
    <3> HIDE DEF d
    <3>5. \A i : Of(f', k, i) => /\ f'[i].data <= changes'
                                 /\ NotOlder(f'[i].data, view'[k]) /\ NotOlder(f'[i].data, info'[k])
                                 /\ NotOlder(modem'[k], f'[i].data)
      BY <3>2, <3>3, <3>4
    <3>6. /\ info'[k] <= changes' /\ view'[k] <= changes' /\ modem'[k] <= changes'
          /\ NotOlder(info'[k], view'[k]) /\ NotOlder(modem'[k], view'[k])
          /\ NotOlder(modem'[k], info'[k])
      BY <1>1, <1>2, <2>1, <3>1, <3>4 DEF NotOlder
    <3> QED BY <1>5, <2>2, <3>5, <3>6 DEF Aged
  <2> QED BY <1>9, <2>3, <2>4, ReceiveData
<1>10. CASE RadioOff
  <2>1. /\ f' = Forgotten(f) /\ info'[k] = 0 /\ view'[k] = 0 /\ UNCHANGED <<modem, changes>>
    BY <1>10 DEF RadioOff, Forgotten
  <2>2. \A i : Of(f', k, i) => i \in Nat /\ Of(f, k, i + 0) /\ f'[i].data = f[i + 0].data
    BY <1>0, <1>7, <2>1, ForgottenFrom DEF Of
  <2>3. \A i : Of(f', k, i) => /\ f'[i].data \in Nat /\ f'[i].data <= changes'
                               /\ NotOlder(modem'[k], f'[i].data)
    BY <1>1, <1>3, <2>1, <2>2
  <2>4. \A i : Of(f', k, i) => /\ f'[i].data <= changes'
                               /\ NotOlder(f'[i].data, view'[k]) /\ NotOlder(f'[i].data, info'[k])
                               /\ NotOlder(modem'[k], f'[i].data)
    BY <2>1, <2>3 DEF NotOlder
  <2>5. /\ info'[k] <= changes' /\ view'[k] <= changes' /\ modem'[k] <= changes'
        /\ NotOlder(info'[k], view'[k]) /\ NotOlder(modem'[k], view'[k])
        /\ NotOlder(modem'[k], info'[k])
    BY <1>1, <1>2, <2>1 DEF NotOlder
  <2> QED BY <1>5, <2>2, <2>4, <2>5 DEF Aged
<1>11. CASE RadioOn
  <2>1. UNCHANGED <<f, modem, changes, info, view>> BY <1>11 DEF RadioOn, driver, rild
  <2>2. Same /\ Moved(0) BY <1>7, <2>1
  <2> HIDE DEF Same, Moved
  <2> QED BY <1>6, <2>2
(* A message is added, with the newest data.                               *)
<1> DEFINE Newer == /\ modem'[k] \in Nat /\ changes' \in Nat /\ changes <= changes'
                    /\ modem'[k] <= changes' /\ NotOlder(modem'[k], modem[k])
                    /\ modem[k] = 0 => modem'[k] = 0 \/ changes < modem'[k]
           Newest(x) == x.kind = k => (x.data = modem'[k] \/ x.data = 0)
<1>12. ASSUME UNCHANGED <<info, view>>, NEW x \in FromModem, f' = Append(f, x), Newer, Newest(x)
       PROVE  Aged(k)'
  <2>1. /\ \A i \in DOMAIN f' : (i \in DOMAIN f /\ f'[i] = f[i]) \/ (i = Len(f) + 1 /\ f'[i] = x)
        /\ \A i \in DOMAIN f : i \in Nat /\ i < Len(f) + 1
        /\ Len(f) \in Nat
    BY <1>0, <1>12, AppendPlaces
  <2>2. /\ \A i : Of(f', k, i) => \/ Of(f, k, i) /\ f'[i].data = f[i].data
                                  \/ i = Len(f) + 1 /\ f'[i].data = x.data /\ x.kind = k
        /\ \A i : Of(f, k, i) => i \in Nat /\ i < Len(f) + 1
    <3>1. f \in Seq(FromModem) /\ f' = Append(f, x) BY <1>0, <1>12
    <3> QED BY <3>1, <1>12, OfAppended, Zenon
  <2>3. \A d \in Nat : d <= changes /\ NotOlder(modem[k], d) => NotOlder(modem'[k], d)
    BY <1>1, <1>12 DEF NotOlder
  <2>4. /\ info'[k] <= changes' /\ view'[k] <= changes' /\ modem'[k] <= changes'
        /\ NotOlder(info'[k], view'[k]) /\ NotOlder(modem'[k], view'[k])
        /\ NotOlder(modem'[k], info'[k])
    <3>1. info' = info /\ view' = view /\ changes <= changes' /\ modem'[k] <= changes'
          /\ changes' \in Nat
      BY <1>12
    <3>2. info'[k] <= changes' /\ view'[k] <= changes' BY <1>1, <1>2, <3>1
    <3>3. NotOlder(modem'[k], view[k]) /\ NotOlder(modem'[k], info[k]) BY <1>1, <1>2, <2>3
    <3> QED BY <1>2, <3>1, <3>2, <3>3
  <2>5. x.kind = k => /\ x.data \in Nat /\ x.data <= changes'
                      /\ \A d \in Nat : NotOlder(modem'[k], d) => NotOlder(x.data, d)
                      /\ NotOlder(modem'[k], x.data)
    BY <1>12 DEF NotOlder
  <2>6. \A i : Of(f, k, i) => /\ f[i].data <= changes' /\ NotOlder(modem'[k], f[i].data)
    <3>1. changes' \in Nat /\ changes <= changes' BY <1>12
    <3> QED BY <1>1, <1>3, <2>3, <3>1
  <2>7. \A i : Of(f', k, i) => /\ f'[i].data <= changes'
                               /\ NotOlder(f'[i].data, view'[k]) /\ NotOlder(f'[i].data, info'[k])
                               /\ NotOlder(modem'[k], f'[i].data)
    <3> SUFFICES ASSUME NEW i, Of(f', k, i)
                 PROVE  /\ f'[i].data <= changes'
                        /\ NotOlder(f'[i].data, view'[k]) /\ NotOlder(f'[i].data, info'[k])
                        /\ NotOlder(modem'[k], f'[i].data)
      OBVIOUS
    <3>1. CASE Of(f, k, i) /\ f'[i].data = f[i].data BY <1>3, <1>12, <2>6, <3>1
    <3>2. CASE f'[i].data = x.data /\ x.kind = k BY <1>1, <1>12, <2>4, <2>5, <3>2
    <3> QED BY <2>2, <3>1, <3>2
  <2>8. \A i, j : Of(f', k, i) /\ Of(f', k, j) /\ i < j => NotOlder(f'[j].data, f'[i].data)
    <3> SUFFICES ASSUME NEW i, NEW j, Of(f', k, i), Of(f', k, j), i < j
                 PROVE  NotOlder(f'[j].data, f'[i].data)
      OBVIOUS
    <3>1. i # Len(f) + 1
      <4>1. j \in Nat /\ j <= Len(f) + 1 BY <2>1, <2>2
      <4> QED BY <2>1, <4>1
    <3>2. Of(f, k, i) /\ f'[i].data = f[i].data BY <2>2, <3>1
    <3>3. CASE Of(f, k, j) /\ f'[j].data = f[j].data BY <1>4, <3>2, <3>3
    <3>4. CASE f'[j].data = x.data /\ x.kind = k BY <1>1, <2>5, <2>6, <3>2, <3>4
    <3> QED BY <2>2, <3>3, <3>4
  <2> QED BY <2>4, <2>7, <2>8 DEF Aged
<1>13. ASSUME NEW j \in Kind, Change(j) PROVE Aged(k)'
  <2> DEFINE x == Noti(j, changes + 1)
  <2>1. /\ UNCHANGED <<info, view>> /\ f' = Append(f, x) /\ changes' = changes + 1
        /\ modem' = [modem EXCEPT ![j] = changes + 1] /\ changes + 1 \in Data
    BY <1>13 DEF Change, driver, rild, TypeOK, Data
  <2>2. x \in FromModem /\ x.kind = j /\ x.data = changes + 1 BY <2>1, MessagesTyped, SentFields
  <2> HIDE DEF x
  <2>3. modem'[k] = IF k = j THEN changes + 1 ELSE modem[k] BY <2>1 DEF TypeOK
  <2>4. /\ modem'[k] \in Nat /\ changes' \in Nat /\ changes <= changes' /\ modem'[k] <= changes'
        /\ NotOlder(modem'[k], modem[k])
        /\ modem[k] = 0 => modem'[k] = 0 \/ changes < modem'[k]
    BY <1>1, <1>2, <2>1, <2>3 DEF NotOlder
  <2>5. Newer BY <2>4
  <2>6. Newest(x) BY <2>2, <2>3
  <2> HIDE DEF Newer, Newest
  <2> QED BY <1>12, <2>1, <2>2, <2>5, <2>6
<1>14. CASE Serve
  <2> DEFINE m == Head(toModem)
             x == Resp(m.kind, m.token, modem[m.kind])
  <2>1. UNCHANGED <<info, view, changes>> BY <1>14, ServeIs DEF driver, rild
  <2>2. CASE f' = Append(f, x) /\ x \in FromModem /\ UNCHANGED modem
    <3>1. x.kind = m.kind /\ x.data = modem[m.kind] BY SentFields
    <3> HIDE DEF x
    <3>2. Newer BY <1>1, <1>2, <2>1, <2>2 DEF NotOlder
    <3>3. Newest(x) BY <2>2, <3>1
    <3>4. f' = Append(f, x) /\ x \in FromModem /\ UNCHANGED <<info, view>> BY <2>1, <2>2
    <3> HIDE DEF m, Newer, Newest
    <3> QED BY <1>12, <3>2, <3>3, <3>4
  <2>3. CASE f' = Append(f, PhoneState) /\ UNCHANGED modem
    <3> DEFINE y == PhoneState
    <3>1. y \in FromModem /\ y.data = 0 BY MessagesTyped, SentFields
    <3>2. f' = Append(f, y) BY <2>3
    <3> HIDE DEF y
    <3>3. Newer BY <1>1, <1>2, <2>1, <2>3 DEF NotOlder
    <3>4. UNCHANGED <<info, view>> BY <2>1
    <3>5. Newest(y) BY <3>1
    <3> HIDE DEF Newer, Newest
    <3> QED BY <1>12, <3>1, <3>2, <3>3, <3>4, <3>5
  <2>4. CASE UNCHANGED f /\ modem' = [i \in Kind |-> 0]
    <3>1. modem'[k] = 0 BY <2>4
    <3>2. \A i : Of(f', k, i) => i \in Nat /\ Of(f, k, i + 0) /\ f'[i].data = f[i + 0].data
      BY <1>7, <2>4
    <3> QED BY <1>1, <1>2, <1>3, <1>5, <2>1, <2>4, <3>1, <3>2 DEF Aged, NotOlder
  <2> QED BY <1>14, <2>2, <2>3, <2>4, ServeIs
<1>15. CASE UNCHANGED vars
  <2>1. UNCHANGED <<f, modem, changes, info, view>> BY <1>15 DEF vars, driver, rild
  <2>2. Same /\ Moved(0) BY <1>7, <2>1
  <2> HIDE DEF Same, Moved
  <2> QED BY <1>6, <2>2
<1> QED BY <1>8, <1>9, <1>10, <1>11, <1>13, <1>14, <1>15 DEF Next

(* The ages are always in order.                                           *)
LEMMA AgesAlways == Spec => []Ages
<1>1. Init => Ages
  <2> SUFFICES ASSUME Init PROVE Ages OBVIOUS
  <2>1. changes = 0 /\ DOMAIN fromModem = {} BY DEF Init
  <2>2. \A k \in Kind : info[k] = 0 /\ view[k] = 0 /\ modem[k] = 0 BY DEF Init
  <2> QED BY <2>1, <2>2 DEF Ages, Aged, Of, NotOlder
<1>2. IInv /\ Ages /\ [Next]_vars => Ages' BY AgesStep DEF IInv
<1> QED BY <1>1, <1>2, IInvAlways, PTL DEF Spec

(* Stored and fresh answers may cross, and yet rild is never given older   *)
(* data after newer ones, until the radio is switched off.                 *)
THEOREM NewestDataLast == Spec => NewestLast
<1> DEFINE Newer == normal' => \A k \in Kind : view'[k] # 0 => view'[k] >= view[k]
<1>1. ASSUME TypeOK, Ages, [Next]_vars, normal', NEW k \in Kind, view'[k] # 0
      PROVE  view'[k] >= view[k]
  <2>1. view[k] \in Nat /\ info[k] \in Nat /\ NotOlder(info[k], view[k])
    BY <1>1, DataTyped DEF Ages, Aged
  <2>2. CASE view'[k] = view[k] BY <2>1, <2>2
  <2>3. CASE view'[k] = info[k] BY <1>1, <2>1, <2>3 DEF NotOlder
  <2>4. ASSUME NEW t \in Token, NEW j \in Kind, Request(t, j) PROVE view'[k] >= view[k]
    BY <1>1, <2>2, <2>3, <2>4, RequestData
  <2>5. CASE Receive
    <3>1. CASE Of(fromModem, k, 1) /\ view'[k] = fromModem[1].data
      <4>1. /\ NotOlder(fromModem[1].data, view[k]) /\ fromModem[1].data \in Nat
        BY <1>1, <3>1, DataTyped DEF Ages, Aged
      <4> QED BY <1>1, <2>1, <3>1, <4>1 DEF NotOlder
    <3> QED BY <1>1, <2>2, <2>5, <3>1, ReceiveData
  <2>6. CASE RadioOff BY <1>1, <2>6 DEF RadioOff
  <2> QED BY <1>1, <2>2, <2>4, <2>5, <2>6 DEF Next, vars, rild, RadioOn, Change, Serve
<1>2. TypeOK /\ Ages /\ [Next]_vars => [Newer]_vars BY <1>1
<1>3. IInv => TypeOK BY DEF IInv
<1> QED BY <1>2, <1>3, IInvAlways, AgesAlways, PTL DEF Spec, NewestLast

-----------------------------------------------------------------------------
(* rild knows the registration state.                                      *)

(* The last message of the kind.                                           *)
LastOf(f, i) == Of(f, "GSM", i) /\ \A j : Of(f, "GSM", j) => j <= i

(* The driver will take it, by what it is or by what it receives before.   *)
Taken(n, f, i) == n \/ \E p \in DOMAIN f : p <= i /\ f[p].type = "NORMAL"

(* The last message that will be taken says what the modem's state is.     *)
Newest ==
  \A i : LastOf(fromModem, i) /\ Taken(normal, fromModem, i) =>
           fromModem[i].data = modem["GSM"]

(* A question, or its answer, is on its way; nothing of the kind is.       *)
Asked == \E i \in DOMAIN toModem : toModem[i].what = "GET" /\ toModem[i].kind = "GSM"
Due   == Asked \/ \E i : Of(fromModem, "GSM", i) /\ fromModem[i].type = "RESP"
Quiet == ~ Asked /\ \A i : ~ Of(fromModem, "GSM", i)

(* What the driver has is right, and what rild has, unless something is on *)
(* its way, or rild has been told to ask.                                  *)
Known ==
  normal => /\ Quiet => info["GSM"] = modem["GSM"]
            /\ tokens["GSM"] = Waiting => "GSM" \in told
            /\ "GSM" \notin told /\ ~ Due => view["GSM"] = info["GSM"]

(* A message is added.                                                     *)
LEMMA NewestAdded ==
  ASSUME TypeOK, Newest, normal' = normal,
         NEW x \in FromModem, fromModem' = Append(fromModem, x),
         x.kind = "GSM" => x.data = modem'["GSM"],
         x.kind # "GSM" => x.type # "NORMAL" /\ modem'["GSM"] = modem["GSM"]
  PROVE  Newest'
<1> DEFINE f == fromModem
           n == Len(f) + 1
<1>0. f \in Seq(FromModem) BY QueuesTyped
<1>1. /\ n \in DOMAIN f' /\ f'[n] = x
      /\ \A i \in DOMAIN f : i \in Nat \ {0} /\ i < n /\ i \in DOMAIN f' /\ f'[i] = f[i]
      /\ \A i \in DOMAIN f' : i \in DOMAIN f \/ i = n
      /\ n \in Nat
  BY <1>0, AppendPlaces
<1> HIDE DEF n
<1> SUFFICES ASSUME NEW i, LastOf(f', i), Taken(normal', f', i)
             PROVE  f'[i].data = modem'["GSM"]
  BY DEF Newest
<1>2. i \in DOMAIN f' /\ f'[i].kind = "GSM" BY DEF LastOf, Of
<1>3. CASE x.kind = "GSM"
  <2>1. n <= i BY <1>1, <1>3 DEF LastOf, Of
  <2>2. i = n BY <1>1, <1>2, <2>1
  <2> QED BY <1>1, <1>3, <2>2
<1>4. CASE x.kind # "GSM"
  <2>1. i \in DOMAIN f /\ f'[i] = f[i] BY <1>1, <1>2, <1>4
  <2>2. LastOf(f, i) BY <1>1, <1>2, <2>1 DEF LastOf, Of
  <2>3. Taken(normal, f, i) BY <1>1, <1>4 DEF Taken
  <2> QED BY <1>4, <2>1, <2>2, <2>3 DEF Newest
<1> QED BY <1>3, <1>4

(* Every step keeps the last message on its way the newest.                *)
LEMMA NewestStep ==
  ASSUME TypeOK, Phases, Newest, [Next]_vars
  PROVE  Newest'
<1> DEFINE f == fromModem
           o == toModem
<1>0. o \in Seq(ToModem) /\ f \in Seq(FromModem) /\ "GSM" \in Kind BY QueuesTyped DEF Kind
<1>1. CASE UNCHANGED <<f, modem, normal>> BY <1>1 DEF Newest, LastOf, Taken, Of
<1>2. CASE Receive
  <2>1. f # <<>> /\ f' = Tail(f) /\ modem' = modem /\ Head(f) = f[1] /\ 1 \in DOMAIN f
    BY <1>2, ReceiveIs
  <2>2. /\ \A i \in DOMAIN f' : i \in Nat \ {0} /\ i + 1 \in DOMAIN f /\ f'[i] = f[i + 1]
        /\ \A i \in DOMAIN f : /\ i \in Nat \ {0}
                               /\ i # 1 => i - 1 \in DOMAIN f' /\ f'[i - 1] = f[i]
    BY <1>0, <2>1, TailPlaces
  <2>3. normal' = normal \/ f[1].type = "NORMAL" BY <1>2, <2>1, ReceiveIs
  <2> SUFFICES ASSUME NEW i, LastOf(f', i), Taken(normal', f', i)
               PROVE  f'[i].data = modem'["GSM"]
    BY DEF Newest
  <2>4. i \in DOMAIN f' /\ f'[i].kind = "GSM" BY DEF LastOf, Of
  <2>5. Of(f, "GSM", i + 1) BY <2>2, <2>4 DEF Of
  <2>6. ASSUME NEW j, Of(f, "GSM", j) PROVE j <= i + 1
    <3>1. j \in DOMAIN f /\ f[j].kind = "GSM" BY <2>6 DEF Of
    <3>2. CASE j = 1 BY <2>2, <2>4, <3>2
    <3>3. CASE j # 1
      <4>1. Of(f', "GSM", j - 1) BY <2>2, <3>1, <3>3 DEF Of
      <4>2. j - 1 <= i BY <4>1 DEF LastOf
      <4> QED BY <2>2, <2>4, <3>1, <4>2
    <3> QED BY <3>2, <3>3
  <2>7. Taken(normal, f, i + 1)
    <3>1. CASE normal BY <3>1 DEF Taken
    <3>2. CASE f[1].type = "NORMAL"
      <4>1. 1 <= i + 1 BY <2>2, <2>4
      <4> QED BY <2>1, <3>2, <4>1 DEF Taken
    <3>3. ASSUME NEW p \in DOMAIN f', p <= i, f'[p].type = "NORMAL" PROVE Taken(normal, f, i + 1)
      <4>1. p + 1 \in DOMAIN f /\ f[p + 1].type = "NORMAL" BY <2>2, <3>3
      <4>2. p + 1 <= i + 1 BY <2>2, <2>4, <3>3
      <4> QED BY <4>1, <4>2 DEF Taken
    <3> QED BY <2>3, <3>1, <3>2, <3>3 DEF Taken
  <2>8. f[i + 1].data = modem["GSM"] BY <2>5, <2>6, <2>7 DEF Newest, LastOf
  <2> QED BY <2>1, <2>2, <2>4, <2>8
<1>3. CASE RadioOff
  <2>1. f' = Forgotten(f) /\ normal /\ ~ normal' BY <1>3 DEF RadioOff, Forgotten
  <2>2. \A i \in DOMAIN f' : f'[i].type # "NORMAL"
    BY <1>0, <2>1, ForgottenFrom DEF Phases, Operating
  <2> QED BY <2>1, <2>2 DEF Newest, Taken
<1>4. ASSUME NEW k \in Kind, Change(k) PROVE Newest'
  <2> DEFINE x == Noti(k, changes + 1)
  <2>1. /\ f' = Append(f, x) /\ modem' = [modem EXCEPT ![k] = changes + 1] /\ normal' = normal
        /\ changes + 1 \in Data
    BY <1>4 DEF Change, driver, TypeOK, Data
  <2>2. x \in FromModem /\ x.kind = k /\ x.data = changes + 1 /\ x.type # "NORMAL"
    BY <2>1, MessagesTyped, SentFields
  <2> HIDE DEF x
  <2>3. modem'["GSM"] = IF k = "GSM" THEN changes + 1 ELSE modem["GSM"]
    BY <1>0, <2>1 DEF TypeOK
  <2> QED BY <2>1, <2>2, <2>3, NewestAdded
<1>5. CASE Serve
  <2> DEFINE m == Head(o)
             x == Resp(m.kind, m.token, modem[m.kind])
  <2>1. m = o[1] /\ 1 \in DOMAIN o /\ normal' = normal BY <1>5, ServeIs DEF driver
  <2>2. CASE f' = Append(f, x) /\ x \in FromModem /\ modem' = modem
    <3>1. x.kind = m.kind /\ x.data = modem[m.kind] /\ x.type # "NORMAL" BY SentFields
    <3> HIDE DEF x, m
    <3> QED BY <2>1, <2>2, <3>1, NewestAdded
  <2>3. CASE m.what = "NORMAL" /\ f' = Append(f, PhoneState) /\ modem' = modem
    <3>1. ~ normal /\ Booting(o, f) BY <2>1, <2>3 DEF Phases, Operating
    <3>2. Len(o) = 1 /\ \A j \in DOMAIN f : f[j].type # "NORMAL" BY <2>1, <2>3, <3>1 DEF Booting
    <3>3. \A i \in DOMAIN o : i = 1 BY <1>0, <3>2, LenProperties
    <3>4. Down(o, f) BY <2>1, <2>3, <3>2, <3>3 DEF Down
    <3>5. modem'["GSM"] = 0 BY <2>3, <3>1, <3>4 DEF Phases
    <3>6. PhoneState \in FromModem /\ PhoneState.kind = "GSM" /\ PhoneState.data = 0
      BY MessagesTyped, SentFields
    <3> DEFINE y == PhoneState
    <3>7. y \in FromModem /\ y.kind = "GSM" /\ y.data = 0 /\ f' = Append(f, y) BY <2>3, <3>6
    <3> HIDE DEF y
    <3> QED BY <2>1, <3>5, <3>7, NewestAdded
  <2>4. CASE m.what = "LPM" /\ f' = f
    <3>1. ~ normal /\ Booting(o, f) /\ o # <<>>
      BY <1>5, <2>1, <2>4, ServeIs DEF Phases, Operating
    <3>2. \A p \in DOMAIN f : f[p].type # "NORMAL" BY <3>1 DEF Booting
    <3> QED BY <2>1, <2>4, <3>1, <3>2 DEF Newest, Taken
  <2> QED BY <1>5, <2>2, <2>3, <2>4, ServeIs
<1> QED BY <1>1, <1>2, <1>3, <1>4, <1>5 DEF Next, Request, RadioOn, driver, vars

(* What rild and the driver have is left alone, and no fewer messages are  *)
(* on their way.                                                           *)
LEMMA KnownKept ==
  ASSUME Known, normal' => normal,
         info'["GSM"] = info["GSM"], view'["GSM"] = view["GSM"],
         tokens'["GSM"] = tokens["GSM"] \/ tokens'["GSM"] # Waiting,
         "GSM" \in told' <=> "GSM" \in told,
         Quiet' => Quiet /\ modem'["GSM"] = modem["GSM"],
         Due => Due'
  PROVE  Known'
BY DEF Known

(* A request keeps what the driver and rild know, or has its question      *)
(* sent.                                                                   *)
LEMMA KnownRequest ==
  ASSUME TypeOK, Known, NEW t \in Token, NEW k \in Kind, Request(t, k)
  PROVE  Known'
<1> DEFINE f == fromModem
           o == toModem
<1>0. o \in Seq(ToModem) /\ "GSM" \in Kind /\ t # NoToken /\ t # Waiting
  BY QueuesTyped DEF Kind
<1>1. /\ normal /\ f' = f /\ modem' = modem /\ info' = info /\ told' = told \ {k}
      /\ normal' = normal
  BY DEF Request
<1>2. CASE AskModem(t, k)
  <2> DEFINE x == Ask(k, t)
  <2>1. /\ tokens' = [tokens EXCEPT ![k] = t] /\ o' = Append(o, x) /\ view' = view
        /\ x \in ToModem /\ x.what = "GET" /\ x.kind = k
    BY <1>2, MessagesTyped, SentFields DEF AskModem, MaybeToken
  <2> HIDE DEF x
  <2>2. /\ Len(o) + 1 \in DOMAIN o' /\ o'[Len(o) + 1] = x
        /\ \A i \in DOMAIN o : i \in DOMAIN o' /\ o'[i] = o[i]
    BY <1>0, <2>1, AppendPlaces
  <2>3. CASE k = "GSM"
    <3>1. Asked' BY <2>1, <2>2, <2>3 DEF Asked
    <3>2. tokens'["GSM"] # Waiting BY <1>0, <2>1, <2>3 DEF TypeOK
    <3> QED BY <3>1, <3>2 DEF Known, Quiet, Due
  <2>4. CASE k # "GSM"
    <3>1. Asked => Asked' BY <2>2 DEF Asked
    <3>2. (Quiet' => Quiet) /\ (Due => Due') BY <1>1, <3>1 DEF Quiet, Due, Of
    <3>3. tokens'["GSM"] = tokens["GSM"] BY <1>0, <2>1, <2>4 DEF TypeOK
    <3> QED BY <1>1, <2>1, <2>4, <3>2, <3>3, KnownKept
  <2> QED BY <2>3, <2>4
<1>3. CASE /\ o' = o
           /\ \/ /\ tokens' = [tokens EXCEPT ![k] = IF @ = Waiting THEN NoToken ELSE @]
                 /\ view' = [view EXCEPT ![k] = IF t = NoToken THEN @ ELSE info[k]]
              \/ /\ k = "PLMN" /\ tokens' = [tokens EXCEPT !["PLMN"] = NoToken]
                 /\ UNCHANGED view
  <2>1. CASE k = "GSM"
    <3>1. view'["GSM"] = info["GSM"] /\ tokens'["GSM"] # Waiting
      BY <1>0, <1>3, <2>1, MarksAssumption DEF TypeOK
    <3>2. Quiet' => Quiet BY <1>1, <1>3 DEF Quiet, Asked, Of
    <3> QED BY <1>1, <3>1, <3>2 DEF Known
  <2>2. CASE k # "GSM"
    <3>1. view'["GSM"] = view["GSM"] /\ tokens'["GSM"] = tokens["GSM"]
      BY <1>0, <1>3, <2>2 DEF TypeOK
    <3>2. (Quiet' => Quiet) /\ (Due => Due') BY <1>1, <1>3 DEF Quiet, Due, Asked, Of
    <3> QED BY <1>1, <2>2, <3>1, <3>2, KnownKept
  <2> QED BY <2>1, <2>2
<1> QED BY <1>2, <1>3
     DEF Request, ril_request_registration_state, ril_request_gprs_registration_state,
         ril_request_operator, RequestState, Give, Refuse

(* A message of another kind may have rild told to ask.                    *)
GsmKept ==
  /\ info'["GSM"] = info["GSM"] /\ view'["GSM"] = view["GSM"]
  /\ \/ told' = told /\ tokens'["GSM"] = tokens["GSM"]
     \/ told' = Kind

(* What the driver's receiving a message does to what is known.            *)
LEMMA ReceiveGsm ==
  ASSUME TypeOK, Phases, Receive, normal
  PROVE  LET m == Head(fromModem)
         IN  /\ normal' = normal
             /\ \/ /\ m.kind = "GSM" /\ m.type = "NOTI" /\ tokens["GSM"] \in Token
                   /\ UNCHANGED <<tokens, info, told, view>>
                \/ /\ m.kind = "GSM" /\ m.type = "NOTI"
                   /\ info'["GSM"] = m.data
                   /\ \/ tokens["GSM"] = Waiting /\ UNCHANGED <<tokens, told>>
                      \/ told' = Kind
                \/ /\ m.kind = "GSM" /\ m.type = "RESP"
                   /\ info'["GSM"] = m.data /\ view'["GSM"] = m.data
                   /\ told' = told
                   /\ tokens'["GSM"] = tokens["GSM"] \/ tokens'["GSM"] # Waiting
                \/ m.kind # "GSM" /\ GsmKept
<1> DEFINE m == Head(fromModem)
<1>1. /\ m \in FromModem /\ m = fromModem[1] /\ 1 \in DOMAIN fromModem BY ReceiveIs
<1>2. m.type # "NORMAL" /\ (m.type = "RESP" => m.token \in Token)
  BY <1>1 DEF Phases, Operating
<1>3. /\ normal' = normal
      /\ \/ m.kind # "PLMN" /\ ipc_net_regist(m)
         \/ m.kind = "PLMN" /\ ipc_net_current_plmn(m)
  BY <1>2, ReceiveIs
<1>4. m.kind \in Kind /\ m.data \in Data /\ "GSM" \in Kind BY <1>1 DEF FromModem, Kind
<1> HIDE DEF m
<1>5. CASE m.kind = "GSM"
  <2>1. CASE m.type = "NOTI" /\ Unsol("GSM", m.data) /\ UNCHANGED rild
    BY <1>2, <1>3, <1>4, <1>5, <2>1 DEF Unsol, rild, TypeOK, m
  <2>2. CASE m.type = "RESP" /\ Sol(m.token, "GSM", m.data)
    <3>1. view'["GSM"] = m.data /\ info'["GSM"] = m.data /\ told' = told
      BY <1>2, <1>4, <2>2 DEF Sol, Give, TypeOK
    <3>2. tokens'["GSM"] = tokens["GSM"] \/ tokens'["GSM"] = NoToken
      BY <1>4, <2>2 DEF Sol, Cleared, TypeOK
    <3> QED BY <1>3, <1>5, <2>2, <3>1, <3>2 DEF m
  <2> QED BY <1>3, <1>5, <2>1, <2>2 DEF ipc_net_regist
<1>6. ASSUME m.kind # "GSM", NEW j \in Kind, j # "GSM", Unsol(j, m.data), UNCHANGED rild PROVE GsmKept
  BY <1>4, <1>6 DEF Unsol, rild, TypeOK, GsmKept
<1>7. ASSUME m.kind # "GSM", NEW j \in Kind, j # "GSM",
             info' = [info EXCEPT ![j] = m.data],
             tokens' = tokens \/ tokens' = Cleared(j), UNCHANGED told,
             UNCHANGED view \/ view' = [view EXCEPT ![j] = IF m.token = NoToken THEN @ ELSE m.data]
      PROVE  GsmKept
  BY <1>4, <1>7 DEF Cleared, TypeOK, GsmKept
<1>8. CASE m.kind # "GSM"
  <2>1. ASSUME m.kind # "PLMN", ipc_net_regist(m) PROVE GsmKept
    <3>1. \/ Unsol(m.kind, m.data) /\ UNCHANGED rild
          \/ Sol(m.token, m.kind, m.data)
      BY <2>1 DEF ipc_net_regist
    <3>2. CASE Unsol(m.kind, m.data) /\ UNCHANGED rild BY <1>4, <1>6, <1>8, <3>2
    <3>3. CASE Sol(m.token, m.kind, m.data)
      BY <1>4, <1>7, <1>8, <3>3 DEF Sol, Give
    <3> QED BY <3>1, <3>2, <3>3
  <2>2. ASSUME m.kind = "PLMN", ipc_net_current_plmn(m) PROVE GsmKept
    <3>1. \/ Unsol("PLMN", m.data) /\ UNCHANGED rild
          \/ /\ info' = [info EXCEPT !["PLMN"] = m.data]
             /\ tokens' = tokens \/ tokens' = Cleared("PLMN")
             /\ UNCHANGED told
             /\ UNCHANGED view \/ view' = [view EXCEPT !["PLMN"] = IF m.token = NoToken THEN @ ELSE m.data]
      BY <2>2 DEF ipc_net_current_plmn, Sol, Give, Refuse, rild
    <3>2. "PLMN" \in Kind /\ "PLMN" # "GSM" BY DEF Kind
    <3> QED BY <1>6, <1>7, <1>8, <3>1, <3>2
  <2>3. GsmKept BY <1>3, <2>1, <2>2
  <2> QED BY <1>3, <1>8, <2>3 DEF m
<1> QED BY <1>5, <1>8

(* What the driver receives it knows, and it hands it to rild or tells     *)
(* rild to ask.                                                            *)
LEMMA KnownReceive ==
  ASSUME TypeOK, Phases, NoStuckToken, Newest, Known, Receive
  PROVE  Known'
<1> DEFINE f == fromModem
           m == Head(f)
<1>0. toModem \in Seq(ToModem) /\ f \in Seq(FromModem) /\ "GSM" \in Kind
  BY QueuesTyped DEF Kind
<1>1. /\ f # <<>> /\ f' = Tail(f) /\ UNCHANGED <<toModem, modem>>
      /\ m = f[1] /\ 1 \in DOMAIN f /\ m \in FromModem
  BY ReceiveIs
<1>2. \A i \in DOMAIN f : i \in Nat \ {0} /\ (i # 1 => i - 1 \in DOMAIN f' /\ f'[i - 1] = f[i])
  BY <1>0, <1>1, TailPlaces
<1>3. Asked' <=> Asked BY <1>1 DEF Asked
(* Once nothing is on its way, the message was the last.                   *)
<1>4. ASSUME Quiet', m.kind = "GSM", normal \/ m.type = "NORMAL"
      PROVE  m.data = modem'["GSM"]
  <2>1. \A j : Of(f, "GSM", j) => j = 1 BY <1>2, <1>4 DEF Quiet, Of
  <2>2. LastOf(f, 1) BY <1>1, <1>4, <2>1 DEF LastOf, Of
  <2>3. Taken(normal, f, 1) BY <1>1, <1>4 DEF Taken
  <2> QED BY <1>1, <2>2, <2>3 DEF Newest
<1>5. CASE ~ normal
  <2>1. CASE m.type = "NORMAL"
    <3>1. m = PhoneState BY <1>1, <2>1 DEF Phases, Shape
    <3>2. info'["GSM"] = 0 /\ told' = Kind
      BY <1>5, <2>1, ReceiveIs DEF ipc_pwr_phone_state, Phases
    <3>3. Quiet' => modem'["GSM"] = 0 BY <1>4, <2>1, <3>1, SentFields
    <3> QED BY <1>0, <3>2, <3>3 DEF Known
  <2>2. CASE m.type # "NORMAL" BY <1>5, <2>2, ReceiveIs DEF Known
  <2> QED BY <2>1, <2>2
<1>6. CASE normal
  <2>1. CASE m.kind = "GSM" /\ m.type = "NOTI" /\ tokens["GSM"] \in Token
             /\ UNCHANGED <<tokens, info, told, view>>
    <3>1. Asked \/ \E i : Of(f', "GSM", i) /\ f'[i].type = "RESP"
      <4>1. Underway("GSM") BY <2>1 DEF NoStuckToken
      <4>2. CASE Ask("GSM", tokens["GSM"]) \in ToSet(toModem)
        <5>1. PICK i \in DOMAIN toModem : toModem[i] = Ask("GSM", tokens["GSM"])
          BY <4>2 DEF ToSet
        <5> QED BY <5>1, SentFields DEF Asked
      <4>3. ASSUME NEW d \in Data, Resp("GSM", tokens["GSM"], d) \in ToSet(f)
            PROVE  \E i : Of(f', "GSM", i) /\ f'[i].type = "RESP"
        <5>1. PICK i \in DOMAIN f : f[i] = Resp("GSM", tokens["GSM"], d)
          BY <4>3 DEF ToSet
        <5>2. f[i].type = "RESP" /\ f[i].kind = "GSM" BY <5>1, SentFields
        <5>3. i # 1 BY <1>1, <2>1, <5>2
        <5>4. Of(f', "GSM", i - 1) /\ f'[i - 1].type = "RESP" BY <1>2, <5>1, <5>2, <5>3 DEF Of
        <5> QED BY <5>4
      <4> QED BY <4>1, <4>2, <4>3 DEF Underway
    <3>2. ~ Quiet' /\ Due' BY <1>3, <3>1 DEF Quiet, Due
    <3>3. tokens'["GSM"] # Waiting BY <2>1, MarksAssumption
    <3> QED BY <3>2, <3>3 DEF Known
  <2>2. CASE /\ m.kind = "GSM" /\ m.type = "NOTI" /\ info'["GSM"] = m.data
             /\ \/ tokens["GSM"] = Waiting /\ UNCHANGED <<tokens, told>>
                \/ told' = Kind
    <3>1. "GSM" \in told' BY <1>0, <1>6, <2>2 DEF Known
    <3> QED BY <1>4, <1>6, <2>2, <3>1 DEF Known
  <2>3. CASE /\ m.kind = "GSM" /\ m.type = "RESP"
             /\ info'["GSM"] = m.data /\ view'["GSM"] = m.data
             /\ told' = told
             /\ tokens'["GSM"] = tokens["GSM"] \/ tokens'["GSM"] # Waiting
    BY <1>4, <1>6, <2>3 DEF Known
  <2>4. CASE m.kind # "GSM" /\ GsmKept
    <3>1. \A j : Of(f, "GSM", j) => Of(f', "GSM", j - 1) /\ f'[j - 1].type = f[j].type
      BY <1>1, <1>2, <2>4 DEF Of
    <3>2. Quiet' => Quiet BY <1>3, <3>1 DEF Quiet
    <3>3. Due => Due' BY <1>3, <3>1 DEF Due
    <3>4. CASE told' = told /\ tokens'["GSM"] = tokens["GSM"]
      BY <1>1, <1>6, <2>4, <3>2, <3>3, <3>4, KnownKept DEF GsmKept
    <3>5. CASE told' = Kind
      BY <1>0, <1>1, <1>6, <2>4, <3>2, <3>5 DEF GsmKept, Known
    <3> QED BY <2>4, <3>4, <3>5 DEF GsmKept
  <2> QED BY <1>6, <2>1, <2>2, <2>3, <2>4, ReceiveGsm
<1> QED BY <1>5, <1>6

(* A message is added to those from the modem.                             *)
LEMMA KnownAdded ==
  ASSUME TypeOK, Known, UNCHANGED <<driver, told, rild>>,
         NEW x \in FromModem, fromModem' = Append(fromModem, x),
         Asked => Asked' \/ (x.kind = "GSM" /\ x.type = "RESP"),
         x.kind # "GSM" => modem'["GSM"] = modem["GSM"]
  PROVE  Known'
<1> DEFINE f == fromModem
           n == Len(f) + 1
<1>1. /\ n \in DOMAIN f' /\ f'[n] = x
      /\ \A i \in DOMAIN f : i \in DOMAIN f' /\ f'[i] = f[i]
  BY QueuesTyped, AppendPlaces
<1> HIDE DEF n
<1>2. \A i : Of(f, "GSM", i) => Of(f', "GSM", i) /\ f'[i].type = f[i].type BY <1>1 DEF Of
<1>3. x.kind = "GSM" => Of(f', "GSM", n) BY <1>1 DEF Of
<1>4. x.kind = "GSM" => ~ Quiet' BY <1>3 DEF Quiet
<1>5. x.kind # "GSM" => (Quiet' => Quiet) BY <1>2 DEF Quiet
<1>6. Due => Due' BY <1>1, <1>2, <1>3 DEF Due
<1>7. Quiet' => Quiet /\ modem'["GSM"] = modem["GSM"] BY <1>4, <1>5
<1>8. info' = info /\ view' = view /\ tokens' = tokens /\ told' = told /\ normal' = normal
  BY DEF driver, rild
<1> QED BY <1>6, <1>7, <1>8, KnownKept

(* Every step keeps what the driver and rild know right, or about to be.   *)
LEMMA KnownStep ==
  ASSUME TypeOK, Phases, NoStuckToken, Newest, Known, [Next]_vars
  PROVE  Known'
<1> DEFINE f == fromModem
           o == toModem
<1>0. o \in Seq(ToModem) /\ f \in Seq(FromModem) /\ "GSM" \in Kind BY QueuesTyped DEF Kind
<1>1. CASE \E t \in Token, k \in Kind : Request(t, k) BY <1>1, KnownRequest
<1>2. CASE Receive BY <1>2, KnownReceive
<1>3. CASE RadioOff BY <1>3 DEF RadioOff, Known
<1>4. CASE RadioOn BY <1>4 DEF RadioOn, Known, driver
<1>5. ASSUME NEW k \in Kind, Change(k) PROVE Known'
  <2> DEFINE x == Noti(k, changes + 1)
  <2>1. /\ f' = Append(f, x) /\ modem' = [modem EXCEPT ![k] = changes + 1] /\ o' = o
        /\ UNCHANGED <<driver, told, rild>> /\ changes + 1 \in Data
    BY <1>5 DEF Change, TypeOK, Data
  <2>2. x \in FromModem /\ x.kind = k BY <2>1, MessagesTyped, SentFields
  <2> HIDE DEF x
  <2>3. k # "GSM" => modem'["GSM"] = modem["GSM"] BY <1>0, <2>1 DEF TypeOK
  <2>4. Asked => Asked' BY <2>1 DEF Asked
  <2> QED BY <2>1, <2>2, <2>3, <2>4, KnownAdded
<1>6. CASE Serve
  <2> DEFINE m == Head(o)
             x == Resp(m.kind, m.token, modem[m.kind])
  <2>1. /\ m = o[1] /\ 1 \in DOMAIN o /\ o # <<>> /\ o' = Tail(o)
        /\ UNCHANGED <<driver, told, rild>>
    BY <1>6, ServeIs
  <2>2. CASE ~ normal BY <2>1, <2>2 DEF Known, driver
  <2>3. CASE normal
    <3>1. m.what = "GET" BY <2>1, <2>3 DEF Phases, Operating
    <3>2. f' = Append(f, x) /\ x \in FromModem /\ modem' = modem BY <1>6, <3>1, ServeIs
    <3>3. x.kind = m.kind /\ x.type = "RESP" BY SentFields
    <3>4. \A i \in DOMAIN o : i # 1 => i - 1 \in DOMAIN o' /\ o'[i - 1] = o[i]
      BY <1>0, <2>1, TailPlaces
    <3>5. Asked => Asked' \/ m.kind = "GSM"
      <4> SUFFICES ASSUME NEW i \in DOMAIN o, o[i].what = "GET", o[i].kind = "GSM"
                   PROVE  Asked' \/ m.kind = "GSM"
        BY DEF Asked
      <4>1. CASE i = 1 BY <2>1, <4>1
      <4>2. CASE i # 1 BY <3>4, <4>2 DEF Asked
      <4> QED BY <4>1, <4>2
    <3> HIDE DEF x, m
    <3> QED BY <2>1, <3>2, <3>3, <3>5, KnownAdded
  <2> QED BY <2>2, <2>3
<1>7. CASE UNCHANGED vars
  <2>1. UNCHANGED <<tokens, info, normal, view, o, f, modem, told>> BY <1>7 DEF vars, driver, rild
  <2>2. (Quiet' <=> Quiet) /\ (Due' <=> Due) BY <2>1 DEF Quiet, Due, Asked, Of
  <2> QED BY <2>1, <2>2 DEF Known
<1> QED BY <1>1, <1>2, <1>3, <1>4, <1>5, <1>6, <1>7 DEF Next

(* The driver drops news and answers requests from what it has stored, and *)
(* yet no token is stuck with a request that nobody will answer, and rild  *)
(* has the modem's registration state once nothing is under way.           *)
THEOREM NoStateMissed == Spec => []NetInv
<1> DEFINE KInv == NoStuckToken /\ Newest /\ Known
<1>1. Init => KInv
  <2> SUFFICES ASSUME Init PROVE KInv OBVIOUS
  <2>1. \A k \in {"GSM", "PLMN"} : tokens[k] = NoToken BY DEF Init, Kind
  <2>2. NoStuckToken BY <2>1, MarksAssumption DEF NoStuckToken
  <2>3. ~ normal /\ DOMAIN fromModem = {} BY DEF Init
  <2>4. Newest /\ Known BY <2>3 DEF Newest, Known, LastOf, Of
  <2> QED BY <2>2, <2>4
<1>2. IInv /\ KInv /\ [Next]_vars => KInv' BY StuckStep, NewestStep, KnownStep DEF IInv
<1>3. IInv /\ KInv => NetInv
  <2> SUFFICES ASSUME IInv, KInv, Settled PROVE view["GSM"] = modem["GSM"]
    BY DEF IInv, NetInv, StateKnown
  <2>1. ~ Asked /\ \A i : ~ Of(fromModem, "GSM", i) BY DEF Settled, Asked, Of
  <2>2. Quiet /\ ~ Due BY <2>1 DEF Quiet, Due
  <2> QED BY <2>2 DEF Known, Settled
<1> QED BY <1>1, <1>2, <1>3, IInvAlways, PTL DEF Spec

=============================================================================
