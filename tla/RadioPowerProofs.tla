--------------------------- MODULE RadioPowerProofs ---------------------------
(***************************************************************************)
(* Theorems about RadioPower, for every history of the SIM, any number of  *)
(* requests and any number of failures of the client.                      *)
(***************************************************************************)
EXTENDS RadioPower, SequenceTheorems, TLAPS

(* A message of one of these kinds is on its way, for token t.             *)
Holds(s, whats) == \E i \in DOMAIN s : s[i].what \in whats
Sent(s, whats, t) == \E i \in DOMAIN s : s[i].what \in whats /\ s[i].token = t

Statuses == {"PIN_NOTI", "PIN_STATUS"}
Once == {"PIN_STATUS", "ICON_INFO"}

-----------------------------------------------------------------------------
(* Lemmas about the line.                                                  *)

(* Where the places of a sequence are.                                     *)
LEMMA Places ==
  ASSUME NEW S, NEW s \in Seq(S)
  PROVE  Len(s) \in Nat /\ DOMAIN s = 1 .. Len(s) /\ \A i \in DOMAIN s : s[i] \in S
OBVIOUS

(* What an element added at the end leaves in place.                       *)
LEMMA AppendPlaces ==
  ASSUME NEW S, NEW s \in Seq(S), NEW m \in S
  PROVE  /\ Append(s, m) \in Seq(S)
         /\ DOMAIN Append(s, m) = DOMAIN s \cup {Len(s) + 1}
         /\ Len(s) + 1 \notin DOMAIN s
         /\ \A i \in DOMAIN s : Append(s, m)[i] = s[i] /\ i < Len(s) + 1
         /\ Append(s, m)[Len(s) + 1] = m
<1>1. /\ Append(s, m) \in Seq(S) /\ Len(Append(s, m)) = Len(s) + 1
      /\ \A i \in 1 .. Len(s) : Append(s, m)[i] = s[i]
      /\ Append(s, m)[Len(s) + 1] = m
  OBVIOUS
<1>2. Len(s) \in Nat /\ DOMAIN s = 1 .. Len(s) /\ DOMAIN Append(s, m) = 1 .. Len(s) + 1
  BY <1>1
<1> HIDE DEF Append
<1> QED BY <1>1, <1>2

(* Where the elements of a sequence go when the first is taken.            *)
LEMMA TailPlaces ==
  ASSUME NEW S, NEW s \in Seq(S), s # <<>>
  PROVE  /\ Tail(s) \in Seq(S)
         /\ 1 \in DOMAIN s /\ Head(s) = s[1] /\ Head(s) \in S
         /\ \A i \in DOMAIN Tail(s) : i + 1 \in DOMAIN s /\ Tail(s)[i] = s[i + 1] /\ i + 1 > 1
         /\ \A i \in DOMAIN s : i # 1 => i - 1 \in DOMAIN Tail(s) /\ Tail(s)[i - 1] = s[i]
<1>1. /\ Tail(s) \in Seq(S) /\ Len(Tail(s)) = Len(s) - 1
      /\ \A i \in 1 .. Len(s) - 1 : Tail(s)[i] = s[i + 1]
      /\ Head(s) = s[1]
  OBVIOUS
<1>2. /\ Len(s) \in Nat /\ Len(s) > 0 /\ DOMAIN s = 1 .. Len(s)
      /\ DOMAIN Tail(s) = 1 .. Len(s) - 1
      /\ s[1] \in S
  BY <1>1
<1>3. ASSUME NEW i \in DOMAIN Tail(s)
      PROVE  i + 1 \in DOMAIN s /\ Tail(s)[i] = s[i + 1] /\ i + 1 > 1
  BY <1>1, <1>2
<1>4. ASSUME NEW i \in DOMAIN s, i # 1
      PROVE  i - 1 \in DOMAIN Tail(s) /\ Tail(s)[i - 1] = s[i]
  <2>1. i \in 1 .. Len(s) /\ Len(s) \in Nat BY <1>2
  <2>2. i - 1 \in 1 .. Len(s) - 1 /\ (i - 1) + 1 = i BY <1>4, <2>1
  <2> QED BY <1>1, <1>2, <2>2
<1> QED BY <1>1, <1>2, <1>3, <1>4

(* A queue has been added to: only messages of M have come in, behind the  *)
(* others.                                                                 *)
Added(new, old, M) ==
  /\ DOMAIN old \subseteq DOMAIN new
  /\ \A i \in DOMAIN old : new[i] = old[i]
  /\ \A i \in DOMAIN new \ DOMAIN old : new[i] \in M /\ \A j \in DOMAIN old : j < i

(* Nothing has been added to a queue that stays as it is.                  *)
LEMMA AddedNone == ASSUME NEW s, NEW M PROVE Added(s, s, M)
BY DEF Added

(* One message has been added by Append.                                   *)
LEMMA AddedOne ==
  ASSUME NEW S, NEW s \in Seq(S), NEW M, NEW m \in S, m \in M PROVE Added(Append(s, m), s, M)
<1>1. /\ DOMAIN Append(s, m) = DOMAIN s \cup {Len(s) + 1}
      /\ \A i \in DOMAIN s : Append(s, m)[i] = s[i] /\ i < Len(s) + 1
      /\ Append(s, m)[Len(s) + 1] = m
  BY AppendPlaces
<1> QED BY <1>1 DEF Added

(* What is added in two steps is added.                                    *)
LEMMA AddedTwice ==
  ASSUME NEW a, NEW b, NEW c, NEW M, Added(b, a, M), Added(c, b, M) PROVE Added(c, a, M)
BY DEF Added

(* What may be added may be among more that may be added.                  *)
LEMMA AddedMore ==
  ASSUME NEW a, NEW b, NEW M, NEW N, M \subseteq N, Added(b, a, M) PROVE Added(b, a, N)
BY DEF Added

(* What is in a queue stays in it, and nothing else is found there than    *)
(* what has been added.                                                    *)
LEMMA AddedHolds ==
  ASSUME NEW old, NEW new, NEW M, Added(new, old, M), NEW whats
  PROVE  /\ Holds(old, whats) => Holds(new, whats)
         /\ \A t : Sent(old, whats, t) => Sent(new, whats, t)
         /\ (\A m \in M : m.what \notin whats) => (Holds(new, whats) => Holds(old, whats))
BY DEF Added, Holds, Sent

(* The first message of a queue, and the others.                           *)
LEMMA TailHolds ==
  ASSUME NEW S, NEW s \in Seq(S), s # <<>>, NEW whats
  PROVE  /\ Holds(s, whats) <=> Head(s).what \in whats \/ Holds(Tail(s), whats)
         /\ \A t : Sent(s, whats, t) <=>
              (Head(s).what \in whats /\ Head(s).token = t) \/ Sent(Tail(s), whats, t)
<1>1. /\ 1 \in DOMAIN s /\ Head(s) = s[1]
      /\ \A i \in DOMAIN Tail(s) : i + 1 \in DOMAIN s /\ Tail(s)[i] = s[i + 1]
      /\ \A i \in DOMAIN s : i # 1 => i - 1 \in DOMAIN Tail(s) /\ Tail(s)[i - 1] = s[i]
  BY TailPlaces
<1> HIDE DEF Tail
<1>2. Holds(s, whats) <=> Head(s).what \in whats \/ Holds(Tail(s), whats)
  <2>1. ASSUME Holds(s, whats) PROVE Head(s).what \in whats \/ Holds(Tail(s), whats)
    <3>1. PICK i \in DOMAIN s : s[i].what \in whats BY <2>1 DEF Holds
    <3>2. i # 1 => i - 1 \in DOMAIN Tail(s) /\ Tail(s)[i - 1].what \in whats BY <1>1, <3>1
    <3> QED BY <1>1, <3>1, <3>2 DEF Holds
  <2>2. Holds(Tail(s), whats) => Holds(s, whats) BY <1>1 DEF Holds
  <2> QED BY <1>1, <2>1, <2>2 DEF Holds
<1>3. ASSUME NEW t
      PROVE  Sent(s, whats, t) <=>
               (Head(s).what \in whats /\ Head(s).token = t) \/ Sent(Tail(s), whats, t)
  <2>1. ASSUME Sent(s, whats, t)
        PROVE  (Head(s).what \in whats /\ Head(s).token = t) \/ Sent(Tail(s), whats, t)
    <3>1. PICK i \in DOMAIN s : s[i].what \in whats /\ s[i].token = t BY <2>1 DEF Sent
    <3>2. i # 1 => i - 1 \in DOMAIN Tail(s) /\ Tail(s)[i - 1] = s[i] BY <1>1, <3>1
    <3> QED BY <1>1, <3>1, <3>2 DEF Sent
  <2>2. Sent(Tail(s), whats, t) => Sent(s, whats, t) BY <1>1 DEF Sent
  <2> QED BY <1>1, <2>1, <2>2 DEF Sent
<1> QED BY <1>2, <1>3

-----------------------------------------------------------------------------
(* Type correctness.                                                       *)

Errnos == {"SUCCESS", "GENERIC_FAILURE"}
Cards == {Card(status) : status \in SIM_Status}

Effect ==
  [st : State, toModem : Seq(ToModem), answers : [Token -> Seq(Errnos)], view : Cards,
   news : BOOLEAN]

(* Every status the driver knows is one rild knows.                        *)
LEMMA StatusTyped ==
  /\ \A type \in DOMAIN StatusOf : StatusOf[type] \in SIM_Status
  /\ "ABSENT" \in SIM_Status
  /\ \A status \in SIM_Status :
       RadioState(status) \in {"SIM_NOT_READY", "SIM_LOCKED_OR_ABSENT", "ON"}
<1>1. \A type \in DOMAIN StatusOf : StatusOf[type] \in SIM_Status BY DEF SIM_Status
<1>2. "CARD_ERROR" \in DOMAIN StatusOf /\ StatusOf["CARD_ERROR"] = "ABSENT" BY DEF StatusOf
<1>3. "ABSENT" \in SIM_Status BY <1>1, <1>2
<1>4. \A status \in SIM_Status :
        RadioState(status) \in {"SIM_NOT_READY", "SIM_LOCKED_OR_ABSENT", "ON"}
  BY DEF RadioState
<1> QED BY <1>1, <1>3, <1>4

(* The effect a handler starts from.                                       *)
LEMMA StartTyped == TypeOK => Start \in Effect
BY DEF TypeOK, Start, Effect, Cards, Errnos

(* A message to the modem changes the line to it, and nothing else.        *)
LEMMA SendingTyped ==
  ASSUME NEW e \in Effect, NEW m \in ToModem
  PROVE  /\ Sending(e, m) \in Effect
         /\ Sending(e, m).st = e.st /\ Sending(e, m).answers = e.answers
         /\ Sending(e, m).view = e.view /\ Sending(e, m).news = e.news
         /\ Sending(e, m).toModem = Append(e.toModem, m)
<1>1. Append(e.toModem, m) \in Seq(ToModem) BY DEF Effect
<1>2. Sending(e, m) = [e EXCEPT !.toModem = Append(e.toModem, m)] BY DEF Sending
<1> QED BY <1>1, <1>2 DEF Effect

(* An answer changes what the request was answered, and nothing else.      *)
LEMMA CompletingTyped ==
  ASSUME NEW e \in Effect, NEW t \in Token \cup {NoToken}, NEW errno \in Errnos
  PROVE  /\ Completing(e, t, errno) \in Effect
         /\ Completing(e, t, errno).st = e.st
         /\ Completing(e, t, errno).toModem = e.toModem
         /\ Completing(e, t, errno).view = e.view
         /\ Completing(e, t, errno).news = e.news
         /\ Completing(e, t, errno).answers =
              IF t = NoToken THEN e.answers
              ELSE [e.answers EXCEPT ![t] = Append(@, errno)]
<1>1. CASE t = NoToken BY <1>1 DEF Completing
<1>2. CASE t # NoToken
  <2>1. t \in Token /\ e.answers \in [Token -> Seq(Errnos)] BY <1>2 DEF Effect
  <2>2. Append(e.answers[t], errno) \in Seq(Errnos) BY <2>1
  <2>3. [e.answers EXCEPT ![t] = Append(@, errno)] \in [Token -> Seq(Errnos)] BY <2>1, <2>2
  <2>4. Completing(e, t, errno) =
          [e EXCEPT !.answers = [e.answers EXCEPT ![t] = Append(@, errno)]]
    BY <1>2 DEF Completing
  <2> QED BY <1>2, <2>3, <2>4 DEF Effect
<1> QED BY <1>1, <1>2

(* A message to the modem has the fields it is made of.                    *)
LEMMA ToTyped ==
  ASSUME NEW what \in Orders, NEW t \in Token \cup {NoToken}
  PROVE  To(what, t) \in ToModem /\ To(what, t).what = what /\ To(what, t).token = t
BY DEF To, ToModem

(* The baseband version is asked for, or kept for when the radio is not    *)
(* off; a second request is refused.                                       *)
VersionNext(e, f, t) ==
  /\ f \in Effect
  /\ f.view = e.view /\ f.news = e.news
  /\ IF e.st.baseband_version # NoToken
     THEN /\ f.st = e.st /\ f.toModem = e.toModem
          /\ f.answers = [e.answers EXCEPT ![t] = Append(@, "GENERIC_FAILURE")]
     ELSE /\ f.st = [e.st EXCEPT !.baseband_version = t]
          /\ f.answers = e.answers
          /\ f.toModem = IF Off(e) THEN e.toModem
                         ELSE Append(e.toModem, To("ME_VERSION", t))

(* ril_request_baseband_version does that.                                 *)
LEMMA VersionRequested ==
  ASSUME NEW e \in Effect, NEW t \in Token
  PROVE  VersionNext(e, ril_request_baseband_version(e, t), t)
<1> DEFINE kept == [e EXCEPT !.st.baseband_version = t]
<1>1. t # NoToken BY DEF Token, NoToken
<1>2. /\ kept \in Effect /\ kept.st = [e.st EXCEPT !.baseband_version = t]
      /\ kept.view = e.view /\ kept.news = e.news /\ kept.toModem = e.toModem
      /\ kept.answers = e.answers /\ kept.st.radio_state = e.st.radio_state
  BY DEF Effect, State
<1>3. CASE e.st.baseband_version # NoToken
  BY <1>1, <1>3, CompletingTyped DEF VersionNext, ril_request_baseband_version, Errnos
<1>4. CASE ~ e.st.baseband_version # NoToken
  <2>1. To("ME_VERSION", t) \in ToModem BY ToTyped DEF Orders
  <2>2. ril_request_baseband_version(e, t) =
          IF Off(e) THEN kept ELSE Sending(kept, To("ME_VERSION", t))
    BY <1>2, <1>4 DEF ril_request_baseband_version, Off
  <2> HIDE DEF kept
  <2>3. CASE Off(e) BY <1>2, <1>4, <2>2, <2>3 DEF VersionNext
  <2>4. CASE ~ Off(e) BY <1>2, <1>4, <2>1, <2>2, <2>4, SendingTyped DEF VersionNext
  <2> QED BY <2>3, <2>4
<1> QED BY <1>3, <1>4

(* The serial number is asked for when both tokens are there.              *)
SerialNext(e, f) ==
  /\ f \in Effect
  /\ f.st = e.st /\ f.view = e.view /\ f.news = e.news /\ f.answers = e.answers
  /\ f.toModem = IF e.st.get_imei = NoToken \/ e.st.get_imeisv = NoToken \/ Off(e)
                 THEN e.toModem ELSE Append(e.toModem, To("ME_SN", e.st.get_imei))

(* ril_request_get_imei_send does that.                                    *)
LEMMA SerialSent ==
  ASSUME NEW e \in Effect PROVE SerialNext(e, ril_request_get_imei_send(e))
<1>1. e.st.get_imei \in Token \cup {NoToken} BY DEF Effect, State
<1>2. To("ME_SN", e.st.get_imei) \in ToModem BY <1>1, ToTyped DEF Orders
<1> QED BY <1>2, SendingTyped DEF SerialNext, ril_request_get_imei_send

(* A request for one of the two serial numbers.                            *)
ImeiNext(e, f, t) ==
  IF e.st.get_imei # NoToken
  THEN /\ f \in Effect /\ f.st = e.st /\ f.toModem = e.toModem
       /\ f.view = e.view /\ f.news = e.news
       /\ f.answers = [e.answers EXCEPT ![t] = Append(@, "GENERIC_FAILURE")]
  ELSE SerialNext([e EXCEPT !.st.get_imei = t], f)

ImeisvNext(e, f, t) ==
  IF e.st.get_imeisv # NoToken
  THEN /\ f \in Effect /\ f.st = e.st /\ f.toModem = e.toModem
       /\ f.view = e.view /\ f.news = e.news
       /\ f.answers = [e.answers EXCEPT ![t] = Append(@, "GENERIC_FAILURE")]
  ELSE SerialNext([e EXCEPT !.st.get_imeisv = t], f)

(* ril_request_get_imei and ril_request_get_imeisv do that.                *)
LEMMA SerialRequested ==
  ASSUME NEW e \in Effect, NEW t \in Token
  PROVE  /\ ImeiNext(e, ril_request_get_imei(e, t), t)
         /\ ImeisvNext(e, ril_request_get_imeisv(e, t), t)
<1>1. t # NoToken /\ "GENERIC_FAILURE" \in Errnos BY DEF Token, NoToken, Errnos
<1>2. /\ [e EXCEPT !.st.get_imei = t] \in Effect
      /\ [e EXCEPT !.st.get_imeisv = t] \in Effect
  BY DEF Effect, State
<1>3. ImeiNext(e, ril_request_get_imei(e, t), t)
  BY <1>1, <1>2, CompletingTyped, SerialSent DEF ImeiNext, ril_request_get_imei
<1>4. ImeisvNext(e, ril_request_get_imeisv(e, t), t)
  BY <1>1, <1>2, CompletingTyped, SerialSent DEF ImeisvNext, ril_request_get_imeisv
<1> QED BY <1>3, <1>4

(* What the driver asks the modem for on behalf of the waiting tokens.     *)
Queries(st) == {To("ME_VERSION", st.baseband_version), To("ME_SN", st.get_imei)}

(* ril_tokens_check asks again for what waits, and changes nothing else.   *)
CheckNext(e, f) ==
  /\ f \in Effect
  /\ f.st = e.st /\ f.view = e.view /\ f.news = e.news /\ f.answers = e.answers
  /\ Added(f.toModem, e.toModem, Queries(e.st))
  /\ ~ Off(e) /\ e.st.baseband_version # NoToken =>
       Sent(f.toModem, {"ME_VERSION"}, e.st.baseband_version)
  /\ ~ Off(e) /\ e.st.get_imei # NoToken /\ e.st.get_imeisv # NoToken =>
       Sent(f.toModem, {"ME_SN"}, e.st.get_imei)

(* A message at the end of a queue is in it, and so are those before it.   *)
LEMMA AppendSent ==
  ASSUME NEW S, NEW s \in Seq(S), NEW m \in S
  PROVE  Sent(Append(s, m), {m.what}, m.token)
<1>1. Len(s) + 1 \in DOMAIN Append(s, m) /\ Append(s, m)[Len(s) + 1] = m BY AppendPlaces
<1> QED BY <1>1 DEF Sent

(* To take a token out and put it back changes nothing.                    *)
LEMMA VersionPutBack ==
  ASSUME NEW st \in State, NEW none, none = [st EXCEPT !.baseband_version = NoToken]
  PROVE  [none EXCEPT !.baseband_version = st.baseband_version] = st
BY DEF State

(* ril_tokens_check does that.                                             *)
LEMMA TokensChecked ==
  ASSUME NEW e \in Effect PROVE CheckNext(e, ril_tokens_check(e))
<1> DEFINE st == e.st
           blank == [e EXCEPT !.st.baseband_version = NoToken]
           v == IF st.baseband_version = NoToken \/ Off(e) THEN e
                ELSE ril_request_baseband_version(blank, st.baseband_version)
           none == [v EXCEPT !.st.get_imei = NoToken]
           f == IF st.get_imei = NoToken \/ st.get_imeisv = NoToken \/ Off(e) THEN v
                ELSE ril_request_get_imei(none, st.get_imei)
           version == To("ME_VERSION", st.baseband_version)
           serial == To("ME_SN", st.get_imei)
<1>1. /\ st \in State /\ st.baseband_version \in Token \cup {NoToken}
      /\ st.get_imei \in Token \cup {NoToken} /\ e.toModem \in Seq(ToModem)
  BY DEF Effect, State
<1>2. version \in ToModem /\ version.what = "ME_VERSION" /\ version.token = st.baseband_version
  BY <1>1, ToTyped DEF Orders
<1>3. serial \in ToModem /\ serial.what = "ME_SN" /\ serial.token = st.get_imei
  BY <1>1, ToTyped DEF Orders
<1>4. version \in Queries(st) /\ serial \in Queries(st) BY DEF Queries
<1>5. /\ v \in Effect
      /\ v.st = st /\ v.view = e.view /\ v.news = e.news /\ v.answers = e.answers
      /\ v.toModem = IF st.baseband_version = NoToken \/ Off(e) THEN e.toModem
                     ELSE Append(e.toModem, version)
  <2>1. CASE st.baseband_version = NoToken \/ Off(e) BY <2>1
  <2>2. CASE ~ (st.baseband_version = NoToken \/ Off(e))
    <3>1. st.baseband_version \in Token BY <1>1, <2>2
    <3>2. /\ blank \in Effect /\ blank.st = [st EXCEPT !.baseband_version = NoToken]
          /\ blank.view = e.view /\ blank.news = e.news /\ blank.toModem = e.toModem
          /\ blank.answers = e.answers /\ blank.st.baseband_version = NoToken
          /\ blank.st.radio_state = st.radio_state
      BY DEF Effect, State
    <3> HIDE DEF blank, st
    <3>3. [blank.st EXCEPT !.baseband_version = st.baseband_version] = st
      BY <1>1, <3>2, VersionPutBack
    <3>4. VersionNext(blank, v, st.baseband_version) BY <2>2, <3>1, <3>2, VersionRequested
    <3>5. ~ Off(blank) BY <2>2, <3>2 DEF Off, st
    <3> HIDE DEF v, version
    <3> QED BY <2>2, <3>2, <3>3, <3>4, <3>5 DEF VersionNext, version
  <2> QED BY <2>1, <2>2
<1>6. /\ f \in Effect
      /\ f.st = st /\ f.view = e.view /\ f.news = e.news /\ f.answers = e.answers
      /\ f.toModem = IF st.get_imei = NoToken \/ st.get_imeisv = NoToken \/ Off(e)
                     THEN v.toModem ELSE Append(v.toModem, serial)
  <2> HIDE DEF v, st, version
  <2>1. CASE st.get_imei = NoToken \/ st.get_imeisv = NoToken \/ Off(e) BY <1>5, <2>1
  <2>2. CASE ~ (st.get_imei = NoToken \/ st.get_imeisv = NoToken \/ Off(e))
    <3>1. st.get_imei \in Token BY <1>1, <2>2
    <3>2. /\ none \in Effect /\ none.st = [v.st EXCEPT !.get_imei = NoToken]
          /\ none.st.get_imei = NoToken
      BY <1>5 DEF Effect, State
    <3>3. ImeiNext(none, f, st.get_imei) BY <2>2, <3>1, <3>2, SerialRequested
    <3> DEFINE again == [none EXCEPT !.st.get_imei = st.get_imei]
    <3>4. SerialNext(again, f) BY <3>2, <3>3 DEF ImeiNext
    <3>5. /\ again.st.get_imei = st.get_imei /\ again.st.get_imeisv = st.get_imeisv
          /\ again.st.radio_state = st.radio_state
          /\ again.toModem = v.toModem /\ again.view = v.view /\ again.news = v.news
          /\ again.answers = v.answers
      BY <1>1, <1>5, <3>2 DEF Effect, State
    <3>6. again.st = st BY <1>1, <1>5, <3>2 DEF Effect, State
    <3>7. ~ Off(again) BY <2>2, <3>5 DEF Off, st
    <3> HIDE DEF again, none, f
    <3> QED BY <1>5, <2>2, <3>4, <3>5, <3>6, <3>7 DEF SerialNext
  <2> QED BY <2>1, <2>2
<1>7. f = ril_tokens_check(e) BY DEF ril_tokens_check
<1> HIDE DEF v, f, version, serial, st
<1>8. v.toModem \in Seq(ToModem) BY <1>5 DEF Effect
<1>9. Added(v.toModem, e.toModem, Queries(st))
  BY <1>1, <1>2, <1>4, <1>5, AddedOne, AddedNone
<1>10. Added(f.toModem, v.toModem, Queries(st))
  BY <1>3, <1>4, <1>6, <1>8, AddedOne, AddedNone
<1>11. Added(f.toModem, e.toModem, Queries(st)) BY <1>9, <1>10, AddedTwice
<1>12. ~ Off(e) /\ st.baseband_version # NoToken =>
         Sent(f.toModem, {"ME_VERSION"}, st.baseband_version)
  <2> SUFFICES ASSUME ~ Off(e), st.baseband_version # NoToken
               PROVE  Sent(f.toModem, {"ME_VERSION"}, st.baseband_version)
    OBVIOUS
  <2>1. Sent(v.toModem, {version.what}, version.token) BY <1>1, <1>2, <1>5, AppendSent
  <2> QED BY <1>2, <1>10, <2>1, AddedHolds
<1>13. ~ Off(e) /\ st.get_imei # NoToken /\ st.get_imeisv # NoToken =>
         Sent(f.toModem, {"ME_SN"}, st.get_imei)
  <2> SUFFICES ASSUME ~ Off(e), st.get_imei # NoToken, st.get_imeisv # NoToken
               PROVE  Sent(f.toModem, {"ME_SN"}, st.get_imei)
    OBVIOUS
  <2>1. Sent(f.toModem, {serial.what}, serial.token) BY <1>3, <1>6, <1>8, AppendSent
  <2> QED BY <1>3, <2>1
<1> QED BY <1>6, <1>7, <1>11, <1>12, <1>13 DEF CheckNext, st

-----------------------------------------------------------------------------
(* What the handlers of the modem's messages do.                           *)

(* What waits for the radio has been asked for.                            *)
Asked(st, queue) ==
  /\ st.radio_state # "OFF" /\ st.baseband_version # NoToken =>
       Sent(queue, {"ME_VERSION"}, st.baseband_version)
  /\ st.radio_state # "OFF" /\ st.get_imei # NoToken /\ st.get_imeisv # NoToken =>
       Sent(queue, {"ME_SN"}, st.get_imei)

(* The status of a SIM as a notification or a response tells it.           *)
LEMMA SimStatusTyped ==
  ASSUME NEW st \in State, NEW pin \in Pin
  PROVE  /\ ipc2ril_sim_status(st, pin) \in SIM_Status
         /\ pin # 0 /\ SimHistory[pin] # "SIM_PB_INIT_COMPLETE" =>
              ipc2ril_sim_status(st, pin) = StatusOf[SimHistory[pin]]
<1>1. st.sim_status \in SIM_Status BY DEF State
<1>2. pin # 0 => SimHistory[pin] \in PinType
  <2> SUFFICES ASSUME pin # 0 PROVE SimHistory[pin] \in PinType OBVIOUS
  <2>1. SimHistory \in Seq(PinType) BY HistoryAssumption
  <2>2. pin \in 1 .. Len(SimHistory) BY <2>1 DEF Pin
  <2> QED BY <2>1, <2>2
<1> QED BY <1>1, <1>2, StatusTyped DEF ipc2ril_sim_status, PinType

(* A status counts in normal mode only, and is kept in any.                *)
StoredNext(e, f, pin) ==
  /\ f \in Effect /\ f.view = e.view /\ f.news = e.news /\ f.answers = e.answers
  /\ IF e.st.power_mode # "NORMAL"
     THEN f.st = [e.st EXCEPT !.sim_pin_status = pin] /\ f.toModem = e.toModem
     ELSE /\ f.st = [e.st EXCEPT !.sim_status = ipc2ril_sim_status(e.st, pin),
                                 !.radio_state = RadioState(ipc2ril_sim_status(e.st, pin)),
                                 !.sim_pin_status = pin]
          /\ Added(f.toModem, e.toModem, Queries(e.st))
          /\ Asked(f.st, f.toModem)

(* The fields of the state in which a status has been put.                 *)
LEMMA StatusPut ==
  ASSUME NEW st \in State, NEW status, NEW radio, NEW pin, NEW set,
         set = [st EXCEPT !.sim_status = status, !.radio_state = radio]
  PROVE  /\ set.radio_state = radio /\ set.power_mode = st.power_mode
         /\ set.baseband_version = st.baseband_version
         /\ set.get_imei = st.get_imei /\ set.get_imeisv = st.get_imeisv
         /\ [set EXCEPT !.sim_pin_status = pin] =
              [st EXCEPT !.sim_status = status, !.radio_state = radio, !.sim_pin_status = pin]
BY DEF State

(* To store the place of the SIM changes one field.                        *)
LEMMA PinPut ==
  ASSUME NEW st \in State, NEW pin \in Pin, NEW put, put = [st EXCEPT !.sim_pin_status = pin]
  PROVE  /\ put \in State /\ put.radio_state = st.radio_state
         /\ put.baseband_version = st.baseband_version
         /\ put.get_imei = st.get_imei /\ put.get_imeisv = st.get_imeisv
BY DEF State

(* Stored, which calls ril_state_update, does that.                        *)
LEMMA StatusStored ==
  ASSUME NEW e \in Effect, NEW pin \in Pin PROVE StoredNext(e, Stored(e, pin), pin)
<1> DEFINE status == ipc2ril_sim_status(e.st, pin)
           set == [e EXCEPT !.st.sim_status = status, !.st.radio_state = RadioState(status)]
           f == ril_state_update(e, status)
           g == Stored(e, pin)
<1>1. e.st \in State BY DEF Effect
<1>2. status \in SIM_Status /\ RadioState(status) \in {"SIM_NOT_READY", "SIM_LOCKED_OR_ABSENT", "ON"}
  BY <1>1, SimStatusTyped, StatusTyped
<1>3. f = IF e.st.power_mode # "NORMAL" THEN e ELSE ril_tokens_check(set)
  BY DEF ril_state_update
<1>4. g = [f EXCEPT !.st.sim_pin_status = pin] BY DEF Stored
<1> HIDE DEF status
<1>5. /\ set \in Effect
      /\ set.st = [e.st EXCEPT !.sim_status = status, !.radio_state = RadioState(status)]
      /\ set.view = e.view /\ set.news = e.news /\ set.answers = e.answers
      /\ set.toModem = e.toModem
  BY <1>2 DEF Effect, State
<1> HIDE DEF set, f, g
<1>6. /\ set.st.radio_state = RadioState(status) /\ set.st.radio_state # "OFF"
      /\ set.st.baseband_version = e.st.baseband_version
      /\ set.st.get_imei = e.st.get_imei /\ set.st.get_imeisv = e.st.get_imeisv
      /\ [set.st EXCEPT !.sim_pin_status = pin] =
           [e.st EXCEPT !.sim_status = status, !.radio_state = RadioState(status),
                        !.sim_pin_status = pin]
  <2> DEFINE put == set.st
  <2>0. put = [e.st EXCEPT !.sim_status = status, !.radio_state = RadioState(status)] BY <1>5
  <2> HIDE DEF put
  <2>1. put.radio_state = RadioState(status) BY <1>1, <2>0 DEF State
  <2>2. /\ put.baseband_version = e.st.baseband_version
        /\ put.get_imei = e.st.get_imei /\ put.get_imeisv = e.st.get_imeisv
    BY <1>1, <2>0 DEF State
  <2>3. [put EXCEPT !.sim_pin_status = pin] =
          [e.st EXCEPT !.sim_status = status, !.radio_state = RadioState(status),
                       !.sim_pin_status = pin]
    BY <1>1, <2>0, StatusPut, Zenon
  <2> QED BY <1>2, <2>1, <2>2, <2>3 DEF put
<1>7. f \in Effect BY <1>3, <1>5, TokensChecked DEF CheckNext
<1>8. /\ g \in Effect /\ g.st = [f.st EXCEPT !.sim_pin_status = pin]
      /\ g.view = f.view /\ g.news = f.news /\ g.answers = f.answers
      /\ g.toModem = f.toModem
  <2>1. f.st \in State BY <1>7 DEF Effect
  <2>2. [f.st EXCEPT !.sim_pin_status = pin] \in State BY <2>1, PinPut
  <2> QED BY <1>4, <1>7, <2>2 DEF Effect
<1>9. /\ g.st.baseband_version = f.st.baseband_version
      /\ g.st.get_imei = f.st.get_imei /\ g.st.get_imeisv = f.st.get_imeisv
      /\ g.st.radio_state = f.st.radio_state
  BY <1>7, <1>8, PinPut DEF Effect
<1>10. CASE e.st.power_mode # "NORMAL" BY <1>3, <1>8, <1>10 DEF StoredNext, g
<1>11. CASE ~ e.st.power_mode # "NORMAL"
  <2>1. CheckNext(set, f) BY <1>3, <1>5, <1>11, TokensChecked
  <2>2. /\ f.st = set.st /\ f.toModem = g.toModem
        /\ Added(f.toModem, set.toModem, Queries(set.st))
    BY <1>8, <2>1 DEF CheckNext
  <2>3. Queries(set.st) = Queries(e.st) BY <1>6 DEF Queries
  <2>4. Asked(g.st, g.toModem) BY <1>6, <1>9, <2>1, <2>2 DEF CheckNext, Asked, Off
  <2>5. g.view = e.view /\ g.news = e.news /\ g.answers = e.answers
    BY <1>5, <1>8, <2>1 DEF CheckNext
  <2> QED BY <1>5, <1>6, <1>8, <1>11, <2>2, <2>3, <2>4, <2>5 DEF StoredNext, g, status
<1> QED BY <1>10, <1>11

(* Requests outside T are not answered; t is answered once more.           *)
Only(new, old, T) == \A t \in Token \ T : new[t] = old[t]
OneMore(new, old, t) == t # NoToken => new[t] = Append(old[t], "SUCCESS")

(* RADIO_POWER is answered in normal mode.                                 *)
PowerNext(e, f) ==
  /\ f \in Effect
  /\ f.toModem = e.toModem /\ f.view = e.view /\ f.news = e.news
  /\ IF e.st.power_mode # "NORMAL" THEN f.st = e.st /\ f.answers = e.answers
     ELSE /\ f.st = [e.st EXCEPT !.radio_power = NoToken]
          /\ Only(f.answers, e.answers, {e.st.radio_power})
          /\ OneMore(f.answers, e.answers, e.st.radio_power)

(* An answer to one request.                                               *)
LEMMA CompletedOnce ==
  ASSUME NEW e \in Effect, NEW t \in Token \cup {NoToken}
  PROVE  /\ Completing(e, t, "SUCCESS") \in Effect
         /\ Only(Completing(e, t, "SUCCESS").answers, e.answers, {t})
         /\ OneMore(Completing(e, t, "SUCCESS").answers, e.answers, t)
<1> DEFINE f == Completing(e, t, "SUCCESS")
<1>1. /\ f \in Effect
      /\ f.answers = IF t = NoToken THEN e.answers
                     ELSE [e.answers EXCEPT ![t] = Append(@, "SUCCESS")]
  BY CompletingTyped DEF Errnos
<1>2. e.answers \in [Token -> Seq(Errnos)] BY DEF Effect
<1> HIDE DEF f
<1>3. Only(f.answers, e.answers, {t}) /\ OneMore(f.answers, e.answers, t)
  BY <1>1, <1>2 DEF Only, OneMore
<1> QED BY <1>1, <1>3 DEF f

(* To take out the token of RADIO_POWER changes one field.                 *)
LEMMA PowerTakenOut ==
  ASSUME NEW st \in State, NEW out, out = [st EXCEPT !.radio_power = NoToken]
  PROVE  /\ out \in State /\ out.power_mode = st.power_mode
         /\ out.radio_state = st.radio_state /\ out.sim_status = st.sim_status
         /\ out.sim_pin_status = st.sim_pin_status /\ out.pin_status = st.pin_status
         /\ out.get_imei = st.get_imei /\ out.get_imeisv = st.get_imeisv
         /\ out.baseband_version = st.baseband_version /\ out.radio_power = NoToken
         /\ (st.radio_power = NoToken => out = st)
BY DEF State

(* PowerAnswered does that.                                                *)
LEMMA RadioPowerAnswered ==
  ASSUME NEW e \in Effect PROVE PowerNext(e, PowerAnswered(e))
<1> DEFINE f == PowerAnswered(e)
           g == Completing(e, e.st.radio_power, "SUCCESS")
<1>1. e.st \in State /\ e.st.radio_power \in Token \cup {NoToken} BY DEF Effect, State
<1>2. /\ g \in Effect /\ g.st = e.st /\ g.toModem = e.toModem /\ g.view = e.view
      /\ g.news = e.news
  BY <1>1, CompletingTyped DEF Errnos
<1>3. /\ Only(g.answers, e.answers, {e.st.radio_power})
      /\ OneMore(g.answers, e.answers, e.st.radio_power)
  BY <1>1, CompletedOnce
<1>4. [e.st EXCEPT !.radio_power = NoToken] \in State BY <1>1, PowerTakenOut
<1>5. f = IF e.st.power_mode # "NORMAL" \/ e.st.radio_power = NoToken THEN e
          ELSE [g EXCEPT !.st.radio_power = NoToken]
  BY DEF PowerAnswered
<1> HIDE DEF g, f
<1>6. CASE e.st.power_mode # "NORMAL" BY <1>5, <1>6 DEF PowerNext, f
<1>7. CASE e.st.power_mode = "NORMAL" /\ e.st.radio_power = NoToken
  <2>1. f = e BY <1>5, <1>7
  <2>2. e.st = [e.st EXCEPT !.radio_power = NoToken] BY <1>1, <1>7, PowerTakenOut
  <2> QED BY <1>7, <2>1, <2>2 DEF PowerNext, Only, OneMore, f
<1>8. CASE e.st.power_mode = "NORMAL" /\ e.st.radio_power # NoToken
  <2>1. f = [g EXCEPT !.st.radio_power = NoToken] BY <1>5, <1>8
  <2>2. /\ f \in Effect /\ f.st = [e.st EXCEPT !.radio_power = NoToken]
        /\ f.toModem = e.toModem /\ f.view = e.view /\ f.news = e.news
        /\ f.answers = g.answers
    BY <1>2, <1>4, <2>1 DEF Effect
  <2> QED BY <1>3, <1>8, <2>2 DEF PowerNext, f
<1> QED BY <1>6, <1>7, <1>8

(* The tokens and the power mode stay.                                     *)
SameTokens(new, old) ==
  /\ new.power_mode = old.power_mode /\ new.baseband_version = old.baseband_version
  /\ new.get_imei = old.get_imei /\ new.get_imeisv = old.get_imeisv

(* The driver takes the status of the SIM over.                            *)
StatusNext(e, f, pin) ==
  /\ f.st.sim_pin_status = pin
  /\ f.st.radio_state = RadioState(ipc2ril_sim_status(e.st, pin))
  /\ Asked(f.st, f.toModem)

SameRadio(e, f) == f.st.radio_state = e.st.radio_state /\ f.toModem = e.toModem

(* What is left of the state when the token of GET_SIM_STATUS changes.     *)
LEMMA WaitingPut ==
  ASSUME NEW st \in State, NEW w \in Token \cup {NoToken, Waiting},
         NEW put, put = [st EXCEPT !.pin_status = w]
  PROVE  /\ put \in State /\ SameTokens(put, st)
         /\ put.radio_power = st.radio_power /\ put.pin_status = w
         /\ put.radio_state = st.radio_state /\ put.sim_pin_status = st.sim_pin_status
         /\ put.sim_status = st.sim_status
BY DEF State, SameTokens

(* The same in the fields of the state.                                    *)
LEMMA StoredFields ==
  ASSUME NEW e \in Effect, NEW pin \in Pin
  PROVE  LET f == Stored(e, pin)
         IN  /\ f \in Effect /\ f.view = e.view /\ f.news = e.news /\ f.answers = e.answers
             /\ SameTokens(f.st, e.st)
             /\ f.st.radio_power = e.st.radio_power /\ f.st.pin_status = e.st.pin_status
             /\ f.st.sim_pin_status = pin
             /\ Added(f.toModem, e.toModem, Queries(e.st))
             /\ e.st.power_mode # "NORMAL" => SameRadio(e, f)
             /\ e.st.power_mode = "NORMAL" => StatusNext(e, f, pin)
<1> DEFINE f == Stored(e, pin)
<1>1. StoredNext(e, f, pin) BY StatusStored
<1>2. e.st \in State BY DEF Effect
<1> HIDE DEF f
<1>3. CASE e.st.power_mode # "NORMAL"
  <2>1. f.st = [e.st EXCEPT !.sim_pin_status = pin] /\ f.toModem = e.toModem
    BY <1>1, <1>3 DEF StoredNext
  <2>2. /\ SameTokens(f.st, e.st)
        /\ f.st.radio_power = e.st.radio_power /\ f.st.pin_status = e.st.pin_status
        /\ f.st.radio_state = e.st.radio_state /\ f.st.sim_pin_status = pin
    BY <1>2, <2>1 DEF State, SameTokens
  <2>3. Added(f.toModem, e.toModem, Queries(e.st)) BY <2>1, AddedNone
  <2> QED BY <1>1, <1>3, <2>1, <2>2, <2>3 DEF StoredNext, SameRadio, f
<1>4. CASE ~ e.st.power_mode # "NORMAL"
  <2> DEFINE status == ipc2ril_sim_status(e.st, pin)
             radio == RadioState(status)
  <2>1. /\ f.st = [e.st EXCEPT !.sim_status = status, !.radio_state = radio,
                               !.sim_pin_status = pin]
        /\ Added(f.toModem, e.toModem, Queries(e.st)) /\ Asked(f.st, f.toModem)
    BY <1>1, <1>4 DEF StoredNext
  <2> HIDE DEF radio, status
  <2>2. /\ SameTokens(f.st, e.st)
        /\ f.st.radio_power = e.st.radio_power /\ f.st.pin_status = e.st.pin_status
        /\ f.st.radio_state = radio /\ f.st.sim_pin_status = pin
    BY <1>2, <2>1 DEF State, SameTokens
  <2> QED BY <1>1, <1>4, <2>1, <2>2 DEF StoredNext, StatusNext, f, radio, status
<1> QED BY <1>3, <1>4

(* A notification.                                                         *)
NotiNext(e, f, pin) ==
  /\ f \in Effect /\ SameTokens(f.st, e.st) /\ f.view = e.view
  /\ Added(f.toModem, e.toModem, Queries(e.st))
  /\ IF e.st.power_mode # "NORMAL"
     THEN f.st = e.st /\ f.toModem = e.toModem /\ f.answers = e.answers /\ f.news = e.news
     ELSE /\ f.st.radio_power = NoToken
          /\ Only(f.answers, e.answers, {e.st.radio_power})
          /\ OneMore(f.answers, e.answers, e.st.radio_power)
          /\ IF e.st.pin_status \in {NoToken, Waiting}
             THEN StatusNext(e, f, pin) /\ f.st.pin_status = Waiting /\ f.news = TRUE
             ELSE SameRadio(e, f) /\ f.st.pin_status = e.st.pin_status /\ f.news = e.news

(* The status depends on the one before only.                              *)
LEMMA SameStatus ==
  ASSUME NEW a, NEW b, a.sim_status = b.sim_status, NEW pin
  PROVE  ipc2ril_sim_status(a, pin) = ipc2ril_sim_status(b, pin)
BY DEF ipc2ril_sim_status

(* PinNoti, after PowerAnswered, does that.                                *)
LEMMA Notified ==
  ASSUME NEW e \in Effect, NEW pin \in Pin
  PROVE  NotiNext(e, PinNoti(PowerAnswered(e), pin), pin)
<1> DEFINE p == PowerAnswered(e)
           s == Stored(p, pin)
           f == PinNoti(p, pin)
<1>1. PowerNext(e, p) BY RadioPowerAnswered
<1>2. f = IF p.st.power_mode # "NORMAL" \/ p.st.pin_status \notin {NoToken, Waiting} THEN p
          ELSE [s EXCEPT !.st.pin_status = Waiting, !.news = TRUE]
  BY DEF PinNoti
<1>3. e.st \in State BY DEF Effect
<1>4. /\ p \in Effect /\ p.toModem = e.toModem /\ p.view = e.view /\ p.news = e.news
  BY <1>1 DEF PowerNext
<1>5. /\ s \in Effect /\ s.view = p.view /\ s.news = p.news /\ s.answers = p.answers
      /\ SameTokens(s.st, p.st)
      /\ s.st.radio_power = p.st.radio_power /\ s.st.pin_status = p.st.pin_status
      /\ s.st.sim_pin_status = pin
      /\ Added(s.toModem, p.toModem, Queries(p.st))
      /\ p.st.power_mode = "NORMAL" => StatusNext(p, s, pin)
  BY <1>4, StoredFields
<1> HIDE DEF p, s, f
<1>6. CASE e.st.power_mode # "NORMAL"
  <2>1. p.st = e.st /\ p.answers = e.answers BY <1>1, <1>6 DEF PowerNext
  <2>2. f = p BY <1>2, <1>6, <2>1
  <2> QED BY <1>4, <1>6, <2>1, <2>2, AddedNone DEF NotiNext, SameTokens, f, p
<1>7. CASE ~ e.st.power_mode # "NORMAL"
  <2>1. /\ p.st = [e.st EXCEPT !.radio_power = NoToken]
        /\ Only(p.answers, e.answers, {e.st.radio_power})
        /\ OneMore(p.answers, e.answers, e.st.radio_power)
    BY <1>1, <1>7 DEF PowerNext
  <2>2. /\ SameTokens(p.st, e.st) /\ p.st.radio_state = e.st.radio_state
        /\ p.st.sim_status = e.st.sim_status /\ p.st.pin_status = e.st.pin_status
        /\ p.st.radio_power = NoToken
    BY <1>3, <2>1, PowerTakenOut DEF SameTokens
  <2>3. CASE e.st.pin_status \notin {NoToken, Waiting}
    <3>1. f = p BY <1>2, <2>2, <2>3
    <3> QED BY <1>4, <1>7, <2>1, <2>2, <2>3, <3>1, AddedNone DEF NotiNext, SameRadio, f, p
  <2>4. CASE e.st.pin_status \in {NoToken, Waiting}
    <3>1. f = [s EXCEPT !.st.pin_status = Waiting, !.news = TRUE]
      BY <1>2, <1>7, <2>2, <2>4 DEF SameTokens
    <3>2. s.st \in State BY <1>5 DEF Effect
    <3> DEFINE w == [s.st EXCEPT !.pin_status = Waiting]
    <3>3. /\ w \in State /\ SameTokens(w, s.st)
          /\ w.radio_power = s.st.radio_power /\ w.pin_status = Waiting
          /\ w.radio_state = s.st.radio_state /\ w.sim_pin_status = s.st.sim_pin_status
      BY <3>2, WaitingPut
    <3> HIDE DEF w
    <3>4. /\ f \in Effect /\ f.st = w /\ f.toModem = s.toModem /\ f.view = s.view
          /\ f.answers = s.answers /\ f.news = TRUE
      BY <1>5, <3>1, <3>3 DEF Effect, w
    <3>5. p.st.power_mode = "NORMAL" BY <1>1, <1>3, <1>7, <2>2 DEF SameTokens, State
    <3>6. StatusNext(p, s, pin) BY <1>5, <3>5
    <3>7. SameTokens(f.st, e.st) BY <1>5, <2>2, <3>3, <3>4 DEF SameTokens
    <3>8. ipc2ril_sim_status(p.st, pin) = ipc2ril_sim_status(e.st, pin) BY <2>2, SameStatus
    <3>9. StatusNext(e, f, pin)
      BY <1>5, <3>3, <3>4, <3>6, <3>8 DEF StatusNext, Asked, SameTokens
    <3>10. Added(f.toModem, e.toModem, Queries(e.st))
      BY <1>4, <1>5, <2>2, <3>4 DEF Queries, SameTokens
    <3>11. f.st.radio_power = NoToken /\ f.st.pin_status = Waiting
      BY <1>5, <2>2, <3>3, <3>4
    <3>12. f.view = e.view /\ f.answers = p.answers BY <1>4, <1>5, <3>4
    <3> QED BY <1>7, <2>1, <2>4, <3>4, <3>7, <3>9, <3>10, <3>11, <3>12 DEF NotiNext, f, p
  <2> QED BY <2>3, <2>4
<1> QED BY <1>6, <1>7

(* A response.                                                             *)
RespNext(e, f, t, pin) ==
  /\ f \in Effect /\ SameTokens(f.st, e.st) /\ f.news = e.news
  /\ Added(f.toModem, e.toModem, Queries(e.st))
  /\ f.st.sim_pin_status = pin
  /\ f.st.pin_status = IF e.st.pin_status = Waiting THEN Waiting ELSE NoToken
  /\ t = NoToken => f.view = e.view
  /\ t # NoToken /\ requests[t] = "GET_SIM_STATUS" /\ pin # 0
     /\ SimHistory[pin] # "SIM_PB_INIT_COMPLETE" => f.view = Card(StatusOf[SimHistory[pin]])
  /\ IF e.st.power_mode # "NORMAL"
     THEN /\ SameRadio(e, f) /\ f.st.radio_power = e.st.radio_power
          /\ Only(f.answers, e.answers, {t}) /\ OneMore(f.answers, e.answers, t)
     ELSE /\ f.st.radio_power = NoToken
          /\ Only(f.answers, e.answers, {t, e.st.radio_power})
          /\ t # e.st.radio_power =>
               OneMore(f.answers, e.answers, t) /\ OneMore(f.answers, e.answers, e.st.radio_power)
          /\ StatusNext(e, f, pin)

(* Two requests answered in turn.                                          *)
LEMMA AnsweredInTurn ==
  ASSUME NEW old, NEW mid, NEW new, NEW t \in Token \cup {NoToken}, NEW u \in Token \cup {NoToken},
         Only(mid, old, {u}), OneMore(mid, old, u), Only(new, mid, {t}), OneMore(new, mid, t)
  PROVE  /\ Only(new, old, {t, u})
         /\ t # u => OneMore(new, old, t) /\ OneMore(new, old, u)
BY DEF Only, OneMore

(* A response to GET_SIM_STATUS, after PowerAnswered, does that.           *)
LEMMA Responded ==
  ASSUME NEW e \in Effect, NEW t \in Token \cup {NoToken}, NEW pin \in Pin
  PROVE  RespNext(e, PinResp(PowerAnswered(e), t, pin), t, pin)
<1> DEFINE p == PowerAnswered(e)
           s == Stored(p, pin)
           seen == IF t # NoToken /\ requests[t] = "GET_SIM_STATUS"
                   THEN [s EXCEPT !.view = ipc2ril_card_status(s.st, pin)] ELSE s
           c == Completing(seen, t, "SUCCESS")
           f == PinResp(p, t, pin)
           w == IF c.st.pin_status = Waiting THEN Waiting ELSE NoToken
           put == [c.st EXCEPT !.pin_status = w]
<1>1. PowerNext(e, p) BY RadioPowerAnswered
<1>2. f = [c EXCEPT !.st.pin_status = w] BY DEF PinResp
<1>3. e.st \in State /\ e.st.radio_power \in Token \cup {NoToken} BY DEF Effect, State
<1>4. /\ p \in Effect /\ p.toModem = e.toModem /\ p.view = e.view /\ p.news = e.news
  BY <1>1 DEF PowerNext
<1> HIDE DEF p
<1>5. /\ s \in Effect /\ s.view = p.view /\ s.news = p.news /\ s.answers = p.answers
      /\ SameTokens(s.st, p.st)
      /\ s.st.radio_power = p.st.radio_power /\ s.st.pin_status = p.st.pin_status
      /\ s.st.sim_pin_status = pin
      /\ Added(s.toModem, p.toModem, Queries(p.st))
      /\ p.st.power_mode # "NORMAL" => SameRadio(p, s)
      /\ p.st.power_mode = "NORMAL" => StatusNext(p, s, pin)
  BY <1>4, StoredFields
<1> HIDE DEF s
<1>6. /\ seen \in Effect /\ seen.st = s.st /\ seen.toModem = s.toModem /\ seen.news = s.news
      /\ seen.answers = s.answers
      /\ seen.view = IF t # NoToken /\ requests[t] = "GET_SIM_STATUS"
                     THEN ipc2ril_card_status(s.st, pin) ELSE s.view
  <2>1. ipc2ril_card_status(s.st, pin) \in Cards
    <3>1. s.st \in State BY <1>5 DEF Effect
    <3> QED BY <3>1, SimStatusTyped DEF ipc2ril_card_status, Cards
  <2> QED BY <1>5, <2>1 DEF Effect
<1>7. /\ pin # 0 /\ SimHistory[pin] # "SIM_PB_INIT_COMPLETE" =>
           ipc2ril_card_status(s.st, pin) = Card(StatusOf[SimHistory[pin]])
  <2>1. s.st \in State BY <1>5 DEF Effect
  <2> QED BY <2>1, SimStatusTyped DEF ipc2ril_card_status
<1> HIDE DEF seen
<1>8. /\ c \in Effect /\ c.st = s.st /\ c.toModem = s.toModem /\ c.news = s.news
      /\ c.view = seen.view
      /\ Only(c.answers, p.answers, {t}) /\ OneMore(c.answers, p.answers, t)
  <2>1. /\ c \in Effect /\ c.st = seen.st /\ c.toModem = seen.toModem /\ c.news = seen.news
        /\ c.view = seen.view
    BY <1>6, CompletingTyped DEF Errnos
  <2>2. Only(c.answers, seen.answers, {t}) /\ OneMore(c.answers, seen.answers, t)
    BY <1>6, CompletedOnce
  <2>3. seen.answers = p.answers BY <1>5, <1>6
  <2> HIDE DEF c
  <2> QED BY <1>6, <2>1, <2>2, <2>3
<1> HIDE DEF c
<1>9. /\ put \in State /\ SameTokens(put, s.st)
      /\ put.radio_power = s.st.radio_power
      /\ put.pin_status = IF s.st.pin_status = Waiting THEN Waiting ELSE NoToken
      /\ put.radio_state = s.st.radio_state /\ put.sim_pin_status = pin
  <2>1. c.st \in State BY <1>8 DEF Effect
  <2> QED BY <1>5, <1>8, <2>1, WaitingPut
<1>10. /\ f \in Effect /\ f.st = put /\ f.toModem = c.toModem /\ f.view = c.view
       /\ f.answers = c.answers /\ f.news = c.news
  <2> HIDE DEF w
  <2>1. f = [c EXCEPT !.st = put] BY <1>2, <1>8 DEF Effect
  <2> HIDE DEF put
  <2> QED BY <1>8, <1>9, <2>1 DEF Effect
<1> HIDE DEF put, w, f
<1>11. /\ SameTokens(p.st, e.st) /\ p.st.radio_state = e.st.radio_state
       /\ p.st.sim_status = e.st.sim_status /\ p.st.pin_status = e.st.pin_status
       /\ p.st.power_mode = e.st.power_mode
  <2>1. CASE e.st.power_mode # "NORMAL" BY <1>1, <2>1 DEF PowerNext, SameTokens
  <2>2. CASE ~ e.st.power_mode # "NORMAL"
    <3>1. p.st = [e.st EXCEPT !.radio_power = NoToken] BY <1>1, <2>2 DEF PowerNext
    <3> QED BY <1>3, <3>1, PowerTakenOut DEF SameTokens
  <2> QED BY <2>1, <2>2
<1>12. /\ SameTokens(f.st, e.st) /\ f.news = e.news
       /\ Added(f.toModem, e.toModem, Queries(e.st))
       /\ f.st.sim_pin_status = pin
       /\ f.st.pin_status = IF e.st.pin_status = Waiting THEN Waiting ELSE NoToken
  <2>1. Queries(p.st) = Queries(e.st) BY <1>11 DEF Queries, SameTokens
  <2>2. SameTokens(f.st, e.st) BY <1>5, <1>9, <1>10, <1>11 DEF SameTokens
  <2> QED BY <1>4, <1>5, <1>8, <1>9, <1>10, <1>11, <2>1, <2>2
<1>13. /\ t = NoToken => f.view = e.view
       /\ t # NoToken /\ requests[t] = "GET_SIM_STATUS" /\ pin # 0
          /\ SimHistory[pin] # "SIM_PB_INIT_COMPLETE" => f.view = Card(StatusOf[SimHistory[pin]])
  BY <1>4, <1>5, <1>6, <1>7, <1>8, <1>10
<1>14. CASE e.st.power_mode # "NORMAL"
  <2>1. p.st = e.st /\ p.answers = e.answers BY <1>1, <1>14 DEF PowerNext
  <2>2. SameRadio(e, f) /\ f.st.radio_power = e.st.radio_power
    BY <1>4, <1>5, <1>8, <1>9, <1>10, <1>14, <2>1 DEF SameRadio
  <2> QED BY <1>8, <1>10, <1>12, <1>13, <1>14, <2>1, <2>2 DEF RespNext, f, p
<1>15. CASE ~ e.st.power_mode # "NORMAL"
  <2>1. /\ p.st = [e.st EXCEPT !.radio_power = NoToken]
        /\ Only(p.answers, e.answers, {e.st.radio_power})
        /\ OneMore(p.answers, e.answers, e.st.radio_power)
    BY <1>1, <1>15 DEF PowerNext
  <2>2. p.st.radio_power = NoToken BY <1>3, <2>1, PowerTakenOut
  <2>3. f.st.radio_power = NoToken BY <1>5, <1>9, <1>10, <2>2
  <2>4. /\ Only(f.answers, e.answers, {t, e.st.radio_power})
        /\ t # e.st.radio_power =>
             OneMore(f.answers, e.answers, t) /\ OneMore(f.answers, e.answers, e.st.radio_power)
    BY <1>3, <1>8, <1>10, <2>1, AnsweredInTurn
  <2>5. StatusNext(p, s, pin) BY <1>5, <1>11, <1>15
  <2>6. ipc2ril_sim_status(p.st, pin) = ipc2ril_sim_status(e.st, pin) BY <1>11, SameStatus
  <2>7. StatusNext(e, f, pin)
    BY <1>8, <1>9, <1>10, <2>5, <2>6 DEF StatusNext, Asked, SameTokens
  <2> QED BY <1>10, <1>12, <1>13, <1>15, <2>3, <2>4, <2>7 DEF RespNext, f, p
<1> QED BY <1>14, <1>15

(* What a step leaves behind when it has the effect f.                     *)
Leaves(f) ==
  /\ ril_state' = f.st /\ toModem' = f.toModem /\ answers' = f.answers /\ view' = f.view
  /\ told' = (told \/ f.news)

(* The power mode and the radio.                                           *)
ReceivedPower(m) ==
  /\ m.what = "PWR_UP" =>
       ril_state'.power_mode = "LPM" /\ ril_state'.radio_state = "OFF"
  /\ m.what = "NORMAL" =>
       ril_state'.power_mode = "NORMAL" /\ ril_state'.radio_state # "OFF"
  /\ m.what \notin {"PWR_UP", "NORMAL"} =>
       /\ ril_state'.power_mode = ril_state.power_mode
       /\ \/ ril_state'.radio_state = ril_state.radio_state
          \/ ril_state.power_mode = "NORMAL" /\ ril_state'.radio_state # "OFF"

(* The tokens.                                                             *)
ReceivedTokens(m) ==
  /\ ril_state'.radio_power =
       IF m.what \in Statuses /\ ril_state.power_mode = "NORMAL" THEN NoToken
       ELSE ril_state.radio_power
  /\ \/ ril_state'.pin_status = ril_state.pin_status
     \/ ril_state'.pin_status \in {NoToken, Waiting}
  /\ m.what = "PIN_STATUS" => ril_state'.pin_status \in {NoToken, Waiting}
  /\ ril_state'.baseband_version =
       IF m.what = "ME_VERSION" THEN NoToken ELSE ril_state.baseband_version
  /\ ril_state'.get_imei = IF m.what = "ME_SN" THEN NoToken ELSE ril_state.get_imei
  /\ ril_state'.get_imeisv = IF m.what = "ME_SN" THEN NoToken ELSE ril_state.get_imeisv
  /\ m.what = "NORMAL" => Asked(ril_state', toModem')

(* The status of the SIM, and what rild is told of it.                     *)
Known(pin) == pin # 0 /\ SimHistory[pin] # "SIM_PB_INIT_COMPLETE"

TakenOver(m) ==
  /\ ril_state'.sim_pin_status = m.pin
  /\ Known(m.pin) => ril_state'.radio_state = RadioState(StatusOf[SimHistory[m.pin]])

ReceivedStatus(m) ==
  /\ m.what \notin Statuses \cup {"PWR_UP", "NORMAL"} =>
       /\ ril_state'.sim_pin_status = ril_state.sim_pin_status
       /\ ril_state'.radio_state = ril_state.radio_state
  /\ m.what \notin Statuses => view' = view /\ told' = told
  /\ m.what = "PIN_NOTI" /\ ril_state.power_mode = "NORMAL" =>
       /\ ril_state.pin_status \in {NoToken, Waiting} => TakenOver(m) /\ told'
       /\ ril_state.pin_status \notin {NoToken, Waiting} => told' = told /\ view' = view
  /\ m.what = "PIN_STATUS" /\ ril_state.power_mode = "NORMAL" => TakenOver(m)
  /\ m.what = "PIN_STATUS" =>
       /\ told' = told
       /\ m.token # NoToken /\ requests[m.token] = "GET_SIM_STATUS" /\ Known(m.pin) =>
            view' = Card(StatusOf[SimHistory[m.pin]])

(* The requests that are answered.                                         *)
AnsweredBy(m) ==
  (IF m.what \in Statuses /\ ril_state.power_mode = "NORMAL" THEN {ril_state.radio_power} ELSE {})
  \cup (IF m.what \in {"PIN_STATUS", "ICON_INFO", "ME_SN", "ME_VERSION"} THEN {m.token} ELSE {})
  \cup (IF m.what = "ME_SN" THEN {ril_state.get_imei, ril_state.get_imeisv} ELSE {})

ReceivedAnswers(m) ==
  /\ Only(answers', answers, AnsweredBy(m))
  /\ m.what \in Statuses /\ ril_state.power_mode = "NORMAL" /\ m.token # ril_state.radio_power =>
       OneMore(answers', answers, ril_state.radio_power)
  /\ m.what \in Once /\ m.token # ril_state.radio_power =>
       answers' = answers \/ OneMore(answers', answers, m.token)

Received(m) ==
  /\ TypeOK' /\ m \in FromModem /\ m = fromModem[1] /\ fromModem # <<>>
  /\ fromModem' = Tail(fromModem)
  /\ UNCHANGED <<on, sim, requests, crossed, failures>>
  /\ Added(toModem', toModem, Queries(ril_state) \cup {To("DEVICE_READY", NoToken)})
  /\ forgotten \subseteq forgotten'
  /\ m.what = "ME_SN_TOO_LONG" =>
       {ril_state.get_imei, ril_state.get_imeisv} \ {NoToken} \subseteq forgotten'
  /\ ReceivedPower(m) /\ ReceivedTokens(m) /\ ReceivedStatus(m) /\ ReceivedAnswers(m)

(* What the message of each kind does.                                     *)
Dealt(m, f) ==
  /\ f \in Effect
  /\ Added(toModem', toModem, Queries(ril_state) \cup {To("DEVICE_READY", NoToken)})
  /\ ReceivedPower(m) /\ ReceivedTokens(m) /\ ReceivedStatus(m) /\ ReceivedAnswers(m)

(* What a handler starts from is the state the driver is in.               *)
LEMMA StartFields ==
  TypeOK => /\ Start \in Effect /\ Start.st = ril_state /\ Start.toModem = toModem
            /\ Start.answers = answers /\ Start.view = view /\ Start.news = FALSE
            /\ ril_state \in State /\ told \in BOOLEAN
BY StartTyped DEF Start, TypeOK

(* ipc_pwr_phone_pwr_up.                                                   *)
LEMMA DealtPwrUp ==
  ASSUME TypeOK, NEW m \in FromModem, m.what = "PWR_UP",
         NEW f, f = ipc_pwr_phone_pwr_up(Start), Leaves(f)
  PROVE  Dealt(m, f)
<1>1. ril_state \in State /\ Start \in Effect /\ told \in BOOLEAN BY StartFields
<1>2. /\ f \in Effect /\ f.st = [ril_state EXCEPT !.radio_state = "OFF", !.power_mode = "LPM"]
      /\ f.toModem = toModem /\ f.answers = answers /\ f.view = view /\ f.news = FALSE
  <2> DEFINE off == [ril_state EXCEPT !.radio_state = "OFF", !.power_mode = "LPM"]
  <2>1. off \in State BY <1>1 DEF State
  <2>2. f = [Start EXCEPT !.st = off] BY <1>1, StartFields DEF ipc_pwr_phone_pwr_up, Effect
  <2> HIDE DEF off
  <2>3. f \in Effect /\ f.st = off /\ f.toModem = Start.toModem
        /\ f.answers = Start.answers /\ f.view = Start.view /\ f.news = Start.news
    BY <1>1, <2>1, <2>2 DEF Effect
  <2> QED BY <2>3, StartFields DEF off
<1>3. /\ toModem' = toModem /\ answers' = answers /\ view' = view /\ told' = told
      /\ ril_state' = [ril_state EXCEPT !.radio_state = "OFF", !.power_mode = "LPM"]
  BY <1>1, <1>2 DEF Leaves
<1>4. /\ ril_state'.radio_state = "OFF" /\ ril_state'.power_mode = "LPM"
      /\ ril_state'.radio_power = ril_state.radio_power
      /\ ril_state'.pin_status = ril_state.pin_status
      /\ ril_state'.baseband_version = ril_state.baseband_version
      /\ ril_state'.get_imei = ril_state.get_imei
      /\ ril_state'.get_imeisv = ril_state.get_imeisv
  BY <1>1, <1>3 DEF State
<1>5. Added(toModem', toModem, Queries(ril_state) \cup {To("DEVICE_READY", NoToken)})
  BY <1>3, AddedNone
<1> QED
  BY <1>2, <1>3, <1>4, <1>5
  DEF Dealt, ReceivedPower, ReceivedTokens, ReceivedStatus, ReceivedAnswers, Only, Once, Statuses

(* ipc_pwr_phone_state, of a modem that has come on.                       *)
LEMMA DealtNormal ==
  ASSUME TypeOK, NEW m \in FromModem, m.what = "NORMAL",
         NEW f, f = ipc_pwr_phone_state(Start, "NORMAL"), Leaves(f)
  PROVE  Dealt(m, f)
<1> DEFINE e == [Start EXCEPT !.st.power_mode = "NORMAL",
                              !.st.radio_state = IF "NORMAL" = "LPM" THEN "OFF" ELSE "SIM_NOT_READY"]
<1>1. ril_state \in State /\ Start \in Effect /\ told \in BOOLEAN BY StartFields
<1>2. /\ e \in Effect
      /\ e.st = [ril_state EXCEPT !.power_mode = "NORMAL", !.radio_state = "SIM_NOT_READY"]
      /\ e.toModem = toModem /\ e.answers = answers /\ e.view = view /\ e.news = FALSE
  BY <1>1, StartFields DEF Effect, State
<1>3. f = ril_tokens_check(e) BY DEF ipc_pwr_phone_state
<1> HIDE DEF e
<1>4. CheckNext(e, f) BY <1>2, <1>3, TokensChecked
<1>5. /\ e.st.radio_state = "SIM_NOT_READY" /\ e.st.power_mode = "NORMAL"
      /\ e.st.radio_power = ril_state.radio_power
      /\ e.st.pin_status = ril_state.pin_status
      /\ e.st.baseband_version = ril_state.baseband_version
      /\ e.st.get_imei = ril_state.get_imei
      /\ e.st.get_imeisv = ril_state.get_imeisv
  BY <1>1, <1>2 DEF State
<1>6. /\ f \in Effect /\ ril_state' = e.st /\ answers' = answers /\ view' = view
      /\ told' = told /\ toModem' = f.toModem /\ f.st = e.st
  BY <1>1, <1>2, <1>4 DEF CheckNext, Leaves
<1>7. Added(toModem', toModem, Queries(ril_state) \cup {To("DEVICE_READY", NoToken)})
  <2>1. Added(toModem', toModem, Queries(ril_state))
    BY <1>2, <1>4, <1>5, <1>6 DEF CheckNext, Queries
  <2> QED BY <2>1, AddedMore
<1>8. Asked(ril_state', toModem') BY <1>4, <1>6 DEF CheckNext, Asked, Off
<1> QED
  BY <1>5, <1>6, <1>7, <1>8
  DEF Dealt, ReceivedPower, ReceivedTokens, ReceivedStatus, ReceivedAnswers, Only, Once, Statuses

(* A status known to the driver is that of the SIM.                        *)
LEMMA StatusKnown ==
  ASSUME NEW e \in Effect, NEW f, NEW pin \in Pin, StatusNext(e, f, pin)
  PROVE  /\ f.st.sim_pin_status = pin /\ f.st.radio_state # "OFF"
         /\ Known(pin) => f.st.radio_state = RadioState(StatusOf[SimHistory[pin]])
         /\ Asked(f.st, f.toModem)
<1>1. e.st \in State BY DEF Effect
<1>2. /\ ipc2ril_sim_status(e.st, pin) \in SIM_Status
      /\ Known(pin) => ipc2ril_sim_status(e.st, pin) = StatusOf[SimHistory[pin]]
  BY <1>1, SimStatusTyped DEF Known
<1>3. RadioState(ipc2ril_sim_status(e.st, pin)) # "OFF" BY <1>2, StatusTyped
<1> QED BY <1>2, <1>3 DEF StatusNext

(* ipc_sec_pin_status, of a notification.                                  *)
LEMMA DealtPinNoti ==
  ASSUME TypeOK, NEW m \in FromModem, m.what = "PIN_NOTI",
         NEW f, f = PinNoti(PowerAnswered(Start), m.pin), Leaves(f)
  PROVE  Dealt(m, f)
<1>1. /\ ril_state \in State /\ Start \in Effect /\ told \in BOOLEAN /\ m.pin \in Pin
      /\ Start.st = ril_state /\ Start.toModem = toModem /\ Start.answers = answers
      /\ Start.view = view /\ Start.news = FALSE
  BY StartFields DEF FromModem
<1>2. NotiNext(Start, f, m.pin) BY <1>1, Notified
<1>3. /\ f \in Effect /\ SameTokens(ril_state', ril_state) /\ view' = view
      /\ Added(toModem', toModem, Queries(ril_state))
  BY <1>1, <1>2 DEF NotiNext, Leaves
<1>4. Added(toModem', toModem, Queries(ril_state) \cup {To("DEVICE_READY", NoToken)})
  BY <1>3, AddedMore
<1>5. CASE ril_state.power_mode # "NORMAL"
  <2>1. ril_state' = ril_state /\ answers' = answers /\ told' = told
    BY <1>1, <1>2, <1>5 DEF NotiNext, Leaves
  <2> QED
    BY <1>3, <1>4, <1>5, <2>1
    DEF Dealt, ReceivedPower, ReceivedTokens, ReceivedStatus, ReceivedAnswers, Only, Once, Statuses
<1>6. CASE ~ ril_state.power_mode # "NORMAL"
  <2>1. /\ ril_state'.radio_power = NoToken
        /\ Only(answers', answers, {ril_state.radio_power})
        /\ OneMore(answers', answers, ril_state.radio_power)
    BY <1>1, <1>2, <1>6 DEF NotiNext, Leaves
  <2>2. ReceivedAnswers(m)
    BY <1>6, <2>1 DEF ReceivedAnswers, AnsweredBy, Statuses, Once
  <2>3. CASE ril_state.pin_status \in {NoToken, Waiting}
    <3>1. StatusNext(Start, f, m.pin) /\ ril_state'.pin_status = Waiting /\ told'
      BY <1>1, <1>2, <1>6, <2>3 DEF NotiNext, Leaves
    <3>2. TakenOver(m) /\ ril_state'.radio_state # "OFF"
      BY <1>1, <3>1, StatusKnown DEF TakenOver, Leaves
    <3> QED
      BY <1>3, <1>4, <1>6, <2>1, <2>2, <2>3, <3>1, <3>2
      DEF Dealt, ReceivedPower, ReceivedTokens, ReceivedStatus, SameTokens, Statuses
  <2>4. CASE ril_state.pin_status \notin {NoToken, Waiting}
    <3>1. /\ ril_state'.radio_state = ril_state.radio_state
          /\ ril_state'.pin_status = ril_state.pin_status /\ told' = told
      BY <1>1, <1>2, <1>6, <2>4 DEF NotiNext, Leaves, SameRadio
    <3> QED
      BY <1>3, <1>4, <1>6, <2>1, <2>2, <2>4, <3>1
      DEF Dealt, ReceivedPower, ReceivedTokens, ReceivedStatus, SameTokens, Statuses
  <2> QED BY <2>3, <2>4
<1> QED BY <1>5, <1>6

(* ipc_sec_pin_status, of a response.                                      *)
LEMMA DealtPinStatus ==
  ASSUME TypeOK, NEW m \in FromModem, m.what = "PIN_STATUS",
         NEW f, f = PinResp(PowerAnswered(Start), m.token, m.pin), Leaves(f)
  PROVE  Dealt(m, f)
<1>1. /\ ril_state \in State /\ Start \in Effect /\ told \in BOOLEAN /\ m.pin \in Pin
      /\ m.token \in Token \cup {NoToken}
      /\ Start.st = ril_state /\ Start.toModem = toModem /\ Start.answers = answers
      /\ Start.view = view /\ Start.news = FALSE
  BY StartFields DEF FromModem
<1>2. RespNext(Start, f, m.token, m.pin) BY <1>1, Responded
<1>3. /\ f \in Effect /\ SameTokens(ril_state', ril_state) /\ told' = told
      /\ Added(toModem', toModem, Queries(ril_state))
      /\ ril_state'.pin_status \in {NoToken, Waiting}
      /\ ril_state'.sim_pin_status = m.pin
      /\ m.token # NoToken /\ requests[m.token] = "GET_SIM_STATUS" /\ Known(m.pin) =>
           view' = Card(StatusOf[SimHistory[m.pin]])
  BY <1>1, <1>2 DEF RespNext, Leaves, Known
<1>4. Added(toModem', toModem, Queries(ril_state) \cup {To("DEVICE_READY", NoToken)})
  BY <1>3, AddedMore
<1>5. CASE ril_state.power_mode # "NORMAL"
  <2>1. /\ ril_state'.radio_state = ril_state.radio_state
        /\ ril_state'.radio_power = ril_state.radio_power
        /\ Only(answers', answers, {m.token}) /\ OneMore(answers', answers, m.token)
    BY <1>1, <1>2, <1>5 DEF RespNext, Leaves, SameRadio
  <2> QED
    BY <1>3, <1>4, <1>5, <2>1
    DEF Dealt, ReceivedPower, ReceivedTokens, ReceivedStatus, ReceivedAnswers, AnsweredBy, Only,
        Once, Statuses, SameTokens
<1>6. CASE ~ ril_state.power_mode # "NORMAL"
  <2>1. /\ ril_state'.radio_power = NoToken
        /\ Only(answers', answers, {m.token, ril_state.radio_power})
        /\ m.token # ril_state.radio_power =>
             /\ OneMore(answers', answers, m.token)
             /\ OneMore(answers', answers, ril_state.radio_power)
    BY <1>1, <1>2, <1>6 DEF RespNext, Leaves
  <2>2. AnsweredBy(m) = {m.token, ril_state.radio_power}
    BY <1>6 DEF AnsweredBy, Statuses
  <2>3. ReceivedAnswers(m)
    BY <1>6, <2>1, <2>2 DEF ReceivedAnswers, Statuses, Once
  <2>4. StatusNext(Start, f, m.pin) BY <1>1, <1>2, <1>6 DEF RespNext
  <2>5. TakenOver(m) /\ ril_state'.radio_state # "OFF"
    BY <1>1, <2>4, StatusKnown DEF TakenOver, Leaves
  <2> QED
    BY <1>3, <1>4, <1>6, <2>1, <2>3, <2>5
    DEF Dealt, ReceivedPower, ReceivedTokens, ReceivedStatus, SameTokens, Statuses
<1> QED BY <1>5, <1>6

(* What stays when the state is not touched.                               *)
Untouched(m) ==
  /\ ril_state' = ril_state /\ view' = view /\ told' = told

(* A handler that leaves the state and answers nothing it must not does    *)
(* what is said of its message.                                            *)
LEMMA DealtUntouched ==
  ASSUME TypeOK, NEW m \in FromModem, NEW f \in Effect, Untouched(m),
         m.what \in {"ICON_INFO", "DEVICE_READY", "ME_SN_TOO_LONG"},
         Added(toModem', toModem, Queries(ril_state) \cup {To("DEVICE_READY", NoToken)}),
         ReceivedAnswers(m)
  PROVE  Dealt(m, f)
BY DEF Dealt, Untouched, ReceivedPower, ReceivedTokens, ReceivedStatus, Statuses

(* A message that answers nobody.                                          *)
LEMMA NoneAnswered ==
  ASSUME NEW m, answers' = answers, m.what \notin Statuses PROVE ReceivedAnswers(m)
BY DEF ReceivedAnswers, AnsweredBy, Only

(* ipc_misc_me_sn, of a serial number that is too long.                    *)
LEMMA DealtTooLong ==
  ASSUME TypeOK, NEW m \in FromModem, m.what = "ME_SN_TOO_LONG", Leaves(Start)
  PROVE  Dealt(m, Start)
<1>1. Start \in Effect /\ Untouched(m) /\ answers' = answers /\ toModem' = toModem
  BY StartFields DEF Leaves, Untouched
<1>2. Added(toModem', toModem, Queries(ril_state) \cup {To("DEVICE_READY", NoToken)})
  BY <1>1, AddedNone
<1>3. ReceivedAnswers(m) BY <1>1, NoneAnswered DEF Statuses
<1> QED BY <1>1, <1>2, <1>3, DealtUntouched

(* ipc_sms_device_ready.                                                   *)
LEMMA DealtDeviceReady ==
  ASSUME TypeOK, NEW m \in FromModem, m.what = "DEVICE_READY",
         NEW f, f = ipc_sms_device_ready(Start), Leaves(f)
  PROVE  Dealt(m, f)
<1> DEFINE ready == To("DEVICE_READY", NoToken)
           e == IF Start.st.radio_state = "ON" THEN Sending(Start, ready) ELSE Start
           M == Queries(ril_state) \cup {ready}
<1>1. /\ Start \in Effect /\ Start.st = ril_state /\ Start.toModem = toModem
      /\ Start.answers = answers /\ Start.view = view /\ Start.news = FALSE /\ told \in BOOLEAN
      /\ toModem \in Seq(ToModem)
  BY StartFields DEF TypeOK
<1>2. ready \in ToModem BY ToTyped DEF Orders
<1>3. f = ril_tokens_check(e) BY DEF ipc_sms_device_ready
<1> HIDE DEF ready
<1>4. /\ e \in Effect /\ e.st = ril_state /\ e.answers = answers /\ e.view = view
      /\ e.news = FALSE
      /\ e.toModem = toModem \/ e.toModem = Append(toModem, ready)
  BY <1>1, <1>2, SendingTyped
<1> HIDE DEF e
<1>5. CheckNext(e, f) BY <1>3, <1>4, TokensChecked
<1>6. f \in Effect /\ Untouched(m) /\ answers' = answers /\ toModem' = f.toModem
  BY <1>1, <1>4, <1>5 DEF CheckNext, Leaves, Untouched
<1>7. Added(toModem', e.toModem, M) BY <1>4, <1>5, <1>6, AddedMore DEF CheckNext
<1>8. Added(e.toModem, toModem, M)
  <2>1. ready \in M OBVIOUS
  <2> HIDE DEF M
  <2>2. CASE e.toModem = toModem BY <2>2, AddedNone
  <2>3. CASE e.toModem = Append(toModem, ready) BY <1>1, <1>2, <2>1, <2>3, AddedOne
  <2> QED BY <1>4, <2>2, <2>3
<1>9. Added(toModem', toModem, M) BY <1>7, <1>8, AddedTwice
<1>10. ReceivedAnswers(m) BY <1>6, NoneAnswered DEF Statuses
<1> QED BY <1>6, <1>9, <1>10, DealtUntouched DEF ready

(* ipc_disp_icon_info.                                                     *)
LEMMA DealtIconInfo ==
  ASSUME TypeOK, NEW m \in FromModem, m.what = "ICON_INFO",
         NEW f, f = ipc_disp_icon_info(Start, m.token), Leaves(f)
  PROVE  Dealt(m, f)
<1>1. /\ Start \in Effect /\ Start.st = ril_state /\ Start.toModem = toModem
      /\ Start.answers = answers /\ Start.view = view /\ Start.news = FALSE /\ told \in BOOLEAN
      /\ m.token \in Token \cup {NoToken}
  BY StartFields DEF FromModem
<1>2. CASE f = Start
  <2>1. Untouched(m) /\ answers' = answers /\ toModem' = toModem
    BY <1>1, <1>2 DEF Leaves, Untouched
  <2>2. Added(toModem', toModem, Queries(ril_state) \cup {To("DEVICE_READY", NoToken)})
    BY <2>1, AddedNone
  <2>3. ReceivedAnswers(m) BY <2>1, NoneAnswered DEF Statuses
  <2> QED BY <1>1, <1>2, <2>1, <2>2, <2>3, DealtUntouched
<1>3. CASE f = Completing(Start, m.token, "SUCCESS")
  <2>1. /\ f \in Effect /\ f.st = ril_state /\ f.toModem = toModem /\ f.view = view
        /\ f.news = FALSE
    <3> DEFINE c == Completing(Start, m.token, "SUCCESS")
    <3>1. /\ c \in Effect /\ c.st = Start.st /\ c.toModem = Start.toModem
          /\ c.view = Start.view /\ c.news = Start.news
      BY <1>1, CompletingTyped DEF Errnos
    <3>2. f = c BY <1>3
    <3> HIDE DEF c
    <3> QED BY <1>1, <3>1, <3>2
  <2>2. Only(f.answers, answers, {m.token}) /\ OneMore(f.answers, answers, m.token)
    BY <1>1, <1>3, CompletedOnce
  <2>3. ReceivedAnswers(m)
    BY <2>2 DEF ReceivedAnswers, AnsweredBy, Leaves, Statuses, Once
  <2>4. Untouched(m) /\ toModem' = toModem BY <1>1, <2>1 DEF Leaves, Untouched
  <2>5. Added(toModem', toModem, Queries(ril_state) \cup {To("DEVICE_READY", NoToken)})
    BY <2>4, AddedNone
  <2> QED BY <2>1, <2>3, <2>4, <2>5, DealtUntouched
<1> QED BY <1>2, <1>3 DEF ipc_disp_icon_info

(* To take out the token of BASEBAND_VERSION changes one field.            *)
LEMMA VersionTakenOut ==
  ASSUME NEW st \in State, NEW out, out = [st EXCEPT !.baseband_version = NoToken]
  PROVE  /\ out \in State /\ out.power_mode = st.power_mode
         /\ out.radio_state = st.radio_state /\ out.sim_pin_status = st.sim_pin_status
         /\ out.pin_status = st.pin_status /\ out.radio_power = st.radio_power
         /\ out.get_imei = st.get_imei /\ out.get_imeisv = st.get_imeisv
         /\ out.baseband_version = NoToken
BY DEF State

(* ipc_misc_me_version.                                                    *)
LEMMA DealtMeVersion ==
  ASSUME TypeOK, NEW m \in FromModem, m.what = "ME_VERSION",
         NEW f, f = ipc_misc_me_version(Start, m.token), Leaves(f)
  PROVE  Dealt(m, f)
<1> DEFINE c == Completing(Start, m.token, "SUCCESS")
           out == [ril_state EXCEPT !.baseband_version = NoToken]
<1>1. /\ Start \in Effect /\ Start.st = ril_state /\ Start.toModem = toModem
      /\ Start.answers = answers /\ Start.view = view /\ Start.news = FALSE /\ told \in BOOLEAN
      /\ m.token \in Token \cup {NoToken} /\ ril_state \in State
  BY StartFields DEF FromModem
<1>2. /\ c \in Effect /\ c.st = ril_state /\ c.toModem = toModem /\ c.view = view
      /\ c.news = FALSE /\ Only(c.answers, answers, {m.token})
  BY <1>1, CompletingTyped, CompletedOnce DEF Errnos
<1>3. /\ out \in State /\ out.power_mode = ril_state.power_mode
      /\ out.radio_state = ril_state.radio_state /\ out.sim_pin_status = ril_state.sim_pin_status
      /\ out.pin_status = ril_state.pin_status /\ out.radio_power = ril_state.radio_power
      /\ out.get_imei = ril_state.get_imei /\ out.get_imeisv = ril_state.get_imeisv
      /\ out.baseband_version = NoToken
  BY <1>1, VersionTakenOut
<1>4. f = [c EXCEPT !.st.baseband_version = NoToken] BY DEF ipc_misc_me_version
<1> HIDE DEF c
<1>5. f = [c EXCEPT !.st = out] BY <1>2, <1>4 DEF Effect
<1> HIDE DEF out
<1>6. /\ f \in Effect /\ f.st = out /\ f.toModem = toModem /\ f.view = view /\ f.news = FALSE
      /\ f.answers = c.answers
  BY <1>2, <1>3, <1>5 DEF Effect
<1>7. /\ ril_state' = out /\ toModem' = toModem /\ view' = view /\ told' = told
      /\ Only(answers', answers, {m.token})
  BY <1>1, <1>2, <1>6 DEF Leaves
<1>8. Added(toModem', toModem, Queries(ril_state) \cup {To("DEVICE_READY", NoToken)})
  BY <1>7, AddedNone
<1>9. Only(answers', answers, AnsweredBy(m)) BY <1>7 DEF AnsweredBy, Only, Statuses
<1> QED
  BY <1>3, <1>6, <1>7, <1>8, <1>9
  DEF Dealt, ReceivedPower, ReceivedTokens, ReceivedStatus, ReceivedAnswers, Once, Statuses

(* ipc_misc_me_sn_imei, which may answer three requests.                   *)
LEMMA DealtMeSn ==
  ASSUME TypeOK, NEW m \in FromModem, m.what = "ME_SN",
         NEW f, f = ipc_misc_me_sn_imei(Start, m.token), Leaves(f)
  PROVE  Dealt(m, f)
<1> DEFINE own == IF m.token # Start.st.get_imei THEN Completing(Start, m.token, "SUCCESS")
                  ELSE Start
           one == Completing(own, Start.st.get_imei, "SUCCESS")
           both == Completing(one, Start.st.get_imeisv, "SUCCESS")
           out == [ril_state EXCEPT !.get_imei = NoToken, !.get_imeisv = NoToken]
           T == {m.token, ril_state.get_imei, ril_state.get_imeisv}
<1>1. /\ Start \in Effect /\ Start.st = ril_state /\ Start.toModem = toModem
      /\ Start.answers = answers /\ Start.view = view /\ Start.news = FALSE /\ told \in BOOLEAN
      /\ m.token \in Token \cup {NoToken} /\ ril_state \in State
  BY StartFields DEF FromModem
<1>2. /\ ril_state.get_imei \in Token \cup {NoToken}
      /\ ril_state.get_imeisv \in Token \cup {NoToken}
      /\ Start.st.get_imei \in Token \cup {NoToken}
      /\ Start.st.get_imeisv \in Token \cup {NoToken}
      /\ "SUCCESS" \in Errnos
  BY <1>1 DEF State, Errnos
<1>3. f = [both EXCEPT !.st.get_imei = NoToken, !.st.get_imeisv = NoToken]
  BY DEF ipc_misc_me_sn_imei
<1>4. /\ own \in Effect /\ own.st = ril_state /\ own.toModem = toModem /\ own.view = view
      /\ own.news = FALSE /\ Only(own.answers, answers, T)
  <2> DEFINE c == Completing(Start, m.token, "SUCCESS")
  <2>1. /\ c \in Effect /\ c.st = ril_state /\ c.toModem = toModem /\ c.view = view
        /\ c.news = FALSE /\ Only(c.answers, answers, {m.token})
    BY <1>1, CompletingTyped, CompletedOnce DEF Errnos
  <2>2. own = c \/ own = Start OBVIOUS
  <2> HIDE DEF c, own
  <2> QED BY <1>1, <2>1, <2>2 DEF Only
<1> HIDE DEF own
<1>5. /\ one \in Effect /\ one.st = ril_state /\ one.toModem = toModem /\ one.view = view
      /\ one.news = FALSE /\ Only(one.answers, answers, T)
  <2>1. /\ one \in Effect /\ one.st = own.st /\ one.toModem = own.toModem
        /\ one.view = own.view /\ one.news = own.news
    BY <1>2, <1>4, CompletingTyped
  <2>2. Only(one.answers, own.answers, {ril_state.get_imei})
    BY <1>1, <1>2, <1>4, CompletedOnce
  <2> HIDE DEF one
  <2> QED BY <1>4, <2>1, <2>2 DEF Only
<1> HIDE DEF one
<1>6. /\ both \in Effect /\ both.st = ril_state /\ both.toModem = toModem /\ both.view = view
      /\ both.news = FALSE /\ Only(both.answers, answers, T)
  <2>1. /\ both \in Effect /\ both.st = one.st /\ both.toModem = one.toModem
        /\ both.view = one.view /\ both.news = one.news
    BY <1>2, <1>5, CompletingTyped
  <2>2. Only(both.answers, one.answers, {ril_state.get_imeisv})
    BY <1>1, <1>2, <1>5, CompletedOnce
  <2> HIDE DEF both
  <2> QED BY <1>5, <2>1, <2>2 DEF Only
<1> HIDE DEF both
<1>7. /\ out \in State /\ out.power_mode = ril_state.power_mode
      /\ out.radio_state = ril_state.radio_state /\ out.sim_pin_status = ril_state.sim_pin_status
      /\ out.pin_status = ril_state.pin_status /\ out.radio_power = ril_state.radio_power
      /\ out.baseband_version = ril_state.baseband_version
      /\ out.get_imei = NoToken /\ out.get_imeisv = NoToken
  BY <1>1 DEF State
<1>8. f = [both EXCEPT !.st = out] BY <1>3, <1>6 DEF Effect
<1> HIDE DEF out
<1>9. /\ f \in Effect /\ f.st = out /\ f.toModem = toModem /\ f.view = view /\ f.news = FALSE
      /\ f.answers = both.answers
  BY <1>6, <1>7, <1>8 DEF Effect
<1>10. /\ ril_state' = out /\ toModem' = toModem /\ view' = view /\ told' = told
       /\ Only(answers', answers, T)
  BY <1>1, <1>6, <1>9 DEF Leaves
<1>11. Added(toModem', toModem, Queries(ril_state) \cup {To("DEVICE_READY", NoToken)})
  BY <1>10, AddedNone
<1>12. Only(answers', answers, AnsweredBy(m)) BY <1>10 DEF AnsweredBy, Only, Statuses
<1> QED
  BY <1>7, <1>9, <1>10, <1>11, <1>12
  DEF Dealt, ReceivedPower, ReceivedTokens, ReceivedStatus, ReceivedAnswers, Once, Statuses

(* What the driver does with the first message of the modem.               *)
LEMMA ReceiveDeals ==
  ASSUME TypeOK, Receive PROVE Received(fromModem[1])
<1> DEFINE m == fromModem[1]
           f == Dispatched(m)
<1>1. /\ fromModem \in Seq(FromModem) /\ fromModem # <<>> BY DEF TypeOK, Receive
<1>2. /\ Head(fromModem) = m /\ m \in FromModem /\ Tail(fromModem) \in Seq(FromModem)
  BY <1>1, TailPlaces
<1>3. /\ fromModem' = Tail(fromModem) /\ m.what \in Reports
      /\ UNCHANGED <<on, sim, requests, crossed, failures>>
      /\ Leaves(f)
      /\ forgotten' = IF m.what # "ME_SN_TOO_LONG" THEN forgotten
                      ELSE forgotten \cup ({ril_state.get_imei, ril_state.get_imeisv} \ {NoToken})
  BY <1>2 DEF Receive, Apply, Leaves, modem
<1> HIDE DEF m
<1>4. Dealt(m, f)
  <2>1. CASE m.what = "PWR_UP" BY <1>2, <1>3, <2>1, DealtPwrUp DEF Dispatched
  <2>2. CASE m.what = "NORMAL" BY <1>2, <1>3, <2>2, DealtNormal DEF Dispatched
  <2>3. CASE m.what = "PIN_NOTI" BY <1>2, <1>3, <2>3, DealtPinNoti DEF Dispatched
  <2>4. CASE m.what = "PIN_STATUS" BY <1>2, <1>3, <2>4, DealtPinStatus DEF Dispatched
  <2>5. CASE m.what = "ME_SN" BY <1>2, <1>3, <2>5, DealtMeSn DEF Dispatched
  <2>6. CASE m.what = "ME_SN_TOO_LONG" BY <1>2, <1>3, <2>6, DealtTooLong DEF Dispatched
  <2>7. CASE m.what = "ME_VERSION" BY <1>2, <1>3, <2>7, DealtMeVersion DEF Dispatched
  <2>8. CASE m.what = "ICON_INFO" BY <1>2, <1>3, <2>8, DealtIconInfo DEF Dispatched
  <2>9. CASE m.what = "DEVICE_READY" BY <1>2, <1>3, <2>9, DealtDeviceReady DEF Dispatched
  <2> QED BY <1>3, <2>1, <2>2, <2>3, <2>4, <2>5, <2>6, <2>7, <2>8, <2>9 DEF Reports
<1> HIDE DEF f
<1>5. forgotten' \subseteq Token
  <2>1. {ril_state.get_imei, ril_state.get_imeisv} \ {NoToken} \subseteq Token
    BY DEF TypeOK, State
  <2> QED BY <1>3, <2>1 DEF TypeOK
<1>6. TypeOK'
  <2>1. /\ ril_state' \in State /\ toModem' \in Seq(ToModem)
        /\ answers' \in [Token -> Seq({"SUCCESS", "GENERIC_FAILURE"})]
        /\ view' \in {Card(status) : status \in SIM_Status} /\ told' \in BOOLEAN
    BY <1>3, <1>4 DEF Dealt, Leaves, Effect, Cards, Errnos
  <2> QED BY <1>2, <1>3, <1>5, <2>1 DEF TypeOK
<1> QED BY <1>1, <1>2, <1>3, <1>4, <1>6 DEF Received, Dealt, m

-----------------------------------------------------------------------------
(* What the handlers of rild's requests do.                                *)

(* What a request of this kind asks the modem.                             *)
Question(kind) ==
  CASE kind = "GET_SIM_STATUS"   -> {To("PIN_STATUS", New)}
    [] kind = "BASEBAND_VERSION" -> {To("ME_VERSION", New)}
    [] kind = "SIGNAL_STRENGTH"  -> {To("ICON_INFO", New)}
    [] kind = "GET_IMEI"         -> {To("ME_SN", New)}
    [] kind = "GET_IMEISV"       -> {To("ME_SN", ril_state.get_imei)} \ {To("ME_SN", NoToken)}

(* At most the new request is answered, and none that asks the modem.      *)
AskedAnswers ==
  /\ Only(answers', answers, {New})
  /\ \/ answers'[New] = answers[New]
     \/ \E errno \in Errnos : answers'[New] = Append(answers[New], errno)

AskedState(kind) ==
  LET st == ril_state
      new == ril_state'
  IN  /\ new.power_mode = st.power_mode /\ new.radio_state = st.radio_state
      /\ new.radio_power = st.radio_power /\ new.sim_pin_status = st.sim_pin_status
      /\ new.baseband_version # st.baseband_version =>
           /\ kind = "BASEBAND_VERSION" /\ new.baseband_version = New
           /\ st.radio_state # "OFF" => Sent(toModem', {"ME_VERSION"}, New)
      /\ new.get_imei # st.get_imei => kind = "GET_IMEI" /\ new.get_imei = New
      /\ new.get_imeisv # st.get_imeisv => kind = "GET_IMEISV" /\ new.get_imeisv = New
      /\ /\ new.get_imei # st.get_imei \/ new.get_imeisv # st.get_imeisv
         /\ st.radio_state # "OFF" /\ NoToken \notin {new.get_imei, new.get_imeisv}
         => Sent(toModem', {"ME_SN"}, new.get_imei)
      /\ new.pin_status # st.pin_status =>
           /\ kind = "GET_SIM_STATUS"
           /\ \/ new.pin_status = NoToken
              \/ new.pin_status = New /\ Sent(toModem', {"PIN_STATUS"}, New)

(* What the driver asks for a status or the signal strength it asks once.  *)
AskedOnce(kind) ==
  kind \in {"GET_SIM_STATUS", "SIGNAL_STRENGTH"} =>
    \A i, j \in DOMAIN toModem' \ DOMAIN toModem : i = j

AskedView(kind) ==
  /\ kind # "GET_SIM_STATUS" => view' = view
  /\ kind = "GET_SIM_STATUS" =>
       \/ Sent(toModem', {"PIN_STATUS"}, New)
       \/ view' = Card(ipc2ril_sim_status(ril_state, ril_state.sim_pin_status))

Requested(kind) ==
  /\ TypeOK' /\ New \in Token /\ Issue(kind) /\ requests' = Append(requests, kind)
  /\ fromModem' = fromModem /\ UNCHANGED <<on, sim, forgotten, crossed, failures>>
  /\ told' = (told /\ kind # "GET_SIM_STATUS")
  /\ toModem' = toModem \/ (Added(toModem', toModem, Question(kind)) /\ answers' = answers)
  /\ AskedAnswers /\ AskedOnce(kind) /\ AskedState(kind) /\ AskedView(kind)

(* What a handler leaves, for the request New.                             *)
Done(f) == ril_state' = f.st /\ toModem' = f.toModem /\ answers' = f.answers /\ view' = f.view

Carried(kind, f) ==
  /\ f \in Effect
  /\ toModem' = toModem \/ (Added(toModem', toModem, Question(kind)) /\ answers' = answers)
  /\ AskedAnswers /\ AskedState(kind) /\ AskedView(kind)

(* A request that is answered at once.                                     *)
LEMMA CarriedAtOnce ==
  ASSUME NEW kind, NEW f \in Effect, ril_state' = ril_state, toModem' = toModem, AskedAnswers,
         AskedView(kind)
  PROVE  Carried(kind, f)
BY DEF Carried, AskedState

(* An answer to the new request is an answer to it only.                   *)
LEMMA AnsweredNew ==
  ASSUME TypeOK, New \in Token, NEW errno \in Errnos,
         answers' = [answers EXCEPT ![New] = Append(@, errno)]
  PROVE  AskedAnswers
<1>1. answers \in [Token -> Seq(Errnos)] BY DEF TypeOK, Errnos
<1> QED BY <1>1 DEF AskedAnswers, Only

(* BASEBAND_VERSION.                                                       *)
LEMMA CarriedVersion ==
  ASSUME TypeOK, New \in Token,
         NEW f, f = ril_request_baseband_version(Start, New), Done(f)
  PROVE  Carried("BASEBAND_VERSION", f)
<1>1. /\ Start \in Effect /\ Start.st = ril_state /\ Start.toModem = toModem
      /\ Start.answers = answers /\ Start.view = view /\ ril_state \in State
      /\ toModem \in Seq(ToModem)
  BY StartFields DEF TypeOK
<1>2. VersionNext(Start, f, New) BY <1>1, VersionRequested
<1>3. f \in Effect /\ AskedView("BASEBAND_VERSION")
  BY <1>1, <1>2 DEF VersionNext, AskedView, Done
<1>4. CASE ril_state.baseband_version # NoToken
  <2>1. /\ ril_state' = ril_state /\ toModem' = toModem
        /\ answers' = [answers EXCEPT ![New] = Append(@, "GENERIC_FAILURE")]
    BY <1>1, <1>2, <1>4 DEF VersionNext, Done
  <2>2. AskedAnswers BY <2>1, AnsweredNew DEF Errnos
  <2> QED BY <1>3, <2>1, <2>2, CarriedAtOnce
<1>5. CASE ~ ril_state.baseband_version # NoToken
  <2> DEFINE version == To("ME_VERSION", New)
  <2>1. /\ ril_state' = [ril_state EXCEPT !.baseband_version = New] /\ answers' = answers
        /\ toModem' = IF ril_state.radio_state = "OFF" THEN toModem ELSE Append(toModem, version)
    BY <1>1, <1>2, <1>5 DEF VersionNext, Done, Off
  <2>2. version \in ToModem /\ version.what = "ME_VERSION" /\ version.token = New
    BY ToTyped DEF Orders
  <2>3. AskedAnswers BY <2>1 DEF AskedAnswers, Only
  <2> HIDE DEF version
  <2>4. ril_state.radio_state # "OFF" => Sent(toModem', {"ME_VERSION"}, New)
    BY <1>1, <2>1, <2>2, AppendSent
  <2>5. AskedState("BASEBAND_VERSION") BY <1>1, <2>1, <2>4 DEF AskedState, State
  <2>6. toModem' = toModem \/ Added(toModem', toModem, {version})
    BY <1>1, <2>1, <2>2, AddedOne
  <2>7. Question("BASEBAND_VERSION") = {version} BY DEF Question, version
  <2> QED BY <1>3, <2>1, <2>3, <2>5, <2>6, <2>7 DEF Carried
<1> QED BY <1>4, <1>5

(* SIGNAL_STRENGTH.                                                        *)
LEMMA CarriedSignal ==
  ASSUME TypeOK, New \in Token,
         NEW f, f = ril_request_signal_strength(Start, New), Done(f)
  PROVE  Carried("SIGNAL_STRENGTH", f)
<1> DEFINE m == To("ICON_INFO", New)
<1>1. /\ Start \in Effect /\ Start.st = ril_state /\ Start.toModem = toModem
      /\ Start.answers = answers /\ Start.view = view /\ ril_state \in State
      /\ toModem \in Seq(ToModem)
  BY StartFields DEF TypeOK
<1>2. m \in ToModem BY ToTyped DEF Orders
<1>3. Question("SIGNAL_STRENGTH") = {m} BY DEF Question
<1>4. f = Sending(Start, m) BY DEF ril_request_signal_strength
<1> HIDE DEF m
<1>5. /\ f \in Effect /\ ril_state' = ril_state /\ view' = view /\ answers' = answers
      /\ toModem' = Append(toModem, m)
  <2> DEFINE s == Sending(Start, m)
  <2>1. /\ s \in Effect /\ s.st = Start.st /\ s.view = Start.view /\ s.answers = Start.answers
        /\ s.toModem = Append(Start.toModem, m)
    BY <1>1, <1>2, SendingTyped
  <2>2. f = s BY <1>4
  <2> HIDE DEF s
  <2> QED BY <1>1, <2>1, <2>2 DEF Done
<1>6. Added(toModem', toModem, {m}) BY <1>1, <1>2, <1>5, AddedOne
<1> QED
  BY <1>3, <1>5, <1>6 DEF Carried, AskedAnswers, AskedState, AskedView, Only

(* One of the two serial numbers: the token kept, and what is sent.        *)
LEMMA CarriedImei ==
  ASSUME TypeOK, New \in Token, NEW f, f = ril_request_get_imei(Start, New), Done(f)
  PROVE  Carried("GET_IMEI", f)
<1>1. /\ Start \in Effect /\ Start.st = ril_state /\ Start.toModem = toModem
      /\ Start.answers = answers /\ Start.view = view /\ ril_state \in State
      /\ toModem \in Seq(ToModem)
  BY StartFields DEF TypeOK
<1>2. ImeiNext(Start, f, New) BY <1>1, SerialRequested
<1>3. CASE ril_state.get_imei # NoToken
  <2>1. /\ f \in Effect /\ ril_state' = ril_state /\ toModem' = toModem /\ view' = view
        /\ answers' = [answers EXCEPT ![New] = Append(@, "GENERIC_FAILURE")]
    BY <1>1, <1>2, <1>3 DEF ImeiNext, Done
  <2>2. AskedAnswers BY <2>1, AnsweredNew DEF Errnos
  <2>3. AskedView("GET_IMEI") BY <2>1 DEF AskedView
  <2> QED BY <2>1, <2>2, <2>3, CarriedAtOnce
<1>4. CASE ~ ril_state.get_imei # NoToken
  <2> DEFINE e == [Start EXCEPT !.st.get_imei = New]
             st == [ril_state EXCEPT !.get_imei = New]
             m == To("ME_SN", New)
  <2>1. SerialNext(e, f) BY <1>1, <1>2, <1>4 DEF ImeiNext
  <2>2. /\ e.st = st /\ e.toModem = toModem /\ e.answers = answers /\ e.view = view
    BY <1>1 DEF Effect
  <2>3. /\ st.get_imei = New /\ st.get_imeisv = ril_state.get_imeisv
        /\ st.radio_state = ril_state.radio_state
    BY <1>1 DEF State
  <2>4. m \in ToModem /\ m.what = "ME_SN" /\ m.token = New BY ToTyped DEF Orders
  <2>5. Question("GET_IMEI") = {m} BY DEF Question
  <2>6. e.st.get_imei = New BY <2>2, <2>3
  <2> HIDE DEF e, st
  <2>7. /\ f \in Effect /\ ril_state' = st /\ answers' = answers /\ view' = view
        /\ toModem' = IF New = NoToken \/ ril_state.get_imeisv = NoToken \/ ril_state.radio_state = "OFF"
                      THEN toModem ELSE Append(toModem, m)
    BY <2>1, <2>2, <2>3, <2>6 DEF SerialNext, Done, Off
  <2> HIDE DEF m
  <2>8. toModem' = toModem \/ Added(toModem', toModem, {m}) BY <1>1, <2>4, <2>7, AddedOne
  <2>9. ril_state.radio_state # "OFF" /\ NoToken \notin {New, ril_state.get_imeisv} =>
          Sent(toModem', {"ME_SN"}, New)
    BY <1>1, <2>4, <2>7, AppendSent
  <2>10. AskedState("GET_IMEI") BY <1>1, <2>7, <2>9 DEF AskedState, State, st
  <2> QED
    BY <2>5, <2>7, <2>8, <2>10 DEF Carried, AskedAnswers, AskedView, Only
<1> QED BY <1>3, <1>4

(* GET_IMEISV, which asks under the token of GET_IMEI.                     *)
LEMMA CarriedImeisv ==
  ASSUME TypeOK, New \in Token, NEW f, f = ril_request_get_imeisv(Start, New), Done(f)
  PROVE  Carried("GET_IMEISV", f)
<1>1. /\ Start \in Effect /\ Start.st = ril_state /\ Start.toModem = toModem
      /\ Start.answers = answers /\ Start.view = view /\ ril_state \in State
      /\ toModem \in Seq(ToModem) /\ ril_state.get_imei \in Token \cup {NoToken}
  BY StartFields DEF TypeOK, State
<1>2. ImeisvNext(Start, f, New) BY <1>1, SerialRequested
<1>3. CASE ril_state.get_imeisv # NoToken
  <2>1. /\ f \in Effect /\ ril_state' = ril_state /\ toModem' = toModem /\ view' = view
        /\ answers' = [answers EXCEPT ![New] = Append(@, "GENERIC_FAILURE")]
    BY <1>1, <1>2, <1>3 DEF ImeisvNext, Done
  <2>2. AskedAnswers BY <2>1, AnsweredNew DEF Errnos
  <2>3. AskedView("GET_IMEISV") BY <2>1 DEF AskedView
  <2> QED BY <2>1, <2>2, <2>3, CarriedAtOnce
<1>4. CASE ~ ril_state.get_imeisv # NoToken
  <2> DEFINE e == [Start EXCEPT !.st.get_imeisv = New]
             st == [ril_state EXCEPT !.get_imeisv = New]
             m == To("ME_SN", ril_state.get_imei)
  <2>1. SerialNext(e, f) BY <1>1, <1>2, <1>4 DEF ImeisvNext
  <2>2. /\ e.st = st /\ e.toModem = toModem /\ e.answers = answers /\ e.view = view
    BY <1>1 DEF Effect
  <2>3. /\ st.get_imeisv = New /\ st.get_imei = ril_state.get_imei
        /\ st.radio_state = ril_state.radio_state
    BY <1>1 DEF State
  <2>4. m \in ToModem /\ m.what = "ME_SN" /\ m.token = ril_state.get_imei
    BY <1>1, ToTyped DEF Orders
  <2>5. ril_state.get_imei # NoToken => m \in Question("GET_IMEISV") BY DEF Question, To
  <2>6. e.st.get_imei = ril_state.get_imei /\ e.st.get_imeisv = New BY <2>2, <2>3
  <2> HIDE DEF e, st
  <2>7. /\ f \in Effect /\ ril_state' = st /\ answers' = answers /\ view' = view
        /\ toModem' = IF ril_state.get_imei = NoToken \/ New = NoToken \/ ril_state.radio_state = "OFF"
                      THEN toModem ELSE Append(toModem, m)
    BY <2>1, <2>2, <2>3, <2>6 DEF SerialNext, Done, Off
  <2> HIDE DEF m
  <2>8. toModem' = toModem \/ Added(toModem', toModem, Question("GET_IMEISV"))
    BY <1>1, <2>4, <2>5, <2>7, AddedOne
  <2>9. ril_state.radio_state # "OFF" /\ NoToken \notin {ril_state.get_imei, New} =>
          Sent(toModem', {"ME_SN"}, ril_state.get_imei)
    BY <1>1, <2>4, <2>7, AppendSent
  <2>10. AskedState("GET_IMEISV") BY <1>1, <2>7, <2>9 DEF AskedState, State, st
  <2> QED
    BY <2>7, <2>8, <2>10 DEF Carried, AskedAnswers, AskedView, Only
<1> QED BY <1>3, <1>4

(* GET_SIM_STATUS.                                                         *)
LEMMA CarriedStatus ==
  ASSUME TypeOK, New \in Token, NEW f, f = ril_request_get_sim_status(Start, New), Done(f)
  PROVE  Carried("GET_SIM_STATUS", f)
<1> DEFINE c == Completing(Start, New, "SUCCESS")
           card == ipc2ril_card_status(ril_state, ril_state.sim_pin_status)
           given == [c EXCEPT !.view = card]
           none == [ril_state EXCEPT !.pin_status = NoToken]
           kept == [ril_state EXCEPT !.pin_status = New]
           m == To("PIN_STATUS", New)
<1>1. /\ Start \in Effect /\ Start.st = ril_state /\ Start.toModem = toModem
      /\ Start.answers = answers /\ Start.view = view /\ ril_state \in State
      /\ toModem \in Seq(ToModem) /\ New # NoToken
  BY StartFields DEF TypeOK, Token, NoToken
<1>2. /\ c \in Effect /\ c.st = ril_state /\ c.toModem = toModem
      /\ c.answers = [answers EXCEPT ![New] = Append(@, "SUCCESS")]
  BY <1>1, CompletingTyped DEF Errnos
<1>3. card \in Cards /\ card = Card(ipc2ril_sim_status(ril_state, ril_state.sim_pin_status))
  <2>1. ril_state.sim_pin_status \in Pin BY <1>1 DEF State
  <2> QED BY <1>1, <2>1, SimStatusTyped DEF ipc2ril_card_status, Cards
<1>4. f = IF ril_state.pin_status = Waiting THEN [given EXCEPT !.st.pin_status = NoToken]
          ELSE IF ril_state.pin_status = NoToken
               THEN Sending([Start EXCEPT !.st.pin_status = New], m) ELSE given
  BY <1>1 DEF ril_request_get_sim_status, Waiting, NoToken
<1> HIDE DEF c, card
<1>5. /\ given \in Effect /\ given.st = ril_state /\ given.toModem = toModem
      /\ given.answers = c.answers /\ given.view = card
  BY <1>2, <1>3 DEF Effect
<1>6. /\ none \in State /\ kept \in State
      /\ SameTokens(none, ril_state) /\ SameTokens(kept, ril_state)
      /\ none.radio_power = ril_state.radio_power /\ kept.radio_power = ril_state.radio_power
      /\ none.radio_state = ril_state.radio_state /\ kept.radio_state = ril_state.radio_state
      /\ none.sim_pin_status = ril_state.sim_pin_status
      /\ kept.sim_pin_status = ril_state.sim_pin_status
      /\ none.pin_status = NoToken /\ kept.pin_status = New
  BY <1>1 DEF State, SameTokens
<1> HIDE DEF given, none, kept
<1>7. CASE ril_state.pin_status \notin {Waiting, NoToken}
  <2>1. /\ ril_state' = ril_state /\ toModem' = toModem /\ view' = card /\ f \in Effect
        /\ answers' = [answers EXCEPT ![New] = Append(@, "SUCCESS")]
    BY <1>2, <1>4, <1>5, <1>7 DEF Done
  <2>2. AskedAnswers BY <2>1, AnsweredNew DEF Errnos
  <2>3. AskedView("GET_SIM_STATUS") BY <1>3, <2>1 DEF AskedView
  <2> QED BY <2>1, <2>2, <2>3, CarriedAtOnce
<1>8. CASE ril_state.pin_status = Waiting
  <2>1. f = [given EXCEPT !.st = none] BY <1>4, <1>5, <1>8 DEF none, Effect
  <2>2. /\ ril_state' = none /\ toModem' = toModem /\ view' = card /\ f \in Effect
        /\ answers' = [answers EXCEPT ![New] = Append(@, "SUCCESS")]
    BY <1>2, <1>5, <1>6, <2>1 DEF Done, Effect
  <2>3. AskedAnswers BY <2>2, AnsweredNew DEF Errnos
  <2>4. AskedView("GET_SIM_STATUS") BY <1>3, <2>2 DEF AskedView
  <2>5. AskedState("GET_SIM_STATUS") BY <1>6, <2>2 DEF AskedState, SameTokens
  <2> QED BY <2>2, <2>3, <2>4, <2>5 DEF Carried
<1>9. CASE ril_state.pin_status = NoToken
  <2> DEFINE e == [Start EXCEPT !.st.pin_status = New]
             s == Sending(e, m)
  <2>1. f = s BY <1>4, <1>9 DEF Waiting, NoToken
  <2>2. e = [Start EXCEPT !.st = kept] BY <1>1 DEF kept, Effect
  <2>3. /\ e \in Effect /\ e.st = kept /\ e.toModem = toModem /\ e.answers = answers
        /\ e.view = view
    BY <1>1, <1>6, <2>2 DEF Effect
  <2>4. m \in ToModem /\ m.what = "PIN_STATUS" /\ m.token = New BY ToTyped DEF Orders
  <2>5. Question("GET_SIM_STATUS") = {m} BY DEF Question
  <2> HIDE DEF e, m
  <2>6. /\ s \in Effect /\ s.st = e.st /\ s.view = e.view /\ s.answers = e.answers
        /\ s.toModem = Append(e.toModem, m)
    BY <2>3, <2>4, SendingTyped
  <2> HIDE DEF s
  <2>7. /\ f \in Effect /\ ril_state' = kept /\ view' = view /\ answers' = answers
        /\ toModem' = Append(toModem, m)
    BY <2>1, <2>3, <2>6 DEF Done
  <2>8. Added(toModem', toModem, {m}) BY <1>1, <2>4, <2>7, AddedOne
  <2>9. Sent(toModem', {"PIN_STATUS"}, New) BY <1>1, <2>4, <2>7, AppendSent
  <2>10. AskedState("GET_SIM_STATUS") BY <1>6, <2>7, <2>9 DEF AskedState, SameTokens
  <2>11. AskedView("GET_SIM_STATUS") /\ AskedAnswers
    BY <2>7, <2>9 DEF AskedView, AskedAnswers, Only
  <2> QED BY <2>5, <2>7, <2>8, <2>10, <2>11 DEF Carried
<1> QED BY <1>7, <1>8, <1>9

(* A new request has a token nobody has had.                               *)
LEMMA IssueFields ==
  ASSUME TypeOK, NEW kind, Issue(kind)
  PROVE  /\ New \in Token /\ New # NoToken /\ requests' = Append(requests, kind)
         /\ New \notin DOMAIN requests /\ DOMAIN requests \subseteq Token
         /\ DOMAIN requests' = DOMAIN requests \cup {New}
         /\ \A t \in DOMAIN requests : requests'[t] = requests[t]
         /\ requests'[New] = kind /\ Len(requests') = Len(requests) + 1
         /\ requests' \in Seq(Kind \cup Requests) /\ Len(requests') <= NRequests
<1>1. /\ requests \in Seq(Kind \cup Requests) /\ Len(requests) <= NRequests
      /\ kind \in Requests /\ New <= NRequests /\ requests' = Append(requests, kind)
      /\ NRequests \in Nat
  BY BoundsAssumption DEF TypeOK, Issue
<1>2. /\ Len(requests) \in Nat /\ DOMAIN requests = 1 .. Len(requests) BY <1>1
<1>3. New \in Token /\ New # NoToken /\ New \notin DOMAIN requests
  BY <1>1, <1>2 DEF New, Token, NoToken
<1>4. DOMAIN requests \subseteq Token BY <1>1, <1>2 DEF Token
<1>5. kind \in Kind \cup Requests BY <1>1
<1>6. /\ requests' \in Seq(Kind \cup Requests) /\ DOMAIN requests' = DOMAIN requests \cup {New}
      /\ \A t \in DOMAIN requests : requests'[t] = requests[t]
      /\ requests'[New] = kind
  BY <1>1, <1>5, AppendPlaces DEF New
<1>7. Len(requests') = Len(requests) + 1 /\ Len(requests') <= NRequests
  BY <1>1, <1>2, <1>5 DEF New
<1> QED BY <1>1, <1>3, <1>4, <1>6, <1>7

(* One message at the most asks for a status or the signal strength.       *)
LEMMA OneQuestion ==
  ASSUME TypeOK, NEW kind, onRequest(kind) PROVE AskedOnce(kind)
<1>1. /\ toModem \in Seq(ToModem) /\ Start.toModem = toModem /\ Start.st = ril_state
      /\ Start \in Effect /\ New \in Token
  BY StartFields, IssueFields DEF TypeOK, onRequest
<1>2. ASSUME NEW m \in ToModem, toModem' = Append(toModem, m)
      PROVE  \A i, j \in DOMAIN toModem' \ DOMAIN toModem : i = j
  BY <1>1, <1>2, AppendPlaces
<1>3. /\ To("PIN_STATUS", New) \in ToModem /\ To("ICON_INFO", New) \in ToModem
  BY <1>1, ToTyped DEF Orders
<1> DEFINE a == To("ICON_INFO", New)
           b == To("PIN_STATUS", New)
<1>4. CASE kind = "SIGNAL_STRENGTH"
  <2>1. toModem' = Sending(Start, a).toModem
    BY <1>4 DEF onRequest, Apply, Handled, ril_request_signal_strength
  <2>2. a \in ToModem BY <1>3
  <2> HIDE DEF a
  <2>3. Sending(Start, a).toModem = Append(toModem, a) BY <1>1, <2>2, SendingTyped
  <2> QED BY <1>2, <2>1, <2>2, <2>3 DEF AskedOnce
<1>5. CASE kind = "GET_SIM_STATUS"
  <2>1. toModem' = ril_request_get_sim_status(Start, New).toModem
    BY <1>5 DEF onRequest, Apply, Handled
  <2> DEFINE e == [Start EXCEPT !.st.pin_status = New]
             c == Completing(Start, New, "SUCCESS")
             g == [c EXCEPT !.view = ipc2ril_card_status(Start.st, Start.st.sim_pin_status)]
  <2>2. e.toModem = toModem BY <1>1 DEF Effect
  <2>3. b \in ToModem BY <1>3
  <2>4. c.toModem = toModem BY <1>1, CompletingTyped DEF Errnos
  <2>5. ril_request_get_sim_status(Start, New) =
          CASE Start.st.pin_status = Waiting -> [g EXCEPT !.st.pin_status = NoToken]
            [] Start.st.pin_status = NoToken -> Sending(e, b)
            [] OTHER -> g
    BY DEF ril_request_get_sim_status
  <2>6. Sending(e, b).toModem = Append(toModem, b)
    <3>1. e = [Start EXCEPT !.st = [Start.st EXCEPT !.pin_status = New]] BY <1>1 DEF Effect
    <3>2. DOMAIN e = DOMAIN Start /\ "toModem" \in DOMAIN e BY <1>1, <3>1 DEF Effect
    <3> HIDE DEF e, b
    <3> QED BY <2>2, <3>2 DEF Sending
  <2>7. g.toModem = toModem
    <3>1. c \in Effect BY <1>1, CompletingTyped DEF Errnos
    <3> HIDE DEF c
    <3> QED BY <2>4, <3>1 DEF Effect
  <2>8. [g EXCEPT !.st.pin_status = NoToken].toModem = toModem
    <3>1. c \in Effect BY <1>1, CompletingTyped DEF Errnos
    <3> HIDE DEF c
    <3>2. "toModem" \in DOMAIN g BY <3>1 DEF Effect
    <3> HIDE DEF g
    <3> QED BY <2>7, <3>2
  <2> HIDE DEF e, b, c, g
  <2>9. toModem' = toModem \/ toModem' = Append(toModem, b) BY <2>1, <2>5, <2>6, <2>7, <2>8
  <2> QED BY <1>2, <2>3, <2>9 DEF AskedOnce
<1> QED BY <1>4, <1>5 DEF AskedOnce

(* What the requests with a handler each do.                               *)
LEMMA RequestCarried ==
  ASSUME TypeOK, NEW kind \in Kind \ {"RADIO_POWER_ON", "RADIO_POWER_OFF"}, onRequest(kind)
  PROVE  Requested(kind)
<1> DEFINE f == Handled(kind)
<1>1. New \in Token /\ Issue(kind) BY IssueFields DEF onRequest
<1>2. Done(f) BY DEF onRequest, Apply, Done
<1>3. Carried(kind, f)
  <2>1. CASE kind = "GET_SIM_STATUS" BY <1>1, <1>2, <2>1, CarriedStatus DEF Handled
  <2>2. CASE kind = "BASEBAND_VERSION" BY <1>1, <1>2, <2>2, CarriedVersion DEF Handled
  <2>3. CASE kind = "GET_IMEI" BY <1>1, <1>2, <2>3, CarriedImei DEF Handled
  <2>4. CASE kind = "GET_IMEISV" BY <1>1, <1>2, <2>4, CarriedImeisv DEF Handled
  <2>5. CASE kind = "SIGNAL_STRENGTH" BY <1>1, <1>2, <2>5, CarriedSignal DEF Handled
  <2> QED BY <2>1, <2>2, <2>3, <2>4, <2>5 DEF Kind
<1>4. /\ fromModem' = fromModem /\ UNCHANGED <<on, sim, forgotten, crossed, failures>>
      /\ told' = (told /\ kind # "GET_SIM_STATUS")
  BY DEF onRequest, modem
<1> HIDE DEF f
<1>5. TypeOK'
  <2>1. /\ ril_state' \in State /\ toModem' \in Seq(ToModem)
        /\ answers' \in [Token -> Seq({"SUCCESS", "GENERIC_FAILURE"})]
        /\ view' \in {Card(status) : status \in SIM_Status}
    BY <1>2, <1>3 DEF Carried, Done, Effect, Cards, Errnos
  <2>2. told' \in BOOLEAN BY <1>4
  <2>3. requests' \in Seq(Kind \cup Requests) /\ Len(requests') <= NRequests
    BY <1>1, IssueFields
  <2> QED BY <1>4, <2>1, <2>2, <2>3 DEF TypeOK
<1> QED BY <1>1, <1>3, <1>4, <1>5, OneQuestion DEF Requested, Carried, Issue

(* RADIO_POWER on.                                                         *)
SwitchedOn ==
  /\ TypeOK' /\ Issue("RADIO_POWER_ON")
  /\ ril_state' = [ril_state EXCEPT !.radio_power = New]
  /\ toModem' = Append(toModem, To("NORMAL", New))
  /\ answers' = answers /\ forgotten \subseteq forgotten'
  /\ UNCHANGED <<fromModem, on, sim, told, view, crossed, failures>>

(* RadioPowerOn does that.                                                 *)
LEMMA PowerOn == ASSUME TypeOK, RadioPowerOn PROVE SwitchedOn
<1> DEFINE f == RequestNormal(Start, New)
           m == To("NORMAL", New)
           s == Sending(Start, m)
           put == [ril_state EXCEPT !.radio_power = New]
<1>1. /\ Start \in Effect /\ Start.st = ril_state /\ Start.toModem = toModem
      /\ Start.answers = answers /\ Start.view = view /\ ril_state \in State
      /\ toModem \in Seq(ToModem)
  BY StartFields DEF TypeOK
<1>2. /\ Issue("RADIO_POWER_ON") /\ New \in Token
      /\ requests' \in Seq(Kind \cup Requests) /\ Len(requests') <= NRequests
  BY IssueFields DEF RadioPowerOn
<1>3. m \in ToModem BY <1>2, ToTyped DEF Orders
<1>4. put \in State BY <1>1, <1>2 DEF State
<1>5. f = [s EXCEPT !.st.radio_power = New] BY DEF RequestNormal
<1> HIDE DEF m
<1>6. /\ s \in Effect /\ s.st = Start.st /\ s.view = Start.view /\ s.answers = Start.answers
      /\ s.toModem = Append(Start.toModem, m)
  BY <1>1, <1>3, SendingTyped
<1> HIDE DEF s
<1>7. f = [s EXCEPT !.st = put] BY <1>1, <1>5, <1>6 DEF Effect
<1> HIDE DEF put
<1>8. /\ f.st = put /\ f.toModem = Append(toModem, m) /\ f.answers = answers
  BY <1>1, <1>4, <1>6, <1>7 DEF Effect
<1>9. /\ ril_state' = put /\ toModem' = Append(toModem, m) /\ answers' = answers
      /\ forgotten' = forgotten \cup ({ril_state.radio_power} \ {NoToken})
      /\ UNCHANGED <<fromModem, on, sim, told, view, crossed, failures>>
  BY <1>8 DEF RadioPowerOn, Apply, modem
<1>10. forgotten' \subseteq Token
  <2>1. {ril_state.radio_power} \ {NoToken} \subseteq Token BY <1>1 DEF State
  <2> QED BY <1>9, <2>1 DEF TypeOK
<1>11. Append(toModem, m) \in Seq(ToModem) BY <1>1, <1>3
<1>12. TypeOK' BY <1>2, <1>4, <1>9, <1>10, <1>11 DEF TypeOK
<1> QED BY <1>2, <1>9, <1>12 DEF SwitchedOn, put, m

(* Messages whose tokens are taken from them.                              *)
Anonymous(new, old) ==
  /\ DOMAIN new = DOMAIN old
  /\ \A i \in DOMAIN old : new[i] = [old[i] EXCEPT !.token = NoToken]

SameKinds(new, old) ==
  /\ DOMAIN new = DOMAIN old
  /\ \A i \in DOMAIN old : new[i].what = old[i].what /\ new[i].token = NoToken

(* The messages to the modem are of the same kinds without their tokens.   *)
LEMMA AnonymousTo ==
  ASSUME NEW s \in Seq(ToModem), NEW new, Anonymous(new, s) PROVE SameKinds(new, s)
<1>1. \A i \in DOMAIN s : s[i] \in ToModem BY Places
<1>2. ASSUME NEW i \in DOMAIN s PROVE new[i].what = s[i].what /\ new[i].token = NoToken
  BY <1>1, <1>2 DEF Anonymous, ToModem
<1> QED BY <1>2 DEF SameKinds, Anonymous

(* So are those from it, which say the same of the SIM.                    *)
LEMMA AnonymousFrom ==
  ASSUME NEW s \in Seq(FromModem), NEW new, Anonymous(new, s)
  PROVE  SameKinds(new, s) /\ \A i \in DOMAIN s : new[i].pin = s[i].pin
<1>1. \A i \in DOMAIN s : s[i] \in FromModem BY Places
<1>2. ASSUME NEW i \in DOMAIN s
      PROVE  new[i].what = s[i].what /\ new[i].token = NoToken /\ new[i].pin = s[i].pin
  BY <1>1, <1>2 DEF Anonymous, FromModem
<1> QED BY <1>2 DEF SameKinds, Anonymous

(* RADIO_POWER off.                                                        *)
SwitchedOff ==
  /\ TypeOK' /\ Issue("RADIO_POWER_OFF")
  /\ ril_state' = Cleared
  /\ Anonymous(toModem', Append(toModem, To("LPM", New))) /\ Anonymous(fromModem', fromModem)
  /\ answers' = [answers EXCEPT ![New] = Append(@, "SUCCESS")]
  /\ forgotten \subseteq forgotten'
  /\ ~ crossed' => ~ Holds(toModem, {"NORMAL"}) /\ ~ Holds(fromModem, {"NORMAL"})
  /\ told' = FALSE /\ view' = Card("ABSENT") /\ UNCHANGED <<on, sim, failures>>

(* Where the elements of a concatenation stand.                            *)
LEMMA ConcatAt ==
  ASSUME NEW S, NEW a \in Seq(S), NEW T, NEW b \in Seq(T)
  PROVE  /\ Len(a) \in Nat /\ Len(b) \in Nat
         /\ DOMAIN a = 1 .. Len(a) /\ DOMAIN b = 1 .. Len(b)
         /\ DOMAIN (a \o b) = 1 .. (Len(a) + Len(b))
         /\ \A k \in 1 .. (Len(a) + Len(b)) :
              (a \o b)[k] = IF k <= Len(a) THEN a[k] ELSE b[k - Len(a)]
OBVIOUS

(* Every message of a is one of b.                                         *)
Within(a, b) == \A i \in DOMAIN a : \E k \in DOMAIN b : b[k] = a[i]

(* What is in one of two sequences is in their concatenation.              *)
LEMMA ConcatPlaces ==
  ASSUME NEW S, NEW a \in Seq(S), NEW T, NEW b \in Seq(T)
  PROVE  Within(a, a \o b) /\ Within(b, a \o b)
<1>1. /\ Len(a) \in Nat /\ Len(b) \in Nat /\ DOMAIN a = 1 .. Len(a) /\ DOMAIN b = 1 .. Len(b)
  OBVIOUS
<1>2. /\ DOMAIN (a \o b) = 1 .. (Len(a) + Len(b))
      /\ \A k \in 1 .. (Len(a) + Len(b)) :
           (a \o b)[k] = IF k <= Len(a) THEN a[k] ELSE b[k - Len(a)]
  BY <1>1
<1> HIDE DEF \o
<1>3. ASSUME NEW i \in DOMAIN a PROVE i \in DOMAIN (a \o b) /\ (a \o b)[i] = a[i]
  BY <1>1, <1>2
<1>4. ASSUME NEW i \in DOMAIN b
      PROVE  i + Len(a) \in DOMAIN (a \o b) /\ (a \o b)[i + Len(a)] = b[i]
  <2>1. /\ i + Len(a) \in 1 .. (Len(a) + Len(b)) /\ ~ (i + Len(a) <= Len(a))
        /\ (i + Len(a)) - Len(a) = i
    BY <1>1
  <2> QED BY <1>2, <2>1
<1> QED BY <1>3, <1>4 DEF Within

(* What one of the queues holds is in the line.                            *)
LEMMA LineHolds ==
  ASSUME TypeOK, NEW whats
  PROVE  Holds(toModem, whats) \/ Holds(fromModem, whats) =>
           \E m \in InLine : m.what \in whats
<1>1. toModem \in Seq(ToModem) /\ fromModem \in Seq(FromModem) BY DEF TypeOK
<1>2. InLine = {(toModem \o fromModem)[k] : k \in DOMAIN (toModem \o fromModem)}
  BY DEF InLine, ToSet
<1>3. /\ \A i \in DOMAIN toModem : toModem[i] \in InLine
      /\ \A i \in DOMAIN fromModem : fromModem[i] \in InLine
  <2> DEFINE ab == toModem \o fromModem
  <2>1. Within(toModem, ab) /\ Within(fromModem, ab) BY <1>1, ConcatPlaces
  <2>2. \A k \in DOMAIN ab : ab[k] \in InLine BY <1>2
  <2> HIDE DEF ab
  <2> QED BY <2>1, <2>2 DEF Within
<1> QED BY <1>3 DEF Holds

(* The messages without their tokens, as the step makes them.              *)
LEMMA AnonymousTyped ==
  ASSUME NEW s, NEW new, new = [i \in DOMAIN s |-> [s[i] EXCEPT !.token = NoToken]]
  PROVE  /\ Anonymous(new, s)
         /\ s \in Seq(ToModem) => new \in Seq(ToModem)
         /\ s \in Seq(FromModem) => new \in Seq(FromModem)
<1>1. Anonymous(new, s) BY DEF Anonymous
<1>2. ASSUME s \in Seq(ToModem) PROVE new \in Seq(ToModem)
  <2>1. /\ Len(s) \in Nat /\ DOMAIN s = 1 .. Len(s) /\ \A i \in DOMAIN s : s[i] \in ToModem
    BY <1>2, Places
  <2>2. \A i \in 1 .. Len(s) : [s[i] EXCEPT !.token = NoToken] \in ToModem
    BY <2>1 DEF ToModem
  <2> QED BY <2>1, <2>2
<1>3. ASSUME s \in Seq(FromModem) PROVE new \in Seq(FromModem)
  <2>1. /\ Len(s) \in Nat /\ DOMAIN s = 1 .. Len(s) /\ \A i \in DOMAIN s : s[i] \in FromModem
    BY <1>3, Places
  <2>2. \A i \in 1 .. Len(s) : [s[i] EXCEPT !.token = NoToken] \in FromModem
    BY <2>1 DEF FromModem
  <2> QED BY <2>1, <2>2
<1> QED BY <1>1, <1>2, <1>3

(* The cleared state and the card that goes with it have their types.      *)
LEMMA ClearedTyped ==
  Cleared \in State /\ Card("ABSENT") \in {Card(status) : status \in SIM_Status}
<1>1. "ABSENT" \in SIM_Status BY StatusTyped
<1>2. 0 \in Pin /\ NoToken \in Token \cup {NoToken}
  <2>1. SimHistory \in Seq(PinType) BY HistoryAssumption
  <2> QED BY <2>1 DEF Pin
<1> QED BY <1>1, <1>2 DEF Cleared, State

(* RadioPowerOff does that.                                                *)
LEMMA PowerOff == ASSUME TypeOK, RadioPowerOff PROVE SwitchedOff
<1> DEFINE f == RequestLpm(Start, New)
           m == To("LPM", New)
           s == Sending(Start, m)
           c == Completing(s, New, "SUCCESS")
           q == Append(toModem, m)
<1>1. /\ Start \in Effect /\ Start.st = ril_state /\ Start.toModem = toModem
      /\ Start.answers = answers /\ toModem \in Seq(ToModem) /\ fromModem \in Seq(FromModem)
      /\ answers \in [Token -> Seq(Errnos)]
  BY StartFields DEF TypeOK, Errnos
<1>2. /\ Issue("RADIO_POWER_OFF") /\ New \in Token /\ New # NoToken
      /\ requests' \in Seq(Kind \cup Requests) /\ Len(requests') <= NRequests
      /\ DOMAIN requests \subseteq Token
  BY IssueFields DEF RadioPowerOff
<1>3. m \in ToModem BY <1>2, ToTyped DEF Orders
<1>4. f = [c EXCEPT !.st = Cleared] BY DEF RequestLpm
<1> HIDE DEF m
<1>5. /\ s \in Effect /\ s.answers = Start.answers /\ s.toModem = Append(Start.toModem, m)
  BY <1>1, <1>3, SendingTyped
<1> HIDE DEF s
<1>6. /\ c \in Effect /\ c.toModem = s.toModem
      /\ c.answers = IF New = NoToken THEN s.answers
                     ELSE [s.answers EXCEPT ![New] = Append(@, "SUCCESS")]
  BY <1>2, <1>5, CompletingTyped DEF Errnos
<1> HIDE DEF c
<1>7. /\ f.st = Cleared /\ f.toModem = q
      /\ f.answers = [answers EXCEPT ![New] = Append(@, "SUCCESS")]
  BY <1>1, <1>2, <1>4, <1>5, <1>6 DEF Effect
<1> HIDE DEF f
<1>8. /\ ril_state' = Cleared
      /\ toModem' = [i \in DOMAIN q |-> [q[i] EXCEPT !.token = NoToken]]
      /\ answers' = [answers EXCEPT ![New] = Append(@, "SUCCESS")]
  <2>1. /\ ril_state' = f.st /\ answers' = f.answers
        /\ toModem' = [i \in DOMAIN f.toModem |-> [f.toModem[i] EXCEPT !.token = NoToken]]
    BY DEF RadioPowerOff, Apply, f
  <2> QED BY <1>7, <2>1
<1>9. /\ fromModem' = [i \in DOMAIN fromModem |-> [fromModem[i] EXCEPT !.token = NoToken]]
      /\ forgotten' = forgotten \cup Unanswered
      /\ crossed' = \E x \in InLine : x.what = "NORMAL"
      /\ told' = FALSE /\ view' = Card("ABSENT") /\ UNCHANGED <<on, sim, failures>>
  BY DEF RadioPowerOff, InLine, modem
<1>10. q \in Seq(ToModem) BY <1>1, <1>3
<1> HIDE DEF q
<1>11. Anonymous(toModem', q) /\ toModem' \in Seq(ToModem) BY <1>8, <1>10, AnonymousTyped
<1>12. Anonymous(fromModem', fromModem) /\ fromModem' \in Seq(FromModem)
  BY <1>1, <1>9, AnonymousTyped
<1>13. ~ crossed' => ~ Holds(toModem, {"NORMAL"}) /\ ~ Holds(fromModem, {"NORMAL"})
  BY <1>9, LineHolds
<1>14. answers' \in [Token -> Seq(Errnos)]
  <2>1. Append(answers[New], "SUCCESS") \in Seq(Errnos) BY <1>1, <1>2 DEF Errnos
  <2> QED BY <1>1, <1>8, <2>1
<1>15. forgotten' \subseteq Token BY <1>2, <1>9 DEF TypeOK, Unanswered
<1>16. crossed' \in BOOLEAN BY <1>9
<1>17. TypeOK'
  BY <1>2, <1>8, <1>9, <1>11, <1>12, <1>14, <1>15, <1>16, ClearedTyped DEF TypeOK, Errnos
<1> QED BY <1>2, <1>8, <1>9, <1>11, <1>12, <1>13, <1>17 DEF SwitchedOff, q, m

-----------------------------------------------------------------------------
(* What the modem does.                                                    *)

(* The reports that answer an order; a modem that comes on says more.      *)
ReportsOf(m) ==
  IF m.what \in {"LPM", "DEVICE_READY"} THEN {}
  ELSE {From(m.what, m.token, IF m.what = "PIN_STATUS" THEN sim ELSE 0)}
       \cup (IF m.what = "ME_SN" THEN {From("ME_SN_TOO_LONG", m.token, 0)} ELSE {})

Coming == <<From("NORMAL", NoToken, 0), From("PIN_NOTI", NoToken, sim),
            From("DEVICE_READY", NoToken, 0)>>

Served(m) ==
  /\ TypeOK' /\ m \in ToModem /\ m = toModem[1] /\ toModem # <<>> /\ toModem' = Tail(toModem)
  /\ on' = IF m.what \in {"NORMAL", "LPM"} THEN m.what = "NORMAL" ELSE on
  /\ m.what = "NORMAL" => fromModem' = fromModem \o Coming
  /\ m.what \in {"LPM", "DEVICE_READY"} => fromModem' = fromModem
  /\ m.what \notin {"NORMAL", "LPM", "DEVICE_READY"} =>
       \E r \in ReportsOf(m) : fromModem' = Append(fromModem, r)
  /\ UNCHANGED <<ril_state, sim, requests, answers, forgotten, told, view, crossed, failures>>

(* A message from the modem has the fields it is made of.                  *)
LEMMA FromTyped ==
  ASSUME NEW what \in Reports, NEW t \in Token \cup {NoToken}, NEW pin \in Pin
  PROVE  /\ From(what, t, pin) \in FromModem /\ From(what, t, pin).what = what
         /\ From(what, t, pin).token = t /\ From(what, t, pin).pin = pin
BY DEF From, FromModem

(* The places of the SIM in its history.                                   *)
LEMMA PinTyped == 0 \in Pin /\ \A n \in Pin : n < Len(SimHistory) => n + 1 \in Pin
<1>1. SimHistory \in Seq(PinType) BY HistoryAssumption
<1> QED BY <1>1 DEF Pin

(* Serve does that.                                                        *)
LEMMA ModemServes == ASSUME TypeOK, Serve PROVE Served(toModem[1])
<1> DEFINE m == toModem[1]
<1>1. toModem \in Seq(ToModem) /\ toModem # <<>> /\ fromModem \in Seq(FromModem) /\ sim \in Pin
  BY DEF TypeOK, Serve
<1>2. /\ Head(toModem) = m /\ m \in ToModem /\ Tail(toModem) \in Seq(ToModem)
  BY <1>1, TailPlaces
<1>3. /\ m.what \in Orders /\ toModem' = Tail(toModem)
      /\ on' = IF m.what \in {"NORMAL", "LPM"} THEN m.what = "NORMAL" ELSE on
      /\ UNCHANGED <<ril_state, sim, requests, answers, forgotten, told, view, crossed, failures>>
  BY <1>2 DEF Serve, rild
<1>4. \/ m.what = "NORMAL" /\ fromModem' = fromModem \o Coming
      \/ m.what \in {"LPM", "DEVICE_READY"} /\ fromModem' = fromModem
      \/ /\ m.what \notin {"NORMAL", "LPM", "DEVICE_READY"}
         /\ fromModem' = Append(fromModem,
                           From(m.what, m.token, IF m.what = "PIN_STATUS" THEN sim ELSE 0))
      \/ m.what = "ME_SN" /\ fromModem' = Append(fromModem, From("ME_SN_TOO_LONG", m.token, 0))
  BY <1>2 DEF Serve, Coming
<1> HIDE DEF m
<1>5. m.token \in Token \cup {NoToken} BY <1>2 DEF ToModem
<1>6. fromModem' \in Seq(FromModem)
  <2>1. /\ From("NORMAL", NoToken, 0) \in FromModem /\ From("PIN_NOTI", NoToken, sim) \in FromModem
        /\ From("DEVICE_READY", NoToken, 0) \in FromModem
    BY <1>1, PinTyped, FromTyped DEF Reports
  <2>2. From("ME_SN_TOO_LONG", m.token, 0) \in FromModem
    BY <1>5, PinTyped, FromTyped DEF Reports
  <2>3. m.what \notin {"NORMAL", "LPM", "DEVICE_READY"} =>
          From(m.what, m.token, IF m.what = "PIN_STATUS" THEN sim ELSE 0) \in FromModem
    <3> DEFINE pin == IF m.what = "PIN_STATUS" THEN sim ELSE 0
    <3>1. pin \in Pin BY <1>1, PinTyped
    <3>2. m.what \notin {"NORMAL", "LPM", "DEVICE_READY"} => m.what \in Reports
      BY <1>3 DEF Reports, Orders
    <3> HIDE DEF pin
    <3>3. m.what \notin {"NORMAL", "LPM", "DEVICE_READY"} => From(m.what, m.token, pin) \in FromModem
      BY <1>5, <3>1, <3>2, FromTyped
    <3> QED BY <3>3 DEF pin
  <2>4. fromModem \o Coming \in Seq(FromModem) BY <1>1, <2>1 DEF Coming
  <2>5. \A r \in FromModem : Append(fromModem, r) \in Seq(FromModem) BY <1>1
  <2> HIDE DEF Coming
  <2>6. CASE m.what = "NORMAL" /\ fromModem' = fromModem \o Coming BY <2>4, <2>6
  <2>7. CASE fromModem' = fromModem BY <1>1, <2>7
  <2>8. CASE /\ m.what \notin {"NORMAL", "LPM", "DEVICE_READY"}
             /\ fromModem' = Append(fromModem,
                               From(m.what, m.token, IF m.what = "PIN_STATUS" THEN sim ELSE 0))
    BY <2>3, <2>5, <2>8
  <2>9. CASE fromModem' = Append(fromModem, From("ME_SN_TOO_LONG", m.token, 0))
    BY <2>2, <2>5, <2>9
  <2> QED BY <1>4, <2>6, <2>7, <2>8, <2>9
<1>7. on' \in BOOLEAN BY <1>3 DEF TypeOK
<1>8. TypeOK' BY <1>2, <1>3, <1>6, <1>7 DEF TypeOK
<1> QED BY <1>1, <1>2, <1>3, <1>4, <1>8 DEF Served, ReportsOf, m

(* A new status of the SIM.                                                *)
SimChanged ==
  /\ TypeOK' /\ on /\ sim' = sim + 1 /\ sim < Len(SimHistory)
  /\ From("PIN_NOTI", NoToken, sim + 1) \in FromModem
  /\ fromModem' = Append(fromModem, From("PIN_NOTI", NoToken, sim + 1))
  /\ UNCHANGED <<ril_state, toModem, on, requests, answers, forgotten, told, view, crossed,
                 failures>>

(* SimChange does that.                                                    *)
LEMMA SimChanges == ASSUME TypeOK, SimChange PROVE SimChanged
<1>1. /\ on /\ sim < Len(SimHistory) /\ sim' = sim + 1
      /\ fromModem' = Append(fromModem, From("PIN_NOTI", NoToken, sim + 1))
      /\ UNCHANGED <<ril_state, toModem, on, requests, answers, forgotten, told, view, crossed,
                     failures>>
  BY DEF SimChange, rild
<1>2. sim + 1 \in Pin BY <1>1, PinTyped DEF TypeOK
<1>3. From("PIN_NOTI", NoToken, sim + 1) \in FromModem BY <1>2, FromTyped DEF Reports
<1>4. TypeOK' BY <1>1, <1>2, <1>3 DEF TypeOK
<1> QED BY <1>1, <1>3, <1>4 DEF SimChanged

(* A client that fails.                                                    *)
Failed ==
  /\ TypeOK' /\ failures' = failures + 1 /\ failures' # 0
  /\ toModem' = <<>> /\ fromModem' = Booting /\ on' = FALSE
  /\ UNCHANGED <<ril_state, sim, requests, answers, forgotten, told, view, crossed>>

(* ClientFails does that.                                                  *)
LEMMA ClientHasFailed == ASSUME TypeOK, ClientFails PROVE Failed
<1>1. /\ failures < MaxFailures /\ failures' = failures + 1
      /\ toModem' = <<>> /\ fromModem' = Booting /\ on' = FALSE
      /\ UNCHANGED <<ril_state, sim, requests, answers, forgotten, told, view, crossed>>
  BY DEF ClientFails, rild
<1>2. failures' \in 0 .. MaxFailures /\ failures' # 0 BY <1>1, BoundsAssumption DEF TypeOK
<1>3. From("PWR_UP", NoToken, 0) \in FromModem BY PinTyped, FromTyped DEF Reports
<1>4. fromModem' \in Seq(FromModem) /\ toModem' \in Seq(ToModem) BY <1>1, <1>3 DEF Booting
<1>5. TypeOK' BY <1>1, <1>2, <1>4 DEF TypeOK
<1> QED BY <1>1, <1>2, <1>5 DEF Failed

(* Every step is one of these.                                             *)
LEMMA Steps ==
  ASSUME TypeOK, Next
  PROVE  \/ \E kind \in Kind \ {"RADIO_POWER_ON", "RADIO_POWER_OFF"} : Requested(kind)
         \/ SwitchedOn \/ SwitchedOff
         \/ Received(fromModem[1]) \/ Served(toModem[1]) \/ SimChanged \/ Failed
BY RequestCarried, PowerOn, PowerOff, ReceiveDeals, ModemServes, SimChanges, ClientHasFailed
   DEF Next

(* Every step keeps the types.                                             *)
LEMMA TypeStep == TypeOK /\ [Next]_vars => TypeOK'
<1> SUFFICES ASSUME TypeOK, [Next]_vars PROVE TypeOK' OBVIOUS
<1>1. CASE Next
  BY <1>1, Steps DEF Requested, SwitchedOn, SwitchedOff, Received, Served, SimChanged, Failed
<1>2. CASE UNCHANGED vars BY <1>2 DEF TypeOK, vars, line, modem, rild
<1> QED BY <1>1, <1>2

-----------------------------------------------------------------------------
(* The invariant.                                                          *)

(* The modem boots before it says anything else; after it has come on, it  *)
(* tells the status of the SIM; the driver holds the radio to be off if    *)
(* and only if it takes the modem to be in low power mode.                 *)
BootFirst ==
  \A i \in DOMAIN fromModem : fromModem[i].what = "PWR_UP" =>
    i = 1 /\ fromModem[i].token = NoToken /\ (failures = 0 => ril_state.power_mode = "LPM")

StatusBehind ==
  \A i \in DOMAIN fromModem : fromModem[i].what = "NORMAL" =>
    \E j \in DOMAIN fromModem : i < j /\ fromModem[j].what = "PIN_NOTI"

ModeIsRadio == ril_state.power_mode = "LPM" <=> ril_state.radio_state = "OFF"

PowerInv == BootFirst /\ StatusBehind /\ ModeIsRadio

(* Unless RADIO_POWER off met a modem on its way up: a modem that is to be *)
(* switched off was not on its way up before, and when no message to       *)
(* switch it on and no report of it are on their way, the driver takes it  *)
(* to be on, and to have booted, if and only if it is on and stays on.     *)
OffIsLast ==
  \A i \in DOMAIN toModem : toModem[i].what = "LPM" =>
    /\ ~ Holds(fromModem, {"NORMAL"})
    /\ \A j \in DOMAIN toModem : j < i => toModem[j].what # "NORMAL"

TakenToBeOn == ril_state.power_mode = "NORMAL" /\ ~ Holds(fromModem, {"PWR_UP"})
StaysOn == on /\ ~ Holds(toModem, {"LPM"})
OnIsKnown ==
  ~ Holds(toModem, {"NORMAL"}) =>
    IF Holds(fromModem, {"NORMAL"}) THEN on ELSE TakenToBeOn <=> StaysOn

AgreeInv == ~ crossed => OffIsLast /\ OnIsKnown

(* WaitingIsUnderway, said of the two queues: what a kept token waits for  *)
(* is in one of them.                                                      *)
PowerAwaited ==
  failures = 0 /\ ril_state.radio_power # NoToken =>
    \/ Holds(toModem, {"NORMAL"})
    \/ Holds(fromModem, {"NORMAL"})
    \/ ril_state.power_mode = "NORMAL" /\ Holds(fromModem, {"PIN_NOTI"})

StatusAwaited ==
  failures = 0 /\ ril_state.pin_status \in Token =>
    \/ Sent(toModem, {"PIN_STATUS"}, ril_state.pin_status)
    \/ Sent(fromModem, {"PIN_STATUS"}, ril_state.pin_status)

VersionAwaited ==
  ril_state.radio_state # "OFF" /\ ril_state.baseband_version # NoToken =>
    \/ Sent(fromModem, {"PWR_UP"}, NoToken)
    \/ Sent(toModem, {"ME_VERSION"}, ril_state.baseband_version)
    \/ Sent(fromModem, {"ME_VERSION"}, ril_state.baseband_version)

SerialAwaited ==
  ril_state.radio_state # "OFF" /\ NoToken \notin {ril_state.get_imei, ril_state.get_imeisv} =>
    \/ Sent(fromModem, {"PWR_UP"}, NoToken)
    \/ Sent(toModem, {"ME_SN"}, ril_state.get_imei)
    \/ Sent(fromModem, {"ME_SN", "ME_SN_TOO_LONG"}, ril_state.get_imei)
    \/ ril_state.get_imei \in forgotten

WaitInv == PowerAwaited /\ StatusAwaited /\ VersionAwaited /\ SerialAwaited

(* Without failures: the last status on its way is the present one, and    *)
(* when none is, the driver has it.                                        *)
NoStatus == ~ Holds(fromModem, Statuses) /\ ~ Holds(toModem, {"PIN_STATUS"})

LastIs(s, pin) ==
  \A i \in DOMAIN s :
    /\ s[i].what \in Statuses
    /\ \A j \in DOMAIN s : i < j => s[j].what \notin Statuses
    => s[i].pin = pin

LastIsPresent == failures = 0 => LastIs(fromModem, sim)

StatusIsKept ==
  failures = 0 /\ ril_state.power_mode = "NORMAL" /\ NoStatus =>
    /\ ril_state.sim_pin_status = sim
    /\ SimHistory[sim] # "SIM_PB_INIT_COMPLETE" =>
         ril_state.radio_state = RadioState(StatusOf[SimHistory[sim]])

SimInv == sim \in 1 .. Len(SimHistory) /\ LastIsPresent /\ StatusIsKept

(* Unless RADIO_POWER off met a modem on its way up: an answer about the   *)
(* SIM that belongs to no request any more comes in before the modem is on *)
(* again, and rild knows what the driver knows.                            *)
AnswerIsLate ==
  \A i \in DOMAIN fromModem : fromModem[i].what = "PIN_STATUS" /\ fromModem[i].token = NoToken =>
    /\ ril_state.power_mode = "LPM"
    /\ \A j \in DOMAIN fromModem : j < i => fromModem[j].what # "NORMAL"

OrderIsLate ==
  \A i \in DOMAIN toModem : toModem[i].what = "PIN_STATUS" /\ toModem[i].token = NoToken =>
    /\ ril_state.power_mode = "LPM" /\ ~ Holds(fromModem, {"NORMAL"})
    /\ \A j \in DOMAIN toModem : j < i => toModem[j].what # "NORMAL"

ToldOrSeen ==
  failures = 0 /\ ril_state.power_mode = "NORMAL" /\ NoStatus
  /\ SimHistory[sim] # "SIM_PB_INIT_COMPLETE" =>
    told \/ view = Card(StatusOf[SimHistory[sim]])

KnowsInv == ~ crossed => AnswerIsLate /\ OrderIsLate /\ ToldOrSeen

(* A token belongs to a request of the kind that its place is for.         *)
Of(t, kind) == t # NoToken => t \in DOMAIN requests /\ requests[t] = kind

RequestOf ==
  [NORMAL |-> "RADIO_POWER_ON", LPM |-> "RADIO_POWER_OFF", PIN_STATUS |-> "GET_SIM_STATUS",
   ME_SN |-> "GET_IMEI", ME_SN_TOO_LONG |-> "GET_IMEI", ME_VERSION |-> "BASEBAND_VERSION",
   ICON_INFO |-> "SIGNAL_STRENGTH", PWR_UP |-> "NONE", PIN_NOTI |-> "NONE", DEVICE_READY |-> "NONE"]

LineOwned ==
  /\ \A i \in DOMAIN toModem : Of(toModem[i].token, RequestOf[toModem[i].what])
  /\ \A i \in DOMAIN fromModem : Of(fromModem[i].token, RequestOf[fromModem[i].what])

StateOwned ==
  /\ Of(ril_state.radio_power, "RADIO_POWER_ON")
  /\ ril_state.pin_status # Waiting => Of(ril_state.pin_status, "GET_SIM_STATUS")
  /\ Of(ril_state.get_imei, "GET_IMEI")
  /\ Of(ril_state.get_imeisv, "GET_IMEISV")
  /\ Of(ril_state.baseband_version, "BASEBAND_VERSION")

(* What is not asked for, and what waits for its only answer, has not been *)
(* answered; there is one message for each request of the kinds in Once.   *)
NoneBefore == \A t \in Token : t \notin DOMAIN requests => answers[t] = <<>>
PowerUnanswered == ril_state.radio_power # NoToken => answers[ril_state.radio_power] = <<>>

OnceInLine ==
  /\ \A i \in DOMAIN toModem : toModem[i].what \in Once /\ toModem[i].token # NoToken =>
       /\ answers[toModem[i].token] = <<>>
       /\ \A j \in DOMAIN toModem :
            toModem[j].what \in Once /\ toModem[j].token = toModem[i].token => i = j
       /\ ~ Sent(fromModem, Once, toModem[i].token)
  /\ \A i \in DOMAIN fromModem : fromModem[i].what \in Once /\ fromModem[i].token # NoToken =>
       /\ answers[fromModem[i].token] = <<>>
       /\ \A j \in DOMAIN fromModem :
            fromModem[j].what \in Once /\ fromModem[j].token = fromModem[i].token => i = j

OwnedInv == LineOwned /\ StateOwned
AnswersInv == NoneBefore /\ PowerUnanswered /\ OnceInLine /\ AnsweredAtMostOnce

IInv ==
  TypeOK /\ PowerInv /\ AgreeInv /\ WaitInv /\ SimInv /\ KnowsInv /\ OwnedInv /\ AnswersInv

-----------------------------------------------------------------------------
(* The line, step by step.                                                 *)

(* Where the messages of a modem that comes on stand.                      *)
LEMMA ComingPlaces ==
  ASSUME NEW s \in Seq(FromModem)
  PROVE  LET new == s \o Coming
             n == Len(s)
         IN  /\ DOMAIN new = DOMAIN s \cup {n + 1, n + 2, n + 3}
             /\ \A i \in DOMAIN s : new[i] = s[i] /\ i < n + 1
             /\ new[n + 1] = From("NORMAL", NoToken, 0)
             /\ new[n + 2] = From("PIN_NOTI", NoToken, sim)
             /\ new[n + 3] = From("DEVICE_READY", NoToken, 0)
             /\ n \in Nat
<1> DEFINE new == s \o Coming
           n == Len(s)
<1>1. n \in Nat /\ DOMAIN s = 1 .. n OBVIOUS
<1> DEFINE a == From("NORMAL", NoToken, 0)
           b == From("PIN_NOTI", NoToken, sim)
           c == From("DEVICE_READY", NoToken, 0)
<1>2. /\ Len(Coming) = 3 /\ Coming[1] = a /\ Coming[2] = b /\ Coming[3] = c
      /\ Coming \in Seq({a, b, c})
  <2>1. Coming = <<a, b, c>> BY DEF Coming
  <2> HIDE DEF a, b, c
  <2> QED BY <2>1
<1> HIDE DEF Coming, a, b, c
<1>3. /\ DOMAIN new = 1 .. n + 3
      /\ \A k \in 1 .. n + 3 : new[k] = IF k <= n THEN s[k] ELSE Coming[k - n]
  <2>1. /\ DOMAIN new = 1 .. (n + Len(Coming))
        /\ \A k \in 1 .. (n + Len(Coming)) :
             new[k] = IF k <= n THEN s[k] ELSE Coming[k - n]
    BY <1>2, ConcatAt
  <2> HIDE DEF new
  <2> QED BY <1>2, <2>1
<1>4. 1 .. n + 3 = (1 .. n) \cup {n + 1, n + 2, n + 3} BY <1>1
<1>5. /\ n + 1 \in 1 .. n + 3 /\ ~ (n + 1 <= n) /\ (n + 1) - n = 1
      /\ n + 2 \in 1 .. n + 3 /\ ~ (n + 2 <= n) /\ (n + 2) - n = 2
      /\ n + 3 \in 1 .. n + 3 /\ ~ (n + 3 <= n) /\ (n + 3) - n = 3
  BY <1>1
<1>6. \A i \in DOMAIN s : new[i] = s[i] /\ i < n + 1 BY <1>1, <1>3
<1>7. new[n + 1] = Coming[1] /\ new[n + 2] = Coming[2] /\ new[n + 3] = Coming[3]
  BY <1>3, <1>5
<1> QED BY <1>1, <1>2, <1>3, <1>4, <1>6, <1>7 DEF new, n, a, b, c

(* What the modem says to an order.                                        *)
Reply(m) ==
  IF m.what = "NORMAL"
  THEN {From("NORMAL", NoToken, 0), From("PIN_NOTI", NoToken, sim), From("DEVICE_READY", NoToken, 0)}
  ELSE ReportsOf(m)

(* What the modem says has the token of the order, and tells the present   *)
(* status of the SIM.                                                      *)
LEMMA ReplyFields ==
  ASSUME NEW m \in ToModem, NEW r \in Reply(m)
  PROVE  /\ r.what # "PWR_UP" /\ (r.what \in Statuses => r.pin = sim)
         /\ m.what = "NORMAL" =>
              r.what \in {"NORMAL", "PIN_NOTI", "DEVICE_READY"} /\ r.token = NoToken
         /\ m.what # "NORMAL" =>
              /\ r.token = m.token
              /\ r.what = m.what \/ (m.what = "ME_SN" /\ r.what = "ME_SN_TOO_LONG")
<1>1. CASE m.what = "NORMAL" BY <1>1 DEF Reply, From, Statuses
<1>2. CASE m.what # "NORMAL"
  <2>1. \/ r = From(m.what, m.token, IF m.what = "PIN_STATUS" THEN sim ELSE 0)
        \/ m.what = "ME_SN" /\ r = From("ME_SN_TOO_LONG", m.token, 0)
    BY <1>2 DEF Reply, ReportsOf
  <2>2. m.what \in Orders BY DEF ToModem
  <2> QED BY <1>2, <2>1, <2>2 DEF From, Statuses, Orders
<1> QED BY <1>1, <1>2

CameOn ==
  LET n == Len(fromModem)
  IN  /\ DOMAIN fromModem' = DOMAIN fromModem \cup {n + 1, n + 2, n + 3}
      /\ fromModem'[n + 1].what = "NORMAL" /\ fromModem'[n + 2].what = "PIN_NOTI"
      /\ fromModem'[n + 3].what = "DEVICE_READY" /\ n \in Nat

(* The modem says what is in Reply, and does say it.                       *)
LEMMA ServedLine ==
  ASSUME TypeOK, NEW m, Served(m)
  PROVE  /\ Added(fromModem', fromModem, Reply(m))
         /\ m.what = "NORMAL" => CameOn
         /\ m.what \notin {"NORMAL", "LPM", "DEVICE_READY"} =>
              Sent(fromModem', {m.what} \cup (IF m.what = "ME_SN" THEN {"ME_SN_TOO_LONG"} ELSE {}), m.token)
<1> DEFINE n == Len(fromModem)
<1>1. fromModem \in Seq(FromModem) /\ m \in ToModem BY DEF TypeOK, Served
<1>2. CASE m.what = "NORMAL"
  <2>1. fromModem' = fromModem \o Coming BY <1>2 DEF Served
  <2>2. /\ DOMAIN fromModem' = DOMAIN fromModem \cup {n + 1, n + 2, n + 3}
        /\ \A i \in DOMAIN fromModem : fromModem'[i] = fromModem[i] /\ i < n + 1
        /\ fromModem'[n + 1] = From("NORMAL", NoToken, 0)
        /\ fromModem'[n + 2] = From("PIN_NOTI", NoToken, sim)
        /\ fromModem'[n + 3] = From("DEVICE_READY", NoToken, 0)
        /\ n \in Nat
    BY <1>1, <2>1, ComingPlaces
  <2>3. DOMAIN fromModem = 1 .. n /\ n \in Nat BY <1>1
  <2> HIDE DEF n
  <2>4. \A j \in DOMAIN fromModem : j < n + 1 /\ j < n + 2 /\ j < n + 3 BY <2>3
  <2>5. Added(fromModem', fromModem, Reply(m)) BY <1>2, <2>2, <2>4 DEF Added, Reply
  <2> QED BY <1>2, <2>2, <2>5 DEF From, n, CameOn
<1>3. CASE m.what \in {"LPM", "DEVICE_READY"}
  BY <1>3, AddedNone DEF Served
<1>4. CASE m.what \notin {"NORMAL", "LPM", "DEVICE_READY"}
  <2>1. PICK r \in ReportsOf(m) : fromModem' = Append(fromModem, r) BY <1>4 DEF Served
  <2>2. r \in Reply(m) BY <1>4, <2>1 DEF Reply
  <2>3. r.token = m.token /\ (r.what = m.what \/ (m.what = "ME_SN" /\ r.what = "ME_SN_TOO_LONG"))
    BY <1>1, <1>4, <2>2, ReplyFields
  <2>4. /\ DOMAIN fromModem' = DOMAIN fromModem \cup {n + 1}
        /\ \A i \in DOMAIN fromModem : fromModem'[i] = fromModem[i] /\ i < n + 1
        /\ fromModem'[n + 1] = r
    <3>1. r \in FromModem
      <4>1. fromModem' \in Seq(FromModem) BY DEF Served, TypeOK
      <4>2. Append(fromModem, r)[n + 1] = r /\ n + 1 \in DOMAIN Append(fromModem, r)
        BY <1>1
      <4> HIDE DEF n
      <4> QED BY <2>1, <4>1, <4>2
    <3> QED BY <1>1, <2>1, <3>1, AppendPlaces
  <2> HIDE DEF n
  <2>5. Added(fromModem', fromModem, Reply(m)) BY <2>2, <2>4 DEF Added
  <2> QED BY <1>4, <2>3, <2>4, <2>5 DEF Sent
<1> QED BY <1>2, <1>3, <1>4

(* A queue loses its first message.                                        *)
LEMMA Taken ==
  ASSUME TypeOK
  PROVE  /\ fromModem # <<>> => \A i \in DOMAIN Tail(fromModem) :
              i + 1 \in DOMAIN fromModem /\ Tail(fromModem)[i] = fromModem[i + 1] /\ i + 1 # 1
         /\ fromModem # <<>> => \A i \in DOMAIN fromModem : i # 1 =>
              i - 1 \in DOMAIN Tail(fromModem) /\ Tail(fromModem)[i - 1] = fromModem[i]
         /\ toModem # <<>> => \A i \in DOMAIN Tail(toModem) :
              i + 1 \in DOMAIN toModem /\ Tail(toModem)[i] = toModem[i + 1] /\ i + 1 # 1
         /\ toModem # <<>> => \A i \in DOMAIN toModem : i # 1 =>
              i - 1 \in DOMAIN Tail(toModem) /\ Tail(toModem)[i - 1] = toModem[i]
         /\ DOMAIN fromModem \subseteq Nat \ {0} /\ DOMAIN toModem \subseteq Nat \ {0}
         /\ fromModem # <<>> => 1 \in DOMAIN fromModem
         /\ toModem # <<>> => 1 \in DOMAIN toModem
<1>1. toModem \in Seq(ToModem) /\ fromModem \in Seq(FromModem) BY DEF TypeOK
<1>2. DOMAIN fromModem \subseteq Nat \ {0} /\ DOMAIN toModem \subseteq Nat \ {0} BY <1>1
<1>3. ASSUME fromModem # <<>>
      PROVE  /\ 1 \in DOMAIN fromModem
             /\ \A i \in DOMAIN Tail(fromModem) : i + 1 \in DOMAIN fromModem
                  /\ Tail(fromModem)[i] = fromModem[i + 1] /\ i + 1 # 1
             /\ \A i \in DOMAIN fromModem : i # 1 =>
                  i - 1 \in DOMAIN Tail(fromModem) /\ Tail(fromModem)[i - 1] = fromModem[i]
  <2>1. \A i \in DOMAIN Tail(fromModem) : i + 1 > 1 => i + 1 # 1
    <3>1. Tail(fromModem) \in Seq(FromModem) BY <1>1, <1>3, TailPlaces
    <3>2. DOMAIN Tail(fromModem) \subseteq Nat BY <3>1
    <3> QED BY <3>2
  <2> QED BY <1>1, <1>3, <2>1, TailPlaces
<1>4. ASSUME toModem # <<>>
      PROVE  /\ 1 \in DOMAIN toModem
             /\ \A i \in DOMAIN Tail(toModem) : i + 1 \in DOMAIN toModem
                  /\ Tail(toModem)[i] = toModem[i + 1] /\ i + 1 # 1
             /\ \A i \in DOMAIN toModem : i # 1 =>
                  i - 1 \in DOMAIN Tail(toModem) /\ Tail(toModem)[i - 1] = toModem[i]
  <2>1. \A i \in DOMAIN Tail(toModem) : i + 1 > 1 => i + 1 # 1
    <3>1. Tail(toModem) \in Seq(ToModem) BY <1>1, <1>4, TailPlaces
    <3>2. DOMAIN Tail(toModem) \subseteq Nat BY <3>1
    <3> QED BY <3>2
  <2> QED BY <1>1, <1>4, <2>1, TailPlaces
<1> QED BY <1>2, <1>3, <1>4

-----------------------------------------------------------------------------
(* The power of the modem.                                                 *)

(* A message the driver takes keeps PowerInv.                              *)
LEMMA PowerReceived ==
  ASSUME TypeOK, BootFirst, StatusBehind, ModeIsRadio, Received(fromModem[1])
  PROVE  BootFirst' /\ StatusBehind' /\ ModeIsRadio'
<1> DEFINE m == fromModem[1]
<1>1. /\ fromModem # <<>> /\ fromModem' = Tail(fromModem) /\ failures' = failures
      /\ ReceivedPower(m)
  BY DEF Received
<1>2. ril_state \in State /\ ril_state' \in State BY DEF TypeOK, Received
<1> HIDE DEF m
<1>3. BootFirst' BY <1>1, Taken DEF BootFirst
<1>4. StatusBehind'
  <2>1. ASSUME NEW i \in DOMAIN fromModem', fromModem'[i].what = "NORMAL"
        PROVE  \E j \in DOMAIN fromModem' : i < j /\ fromModem'[j].what = "PIN_NOTI"
    <3>1. i + 1 \in DOMAIN fromModem /\ fromModem[i + 1].what = "NORMAL" /\ i \in Nat
      <4>1. fromModem' \in Seq(FromModem) BY DEF TypeOK, Received
      <4>2. DOMAIN fromModem' \subseteq Nat BY <4>1
      <4> QED BY <1>1, <2>1, <4>2, Taken
    <3>2. PICK j \in DOMAIN fromModem : i + 1 < j /\ fromModem[j].what = "PIN_NOTI"
      BY <3>1 DEF StatusBehind
    <3>3. j \in Nat /\ j # 1 /\ i < j - 1 BY <3>1, <3>2, Taken
    <3> QED BY <1>1, <3>2, <3>3, Taken
  <2> QED BY <2>1 DEF StatusBehind
<1>5. ModeIsRadio'
  <2>1. ril_state.power_mode \in {"LPM", "NORMAL"} BY <1>2 DEF State
  <2> QED BY <1>1, <2>1 DEF ModeIsRadio, ReceivedPower
<1> QED BY <1>3, <1>4, <1>5

(* An order the modem serves keeps PowerInv.                               *)
LEMMA PowerServed ==
  ASSUME TypeOK, BootFirst, StatusBehind, ModeIsRadio, NEW m, Served(m)
  PROVE  BootFirst' /\ StatusBehind' /\ ModeIsRadio'
<1>1. /\ Added(fromModem', fromModem, Reply(m)) /\ ril_state' = ril_state /\ failures' = failures
      /\ m \in ToModem
  BY ServedLine DEF Served
<1>2. \A r \in Reply(m) : r.what # "PWR_UP" /\ (m.what # "NORMAL" => r.what # "NORMAL")
  BY <1>1, ReplyFields
<1>3. BootFirst' BY <1>1, <1>2 DEF BootFirst, Added
<1>4. StatusBehind'
  <2>1. CASE m.what # "NORMAL" BY <1>1, <1>2, <2>1 DEF StatusBehind, Added
  <2>2. CASE m.what = "NORMAL"
    <3> DEFINE n == Len(fromModem)
    <3>1. /\ DOMAIN fromModem' = DOMAIN fromModem \cup {n + 1, n + 2, n + 3}
          /\ fromModem'[n + 2].what = "PIN_NOTI" /\ fromModem'[n + 3].what = "DEVICE_READY"
          /\ n \in Nat
      <4>1. CameOn BY <2>2, ServedLine
      <4> QED BY <4>1 DEF CameOn
    <3>2. \A i \in DOMAIN fromModem : i < n + 2
      <4>1. fromModem \in Seq(FromModem) BY DEF TypeOK
      <4> QED BY <4>1
    <3> HIDE DEF n
    <3>3. \A i \in DOMAIN fromModem' : i # n + 3 => i = n + 2 \/ i < n + 2 BY <3>1, <3>2
    <3> QED BY <3>1, <3>3 DEF StatusBehind
  <2> QED BY <2>1, <2>2
<1> QED BY <1>1, <1>3, <1>4 DEF ModeIsRadio

(* Every step keeps PowerInv.                                              *)
LEMMA PowerStep ==
  ASSUME TypeOK, PowerInv, [Next]_vars PROVE PowerInv'
<1>1. BootFirst /\ StatusBehind /\ ModeIsRadio /\ ril_state \in State BY DEF PowerInv, TypeOK
<1> SUFFICES BootFirst' /\ StatusBehind' /\ ModeIsRadio' BY DEF PowerInv
<1>2. CASE UNCHANGED vars
  BY <1>1, <1>2 DEF BootFirst, StatusBehind, ModeIsRadio, vars, line, rild
<1>3. ASSUME NEW kind, Requested(kind) PROVE BootFirst' /\ StatusBehind' /\ ModeIsRadio'
  BY <1>1, <1>3 DEF BootFirst, StatusBehind, ModeIsRadio, Requested, AskedState
<1>4. CASE SwitchedOn
  BY <1>1, <1>4 DEF BootFirst, StatusBehind, ModeIsRadio, SwitchedOn, State
<1>5. CASE SwitchedOff
  <2>1. /\ DOMAIN fromModem' = DOMAIN fromModem
        /\ \A i \in DOMAIN fromModem : fromModem'[i].what = fromModem[i].what /\ fromModem'[i].token = NoToken
    <3>1. fromModem \in Seq(FromModem) BY DEF TypeOK
    <3>2. Anonymous(fromModem', fromModem) BY <1>5 DEF SwitchedOff
    <3> QED BY <3>1, <3>2, AnonymousFrom DEF SameKinds
  <2>2. ril_state' = Cleared /\ failures' = failures BY <1>5 DEF SwitchedOff
  <2> QED BY <1>1, <2>1, <2>2 DEF BootFirst, StatusBehind, ModeIsRadio, Cleared
<1>6. CASE Received(fromModem[1]) BY <1>1, <1>6, PowerReceived
<1>7. CASE Served(toModem[1]) BY <1>1, <1>7, PowerServed
<1>8. CASE SimChanged
  <2> DEFINE r == From("PIN_NOTI", NoToken, sim + 1)
             n == Len(fromModem)
  <2>1. /\ r \in FromModem /\ fromModem' = Append(fromModem, r) /\ r.what = "PIN_NOTI"
        /\ ril_state' = ril_state /\ failures' = failures /\ fromModem \in Seq(FromModem)
    BY <1>8 DEF SimChanged, From, TypeOK
  <2> HIDE DEF r
  <2>2. /\ DOMAIN fromModem' = DOMAIN fromModem \cup {n + 1}
        /\ \A i \in DOMAIN fromModem : fromModem'[i] = fromModem[i] /\ i < n + 1
        /\ fromModem'[n + 1] = r
    BY <2>1, AppendPlaces
  <2> HIDE DEF n
  <2> QED BY <1>1, <2>1, <2>2 DEF BootFirst, StatusBehind, ModeIsRadio
<1>9. CASE Failed
  <2>1. /\ DOMAIN fromModem' = {1} /\ fromModem'[1].what = "PWR_UP"
        /\ fromModem'[1].token = NoToken
    BY <1>9 DEF Failed, Booting, From
  <2>2. ril_state' = ril_state /\ failures' # 0 BY <1>9 DEF Failed
  <2> QED BY <1>1, <2>1, <2>2 DEF BootFirst, StatusBehind, ModeIsRadio
<1> QED BY <1>2, <1>3, <1>4, <1>5, <1>6, <1>7, <1>8, <1>9, Steps

-----------------------------------------------------------------------------
(* The driver and the modem agree about the radio.                         *)

(* What the driver asks.                                                   *)
LEMMA QuestionFields ==
  ASSUME NEW kind \in Kind \ {"RADIO_POWER_ON", "RADIO_POWER_OFF"}, NEW m \in Question(kind)
  PROVE  /\ m.what =
              CASE kind = "GET_SIM_STATUS"   -> "PIN_STATUS"
                [] kind = "BASEBAND_VERSION" -> "ME_VERSION"
                [] kind = "SIGNAL_STRENGTH"  -> "ICON_INFO"
                [] OTHER                     -> "ME_SN"
         /\ kind # "GET_IMEISV" => m.token = New
         /\ kind = "GET_IMEISV" => m.token = ril_state.get_imei /\ m.token # NoToken
<1>1. CASE kind = "GET_SIM_STATUS" BY <1>1 DEF Question, To
<1>2. CASE kind = "BASEBAND_VERSION" BY <1>2 DEF Question, To
<1>3. CASE kind = "SIGNAL_STRENGTH" BY <1>3 DEF Question, To
<1>4. CASE kind = "GET_IMEI" BY <1>4 DEF Question, To
<1>5. CASE kind = "GET_IMEISV" BY <1>5 DEF Question, To
<1> QED BY <1>1, <1>2, <1>3, <1>4, <1>5 DEF Kind

QuestionKinds == {"PIN_STATUS", "ME_VERSION", "ICON_INFO", "ME_SN"}

(* A question does not concern the power.                                  *)
LEMMA QuestionHarmless ==
  ASSUME NEW kind \in Kind \ {"RADIO_POWER_ON", "RADIO_POWER_OFF"}, NEW m \in Question(kind)
  PROVE  m.what \in QuestionKinds
BY QuestionFields DEF QuestionKinds

(* What ril_tokens_check asks again has the tokens that are kept.          *)
LEMMA QueryFields ==
  ASSUME NEW m \in Queries(ril_state) \cup {To("DEVICE_READY", NoToken)}
  PROVE  /\ m.what \in {"ME_VERSION", "ME_SN", "DEVICE_READY"}
         /\ m.what = "ME_VERSION" => m.token = ril_state.baseband_version
         /\ m.what = "ME_SN" => m.token = ril_state.get_imei
         /\ m.what = "DEVICE_READY" => m.token = NoToken
BY DEF Queries, To

(* Messages that do not concern the power leave everything as it is.       *)
LEMMA HarmlessAdded ==
  ASSUME NEW M, Added(toModem', toModem, M), \A m \in M : m.what \notin {"NORMAL", "LPM"}
  PROVE  /\ Holds(toModem', {"NORMAL"}) <=> Holds(toModem, {"NORMAL"})
         /\ Holds(toModem', {"LPM"}) <=> Holds(toModem, {"LPM"})
         /\ OffIsLast /\ (Holds(fromModem', {"NORMAL"}) => Holds(fromModem, {"NORMAL"})) => OffIsLast'
<1>1. /\ Holds(toModem', {"NORMAL"}) <=> Holds(toModem, {"NORMAL"})
      /\ Holds(toModem', {"LPM"}) <=> Holds(toModem, {"LPM"})
  BY AddedHolds
<1>2. ASSUME OffIsLast, Holds(fromModem', {"NORMAL"}) => Holds(fromModem, {"NORMAL"})
      PROVE  OffIsLast'
  BY <1>2 DEF OffIsLast, Added
<1> QED BY <1>1, <1>2

(* A request other than for the power keeps AgreeInv.                      *)
LEMMA AgreeRequested ==
  ASSUME TypeOK, OffIsLast, OnIsKnown,
         NEW kind \in Kind \ {"RADIO_POWER_ON", "RADIO_POWER_OFF"}, Requested(kind)
  PROVE  OffIsLast' /\ OnIsKnown'
<1>1. /\ fromModem' = fromModem /\ on' = on /\ ril_state'.power_mode = ril_state.power_mode
      /\ toModem' = toModem \/ Added(toModem', toModem, Question(kind))
  BY DEF Requested, AskedState
<1>2. /\ Holds(toModem', {"NORMAL"}) <=> Holds(toModem, {"NORMAL"})
      /\ Holds(toModem', {"LPM"}) <=> Holds(toModem, {"LPM"})
      /\ OffIsLast'
  <2>1. CASE toModem' = toModem BY <1>1, <2>1 DEF OffIsLast
  <2>2. CASE Added(toModem', toModem, Question(kind))
    <3>1. \A m \in Question(kind) : m.what \notin {"NORMAL", "LPM"}
      BY QuestionHarmless DEF QuestionKinds
    <3> QED BY <1>1, <2>2, <3>1, HarmlessAdded
  <2> QED BY <1>1, <2>1, <2>2
<1> QED BY <1>1, <1>2 DEF OnIsKnown, TakenToBeOn, StaysOn

(* The first message the modem sent.                                       *)
LEMMA HeadHolds ==
  ASSUME TypeOK, fromModem # <<>>, fromModem' = Tail(fromModem), NEW whats
  PROVE  /\ Holds(fromModem, whats) <=> (fromModem[1].what \in whats \/ Holds(fromModem', whats))
         /\ \A t : Sent(fromModem, whats, t) <=>
              (fromModem[1].what \in whats /\ fromModem[1].token = t) \/ Sent(fromModem', whats, t)
<1>1. fromModem \in Seq(FromModem) BY DEF TypeOK
<1> QED BY <1>1, TailPlaces, TailHolds

(* A message the driver takes keeps AgreeInv.                              *)
LEMMA AgreeReceived ==
  ASSUME TypeOK, BootFirst, OffIsLast, OnIsKnown, Received(fromModem[1])
  PROVE  OffIsLast' /\ OnIsKnown'
<1> DEFINE m == fromModem[1]
           M == Queries(ril_state) \cup {To("DEVICE_READY", NoToken)}
<1>1. /\ fromModem # <<>> /\ fromModem' = Tail(fromModem) /\ on' = on
      /\ Added(toModem', toModem, M) /\ ReceivedPower(m)
  BY DEF Received
<1>2. \A x \in M : x.what \notin {"NORMAL", "LPM"} BY QueryFields
<1>3. /\ Holds(fromModem, {"NORMAL"}) <=> (m.what = "NORMAL" \/ Holds(fromModem', {"NORMAL"}))
      /\ Holds(fromModem, {"PWR_UP"}) <=> (m.what = "PWR_UP" \/ Holds(fromModem', {"PWR_UP"}))
  <2>1. /\ Holds(fromModem, {"NORMAL"}) <=> (m.what \in {"NORMAL"} \/ Holds(fromModem', {"NORMAL"}))
        /\ Holds(fromModem, {"PWR_UP"}) <=> (m.what \in {"PWR_UP"} \/ Holds(fromModem', {"PWR_UP"}))
    BY <1>1, HeadHolds
  <2> QED BY <2>1
<1>4. ~ Holds(fromModem', {"PWR_UP"}) BY <1>1, Taken DEF BootFirst, Holds
<1>5. Holds(toModem, {"LPM"}) => ~ Holds(fromModem, {"NORMAL"}) BY DEF OffIsLast, Holds
<1> HIDE DEF m, M
<1>6. /\ Holds(toModem', {"NORMAL"}) <=> Holds(toModem, {"NORMAL"})
      /\ Holds(toModem', {"LPM"}) <=> Holds(toModem, {"LPM"})
      /\ OffIsLast'
  BY <1>1, <1>2, <1>3, HarmlessAdded
<1>7. OnIsKnown'
  <2>1. CASE m.what = "PWR_UP"
    <3>1. ril_state'.power_mode = "LPM" BY <1>1, <2>1 DEF ReceivedPower
    <3> QED BY <1>1, <1>3, <1>6, <2>1, <3>1 DEF OnIsKnown, TakenToBeOn, StaysOn
  <2>2. CASE m.what = "NORMAL"
    <3>1. ril_state'.power_mode = "NORMAL" BY <1>1, <2>2 DEF ReceivedPower
    <3> QED BY <1>1, <1>3, <1>4, <1>5, <1>6, <2>2, <3>1 DEF OnIsKnown, TakenToBeOn, StaysOn
  <2>3. CASE m.what \notin {"PWR_UP", "NORMAL"}
    <3>1. ril_state'.power_mode = ril_state.power_mode BY <1>1, <2>3 DEF ReceivedPower
    <3> QED BY <1>1, <1>3, <1>6, <2>3, <3>1 DEF OnIsKnown, TakenToBeOn, StaysOn
  <2> QED BY <2>1, <2>2, <2>3
<1> QED BY <1>6, <1>7

(* An order the modem serves keeps AgreeInv.                               *)
LEMMA AgreeServed ==
  ASSUME TypeOK, OffIsLast, OnIsKnown, Served(toModem[1])
  PROVE  OffIsLast' /\ OnIsKnown'
<1> DEFINE m == toModem[1]
<1>1. /\ toModem # <<>> /\ toModem' = Tail(toModem) /\ m \in ToModem /\ ril_state' = ril_state
      /\ on' = IF m.what \in {"NORMAL", "LPM"} THEN m.what = "NORMAL" ELSE on
      /\ m.what \in {"LPM", "DEVICE_READY"} => fromModem' = fromModem
  BY DEF Served
<1>2. Added(fromModem', fromModem, Reply(m)) /\ (m.what = "NORMAL" => CameOn)
  BY ServedLine
<1>3. /\ Holds(toModem, {"NORMAL"}) <=> (m.what = "NORMAL" \/ Holds(toModem', {"NORMAL"}))
      /\ Holds(toModem, {"LPM"}) <=> (m.what = "LPM" \/ Holds(toModem', {"LPM"}))
  <2>1. toModem \in Seq(ToModem) BY DEF TypeOK
  <2>2. /\ Holds(toModem, {"NORMAL"}) <=> (m.what \in {"NORMAL"} \/ Holds(toModem', {"NORMAL"}))
        /\ Holds(toModem, {"LPM"}) <=> (m.what \in {"LPM"} \/ Holds(toModem', {"LPM"}))
    BY <1>1, <2>1, TailPlaces, TailHolds
  <2> QED BY <2>2
<1>4. \A r \in Reply(m) : r.what # "PWR_UP" /\ (m.what # "NORMAL" => r.what # "NORMAL")
  BY <1>1, ReplyFields
<1>5. Holds(fromModem', {"PWR_UP"}) <=> Holds(fromModem, {"PWR_UP"})
  <2>1. \A r \in Reply(m) : r.what \notin {"PWR_UP"} BY <1>4
  <2> QED BY <1>2, <2>1, AddedHolds
<1>6. m.what # "NORMAL" => (Holds(fromModem', {"NORMAL"}) <=> Holds(fromModem, {"NORMAL"}))
  <2>1. m.what # "NORMAL" => \A r \in Reply(m) : r.what \notin {"NORMAL"} BY <1>4
  <2> QED BY <1>2, <2>1, AddedHolds
<1>7. m.what = "NORMAL" => ~ Holds(toModem', {"LPM"})
  <2> SUFFICES ASSUME m.what = "NORMAL", NEW i \in DOMAIN toModem', toModem'[i].what = "LPM"
               PROVE  FALSE
    BY DEF Holds
  <2>1. /\ i + 1 \in DOMAIN toModem /\ toModem[i + 1].what = "LPM" /\ 1 \in DOMAIN toModem
        /\ i + 1 # 1 /\ i + 1 \in Nat \ {0}
    BY <1>1, Taken
  <2>2. 1 < i + 1 BY <2>1
  <2> QED BY <2>1, <2>2 DEF OffIsLast
<1>8. m.what = "LPM" => ~ Holds(fromModem, {"NORMAL"})
  <2>1. 1 \in DOMAIN toModem BY <1>1, Taken
  <2> QED BY <2>1 DEF OffIsLast
<1>9. m.what = "NORMAL" => Holds(fromModem', {"NORMAL"})
  BY <1>2 DEF CameOn, Holds
<1>10. OffIsLast'
  <2>1. CASE m.what = "NORMAL" BY <1>7, <2>1 DEF OffIsLast, Holds
  <2>2. CASE m.what # "NORMAL"
    <3>1. ASSUME NEW i \in DOMAIN toModem', toModem'[i].what = "LPM",
                 NEW j \in DOMAIN toModem', j < i
          PROVE  toModem'[j].what # "NORMAL" /\ ~ Holds(fromModem, {"NORMAL"})
      <4>1. /\ i + 1 \in DOMAIN toModem /\ toModem'[i] = toModem[i + 1]
            /\ j + 1 \in DOMAIN toModem /\ toModem'[j] = toModem[j + 1]
        BY <1>1, <3>1, Taken
      <4>2. i \in Nat /\ j \in Nat
        <5>1. toModem' \in Seq(ToModem) BY DEF Served, TypeOK
        <5> QED BY <5>1
      <4>3. j + 1 < i + 1 BY <3>1, <4>2
      <4> QED BY <3>1, <4>1, <4>3 DEF OffIsLast
    <3>2. ASSUME NEW i \in DOMAIN toModem', toModem'[i].what = "LPM"
          PROVE  ~ Holds(fromModem, {"NORMAL"})
      <4>1. i + 1 \in DOMAIN toModem /\ toModem'[i] = toModem[i + 1] BY <1>1, Taken
      <4> QED BY <3>2, <4>1 DEF OffIsLast
    <3> QED BY <1>6, <2>2, <3>1, <3>2 DEF OffIsLast
  <2> QED BY <2>1, <2>2
<1> HIDE DEF m
<1>11. OnIsKnown'
  <2>1. CASE m.what = "NORMAL" BY <1>1, <1>9, <2>1 DEF OnIsKnown
  <2>2. CASE m.what = "LPM"
    BY <1>1, <1>3, <1>5, <1>6, <1>8, <2>2 DEF OnIsKnown, TakenToBeOn, StaysOn
  <2>3. CASE m.what \notin {"NORMAL", "LPM"}
    BY <1>1, <1>3, <1>5, <1>6, <2>3 DEF OnIsKnown, TakenToBeOn, StaysOn
  <2> QED BY <2>1, <2>2, <2>3
<1> QED BY <1>10, <1>11

(* A notification of the SIM at the end of the line.                       *)
LEMMA Notices ==
  ASSUME TypeOK, SimChanged
  PROVE  Added(fromModem', fromModem, {From("PIN_NOTI", NoToken, sim + 1)})
<1>1. /\ From("PIN_NOTI", NoToken, sim + 1) \in FromModem /\ fromModem \in Seq(FromModem)
      /\ fromModem' = Append(fromModem, From("PIN_NOTI", NoToken, sim + 1))
  BY DEF SimChanged, TypeOK
<1> QED BY <1>1, AddedOne

(* The lines after a failure.                                              *)
LEMMA BootLine ==
  ASSUME Failed
  PROVE  /\ DOMAIN toModem' = {} /\ DOMAIN fromModem' = {1}
         /\ fromModem'[1].what = "PWR_UP" /\ fromModem'[1].token = NoToken
BY DEF Failed, Booting, From

(* Every step keeps AgreeInv, in which RADIO_POWER off decides anew        *)
(* whether it met a modem on its way up.                                   *)
LEMMA AgreeStep ==
  ASSUME TypeOK, PowerInv, AgreeInv, [Next]_vars PROVE AgreeInv'
<1> SUFFICES ASSUME ~ crossed' PROVE OffIsLast' /\ OnIsKnown' BY DEF AgreeInv
<1> DEFINE Agree == OffIsLast /\ OnIsKnown
<1>1. ~ crossed => Agree BY DEF AgreeInv
<1>2. BootFirst BY DEF PowerInv
<1> HIDE DEF Agree
<1>3. CASE UNCHANGED vars
  <2>1. UNCHANGED <<toModem, fromModem, on, ril_state, crossed>> BY <1>3 DEF vars, line, modem, rild
  <2>2. OffIsLast /\ OnIsKnown BY <1>1, <2>1 DEF Agree
  <2> QED BY <2>1, <2>2 DEF OffIsLast, OnIsKnown, TakenToBeOn, StaysOn
<1>4. ASSUME NEW kind \in Kind \ {"RADIO_POWER_ON", "RADIO_POWER_OFF"}, Requested(kind)
      PROVE  OffIsLast' /\ OnIsKnown'
  <2>1. Agree BY <1>1, <1>4 DEF Requested
  <2> QED BY <1>4, <2>1, AgreeRequested DEF Agree
<1>5. CASE SwitchedOn
  <2> DEFINE x == To("NORMAL", New)
             n == Len(toModem)
  <2>1. /\ Agree /\ toModem' = Append(toModem, x) /\ fromModem' = fromModem
        /\ toModem \in Seq(ToModem) /\ x \in ToModem /\ x.what = "NORMAL"
    <3>1. New \in Token BY <1>5, IssueFields DEF SwitchedOn
    <3> QED BY <1>1, <1>5, <3>1, ToTyped DEF SwitchedOn, TypeOK, Orders
  <2> HIDE DEF x
  <2>2. /\ DOMAIN toModem' = DOMAIN toModem \cup {n + 1} /\ toModem'[n + 1] = x
        /\ \A i \in DOMAIN toModem : toModem'[i] = toModem[i] /\ i < n + 1 /\ ~ (n + 1 < i)
    <3>1. \A i \in DOMAIN toModem : i < n + 1 => ~ (n + 1 < i) BY <2>1
    <3> QED BY <2>1, <3>1, AppendPlaces
  <2> HIDE DEF n
  <2>3. Holds(toModem', {"NORMAL"}) BY <2>1, <2>2 DEF Holds
  <2> QED BY <2>1, <2>2, <2>3 DEF OffIsLast, OnIsKnown, Agree
<1>6. CASE SwitchedOff
  <2> DEFINE q == Append(toModem, To("LPM", New))
             n == Len(toModem)
  <2>1. ~ Holds(toModem, {"NORMAL"}) /\ ~ Holds(fromModem, {"NORMAL"}) BY <1>6 DEF SwitchedOff
  <2>2. /\ toModem \in Seq(ToModem) /\ fromModem \in Seq(FromModem) BY DEF TypeOK
  <2>3. To("LPM", New) \in ToModem /\ To("LPM", New).what = "LPM"
    <3>1. New \in Token BY <1>6, IssueFields DEF SwitchedOff
    <3> QED BY <3>1, ToTyped DEF Orders
  <2>4. q \in Seq(ToModem) /\ SameKinds(toModem', q) /\ SameKinds(fromModem', fromModem)
    <3>1. q \in Seq(ToModem) BY <2>2, <2>3
    <3>2. Anonymous(toModem', q) /\ Anonymous(fromModem', fromModem) BY <1>6 DEF SwitchedOff
    <3> HIDE DEF q
    <3> QED BY <2>2, <3>1, <3>2, AnonymousTo, AnonymousFrom
  <2>5. /\ DOMAIN q = DOMAIN toModem \cup {n + 1} /\ q[n + 1].what = "LPM"
        /\ \A i \in DOMAIN toModem : q[i] = toModem[i]
    BY <2>2, <2>3, AppendPlaces
  <2> HIDE DEF q, n
  <2>6. /\ ~ Holds(toModem', {"NORMAL"}) /\ ~ Holds(fromModem', {"NORMAL"})
        /\ Holds(toModem', {"LPM"})
    BY <2>1, <2>4, <2>5 DEF SameKinds, Holds
  <2>7. ril_state'.power_mode = "LPM" BY <1>6 DEF SwitchedOff, Cleared
  <2> QED BY <2>6, <2>7 DEF OffIsLast, OnIsKnown, TakenToBeOn, StaysOn, Holds
<1>7. CASE Received(fromModem[1])
  <2>1. Agree BY <1>1, <1>7 DEF Received
  <2> QED BY <1>2, <1>7, <2>1, AgreeReceived DEF Agree
<1>8. CASE Served(toModem[1])
  <2>1. Agree BY <1>1, <1>8 DEF Served
  <2> QED BY <1>8, <2>1, AgreeServed DEF Agree
<1>9. CASE SimChanged
  <2>1. /\ Agree /\ UNCHANGED <<toModem, on, ril_state>> BY <1>1, <1>9 DEF SimChanged
  <2> DEFINE r == From("PIN_NOTI", NoToken, sim + 1)
  <2>2. \A x \in {r} : x.what \notin {"NORMAL"} /\ x.what \notin {"PWR_UP"} BY DEF From
  <2>3. Added(fromModem', fromModem, {r}) BY <1>9, Notices
  <2> HIDE DEF r
  <2>4. /\ Holds(fromModem', {"NORMAL"}) <=> Holds(fromModem, {"NORMAL"})
        /\ Holds(fromModem', {"PWR_UP"}) <=> Holds(fromModem, {"PWR_UP"})
    BY <2>2, <2>3, AddedHolds
  <2> QED BY <2>1, <2>4 DEF OffIsLast, OnIsKnown, TakenToBeOn, StaysOn, Agree
<1>10. CASE Failed
  <2>1. /\ on' = FALSE /\ Holds(fromModem', {"PWR_UP"}) /\ ~ Holds(fromModem', {"NORMAL"})
        /\ DOMAIN toModem' = {}
    BY <1>10, BootLine DEF Holds, Failed
  <2> QED BY <2>1 DEF OffIsLast, OnIsKnown, TakenToBeOn, StaysOn
<1> QED BY <1>3, <1>4, <1>5, <1>6, <1>7, <1>8, <1>9, <1>10, Steps

-----------------------------------------------------------------------------
(* What a kept token waits for is under way.                               *)

(* A request that is kept is awaited.                                      *)
LEMMA WaitRequested ==
  ASSUME TypeOK, WaitInv, NEW kind \in Kind \ {"RADIO_POWER_ON", "RADIO_POWER_OFF"},
         Requested(kind)
  PROVE  WaitInv'
<1>1. /\ fromModem' = fromModem /\ failures' = failures /\ forgotten' = forgotten
      /\ AskedState(kind) /\ New \in Token
      /\ toModem' = toModem \/ Added(toModem', toModem, Question(kind))
  BY DEF Requested
<1>2. \A whats : /\ Holds(toModem, whats) => Holds(toModem', whats)
                 /\ \A t : Sent(toModem, whats, t) => Sent(toModem', whats, t)
  BY <1>1, AddedHolds
<1>3. PowerAwaited' BY <1>1, <1>2 DEF WaitInv, PowerAwaited, AskedState
<1>4. StatusAwaited'
  <2>1. NoToken \notin Token BY DEF Token, NoToken
  <2> QED BY <1>1, <1>2, <2>1 DEF WaitInv, StatusAwaited, AskedState
<1>5. VersionAwaited' BY <1>1, <1>2 DEF WaitInv, VersionAwaited, AskedState
<1>6. SerialAwaited' BY <1>1, <1>2 DEF WaitInv, SerialAwaited, AskedState
<1> QED BY <1>3, <1>4, <1>5, <1>6 DEF WaitInv

(* A message ends the waiting for what it answers, and ril_tokens_check    *)
(* asks again for what a modem that boots will not answer.                 *)
LEMMA WaitReceived ==
  ASSUME TypeOK, PowerInv, WaitInv, Received(fromModem[1]) PROVE WaitInv'
<1> DEFINE m == fromModem[1]
<1>1. /\ fromModem # <<>> /\ fromModem' = Tail(fromModem) /\ failures' = failures
      /\ forgotten \subseteq forgotten'
      /\ m.what = "ME_SN_TOO_LONG" =>
           {ril_state.get_imei, ril_state.get_imeisv} \ {NoToken} \subseteq forgotten'
      /\ ReceivedPower(m) /\ ReceivedTokens(m)
      /\ Added(toModem', toModem, Queries(ril_state) \cup {To("DEVICE_READY", NoToken)})
  BY DEF Received
<1>2. \A whats : /\ Holds(toModem, whats) => Holds(toModem', whats)
                 /\ \A t : Sent(toModem, whats, t) => Sent(toModem', whats, t)
  BY <1>1, AddedHolds
<1>3. \A whats :
        /\ Holds(fromModem, whats) <=> (m.what \in whats \/ Holds(fromModem', whats))
        /\ \A t : Sent(fromModem, whats, t) <=>
             (m.what \in whats /\ m.token = t) \/ Sent(fromModem', whats, t)
  BY <1>1, HeadHolds
<1>4. NoToken \notin Token /\ Waiting \notin Token BY DEF Token, NoToken, Waiting
<1>5. m.what = "NORMAL" => Holds(fromModem', {"PIN_NOTI"})
  <2> SUFFICES ASSUME m.what = "NORMAL" PROVE Holds(fromModem', {"PIN_NOTI"}) OBVIOUS
  <2>1. PICK j \in DOMAIN fromModem : 1 < j /\ fromModem[j].what = "PIN_NOTI"
    BY <1>1, Taken DEF PowerInv, StatusBehind
  <2>2. j # 1 BY <2>1
  <2> QED BY <1>1, <2>1, <2>2, Taken DEF Holds
<1>6. m.what = "PWR_UP" /\ failures = 0 => ril_state.power_mode = "LPM"
  BY <1>1, Taken DEF PowerInv, BootFirst
<1>7. ril_state.power_mode = "LPM" <=> ril_state.radio_state = "OFF"
  BY DEF PowerInv, ModeIsRadio
<1> HIDE DEF m
<1>8. PowerAwaited'
  <2> SUFFICES ASSUME failures = 0, ril_state'.radio_power # NoToken
               PROVE  \/ Holds(toModem', {"NORMAL"})
                      \/ Holds(fromModem', {"NORMAL"})
                      \/ ril_state'.power_mode = "NORMAL" /\ Holds(fromModem', {"PIN_NOTI"})
    BY <1>1 DEF PowerAwaited
  <2>1. /\ ril_state.radio_power # NoToken
        /\ ~ (m.what \in Statuses /\ ril_state.power_mode = "NORMAL")
    BY <1>1 DEF ReceivedTokens
  <2>2. CASE Holds(toModem, {"NORMAL"}) BY <1>2, <2>2
  <2>3. CASE Holds(fromModem, {"NORMAL"})
    <3>1. m.what = "NORMAL" \/ Holds(fromModem', {"NORMAL"}) BY <1>3, <2>3
    <3> QED BY <1>1, <1>5, <3>1 DEF ReceivedPower
  <2>4. CASE ril_state.power_mode = "NORMAL" /\ Holds(fromModem, {"PIN_NOTI"})
    <3>1. Holds(fromModem', {"PIN_NOTI"}) BY <1>3, <2>1, <2>4 DEF Statuses
    <3>2. ril_state'.power_mode = "NORMAL" BY <1>1, <1>6, <2>4 DEF ReceivedPower
    <3> QED BY <3>1, <3>2
  <2> QED BY <2>1, <2>2, <2>3, <2>4 DEF WaitInv, PowerAwaited
<1>9. StatusAwaited'
  <2> SUFFICES ASSUME failures = 0, ril_state'.pin_status \in Token
               PROVE  \/ Sent(toModem', {"PIN_STATUS"}, ril_state'.pin_status)
                      \/ Sent(fromModem', {"PIN_STATUS"}, ril_state'.pin_status)
    BY <1>1 DEF StatusAwaited
  <2>1. m.what # "PIN_STATUS" /\ ril_state'.pin_status = ril_state.pin_status
    BY <1>1, <1>4 DEF ReceivedTokens
  <2> QED BY <1>2, <1>3, <2>1 DEF WaitInv, StatusAwaited
<1>10. ril_state'.radio_state # "OFF" =>
         /\ m.what # "PWR_UP"
         /\ m.what # "NORMAL" => ril_state.radio_state # "OFF"
  <2>1. ril_state.power_mode = "NORMAL" => ril_state.radio_state # "OFF" BY <1>7
  <2> QED BY <1>1, <2>1 DEF ReceivedPower
<1>11. VersionAwaited'
  <2> SUFFICES ASSUME ril_state'.radio_state # "OFF", ril_state'.baseband_version # NoToken
               PROVE  \/ Sent(fromModem', {"PWR_UP"}, NoToken)
                      \/ Sent(toModem', {"ME_VERSION"}, ril_state'.baseband_version)
                      \/ Sent(fromModem', {"ME_VERSION"}, ril_state'.baseband_version)
    BY DEF VersionAwaited
  <2>1. m.what # "ME_VERSION" /\ ril_state'.baseband_version = ril_state.baseband_version
    BY <1>1 DEF ReceivedTokens
  <2>2. CASE m.what = "NORMAL" BY <1>1, <2>2 DEF ReceivedTokens, Asked
  <2>3. CASE m.what # "NORMAL"
    BY <1>2, <1>3, <1>10, <2>1, <2>3 DEF WaitInv, VersionAwaited
  <2> QED BY <2>2, <2>3
<1>12. SerialAwaited'
  <2> SUFFICES ASSUME ril_state'.radio_state # "OFF",
                      NoToken \notin {ril_state'.get_imei, ril_state'.get_imeisv}
               PROVE  \/ Sent(fromModem', {"PWR_UP"}, NoToken)
                      \/ Sent(toModem', {"ME_SN"}, ril_state'.get_imei)
                      \/ Sent(fromModem', {"ME_SN", "ME_SN_TOO_LONG"}, ril_state'.get_imei)
                      \/ ril_state'.get_imei \in forgotten'
    BY DEF SerialAwaited
  <2>1. /\ m.what # "ME_SN" /\ ril_state'.get_imei = ril_state.get_imei
        /\ ril_state'.get_imeisv = ril_state.get_imeisv
    BY <1>1 DEF ReceivedTokens
  <2>2. CASE m.what = "NORMAL" BY <1>1, <2>2 DEF ReceivedTokens, Asked
  <2>3. CASE m.what = "ME_SN_TOO_LONG" BY <1>1, <2>1, <2>3
  <2>4. CASE m.what \notin {"NORMAL", "ME_SN_TOO_LONG"}
    BY <1>1, <1>2, <1>3, <1>10, <2>1, <2>4 DEF WaitInv, SerialAwaited
  <2> QED BY <2>2, <2>3, <2>4
<1> QED BY <1>8, <1>9, <1>11, <1>12 DEF WaitInv

(* What is asked of the modem is answered by it.                           *)
LEMMA WaitServed ==
  ASSUME TypeOK, WaitInv, Served(toModem[1]) PROVE WaitInv'
<1> DEFINE m == toModem[1]
<1>1. /\ toModem # <<>> /\ toModem' = Tail(toModem) /\ m \in ToModem
      /\ UNCHANGED <<ril_state, failures, forgotten>>
  BY DEF Served
<1>2. /\ Added(fromModem', fromModem, Reply(m)) /\ (m.what = "NORMAL" => CameOn)
      /\ m.what \notin {"NORMAL", "LPM", "DEVICE_READY"} =>
           Sent(fromModem', {m.what} \cup (IF m.what = "ME_SN" THEN {"ME_SN_TOO_LONG"} ELSE {}), m.token)
  BY ServedLine
<1>3. \A whats : /\ Holds(fromModem, whats) => Holds(fromModem', whats)
                 /\ \A t : Sent(fromModem, whats, t) => Sent(fromModem', whats, t)
  BY <1>2, AddedHolds
<1>4. \A whats :
        /\ Holds(toModem, whats) <=> (m.what \in whats \/ Holds(toModem', whats))
        /\ \A t : Sent(toModem, whats, t) <=>
             (m.what \in whats /\ m.token = t) \/ Sent(toModem', whats, t)
  <2>1. toModem \in Seq(ToModem) BY DEF TypeOK
  <2> QED BY <1>1, <2>1, TailPlaces, TailHolds
<1> HIDE DEF m
<1>5. /\ m.what = "NORMAL" => Holds(fromModem', {"NORMAL"})
      /\ m.what = "PIN_STATUS" => Sent(fromModem', {"PIN_STATUS"}, m.token)
      /\ m.what = "ME_VERSION" => Sent(fromModem', {"ME_VERSION"}, m.token)
      /\ m.what = "ME_SN" => Sent(fromModem', {"ME_SN", "ME_SN_TOO_LONG"}, m.token)
  BY <1>2 DEF CameOn, Holds, Sent
<1>6. PowerAwaited' BY <1>1, <1>3, <1>4, <1>5 DEF WaitInv, PowerAwaited
<1>7. StatusAwaited' BY <1>1, <1>3, <1>4, <1>5 DEF WaitInv, StatusAwaited
<1>8. VersionAwaited' BY <1>1, <1>3, <1>4, <1>5 DEF WaitInv, VersionAwaited
<1>9. SerialAwaited' BY <1>1, <1>3, <1>4, <1>5 DEF WaitInv, SerialAwaited
<1> QED BY <1>6, <1>7, <1>8, <1>9 DEF WaitInv

(* Every step keeps WaitInv.                                               *)
LEMMA WaitStep ==
  ASSUME TypeOK, PowerInv, WaitInv, [Next]_vars PROVE WaitInv'
<1>1. CASE UNCHANGED vars
  BY <1>1
  DEF WaitInv, PowerAwaited, StatusAwaited, VersionAwaited, SerialAwaited, vars, line, rild
<1>2. ASSUME NEW kind \in Kind \ {"RADIO_POWER_ON", "RADIO_POWER_OFF"}, Requested(kind)
      PROVE  WaitInv'
  BY <1>2, WaitRequested
<1>3. CASE SwitchedOn
  <2> DEFINE x == To("NORMAL", New)
  <2>1. New \in Token /\ toModem \in Seq(ToModem) /\ ril_state \in State
    BY <1>3, IssueFields DEF SwitchedOn, TypeOK
  <2>2. /\ ril_state' = [ril_state EXCEPT !.radio_power = New] /\ toModem' = Append(toModem, x)
        /\ fromModem' = fromModem /\ failures' = failures /\ forgotten \subseteq forgotten'
    BY <1>3 DEF SwitchedOn
  <2>3. x \in ToModem /\ x.what = "NORMAL" BY <2>1, ToTyped DEF Orders
  <2> HIDE DEF x
  <2>4. Added(toModem', toModem, {x}) BY <2>1, <2>2, <2>3, AddedOne
  <2>5. \A whats, t : Sent(toModem, whats, t) => Sent(toModem', whats, t)
    BY <2>4, AddedHolds
  <2>6. Holds(toModem', {"NORMAL"})
    <3>1. Sent(toModem', {"NORMAL"}, x.token) BY <2>1, <2>2, <2>3, AppendSent
    <3> QED BY <3>1 DEF Sent, Holds
  <2>7. /\ ril_state'.pin_status = ril_state.pin_status
        /\ ril_state'.radio_state = ril_state.radio_state
        /\ ril_state'.baseband_version = ril_state.baseband_version
        /\ ril_state'.get_imei = ril_state.get_imei /\ ril_state'.get_imeisv = ril_state.get_imeisv
    BY <2>1, <2>2 DEF State
  <2>8. PowerAwaited' BY <2>6 DEF PowerAwaited
  <2>9. StatusAwaited' BY <2>2, <2>5, <2>7 DEF WaitInv, StatusAwaited
  <2>10. VersionAwaited' BY <2>2, <2>5, <2>7 DEF WaitInv, VersionAwaited
  <2>11. SerialAwaited' BY <2>2, <2>5, <2>7 DEF WaitInv, SerialAwaited
  <2> QED BY <2>8, <2>9, <2>10, <2>11 DEF WaitInv
<1>4. CASE SwitchedOff
  <2>1. /\ ril_state'.radio_power = NoToken /\ ril_state'.pin_status = NoToken
        /\ ril_state'.radio_state = "OFF" /\ NoToken \notin Token
    BY <1>4 DEF SwitchedOff, Cleared, Token, NoToken
  <2> QED BY <2>1 DEF WaitInv, PowerAwaited, StatusAwaited, VersionAwaited, SerialAwaited
<1>5. CASE Received(fromModem[1]) BY <1>5, WaitReceived
<1>6. CASE Served(toModem[1]) BY <1>6, WaitServed
<1>7. CASE SimChanged
  <2>1. /\ Added(fromModem', fromModem, {From("PIN_NOTI", NoToken, sim + 1)})
        /\ UNCHANGED <<ril_state, toModem, failures, forgotten>>
    BY <1>7, Notices DEF SimChanged
  <2>2. \A whats : /\ Holds(fromModem, whats) => Holds(fromModem', whats)
                   /\ \A t : Sent(fromModem, whats, t) => Sent(fromModem', whats, t)
    BY <2>1, AddedHolds
  <2> QED BY <2>1, <2>2
      DEF WaitInv, PowerAwaited, StatusAwaited, VersionAwaited, SerialAwaited
<1>8. CASE Failed
  <2>1. Sent(fromModem', {"PWR_UP"}, NoToken) /\ failures' # 0 BY <1>8, BootLine DEF Sent, Failed
  <2> QED BY <2>1 DEF WaitInv, PowerAwaited, StatusAwaited, VersionAwaited, SerialAwaited
<1> QED BY <1>1, <1>2, <1>3, <1>4, <1>5, <1>6, <1>7, <1>8, Steps

-----------------------------------------------------------------------------
(* The status of the SIM.                                                  *)

(* The status a queue ends with is known to be the last when its first     *)
(* message is taken.                                                       *)
LEMMA LastTaken ==
  ASSUME TypeOK, fromModem # <<>>, fromModem' = Tail(fromModem), NEW pin,
         LastIs(fromModem, pin)
  PROVE  /\ LastIs(fromModem', pin)
         /\ fromModem[1].what \in Statuses /\ ~ Holds(fromModem', Statuses) =>
              fromModem[1].pin = pin
<1>1. DOMAIN fromModem' \subseteq Nat /\ DOMAIN fromModem \subseteq Nat
  <2>1. fromModem \in Seq(FromModem) BY DEF TypeOK
  <2>2. fromModem' \in Seq(FromModem) BY <2>1, TailPlaces
  <2> QED BY <2>1, <2>2
<1>2. ASSUME NEW i \in DOMAIN fromModem', fromModem'[i].what \in Statuses,
             \A j \in DOMAIN fromModem' : i < j => fromModem'[j].what \notin Statuses
      PROVE  fromModem'[i].pin = pin
  <2>1. i + 1 \in DOMAIN fromModem /\ fromModem'[i] = fromModem[i + 1] BY Taken
  <2>2. ASSUME NEW j \in DOMAIN fromModem, i + 1 < j PROVE fromModem[j].what \notin Statuses
    <3>1. j # 1 /\ i < j - 1 BY <1>1, <2>2
    <3>2. j - 1 \in DOMAIN fromModem' /\ fromModem'[j - 1] = fromModem[j] BY <3>1, Taken
    <3> QED BY <1>2, <3>1, <3>2
  <2> QED BY <1>2, <2>1, <2>2 DEF LastIs
<1>3. ASSUME fromModem[1].what \in Statuses, ~ Holds(fromModem', Statuses)
      PROVE  fromModem[1].pin = pin
  <2>1. 1 \in DOMAIN fromModem BY Taken
  <2>2. ASSUME NEW j \in DOMAIN fromModem, 1 < j PROVE fromModem[j].what \notin Statuses
    <3>1. j # 1 BY <2>2
    <3>2. j - 1 \in DOMAIN fromModem' /\ fromModem'[j - 1] = fromModem[j] BY <3>1, Taken
    <3> QED BY <1>3, <3>2 DEF Holds
  <2> QED BY <1>3, <2>1, <2>2 DEF LastIs
<1> QED BY <1>2, <1>3 DEF LastIs

(* Statuses added at the end are the present ones.                         *)
LEMMA LastAdded ==
  ASSUME NEW old, NEW new, NEW M, Added(new, old, M), NEW pin,
         \A m \in M : m.what \in Statuses => m.pin = pin,
         (\E i \in DOMAIN new \ DOMAIN old : new[i].what \in Statuses) \/ LastIs(old, pin)
  PROVE  LastIs(new, pin)
<1> SUFFICES ASSUME NEW i \in DOMAIN new, new[i].what \in Statuses,
                    \A j \in DOMAIN new : i < j => new[j].what \notin Statuses
             PROVE  new[i].pin = pin
  BY DEF LastIs
<1>1. CASE i \notin DOMAIN old BY <1>1 DEF Added
<1>2. CASE i \in DOMAIN old
  <2>1. \A j \in DOMAIN new \ DOMAIN old : i < j BY <1>2 DEF Added
  <2>2. ~ \E j \in DOMAIN new \ DOMAIN old : new[j].what \in Statuses BY <2>1
  <2>3. old[i] = new[i] /\ \A j \in DOMAIN old : j \in DOMAIN new /\ old[j] = new[j]
    BY <1>2 DEF Added
  <2> QED BY <1>2, <2>2, <2>3 DEF LastIs
<1> QED BY <1>1, <1>2

(* No status is on its way only if none was and none has been added.       *)
LEMMA NoStatusBefore ==
  ASSUME TypeOK
  PROVE  /\ \A M : Added(toModem', toModem, M) /\ fromModem' = fromModem /\ NoStatus' => NoStatus
         /\ \A M : Added(toModem', toModem, M) /\ fromModem # <<>> /\ fromModem' = Tail(fromModem)
              /\ NoStatus' => ~ Holds(fromModem', Statuses) /\ ~ Holds(toModem, {"PIN_STATUS"})
                              /\ (fromModem[1].what \notin Statuses => NoStatus)
<1>1. ASSUME NEW M, Added(toModem', toModem, M), NoStatus'
      PROVE  ~ Holds(toModem, {"PIN_STATUS"}) /\ ~ Holds(fromModem', Statuses)
  BY <1>1, AddedHolds DEF NoStatus
<1>2. ASSUME NEW M, Added(toModem', toModem, M), fromModem' = fromModem, NoStatus'
      PROVE  NoStatus
  BY <1>1, <1>2 DEF NoStatus
<1>3. ASSUME NEW M, Added(toModem', toModem, M), fromModem # <<>>, fromModem' = Tail(fromModem),
             NoStatus', fromModem[1].what \notin Statuses
      PROVE  NoStatus
  <2>1. ~ Holds(toModem, {"PIN_STATUS"}) /\ ~ Holds(fromModem', Statuses) BY <1>1, <1>3
  <2>2. ~ Holds(fromModem, Statuses) BY <1>3, <2>1, HeadHolds
  <2> QED BY <2>1, <2>2 DEF NoStatus
<1> QED BY <1>1, <1>2, <1>3

(* A message after which no status is on its way.                          *)
LEMMA ReceivedQuiet ==
  ASSUME TypeOK, PowerInv, WaitInv, SimInv, Received(fromModem[1]),
         failures = 0, ril_state'.power_mode = "NORMAL", NoStatus'
  PROVE  /\ ril_state.power_mode = "NORMAL" /\ fromModem[1].what \notin {"PWR_UP", "NORMAL"}
         /\ fromModem[1].what \in Statuses => fromModem[1].pin = sim
         /\ fromModem[1].what = "PIN_NOTI" => ril_state.pin_status \in {NoToken, Waiting}
         /\ fromModem[1].what \notin Statuses => NoStatus
<1> DEFINE m == fromModem[1]
           M == Queries(ril_state) \cup {To("DEVICE_READY", NoToken)}
<1>1. /\ fromModem # <<>> /\ fromModem' = Tail(fromModem) /\ ReceivedPower(m)
      /\ Added(toModem', toModem, M)
  BY DEF Received
<1>2. /\ ~ Holds(fromModem', Statuses) /\ ~ Holds(toModem, {"PIN_STATUS"})
      /\ m.what \notin Statuses => NoStatus
  BY <1>1, NoStatusBefore
<1>3. m.what # "NORMAL"
  <2> SUFFICES ASSUME m.what = "NORMAL" PROVE FALSE OBVIOUS
  <2>1. PICK j \in DOMAIN fromModem : 1 < j /\ fromModem[j].what = "PIN_NOTI"
    BY <1>1, Taken DEF PowerInv, StatusBehind
  <2>2. j # 1 BY <2>1
  <2>3. j - 1 \in DOMAIN fromModem' /\ fromModem'[j - 1].what = "PIN_NOTI"
    BY <1>1, <2>1, <2>2, Taken
  <2> QED BY <1>2, <2>3 DEF Holds, Statuses
<1>4. m.what # "PWR_UP" /\ ril_state.power_mode = "NORMAL" BY <1>1, <1>3 DEF ReceivedPower
<1>5. m.what \in Statuses => m.pin = sim
  BY <1>1, <1>2, LastTaken DEF SimInv, LastIsPresent
<1>6. m.what = "PIN_NOTI" => ril_state.pin_status \in {NoToken, Waiting}
  <2> SUFFICES ASSUME m.what = "PIN_NOTI", ril_state.pin_status \notin {NoToken, Waiting}
               PROVE  FALSE
    OBVIOUS
  <2>1. ril_state.pin_status \in Token BY DEF TypeOK, State
  <2>2. \/ Sent(toModem, {"PIN_STATUS"}, ril_state.pin_status)
        \/ Sent(fromModem, {"PIN_STATUS"}, ril_state.pin_status)
    BY <2>1 DEF WaitInv, StatusAwaited
  <2>3. Holds(toModem, {"PIN_STATUS"}) \/ Holds(fromModem, {"PIN_STATUS"})
    BY <2>2 DEF Sent, Holds
  <2>4. Holds(fromModem', {"PIN_STATUS"}) BY <1>1, <1>2, <2>3, HeadHolds
  <2> QED BY <1>2, <2>4 DEF Holds, Statuses
<1> QED BY <1>2, <1>3, <1>4, <1>5, <1>6

(* The modem does not take the last status from the line.                  *)
LEMMA ServedQuiet ==
  ASSUME TypeOK, NEW m, Served(m), m = toModem[1], NoStatus' PROVE NoStatus
<1>1. /\ Added(fromModem', fromModem, Reply(m)) /\ (m.what = "NORMAL" => CameOn)
      /\ m.what = "PIN_STATUS" => Sent(fromModem', {"PIN_STATUS"}, m.token)
      /\ toModem # <<>> /\ toModem' = Tail(toModem)
  <2>1. m.what = "PIN_STATUS" =>
          Sent(fromModem', {m.what} \cup (IF m.what = "ME_SN" THEN {"ME_SN_TOO_LONG"} ELSE {}), m.token)
    BY ServedLine
  <2> QED BY <2>1, ServedLine DEF Served, Sent
<1>2. ~ Holds(fromModem, Statuses) BY <1>1, AddedHolds DEF NoStatus
<1>3. m.what # "PIN_STATUS" BY <1>1 DEF NoStatus, Holds, Sent, Statuses
<1>4. ~ Holds(toModem, {"PIN_STATUS"})
  <2>1. toModem \in Seq(ToModem) BY DEF TypeOK
  <2>2. Holds(toModem, {"PIN_STATUS"}) <=> (m.what \in {"PIN_STATUS"} \/ Holds(toModem', {"PIN_STATUS"}))
    BY <1>1, <2>1, TailPlaces, TailHolds
  <2> QED BY <1>3, <2>2 DEF NoStatus
<1> QED BY <1>2, <1>4 DEF NoStatus

(* Every step keeps SimInv.                                                *)
LEMMA SimStep ==
  ASSUME TypeOK, PowerInv, WaitInv, SimInv, [Next]_vars PROVE SimInv'
<1>1. sim \in 1 .. Len(SimHistory) /\ Len(SimHistory) \in Nat
  BY HistoryAssumption DEF SimInv
<1>2. CASE UNCHANGED vars
  BY <1>2 DEF SimInv, LastIsPresent, LastIs, StatusIsKept, NoStatus, Holds, vars, line, modem, rild
<1>3. ASSUME NEW kind \in Kind \ {"RADIO_POWER_ON", "RADIO_POWER_OFF"}, Requested(kind)
      PROVE  SimInv'
  <2>1. /\ UNCHANGED <<fromModem, sim, failures>>
        /\ ril_state'.power_mode = ril_state.power_mode
        /\ ril_state'.sim_pin_status = ril_state.sim_pin_status
        /\ ril_state'.radio_state = ril_state.radio_state
        /\ toModem' = toModem \/ Added(toModem', toModem, Question(kind))
    BY <1>3 DEF Requested, AskedState
  <2>2. NoStatus' => NoStatus
    <3>1. CASE toModem' = toModem BY <2>1, <3>1 DEF NoStatus, Holds
    <3>2. CASE Added(toModem', toModem, Question(kind)) BY <2>1, <3>2, NoStatusBefore
    <3> QED BY <2>1, <3>1, <3>2
  <2> QED BY <2>1, <2>2 DEF SimInv, LastIsPresent, StatusIsKept
<1>4. CASE SwitchedOn
  <2>1. New \in Token /\ toModem \in Seq(ToModem) /\ ril_state \in State
    BY <1>4, IssueFields DEF SwitchedOn, TypeOK
  <2> DEFINE x == To("NORMAL", New)
  <2>2. /\ UNCHANGED <<fromModem, sim, failures>> /\ toModem' = Append(toModem, x)
        /\ ril_state' = [ril_state EXCEPT !.radio_power = New]
    BY <1>4 DEF SwitchedOn
  <2>3. x \in ToModem BY <2>1, ToTyped DEF Orders
  <2> HIDE DEF x
  <2>4. Added(toModem', toModem, {x}) BY <2>1, <2>2, <2>3, AddedOne
  <2>5. NoStatus' => NoStatus BY <2>2, <2>4, NoStatusBefore
  <2>6. /\ ril_state'.power_mode = ril_state.power_mode
        /\ ril_state'.sim_pin_status = ril_state.sim_pin_status
        /\ ril_state'.radio_state = ril_state.radio_state
    BY <2>1, <2>2 DEF State
  <2> QED BY <2>2, <2>5, <2>6 DEF SimInv, LastIsPresent, StatusIsKept
<1>5. CASE SwitchedOff
  <2>1. /\ sim' = sim /\ failures' = failures /\ ril_state'.power_mode = "LPM"
        /\ Anonymous(fromModem', fromModem)
    BY <1>5 DEF SwitchedOff, Cleared
  <2>2. SameKinds(fromModem', fromModem) /\ \A i \in DOMAIN fromModem : fromModem'[i].pin = fromModem[i].pin
    BY <2>1, AnonymousFrom DEF TypeOK
  <2> QED BY <2>1, <2>2 DEF SimInv, LastIsPresent, LastIs, StatusIsKept, SameKinds
<1>6. CASE Received(fromModem[1])
  <2> DEFINE m == fromModem[1]
  <2>1. /\ fromModem # <<>> /\ fromModem' = Tail(fromModem) /\ UNCHANGED <<sim, failures>>
        /\ ReceivedStatus(m)
    BY <1>6 DEF Received
  <2>2. LastIsPresent' BY <2>1, LastTaken DEF SimInv, LastIsPresent
  <2>3. ASSUME failures = 0, ril_state'.power_mode = "NORMAL", NoStatus'
        PROVE  /\ ril_state'.sim_pin_status = sim
               /\ SimHistory[sim] # "SIM_PB_INIT_COMPLETE" =>
                    ril_state'.radio_state = RadioState(StatusOf[SimHistory[sim]])
    <3>1. /\ ril_state.power_mode = "NORMAL" /\ m.what \notin {"PWR_UP", "NORMAL"}
          /\ m.what \in Statuses => m.pin = sim
          /\ m.what = "PIN_NOTI" => ril_state.pin_status \in {NoToken, Waiting}
          /\ m.what \notin Statuses => NoStatus
      BY <1>6, <2>3, ReceivedQuiet
    <3>2. sim # 0 BY <1>1
    <3>3. CASE m.what \in Statuses
      <4>1. TakenOver(m) BY <2>1, <3>1, <3>3 DEF ReceivedStatus, Statuses
      <4> QED BY <3>1, <3>2, <3>3, <4>1 DEF TakenOver, Known
    <3>4. CASE m.what \notin Statuses
      BY <2>1, <2>3, <3>1, <3>4 DEF ReceivedStatus, SimInv, StatusIsKept
    <3> QED BY <3>3, <3>4
  <2>4. StatusIsKept' BY <2>1, <2>3 DEF StatusIsKept
  <2> QED BY <1>1, <2>1, <2>2, <2>4 DEF SimInv
<1>7. CASE Served(toModem[1])
  <2> DEFINE m == toModem[1]
  <2>1. UNCHANGED <<ril_state, sim, failures>> /\ m \in ToModem BY <1>7 DEF Served
  <2>2. Added(fromModem', fromModem, Reply(m)) BY <1>7, ServedLine
  <2>3. NoStatus' => NoStatus BY <1>7, ServedQuiet
  <2>4. \A r \in Reply(m) : r.what \in Statuses => r.pin = sim BY <2>1, ReplyFields
  <2> HIDE DEF m
  <2>5. LastIsPresent' BY <2>1, <2>2, <2>4, LastAdded DEF SimInv, LastIsPresent
  <2>6. StatusIsKept' BY <2>1, <2>3 DEF SimInv, StatusIsKept
  <2> QED BY <1>1, <2>1, <2>5, <2>6 DEF SimInv
<1>8. CASE SimChanged
  <2> DEFINE r == From("PIN_NOTI", NoToken, sim + 1)
             n == Len(fromModem)
  <2>1. /\ sim' = sim + 1 /\ sim < Len(SimHistory) /\ r \in FromModem /\ fromModem \in Seq(FromModem)
        /\ fromModem' = Append(fromModem, r)
    BY <1>8 DEF SimChanged, TypeOK
  <2>2. r.what = "PIN_NOTI" /\ r.pin = sim' BY <2>1 DEF From
  <2>3. Added(fromModem', fromModem, {r}) BY <1>8, Notices
  <2> HIDE DEF r
  <2>4. /\ n + 1 \in DOMAIN fromModem' \ DOMAIN fromModem /\ fromModem'[n + 1] = r
    BY <2>1, AppendPlaces
  <2> HIDE DEF n
  <2>5. LastIs(fromModem', sim')
    <3>1. \E i \in DOMAIN fromModem' \ DOMAIN fromModem : fromModem'[i].what \in Statuses
      BY <2>2, <2>4 DEF Statuses
    <3> QED BY <2>2, <2>3, <3>1, LastAdded
  <2>6. ~ NoStatus' BY <2>2, <2>4 DEF NoStatus, Holds, Statuses
  <2>7. sim' \in 1 .. Len(SimHistory) BY <1>1, <2>1
  <2> QED BY <2>5, <2>6, <2>7 DEF SimInv, LastIsPresent, StatusIsKept
<1>9. CASE Failed
  <2>1. sim' = sim /\ failures' # 0 BY <1>9 DEF Failed
  <2> QED BY <1>1, <2>1 DEF SimInv, LastIsPresent, StatusIsKept
<1> QED BY <1>2, <1>3, <1>4, <1>5, <1>6, <1>7, <1>8, <1>9, Steps

-----------------------------------------------------------------------------
(* What rild knows of the SIM.                                             *)

(* The places of both queues are numbers.                                  *)
LEMMA PlacesInt ==
  ASSUME TypeOK PROVE DOMAIN toModem \subseteq Int /\ DOMAIN fromModem \subseteq Int
<1>1. toModem \in Seq(ToModem) /\ fromModem \in Seq(FromModem) BY DEF TypeOK
<1> QED BY <1>1

(* Requests ask under their own token, and get what the driver has.        *)
LEMMA KnowsRequested ==
  ASSUME TypeOK, SimInv, AnswerIsLate, OrderIsLate, ToldOrSeen,
         NEW kind \in Kind \ {"RADIO_POWER_ON", "RADIO_POWER_OFF"}, Requested(kind)
  PROVE  AnswerIsLate' /\ OrderIsLate' /\ ToldOrSeen'
<1>1. /\ UNCHANGED <<fromModem, sim, failures>>
      /\ ril_state'.power_mode = ril_state.power_mode
      /\ toModem' = toModem \/ Added(toModem', toModem, Question(kind))
      /\ told' = (told /\ kind # "GET_SIM_STATUS") /\ AskedView(kind)
      /\ New \in Token
  BY DEF Requested, AskedState
<1>2. AnswerIsLate' BY <1>1 DEF AnswerIsLate
<1>3. OrderIsLate'
  <2>1. CASE toModem' = toModem BY <1>1, <2>1 DEF OrderIsLate, Holds
  <2>2. CASE Added(toModem', toModem, Question(kind))
    <3>1. New # NoToken BY <1>1 DEF Token, NoToken
    <3>2. \A m \in Question(kind) : m.what # "NORMAL" /\ (m.what = "PIN_STATUS" => m.token # NoToken)
      BY <3>1, QuestionFields DEF Kind
    <3> QED BY <1>1, <2>2, <3>2 DEF OrderIsLate, Added, Holds
  <2> QED BY <1>1, <2>1, <2>2
<1>4. NoStatus' => NoStatus
  <2>1. CASE toModem' = toModem BY <1>1, <2>1 DEF NoStatus, Holds
  <2>2. CASE Added(toModem', toModem, Question(kind)) BY <1>1, <2>2, NoStatusBefore
  <2> QED BY <1>1, <2>1, <2>2
<1>5. ASSUME failures = 0, ril_state.power_mode = "NORMAL", NoStatus',
             SimHistory[sim] # "SIM_PB_INIT_COMPLETE"
      PROVE  told' \/ view' = Card(StatusOf[SimHistory[sim]])
  <2>1. CASE kind # "GET_SIM_STATUS"
    BY <1>1, <1>4, <1>5, <2>1 DEF ToldOrSeen, AskedView
  <2>2. CASE kind = "GET_SIM_STATUS"
    <3>1. ~ Sent(toModem', {"PIN_STATUS"}, New) BY <1>5 DEF NoStatus, Holds, Sent
    <3>2. view' = Card(ipc2ril_sim_status(ril_state, ril_state.sim_pin_status))
      BY <1>1, <2>2, <3>1 DEF AskedView
    <3>3. ril_state.sim_pin_status = sim /\ sim # 0
      BY <1>4, <1>5, HistoryAssumption DEF SimInv, StatusIsKept
    <3>4. ipc2ril_sim_status(ril_state, sim) = StatusOf[SimHistory[sim]]
      BY <1>5, <3>3 DEF ipc2ril_sim_status
    <3> QED BY <3>2, <3>3, <3>4
  <2> QED BY <2>1, <2>2
<1>6. ToldOrSeen' BY <1>1, <1>5 DEF ToldOrSeen
<1> QED BY <1>2, <1>3, <1>6

(* RADIO_POWER on goes to the end of the queue.                            *)
LEMMA KnowsOn ==
  ASSUME TypeOK, AnswerIsLate, OrderIsLate, ToldOrSeen, SwitchedOn
  PROVE  AnswerIsLate' /\ OrderIsLate' /\ ToldOrSeen'
<1> DEFINE x == To("NORMAL", New)
<1>1. New \in Token /\ toModem \in Seq(ToModem) /\ ril_state \in State
  BY IssueFields DEF SwitchedOn, TypeOK
<1>2. /\ UNCHANGED <<fromModem, sim, failures, told, view>> /\ toModem' = Append(toModem, x)
      /\ ril_state' = [ril_state EXCEPT !.radio_power = New]
  BY DEF SwitchedOn
<1>3. x \in ToModem /\ x.what = "NORMAL" BY <1>1, ToTyped DEF Orders
<1> HIDE DEF x
<1>4. ril_state'.power_mode = ril_state.power_mode BY <1>1, <1>2 DEF State
<1>5. /\ DOMAIN toModem' = DOMAIN toModem \cup {Len(toModem) + 1}
      /\ \A i \in DOMAIN toModem : toModem'[i] = toModem[i] /\ i < Len(toModem) + 1
      /\ toModem'[Len(toModem) + 1] = x
  BY <1>1, <1>2, <1>3, AppendPlaces
<1>6. Len(toModem) \in Nat /\ DOMAIN toModem \subseteq Int BY <1>1, PlacesInt
<1>7. \A i \in DOMAIN toModem : ~ (Len(toModem) + 1 < i) BY <1>5, <1>6
<1>8. AnswerIsLate' BY <1>2, <1>4 DEF AnswerIsLate
<1>9. OrderIsLate'
  <2> SUFFICES ASSUME NEW i \in DOMAIN toModem',
                      toModem'[i].what = "PIN_STATUS", toModem'[i].token = NoToken
               PROVE  /\ ril_state'.power_mode = "LPM" /\ ~ Holds(fromModem', {"NORMAL"})
                      /\ \A j \in DOMAIN toModem' : j < i => toModem'[j].what # "NORMAL"
    BY DEF OrderIsLate
  <2>1. i \in DOMAIN toModem /\ toModem[i] = toModem'[i] BY <1>3, <1>5
  <2>2. /\ ril_state.power_mode = "LPM" /\ ~ Holds(fromModem, {"NORMAL"})
        /\ \A j \in DOMAIN toModem : j < i => toModem[j].what # "NORMAL"
    BY <2>1 DEF OrderIsLate
  <2>3. \A j \in DOMAIN toModem' : j < i => toModem'[j].what # "NORMAL" BY <1>5, <1>7, <2>1, <2>2
  <2> QED BY <1>2, <1>4, <2>2, <2>3 DEF Holds
<1>10. NoStatus' => NoStatus
  <2>1. Added(toModem', toModem, {x}) BY <1>1, <1>2, <1>3, AddedOne
  <2> QED BY <1>2, <2>1, NoStatusBefore
<1>11. ToldOrSeen' BY <1>2, <1>4, <1>10 DEF ToldOrSeen
<1> QED BY <1>8, <1>9, <1>11

(* RADIO_POWER off takes the tokens from what is on its way.               *)
LEMMA KnowsOff ==
  ASSUME TypeOK, SwitchedOff, ~ crossed' PROVE AnswerIsLate' /\ OrderIsLate' /\ ToldOrSeen'
<1> DEFINE x == To("LPM", New)
           queue == Append(toModem, x)
<1>1. /\ ril_state'.power_mode = "LPM" /\ Anonymous(fromModem', fromModem)
      /\ Anonymous(toModem', queue)
      /\ ~ Holds(toModem, {"NORMAL"}) /\ ~ Holds(fromModem, {"NORMAL"})
  BY DEF SwitchedOff, Cleared
<1>2. New \in Token /\ toModem \in Seq(ToModem) /\ fromModem \in Seq(FromModem)
  BY IssueFields DEF SwitchedOff, TypeOK
<1>3. x \in ToModem /\ x.what = "LPM" BY <1>2, ToTyped DEF Orders
<1> HIDE DEF x
<1>4. queue \in Seq(ToModem) /\ Added(queue, toModem, {x})
  BY <1>2, <1>3, AppendPlaces, AddedOne
<1> HIDE DEF queue
<1>5. ~ Holds(queue, {"NORMAL"}) BY <1>1, <1>3, <1>4, AddedHolds
<1>6. SameKinds(fromModem', fromModem) /\ SameKinds(toModem', queue)
  BY <1>1, <1>2, <1>4, AnonymousTo, AnonymousFrom
<1>7. ~ Holds(toModem', {"NORMAL"}) /\ ~ Holds(fromModem', {"NORMAL"})
  BY <1>1, <1>5, <1>6 DEF SameKinds, Holds
<1> QED BY <1>1, <1>7 DEF AnswerIsLate, OrderIsLate, ToldOrSeen, Holds

(* An answer that belongs to no request finds the modem in low power mode; *)
(* every other status is given to rild or announced.                       *)
LEMMA KnowsReceived ==
  ASSUME TypeOK, PowerInv, WaitInv, SimInv, LineOwned, AnswerIsLate, OrderIsLate, ToldOrSeen,
         Received(fromModem[1])
  PROVE  AnswerIsLate' /\ OrderIsLate' /\ ToldOrSeen'
<1> DEFINE m == fromModem[1]
           M == Queries(ril_state) \cup {To("DEVICE_READY", NoToken)}
<1>1. /\ fromModem # <<>> /\ fromModem' = Tail(fromModem) /\ UNCHANGED <<sim, failures>>
      /\ ReceivedPower(m) /\ ReceivedStatus(m) /\ Added(toModem', toModem, M)
  BY DEF Received
<1>2. /\ \A i \in DOMAIN fromModem' :
           i + 1 \in DOMAIN fromModem /\ fromModem'[i] = fromModem[i + 1] /\ i + 1 # 1
      /\ 1 \in DOMAIN fromModem
  BY <1>1, Taken
<1>3. DOMAIN fromModem \subseteq Int /\ DOMAIN fromModem' \subseteq Nat \ {0}
  <2>1. fromModem' \in Seq(FromModem) BY DEF Received, TypeOK
  <2> QED BY <2>1, PlacesInt
<1>4. ASSUME m.what # "NORMAL", ril_state.power_mode = "LPM" PROVE ril_state'.power_mode = "LPM"
  BY <1>1, <1>4 DEF ReceivedPower
<1>5. AnswerIsLate'
  <2> SUFFICES ASSUME NEW i \in DOMAIN fromModem',
                      fromModem'[i].what = "PIN_STATUS", fromModem'[i].token = NoToken
               PROVE  /\ ril_state'.power_mode = "LPM"
                      /\ \A j \in DOMAIN fromModem' : j < i => fromModem'[j].what # "NORMAL"
    BY DEF AnswerIsLate
  <2>1. /\ ril_state.power_mode = "LPM"
        /\ \A j \in DOMAIN fromModem : j < i + 1 => fromModem[j].what # "NORMAL"
    BY <1>2 DEF AnswerIsLate
  <2>2. 1 < i + 1 /\ \A j \in DOMAIN fromModem' : j < i => j + 1 < i + 1 BY <1>3
  <2>3. m.what # "NORMAL" BY <1>2, <2>1, <2>2
  <2>4. \A j \in DOMAIN fromModem' : j < i => fromModem'[j].what # "NORMAL"
    BY <1>2, <2>1, <2>2
  <2> QED BY <1>4, <2>1, <2>3, <2>4
<1>6. OrderIsLate'
  <2> SUFFICES ASSUME NEW i \in DOMAIN toModem',
                      toModem'[i].what = "PIN_STATUS", toModem'[i].token = NoToken
               PROVE  /\ ril_state'.power_mode = "LPM" /\ ~ Holds(fromModem', {"NORMAL"})
                      /\ \A j \in DOMAIN toModem' : j < i => toModem'[j].what # "NORMAL"
    BY DEF OrderIsLate
  <2>1. \A x \in M : x.what \notin {"PIN_STATUS", "NORMAL"} BY QueryFields
  <2> HIDE DEF M
  <2>2. i \in DOMAIN toModem /\ toModem[i] = toModem'[i] BY <1>1, <2>1 DEF Added
  <2>3. /\ ril_state.power_mode = "LPM" /\ ~ Holds(fromModem, {"NORMAL"})
        /\ \A j \in DOMAIN toModem : j < i => toModem[j].what # "NORMAL"
    BY <2>2 DEF OrderIsLate
  <2>4. m.what # "NORMAL" /\ ~ Holds(fromModem', {"NORMAL"}) BY <1>1, <2>3, HeadHolds
  <2>5. \A j \in DOMAIN toModem' : j < i => toModem'[j].what # "NORMAL"
    BY <1>1, <2>1, <2>3 DEF Added
  <2> QED BY <1>4, <2>3, <2>4, <2>5
<1>7. ASSUME failures = 0, ril_state'.power_mode = "NORMAL", NoStatus',
             SimHistory[sim] # "SIM_PB_INIT_COMPLETE"
      PROVE  told' \/ view' = Card(StatusOf[SimHistory[sim]])
  <2>1. /\ ril_state.power_mode = "NORMAL"
        /\ m.what \in Statuses => m.pin = sim
        /\ m.what = "PIN_NOTI" => ril_state.pin_status \in {NoToken, Waiting}
        /\ m.what \notin Statuses => NoStatus
    BY <1>7, ReceivedQuiet
  <2>2. CASE m.what \notin Statuses
    BY <1>1, <1>7, <2>1, <2>2 DEF ReceivedStatus, ToldOrSeen
  <2>3. CASE m.what = "PIN_NOTI" BY <1>1, <2>1, <2>3 DEF ReceivedStatus
  <2>4. CASE m.what = "PIN_STATUS"
    <3>1. m.token # NoToken BY <1>2, <2>1, <2>4 DEF AnswerIsLate
    <3>2. requests[m.token] = "GET_SIM_STATUS"
      BY <1>2, <2>4, <3>1 DEF LineOwned, Of, RequestOf
    <3>3. Known(m.pin) /\ m.pin = sim
      BY <1>7, <2>1, <2>4, HistoryAssumption DEF Known, SimInv, Statuses
    <3> QED BY <1>1, <2>4, <3>1, <3>2, <3>3 DEF ReceivedStatus
  <2> QED BY <2>2, <2>3, <2>4 DEF Statuses
<1>8. ToldOrSeen' BY <1>1, <1>7 DEF ToldOrSeen
<1> QED BY <1>5, <1>6, <1>8

(* The modem answers an order that belongs to no request before it serves  *)
(* the next that switches it on.                                           *)
LEMMA KnowsServed ==
  ASSUME TypeOK, AnswerIsLate, OrderIsLate, ToldOrSeen, Served(toModem[1])
  PROVE  AnswerIsLate' /\ OrderIsLate' /\ ToldOrSeen'
<1> DEFINE m == toModem[1]
<1>1. /\ UNCHANGED <<ril_state, sim, failures, told, view>> /\ m \in ToModem
      /\ toModem # <<>> /\ toModem' = Tail(toModem)
  BY DEF Served
<1>2. Added(fromModem', fromModem, Reply(m)) BY ServedLine
<1>3. /\ \A i \in DOMAIN toModem' :
           i + 1 \in DOMAIN toModem /\ toModem'[i] = toModem[i + 1] /\ i + 1 # 1
      /\ 1 \in DOMAIN toModem
  BY <1>1, Taken
<1>4. DOMAIN fromModem' \subseteq Int /\ DOMAIN toModem' \subseteq Nat \ {0}
  <2>1. fromModem' \in Seq(FromModem) /\ toModem' \in Seq(ToModem) BY DEF Served, TypeOK
  <2> QED BY <2>1
<1>5. \A r \in Reply(m) :
        /\ r.what = "NORMAL" => m.what = "NORMAL"
        /\ r.what = "PIN_STATUS" => m.what = "PIN_STATUS" /\ r.token = m.token
  BY <1>1, ReplyFields
<1>6. OrderIsLate /\ 1 \in DOMAIN toModem => (m.what = "PIN_STATUS" /\ m.token = NoToken =>
        ril_state.power_mode = "LPM" /\ ~ Holds(fromModem, {"NORMAL"}))
  BY DEF OrderIsLate
<1> HIDE DEF m
<1>7. AnswerIsLate'
  <2> SUFFICES ASSUME NEW i \in DOMAIN fromModem',
                      fromModem'[i].what = "PIN_STATUS", fromModem'[i].token = NoToken
               PROVE  /\ ril_state'.power_mode = "LPM"
                      /\ \A j \in DOMAIN fromModem' : j < i => fromModem'[j].what # "NORMAL"
    BY DEF AnswerIsLate
  <2>1. CASE i \in DOMAIN fromModem
    <3>1. fromModem[i] = fromModem'[i] BY <1>2, <2>1 DEF Added
    <3>2. /\ ril_state.power_mode = "LPM"
          /\ \A j \in DOMAIN fromModem : j < i => fromModem[j].what # "NORMAL"
      BY <2>1, <3>1 DEF AnswerIsLate
    <3>3. \A j \in DOMAIN fromModem' \ DOMAIN fromModem : i < j BY <1>2, <2>1 DEF Added
    <3>4. \A j \in DOMAIN fromModem' : j < i => j \in DOMAIN fromModem BY <1>4, <3>3
    <3> QED BY <1>1, <1>2, <3>2, <3>4 DEF Added
  <2>2. CASE i \notin DOMAIN fromModem
    <3>1. m.what = "PIN_STATUS" /\ m.token = NoToken BY <1>2, <1>5, <2>2 DEF Added
    <3>2. ril_state.power_mode = "LPM" /\ ~ Holds(fromModem, {"NORMAL"}) BY <1>3, <1>6, <3>1
    <3>3. \A j \in DOMAIN fromModem' : fromModem'[j].what # "NORMAL"
      BY <1>2, <1>5, <3>1, <3>2 DEF Added, Holds
    <3> QED BY <1>1, <3>2, <3>3
  <2> QED BY <2>1, <2>2
<1>8. OrderIsLate'
  <2> SUFFICES ASSUME NEW i \in DOMAIN toModem',
                      toModem'[i].what = "PIN_STATUS", toModem'[i].token = NoToken
               PROVE  /\ ril_state'.power_mode = "LPM" /\ ~ Holds(fromModem', {"NORMAL"})
                      /\ \A j \in DOMAIN toModem' : j < i => toModem'[j].what # "NORMAL"
    BY DEF OrderIsLate
  <2>1. /\ ril_state.power_mode = "LPM" /\ ~ Holds(fromModem, {"NORMAL"})
        /\ \A j \in DOMAIN toModem : j < i + 1 => toModem[j].what # "NORMAL"
    BY <1>3 DEF OrderIsLate
  <2>2. 1 < i + 1 /\ \A j \in DOMAIN toModem' : j < i => j + 1 < i + 1 BY <1>4
  <2>3. m.what # "NORMAL" BY <1>3, <2>1, <2>2 DEF m
  <2>4. ~ Holds(fromModem', {"NORMAL"}) BY <1>2, <1>5, <2>1, <2>3 DEF Added, Holds
  <2>5. \A j \in DOMAIN toModem' : j < i => toModem'[j].what # "NORMAL" BY <1>3, <2>1, <2>2
  <2> QED BY <1>1, <2>1, <2>4, <2>5
<1>9. NoStatus' => NoStatus BY ServedQuiet
<1>10. ToldOrSeen' BY <1>1, <1>9 DEF ToldOrSeen
<1> QED BY <1>7, <1>8, <1>10

(* Every step keeps KnowsInv.                                              *)
LEMMA KnowsStep ==
  ASSUME TypeOK, PowerInv, WaitInv, SimInv, OwnedInv, KnowsInv, [Next]_vars PROVE KnowsInv'
<1>1. CASE UNCHANGED vars
  BY <1>1 DEF KnowsInv, AnswerIsLate, OrderIsLate, ToldOrSeen, NoStatus, Holds, vars, line, modem, rild
<1>2. ASSUME NEW kind \in Kind \ {"RADIO_POWER_ON", "RADIO_POWER_OFF"}, Requested(kind)
      PROVE  KnowsInv'
  <2>1. crossed' = crossed BY <1>2 DEF Requested
  <2> QED BY <1>2, <2>1, KnowsRequested DEF KnowsInv
<1>3. CASE SwitchedOn
  <2>1. crossed' = crossed BY <1>3 DEF SwitchedOn
  <2> QED BY <1>3, <2>1, KnowsOn DEF KnowsInv
<1>4. CASE SwitchedOff BY <1>4, KnowsOff DEF KnowsInv
<1>5. CASE Received(fromModem[1])
  <2>1. crossed' = crossed BY <1>5 DEF Received
  <2> QED BY <1>5, <2>1, KnowsReceived DEF KnowsInv, OwnedInv
<1>6. CASE Served(toModem[1])
  <2>1. crossed' = crossed BY <1>6 DEF Served
  <2> QED BY <1>6, <2>1, KnowsServed DEF KnowsInv
<1>7. CASE SimChanged
  <2> DEFINE r == From("PIN_NOTI", NoToken, sim + 1)
  <2>1. /\ UNCHANGED <<ril_state, toModem, crossed, failures>>
        /\ fromModem' = Append(fromModem, r)
    BY <1>7 DEF SimChanged
  <2>2. r.what = "PIN_NOTI" BY DEF From
  <2>3. Added(fromModem', fromModem, {r}) BY <1>7, Notices
  <2>4. Holds(fromModem', {"PIN_NOTI"})
    <3>1. r \in FromModem /\ fromModem \in Seq(FromModem) BY <1>7 DEF SimChanged, TypeOK
    <3> HIDE DEF r
    <3>2. Len(fromModem) + 1 \in DOMAIN fromModem' /\ fromModem'[Len(fromModem) + 1] = r
      BY <2>1, <3>1, AppendPlaces
    <3> QED BY <2>2, <3>2 DEF Holds
  <2> HIDE DEF r
  <2>5. ~ NoStatus' BY <2>4 DEF NoStatus, Holds, Statuses
  <2>6. AnswerIsLate => AnswerIsLate' BY <2>1, <2>2, <2>3 DEF AnswerIsLate, Added
  <2>7. OrderIsLate => OrderIsLate' BY <2>1, <2>2, <2>3 DEF OrderIsLate, Added, Holds
  <2> QED BY <2>1, <2>5, <2>6, <2>7 DEF KnowsInv, ToldOrSeen
<1>8. CASE Failed
  <2>1. failures' # 0 BY <1>8 DEF Failed
  <2>2. /\ DOMAIN toModem' = {} /\ \A i \in DOMAIN fromModem' : fromModem'[i].what = "PWR_UP"
    BY <1>8, BootLine
  <2> QED BY <2>1, <2>2 DEF KnowsInv, AnswerIsLate, OrderIsLate, ToldOrSeen
<1> QED BY <1>1, <1>2, <1>3, <1>4, <1>5, <1>6, <1>7, <1>8, Steps

-----------------------------------------------------------------------------
(* Tokens and answers.                                                     *)

(* Requests that were made stay made.                                      *)
Grown == /\ DOMAIN requests \subseteq DOMAIN requests'
         /\ \A t \in DOMAIN requests : requests'[t] = requests[t]

(* A token belongs to a request of this kind after the step.               *)
OfNext(t, kind) == t # NoToken => t \in DOMAIN requests' /\ requests'[t] = kind

(* The two queues after a step.                                            *)
LEMMA OwnedNext ==
  ASSUME \A i \in DOMAIN toModem' : OfNext(toModem'[i].token, RequestOf[toModem'[i].what]),
         \A i \in DOMAIN fromModem' : OfNext(fromModem'[i].token, RequestOf[fromModem'[i].what])
  PROVE  LineOwned'
BY DEF LineOwned, Of, OfNext

(* What a request adds to the line and to the tokens is its own.           *)
LEMMA OwnedRequested ==
  ASSUME TypeOK, OwnedInv, NEW kind \in Kind \ {"RADIO_POWER_ON", "RADIO_POWER_OFF"},
         Requested(kind), Issue(kind)
  PROVE  OwnedInv'
<1>1. Grown /\ New \in DOMAIN requests' /\ requests'[New] = kind BY IssueFields DEF Grown
<1>2. /\ fromModem' = fromModem /\ AskedState(kind)
      /\ toModem' = toModem \/ Added(toModem', toModem, Question(kind))
  BY DEF Requested
<1>3. \A m \in Question(kind) : OfNext(m.token, RequestOf[m.what])
  <2> SUFFICES ASSUME NEW m \in Question(kind) PROVE OfNext(m.token, RequestOf[m.what]) OBVIOUS
  <2>1. CASE kind = "GET_IMEISV"
    BY <1>1, <2>1, QuestionFields DEF OwnedInv, StateOwned, Of, OfNext, Grown, RequestOf
  <2>2. CASE kind # "GET_IMEISV"
    BY <1>1, <2>2, QuestionFields DEF OfNext, RequestOf, Kind
  <2> QED BY <2>1, <2>2
<1>4. LineOwned'
  <2>1. \A i \in DOMAIN fromModem' : OfNext(fromModem'[i].token, RequestOf[fromModem'[i].what])
    BY <1>1, <1>2 DEF OwnedInv, LineOwned, Of, OfNext, Grown
  <2>2. \A i \in DOMAIN toModem : OfNext(toModem[i].token, RequestOf[toModem[i].what])
    BY <1>1 DEF OwnedInv, LineOwned, Of, OfNext, Grown
  <2>3. \A i \in DOMAIN toModem' : OfNext(toModem'[i].token, RequestOf[toModem'[i].what])
    <3>1. CASE toModem' = toModem BY <2>2, <3>1
    <3>2. CASE Added(toModem', toModem, Question(kind)) BY <1>3, <2>2, <3>2 DEF Added
    <3> QED BY <1>2, <3>1, <3>2
  <2> QED BY <2>1, <2>3, OwnedNext
<1>5. StateOwned'
  BY <1>1, <1>2 DEF OwnedInv, StateOwned, Of, Grown, AskedState, NoToken
<1> QED BY <1>4, <1>5 DEF OwnedInv

(* RADIO_POWER on leaves its own token.                                    *)
LEMMA OwnedOn ==
  ASSUME TypeOK, OwnedInv, SwitchedOn PROVE OwnedInv'
<1> DEFINE x == To("NORMAL", New)
<1>1. /\ Grown /\ New \in DOMAIN requests' /\ requests'[New] = "RADIO_POWER_ON"
      /\ New \in Token
  BY IssueFields DEF Grown, SwitchedOn
<1>2. /\ fromModem' = fromModem /\ toModem' = Append(toModem, x)
      /\ ril_state' = [ril_state EXCEPT !.radio_power = New]
      /\ ril_state \in State /\ toModem \in Seq(ToModem)
  BY DEF SwitchedOn, TypeOK
<1>3. x \in ToModem /\ x.what = "NORMAL" /\ x.token = New BY <1>1, ToTyped DEF Orders
<1> HIDE DEF x
<1>4. Added(toModem', toModem, {x}) BY <1>2, <1>3, AddedOne
<1>5. LineOwned'
  <2>1. \A i \in DOMAIN fromModem' : OfNext(fromModem'[i].token, RequestOf[fromModem'[i].what])
    BY <1>1, <1>2 DEF OwnedInv, LineOwned, Of, OfNext, Grown
  <2>2. \A i \in DOMAIN toModem : OfNext(toModem[i].token, RequestOf[toModem[i].what])
    BY <1>1 DEF OwnedInv, LineOwned, Of, OfNext, Grown
  <2>3. OfNext(x.token, RequestOf[x.what]) BY <1>1, <1>3 DEF OfNext, RequestOf
  <2>4. \A i \in DOMAIN toModem' : OfNext(toModem'[i].token, RequestOf[toModem'[i].what])
    BY <1>4, <2>2, <2>3 DEF Added
  <2> QED BY <2>1, <2>4, OwnedNext
<1>6. /\ ril_state'.radio_power = New /\ ril_state'.pin_status = ril_state.pin_status
      /\ ril_state'.get_imei = ril_state.get_imei /\ ril_state'.get_imeisv = ril_state.get_imeisv
      /\ ril_state'.baseband_version = ril_state.baseband_version
  BY <1>2 DEF State
<1>7. StateOwned' BY <1>1, <1>6 DEF OwnedInv, StateOwned, Of, Grown
<1> QED BY <1>5, <1>7 DEF OwnedInv

(* After RADIO_POWER off there are no tokens.                              *)
NoTokens ==
  /\ \A i \in DOMAIN toModem : toModem[i].token = NoToken
  /\ \A i \in DOMAIN fromModem : fromModem[i].token = NoToken
  /\ ril_state = Cleared

(* RADIO_POWER off takes the tokens from both queues and from the state.   *)
LEMMA OffLeavesNone ==
  ASSUME TypeOK, SwitchedOff PROVE NoTokens'
<1> DEFINE x == To("LPM", New)
           queue == Append(toModem, x)
<1>1. /\ ril_state' = Cleared /\ Anonymous(fromModem', fromModem) /\ Anonymous(toModem', queue)
      /\ toModem \in Seq(ToModem) /\ fromModem \in Seq(FromModem) /\ New \in Token
  BY IssueFields DEF SwitchedOff, TypeOK
<1>2. x \in ToModem BY <1>1, ToTyped DEF Orders
<1> HIDE DEF x
<1>3. queue \in Seq(ToModem) BY <1>1, <1>2, AppendPlaces
<1> HIDE DEF queue
<1>4. SameKinds(fromModem', fromModem) /\ SameKinds(toModem', queue)
  BY <1>1, <1>3, AnonymousTo, AnonymousFrom
<1> QED BY <1>1, <1>4 DEF NoTokens, SameKinds

(* The driver asks again under the tokens it has.                          *)
LEMMA OwnedReceived ==
  ASSUME TypeOK, OwnedInv, Received(fromModem[1]) PROVE OwnedInv'
<1> DEFINE m == fromModem[1]
           M == Queries(ril_state) \cup {To("DEVICE_READY", NoToken)}
<1>1. /\ fromModem # <<>> /\ fromModem' = Tail(fromModem) /\ requests' = requests
      /\ Added(toModem', toModem, M) /\ ReceivedTokens(m)
  BY DEF Received
<1>2. \A i \in DOMAIN fromModem' : i + 1 \in DOMAIN fromModem /\ fromModem'[i] = fromModem[i + 1]
  BY <1>1, Taken
<1>3. \A x \in M : Of(x.token, RequestOf[x.what])
  BY QueryFields DEF OwnedInv, StateOwned, Of, RequestOf
<1>4. LineOwned'
  <2>1. \A i \in DOMAIN fromModem' : Of(fromModem'[i].token, RequestOf[fromModem'[i].what])
    BY <1>2 DEF OwnedInv, LineOwned
  <2> HIDE DEF M
  <2>2. \A i \in DOMAIN toModem' : Of(toModem'[i].token, RequestOf[toModem'[i].what])
    BY <1>1, <1>3 DEF OwnedInv, LineOwned, Added
  <2> QED BY <1>1, <2>1, <2>2 DEF LineOwned, Of
<1>5. StateOwned'
  BY <1>1 DEF OwnedInv, StateOwned, Of, ReceivedTokens, NoToken
<1> QED BY <1>4, <1>5 DEF OwnedInv

(* The modem answers under the token it was asked with.                    *)
LEMMA OwnedServed ==
  ASSUME TypeOK, OwnedInv, Served(toModem[1]) PROVE OwnedInv'
<1> DEFINE m == toModem[1]
<1>1. /\ UNCHANGED <<ril_state, requests>> /\ m \in ToModem
      /\ toModem # <<>> /\ toModem' = Tail(toModem)
  BY DEF Served
<1>2. /\ \A i \in DOMAIN toModem' : i + 1 \in DOMAIN toModem /\ toModem'[i] = toModem[i + 1]
      /\ 1 \in DOMAIN toModem
  BY <1>1, Taken
<1>3. Added(fromModem', fromModem, Reply(m)) BY ServedLine
<1>4. Of(m.token, RequestOf[m.what]) BY <1>2 DEF OwnedInv, LineOwned
<1>5. \A r \in Reply(m) : Of(r.token, RequestOf[r.what])
  <2> SUFFICES ASSUME NEW r \in Reply(m) PROVE Of(r.token, RequestOf[r.what]) OBVIOUS
  <2>1. /\ m.what = "NORMAL" => r.token = NoToken
        /\ m.what # "NORMAL" => /\ r.token = m.token
                                /\ r.what = m.what \/ (m.what = "ME_SN" /\ r.what = "ME_SN_TOO_LONG")
    BY <1>1, ReplyFields
  <2> HIDE DEF m
  <2> QED BY <1>4, <2>1 DEF Of, RequestOf
<1> HIDE DEF m
<1>6. LineOwned'
  <2>1. \A i \in DOMAIN fromModem' : Of(fromModem'[i].token, RequestOf[fromModem'[i].what])
    BY <1>3, <1>5 DEF OwnedInv, LineOwned, Added
  <2>2. \A i \in DOMAIN toModem' : Of(toModem'[i].token, RequestOf[toModem'[i].what])
    BY <1>2 DEF OwnedInv, LineOwned
  <2> QED BY <1>1, <2>1, <2>2 DEF LineOwned, Of
<1>7. StateOwned' BY <1>1 DEF OwnedInv, StateOwned, Of
<1> QED BY <1>6, <1>7 DEF OwnedInv

(* Tokens stay with the requests they were given for.                      *)
LEMMA OwnedStep ==
  ASSUME TypeOK, OwnedInv, [Next]_vars PROVE OwnedInv'
<1>1. CASE UNCHANGED vars
  BY <1>1 DEF OwnedInv, LineOwned, StateOwned, Of, vars, line, modem, rild
<1>2. ASSUME NEW kind \in Kind \ {"RADIO_POWER_ON", "RADIO_POWER_OFF"}, Requested(kind)
      PROVE  OwnedInv'
  BY <1>2, OwnedRequested DEF Requested
<1>3. CASE SwitchedOn BY <1>3, OwnedOn
<1>4. CASE SwitchedOff
  <2>1. NoTokens' BY <1>4, OffLeavesNone
  <2> QED BY <2>1 DEF NoTokens, OwnedInv, LineOwned, StateOwned, Of, Cleared, NoToken, Waiting
<1>5. CASE Received(fromModem[1]) BY <1>5, OwnedReceived
<1>6. CASE Served(toModem[1]) BY <1>6, OwnedServed
<1>7. CASE SimChanged
  <2> DEFINE r == From("PIN_NOTI", NoToken, sim + 1)
  <2>1. /\ UNCHANGED <<ril_state, toModem, requests>> /\ r.token = NoToken
    BY <1>7 DEF SimChanged, From
  <2>2. Added(fromModem', fromModem, {r}) BY <1>7, Notices
  <2> HIDE DEF r
  <2>3. Of(r.token, RequestOf[r.what]) BY <2>1 DEF Of
  <2>4. \A i \in DOMAIN fromModem' : Of(fromModem'[i].token, RequestOf[fromModem'[i].what])
    BY <2>2, <2>3 DEF OwnedInv, LineOwned, Added
  <2> QED BY <2>1, <2>4 DEF OwnedInv, LineOwned, StateOwned, Of
<1>8. CASE Failed
  <2>1. UNCHANGED <<ril_state, requests>> BY <1>8 DEF Failed
  <2>2. DOMAIN toModem' = {} /\ \A i \in DOMAIN fromModem' : fromModem'[i].token = NoToken
    BY <1>8, BootLine
  <2> QED BY <2>1, <2>2 DEF OwnedInv, LineOwned, StateOwned, Of
<1> QED BY <1>1, <1>2, <1>3, <1>4, <1>5, <1>6, <1>7, <1>8, Steps

(* The kinds of request that one message each answers.                     *)
OnceKinds == {"GET_SIM_STATUS", "SIGNAL_STRENGTH"}

(* A message of a kind in Once is for a request of one of these kinds.     *)
LEMMA OnceOwned ==
  ASSUME LineOwned
  PROVE  /\ \A i \in DOMAIN toModem : toModem[i].what \in Once /\ toModem[i].token # NoToken =>
              toModem[i].token \in DOMAIN requests /\ requests[toModem[i].token] \in OnceKinds
         /\ \A i \in DOMAIN fromModem : fromModem[i].what \in Once /\ fromModem[i].token # NoToken =>
              fromModem[i].token \in DOMAIN requests /\ requests[fromModem[i].token] \in OnceKinds
BY DEF LineOwned, Of, Once, RequestOf, OnceKinds

(* One answer is at most one.                                              *)
LEMMA LenOne ==
  /\ \A s : s = <<>> => Len(s) <= 1
  /\ \A s, x : s = Append(<<>>, x) => Len(s) <= 1
<1>1. ASSUME NEW s, s = <<>> PROVE Len(s) <= 1
  <2>1. Len(s) = 0 BY <1>1
  <2> QED BY <2>1
<1>2. ASSUME NEW s, NEW x, s = Append(<<>>, x) PROVE Len(s) <= 1
  <2>1. s = <<x>> BY <1>2
  <2>2. Len(s) = 1 BY <2>1
  <2> QED BY <2>2
<1> QED BY <1>1, <1>2

(* A request is answered at once, or asks the modem under a token that     *)
(* nothing on the line has.                                                *)
LEMMA AnswersRequested ==
  ASSUME TypeOK, OwnedInv, AnswersInv, NEW kind \in Kind \ {"RADIO_POWER_ON", "RADIO_POWER_OFF"},
         Requested(kind)
  PROVE  AnswersInv'
<1>1. /\ New \in Token /\ New # NoToken /\ New \notin DOMAIN requests
      /\ DOMAIN requests \subseteq Token /\ DOMAIN requests' = DOMAIN requests \cup {New}
      /\ \A t \in DOMAIN requests : requests'[t] = requests[t]
  BY IssueFields DEF Requested
<1>2. /\ fromModem' = fromModem /\ Only(answers', answers, {New})
      /\ \/ answers'[New] = answers[New]
         \/ \E errno \in Errnos : answers'[New] = Append(answers[New], errno)
      /\ toModem' = toModem \/ (Added(toModem', toModem, Question(kind)) /\ answers' = answers)
      /\ AskedOnce(kind) /\ ril_state'.radio_power = ril_state.radio_power
  BY DEF Requested, AskedAnswers, AskedState
<1>3. answers[New] = <<>> BY <1>1 DEF AnswersInv, NoneBefore
<1>4. \A t \in DOMAIN requests : answers'[t] = answers[t] BY <1>1, <1>2 DEF Only
<1>5. NoneBefore' BY <1>1, <1>2 DEF AnswersInv, NoneBefore, Only
<1>6. PowerUnanswered' BY <1>2, <1>4 DEF AnswersInv, OwnedInv, StateOwned, Of, PowerUnanswered
<1>7. AnsweredAtMostOnce'
  <2> SUFFICES ASSUME NEW t \in DOMAIN requests', requests'[t] \notin Repeatable
               PROVE  Len(answers'[t]) <= 1
    BY DEF AnsweredAtMostOnce
  <2>1. CASE t = New
    <3>1. answers'[t] = <<>> \/ \E errno \in Errnos : answers'[t] = Append(<<>>, errno)
      BY <1>2, <1>3, <2>1
    <3> QED BY <3>1, LenOne
  <2>2. CASE t # New BY <1>1, <1>4, <2>2 DEF AnswersInv, AnsweredAtMostOnce
  <2> QED BY <2>1, <2>2
<1>8. LineOwned /\ OnceInLine BY DEF OwnedInv, AnswersInv
<1>9. OnceInLine'
  <2>1. \A i \in DOMAIN fromModem : fromModem[i].what \in Once /\ fromModem[i].token # NoToken =>
          answers'[fromModem[i].token] = answers[fromModem[i].token] /\ fromModem[i].token # New
    BY <1>1, <1>4, <1>8, OnceOwned
  <2>2. \A i \in DOMAIN toModem : toModem[i].what \in Once /\ toModem[i].token # NoToken =>
          answers'[toModem[i].token] = answers[toModem[i].token] /\ toModem[i].token # New
    BY <1>1, <1>4, <1>8, OnceOwned
  <2>3. CASE toModem' = toModem BY <1>2, <1>8, <2>1, <2>2, <2>3 DEF OnceInLine, Sent
  <2>4. CASE Added(toModem', toModem, Question(kind)) /\ answers' = answers
    <3>1. \A m \in Question(kind) : m.what \in Once => m.token = New /\ kind \in OnceKinds
      BY QuestionFields DEF Once, OnceKinds, Kind
    <3>2. /\ \A i \in DOMAIN toModem : i \in DOMAIN toModem' /\ toModem'[i] = toModem[i]
          /\ \A i \in DOMAIN toModem' \ DOMAIN toModem :
               toModem'[i].what \in Once => toModem'[i].token = New /\ kind \in OnceKinds
      BY <2>4, <3>1 DEF Added
    <3>3. kind \in OnceKinds => \A i, j \in DOMAIN toModem' \ DOMAIN toModem : i = j
      BY <1>2 DEF AskedOnce, OnceKinds
    <3>4. ~ Sent(fromModem, Once, New) BY <1>1, <2>1 DEF Sent
    <3>5. ASSUME NEW i \in DOMAIN toModem', toModem'[i].what \in Once, toModem'[i].token # NoToken
          PROVE  /\ answers[toModem'[i].token] = <<>>
                 /\ \A j \in DOMAIN toModem' :
                      toModem'[j].what \in Once /\ toModem'[j].token = toModem'[i].token => i = j
                 /\ ~ Sent(fromModem, Once, toModem'[i].token)
      <4>1. CASE i \in DOMAIN toModem BY <1>8, <2>2, <3>2, <3>5, <4>1 DEF OnceInLine
      <4>2. CASE i \notin DOMAIN toModem
        <5>1. toModem'[i].token = New BY <3>2, <3>5, <4>2
        <5>2. ASSUME NEW j \in DOMAIN toModem', toModem'[j].what \in Once, toModem'[j].token = New
              PROVE  i = j
          <6>1. j \notin DOMAIN toModem BY <1>1, <2>2, <3>2, <5>2
          <6> QED BY <3>2, <3>3, <3>5, <4>2, <6>1
        <5> QED BY <1>3, <3>4, <5>1, <5>2
      <4> QED BY <4>1, <4>2
    <3> QED BY <1>2, <1>8, <2>4, <3>5 DEF OnceInLine
  <2> QED BY <1>2, <2>3, <2>4
<1> QED BY <1>5, <1>6, <1>7, <1>9 DEF AnswersInv

(* RADIO_POWER on is not answered before the modem is on.                  *)
LEMMA AnswersOn ==
  ASSUME TypeOK, OwnedInv, AnswersInv, SwitchedOn PROVE AnswersInv'
<1> DEFINE x == To("NORMAL", New)
<1>1. /\ New \in Token /\ New \notin DOMAIN requests
      /\ DOMAIN requests' = DOMAIN requests \cup {New}
      /\ \A t \in DOMAIN requests : requests'[t] = requests[t]
  BY IssueFields DEF SwitchedOn
<1>2. /\ fromModem' = fromModem /\ toModem' = Append(toModem, x) /\ answers' = answers
      /\ ril_state' = [ril_state EXCEPT !.radio_power = New]
      /\ ril_state \in State /\ toModem \in Seq(ToModem)
  BY DEF SwitchedOn, TypeOK
<1>3. x \in ToModem /\ x.what = "NORMAL" BY <1>1, ToTyped DEF Orders
<1> HIDE DEF x
<1>4. Added(toModem', toModem, {x}) BY <1>2, <1>3, AddedOne
<1>5. answers[New] = <<>> BY <1>1 DEF AnswersInv, NoneBefore
<1>6. NoneBefore' BY <1>1, <1>2 DEF AnswersInv, NoneBefore
<1>7. PowerUnanswered'
  <2>1. ril_state'.radio_power = New BY <1>2 DEF State
  <2> QED BY <1>2, <1>5, <2>1 DEF PowerUnanswered
<1>8. AnsweredAtMostOnce' BY <1>1, <1>2, <1>5 DEF AnswersInv, AnsweredAtMostOnce
<1>9. OnceInLine'
  <2>1. /\ \A i \in DOMAIN toModem : i \in DOMAIN toModem' /\ toModem'[i] = toModem[i]
        /\ \A i \in DOMAIN toModem' : toModem'[i].what \in Once => i \in DOMAIN toModem
    BY <1>3, <1>4 DEF Added, Once
  <2> QED BY <1>2, <2>1 DEF AnswersInv, OnceInLine, Sent
<1> QED BY <1>6, <1>7, <1>8, <1>9 DEF AnswersInv

(* RADIO_POWER off is answered at once.                                    *)
LEMMA AnswersOff ==
  ASSUME TypeOK, OwnedInv, AnswersInv, SwitchedOff PROVE AnswersInv'
<1>1. /\ New \in Token /\ New \notin DOMAIN requests
      /\ DOMAIN requests' = DOMAIN requests \cup {New}
      /\ \A t \in DOMAIN requests : requests'[t] = requests[t]
  BY IssueFields DEF SwitchedOff
<1>2. /\ answers' = [answers EXCEPT ![New] = Append(@, "SUCCESS")]
      /\ answers \in [Token -> Seq({"SUCCESS", "GENERIC_FAILURE"})]
  BY DEF SwitchedOff, TypeOK
<1>3. NoTokens' BY OffLeavesNone
<1>4. answers[New] = <<>> BY <1>1 DEF AnswersInv, NoneBefore
<1>5. NoneBefore' BY <1>1, <1>2 DEF AnswersInv, NoneBefore
<1>6. PowerUnanswered' BY <1>3 DEF PowerUnanswered, NoTokens, Cleared
<1>7. AnsweredAtMostOnce'
  <2>1. answers'[New] = Append(<<>>, "SUCCESS") BY <1>1, <1>2, <1>4
  <2>2. Len(answers'[New]) <= 1 BY <2>1, LenOne
  <2>3. \A t \in Token : t # New => answers'[t] = answers[t] BY <1>2
  <2>4. \A t \in DOMAIN requests : t \in Token BY IssueFields DEF SwitchedOff
  <2>5. ASSUME NEW t \in DOMAIN requests', requests'[t] \notin Repeatable
        PROVE  Len(answers'[t]) <= 1
    <3>1. CASE t = New BY <2>2, <3>1
    <3>2. CASE t # New BY <1>1, <2>3, <2>4, <2>5, <3>2 DEF AnswersInv, AnsweredAtMostOnce
    <3> QED BY <3>1, <3>2
  <2> QED BY <2>5 DEF AnsweredAtMostOnce
<1>8. OnceInLine' BY <1>3 DEF NoTokens, OnceInLine
<1> QED BY <1>5, <1>6, <1>7, <1>8 DEF AnswersInv

(* Whom a message of the modem answers.                                    *)
LEMMA AnsweredOwned ==
  ASSUME OwnedInv, NEW m \in FromModem, Of(m.token, RequestOf[m.what]),
         NEW t \in AnsweredBy(m), t # NoToken
  PROVE  /\ t \in DOMAIN requests
         /\ \/ requests[t] \in Repeatable
            \/ /\ t = ril_state.radio_power /\ requests[t] = "RADIO_POWER_ON"
               /\ m.what \in Statuses /\ ril_state.power_mode = "NORMAL"
               /\ m.token # ril_state.radio_power
            \/ /\ t = m.token /\ m.what \in Once /\ requests[t] \in OnceKinds
               /\ m.token # ril_state.radio_power
<1>1. CASE t \in {ril_state.get_imei, ril_state.get_imeisv}
  BY <1>1 DEF OwnedInv, StateOwned, Of, Repeatable
<1>2. CASE m.what \in {"PIN_STATUS", "ICON_INFO", "ME_SN", "ME_VERSION"} /\ t = m.token
  BY <1>2 DEF OwnedInv, StateOwned, Of, Repeatable, RequestOf, Once, OnceKinds
<1>3. CASE m.what \in Statuses /\ ril_state.power_mode = "NORMAL" /\ t = ril_state.radio_power
  <2>1. t \in DOMAIN requests /\ requests[t] = "RADIO_POWER_ON"
    BY <1>3 DEF OwnedInv, StateOwned, Of
  <2>2. m.token # t BY <1>3, <2>1 DEF Of, RequestOf, Statuses
  <2> QED BY <1>3, <2>1, <2>2
<1> QED BY <1>1, <1>2, <1>3 DEF AnsweredBy

(* A message answers a request that it is the only one to answer.          *)
LEMMA AnswersReceived ==
  ASSUME TypeOK, OwnedInv, AnswersInv, Received(fromModem[1]) PROVE AnswersInv'
<1> DEFINE m == fromModem[1]
           M == Queries(ril_state) \cup {To("DEVICE_READY", NoToken)}
<1>1. /\ fromModem # <<>> /\ fromModem' = Tail(fromModem) /\ requests' = requests
      /\ m \in FromModem /\ Added(toModem', toModem, M) /\ ReceivedTokens(m)
      /\ ReceivedAnswers(m)
  BY DEF Received
<1>2. /\ \A i \in DOMAIN fromModem' :
           i + 1 \in DOMAIN fromModem /\ fromModem'[i] = fromModem[i + 1] /\ i + 1 # 1
      /\ 1 \in DOMAIN fromModem
  BY <1>1, Taken
<1>3. /\ Of(m.token, RequestOf[m.what])
      /\ m.what \in Once /\ m.token # NoToken =>
           /\ answers[m.token] = <<>>
           /\ \A j \in DOMAIN fromModem :
                fromModem[j].what \in Once /\ fromModem[j].token = m.token => j = 1
           /\ \A i \in DOMAIN toModem : toModem[i].what \in Once => toModem[i].token # m.token
  <2>1. Of(m.token, RequestOf[m.what]) BY <1>2 DEF OwnedInv, LineOwned
  <2>2. OnceInLine BY DEF AnswersInv
  <2> QED BY <1>2, <2>1, <2>2 DEF OnceInLine, Sent
<1>4. \A x \in M : x.what \notin Once BY QueryFields DEF Once
<1>5. \A j \in DOMAIN fromModem' : j + 1 # 1 /\ (\A i \in DOMAIN fromModem' : i + 1 = j + 1 => i = j)
  <2>1. fromModem' \in Seq(FromModem) BY DEF Received, TypeOK
  <2> QED BY <1>2, <2>1
<1> HIDE DEF m, M
<1>6. DOMAIN requests \subseteq Token BY BoundsAssumption DEF TypeOK, Token
<1>7. \A t \in Token : t \notin AnsweredBy(m) => answers'[t] = answers[t]
  BY <1>1 DEF ReceivedAnswers, Only
<1>8. \A t \in AnsweredBy(m) : t # NoToken => t \in DOMAIN requests
  BY <1>1, <1>3, AnsweredOwned
<1>9. NoneBefore'
  <2>1. \A t \in Token : t # NoToken BY DEF Token, NoToken
  <2> QED BY <1>1, <1>7, <1>8, <2>1 DEF AnswersInv, NoneBefore
<1>10. PowerUnanswered'
  <2> DEFINE p == ril_state.radio_power
  <2> SUFFICES ASSUME ril_state'.radio_power # NoToken PROVE answers'[ril_state'.radio_power] = <<>>
    BY DEF PowerUnanswered
  <2>1. ril_state'.radio_power = p /\ ~ (m.what \in Statuses /\ ril_state.power_mode = "NORMAL")
    BY <1>1 DEF ReceivedTokens
  <2>2. p \in DOMAIN requests /\ requests[p] = "RADIO_POWER_ON" /\ answers[p] = <<>>
    BY <2>1 DEF OwnedInv, StateOwned, Of, AnswersInv, PowerUnanswered
  <2> HIDE DEF p
  <2>3. p \notin AnsweredBy(m)
    BY <1>1, <1>3, <2>1, <2>2, AnsweredOwned DEF Repeatable, OnceKinds
  <2> QED BY <1>6, <1>7, <2>1, <2>2, <2>3
<1>11. AnsweredAtMostOnce'
  <2> SUFFICES ASSUME NEW t \in DOMAIN requests, requests[t] \notin Repeatable
               PROVE  Len(answers'[t]) <= 1
    BY <1>1 DEF AnsweredAtMostOnce
  <2>1. Len(answers[t]) <= 1 BY DEF AnswersInv, AnsweredAtMostOnce
  <2>2. t \in Token /\ t # NoToken BY <1>6 DEF Token, NoToken
  <2>3. CASE t \notin AnsweredBy(m) BY <1>7, <2>1, <2>2, <2>3
  <2>4. CASE t \in AnsweredBy(m)
    <3>1. answers[t] = <<>> /\ (answers' = answers \/ answers'[t] = Append(answers[t], "SUCCESS"))
      <4>1. \/ /\ t = ril_state.radio_power /\ m.what \in Statuses
               /\ ril_state.power_mode = "NORMAL" /\ m.token # ril_state.radio_power
            \/ t = m.token /\ m.what \in Once /\ m.token # ril_state.radio_power
        BY <1>1, <1>3, <2>2, <2>4, AnsweredOwned
      <4>2. CASE /\ t = ril_state.radio_power /\ m.what \in Statuses
                 /\ ril_state.power_mode = "NORMAL" /\ m.token # ril_state.radio_power
        BY <1>1, <2>2, <4>2 DEF ReceivedAnswers, OneMore, AnswersInv, PowerUnanswered
      <4>3. CASE t = m.token /\ m.what \in Once /\ m.token # ril_state.radio_power
        BY <1>1, <1>3, <2>2, <4>3 DEF ReceivedAnswers, OneMore
      <4> QED BY <4>1, <4>2, <4>3
    <3>2. answers'[t] = <<>> \/ answers'[t] = Append(<<>>, "SUCCESS") BY <3>1
    <3> QED BY <3>2, LenOne
  <2> QED BY <2>3, <2>4
<1>12. ASSUME NEW t \in DOMAIN requests, requests[t] \in OnceKinds, answers[t] = <<>>,
              m.what \in Once => t # m.token
       PROVE  answers'[t] = <<>>
  <2>1. t \in Token /\ t # NoToken BY <1>6 DEF Token, NoToken
  <2>2. t \notin AnsweredBy(m)
    BY <1>1, <1>3, <1>12, <2>1, AnsweredOwned DEF Repeatable, OnceKinds
  <2> QED BY <1>7, <1>12, <2>1, <2>2
<1>13. OnceInLine'
  <2>1. OnceInLine /\ LineOwned BY DEF AnswersInv, OwnedInv
  <2>2. /\ \A i \in DOMAIN toModem : i \in DOMAIN toModem' /\ toModem'[i] = toModem[i]
        /\ \A i \in DOMAIN toModem' : toModem'[i].what \in Once => i \in DOMAIN toModem
    BY <1>1, <1>4 DEF Added
  <2>3. \A tok : ~ Sent(fromModem, Once, tok) => ~ Sent(fromModem', Once, tok)
    BY <1>2 DEF Sent
  <2>4. ASSUME NEW i \in DOMAIN toModem', toModem'[i].what \in Once, toModem'[i].token # NoToken
        PROVE  /\ answers'[toModem'[i].token] = <<>>
               /\ \A j \in DOMAIN toModem' :
                    toModem'[j].what \in Once /\ toModem'[j].token = toModem'[i].token => i = j
               /\ ~ Sent(fromModem', Once, toModem'[i].token)
    <3>1. i \in DOMAIN toModem /\ toModem[i] = toModem'[i] BY <2>2, <2>4
    <3>2. /\ toModem[i].token \in DOMAIN requests /\ requests[toModem[i].token] \in OnceKinds
          /\ answers[toModem[i].token] = <<>>
          /\ m.what \in Once => toModem[i].token # m.token
      BY <1>3, <2>1, <2>4, <3>1, OnceOwned DEF OnceInLine
    <3>3. answers'[toModem[i].token] = <<>> BY <1>12, <3>2
    <3> QED BY <2>1, <2>2, <2>3, <2>4, <3>1, <3>3 DEF OnceInLine
  <2>5. ASSUME NEW i \in DOMAIN fromModem',
               fromModem'[i].what \in Once, fromModem'[i].token # NoToken
        PROVE  /\ answers'[fromModem'[i].token] = <<>>
               /\ \A j \in DOMAIN fromModem' :
                    fromModem'[j].what \in Once /\ fromModem'[j].token = fromModem'[i].token => i = j
    <3>1. i + 1 \in DOMAIN fromModem /\ fromModem'[i] = fromModem[i + 1] /\ i + 1 # 1 BY <1>2
    <3>2. /\ fromModem'[i].token \in DOMAIN requests /\ requests[fromModem'[i].token] \in OnceKinds
          /\ answers[fromModem'[i].token] = <<>>
          /\ m.what \in Once => fromModem'[i].token # m.token
          /\ \A j \in DOMAIN fromModem :
               fromModem[j].what \in Once /\ fromModem[j].token = fromModem'[i].token => i + 1 = j
      BY <1>3, <2>1, <2>5, <3>1, OnceOwned DEF OnceInLine
    <3>3. answers'[fromModem'[i].token] = <<>> BY <1>12, <3>2
    <3> QED BY <1>2, <1>5, <3>2, <3>3
  <2> QED BY <2>4, <2>5 DEF OnceInLine
<1> QED BY <1>9, <1>10, <1>11, <1>13 DEF AnswersInv

(* One report answers an order.                                            *)
LEMMA OneReply ==
  ASSUME TypeOK, NEW m, Served(m), m.what \in Once
  PROVE  \A i, j \in DOMAIN fromModem' \ DOMAIN fromModem : i = j
<1>1. PICK r \in ReportsOf(m) : fromModem' = Append(fromModem, r) BY DEF Served, Once
<1>2. fromModem \in Seq(FromModem) BY DEF TypeOK
<1>3. DOMAIN fromModem = 1 .. Len(fromModem) /\ Len(fromModem) \in Nat BY <1>2
<1>4. DOMAIN fromModem' = 1 .. Len(fromModem) + 1 BY <1>1, <1>2
<1> QED BY <1>3, <1>4

(* The modem answers an order once.                                        *)
LEMMA AnswersServed ==
  ASSUME TypeOK, OwnedInv, AnswersInv, Served(toModem[1]) PROVE AnswersInv'
<1> DEFINE m == toModem[1]
<1>1. /\ UNCHANGED <<ril_state, requests, answers>> /\ m \in ToModem
      /\ toModem # <<>> /\ toModem' = Tail(toModem)
  BY DEF Served
<1>2. /\ \A i \in DOMAIN toModem' :
           i + 1 \in DOMAIN toModem /\ toModem'[i] = toModem[i + 1] /\ i + 1 # 1
      /\ 1 \in DOMAIN toModem
  BY <1>1, Taken
<1>3. Added(fromModem', fromModem, Reply(m)) BY ServedLine
<1>4. m.what \in Once => \A i, j \in DOMAIN fromModem' \ DOMAIN fromModem : i = j BY OneReply
<1>5. \A r \in Reply(m) : r.what \in Once => m.what \in Once /\ r.token = m.token
  <2> SUFFICES ASSUME NEW r \in Reply(m), r.what \in Once
               PROVE  m.what \in Once /\ r.token = m.token
    OBVIOUS
  <2>1. /\ m.what = "NORMAL" => r.what \in {"NORMAL", "PIN_NOTI", "DEVICE_READY"}
        /\ m.what # "NORMAL" => /\ r.token = m.token
                                /\ r.what = m.what \/ (m.what = "ME_SN" /\ r.what = "ME_SN_TOO_LONG")
    BY <1>1, ReplyFields
  <2> HIDE DEF m
  <2> QED BY <2>1 DEF Once
<1>6. OnceInLine BY DEF AnswersInv
<1>7. m.what \in Once /\ m.token # NoToken =>
        /\ answers[m.token] = <<>> /\ ~ Sent(fromModem, Once, m.token)
        /\ \A j \in DOMAIN toModem :
             toModem[j].what \in Once /\ toModem[j].token = m.token => j = 1
  BY <1>2, <1>6 DEF OnceInLine
<1> HIDE DEF m
<1>8. /\ \A i \in DOMAIN fromModem : fromModem'[i] = fromModem[i]
      /\ \A i \in DOMAIN fromModem' \ DOMAIN fromModem :
           fromModem'[i].what \in Once => m.what \in Once /\ fromModem'[i].token = m.token
  BY <1>3, <1>5 DEF Added
<1>9. ASSUME NEW i \in DOMAIN toModem', toModem'[i].what \in Once, toModem'[i].token # NoToken
      PROVE  /\ answers[toModem'[i].token] = <<>>
             /\ \A j \in DOMAIN toModem' :
                  toModem'[j].what \in Once /\ toModem'[j].token = toModem'[i].token => i = j
             /\ ~ Sent(fromModem', Once, toModem'[i].token)
  <2>1. i + 1 \in DOMAIN toModem /\ toModem'[i] = toModem[i + 1] /\ i + 1 # 1 BY <1>2
  <2>2. /\ answers[toModem'[i].token] = <<>> /\ ~ Sent(fromModem, Once, toModem'[i].token)
        /\ \A j \in DOMAIN toModem :
             toModem[j].what \in Once /\ toModem[j].token = toModem'[i].token => i + 1 = j
    BY <1>6, <1>9, <2>1 DEF OnceInLine
  <2>3. \A j \in DOMAIN toModem' : i + 1 = j + 1 => i = j
    <3>1. toModem' \in Seq(ToModem) BY DEF Served, TypeOK
    <3> QED BY <3>1
  <2>4. m.what \in Once => m.token # toModem'[i].token BY <1>7, <1>9, <2>1
  <2>5. ~ Sent(fromModem', Once, toModem'[i].token) BY <1>8, <2>2, <2>4 DEF Sent
  <2> QED BY <1>2, <2>2, <2>3, <2>5
<1>10. ASSUME NEW i \in DOMAIN fromModem',
              fromModem'[i].what \in Once, fromModem'[i].token # NoToken
       PROVE  /\ answers[fromModem'[i].token] = <<>>
              /\ \A j \in DOMAIN fromModem' :
                   fromModem'[j].what \in Once /\ fromModem'[j].token = fromModem'[i].token => i = j
  <2>1. CASE i \in DOMAIN fromModem
    <3>1. m.what \in Once => m.token # fromModem'[i].token
      BY <1>7, <1>8, <1>10, <2>1 DEF Sent
    <3>2. fromModem'[i] = fromModem[i] BY <1>8, <2>1
    <3>3. /\ answers[fromModem[i].token] = <<>>
          /\ \A j \in DOMAIN fromModem :
               fromModem[j].what \in Once /\ fromModem[j].token = fromModem[i].token => i = j
      BY <1>6, <1>10, <2>1, <3>2 DEF OnceInLine
    <3> QED BY <1>8, <3>1, <3>2, <3>3
  <2>2. CASE i \notin DOMAIN fromModem
    <3>1. m.what \in Once /\ fromModem'[i].token = m.token BY <1>8, <1>10, <2>2
    <3>2. \A j \in DOMAIN fromModem : fromModem[j].what \in Once => fromModem[j].token # m.token
      BY <1>7, <1>10, <3>1 DEF Sent
    <3> QED BY <1>4, <1>7, <1>8, <1>10, <2>2, <3>1, <3>2
  <2> QED BY <2>1, <2>2
<1>11. OnceInLine' BY <1>1, <1>9, <1>10 DEF OnceInLine
<1> QED BY <1>1, <1>11 DEF AnswersInv, NoneBefore, PowerUnanswered, AnsweredAtMostOnce

(* Every step keeps AnswersInv.                                            *)
LEMMA AnswersStep ==
  ASSUME TypeOK, OwnedInv, AnswersInv, [Next]_vars PROVE AnswersInv'
<1>1. CASE UNCHANGED vars
  BY <1>1 DEF AnswersInv, NoneBefore, PowerUnanswered, OnceInLine, Sent, AnsweredAtMostOnce,
              vars, line, modem, rild
<1>2. ASSUME NEW kind \in Kind \ {"RADIO_POWER_ON", "RADIO_POWER_OFF"}, Requested(kind)
      PROVE  AnswersInv'
  BY <1>2, AnswersRequested
<1>3. CASE SwitchedOn BY <1>3, AnswersOn
<1>4. CASE SwitchedOff BY <1>4, AnswersOff
<1>5. CASE Received(fromModem[1]) BY <1>5, AnswersReceived
<1>6. CASE Served(toModem[1]) BY <1>6, AnswersServed
<1>7. CASE SimChanged
  <2> DEFINE r == From("PIN_NOTI", NoToken, sim + 1)
  <2>1. /\ UNCHANGED <<ril_state, toModem, requests, answers>> /\ r.what \notin Once
    BY <1>7 DEF SimChanged, From, Once
  <2>2. Added(fromModem', fromModem, {r}) BY <1>7, Notices
  <2> HIDE DEF r
  <2>3. /\ \A i \in DOMAIN fromModem : fromModem'[i] = fromModem[i]
        /\ \A i \in DOMAIN fromModem' : fromModem'[i].what \in Once => i \in DOMAIN fromModem
    BY <2>1, <2>2 DEF Added
  <2>4. OnceInLine' BY <2>1, <2>3 DEF AnswersInv, OnceInLine, Sent
  <2> QED BY <2>1, <2>4 DEF AnswersInv, NoneBefore, PowerUnanswered, AnsweredAtMostOnce
<1>8. CASE Failed
  <2>1. UNCHANGED <<ril_state, requests, answers>> BY <1>8 DEF Failed
  <2>2. DOMAIN toModem' = {} /\ \A i \in DOMAIN fromModem' : fromModem'[i].what \notin Once
    BY <1>8, BootLine DEF Once
  <2>3. OnceInLine' BY <2>2 DEF OnceInLine
  <2> QED BY <2>1, <2>3 DEF AnswersInv, NoneBefore, PowerUnanswered, AnsweredAtMostOnce
<1> QED BY <1>1, <1>2, <1>3, <1>4, <1>5, <1>6, <1>7, <1>8, Steps

-----------------------------------------------------------------------------
(* The theorems.                                                           *)

(* The invariant holds when the modem boots.                               *)
LEMMA InitHolds == Init => IInv
<1> SUFFICES ASSUME Init PROVE IInv OBVIOUS
<1>1. /\ DOMAIN toModem = {} /\ DOMAIN fromModem = {1} /\ DOMAIN requests = {}
      /\ fromModem[1] = From("PWR_UP", NoToken, 0)
      /\ ril_state = Cleared /\ on = FALSE /\ sim = 1 /\ told = FALSE /\ crossed = FALSE
      /\ view = Card("ABSENT") /\ failures = 0 /\ forgotten = {}
      /\ answers = [t \in Token |-> <<>>]
      /\ toModem = <<>> /\ requests = <<>> /\ fromModem = <<From("PWR_UP", NoToken, 0)>>
  BY DEF Init, Booting
<1>2. /\ fromModem[1].what = "PWR_UP" /\ fromModem[1].token = NoToken BY <1>1 DEF From
<1>3. /\ ril_state.power_mode = "LPM" /\ ril_state.radio_state = "OFF"
      /\ ril_state.radio_power = NoToken /\ ril_state.pin_status = NoToken
      /\ ril_state.get_imei = NoToken /\ ril_state.get_imeisv = NoToken
      /\ ril_state.baseband_version = NoToken
  BY <1>1 DEF Cleared
<1>4. 1 \in 1 .. Len(SimHistory) /\ 1 \in Pin
  <2>1. SimHistory \in Seq(PinType) /\ SimHistory # <<>> BY HistoryAssumption
  <2>2. Len(SimHistory) \in Nat /\ Len(SimHistory) # 0 BY <2>1
  <2> QED BY <2>2 DEF Pin
<1>5. TypeOK
  <2>1. ril_state \in State BY <1>1, ClearedTyped
  <2>2. fromModem \in Seq(FromModem) /\ toModem \in Seq(ToModem)
    <3>1. From("PWR_UP", NoToken, 0) \in FromModem BY PinTyped, FromTyped DEF Reports
    <3> QED BY <1>1, <3>1
  <2>3. requests \in Seq(Kind \cup Requests) /\ Len(requests) <= NRequests
    BY <1>1, BoundsAssumption
  <2>4. answers \in [Token -> Seq({"SUCCESS", "GENERIC_FAILURE"})] BY <1>1
  <2>5. view \in {Card(status) : status \in SIM_Status} BY <1>1, StatusTyped
  <2>6. failures \in 0 .. MaxFailures /\ forgotten \subseteq Token BY <1>1, BoundsAssumption
  <2> QED BY <1>1, <1>4, <2>1, <2>2, <2>3, <2>4, <2>5, <2>6 DEF TypeOK
<1>6. PowerInv BY <1>1, <1>2, <1>3 DEF PowerInv, BootFirst, StatusBehind, ModeIsRadio
<1>7. AgreeInv
  BY <1>1, <1>2, <1>3 DEF AgreeInv, OffIsLast, OnIsKnown, TakenToBeOn, StaysOn, Holds
<1>8. WaitInv
  BY <1>3 DEF WaitInv, PowerAwaited, StatusAwaited, VersionAwaited, SerialAwaited, Token, NoToken
<1>9. SimInv
  BY <1>1, <1>2, <1>3, <1>4 DEF SimInv, LastIsPresent, LastIs, StatusIsKept, Statuses
<1>10. KnowsInv BY <1>1, <1>2, <1>3 DEF KnowsInv, AnswerIsLate, OrderIsLate, ToldOrSeen
<1>11. OwnedInv BY <1>1, <1>2, <1>3 DEF OwnedInv, LineOwned, StateOwned, Of
<1>12. AnswersInv
  BY <1>1, <1>2, <1>3
     DEF AnswersInv, NoneBefore, PowerUnanswered, OnceInLine, AnsweredAtMostOnce, Once
<1> QED BY <1>5, <1>6, <1>7, <1>8, <1>9, <1>10, <1>11, <1>12 DEF IInv

(* Every step keeps the invariant.                                         *)
LEMMA NextKeeps == IInv /\ [Next]_vars => IInv'
BY TypeStep, PowerStep, AgreeStep, WaitStep, SimStep, KnowsStep, OwnedStep, AnswersStep DEF IInv

(* So it always holds.                                                     *)
LEMMA Always == Spec => []IInv
BY InitHolds, NextKeeps, PTL DEF Spec

(* What a queue holds for a token is under way.                            *)
LEMMA LineSent ==
  ASSUME TypeOK, NEW whats, NEW t
  PROVE  Sent(toModem, whats, t) \/ Sent(fromModem, whats, t) => UnderWay(whats, t)
<1>1. toModem \in Seq(ToModem) /\ fromModem \in Seq(FromModem) BY DEF TypeOK
<1> DEFINE ab == toModem \o fromModem
<1>2. InLine = {ab[k] : k \in DOMAIN ab} BY DEF InLine, ToSet
<1>3. Within(toModem, ab) /\ Within(fromModem, ab) BY <1>1, ConcatPlaces
<1> HIDE DEF ab
<1>4. /\ \A i \in DOMAIN toModem : toModem[i] \in InLine
      /\ \A i \in DOMAIN fromModem : fromModem[i] \in InLine
  BY <1>2, <1>3 DEF Within
<1> QED BY <1>4 DEF Sent, UnderWay

(* What waits in the queues is under way.                                  *)
LEMMA UnderwayHolds == TypeOK /\ WaitInv => WaitingIsUnderway
<1> SUFFICES ASSUME TypeOK, WaitInv PROVE WaitingIsUnderway OBVIOUS
<1>1. failures = 0 /\ ril_state.radio_power # NoToken =>
        \E m \in InLine : m.what \in {"NORMAL", "PIN_NOTI"}
  <2>1. Holds(toModem, {"NORMAL"}) \/ Holds(fromModem, {"NORMAL"}) =>
          \E m \in InLine : m.what \in {"NORMAL"}
    BY LineHolds
  <2>2. Holds(fromModem, {"PIN_NOTI"}) => \E m \in InLine : m.what \in {"PIN_NOTI"}
    BY LineHolds
  <2> QED BY <2>1, <2>2 DEF WaitInv, PowerAwaited
<1>2. failures = 0 /\ ril_state.pin_status \in Token =>
        UnderWay({"PIN_STATUS"}, ril_state.pin_status)
  BY LineSent DEF WaitInv, StatusAwaited
<1>3. ril_state.radio_state # "OFF" /\ ril_state.baseband_version # NoToken =>
        UnderWay({"PWR_UP"}, NoToken) \/ UnderWay({"ME_VERSION"}, ril_state.baseband_version)
  BY LineSent DEF WaitInv, VersionAwaited
<1>4. ril_state.radio_state # "OFF" /\ NoToken \notin {ril_state.get_imei, ril_state.get_imeisv} =>
        \/ UnderWay({"PWR_UP"}, NoToken)
        \/ UnderWay({"ME_SN", "ME_SN_TOO_LONG"}, ril_state.get_imei)
        \/ ril_state.get_imei \in forgotten
  <2>1. Sent(toModem, {"ME_SN"}, ril_state.get_imei) =>
          Sent(toModem, {"ME_SN", "ME_SN_TOO_LONG"}, ril_state.get_imei)
    BY DEF Sent
  <2> QED BY <2>1, LineSent DEF WaitInv, SerialAwaited
<1> QED BY <1>1, <1>2, <1>3, <1>4 DEF WaitingIsUnderway

(* Types, and what the tokens that are kept wait for: the driver never     *)
(* keeps the token of RADIO_POWER, GET_SIM_STATUS, BASEBAND_VERSION or of  *)
(* the serial numbers (pwr.c, sec.c, misc.c) for an answer that is not on  *)
(* its way, nor will be once the modem has booted.                         *)
THEOREM TokensAreAwaited == Spec => []RadioInv
<1>1. IInv => RadioInv BY UnderwayHolds DEF IInv, RadioInv
<1> QED BY <1>1, Always, PTL

(* When the line is quiet the radio state ril_state_update and pwr.c leave *)
(* is the modem's, and that of the SIM.                                    *)
THEOREM DriverKnowsRadio == Spec => []RadioAgrees
<1>1. IInv => RadioAgrees
  <2> SUFFICES ASSUME IInv, Quiet, ~ crossed
               PROVE  /\ on <=> ril_state.radio_state # "OFF"
                      /\ on /\ failures = 0 /\ SimHistory[sim] # "SIM_PB_INIT_COMPLETE" =>
                           ril_state.radio_state = RadioState(StatusOf[SimHistory[sim]])
    BY DEF RadioAgrees
  <2>1. DOMAIN toModem = {} /\ DOMAIN fromModem = {} BY DEF Quiet
  <2>2. ril_state.power_mode \in {"LPM", "NORMAL"} BY DEF IInv, TypeOK, State
  <2>3. ril_state.power_mode = "NORMAL" <=> on
    BY <2>1 DEF IInv, AgreeInv, OnIsKnown, TakenToBeOn, StaysOn, Holds
  <2>4. on <=> ril_state.radio_state # "OFF" BY <2>2, <2>3 DEF IInv, PowerInv, ModeIsRadio
  <2>5. NoStatus BY <2>1 DEF NoStatus, Holds
  <2> QED BY <2>3, <2>4, <2>5 DEF IInv, SimInv, StatusIsKept
<1> QED BY <1>1, Always, PTL

(* When the line is quiet rild has the card of the present SIM or was told *)
(* to ask for it: no status is taken over behind its back by               *)
(* ipc_sec_pin_status.                                                     *)
THEOREM RildIsTold == Spec => []RildKnows
<1>1. IInv => RildKnows
  <2> SUFFICES ASSUME IInv, Quiet, ~ crossed, failures = 0, on,
                      SimHistory[sim] # "SIM_PB_INIT_COMPLETE"
               PROVE  told \/ view = Card(StatusOf[SimHistory[sim]])
    BY DEF RildKnows
  <2>1. DOMAIN toModem = {} /\ DOMAIN fromModem = {} BY DEF Quiet
  <2>2. ril_state.power_mode = "NORMAL"
    BY <2>1 DEF IInv, AgreeInv, OnIsKnown, TakenToBeOn, StaysOn, Holds
  <2>3. NoStatus BY <2>1 DEF NoStatus, Holds
  <2> QED BY <2>2, <2>3 DEF IInv, KnowsInv, ToldOrSeen
<1> QED BY <1>1, Always, PTL

(* RADIO_POWER, GET_SIM_STATUS and SIGNAL_STRENGTH are answered once,      *)
(* though a PIN status answers two requests and the tokens are looked at   *)
(* again and again by ril_tokens_check.                                    *)
THEOREM NoneAnsweredTwice == Spec => []AnsweredAtMostOnce
<1>1. IInv => AnsweredAtMostOnce BY DEF IInv, AnswersInv
<1> QED BY <1>1, Always, PTL

=============================================================================
