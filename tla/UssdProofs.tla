----------------------------- MODULE UssdProofs -----------------------------
(***************************************************************************)
(* Theorems about Ussd, for every history of the SIM, any texts and any    *)
(* number of requests, notifications and failures.                         *)
(*                                                                         *)
(* The two lines carry the messages of RadioPower and those of USSD.  Of   *)
(* the former only their kind matters here, so that no theorem depends on  *)
(* what RadioPower keeps in ril_state.                                     *)
(***************************************************************************)
EXTENDS Ussd, RadioPowerProofs, WellFoundedInduction

(* A sequence, whatever it holds.                                          *)
IsLine(s) == \E S : s \in Seq(S)

(* A message of RadioPower to the modem that does not switch it off.       *)
Plain(m) == m.what \in Orders \ {"LPM"} /\ m = To(m.what, m.token)

(* What has been added to a line are such messages.                        *)
Behind(new, old) ==
  /\ IsLine(new) /\ DOMAIN old \subseteq DOMAIN new
  /\ \A i \in DOMAIN old : new[i] = old[i]
  /\ \A i \in DOMAIN new \ DOMAIN old : Plain(new[i])

-----------------------------------------------------------------------------
(* Lemmas about the lines.                                                 *)

(* A sequence stays one over a larger set.                                 *)
LEMMA LineOf ==
  ASSUME NEW s, IsLine(s), NEW m
  PROVE  \E S : s \in Seq(S) /\ m \in S
<1>1. PICK S : s \in Seq(S) BY DEF IsLine
<1>2. s \in Seq(S \cup {m}) BY <1>1
<1> QED BY <1>2

(* Where the places of a line are, and a message added to it.              *)
LEMMA LineAppended ==
  ASSUME NEW s, IsLine(s), NEW m
  PROVE  /\ IsLine(Append(s, m))
         /\ Len(s) \in Nat /\ DOMAIN s = 1 .. Len(s)
         /\ Len(Append(s, m)) = Len(s) + 1
         /\ DOMAIN Append(s, m) = DOMAIN s \cup {Len(s) + 1}
         /\ Len(s) + 1 \notin DOMAIN s
         /\ \A i \in DOMAIN s : Append(s, m)[i] = s[i] /\ i < Len(s) + 1
         /\ Append(s, m)[Len(s) + 1] = m
<1>1. PICK S : s \in Seq(S) /\ m \in S BY LineOf
<1>2. /\ Append(s, m) \in Seq(S)
      /\ DOMAIN Append(s, m) = DOMAIN s \cup {Len(s) + 1}
      /\ Len(s) + 1 \notin DOMAIN s
      /\ \A i \in DOMAIN s : Append(s, m)[i] = s[i] /\ i < Len(s) + 1
      /\ Append(s, m)[Len(s) + 1] = m
  BY <1>1, AppendPlaces
<1>3. Len(s) \in Nat /\ DOMAIN s = 1 .. Len(s) BY <1>1
<1>4. Len(Append(s, m)) = Len(s) + 1 BY <1>1
<1> HIDE DEF Append
<1> QED BY <1>2, <1>3, <1>4 DEF IsLine

(* The first message of a line, and the others.                            *)
LEMMA LineTaken ==
  ASSUME NEW s, IsLine(s), s # <<>>
  PROVE  /\ IsLine(Tail(s))
         /\ 1 \in DOMAIN s /\ Head(s) = s[1]
         /\ \A i \in DOMAIN s : i \in Nat /\ i >= 1
         /\ \A i \in DOMAIN Tail(s) : i \in Nat /\ i + 1 \in DOMAIN s /\ Tail(s)[i] = s[i + 1]
                                        /\ i + 1 > 1
         /\ \A i \in DOMAIN s : i # 1 => i - 1 \in DOMAIN Tail(s) /\ Tail(s)[i - 1] = s[i]
<1>1. PICK S : s \in Seq(S) BY DEF IsLine
<1>2. /\ Tail(s) \in Seq(S)
      /\ 1 \in DOMAIN s /\ Head(s) = s[1]
      /\ \A i \in DOMAIN Tail(s) : i + 1 \in DOMAIN s /\ Tail(s)[i] = s[i + 1] /\ i + 1 > 1
      /\ \A i \in DOMAIN s : i # 1 => i - 1 \in DOMAIN Tail(s) /\ Tail(s)[i - 1] = s[i]
  BY <1>1, TailPlaces
<1>3. DOMAIN s = 1 .. Len(s) /\ Len(s) \in Nat BY <1>1
<1>4. DOMAIN Tail(s) = 1 .. Len(Tail(s)) /\ Len(Tail(s)) \in Nat BY <1>2
<1> HIDE DEF Tail
<1> QED BY <1>2, <1>3, <1>4 DEF IsLine

(* Of some places of a line one is the last.                               *)
LEMMA LastPlace ==
  ASSUME NEW s, IsLine(s), NEW S, S \subseteq DOMAIN s, S # {}
  PROVE  \E k \in S : \A j \in S : j <= k
<1> DEFINE R == {ss \in Nat \X Nat : ss[1] < ss[2]}
           T == {Len(s) - x : x \in S}
<1>1. IsWellFoundedOn(R, Nat) BY NatLessThanWellFounded DEF OpToRel
<1>2. Len(s) \in Nat /\ DOMAIN s = 1 .. Len(s) BY LineAppended
<1>3. \A x \in S : x \in Nat /\ Len(s) - x \in Nat BY <1>2
<1>4. T \subseteq Nat /\ T # {} BY <1>3
<1>5. \E d \in T : \A e \in T : <<e, d>> \notin R
  <2> HIDE DEF R, T
  <2> QED BY <1>1, <1>4, WFMin
<1>6. PICK x \in S : \A e \in T : <<e, Len(s) - x>> \notin R BY <1>5
<1>7. ASSUME NEW y \in S PROVE y <= x
  <2>1. Len(s) - y \in T BY DEF T
  <2>2. ~ (Len(s) - y < Len(s) - x) BY <1>3, <1>6, <2>1
  <2>3. Len(s) \in Nat /\ x \in Nat /\ y \in Nat BY <1>2, <1>3
  <2> QED BY <2>2, <2>3
<1> QED BY <1>7

(* Three messages added at once are added one by one.                      *)
LEMMA LineJoined ==
  ASSUME NEW s, IsLine(s), NEW a, NEW b, NEW c
  PROVE  s \o <<a, b, c>> = Append(Append(Append(s, a), b), c)
<1>1. PICK S : s \in Seq(S) BY DEF IsLine
<1>2. s \in Seq(S \cup {a, b, c}) BY <1>1
<1> QED BY <1>2

(* Nothing, or one plain message, has been added.                          *)
LEMMA BehindNothing == ASSUME NEW s, IsLine(s) PROVE Behind(s, s)
BY DEF Behind

(* A message at the end of the line is behind what was there.              *)
LEMMA BehindOne == ASSUME NEW s, IsLine(s), NEW m, Plain(m) PROVE Behind(Append(s, m), s)
<1> HIDE DEF Append, Plain
<1> QED BY LineAppended DEF Behind

(* What is behind a line that is behind another is behind that one.        *)
LEMMA BehindTwice ==
  ASSUME NEW a, NEW b, NEW c, Behind(b, a), Behind(c, b) PROVE Behind(c, a)
<1> HIDE DEF Plain, IsLine
<1> QED BY DEF Behind

(* A message of RadioPower from the modem; only such ones have been added. *)
RadioReport(m) == m.what \in Reports /\ m = From(m.what, m.token, m.pin)

(* Only such messages have been added to the line from the modem.          *)
Further(new, old) ==
  /\ IsLine(new) /\ DOMAIN old \subseteq DOMAIN new
  /\ \A i \in DOMAIN old : new[i] = old[i]
  /\ \A i \in DOMAIN new \ DOMAIN old : RadioReport(new[i])

(* A line that did not change.                                             *)
LEMMA FurtherNothing == ASSUME NEW s, IsLine(s) PROVE Further(s, s)
BY DEF Further

(* A report of the radio at the end of a line.                             *)
LEMMA FurtherOne ==
  ASSUME NEW s, IsLine(s), NEW m, RadioReport(m) PROVE Further(Append(s, m), s)
<1> HIDE DEF Append, RadioReport
<1> QED BY LineAppended DEF Further

(* Reports of the radio after reports of the radio.                        *)
LEMMA FurtherTwice ==
  ASSUME NEW a, NEW b, NEW c, Further(b, a), Further(c, b) PROVE Further(c, a)
<1> HIDE DEF RadioReport, IsLine
<1> QED BY DEF Further

-----------------------------------------------------------------------------
(* What the handlers of RadioPower do to the line to the modem.            *)

(* A state with what a handler has done so far.                            *)
IsEffect(e) ==
  /\ e = [st |-> e.st, toModem |-> e.toModem, answers |-> e.answers, view |-> e.view,
          news |-> e.news]
  /\ IsLine(e.toModem)

(* From the effect e a handler came to the effect f, and sent orders of    *)
(* the radio only, none of which turns it off.                             *)
Adds(f, e) == IsEffect(f) /\ Behind(f.toModem, e.toModem)

(* Two steps of a handler that each add orders of the radio add orders of  *)
(* the radio.                                                              *)
LEMMA AddsTwice ==
  ASSUME NEW e, NEW f, NEW g, Adds(f, e), Adds(g, f) PROVE Adds(g, e)
<1> HIDE DEF Behind, IsEffect
<1> QED BY BehindTwice DEF Adds

(* A step of a handler that sends nothing.                                 *)
LEMMA AddsNothing ==
  ASSUME NEW e, NEW f, IsEffect(e), f.toModem = e.toModem,
         f = [st |-> f.st, toModem |-> f.toModem, answers |-> f.answers, view |-> f.view,
              news |-> f.news]
  PROVE  Adds(f, e)
<1> HIDE DEF IsLine
<1> QED BY BehindNothing DEF Adds, IsEffect

(* The state of the driver is written, or a request is answered.           *)
LEMMA AddsState ==
  ASSUME NEW e, IsEffect(e), NEW st
  PROVE  Adds([e EXCEPT !.st = st], e)
<1> DEFINE f == [e EXCEPT !.st = st]
<1>1. /\ f.toModem = e.toModem
      /\ f = [st |-> f.st, toModem |-> f.toModem, answers |-> f.answers, view |-> f.view,
              news |-> f.news]
  BY DEF IsEffect
<1> QED BY <1>1, AddsNothing

(* An answer to rild sends nothing to the modem.                           *)
LEMMA AddsAnswer ==
  ASSUME NEW e, IsEffect(e), NEW t, NEW errno
  PROVE  Adds(Completing(e, t, errno), e)
<1> DEFINE f == Completing(e, t, errno)
<1>1. /\ f.toModem = e.toModem
      /\ f = [st |-> f.st, toModem |-> f.toModem, answers |-> f.answers, view |-> f.view,
              news |-> f.news]
  BY DEF IsEffect, Completing
<1> HIDE DEF f
<1>2. Adds(f, e) BY <1>1, AddsNothing
<1> QED BY <1>2 DEF f

(* Sending puts the message at the end of the line to the modem.           *)
LEMMA SendingEffect ==
  ASSUME NEW e, IsEffect(e), NEW m
  PROVE  IsEffect(Sending(e, m)) /\ Sending(e, m).toModem = Append(e.toModem, m)
<1> DEFINE f == Sending(e, m)
<1>1. IsLine(e.toModem) BY DEF IsEffect
<1>2. /\ f.toModem = Append(e.toModem, m)
      /\ f = [st |-> f.st, toModem |-> f.toModem, answers |-> f.answers, view |-> f.view,
              news |-> f.news]
  BY DEF IsEffect, Sending
<1> HIDE DEF f, IsLine, Append
<1>3. IsLine(f.toModem) BY <1>1, <1>2, LineAppended
<1>4. IsEffect(f) BY <1>2, <1>3 DEF IsEffect
<1> QED BY <1>2, <1>4 DEF f

(* An order that does not turn the radio off is an order of the radio.     *)
LEMMA AddsMessage ==
  ASSUME NEW e, IsEffect(e), NEW what \in Orders \ {"LPM"}, NEW t
  PROVE  Adds(Sending(e, To(what, t)), e)
<1>1. Plain(To(what, t)) BY DEF Plain, To
<1>2. IsLine(e.toModem) BY DEF IsEffect
<1> HIDE DEF IsEffect, Sending, To, Plain, Append, IsLine
<1>3. Behind(Append(e.toModem, To(what, t)), e.toModem) BY <1>1, <1>2, BehindOne
<1> QED BY <1>3, SendingEffect DEF Adds

(* Both: the state is written after that.                                  *)
LEMMA AddsThenState ==
  ASSUME NEW e, NEW f, Adds(f, e), NEW st
  PROVE  Adds([f EXCEPT !.st = st], e)
<1>1. IsEffect(f) BY DEF Adds
<1> HIDE DEF IsEffect, Adds
<1> QED BY <1>1, AddsState, AddsTwice

(* Setting what rild knows of the card, after such a step.                 *)
LEMMA AddsThenView ==
  ASSUME NEW e, NEW f, Adds(f, e), NEW shown
  PROVE  Adds([f EXCEPT !.view = shown], e)
<1> DEFINE g == [f EXCEPT !.view = shown]
<1>1. IsEffect(f) BY DEF Adds
<1>2. /\ g.toModem = f.toModem
      /\ g = [st |-> g.st, toModem |-> g.toModem, answers |-> g.answers, view |-> g.view,
              news |-> g.news]
  BY <1>1 DEF IsEffect
<1> HIDE DEF IsEffect, Adds, g
<1>3. Adds(g, e) BY <1>1, <1>2, AddsNothing, AddsTwice
<1> QED BY <1>3 DEF g

(* Telling rild of an event, after such a step.                            *)
LEMMA AddsThenNews ==
  ASSUME NEW e, NEW f, Adds(f, e), NEW events
  PROVE  Adds([f EXCEPT !.news = events], e)
<1> DEFINE g == [f EXCEPT !.news = events]
<1>1. IsEffect(f) BY DEF Adds
<1>2. /\ g.toModem = f.toModem
      /\ g = [st |-> g.st, toModem |-> g.toModem, answers |-> g.answers, view |-> g.view,
              news |-> g.news]
  BY <1>1 DEF IsEffect
<1> HIDE DEF IsEffect, Adds, g
<1>3. Adds(g, e) BY <1>1, <1>2, AddsNothing, AddsTwice
<1> QED BY <1>3 DEF g

(* An answer, after such a step.                                           *)
LEMMA AddsThenAnswer ==
  ASSUME NEW e, NEW f, Adds(f, e), NEW t, NEW errno
  PROVE  Adds(Completing(f, t, errno), e)
<1>1. IsEffect(f) BY DEF Adds
<1> HIDE DEF IsEffect, Adds, Completing
<1> QED BY <1>1, AddsAnswer, AddsTwice

(* One more order, after such a step.                                      *)
LEMMA AddsThenMessage ==
  ASSUME NEW e, NEW f, Adds(f, e), NEW what \in Orders \ {"LPM"}, NEW t
  PROVE  Adds(Sending(f, To(what, t)), e)
<1>1. IsEffect(f) BY DEF Adds
<1>2. Adds(Sending(f, To(what, t)), f) BY <1>1, AddsMessage
<1> HIDE DEF IsEffect, Adds, Sending, To
<1> QED BY <1>2, AddsTwice

(* A handler starts from the state.                                        *)
LEMMA StartEffect == IsLine(toModem) => IsEffect(Start)
<1> HIDE DEF IsLine
<1> QED BY DEF IsEffect, Start

(* misc.c                                                                  *)
LEMMA VersionAdds ==
  ASSUME NEW e, IsEffect(e), NEW t
  PROVE  /\ Adds(ril_request_baseband_version(e, t), e)
         /\ Adds(ipc_misc_me_version(e, t), e)
<1> DEFINE kept == [e EXCEPT !.st.baseband_version = t]
<1>1. Adds(kept, e) BY AddsState
<1>2. Adds(Completing(e, t, "GENERIC_FAILURE"), e) BY AddsAnswer
<1>3. Adds(Sending(kept, To("ME_VERSION", t)), e) BY <1>1, AddsThenMessage DEF Orders
<1>4. Adds(Completing(e, t, "SUCCESS"), e) BY AddsAnswer
<1> HIDE DEF Adds, IsEffect, kept, Completing, Sending, To
<1>5. ril_request_baseband_version(e, t) \in
        {Completing(e, t, "GENERIC_FAILURE"), kept, Sending(kept, To("ME_VERSION", t))}
  BY DEF ril_request_baseband_version, kept
<1>6. Adds(ipc_misc_me_version(e, t), e)
  BY <1>4, AddsThenState DEF ipc_misc_me_version
<1> QED BY <1>1, <1>2, <1>3, <1>5, <1>6

(* Asking the modem for the serial number.                                 *)
LEMMA SerialAdds ==
  ASSUME NEW e, NEW f, Adds(f, e)
  PROVE  Adds(ril_request_get_imei_send(f), e)
<1>1. Adds(Sending(f, To("ME_SN", f.st.get_imei)), e) BY AddsThenMessage DEF Orders
<1> HIDE DEF Adds, Sending, To
<1> QED BY <1>1 DEF ril_request_get_imei_send

(* The requests for the IMEI, and the modem's answer with it.              *)
LEMMA ImeiAdds ==
  ASSUME NEW e, IsEffect(e), NEW t
  PROVE  /\ Adds(ril_request_get_imei(e, t), e)
         /\ Adds(ril_request_get_imeisv(e, t), e)
         /\ Adds(ipc_misc_me_sn_imei(e, t), e)
<1>1. Adds(Completing(e, t, "GENERIC_FAILURE"), e) /\ Adds(Completing(e, t, "SUCCESS"), e)
  BY AddsAnswer
<1>2. Adds([e EXCEPT !.st.get_imei = t], e) BY AddsState
<1>3. Adds([e EXCEPT !.st.get_imeisv = t], e) BY AddsState
<1>4. Adds(e, e)
  <2>1. e.toModem = e.toModem OBVIOUS
  <2> QED BY AddsNothing DEF IsEffect
<1> HIDE DEF Adds, IsEffect, Completing
<1>5. Adds(ril_request_get_imei(e, t), e)
  <2>1. Adds(ril_request_get_imei_send([e EXCEPT !.st.get_imei = t]), e) BY <1>2, SerialAdds
  <2> QED BY <1>1, <2>1 DEF ril_request_get_imei
<1>6. Adds(ril_request_get_imeisv(e, t), e)
  <2>1. Adds(ril_request_get_imei_send([e EXCEPT !.st.get_imeisv = t]), e)
    BY <1>3, SerialAdds
  <2> QED BY <1>1, <2>1 DEF ril_request_get_imeisv
<1>7. Adds(ipc_misc_me_sn_imei(e, t), e)
  <2> DEFINE own  == IF t # e.st.get_imei THEN Completing(e, t, "SUCCESS") ELSE e
             one  == Completing(own, e.st.get_imei, "SUCCESS")
             both == Completing(one, e.st.get_imeisv, "SUCCESS")
             left == [both EXCEPT !.st.get_imei = NoToken]
  <2>1. Adds(own, e) BY <1>1, <1>4
  <2> HIDE DEF own
  <2>2. Adds(one, e) BY <2>1, AddsThenAnswer
  <2> HIDE DEF one
  <2>3. Adds(both, e) BY <2>2, AddsThenAnswer
  <2> HIDE DEF both
  <2>4. Adds(left, e) BY <2>3, AddsThenState
  <2> HIDE DEF left
  <2>5. Adds([left EXCEPT !.st.get_imeisv = NoToken], e) BY <2>4, AddsThenState
  <2>6. [both EXCEPT !.st.get_imei = NoToken, !.st.get_imeisv = NoToken]
          = [left EXCEPT !.st.get_imeisv = NoToken]
    BY DEF left
  <2> QED BY <2>5, <2>6 DEF ipc_misc_me_sn_imei, both, one, own
<1> QED BY <1>5, <1>6, <1>7

(* samsung-ril.c, sec.c                                                    *)
LEMMA TokensAdds ==
  ASSUME NEW e, IsEffect(e)
  PROVE  Adds(ril_tokens_check(e), e)
<1> DEFINE st == e.st
           cleared == [e EXCEPT !.st.baseband_version = NoToken]
           v == IF st.baseband_version = NoToken \/ Off(e) THEN e
                ELSE ril_request_baseband_version(cleared, st.baseband_version)
           w == [v EXCEPT !.st.get_imei = NoToken]
<1>1. Adds(e, e)
  <2>1. e.toModem = e.toModem OBVIOUS
  <2> QED BY <2>1, AddsNothing DEF IsEffect
<1>2. Adds(cleared, e) BY AddsState
<1> HIDE DEF Adds, IsEffect, cleared
<1>3. IsEffect(cleared) BY <1>2 DEF Adds
<1>4. Adds(ril_request_baseband_version(cleared, st.baseband_version), cleared)
  BY <1>3, VersionAdds
<1>5. Adds(ril_request_baseband_version(cleared, st.baseband_version), e)
  BY <1>2, <1>4, AddsTwice
<1>6. Adds(v, e) BY <1>1, <1>5
<1> HIDE DEF v
<1>7. Adds(w, e) BY <1>6, AddsThenState
<1> HIDE DEF w
<1>8. IsEffect(w) BY <1>7 DEF Adds
<1>9. Adds(ril_request_get_imei(w, st.get_imei), w) BY <1>8, ImeiAdds
<1>10. Adds(ril_request_get_imei(w, st.get_imei), e) BY <1>7, <1>9, AddsTwice
<1> QED BY <1>6, <1>10 DEF ril_tokens_check, v, w, cleared

(* ril_tokens_check asks for the serial number, or for nothing.            *)
LEMMA TokensThenAdds ==
  ASSUME NEW e, NEW f, Adds(f, e) PROVE Adds(ril_tokens_check(f), e)
<1>1. IsEffect(f) BY DEF Adds
<1>2. Adds(ril_tokens_check(f), f) BY <1>1, TokensAdds
<1> HIDE DEF Adds, IsEffect
<1> QED BY <1>2, AddsTwice

(* A new status of the card, and the storing of one.                       *)
LEMMA StatusAdds ==
  ASSUME NEW e, NEW f, Adds(f, e), NEW status, NEW pin
  PROVE  /\ Adds(ril_state_update(f, status), e)
         /\ Adds(Stored(f, pin), e)
<1> DEFINE g(s) == [f EXCEPT !.st.sim_status = s, !.st.radio_state = RadioState(s)]
<1>1. ASSUME NEW s PROVE Adds(ril_state_update(f, s), e)
  <2> DEFINE h == [f EXCEPT !.st.sim_status = s]
  <2>1. Adds(h, e) BY AddsThenState
  <2> HIDE DEF h
  <2>2. Adds([h EXCEPT !.st.radio_state = RadioState(s)], e) BY <2>1, AddsThenState
  <2>3. g(s) = [h EXCEPT !.st.radio_state = RadioState(s)] BY DEF h
  <2>4. Adds(g(s), e) BY <2>2, <2>3
  <2> HIDE DEF g
  <2>5. Adds(ril_tokens_check(g(s)), e) BY <2>4, TokensThenAdds
  <2> HIDE DEF Adds
  <2> QED BY <2>5 DEF ril_state_update, g
<1> HIDE DEF Adds
<1>2. Adds(ril_state_update(f, ipc2ril_sim_status(f.st, pin)), e) BY <1>1
<1>3. Adds(Stored(f, pin), e) BY <1>2, AddsThenState DEF Stored
<1> QED BY <1>1, <1>3

(* The modem's answer to a power request completes it.                     *)
LEMMA PowerAdds ==
  ASSUME NEW e, IsEffect(e) PROVE Adds(PowerAnswered(e), e)
<1>1. Adds(e, e)
  <2>1. e.toModem = e.toModem OBVIOUS
  <2> QED BY <2>1, AddsNothing DEF IsEffect
<1>2. Adds(Completing(e, e.st.radio_power, "SUCCESS"), e) BY AddsAnswer
<1> HIDE DEF Adds, Completing
<1>3. Adds([Completing(e, e.st.radio_power, "SUCCESS") EXCEPT !.st.radio_power = NoToken], e)
  BY <1>2, AddsThenState
<1> QED BY <1>1, <1>3 DEF PowerAnswered

(* The notification of the PIN's state and the response with it: each is   *)
(* stored and answers those that waited.                                   *)
LEMMA PinAdds ==
  ASSUME NEW e, NEW f, Adds(f, e), NEW t, NEW pin
  PROVE  /\ Adds(PinNoti(f, pin), e)
         /\ Adds(PinResp(f, t, pin), e)
<1> HIDE DEF Adds, Completing
<1>1. Adds(Stored(f, pin), e) BY StatusAdds
<1>2. Adds(PinNoti(f, pin), e)
  <2> DEFINE g == [Stored(f, pin) EXCEPT !.st.pin_status = Waiting]
  <2>1. Adds(g, e) BY <1>1, AddsThenState
  <2> HIDE DEF g
  <2>2. Adds([g EXCEPT !.news = TRUE], e) BY <2>1, AddsThenNews
  <2>3. [Stored(f, pin) EXCEPT !.st.pin_status = Waiting, !.news = TRUE]
          = [g EXCEPT !.news = TRUE]
    BY DEF g
  <2> QED BY <2>2, <2>3 DEF PinNoti
<1>3. Adds(PinResp(f, t, pin), e)
  <2> DEFINE kept == Stored(f, pin)
             card == [kept EXCEPT !.view = ipc2ril_card_status(kept.st, pin)]
             seen == IF t # NoToken /\ requests[t] = "GET_SIM_STATUS" THEN card ELSE kept
             done == Completing(seen, t, "SUCCESS")
  <2>1. Adds(card, e) BY <1>1, AddsThenView
  <2> HIDE DEF card
  <2>2. Adds(seen, e) BY <1>1, <2>1
  <2> HIDE DEF seen, kept
  <2>3. Adds(done, e) BY <2>2, AddsThenAnswer
  <2> HIDE DEF done
  <2>4. Adds([done EXCEPT !.st.pin_status = IF @ = Waiting THEN @ ELSE NoToken], e)
    BY <2>3, AddsThenState
  <2> QED BY <2>4 DEF PinResp, done, seen, card, kept
<1> QED BY <1>2, <1>3

(* GET_SIM_STATUS answers, or asks the modem for the state of the PIN.     *)
LEMMA SimStatusAdds ==
  ASSUME NEW e, IsEffect(e), NEW t
  PROVE  Adds(ril_request_get_sim_status(e, t), e)
<1> DEFINE card == ipc2ril_card_status(e.st, e.st.sim_pin_status)
           given == [Completing(e, t, "SUCCESS") EXCEPT !.view = card]
           asking == [e EXCEPT !.st.pin_status = t]
<1>1. Adds(Completing(e, t, "SUCCESS"), e) BY AddsAnswer
<1>2. Adds(given, e) BY <1>1, AddsThenView
<1>3. Adds(asking, e) BY AddsState
<1> HIDE DEF Adds, given, asking
<1>4. Adds([given EXCEPT !.st.pin_status = NoToken], e) BY <1>2, AddsThenState
<1>5. Adds(Sending(asking, To("PIN_STATUS", t)), e) BY <1>3, AddsThenMessage DEF Orders
<1> QED BY <1>2, <1>4, <1>5 DEF ril_request_get_sim_status, given, asking

(* disp.c, sms.c, pwr.c                                                    *)
LEMMA OthersAdd ==
  ASSUME NEW e, IsEffect(e), NEW t, NEW state
  PROVE  /\ Adds(ril_request_signal_strength(e, t), e)
         /\ Adds(ipc_disp_icon_info(e, t), e)
         /\ Adds(ipc_sms_device_ready(e), e)
         /\ Adds(ipc_pwr_phone_pwr_up(e), e)
         /\ Adds(ipc_pwr_phone_state(e, state), e)
         /\ Adds(RequestNormal(e, t), e)
<1>1. Adds(e, e)
  <2>1. e.toModem = e.toModem OBVIOUS
  <2> QED BY <2>1, AddsNothing DEF IsEffect
<1>2. /\ Adds(Sending(e, To("ICON_INFO", t)), e)
      /\ Adds(Sending(e, To("DEVICE_READY", NoToken)), e)
      /\ Adds(Sending(e, To("NORMAL", t)), e)
  BY AddsMessage DEF Orders
<1>3. Adds(Completing(e, t, "SUCCESS"), e) BY AddsAnswer
<1> HIDE DEF Adds, IsEffect, Completing, Sending, To
<1>4. Adds(ipc_sms_device_ready(e), e)
  <2> DEFINE f == IF e.st.radio_state = "ON" THEN Sending(e, To("DEVICE_READY", NoToken)) ELSE e
  <2>1. Adds(f, e) BY <1>1, <1>2
  <2> HIDE DEF f
  <2>2. Adds(ril_tokens_check(f), e) BY <2>1, TokensThenAdds
  <2> QED BY <2>2 DEF ipc_sms_device_ready, f
<1>5. Adds(ipc_pwr_phone_pwr_up(e), e)
  <2> DEFINE g == [e EXCEPT !.st.radio_state = "OFF"]
  <2>1. Adds(g, e) BY AddsState
  <2> HIDE DEF g
  <2>2. Adds([g EXCEPT !.st.power_mode = "LPM"], e) BY <2>1, AddsThenState
  <2> QED BY <2>2 DEF ipc_pwr_phone_pwr_up, g
<1>6. Adds(ipc_pwr_phone_state(e, state), e)
  <2> DEFINE radio == IF state = "LPM" THEN "OFF" ELSE "SIM_NOT_READY"
             moded == [e EXCEPT !.st.power_mode = state]
             g == [moded EXCEPT !.st.radio_state = radio]
  <2> HIDE DEF radio
  <2>1. Adds(moded, e) BY AddsState
  <2> HIDE DEF moded
  <2>2. Adds(g, e) BY <2>1, AddsThenState
  <2> HIDE DEF g
  <2>3. Adds(ril_tokens_check(g), e) BY <2>2, TokensThenAdds
  <2>4. [e EXCEPT !.st.power_mode = state, !.st.radio_state = radio] = g BY DEF g, moded
  <2>5. ipc_pwr_phone_state(e, state) = ril_tokens_check(g)
    BY <2>4 DEF ipc_pwr_phone_state, radio
  <2> QED BY <2>3, <2>5
<1>7. Adds(RequestNormal(e, t), e) BY <1>2, AddsThenState DEF RequestNormal
<1> QED BY <1>2, <1>1, <1>3, <1>4, <1>5, <1>6, <1>7
        DEF ril_request_signal_strength, ipc_disp_icon_info

-----------------------------------------------------------------------------
(* The steps, by what they do to the lines.                                *)

(* Every request of RadioPower but the switching on and off only sends     *)
(* questions; so do the handlers of messages.                              *)
LEMMA HandledAdds ==
  ASSUME IsLine(toModem), NEW kind \in Kind \ {"RADIO_POWER_ON", "RADIO_POWER_OFF"}
  PROVE  Adds(Handled(kind), Start)
<1>1. IsEffect(Start) BY StartEffect
<1>2. /\ Adds(ril_request_get_sim_status(Start, New), Start)
      /\ Adds(ril_request_baseband_version(Start, New), Start)
      /\ Adds(ril_request_get_imei(Start, New), Start)
      /\ Adds(ril_request_get_imeisv(Start, New), Start)
      /\ Adds(ril_request_signal_strength(Start, New), Start)
  <2> HIDE DEF Adds, IsEffect, Start, New
  <2> QED BY <1>1, SimStatusAdds, VersionAdds, ImeiAdds, OthersAdd
<1> HIDE DEF Adds, IsEffect, Start, New
<1>3. kind \in {"GET_SIM_STATUS", "BASEBAND_VERSION", "GET_IMEI", "GET_IMEISV",
                "SIGNAL_STRENGTH"}
  BY DEF Kind
<1> QED BY <1>2, <1>3 DEF Handled

(* Whatever the modem reports of the radio, its handler sends orders of    *)
(* the radio and nothing about USSD.                                       *)
LEMMA DispatchedAdds ==
  ASSUME IsLine(toModem), NEW m, m.what \in Reports
  PROVE  Adds(Dispatched(m), Start)
<1>1. IsEffect(Start) BY StartEffect
<1> HIDE DEF IsEffect, Start
<1>2. Adds(PowerAnswered(Start), Start) BY <1>1, PowerAdds
<1>3. Adds(Start, Start)
  <2>1. Start.toModem = Start.toModem OBVIOUS
  <2> QED BY <1>1, <2>1, AddsNothing DEF IsEffect
<1> HIDE DEF Adds
<1>4. /\ Adds(ipc_pwr_phone_pwr_up(Start), Start)
      /\ Adds(ipc_pwr_phone_state(Start, "NORMAL"), Start)
      /\ Adds(ipc_disp_icon_info(Start, m.token), Start)
      /\ Adds(ipc_sms_device_ready(Start), Start)
  BY <1>1, OthersAdd
<1>5. /\ Adds(PinNoti(PowerAnswered(Start), m.pin), Start)
      /\ Adds(PinResp(PowerAnswered(Start), m.token, m.pin), Start)
  BY <1>2, PinAdds
<1>6. /\ Adds(ipc_misc_me_sn_imei(Start, m.token), Start)
      /\ Adds(ipc_misc_me_version(Start, m.token), Start)
  BY <1>1, ImeiAdds, VersionAdds
<1> QED BY <1>3, <1>4, <1>5, <1>6 DEF Dispatched, Reports

(* What a step of the radio and the SIM leaves to USSD.                    *)
RadioStep ==
  /\ Behind(toModem', toModem)
  /\ \/ Further(fromModem', fromModem)
     \/ /\ fromModem # <<>> /\ Head(fromModem).what \in Reports
        /\ fromModem' = Tail(fromModem)
  /\ requests' = requests \/ \E kind \in Kind : requests' = Append(requests, kind)
  /\ UNCHANGED <<failures, ussdVars>>

(* The radio's own requests, reports and changes of the card are steps of  *)
(* the radio: they leave the session alone.                                *)
LEMMA RadioSteps ==
  ASSUME IsLine(toModem), IsLine(fromModem), UNCHANGED ussdVars,
         \/ \E kind \in Requests \cap (Kind \ {"RADIO_POWER_ON", "RADIO_POWER_OFF"}) :
              onRequest(kind)
         \/ RadioPowerOn
         \/ Receive
         \/ SimChange
  PROVE  RadioStep
<1> HIDE DEF IsLine
<1>1. Start.toModem = toModem BY DEF Start
<1>2. ASSUME NEW f, Adds(f, Start), Apply(f) PROVE Behind(toModem', toModem)
  <2>1. toModem' = f.toModem BY <1>2 DEF Apply
  <2> HIDE DEF Behind, Start
  <2> QED BY <1>1, <1>2, <2>1 DEF Adds
<1> HIDE DEF Adds, Start, Behind
<1>0. fromModem' = fromModem => Further(fromModem', fromModem) BY FurtherNothing
<1> HIDE DEF Further
<1>3. ASSUME NEW kind \in Requests \cap (Kind \ {"RADIO_POWER_ON", "RADIO_POWER_OFF"}),
             onRequest(kind)
      PROVE  RadioStep
  <2>1. Adds(Handled(kind), Start) BY HandledAdds
  <2>2. Apply(Handled(kind)) BY <1>3 DEF onRequest
  <2>3. Behind(toModem', toModem) BY <1>2, <2>1, <2>2
  <2> QED BY <1>0, <1>3, <2>3 DEF onRequest, Issue, RadioStep
<1>4. CASE RadioPowerOn
  <2>1. IsEffect(Start) BY StartEffect
  <2>2. Adds(RequestNormal(Start, New), Start) BY <2>1, OthersAdd
  <2>3. Behind(toModem', toModem) BY <1>2, <1>4, <2>2 DEF RadioPowerOn
  <2> QED BY <1>0, <1>4, <2>3 DEF RadioPowerOn, Issue, RadioStep, Kind
<1>5. CASE Receive
  <2>1. fromModem # <<>> /\ Head(fromModem).what \in Reports /\ fromModem' = Tail(fromModem)
    BY <1>5 DEF Receive
  <2>2. Adds(Dispatched(Head(fromModem)), Start) BY <2>1, DispatchedAdds
  <2>3. Apply(Dispatched(Head(fromModem))) BY <1>5 DEF Receive
  <2>4. Behind(toModem', toModem) BY <1>2, <2>2, <2>3
  <2>5. requests' = requests /\ failures' = failures BY <1>5 DEF Receive
  <2> QED BY <2>1, <2>4, <2>5 DEF RadioStep
<1>6. CASE SimChange
  <2>1. Behind(toModem, toModem) BY BehindNothing
  <2>2. /\ toModem' = toModem /\ requests' = requests /\ failures' = failures
        /\ fromModem' = Append(fromModem, From("PIN_NOTI", NoToken, sim + 1))
    BY <1>6 DEF SimChange, rild
  <2>3. RadioReport(From("PIN_NOTI", NoToken, sim + 1)) BY DEF RadioReport, From, Reports
  <2> HIDE DEF Append, From, RadioReport
  <2>4. Further(fromModem', fromModem) BY <2>2, <2>3, FurtherOne
  <2> QED BY <2>1, <2>2, <2>4 DEF RadioStep
<1> QED BY <1>3, <1>4, <1>5, <1>6

(* RADIO_POWER off takes the tokens from the messages under way and sends  *)
(* the message that switches the modem off.                                *)
Forgot(s) == [i \in DOMAIN s |-> [s[i] EXCEPT !.token = NoToken]]

(* What RADIO_POWER off does to the lines and the session.                 *)
OffStep ==
  /\ toModem' = Forgot(Append(toModem, To("LPM", New)))
  /\ fromModem' = Forgot(fromModem)
  /\ requests' = Append(requests, "RADIO_POWER_OFF")
  /\ ussd_state' = "NONE"
  /\ cut' = (cut \/ Speaking)
  /\ UNCHANGED <<failures, session, said, heard, refused>>

(* RADIO_POWER_OFF ends the session and orders the radio off.              *)
LEMMA OffSteps == RadioPowerOffUssd => OffStep
<1> SUFFICES ASSUME RadioPowerOffUssd PROVE OffStep
  OBVIOUS
<1>1. RequestLpm(Start, New).toModem = Append(toModem, To("LPM", New))
  BY DEF RequestLpm, Completing, Sending, Start
<1>2. toModem' = Forgot(RequestLpm(Start, New).toModem)
  <2> DEFINE e == RequestLpm(Start, New)
  <2>1. DOMAIN e = {"st", "toModem", "answers", "view", "news"}
    BY DEF RequestLpm, Completing, Sending, Start
  <2>2. Apply([e EXCEPT !.toModem = Forgot(@)])
    BY DEF RadioPowerOffUssd, RadioPowerOff, Forgot
  <2> HIDE DEF e, Forgot
  <2>3. [e EXCEPT !.toModem = Forgot(@)].toModem = Forgot(e.toModem) BY <2>1
  <2>4. toModem' = Forgot(e.toModem) BY <2>2, <2>3 DEF Apply
  <2> QED BY <2>4 DEF e
<1>3. fromModem' = Forgot(fromModem) BY DEF RadioPowerOffUssd, RadioPowerOff, Forgot
<1> HIDE DEF Forgot, Append, To
<1> QED BY <1>1, <1>2, <1>3 DEF RadioPowerOffUssd, RadioPowerOff, Issue, OffStep

(* The modem serves a message of RadioPower.                               *)
ServeStep ==
  /\ toModem # <<>> /\ Head(toModem).what \in Orders
  /\ toModem' = Tail(toModem)
  /\ Further(fromModem', fromModem)
  /\ session' = IF Head(toModem).what = "LPM" THEN "none" ELSE session
  /\ UNCHANGED <<requests, failures, ussd_state, said, heard, refused, cut>>

(* The modem serves an order of the radio.                                 *)
LEMMA ServeSteps == ASSUME IsLine(fromModem), ServeRadio PROVE ServeStep
<1> DEFINE m == Head(toModem)
           n == From("NORMAL", NoToken, 0)
           p == From("PIN_NOTI", NoToken, sim)
           d == From("DEVICE_READY", NoToken, 0)
           r == From(m.what, m.token, IF m.what = "PIN_STATUS" THEN sim ELSE 0)
           l == From("ME_SN_TOO_LONG", m.token, 0)
<1>1. /\ toModem # <<>> /\ m.what \in Orders /\ toModem' = Tail(toModem)
      /\ \/ fromModem' = fromModem \o <<n, p, d>>
         \/ fromModem' = fromModem
         \/ m.what \notin {"NORMAL", "LPM", "DEVICE_READY"} /\ fromModem' = Append(fromModem, r)
         \/ fromModem' = Append(fromModem, l)
      /\ failures' = failures /\ requests' = requests
  BY DEF ServeRadio, Serve, rild
<1>2. /\ RadioReport(n) /\ RadioReport(p) /\ RadioReport(d) /\ RadioReport(l)
      /\ m.what \notin {"NORMAL", "LPM", "DEVICE_READY"} => RadioReport(r)
  BY <1>1 DEF RadioReport, From, Reports, Orders
<1> HIDE DEF n, p, d, r, l, RadioReport, Append, IsLine
<1>3. fromModem \o <<n, p, d>> = Append(Append(Append(fromModem, n), p), d) BY LineJoined
<1>4. Further(Append(fromModem, n), fromModem) BY <1>2, FurtherOne
<1>5. IsLine(Append(fromModem, n)) BY <1>4 DEF Further
<1>6. Further(Append(Append(fromModem, n), p), Append(fromModem, n)) BY <1>2, <1>5, FurtherOne
<1>7. IsLine(Append(Append(fromModem, n), p)) BY <1>6 DEF Further
<1>8. Further(Append(Append(Append(fromModem, n), p), d), Append(Append(fromModem, n), p))
  BY <1>2, <1>7, FurtherOne
<1>9. Further(fromModem, fromModem) BY FurtherNothing
<1>10. Further(Append(fromModem, l), fromModem) BY <1>2, FurtherOne
<1>11. m.what \notin {"NORMAL", "LPM", "DEVICE_READY"} => Further(Append(fromModem, r), fromModem)
  BY <1>2, FurtherOne
<1> HIDE DEF Further
<1>12. Further(Append(Append(Append(fromModem, n), p), d), fromModem)
  BY <1>4, <1>6, <1>8, FurtherTwice
<1>13. Further(fromModem', fromModem) BY <1>1, <1>3, <1>9, <1>10, <1>11, <1>12
<1> QED BY <1>1, <1>13 DEF ServeStep, ServeRadio

(* CANCEL_USSD sends its message, and what the request for the status of   *)
(* the SIM sends comes behind it.                                          *)
CancelOrder == Message("TERMINATED_BY_NET", <<>>, <<>>)

(* What CANCEL_USSD does to them.                                          *)
CancelStep ==
  /\ Behind(toModem', Append(toModem, CancelOrder))
  /\ New <= NRequests
  /\ requests' = Append(requests, "CANCEL_USSD")
  /\ ussd_state' = "TERMINATED_BY_NET"
  /\ cut' = (cut \/ Speaking)
  /\ UNCHANGED <<fromModem, failures, session, said, heard, refused>>

(* CANCEL_USSD orders the end of the session.                              *)
LEMMA CancelSteps == ASSUME IsLine(toModem), CancelUssd PROVE CancelStep
<1> DEFINE sent == Sending(Start, CancelOrder)
           f == ril_request_get_sim_status(sent, New)
<1>1. IsEffect(Start) BY StartEffect
<1>2. Start.toModem = toModem BY DEF Start
<1>3. IsEffect(sent) /\ sent.toModem = Append(toModem, CancelOrder)
  <2> HIDE DEF Start, CancelOrder, IsEffect, Append, Sending
  <2> QED BY <1>1, <1>2, SendingEffect
<1>4. Apply(f) BY DEF CancelUssd, CancelOrder
<1> HIDE DEF sent, CancelOrder, Start, IsLine, Append
<1>5. Adds(f, sent) BY <1>3, SimStatusAdds
<1> HIDE DEF f, Behind
<1>6. Behind(toModem', Append(toModem, CancelOrder)) BY <1>3, <1>4, <1>5 DEF Adds, Apply
<1> QED BY <1>6 DEF CancelUssd, Issue, CancelStep

(* SEND_USSD sends a message, unless the text is too long.                 *)
TextOrder(text) ==
  Message(IF Begins THEN "NO_ACTION_REQUIRE" ELSE "ACTION_REQUIRE", text, Encoded(text))

(* What SEND_USSD does to them.                                            *)
SendStep(text) ==
  /\ \/ toModem' = toModem
     \/ ~ TooLong(text) /\ toModem' = Append(toModem, TextOrder(text))
  /\ New <= NRequests
  /\ requests' = Append(requests, "SEND_USSD")
  /\ UNCHANGED <<fromModem, failures, ussdVars>>

(* SEND_USSD sends the text the way the session asks for, or refuses it.   *)
LEMMA SendSteps == ASSUME NEW text, ril_request_send_ussd(text) PROVE SendStep(text)
<1>1. Completing(Start, New, "GENERIC_FAILURE").toModem = toModem BY DEF Completing, Start
<1>2. Sending(Start, TextOrder(text)).toModem = Append(toModem, TextOrder(text))
  BY DEF Sending, Start
<1> HIDE DEF Start, Completing, Sending, Append, TooLong
<1>3. Apply(IF TooLong(text) THEN Completing(Start, New, "GENERIC_FAILURE")
            ELSE Sending(Start, TextOrder(text)))
  BY DEF ril_request_send_ussd, TextOrder
<1> HIDE DEF TextOrder
<1>4. toModem' = toModem \/ (~ TooLong(text) /\ toModem' = Append(toModem, TextOrder(text)))
  BY <1>1, <1>2, <1>3 DEF Apply
<1> QED BY <1>4 DEF ril_request_send_ussd, Issue, SendStep

-----------------------------------------------------------------------------
(* The messages of the lines.                                              *)

(* What a message carries of an encoded text, which it says the length of. *)
Carries(m, encoded) ==
  /\ m.length = Len(encoded)
  /\ m.data = IF Len(encoded) <= Room THEN encoded ELSE SubSeq(encoded, 1, Room)

(* A text, packed when it begins a session and as it is when it answers,   *)
(* or the end of a session.                                                *)
UssdOrder(m) ==
  /\ m = [what |-> "USSD", token |-> m.token, state |-> m.state, text |-> m.text,
          length |-> m.length, data |-> m.data]
  /\ m.token \in Token \cup {NoToken} /\ ~ m.length > MessageSize
  /\ \/ m.state = "NO_ACTION_REQUIRE" /\ m.text \in Texts /\ Carries(m, ascii2gsm7(m.text))
     \/ m.state = "ACTION_REQUIRE" /\ m.text \in Texts /\ Carries(m, m.text)
     \/ m.state = "TERMINATED_BY_NET" /\ m.text = <<>> /\ Carries(m, <<>>)

(* What the network says, written in the alphabet it names.                *)
Notice(m) ==
  /\ m = [what |-> "USSD", token |-> m.token, state |-> m.state, meant |-> m.meant,
          dcs |-> m.dcs, data |-> m.data]
  /\ m.token = NoToken /\ m.state \in NotiState
  /\ m.meant \in Said /\ m.dcs = Dcs[m.meant.alphabet] /\ m.data = Written(m.meant)

(* What the modem says of an order about USSD.                             *)
UssdResult(m) ==
  /\ m = [what |-> "USSD_RES", token |-> m.token, state |-> m.state, ok |-> m.ok]
  /\ m.token \in Token \cup {NoToken} /\ m.state \in NotiState

IsOrder(m)  == UssdOrder(m) \/ (m.what \in Orders /\ m = To(m.what, m.token))
IsReport(m) == UssdResult(m) \/ Notice(m) \/ RadioReport(m)

Orderly(s)  == IsLine(s) /\ \A i \in DOMAIN s : IsOrder(s[i])
Reported(s) == IsLine(s) /\ \A i \in DOMAIN s : IsReport(s[i])

(* Only orders are on the line to the modem and only reports on the line   *)
(* back.                                                                   *)
LineInv ==
  /\ Orderly(toModem) /\ Reported(fromModem)
  /\ IsLine(requests) /\ failures \in Nat

(* A message keeps its kind when its token is taken from it.               *)
LEMMA ForgotOrder ==
  ASSUME NEW m, IsOrder(m)
  PROVE  LET f == [m EXCEPT !.token = NoToken]
         IN  IsOrder(f) /\ f.what = m.what /\ (m.what = "USSD" => f.state = m.state)
<1> DEFINE f == [m EXCEPT !.token = NoToken]
<1>1. CASE UssdOrder(m)
  <2>1. f = [what |-> "USSD", token |-> NoToken, state |-> m.state, text |-> m.text,
             length |-> m.length, data |-> m.data]
    BY <1>1 DEF UssdOrder
  <2>2. /\ f.what = "USSD" /\ m.what = "USSD" /\ f.token = NoToken /\ f.state = m.state
        /\ f.text = m.text /\ f.length = m.length /\ f.data = m.data
    BY <1>1, <2>1 DEF UssdOrder
  <2> HIDE DEF f
  <2>3. UssdOrder(f) BY <1>1, <2>1, <2>2 DEF UssdOrder, Carries
  <2>4. IsOrder(f) /\ f.what = m.what /\ (m.what = "USSD" => f.state = m.state)
    BY <2>2, <2>3 DEF IsOrder
  <2> QED BY <2>4 DEF f
<1>2. CASE m.what \in Orders /\ m = To(m.what, m.token)
  <2>1. f = To(m.what, NoToken) BY <1>2 DEF To
  <2>2. f.what = m.what /\ f.token = NoToken /\ m.what # "USSD" BY <1>2, <2>1 DEF To, Orders
  <2> HIDE DEF f
  <2>3. IsOrder(f) /\ f.what = m.what /\ (m.what = "USSD" => f.state = m.state)
    BY <1>2, <2>1, <2>2 DEF IsOrder
  <2> QED BY <2>3 DEF f
<1> QED BY <1>1, <1>2 DEF IsOrder

(* A report whose token was forgotten is the same report otherwise.        *)
LEMMA ForgotReport ==
  ASSUME NEW m, IsReport(m)
  PROVE  LET f == [m EXCEPT !.token = NoToken]
         IN  /\ IsReport(f) /\ f.what = m.what /\ (m.what = "USSD" => f.state = m.state)
             /\ m.what = "USSD_RES" => f.ok = m.ok
<1> DEFINE f == [m EXCEPT !.token = NoToken]
<1>1. CASE Notice(m)
  <2>1. m.what = "USSD" /\ m = f BY <1>1 DEF Notice
  <2> HIDE DEF f
  <2>2. /\ IsReport(f) /\ f.what = m.what /\ (m.what = "USSD" => f.state = m.state)
        /\ m.what = "USSD_RES" => f.ok = m.ok
    BY <1>1, <2>1 DEF IsReport
  <2> QED BY <2>2 DEF f
<1>2. CASE UssdResult(m)
  <2>1. f = [what |-> "USSD_RES", token |-> NoToken, state |-> m.state, ok |-> m.ok]
    BY <1>2 DEF UssdResult
  <2>2. /\ f.what = "USSD_RES" /\ m.what = "USSD_RES" /\ f.token = NoToken
        /\ f.state = m.state /\ f.ok = m.ok
    BY <1>2, <2>1 DEF UssdResult
  <2> HIDE DEF f
  <2>3. UssdResult(f) BY <1>2, <2>1, <2>2 DEF UssdResult
  <2>4. /\ IsReport(f) /\ f.what = m.what /\ (m.what = "USSD" => f.state = m.state)
        /\ m.what = "USSD_RES" => f.ok = m.ok
    BY <2>2, <2>3 DEF IsReport
  <2> QED BY <2>4 DEF f
<1>3. CASE RadioReport(m)
  <2>1. f = From(m.what, NoToken, m.pin) BY <1>3 DEF RadioReport, From
  <2>2. /\ f.what = m.what /\ f.token = NoToken /\ f.pin = m.pin
        /\ m.what \notin {"USSD", "USSD_RES"}
    BY <1>3, <2>1 DEF RadioReport, From, Reports
  <2> HIDE DEF f
  <2>3. RadioReport(f) BY <1>3, <2>1, <2>2 DEF RadioReport
  <2>4. /\ IsReport(f) /\ f.what = m.what /\ (m.what = "USSD" => f.state = m.state)
        /\ m.what = "USSD_RES" => f.ok = m.ok
    BY <2>2, <2>3 DEF IsReport
  <2> QED BY <2>4 DEF f
<1> QED BY <1>1, <1>2, <1>3 DEF IsReport

(* A failure leaves the reports of a line in their places and takes their  *)
(* tokens.                                                                 *)
LEMMA ForgotLine ==
  ASSUME NEW s, IsLine(s)
  PROVE  /\ IsLine(Forgot(s)) /\ DOMAIN Forgot(s) = DOMAIN s
         /\ \A i \in DOMAIN s : Forgot(s)[i] = [s[i] EXCEPT !.token = NoToken]
<1>1. PICK S : s \in Seq(S) BY DEF IsLine
<1>2. Len(s) \in Nat /\ DOMAIN s = 1 .. Len(s) BY <1>1
<1> DEFINE g(i) == [s[i] EXCEPT !.token = NoToken]
           T == {g(i) : i \in DOMAIN s}
<1> HIDE DEF g
<1>3. [i \in 1 .. Len(s) |-> g(i)] \in Seq(T) BY <1>2
<1>4. IsLine([i \in DOMAIN s |-> g(i)]) BY <1>2, <1>3 DEF IsLine
<1> QED BY <1>4 DEF Forgot, g

(* What the two lines hold together.                                       *)
LEMMA InLineOf ==
  ASSUME IsLine(toModem), IsLine(fromModem)
  PROVE  /\ \A i \in DOMAIN toModem : toModem[i] \in InLine
         /\ \A i \in DOMAIN fromModem : fromModem[i] \in InLine
         /\ \A m \in InLine : \/ \E i \in DOMAIN toModem : m = toModem[i]
                              \/ \E i \in DOMAIN fromModem : m = fromModem[i]
<1>1. PICK S : toModem \in Seq(S) BY DEF IsLine
<1>2. PICK T : fromModem \in Seq(T) BY DEF IsLine
<1>3. toModem \in Seq(S \cup T) /\ fromModem \in Seq(S \cup T) BY <1>1, <1>2
<1> DEFINE both == toModem \o fromModem
<1>4. /\ DOMAIN toModem = 1 .. Len(toModem) /\ Len(toModem) \in Nat
      /\ DOMAIN fromModem = 1 .. Len(fromModem) /\ Len(fromModem) \in Nat
      /\ DOMAIN both = 1 .. Len(toModem) + Len(fromModem)
      /\ \A i \in DOMAIN both : both[i] = IF i <= Len(toModem) THEN toModem[i]
                                          ELSE fromModem[i - Len(toModem)]
  BY <1>3
<1>5. InLine = {both[i] : i \in DOMAIN both} BY DEF InLine, ToSet
<1> HIDE DEF both
<1>6. \A i \in DOMAIN toModem : i \in DOMAIN both /\ both[i] = toModem[i] BY <1>4
<1>7. \A i \in DOMAIN fromModem : /\ i + Len(toModem) \in DOMAIN both
                                  /\ both[i + Len(toModem)] = fromModem[i]
  BY <1>4
<1>8. ASSUME NEW i \in DOMAIN both
      PROVE  \/ i \in DOMAIN toModem /\ both[i] = toModem[i]
             \/ i - Len(toModem) \in DOMAIN fromModem /\ both[i] = fromModem[i - Len(toModem)]
  BY <1>4
<1> QED BY <1>5, <1>6, <1>7, <1>8

(* A message of USSD has come.                                             *)
ReceiveStep ==
  /\ fromModem # <<>> /\ fromModem' = Tail(fromModem)
  /\ LET m == Head(fromModem)
     IN  \/ /\ m.what = "USSD" /\ ussd_state' = m.state
            /\ heard' = [told |-> Decoded(m), meant |-> m.meant]
         \/ /\ m.what = "USSD_RES" /\ heard' = heard
            /\ ussd_state' \in {ussd_state, "NONE"} /\ (m.ok => ussd_state' = ussd_state)
  /\ UNCHANGED <<toModem, requests, failures, session, said, refused, cut>>

(* The driver reads what the modem says of USSD.                           *)
LEMMA ReceiveSteps == ReceiveUssd => ReceiveStep
<1> SUFFICES ASSUME ReceiveUssd PROVE ReceiveStep
  OBVIOUS
<1> DEFINE m == Head(fromModem)
<1>1. CASE m.what = "USSD" /\ ipc_ss_ussd(m)
  <2> HIDE DEF Decoded
  <2> QED BY <1>1 DEF ReceiveUssd, ReceiveStep, ipc_ss_ussd
<1>2. CASE m.what = "USSD_RES" /\ ipc_ss_ussd_complete(m)
  <2> DEFINE done(errno) == Completing(Start, m.token, errno)
  <2>1. \A errno : done(errno).toModem = toModem BY DEF Completing, Start
  <2>2. Apply(done(IF m.ok THEN "SUCCESS" ELSE "GENERIC_FAILURE"))
    BY <1>2 DEF ipc_ss_ussd_complete
  <2> HIDE DEF done
  <2>3. toModem' = toModem BY <2>1, <2>2 DEF Apply
  <2>4. heard' = heard /\ ussd_state' \in {ussd_state, "NONE"} /\ (m.ok => ussd_state' = ussd_state)
    BY <1>2 DEF ipc_ss_ussd_complete
  <2> QED BY <1>2, <2>3, <2>4 DEF ReceiveUssd, ReceiveStep
<1> QED BY <1>1, <1>2 DEF ReceiveUssd

(* The modem boots again, and nothing is under way any more.               *)
FailStep ==
  /\ toModem' = <<>> /\ fromModem' = Booting /\ session' = "none"
  /\ failures' = failures + 1
  /\ UNCHANGED <<requests, ussd_state, said, heard, refused, cut>>

(* Every step is one of these.                                             *)
LEMMA UssdSteps ==
  ASSUME IsLine(toModem), IsLine(fromModem), [UssdNext]_allVars
  PROVE  \/ RadioStep \/ OffStep \/ ServeStep \/ CancelStep
         \/ (\E text \in Texts : SendStep(text))
         \/ ReceiveStep \/ ServeUssd \/ Say \/ FailStep
         \/ UNCHANGED <<toModem, fromModem, requests, failures, ussdVars>>
<1> HIDE DEF IsLine
<1>1. CASE \E text \in Texts : ril_request_send_ussd(text)
  <2> HIDE DEF SendStep, ril_request_send_ussd
  <2> QED BY <1>1, SendSteps
<1>2. CASE CancelUssd BY <1>2, CancelSteps
<1>3. CASE ReceiveUssd BY <1>3, ReceiveSteps
<1>4. CASE RadioPowerOffUssd BY <1>4, OffSteps
<1>5. CASE ServeRadio BY <1>5, ServeSteps
<1>6. CASE ClientFailsUssd BY <1>6 DEF ClientFailsUssd, ClientFails, FailStep, rild
<1>7. ASSUME UNCHANGED ussdVars,
             \/ \E kind \in Requests \cap (Kind \ {"RADIO_POWER_ON", "RADIO_POWER_OFF"}) :
                  onRequest(kind)
             \/ RadioPowerOn
             \/ Receive
             \/ SimChange
      PROVE  RadioStep
  BY <1>7, RadioSteps
<1>8. CASE UNCHANGED allVars BY <1>8 DEF allVars, vars, line, rild
<1> HIDE DEF RadioStep, OffStep, ServeStep, CancelStep, SendStep, ReceiveStep, FailStep
<1>9. CASE UssdNext BY <1>9, <1>1, <1>2, <1>3, <1>4, <1>5, <1>6, <1>7 DEF UssdNext
<1> QED BY <1>8, <1>9

(* What the steps make of such lines are such lines.                       *)
LEMMA OrderlyNext ==
  ASSUME NEW s, Orderly(s)
  PROVE  /\ \A m : IsOrder(m) => Orderly(Append(s, m))
         /\ \A r : Behind(r, s) => Orderly(r)
         /\ s # <<>> => Orderly(Tail(s))
         /\ Orderly(Forgot(s))
<1>1. IsLine(s) BY DEF Orderly
<1>2. ASSUME NEW m, IsOrder(m) PROVE Orderly(Append(s, m))
  <2> HIDE DEF IsOrder, IsLine, Append
  <2> QED BY <1>1, <1>2, LineAppended DEF Orderly
<1>3. ASSUME NEW r, Behind(r, s) PROVE Orderly(r)
  <2>1. \A m : Plain(m) => IsOrder(m) BY DEF Plain, IsOrder
  <2> HIDE DEF IsOrder, IsLine, Plain
  <2> QED BY <1>3, <2>1 DEF Orderly, Behind
<1>4. ASSUME s # <<>> PROVE Orderly(Tail(s))
  <2> HIDE DEF IsOrder, IsLine, Tail
  <2> QED BY <1>1, <1>4, LineTaken DEF Orderly
<1>5. Orderly(Forgot(s))
  <2>1. IsLine(Forgot(s)) /\ DOMAIN Forgot(s) = DOMAIN s BY <1>1, ForgotLine
  <2>2. ASSUME NEW i \in DOMAIN s PROVE IsOrder(Forgot(s)[i])
    <3>1. IsOrder(s[i]) BY DEF Orderly
    <3>2. IsOrder([s[i] EXCEPT !.token = NoToken]) BY <3>1, ForgotOrder
    <3> QED BY <1>1, <3>2, ForgotLine
  <2> QED BY <2>1, <2>2 DEF Orderly
<1> QED BY <1>2, <1>3, <1>4, <1>5

(* A line of reports stays one when a report is added or read, and when    *)
(* the tokens are forgotten.                                               *)
LEMMA ReportedNext ==
  ASSUME NEW s, Reported(s)
  PROVE  /\ \A m : IsReport(m) => Reported(Append(s, m))
         /\ \A r : Further(r, s) => Reported(r)
         /\ s # <<>> => Reported(Tail(s))
         /\ Reported(Forgot(s))
<1>1. IsLine(s) BY DEF Reported
<1>2. ASSUME NEW m, IsReport(m) PROVE Reported(Append(s, m))
  <2> HIDE DEF IsReport, IsLine, Append
  <2> QED BY <1>1, <1>2, LineAppended DEF Reported
<1>3. ASSUME NEW r, Further(r, s) PROVE Reported(r)
  <2>1. \A m : RadioReport(m) => IsReport(m) BY DEF IsReport
  <2> HIDE DEF IsReport, IsLine, RadioReport
  <2> QED BY <1>3, <2>1 DEF Reported, Further
<1>4. ASSUME s # <<>> PROVE Reported(Tail(s))
  <2> HIDE DEF IsReport, IsLine, Tail
  <2> QED BY <1>1, <1>4, LineTaken DEF Reported
<1>5. Reported(Forgot(s))
  <2>1. IsLine(Forgot(s)) /\ DOMAIN Forgot(s) = DOMAIN s BY <1>1, ForgotLine
  <2>2. ASSUME NEW i \in DOMAIN s PROVE IsReport(Forgot(s)[i])
    <3>1. IsReport(s[i]) BY DEF Reported
    <3>2. IsReport([s[i] EXCEPT !.token = NoToken]) BY <3>1, ForgotReport
    <3> QED BY <1>1, <3>2, ForgotLine
  <2> QED BY <2>1, <2>2 DEF Reported
<1> QED BY <1>2, <1>3, <1>4, <1>5

(* The next request of rild has a token.                                   *)
LEMMA NewTyped == ASSUME IsLine(requests), New <= NRequests PROVE New \in Token
<1>1. Len(requests) \in Nat BY LineAppended
<1> QED BY <1>1, BoundsAssumption DEF New, Token

(* The messages USSD adds to the lines.                                    *)
LEMMA TextOrdered ==
  ASSUME IsLine(requests), New <= NRequests, NEW text \in Texts, ~ TooLong(text)
  PROVE  /\ UssdOrder(TextOrder(text)) /\ TextOrder(text).what = "USSD"
         /\ TextOrder(text).state = IF Begins THEN "NO_ACTION_REQUIRE" ELSE "ACTION_REQUIRE"
<1> DEFINE m == TextOrder(text)
           e == Encoded(text)
<1>1. New \in Token BY NewTyped
<1>2. m = [what |-> "USSD", token |-> New,
           state |-> IF Begins THEN "NO_ACTION_REQUIRE" ELSE "ACTION_REQUIRE",
           text |-> text, length |-> Len(e),
           data |-> IF Len(e) <= Room THEN e ELSE SubSeq(e, 1, Room)]
  BY DEF TextOrder, Message
<1>3. ~ Len(e) > MessageSize BY DEF TooLong
<1>4. e = IF Begins THEN ascii2gsm7(text) ELSE text BY DEF Encoded
<1> HIDE DEF m, e
<1>5. /\ m.what = "USSD" /\ m.token = New /\ m.text = text /\ m.length = Len(e)
      /\ m.data = (IF Len(e) <= Room THEN e ELSE SubSeq(e, 1, Room))
      /\ m.state = IF Begins THEN "NO_ACTION_REQUIRE" ELSE "ACTION_REQUIRE"
  BY <1>2
<1>6. Carries(m, e) BY <1>5 DEF Carries
<1>7. m = [what |-> "USSD", token |-> m.token, state |-> m.state, text |-> m.text,
           length |-> m.length, data |-> m.data]
  BY <1>2, <1>5
<1>8. UssdOrder(m)
  <2> HIDE DEF Carries
  <2>1. CASE Begins BY <1>1, <1>3, <1>4, <1>5, <1>6, <1>7, <2>1 DEF UssdOrder
  <2>2. CASE ~ Begins BY <1>1, <1>3, <1>4, <1>5, <1>6, <1>7, <2>2 DEF UssdOrder
  <2> QED BY <2>1, <2>2
<1> QED BY <1>5, <1>8 DEF m

(* What CANCEL_USSD sends is an order.                                     *)
LEMMA CancelOrdered ==
  ASSUME IsLine(requests), New <= NRequests
  PROVE  /\ UssdOrder(CancelOrder) /\ CancelOrder.what = "USSD"
         /\ CancelOrder.state = "TERMINATED_BY_NET"
<1> DEFINE m == CancelOrder
<1>1. New \in Token BY NewTyped
<1> DEFINE e == <<>>
<1>2. Len(e) = 0 /\ Len(e) <= Room /\ ~ Len(e) > MessageSize
  BY UssdBoundsAssumption DEF Room
<1>3. m = [what |-> "USSD", token |-> New, state |-> "TERMINATED_BY_NET", text |-> <<>>,
           length |-> Len(e), data |-> IF Len(e) <= Room THEN e ELSE SubSeq(e, 1, Room)]
  BY DEF CancelOrder, Message
<1> HIDE DEF m
<1>4. /\ m.what = "USSD" /\ m.token = New /\ m.text = <<>> /\ m.state = "TERMINATED_BY_NET"
      /\ m.length = Len(e) /\ m.data = e
  BY <1>2, <1>3
<1>5. Carries(m, <<>>) BY <1>2, <1>4 DEF Carries
<1>6. m = [what |-> "USSD", token |-> m.token, state |-> m.state, text |-> m.text,
           length |-> m.length, data |-> m.data]
  BY <1>2, <1>3, <1>4
<1>7. UssdOrder(m)
  <2> HIDE DEF Carries
  <2> QED BY <1>1, <1>2, <1>4, <1>5, <1>6 DEF UssdOrder
<1> QED BY <1>4, <1>7 DEF m

(* What the modem says of an order is a report.                            *)
LEMMA ResultReported ==
  ASSUME NEW m, UssdOrder(m), NEW ok
  PROVE  /\ UssdResult(Result(m, ok)) /\ Result(m, ok).what = "USSD_RES"
         /\ Result(m, ok).ok = ok
<1> DEFINE r == Result(m, ok)
<1>1. r = [what |-> "USSD_RES", token |-> m.token, state |-> m.state, ok |-> ok]
  BY DEF Result
<1> HIDE DEF r
<1>2. r.what = "USSD_RES" /\ r.token = m.token /\ r.state = m.state /\ r.ok = ok BY <1>1
<1>3. m.token \in Token \cup {NoToken} /\ m.state \in NotiState
  BY DEF UssdOrder, NotiState, Ended
<1>4. r = [what |-> "USSD_RES", token |-> r.token, state |-> r.state, ok |-> r.ok]
  BY <1>1, <1>2
<1>5. UssdResult(r) BY <1>2, <1>3, <1>4 DEF UssdResult
<1> QED BY <1>2, <1>5 DEF r

(* The notification by which the network says s and leaves the session in  *)
(* state.                                                                  *)
Saying(state, s) ==
  [what |-> "USSD", token |-> NoToken, state |-> state, meant |-> s,
   dcs |-> Dcs[s.alphabet], data |-> Written(s)]

(* What the network says is a report.                                      *)
LEMMA SayingNoticed ==
  ASSUME NEW state \in NotiState, NEW s \in Said
  PROVE  /\ Notice(Saying(state, s)) /\ Saying(state, s).what = "USSD"
         /\ Saying(state, s).state = state
<1> DEFINE m == Saying(state, s)
<1>1. m = [what |-> "USSD", token |-> NoToken, state |-> state, meant |-> s,
           dcs |-> Dcs[s.alphabet], data |-> Written(s)]
  BY DEF Saying
<1> HIDE DEF m
<1>2. /\ m.what = "USSD" /\ m.token = NoToken /\ m.state = state /\ m.meant = s
      /\ m.dcs = Dcs[s.alphabet] /\ m.data = Written(s)
  BY <1>1
<1>3. m = [what |-> "USSD", token |-> m.token, state |-> m.state, meant |-> m.meant,
           dcs |-> m.dcs, data |-> m.data]
  BY <1>1, <1>2
<1>4. Notice(m) BY <1>2, <1>3 DEF Notice
<1> QED BY <1>2, <1>4 DEF m

(* When the modem boots its lines are in order.                            *)
LEMMA BootingReported == IsLine(<<>>) /\ Orderly(<<>>) /\ Reported(Booting)
<1>1. IsLine(<<>>)
  <2>1. <<>> \in Seq({}) OBVIOUS
  <2> QED BY <2>1 DEF IsLine
<1>2. Orderly(<<>>) BY <1>1 DEF Orderly
<1>3. Reported(Booting)
  <2> DEFINE m == From("PWR_UP", NoToken, 0)
  <2>1. RadioReport(m) BY DEF RadioReport, From, Reports
  <2>2. Booting = <<m>> BY DEF Booting
  <2> HIDE DEF m
  <2>3. Booting \in Seq({m}) /\ DOMAIN Booting = {1} /\ Booting[1] = m BY <2>2
  <2>4. IsLine(Booting) BY <2>3 DEF IsLine
  <2> QED BY <2>1, <2>3, <2>4 DEF Reported, IsReport
<1> QED BY <1>1, <1>2, <1>3

(* The lines hold such messages in every reachable state.                  *)
LEMMA LineStart == UssdInit => LineInv
<1> SUFFICES ASSUME UssdInit PROVE LineInv
  OBVIOUS
<1>1. toModem = <<>> /\ fromModem = Booting /\ requests = <<>> /\ failures = 0
  BY DEF UssdInit, Init
<1> HIDE DEF Orderly, Reported, IsLine
<1> QED BY <1>1, BootingReported DEF LineInv

(* Each step keeps orders on the line to the modem and reports on the line *)
(* back.                                                                   *)
LEMMA LineStep == LineInv /\ [UssdNext]_allVars => LineInv'
<1> SUFFICES ASSUME LineInv, [UssdNext]_allVars PROVE LineInv'
  OBVIOUS
<1>1. /\ Orderly(toModem) /\ Reported(fromModem) /\ IsLine(requests) /\ failures \in Nat
      /\ IsLine(toModem) /\ IsLine(fromModem)
  BY DEF LineInv, Orderly, Reported
<1>2. \A kind : IsLine(Append(requests, kind))
  <2> HIDE DEF IsLine, Append
  <2> QED BY <1>1, LineAppended
<1> HIDE DEF Orderly, Reported, IsLine, Append, Tail
<1>3. SUFFICES Orderly(toModem') /\ Reported(fromModem') /\ IsLine(requests') /\ failures' \in Nat
  BY DEF LineInv, Orderly, Reported, IsLine
<1>4. CASE RadioStep
  <2>1. Orderly(toModem') BY <1>1, <1>4, OrderlyNext DEF RadioStep
  <2>2. Reported(fromModem') BY <1>1, <1>4, ReportedNext DEF RadioStep
  <2> QED BY <1>1, <1>2, <1>4, <2>1, <2>2 DEF RadioStep
<1>5. CASE OffStep
  <2> DEFINE m == To("LPM", New)
  <2>1. IsOrder(m)
    <3>1. m.what = "LPM" /\ m = To(m.what, m.token) BY DEF To
    <3> QED BY <3>1 DEF IsOrder, Orders
  <2> HIDE DEF m
  <2>2. Orderly(Append(toModem, m)) BY <1>1, <2>1, OrderlyNext
  <2>3. Orderly(Forgot(Append(toModem, m))) BY <2>2, OrderlyNext
  <2>4. Reported(Forgot(fromModem)) BY <1>1, ReportedNext
  <2> QED BY <1>1, <1>2, <1>5, <2>3, <2>4 DEF OffStep, m
<1>6. CASE ServeStep
  <2>1. Orderly(toModem') BY <1>1, <1>6, OrderlyNext DEF ServeStep
  <2>2. Reported(fromModem') BY <1>1, <1>6, ReportedNext DEF ServeStep
  <2> QED BY <1>1, <1>6, <2>1, <2>2 DEF ServeStep
<1>7. CASE CancelStep
  <2>1. IsOrder(CancelOrder) BY <1>1, <1>7, CancelOrdered DEF IsOrder, CancelStep
  <2>2. Orderly(Append(toModem, CancelOrder)) BY <1>1, <2>1, OrderlyNext
  <2>3. Orderly(toModem') BY <1>7, <2>2, OrderlyNext DEF CancelStep
  <2> QED BY <1>1, <1>2, <1>7, <2>3 DEF CancelStep
<1>8. CASE \E text \in Texts : SendStep(text)
  <2>1. PICK text \in Texts : SendStep(text) BY <1>8
  <2>2. ~ TooLong(text) => IsOrder(TextOrder(text))
    BY <1>1, <2>1, TextOrdered DEF IsOrder, SendStep
  <2> HIDE DEF TooLong
  <2>3. Orderly(toModem') BY <1>1, <2>1, <2>2, OrderlyNext DEF SendStep
  <2> QED BY <1>1, <1>2, <2>1, <2>3 DEF SendStep
<1>9. CASE ReceiveStep
  <2>1. Reported(fromModem') BY <1>1, <1>9, ReportedNext DEF ReceiveStep
  <2> QED BY <1>1, <1>9, <2>1 DEF ReceiveStep
<1>10. CASE ServeUssd
  <2> DEFINE m == Head(toModem)
  <2>1. toModem # <<>> /\ m.what = "USSD" /\ toModem' = Tail(toModem) BY <1>10 DEF ServeUssd
  <2>2. IsOrder(m)
    <3>1. 1 \in DOMAIN toModem /\ Head(toModem) = toModem[1] BY <1>1, <2>1, LineTaken
    <3> QED BY <1>1, <3>1 DEF Orderly
  <2>3. UssdOrder(m) BY <2>1, <2>2 DEF IsOrder, Orders
  <2> HIDE DEF m
  <2>4. \A ok : IsReport(Result(m, ok)) BY <2>3, ResultReported DEF IsReport
  <2>5. \E ok : fromModem' = Append(fromModem, Result(m, ok))
    BY <1>10 DEF ServeUssd, m
  <2>6. Reported(fromModem') BY <1>1, <2>4, <2>5, ReportedNext
  <2>7. Orderly(toModem') BY <1>1, <2>1, OrderlyNext
  <2> QED BY <1>1, <1>10, <2>6, <2>7 DEF ServeUssd, rild
<1>11. CASE Say
  <2>1. PICK state \in NotiState, s \in Said : fromModem' = Append(fromModem, Saying(state, s))
    BY <1>11 DEF Say, Saying
  <2>2. IsReport(Saying(state, s)) BY SayingNoticed DEF IsReport
  <2>3. Reported(fromModem') BY <1>1, <2>1, <2>2, ReportedNext
  <2> QED BY <1>1, <1>11, <2>3 DEF Say, rild
<1>12. CASE FailStep
  <2>1. Orderly(<<>>) /\ Reported(Booting) BY BootingReported
  <2> QED BY <1>1, <1>12, <2>1 DEF FailStep
<1>13. CASE UNCHANGED <<toModem, fromModem, requests, failures, ussdVars>>
  BY <1>1, <1>13
<1> HIDE DEF RadioStep, OffStep, ServeStep, CancelStep, SendStep, ReceiveStep, FailStep, Say, ServeUssd
<1> QED BY <1>1, <1>4, <1>5, <1>6, <1>7, <1>8, <1>9, <1>10, <1>11, <1>12, <1>13, UssdSteps

-----------------------------------------------------------------------------
(* The session.                                                            *)

(* A text on its way to the network, and an order that ends a session.     *)
IsText(m)  == m.what = "USSD" /\ m.state # "TERMINATED_BY_NET"
Closing(m) == m.what = "LPM" \/ (m.what = "USSD" /\ m.state = "TERMINATED_BY_NET")

(* An order that ends the session is on the line; nothing about the        *)
(* session is.                                                             *)
Shutting(s) == \E i \in DOMAIN s : Closing(s[i])
Idle(s)     == \A i \in DOMAIN s : ~ IsText(s[i]) /\ ~ Closing(s[i])

(* No text has an order that ends the session behind it.                   *)
TextsLast(s) ==
  \A i \in DOMAIN s : Closing(s[i]) => \A j \in DOMAIN s : j < i => ~ IsText(s[j])

(* The driver, which holds the session to be in the state known, takes it  *)
(* to be open when it has read what is in s.                               *)
Opens(s, known) ==
  \/ \E i \in DOMAIN s : /\ s[i].what = "USSD" /\ s[i].state = "ACTION_REQUIRE"
                         /\ \A j \in DOMAIN s : j > i => s[j].what # "USSD"
  \/ known = "ACTION_REQUIRE" /\ \A i \in DOMAIN s : s[i].what # "USSD"

(* The driver will take the session to be open once it has read what is    *)
(* under way.                                                              *)
WillBeOpen == Opens(fromModem, ussd_state)

(* Orders of the radio at the end of the line change nothing about the     *)
(* session: they do not end it, and no text comes with them.               *)
LEMMA OrdersBehind ==
  ASSUME NEW s, NEW r, Behind(r, s)
  PROVE  /\ Shutting(r) => Shutting(s)
         /\ TextsLast(s) => TextsLast(r)
         /\ Idle(r) => Idle(s)
<1>1. \A m : Plain(m) => ~ IsText(m) /\ ~ Closing(m) BY DEF Plain, IsText, Closing, Orders
<1> HIDE DEF Plain, IsText, Closing, IsLine
<1>2. Shutting(r) => Shutting(s) BY <1>1 DEF Behind, Shutting
<1>3. TextsLast(s) => TextsLast(r) BY <1>1 DEF Behind, TextsLast
<1>4. Idle(r) => Idle(s) BY DEF Behind, Idle
<1> QED BY <1>2, <1>3, <1>4

(* A text, or an order that ends the session, at the end of the line.      *)
LEMMA OrdersAppended ==
  ASSUME NEW s, IsLine(s), NEW m
  PROVE  /\ IsText(m) => /\ Shutting(Append(s, m)) => Shutting(s)
                         /\ TextsLast(s) => TextsLast(Append(s, m))
         /\ Closing(m) /\ (\A i \in DOMAIN s : ~ IsText(s[i])) => TextsLast(Append(s, m))
         /\ IsText(m) \/ Closing(m) => ~ Idle(Append(s, m))
<1> DEFINE r == Append(s, m)
           n == Len(s) + 1
<1>1. /\ DOMAIN r = DOMAIN s \cup {n} /\ n \notin DOMAIN s /\ r[n] = m
      /\ \A i \in DOMAIN s : r[i] = s[i] /\ i < n /\ i \in Nat
      /\ n \in Nat
  <2>1. Len(s) \in Nat /\ DOMAIN s = 1 .. Len(s) BY LineAppended
  <2> HIDE DEF Append
  <2> QED BY <2>1, LineAppended
<1>2. IsText(m) => ~ Closing(m) BY DEF IsText, Closing
<1> HIDE DEF r, n, IsText, Closing
<1>3. ASSUME IsText(m) PROVE Shutting(r) => Shutting(s)
  BY <1>1, <1>2, <1>3 DEF Shutting
<1>4. ASSUME IsText(m), TextsLast(s) PROVE TextsLast(r)
  <2> SUFFICES ASSUME NEW i \in DOMAIN r, Closing(r[i]), NEW j \in DOMAIN r, j < i
               PROVE  ~ IsText(r[j])
    BY DEF TextsLast
  <2>1. i \in DOMAIN s BY <1>1, <1>2, <1>4
  <2>2. j \in DOMAIN s BY <1>1, <2>1
  <2> QED BY <1>1, <1>4, <2>1, <2>2 DEF TextsLast
<1>5. ASSUME Closing(m), \A i \in DOMAIN s : ~ IsText(s[i]) PROVE TextsLast(r)
  BY <1>1, <1>2, <1>5 DEF TextsLast
<1>6. IsText(m) \/ Closing(m) => ~ Idle(r) BY <1>1 DEF Idle
<1> QED BY <1>3, <1>4, <1>5, <1>6 DEF r

(* The modem takes the first order of the line.                            *)
LEMMA OrdersTaken ==
  ASSUME NEW s, IsLine(s), s # <<>>
  PROVE  /\ Shutting(Tail(s)) => Shutting(s)
         /\ Closing(Head(s)) => Shutting(s)
         /\ TextsLast(s) => TextsLast(Tail(s))
         /\ TextsLast(s) /\ IsText(Head(s)) => ~ Shutting(s)
         /\ Idle(Tail(s)) /\ ~ IsText(Head(s)) /\ ~ Closing(Head(s)) => Idle(s)
<1> DEFINE r == Tail(s)
<1>1. /\ 1 \in DOMAIN s /\ Head(s) = s[1]
      /\ \A i \in DOMAIN s : i \in Nat /\ i >= 1
      /\ \A i \in DOMAIN r : i \in Nat /\ i + 1 \in DOMAIN s /\ r[i] = s[i + 1]
      /\ \A i \in DOMAIN s : i # 1 => i - 1 \in DOMAIN r /\ r[i - 1] = s[i]
  BY LineTaken
<1>2. IsText(Head(s)) => ~ Closing(Head(s)) BY DEF IsText, Closing
<1> HIDE DEF r, IsText, Closing
<1>3. Shutting(r) => Shutting(s) BY <1>1 DEF Shutting
<1>4. Closing(Head(s)) => Shutting(s) BY <1>1 DEF Shutting
<1>5. ASSUME TextsLast(s) PROVE TextsLast(r)
  <2> SUFFICES ASSUME NEW i \in DOMAIN r, Closing(r[i]), NEW j \in DOMAIN r, j < i
               PROVE  ~ IsText(r[j])
    BY DEF TextsLast
  <2>1. i + 1 \in DOMAIN s /\ j + 1 \in DOMAIN s /\ j + 1 < i + 1 BY <1>1
  <2>2. Closing(s[i + 1]) BY <1>1
  <2>3. ~ IsText(s[j + 1]) BY <1>5, <2>1, <2>2 DEF TextsLast
  <2> QED BY <1>1, <2>3
<1>6. ASSUME TextsLast(s), IsText(Head(s)) PROVE ~ Shutting(s)
  <2> SUFFICES ASSUME NEW i \in DOMAIN s, Closing(s[i]) PROVE FALSE
    BY DEF Shutting
  <2>1. i # 1 BY <1>1, <1>2, <1>6
  <2>2. 1 < i BY <1>1, <2>1
  <2> QED BY <1>1, <1>6, <2>2 DEF TextsLast
<1>7. ASSUME Idle(r), ~ IsText(Head(s)), ~ Closing(Head(s)) PROVE Idle(s)
  <2> SUFFICES ASSUME NEW i \in DOMAIN s PROVE ~ IsText(s[i]) /\ ~ Closing(s[i])
    BY DEF Idle
  <2>1. CASE i = 1 BY <1>1, <1>7, <2>1
  <2>2. CASE i # 1 BY <1>1, <1>7, <2>2 DEF Idle
  <2> QED BY <2>1, <2>2
<1> QED BY <1>3, <1>4, <1>5, <1>6, <1>7 DEF r

(* The messages keep their kinds when their tokens are taken.              *)
LEMMA KindsForgot ==
  ASSUME NEW s
  PROVE  /\ Orderly(s) => /\ Shutting(Forgot(s)) <=> Shutting(s)
                          /\ TextsLast(s) => TextsLast(Forgot(s))
                          /\ Idle(Forgot(s)) => Idle(s)
         /\ Reported(s) => \A known : Opens(Forgot(s), known) <=> Opens(s, known)
<1> DEFINE r == Forgot(s)
<1>1. ASSUME Orderly(s)
      PROVE  /\ DOMAIN r = DOMAIN s
             /\ \A i \in DOMAIN s : (IsText(r[i]) <=> IsText(s[i])) /\ (Closing(r[i]) <=> Closing(s[i]))
  <2>1. IsLine(s) BY <1>1 DEF Orderly
  <2>2. DOMAIN r = DOMAIN s BY <2>1, ForgotLine
  <2>3. ASSUME NEW i \in DOMAIN s
        PROVE  r[i].what = s[i].what /\ (s[i].what = "USSD" => r[i].state = s[i].state)
    <3>1. IsOrder(s[i]) BY <1>1 DEF Orderly
    <3>2. r[i] = [s[i] EXCEPT !.token = NoToken] BY <2>1, ForgotLine
    <3> HIDE DEF r
    <3> QED BY <3>1, <3>2, ForgotOrder
  <2> HIDE DEF r
  <2> QED BY <2>2, <2>3 DEF IsText, Closing
<1>2. ASSUME Reported(s)
      PROVE  /\ DOMAIN r = DOMAIN s
             /\ \A i \in DOMAIN s : r[i].what = s[i].what
                                    /\ (s[i].what = "USSD" => r[i].state = s[i].state)
  <2>1. IsLine(s) BY <1>2 DEF Reported
  <2>2. DOMAIN r = DOMAIN s BY <2>1, ForgotLine
  <2>3. ASSUME NEW i \in DOMAIN s
        PROVE  r[i].what = s[i].what /\ (s[i].what = "USSD" => r[i].state = s[i].state)
    <3>1. IsReport(s[i]) BY <1>2 DEF Reported
    <3>2. r[i] = [s[i] EXCEPT !.token = NoToken] BY <2>1, ForgotLine
    <3> HIDE DEF r
    <3> QED BY <3>1, <3>2, ForgotReport
  <2> QED BY <2>2, <2>3
<1> HIDE DEF r, IsText, Closing
<1>3. ASSUME Orderly(s)
      PROVE  /\ Shutting(r) <=> Shutting(s)
             /\ TextsLast(s) => TextsLast(r)
             /\ Idle(r) => Idle(s)
  <2>1. /\ DOMAIN r = DOMAIN s
        /\ \A i \in DOMAIN s : (IsText(r[i]) <=> IsText(s[i])) /\ (Closing(r[i]) <=> Closing(s[i]))
    BY <1>1, <1>3
  <2> QED BY <2>1 DEF Shutting, TextsLast, Idle
<1>4. ASSUME Reported(s), NEW known PROVE Opens(r, known) <=> Opens(s, known)
  <2>1. /\ DOMAIN r = DOMAIN s
        /\ \A i \in DOMAIN s : r[i].what = s[i].what
                               /\ (s[i].what = "USSD" => r[i].state = s[i].state)
    BY <1>2, <1>4
  <2> QED BY <2>1 DEF Opens
<1> QED BY <1>3, <1>4 DEF r

(* What the driver will know, by what comes in and goes out of the line.   *)
LEMMA OpensFurther ==
  ASSUME NEW s, NEW r, Further(r, s), NEW known PROVE Opens(r, known) <=> Opens(s, known)
<1>1. \A m : RadioReport(m) => m.what # "USSD" BY DEF RadioReport, Reports
<1> HIDE DEF RadioReport, IsLine
<1>2. /\ DOMAIN s \subseteq DOMAIN r
      /\ \A i \in DOMAIN s : r[i] = s[i]
      /\ \A i \in DOMAIN r \ DOMAIN s : r[i].what # "USSD"
  BY <1>1 DEF Further
<1> QED BY <1>2 DEF Opens

(* A report at the end of the line: only one about the session says        *)
(* whether it will be open.                                                *)
LEMMA OpensAppended ==
  ASSUME NEW s, IsLine(s), NEW m, NEW known
  PROVE  /\ m.what # "USSD" => (Opens(Append(s, m), known) <=> Opens(s, known))
         /\ m.what = "USSD" => (Opens(Append(s, m), known) <=> m.state = "ACTION_REQUIRE")
<1> DEFINE r == Append(s, m)
           n == Len(s) + 1
<1>1. /\ DOMAIN r = DOMAIN s \cup {n} /\ n \notin DOMAIN s /\ r[n] = m
      /\ \A i \in DOMAIN s : r[i] = s[i] /\ i < n /\ i \in Nat
      /\ n \in Nat
  <2>1. Len(s) \in Nat /\ DOMAIN s = 1 .. Len(s) BY LineAppended
  <2> HIDE DEF Append
  <2> QED BY <2>1, LineAppended
<1> HIDE DEF r, n
<1>2. ASSUME m.what # "USSD" PROVE Opens(r, known) <=> Opens(s, known)
  BY <1>1, <1>2 DEF Opens
<1>3. ASSUME m.what = "USSD", Opens(r, known) PROVE m.state = "ACTION_REQUIRE"
  <2>1. PICK i \in DOMAIN r : /\ r[i].what = "USSD" /\ r[i].state = "ACTION_REQUIRE"
                              /\ \A j \in DOMAIN r : j > i => r[j].what # "USSD"
    BY <1>1, <1>3 DEF Opens
  <2>2. i = n BY <1>1, <1>3, <2>1
  <2> QED BY <1>1, <2>1, <2>2
<1>4. ASSUME m.what = "USSD", m.state = "ACTION_REQUIRE" PROVE Opens(r, known)
  <2>1. \A j \in DOMAIN r : ~ j > n BY <1>1
  <2> QED BY <1>1, <1>4, <2>1 DEF Opens
<1> QED BY <1>2, <1>3, <1>4 DEF r

(* The driver takes the first report of the line, and knows what it says.  *)
LEMMA OpensTaken ==
  ASSUME NEW s, IsLine(s), s # <<>>, NEW known
  PROVE  /\ Head(s).what # "USSD" => (Opens(Tail(s), known) <=> Opens(s, known))
         /\ Head(s).what = "USSD" => (Opens(Tail(s), Head(s).state) <=> Opens(s, known))
<1> DEFINE r == Tail(s)
<1>1. /\ 1 \in DOMAIN s /\ Head(s) = s[1]
      /\ \A i \in DOMAIN s : i \in Nat /\ i >= 1
      /\ \A i \in DOMAIN r : i \in Nat /\ i + 1 \in DOMAIN s /\ r[i] = s[i + 1] /\ i + 1 > 1
      /\ \A i \in DOMAIN s : i # 1 => i - 1 \in DOMAIN r /\ r[i - 1] = s[i]
  BY LineTaken
<1> HIDE DEF r
<1> DEFINE Last1(q, i) == /\ q[i].what = "USSD" /\ q[i].state = "ACTION_REQUIRE"
                          /\ \A j \in DOMAIN q : j > i => q[j].what # "USSD"
           None(q) == \A i \in DOMAIN q : q[i].what # "USSD"
<1>2. \A i \in DOMAIN r : Last1(r, i) => Last1(s, i + 1)
  <2> SUFFICES ASSUME NEW i \in DOMAIN r, Last1(r, i) PROVE Last1(s, i + 1)
    OBVIOUS
  <2>1. ASSUME NEW j \in DOMAIN s, j > i + 1 PROVE s[j].what # "USSD"
    <3>1. j # 1 /\ j - 1 \in DOMAIN r /\ j - 1 > i BY <1>1, <2>1
    <3> QED BY <1>1, <3>1
  <2> QED BY <1>1, <2>1
<1>3. \A i \in DOMAIN s : i # 1 /\ Last1(s, i) => Last1(r, i - 1)
  <2> SUFFICES ASSUME NEW i \in DOMAIN s, i # 1, Last1(s, i) PROVE Last1(r, i - 1)
    OBVIOUS
  <2>1. ASSUME NEW j \in DOMAIN r, j > i - 1 PROVE r[j].what # "USSD"
    <3>1. j + 1 \in DOMAIN s /\ j + 1 > i BY <1>1, <2>1
    <3> QED BY <1>1, <3>1
  <2> QED BY <1>1, <2>1
<1>4. None(s) <=> Head(s).what # "USSD" /\ None(r)
  <2>1. ASSUME None(s) PROVE None(r) BY <1>1, <2>1
  <2>2. ASSUME Head(s).what # "USSD", None(r), NEW i \in DOMAIN s PROVE s[i].what # "USSD"
    <3>1. CASE i = 1 BY <1>1, <2>2, <3>1
    <3>2. CASE i # 1 BY <1>1, <2>2, <3>2
    <3> QED BY <3>1, <3>2
  <2> QED BY <1>1, <2>1, <2>2
<1>5. Last1(s, 1) <=> Head(s).what = "USSD" /\ Head(s).state = "ACTION_REQUIRE" /\ None(r)
  <2>1. ASSUME Last1(s, 1) PROVE None(r)
    <3> SUFFICES ASSUME NEW j \in DOMAIN r PROVE r[j].what # "USSD"
      OBVIOUS
    <3>1. j + 1 \in DOMAIN s /\ j + 1 > 1 /\ r[j] = s[j + 1] BY <1>1
    <3> QED BY <2>1, <3>1
  <2>2. ASSUME None(r), NEW j \in DOMAIN s, j > 1 PROVE s[j].what # "USSD"
    BY <1>1, <2>2
  <2> QED BY <1>1, <2>1, <2>2
<1>6. \A q, k : Opens(q, k) <=> (\E i \in DOMAIN q : Last1(q, i)) \/ (k = "ACTION_REQUIRE" /\ None(q))
  BY DEF Opens
<1> HIDE DEF Last1, None
<1>7. (\E i \in DOMAIN s : Last1(s, i)) <=> Last1(s, 1) \/ \E i \in DOMAIN r : Last1(r, i)
  BY <1>1, <1>2, <1>3
<1>8. Opens(s, known) <=> \/ Last1(s, 1)
                          \/ \E i \in DOMAIN r : Last1(r, i)
                          \/ known = "ACTION_REQUIRE" /\ None(s)
  BY <1>6, <1>7
<1>9. Head(s).what # "USSD" => (Opens(r, known) <=> Opens(s, known))
  BY <1>4, <1>5, <1>6, <1>8
<1>10. Head(s).what = "USSD" => (Opens(r, Head(s).state) <=> Opens(s, known))
  BY <1>4, <1>5, <1>6, <1>8
<1> QED BY <1>9, <1>10 DEF r

-----------------------------------------------------------------------------
(* The driver and the session.  Nothing was lost, and no session was given *)
(* up that the network could still speak in.                               *)
Certain == ~ cut /\ failures = 0

(* The variables of the session have their types.                          *)
KnownTyped ==
  /\ ussd_state \in NotiState \cup {"NONE"}
  /\ session \in {"none", "served", "open"}
  /\ refused \in BOOLEAN /\ cut \in BOOLEAN

(* An order that ends the session meets a network that has nothing more to *)
(* say, and a driver that takes the session to be over.                    *)
EndsInPeace ==
  Certain /\ Shutting(toModem) =>
    session # "served" /\ ~ WillBeOpen /\ TextsLast(toModem)

(* Of a session that is over the driver knows or is about to.              *)
EndIsKnown == Certain /\ session = "none" => ~ WillBeOpen

(* While the modem refused nothing, it says so in every result.            *)
NoneRefused ==
  ~ refused => \A i \in DOMAIN fromModem : fromModem[i].what = "USSD_RES" => fromModem[i].ok

(* And so does it of a session that waits for it.                          *)
OpenIsKnown == Certain /\ ~ refused /\ session = "open" /\ Idle(toModem) => WillBeOpen

(* What the driver and the network hold of the session.                    *)
SessionInv == KnownTyped /\ EndsInPeace /\ EndIsKnown /\ NoneRefused /\ OpenIsKnown

(* When the network can no longer speak, nothing of USSD is under way.     *)
LEMMA NotSpeaking ==
  ASSUME IsLine(toModem), IsLine(fromModem), ~ Speaking
  PROVE  /\ session # "served"
         /\ \A i \in DOMAIN toModem : toModem[i].what # "USSD"
         /\ \A i \in DOMAIN fromModem : fromModem[i].what # "USSD"
<1> HIDE DEF IsLine, InLine
<1> QED BY InLineOf DEF Speaking, UssdUnderWay

(* No session is open at the start and none is known.                      *)
LEMMA SessionStart == UssdInit => SessionInv
<1> SUFFICES ASSUME UssdInit PROVE SessionInv
  OBVIOUS
<1>1. /\ toModem = <<>> /\ fromModem = Booting /\ ussd_state = "NONE" /\ session = "none"
      /\ refused = FALSE /\ cut = FALSE
  BY DEF UssdInit, Init
<1>2. DOMAIN Booting = {1} /\ Booting[1].what = "PWR_UP" BY DEF Booting, From
<1>3. ~ Shutting(toModem) BY <1>1 DEF Shutting
<1>4. ~ WillBeOpen BY <1>1, <1>2 DEF WillBeOpen, Opens
<1>5. \A i \in DOMAIN fromModem : fromModem[i].what # "USSD_RES" BY <1>1, <1>2
<1> QED BY <1>1, <1>3, <1>4, <1>5 DEF SessionInv, KnownTyped, EndsInPeace, EndIsKnown,
       NoneRefused, OpenIsKnown

(* No result of USSD comes with what has been added to the line, or with   *)
(* its rest.                                                               *)
LEMMA ResultsKept ==
  ASSUME NEW s, IsLine(s), \A i \in DOMAIN s : s[i].what = "USSD_RES" => s[i].ok
  PROVE  /\ \A r : Further(r, s) => \A i \in DOMAIN r : r[i].what = "USSD_RES" => r[i].ok
         /\ s # <<>> => \A i \in DOMAIN Tail(s) : Tail(s)[i].what = "USSD_RES" => Tail(s)[i].ok
         /\ \A m : (m.what = "USSD_RES" => m.ok) =>
              \A i \in DOMAIN Append(s, m) :
                Append(s, m)[i].what = "USSD_RES" => Append(s, m)[i].ok
         /\ Reported(s) =>
              \A i \in DOMAIN Forgot(s) : Forgot(s)[i].what = "USSD_RES" => Forgot(s)[i].ok
<1>1. ASSUME NEW r, Further(r, s)
      PROVE  \A i \in DOMAIN r : r[i].what = "USSD_RES" => r[i].ok
  <2>1. \A m : RadioReport(m) => m.what # "USSD_RES" BY DEF RadioReport, Reports
  <2> HIDE DEF RadioReport, IsLine
  <2> QED BY <1>1, <2>1 DEF Further
<1>2. ASSUME s # <<>>
      PROVE  \A i \in DOMAIN Tail(s) : Tail(s)[i].what = "USSD_RES" => Tail(s)[i].ok
  <2> HIDE DEF IsLine, Tail
  <2> QED BY <1>2, LineTaken
<1>3. ASSUME NEW m, m.what = "USSD_RES" => m.ok
      PROVE  \A i \in DOMAIN Append(s, m) :
               Append(s, m)[i].what = "USSD_RES" => Append(s, m)[i].ok
  <2> HIDE DEF IsLine, Append
  <2> QED BY <1>3, LineAppended
<1>4. ASSUME Reported(s), NEW i \in DOMAIN Forgot(s), Forgot(s)[i].what = "USSD_RES"
      PROVE  Forgot(s)[i].ok
  <2>1. i \in DOMAIN s /\ Forgot(s)[i] = [s[i] EXCEPT !.token = NoToken] BY <1>4, ForgotLine
  <2>2. IsReport(s[i]) BY <1>4, <2>1 DEF Reported
  <2>3. Forgot(s)[i].what = s[i].what /\ (s[i].what = "USSD_RES" => Forgot(s)[i].ok = s[i].ok)
    <3> HIDE DEF Forgot
    <3> QED BY <2>1, <2>2, ForgotReport
  <2> QED BY <1>4, <2>1, <2>3
<1> QED BY <1>1, <1>2, <1>3, <1>4

(* The radio's own steps do not touch the session.                         *)
LEMMA SessionRadio ==
  ASSUME LineInv, SessionInv, RadioStep PROVE SessionInv'
<1>1. /\ IsLine(toModem) /\ IsLine(fromModem) /\ Behind(toModem', toModem)
      /\ Reported(fromModem)
  BY DEF LineInv, Orderly, Reported, RadioStep
<1>2. /\ failures' = failures /\ ussd_state' = ussd_state /\ session' = session
      /\ refused' = refused /\ cut' = cut
  BY DEF RadioStep, ussdVars
<1> HIDE DEF IsLine, Behind, Reported, Tail, Further
<1>3. /\ Shutting(toModem') => Shutting(toModem)
      /\ TextsLast(toModem) => TextsLast(toModem')
      /\ Idle(toModem') => Idle(toModem)
  BY <1>1, OrdersBehind
<1>4. WillBeOpen' <=> WillBeOpen
  <2>1. CASE Further(fromModem', fromModem) BY <1>2, <2>1, OpensFurther DEF WillBeOpen
  <2>2. CASE /\ fromModem # <<>> /\ Head(fromModem).what \in Reports
             /\ fromModem' = Tail(fromModem)
    <3>1. Head(fromModem).what # "USSD" BY <2>2 DEF Reports
    <3> QED BY <1>1, <1>2, <2>2, <3>1, OpensTaken DEF WillBeOpen
  <2> QED BY <2>1, <2>2 DEF RadioStep
<1>5. NoneRefused'
  <2>1. ASSUME ~ refused
        PROVE  \A i \in DOMAIN fromModem' : fromModem'[i].what = "USSD_RES" => fromModem'[i].ok
    <3>1. \A i \in DOMAIN fromModem : fromModem[i].what = "USSD_RES" => fromModem[i].ok
      BY <2>1 DEF SessionInv, NoneRefused
    <3>2. CASE Further(fromModem', fromModem) BY <1>1, <3>1, <3>2, ResultsKept
    <3>3. CASE /\ fromModem # <<>> /\ fromModem' = Tail(fromModem)
      BY <1>1, <3>1, <3>3, ResultsKept
    <3> QED BY <3>2, <3>3 DEF RadioStep
  <2> QED BY <1>2, <2>1 DEF NoneRefused
<1>6. Certain' <=> Certain BY <1>2 DEF Certain
<1> HIDE DEF Certain, Shutting, TextsLast, Idle, WillBeOpen
<1> QED BY <1>2, <1>3, <1>4, <1>5, <1>6
        DEF SessionInv, KnownTyped, EndsInPeace, EndIsKnown, OpenIsKnown

(* The session is given up: the driver takes it to be over, and an order   *)
(* that ends it is on its way behind the texts.                            *)
LEMMA SessionGivenUp ==
  ASSUME LineInv, SessionInv, ussd_state' \in {"NONE", "TERMINATED_BY_NET"},
         cut' = (cut \/ Speaking), session' = session, refused' = refused,
         failures' = failures,
         (~ Speaking => TextsLast(toModem')), ~ Idle(toModem'),
         WillBeOpen' <=> Opens(fromModem, ussd_state'),
         NoneRefused'
  PROVE  SessionInv'
<1>1. IsLine(toModem) /\ IsLine(fromModem) BY DEF LineInv, Orderly, Reported
<1>2. ussd_state' # "ACTION_REQUIRE" /\ ussd_state' \in NotiState \cup {"NONE"}
  BY DEF NotiState, Ended
<1>3. KnownTyped'
  <2>1. cut' \in BOOLEAN BY DEF SessionInv, KnownTyped
  <2> QED BY <1>2, <2>1 DEF SessionInv, KnownTyped
<1>4. ASSUME Certain' PROVE Certain /\ ~ Speaking BY <1>4 DEF Certain, SessionInv, KnownTyped
<1>5. ASSUME Certain' PROVE session' # "served" /\ ~ WillBeOpen'
  <2>1. session # "served" /\ \A i \in DOMAIN fromModem : fromModem[i].what # "USSD"
    BY <1>1, <1>4, <1>5, NotSpeaking
  <2>2. ~ Opens(fromModem, ussd_state') BY <1>2, <2>1 DEF Opens
  <2> QED BY <2>1, <2>2
<1>6. EndsInPeace'
  <2> HIDE DEF Certain, Shutting, TextsLast, WillBeOpen, Speaking
  <2> QED BY <1>4, <1>5 DEF EndsInPeace
<1>7. EndIsKnown' /\ OpenIsKnown'
  <2> HIDE DEF Certain, Idle, WillBeOpen
  <2> QED BY <1>5 DEF EndIsKnown, OpenIsKnown
<1> QED BY <1>3, <1>6, <1>7 DEF SessionInv

(* RADIO_POWER_OFF orders the end of the session.  No text is before that  *)
(* order on the line, unless the session was given up while the network    *)
(* could still speak in it.                                                *)
LEMMA SessionOff ==
  ASSUME LineInv, SessionInv, OffStep PROVE SessionInv'
<1> DEFINE m == To("LPM", New)
           q == Append(toModem, m)
<1>1. /\ IsLine(toModem) /\ IsLine(fromModem) /\ Orderly(toModem) /\ Reported(fromModem)
  BY DEF LineInv, Orderly, Reported
<1>2. m.what = "LPM" /\ m = To(m.what, m.token) BY DEF To
<1>3. Closing(m) /\ IsOrder(m) BY <1>2 DEF Closing, IsOrder, Orders
<1>4. /\ toModem' = Forgot(q) /\ fromModem' = Forgot(fromModem) /\ ussd_state' = "NONE"
      /\ cut' = (cut \/ Speaking) /\ session' = session /\ refused' = refused
      /\ failures' = failures
  BY DEF OffStep
<1> HIDE DEF m, IsLine, Orderly, Reported, Forgot, Append, Speaking
<1>5. Orderly(q) BY <1>1, <1>3, OrderlyNext
<1>6. ~ Speaking => TextsLast(q)
  <2>1. ASSUME ~ Speaking PROVE \A i \in DOMAIN toModem : ~ IsText(toModem[i])
    BY <1>1, <2>1, NotSpeaking DEF IsText
  <2> HIDE DEF TextsLast, IsText, Closing
  <2> QED BY <1>1, <1>3, <2>1, OrdersAppended
<1>7. ~ Idle(q)
  <2> HIDE DEF Idle, Closing
  <2> QED BY <1>1, <1>3, OrdersAppended
<1> HIDE DEF q, TextsLast, Idle
<1>8. (~ Speaking => TextsLast(toModem')) /\ ~ Idle(toModem')
  BY <1>4, <1>5, <1>6, <1>7, KindsForgot
<1>9. WillBeOpen' <=> Opens(fromModem, ussd_state')
  <2>1. WillBeOpen' <=> Opens(Forgot(fromModem), ussd_state') BY <1>4 DEF WillBeOpen
  <2> HIDE DEF WillBeOpen, Opens
  <2> QED BY <1>1, <2>1, KindsForgot
<1>10. NoneRefused'
  <2>1. ASSUME ~ refused
        PROVE  \A i \in DOMAIN fromModem' : fromModem'[i].what = "USSD_RES" => fromModem'[i].ok
    <3>1. \A i \in DOMAIN fromModem : fromModem[i].what = "USSD_RES" => fromModem[i].ok
      BY <2>1 DEF SessionInv, NoneRefused
    <3> QED BY <1>1, <1>4, <3>1, ResultsKept
  <2> QED BY <1>4, <2>1 DEF NoneRefused
<1> HIDE DEF WillBeOpen, NoneRefused, SessionInv, LineInv, Opens
<1> QED BY <1>4, <1>8, <1>9, <1>10, SessionGivenUp

(* CANCEL_USSD orders the end of the session, with the same exception.     *)
LEMMA SessionCancelled ==
  ASSUME LineInv, SessionInv, CancelStep PROVE SessionInv'
<1> DEFINE q == Append(toModem, CancelOrder)
<1>1. /\ IsLine(toModem) /\ IsLine(fromModem) /\ IsLine(requests)
  BY DEF LineInv, Orderly, Reported
<1>2. /\ Behind(toModem', q) /\ fromModem' = fromModem
      /\ ussd_state' = "TERMINATED_BY_NET"
      /\ cut' = (cut \/ Speaking) /\ session' = session /\ refused' = refused
      /\ failures' = failures /\ New <= NRequests
  BY DEF CancelStep
<1>3. Closing(CancelOrder)
  <2>1. CancelOrder.what = "USSD" /\ CancelOrder.state = "TERMINATED_BY_NET"
    BY <1>1, <1>2, CancelOrdered
  <2> QED BY <2>1 DEF Closing
<1> HIDE DEF IsLine, Append, Speaking
<1>4. ~ Speaking => TextsLast(q)
  <2>1. ASSUME ~ Speaking PROVE \A i \in DOMAIN toModem : ~ IsText(toModem[i])
    BY <1>1, <2>1, NotSpeaking DEF IsText
  <2> HIDE DEF TextsLast, IsText, Closing
  <2> QED BY <1>1, <1>3, <2>1, OrdersAppended
<1>5. ~ Idle(q)
  <2> HIDE DEF Idle, Closing
  <2> QED BY <1>1, <1>3, OrdersAppended
<1> HIDE DEF q, TextsLast, Idle, Behind
<1>6. (~ Speaking => TextsLast(toModem')) /\ ~ Idle(toModem')
  BY <1>2, <1>4, <1>5, OrdersBehind
<1>7. WillBeOpen' <=> Opens(fromModem, ussd_state') BY <1>2 DEF WillBeOpen
<1>8. NoneRefused' BY <1>2 DEF SessionInv, NoneRefused
<1> HIDE DEF WillBeOpen, NoneRefused, SessionInv, LineInv, Opens
<1> QED BY <1>2, <1>6, <1>7, <1>8, SessionGivenUp

(* A text ends no session, and while it is on the line OpenIsKnown claims  *)
(* nothing.                                                                *)
LEMMA SessionSent ==
  ASSUME LineInv, SessionInv, NEW text \in Texts, SendStep(text) PROVE SessionInv'
<1>1. /\ IsLine(toModem) /\ IsLine(requests) BY DEF LineInv, Orderly
<1>2. /\ fromModem' = fromModem /\ failures' = failures /\ ussd_state' = ussd_state
      /\ session' = session /\ refused' = refused /\ cut' = cut
  BY DEF SendStep, ussdVars
<1>3. CASE toModem' = toModem
  BY <1>2, <1>3 DEF SessionInv, KnownTyped, EndsInPeace, EndIsKnown, NoneRefused,
     OpenIsKnown, Certain, WillBeOpen
<1>4. CASE ~ TooLong(text) /\ toModem' = Append(toModem, TextOrder(text))
  <2>1. IsText(TextOrder(text))
    <3>1. /\ TextOrder(text).what = "USSD"
          /\ TextOrder(text).state = IF Begins THEN "NO_ACTION_REQUIRE" ELSE "ACTION_REQUIRE"
      BY <1>1, <1>4, TextOrdered DEF SendStep
    <3> QED BY <3>1 DEF IsText
  <2> HIDE DEF TextOrder, Append, IsLine, IsText, Shutting, TextsLast, Idle, TooLong
  <2>2. /\ Shutting(toModem') => Shutting(toModem)
        /\ TextsLast(toModem) => TextsLast(toModem')
        /\ ~ Idle(toModem')
    BY <1>1, <1>4, <2>1, OrdersAppended
  <2>3. (WillBeOpen' <=> WillBeOpen) /\ (Certain' <=> Certain) BY <1>2 DEF WillBeOpen, Certain
  <2>4. NoneRefused' BY <1>2 DEF SessionInv, NoneRefused
  <2> HIDE DEF WillBeOpen, Certain
  <2> QED BY <1>2, <2>2, <2>3, <2>4
          DEF SessionInv, KnownTyped, EndsInPeace, EndIsKnown, OpenIsKnown
<1> QED BY <1>3, <1>4 DEF SendStep

(* The modem serves an order of the radio; the one that turns the radio    *)
(* off drops a session that nobody speaks in any more.                     *)
LEMMA SessionServed ==
  ASSUME LineInv, SessionInv, ServeStep PROVE SessionInv'
<1> DEFINE m == Head(toModem)
<1>1. /\ IsLine(toModem) /\ IsLine(fromModem) BY DEF LineInv, Orderly, Reported
<1>2. /\ toModem # <<>> /\ m.what \in Orders /\ toModem' = Tail(toModem)
      /\ Further(fromModem', fromModem)
      /\ session' = IF m.what = "LPM" THEN "none" ELSE session
      /\ failures' = failures /\ ussd_state' = ussd_state /\ refused' = refused /\ cut' = cut
  BY DEF ServeStep
<1>3. ~ IsText(m) /\ (Closing(m) <=> m.what = "LPM") BY <1>2 DEF IsText, Closing, Orders
<1> HIDE DEF m, IsLine, Tail, Further, Shutting, TextsLast, Idle, IsText, Closing
<1>4. /\ Shutting(toModem') => Shutting(toModem)
      /\ Closing(m) => Shutting(toModem)
      /\ TextsLast(toModem) => TextsLast(toModem')
      /\ Idle(toModem') /\ ~ Closing(m) => Idle(toModem)
  BY <1>1, <1>2, <1>3, OrdersTaken DEF m
<1>5. WillBeOpen' <=> WillBeOpen BY <1>2, OpensFurther DEF WillBeOpen
<1>6. NoneRefused'
  <2>1. ASSUME ~ refused
        PROVE  \A i \in DOMAIN fromModem' : fromModem'[i].what = "USSD_RES" => fromModem'[i].ok
    <3>1. \A i \in DOMAIN fromModem : fromModem[i].what = "USSD_RES" => fromModem[i].ok
      BY <2>1 DEF SessionInv, NoneRefused
    <3> QED BY <1>1, <1>2, <3>1, ResultsKept
  <2> QED BY <1>2, <2>1 DEF NoneRefused
<1>7. Certain' <=> Certain BY <1>2 DEF Certain
<1> HIDE DEF WillBeOpen, Certain, NoneRefused
<1>8. CASE Closing(m)
  BY <1>2, <1>3, <1>4, <1>5, <1>6, <1>7, <1>8
     DEF SessionInv, KnownTyped, EndsInPeace, EndIsKnown, OpenIsKnown
<1>9. CASE ~ Closing(m)
  BY <1>2, <1>3, <1>4, <1>5, <1>6, <1>7, <1>9
     DEF SessionInv, KnownTyped, EndsInPeace, EndIsKnown, OpenIsKnown
<1> QED BY <1>8, <1>9

(* What the driver reads last is what it knows of the session.             *)
LEMMA SessionReceived ==
  ASSUME LineInv, SessionInv, ReceiveStep PROVE SessionInv'
<1> DEFINE m == Head(fromModem)
<1>1. /\ IsLine(fromModem) /\ fromModem # <<>> /\ fromModem' = Tail(fromModem)
      /\ toModem' = toModem /\ failures' = failures /\ session' = session
      /\ refused' = refused /\ cut' = cut
  BY DEF LineInv, Reported, ReceiveStep
<1>2. IsReport(m) /\ 1 \in DOMAIN fromModem /\ m = fromModem[1]
  BY <1>1, LineTaken DEF LineInv, Reported
<1>3. \/ m.what = "USSD" /\ ussd_state' = m.state
      \/ /\ m.what = "USSD_RES" /\ ussd_state' \in {ussd_state, "NONE"}
         /\ m.ok => ussd_state' = ussd_state
  BY DEF ReceiveStep
<1> HIDE DEF m, IsLine, Tail
<1>4. NoneRefused'
  <2>1. ASSUME ~ refused
        PROVE  \A i \in DOMAIN fromModem' : fromModem'[i].what = "USSD_RES" => fromModem'[i].ok
    <3>1. \A i \in DOMAIN fromModem : fromModem[i].what = "USSD_RES" => fromModem[i].ok
      BY <2>1 DEF SessionInv, NoneRefused
    <3> QED BY <1>1, <3>1, ResultsKept
  <2> QED BY <1>1, <2>1 DEF NoneRefused
<1>5. ussd_state' \in NotiState \cup {"NONE"}
  <2>1. CASE m.what = "USSD"
    <3>1. Notice(m) BY <1>2, <2>1 DEF IsReport, UssdResult, RadioReport, Reports
    <3> QED BY <1>3, <2>1, <3>1 DEF Notice
  <2>2. CASE m.what = "USSD_RES" BY <1>3, <2>2 DEF SessionInv, KnownTyped
  <2> QED BY <1>3, <2>1, <2>2
<1>6. WillBeOpen' => WillBeOpen
  <2>1. CASE m.what = "USSD" BY <1>1, <1>3, <2>1, OpensTaken DEF WillBeOpen, m
  <2>2. CASE m.what = "USSD_RES"
    <3>1. \A k : Opens(Tail(fromModem), k) <=> Opens(fromModem, k)
      BY <1>1, <2>2, OpensTaken DEF m
    <3>2. ussd_state' = ussd_state \/ ussd_state' # "ACTION_REQUIRE" BY <1>3, <2>2
    <3>3. Opens(fromModem, ussd_state') => Opens(fromModem, ussd_state) BY <3>2 DEF Opens
    <3> QED BY <1>1, <3>1, <3>3 DEF WillBeOpen
  <2> QED BY <1>3, <2>1, <2>2
<1>7. ~ refused => (WillBeOpen' <=> WillBeOpen)
  <2>1. CASE m.what = "USSD" BY <1>1, <1>3, <2>1, OpensTaken DEF WillBeOpen, m
  <2>2. CASE m.what = "USSD_RES" /\ ~ refused
    <3>1. m.ok BY <1>2, <2>2 DEF SessionInv, NoneRefused
    <3>2. ussd_state' = ussd_state BY <1>3, <2>2, <3>1
    <3> QED BY <1>1, <2>2, <3>2, OpensTaken DEF WillBeOpen, m
  <2> QED BY <1>3, <2>1, <2>2
<1>8. Certain' <=> Certain BY <1>1 DEF Certain
<1> HIDE DEF WillBeOpen, Certain, NoneRefused
<1> QED BY <1>1, <1>4, <1>5, <1>6, <1>7, <1>8
        DEF SessionInv, KnownTyped, EndsInPeace, EndIsKnown, OpenIsKnown

(* The modem serves an order about the session and says how it stands.     *)
LEMMA SessionAsked ==
  ASSUME LineInv, SessionInv, ServeUssd PROVE SessionInv'
<1> DEFINE m == Head(toModem)
<1>1. /\ IsLine(toModem) /\ IsLine(fromModem) /\ toModem # <<>> /\ toModem' = Tail(toModem)
      /\ m.what = "USSD"
      /\ failures' = failures /\ ussd_state' = ussd_state /\ cut' = cut
  BY DEF LineInv, Orderly, Reported, ServeUssd
<1>2. UssdOrder(m)
  <2>1. 1 \in DOMAIN toModem /\ m = toModem[1] BY <1>1, LineTaken
  <2> QED BY <1>1, <2>1 DEF LineInv, Orderly, IsOrder, Orders
<1>3. \/ /\ session' = IF m.state = "TERMINATED_BY_NET" THEN "none" ELSE "served"
         /\ fromModem' = Append(fromModem, Result(m, TRUE)) /\ refused' = refused
      \/ /\ session' = session
         /\ fromModem' = Append(fromModem, Result(m, FALSE)) /\ refused' = TRUE
  BY DEF ServeUssd
<1>4. IsText(m) \/ Closing(m) BY <1>1 DEF IsText, Closing
<1>5. IsText(m) <=> m.state # "TERMINATED_BY_NET" BY <1>1 DEF IsText
<1>6. \A ok : Result(m, ok).what = "USSD_RES" /\ Result(m, ok).ok = ok BY <1>2, ResultReported
<1> HIDE DEF m, IsLine, Tail, Append, Shutting, TextsLast, Idle, IsText, Closing, Result
<1>7. /\ Shutting(toModem') => Shutting(toModem)
      /\ Closing(m) => Shutting(toModem)
      /\ TextsLast(toModem) => TextsLast(toModem')
      /\ TextsLast(toModem) /\ IsText(m) => ~ Shutting(toModem)
  BY <1>1, OrdersTaken DEF m
<1>8. WillBeOpen' <=> WillBeOpen
  <2>1. \A ok : Opens(Append(fromModem, Result(m, ok)), ussd_state) <=> Opens(fromModem, ussd_state)
    <3> TAKE ok
    <3>1. Result(m, ok).what # "USSD" BY <1>6
    <3> QED BY <1>1, <3>1, OpensAppended
  <2> QED BY <1>1, <1>3, <2>1 DEF WillBeOpen
<1>9. NoneRefused'
  <2>1. ASSUME ~ refused, fromModem' = Append(fromModem, Result(m, TRUE))
        PROVE  \A i \in DOMAIN fromModem' : fromModem'[i].what = "USSD_RES" => fromModem'[i].ok
    <3>1. \A i \in DOMAIN fromModem : fromModem[i].what = "USSD_RES" => fromModem[i].ok
      BY <2>1 DEF SessionInv, NoneRefused
    <3>2. Result(m, TRUE).what = "USSD_RES" => Result(m, TRUE).ok BY <1>6
    <3> QED BY <1>1, <2>1, <3>1, <3>2, ResultsKept
  <2>2. CASE refused' = TRUE BY <2>2 DEF NoneRefused
  <2>3. CASE refused' = refused /\ fromModem' = Append(fromModem, Result(m, TRUE))
    BY <2>1, <2>3 DEF NoneRefused
  <2> QED BY <1>3, <2>2, <2>3
<1>10. Certain' <=> Certain BY <1>1 DEF Certain
<1>11. refused' \in BOOLEAN /\ session' \in {"none", "served", "open"}
  BY <1>3 DEF SessionInv, KnownTyped
<1> HIDE DEF WillBeOpen, Certain, NoneRefused
<1>12. EndsInPeace' /\ EndIsKnown' /\ OpenIsKnown'
  <2>1. CASE session' = session /\ refused' = TRUE
    BY <1>1, <1>7, <1>8, <1>10, <2>1
       DEF SessionInv, EndsInPeace, EndIsKnown, OpenIsKnown
  <2>2. CASE session' = "served" /\ IsText(m)
    BY <1>1, <1>7, <1>8, <1>10, <2>2
       DEF SessionInv, EndsInPeace, EndIsKnown, OpenIsKnown
  <2>3. CASE session' = "none" /\ Closing(m)
    BY <1>1, <1>7, <1>8, <1>10, <2>3
       DEF SessionInv, EndsInPeace, EndIsKnown, OpenIsKnown
  <2> QED BY <1>3, <1>4, <1>5, <2>1, <2>2, <2>3
<1> QED BY <1>1, <1>9, <1>11, <1>12 DEF SessionInv, KnownTyped

(* The network opens a session, keeps it open or ends it and says so.      *)
LEMMA SessionSaid ==
  ASSUME LineInv, SessionInv, Say PROVE SessionInv'
<1>1. /\ IsLine(fromModem) /\ toModem' = toModem /\ failures' = failures
      /\ ussd_state' = ussd_state /\ refused' = refused /\ cut' = cut
  BY DEF LineInv, Reported, Say
<1>2. PICK state \in NotiState, s \in Said :
        /\ session = "served" \/ (session = "open" /\ state \in {"TERMINATED_BY_NET", "TIME_OUT"})
        /\ session' = IF state = "ACTION_REQUIRE" THEN "open" ELSE "none"
        /\ fromModem' = Append(fromModem, Saying(state, s))
  BY DEF Say, Saying
<1>3. Saying(state, s).what = "USSD" /\ Saying(state, s).state = state BY SayingNoticed
<1> HIDE DEF Saying, IsLine, Append
<1>4. WillBeOpen' <=> state = "ACTION_REQUIRE"
  <2>1. Opens(Append(fromModem, Saying(state, s)), ussd_state) <=> state = "ACTION_REQUIRE"
    BY <1>1, <1>3, OpensAppended
  <2> QED BY <1>1, <1>2, <2>1 DEF WillBeOpen
<1>5. NoneRefused'
  <2>1. ASSUME ~ refused
        PROVE  \A i \in DOMAIN fromModem' : fromModem'[i].what = "USSD_RES" => fromModem'[i].ok
    <3>1. \A i \in DOMAIN fromModem : fromModem[i].what = "USSD_RES" => fromModem[i].ok
      BY <2>1 DEF SessionInv, NoneRefused
    <3>2. Saying(state, s).what = "USSD_RES" => Saying(state, s).ok BY <1>3
    <3> QED BY <1>1, <1>2, <3>1, <3>2, ResultsKept
  <2> QED BY <1>1, <2>1 DEF NoneRefused
<1>6. Certain' <=> Certain BY <1>1 DEF Certain
<1>7. session' \in {"none", "served", "open"} BY <1>2
<1> HIDE DEF WillBeOpen, Certain, NoneRefused, Shutting, TextsLast, Idle
<1>8. EndsInPeace'
  <2> SUFFICES ASSUME Certain', Shutting(toModem)'
               PROVE  session' # "served" /\ ~ WillBeOpen' /\ TextsLast(toModem')
    BY DEF EndsInPeace
  <2>1. session # "served" /\ TextsLast(toModem)
    BY <1>1, <1>6 DEF SessionInv, EndsInPeace
  <2>2. state # "ACTION_REQUIRE" BY <1>2, <2>1
  <2> QED BY <1>1, <1>2, <1>4, <2>1, <2>2
<1>9. EndIsKnown' /\ OpenIsKnown' BY <1>2, <1>4 DEF EndIsKnown, OpenIsKnown
<1> QED BY <1>1, <1>5, <1>7, <1>8, <1>9 DEF SessionInv, KnownTyped

(* A failure of the driver takes tokens, not what it knows of the session. *)
LEMMA SessionFailed ==
  ASSUME LineInv, SessionInv, FailStep PROVE SessionInv'
<1>1. /\ fromModem' = Booting /\ session' = "none" /\ ussd_state' = ussd_state
      /\ refused' = refused /\ cut' = cut
  BY DEF FailStep
<1>2. ~ Certain'
  <2>1. failures' = failures + 1 /\ failures \in Nat BY DEF FailStep, LineInv
  <2> QED BY <2>1 DEF Certain
<1>3. NoneRefused'
  <2>1. DOMAIN Booting = {1} /\ Booting[1].what = "PWR_UP" BY DEF Booting, From
  <2> QED BY <1>1, <2>1 DEF NoneRefused
<1> HIDE DEF Certain, NoneRefused
<1> QED BY <1>1, <1>2, <1>3
        DEF SessionInv, KnownTyped, EndsInPeace, EndIsKnown, OpenIsKnown

(* What the driver and the network hold of the session stays so related.   *)
LEMMA SessionStep ==
  ASSUME LineInv, SessionInv, [UssdNext]_allVars PROVE SessionInv'
<1>1. IsLine(toModem) /\ IsLine(fromModem) BY DEF LineInv, Orderly, Reported
<1>2. ASSUME UNCHANGED <<toModem, fromModem, requests, failures, ussdVars>> PROVE SessionInv'
  BY <1>2 DEF ussdVars, SessionInv, KnownTyped, EndsInPeace, EndIsKnown, NoneRefused,
     OpenIsKnown, Certain, WillBeOpen
<1> HIDE DEF SessionInv, LineInv, RadioStep, OffStep, ServeStep, CancelStep, SendStep,
             ReceiveStep, FailStep, Say, ServeUssd, UssdNext
<1> QED BY <1>1, <1>2, UssdSteps, SessionRadio, SessionOff, SessionServed, SessionCancelled,
           SessionSent, SessionReceived, SessionAsked, SessionSaid, SessionFailed

(* The lines and the session are always as the invariants say.             *)
LEMMA SessionAlways == UssdSpec => [](LineInv /\ SessionInv)
<1> HIDE DEF LineInv, SessionInv, UssdInit, UssdNext, allVars
<1>1. UssdInit => LineInv /\ SessionInv BY LineStart, SessionStart
<1>2. LineInv /\ SessionInv /\ [UssdNext]_allVars => (LineInv /\ SessionInv)'
  BY LineStep, SessionStep
<1> QED BY <1>1, <1>2, PTL DEF UssdSpec

(* Unless the network refused a message, the client failed, or a session   *)
(* was given up while the network could still speak in it, the driver      *)
(* holds a session to be open if and only if it is, whenever nothing is    *)
(* under way: ss.c follows a session by its notifications alone, and no    *)
(* order of texts, results, cancels and the radio going off misleads it.   *)
THEOREM DriverKnowsSession == UssdSpec => []SessionAgrees
<1>1. LineInv /\ SessionInv => SessionAgrees
  <2> SUFFICES ASSUME LineInv, SessionInv, Quiet, session # "served", ~ refused, ~ cut,
                      failures = 0
               PROVE  ussd_state = "ACTION_REQUIRE" <=> session = "open"
    BY DEF SessionAgrees
  <2>1. DOMAIN toModem = {} /\ DOMAIN fromModem = {} BY DEF Quiet
  <2>2. WillBeOpen <=> ussd_state = "ACTION_REQUIRE" BY <2>1 DEF WillBeOpen, Opens
  <2>3. Idle(toModem) BY <2>1 DEF Idle
  <2>4. Certain BY DEF Certain
  <2>5. session \in {"none", "open"} BY DEF SessionInv, KnownTyped
  <2> HIDE DEF WillBeOpen, Idle, Certain
  <2> QED BY <2>2, <2>3, <2>4, <2>5 DEF SessionInv, EndIsKnown, OpenIsKnown
<1> HIDE DEF LineInv, SessionInv, SessionAgrees
<1> QED BY <1>1, SessionAlways, PTL

(* Also with messages refused, the driver sends a text as an answer only   *)
(* into a session that is there, or of whose end it is about to be told.   *)
THEOREM AnswersReachASession == UssdSpec => AnswersMeetASession
<1> DEFINE Met == session # "none" \/ \E n \in ToSet(fromModem) : n.what = "USSD" /\ n.state \in Ended
           A == AnswerSent /\ ~ cut /\ failures = 0 => Met
<1>1. LineInv /\ SessionInv /\ [UssdNext]_allVars => [A]_allVars
  <2> SUFFICES ASSUME LineInv, SessionInv, UssdNext, AnswerSent, ~ cut, failures = 0
               PROVE  Met
    OBVIOUS
  <2>1. /\ IsLine(toModem) /\ IsLine(fromModem) /\ IsLine(requests)
        /\ Len(requests) \in Nat /\ Len(toModem) \in Nat
    BY LineAppended DEF LineInv, Orderly, Reported
  <2>2. \A kind : Last(Append(requests, kind)) = kind
    <3> TAKE kind
    <3>1. /\ Append(requests, kind)[Len(requests) + 1] = kind
          /\ Len(Append(requests, kind)) = Len(requests) + 1
      <4> HIDE DEF IsLine, Append
      <4> QED BY <2>1, LineAppended
    <3> QED BY <3>1 DEF Last
  <2>3. PICK text \in Texts : SendStep(text)
    <3>1. [UssdNext]_allVars OBVIOUS
    <3>2. requests' # requests /\ Last(requests') = "SEND_USSD" BY <2>1 DEF AnswerSent
    <3>3. ~ RadioStep BY <2>2, <3>2 DEF RadioStep, Kind
    <3>4. ~ OffStep /\ ~ CancelStep
      <4>1. OffStep => requests' = Append(requests, "RADIO_POWER_OFF") BY DEF OffStep
      <4>2. CancelStep => requests' = Append(requests, "CANCEL_USSD") BY DEF CancelStep
      <4>3. ASSUME NEW kind, requests' = Append(requests, kind) PROVE kind = "SEND_USSD"
        <5>1. Last(Append(requests, kind)) = kind BY <2>2
        <5>2. Last(requests') = kind BY <4>3, <5>1
        <5> QED BY <3>2, <5>2
      <4> HIDE DEF OffStep, CancelStep
      <4> QED BY <4>1, <4>2, <4>3
    <3>5. ~ ServeStep /\ ~ ReceiveStep /\ ~ FailStep
      BY <3>2 DEF ServeStep, ReceiveStep, FailStep
    <3>6. ~ ServeUssd /\ ~ Say BY <3>2 DEF ServeUssd, Say, rild
    <3> HIDE DEF RadioStep, OffStep, ServeStep, CancelStep, SendStep, ReceiveStep, FailStep,
                 Say, ServeUssd, UssdNext, IsLine
    <3> QED BY <2>1, <3>1, <3>2, <3>3, <3>4, <3>5, <3>6, UssdSteps
  <2>4. ~ TooLong(text) /\ toModem' = Append(toModem, TextOrder(text))
    BY <2>1, <2>3 DEF SendStep, AnswerSent
  <2>5. Last(toModem') = TextOrder(text)
    <3>1. /\ Append(toModem, TextOrder(text))[Len(toModem) + 1] = TextOrder(text)
          /\ Len(Append(toModem, TextOrder(text))) = Len(toModem) + 1
      <4> HIDE DEF IsLine, Append, TextOrder
      <4> QED BY <2>1, LineAppended
    <3> HIDE DEF TextOrder
    <3> QED BY <2>4, <3>1 DEF Last
  <2>6. ~ Begins
    <3>1. TextOrder(text).state = IF Begins THEN "NO_ACTION_REQUIRE" ELSE "ACTION_REQUIRE"
      BY <2>1, <2>3, <2>4, TextOrdered DEF SendStep
    <3> QED BY <2>5, <3>1 DEF AnswerSent
  <2>7. ussd_state = "ACTION_REQUIRE" BY <2>6 DEF Begins, SessionInv, KnownTyped, NotiState
  <2>8. CASE session = "none"
    <3>1. ~ WillBeOpen BY <2>8 DEF SessionInv, EndIsKnown, Certain
    <3>2. PICK i \in DOMAIN fromModem : fromModem[i].what = "USSD"
      BY <2>7, <3>1 DEF WillBeOpen, Opens
    <3> DEFINE S == {j \in DOMAIN fromModem : fromModem[j].what = "USSD"}
    <3>3. PICK k \in S : \A j \in S : j <= k
      BY <2>1, <3>2, LastPlace
    <3>4. fromModem[k].state # "ACTION_REQUIRE"
      <4>1. \A j \in DOMAIN fromModem : j \in Nat BY <2>1, LineAppended
      <4>2. \A j \in DOMAIN fromModem : j > k => fromModem[j].what # "USSD" BY <3>3, <4>1
      <4> QED BY <3>1, <3>3, <4>2 DEF WillBeOpen, Opens
    <3>5. fromModem[k].what = "USSD" /\ IsReport(fromModem[k]) BY <3>3 DEF LineInv, Reported
    <3>6. fromModem[k].state \in NotiState
      BY <3>5 DEF IsReport, Notice, UssdResult, RadioReport, Reports
    <3>7. fromModem[k] \in ToSet(fromModem) BY <3>3 DEF ToSet
    <3> QED BY <3>4, <3>5, <3>6, <3>7 DEF NotiState
  <2> QED BY <2>8
<1> HIDE DEF A, LineInv, SessionInv, UssdInit, UssdNext, allVars
<1>2. UssdSpec => [][A]_allVars BY <1>1, SessionAlways, PTL DEF UssdSpec
<1> QED BY <1>2 DEF A, AnswersMeetASession

-----------------------------------------------------------------------------
(* The texts.                                                              *)

(* The conversions keep the texts of the instance: a text of rild is made  *)
(* of bytes that can be unpacked again, and what the network says can be   *)
(* read.  This is about the pure functions of Codecs alone.                *)
Convertible ==
  /\ \A t \in Texts : /\ t \in Seq(0 .. 255) /\ ascii2gsm7(t) \in Seq(0 .. 255)
                      /\ RoomForTrailer(t) => Unpacked(ascii2gsm7(t), Len(t)) = t
  /\ \A s \in Said : \A state \in NotiState :
       LET read == Decoded(Saying(state, s))
       IN  /\ read \in Seq(0 .. 255)
           /\ (IF s.alphabet = "ucs2" THEN Utf8Read(read) ELSE read) = s.text

(* What rild heard is a notification of the network, decoded.              *)
HeardTyped ==
  /\ said \in 0 .. MaxSays
  /\ \/ heard = [told |-> <<>>, meant |-> <<>>]
     \/ \E s \in Said : \E state \in NotiState :
          heard = [told |-> Decoded(Saying(state, s)), meant |-> s]

(* A notification on the line is one the network sent.                     *)
LEMMA NoticeIsSaying ==
  ASSUME NEW m, Notice(m) PROVE m = Saying(m.state, m.meant)
BY DEF Notice, Saying

(* Nothing was heard at the start.                                         *)
LEMMA HeardStart == UssdInit => HeardTyped
BY UssdBoundsAssumption DEF UssdInit, HeardTyped

(* Only a notification of the network changes what rild heard.             *)
LEMMA HeardStep ==
  ASSUME LineInv, HeardTyped, [UssdNext]_allVars PROVE HeardTyped'
<1>1. IsLine(toModem) /\ IsLine(fromModem) BY DEF LineInv, Orderly, Reported
<1>2. ASSUME said' = said, heard' = heard PROVE HeardTyped'
  <2> HIDE DEF Decoded, Saying
  <2> QED BY <1>2 DEF HeardTyped
<1>3. ASSUME ReceiveStep PROVE HeardTyped'
  <2> DEFINE m == Head(fromModem)
  <2>1. IsReport(m) /\ said' = said
    <3>1. fromModem # <<>> BY <1>3 DEF ReceiveStep
    <3>2. 1 \in DOMAIN fromModem /\ m = fromModem[1] BY <1>1, <3>1, LineTaken
    <3> QED BY <1>3, <3>2 DEF LineInv, Reported, ReceiveStep
  <2>2. CASE heard' = heard BY <1>2, <2>1, <2>2
  <2>3. CASE m.what = "USSD" /\ heard' = [told |-> Decoded(m), meant |-> m.meant]
    <3>1. Notice(m) BY <2>1, <2>3 DEF IsReport, UssdResult, RadioReport, Reports
    <3> HIDE DEF m
    <3>2. m = Saying(m.state, m.meant) /\ m.state \in NotiState /\ m.meant \in Said
      BY <3>1, NoticeIsSaying DEF Notice
    <3> DEFINE state == m.state
               s == m.meant
    <3>3. heard' = [told |-> Decoded(Saying(state, s)), meant |-> s] BY <2>3, <3>2
    <3>4. state \in NotiState /\ s \in Said BY <3>2
    <3> HIDE DEF state, s
    <3> QED BY <2>1, <3>3, <3>4 DEF HeardTyped
  <2> QED BY <1>3, <2>2, <2>3 DEF ReceiveStep
<1>4. ASSUME Say PROVE HeardTyped'
  <2>1. said < MaxSays /\ said' = said + 1 /\ heard' = heard BY <1>4 DEF Say
  <2>2. said' \in 0 .. MaxSays BY <2>1, UssdBoundsAssumption DEF HeardTyped
  <2> HIDE DEF Decoded, Saying
  <2> QED BY <2>1, <2>2 DEF HeardTyped
<1>5. ASSUME RadioStep \/ UNCHANGED <<toModem, fromModem, requests, failures, ussdVars>>
             \/ \E text \in Texts : SendStep(text)
      PROVE  said' = said /\ heard' = heard
  BY <1>5 DEF RadioStep, SendStep, ussdVars
<1>6. ASSUME OffStep \/ ServeStep \/ CancelStep \/ FailStep
      PROVE  said' = said /\ heard' = heard
  BY <1>6 DEF OffStep, ServeStep, CancelStep, FailStep
<1>7. ASSUME ServeUssd PROVE said' = said /\ heard' = heard BY <1>7 DEF ServeUssd
<1> HIDE DEF LineInv, HeardTyped, RadioStep, OffStep, ServeStep, CancelStep, SendStep,
             ReceiveStep, FailStep, Say, ServeUssd, UssdNext
<1> QED BY <1>1, <1>2, <1>3, <1>4, <1>5, <1>6, <1>7, UssdSteps

(* The three invariants together.                                          *)
LEMMA HeardAlways == UssdSpec => [](LineInv /\ SessionInv /\ HeardTyped)
<1> HIDE DEF LineInv, SessionInv, HeardTyped, UssdInit, UssdNext, allVars
<1>1. UssdInit => LineInv /\ SessionInv /\ HeardTyped
  BY LineStart, SessionStart, HeardStart
<1>2. LineInv /\ SessionInv /\ HeardTyped /\ [UssdNext]_allVars
        => (LineInv /\ SessionInv /\ HeardTyped)'
  BY LineStep, SessionStep, HeardStep
<1> QED BY <1>1, <1>2, PTL DEF UssdSpec

(* What is on its way to the modem are orders.                             *)
LEMMA OrderOf ==
  ASSUME LineInv, NEW m \in ToSet(toModem), IsUssd(m) PROVE UssdOrder(m)
<1>1. PICK i \in DOMAIN toModem : m = toModem[i] BY DEF ToSet
<1>2. IsOrder(m) BY <1>1 DEF LineInv, Orderly
<1> QED BY <1>2 DEF IsOrder, IsUssd, Orders

(* Every variable has its type, when the conversions make bytes of the     *)
(* texts; and whichever way a text is encoded, its message is copied past  *)
(* the buffer by the size of the header at most, and carries as much as it *)
(* says wherever there is room for it.                                     *)
THEOREM LengthsStated == ASSUME Convertible PROVE UssdSpec => []UssdInv
<1>1. ASSUME LineInv, SessionInv, HeardTyped PROVE UssdInv
  <2> DEFINE UssdTyped(m) == m.state \in NotiState /\ m.token \in Token \cup {NoToken}
  <2>1. ASSUME NEW m, IsUssd(m), IsOrder(m) \/ IsReport(m) PROVE UssdTyped(m)
    <3>1. UssdOrder(m) \/ UssdResult(m) \/ Notice(m)
      BY <2>1 DEF IsOrder, IsReport, RadioReport, IsUssd, Orders, Reports
    <3>2. CASE UssdOrder(m) BY <3>2 DEF UssdOrder, NotiState, Ended
    <3>3. CASE UssdResult(m) BY <3>3 DEF UssdResult
    <3>4. CASE Notice(m) BY <3>4 DEF Notice
    <3> QED BY <3>1, <3>2, <3>3, <3>4
  <2>2. ASSUME NEW m \in InLine, IsUssd(m) PROVE UssdTyped(m)
    <3>1. IsLine(toModem) /\ IsLine(fromModem) BY <1>1 DEF LineInv, Orderly, Reported
    <3>2. \/ \E i \in DOMAIN toModem : m = toModem[i]
          \/ \E i \in DOMAIN fromModem : m = fromModem[i]
      BY <3>1, InLineOf
    <3>3. IsOrder(m) \/ IsReport(m) BY <1>1, <3>2 DEF LineInv, Orderly, Reported
    <3> QED BY <2>1, <2>2, <3>3
  <2>3. ASSUME NEW m \in ToSet(toModem), IsUssd(m)
        PROVE  /\ m.length \in Nat /\ m.data \in Seq(0 .. 255)
               /\ m.length <= Room + HeaderSize
               /\ m.length <= Room => Len(m.data) = m.length
    <3>1. UssdOrder(m) BY <1>1, <2>3, OrderOf
    <3>2. \A t \in Texts : t \in Seq(0 .. 255) /\ ascii2gsm7(t) \in Seq(0 .. 255)
      BY DEF Convertible
    <3>3. PICK e \in Seq(0 .. 255) : Carries(m, e)
      <4>1. <<>> \in Seq(0 .. 255) OBVIOUS
      <4> HIDE DEF Carries
      <4> QED BY <3>1, <3>2, <4>1 DEF UssdOrder
    <3>4. Len(e) \in Nat /\ Room \in Nat /\ MessageSize = Room + HeaderSize
      BY UssdBoundsAssumption DEF Room
    <3>5. m.length = Len(e) /\ m.length \in Nat BY <3>3, <3>4 DEF Carries
    <3>6. m.length <= Room + HeaderSize BY <3>1, <3>4, <3>5, UssdBoundsAssumption DEF UssdOrder
    <3>7. CASE Len(e) <= Room BY <3>3, <3>5, <3>6, <3>7 DEF Carries
    <3>8. CASE ~ (Len(e) <= Room)
      <4>1. m.data = SubSeq(e, 1, Room) BY <3>3, <3>8 DEF Carries
      <4>2. SubSeq(e, 1, Room) \in Seq(0 .. 255)
        <5> DEFINE bytes == 0 .. 255
        <5>1. e \in Seq(bytes) /\ \A k \in 1 .. Room : k \in 1 .. Len(e) BY <3>4, <3>8
        <5> HIDE DEF bytes
        <5>2. \A k \in 1 .. Room : e[k] \in bytes BY <3>4, <5>1
        <5>3. SubSeq(e, 1, Room) \in Seq(bytes) BY <3>4, <5>2, SubSeqProperties
        <5> QED BY <5>3 DEF bytes
      <4> QED BY <3>5, <3>6, <3>8, <4>1, <4>2
    <3> QED BY <3>7, <3>8
  <2>4. heard.told \in Seq(0 .. 255)
    <3>1. CASE heard = [told |-> <<>>, meant |-> <<>>] BY <3>1
    <3>2. CASE \E s \in Said : \E state \in NotiState :
                 heard = [told |-> Decoded(Saying(state, s)), meant |-> s]
      <4>1. PICK s \in Said, state \in NotiState :
              heard = [told |-> Decoded(Saying(state, s)), meant |-> s]
        BY <3>2
      <4>2. heard.told = Decoded(Saying(state, s)) BY <4>1
      <4> HIDE DEF Decoded, Saying
      <4> QED BY <4>2 DEF Convertible
    <3> QED BY <1>1, <3>1, <3>2 DEF HeardTyped
  <2> HIDE DEF InLine
  <2> QED BY <1>1, <2>2, <2>3, <2>4
          DEF UssdInv, UssdTypeOK, SessionInv, KnownTyped, HeardTyped
<1> HIDE DEF LineInv, SessionInv, HeardTyped, UssdInv
<1>2. LineInv /\ SessionInv /\ HeardTyped => UssdInv BY <1>1
<1> QED BY <1>2, HeardAlways, PTL

(* The driver never mistakes one encoding for the other: with conversions  *)
(* that keep the texts, and where the message has room for the encoded     *)
(* text, the network can unpack each text that begins a session, if its    *)
(* length leaves room for the trailer, and read each answer as it is; and  *)
(* rild reads what the network meant.                                      *)
THEOREM TextsArrive == ASSUME Convertible PROVE UssdSpec => []TextsKept
<1>1. ASSUME LineInv, HeardTyped PROVE TextsKept
  <2>1. ASSUME NEW m \in ToSet(toModem), IsUssd(m), m.length <= Room
        PROVE  CASE m.state = "NO_ACTION_REQUIRE" ->
                      RoomForTrailer(m.text) => Unpacked(m.data, Len(m.text)) = m.text
                 [] OTHER -> m.data = m.text
    <3>1. UssdOrder(m) BY <1>1, <2>1, OrderOf
    <3>4. \A e : Carries(m, e) => m.data = e BY <2>1 DEF Carries
    <3>2. CASE m.state = "NO_ACTION_REQUIRE"
      <4>1. m.text \in Texts /\ Carries(m, ascii2gsm7(m.text)) BY <3>1, <3>2 DEF UssdOrder
      <4>2. m.data = ascii2gsm7(m.text) BY <3>4, <4>1
      <4>3. RoomForTrailer(m.text) => Unpacked(ascii2gsm7(m.text), Len(m.text)) = m.text
        BY <4>1 DEF Convertible
      <4> QED BY <3>2, <4>2, <4>3
    <3>3. CASE m.state # "NO_ACTION_REQUIRE"
      <4>1. Carries(m, m.text)
        <5> HIDE DEF Carries
        <5> QED BY <3>1, <3>3 DEF UssdOrder
      <4>2. m.data = m.text BY <3>4, <4>1
      <4> QED BY <3>3, <4>2
    <3> QED BY <3>2, <3>3
  <2>2. ASSUME heard.meant # <<>> PROVE Heard(heard.meant) = heard.meant.text
    <3>1. heard # [told |-> <<>>, meant |-> <<>>] BY <2>2
    <3>2. PICK s \in Said, state \in NotiState :
            heard = [told |-> Decoded(Saying(state, s)), meant |-> s]
      BY <1>1, <3>1 DEF HeardTyped
    <3>3. heard.told = Decoded(Saying(state, s)) /\ heard.meant = s BY <3>2
    <3> HIDE DEF Decoded, Saying
    <3>4. (IF s.alphabet = "ucs2" THEN Utf8Read(heard.told) ELSE heard.told) = s.text
      BY <3>3 DEF Convertible
    <3> QED BY <3>3, <3>4 DEF Heard
  <2> QED BY <2>1, <2>2 DEF TextsKept
<1> HIDE DEF LineInv, SessionInv, HeardTyped, TextsKept
<1>2. LineInv /\ SessionInv /\ HeardTyped => TextsKept BY <1>1
<1> QED BY <1>2, HeardAlways, PTL
=============================================================================
