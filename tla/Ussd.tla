-------------------------------- MODULE Ussd --------------------------------
(***************************************************************************)
(* USSD sessions (ss.c) beside the radio and the SIM, with which they      *)
(* share the line to the modem and onRequest: CANCEL_USSD has no break and *)
(* goes on into GET_SIM_STATUS with its token.  The driver keeps the state *)
(* the network notified last in ril_state.ussd_state; by it a text of rild *)
(* is sent as a new request, in packed characters, or as an answer into    *)
(* the session, as it is.  Texts are those of Codecs.                      *)
(*                                                                         *)
(* The result of a message finds its expectation unless RADIO_POWER off    *)
(* has cleared the ring (gen.c, see GenExpects).                           *)
(***************************************************************************)
EXTENDS RadioPower, Codecs

CONSTANTS
  Texts,        \* what rild may send
  Said,         \* what the network may say: an alphabet and a text
  MessageSize,  \* the bytes of a message's buffer, 0xc0 in the code
  HeaderSize,   \* how many of them struct ipc_ss_ussd takes
  MaxSays       \* bound: how often the network says something

ASSUME UssdBoundsAssumption ==
  MessageSize \in Nat /\ HeaderSize \in 0 .. MessageSize /\ MaxSays \in Nat

VARIABLES
  ussd_state,
  session,    \* at the network: none, served (it is about to say something), open
  said,       \* how often the network said something
  heard,      \* what rild heard last, and what the network had said
  refused,    \* the network refused a message
  cut         \* the driver gave up a session the network could still speak in

ussdVars == <<ussd_state, session, said, heard, refused, cut>>
allVars == <<vars, ussdVars>>

(* The states of a notification; NONE is the 0 that memset leaves.         *)
Ended == {"NO_ACTION_REQUIRE", "TERMINATED_BY_NET", "OTHER_CLIENT", "NOT_SUPPORT", "TIME_OUT"}
NotiState == Ended \cup {"ACTION_REQUIRE"}

UssdInit ==
  /\ Init
  /\ ussd_state = "NONE"
  /\ session = "none" /\ said = 0
  /\ heard = [told |-> <<>>, meant |-> <<>>]
  /\ refused = FALSE /\ cut = FALSE

IsUssd(m) == m.what \in {"USSD", "USSD_RES"}
UssdUnderWay == \E m \in InLine : m.what = "USSD"

UssdTypeOK ==
  /\ ussd_state \in NotiState \cup {"NONE"}
  /\ \A m \in InLine : IsUssd(m) => m.state \in NotiState /\ m.token \in Token \cup {NoToken}
  /\ \A m \in ToSet(toModem) : IsUssd(m) => m.length \in Nat /\ m.data \in Seq(0 .. 255)
  /\ session \in {"none", "served", "open"}
  /\ said \in 0 .. MaxSays /\ refused \in BOOLEAN /\ cut \in BOOLEAN
  /\ heard.told \in Seq(0 .. 255)

-----------------------------------------------------------------------------
(* Requests of rild.                                                       *)

(* Mutant of Begins: the end by the network is left out.                   *)
BeginsUnlessTerminated == ussd_state \in {"NONE"} \cup (Ended \ {"TERMINATED_BY_NET"})

(* Whether a text begins a session, by the state the driver knows.         *)
Begins == ussd_state \in {"NONE"} \cup Ended

Encoded(text) == IF Begins THEN ascii2gsm7(text) ELSE text

(* Mutant of TooLong: the text is measured before it is packed.            *)
TextTooLong(text) == Len(text) > MessageSize

(* The header, which shares the buffer with the text, is not counted.      *)
TooLong(text) == Len(Encoded(text)) > MessageSize

(* The room a message has for its text.                                    *)
Room == MessageSize - HeaderSize

(* A message states the length of the whole encoded text, and the buffer   *)
(* is sent: what was copied past its end is not.  (Whose memory that end   *)
(* overwrites is no part of the model.)                                    *)
Message(state, text, encoded) ==
  [what |-> "USSD", token |-> New, state |-> state, text |-> text,
   length |-> Len(encoded),
   data   |-> IF Len(encoded) <= Room THEN encoded ELSE SubSeq(encoded, 1, Room)]

ril_request_send_ussd(text) ==
  /\ Issue("SEND_USSD")
  /\ Apply(IF TooLong(text) THEN Completing(Start, New, "GENERIC_FAILURE")
           ELSE Sending(Start, Message(IF Begins THEN "NO_ACTION_REQUIRE" ELSE "ACTION_REQUIRE",
                                       text, Encoded(text))))
  /\ UNCHANGED <<fromModem, modem, forgotten, told, view, crossed, failures, ussdVars>>

(* Whether the network may still say something in a session.               *)
Speaking == session = "served" \/ UssdUnderWay

(* The session is taken to be over at once.  The request goes on as one    *)
(* for the status of the SIM; rild takes no card from its answer.          *)
CancelUssd ==
  /\ Issue("CANCEL_USSD")
  /\ ussd_state' = "TERMINATED_BY_NET"
  /\ Apply(ril_request_get_sim_status(
             Sending(Start, Message("TERMINATED_BY_NET", <<>>, <<>>)), New))
  /\ cut' = (cut \/ Speaking)
  /\ UNCHANGED <<session, said, heard, refused>>
  /\ UNCHANGED <<fromModem, modem, forgotten, told, view, crossed, failures>>

-----------------------------------------------------------------------------
(* Messages of the modem.                                                  *)

(* A refused text ends the session for the driver; a cancel is answered by *)
(* ipc_gen_phone_res itself.                                               *)
ipc_ss_ussd_complete(m) ==
  /\ Apply(Completing(Start, m.token, IF m.ok THEN "SUCCESS" ELSE "GENERIC_FAILURE"))
  /\ ussd_state' = IF m.token # NoToken /\ ~m.ok /\ m.state # "TERMINATED_BY_NET"
                   THEN "NONE" ELSE ussd_state
  /\ UNCHANGED heard

(* The text of a notification, by its coding scheme.                       *)
Decoded(m) ==
  LET scheme == sms_get_coding_scheme(m.dcs)
  IN  CASE m.data = <<>>      -> <<>>
        [] scheme = "GSM7"    -> Terminated(gsm72ascii(m.data))
        [] scheme = "UCS2"    -> FlattenSeq([i \in 1 .. Len(m.data) \div 2 |->
                                   utf8_write(m.data[2 * i - 1] * 256 + m.data[2 * i])])
        [] scheme = "UNKNOWN" -> Terminated(m.data)

(* Mutant of ipc_ss_ussd: one without a text does not count.               *)
UssdWithText(m) ==
  /\ ussd_state' = IF m.data = <<>> THEN ussd_state ELSE m.state
  /\ heard' = [told |-> Decoded(m), meant |-> m.meant]
  /\ UNCHANGED <<ril_state, toModem, answers>>

ipc_ss_ussd(m) ==
  /\ ussd_state' = m.state
  /\ heard' = [told |-> Decoded(m), meant |-> m.meant]
  /\ UNCHANGED <<ril_state, toModem, answers>>

ReceiveUssd ==
  /\ fromModem # <<>>
  /\ fromModem' = Tail(fromModem)
  /\ LET m == Head(fromModem)
     IN  \/ m.what = "USSD" /\ ipc_ss_ussd(m)
         \/ m.what = "USSD_RES" /\ ipc_ss_ussd_complete(m)
  /\ UNCHANGED <<session, said, refused, cut>>
  /\ UNCHANGED <<modem, requests, forgotten, told, view, crossed, failures>>

-----------------------------------------------------------------------------
(* The network.                                                            *)

Result(m, ok) == [what |-> "USSD_RES", token |-> m.token, state |-> m.state, ok |-> ok]

(* A text begins a session or goes into one, and a cancel ends one; what   *)
(* does not fit is refused, and anything may be.                           *)
Fits(m) ==
  /\ on
  /\ CASE m.state = "NO_ACTION_REQUIRE" -> session = "none"
       [] m.state = "ACTION_REQUIRE"    -> session = "open"
       [] m.state = "TERMINATED_BY_NET" -> session # "none"

ServeUssd ==
  /\ toModem # <<>> /\ Head(toModem).what = "USSD"
  /\ toModem' = Tail(toModem)
  /\ LET m == Head(toModem)
     IN  \/ /\ Fits(m)
            /\ session' = IF m.state = "TERMINATED_BY_NET" THEN "none" ELSE "served"
            /\ fromModem' = Append(fromModem, Result(m, TRUE))
            /\ UNCHANGED refused
         \/ /\ fromModem' = Append(fromModem, Result(m, FALSE))
            /\ refused' = TRUE
            /\ UNCHANGED session
  /\ UNCHANGED <<ussd_state, said, heard, cut, ril_state, modem, rild, failures>>

Dcs == [gsm7 |-> 15, ucs2 |-> 72, bytes |-> 68]

Written(s) ==
  CASE s.alphabet = "gsm7"  -> Packed(s.text)
    [] s.alphabet = "ucs2"  -> Ucs2(s.text)
    [] s.alphabet = "bytes" -> s.text

(* The network answers a text, leaving the session open or ending it, or   *)
(* ends a session that waits for rild.                                     *)
Say ==
  /\ on /\ said < MaxSays
  /\ said' = said + 1
  /\ \E state \in NotiState, s \in Said :
       /\ \/ session = "served"
          \/ session = "open" /\ state \in {"TERMINATED_BY_NET", "TIME_OUT"}
       /\ session' = IF state = "ACTION_REQUIRE" THEN "open" ELSE "none"
       /\ fromModem' = Append(fromModem,
            [what |-> "USSD", token |-> NoToken, state |-> state, meant |-> s,
             dcs |-> Dcs[s.alphabet], data |-> Written(s)])
  /\ UNCHANGED <<ussd_state, heard, refused, cut, ril_state, toModem, modem, rild, failures>>

-----------------------------------------------------------------------------

(* RADIO_POWER off clears the state of USSD too; the session ends when the *)
(* modem is switched off.                                                  *)
RadioPowerOffUssd ==
  /\ RadioPowerOff
  /\ ussd_state' = "NONE"
  /\ cut' = (cut \/ Speaking)
  /\ UNCHANGED <<session, said, heard, refused>>

ServeRadio ==
  /\ Serve
  /\ session' = IF Head(toModem).what = "LPM" THEN "none" ELSE session
  /\ UNCHANGED <<ussd_state, said, heard, refused, cut>>

(* The driver keeps its state when the modem boots.                        *)
ClientFailsUssd ==
  /\ ClientFails
  /\ session' = "none"
  /\ UNCHANGED <<ussd_state, said, heard, refused, cut>>

UssdNext ==
  \/ \E text \in Texts : ril_request_send_ussd(text)
  \/ CancelUssd
  \/ ReceiveUssd
  \/ ServeUssd
  \/ Say
  \/ RadioPowerOffUssd
  \/ ServeRadio
  \/ ClientFailsUssd
  \/ /\ \/ \E kind \in Requests \cap (Kind \ {"RADIO_POWER_ON", "RADIO_POWER_OFF"}) : onRequest(kind)
        \/ RadioPowerOn
        \/ Receive
        \/ SimChange
     /\ UNCHANGED ussdVars

UssdSpec == UssdInit /\ [][UssdNext]_allVars

-----------------------------------------------------------------------------
(* Properties.                                                             *)

(* When nothing is under way or about to be said, the driver holds the     *)
(* session to be open if and only if it is: unless the network refused a   *)
(* message, the client failed, or a session was given up the network could *)
(* still speak in.                                                         *)
SessionAgrees ==
  Quiet /\ session # "served" /\ on /\ ~refused /\ ~cut /\ failures = 0 =>
    (ussd_state = "ACTION_REQUIRE" <=> session = "open")

(* Every variable has its type.  However the driver encodes the text, a    *)
(* message is copied past its buffer by the size of the header at most,    *)
(* and carries as much as it says wherever there is room for it.           *)
UssdInv ==
  /\ UssdTypeOK
  /\ \A m \in ToSet(toModem) : IsUssd(m) =>
       /\ m.length <= Room + HeaderSize
       /\ m.length <= Room => Len(m.data) = m.length

(* A text is sent as an answer only into a session that is there, or whose *)
(* end is under way to the driver; not when a failure of the client, or a  *)
(* session given up too early, left the driver with the state of a session *)
(* that is gone.                                                           *)
AnswerSent ==
  /\ Len(requests') > Len(requests) /\ Last(requests') = "SEND_USSD"
  /\ Len(toModem') > Len(toModem) /\ Last(toModem').state = "ACTION_REQUIRE"

AnswersMeetASession ==
  [][AnswerSent /\ ~cut /\ failures = 0 =>
       session # "none" \/ \E n \in ToSet(fromModem) : n.what = "USSD" /\ n.state \in Ended]_allVars

(* Nothing is added to a text by the trailer of ascii2gsm7 when the last   *)
(* byte holds no more than four bits of the last character.                *)
RoomForTrailer(text) == Len(text) % 8 \in 4 .. 7

Heard(s) == IF s.alphabet = "ucs2" THEN Utf8Read(heard.told) ELSE heard.told

(* The network can read the text rild sent, if the message has room for    *)
(* the encoded text, and rild reads the text the network meant, whatever   *)
(* the alphabet and the length.                                            *)
TextsKept ==
  /\ \A m \in ToSet(toModem) :
       IsUssd(m) /\ m.length <= Room =>
         CASE m.state = "NO_ACTION_REQUIRE" ->
                RoomForTrailer(m.text) => Unpacked(m.data, Len(m.text)) = m.text
           [] OTHER -> m.data = m.text
  /\ heard.meant # <<>> => Heard(heard.meant) = heard.meant.text
=============================================================================
