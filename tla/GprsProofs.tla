----------------------------- MODULE GprsProofs -----------------------------
(***************************************************************************)
(* Theorems about Gprs, for any number of places, requests, refusals and   *)
(* drops.                                                                  *)
(***************************************************************************)
EXTENDS Gprs, SequenceTheorems, WellFoundedInduction, TLAPS

-----------------------------------------------------------------------------
(* Lemmas about the lines of messages.                                     *)

(* One message has come in at the end of a line.                           *)
Grown(new, old, m) ==
  \E n \in Nat \ DOMAIN old :
    /\ n # 0 /\ DOMAIN new = DOMAIN old \cup {n} /\ new[n] = m
    /\ \A i \in DOMAIN old : new[i] = old[i] /\ i < n

(* The first message of a line has been taken.                             *)
Shifted(new, old) ==
  /\ 1 \in DOMAIN old
  /\ \A i \in DOMAIN new : i + 1 \in DOMAIN old /\ i + 1 # 1 /\ new[i] = old[i + 1]
  /\ \A i \in DOMAIN old : i # 1 => i - 1 \in DOMAIN new /\ new[i - 1] = old[i]

(* The members of a sequence and their places.                             *)
LEMMA Places ==
  ASSUME NEW S, NEW s \in Seq(S)
  PROVE  /\ DOMAIN s \subseteq Nat \ {0} /\ \A i \in DOMAIN s : s[i] \in S
OBVIOUS

(* Append makes a line grow.                                               *)
LEMMA AppendGrows ==
  ASSUME NEW S, NEW s \in Seq(S), NEW m \in S
  PROVE  Append(s, m) \in Seq(S) /\ Grown(Append(s, m), s, m)
<1> DEFINE n == Len(s) + 1
<1>1. /\ Append(s, m) \in Seq(S) /\ Len(Append(s, m)) = Len(s) + 1
      /\ \A i \in 1 .. Len(s) : Append(s, m)[i] = s[i]
      /\ Append(s, m)[Len(s) + 1] = m
  OBVIOUS
<1>2. Len(s) \in Nat /\ DOMAIN s = 1 .. Len(s) /\ DOMAIN Append(s, m) = 1 .. Len(s) + 1
  BY <1>1
<1>3. n \in Nat \ DOMAIN s /\ n # 0 /\ DOMAIN Append(s, m) = DOMAIN s \cup {n} BY <1>2
<1>4. \A i \in DOMAIN s : Append(s, m)[i] = s[i] /\ i < n BY <1>1, <1>2
<1>5. Append(s, m)[n] = m BY <1>1
<1> HIDE DEF n
<1> QED BY <1>1, <1>3, <1>4, <1>5 DEF Grown

(* Tail takes the first message of a line.                                 *)
LEMMA TailShifts ==
  ASSUME NEW S, NEW s \in Seq(S), s # <<>>
  PROVE  Tail(s) \in Seq(S) /\ Shifted(Tail(s), s) /\ Head(s) = s[1] /\ Head(s) \in S
<1>1. /\ Tail(s) \in Seq(S) /\ Len(Tail(s)) = Len(s) - 1
      /\ \A i \in 1 .. Len(s) - 1 : Tail(s)[i] = s[i + 1]
      /\ Head(s) = s[1]
  OBVIOUS
<1>2. /\ Len(s) \in Nat /\ Len(s) > 0 /\ DOMAIN s = 1 .. Len(s)
      /\ DOMAIN Tail(s) = 1 .. Len(s) - 1
      /\ s[1] \in S
  BY <1>1
<1>3. ASSUME NEW i \in DOMAIN Tail(s)
      PROVE  i + 1 \in DOMAIN s /\ i + 1 # 1 /\ Tail(s)[i] = s[i + 1]
  BY <1>1, <1>2
<1>4. ASSUME NEW i \in DOMAIN s, i # 1
      PROVE  i - 1 \in DOMAIN Tail(s) /\ Tail(s)[i - 1] = s[i]
  <2>1. i \in 1 .. Len(s) /\ Len(s) \in Nat BY <1>2
  <2>2. i - 1 \in 1 .. Len(s) - 1 /\ (i - 1) + 1 = i BY <1>4, <2>1
  <2> QED BY <1>1, <1>2, <2>2
<1>5. 1 \in DOMAIN s BY <1>2
<1> QED BY <1>1, <1>2, <1>3, <1>4, <1>5 DEF Shifted

(* The same for \o with one message, and with two.                         *)
LEMMA OneMore ==
  ASSUME NEW S, NEW s \in Seq(S), NEW m \in S
  PROVE  s \o <<m>> \in Seq(S) /\ Grown(s \o <<m>>, s, m)
<1>1. s \o <<m>> = Append(s, m) OBVIOUS
<1> QED BY <1>1, AppendGrows

(* A line may grow by two messages at once, one behind the other.          *)
LEMMA TwoMore ==
  ASSUME NEW S, NEW s \in Seq(S), NEW m \in S, NEW n \in S
  PROVE  s \o <<m, n>> \in Seq(S) /\ \E r \in Seq(S) : Grown(r, s, m) /\ Grown(s \o <<m, n>>, r, n)
<1>1. s \o <<m, n>> = Append(Append(s, m), n) OBVIOUS
<1> DEFINE r == Append(s, m)
<1>2. r \in Seq(S) /\ Grown(r, s, m) BY AppendGrows
<1> HIDE DEF r
<1>3. Append(r, n) \in Seq(S) /\ Grown(Append(r, n), r, n) BY <1>2, AppendGrows
<1> QED BY <1>1, <1>2, <1>3 DEF r

(* Lowest yields a member of the set.                                      *)
LEMMA LowestIsThere ==
  ASSUME NEW S, S \subseteq Nat, S # {} PROVE Lowest(S) \in S
<1>1. \E x \in S : \A y \in S : ~ (<<y, x>> \in OpToRel(<, Nat))
  BY WFMin, NatLessThanWellFounded, Zenon
<1>2. \E x \in S : \A y \in S : ~ (<<y, x>> \in {ss \in Nat \X Nat : ss[1] < ss[2]})
  BY <1>1, Zenon DEF OpToRel
<1>3. PICK x \in S : \A y \in S : ~ (<<y, x>> \in {ss \in Nat \X Nat : ss[1] < ss[2]})
  BY <1>2
<1>4. ASSUME NEW y \in S PROVE x <= y
  <2>1. ~ (<<y, x>> \in {ss \in Nat \X Nat : ss[1] < ss[2]}) BY <1>3
  <2> QED BY <2>1
<1>5. \E z \in S : \A y \in S : z <= y BY <1>4
<1>6. (CHOOSE z \in S : \A y \in S : z <= y) \in S BY <1>5
<1> QED BY <1>6 DEF Lowest, Min

-----------------------------------------------------------------------------
(* Type correctness.                                                       *)

(* The answers there are.                                                  *)
Errnos == {"SUCCESS", "GENERIC_FAILURE"}

(* What a report of each kind consists of.                                 *)
LEMMA ReportKinds ==
  ASSUME NEW m \in Reports
  PROVE  /\ m.kind \in {"GEN", "IP", "STATUS", "LIST"}
         /\ m.kind = "GEN" => m.command \in Command /\ m.token \in Token /\ m.ok \in BOOLEAN
         /\ m.kind = "IP" => m.cid \in Cids /\ m = IpConfiguration(m.cid)
         /\ m.kind = "STATUS" =>
              /\ m.cid \in Cids /\ m.state \in {"ENABLED", "DISABLED", "NOT_ENABLED"}
              /\ m.ok \in BOOLEAN /\ m = CallStatus(m.cid, m.state, m.ok)
         /\ m.kind = "LIST" => m.token \in Lists \cup {NoToken} /\ m.on \subseteq Cids
BY DEF Reports, Result, Order, IpConfiguration, CallStatus, CallList

(* What a message to the modem consists of.                                *)
LEMMA RequestKinds ==
  ASSUME NEW m \in Requests
  PROVE  /\ m.token \in Token \cup {NoToken} /\ m.cid \in Cids
         /\ m.command = "LIST" => m.token \in Lists \cup {NoToken}
         /\ m.command # "LIST" => m \in Order /\ m.command \in Command /\ m.token \in Token
<1>1. 1 \in Cids BY CapabilitiesAssumption DEF Cids
<1>2. "LIST" \notin Command BY DEF Command
<1> QED BY <1>1, <1>2 DEF Requests, Order, AskList, Token

(* The constructors yield messages.                                        *)
LEMMA MessagesAreTyped ==
  /\ \A command \in Command, t \in Token, c \in Cids :
       [command |-> command, token |-> t, cid |-> c] \in Requests
  /\ \A t \in Lists \cup {NoToken} : AskList(t) \in Requests
  /\ \A order \in Order, ok \in BOOLEAN : Result(order, ok) \in Reports
  /\ \A c \in Cids : IpConfiguration(c) \in Reports
  /\ \A c \in Cids, state \in {"ENABLED", "DISABLED", "NOT_ENABLED"}, ok \in BOOLEAN :
       CallStatus(c, state, ok) \in Reports
  /\ \A t \in Lists \cup {NoToken}, on \in SUBSET Cids : CallList(t, on) \in Reports
BY DEF Requests, Reports, Order

(* What a place of the array consists of; a free one has nothing set.      *)
LEMMA ConnectionKinds ==
  ASSUME NEW x \in Connection \cup {NoConnection}
  PROVE  /\ x.used \in BOOLEAN /\ x.enabled \in BOOLEAN /\ x.ip \in BOOLEAN /\ x.interface \in BOOLEAN
         /\ x.token \in Token \cup {NoToken}
         /\ x.token # NoToken => x.used
         /\ ~ x.used => x = NoConnection /\ ~ x.enabled /\ x.token = NoToken
<1>1. CASE x \in Connection
  BY <1>1 DEF Connection
<1>2. CASE x = NoConnection
  BY <1>2 DEF NoConnection
<1> QED BY <1>1, <1>2

(* An answer keeps the type of answers.                                    *)
LEMMA AnsweredIsTyped ==
  ASSUME answers \in [Token -> Seq(Errnos)], NEW t \in Token \cup {NoToken}, NEW e \in Errnos
  PROVE  /\ Answered(t, e) \in [Token -> Seq(Errnos)]
         /\ \A u \in Token \ {t} : Answered(t, e)[u] = answers[u]
         /\ t \in Token => Answered(t, e)[t] = Append(answers[t], e)
                           /\ Answered(t, e)[t] # <<>>
         /\ t = NoToken => Answered(t, e) = answers
<1>1. NoToken \notin Token BY TokensAssumption
<1>2. \A s \in Seq(Errnos) : Append(s, e) \in Seq(Errnos) /\ Append(s, e) # <<>> OBVIOUS
<1> QED BY <1>1, <1>2 DEF Answered

(* The place a token leads to.                                             *)
LEMMA TokensPlace ==
  ASSUME TypeOK, NEW t \in Token
  PROVE  LET c == ril_gprs_connection_get_token(t)
         IN  \/ c = 0 /\ \A d \in Cids : conns[d].token # t
             \/ c \in Cids /\ c # 0 /\ conns[c].used /\ conns[c].token = t
<1> DEFINE S == {c \in Cids : conns[c].used /\ conns[c].token = t}
<1>1. S \subseteq Nat /\ Cids \subseteq Nat /\ 0 \notin Cids
  BY CapabilitiesAssumption DEF Cids
<1>2. \A d \in Cids : conns[d].token = t => d \in S
  <2>1. \A d \in Cids : conns[d] \in Connection \cup {NoConnection} BY DEF TypeOK
  <2>2. t # NoToken BY TokensAssumption
  <2> QED BY <2>1, <2>2, ConnectionKinds
<1>3. ril_gprs_connection_get_token(t) = Lowest(S)
  BY DEF ril_gprs_connection_get_token
<1>4. CASE S = {}
  <2>1. Lowest(S) = 0 BY <1>4 DEF Lowest
  <2> QED BY <1>2, <1>3, <1>4, <2>1
<1>5. CASE S # {}
  <2>1. Lowest(S) \in S BY <1>1, <1>5, LowestIsThere
  <2> QED BY <1>1, <1>3, <2>1
<1> QED BY <1>4, <1>5

(* The place a new request gets.                                           *)
LEMMA NewPlace ==
  ASSUME TypeOK
  PROVE  LET id == ril_gprs_connection_reg_id
         IN  \/ id = 0
             \/ id \in Cids /\ id # 0 /\ ~ conns[id].enabled
                /\ (FreePlace # 0 => ~ conns[id].used)
<1> DEFINE F == {c \in Cids : ~ conns[c].used}
           I == {c \in Cids : ~ conns[c].enabled}
<1>1. F \subseteq Nat /\ I \subseteq Nat /\ Cids \subseteq Nat /\ 0 \notin Cids
  BY CapabilitiesAssumption DEF Cids
<1>2. \A c \in Cids : ~ conns[c].used => ~ conns[c].enabled
  <2>1. \A c \in Cids : conns[c] \in Connection \cup {NoConnection} BY DEF TypeOK
  <2> QED BY <2>1, ConnectionKinds
<1>3. FreePlace = Lowest(F) /\ IdlePlace = Lowest(I) BY DEF FreePlace, IdlePlace
<1>4. Lowest(F) = 0 \/ Lowest(F) \in F BY <1>1, LowestIsThere DEF Lowest
<1>5. Lowest(I) = 0 \/ Lowest(I) \in I BY <1>1, LowestIsThere DEF Lowest
<1> QED BY <1>1, <1>2, <1>3, <1>4, <1>5 DEF ril_gprs_connection_reg_id

-----------------------------------------------------------------------------
(* What the steps do, in terms of the lines and of the places.             *)

(* One place of the array changes; its fields after the step.              *)
Becomes(c, used, token, enabled, interface, ip) ==
  /\ \A d \in Cids \ {c} : conns'[d] = conns[d]
  /\ conns'[c].used = used /\ conns'[c].token = token /\ conns'[c].enabled = enabled
  /\ conns'[c].interface = interface /\ conns'[c].ip = ip

WithToken(c, t) ==
  Becomes(c, TRUE, t, conns[c].enabled, conns[c].interface, conns[c].ip)
Deleted(c) == Becomes(c, FALSE, NoToken, FALSE, FALSE, FALSE)

(* A request is answered, unless t is the null token.                      *)
Answering(t) ==
  /\ \A u \in Token \ {t} : answers'[u] = answers[u]
  /\ t \in Token => answers'[t] # <<>> /\ Len(answers'[t]) = Len(answers[t]) + 1
  /\ t = NoToken => answers' = answers

(* Whoever waits for the connection is noted as displaced.                 *)
Displacing(c) == displaced \subseteq displaced' /\ Waiting(c) \subseteq displaced'

(* What the steps of rild come to.                                         *)
RefusedStep(t) ==
  /\ t \in (Setups \cup Deacts) \ issued
  /\ issued' = issued \cup {t} /\ Answering(t)
  /\ \A u \in Deacts \ {t} : target'[u] = target[u]
  /\ displaced \subseteq displaced'
  /\ UNCHANGED <<conns, lastFailed, toModem, fromModem, context, active, mistaken, reclaims>>

SetupStep(t, id) ==
  /\ t \in Setups \ issued /\ id \in Cids /\ ~ conns[id].enabled
  /\ reclaims' = 0 => ~ conns[id].used /\ reclaims = 0
  /\ issued' = issued \cup {t} /\ Displacing(id)
  /\ Becomes(id, TRUE, t, FALSE, FALSE, FALSE)
  /\ \E command \in {"PORT_LIST", "DEFINE"} :
       Grown(toModem', toModem, [command |-> command, token |-> t, cid |-> id])
  /\ UNCHANGED <<lastFailed, fromModem, context, target, answers, active, mistaken>>

DeactivateStep(t, c) ==
  /\ t \in Deacts \ issued /\ c \in Cids /\ c \in active /\ conns[c].used
  /\ \A u \in Deacts : target[u] = c => ~ Pending(u)
  /\ issued' = issued \cup {t} /\ Displacing(c)
  /\ target'[t] = c /\ \A u \in Deacts \ {t} : target'[u] = target[u]
  /\ WithToken(c, t)
  /\ Grown(toModem', toModem, [command |-> "DISABLE", token |-> t, cid |-> c])
  /\ UNCHANGED <<lastFailed, fromModem, context, answers, active, mistaken, reclaims>>

CauseStep(c) ==
  /\ c = lastFailed /\ c \in Cids /\ lastFailed # 0 /\ lastFailed' = 0
  /\ Displacing(c) /\ Deleted(c)
  /\ UNCHANGED <<toModem, fromModem, context, target, answers, issued, active, mistaken,
                 reclaims>>

ListStep(t) ==
  /\ t \in Lists \ issued /\ issued' = issued \cup {t}
  /\ \/ Grown(toModem', toModem, AskList(t)) /\ mistaken' = mistaken
     \/ Grown(toModem', toModem, AskList(NoToken)) /\ mistaken' = mistaken \cup {t}
  /\ UNCHANGED <<conns, lastFailed, fromModem, context, target, answers, active, displaced,
                 reclaims>>

(* What every step of the reader has in common, m being the message.       *)
Reading(m, kind) ==
  /\ m = fromModem[1] /\ m.kind = kind /\ m \in Reports
  /\ Shifted(fromModem', fromModem)
  /\ UNCHANGED <<context, target, issued, displaced, mistaken, reclaims>>

(* The reader: results of commands, of which c is the connection.          *)
FailedStep(m, c) ==
  /\ Reading(m, "GEN") /\ Answering(m.token)
  /\ \/ /\ c = 0 /\ \A d \in Cids : conns[d].token # m.token
        /\ UNCHANGED <<conns, lastFailed>>
     \/ /\ c \in Cids /\ conns[c].token = m.token /\ ~ m.ok
        /\ \/ m.command = "DISABLE" /\ Deleted(c) /\ UNCHANGED lastFailed
           \/ m.command # "DISABLE" /\ WithToken(c, NoToken) /\ lastFailed' = c
  /\ UNCHANGED <<toModem, active>>

ProceedStep(m, c) ==
  /\ Reading(m, "GEN") /\ m.ok /\ c \in Cids /\ conns[c].token = m.token
  /\ \/ m.command \in {"ENABLE", "DISABLE"} /\ UNCHANGED toModem
     \/ /\ m.command \in {"PORT_LIST", "DEFINE"}
        /\ \E command \in {"DEFINE", "ENABLE"} :
             Grown(toModem', toModem, [command |-> command, token |-> m.token, cid |-> c])
  /\ UNCHANGED <<conns, lastFailed, answers, active>>

(* The reader: notifications and lists.                                    *)
IpStep(m, c) ==
  /\ Reading(m, "IP") /\ m = IpConfiguration(c) /\ c \in Cids
  /\ \/ ~ conns[c].used /\ UNCHANGED conns
     \/ Becomes(c, TRUE, conns[c].token, conns[c].enabled, conns[c].interface, TRUE)
  /\ UNCHANGED <<lastFailed, toModem, answers, active>>

(* The branches of ipc_gprs_call_status.                                   *)
UnusedStatus(m, c) ==
  ~ conns[c].used /\ UNCHANGED <<conns, lastFailed, answers, active, toModem>>
EnabledStatus(m, c) ==
  /\ m = CallStatus(c, "ENABLED", TRUE) /\ ~ conns[c].enabled /\ conns[c].token # NoToken
  /\ \/ /\ Becomes(c, TRUE, NoToken, TRUE, TRUE, conns[c].ip)
        /\ active' = active \cup {c} /\ UNCHANGED lastFailed
     \/ /\ Becomes(c, TRUE, conns[c].token, conns[c].enabled, TRUE, conns[c].ip)
        /\ IfcFails /\ UNCHANGED active
  /\ Answering(conns[c].token) /\ UNCHANGED toModem
DisabledStatus(m, c) ==
  /\ m = CallStatus(c, "DISABLED", TRUE) /\ conns[c].enabled /\ conns[c].token # NoToken
  /\ Deleted(c) /\ Answering(conns[c].token)
  /\ active' = active \ {c}
  /\ UNCHANGED <<lastFailed, toModem>>
NotEnabledStatus(m, c) ==
  /\ m.state # "ENABLED" /\ ~ m.ok /\ ~ conns[c].enabled /\ conns[c].token # NoToken
  /\ WithToken(c, NoToken) /\ Answering(conns[c].token) /\ lastFailed' = c
  /\ Grown(toModem', toModem, AskList(NoToken))
  /\ UNCHANGED active
DroppedStatus(m, c) ==
  /\ m = CallStatus(c, "DISABLED", FALSE) /\ conns[c].enabled
  /\ Deleted(c)
  /\ Grown(toModem', toModem, AskList(NoToken))
  /\ UNCHANGED <<lastFailed, answers, active>>
UnexpectedStatus(m, c) ==
  /\ \/ m.ok /\ m.state # (IF conns[c].enabled THEN "DISABLED" ELSE "ENABLED")
     \/ m.ok /\ conns[c].token = NoToken
     \/ ~ m.ok /\ conns[c].enabled /\ m.state # "DISABLED"
     \/ ~ m.ok /\ ~ conns[c].enabled /\ (m.state = "ENABLED" \/ conns[c].token = NoToken)
  /\ Grown(toModem', toModem, AskList(NoToken))
  /\ UNCHANGED <<conns, lastFailed, answers, active>>

StatusStep(m, c) ==
  /\ Reading(m, "STATUS") /\ c \in Cids /\ m = CallStatus(c, m.state, m.ok)
  /\ \/ UnusedStatus(m, c) \/ EnabledStatus(m, c) \/ DisabledStatus(m, c)
     \/ NotEnabledStatus(m, c) \/ DroppedStatus(m, c) \/ UnexpectedStatus(m, c)

CallListStep(m) ==
  /\ Reading(m, "LIST") /\ active' = m.on /\ m.on \subseteq Cids /\ Answering(m.token)
  /\ UNCHANGED <<conns, lastFailed, toModem>>

(* The driver and rild have no part in what the modem does.                *)
ByTheModem ==
  UNCHANGED <<conns, lastFailed, target, answers, issued, active, displaced, mistaken,
              reclaims>>

(* The modem serves order: the context, and the result.                    *)
ServeStep(order) ==
  /\ order = toModem[1] /\ order \in Requests /\ Shifted(toModem', toModem)
  /\ \/ /\ order.command = "LIST"
        /\ \E on : /\ on = {c \in Cids : context[c] = "on"}
                   /\ Grown(fromModem', fromModem, CallList(order.token, on))
        /\ UNCHANGED context
     \/ /\ order.command \in {"PORT_LIST", "DEFINE"}
        /\ \E ok \in BOOLEAN : Grown(fromModem', fromModem, Result(order, ok))
        /\ UNCHANGED context
     \/ /\ order.command \in {"ENABLE", "DISABLE"}
        /\ Grown(fromModem', fromModem, Result(order, FALSE))
        /\ UNCHANGED context
        /\ \/ context[order.cid] # (IF order.command = "ENABLE" THEN "off" ELSE "on")
           \/ order.command \in Refusable
     \/ /\ order.command \in {"ENABLE", "DISABLE"}
        /\ Grown(fromModem', fromModem, Result(order, TRUE))
        /\ \A d \in Cids \ {order.cid} : context'[d] = context[d]
        /\ IF order.command = "ENABLE"
           THEN context[order.cid] = "off" /\ context'[order.cid] = "activating"
           ELSE context[order.cid] = "on" /\ context'[order.cid] = "deactivating"
  /\ ByTheModem

(* The context of c turns, and the driver is told.                         *)
TurnStep(c, from, to) ==
  /\ c \in Cids /\ context[c] = from /\ context'[c] = to
  /\ \A d \in Cids \ {c} : context'[d] = context[d]
  /\ UNCHANGED toModem /\ ByTheModem

(* The four ways in which a context turns by itself.                       *)
ActivateStep(c) ==
  /\ TurnStep(c, "activating", "on")
  /\ \E r \in Seq(Reports) :
       /\ Grown(r, fromModem, IpConfiguration(c))
       /\ Grown(fromModem', r, CallStatus(c, "ENABLED", TRUE))
ActivationFailsStep(c) ==
  /\ TurnStep(c, "activating", "off")
  /\ Grown(fromModem', fromModem, CallStatus(c, "NOT_ENABLED", FALSE))
DeactivatedStep(c) ==
  /\ TurnStep(c, "deactivating", "off")
  /\ Grown(fromModem', fromModem, CallStatus(c, "DISABLED", TRUE))
DropStep(c) ==
  /\ TurnStep(c, "on", "off")
  /\ Grown(fromModem', fromModem, CallStatus(c, "DISABLED", FALSE))

(* One place of the array is replaced.                                     *)
LEMMA PlaceBecomes ==
  ASSUME TypeOK, NEW c \in Cids, NEW x \in Connection \cup {NoConnection},
         conns' = [conns EXCEPT ![c] = x]
  PROVE  /\ Becomes(c, x.used, x.token, x.enabled, x.interface, x.ip)
         /\ conns' \in [Cids -> Connection \cup {NoConnection}]
BY DEF TypeOK, Becomes

(* ril_gprs_connection_del empties one place.                              *)
LEMMA DeletedPlace ==
  ASSUME TypeOK, NEW c \in Cids, conns' = ril_gprs_connection_del(c)
  PROVE  Deleted(c) /\ conns' \in [Cids -> Connection \cup {NoConnection}]
<1> DEFINE x == NoConnection
<1>1. x.used = FALSE /\ x.token = NoToken /\ x.enabled = FALSE /\ x.interface = FALSE
      /\ x.ip = FALSE
  BY DEF NoConnection
<1>2. conns' = [conns EXCEPT ![c] = x] BY DEF ril_gprs_connection_del
<1>3. x \in Connection \cup {NoConnection} OBVIOUS
<1> HIDE DEF x
<1> QED BY <1>1, <1>2, <1>3, PlaceBecomes DEF Deleted

(* A new connection has a token and nothing else.                          *)
LEMMA NewPlaceOf ==
  ASSUME TypeOK, NEW c \in Cids, NEW t \in Token, conns' = [conns EXCEPT ![c] = NewConnection(t)]
  PROVE  /\ Becomes(c, TRUE, t, FALSE, FALSE, FALSE)
         /\ conns' \in [Cids -> Connection \cup {NoConnection}]
<1> DEFINE x == NewConnection(t)
<1>1. x.used = TRUE /\ x.token = t /\ x.enabled = FALSE /\ x.interface = FALSE
      /\ x.ip = FALSE /\ x \in Connection
  BY DEF NewConnection, NoConnection, Connection
<1>2. conns' = [conns EXCEPT ![c] = x] OBVIOUS
<1> HIDE DEF x
<1>4. /\ Becomes(c, x.used, x.token, x.enabled, x.interface, x.ip)
      /\ conns' \in [Cids -> Connection \cup {NoConnection}]
  BY <1>1, <1>2, PlaceBecomes
<1> QED BY <1>1, <1>4 DEF Becomes

(* Only the token of a connection is replaced.                             *)
LEMMA TokenChanged ==
  ASSUME TypeOK, NEW c \in Cids, NEW t \in Token \cup {NoToken}, conns[c].used,
         conns' = [conns EXCEPT ![c].token = t]
  PROVE  WithToken(c, t) /\ conns' \in [Cids -> Connection \cup {NoConnection}]
<1> DEFINE x == [conns[c] EXCEPT !.token = t]
<1>1. conns[c] \in Connection BY DEF TypeOK, NoConnection
<1>2. /\ x.used = TRUE /\ x.token = t /\ x.enabled = conns[c].enabled
      /\ x.interface = conns[c].interface /\ x.ip = conns[c].ip /\ x \in Connection
  BY <1>1 DEF Connection
<1>3. conns' = [conns EXCEPT ![c] = x] OBVIOUS
<1> HIDE DEF x
<1> QED BY <1>2, <1>3, PlaceBecomes DEF WithToken

(* The address is set.                                                     *)
LEMMA IpSet ==
  ASSUME TypeOK, NEW c \in Cids, conns[c].used, conns' = [conns EXCEPT ![c].ip = TRUE]
  PROVE  /\ Becomes(c, TRUE, conns[c].token, conns[c].enabled, conns[c].interface, TRUE)
         /\ conns' \in [Cids -> Connection \cup {NoConnection}]
<1> DEFINE x == [conns[c] EXCEPT !.ip = TRUE]
<1>1. conns[c] \in Connection BY DEF TypeOK, NoConnection
<1>2. /\ x.used = TRUE /\ x.token = conns[c].token /\ x.enabled = conns[c].enabled
      /\ x.interface = conns[c].interface /\ x.ip = TRUE /\ x \in Connection
  BY <1>1 DEF Connection
<1>3. conns' = [conns EXCEPT ![c] = x] OBVIOUS
<1> HIDE DEF x
<1> QED BY <1>2, <1>3, PlaceBecomes

(* The interface is set.                                                   *)
LEMMA InterfaceSet ==
  ASSUME TypeOK, NEW c \in Cids, conns[c].used, conns' = [conns EXCEPT ![c].interface = TRUE]
  PROVE  /\ Becomes(c, TRUE, conns[c].token, conns[c].enabled, TRUE, conns[c].ip)
         /\ conns' \in [Cids -> Connection \cup {NoConnection}]
<1> DEFINE x == [conns[c] EXCEPT !.interface = TRUE]
<1>1. conns[c] \in Connection BY DEF TypeOK, NoConnection
<1>2. /\ x.used = TRUE /\ x.token = conns[c].token /\ x.enabled = conns[c].enabled
      /\ x.interface = TRUE /\ x.ip = conns[c].ip /\ x \in Connection
  BY <1>1 DEF Connection
<1>3. conns' = [conns EXCEPT ![c] = x] OBVIOUS
<1> HIDE DEF x
<1> QED BY <1>2, <1>3, PlaceBecomes

(* A connection is marked as enabled.                                      *)
LEMMA EnabledSet ==
  ASSUME TypeOK, NEW c \in Cids, conns[c].used,
         conns' = [conns EXCEPT ![c].enabled = TRUE, ![c].interface = TRUE, ![c].token = NoToken]
  PROVE  /\ Becomes(c, TRUE, NoToken, TRUE, TRUE, conns[c].ip)
         /\ conns' \in [Cids -> Connection \cup {NoConnection}]
<1> DEFINE x == [conns[c] EXCEPT !.enabled = TRUE, !.interface = TRUE, !.token = NoToken]
<1>1. conns[c] \in Connection BY DEF TypeOK, NoConnection
<1>2. /\ x.used = TRUE /\ x.token = NoToken /\ x.enabled = TRUE
      /\ x.interface = TRUE /\ x.ip = conns[c].ip /\ x \in Connection
  BY <1>1 DEF Connection
<1>3. conns' = [conns EXCEPT ![c] = x] BY DEF TypeOK
<1> HIDE DEF x
<1>4. /\ Becomes(c, x.used, x.token, x.enabled, x.interface, x.ip)
      /\ conns' \in [Cids -> Connection \cup {NoConnection}]
  BY <1>2, <1>3, PlaceBecomes
<1> QED BY <1>2, <1>4 DEF Becomes

(* An answer is added to those of one request, or none to the null token.  *)
LEMMA AnswersGrow ==
  ASSUME TypeOK, NEW t \in Token \cup {NoToken}, NEW e \in Errnos, answers' = Answered(t, e)
  PROVE  Answering(t) /\ answers' \in [Token -> Seq(Errnos)]
<1>1. answers \in [Token -> Seq(Errnos)] BY DEF TypeOK, Errnos
<1>2. \A s \in Seq(Errnos) : Len(Append(s, e)) = Len(s) + 1 OBVIOUS
<1> QED BY <1>1, <1>2, AnsweredIsTyped DEF Answering

-----------------------------------------------------------------------------
(* Every action is one of these steps, and keeps the types.                *)

(* ril_request_setup_data_call refuses the request or gives it a place.    *)
LEMMA SetupSteps ==
  ASSUME TypeOK, NEW t \in Setups, ril_request_setup_data_call(t)
  PROVE  TypeOK' /\ (RefusedStep(t) \/ \E id \in Cids : SetupStep(t, id))
<1> DEFINE id == ril_gprs_connection_reg_id
           command == IF PortList THEN "PORT_LIST" ELSE "DEFINE"
<1>1. /\ t \in Setups \ issued /\ issued' = issued \cup {t} /\ t \in Token
      /\ UNCHANGED <<lastFailed, fromModem, context, target, active, mistaken>>
      /\ reclaims' = reclaims + (IF FreePlace = 0 /\ id # 0 THEN 1 ELSE 0)
      /\ displaced' = IF FreePlace = 0 /\ id # 0 THEN displaced \cup Waiting(id) ELSE displaced
      /\ UNCHANGED drops
  BY DEF ril_request_setup_data_call, Token
<1>2. \/ id = 0
      \/ id \in Cids /\ id # 0 /\ ~ conns[id].enabled /\ (FreePlace # 0 => ~ conns[id].used)
  BY NewPlace
<1>3. reclaims \in Nat /\ reclaims' \in Nat BY <1>1 DEF TypeOK
<1>4. displaced' \subseteq Token BY <1>1 DEF TypeOK, Waiting
<1>5. CASE id = 0
  <2>1. answers' = Answered(t, "GENERIC_FAILURE") /\ UNCHANGED <<conns, toModem>>
    BY <1>5 DEF ril_request_setup_data_call
  <2>2. Answering(t) /\ answers' \in [Token -> Seq(Errnos)]
    BY <1>1, <2>1, AnswersGrow DEF Errnos
  <2>3. displaced' = displaced /\ reclaims' = reclaims BY <1>1, <1>3, <1>5
  <2> HIDE DEF id
  <2>4. RefusedStep(t) BY <1>1, <2>1, <2>2, <2>3 DEF RefusedStep
  <2>5. TypeOK' BY <1>1, <2>1, <2>2, <2>3 DEF TypeOK, Errnos, Token
  <2> QED BY <2>4, <2>5
<1>6. CASE id # 0
  <2>1. /\ conns' = [conns EXCEPT ![id] = NewConnection(t)]
        /\ toModem' = Append(toModem, [command |-> command, token |-> t, cid |-> id])
        /\ UNCHANGED answers
    BY <1>6 DEF ril_request_setup_data_call, Send
  <2>2. command \in {"PORT_LIST", "DEFINE"} /\ command \in Command BY DEF Command
  <2>3. id \in Cids /\ ~ conns[id].enabled /\ (FreePlace # 0 => ~ conns[id].used)
    BY <1>2, <1>6
  <2> HIDE DEF id, command
  <2>4. [command |-> command, token |-> t, cid |-> id] \in Requests
    BY <1>1, <2>2, <2>3, MessagesAreTyped
  <2>5. /\ toModem' \in Seq(Requests)
        /\ Grown(toModem', toModem, [command |-> command, token |-> t, cid |-> id])
    BY <2>1, <2>4, AppendGrows DEF TypeOK
  <2>6. /\ Becomes(id, TRUE, t, FALSE, FALSE, FALSE)
        /\ conns' \in [Cids -> Connection \cup {NoConnection}]
    BY <1>1, <2>1, <2>3, NewPlaceOf
  <2>7. FreePlace # 0 => Waiting(id) = {}
    <3>1. FreePlace # 0 => conns[id].token = NoToken
      <4>1. conns[id] \in Connection \cup {NoConnection} BY <2>3 DEF TypeOK
      <4> QED BY <2>3, <4>1, ConnectionKinds
    <3> QED BY <3>1, TokensAssumption DEF Waiting
  <2>8. Displacing(id) BY <1>1, <1>6, <2>7 DEF Displacing
  <2>9. reclaims' = 0 => ~ conns[id].used /\ reclaims = 0 BY <1>1, <1>3, <1>6, <2>3
  <2>10. SetupStep(t, id)
    BY <1>1, <2>1, <2>2, <2>3, <2>5, <2>6, <2>8, <2>9 DEF SetupStep
  <2>11. TypeOK' BY <1>1, <1>3, <1>4, <2>1, <2>5, <2>6 DEF TypeOK
  <2> QED BY <2>3, <2>10, <2>11
<1> QED BY <1>5, <1>6

(* ril_request_deactivate_data_call refuses the request or puts its token  *)
(* into the connection.                                                    *)
LEMMA DeactivateSteps ==
  ASSUME TypeOK, NEW t \in Deacts, NEW c \in Cids, ril_request_deactivate_data_call(t, c)
  PROVE  TypeOK' /\ (RefusedStep(t) \/ DeactivateStep(t, c))
<1>1. /\ t \in Deacts \ issued /\ c \in active /\ \A u \in Deacts : target[u] = c => ~ Pending(u)
      /\ issued' = issued \cup {t} /\ target' = [target EXCEPT ![t] = c]
      /\ displaced' = displaced \cup Waiting(c)
      /\ UNCHANGED <<lastFailed, fromModem, context, active, mistaken, reclaims, drops>>
      /\ t \in Token
  BY DEF ril_request_deactivate_data_call, Token
<1>2. /\ target' \in [Deacts -> Cids \cup {0}] /\ target'[t] = c
      /\ \A u \in Deacts \ {t} : target'[u] = target[u]
  BY <1>1 DEF TypeOK
<1>3. c # 0 /\ displaced' \subseteq Token
  BY <1>1, CapabilitiesAssumption DEF TypeOK, Waiting, Cids
<1>4. CASE ~ conns[c].used
  <2>1. answers' = Answered(t, "GENERIC_FAILURE") /\ UNCHANGED <<conns, toModem>>
    BY <1>4, <1>3 DEF ril_request_deactivate_data_call, ril_gprs_connection_get_cid
  <2>2. Answering(t) /\ answers' \in [Token -> Seq(Errnos)]
    BY <1>1, <2>1, AnswersGrow DEF Errnos
  <2>3. RefusedStep(t) BY <1>1, <1>2, <2>1, <2>2 DEF RefusedStep
  <2>4. TypeOK' BY <1>1, <1>2, <1>3, <2>1, <2>2 DEF TypeOK, Errnos
  <2> QED BY <2>3, <2>4
<1>5. CASE conns[c].used
  <2>1. /\ conns' = [conns EXCEPT ![c].token = t] /\ UNCHANGED answers
        /\ toModem' = Append(toModem, [command |-> "DISABLE", token |-> t, cid |-> c])
    BY <1>5, <1>3 DEF ril_request_deactivate_data_call, ril_gprs_connection_get_cid, Send
  <2>2. [command |-> "DISABLE", token |-> t, cid |-> c] \in Requests
    BY <1>1, MessagesAreTyped DEF Command
  <2>3. /\ toModem' \in Seq(Requests)
        /\ Grown(toModem', toModem, [command |-> "DISABLE", token |-> t, cid |-> c])
    BY <2>1, <2>2, AppendGrows DEF TypeOK
  <2>4. WithToken(c, t) /\ conns' \in [Cids -> Connection \cup {NoConnection}]
    BY <1>1, <1>5, <2>1, TokenChanged
  <2>5. DeactivateStep(t, c)
    BY <1>1, <1>2, <1>5, <2>1, <2>3, <2>4 DEF DeactivateStep, Displacing
  <2>6. TypeOK' BY <1>1, <1>2, <1>3, <2>1, <2>3, <2>4 DEF TypeOK
  <2> QED BY <2>5, <2>6
<1> QED BY <1>4, <1>5

(* ril_request_last_data_call_fail_cause destroys one connection.          *)
LEMMA CauseSteps ==
  ASSUME TypeOK, ril_request_last_data_call_fail_cause
  PROVE  TypeOK' /\ \E c \in Cids : CauseStep(c)
<1>1. /\ lastFailed # 0 /\ conns' = ril_gprs_connection_del(lastFailed) /\ lastFailed' = 0
      /\ displaced' = displaced \cup Waiting(lastFailed)
      /\ UNCHANGED <<toModem, fromModem, context, target, answers, issued, active, mistaken,
                     reclaims, drops>>
  BY DEF ril_request_last_data_call_fail_cause, rild
<1>2. lastFailed \in Cids BY <1>1 DEF TypeOK
<1>3. Deleted(lastFailed) /\ conns' \in [Cids -> Connection \cup {NoConnection}]
  BY <1>1, <1>2, DeletedPlace
<1>4. CauseStep(lastFailed) BY <1>1, <1>2, <1>3 DEF CauseStep, Displacing
<1>5. TypeOK' BY <1>1, <1>3 DEF TypeOK, Waiting
<1> QED BY <1>2, <1>4, <1>5

(* ril_request_data_call_list sends a question.                            *)
LEMMA ListSteps ==
  ASSUME TypeOK, NEW t \in Lists, ril_request_data_call_list(t)
  PROVE  TypeOK' /\ ListStep(t)
<1>1. /\ t \in Lists \ issued /\ issued' = issued \cup {t}
      /\ UNCHANGED <<conns, lastFailed, fromModem, context, target, answers, active, displaced,
                     reclaims, drops>>
      /\ \/ toModem' = Append(toModem, AskList(t)) /\ UNCHANGED mistaken
         \/ toModem' = Append(toModem, AskList(NoToken)) /\ mistaken' = mistaken \cup {t}
  BY DEF ril_request_data_call_list, driver
<1>2. \A u \in Lists \cup {NoToken} : AskList(u) \in Requests BY MessagesAreTyped
<1>3. toModem \in Seq(Requests) BY DEF TypeOK
<1>4. \A u \in Lists \cup {NoToken} :
        /\ Append(toModem, AskList(u)) \in Seq(Requests)
        /\ Grown(Append(toModem, AskList(u)), toModem, AskList(u))
  BY <1>2, <1>3, AppendGrows
<1>5. toModem' \in Seq(Requests) BY <1>1, <1>4
<1>6. ListStep(t) BY <1>1, <1>4 DEF ListStep
<1>7. TypeOK' BY <1>1, <1>5 DEF TypeOK, Token
<1> QED BY <1>6, <1>7

(* The message the reader takes.                                           *)
LEMMA Readings ==
  ASSUME TypeOK, NEW kind, Received(kind), Taken,
         UNCHANGED <<context, target, issued, history, reclaims, drops>>
  PROVE  /\ Reading(Head(fromModem), kind) /\ fromModem' \in Seq(Reports)
         /\ UNCHANGED <<context, target, issued, displaced, mistaken, reclaims, drops>>
<1>1. fromModem \in Seq(Reports) /\ fromModem # <<>> /\ fromModem' = Tail(fromModem)
      /\ Head(fromModem).kind = kind
  BY DEF TypeOK, Received, Taken
<1>2. /\ Tail(fromModem) \in Seq(Reports) /\ Shifted(Tail(fromModem), fromModem)
      /\ Head(fromModem) = fromModem[1] /\ Head(fromModem) \in Reports
  BY <1>1, TailShifts
<1> QED BY <1>1, <1>2 DEF Reading, history

(* A result of a command fails or goes on.                                 *)
LEMMA CompleteSteps ==
  ASSUME TypeOK, ipc_gprs_complete
  PROVE  TypeOK' /\ \E m \in Reports, c \in Cids \cup {0} : FailedStep(m, c) \/ ProceedStep(m, c)
<1> DEFINE m == Head(fromModem)
           c == ril_gprs_connection_get_token(m.token)
<1>1. Reading(m, "GEN") /\ fromModem' \in Seq(Reports)
      /\ UNCHANGED <<context, target, issued, active, displaced, mistaken, reclaims, drops>>
  BY Readings DEF ipc_gprs_complete, history
<1>2. IF c = 0 \/ ~ m.ok
      THEN Failed(m, c) /\ UNCHANGED toModem
      ELSE /\ toModem' = IF NextCommand(m.command) = "NONE" THEN toModem
                         ELSE Send(NextCommand(m.command), m.token, c)
           /\ UNCHANGED <<conns, lastFailed, answers>>
  BY DEF ipc_gprs_complete
<1> HIDE DEF m
<1>3. m \in Reports /\ m.token \in Token /\ m.command \in Command /\ m.ok \in BOOLEAN
  BY <1>1, ReportKinds DEF Reading
<1>4. \/ c = 0 /\ \A d \in Cids : conns[d].token # m.token
      \/ c \in Cids /\ c # 0 /\ conns[c].used /\ conns[c].token = m.token
  BY <1>3, TokensPlace
<1> HIDE DEF c
<1>5. CASE c = 0 \/ ~ m.ok
  <2>1. answers' = Answered(m.token, "GENERIC_FAILURE") /\ UNCHANGED toModem
    BY <1>2, <1>5 DEF Failed
  <2>2. Answering(m.token) /\ answers' \in [Token -> Seq(Errnos)]
    BY <1>3, <2>1, AnswersGrow DEF Errnos
  <2>3. CASE c = 0
    <3>1. UNCHANGED <<conns, lastFailed>> BY <1>2, <1>5, <2>3 DEF Failed
    <3>2. FailedStep(m, c) BY <1>1, <1>4, <2>1, <2>2, <2>3, <3>1 DEF FailedStep
    <3>3. TypeOK' BY <1>1, <2>1, <2>2, <3>1 DEF TypeOK, Errnos
    <3> QED BY <1>3, <2>3, <3>2, <3>3
  <2>4. CASE c # 0 /\ m.command = "DISABLE"
    <3>1. conns' = ril_gprs_connection_del(c) /\ UNCHANGED lastFailed
      BY <1>2, <1>5, <2>4 DEF Failed
    <3>2. Deleted(c) /\ conns' \in [Cids -> Connection \cup {NoConnection}]
      BY <1>4, <2>4, <3>1, DeletedPlace
    <3>3. FailedStep(m, c) BY <1>1, <1>4, <1>5, <2>1, <2>2, <2>4, <3>1, <3>2 DEF FailedStep
    <3>4. TypeOK' BY <1>1, <2>1, <2>2, <3>1, <3>2 DEF TypeOK, Errnos
    <3> QED BY <1>3, <1>4, <2>4, <3>3, <3>4
  <2>5. CASE c # 0 /\ m.command # "DISABLE"
    <3>1. conns' = [conns EXCEPT ![c].token = NoToken] /\ lastFailed' = c
      BY <1>2, <1>5, <2>5 DEF Failed
    <3>2. WithToken(c, NoToken) /\ conns' \in [Cids -> Connection \cup {NoConnection}]
      BY <1>4, <2>5, <3>1, TokenChanged
    <3>3. FailedStep(m, c) BY <1>1, <1>4, <1>5, <2>1, <2>2, <2>5, <3>1, <3>2 DEF FailedStep
    <3>4. TypeOK' BY <1>1, <1>4, <2>1, <2>2, <2>5, <3>1, <3>2 DEF TypeOK, Errnos
    <3> QED BY <1>3, <1>4, <2>5, <3>3, <3>4
  <2> QED BY <2>3, <2>4, <2>5
<1>6. CASE ~ (c = 0 \/ ~ m.ok)
  <2>1. UNCHANGED <<conns, lastFailed, answers>> BY <1>2, <1>6
  <2>2. CASE m.command \in {"ENABLE", "DISABLE"}
    <3>1. UNCHANGED toModem BY <1>2, <1>6, <2>2 DEF NextCommand
    <3>2. ProceedStep(m, c) BY <1>1, <1>3, <1>4, <1>6, <2>1, <2>2, <3>1 DEF ProceedStep
    <3>3. TypeOK' BY <1>1, <2>1, <3>1 DEF TypeOK
    <3> QED BY <1>3, <1>4, <3>2, <3>3
  <2>3. CASE m.command \in {"PORT_LIST", "DEFINE"}
    <3> DEFINE next == NextCommand(m.command)
    <3>1. next \in {"DEFINE", "ENABLE"} /\ next \in Command
      BY <2>3 DEF NextCommand, Command
    <3>2. toModem' = Append(toModem, [command |-> next, token |-> m.token, cid |-> c])
      BY <1>2, <1>6, <3>1 DEF Send
    <3> HIDE DEF next
    <3>3. [command |-> next, token |-> m.token, cid |-> c] \in Requests
      BY <1>3, <1>4, <1>6, <3>1, MessagesAreTyped
    <3>4. /\ toModem' \in Seq(Requests)
          /\ Grown(toModem', toModem, [command |-> next, token |-> m.token, cid |-> c])
      BY <3>2, <3>3, AppendGrows DEF TypeOK
    <3>5. ProceedStep(m, c)
      BY <1>1, <1>3, <1>4, <1>6, <2>1, <2>3, <3>1, <3>4 DEF ProceedStep
    <3>6. TypeOK' BY <1>1, <2>1, <3>4 DEF TypeOK
    <3> QED BY <1>3, <1>4, <3>5, <3>6
  <2> QED BY <1>3, <2>2, <2>3 DEF Command
<1> QED BY <1>5, <1>6

(* ipc_gprs_ip_configuration notes the address.                            *)
LEMMA IpSteps ==
  ASSUME TypeOK, ipc_gprs_ip_configuration
  PROVE  TypeOK' /\ \E m \in Reports, c \in Cids : IpStep(m, c)
<1> DEFINE m == Head(fromModem)
           c == m.cid
<1>1. Reading(m, "IP") /\ fromModem' \in Seq(Reports)
      /\ UNCHANGED <<context, target, issued, displaced, mistaken, reclaims, drops>>
  BY Readings DEF ipc_gprs_ip_configuration, history, rild
<1>2. /\ conns' = IF conns[c].used THEN [conns EXCEPT ![c].ip = TRUE] ELSE conns
      /\ UNCHANGED <<lastFailed, toModem, answers, active>>
  BY DEF ipc_gprs_ip_configuration, rild
<1> HIDE DEF m
<1>3. m \in Reports /\ c \in Cids /\ m = IpConfiguration(c)
  BY <1>1, ReportKinds DEF Reading
<1> HIDE DEF c
<1>4. CASE conns[c].used
  <2>1. /\ Becomes(c, TRUE, conns[c].token, conns[c].enabled, conns[c].interface, TRUE)
        /\ conns' \in [Cids -> Connection \cup {NoConnection}]
    BY <1>2, <1>3, <1>4, IpSet
  <2>2. IpStep(m, c) BY <1>1, <1>2, <1>3, <2>1 DEF IpStep
  <2>3. TypeOK' BY <1>1, <1>2, <2>1 DEF TypeOK
  <2> QED BY <1>3, <2>2, <2>3
<1>5. CASE ~ conns[c].used
  <2>1. IpStep(m, c) BY <1>1, <1>2, <1>3, <1>5 DEF IpStep
  <2>2. TypeOK' BY <1>1, <1>2, <1>5 DEF TypeOK
  <2> QED BY <1>3, <2>1, <2>2
<1> QED BY <1>4, <1>5

(* ipc_gprs_pdp_context replaces what rild believes.                       *)
LEMMA CallListSteps ==
  ASSUME TypeOK, ipc_gprs_pdp_context
  PROVE  TypeOK' /\ \E m \in Reports : CallListStep(m)
<1> DEFINE m == Head(fromModem)
<1>1. Reading(m, "LIST") /\ fromModem' \in Seq(Reports)
      /\ UNCHANGED <<context, target, issued, displaced, mistaken, reclaims, drops>>
  BY Readings DEF ipc_gprs_pdp_context, history, rild
<1>2. /\ active' = m.on /\ answers' = Answered(m.token, "SUCCESS")
      /\ UNCHANGED <<conns, lastFailed, toModem>>
  BY DEF ipc_gprs_pdp_context, driver
<1> HIDE DEF m
<1>3. m \in Reports /\ m.token \in Lists \cup {NoToken} /\ m.on \subseteq Cids
  BY <1>1, ReportKinds DEF Reading
<1>4. Answering(m.token) /\ answers' \in [Token -> Seq(Errnos)]
  BY <1>2, <1>3, AnswersGrow DEF Errnos, Token
<1>5. CallListStep(m) BY <1>1, <1>2, <1>3, <1>4 DEF CallListStep
<1>6. TypeOK' BY <1>1, <1>2, <1>3, <1>4 DEF TypeOK, Errnos
<1> QED BY <1>3, <1>5, <1>6

(* The branches of ipc_gprs_call_status change the driver's own state only.*)
LEMMA StatusBranches ==
  ASSUME TypeOK, NEW m \in Reports, NEW c \in Cids, m = CallStatus(c, m.state, m.ok),
         m.ok \in BOOLEAN, m.state \in {"ENABLED", "DISABLED", "NOT_ENABLED"},
         conns[c].used,
         \/ /\ m.ok
            /\ \/ /\ ~ conns[c].enabled /\ m.state = "ENABLED" /\ conns[c].token # NoToken
                  /\ Enabled(c) \/ Unconfigured(c)
               \/ /\ conns[c].enabled /\ m.state = "DISABLED" /\ conns[c].token # NoToken
                  /\ Disabled(c)
               \/ /\ \/ m.state # (IF conns[c].enabled THEN "DISABLED" ELSE "ENABLED")
                     \/ ~ conns[c].token # NoToken
                  /\ Unexpected
         \/ /\ ~ m.ok
            /\ \/ /\ ~ conns[c].enabled /\ m.state # "ENABLED" /\ conns[c].token # NoToken
                  /\ NotEnabled(c)
               \/ conns[c].enabled /\ m.state = "DISABLED" /\ Dropped(c)
               \/ /\ ~ (~ conns[c].enabled /\ m.state # "ENABLED" /\ conns[c].token # NoToken)
                  /\ ~ (conns[c].enabled /\ m.state = "DISABLED")
                  /\ Unexpected
  PROVE  /\ \/ EnabledStatus(m, c) \/ DisabledStatus(m, c)
            \/ NotEnabledStatus(m, c) \/ DroppedStatus(m, c) \/ UnexpectedStatus(m, c)
         /\ conns' \in [Cids -> Connection \cup {NoConnection}] /\ lastFailed' \in Cids \cup {0}
         /\ toModem' \in Seq(Requests) /\ active' \subseteq Cids
         /\ answers' \in [Token -> Seq(Errnos)]
<1>1. conns[c].token \in Token \cup {NoToken} /\ conns[c].enabled \in BOOLEAN
  BY ConnectionKinds DEF TypeOK
<1>2. AskList(NoToken) \in Requests BY MessagesAreTyped
<1>3. /\ conns \in [Cids -> Connection \cup {NoConnection}] /\ lastFailed \in Cids \cup {0}
      /\ toModem \in Seq(Requests) /\ active \subseteq Cids
      /\ answers \in [Token -> Seq(Errnos)]
  BY DEF TypeOK, Errnos
<1>4. toModem' = Append(toModem, AskList(NoToken)) =>
        toModem' \in Seq(Requests) /\ Grown(toModem', toModem, AskList(NoToken))
  BY <1>2, <1>3, AppendGrows
<1>5. \A e \in Errnos : answers' = Answered(conns[c].token, e) =>
        Answering(conns[c].token) /\ answers' \in [Token -> Seq(Errnos)]
  BY <1>1, AnswersGrow
<1>6. "SUCCESS" \in Errnos /\ "GENERIC_FAILURE" \in Errnos BY DEF Errnos
<1>7. CASE /\ m.ok /\ ~ conns[c].enabled /\ m.state = "ENABLED" /\ conns[c].token # NoToken
           /\ Enabled(c)
  <2>1. /\ conns' = [conns EXCEPT ![c].enabled = TRUE, ![c].interface = TRUE,
                                  ![c].token = NoToken]
        /\ answers' = Answered(conns[c].token, "SUCCESS")
        /\ active' = active \cup {c} /\ UNCHANGED <<lastFailed, toModem>>
    BY <1>7 DEF Enabled
  <2>2. /\ Becomes(c, TRUE, NoToken, TRUE, TRUE, conns[c].ip)
        /\ conns' \in [Cids -> Connection \cup {NoConnection}]
    BY <2>1, EnabledSet, Zenon
  <2>3. m = CallStatus(c, "ENABLED", TRUE) BY <1>7
  <2>4. EnabledStatus(m, c) BY <1>5, <1>6, <1>7, <2>1, <2>2, <2>3 DEF EnabledStatus
  <2> QED BY <1>3, <1>5, <1>6, <2>1, <2>2, <2>4
<1>8. CASE /\ m.ok /\ ~ conns[c].enabled /\ m.state = "ENABLED" /\ conns[c].token # NoToken
           /\ Unconfigured(c)
  <2>1. /\ conns' = [conns EXCEPT ![c].interface = TRUE] /\ lastFailed' = c
        /\ answers' = Answered(conns[c].token, "GENERIC_FAILURE")
        /\ IfcFails /\ UNCHANGED <<active, toModem>>
    BY <1>8 DEF Unconfigured
  <2>2. /\ Becomes(c, TRUE, conns[c].token, conns[c].enabled, TRUE, conns[c].ip)
        /\ conns' \in [Cids -> Connection \cup {NoConnection}]
    BY <2>1, InterfaceSet
  <2>3. m = CallStatus(c, "ENABLED", TRUE) BY <1>8
  <2>4. EnabledStatus(m, c) BY <1>5, <1>6, <1>8, <2>1, <2>2, <2>3 DEF EnabledStatus
  <2> QED BY <1>3, <1>5, <1>6, <2>1, <2>2, <2>4
<1>9. CASE /\ m.ok /\ conns[c].enabled /\ m.state = "DISABLED" /\ conns[c].token # NoToken
           /\ Disabled(c)
  <2>1. /\ conns' = ril_gprs_connection_del(c) /\ answers' = Answered(conns[c].token, "SUCCESS")
        /\ active' = active \ {c} /\ UNCHANGED <<lastFailed, toModem>>
    BY <1>9 DEF Disabled
  <2>2. Deleted(c) /\ conns' \in [Cids -> Connection \cup {NoConnection}]
    BY <2>1, DeletedPlace
  <2>3. m = CallStatus(c, "DISABLED", TRUE) BY <1>9
  <2>4. DisabledStatus(m, c) BY <1>5, <1>6, <1>9, <2>1, <2>2, <2>3 DEF DisabledStatus
  <2> QED BY <1>3, <1>5, <1>6, <2>1, <2>2, <2>4
<1>10. CASE /\ ~ m.ok /\ ~ conns[c].enabled /\ m.state # "ENABLED" /\ conns[c].token # NoToken
            /\ NotEnabled(c)
  <2>1. /\ conns' = [conns EXCEPT ![c].token = NoToken] /\ lastFailed' = c
        /\ answers' = Answered(conns[c].token, "GENERIC_FAILURE")
        /\ toModem' = Append(toModem, AskList(NoToken)) /\ UNCHANGED active
    BY <1>10 DEF NotEnabled, ril_unsol_data_call_list_changed
  <2>2. WithToken(c, NoToken) /\ conns' \in [Cids -> Connection \cup {NoConnection}]
    BY <2>1, TokenChanged
  <2>3. NotEnabledStatus(m, c)
    BY <1>4, <1>5, <1>6, <1>10, <2>1, <2>2 DEF NotEnabledStatus
  <2> QED BY <1>3, <1>4, <1>5, <1>6, <2>1, <2>2, <2>3
<1>11. CASE ~ m.ok /\ conns[c].enabled /\ m.state = "DISABLED" /\ Dropped(c)
  <2>1. /\ conns' = ril_gprs_connection_del(c)
        /\ toModem' = Append(toModem, AskList(NoToken))
        /\ UNCHANGED <<lastFailed, answers, active>>
    BY <1>11 DEF Dropped, ril_unsol_data_call_list_changed
  <2>2. Deleted(c) /\ conns' \in [Cids -> Connection \cup {NoConnection}]
    BY <2>1, DeletedPlace
  <2>3. m = CallStatus(c, "DISABLED", FALSE) BY <1>11
  <2>4. DroppedStatus(m, c) BY <1>4, <1>11, <2>1, <2>2, <2>3 DEF DroppedStatus
  <2> QED BY <1>3, <1>4, <2>1, <2>2, <2>4
<1>12. CASE /\ \/ m.ok /\ m.state # (IF conns[c].enabled THEN "DISABLED" ELSE "ENABLED")
               \/ m.ok /\ conns[c].token = NoToken
               \/ ~ m.ok /\ conns[c].enabled /\ m.state # "DISABLED"
               \/ ~ m.ok /\ ~ conns[c].enabled
                  /\ (m.state = "ENABLED" \/ conns[c].token = NoToken)
            /\ Unexpected
  <2>1. /\ toModem' = Append(toModem, AskList(NoToken))
        /\ UNCHANGED <<conns, lastFailed, answers, active>>
    BY <1>12 DEF Unexpected, ril_unsol_data_call_list_changed
  <2>2. UnexpectedStatus(m, c) BY <1>4, <1>12, <2>1 DEF UnexpectedStatus
  <2> QED BY <1>3, <1>4, <2>1, <2>2
<1> QED BY <1>1, <1>7, <1>8, <1>9, <1>10, <1>11, <1>12

(* ipc_gprs_call_status takes one of its branches.                         *)
LEMMA StatusSteps ==
  ASSUME TypeOK, ipc_gprs_call_status
  PROVE  TypeOK' /\ \E m \in Reports, c \in Cids : StatusStep(m, c)
<1> DEFINE m == Head(fromModem)
           c == m.cid
<1>1. Reading(m, "STATUS") /\ fromModem' \in Seq(Reports)
      /\ UNCHANGED <<context, target, issued, displaced, mistaken, reclaims, drops>>
  BY Readings DEF ipc_gprs_call_status, history
<1>2. \/ ~ conns[c].used /\ UNCHANGED <<conns, lastFailed, answers, active, toModem>>
      \/ /\ conns[c].used
         /\ \/ /\ m.ok
               /\ \/ /\ ~ conns[c].enabled /\ m.state = "ENABLED" /\ conns[c].token # NoToken
                     /\ Enabled(c) \/ Unconfigured(c)
                  \/ /\ conns[c].enabled /\ m.state = "DISABLED" /\ conns[c].token # NoToken
                     /\ Disabled(c)
                  \/ /\ \/ m.state # (IF conns[c].enabled THEN "DISABLED" ELSE "ENABLED")
                        \/ ~ conns[c].token # NoToken
                     /\ Unexpected
            \/ /\ ~ m.ok
               /\ \/ /\ ~ conns[c].enabled /\ m.state # "ENABLED" /\ conns[c].token # NoToken
                     /\ NotEnabled(c)
                  \/ conns[c].enabled /\ m.state = "DISABLED" /\ Dropped(c)
                  \/ /\ ~ (~ conns[c].enabled /\ m.state # "ENABLED"
                           /\ conns[c].token # NoToken)
                     /\ ~ (conns[c].enabled /\ m.state = "DISABLED")
                     /\ Unexpected
  BY DEF ipc_gprs_call_status
<1> HIDE DEF m
<1>3. /\ m \in Reports /\ c \in Cids /\ m.state \in {"ENABLED", "DISABLED", "NOT_ENABLED"}
      /\ m.ok \in BOOLEAN /\ m = CallStatus(c, m.state, m.ok)
  BY <1>1, ReportKinds DEF Reading
<1> HIDE DEF c
<1>4. CASE ~ conns[c].used /\ UNCHANGED <<conns, lastFailed, answers, active, toModem>>
  <2>1. StatusStep(m, c) BY <1>1, <1>3, <1>4 DEF StatusStep, UnusedStatus
  <2>2. TypeOK' BY <1>1, <1>4 DEF TypeOK
  <2> QED BY <1>3, <2>1, <2>2
<1>5. CASE conns[c].used
  <2>1. /\ \/ EnabledStatus(m, c) \/ DisabledStatus(m, c)
           \/ NotEnabledStatus(m, c) \/ DroppedStatus(m, c) \/ UnexpectedStatus(m, c)
        /\ conns' \in [Cids -> Connection \cup {NoConnection}] /\ lastFailed' \in Cids \cup {0}
        /\ toModem' \in Seq(Requests) /\ active' \subseteq Cids
        /\ answers' \in [Token -> Seq(Errnos)]
    BY <1>2, <1>3, <1>5, StatusBranches
  <2>2. StatusStep(m, c) BY <1>1, <1>3, <2>1 DEF StatusStep
  <2>3. TypeOK' BY <1>1, <2>1 DEF TypeOK, Errnos
  <2> QED BY <1>3, <2>2, <2>3
<1> QED BY <1>2, <1>4, <1>5

(* The modem serves the first message.                                     *)
LEMMA ServeSteps ==
  ASSUME TypeOK, Serve
  PROVE  TypeOK' /\ \E order \in Requests : ServeStep(order)
<1> DEFINE order == Head(toModem)
           on == {c \in Cids : context[c] = "on"}
<1>1. /\ toModem # <<>> /\ toModem' = Tail(toModem)
      /\ UNCHANGED <<conns, lastFailed, target, answers, issued, active, displaced, mistaken,
                     reclaims, drops>>
  BY DEF Serve, ModemOnly, driver, rild, history
<1>2. \/ /\ order.command = "LIST" /\ fromModem' = fromModem \o <<CallList(order.token, on)>>
         /\ UNCHANGED context
      \/ /\ order.command # "LIST" /\ Possible(order)
         /\ context' = Obey(order) /\ fromModem' = fromModem \o <<Result(order, TRUE)>>
      \/ /\ order.command # "LIST" /\ (~ Possible(order) \/ order.command \in Refusable)
         /\ fromModem' = fromModem \o <<Result(order, FALSE)>> /\ UNCHANGED context
  BY DEF Serve, Tell
<1>3. /\ Tail(toModem) \in Seq(Requests) /\ Shifted(Tail(toModem), toModem)
      /\ order = toModem[1] /\ order \in Requests
  BY <1>1, TailShifts DEF TypeOK
<1> HIDE DEF order
<1>4. /\ order.token \in Token \cup {NoToken} /\ order.cid \in Cids
      /\ order.command = "LIST" => order.token \in Lists \cup {NoToken}
      /\ order.command # "LIST" => order \in Order /\ order.command \in Command
  BY <1>3, RequestKinds
<1>5. on \in SUBSET Cids OBVIOUS
<1>6. fromModem \in Seq(Reports) /\ context \in [Cids -> {"off", "activating", "on", "deactivating"}]
  BY DEF TypeOK
<1>7. ByTheModem BY <1>1 DEF ByTheModem
<1> HIDE DEF on
<1>8. CASE /\ order.command = "LIST" /\ fromModem' = fromModem \o <<CallList(order.token, on)>>
           /\ UNCHANGED context
  <2> DEFINE list == CallList(order.token, on)
  <2>1. list \in Reports BY <1>4, <1>5, <1>8, MessagesAreTyped
  <2> HIDE DEF list
  <2>2. fromModem' = fromModem \o <<list>> BY <1>8 DEF list
  <2>3. fromModem' \in Seq(Reports) /\ Grown(fromModem', fromModem, list)
    BY <1>6, <2>1, <2>2, OneMore
  <2>4. ServeStep(order)
    BY <1>1, <1>3, <1>7, <1>8, <2>3 DEF ServeStep, list, on
  <2>5. TypeOK' BY <1>1, <1>3, <1>8, <2>3 DEF TypeOK
  <2> QED BY <1>3, <2>4, <2>5
<1>9. ASSUME order.command # "LIST", NEW ok \in BOOLEAN,
             fromModem' = fromModem \o <<Result(order, ok)>>
      PROVE  fromModem' \in Seq(Reports) /\ Grown(fromModem', fromModem, Result(order, ok))
  <2> DEFINE result == Result(order, ok)
  <2>1. result \in Reports BY <1>4, <1>9, MessagesAreTyped
  <2> HIDE DEF result
  <2>2. fromModem' = fromModem \o <<result>> BY <1>9 DEF result
  <2>3. fromModem' \in Seq(Reports) /\ Grown(fromModem', fromModem, result)
    BY <1>6, <2>1, <2>2, OneMore
  <2> QED BY <2>3 DEF result
<1>10. CASE /\ order.command # "LIST" /\ Possible(order)
            /\ context' = Obey(order) /\ fromModem' = fromModem \o <<Result(order, TRUE)>>
  <2>1. fromModem' \in Seq(Reports) /\ Grown(fromModem', fromModem, Result(order, TRUE))
    BY <1>9, <1>10
  <2>2. CASE order.command \in {"PORT_LIST", "DEFINE"}
    <3>1. context' = context BY <1>10, <2>2 DEF Obey
    <3>2. ServeStep(order) BY <1>1, <1>3, <1>7, <2>1, <2>2, <3>1 DEF ServeStep
    <3>3. TypeOK' BY <1>1, <1>3, <2>1, <3>1 DEF TypeOK
    <3> QED BY <1>3, <3>2, <3>3
  <2>3. CASE order.command \in {"ENABLE", "DISABLE"}
    <3>1. /\ context' = [context EXCEPT ![order.cid] =
                           IF order.command = "ENABLE" THEN "activating" ELSE "deactivating"]
          /\ context[order.cid] = IF order.command = "ENABLE" THEN "off" ELSE "on"
      BY <1>10, <2>3 DEF Obey, Possible
    <3>2. /\ \A d \in Cids \ {order.cid} : context'[d] = context[d]
          /\ context'[order.cid] = IF order.command = "ENABLE" THEN "activating" ELSE "deactivating"
          /\ context' \in [Cids -> {"off", "activating", "on", "deactivating"}]
      BY <1>4, <1>6, <3>1
    <3>3. ServeStep(order) BY <1>1, <1>3, <1>7, <2>1, <2>3, <3>1, <3>2 DEF ServeStep
    <3>4. TypeOK' BY <1>1, <1>3, <2>1, <3>2 DEF TypeOK
    <3> QED BY <1>3, <3>3, <3>4
  <2> QED BY <1>4, <1>10, <2>2, <2>3 DEF Command
<1>11. CASE /\ order.command # "LIST" /\ (~ Possible(order) \/ order.command \in Refusable)
            /\ fromModem' = fromModem \o <<Result(order, FALSE)>> /\ UNCHANGED context
  <2>1. fromModem' \in Seq(Reports) /\ Grown(fromModem', fromModem, Result(order, FALSE))
    BY <1>9, <1>11
  <2>2. ServeStep(order)
    <3>1. order.command \in {"PORT_LIST", "DEFINE"} \/ order.command \in {"ENABLE", "DISABLE"}
      BY <1>4, <1>11 DEF Command
    <3>2. \/ order.command \in {"PORT_LIST", "DEFINE"}
          \/ context[order.cid] # (IF order.command = "ENABLE" THEN "off" ELSE "on")
          \/ order.command \in Refusable
      BY <1>11, <3>1 DEF Possible
    <3> QED BY <1>1, <1>3, <1>7, <1>11, <2>1, <3>1, <3>2 DEF ServeStep
  <2>3. TypeOK' BY <1>1, <1>3, <1>11, <2>1 DEF TypeOK
  <2> QED BY <1>3, <2>2, <2>3
<1> QED BY <1>2, <1>8, <1>10, <1>11

(* A context turns.                                                        *)
LEMMA TurnSteps ==
  ASSUME TypeOK, NEW c \in Cids, Settle(c) \/ Drop(c)
  PROVE  TypeOK' /\ (ActivateStep(c) \/ ActivationFailsStep(c) \/ DeactivatedStep(c) \/ DropStep(c))
<1>1. fromModem \in Seq(Reports) /\ context \in [Cids -> {"off", "activating", "on", "deactivating"}]
  BY DEF TypeOK
<1>2. ASSUME NEW from, NEW to \in {"off", "on"}, NEW ms, NEW n \in Nat, drops' = n,
             Turns(c, from, to, ms), fromModem' \in Seq(Reports)
      PROVE  TypeOK' /\ TurnStep(c, from, to)
  <2>1. /\ context[c] = from /\ context' = [context EXCEPT ![c] = to] /\ UNCHANGED toModem
        /\ UNCHANGED <<conns, lastFailed, target, answers, issued, active, displaced, mistaken,
                       reclaims>>
    BY <1>2 DEF Turns, ModemOnly, driver, rild, history
  <2>2. TurnStep(c, from, to) BY <1>1, <2>1 DEF TurnStep, ByTheModem
  <2>3. TypeOK' BY <1>2, <2>1 DEF TypeOK
  <2> QED BY <2>2, <2>3
<1>3. IpConfiguration(c) \in Reports /\ CallStatus(c, "ENABLED", TRUE) \in Reports
      /\ CallStatus(c, "NOT_ENABLED", FALSE) \in Reports
      /\ CallStatus(c, "DISABLED", TRUE) \in Reports
      /\ CallStatus(c, "DISABLED", FALSE) \in Reports
  BY MessagesAreTyped
<1>4. \A m \in Reports : fromModem' = fromModem \o <<m>> =>
        fromModem' \in Seq(Reports) /\ Grown(fromModem', fromModem, m)
  BY <1>1, OneMore
<1>5. drops \in Nat BY DEF TypeOK
<1>6. CASE Activate(c)
  <2> DEFINE ip == IpConfiguration(c)
             status == CallStatus(c, "ENABLED", TRUE)
             ms == <<ip, status>>
  <2>1. Turns(c, "activating", "on", ms) /\ drops' = drops BY <1>6 DEF Activate
  <2>2. fromModem' = fromModem \o <<ip, status>> BY <2>1 DEF Turns, Tell
  <2>3. ip \in Reports /\ status \in Reports BY <1>3
  <2> HIDE DEF ip, status
  <2>4. /\ fromModem' \in Seq(Reports)
        /\ \E r \in Seq(Reports) : Grown(r, fromModem, ip) /\ Grown(fromModem', r, status)
    BY <1>1, <2>2, <2>3, TwoMore
  <2> HIDE DEF ms
  <2>5. TypeOK' /\ TurnStep(c, "activating", "on") BY <1>2, <1>5, <2>1, <2>4
  <2> QED BY <2>4, <2>5 DEF ActivateStep, ip, status
<1>7. CASE ActivationFails(c)
  <2> DEFINE status == CallStatus(c, "NOT_ENABLED", FALSE)
             ms == <<status>>
  <2>1. Turns(c, "activating", "off", ms) /\ drops' = drops BY <1>7 DEF ActivationFails
  <2>2. fromModem' = fromModem \o <<status>> BY <2>1 DEF Turns, Tell
  <2>3. fromModem' \in Seq(Reports) /\ Grown(fromModem', fromModem, status)
    BY <1>3, <1>4, <2>2
  <2> HIDE DEF ms, status
  <2>4. TypeOK' /\ TurnStep(c, "activating", "off") BY <1>2, <1>5, <2>1, <2>3
  <2> QED BY <2>3, <2>4 DEF ActivationFailsStep, status
<1>8. CASE Deactivate(c)
  <2> DEFINE status == CallStatus(c, "DISABLED", TRUE)
             ms == <<status>>
  <2>1. Turns(c, "deactivating", "off", ms) /\ drops' = drops BY <1>8 DEF Deactivate
  <2>2. fromModem' = fromModem \o <<status>> BY <2>1 DEF Turns, Tell
  <2>3. fromModem' \in Seq(Reports) /\ Grown(fromModem', fromModem, status)
    BY <1>3, <1>4, <2>2
  <2> HIDE DEF ms, status
  <2>4. TypeOK' /\ TurnStep(c, "deactivating", "off") BY <1>2, <1>5, <2>1, <2>3
  <2> QED BY <2>3, <2>4 DEF DeactivatedStep, status
<1>9. CASE Drop(c)
  <2> DEFINE status == CallStatus(c, "DISABLED", FALSE)
             ms == <<status>>
  <2>1. Turns(c, "on", "off", ms) /\ drops' = drops + 1 BY <1>9 DEF Drop
  <2>2. fromModem' = fromModem \o <<status>> BY <2>1 DEF Turns, Tell
  <2>3. fromModem' \in Seq(Reports) /\ Grown(fromModem', fromModem, status)
    BY <1>3, <1>4, <2>2
  <2>4. drops + 1 \in Nat BY <1>5
  <2> HIDE DEF ms, status
  <2>5. TypeOK' /\ TurnStep(c, "on", "off") BY <1>2, <2>1, <2>3, <2>4
  <2> QED BY <2>3, <2>5 DEF DropStep, status
<1> QED BY <1>6, <1>7, <1>8, <1>9 DEF Settle

(* All the steps there are.                                                *)
Step ==
  \/ \E t \in Setups \cup Deacts : RefusedStep(t)
  \/ \E t \in Setups, id \in Cids : SetupStep(t, id)
  \/ \E t \in Deacts, c \in Cids : DeactivateStep(t, c)
  \/ \E c \in Cids : CauseStep(c)
  \/ \E t \in Lists : ListStep(t)
  \/ \E m \in Reports, c \in Cids \cup {0} : FailedStep(m, c)
  \/ \E m \in Reports, c \in Cids \cup {0} : ProceedStep(m, c)
  \/ \E m \in Reports, c \in Cids : IpStep(m, c)
  \/ \E m \in Reports, c \in Cids : StatusStep(m, c)
  \/ \E m \in Reports : CallListStep(m)
  \/ \E order \in Requests : ServeStep(order)
  \/ \E c \in Cids : ActivateStep(c)
  \/ \E c \in Cids : ActivationFailsStep(c)
  \/ \E c \in Cids : DeactivatedStep(c)
  \/ \E c \in Cids : DropStep(c)

(* Every step of Next is one of these.                                     *)
LEMMA Steps == ASSUME TypeOK, Next PROVE TypeOK' /\ Step
<1>1. ASSUME NEW t \in Setups, ril_request_setup_data_call(t) PROVE TypeOK' /\ Step
  BY <1>1, SetupSteps DEF Step
<1>2. ASSUME NEW t \in Deacts, NEW c \in Cids, ril_request_deactivate_data_call(t, c)
      PROVE  TypeOK' /\ Step
  BY <1>2, DeactivateSteps DEF Step
<1>3. CASE ril_request_last_data_call_fail_cause BY <1>3, CauseSteps DEF Step
<1>4. ASSUME NEW t \in Lists, ril_request_data_call_list(t) PROVE TypeOK' /\ Step
  BY <1>4, ListSteps DEF Step
<1>5. CASE ipc_gprs_complete BY <1>5, CompleteSteps DEF Step
<1>6. CASE ipc_gprs_ip_configuration BY <1>6, IpSteps DEF Step
<1>7. CASE ipc_gprs_call_status BY <1>7, StatusSteps DEF Step
<1>8. CASE ipc_gprs_pdp_context BY <1>8, CallListSteps DEF Step
<1>9. CASE Serve BY <1>9, ServeSteps DEF Step
<1>10. ASSUME NEW c \in Cids, Settle(c) \/ Drop(c) PROVE TypeOK' /\ Step
  BY <1>10, TurnSteps DEF Step
<1> QED BY <1>1, <1>2, <1>3, <1>4, <1>5, <1>6, <1>7, <1>8, <1>9, <1>10 DEF Next, Receive

(* The types are kept.                                                     *)
LEMMA TypesKept == ASSUME TypeOK, [Next]_vars PROVE TypeOK'
<1>1. CASE UNCHANGED vars BY <1>1 DEF vars, TypeOK
<1> QED BY <1>1, Steps

(* The variables start with their types.                                   *)
LEMMA InitTypes == Init => TypeOK
<1> SUFFICES ASSUME Init PROVE TypeOK OBVIOUS
<1>1. <<>> \in Seq(Requests) /\ <<>> \in Seq(Reports) /\ <<>> \in Seq(Errnos) OBVIOUS
<1>2. conns \in [Cids -> Connection \cup {NoConnection}] BY DEF Init
<1>3. 0 \in Nat /\ {} \subseteq Token OBVIOUS
<1>4. target \in [Deacts -> Cids \cup {0}] /\ answers \in [Token -> Seq(Errnos)]
      /\ context \in [Cids -> {"off", "activating", "on", "deactivating"}]
  BY <1>1 DEF Init
<1> QED BY <1>1, <1>2, <1>3, <1>4 DEF Init, TypeOK, Errnos

(* The variables of gprs.c, and the messages, always have their types.     *)
LEMMA Typed == Spec => []TypeOK
<1> QED BY InitTypes, TypesKept, PTL DEF Spec

-----------------------------------------------------------------------------
(* SETUP_DATA_CALL is under way, whatever fails.                           *)

(* The notification that decides over the setup for c.                     *)
Final(c) == {CallStatus(c, "ENABLED", TRUE), CallStatus(c, "NOT_ENABLED", FALSE)}

(* It is still to come, or it is in the line behind place i.               *)
Ahead(c, i) ==
  \/ context[c] = "activating"
  \/ \E j \in DOMAIN fromModem : j > i /\ fromModem[j] \in Final(c)

(* A request not made yet has no message, no answer and no connection.     *)
Unissued ==
  \A t \in Token \ issued :
    ~ InTransit(t) /\ answers[t] = <<>> /\ \A c \in Cids : conns[c].token # t

(* No token is in two connections.                                         *)
OneConnection ==
  \A c, d \in Cids : conns[c].token = conns[d].token /\ conns[c].token # NoToken => c = d

(* A connection with the token of a setup is not enabled yet.              *)
NotYetEnabled == \A c \in Cids : conns[c].token \in Setups => ~ conns[c].enabled

(* A command for a setup names the place that has its token.               *)
OrdersMatch ==
  \A i \in DOMAIN toModem :
    toModem[i].token \in Setups =>
      /\ toModem[i].command # "DISABLE"
      /\ \A c \in Cids : conns[c].token = toModem[i].token => c = toModem[i].cid

(* When ENABLE has been accepted, the notification that decides is ahead   *)
(* of the result.                                                          *)
ResultsMatch ==
  \A i \in DOMAIN fromModem :
    fromModem[i].kind = "GEN" /\ fromModem[i].token \in Setups =>
      /\ fromModem[i].command # "DISABLE"
      /\ fromModem[i].ok /\ fromModem[i].command = "ENABLE" =>
           \A c \in Cids : conns[c].token = fromModem[i].token => Ahead(c, i)

(* The request has a message under way, or the decision ahead of it.       *)
Outstanding(t) == InTransit(t) \/ \E c \in Cids : conns[c].token = t /\ Ahead(c, 0)

(* A setup that waits is outstanding, or was displaced.                    *)
SetupsLive == \A t \in Setups \ displaced : Pending(t) => Outstanding(t)

(* The invariant of the setups.                                            *)
SetupInv ==
  Unissued /\ OneConnection /\ NotYetEnabled /\ OrdersMatch /\ ResultsMatch /\ SetupsLive

(* The places and the members of the two lines.                            *)
LEMMA LineTypes ==
  ASSUME TypeOK
  PROVE  /\ DOMAIN toModem \subseteq Nat \ {0} /\ DOMAIN fromModem \subseteq Nat \ {0}
         /\ \A i \in DOMAIN toModem : toModem[i] \in Requests
         /\ \A i \in DOMAIN fromModem : fromModem[i] \in Reports
BY Places DEF TypeOK

(* A line holds a message of t: an order, or a report that names it.       *)
Asked(s, t) == \E i \in DOMAIN s : s[i].token = t
Bears(m, t) == m.kind \in {"GEN", "LIST"} /\ m.token = t
Borne(s, t) == \E i \in DOMAIN s : Bears(s[i], t)

(* The tokens in a line that grew.                                         *)
LEMMA GrownHolds ==
  ASSUME NEW old, NEW new, NEW m, Grown(new, old, m), NEW t
  PROVE  /\ Asked(new, t) <=> Asked(old, t) \/ m.token = t
         /\ Borne(new, t) <=> Borne(old, t) \/ Bears(m, t)
<1> PICK n \in Nat \ DOMAIN old :
      /\ n # 0 /\ DOMAIN new = DOMAIN old \cup {n} /\ new[n] = m
      /\ \A i \in DOMAIN old : new[i] = old[i] /\ i < n
  BY DEF Grown
<1> QED BY DEF Asked, Borne

(* The tokens in a line whose first message was taken.                     *)
LEMMA ShiftedHolds ==
  ASSUME NEW old, NEW new, Shifted(new, old), NEW t
  PROVE  /\ Asked(old, t) <=> Asked(new, t) \/ old[1].token = t
         /\ Borne(old, t) <=> Borne(new, t) \/ Bears(old[1], t)
BY DEF Asked, Borne, Shifted

(* Which requests have a message on the lines after a step.                *)
LEMMA TransitKept ==
  ASSUME TypeOK, TypeOK', Step, NEW t \in Token
  PROVE  /\ InTransit(t)' => InTransit(t) \/ t \in issued' \ issued
         /\ InTransit(t) => \/ InTransit(t)'
                            \/ \E m \in Reports, c \in Cids \cup {0} :
                                 (FailedStep(m, c) \/ ProceedStep(m, c)) /\ m.token = t
                            \/ \E m \in Reports : CallListStep(m) /\ m.token = t
<1>1. /\ InTransit(t) <=> Asked(toModem, t) \/ Borne(fromModem, t)
      /\ InTransit(t)' <=> Asked(toModem', t) \/ Borne(fromModem', t)
  BY DEF InTransit, Asked, Borne, Bears
<1>2. t # NoToken BY TokensAssumption
<1>a. CASE \E u \in Setups \cup Deacts : RefusedStep(u) BY <1>1, <1>a DEF RefusedStep
<1>b. CASE \E u \in Setups, id \in Cids : SetupStep(u, id)
  <2>1. PICK u \in Setups, id \in Cids : SetupStep(u, id) BY <1>b
  <2>2. PICK command \in {"PORT_LIST", "DEFINE"} :
          Grown(toModem', toModem, [command |-> command, token |-> u, cid |-> id])
    BY <2>1 DEF SetupStep
  <2>3. Asked(toModem', t) <=> Asked(toModem, t) \/ u = t BY <2>2, GrownHolds
  <2> QED BY <1>1, <2>1, <2>3 DEF SetupStep
<1>c. CASE \E u \in Deacts, c \in Cids : DeactivateStep(u, c)
  <2>1. PICK u \in Deacts, c \in Cids : DeactivateStep(u, c) BY <1>c
  <2>2. Grown(toModem', toModem, [command |-> "DISABLE", token |-> u, cid |-> c])
    BY <2>1 DEF DeactivateStep
  <2>3. Asked(toModem', t) <=> Asked(toModem, t) \/ u = t BY <2>2, GrownHolds
  <2> QED BY <1>1, <2>1, <2>3 DEF DeactivateStep
<1>d. CASE \E c \in Cids : CauseStep(c) BY <1>1, <1>d DEF CauseStep
<1>e. CASE \E u \in Lists : ListStep(u)
  <2>1. PICK u \in Lists : ListStep(u) BY <1>e
  <2>2. PICK v \in {u, NoToken} : Grown(toModem', toModem, AskList(v)) BY <2>1 DEF ListStep
  <2>3. Asked(toModem', t) <=> Asked(toModem, t) \/ v = t BY <2>2, GrownHolds DEF AskList
  <2> QED BY <1>1, <1>2, <2>1, <2>3 DEF ListStep
<1>f. CASE \E m \in Reports, c \in Cids \cup {0} : FailedStep(m, c)
  <2>1. PICK m \in Reports, c \in Cids \cup {0} : FailedStep(m, c) BY <1>f
  <2>2. Borne(fromModem, t) <=> Borne(fromModem', t) \/ Bears(m, t)
    BY <2>1, ShiftedHolds DEF FailedStep, Reading
  <2> QED BY <1>1, <2>1, <2>2 DEF FailedStep, Bears
<1>g. CASE \E m \in Reports, c \in Cids \cup {0} : ProceedStep(m, c)
  <2>1. PICK m \in Reports, c \in Cids \cup {0} : ProceedStep(m, c) BY <1>g
  <2>2. Borne(fromModem, t) <=> Borne(fromModem', t) \/ m.token = t
    BY <2>1, ShiftedHolds DEF ProceedStep, Reading, Bears
  <2>3. Asked(toModem, t) => Asked(toModem', t)
    BY <2>1, GrownHolds DEF ProceedStep
  <2>4. Asked(toModem', t) => Asked(toModem, t) \/ m.token = t
    BY <2>1, GrownHolds DEF ProceedStep
  <2> QED BY <1>1, <2>1, <2>2, <2>3, <2>4
<1>h. CASE \E m \in Reports, c \in Cids : IpStep(m, c)
  <2>1. PICK m \in Reports, c \in Cids : IpStep(m, c) BY <1>h
  <2>2. Borne(fromModem, t) <=> Borne(fromModem', t)
    BY <2>1, ShiftedHolds DEF IpStep, Reading, Bears
  <2> QED BY <1>1, <2>1, <2>2 DEF IpStep
<1>i. CASE \E m \in Reports, c \in Cids : StatusStep(m, c)
  <2>1. PICK m \in Reports, c \in Cids : StatusStep(m, c) BY <1>i
  <2>2. Borne(fromModem, t) <=> Borne(fromModem', t)
    BY <2>1, ShiftedHolds DEF StatusStep, Reading, Bears
  <2>3. Grown(toModem', toModem, AskList(NoToken)) \/ toModem' = toModem
    BY <2>1 DEF StatusStep, UnusedStatus, EnabledStatus, DisabledStatus, NotEnabledStatus,
                DroppedStatus, UnexpectedStatus
  <2>4. Asked(toModem', t) <=> Asked(toModem, t) BY <1>2, <2>3, GrownHolds DEF AskList
  <2> QED BY <1>1, <2>2, <2>4
<1>j. CASE \E m \in Reports : CallListStep(m)
  <2>1. PICK m \in Reports : CallListStep(m) BY <1>j
  <2>2. Borne(fromModem, t) <=> Borne(fromModem', t) \/ Bears(m, t)
    BY <2>1, ShiftedHolds DEF CallListStep, Reading
  <2> QED BY <1>1, <2>1, <2>2 DEF CallListStep, Bears
<1>k. CASE \E order \in Requests : ServeStep(order)
  <2>1. PICK order \in Requests : ServeStep(order) BY <1>k
  <2>2. Asked(toModem, t) <=> Asked(toModem', t) \/ order.token = t
    BY <2>1, ShiftedHolds DEF ServeStep
  <2>3. \E m : Grown(fromModem', fromModem, m) /\ (Bears(m, t) <=> order.token = t)
    <3>1. /\ \A ok : Bears(Result(order, ok), t) <=> order.token = t
          /\ \A on : Bears(CallList(order.token, on), t) <=> order.token = t
      BY DEF Bears, Result, CallList
    <3>2. \/ \E on : Grown(fromModem', fromModem, CallList(order.token, on))
          \/ \E ok : Grown(fromModem', fromModem, Result(order, ok))
      BY <2>1 DEF ServeStep
    <3> QED BY <3>1, <3>2
  <2>4. Borne(fromModem', t) <=> Borne(fromModem, t) \/ order.token = t
    BY <2>3, GrownHolds
  <2> QED BY <1>1, <2>2, <2>4
<1>l. CASE \E c \in Cids : ActivateStep(c)
  <2>1. PICK c \in Cids : ActivateStep(c) BY <1>l
  <2>2. PICK r \in Seq(Reports) : /\ Grown(r, fromModem, IpConfiguration(c))
                                  /\ Grown(fromModem', r, CallStatus(c, "ENABLED", TRUE))
    BY <2>1 DEF ActivateStep
  <2>3. Borne(fromModem', t) <=> Borne(fromModem, t)
    BY <2>2, GrownHolds DEF Bears, IpConfiguration, CallStatus
  <2> QED BY <1>1, <2>1, <2>3 DEF ActivateStep, TurnStep
<1>m. CASE \E c \in Cids : ActivationFailsStep(c) \/ DeactivatedStep(c) \/ DropStep(c)
  <2>1. \E m : Grown(fromModem', fromModem, m) /\ ~ Bears(m, t)
    BY <1>m DEF ActivationFailsStep, DeactivatedStep, DropStep, CallStatus, Bears
  <2>2. Borne(fromModem', t) <=> Borne(fromModem, t) BY <2>1, GrownHolds
  <2>3. toModem' = toModem
    BY <1>m DEF ActivationFailsStep, DeactivatedStep, DropStep, TurnStep
  <2> QED BY <1>1, <2>2, <2>3
<1> QED
  BY <1>a, <1>b, <1>c, <1>d, <1>e, <1>f, <1>g, <1>h, <1>i, <1>j, <1>k, <1>l, <1>m DEF Step

(* A place has the token it had, or none, or that of a request just made.  *)
LEMMA TokensKept ==
  ASSUME TypeOK, TypeOK', Step, NEW c \in Cids
  PROVE  \/ conns'[c].token = NoToken
         \/ conns'[c].token = conns[c].token
         \/ /\ conns'[c].token \in issued' \ issued
            /\ \A d \in Cids \ {c} : conns'[d] = conns[d]
<1>a. CASE \E t \in Setups \cup Deacts : RefusedStep(t) BY <1>a DEF RefusedStep
<1>b. CASE \E t \in Setups, id \in Cids : SetupStep(t, id) BY <1>b DEF SetupStep, Becomes
<1>c. CASE \E t \in Deacts, d \in Cids : DeactivateStep(t, d)
  BY <1>c DEF DeactivateStep, WithToken, Becomes
<1>d. CASE \E d \in Cids : CauseStep(d) BY <1>d DEF CauseStep, Deleted, Becomes
<1>e. CASE \E t \in Lists : ListStep(t) BY <1>e DEF ListStep
<1>f. CASE \E m \in Reports, d \in Cids \cup {0} : FailedStep(m, d)
  BY <1>f DEF FailedStep, Deleted, WithToken, Becomes
<1>g. CASE \E m \in Reports, d \in Cids \cup {0} : ProceedStep(m, d) BY <1>g DEF ProceedStep
<1>h. CASE \E m \in Reports, d \in Cids : IpStep(m, d) BY <1>h DEF IpStep, Becomes
<1>i. CASE \E m \in Reports, d \in Cids : StatusStep(m, d)
  <2>1. PICK m \in Reports, d \in Cids : StatusStep(m, d) BY <1>i
  <2>2. CASE UnusedStatus(m, d) BY <2>2 DEF UnusedStatus
  <2>3. CASE EnabledStatus(m, d) BY <2>3 DEF EnabledStatus, Becomes
  <2>4. CASE DisabledStatus(m, d) BY <2>4 DEF DisabledStatus, Deleted, Becomes
  <2>5. CASE NotEnabledStatus(m, d) BY <2>5 DEF NotEnabledStatus, WithToken, Becomes
  <2>6. CASE DroppedStatus(m, d) BY <2>6 DEF DroppedStatus, Deleted, Becomes
  <2>7. CASE UnexpectedStatus(m, d) BY <2>7 DEF UnexpectedStatus
  <2> QED BY <2>1, <2>2, <2>3, <2>4, <2>5, <2>6, <2>7 DEF StatusStep
<1>j. CASE \E m \in Reports : CallListStep(m) BY <1>j DEF CallListStep
<1>k. CASE \E order \in Requests : ServeStep(order) BY <1>k DEF ServeStep, ByTheModem
<1>l. CASE \E d \in Cids : ActivateStep(d) BY <1>l DEF ActivateStep, TurnStep, ByTheModem
<1>m. CASE \E d \in Cids : ActivationFailsStep(d) \/ DeactivatedStep(d) \/ DropStep(d)
  BY <1>m DEF ActivationFailsStep, DeactivatedStep, DropStep, TurnStep, ByTheModem
<1> QED
  BY <1>a, <1>b, <1>c, <1>d, <1>e, <1>f, <1>g, <1>h, <1>i, <1>j, <1>k, <1>l, <1>m DEF Step

(* The branches of ipc_gprs_call_status, and what they leave alone.        *)
LEMMA StatusTokens ==
  ASSUME TypeOK, NEW m \in Reports, NEW d \in Cids, StatusStep(m, d), NEW c \in Cids,
         NEW t \in Token, conns[c].token = t, conns'[c].token # t
  PROVE  c = d /\ (answers'[t] # <<>> \/ DroppedStatus(m, d))
<1> USE DEF StatusStep
<1>1. CASE UnusedStatus(m, d) BY <1>1 DEF UnusedStatus
<1>2. CASE EnabledStatus(m, d) BY <1>2 DEF EnabledStatus, Becomes, Answering
<1>3. CASE DisabledStatus(m, d) BY <1>3 DEF DisabledStatus, Deleted, Becomes, Answering
<1>4. CASE NotEnabledStatus(m, d) BY <1>4 DEF NotEnabledStatus, WithToken, Becomes, Answering
<1>5. CASE DroppedStatus(m, d) BY <1>5 DEF DroppedStatus, Deleted, Becomes
<1>6. CASE UnexpectedStatus(m, d) BY <1>6 DEF UnexpectedStatus
<1> QED BY <1>1, <1>2, <1>3, <1>4, <1>5, <1>6

(* A request that loses its place is displaced or answered, unless its     *)
(* call was dropped.                                                       *)
LEMMA TokensLost ==
  ASSUME TypeOK, TypeOK', Step, NEW c \in Cids, NEW t \in Token, conns[c].token = t,
         conns'[c].token # t, Pending(t)
  PROVE  \/ t \in displaced' \/ answers'[t] # <<>>
         \/ \E m \in Reports : StatusStep(m, c) /\ DroppedStatus(m, c)
<1>1. t \in Waiting(c) BY DEF Waiting
<1>a. CASE \E u \in Setups \cup Deacts : RefusedStep(u) BY <1>a DEF RefusedStep
<1>b. CASE \E u \in Setups, id \in Cids : SetupStep(u, id)
  BY <1>1, <1>b DEF SetupStep, Becomes, Displacing
<1>c. CASE \E u \in Deacts, d \in Cids : DeactivateStep(u, d)
  BY <1>1, <1>c DEF DeactivateStep, WithToken, Becomes, Displacing
<1>d. CASE \E d \in Cids : CauseStep(d) BY <1>1, <1>d DEF CauseStep, Deleted, Becomes, Displacing
<1>e. CASE \E u \in Lists : ListStep(u) BY <1>e DEF ListStep
<1>f. CASE \E m \in Reports, d \in Cids \cup {0} : FailedStep(m, d)
  BY <1>f DEF FailedStep, Deleted, WithToken, Becomes, Answering
<1>g. CASE \E m \in Reports, d \in Cids \cup {0} : ProceedStep(m, d) BY <1>g DEF ProceedStep
<1>h. CASE \E m \in Reports, d \in Cids : IpStep(m, d) BY <1>h DEF IpStep, Becomes
<1>i. CASE \E m \in Reports, d \in Cids : StatusStep(m, d)
  BY <1>i, StatusTokens
<1>j. CASE \E m \in Reports : CallListStep(m) BY <1>j DEF CallListStep
<1>k. CASE \E order \in Requests : ServeStep(order) BY <1>k DEF ServeStep, ByTheModem
<1>l. CASE \E d \in Cids : ActivateStep(d) BY <1>l DEF ActivateStep, TurnStep, ByTheModem
<1>m. CASE \E d \in Cids : ActivationFailsStep(d) \/ DeactivatedStep(d) \/ DropStep(d)
  BY <1>m DEF ActivationFailsStep, DeactivatedStep, DropStep, TurnStep, ByTheModem
<1> QED
  BY <1>a, <1>b, <1>c, <1>d, <1>e, <1>f, <1>g, <1>h, <1>i, <1>j, <1>k, <1>l, <1>m DEF Step

(* What the requests know of each other's answers.                         *)
LEMMA AnswersKept ==
  ASSUME TypeOK, TypeOK', Step
  PROVE  /\ issued \subseteq issued' /\ displaced \subseteq displaced'
         /\ \A t \in Token : answers'[t] = <<>> => answers[t] = <<>>
         /\ \A t \in Token \ issued' : answers[t] = <<>> => 
               answers'[t] = <<>> \/ InTransit(t) \/ \E c \in Cids : conns[c].token = t
<1> USE DEF Answering
<1>0. \A m \in Reports : Reading(m, "GEN") \/ Reading(m, "LIST") =>
        m.token \in Token \cup {NoToken} /\ (m.token \in Token => InTransit(m.token))
  <2> SUFFICES ASSUME NEW m \in Reports, Reading(m, "GEN") \/ Reading(m, "LIST")
               PROVE  m.token \in Token \cup {NoToken} /\ (m.token \in Token => InTransit(m.token))
    OBVIOUS
  <2>1. m = fromModem[1] /\ 1 \in DOMAIN fromModem /\ m.kind \in {"GEN", "LIST"}
    BY DEF Reading, Shifted
  <2> QED BY <2>1, ReportKinds DEF InTransit, Token
<1>a. CASE \E t \in Setups \cup Deacts : RefusedStep(t) BY <1>a DEF RefusedStep
<1>b. CASE \E t \in Setups, id \in Cids : SetupStep(t, id) BY <1>b DEF SetupStep, Displacing
<1>c. CASE \E t \in Deacts, d \in Cids : DeactivateStep(t, d)
  BY <1>c DEF DeactivateStep, Displacing
<1>d. CASE \E d \in Cids : CauseStep(d) BY <1>d DEF CauseStep, Displacing
<1>e. CASE \E t \in Lists : ListStep(t) BY <1>e DEF ListStep
<1>f. CASE \E m \in Reports, d \in Cids \cup {0} : FailedStep(m, d)
  BY <1>0, <1>f DEF FailedStep, Reading
<1>g. CASE \E m \in Reports, d \in Cids \cup {0} : ProceedStep(m, d)
  BY <1>g DEF ProceedStep, Reading
<1>h. CASE \E m \in Reports, d \in Cids : IpStep(m, d) BY <1>h DEF IpStep, Reading
<1>i. CASE \E m \in Reports, d \in Cids : StatusStep(m, d)
  <2>1. PICK m \in Reports, d \in Cids : StatusStep(m, d) BY <1>i
  <2>2. Answering(conns[d].token) \/ answers' = answers
    BY <2>1 DEF StatusStep, UnusedStatus, EnabledStatus, DisabledStatus, NotEnabledStatus,
                DroppedStatus, UnexpectedStatus
  <2>3. conns[d].token \in Token \cup {NoToken} BY ConnectionKinds DEF TypeOK
  <2> QED BY <2>1, <2>2, <2>3 DEF StatusStep, Reading
<1>j. CASE \E m \in Reports : CallListStep(m) BY <1>0, <1>j DEF CallListStep, Reading
<1>k. CASE \E order \in Requests : ServeStep(order) BY <1>k DEF ServeStep, ByTheModem
<1>l. CASE \E d \in Cids : ActivateStep(d) BY <1>l DEF ActivateStep, TurnStep, ByTheModem
<1>m. CASE \E d \in Cids : ActivationFailsStep(d) \/ DeactivatedStep(d) \/ DropStep(d)
  BY <1>m DEF ActivationFailsStep, DeactivatedStep, DropStep, TurnStep, ByTheModem
<1> QED
  BY <1>a, <1>b, <1>c, <1>d, <1>e, <1>f, <1>g, <1>h, <1>i, <1>j, <1>k, <1>l, <1>m DEF Step

(* What comes in at the modem's end of the line of orders.                 *)
LEMMA OrdersKept ==
  ASSUME TypeOK, TypeOK', Step, NEW i \in DOMAIN toModem'
  PROVE  \/ \E j \in DOMAIN toModem : toModem[j] = toModem'[i]
         \/ toModem'[i].token \notin Setups
         \/ /\ toModem'[i].command # "DISABLE" /\ toModem'[i].cid \in Cids
            /\ conns'[toModem'[i].cid].token = toModem'[i].token
<1>1. ASSUME NEW m, Grown(toModem', toModem, m)
      PROVE  toModem'[i] = m \/ \E j \in DOMAIN toModem : toModem[j] = toModem'[i]
  BY <1>1 DEF Grown
<1>2. ASSUME Shifted(toModem', toModem)
      PROVE  \E j \in DOMAIN toModem : toModem[j] = toModem'[i]
  BY <1>2 DEF Shifted
<1>3. \A t \in Lists \cup {NoToken} : AskList(t).token \notin Setups
  BY TokensAssumption DEF AskList, Token
<1>a. CASE \E t \in Setups \cup Deacts : RefusedStep(t) BY <1>a DEF RefusedStep
<1>b. CASE \E t \in Setups, id \in Cids : SetupStep(t, id)
  <2>1. PICK t \in Setups, id \in Cids : SetupStep(t, id) BY <1>b
  <2>2. PICK command \in {"PORT_LIST", "DEFINE"} :
          Grown(toModem', toModem, [command |-> command, token |-> t, cid |-> id])
    BY <2>1 DEF SetupStep
  <2> QED BY <1>1, <2>1, <2>2 DEF SetupStep, Becomes
<1>c. CASE \E t \in Deacts, d \in Cids : DeactivateStep(t, d)
  BY <1>1, <1>c, TokensAssumption DEF DeactivateStep
<1>d. CASE \E d \in Cids : CauseStep(d) BY <1>d DEF CauseStep
<1>e. CASE \E t \in Lists : ListStep(t) BY <1>1, <1>3, <1>e DEF ListStep
<1>f. CASE \E m \in Reports, d \in Cids \cup {0} : FailedStep(m, d) BY <1>f DEF FailedStep
<1>g. CASE \E m \in Reports, d \in Cids \cup {0} : ProceedStep(m, d)
  <2>1. PICK m \in Reports, d \in Cids : ProceedStep(m, d) BY <1>g DEF ProceedStep
  <2>2. CASE UNCHANGED toModem BY <2>2
  <2>3. CASE \E command \in {"DEFINE", "ENABLE"} :
               Grown(toModem', toModem, [command |-> command, token |-> m.token, cid |-> d])
    BY <1>1, <2>1, <2>3 DEF ProceedStep
  <2> QED BY <2>1, <2>2, <2>3 DEF ProceedStep
<1>h. CASE \E m \in Reports, d \in Cids : IpStep(m, d) BY <1>h DEF IpStep
<1>i. CASE \E m \in Reports, d \in Cids : StatusStep(m, d)
  <2>1. Grown(toModem', toModem, AskList(NoToken)) \/ toModem' = toModem
    BY <1>i DEF StatusStep, UnusedStatus, EnabledStatus, DisabledStatus, NotEnabledStatus,
                DroppedStatus, UnexpectedStatus
  <2> QED BY <1>1, <1>3, <2>1
<1>j. CASE \E m \in Reports : CallListStep(m) BY <1>j DEF CallListStep
<1>k. CASE \E order \in Requests : ServeStep(order) BY <1>2, <1>k DEF ServeStep
<1>l. CASE \E d \in Cids : ActivateStep(d) BY <1>l DEF ActivateStep, TurnStep
<1>m. CASE \E d \in Cids : ActivationFailsStep(d) \/ DeactivatedStep(d) \/ DropStep(d)
  BY <1>m DEF ActivationFailsStep, DeactivatedStep, DropStep, TurnStep
<1> QED
  BY <1>a, <1>b, <1>c, <1>d, <1>e, <1>f, <1>g, <1>h, <1>i, <1>j, <1>k, <1>l, <1>m DEF Step

(* The reader takes a message.                                             *)
ReadingStep ==
  \/ \E m \in Reports, d \in Cids \cup {0} : FailedStep(m, d) \/ ProceedStep(m, d)
  \/ \E m \in Reports, d \in Cids : IpStep(m, d) \/ StatusStep(m, d)
  \/ \E m \in Reports : CallListStep(m)

(* The modem says something.                                               *)
TurningStep(c) ==
  ActivateStep(c) \/ ActivationFailsStep(c) \/ DeactivatedStep(c) \/ DropStep(c)
ModemStep == (\E order \in Requests : ServeStep(order)) \/ \E c \in Cids : TurningStep(c)

(* A step of the reader takes one report.                                  *)
LEMMA ReadingSteps ==
  ASSUME ReadingStep
  PROVE  Shifted(fromModem', fromModem) /\ UNCHANGED <<context, issued, displaced, mistaken, target>>
BY DEF ReadingStep, FailedStep, ProceedStep, IpStep, StatusStep, CallListStep, Reading

(* A step is the reader's, the modem's, or neither: then what the modem    *)
(* has said stays.                                                         *)
LEMMA ThreeKinds ==
  ASSUME Step
  PROVE  \/ ReadingStep \/ ModemStep
         \/ UNCHANGED <<fromModem, context, answers>> 
         \/ UNCHANGED <<fromModem, context, conns>>
<1>a. CASE \E t \in Setups \cup Deacts : RefusedStep(t) BY <1>a DEF RefusedStep
<1>b. CASE \E t \in Setups, id \in Cids : SetupStep(t, id) BY <1>b DEF SetupStep
<1>c. CASE \E t \in Deacts, d \in Cids : DeactivateStep(t, d) BY <1>c DEF DeactivateStep
<1>d. CASE \E d \in Cids : CauseStep(d) BY <1>d DEF CauseStep
<1>e. CASE \E t \in Lists : ListStep(t) BY <1>e DEF ListStep
<1> QED BY <1>a, <1>b, <1>c, <1>d, <1>e DEF Step, ReadingStep, ModemStep, TurningStep

(* Whether a notification is still to come, when a message is taken and    *)
(* when the modem says something.                                          *)
LEMMA AheadRead ==
  ASSUME TypeOK, Shifted(fromModem', fromModem), context' = context, NEW c \in Cids
  PROVE  /\ \A i \in Nat : Ahead(c, i + 1) => Ahead(c, i)'
         /\ Ahead(c, 0) => fromModem[1] \in Final(c) \/ Ahead(c, 0)'
<1>1. DOMAIN fromModem \subseteq Nat \ {0} BY Places DEF TypeOK
<1>2. ASSUME NEW i \in Nat, NEW j \in DOMAIN fromModem, j > i + 1
      PROVE  j - 1 \in DOMAIN fromModem' /\ fromModem'[j - 1] = fromModem[j] /\ j - 1 > i
  BY <1>1, <1>2 DEF Shifted
<1>3. ASSUME NEW j \in DOMAIN fromModem, j # 1
      PROVE  j - 1 \in DOMAIN fromModem' /\ fromModem'[j - 1] = fromModem[j] /\ j - 1 > 0
  BY <1>1, <1>3 DEF Shifted
<1>4. ASSUME NEW i \in Nat, Ahead(c, i + 1) PROVE Ahead(c, i)'
  BY <1>2, <1>4 DEF Ahead, Final
<1>5. ASSUME Ahead(c, 0) PROVE fromModem[1] \in Final(c) \/ Ahead(c, 0)'
  BY <1>3, <1>5 DEF Ahead, Final
<1> QED BY <1>4, <1>5

(* What the modem says comes in behind what it has said.                   *)
LEMMA ModemSays ==
  ASSUME TypeOK, ModemStep
  PROVE  /\ \A i \in DOMAIN fromModem : i \in DOMAIN fromModem' /\ fromModem'[i] = fromModem[i]
         /\ ByTheModem
<1>1. ASSUME NEW new, NEW old, NEW m, Grown(new, old, m)
      PROVE  \A i \in DOMAIN old : i \in DOMAIN new /\ new[i] = old[i]
  BY <1>1 DEF Grown
<1>2. ASSUME NEW order \in Requests, ServeStep(order)
      PROVE  (\E m : Grown(fromModem', fromModem, m)) /\ ByTheModem
  BY <1>2 DEF ServeStep
<1>3. ASSUME NEW c \in Cids, ActivateStep(c)
      PROVE  /\ \E r : (\E m : Grown(r, fromModem, m)) /\ \E m : Grown(fromModem', r, m)
             /\ ByTheModem
  BY <1>3 DEF ActivateStep, TurnStep
<1>4. ASSUME NEW c \in Cids, ActivationFailsStep(c) \/ DeactivatedStep(c) \/ DropStep(c)
      PROVE  (\E m : Grown(fromModem', fromModem, m)) /\ ByTheModem
  BY <1>4 DEF ActivationFailsStep, DeactivatedStep, DropStep, TurnStep
<1>5. CASE \E order \in Requests : ServeStep(order) BY <1>1, <1>2, <1>5
<1>6. CASE \E c \in Cids : ActivateStep(c) BY <1>1, <1>3, <1>6
<1>7. CASE \E c \in Cids : ActivationFailsStep(c) \/ DeactivatedStep(c) \/ DropStep(c)
  BY <1>1, <1>4, <1>7
<1> QED BY <1>5, <1>6, <1>7 DEF ModemStep, TurningStep

(* A decision ahead stays ahead while the modem speaks.                    *)
LEMMA AheadSaid ==
  ASSUME TypeOK, ModemStep, NEW c \in Cids, NEW i \in DOMAIN fromModem \cup {0}, Ahead(c, i)
  PROVE  Ahead(c, i)'
<1>1. \A j \in DOMAIN fromModem : j \in DOMAIN fromModem' /\ fromModem'[j] = fromModem[j]
  BY ModemSays
<1>2. DOMAIN fromModem \subseteq Nat \ {0} BY Places DEF TypeOK
<1>3. CASE \E j \in DOMAIN fromModem : j > i /\ fromModem[j] \in Final(c)
  BY <1>1, <1>3 DEF Ahead, Final
<1>4. CASE context'[c] = "activating" BY <1>4 DEF Ahead
<1>5. CASE context[c] = "activating" /\ context'[c] # "activating"
  <2>1. ASSUME NEW order \in Requests, ServeStep(order) PROVE FALSE
    BY <1>5, <2>1 DEF ServeStep
  <2>2. CASE ActivateStep(c)
    <3>1. PICK r \in Seq(Reports) : /\ Grown(r, fromModem, IpConfiguration(c))
                                    /\ Grown(fromModem', r, CallStatus(c, "ENABLED", TRUE))
      BY <2>2 DEF ActivateStep
    <3>2. DOMAIN fromModem \subseteq DOMAIN r BY <3>1 DEF Grown
    <3>3. \E n \in DOMAIN fromModem' : n > i /\ fromModem'[n] = CallStatus(c, "ENABLED", TRUE)
      <4>1. PICK n \in Nat \ DOMAIN r :
              /\ n # 0 /\ n \in DOMAIN fromModem' /\ fromModem'[n] = CallStatus(c, "ENABLED", TRUE)
              /\ \A j \in DOMAIN r : j < n
        BY <3>1 DEF Grown
      <4>2. n > 0 BY <4>1
      <4>3. n > i BY <3>2, <4>1, <4>2
      <4> QED BY <4>1, <4>3
    <3> QED BY <3>3 DEF Ahead, Final
  <2>3. CASE ActivationFailsStep(c)
    <3>1. Grown(fromModem', fromModem, CallStatus(c, "NOT_ENABLED", FALSE))
      BY <2>3 DEF ActivationFailsStep
    <3>2. \E n \in DOMAIN fromModem' : n > i /\ fromModem'[n] = CallStatus(c, "NOT_ENABLED", FALSE)
      <4>1. PICK n \in Nat \ DOMAIN fromModem :
              /\ n # 0 /\ n \in DOMAIN fromModem'
              /\ fromModem'[n] = CallStatus(c, "NOT_ENABLED", FALSE)
              /\ \A j \in DOMAIN fromModem : j < n
        BY <3>1 DEF Grown
      <4>2. n > 0 BY <4>1
      <4>3. n > i BY <4>1, <4>2
      <4> QED BY <4>1, <4>3
    <3> QED BY <3>2 DEF Ahead, Final
  <2>4. ASSUME NEW d \in Cids, TurningStep(d) PROVE ActivateStep(c) \/ ActivationFailsStep(c)
    BY <1>5, <2>4 DEF TurningStep, ActivateStep, ActivationFailsStep, DeactivatedStep, DropStep,
                      TurnStep
  <2> QED BY <2>1, <2>2, <2>3, <2>4 DEF ModemStep
<1> QED BY <1>3, <1>4, <1>5 DEF Ahead

(* A request not made yet has left no trace.                               *)
LEMMA UnissuedKept == ASSUME TypeOK, TypeOK', Step, Unissued PROVE Unissued'
<1> SUFFICES ASSUME NEW t \in Token \ issued'
             PROVE  /\ ~ InTransit(t)' /\ answers'[t] = <<>>
                    /\ \A c \in Cids : conns'[c].token # t
  BY DEF Unissued
<1>1. t \in Token \ issued BY AnswersKept
<1>2. ~ InTransit(t) /\ answers[t] = <<>> /\ \A c \in Cids : conns[c].token # t
  BY <1>1 DEF Unissued
<1>3. ~ InTransit(t)' BY <1>1, <1>2, TransitKept
<1>4. answers'[t] = <<>> BY <1>2, AnswersKept
<1>5. \A c \in Cids : conns'[c].token # t BY <1>2, TokensKept, TokensAssumption
<1> QED BY <1>3, <1>4, <1>5

(* No token is in two connections.                                         *)
LEMMA OneConnectionKept ==
  ASSUME TypeOK, TypeOK', Step, Unissued, OneConnection PROVE OneConnection'
<1> SUFFICES ASSUME NEW c \in Cids, NEW d \in Cids, conns'[c].token = conns'[d].token,
                    conns'[c].token # NoToken
             PROVE  c = d
  BY DEF OneConnection
<1>1. issued' \subseteq Token BY DEF TypeOK
<1>2. CASE conns'[c].token \in issued' \ issued
  <2>1. \A e \in Cids : conns[e].token # conns'[c].token BY <1>1, <1>2 DEF Unissued
  <2> QED BY <2>1, TokensKept
<1>3. CASE conns'[c].token \notin issued' \ issued
  BY <1>3, TokensKept DEF OneConnection
<1> QED BY <1>2, <1>3

(* A connection with the token of a setup is not enabled yet.              *)
LEMMA NotYetEnabledKept ==
  ASSUME TypeOK, TypeOK', Step, NotYetEnabled PROVE NotYetEnabled'
<1> SUFFICES ASSUME NEW c \in Cids, conns'[c].token \in Setups PROVE ~ conns'[c].enabled
  BY DEF NotYetEnabled
<1>0. NoToken \notin Setups /\ Setups \cap Deacts = {} BY TokensAssumption DEF Token
<1> USE DEF NotYetEnabled, Becomes, Deleted, WithToken
<1>a. CASE \E t \in Setups \cup Deacts : RefusedStep(t) BY <1>a DEF RefusedStep
<1>b. CASE \E t \in Setups, id \in Cids : SetupStep(t, id) BY <1>b DEF SetupStep
<1>c. CASE \E t \in Deacts, d \in Cids : DeactivateStep(t, d)
  BY <1>0, <1>c DEF DeactivateStep
<1>d. CASE \E d \in Cids : CauseStep(d) BY <1>d DEF CauseStep
<1>e. CASE \E t \in Lists : ListStep(t) BY <1>e DEF ListStep
<1>f. CASE \E m \in Reports, d \in Cids \cup {0} : FailedStep(m, d)
  BY <1>0, <1>f DEF FailedStep
<1>g. CASE \E m \in Reports, d \in Cids \cup {0} : ProceedStep(m, d) BY <1>g DEF ProceedStep
<1>h. CASE \E m \in Reports, d \in Cids : IpStep(m, d) BY <1>h DEF IpStep
<1>i. CASE \E m \in Reports, d \in Cids : StatusStep(m, d)
  <2>1. PICK m \in Reports, d \in Cids : StatusStep(m, d) BY <1>i
  <2>2. CASE UnusedStatus(m, d) BY <2>2 DEF UnusedStatus
  <2>3. CASE EnabledStatus(m, d) BY <1>0, <2>3 DEF EnabledStatus
  <2>4. CASE DisabledStatus(m, d) BY <2>4 DEF DisabledStatus
  <2>5. CASE NotEnabledStatus(m, d) BY <2>5 DEF NotEnabledStatus
  <2>6. CASE DroppedStatus(m, d) BY <2>6 DEF DroppedStatus
  <2>7. CASE UnexpectedStatus(m, d) BY <2>7 DEF UnexpectedStatus
  <2> QED BY <2>1, <2>2, <2>3, <2>4, <2>5, <2>6, <2>7 DEF StatusStep
<1>j. CASE \E m \in Reports : CallListStep(m) BY <1>j DEF CallListStep
<1>k. CASE ModemStep BY <1>k, ModemSays DEF ByTheModem
<1> QED
  BY <1>a, <1>b, <1>c, <1>d, <1>e, <1>f, <1>g, <1>h, <1>i, <1>j, <1>k DEF Step, ModemStep, TurningStep

(* A command for a setup names the place its token is in.                  *)
LEMMA OrdersMatchKept ==
  ASSUME TypeOK, TypeOK', Step, Unissued, OneConnection, OrdersMatch PROVE OrdersMatch'
<1> SUFFICES ASSUME NEW i \in DOMAIN toModem', toModem'[i].token \in Setups
             PROVE  /\ toModem'[i].command # "DISABLE"
                    /\ \A c \in Cids : conns'[c].token = toModem'[i].token => c = toModem'[i].cid
  BY DEF OrdersMatch
<1>1. NoToken \notin Setups BY TokensAssumption DEF Token
<1>2. CASE \E j \in DOMAIN toModem : toModem[j] = toModem'[i]
  <2>1. PICK j \in DOMAIN toModem : toModem[j] = toModem'[i] BY <1>2
  <2>2. InTransit(toModem'[i].token) BY <2>1 DEF InTransit
  <2>3. toModem'[i].token \in issued BY <2>2 DEF Unissued, Token
  <2>4. \A c \in Cids : conns'[c].token = toModem'[i].token => conns[c].token = toModem'[i].token
    BY <1>1, <2>3, TokensKept
  <2> QED BY <2>1, <2>4 DEF OrdersMatch
<1>3. CASE /\ toModem'[i].command # "DISABLE" /\ toModem'[i].cid \in Cids
           /\ conns'[toModem'[i].cid].token = toModem'[i].token
  BY <1>1, <1>3, OneConnectionKept DEF OneConnection
<1> QED BY <1>2, <1>3, OrdersKept

(* Behind the result of ENABLE the decision is still to come.              *)
LEMMA ResultsMatchKept ==
  ASSUME TypeOK, TypeOK', Step, Unissued, OrdersMatch, ResultsMatch PROVE ResultsMatch'
<1> SUFFICES ASSUME NEW i \in DOMAIN fromModem', fromModem'[i].kind = "GEN",
                    fromModem'[i].token \in Setups
             PROVE  /\ fromModem'[i].command # "DISABLE"
                    /\ fromModem'[i].ok /\ fromModem'[i].command = "ENABLE" =>
                         \A c \in Cids : conns'[c].token = fromModem'[i].token => Ahead(c, i)'
  BY DEF ResultsMatch
<1> DEFINE m == fromModem'[i]
<1>0. DOMAIN fromModem \subseteq Nat \ {0} /\ DOMAIN fromModem' \subseteq Nat \ {0}
  BY Places DEF TypeOK
<1>1. NoToken \notin Setups BY TokensAssumption DEF Token
<1>2. ASSUME NEW j \in DOMAIN fromModem, fromModem[j] = m,
             \A c \in Cids : Ahead(c, j) => Ahead(c, i)'
      PROVE  /\ m.command # "DISABLE"
             /\ m.ok /\ m.command = "ENABLE" =>
                         \A c \in Cids : conns'[c].token = m.token => Ahead(c, i)'
  <2>1. InTransit(m.token) BY <1>2 DEF InTransit
  <2>2. m.token \in issued BY <2>1 DEF Unissued, Token
  <2>3. \A c \in Cids : conns'[c].token = m.token => conns[c].token = m.token
    BY <1>1, <2>2, TokensKept
  <2> QED BY <1>2, <2>3 DEF ResultsMatch
<1>3. CASE ReadingStep
  <2>1. Shifted(fromModem', fromModem) /\ context' = context BY <1>3, ReadingSteps
  <2>2. i + 1 \in DOMAIN fromModem /\ fromModem[i + 1] = m BY <2>1 DEF Shifted
  <2>3. \A c \in Cids : Ahead(c, i + 1) => Ahead(c, i)' BY <1>0, <2>1, AheadRead
  <2> HIDE DEF m
  <2>4. m.command # "DISABLE" /\ (m.ok /\ m.command = "ENABLE" =>
                         \A c \in Cids : conns'[c].token = m.token => Ahead(c, i)')
    BY <1>2, <2>2, <2>3
  <2> QED BY <2>4 DEF m
<1>4. CASE UNCHANGED <<fromModem, context>>
  <2>1. \A c \in Cids : Ahead(c, i) => Ahead(c, i)' BY <1>4 DEF Ahead
  <2> QED BY <1>2, <1>4, <2>1
<1>5. CASE ModemStep /\ i \in DOMAIN fromModem
  <2>1. \A c \in Cids : Ahead(c, i) => Ahead(c, i)' BY <1>5, AheadSaid
  <2>2. fromModem[i] = m BY <1>5, ModemSays
  <2> QED BY <1>2, <1>5, <2>1, <2>2
<1>6. CASE ModemStep /\ i \notin DOMAIN fromModem
  <2>1. ASSUME NEW n, Grown(fromModem', fromModem, n) PROVE m = n
    BY <1>6, <2>1 DEF Grown
  <2>2. ASSUME NEW d \in Cids, TurningStep(d) PROVE FALSE
    <3>1. CASE ActivateStep(d)
      <4>1. PICK r \in Seq(Reports) : /\ Grown(r, fromModem, IpConfiguration(d))
                                      /\ Grown(fromModem', r, CallStatus(d, "ENABLED", TRUE))
        BY <3>1 DEF ActivateStep
      <4>2. m = IpConfiguration(d) \/ m = CallStatus(d, "ENABLED", TRUE)
        BY <1>6, <4>1 DEF Grown
      <4> QED BY <4>2 DEF IpConfiguration, CallStatus
    <3>2. CASE ActivationFailsStep(d) \/ DeactivatedStep(d) \/ DropStep(d)
      BY <2>1, <3>2 DEF ActivationFailsStep, DeactivatedStep, DropStep, CallStatus
    <3> QED BY <2>2, <3>1, <3>2 DEF TurningStep
  <2>3. PICK order \in Requests : ServeStep(order) BY <1>6, <2>2 DEF ModemStep
  <2>4. m = Result(order, TRUE) \/ m = Result(order, FALSE)
    <3>1. \/ \E on : Grown(fromModem', fromModem, CallList(order.token, on))
          \/ \E ok \in BOOLEAN : Grown(fromModem', fromModem, Result(order, ok))
      BY <2>3 DEF ServeStep
    <3>2. \A on : CallList(order.token, on).kind # "GEN" BY DEF CallList
    <3>3. m.kind = "GEN" OBVIOUS
    <3> HIDE DEF m
    <3>4. CASE \E ok \in BOOLEAN : Grown(fromModem', fromModem, Result(order, ok)) BY <2>1, <3>4
    <3>5. CASE \E on : Grown(fromModem', fromModem, CallList(order.token, on))
      BY <2>1, <3>2, <3>3, <3>5
    <3> QED BY <3>1, <3>4, <3>5
  <2>5. order = toModem[1] /\ 1 \in DOMAIN toModem BY <2>3 DEF ServeStep, Shifted
  <2>6. order.command = m.command /\ order.token = m.token BY <2>4 DEF Result
  <2>7. /\ order.command # "DISABLE"
        /\ \A c \in Cids : conns[c].token = order.token => c = order.cid
    BY <2>5, <2>6 DEF OrdersMatch
  <2>8. ASSUME m.ok, m.command = "ENABLE", NEW c \in Cids, conns'[c].token = m.token
        PROVE  Ahead(c, i)'
    <3>1. m = Result(order, TRUE) BY <2>4, <2>8 DEF Result
    <3>2. conns' = conns BY <1>6, ModemSays DEF ByTheModem
    <3>3. c = order.cid BY <2>6, <2>7, <2>8, <3>2
    <3>4. context'[order.cid] = "activating"
      <4>1. CASE Grown(fromModem', fromModem, Result(order, FALSE))
        <5>1. m = Result(order, FALSE) BY <1>6, <2>1, <4>1
        <5> QED BY <2>8, <5>1 DEF Result
      <4>2. order.command = "ENABLE" BY <2>6, <2>8
      <4> QED BY <2>3, <4>1, <4>2 DEF ServeStep
    <3> QED BY <3>3, <3>4 DEF Ahead
  <2> QED BY <2>6, <2>7, <2>8
<1> QED BY <1>3, <1>4, <1>5, <1>6, ThreeKinds

(* A request that is new is on its way to the modem, or answered, or       *)
(* mistaken for the driver's own.                                          *)
LEMMA NewRequests ==
  ASSUME TypeOK, TypeOK', Step, NEW t \in Token \ issued, Pending(t)'
  PROVE  InTransit(t)' \/ (t \in Lists /\ t \in mistaken')
<1>0. answers'[t] = <<>> /\ t \in issued' BY DEF Pending
<1>1. ASSUME NEW m, Grown(toModem', toModem, m), m.token = t PROVE InTransit(t)'
  <2>1. Asked(toModem', t) BY <1>1, GrownHolds
  <2> QED BY <2>1 DEF Asked, InTransit
<1>2. CASE ReadingStep BY <1>0, <1>2, ReadingSteps
<1>3. CASE ModemStep BY <1>0, <1>3, ModemSays DEF ByTheModem
<1>4. CASE \E u \in Setups \cup Deacts : RefusedStep(u)
  BY <1>0, <1>4 DEF RefusedStep, Answering
<1>5. CASE \E u \in Setups, id \in Cids : SetupStep(u, id)
  <2>1. PICK u \in Setups, id \in Cids : SetupStep(u, id) BY <1>5
  <2>2. PICK command \in {"PORT_LIST", "DEFINE"} :
          Grown(toModem', toModem, [command |-> command, token |-> u, cid |-> id])
    BY <2>1 DEF SetupStep
  <2>3. u = t BY <1>0, <2>1 DEF SetupStep
  <2> QED BY <1>1, <2>2, <2>3
<1>6. CASE \E u \in Deacts, c \in Cids : DeactivateStep(u, c)
  <2>1. PICK u \in Deacts, c \in Cids : DeactivateStep(u, c) BY <1>6
  <2>2. Grown(toModem', toModem, [command |-> "DISABLE", token |-> u, cid |-> c])
    BY <2>1 DEF DeactivateStep
  <2>3. u = t BY <1>0, <2>1 DEF DeactivateStep
  <2> QED BY <1>1, <2>2, <2>3
<1>7. CASE \E c \in Cids : CauseStep(c) BY <1>0, <1>7 DEF CauseStep
<1>8. CASE \E u \in Lists : ListStep(u)
  <2>1. PICK u \in Lists : ListStep(u) BY <1>8
  <2>2. u = t BY <1>0, <2>1 DEF ListStep
  <2>3. AskList(t).token = t BY DEF AskList
  <2> QED BY <1>1, <2>1, <2>2, <2>3 DEF ListStep
<1> QED BY <1>2, <1>3, <1>4, <1>5, <1>6, <1>7, <1>8 DEF Step, ReadingStep, ModemStep, TurningStep

(* A setup stays under way as long as it is not answered and its place not *)
(* taken from it.                                                          *)
LEMMA OutstandingKept ==
  ASSUME TypeOK, TypeOK', Step, SetupInv, NEW t \in Setups, Pending(t), Pending(t)', Outstanding(t),
         \A c \in Cids : conns[c].token = t /\ Ahead(c, 0) => conns'[c].token = t
  PROVE  Outstanding(t)'
<1> USE DEF SetupInv
<1>0. answers'[t] = <<>> /\ t \in issued' /\ t \in Token BY DEF Pending, Token
<1>2. ASSUME NEW m \in Reports, NEW c \in Cids \cup {0}, FailedStep(m, c), m.token = t
      PROVE  FALSE
  BY <1>0, <1>2 DEF FailedStep, Answering
<1>3. ASSUME NEW m \in Reports, NEW c \in Cids \cup {0}, ProceedStep(m, c), m.token = t
      PROVE  Outstanding(t)'
  <2>1. /\ m = fromModem[1] /\ 1 \in DOMAIN fromModem /\ m.kind = "GEN" /\ m.ok /\ c \in Cids
        /\ conns[c].token = t /\ conns' = conns
        /\ Shifted(fromModem', fromModem) /\ context' = context
    BY <1>3 DEF ProceedStep, Reading, Shifted
  <2>2. CASE m.command = "ENABLE"
    <3>1. Ahead(c, 0 + 1) BY <1>3, <2>1, <2>2 DEF ResultsMatch
    <3>2. Ahead(c, 0)' BY <2>1, <3>1, AheadRead
    <3> QED BY <2>1, <3>2 DEF Outstanding
  <2>3. CASE m.command = "DISABLE" BY <1>3, <2>1, <2>3 DEF ResultsMatch
  <2>4. CASE m.command \in {"PORT_LIST", "DEFINE"}
    <3>1. PICK command \in {"DEFINE", "ENABLE"} :
            Grown(toModem', toModem, [command |-> command, token |-> m.token, cid |-> c])
      BY <1>3, <2>4 DEF ProceedStep
    <3>2. Asked(toModem', t) BY <1>3, <3>1, GrownHolds
    <3> QED BY <3>2 DEF Asked, InTransit, Outstanding
  <2> QED BY <1>3, <2>2, <2>3, <2>4 DEF ProceedStep
<1>4. ASSUME NEW m \in Reports, CallListStep(m), m.token = t PROVE FALSE
  <2>1. m.token \in Lists \cup {NoToken} BY <1>4, ReportKinds DEF CallListStep, Reading
  <2> QED BY <1>4, <2>1, TokensAssumption DEF Token
<1>5. CASE InTransit(t)
  BY <1>0, <1>2, <1>3, <1>4, <1>5, TransitKept DEF Outstanding
<1>6. CASE \E c \in Cids : conns[c].token = t /\ Ahead(c, 0)
  <2>1. PICK c \in Cids : conns[c].token = t /\ Ahead(c, 0) BY <1>6
  <2>2. ~ conns[c].enabled BY <2>1 DEF NotYetEnabled
  <2>3. conns'[c].token = t BY <2>1
  <2>4. t # NoToken BY <1>0, TokensAssumption
  <2>5. Ahead(c, 0)'
    <3>1. CASE UNCHANGED <<fromModem, context>> BY <2>1, <3>1 DEF Ahead
    <3>2. CASE ModemStep BY <2>1, <3>2, AheadSaid
    <3>3. CASE ReadingStep
      <4>1. Ahead(c, 0)' \/ fromModem[1] \in Final(c)
        BY <2>1, <3>3, ReadingSteps, AheadRead
      <4>2. ASSUME fromModem[1] \in Final(c) PROVE FALSE
        <5> DEFINE m == fromModem[1]
        <5>1. /\ m.kind = "STATUS" /\ m.cid = c
              /\ \/ m.ok /\ m.state = "ENABLED"
                 \/ ~ m.ok /\ m.state = "NOT_ENABLED"
          <6>1. m = CallStatus(c, "ENABLED", TRUE) \/ m = CallStatus(c, "NOT_ENABLED", FALSE)
            BY <4>2 DEF Final
          <6> HIDE DEF m
          <6>2. CASE m = CallStatus(c, "ENABLED", TRUE) BY <6>2 DEF CallStatus
          <6>3. CASE m = CallStatus(c, "NOT_ENABLED", FALSE) BY <6>3 DEF CallStatus
          <6> QED BY <6>1, <6>2, <6>3
        <5> HIDE DEF m
        <5>2. StatusStep(m, c)
          <6>1. \E d \in Cids : StatusStep(m, d)
            BY <3>3, <5>1 DEF ReadingStep, FailedStep, ProceedStep, IpStep, StatusStep,
                              CallListStep, Reading, m
          <6> QED BY <5>1, <6>1 DEF StatusStep, CallStatus
        <5>3. conns[c].used
          <6>1. conns[c] \in Connection \cup {NoConnection} BY DEF TypeOK
          <6> QED BY <2>1, <2>4, <6>1, ConnectionKinds
        <5>4. EnabledStatus(m, c) \/ NotEnabledStatus(m, c)
          BY <2>1, <2>2, <2>4, <5>1, <5>2, <5>3
             DEF StatusStep, UnusedStatus, DisabledStatus, DroppedStatus, UnexpectedStatus
        <5> QED BY <1>0, <2>1, <5>4 DEF EnabledStatus, NotEnabledStatus, Answering
      <4> QED BY <4>1, <4>2
    <3> QED BY <3>1, <3>2, <3>3, ThreeKinds
  <2> QED BY <2>3, <2>5 DEF Outstanding
<1> QED BY <1>5, <1>6 DEF Outstanding

(* A setup that waits, and was not displaced, keeps a message or a         *)
(* decision ahead.                                                         *)
LEMMA SetupsLiveKept ==
  ASSUME TypeOK, TypeOK', Step, SetupInv PROVE SetupsLive'
<1> SUFFICES ASSUME NEW t \in Setups \ displaced', Pending(t)' PROVE Outstanding(t)'
  BY DEF SetupsLive
<1>1. answers'[t] = <<>> /\ t \in issued' /\ t \in Token BY DEF Pending, Token
<1>2. answers[t] = <<>> /\ t \notin displaced BY <1>1, AnswersKept
<1>3. CASE t \notin issued
  <2>1. t \notin Lists BY TokensAssumption
  <2> QED BY <1>1, <1>3, <2>1, NewRequests DEF Outstanding
<1>4. CASE t \in issued
  <2>1. Pending(t) /\ Outstanding(t) BY <1>2, <1>4 DEF Pending, SetupInv, SetupsLive
  <2>2. ASSUME NEW c \in Cids, conns[c].token = t PROVE conns'[c].token = t
    <3>1. ~ conns[c].enabled BY <2>2 DEF SetupInv, NotYetEnabled
    <3> QED BY <1>1, <2>1, <2>2, <3>1, TokensLost DEF DroppedStatus
  <2> QED BY <2>1, <2>2, OutstandingKept
<1> QED BY <1>3, <1>4

(* The invariant of the setups is inductive with the types.                *)
LEMMA SetupInvKept ==
  ASSUME TypeOK, SetupInv, [Next]_vars PROVE SetupInv'
<1>1. CASE UNCHANGED vars
  BY <1>1 DEF vars, SetupInv, Unissued, OneConnection, NotYetEnabled, OrdersMatch, ResultsMatch,
              SetupsLive, Outstanding, Pending, InTransit, Ahead
<1>2. CASE Next
  <2>1. TypeOK' /\ Step BY <1>2, Steps
  <2>2. Unissued' /\ OneConnection' /\ NotYetEnabled'
    BY <2>1, UnissuedKept, OneConnectionKept, NotYetEnabledKept DEF SetupInv
  <2>3. OrdersMatch' /\ ResultsMatch'
    BY <2>1, OrdersMatchKept, ResultsMatchKept DEF SetupInv
  <2>4. SetupsLive' BY <2>1, SetupsLiveKept
  <2> QED BY <2>2, <2>3, <2>4 DEF SetupInv
<1> QED BY <1>1, <1>2

(* It holds in the beginning, when nothing was asked.                      *)
LEMMA InitSetups == Init => SetupInv
<1> SUFFICES ASSUME Init PROVE SetupInv OBVIOUS
<1>1. DOMAIN toModem = {} /\ DOMAIN fromModem = {} /\ issued = {} BY DEF Init
<1>2. \A t \in Token : answers[t] = <<>> /\ ~ InTransit(t) /\ ~ Pending(t)
  BY <1>1 DEF Init, InTransit, Pending
<1>3. \A c \in Cids : conns[c].token = NoToken BY DEF Init, NoConnection
<1>4. NoToken \notin Token BY TokensAssumption
<1> QED
  BY <1>1, <1>2, <1>3, <1>4 DEF SetupInv, Unissued, OneConnection, NotYetEnabled, OrdersMatch,
     ResultsMatch, SetupsLive, Token

(* The place of a request that is in one.                                  *)
LEMMA PlaceOf ==
  ASSUME TypeOK, OneConnection, NEW c \in Cids, NEW t \in Token, conns[c].token = t
  PROVE  ril_gprs_connection_get_token(t) = c /\ c # 0
BY TokensPlace, TokensAssumption DEF OneConnection

(* A request with a message, or with a decision ahead, is under way.       *)
LEMMA OutstandingIsUnderway ==
  ASSUME TypeOK, OneConnection, NEW t \in Token, Outstanding(t) PROVE Underway(t)
<1>1. CASE InTransit(t) BY <1>1 DEF Underway
<1>2. CASE \E c \in Cids : conns[c].token = t /\ Ahead(c, 0)
  <2>1. PICK c \in Cids : conns[c].token = t /\ Ahead(c, 0) BY <1>2
  <2>2. ril_gprs_connection_get_token(t) = c /\ c # 0 BY <2>1, PlaceOf
  <2>3. context[c] \in {"activating", "deactivating"} \/ Notified(c)
    BY <2>1 DEF Ahead, Final, Notified, CallStatus
  <2> QED BY <2>2, <2>3 DEF Underway
<1> QED BY <1>1, <1>2 DEF Outstanding

(* It holds always.                                                        *)
LEMMA SetupsAlways == Spec => [](TypeOK /\ SetupInv)
<1> QED BY Typed, InitSetups, SetupInvKept, PTL DEF Spec

(* SETUP_DATA_CALL is never forgotten, for any number of requests, places, *)
(* refusals, drops and interfaces that cannot be configured: a request     *)
(* that has no answer yet has a command under way, or the notification     *)
(* that decides over it is still to come, unless its place was given away. *)
THEOREM SetupsAreUnderway == Spec => []SetupsUnderway
<1>1. TypeOK /\ SetupInv => SetupsUnderway
  BY OutstandingIsUnderway DEF SetupsUnderway, SetupInv, SetupsLive, Token
<1> QED BY <1>1, SetupsAlways, PTL

-----------------------------------------------------------------------------
(* Without reclaiming.                                                     *)

(* The four notifications of a cid: up, not come up, ended, and dropped by *)
(* the network.                                                            *)
Up(c) == CallStatus(c, "ENABLED", TRUE)
NotUp(c) == CallStatus(c, "NOT_ENABLED", FALSE)
Down(c) == CallStatus(c, "DISABLED", TRUE)
Lost(c) == CallStatus(c, "DISABLED", FALSE)

(* What a line of reports says of the status of c.                         *)
Said(s, c) == {m \in {s[i] : i \in DOMAIN s} : m.kind = "STATUS" /\ m.cid = c}
News(c) == Said(fromModem, c)

(* The phases of a cid: its context, the notifications on their way, and   *)
(* the driver's side.                                                      *)
Idle(c) == context[c] = "off" /\ News(c) = {} /\ ~ conns[c].enabled
Rising(c) == context[c] = "activating" /\ News(c) = {} /\ conns[c].token \in Setups
Risen(c) == context[c] = "on" /\ News(c) = {Up(c)} /\ conns[c].token \in Setups
RisenLost(c) == context[c] = "off" /\ News(c) = {Up(c), Lost(c)} /\ conns[c].token \in Setups
NotRisen(c) == context[c] = "off" /\ News(c) = {NotUp(c)} /\ conns[c].token \in Setups
Running(c) == context[c] = "on" /\ News(c) = {} /\ conns[c].enabled
Falling(c) ==
  /\ context[c] = "deactivating" /\ News(c) = {} /\ conns[c].enabled /\ conns[c].token \in Deacts
Fallen(c) ==
  context[c] = "off" /\ News(c) = {Down(c)} /\ conns[c].enabled /\ conns[c].token \in Deacts
Broken(c) == context[c] = "off" /\ News(c) = {Lost(c)} /\ conns[c].enabled

(* Every cid is in a phase.                                                *)
Phases ==
  \A c \in Cids :
    \/ Idle(c) \/ Rising(c) \/ Risen(c) \/ RisenLost(c) \/ NotRisen(c)
    \/ Running(c) \/ Falling(c) \/ Fallen(c) \/ Broken(c)

(* No notification is on its way twice.                                    *)
Once(s) == \A i, j \in DOMAIN s : s[i].kind = "STATUS" /\ s[i] = s[j] => i = j
SaidOnce == Once(fromModem)

(* That a call is up is told before it is dropped.                         *)
UpFirst ==
  \A c \in Cids : \A i, j \in DOMAIN fromModem :
    fromModem[i] = Up(c) /\ fromModem[j] = Lost(c) => i < j

(* A call has its address and interface when enabled, and its address is   *)
(* told before that it is up.                                              *)
Addresses ==
  \A c \in Cids :
    /\ conns[c].enabled => conns[c].ip /\ conns[c].interface
    /\ \A i \in DOMAIN fromModem : fromModem[i] = Up(c) =>
         conns[c].ip \/ \E j \in DOMAIN fromModem : j < i /\ fromModem[j] = IpConfiguration(c)

(* Messages and their requests.                                            *)
OneMessage ==
  \A t \in Token :
    /\ \A i, j \in DOMAIN toModem : toModem[i].token = t /\ toModem[j].token = t => i = j
    /\ \A i, j \in DOMAIN fromModem : Bears(fromModem[i], t) /\ Bears(fromModem[j], t) => i = j
    /\ ~ (Asked(toModem, t) /\ Borne(fromModem, t))

(* Which tokens stand where.                                               *)
Addressed ==
  /\ \A i \in DOMAIN toModem :
       /\ toModem[i].command = "DISABLE" <=> toModem[i].token \in Deacts
       /\ toModem[i].token \in Deacts => toModem[i].cid = target[toModem[i].token]
       /\ toModem[i].command \in {"PORT_LIST", "DEFINE", "ENABLE"} => toModem[i].token \in Setups
  /\ \A i \in DOMAIN fromModem :
       fromModem[i].kind = "GEN" =>
         fromModem[i].token \in (IF fromModem[i].command = "DISABLE" THEN Deacts ELSE Setups)
  /\ \A c \in Cids :
       /\ conns[c].token \notin Lists
       /\ conns[c].token \in Deacts => target[conns[c].token] = c

(* The cid that failed last: nobody waits for its connection, and rild     *)
(* does not believe it active.                                             *)
LastFailed ==
  lastFailed # 0 =>
    /\ conns[lastFailed].token = NoToken /\ conns[lastFailed].used
    /\ ~ conns[lastFailed].enabled /\ lastFailed \notin active

(* The cid of a setup is idle while a command for it is on its way to the  *)
(* modem, and ENABLE finds the connection of its request.                  *)
SetupOrders ==
  \A i \in DOMAIN toModem :
    /\ \A c \in Cids : toModem[i].token \in Setups /\ conns[c].token = toModem[i].token => Idle(c)
    /\ toModem[i].command = "ENABLE" =>
         conns[toModem[i].cid].token = toModem[i].token /\ toModem[i].cid \notin active

(* DISABLE comes behind every ENABLE of its cid, and finds the call        *)
(* running, just dropped, or gone.                                         *)
EndOrders ==
  \A i \in DOMAIN toModem, c \in Cids :
    toModem[i].command = "DISABLE" /\ toModem[i].cid = c =>
      /\ \A j \in DOMAIN toModem : j < i /\ toModem[j].command = "ENABLE" => toModem[j].cid # c
      /\ \/ Idle(c)
         \/ conns[c].token = toModem[i].token /\ (Running(c) \/ Broken(c))

(* The cid of a setup is idle until ENABLE has been accepted.              *)
SetupResults ==
  \A i \in DOMAIN fromModem, c \in Cids :
    /\ fromModem[i].kind = "GEN" /\ fromModem[i].token \in Setups
    /\ fromModem[i].token = conns[c].token /\ ~ (fromModem[i].command = "ENABLE" /\ fromModem[i].ok)
    => Idle(c)

(* DISABLE accepted: the call is about to end, or its end is told behind   *)
(* the result.  Refused: the call is gone, or that it was dropped is told  *)
(* before the result.                                                      *)
EndResults ==
  \A i \in DOMAIN fromModem, c \in Cids :
    fromModem[i].kind = "GEN" /\ fromModem[i].token \in Deacts /\ fromModem[i].token = conns[c].token =>
      IF fromModem[i].ok
      THEN Falling(c) \/ \E j \in DOMAIN fromModem : j > i /\ fromModem[j] = Down(c)
      ELSE Idle(c) \/ \E j \in DOMAIN fromModem : j < i /\ fromModem[j] = Lost(c)

(* The results for the setup of c up to place k.                           *)
ResultsBefore(c, k) ==
  \E j \in DOMAIN fromModem :
    j < k /\ fromModem[j].kind = "GEN" /\ fromModem[j].token \in Setups
    /\ fromModem[j].token = conns[c].token
OrdersBefore(c, k) ==
  \E j \in DOMAIN toModem :
    j < k /\ toModem[j].token \in Setups /\ toModem[j].token = conns[c].token

(* A list is on its way that was, or will be, made up before the setup for *)
(* c comes to ENABLE.                                                      *)
Refreshed(c) ==
  \/ \E k \in DOMAIN fromModem : fromModem[k].kind = "LIST" /\ ~ ResultsBefore(c, k)
  \/ /\ \E k \in DOMAIN toModem : toModem[k].command = "LIST" /\ ~ OrdersBefore(c, k)
     /\ \A j \in DOMAIN fromModem : fromModem[j].kind = "GEN" =>
          ~ (fromModem[j].token \in Setups /\ fromModem[j].token = conns[c].token)

(* What rild takes for active and is not enabled, no setup touches until   *)
(* the list has told rild so.                                              *)
Believed == \A c \in active : ~ conns[c].enabled => Idle(c) /\ Refreshed(c)

(* A list names calls the driver knows of by the time it reads the list.   *)
Listed ==
  \A i \in DOMAIN fromModem :
    fromModem[i].kind = "LIST" =>
      \A c \in fromModem[i].on :
        /\ conns[c].enabled \/ \E j \in DOMAIN fromModem : j < i /\ fromModem[j] = Up(c)
        /\ \A j \in DOMAIN fromModem :
             j < i => fromModem[j] # Lost(c) /\ fromModem[j] # Down(c)

(* Tokens are those of requests that wait.                                 *)
Awaited ==
  /\ \A c \in Cids : conns[c].token # NoToken => Pending(conns[c].token)
  /\ \A t \in Token : InTransit(t) => Pending(t)

(* Every request that waits has something to come, of one kind for each    *)
(* request.                                                                *)
NoneForgotten ==
  /\ \A t \in Setups : Pending(t) => Outstanding(t)
  /\ \A t \in Deacts :
       Pending(t) => InTransit(t) \/ \E c \in Cids : conns[c].token = t /\ (Falling(c) \/ Fallen(c))
  /\ \A t \in Lists \ mistaken : Pending(t) => InTransit(t)

(* No request is answered twice.                                           *)
Answers1 == \A t \in Token : Len(answers[t]) <= 1

(* The invariant while nothing has been reclaimed.                         *)
Room ==
  /\ Phases /\ SaidOnce /\ UpFirst /\ Addresses /\ OneMessage /\ Addressed /\ LastFailed
  /\ SetupOrders /\ EndOrders /\ SetupResults /\ EndResults /\ Believed /\ Listed /\ Awaited
  /\ NoneForgotten

-----------------------------------------------------------------------------
(* How a phase follows another.                                            *)

(* The notifications on their way after another report.                    *)
LEMMA SaidGrown ==
  ASSUME NEW old, NEW new, NEW m, Grown(new, old, m), NEW c
  PROVE  Said(new, c) = Said(old, c) \cup (IF m.kind = "STATUS" /\ m.cid = c THEN {m} ELSE {})
<1> PICK n \in Nat \ DOMAIN old :
      /\ n # 0 /\ DOMAIN new = DOMAIN old \cup {n} /\ new[n] = m
      /\ \A i \in DOMAIN old : new[i] = old[i] /\ i < n
  BY DEF Grown
<1>1. {new[i] : i \in DOMAIN new} = {old[i] : i \in DOMAIN old} \cup {m} OBVIOUS
<1> QED BY <1>1 DEF Said

(* A report of another kind is no news.                                    *)
LEMMA OtherSaid ==
  ASSUME NEW old, NEW new, NEW m, Grown(new, old, m), m.kind # "STATUS", NEW c
  PROVE  Said(new, c) = Said(old, c)
<1>1. Said(new, c) = Said(old, c) \cup (IF m.kind = "STATUS" /\ m.cid = c THEN {m} ELSE {})
  BY SaidGrown
<1> QED BY <1>1

(* A notification that was taken is not on its way any more.               *)
LEMMA SaidShifted ==
  ASSUME NEW old, NEW new, Shifted(new, old), Once(old), DOMAIN new \subseteq Nat \ {0}, NEW c
  PROVE  Said(new, c) = Said(old, c) \ {old[1]}
<1>1. ASSUME NEW m \in Said(new, c) PROVE m \in Said(old, c) \ {old[1]}
  <2>1. PICK i \in DOMAIN new : new[i] = m BY <1>1 DEF Said
  <2>2. i + 1 \in DOMAIN old /\ i + 1 # 1 /\ 1 \in DOMAIN old /\ old[i + 1] = m
    BY <2>1 DEF Shifted
  <2>3. m.kind = "STATUS" /\ m.cid = c BY <1>1 DEF Said
  <2>4. old[1] # m BY <2>2, <2>3 DEF Once
  <2> QED BY <2>2, <2>3, <2>4 DEF Said
<1>2. ASSUME NEW m \in Said(old, c) \ {old[1]} PROVE m \in Said(new, c)
  <2>1. PICK i \in DOMAIN old : old[i] = m BY <1>2 DEF Said
  <2>2. i # 1 BY <1>2, <2>1
  <2>3. i - 1 \in DOMAIN new /\ new[i - 1] = m BY <2>1, <2>2 DEF Shifted
  <2>4. m.kind = "STATUS" /\ m.cid = c BY <1>2 DEF Said
  <2> QED BY <2>3, <2>4 DEF Said
<1> QED BY <1>1, <1>2

(* Nothing of what the phase of c depends on changes.                      *)
Quiet(c) ==
  /\ context'[c] = context[c] /\ News(c)' = News(c)
  /\ conns'[c].token = conns[c].token /\ conns'[c].enabled = conns[c].enabled

(* Where nothing of it changes, a cid keeps its phase.                     *)
LEMMA QuietPhases ==
  ASSUME NEW c \in Cids, Quiet(c)
  PROVE  /\ Idle(c)' <=> Idle(c)
         /\ Rising(c)' <=> Rising(c)
         /\ Risen(c)' <=> Risen(c)
         /\ RisenLost(c)' <=> RisenLost(c)
         /\ NotRisen(c)' <=> NotRisen(c)
         /\ Running(c)' <=> Running(c)
         /\ Falling(c)' <=> Falling(c)
         /\ Fallen(c)' <=> Fallen(c)
         /\ Broken(c)' <=> Broken(c)
BY DEF Quiet, Idle, Rising, Risen, RisenLost, NotRisen, Running, Falling, Fallen, Broken

(* The modem carries out the command of the connection of c.               *)
Served(command, c) ==
  \E order \in Requests :
    /\ ServeStep(order) /\ order.command = command /\ order.cid = c
    /\ conns[c].token = order.token

(* What a notification does, phase by phase.                               *)
StatusMove(m, c) ==
  \/ /\ m = Up(c) /\ EnabledStatus(m, c) /\ conns'[c].token = NoToken /\ conns[c].token \in Setups
     /\ (Risen(c) /\ Running(c)') \/ (RisenLost(c) /\ Broken(c)')
  \/ m = NotUp(c) /\ NotEnabledStatus(m, c) /\ NotRisen(c) /\ Idle(c)'
  \/ m = Down(c) /\ DisabledStatus(m, c) /\ Fallen(c) /\ Idle(c)'
  \/ m = Lost(c) /\ DroppedStatus(m, c) /\ Broken(c) /\ Idle(c)'

(* The ways a cid passes from phase to phase.                              *)
Moves(c) ==
  \/ Quiet(c)
  \/ Idle(c) /\ Idle(c)'
  \/ Idle(c) /\ Rising(c)' /\ Served("ENABLE", c)
  \/ Running(c) /\ Falling(c)' /\ Served("DISABLE", c)
  \/ ActivateStep(c) /\ Rising(c) /\ Risen(c)'
  \/ ActivationFailsStep(c) /\ Rising(c) /\ NotRisen(c)'
  \/ DeactivatedStep(c) /\ Falling(c) /\ Fallen(c)'
  \/ DropStep(c) /\ ((Risen(c) /\ RisenLost(c)') \/ (Running(c) /\ Broken(c)'))
  \/ \E m \in Reports : StatusStep(m, c) /\ StatusMove(m, c)
  \/ \E t \in Deacts :
       /\ DeactivateStep(t, c) /\ conns[c].token = NoToken /\ conns'[c].token = t
       /\ (Running(c) /\ Running(c)') \/ (Broken(c) /\ Broken(c)')

-----------------------------------------------------------------------------
(* Where the messages of a line come from, in one step.                    *)

(* The first s messages of a line have been taken, and those of A have     *)
(* come in behind the others.                                              *)
Moved(new, old, s, A) ==
  /\ s \in {0, 1}
  /\ \A i \in DOMAIN old : i > s => i - s \in DOMAIN new /\ new[i - s] = old[i]
  /\ \A i \in DOMAIN new :
       \/ i + s \in DOMAIN old /\ new[i] = old[i + s]
       \/ i + s \notin DOMAIN old /\ new[i] \in A /\ \A j \in DOMAIN old : j - s < i
  /\ \A i, j \in DOMAIN new :
       new[i] = new[j] /\ i + s \notin DOMAIN old /\ j + s \notin DOMAIN old => i = j

(* How the places of the messages move when one is added,                  *)
LEMMA GrownMoves ==
  ASSUME NEW old, NEW new, NEW m, Grown(new, old, m), DOMAIN old \subseteq Nat
  PROVE  Moved(new, old, 0, {m})
<1> PICK n \in Nat \ DOMAIN old :
      /\ n # 0 /\ DOMAIN new = DOMAIN old \cup {n} /\ new[n] = m
      /\ \A i \in DOMAIN old : new[i] = old[i] /\ i < n
  BY DEF Grown
<1>1. \A i \in Nat : i + 0 = i /\ i - 0 = i OBVIOUS
<1>2. ASSUME NEW i \in DOMAIN new
      PROVE  \/ i + 0 \in DOMAIN old /\ new[i] = old[i + 0]
             \/ i + 0 \notin DOMAIN old /\ i = n /\ new[i] \in {m} /\ \A j \in DOMAIN old : j - 0 < i
  BY <1>1
<1>3. ASSUME NEW i \in DOMAIN old PROVE i - 0 \in DOMAIN new /\ new[i - 0] = old[i]
  BY <1>1
<1> QED BY <1>2, <1>3 DEF Moved

(* when one is taken,                                                      *)
LEMMA ShiftedMoves ==
  ASSUME NEW old, NEW new, Shifted(new, old), DOMAIN old \subseteq Nat \ {0}
  PROVE  Moved(new, old, 1, {})
<1>1. ASSUME NEW i \in DOMAIN new PROVE i + 1 \in DOMAIN old /\ new[i] = old[i + 1]
  BY DEF Shifted
<1>2. ASSUME NEW i \in DOMAIN old, i > 1 PROVE i - 1 \in DOMAIN new /\ new[i - 1] = old[i]
  BY <1>2 DEF Shifted
<1> QED BY <1>1, <1>2 DEF Moved

(* when the line stays,                                                    *)
LEMMA StillMoves ==
  ASSUME NEW old, DOMAIN old \subseteq Nat PROVE Moved(old, old, 0, {})
<1>1. \A i \in DOMAIN old : i + 0 = i /\ i - 0 = i OBVIOUS
<1> QED BY <1>1 DEF Moved

(* and when two are added.                                                 *)
LEMMA TwoGrownMove ==
  ASSUME NEW old, NEW mid, NEW new, NEW m, NEW n, Grown(mid, old, m), Grown(new, mid, n),
         DOMAIN old \subseteq Nat, m # n
  PROVE  Moved(new, old, 0, {m, n})
<1> PICK a \in Nat \ DOMAIN old :
      /\ a # 0 /\ DOMAIN mid = DOMAIN old \cup {a} /\ mid[a] = m
      /\ \A i \in DOMAIN old : mid[i] = old[i] /\ i < a
  BY DEF Grown
<1> PICK b \in Nat \ DOMAIN mid :
      /\ b # 0 /\ DOMAIN new = DOMAIN mid \cup {b} /\ new[b] = n
      /\ \A i \in DOMAIN mid : new[i] = mid[i] /\ i < b
  BY DEF Grown
<1>1. \A i \in Nat : i + 0 = i /\ i - 0 = i OBVIOUS
<1>2. ASSUME NEW i \in DOMAIN new
      PROVE  \/ i + 0 \in DOMAIN old /\ new[i] = old[i + 0]
             \/ /\ i + 0 \notin DOMAIN old /\ \A j \in DOMAIN old : j - 0 < i
                /\ (i = a /\ new[i] = m) \/ (i = b /\ new[i] = n)
  <2>1. CASE i = a BY <1>1, <2>1
  <2>2. CASE i = b BY <1>1, <2>2
  <2>3. CASE i \in DOMAIN old BY <1>1, <2>3
  <2> QED BY <2>1, <2>2, <2>3
<1>3. ASSUME NEW i \in DOMAIN old PROVE i - 0 \in DOMAIN new /\ new[i - 0] = old[i]
  BY <1>1
<1> QED BY <1>2, <1>3 DEF Moved

(* What the modem says in a step, and why.                                 *)
ToldList(m) ==
  \E order \in Requests :
    /\ ServeStep(order) /\ order.command = "LIST" /\ UNCHANGED context
    /\ m = CallList(order.token, {c \in Cids : context[c] = "on"})
ToldRefusal(m) ==
  \E order \in Requests :
    /\ ServeStep(order) /\ order.command \in {"ENABLE", "DISABLE"} /\ UNCHANGED context
    /\ m = Result(order, FALSE)
    /\ \/ context[order.cid] # (IF order.command = "ENABLE" THEN "off" ELSE "on")
       \/ order.command \in Refusable
ToldDone(m) ==
  \E order \in Requests :
    /\ ServeStep(order) /\ order.command \in {"ENABLE", "DISABLE"}
    /\ m = Result(order, TRUE) /\ Grown(fromModem', fromModem, m)
    /\ IF order.command = "ENABLE"
       THEN context[order.cid] = "off" /\ context'[order.cid] = "activating"
       ELSE context[order.cid] = "on" /\ context'[order.cid] = "deactivating"
ToldPrepared(m) ==
  \E order \in Requests, ok \in BOOLEAN :
    /\ ServeStep(order) /\ order.command \in {"PORT_LIST", "DEFINE"} /\ UNCHANGED context
    /\ m = Result(order, ok)
ToldTurn(m) ==
  \E c \in Cids :
    \/ ActivateStep(c) /\ m \in {IpConfiguration(c), Up(c)}
    \/ ActivationFailsStep(c) /\ m = NotUp(c)
    \/ DeactivatedStep(c) /\ m = Down(c)
    \/ DropStep(c) /\ m = Lost(c)
Told(m) == ToldList(m) \/ ToldRefusal(m) \/ ToldDone(m) \/ ToldPrepared(m) \/ ToldTurn(m)

Reported(s, A) ==
  /\ Moved(fromModem', fromModem, s, A) /\ (s = 1 => ReadingStep /\ A = {})
  /\ \A m \in A : Told(m)
  /\ \A m, n \in A : m.kind = n.kind => m = n

(* Every step moves the reports by one place or none.                      *)
LEMMA ReportsMove ==
  ASSUME TypeOK, Step PROVE \E s \in {0, 1}, A \in SUBSET Reports : Reported(s, A)
<1>0. DOMAIN fromModem \subseteq Nat \ {0} /\ DOMAIN fromModem \subseteq Nat BY LineTypes
<1>1. CASE UNCHANGED fromModem
  <2>1. Moved(fromModem', fromModem, 0, {}) BY <1>0, <1>1, StillMoves
  <2>2. Reported(0, {}) BY <2>1 DEF Reported
  <2> QED BY <2>2
<1>2. CASE ReadingStep
  <2>1. Moved(fromModem', fromModem, 1, {}) BY <1>0, <1>2, ReadingSteps, ShiftedMoves
  <2>2. Reported(1, {}) BY <1>2, <2>1 DEF Reported
  <2> QED BY <2>2
<1>3. ASSUME NEW m, Grown(fromModem', fromModem, m), Told(m), m \in Reports
      PROVE  \E s \in {0, 1}, A \in SUBSET Reports : Reported(s, A)
  <2>1. Moved(fromModem', fromModem, 0, {m}) BY <1>0, <1>3, GrownMoves
  <2>2. Reported(0, {m}) BY <1>3, <2>1 DEF Reported
  <2> QED BY <1>3, <2>2
<1>4. CASE ModemStep
  <2>1. CASE \E order \in Requests : ServeStep(order)
    <3> PICK order \in Requests : ServeStep(order) BY <2>1
    <3>1. order.command # "LIST" => order \in Order BY RequestKinds
    <3>2. order.command = "LIST" => order.token \in Lists \cup {NoToken} BY RequestKinds
    <3>3. CASE order.command = "LIST"
      <4> DEFINE on == {c \in Cids : context[c] = "on"}
      <4>1. Grown(fromModem', fromModem, CallList(order.token, on)) /\ UNCHANGED context
        BY <3>3 DEF ServeStep
      <4>2. on \in SUBSET Cids OBVIOUS
      <4>3. ToldList(CallList(order.token, on)) BY <3>3, <4>1 DEF ToldList
      <4> HIDE DEF on
      <4>4. CallList(order.token, on) \in Reports BY <3>2, <3>3, <4>2, MessagesAreTyped
      <4> QED BY <1>3, <4>1, <4>3, <4>4 DEF Told
    <3>4. CASE order.command \in {"PORT_LIST", "DEFINE"}
      <4>1. PICK ok \in BOOLEAN : Grown(fromModem', fromModem, Result(order, ok))
        BY <3>4 DEF ServeStep
      <4>2. ToldPrepared(Result(order, ok)) BY <3>4, <4>1 DEF ServeStep, ToldPrepared
      <4>3. Result(order, ok) \in Reports BY <3>1, <3>4, MessagesAreTyped
      <4> QED BY <1>3, <4>1, <4>2, <4>3 DEF Told
    <3>5. CASE order.command \in {"ENABLE", "DISABLE"}
      <4>0. Result(order, TRUE) \in Reports /\ Result(order, FALSE) \in Reports
        BY <3>1, <3>5, MessagesAreTyped
      <4>1. CASE Grown(fromModem', fromModem, Result(order, FALSE)) /\ UNCHANGED context
                 /\ \/ context[order.cid] # (IF order.command = "ENABLE" THEN "off" ELSE "on")
                    \/ order.command \in Refusable
        <5>1. ToldRefusal(Result(order, FALSE)) BY <3>5, <4>1 DEF ToldRefusal
        <5> QED BY <1>3, <4>0, <4>1, <5>1 DEF Told
      <4>2. CASE Grown(fromModem', fromModem, Result(order, TRUE))
                 /\ IF order.command = "ENABLE"
                    THEN context[order.cid] = "off" /\ context'[order.cid] = "activating"
                    ELSE context[order.cid] = "on" /\ context'[order.cid] = "deactivating"
        <5>1. ToldDone(Result(order, TRUE)) BY <3>5, <4>2 DEF ToldDone
        <5> QED BY <1>3, <4>0, <4>2, <5>1 DEF Told
      <4> QED BY <3>5, <4>1, <4>2 DEF ServeStep
    <3> QED BY <3>3, <3>4, <3>5 DEF ServeStep
  <2>2. ASSUME NEW c \in Cids, ActivateStep(c)
        PROVE  \E s \in {0, 1}, A \in SUBSET Reports : Reported(s, A)
    <3>1. PICK r \in Seq(Reports) : Grown(r, fromModem, IpConfiguration(c)) /\ Grown(fromModem', r, Up(c))
      BY <2>2 DEF ActivateStep, Up
    <3>2. IpConfiguration(c).kind = "IP" /\ Up(c).kind = "STATUS" BY DEF IpConfiguration, Up, CallStatus
    <3>3. ToldTurn(IpConfiguration(c)) /\ ToldTurn(Up(c)) BY <2>2 DEF ToldTurn
    <3>4. IpConfiguration(c) \in Reports /\ Up(c) \in Reports BY MessagesAreTyped DEF Up
    <3>5. Moved(fromModem', fromModem, 0, {IpConfiguration(c), Up(c)})
      BY <1>0, <3>1, <3>2, TwoGrownMove
    <3>6. Reported(0, {IpConfiguration(c), Up(c)}) BY <3>2, <3>3, <3>5 DEF Reported, Told
    <3> QED BY <3>4, <3>6
  <2>3. ASSUME NEW c \in Cids, ActivationFailsStep(c) \/ DeactivatedStep(c) \/ DropStep(c)
        PROVE  \E s \in {0, 1}, A \in SUBSET Reports : Reported(s, A)
    <3>0. NotUp(c) \in Reports /\ Down(c) \in Reports /\ Lost(c) \in Reports
      BY MessagesAreTyped DEF NotUp, Down, Lost
    <3>1. CASE ActivationFailsStep(c)
      <4>1. Grown(fromModem', fromModem, NotUp(c)) /\ ToldTurn(NotUp(c))
        BY <3>1 DEF ActivationFailsStep, NotUp, ToldTurn
      <4> QED BY <1>3, <3>0, <4>1 DEF Told
    <3>2. CASE DeactivatedStep(c)
      <4>1. Grown(fromModem', fromModem, Down(c)) /\ ToldTurn(Down(c))
        BY <3>2 DEF DeactivatedStep, Down, ToldTurn
      <4> QED BY <1>3, <3>0, <4>1 DEF Told
    <3>3. CASE DropStep(c)
      <4>1. Grown(fromModem', fromModem, Lost(c)) /\ ToldTurn(Lost(c))
        BY <3>3 DEF DropStep, Lost, ToldTurn
      <4> QED BY <1>3, <3>0, <4>1 DEF Told
    <3> QED BY <2>3, <3>1, <3>2, <3>3
  <2> QED BY <1>4, <2>1, <2>2, <2>3 DEF ModemStep, TurningStep
<1> QED BY <1>1, <1>2, <1>4, ThreeKinds

(* What is put on the line to the modem in a step, and why.                *)
PutSetup(m) ==
  \E t \in Setups, id \in Cids :
    SetupStep(t, id) /\ m.token = t /\ m.cid = id /\ m.command \in {"PORT_LIST", "DEFINE"}
PutEnd(m) ==
  \E t \in Deacts, c \in Cids :
    DeactivateStep(t, c) /\ m.token = t /\ m.cid = c /\ m.command = "DISABLE"
PutNext(m) ==
  \E r \in Reports, c \in Cids :
    /\ ProceedStep(r, c) /\ r.command \in {"PORT_LIST", "DEFINE"}
    /\ m.token = r.token /\ m.cid = c /\ m.command \in {"DEFINE", "ENABLE"}
PutList(m) ==
  /\ m.command = "LIST"
  /\ m.token = NoToken \/ \E t \in Lists : ListStep(t) /\ m.token = t
Put(m) == PutSetup(m) \/ PutEnd(m) \/ PutNext(m) \/ PutList(m)

Ordered(s, A) ==
  /\ Moved(toModem', toModem, s, A)
  /\ s = 1 => \E order \in Requests : ServeStep(order)
  /\ \A m \in A : Put(m)
  /\ \A m, n \in A : m = n

(* Every step moves the messages to the modem by one place or none.        *)
LEMMA OrdersMove ==
  ASSUME TypeOK, Step PROVE \E s \in {0, 1} : \E A : Ordered(s, A)
<1>0. DOMAIN toModem \subseteq Nat \ {0} /\ DOMAIN toModem \subseteq Nat BY LineTypes
<1>1. CASE UNCHANGED toModem
  <2>1. Moved(toModem', toModem, 0, {}) BY <1>0, <1>1, StillMoves
  <2>2. Ordered(0, {}) BY <2>1 DEF Ordered
  <2> QED BY <2>2
<1>2. ASSUME NEW order \in Requests, ServeStep(order)
      PROVE  \E s \in {0, 1} : \E A : Ordered(s, A)
  <2>1. Moved(toModem', toModem, 1, {}) BY <1>0, <1>2, ShiftedMoves DEF ServeStep
  <2>2. Ordered(1, {}) BY <1>2, <2>1 DEF Ordered
  <2> QED BY <2>2
<1>3. ASSUME NEW m, Grown(toModem', toModem, m), Put(m)
      PROVE  \E s \in {0, 1} : \E A : Ordered(s, A)
  <2>1. Moved(toModem', toModem, 0, {m}) BY <1>0, <1>3, GrownMoves
  <2>2. Ordered(0, {m}) BY <1>3, <2>1 DEF Ordered
  <2> QED BY <1>3, <2>2
<1>4. ASSUME NEW t \in Setups, NEW id \in Cids, SetupStep(t, id)
      PROVE  \E s \in {0, 1} : \E A : Ordered(s, A)
  <2>1. PICK command \in {"PORT_LIST", "DEFINE"} :
          Grown(toModem', toModem, [command |-> command, token |-> t, cid |-> id])
    BY <1>4 DEF SetupStep
  <2>2. PutSetup([command |-> command, token |-> t, cid |-> id]) BY <1>4 DEF PutSetup
  <2> QED BY <1>3, <2>1, <2>2 DEF Put
<1>5. ASSUME NEW t \in Deacts, NEW c \in Cids, DeactivateStep(t, c)
      PROVE  \E s \in {0, 1} : \E A : Ordered(s, A)
  <2>1. Grown(toModem', toModem, [command |-> "DISABLE", token |-> t, cid |-> c])
    BY <1>5 DEF DeactivateStep
  <2>2. PutEnd([command |-> "DISABLE", token |-> t, cid |-> c]) BY <1>5 DEF PutEnd
  <2> QED BY <1>3, <2>1, <2>2 DEF Put
<1>6. PutList(AskList(NoToken)) /\ \A t \in Lists : ListStep(t) => PutList(AskList(t))
  BY DEF PutList, AskList
<1>7. ASSUME NEW t \in Lists, ListStep(t)
      PROVE  \E s \in {0, 1} : \E A : Ordered(s, A)
  <2>1. CASE Grown(toModem', toModem, AskList(t)) BY <1>3, <1>6, <1>7, <2>1 DEF Put
  <2>2. CASE Grown(toModem', toModem, AskList(NoToken)) BY <1>3, <1>6, <2>2 DEF Put
  <2> QED BY <1>7, <2>1, <2>2 DEF ListStep
<1>8. ASSUME NEW r \in Reports, NEW c \in Cids \cup {0}, ProceedStep(r, c)
      PROVE  \E s \in {0, 1} : \E A : Ordered(s, A)
  <2>1. CASE UNCHANGED toModem BY <1>1, <2>1
  <2>2. CASE r.command \in {"PORT_LIST", "DEFINE"}
    <3>1. PICK command \in {"DEFINE", "ENABLE"} :
            Grown(toModem', toModem, [command |-> command, token |-> r.token, cid |-> c])
      BY <1>8, <2>2 DEF ProceedStep
    <3>2. PutNext([command |-> command, token |-> r.token, cid |-> c])
      BY <1>8, <2>2 DEF PutNext, ProceedStep
    <3> QED BY <1>3, <3>1, <3>2 DEF Put
  <2> QED BY <1>8, <2>1, <2>2 DEF ProceedStep
<1>9. ASSUME NEW m \in Reports, NEW c \in Cids, StatusStep(m, c)
      PROVE  \E s \in {0, 1} : \E A : Ordered(s, A)
  <2>1. UNCHANGED toModem \/ Grown(toModem', toModem, AskList(NoToken))
    BY <1>9 DEF StatusStep, UnusedStatus, EnabledStatus, DisabledStatus, NotEnabledStatus,
                DroppedStatus, UnexpectedStatus
  <2> QED BY <1>1, <1>3, <1>6, <2>1 DEF Put
<1>10. \/ UNCHANGED toModem
       \/ \E order \in Requests : ServeStep(order)
       \/ \E t \in Setups, id \in Cids : SetupStep(t, id)
       \/ \E t \in Deacts, c \in Cids : DeactivateStep(t, c)
       \/ \E t \in Lists : ListStep(t)
       \/ \E r \in Reports, c \in Cids \cup {0} : ProceedStep(r, c)
       \/ \E m \in Reports, c \in Cids : StatusStep(m, c)
  BY DEF Step, RefusedStep, CauseStep, FailedStep, IpStep, CallListStep, ActivateStep,
         ActivationFailsStep, DeactivatedStep, DropStep, TurnStep
<1> QED BY <1>1, <1>2, <1>4, <1>5, <1>7, <1>8, <1>9, <1>10

(* The steps that touch the array.                                         *)
LEMMA ConnsSteps ==
  ASSUME Step
  PROVE  \/ UNCHANGED conns
         \/ \E t \in Setups, d \in Cids : SetupStep(t, d)
         \/ \E t \in Deacts, d \in Cids : DeactivateStep(t, d)
         \/ \E d \in Cids : CauseStep(d)
         \/ \E m \in Reports, d \in Cids \cup {0} : FailedStep(m, d)
         \/ \E m \in Reports, d \in Cids : IpStep(m, d) \/ StatusStep(m, d)
BY DEF Step, RefusedStep, ListStep, ProceedStep, CallListStep, ServeStep, ActivateStep,
       ActivationFailsStep, DeactivatedStep, DropStep, TurnStep, ByTheModem

(* A token comes into a connection by a setup or a deactivation.           *)
LEMMA TokensFrom ==
  ASSUME TypeOK, Step, NEW c \in Cids
  PROVE  \/ conns'[c].token = NoToken
         \/ conns'[c].token = conns[c].token
         \/ \E t \in Setups : SetupStep(t, c)
         \/ \E t \in Deacts : DeactivateStep(t, c)
<1>1. ASSUME NEW t \in Setups, NEW d \in Cids, SetupStep(t, d)
      PROVE  conns'[c].token = conns[c].token \/ c = d
  BY <1>1 DEF SetupStep, Becomes
<1>2. ASSUME NEW t \in Deacts, NEW d \in Cids, DeactivateStep(t, d)
      PROVE  conns'[c].token = conns[c].token \/ c = d
  BY <1>2 DEF DeactivateStep, WithToken, Becomes
<1>3. ASSUME NEW d \in Cids, CauseStep(d)
      PROVE  conns'[c].token \in {NoToken, conns[c].token}
  BY <1>3 DEF CauseStep, Deleted, Becomes
<1>4. ASSUME NEW m \in Reports, NEW d \in Cids \cup {0}, FailedStep(m, d)
      PROVE  conns'[c].token \in {NoToken, conns[c].token}
  BY <1>4 DEF FailedStep, Deleted, WithToken, Becomes
<1>5. ASSUME NEW m \in Reports, NEW d \in Cids, IpStep(m, d)
      PROVE  conns'[c].token \in {NoToken, conns[c].token}
  BY <1>5 DEF IpStep, Becomes
<1>6. ASSUME NEW m \in Reports, NEW d \in Cids, StatusStep(m, d)
      PROVE  conns'[c].token \in {NoToken, conns[c].token}
  BY <1>6 DEF StatusStep, UnusedStatus, EnabledStatus, DisabledStatus, NotEnabledStatus,
     DroppedStatus, UnexpectedStatus, Deleted, WithToken, Becomes
<1> QED BY <1>1, <1>2, <1>3, <1>4, <1>5, <1>6, ConnsSteps

-----------------------------------------------------------------------------
(* One message for a request at a time, and whose it is.                   *)

(* The request whose message is put into the line to the modem had none    *)
(* under way.                                                              *)
LEMMA PutIsNew ==
  ASSUME TypeOK, Unissued, OneMessage, NEW m, Put(m), NEW t \in Token, m.token = t
  PROVE  ~ Asked(toModem, t) /\ ~ Borne(fromModem', t)
<1>1. NoToken \notin Token BY TokensAssumption
<1>2. t \notin issued => ~ Asked(toModem, t) /\ ~ Borne(fromModem, t)
  BY DEF Unissued, InTransit, Asked, Borne, Bears
<1>3. CASE PutSetup(m) BY <1>2, <1>3 DEF PutSetup, SetupStep
<1>4. CASE PutEnd(m) BY <1>2, <1>4 DEF PutEnd, DeactivateStep
<1>5. CASE PutList(m) BY <1>1, <1>2, <1>5 DEF PutList, ListStep
<1>6. CASE PutNext(m)
  <2>1. PICK r \in Reports, c \in Cids : ProceedStep(r, c) /\ m.token = r.token
    BY <1>6 DEF PutNext
  <2>2. Bears(fromModem[1], t) /\ 1 \in DOMAIN fromModem
    BY <2>1 DEF ProceedStep, Reading, Shifted, Bears
  <2>3. Shifted(fromModem', fromModem) BY <2>1 DEF ProceedStep, Reading
  <2>4. ~ Asked(toModem, t) BY <2>2 DEF OneMessage, Borne
  <2>5. ~ Borne(fromModem', t) BY <2>2, <2>3 DEF OneMessage, Borne, Shifted
  <2> QED BY <2>4, <2>5
<1> QED BY <1>3, <1>4, <1>5, <1>6 DEF Put

(* The request whose report comes in had its message taken by the modem.   *)
LEMMA ToldIsNew ==
  ASSUME TypeOK, OneMessage, NEW m, Told(m), NEW t \in Token, Bears(m, t)
  PROVE  /\ ~ Borne(fromModem, t) /\ ~ Asked(toModem', t)
         /\ m.kind = (IF toModem[1].command = "LIST" THEN "LIST" ELSE "GEN")
<1>1. PICK order \in Requests :
        /\ ServeStep(order) /\ order.token = t
        /\ m.kind = (IF order.command = "LIST" THEN "LIST" ELSE "GEN")
  <2>1. CASE ToldList(m) BY <2>1 DEF ToldList, Bears, CallList
  <2>2. CASE ToldRefusal(m) BY <2>2 DEF ToldRefusal, Bears, Result
  <2>3. CASE ToldDone(m) BY <2>3 DEF ToldDone, Bears, Result
  <2>4. CASE ToldPrepared(m) BY <2>4 DEF ToldPrepared, Bears, Result
  <2>5. ~ ToldTurn(m)
    BY DEF ToldTurn, Bears, IpConfiguration, Up, NotUp, Down, Lost, CallStatus
  <2> QED BY <2>1, <2>2, <2>3, <2>4, <2>5 DEF Told
<1>2. order = toModem[1] /\ Shifted(toModem', toModem) /\ 1 \in DOMAIN toModem
  BY <1>1 DEF ServeStep, Shifted
<1>3. ~ Borne(fromModem, t) BY <1>1, <1>2 DEF OneMessage, Asked
<1>4. ~ Asked(toModem', t) BY <1>1, <1>2 DEF OneMessage, Asked, Shifted
<1> QED BY <1>1, <1>2, <1>3, <1>4

(* A request never has two messages under way.                             *)
LEMMA OneMessageKept ==
  ASSUME TypeOK, TypeOK', Step, Unissued, OneMessage PROVE OneMessage'
<1> SUFFICES ASSUME NEW t \in Token
             PROVE  /\ \A i, j \in DOMAIN toModem' :
                         toModem'[i].token = t /\ toModem'[j].token = t => i = j
                    /\ \A i, j \in DOMAIN fromModem' :
                         Bears(fromModem'[i], t) /\ Bears(fromModem'[j], t) => i = j
                    /\ ~ (Asked(toModem', t) /\ Borne(fromModem', t))
  BY DEF OneMessage, Asked, Borne, Bears
<1>0. /\ DOMAIN toModem \subseteq Nat /\ DOMAIN fromModem \subseteq Nat
      /\ DOMAIN toModem' \subseteq Nat /\ DOMAIN fromModem' \subseteq Nat
  BY LineTypes DEF TypeOK
<1>1. PICK s \in {0, 1} : \E A : Ordered(s, A) BY OrdersMove
<1>2. PICK A : Ordered(s, A) BY <1>1
<1>3. PICK r \in {0, 1}, B \in SUBSET Reports : Reported(r, B) BY ReportsMove
<1>4. ASSUME NEW i \in DOMAIN toModem', toModem'[i].token = t
      PROVE  \/ i + s \in DOMAIN toModem /\ toModem[i + s].token = t
             \/ /\ i + s \notin DOMAIN toModem /\ toModem'[i] \in A
                /\ ~ Asked(toModem, t) /\ ~ Borne(fromModem', t)
  <2>1. CASE i + s \in DOMAIN toModem BY <1>2, <1>4, <2>1 DEF Ordered, Moved
  <2>2. CASE i + s \notin DOMAIN toModem
    <3>1. toModem'[i] \in A /\ Put(toModem'[i]) BY <1>2, <2>2 DEF Ordered, Moved
    <3> QED BY <1>4, <2>2, <3>1, PutIsNew
  <2> QED BY <2>1, <2>2
<1>5. ASSUME NEW i \in DOMAIN fromModem', Bears(fromModem'[i], t)
      PROVE  \/ i + r \in DOMAIN fromModem /\ Bears(fromModem[i + r], t)
             \/ /\ i + r \notin DOMAIN fromModem /\ fromModem'[i] \in B
                /\ ~ Borne(fromModem, t) /\ ~ Asked(toModem', t)
                /\ fromModem'[i].kind = (IF toModem[1].command = "LIST" THEN "LIST" ELSE "GEN")
  <2>1. CASE i + r \in DOMAIN fromModem BY <1>3, <1>5, <2>1 DEF Reported, Moved
  <2>2. CASE i + r \notin DOMAIN fromModem
    <3>1. fromModem'[i] \in B /\ Told(fromModem'[i]) BY <1>3, <2>2 DEF Reported, Moved
    <3> QED BY <1>5, <2>2, <3>1, ToldIsNew
  <2> QED BY <2>1, <2>2
<1>6. ASSUME NEW i \in DOMAIN toModem', NEW j \in DOMAIN toModem',
             toModem'[i].token = t, toModem'[j].token = t
      PROVE  i = j
  <2>1. CASE i + s \in DOMAIN toModem /\ j + s \in DOMAIN toModem
    <3>1. i + s = j + s BY <1>4, <1>6, <2>1 DEF OneMessage
    <3> QED BY <1>0, <3>1
  <2>2. CASE i + s \notin DOMAIN toModem /\ j + s \notin DOMAIN toModem
    <3>1. toModem'[i] = toModem'[j] BY <1>2, <1>4, <1>6, <2>2 DEF Ordered
    <3> QED BY <1>2, <2>2, <3>1 DEF Ordered, Moved
  <2> QED BY <1>4, <1>6, <2>1, <2>2 DEF Asked
<1>7. ASSUME NEW i \in DOMAIN fromModem', NEW j \in DOMAIN fromModem',
             Bears(fromModem'[i], t), Bears(fromModem'[j], t)
      PROVE  i = j
  <2>1. CASE i + r \in DOMAIN fromModem /\ j + r \in DOMAIN fromModem
    <3>1. i + r = j + r BY <1>5, <1>7, <2>1 DEF OneMessage
    <3> QED BY <1>0, <3>1
  <2>2. CASE i + r \notin DOMAIN fromModem /\ j + r \notin DOMAIN fromModem
    <3>1. fromModem'[i] = fromModem'[j] BY <1>3, <1>5, <1>7, <2>2 DEF Reported
    <3> QED BY <1>3, <2>2, <3>1 DEF Reported, Moved
  <2> QED BY <1>5, <1>7, <2>1, <2>2 DEF Borne
<1>8. ASSUME Asked(toModem', t), Borne(fromModem', t) PROVE FALSE
  <2>1. PICK i \in DOMAIN toModem' : toModem'[i].token = t BY <1>8 DEF Asked
  <2>2. PICK j \in DOMAIN fromModem' : Bears(fromModem'[j], t) BY <1>8 DEF Borne
  <2>3. Asked(toModem, t) BY <1>4, <1>8, <2>1 DEF Asked
  <2>4. Borne(fromModem, t) BY <1>5, <1>8, <2>2 DEF Borne
  <2> QED BY <2>3, <2>4 DEF OneMessage
<1> QED BY <1>6, <1>7, <1>8

(* Commands carry the tokens of the requests they are for, and a           *)
(* deactivation the cid it was asked for.                                  *)
LEMMA AddressedKept ==
  ASSUME TypeOK, TypeOK', Step, Unissued, Addressed PROVE Addressed'
<1>0. Setups \cap Deacts = {} /\ Lists \cap (Setups \cup Deacts) = {} /\ NoToken \notin Token
  BY TokensAssumption
<1>1. /\ \A t \in Deacts : t \in issued => target'[t] = target[t]
      /\ \A t \in Deacts, c \in Cids : DeactivateStep(t, c) => target'[t] = c
  BY DEF Step, RefusedStep, SetupStep, DeactivateStep, CauseStep, ListStep, FailedStep, ProceedStep,
         IpStep, StatusStep, CallListStep, Reading, ServeStep, ActivateStep, ActivationFailsStep,
         DeactivatedStep, DropStep, TurnStep, ByTheModem
<1>2. PICK s \in {0, 1} : \E A : Ordered(s, A) BY OrdersMove
<1>3. PICK A : Ordered(s, A) BY <1>2
<1>4. PICK r \in {0, 1}, B \in SUBSET Reports : Reported(r, B) BY ReportsMove
<1>5. ASSUME NEW m, Put(m)
      PROVE  /\ m.command = "DISABLE" <=> m.token \in Deacts
             /\ m.token \in Deacts => m.cid = target'[m.token]
             /\ m.command \in {"PORT_LIST", "DEFINE", "ENABLE"} => m.token \in Setups
  <2>1. CASE PutSetup(m) BY <1>0, <2>1 DEF PutSetup
  <2>2. CASE PutEnd(m) BY <1>0, <1>1, <2>2 DEF PutEnd
  <2>3. CASE PutList(m) BY <1>0, <2>3 DEF PutList, Token
  <2>4. CASE PutNext(m)
    <3>1. PICK q \in Reports, c \in Cids :
            /\ ProceedStep(q, c) /\ q.command \in {"PORT_LIST", "DEFINE"}
            /\ m.token = q.token /\ m.command \in {"DEFINE", "ENABLE"}
      BY <2>4 DEF PutNext
    <3>2. q = fromModem[1] /\ 1 \in DOMAIN fromModem /\ q.kind = "GEN"
      BY <3>1 DEF ProceedStep, Reading, Shifted
    <3>3. m.token \in Setups BY <3>1, <3>2 DEF Addressed
    <3> QED BY <1>0, <3>1, <3>3
  <2> QED BY <1>5, <2>1, <2>2, <2>3, <2>4 DEF Put
<1>6. ASSUME NEW i \in DOMAIN toModem'
      PROVE  /\ toModem'[i].command = "DISABLE" <=> toModem'[i].token \in Deacts
             /\ toModem'[i].token \in Deacts => toModem'[i].cid = target'[toModem'[i].token]
             /\ toModem'[i].command \in {"PORT_LIST", "DEFINE", "ENABLE"}
                  => toModem'[i].token \in Setups
  <2>1. CASE i + s \in DOMAIN toModem /\ toModem'[i] = toModem[i + s]
    <3>1. toModem'[i].token \in Deacts => toModem'[i].token \in issued
      BY <2>1 DEF Unissued, InTransit, Token
    <3> QED BY <1>1, <2>1, <3>1 DEF Addressed
  <2>2. CASE toModem'[i] \in A BY <1>3, <1>5, <2>2 DEF Ordered
  <2> QED BY <1>3, <2>1, <2>2 DEF Ordered, Moved
<1>7. ASSUME NEW i \in DOMAIN fromModem', fromModem'[i].kind = "GEN"
      PROVE  fromModem'[i].token \in (IF fromModem'[i].command = "DISABLE" THEN Deacts ELSE Setups)
  <2>1. CASE i + r \in DOMAIN fromModem /\ fromModem'[i] = fromModem[i + r]
    BY <1>7, <2>1 DEF Addressed
  <2>2. CASE fromModem'[i] \in B
    <3> DEFINE m == fromModem'[i]
    <3>1. Told(m) BY <1>4, <2>2 DEF Reported
    <3>2. m.kind = "GEN" BY <1>7
    <3> HIDE DEF m
    <3>3. PICK order \in Requests :
            /\ ServeStep(order) /\ order.command \in {"PORT_LIST", "DEFINE", "ENABLE", "DISABLE"}
            /\ m.command = order.command /\ m.token = order.token
      <4>1. CASE ToldList(m) BY <3>2, <4>1 DEF ToldList, CallList
      <4>2. CASE ToldRefusal(m) BY <4>2 DEF ToldRefusal, Result
      <4>3. CASE ToldDone(m) BY <4>3 DEF ToldDone, Result
      <4>4. CASE ToldPrepared(m) BY <4>4 DEF ToldPrepared, Result
      <4>5. ~ ToldTurn(m)
        BY <3>2 DEF ToldTurn, IpConfiguration, Up, NotUp, Down, Lost, CallStatus
      <4> QED BY <3>1, <4>1, <4>2, <4>3, <4>4, <4>5 DEF Told
    <3>4. order = toModem[1] /\ 1 \in DOMAIN toModem BY <3>3 DEF ServeStep, Shifted
    <3>5. m.token \in (IF m.command = "DISABLE" THEN Deacts ELSE Setups)
      BY <3>3, <3>4 DEF Addressed
    <3> QED BY <3>5 DEF m
  <2> QED BY <1>4, <2>1, <2>2 DEF Reported, Moved
<1>8. ASSUME NEW c \in Cids
      PROVE  /\ conns'[c].token \notin Lists
             /\ conns'[c].token \in Deacts => target'[conns'[c].token] = c
  <2>1. CASE conns'[c].token = NoToken BY <1>0, <2>1 DEF Token
  <2>2. CASE conns'[c].token = conns[c].token
    <3>1. conns[c].token \in Deacts => conns[c].token \in issued BY DEF Unissued, Token
    <3> QED BY <1>1, <2>2, <3>1 DEF Addressed
  <2>3. CASE \E t \in Setups : SetupStep(t, c) BY <1>0, <2>3 DEF SetupStep, Becomes
  <2>4. CASE \E t \in Deacts : DeactivateStep(t, c)
    BY <1>0, <2>4 DEF DeactivateStep, WithToken, Becomes
  <2> QED BY <2>1, <2>2, <2>3, <2>4, TokensFrom
<1> QED BY <1>6, <1>7, <1>8 DEF Addressed

-----------------------------------------------------------------------------
(* Every step moves a cid from a phase to a phase.                         *)

(* The four notifications of a cid are different.                          *)
LEMMA StatusesDiffer ==
  ASSUME NEW c, NEW d
  PROVE  /\ Up(c) # NotUp(d) /\ Up(c) # Down(d) /\ Up(c) # Lost(d)
         /\ NotUp(c) # Down(d) /\ NotUp(c) # Lost(d) /\ Down(c) # Lost(d)
         /\ \A m \in {Up(c), NotUp(c), Down(c), Lost(c)} : m.kind = "STATUS" /\ m.cid = c
         /\ Up(c).state = "ENABLED" /\ Up(c).ok
         /\ NotUp(c).state = "NOT_ENABLED" /\ ~ NotUp(c).ok
         /\ Down(c).state = "DISABLED" /\ Down(c).ok
         /\ Lost(c).state = "DISABLED" /\ ~ Lost(c).ok
BY DEF Up, NotUp, Down, Lost, CallStatus

(* What is on its way about c after a message was taken.                   *)
LEMMA NewsRead ==
  ASSUME TypeOK, TypeOK', SaidOnce, Shifted(fromModem', fromModem), NEW c
  PROVE  /\ News(c)' = News(c) \ {fromModem[1]}
         /\ fromModem[1].kind # "STATUS" \/ fromModem[1].cid # c => News(c)' = News(c)
         /\ fromModem[1].kind = "STATUS" /\ fromModem[1].cid = c => fromModem[1] \in News(c)
<1>1. DOMAIN fromModem' \subseteq Nat \ {0} BY LineTypes DEF TypeOK
<1>2. Said(fromModem', c) = Said(fromModem, c) \ {fromModem[1]}
  BY <1>1, SaidShifted DEF SaidOnce
<1>3. 1 \in DOMAIN fromModem BY DEF Shifted
<1> QED BY <1>2, <1>3 DEF News, Said

(* A cid of which nothing changes makes no move.                           *)
LEMMA StayQuiet ==
  ASSUME NEW c \in Cids, context'[c] = context[c], News(c)' = News(c),
         conns'[c].token = conns[c].token, conns'[c].enabled = conns[c].enabled
  PROVE  Moves(c)
BY DEF Moves, Quiet

(* An idle cid stays idle.                                                 *)
LEMMA StayIdle ==
  ASSUME NEW c \in Cids, Idle(c), context'[c] = context[c], News(c)' = News(c), ~ conns'[c].enabled
  PROVE  Moves(c)
BY DEF Moves, Idle

(* A place that is not in use, or whose token has been taken away before   *)
(* the call was enabled, is idle.                                          *)
LEMMA IdleWithoutToken ==
  ASSUME TypeOK, Phases, NEW c \in Cids, ~ conns[c].enabled, conns[c].token \notin Setups
  PROVE  Idle(c)
BY DEF Phases, Idle, Rising, Risen, RisenLost, NotRisen, Running, Falling, Fallen, Broken

(* So is a place nobody uses.                                              *)
LEMMA UnusedIsIdle ==
  ASSUME TypeOK, Phases, NEW c \in Cids, ~ conns[c].used PROVE Idle(c)
<1>1. conns[c] \in Connection \cup {NoConnection} BY DEF TypeOK
<1>2. ~ conns[c].enabled /\ conns[c].token = NoToken BY <1>1, ConnectionKinds
<1>3. NoToken \notin Setups BY TokensAssumption DEF Token
<1> QED BY <1>2, <1>3, IdleWithoutToken

(* The connection of a command that failed is idle, and rild does not      *)
(* believe it active; the same for one that goes on.                       *)
LEMMA ResultIsIdle ==
  ASSUME TypeOK, Room, NEW c \in Cids, NEW m, m = fromModem[1], 1 \in DOMAIN fromModem,
         m.kind = "GEN", conns[c].token = m.token,
         ~ m.ok \/ m.command \in {"PORT_LIST", "DEFINE"}
  PROVE  Idle(c) /\ (m.token \in Setups => c \notin active)
<1>1. m.token \in Setups \/ (m.token \in Deacts /\ m.command = "DISABLE")
  <2>1. m.token \in (IF m.command = "DISABLE" THEN Deacts ELSE Setups) BY DEF Room, Addressed
  <2> QED BY <2>1
<1>2. \A j \in DOMAIN fromModem : ~ (j < 1)
  BY LineTypes
<1>3. CASE m.token \in Setups
  <2>1. Idle(c) BY <1>3 DEF Room, SetupResults
  <2>2. ASSUME c \in active PROVE FALSE
    <3>1. Refreshed(c) BY <2>1, <2>2 DEF Room, Believed, Idle
    <3>2. PICK k \in DOMAIN fromModem : fromModem[k].kind = "LIST" /\ ~ ResultsBefore(c, k)
      BY <1>3, <3>1 DEF Refreshed
    <3>3. k # 1 /\ k \in Nat \ {0} BY <3>2, LineTypes
    <3>4. 1 < k BY <3>3
    <3> QED BY <1>3, <3>2, <3>4 DEF ResultsBefore
  <2> QED BY <2>1, <2>2
<1>4. CASE m.token \in Deacts /\ m.command = "DISABLE"
  <2>1. ~ m.ok /\ m.token \notin Setups BY <1>4, TokensAssumption
  <2>2. Idle(c) BY <1>2, <1>4, <2>1 DEF Room, EndResults
  <2> QED BY <2>1, <2>2
<1> QED BY <1>1, <1>3, <1>4

(* A deactivation meets a call that is running or has been dropped, with   *)
(* no token in it; or an idle cid.                                         *)
LEMMA DeactivateMoves ==
  ASSUME TypeOK, SetupInv, Room, NEW t \in Deacts, NEW c \in Cids, DeactivateStep(t, c)
  PROVE  IF conns[c].enabled
         THEN conns[c].token = NoToken /\ ((Running(c) /\ Running(c)') \/ (Broken(c) /\ Broken(c)'))
         ELSE Idle(c) /\ Idle(c)'
<1>1. /\ conns'[c].token = t /\ conns'[c].enabled = conns[c].enabled
      /\ UNCHANGED <<context, fromModem>>
  BY DEF DeactivateStep, WithToken, Becomes
<1>2. News(c)' = News(c) BY <1>1 DEF News
<1>3. CASE conns[c].enabled
  <2>1. conns[c].token \notin Setups BY <1>3 DEF SetupInv, NotYetEnabled
  <2>2. conns[c].token \notin Deacts
    <3>1. ASSUME conns[c].token \in Deacts PROVE FALSE
      <4>1. target[conns[c].token] = c BY <3>1 DEF Room, Addressed
      <4>2. Pending(conns[c].token) BY <3>1, TokensAssumption DEF Room, Awaited, Token
      <4> QED BY <3>1, <4>1, <4>2 DEF DeactivateStep
    <3> QED BY <3>1
  <2>3. conns[c].token = NoToken
    <3>1. conns[c] \in Connection \cup {NoConnection} BY DEF TypeOK
    <3>2. conns[c].token \in Token \cup {NoToken} BY <3>1, ConnectionKinds
    <3> QED BY <2>1, <2>2, <3>2 DEF Room, Addressed, Token
  <2>4. Running(c) \/ Broken(c)
    BY <1>3, <2>1, <2>2 DEF Room, Phases, Idle, Rising, Risen, RisenLost, NotRisen, Falling, Fallen
  <2>5. (Running(c) => Running(c)') /\ (Broken(c) => Broken(c)')
    BY <1>1, <1>2 DEF Running, Broken
  <2> QED BY <1>3, <2>3, <2>4, <2>5
<1>4. CASE ~ conns[c].enabled
  <2>1. Idle(c) BY <1>4 DEF Room, Believed, DeactivateStep
  <2>2. Idle(c)' BY <1>1, <1>2, <2>1 DEF Idle
  <2> QED BY <1>4, <2>1, <2>2
<1> QED BY <1>3, <1>4

(* Every notification meets the phase it ends.                             *)
LEMMA StatusMoves ==
  ASSUME ~ IfcFails, TypeOK, TypeOK', SetupInv, Room, NEW m \in Reports, NEW c \in Cids,
         StatusStep(m, c)
  PROVE  StatusMove(m, c)
<1>1. /\ m = fromModem[1] /\ m.kind = "STATUS" /\ m.cid = c /\ context' = context
      /\ Shifted(fromModem', fromModem) /\ 1 \in DOMAIN fromModem
  <2>1. m = CallStatus(c, m.state, m.ok) BY DEF StatusStep
  <2>2. m.cid = c BY <2>1 DEF CallStatus
  <2> QED BY <2>2 DEF StatusStep, Reading, Shifted
<1>2. m \in News(c) /\ News(c)' = News(c) \ {m} BY <1>1, NewsRead DEF Room
<1>3. conns[c] \in Connection \cup {NoConnection} /\ conns[c].used
  <2>1. ~ conns[c].used => Idle(c) BY UnusedIsIdle DEF Room
  <2> QED BY <1>2, <2>1 DEF TypeOK, Idle
<1>4. conns[c].token \in Setups => ~ conns[c].enabled BY DEF SetupInv, NotYetEnabled
<1>5. NoToken \notin Setups /\ NoToken \notin Deacts BY TokensAssumption DEF Token
<1>6. ~ (m = Lost(c) /\ RisenLost(c))
  <2>1. ASSUME m = Lost(c), RisenLost(c) PROVE FALSE
    <3>1. Up(c) \in News(c) BY <2>1 DEF RisenLost
    <3>2. PICK i \in DOMAIN fromModem : fromModem[i] = Up(c) BY <3>1 DEF News, Said
    <3>3. i < 1 BY <1>1, <2>1, <3>2 DEF Room, UpFirst
    <3> QED BY <3>3, LineTypes
  <2> QED BY <2>1
<1>7. \/ m = Up(c) /\ (Risen(c) \/ RisenLost(c))
      \/ m = NotUp(c) /\ NotRisen(c)
      \/ m = Down(c) /\ Fallen(c)
      \/ m = Lost(c) /\ Broken(c)
  BY <1>2, <1>6 DEF Room, Phases, Idle, Rising, Risen, RisenLost, NotRisen, Running, Falling,
                    Fallen, Broken
<1>8. CASE m = Up(c) /\ (Risen(c) \/ RisenLost(c))
  <2>1. m.ok /\ m.state = "ENABLED" BY <1>8, StatusesDiffer
  <2>2. conns[c].token \in Setups /\ ~ conns[c].enabled BY <1>4, <1>8 DEF Risen, RisenLost
  <2>3. EnabledStatus(m, c)
    BY <1>3, <1>5, <2>1, <2>2 DEF StatusStep, UnusedStatus, DisabledStatus, NotEnabledStatus,
                                  DroppedStatus, UnexpectedStatus
  <2>4. conns'[c].token = NoToken /\ conns'[c].enabled BY <2>3 DEF EnabledStatus, Becomes
  <2>5. (Risen(c) => Running(c)') /\ (RisenLost(c) => Broken(c)')
    BY <1>1, <1>2, <1>8, <2>4, StatusesDiffer DEF Risen, RisenLost, Running, Broken
  <2> QED BY <1>8, <2>2, <2>3, <2>4, <2>5 DEF StatusMove
<1>9. CASE m = NotUp(c) /\ NotRisen(c)
  <2>1. ~ m.ok /\ m.state = "NOT_ENABLED" BY <1>9, StatusesDiffer
  <2>2. conns[c].token \in Setups /\ ~ conns[c].enabled BY <1>4, <1>9 DEF NotRisen
  <2>3. NotEnabledStatus(m, c)
    <3>1. ~ UnusedStatus(m, c) BY <1>3 DEF UnusedStatus
    <3>2. ~ EnabledStatus(m, c) BY <1>9, StatusesDiffer DEF EnabledStatus, Up
    <3>3. ~ DisabledStatus(m, c) /\ ~ DroppedStatus(m, c)
      BY <2>2 DEF DisabledStatus, DroppedStatus
    <3>4. ~ UnexpectedStatus(m, c) BY <1>5, <2>1, <2>2 DEF UnexpectedStatus
    <3> QED BY <3>1, <3>2, <3>3, <3>4 DEF StatusStep
  <2>4. ~ conns'[c].enabled BY <2>2, <2>3 DEF NotEnabledStatus, WithToken, Becomes
  <2>5. Idle(c)' BY <1>1, <1>2, <1>9, <2>4 DEF NotRisen, Idle
  <2> QED BY <1>9, <2>3, <2>5 DEF StatusMove
<1>10. CASE m = Down(c) /\ Fallen(c)
  <2>1. m.ok /\ m.state = "DISABLED" BY <1>10, StatusesDiffer
  <2>2. conns[c].token \in Deacts /\ conns[c].enabled BY <1>10 DEF Fallen
  <2>3. DisabledStatus(m, c)
    <3>1. ~ UnusedStatus(m, c) BY <1>3 DEF UnusedStatus
    <3>2. ~ EnabledStatus(m, c) /\ ~ NotEnabledStatus(m, c)
      BY <2>2 DEF EnabledStatus, NotEnabledStatus
    <3>3. ~ DroppedStatus(m, c) BY <2>1 DEF DroppedStatus, CallStatus
    <3>4. ~ UnexpectedStatus(m, c) BY <1>5, <2>1, <2>2 DEF UnexpectedStatus
    <3> QED BY <3>1, <3>2, <3>3, <3>4 DEF StatusStep
  <2>4. ~ conns'[c].enabled BY <2>3 DEF DisabledStatus, Deleted, Becomes
  <2>5. Idle(c)' BY <1>1, <1>2, <1>10, <2>4 DEF Fallen, Idle
  <2> QED BY <1>10, <2>3, <2>5 DEF StatusMove
<1>11. CASE m = Lost(c) /\ Broken(c)
  <2>1. ~ m.ok /\ m.state = "DISABLED" BY <1>11, StatusesDiffer
  <2>2. conns[c].enabled BY <1>11 DEF Broken
  <2>3. DroppedStatus(m, c)
    <3>1. ~ UnusedStatus(m, c) BY <1>3 DEF UnusedStatus
    <3>2. ~ EnabledStatus(m, c) /\ ~ NotEnabledStatus(m, c)
      BY <2>2 DEF EnabledStatus, NotEnabledStatus
    <3>3. ~ DisabledStatus(m, c) BY <2>1 DEF DisabledStatus, CallStatus
    <3>4. ~ UnexpectedStatus(m, c) BY <2>1, <2>2 DEF UnexpectedStatus
    <3> QED BY <3>1, <3>2, <3>3, <3>4 DEF StatusStep
  <2>4. ~ conns'[c].enabled BY <2>3 DEF DroppedStatus, Deleted, Becomes
  <2>5. Idle(c)' BY <1>1, <1>2, <1>11, <2>4 DEF Broken, Idle
  <2> QED BY <1>11, <2>3, <2>5 DEF StatusMove
<1> QED BY <1>7, <1>8, <1>9, <1>10, <1>11

(* What carrying out a command does to its cid.                            *)
LEMMA ServeMoves ==
  ASSUME TypeOK, SetupInv, Room, NEW order \in Requests, ServeStep(order),
         order.command \in {"ENABLE", "DISABLE"},
         Grown(fromModem', fromModem, Result(order, TRUE)),
         IF order.command = "ENABLE"
         THEN context[order.cid] = "off" /\ context'[order.cid] = "activating"
         ELSE context[order.cid] = "on" /\ context'[order.cid] = "deactivating"
  PROVE  /\ order.cid \in Cids /\ conns[order.cid].token = order.token
         /\ \A d \in Cids \ {order.cid} : context'[d] = context[d]
         /\ IF order.command = "ENABLE"
            THEN Idle(order.cid) /\ Rising(order.cid)'
            ELSE Running(order.cid) /\ Falling(order.cid)'
<1> DEFINE c == order.cid
<1>1. /\ order = toModem[1] /\ 1 \in DOMAIN toModem /\ c \in Cids /\ UNCHANGED conns
      /\ order.command # "LIST"
  BY RequestKinds DEF ServeStep, Shifted, ByTheModem
<1>2. News(c)' = News(c) BY OtherSaid DEF News, Result
<1>3. \A d \in Cids \ {c} : context'[d] = context[d]
  BY <1>1, CapabilitiesAssumption DEF ServeStep
<1>4. CASE order.command = "ENABLE"
  <2>1. conns[c].token = order.token /\ order.token \in Setups
    BY <1>1, <1>4 DEF Room, SetupOrders, Addressed
  <2>2. Idle(c) BY <1>1, <2>1 DEF Room, SetupOrders
  <2>3. Rising(c)' BY <1>1, <1>2, <1>4, <2>1, <2>2 DEF Idle, Rising
  <2> QED BY <1>1, <1>3, <1>4, <2>1, <2>2, <2>3
<1>5. CASE order.command = "DISABLE"
  <2>1. Idle(c) \/ (conns[c].token = order.token /\ (Running(c) \/ Broken(c)))
    BY <1>1, <1>5 DEF Room, EndOrders
  <2>2. context[c] = "on" /\ context'[c] = "deactivating" BY <1>5
  <2>3. conns[c].token = order.token /\ Running(c) BY <2>1, <2>2 DEF Idle, Broken
  <2>4. order.token \in Deacts BY <1>1, <1>5 DEF Room, Addressed
  <2>5. Falling(c)' BY <1>1, <1>2, <2>2, <2>3, <2>4 DEF Running, Falling
  <2> QED BY <1>1, <1>3, <1>5, <2>3, <2>5
<1> QED BY <1>4, <1>5

(* What the turn of a context does to its cid.                             *)
LEMMA TurnMoves ==
  ASSUME TypeOK, Room, NEW c \in Cids
  PROVE  /\ ActivateStep(c) => Rising(c) /\ Risen(c)'
         /\ ActivationFailsStep(c) => Rising(c) /\ NotRisen(c)'
         /\ DeactivatedStep(c) => Falling(c) /\ Fallen(c)'
         /\ DropStep(c) => \/ Risen(c) /\ RisenLost(c)'
                           \/ Running(c) /\ Broken(c)'
<1>1. ASSUME NEW m, Grown(fromModem', fromModem, m), m.kind = "STATUS", m.cid = c
      PROVE  News(c)' = News(c) \cup {m}
  BY <1>1, SaidGrown DEF News
<1>2. ASSUME ActivateStep(c) PROVE Rising(c) /\ Risen(c)'
  <2>1. PICK r \in Seq(Reports) :
          Grown(r, fromModem, IpConfiguration(c)) /\ Grown(fromModem', r, Up(c))
    BY <1>2 DEF ActivateStep, Up
  <2>2. context[c] = "activating" /\ context'[c] = "on" /\ UNCHANGED conns
    BY <1>2 DEF ActivateStep, TurnStep, ByTheModem
  <2>3. Rising(c)
    BY <2>2 DEF Room, Phases, Idle, Risen, RisenLost, NotRisen, Running, Falling, Fallen, Broken
  <2>4. Said(r, c) = Said(fromModem, c) BY <2>1, OtherSaid DEF IpConfiguration
  <2>5. Said(fromModem', c) = Said(r, c) \cup {Up(c)}
    <3>1. Up(c).kind = "STATUS" /\ Up(c).cid = c BY StatusesDiffer
    <3> QED BY <2>1, <3>1, SaidGrown
  <2>6. News(c)' = {Up(c)} BY <2>3, <2>4, <2>5 DEF News, Rising
  <2>7. Risen(c)' BY <2>2, <2>3, <2>6 DEF Rising, Risen, Up
  <2> QED BY <2>3, <2>7
<1>3. ASSUME ActivationFailsStep(c) PROVE Rising(c) /\ NotRisen(c)'
  <2>1. Grown(fromModem', fromModem, NotUp(c)) BY <1>3 DEF ActivationFailsStep, NotUp
  <2>2. context[c] = "activating" /\ context'[c] = "off" /\ UNCHANGED conns
    BY <1>3 DEF ActivationFailsStep, TurnStep, ByTheModem
  <2>3. Rising(c)
    BY <2>2 DEF Room, Phases, Idle, Risen, RisenLost, NotRisen, Running, Falling, Fallen, Broken
  <2>4. News(c)' = News(c) \cup {NotUp(c)} BY <1>1, <2>1, StatusesDiffer
  <2>5. NotRisen(c)' BY <2>2, <2>3, <2>4 DEF Rising, NotRisen, NotUp
  <2> QED BY <2>3, <2>5
<1>4. ASSUME DeactivatedStep(c) PROVE Falling(c) /\ Fallen(c)'
  <2>1. Grown(fromModem', fromModem, Down(c)) BY <1>4 DEF DeactivatedStep, Down
  <2>2. context[c] = "deactivating" /\ context'[c] = "off" /\ UNCHANGED conns
    BY <1>4 DEF DeactivatedStep, TurnStep, ByTheModem
  <2>3. Falling(c)
    BY <2>2 DEF Room, Phases, Idle, Rising, Risen, RisenLost, NotRisen, Running, Fallen, Broken
  <2>4. News(c)' = News(c) \cup {Down(c)} BY <1>1, <2>1, StatusesDiffer
  <2>5. Fallen(c)' BY <2>2, <2>3, <2>4 DEF Falling, Fallen, Down
  <2> QED BY <2>3, <2>5
<1>5. ASSUME DropStep(c)
      PROVE  (Risen(c) /\ RisenLost(c)') \/ (Running(c) /\ Broken(c)')
  <2>1. Grown(fromModem', fromModem, Lost(c)) BY <1>5 DEF DropStep, Lost
  <2>2. context[c] = "on" /\ context'[c] = "off" /\ UNCHANGED conns
    BY <1>5 DEF DropStep, TurnStep, ByTheModem
  <2>3. Risen(c) \/ Running(c)
    BY <2>2 DEF Room, Phases, Idle, Rising, RisenLost, NotRisen, Falling, Fallen, Broken
  <2>4. News(c)' = News(c) \cup {Lost(c)} BY <1>1, <2>1, StatusesDiffer
  <2>5. (Risen(c) => RisenLost(c)') /\ (Running(c) => Broken(c)')
    BY <2>2, <2>4 DEF Risen, RisenLost, Running, Broken, Lost, Up
  <2> QED BY <2>3, <2>5
<1> QED BY <1>2, <1>3, <1>4, <1>5

(* Every step takes a cid from its phase to the next one or leaves it      *)
(* there.                                                                  *)
LEMMA EveryMove ==
  ASSUME ~ IfcFails, TypeOK, TypeOK', SetupInv, Room, Step, reclaims' = 0, NEW c \in Cids
  PROVE  Moves(c)
<1>0. Phases /\ SaidOnce BY DEF Room
<1>1. ASSUME UNCHANGED <<conns, context>>, News(c)' = News(c) PROVE Moves(c)
  BY <1>1, StayQuiet
<1>2. ASSUME UNCHANGED fromModem PROVE News(c)' = News(c)
  BY <1>2 DEF News
<1>3. ASSUME NEW m, NEW kind, Reading(m, kind), kind # "STATUS"
      PROVE  News(c)' = News(c) /\ context' = context /\ m = fromModem[1] /\ 1 \in DOMAIN fromModem
  <2>1. m = fromModem[1] /\ m.kind = kind /\ Shifted(fromModem', fromModem) /\ context' = context
    BY <1>3 DEF Reading
  <2> QED BY <1>0, <1>3, <2>1, NewsRead DEF Shifted
<1>4. CASE \E t \in Setups \cup Deacts : RefusedStep(t)
  BY <1>1, <1>2, <1>4 DEF RefusedStep
<1>5. ASSUME NEW t \in Setups, NEW id \in Cids, SetupStep(t, id) PROVE Moves(c)
  <2>1. ~ conns[id].used /\ UNCHANGED <<context, fromModem>> BY <1>5 DEF SetupStep
  <2>2. CASE c = id
    <3>1. Idle(c) BY <1>0, <2>1, <2>2, UnusedIsIdle
    <3>2. ~ conns'[c].enabled BY <1>5, <2>2 DEF SetupStep, Becomes
    <3> QED BY <1>2, <2>1, <3>1, <3>2, StayIdle
  <2>3. CASE c # id
    <3>1. conns'[c] = conns[c] BY <1>5, <2>3 DEF SetupStep, Becomes
    <3> QED BY <1>2, <2>1, <3>1, StayQuiet
  <2> QED BY <2>2, <2>3
<1>6. ASSUME NEW t \in Deacts, NEW d \in Cids, DeactivateStep(t, d) PROVE Moves(c)
  <2>1. UNCHANGED <<context, fromModem>> BY <1>6 DEF DeactivateStep
  <2>2. CASE c = d
    <3>1. conns'[c].token = t BY <1>6, <2>2 DEF DeactivateStep, WithToken, Becomes
    <3> QED BY <1>6, <2>2, <3>1, DeactivateMoves DEF Moves
  <2>3. CASE c # d
    <3>1. conns'[c] = conns[c] BY <1>6, <2>3 DEF DeactivateStep, WithToken, Becomes
    <3> QED BY <1>2, <2>1, <3>1, StayQuiet
  <2> QED BY <2>2, <2>3
<1>7. ASSUME NEW d \in Cids, CauseStep(d) PROVE Moves(c)
  <2>1. UNCHANGED <<context, fromModem>> BY <1>7 DEF CauseStep
  <2>2. CASE c = d
    <3>1. conns[c].token = NoToken /\ ~ conns[c].enabled
      BY <1>7, <2>2 DEF CauseStep, Room, LastFailed
    <3>2. Idle(c) BY <1>0, <3>1, IdleWithoutToken, TokensAssumption DEF Token
    <3>3. ~ conns'[c].enabled BY <1>7, <2>2 DEF CauseStep, Deleted, Becomes
    <3> QED BY <1>2, <2>1, <3>2, <3>3, StayIdle
  <2>3. CASE c # d
    <3>1. conns'[c] = conns[c] BY <1>7, <2>3 DEF CauseStep, Deleted, Becomes
    <3> QED BY <1>2, <2>1, <3>1, StayQuiet
  <2> QED BY <2>2, <2>3
<1>8. CASE \E t \in Lists : ListStep(t)
  BY <1>1, <1>2, <1>8 DEF ListStep
<1>9. ASSUME NEW m \in Reports, NEW d \in Cids \cup {0}, FailedStep(m, d) PROVE Moves(c)
  <2>1. /\ News(c)' = News(c) /\ context' = context /\ m = fromModem[1] /\ 1 \in DOMAIN fromModem
        /\ m.kind = "GEN"
    BY <1>3, <1>9 DEF FailedStep, Reading
  <2>2. CASE UNCHANGED conns BY <1>1, <2>1, <2>2
  <2>3. CASE d \in Cids /\ conns[d].token = m.token /\ ~ m.ok
             /\ (Deleted(d) \/ WithToken(d, NoToken))
    <3>1. CASE c = d
      <4>1. Idle(c) BY <2>1, <2>3, <3>1, ResultIsIdle
      <4>2. ~ conns'[c].enabled BY <2>3, <3>1, <4>1 DEF Idle, Deleted, WithToken, Becomes
      <4> QED BY <2>1, <4>1, <4>2, StayIdle
    <3>2. CASE c # d
      <4>1. conns'[c] = conns[c] BY <2>3, <3>2 DEF Deleted, WithToken, Becomes
      <4> QED BY <2>1, <4>1, StayQuiet
    <3> QED BY <3>1, <3>2
  <2> QED BY <1>9, <2>2, <2>3 DEF FailedStep
<1>10. ASSUME NEW m \in Reports, NEW d \in Cids \cup {0}, ProceedStep(m, d) PROVE Moves(c)
  <2>1. News(c)' = News(c) /\ context' = context BY <1>3, <1>10 DEF ProceedStep
  <2> QED BY <1>1, <1>10, <2>1 DEF ProceedStep
<1>11. ASSUME NEW m \in Reports, NEW d \in Cids, IpStep(m, d) PROVE Moves(c)
  <2>1. News(c)' = News(c) /\ context' = context BY <1>3, <1>11 DEF IpStep
  <2>2. conns'[c].token = conns[c].token /\ conns'[c].enabled = conns[c].enabled
    BY <1>11 DEF IpStep, Becomes
  <2> QED BY <2>1, <2>2, StayQuiet
<1>12. ASSUME NEW m \in Reports, NEW d \in Cids, StatusStep(m, d) PROVE Moves(c)
  <2>1. StatusMove(m, d) BY <1>12, StatusMoves
  <2>2. CASE c = d BY <1>12, <2>1, <2>2 DEF Moves
  <2>3. CASE c # d
    <3>1. conns'[c] = conns[c]
      BY <2>1, <2>3 DEF StatusMove, EnabledStatus, DisabledStatus, NotEnabledStatus, DroppedStatus,
                        Deleted, WithToken, Becomes
    <3>2. m = fromModem[1] /\ Shifted(fromModem', fromModem) /\ context' = context
          /\ m = CallStatus(d, m.state, m.ok)
      BY <1>12 DEF StatusStep, Reading
    <3>3. fromModem[1].cid # c BY <2>3, <3>2 DEF CallStatus
    <3>4. News(c)' = News(c) BY <1>0, <3>2, <3>3, NewsRead
    <3> QED BY <3>1, <3>2, <3>4, StayQuiet
  <2> QED BY <2>2, <2>3
<1>13. ASSUME NEW m \in Reports, CallListStep(m) PROVE Moves(c)
  <2>1. News(c)' = News(c) /\ context' = context BY <1>3, <1>13 DEF CallListStep
  <2> QED BY <1>1, <1>13, <2>1 DEF CallListStep
<1>14. ASSUME NEW order \in Requests, ServeStep(order) PROVE Moves(c)
  <2>1. UNCHANGED conns BY <1>14 DEF ServeStep, ByTheModem
  <2>2. ASSUME NEW m, Grown(fromModem', fromModem, m), m.kind \in {"GEN", "LIST"}
        PROVE  News(c)' = News(c)
    <3>1. m.kind # "STATUS" BY <2>2
    <3> QED BY <2>2, <3>1, OtherSaid DEF News
  <2>3. /\ \A ok \in BOOLEAN : Result(order, ok).kind = "GEN"
        /\ \A on : CallList(order.token, on).kind = "LIST"
    BY DEF Result, CallList
  <2>4. CASE UNCHANGED context
    <3>1. \E m : Grown(fromModem', fromModem, m) /\ m.kind \in {"GEN", "LIST"}
      <4>1. CASE order.command = "LIST" BY <1>14, <2>3, <4>1 DEF ServeStep
      <4>2. CASE order.command # "LIST" BY <1>14, <2>3, <4>2 DEF ServeStep
      <4> QED BY <4>1, <4>2
    <3> QED BY <1>1, <2>1, <2>2, <2>4, <3>1
  <2>5. CASE /\ order.command \in {"ENABLE", "DISABLE"}
             /\ Grown(fromModem', fromModem, Result(order, TRUE))
             /\ IF order.command = "ENABLE"
                THEN context[order.cid] = "off" /\ context'[order.cid] = "activating"
                ELSE context[order.cid] = "on" /\ context'[order.cid] = "deactivating"
    <3>1. /\ order.cid \in Cids /\ conns[order.cid].token = order.token
          /\ \A d \in Cids \ {order.cid} : context'[d] = context[d]
          /\ IF order.command = "ENABLE"
             THEN Idle(order.cid) /\ Rising(order.cid)'
             ELSE Running(order.cid) /\ Falling(order.cid)'
      BY <1>14, <2>5, ServeMoves
    <3>2. CASE c = order.cid
      <4>1. CASE order.command = "ENABLE"
        <5>1. Served("ENABLE", c) BY <1>14, <3>1, <3>2, <4>1 DEF Served
        <5> QED BY <3>1, <3>2, <4>1, <5>1 DEF Moves
      <4>2. CASE order.command = "DISABLE"
        <5>1. Served("DISABLE", c) BY <1>14, <3>1, <3>2, <4>2 DEF Served
        <5> QED BY <3>1, <3>2, <4>2, <5>1 DEF Moves
      <4> QED BY <2>5, <4>1, <4>2
    <3>3. CASE c # order.cid
      <4>1. context'[c] = context[c] BY <3>1, <3>3
      <4>2. News(c)' = News(c) BY <2>2, <2>3, <2>5
      <4> QED BY <2>1, <4>1, <4>2, StayQuiet
    <3> QED BY <3>2, <3>3
  <2> QED BY <1>14, <2>4, <2>5 DEF ServeStep
<1>15. ASSUME NEW d \in Cids, TurningStep(d) PROVE Moves(c)
  <2>1. UNCHANGED conns /\ \A e \in Cids \ {d} : context'[e] = context[e]
    BY <1>15 DEF TurningStep, ActivateStep, ActivationFailsStep, DeactivatedStep, DropStep,
                 TurnStep, ByTheModem
  <2>2. CASE c = d BY <1>15, <2>2, TurnMoves DEF TurningStep, Moves
  <2>3. CASE c # d
    <3>1. ASSUME NEW old, NEW new, NEW m, Grown(new, old, m),
                 m.kind = "IP" \/ m \in {Up(d), NotUp(d), Down(d), Lost(d)}
          PROVE  Said(new, c) = Said(old, c)
      <4>1. CASE m.kind = "IP"
        <5>1. m.kind # "STATUS" BY <4>1
        <5> QED BY <3>1, <5>1, OtherSaid
      <4>2. CASE m \in {Up(d), NotUp(d), Down(d), Lost(d)}
        <5>1. m.cid = d BY <4>2, StatusesDiffer
        <5>2. Said(new, c) = Said(old, c) \cup (IF m.kind = "STATUS" /\ m.cid = c THEN {m} ELSE {})
          BY <3>1, SaidGrown
        <5> QED BY <2>3, <5>1, <5>2
      <4> QED BY <3>1, <4>1, <4>2
    <3>2. IpConfiguration(d).kind = "IP" BY DEF IpConfiguration
    <3>3. Said(fromModem', c) = Said(fromModem, c)
      <4>1. CASE ActivateStep(d)
        <5>1. PICK r \in Seq(Reports) :
                Grown(r, fromModem, IpConfiguration(d)) /\ Grown(fromModem', r, Up(d))
          BY <4>1 DEF ActivateStep, Up
        <5>2. Said(r, c) = Said(fromModem, c) BY <3>1, <3>2, <5>1
        <5>3. Said(fromModem', c) = Said(r, c) BY <3>1, <5>1
        <5> QED BY <5>2, <5>3
      <4>2. CASE ActivationFailsStep(d)
        <5>1. Grown(fromModem', fromModem, NotUp(d)) BY <4>2 DEF ActivationFailsStep, NotUp
        <5> QED BY <3>1, <5>1
      <4>3. CASE DeactivatedStep(d)
        <5>1. Grown(fromModem', fromModem, Down(d)) BY <4>3 DEF DeactivatedStep, Down
        <5> QED BY <3>1, <5>1
      <4>4. CASE DropStep(d)
        <5>1. Grown(fromModem', fromModem, Lost(d)) BY <4>4 DEF DropStep, Lost
        <5> QED BY <3>1, <5>1
      <4> QED BY <1>15, <4>1, <4>2, <4>3, <4>4 DEF TurningStep
    <3>4. News(c)' = News(c) BY <3>3 DEF News
    <3> QED BY <2>1, <2>3, <3>4, StayQuiet
  <2> QED BY <2>2, <2>3
<1> QED BY <1>4, <1>5, <1>6, <1>7, <1>8, <1>9, <1>10, <1>11, <1>12, <1>13, <1>14, <1>15
        DEF Step, TurningStep

(* So a cid is always in one of the phases.                                *)
LEMMA PhasesKept ==
  ASSUME ~ IfcFails, TypeOK, TypeOK', SetupInv, Room, Step, reclaims' = 0
  PROVE  Phases'
<1> SUFFICES ASSUME NEW c \in Cids
             PROVE  \/ Idle(c)' \/ Rising(c)' \/ Risen(c)' \/ RisenLost(c)' \/ NotRisen(c)'
                    \/ Running(c)' \/ Falling(c)' \/ Fallen(c)' \/ Broken(c)'
  BY DEF Phases
<1>1. Moves(c) BY EveryMove
<1>2. CASE Quiet(c) BY <1>2, QuietPhases DEF Room, Phases
<1>3. (\E m \in Reports : StatusMove(m, c)) => Running(c)' \/ Broken(c)' \/ Idle(c)'
  BY DEF StatusMove
<1> QED BY <1>1, <1>2, <1>3 DEF Moves

(* A cid that is idle stays so until the modem carries out an ENABLE of    *)
(* the request that has its place.                                         *)
LEMMA IdleKept ==
  ASSUME NEW c \in Cids, Moves(c), Idle(c)
  PROVE  Idle(c)' \/ Served("ENABLE", c)
<1>1. context[c] = "off" /\ News(c) = {} /\ ~ conns[c].enabled BY DEF Idle
<1>2. CASE Quiet(c) BY <1>2, QuietPhases
<1>3. ~ Rising(c) /\ ~ Risen(c) /\ ~ RisenLost(c) /\ ~ NotRisen(c) /\ ~ Running(c) /\ ~ Falling(c)
      /\ ~ Fallen(c) /\ ~ Broken(c)
  BY <1>1 DEF Rising, Risen, RisenLost, NotRisen, Running, Falling, Fallen, Broken
<1>4. \A m \in Reports : StatusMove(m, c) => Idle(c)' BY <1>3 DEF StatusMove
<1> QED BY <1>2, <1>3, <1>4 DEF Moves

(* The step of a message is the one of its kind.                           *)
LEMMA ReadKinds ==
  ASSUME ReadingStep, NEW m, m = fromModem[1]
  PROVE  /\ m \in Reports /\ 1 \in DOMAIN fromModem /\ m.kind \in {"GEN", "IP", "STATUS", "LIST"}
         /\ m.kind = "GEN" => \E d \in Cids \cup {0} : FailedStep(m, d) \/ ProceedStep(m, d)
         /\ m.kind = "IP" => m.cid \in Cids /\ IpStep(m, m.cid)
         /\ m.kind = "STATUS" => m.cid \in Cids /\ StatusStep(m, m.cid)
         /\ m.kind = "LIST" => CallListStep(m)
<1>1. ASSUME NEW r \in Reports, NEW d \in Cids \cup {0}, FailedStep(r, d) \/ ProceedStep(r, d)
      PROVE  r = m /\ m.kind = "GEN" /\ 1 \in DOMAIN fromModem
  BY <1>1 DEF FailedStep, ProceedStep, Reading, Shifted
<1>2. ASSUME NEW r \in Reports, NEW d \in Cids, IpStep(r, d)
      PROVE  r = m /\ m.kind = "IP" /\ m.cid = d /\ 1 \in DOMAIN fromModem
  BY <1>2 DEF IpStep, Reading, Shifted, IpConfiguration
<1>3. ASSUME NEW r \in Reports, NEW d \in Cids, StatusStep(r, d)
      PROVE  r = m /\ m.kind = "STATUS" /\ m.cid = d /\ 1 \in DOMAIN fromModem
  BY <1>3 DEF StatusStep, Reading, Shifted, CallStatus
<1>4. ASSUME NEW r \in Reports, CallListStep(r)
      PROVE  r = m /\ m.kind = "LIST" /\ 1 \in DOMAIN fromModem
  BY <1>4 DEF CallListStep, Reading, Shifted
<1> QED BY <1>1, <1>2, <1>3, <1>4 DEF ReadingStep

(* A notification that the modem gives, and the phase it gives it in.      *)
LEMMA ToldStatus ==
  ASSUME TypeOK, Room, NEW m, Told(m), m.kind = "STATUS"
  PROVE  \E c \in Cids :
           \/ ActivateStep(c) /\ m = Up(c) /\ Rising(c)
           \/ ActivationFailsStep(c) /\ m = NotUp(c) /\ Rising(c)
           \/ DeactivatedStep(c) /\ m = Down(c) /\ Falling(c)
           \/ DropStep(c) /\ m = Lost(c) /\ (Risen(c) \/ Running(c))
<1>1. ToldTurn(m)
  BY DEF Told, ToldList, ToldRefusal, ToldDone, ToldPrepared, CallList, Result
<1>2. PICK c \in Cids :
        \/ ActivateStep(c) /\ m \in {IpConfiguration(c), Up(c)}
        \/ ActivationFailsStep(c) /\ m = NotUp(c)
        \/ DeactivatedStep(c) /\ m = Down(c)
        \/ DropStep(c) /\ m = Lost(c)
  BY <1>1 DEF ToldTurn
<1>3. m # IpConfiguration(c) BY DEF IpConfiguration
<1>4. /\ ActivateStep(c) => Rising(c)
      /\ ActivationFailsStep(c) => Rising(c)
      /\ DeactivatedStep(c) => Falling(c)
      /\ DropStep(c) => Risen(c) \/ Running(c)
  BY TurnMoves
<1> QED BY <1>2, <1>3, <1>4

(* Which context tells of what.                                            *)
LEMMA ToldOf ==
  ASSUME TypeOK, Room, NEW c \in Cids
  PROVE  /\ Told(Up(c)) => ActivateStep(c) /\ Rising(c)
         /\ Told(NotUp(c)) => ActivationFailsStep(c) /\ Rising(c)
         /\ Told(Down(c)) => DeactivatedStep(c) /\ Falling(c)
         /\ Told(Lost(c)) => DropStep(c) /\ (Risen(c) \/ Running(c))
<1>1. ASSUME NEW m \in {Up(c), NotUp(c), Down(c), Lost(c)}, Told(m)
      PROVE  \/ ActivateStep(c) /\ m = Up(c) /\ Rising(c)
             \/ ActivationFailsStep(c) /\ m = NotUp(c) /\ Rising(c)
             \/ DeactivatedStep(c) /\ m = Down(c) /\ Falling(c)
             \/ DropStep(c) /\ m = Lost(c) /\ (Risen(c) \/ Running(c))
  <2>1. m.kind = "STATUS" /\ m.cid = c BY StatusesDiffer
  <2>2. PICK d \in Cids :
           \/ ActivateStep(d) /\ m = Up(d) /\ Rising(d)
           \/ ActivationFailsStep(d) /\ m = NotUp(d) /\ Rising(d)
           \/ DeactivatedStep(d) /\ m = Down(d) /\ Falling(d)
           \/ DropStep(d) /\ m = Lost(d) /\ (Risen(d) \/ Running(d))
    BY <1>1, <2>1, ToldStatus
  <2>3. m \in {Up(d), NotUp(d), Down(d), Lost(d)} BY <2>2
  <2>4. d = c BY <2>1, <2>3, StatusesDiffer
  <2> QED BY <2>2, <2>4
<1>2. Up(c) # NotUp(c) /\ Up(c) # Down(c) /\ Up(c) # Lost(c)
      /\ NotUp(c) # Down(c) /\ NotUp(c) # Lost(c) /\ Down(c) # Lost(c)
  BY StatusesDiffer
<1> QED BY <1>1, <1>2

(* No notification is told while its like is on its way.                   *)
LEMMA ToldStatusIsNew ==
  ASSUME TypeOK, Room, NEW m, Told(m), m.kind = "STATUS", NEW i \in DOMAIN fromModem
  PROVE  fromModem[i] # m
<1>1. PICK c \in Cids :
           \/ m \in {Up(c), NotUp(c)} /\ Rising(c)
           \/ m = Down(c) /\ Falling(c)
           \/ m = Lost(c) /\ (Risen(c) \/ Running(c))
  BY ToldStatus
<1>2. fromModem[i] = m => m \in News(c)
  <2>1. m.cid = c BY <1>1, StatusesDiffer
  <2> QED BY <2>1 DEF News, Said
<1>3. m \notin News(c) BY <1>1, StatusesDiffer DEF Rising, Falling, Risen, Running
<1> QED BY <1>2, <1>3

(* No notification is on its way twice.                                    *)
LEMMA SaidOnceKept ==
  ASSUME TypeOK, TypeOK', Room, Step PROVE SaidOnce'
<1>1. PICK r \in {0, 1}, B \in SUBSET Reports : Reported(r, B) BY ReportsMove
<1>2. SUFFICES ASSUME NEW i \in DOMAIN fromModem', NEW j \in DOMAIN fromModem',
                      fromModem'[i].kind = "STATUS", fromModem'[i] = fromModem'[j]
               PROVE  i = j
  BY DEF SaidOnce, Once
<1>3. i \in Nat /\ j \in Nat BY LineTypes DEF TypeOK
<1>4. CASE i + r \in DOMAIN fromModem /\ j + r \in DOMAIN fromModem
  <2>1. fromModem[i + r] = fromModem'[i] /\ fromModem[j + r] = fromModem'[j]
    BY <1>1, <1>4 DEF Reported, Moved
  <2>2. i + r = j + r BY <1>2, <1>4, <2>1 DEF Room, SaidOnce, Once
  <2> QED BY <1>3, <2>2
<1>5. CASE i + r \notin DOMAIN fromModem /\ j + r \notin DOMAIN fromModem
  BY <1>1, <1>2, <1>5 DEF Reported, Moved
<1>6. CASE i + r \in DOMAIN fromModem /\ j + r \notin DOMAIN fromModem
  <2>1. fromModem[i + r] = fromModem'[i] /\ Told(fromModem'[j])
    BY <1>1, <1>6 DEF Reported, Moved
  <2> QED BY <1>2, <1>6, <2>1, ToldStatusIsNew
<1>7. CASE i + r \notin DOMAIN fromModem /\ j + r \in DOMAIN fromModem
  <2>1. fromModem[j + r] = fromModem'[j] /\ Told(fromModem'[i])
    BY <1>1, <1>7 DEF Reported, Moved
  <2> QED BY <1>2, <1>7, <2>1, ToldStatusIsNew
<1> QED BY <1>4, <1>5, <1>6, <1>7

(* The word that a call is up comes before the word that it was dropped.   *)
LEMMA UpFirstKept ==
  ASSUME TypeOK, TypeOK', Room, Step PROVE UpFirst'
<1>1. PICK r \in {0, 1}, B \in SUBSET Reports : Reported(r, B) BY ReportsMove
<1>2. SUFFICES ASSUME NEW c \in Cids, NEW i \in DOMAIN fromModem', NEW j \in DOMAIN fromModem',
                      fromModem'[i] = Up(c), fromModem'[j] = Lost(c)
               PROVE  i < j
  BY DEF UpFirst, Up, Lost
<1>3. i \in Nat /\ j \in Nat BY LineTypes DEF TypeOK
<1>4. CASE i + r \in DOMAIN fromModem /\ j + r \in DOMAIN fromModem
  <2>1. fromModem[i + r] = Up(c) /\ fromModem[j + r] = Lost(c)
    BY <1>1, <1>2, <1>4 DEF Reported, Moved
  <2>2. i + r < j + r BY <1>4, <2>1 DEF Room, UpFirst
  <2> QED BY <1>3, <2>2
<1>5. CASE i + r \in DOMAIN fromModem /\ j + r \notin DOMAIN fromModem
  <2>1. (i + r) - r < j BY <1>1, <1>5 DEF Reported, Moved
  <2> QED BY <1>3, <2>1
<1>6. CASE i + r \notin DOMAIN fromModem
  <2>1. Told(Up(c)) BY <1>1, <1>2, <1>6 DEF Reported, Moved
  <2>3. ActivateStep(c) /\ Rising(c) BY <2>1, ToldOf
  <2>4. CASE j + r \in DOMAIN fromModem
    <3>1. fromModem[j + r] = Lost(c) BY <1>1, <1>2, <2>4 DEF Reported, Moved
    <3>2. Lost(c) \in News(c) BY <2>4, <3>1, StatusesDiffer DEF News, Said
    <3> QED BY <2>3, <3>2 DEF Rising
  <2>5. CASE j + r \notin DOMAIN fromModem
    <3>1. Told(Lost(c)) BY <1>1, <1>2, <2>5 DEF Reported, Moved
    <3>2. Risen(c) \/ Running(c) BY <3>1, ToldOf
    <3> QED BY <2>3, <3>2 DEF Rising, Risen, Running
  <2> QED BY <2>4, <2>5
<1> QED BY <1>4, <1>5, <1>6

-----------------------------------------------------------------------------
(* Addresses.                                                              *)

(* A place keeps what it knows of its call, and gets it with the           *)
(* notification, unless it is idle or falls idle.                          *)
LEMMA PlaceKept ==
  ASSUME ~ IfcFails, TypeOK, TypeOK', SetupInv, Room, Step, reclaims' = 0, NEW c \in Cids
  PROVE  \/ conns'[c].enabled = conns[c].enabled /\ (conns[c].ip => conns'[c].ip)
            /\ (conns[c].interface => conns'[c].interface)
         \/ Idle(c) /\ ~ conns'[c].enabled
         \/ Idle(c)' /\ (Fallen(c) \/ Broken(c))
         \/ fromModem[1] = Up(c) /\ 1 \in DOMAIN fromModem
            /\ conns'[c].interface /\ conns'[c].ip = conns[c].ip
<1> DEFINE Same == /\ conns'[c].enabled = conns[c].enabled /\ (conns[c].ip => conns'[c].ip)
                   /\ (conns[c].interface => conns'[c].interface)
           Still == Idle(c) /\ ~ conns'[c].enabled
           Ended == Idle(c)' /\ (Fallen(c) \/ Broken(c))
           Begun == /\ fromModem[1] = Up(c) /\ 1 \in DOMAIN fromModem
                    /\ conns'[c].interface /\ conns'[c].ip = conns[c].ip
<1>1. conns'[c] = conns[c] => Same OBVIOUS
<1>2. ASSUME NEW t \in Setups, NEW id \in Cids, SetupStep(t, id) PROVE Same \/ Still
  <2>1. CASE c = id
    <3>1. Idle(c) BY <1>2, <2>1, UnusedIsIdle DEF SetupStep, Room
    <3> QED BY <1>2, <2>1, <3>1 DEF SetupStep, Becomes
  <2>2. CASE c # id BY <1>2, <2>2, <1>1 DEF SetupStep, Becomes
  <2> QED BY <2>1, <2>2
<1>3. ASSUME NEW t \in Deacts, NEW d \in Cids, DeactivateStep(t, d) PROVE Same
  BY <1>3 DEF DeactivateStep, WithToken, Becomes
<1>4. ASSUME NEW d \in Cids, CauseStep(d) PROVE Same \/ Still
  <2>1. CASE c = d
    <3>1. conns[c].token = NoToken /\ ~ conns[c].enabled
      BY <1>4, <2>1 DEF CauseStep, Room, LastFailed
    <3>2. Idle(c) BY <3>1, IdleWithoutToken, TokensAssumption DEF Token, Room
    <3> QED BY <1>4, <2>1, <3>2 DEF CauseStep, Deleted, Becomes
  <2>2. CASE c # d BY <1>4, <2>2, <1>1 DEF CauseStep, Deleted, Becomes
  <2> QED BY <2>1, <2>2
<1>5. ASSUME NEW m \in Reports, NEW d \in Cids \cup {0}, FailedStep(m, d) PROVE Same \/ Still
  <2>1. CASE UNCHANGED conns BY <1>1, <2>1
  <2>2. CASE d \in Cids /\ conns[d].token = m.token /\ ~ m.ok
             /\ (Deleted(d) \/ WithToken(d, NoToken))
    <3>1. m = fromModem[1] /\ 1 \in DOMAIN fromModem /\ m.kind = "GEN"
      BY <1>5 DEF FailedStep, Reading, Shifted
    <3>2. CASE c = d
      <4>1. Idle(c) BY <2>2, <3>1, <3>2, ResultIsIdle
      <4>2. ~ conns'[c].enabled BY <2>2, <3>2, <4>1 DEF Idle, Deleted, WithToken, Becomes
      <4> QED BY <4>1, <4>2
    <3>3. CASE c # d BY <1>1, <2>2, <3>3 DEF Deleted, WithToken, Becomes
    <3> QED BY <3>2, <3>3
  <2> QED BY <1>5, <2>1, <2>2 DEF FailedStep
<1>6. ASSUME NEW m \in Reports, NEW d \in Cids, IpStep(m, d) PROVE Same
  BY <1>6 DEF IpStep, Becomes
<1>7. ASSUME NEW m \in Reports, NEW d \in Cids, StatusStep(m, d) PROVE Same \/ Ended \/ Begun
  <2>1. StatusMove(m, d) BY <1>7, StatusMoves
  <2>2. m = fromModem[1] /\ 1 \in DOMAIN fromModem BY <1>7 DEF StatusStep, Reading, Shifted
  <2>3. CASE c = d
    <3>1. CASE m = Up(c) /\ EnabledStatus(m, c)
      BY <2>2, <3>1 DEF EnabledStatus, Becomes
    <3>2. CASE m = NotUp(c) /\ NotEnabledStatus(m, c)
      BY <3>2 DEF NotEnabledStatus, WithToken, Becomes
    <3> QED BY <2>1, <2>3, <3>1, <3>2 DEF StatusMove
  <2>4. CASE c # d
    <3>1. conns'[c] = conns[c]
      BY <2>1, <2>4 DEF StatusMove, EnabledStatus, DisabledStatus, NotEnabledStatus,
                        DroppedStatus, Deleted, WithToken, Becomes
    <3> QED BY <1>1, <3>1
  <2> QED BY <2>3, <2>4
<1>8. \/ UNCHANGED conns
      \/ \E t \in Setups, d \in Cids : SetupStep(t, d)
      \/ \E t \in Deacts, d \in Cids : DeactivateStep(t, d)
      \/ \E d \in Cids : CauseStep(d)
      \/ \E m \in Reports, d \in Cids \cup {0} : FailedStep(m, d)
      \/ \E m \in Reports, d \in Cids : IpStep(m, d) \/ StatusStep(m, d)
  BY ConnsSteps
<1> QED BY <1>1, <1>2, <1>3, <1>4, <1>5, <1>6, <1>7, <1>8

(* The address comes before the word that the call is up, and stays.       *)
LEMMA AddressesKept ==
  ASSUME ~ IfcFails, TypeOK, TypeOK', SetupInv, Room, Step, reclaims' = 0, SaidOnce'
  PROVE  Addresses'
<1>1. ASSUME NEW c \in Cids, conns'[c].enabled PROVE conns'[c].ip /\ conns'[c].interface
  <2>1. ~ Idle(c)' BY <1>1 DEF Idle
  <2>2. CASE fromModem[1] = Up(c) /\ 1 \in DOMAIN fromModem
             /\ conns'[c].interface /\ conns'[c].ip = conns[c].ip
    <3>1. \A j \in DOMAIN fromModem : ~ (j < 1) BY LineTypes
    <3> QED BY <2>2, <3>1 DEF Room, Addresses
  <2> QED BY <1>1, <2>1, <2>2, PlaceKept DEF Room, Addresses
<1>2. ASSUME NEW c \in Cids, NEW i \in DOMAIN fromModem', fromModem'[i] = Up(c)
      PROVE  conns'[c].ip \/ \E j \in DOMAIN fromModem' : j < i /\ fromModem'[j] = IpConfiguration(c)
  <2>1. PICK r \in {0, 1}, B \in SUBSET Reports : Reported(r, B) BY ReportsMove
  <2>2. CASE i + r \in DOMAIN fromModem
    <3>1. fromModem[i + r] = Up(c) BY <1>2, <2>1, <2>2 DEF Reported, Moved
    <3>2. Up(c) \in News(c) BY <2>2, <3>1, StatusesDiffer DEF News, Said
    <3>3. ~ Idle(c) /\ ~ Fallen(c) /\ ~ Broken(c)
      BY <3>2, StatusesDiffer DEF Idle, Fallen, Broken
    <3>4. conns[c].ip => conns'[c].ip BY <3>3, PlaceKept
    <3>5. CASE \E j \in DOMAIN fromModem : j < i + r /\ fromModem[j] = IpConfiguration(c)
      <4>1. PICK j \in DOMAIN fromModem : j < i + r /\ fromModem[j] = IpConfiguration(c) BY <3>5
      <4>2. j \in Nat /\ i \in Nat /\ j # 0
        BY LineTypes DEF TypeOK
      <4>3. CASE j > r
        <5>1. j - r \in DOMAIN fromModem' /\ fromModem'[j - r] = IpConfiguration(c) /\ j - r < i
          BY <2>1, <4>1, <4>2, <4>3 DEF Reported, Moved
        <5> QED BY <5>1
      <4>4. CASE ~ (j > r)
        <5>1. r = 1 /\ j = 1 BY <4>2, <4>4
        <5>2. ReadingStep BY <2>1, <5>1 DEF Reported
        <5>3. IpConfiguration(c).kind = "IP" /\ IpConfiguration(c).cid = c BY DEF IpConfiguration
        <5>4. IpStep(IpConfiguration(c), c) BY <4>1, <5>1, <5>2, <5>3, ReadKinds
        <5>5. conns[c].used
          <6>1. ~ conns[c].used => Idle(c) BY UnusedIsIdle DEF Room
          <6>2. conns[c] \in Connection \cup {NoConnection} BY DEF TypeOK
          <6> QED BY <3>3, <6>1
        <5> QED BY <5>4, <5>5 DEF IpStep, Becomes
      <4> QED BY <4>3, <4>4
    <3> QED BY <2>2, <3>1, <3>4, <3>5 DEF Room, Addresses
  <2>3. CASE i + r \notin DOMAIN fromModem
    <3>1. Told(Up(c)) BY <1>2, <2>1, <2>3 DEF Reported, Moved
    <3>3. ActivateStep(c) BY <3>1, ToldOf
    <3>4. PICK q \in Seq(Reports) :
            Grown(q, fromModem, IpConfiguration(c)) /\ Grown(fromModem', q, Up(c))
      BY <3>3 DEF ActivateStep, Up
    <3>5. PICK a \in DOMAIN q : q[a] = IpConfiguration(c) BY <3>4 DEF Grown
    <3>6. PICK b \in DOMAIN fromModem' :
            fromModem'[b] = Up(c) /\ \A k \in DOMAIN q : k \in DOMAIN fromModem' /\ fromModem'[k] = q[k] /\ k < b
      BY <3>4 DEF Grown
    <3>7. b = i BY <1>2, <3>6, StatusesDiffer DEF SaidOnce, Once
    <3> QED BY <3>5, <3>6, <3>7
  <2> QED BY <2>2, <2>3
<1> QED BY <1>1, <1>2 DEF Addresses, Up, IpConfiguration

-----------------------------------------------------------------------------
(* Orders and results.                                                     *)

(* rild believes those calls active that it did before, and those that the *)
(* driver has told it of: they are enabled.                                *)
LEMMA ActiveFrom ==
  ASSUME ~ IfcFails, TypeOK, TypeOK', SetupInv, Room, Step, NEW c \in active'
  PROVE  /\ c \in active \/ conns'[c].enabled
         /\ (\E m \in Reports : CallListStep(m)) => conns'[c].enabled
<1>0. c \in Cids BY DEF TypeOK
<1>1. ASSUME NEW m \in Reports, CallListStep(m) PROVE conns'[c].enabled
  <2>1. c \in m.on /\ m = fromModem[1] /\ 1 \in DOMAIN fromModem /\ m.kind = "LIST" /\ conns' = conns
    BY <1>1 DEF CallListStep, Reading, Shifted
  <2>2. \A j \in DOMAIN fromModem : ~ (j < 1) BY LineTypes
  <2>3. conns[c].enabled BY <2>1, <2>2 DEF Room, Listed
  <2> QED BY <2>1, <2>3
<1>2. ASSUME NEW m \in Reports, NEW d \in Cids, StatusStep(m, d)
      PROVE  c \in active \/ conns'[c].enabled
  <2>1. StatusMove(m, d) BY <1>2, StatusMoves
  <2>2. CASE EnabledStatus(m, d) /\ conns'[d].token = NoToken /\ conns[d].token \in Setups
    <3>1. active' = active \cup {d}
      /\ conns'[d].enabled
      BY <2>2, TokensAssumption DEF EnabledStatus, Becomes, Token
    <3> QED BY <3>1
  <2>3. CASE NotEnabledStatus(m, d) \/ DisabledStatus(m, d) \/ DroppedStatus(m, d)
    BY <2>3 DEF NotEnabledStatus, DisabledStatus, DroppedStatus
  <2> QED BY <2>1, <2>2, <2>3 DEF StatusMove
<1>3. \/ UNCHANGED active
      \/ \E m \in Reports, d \in Cids : StatusStep(m, d)
      \/ \E m \in Reports : CallListStep(m)
  BY DEF Step, RefusedStep, SetupStep, DeactivateStep, CauseStep, ListStep, FailedStep, ProceedStep,
         IpStep, ServeStep, ActivateStep, ActivationFailsStep, DeactivatedStep, DropStep, TurnStep,
         ByTheModem
<1> QED BY <1>1, <1>2, <1>3

(* The cid that failed last is not enabled, nobody waits for it and rild   *)
(* does not believe it active.                                             *)
LEMMA LastFailedKept ==
  ASSUME ~ IfcFails, TypeOK, TypeOK', SetupInv, SetupInv', Room, Step, reclaims' = 0
  PROVE  LastFailed'
<1> SUFFICES ASSUME lastFailed' # 0
             PROVE  /\ conns'[lastFailed'].token = NoToken /\ conns'[lastFailed'].used
                    /\ ~ conns'[lastFailed'].enabled /\ lastFailed' \notin active'
  BY DEF LastFailed
<1> DEFINE f == lastFailed'
<1>0. f \in Cids BY DEF TypeOK
<1>1. NoToken \notin Token /\ NoToken \notin Setups /\ NoToken \notin Deacts
  BY TokensAssumption DEF Token
<1>2. conns[f] \in Connection \cup {NoConnection} BY <1>0 DEF TypeOK
<1> HIDE DEF f
<1>3. CASE f = lastFailed
  <2>0. conns[f].token = NoToken /\ conns[f].used /\ ~ conns[f].enabled /\ f \notin active /\ f # 0
    BY <1>3 DEF Room, LastFailed, f
  <2>1. conns'[f].token = NoToken /\ conns'[f].used /\ ~ conns'[f].enabled
    <3>1. ASSUME NEW t \in Setups, NEW d \in Cids, SetupStep(t, d) PROVE conns'[f] = conns[f]
      BY <1>0, <2>0, <3>1 DEF SetupStep, Becomes
    <3>2. ASSUME NEW t \in Deacts, NEW d \in Cids, DeactivateStep(t, d) PROVE conns'[f] = conns[f]
      BY <1>0, <2>0, <3>2 DEF DeactivateStep, WithToken, Becomes
    <3>3. ASSUME NEW d \in Cids, CauseStep(d) PROVE FALSE
      BY <3>3 DEF CauseStep
    <3>4. ASSUME NEW m \in Reports, NEW d \in Cids \cup {0}, FailedStep(m, d)
          PROVE  conns'[f] = conns[f]
      <4>1. m.token # NoToken BY <1>1, <3>4, ReportKinds DEF FailedStep, Reading
      <4> QED BY <1>0, <2>0, <3>4, <4>1 DEF FailedStep, Deleted, WithToken, Becomes
    <3>5. ASSUME NEW m \in Reports, NEW d \in Cids, IpStep(m, d)
          PROVE  conns'[f].token = NoToken /\ conns'[f].used /\ ~ conns'[f].enabled
      BY <1>0, <2>0, <3>5 DEF IpStep, Becomes
    <3>6. ASSUME NEW m \in Reports, NEW d \in Cids, StatusStep(m, d) PROVE conns'[f] = conns[f]
      <4>1. StatusMove(m, d) BY <3>6, StatusMoves
      <4>2. d # f
        BY <1>1, <2>0, <4>1 DEF StatusMove, NotRisen, Fallen, Broken
      <4> QED BY <1>0, <4>1, <4>2 DEF StatusMove, EnabledStatus, DisabledStatus, NotEnabledStatus,
                                      DroppedStatus, Deleted, WithToken, Becomes
    <3> QED BY <2>0, <3>1, <3>2, <3>3, <3>4, <3>5, <3>6, ConnsSteps
  <2>2. f \notin active' BY <2>0, <2>1, ActiveFrom
  <2> QED BY <2>1, <2>2 DEF f
<1>4. ASSUME NEW m \in Reports, NEW d \in Cids \cup {0}, FailedStep(m, d), f # lastFailed
      PROVE  conns'[f].token = NoToken /\ conns'[f].used /\ ~ conns'[f].enabled /\ f \notin active'
  <2>1. /\ f = d /\ conns[d].token = m.token /\ ~ m.ok /\ m.command # "DISABLE"
        /\ WithToken(d, NoToken) /\ active' = active
        /\ m = fromModem[1] /\ 1 \in DOMAIN fromModem /\ m.kind = "GEN"
    BY <1>4 DEF FailedStep, Reading, Shifted, f
  <2>2. m.token \in Setups
    <3>1. m.token \in (IF m.command = "DISABLE" THEN Deacts ELSE Setups)
      BY <2>1 DEF Room, Addressed
    <3> QED BY <2>1, <3>1
  <2>3. Idle(f) /\ f \notin active BY <1>0, <2>1, <2>2, ResultIsIdle
  <2> QED BY <1>0, <2>1, <2>3 DEF WithToken, Becomes, Idle
<1>5. ASSUME NEW m \in Reports, NEW d \in Cids, StatusStep(m, d), f # lastFailed
      PROVE  conns'[f].token = NoToken /\ conns'[f].used /\ ~ conns'[f].enabled /\ f \notin active'
  <2>1. StatusMove(m, d) BY <1>5, StatusMoves
  <2>2. ~ EnabledStatus(m, d) \/ conns'[d].token # NoToken \/ conns[d].token \notin Setups
    BY <1>1, <1>5 DEF EnabledStatus, Becomes, f
  <2>3. ~ DisabledStatus(m, d) /\ ~ DroppedStatus(m, d)
    BY <1>5 DEF DisabledStatus, DroppedStatus, f
  <2>4. NotRisen(d) /\ NotEnabledStatus(m, d) BY <2>1, <2>2, <2>3 DEF StatusMove
  <2>5. f = d /\ WithToken(d, NoToken) /\ active' = active /\ ~ conns[d].enabled
    BY <2>4 DEF NotEnabledStatus, f
  <2>6. d \notin active
    <3>1. ~ Idle(d) BY <2>4 DEF NotRisen, Idle
    <3> QED BY <2>5, <3>1 DEF Room, Believed
  <2> QED BY <2>5, <2>6 DEF WithToken, Becomes
<1>6. \/ f = lastFailed
      \/ \E m \in Reports, d \in Cids \cup {0} : FailedStep(m, d)
      \/ \E m \in Reports, d \in Cids : StatusStep(m, d)
  BY DEF Step, RefusedStep, SetupStep, DeactivateStep, CauseStep, ListStep, ProceedStep, IpStep,
         CallListStep, ServeStep, ActivateStep, ActivationFailsStep, DeactivatedStep, DropStep,
         TurnStep, ByTheModem, f
<1> QED BY <1>3, <1>4, <1>5, <1>6 DEF f

(* The modem's report of a command says nothing of a call's state.         *)
LEMMA ServeNews ==
  ASSUME NEW order \in Requests, ServeStep(order), NEW c
  PROVE  News(c)' = News(c) /\ UNCHANGED conns
<1>1. ASSUME NEW m, Grown(fromModem', fromModem, m), m.kind \in {"GEN", "LIST"}
      PROVE  News(c)' = News(c)
  <2>1. m.kind # "STATUS" BY <1>1
  <2> QED BY <1>1, <2>1, OtherSaid DEF News
<1>2. /\ \A ok \in BOOLEAN : Result(order, ok).kind = "GEN"
      /\ \A on : CallList(order.token, on).kind = "LIST"
  BY DEF Result, CallList
<1>3. \E m : Grown(fromModem', fromModem, m) /\ m.kind \in {"GEN", "LIST"}
  <2>1. CASE order.command = "LIST" BY <1>2, <2>1 DEF ServeStep
  <2>2. CASE order.command # "LIST" BY <1>2, <2>2 DEF ServeStep
  <2> QED BY <2>1, <2>2
<1> QED BY <1>1, <1>3 DEF ServeStep, ByTheModem

(* A setup that waits for its order keeps its place.                       *)
LEMMA TokenHeld ==
  ASSUME ~ IfcFails, TypeOK, TypeOK', SetupInv, Room, Step, reclaims' = 0,
         NEW c \in Cids, NEW t \in Setups, conns[c].token = t, Asked(toModem, t), c \notin active
  PROVE  conns'[c].token = t
<1>0. t \in Token /\ t # NoToken BY TokensAssumption DEF Token
<1>1. Idle(c) BY DEF Room, SetupOrders, Asked
<1>2. conns[c].used
  <2>1. conns[c] \in Connection \cup {NoConnection} BY DEF TypeOK
  <2> QED BY <1>0, <2>1, ConnectionKinds
<1>3. ASSUME NEW u \in Setups, NEW d \in Cids, SetupStep(u, d) PROVE conns'[c] = conns[c]
  BY <1>2, <1>3 DEF SetupStep, Becomes
<1>4. ASSUME NEW u \in Deacts, NEW d \in Cids, DeactivateStep(u, d) PROVE conns'[c] = conns[c]
  BY <1>4 DEF DeactivateStep, WithToken, Becomes
<1>5. ASSUME NEW d \in Cids, CauseStep(d) PROVE conns'[c] = conns[c]
  BY <1>0, <1>5 DEF CauseStep, Deleted, Becomes, Room, LastFailed
<1>6. ASSUME NEW m \in Reports, NEW d \in Cids \cup {0}, FailedStep(m, d)
      PROVE  conns'[c] = conns[c]
  <2>1. m = fromModem[1] /\ 1 \in DOMAIN fromModem /\ m.kind = "GEN"
    BY <1>6 DEF FailedStep, Reading, Shifted
  <2>2. m.token # t
    <3>1. m.token = t => Borne(fromModem, t) BY <2>1 DEF Borne, Bears
    <3> QED BY <1>0, <3>1 DEF Room, OneMessage
  <2> QED BY <1>6, <2>2 DEF FailedStep, Deleted, WithToken, Becomes
<1>7. ASSUME NEW m \in Reports, NEW d \in Cids, IpStep(m, d) PROVE conns'[c].token = t
  BY <1>7 DEF IpStep, Becomes
<1>8. ASSUME NEW m \in Reports, NEW d \in Cids, StatusStep(m, d) PROVE conns'[c] = conns[c]
  <2>1. StatusMove(m, d) BY <1>8, StatusMoves
  <2>2. d # c
    BY <1>1, <2>1 DEF StatusMove, Idle, Risen, RisenLost, NotRisen, Fallen, Broken
  <2> QED BY <2>1, <2>2 DEF StatusMove, EnabledStatus, DisabledStatus, NotEnabledStatus,
                            DroppedStatus, Deleted, WithToken, Becomes
<1> QED BY <1>3, <1>4, <1>5, <1>6, <1>7, <1>8, ConnsSteps

(* An order or a result of a request finds the request's place as it was.  *)
LEMMA SamePlace ==
  ASSUME TypeOK, Step, SetupInv, NEW c \in Cids, NEW t \in Token, InTransit(t), conns'[c].token = t
  PROVE  conns[c].token = t
<1>1. t \in issued /\ t # NoToken BY TokensAssumption DEF SetupInv, Unissued
<1>2. ASSUME NEW u \in Setups, SetupStep(u, c) PROVE FALSE
  BY <1>1, <1>2 DEF SetupStep, Becomes
<1>3. ASSUME NEW u \in Deacts, DeactivateStep(u, c) PROVE FALSE
  BY <1>1, <1>3 DEF DeactivateStep, WithToken, Becomes
<1> QED BY <1>1, <1>2, <1>3, TokensFrom

(* Serving a request's order takes it off the line.                        *)
LEMMA ServedIsGone ==
  ASSUME Room, NEW command, NEW c, Served(command, c), NEW i \in DOMAIN toModem',
         NEW t \in Token, toModem'[i].token = t
  PROVE  conns[c].token # t
<1>1. PICK order \in Requests : ServeStep(order) /\ conns[c].token = order.token BY DEF Served
<1>2. order = toModem[1] /\ 1 \in DOMAIN toModem /\ i + 1 \in DOMAIN toModem /\ i + 1 # 1
      /\ toModem[i + 1].token = t
  BY <1>1 DEF ServeStep, Shifted
<1> QED BY <1>1, <1>2 DEF Room, OneMessage

(* While a setup has a message to the modem, its cid is idle.              *)
LEMMA SetupOrdersKept ==
  ASSUME ~ IfcFails, TypeOK, TypeOK', SetupInv, SetupInv', Room, Step, reclaims' = 0
  PROVE  SetupOrders'
<1>0. /\ NoToken \notin Token /\ Setups \cap Deacts = {} /\ Lists \cap Setups = {}
      /\ Setups \subseteq Token /\ Deacts \subseteq Token
  BY TokensAssumption DEF Token
<1>1. SUFFICES ASSUME NEW i \in DOMAIN toModem'
               PROVE  /\ \A c \in Cids : toModem'[i].token \in Setups
                              /\ conns'[c].token = toModem'[i].token => Idle(c)'
                      /\ toModem'[i].command = "ENABLE" =>
                           /\ conns'[toModem'[i].cid].token = toModem'[i].token
                           /\ toModem'[i].cid \notin active'
  BY DEF SetupOrders
<1>2. PICK s \in {0, 1} : \E A : Ordered(s, A) BY OrdersMove
<1>3. PICK A : Ordered(s, A) BY <1>2
<1> DEFINE o == toModem'[i]
<1>4. CASE i + s \in DOMAIN toModem /\ o = toModem[i + s]
  <2>1. Asked(toModem, o.token) /\ InTransit(o.token) /\ o \in Requests /\ o.cid \in Cids
    BY <1>4, LineTypes, RequestKinds DEF Asked, InTransit
  <2>2. ASSUME NEW c \in Cids, o.token \in Setups, conns'[c].token = o.token PROVE Idle(c)'
    <3>1. conns[c].token = o.token BY <1>0, <2>1, <2>2, SamePlace
    <3>2. Idle(c) BY <1>4, <2>2, <3>1 DEF Room, SetupOrders
    <3>3. ~ Served("ENABLE", c) BY <1>0, <2>2, <3>1, ServedIsGone
    <3> QED BY <3>2, <3>3, EveryMove, IdleKept
  <2>3. ASSUME o.command = "ENABLE" PROVE conns'[o.cid].token = o.token /\ o.cid \notin active'
    <3>1. conns[o.cid].token = o.token /\ o.cid \notin active /\ o.token \in Setups
      BY <1>4, <2>3 DEF Room, SetupOrders, Addressed
    <3>2. conns'[o.cid].token = o.token BY <2>1, <3>1, TokenHeld
    <3>3. ~ conns'[o.cid].enabled BY <2>1, <3>1, <3>2 DEF SetupInv, NotYetEnabled
    <3>4. o.cid \notin active' BY <3>1, <3>3, ActiveFrom
    <3> QED BY <3>2, <3>4
  <2> QED BY <2>2, <2>3
<1>5. ASSUME PutSetup(o), NEW c \in Cids, conns'[c].token = o.token PROVE Idle(c)'
  <2>1. PICK t \in Setups, id \in Cids : SetupStep(t, id) /\ o.token = t BY <1>5 DEF PutSetup
  <2>2. conns'[id].token = t /\ ~ conns'[id].enabled BY <2>1 DEF SetupStep, Becomes
  <2>3. c = id BY <1>0, <1>5, <2>1, <2>2 DEF SetupInv, OneConnection
  <2>4. Idle(id) BY <2>1, UnusedIsIdle DEF SetupStep, Room
  <2> QED BY <2>1, <2>2, <2>3, <2>4 DEF SetupStep, Idle, News
<1>6. ASSUME PutNext(o)
      PROVE  \E d \in Cids : /\ o.cid = d /\ Idle(d)' /\ conns'[d].token = o.token
                             /\ d \notin active' /\ o.token \in Setups
  <2>1. PICK r \in Reports, d \in Cids :
          /\ ProceedStep(r, d) /\ r.command \in {"PORT_LIST", "DEFINE"}
          /\ o.token = r.token /\ o.cid = d
    BY <1>6 DEF PutNext
  <2>2. /\ r = fromModem[1] /\ 1 \in DOMAIN fromModem /\ r.kind = "GEN" /\ conns[d].token = r.token
        /\ UNCHANGED <<conns, active, context>> /\ Shifted(fromModem', fromModem)
    BY <2>1 DEF ProceedStep, Reading, Shifted
  <2>3. r.token \in Setups BY <2>1, <2>2 DEF Room, Addressed
  <2>4. Idle(d) /\ d \notin active BY <2>1, <2>2, <2>3, ResultIsIdle
  <2>5. News(d)' = News(d) BY <2>2, NewsRead DEF Room
  <2> QED BY <2>1, <2>2, <2>3, <2>4, <2>5 DEF Idle
<1>7. CASE o \in A
  <2>1. Put(o) BY <1>3, <1>7 DEF Ordered
  <2>2. CASE PutSetup(o) BY <1>5, <2>2 DEF PutSetup
  <2>3. CASE PutEnd(o) BY <1>0, <2>3 DEF PutEnd
  <2>4. CASE PutNext(o)
    <3>1. PICK d \in Cids : /\ o.cid = d /\ Idle(d)' /\ conns'[d].token = o.token
                            /\ d \notin active' /\ o.token \in Setups
      BY <1>6, <2>4
    <3>2. \A c \in Cids : conns'[c].token = o.token => c = d
      BY <1>0, <3>1 DEF SetupInv, OneConnection
    <3> QED BY <3>1, <3>2
  <2>5. CASE PutList(o) BY <1>0, <2>5 DEF PutList
  <2> QED BY <2>1, <2>2, <2>3, <2>4, <2>5 DEF Put
<1> QED BY <1>3, <1>4, <1>7 DEF Ordered, Moved

(* A command to disable finds its call running, just dropped, or gone.     *)
LEMMA EndOrdersKept ==
  ASSUME ~ IfcFails, TypeOK, TypeOK', SetupInv, SetupInv', Room, Step, reclaims' = 0
  PROVE  EndOrders'
<1>0. /\ NoToken \notin Token /\ Setups \cap Deacts = {} /\ Lists \cap Deacts = {}
      /\ Deacts \subseteq Token
  BY TokensAssumption DEF Token
<1>7. SUFFICES ASSUME NEW i \in DOMAIN toModem', NEW c \in Cids,
                      toModem'[i].command = "DISABLE", toModem'[i].cid = c
               PROVE  /\ \A j \in DOMAIN toModem' :
                           j < i /\ toModem'[j].command = "ENABLE" => toModem'[j].cid # c
                      /\ \/ Idle(c)'
                         \/ conns'[c].token = toModem'[i].token /\ (Running(c)' \/ Broken(c)')
  BY DEF EndOrders
<1> DEFINE o == toModem'[i]
<1>1. o \in Requests /\ c \in Cids /\ i \in Nat /\ \A j \in DOMAIN toModem' : j \in Nat
  BY LineTypes, RequestKinds DEF TypeOK
<1>2. PICK s \in {0, 1} : \E A : Ordered(s, A) BY OrdersMove
<1>3. PICK A : Ordered(s, A) BY <1>2
<1>4. Moves(c) BY <1>1, EveryMove
<1>5. CASE i + s \in DOMAIN toModem /\ o = toModem[i + s]
  <2>1. ASSUME NEW j \in DOMAIN toModem', j < i, toModem'[j].command = "ENABLE"
        PROVE  toModem'[j].cid # c
    <3>1. CASE j + s \in DOMAIN toModem /\ toModem'[j] = toModem[j + s]
      <4>1. j + s < i + s BY <1>1, <2>1
      <4> QED BY <1>5, <1>7, <2>1, <3>1, <4>1 DEF Room, EndOrders
    <3>2. CASE \A k \in DOMAIN toModem : k - s < j
      <4>1. (i + s) - s < j BY <1>5, <3>2
      <4> QED BY <1>1, <2>1, <4>1
    <3> QED BY <1>3, <3>1, <3>2 DEF Ordered, Moved
  <2>2. o.token \in Deacts /\ o.token \in Token BY <1>0, <1>5, <1>7 DEF Room, Addressed
  <2>3. CASE Idle(c)
    <3>1. ASSUME Served("ENABLE", c) PROVE FALSE
      <4>1. PICK order \in Requests : ServeStep(order) /\ order.command = "ENABLE" /\ order.cid = c
        BY <3>1 DEF Served
      <4>2. order = toModem[1] /\ 1 \in DOMAIN toModem /\ i + 1 \in DOMAIN toModem /\ i + 1 # 1
            /\ toModem[i + 1] = o
        BY <4>1 DEF ServeStep, Shifted
      <4>3. 1 < i + 1 BY <1>1, <4>2
      <4> QED BY <1>7, <4>1, <4>2, <4>3 DEF Room, EndOrders
    <3> QED BY <1>1, <1>4, <2>1, <2>3, <3>1, IdleKept
  <2>4. CASE conns[c].token = o.token /\ (Running(c) \/ Broken(c))
    <3>1. ~ Served("DISABLE", c) /\ ~ Served("ENABLE", c) BY <2>2, <2>4, ServedIsGone
    <3>2. CASE Quiet(c)
      BY <1>1, <2>1, <2>4, <3>2, QuietPhases DEF Quiet
    <3>3. CASE DropStep(c) /\ Running(c) /\ Broken(c)'
      BY <2>1, <2>4, <3>3 DEF DropStep, TurnStep, ByTheModem
    <3>4. CASE \E m \in Reports : StatusStep(m, c) /\ StatusMove(m, c)
      <4>1. Idle(c)'
        BY <2>4, <3>4, StatusesDiffer DEF StatusMove, Risen, RisenLost, NotRisen, Fallen, Running, Broken
      <4> QED BY <2>1, <4>1
    <3>5. conns[c].token # NoToken BY <1>0, <2>2, <2>4
    <3>6. ~ Idle(c) /\ ~ Rising(c) /\ ~ Falling(c) /\ ~ Risen(c)
      BY <1>0, <2>2, <2>4, StatusesDiffer DEF Idle, Rising, Falling, Risen, Running, Broken
    <3> QED BY <1>4, <2>1, <3>1, <3>2, <3>3, <3>4, <3>5, <3>6 DEF Moves
  <2> QED BY <1>5, <1>7, <2>3, <2>4 DEF Room, EndOrders
<1>6. CASE o \in A
  <2>1. PICK t \in Deacts : DeactivateStep(t, c) /\ o.token = t
    <3>1. Put(o) BY <1>3, <1>6 DEF Ordered
    <3> QED BY <1>7, <3>1 DEF Put, PutSetup, PutEnd, PutNext, PutList
  <2>2. conns'[c].token = t /\ c \in active /\ conns'[c].enabled = conns[c].enabled
    BY <1>1, <2>1 DEF DeactivateStep, WithToken, Becomes
  <2>3. Idle(c)' \/ Running(c)' \/ Broken(c)' BY <1>1, <2>1, DeactivateMoves
  <2>4. ASSUME NEW j \in DOMAIN toModem', j < i, toModem'[j].command = "ENABLE"
        PROVE  toModem'[j].cid # c
    <3>1. CASE j + s \in DOMAIN toModem /\ toModem'[j] = toModem[j + s]
      BY <2>2, <2>4, <3>1 DEF Room, SetupOrders
    <3>2. CASE toModem'[j] \in A
      <4>1. toModem'[j] = o BY <1>3, <1>6, <3>2 DEF Ordered
      <4> QED BY <1>7, <2>4, <4>1
    <3> QED BY <1>3, <3>1, <3>2 DEF Ordered, Moved
  <2> QED BY <2>1, <2>2, <2>3, <2>4
<1> QED BY <1>3, <1>5, <1>6 DEF Ordered, Moved

(* A result that the modem gives, and the order it is for.                 *)
ResultOf(m, order) ==
  /\ ServeStep(order) /\ order = toModem[1] /\ 1 \in DOMAIN toModem
  /\ order.command \in {"PORT_LIST", "DEFINE", "ENABLE", "DISABLE"}
  /\ m.command = order.command /\ m.token = order.token
  /\ \/ UNCHANGED context /\ order.command \in {"PORT_LIST", "DEFINE"}
     \/ /\ UNCHANGED context /\ ~ m.ok /\ order.command \in {"ENABLE", "DISABLE"}
        /\ \/ context[order.cid] # (IF order.command = "ENABLE" THEN "off" ELSE "on")
           \/ order.command \in Refusable
     \/ /\ m.ok /\ order.command \in {"ENABLE", "DISABLE"}
        /\ Grown(fromModem', fromModem, Result(order, TRUE))
        /\ IF order.command = "ENABLE"
           THEN context[order.cid] = "off" /\ context'[order.cid] = "activating"
           ELSE context[order.cid] = "on" /\ context'[order.cid] = "deactivating"

(* What a result says of the context.                                      *)
LEMMA ToldResult ==
  ASSUME TypeOK, Room, NEW m, Told(m), m.kind = "GEN"
  PROVE  \E order \in Requests : ResultOf(m, order)
<1>0. ASSUME NEW order, ServeStep(order) PROVE order = toModem[1] /\ 1 \in DOMAIN toModem
  BY <1>0 DEF ServeStep, Shifted
<1>1. CASE ToldList(m) BY <1>1 DEF ToldList, CallList
<1>2. CASE ToldRefusal(m)
  <2>1. PICK order \in Requests :
          /\ ServeStep(order) /\ order.command \in {"ENABLE", "DISABLE"} /\ UNCHANGED context
          /\ m = Result(order, FALSE)
          /\ \/ context[order.cid] # (IF order.command = "ENABLE" THEN "off" ELSE "on")
             \/ order.command \in Refusable
    BY <1>2 DEF ToldRefusal
  <2>2. m.command = order.command /\ m.token = order.token /\ ~ m.ok BY <2>1 DEF Result
  <2> QED BY <1>0, <2>1, <2>2 DEF ResultOf
<1>3. CASE ToldDone(m)
  <2>1. PICK order \in Requests :
          /\ ServeStep(order) /\ order.command \in {"ENABLE", "DISABLE"}
          /\ m = Result(order, TRUE) /\ Grown(fromModem', fromModem, m)
          /\ IF order.command = "ENABLE"
             THEN context[order.cid] = "off" /\ context'[order.cid] = "activating"
             ELSE context[order.cid] = "on" /\ context'[order.cid] = "deactivating"
    BY <1>3 DEF ToldDone
  <2>2. m.command = order.command /\ m.token = order.token /\ m.ok BY <2>1 DEF Result
  <2> QED BY <1>0, <2>1, <2>2 DEF ResultOf
<1>4. CASE ToldPrepared(m) BY <1>0, <1>4 DEF ToldPrepared, Result, ResultOf
<1>5. ~ ToldTurn(m) BY DEF ToldTurn, IpConfiguration, Up, NotUp, Down, Lost, CallStatus
<1> QED BY <1>1, <1>2, <1>3, <1>4, <1>5 DEF Told

(* The cid of a setup whose result is not yet in is idle, but for that of  *)
(* ENABLE.                                                                 *)
LEMMA SetupResultsKept ==
  ASSUME ~ IfcFails, TypeOK, TypeOK', SetupInv, Room, Step, reclaims' = 0
  PROVE  SetupResults'
<1>0. /\ NoToken \notin Token /\ Setups \cap Deacts = {} /\ Setups \subseteq Token
  BY TokensAssumption DEF Token
<1>1. SUFFICES ASSUME NEW i \in DOMAIN fromModem', NEW c \in Cids,
                      fromModem'[i].kind = "GEN", fromModem'[i].token \in Setups,
                      fromModem'[i].token = conns'[c].token,
                      ~ (fromModem'[i].command = "ENABLE" /\ fromModem'[i].ok)
               PROVE  Idle(c)'
  BY DEF SetupResults
<1>2. PICK r \in {0, 1}, B \in SUBSET Reports : Reported(r, B) BY ReportsMove
<1> DEFINE m == fromModem'[i]
<1>3. CASE i + r \in DOMAIN fromModem /\ m = fromModem[i + r]
  <2>1. InTransit(m.token) /\ Borne(fromModem, m.token)
    BY <1>1, <1>3 DEF InTransit, Borne, Bears
  <2>2. conns[c].token = m.token BY <1>0, <1>1, <2>1, SamePlace
  <2>3. Idle(c) BY <1>1, <1>3, <2>2 DEF Room, SetupResults
  <2>4. ASSUME Served("ENABLE", c) PROVE FALSE
    <3>1. Asked(toModem, m.token)
      BY <2>2, <2>4 DEF Served, ServeStep, Shifted, Asked
    <3> QED BY <1>0, <1>1, <2>1, <3>1 DEF Room, OneMessage
  <2> QED BY <2>3, <2>4, EveryMove, IdleKept
<1>4. CASE m \in B
  <2>1. Told(m) BY <1>2, <1>4 DEF Reported
  <2> HIDE DEF m
  <2>2. m.kind = "GEN" /\ m.token \in Setups /\ m.token = conns'[c].token
        /\ ~ (m.command = "ENABLE" /\ m.ok)
    BY <1>1 DEF m
  <2>3. PICK order \in Requests : ResultOf(m, order) BY <2>1, <2>2, ToldResult
  <2>4. order.command # "DISABLE" BY <1>0, <2>2, <2>3 DEF ResultOf, Room, Addressed
  <2>5. UNCHANGED context BY <2>2, <2>3, <2>4 DEF ResultOf
  <2>6. News(c)' = News(c) /\ UNCHANGED conns BY <2>3, ServeNews DEF ResultOf
  <2>7. Idle(c) BY <2>2, <2>3, <2>6 DEF ResultOf, Room, SetupOrders
  <2> QED BY <2>5, <2>6, <2>7 DEF Idle
<1> QED BY <1>2, <1>3, <1>4 DEF Reported, Moved

(* The word that a call has ended comes after the result of the command,   *)
(* and before the result if it was dropped.                                *)
LEMMA EndResultsKept ==
  ASSUME ~ IfcFails, "DISABLE" \notin Refusable, TypeOK, TypeOK', SetupInv, Room, Step,
         reclaims' = 0
  PROVE  EndResults'
<1>0. /\ NoToken \notin Token /\ Setups \cap Deacts = {} /\ Deacts \subseteq Token
  BY TokensAssumption DEF Token
<1>1. SUFFICES ASSUME NEW i \in DOMAIN fromModem', NEW c \in Cids,
                      fromModem'[i].kind = "GEN", fromModem'[i].token \in Deacts,
                      fromModem'[i].token = conns'[c].token
               PROVE  IF fromModem'[i].ok
                      THEN Falling(c)' \/ \E j \in DOMAIN fromModem' : j > i /\ fromModem'[j] = Down(c)
                      ELSE Idle(c)' \/ \E j \in DOMAIN fromModem' : j < i /\ fromModem'[j] = Lost(c)
  BY DEF EndResults, Down, Lost
<1>2. PICK r \in {0, 1}, B \in SUBSET Reports : Reported(r, B) BY ReportsMove
<1> DEFINE m == fromModem'[i]
<1>3. i \in Nat /\ DOMAIN fromModem \subseteq Nat \ {0} /\ DOMAIN fromModem' \subseteq Nat \ {0}
  BY LineTypes DEF TypeOK
<1>4. Moves(c) BY EveryMove
<1>5. CASE i + r \in DOMAIN fromModem /\ m = fromModem[i + r]
  <2>1. InTransit(m.token) BY <1>1, <1>5 DEF InTransit
  <2>2. conns[c].token = m.token BY <1>0, <1>1, <2>1, SamePlace
  <2>3. ASSUME NEW j \in DOMAIN fromModem, j > r
        PROVE  j - r \in DOMAIN fromModem' /\ fromModem'[j - r] = fromModem[j]
    BY <1>2, <2>3 DEF Reported, Moved
  <2>4. CASE m.ok
    <3>1. CASE Falling(c)
      <4>1. ~ Idle(c) /\ ~ Running(c) /\ ~ Rising(c) /\ ~ Broken(c) /\ ~ Risen(c) /\ ~ RisenLost(c)
            /\ ~ NotRisen(c) /\ ~ Fallen(c)
        BY <3>1 DEF Idle, Running, Rising, Broken, Risen, RisenLost, NotRisen, Falling, Fallen
      <4>2. CASE Quiet(c) BY <2>4, <3>1, <4>2, QuietPhases
      <4>3. CASE DeactivatedStep(c)
        <5>1. PICK n \in DOMAIN fromModem' :
                fromModem'[n] = Down(c) /\ \A k \in DOMAIN fromModem' : k = n \/ k < n
          BY <4>3 DEF DeactivatedStep, Grown, Down
        <5>2. i # n BY <1>1, <5>1, StatusesDiffer
        <5>3. n > i BY <1>3, <5>1, <5>2
        <5> QED BY <2>4, <5>1, <5>3
      <4> QED BY <1>4, <4>1, <4>2, <4>3 DEF Moves, StatusMove
    <3>2. CASE \E j \in DOMAIN fromModem : j > i + r /\ fromModem[j] = Down(c)
      <4>1. PICK j \in DOMAIN fromModem : j > i + r /\ fromModem[j] = Down(c) BY <3>2
      <4>2. j \in Nat /\ j > r /\ j - r > i BY <1>3, <4>1
      <4> QED BY <2>3, <2>4, <4>1, <4>2
    <3> QED BY <1>1, <1>5, <2>2, <2>4, <3>1, <3>2 DEF Room, EndResults
  <2>5. CASE ~ m.ok
    <3>1. CASE Idle(c)
      <4>1. ASSUME Served("ENABLE", c) PROVE FALSE
        <5>1. m.token \in Setups
          BY <2>2, <4>1 DEF Served, ServeStep, Shifted, Room, Addressed
        <5> QED BY <1>0, <1>1, <5>1
      <4> QED BY <1>4, <2>5, <3>1, <4>1, IdleKept
    <3>2. CASE \E j \in DOMAIN fromModem : j < i + r /\ fromModem[j] = Lost(c)
      <4>1. PICK j \in DOMAIN fromModem : j < i + r /\ fromModem[j] = Lost(c) BY <3>2
      <4>2. j \in Nat /\ j # 0 BY <1>3
      <4>3. CASE j > r
        <5>1. j - r < i BY <1>3, <4>1, <4>2, <4>3
        <5> QED BY <2>3, <2>5, <4>1, <4>3, <5>1
      <4>4. CASE ~ (j > r)
        <5>1. r = 1 /\ j = 1 BY <4>2, <4>4
        <5>2. ReadingStep BY <1>2, <5>1 DEF Reported
        <5>3. Lost(c) \in Reports /\ StatusStep(Lost(c), c)
          BY <4>1, <5>1, <5>2, StatusesDiffer, ReadKinds
        <5>4. StatusMove(Lost(c), c) BY <5>3, StatusMoves
        <5>5. DroppedStatus(Lost(c), c) BY <5>4, StatusesDiffer DEF StatusMove
        <5>6. conns'[c].token = NoToken BY <5>5 DEF DroppedStatus, Deleted, Becomes
        <5> QED BY <1>0, <1>1, <5>6
      <4> QED BY <4>3, <4>4
    <3> QED BY <1>1, <1>5, <2>2, <2>5, <3>1, <3>2 DEF Room, EndResults
  <2> QED BY <2>4, <2>5
<1>6. CASE i + r \notin DOMAIN fromModem /\ m \in B /\ \A j \in DOMAIN fromModem : j - r < i
  <2>1. Told(m) /\ r = 0 BY <1>2, <1>6 DEF Reported
  <2> HIDE DEF m
  <2>2. m.kind = "GEN" /\ m.token \in Deacts /\ m.token = conns'[c].token BY <1>1 DEF m
  <2>3. PICK order \in Requests : ResultOf(m, order)
    BY <2>1, <2>2, ToldResult
  <2>4. News(c)' = News(c) /\ UNCHANGED conns BY <2>3, ServeNews DEF ResultOf
  <2>5. order.command = "DISABLE" /\ order.cid = c
    <3>1. order.token \in Deacts /\ order.token = conns[c].token BY <2>2, <2>3, <2>4 DEF ResultOf
    <3>2. order.command = "DISABLE" /\ order.cid = target[order.token]
      BY <2>3, <3>1 DEF ResultOf, Room, Addressed
    <3> QED BY <3>1, <3>2 DEF Room, Addressed
  <2>6. Idle(c) \/ Running(c) \/ Broken(c) BY <2>3, <2>5 DEF ResultOf, Room, EndOrders
  <2>7. CASE m.ok
    <3>1. Falling(c)' BY <2>3, <2>5, <2>7, ServeMoves DEF ResultOf
    <3> QED BY <2>7, <3>1 DEF m
  <2>8. CASE ~ m.ok
    <3>1. UNCHANGED context /\ context[c] # "on" BY <2>3, <2>5, <2>8 DEF ResultOf
    <3>2. CASE Idle(c)
      <4>1. Idle(c)' BY <2>4, <3>1, <3>2 DEF Idle
      <4> QED BY <2>8, <4>1 DEF m
    <3>3. CASE Broken(c)
      <4>1. PICK j \in DOMAIN fromModem : fromModem[j] = Lost(c) BY <3>3 DEF Broken, News, Said
      <4>2. j > r /\ j - r = j /\ j \in Nat BY <1>3, <2>1
      <4>3. j \in DOMAIN fromModem' /\ fromModem'[j] = Lost(c) /\ j < i
        BY <1>2, <1>6, <4>1, <4>2 DEF Reported, Moved
      <4> QED BY <2>8, <4>3 DEF m
    <3> QED BY <2>6, <3>1, <3>2, <3>3 DEF Running
  <2> QED BY <2>7, <2>8
<1> QED BY <1>2, <1>5, <1>6 DEF Reported, Moved

-----------------------------------------------------------------------------
(* What rild believes.                                                     *)

(* As long as the list is on its way to rild ahead of anything the         *)
(* connection of c may do, it stays so.                                    *)
LEMMA RefreshedKept ==
  ASSUME TypeOK, TypeOK', SetupInv, Room, Step, NEW c \in Cids, Refreshed(c),
         ~ \E m \in Reports : CallListStep(m)
  PROVE  Refreshed(c)'
<1>0. Setups \subseteq Token BY DEF Token
<1>1. /\ DOMAIN fromModem \subseteq Nat \ {0} /\ DOMAIN fromModem' \subseteq Nat \ {0}
      /\ DOMAIN toModem \subseteq Nat \ {0} /\ DOMAIN toModem' \subseteq Nat \ {0}
  BY LineTypes DEF TypeOK
<1>2. PICK r \in {0, 1}, B \in SUBSET Reports : Reported(r, B) BY ReportsMove
<1>3. PICK s \in {0, 1} : \E A : Ordered(s, A) BY OrdersMove
<1>4. PICK A : Ordered(s, A) BY <1>3
<1>5. ASSUME NEW j \in DOMAIN fromModem', fromModem'[j].kind = "GEN",
             fromModem'[j].token \in Setups, fromModem'[j].token = conns'[c].token
      PROVE  \/ /\ j + r \in DOMAIN fromModem /\ fromModem[j + r].kind = "GEN"
                /\ fromModem[j + r].token \in Setups /\ fromModem[j + r].token = conns[c].token
             \/ /\ \A i \in DOMAIN fromModem : i - r < j
                /\ 1 \in DOMAIN toModem /\ toModem[1].command # "LIST"
                /\ toModem[1].token \in Setups /\ toModem[1].token = conns[c].token
  <2> DEFINE m == fromModem'[j]
  <2>1. CASE j + r \in DOMAIN fromModem /\ fromModem'[j] = fromModem[j + r]
    <3>1. InTransit(m.token) BY <1>5, <2>1 DEF InTransit
    <3>2. conns[c].token = m.token BY <1>0, <1>5, <3>1, SamePlace
    <3> QED BY <1>5, <2>1, <3>2
  <2>2. CASE fromModem'[j] \in B /\ \A i \in DOMAIN fromModem : i - r < j
    <3>1. Told(m) BY <1>2, <2>2 DEF Reported
    <3> HIDE DEF m
    <3>2. m.kind = "GEN" /\ m.token \in Setups /\ m.token = conns'[c].token BY <1>5 DEF m
    <3>3. PICK order \in Requests : ResultOf(m, order) BY <3>1, <3>2, ToldResult
    <3>4. /\ 1 \in DOMAIN toModem /\ toModem[1].command # "LIST"
          /\ toModem[1].token = m.token
      BY <3>3 DEF ResultOf
    <3>5. InTransit(m.token) BY <3>4 DEF InTransit
    <3>6. conns[c].token = m.token BY <1>0, <3>2, <3>5, SamePlace
    <3> QED BY <2>2, <3>2, <3>4, <3>6
  <2> QED BY <1>2, <2>1, <2>2 DEF Reported, Moved
<1>6. CASE \E k \in DOMAIN fromModem : fromModem[k].kind = "LIST" /\ ~ ResultsBefore(c, k)
  <2>1. PICK k \in DOMAIN fromModem : fromModem[k].kind = "LIST" /\ ~ ResultsBefore(c, k) BY <1>6
  <2>2. k > r
    <3>1. ASSUME ~ (k > r) PROVE FALSE
      <4>1. r = 1 /\ k = 1 BY <1>1, <3>1
      <4>2. ReadingStep BY <1>2, <4>1 DEF Reported
      <4> QED BY <2>1, <4>1, <4>2, ReadKinds
    <3> QED BY <3>1
  <2>3. k - r \in DOMAIN fromModem' /\ fromModem'[k - r].kind = "LIST"
    BY <1>2, <2>1, <2>2 DEF Reported, Moved
  <2>4. ASSUME NEW j \in DOMAIN fromModem', j < k - r, fromModem'[j].kind = "GEN",
               fromModem'[j].token \in Setups, fromModem'[j].token = conns'[c].token
        PROVE  FALSE
    <3>1. ~ (k - r < j) BY <1>1, <2>1, <2>4
    <3>2. j + r \in DOMAIN fromModem /\ fromModem[j + r].kind = "GEN"
          /\ fromModem[j + r].token \in Setups /\ fromModem[j + r].token = conns[c].token
      BY <1>5, <2>1, <2>4, <3>1
    <3>3. j + r < k BY <1>1, <2>1, <2>4
    <3> QED BY <2>1, <3>2, <3>3 DEF ResultsBefore
  <2> QED BY <2>3, <2>4 DEF Refreshed, ResultsBefore
<1>7. CASE /\ \E k \in DOMAIN toModem : toModem[k].command = "LIST" /\ ~ OrdersBefore(c, k)
           /\ \A j \in DOMAIN fromModem : fromModem[j].kind = "GEN" =>
                ~ (fromModem[j].token \in Setups /\ fromModem[j].token = conns[c].token)
  <2>1. PICK k \in DOMAIN toModem : toModem[k].command = "LIST" /\ ~ OrdersBefore(c, k) BY <1>7
  <2>2. CASE k > s
    <3>1. k - s \in DOMAIN toModem' /\ toModem'[k - s].command = "LIST"
      BY <1>4, <2>1, <2>2 DEF Ordered, Moved
    <3>2. ASSUME NEW j \in DOMAIN toModem', j < k - s, toModem'[j].token \in Setups,
                 toModem'[j].token = conns'[c].token
          PROVE  FALSE
      <4>1. ~ (k - s < j) BY <1>1, <2>1, <3>2
      <4>2. j + s \in DOMAIN toModem /\ toModem[j + s] = toModem'[j]
        BY <1>4, <2>1, <4>1 DEF Ordered, Moved
      <4>3. InTransit(toModem'[j].token) BY <4>2 DEF InTransit
      <4>4. conns[c].token = toModem'[j].token BY <1>0, <3>2, <4>3, SamePlace
      <4>5. j + s < k BY <1>1, <2>1, <3>2
      <4> QED BY <2>1, <3>2, <4>2, <4>4, <4>5 DEF OrdersBefore
    <3>3. ASSUME NEW j \in DOMAIN fromModem', fromModem'[j].kind = "GEN",
                 fromModem'[j].token \in Setups, fromModem'[j].token = conns'[c].token
          PROVE  FALSE
      <4>1. /\ 1 \in DOMAIN toModem /\ toModem[1].command # "LIST"
            /\ toModem[1].token \in Setups /\ toModem[1].token = conns[c].token
        BY <1>5, <1>7, <3>3
      <4>2. 1 < k BY <1>1, <2>1, <4>1
      <4> QED BY <2>1, <4>1, <4>2 DEF OrdersBefore
    <3> QED BY <3>1, <3>2, <3>3 DEF Refreshed, OrdersBefore
  <2>3. CASE ~ (k > s)
    <3>1. k = 1 /\ s = 1 BY <1>1, <2>3
    <3>2. PICK order \in Requests : ServeStep(order) BY <1>4, <3>1 DEF Ordered
    <3>3. order = toModem[1] /\ order.command = "LIST" BY <2>1, <3>1, <3>2 DEF ServeStep
    <3>4. /\ \E on : Grown(fromModem', fromModem, CallList(order.token, on)) /\ UNCHANGED conns
      BY <3>2, <3>3 DEF ServeStep, ByTheModem
    <3>5. PICK n \in DOMAIN fromModem' :
            /\ fromModem'[n].kind = "LIST"
            /\ \A j \in DOMAIN fromModem' : j # n => j \in DOMAIN fromModem /\ fromModem'[j] = fromModem[j]
      BY <3>4 DEF Grown, CallList
    <3>6. ASSUME NEW j \in DOMAIN fromModem', fromModem'[j].kind = "GEN",
                 fromModem'[j].token \in Setups, fromModem'[j].token = conns'[c].token
          PROVE  FALSE
      <4>1. j # n BY <3>5, <3>6
      <4> QED BY <1>7, <3>4, <3>5, <3>6, <4>1
    <3> QED BY <3>5, <3>6 DEF Refreshed, ResultsBefore
  <2> QED BY <2>2, <2>3
<1> QED BY <1>6, <1>7 DEF Refreshed

(* What rild believes active and is not is about to be listed anew.        *)
LEMMA BelievedKept ==
  ASSUME ~ IfcFails, TypeOK, TypeOK', SetupInv, Room, Step, reclaims' = 0
  PROVE  Believed'
<1>0. NoToken \notin Token /\ Setups \subseteq Token BY TokensAssumption DEF Token
<1>1. SUFFICES ASSUME NEW c \in active', ~ conns'[c].enabled PROVE Idle(c)' /\ Refreshed(c)'
  BY DEF Believed
<1>2. c \in Cids BY DEF TypeOK
<1>3. c \in active /\ ~ \E m \in Reports : CallListStep(m) BY <1>1, ActiveFrom
<1>4. Moves(c) BY <1>2, EveryMove
<1>5. CASE conns[c].enabled
  <2>1. PICK m \in Reports : StatusStep(m, c) /\ StatusMove(m, c)
    BY <1>1, <1>4, <1>5 DEF Moves, Quiet, Idle, Falling, Running, Broken, Rising, TurnStep,
       ActivateStep, ActivationFailsStep, DeactivatedStep, DropStep, ByTheModem
  <2>2. ~ DisabledStatus(m, c) BY <1>1 DEF DisabledStatus
  <2>3. ~ EnabledStatus(m, c) /\ ~ NotEnabledStatus(m, c)
    BY <1>5 DEF EnabledStatus, NotEnabledStatus
  <2>4. DroppedStatus(m, c) /\ Idle(c)' BY <2>1, <2>2, <2>3 DEF StatusMove
  <2>5. conns'[c].token = NoToken /\ Grown(toModem', toModem, AskList(NoToken))
    BY <2>4 DEF DroppedStatus, Deleted, Becomes
  <2>6. \E k \in DOMAIN toModem' : toModem'[k].command = "LIST" BY <2>5 DEF Grown, AskList
  <2> QED BY <1>0, <2>4, <2>5, <2>6 DEF Refreshed, OrdersBefore
<1>6. CASE ~ conns[c].enabled
  <2>1. Idle(c) /\ Refreshed(c) BY <1>3, <1>6 DEF Room, Believed
  <2>2. ~ Served("ENABLE", c)
    <3>1. ASSUME NEW order \in Requests, ServeStep(order), order.command = "ENABLE", order.cid = c
          PROVE  FALSE
      <4>1. order = toModem[1] /\ 1 \in DOMAIN toModem BY <3>1 DEF ServeStep, Shifted
      <4>2. c \notin active BY <3>1, <4>1 DEF Room, SetupOrders
      <4> QED BY <1>3, <4>2
    <3> QED BY <3>1 DEF Served
  <2>3. Idle(c)' BY <1>2, <1>4, <2>1, <2>2, IdleKept
  <2>4. Refreshed(c)' BY <1>2, <1>3, <2>1, RefreshedKept
  <2> QED BY <2>3, <2>4
<1> QED BY <1>5, <1>6

(* No list comes in that tells of a call before the driver knows it.       *)
LEMMA ListedKept ==
  ASSUME ~ IfcFails, TypeOK, TypeOK', SetupInv, Room, Step, reclaims' = 0
  PROVE  Listed'
<1>1. SUFFICES ASSUME NEW i \in DOMAIN fromModem', fromModem'[i].kind = "LIST",
                      NEW c \in fromModem'[i].on
               PROVE  /\ \/ conns'[c].enabled
                         \/ \E j \in DOMAIN fromModem' : j < i /\ fromModem'[j] = Up(c)
                      /\ \A j \in DOMAIN fromModem' :
                           j < i => fromModem'[j] # Lost(c) /\ fromModem'[j] # Down(c)
  BY DEF Listed, Up, Lost, Down
<1>2. /\ DOMAIN fromModem \subseteq Nat \ {0} /\ i \in Nat \ {0} /\ fromModem'[i] \in Reports
      /\ DOMAIN fromModem' \subseteq Nat \ {0}
  BY LineTypes DEF TypeOK
<1>3. c \in Cids BY <1>1, <1>2, ReportKinds
<1>4. PICK r \in {0, 1}, B \in SUBSET Reports : Reported(r, B) BY ReportsMove
<1>5. CASE i + r \in DOMAIN fromModem /\ fromModem[i + r] = fromModem'[i]
  <2>1. /\ \/ conns[c].enabled
           \/ \E j \in DOMAIN fromModem : j < i + r /\ fromModem[j] = Up(c)
        /\ \A j \in DOMAIN fromModem :
             j < i + r => fromModem[j] # Lost(c) /\ fromModem[j] # Down(c)
    BY <1>1, <1>5 DEF Room, Listed
  <2>2. ASSUME NEW j \in DOMAIN fromModem', j < i
        PROVE  fromModem'[j] # Lost(c) /\ fromModem'[j] # Down(c)
    <3>1. CASE j + r \in DOMAIN fromModem /\ fromModem'[j] = fromModem[j + r]
      <4>1. j + r < i + r BY <1>2, <2>2
      <4> QED BY <2>1, <3>1, <4>1
    <3>2. CASE \A k \in DOMAIN fromModem : k - r < j
      <4>1. (i + r) - r < j BY <1>5, <3>2
      <4> QED BY <1>2, <2>2, <4>1
    <3> QED BY <1>4, <3>1, <3>2 DEF Reported, Moved
  <2>3. ASSUME conns[c].enabled, ~ conns'[c].enabled PROVE FALSE
    <3>1. Moves(c) BY <1>3, EveryMove
    <3>2. PICK m \in Reports : StatusStep(m, c) /\ StatusMove(m, c)
      BY <2>3, <3>1 DEF Moves, Quiet, Idle, Falling, Running, Broken, Rising, TurnStep,
         ActivateStep, ActivationFailsStep, DeactivatedStep, DropStep, ByTheModem
    <3>3. m = Down(c) \/ m = Lost(c)
      BY <2>3, <3>2 DEF StatusMove, EnabledStatus, NotEnabledStatus
    <3>4. m = fromModem[1] /\ 1 \in DOMAIN fromModem BY <3>2 DEF StatusStep, Reading, Shifted
    <3>5. i + r # 1
      BY <1>1, <1>5, <3>3, <3>4, StatusesDiffer
    <3>6. 1 < i + r BY <1>2, <3>5
    <3> QED BY <2>1, <3>3, <3>4, <3>6
  <2>4. ASSUME NEW j \in DOMAIN fromModem, j < i + r, fromModem[j] = Up(c)
        PROVE  conns'[c].enabled \/ \E k \in DOMAIN fromModem' : k < i /\ fromModem'[k] = Up(c)
    <3>1. CASE j > r
      <4>1. j - r \in DOMAIN fromModem' /\ fromModem'[j - r] = Up(c)
        BY <1>4, <2>4, <3>1 DEF Reported, Moved
      <4>2. j - r < i BY <1>2, <2>4
      <4> QED BY <4>1, <4>2
    <3>2. CASE ~ (j > r)
      <4>1. r = 1 /\ j = 1 BY <1>2, <3>2
      <4>2. ReadingStep BY <1>4, <4>1 DEF Reported
      <4>3. Up(c) \in Reports /\ StatusStep(Up(c), c) BY <2>4, <4>1, <4>2, StatusesDiffer, ReadKinds
      <4>4. StatusMove(Up(c), c) BY <1>3, <4>3, StatusMoves
      <4>5. Running(c)' \/ Broken(c)' BY <4>4, StatusesDiffer DEF StatusMove
      <4> QED BY <4>5 DEF Running, Broken
    <3> QED BY <3>1, <3>2
  <2> QED BY <2>1, <2>2, <2>3, <2>4
<1>6. CASE fromModem'[i] \in B /\ \A j \in DOMAIN fromModem : j - r < i
  <2> DEFINE m == fromModem'[i]
  <2>1. Told(m) /\ r = 0 BY <1>4, <1>6 DEF Reported
  <2>2. m.kind = "LIST" /\ c \in m.on BY <1>1
  <2> HIDE DEF m
  <2>3. PICK order \in Requests :
          ServeStep(order) /\ m = CallList(order.token, {d \in Cids : context[d] = "on"})
    <3>1. ToldList(m)
      BY <2>1, <2>2 DEF Told, ToldRefusal, ToldDone, ToldPrepared, ToldTurn, Result,
         IpConfiguration, Up, NotUp, Down, Lost, CallStatus
    <3> QED BY <3>1 DEF ToldList
  <2>4. context[c] = "on" BY <2>2, <2>3 DEF CallList
  <2>5. Risen(c) \/ Running(c)
    BY <1>3, <2>4 DEF Room, Phases, Idle, Rising, RisenLost, NotRisen, Falling, Fallen, Broken
  <2>6. News(c)' = News(c) /\ UNCHANGED conns BY <2>3, ServeNews
  <2>7. Down(c) \notin News(c)' /\ Lost(c) \notin News(c)'
    BY <2>5, <2>6, StatusesDiffer DEF Risen, Running
  <2>8. \A j \in DOMAIN fromModem' : fromModem'[j] # Lost(c) /\ fromModem'[j] # Down(c)
    BY <2>7, StatusesDiffer DEF News, Said
  <2>9. ASSUME Risen(c) PROVE \E j \in DOMAIN fromModem' : j < i /\ fromModem'[j] = Up(c)
    <3>1. PICK j \in DOMAIN fromModem : fromModem[j] = Up(c) BY <2>9 DEF Risen, News, Said
    <3>2. j > r /\ j - r = j /\ j \in Nat BY <1>2, <2>1
    <3>3. j \in DOMAIN fromModem' /\ fromModem'[j] = Up(c) /\ j < i
      BY <1>4, <1>6, <3>1, <3>2 DEF Reported, Moved
    <3> QED BY <3>3
  <2> QED BY <2>5, <2>6, <2>8, <2>9 DEF Running
<1> QED BY <1>4, <1>5, <1>6 DEF Reported, Moved

-----------------------------------------------------------------------------
(* Answers.                                                                *)

(* A notification decides over a request that has nothing else under way.  *)
LEMMA NoMessageWithNews ==
  ASSUME TypeOK, SetupInv, Room, NEW c \in Cids, NEW t \in Token, conns[c].token = t,
         \/ /\ fromModem[1] \in {Up(c), NotUp(c)} /\ 1 \in DOMAIN fromModem
            /\ Risen(c) \/ RisenLost(c) \/ NotRisen(c)
         \/ fromModem[1] = Down(c) /\ 1 \in DOMAIN fromModem /\ Fallen(c)
  PROVE  ~ InTransit(t)
<1>0. Setups \cap Deacts = {} /\ Lists \cap (Setups \cup Deacts) = {}
  BY TokensAssumption
<1>1. DOMAIN fromModem \subseteq Nat \ {0} /\ DOMAIN toModem \subseteq Nat \ {0}
      /\ \A i \in DOMAIN fromModem : fromModem[i] \in Reports
  BY LineTypes
<1>2. ~ Idle(c) /\ ~ Running(c) /\ ~ Broken(c) /\ ~ Falling(c) /\ context[c] # "activating"
  BY StatusesDiffer DEF Idle, Running, Broken, Falling, Risen, RisenLost, NotRisen, Fallen
<1>3. ASSUME NEW j \in DOMAIN fromModem, j > 1 PROVE fromModem[j] # fromModem[1]
  <2>1. fromModem[1].kind = "STATUS" BY StatusesDiffer
  <2>2. 1 \in DOMAIN fromModem /\ j # 1 BY <1>3
  <2> QED BY <2>1, <2>2 DEF Room, SaidOnce, Once
<1>4. ASSUME NEW j \in DOMAIN fromModem, fromModem[j].kind = "LIST", fromModem[j].token = t
      PROVE  t \in Lists
  BY <1>1, <1>4, ReportKinds, TokensAssumption
<1>5. CASE /\ fromModem[1] \in {Up(c), NotUp(c)} /\ 1 \in DOMAIN fromModem
           /\ Risen(c) \/ RisenLost(c) \/ NotRisen(c)
  <2>1. t \in Setups BY <1>5 DEF Risen, RisenLost, NotRisen
  <2>2. ASSUME NEW i \in DOMAIN toModem, toModem[i].token = t PROVE FALSE
    BY <1>2, <2>1, <2>2 DEF Room, SetupOrders
  <2>3. ASSUME NEW i \in DOMAIN fromModem, fromModem[i].kind = "GEN", fromModem[i].token = t
        PROVE  FALSE
    <3>1. fromModem[i].command = "ENABLE" /\ fromModem[i].ok
      BY <1>2, <2>1, <2>3 DEF Room, SetupResults
    <3>2. Ahead(c, i) BY <2>1, <2>3, <3>1 DEF SetupInv, ResultsMatch
    <3>3. PICK j \in DOMAIN fromModem : j > i /\ fromModem[j] \in {Up(c), NotUp(c)}
      BY <1>2, <3>2 DEF Ahead, Final, Up, NotUp
    <3>4. j > 1 BY <1>1, <3>3
    <3>5. fromModem[j] \in News(c) /\ fromModem[1] \in News(c)
      BY <1>5, <3>3, StatusesDiffer DEF News, Said
    <3>6. fromModem[j] = fromModem[1]
      BY <1>5, <3>3, <3>5, StatusesDiffer DEF Risen, RisenLost, NotRisen
    <3> QED BY <1>3, <3>4, <3>6
  <2> QED BY <1>0, <1>4, <2>1, <2>2, <2>3 DEF InTransit
<1>6. CASE fromModem[1] = Down(c) /\ 1 \in DOMAIN fromModem /\ Fallen(c)
  <2>1. t \in Deacts BY <1>6 DEF Fallen
  <2>2. ASSUME NEW i \in DOMAIN toModem, toModem[i].token = t PROVE FALSE
    <3>1. toModem[i].command = "DISABLE" /\ toModem[i].cid = target[t] /\ target[t] = c
      BY <2>1, <2>2 DEF Room, Addressed
    <3> QED BY <1>2, <3>1 DEF Room, EndOrders
  <2>3. ASSUME NEW i \in DOMAIN fromModem, fromModem[i].kind = "GEN", fromModem[i].token = t
        PROVE  FALSE
    <3>1. IF fromModem[i].ok
          THEN Falling(c) \/ \E j \in DOMAIN fromModem : j > i /\ fromModem[j] = Down(c)
          ELSE Idle(c) \/ \E j \in DOMAIN fromModem : j < i /\ fromModem[j] = Lost(c)
      BY <2>1, <2>3 DEF Room, EndResults
    <3>2. ASSUME NEW j \in DOMAIN fromModem, j > i, fromModem[j] = Down(c) PROVE FALSE
      <4>1. j > 1 BY <1>1, <3>2
      <4> QED BY <1>3, <1>6, <3>2, <4>1
    <3>3. ASSUME NEW j \in DOMAIN fromModem, fromModem[j] = Lost(c) PROVE FALSE
      <4>1. Lost(c) \in News(c) BY <3>3, StatusesDiffer DEF News, Said
      <4> QED BY <1>6, <4>1, StatusesDiffer DEF Fallen
    <3> QED BY <1>2, <3>1, <3>2, <3>3
  <2> QED BY <1>0, <1>4, <2>1, <2>2, <2>3 DEF InTransit
<1> QED BY <1>5, <1>6

(* A request is answered once, and then nothing of it is left.             *)
Leaves(t) ==
  /\ ~ InTransit(t)' /\ \A c \in Cids : conns'[c].token # t
  /\ answers[t] = <<>> /\ Len(answers'[t]) = Len(answers[t]) + 1

(* A request that is answered had no answer, and leaves its message and    *)
(* its connection.                                                         *)
LEMMA AnsweredLeaves ==
  ASSUME ~ IfcFails, TypeOK, TypeOK', SetupInv, Room, Step, reclaims' = 0,
         NEW t \in Token, answers'[t] # answers[t]
  PROVE  Leaves(t)
<1>0. NoToken \notin Token BY TokensAssumption
<1>1. ASSUME NEW u, Answering(u), u \in Token \cup {NoToken}
      PROVE  u = t /\ Len(answers'[t]) = Len(answers[t]) + 1
  BY <1>1 DEF Answering
<1>2. InTransit(t)' <=> Asked(toModem', t) \/ Borne(fromModem', t)
  BY DEF InTransit, Asked, Borne, Bears
<1>3. CASE \E u \in Setups \cup Deacts : RefusedStep(u)
  <2>1. PICK u \in Setups \cup Deacts : RefusedStep(u) BY <1>3
  <2>2. u = t /\ Len(answers'[t]) = Len(answers[t]) + 1 /\ t \notin issued
    BY <1>1, <2>1 DEF RefusedStep, Token
  <2>3. ~ InTransit(t) /\ answers[t] = <<>> /\ \A c \in Cids : conns[c].token # t
    BY <2>2 DEF SetupInv, Unissued
  <2>4. InTransit(t)' <=> InTransit(t) BY <2>1 DEF RefusedStep, InTransit
  <2> QED BY <2>1, <2>2, <2>3, <2>4 DEF RefusedStep, Leaves
<1>4. ASSUME NEW m, m = fromModem[1], 1 \in DOMAIN fromModem, Bears(m, t),
             Shifted(fromModem', fromModem), toModem' = toModem
      PROVE  ~ InTransit(t)' /\ answers[t] = <<>>
  <2>1. ~ Asked(toModem, t) BY <1>4 DEF Room, OneMessage, Borne
  <2>2. ~ Borne(fromModem', t) BY <1>4 DEF Room, OneMessage, Borne, Shifted
  <2>3. InTransit(t) BY <1>4 DEF InTransit, Bears
  <2> QED BY <1>2, <1>4, <2>1, <2>2, <2>3 DEF Room, Awaited, Pending
<1>5. ASSUME NEW m \in Reports, NEW d \in Cids \cup {0}, FailedStep(m, d) PROVE Leaves(t)
  <2>1. /\ m = fromModem[1] /\ 1 \in DOMAIN fromModem /\ m.kind = "GEN" /\ m.token \in Token
        /\ Shifted(fromModem', fromModem) /\ toModem' = toModem /\ Answering(m.token)
    BY <1>5, ReportKinds DEF FailedStep, Reading, Shifted
  <2>2. m.token = t /\ Len(answers'[t]) = Len(answers[t]) + 1 BY <1>1, <2>1
  <2>3. ~ InTransit(t)' /\ answers[t] = <<>> BY <1>4, <2>1, <2>2 DEF Bears
  <2>4. ASSUME NEW c \in Cids PROVE conns'[c].token # t
    <3>1. CASE conns[c].token = t
      <4>1. d \in Cids /\ conns[d].token = t /\ (Deleted(d) \/ WithToken(d, NoToken))
        BY <1>5, <2>2, <3>1 DEF FailedStep
      <4>2. c = d BY <1>0, <3>1, <4>1 DEF SetupInv, OneConnection
      <4> QED BY <1>0, <4>1, <4>2 DEF Deleted, WithToken, Becomes
    <3>2. CASE conns[c].token # t
      BY <1>0, <1>5, <3>2 DEF FailedStep, Deleted, WithToken, Becomes
    <3> QED BY <3>1, <3>2
  <2> QED BY <2>2, <2>3, <2>4 DEF Leaves
<1>6. ASSUME NEW m \in Reports, CallListStep(m) PROVE Leaves(t)
  <2>1. /\ m = fromModem[1] /\ 1 \in DOMAIN fromModem /\ m.kind = "LIST"
        /\ m.token \in Lists \cup {NoToken}
        /\ Shifted(fromModem', fromModem) /\ toModem' = toModem /\ Answering(m.token)
        /\ conns' = conns
    BY <1>6, ReportKinds DEF CallListStep, Reading, Shifted
  <2>2. m.token = t /\ Len(answers'[t]) = Len(answers[t]) + 1 BY <1>1, <2>1 DEF Token
  <2>3. ~ InTransit(t)' /\ answers[t] = <<>> BY <1>4, <2>1, <2>2 DEF Bears
  <2>4. t \in Lists BY <1>0, <2>1, <2>2
  <2> QED BY <2>1, <2>2, <2>3, <2>4 DEF Leaves, Room, Addressed
<1>7. ASSUME NEW m \in Reports, NEW d \in Cids, StatusStep(m, d) PROVE Leaves(t)
  <2>1. StatusMove(m, d) BY <1>7, StatusMoves
  <2>2. m = fromModem[1] /\ 1 \in DOMAIN fromModem /\ Shifted(fromModem', fromModem)
    BY <1>7 DEF StatusStep, Reading, Shifted
  <2>3. ~ (m = Lost(d) /\ DroppedStatus(m, d)) BY DEF DroppedStatus
  <2>4. conns[d].token \in Token \cup {NoToken} BY ConnectionKinds DEF TypeOK
  <2>5. /\ \/ m \in {Up(d), NotUp(d)} /\ (Risen(d) \/ RisenLost(d) \/ NotRisen(d))
           \/ m = Down(d) /\ Fallen(d)
        /\ Answering(conns[d].token) /\ conns'[d].token = NoToken
        /\ \A c \in Cids \ {d} : conns'[c] = conns[c]
    BY <2>1, <2>3 DEF StatusMove, EnabledStatus, NotEnabledStatus, DisabledStatus, WithToken,
                      Deleted, Becomes
  <2>6. conns[d].token = t /\ Len(answers'[t]) = Len(answers[t]) + 1 BY <1>1, <2>4, <2>5
  <2>7. ~ InTransit(t) BY <2>2, <2>5, <2>6, NoMessageWithNews
  <2>8. ~ InTransit(t)'
    <3>1. InTransit(t)' => InTransit(t) \/ t \in issued' \ issued BY TransitKept
    <3> QED BY <1>7, <2>7, <3>1 DEF StatusStep, Reading
  <2>9. answers[t] = <<>> BY <1>0, <2>6 DEF Room, Awaited, Pending
  <2>10. \A c \in Cids : conns'[c].token # t
    BY <1>0, <2>5, <2>6 DEF SetupInv, OneConnection
  <2> QED BY <2>6, <2>8, <2>9, <2>10 DEF Leaves
<1>8. \/ answers' = answers
      \/ \E u \in Setups \cup Deacts : RefusedStep(u)
      \/ \E m \in Reports, d \in Cids \cup {0} : FailedStep(m, d)
      \/ \E m \in Reports, d \in Cids : StatusStep(m, d)
      \/ \E m \in Reports : CallListStep(m)
  BY DEF Step, SetupStep, DeactivateStep, CauseStep, ListStep, ProceedStep, IpStep, ServeStep,
         ActivateStep, ActivationFailsStep, DeactivatedStep, DropStep, TurnStep, ByTheModem
<1> QED BY <1>3, <1>5, <1>6, <1>7, <1>8

(* A token in a connection, and one in a message, is that of a request     *)
(* that waits.                                                             *)
LEMMA AwaitedKept ==
  ASSUME ~ IfcFails, TypeOK, TypeOK', SetupInv, SetupInv', Room, Step, reclaims' = 0
  PROVE  Awaited'
<1>0. NoToken \notin Token BY TokensAssumption
<1>1. ASSUME NEW t \in Token, InTransit(t)' \/ \E c \in Cids : conns'[c].token = t
      PROVE  Pending(t)'
  <2>1. t \in issued' BY <1>1 DEF SetupInv, Unissued
  <2>2. answers'[t] = answers[t] BY <1>1, AnsweredLeaves DEF Leaves
  <2>3. CASE t \notin issued
    BY <2>1, <2>2, <2>3 DEF SetupInv, Unissued, Pending
  <2>4. CASE t \in issued
    <3>1. CASE InTransit(t)'
      <4>1. InTransit(t) BY <2>4, <3>1, TransitKept
      <4> QED BY <2>1, <2>2, <4>1 DEF Room, Awaited, Pending
    <3>2. CASE \E c \in Cids : conns'[c].token = t
      <4>1. PICK c \in Cids : conns'[c].token = t BY <3>2
      <4>2. conns[c].token = t BY <1>0, <2>4, <4>1, TokensKept
      <4> QED BY <1>0, <2>1, <2>2, <4>2 DEF Room, Awaited, Pending
    <3> QED BY <1>1, <3>1, <3>2
  <2> QED BY <2>3, <2>4
<1>2. \A c \in Cids : conns'[c].token \in Token \cup {NoToken} BY ConnectionKinds DEF TypeOK
<1>3. ASSUME NEW c \in Cids, conns'[c].token # NoToken
      PROVE  conns'[c].token \in issued' /\ answers'[conns'[c].token] = <<>>
  <2> DEFINE t == conns'[c].token
  <2>1. t \in Token BY <1>2, <1>3
  <2>2. t = conns'[c].token OBVIOUS
  <2> HIDE DEF t
  <2>3. t \in issued' /\ answers'[t] = <<>> BY <1>1, <2>1, <2>2 DEF Pending
  <2> QED BY <2>3 DEF t
<1> QED BY <1>1, <1>3 DEF Awaited, Pending

(* Answers once given stay given.                                          *)
LEMMA PendingBefore ==
  ASSUME TypeOK, TypeOK', Step, NEW t \in issued, Pending(t)' PROVE Pending(t) /\ answers'[t] = <<>>
<1>1. t \in Token BY DEF TypeOK
<1> QED BY <1>1, AnswersKept DEF Pending

(* A setup that waits stays outstanding,                                   *)
LEMMA SetupsUnforgotten ==
  ASSUME ~ IfcFails, TypeOK, TypeOK', SetupInv, Room, Step, reclaims' = 0,
         NEW t \in Setups, Pending(t)'
  PROVE  Outstanding(t)'
<1>0. t \in Token /\ t # NoToken /\ t \notin Lists BY TokensAssumption DEF Token
<1>1. CASE t \notin issued BY <1>0, <1>1, NewRequests DEF Outstanding
<1>2. CASE t \in issued
  <2>1. Pending(t) /\ answers'[t] = <<>> BY <1>2, PendingBefore
  <2>2. Outstanding(t) BY <2>1 DEF Room, NoneForgotten
  <2>3. ASSUME NEW c \in Cids, conns[c].token = t, Ahead(c, 0) PROVE conns'[c].token = t
    <3>1. ~ conns[c].enabled BY <2>3 DEF SetupInv, NotYetEnabled
    <3>2. conns[c] \in Connection \cup {NoConnection} /\ conns[c].used
      BY <1>0, <2>3, ConnectionKinds DEF TypeOK
    <3>3. ~ Idle(c)
      <4>1. ASSUME NEW j \in DOMAIN fromModem, fromModem[j] \in Final(c) PROVE News(c) # {}
        <5>1. fromModem[j] \in {Up(c), NotUp(c)} BY <4>1 DEF Final, Up, NotUp
        <5>2. fromModem[j].kind = "STATUS" /\ fromModem[j].cid = c BY <5>1, StatusesDiffer
        <5> QED BY <5>2 DEF News, Said
      <4> QED BY <2>3, <4>1 DEF Ahead, Idle
    <3>4. ASSUME NEW u \in Setups, NEW d \in Cids, SetupStep(u, d) PROVE conns'[c] = conns[c]
      BY <3>2, <3>4 DEF SetupStep, Becomes
    <3>5. ASSUME NEW u \in Deacts, NEW d \in Cids, DeactivateStep(u, d) PROVE conns'[c] = conns[c]
      <4>1. c # d BY <3>1, <3>3, <3>5, DeactivateMoves
      <4> QED BY <3>5, <4>1 DEF DeactivateStep, WithToken, Becomes
    <3>6. ASSUME NEW d \in Cids, CauseStep(d) PROVE conns'[c] = conns[c]
      BY <1>0, <2>3, <3>6 DEF CauseStep, Deleted, Becomes, Room, LastFailed
    <3>7. ASSUME NEW m \in Reports, NEW d \in Cids \cup {0}, FailedStep(m, d)
          PROVE  conns'[c] = conns[c]
      <4>1. m.token # t BY <1>0, <2>1, <3>7 DEF FailedStep, Answering
      <4> QED BY <2>3, <3>7, <4>1 DEF FailedStep, Deleted, WithToken, Becomes
    <3>8. ASSUME NEW m \in Reports, NEW d \in Cids, IpStep(m, d) PROVE conns'[c].token = t
      BY <2>3, <3>8 DEF IpStep, Becomes
    <3>9. ASSUME NEW m \in Reports, NEW d \in Cids, StatusStep(m, d) PROVE conns'[c].token = t
      <4>1. conns'[c].token # t => c = d /\ (answers'[t] # <<>> \/ DroppedStatus(m, d))
        BY <1>0, <2>3, <3>9, StatusTokens
      <4> QED BY <2>1, <3>1, <4>1 DEF DroppedStatus
    <3> QED BY <2>3, <3>4, <3>5, <3>6, <3>7, <3>8, <3>9, ConnsSteps
  <2> QED BY <2>1, <2>2, <2>3, OutstandingKept
<1> QED BY <1>1, <1>2

(* a deactivation that waits has its command, or its call is ending,       *)
LEMMA DeactsUnforgotten ==
  ASSUME ~ IfcFails, TypeOK, TypeOK', SetupInv, Room, Step, reclaims' = 0,
         NEW t \in Deacts, Pending(t)'
  PROVE  InTransit(t)' \/ \E c \in Cids : conns'[c].token = t /\ (Falling(c)' \/ Fallen(c)')
<1>0. t \in Token /\ t # NoToken /\ t \notin Lists /\ t \notin Setups
  BY TokensAssumption DEF Token
<1>1. CASE t \notin issued BY <1>0, <1>1, NewRequests
<1>2. CASE t \in issued
  <2>1. Pending(t) /\ answers'[t] = <<>> BY <1>2, PendingBefore
  <2>2. InTransit(t) \/ \E c \in Cids : conns[c].token = t /\ (Falling(c) \/ Fallen(c))
    BY <2>1 DEF Room, NoneForgotten
  <2>3. CASE InTransit(t)
    <3>1. ASSUME NEW m \in Reports, NEW d \in Cids \cup {0}, FailedStep(m, d), m.token = t
          PROVE  FALSE
      BY <1>0, <2>1, <3>1 DEF FailedStep, Answering
    <3>2. ASSUME NEW m \in Reports, CallListStep(m), m.token = t PROVE FALSE
      BY <1>0, <2>1, <3>2 DEF CallListStep, Answering
    <3>3. ASSUME NEW m \in Reports, NEW d \in Cids \cup {0}, ProceedStep(m, d), m.token = t
          PROVE  d \in Cids /\ conns'[d].token = t /\ (Falling(d)' \/ Fallen(d)')
      <4>1. /\ m = fromModem[1] /\ 1 \in DOMAIN fromModem /\ m.kind = "GEN" /\ m.ok /\ d \in Cids
            /\ conns[d].token = t /\ conns' = conns /\ context' = context
            /\ Shifted(fromModem', fromModem)
        BY <3>3 DEF ProceedStep, Reading, Shifted
      <4>2. Falling(d) \/ \E j \in DOMAIN fromModem : j > 1 /\ fromModem[j] = Down(d)
        BY <3>3, <4>1 DEF Room, EndResults
      <4>3. ASSUME NEW j \in DOMAIN fromModem, fromModem[j] = Down(d) PROVE Fallen(d)
        <5>1. Down(d) \in News(d) BY <4>3, StatusesDiffer DEF News, Said
        <5>2. Down(d) \notin {Up(d), NotUp(d), Lost(d)} BY StatusesDiffer
        <5>3. /\ ~ Idle(d) /\ ~ Rising(d) /\ ~ Risen(d) /\ ~ RisenLost(d) /\ ~ NotRisen(d)
              /\ ~ Running(d) /\ ~ Falling(d) /\ ~ Broken(d)
          BY <5>1, <5>2 DEF Idle, Rising, Risen, RisenLost, NotRisen, Running, Falling, Broken
        <5> QED BY <4>1, <5>3 DEF Room, Phases
      <4>4. News(d)' = News(d) BY <4>1, NewsRead DEF Room
      <4> QED BY <4>1, <4>2, <4>3, <4>4 DEF Falling, Fallen
    <3>4. \/ InTransit(t)'
          \/ \E m \in Reports, d \in Cids \cup {0} :
               (FailedStep(m, d) \/ ProceedStep(m, d)) /\ m.token = t
          \/ \E m \in Reports : CallListStep(m) /\ m.token = t
      BY <1>0, <2>3, TransitKept
    <3> QED BY <3>1, <3>2, <3>3, <3>4
  <2>4. CASE \E c \in Cids : conns[c].token = t /\ (Falling(c) \/ Fallen(c))
    <3>1. PICK c \in Cids : conns[c].token = t /\ (Falling(c) \/ Fallen(c)) BY <2>4
    <3>2. ~ Idle(c) /\ ~ Rising(c) /\ ~ Risen(c) /\ ~ RisenLost(c) /\ ~ NotRisen(c)
          /\ ~ Running(c) /\ ~ Broken(c)
      BY <1>0, <3>1, StatusesDiffer DEF Idle, Rising, Risen, RisenLost, NotRisen, Running, Broken,
         Falling, Fallen
    <3>3. CASE Quiet(c)
      <4>1. conns'[c].token = t /\ (Falling(c)' \/ Fallen(c)')
        BY <3>1, <3>3, QuietPhases DEF Quiet
      <4> QED BY <4>1
    <3>4. CASE DeactivatedStep(c) /\ Fallen(c)'
      <4>1. conns'[c].token = t BY <3>1, <3>4 DEF DeactivatedStep, TurnStep, ByTheModem
      <4> QED BY <3>4, <4>1
    <3>5. ASSUME NEW m \in Reports, StatusStep(m, c), StatusMove(m, c) PROVE FALSE
      <4>1. DisabledStatus(m, c) BY <3>2, <3>5 DEF StatusMove
      <4> QED BY <1>0, <2>1, <3>1, <4>1 DEF DisabledStatus, Answering
    <3> QED BY <1>0, <3>1, <3>2, <3>3, <3>4, <3>5, EveryMove DEF Moves
  <2> QED BY <2>2, <2>3, <2>4
<1> QED BY <1>1, <1>2

(* and a question for the list has its message.                            *)
LEMMA ListsUnforgotten ==
  ASSUME TypeOK, TypeOK', SetupInv, Room, Step, NEW t \in Lists \ mistaken', Pending(t)'
  PROVE  InTransit(t)'
<1>0. t \in Token /\ t # NoToken /\ t \notin Setups /\ t \notin Deacts
  BY TokensAssumption DEF Token
<1>1. mistaken \subseteq mistaken'
  BY DEF Step, RefusedStep, SetupStep, DeactivateStep, CauseStep, ListStep, FailedStep, ProceedStep,
         IpStep, StatusStep, CallListStep, Reading, ServeStep, ActivateStep, ActivationFailsStep,
         DeactivatedStep, DropStep, TurnStep, ByTheModem
<1>2. CASE t \notin issued BY <1>0, <1>2, NewRequests
<1>3. CASE t \in issued
  <2>1. Pending(t) /\ answers'[t] = <<>> BY <1>3, PendingBefore
  <2>2. InTransit(t) BY <1>1, <2>1 DEF Room, NoneForgotten
  <2>3. ASSUME NEW m \in Reports, NEW d \in Cids \cup {0}, FailedStep(m, d), m.token = t
        PROVE  FALSE
    BY <1>0, <2>1, <2>3 DEF FailedStep, Answering
  <2>4. ASSUME NEW m \in Reports, CallListStep(m), m.token = t PROVE FALSE
    BY <1>0, <2>1, <2>4 DEF CallListStep, Answering
  <2>5. ASSUME NEW m \in Reports, NEW d \in Cids \cup {0}, ProceedStep(m, d), m.token = t
        PROVE  FALSE
    <3>1. m = fromModem[1] /\ 1 \in DOMAIN fromModem /\ m.kind = "GEN"
      BY <2>5 DEF ProceedStep, Reading, Shifted
    <3> QED BY <1>0, <2>5, <3>1 DEF Room, Addressed
  <2>6. \/ InTransit(t)'
        \/ \E m \in Reports, d \in Cids \cup {0} :
             (FailedStep(m, d) \/ ProceedStep(m, d)) /\ m.token = t
        \/ \E m \in Reports : CallListStep(m) /\ m.token = t
    BY <1>0, <2>2, TransitKept
  <2> QED BY <2>3, <2>4, <2>5, <2>6
<1> QED BY <1>2, <1>3

(* So no request is forgotten.                                             *)
LEMMA NoneForgottenKept ==
  ASSUME ~ IfcFails, TypeOK, TypeOK', SetupInv, Room, Step, reclaims' = 0 PROVE NoneForgotten'
BY SetupsUnforgotten, DeactsUnforgotten, ListsUnforgotten DEF NoneForgotten

(* No request is answered twice.                                           *)
LEMMA Answers1Kept ==
  ASSUME ~ IfcFails, TypeOK, TypeOK', SetupInv, Room, Step, reclaims' = 0, Answers1
  PROVE  Answers1'
<1> SUFFICES ASSUME NEW t \in Token PROVE Len(answers'[t]) <= 1 BY DEF Answers1
<1>1. CASE answers'[t] = answers[t] BY <1>1 DEF Answers1
<1>2. CASE answers'[t] # answers[t]
  <2>1. answers[t] = <<>> /\ Len(answers'[t]) = Len(answers[t]) + 1
    BY <1>2, AnsweredLeaves DEF Leaves
  <2>2. Len(answers'[t]) = 0 + 1 BY <2>1
  <2> QED BY <2>2
<1> QED BY <1>1, <1>2

-----------------------------------------------------------------------------
(* The whole invariant, for the runs that do not reclaim.                  *)
RoomInv == reclaims = 0 => Room /\ Answers1

(* The invariant is inductive with the types and that of the setups.       *)
LEMMA RoomKept ==
  ASSUME ~ IfcFails, "DISABLE" \notin Refusable, TypeOK, SetupInv, RoomInv, [Next]_vars
  PROVE  RoomInv'
<1>1. CASE UNCHANGED vars
  <2>1. /\ conns' = conns /\ lastFailed' = lastFailed /\ toModem' = toModem /\ fromModem' = fromModem
        /\ context' = context /\ target' = target /\ answers' = answers /\ issued' = issued
        /\ active' = active /\ mistaken' = mistaken /\ reclaims' = reclaims
    BY <1>1 DEF vars
  <2>2. \A c \in Cids : Quiet(c) BY <2>1 DEF Quiet, News
  <2>3. Phases' = Phases BY <2>2, QuietPhases DEF Phases
  <2>4. /\ SaidOnce' = SaidOnce /\ UpFirst' = UpFirst /\ Addresses' = Addresses
        /\ OneMessage' = OneMessage /\ Addressed' = Addressed /\ LastFailed' = LastFailed
    BY <2>1 DEF SaidOnce, UpFirst, Addresses, OneMessage, Addressed, LastFailed
  <2>5. /\ SetupOrders' = SetupOrders /\ EndOrders' = EndOrders
        /\ SetupResults' = SetupResults /\ EndResults' = EndResults
    BY <2>1 DEF SetupOrders, EndOrders, SetupResults, EndResults, Idle, Running, Broken, Falling, News
  <2>6. /\ Believed' = Believed /\ Listed' = Listed /\ Awaited' = Awaited
    BY <2>1 DEF Believed, Refreshed, ResultsBefore, OrdersBefore, Listed, Awaited, InTransit,
                Pending, Idle, News
  <2>7. NoneForgotten' = NoneForgotten /\ Answers1' = Answers1
    BY <2>1 DEF NoneForgotten, Outstanding, Ahead, InTransit, Pending, Falling, Fallen, News, Answers1
  <2> QED BY <2>1, <2>3, <2>4, <2>5, <2>6, <2>7 DEF RoomInv, Room
<1>2. CASE Next
  <2>1. TypeOK' /\ Step BY <1>2, Steps
  <2>2. SetupInv' BY <1>2, SetupInvKept
  <2> SUFFICES ASSUME reclaims' = 0 PROVE (Room /\ Answers1)' BY DEF RoomInv
  <2>3. reclaims = 0
    BY <2>1 DEF Step, RefusedStep, SetupStep, DeactivateStep, CauseStep, ListStep, FailedStep,
       ProceedStep, IpStep, StatusStep, CallListStep, Reading, ServeStep, ActivateStep,
       ActivationFailsStep, DeactivatedStep, DropStep, TurnStep, ByTheModem
  <2>4. Room /\ Answers1 BY <2>3 DEF RoomInv
  <2>5. Phases' BY <2>1, <2>4, PhasesKept
  <2>6. SaidOnce' /\ UpFirst' BY <2>1, <2>4, SaidOnceKept, UpFirstKept
  <2>7. Addresses' BY <2>1, <2>4, <2>6, AddressesKept
  <2>8. OneMessage' /\ Addressed'
    BY <2>1, <2>4, OneMessageKept, AddressedKept DEF SetupInv, Room
  <2>9. LastFailed' BY <2>1, <2>2, <2>4, LastFailedKept
  <2>10. SetupOrders' /\ EndOrders' BY <2>1, <2>2, <2>4, SetupOrdersKept, EndOrdersKept
  <2>11. SetupResults' /\ EndResults' BY <2>1, <2>2, <2>4, SetupResultsKept, EndResultsKept
  <2>12. Believed' /\ Listed' BY <2>1, <2>4, BelievedKept, ListedKept
  <2>13. Awaited' BY <2>1, <2>2, <2>4, AwaitedKept
  <2>14. NoneForgotten' /\ Answers1' BY <2>1, <2>4, NoneForgottenKept, Answers1Kept
  <2> QED BY <2>5, <2>6, <2>7, <2>8, <2>9, <2>10, <2>11, <2>12, <2>13, <2>14 DEF Room
<1> QED BY <1>1, <1>2

(* It holds in the beginning.                                              *)
LEMMA InitRoom == Init => RoomInv
<1> SUFFICES ASSUME Init PROVE Room /\ Answers1 BY DEF RoomInv
<1>1. DOMAIN toModem = {} /\ DOMAIN fromModem = {} /\ issued = {} /\ active = {} /\ lastFailed = 0
  BY DEF Init
<1>2. \A t \in Token : answers[t] = <<>> /\ ~ InTransit(t) /\ ~ Pending(t)
  BY <1>1 DEF Init, InTransit, Pending
<1>3. \A c \in Cids : conns[c].token = NoToken /\ ~ conns[c].enabled /\ context[c] = "off"
                      /\ News(c) = {}
  BY <1>1 DEF Init, NoConnection, News, Said
<1>4. NoToken \notin Token BY TokensAssumption
<1>5. Phases /\ Addresses /\ SaidOnce /\ UpFirst /\ LastFailed
  BY <1>1, <1>3 DEF Phases, Idle, Addresses, SaidOnce, Once, UpFirst, LastFailed
<1>6. OneMessage /\ Addressed
  BY <1>1, <1>3, <1>4 DEF OneMessage, Addressed, Asked, Borne, Token
<1>7. SetupOrders /\ EndOrders /\ SetupResults /\ EndResults /\ Believed /\ Listed
  BY <1>1 DEF SetupOrders, EndOrders, SetupResults, EndResults, Believed, Listed
<1>8. Awaited /\ NoneForgotten
  BY <1>2, <1>3 DEF Awaited, NoneForgotten, Token
<1>9. Answers1 BY <1>2 DEF Answers1
<1> QED BY <1>5, <1>6, <1>7, <1>8, <1>9 DEF Room

(* It holds always.                                                        *)
LEMMA RoomAlways ==
  ASSUME ~ IfcFails, "DISABLE" \notin Refusable
  PROVE  Spec => [](TypeOK /\ SetupInv /\ RoomInv)
<1>1. TypeOK /\ SetupInv /\ RoomInv /\ [Next]_vars => RoomInv' BY RoomKept
<1> QED BY <1>1, SetupsAlways, InitRoom, PTL DEF Spec

(* To be notified is to have news.                                         *)
LEMMA NotifiedIsNews == ASSUME NEW c PROVE Notified(c) <=> News(c) # {}
BY DEF Notified, News, Said

(* The address and the interface are there when they are asked for.        *)
LEMMA RoomGprsInv == ASSUME TypeOK, Room PROVE GprsInv
<1>1. EnabledHasAddress BY DEF Room, Addresses, EnabledHasAddress
<1>2. ASSUME Received("LIST"), NEW c \in Head(fromModem).on, conns[c].used
      PROVE  conns[c].interface
  <2>1. /\ Head(fromModem) = fromModem[1] /\ 1 \in DOMAIN fromModem
        /\ fromModem[1] \in Reports /\ fromModem[1].kind = "LIST"
    BY <1>2 DEF TypeOK, Received
  <2>2. DOMAIN fromModem \subseteq Nat \ {0} BY Places DEF TypeOK
  <2>3. c \in fromModem[1].on /\ c \in Cids BY <1>2, <2>1, ReportKinds
  <2>4. conns[c].enabled \/ \E j \in DOMAIN fromModem : j < 1
    BY <2>1, <2>3 DEF Room, Listed
  <2>5. conns[c].enabled BY <2>2, <2>4
  <2> QED BY <2>3, <2>5 DEF Room, Addresses
<1> QED BY <1>1, <1>2 DEF GprsInv, InterfaceKnown

(* What is outstanding is under way.                                       *)
LEMMA RoomUnforgotten == ASSUME TypeOK, SetupInv, Room PROVE NothingForgotten
<1> SUFFICES ASSUME NEW t \in Token \ mistaken, Pending(t) PROVE Underway(t)
  BY DEF NothingForgotten
<1>1. CASE InTransit(t) BY <1>1 DEF Underway
<1>2. CASE t \in Setups
  <2>1. Outstanding(t) BY <1>2 DEF Room, NoneForgotten
  <2> QED BY <2>1, OutstandingIsUnderway DEF SetupInv
<1>3. CASE \E c \in Cids : conns[c].token = t /\ (Falling(c) \/ Fallen(c))
  <2>1. PICK c \in Cids : conns[c].token = t /\ (Falling(c) \/ Fallen(c)) BY <1>3
  <2>2. ril_gprs_connection_get_token(t) = c /\ c # 0 BY <2>1, PlaceOf DEF SetupInv
  <2>3. CASE Falling(c) BY <2>2, <2>3 DEF Falling, Underway
  <2>4. CASE Fallen(c)
    <3>1. Notified(c) BY <2>4, NotifiedIsNews DEF Fallen
    <3> QED BY <2>2, <3>1 DEF Underway
  <2> QED BY <2>1, <2>3, <2>4
<1> QED BY <1>1, <1>2, <1>3 DEF Room, NoneForgotten, Token

(* The phases without news are those in which both sides agree.            *)
LEMMA RoomIsOn == ASSUME TypeOK, SetupInv, Room PROVE EnabledIsOn
<1> SUFFICES ASSUME NEW c \in Cids, ~ Notified(c)
             PROVE  conns[c].enabled <=> context[c] \in {"on", "deactivating"}
  BY DEF EnabledIsOn
<1>1. News(c) = {} BY NotifiedIsNews
<1>2. Idle(c) \/ Rising(c) \/ Running(c) \/ Falling(c)
  BY <1>1 DEF Room, Phases, Risen, RisenLost, NotRisen, Fallen, Broken
<1>3. Rising(c) => ~ conns[c].enabled BY DEF Rising, SetupInv, NotYetEnabled
<1> QED BY <1>2, <1>3 DEF Idle, Rising, Running, Falling

(* A call that is enabled has its address, and a list never names a call   *)
(* whose interface is not known: for any number of requests, places and    *)
(* drops, as long as no place was given to another request, interfaces can *)
(* be configured, and the modem does what it is told when a call is to     *)
(* end.                                                                    *)
THEOREM CallsHaveAddresses ==
  ASSUME ~ IfcFails, "DISABLE" \notin Refusable PROVE Spec => [](reclaims = 0 => GprsInv)
<1>1. TypeOK /\ RoomInv => (reclaims = 0 => GprsInv) BY RoomGprsInv DEF RoomInv
<1> QED BY <1>1, RoomAlways, PTL

(* Under the same conditions no request is forgotten: one that has no      *)
(* answer has a message under way, or its cid's context is about to change *)
(* or has changed with the notification on its way.                        *)
THEOREM NoRequestForgotten ==
  ASSUME ~ IfcFails, "DISABLE" \notin Refusable PROVE Spec => [](reclaims = 0 => NothingForgotten)
<1>1. TypeOK /\ SetupInv /\ RoomInv => (reclaims = 0 => NothingForgotten)
  BY RoomUnforgotten DEF RoomInv
<1> QED BY <1>1, RoomAlways, PTL

(* Under the same conditions no request of gprs.c is answered twice.       *)
THEOREM CallsAnsweredAtMostOnce ==
  ASSUME ~ IfcFails, "DISABLE" \notin Refusable
  PROVE  Spec => [](reclaims = 0 => AnsweredAtMostOnce)
<1>1. RoomInv => (reclaims = 0 => AnsweredAtMostOnce)
  BY DEF RoomInv, Answers1, AnsweredAtMostOnce
<1> QED BY <1>1, RoomAlways, PTL

(* Under the same conditions the driver holds a call for enabled exactly   *)
(* when the modem's context is on, unless a notification is on its way.    *)
THEOREM DriverKnowsContexts ==
  ASSUME ~ IfcFails, "DISABLE" \notin Refusable PROVE Spec => [](reclaims = 0 => EnabledIsOn)
<1>1. TypeOK /\ SetupInv /\ RoomInv => (reclaims = 0 => EnabledIsOn)
  BY RoomIsOn DEF RoomInv
<1> QED BY <1>1, RoomAlways, PTL

(* A message that was taken is missed.                                     *)
LEMMA ShiftedIsShorter ==
  ASSUME NEW S, NEW s \in Seq(S), Shifted(s, s) PROVE FALSE
<1>1. DOMAIN s = 1 .. Len(s) /\ Len(s) \in Nat /\ 1 \in DOMAIN s BY DEF Shifted
<1>2. Len(s) \in DOMAIN s BY <1>1
<1>3. Len(s) + 1 \in DOMAIN s BY <1>2 DEF Shifted
<1> QED BY <1>1, <1>3

(* A step in which nothing is read leaves every call that is enabled or    *)
(* waited for.                                                             *)
LEMMA OnlyTheModemEnds ==
  ASSUME TypeOK, Room, Step, fromModem' = fromModem,
         NEW c \in Cids, conns[c].enabled \/ Waiting(c) # {}
  PROVE  conns'[c].used
<1>1. conns[c] \in Connection \cup {NoConnection} BY DEF TypeOK
<1>2. conns[c].enabled \/ conns[c].token # NoToken BY TokensAssumption DEF Waiting
<1>3. conns[c].used BY <1>1, <1>2, ConnectionKinds
<1>4. ASSUME Shifted(fromModem', fromModem) PROVE FALSE BY <1>4, ShiftedIsShorter DEF TypeOK
<1>5. ASSUME NEW t \in Setups, NEW d \in Cids, SetupStep(t, d) PROVE conns'[c].used
  BY <1>3, <1>5 DEF SetupStep, Becomes
<1>6. ASSUME NEW t \in Deacts, NEW d \in Cids, DeactivateStep(t, d) PROVE conns'[c].used
  BY <1>3, <1>6 DEF DeactivateStep, WithToken, Becomes
<1>7. ASSUME NEW d \in Cids, CauseStep(d) PROVE conns'[c].used
  <2>1. c # d BY <1>2, <1>7 DEF CauseStep, Room, LastFailed
  <2> QED BY <1>3, <1>7, <2>1 DEF CauseStep, Deleted, Becomes
<1>8. ASSUME NEW m \in Reports, NEW d \in Cids \cup {0}, FailedStep(m, d) PROVE FALSE
  BY <1>4, <1>8 DEF FailedStep, Reading
<1>9. ASSUME NEW m \in Reports, NEW d \in Cids, IpStep(m, d) \/ StatusStep(m, d) PROVE FALSE
  BY <1>4, <1>9 DEF IpStep, StatusStep, Reading
<1> QED BY <1>3, <1>5, <1>6, <1>7, <1>8, <1>9, ConnsSteps

(* Where the bound is 0, no place is given away.                           *)
LEMMA NothingReclaimed ==
  ASSUME MaxReclaims = 0 PROVE Spec => [](reclaims = 0)
<1>1. Init => reclaims = 0 BY DEF Init
<1>2. reclaims = 0 /\ [Next]_vars => (reclaims = 0)'
  <2> SUFFICES ASSUME reclaims = 0, [Next]_vars PROVE reclaims' = 0 OBVIOUS
  <2>1. ASSUME NEW t \in Setups, ril_request_setup_data_call(t) PROVE reclaims' = 0
    BY <2>1 DEF ril_request_setup_data_call
  <2>2. ~ (\E t \in Setups : ril_request_setup_data_call(t)) => reclaims' = reclaims
    BY DEF Next, vars, ril_request_deactivate_data_call, ril_request_last_data_call_fail_cause,
       ril_request_data_call_list, Receive, ipc_gprs_complete, ipc_gprs_ip_configuration,
       ipc_gprs_call_status, ipc_gprs_pdp_context, Serve, Settle, Activate, ActivationFails,
       Deactivate, Drop, Turns, ModemOnly
  <2> QED BY <2>1, <2>2
<1> QED BY <1>1, <1>2, PTL DEF Spec

(* Where no place is given away, a call that is enabled or waited for ends *)
(* by a message of the modem only: the question after the failure's cause  *)
(* never destroys it.                                                      *)
THEOREM CallsEndByTheModem ==
  ASSUME ~ IfcFails, "DISABLE" \notin Refusable, MaxReclaims = 0 PROVE Spec => EndedByTheModem
<1> DEFINE Ended == \A c \in Cids :
      (conns[c].enabled \/ Waiting(c) # {}) /\ ~ conns'[c].used => fromModem' # fromModem
<1>1. TypeOK /\ RoomInv /\ reclaims = 0 /\ [Next]_vars => [Ended]_vars
  BY Steps, OnlyTheModemEnds DEF RoomInv
<1> QED BY <1>1, RoomAlways, NothingReclaimed, PTL DEF Spec, EndedByTheModem
=============================================================================
