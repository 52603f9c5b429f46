-------------------------------- MODULE Gprs --------------------------------
(***************************************************************************)
(* Data calls, gprs.c.  SETUP_DATA_CALL takes a place of the array         *)
(* ril_gprs_connections, whose number is the cid, and leads the modem      *)
(* through up to three commands, each sent when the result of the one      *)
(* before has come in; then the modem tells of the outcome by              *)
(* notifications, which name the cid and no request.  DEACTIVATE_DATA_CALL *)
(* goes one command and one notification the same way.                     *)
(*                                                                         *)
(* Results are attributed to a connection by the request's token, and      *)
(* notifications by the cid.  A message's aseq is taken to stand for its   *)
(* request all along (NoMisdelivery of RilRequests).  Messages keep their  *)
(* order in either direction.  0xff is the aseq of the driver's own        *)
(* question for the list of calls, and that of one request in 256.         *)
(***************************************************************************)
EXTENDS Integers, Sequences, FiniteSets, FiniteSetsExt

CONSTANTS
  Setups,      \* the requests SETUP_DATA_CALL of this instance
  Deacts,      \* the requests DEACTIVATE_DATA_CALL
  Lists,       \* the requests DATA_CALL_LIST
  NCids,       \* cid_max, a capability of the modem
  PortList,    \* whether the modem has the capability port_list
  Refusable,   \* the commands the modem may refuse without a need
  IfcFails,    \* whether ifc_configure may fail
  MaxReclaims, \* bound: how often a place in use is given to another request
  MaxDrops     \* bound: how often the network drops a call

Command == {"PORT_LIST", "DEFINE", "ENABLE", "DISABLE"}
Token == Setups \cup Deacts \cup Lists
NoToken == "none"   \* the null token

ASSUME TokensAssumption ==
  /\ Setups \cap Deacts = {} /\ Lists \cap (Setups \cup Deacts) = {}
  /\ NoToken \notin Token
ASSUME CapabilitiesAssumption == NCids \in Nat \ {0} /\ PortList \in BOOLEAN
ASSUME FaultsAssumption == Refusable \subseteq Command /\ IfcFails \in BOOLEAN
ASSUME BoundsAssumption == MaxReclaims \in Nat /\ MaxDrops \in Nat

Cids == 1 .. NCids

(* A place of ril_gprs_connections: NoConnection is the null pointer; of   *)
(* interface and ip_configuration only counts whether they are set.        *)
Connection == [used : {TRUE}, token : Token \cup {NoToken}, enabled : BOOLEAN,
               interface : BOOLEAN, ip : BOOLEAN]
NoConnection == [used |-> FALSE, token |-> NoToken, enabled |-> FALSE,
                 interface |-> FALSE, ip |-> FALSE]
NewConnection(t) == [NoConnection EXCEPT !.used = TRUE, !.token = t]

VARIABLES
  conns,      \* ril_gprs_connections
  lastFailed, \* ril_state.gprs_last_failed_cid
  toModem,    \* the messages to the modem, and
  fromModem,  \*   those from it that ipc_fmt_dispatch has not seen
  context,    \* the modem's side of each cid
  target,     \* the cid each request DEACTIVATE_DATA_CALL is for
  answers,    \* the answers each request got
  issued,     \* the requests rild has made
  active,     \* the cids rild believes active
  displaced,  \* the requests that lost their connection to another request
  mistaken,   \* the requests for the list whose aseq is 0xff
  reclaims, drops

driver == <<conns, lastFailed>>
rild == <<target, answers, issued, active>>
history == <<displaced, mistaken>>
vars == <<conns, lastFailed, toModem, fromModem, context, target, answers, issued,
          active, displaced, mistaken, reclaims, drops>>

(* Messages.  The null token in a question for the list stands for 0xff.   *)
Order == [command : Command, token : Token, cid : Cids]
AskList(t) == [command |-> "LIST", token |-> t, cid |-> 1]
Result(order, ok) == [kind |-> "GEN", command |-> order.command, token |-> order.token, ok |-> ok]
IpConfiguration(c) == [kind |-> "IP", cid |-> c]
CallStatus(c, state, ok) == [kind |-> "STATUS", cid |-> c, state |-> state, ok |-> ok]
CallList(t, on) == [kind |-> "LIST", token |-> t, on |-> on]

Requests == Order \cup {AskList(t) : t \in Lists \cup {NoToken}}
Reports ==
  {Result(order, ok) : order \in Order, ok \in BOOLEAN}
  \cup {IpConfiguration(c) : c \in Cids}
  \cup {CallStatus(c, state, ok) :
          c \in Cids, state \in {"ENABLED", "DISABLED", "NOT_ENABLED"}, ok \in BOOLEAN}
  \cup {CallList(t, on) : t \in Lists \cup {NoToken}, on \in SUBSET Cids}

TypeOK ==
  /\ conns \in [Cids -> Connection \cup {NoConnection}]
  /\ lastFailed \in Cids \cup {0}
  /\ toModem \in Seq(Requests) /\ fromModem \in Seq(Reports)
  /\ context \in [Cids -> {"off", "activating", "on", "deactivating"}]
  /\ target \in [Deacts -> Cids \cup {0}]
  /\ answers \in [Token -> Seq({"SUCCESS", "GENERIC_FAILURE"})]
  /\ issued \subseteq Token /\ displaced \subseteq Token /\ mistaken \subseteq Lists /\ active \subseteq Cids
  /\ reclaims \in Nat /\ drops \in Nat

Init ==
  /\ conns = [c \in Cids |-> NoConnection]
  /\ lastFailed = 0
  /\ toModem = <<>> /\ fromModem = <<>>
  /\ context = [c \in Cids |-> "off"]
  /\ target = [t \in Deacts |-> 0]
  /\ answers = [t \in Token |-> <<>>]
  /\ issued = {} /\ active = {} /\ displaced = {} /\ mistaken = {}
  /\ reclaims = 0 /\ drops = 0

Answered(t, e) ==
  IF t = NoToken THEN answers ELSE [answers EXCEPT ![t] = Append(@, e)]
Pending(t) == t \in issued /\ answers[t] = <<>>

-----------------------------------------------------------------------------
(* The array.                                                              *)

Lowest(S) == IF S = {} THEN 0 ELSE Min(S)

FreePlace == Lowest({c \in Cids : ~ conns[c].used})

IdlePlace == Lowest({c \in Cids : ~ conns[c].enabled})

(* With no place free, one that is not enabled is taken; 0 if there is     *)
(* none either.                                                            *)
ril_gprs_connection_reg_id == IF FreePlace # 0 THEN FreePlace ELSE IdlePlace

ril_gprs_connection_del(c) == [conns EXCEPT ![c] = NoConnection]

(* The connection a token or a cid leads to, 0 for none.                   *)
ril_gprs_connection_get_token(t) ==
  Lowest({c \in Cids : conns[c].used /\ conns[c].token = t})
ril_gprs_connection_get_cid(c) == IF conns[c].used THEN c ELSE 0

-----------------------------------------------------------------------------
(* Requests.                                                               *)

(* The request that waits for the connection of a place.                   *)
Waiting(c) == {t \in Token : t = conns[c].token /\ Pending(t)}

Send(command, t, c) == Append(toModem, [command |-> command, token |-> t, cid |-> c])

ril_request_setup_data_call(t) ==
  LET id == ril_gprs_connection_reg_id
      reclaim == FreePlace = 0 /\ id # 0
  IN  /\ t \in Setups \ issued
      /\ reclaim => reclaims < MaxReclaims
      /\ issued' = issued \cup {t}
      /\ reclaims' = reclaims + (IF reclaim THEN 1 ELSE 0)
      /\ displaced' = IF reclaim THEN displaced \cup Waiting(id) ELSE displaced
      /\ IF id = 0
         THEN answers' = Answered(t, "GENERIC_FAILURE") /\ UNCHANGED <<conns, toModem>>
         ELSE /\ conns' = [conns EXCEPT ![id] = NewConnection(t)]
              /\ toModem' = Send(IF PortList THEN "PORT_LIST" ELSE "DEFINE", t, id)
              /\ UNCHANGED answers
      /\ UNCHANGED <<lastFailed, fromModem, context, target, active, mistaken, drops>>

(* rild deactivates a call it believes active, once at a time.             *)
ril_request_deactivate_data_call(t, c) ==
  /\ t \in Deacts \ issued
  /\ c \in active
  /\ \A u \in Deacts : target[u] = c => ~ Pending(u)
  /\ issued' = issued \cup {t}
  /\ target' = [target EXCEPT ![t] = c]
  /\ displaced' = displaced \cup Waiting(c)
  /\ IF ril_gprs_connection_get_cid(c) = 0
     THEN answers' = Answered(t, "GENERIC_FAILURE") /\ UNCHANGED <<conns, toModem>>
     ELSE /\ conns' = [conns EXCEPT ![c].token = t]
          /\ toModem' = Send("DISABLE", t, c)
          /\ UNCHANGED answers
  /\ UNCHANGED <<lastFailed, fromModem, context, active, mistaken, reclaims, drops>>

(* Mutant of ril_request_last_data_call_fail_cause: the cid is not         *)
(* forgotten.                                                              *)
FailCauseRepeated ==
  /\ lastFailed # 0
  /\ conns' = ril_gprs_connection_del(lastFailed)
  /\ UNCHANGED <<lastFailed, toModem, fromModem, context, rild, history, reclaims, drops>>

(* rild asks why a call failed: the connection of the last one that did is *)
(* destroyed, or the one that has its place by now.                        *)
ril_request_last_data_call_fail_cause ==
  /\ lastFailed # 0
  /\ conns' = ril_gprs_connection_del(lastFailed)
  /\ lastFailed' = 0
  /\ displaced' = displaced \cup Waiting(lastFailed)
  /\ UNCHANGED <<toModem, fromModem, context, rild, mistaken, reclaims, drops>>

(* rild asks for the list itself.                                          *)
ril_request_data_call_list(t) ==
  /\ t \in Lists \ issued
  /\ issued' = issued \cup {t}
  /\ \/ toModem' = Append(toModem, AskList(t)) /\ UNCHANGED mistaken
     \/ toModem' = Append(toModem, AskList(NoToken)) /\ mistaken' = mistaken \cup {t}
  /\ UNCHANGED <<driver, fromModem, context, target, answers, active, displaced,
                 reclaims, drops>>

-----------------------------------------------------------------------------
(* Results of the commands: ipc_gprs_port_list_complete,                   *)
(* ipc_gprs_define_pdp_context_complete and the two of                     *)
(* IPC_GPRS_PDP_CONTEXT.                                                   *)

Received(kind) == fromModem # <<>> /\ Head(fromModem).kind = kind
Taken == fromModem' = Tail(fromModem)

(* Mutant of NextCommand: the context is not enabled.                      *)
NextCommandLeftOut(command) == IF command = "PORT_LIST" THEN "DEFINE" ELSE "NONE"

(* The request goes on with its next command, if it has one.               *)
NextCommand(command) ==
  CASE command = "PORT_LIST" -> "DEFINE"
    [] command = "DEFINE"    -> "ENABLE"
    [] OTHER                 -> "NONE"

(* Mutant of Failed: rild is not told.                                     *)
FailedUntold(m, c) ==
  /\ conns' = IF c = 0 THEN conns ELSE ril_gprs_connection_del(c)
  /\ UNCHANGED <<answers, lastFailed>>

(* A command was refused, or its connection is gone.  One that was not to  *)
(* be is kept for the question after the cause; one that ought to end ends.*)
Failed(m, c) ==
  /\ answers' = Answered(m.token, "GENERIC_FAILURE")
  /\ IF c = 0 THEN UNCHANGED <<conns, lastFailed>>
     ELSE IF m.command = "DISABLE"
     THEN conns' = ril_gprs_connection_del(c) /\ UNCHANGED lastFailed
     ELSE conns' = [conns EXCEPT ![c].token = NoToken] /\ lastFailed' = c

ipc_gprs_complete ==
  LET m == Head(fromModem)
      c == ril_gprs_connection_get_token(m.token)
  IN  /\ Received("GEN") /\ Taken
      /\ IF c = 0 \/ ~ m.ok
         THEN Failed(m, c) /\ UNCHANGED toModem
         ELSE /\ toModem' = IF NextCommand(m.command) = "NONE" THEN toModem
                            ELSE Send(NextCommand(m.command), m.token, c)
              /\ UNCHANGED <<conns, lastFailed, answers>>
      /\ UNCHANGED <<context, target, issued, active, history, reclaims, drops>>

-----------------------------------------------------------------------------
(* Notifications.                                                          *)

(* Mutant of ipc_gprs_ip_configuration: it waits for the call's status.    *)
IpIfEnabled ==
  LET c == Head(fromModem).cid
  IN  /\ Received("IP") /\ Taken
      /\ conns' = IF conns[c].enabled THEN [conns EXCEPT ![c].ip = TRUE] ELSE conns
      /\ UNCHANGED <<lastFailed, toModem, context, rild, history, reclaims, drops>>

ipc_gprs_ip_configuration ==
  LET c == Head(fromModem).cid
  IN  /\ Received("IP") /\ Taken
      /\ conns' = IF conns[c].used THEN [conns EXCEPT ![c].ip = TRUE] ELSE conns
      /\ UNCHANGED <<lastFailed, toModem, context, rild, history, reclaims, drops>>

(* The branches of ipc_gprs_call_status, for a connection that exists.     *)

(* Mutant of Enabled: the connection is not marked.                        *)
EnabledUnmarked(c) ==
  /\ conns' = [conns EXCEPT ![c].interface = TRUE, ![c].token = NoToken]
  /\ answers' = Answered(conns[c].token, "SUCCESS")
  /\ active' = active \cup {c}
  /\ UNCHANGED <<lastFailed, toModem>>

(* The interface is configured and rild is told of the call.               *)
Enabled(c) ==
  /\ conns' = [conns EXCEPT ![c].enabled = TRUE, ![c].interface = TRUE,
                            ![c].token = NoToken]
  /\ answers' = Answered(conns[c].token, "SUCCESS")
  /\ active' = active \cup {c}
  /\ UNCHANGED <<lastFailed, toModem>>

(* ifc_configure fails.  The token stays.                                  *)
Unconfigured(c) ==
  /\ IfcFails
  /\ conns' = [conns EXCEPT ![c].interface = TRUE]
  /\ lastFailed' = c
  /\ answers' = Answered(conns[c].token, "GENERIC_FAILURE")
  /\ UNCHANGED <<active, toModem>>

(* Mutant of Disabled: the connection stays.                               *)
DisabledKept(c) ==
  /\ answers' = Answered(conns[c].token, "SUCCESS")
  /\ conns' = [conns EXCEPT ![c].token = NoToken]
  /\ active' = active \ {c}
  /\ UNCHANGED <<lastFailed, toModem>>

Disabled(c) ==
  /\ answers' = Answered(conns[c].token, "SUCCESS")
  /\ conns' = ril_gprs_connection_del(c)
  /\ active' = active \ {c}
  /\ UNCHANGED <<lastFailed, toModem>>

(* ril_unsol_data_call_list_changed.                                       *)
ril_unsol_data_call_list_changed == toModem' = Append(toModem, AskList(NoToken))

NotEnabled(c) ==
  /\ conns' = [conns EXCEPT ![c].token = NoToken]
  /\ lastFailed' = c
  /\ answers' = Answered(conns[c].token, "GENERIC_FAILURE")
  /\ ril_unsol_data_call_list_changed
  /\ UNCHANGED active

(* Mutants of Dropped: a request that waits is answered; or the list is    *)
(* not asked for.                                                          *)
DroppedAnswering(c) ==
  /\ conns' = ril_gprs_connection_del(c)
  /\ answers' = Answered(conns[c].token, "SUCCESS")
  /\ ril_unsol_data_call_list_changed
  /\ UNCHANGED <<lastFailed, active>>
DroppedUntold(c) ==
  /\ conns' = ril_gprs_connection_del(c)
  /\ UNCHANGED <<lastFailed, answers, active, toModem>>

Dropped(c) ==
  /\ conns' = ril_gprs_connection_del(c)
  /\ ril_unsol_data_call_list_changed
  /\ UNCHANGED <<lastFailed, answers, active>>

(* What is reported changes nothing the driver knows of.                   *)
Unexpected ==
  /\ ril_unsol_data_call_list_changed
  /\ UNCHANGED <<conns, lastFailed, answers, active>>

ipc_gprs_call_status ==
  LET m == Head(fromModem)
      x == conns[m.cid]
      waited == x.token # NoToken
  IN  /\ Received("STATUS") /\ Taken
      /\ \/ ~ x.used /\ UNCHANGED <<conns, lastFailed, answers, active, toModem>>
         \/ /\ x.used /\ m.ok
            /\ \/ /\ ~ x.enabled /\ m.state = "ENABLED" /\ waited
                  /\ Enabled(m.cid) \/ Unconfigured(m.cid)
               \/ x.enabled /\ m.state = "DISABLED" /\ waited /\ Disabled(m.cid)
               \/ /\ m.state # (IF x.enabled THEN "DISABLED" ELSE "ENABLED") \/ ~ waited
                  /\ Unexpected
         \/ /\ x.used /\ ~ m.ok
            /\ \/ ~ x.enabled /\ m.state # "ENABLED" /\ waited /\ NotEnabled(m.cid)
               \/ x.enabled /\ m.state = "DISABLED" /\ Dropped(m.cid)
               \/ /\ ~ (~ x.enabled /\ m.state # "ENABLED" /\ waited)
                  /\ ~ (x.enabled /\ m.state = "DISABLED")
                  /\ Unexpected
      /\ UNCHANGED <<context, target, issued, history, reclaims, drops>>

(* The list of calls is passed on to rild, as the answer to its request or *)
(* as news.                                                                *)
ipc_gprs_pdp_context ==
  /\ Received("LIST") /\ Taken
  /\ active' = Head(fromModem).on
  /\ answers' = Answered(Head(fromModem).token, "SUCCESS")
  /\ UNCHANGED <<driver, toModem, context, target, issued, history, reclaims, drops>>

-----------------------------------------------------------------------------
(* The modem.                                                              *)

Tell(ms) == fromModem' = fromModem \o ms
ModemOnly == UNCHANGED <<driver, rild, history, reclaims>>

(* It carries out the commands in order, refusing what it cannot do.       *)
Possible(order) ==
  CASE order.command = "ENABLE"  -> context[order.cid] = "off"
    [] order.command = "DISABLE" -> context[order.cid] = "on"
    [] OTHER                     -> TRUE

Obey(order) ==
  CASE order.command = "ENABLE"  -> [context EXCEPT ![order.cid] = "activating"]
    [] order.command = "DISABLE" -> [context EXCEPT ![order.cid] = "deactivating"]
    [] OTHER                     -> context

Serve ==
  LET order == Head(toModem)
  IN  /\ toModem # <<>>
      /\ toModem' = Tail(toModem)
      /\ \/ /\ order.command = "LIST"
            /\ Tell(<<CallList(order.token, {c \in Cids : context[c] = "on"})>>)
            /\ UNCHANGED context
         \/ /\ order.command # "LIST" /\ Possible(order)
            /\ context' = Obey(order)
            /\ Tell(<<Result(order, TRUE)>>)
         \/ /\ order.command # "LIST"
            /\ ~ Possible(order) \/ order.command \in Refusable
            /\ Tell(<<Result(order, FALSE)>>)
            /\ UNCHANGED context
      /\ ModemOnly /\ UNCHANGED drops

(* A context changes, and the driver is notified.                          *)
Turns(c, from, to, ms) ==
  /\ context[c] = from
  /\ context' = [context EXCEPT ![c] = to]
  /\ Tell(ms)
  /\ ModemOnly /\ UNCHANGED toModem

Activate(c) ==
  Turns(c, "activating", "on", <<IpConfiguration(c), CallStatus(c, "ENABLED", TRUE)>>)
  /\ UNCHANGED drops
ActivationFails(c) ==
  Turns(c, "activating", "off", <<CallStatus(c, "NOT_ENABLED", FALSE)>>) /\ UNCHANGED drops
Deactivate(c) ==
  Turns(c, "deactivating", "off", <<CallStatus(c, "DISABLED", TRUE)>>) /\ UNCHANGED drops
Drop(c) ==
  /\ drops < MaxDrops
  /\ drops' = drops + 1
  /\ Turns(c, "on", "off", <<CallStatus(c, "DISABLED", FALSE)>>)

-----------------------------------------------------------------------------
Receive ==
  \/ ipc_gprs_complete
  \/ ipc_gprs_ip_configuration
  \/ ipc_gprs_call_status
  \/ ipc_gprs_pdp_context

Settle(c) == Activate(c) \/ ActivationFails(c) \/ Deactivate(c)

Next ==
  \/ \E t \in Setups : ril_request_setup_data_call(t)
  \/ \E t \in Deacts, c \in Cids : ril_request_deactivate_data_call(t, c)
  \/ ril_request_last_data_call_fail_cause
  \/ \E t \in Lists : ril_request_data_call_list(t)
  \/ Receive
  \/ Serve
  \/ \E c \in Cids : Settle(c)
  \/ \E c \in Cids : Drop(c)

Spec == Init /\ [][Next]_vars

(* The reader thread delivers what the modem says, and the modem serves    *)
(* its messages and brings each context to an end.                         *)
Fairness == WF_vars(Receive) /\ WF_vars(Serve) /\ \A c \in Cids : WF_vars(Settle(c))

FairSpec == Spec /\ Fairness

-----------------------------------------------------------------------------
(* Properties.                                                             *)

InTransit(t) ==
  \/ \E i \in DOMAIN toModem : toModem[i].token = t
  \/ \E i \in DOMAIN fromModem :
       fromModem[i].kind \in {"GEN", "LIST"} /\ fromModem[i].token = t
Notified(c) == \E i \in DOMAIN fromModem : fromModem[i].kind = "STATUS" /\ fromModem[i].cid = c

(* The request has a command under way, or its token is in a connection    *)
(* whose context at the modem is about to change, or has changed with the  *)
(* notification still to come.                                             *)
Underway(t) ==
  \/ InTransit(t)
  \/ LET c == ril_gprs_connection_get_token(t)
     IN  c # 0 /\ (context[c] \in {"activating", "deactivating"} \/ Notified(c))

(* Every request that is not answered yet is under way, as long as no      *)
(* connection is given to another request and interfaces can be            *)
(* configured: whatever the order in which results, notifications and the  *)
(* network's drops come in.  (A question for the list of calls under the   *)
(* aseq 0xff is answered as if nobody had asked.)                          *)
NothingForgotten == \A t \in Token \ mistaken : Pending(t) => Underway(t)

(* Whatever fails, every SETUP_DATA_CALL that is not answered yet is under *)
(* way, unless it was displaced, which takes an array that is full.        *)
SetupsUnderway == \A t \in Setups \ displaced : Pending(t) => Underway(t)

(* No request is answered twice, by a result and a notification or by two  *)
(* notifications that cross it.                                            *)
AnsweredAtMostOnce == \A t \in Token : Len(answers[t]) <= 1

(* A call the driver has reported as active has an address: the            *)
(* notification that enables it found the one with the address before it,  *)
(* in the same connection.                                                 *)
EnabledHasAddress == \A c \in Cids : conns[c].enabled => conns[c].ip

(* ipc_gprs_pdp_context copies the interface's name of every call the      *)
(* modem lists as enabled and the driver has a connection for: it has one  *)
(* by then, because the list comes after the notification.                 *)
InterfaceKnown ==
  Received("LIST") =>
    \A c \in Head(fromModem).on : conns[c].used => conns[c].interface

(* The variables have their types, and a connection has what its user will *)
(* look for in it.                                                         *)
GprsInv == TypeOK /\ EnabledHasAddress /\ InterfaceKnown

(* What the driver holds for enabled is on at the modem, or else the       *)
(* notification that it is not any more is on its way; and what is on at   *)
(* the modem is enabled, or being told.                                    *)
EnabledIsOn ==
  \A c \in Cids : Notified(c) \/ (conns[c].enabled <=> context[c] \in {"on", "deactivating"})

(* A call that is enabled or being set up ends by word of the modem only:  *)
(* the question after a failure's cause, which destroys the connection of  *)
(* a cid, never finds another call at it.                                  *)
EndedByTheModem ==
  [][\A c \in Cids :
       (conns[c].enabled \/ Waiting(c) # {}) /\ ~ conns'[c].used => fromModem' # fromModem]_vars

(* In the end rild believes those calls active that are on at the modem.   *)
RildLearns ==
  []<>(\A c \in Cids : c \in active <=> context[c] \in {"on", "deactivating"})

(* Every request is answered in the end, unless it was displaced or its    *)
(* answer is taken for news.                                               *)
EveryRequestAnswered ==
  \A t \in Token : Pending(t) ~> ~ Pending(t) \/ t \in displaced \cup mistaken
=============================================================================
