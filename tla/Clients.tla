------------------------------- MODULE Clients -------------------------------
(***************************************************************************)
(* The clients of the driver and their threads (client.c, ipc.c, srs.c and *)
(* RIL_Init): fmt and rfs talk to the modem, srs accepts sound clients,    *)
(* each of which has a thread of its own.  All handlers run under          *)
(* ril_mutex, all I/O with the modem under the mutex of the client; what a *)
(* client is made of (its object) is destroyed and made again by its       *)
(* thread, without any lock.                                               *)
(*                                                                         *)
(* A thread is known by the client it serves.  A message and what is in it *)
(* are left out; an object is known by its number, of the latest one live  *)
(* says whether it has a file to read ("open"), none yet or none at all    *)
(* ("new") or is destroyed ("gone").  Once a client is freed, what it was  *)
(* like tells nothing any more.                                            *)
(***************************************************************************)
EXTENDS Integers

CONSTANTS
  Sound,      \* the threads of sound clients
  MaxLoops,   \* how often the read loop of each client is begun (5 in the code)
  MaxSends    \* bound: how many messages a handler sends

Client == {"fmt", "rfs", "srs"}
Modem == Client \ {"srs"}
Rild == "rild"          \* the thread of rild: RIL_Init, then onRequest
None == "none"

ASSUME SoundAssumption == Sound \cap (Client \cup {Rild, None}) = {}
ASSUME LoopsAssumption == MaxLoops \in [Client -> Nat \ {0}] /\ MaxSends \in Nat \ {0}

Thread == Client \cup Sound \cup {Rild}

VARIABLES
  ril_mutex, mutex,          \* who has the lock, None if nobody
  state, object, live, freed, \* of each client
  loops,                     \* the read loops its thread has left
  pc,                        \* what each thread is about to do
  ptr,                       \* the object it has looked up for a message
  left,                      \* the messages its handler has yet to send
  letin,                     \* the object there was when rild was let in, 0 if it is not
  initialised                \* ril_globals_init is done

locks == <<ril_mutex, mutex>>
clients == <<state, object, live, freed, loops>>
calls == <<ptr, left, letin>>
vars == <<locks, clients, pc, calls, initialised>>

State == {"NULL", "CREATED", "READY", "DESTROYED", "ERROR"}
Handling == {"handle", "lock", "send", "ping"}
Serving == {"recv", "dispatch"} \cup Handling
Point == {"off", "idle", "ready", "select", "failed", "destroy", "create", "opening", "end", "free"}
         \cup Client \cup {"globals"} \cup Serving

TypeOK ==
  /\ ril_mutex \in Thread \cup {None} /\ mutex \in [Modem -> Thread \cup {None}]
  /\ state \in [Client -> State] /\ object \in [Client -> Nat]
  /\ live \in [Client -> {"new", "open", "gone"}] /\ freed \in [Client -> BOOLEAN]
  /\ loops \in [Client -> Nat]
  /\ pc \in [Thread -> Point]
  /\ ptr \in [Thread -> Nat] /\ left \in [Thread -> 0 .. MaxSends] /\ letin \in Nat
  /\ initialised \in BOOLEAN

(* rild calls RIL_Init, which has the lock and begins with the first client. *)
Init ==
  /\ ril_mutex = Rild /\ mutex = [c \in Modem |-> None]
  /\ state = [c \in Client |-> "NULL"] /\ object = [c \in Client |-> 0]
  /\ live = [c \in Client |-> "gone"] /\ freed = [c \in Client |-> FALSE]
  /\ loops = MaxLoops
  /\ pc = [t \in Thread |-> IF t = Rild THEN "fmt" ELSE "off"]
  /\ ptr = [t \in Thread |-> 0] /\ left = [t \in Thread |-> 0] /\ letin = 0
  /\ initialised = FALSE

Goes(t, to) == pc' = [pc EXCEPT ![t] = to]

-----------------------------------------------------------------------------
(* RIL_Init.                                                               *)

(* How creating an object may end.  fmt may fail when it has its file, in  *)
(* powering on the modem; the object of srs is freed when it has no        *)
(* socket, though the client still points to it.                           *)
ipc_fmt_create == {<<"CREATED", "open">>, <<"ERROR", "open">>, <<"ERROR", "new">>}
ipc_rfs_create == {<<"CREATED", "open">>, <<"ERROR", "new">>}
srs_create == {<<"CREATED", "open">>, <<"ERROR", "gone">>}

(* ril_client_create tries it ten times; the last time tells.              *)
ril_client_create == [fmt |-> ipc_fmt_create, rfs |-> ipc_rfs_create, srs |-> srs_create]

After == [fmt |-> "rfs", rfs |-> "srs", srs |-> "globals"]

(* One client is created; if that fails, or no thread can be started, the  *)
(* next one follows all the same.                                          *)
StartClient(c) ==
  /\ pc[Rild] = c
  /\ object' = [object EXCEPT ![c] = 1]
  /\ \E o \in ril_client_create[c], thread \in BOOLEAN :
       /\ state' = [state EXCEPT ![c] = o[1]]
       /\ live' = [live EXCEPT ![c] = o[2]]
       /\ pc' = [pc EXCEPT ![Rild] = After[c],
                           ![c] = IF o[1] = "CREATED" /\ thread THEN "ready" ELSE "off"]
  /\ UNCHANGED <<locks, freed, loops, calls, initialised>>

InitDone ==
  /\ pc[Rild] = "globals"
  /\ initialised' = TRUE
  /\ ril_mutex' = None
  /\ Goes(Rild, "idle")
  /\ UNCHANGED <<mutex, clients, calls>>

-----------------------------------------------------------------------------
(* The thread of a client.                                                 *)

ThreadReady(c) ==
  /\ pc[c] = "ready"
  /\ state' = [state EXCEPT ![c] = "READY"]
  /\ Goes(c, "select")
  /\ UNCHANGED <<locks, object, live, freed, loops, calls, initialised>>

(* There is no file to read, or no memory for a sound client, or accept    *)
(* fails.                                                                  *)
LoopFails(c) ==
  /\ pc[c] = "select" /\ (live[c] = "new" \/ c = "srs")
  /\ Goes(c, "failed")
  /\ UNCHANGED <<locks, clients, calls, initialised>>

Accept ==
  /\ pc["srs"] = "select"
  /\ \E s \in Sound : pc[s] = "off" /\ Goes(s, "idle")
  /\ UNCHANGED <<locks, clients, calls, initialised>>

(* There is something to read, and the mutex of the client to read it.     *)
Select(c) ==
  /\ pc[c] = "select" /\ live[c] = "open" /\ mutex[c] = None
  /\ mutex' = [mutex EXCEPT ![c] = c]
  /\ Goes(c, "recv")
  /\ UNCHANGED <<ril_mutex, clients, calls, initialised>>

Recv(c) ==
  /\ pc[c] = "recv"
  /\ mutex' = [mutex EXCEPT ![c] = None]
  /\ Goes(c, "dispatch") \/ Goes(c, "failed")
  /\ UNCHANGED <<ril_mutex, clients, calls, initialised>>

(* How many messages a handler sends: for fmt as it likes; one that reads  *)
(* or writes the NV data answers, unless there is nothing in the message.  *)
ipc_rfs_nv_item == {0, 1}
Sends(c) == IF c = "rfs" THEN ipc_rfs_nv_item ELSE 0 .. MaxSends

(* ipc_fmt_dispatch and ipc_rfs_dispatch.                                  *)
Dispatch(c) ==
  /\ pc[c] = "dispatch" /\ ril_mutex = None
  /\ ril_mutex' = c
  /\ \E n \in Sends(c) : left' = [left EXCEPT ![c] = n]
  /\ Goes(c, "handle")
  /\ UNCHANGED <<mutex, clients, ptr, letin, initialised>>

(* Mutant of Failed: the state stays as it is while the object is          *)
(* destroyed.                                                              *)
FailedUnseen(c) ==
  /\ pc[c] = "failed"
  /\ Goes(c, "destroy")
  /\ UNCHANGED <<locks, clients, calls, initialised>>

Failed(c) ==
  /\ pc[c] = "failed"
  /\ state' = [state EXCEPT ![c] = "ERROR"]
  /\ Goes(c, "destroy")
  /\ UNCHANGED <<locks, object, live, freed, loops, calls, initialised>>

(* ipc_fmt_destroy, ipc_rfs_destroy, srs_destroy: the object is freed, and *)
(* the client goes on pointing to it; the state follows.                   *)
Destroyed(c) == live' = [live EXCEPT ![c] = "gone"]

Destroy(c) ==
  /\ pc[c] \in {"destroy", "end"}
  /\ Destroyed(c)
  /\ Goes(c, IF pc[c] = "destroy" THEN "create" ELSE "free")
  /\ UNCHANGED <<locks, state, object, freed, loops, calls, initialised>>

(* A new object, of which the client knows before it is more than memory.  *)
Create(c) ==
  /\ pc[c] = "create"
  /\ state' = [state EXCEPT ![c] = "DESTROYED"]
  /\ object' = [object EXCEPT ![c] = object[c] + 1]
  /\ live' = [live EXCEPT ![c] = "new"]
  /\ Goes(c, "opening")
  /\ UNCHANGED <<locks, freed, loops, calls, initialised>>

(* The tries end.  Whether they were of use or not the read loop is begun  *)
(* again, unless it was the last time.                                     *)
Opened(c) ==
  /\ pc[c] = "opening"
  /\ \E o \in ril_client_create[c] :
       /\ state' = [state EXCEPT ![c] = o[1]]
       /\ live' = [live EXCEPT ![c] = o[2]]
  /\ loops' = [loops EXCEPT ![c] = loops[c] - 1]
  /\ Goes(c, IF loops[c] = 1 THEN "end" ELSE "ready")
  /\ UNCHANGED <<locks, object, freed, calls, initialised>>

(* ril_client_free: the globals go on pointing to the client.              *)
Free(c) ==
  /\ pc[c] = "free"
  /\ state' = [state EXCEPT ![c] = "DESTROYED"]
  /\ freed' = [freed EXCEPT ![c] = TRUE]
  /\ Goes(c, "off")
  /\ UNCHANGED <<locks, object, live, loops, calls, initialised>>

-----------------------------------------------------------------------------
(* Calls from rild and from sound clients.                                 *)

(* READY or not; of a client that was freed, whatever is found there.      *)
ril_modem_check == IF freed["fmt"] THEN BOOLEAN ELSE {state["fmt"] = "READY"}

(* rild is let in and its handler runs, or it is told at once that the     *)
(* radio is not available.                                                 *)
onRequest ==
  /\ pc[Rild] = "idle" /\ ril_mutex = None
  /\ ril_mutex' = Rild
  /\ \E ready \in ril_modem_check :
       IF ready
       THEN letin' = object["fmt"] /\ \E n \in 0 .. MaxSends : left' = [left EXCEPT ![Rild] = n]
       ELSE UNCHANGED letin /\ left' = [left EXCEPT ![Rild] = 0]
  /\ Goes(Rild, "handle")
  /\ UNCHANGED <<mutex, clients, ptr, initialised>>

(* srs_dispatch: something for the modem, whatever state it is in, or a    *)
(* ping.                                                                   *)
srs_dispatch(s) ==
  /\ pc[s] = "idle" /\ ril_mutex = None
  /\ ril_mutex' = s
  /\ \/ Goes(s, "handle") /\ left' = [left EXCEPT ![s] = 1]
     \/ Goes(s, "ping") /\ UNCHANGED left
  /\ UNCHANGED <<mutex, clients, ptr, letin, initialised>>

(* The sound client is ready to take the answer.                           *)
PingAnswered(s) ==
  /\ pc[s] = "ping"
  /\ Goes(s, "handle")
  /\ UNCHANGED <<locks, clients, calls, initialised>>

SoundLeaves(s) ==
  /\ pc[s] = "idle"
  /\ Goes(s, "off")
  /\ UNCHANGED <<locks, clients, calls, initialised>>

-----------------------------------------------------------------------------
(* ipc_fmt_send and ipc_rfs_send, in three steps: the object is looked up  *)
(* before the mutex is taken.                                              *)

Target(t) == IF t = "rfs" THEN "rfs" ELSE "fmt"

(* Mutant of LookUp: a message is sent again until the client is READY.    *)
LookUpUntilReady(t) ==
  /\ pc[t] = "handle" /\ left[t] > 0
  /\ left' = [left EXCEPT ![t] = IF state[Target(t)] = "READY" THEN left[t] - 1 ELSE left[t]]
  /\ IF object[Target(t)] = 0 THEN UNCHANGED <<ptr, pc>>
     ELSE ptr' = [ptr EXCEPT ![t] = object[Target(t)]] /\ Goes(t, "lock")
  /\ UNCHANGED <<locks, clients, letin, initialised>>

LookUp(t) ==
  /\ pc[t] = "handle" /\ left[t] > 0
  /\ left' = [left EXCEPT ![t] = left[t] - 1]
  /\ IF object[Target(t)] = 0 THEN UNCHANGED <<ptr, pc>>
     ELSE ptr' = [ptr EXCEPT ![t] = object[Target(t)]] /\ Goes(t, "lock")
  /\ UNCHANGED <<locks, clients, letin, initialised>>

(* Mutant of Lock: the message is sent without the mutex.                  *)
LockNot(t) ==
  /\ pc[t] = "lock"
  /\ Goes(t, "send")
  /\ UNCHANGED <<locks, clients, calls, initialised>>

Lock(t) ==
  /\ pc[t] = "lock"
  /\ \/ mutex[Target(t)] = None /\ mutex' = [mutex EXCEPT ![Target(t)] = t]
     \/ freed[Target(t)] /\ UNCHANGED mutex
  /\ Goes(t, "send")
  /\ UNCHANGED <<ril_mutex, clients, calls, initialised>>

Send(t) ==
  /\ pc[t] = "send"
  /\ mutex' = [mutex EXCEPT ![Target(t)] = IF mutex[Target(t)] = t THEN None ELSE @]
  /\ ptr' = [ptr EXCEPT ![t] = 0]
  /\ Goes(t, "handle")
  /\ UNCHANGED <<ril_mutex, clients, left, letin, initialised>>

Return(t) ==
  /\ pc[t] = "handle" /\ left[t] = 0
  /\ ril_mutex' = None
  /\ letin' = IF t = Rild THEN 0 ELSE letin
  /\ Goes(t, IF t \in Client THEN "select" ELSE "idle")
  /\ UNCHANGED <<mutex, clients, ptr, left, initialised>>

-----------------------------------------------------------------------------

Life(c) == ThreadReady(c) \/ Failed(c) \/ Destroy(c) \/ Create(c) \/ Opened(c) \/ Free(c)

Next ==
  \/ \E c \in Client : StartClient(c) \/ LoopFails(c) \/ Life(c)
  \/ InitDone
  \/ \E c \in Modem : Select(c) \/ Recv(c) \/ Dispatch(c)
  \/ Accept
  \/ onRequest
  \/ \E s \in Sound : srs_dispatch(s) \/ PingAnswered(s) \/ SoundLeaves(s)
  \/ \E t \in Thread \ {"srs"} : LookUp(t) \/ Lock(t) \/ Send(t) \/ Return(t)

Spec == Init /\ [][Next]_vars

(* The thread that has the lock goes on when it can; when it waits for the *)
(* mutex of a client, which is held for one read at a time, it gets it     *)
(* some day; reads end, and a sound client takes its answers.              *)
Fairness ==
  /\ WF_vars(\E t \in Thread \ {"srs"} : LookUp(t) \/ Send(t) \/ Return(t))
  /\ SF_vars(\E t \in Thread \ {"srs"} : Lock(t))
  /\ WF_vars(\E c \in Modem : Recv(c))
  /\ WF_vars(\E s \in Sound : PingAnswered(s))
  /\ WF_vars(InitDone \/ \E c \in Client : StartClient(c))

FairSpec == Spec /\ Fairness

-----------------------------------------------------------------------------
(* Properties.                                                             *)

(* The lock is with the thread that runs a handler or RIL_Init, and with   *)
(* nobody else.                                                            *)
RilOwner ==
  \A t \in Thread : ril_mutex = t <=> pc[t] \in Handling \cup Client \cup {"globals"}

(* Until a client is freed its mutex is with the thread that reads from it *)
(* or writes to it.                                                        *)
MutexOwner ==
  \A c \in Modem, t \in Thread :
    ~freed[c] => (mutex[c] = t <=> \/ t = c /\ pc[c] = "recv"
                                   \/ Target(t) = c /\ pc[t] = "send")

(* From the message it reads to the last answer its handler sends, the     *)
(* thread of a client uses one object, which is there: it alone destroys   *)
(* it, and no sooner than it has done.                                     *)
OwnObject ==
  \A c \in Modem : pc[c] \in Serving =>
    /\ live[c] = "open" /\ state[c] = "READY"
    /\ pc[c] \in {"lock", "send"} => ptr[c] = object[c]

(* No handler runs before the globals are initialised, although the        *)
(* threads are started first and the modem may have something to say.      *)
InitFirst == \A t \in Thread : pc[t] \in Handling => initialised

(* Locks, objects and globals are where a thread that uses them needs them.*)
ClientsInv == TypeOK /\ RilOwner /\ MutexOwner /\ OwnObject /\ InitFirst

(* A call of rild that was let in sends to an object that is there, unless *)
(* the client has failed since, or was given up.  (It may then send to     *)
(* what is destroyed, as a sound client may at any time of a failure.)     *)
StaleOnlyAfterFailure ==
  LET current == ptr[Rild] = object["fmt"] /\ live["fmt"] # "gone"
  IN  pc[Rild] \in {"lock", "send"} =>
        current \/ object["fmt"] # letin \/ state["fmt"] # "READY" \/ freed["fmt"]

(* Every handler ends and gives up the lock, whatever the clients do, as   *)
(* long as those of the modem are not given up.                            *)
CallsReturn == ril_mutex # None ~> ril_mutex = None \/ \E c \in Modem : freed[c]
=============================================================================
