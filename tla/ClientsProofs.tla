---------------------------- MODULE ClientsProofs ----------------------------
(***************************************************************************)
(* ClientsInv and StaleOnlyAfterFailure hold for any number of sound       *)
(* clients, of loops and of messages.                                      *)
(***************************************************************************)
EXTENDS Clients, TLAPS

Reader == {"off", "ready", "select", "failed", "destroy", "create", "opening", "end", "free"}

(* What each kind of thread may be about to do.                            *)
Kinds ==
  /\ pc["srs"] \in Reader
  /\ \A c \in Modem : pc[c] \in Reader \cup (Serving \ {"ping"})
  /\ \A s \in Sound : pc[s] \in {"off", "idle"} \cup Handling
  /\ pc[Rild] \in Client \cup {"globals", "idle"} \cup (Handling \ {"ping"})

(* RIL_Init has not come to the client yet.                                *)
Ahead(c) ==
  \/ pc[Rild] = "fmt"
  \/ pc[Rild] = "rfs" /\ c # "fmt"
  \/ pc[Rild] = "srs" /\ c = "srs"

(* The thread of a client has not been started, or has loops left until it *)
(* ends.                                                                   *)
LoopsLeft ==
  \A c \in Client :
    /\ Ahead(c) => pc[c] = "off" /\ loops[c] > 0
    /\ pc[c] \notin {"off", "end", "free"} => loops[c] > 0

(* A client is READY only while its thread is in the read loop, and then   *)
(* there is an object; there is one before that, too.                      *)
ReadyIsLive ==
  \A c \in Modem :
    /\ state[c] = "READY" => pc[c] \in {"select", "failed"} \cup Serving
    /\ pc[c] \in {"ready", "select", "failed"} \cup Serving => live[c] # "gone"
    /\ pc[c] \in {"select", "failed"} => state[c] = "READY"

(* Until the globals are initialised rild is in RIL_Init.                  *)
GlobalsFirst == initialised \/ pc[Rild] \in Client \cup {"globals"}

(* A call is let in with the object there is; it looks up that one or a    *)
(* later one.                                                              *)
LetIn ==
  /\ pc[Rild] \notin Handling => letin = 0
  /\ letin # 0 => letin <= object["fmt"]
  /\ pc[Rild] \in {"lock", "send"} /\ object["fmt"] = letin => ptr[Rild] = object["fmt"]

IInv ==
  /\ TypeOK /\ Kinds
  /\ RilOwner /\ MutexOwner
  /\ LoopsLeft /\ ReadyIsLive /\ OwnObject
  /\ GlobalsFirst /\ LetIn

USE DEF Client, Modem, Rild, None, Thread, State, Handling, Serving, Point, Reader,
        locks, clients, calls, Target
USE SoundAssumption, LoopsAssumption

(* RIL_Init begins with clients that have no thread yet, and the locks are *)
(* not touched.                                                            *)
LEMMA StartClientKeeps == ASSUME IInv, NEW c \in Client, StartClient(c) PROVE IInv'
<1>1. (TypeOK /\ Kinds)'
  <2>1. PICK o \in ril_client_create[c], thread \in BOOLEAN :
          /\ state' = [state EXCEPT ![c] = o[1]]
          /\ live' = [live EXCEPT ![c] = o[2]]
          /\ pc' = [pc EXCEPT ![Rild] = After[c],
                              ![c] = IF o[1] = "CREATED" /\ thread THEN "ready" ELSE "off"]
    BY DEF StartClient
  <2>2. o[1] \in State /\ o[2] \in {"new", "open", "gone"}
    BY DEF ril_client_create, ipc_fmt_create, ipc_rfs_create, srs_create
  <2>3. After[c] \in {"rfs", "srs", "globals"} BY DEF After
  <2>4. c # Rild /\ pc'[Rild] = After[c] /\ pc'[c] \in {"ready", "off"}
    BY <2>1 DEF IInv, TypeOK, Kinds
  <2>5. \A t \in Thread \ {c, Rild} : pc'[t] = pc[t] BY <2>1 DEF IInv, TypeOK, Kinds
  <2>6. DOMAIN pc' = Thread /\ pc' = [t \in Thread |-> pc'[t]] BY <2>1 DEF IInv, TypeOK, Kinds
  <2>7. Kinds'
    <3>1. \A s \in Sound : pc'[s] = pc[s] BY <2>5
    <3>2. \A d \in Client : pc'[d] \in {pc[d], "ready", "off"} BY <2>4, <2>5
    <3> QED BY <2>3, <2>4, <3>1, <3>2 DEF IInv, Kinds
  <2>8. pc' \in [Thread -> Point]
    <3>1. \A t \in Thread : pc'[t] \in Point BY <2>3, <2>4, <2>5 DEF IInv, TypeOK
    <3> HIDE DEF Thread, Point
    <3> QED BY <3>1, <2>6
  <2>9. state' \in [Client -> State] /\ live' \in [Client -> {"new", "open", "gone"}]
    BY <2>1, <2>2 DEF IInv, TypeOK
  <2>10. TypeOK' BY <2>8, <2>9 DEF IInv, TypeOK, StartClient
  <2> QED BY <2>7, <2>10
<1>2. (RilOwner /\ MutexOwner)' BY DEF IInv, TypeOK, Kinds, RilOwner, MutexOwner, LoopsLeft,
       Ahead, StartClient, After, ril_client_create, ipc_fmt_create, ipc_rfs_create,
       srs_create
<1>3. (LoopsLeft /\ ReadyIsLive /\ OwnObject)' BY DEF IInv, TypeOK, Kinds, RilOwner,
       LoopsLeft, ReadyIsLive, OwnObject, Ahead, StartClient, After, ril_client_create,
       ipc_fmt_create, ipc_rfs_create, srs_create
<1>4. (GlobalsFirst /\ LetIn)' BY DEF IInv, TypeOK, Kinds, RilOwner, GlobalsFirst, LetIn,
       LoopsLeft, Ahead, StartClient, After, ril_client_create, ipc_fmt_create,
       ipc_rfs_create, srs_create
<1> QED BY <1>1, <1>2, <1>3, <1>4 DEF IInv

(* Only now is the lock given up, with the globals initialised.            *)
LEMMA InitDoneKeeps == ASSUME IInv, InitDone PROVE IInv'
<1>1. (TypeOK /\ Kinds)' BY DEF IInv, TypeOK, Kinds, InitDone, Goes
<1>2. (RilOwner /\ MutexOwner)' BY DEF IInv, TypeOK, Kinds, RilOwner, MutexOwner, InitDone,
       Goes
<1>3. (LoopsLeft /\ ReadyIsLive /\ OwnObject)' BY DEF IInv, TypeOK, Kinds, RilOwner,
       LoopsLeft, ReadyIsLive, OwnObject, Ahead, InitDone, Goes
<1>4. (GlobalsFirst /\ LetIn)' BY DEF IInv, TypeOK, Kinds, RilOwner, GlobalsFirst, LetIn,
       InitDone, Goes
<1> QED BY <1>1, <1>2, <1>3, <1>4 DEF IInv

(* A sound client that comes in has no lock.                               *)
LEMMA AcceptKeeps == ASSUME IInv, Accept PROVE IInv'
<1>1. (TypeOK /\ Kinds)' BY DEF IInv, TypeOK, Kinds, Accept, Goes
<1>2. (RilOwner /\ MutexOwner)' BY DEF IInv, TypeOK, Kinds, RilOwner, MutexOwner, Accept,
       Goes
<1>3. (LoopsLeft /\ ReadyIsLive /\ OwnObject)' BY DEF IInv, TypeOK, Kinds, RilOwner,
       LoopsLeft, ReadyIsLive, OwnObject, Ahead, Accept, Goes
<1>4. (GlobalsFirst /\ LetIn)' BY DEF IInv, TypeOK, Kinds, RilOwner, GlobalsFirst, LetIn,
       Accept, Goes
<1> QED BY <1>1, <1>2, <1>3, <1>4 DEF IInv

(* The read loop ends; the client is still READY.                          *)
LEMMA LoopFailsKeeps == ASSUME IInv, NEW c \in Client, LoopFails(c) PROVE IInv'
<1>1. (TypeOK /\ Kinds)' BY DEF IInv, TypeOK, Kinds, LoopFails, Goes
<1>2. (RilOwner /\ MutexOwner)' BY DEF IInv, TypeOK, Kinds, RilOwner, MutexOwner, LoopFails,
       Goes
<1>3. (LoopsLeft /\ ReadyIsLive /\ OwnObject)' BY DEF IInv, TypeOK, Kinds, RilOwner,
       LoopsLeft, ReadyIsLive, OwnObject, Ahead, LoopFails, Goes
<1>4. (GlobalsFirst /\ LetIn)' BY DEF IInv, TypeOK, Kinds, RilOwner, GlobalsFirst, LetIn,
       LoopFails, Goes
<1> QED BY <1>1, <1>2, <1>3, <1>4 DEF IInv

(* A reader takes the mutex of a client whose object it has.               *)
LEMMA SelectKeeps == ASSUME IInv, NEW c \in Modem, Select(c) PROVE IInv'
<1>1. (TypeOK /\ Kinds)' BY DEF IInv, TypeOK, Kinds, Select, Goes
<1>2. (RilOwner /\ MutexOwner)' BY DEF IInv, TypeOK, Kinds, RilOwner, MutexOwner, Select,
       Goes
<1>3. (LoopsLeft /\ ReadyIsLive /\ OwnObject)' BY DEF IInv, TypeOK, Kinds, RilOwner,
       LoopsLeft, ReadyIsLive, OwnObject, Ahead, Select, Goes
<1>4. (GlobalsFirst /\ LetIn)' BY DEF IInv, TypeOK, Kinds, RilOwner, GlobalsFirst, LetIn,
       Select, Goes
<1> QED BY <1>1, <1>2, <1>3, <1>4 DEF IInv

(* It gives it up, with a message or without.                              *)
LEMMA RecvKeeps == ASSUME IInv, NEW c \in Modem, Recv(c) PROVE IInv'
<1>1. (TypeOK /\ Kinds)'
  <2>1. CASE Goes(c, "dispatch") BY <2>1 DEF IInv, TypeOK, Kinds, Recv, Goes
  <2>2. CASE Goes(c, "failed") BY <2>2 DEF IInv, TypeOK, Kinds, Recv, Goes
  <2> QED BY <2>1, <2>2 DEF Recv
<1>2. (RilOwner /\ MutexOwner)' BY DEF IInv, TypeOK, Kinds, RilOwner, MutexOwner, Recv, Goes
<1>3. (LoopsLeft /\ ReadyIsLive /\ OwnObject)' BY DEF IInv, TypeOK, Kinds, RilOwner,
       LoopsLeft, ReadyIsLive, OwnObject, Ahead, Recv, Goes
<1>4. (GlobalsFirst /\ LetIn)' BY DEF IInv, TypeOK, Kinds, RilOwner, GlobalsFirst, LetIn,
       Recv, Goes
<1> QED BY <1>1, <1>2, <1>3, <1>4 DEF IInv

(* It takes the lock when nobody has it, so that RIL_Init is over.         *)
LEMMA DispatchKeeps == ASSUME IInv, NEW c \in Modem, Dispatch(c) PROVE IInv'
<1>1. (TypeOK /\ Kinds)' BY DEF IInv, TypeOK, Kinds, Dispatch, Goes, Sends, ipc_rfs_nv_item
<1>2. (RilOwner /\ MutexOwner)' BY DEF IInv, TypeOK, Kinds, RilOwner, MutexOwner, Dispatch,
       Goes, Sends, ipc_rfs_nv_item
<1>3. (LoopsLeft /\ ReadyIsLive /\ OwnObject)' BY DEF IInv, TypeOK, Kinds, RilOwner,
       LoopsLeft, ReadyIsLive, OwnObject, Ahead, Dispatch, Goes, Sends, ipc_rfs_nv_item
<1>4. (GlobalsFirst /\ LetIn)' BY DEF IInv, TypeOK, Kinds, RilOwner, GlobalsFirst, LetIn,
       Dispatch, Goes, Sends, ipc_rfs_nv_item
<1> QED BY <1>1, <1>2, <1>3, <1>4 DEF IInv

(* The client is READY, and there is an object.                            *)
LEMMA ThreadReadyKeeps == ASSUME IInv, NEW c \in Client, ThreadReady(c) PROVE IInv'
<1>1. (TypeOK /\ Kinds)' BY DEF IInv, TypeOK, Kinds, ThreadReady, Goes
<1>2. (RilOwner /\ MutexOwner)' BY DEF IInv, TypeOK, Kinds, RilOwner, MutexOwner,
       ThreadReady, Goes
<1>3. (LoopsLeft /\ ReadyIsLive /\ OwnObject)' BY DEF IInv, TypeOK, Kinds, RilOwner,
       LoopsLeft, ReadyIsLive, OwnObject, Ahead, ThreadReady, Goes
<1>4. (GlobalsFirst /\ LetIn)' BY DEF IInv, TypeOK, Kinds, RilOwner, GlobalsFirst, LetIn,
       ThreadReady, Goes
<1> QED BY <1>1, <1>2, <1>3, <1>4 DEF IInv

(* Before the object goes the client is not READY any more.                *)
LEMMA FailedKeeps == ASSUME IInv, NEW c \in Client, Failed(c) PROVE IInv'
<1>1. (TypeOK /\ Kinds)' BY DEF IInv, TypeOK, Kinds, Failed, Goes
<1>2. (RilOwner /\ MutexOwner)' BY DEF IInv, TypeOK, Kinds, RilOwner, MutexOwner, Failed,
       Goes
<1>3. (LoopsLeft /\ ReadyIsLive /\ OwnObject)' BY DEF IInv, TypeOK, Kinds, RilOwner,
       LoopsLeft, ReadyIsLive, OwnObject, Ahead, Failed, Goes
<1>4. (GlobalsFirst /\ LetIn)' BY DEF IInv, TypeOK, Kinds, RilOwner, GlobalsFirst, LetIn,
       Failed, Goes
<1> QED BY <1>1, <1>2, <1>3, <1>4 DEF IInv

(* The object goes; its thread does not serve, and the client is not       *)
(* READY.                                                                  *)
LEMMA DestroyKeeps == ASSUME IInv, NEW c \in Client, Destroy(c) PROVE IInv'
<1>1. (TypeOK /\ Kinds)' BY DEF IInv, TypeOK, Kinds, Destroy, Goes, Destroyed
<1>2. (RilOwner /\ MutexOwner)' BY DEF IInv, TypeOK, Kinds, RilOwner, MutexOwner, Destroy,
       Goes, Destroyed
<1>3. (LoopsLeft /\ ReadyIsLive /\ OwnObject)' BY DEF IInv, TypeOK, Kinds, RilOwner,
       LoopsLeft, ReadyIsLive, OwnObject, Ahead, Destroy, Goes, Destroyed
<1>4. (GlobalsFirst /\ LetIn)' BY DEF IInv, TypeOK, Kinds, RilOwner, GlobalsFirst, LetIn,
       Destroy, Goes, Destroyed
<1> QED BY <1>1, <1>2, <1>3, <1>4 DEF IInv

(* A new object is another one than that which rild was let in with.       *)
LEMMA CreateKeeps == ASSUME IInv, NEW c \in Client, Create(c) PROVE IInv'
<1>1. (TypeOK /\ Kinds)' BY DEF IInv, TypeOK, Kinds, Create, Goes
<1>2. (RilOwner /\ MutexOwner)' BY DEF IInv, TypeOK, Kinds, RilOwner, MutexOwner, Create,
       Goes
<1>3. (LoopsLeft /\ ReadyIsLive /\ OwnObject)' BY DEF IInv, TypeOK, Kinds, RilOwner,
       LoopsLeft, ReadyIsLive, OwnObject, Ahead, Create, Goes
<1>4. (GlobalsFirst /\ LetIn)' BY DEF IInv, TypeOK, Kinds, RilOwner, GlobalsFirst, LetIn,
       Create, Goes
<1> QED BY <1>1, <1>2, <1>3, <1>4 DEF IInv

(* A loop less is left; the thread ends with the last.                     *)
LEMMA OpenedKeeps == ASSUME IInv, NEW c \in Client, Opened(c) PROVE IInv'
<1>1. (TypeOK /\ Kinds)' BY DEF IInv, TypeOK, Kinds, LoopsLeft, Opened, Goes,
       ril_client_create, ipc_fmt_create, ipc_rfs_create, srs_create
<1>2. (RilOwner /\ MutexOwner)' BY DEF IInv, TypeOK, Kinds, RilOwner, MutexOwner, Opened,
       Goes, ril_client_create, ipc_fmt_create, ipc_rfs_create, srs_create
<1>3. (LoopsLeft /\ ReadyIsLive /\ OwnObject)' BY DEF IInv, TypeOK, Kinds, RilOwner,
       LoopsLeft, ReadyIsLive, OwnObject, Ahead, Opened, Goes, ril_client_create,
       ipc_fmt_create, ipc_rfs_create, srs_create
<1>4. (GlobalsFirst /\ LetIn)' BY DEF IInv, TypeOK, Kinds, RilOwner, GlobalsFirst, LetIn,
       Opened, Goes, ril_client_create, ipc_fmt_create, ipc_rfs_create, srs_create
<1> QED BY <1>1, <1>2, <1>3, <1>4 DEF IInv

(* Of the mutex of a client that is freed nothing is claimed.              *)
LEMMA FreeKeeps == ASSUME IInv, NEW c \in Client, Free(c) PROVE IInv'
<1>1. (TypeOK /\ Kinds)' BY DEF IInv, TypeOK, Kinds, Free, Goes
<1>2. (RilOwner /\ MutexOwner)' BY DEF IInv, TypeOK, Kinds, RilOwner, MutexOwner, Free, Goes
<1>3. (LoopsLeft /\ ReadyIsLive /\ OwnObject)' BY DEF IInv, TypeOK, Kinds, RilOwner,
       LoopsLeft, ReadyIsLive, OwnObject, Ahead, Free, Goes
<1>4. (GlobalsFirst /\ LetIn)' BY DEF IInv, TypeOK, Kinds, RilOwner, GlobalsFirst, LetIn,
       Free, Goes
<1> QED BY <1>1, <1>2, <1>3, <1>4 DEF IInv

(* rild takes the lock when nobody has it, and the object it is let in     *)
(* with is the one there is.                                               *)
LEMMA OnRequestKeeps == ASSUME IInv, onRequest PROVE IInv'
<1>1. (TypeOK /\ Kinds)'
  <2>1. PICK n \in 0 .. MaxSends :
          left' = [left EXCEPT ![Rild] = n] /\ letin' \in {letin, object["fmt"]}
    BY DEF onRequest
  <2> QED BY <2>1 DEF IInv, TypeOK, Kinds, onRequest, Goes
<1>2. (RilOwner /\ MutexOwner)' BY DEF IInv, TypeOK, Kinds, RilOwner, MutexOwner, onRequest,
       ril_modem_check, Goes
<1>3. (LoopsLeft /\ ReadyIsLive /\ OwnObject)' BY DEF IInv, TypeOK, Kinds, RilOwner,
       LoopsLeft, ReadyIsLive, OwnObject, Ahead, onRequest, ril_modem_check, Goes
<1>4. (GlobalsFirst /\ LetIn)' BY DEF IInv, TypeOK, Kinds, RilOwner, GlobalsFirst, LetIn,
       onRequest, ril_modem_check, Goes
<1> QED BY <1>1, <1>2, <1>3, <1>4 DEF IInv

(* So does a sound client.                                                 *)
LEMMA SrsDispatchKeeps == ASSUME IInv, NEW s \in Sound, srs_dispatch(s) PROVE IInv'
<1>1. (TypeOK /\ Kinds)'
  <2>1. PICK n \in {left[s], 1}, to \in {"handle", "ping"} :
          left' = [left EXCEPT ![s] = n] /\ Goes(s, to)
    BY DEF IInv, TypeOK, srs_dispatch
  <2>2. n \in 0 .. MaxSends BY DEF IInv, TypeOK
  <2> QED BY <2>1, <2>2 DEF IInv, TypeOK, Kinds, srs_dispatch, Goes
<1>2. (RilOwner /\ MutexOwner)' BY DEF IInv, TypeOK, Kinds, RilOwner, MutexOwner,
       srs_dispatch, Goes
<1>3. (LoopsLeft /\ ReadyIsLive /\ OwnObject)' BY DEF IInv, TypeOK, Kinds, RilOwner,
       LoopsLeft, ReadyIsLive, OwnObject, Ahead, srs_dispatch, Goes
<1>4. (GlobalsFirst /\ LetIn)' BY DEF IInv, TypeOK, Kinds, RilOwner, GlobalsFirst, LetIn,
       srs_dispatch, Goes
<1> QED BY <1>1, <1>2, <1>3, <1>4 DEF IInv

(* The lock stays with a ping until it is answered.                        *)
LEMMA PingKeeps == ASSUME IInv, NEW s \in Sound, PingAnswered(s) \/ SoundLeaves(s) PROVE IInv'
<1>1. (TypeOK /\ Kinds)'
  <2>1. CASE PingAnswered(s) BY <2>1 DEF IInv, TypeOK, Kinds, PingAnswered, Goes
  <2>2. CASE SoundLeaves(s) BY <2>2 DEF IInv, TypeOK, Kinds, SoundLeaves, Goes
  <2> QED BY <2>1, <2>2
<1>2. (RilOwner /\ MutexOwner)' BY DEF IInv, TypeOK, Kinds, RilOwner, MutexOwner,
       PingAnswered, SoundLeaves, Goes
<1>3. (LoopsLeft /\ ReadyIsLive /\ OwnObject)' BY DEF IInv, TypeOK, Kinds, RilOwner,
       LoopsLeft, ReadyIsLive, OwnObject, Ahead, PingAnswered, SoundLeaves, Goes
<1>4. (GlobalsFirst /\ LetIn)' BY DEF IInv, TypeOK, Kinds, RilOwner, GlobalsFirst, LetIn,
       PingAnswered, SoundLeaves, Goes
<1> QED BY <1>1, <1>2, <1>3, <1>4 DEF IInv

(* What is looked up is the object of the client at this time.             *)
LEMMA LookUpKeeps == ASSUME IInv, NEW t \in Thread \ {"srs"}, LookUp(t) PROVE IInv'
<1>1. (TypeOK /\ Kinds)'
  <2>1. left[t] - 1 \in 0 .. MaxSends BY DEF IInv, TypeOK, Kinds, LookUp
  <2>2. CASE object[Target(t)] = 0 BY <2>1, <2>2 DEF IInv, TypeOK, Kinds, LookUp
  <2>3. CASE object[Target(t)] # 0
    <3>1. object[Target(t)] \in Nat BY DEF IInv, TypeOK
    <3>2. pc' = [pc EXCEPT ![t] = "lock"] /\ ptr' = [ptr EXCEPT ![t] = object[Target(t)]]
      BY <2>3 DEF LookUp, Goes
    <3> QED BY <2>1, <3>1, <3>2 DEF IInv, TypeOK, Kinds, LookUp
  <2> QED BY <2>2, <2>3
<1>2. (RilOwner /\ MutexOwner)' BY DEF IInv, TypeOK, Kinds, RilOwner, MutexOwner, LookUp,
       Goes
<1>3. (LoopsLeft /\ ReadyIsLive /\ OwnObject)' BY DEF IInv, TypeOK, Kinds, RilOwner,
       LoopsLeft, ReadyIsLive, OwnObject, Ahead, LookUp, Goes
<1>4. (GlobalsFirst /\ LetIn)' BY DEF IInv, TypeOK, Kinds, RilOwner, GlobalsFirst, LetIn,
       LookUp, Goes
<1> QED BY <1>1, <1>2, <1>3, <1>4 DEF IInv

(* The mutex is taken when nobody has it, or is that of a freed client.    *)
LEMMA LockKeeps == ASSUME IInv, NEW t \in Thread \ {"srs"}, Lock(t) PROVE IInv'
<1>1. (TypeOK /\ Kinds)' BY DEF IInv, TypeOK, Kinds, Lock, Goes
<1>2. (RilOwner /\ MutexOwner)' BY DEF IInv, TypeOK, Kinds, RilOwner, MutexOwner, Lock, Goes
<1>3. (LoopsLeft /\ ReadyIsLive /\ OwnObject)' BY DEF IInv, TypeOK, Kinds, RilOwner,
       LoopsLeft, ReadyIsLive, OwnObject, Ahead, Lock, Goes
<1>4. (GlobalsFirst /\ LetIn)' BY DEF IInv, TypeOK, Kinds, RilOwner, GlobalsFirst, LetIn,
       Lock, Goes
<1> QED BY <1>1, <1>2, <1>3, <1>4 DEF IInv

(* The mutex is given up by the one who has it.                            *)
LEMMA SendKeeps == ASSUME IInv, NEW t \in Thread \ {"srs"}, Send(t) PROVE IInv'
<1>1. (TypeOK /\ Kinds)' BY DEF IInv, TypeOK, Kinds, Send, Goes
<1>2. (RilOwner /\ MutexOwner)' BY DEF IInv, TypeOK, Kinds, RilOwner, MutexOwner, Send, Goes
<1>3. (LoopsLeft /\ ReadyIsLive /\ OwnObject)' BY DEF IInv, TypeOK, Kinds, RilOwner,
       LoopsLeft, ReadyIsLive, OwnObject, Ahead, Send, Goes
<1>4. (GlobalsFirst /\ LetIn)' BY DEF IInv, TypeOK, Kinds, RilOwner, GlobalsFirst, LetIn,
       Send, Goes
<1> QED BY <1>1, <1>2, <1>3, <1>4 DEF IInv

(* The lock is given up by the one who has it.                             *)
LEMMA ReturnKeeps == ASSUME IInv, NEW t \in Thread \ {"srs"}, Return(t) PROVE IInv'
<1>1. (TypeOK /\ Kinds)' BY DEF IInv, TypeOK, Kinds, Return, Goes
<1>2. (RilOwner /\ MutexOwner)' BY DEF IInv, TypeOK, Kinds, RilOwner, MutexOwner, Return,
       Goes
<1>3. (LoopsLeft /\ ReadyIsLive /\ OwnObject)' BY DEF IInv, TypeOK, Kinds, RilOwner,
       LoopsLeft, ReadyIsLive, OwnObject, Ahead, Return, Goes
<1>4. (GlobalsFirst /\ LetIn)' BY DEF IInv, TypeOK, Kinds, RilOwner, GlobalsFirst, LetIn,
       Return, Goes
<1> QED BY <1>1, <1>2, <1>3, <1>4 DEF IInv

(* Before anything runs no lock is taken and every client has an object it *)
(* may use.                                                                *)
LEMMA InitKeeps == Init => IInv
<1> SUFFICES ASSUME Init PROVE IInv OBVIOUS
<1>1. TypeOK
  <2>1. loops \in [Client -> Nat]
    <3>1. MaxLoops \in [Client -> Nat \ {0}] OBVIOUS
    <3> HIDE DEF Client
    <3> QED BY <3>1 DEF Init
  <2>2. pc \in [Thread -> Point] BY DEF Init
  <2>3. state \in [Client -> State] /\ object \in [Client -> Nat]
        /\ live \in [Client -> {"new", "open", "gone"}] /\ freed \in [Client -> BOOLEAN]
    BY DEF Init
  <2>4. ptr \in [Thread -> Nat] /\ left \in [Thread -> 0 .. MaxSends] BY DEF Init
  <2>5. mutex \in [Modem -> Thread \cup {None}] /\ ril_mutex \in Thread \cup {None} BY DEF Init
  <2> QED BY <2>1, <2>2, <2>3, <2>4, <2>5 DEF Init, TypeOK
<1>2. Kinds /\ RilOwner /\ MutexOwner BY DEF Init, Kinds, RilOwner, MutexOwner
<1>3. LoopsLeft /\ ReadyIsLive
  <2>1. \A c \in Client : pc[c] = "off" /\ loops[c] > 0 /\ state[c] = "NULL" BY DEF Init
  <2> QED BY <2>1 DEF LoopsLeft, Ahead, ReadyIsLive
<1>4. OwnObject
  <2>1. \A c \in Modem : pc[c] = "off" BY DEF Init
  <2> QED BY <2>1 DEF OwnObject
<1>5. GlobalsFirst /\ LetIn
  <2>1. pc[Rild] = "fmt" /\ letin = 0 BY DEF Init
  <2> QED BY <2>1 DEF GlobalsFirst, LetIn
<1> QED BY <1>1, <1>2, <1>3, <1>4, <1>5 DEF IInv

(* Every step keeps the invariant.                                         *)
LEMMA NextKeeps == IInv /\ [Next]_vars => IInv'
<1> SUFFICES ASSUME IInv, [Next]_vars PROVE IInv' OBVIOUS
<1>1. CASE UNCHANGED vars
  BY <1>1 DEF vars, IInv, TypeOK, Kinds, RilOwner, MutexOwner, LoopsLeft, Ahead, ReadyIsLive,
              OwnObject, GlobalsFirst, LetIn
<1>2. CASE InitDone \/ Accept \/ onRequest
  BY <1>2, InitDoneKeeps, AcceptKeeps, OnRequestKeeps
<1>3. ASSUME NEW c \in Client, StartClient(c) \/ LoopFails(c) \/ Life(c) PROVE IInv'
  <2> HIDE DEF Client
  <2> QED BY <1>3, StartClientKeeps, LoopFailsKeeps, ThreadReadyKeeps, FailedKeeps, DestroyKeeps,
             CreateKeeps, OpenedKeeps, FreeKeeps DEF Life
<1>4. ASSUME NEW c \in Modem, Select(c) \/ Recv(c) \/ Dispatch(c) PROVE IInv'
  BY <1>4, SelectKeeps, RecvKeeps, DispatchKeeps
<1>5. ASSUME NEW s \in Sound, srs_dispatch(s) \/ PingAnswered(s) \/ SoundLeaves(s) PROVE IInv'
  BY <1>5, SrsDispatchKeeps, PingKeeps
<1>6. ASSUME NEW t \in Thread \ {"srs"}, LookUp(t) \/ Lock(t) \/ Send(t) \/ Return(t) PROVE IInv'
  BY <1>6, LookUpKeeps, LockKeeps, SendKeeps, ReturnKeeps
<1> HIDE DEF Client, Modem, Thread
<1> QED BY <1>1, <1>2, <1>3, <1>4, <1>5, <1>6 DEF Next

(* So it holds in every state.                                             *)
LEMMA IInvAlways == Spec => []IInv
BY InitKeeps, NextKeeps, PTL DEF Spec

(* Locks, objects and globals are where a thread needs them: the mutexes   *)
(* and ril_mutex have the owners the code means them to have, a reader     *)
(* uses its own live object, and no handler runs before RIL_Init is done.  *)
THEOREM ClientsAreSafe == Spec => []ClientsInv
<1>1. IInv => ClientsInv
  <2> SUFFICES ASSUME IInv PROVE ClientsInv OBVIOUS
  <2>1. InitFirst
    <3> SUFFICES ASSUME NEW t \in Thread, pc[t] \in Handling, ~initialised PROVE FALSE
      BY DEF IInv, TypeOK, InitFirst
    <3>1. ril_mutex = Rild BY DEF IInv, RilOwner, GlobalsFirst
    <3>2. t = Rild BY <3>1 DEF IInv, RilOwner
    <3> QED BY <3>2 DEF IInv, GlobalsFirst
  <2> QED BY <2>1 DEF IInv, ClientsInv
<1> QED BY <1>1, IInvAlways, PTL

(* A call of rild that was let in sends to an object that is there, unless *)
(* the client has failed since, or was given up.                           *)
THEOREM StaleSendsFollowFailures == Spec => []StaleOnlyAfterFailure
<1>1. IInv => StaleOnlyAfterFailure
  BY DEF IInv, TypeOK, LetIn, ReadyIsLive, StaleOnlyAfterFailure
<1> QED BY <1>1, IInvAlways, PTL
=============================================================================
