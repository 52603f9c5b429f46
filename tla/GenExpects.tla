----------------------------- MODULE GenExpects -----------------------------
(***************************************************************************)
(* The IPC_GEN_PHONE_RES queue of gen.c.  Most commands that set something *)
(* are answered by the modem with the one generic message                  *)
(* IPC_GEN_PHONE_RES.  A handler that cares about that answer first stores *)
(* an expectation (the aseq and command of its message, and what to do     *)
(* with the result) in the ring ipc_gen_phone_res_expects[0x20].           *)
(*                                                                         *)
(* A ring is a record:                                                     *)
(*   last   ipc_gen_phone_res_id, the slot used most recently;             *)
(*   slot   ipc_gen_phone_res_expects;                                     *)
(*   drawn  how many expectations were ever stored (not kept by the code:  *)
(*          it is there to state how long an expectation survives).        *)
(* In a slot, how stands for the three fields func, to_complete and        *)
(* to_abort, of which each function that stores an expectation sets one.   *)
(***************************************************************************)
EXTENDS RequestTable, IpcMessages

CONSTANT NExpects   \* size of ipc_gen_phone_res_expects, 0x20 in the code

ASSUME NExpectsAssumption == NExpects \in Nat \ {0}

ExpectIds == 0 .. NExpects - 1

How == {"none", "complete", "abort"} \cup Func

ipc_gen_phone_res_expect ==
  [aseq : Ids, command : Command \cup {"NONE"}, how : How]

Ring == [last : ExpectIds, drawn : Nat, slot : [ExpectIds -> ipc_gen_phone_res_expect]]

(* What memset and ipc_gen_phone_res_clean_id leave in a slot.             *)
CleanSlot == [aseq |-> 0, command |-> "NONE", how |-> "none"]

InitialRing ==
  [last |-> 0, drawn |-> 0, slot |-> [i \in ExpectIds |-> CleanSlot]]

(* The slots are cleared; the counter ipc_gen_phone_res_id goes on.        *)
ipc_gen_phone_res_expects_init(ring) ==
  [ring EXCEPT !.slot = [i \in ExpectIds |-> CleanSlot]]

(* Mutant of ipc_gen_phone_res_id_new: the counter does not wrap.          *)
ExpectIdUnwrapped(ring) == [ring EXCEPT !.last = @ + 1, !.drawn = @ + 1]

(* The counter steps to the next slot; its result is the new ring.last.    *)
ipc_gen_phone_res_id_new(ring) ==
  [ring EXCEPT !.last = IF @ + 1 = NExpects THEN 0 ELSE @ + 1, !.drawn = @ + 1]

(* Mutant of Expecting: the aseq is not stored.                            *)
ExpectingAnyone(ring, aseq, command, how) ==
  LET new == ipc_gen_phone_res_id_new(ring)
  IN  [new EXCEPT !.slot[new.last] = [aseq |-> 0, command |-> command, how |-> how]]

(* ipc_gen_phone_res_expect_to_func, _to_complete and _to_abort: the next  *)
(* slot is taken, whatever expectation it still held.                      *)
Expecting(ring, aseq, command, how) ==
  LET new == ipc_gen_phone_res_id_new(ring)
  IN  [new EXCEPT !.slot[new.last] =
         [aseq |-> aseq, command |-> command, how |-> how]]

(* The lowest slot that holds aseq, or -1.                                 *)
ipc_gen_phone_res_get_id(ring, aseq) ==
  IF \E i \in ExpectIds : ring.slot[i].aseq = aseq
  THEN CHOOSE i \in ExpectIds : /\ ring.slot[i].aseq = aseq
                                /\ \A j \in 0 .. i - 1 : ring.slot[j].aseq # aseq
  ELSE -1

(* Mutant of ipc_gen_phone_res_clean_id: the latest expectation goes.      *)
CleanLatest(ring, id) == [ring EXCEPT !.slot[ring.last] = CleanSlot]

ipc_gen_phone_res_clean_id(ring, id) == [ring EXCEPT !.slot[id] = CleanSlot]

(* The ring still holds an expectation for this aseq and command.          *)
Expects(ring, aseq, command) ==
  \E i \in ExpectIds : /\ ring.slot[i].aseq = aseq
                       /\ ring.slot[i].command = command
                       /\ ring.slot[i].how # "none"
=============================================================================
