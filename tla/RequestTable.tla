---------------------------- MODULE RequestTable ----------------------------
(***************************************************************************)
(* The request tokens of samsung-ril.c.  rild names each request by an     *)
(* opaque RIL_Token; the modem names it by the 8-bit sequence number       *)
(* "aseq".  ril_requests_tokens[0x100] translates between the two: an      *)
(* aseq is an index of the array, drawn from a counter that wraps, and the *)
(* slot keeps the token and a flag telling whether rild cancelled it.      *)
(*                                                                         *)
(* A table is a record:                                                    *)
(*   last   ril_request_id, the index drawn most recently, or NIds when a  *)
(*          draw without the lock has counted up and not yet wrapped;      *)
(*   slot   ril_requests_tokens;                                           *)
(*   drawn  how many indexes were ever drawn.  The code keeps no such      *)
(*          count: it is there to state how long an aseq stays valid.      *)
(* An operator named after a C function returns what the function leaves   *)
(* in the table, or what it returns, as its comment says.                  *)
(***************************************************************************)
EXTENDS Integers

CONSTANTS
  NIds,     \* size of ril_requests_tokens, 0x100 in the code
  Token,    \* the RIL_Tokens rild may hand over
  NoToken   \* the null token, (RIL_Token) 0x00

ASSUME NIdsAssumption == NIds \in Nat /\ NIds >= 2
ASSUME NoTokenAssumption == NoToken \notin Token

Ids == 0 .. NIds - 1

ril_request_token == [token : Token \cup {NoToken}, canceled : BOOLEAN]

Table == [last : 0 .. NIds, drawn : Nat, slot : [Ids -> ril_request_token]]

(* What memset leaves in a slot.                                           *)
BlankSlot == [token |-> NoToken, canceled |-> FALSE]

InitialTable == [last |-> 0, drawn |-> 0, slot |-> [i \in Ids |-> BlankSlot]]

(* n %= NIds, for a counter n that has been counted up to NIds + 1 at most. *)
Wrapped(n) == IF n >= NIds THEN n - NIds ELSE n

(* Mutant of ril_request_id_new: it wraps one index too early.             *)
IdNewWrapsEarly(tb) ==
  [tb EXCEPT !.last = IF @ + 2 >= NIds THEN 0 ELSE @ + 1, !.drawn = @ + 1]

(* The slots are cleared; the counter ril_request_id goes on.              *)
ril_requests_tokens_init(tb) == [tb EXCEPT !.slot = [i \in Ids |-> BlankSlot]]

(* The counter steps to the next index; its result is the new tb.last.     *)
ril_request_id_new(tb) ==
  [tb EXCEPT !.last = Wrapped(@ + 1), !.drawn = @ + 1]

(* Mutant of ril_request_reg_id: the flag of the former request stays.     *)
RegIdKeepingFlag(tb, t) ==
  LET new == ril_request_id_new(tb)
  IN  [new EXCEPT !.slot[new.last].token = t]

(* The next index is drawn for t, whatever the slot held before.           *)
ril_request_reg_id(tb, t) ==
  LET new == ril_request_id_new(tb)
  IN  [new EXCEPT !.slot[new.last] = [token |-> t, canceled |-> FALSE]]

IsRegistered(tb, t) == \E i \in Ids : tb.slot[i].token = t

(* Mutant of Registered: a token is registered again at every lookup.      *)
RegisteredAnew(tb, t) == ril_request_reg_id(tb, t)

(* ril_request_get_id registers a token it does not find: this is what it  *)
(* leaves in the table ...                                                 *)
Registered(tb, t) == IF IsRegistered(tb, t) THEN tb ELSE ril_request_reg_id(tb, t)

(* ... and this is the index it returns: the lowest one that holds t.      *)
ril_request_get_id(tb, t) ==
  LET slot == Registered(tb, t).slot
  IN  CHOOSE i \in Ids : /\ slot[i].token = t
                         /\ \A j \in 0 .. i - 1 : slot[j].token # t

ril_request_get_token(tb, id) == tb.slot[id].token

ril_request_get_canceled(tb, t) ==
  Registered(tb, t).slot[ril_request_get_id(tb, t)].canceled

(* The number of the draw that gave index i its present use: draws are     *)
(* numbered from 1, and index tb.last was given by draw tb.drawn.          *)
DrawOf(tb, i) == tb.drawn - (IF i <= tb.last THEN tb.last - i ELSE tb.last - i + NIds)

(* Draw number d is recent while the counter has not come round to its     *)
(* index again.                                                            *)
InWindow(tb, d) == tb.drawn - d < NIds
=============================================================================
