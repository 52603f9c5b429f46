-------------------------- MODULE RilRequestsProofs --------------------------
(***************************************************************************)
(* Theorems about RilRequests, for every size of the table and the ring,   *)
(* any set of tokens and requests, whatever the modem does and with no     *)
(* bound on how long the counters run.                                     *)
(***************************************************************************)
EXTENDS RilRequests, WellFoundedInduction, SequenceTheorems, TLAPS

(***************************************************************************)
(* The table of request tokens, the IPC_GEN_PHONE_RES ring, and the        *)
(* scripts of the handlers: every entry of the switch of onRequest sends   *)
(* messages of the right kind, stores expectations and gives answers that  *)
(* exist, and does neither without having asked for an aseq.               *)
(***************************************************************************)

(* The table of request tokens.                                            *)

(* No token stands in two slots.                                           *)
Unique(tb) ==
  \A i, j \in Ids : tb.slot[i].token = tb.slot[j].token =>
                      i = j \/ tb.slot[i].token = NoToken

(* Drawing an index keeps the table typed and gives an index of the table. *)
LEMMA NewIdTyped ==
  ASSUME NEW tb \in Table
  PROVE  /\ ril_request_id_new(tb) \in Table
         /\ ril_request_id_new(tb).last \in Ids
         /\ ril_request_id_new(tb).drawn = tb.drawn + 1
         /\ ril_request_id_new(tb).slot = tb.slot
<1> DEFINE new == ril_request_id_new(tb)
<1>1. /\ tb.last \in 0 .. NIds /\ tb.drawn \in Nat
      /\ tb.slot \in [Ids -> ril_request_token]
  BY DEF Table
<1>2. /\ new.last = Wrapped(tb.last + 1)
      /\ new.drawn = tb.drawn + 1
      /\ new.slot = tb.slot
  BY <1>1 DEF ril_request_id_new, Table
<1>3. new.last \in Ids /\ new.last \in 0 .. NIds /\ new.drawn \in Nat
  <2>1. \A n \in 0 .. NIds : Wrapped(n + 1) \in 0 .. NIds - 1 /\ Wrapped(n + 1) \in 0 .. NIds
    BY NIdsAssumption DEF Wrapped
  <2> QED BY <1>1, <1>2, <2>1 DEF Ids
<1>4. \A l \in 0 .. NIds, d \in Nat : [tb EXCEPT !.last = l, !.drawn = d] \in Table
  BY DEF Table
<1>5. new = [tb EXCEPT !.last = new.last, !.drawn = new.drawn]
  BY <1>1, <1>2 DEF ril_request_id_new, Table
<1> HIDE DEF new
<1>6. new \in Table BY <1>3, <1>4, <1>5, Zenon
<1> QED BY <1>2, <1>3, <1>6 DEF new

(* Registering t writes the slot drawn for it and no other.                *)
LEMMA RegId ==
  ASSUME NEW tb \in Table, NEW t \in Token
  PROVE  LET reg == ril_request_reg_id(tb, t)
         IN  /\ reg \in Table
             /\ reg.last = ril_request_id_new(tb).last
             /\ reg.last \in Ids
             /\ reg.drawn = tb.drawn + 1
             /\ reg.slot[reg.last] = [token |-> t, canceled |-> FALSE]
             /\ \A i \in Ids : i # reg.last => reg.slot[i] = tb.slot[i]
<1> DEFINE new == ril_request_id_new(tb)
<1>1. new \in Table /\ new.last \in Ids /\ new.drawn = tb.drawn + 1 /\ new.slot = tb.slot
  BY NewIdTyped
<1>2. [token |-> t, canceled |-> FALSE] \in ril_request_token
  BY DEF ril_request_token
<1>3. ril_request_reg_id(tb, t) =
        [new EXCEPT !.slot[new.last] = [token |-> t, canceled |-> FALSE]]
  BY DEF ril_request_reg_id
<1> HIDE DEF new
<1>4. new.slot \in [Ids -> ril_request_token] /\ DOMAIN new = {"last", "drawn", "slot"}
  BY <1>1 DEF Table
<1>5. ril_request_reg_id(tb, t) =
        [last |-> new.last, drawn |-> new.drawn,
         slot |-> [new.slot EXCEPT ![new.last] = [token |-> t, canceled |-> FALSE]]]
  BY <1>1, <1>3, <1>4 DEF Table
<1>6. [new.slot EXCEPT ![new.last] = [token |-> t, canceled |-> FALSE]]
        \in [Ids -> ril_request_token]
  BY <1>2, <1>4
<1>7. new.drawn \in Nat /\ new.last \in 0 .. NIds BY <1>1 DEF Table
<1>8. ril_request_reg_id(tb, t) \in Table BY <1>1, <1>5, <1>6, <1>7 DEF Table
<1> QED BY <1>1, <1>4, <1>5, <1>8 DEF new

(* Registered leaves t in the table, and keeps its tokens apart.           *)
LEMMA RegisteredHolds ==
  ASSUME NEW tb \in Table, NEW t \in Token
  PROVE  /\ Registered(tb, t) \in Table
         /\ \E i \in Ids : Registered(tb, t).slot[i].token = t
         /\ tb.last \in Ids => Registered(tb, t).last \in Ids
         /\ Unique(tb) => Unique(Registered(tb, t))
<1>1. CASE IsRegistered(tb, t)
  BY <1>1 DEF Registered, IsRegistered
<1>2. CASE ~ IsRegistered(tb, t)
  <2> DEFINE reg == ril_request_reg_id(tb, t)
  <2>1. Registered(tb, t) = reg BY <1>2 DEF Registered
  <2>2. /\ reg \in Table
        /\ reg.slot[reg.last] = [token |-> t, canceled |-> FALSE]
        /\ \A i \in Ids : i # reg.last => reg.slot[i] = tb.slot[i]
    BY RegId
  <2>3. reg.last \in Ids BY RegId
  <2>4. \A i \in Ids : tb.slot[i].token # t BY <1>2 DEF IsRegistered
  <2> HIDE DEF reg
  <2>5. \E i \in Ids : reg.slot[i].token = t BY <2>2, <2>3
  <2>6. Unique(tb) => Unique(reg) BY <2>2, <2>3, <2>4 DEF Unique
  <2> QED BY <2>1, <2>2, <2>3, <2>5, <2>6
<1> QED BY <1>1, <1>2

(* A set of naturals that is not empty has a least element.                *)
LEMMA LeastNatural ==
  ASSUME NEW S \in SUBSET Nat, S # {}
  PROVE  \E n \in S : \A m \in S : ~ (m < n)
<1> DEFINE R == {ss \in Nat \X Nat : ss[1] < ss[2]}
<1>1. IsWellFoundedOn(R, Nat) BY NatLessThanWellFounded DEF OpToRel
<1> HIDE DEF R
<1>2. \E n \in S : \A m \in S : <<m, n>> \notin R BY <1>1, WFMin
<1> QED BY <1>2 DEF R

(* ril_request_get_id returns a slot that holds the token.                 *)
LEMMA GetId ==
  ASSUME NEW tb \in Table, NEW t \in Token
  PROVE  /\ ril_request_get_id(tb, t) \in Ids
         /\ Registered(tb, t).slot[ril_request_get_id(tb, t)].token = t
<1> DEFINE slot == Registered(tb, t).slot
           Least(i) == slot[i].token = t /\ \A j \in 0 .. i - 1 : slot[j].token # t
           S == {i \in Ids : slot[i].token = t}
<1>1. S # {} BY RegisteredHolds
<1>2. S \in SUBSET Nat BY NIdsAssumption DEF Ids
<1>3. PICK i \in S : \A j \in S : ~ (j < i) BY <1>1, <1>2, LeastNatural
<1>4. \A j \in 0 .. i - 1 : j \in Ids /\ j < i BY <1>3, NIdsAssumption DEF Ids
<1>5. Least(i) /\ i \in Ids BY <1>3, <1>4
<1>6. ril_request_get_id(tb, t) = CHOOSE k \in Ids : Least(k)
  BY DEF ril_request_get_id
<1> HIDE DEF Least
<1>7. Least(ril_request_get_id(tb, t)) /\ ril_request_get_id(tb, t) \in Ids
  BY <1>5, <1>6
<1> QED BY <1>7 DEF Least

(* An index was given its present use by a draw that has been made.        *)
LEMMA DrawOfBounded ==
  ASSUME NEW tb \in Table, NEW i \in Ids
  PROVE  /\ DrawOf(tb, i) \in Int
         /\ tb.last \in Ids => DrawOf(tb, i) <= tb.drawn
<1>1. tb.last \in 0 .. NIds /\ tb.drawn \in Nat /\ i \in 0 .. NIds - 1 /\ NIds \in Nat
  BY NIdsAssumption DEF Table, Ids
<1>2. DrawOf(tb, i) \in Int BY <1>1 DEF DrawOf
<1>3. tb.last \in Ids => DrawOf(tb, i) <= tb.drawn BY <1>1 DEF DrawOf, Ids
<1> QED BY <1>2, <1>3

(* A draw gives one index a new use, that of the new draw; the use it had  *)
(* before is then no longer recent.  The other indexes keep theirs.        *)
LEMMA DrawOfNew ==
  ASSUME NEW tb \in Table, NEW new \in Table, NEW i \in Ids, tb.last \in Ids,
         new.last = ril_request_id_new(tb).last, new.drawn = tb.drawn + 1
  PROVE  /\ i # new.last => DrawOf(new, i) = DrawOf(tb, i)
         /\ i = new.last => /\ DrawOf(new, i) = new.drawn
                            /\ DrawOf(tb, i) = new.drawn - NIds
<1>1. /\ tb.last \in 0 .. NIds - 1 /\ i \in 0 .. NIds - 1
      /\ tb.drawn \in Nat /\ new.drawn = tb.drawn + 1
      /\ NIds \in Nat
  BY NIdsAssumption DEF Table, Ids
<1>2. new.last = IF tb.last + 1 = NIds THEN 0 ELSE tb.last + 1
  BY <1>1 DEF ril_request_id_new, Wrapped, Table
<1> QED BY <1>1, <1>2 DEF DrawOf

-----------------------------------------------------------------------------
(* The IPC_GEN_PHONE_RES ring.                                             *)

(* Storing an expectation keeps the ring typed.                            *)
LEMMA ExpectingTyped ==
  ASSUME NEW ring \in Ring, NEW aseq \in Ids, NEW command \in Command \cup {"NONE"},
         NEW how \in How
  PROVE  Expecting(ring, aseq, command, how) \in Ring
<1> DEFINE new == ipc_gen_phone_res_id_new(ring)
           x == [aseq |-> aseq, command |-> command, how |-> how]
<1>1. /\ ring.last \in ExpectIds /\ ring.drawn \in Nat
      /\ ring.slot \in [ExpectIds -> ipc_gen_phone_res_expect]
  BY DEF Ring
<1>2. /\ new.last = IF ring.last + 1 = NExpects THEN 0 ELSE ring.last + 1
      /\ new.drawn = ring.drawn + 1
      /\ new.slot = ring.slot
  BY <1>1 DEF ipc_gen_phone_res_id_new, Ring
<1>3. new.last \in ExpectIds /\ new.drawn \in Nat
  BY <1>1, <1>2, NExpectsAssumption DEF ExpectIds
<1>4. \A l \in ExpectIds, d \in Nat : [ring EXCEPT !.last = l, !.drawn = d] \in Ring
  BY DEF Ring
<1>5. new = [ring EXCEPT !.last = new.last, !.drawn = new.drawn]
  BY <1>1, <1>2 DEF ipc_gen_phone_res_id_new, Ring
<1>6. new \in Ring BY <1>3, <1>4, <1>5
<1>7. x \in ipc_gen_phone_res_expect BY DEF ipc_gen_phone_res_expect
<1>8. Expecting(ring, aseq, command, how) = [new EXCEPT !.slot[new.last] = x]
  BY DEF Expecting
<1> HIDE DEF new, x
<1>9. [new EXCEPT !.slot[new.last] = x] \in Ring
  BY <1>3, <1>6, <1>7 DEF Ring
<1> QED BY <1>8, <1>9

(* A ring new is the ring with expectation x stored in the next slot.      *)
StoredNext(ring, new, x) ==
  /\ new.last \in ExpectIds
  /\ new.last = IF ring.last + 1 = NExpects THEN 0 ELSE ring.last + 1
  /\ new.drawn = ring.drawn + 1
  /\ new.slot[new.last] = x
  /\ \A i \in ExpectIds : i # new.last => new.slot[i] = ring.slot[i]

(* Storing takes the next slot and leaves the others.                      *)
LEMMA ExpectingSlots ==
  ASSUME NEW ring \in Ring, NEW aseq \in Ids, NEW command \in Command \cup {"NONE"},
         NEW how \in How
  PROVE  StoredNext(ring, Expecting(ring, aseq, command, how),
                    [aseq |-> aseq, command |-> command, how |-> how])
<1> DEFINE next == ipc_gen_phone_res_id_new(ring)
           x == [aseq |-> aseq, command |-> command, how |-> how]
           new == Expecting(ring, aseq, command, how)
<1>1. /\ ring.last \in ExpectIds /\ ring.drawn \in Nat
      /\ ring.slot \in [ExpectIds -> ipc_gen_phone_res_expect]
  BY DEF Ring
<1>2. /\ next.last = IF ring.last + 1 = NExpects THEN 0 ELSE ring.last + 1
      /\ next.drawn = ring.drawn + 1
      /\ next.slot = ring.slot
      /\ DOMAIN next = {"last", "drawn", "slot"}
  BY <1>1 DEF ipc_gen_phone_res_id_new, Ring
<1>3. next.last \in ExpectIds BY <1>1, <1>2, NExpectsAssumption DEF ExpectIds
<1>4. new = [next EXCEPT !.slot[next.last] = x] BY DEF Expecting
<1> HIDE DEF next, new, x
<1>5. /\ new.last = next.last /\ new.drawn = next.drawn
      /\ new.slot = [ring.slot EXCEPT ![next.last] = x]
  BY <1>2, <1>4
<1>6. new.slot[next.last] = x /\ \A i \in ExpectIds : i # next.last => new.slot[i] = ring.slot[i]
  BY <1>1, <1>3, <1>5
<1> QED BY <1>2, <1>3, <1>5, <1>6 DEF new, x, StoredNext

(* The number of the expectation that slot i was last taken for.           *)
StoreOf(ring, i) ==
  ring.drawn - (IF i <= ring.last THEN ring.last - i ELSE ring.last - i + NExpects)

(* A slot taken anew had its former expectation NExpects stores ago.       *)
LEMMA StoreOfNext ==
  ASSUME NEW ring \in Ring, NEW new, NEW x, StoredNext(ring, new, x), NEW i \in ExpectIds
  PROVE  /\ i # new.last => StoreOf(new, i) = StoreOf(ring, i)
         /\ i = new.last => StoreOf(new, i) = new.drawn /\ StoreOf(ring, i) = new.drawn - NExpects
<1>1. /\ ring.last \in 0 .. NExpects - 1 /\ new.last \in 0 .. NExpects - 1
      /\ i \in 0 .. NExpects - 1 /\ NExpects \in Nat /\ ring.drawn \in Nat
      /\ new.drawn = ring.drawn + 1
      /\ new.last = IF ring.last + 1 = NExpects THEN 0 ELSE ring.last + 1
  BY NExpectsAssumption DEF Ring, ExpectIds, StoredNext
<1> QED BY <1>1 DEF StoreOf

(* Cleaning a slot leaves the others too, and so do the counters.          *)
LEMMA CleanSlots ==
  ASSUME NEW ring \in Ring, NEW id \in ExpectIds
  PROVE  LET new == ipc_gen_phone_res_clean_id(ring, id)
         IN  /\ new.last = ring.last /\ new.drawn = ring.drawn
             /\ new.slot[id] = CleanSlot
             /\ \A i \in ExpectIds : i # id => new.slot[i] = ring.slot[i]
BY DEF ipc_gen_phone_res_clean_id, Ring

(* So do cleaning one slot, and clearing them all.                         *)
LEMMA CleanTyped ==
  ASSUME NEW ring \in Ring
  PROVE  /\ \A id \in ExpectIds : ipc_gen_phone_res_clean_id(ring, id) \in Ring
         /\ ipc_gen_phone_res_expects_init(ring) \in Ring
<1>1. CleanSlot \in ipc_gen_phone_res_expect
  BY NIdsAssumption DEF CleanSlot, ipc_gen_phone_res_expect, Ids, How
<1>2. [i \in ExpectIds |-> CleanSlot] \in [ExpectIds -> ipc_gen_phone_res_expect]
  BY <1>1
<1> QED BY <1>1, <1>2
        DEF ipc_gen_phone_res_clean_id, ipc_gen_phone_res_expects_init, Ring

(* The search of the ring returns a slot that holds the aseq, or -1 when   *)
(* there is none.                                                          *)
LEMMA GetExpect ==
  ASSUME NEW ring \in Ring, NEW aseq \in Ids
  PROVE  LET id == ipc_gen_phone_res_get_id(ring, aseq)
         IN  \/ id = -1 /\ \A i \in ExpectIds : ring.slot[i].aseq # aseq
             \/ id \in ExpectIds /\ ring.slot[id].aseq = aseq
<1> DEFINE Holds(i) == ring.slot[i].aseq = aseq
           Earliest(i) == Holds(i) /\ \A j \in 0 .. i - 1 : ~ Holds(j)
           id == ipc_gen_phone_res_get_id(ring, aseq)
<1>1. CASE ~ \E i \in ExpectIds : Holds(i)
  BY <1>1 DEF ipc_gen_phone_res_get_id
<1>2. CASE \E i \in ExpectIds : Holds(i)
  <2> DEFINE S == {i \in ExpectIds : Holds(i)}
  <2>1. S \in SUBSET Nat /\ S # {} BY <1>2, NExpectsAssumption DEF ExpectIds
  <2>2. PICK n \in S : \A m \in S : ~ (m < n)
    <3> HIDE DEF S
    <3> QED BY <2>1, LeastNatural
  <2>3. n \in ExpectIds /\ Earliest(n)
    <3>1. \A j \in 0 .. n - 1 : j \in ExpectIds /\ j < n
      BY NExpectsAssumption DEF ExpectIds
    <3> QED BY <2>2, <3>1
  <2>4. id = CHOOSE i \in ExpectIds : Earliest(i)
    BY <1>2 DEF ipc_gen_phone_res_get_id
  <2> HIDE DEF Earliest
  <2>5. id \in ExpectIds /\ Earliest(id) BY <2>3, <2>4
  <2> QED BY <2>5 DEF Earliest
<1> QED BY <1>1, <1>2

-----------------------------------------------------------------------------
(* The handlers.                                                           *)

(* A handler that returns without a trace is a script.                     *)
LEMMA SilentTyped == Silent \in Script
<1>1. Silent.sends \subseteq Message BY DEF Silent
<1>2. Silent.now \in Seq(Outcome) BY DEF Silent
<1>3. Silent.how \in How BY DEF Silent, How
<1> QED BY <1>1, <1>2, <1>3 DEF Silent, Script

(* A script that registers may be given other messages ...                 *)
LEMMA ScriptSends ==
  ASSUME NEW s \in Script, s.registers, NEW sends \in SUBSET Message
  PROVE  [s EXCEPT !.sends = sends] \in Script /\ [s EXCEPT !.sends = sends].registers
BY DEF Script

(* ... or other answers.                                                   *)
LEMMA ScriptNow ==
  ASSUME NEW s \in Script, s.registers, NEW now \in Seq(Outcome)
  PROVE  [s EXCEPT !.now = now] \in Script /\ [s EXCEPT !.now = now].registers
BY DEF Script

(* A handler that answers and does nothing else is one.                    *)
LEMMA AnswerTyped ==
  ASSUME NEW e \in Outcome PROVE Answer(e) \in Script /\ Answer(e).registers
<1>1. <<e>> \in Seq(Outcome) OBVIOUS
<1> QED BY <1>1, SilentTyped DEF Answer, Script

(* So is one that asks for data the modem has a response for.              *)
LEMMA GetTyped ==
  ASSUME NEW c \in ResponseCommand PROVE Get(c) \in Script /\ Get(c).registers
<1>1. {First(c, "RESP")} \subseteq Message
  BY DEF First, Message, Reply, ResponseCommand, Command
<1> QED BY <1>1, SilentTyped DEF Get, Script

(* So is one that does not wait for the result of its command.             *)
LEMMA AnswerAnywayTyped ==
  ASSUME NEW c \in Command, NEW r \in Reply, r # "GEN" => c \in ResponseCommand
  PROVE  AnswerAnyway(c, r) \in Script /\ AnswerAnyway(c, r).registers
<1>1. {First(c, r)} \subseteq Message BY DEF First, Message
<1>2. Answer("SUCCESS") \in Script /\ Answer("SUCCESS").registers
  BY AnswerTyped DEF Errno, Outcome
<1> QED BY <1>1, <1>2, ScriptSends DEF AnswerAnyway, Script

(* So is one that stores an expectation.                                   *)
LEMMA ExpectTyped ==
  ASSUME NEW c \in Command, NEW how \in How
  PROVE  Expect(c, how) \in Script /\ Expect(c, how).registers
<1>1. {First(c, "GEN")} \subseteq Message BY DEF First, Message, Reply
<1> QED BY <1>1, SilentTyped DEF Expect, Script

(* And so is one that answers a failure before it goes on.                 *)
LEMMA FailAndGoOnTyped ==
  ASSUME NEW s \in Script, s.registers PROVE FailAndGoOn(s) \in Script
<1>1. <<"GENERIC_FAILURE">> \in Seq(Outcome) BY DEF Errno, Outcome
<1>2. s.now \in Seq(Outcome) BY DEF Script
<1>3. <<"GENERIC_FAILURE">> \o s.now \in Seq(Outcome) BY <1>1, <1>2
<1> QED BY <1>3, ScriptNow DEF FailAndGoOn

(* Every entry of the switch is a script.                                  *)
LEMMA HandlerTyped ==
  ASSUME NEW on \in BOOLEAN, NEW request \in Request
  PROVE  Handler(on)[request] \in Script
<1> USE DEF Command, ResponseCommand, Reply, How, Func
<1>1. /\ ril_request_query_available_networks \in Script
      /\ ril_request_get_preferred_network_type \in Script
      /\ ril_request_query_network_selection_mode \in Script
      /\ ril_request_get_current_calls \in Script
      /\ ril_request_get_imsi \in Script
  BY GetTyped DEF ril_request_query_available_networks,
       ril_request_get_preferred_network_type, ril_request_query_network_selection_mode,
       ril_request_get_current_calls, ril_request_get_imsi
<1>2. /\ ril_request_set_preferred_network_type \in Script
      /\ ril_request_set_network_selection_automatic \in Script
      /\ ril_request_set_network_selection_manual \in Script
      /\ ril_request_dtmf_stop \in Script
      /\ ril_request_change_sim_pin \in Script
      /\ ril_request_enter_sim_puk \in Script
      /\ ril_request_set_mute \in Script
  BY ExpectTyped DEF ril_request_set_preferred_network_type,
       ril_request_set_network_selection_automatic,
       ril_request_set_network_selection_manual, ril_request_dtmf_stop,
       ril_request_change_sim_pin, ril_request_enter_sim_puk, ril_request_set_mute
<1>3. /\ ril_request_hangup \in Script
      /\ ril_request_answer \in Script
      /\ \A tooLong \in BOOLEAN : ril_request_dial(tooLong) \in Script
  BY AnswerAnywayTyped, SilentTyped DEF ril_request_hangup, ril_request_answer,
       ril_request_dial
<1>4. /\ ril_request_dtmf(on) \in Script
      /\ ril_request_dtmf_start(on) \in Script
  <2>1. /\ StopTone(on) \subseteq Message
        /\ Second("CALL_BURST_DTMF", "GEN_RESP") \in Message
        /\ Second("CALL_CONT_DTMF", "GEN") \in Message
    <3>1. First("CALL_CONT_DTMF", "GEN") \in Message BY DEF First, Message
    <3>2. Second("CALL_BURST_DTMF", "GEN_RESP") \in Message BY DEF Second, Message
    <3>3. Second("CALL_CONT_DTMF", "GEN") \in Message BY DEF Second, Message
    <3> QED BY <3>1, <3>2, <3>3 DEF StopTone
  <2>2. /\ Expect("CALL_BURST_DTMF", "abort") \in Script
        /\ Expect("CALL_BURST_DTMF", "abort").registers
        /\ Expect("CALL_CONT_DTMF", "complete") \in Script
        /\ Expect("CALL_CONT_DTMF", "complete").registers
    BY ExpectTyped
  <2>3. /\ StopTone(on) \cup {Second("CALL_BURST_DTMF", "GEN_RESP")} \in SUBSET Message
        /\ StopTone(on) \cup {Second("CALL_CONT_DTMF", "GEN")} \in SUBSET Message
    BY <2>1
  <2> QED BY <2>2, <2>3, ScriptSends DEF ril_request_dtmf, ril_request_dtmf_start
<1>5. \A tooLong \in BOOLEAN : ril_request_enter_sim_pin(tooLong) \in Script
  <2> DEFINE plain == Expect("SEC_PIN_STATUS", "ipc_sec_pin_status_complete")
             script == [plain EXCEPT !.sends = @ \cup {Second("SEC_LOCK_INFO", "RESP")}]
  <2>1. plain \in Script /\ plain.registers BY ExpectTyped
  <2>2. Second("SEC_LOCK_INFO", "RESP") \in Message BY DEF Second, Message
  <2>3. script \in Script /\ script.registers
    <3>1. plain.sends \cup {Second("SEC_LOCK_INFO", "RESP")} \in SUBSET Message
      BY <2>1, <2>2 DEF Script
    <3> QED BY <2>1, <3>1, ScriptSends
  <2>4. FailAndGoOn(script) \in Script BY <2>3, FailAndGoOnTyped
  <2> QED BY <2>3, <2>4 DEF ril_request_enter_sim_pin
<1>6. \A b \in BOOLEAN : /\ ril_request_query_facility_lock(b) \in Script
                         /\ ril_request_set_facility_lock(b) \in Script
                         /\ ril_request_sim_io(b) \in Script
                         /\ requestSatSendTerminalResponse(b) \in Script
                         /\ requestSatSendEnvelopeCommand(b) \in Script
  BY GetTyped, ExpectTyped, AnswerAnywayTyped, FailAndGoOnTyped, SilentTyped
     DEF ril_request_query_facility_lock, ril_request_set_facility_lock,
         ril_request_sim_io, requestSatSendTerminalResponse,
         requestSatSendEnvelopeCommand
<1>7. /\ ril_request_screen_state \in Script
      /\ Answer("SUCCESS") \in Script
      /\ Answer("REQUEST_NOT_SUPPORTED") \in Script
  BY AnswerTyped DEF Errno, Outcome, ril_request_screen_state
<1>8. [ril_request_set_mute EXCEPT !.now = @ \o ril_request_screen_state.now] \in Script
  <2>1. ril_request_set_mute.now \o ril_request_screen_state.now \in Seq(Outcome)
    BY <1>2, <1>7 DEF Script
  <2>2. ril_request_set_mute.registers BY ExpectTyped DEF ril_request_set_mute
  <2> QED BY <1>2, <2>1, <2>2, ScriptNow
<1> HIDE DEF Command, ResponseCommand, Reply, How, Func
<1>9. /\ Handler(on).QUERY_AVAILABLE_NETWORKS \in Script
      /\ Handler(on).GET_PREFERRED_NETWORK_TYPE \in Script
      /\ Handler(on).QUERY_NETWORK_SELECTION_MODE \in Script
      /\ Handler(on).SET_PREFERRED_NETWORK_TYPE \in Script
      /\ Handler(on).SET_NETWORK_SELECTION_AUTOMATIC \in Script
      /\ Handler(on).SET_NETWORK_SELECTION_MANUAL \in Script
      /\ Handler(on).DIAL \in Script
      /\ Handler(on).DIAL_TOO_LONG \in Script
      /\ Handler(on).GET_CURRENT_CALLS \in Script
      /\ Handler(on).HANGUP \in Script
      /\ Handler(on).ANSWER \in Script
  BY <1>1, <1>2, <1>3, <1>4, <1>5, <1>6, <1>7, <1>8 DEF Handler
<1>10. /\ Handler(on).DTMF \in Script
      /\ Handler(on).DTMF_START \in Script
      /\ Handler(on).DTMF_STOP \in Script
      /\ Handler(on).ENTER_SIM_PIN \in Script
      /\ Handler(on).ENTER_SIM_PIN_TOO_LONG \in Script
      /\ Handler(on).CHANGE_SIM_PIN \in Script
      /\ Handler(on).ENTER_SIM_PUK \in Script
      /\ Handler(on).QUERY_FACILITY_LOCK \in Script
      /\ Handler(on).QUERY_FACILITY_LOCK_UNSUPPORTED \in Script
      /\ Handler(on).SET_FACILITY_LOCK \in Script
      /\ Handler(on).SET_FACILITY_LOCK_UNSUPPORTED \in Script
  BY <1>1, <1>2, <1>3, <1>4, <1>5, <1>6, <1>7, <1>8 DEF Handler
<1>11. /\ Handler(on).SIM_IO \in Script
      /\ Handler(on).SIM_IO_TOO_LONG \in Script
      /\ Handler(on).GET_IMSI \in Script
      /\ Handler(on).STK_SEND_TERMINAL_RESPONSE \in Script
      /\ Handler(on).STK_SEND_TERMINAL_RESPONSE_TOO_LONG \in Script
      /\ Handler(on).STK_SEND_ENVELOPE_COMMAND \in Script
      /\ Handler(on).STK_SEND_ENVELOPE_COMMAND_TOO_LONG \in Script
      /\ Handler(on).STK_HANDLE_CALL_SETUP \in Script
      /\ Handler(on).SET_MUTE \in Script
      /\ Handler(on).SCREEN_STATE \in Script
      /\ Handler(on).NOT_IMPLEMENTED \in Script
  BY <1>1, <1>2, <1>3, <1>4, <1>5, <1>6, <1>7, <1>8 DEF Handler
<1>12. request \in
       { "QUERY_AVAILABLE_NETWORKS", "GET_PREFERRED_NETWORK_TYPE",
         "QUERY_NETWORK_SELECTION_MODE", "SET_PREFERRED_NETWORK_TYPE",
         "SET_NETWORK_SELECTION_AUTOMATIC", "SET_NETWORK_SELECTION_MANUAL",
         "DIAL", "DIAL_TOO_LONG",
         "GET_CURRENT_CALLS", "HANGUP",
         "ANSWER", "DTMF",
         "DTMF_START", "DTMF_STOP",
         "ENTER_SIM_PIN", "ENTER_SIM_PIN_TOO_LONG",
         "CHANGE_SIM_PIN", "ENTER_SIM_PUK",
         "QUERY_FACILITY_LOCK", "QUERY_FACILITY_LOCK_UNSUPPORTED",
         "SET_FACILITY_LOCK", "SET_FACILITY_LOCK_UNSUPPORTED",
         "SIM_IO", "SIM_IO_TOO_LONG",
         "GET_IMSI", "STK_SEND_TERMINAL_RESPONSE",
         "STK_SEND_TERMINAL_RESPONSE_TOO_LONG", "STK_SEND_ENVELOPE_COMMAND",
         "STK_SEND_ENVELOPE_COMMAND_TOO_LONG", "STK_HANDLE_CALL_SETUP",
         "SET_MUTE", "SCREEN_STATE",
         "NOT_IMPLEMENTED" }
  BY DEF Handler, Request
<1> QED BY <1>9, <1>10, <1>11, <1>12

-----------------------------------------------------------------------------
(* Requests that are answered once.                                        *)

(* A script that can lead to one answer at most, if its message is alone   *)
(* under its aseq: it answers at once and waits for nothing, or it asks    *)
(* for data, or it stores an expectation for the message it sends.         *)
SoleAnswer(script) ==
  /\ \A m, n \in script.sends : m = n
  /\ \/ /\ script.how = "none" /\ script.command = "NONE"
        /\ script.now = <<>> \/ \E e \in Outcome : script.now = <<e>>
        /\ \A m \in script.sends : m.reply = "GEN"
     \/ /\ script.how = "none" /\ script.command = "NONE" /\ script.now = <<>>
        /\ \A m \in script.sends : m.reply = "RESP" /\ m.command # "CALL_BURST_DTMF"
     \/ /\ script.how # "none" /\ script.now = <<>>
        /\ \E m \in script.sends : m.reply = "GEN" /\ m.command = script.command

(* The requests of the switch whose handler is such a script.              *)
OneAnswer == {r \in Request : \A on \in BOOLEAN : SoleAnswer(Handler(on)[r])}

(* They are these 23 of the 33.  The others send two messages under one    *)
(* aseq (the two DTMF requests and ENTER_SIM_PIN), go on after they have   *)
(* failed (those whose input is not supported or too long), or answer      *)
(* beside a message they wait for (SET_MUTE, STK_SEND_TERMINAL_RESPONSE).  *)
Settled ==
  { "QUERY_AVAILABLE_NETWORKS", "GET_PREFERRED_NETWORK_TYPE",
    "QUERY_NETWORK_SELECTION_MODE", "SET_PREFERRED_NETWORK_TYPE",
    "SET_NETWORK_SELECTION_AUTOMATIC", "SET_NETWORK_SELECTION_MANUAL",
    "DIAL", "DIAL_TOO_LONG", "GET_CURRENT_CALLS", "HANGUP", "ANSWER", "DTMF_STOP",
    "CHANGE_SIM_PIN", "ENTER_SIM_PUK", "QUERY_FACILITY_LOCK", "SET_FACILITY_LOCK",
    "SIM_IO", "SIM_IO_TOO_LONG", "GET_IMSI", "STK_SEND_ENVELOPE_COMMAND",
    "STK_HANDLE_CALL_SETUP", "SCREEN_STATE", "NOT_IMPLEMENTED" }

(* Each of them is such a script, whether a tone is on or not.            *)
LEMMA OneAnswerRequests == Settled \subseteq OneAnswer
<1>1. \A c \in ResponseCommand \ {"CALL_BURST_DTMF"} : SoleAnswer(Get(c))
  BY DEF SoleAnswer, Get, First, Silent
<1>2. \A c \in Command, how \in How \ {"none"} : SoleAnswer(Expect(c, how))
  <2> SUFFICES ASSUME NEW c \in Command, NEW how \in How \ {"none"}
               PROVE  SoleAnswer(Expect(c, how))
    OBVIOUS
  <2>1. /\ Expect(c, how).sends = {First(c, "GEN")} /\ Expect(c, how).now = <<>>
        /\ Expect(c, how).command = c /\ Expect(c, how).how # "none"
    BY DEF Expect, Silent
  <2>2. First(c, "GEN").reply = "GEN" /\ First(c, "GEN").command = c BY DEF First
  <2> QED BY <2>1, <2>2 DEF SoleAnswer
<1>3. \A e \in Outcome : SoleAnswer(Answer(e))
  BY DEF SoleAnswer, Answer, Silent
<1>4. \A c \in Command : SoleAnswer(AnswerAnyway(c, "GEN"))
  <2>1. "SUCCESS" \in Outcome BY DEF Outcome, Errno
  <2> QED BY <2>1 DEF SoleAnswer, AnswerAnyway, Answer, First, Silent
<1>5. SoleAnswer(Silent) BY DEF SoleAnswer, Silent
<1>6. /\ "SUCCESS" \in Outcome /\ "REQUEST_NOT_SUPPORTED" \in Outcome
      /\ "complete" \in How \ {"none"} /\ "ipc_net_plmn_sel_complete" \in How \ {"none"}
      /\ "ipc_sec_pin_status_complete" \in How \ {"none"}
  BY DEF Outcome, Errno, How, Func
<1>10. Settled \subseteq Request BY DEF Handler, Request, Settled
<1> SUFFICES ASSUME NEW on \in BOOLEAN, NEW r \in Settled
             PROVE  SoleAnswer(Handler(on)[r])
  BY <1>10 DEF OneAnswer
<1>7. /\ SoleAnswer(Handler(on).QUERY_AVAILABLE_NETWORKS)
      /\ SoleAnswer(Handler(on).GET_PREFERRED_NETWORK_TYPE)
      /\ SoleAnswer(Handler(on).QUERY_NETWORK_SELECTION_MODE)
      /\ SoleAnswer(Handler(on).GET_CURRENT_CALLS)
      /\ SoleAnswer(Handler(on).QUERY_FACILITY_LOCK)
      /\ SoleAnswer(Handler(on).SIM_IO)
      /\ SoleAnswer(Handler(on).GET_IMSI)
      /\ SoleAnswer(Handler(on).STK_SEND_ENVELOPE_COMMAND)
  <2> HIDE DEF SoleAnswer
  <2> QED BY <1>1 DEF ResponseCommand, Handler, ril_request_query_available_networks,
         ril_request_get_preferred_network_type, ril_request_query_network_selection_mode,
         ril_request_get_current_calls, ril_request_query_facility_lock,
         ril_request_sim_io, ril_request_get_imsi, requestSatSendEnvelopeCommand
<1>8. /\ SoleAnswer(Handler(on).SET_PREFERRED_NETWORK_TYPE)
      /\ SoleAnswer(Handler(on).SET_NETWORK_SELECTION_AUTOMATIC)
      /\ SoleAnswer(Handler(on).SET_NETWORK_SELECTION_MANUAL)
      /\ SoleAnswer(Handler(on).DTMF_STOP)
      /\ SoleAnswer(Handler(on).CHANGE_SIM_PIN)
      /\ SoleAnswer(Handler(on).ENTER_SIM_PUK)
      /\ SoleAnswer(Handler(on).SET_FACILITY_LOCK)
  <2> HIDE DEF SoleAnswer
  <2> QED BY <1>2, <1>6 DEF Command, Handler, ril_request_set_preferred_network_type,
         ril_request_set_network_selection_automatic,
         ril_request_set_network_selection_manual, ril_request_dtmf_stop,
         ril_request_change_sim_pin, ril_request_enter_sim_puk,
         ril_request_set_facility_lock
<1>9. /\ SoleAnswer(Handler(on).DIAL)
      /\ SoleAnswer(Handler(on).DIAL_TOO_LONG)
      /\ SoleAnswer(Handler(on).HANGUP)
      /\ SoleAnswer(Handler(on).ANSWER)
      /\ SoleAnswer(Handler(on).SIM_IO_TOO_LONG)
      /\ SoleAnswer(Handler(on).STK_HANDLE_CALL_SETUP)
      /\ SoleAnswer(Handler(on).SCREEN_STATE)
      /\ SoleAnswer(Handler(on).NOT_IMPLEMENTED)
  <2> HIDE DEF SoleAnswer
  <2> QED BY <1>3, <1>4, <1>5, <1>6 DEF Command, Handler, ril_request_dial,
         ril_request_hangup, ril_request_answer, ril_request_sim_io,
         ril_request_screen_state
<1> QED BY <1>7, <1>8, <1>9 DEF Settled
-----------------------------------------------------------------------------
(* The steps of RilRequests.                                               *)

(* The outcomes a handler reports are errors rild knows.                   *)
LEMMA OutcomesTyped == ASSUME NEW es \in Seq(Outcome) PROVE es \in Seq(Errno)
BY DEF Outcome

(* Every step that answers from an aseq keeps the answers typed.           *)
LEMMA CompletedTyped ==
  ASSUME NEW es \in Seq(Errno), NEW canceled
  PROVE  RIL_onRequestComplete(es, canceled) \in Seq(Errno)
<1>1. Len(es) \in Nat /\ DOMAIN es = 1 .. Len(es) OBVIOUS
<1>2. \A i \in 1 .. Len(es) : es[i] \in Errno OBVIOUS
<1>3. \A i \in DOMAIN es : (IF canceled THEN "CANCELLED" ELSE es[i]) \in Errno
  BY <1>1, <1>2 DEF Errno
<1> QED BY <1>1, <1>3 DEF RIL_onRequestComplete

(* So does the completion of the request an aseq leads to, if there is one. *)
LEMMA CompleteAseqTyped ==
  ASSUME TypeOK, NEW aseq \in Ids, NEW es \in Seq(Errno), CompleteAseq(aseq, es)
  PROVE  answers' \in [Token -> Seq(Errno)]
<1> DEFINE t == ril_request_get_token(table, aseq)
           more == RIL_onRequestComplete(es, ril_request_get_canceled(table, t))
<1>1. t \in Token \cup {NoToken}
  BY DEF TypeOK, Table, ril_request_token, ril_request_get_token
<1>2. more \in Seq(Errno) BY CompletedTyped
<1>3. answers' = IF t = NoToken THEN answers ELSE [answers EXCEPT ![t] = @ \o more]
  BY DEF CompleteAseq
<1> HIDE DEF t, more
<1>4. CASE t = NoToken BY <1>3, <1>4 DEF TypeOK
<1>5. CASE t \in Token
  <2>1. answers[t] \in Seq(Errno) BY <1>5 DEF TypeOK
  <2>2. answers[t] \o more \in Seq(Errno) BY <2>1, <1>2
  <2> QED BY <2>2, <1>3, <1>5, NoTokenAssumption DEF TypeOK
<1> QED BY <1>1, <1>4, <1>5

(* What the modem's result makes of an expectation is never a cancel.      *)
LEMMA GenAnswersTyped ==
  ASSUME NEW x \in ipc_gen_phone_res_expect, NEW command, NEW code \in Code
  PROVE  GenAnswers(x, command, code) \in Seq(Outcome)
<1> DEFINE mismatch == IF x.command # command /\ x.how \in Func
                       THEN <<"GENERIC_FAILURE">> ELSE <<>>
           result == IF code = "ok" THEN <<"SUCCESS">> ELSE <<"GENERIC_FAILURE">>
           rest == CASE x.how \in Func     -> <<CustomFunction(x.how, code)>>
                     [] x.how = "complete" -> result
                     [] x.how = "abort"    -> IF code = "ok" THEN <<>> ELSE result
                     [] x.how = "none"     -> <<>>
<1>1. /\ <<"GENERIC_FAILURE">> \in Seq(Outcome) /\ <<"SUCCESS">> \in Seq(Outcome)
      /\ <<>> \in Seq(Outcome)
  BY DEF Errno, Outcome
<1>2. CustomFunction(x.how, code) \in Outcome
  BY DEF CustomFunction, ipc_net_plmn_sel_complete, ipc_sec_pin_status_complete, Errno, Outcome
<1>3. <<CustomFunction(x.how, code)>> \in Seq(Outcome) BY <1>2
<1>4. x.how \in Func \/ x.how = "complete" \/ x.how = "abort" \/ x.how = "none"
  BY DEF ipc_gen_phone_res_expect, How
<1>5. mismatch \in Seq(Outcome) BY <1>1
<1>6. rest \in Seq(Outcome)
  <2>1. CASE x.how \in Func BY <2>1, <1>3 DEF Func
  <2>2. CASE x.how = "complete" BY <2>2, <1>1 DEF Func
  <2>3. CASE x.how = "abort" BY <2>3, <1>1 DEF Func
  <2>4. CASE x.how = "none" BY <2>4, <1>1 DEF Func
  <2> QED BY <1>4, <2>1, <2>2, <2>3, <2>4
<1>7. GenAnswers(x, command, code) = mismatch \o rest BY DEF GenAnswers
<1> HIDE DEF mismatch, rest
<1> QED BY <1>5, <1>6, <1>7

(* Nor is what the handler of a response answers.                          *)
LEMMA ResponseTyped ==
  ASSUME NEW command \in ResponseCommand, NEW faulty \in BOOLEAN
  PROVE  ResponseHandler(faulty)[command] \in Seq(Outcome)
<1>1. /\ <<"SUCCESS">> \in Seq(Outcome) /\ <<>> \in Seq(Outcome)
      /\ <<"GENERIC_FAILURE">> \in Seq(Outcome)
      /\ <<"GENERIC_FAILURE", "SUCCESS">> \in Seq(Outcome)
  BY DEF Errno, Outcome
<1>2. /\ ResponseHandler(faulty).NET_PLMN_LIST \in Seq(Outcome)
      /\ ResponseHandler(faulty).NET_MODE_SEL \in Seq(Outcome)
      /\ ResponseHandler(faulty).NET_PLMN_SEL \in Seq(Outcome)
      /\ ResponseHandler(faulty).CALL_LIST \in Seq(Outcome)
      /\ ResponseHandler(faulty).CALL_BURST_DTMF \in Seq(Outcome)
      /\ ResponseHandler(faulty).SEC_LOCK_INFO \in Seq(Outcome)
      /\ ResponseHandler(faulty).SEC_RSIM_ACCESS \in Seq(Outcome)
      /\ ResponseHandler(faulty).SEC_PHONE_LOCK \in Seq(Outcome)
      /\ ResponseHandler(faulty).MISC_ME_IMSI \in Seq(Outcome)
      /\ ResponseHandler(faulty).SAT_PROACTIVE_CMD \in Seq(Outcome)
      /\ ResponseHandler(faulty).SAT_ENVELOPE_CMD \in Seq(Outcome)
  BY <1>1 DEF ResponseHandler, ipc_net_plmn_list, ipc_net_mode_sel,
       ipc_net_plmn_sel, ipc_call_list, ipc_call_burst_dtmf, ipc_sec_lock_info,
       ipc_sec_rsim_access, ipc_sec_phone_lock, ipc_misc_me_imsi,
       respondSatProactiveCmd, respondSatEnvelopeCmd
<1> QED BY <1>2 DEF ResponseCommand

-----------------------------------------------------------------------------
(* Type correctness.                                                       *)

(* What TypeOK says of onCancel and of the counter.                        *)
CancellingTyped ==
  /\ cancelling \in [token : Token \cup {NoToken}, id : 0 .. NIds, draw : Int,
                     step : CancelStep]
  /\ cancelling.step \in RegisterStep => raced
  /\ cancelling.step = "add" => cancelling.id \in Ids
  /\ cancelling.step \in {"reload", "wrap"} \/ table.last \in Ids

(* When no onCancel is in progress, nothing is asked of the counter.       *)
LEMMA NotCancellingTyped ==
  /\ NotCancelling \in [token : Token \cup {NoToken}, id : 0 .. NIds, draw : Int,
                        step : CancelStep]
  /\ NotCancelling.step = "none" /\ "none" \notin RegisterStep
BY NIdsAssumption DEF NotCancelling, CancelStep, RegisterStep

(* The state ril_globals_init leaves is typed.                             *)
LEMMA InitTyped == Init => TypeOK
<1> SUFFICES ASSUME Init PROVE TypeOK OBVIOUS
<1>1. InitialTable \in Table
  <2>1. BlankSlot \in ril_request_token BY DEF BlankSlot, ril_request_token
  <2>2. [i \in Ids |-> BlankSlot] \in [Ids -> ril_request_token] BY <2>1
  <2>3. 0 \in 0 .. NIds BY NIdsAssumption
  <2> QED BY <2>2, <2>3 DEF InitialTable, Table
<1>2. InitialRing \in Ring
  <2>1. CleanSlot \in ipc_gen_phone_res_expect
    BY NIdsAssumption DEF CleanSlot, ipc_gen_phone_res_expect, Ids, How
  <2>2. [i \in ExpectIds |-> CleanSlot] \in [ExpectIds -> ipc_gen_phone_res_expect]
    BY <2>1
  <2>3. 0 \in ExpectIds BY NExpectsAssumption DEF ExpectIds
  <2> QED BY <2>2, <2>3 DEF InitialRing, Ring
<1>3. CancellingTyped
  <2>1. cancelling = NotCancelling /\ table.last \in Ids
    BY NIdsAssumption DEF Init, InitialTable, Ids
  <2> QED BY <2>1, NotCancellingTyped DEF CancellingTyped
<1>4. [t \in Token |-> <<>>] \in [Token -> Seq(Errno)] OBVIOUS
<1>5. raced \in BOOLEAN BY DEF Init
<1> QED BY <1>1, <1>2, <1>3, <1>4, <1>5 DEF Init, TypeOK, CancellingTyped

(* What makes of a request's steps: its scripts.                           *)
LEMMA CarryTyped ==
  ASSUME TypeOK, NEW t \in Token, NEW script \in Script, Carry(t, script)
  PROVE  /\ table' \in Table
         /\ table.last \in Ids => table'.last \in Ids
         /\ expects' \in Ring
         /\ wire' \subseteq Owed
         /\ answers' \in [Token -> Seq(Errno)]
<1> DEFINE tb   == IF script.registers THEN Registered(table, t) ELSE table
           aseq == ril_request_get_id(table, t)
           ring == IF script.how = "none" THEN expects
                   ELSE Expecting(expects, aseq, script.command, script.how)
           msg(m) == [aseq |-> aseq, command |-> m.command, part |-> m.part,
                      reply |-> m.reply, owner |-> t, issue |-> issues[t] + 1,
                      draw |-> DrawOf(tb, aseq),
                      stored |-> IF m.command = script.command THEN ring.drawn ELSE 0]
<1>1. /\ table \in Table /\ expects \in Ring /\ wire \subseteq Owed
      /\ answers \in [Token -> Seq(Errno)] /\ issues[t] + 1 \in Nat
  BY DEF TypeOK
<1>2. /\ script.sends \subseteq Message /\ script.now \in Seq(Outcome)
      /\ script.command \in Command \cup {"NONE"} /\ script.how \in How
  BY DEF Script
<1>3. tb \in Table /\ (table.last \in Ids => tb.last \in Ids) BY <1>1, RegisteredHolds
<1>4. aseq \in Ids BY <1>1, GetId
<1>5. ring \in Ring BY <1>1, <1>2, <1>4, ExpectingTyped
<1>6. DrawOf(tb, aseq) \in Int BY <1>3, <1>4, DrawOfBounded
<1>7. ring.drawn \in Nat BY <1>5 DEF Ring
<1>8. /\ table' = tb
      /\ expects' = ring
      /\ wire' = wire \cup {msg(m) : m \in script.sends}
      /\ answers' = [answers EXCEPT ![t] =
           RIL_onRequestComplete(script.now,
             script.registers /\ ril_request_get_canceled(table, t))]
  BY DEF Carry
<1> HIDE DEF tb, aseq, ring
<1>9. \A m \in script.sends : msg(m) \in Owed
  BY <1>1, <1>2, <1>4, <1>6, <1>7 DEF Owed, Message
<1>10. wire' \subseteq Owed BY <1>1, <1>8, <1>9
<1>11. answers' \in [Token -> Seq(Errno)]
  BY <1>1, <1>2, <1>8, OutcomesTyped, CompletedTyped
<1> QED BY <1>3, <1>5, <1>8, <1>10, <1>11

(* What is written down of a cancel keeps one of four values.              *)
LEMMA AskedTyped ==
  ASSUME TypeOK, NEW t, NEW a \in {"no", "inherited", "asking", "flagged"}
  PROVE  [asked EXCEPT ![t] = a] \in [Token -> {"no", "inherited", "asking", "flagged"}]
BY DEF TypeOK

(* A new use of a token is counted, and the cancels it inherits noted.     *)
LEMMA IssuedTyped ==
  ASSUME TypeOK, NEW t \in Token, Issued(t)
  PROVE  /\ issues' \in [Token -> Nat]
         /\ asked' \in [Token -> {"no", "inherited", "asking", "flagged"}]
<1>1. AskedAtIssue(t) \in {"no", "inherited", "asking", "flagged"} BY DEF AskedAtIssue
<1> QED BY <1>1 DEF Issued, TypeOK

(* The script onRequest carries out, and what becomes of the tone.         *)
LEMMA OnRequestScript ==
  ASSUME TypeOK, NEW t \in Token, onRequest(t)
  PROVE  /\ \E script \in Script : Carry(t, script)
         /\ tone' \in BOOLEAN
<1>1. PICK request \in Requests \ {"RADIO_POWER_OFF"} :
        /\ Carry(t, IF ready THEN Handler(tone)[request] ELSE Answer("RADIO_NOT_AVAILABLE"))
        /\ tone' = IF ~ ready THEN tone
                   ELSE CASE request = "DTMF_START" -> TRUE
                          [] request = "DTMF_STOP"  -> FALSE
                          [] OTHER                  -> tone
  BY DEF onRequest
<1>2. request \in Request BY RequestsAssumption
<1>3. Handler(tone)[request] \in Script BY <1>2, HandlerTyped DEF TypeOK
<1>4. Answer("RADIO_NOT_AVAILABLE") \in Script BY AnswerTyped DEF Errno, Outcome
<1>5. tone' \in BOOLEAN BY <1>1 DEF TypeOK
<1> QED BY <1>1, <1>3, <1>4, <1>5

(* onRequest carries out one script.                                       *)
LEMMA OnRequestTyped == ASSUME TypeOK, NEW t \in Token, onRequest(t) PROVE TypeOK'
<1>1. PICK script \in Script : Carry(t, script) BY OnRequestScript
<1>2. /\ table' \in Table /\ expects' \in Ring /\ wire' \subseteq Owed
      /\ table.last \in Ids => table'.last \in Ids
      /\ answers' \in [Token -> Seq(Errno)]
  BY <1>1, CarryTyped
<1>3. tone' \in BOOLEAN BY OnRequestScript
<1>4. /\ issues' \in [Token -> Nat]
      /\ asked' \in [Token -> {"no", "inherited", "asking", "flagged"}]
  BY IssuedTyped DEF onRequest
<1>5. UNCHANGED <<ready, failures, cancelling, raced>> BY DEF onRequest
<1> QED BY <1>2, <1>3, <1>4, <1>5 DEF TypeOK

(* Powering the radio off registers the token and then clears the slots.   *)
LEMMA RadioPowerOffTable ==
  ASSUME table \in Table, NEW t \in Token, RadioPowerOff(t)
  PROVE  LET reg == Registered(table, t)
         IN  /\ reg \in Table
             /\ table' \in Table /\ table'.last = reg.last /\ table'.drawn = reg.drawn
             /\ table.last \in Ids => table'.last \in Ids
             /\ \A i \in Ids : table'.slot[i] = BlankSlot
<1> DEFINE reg == Registered(table, t)
           blank == [i \in Ids |-> BlankSlot]
<1>1. reg \in Table /\ (table.last \in Ids => reg.last \in Ids) BY RegisteredHolds
<1>2. table' = [reg EXCEPT !.slot = blank]
  BY DEF RadioPowerOff, ril_requests_tokens_init
<1>3. blank \in [Ids -> ril_request_token]
  BY DEF BlankSlot, ril_request_token
<1> HIDE DEF reg
<1> QED BY <1>1, <1>2, <1>3 DEF Table, reg

(* It keeps everything typed.                                              *)
LEMMA RadioPowerOffTyped == ASSUME TypeOK, NEW t \in Token, RadioPowerOff(t) PROVE TypeOK'
<1>1. table' \in Table /\ (table.last \in Ids => table'.last \in Ids)
  BY RadioPowerOffTable DEF TypeOK
<1>2. expects' \in Ring BY CleanTyped DEF RadioPowerOff, TypeOK
<1>3. <<"SUCCESS">> \in Seq(Errno) BY DEF Errno
<1>4. answers' \in [Token -> Seq(Errno)]
  BY <1>3, CompletedTyped DEF RadioPowerOff, TypeOK
<1>5. /\ issues' \in [Token -> Nat]
      /\ asked' \in [Token -> {"no", "inherited", "asking", "flagged"}]
  BY IssuedTyped DEF RadioPowerOff
<1>6. tone' = FALSE /\ UNCHANGED <<ready, failures, wire, cancelling, raced>>
  BY DEF RadioPowerOff
<1> QED BY <1>1, <1>2, <1>4, <1>5, <1>6 DEF TypeOK

(* onCancel finds an index of the table, or starts to register.            *)
LEMMA CancelAskedTyped ==
  ASSUME TypeOK, NEW t \in Token, OnCancelLookup(t) \/ OnCancelOverlaps(t)
  PROVE  TypeOK'
<1>1. /\ table \in Table /\ cancelling = NotCancelling /\ raced \in BOOLEAN
      /\ table.last \in Ids
  BY NotCancellingTyped DEF OnCancelLookup, OnCancelOverlaps, CancelAsked, TypeOK
<1>2. /\ asked' = [asked EXCEPT ![t] = "asking"]
      /\ UNCHANGED <<expects, tone, ready, failures, wire, issues, answers>>
  BY DEF OnCancelLookup, OnCancelOverlaps, CancelAsked
<1>3. asked' \in [Token -> {"no", "inherited", "asking", "flagged"}] BY <1>2, AskedTyped
<1>4. CASE OnCancelLookup(t)
  <2> DEFINE id == ril_request_get_id(table, t)
  <2>1. /\ table' = Registered(table, t) /\ raced' = raced
        /\ cancelling' = [token |-> t, id |-> id, draw |-> DrawOf(table', id), step |-> "flag"]
    BY <1>4 DEF OnCancelLookup
  <2>2. table' \in Table /\ table'.last \in Ids BY <1>1, <2>1, RegisteredHolds
  <2>3. id \in Ids BY <1>1, GetId
  <2> HIDE DEF id
  <2>4. DrawOf(table', id) \in Int BY <2>2, <2>3, DrawOfBounded
  <2>5. id \in 0 .. NIds BY <2>3, NIdsAssumption DEF Ids
  <2>6. CancellingTyped'
    BY <2>1, <2>2, <2>4, <2>5 DEF CancellingTyped, CancelStep, RegisterStep
  <2> QED BY <1>1, <1>2, <1>3, <2>1, <2>2, <2>6 DEF TypeOK, CancellingTyped
<1>5. CASE OnCancelOverlaps(t)
  <2>1. /\ cancelling' = [token |-> t, id |-> 0, draw |-> 0, step |-> "load"]
        /\ table' = table /\ raced' = TRUE
    BY <1>1, <1>5 DEF OnCancelOverlaps, NotCancelling
  <2>2. CancellingTyped'
    BY <1>1, <2>1, NIdsAssumption DEF CancellingTyped, CancelStep, RegisterStep
  <2> QED BY <1>1, <1>2, <1>3, <2>1, <2>2 DEF TypeOK, CancellingTyped
<1> QED BY <1>4, <1>5

(* A write to the slot of the index in hand, if there is such a slot.      *)
LEMMA SlotWriteTyped ==
  ASSUME NEW tb \in Table, NEW i \in Ids, NEW t \in Token \cup {NoToken}, NEW c \in BOOLEAN
  PROVE  /\ [tb EXCEPT !.slot[i].token = t] \in Table
         /\ [tb EXCEPT !.slot[i].canceled = c] \in Table
<1>1. tb.slot \in [Ids -> ril_request_token] BY DEF Table
<1>2. /\ [tb.slot[i] EXCEPT !.token = t] \in ril_request_token
      /\ [tb.slot[i] EXCEPT !.canceled = c] \in ril_request_token
  BY <1>1 DEF ril_request_token
<1>3. \A x \in ril_request_token : [tb.slot EXCEPT ![i] = x] \in [Ids -> ril_request_token]
  BY <1>1
<1>4. \A f \in [Ids -> ril_request_token] : [tb EXCEPT !.slot = f] \in Table
  BY DEF Table
<1> QED BY <1>1, <1>2, <1>3, <1>4

(* A registration among handlers touches the table and nothing else.       *)
LEMMA OnCancelRegistersOnly ==
  ASSUME OnCancelRegisters
  PROVE  /\ UNCHANGED <<asked, expects, tone, ready, failures, wire, raced, issues, answers>>
         /\ cancelling.step \in RegisterStep
<1> USE DEF OnCancelGoesOn, RegisterStep
<1>1. CASE OnCancelLoad BY <1>1 DEF OnCancelLoad
<1>2. CASE OnCancelAdd BY <1>2 DEF OnCancelAdd
<1>3. CASE OnCancelReload BY <1>3 DEF OnCancelReload
<1>4. CASE OnCancelWrap BY <1>4 DEF OnCancelWrap
<1>5. CASE OnCancelReturn
  <2>1. UNCHANGED <<table, asked>> BY <1>5, Zenon DEF OnCancelReturn
  <2>2. OnCancelGoesOn("return") BY <1>5, Zenon DEF OnCancelReturn
  <2> QED BY <2>1, <2>2
<1>6. CASE OnCancelToken BY <1>6 DEF OnCancelToken
<1>7. CASE OnCancelClear BY <1>7 DEF OnCancelClear
<1> QED BY <1>1, <1>2, <1>3, <1>4, <1>5, <1>6, <1>7 DEF OnCancelRegisters

(* The steps of a registration among handlers keep the counter and the     *)
(* index within 0 .. NIds, and the counter within the table once wrapped.  *)
LEMMA OnCancelRegistersTyped == ASSUME TypeOK, OnCancelRegisters PROVE TypeOK'
<1>1. /\ table \in Table /\ raced \in BOOLEAN /\ CancellingTyped
      /\ cancelling.token \in Token \cup {NoToken}
      /\ table.last \in 0 .. NIds /\ table.drawn \in Nat
  BY DEF TypeOK, CancellingTyped, Table
<1>2. /\ UNCHANGED <<asked, expects, tone, ready, failures, wire, raced, issues, answers>>
      /\ cancelling.step \in RegisterStep
  BY OnCancelRegistersOnly
<1>3. SUFFICES table' \in Table /\ CancellingTyped'
  BY <1>2 DEF TypeOK, CancellingTyped
<1>4. raced' = TRUE BY <1>1, <1>2 DEF CancellingTyped
<1>5. ASSUME OnCancelLoad PROVE table' \in Table /\ CancellingTyped'
  <2>1. /\ cancelling.step = "load" /\ table' = table
        /\ cancelling' = [cancelling EXCEPT !.id = table.last, !.step = "add"]
    BY <1>5 DEF OnCancelLoad, OnCancelGoesOn
  <2> QED BY <1>1, <1>4, <2>1 DEF CancellingTyped, CancelStep, RegisterStep
<1>6. ASSUME OnCancelAdd PROVE table' \in Table /\ CancellingTyped'
  <2>1. /\ cancelling.step = "add"
        /\ table' = [table EXCEPT !.last = cancelling.id + 1, !.drawn = @ + 1]
        /\ cancelling' = [cancelling EXCEPT !.step = "reload"]
    BY <1>6 DEF OnCancelAdd, OnCancelGoesOn
  <2>2. cancelling.id + 1 \in 0 .. NIds /\ table.drawn + 1 \in Nat
    BY <1>1, <2>1, NIdsAssumption DEF CancellingTyped, Ids
  <2>3. table' \in Table BY <1>1, <2>1, <2>2 DEF Table
  <2> QED BY <1>1, <1>4, <2>1, <2>3 DEF CancellingTyped, CancelStep, RegisterStep
<1>7. ASSUME OnCancelReload PROVE table' \in Table /\ CancellingTyped'
  <2>1. /\ cancelling.step = "reload" /\ table' = table
        /\ cancelling' = [cancelling EXCEPT !.id = table.last, !.step = "wrap"]
    BY <1>7 DEF OnCancelReload, OnCancelGoesOn
  <2> QED BY <1>1, <1>4, <2>1 DEF CancellingTyped, CancelStep, RegisterStep
<1>8. ASSUME OnCancelWrap PROVE table' \in Table /\ CancellingTyped'
  <2>1. /\ cancelling.step = "wrap"
        /\ table' = [table EXCEPT !.last = Wrapped(cancelling.id)]
        /\ cancelling' = [cancelling EXCEPT !.step = "return"]
    BY <1>8 DEF OnCancelWrap, OnCancelGoesOn
  <2>2. cancelling.id \in 0 .. NIds BY <1>1 DEF CancellingTyped
  <2>3. Wrapped(cancelling.id) \in Ids /\ Wrapped(cancelling.id) \in 0 .. NIds
    BY <2>2, NIdsAssumption DEF Wrapped, Ids
  <2>4. table' \in Table /\ table'.last \in Ids BY <1>1, <2>1, <2>3 DEF Table
  <2> QED BY <1>1, <1>4, <2>1, <2>4 DEF CancellingTyped, CancelStep, RegisterStep
<1>9. ASSUME OnCancelReturn PROVE table' \in Table /\ CancellingTyped'
  <2>1. PICK id \in {table.last} \cup (IF table.last = 0 THEN {NIds} ELSE {}) :
          cancelling' = [cancelling EXCEPT !.id = id, !.step = "token"]
    BY <1>9, Zenon DEF OnCancelReturn
  <2>2. cancelling.step = "return" /\ table' = table
    BY <1>9, Zenon DEF OnCancelReturn, OnCancelGoesOn
  <2>3. id \in 0 .. NIds BY <1>1, <2>1, NIdsAssumption
  <2> QED BY <1>1, <1>4, <2>1, <2>2, <2>3 DEF CancellingTyped, CancelStep, RegisterStep
<1>10. ASSUME OnCancelToken PROVE table' \in Table /\ CancellingTyped'
  <2>1. /\ cancelling.step = "token"
        /\ table' = IF cancelling.id \in Ids
                    THEN [table EXCEPT !.slot[cancelling.id].token = cancelling.token]
                    ELSE table
        /\ cancelling' = [cancelling EXCEPT !.step = "clear"]
    BY <1>10 DEF OnCancelToken, OnCancelGoesOn, SlotWrite
  <2>2. table' \in Table /\ table'.last = table.last
    BY <1>1, <2>1, SlotWriteTyped DEF Table
  <2> QED BY <1>1, <1>4, <2>1, <2>2 DEF CancellingTyped, CancelStep, RegisterStep
<1>11. ASSUME OnCancelClear PROVE table' \in Table /\ CancellingTyped'
  <2>1. /\ cancelling.step = "clear"
        /\ table' = IF cancelling.id \in Ids
                    THEN [table EXCEPT !.slot[cancelling.id].canceled = FALSE]
                    ELSE table
        /\ cancelling' = [cancelling EXCEPT !.step = "flag"]
    BY <1>11 DEF OnCancelClear, OnCancelGoesOn, SlotWrite
  <2>2. table' \in Table /\ table'.last = table.last
    BY <1>1, <2>1, SlotWriteTyped DEF Table
  <2> QED BY <1>1, <1>4, <2>1, <2>2 DEF CancellingTyped, CancelStep, RegisterStep
<1> QED BY <1>5, <1>6, <1>7, <1>8, <1>9, <1>10, <1>11 DEF OnCancelRegisters

(* The store of the flag does too.                                         *)
LEMMA OnCancelStoreTyped == ASSUME TypeOK, OnCancelStore PROVE TypeOK'
<1>1. /\ table \in Table /\ raced \in BOOLEAN /\ CancellingTyped
  BY DEF TypeOK, CancellingTyped
<1>2. /\ cancelling.step = "flag" /\ cancelling' = NotCancelling
      /\ UNCHANGED <<expects, tone, ready, failures, wire, raced, issues, answers>>
      /\ table' = IF cancelling.id \in Ids
                  THEN [table EXCEPT !.slot[cancelling.id].canceled = TRUE] ELSE table
  BY DEF OnCancelStore, OnCancelGoesOn, SlotWrite
<1>3. table' \in Table /\ table'.last = table.last
  BY <1>1, <1>2, SlotWriteTyped, NoTokenAssumption DEF Table
<1>4. asked' \in [Token -> {"no", "inherited", "asking", "flagged"}]
  BY AskedTyped DEF OnCancelStore, TypeOK
<1>5. CancellingTyped'
  BY <1>1, <1>2, <1>3, NotCancellingTyped DEF CancellingTyped
<1> QED BY <1>1, <1>2, <1>3, <1>4, <1>5 DEF TypeOK, CancellingTyped

(* Replies that come in leave messages that are typed.                     *)
LEMMA DeliveredTyped ==
  ASSUME TypeOK, NEW m \in wire, NEW reply \in {"GEN", "RESP"}, NEW code \in Code,
         Delivered(m, reply, code)
  PROVE  wire' \subseteq Owed
<1> DEFINE rest == [m EXCEPT !.reply = "RESP"]
<1>1. wire \subseteq Owed BY DEF TypeOK
<1>2. m.reply = "GEN_RESP" => m.command \in ResponseCommand BY <1>1 DEF Owed
<1>3. m.reply = "GEN_RESP" => rest \in Owed BY <1>1, <1>2 DEF Owed, Reply
<1>4. \A n \in wire' : n \in wire \/ (n = rest /\ m.reply = "GEN_RESP")
  BY DEF Delivered
<1> QED BY <1>1, <1>3, <1>4

(* A result of a command answers from the ring.                            *)
LEMMA GenTyped ==
  ASSUME TypeOK, NEW m \in wire, NEW code \in Code, ipc_gen_phone_res(m, code)
  PROVE  TypeOK'
<1> DEFINE id == ipc_gen_phone_res_get_id(expects, m.aseq)
           x == expects.slot[id]
<1>1. expects \in Ring /\ m \in Owed BY DEF TypeOK
<1>2. /\ Delivered(m, "GEN", code)
      /\ UNCHANGED <<table, tone, ready, failures, cancelling, raced, issues, asked>>
  BY DEF ipc_gen_phone_res
<1>3. wire' \subseteq Owed BY <1>2, DeliveredTyped
<1>4. id = -1 \/ id \in ExpectIds
  <2>1. m.aseq \in Ids BY <1>1 DEF Owed
  <2> QED BY <1>1, <2>1, GetExpect
<1>5. \/ id < 0 /\ UNCHANGED <<expects, answers>>
      \/ /\ ~ id < 0
         /\ CompleteAseq(x.aseq, GenAnswers(x, m.command, code))
         /\ expects' = ipc_gen_phone_res_clean_id(expects, id)
  BY DEF ipc_gen_phone_res
<1>6. ~ id < 0 => id \in ExpectIds BY <1>4
<1> HIDE DEF id
<1>7. expects' \in Ring /\ answers' \in [Token -> Seq(Errno)]
  <2>1. CASE id < 0 BY <2>1, <1>1, <1>5 DEF TypeOK
  <2>2. CASE ~ id < 0
    <3>1. x \in ipc_gen_phone_res_expect BY <1>1, <1>6, <2>2 DEF Ring
    <3>2. x.aseq \in Ids BY <3>1 DEF ipc_gen_phone_res_expect
    <3> HIDE DEF x
    <3>3. GenAnswers(x, m.command, code) \in Seq(Errno)
      BY <3>1, GenAnswersTyped, OutcomesTyped
    <3>4. CompleteAseq(x.aseq, GenAnswers(x, m.command, code)) BY <1>5, <2>2
    <3>5. answers' \in [Token -> Seq(Errno)]
      BY <1>1, <3>2, <3>3, <3>4, CompleteAseqTyped
    <3>6. expects' \in Ring BY <1>1, <1>5, <1>6, <2>2, CleanTyped
    <3> QED BY <3>5, <3>6
  <2> QED BY <2>1, <2>2
<1> QED BY <1>2, <1>3, <1>7 DEF TypeOK

(* A response answers from the aseq it carries.                            *)
LEMMA ResponseMsgTyped ==
  ASSUME TypeOK, NEW m \in wire, NEW faulty \in BOOLEAN, Response(m, faulty)
  PROVE  TypeOK'
<1>1. m \in Owed BY DEF TypeOK
<1>2. /\ m.reply = "RESP" /\ Delivered(m, "RESP", "ok")
      /\ CompleteAseq(m.aseq, ResponseHandler(faulty)[m.command])
      /\ UNCHANGED <<table, expects, tone, ready, failures, cancelling, raced, issues, asked>>
  BY DEF Response
<1>3. "ok" \in Code BY DEF Code
<1>4. wire' \subseteq Owed BY <1>2, <1>3, DeliveredTyped
<1>5. m.aseq \in Ids /\ m.command \in ResponseCommand BY <1>1, <1>2 DEF Owed
<1>6. ResponseHandler(faulty)[m.command] \in Seq(Errno)
  BY <1>5, ResponseTyped, OutcomesTyped
<1>7. answers' \in [Token -> Seq(Errno)] BY <1>1, <1>2, <1>5, <1>6, CompleteAseqTyped
<1> QED BY <1>2, <1>4, <1>7 DEF TypeOK

(* A message of the sound clients draws an index.                          *)
LEMMA SrsTyped == ASSUME TypeOK, NEW command, SrsSend(command) PROVE TypeOK'
<1> DEFINE new == ril_request_id_new(table)
           msg == [aseq |-> new.last, command |-> command, part |-> 1,
                   reply |-> "GEN", owner |-> NoToken, issue |-> 0,
                   draw |-> new.drawn, stored |-> 0]
<1>1. table \in Table /\ wire \subseteq Owed BY DEF TypeOK
<1>2. new \in Table /\ new.last \in Ids BY <1>1, NewIdTyped
<1>3. /\ table' = new /\ command \in Command
      /\ wire' = wire \/ wire' = wire \cup {msg}
      /\ UNCHANGED <<expects, tone, ready, failures, cancelling, raced, issues, asked, answers>>
  BY SrsCommandsAssumption DEF SrsSend
<1>4. new.drawn \in Nat BY <1>2 DEF Table
<1> HIDE DEF new
<1>5. msg \in Owed BY <1>2, <1>3, <1>4 DEF Owed, Reply
<1>6. wire' \subseteq Owed BY <1>1, <1>3, <1>5
<1> QED BY <1>2, <1>3, <1>6 DEF TypeOK

(* The client's failure touches no table.                                  *)
LEMMA ClientTyped == ASSUME TypeOK, ClientFails \/ ClientReady PROVE TypeOK'
<1>1. CASE ClientFails
  <2>1. failures' \in Nat BY <1>1 DEF TypeOK, ClientFails
  <2> QED BY <1>1, <2>1 DEF TypeOK, ClientFails
<1>2. CASE ClientReady BY <1>2 DEF TypeOK, ClientReady
<1> QED BY <1>1, <1>2

(* Every step, and a step that changes nothing, keeps the types.           *)
LEMMA NextTyped == TypeOK /\ [Next]_vars => TypeOK'
<1> SUFFICES ASSUME TypeOK, [Next]_vars PROVE TypeOK' OBVIOUS
<1>1. ASSUME NEW t \in Token, onRequest(t) PROVE TypeOK' BY <1>1, OnRequestTyped
<1>2. ASSUME NEW t \in Token, RadioPowerOff(t) PROVE TypeOK' BY <1>2, RadioPowerOffTyped
<1>3. ASSUME NEW t \in Token, OnCancelLookup(t) \/ OnCancelOverlaps(t) PROVE TypeOK'
  BY <1>3, CancelAskedTyped
<1>4. ASSUME OnCancelRegisters PROVE TypeOK' BY <1>4, OnCancelRegistersTyped
<1>5. ASSUME OnCancelStore PROVE TypeOK' BY <1>5, OnCancelStoreTyped
<1>6. ASSUME NEW m \in wire, NEW code \in Code, ipc_gen_phone_res(m, code) PROVE TypeOK'
  BY <1>6, GenTyped
<1>7. ASSUME NEW m \in wire, NEW faulty \in BOOLEAN, Response(m, faulty) PROVE TypeOK'
  BY <1>7, ResponseMsgTyped
<1>8. ASSUME \/ srs_snd_set_call_clock_sync
             \/ srs_snd_set_call_volume
             \/ srs_snd_set_call_audio_path
      PROVE  TypeOK'
  BY <1>8, SrsTyped DEF srs_snd_set_call_clock_sync, srs_snd_set_call_volume,
                        srs_snd_set_call_audio_path
<1>9. ASSUME ClientFails \/ ClientReady PROVE TypeOK' BY <1>9, ClientTyped
<1>10. ASSUME UNCHANGED vars PROVE TypeOK' BY <1>10 DEF vars, TypeOK
<1> QED BY <1>1, <1>2, <1>3, <1>4, <1>5, <1>6, <1>7, <1>8, <1>9, <1>10 DEF Next

-----------------------------------------------------------------------------
(* The invariant.                                                          *)

(* How a message the modem owes a reply relates to the table: its draw has *)
(* been made; while that draw is recent, the message's index still has the *)
(* use that draw gave it, and its slot holds the owner's token or none.    *)
Correct(tb, m) ==
  /\ m.draw <= tb.drawn
  /\ InWindow(tb, m.draw) => DrawOf(tb, m.aseq) = m.draw
  /\ m.owner \in Token /\ InWindow(tb, m.draw) =>
       tb.slot[m.aseq].token \in {m.owner, NoToken}

Inv ==
  /\ TypeOK
  /\ ~ raced
  /\ Unique(table)
  /\ cancelling.id \in Ids
  /\ \A m \in wire : Correct(table, m)

(* With it, the counter is within the table and onCancel registers nothing *)
(* step by step.                                                           *)
LEMMA InvCounter == Inv => table.last \in Ids /\ ~ OnCancelRegisters
<1>1. ASSUME Inv, OnCancelRegisters PROVE FALSE
  BY <1>1, OnCancelRegistersOnly DEF Inv, TypeOK
<1>2. ASSUME Inv PROVE table.last \in Ids
  <2>1. cancelling.step \notin RegisterStep BY <1>2 DEF Inv, TypeOK
  <2>2. cancelling.step \notin {"reload", "wrap"} BY <2>1 DEF RegisterStep
  <2> QED BY <1>2, <2>2 DEF Inv, TypeOK
<1> QED BY <1>1, <1>2

(* A message has an index of the table, and the number of a draw.          *)
LEMMA OwedPlaced == \A m \in Owed : m.aseq \in Ids /\ m.draw \in Int
BY DEF Owed

(* Flagging a slot or clearing it keeps a message correct.                 *)
LEMMA CorrectKept ==
  ASSUME NEW tb \in Table, NEW new \in Table, NEW m, m.aseq \in Ids, m.draw \in Int,
         Correct(tb, m),
         new.last = tb.last, new.drawn = tb.drawn,
         \A i \in Ids : new.slot[i].token \in {tb.slot[i].token, NoToken}
  PROVE  Correct(new, m)
<1>1. m.aseq \in Ids OBVIOUS
<1>2. DrawOf(new, m.aseq) = DrawOf(tb, m.aseq) BY DEF DrawOf
<1>3. InWindow(new, m.draw) <=> InWindow(tb, m.draw) BY DEF InWindow
<1> QED BY <1>1, <1>2, <1>3 DEF Correct

(* So does drawing an index, for a request or for SRS: the draw that gave  *)
(* that index its former use is no longer recent.                          *)
LEMMA CorrectDrawn ==
  ASSUME NEW tb \in Table, NEW new \in Table, NEW m, m.aseq \in Ids, m.draw \in Int,
         Correct(tb, m), tb.last \in Ids,
         new.last = ril_request_id_new(tb).last, new.drawn = tb.drawn + 1,
         \A i \in Ids : i # new.last => new.slot[i].token = tb.slot[i].token
  PROVE  Correct(new, m)
<1>1. m.aseq \in Ids /\ m.draw \in Int OBVIOUS
<1>2. tb.drawn \in Nat /\ NIds \in Nat BY NIdsAssumption DEF Table
<1>3. m.draw <= new.drawn BY <1>1, <1>2 DEF Correct
<1>4. InWindow(new, m.draw) => InWindow(tb, m.draw) BY <1>1, <1>2 DEF InWindow
<1>5. CASE m.aseq # new.last
  <2>1. DrawOf(new, m.aseq) = DrawOf(tb, m.aseq) BY <1>1, <1>5, DrawOfNew
  <2>2. new.slot[m.aseq].token = tb.slot[m.aseq].token BY <1>1, <1>5
  <2> QED BY <1>3, <1>4, <2>1, <2>2 DEF Correct
<1>6. CASE m.aseq = new.last
  <2>1. DrawOf(tb, m.aseq) = new.drawn - NIds BY <1>1, <1>6, DrawOfNew
  <2>2. ~ InWindow(new, m.draw)
    <3>1. SUFFICES ASSUME InWindow(new, m.draw) PROVE FALSE OBVIOUS
    <3>2. m.draw = new.drawn - NIds BY <1>4, <2>1, <3>1 DEF Correct
    <3>3. new.drawn - m.draw < NIds BY <3>1 DEF InWindow
    <3> QED BY <1>1, <1>2, <3>2, <3>3
  <2> QED BY <1>3, <2>2 DEF Correct
<1> QED BY <1>5, <1>6

(* And so does registering a token that may be in the table already.       *)
LEMMA CorrectRegistered ==
  ASSUME NEW tb \in Table, NEW t \in Token, NEW m, m.aseq \in Ids, m.draw \in Int,
         Correct(tb, m), tb.last \in Ids
  PROVE  Correct(Registered(tb, t), m)
<1>1. CASE IsRegistered(tb, t) BY <1>1 DEF Registered
<1>2. CASE ~ IsRegistered(tb, t)
  <2> DEFINE reg == ril_request_reg_id(tb, t)
  <2>1. /\ reg \in Table
        /\ reg.last = ril_request_id_new(tb).last
        /\ reg.drawn = tb.drawn + 1
        /\ \A i \in Ids : i # reg.last => reg.slot[i] = tb.slot[i]
    BY RegId
  <2>2. Registered(tb, t) = reg BY <1>2 DEF Registered
  <2> HIDE DEF reg
  <2>3. Correct(reg, m) BY <2>1, CorrectDrawn
  <2> QED BY <2>2, <2>3
<1> QED BY <1>1, <1>2

(* A reply that has come in leaves no message in a worse state.            *)
LEMMA DeliveredKeeps ==
  ASSUME Inv, NEW m \in wire, NEW reply \in {"GEN", "RESP"}, NEW code \in Code,
         Delivered(m, reply, code), UNCHANGED table
  PROVE  \A n \in wire' : Correct(table', n)
<1> DEFINE rest == [m EXCEPT !.reply = "RESP"]
<1>1. wire \subseteq Owed /\ (\A n \in wire : Correct(table, n)) BY DEF Inv, TypeOK
<1>2. /\ rest.draw = m.draw /\ rest.aseq = m.aseq /\ rest.owner = m.owner
  BY <1>1 DEF Owed
<1>3. Correct(table, rest) BY <1>1, <1>2 DEF Correct
<1>4. \A n \in wire' : n \in wire \/ (n = rest /\ m.reply = "GEN_RESP")
  BY DEF Delivered
<1> HIDE DEF rest
<1> QED BY <1>1, <1>3, <1>4

(* A request's messages are sent under the index that stands for it, so    *)
(* that they are correct from the start; the others stay so.               *)
LEMMA CarryKeeps ==
  ASSUME Inv, NEW t \in Token, NEW script \in Script, Carry(t, script)
  PROVE  /\ Unique(table')
         /\ \A n \in wire' : Correct(table', n)
<1> DEFINE tb   == IF script.registers THEN Registered(table, t) ELSE table
           aseq == ril_request_get_id(table, t)
           ring == IF script.how = "none" THEN expects
                   ELSE Expecting(expects, aseq, script.command, script.how)
           msg(m) == [aseq |-> aseq, command |-> m.command, part |-> m.part,
                      reply |-> m.reply, owner |-> t, issue |-> issues[t] + 1,
                      draw |-> DrawOf(tb, aseq),
                      stored |-> IF m.command = script.command THEN ring.drawn ELSE 0]
<1>1. /\ table \in Table /\ Unique(table) /\ wire \subseteq Owed
      /\ table.last \in Ids /\ \A n \in wire : Correct(table, n)
  BY InvCounter DEF Inv, TypeOK
<1>2. table' = tb /\ wire' = wire \cup {msg(m) : m \in script.sends} BY DEF Carry
<1>3. tb \in Table /\ Unique(tb) /\ tb.last \in Ids BY <1>1, RegisteredHolds
<1>4. \A n \in wire : Correct(tb, n) BY <1>1, OwedPlaced, CorrectRegistered
<1>5. aseq \in Ids BY <1>1, GetId
<1>6. DrawOf(tb, aseq) <= tb.drawn BY <1>3, <1>5, DrawOfBounded
<1>7. tb.slot[aseq].token = t \/ script.sends = {}
  <2>1. CASE script.registers BY <2>1, <1>1, GetId
  <2>2. CASE ~ script.registers BY <2>2 DEF Script
  <2> QED BY <2>1, <2>2
<1> HIDE DEF tb, aseq, ring
<1>8. \A m \in script.sends : Correct(tb, msg(m)) BY <1>6, <1>7 DEF Correct
<1> QED BY <1>2, <1>3, <1>4, <1>8

-----------------------------------------------------------------------------
(* Each action keeps the invariant, except OnCancelOverlaps, which raises  *)
(* raced.  What the types need is NextTyped.                               *)

(* onRequest carries out one script.                                       *)
LEMMA OnRequestKeeps == ASSUME Inv, NEW t \in Token, onRequest(t) PROVE Inv'
<1>1. TypeOK BY DEF Inv
<1>2. PICK script \in Script : Carry(t, script) BY <1>1, OnRequestScript
<1>3. Unique(table') /\ \A n \in wire' : Correct(table', n) BY <1>2, CarryKeeps
<1>4. TypeOK' BY <1>1, OnRequestTyped
<1>5. raced' = raced /\ cancelling' = cancelling BY DEF onRequest
<1> QED BY <1>3, <1>4, <1>5 DEF Inv, Unique

(* Powering the radio off registers the token and then clears the slots.   *)
LEMMA RadioPowerOffKeeps == ASSUME Inv, NEW t \in Token, RadioPowerOff(t) PROVE Inv'
<1> DEFINE reg == Registered(table, t)
<1>1. /\ TypeOK /\ table \in Table /\ wire \subseteq Owed /\ table.last \in Ids
      /\ \A m \in wire : Correct(table, m)
  BY InvCounter DEF Inv, TypeOK
<1>2. \A m \in wire : Correct(reg, m) BY <1>1, OwedPlaced, CorrectRegistered
<1>3. /\ reg \in Table
      /\ table' \in Table /\ table'.last = reg.last /\ table'.drawn = reg.drawn
      /\ \A i \in Ids : table'.slot[i] = BlankSlot
  BY <1>1, RadioPowerOffTable
<1> HIDE DEF reg
<1>4. \A i \in Ids : table'.slot[i].token = NoToken BY <1>3 DEF BlankSlot
<1>5. \A m \in wire : Correct(table', m) BY <1>1, <1>2, <1>3, <1>4, OwedPlaced, CorrectKept
<1>6. Unique(table') BY <1>4 DEF Unique
<1>7. TypeOK' BY <1>1, RadioPowerOffTyped
<1>8. UNCHANGED <<raced, wire, cancelling>> BY DEF RadioPowerOff
<1> QED BY <1>5, <1>6, <1>7, <1>8 DEF Inv, Unique

(* The lookup of onCancel may register the token.                          *)
LEMMA OnCancelLookupKeeps == ASSUME Inv, NEW t \in Token, OnCancelLookup(t) PROVE Inv'
<1>1. /\ TypeOK /\ table \in Table /\ wire \subseteq Owed /\ Unique(table)
      /\ table.last \in Ids /\ \A m \in wire : Correct(table, m)
  BY InvCounter DEF Inv, TypeOK
<1>2. table' = Registered(table, t) /\ raced' = raced /\ wire' = wire
  BY DEF OnCancelLookup, CancelAsked
<1>3. Unique(table') BY <1>1, <1>2, RegisteredHolds
<1>4. \A m \in wire : Correct(table', m) BY <1>1, <1>2, OwedPlaced, CorrectRegistered
<1>5. TypeOK' BY <1>1, CancelAskedTyped
<1>6. cancelling'.id \in Ids BY <1>1, GetId DEF OnCancelLookup
<1> QED BY <1>2, <1>3, <1>4, <1>5, <1>6 DEF Inv, Unique

(* The store of onCancel sets a flag in a slot, and writes no token.       *)
LEMMA OnCancelStored ==
  ASSUME Inv, OnCancelStore
  PROVE  LET t  == cancelling.token
             id == cancelling.id
         IN  /\ id \in Ids /\ cancelling # NotCancelling /\ cancelling' = NotCancelling
             /\ UNCHANGED <<expects, tone, ready, failures, wire, raced, issues, answers>>
             /\ table' = [table EXCEPT !.slot[id].canceled = TRUE]
             /\ table' \in Table /\ table'.last = table.last /\ table'.drawn = table.drawn
             /\ \A i \in Ids : table'.slot[i].token = table.slot[i].token
             /\ asked' = IF Pending(t) /\ table.slot[id].token = t
                         THEN [asked EXCEPT ![t] = "flagged"] ELSE asked
<1> DEFINE t  == cancelling.token
           id == cancelling.id
<1>1. /\ table \in Table /\ table.slot \in [Ids -> ril_request_token] /\ id \in Ids
  BY DEF Inv, TypeOK, Table
<1>2. OnCancelGoesOn("flag") /\ cancelling' = NotCancelling BY DEF OnCancelStore
<1>3. cancelling # NotCancelling BY <1>2 DEF OnCancelGoesOn, NotCancelling
<1>4. table' = [table EXCEPT !.slot[id].canceled = TRUE]
  BY <1>1 DEF OnCancelStore, SlotWrite
<1>5. asked' = IF Pending(t) /\ table.slot[id].token = t
               THEN [asked EXCEPT ![t] = "flagged"] ELSE asked
  BY <1>1 DEF OnCancelStore
<1> HIDE DEF id, t
<1>6. table' \in Table BY <1>1, <1>4, SlotWriteTyped, NoTokenAssumption
<1>7. /\ table'.last = table.last /\ table'.drawn = table.drawn
      /\ table'.slot = [table.slot EXCEPT ![id] = [@ EXCEPT !.canceled = TRUE]]
  BY <1>1, <1>4 DEF Table
<1>8. \A i \in Ids : table'.slot[i].token = table.slot[i].token
  BY <1>1, <1>7 DEF ril_request_token
<1> QED BY <1>1, <1>2, <1>3, <1>4, <1>5, <1>6, <1>7, <1>8 DEF OnCancelGoesOn, id, t

(* So a message stays correct.                                             *)
LEMMA OnCancelStoreKeeps == ASSUME Inv, OnCancelStore PROVE Inv'
<1>1. /\ TypeOK /\ table \in Table /\ wire \subseteq Owed /\ Unique(table)
      /\ \A m \in wire : Correct(table, m)
  BY DEF Inv, TypeOK
<1>2. \A m \in wire : Correct(table', m) BY <1>1, OnCancelStored, OwedPlaced, CorrectKept
<1>3. Unique(table') BY <1>1, OnCancelStored DEF Unique
<1>4. TypeOK' BY <1>1, OnCancelStoreTyped
<1>5. UNCHANGED <<raced, wire>> /\ cancelling' = NotCancelling BY OnCancelStored
<1>6. NotCancelling.id \in Ids BY NIdsAssumption DEF NotCancelling, Ids
<1> QED BY <1>2, <1>3, <1>4, <1>5, <1>6 DEF Inv, Unique

(* A result of a command answers from the ring.                            *)
LEMMA GenKeeps ==
  ASSUME Inv, NEW m \in wire, NEW code \in Code, ipc_gen_phone_res(m, code)
  PROVE  Inv'
<1>1. TypeOK' BY GenTyped DEF Inv
<1>2. Delivered(m, "GEN", code) /\ UNCHANGED <<table, raced, cancelling>>
  BY DEF ipc_gen_phone_res
<1>3. \A n \in wire' : Correct(table', n) BY <1>2, DeliveredKeeps
<1> QED BY <1>1, <1>2, <1>3 DEF Inv, Unique

(* A response answers from the aseq it carries.                            *)
LEMMA ResponseKeeps ==
  ASSUME Inv, NEW m \in wire, NEW faulty \in BOOLEAN, Response(m, faulty)
  PROVE  Inv'
<1>1. TypeOK' BY ResponseMsgTyped DEF Inv
<1>2. Delivered(m, "RESP", "ok") /\ UNCHANGED <<table, raced, cancelling>>
  BY DEF Response
<1>3. "ok" \in Code BY DEF Code
<1>4. \A n \in wire' : Correct(table', n) BY <1>2, <1>3, DeliveredKeeps
<1> QED BY <1>1, <1>2, <1>4 DEF Inv, Unique

(* A message of the sound clients draws an index that it does not write.   *)
LEMMA SrsKeeps == ASSUME Inv, NEW command, SrsSend(command) PROVE Inv'
<1> DEFINE new == ril_request_id_new(table)
           msg == [aseq |-> new.last, command |-> command, part |-> 1,
                   reply |-> "GEN", owner |-> NoToken, issue |-> 0,
                   draw |-> new.drawn, stored |-> 0]
<1>1. /\ table \in Table /\ wire \subseteq Owed /\ Unique(table) /\ table.last \in Ids
      /\ \A m \in wire : Correct(table, m)
  BY InvCounter DEF Inv, TypeOK
<1>2. /\ new \in Table /\ new.last \in Ids /\ new.drawn = table.drawn + 1
      /\ new.slot = table.slot
  BY <1>1, NewIdTyped
<1>3. /\ table' = new /\ raced' = raced /\ cancelling' = cancelling
      /\ wire' = wire \/ wire' = wire \cup {msg}
  BY DEF SrsSend
<1>4. \A m \in wire : Correct(new, m)
  <2> SUFFICES ASSUME NEW m \in wire PROVE Correct(new, m) OBVIOUS
  <2>1. m.aseq \in Ids /\ m.draw \in Int BY <1>1 DEF Owed
  <2> QED BY <1>1, <1>2, <2>1, CorrectDrawn
<1>5. new.drawn \in Nat BY <1>2 DEF Table
<1>6. DrawOf(new, new.last) = new.drawn BY <1>1, <1>2, DrawOfNew
<1> HIDE DEF new
<1>7. Correct(new, msg) BY <1>5, <1>6, NoTokenAssumption DEF Correct
<1>8. \A m \in wire' : Correct(table', m) BY <1>3, <1>4, <1>7
<1>9. Unique(table') BY <1>1, <1>2, <1>3 DEF Unique
<1>10. TypeOK' BY SrsTyped DEF Inv
<1> QED BY <1>3, <1>8, <1>9, <1>10 DEF Inv, Unique

(* The client's failure loses messages and touches no table.               *)
LEMMA ClientKeeps == ASSUME Inv, ClientFails \/ ClientReady PROVE Inv'
<1>1. TypeOK' BY ClientTyped DEF Inv
<1>2. /\ UNCHANGED <<table, raced, cancelling>>
      /\ wire' = wire \/ wire' = {}
  BY DEF ClientFails, ClientReady
<1> QED BY <1>1, <1>2 DEF Inv, Unique

(* Nothing is registered and nothing is owed when the driver starts.       *)
LEMMA InitInv == Init => Inv
<1> SUFFICES ASSUME Init PROVE Inv OBVIOUS
<1>1. TypeOK BY InitTyped
<1>2. Unique(table) /\ wire = {} /\ ~ raced
  BY DEF Init, InitialTable, BlankSlot, Unique
<1>3. cancelling.id \in Ids BY NIdsAssumption DEF Init, NotCancelling, Ids
<1> QED BY <1>1, <1>2, <1>3 DEF Inv

(* A step that keeps raced down is one of these; the actions of onCancel's *)
(* registration among handlers are not.                                    *)
LEMMA Unraced ==
  ASSUME Inv, Next, ~ raced'
  PROVE  \/ \E t \in Token : onRequest(t)
         \/ \E t \in Token : RadioPowerOff(t)
         \/ \E t \in Token : OnCancelLookup(t)
         \/ OnCancelStore
         \/ \E m \in wire, code \in Code : ipc_gen_phone_res(m, code)
         \/ \E m \in wire, faulty \in BOOLEAN : Response(m, faulty)
         \/ srs_snd_set_call_clock_sync
         \/ srs_snd_set_call_volume
         \/ srs_snd_set_call_audio_path
         \/ ClientFails
         \/ ClientReady
<1>1. ~ OnCancelRegisters BY InvCounter
<1>2. ASSUME NEW t \in Token, OnCancelOverlaps(t) PROVE FALSE
  BY <1>2 DEF OnCancelOverlaps
<1> QED BY <1>1, <1>2 DEF Next

(* Every step, and a step that changes nothing, keeps the invariant as     *)
(* long as onCancel does not start to register a token among handlers.     *)
LEMMA NextInv == Inv /\ [Next]_vars => Inv' \/ raced'
<1> SUFFICES ASSUME Inv, [Next]_vars, ~ raced' PROVE Inv' OBVIOUS
<1>1. ASSUME NEW t \in Token, onRequest(t) PROVE Inv' BY <1>1, OnRequestKeeps
<1>2. ASSUME NEW t \in Token, RadioPowerOff(t) PROVE Inv' BY <1>2, RadioPowerOffKeeps
<1>3. ASSUME NEW t \in Token, OnCancelLookup(t) PROVE Inv' BY <1>3, OnCancelLookupKeeps
<1>4. ASSUME OnCancelStore PROVE Inv' BY <1>4, OnCancelStoreKeeps
<1>5. ASSUME NEW m \in wire, NEW code \in Code, ipc_gen_phone_res(m, code) PROVE Inv'
  BY <1>5, GenKeeps
<1>6. ASSUME NEW m \in wire, NEW faulty \in BOOLEAN, Response(m, faulty) PROVE Inv'
  BY <1>6, ResponseKeeps
<1>7. ASSUME \/ srs_snd_set_call_clock_sync
             \/ srs_snd_set_call_volume
             \/ srs_snd_set_call_audio_path
      PROVE  Inv'
  BY <1>7, SrsKeeps DEF srs_snd_set_call_clock_sync, srs_snd_set_call_volume,
                        srs_snd_set_call_audio_path
<1>8. ASSUME ClientFails \/ ClientReady PROVE Inv' BY <1>8, ClientKeeps
<1>9. ASSUME UNCHANGED vars PROVE Inv' BY <1>9 DEF vars, Inv, TypeOK, Unique
<1> QED BY <1>1, <1>2, <1>3, <1>4, <1>5, <1>6, <1>7, <1>8, <1>9, Unraced

(* raced is never taken back.                                              *)
LEMMA RacedStays == raced /\ [Next]_vars => raced'
<1> SUFFICES ASSUME raced, [Next]_vars PROVE raced' OBVIOUS
<1>1. OnCancelRegisters => raced' = raced BY OnCancelRegistersOnly
<1>2. CASE UNCHANGED vars BY <1>2 DEF vars
<1>3. \A t \in Token : /\ onRequest(t) => raced' = raced
                       /\ RadioPowerOff(t) => raced' = raced
                       /\ OnCancelLookup(t) => raced' = raced
                       /\ OnCancelOverlaps(t) => raced'
  BY DEF onRequest, RadioPowerOff, OnCancelLookup, OnCancelOverlaps
<1>4. OnCancelStore => raced' = raced BY DEF OnCancelStore, OnCancelGoesOn
<1>5. \A m \in wire, code \in Code : ipc_gen_phone_res(m, code) => raced' = raced
  BY DEF ipc_gen_phone_res
<1>6. \A m \in wire, faulty \in BOOLEAN : Response(m, faulty) => raced' = raced
  BY DEF Response
<1>7. /\ srs_snd_set_call_clock_sync => raced' = raced
      /\ srs_snd_set_call_volume => raced' = raced
      /\ srs_snd_set_call_audio_path => raced' = raced
  BY DEF srs_snd_set_call_clock_sync, srs_snd_set_call_volume,
         srs_snd_set_call_audio_path, SrsSend
<1>8. ClientFails \/ ClientReady => raced' = raced BY DEF ClientFails, ClientReady
<1> QED BY <1>1, <1>2, <1>3, <1>4, <1>5, <1>6, <1>7, <1>8 DEF Next

(* While the counters keep up, raced is not raised.                        *)
LEMMA NextKeepsUp ==
  ASSUME KeepsUp, Inv, [Next]_vars PROVE Inv' /\ (Next => Abreast' /\ ~ raced')
<1>1. Next => Abreast' /\ ~ raced' BY DEF Next, Abreast
<1>2. UNCHANGED vars => ~ raced' BY DEF vars, Inv
<1> QED BY <1>1, <1>2, NextInv

(* The invariant holds until raced is raised.                              *)
LEMMA SpecInv == Spec => [](Inv \/ raced)
BY InitInv, NextInv, RacedStays, PTL DEF Spec

(* A message that is correct satisfies NoMisdelivery.                      *)
LEMMA InvNoMisdelivery == Inv \/ raced => NoMisdelivery
BY DEF Inv, Correct, NoMisdelivery, ril_request_get_token

-----------------------------------------------------------------------------
(* Whatever happens, also when onCancel registers a token among handlers,  *)
(* the tables, the answers and the messages keep their shape: no index     *)
(* leaves ril_requests_tokens or the ring of expectations unless onCancel  *)
(* has just counted it up, and nothing but RIL_Errno values reaches rild.  *)
THEOREM TypeCorrect == Spec => []TypeOK
BY InitTyped, NextTyped, PTL DEF Spec

(* ril_request_get_id never registers a token twice, also when the counter *)
(* comes round, SRS draws indexes that it does not write, and the table is *)
(* cleared; until onCancel has registered a token among handlers.          *)
THEOREM TokensAreUnique == Spec => []OneAseqPerToken
<1>1. Inv \/ raced => OneAseqPerToken BY DEF Inv, Unique, OneAseqPerToken
<1> QED BY SpecInv, <1>1, PTL

(* A message's aseq stands for the request it was sent for, or for none,   *)
(* until NIds further indexes have been drawn, or onCancel has registered  *)
(* a token among handlers, which may give one index to two requests.       *)
THEOREM RepliesReachTheirOwners == Spec => []NoMisdelivery
BY SpecInv, InvNoMisdelivery, PTL

-----------------------------------------------------------------------------
(* A cancel that has been stored is reported.  The store is made without a *)
(* lock, and the index it uses was looked up earlier; what the theorem     *)
(* rests on is that the store only counts if the slot still holds the      *)
(* token, and that the token stands in no other slot, where the flag would *)
(* not be seen.                                                            *)

(* While the cancelled request is pending, every slot that holds its token *)
(* is flagged; there may be none.  Afterwards its answer says so.          *)
CancelStands(t) ==
  asked[t] = "flagged" =>
    IF answers[t] = <<>>
    THEN \A i \in Ids : table.slot[i].token = t => table.slot[i].canceled
    ELSE answers[t][1] = "CANCELLED"

CancelInv == \A t \in Token : CancelStands(t)

(* Registering a token touches no slot of another one, but may take it.    *)
LEMMA RegisteredSpares ==
  ASSUME NEW tb \in Table, NEW u \in Token, NEW t \in Token, t # u, NEW i \in Ids,
         Registered(tb, u).slot[i].token = t
  PROVE  Registered(tb, u).slot[i] = tb.slot[i]
<1>1. CASE IsRegistered(tb, u) BY <1>1 DEF Registered
<1>2. CASE ~ IsRegistered(tb, u)
  <2> DEFINE reg == ril_request_reg_id(tb, u)
  <2>1. /\ reg.slot[reg.last] = [token |-> u, canceled |-> FALSE]
        /\ i # reg.last => reg.slot[i] = tb.slot[i]
    BY RegId
  <2>2. Registered(tb, u) = reg BY <1>2 DEF Registered
  <2> HIDE DEF reg
  <2> QED BY <2>1, <2>2
<1> QED BY <1>1, <1>2

(* A step that leaves a request alone, and takes none but other slots for  *)
(* its token: what stands stays.                                           *)
LEMMA LeftAlone ==
  ASSUME NEW t \in Token, CancelStands(t), asked'[t] = asked[t], answers'[t] = answers[t],
         \A i \in Ids : table'.slot[i].token = t =>
           /\ table.slot[i].token = t
           /\ table.slot[i].canceled => table'.slot[i].canceled
  PROVE  CancelStands(t)'
BY DEF CancelStands

(* What RIL_onRequestComplete gives for a flagged token.                   *)
LEMMA CancelledAnswers ==
  ASSUME NEW es \in Seq(Errno), NEW before \in Seq(Errno),
         before # <<>> => before[1] = "CANCELLED"
  PROVE  LET after == before \o RIL_onRequestComplete(es, TRUE)
         IN  after # <<>> => after[1] = "CANCELLED"
<1> DEFINE more == RIL_onRequestComplete(es, TRUE)
<1>1. \A i \in DOMAIN more : more[i] = "CANCELLED" BY DEF RIL_onRequestComplete
<1>2. more \in Seq(Errno) BY CompletedTyped
<1> HIDE DEF more
<1>3. more # <<>> => 1 \in DOMAIN more
  <2>1. Len(more) \in Nat /\ DOMAIN more = 1 .. Len(more) BY <1>2
  <2>2. more # <<>> => Len(more) \in Nat \ {0} BY <1>2, EmptySeq
  <2> QED BY <2>1, <2>2
<1>5. more # <<>> => more[1] = "CANCELLED" BY <1>1, <1>3
<1>6. CASE before = <<>>
  <2>1. before \o more = more BY <1>2, <1>6, ConcatEmptySeq
  <2> QED BY <1>5, <2>1 DEF more
<1>7. CASE before # <<>>
  <2>1. Len(before) \in Nat /\ Len(before) > 0 BY <1>7
  <2>2. (before \o more)[1] = before[1] BY <1>2, <2>1
  <2> QED BY <1>7, <2>2 DEF more
<1> QED BY <1>6, <1>7 DEF more

(* Completing the request of an aseq reports its cancel, if it has one.    *)
LEMMA CompleteReports ==
  ASSUME Inv, NEW t \in Token, CancelStands(t), NEW aseq \in Ids, NEW es \in Seq(Errno),
         CompleteAseq(aseq, es), UNCHANGED <<table, asked>>
  PROVE  CancelStands(t)'
<1> DEFINE u == ril_request_get_token(table, aseq)
<1>1. TypeOK /\ table \in Table /\ answers[t] \in Seq(Errno) BY DEF Inv, TypeOK
<1>2. answers' = IF u = NoToken THEN answers
                 ELSE [answers EXCEPT ![u] =
                         @ \o RIL_onRequestComplete(es, ril_request_get_canceled(table, u))]
  BY DEF CompleteAseq
<1>3. CASE u # t
  <2>1. answers'[t] = answers[t] BY <1>1, <1>2, <1>3 DEF TypeOK
  <2> QED BY <2>1 DEF CancelStands
<1>4. CASE u = t /\ asked[t] = "flagged"
  <2>1. table.slot[aseq].token = t BY <1>4 DEF ril_request_get_token
  <2>2. Registered(table, t) = table BY <2>1 DEF Registered, IsRegistered
  <2>3. CASE answers[t] = <<>>
    <3>1. \A i \in Ids : table.slot[i].token = t => table.slot[i].canceled
      BY <1>4, <2>3 DEF CancelStands
    <3>2. /\ ril_request_get_id(table, t) \in Ids
          /\ table.slot[ril_request_get_id(table, t)].token = t
      BY <1>1, <2>2, GetId DEF Inv, Unique
    <3>3. ril_request_get_canceled(table, t) = TRUE
      <4>1. table.slot[ril_request_get_id(table, t)] \in ril_request_token
        BY <1>1, <3>2 DEF Table
      <4>2. table.slot[ril_request_get_id(table, t)].canceled \in BOOLEAN
        BY <4>1 DEF ril_request_token
      <4> QED BY <2>2, <3>1, <3>2, <4>2 DEF ril_request_get_canceled
    <3>4. answers'[t] = answers[t] \o RIL_onRequestComplete(es, TRUE)
      BY <1>1, <1>2, <1>4, <3>3, NoTokenAssumption DEF TypeOK
    <3>5. answers'[t] # <<>> => answers'[t][1] = "CANCELLED"
      BY <1>1, <2>3, <3>4, CancelledAnswers
    <3> QED BY <3>1, <3>5 DEF CancelStands
  <2>4. CASE answers[t] # <<>>
    <3> DEFINE more == RIL_onRequestComplete(es, ril_request_get_canceled(table, t))
    <3>1. answers[t][1] = "CANCELLED" BY <1>4, <2>4 DEF CancelStands
    <3>2. more \in Seq(Errno) BY CompletedTyped
    <3>3. answers'[t] = answers[t] \o more
      BY <1>1, <1>2, <1>4, NoTokenAssumption DEF TypeOK
    <3> HIDE DEF more
    <3>4. Len(answers[t]) \in Nat /\ Len(answers[t]) > 0 BY <1>1, <2>4
    <3>5. answers'[t] # <<>> /\ answers'[t][1] = "CANCELLED"
      BY <1>1, <3>1, <3>2, <3>3, <3>4
    <3> QED BY <3>5 DEF CancelStands
  <2> QED BY <2>3, <2>4
<1>5. CASE asked[t] # "flagged" BY <1>5 DEF CancelStands
<1> QED BY <1>3, <1>4, <1>5

-----------------------------------------------------------------------------
(* Each action lets the cancels stand.                                     *)

(* A new request starts without a stored cancel; the registration of its   *)
(* token spares the others.                                                *)
LEMMA OnRequestStands ==
  ASSUME Inv, CancelInv, NEW t \in Token, onRequest(t) PROVE CancelInv'
<1> SUFFICES ASSUME NEW v \in Token PROVE CancelStands(v)' BY DEF CancelInv
<1>1. TypeOK /\ table \in Table BY DEF Inv, TypeOK
<1>2. /\ asked' = [asked EXCEPT ![t] = AskedAtIssue(t)]
      /\ \E script : Carry(t, script)
  BY DEF onRequest, Issued
<1>3. /\ table' = table \/ table' = Registered(table, t)
      /\ \E es : answers' = [answers EXCEPT ![t] = es]
  BY <1>2 DEF Carry
<1>4. CASE v = t
  <2>1. asked'[t] # "flagged" BY <1>1, <1>2 DEF TypeOK, AskedAtIssue
  <2> QED BY <1>4, <2>1 DEF CancelStands
<1>5. CASE v # t
  <2>1. asked'[v] = asked[v] /\ answers'[v] = answers[v]
    BY <1>1, <1>2, <1>3, <1>5 DEF TypeOK
  <2>2. \A i \in Ids : table'.slot[i].token = v => table'.slot[i] = table.slot[i]
    BY <1>1, <1>3, <1>5, RegisteredSpares
  <2> QED BY <2>1, <2>2, LeftAlone DEF CancelInv
<1> QED BY <1>4, <1>5

(* Powering the radio off leaves no token in a slot.                       *)
LEMMA RadioPowerOffStands ==
  ASSUME Inv, CancelInv, NEW t \in Token, RadioPowerOff(t) PROVE CancelInv'
<1> SUFFICES ASSUME NEW v \in Token PROVE CancelStands(v)' BY DEF CancelInv
<1>1. TypeOK /\ table \in Table BY DEF Inv, TypeOK
<1>2. /\ asked' = [asked EXCEPT ![t] = AskedAtIssue(t)]
      /\ \E es : answers' = [answers EXCEPT ![t] = es]
      /\ table' = ril_requests_tokens_init(Registered(table, t))
  BY DEF RadioPowerOff, Issued
<1>3. CASE v = t
  <2>1. asked'[t] # "flagged" BY <1>1, <1>2 DEF TypeOK, AskedAtIssue
  <2> QED BY <1>3, <2>1 DEF CancelStands
<1>4. CASE v # t
  <2>1. asked'[v] = asked[v] /\ answers'[v] = answers[v]
    BY <1>1, <1>2, <1>4 DEF TypeOK
  <2>2. Registered(table, t) \in Table BY <1>1, RegisteredHolds
  <2>3. \A i \in Ids : table'.slot[i].token = NoToken
    BY <1>2, <2>2 DEF ril_requests_tokens_init, BlankSlot, Table
  <2>4. \A i \in Ids : table'.slot[i].token # v BY <2>3, NoTokenAssumption
  <2> QED BY <2>1, <2>4, LeftAlone DEF CancelInv
<1> QED BY <1>3, <1>4

(* The lookup of onCancel spares the other tokens, and stores no flag.     *)
LEMMA OnCancelLookupStands ==
  ASSUME Inv, CancelInv, NEW t \in Token, OnCancelLookup(t) PROVE CancelInv'
<1> SUFFICES ASSUME NEW v \in Token PROVE CancelStands(v)' BY DEF CancelInv
<1>1. TypeOK /\ table \in Table BY DEF Inv, TypeOK
<1>2. /\ asked' = [asked EXCEPT ![t] = "asking"] /\ answers' = answers
      /\ table' = Registered(table, t)
  BY DEF OnCancelLookup, CancelAsked
<1>3. CASE v = t BY <1>1, <1>2, <1>3 DEF TypeOK, CancelStands
<1>4. CASE v # t
  <2>1. asked'[v] = asked[v] /\ answers'[v] = answers[v] BY <1>1, <1>2, <1>4 DEF TypeOK
  <2>2. \A i \in Ids : table'.slot[i].token = v => table'.slot[i] = table.slot[i]
    BY <1>1, <1>2, <1>4, RegisteredSpares
  <2> QED BY <2>1, <2>2, LeftAlone DEF CancelInv
<1> QED BY <1>3, <1>4

(* The store of onCancel counts if the slot it flags still holds the       *)
(* token: then no other slot does.                                         *)
LEMMA OnCancelStoreStands == ASSUME Inv, CancelInv, OnCancelStore PROVE CancelInv'
<1> SUFFICES ASSUME NEW v \in Token PROVE CancelStands(v)' BY DEF CancelInv
<1> DEFINE t == cancelling.token
           id == cancelling.id
<1>1. /\ TypeOK /\ id \in Ids /\ table.slot \in [Ids -> ril_request_token]
      /\ DOMAIN table = {"last", "drawn", "slot"}
  BY DEF Inv, TypeOK, Table
<1>2. /\ table' = [table EXCEPT !.slot[id].canceled = TRUE] /\ answers' = answers
      /\ asked' = IF Pending(t) /\ table.slot[id].token = t
                  THEN [asked EXCEPT ![t] = "flagged"] ELSE asked
  BY OnCancelStored
<1> HIDE DEF t, id
<1>3. table'.slot = [table.slot EXCEPT ![id] = [@ EXCEPT !.canceled = TRUE]]
  BY <1>1, <1>2
<1>4. /\ \A i \in Ids : table'.slot[i].token = table.slot[i].token
      /\ \A i \in Ids : table.slot[i].canceled => table'.slot[i].canceled
      /\ table'.slot[id].canceled
  BY <1>1, <1>3 DEF ril_request_token
<1>5. CASE v = t /\ Pending(t) /\ table.slot[id].token = t
  <2>1. \A i \in Ids : table'.slot[i].token = v => i = id
    BY <1>1, <1>4, <1>5, NoTokenAssumption DEF Inv, Unique
  <2>2. answers'[v] = <<>> BY <1>2, <1>5 DEF Pending
  <2> QED BY <1>4, <2>1, <2>2 DEF CancelStands
<1>6. CASE ~ (v = t /\ Pending(t) /\ table.slot[id].token = t)
  <2>1. asked'[v] = asked[v] /\ answers'[v] = answers[v] BY <1>1, <1>2, <1>6 DEF TypeOK
  <2> QED BY <1>4, <2>1, LeftAlone DEF CancelInv
<1> QED BY <1>5, <1>6

(* A result that matches an expectation completes the request of its aseq; *)
(* any other leaves the requests alone.                                    *)
LEMMA GenStands ==
  ASSUME Inv, CancelInv, NEW m \in wire, NEW code \in Code, ipc_gen_phone_res(m, code)
  PROVE  CancelInv'
<1> SUFFICES ASSUME NEW v \in Token PROVE CancelStands(v)' BY DEF CancelInv
<1> DEFINE id == ipc_gen_phone_res_get_id(expects, m.aseq)
           x == expects.slot[id]
<1>1. TypeOK /\ expects \in Ring /\ m \in Owed BY DEF Inv, TypeOK
<1>2. UNCHANGED <<table, asked>> BY DEF ipc_gen_phone_res
<1>3. id = -1 \/ id \in ExpectIds
  <2>1. m.aseq \in Ids BY <1>1 DEF Owed
  <2> QED BY <1>1, <2>1, GetExpect
<1>4. \/ id < 0 /\ answers' = answers
      \/ ~ id < 0 /\ CompleteAseq(x.aseq, GenAnswers(x, m.command, code))
  BY DEF ipc_gen_phone_res
<1> HIDE DEF id
<1>5. CASE answers' = answers BY <1>2, <1>5 DEF CancelStands, CancelInv
<1>6. CASE ~ id < 0 /\ CompleteAseq(x.aseq, GenAnswers(x, m.command, code))
  <2>1. x \in ipc_gen_phone_res_expect BY <1>1, <1>3, <1>6 DEF Ring
  <2>2. x.aseq \in Ids BY <2>1 DEF ipc_gen_phone_res_expect
  <2> HIDE DEF x
  <2>3. GenAnswers(x, m.command, code) \in Seq(Errno)
    BY <2>1, GenAnswersTyped, OutcomesTyped
  <2> QED BY <1>2, <1>6, <2>2, <2>3, CompleteReports DEF CancelInv
<1> QED BY <1>4, <1>5, <1>6

(* A response completes the request of its aseq.                           *)
LEMMA ResponseStands ==
  ASSUME Inv, CancelInv, NEW m \in wire, NEW faulty \in BOOLEAN, Response(m, faulty)
  PROVE  CancelInv'
<1> SUFFICES ASSUME NEW v \in Token PROVE CancelStands(v)' BY DEF CancelInv
<1>1. m \in Owed BY DEF Inv, TypeOK
<1>2. /\ m.reply = "RESP" /\ UNCHANGED <<table, asked>>
      /\ CompleteAseq(m.aseq, ResponseHandler(faulty)[m.command])
  BY DEF Response
<1>3. m.aseq \in Ids /\ m.command \in ResponseCommand BY <1>1, <1>2 DEF Owed
<1>4. ResponseHandler(faulty)[m.command] \in Seq(Errno)
  BY <1>3, ResponseTyped, OutcomesTyped
<1> QED BY <1>2, <1>3, <1>4, CompleteReports DEF CancelInv

(* The sound clients draw an index and leave its slot as it is, the client *)
(* does not touch the table: no request is answered.                       *)
LEMMA OthersStand ==
  ASSUME Inv, CancelInv, (\E command : SrsSend(command)) \/ ClientFails \/ ClientReady
  PROVE  CancelInv'
<1> SUFFICES ASSUME NEW v \in Token PROVE CancelStands(v)' BY DEF CancelInv
<1>1. UNCHANGED <<asked, answers>> BY DEF SrsSend, ClientFails, ClientReady
<1>2. table' = table \/ table' = ril_request_id_new(table)
  BY DEF SrsSend, ClientFails, ClientReady
<1>3. table \in Table BY DEF Inv, TypeOK
<1>4. table'.slot = table.slot BY <1>2, <1>3, NewIdTyped
<1> QED BY <1>1, <1>4 DEF CancelStands, CancelInv

(* Every step, and a step that changes nothing, lets the cancels stand.    *)
LEMMA NextStands == Inv /\ CancelInv /\ [Next]_vars => CancelInv' \/ raced'
<1> SUFFICES ASSUME Inv, CancelInv, [Next]_vars, ~ raced' PROVE CancelInv' OBVIOUS
<1>1. ASSUME NEW t \in Token, onRequest(t) PROVE CancelInv' BY <1>1, OnRequestStands
<1>2. ASSUME NEW t \in Token, RadioPowerOff(t) PROVE CancelInv'
  BY <1>2, RadioPowerOffStands
<1>3. ASSUME NEW t \in Token, OnCancelLookup(t) PROVE CancelInv'
  BY <1>3, OnCancelLookupStands
<1>4. ASSUME OnCancelStore PROVE CancelInv' BY <1>4, OnCancelStoreStands
<1>5. ASSUME NEW m \in wire, NEW code \in Code, ipc_gen_phone_res(m, code)
      PROVE  CancelInv'
  BY <1>5, GenStands
<1>6. ASSUME NEW m \in wire, NEW faulty \in BOOLEAN, Response(m, faulty)
      PROVE  CancelInv'
  BY <1>6, ResponseStands
<1>7. ASSUME \/ srs_snd_set_call_clock_sync
             \/ srs_snd_set_call_volume
             \/ srs_snd_set_call_audio_path
             \/ ClientFails \/ ClientReady
      PROVE  CancelInv'
  BY <1>7, OthersStand DEF srs_snd_set_call_clock_sync, srs_snd_set_call_volume,
                           srs_snd_set_call_audio_path
<1>8. ASSUME UNCHANGED vars PROVE CancelInv'
  BY <1>8 DEF vars, CancelInv, CancelStands
<1> QED BY <1>1, <1>2, <1>3, <1>4, <1>5, <1>6, <1>7, <1>8, Unraced

-----------------------------------------------------------------------------
(* A cancel that onCancel has stored for a pending request is reported:    *)
(* whatever completes the request afterwards, rild gets RIL_E_CANCELLED,   *)
(* however onCancel and the other threads interleave, also when the        *)
(* counter has come round and the token's slot was given away; until       *)
(* onCancel has registered a token among handlers.                         *)
THEOREM CancelsAreReported == Spec => []CancelHonoured
<1>1. Init => CancelInv BY DEF Init, CancelInv, CancelStands
<1>2. CancelInv \/ raced => CancelHonoured
  BY DEF CancelInv, CancelStands, CancelHonoured
<1> QED BY InitInv, NextInv, NextStands, RacedStays, <1>1, <1>2, PTL DEF Spec

-----------------------------------------------------------------------------
(* Nobody is told he was cancelled who was not.  onCancel flags the index  *)
(* its lookup found, and other threads may have run since; while no counter *)
(* comes round to an index still owed, that index holds the token onCancel *)
(* was called for, or none.                                                *)

(* No slot of a request nobody cancelled is flagged, and none of its       *)
(* answers says it was cancelled.                                          *)
Uncancelled(t) ==
  asked[t] = "no" =>
    /\ \A i \in Ids : table.slot[i].token = t => ~ table.slot[i].canceled
    /\ \A i \in DOMAIN answers[t] : answers[t][i] # "CANCELLED"

(* The onCancel in progress, which owes the table a flag, as a message     *)
(* owes the modem's reply.                                                 *)
Flag == [aseq |-> cancelling.id, draw |-> cancelling.draw, owner |-> cancelling.token]

Flagging ==
  cancelling # NotCancelling =>
    /\ cancelling.token \in Token
    /\ asked[cancelling.token] # "no"
    /\ Correct(table, Flag)

AskedInv ==
  /\ Abreast
  /\ Flagging
  /\ \A t \in Token : Uncancelled(t)

(* What stands in two sequences joined stands in one of them.              *)
LEMMA JoinedPlaces ==
  ASSUME NEW S, NEW a \in Seq(S), NEW b \in Seq(S), NEW c,
         \A i \in DOMAIN a : a[i] # c, \A i \in DOMAIN b : b[i] # c
  PROVE  \A i \in DOMAIN (a \o b) : (a \o b)[i] # c
<1> SUFFICES ASSUME NEW i \in DOMAIN (a \o b) PROVE (a \o b)[i] # c OBVIOUS
<1>1. Len(a) \in Nat /\ Len(b) \in Nat /\ DOMAIN a = 1 .. Len(a) /\ DOMAIN b = 1 .. Len(b)
  OBVIOUS
<1>2. i \in 1 .. Len(a) + Len(b) OBVIOUS
<1>3. (a \o b)[i] = IF i <= Len(a) THEN a[i] ELSE b[i - Len(a)] BY <1>2
<1>4. CASE i <= Len(a) BY <1>1, <1>2, <1>3, <1>4
<1>5. CASE ~ i <= Len(a)
  <2>1. i - Len(a) \in DOMAIN b BY <1>1, <1>2, <1>5
  <2> QED BY <1>3, <1>5, <2>1
<1> QED BY <1>4, <1>5

(* What is completed without a flag is reported as it came out.            *)
LEMMA UncancelledAnswers ==
  ASSUME NEW es \in Seq(Outcome)
  PROVE  \A i \in DOMAIN RIL_onRequestComplete(es, FALSE) :
           RIL_onRequestComplete(es, FALSE)[i] # "CANCELLED"
<1>1. DOMAIN es = 1 .. Len(es) /\ \A i \in 1 .. Len(es) : es[i] \in Outcome OBVIOUS
<1> QED BY <1>1 DEF RIL_onRequestComplete, Outcome

(* A step that leaves a request and its slot alone leaves it uncancelled.  *)
LEMMA UncancelledKept ==
  ASSUME NEW t \in Token, Uncancelled(t), asked'[t] = asked[t], answers'[t] = answers[t],
         \A i \in Ids : table'.slot[i].token = t =>
           /\ table.slot[i].token = t
           /\ table'.slot[i].canceled => table.slot[i].canceled
  PROVE  Uncancelled(t)'
BY DEF Uncancelled

(* The flag a request that nobody cancelled is completed with.             *)
LEMMA UnflaggedCompletion ==
  ASSUME NEW tb \in Table, Unique(tb), NEW t \in Token,
         \A i \in Ids : tb.slot[i].token = t => ~ tb.slot[i].canceled
  PROVE  /\ ril_request_get_canceled(tb, t) = FALSE
         /\ \A i \in Ids : Registered(tb, t).slot[i].token = t =>
                             ~ Registered(tb, t).slot[i].canceled
<1> DEFINE new == Registered(tb, t)
           id == ril_request_get_id(tb, t)
<1>1. new \in Table BY RegisteredHolds
<1>2. \A i \in Ids : new.slot[i].token = t => ~ new.slot[i].canceled
  <2>1. CASE IsRegistered(tb, t) BY <2>1 DEF Registered
  <2>2. CASE ~ IsRegistered(tb, t)
    <3> DEFINE reg == ril_request_reg_id(tb, t)
    <3>1. /\ reg.slot[reg.last] = [token |-> t, canceled |-> FALSE]
          /\ \A i \in Ids : i # reg.last => reg.slot[i] = tb.slot[i]
      BY RegId
    <3>2. new = reg BY <2>2 DEF Registered
    <3> HIDE DEF reg, new
    <3> QED BY <3>1, <3>2
  <2> QED BY <2>1, <2>2
<1>3. id \in Ids /\ new.slot[id].token = t BY GetId
<1>4. ril_request_get_canceled(tb, t) = new.slot[id].canceled
  BY DEF ril_request_get_canceled
<1> HIDE DEF new, id
<1>5. new.slot[id].canceled \in BOOLEAN BY <1>1, <1>3 DEF Table, ril_request_token
<1> QED BY <1>2, <1>3, <1>4, <1>5 DEF new

(* Completing the request of an aseq reports a cancel only if it is one.   *)
LEMMA CompleteUnasked ==
  ASSUME Inv, NEW t \in Token, Uncancelled(t), NEW aseq \in Ids, NEW es \in Seq(Outcome),
         CompleteAseq(aseq, es), UNCHANGED <<table, asked>>
  PROVE  Uncancelled(t)'
<1> DEFINE u == ril_request_get_token(table, aseq)
           more == RIL_onRequestComplete(es, FALSE)
<1>1. /\ TypeOK /\ table \in Table /\ Unique(table) /\ answers[t] \in Seq(Errno)
  BY DEF Inv, TypeOK, Unique
<1>2. answers' = IF u = NoToken THEN answers
                 ELSE [answers EXCEPT ![u] =
                         @ \o RIL_onRequestComplete(es, ril_request_get_canceled(table, u))]
  BY DEF CompleteAseq
<1> HIDE DEF u
<1>3. CASE u # t
  <2>1. answers'[t] = answers[t] BY <1>1, <1>2, <1>3 DEF TypeOK
  <2> QED BY <2>1 DEF Uncancelled
<1>4. CASE u = t /\ asked[t] = "no"
  <2>1. /\ \A i \in Ids : table.slot[i].token = t => ~ table.slot[i].canceled
        /\ \A i \in DOMAIN answers[t] : answers[t][i] # "CANCELLED"
    BY <1>4 DEF Uncancelled
  <2>2. ril_request_get_canceled(table, t) = FALSE
    BY <1>1, <2>1, UnflaggedCompletion
  <2>3. answers'[t] = answers[t] \o more
    BY <1>1, <1>2, <1>4, <2>2, NoTokenAssumption DEF TypeOK
  <2>4. more \in Seq(Errno) BY OutcomesTyped, CompletedTyped
  <2>5. \A i \in DOMAIN more : more[i] # "CANCELLED" BY UncancelledAnswers
  <2> HIDE DEF more
  <2>6. \A i \in DOMAIN answers'[t] : answers'[t][i] # "CANCELLED"
    BY <1>1, <2>1, <2>3, <2>4, <2>5, JoinedPlaces
  <2> QED BY <2>1, <2>6 DEF Uncancelled
<1>5. CASE asked[t] # "no" BY <1>5 DEF Uncancelled
<1> QED BY <1>3, <1>4, <1>5

(* An onCancel in progress keeps its correctness as the table changes.     *)
LEMMA FlaggingKept ==
  ASSUME Inv, Flagging, UNCHANGED cancelling,
         \A u \in Token : asked[u] # "no" => asked'[u] # "no" \/ cancelling.token # u,
         Correct(table, Flag) => Correct(table', Flag)
  PROVE  Flagging'
<1>1. Flag' = Flag BY DEF Flag
<1> QED BY <1>1 DEF Flagging, Correct

(* Its index and its draw are such that the lemmas about Correct apply.    *)
LEMMA FlagPlaced == Inv => Flag.aseq \in Ids /\ Flag.draw \in Int
BY DEF Inv, TypeOK, Flag

(* An onCancel in progress applies to a new request of its token.          *)
LEMMA AskedIssued ==
  ASSUME Inv, NEW t \in Token, Issued(t), UNCHANGED cancelling
  PROVE  /\ \A u \in Token : u # t => asked'[u] = asked[u]
         /\ \A u \in Token : asked[u] # "no" => asked'[u] # "no" \/ cancelling.token # u
         /\ asked'[t] = "no" /\ IsRegistered(table, t) => ~ ril_request_get_canceled(table, t)
<1>1. asked' = [asked EXCEPT ![t] = AskedAtIssue(t)] BY DEF Issued
<1>2. asked \in [Token -> {"no", "inherited", "asking", "flagged"}] BY DEF Inv, TypeOK
<1>3. cancelling.token = t => AskedAtIssue(t) # "no" BY DEF AskedAtIssue
<1>4. AskedAtIssue(t) = "no" /\ IsRegistered(table, t) => ~ ril_request_get_canceled(table, t)
  BY DEF AskedAtIssue
<1> QED BY <1>1, <1>2, <1>3, <1>4

(* A request that inherits no flag has none in its slot.                   *)
LEMMA UnflaggedAtIssue ==
  ASSUME Inv, NEW t \in Token,
         IsRegistered(table, t) => ~ ril_request_get_canceled(table, t)
  PROVE  \A i \in Ids : table.slot[i].token = t => ~ table.slot[i].canceled
<1> SUFFICES ASSUME NEW i \in Ids, table.slot[i].token = t
             PROVE  ~ table.slot[i].canceled
  OBVIOUS
<1>1. table \in Table /\ Unique(table) BY DEF Inv, TypeOK, Unique
<1>2. IsRegistered(table, t) /\ Registered(table, t) = table
  BY DEF IsRegistered, Registered
<1>3. /\ ril_request_get_id(table, t) \in Ids
      /\ table.slot[ril_request_get_id(table, t)].token = t
  BY <1>1, <1>2, GetId
<1>4. ril_request_get_id(table, t) = i BY <1>1, <1>3, NoTokenAssumption DEF Unique
<1> QED BY <1>2, <1>4 DEF ril_request_get_canceled

-----------------------------------------------------------------------------
(* Each action keeps it.                                                   *)

(* A request that nobody cancelled has no flag when it is made.            *)
LEMMA OnRequestUncancelled ==
  ASSUME Inv, AskedInv, NEW t \in Token, onRequest(t), Abreast' PROVE AskedInv'
<1>1. /\ TypeOK /\ table \in Table /\ Unique(table) /\ answers \in [Token -> Seq(Errno)]
  BY DEF Inv, TypeOK, Unique
<1>2. PICK request \in Requests \ {"RADIO_POWER_OFF"} :
        Carry(t, IF ready THEN Handler(tone)[request] ELSE Answer("RADIO_NOT_AVAILABLE"))
  BY DEF onRequest
<1> DEFINE script == IF ready THEN Handler(tone)[request] ELSE Answer("RADIO_NOT_AVAILABLE")
           flag == script.registers /\ ril_request_get_canceled(table, t)
           new == RIL_onRequestComplete(script.now, flag)
<1>3. script.now \in Seq(Outcome)
  <2>1. request \in Request BY RequestsAssumption
  <2>2. Handler(tone)[request] \in Script BY <1>1, <2>1, HandlerTyped DEF TypeOK
  <2>3. Answer("RADIO_NOT_AVAILABLE") \in Script BY AnswerTyped DEF Errno, Outcome
  <2> QED BY <2>2, <2>3 DEF Script
<1>4. Issued(t) /\ UNCHANGED cancelling BY DEF onRequest
<1>5. /\ table' = table \/ table' = Registered(table, t)
      /\ answers' = [answers EXCEPT ![t] = new]
  BY <1>2 DEF Carry
<1> HIDE DEF script
<1>6. Flagging'
  <2>1. Correct(table, Flag) => Correct(table', Flag)
    BY <1>1, <1>5, FlagPlaced, InvCounter, CorrectRegistered
  <2> QED BY <1>4, <2>1, AskedIssued, FlaggingKept DEF AskedInv
<1>7. ASSUME NEW u \in Token, u # t PROVE Uncancelled(u)'
  <2>1. asked'[u] = asked[u] /\ answers'[u] = answers[u]
    BY <1>1, <1>4, <1>5, <1>7, AskedIssued
  <2>2. \A i \in Ids : table'.slot[i].token = u => table'.slot[i] = table.slot[i]
    BY <1>1, <1>5, <1>7, RegisteredSpares
  <2> QED BY <2>1, <2>2, UncancelledKept DEF AskedInv
<1>8. Uncancelled(t)'
  <2> SUFFICES ASSUME asked'[t] = "no"
               PROVE  /\ \A i \in Ids : table'.slot[i].token = t => ~ table'.slot[i].canceled
                      /\ \A i \in DOMAIN answers'[t] : answers'[t][i] # "CANCELLED"
    BY DEF Uncancelled
  <2>1. \A i \in Ids : table.slot[i].token = t => ~ table.slot[i].canceled
    BY <1>4, AskedIssued, UnflaggedAtIssue
  <2>2. /\ ril_request_get_canceled(table, t) = FALSE
        /\ \A i \in Ids : Registered(table, t).slot[i].token = t =>
                            ~ Registered(table, t).slot[i].canceled
    BY <1>1, <2>1, UnflaggedCompletion
  <2>3. flag = FALSE BY <2>2
  <2>4. new = RIL_onRequestComplete(script.now, FALSE) BY <2>3
  <2>5. \A i \in DOMAIN new : new[i] # "CANCELLED" BY <1>3, <2>4, UncancelledAnswers
  <2>6. answers'[t] = new BY <1>1, <1>5
  <2> HIDE DEF new
  <2> QED BY <1>5, <2>1, <2>2, <2>5, <2>6
<1> QED BY <1>6, <1>7, <1>8 DEF AskedInv

(* Powering the radio off answers one request and clears every slot.       *)
LEMMA RadioPowerOffUncancelled ==
  ASSUME Inv, AskedInv, NEW t \in Token, RadioPowerOff(t), Abreast' PROVE AskedInv'
<1> DEFINE reg == Registered(table, t)
           flag == ril_request_get_canceled(table, t)
           new == RIL_onRequestComplete(<<"SUCCESS">>, flag)
<1>1. /\ TypeOK /\ table \in Table /\ Unique(table) /\ answers \in [Token -> Seq(Errno)]
  BY DEF Inv, TypeOK, Unique
<1>2. /\ Issued(t) /\ UNCHANGED cancelling
      /\ table' = ril_requests_tokens_init(reg)
      /\ answers' = [answers EXCEPT ![t] = new]
  BY DEF RadioPowerOff
<1>3. reg \in Table BY <1>1, RegisteredHolds
<1>4. /\ table' \in Table /\ table'.last = reg.last /\ table'.drawn = reg.drawn
      /\ \A i \in Ids : table'.slot[i].token = NoToken
  <2> HIDE DEF reg
  <2>1. [i \in Ids |-> BlankSlot] \in [Ids -> ril_request_token]
    BY DEF BlankSlot, ril_request_token
  <2> QED BY <1>2, <1>3, <2>1 DEF Table, BlankSlot, ril_requests_tokens_init
<1>5. Flagging'
  <2>1. Correct(table, Flag) => Correct(reg, Flag)
    BY <1>1, FlagPlaced, InvCounter, CorrectRegistered
  <2> HIDE DEF reg
  <2>2. Correct(reg, Flag) => Correct(table', Flag)
    BY <1>3, <1>4, FlagPlaced, CorrectKept
  <2> QED BY <1>2, <2>1, <2>2, AskedIssued, FlaggingKept DEF AskedInv
<1>6. ASSUME NEW u \in Token, u # t PROVE Uncancelled(u)'
  <2>1. asked'[u] = asked[u] /\ answers'[u] = answers[u]
    BY <1>1, <1>2, <1>6, AskedIssued
  <2>2. \A i \in Ids : table'.slot[i].token # u BY <1>4, NoTokenAssumption
  <2> QED BY <2>1, <2>2, UncancelledKept DEF AskedInv
<1>7. Uncancelled(t)'
  <2> SUFFICES ASSUME asked'[t] = "no"
               PROVE  /\ \A i \in Ids : table'.slot[i].token = t => ~ table'.slot[i].canceled
                      /\ \A i \in DOMAIN answers'[t] : answers'[t][i] # "CANCELLED"
    BY DEF Uncancelled
  <2>1. \A i \in Ids : table.slot[i].token = t => ~ table.slot[i].canceled
    BY <1>2, AskedIssued, UnflaggedAtIssue
  <2>2. flag = FALSE BY <1>1, <2>1, UnflaggedCompletion
  <2>3. new = RIL_onRequestComplete(<<"SUCCESS">>, FALSE) BY <2>2
  <2>4. <<"SUCCESS">> \in Seq(Outcome) BY DEF Outcome, Errno
  <2>5. \A i \in DOMAIN new : new[i] # "CANCELLED" BY <2>3, <2>4, UncancelledAnswers
  <2>6. answers'[t] = new BY <1>1, <1>2
  <2>7. \A i \in Ids : table'.slot[i].token # t BY <1>4, NoTokenAssumption
  <2> HIDE DEF new
  <2> QED BY <2>5, <2>6, <2>7
<1> QED BY <1>5, <1>6, <1>7 DEF AskedInv

(* The lookup of onCancel finds an index for the token it was called for.  *)
LEMMA OnCancelLookupUncancelled ==
  ASSUME Inv, AskedInv, NEW t \in Token, OnCancelLookup(t), Abreast' PROVE AskedInv'
<1> DEFINE reg == Registered(table, t)
           id == ril_request_get_id(table, t)
<1>1. /\ TypeOK /\ table \in Table /\ Unique(table)
      /\ asked \in [Token -> {"no", "inherited", "asking", "flagged"}]
  BY DEF Inv, TypeOK, Unique
<1>2. /\ table' = reg /\ answers' = answers
      /\ cancelling' = [token |-> t, id |-> id, draw |-> DrawOf(table', id), step |-> "flag"]
      /\ asked' = [asked EXCEPT ![t] = "asking"]
  BY DEF OnCancelLookup, CancelAsked
<1>3. reg \in Table /\ reg.last \in Ids BY <1>1, InvCounter, RegisteredHolds
<1>4. id \in Ids /\ reg.slot[id].token = t BY <1>1, GetId
<1> HIDE DEF reg, id
<1>5. DrawOf(reg, id) <= reg.drawn BY <1>3, <1>4, DrawOfBounded
<1>6. Correct(table', Flag') BY <1>2, <1>4, <1>5 DEF Correct, Flag
<1>7. asked'[t] = "asking" /\ cancelling'.token = t BY <1>1, <1>2
<1>8. Flagging' BY <1>6, <1>7 DEF Flagging, Correct
<1>9. Uncancelled(t)' BY <1>7 DEF Uncancelled
<1>10. ASSUME NEW u \in Token, u # t PROVE Uncancelled(u)'
  <2>1. asked'[u] = asked[u] /\ answers'[u] = answers[u] BY <1>1, <1>2, <1>10
  <2>2. \A i \in Ids : table'.slot[i].token = u => table'.slot[i] = table.slot[i]
    BY <1>1, <1>2, <1>10, RegisteredSpares DEF reg
  <2> QED BY <2>1, <2>2, UncancelledKept DEF AskedInv
<1> QED BY <1>8, <1>9, <1>10 DEF AskedInv

(* Its store flags the token's own slot, or one that has been cleared.     *)
LEMMA OnCancelStoreUncancelled ==
  ASSUME Inv, AskedInv, OnCancelStore, Abreast' PROVE AskedInv'
<1> DEFINE id == cancelling.id
<1>1. /\ TypeOK /\ id \in Ids /\ table.slot \in [Ids -> ril_request_token]
      /\ DOMAIN table = {"last", "drawn", "slot"}
      /\ asked \in [Token -> {"no", "inherited", "asking", "flagged"}]
  BY DEF Inv, TypeOK, Table
<1>2. /\ cancelling # NotCancelling /\ cancelling' = NotCancelling
      /\ table' = [table EXCEPT !.slot[id].canceled = TRUE] /\ answers' = answers
      /\ \/ asked' = [asked EXCEPT ![cancelling.token] = "flagged"]
         \/ asked' = asked
  BY OnCancelStored
<1>3. PICK t \in Token : /\ t = cancelling.token /\ asked[t] # "no"
                         /\ table.slot[id].token \in {t, NoToken}
  <2>1. InWindow(table, cancelling.draw) BY <1>2 DEF AskedInv, Abreast
  <2> QED BY <1>2, <2>1 DEF AskedInv, Flagging, Correct, Flag
<1> HIDE DEF id
<1>4. table'.slot = [table.slot EXCEPT ![id] = [@ EXCEPT !.canceled = TRUE]]
  BY <1>1, <1>2
<1>5. /\ \A i \in Ids : table'.slot[i].token = table.slot[i].token
      /\ \A i \in Ids : i # id => table'.slot[i] = table.slot[i]
  BY <1>1, <1>4 DEF ril_request_token
<1>6. asked'[t] # "no" BY <1>1, <1>2, <1>3
<1>7. ASSUME NEW u \in Token, u # t PROVE Uncancelled(u)'
  <2>1. asked'[u] = asked[u] /\ answers'[u] = answers[u] BY <1>1, <1>2, <1>3, <1>7
  <2>2. \A i \in Ids : table'.slot[i].token = u => i # id
    BY <1>3, <1>5, <1>7, NoTokenAssumption
  <2> QED BY <1>5, <2>1, <2>2, UncancelledKept DEF AskedInv
<1>8. Uncancelled(t)' BY <1>6 DEF Uncancelled
<1>9. Flagging' BY <1>2 DEF Flagging
<1> QED BY <1>7, <1>8, <1>9 DEF AskedInv

(* The modem's replies complete requests.                                  *)
LEMMA GenUncancelled ==
  ASSUME Inv, AskedInv, NEW m \in wire, NEW code \in Code, ipc_gen_phone_res(m, code),
         Abreast'
  PROVE  AskedInv'
<1> DEFINE id == ipc_gen_phone_res_get_id(expects, m.aseq)
           x == expects.slot[id]
<1>1. TypeOK /\ expects \in Ring /\ m \in Owed BY DEF Inv, TypeOK
<1>2. UNCHANGED <<table, asked, cancelling>> BY DEF ipc_gen_phone_res
<1>3. id = -1 \/ id \in ExpectIds
  <2>1. m.aseq \in Ids BY <1>1 DEF Owed
  <2> QED BY <1>1, <2>1, GetExpect
<1>4. \/ id < 0 /\ answers' = answers
      \/ ~ id < 0 /\ CompleteAseq(x.aseq, GenAnswers(x, m.command, code))
  BY DEF ipc_gen_phone_res
<1> HIDE DEF id
<1>5. \A t \in Token : Uncancelled(t)'
  <2> SUFFICES ASSUME NEW t \in Token PROVE Uncancelled(t)' OBVIOUS
  <2>1. CASE answers' = answers BY <1>2, <2>1 DEF Uncancelled, AskedInv
  <2>2. CASE ~ id < 0 /\ CompleteAseq(x.aseq, GenAnswers(x, m.command, code))
    <3>1. x \in ipc_gen_phone_res_expect BY <1>1, <1>3, <2>2 DEF Ring
    <3>2. x.aseq \in Ids BY <3>1 DEF ipc_gen_phone_res_expect
    <3> HIDE DEF x
    <3>3. GenAnswers(x, m.command, code) \in Seq(Outcome) BY <3>1, GenAnswersTyped
    <3> QED BY <1>2, <2>2, <3>2, <3>3, CompleteUnasked DEF AskedInv
  <2> QED BY <1>4, <2>1, <2>2
<1>6. Flagging' BY <1>2, FlaggingKept DEF AskedInv
<1> QED BY <1>5, <1>6 DEF AskedInv

(* So do its responses.                                                    *)
LEMMA ResponseUncancelled ==
  ASSUME Inv, AskedInv, NEW m \in wire, NEW faulty \in BOOLEAN, Response(m, faulty),
         Abreast'
  PROVE  AskedInv'
<1>1. m \in Owed BY DEF Inv, TypeOK
<1>2. /\ m.reply = "RESP" /\ UNCHANGED <<table, asked, cancelling>>
      /\ CompleteAseq(m.aseq, ResponseHandler(faulty)[m.command])
  BY DEF Response
<1>3. m.aseq \in Ids /\ m.command \in ResponseCommand BY <1>1, <1>2 DEF Owed
<1>4. ResponseHandler(faulty)[m.command] \in Seq(Outcome) BY <1>3, ResponseTyped
<1>5. \A t \in Token : Uncancelled(t)' BY <1>2, <1>3, <1>4, CompleteUnasked DEF AskedInv
<1>6. Flagging' BY <1>2, FlaggingKept DEF AskedInv
<1> QED BY <1>5, <1>6 DEF AskedInv

(* The sound clients and a failing client touch no slot and no answer.     *)
LEMMA OthersUncancelled ==
  ASSUME Inv, AskedInv, (\E command : SrsSend(command)) \/ ClientFails \/ ClientReady,
         Abreast'
  PROVE  AskedInv'
<1>1. UNCHANGED <<asked, answers, cancelling>> BY DEF SrsSend, ClientFails, ClientReady
<1>2. table' = table \/ table' = ril_request_id_new(table)
  BY DEF SrsSend, ClientFails, ClientReady
<1>3. table \in Table BY DEF Inv, TypeOK
<1>4. /\ ril_request_id_new(table) \in Table
      /\ ril_request_id_new(table).drawn = table.drawn + 1
      /\ ril_request_id_new(table).slot = table.slot
  BY <1>3, NewIdTyped
<1>5. table'.slot = table.slot BY <1>2, <1>4
<1>6. \A t \in Token : Uncancelled(t)' BY <1>1, <1>5 DEF Uncancelled, AskedInv
<1>7. Correct(table, Flag) => Correct(table', Flag)
  BY <1>2, <1>3, <1>4, FlagPlaced, InvCounter, CorrectDrawn
<1>8. Flagging' BY <1>1, <1>7, FlaggingKept DEF AskedInv
<1> QED BY <1>6, <1>8 DEF AskedInv

(* Every step keeps it, and so does a step that changes nothing.           *)
LEMMA NextUncancelled ==
  ASSUME KeepsUp, Inv, AskedInv, [Next]_vars PROVE AskedInv'
<1>1. CASE UNCHANGED vars
  BY <1>1 DEF vars, AskedInv, Abreast, Flagging, Flag, Uncancelled
<1>2. CASE Next
  <2>1. Abreast' /\ ~ raced' BY <1>2, NextKeepsUp
  <2>2. ASSUME NEW t \in Token, onRequest(t) PROVE AskedInv'
    BY <2>1, <2>2, OnRequestUncancelled
  <2>3. ASSUME NEW t \in Token, RadioPowerOff(t) PROVE AskedInv'
    BY <2>1, <2>3, RadioPowerOffUncancelled
  <2>4. ASSUME NEW t \in Token, OnCancelLookup(t) PROVE AskedInv'
    BY <2>1, <2>4, OnCancelLookupUncancelled
  <2>5. ASSUME OnCancelStore PROVE AskedInv' BY <2>1, <2>5, OnCancelStoreUncancelled
  <2>6. ASSUME NEW m \in wire, NEW code \in Code, ipc_gen_phone_res(m, code)
        PROVE  AskedInv'
    BY <2>1, <2>6, GenUncancelled
  <2>7. ASSUME NEW m \in wire, NEW faulty \in BOOLEAN, Response(m, faulty)
        PROVE  AskedInv'
    BY <2>1, <2>7, ResponseUncancelled
  <2>8. ASSUME \/ srs_snd_set_call_clock_sync
               \/ srs_snd_set_call_volume
               \/ srs_snd_set_call_audio_path
               \/ ClientFails \/ ClientReady
        PROVE  AskedInv'
    BY <2>1, <2>8, OthersUncancelled DEF srs_snd_set_call_clock_sync,
         srs_snd_set_call_volume, srs_snd_set_call_audio_path
  <2> QED BY <1>2, <2>1, <2>2, <2>3, <2>4, <2>5, <2>6, <2>7, <2>8, Unraced
<1> QED BY <1>1, <1>2

(* Nothing is asked, flagged or answered when the driver starts.           *)
LEMMA InitUncancelled == Init => AskedInv
BY DEF Init, AskedInv, Abreast, Flagging, Uncancelled, InitialTable, BlankSlot

(* RIL_E_CANCELLED reaches nobody but those rild cancelled, as long as no  *)
(* counter comes round to an index still owed: an index drawn again does   *)
(* not pass the flag of its former request on, and onCancel, which holds   *)
(* no lock between its lookup and its store, flags no other request.       *)
THEOREM NobodyElseIsCancelled ==
  ASSUME KeepsUp PROVE Spec => []CancelledWhenAsked
<1>1. AskedInv => CancelledWhenAsked BY DEF AskedInv, Uncancelled, CancelledWhenAsked
<1>2. Inv /\ AskedInv /\ [Next]_vars => AskedInv' BY NextUncancelled
<1>3. Inv /\ [Next]_vars => Inv' BY NextKeepsUp
<1> QED BY InitInv, <1>3, InitUncancelled, <1>1, <1>2, PTL DEF Spec

-----------------------------------------------------------------------------
(* No request is answered twice.  An answer is owed by an expectation or   *)
(* by a message that asked for data.  As long as no counter comes round,   *)
(* no message is lost in a failure of the client and every request asks    *)
(* for one answer, an index other than 0 owes at most one, and its request *)
(* is waiting for it.                                                      *)

Orderly ==
  /\ KeepsUp
  /\ MaxFailures = 0
  /\ Requests \subseteq OneAnswer \cup {"RADIO_POWER_OFF"}

(* An answer is owed to whomever an index stands for.                      *)
Owes(a) ==
  \/ \E i \in ExpectIds : expects.slot[i].aseq = a
  \/ \E m \in wire : m.aseq = a /\ m.reply = "RESP"

(* The message whose result an expectation waits for.                      *)
ResultOf(m, x) ==
  m.aseq = x.aseq /\ m.command = x.command /\ m.reply = "GEN" /\ m.stored > 0

(* An expectation has a message whose result will take it; no two of them, *)
(* no two messages that asked for data, and not one of each have an index  *)
(* other than 0 in common; the request of an index that owes an answer has *)
(* none yet.                                                               *)
OweInv ==
  /\ \A m \in wire : m.reply # "GEN_RESP"
  /\ \A i \in ExpectIds : expects.slot[i].aseq # 0 =>
       \E m \in wire : ResultOf(m, expects.slot[i])
  /\ \A i, j \in ExpectIds : expects.slot[i].aseq = expects.slot[j].aseq =>
       i = j \/ expects.slot[i].aseq = 0
  /\ \A m, n \in wire : m.reply = "RESP" /\ n.reply = "RESP" /\ m.aseq = n.aseq =>
       m = n \/ m.aseq = 0
  /\ \A i \in ExpectIds : \A m \in wire :
       m.reply = "RESP" /\ expects.slot[i].aseq = m.aseq => m.aseq = 0
  /\ \A a \in Ids \ {0} : \A t \in Token :
       table.slot[a].token = t /\ Owes(a) => Pending(t)

(* While the counters keep up, no message has the index that is drawn.     *)
LEMMA DrawnIsFree ==
  ASSUME Inv, NEW new \in Table,
         new.last = ril_request_id_new(table).last, new.drawn = table.drawn + 1,
         \A i \in Ids : i # new.last => new.slot[i].token = table.slot[i].token,
         \A m \in wire : InWindow(new, m.draw)
  PROVE  \A m \in wire : m.aseq # new.last
<1> SUFFICES ASSUME NEW m \in wire, m.aseq = new.last PROVE FALSE OBVIOUS
<1>1. m \in Owed /\ table \in Table /\ Correct(table, m) BY DEF Inv, TypeOK
<1>2. m.aseq \in Ids /\ m.draw \in Int BY <1>1, OwedPlaced
<1>3. Correct(new, m) BY <1>1, <1>2, InvCounter, CorrectDrawn
<1>4. DrawOf(new, m.aseq) = m.draw BY <1>3 DEF Correct
<1>5. DrawOf(new, m.aseq) = new.drawn BY <1>1, <1>2, InvCounter, DrawOfNew
<1>6. m.draw <= table.drawn BY <1>1 DEF Correct
<1>7. table.drawn \in Nat BY <1>1 DEF Table
<1> QED BY <1>2, <1>4, <1>5, <1>6, <1>7

(* Where a token that was not registered is found.                         *)
LEMMA RegisteredAtLast ==
  ASSUME NEW tb \in Table, Unique(tb), NEW t \in Token, ~ IsRegistered(tb, t)
  PROVE  /\ Registered(tb, t) \in Table
         /\ Registered(tb, t).last = ril_request_id_new(tb).last
         /\ Registered(tb, t).drawn = tb.drawn + 1
         /\ \A i \in Ids : i # Registered(tb, t).last =>
              Registered(tb, t).slot[i] = tb.slot[i]
         /\ Registered(tb, t).slot[Registered(tb, t).last].token = t
         /\ ril_request_get_id(tb, t) = Registered(tb, t).last
<1> DEFINE reg == ril_request_reg_id(tb, t)
           id == ril_request_get_id(tb, t)
<1>1. /\ reg \in Table
      /\ reg.last = ril_request_id_new(tb).last
      /\ reg.drawn = tb.drawn + 1
      /\ reg.slot[reg.last] = [token |-> t, canceled |-> FALSE]
      /\ \A i \in Ids : i # reg.last => reg.slot[i] = tb.slot[i]
  BY RegId
<1>2. Registered(tb, t) = reg BY DEF Registered
<1>3. id \in Ids /\ reg.slot[id].token = t BY <1>2, GetId
<1>4. Unique(reg) BY <1>2, RegisteredHolds
<1> HIDE DEF reg, id
<1>5. reg.last \in Ids BY RegId DEF reg
<1>6. id = reg.last BY <1>1, <1>3, <1>4, <1>5, NoTokenAssumption DEF Unique
<1> QED BY <1>1, <1>2, <1>6 DEF id

(* Wherever a token stands once it is registered, while the counters keep  *)
(* up: an index that owes it nothing unless it was waiting already.        *)
LEMMA RegisteredIsFree ==
  ASSUME Inv, OweInv, NEW t \in Token, \A m \in wire : InWindow(Registered(table, t), m.draw)
  PROVE  \A b \in Ids \ {0} : Registered(table, t).slot[b].token = t /\ Owes(b) => Pending(t)
<1> DEFINE reg == Registered(table, t)
<1> SUFFICES ASSUME NEW b \in Ids \ {0}, reg.slot[b].token = t, Owes(b)
             PROVE  Pending(t)
  OBVIOUS
<1>1. table \in Table /\ Unique(table) BY DEF Inv, TypeOK, Unique
<1>2. CASE IsRegistered(table, t)
  <2>1. reg = table BY <1>2 DEF Registered
  <2> QED BY <2>1 DEF OweInv
<1>3. CASE ~ IsRegistered(table, t)
  <2>1. /\ reg \in Table /\ reg.last = ril_request_id_new(table).last
        /\ reg.drawn = table.drawn + 1
        /\ \A i \in Ids : i # reg.last => reg.slot[i] = table.slot[i]
    BY <1>1, <1>3, RegisteredAtLast
  <2>2. \A m \in wire : InWindow(reg, m.draw) OBVIOUS
  <2>3. b = reg.last
    <3>1. table.slot[b].token # t BY <1>3 DEF IsRegistered
    <3> QED BY <2>1, <3>1
  <2> HIDE DEF reg
  <2>4. \A m \in wire : m.aseq # b BY <2>1, <2>2, <2>3, DrawnIsFree
  <2>5. \A i \in ExpectIds : expects.slot[i].aseq # b BY <2>4 DEF OweInv, ResultOf
  <2> QED BY <2>4, <2>5 DEF Owes
<1> QED BY <1>2, <1>3

(* Another token's slots and answers are as they were.                     *)
LEMMA OthersPending ==
  ASSUME NEW u \in Token, Pending(u), issues'[u] = issues[u], answers'[u] = answers[u]
  PROVE  Pending(u)'
BY DEF Pending

(* A request that is answered at once, or waits for one answer, is owed no *)
(* other.                                                                  *)
LEMMA CarryOwes ==
  ASSUME Inv, OweInv, NEW t \in Token, NEW script \in Script, SoleAnswer(script),
         ~ Pending(t), Issued(t), Carry(t, script),
         \A m \in wire : InWindow(table', m.draw)
  PROVE  OweInv'
<1> DEFINE a == ril_request_get_id(table, t)
           ring == IF script.how = "none" THEN expects
                   ELSE Expecting(expects, a, script.command, script.how)
           tb == IF script.registers THEN Registered(table, t) ELSE table
           msg(m) == [aseq |-> a, command |-> m.command, part |-> m.part,
                      reply |-> m.reply, owner |-> t, issue |-> issues[t] + 1,
                      draw |-> DrawOf(tb, a),
                      stored |-> IF m.command = script.command THEN ring.drawn ELSE 0]
           new == RIL_onRequestComplete(script.now,
                    script.registers /\ ril_request_get_canceled(table, t))
<1>1. /\ TypeOK /\ table \in Table /\ Unique(table) /\ expects \in Ring
      /\ issues \in [Token -> Nat] /\ answers \in [Token -> Seq(Errno)]
  BY DEF Inv, TypeOK, Unique
<1>2. /\ table' = tb /\ expects' = ring
      /\ wire' = wire \cup {msg(m) : m \in script.sends}
      /\ answers' = [answers EXCEPT ![t] = new]
      /\ issues' = [issues EXCEPT ![t] = @ + 1]
  BY DEF Carry, Issued
<1>3. /\ \A u \in Token : u # t => issues'[u] = issues[u] /\ answers'[u] = answers[u]
      /\ answers'[t] = new /\ issues'[t] > 0
  BY <1>1, <1>2
<1>4. a \in Ids /\ Registered(table, t).slot[a].token = t BY <1>1, GetId
<1>5. Unique(Registered(table, t)) BY <1>1, RegisteredHolds
<1>6. script.registers \/ (script.sends = {} /\ script.how = "none") BY DEF Script
<1>7. script.command \in Command \cup {"NONE"} /\ script.how \in How BY DEF Script
<1>8. \A b \in Ids \ {0} : table'.slot[b].token = t => ~ Owes(b)
  <2>1. CASE script.registers BY <1>2, <2>1, RegisteredIsFree
  <2>2. CASE ~ script.registers BY <1>2, <2>2 DEF OweInv
  <2> QED BY <2>1, <2>2
<1>9. \A b \in Ids, u \in Token : u # t /\ table'.slot[b].token = u =>
        table.slot[b].token = u /\ ~ (script.registers /\ b = a)
  <2>1. CASE script.registers
    <3>1. table' = Registered(table, t) BY <1>2, <2>1
    <3> QED BY <1>1, <1>4, <3>1, RegisteredSpares
  <2>2. CASE ~ script.registers BY <1>2, <2>2
  <2> QED BY <2>1, <2>2
<1>10. script.registers => table'.slot[a].token = t BY <1>2, <1>4
<1>11. \A b \in Ids : script.registers /\ table'.slot[b].token = t => b = a
  BY <1>2, <1>4, <1>5, NoTokenAssumption DEF Unique
<1>12. script.registers /\ a # 0 => ~ Owes(a) BY <1>4, <1>8, <1>10
<1>13. \A m \in wire' : m \in wire \/ \E n \in script.sends : m = msg(n) BY <1>2
<1>14. script.now = <<>> => answers'[t] = <<>> BY <1>3 DEF RIL_onRequestComplete
<1> HIDE DEF a, tb, new
<1>15. ASSUME script.how = "none", \A m \in script.sends : m.reply = "GEN" PROVE OweInv'
  <2>1. \A m \in wire' : m \in wire \/ m.reply = "GEN" BY <1>13, <1>15
  <2>2. expects' = expects /\ wire \subseteq wire' BY <1>2, <1>15
  <2>3. \A b : Owes(b)' <=> Owes(b) BY <2>1, <2>2 DEF Owes
  <2>4. \A b \in Ids \ {0}, u \in Token : table'.slot[b].token = u /\ Owes(b)' => Pending(u)'
    <3> SUFFICES ASSUME NEW b \in Ids \ {0}, NEW u \in Token, table'.slot[b].token = u, Owes(b)'
                 PROVE  Pending(u)'
      OBVIOUS
    <3>1. Owes(b) /\ u # t BY <1>8, <2>3
    <3>2. Pending(u) BY <1>9, <3>1 DEF OweInv
    <3> QED BY <1>3, <3>1, <3>2, OthersPending
  <2>5. \A m \in wire' : m.reply # "GEN_RESP" BY <2>1 DEF OweInv
  <2>6. \A i \in ExpectIds : expects'.slot[i].aseq # 0 =>
          \E m \in wire' : ResultOf(m, expects'.slot[i])
    BY <2>2 DEF OweInv
  <2>7. \A m \in wire' : m.reply = "RESP" => m \in wire BY <2>1
  <2> QED BY <2>2, <2>4, <2>5, <2>6, <2>7 DEF OweInv
<1>16. ASSUME script.how = "none", script.now = <<>>, script.registers,
              \A m \in script.sends : m.reply = "RESP"
       PROVE  OweInv'
  <2>1. \A m \in wire' : m \in wire \/ (m.reply = "RESP" /\ m.aseq = a)
    BY <1>13, <1>16
  <2>2. \A m, n \in wire' : m \in wire \/ n \in wire \/ m = n
    <3> SUFFICES ASSUME NEW m \in wire', NEW n \in wire', m \notin wire, n \notin wire
                 PROVE  m = n
      OBVIOUS
    <3>1. PICK x \in script.sends : m = msg(x) BY <1>13
    <3>2. PICK y \in script.sends : n = msg(y) BY <1>13
    <3>3. x = y BY DEF SoleAnswer
    <3> QED BY <3>1, <3>2, <3>3
  <2>3. expects' = expects /\ wire \subseteq wire' BY <1>2, <1>16
  <2>4. \A b : Owes(b)' => Owes(b) \/ b = a BY <2>1, <2>3 DEF Owes
  <2>5. \A b \in Ids \ {0}, u \in Token : table'.slot[b].token = u /\ Owes(b)' => Pending(u)'
    <3> SUFFICES ASSUME NEW b \in Ids \ {0}, NEW u \in Token, table'.slot[b].token = u, Owes(b)'
                 PROVE  Pending(u)'
      OBVIOUS
    <3>1. CASE u = t BY <1>3, <1>14, <1>16, <3>1 DEF Pending
    <3>2. CASE u # t
      <4>1. Owes(b) /\ Pending(u) BY <1>9, <1>16, <2>4, <3>2 DEF OweInv
      <4> QED BY <1>3, <3>2, <4>1, OthersPending
    <3> QED BY <3>1, <3>2
  <2>6. \A m \in wire' : m.reply # "GEN_RESP" BY <2>1 DEF OweInv
  <2>7. \A i \in ExpectIds : expects'.slot[i].aseq # 0 =>
          \E m \in wire' : ResultOf(m, expects'.slot[i])
    BY <2>3 DEF OweInv
  <2>8. \A m \in wire : a # 0 /\ m.reply = "RESP" => m.aseq # a
    BY <1>12, <1>16 DEF Owes
  <2>9. \A i \in ExpectIds : a # 0 => expects.slot[i].aseq # a BY <1>12, <1>16 DEF Owes
  <2>10. \A m, n \in wire' : m.reply = "RESP" /\ n.reply = "RESP" /\ m.aseq = n.aseq =>
           m = n \/ m.aseq = 0
    <3> SUFFICES ASSUME NEW m \in wire', NEW n \in wire', m.reply = "RESP",
                        n.reply = "RESP", m.aseq = n.aseq, m.aseq # 0
                 PROVE  m = n
      OBVIOUS
    <3>1. CASE m \in wire /\ n \in wire BY <3>1 DEF OweInv
    <3>2. CASE m \in wire /\ n \notin wire BY <2>1, <2>8, <3>2
    <3>3. CASE m \notin wire /\ n \in wire BY <2>1, <2>8, <3>3
    <3>4. CASE m \notin wire /\ n \notin wire BY <2>2, <3>4
    <3> QED BY <3>1, <3>2, <3>3, <3>4
  <2>11. \A i \in ExpectIds : \A m \in wire' :
           m.reply = "RESP" /\ expects'.slot[i].aseq = m.aseq => m.aseq = 0
    BY <2>1, <2>3, <2>9 DEF OweInv
  <2>12. \A i, j \in ExpectIds : expects'.slot[i].aseq = expects'.slot[j].aseq =>
           i = j \/ expects'.slot[i].aseq = 0
    BY <2>3 DEF OweInv
  <2> QED BY <2>5, <2>6, <2>7, <2>10, <2>11, <2>12 DEF OweInv
<1>17. ASSUME script.how # "none", script.now = <<>>,
              \E m \in script.sends : m.reply = "GEN" /\ m.command = script.command,
              \A m \in script.sends : m.reply = "GEN"
       PROVE  OweInv'
  <2>1. \A m \in wire' : m \in wire \/ (m.reply = "GEN" /\ m.aseq = a)
    BY <1>13, <1>17
  <2>3. /\ ring.last \in ExpectIds /\ ring.slot[ring.last].aseq = a
        /\ ring.slot[ring.last].command = script.command /\ ring.drawn > 0
        /\ \A i \in ExpectIds : i # ring.last => ring.slot[i] = expects.slot[i]
    <3> DEFINE stored == Expecting(expects, a, script.command, script.how)
               x == [aseq |-> a, command |-> script.command, how |-> script.how]
    <3>1. ring = stored BY <1>17
    <3>2. StoredNext(expects, stored, x) BY <1>1, <1>4, <1>7, ExpectingSlots
    <3>3. x.aseq = a /\ x.command = script.command OBVIOUS
    <3>4. expects.drawn \in Nat BY <1>1 DEF Ring
    <3> HIDE DEF ring, stored, x
    <3> QED BY <3>1, <3>2, <3>3, <3>4 DEF StoredNext
  <2> HIDE DEF ring
  <2>2. wire \subseteq wire' /\ \E m \in wire' : ResultOf(m, ring.slot[ring.last])
    <3>1. PICK x \in script.sends : x.reply = "GEN" /\ x.command = script.command BY <1>17
    <3>2. msg(x) \in wire' BY <1>2, <3>1
    <3>3. ResultOf(msg(x), ring.slot[ring.last]) BY <2>3, <3>1 DEF ResultOf
    <3> QED BY <1>2, <3>2, <3>3
  <2>4. \A b : Owes(b)' => Owes(b) \/ b = a BY <1>2, <2>1, <2>3 DEF Owes
  <2>5. \A b \in Ids \ {0}, u \in Token : table'.slot[b].token = u /\ Owes(b)' => Pending(u)'
    <3> SUFFICES ASSUME NEW b \in Ids \ {0}, NEW u \in Token, table'.slot[b].token = u, Owes(b)'
                 PROVE  Pending(u)'
      OBVIOUS
    <3>1. CASE u = t BY <1>3, <1>14, <1>17, <3>1 DEF Pending
    <3>2. CASE u # t
      <4>1. Owes(b) /\ Pending(u) BY <1>6, <1>9, <1>17, <2>4, <3>2 DEF OweInv
      <4> QED BY <1>3, <3>2, <4>1, OthersPending
    <3> QED BY <3>1, <3>2
  <2>6. \A m \in wire' : m.reply # "GEN_RESP" BY <2>1 DEF OweInv
  <2>7. \A i \in ExpectIds : expects'.slot[i].aseq # 0 =>
          \E m \in wire' : ResultOf(m, expects'.slot[i])
    <3> SUFFICES ASSUME NEW i \in ExpectIds, expects'.slot[i].aseq # 0
                 PROVE  \E m \in wire' : ResultOf(m, expects'.slot[i])
      OBVIOUS
    <3>1. CASE i = ring.last BY <1>2, <2>2, <2>3, <3>1
    <3>2. CASE i # ring.last BY <1>2, <2>2, <2>3, <3>2 DEF OweInv
    <3> QED BY <3>1, <3>2
  <2>8. \A i \in ExpectIds : a # 0 => expects.slot[i].aseq # a BY <1>6, <1>12, <1>17 DEF Owes
  <2>9. \A m \in wire : a # 0 /\ m.reply = "RESP" => m.aseq # a
    BY <1>6, <1>12, <1>17 DEF Owes
  <2>10. \A m, n \in wire' : m.reply = "RESP" /\ n.reply = "RESP" /\ m.aseq = n.aseq =>
           m = n \/ m.aseq = 0
    BY <2>1 DEF OweInv
  <2>11. \A i \in ExpectIds : \A m \in wire' :
           m.reply = "RESP" /\ expects'.slot[i].aseq = m.aseq => m.aseq = 0
    <3> SUFFICES ASSUME NEW i \in ExpectIds, NEW m \in wire', m.reply = "RESP",
                        expects'.slot[i].aseq = m.aseq
                 PROVE  m.aseq = 0
      OBVIOUS
    <3>1. m \in wire BY <2>1
    <3>2. CASE i = ring.last BY <1>2, <2>3, <2>9, <3>1, <3>2
    <3>3. CASE i # ring.last BY <1>2, <2>3, <3>1, <3>3 DEF OweInv
    <3> QED BY <3>2, <3>3
  <2>12. \A i, j \in ExpectIds : expects'.slot[i].aseq = expects'.slot[j].aseq =>
           i = j \/ expects'.slot[i].aseq = 0
    <3> SUFFICES ASSUME NEW i \in ExpectIds, NEW j \in ExpectIds, i # j,
                        expects'.slot[i].aseq = expects'.slot[j].aseq
                 PROVE  expects'.slot[i].aseq = 0
      OBVIOUS
    <3>1. CASE i = ring.last BY <1>2, <2>3, <2>8, <3>1
    <3>2. CASE j = ring.last BY <1>2, <2>3, <2>8, <3>2
    <3>3. CASE i # ring.last /\ j # ring.last BY <1>2, <2>3, <3>3 DEF OweInv
    <3> QED BY <3>1, <3>2, <3>3
  <2> QED BY <2>5, <2>6, <2>7, <2>10, <2>11, <2>12 DEF OweInv
<1> HIDE DEF ring
<1>18. CASE script.registers
  <2>1. CASE script.how = "none" /\ \A m \in script.sends : m.reply = "GEN"
    BY <1>15, <2>1
  <2>2. CASE script.how = "none" /\ script.now = <<>> /\ \A m \in script.sends : m.reply = "RESP"
    BY <1>16, <1>18, <2>2
  <2>3. CASE /\ script.how # "none" /\ script.now = <<>>
             /\ \E m \in script.sends : m.reply = "GEN" /\ m.command = script.command
    <3>1. \A m \in script.sends : m.reply = "GEN" BY <2>3 DEF SoleAnswer
    <3> QED BY <1>17, <2>3, <3>1
  <2> QED BY <2>1, <2>2, <2>3 DEF SoleAnswer
<1>19. CASE ~ script.registers BY <1>6, <1>15, <1>19
<1> QED BY <1>18, <1>19

(* A completion answers the request its aseq stands for.                   *)
LEMMA CompleteTouches ==
  ASSUME TypeOK, NEW aseq, NEW es, CompleteAseq(aseq, es)
  PROVE  \A t \in Token : table.slot[aseq].token # t => answers'[t] = answers[t]
BY DEF TypeOK, CompleteAseq, ril_request_get_token

(* A step that answers at most the request of one index, and takes what    *)
(* that index owes, keeps the others waiting.                              *)
LEMMA TakenOwes ==
  ASSUME Inv, OweInv, NEW m \in wire, wire' = wire \ {m}, UNCHANGED <<table, issues>>,
         \A i \in ExpectIds : expects'.slot[i].aseq # 0 => expects'.slot[i] = expects.slot[i],
         \A i \in ExpectIds : expects'.slot[i].aseq # 0 => expects'.slot[i].aseq # m.aseq
           \/ m.reply = "RESP",
         \A t \in Token : table.slot[m.aseq].token # t => answers'[t] = answers[t],
         m.aseq # 0 /\ answers' # answers => ~ Owes(m.aseq)'
  PROVE  OweInv'
<1>1. /\ m \in Owed /\ m.aseq \in Ids BY OwedPlaced DEF Inv, TypeOK
<1>2. \A b : b # 0 /\ Owes(b)' => Owes(b) BY DEF Owes
<1>3. \A b \in Ids \ {0}, u \in Token : table'.slot[b].token = u /\ Owes(b)' => Pending(u)'
  <2> SUFFICES ASSUME NEW b \in Ids \ {0}, NEW u \in Token, table.slot[b].token = u, Owes(b)'
               PROVE  Pending(u)'
    OBVIOUS
  <2>1. Pending(u) BY <1>2 DEF OweInv
  <2>2. answers'[u] = answers[u]
    <3>1. CASE table.slot[m.aseq].token # u BY <3>1
    <3>2. CASE table.slot[m.aseq].token = u
      <4>1. m.aseq = b BY <1>1, <3>2, NoTokenAssumption DEF Inv, Unique
      <4> QED BY <4>1
    <3> QED BY <3>1, <3>2
  <2> QED BY <2>1, <2>2, OthersPending
<1>4. \A n \in wire' : n \in wire /\ n.reply # "GEN_RESP" BY DEF OweInv
<1>5. \A i \in ExpectIds : expects'.slot[i].aseq # 0 =>
        \E n \in wire' : ResultOf(n, expects'.slot[i])
  <2> SUFFICES ASSUME NEW i \in ExpectIds, expects'.slot[i].aseq # 0
               PROVE  \E n \in wire' : ResultOf(n, expects'.slot[i])
    OBVIOUS
  <2>1. PICK n \in wire : ResultOf(n, expects'.slot[i]) BY DEF OweInv
  <2>2. n # m BY <2>1 DEF ResultOf
  <2> QED BY <2>1, <2>2
<1>6. \A i, j \in ExpectIds : expects'.slot[i].aseq = expects'.slot[j].aseq =>
        i = j \/ expects'.slot[i].aseq = 0
  BY DEF OweInv
<1>7. \A i \in ExpectIds : \A n \in wire' :
        n.reply = "RESP" /\ expects'.slot[i].aseq = n.aseq => n.aseq = 0
  BY <1>4 DEF OweInv
<1>8. \A n, o \in wire' : n.reply = "RESP" /\ o.reply = "RESP" /\ n.aseq = o.aseq =>
        n = o \/ n.aseq = 0
  BY <1>4 DEF OweInv
<1> QED BY <1>3, <1>4, <1>5, <1>6, <1>7, <1>8 DEF OweInv

-----------------------------------------------------------------------------
(* Each action keeps it.                                                   *)

(* The script a request is carried out by asks for one answer.             *)
LEMMA RequestedScript ==
  ASSUME Requests \subseteq OneAnswer \cup {"RADIO_POWER_OFF"}, Inv, NEW t \in Token, onRequest(t)
  PROVE  \E script \in Script : SoleAnswer(script) /\ Carry(t, script)
<1>1. PICK request \in Requests \ {"RADIO_POWER_OFF"} :
        Carry(t, IF ready THEN Handler(tone)[request] ELSE Answer("RADIO_NOT_AVAILABLE"))
  BY DEF onRequest
<1>2. tone \in BOOLEAN BY DEF Inv, TypeOK
<1>3. request \in OneAnswer /\ request \in Request
  BY <1>1, RequestsAssumption
<1>4. Handler(tone)[request] \in Script BY <1>2, <1>3, HandlerTyped
<1>5. SoleAnswer(Handler(tone)[request]) BY <1>2, <1>3 DEF OneAnswer
<1>6. "RADIO_NOT_AVAILABLE" \in Outcome BY DEF Outcome, Errno
<1>7. Answer("RADIO_NOT_AVAILABLE") \in Script BY <1>6, AnswerTyped
<1>8. SoleAnswer(Answer("RADIO_NOT_AVAILABLE"))
  BY <1>6 DEF SoleAnswer, Answer, Silent
<1> QED BY <1>1, <1>4, <1>5, <1>7, <1>8

(* A new request.                                                          *)
LEMMA OnRequestOwes ==
  ASSUME Orderly, Inv, OweInv, NEW t \in Token, onRequest(t), Abreast' PROVE OweInv'
<1>1. PICK script \in Script : SoleAnswer(script) /\ Carry(t, script)
  BY RequestedScript DEF Orderly
<1>2. ~ Pending(t) /\ Issued(t) BY DEF onRequest, Issuable
<1>3. wire \subseteq wire' BY <1>1 DEF Carry
<1>4. \A m \in wire : InWindow(table', m.draw) BY <1>3 DEF Abreast
<1> QED BY <1>1, <1>2, <1>4, CarryOwes

(* RADIO_POWER off: nothing stands for anybody, and nothing is expected.   *)
LEMMA RadioPowerOffOwes ==
  ASSUME Inv, OweInv, NEW t \in Token, RadioPowerOff(t) PROVE OweInv'
<1>1. /\ TypeOK /\ table \in Table /\ expects \in Ring BY DEF Inv, TypeOK
<1>2. /\ wire' = wire /\ table' = ril_requests_tokens_init(Registered(table, t))
      /\ expects' = ipc_gen_phone_res_expects_init(expects)
  BY DEF RadioPowerOff
<1>3. Registered(table, t) \in Table BY <1>1, RegisteredHolds
<1>4. \A i \in Ids : table'.slot[i].token = NoToken
  BY <1>2, <1>3 DEF ril_requests_tokens_init, BlankSlot, Table
<1>5. \A i \in ExpectIds : expects'.slot[i].aseq = 0
  BY <1>1, <1>2 DEF ipc_gen_phone_res_expects_init, CleanSlot, Ring
<1> QED BY <1>2, <1>4, <1>5, NoTokenAssumption DEF OweInv

(* The lookup of onCancel may give a token an index, that owes nothing.    *)
LEMMA OnCancelLookupOwes ==
  ASSUME Inv, OweInv, NEW t \in Token, OnCancelLookup(t), Abreast' PROVE OweInv'
<1>1. /\ TypeOK /\ table \in Table BY DEF Inv, TypeOK
<1>2. /\ table' = Registered(table, t) /\ UNCHANGED <<wire, expects, issues, answers>>
      /\ Pending(t)
  BY DEF OnCancelLookup, CancelAsked
<1>3. \A b \in Ids \ {0}, u \in Token : table'.slot[b].token = u /\ Owes(b)' => Pending(u)'
  <2> SUFFICES ASSUME NEW b \in Ids \ {0}, NEW u \in Token, table'.slot[b].token = u, Owes(b)'
               PROVE  Pending(u)'
    OBVIOUS
  <2>1. Owes(b) BY <1>2 DEF Owes
  <2>2. CASE u = t BY <1>2, <2>2, OthersPending
  <2>3. CASE u # t
    <3>1. table.slot[b].token = u BY <1>1, <1>2, <2>3, RegisteredSpares
    <3>2. Pending(u) BY <2>1, <3>1 DEF OweInv
    <3> QED BY <1>2, <3>2, OthersPending
  <2> QED BY <2>2, <2>3
<1> QED BY <1>2, <1>3 DEF OweInv

(* Its store, the sound clients and a client that gets ready write no      *)
(* token, and neither expect nor ask for anything.                         *)
LEMMA OthersOwe ==
  ASSUME Inv, OweInv, OnCancelStore \/ (\E command : SrsSend(command)) \/ ClientReady
  PROVE  OweInv'
<1>1. /\ TypeOK /\ table \in Table BY DEF Inv, TypeOK
<1>2. /\ UNCHANGED <<expects, issues, answers>> /\ wire \subseteq wire'
      /\ \A m \in wire' : m \in wire \/ m.reply = "GEN"
  BY OnCancelStored DEF SrsSend, ClientReady
<1>3. \A i \in Ids : table'.slot[i].token = table.slot[i].token
  <2>1. CASE OnCancelStore BY <2>1, OnCancelStored
  <2>2. CASE \E command : SrsSend(command)
    <3>1. table' = ril_request_id_new(table) BY <2>2 DEF SrsSend
    <3> QED BY <1>1, <3>1, NewIdTyped
  <2>3. CASE ClientReady BY <2>3 DEF ClientReady
  <2> QED BY <2>1, <2>2, <2>3
<1>4. \A b : Owes(b)' => Owes(b) BY <1>2 DEF Owes
<1>5. \A b \in Ids \ {0}, u \in Token : table'.slot[b].token = u /\ Owes(b)' => Pending(u)'
  BY <1>2, <1>3, <1>4 DEF OweInv, Pending
<1>6. \A i \in ExpectIds : expects'.slot[i].aseq # 0 =>
        \E m \in wire' : ResultOf(m, expects'.slot[i])
  BY <1>2 DEF OweInv
<1>7. \A m \in wire' : m.reply # "GEN_RESP" BY <1>2 DEF OweInv
<1> QED BY <1>2, <1>5, <1>6, <1>7 DEF OweInv

(* What a delivery without a response to come takes from the wire.         *)
LEMMA DeliveredTakes ==
  ASSUME OweInv, NEW m \in wire, NEW reply, NEW code, Delivered(m, reply, code)
  PROVE  wire' = wire \ {m}
BY DEF OweInv, Delivered

(* A result takes the expectation of its aseq.                             *)
LEMMA GenOwes ==
  ASSUME Inv, OweInv, NEW m \in wire, NEW code \in Code, ipc_gen_phone_res(m, code)
  PROVE  OweInv'
<1> DEFINE id == ipc_gen_phone_res_get_id(expects, m.aseq)
           x == expects.slot[id]
<1>1. TypeOK /\ expects \in Ring /\ m \in Owed /\ m.aseq \in Ids
  BY OwedPlaced DEF Inv, TypeOK
<1>2. wire' = wire \ {m} BY DeliveredTakes DEF ipc_gen_phone_res
<1>3. UNCHANGED <<table, issues>> BY DEF ipc_gen_phone_res
<1>4. \/ id = -1 /\ \A i \in ExpectIds : expects.slot[i].aseq # m.aseq
      \/ id \in ExpectIds /\ x.aseq = m.aseq
  BY <1>1, GetExpect
<1>5. \/ id < 0 /\ UNCHANGED <<expects, answers>>
      \/ /\ ~ id < 0
         /\ CompleteAseq(x.aseq, GenAnswers(x, m.command, code))
         /\ expects' = ipc_gen_phone_res_clean_id(expects, id)
  BY DEF ipc_gen_phone_res
<1> HIDE DEF id
<1>6. CASE id = -1 /\ \A i \in ExpectIds : expects.slot[i].aseq # m.aseq
  <2>1. UNCHANGED <<expects, answers>> BY <1>5, <1>6
  <2> QED BY <1>2, <1>3, <1>6, <2>1, TakenOwes
<1>7. CASE id \in ExpectIds /\ x.aseq = m.aseq
  <2>1. ~ id < 0 BY <1>7 DEF ExpectIds
  <2>2. /\ CompleteAseq(m.aseq, GenAnswers(x, m.command, code))
        /\ expects' = ipc_gen_phone_res_clean_id(expects, id)
    BY <1>5, <1>7, <2>1
  <2>3. /\ expects'.slot[id].aseq = 0
        /\ \A i \in ExpectIds : i # id => expects'.slot[i] = expects.slot[i]
    BY <1>1, <1>7, <2>2, CleanSlots DEF CleanSlot
  <2>4. \A i \in ExpectIds : expects'.slot[i].aseq # 0 => expects'.slot[i] = expects.slot[i]
    BY <2>3
  <2>5. \A i \in ExpectIds : expects'.slot[i].aseq # 0 => expects'.slot[i].aseq # m.aseq
    BY <1>7, <2>3 DEF OweInv
  <2>6. \A t \in Token : table.slot[m.aseq].token # t => answers'[t] = answers[t]
    BY <1>1, <2>2, CompleteTouches
  <2>7. m.aseq # 0 => ~ Owes(m.aseq)'
    <3>1. \A n \in wire : m.aseq # 0 /\ n.reply = "RESP" => n.aseq # m.aseq
      BY <1>7 DEF OweInv
    <3> QED BY <1>2, <2>5, <3>1 DEF Owes
  <2> HIDE DEF x
  <2> QED BY <1>2, <1>3, <2>4, <2>5, <2>6, <2>7, TakenOwes
<1> QED BY <1>4, <1>6, <1>7

(* A response is itself what was owed.                                     *)
LEMMA ResponseOwes ==
  ASSUME Inv, OweInv, NEW m \in wire, NEW faulty \in BOOLEAN, Response(m, faulty)
  PROVE  OweInv'
<1>1. TypeOK BY DEF Inv
<1>2. wire' = wire \ {m} BY DeliveredTakes DEF Response
<1>3. /\ UNCHANGED <<table, issues, expects>> /\ m.reply = "RESP"
      /\ CompleteAseq(m.aseq, ResponseHandler(faulty)[m.command])
  BY DEF Response
<1>4. \A t \in Token : table.slot[m.aseq].token # t => answers'[t] = answers[t]
  BY <1>1, <1>3, CompleteTouches
<1>5. m.aseq # 0 => ~ Owes(m.aseq)' BY <1>2, <1>3 DEF OweInv, Owes
<1> QED BY <1>2, <1>3, <1>4, <1>5, TakenOwes

(* The client does not fail in this setting.                               *)
LEMMA NoFailure == Orderly /\ Inv => ~ ClientFails
BY DEF Orderly, Inv, TypeOK, ClientFails

(* Every step keeps it, and so does a step that changes nothing.           *)
LEMMA NextOwes == ASSUME Orderly, Inv, OweInv, [Next]_vars PROVE OweInv'
<1>1. CASE UNCHANGED vars BY <1>1 DEF vars, OweInv, Owes, Pending
<1>2. CASE Next
  <2>1. Abreast' /\ ~ raced' BY <1>2, NextKeepsUp DEF Orderly
  <2>2. ASSUME NEW t \in Token, onRequest(t) PROVE OweInv' BY <2>1, <2>2, OnRequestOwes
  <2>3. ASSUME NEW t \in Token, RadioPowerOff(t) PROVE OweInv' BY <2>3, RadioPowerOffOwes
  <2>4. ASSUME NEW t \in Token, OnCancelLookup(t) PROVE OweInv'
    BY <2>1, <2>4, OnCancelLookupOwes
  <2>5. ASSUME NEW m \in wire, NEW code \in Code, ipc_gen_phone_res(m, code) PROVE OweInv'
    BY <2>5, GenOwes
  <2>6. ASSUME NEW m \in wire, NEW faulty \in BOOLEAN, Response(m, faulty) PROVE OweInv'
    BY <2>6, ResponseOwes
  <2>7. ASSUME \/ OnCancelStore \/ ClientReady
               \/ srs_snd_set_call_clock_sync
               \/ srs_snd_set_call_volume
               \/ srs_snd_set_call_audio_path
        PROVE  OweInv'
    BY <2>7, OthersOwe DEF srs_snd_set_call_clock_sync, srs_snd_set_call_volume,
                           srs_snd_set_call_audio_path
  <2> QED BY <1>2, <2>1, <2>2, <2>3, <2>4, <2>5, <2>6, <2>7, NoFailure, Unraced
<1> QED BY <1>1, <1>2

(* Nothing is expected and nothing is asked for when the driver starts.    *)
LEMMA InitOwes == Init => OweInv
BY NoTokenAssumption DEF Init, OweInv, InitialTable, BlankSlot, InitialRing, CleanSlot

(* Only the request of an index that owes an answer is answered, or a      *)
(* request when it is made.                                                *)
LEMMA NextAnswersOnce ==
  ASSUME Orderly, Inv, OweInv, Next, NEW t \in Token, answers[t] # <<>>,
         answers'[t] # answers[t]
  PROVE  issues'[t] # issues[t] \/ table.slot[0].token = t
<1>1. TypeOK /\ issues \in [Token -> Nat] BY DEF Inv, TypeOK
<1>2. ~ Pending(t) BY DEF Pending
<1>3. ASSUME NEW u \in Token, onRequest(u) \/ RadioPowerOff(u)
      PROVE  issues'[t] # issues[t]
  <2>1. /\ issues' = [issues EXCEPT ![u] = @ + 1]
        /\ \E es : answers' = [answers EXCEPT ![u] = es]
    BY <1>3 DEF onRequest, RadioPowerOff, Carry, Issued
  <2>2. u = t BY <1>1, <2>1 DEF TypeOK
  <2> QED BY <1>1, <2>1, <2>2
<1>4. ASSUME NEW m \in wire, NEW code \in Code, ipc_gen_phone_res(m, code)
      PROVE  table.slot[0].token = t
  <2> DEFINE id == ipc_gen_phone_res_get_id(expects, m.aseq)
             x == expects.slot[id]
  <2>1. expects \in Ring /\ m \in Owed /\ m.aseq \in Ids
    BY OwedPlaced DEF Inv, TypeOK
  <2>2. \/ id = -1
        \/ id \in ExpectIds /\ x.aseq = m.aseq
    BY <2>1, GetExpect
  <2>3. ~ id < 0 /\ CompleteAseq(x.aseq, GenAnswers(x, m.command, code))
    BY <1>4 DEF ipc_gen_phone_res
  <2>4. id \in ExpectIds /\ x.aseq = m.aseq
    <3> HIDE DEF id
    <3> QED BY <2>2, <2>3
  <2>5. table.slot[m.aseq].token = t BY <1>1, <2>3, <2>4, CompleteTouches
  <2>6. Owes(m.aseq) BY <2>4 DEF Owes
  <2> QED BY <1>2, <2>1, <2>5, <2>6 DEF OweInv
<1>5. ASSUME NEW m \in wire, NEW faulty \in BOOLEAN, Response(m, faulty)
      PROVE  table.slot[0].token = t
  <2>1. m.reply = "RESP" /\ CompleteAseq(m.aseq, ResponseHandler(faulty)[m.command])
    BY <1>5 DEF Response
  <2>2. m.aseq \in Ids BY OwedPlaced DEF Inv, TypeOK
  <2>3. table.slot[m.aseq].token = t BY <1>1, <2>1, CompleteTouches
  <2>4. Owes(m.aseq) BY <2>1 DEF Owes
  <2> QED BY <1>2, <2>2, <2>3, <2>4 DEF OweInv
<1>6. ~ OnCancelStore /\ ~ ClientFails /\ ~ ClientReady /\ \A u \in Token : ~ OnCancelLookup(u)
  BY OnCancelStored DEF ClientFails, ClientReady, OnCancelLookup, CancelAsked
<1>7. /\ ~ srs_snd_set_call_clock_sync /\ ~ srs_snd_set_call_volume
      /\ ~ srs_snd_set_call_audio_path
  BY DEF srs_snd_set_call_clock_sync, srs_snd_set_call_volume,
         srs_snd_set_call_audio_path, SrsSend
<1>8. ~ raced' BY NextKeepsUp DEF Orderly
<1> QED BY <1>3, <1>4, <1>5, <1>6, <1>7, <1>8, Unraced

-----------------------------------------------------------------------------
(* When every request asks for one answer, the counters keep up and the    *)
(* client does not fail, a request that has its answer gets no other until *)
(* its token is used again, also if that happens while the old messages of *)
(* the token are still out; except for the request of index 0.             *)
THEOREM OneAnswerEach == ASSUME Orderly PROVE Spec => AnsweredAtMostOnce
<1> DEFINE P == \A t \in Token : answers[t] # <<>> /\ answers'[t] # answers[t] =>
                  issues'[t] # issues[t] \/ table.slot[0].token = t
<1>1. Inv /\ OweInv /\ [Next]_vars => OweInv' BY NextOwes
<1>2. Inv /\ OweInv /\ [Next]_vars => [P]_vars BY NextAnswersOnce
<1>3. Inv /\ [Next]_vars => Inv' BY NextKeepsUp DEF Orderly
<1> QED BY InitInv, InitOwes, <1>1, <1>2, <1>3, PTL DEF Spec, AnsweredAtMostOnce

-----------------------------------------------------------------------------
(* When every request comes with a fresh token, no two messages have an    *)
(* index other than 0 in common, not even with one of the sound clients.   *)

Fresh ==
  /\ KeepsUp
  /\ MaxIssues <= 1
  /\ Requests \subseteq OneAnswer \cup {"RADIO_POWER_OFF"}

(* As long as its index stands for its owner, the expectation stored with  *)
(* a message is in the slot of the ring that was taken for it.             *)
Kept(m) ==
  /\ m.stored > 0 /\ m.reply # "RESP" /\ m.aseq # 0
  /\ table.slot[m.aseq].token = m.owner
  => \E i \in ExpectIds : /\ StoreOf(expects, i) = m.stored
                          /\ expects.slot[i].aseq = m.aseq
                          /\ expects.slot[i].command = m.command
                          /\ expects.slot[i].how # "none"

AloneInv ==
  /\ \A m, n \in wire : m.aseq = n.aseq => m = n \/ m.aseq = 0
  /\ \A i \in Ids, t \in Token : table.slot[i].token = t => issues[t] > 0
  /\ \A m \in wire : /\ m.reply # "GEN_RESP"
                     /\ m.reply = "RESP" => m.command # "CALL_BURST_DTMF"
                     /\ m.stored > 0 => m.owner \in Token
                     /\ Kept(m)

(* A message keeps its expectation if its slot of the ring and its index   *)
(* of the table are left alone.                                            *)
LEMMA KeptKept ==
  ASSUME Inv, NEW m \in wire, Kept(m),
         m.aseq # 0 => table'.slot[m.aseq].token \in {table.slot[m.aseq].token, NoToken},
         m.stored > 0 => m.owner \in Token,
         \A i \in ExpectIds : m.aseq # 0 /\ expects.slot[i].aseq = m.aseq
                              /\ StoreOf(expects, i) = m.stored =>
           expects'.slot[i] = expects.slot[i] /\ StoreOf(expects, i)' = StoreOf(expects, i)
  PROVE  Kept(m)'
<1> SUFFICES ASSUME m.stored > 0, m.reply # "RESP", m.aseq # 0,
                    table'.slot[m.aseq].token = m.owner
             PROVE  \E i \in ExpectIds : /\ StoreOf(expects, i)' = m.stored
                                         /\ expects'.slot[i].aseq = m.aseq
                                         /\ expects'.slot[i].command = m.command
                                         /\ expects'.slot[i].how # "none"
  BY DEF Kept
<1>1. table.slot[m.aseq].token = m.owner BY NoTokenAssumption
<1>2. PICK i \in ExpectIds : /\ StoreOf(expects, i) = m.stored
                             /\ expects.slot[i].aseq = m.aseq
                             /\ expects.slot[i].command = m.command
                             /\ expects.slot[i].how # "none"
  BY <1>1 DEF Kept
<1> QED BY <1>2

(* A fresh token gets an index that no message has.                        *)
LEMMA FreshIndex ==
  ASSUME Fresh, Inv, AloneInv, NEW t \in Token, Issuable(t),
         \A m \in wire : InWindow(Registered(table, t), m.draw)
  PROVE  /\ ~ IsRegistered(table, t)
         /\ \A m \in wire : m.aseq # ril_request_get_id(table, t)
<1>1. /\ table \in Table /\ Unique(table) /\ issues[t] \in Nat
  BY DEF Inv, TypeOK, Unique
<1>2. issues[t] = 0 BY <1>1, BoundsAssumption DEF Fresh, Issuable
<1>3. ~ IsRegistered(table, t) BY <1>2 DEF AloneInv, IsRegistered
<1> DEFINE reg == Registered(table, t)
<1>4. /\ reg \in Table /\ reg.last = ril_request_id_new(table).last
      /\ reg.drawn = table.drawn + 1
      /\ \A i \in Ids : i # reg.last => reg.slot[i] = table.slot[i]
      /\ ril_request_get_id(table, t) = reg.last
  BY <1>1, <1>3, RegisteredAtLast
<1>5. \A m \in wire : InWindow(reg, m.draw) OBVIOUS
<1> HIDE DEF reg
<1>6. \A m \in wire : m.aseq # reg.last BY <1>4, <1>5, DrawnIsFree
<1> QED BY <1>3, <1>4, <1>6

(* A new request is alone under its index.                                 *)
LEMMA CarryAlone ==
  ASSUME Fresh, Inv, AloneInv, NEW t \in Token, NEW script \in Script,
         SoleAnswer(script), Issuable(t), Issued(t), Carry(t, script), Abreast'
  PROVE  AloneInv'
<1> DEFINE a == ril_request_get_id(table, t)
           ring == IF script.how = "none" THEN expects
                   ELSE Expecting(expects, a, script.command, script.how)
           tb == IF script.registers THEN Registered(table, t) ELSE table
           msg(m) == [aseq |-> a, command |-> m.command, part |-> m.part,
                      reply |-> m.reply, owner |-> t, issue |-> issues[t] + 1,
                      draw |-> DrawOf(tb, a),
                      stored |-> IF m.command = script.command THEN ring.drawn ELSE 0]
           x == [aseq |-> a, command |-> script.command, how |-> script.how]
<1>1. /\ TypeOK /\ table \in Table /\ Unique(table) /\ expects \in Ring
      /\ issues \in [Token -> Nat] /\ wire \subseteq Owed
  BY DEF Inv, TypeOK, Unique
<1>2. /\ table' = tb /\ expects' = ring
      /\ wire' = wire \cup {msg(m) : m \in script.sends}
      /\ issues' = [issues EXCEPT ![t] = @ + 1]
  BY DEF Carry, Issued
<1>3. /\ script.registers \/ (script.sends = {} /\ script.how = "none")
      /\ script.command \in Command \cup {"NONE"} /\ script.how \in How
      /\ script.sends \subseteq Message
  BY DEF Script
<1>4. /\ a \in Ids /\ Registered(table, t).slot[a].token = t
  BY <1>1, GetId
<1>5. wire \subseteq wire' BY <1>2
<1>6. \A m \in wire : InWindow(table', m.draw) BY <1>5 DEF Abreast
<1>7. script.registers => /\ ~ IsRegistered(table, t)
                          /\ \A m \in wire : m.aseq # a
                          /\ \A i \in Ids : i # a => table'.slot[i] = table.slot[i]
  <2> SUFFICES ASSUME script.registers
               PROVE  /\ ~ IsRegistered(table, t)
                      /\ \A m \in wire : m.aseq # a
                      /\ \A i \in Ids : i # a => table'.slot[i] = table.slot[i]
    OBVIOUS
  <2>1. table' = Registered(table, t) BY <1>2
  <2>2. ~ IsRegistered(table, t) /\ \A m \in wire : m.aseq # a
    BY <1>6, <2>1, FreshIndex
  <2>3. \A i \in Ids : i # a => table'.slot[i] = table.slot[i]
    BY <1>1, <2>1, <2>2, RegisteredAtLast
  <2> QED BY <2>2, <2>3
<1>8. script.how # "none" => StoredNext(expects, ring, x)
  BY <1>1, <1>3, <1>4, ExpectingSlots
<1>9. script.registers => table'.slot[a].token = t BY <1>2, <1>4
<1>10. ~ script.registers => table' = table BY <1>2
<1> HIDE DEF a, tb, ring, x
<1>11. \A i \in Ids, u \in Token : table'.slot[i].token = u => issues'[u] > 0
  <2> SUFFICES ASSUME NEW i \in Ids, NEW u \in Token, table'.slot[i].token = u
               PROVE  issues'[u] > 0
    OBVIOUS
  <2>1. issues[u] \in Nat /\ issues'[u] = IF u = t THEN issues[t] + 1 ELSE issues[u]
    BY <1>1, <1>2
  <2>2. u = t \/ table.slot[i].token = u BY <1>7, <1>9, <1>10
  <2> QED BY <2>1, <2>2 DEF AloneInv
<1>12. \A m \in wire' : m \in wire \/ \E n \in script.sends : m = msg(n) BY <1>2
<1>13. \A m, n \in wire' : m.aseq = n.aseq => m = n \/ m.aseq = 0
  <2> SUFFICES ASSUME NEW m \in wire', NEW n \in wire', m.aseq = n.aseq
               PROVE  m = n \/ m.aseq = 0
    OBVIOUS
  <2>1. CASE m \in wire /\ n \in wire BY <2>1 DEF AloneInv
  <2>2. CASE m \notin wire /\ n \notin wire
    <3>1. PICK y \in script.sends : m = msg(y) BY <1>12, <2>2
    <3>2. PICK z \in script.sends : n = msg(z) BY <1>12, <2>2
    <3>3. y = z BY DEF SoleAnswer
    <3> QED BY <3>1, <3>2, <3>3
  <2>3. CASE (m \in wire /\ n \notin wire) \/ (m \notin wire /\ n \in wire)
    <3>1. script.registers BY <1>3, <1>12, <2>3
    <3> QED BY <1>7, <1>12, <2>3, <3>1
  <2> QED BY <2>1, <2>2, <2>3
<1>14. ASSUME NEW m \in wire PROVE Kept(m)'
  <2>1. m.aseq \in Ids /\ Kept(m) /\ (m.stored > 0 => m.owner \in Token)
    BY <1>1, OwedPlaced DEF AloneInv
  <2>2. table'.slot[m.aseq].token = table.slot[m.aseq].token
    BY <1>7, <1>10, <2>1
  <2>3. CASE script.how = "none"
    <3>1. expects' = expects BY <1>2, <2>3 DEF ring
    <3> QED BY <2>1, <2>2, <3>1, KeptKept
  <2>4. CASE script.how # "none" /\ m.stored > 0
    <3>1. StoredNext(expects, expects', x) BY <1>2, <1>8, <2>4
    <3>2. expects'.drawn - m.stored < NExpects BY <1>5, <2>4 DEF Abreast
    <3>3. ASSUME NEW i \in ExpectIds, StoreOf(expects, i) = m.stored
          PROVE  expects'.slot[i] = expects.slot[i] /\ StoreOf(expects, i)' = StoreOf(expects, i)
      <4>1. i # expects'.last
        <5>1. SUFFICES ASSUME i = expects'.last PROVE FALSE OBVIOUS
        <5>2. StoreOf(expects, i) = expects'.drawn - NExpects
          BY <1>1, <3>1, <5>1, StoreOfNext
        <5>3. expects'.drawn \in Nat /\ NExpects \in Nat
          <6>1. expects.drawn \in Nat BY <1>1 DEF Ring
          <6> QED BY <3>1, <6>1, NExpectsAssumption DEF StoredNext
        <5> QED BY <3>2, <3>3, <5>2, <5>3
      <4>2. expects'.slot[i] = expects.slot[i] BY <3>1, <4>1 DEF StoredNext
      <4>3. StoreOf(expects', i) = StoreOf(expects, i) BY <1>1, <3>1, <4>1, StoreOfNext
      <4> QED BY <4>2, <4>3
    <3> QED BY <2>1, <2>2, <3>3, KeptKept
  <2>5. CASE ~ m.stored > 0 BY <2>5 DEF Kept
  <2> QED BY <2>3, <2>4, <2>5
<1>15. ASSUME NEW m \in wire', m \notin wire
       PROVE  /\ m.reply # "GEN_RESP"
              /\ m.reply = "RESP" => m.command # "CALL_BURST_DTMF"
              /\ m.owner \in Token
              /\ Kept(m)'
  <2> PICK n \in script.sends : m = msg(n) BY <1>12, <1>15
  <2>1. n.reply \in {"GEN", "RESP"} /\ (n.reply = "RESP" => n.command # "CALL_BURST_DTMF")
    BY DEF SoleAnswer
  <2>2. n.command \in Command /\ n.command # "NONE" BY <1>3 DEF Message, Command
  <2>3. Kept(m)'
    <3>1. CASE script.how = "none"
      <4>1. script.command = "NONE" BY <3>1 DEF SoleAnswer
      <4>2. m.stored = 0 BY <2>2, <4>1
      <4> QED BY <4>2 DEF Kept
    <3>2. CASE script.how # "none"
      <4>1. n.command = script.command BY <3>2 DEF SoleAnswer
      <4>2. StoredNext(expects, expects', x) BY <1>2, <1>8, <3>2
      <4>3. expects'.last \in ExpectIds /\ expects'.slot[expects'.last] = x
        BY <4>2 DEF StoredNext
      <4>4. StoreOf(expects', expects'.last) = expects'.drawn
        BY <1>1, <4>2, <4>3, StoreOfNext
      <4>5. /\ m.stored = expects'.drawn /\ m.aseq = x.aseq
            /\ m.command = x.command /\ x.how # "none"
        BY <1>2, <3>2, <4>1 DEF x
      <4> QED BY <4>3, <4>4, <4>5 DEF Kept
    <3> QED BY <3>1, <3>2
  <2> QED BY <2>1, <2>3
<1>16. ASSUME NEW m \in wire'
       PROVE  /\ m.reply # "GEN_RESP"
              /\ m.reply = "RESP" => m.command # "CALL_BURST_DTMF"
              /\ m.stored > 0 => m.owner \in Token
              /\ Kept(m)'
  <2>1. CASE m \in wire BY <1>14, <2>1 DEF AloneInv
  <2>2. CASE m \notin wire BY <1>15, <2>2
  <2> QED BY <2>1, <2>2
<1> QED BY <1>11, <1>13, <1>16 DEF AloneInv

(* RADIO_POWER off leaves no index standing for anybody.                   *)
LEMMA RadioPowerOffAlone ==
  ASSUME Inv, AloneInv, NEW t \in Token, RadioPowerOff(t) PROVE AloneInv'
<1>1. /\ TypeOK /\ table \in Table BY DEF Inv, TypeOK
<1>2. wire' = wire /\ table' = ril_requests_tokens_init(Registered(table, t))
  BY DEF RadioPowerOff
<1>3. Registered(table, t) \in Table BY <1>1, RegisteredHolds
<1>4. \A i \in Ids : table'.slot[i].token = NoToken
  BY <1>2, <1>3 DEF ril_requests_tokens_init, BlankSlot, Table
<1>5. \A m \in wire : Kept(m)'
  <2> SUFFICES ASSUME NEW m \in wire PROVE Kept(m)' OBVIOUS
  <2>1. m.aseq \in Ids /\ (m.stored > 0 => m.owner \in Token)
    BY OwedPlaced DEF AloneInv, Inv, TypeOK
  <2> QED BY <1>4, <2>1, NoTokenAssumption DEF Kept
<1> QED BY <1>2, <1>4, <1>5, NoTokenAssumption DEF AloneInv

(* A token that onCancel registers gets an index that no message has.      *)
LEMMA OnCancelLookupAlone ==
  ASSUME Inv, AloneInv, NEW t \in Token, OnCancelLookup(t), Abreast' PROVE AloneInv'
<1>1. /\ TypeOK /\ table \in Table /\ Unique(table)
  BY DEF Inv, TypeOK, Unique
<1>2. /\ table' = Registered(table, t) /\ UNCHANGED <<wire, expects, issues>>
      /\ Pending(t)
  BY DEF OnCancelLookup, CancelAsked
<1>3. CASE IsRegistered(table, t)
  <2>1. table' = table BY <1>2, <1>3 DEF Registered
  <2> QED BY <1>2, <2>1 DEF AloneInv, Kept
<1>4. CASE ~ IsRegistered(table, t)
  <2>1. /\ table' \in Table /\ table'.last = ril_request_id_new(table).last
        /\ table'.drawn = table.drawn + 1
        /\ \A i \in Ids : i # table'.last => table'.slot[i] = table.slot[i]
        /\ table'.slot[table'.last].token = t
    BY <1>1, <1>2, <1>4, RegisteredAtLast
  <2>2. \A m \in wire : InWindow(table', m.draw) BY <1>2 DEF Abreast
  <2>3. \A m \in wire : m.aseq # table'.last BY <2>1, <2>2, DrawnIsFree
  <2>4. \A m \in wire : Kept(m)'
    <3> SUFFICES ASSUME NEW m \in wire PROVE Kept(m)' OBVIOUS
    <3>1. m.aseq \in Ids BY OwedPlaced DEF Inv, TypeOK
    <3>2. table'.slot[m.aseq] = table.slot[m.aseq] BY <2>1, <2>3, <3>1
    <3> QED BY <1>2, <3>2, KeptKept DEF AloneInv
  <2>5. \A i \in Ids, u \in Token : table'.slot[i].token = u => issues'[u] > 0
    BY <1>2, <2>1 DEF AloneInv, Pending
  <2> QED BY <1>2, <2>4, <2>5 DEF AloneInv
<1> QED BY <1>3, <1>4

(* So does a message of the sound clients.                                 *)
LEMMA SrsAlone ==
  ASSUME Inv, AloneInv, NEW command, SrsSend(command), Abreast' PROVE AloneInv'
<1> DEFINE new == ril_request_id_new(table)
           msg == [aseq |-> new.last, command |-> command, part |-> 1,
                   reply |-> "GEN", owner |-> NoToken, issue |-> 0,
                   draw |-> new.drawn, stored |-> 0]
<1>1. /\ TypeOK /\ table \in Table BY DEF Inv, TypeOK
<1>2. /\ table' = new /\ UNCHANGED <<expects, issues>>
      /\ wire' = wire \/ wire' = wire \cup {msg}
  BY DEF SrsSend
<1>3. new \in Table /\ new.drawn = table.drawn + 1 /\ new.slot = table.slot
  BY <1>1, NewIdTyped
<1>4. \A m \in wire : InWindow(new, m.draw) BY <1>2 DEF Abreast
<1>5. \A m \in wire : m.aseq # new.last BY <1>3, <1>4, DrawnIsFree
<1>6. /\ msg.aseq = new.last /\ msg.reply = "GEN" /\ msg.stored = 0 OBVIOUS
<1> HIDE DEF new, msg
<1>7. \A m \in wire' : m \in wire \/ m = msg BY <1>2
<1>8. \A m \in wire' : Kept(m)'
  <2> SUFFICES ASSUME NEW m \in wire' PROVE Kept(m)' OBVIOUS
  <2>1. CASE m \in wire BY <1>2, <1>3, <2>1 DEF AloneInv, Kept
  <2>2. CASE m = msg BY <1>6, <2>2 DEF Kept
  <2> QED BY <1>7, <2>1, <2>2
<1>9. \A m \in wire' : /\ m.reply # "GEN_RESP"
                       /\ m.reply = "RESP" => m.command # "CALL_BURST_DTMF"
                       /\ m.stored > 0 => m.owner \in Token
  BY <1>6, <1>7 DEF AloneInv
<1>10. \A m, n \in wire' : m.aseq = n.aseq => m = n \/ m.aseq = 0
  BY <1>5, <1>6, <1>7 DEF AloneInv
<1> QED BY <1>2, <1>3, <1>8, <1>9, <1>10 DEF AloneInv

(* The store of onCancel writes no token; a failure of the client loses    *)
(* the messages.                                                           *)
LEMMA OthersAlone ==
  ASSUME Inv, AloneInv, OnCancelStore \/ ClientFails \/ ClientReady PROVE AloneInv'
<1>1. CASE OnCancelStore
  <2>1. /\ UNCHANGED <<wire, expects, issues>>
        /\ \A i \in Ids : table'.slot[i].token = table.slot[i].token
    BY <1>1, OnCancelStored
  <2>2. \A m \in wire : m.aseq \in Ids BY OwedPlaced DEF Inv, TypeOK
  <2> QED BY <2>1, <2>2 DEF AloneInv, Kept
<1>2. CASE ClientFails BY <1>2 DEF ClientFails, AloneInv
<1>3. CASE ClientReady BY <1>3 DEF ClientReady, AloneInv, Kept
<1> QED BY <1>1, <1>2, <1>3

(* A reply takes its message, and the expectation of its own index.        *)
LEMMA RepliesAlone ==
  ASSUME Inv, AloneInv, NEW m \in wire, NEW code, NEW faulty,
         ipc_gen_phone_res(m, code) \/ Response(m, faulty)
  PROVE  AloneInv'
<1>1. TypeOK /\ expects \in Ring /\ m \in Owed /\ m.aseq \in Ids
  BY OwedPlaced DEF Inv, TypeOK
<1>2. wire' = wire \ {m} BY DEF AloneInv, ipc_gen_phone_res, Response, Delivered
<1>3. UNCHANGED <<table, issues>> BY DEF ipc_gen_phone_res, Response
<1>4. \/ expects' = expects
      \/ \E id \in ExpectIds : /\ expects.slot[id].aseq = m.aseq
                               /\ expects' = ipc_gen_phone_res_clean_id(expects, id)
  <2>1. CASE Response(m, faulty) BY <2>1 DEF Response
  <2>2. CASE ipc_gen_phone_res(m, code)
    <3> DEFINE id == ipc_gen_phone_res_get_id(expects, m.aseq)
    <3>1. \/ id = -1
          \/ id \in ExpectIds /\ expects.slot[id].aseq = m.aseq
      BY <1>1, GetExpect
    <3>2. \/ id < 0 /\ expects' = expects
          \/ ~ id < 0 /\ expects' = ipc_gen_phone_res_clean_id(expects, id)
      BY <2>2 DEF ipc_gen_phone_res
    <3> HIDE DEF id
    <3> QED BY <3>1, <3>2
  <2> QED BY <2>1, <2>2
<1>5. ASSUME NEW n \in wire, n # m PROVE Kept(n)'
  <2>1. CASE expects' = expects BY <1>3, <1>5, <2>1 DEF AloneInv, Kept
  <2>2. CASE \E id \in ExpectIds : /\ expects.slot[id].aseq = m.aseq
                                   /\ expects' = ipc_gen_phone_res_clean_id(expects, id)
    <3>1. PICK id \in ExpectIds : /\ expects.slot[id].aseq = m.aseq
                                  /\ expects' = ipc_gen_phone_res_clean_id(expects, id)
      BY <2>2
    <3>2. /\ expects'.last = expects.last /\ expects'.drawn = expects.drawn
          /\ \A i \in ExpectIds : i # id => expects'.slot[i] = expects.slot[i]
      BY <1>1, <3>1, CleanSlots
    <3>3. \A i \in ExpectIds : StoreOf(expects, i)' = StoreOf(expects, i)
      BY <3>2 DEF StoreOf
    <3>4. n.aseq # m.aseq \/ n.aseq = 0 BY <1>5 DEF AloneInv
    <3>5. \A i \in ExpectIds : n.aseq # 0 /\ expects.slot[i].aseq = n.aseq =>
            expects'.slot[i] = expects.slot[i]
      BY <3>1, <3>2, <3>4
    <3> QED BY <1>3, <3>3, <3>5, KeptKept DEF AloneInv
  <2> QED BY <1>4, <2>1, <2>2
<1> QED BY <1>2, <1>3, <1>5 DEF AloneInv

(* Every step keeps it, and so does a step that changes nothing.           *)
LEMMA NextAlone == ASSUME Fresh, Inv, AloneInv, [Next]_vars PROVE AloneInv'
<1>1. CASE UNCHANGED vars BY <1>1 DEF vars, AloneInv, Kept
<1>2. CASE Next
  <2>1. Abreast' /\ ~ raced' BY <1>2, NextKeepsUp DEF Fresh
  <2>2. ASSUME NEW t \in Token, onRequest(t) PROVE AloneInv'
    <3>1. PICK script \in Script : SoleAnswer(script) /\ Carry(t, script)
      BY <2>2, RequestedScript DEF Fresh
    <3>2. Issuable(t) /\ Issued(t) BY <2>2 DEF onRequest
    <3> QED BY <2>1, <3>1, <3>2, CarryAlone
  <2>3. ASSUME NEW t \in Token, RadioPowerOff(t) PROVE AloneInv'
    BY <2>3, RadioPowerOffAlone
  <2>4. ASSUME NEW t \in Token, OnCancelLookup(t) PROVE AloneInv'
    BY <2>1, <2>4, OnCancelLookupAlone
  <2>5. ASSUME NEW m \in wire, NEW code \in Code, ipc_gen_phone_res(m, code)
        PROVE  AloneInv'
    BY <2>5, RepliesAlone
  <2>6. ASSUME NEW m \in wire, NEW faulty \in BOOLEAN, Response(m, faulty)
        PROVE  AloneInv'
    BY <2>6, RepliesAlone
  <2>7. ASSUME \/ srs_snd_set_call_clock_sync
               \/ srs_snd_set_call_volume
               \/ srs_snd_set_call_audio_path
        PROVE  AloneInv'
    BY <2>1, <2>7, SrsAlone DEF srs_snd_set_call_clock_sync,
         srs_snd_set_call_volume, srs_snd_set_call_audio_path
  <2>8. ASSUME OnCancelStore \/ ClientFails \/ ClientReady PROVE AloneInv'
    BY <2>8, OthersAlone
  <2> QED BY <1>2, <2>1, <2>2, <2>3, <2>4, <2>5, <2>6, <2>7, <2>8, Unraced
<1> QED BY <1>1, <1>2

(* No token is registered and nothing is owed when the driver starts.      *)
LEMMA InitAlone == Init => AloneInv
BY NoTokenAssumption DEF Init, AloneInv, InitialTable, BlankSlot

-----------------------------------------------------------------------------
(* With fresh tokens and counters that keep up, the ring of gen.c keeps    *)
(* what a request expects for as long as the table of samsung-ril.c keeps  *)
(* its token, whatever else is sent, answered and powered off meanwhile,   *)
(* and even if the client fails.                                           *)
THEOREM ExpectationsAreKept == ASSUME Fresh PROVE Spec => []ExpectationKept
<1>1. AloneInv => ExpectationKept
  <2> SUFFICES ASSUME AloneInv, NEW m \in wire, m.stored > 0, m.reply # "RESP",
                      m.aseq # 0, table.slot[m.aseq].token = m.owner
               PROVE  Expects(expects, m.aseq, m.command)
    BY DEF ExpectationKept, ril_request_get_token
  <2>1. Kept(m) BY DEF AloneInv
  <2> QED BY <2>1 DEF Kept, Expects
<1>2. Inv /\ AloneInv /\ [Next]_vars => AloneInv' BY NextAlone
<1>3. Inv /\ [Next]_vars => Inv' BY NextKeepsUp DEF Fresh
<1> QED BY InitInv, InitAlone, <1>1, <1>2, <1>3, PTL DEF Spec

-----------------------------------------------------------------------------
(* The driver implements RequestService.  Its steps are followed one by    *)
(* one: making a request, cancelling it and completing it are steps of the *)
(* promise, everything else leaves rild's view alone.                      *)

(* What a step may report to a request: nothing, one outcome; or two, one  *)
(* after the other.                                                        *)
AtMostOne(es) == es = <<>> \/ \E e \in Outcome : es = <<e>>
AtMostTwo(es) == AtMostOne(es) \/ \E e, f \in Outcome : es = <<e, f>>

(* RIL_onRequestComplete reports as many outcomes as there are.            *)
LEMMA CompletedCount ==
  ASSUME NEW canceled
  PROVE  /\ RIL_onRequestComplete(<<>>, canceled) = <<>>
         /\ \A e \in Outcome : \E f \in Errno : RIL_onRequestComplete(<<e>>, canceled) = <<f>>
         /\ \A d, e \in Outcome :
              RIL_onRequestComplete(<<d, e>>, canceled) \in Errno \X Errno
<1> DEFINE report(e) == IF canceled THEN "CANCELLED" ELSE e
<1>1. \A e \in Outcome : report(e) \in Errno BY DEF Outcome, Errno
<1>2. RIL_onRequestComplete(<<>>, canceled) = <<>> BY DEF RIL_onRequestComplete
<1>3. ASSUME NEW e \in Outcome PROVE RIL_onRequestComplete(<<e>>, canceled) = <<report(e)>>
  <2>1. RIL_onRequestComplete(<<e>>, canceled) = [i \in 1 .. 1 |-> report(<<e>>[i])]
    BY DEF RIL_onRequestComplete
  <2>2. \A i \in 1 .. 1 : <<e>>[i] = e OBVIOUS
  <2>3. [i \in 1 .. 1 |-> report(<<e>>[i])] = [i \in 1 .. 1 |-> report(e)] BY <2>2
  <2>4. [i \in 1 .. 1 |-> report(e)] = <<report(e)>> OBVIOUS
  <2> QED BY <2>1, <2>3, <2>4
<1>4. ASSUME NEW d \in Outcome, NEW e \in Outcome
      PROVE  RIL_onRequestComplete(<<d, e>>, canceled) = <<report(d), report(e)>>
  <2>1. RIL_onRequestComplete(<<d, e>>, canceled) = [i \in 1 .. 2 |-> report(<<d, e>>[i])]
    BY DEF RIL_onRequestComplete
  <2>2. <<d, e>>[1] = d /\ <<d, e>>[2] = e OBVIOUS
  <2> QED BY <2>1, <2>2
<1> HIDE DEF report
<1> QED BY <1>1, <1>2, <1>3, <1>4

(* Two outcomes joined.                                                    *)
LEMMA PairJoined == ASSUME NEW S, NEW d \in S, NEW e \in S PROVE <<d>> \o <<e>> = <<d, e>>
<1>1. /\ <<d>> \in Seq(S) /\ Len(<<d>>) = 1 /\ <<d>>[1] = d
      /\ <<e>> \in Seq(S) /\ Len(<<e>>) = 1 /\ <<e>>[1] = e
  OBVIOUS
<1>2. <<d>> \o <<e>> \in Seq(S) /\ Len(<<d>> \o <<e>>) = 2 BY <1>1
<1>3. (<<d>> \o <<e>>)[1] = d /\ (<<d>> \o <<e>>)[2] = e BY <1>1
<1>4. <<d, e>> \in Seq(S) /\ Len(<<d, e>>) = 2 /\ <<d, e>>[1] = d /\ <<d, e>>[2] = e
  OBVIOUS
<1>5. \A i \in 1 .. Len(<<d, e>>) : (<<d>> \o <<e>>)[i] = <<d, e>>[i] BY <1>3, <1>4
<1> QED BY <1>2, <1>4, <1>5, SeqEqual

(* A result reports one outcome if it is that of the command that was      *)
(* expected, and never more than two.                                      *)
LEMMA GenAnswersCount ==
  ASSUME NEW x \in ipc_gen_phone_res_expect, NEW command, NEW code \in Code
  PROVE  /\ AtMostTwo(GenAnswers(x, command, code))
         /\ x.command = command => AtMostOne(GenAnswers(x, command, code))
<1> DEFINE failure == <<"GENERIC_FAILURE">>
           result == IF code = "ok" THEN <<"SUCCESS">> ELSE failure
<1>1. "SUCCESS" \in Outcome /\ "GENERIC_FAILURE" \in Outcome BY DEF Outcome, Errno
<1>2. AtMostOne(result) /\ AtMostOne(<<>>) BY <1>1 DEF AtMostOne
<1>3. \A es : <<>> \o <<es>> = <<es>> /\ <<>> \o <<>> = <<>> OBVIOUS
<1>4. CASE x.how \in Func
  <2> DEFINE f == CustomFunction(x.how, code)
  <2>1. f \in Outcome
    BY DEF CustomFunction, ipc_net_plmn_sel_complete, ipc_sec_pin_status_complete,
           Errno, Outcome
  <2>2. GenAnswers(x, command, code) =
          (IF x.command # command THEN failure ELSE <<>>) \o <<f>>
    BY <1>4 DEF GenAnswers, Func
  <2> HIDE DEF f
  <2>3. x.command = command => GenAnswers(x, command, code) = <<f>> BY <2>2
  <2>4. x.command # command => GenAnswers(x, command, code) = <<"GENERIC_FAILURE", f>>
    <3>1. failure \o <<f>> = <<"GENERIC_FAILURE", f>> BY <1>1, <2>1, PairJoined
    <3> HIDE DEF failure
    <3> QED BY <2>2, <3>1
  <2> QED BY <1>1, <2>1, <2>3, <2>4 DEF AtMostOne, AtMostTwo
<1>5. CASE x.how \notin Func
  <2>1. x.how \in {"none", "complete", "abort"} BY <1>5 DEF ipc_gen_phone_res_expect, How, Func
  <2>2. \/ GenAnswers(x, command, code) = <<>> \o result
        \/ GenAnswers(x, command, code) = <<>> \o <<>>
    BY <1>5, <2>1 DEF GenAnswers
  <2>3. <<>> \o result = result /\ <<>> \o <<>> = <<>> OBVIOUS
  <2> HIDE DEF result
  <2> QED BY <1>2, <2>2, <2>3 DEF AtMostTwo
<1> QED BY <1>4, <1>5

(* So does a response, the one to CALL_BURST_DTMF reporting two when it is *)
(* malformed.                                                              *)
LEMMA ResponseCount ==
  ASSUME NEW command \in ResponseCommand, NEW faulty \in BOOLEAN
  PROVE  /\ AtMostTwo(ResponseHandler(faulty)[command])
         /\ command # "CALL_BURST_DTMF" => AtMostOne(ResponseHandler(faulty)[command])
<1>1. "SUCCESS" \in Outcome /\ "GENERIC_FAILURE" \in Outcome BY DEF Outcome, Errno
<1>2. /\ AtMostOne(<<"SUCCESS">>) /\ AtMostOne(<<"GENERIC_FAILURE">>) /\ AtMostOne(<<>>)
      /\ AtMostTwo(<<"GENERIC_FAILURE", "SUCCESS">>)
  BY <1>1 DEF AtMostOne, AtMostTwo
<1>3. /\ AtMostOne(ResponseHandler(faulty).NET_PLMN_LIST)
      /\ AtMostOne(ResponseHandler(faulty).NET_MODE_SEL)
      /\ AtMostOne(ResponseHandler(faulty).NET_PLMN_SEL)
      /\ AtMostOne(ResponseHandler(faulty).CALL_LIST)
      /\ AtMostTwo(ResponseHandler(faulty).CALL_BURST_DTMF)
      /\ AtMostOne(ResponseHandler(faulty).SEC_LOCK_INFO)
      /\ AtMostOne(ResponseHandler(faulty).SEC_RSIM_ACCESS)
      /\ AtMostOne(ResponseHandler(faulty).SEC_PHONE_LOCK)
      /\ AtMostOne(ResponseHandler(faulty).MISC_ME_IMSI)
      /\ AtMostOne(ResponseHandler(faulty).SAT_PROACTIVE_CMD)
      /\ AtMostOne(ResponseHandler(faulty).SAT_ENVELOPE_CMD)
  BY <1>2 DEF AtMostTwo, ResponseHandler, ipc_net_plmn_list, ipc_net_mode_sel,
       ipc_net_plmn_sel, ipc_call_list, ipc_call_burst_dtmf, ipc_sec_lock_info,
       ipc_sec_rsim_access, ipc_sec_phone_lock, ipc_misc_me_imsi,
       respondSatProactiveCmd, respondSatEnvelopeCmd
<1> QED BY <1>3 DEF ResponseCommand, AtMostTwo

(* Any step that leaves rild's view alone is one of the promise.           *)
LEMMA ServedByStutter ==
  ASSUME Inv, UNCHANGED <<issues, answers>>,
         \A t \in Token : asked'[t] # "no" <=> asked[t] # "no"
  PROVE  Service!Next
BY DEF Service!Next

(* Completing the request of an index that owes it one answer is a step of *)
(* the promise; so is completing that of index 0.                          *)
LEMMA CompletionServed ==
  ASSUME Inv, AskedInv, NEW aseq \in Ids, NEW es \in Seq(Outcome), CompleteAseq(aseq, es),
         UNCHANGED <<table, issues, asked>>, AtMostTwo(es),
         aseq # 0 => /\ AtMostOne(es)
                     /\ \A t \in Token : table.slot[aseq].token = t => Pending(t)
  PROVE  Service!Next
<1> DEFINE u == ril_request_get_token(table, aseq)
           flag == ril_request_get_canceled(table, u)
           more == RIL_onRequestComplete(es, flag)
<1>1. /\ TypeOK /\ table \in Table /\ Unique(table) /\ answers \in [Token -> Seq(Errno)]
  BY DEF Inv, TypeOK, Unique
<1>2. answers' = IF u = NoToken THEN answers ELSE [answers EXCEPT ![u] = @ \o more]
  BY DEF CompleteAseq
<1>3. u = table.slot[aseq].token /\ u \in Token \cup {NoToken}
  BY <1>1 DEF Table, ril_request_token, ril_request_get_token
<1>4. u \in Token /\ asked[u] = "no" => \A i \in DOMAIN more : more[i] # "CANCELLED"
  <2> SUFFICES ASSUME u \in Token, asked[u] = "no"
               PROVE  \A i \in DOMAIN more : more[i] # "CANCELLED"
    OBVIOUS
  <2>1. \A i \in Ids : table.slot[i].token = u => ~ table.slot[i].canceled
    BY DEF AskedInv, Uncancelled
  <2> HIDE DEF u
  <2>2. flag = FALSE BY <1>1, <2>1, UnflaggedCompletion
  <2> QED BY <2>2, UncancelledAnswers
<1>5. /\ es = <<>> => more = <<>>
      /\ (\E e \in Outcome : es = <<e>>) => \E f \in Errno : more = <<f>>
      /\ (\E d, e \in Outcome : es = <<d, e>>) => more \in Errno \X Errno
  <2> HIDE DEF flag
  <2> QED BY CompletedCount
<1> HIDE DEF u, more
<1>6. CASE u = NoToken \/ more = <<>>
  <2>1. answers' = answers
    <3>1. CASE u = NoToken BY <1>2, <3>1
    <3>2. CASE u \in Token /\ more = <<>>
      <4>1. answers[u] \o <<>> = answers[u] BY <1>1, <3>2
      <4> QED BY <1>1, <1>2, <3>2, <4>1
    <3> QED BY <1>3, <1>6, <3>1, <3>2
  <2> QED BY <2>1, ServedByStutter
<1>7. CASE u \in Token /\ more # <<>> /\ aseq # 0
  <2>1. PICK f \in Errno : more = <<f>> BY <1>5, <1>7 DEF AtMostOne
  <2>2. Pending(u) BY <1>3, <1>7
  <2>3. answers[u] = <<>> /\ issues[u] > 0 BY <2>2 DEF Pending
  <2>4. answers[u] \o more = <<f>> BY <2>1, <2>3
  <2>5. answers' = [answers EXCEPT ![u] = <<f>>]
    BY <1>1, <1>2, <1>7, <2>4, NoTokenAssumption
  <2>6. f = "CANCELLED" => asked[u] # "no"
    <3>1. 1 \in DOMAIN more /\ more[1] = f BY <2>1
    <3> QED BY <1>4, <1>7, <3>1
  <2>7. Service!Complete(u) BY <1>7, <2>3, <2>5, <2>6 DEF Service!Complete, Service!Open
  <2> QED BY <1>7, <2>7 DEF Service!Next
<1>8. CASE u \in Token /\ more # <<>> /\ aseq = 0
  <2>1. more \in {<<e>> : e \in Errno} \cup (Errno \X Errno)
    BY <1>5, <1>8 DEF AtMostOne, AtMostTwo
  <2>2. answers' = [answers EXCEPT ![u] = @ \o more]
    BY <1>2, <1>8, NoTokenAssumption
  <2>3. (\E i \in DOMAIN more : more[i] = "CANCELLED") => asked[u] # "no" BY <1>4, <1>8
  <2>4. ril_request_get_token(table, 0) = u BY <1>3, <1>8 DEF ril_request_get_token
  <2>5. Service!CompleteExempt(u)
    BY <1>8, <2>1, <2>2, <2>3, <2>4 DEF Service!CompleteExempt
  <2> QED BY <1>8, <2>5 DEF Service!Next
<1> QED BY <1>3, <1>6, <1>7, <1>8

(* A request is made, and answered once on the spot or not yet.            *)
LEMMA MadeServed ==
  ASSUME Inv, AskedInv', NEW t \in Token, ~ Pending(t), Issued(t), NEW es, AtMostOne(es),
         NEW canceled,
         answers' = [answers EXCEPT ![t] = RIL_onRequestComplete(es, canceled)]
  PROVE  Service!Next
<1> DEFINE now == RIL_onRequestComplete(es, canceled)
           yes == asked'[t] # "no"
<1>1. /\ issues \in [Token -> Nat] /\ answers \in [Token -> Seq(Errno)]
      /\ asked \in [Token -> {"no", "inherited", "asking", "flagged"}]
  BY DEF Inv, TypeOK
<1>2. /\ issues' = [issues EXCEPT ![t] = @ + 1]
      /\ asked' = [asked EXCEPT ![t] = AskedAtIssue(t)]
  BY DEF Issued
<1>3. now \in {<<>>} \cup {<<e>> : e \in Errno} BY CompletedCount DEF AtMostOne
<1>4. answers'[t] = now BY <1>1
<1> HIDE DEF now
<1>5. now = <<"CANCELLED">> => yes
  <2> SUFFICES ASSUME now = <<"CANCELLED">>, asked'[t] = "no" PROVE FALSE OBVIOUS
  <2>1. \A i \in DOMAIN answers'[t] : answers'[t][i] # "CANCELLED"
    BY DEF AskedInv, Uncancelled
  <2>2. 1 \in DOMAIN <<"CANCELLED">> /\ <<"CANCELLED">>[1] = "CANCELLED" OBVIOUS
  <2> QED BY <1>4, <2>1, <2>2
<1>6. [u \in Token |-> asked'[u] # "no"] =
        [[u \in Token |-> asked[u] # "no"] EXCEPT ![t] = yes]
  BY <1>1, <1>2
<1>7. yes \in BOOLEAN OBVIOUS
<1>8. ~ Service!Open(t) BY DEF Pending, Service!Open
<1> HIDE DEF yes
<1>9. Service!Make(t) BY <1>2, <1>3, <1>5, <1>6, <1>7, <1>8 DEF Service!Make, now
<1> QED BY <1>9 DEF Service!Next

(* onRequest.                                                              *)
LEMMA OnRequestServed ==
  ASSUME Fresh, Inv, AskedInv', NEW t \in Token, onRequest(t) PROVE Service!Next
<1>1. PICK script \in Script : SoleAnswer(script) /\ Carry(t, script)
  BY RequestedScript DEF Fresh
<1>2. ~ Pending(t) /\ Issued(t) BY DEF onRequest, Issuable
<1>3. AtMostOne(script.now) BY <1>1 DEF SoleAnswer, AtMostOne
<1>4. answers' = [answers EXCEPT ![t] =
        RIL_onRequestComplete(script.now,
          script.registers /\ ril_request_get_canceled(table, t))]
  BY <1>1 DEF Carry
<1> QED BY <1>2, <1>3, <1>4, MadeServed

(* RADIO_POWER off is a request like the others.                           *)
LEMMA RadioPowerOffServed ==
  ASSUME Inv, AskedInv', NEW t \in Token, RadioPowerOff(t) PROVE Service!Next
<1>1. /\ ~ Pending(t) /\ Issued(t)
      /\ answers' = [answers EXCEPT ![t] =
           RIL_onRequestComplete(<<"SUCCESS">>, ril_request_get_canceled(table, t))]
  BY DEF RadioPowerOff, Issuable
<1>2. "SUCCESS" \in Outcome BY DEF Outcome, Errno
<1>3. AtMostOne(<<"SUCCESS">>) BY <1>2 DEF AtMostOne
<1> QED BY <1>1, <1>3, MadeServed

(* rild cancels when onCancel is entered.                                  *)
LEMMA OnCancelLookupServed ==
  ASSUME Inv, NEW t \in Token, OnCancelLookup(t) PROVE Service!Next
<1>1. asked \in [Token -> {"no", "inherited", "asking", "flagged"}] BY DEF Inv, TypeOK
<1>2. asked' = [asked EXCEPT ![t] = "asking"] /\ UNCHANGED <<issues, answers>> /\ Pending(t)
  BY DEF OnCancelLookup, CancelAsked
<1>3. [u \in Token |-> asked'[u] # "no"] =
        [[u \in Token |-> asked[u] # "no"] EXCEPT ![t] = TRUE]
  BY <1>1, <1>2
<1>4. Service!Cancel(t) BY <1>2, <1>3 DEF Service!Cancel, Service!Open, Pending
<1> QED BY <1>4 DEF Service!Next

(* Its store is nothing new to rild.                                       *)
LEMMA OnCancelStoreServed ==
  ASSUME Inv, AskedInv, OnCancelStore PROVE Service!Next
<1>1. asked \in [Token -> {"no", "inherited", "asking", "flagged"}] BY DEF Inv, TypeOK
<1>2. /\ UNCHANGED <<issues, answers>> /\ cancelling # NotCancelling
      /\ \/ asked' = [asked EXCEPT ![cancelling.token] = "flagged"]
         \/ asked' = asked
  BY OnCancelStored
<1>3. cancelling.token \in Token /\ asked[cancelling.token] # "no"
  BY <1>2 DEF AskedInv, Flagging
<1>4. \A t \in Token : asked'[t] # "no" <=> asked[t] # "no" BY <1>1, <1>2, <1>3
<1> QED BY <1>2, <1>4, ServedByStutter

(* A result answers the request that waits for it: the message whose       *)
(* result an expectation waits for is the only one with that index.        *)
LEMMA GenServed ==
  ASSUME Inv, AskedInv, OweInv, AloneInv, NEW m \in wire, NEW code \in Code,
         ipc_gen_phone_res(m, code)
  PROVE  Service!Next
<1> DEFINE id == ipc_gen_phone_res_get_id(expects, m.aseq)
           x == expects.slot[id]
<1>1. expects \in Ring /\ m \in Owed /\ m.aseq \in Ids
  BY OwedPlaced DEF Inv, TypeOK
<1>2. UNCHANGED <<table, issues, asked>> BY DEF ipc_gen_phone_res
<1>3. id = -1 \/ (id \in ExpectIds /\ x.aseq = m.aseq) BY <1>1, GetExpect
<1>4. \/ id < 0 /\ answers' = answers
      \/ ~ id < 0 /\ CompleteAseq(x.aseq, GenAnswers(x, m.command, code))
  BY DEF ipc_gen_phone_res
<1> HIDE DEF id
<1>5. CASE answers' = answers BY <1>2, <1>5, ServedByStutter
<1>6. CASE id \in ExpectIds /\ x.aseq = m.aseq
           /\ CompleteAseq(m.aseq, GenAnswers(x, m.command, code))
  <2>1. x \in ipc_gen_phone_res_expect BY <1>1, <1>6 DEF Ring
  <2>2. /\ GenAnswers(x, m.command, code) \in Seq(Outcome)
        /\ AtMostTwo(GenAnswers(x, m.command, code))
    BY <2>1, GenAnswersTyped, GenAnswersCount
  <2>3. m.aseq # 0 => x.command = m.command
    <3> SUFFICES ASSUME m.aseq # 0 PROVE x.command = m.command OBVIOUS
    <3>1. PICK n \in wire : ResultOf(n, x) BY <1>6 DEF OweInv
    <3>2. n = m BY <1>6, <3>1 DEF ResultOf, AloneInv
    <3> QED BY <3>1, <3>2 DEF ResultOf
  <2>4. m.aseq # 0 => AtMostOne(GenAnswers(x, m.command, code))
    BY <2>1, <2>3, GenAnswersCount
  <2>5. m.aseq # 0 => \A t \in Token : table.slot[m.aseq].token = t => Pending(t)
    BY <1>1, <1>6 DEF OweInv, Owes
  <2> HIDE DEF x
  <2> QED BY <1>1, <1>2, <1>6, <2>2, <2>4, <2>5, CompletionServed
<1> QED BY <1>3, <1>4, <1>5, <1>6

(* A response answers the request it was asked for.                        *)
LEMMA ResponseServed ==
  ASSUME Inv, AskedInv, OweInv, AloneInv, NEW m \in wire, NEW faulty \in BOOLEAN,
         Response(m, faulty)
  PROVE  Service!Next
<1> DEFINE es == ResponseHandler(faulty)[m.command]
<1>1. m \in Owed /\ m.aseq \in Ids BY OwedPlaced DEF Inv, TypeOK
<1>2. /\ UNCHANGED <<table, issues, asked>> /\ m.reply = "RESP" /\ CompleteAseq(m.aseq, es)
  BY DEF Response
<1>3. m.command \in ResponseCommand /\ m.command # "CALL_BURST_DTMF"
  BY <1>1, <1>2 DEF Owed, AloneInv
<1>4. es \in Seq(Outcome) /\ AtMostTwo(es) /\ AtMostOne(es)
  BY <1>3, ResponseTyped, ResponseCount
<1>5. m.aseq # 0 => \A t \in Token : table.slot[m.aseq].token = t => Pending(t)
  BY <1>1, <1>2 DEF OweInv, Owes
<1> HIDE DEF es
<1> QED BY <1>1, <1>2, <1>4, <1>5, CompletionServed

(* Every step is one of the promise, or leaves rild's view alone.          *)
LEMMA NextServed ==
  ASSUME Orderly, Fresh, Inv, AskedInv, AskedInv', OweInv, AloneInv, [Next]_vars
  PROVE  [Service!Next]_(Service!svars)
<1>1. CASE UNCHANGED vars BY <1>1 DEF vars, Service!svars
<1>2. CASE Next
  <2>1. ASSUME NEW t \in Token, onRequest(t) PROVE Service!Next BY <2>1, OnRequestServed
  <2>2. ASSUME NEW t \in Token, RadioPowerOff(t) PROVE Service!Next
    BY <2>2, RadioPowerOffServed
  <2>3. ASSUME NEW t \in Token, OnCancelLookup(t) PROVE Service!Next
    BY <2>3, OnCancelLookupServed
  <2>4. ASSUME OnCancelStore PROVE Service!Next BY <2>4, OnCancelStoreServed
  <2>5. ASSUME NEW m \in wire, NEW code \in Code, ipc_gen_phone_res(m, code)
        PROVE  Service!Next
    BY <2>5, GenServed
  <2>6. ASSUME NEW m \in wire, NEW faulty \in BOOLEAN, Response(m, faulty)
        PROVE  Service!Next
    BY <2>6, ResponseServed
  <2>7. ASSUME \/ srs_snd_set_call_clock_sync
               \/ srs_snd_set_call_volume
               \/ srs_snd_set_call_audio_path
               \/ ClientReady
        PROVE  Service!Next
    BY <2>7, ServedByStutter DEF srs_snd_set_call_clock_sync, srs_snd_set_call_volume,
         srs_snd_set_call_audio_path, SrsSend, ClientReady
  <2>8. ~ raced' BY <1>2, NextKeepsUp DEF Fresh
  <2> QED BY <1>2, <2>1, <2>2, <2>3, <2>4, <2>5, <2>6, <2>7, <2>8, NoFailure, Unraced
<1> QED BY <1>1, <1>2

(* Nothing has been asked or answered when the driver starts.              *)
LEMMA InitServed == Init => Service!Init
BY DEF Init, Service!Init

-----------------------------------------------------------------------------
(* Every behaviour of the driver is one of RequestService, when requests   *)
(* come with fresh tokens and ask for one answer, the counters keep up and *)
(* the client does not fail: whatever the order in which rild, onCancel,   *)
(* the modem and the sound clients take their steps, a request is answered *)
(* once, and as cancelled only if rild asked for it, that of index 0       *)
(* apart.                                                                  *)
THEOREM DriverKeepsItsPromise == ASSUME Orderly, Fresh PROVE Spec => ImplementsService
<1>1. Inv /\ AskedInv /\ [Next]_vars => AskedInv' BY NextUncancelled DEF Orderly
<1>2. Inv /\ OweInv /\ [Next]_vars => OweInv' BY NextOwes
<1>3. Inv /\ AloneInv /\ [Next]_vars => AloneInv' BY NextAlone
<1>4. Inv /\ AskedInv /\ AskedInv' /\ OweInv /\ AloneInv /\ [Next]_vars =>
        [Service!Next]_(Service!svars)
  BY NextServed
<1>5. Inv /\ [Next]_vars => Inv' BY NextKeepsUp DEF Fresh
<1> QED BY InitInv, InitUncancelled, InitOwes, InitAlone, InitServed,
           <1>1, <1>2, <1>3, <1>4, <1>5, PTL DEF Spec, ImplementsService, Service!Spec
=============================================================================
