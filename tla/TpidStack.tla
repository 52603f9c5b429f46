------------------------------ MODULE TpidStack ------------------------------
(***************************************************************************)
(* What the queue of incoming messages promises, whatever its array looks  *)
(* like: the last one in is the first to be acknowledged, and when there   *)
(* is no room the one that has been there longest gives way.               *)
(***************************************************************************)
EXTENDS Integers, Sequences

CONSTANTS N, Tpids

VARIABLE stack

Init == stack = <<>>

Push(tpid) ==
  stack' = Append(IF Len(stack) < N THEN stack ELSE Tail(stack), tpid)

Pop ==
  /\ stack # <<>>
  /\ stack' = SubSeq(stack, 1, Len(stack) - 1)

(* A tpid of 0 finds room for itself and takes none.                       *)
PushNothing ==
  /\ Len(stack) = N
  /\ stack' = Tail(stack)

Clear == stack' = <<>>

Next == (\E tpid \in Tpids \ {0} : Push(tpid)) \/ PushNothing \/ Pop \/ Clear

Spec == Init /\ [][Next]_stack
=============================================================================
