---------------------------- MODULE RequestService ----------------------------
(***************************************************************************)
(* What the driver promises rild, whatever happens between the two and the *)
(* modem: a request is answered once, and as cancelled only if rild asked  *)
(* for that.  The tokens in exempt are at present not covered by the first *)
(* half: the driver may answer them again, and twice in one step.          *)
(***************************************************************************)
EXTENDS Integers, Sequences

CONSTANTS Token, Errno

VARIABLES
  issues,    \* how often each token was used
  asked,     \* whether the token's present request was cancelled
  answers,   \* the answers given to the token's present request
  exempt     \* the tokens the promise does not cover

svars == <<issues, asked, answers, exempt>>

Open(t) == issues[t] > 0 /\ answers[t] = <<>>

Init ==
  /\ issues = [t \in Token |-> 0]
  /\ asked = [t \in Token |-> FALSE]
  /\ answers = [t \in Token |-> <<>>]
  /\ exempt \in SUBSET Token

(* rild makes a request, which may be answered on the spot.                *)
Make(t) ==
  /\ ~ Open(t)
  /\ issues' = [issues EXCEPT ![t] = @ + 1]
  /\ \E cancelled \in BOOLEAN, now \in {<<>>} \cup {<<e>> : e \in Errno} :
       /\ now = <<"CANCELLED">> => cancelled
       /\ asked' = [asked EXCEPT ![t] = cancelled]
       /\ answers' = [answers EXCEPT ![t] = now]

Cancel(t) ==
  /\ Open(t)
  /\ asked' = [asked EXCEPT ![t] = TRUE]
  /\ UNCHANGED <<issues, answers>>

Complete(t) ==
  /\ Open(t)
  /\ \E e \in Errno :
       /\ e = "CANCELLED" => asked[t]
       /\ answers' = [answers EXCEPT ![t] = <<e>>]
  /\ UNCHANGED <<issues, asked>>

CompleteExempt(t) ==
  /\ t \in exempt
  /\ \E es \in {<<e>> : e \in Errno} \cup (Errno \X Errno) :
       /\ (\E i \in DOMAIN es : es[i] = "CANCELLED") => asked[t]
       /\ answers' = [answers EXCEPT ![t] = @ \o es]
  /\ UNCHANGED <<issues, asked>>

(* Which tokens are exempt is the driver's affair.                         *)
Next ==
  /\ \/ \E t \in Token : Make(t) \/ Cancel(t) \/ Complete(t) \/ CompleteExempt(t)
     \/ UNCHANGED <<issues, asked, answers>>
  /\ exempt' \in SUBSET Token

Spec == Init /\ [][Next]_svars
=============================================================================
