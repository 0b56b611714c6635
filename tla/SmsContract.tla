----------------------------- MODULE SmsContract -----------------------------
(***************************************************************************)
(* What the SMS gateway promises the caller of POST /otp: a code is handed *)
(* to providers a bounded number of times and only while the caller waits, *)
(* and the answer "delivered" means that a provider accepted it.           *)
(***************************************************************************)
EXTENDS Naturals

CONSTANT Requests

VARIABLES
  limit,     \* how often one code may be handed to a provider, which the
             \* configuration determines
  sends,     \* how often the code of each waiting request was handed over
  accepted,  \* the requests whose code a provider is known to have accepted
  answer     \* "none", "waiting", "delivered", "failed" or "gone"

vars == <<limit, sends, accepted, answer>>

Init ==
  /\ limit \in Nat
  /\ sends = [r \in Requests |-> 0]
  /\ accepted = {}
  /\ answer = [r \in Requests |-> "none"]

Receive(r) ==
  /\ answer[r] = "none"
  /\ answer' = [answer EXCEPT ![r] = "waiting"]
  /\ UNCHANGED <<limit, sends, accepted>>

\* The code is handed to a provider, which does not accept it.
Send(r) ==
  /\ answer[r] = "waiting" /\ sends[r] < limit
  /\ sends' = [sends EXCEPT ![r] = @ + 1]
  /\ UNCHANGED <<limit, accepted, answer>>

\* The code is handed to a provider, which answers the question: it accepts
\* the code, or fails for good.
LastSend(r) ==
  /\ answer[r] = "waiting" /\ sends[r] < limit
  /\ sends' = [sends EXCEPT ![r] = 0]
  /\ \/ /\ accepted' = accepted \cup {r}
        /\ answer' = [answer EXCEPT ![r] = "delivered"]
     \/ /\ answer' = [answer EXCEPT ![r] = "failed"]
        /\ UNCHANGED accepted
  /\ UNCHANGED limit

\* The caller is refused without another send, or hangs up.
GiveUp(r) ==
  /\ answer[r] \in {"none", "waiting"}
  /\ answer' \in {[answer EXCEPT ![r] = "failed"], [answer EXCEPT ![r] = "gone"]}
  /\ sends' = [sends EXCEPT ![r] = 0]
  /\ UNCHANGED <<limit, accepted>>

Next == \E r \in Requests : Receive(r) \/ Send(r) \/ LastSend(r) \/ GiveUp(r)

Spec == Init /\ [][Next]_vars
=============================================================================
