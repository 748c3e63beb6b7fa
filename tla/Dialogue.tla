------------------------------ MODULE Dialogue ------------------------------
(***************************************************************************)
(* What the bridge promises its client about requests: a request that was  *)
(* sent is answered at most once, with what the backends said to that      *)
(* request and to no other, and with success only if nobody failed.        *)
(***************************************************************************)
EXTENDS FiniteSets

CONSTANTS
  Requests,   \* the client's requests
  Backends,   \* who may contribute to an answer
  NoReply     \* not answered

VARIABLES
  sent,      \* requests the client has sent
  replyOf,   \* the answer of each: whether it is a result, and its parts
  refused    \* <<backend, request>>: the backend answered with an error

vars == <<sent, replyOf, refused>>

Replies(r) == [ok : BOOLEAN, parts : SUBSET (Backends \X {r})]

Init ==
  /\ sent = {}
  /\ replyOf = [r \in Requests |-> NoReply]
  /\ refused = {}

Send(r) ==
  /\ r \notin sent
  /\ sent' = sent \cup {r}
  /\ UNCHANGED <<replyOf, refused>>

Refuse(b, r) ==
  /\ r \in sent
  /\ replyOf[r] = NoReply
  /\ refused' = refused \cup {<<b, r>>}
  /\ UNCHANGED <<sent, replyOf>>

Reply(r) ==
  /\ r \in sent
  /\ replyOf[r] = NoReply
  /\ \E reply \in Replies(r) :
       /\ reply.ok => \A b \in Backends : <<b, r>> \notin refused
       /\ replyOf' = [replyOf EXCEPT ![r] = reply]
  /\ UNCHANGED <<sent, refused>>

\* What is answered without any backend is sent and answered in one step.
Reject(r) ==
  /\ r \notin sent
  /\ sent' = sent \cup {r}
  /\ \E ok \in BOOLEAN : replyOf' = [replyOf EXCEPT ![r] = [ok |-> ok, parts |-> {}]]
  /\ UNCHANGED refused

Next ==
  \E r \in Requests :
    \/ Send(r)
    \/ Reject(r)
    \/ Reply(r)
    \/ \E b \in Backends : Refuse(b, r)

Spec == Init /\ [][Next]_vars
=============================================================================
