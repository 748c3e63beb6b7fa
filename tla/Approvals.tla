----------------------------- MODULE Approvals -----------------------------
(***************************************************************************)
(* What the agent asks of the user (src/src/acp/client_impl.rs,            *)
(* handle_acp_event and handle_ext_method_request in src/src/lib.rs,       *)
(* src/src/transport/outgoing.rs, src/src/translation/approval.rs and      *)
(* ext_method.rs): a permission request, a tool call or a question becomes *)
(* a request to the client under an id of the gateway's own; a task waits  *)
(* for the client's answer and gives it, translated, to the agent.         *)
(*                                                                         *)
(* The loop takes one message at a time, the agent's first.  While one of  *)
(* its handlers waits for the agent it takes none.                         *)
(***************************************************************************)
EXTENDS Naturals, Sequences, SequencesExt, FiniteSets

CONSTANTS
  Threads,
  Asks,         \* things the agent asks
  Kinds,        \* what they are: subset of {"permission", "tool", "input"}
  OptionLists,  \* the options a permission request may offer, in order
  Decisions,    \* what the client may answer; "error" is a JSON-RPC error
  MaxCalls,     \* requests of the client that the agent has to answer
  ManyTurns,    \* may two threads be in a turn at once?
  NoAnswer,     \* no answer yet
  NoThread      \* "unknown-thread"

AllowOptions  == {"allow_once", "allow_always"}
RejectOptions == {"reject_once", "reject_always"}
Accepting     == {"accept", "acceptForSession", "acceptWithExecpolicyAmendment"}

Outcomes == {"cancelled", "failed", "answered"} \cup AllowOptions \cup RejectOptions

\* An ask, as the agent sends it.
AskRecords == [thread : Threads, kind : Kinds, options : OptionLists]

ApprovalsConstants ==
  /\ IsFiniteSet(Asks)
  /\ Kinds \subseteq {"permission", "tool", "input"}
  /\ \A o \in OptionLists : IsInjective(o) /\ o \in Seq(AllowOptions \cup RejectOptions)
  /\ Decisions \subseteq Accepting \cup {"decline", "cancel", "error"}
  /\ NoAnswer \notin Asks /\ NoAnswer \notin Decisions
  /\ NoAnswer \notin Outcomes /\ NoAnswer \notin AskRecords
  /\ MaxCalls \in Nat
  /\ ManyTurns \in BOOLEAN

Ids == 0..Cardinality(Asks)

VARIABLES
  inTurn,    \* threads in a turn
  asked,     \* per ask: its thread, kind, options; or NoAnswer before
  events,    \* acp_events
  loop,      \* "free", "waiting" for the agent, or "ended"
  calls,     \* requests of the client so far
  inbound,   \* messages from the client: [id, decision], or id 0 for a request
  pending,   \* the pending table: id -> ask
  nextId,
  client,    \* requests the client has not answered: id, thread, ask
  decided,   \* what the client answered to the request that showed an ask
  arrived,   \* answers that the waiting tasks have not taken: ask -> decision
  answers    \* what the agent was told: ask -> outcome

vars == <<inTurn, asked, events, loop, calls, inbound, pending, nextId, client,
          decided, arrived, answers>>

Asked == {a \in Asks : asked[a] # NoAnswer}

TypeOK ==
  /\ inTurn \subseteq Threads
  /\ \A a \in Asked : asked[a] \in AskRecords
  /\ ToSet(events) \subseteq Asks
  /\ loop \in {"free", "waiting", "ended"}
  /\ calls \in 0..MaxCalls
  /\ \A i \in DOMAIN inbound : inbound[i] \in [id : Ids, decision : Decisions \cup {"call"}]
  /\ pending \in [Ids -> Asks \cup {NoAnswer}] /\ nextId \in 1..(Cardinality(Asks) + 1)
  /\ client \subseteq [id : Ids, thread : Threads \cup {NoThread}, ask : Asks]
  /\ decided \in [Asks -> Decisions \cup {NoAnswer}]
  /\ arrived \in [Asks -> Decisions \cup {NoAnswer}]
  /\ answers \in [Asks -> Outcomes \cup {NoAnswer}]

Init ==
  /\ inTurn = {}
  /\ asked = [a \in Asks |-> NoAnswer]
  /\ events = <<>>
  /\ loop = "free"
  /\ calls = 0
  /\ inbound = <<>>
  /\ pending = [i \in Ids |-> NoAnswer]
  /\ nextId = 1
  /\ client = {}
  /\ decided = [a \in Asks |-> NoAnswer]
  /\ arrived = [a \in Asks |-> NoAnswer]
  /\ answers = [a \in Asks |-> NoAnswer]

-----------------------------------------------------------------------------
(* Turns, and the agent's side.                                            *)

TurnBegins(t) ==
  /\ loop = "free"
  /\ t \notin inTurn
  /\ ManyTurns \/ inTurn = {}
  /\ inTurn' = inTurn \cup {t}
  /\ UNCHANGED <<asked, events, loop, calls, inbound, pending, nextId, client, decided, arrived, answers>>

\* The agent ends a turn when it has what it asked for.
TurnEnds(t) ==
  /\ loop = "free"
  /\ t \in inTurn
  /\ \A a \in Asked : asked[a].thread = t => answers[a] # NoAnswer
  /\ inTurn' = inTurn \ {t}
  /\ UNCHANGED <<asked, events, loop, calls, inbound, pending, nextId, client, decided, arrived, answers>>

AgentAsks(a, t, kind, options) ==
  /\ loop # "ended"
  /\ a \notin Asked
  /\ t \in inTurn
  /\ asked' = [asked EXCEPT ![a] = [thread |-> t, kind |-> kind, options |-> options]]
  /\ events' = Append(events, a)
  /\ UNCHANGED <<inTurn, loop, calls, inbound, pending, nextId, client, decided, arrived, answers>>

\* The answer to the handler's own request.
AgentAnswersCall ==
  /\ loop = "waiting"
  /\ loop' = "free"
  /\ UNCHANGED <<inTurn, asked, events, calls, inbound, pending, nextId, client, decided, arrived, answers>>

-----------------------------------------------------------------------------
(* The client's side.                                                      *)

\* It answers once, and in any order.
ClientAnswers(r, decision) ==
  /\ loop # "ended"
  /\ client' = client \ {r}
  /\ inbound' = Append(inbound, [id |-> r.id, decision |-> decision])
  /\ decided' = [decided EXCEPT ![r.ask] = decision]
  /\ UNCHANGED <<inTurn, asked, events, loop, calls, pending, nextId, arrived, answers>>

ClientCalls ==
  /\ loop # "ended"
  /\ calls < MaxCalls
  /\ calls' = calls + 1
  /\ inbound' = Append(inbound, [id |-> 0, decision |-> "call"])
  /\ UNCHANGED <<inTurn, asked, events, loop, pending, nextId, client, decided, arrived, answers>>

\* The transport is closed, or the agent exits: the loop ends, and with it the
\* table; every task that waits finds its channel closed.
Disconnected ==
  /\ loop = "free" /\ events = <<>>
  /\ loop' = "ended"
  /\ pending' = [i \in Ids |-> NoAnswer]
  /\ UNCHANGED <<inTurn, asked, events, calls, inbound, nextId, client, decided, arrived, answers>>

-----------------------------------------------------------------------------
(* The loop.                                                               *)

\* A permission request names its session; the other two name none, and are
\* given to some thread that is in a turn (find_active_turn).
ShownAs(a) ==
  IF asked[a].kind = "permission" THEN {asked[a].thread}
  ELSE IF inTurn = {} THEN {NoThread} ELSE inTurn

\* mistake: the id is taken before it is counted, and the next request has it too
SameId == nextId

\* next_id.fetch_add
NextId == nextId + 1

\* translate_permission_to_codex and the like: what the client sees of an ask
AsShown(a, t) == [id |-> nextId, thread |-> t, ask |-> a]

\* An ask was given back undecided: the writer to the client has stopped, and stays so.
WriterStopped == \E a \in Asks : answers[a] # NoAnswer /\ arrived[a] = NoAnswer

\* send_request: the waiting task is in the table before the line goes out
SendRequest(a) ==
  /\ ~WriterStopped
  /\ pending' = [pending EXCEPT ![nextId] = a]
  /\ nextId' = NextId
  /\ \E t \in ShownAs(a) : client' = client \cup {AsShown(a, t)}
  /\ UNCHANGED answers

\* What the agent is told when nobody waits for the client's answer any more.
Undecided(a) == IF asked[a].kind = "permission" THEN "cancelled" ELSE "failed"

\* The writer has stopped: the task is taken out of the table again, the id is used up.
SendFails(a) ==
  /\ answers' = [answers EXCEPT ![a] = Undecided(a)]
  /\ nextId' = NextId
  /\ UNCHANGED <<pending, client>>

\* mistake: the handler waits for the answer itself
HandleAndWait ==
  /\ loop = "free" /\ events # <<>>
  /\ events' = Tail(events)
  /\ SendRequest(Head(events))
  /\ loop' = "asking"
  /\ UNCHANGED <<inTurn, asked, calls, inbound, decided, arrived>>

\* send_request, and a task that waits for the answer; or the answer at once
HandleAsk ==
  /\ loop = "free"
  /\ events # <<>>
  /\ events' = Tail(events)
  /\ SendRequest(Head(events)) \/ SendFails(Head(events))
  /\ UNCHANGED <<inTurn, asked, loop, calls, inbound, decided, arrived>>

Unpend(id) == [pending EXCEPT ![id] = NoAnswer]

\* resolve_pending; an error of the client is an answer like another
HandleResponse ==
  LET m == Head(inbound) IN
  /\ loop = "free" /\ events = <<>>
  /\ inbound # <<>> /\ m.id # 0
  /\ inbound' = Tail(inbound)
  /\ pending' = Unpend(m.id)
  /\ arrived' = IF pending[m.id] = NoAnswer THEN arrived
                ELSE [arrived EXCEPT ![pending[m.id]] = m.decision]
  /\ UNCHANGED <<inTurn, asked, events, loop, calls, nextId, client, decided, answers>>

\* A handler that waits for the agent: thread/start, set_mode, ...
HandleCall ==
  /\ loop = "free" /\ events = <<>>
  /\ inbound # <<>> /\ Head(inbound).id = 0
  /\ inbound' = Tail(inbound)
  /\ loop' = "waiting"
  /\ UNCHANGED <<inTurn, asked, events, calls, pending, nextId, client, decided, arrived, answers>>

-----------------------------------------------------------------------------
(* The waiting tasks.                                                      *)

FirstOf(options, some) ==
  LET these == {i \in DOMAIN options : options[i] \in some}
  IN  IF these = {} THEN "cancelled" ELSE options[Min(these)]

\* translate_codex_approval_to_acp
TranslateDecision(decision, options) ==
  FirstOf(options, IF decision \in Accepting THEN AllowOptions ELSE RejectOptions)

\* translate_tool_call_response, translate_user_input_response
TranslateAnswer(decision) == IF decision \in Accepting THEN "answered" ELSE "failed"

Outcome(a) ==
  IF asked[a].kind = "permission" THEN TranslateDecision(arrived[a], asked[a].options)
  ELSE TranslateAnswer(arrived[a])

TaskAnswers(a) ==
  /\ arrived[a] # NoAnswer /\ answers[a] = NoAnswer
  /\ answers' = [answers EXCEPT ![a] = Outcome(a)]
  /\ UNCHANGED <<inTurn, asked, events, loop, calls, inbound, pending, nextId, client, decided, arrived>>

\* The loop has ended and the answer's channel, or the ask's, was dropped.
TaskGivesUp(a) ==
  /\ loop = "ended"
  /\ a \in Asked /\ arrived[a] = NoAnswer /\ answers[a] = NoAnswer
  /\ answers' = [answers EXCEPT ![a] =
                 IF Contains(events, a) THEN "failed" ELSE Undecided(a)]
  /\ UNCHANGED <<inTurn, asked, events, loop, calls, inbound, pending, nextId, client, decided, arrived>>

Next ==
  \/ \E t \in Threads : TurnBegins(t) \/ TurnEnds(t)
  \/ \E a \in Asks, t \in Threads, k \in Kinds, o \in OptionLists : AgentAsks(a, t, k, o)
  \/ AgentAnswersCall \/ ClientCalls \/ Disconnected
  \/ \E r \in client, d \in Decisions : ClientAnswers(r, d)
  \/ HandleAsk \/ HandleResponse \/ HandleCall
  \/ \E a \in Asks : TaskAnswers(a) \/ TaskGivesUp(a)

Spec == Init /\ [][Next]_vars

\* The loop and its tasks run; the agent answers the handlers' requests
\* whatever it waits for itself; the user answers what he is asked.
Fairness ==
  /\ WF_vars(HandleAsk) /\ WF_vars(HandleResponse) /\ WF_vars(HandleCall)
  /\ WF_vars(AgentAnswersCall)
  /\ \A a \in Asks :
       /\ WF_vars(TaskAnswers(a)) /\ WF_vars(TaskGivesUp(a))
       /\ WF_vars(\E r \in client, d \in Decisions : r.ask = a /\ ClientAnswers(r, d))

FairSpec == Spec /\ Fairness

-----------------------------------------------------------------------------
(* Properties.                                                             *)

\* The table, the client and the messages on their way agree: what is asked is
\* in exactly one place until its answer has arrived, under one id, or until it
\* is given back because it cannot be sent.
AskedOnce ==
  LET waiting(a) == Cardinality({i \in Ids : pending[i] = a})
      before(a)  == Cardinality({i \in DOMAIN events : events[i] = a})
  IN  loop # "ended" => \A a \in Asked :
        waiting(a) + before(a) =
          IF arrived[a] = NoAnswer /\ answers[a] = NoAnswer THEN 1 ELSE 0

\* What the agent was told is what the user decided about this ask: it is
\* allowed only if he accepted, and rejected only if he did not; an error of
\* the client allows nothing.
ToldAsDecided ==
  \A a \in Asks :
    /\ answers[a] \in AllowOptions \cup {"answered"} => decided[a] \in Accepting
    /\ answers[a] \in RejectOptions => decided[a] \in Decisions \ Accepting

\* The decision that arrives for an ask is the one the client gave for the
\* request that showed this ask.
DecisionOfItsAsk == \A a \in Asks : arrived[a] # NoAnswer => arrived[a] = decided[a]

\* "Permission requests are decided in the Codex UI and returned to Grok": a
\* decision for once is not returned as one for always.
\* The code does not keep this: see README.
OnceIsOnce ==
  \A a \in Asked :
    decided[a] = "accept" /\ Contains(asked[a].options, "allow_once")
      => answers[a] # "allow_always"

\* "Find the currently active thread and turn": what the client is asked is
\* shown in the thread whose session asks.
ShownInItsThread == \A r \in client : r.thread = asked[r.ask].thread

=============================================================================
