----------------------------- MODULE GrokTurns ------------------------------
(***************************************************************************)
(* One gateway session of the Grok adapter (src/src/lib.rs, run_session):  *)
(* the single-threaded event loop that owns GatewayState and IdMap, the    *)
(* prompt tasks it spawns beside itself, the ACP agent that answers them,  *)
(* and the Codex client that sends requests at any moment.                 *)
(*                                                                         *)
(* A handler runs to completion inside the loop.  Where it awaits the      *)
(* agent it is split in two actions, and `handler' holds the request it is *)
(* in the middle of: meanwhile prompt tasks and the agent go on, and no    *)
(* other request or completion is taken.  A request the code refuses       *)
(* changes nothing and is a stuttering step.                               *)
(***************************************************************************)
EXTENDS Integers, Sequences, FiniteSets

CONSTANTS
  Threads,       \* Codex thread ids (UUIDs, or an ACP session id taken as one)
  Sessions,      \* ACP session ids that session/new and session/fork hand out
  None,          \* no session
  MaxTurns,      \* bound on turn ids
  MaxPrompts,    \* bound on prompt ids
  MidTurnReset   \* whether the client resumes, rolls back or archives a thread
                 \* while one of its turns is in progress

Turns      == 1..MaxTurns
Prompts    == 1..MaxPrompts
SessionIds == Threads \cup Sessions
NoTurn     == 0
NoPrompt   == 0

ASSUME ConstantsOK ==
  /\ MaxTurns \in Nat
  /\ MaxPrompts \in Nat
  /\ MidTurnReset \in BOOLEAN
  /\ Threads \cap Sessions = {}
  /\ None \notin SessionIds

VARIABLES
  initialized,      \* GatewayState.initialized
  lifecycle,        \* GatewayState.threads, Uninitialized where it has no entry
  threadToSession,  \* IdMap.thread_to_session, None where it has no entry
  activePromptIds,  \* GatewayState.active_prompt_ids, NoPrompt: no entry
  turnOutputs,      \* keys of GatewayState.turn_outputs
  rollout,          \* where a thread's rollout file lies: none, sessions, archived
  handler,          \* the request whose handler awaits the agent
  internal,         \* the channel of InternalEvent::TurnCompleted: prompt ids
  loop,             \* "running", or why run_session left its loop
  nextTurn,         \* new_turn_id: the ids below are taken
  nextPrompt        \* new_prompt_id: the ids below are taken

VARIABLES
  promptPhase,      \* where each prompt is: unused, spawned (task not polled
                    \* yet), outstanding (at the agent), answered (its
                    \* completion is queued), consumed (the loop took it)
  promptTurn,       \* the turn a prompt task reports to
  promptSession,    \* the ACP session it prompts
  promptOutcome     \* how the prompt ended

VARIABLES
  agentUp,          \* the agent process is alive
  agentSessions,    \* ACP sessions the agent has
  cancelSeen,       \* prompts the agent held when a session/cancel arrived
  turnStatus,       \* client's view: none, inProgress, or turn/completed's status
  turnThread,       \* the thread a turn was started on, as a set
  interruptAimed    \* prompts a turn/interrupt was acknowledged for while
                    \* the agent's answer was still to come

gatewayVars == <<initialized, lifecycle, threadToSession, activePromptIds,
                 turnOutputs, rollout, handler, internal, loop, nextTurn,
                 nextPrompt>>
promptVars  == <<promptPhase, promptTurn, promptSession, promptOutcome>>
agentVars   == <<agentUp, agentSessions, cancelSeen>>
clientVars  == <<turnStatus, turnThread, interruptAimed>>
vars        == <<gatewayVars, promptVars, agentVars, clientVars>>

-----------------------------------------------------------------------------
(* SessionLifecycle and its constructors.                                  *)

States == {"Uninitialized", "Creating", "Loading", "Idle", "InTurn", "Closed"}

Lifecycles == [state   : States,
               session : SessionIds \cup {None},
               turn    : Turns \cup {NoTurn}]

Plain(state)  == [state |-> state, session |-> None, turn |-> NoTurn]
Idle(s)       == [state |-> "Idle", session |-> s, turn |-> NoTurn]
InTurn(s, u)  == [state |-> "InTurn", session |-> s, turn |-> u]

Running(t)    == lifecycle[t].state = "InTurn"

\* The request whose handler is suspended at an await on the agent.
Ops      == {"initialize", "start", "fork", "resume", "rollback", "turn",
             "query"}
Handlers == [op : Ops \cup {"none"}, thread : Threads \cup {None}]

NoHandler == [op |-> "none", thread |-> None]

Awaiting(op, t) == handler' = [op |-> op, thread |-> t]
Resumed(op)     == /\ loop = "running"
                   /\ handler.op = op
                   /\ handler' = NoHandler

\* The loop is back at its select and polls the client's channel.
Ready == loop = "running" /\ handler = NoHandler

\* A request that resets a thread arrives in the middle of its turn only if
\* the client does that.
MayReset(t) == MidTurnReset \/ ~Running(t)

-----------------------------------------------------------------------------
Outcomes == {"endTurn", "refusal", "cancelled", "error"}
Terminal == {"completed", "interrupted", "failed"}

\* Variant: the stop reason is passed on as it came.
RawStopReason(o) == o

\* translate_prompt_response matches only Cancelled; the other stop reasons
\* fall to its default arm.  A failed prompt has a branch of its own.
StatusOf(o) == IF o = "cancelled" THEN "interrupted"
               ELSE IF o = "error" THEN "failed" ELSE "completed"

TypeOK ==
  /\ initialized \in BOOLEAN
  /\ lifecycle \in [Threads -> Lifecycles]
  /\ threadToSession \in [Threads -> SessionIds \cup {None}]
  /\ activePromptIds \in [Turns -> Prompts \cup {NoPrompt}]
  /\ turnOutputs \in SUBSET Turns
  /\ rollout \in [Threads -> {"none", "sessions", "archived"}]
  /\ handler \in Handlers
  /\ internal \in Seq(Prompts)
  /\ loop \in {"running", "agentGone", "clientGone"}
  /\ nextTurn \in 1..(MaxTurns + 1)
  /\ nextPrompt \in 1..(MaxPrompts + 1)
  /\ promptPhase \in [Prompts -> {"unused", "spawned", "outstanding",
                                  "answered", "consumed"}]
  /\ promptTurn \in [Prompts -> Turns \cup {NoTurn}]
  /\ promptSession \in [Prompts -> SessionIds \cup {None}]
  /\ promptOutcome \in [Prompts -> Outcomes \cup {"none"}]
  /\ agentUp \in BOOLEAN
  /\ agentSessions \in SUBSET SessionIds
  /\ cancelSeen \in SUBSET Prompts
  /\ turnStatus \in [Turns -> Terminal \cup {"none", "inProgress"}]
  /\ turnThread \in [Turns -> SUBSET Threads]
  /\ interruptAimed \in SUBSET Prompts

\* IdMap::load restores the thread map of earlier processes (one thread per
\* session); the agent may also know sessions by which the client names a
\* thread no map has.  Everything else starts empty.
Init ==
  /\ initialized = FALSE
  /\ lifecycle = [t \in Threads |-> Plain("Uninitialized")]
  /\ threadToSession \in [Threads -> Sessions \cup {None}]
  /\ \A t, r \in Threads : t # r /\ threadToSession[t] # None
                              => threadToSession[t] # threadToSession[r]
  /\ activePromptIds = [u \in Turns |-> NoPrompt]
  /\ turnOutputs = {}
  /\ rollout = [t \in Threads |->
                  IF threadToSession[t] = None THEN "none" ELSE "sessions"]
  /\ handler = NoHandler
  /\ internal = <<>>
  /\ loop = "running"
  /\ nextTurn = 1
  /\ nextPrompt = 1
  /\ promptPhase = [p \in Prompts |-> "unused"]
  /\ promptTurn = [p \in Prompts |-> NoTurn]
  /\ promptSession = [p \in Prompts |-> None]
  /\ promptOutcome = [p \in Prompts |-> "none"]
  /\ agentUp = TRUE
  /\ \E foreign \in SUBSET {t \in Threads : threadToSession[t] = None} :
       agentSessions = foreign \cup ({threadToSession[t] : t \in Threads} \ {None})
  /\ cancelSeen = {}
  /\ turnStatus = [u \in Turns |-> "none"]
  /\ turnThread = [u \in Turns |-> {}]
  /\ interruptAimed = {}

-----------------------------------------------------------------------------
(* Handlers that await the agent and keep nothing of its answer here.      *)

turnVars == <<lifecycle, threadToSession, activePromptIds, turnOutputs,
              rollout, loop, nextTurn, nextPrompt>>

Initialize ==
  /\ Ready
  /\ Awaiting("initialize", None)
  /\ UNCHANGED <<initialized, internal, turnVars, promptVars, agentVars, clientVars>>

Initialized ==
  /\ Resumed("initialize")
  /\ agentUp
  /\ initialized' = TRUE
  /\ UNCHANGED <<internal, turnVars, promptVars, agentVars, clientVars>>

\* session/setMode, session/setConfigOption and thread/list.
Query ==
  /\ Ready
  /\ Awaiting("query", None)
  /\ UNCHANGED <<initialized, internal, turnVars, promptVars, agentVars, clientVars>>

\* The agent answers a query, or answers another request with an error, or it
\* dies: the handler reports that to the client and leaves the lifecycle as it
\* was set before the await.
AwaitReturns ==
  /\ \E op \in Ops \ {"turn"} : Resumed(op)
  /\ UNCHANGED <<initialized, internal, turnVars, promptVars, agentVars, clientVars>>

-----------------------------------------------------------------------------
(* Threads and sessions.                                                   *)

restVars == <<initialized, activePromptIds, turnOutputs, internal, loop,
              nextTurn, nextPrompt, promptVars, agentUp, cancelSeen,
              clientVars>>

SetLifecycle(t, l) == lifecycle' = [lifecycle EXCEPT ![t] = l]
MapThread(t, s)    == threadToSession' = [threadToSession EXCEPT ![t] = s]
SetRollout(t, r)   == rollout' = [rollout EXCEPT ![t] = r]

\* new_thread_id generates an id nothing has seen.
Fresh(t) ==
  /\ lifecycle[t].state = "Uninitialized"
  /\ threadToSession[t] = None
  /\ rollout[t] = "none"
  /\ t \notin agentSessions

\* session/new or session/fork succeeds with a session of its own, and the
\* handler maps the thread to it and makes the thread idle.
OnNewSession(t) ==
  /\ agentUp
  /\ \E s \in Sessions \ agentSessions :
       /\ agentSessions' = agentSessions \cup {s}
       /\ MapThread(t, s)
       /\ SetLifecycle(t, Idle(s))

ThreadStart(t) ==
  /\ Ready
  /\ initialized
  /\ Fresh(t)
  /\ SetLifecycle(t, Plain("Creating"))
  /\ Awaiting("start", t)
  /\ UNCHANGED <<threadToSession, rollout, agentSessions, restVars>>

ThreadStarted ==
  /\ Resumed("start")
  /\ OnNewSession(handler.thread)
  /\ SetRollout(handler.thread, "sessions")
  /\ UNCHANGED restVars

\* The copy of the source's rollout is written before the agent is asked.
ThreadFork(source, t) ==
  /\ Ready
  /\ initialized
  /\ rollout[source] = "sessions"
  /\ Fresh(t)
  /\ SetLifecycle(t, Plain("Creating"))
  /\ SetRollout(t, "sessions")
  /\ Awaiting("fork", t)
  /\ UNCHANGED <<threadToSession, agentSessions, restVars>>

ThreadForked ==
  /\ Resumed("fork")
  /\ OnNewSession(handler.thread)
  /\ UNCHANGED <<rollout, restVars>>

\* A thread the map does not have is taken for a session id of the agent.
ResumeSession(t) == IF threadToSession[t] # None THEN threadToSession[t] ELSE t

ThreadResume(t) ==
  /\ Ready
  /\ initialized
  /\ MayReset(t)
  /\ SetLifecycle(t, Plain("Loading"))
  /\ Awaiting("resume", t)
  /\ UNCHANGED <<threadToSession, rollout, agentSessions, restVars>>

ThreadResumed ==
  LET t == handler.thread
      s == ResumeSession(t)
  IN
  /\ Resumed("resume")
  /\ agentUp
  /\ s \in agentSessions
  /\ MapThread(t, s)
  /\ SetLifecycle(t, Idle(s))
  /\ UNCHANGED <<rollout, agentSessions, restVars>>

ThreadRollback(t) ==
  /\ Ready
  /\ initialized
  /\ MayReset(t)
  /\ rollout[t] = "sessions"
  /\ Awaiting("rollback", t)
  /\ UNCHANGED <<lifecycle, threadToSession, rollout, agentSessions, restVars>>

ThreadRolledBack ==
  /\ Resumed("rollback")
  /\ OnNewSession(handler.thread)
  /\ UNCHANGED <<rollout, restVars>>

ThreadArchive(t) ==
  /\ Ready
  /\ MayReset(t)
  /\ rollout[t] = "sessions"
  /\ SetRollout(t, "archived")
  /\ SetLifecycle(t, Plain("Closed"))
  /\ UNCHANGED <<threadToSession, handler, agentSessions, restVars>>

ThreadUnarchive(t) ==
  /\ Ready
  /\ rollout[t] = "archived"
  /\ SetRollout(t, "sessions")
  /\ UNCHANGED <<lifecycle, threadToSession, handler, agentSessions, restVars>>

-----------------------------------------------------------------------------
(* Turns and prompts.                                                      *)

\* spawn_prompt under a new prompt id, which becomes the turn's newest.
IssuePrompt(u, s) ==
  /\ activePromptIds' = [activePromptIds EXCEPT ![u] = nextPrompt]
  /\ promptPhase'   = [promptPhase EXCEPT ![nextPrompt] = "spawned"]
  /\ promptTurn'    = [promptTurn EXCEPT ![nextPrompt] = u]
  /\ promptSession' = [promptSession EXCEPT ![nextPrompt] = s]
  /\ nextPrompt' = nextPrompt + 1
  /\ UNCHANGED promptOutcome

\* Variant: a turn may start while another one is active.
MayStartSecondTurn(t) ==
  /\ threadToSession[t] # None
  /\ lifecycle[t].session = threadToSession[t]

\* validate_turn_start_lifecycle
MayStartTurn(t) ==
  /\ threadToSession[t] # None
  /\ lifecycle[t] = Idle(threadToSession[t])

\* turn/start up to the prompt: the client is told, then a request with an
\* effort awaits session/set_mode before it prompts.
TurnStart(t) ==
  /\ Ready
  /\ MayStartTurn(t)
  /\ nextTurn <= MaxTurns
  /\ nextPrompt <= MaxPrompts
  /\ SetLifecycle(t, InTurn(threadToSession[t], nextTurn))
  /\ turnOutputs' = turnOutputs \cup {nextTurn}
  /\ nextTurn' = nextTurn + 1
  /\ turnStatus' = [turnStatus EXCEPT ![nextTurn] = "inProgress"]
  /\ turnThread' = [turnThread EXCEPT ![nextTurn] = {t}]
  /\ \/ /\ Awaiting("turn", t)
        /\ UNCHANGED <<activePromptIds, nextPrompt, promptVars>>
     \/ /\ IssuePrompt(nextTurn, threadToSession[t])
        /\ UNCHANGED handler
  /\ UNCHANGED <<initialized, threadToSession, rollout, internal, loop,
                 agentVars, interruptAimed>>

\* Variant: a refused effort fails the request and leaves the turn started.
TurnModeRequired ==
  /\ Resumed("turn")
  /\ LET l == lifecycle[handler.thread] IN
       \/ IssuePrompt(l.turn, l.session)
       \/ UNCHANGED <<activePromptIds, nextPrompt, promptVars>>
  /\ UNCHANGED <<initialized, lifecycle, threadToSession, turnOutputs, rollout,
                 internal, loop, nextTurn, agentVars, clientVars>>

\* An effort the agent refused is only logged: the prompt follows anyway.
TurnModeSet ==
  /\ Resumed("turn")
  /\ LET l == lifecycle[handler.thread] IN IssuePrompt(l.turn, l.session)
  /\ UNCHANGED <<initialized, lifecycle, threadToSession, turnOutputs, rollout,
                 internal, loop, nextTurn, agentVars, clientVars>>

\* Variant: the turn id of the request is not compared.
AddressesThread(t, u) ==
  /\ Running(t)
  /\ lifecycle[t].session = threadToSession[t]

\* The thread's active turn is the one the request names, on the mapped session.
Addresses(t, u) ==
  /\ Running(t)
  /\ lifecycle[t].turn = u
  /\ lifecycle[t].session = threadToSession[t]

\* prepare_turn_steer: a concurrent send-now prompt replaces the newest one.
TurnSteer(t, u) ==
  /\ Ready
  /\ Addresses(t, u)
  /\ nextPrompt <= MaxPrompts
  /\ IssuePrompt(u, threadToSession[t])
  /\ UNCHANGED <<initialized, lifecycle, threadToSession, turnOutputs, rollout,
                 handler, internal, loop, nextTurn, agentVars, clientVars>>

\* The prompts of session s that the agent has and has not answered.
AtAgent(s) == {p \in Prompts : promptPhase[p] = "outstanding"
                               /\ promptSession[p] = s}
CancelReaches(s) == AtAgent(s)

Unanswered(p) == promptPhase[p] \in {"spawned", "outstanding"}

\* session/cancel is on its way to the agent, in order with the prompts that
\* were sent, before the handler returns.
TurnInterrupt(t, u) ==
  /\ Ready
  /\ Addresses(t, u)
  /\ agentUp
  /\ cancelSeen' = cancelSeen \cup CancelReaches(threadToSession[t])
  /\ interruptAimed' = interruptAimed \cup
       {p \in Prompts : p = activePromptIds[u] /\ Unanswered(p)}
  /\ UNCHANGED <<gatewayVars, promptVars, agentUp, agentSessions, turnStatus,
                 turnThread>>

-----------------------------------------------------------------------------
(* Prompt tasks and the agent.                                             *)

\* Prompt tasks are polled for the first time in the order they were spawned.
NextToPoll(p) ==
  /\ promptPhase[p] = "spawned"
  /\ \A q \in Prompts : promptPhase[q] = "spawned" => p <= q

\* The first poll sends the request.
PromptSend(p) ==
  /\ loop = "running"
  /\ agentUp
  /\ NextToPoll(p)
  /\ promptPhase' = [promptPhase EXCEPT ![p] = "outstanding"]
  /\ UNCHANGED <<gatewayVars, promptTurn, promptSession, promptOutcome,
                 agentVars, clientVars>>

\* The prompt's future resolves and its task queues the completion.
Complete(p, outcome) ==
  /\ promptPhase' = [promptPhase EXCEPT ![p] = "answered"]
  /\ promptOutcome' = [promptOutcome EXCEPT ![p] = outcome]
  /\ internal' = Append(internal, p)
  /\ UNCHANGED <<initialized, turnVars, handler, promptTurn,
                 promptSession, agentVars, clientVars>>

\* A later prompt of the turn is at the agent, with sendNow.
Overtaken(p) == \E q \in AtAgent(promptSession[p]) :
                  q > p /\ promptTurn[q] = promptTurn[p]

\* Grok runs the prompts of a session in order.  It reports a prompt as
\* cancelled only after a session/cancel or a send-now prompt; an answer may
\* also have crossed the cancel.
AgentAnswer(p) ==
  /\ loop = "running"
  /\ agentUp
  /\ promptPhase[p] = "outstanding"
  /\ \A q \in AtAgent(promptSession[p]) : p <= q
  /\ \E outcome \in Outcomes :
       /\ outcome = "cancelled" => p \in cancelSeen \/ Overtaken(p)
       /\ Complete(p, outcome)

AgentExit ==
  /\ loop = "running"
  /\ agentUp
  /\ agentUp' = FALSE
  /\ cancelSeen' = {}
  /\ UNCHANGED <<gatewayVars, promptVars, agentSessions, clientVars>>

\* Prompts that were sent, and those sent from now on, resolve to an error.
PromptFails(p) ==
  /\ loop = "running"
  /\ ~agentUp
  /\ NextToPoll(p) \/ promptPhase[p] = "outstanding"
  /\ Complete(p, "error")

-----------------------------------------------------------------------------
(* The end of a turn: handle_internal_event.                               *)

\* Variants: any prompt of the active turn ends it; a completion is not
\* compared with the active turn; every cancelled completion is suppressed, not
\* only a superseded one.
EndsWithAnyPrompt(p, t) ==
  LET u == promptTurn[p] IN
  /\ turnThread[u] = {t}
  /\ Running(t)
  /\ lifecycle[t].turn = u

EndsWithoutMatch(p, t) == turnThread[promptTurn[p]] = {t}

EndsUnlessCancelled(p, t) ==
  /\ activePromptIds[promptTurn[p]] = p
  /\ turnThread[promptTurn[p]] = {t}
  /\ lifecycle[t].turn = promptTurn[p]
  /\ promptOutcome[p] # "cancelled"

\* The completion is the newest prompt's and its turn is the active one.
EndsTurn(p, t) ==
  LET u == promptTurn[p] IN
  /\ activePromptIds[u] = p
  /\ turnThread[u] = {t}
  /\ Running(t)
  /\ lifecycle[t].turn = u

\* Variants: the turn's output is kept; turn/completed is not sent.
EndTurnKeepsOutput(p, t) ==
  LET u == promptTurn[p] IN
  /\ activePromptIds' = [activePromptIds EXCEPT ![u] = NoPrompt]
  /\ turnStatus' = [turnStatus EXCEPT ![u] = StatusOf(promptOutcome[p])]
  /\ SetLifecycle(t, Idle(lifecycle[t].session))
  /\ UNCHANGED turnOutputs

EndTurnSilently(p, t) ==
  LET u == promptTurn[p] IN
  /\ turnOutputs' = turnOutputs \ {u}
  /\ activePromptIds' = [activePromptIds EXCEPT ![u] = NoPrompt]
  /\ SetLifecycle(t, Idle(lifecycle[t].session))
  /\ UNCHANGED turnStatus

\* Outputs and prompt id go, turn/completed is sent, the thread is idle on the
\* session its turn ran on.
EndTurn(p, t) ==
  LET u == promptTurn[p] IN
  /\ turnOutputs' = turnOutputs \ {u}
  /\ activePromptIds' = [activePromptIds EXCEPT ![u] = NoPrompt]
  /\ turnStatus' = [turnStatus EXCEPT ![u] = StatusOf(promptOutcome[p])]
  /\ SetLifecycle(t, Idle(lifecycle[t].session))

\* A superseded or stale completion is dropped.
HandleInternal ==
  /\ Ready
  /\ internal # <<>>
  /\ internal' = Tail(internal)
  /\ LET p == Head(internal) IN
       /\ promptPhase' = [promptPhase EXCEPT ![p] = "consumed"]
       /\ promptSession' = [promptSession EXCEPT ![p] = None]
       /\ promptOutcome' = [promptOutcome EXCEPT ![p] = "none"]
       /\ cancelSeen' = cancelSeen \ {p}
       /\ interruptAimed' = interruptAimed \ {p}
       /\ \/ \E t \in Threads : EndsTurn(p, t) /\ EndTurn(p, t)
          \/ /\ \A t \in Threads : ~EndsTurn(p, t)
             /\ UNCHANGED <<turnOutputs, activePromptIds, turnStatus, lifecycle>>
  /\ UNCHANGED <<initialized, threadToSession, rollout, handler, loop,
                 nextTurn, nextPrompt, promptTurn, agentUp, agentSessions,
                 turnThread>>

\* run_session leaves its loop without another word to the client, and the
\* process ends with what is still queued.
LoopEnds(why) ==
  /\ Ready
  /\ loop' = why
  /\ UNCHANGED <<initialized, lifecycle, threadToSession, activePromptIds,
                 turnOutputs, rollout, handler, internal, nextTurn, nextPrompt,
                 promptVars, agentVars, clientVars>>

AgentGone  == ~agentUp /\ LoopEnds("agentGone")
ClientGone == LoopEnds("clientGone")

-----------------------------------------------------------------------------
ClientRequest ==
  \/ Initialize
  \/ Query
  \/ \E t \in Threads : \/ ThreadStart(t)
                        \/ ThreadResume(t)
                        \/ ThreadRollback(t)
                        \/ ThreadArchive(t)
                        \/ ThreadUnarchive(t)
                        \/ TurnStart(t)
  \/ \E source, t \in Threads : ThreadFork(source, t)
  \/ \E t \in Threads, u \in Turns : TurnSteer(t, u) \/ TurnInterrupt(t, u)

AgentReply ==
  \/ Initialized
  \/ ThreadStarted
  \/ ThreadForked
  \/ ThreadResumed
  \/ ThreadRolledBack
  \/ TurnModeSet
  \/ AwaitReturns

PromptStep(p) == PromptSend(p) \/ AgentAnswer(p) \/ PromptFails(p)

Next ==
  \/ ClientRequest
  \/ AgentReply
  \/ \E p \in Prompts : PromptStep(p)
  \/ HandleInternal
  \/ AgentExit
  \/ AgentGone
  \/ ClientGone

Spec == Init /\ [][Next]_vars

\* The agent answers what it was asked, prompts included, and the runtime
\* polls every task.  The select is biased towards the client, so completions
\* are taken only if its requests leave the loop a gap again and again: strong
\* fairness.  The client owes nothing; the agent may die at any time, and the
\* loop then notices.
Fairness ==
  /\ WF_vars(AgentReply)
  /\ \A p \in Prompts : WF_vars(PromptStep(p))
  /\ SF_vars(HandleInternal)
  /\ SF_vars(AgentGone)

FairSpec == Spec /\ Fairness

-----------------------------------------------------------------------------
(* Properties.                                                             *)

InProgress(u) == turnStatus[u] = "inProgress"

\* The newest prompt issued for turn u; NoPrompt while it has none.
NewestPrompt(u) ==
  IF \E p \in Prompts : promptTurn[p] = u
  THEN CHOOSE p \in Prompts : /\ promptTurn[p] = u
                              /\ \A q \in Prompts : promptTurn[q] = u => q <= p
  ELSE NoPrompt

\* A turn the gateway holds for active can always end: the prompt whose
\* completion would end it is on its way, or turn/start is about to issue it.
ActiveTurnIsLive ==
  \A t \in Threads : Running(t) =>
    \/ handler.op = "turn" /\ handler.thread = t
    \/ \E p \in Prompts :
         /\ activePromptIds[lifecycle[t].turn] = p
         /\ promptTurn[p] = lifecycle[t].turn
         /\ promptSession[p] = lifecycle[t].session
         /\ promptPhase[p] \in {"spawned", "outstanding", "answered"}

\* A turn ends only with the answer of its newest prompt and with the status of
\* that answer, whatever prompts steering left behind and however late they end.
EndedByNewestPrompt ==
  [][\A u \in Turns : InProgress(u) /\ turnStatus'[u] # "inProgress" =>
       /\ internal # <<>>
       /\ Head(internal) = NewestPrompt(u)
       /\ turnStatus'[u] = StatusOf(promptOutcome[Head(internal)])]_turnStatus

\* turn/completed is final, and what is said of a turn never goes back.
EndsOnce ==
  [][\A u \in Turns :
       /\ turnStatus[u] \in Terminal => turnStatus'[u] = turnStatus[u]
       /\ InProgress(u) => turnStatus'[u] # "none"]_turnStatus

\* Every turn the client sees in progress is the active turn of its thread, so
\* a thread has at most one of them.
InProgressIsActive ==
  \A u \in Turns : InProgress(u) =>
    \E t \in Threads : turnThread[u] = {t} /\ Running(t) /\ lifecycle[t].turn = u

\* Outputs and prompt ids are held exactly for turns in progress.
TurnStateReleased ==
  /\ turnOutputs = {u \in Turns : InProgress(u)}
  /\ \A u \in Turns : activePromptIds[u] # NoPrompt => InProgress(u)

\* No answer is lost: a turn whose newest prompt was answered, and the answer
\* taken from the queue, has ended.
AnswerEndsTurn ==
  \A u \in Turns : \A p \in Prompts :
    p = NewestPrompt(u) /\ promptPhase[p] = "consumed" => ~InProgress(u)

\* The agent is never prompted for two turns of one session at a time.
OneTurnPerSession ==
  agentUp => \A p, q \in Prompts :
    Unanswered(p) /\ Unanswered(q) /\ promptSession[p] = promptSession[q]
      => promptTurn[p] = promptTurn[q]

\* An interrupt cancels prompts of the turn it names and no others, although
\* session/cancel names only the session.
InterruptIsolation ==
  \A p \in cancelSeen : \E q \in interruptAimed : promptTurn[q] = promptTurn[p]

\* A turn the client sees in progress ends, or the session does.
TurnEnds ==
  \A u \in Turns : InProgress(u) ~> (~InProgress(u) \/ loop # "running")

-----------------------------------------------------------------------------
(* The inductive invariant behind ActiveTurnIsLive and InProgressIsActive. *)

\* A suspended handler works on a thread of the gateway.  turn/start keeps its
\* turn active and a prompt id in reserve while it waits; the others wait with
\* the thread out of its turn, unless the client asked for a reset in one.
HandlerInv ==
  /\ handler.op \in {"start", "fork", "resume", "rollback"} =>
       /\ handler.thread \in Threads
       /\ ~MidTurnReset => ~Running(handler.thread)
  /\ handler.op = "turn" =>
       /\ handler.thread \in Threads
       /\ Running(handler.thread)
       /\ nextPrompt <= MaxPrompts

\* An active turn was started on the thread and the client was told.
ActiveInv ==
  \A t \in Threads : Running(t) =>
    /\ lifecycle[t].turn \in Turns
    /\ lifecycle[t].turn < nextTurn
    /\ InProgress(lifecycle[t].turn)
    /\ turnThread[lifecycle[t].turn] = {t}

\* active_prompt_ids names prompts that were issued, each for that turn.
PromptInv ==
  \A u \in Turns : activePromptIds[u] # NoPrompt =>
    /\ activePromptIds[u] < nextPrompt
    /\ promptTurn[activePromptIds[u]] = u

\* Nothing refers to turn ids that were not generated yet.
FreshInv ==
  \A u \in Turns : u >= nextTurn => /\ turnStatus[u] = "none"
                                    /\ activePromptIds[u] = NoPrompt

IInv ==
  /\ TypeOK
  /\ HandlerInv
  /\ ActiveInv
  /\ PromptInv
  /\ FreshInv
  /\ ActiveTurnIsLive
  /\ ~MidTurnReset => InProgressIsActive

-----------------------------------------------------------------------------
(* The inductive invariant behind the properties about prompts, on top of  *)
(* IInv.                                                                   *)

Live == {"spawned", "outstanding", "answered"}

\* Prompt ids that were not generated yet are unused and of no turn; the others
\* are of a turn that was started.
IssuedInv ==
  \A p \in Prompts :
    IF p < nextPrompt
    THEN promptPhase[p] # "unused" /\ promptTurn[p] \in 1..(nextTurn - 1)
    ELSE promptPhase[p] = "unused" /\ promptTurn[p] = NoTurn

\* The active prompt of a turn in progress is the newest that was issued for
\* it; a turn whose turn/start is suspended has had none.
NewestInv ==
  /\ \A p \in Prompts : promptTurn[p] # NoTurn /\ InProgress(promptTurn[p]) =>
       p <= activePromptIds[promptTurn[p]]
  /\ handler.op = "turn" =>
       activePromptIds[lifecycle[handler.thread].turn] = NoPrompt

\* The queue holds the prompts that are answered and not consumed, each once.
QueueInv ==
  /\ \A i \in 1..Len(internal) : promptPhase[internal[i]] = "answered"
  /\ \A i, j \in 1..Len(internal) : internal[i] = internal[j] => i = j
  /\ \A p \in Prompts : promptPhase[p] = "answered" =>
       \E i \in 1..Len(internal) : internal[i] = p

\* Tasks are polled in the order of their prompts.
PollInv ==
  \A p, q \in Prompts : p < q /\ promptPhase[p] = "spawned" =>
    promptPhase[q] \in {"unused", "spawned"}

\* While the agent is up the prompts of a turn are answered in their order,
\* before the turn ends, and so they stand in the queue.
OrderInv ==
  agentUp =>
    /\ \A p, q \in Prompts :
         p < q /\ Unanswered(p) /\ promptTurn[p] = promptTurn[q] => Unanswered(q)
    /\ \A p \in Prompts : Unanswered(p) => InProgress(promptTurn[p])
    /\ \A i, j \in 1..Len(internal) :
         i < j /\ promptTurn[internal[i]] = promptTurn[internal[j]] =>
           internal[i] < internal[j]

\* The prompts of a turn go to one session: the thread's, while it is active.
SessionInv ==
  /\ \A p, q \in Prompts :
       /\ promptPhase[p] \in Live /\ promptPhase[q] \in Live
       /\ promptTurn[p] = promptTurn[q]
       => promptSession[p] = promptSession[q]
  /\ \A p \in Prompts, t \in Threads :
       promptPhase[p] \in Live /\ Running(t) /\ promptTurn[p] = lifecycle[t].turn =>
         promptSession[p] = lifecycle[t].session

\* No two threads have one session, and the agent has the sessions of threads.
\* A turn is on the session its thread is mapped to, unless the client asked for
\* a reset in it.
MapInv ==
  /\ \A t, r \in Threads : threadToSession[t] # None
                            /\ threadToSession[t] = threadToSession[r] => t = r
  /\ \A t \in Threads : threadToSession[t] # None =>
       /\ threadToSession[t] \in agentSessions
       /\ threadToSession[t] \in Threads => threadToSession[t] = t
  /\ ~MidTurnReset => \A t \in Threads : Running(t) =>
       /\ threadToSession[t] # None
       /\ lifecycle[t].session = threadToSession[t]

\* What a cancel reached waits for its answer, and no prompt of its turn that is
\* as new as the one the interrupt was aimed at is consumed before.
InterruptInv ==
  /\ \A p \in cancelSeen : promptPhase[p] \in {"outstanding", "answered"}
  /\ ~agentUp => cancelSeen = {}
  /\ ~MidTurnReset => \A p \in cancelSeen : \E q \in interruptAimed :
                        promptTurn[q] = promptTurn[p] /\ p <= q

PInv ==
  /\ IssuedInv
  /\ NewestInv
  /\ TurnStateReleased
  /\ QueueInv
  /\ PollInv
  /\ OrderInv
  /\ SessionInv
  /\ MapInv
  /\ InterruptInv

-----------------------------------------------------------------------------
(* What documents of the repository say and the code does not do.          *)

\* design/feats/first-class-grok.md:19: a task has at most one active turn.
AtMostOneActiveTurn ==
  \A u, v \in Turns : InProgress(u) /\ InProgress(v)
                        /\ turnThread[u] = turnThread[v] => u = v

\* design/invariants/core.md:17: a cancellation is not converted into success.
\* An acknowledged interrupt reaches the prompt it was aimed at.
InterruptDelivered == agentUp => interruptAimed \subseteq cancelSeen

\* design/invariants/core.md:17: a terminal failure is not converted into
\* success.
RefusalIsNotSuccess ==
  [][\A p \in Prompts : promptOutcome[p] = "refusal"
                          /\ turnStatus'[promptTurn[p]] # turnStatus[promptTurn[p]]
       => turnStatus'[promptTurn[p]] # "completed"]_turnStatus

\* docs/ARCHITECTURE.md:421: a crash of the agent is reported to the client
\* before the gateway terminates.
CrashEndsTurns ==
  loop = "agentGone" => \A u \in Turns : ~InProgress(u)
=============================================================================
