-------------------------- MODULE GrokTurns_proof ---------------------------
(***************************************************************************)
(* Proofs about GrokTurns, for every set of threads and sessions and every *)
(* bound on turns and prompts.                                             *)
(***************************************************************************)
EXTENDS GrokTurnsContract, TLAPS

\* The initial state is well typed.
LEMMA InitTypeOK == Init => TypeOK
<1> SUFFICES ASSUME Init PROVE TypeOK
  OBVIOUS
<1>1. lifecycle \in [Threads -> Lifecycles]
  BY DEF Init, Lifecycles, Plain, States, NoTurn
<1>2. threadToSession \in [Threads -> SessionIds \cup {None}]
  BY DEF Init, SessionIds
<1>3. activePromptIds \in [Turns -> Prompts \cup {NoPrompt}]
  BY DEF Init, NoPrompt
<1>4. agentSessions \in SUBSET SessionIds
  BY DEF Init, SessionIds
<1>5. handler \in Handlers
  BY DEF Init, NoHandler, Handlers
<1>6. promptTurn \in [Prompts -> Turns \cup {NoTurn}]
  BY DEF Init, NoTurn
<1>7. rollout \in [Threads -> {"none", "sessions", "archived"}]
  BY DEF Init
<1>8. internal \in Seq(Prompts)
  BY DEF Init
<1>9. nextTurn \in 1..(MaxTurns + 1) /\ nextPrompt \in 1..(MaxPrompts + 1)
  BY ConstantsOK DEF Init
<1>10. promptPhase \in [Prompts -> {"unused", "spawned", "outstanding",
                                    "answered", "consumed"}]
  BY DEF Init
<1>11. promptSession \in [Prompts -> SessionIds \cup {None}]
  BY DEF Init
<1>12. promptOutcome \in [Prompts -> Outcomes \cup {"none"}]
  BY DEF Init
<1>13. /\ turnStatus \in [Turns -> Terminal \cup {"none", "inProgress"}]
       /\ turnThread \in [Turns -> SUBSET Threads]
  BY DEF Init
<1>14. /\ initialized \in BOOLEAN /\ agentUp \in BOOLEAN
       /\ turnOutputs \in SUBSET Turns
       /\ loop \in {"running", "agentGone", "clientGone"}
       /\ cancelSeen \in SUBSET Prompts /\ interruptAimed \in SUBSET Prompts
  BY DEF Init
<1>15. QED
  BY <1>1, <1>2, <1>3, <1>4, <1>5, <1>6, <1>7, <1>8, <1>9, <1>10, <1>11,
     <1>12, <1>13, <1>14 DEF TypeOK

-----------------------------------------------------------------------------
(* Type correctness.  A suspended turn/start must be on a thread and must   *)
(* have a prompt id in reserve: that is what TypeOK needs from HandlerInv.  *)

\* Issuing a prompt with a free id keeps the prompt tables well typed.
LEMMA IssuePromptType ==
  ASSUME TypeOK, NEW u \in Turns \cup {NoTurn}, NEW s \in SessionIds \cup {None},
         nextPrompt <= MaxPrompts, IssuePrompt(u, s)
  PROVE  /\ activePromptIds' \in [Turns -> Prompts \cup {NoPrompt}]
         /\ nextPrompt' \in 1..(MaxPrompts + 1)
         /\ promptPhase' \in [Prompts -> {"unused", "spawned", "outstanding",
                                         "answered", "consumed"}]
         /\ promptTurn' \in [Prompts -> Turns \cup {NoTurn}]
         /\ promptSession' \in [Prompts -> SessionIds \cup {None}]
         /\ promptOutcome' \in [Prompts -> Outcomes \cup {"none"}]
<1>1. nextPrompt \in Prompts
  BY ConstantsOK DEF TypeOK, Prompts
<1>2. activePromptIds' \in [Turns -> Prompts \cup {NoPrompt}]
  BY <1>1 DEF TypeOK, IssuePrompt
<1>3. nextPrompt' \in 1..(MaxPrompts + 1)
  BY ConstantsOK DEF TypeOK, IssuePrompt
<1>4. promptPhase' \in [Prompts -> {"unused", "spawned", "outstanding",
                                   "answered", "consumed"}]
  BY <1>1 DEF TypeOK, IssuePrompt
<1>5. /\ promptTurn' \in [Prompts -> Turns \cup {NoTurn}]
      /\ promptSession' \in [Prompts -> SessionIds \cup {None}]
  BY <1>1 DEF TypeOK, IssuePrompt
<1>6. promptOutcome' \in [Prompts -> Outcomes \cup {"none"}]
  BY DEF TypeOK, IssuePrompt
<1>7. QED
  BY <1>2, <1>3, <1>4, <1>5, <1>6

\* Mapping a thread to a session and making it idle keeps the tables well typed.
LEMMA IdleType ==
  ASSUME NEW s \in SessionIds PROVE Idle(s) \in Lifecycles
  BY DEF Idle, Lifecycles, States

\* Every step preserves the type invariant.
LEMMA TypeOKStep ==
  ASSUME TypeOK, HandlerInv, [Next]_vars PROVE TypeOK'
<1> USE ConstantsOK DEF TypeOK
<1> USE DEF turnVars, restVars, promptVars, agentVars, clientVars, gatewayVars
<1>h. NoHandler \in Handlers
  BY DEF NoHandler, Handlers
<1>1. CASE Initialize
  BY <1>1 DEF Initialize, Awaiting, Handlers, Ops
<1>2. CASE Query
  BY <1>2 DEF Query, Awaiting, Handlers, Ops
<1>3. CASE AwaitReturns
  BY <1>3, <1>h DEF AwaitReturns, Resumed
<1>4. CASE Initialized
  BY <1>4, <1>h DEF Initialized, Resumed
<1>5. ASSUME NEW t \in Threads, ThreadStart(t) PROVE TypeOK'
  <2>1. Plain("Creating") \in Lifecycles
    BY DEF Plain, Lifecycles, States
  <2>2. handler' \in Handlers
    BY <1>5 DEF ThreadStart, Awaiting, Handlers, Ops
  <2>3. QED
    BY <1>5, <2>1, <2>2 DEF ThreadStart, SetLifecycle
<1>6. ASSUME NEW t \in Threads, NEW source \in Threads, ThreadFork(source, t)
      PROVE  TypeOK'
  <2>1. Plain("Creating") \in Lifecycles
    BY DEF Plain, Lifecycles, States
  <2>2. handler' \in Handlers
    BY <1>6 DEF ThreadFork, Awaiting, Handlers, Ops
  <2>3. QED
    BY <1>6, <2>1, <2>2 DEF ThreadFork, SetLifecycle, SetRollout
<1>7. ASSUME NEW t \in Threads, ThreadResume(t) PROVE TypeOK'
  <2>1. Plain("Loading") \in Lifecycles
    BY DEF Plain, Lifecycles, States
  <2>2. handler' \in Handlers
    BY <1>7 DEF ThreadResume, Awaiting, Handlers, Ops
  <2>3. QED
    BY <1>7, <2>1, <2>2 DEF ThreadResume, SetLifecycle
<1>8. ASSUME NEW t \in Threads, ThreadRollback(t) PROVE TypeOK'
  <2>2. handler' \in Handlers
    BY <1>8 DEF ThreadRollback, Awaiting, Handlers, Ops
  <2>3. QED
    BY <1>8, <2>2 DEF ThreadRollback
<1>9. ASSUME NEW t \in Threads, ThreadArchive(t) PROVE TypeOK'
  <2>1. Plain("Closed") \in Lifecycles
    BY DEF Plain, Lifecycles, States
  <2>3. QED
    BY <1>9, <2>1 DEF ThreadArchive, SetLifecycle, SetRollout
<1>10. ASSUME NEW t \in Threads, ThreadUnarchive(t) PROVE TypeOK'
  BY <1>10 DEF ThreadUnarchive, SetRollout
<1>11. ASSUME NEW t \in Threads, agentUp, NEW s \in SessionIds,
              threadToSession' = [threadToSession EXCEPT ![t] = s],
              lifecycle' = [lifecycle EXCEPT ![t] = Idle(s)],
              agentSessions' = agentSessions \cup {s},
              rollout' \in [Threads -> {"none", "sessions", "archived"}],
              handler' = NoHandler, UNCHANGED restVars
       PROVE  TypeOK'
  BY <1>h, <1>11, IdleType
<1>12. CASE ThreadStarted
  <2>1. handler.thread \in Threads
    BY <1>12 DEF ThreadStarted, Resumed, HandlerInv
  <2>2. PICK s \in Sessions : /\ agentSessions' = agentSessions \cup {s}
                              /\ MapThread(handler.thread, s)
                              /\ SetLifecycle(handler.thread, Idle(s))
    BY <1>12 DEF ThreadStarted, OnNewSession
  <2>3. rollout' \in [Threads -> {"none", "sessions", "archived"}]
    BY <1>12 DEF ThreadStarted, SetRollout
  <2>4. s \in SessionIds
    BY DEF SessionIds
  <2>5. agentUp /\ handler' = NoHandler /\ UNCHANGED restVars
    BY <1>12 DEF ThreadStarted, Resumed, OnNewSession
  <2>6. QED
    BY ONLY <1>11, <2>1, <2>2, <2>3, <2>4, <2>5 DEF MapThread, SetLifecycle
<1>13. CASE ThreadForked \/ ThreadRolledBack
  <2>1. handler.thread \in Threads
    BY <1>13 DEF ThreadForked, ThreadRolledBack, Resumed, HandlerInv
  <2>2. PICK s \in Sessions : /\ agentSessions' = agentSessions \cup {s}
                              /\ MapThread(handler.thread, s)
                              /\ SetLifecycle(handler.thread, Idle(s))
    BY <1>13 DEF ThreadForked, ThreadRolledBack, OnNewSession
  <2>3. rollout' \in [Threads -> {"none", "sessions", "archived"}]
    BY <1>13 DEF ThreadForked, ThreadRolledBack
  <2>4. s \in SessionIds
    BY DEF SessionIds
  <2>5. agentUp /\ handler' = NoHandler /\ UNCHANGED restVars
    BY <1>13 DEF ThreadForked, ThreadRolledBack, Resumed, OnNewSession
  <2>6. QED
    BY ONLY <1>11, <2>1, <2>2, <2>3, <2>4, <2>5 DEF MapThread, SetLifecycle
<1>14. CASE ThreadResumed
  <2>1. handler.thread \in Threads
    BY <1>14 DEF ThreadResumed, Resumed, HandlerInv
  <2>2. PICK s \in agentSessions : /\ MapThread(handler.thread, s)
                                   /\ SetLifecycle(handler.thread, Idle(s))
    BY <1>14 DEF ThreadResumed
  <2>3. rollout' \in [Threads -> {"none", "sessions", "archived"}]
    BY <1>14 DEF ThreadResumed
  <2>4. s \in SessionIds /\ agentSessions' = agentSessions \cup {s}
    BY <1>14, <2>2 DEF ThreadResumed
  <2>5. agentUp /\ handler' = NoHandler /\ UNCHANGED restVars
    BY <1>14 DEF ThreadResumed, Resumed
  <2>6. QED
    BY ONLY <1>11, <2>1, <2>2, <2>3, <2>4, <2>5 DEF MapThread, SetLifecycle
<1>15. ASSUME NEW t \in Threads, TurnStart(t) PROVE TypeOK'
  <2>1. nextTurn \in Turns /\ nextPrompt <= MaxPrompts
    BY <1>15 DEF TurnStart, Turns
  <2>2. threadToSession[t] \in SessionIds
    BY <1>15 DEF TurnStart, MayStartTurn
  <2>3. InTurn(threadToSession[t], nextTurn) \in Lifecycles
    BY <2>1, <2>2 DEF InTurn, Lifecycles, States
  <2>4. /\ lifecycle' \in [Threads -> Lifecycles]
        /\ turnOutputs' \in SUBSET Turns
        /\ nextTurn' \in 1..(MaxTurns + 1)
        /\ turnStatus' \in [Turns -> Terminal \cup {"none", "inProgress"}]
        /\ turnThread' \in [Turns -> SUBSET Threads]
    BY <1>15, <2>1, <2>3 DEF TurnStart, SetLifecycle, Turns
  <2>5. /\ handler' \in Handlers
        /\ activePromptIds' \in [Turns -> Prompts \cup {NoPrompt}]
        /\ nextPrompt' \in 1..(MaxPrompts + 1)
        /\ promptPhase' \in [Prompts -> {"unused", "spawned", "outstanding",
                                        "answered", "consumed"}]
        /\ promptTurn' \in [Prompts -> Turns \cup {NoTurn}]
        /\ promptSession' \in [Prompts -> SessionIds \cup {None}]
        /\ promptOutcome' \in [Prompts -> Outcomes \cup {"none"}]
    <3>1. CASE Awaiting("turn", t) /\ UNCHANGED <<activePromptIds, nextPrompt, promptVars>>
      BY <3>1 DEF Awaiting, Handlers, Ops
    <3>2. CASE IssuePrompt(nextTurn, threadToSession[t]) /\ UNCHANGED handler
      BY <3>2, <2>1, <2>2, IssuePromptType
    <3>3. QED
      BY <1>15, <3>1, <3>2 DEF TurnStart
  <2>6. QED
    BY <1>15, <2>4, <2>5 DEF TurnStart
<1>16. CASE TurnModeSet
  <2>1. nextPrompt <= MaxPrompts /\ handler.thread \in Threads
    BY <1>16 DEF TurnModeSet, Resumed, HandlerInv
  <2>2. lifecycle[handler.thread] \in Lifecycles
    BY <2>1
  <2>3. /\ lifecycle[handler.thread].turn \in Turns \cup {NoTurn}
        /\ lifecycle[handler.thread].session \in SessionIds \cup {None}
    BY <2>2 DEF Lifecycles
  <2>4. IssuePrompt(lifecycle[handler.thread].turn, lifecycle[handler.thread].session)
    BY <1>16 DEF TurnModeSet
  <2>5. QED
    BY <1>16, <1>h, <2>1, <2>3, <2>4, IssuePromptType DEF TurnModeSet, Resumed
<1>17. ASSUME NEW t \in Threads, NEW u \in Turns, TurnSteer(t, u) PROVE TypeOK'
  <2>1. nextPrompt <= MaxPrompts /\ IssuePrompt(u, threadToSession[t])
    BY <1>17 DEF TurnSteer
  <2>2. QED
    BY <1>17, <2>1, IssuePromptType DEF TurnSteer
<1>18. ASSUME NEW t \in Threads, NEW u \in Turns, TurnInterrupt(t, u) PROVE TypeOK'
  BY <1>18 DEF TurnInterrupt, CancelReaches, AtAgent
<1>19. ASSUME NEW p \in Prompts, PromptSend(p) PROVE TypeOK'
  BY <1>19 DEF PromptSend
<1>20. ASSUME NEW p \in Prompts, NEW o \in Outcomes, Complete(p, o), UNCHANGED loop
       PROVE  TypeOK'
  BY <1>20 DEF Complete
<1>21. ASSUME NEW p \in Prompts, AgentAnswer(p) \/ PromptFails(p) PROVE TypeOK'
  BY <1>20, <1>21 DEF AgentAnswer, PromptFails, Outcomes, Complete
<1>22. CASE HandleInternal
  <2> DEFINE p == Head(internal)
  <2>1. p \in Prompts /\ internal' \in Seq(Prompts)
    BY <1>22 DEF HandleInternal
  <2>2. promptOutcome[p] \in Outcomes \cup {"none"}
    BY <2>1
  <2>3. StatusOf(promptOutcome[p]) \in Terminal
    BY DEF StatusOf, Terminal
  <2>4. /\ lifecycle' \in [Threads -> Lifecycles]
        /\ turnOutputs' \in SUBSET Turns
        /\ turnStatus' \in [Turns -> Terminal \cup {"none", "inProgress"}]
        /\ activePromptIds' \in [Turns -> Prompts \cup {NoPrompt}]
    <3>1. CASE UNCHANGED <<turnOutputs, activePromptIds, turnStatus, lifecycle>>
      BY <3>1
    <3>2. ASSUME NEW t \in Threads, EndsTurn(p, t), EndTurn(p, t)
          PROVE  /\ lifecycle' \in [Threads -> Lifecycles]
                 /\ turnOutputs' \in SUBSET Turns
                 /\ turnStatus' \in [Turns -> Terminal \cup {"none", "inProgress"}]
                 /\ activePromptIds' \in [Turns -> Prompts \cup {NoPrompt}]
      <4>1. lifecycle[t].session \in SessionIds \cup {None}
        BY DEF Lifecycles
      <4>2. Idle(lifecycle[t].session) \in Lifecycles
        BY <4>1 DEF Idle, Lifecycles, States
      <4>3. QED
        BY <2>3, <3>2, <4>2 DEF EndTurn, SetLifecycle
    <3>3. QED
      BY <1>22, <3>1, <3>2 DEF HandleInternal
  <2>5. /\ promptPhase' \in [Prompts -> {"unused", "spawned", "outstanding",
                                        "answered", "consumed"}]
        /\ promptSession' \in [Prompts -> SessionIds \cup {None}]
        /\ promptOutcome' \in [Prompts -> Outcomes \cup {"none"}]
        /\ cancelSeen' \in SUBSET Prompts /\ interruptAimed' \in SUBSET Prompts
    BY <1>22, <2>1 DEF HandleInternal
  <2>6. QED
    BY <1>22, <2>1, <2>4, <2>5 DEF HandleInternal
<1>23. CASE AgentExit
  BY <1>23 DEF AgentExit
<1>24. CASE AgentGone \/ ClientGone
  BY <1>24 DEF AgentGone, ClientGone, LoopEnds
<1>25. CASE UNCHANGED vars
  BY <1>25 DEF vars
<1>26. QED
  BY <1>1, <1>2, <1>3, <1>4, <1>5, <1>6, <1>7, <1>8, <1>9, <1>10, <1>12, <1>13,
     <1>14, <1>15, <1>16, <1>17, <1>18, <1>19, <1>21, <1>22, <1>23, <1>24, <1>25
     DEF Next, ClientRequest, AgentReply, PromptStep

-----------------------------------------------------------------------------
(* The inductive invariant.  A step does one of four things to turns: none   *)
(* of it (QuietStep), it starts one, it prompts for the active one again, or *)
(* it takes a completion.                                                    *)

\* A step that keeps what is known of turns and prompts, that lets a thread
\* leave its turn only if the client may reset it there, and that suspends a
\* handler other than turn/start at most, keeps the invariant.
LEMMA QuietStep ==
  ASSUME IInv, TypeOK',
         UNCHANGED <<activePromptIds, nextTurn, nextPrompt, promptTurn,
                     promptSession, turnStatus, turnThread>>,
         \A p \in Prompts : promptPhase[p] \in Live => promptPhase'[p] \in Live,
         \A r \in Threads : Running(r)' => lifecycle'[r] = lifecycle[r],
         \A r \in Threads : Running(r) /\ ~MidTurnReset => Running(r)',
         handler.op = "turn" => UNCHANGED <<handler, lifecycle>>,
         \/ handler' \in {handler, NoHandler}
         \/ /\ handler'.op # "turn"
            /\ handler'.op \in {"start", "fork", "resume", "rollback"} =>
                 /\ handler'.thread \in Threads
                 /\ ~MidTurnReset => lifecycle'[handler'.thread].state # "InTurn"
  PROVE  IInv'
<1>0. \A r \in Threads : Running(r)' => Running(r)
  BY DEF Running
<1>1. HandlerInv'
  <2>1. CASE handler' = handler
    BY <1>0, <2>1 DEF IInv, HandlerInv, Running
  <2>2. CASE handler' = NoHandler
    BY <2>2 DEF HandlerInv, NoHandler
  <2>3. CASE /\ handler'.op # "turn"
             /\ handler'.op \in {"start", "fork", "resume", "rollback"} =>
                  /\ handler'.thread \in Threads
                  /\ ~MidTurnReset => lifecycle'[handler'.thread].state # "InTurn"
    BY <2>3 DEF HandlerInv, Running
  <2>4. QED
    BY <2>1, <2>2, <2>3
<1>2. ActiveInv'
  BY <1>0 DEF IInv, ActiveInv, InProgress, Running
<1>3. PromptInv'
  BY DEF IInv, PromptInv
<1>4. FreshInv'
  BY DEF IInv, FreshInv
<1>5. ActiveTurnIsLive'
  <2> SUFFICES ASSUME NEW r \in Threads, Running(r)'
               PROVE  \/ handler'.op = "turn" /\ handler'.thread = r
                      \/ \E p \in Prompts :
                           /\ activePromptIds'[lifecycle'[r].turn] = p
                           /\ promptTurn'[p] = lifecycle'[r].turn
                           /\ promptSession'[p] = lifecycle'[r].session
                           /\ promptPhase'[p] \in Live
    BY DEF ActiveTurnIsLive, Live
  <2>1. Running(r) /\ lifecycle'[r] = lifecycle[r]
    BY <1>0
  <2>2. CASE handler.op = "turn" /\ handler.thread = r
    BY <2>2
  <2>3. CASE \E p \in Prompts : /\ activePromptIds[lifecycle[r].turn] = p
                                /\ promptTurn[p] = lifecycle[r].turn
                                /\ promptSession[p] = lifecycle[r].session
                                /\ promptPhase[p] \in Live
    BY <2>1, <2>3
  <2>4. QED
    BY <2>1, <2>2, <2>3 DEF IInv, ActiveTurnIsLive, Live
<1>6. (~MidTurnReset => InProgressIsActive)'
  BY DEF IInv, InProgressIsActive, InProgress, Running
<1>7. QED
  BY <1>1, <1>2, <1>3, <1>4, <1>5, <1>6 DEF IInv

\* A further prompt for the active turn keeps the invariant.
LEMMA PromptAgainStep ==
  ASSUME IInv, TypeOK', NEW t \in Threads, Running(t),
         IssuePrompt(lifecycle[t].turn, lifecycle[t].session),
         nextPrompt <= MaxPrompts,
         UNCHANGED <<lifecycle, nextTurn, turnStatus, turnThread>>,
         handler' = NoHandler,
         handler.op = "turn" => handler.thread = t
  PROVE  IInv'
<1> DEFINE u == lifecycle[t].turn
<1>0. /\ nextPrompt \in Prompts
      /\ \A v \in Turns : activePromptIds[v] # NoPrompt =>
           activePromptIds[v] \in Prompts /\ activePromptIds[v] # nextPrompt
  BY ConstantsOK DEF IInv, TypeOK, PromptInv, Prompts
<1>1. u \in Turns /\ turnThread[u] = {t} /\ InProgress(u) /\ u < nextTurn
  BY DEF IInv, ActiveInv
<1>2. HandlerInv'
  BY DEF HandlerInv, NoHandler
<1>3. ActiveInv'
  BY DEF IInv, ActiveInv, InProgress, Running
<1>4. PromptInv'
  <2> SUFFICES ASSUME NEW v \in Turns, activePromptIds'[v] # NoPrompt
               PROVE  /\ activePromptIds'[v] < nextPrompt'
                      /\ promptTurn'[activePromptIds'[v]] = v
    BY DEF PromptInv
  <2>1. CASE v = u
    BY <2>1, <1>0 DEF IssuePrompt, IInv, TypeOK, Prompts
  <2>2. CASE v # u
    BY <2>2, <1>0 DEF IssuePrompt, IInv, TypeOK, PromptInv, Prompts
  <2>3. QED
    BY <2>1, <2>2
<1>5. FreshInv'
  <2> SUFFICES ASSUME NEW v \in Turns, v >= nextTurn
               PROVE  turnStatus[v] = "none" /\ activePromptIds'[v] = NoPrompt
    BY DEF FreshInv
  <2>1. v # u
    BY <1>1 DEF IInv, TypeOK, Turns
  <2>2. QED
    BY <2>1 DEF IssuePrompt, IInv, TypeOK, FreshInv
<1>6. ActiveTurnIsLive'
  <2> SUFFICES ASSUME NEW r \in Threads, Running(r)
               PROVE  \E p \in Prompts :
                        /\ activePromptIds'[lifecycle[r].turn] = p
                        /\ promptTurn'[p] = lifecycle[r].turn
                        /\ promptSession'[p] = lifecycle[r].session
                        /\ promptPhase'[p] \in Live
    BY DEF ActiveTurnIsLive, Live, Running
  <2>1. CASE r = t
    BY <2>1, <1>0, <1>1 DEF IssuePrompt, IInv, TypeOK, Live
  <2>2. CASE r # t
    <3>1. lifecycle[r].turn \in Turns /\ turnThread[lifecycle[r].turn] = {r}
      BY DEF IInv, ActiveInv
    <3>2. lifecycle[r].turn # u
      BY <2>2, <3>1, <1>1
    <3>3. PICK p \in Prompts : /\ activePromptIds[lifecycle[r].turn] = p
                               /\ promptTurn[p] = lifecycle[r].turn
                               /\ promptSession[p] = lifecycle[r].session
                               /\ promptPhase[p] \in Live
      BY <2>2 DEF IInv, ActiveTurnIsLive, Live
    <3>4. p # nextPrompt
      BY <3>1, <3>3, <1>0 DEF Prompts, NoPrompt
    <3>5. QED
      BY <3>1, <3>2, <3>3, <3>4 DEF IssuePrompt, IInv, TypeOK
  <2>3. QED
    BY <2>1, <2>2
<1>7. (~MidTurnReset => InProgressIsActive)'
  BY DEF IInv, InProgressIsActive, InProgress, Running
<1>8. QED
  BY <1>2, <1>3, <1>4, <1>5, <1>6, <1>7 DEF IInv

\* Starting a turn keeps the invariant: the turn's id is fresh, and either its
\* first prompt is issued with it or turn/start is suspended on its thread.
LEMMA TurnStartStep ==
  ASSUME IInv, TypeOK', NEW t \in Threads, TurnStart(t)
  PROVE  IInv'
<1> DEFINE u == nextTurn
           s == threadToSession[t]
<1>0. /\ u \in Turns /\ nextPrompt \in Prompts /\ ~Running(t)
      /\ \A v \in Turns : activePromptIds[v] # NoPrompt =>
           activePromptIds[v] \in Prompts /\ activePromptIds[v] # nextPrompt
  BY ConstantsOK DEF TurnStart, MayStartTurn, Idle, Running, IInv, TypeOK,
                     PromptInv, Prompts, Turns
<1>1. /\ lifecycle'[t] = InTurn(s, u)
      /\ \A r \in Threads \ {t} : lifecycle'[r] = lifecycle[r]
  BY DEF TurnStart, SetLifecycle, IInv, TypeOK
<1>2. /\ turnStatus'[u] = "inProgress" /\ turnThread'[u] = {t}
      /\ \A v \in Turns \ {u} : /\ turnStatus'[v] = turnStatus[v]
                                /\ turnThread'[v] = turnThread[v]
  BY <1>0 DEF TurnStart, IInv, TypeOK
<1>3. \/ /\ handler' = [op |-> "turn", thread |-> t]
         /\ UNCHANGED <<activePromptIds, nextPrompt, promptVars>>
      \/ /\ handler' = NoHandler
         /\ IssuePrompt(u, s)
  BY DEF TurnStart, Awaiting, Ready
<1>4. \A r \in Threads : Running(r) =>
        /\ lifecycle[r].turn \in Turns \ {u} /\ lifecycle[r].turn < nextTurn
        /\ InProgress(lifecycle[r].turn) /\ turnThread[lifecycle[r].turn] = {r}
  BY DEF IInv, ActiveInv, TypeOK, Turns
<1>5. HandlerInv'
  <2>1. Running(t)' /\ nextPrompt <= MaxPrompts
    BY <1>1 DEF Running, InTurn, TurnStart
  <2>2. CASE handler' = NoHandler
    BY <2>2 DEF HandlerInv, NoHandler
  <2>3. CASE handler' = [op |-> "turn", thread |-> t] /\ UNCHANGED nextPrompt
    BY <2>1, <2>3 DEF HandlerInv
  <2>4. QED
    BY <1>3, <2>2, <2>3
<1>6. ActiveInv'
  <2> SUFFICES ASSUME NEW r \in Threads, Running(r)'
               PROVE  /\ lifecycle'[r].turn \in Turns
                      /\ lifecycle'[r].turn < nextTurn'
                      /\ turnStatus'[lifecycle'[r].turn] = "inProgress"
                      /\ turnThread'[lifecycle'[r].turn] = {r}
    BY DEF ActiveInv, InProgress
  <2>0. nextTurn' = nextTurn + 1 /\ nextTurn \in Int
    BY DEF TurnStart, IInv, TypeOK
  <2>1. CASE r = t
    BY <2>0, <2>1, <1>0, <1>1, <1>2 DEF InTurn
  <2>2. CASE r # t
    <3>1. Running(r) /\ lifecycle'[r] = lifecycle[r]
      BY <2>2, <1>1 DEF Running
    <3>2. QED
      BY <3>1, <2>0, <1>2, <1>4 DEF InProgress, Turns
  <2>3. QED
    BY <2>1, <2>2
<1>7. PromptInv'
  <2>1. CASE UNCHANGED <<activePromptIds, nextPrompt, promptVars>>
    BY <2>1 DEF IInv, PromptInv, promptVars
  <2>2. CASE IssuePrompt(u, s)
    <3> SUFFICES ASSUME NEW v \in Turns, activePromptIds'[v] # NoPrompt
                 PROVE  /\ activePromptIds'[v] < nextPrompt'
                        /\ promptTurn'[activePromptIds'[v]] = v
      BY DEF PromptInv
    <3>1. CASE v = u
      BY <2>2, <3>1, <1>0 DEF IssuePrompt, IInv, TypeOK, Prompts
    <3>2. CASE v # u
      BY <2>2, <3>2, <1>0 DEF IssuePrompt, IInv, TypeOK, PromptInv, Prompts
    <3>3. QED
      BY <3>1, <3>2
  <2>3. QED
    BY <1>3, <2>1, <2>2
<1>8. FreshInv'
  <2> SUFFICES ASSUME NEW v \in Turns, v >= nextTurn'
               PROVE  turnStatus'[v] = "none" /\ activePromptIds'[v] = NoPrompt
    BY DEF FreshInv
  <2>1. v # u /\ v >= nextTurn
    BY <1>0 DEF TurnStart, Turns
  <2>2. turnStatus'[v] = "none" /\ activePromptIds[v] = NoPrompt
    BY <2>1, <1>2 DEF IInv, FreshInv
  <2>3. activePromptIds'[v] = activePromptIds[v]
    BY <2>1, <1>3 DEF IssuePrompt, IInv, TypeOK
  <2>4. QED
    BY <2>2, <2>3
<1>9. ActiveTurnIsLive'
  <2> SUFFICES ASSUME NEW r \in Threads, Running(r)'
               PROVE  \/ handler'.op = "turn" /\ handler'.thread = r
                      \/ \E p \in Prompts :
                           /\ activePromptIds'[lifecycle'[r].turn] = p
                           /\ promptTurn'[p] = lifecycle'[r].turn
                           /\ promptSession'[p] = lifecycle'[r].session
                           /\ promptPhase'[p] \in Live
    BY DEF ActiveTurnIsLive, Live
  <2>1. CASE r = t
    <3>1. CASE handler' = [op |-> "turn", thread |-> t]
      BY <2>1, <3>1
    <3>2. CASE IssuePrompt(u, s)
      <4>1. lifecycle'[r].turn = u /\ lifecycle'[r].session = s
        BY <2>1, <1>1 DEF InTurn
      <4>2. QED
        BY <4>1, <3>2, <1>0 DEF IssuePrompt, IInv, TypeOK, Live
    <3>3. QED
      BY <1>3, <3>1, <3>2
  <2>2. CASE r # t
    <3>1. Running(r) /\ lifecycle'[r] = lifecycle[r] /\ handler = NoHandler
      BY <2>2, <1>1 DEF Running, TurnStart, Ready
    <3>2. PICK p \in Prompts : /\ activePromptIds[lifecycle[r].turn] = p
                               /\ promptTurn[p] = lifecycle[r].turn
                               /\ promptSession[p] = lifecycle[r].session
                               /\ promptPhase[p] \in Live
      BY <3>1 DEF IInv, ActiveTurnIsLive, Live, NoHandler
    <3>3. lifecycle[r].turn \in Turns \ {u}
      BY <3>1, <1>4
    <3>4. p # nextPrompt
      BY <3>2, <3>3, <1>0 DEF Prompts, NoPrompt
    <3>5. CASE UNCHANGED <<activePromptIds, nextPrompt, promptVars>>
      BY <3>1, <3>2, <3>5 DEF promptVars
    <3>6. CASE IssuePrompt(u, s)
      BY <3>1, <3>2, <3>3, <3>4, <3>6 DEF IssuePrompt, IInv, TypeOK
    <3>7. QED
      BY <1>3, <3>5, <3>6
  <2>3. QED
    BY <2>1, <2>2
<1>10. (~MidTurnReset => InProgressIsActive)'
  <2> SUFFICES ASSUME ~MidTurnReset, NEW v \in Turns, turnStatus'[v] = "inProgress"
               PROVE  \E r \in Threads : /\ turnThread'[v] = {r}
                                         /\ Running(r)'
                                         /\ lifecycle'[r].turn = v
    BY DEF InProgressIsActive, InProgress
  <2>1. CASE v = u
    BY <2>1, <1>1, <1>2 DEF Running, InTurn
  <2>2. CASE v # u
    <3>1. PICK r \in Threads : /\ turnThread[v] = {r}
                               /\ Running(r)
                               /\ lifecycle[r].turn = v
      BY <2>2, <1>2 DEF IInv, InProgressIsActive, InProgress
    <3>2. r # t
      BY <3>1, <1>0
    <3>3. QED
      BY <2>2, <3>1, <3>2, <1>1, <1>2 DEF Running
  <2>3. QED
    BY <2>1, <2>2
<1>11. QED
  BY <1>5, <1>6, <1>7, <1>8, <1>9, <1>10 DEF IInv

\* Taking a completion keeps the invariant: dropping one that ends no turn
\* cannot leave an active turn without its prompt, and ending a turn leaves the
\* other threads' turns alone.
LEMMA HandleInternalStep ==
  ASSUME IInv, TypeOK', HandleInternal
  PROVE  IInv'
<1> DEFINE p == Head(internal)
           u == promptTurn[p]
<1>0. /\ p \in Prompts
      /\ handler = NoHandler /\ handler' = NoHandler
      /\ UNCHANGED <<nextTurn, nextPrompt, promptTurn, turnThread>>
      /\ \A q \in Prompts \ {p} : /\ promptPhase'[q] = promptPhase[q]
                                  /\ promptSession'[q] = promptSession[q]
  BY DEF HandleInternal, Ready, IInv, TypeOK
<1>1. \A r \in Threads : Running(r) =>
        /\ lifecycle[r].turn \in Turns /\ lifecycle[r].turn < nextTurn
        /\ InProgress(lifecycle[r].turn) /\ turnThread[lifecycle[r].turn] = {r}
        /\ \E q \in Prompts : /\ activePromptIds[lifecycle[r].turn] = q
                              /\ promptTurn[q] = lifecycle[r].turn
                              /\ promptSession[q] = lifecycle[r].session
                              /\ promptPhase[q] \in Live
  BY <1>0 DEF IInv, ActiveInv, ActiveTurnIsLive, Live, NoHandler
<1>2. HandlerInv'
  BY <1>0 DEF HandlerInv, NoHandler
<1>3. CASE /\ \A t \in Threads : ~EndsTurn(p, t)
           /\ UNCHANGED <<turnOutputs, activePromptIds, turnStatus, lifecycle>>
  <2>1. ActiveInv'
    BY <1>0, <1>3 DEF IInv, ActiveInv, InProgress, Running
  <2>2. PromptInv' /\ FreshInv'
    BY <1>0, <1>3 DEF IInv, PromptInv, FreshInv
  <2>3. ActiveTurnIsLive'
    <3> SUFFICES ASSUME NEW r \in Threads, Running(r)
                 PROVE  \E q \in Prompts :
                          /\ activePromptIds[lifecycle[r].turn] = q
                          /\ promptTurn[q] = lifecycle[r].turn
                          /\ promptSession'[q] = lifecycle[r].session
                          /\ promptPhase'[q] \in Live
      BY <1>0, <1>3 DEF ActiveTurnIsLive, Live, Running
    <3>1. PICK q \in Prompts : /\ activePromptIds[lifecycle[r].turn] = q
                               /\ promptTurn[q] = lifecycle[r].turn
                               /\ promptSession[q] = lifecycle[r].session
                               /\ promptPhase[q] \in Live
      BY <1>1
    <3>2. q # p
      BY <3>1, <1>1, <1>3 DEF EndsTurn
    <3>3. QED
      BY <3>1, <3>2, <1>0
  <2>4. (~MidTurnReset => InProgressIsActive)'
    BY <1>0, <1>3 DEF IInv, InProgressIsActive, InProgress, Running
  <2>5. QED
    BY <1>2, <2>1, <2>2, <2>3, <2>4 DEF IInv
<1>4. ASSUME NEW t \in Threads, EndsTurn(p, t), EndTurn(p, t)
      PROVE  IInv'
  <2>1. /\ Running(t) /\ lifecycle[t].turn = u /\ u \in Turns /\ u < nextTurn
        /\ turnThread[u] = {t}
    BY <1>4, <1>1 DEF EndsTurn
  <2>2. /\ ~Running(t)'
        /\ \A r \in Threads \ {t} : lifecycle'[r] = lifecycle[r]
    BY <1>4 DEF EndTurn, SetLifecycle, Idle, Running, IInv, TypeOK
  <2>3. /\ activePromptIds'[u] = NoPrompt /\ turnStatus'[u] \in Terminal
        /\ \A v \in Turns \ {u} : /\ activePromptIds'[v] = activePromptIds[v]
                                  /\ turnStatus'[v] = turnStatus[v]
    BY <1>4, <2>1 DEF EndTurn, StatusOf, Terminal, IInv, TypeOK
  <2>4. \A r \in Threads : Running(r)' =>
          /\ r # t /\ Running(r) /\ lifecycle'[r] = lifecycle[r]
          /\ lifecycle[r].turn \in Turns \ {u}
    BY <2>1, <2>2, <1>1 DEF Running
  <2>5. ActiveInv'
    <3> SUFFICES ASSUME NEW r \in Threads, Running(r)'
                 PROVE  /\ lifecycle'[r].turn \in Turns
                        /\ lifecycle'[r].turn < nextTurn
                        /\ turnStatus'[lifecycle'[r].turn] = "inProgress"
                        /\ turnThread[lifecycle'[r].turn] = {r}
      BY <1>0 DEF ActiveInv, InProgress
    <3>1. QED
      BY <2>3, <2>4, <1>1 DEF InProgress
  <2>6. PromptInv'
    BY <2>3, <1>0 DEF IInv, PromptInv
  <2>7. FreshInv'
    BY <2>1, <2>3, <1>0 DEF IInv, TypeOK, FreshInv, Turns
  <2>8. ActiveTurnIsLive'
    <3> SUFFICES ASSUME NEW r \in Threads, Running(r)'
                 PROVE  \E q \in Prompts :
                          /\ activePromptIds'[lifecycle'[r].turn] = q
                          /\ promptTurn[q] = lifecycle'[r].turn
                          /\ promptSession'[q] = lifecycle'[r].session
                          /\ promptPhase'[q] \in Live
      BY <1>0 DEF ActiveTurnIsLive, Live
    <3>1. PICK q \in Prompts : /\ activePromptIds[lifecycle[r].turn] = q
                               /\ promptTurn[q] = lifecycle[r].turn
                               /\ promptSession[q] = lifecycle[r].session
                               /\ promptPhase[q] \in Live
      BY <2>4, <1>1
    <3>2. q # p
      BY <3>1, <2>4
    <3>3. QED
      BY <3>1, <3>2, <2>3, <2>4, <1>0
  <2>9. (~MidTurnReset => InProgressIsActive)'
    <3> SUFFICES ASSUME ~MidTurnReset, NEW v \in Turns, turnStatus'[v] = "inProgress"
                 PROVE  \E r \in Threads : /\ turnThread[v] = {r}
                                           /\ Running(r)'
                                           /\ lifecycle'[r].turn = v
      BY <1>0 DEF InProgressIsActive, InProgress
    <3>1. v # u
      BY <2>3 DEF Terminal
    <3>2. PICK r \in Threads : /\ turnThread[v] = {r}
                               /\ Running(r)
                               /\ lifecycle[r].turn = v
      BY <3>1, <2>3 DEF IInv, InProgressIsActive, InProgress
    <3>3. r # t
      BY <3>1, <3>2, <2>1
    <3>4. QED
      BY <3>2, <3>3, <2>2 DEF Running
  <2>10. QED
    BY <1>2, <2>5, <2>6, <2>7, <2>8, <2>9 DEF IInv
<1>5. QED
  BY <1>3, <1>4 DEF HandleInternal

-----------------------------------------------------------------------------
(* The invariant of every behaviour.                                         *)

LEMMA InitIInv == Init => IInv
<1> SUFFICES ASSUME Init PROVE IInv
  OBVIOUS
<1>1. TypeOK
  BY InitTypeOK
<1>2. \A t \in Threads : ~Running(t)
  BY DEF Init, Running, Plain
<1>3. HandlerInv
  BY DEF Init, HandlerInv, NoHandler
<1>4. ActiveInv /\ ActiveTurnIsLive
  BY <1>2 DEF ActiveInv, ActiveTurnIsLive
<1>5. PromptInv /\ FreshInv
  BY DEF Init, PromptInv, FreshInv
<1>6. InProgressIsActive
  BY DEF Init, InProgressIsActive, InProgress
<1>7. QED
  BY <1>1, <1>3, <1>4, <1>5, <1>6 DEF IInv

LEMMA NextIInv == IInv /\ [Next]_vars => IInv'
<1> SUFFICES ASSUME IInv, [Next]_vars PROVE IInv'
  OBVIOUS
<1>0. TypeOK /\ HandlerInv /\ TypeOK'
  BY TypeOKStep DEF IInv
<1> USE DEF turnVars, restVars, promptVars, agentVars, clientVars, gatewayVars
<1>1. CASE Initialize \/ Query
  BY <1>0, <1>1, QuietStep DEF Initialize, Query, Ready, Awaiting, NoHandler, Running
<1>2. CASE AwaitReturns \/ Initialized
  BY <1>0, <1>2, QuietStep DEF AwaitReturns, Initialized, Resumed, Ops, Running
<1>3. ASSUME NEW t \in Threads, NEW l, l.state # "InTurn",
             SetLifecycle(t, l), MayReset(t), handler.op # "turn",
             handler' = NoHandler \/ \E op \in {"start", "fork", "resume"} : Awaiting(op, t),
             UNCHANGED <<activePromptIds, nextTurn, nextPrompt, promptVars, clientVars>>
      PROVE  IInv'
  <2>1. /\ lifecycle'[t].state # "InTurn"
        /\ \A r \in Threads \ {t} : lifecycle'[r] = lifecycle[r]
    BY <1>0, <1>3 DEF TypeOK, SetLifecycle
  <2>2. \A r \in Threads : Running(r)' => lifecycle'[r] = lifecycle[r]
    BY <2>1 DEF Running
  <2>3. \A r \in Threads : Running(r) /\ ~MidTurnReset => Running(r)'
    BY <1>3, <2>1 DEF Running, MayReset
  <2>4. QED
    BY <1>0, <1>3, <2>1, <2>2, <2>3, QuietStep DEF Awaiting
<1>4. ASSUME NEW t \in Threads, ThreadStart(t) PROVE IInv'
  BY <1>3, <1>4 DEF ThreadStart, Fresh, Ready, NoHandler, Plain, MayReset, Running
<1>5. ASSUME NEW t \in Threads, NEW source \in Threads, ThreadFork(source, t)
      PROVE  IInv'
  BY <1>3, <1>5 DEF ThreadFork, Fresh, Ready, NoHandler, Plain, MayReset, Running
<1>6. ASSUME NEW t \in Threads, ThreadResume(t) PROVE IInv'
  BY <1>3, <1>6 DEF ThreadResume, Ready, NoHandler, Plain
<1>7. ASSUME NEW t \in Threads, ThreadArchive(t) PROVE IInv'
  BY <1>3, <1>7 DEF ThreadArchive, Ready, NoHandler, Plain
<1>8. CASE ThreadStarted \/ ThreadForked \/ ThreadRolledBack \/ ThreadResumed
  <2>1. /\ handler.op \in {"start", "fork", "rollback", "resume"}
        /\ handler' = NoHandler
    BY <1>8 DEF ThreadStarted, ThreadForked, ThreadRolledBack, ThreadResumed, Resumed
  <2>2. handler.thread \in Threads /\ MayReset(handler.thread)
    BY <2>1, <1>0 DEF HandlerInv, MayReset
  <2>3. PICK s : SetLifecycle(handler.thread, Idle(s))
    BY <1>8 DEF ThreadStarted, ThreadForked, ThreadRolledBack, ThreadResumed, OnNewSession
  <2>4. UNCHANGED restVars
    BY <1>8 DEF ThreadStarted, ThreadForked, ThreadRolledBack, ThreadResumed
  <2>5. QED
    BY <1>3, <2>1, <2>2, <2>3, <2>4 DEF Idle
<1>9. ASSUME NEW t \in Threads, ThreadRollback(t) PROVE IInv'
  BY <1>0, <1>9, QuietStep DEF ThreadRollback, Ready, Awaiting, NoHandler, Running, MayReset
<1>10. ASSUME NEW t \in Threads, ThreadUnarchive(t) PROVE IInv'
  BY <1>0, <1>10, QuietStep DEF ThreadUnarchive, Running
<1>11. ASSUME NEW t \in Threads, TurnStart(t) PROVE IInv'
  BY <1>0, <1>11, TurnStartStep
<1>12. CASE TurnModeSet
  <2>1. /\ handler.thread \in Threads /\ Running(handler.thread)
        /\ nextPrompt <= MaxPrompts
    BY <1>0, <1>12 DEF TurnModeSet, Resumed, HandlerInv
  <2>2. QED
    BY <1>0, <1>12, <2>1, PromptAgainStep DEF TurnModeSet, Resumed
<1>13. ASSUME NEW t \in Threads, NEW u \in Turns, TurnSteer(t, u) PROVE IInv'
  BY <1>0, <1>13, PromptAgainStep DEF TurnSteer, Addresses, Ready, NoHandler
<1>14. ASSUME NEW t \in Threads, NEW u \in Turns, TurnInterrupt(t, u) PROVE IInv'
  BY <1>0, <1>14, QuietStep DEF TurnInterrupt, Running
<1>15. ASSUME NEW p \in Prompts, PromptStep(p) PROVE IInv'
  <2>1. \A q \in Prompts : promptPhase[q] \in Live => promptPhase'[q] \in Live
    BY <1>0, <1>15 DEF PromptStep, PromptSend, AgentAnswer, PromptFails, Complete, Live, TypeOK
  <2>2. QED
    BY <1>0, <1>15, <2>1, QuietStep
       DEF PromptStep, PromptSend, AgentAnswer, PromptFails, Complete, Running
<1>16. CASE HandleInternal
  BY <1>0, <1>16, HandleInternalStep
<1>17. CASE AgentExit \/ AgentGone \/ ClientGone \/ UNCHANGED vars
  BY <1>0, <1>17, QuietStep DEF AgentExit, AgentGone, ClientGone, LoopEnds, vars, Running
<1>18. QED
  BY <1>1, <1>2, <1>4, <1>5, <1>6, <1>7, <1>8, <1>9, <1>10, <1>11, <1>12, <1>13,
     <1>14, <1>15, <1>16, <1>17 DEF Next, ClientRequest, AgentReply

\* The inductive invariant holds throughout every session.
LEMMA Invariance == Spec => []IInv
  BY InitIInv, NextIInv, PTL DEF Spec

\* Every variable of the gateway, of its prompt tasks, of the agent and of the
\* client keeps its type, ids within their bounds included.
THEOREM TypeCorrect == Spec => []TypeOK
<1>1. IInv => TypeOK
  BY DEF IInv
<1>2. QED
  BY <1>1, Invariance, PTL

\* A turn the gateway holds for active can always end, resets and refused
\* efforts included: handle_turn_start and handle_turn_steer never leave one
\* without a prompt, and handle_internal_event never drops the completion of
\* the newest prompt of an active turn.
THEOREM ActiveTurnCanEnd == Spec => []ActiveTurnIsLive
<1>1. IInv => ActiveTurnIsLive
  BY DEF IInv
<1>2. QED
  BY <1>1, Invariance, PTL

\* With a client that resets no thread in its turn, a turn the client sees in
\* progress is the one the lifecycle map holds, so that steering, interrupts
\* and completions can reach it.
THEOREM TurnsAreActive ==
  ASSUME ~MidTurnReset PROVE Spec => []InProgressIsActive
<1>1. IInv => InProgressIsActive
  BY DEF IInv
<1>2. QED
  BY <1>1, Invariance, PTL

\* With such a client a task has at most one active turn, as
\* design/feats/first-class-grok.md:19 promises.
THEOREM AtMostOneTurn ==
  ASSUME ~MidTurnReset PROVE Spec => []AtMostOneActiveTurn
<1>1. IInv => AtMostOneActiveTurn
  <2> SUFFICES ASSUME InProgressIsActive, NEW u \in Turns, NEW v \in Turns,
                      InProgress(u), InProgress(v), turnThread[u] = turnThread[v]
               PROVE  u = v
    BY DEF IInv, AtMostOneActiveTurn
  <2>1. PICK t \in Threads : turnThread[u] = {t} /\ lifecycle[t].turn = u
    BY DEF InProgressIsActive
  <2>2. PICK r \in Threads : turnThread[v] = {r} /\ lifecycle[r].turn = v
    BY DEF InProgressIsActive
  <2>3. t = r
    BY <2>1, <2>2
  <2>4. QED
    BY <2>1, <2>2, <2>3
<1>2. QED
  BY <1>1, Invariance, PTL

-----------------------------------------------------------------------------
(* What each step does to the client's view of turns.                        *)

\* A step says something of a turn only when it starts it or takes a completion.
LEMMA StatusSteps ==
  ASSUME [Next]_vars
  PROVE  \/ UNCHANGED <<turnStatus, turnThread>>
         \/ \E t \in Threads : TurnStart(t)
         \/ HandleInternal
<1> USE DEF turnVars, restVars, promptVars, agentVars, clientVars, gatewayVars
<1>1. CASE UNCHANGED vars
  BY <1>1 DEF vars
<1>2. CASE ClientRequest
  BY <1>2 DEF ClientRequest, Initialize, Query, ThreadStart, ThreadResume,
              ThreadRollback, ThreadArchive, ThreadUnarchive, ThreadFork,
              TurnSteer, TurnInterrupt
<1>3. CASE AgentReply
  BY <1>3 DEF AgentReply, Initialized, ThreadStarted, ThreadForked,
              ThreadResumed, ThreadRolledBack, TurnModeSet, AwaitReturns
<1>4. CASE \E p \in Prompts : PromptStep(p)
  BY <1>4 DEF PromptStep, PromptSend, AgentAnswer, PromptFails, Complete
<1>5. CASE AgentExit \/ AgentGone \/ ClientGone
  BY <1>5 DEF AgentExit, AgentGone, ClientGone, LoopEnds
<1>6. QED
  BY <1>1, <1>2, <1>3, <1>4, <1>5 DEF Next

\* A completion ends the turn in progress it belongs to, with a terminal status,
\* or says nothing.
LEMMA CompletionStep ==
  ASSUME IInv, HandleInternal, ~UNCHANGED turnStatus
  PROVE  \E t \in Threads, u \in Turns, s \in Terminal :
           /\ Running(t) /\ lifecycle[t].turn = u /\ InProgress(u)
           /\ turnStatus' = [turnStatus EXCEPT ![u] = s]
           /\ lifecycle' = [lifecycle EXCEPT ![t] = Idle(lifecycle[t].session)]
<1> DEFINE p == Head(internal)
<1>1. PICK t \in Threads : EndsTurn(p, t) /\ EndTurn(p, t)
  BY DEF HandleInternal
<1>2. /\ Running(t) /\ lifecycle[t].turn = promptTurn[p]
      /\ promptTurn[p] \in Turns /\ InProgress(promptTurn[p])
  BY <1>1 DEF EndsTurn, IInv, ActiveInv
<1>3. StatusOf(promptOutcome[p]) \in Terminal
  BY DEF StatusOf, Terminal
<1>4. QED
  BY <1>1, <1>2, <1>3 DEF EndTurn, SetLifecycle

\* turn/completed is final: whatever requests and completions follow it, the
\* status of an ended turn never changes and a started turn never vanishes.
THEOREM TurnsEndOnce == Spec => EndsOnce
<1> DEFINE Final == \A u \in Turns :
                      /\ turnStatus[u] \in Terminal => turnStatus'[u] = turnStatus[u]
                      /\ InProgress(u) => turnStatus'[u] # "none"
<1>1. ASSUME IInv, [Next]_vars PROVE [Final]_turnStatus
  <2>1. CASE UNCHANGED turnStatus
    BY <2>1
  <2>2. ASSUME NEW t \in Threads, TurnStart(t) PROVE Final
    <3>1. nextTurn \in Turns /\ turnStatus[nextTurn] = "none"
      BY <1>1, <2>2 DEF TurnStart, IInv, TypeOK, FreshInv, Turns
    <3>2. turnStatus' = [turnStatus EXCEPT ![nextTurn] = "inProgress"]
      BY <2>2 DEF TurnStart
    <3>3. QED
      BY <1>1, <3>1, <3>2 DEF IInv, TypeOK, Terminal, InProgress
  <2>3. CASE HandleInternal /\ ~UNCHANGED turnStatus
    <3>1. PICK u \in Turns, s \in Terminal :
            InProgress(u) /\ turnStatus' = [turnStatus EXCEPT ![u] = s]
      BY <1>1, <2>3, CompletionStep
    <3>2. QED
      BY <1>1, <3>1 DEF IInv, TypeOK, Terminal, InProgress
  <2>4. QED
    BY <1>1, <2>1, <2>2, <2>3, StatusSteps
<1>2. QED
  BY <1>1, Invariance, PTL DEF Spec, EndsOnce

-----------------------------------------------------------------------------
(* The session implements TurnContract.                                      *)

\* A step that neither starts a turn nor takes a completion moves at most one
\* thread, from one state out of a turn to another if the client resets no
\* thread in its turn, and only the loop's end ends the session.
LEMMA OtherSteps ==
  ASSUME IInv, [Next]_vars, ~\E t \in Threads : TurnStart(t), ~HandleInternal
  PROVE  /\ \/ UNCHANGED lifecycle
            \/ \E t \in Threads :
                 /\ MayReset(t) /\ ~Running(t)'
                 /\ \A r \in Threads \ {t} : lifecycle'[r] = lifecycle[r]
         /\ \/ UNCHANGED loop
            \/ /\ loop = "running" /\ loop' # "running"
               /\ UNCHANGED lifecycle
<1> USE DEF turnVars, restVars, promptVars, agentVars, clientVars, gatewayVars
<1> DEFINE Moves == \E t \in Threads :
                      /\ MayReset(t) /\ ~Running(t)'
                      /\ \A r \in Threads \ {t} : lifecycle'[r] = lifecycle[r]
<1>1. ASSUME NEW t \in Threads, NEW l, l.state # "InTurn", SetLifecycle(t, l),
             MayReset(t)
      PROVE  Moves
  BY <1>1 DEF IInv, TypeOK, SetLifecycle, Running
<1>2. CASE \E t \in Threads : ThreadResume(t) \/ ThreadArchive(t)
  BY <1>1, <1>2 DEF ThreadResume, ThreadArchive, Plain
<1>3. CASE \E t \in Threads : \/ ThreadStart(t)
                              \/ \E source \in Threads : ThreadFork(source, t)
  BY <1>1, <1>3 DEF ThreadStart, ThreadFork, Fresh, Plain, MayReset, Running
<1>4. CASE ThreadStarted \/ ThreadForked \/ ThreadRolledBack \/ ThreadResumed
  <2>1. handler.op \in {"start", "fork", "rollback", "resume"}
    BY <1>4 DEF ThreadStarted, ThreadForked, ThreadRolledBack, ThreadResumed, Resumed
  <2>2. handler.thread \in Threads /\ MayReset(handler.thread)
    BY <2>1 DEF IInv, HandlerInv, MayReset
  <2>3. PICK s : SetLifecycle(handler.thread, Idle(s))
    BY <1>4 DEF ThreadStarted, ThreadForked, ThreadRolledBack, ThreadResumed, OnNewSession
  <2>4. Moves
    BY <1>1, <2>2, <2>3 DEF Idle
  <2>5. QED
    BY <1>4, <2>4 DEF ThreadStarted, ThreadForked, ThreadRolledBack, ThreadResumed
<1>5. CASE \/ Initialize \/ Query \/ Initialized \/ AwaitReturns \/ TurnModeSet
           \/ \E t \in Threads : ThreadRollback(t) \/ ThreadUnarchive(t)
           \/ \E t \in Threads, u \in Turns : TurnSteer(t, u) \/ TurnInterrupt(t, u)
  BY <1>5 DEF Initialize, Query, Initialized, AwaitReturns, TurnModeSet,
              ThreadRollback, ThreadUnarchive, TurnSteer, TurnInterrupt
<1>6. CASE AgentExit \/ \E p \in Prompts : PromptStep(p)
  BY <1>6 DEF AgentExit, PromptStep, PromptSend, AgentAnswer, PromptFails, Complete
<1>7. CASE AgentGone \/ ClientGone
  BY <1>7 DEF AgentGone, ClientGone, LoopEnds, Ready
<1>8. CASE UNCHANGED vars
  BY <1>8 DEF vars
<1>9. QED
  BY <1>2, <1>3, <1>4, <1>5, <1>6, <1>7, <1>8 DEF Next, ClientRequest, AgentReply

\* Starting a turn is the contract's Start.
LEMMA StartRefines ==
  ASSUME IInv, NEW t \in Threads, TurnStart(t)
  PROVE  Contract!Start(t, nextTurn) /\ nextTurn \in Turns
<1>1. loop = "running" /\ UNCHANGED loop /\ ~Running(t)
  BY DEF TurnStart, Ready, MayStartTurn, Idle, Running
<1>2. nextTurn \in Turns /\ turnStatus[nextTurn] = "none"
  BY DEF TurnStart, IInv, TypeOK, FreshInv, Turns
<1>3. /\ Running(t)' /\ lifecycle'[t].turn = nextTurn
      /\ \A r \in Threads \ {t} : lifecycle'[r] = lifecycle[r]
  BY DEF TurnStart, SetLifecycle, InTurn, Running, IInv, TypeOK
<1>4. ActiveTurn' = [ActiveTurn EXCEPT ![t] = nextTurn]
  BY <1>3 DEF ActiveTurn, Running
<1>5. ActiveTurn[t] = 0
  BY <1>1 DEF ActiveTurn, NoTurn
<1>6. /\ turnThread' = [turnThread EXCEPT ![nextTurn] = {t}]
      /\ turnStatus' = [turnStatus EXCEPT ![nextTurn] = "inProgress"]
  BY DEF TurnStart
<1>7. QED
  BY <1>1, <1>2, <1>4, <1>5, <1>6 DEF Contract!Start

\* Taking a completion is the contract's Finish or changes nothing in it.
LEMMA CompletionRefines ==
  ASSUME IInv, HandleInternal
  PROVE  \/ \E t \in Threads, u \in Turns : Contract!Finish(t, u)
         \/ UNCHANGED Contract!vars
<1>0. loop = "running" /\ UNCHANGED <<loop, turnThread>>
  BY DEF HandleInternal, Ready
<1>1. CASE UNCHANGED <<turnStatus, lifecycle>>
  BY <1>0, <1>1 DEF Contract!vars, ActiveTurn, Running
<1>2. CASE ~UNCHANGED turnStatus
  <2>1. PICK t \in Threads, u \in Turns, s \in Terminal :
          /\ Running(t) /\ lifecycle[t].turn = u /\ InProgress(u)
          /\ turnStatus' = [turnStatus EXCEPT ![u] = s]
          /\ lifecycle' = [lifecycle EXCEPT ![t] = Idle(lifecycle[t].session)]
    BY <1>2, CompletionStep
  <2>2. /\ ~Running(t)'
        /\ \A r \in Threads \ {t} : lifecycle'[r] = lifecycle[r]
    BY <2>1 DEF Idle, Running, IInv, TypeOK
  <2>3. ActiveTurn' = [ActiveTurn EXCEPT ![t] = 0]
    BY <2>2 DEF ActiveTurn, Running, NoTurn
  <2>4. ActiveTurn[t] = u /\ turnStatus[u] = "inProgress"
    BY <2>1 DEF ActiveTurn, InProgress
  <2>5. Contract!Finish(t, u)
    BY <1>0, <2>1, <2>3, <2>4 DEF Contract!Finish, Contract!Terminal, Terminal
  <2>6. QED
    BY <2>5
<1>3. UNCHANGED lifecycle \/ ~UNCHANGED turnStatus
  <2> DEFINE p == Head(internal)
  <2>1. ASSUME NEW t \in Threads, EndsTurn(p, t), EndTurn(p, t)
        PROVE  ~UNCHANGED turnStatus
    <3>1. promptTurn[p] \in Turns /\ turnStatus[promptTurn[p]] = "inProgress"
      BY <2>1 DEF EndsTurn, IInv, ActiveInv, InProgress
    <3>2. turnStatus'[promptTurn[p]] = StatusOf(promptOutcome[p])
      BY <2>1, <3>1 DEF EndTurn, IInv, TypeOK
    <3>3. StatusOf(promptOutcome[p]) # "inProgress"
      BY DEF StatusOf
    <3>4. QED
      BY <3>1, <3>2, <3>3
  <2>2. QED
    BY <2>1 DEF HandleInternal
<1>4. QED
  BY <1>1, <1>2, <1>3

\* With a client that resets no thread in its turn, the session implements the
\* contract: turns start on threads without an active turn, only the active
\* turn ends, once, and the thread is free again.
THEOREM ContractImplemented ==
  ASSUME ~MidTurnReset PROVE Spec => ImplementsContract
<1>1. Init => Contract!Init
  BY DEF Init, Contract!Init, ActiveTurn, Running, Plain, NoTurn, Turns, Contract!Turns
<1>2. ASSUME IInv, [Next]_vars PROVE [Contract!Next]_(Contract!vars)
  <2>1. ASSUME NEW t \in Threads, TurnStart(t) PROVE Contract!Next
    BY <1>2, <2>1, StartRefines DEF Contract!Next, Contract!Turns, Turns
  <2>2. CASE HandleInternal
    BY <1>2, <2>2, CompletionRefines DEF Contract!Next, Contract!Turns, Turns
  <2>3. CASE ~HandleInternal /\ ~\E t \in Threads : TurnStart(t)
    <3>1. UNCHANGED <<turnStatus, turnThread>>
      BY <1>2, <2>3, StatusSteps
    <3>2. UNCHANGED ActiveTurn
      BY <1>2, <2>3, OtherSteps DEF MayReset, ActiveTurn, Running
    <3>3. UNCHANGED loop \/ (loop = "running" /\ loop' # "running")
      BY <1>2, <2>3, OtherSteps
    <3>4. CASE UNCHANGED loop
      BY <3>1, <3>2, <3>4 DEF Contract!vars
    <3>5. CASE loop = "running" /\ loop' # "running"
      BY <3>1, <3>2, <3>5 DEF Contract!Next, Contract!Close
    <3>6. QED
      BY <3>3, <3>4, <3>5
  <2>4. QED
    BY <2>1, <2>2, <2>3
<1>3. QED
  BY <1>1, <1>2, Invariance, PTL DEF Spec, ImplementsContract, Contract!Spec

-----------------------------------------------------------------------------
(* The prompts of a turn.  Each kind of step has a lemma: it keeps prompts    *)
(* and turns as they are, issues a prompt, suspends turn/start, or moves one  *)
(* prompt on.  The map of sessions is treated apart, for all steps.           *)

\* No step gives two threads one session or takes a session from the agent.
LEMMA MapStep ==
  ASSUME IInv, IInv', MapInv, [Next]_vars PROVE MapInv'
<1> USE ConstantsOK DEF IInv, TypeOK
<1> USE DEF turnVars, restVars, promptVars, agentVars, clientVars, gatewayVars
<1>1. ASSUME UNCHANGED <<threadToSession, agentSessions>>,
             \A r \in Threads : Running(r)' => lifecycle'[r] = lifecycle[r]
      PROVE  MapInv'
  BY <1>1 DEF MapInv, Running
<1>2. CASE UNCHANGED <<threadToSession, agentSessions, lifecycle>>
  BY <1>1, <1>2
<1>3. ASSUME NEW t \in Threads, NEW l, l.state # "InTurn", SetLifecycle(t, l),
             UNCHANGED <<threadToSession, agentSessions>>
      PROVE  MapInv'
  BY <1>1, <1>3 DEF SetLifecycle, Running
<1>4. ASSUME NEW t \in Threads,
             \/ ThreadStart(t) \/ ThreadResume(t) \/ ThreadArchive(t)
             \/ \E source \in Threads : ThreadFork(source, t)
      PROVE  MapInv'
  BY <1>3, <1>4 DEF ThreadStart, ThreadResume, ThreadArchive, ThreadFork, Plain
<1>5. ASSUME NEW t \in Threads, NEW s \in SessionIds,
             MapThread(t, s), SetLifecycle(t, Idle(s)),
             agentSessions' = agentSessions \cup {s},
             \A r \in Threads \ {t} : threadToSession[r] # s,
             s \in Threads => s = t
      PROVE  MapInv'
  <2>1. /\ threadToSession'[t] = s /\ lifecycle'[t] = Idle(s)
        /\ \A r \in Threads \ {t} : /\ threadToSession'[r] = threadToSession[r]
                                    /\ lifecycle'[r] = lifecycle[r]
    BY <1>5 DEF MapThread, SetLifecycle
  <2>2. ~Running(t)'
    BY <2>1 DEF Running, Idle
  <2>3. \A r, q \in Threads : threadToSession'[r] # None
                              /\ threadToSession'[r] = threadToSession'[q] => r = q
    BY <1>5, <2>1 DEF MapInv
  <2>4. \A r \in Threads : threadToSession'[r] # None =>
          /\ threadToSession'[r] \in agentSessions'
          /\ threadToSession'[r] \in Threads => threadToSession'[r] = r
    BY <1>5, <2>1 DEF MapInv
  <2>5. ~MidTurnReset => \A r \in Threads : Running(r)' =>
          /\ threadToSession'[r] # None
          /\ lifecycle'[r].session = threadToSession'[r]
    BY <2>1, <2>2 DEF MapInv, Running
  <2>6. QED
    BY <2>3, <2>4, <2>5 DEF MapInv
<1>6. CASE ThreadStarted \/ ThreadForked \/ ThreadRolledBack
  <2>1. handler.thread \in Threads
    BY <1>6 DEF ThreadStarted, ThreadForked, ThreadRolledBack, Resumed, HandlerInv
  <2>2. PICK s \in Sessions \ agentSessions :
          /\ agentSessions' = agentSessions \cup {s}
          /\ MapThread(handler.thread, s)
          /\ SetLifecycle(handler.thread, Idle(s))
    BY <1>6 DEF ThreadStarted, ThreadForked, ThreadRolledBack, OnNewSession
  <2>3. s \in SessionIds /\ s \notin Threads /\ s # None
    BY DEF SessionIds
  <2>4. \A r \in Threads : threadToSession[r] # s
    BY <2>2, <2>3 DEF MapInv
  <2>5. QED
    BY <1>5, <2>1, <2>2, <2>3, <2>4
<1>7. CASE ThreadResumed
  <2> DEFINE t == handler.thread
             s == ResumeSession(t)
  <2>1. /\ t \in Threads /\ s \in agentSessions
        /\ MapThread(t, s) /\ SetLifecycle(t, Idle(s))
        /\ agentSessions' = agentSessions
    BY <1>7 DEF ThreadResumed, Resumed, HandlerInv
  <2>2. \/ s = threadToSession[t] /\ s # None
        \/ s = t /\ threadToSession[t] = None
    BY ONLY DEF ResumeSession
  <2>3. s \in Threads => s = t
    BY <2>1, <2>2 DEF MapInv
  <2>4. ASSUME NEW r \in Threads \ {t} PROVE threadToSession[r] # s
    <3>1. CASE s = threadToSession[t] /\ s # None
      BY <2>1, <3>1 DEF MapInv
    <3>2. CASE s = t
      <4>1. t # None
        BY <2>1 DEF SessionIds
      <4>2. QED
        BY <2>1, <3>2, <4>1 DEF MapInv
    <3>3. QED
      BY <2>2, <3>1, <3>2
  <2>5. s \in SessionIds /\ agentSessions' = agentSessions \cup {s}
    BY <2>1
  <2>6. QED
    BY <1>5, <2>1, <2>3, <2>4, <2>5
<1>8. ASSUME NEW t \in Threads, TurnStart(t) PROVE MapInv'
  <2>1. /\ threadToSession[t] # None /\ UNCHANGED <<threadToSession, agentSessions>>
        /\ lifecycle'[t] = InTurn(threadToSession[t], nextTurn)
        /\ \A r \in Threads \ {t} : lifecycle'[r] = lifecycle[r]
    BY <1>8 DEF TurnStart, MayStartTurn, SetLifecycle
  <2>2. /\ lifecycle'[t].session = threadToSession[t]
        /\ \A r \in Threads \ {t} : Running(r)' => Running(r)
    BY <2>1 DEF Running, InTurn
  <2>3. \A r \in Threads : ~MidTurnReset /\ Running(r)' =>
          /\ threadToSession[r] # None
          /\ lifecycle'[r].session = threadToSession[r]
    BY <2>1, <2>2 DEF MapInv
  <2>4. QED
    BY <2>1, <2>3 DEF MapInv
<1>9. CASE HandleInternal
  <2>1. UNCHANGED <<threadToSession, agentSessions>>
    BY <1>9 DEF HandleInternal
  <2>2. \/ UNCHANGED lifecycle
        \/ \E t \in Threads : SetLifecycle(t, Idle(lifecycle[t].session))
    BY <1>9 DEF HandleInternal, EndTurn
  <2>3. QED
    BY <1>2, <1>3, <2>1, <2>2 DEF Idle
<1>10. CASE \/ Initialize \/ Query \/ Initialized \/ AwaitReturns \/ TurnModeSet
            \/ \E t \in Threads : ThreadRollback(t) \/ ThreadUnarchive(t)
            \/ \E t \in Threads, u \in Turns : TurnSteer(t, u) \/ TurnInterrupt(t, u)
  BY <1>2, <1>10 DEF Initialize, Query, Initialized, AwaitReturns, TurnModeSet,
                     ThreadRollback, ThreadUnarchive, TurnSteer, TurnInterrupt
<1>11. CASE \/ AgentExit \/ AgentGone \/ ClientGone \/ UNCHANGED vars
            \/ \E p \in Prompts : PromptStep(p)
  BY <1>2, <1>11 DEF AgentExit, AgentGone, ClientGone, LoopEnds, vars, PromptStep,
                     PromptSend, AgentAnswer, PromptFails, Complete
<1>12. QED
  BY <1>4, <1>6, <1>7, <1>8, <1>9, <1>10, <1>11 DEF Next, ClientRequest, AgentReply

\* A step that leaves prompts, the queue and the status of turns alone, and
\* neither suspends turn/start nor moves a thread within a turn, keeps what is
\* known of prompts.
LEMMA FrameStep ==
  ASSUME PInv, MapInv',
         UNCHANGED <<promptVars, internal, activePromptIds, turnOutputs, turnStatus,
                     nextTurn, nextPrompt, cancelSeen, interruptAimed, agentUp>>,
         \A r \in Threads : Running(r)' => lifecycle'[r] = lifecycle[r],
         handler'.op = "turn" => UNCHANGED <<handler, lifecycle>>
  PROVE  PInv'
<1> USE DEF PInv, promptVars
<1>1. IssuedInv' /\ QueueInv' /\ PollInv' /\ InterruptInv'
  BY DEF IssuedInv, QueueInv, PollInv, InterruptInv
<1>2. NewestInv' /\ TurnStateReleased'
  BY DEF NewestInv, TurnStateReleased, InProgress
<1>3. OrderInv'
  BY DEF OrderInv, Unanswered, InProgress
<1>4. SessionInv'
  BY DEF SessionInv, Running
<1>5. QED
  BY <1>1, <1>2, <1>3, <1>4

\* Issuing a prompt for a turn that is, or is now, the active one of its thread
\* keeps what is known of prompts: it is the newest of its turn and of all.
LEMMA IssueStep ==
  ASSUME IInv, IInv', PInv, MapInv', NEW t \in Threads, NEW u \in Turns, NEW s,
         IssuePrompt(u, s), nextPrompt <= MaxPrompts,
         Running(t)', lifecycle'[t].turn = u, lifecycle'[t].session = s,
         \A r \in Threads \ {t} : lifecycle'[r] = lifecycle[r],
         turnStatus' = [turnStatus EXCEPT ![u] = "inProgress"],
         turnOutputs' = turnOutputs \cup {u},
         nextTurn <= nextTurn', u < nextTurn',
         \A p \in Prompts : promptPhase[p] \in Live /\ promptTurn[p] = u
                             => promptSession[p] = s,
         handler' = NoHandler,
         UNCHANGED <<internal, cancelSeen, interruptAimed, agentUp>>
  PROVE  PInv'
<1> DEFINE n == nextPrompt
<1> USE ConstantsOK DEF IInv, TypeOK
<1>0. /\ n \in Prompts /\ nextPrompt' = n + 1 /\ n \in Nat
      /\ activePromptIds' = [activePromptIds EXCEPT ![u] = n]
      /\ promptPhase'[n] = "spawned" /\ promptTurn'[n] = u /\ promptSession'[n] = s
      /\ \A p \in Prompts \ {n} : /\ promptPhase'[p] = promptPhase[p]
                                  /\ promptTurn'[p] = promptTurn[p]
                                  /\ promptSession'[p] = promptSession[p]
  BY DEF IssuePrompt, Prompts
<1>1. /\ promptPhase[n] = "unused" /\ promptTurn[n] = NoTurn
      /\ \A p \in Prompts : promptPhase[p] # "unused" => p < n
      /\ \A p \in Prompts : promptTurn[p] # NoTurn => p < n
      /\ u # NoTurn
  BY <1>0 DEF PInv, IssuedInv, Prompts, Turns, NoTurn
<1>2. \A v \in Turns : /\ InProgress(v)' <=> (v = u \/ InProgress(v))
                        /\ activePromptIds'[v] = IF v = u THEN n ELSE activePromptIds[v]
  BY <1>0 DEF InProgress
<1>3. IssuedInv'
  <2> SUFFICES ASSUME NEW p \in Prompts
               PROVE  IF p < n + 1
                      THEN promptPhase'[p] # "unused" /\ promptTurn'[p] \in 1..(nextTurn' - 1)
                      ELSE promptPhase'[p] = "unused" /\ promptTurn'[p] = NoTurn
    BY <1>0 DEF IssuedInv
  <2>1. CASE p = n
    <3>1. u \in 1..(nextTurn' - 1)
      BY DEF Turns
    <3>2. QED
      BY <2>1, <3>1, <1>0
  <2>2. CASE p # n
    <3>1. p \in Nat /\ (p < n + 1 <=> p < n)
      BY <2>2, <1>0 DEF Prompts
    <3>2. nextTurn \in Nat /\ nextTurn' \in Nat
      OBVIOUS
    <3>3. QED
      BY <2>2, <3>1, <3>2, <1>0 DEF PInv, IssuedInv
  <2>3. QED
    BY <2>1, <2>2
<1>4. NewestInv'
  <2> SUFFICES ASSUME NEW p \in Prompts, promptTurn'[p] # NoTurn,
                      turnStatus'[promptTurn'[p]] = "inProgress"
               PROVE  p <= activePromptIds'[promptTurn'[p]]
    BY DEF NewestInv, InProgress, NoHandler
  <2>1. CASE promptTurn'[p] = u
    <3>1. p = n \/ p < n
      BY <2>1, <1>0, <1>1
    <3>2. QED
      BY <2>1, <3>1, <1>0 DEF Prompts
  <2>2. CASE promptTurn'[p] # u
    BY <2>2, <1>0, <1>2 DEF PInv, NewestInv, InProgress
  <2>3. QED
    BY <2>1, <2>2
<1>5. TurnStateReleased'
  BY <1>0, <1>2 DEF PInv, TurnStateReleased
<1>6. QueueInv'
  <2>1. \A i \in 1..Len(internal) : internal[i] \in Prompts /\ internal[i] # n
    BY <1>1 DEF PInv, QueueInv
  <2>2. \A p \in Prompts : promptPhase'[p] = "answered" <=> promptPhase[p] = "answered"
    BY <1>0, <1>1
  <2>3. QED
    BY <2>1, <2>2 DEF PInv, QueueInv
<1>7. PollInv'
  BY <1>0, <1>1 DEF PInv, PollInv
<1>8. OrderInv'
  <2> SUFFICES ASSUME agentUp
               PROVE  OrderInv'
    BY DEF OrderInv
  <2>1. \A p \in Prompts : Unanswered(p)' <=> (p = n \/ Unanswered(p))
    BY <1>0 DEF Unanswered
  <2>2. ASSUME NEW p \in Prompts, NEW q \in Prompts, p < q, Unanswered(p)',
               promptTurn'[p] = promptTurn'[q]
        PROVE  Unanswered(q)'
    <3>1. CASE q = n
      BY <2>1, <3>1
    <3>2. CASE q # n /\ p = n
      <4>1. promptTurn[q] = u
        BY <2>2, <3>2, <1>0
      <4>2. QED
        BY <4>1, <2>2, <3>2, <1>0, <1>1 DEF Prompts
    <3>3. CASE q # n /\ p # n
      BY <2>1, <2>2, <3>3, <1>0 DEF PInv, OrderInv
    <3>4. QED
      BY <3>1, <3>2, <3>3
  <2>3. ASSUME NEW p \in Prompts, Unanswered(p)' PROVE InProgress(promptTurn[p])'
    <3>1. CASE p = n
      BY <3>1, <1>0, <1>2 DEF InProgress
    <3>2. CASE p # n
      <4>1. turnStatus[promptTurn[p]] = "inProgress" /\ promptTurn'[p] = promptTurn[p]
        BY <2>1, <2>3, <3>2, <1>0 DEF PInv, OrderInv, InProgress
      <4>2. QED
        BY <4>1 DEF InProgress
    <3>3. QED
      BY <3>1, <3>2
  <2>4. ASSUME NEW i \in 1..Len(internal)
        PROVE  promptTurn'[internal[i]] = promptTurn[internal[i]]
    <3>1. internal[i] \in Prompts /\ promptPhase[internal[i]] = "answered"
      BY DEF PInv, QueueInv
    <3>2. internal[i] # n
      BY <3>1, <1>1
    <3>3. QED
      BY <3>1, <3>2, <1>0
  <2>5. \A i, j \in 1..Len(internal) :
          i < j /\ promptTurn'[internal[i]] = promptTurn'[internal[j]] =>
            internal[i] < internal[j]
    BY <2>4 DEF PInv, OrderInv
  <2>6. UNCHANGED internal
    OBVIOUS
  <2>7. QED
    BY ONLY <2>2, <2>3, <2>5, <2>6 DEF OrderInv
<1>9. SessionInv'
  <2>1. \A p \in Prompts : promptPhase'[p] \in Live <=> (p = n \/ promptPhase[p] \in Live)
    BY <1>0 DEF Live
  <2>2. ASSUME NEW p \in Prompts, promptPhase'[p] \in Live, promptTurn'[p] = u
        PROVE  promptSession'[p] = s
    BY <2>1, <2>2, <1>0
  <2>3. ASSUME NEW p \in Prompts, NEW q \in Prompts, promptPhase'[p] \in Live,
               promptPhase'[q] \in Live, promptTurn'[p] = promptTurn'[q]
        PROVE  promptSession'[p] = promptSession'[q]
    <3>1. CASE promptTurn'[p] = u
      BY <2>2, <2>3, <3>1
    <3>2. CASE promptTurn'[p] # u
      BY <2>1, <2>3, <3>2, <1>0 DEF PInv, SessionInv
    <3>3. QED
      BY <3>1, <3>2
  <2>4. ASSUME NEW p \in Prompts, NEW r \in Threads, promptPhase'[p] \in Live,
               Running(r)', promptTurn'[p] = lifecycle'[r].turn
        PROVE  promptSession'[p] = lifecycle'[r].session
    <3>1. CASE r = t
      BY <2>2, <2>4, <3>1
    <3>2. CASE r # t
      <4>1. turnThread'[lifecycle'[r].turn] = {r} /\ turnThread'[u] = {t}
        BY <2>4 DEF ActiveInv
      <4>2. promptTurn'[p] # u
        BY <2>4, <3>2, <4>1
      <4>3. p # n
        BY <4>2, <1>0
      <4>4. Running(r) /\ lifecycle'[r] = lifecycle[r]
        BY <2>4, <3>2 DEF Running
      <4>5. QED
        BY <2>1, <2>4, <4>3, <4>4, <1>0 DEF PInv, SessionInv
    <3>3. QED
      BY <3>1, <3>2
  <2>5. QED
    BY <2>3, <2>4 DEF SessionInv
<1>10. InterruptInv'
  <2>1. \A p \in cancelSeen : p # n
    BY <1>1 DEF PInv, InterruptInv
  <2>2. \A p \in interruptAimed, q \in cancelSeen :
          promptTurn[p] = promptTurn[q] => promptTurn'[p] = promptTurn'[q]
    <3>1. ASSUME NEW q \in cancelSeen
          PROVE  promptTurn[q] # NoTurn /\ promptTurn'[q] = promptTurn[q]
      <4>1. q \in Prompts /\ promptPhase[q] # "unused"
        BY DEF PInv, InterruptInv
      <4>2. q < n /\ promptTurn[q] \in 1..(nextTurn - 1)
        BY <4>1, <1>1 DEF PInv, IssuedInv
      <4>3. nextTurn \in Nat
        OBVIOUS
      <4>4. promptTurn[q] # NoTurn
        BY <4>2, <4>3 DEF NoTurn
      <4>5. QED
        BY <2>1, <4>1, <4>4, <1>0
    <3>2. \A p \in interruptAimed : promptTurn[p] # NoTurn => promptTurn'[p] = promptTurn[p]
      BY <1>0, <1>1
    <3>3. QED
      BY <3>1, <3>2
  <2>3. \A p \in cancelSeen : promptPhase'[p] = promptPhase[p]
    BY <2>1, <1>0
  <2>4. QED
    BY <2>2, <2>3 DEF PInv, InterruptInv
<1>11. QED
  BY <1>3, <1>4, <1>5, <1>6, <1>7, <1>8, <1>9, <1>10 DEF PInv

\* turn/start that first asks the agent for a mode starts its turn without a
\* prompt, and no prompt is of a turn that was not started before.
LEMMA SuspendStep ==
  ASSUME IInv, IInv', PInv, MapInv', NEW t \in Threads, TurnStart(t),
         UNCHANGED <<activePromptIds, nextPrompt, promptVars>>
  PROVE  PInv'
<1> DEFINE u == nextTurn
<1> USE ConstantsOK DEF IInv, TypeOK, promptVars
<1>0. /\ u \in Turns /\ nextTurn' = u + 1
      /\ turnStatus' = [turnStatus EXCEPT ![u] = "inProgress"]
      /\ turnOutputs' = turnOutputs \cup {u}
      /\ lifecycle'[t] = InTurn(threadToSession[t], u)
      /\ \A r \in Threads \ {t} : lifecycle'[r] = lifecycle[r]
      /\ UNCHANGED <<internal, agentUp, cancelSeen, interruptAimed>>
  BY DEF TurnStart, Awaiting, SetLifecycle, Turns, agentVars
<1>1. /\ \A p \in Prompts : promptTurn[p] # u
      /\ activePromptIds[u] = NoPrompt /\ ~InProgress(u)
  <2>1. u \in Nat /\ u # NoTurn
    BY DEF NoTurn
  <2>2. \A p \in Prompts : promptTurn[p] # u
    BY <2>1 DEF PInv, IssuedInv
  <2>3. QED
    BY <2>1, <2>2, <1>0 DEF FreshInv, InProgress
<1>2. \A v \in Turns : InProgress(v)' <=> (v = u \/ InProgress(v))
  BY <1>0 DEF InProgress
<1>3. IssuedInv'
  <2>1. u \in Nat /\ u - 1 \in Int /\ nextTurn' - 1 = u
    BY <1>0
  <2>2. ASSUME NEW p \in Prompts, promptTurn[p] \in 1..(u - 1) PROVE promptTurn[p] \in 1..u
    BY <2>1, <2>2
  <2>3. QED
    BY <2>1, <2>2 DEF PInv, IssuedInv
<1>4. NewestInv'
  <2>1. handler.op # "turn" /\ (handler'.op = "turn" => handler'.thread = t)
    BY DEF TurnStart, Ready, Awaiting, NoHandler
  <2>2. handler'.op = "turn" => activePromptIds[lifecycle'[handler'.thread].turn] = NoPrompt
    BY <2>1, <1>0, <1>1 DEF InTurn
  <2>3. ASSUME NEW p \in Prompts, promptTurn[p] # NoTurn, turnStatus'[promptTurn[p]] = "inProgress"
        PROVE  p <= activePromptIds[promptTurn[p]]
    BY <2>3, <1>0, <1>1 DEF PInv, NewestInv, InProgress
  <2>4. QED
    BY <2>2, <2>3 DEF NewestInv, InProgress
<1>5. TurnStateReleased'
  BY <1>0, <1>2 DEF PInv, TurnStateReleased
<1>6. QueueInv' /\ PollInv' /\ InterruptInv'
  BY <1>0 DEF PInv, QueueInv, PollInv, InterruptInv
<1>7. OrderInv'
  <2>1. ASSUME agentUp, NEW p \in Prompts, Unanswered(p) PROVE turnStatus'[promptTurn[p]] = "inProgress"
    BY <2>1, <1>0, <1>1 DEF PInv, OrderInv, InProgress
  <2>2. QED
    BY <1>0, <2>1 DEF PInv, OrderInv, Unanswered, InProgress
<1>8. SessionInv'
  <2>1. ASSUME NEW p \in Prompts, NEW r \in Threads, promptPhase[p] \in Live,
               Running(r)', promptTurn[p] = lifecycle'[r].turn
        PROVE  promptSession[p] = lifecycle'[r].session
    <3>1. r # t
      BY <2>1, <1>0, <1>1 DEF InTurn
    <3>2. Running(r) /\ lifecycle'[r] = lifecycle[r]
      BY <2>1, <3>1, <1>0 DEF Running
    <3>3. QED
      BY <2>1, <3>2 DEF PInv, SessionInv
  <2>2. QED
    BY <2>1 DEF PInv, SessionInv
<1>9. QED
  BY <1>3, <1>4, <1>5, <1>6, <1>7, <1>8 DEF PInv

\* An interrupt keeps what is known of prompts: with a client that resets no
\* thread in its turn, all that the agent holds of the session is of the turn
\* the interrupt names, and the newest prompt of that turn is unanswered too.
LEMMA InterruptStep ==
  ASSUME IInv, PInv, MapInv', NEW t \in Threads, NEW u \in Turns, TurnInterrupt(t, u)
  PROVE  PInv'
<1> USE ConstantsOK DEF IInv, TypeOK
<1> USE DEF promptVars, gatewayVars
<1>1. /\ Running(t) /\ lifecycle[t].turn = u /\ agentUp
      /\ lifecycle[t].session = threadToSession[t]
      /\ cancelSeen' = cancelSeen \cup AtAgent(threadToSession[t])
      /\ interruptAimed' = interruptAimed \cup
           {p \in Prompts : p = activePromptIds[u] /\ Unanswered(p)}
      /\ UNCHANGED <<gatewayVars, promptVars, agentUp, turnStatus>>
  BY DEF TurnInterrupt, Addresses, CancelReaches
<1>2. IssuedInv' /\ NewestInv' /\ TurnStateReleased' /\ QueueInv' /\ PollInv'
  BY <1>1 DEF PInv, IssuedInv, NewestInv, TurnStateReleased, QueueInv, PollInv, InProgress
<1>3. OrderInv' /\ SessionInv'
  BY <1>1 DEF PInv, OrderInv, SessionInv, Unanswered, InProgress, Running
<1>4. InterruptInv'
  <2>1. \A p \in AtAgent(threadToSession[t]) : promptPhase[p] = "outstanding"
    BY DEF AtAgent
  <2>2. ASSUME ~MidTurnReset, NEW p \in AtAgent(threadToSession[t])
        PROVE  \E q \in interruptAimed' : promptTurn[q] = promptTurn[p] /\ p <= q
    <3>1. /\ p \in Prompts /\ Unanswered(p) /\ promptPhase[p] \in Live
          /\ promptSession[p] = threadToSession[t]
      BY DEF AtAgent, Unanswered, Live
    <3>2. InProgress(promptTurn[p]) /\ promptTurn[p] \in Turns /\ promptTurn[p] # NoTurn
      <4>1. promptTurn[p] \in 1..(nextTurn - 1) /\ nextTurn \in 1..(MaxTurns + 1)
        BY <3>1 DEF PInv, IssuedInv, Live
      <4>2. promptTurn[p] \in Turns /\ promptTurn[p] # NoTurn
        BY <4>1 DEF Turns, NoTurn
      <4>3. InProgress(promptTurn[p])
        BY <1>1, <3>1 DEF PInv, OrderInv
      <4>4. QED
        BY <4>2, <4>3
    <3>3. PICK r \in Threads : Running(r) /\ lifecycle[r].turn = promptTurn[p]
      BY <2>2, <3>2 DEF InProgressIsActive
    <3>4. lifecycle[r].session = threadToSession[t]
      BY <3>1, <3>3 DEF PInv, SessionInv
    <3>5. r = t
      BY <2>2, <3>3, <3>4 DEF PInv, MapInv
    <3>6. promptTurn[p] = u
      BY <1>1, <3>3, <3>5
    <3>7. PICK q \in Prompts : q = activePromptIds[u] /\ p <= q /\ promptTurn[q] = u
      <4>1. p <= activePromptIds[u]
        BY <3>1, <3>2, <3>6 DEF PInv, NewestInv
      <4>2. p \in Prompts /\ activePromptIds[u] \in Prompts \cup {NoPrompt}
        BY <3>1
      <4>3. activePromptIds[u] # NoPrompt /\ activePromptIds[u] \in Prompts
        BY ONLY <4>1, <4>2 DEF NoPrompt, Prompts
      <4>4. QED
        BY <4>1, <4>3 DEF PromptInv
    <3>8. Unanswered(q)
      <4>1. p \in Nat /\ q \in Nat /\ (p = q \/ p < q)
        BY ONLY <3>1, <3>7, ConstantsOK DEF Prompts
      <4>2. CASE p < q
        BY <1>1, <3>1, <3>6, <3>7, <4>2 DEF PInv, OrderInv
      <4>3. QED
        BY <3>1, <4>1, <4>2
    <3>9. QED
      BY <1>1, <3>6, <3>7, <3>8
  <2>3. ASSUME ~MidTurnReset, NEW p \in cancelSeen'
        PROVE  \E q \in interruptAimed' : promptTurn[q] = promptTurn[p] /\ p <= q
    BY <2>2, <2>3, <1>1 DEF PInv, InterruptInv
  <2>4. QED
    BY <1>1, <2>1, <2>3 DEF PInv, InterruptInv
<1>5. QED
  BY <1>2, <1>3, <1>4 DEF PInv
\* The first poll of a prompt task keeps what is known of prompts: it is the
\* oldest task that was not polled.
LEMMA SendStep ==
  ASSUME IInv, PInv, MapInv', NEW p \in Prompts, PromptSend(p) PROVE PInv'
<1> USE ConstantsOK DEF IInv, TypeOK
<1> USE DEF gatewayVars, agentVars, clientVars
<1>1. /\ promptPhase[p] = "spawned" /\ promptPhase'[p] = "outstanding"
      /\ \A q \in Prompts : promptPhase[q] = "spawned" => p <= q
      /\ \A q \in Prompts \ {p} : promptPhase'[q] = promptPhase[q]
      /\ UNCHANGED <<gatewayVars, agentVars, clientVars, promptTurn, promptSession>>
  BY DEF PromptSend, NextToPoll
<1>2. IssuedInv' /\ NewestInv' /\ TurnStateReleased' /\ InterruptInv'
  BY <1>1 DEF PInv, IssuedInv, NewestInv, TurnStateReleased, InterruptInv, InProgress
<1>3. QueueInv'
  <2>1. UNCHANGED internal /\ \A i \in 1..Len(internal) : internal[i] \in Prompts
    BY <1>1
  <2>2. \A q \in Prompts : promptPhase'[q] = "answered" <=> promptPhase[q] = "answered"
    BY <1>1
  <2>3. QED
    BY <2>1, <2>2 DEF PInv, QueueInv
<1>4. PollInv'
  <2>1. SUFFICES ASSUME NEW a \in Prompts, NEW b \in Prompts, a < b,
                        promptPhase'[a] = "spawned"
                 PROVE  promptPhase'[b] \in {"unused", "spawned"}
    BY DEF PollInv
  <2>2. promptPhase[a] = "spawned" /\ p <= a
    BY <1>1, <2>1
  <2>3. b # p
    <3>1. p \in Int /\ a \in Int
      BY DEF Prompts
    <3>2. QED
      BY ONLY <2>1, <2>2, <3>1
  <2>4. promptPhase'[b] = promptPhase[b]
    BY <1>1, <2>3
  <2>5. QED
    BY <2>1, <2>2, <2>4 DEF PInv, PollInv
<1>5. /\ \A q \in Prompts : Unanswered(q)' <=> Unanswered(q)
      /\ \A q \in Prompts : promptPhase'[q] \in Live <=> promptPhase[q] \in Live
  <2>1. \A q \in Prompts :
          \/ promptPhase'[q] = promptPhase[q]
          \/ promptPhase[q] = "spawned" /\ promptPhase'[q] = "outstanding"
    BY <1>1
  <2>2. QED
    BY ONLY <2>1 DEF Unanswered, Live
<1>6. OrderInv' /\ SessionInv'
  <2>1. UNCHANGED <<agentUp, internal, promptTurn, promptSession, turnStatus, lifecycle>>
    BY <1>1
  <2>2. OrderInv'
    BY <1>5, <2>1 DEF PInv, OrderInv, InProgress
  <2>3. SessionInv'
    BY <1>5, <2>1 DEF PInv, SessionInv, Running
  <2>4. QED
    BY <2>2, <2>3
<1>7. QED
  BY <1>2, <1>3, <1>4, <1>6 DEF PInv

\* An answer, or the error a prompt without an agent resolves to, keeps what is
\* known of prompts: every earlier prompt of the turn was answered before it,
\* since the agent has them in one session and was sent them in their order.
LEMMA AnswerStep ==
  ASSUME IInv, PInv, MapInv', NEW p \in Prompts, AgentAnswer(p) \/ PromptFails(p)
  PROVE  PInv'
<1> DEFINE n == Len(internal) + 1
<1> USE ConstantsOK DEF IInv, TypeOK
<1> USE DEF gatewayVars, turnVars, agentVars, clientVars
<1>1. /\ promptPhase[p] \in {"spawned", "outstanding"} /\ promptPhase'[p] = "answered"
      /\ promptPhase[p] = "spawned" => \A q \in Prompts : promptPhase[q] = "spawned" => p <= q
      /\ \A q \in Prompts \ {p} : promptPhase'[q] = promptPhase[q]
      /\ internal' = Append(internal, p)
      /\ UNCHANGED <<turnVars, handler, agentVars, clientVars, promptTurn, promptSession>>
  BY DEF AgentAnswer, PromptFails, NextToPoll, Complete
<1>2. /\ n \in Nat /\ Len(internal') = n /\ internal'[n] = p
      /\ \A i \in 1..Len(internal) : internal'[i] = internal[i] /\ internal[i] # p
      /\ 1..n = 1..Len(internal) \cup {n}
  <2>1. \A i \in 1..Len(internal) : internal[i] # p
    BY <1>1 DEF PInv, QueueInv
  <2>2. Len(internal) \in Nat
    OBVIOUS
  <2>3. QED
    BY <2>1, <2>2, <1>1
<1>3. IssuedInv' /\ NewestInv' /\ TurnStateReleased' /\ InterruptInv'
  BY <1>1 DEF PInv, IssuedInv, NewestInv, TurnStateReleased, InterruptInv, InProgress
<1>4. QueueInv'
  <2>1. \A i \in 1..n : promptPhase'[internal'[i]] = "answered"
    <3>1. \A i \in 1..Len(internal) : internal[i] \in Prompts
      OBVIOUS
    <3>2. QED
      BY <3>1, <1>1, <1>2 DEF PInv, QueueInv
  <2>2. \A i, j \in 1..n : internal'[i] = internal'[j] => i = j
    BY <1>2 DEF PInv, QueueInv
  <2>3. \A q \in Prompts : promptPhase'[q] = "answered" => \E i \in 1..n : internal'[i] = q
    BY <1>1, <1>2 DEF PInv, QueueInv
  <2>4. QED
    BY <1>2, <2>1, <2>2, <2>3 DEF QueueInv
<1>5. PollInv'
  BY <1>1 DEF PInv, PollInv, Prompts
<1>6. OrderInv'
  <2>1. SUFFICES ASSUME agentUp PROVE OrderInv'
    BY <1>1 DEF OrderInv
  <2>2. /\ promptPhase[p] = "outstanding"
        /\ \A q \in AtAgent(promptSession[p]) : p <= q
    BY <2>1 DEF AgentAnswer, PromptFails
  <2>3. \A q \in Prompts : Unanswered(q)' <=> q # p /\ Unanswered(q)
    BY <1>1 DEF Unanswered
  <2>4. ASSUME NEW q \in Prompts, q < p, Unanswered(q), promptTurn[q] = promptTurn[p]
        PROVE  FALSE
    <3>1. CASE promptPhase[q] = "spawned"
      BY <2>2, <2>4, <3>1 DEF PInv, PollInv
    <3>2. CASE promptPhase[q] = "outstanding"
      <4>1. promptSession[q] = promptSession[p]
        BY <2>2, <2>4, <3>2 DEF PInv, SessionInv, Live
      <4>2. p <= q
        BY <2>2, <3>2, <4>1 DEF AtAgent
      <4>3. QED
        BY <2>4, <4>2 DEF Prompts
    <3>3. QED
      BY <2>4, <3>1, <3>2 DEF Unanswered
  <2>5. ASSUME NEW q \in Prompts, NEW r \in Prompts, q < r, Unanswered(q)',
               promptTurn[q] = promptTurn[r]
        PROVE  Unanswered(r)'
    BY <2>1, <2>3, <2>4, <2>5 DEF PInv, OrderInv
  <2>6. ASSUME NEW i \in 1..Len(internal), promptTurn[internal[i]] = promptTurn[p]
        PROVE  internal[i] < p
    <3>1. /\ internal[i] \in Prompts /\ internal[i] # p
          /\ ~Unanswered(internal[i]) /\ Unanswered(p)
      BY <1>1, <1>2 DEF PInv, QueueInv, Unanswered
    <3>2. ~(p < internal[i])
      BY <2>1, <2>6, <3>1 DEF PInv, OrderInv
    <3>3. QED
      BY <3>1, <3>2 DEF Prompts
  <2>7. ASSUME NEW i \in 1..n, NEW j \in 1..n, i < j,
               promptTurn[internal'[i]] = promptTurn[internal'[j]]
        PROVE  internal'[i] < internal'[j]
    <3>1. i \in 1..Len(internal)
      BY <1>2, <2>7
    <3>2. CASE j = n
      BY <1>2, <2>6, <2>7, <3>1, <3>2
    <3>3. CASE j \in 1..Len(internal)
      BY <1>2, <2>1, <2>7, <3>1, <3>3 DEF PInv, OrderInv
    <3>4. QED
      BY <1>2, <3>2, <3>3
  <2>8. \A q \in Prompts : Unanswered(q)' => InProgress(promptTurn[q])'
    BY <1>1, <2>1, <2>3 DEF PInv, OrderInv, InProgress
  <2>9. QED
    BY <1>1, <1>2, <2>5, <2>7, <2>8 DEF OrderInv
<1>7. SessionInv'
  <2>1. \A q \in Prompts : promptPhase'[q] \in Live <=> promptPhase[q] \in Live
    BY <1>1 DEF Live
  <2>2. QED
    BY <1>1, <2>1 DEF PInv, SessionInv, Running
<1>8. QED
  BY <1>3, <1>4, <1>5, <1>6, <1>7 DEF PInv

\* When the agent exits nothing waits for its answer any more.
LEMMA ExitStep ==
  ASSUME PInv, MapInv', AgentExit PROVE PInv'
<1> USE DEF gatewayVars, promptVars, clientVars
<1>1. IssuedInv' /\ NewestInv' /\ TurnStateReleased' /\ QueueInv' /\ PollInv' /\ SessionInv'
  BY DEF AgentExit, PInv, IssuedInv, NewestInv, TurnStateReleased, QueueInv, PollInv,
         SessionInv, InProgress, Running
<1>2. OrderInv' /\ InterruptInv'
  BY DEF AgentExit, OrderInv, InterruptInv
<1>3. QED
  BY <1>1, <1>2 DEF PInv
\* Taking a completion keeps what is known of prompts: the turn it ends has no
\* prompt left without an answer, and an interrupt aimed at that prompt has no
\* other prompt of the turn to reach any more.
LEMMA TakeStep ==
  ASSUME IInv, PInv, MapInv', HandleInternal PROVE PInv'
<1> DEFINE p == Head(internal)
           u == promptTurn[p]
<1> USE ConstantsOK DEF IInv, TypeOK
<1>1. /\ p \in Prompts /\ p = internal[1] /\ internal # <<>>
      /\ Len(internal) \in Nat /\ Len(internal) >= 1
      /\ Len(internal') = Len(internal) - 1
      /\ \A i \in 1..Len(internal') : /\ internal'[i] = internal[i + 1]
                                      /\ i + 1 \in 1..Len(internal)
  BY DEF HandleInternal
<1>2. /\ promptPhase[p] = "answered" /\ promptPhase'[p] = "consumed"
      /\ \A q \in Prompts \ {p} : /\ promptPhase'[q] = promptPhase[q]
                                  /\ promptSession'[q] = promptSession[q]
      /\ cancelSeen' = cancelSeen \ {p} /\ interruptAimed' = interruptAimed \ {p}
      /\ handler = NoHandler
      /\ UNCHANGED <<promptTurn, nextTurn, nextPrompt, agentUp, handler>>
  <2>1. 1 \in 1..Len(internal)
    BY <1>1
  <2>2. promptPhase[p] = "answered"
    BY <1>1, <2>1 DEF PInv, QueueInv
  <2>3. QED
    BY <1>1, <2>2 DEF HandleInternal, Ready
<1>3. \/ UNCHANGED <<turnOutputs, activePromptIds, turnStatus, lifecycle>>
      \/ /\ u \in Turns /\ InProgress(u) /\ turnStatus'[u] # "inProgress" /\ activePromptIds[u] = p
         /\ turnOutputs' = turnOutputs \ {u}
         /\ activePromptIds' = [activePromptIds EXCEPT ![u] = NoPrompt]
         /\ \A v \in Turns \ {u} : turnStatus'[v] = turnStatus[v]
         /\ \A r \in Threads : Running(r)' => Running(r) /\ lifecycle'[r] = lifecycle[r]
  <2>1. CASE UNCHANGED <<turnOutputs, activePromptIds, turnStatus, lifecycle>>
    BY <2>1
  <2>2. ASSUME NEW t \in Threads, EndsTurn(p, t), EndTurn(p, t)
        PROVE  /\ u \in Turns /\ InProgress(u) /\ turnStatus'[u] # "inProgress" /\ activePromptIds[u] = p
               /\ turnOutputs' = turnOutputs \ {u}
               /\ activePromptIds' = [activePromptIds EXCEPT ![u] = NoPrompt]
               /\ \A v \in Turns \ {u} : turnStatus'[v] = turnStatus[v]
               /\ \A r \in Threads : Running(r)' => Running(r) /\ lifecycle'[r] = lifecycle[r]
    <3>1. u \in Turns /\ InProgress(u) /\ activePromptIds[u] = p
      BY <2>2 DEF EndsTurn, ActiveInv
    <3>2. StatusOf(promptOutcome[p]) # "inProgress"
      BY DEF StatusOf
    <3>3. /\ turnStatus'[u] # "inProgress" /\ turnOutputs' = turnOutputs \ {u}
          /\ activePromptIds' = [activePromptIds EXCEPT ![u] = NoPrompt]
          /\ \A v \in Turns \ {u} : turnStatus'[v] = turnStatus[v]
      BY <2>2, <3>1, <3>2 DEF EndTurn, InProgress
    <3>4. ASSUME NEW r \in Threads, Running(r)'
          PROVE  Running(r) /\ lifecycle'[r] = lifecycle[r]
      BY <2>2, <3>4 DEF EndTurn, SetLifecycle, Running, Idle
    <3>5. QED
      BY <3>1, <3>3, <3>4
  <2>3. QED
    BY <2>1, <2>2 DEF HandleInternal
<1>4. IssuedInv'
  BY <1>2 DEF PInv, IssuedInv
<1>5. \A v \in Turns : turnStatus'[v] = "inProgress" =>
                         InProgress(v) /\ activePromptIds'[v] = activePromptIds[v]
  <2>1. CASE UNCHANGED <<activePromptIds, turnStatus>>
    BY <2>1 DEF InProgress
  <2>2. CASE /\ u \in Turns /\ turnStatus'[u] # "inProgress"
             /\ activePromptIds' = [activePromptIds EXCEPT ![u] = NoPrompt]
             /\ \A v \in Turns \ {u} : turnStatus'[v] = turnStatus[v]
    BY <2>2 DEF InProgress
  <2>3. QED
    BY <1>3, <2>1, <2>2
<1>6. \A q \in Prompts : promptTurn[q] \in Turns \/ promptTurn[q] = NoTurn
  OBVIOUS
<1>7. NewestInv'
  <2>1. handler'.op # "turn"
    BY <1>2 DEF NoHandler
  <2>2. ASSUME NEW q \in Prompts, promptTurn[q] # NoTurn,
               turnStatus'[promptTurn[q]] = "inProgress"
        PROVE  q <= activePromptIds'[promptTurn[q]]
    <3>1. promptTurn[q] \in Turns
      BY <1>6, <2>2
    <3>2. /\ InProgress(promptTurn[q])
          /\ activePromptIds'[promptTurn[q]] = activePromptIds[promptTurn[q]]
      BY <1>5, <2>2, <3>1 DEF InProgress
    <3>3. QED
      BY <2>2, <3>2 DEF PInv, NewestInv
  <2>3. QED
    BY <1>2, <2>1, <2>2 DEF NewestInv, InProgress
<1>8. TurnStateReleased'
  <2>1. CASE UNCHANGED <<turnOutputs, activePromptIds, turnStatus>>
    BY <2>1 DEF PInv, TurnStateReleased, InProgress
  <2>2. CASE /\ u \in Turns /\ turnStatus'[u] # "inProgress"
             /\ turnOutputs' = turnOutputs \ {u}
             /\ activePromptIds' = [activePromptIds EXCEPT ![u] = NoPrompt]
             /\ \A v \in Turns \ {u} : turnStatus'[v] = turnStatus[v]
    BY <2>2 DEF PInv, TurnStateReleased, InProgress
  <2>3. QED
    BY <1>3, <2>1, <2>2
<1>9. \A i, j \in 1..Len(internal) : internal[i] = internal[j] => i = j
  BY DEF PInv, QueueInv
<1>10. \A i \in 1..Len(internal') : internal'[i] # p
  <2>1. ASSUME NEW i \in 1..Len(internal'), internal'[i] = p PROVE FALSE
    <3>1. i + 1 \in 1..Len(internal) /\ 1 \in 1..Len(internal)
      BY <1>1
    <3>2. i + 1 = 1
      BY <1>1, <1>9, <2>1, <3>1
    <3>3. QED
      BY <3>2
  <2>2. QED
    BY <2>1
<1>11. \A q \in Prompts \ {p} : promptPhase[q] = "answered" =>
         \E i \in 1..Len(internal') : internal'[i] = q
  <2>1. ASSUME NEW q \in Prompts \ {p}, promptPhase[q] = "answered"
        PROVE  \E i \in 1..Len(internal') : internal'[i] = q
    <3>1. PICK j \in 1..Len(internal) : internal[j] = q
      BY <2>1 DEF PInv, QueueInv
    <3>2. j # 1
      BY <1>1, <3>1
    <3>3. j - 1 \in 1..Len(internal') /\ (j - 1) + 1 = j
      BY <1>1, <3>1, <3>2
    <3>4. QED
      BY <1>1, <3>1, <3>3
  <2>2. QED
    BY <2>1
<1>12. QueueInv'
  <2>1. \A i \in 1..Len(internal') : promptPhase'[internal'[i]] = "answered"
    <3>1. ASSUME NEW i \in 1..Len(internal') PROVE promptPhase'[internal'[i]] = "answered"
      <4>1. internal'[i] = internal[i + 1] /\ i + 1 \in 1..Len(internal)
        BY <1>1
      <4>2. internal[i + 1] \in Prompts /\ promptPhase[internal[i + 1]] = "answered"
        BY <4>1 DEF PInv, QueueInv
      <4>3. internal'[i] # p
        BY <1>10
      <4>4. QED
        BY <1>2, <4>1, <4>2, <4>3
    <3>2. QED
      BY <3>1
  <2>2. ASSUME NEW i \in 1..Len(internal'), NEW j \in 1..Len(internal'),
               internal'[i] = internal'[j]
        PROVE  i = j
    <3>1. i + 1 = j + 1
      BY <1>1, <1>9, <2>2
    <3>2. QED
      BY <1>1, <3>1
  <2>3. \A q \in Prompts : promptPhase'[q] = "answered" =>
          \E i \in 1..Len(internal') : internal'[i] = q
    BY <1>2, <1>11
  <2>4. QED
    BY <2>1, <2>2, <2>3 DEF QueueInv
<1>13. PollInv'
  BY <1>2 DEF PInv, PollInv
<1>14. \A q \in Prompts : Unanswered(q)' <=> Unanswered(q)
  BY <1>2 DEF Unanswered
<1>15. ASSUME agentUp, NEW q \in Prompts, Unanswered(q), InProgress(u),
              activePromptIds[u] = p, promptTurn[q] = u
       PROVE  FALSE
  <2>1. u # NoTurn
    BY <1>15 DEF PInv, IssuedInv, Unanswered, NoTurn
  <2>2. q <= p /\ q # p
    BY <1>2, <1>15, <2>1 DEF PInv, NewestInv, Unanswered
  <2>3. q < p
    BY <1>1, <2>2 DEF Prompts
  <2>4. QED
    BY <1>1, <1>2, <1>15, <2>3 DEF PInv, OrderInv, Unanswered
<1>16. OrderInv'
  <2>1. SUFFICES ASSUME agentUp PROVE OrderInv'
    BY <1>2 DEF OrderInv
  <2>2. ASSUME NEW q \in Prompts, Unanswered(q) PROVE InProgress(promptTurn[q])'
    <3>1. InProgress(promptTurn[q])
      BY <2>1, <2>2 DEF PInv, OrderInv
    <3>2. CASE UNCHANGED turnStatus
      BY <3>1, <3>2, <1>2 DEF InProgress
    <3>3. CASE promptTurn[q] # u /\ promptTurn[q] \in Turns
      BY <1>2, <1>3, <3>1, <3>3 DEF InProgress
    <3>4. promptTurn[q] # NoTurn
      BY <2>2 DEF PInv, IssuedInv, Unanswered, NoTurn
    <3>5. QED
      BY <1>3, <1>6, <1>15, <2>1, <2>2, <3>2, <3>3, <3>4
  <2>3. ASSUME NEW i \in 1..Len(internal'), NEW j \in 1..Len(internal'), i < j,
               promptTurn[internal'[i]] = promptTurn[internal'[j]]
        PROVE  internal'[i] < internal'[j]
    <3>1. i + 1 < j + 1 /\ i + 1 \in 1..Len(internal) /\ j + 1 \in 1..Len(internal)
      BY <1>1, <2>3
    <3>2. internal'[i] = internal[i + 1] /\ internal'[j] = internal[j + 1]
      BY <1>1
    <3>3. \A k, l \in 1..Len(internal) :
            k < l /\ promptTurn[internal[k]] = promptTurn[internal[l]] => internal[k] < internal[l]
      BY <2>1 DEF PInv, OrderInv
    <3>4. QED
      BY ONLY <2>3, <3>1, <3>2, <3>3
  <2>4. QED
    BY <1>2, <1>14, <2>1, <2>2, <2>3 DEF PInv, OrderInv
<1>17. SessionInv'
  <2>1. \A q \in Prompts : promptPhase'[q] \in Live => /\ promptPhase[q] \in Live
                                                        /\ promptSession'[q] = promptSession[q]
    BY <1>2 DEF Live
  <2>2. \A r \in Threads : Running(r)' => Running(r) /\ lifecycle'[r] = lifecycle[r]
    BY <1>3 DEF Running
  <2>3. QED
    BY <1>2, <2>1, <2>2 DEF PInv, SessionInv
<1>18. InterruptInv'
  <2>1. ASSUME ~MidTurnReset, NEW c \in cancelSeen, c # p
        PROVE  \E q \in interruptAimed \ {p} : promptTurn[q] = promptTurn[c] /\ c <= q
    <3>1. PICK q \in interruptAimed : promptTurn[q] = promptTurn[c] /\ c <= q
      BY <2>1 DEF PInv, InterruptInv
    <3>2. agentUp /\ c \in Prompts /\ promptPhase[c] \in {"outstanding", "answered"}
      BY DEF PInv, InterruptInv
    <3>3. ASSUME q = p PROVE FALSE
      <4>1. c < p /\ promptTurn[c] = promptTurn[p]
        BY <1>1, <2>1, <3>1, <3>2, <3>3 DEF Prompts
      <4>2. CASE promptPhase[c] = "outstanding"
        BY <1>1, <1>2, <3>2, <4>1, <4>2 DEF PInv, OrderInv, Unanswered
      <4>3. CASE promptPhase[c] = "answered"
        <5>1. PICK i \in 1..Len(internal) : internal[i] = c
          BY <3>2, <4>3 DEF PInv, QueueInv
        <5>2. 1 < i /\ 1 \in 1..Len(internal)
          BY <1>1, <2>1, <5>1
        <5>3. p < c
          BY <1>1, <3>2, <4>1, <5>1, <5>2 DEF PInv, OrderInv
        <5>4. QED
          BY <1>1, <3>2, <4>1, <5>3 DEF Prompts
      <4>4. QED
        BY <3>2, <4>2, <4>3
    <3>4. QED
      BY <3>1, <3>3
  <2>2. \A c \in cancelSeen' : c \in cancelSeen /\ c # p /\ promptPhase'[c] = promptPhase[c]
    BY <1>2
  <2>3. \A c \in cancelSeen' : promptPhase'[c] \in {"outstanding", "answered"}
    BY <2>2 DEF PInv, InterruptInv
  <2>4. ~agentUp' => cancelSeen' = {}
    BY <1>2 DEF PInv, InterruptInv
  <2>5. QED
    BY <1>2, <2>1, <2>2, <2>3, <2>4 DEF InterruptInv
<1>19. QED
  BY <1>4, <1>7, <1>8, <1>12, <1>13, <1>16, <1>17, <1>18 DEF PInv
LEMMA InitPInv == Init => PInv
<1> SUFFICES ASSUME Init PROVE PInv
  OBVIOUS
<1> USE ConstantsOK
<1>1. \A p \in Prompts : promptPhase[p] = "unused" /\ promptTurn[p] = NoTurn /\ ~(p < nextPrompt)
  BY DEF Init, Prompts
<1>2. \A u \in Turns : activePromptIds[u] = NoPrompt /\ ~InProgress(u)
  BY DEF Init, InProgress
<1>3. /\ internal = <<>> /\ Len(internal) = 0 /\ cancelSeen = {} /\ turnOutputs = {}
      /\ handler.op # "turn"
  BY DEF Init, NoHandler
<1>4. IssuedInv /\ NewestInv /\ TurnStateReleased
  BY <1>1, <1>2, <1>3 DEF IssuedInv, NewestInv, TurnStateReleased
<1>5. QueueInv /\ PollInv /\ OrderInv
  BY <1>1, <1>3 DEF QueueInv, PollInv, OrderInv, Unanswered
<1>6. SessionInv /\ InterruptInv
  BY <1>1, <1>3 DEF SessionInv, InterruptInv, Live
<1>7. MapInv
  <2>1. /\ threadToSession \in [Threads -> Sessions \cup {None}]
        /\ \A t, r \in Threads : t # r /\ threadToSession[t] # None
                                    => threadToSession[t] # threadToSession[r]
        /\ \A t \in Threads : lifecycle[t].state = "Uninitialized"
    BY DEF Init, Plain
  <2>2. \A t \in Threads : threadToSession[t] # None => threadToSession[t] \in agentSessions
    BY DEF Init
  <2>3. \A t \in Threads : threadToSession[t] \notin Threads
    BY <2>1 DEF SessionIds
  <2>4. QED
    BY <2>1, <2>2, <2>3 DEF MapInv, Running
<1>8. QED
  BY <1>4, <1>5, <1>6, <1>7 DEF PInv

\* Every step keeps what is known of prompts.
LEMMA NextPInv == IInv /\ PInv /\ [Next]_vars => PInv'
<1> SUFFICES ASSUME IInv, PInv, [Next]_vars PROVE PInv'
  OBVIOUS
<1>0. IInv' /\ MapInv' /\ TypeOK /\ HandlerInv
  <2>1. IInv'
    BY NextIInv
  <2>2. QED
    BY <2>1, MapStep DEF PInv, IInv
<1> USE DEF turnVars, restVars, promptVars, agentVars, clientVars, gatewayVars
<1>1. CASE Initialize \/ Query
  BY <1>0, <1>1, FrameStep DEF Initialize, Query, Awaiting
<1>2. CASE AwaitReturns \/ Initialized
  BY <1>0, <1>2, FrameStep DEF AwaitReturns, Initialized, Resumed, NoHandler
<1>3. ASSUME NEW t \in Threads, NEW l, l.state # "InTurn", SetLifecycle(t, l),
             handler' = NoHandler \/ \E op \in {"start", "fork", "resume"} : Awaiting(op, t),
             UNCHANGED restVars
      PROVE  PInv'
  <2>1. \A r \in Threads : Running(r)' => lifecycle'[r] = lifecycle[r]
    BY <1>0, <1>3 DEF TypeOK, SetLifecycle, Running
  <2>2. handler'.op # "turn"
    BY <1>3 DEF Awaiting, NoHandler
  <2>3. QED
    BY <1>0, <1>3, <2>1, <2>2, FrameStep
<1>4. ASSUME NEW t \in Threads,
             \/ ThreadStart(t) \/ ThreadResume(t) \/ ThreadArchive(t)
             \/ \E source \in Threads : ThreadFork(source, t)
      PROVE  PInv'
  BY <1>3, <1>4 DEF ThreadStart, ThreadFork, ThreadResume, ThreadArchive, Ready, Plain
<1>5. CASE ThreadStarted \/ ThreadForked \/ ThreadRolledBack \/ ThreadResumed
  <2>1. /\ handler.op \in {"start", "fork", "rollback", "resume"}
        /\ handler' = NoHandler
    BY <1>5 DEF ThreadStarted, ThreadForked, ThreadRolledBack, ThreadResumed, Resumed
  <2>2. handler.thread \in Threads
    BY <2>1, <1>0 DEF HandlerInv
  <2>3. PICK s : SetLifecycle(handler.thread, Idle(s))
    BY <1>5 DEF ThreadStarted, ThreadForked, ThreadRolledBack, ThreadResumed, OnNewSession
  <2>4. UNCHANGED restVars
    BY <1>5 DEF ThreadStarted, ThreadForked, ThreadRolledBack, ThreadResumed
  <2>5. QED
    BY <1>3, <2>1, <2>2, <2>3, <2>4 DEF Idle
<1>6. ASSUME NEW t \in Threads, ThreadRollback(t) \/ ThreadUnarchive(t) PROVE PInv'
  BY <1>0, <1>6, FrameStep DEF ThreadRollback, ThreadUnarchive, Ready, Awaiting, NoHandler
<1>7. ASSUME NEW t \in Threads, TurnStart(t) PROVE PInv'
  <2>1. CASE UNCHANGED <<activePromptIds, nextPrompt, promptVars>>
    BY <1>0, <1>7, <2>1, SuspendStep
  <2>2. CASE IssuePrompt(nextTurn, threadToSession[t]) /\ UNCHANGED handler
    <3>1. /\ nextTurn \in Turns /\ nextPrompt <= MaxPrompts
          /\ nextTurn' = nextTurn + 1 /\ nextTurn \in Nat
      BY <1>0, <1>7, ConstantsOK DEF TurnStart, TypeOK, Turns
    <3>2. /\ lifecycle'[t] = InTurn(threadToSession[t], nextTurn)
          /\ \A r \in Threads \ {t} : lifecycle'[r] = lifecycle[r]
      BY <1>0, <1>7 DEF TurnStart, SetLifecycle, TypeOK
    <3>3. /\ Running(t)' /\ lifecycle'[t].turn = nextTurn
          /\ lifecycle'[t].session = threadToSession[t]
      BY <3>2 DEF InTurn, Running
    <3>4. ASSUME NEW p \in Prompts PROVE promptTurn[p] # nextTurn
      <4>1. promptTurn[p] \in 1..(nextTurn - 1) \/ promptTurn[p] = NoTurn
        BY DEF PInv, IssuedInv
      <4>2. nextTurn \in Int /\ nextTurn # NoTurn
        BY <1>0, ConstantsOK DEF TypeOK, NoTurn
      <4>3. QED
        BY <4>1, <4>2
    <3>5. /\ turnStatus' = [turnStatus EXCEPT ![nextTurn] = "inProgress"]
          /\ turnOutputs' = turnOutputs \cup {nextTurn}
          /\ handler' = NoHandler
          /\ UNCHANGED <<internal, cancelSeen, interruptAimed, agentUp>>
      BY <1>7, <2>2 DEF TurnStart, Ready
    <3>6. nextTurn <= nextTurn' /\ nextTurn < nextTurn'
      BY <3>1
    <3>7. QED
      BY <1>0, <2>2, <3>1, <3>2, <3>3, <3>4, <3>5, <3>6, IssueStep
  <2>3. QED
    BY <1>7, <2>1, <2>2 DEF TurnStart
<1>8. ASSUME NEW t \in Threads, Running(t), nextPrompt <= MaxPrompts, handler' = NoHandler,
             IssuePrompt(lifecycle[t].turn, lifecycle[t].session),
             UNCHANGED <<lifecycle, turnOutputs, internal, nextTurn, agentVars, clientVars>>
      PROVE  PInv'
  <2> DEFINE u == lifecycle[t].turn
             s == lifecycle[t].session
  <2>1. u \in Turns /\ u < nextTurn /\ InProgress(u)
    BY <1>0, <1>8 DEF IInv, ActiveInv
  <2>2. /\ turnStatus' = [turnStatus EXCEPT ![u] = "inProgress"]
        /\ turnOutputs' = turnOutputs \cup {u}
    BY <1>0, <1>8, <2>1 DEF TypeOK, InProgress, PInv, TurnStateReleased
  <2>3. \A p \in Prompts : promptPhase[p] \in Live /\ promptTurn[p] = u => promptSession[p] = s
    BY <1>8 DEF PInv, SessionInv
  <2>4. Running(t)' /\ lifecycle'[t].turn = u /\ lifecycle'[t].session = s
    BY <1>8 DEF Running
  <2>5. nextTurn <= nextTurn' /\ u < nextTurn'
    BY <1>0, <1>8, <2>1, ConstantsOK DEF TypeOK
  <2>6. QED
    BY <1>0, <1>8, <2>1, <2>2, <2>3, <2>4, <2>5, IssueStep
<1>9. CASE TurnModeSet
  <2>1. /\ handler.thread \in Threads /\ Running(handler.thread)
        /\ nextPrompt <= MaxPrompts /\ handler' = NoHandler
    BY <1>0, <1>9 DEF TurnModeSet, Resumed, HandlerInv
  <2>2. QED
    BY <1>8, <1>9, <2>1 DEF TurnModeSet
<1>10. ASSUME NEW t \in Threads, NEW u \in Turns, TurnSteer(t, u) PROVE PInv'
  BY <1>8, <1>10 DEF TurnSteer, Addresses, Ready
<1>11. ASSUME NEW t \in Threads, NEW u \in Turns, TurnInterrupt(t, u) PROVE PInv'
  BY <1>0, <1>11, InterruptStep
<1>12. ASSUME NEW p \in Prompts, PromptStep(p) PROVE PInv'
  BY <1>0, <1>12, SendStep, AnswerStep DEF PromptStep
<1>13. CASE HandleInternal
  BY <1>0, <1>13, TakeStep
<1>14. CASE AgentExit
  BY <1>0, <1>14, ExitStep
<1>15. CASE AgentGone \/ ClientGone \/ UNCHANGED vars
  BY <1>0, <1>15, FrameStep DEF AgentGone, ClientGone, LoopEnds, vars
<1>16. QED
  BY <1>1, <1>2, <1>4, <1>5, <1>6, <1>7, <1>9, <1>10, <1>11, <1>12, <1>13, <1>14,
     <1>15 DEF Next, ClientRequest, AgentReply

LEMMA PInvariance == Spec => [](IInv /\ PInv)
  BY InitIInv, InitPInv, NextIInv, NextPInv, PTL DEF Spec

-----------------------------------------------------------------------------
(* What follows for prompts, answers and interrupts.                         *)

\* Whatever the client asks for in a turn, what handle_internal_event releases
\* is what turn/start acquired: outputs are held exactly for the turns in
\* progress, and no prompt id is held for a turn that ended.
THEOREM TurnStateIsReleased == Spec => []TurnStateReleased
<1>1. PInv => TurnStateReleased
  BY DEF PInv
<1>2. QED
  BY <1>1, PInvariance, PTL

\* NewestPrompt is what it says, and what IInv and PInv know the active prompt by.
LEMMA NewestIsActive ==
  ASSUME IInv, PInv, NEW u \in Turns, InProgress(u), activePromptIds[u] # NoPrompt
  PROVE  NewestPrompt(u) = activePromptIds[u]
<1> DEFINE n == activePromptIds[u]
           Newest(p) == /\ promptTurn[p] = u
                        /\ \A q \in Prompts : promptTurn[q] = u => q <= p
<1>1. n \in Prompts /\ promptTurn[n] = u
  BY DEF IInv, TypeOK, PromptInv
<1>2. u # NoTurn
  BY ConstantsOK DEF Turns, NoTurn
<1>3. \A q \in Prompts : promptTurn[q] = u => q <= n
  BY <1>2 DEF PInv, NewestInv
<1>4. \A p \in Prompts : Newest(p) => p = n
  BY <1>1, <1>3, ConstantsOK DEF Prompts
<1>5. NewestPrompt(u) = CHOOSE p \in Prompts : Newest(p)
  BY <1>1 DEF NewestPrompt
<1>6. QED
  BY <1>1, <1>3, <1>4, <1>5

\* Steering leaves prompts behind, whose completions may come late: a turn ends
\* with the completion of the newest prompt issued for it and with what
\* translate_prompt_response makes of that one.
THEOREM NewestPromptEnds == Spec => EndedByNewestPrompt
<1> DEFINE Ended == \A u \in Turns : InProgress(u) /\ turnStatus'[u] # "inProgress" =>
                      /\ internal # <<>>
                      /\ Head(internal) = NewestPrompt(u)
                      /\ turnStatus'[u] = StatusOf(promptOutcome[Head(internal)])
<1>1. ASSUME IInv, PInv, [Next]_vars PROVE [Ended]_turnStatus
  <2>1. CASE UNCHANGED turnStatus
    BY <2>1
  <2>2. ASSUME NEW t \in Threads, TurnStart(t) PROVE Ended
    <3>1. turnStatus' = [turnStatus EXCEPT ![nextTurn] = "inProgress"]
      BY <2>2 DEF TurnStart
    <3>2. QED
      BY <1>1, <3>1 DEF IInv, TypeOK, InProgress
  <2>3. ASSUME HandleInternal, ~UNCHANGED turnStatus,
               NEW u \in Turns, InProgress(u), turnStatus'[u] # "inProgress"
        PROVE  /\ internal # <<>>
               /\ Head(internal) = NewestPrompt(u)
               /\ turnStatus'[u] = StatusOf(promptOutcome[Head(internal)])
    <3> DEFINE p == Head(internal)
    <3>1. PICK t \in Threads : EndsTurn(p, t) /\ EndTurn(p, t)
      BY <2>3 DEF HandleInternal
    <3>2. /\ internal # <<>> /\ p \in Prompts /\ activePromptIds[promptTurn[p]] = p
          /\ turnStatus' = [turnStatus EXCEPT ![promptTurn[p]] = StatusOf(promptOutcome[p])]
      BY <1>1, <2>3, <3>1 DEF HandleInternal, EndsTurn, EndTurn, IInv, TypeOK
    <3>3. promptTurn[p] = u /\ turnStatus'[u] = StatusOf(promptOutcome[p])
      BY <1>1, <2>3, <3>2 DEF IInv, TypeOK, InProgress
    <3>4. activePromptIds[u] = p /\ p # NoPrompt
      BY <3>2, <3>3, ConstantsOK DEF Prompts, NoPrompt
    <3>5. NewestPrompt(u) = p
      BY <1>1, <2>3, <3>4, NewestIsActive
    <3>6. QED
      BY <3>2, <3>3, <3>5
  <2>4. QED
    BY <1>1, <2>1, <2>2, <2>3, StatusSteps
<1>2. QED
  BY <1>1, PInvariance, PTL DEF Spec, EndedByNewestPrompt

\* No answer is lost: once the loop has taken the completion of the newest
\* prompt of a turn, handle_internal_event has ended the turn.
THEOREM NoAnswerIsLost ==
  ASSUME ~MidTurnReset PROVE Spec => []AnswerEndsTurn
<1>1. ASSUME IInv, PInv PROVE AnswerEndsTurn
  <2> SUFFICES ASSUME NEW u \in Turns, NEW p \in Prompts, p = NewestPrompt(u),
                      promptPhase[p] = "consumed", InProgress(u)
               PROVE  FALSE
    BY DEF AnswerEndsTurn
  <2>1. PICK t \in Threads : Running(t) /\ lifecycle[t].turn = u
    BY <1>1 DEF IInv, InProgressIsActive
  <2>2. CASE handler.op = "turn" /\ handler.thread = t
    <3>1. activePromptIds[u] = NoPrompt /\ u # NoTurn
      BY <1>1, <2>1, <2>2, ConstantsOK DEF PInv, NewestInv, Turns, NoTurn
    <3>2. ASSUME NEW q \in Prompts PROVE promptTurn[q] # u
      BY <1>1, <3>1, ConstantsOK DEF PInv, NewestInv, NoPrompt, Prompts
    <3>3. NewestPrompt(u) = NoPrompt
      BY <3>2 DEF NewestPrompt
    <3>4. QED
      BY <3>3, ConstantsOK DEF NoPrompt, Prompts
  <2>3. CASE \E q \in Prompts : /\ activePromptIds[u] = q
                                /\ promptPhase[q] \in {"spawned", "outstanding", "answered"}
    <3>1. activePromptIds[u] # NoPrompt
      BY <2>3, ConstantsOK DEF NoPrompt, Prompts
    <3>2. NewestPrompt(u) = activePromptIds[u]
      BY <1>1, <3>1, NewestIsActive
    <3>3. QED
      BY <2>3, <3>2
  <2>4. QED
    BY <1>1, <2>1, <2>2, <2>3 DEF IInv, ActiveTurnIsLive
<1>2. QED
  BY <1>1, PInvariance, PTL

\* validate_turn_start_lifecycle keeps the turns of a thread apart, and the map
\* of sessions keeps the threads apart: what the agent is prompted for in one
\* session and has not answered is of one turn.
THEOREM OneTurnAtTheAgent ==
  ASSUME ~MidTurnReset PROVE Spec => []OneTurnPerSession
<1>1. ASSUME IInv, PInv PROVE OneTurnPerSession
  <2> SUFFICES ASSUME agentUp, NEW p \in Prompts, NEW q \in Prompts, Unanswered(p),
                      Unanswered(q), promptSession[p] = promptSession[q]
               PROVE  promptTurn[p] = promptTurn[q]
    BY DEF OneTurnPerSession
  <2>1. ASSUME NEW x \in Prompts, Unanswered(x)
        PROVE  \E t \in Threads : /\ Running(t) /\ lifecycle[t].turn = promptTurn[x]
                                  /\ threadToSession[t] # None
                                  /\ promptSession[x] = threadToSession[t]
    <3>1. promptTurn[x] \in Turns
      <4>1. promptTurn[x] # NoTurn
        BY <1>1, <2>1, ConstantsOK DEF PInv, IssuedInv, Unanswered, NoTurn
      <4>2. QED
        BY <1>1, <4>1 DEF IInv, TypeOK
    <3>2. InProgress(promptTurn[x])
      BY <1>1, <2>1 DEF PInv, OrderInv
    <3>3. PICK t \in Threads : Running(t) /\ lifecycle[t].turn = promptTurn[x]
      BY <1>1, <3>1, <3>2 DEF IInv, InProgressIsActive
    <3>4. promptSession[x] = lifecycle[t].session
      BY <1>1, <2>1, <3>3 DEF PInv, SessionInv, Unanswered, Live
    <3>5. QED
      BY <1>1, <3>3, <3>4 DEF PInv, MapInv
  <2>2. PICK t \in Threads : /\ Running(t) /\ lifecycle[t].turn = promptTurn[p]
                             /\ threadToSession[t] # None
                             /\ promptSession[p] = threadToSession[t]
    BY <2>1
  <2>3. PICK r \in Threads : /\ Running(r) /\ lifecycle[r].turn = promptTurn[q]
                             /\ threadToSession[r] # None
                             /\ promptSession[q] = threadToSession[r]
    BY <2>1
  <2>4. t = r
    BY <1>1, <2>2, <2>3 DEF PInv, MapInv
  <2>5. QED
    BY <2>2, <2>3, <2>4
<1>2. QED
  BY <1>1, PInvariance, PTL

\* session/cancel names a session, turn/interrupt a turn: a cancel reaches only
\* prompts of a turn an interrupt was acknowledged for.
THEOREM InterruptsAreIsolated ==
  ASSUME ~MidTurnReset PROVE Spec => []InterruptIsolation
<1>1. PInv => InterruptIsolation
  BY DEF PInv, InterruptInv, InterruptIsolation
<1>2. QED
  BY <1>1, PInvariance, PTL
=============================================================================
