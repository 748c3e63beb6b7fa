---------------------------- MODULE TaskIdentity ----------------------------
(***************************************************************************)
(* Who a Grok task is, across everything that remembers it: the routes of  *)
(* the hybrid multiplexer (RouteStore, src/src/hybrid.rs), the map from    *)
(* threads to ACP sessions of the Grok adapter (IdMap), the sessions the   *)
(* agent keeps, and what the client was told.  Each of the two maps is     *)
(* loaded when its process starts and written as a whole at every change;  *)
(* a bridge is the multiplexer with its adapter, and several of them share *)
(* the files of one home directory.                                        *)
(*                                                                         *)
(* The adapter's answers reach the multiplexer in order through a pipe,    *)
(* and a bridge may stop between the adapter's step and the multiplexer's. *)
(* A request the adapter refuses changes nothing and is left out.          *)
(***************************************************************************)
EXTENDS Naturals, Sequences, FiniteSets

CONSTANTS
  Bridges,     \* bridge processes that share a home directory
  Threads,     \* thread ids new_thread_id makes
  Sessions,    \* ACP session ids the agent makes
  None,        \* no entry
  Forks,       \* whether the client forks tasks
  Rollbacks,   \* whether the client rolls tasks back
  MaxPipe      \* bound on the answers between the adapter and the multiplexer

Ids == Threads \cup Sessions    \* what the client may know a task by

ASSUME IdentityConstants ==
  /\ Threads \cap Sessions = {}
  /\ None \notin Ids
  /\ Forks \in BOOLEAN
  /\ Rollbacks \in BOOLEAN
  /\ MaxPipe \in Nat

VARIABLES
  up,              \* the bridges that run
  routes,          \* RouteStore.file of each: acp_session_id by thread id
  threadToSession, \* IdMap.thread_to_session of each
  sessionToThread, \* IdMap.session_to_thread of each
  pipe,            \* the adapter's answers the multiplexer has not read yet
  diskRoutes,      \* routes.json of the multiplexers
  diskSessions,    \* routes.json of the adapters
  agentSessions,   \* the sessions session/list shows and session/load opens
  minted,          \* thread ids taken
  rollouts,        \* threads with a rollout file
  known            \* the Grok tasks each bridge's client was told of

bridgeVars == <<up, routes, threadToSession, sessionToThread, pipe>>
diskVars   == <<diskRoutes, diskSessions, agentSessions, minted, rollouts>>
vars == <<up, routes, threadToSession, sessionToThread, pipe, diskRoutes,
          diskSessions, agentSessions, minted, rollouts, known>>

RouteFile   == [Ids -> Sessions \cup {None}]
SessionFile == [Ids -> Sessions \cup {None}]
Answers ==
  [kind : {"start", "resume", "fork", "rollback"}, id : Ids, session : Sessions]
    \cup [kind : {"list"}, sessions : SUBSET Sessions]

TypeOK ==
  /\ up \subseteq Bridges
  /\ routes \in [Bridges -> RouteFile]
  /\ threadToSession \in [Bridges -> SessionFile]
  /\ sessionToThread \in [Bridges -> [Sessions -> Ids \cup {None}]]
  /\ pipe \in [Bridges -> Seq(Answers)]
  /\ diskRoutes \in RouteFile
  /\ diskSessions \in SessionFile
  /\ agentSessions \subseteq Sessions
  /\ minted \subseteq Threads
  /\ rollouts \subseteq Threads
  /\ known \in [Bridges -> SUBSET Ids]

Empty == [id \in Ids |-> None]

Init ==
  /\ up = {}
  /\ routes = [b \in Bridges |-> Empty]
  /\ threadToSession = [b \in Bridges |-> Empty]
  /\ sessionToThread = [b \in Bridges |-> [s \in Sessions |-> None]]
  /\ pipe = [b \in Bridges |-> <<>>]
  /\ diskRoutes = Empty
  /\ diskSessions = Empty
  /\ agentSessions = {}
  /\ minted = {}
  /\ rollouts = {}
  /\ known = [b \in Bridges |-> {}]

-----------------------------------------------------------------------------
(* The bridge process.                                                     *)

\* session_to_thread is rebuilt from the saved map; where two threads have
\* the same session, the one that HashMap yields last stays.
ReverseOf(sessionOf, reverse) ==
  \A s \in Sessions :
    LET owners == {id \in Ids : sessionOf[id] = s}
    IN  reverse[s] \in IF owners = {} THEN {None} ELSE owners

\* mistake: the process begins with no routes
LaunchAfresh(b) ==
  /\ b \notin up
  /\ up' = up \cup {b}
  /\ routes' = [routes EXCEPT ![b] = Empty]
  /\ threadToSession' = [threadToSession EXCEPT ![b] = Empty]
  /\ UNCHANGED <<sessionToThread, pipe, known, diskVars>>

Launch(b) ==
  /\ b \notin up
  /\ up' = up \cup {b}
  /\ routes' = [routes EXCEPT ![b] = diskRoutes]
  /\ threadToSession' = [threadToSession EXCEPT ![b] = diskSessions]
  /\ \E reverse \in [Sessions -> Ids \cup {None}] :
       /\ ReverseOf(diskSessions, reverse)
       /\ sessionToThread' = [sessionToThread EXCEPT ![b] = reverse]
  /\ UNCHANGED <<pipe, known, diskVars>>

\* The client closes the bridge, a child exits, or the process is killed:
\* answers on their way are lost, and so is what was only in memory.
Stop(b) ==
  /\ b \in up
  /\ up' = up \ {b}
  /\ pipe' = [pipe EXCEPT ![b] = <<>>]
  /\ routes' = [routes EXCEPT ![b] = Empty]
  /\ threadToSession' = [threadToSession EXCEPT ![b] = Empty]
  /\ sessionToThread' = [sessionToThread EXCEPT ![b] = [s \in Sessions |-> None]]
  /\ UNCHANGED <<known, diskVars>>

-----------------------------------------------------------------------------
(* The adapter.  A request for a task gets here when the multiplexer has a *)
(* route for it, and goes to native Codex when it has none.                *)

RoutedToGrok(b, id) == id \in known[b] /\ routes[b][id] # None

\* IdMap::persist only warns when it cannot write the file, which then stays as it was:
\* the new one is renamed over it.  The next save writes what this one did not.
CreateThreadSessionMapping(b, id, s) ==
  LET mapped == [threadToSession[b] EXCEPT ![id] = s] IN
  /\ threadToSession' = [threadToSession EXCEPT ![b] = mapped]
  /\ sessionToThread' = [sessionToThread EXCEPT ![b][s] = id]
  /\ diskSessions' \in {mapped, diskSessions}

Answer(b, a) ==
  /\ b \in up
  /\ Len(pipe[b]) < MaxPipe
  /\ pipe' = [pipe EXCEPT ![b] = Append(@, a)]

ThreadStart(b) ==
  \E t \in Threads \ minted, s \in Sessions \ agentSessions :
    /\ Answer(b, [kind |-> "start", id |-> t, session |-> s])
    /\ CreateThreadSessionMapping(b, t, s)
    /\ agentSessions' = agentSessions \cup {s}
    /\ minted' = minted \cup {t}
    /\ rollouts' = rollouts \cup {t}
    /\ UNCHANGED <<up, routes, diskRoutes, known>>

\* Without a mapping the thread id is taken for the session id.
SessionToResume(b, id) ==
  IF threadToSession[b][id] # None THEN threadToSession[b][id] ELSE id

ThreadResume(b, id) ==
  LET s == SessionToResume(b, id) IN
  /\ RoutedToGrok(b, id)
  /\ s \in agentSessions
  /\ Answer(b, [kind |-> "resume", id |-> id, session |-> s])
  /\ IF threadToSession[b][id] = None
       THEN CreateThreadSessionMapping(b, id, s)
       ELSE UNCHANGED <<threadToSession, sessionToThread, diskSessions>>
  /\ UNCHANGED <<up, routes, diskRoutes, agentSessions, minted, rollouts, known>>

\* mistake: the source, and not the copy, is mapped to the new session
ForkTakesOver(b, id) ==
  /\ Forks
  /\ RoutedToGrok(b, id)
  /\ id \in rollouts
  /\ \E t \in Threads \ minted, s \in Sessions \ agentSessions :
       /\ Answer(b, [kind |-> "fork", id |-> t, session |-> s])
       /\ CreateThreadSessionMapping(b, id, s)
       /\ agentSessions' = agentSessions \cup {s}
       /\ minted' = minted \cup {t}
       /\ rollouts' = rollouts \cup {t}
  /\ UNCHANGED <<up, routes, diskRoutes, known>>

ThreadFork(b, id) ==
  /\ Forks
  /\ RoutedToGrok(b, id)
  /\ id \in rollouts
  /\ \E t \in Threads \ minted, s \in Sessions \ agentSessions :
       /\ Answer(b, [kind |-> "fork", id |-> t, session |-> s])
       /\ CreateThreadSessionMapping(b, t, s)
       /\ agentSessions' = agentSessions \cup {s}
       /\ minted' = minted \cup {t}
       /\ rollouts' = rollouts \cup {t}
  /\ UNCHANGED <<up, routes, diskRoutes, known>>

ThreadRollback(b, id) ==
  /\ Rollbacks
  /\ RoutedToGrok(b, id)
  /\ id \in rollouts
  /\ \E s \in Sessions \ agentSessions :
       /\ Answer(b, [kind |-> "rollback", id |-> id, session |-> s])
       /\ CreateThreadSessionMapping(b, id, s)
       /\ agentSessions' = agentSessions \cup {s}
  /\ UNCHANGED <<up, routes, diskRoutes, minted, rollouts, known>>

\* No rollout file the adapter writes holds a user message, so no rollout is
\* listed and every session of the agent is appended under its own id.
ThreadList(b) ==
  /\ Answer(b, [kind |-> "list", sessions |-> agentSessions])
  /\ UNCHANGED <<up, routes, threadToSession, sessionToThread, diskVars, known>>

\* Grok's own user interface creates sessions too.
AgentSession ==
  \E s \in Sessions \ agentSessions :
    /\ agentSessions' = agentSessions \cup {s}
    /\ UNCHANGED <<bridgeVars, diskRoutes, diskSessions, minted, rollouts, known>>

-----------------------------------------------------------------------------
(* The multiplexer reads an answer of the adapter, and tells the client.   *)

RouteInsert(b, file) ==
  /\ routes' = [routes EXCEPT ![b] = file]
  /\ diskRoutes' = file

\* mistake: a started task is not recorded
RecordResumeOnly(b, a) ==
  IF a.kind = "resume"
    THEN RouteInsert(b, [routes[b] EXCEPT ![a.id] = a.session])
    ELSE UNCHANGED <<routes, diskRoutes>>

\* record_route_from_response: thread/start and thread/resume only.
RecordRoute(b, a) ==
  IF a.kind \in {"start", "resume"}
    THEN RouteInsert(b, [routes[b] EXCEPT ![a.id] = a.session])
    ELSE UNCHANGED <<routes, diskRoutes>>

TakeAnswer(b) ==
  LET a == Head(pipe[b]) IN
  /\ b \in up
  /\ pipe[b] # <<>>
  /\ a.kind # "list"
  /\ pipe' = [pipe EXCEPT ![b] = Tail(@)]
  /\ RecordRoute(b, a)
  /\ known' = [known EXCEPT ![b] = @ \cup {a.id}]
  /\ UNCHANGED <<up, threadToSession, sessionToThread, diskSessions,
                 agentSessions, minted, rollouts>>

\* public_thread_id_for_acp: some thread routed to the session, else the
\* session itself, which is routed now if it was not.
PublicIds(file, s) ==
  LET threads == {id \in Ids \ {s} : file[id] = s}
  IN  IF threads = {} THEN {s} ELSE threads

ListedAs(file, listed, shown) ==
  \A s \in listed : shown[s] \in PublicIds(file, s)

MergeRoutes(file, listed) ==
  [id \in Ids |-> IF /\ id \in listed
                     /\ file[id] = None
                     /\ PublicIds(file, id) = {id}
                    THEN id
                    ELSE file[id]]

TakeList(b) ==
  LET listed == Head(pipe[b]).sessions IN
  /\ b \in up
  /\ pipe[b] # <<>>
  /\ Head(pipe[b]).kind = "list"
  /\ pipe' = [pipe EXCEPT ![b] = Tail(@)]
  /\ IF MergeRoutes(routes[b], listed) = routes[b]
       THEN UNCHANGED <<routes, diskRoutes>>
       ELSE RouteInsert(b, MergeRoutes(routes[b], listed))
  /\ \E shown \in [listed -> Ids] :
       /\ ListedAs(routes[b], listed, shown)
       /\ known' = [known EXCEPT ![b] = @ \cup {shown[s] : s \in listed}]
  /\ UNCHANGED <<up, threadToSession, sessionToThread, diskSessions,
                 agentSessions, minted, rollouts>>

Next ==
  \/ AgentSession
  \/ \E b \in Bridges :
       \/ Launch(b)
       \/ Stop(b)
       \/ ThreadStart(b)
       \/ ThreadList(b)
       \/ TakeAnswer(b)
       \/ TakeList(b)
       \/ \E id \in Ids :
            \/ ThreadResume(b, id)
            \/ ThreadFork(b, id)
            \/ ThreadRollback(b, id)

Spec == Init /\ [][Next]_vars

-----------------------------------------------------------------------------
(* Properties.                                                             *)

\* A Grok task the client knows is handed to Grok, whatever was restarted
\* since: route_request sends a task without a route to native Codex.
KnownIsRouted ==
  \A b \in up : \A id \in known[b] : routes[b][id] # None

\* A route that was saved is never lost, though every save writes the whole
\* file (RouteStore::insert, persist).
RoutesSurvive ==
  [][\A id \in Ids : diskRoutes[id] # None => diskRoutes'[id] # None]_vars

RolledBack(id) ==
  \E b \in Bridges, s \in Sessions :
    pipe'[b] = Append(pipe[b], [kind |-> "rollback", id |-> id, session |-> s])

\* Only rolling a task back gives it another session: a running bridge keeps the one it
\* has, and a session that was saved is replaced by one the running bridge had for the
\* same task, never lost, though each save writes every task's entry and any may fail.
TaskKeepsSession ==
  [][\A id \in Ids :
       \/ RolledBack(id)
       \/ /\ \A b \in up \cap up' : threadToSession[b][id] \in {None, threadToSession'[b][id]}
          /\ \/ diskSessions[id] \in {None, diskSessions'[id]}
             \/ \E b \in up : /\ diskSessions'[id] = threadToSession[b][id]
                              /\ diskSessions'[id] # None]_vars

\* thread/list shows the session of a known task under that task's id and no
\* other (public_thread_id_for_acp), so no task appears a second time.
ListedAsItself ==
  \A b \in up : \A id \in known[b] :
    LET s == threadToSession[b][id] IN
    s # None => PublicIds(routes[b], s) = {id}

\* No two tasks the client knows prompt the same session.
OneTaskPerSession ==
  \A b \in up : \A id1, id2 \in known[b] :
    /\ threadToSession[b][id1] # None
    /\ threadToSession[b][id1] = threadToSession[b][id2]
    => id1 = id2

\* An update of a known task's session is given to that task (lookup_thread).
\* The code does not keep this: see README.
UpdatesReachTask ==
  \A b \in up : \A id \in known[b] :
    LET s == threadToSession[b][id] IN
    s # None => sessionToThread[b][s] = id

\* What a running bridge's multiplexer and adapter remember of a known task agrees, and
\* so does what their files hold of it, as far as it could be saved.
MemoriesAgree ==
  \A b \in up : \A id \in known[b] :
    /\ routes[b][id] = diskRoutes[id]
    /\ threadToSession[b][id] \in {None, routes[b][id]}
    /\ diskSessions[id] \in {None, threadToSession[b][id]}

=============================================================================
