------------------------- MODULE TaskIdentity_proof -------------------------
(***************************************************************************)
(* Proofs about TaskIdentity for one bridge at a time: whatever the sets   *)
(* of threads and sessions, whether tasks are forked or rolled back, and   *)
(* however often the bridge stops, no save loses another task's entry.     *)
(* (Two bridges at once can lose one.)                                     *)
(***************************************************************************)
EXTENDS MCDurable, TLAPS

OneBridge == \A b, c \in Bridges : b = c

\* A running bridge remembers exactly the routes of the file, and a session for every task
\* that has one there: what it could not save it has besides, and may have it newer.
FilesLoaded ==
  /\ routes \in [Bridges -> [Ids -> Sessions \cup {None}]]
  /\ threadToSession \in [Bridges -> [Ids -> Sessions \cup {None}]]
  /\ up \subseteq Bridges
  /\ diskRoutes \in RouteFile /\ diskSessions \in SessionFile
  /\ \A b \in up : /\ routes[b] = diskRoutes
                   /\ \A id \in Ids : diskSessions[id] # None => threadToSession[b][id] # None
  /\ pipe \in [Bridges -> Seq(Answers)]
  /\ \A b \in Bridges \ up : pipe[b] = <<>>

\* A session is mapped to a thread that was minted, or taken under its own id.
MappedWasMinted ==
  /\ agentSessions \subseteq Sessions /\ rollouts \subseteq minted
  /\ \A id \in Ids : diskSessions[id] # None => id \in minted \cup Sessions
  /\ \A b \in up, id \in Ids : threadToSession[b][id] # None => id \in minted \cup Sessions

IInv == FilesLoaded /\ MappedWasMinted

-----------------------------------------------------------------------------
(* Each step, with what it does to the two files.                          *)

\* A route goes into the file, and nothing else of it changes.
RouteAdded == \/ diskRoutes' = diskRoutes
              \/ \E id \in Ids, s \in Sessions : diskRoutes' = [diskRoutes EXCEPT ![id] = s]
              \/ \E listed \in SUBSET Sessions : diskRoutes' = MergeRoutes(diskRoutes, listed)

\* A task gets a session when it has none, or is rolled back; what is saved of it is what a
\* running bridge had.
SessionAdded ==
  \A id \in Ids :
    \/ RolledBack(id)
    \/ /\ \A b \in up \cap up' : threadToSession[b][id] \in {None, threadToSession'[b][id]}
       /\ \/ diskSessions[id] \in {None, diskSessions'[id]}
          \/ \E b \in up : /\ diskSessions'[id] = threadToSession[b][id]
                           /\ diskSessions'[id] # None

LEMMA InitIInv == Init => IInv
<1> SUFFICES ASSUME Init PROVE IInv
  OBVIOUS
<1>1. Empty \in [Ids -> Sessions \cup {None}]
  BY DEF Empty
<1>2. QED
  BY <1>1 DEF Init, IInv, FilesLoaded, MappedWasMinted, Empty, RouteFile, SessionFile

\* A mapping made for a task of a running bridge, and saved or not: the task is new to the
\* bridge or is rolled back.
LEMMA MappingStep ==
  ASSUME OneBridge, IInv, NEW b \in up, NEW id \in Ids, NEW s \in Sessions,
         CreateThreadSessionMapping(b, id, s), up' = up,
         threadToSession[b][id] = None \/ RolledBack(id)
  PROVE  /\ diskSessions' \in SessionFile
         /\ threadToSession' \in [Bridges -> [Ids -> Sessions \cup {None}]]
         /\ \A c \in up : threadToSession'[c] = [threadToSession[b] EXCEPT ![id] = s]
         /\ \A c \in up, x \in Ids : diskSessions'[x] # None => threadToSession'[c][x] # None
         /\ diskSessions' \in {[threadToSession[b] EXCEPT ![id] = s], diskSessions}
         /\ SessionAdded
<1> DEFINE mapped == [threadToSession[b] EXCEPT ![id] = s]
<1>1. /\ b \in Bridges /\ threadToSession[b] \in [Ids -> Sessions \cup {None}]
      /\ threadToSession \in [Bridges -> [Ids -> Sessions \cup {None}]]
      /\ diskSessions \in [Ids -> Sessions \cup {None}] /\ None \notin Sessions
      /\ \A x \in Ids : diskSessions[x] # None => threadToSession[b][x] # None
  BY IdentityConstants DEF IInv, FilesLoaded, SessionFile, Ids
<1>2. /\ threadToSession' = [threadToSession EXCEPT ![b] = mapped]
      /\ diskSessions' \in {mapped, diskSessions}
  BY DEF CreateThreadSessionMapping
<1>3. \A c \in up : c = b
  BY <1>1 DEF OneBridge, IInv, FilesLoaded
<1>4. /\ mapped \in [Ids -> Sessions \cup {None}] /\ mapped[id] = s
      /\ \A x \in Ids \ {id} : mapped[x] = threadToSession[b][x]
  BY <1>1
<1> HIDE DEF mapped
<1>5. threadToSession'[b] = mapped /\ \A c \in up : threadToSession'[c] = mapped
  BY <1>1, <1>2, <1>3
<1>6. /\ diskSessions' \in SessionFile
      /\ threadToSession' \in [Bridges -> [Ids -> Sessions \cup {None}]]
  BY <1>1, <1>2, <1>4 DEF SessionFile
<1>7. \A x \in Ids : diskSessions'[x] # None => mapped[x] # None
  BY <1>1, <1>2, <1>4
<1>8. SessionAdded
  <2> SUFFICES ASSUME NEW x \in Ids, ~RolledBack(x)
               PROVE  /\ \A c \in up \cap up' :
                           threadToSession[c][x] \in {None, threadToSession'[c][x]}
                      /\ \/ diskSessions[x] \in {None, diskSessions'[x]}
                         \/ \E c \in up : /\ diskSessions'[x] = threadToSession[c][x]
                                          /\ diskSessions'[x] # None
    BY DEF SessionAdded
  <2>1. CASE x = id
    <3>1. threadToSession[b][x] = None /\ diskSessions[x] = None
      BY <1>1, <2>1
    <3>2. QED
      BY <1>3, <3>1
  <2>2. CASE x # id
    BY <1>1, <1>2, <1>3, <1>4, <1>5, <2>2
  <2>3. QED
    BY <2>1, <2>2
<1>9. QED
  BY <1>2, <1>5, <1>6, <1>7, <1>8 DEF mapped

\* The routes written for an answer a running bridge has read.
LEMMA RouteStep ==
  ASSUME OneBridge, FilesLoaded, NEW b \in up, NEW new \in RouteFile,
         RouteInsert(b, new)
  PROVE  /\ diskRoutes' = new
         /\ routes' \in [Bridges -> [Ids -> Sessions \cup {None}]]
         /\ \A c \in up : routes'[c] = diskRoutes'
  BY DEF RouteInsert, FilesLoaded, OneBridge, RouteFile

LEMMA AnswerType ==
  ASSUME FilesLoaded, NEW b \in Bridges, NEW a \in Answers, Answer(b, a)
  PROVE  /\ b \in up /\ pipe'[b] = Append(pipe[b], a)
         /\ pipe' \in [Bridges -> Seq(Answers)]
  BY DEF Answer, FilesLoaded

\* A new task: thread/start, and thread/fork of another.
LEMMA NewTaskStep ==
  ASSUME OneBridge, IInv, NEW b \in Bridges, UNCHANGED <<up, routes, diskRoutes>>,
         NEW kind \in {"start", "fork"}, NEW t \in Threads \ minted,
         NEW s \in Sessions \ agentSessions,
         Answer(b, [kind |-> kind, id |-> t, session |-> s]),
         CreateThreadSessionMapping(b, t, s),
         agentSessions' = agentSessions \cup {s}, minted' = minted \cup {t},
         rollouts' = rollouts \cup {t}
  PROVE  IInv' /\ RouteAdded /\ SessionAdded
<1>1. t \in Ids /\ t \notin Sessions
  BY IdentityConstants DEF Ids
<1>2. [kind |-> kind, id |-> t, session |-> s] \in Answers
  BY <1>1 DEF Answers
<1>3. b \in up /\ pipe' \in [Bridges -> Seq(Answers)]
  BY <1>2, AnswerType DEF IInv
<1>4. threadToSession[b][t] = None
  BY <1>1, <1>3 DEF IInv, MappedWasMinted
<1>5. /\ diskSessions' \in SessionFile
      /\ threadToSession' \in [Bridges -> [Ids -> Sessions \cup {None}]]
      /\ \A c \in up : threadToSession'[c] = [threadToSession[b] EXCEPT ![t] = s]
      /\ \A c \in up, x \in Ids : diskSessions'[x] # None => threadToSession'[c][x] # None
      /\ diskSessions' \in {[threadToSession[b] EXCEPT ![t] = s], diskSessions}
      /\ SessionAdded
  BY <1>1, <1>3, <1>4, MappingStep
<1>6. FilesLoaded'
  BY <1>1, <1>3, <1>5 DEF IInv, FilesLoaded, Answer
<1>7. MappedWasMinted'
  BY <1>1, <1>3, <1>5 DEF IInv, FilesLoaded, MappedWasMinted, SessionFile
<1>8. QED
  BY <1>5, <1>6, <1>7 DEF IInv, RouteAdded

LEMMA ThreadResumeStep ==
  ASSUME OneBridge, IInv, NEW b \in Bridges, NEW id \in Ids, ThreadResume(b, id)
  PROVE  IInv' /\ RouteAdded /\ SessionAdded
<1> DEFINE s == SessionToResume(b, id)
<1>1. /\ s \in agentSessions /\ s \in Sessions
      /\ Answer(b, [kind |-> "resume", id |-> id, session |-> s])
      /\ UNCHANGED <<up, routes, diskRoutes, agentSessions, minted, rollouts>>
  BY DEF ThreadResume, IInv, MappedWasMinted
<1>2. [kind |-> "resume", id |-> id, session |-> s] \in Answers
  BY <1>1 DEF Answers
<1>3. b \in up /\ pipe' \in [Bridges -> Seq(Answers)]
  BY <1>1, <1>2, AnswerType DEF IInv
<1>4. CASE threadToSession[b][id] = None
  <2>1. CreateThreadSessionMapping(b, id, s) /\ s = id
    BY <1>4 DEF ThreadResume, SessionToResume
  <2> HIDE DEF s
  <2>2. /\ diskSessions' \in SessionFile
        /\ threadToSession' \in [Bridges -> [Ids -> Sessions \cup {None}]]
        /\ \A c \in up : threadToSession'[c] = [threadToSession[b] EXCEPT ![id] = s]
        /\ \A c \in up, x \in Ids : diskSessions'[x] # None => threadToSession'[c][x] # None
        /\ diskSessions' \in {[threadToSession[b] EXCEPT ![id] = s], diskSessions}
        /\ SessionAdded
    BY <1>1, <1>3, <1>4, <2>1, MappingStep
  <2>3. FilesLoaded'
    BY <1>1, <1>3, <2>2 DEF IInv, FilesLoaded, Answer
  <2>4. MappedWasMinted'
    BY <1>1, <1>3, <2>1, <2>2 DEF IInv, FilesLoaded, MappedWasMinted, SessionFile
  <2>5. QED
    BY <1>1, <2>2, <2>3, <2>4 DEF IInv, RouteAdded
<1>5. CASE threadToSession[b][id] # None
  <2>1. UNCHANGED <<threadToSession, diskSessions>>
    BY <1>5 DEF ThreadResume
  <2>2. FilesLoaded' /\ MappedWasMinted'
    BY <1>1, <1>3, <2>1 DEF IInv, FilesLoaded, MappedWasMinted, Answer
  <2>3. QED
    BY <1>1, <2>1, <2>2 DEF IInv, RouteAdded, SessionAdded
<1>6. QED
  BY <1>4, <1>5

LEMMA ThreadRollbackStep ==
  ASSUME OneBridge, IInv, NEW b \in Bridges, NEW id \in Ids, ThreadRollback(b, id)
  PROVE  IInv' /\ RouteAdded /\ SessionAdded
<1>1. PICK s \in Sessions \ agentSessions :
        /\ Answer(b, [kind |-> "rollback", id |-> id, session |-> s])
        /\ CreateThreadSessionMapping(b, id, s)
        /\ agentSessions' = agentSessions \cup {s}
  BY DEF ThreadRollback
<1>2. id \in rollouts /\ UNCHANGED <<up, routes, diskRoutes, minted, rollouts>>
  BY DEF ThreadRollback
<1>3. [kind |-> "rollback", id |-> id, session |-> s] \in Answers
  BY DEF Answers
<1>4. /\ b \in up /\ pipe' \in [Bridges -> Seq(Answers)]
      /\ pipe'[b] = Append(pipe[b], [kind |-> "rollback", id |-> id, session |-> s])
  BY <1>1, <1>3, AnswerType DEF IInv
<1>5. RolledBack(id)
  BY <1>4 DEF RolledBack
<1>6. /\ diskSessions' \in SessionFile
      /\ threadToSession' \in [Bridges -> [Ids -> Sessions \cup {None}]]
      /\ \A c \in up : threadToSession'[c] = [threadToSession[b] EXCEPT ![id] = s]
      /\ \A c \in up, x \in Ids : diskSessions'[x] # None => threadToSession'[c][x] # None
      /\ diskSessions' \in {[threadToSession[b] EXCEPT ![id] = s], diskSessions}
      /\ SessionAdded
  BY <1>1, <1>2, <1>4, <1>5, MappingStep
<1>7. FilesLoaded'
  BY <1>1, <1>2, <1>4, <1>6 DEF IInv, FilesLoaded, Answer
<1>8. id \in minted
  BY <1>2 DEF IInv, MappedWasMinted
<1>9. MappedWasMinted'
  BY <1>1, <1>2, <1>4, <1>6, <1>8 DEF IInv, FilesLoaded, MappedWasMinted, SessionFile
<1>10. QED
  BY <1>2, <1>6, <1>7, <1>9 DEF IInv, RouteAdded

LEMMA TakeAnswerStep ==
  ASSUME OneBridge, IInv, NEW b \in Bridges, TakeAnswer(b)
  PROVE  IInv' /\ RouteAdded /\ SessionAdded
<1> DEFINE a == Head(pipe[b])
<1>1. /\ a \in Answers /\ pipe' \in [Bridges -> Seq(Answers)]
      /\ \A c \in Bridges \ up' : pipe'[c] = <<>>
  BY DEF TakeAnswer, IInv, FilesLoaded
<1>2. a.id \in Ids /\ a.session \in Sessions
  BY <1>1 DEF TakeAnswer, Answers
<1>3. /\ b \in up /\ routes[b] = diskRoutes
      /\ UNCHANGED <<up, threadToSession, diskSessions, agentSessions, minted, rollouts>>
      /\ RecordRoute(b, a)
  BY DEF TakeAnswer, IInv, FilesLoaded
<1> HIDE DEF a
<1>4. CASE UNCHANGED <<routes, diskRoutes>>
  BY <1>1, <1>3, <1>4 DEF IInv, FilesLoaded, MappedWasMinted, RouteAdded, SessionAdded
<1>5. CASE RouteInsert(b, [routes[b] EXCEPT ![a.id] = a.session])
  <2>1. [routes[b] EXCEPT ![a.id] = a.session] \in RouteFile
    BY <1>2, <1>3 DEF IInv, FilesLoaded, RouteFile
  <2>2. /\ diskRoutes' = [diskRoutes EXCEPT ![a.id] = a.session]
        /\ diskRoutes' \in RouteFile
        /\ routes' \in [Bridges -> [Ids -> Sessions \cup {None}]]
        /\ \A c \in up : routes'[c] = diskRoutes'
    BY <1>3, <1>5, <2>1, RouteStep DEF IInv
  <2>3. QED
    BY <1>1, <1>2, <1>3, <2>2
       DEF IInv, FilesLoaded, MappedWasMinted, RouteAdded, SessionAdded
<1>6. QED
  BY <1>3, <1>4, <1>5 DEF RecordRoute

LEMMA TakeListStep ==
  ASSUME OneBridge, IInv, NEW b \in Bridges, TakeList(b)
  PROVE  IInv' /\ RouteAdded /\ SessionAdded
<1> DEFINE a == Head(pipe[b])
           new == MergeRoutes(routes[b], a.sessions)
<1>1. /\ a \in Answers /\ pipe' \in [Bridges -> Seq(Answers)] /\ a.kind = "list"
      /\ \A c \in Bridges \ up' : pipe'[c] = <<>>
  BY DEF TakeList, IInv, FilesLoaded
<1>2. a.sessions \in SUBSET Sessions
  BY <1>1 DEF Answers
<1>3. /\ b \in up /\ routes[b] = diskRoutes
      /\ UNCHANGED <<up, threadToSession, diskSessions, agentSessions, minted, rollouts>>
      /\ UNCHANGED <<routes, diskRoutes>> \/ RouteInsert(b, new)
  BY DEF TakeList, IInv, FilesLoaded
<1>4. new \in RouteFile
  BY <1>2, <1>3 DEF IInv, FilesLoaded, RouteFile, MergeRoutes
<1>5. CASE UNCHANGED <<routes, diskRoutes>>
  BY <1>1, <1>3, <1>5 DEF IInv, FilesLoaded, MappedWasMinted, RouteAdded, SessionAdded
<1>6. CASE RouteInsert(b, new)
  <2>1. new = MergeRoutes(diskRoutes, a.sessions)
    BY <1>3
  <2> HIDE DEF new, a
  <2>2. /\ diskRoutes' = new
        /\ routes' \in [Bridges -> [Ids -> Sessions \cup {None}]]
        /\ \A c \in up : routes'[c] = diskRoutes'
    BY <1>3, <1>4, <1>6, RouteStep DEF IInv
  <2>3. RouteAdded
    BY <1>2, <2>1, <2>2 DEF RouteAdded
  <2>4. QED
    BY <1>1, <1>3, <1>4, <2>2, <2>3 DEF IInv, FilesLoaded, MappedWasMinted, SessionAdded
<1>7. QED
  BY <1>3, <1>5, <1>6

-----------------------------------------------------------------------------
(* The invariant.                                                          *)

LEMMA NextStep ==
  ASSUME OneBridge, IInv, Next
  PROVE  IInv' /\ RouteAdded /\ SessionAdded
<1>1. CASE AgentSession
  BY <1>1 DEF AgentSession, bridgeVars, IInv, FilesLoaded, MappedWasMinted, RouteAdded,
              SessionAdded
<1>2. ASSUME NEW b \in Bridges, Launch(b) PROVE IInv' /\ RouteAdded /\ SessionAdded
  <2>1. /\ up' = up \cup {b} /\ UNCHANGED <<pipe, diskRoutes, diskSessions, minted, agentSessions, rollouts>>
        /\ routes' = [routes EXCEPT ![b] = diskRoutes]
        /\ threadToSession' = [threadToSession EXCEPT ![b] = diskSessions]
    BY <1>2 DEF Launch, diskVars
  <2>2. FilesLoaded'
    BY <2>1 DEF IInv, FilesLoaded, RouteFile, SessionFile
  <2>3. \A c \in up' : \/ threadToSession'[c] = diskSessions
                       \/ c \in up /\ threadToSession'[c] = threadToSession[c]
    BY <2>1 DEF IInv, FilesLoaded
  <2>4. MappedWasMinted'
    BY <2>1, <2>3 DEF IInv, MappedWasMinted
  <2>5. b \notin up /\ \A c \in up : threadToSession'[c] = threadToSession[c]
    BY <1>2, <2>1 DEF Launch, IInv, FilesLoaded
  <2>6. QED
    BY <2>1, <2>2, <2>4, <2>5 DEF IInv, RouteAdded, SessionAdded
<1>3. ASSUME NEW b \in Bridges, Stop(b) PROVE IInv' /\ RouteAdded /\ SessionAdded
  <2>1. /\ up' = up \ {b} /\ UNCHANGED <<diskRoutes, diskSessions, minted, agentSessions, rollouts>>
        /\ routes' = [routes EXCEPT ![b] = Empty]
        /\ threadToSession' = [threadToSession EXCEPT ![b] = Empty]
        /\ pipe' = [pipe EXCEPT ![b] = <<>>]
    BY <1>3 DEF Stop, diskVars
  <2>2. Empty \in [Ids -> Sessions \cup {None}]
    BY DEF Empty
  <2>3. FilesLoaded'
    BY <2>1, <2>2 DEF IInv, FilesLoaded, RouteFile, SessionFile
  <2>4. QED
    BY <2>1, <2>3 DEF IInv, MappedWasMinted, RouteAdded, SessionAdded
<1>4. ASSUME NEW b \in Bridges, ThreadStart(b) PROVE IInv' /\ RouteAdded /\ SessionAdded
  <2>1. PICK t \in Threads \ minted, s \in Sessions \ agentSessions :
          /\ Answer(b, [kind |-> "start", id |-> t, session |-> s])
          /\ CreateThreadSessionMapping(b, t, s)
          /\ agentSessions' = agentSessions \cup {s}
          /\ minted' = minted \cup {t} /\ rollouts' = rollouts \cup {t}
          /\ UNCHANGED <<up, routes, diskRoutes>>
    BY <1>4 DEF ThreadStart
  <2>2. QED
    BY <2>1, NewTaskStep
<1>5. ASSUME NEW b \in Bridges, ThreadList(b) PROVE IInv' /\ RouteAdded /\ SessionAdded
  <2>1. [kind |-> "list", sessions |-> agentSessions] \in Answers
    BY DEF Answers, IInv, MappedWasMinted
  <2>2. pipe' \in [Bridges -> Seq(Answers)]
    BY <1>5, <2>1, AnswerType DEF ThreadList, IInv
  <2>3. QED
    BY <1>5, <2>2 DEF ThreadList, Answer, diskVars, IInv, FilesLoaded, MappedWasMinted,
                      RouteAdded, SessionAdded
<1>6. ASSUME NEW b \in Bridges, NEW id \in Ids, ThreadFork(b, id)
      PROVE IInv' /\ RouteAdded /\ SessionAdded
  <2>1. PICK t \in Threads \ minted, s \in Sessions \ agentSessions :
          /\ Answer(b, [kind |-> "fork", id |-> t, session |-> s])
          /\ CreateThreadSessionMapping(b, t, s)
          /\ agentSessions' = agentSessions \cup {s}
          /\ minted' = minted \cup {t} /\ rollouts' = rollouts \cup {t}
    BY <1>6 DEF ThreadFork
  <2>2. UNCHANGED <<up, routes, diskRoutes>>
    BY <1>6 DEF ThreadFork
  <2>3. QED
    BY <2>1, <2>2, NewTaskStep
<1>7. QED
  BY <1>1, <1>2, <1>3, <1>4, <1>5, <1>6, TakeAnswerStep, TakeListStep, ThreadResumeStep,
     ThreadRollbackStep DEF Next

LEMMA Invariance == ASSUME OneBridge PROVE Spec => []IInv
<1>1. IInv /\ [Next]_vars => IInv'
  <2> SUFFICES ASSUME IInv, [Next]_vars PROVE IInv'
    OBVIOUS
  <2>1. CASE Next
    BY <2>1, NextStep
  <2>2. CASE UNCHANGED vars
    BY <2>2 DEF vars, IInv, FilesLoaded, MappedWasMinted
  <2>3. QED
    BY <2>1, <2>2
<1>2. QED
  BY <1>1, InitIInv, PTL DEF Spec

\* With one bridge at a time no route that was saved is ever lost.
THEOREM RoutesAreKept == ASSUME OneBridge PROVE Spec => RoutesSurvive
<1> DEFINE Kept == \A id \in Ids : diskRoutes[id] # None => diskRoutes'[id] # None
<1>1. ASSUME IInv, [Next]_vars PROVE [Kept]_vars
  <2>1. CASE UNCHANGED vars
    BY <2>1
  <2>2. CASE Next
    <3>1. RouteAdded /\ diskRoutes \in [Ids -> Sessions \cup {None}]
      BY <1>1, <2>2, NextStep DEF IInv, FilesLoaded, RouteFile
    <3>2. None \notin Sessions
      BY IdentityConstants DEF Ids
    <3>3. CASE \E listed \in SUBSET Sessions : diskRoutes' = MergeRoutes(diskRoutes, listed)
      BY <3>1, <3>2, <3>3 DEF MergeRoutes
    <3>4. CASE \E id \in Ids, s \in Sessions : diskRoutes' = [diskRoutes EXCEPT ![id] = s]
      BY <3>1, <3>2, <3>4
    <3>5. QED
      BY <3>1, <3>3, <3>4 DEF RouteAdded
  <2>3. QED
    BY <1>1, <2>1, <2>2
<1>2. QED
  BY <1>1, Invariance, PTL DEF Spec, RoutesSurvive

\* With one bridge at a time nothing but its own rollback gives a task another session, and
\* no save loses one, whichever saves fail.
THEOREM SessionsAreKept == ASSUME OneBridge PROVE Spec => TaskKeepsSession
<1>1. ASSUME IInv, [Next]_vars PROVE [SessionAdded]_vars
  BY <1>1, NextStep
<1>2. QED
  BY <1>1, Invariance, PTL DEF Spec, TaskKeepsSession, SessionAdded

-----------------------------------------------------------------------------
(* What a client knows.  The steps of a client that does not fork tasks, and *)
(* of one that does not roll them back either.                               *)

RestartingNext ==
  \/ AgentSession
  \/ \E b \in Bridges :
       \/ Launch(b) \/ Stop(b) \/ ThreadStart(b) \/ ThreadList(b)
       \/ TakeAnswer(b) \/ TakeList(b)
       \/ \E id \in Ids : ThreadResume(b, id)

UnforkedNext == RestartingNext \/ \E b \in Bridges, id \in Ids : ThreadRollback(b, id)

\* A task is known only with a route, and one that is being rolled back has one.
KnownInv ==
  /\ known \in [Bridges -> SUBSET Ids]
  /\ \A b \in Bridges : \A id \in known[b] : diskRoutes[id] # None
  /\ \A b \in Bridges : \A i \in 1..Len(pipe[b]) :
       /\ pipe[b][i].kind # "fork"
       /\ pipe[b][i].kind = "rollback" => diskRoutes[pipe[b][i].id] # None

\* A task's route and its mapping, where it has one, lead to one session, no other task's
\* route does, and a session the agent was asked for under no thread id is its own.
RouteInv ==
  /\ \A id \in Ids : diskRoutes[id] # None => diskRoutes[id] \in agentSessions
  /\ \A id, other \in Ids : diskRoutes[id] # None /\ diskRoutes[id] = diskRoutes[other]
                             => id = other
  /\ \A s \in Sessions : diskRoutes[s] \in {None, s} /\ diskSessions[s] \in {None, s}
  /\ \A b \in up, s \in Sessions : threadToSession[b][s] \in {None, s}
  /\ \A t \in Threads : diskRoutes[t] # None =>
       /\ t \in minted /\ diskSessions[t] \in {None, diskRoutes[t]}
       /\ \A b \in up : threadToSession[b][t] \in {None, diskRoutes[t]}

\* A started task the multiplexer has not recorded is mapped to a session that
\* nothing is routed to and no earlier list on the way shows.
StartedInv(b, i) ==
  LET a == pipe[b][i] IN
  /\ a.id \in Threads \cap minted /\ a.session \in agentSessions
  /\ threadToSession[b][a.id] = a.session /\ diskSessions[a.id] \in {None, a.session}
  /\ \A id \in Ids : diskRoutes[id] # a.session
  /\ \A j \in 1..Len(pipe[b]) :
       /\ j < i /\ pipe[b][j].kind = "list" => a.session \notin pipe[b][j].sessions
       /\ j # i /\ pipe[b][j].kind = "start" => a.session # pipe[b][j].session

AnswerInv ==
  \A b \in Bridges : \A i \in 1..Len(pipe[b]) :
    /\ pipe[b][i].kind \in {"start", "resume", "list"}
    /\ pipe[b][i].kind = "start" => StartedInv(b, i)
    /\ pipe[b][i].kind = "resume" => diskRoutes[pipe[b][i].id] = pipe[b][i].session
    /\ pipe[b][i].kind = "list" => pipe[b][i].sessions \subseteq agentSessions

\* The answers on their way when the adapter gives one more, and when the
\* multiplexer reads one.
LEMMA AppendPipe ==
  ASSUME FilesLoaded, NEW b \in Bridges, NEW a, Answer(b, a)
  PROVE  LET n == Len(pipe[b]) IN
         /\ n \in Nat /\ Len(pipe'[b]) = n + 1 /\ pipe'[b][n + 1] = a
         /\ \A i \in 1..n : pipe'[b][i] = pipe[b][i]
         /\ \A i \in 1..(n + 1) : i = n + 1 \/ i \in 1..n
         /\ \A c \in Bridges \ {b} : pipe'[c] = pipe[c]
<1>1. pipe[b] \in Seq(Answers) /\ pipe'[b] = Append(pipe[b], a)
      /\ \A c \in Bridges \ {b} : pipe'[c] = pipe[c]
  BY DEF FilesLoaded, Answer
<1>2. QED
  BY <1>1

LEMMA TailPipe ==
  ASSUME FilesLoaded, NEW b \in Bridges, pipe[b] # <<>>, pipe' = [pipe EXCEPT ![b] = Tail(@)]
  PROVE  /\ Len(pipe[b]) \in Nat /\ 1 \in 1..Len(pipe[b]) /\ Head(pipe[b]) = pipe[b][1]
         /\ \A i \in 1..Len(pipe'[b]) : /\ pipe'[b][i] = pipe[b][i + 1]
                                        /\ i + 1 \in 1..Len(pipe[b]) /\ i \in Nat /\ i + 1 # 1
         /\ \A c \in Bridges \ {b} : pipe'[c] = pipe[c]
<1> DEFINE q == pipe[b]
<1>1. q \in Seq(Answers) /\ q # <<>> /\ pipe'[b] = Tail(q)
      /\ \A c \in Bridges \ {b} : pipe'[c] = pipe[c]
  BY DEF FilesLoaded
<1> HIDE DEF q
<1>2. /\ Len(q) \in Nat /\ 1 \in 1..Len(q) /\ Head(q) = q[1] /\ Len(Tail(q)) = Len(q) - 1
      /\ \A i \in 1..(Len(q) - 1) : Tail(q)[i] = q[i + 1]
  BY <1>1
<1>3. \A i \in 1..(Len(q) - 1) : i + 1 \in 1..Len(q) /\ i \in Nat /\ i + 1 # 1
  BY <1>2
<1>4. QED
  BY <1>1, <1>2, <1>3 DEF q

\* What goes into the routes leaves a task's route there.
LEMMA RoutesStay ==
  ASSUME IInv, RouteAdded
  PROVE  \A id \in Ids : diskRoutes[id] # None => diskRoutes'[id] # None
<1>1. diskRoutes \in [Ids -> Sessions \cup {None}] /\ None \notin Sessions
  BY IdentityConstants DEF IInv, FilesLoaded, RouteFile, Ids
<1>2. CASE \E listed \in SUBSET Sessions : diskRoutes' = MergeRoutes(diskRoutes, listed)
  BY <1>1, <1>2 DEF MergeRoutes
<1>3. CASE \E id \in Ids, s \in Sessions : diskRoutes' = [diskRoutes EXCEPT ![id] = s]
  BY <1>1, <1>3
<1>4. QED
  BY <1>2, <1>3 DEF RouteAdded

\* A list that is taken makes routes of what it shows under its own id.
LEMMA TakenList ==
  ASSUME IInv, NEW b \in Bridges, TakeList(b)
  PROVE  LET listed == Head(pipe[b]).sessions IN
         /\ listed \in SUBSET Sessions
         /\ Head(pipe[b]).kind = "list" /\ pipe[b] # <<>>
         /\ pipe' = [pipe EXCEPT ![b] = Tail(@)]
         /\ diskRoutes' = MergeRoutes(diskRoutes, listed)
         /\ \E shown \in [listed -> Ids] :
              /\ ListedAs(diskRoutes, listed, shown)
              /\ known' = [known EXCEPT ![b] = @ \cup {shown[s] : s \in listed}]
         /\ UNCHANGED <<up, threadToSession, diskSessions, agentSessions, minted>>
<1>1. b \in up /\ routes[b] = diskRoutes /\ pipe[b] \in Seq(Answers)
  BY DEF TakeList, IInv, FilesLoaded
<1>2. Head(pipe[b]) \in Answers
  BY <1>1 DEF TakeList
<1>3. Head(pipe[b]).sessions \in SUBSET Sessions
  BY <1>2 DEF TakeList, Answers
<1>4. diskRoutes' = MergeRoutes(diskRoutes, Head(pipe[b]).sessions)
  BY <1>1 DEF TakeList, RouteInsert
<1>5. QED
  BY <1>1, <1>3, <1>4 DEF TakeList

LEMMA KnownStep ==
  ASSUME OneBridge, IInv, KnownInv, UnforkedNext PROVE KnownInv'
<1>0. /\ \A id \in Ids : diskRoutes[id] # None => diskRoutes'[id] # None
      /\ FilesLoaded /\ pipe \in [Bridges -> Seq(Answers)]
  <2>1. Next
    BY DEF UnforkedNext, RestartingNext, Next
  <2>2. QED
    BY <2>1, NextStep, RoutesStay DEF IInv, FilesLoaded
<1>1. ASSUME NEW b \in Bridges, NEW a, Answer(b, a), UNCHANGED known, a.kind # "fork",
             a.kind = "rollback" => a.id \in Ids /\ diskRoutes[a.id] # None
      PROVE  KnownInv'
  <2>1. known' \in [Bridges -> SUBSET Ids]
        /\ \A c \in Bridges : \A id \in known'[c] : diskRoutes'[id] # None
    BY <1>0, <1>1 DEF KnownInv
  <2>2. ASSUME NEW c \in Bridges, NEW i \in 1..Len(pipe'[c])
        PROVE  /\ pipe'[c][i].kind # "fork"
               /\ pipe'[c][i].kind = "rollback" => diskRoutes'[pipe'[c][i].id] # None
    <3>1. \/ pipe'[c][i] = a
          \/ i \in 1..Len(pipe[c]) /\ pipe'[c][i] = pipe[c][i]
      BY <1>0, <1>1, AppendPipe
    <3>2. ASSUME NEW j \in 1..Len(pipe[c]), pipe[c][j].kind = "rollback"
          PROVE  pipe[c][j].id \in Ids
      BY <1>0, <3>2 DEF Answers
    <3>3. QED
      BY <1>0, <1>1, <3>1, <3>2 DEF KnownInv
  <2>3. QED
    BY <2>1, <2>2 DEF KnownInv
<1>2. ASSUME NEW b \in Bridges, pipe[b] # <<>>, pipe' = [pipe EXCEPT ![b] = Tail(@)],
             NEW new \in SUBSET Ids, known' = [known EXCEPT ![b] = @ \cup new],
             \A id \in new : diskRoutes'[id] # None
      PROVE  KnownInv'
  <2>1. known' \in [Bridges -> SUBSET Ids]
        /\ \A c \in Bridges : \A id \in known'[c] : diskRoutes'[id] # None
    BY <1>0, <1>2 DEF KnownInv
  <2>2. ASSUME NEW c \in Bridges, NEW i \in 1..Len(pipe'[c])
        PROVE  /\ pipe'[c][i].kind # "fork"
               /\ pipe'[c][i].kind = "rollback" => diskRoutes'[pipe'[c][i].id] # None
    <3>1. PICK j \in 1..Len(pipe[c]) : pipe'[c][i] = pipe[c][j]
      BY <1>0, <1>2, TailPipe
    <3>2. pipe[c][j].kind = "rollback" => pipe[c][j].id \in Ids
      BY <1>0 DEF Answers
    <3>3. QED
      BY <1>0, <3>1, <3>2 DEF KnownInv
  <2>3. QED
    BY <2>1, <2>2 DEF KnownInv
<1>3. CASE AgentSession \/ \E b \in Bridges : Launch(b)
  BY <1>3 DEF AgentSession, Launch, bridgeVars, diskVars, KnownInv
<1>4. ASSUME NEW b \in Bridges, Stop(b) PROVE KnownInv'
  BY <1>0, <1>4 DEF Stop, diskVars, KnownInv
<1>5. ASSUME NEW b \in Bridges, ThreadStart(b) \/ ThreadList(b) PROVE KnownInv'
  BY <1>1, <1>5 DEF ThreadStart, ThreadList
<1>6. ASSUME NEW b \in Bridges, NEW id \in Ids, ThreadResume(b, id) PROVE KnownInv'
  BY <1>1, <1>6 DEF ThreadResume
<1>7. ASSUME NEW b \in Bridges, NEW id \in Ids, ThreadRollback(b, id) PROVE KnownInv'
  <2>1. diskRoutes[id] # None
    BY <1>7 DEF ThreadRollback, RoutedToGrok, KnownInv
  <2>2. QED
    BY <1>1, <1>7, <2>1 DEF ThreadRollback
<1>8. ASSUME NEW b \in Bridges, TakeAnswer(b) PROVE KnownInv'
  <2> DEFINE a == pipe[b][1]
  <2>1. /\ pipe[b] # <<>> /\ pipe' = [pipe EXCEPT ![b] = Tail(@)]
        /\ a.kind # "list" /\ RecordRoute(b, a)
        /\ known' = [known EXCEPT ![b] = @ \cup {a.id}]
        /\ 1 \in 1..Len(pipe[b]) /\ b \in up /\ routes[b] = diskRoutes
    BY <1>0, <1>8, TailPipe DEF TakeAnswer, FilesLoaded
  <2>2. a \in Answers /\ a.id \in Ids /\ a.session \in Sessions
    <3>1. a \in Answers
      BY <1>0, <2>1
    <3>2. QED
      BY <2>1, <3>1 DEF Answers
  <2>3. diskRoutes'[a.id] # None
    <3>1. CASE a.kind \in {"start", "resume"}
      <4>1. diskRoutes' = [diskRoutes EXCEPT ![a.id] = a.session]
        BY <2>1, <3>1 DEF RecordRoute, RouteInsert
      <4>2. QED
        BY <1>0, <2>2, <4>1, IdentityConstants DEF Ids, FilesLoaded, RouteFile
    <3>2. CASE a.kind = "rollback"
      BY <1>0, <2>1, <2>2, <3>2 DEF KnownInv
    <3>3. QED
      BY <2>1, <2>2, <3>1, <3>2 DEF KnownInv, Answers
  <2> DEFINE new == {a.id}
  <2>4. /\ new \in SUBSET Ids /\ \A id \in new : diskRoutes'[id] # None
        /\ known' = [known EXCEPT ![b] = @ \cup new]
    BY <2>1, <2>2, <2>3
  <2> HIDE DEF new
  <2>5. QED
    BY <1>2, <2>1, <2>4
<1>9. ASSUME NEW b \in Bridges, TakeList(b) PROVE KnownInv'
  <2> DEFINE listed == Head(pipe[b]).sessions
  <2>1. PICK shown \in [listed -> Ids] :
          /\ ListedAs(diskRoutes, listed, shown)
          /\ known' = [known EXCEPT ![b] = @ \cup {shown[s] : s \in listed}]
    BY <1>9, TakenList
  <2>2. /\ pipe[b] # <<>> /\ pipe' = [pipe EXCEPT ![b] = Tail(@)]
        /\ listed \in SUBSET Sessions /\ diskRoutes' = MergeRoutes(diskRoutes, listed)
    BY <1>9, TakenList
  <2>3. ASSUME NEW s \in listed PROVE diskRoutes'[shown[s]] # None
    <3>1. shown[s] \in PublicIds(diskRoutes, s) /\ s \in Sessions /\ s # None /\ s \in Ids
      BY <2>1, <2>2, IdentityConstants DEF ListedAs, Ids
    <3>2. CASE diskRoutes[shown[s]] = s
      BY <1>0, <2>1, <3>1, <3>2
    <3>3. CASE shown[s] = s /\ PublicIds(diskRoutes, s) = {s}
      BY <2>2, <3>1, <3>3 DEF MergeRoutes
    <3>4. QED
      BY <3>1, <3>2, <3>3 DEF PublicIds
  <2> DEFINE new == {shown[s] : s \in listed}
  <2>4. /\ new \in SUBSET Ids /\ \A id \in new : diskRoutes'[id] # None
        /\ known' = [known EXCEPT ![b] = @ \cup new]
    BY <2>1, <2>3
  <2> HIDE DEF new
  <2>5. QED
    BY <1>2, <2>2, <2>4
<1>10. QED
  BY <1>3, <1>4, <1>5, <1>6, <1>7, <1>8, <1>9 DEF UnforkedNext, RestartingNext

LEMMA InitKnownInv == Init => KnownInv
  BY DEF Init, KnownInv
\* The adapter's answer goes behind the others; a session it started is one that
\* neither a route nor a list nor another start on the way can have.
LEMMA AppendStep ==
  ASSUME OneBridge, IInv, RouteInv, AnswerInv, NEW b \in Bridges, NEW a \in Answers,
         Answer(b, a), UNCHANGED diskRoutes, agentSessions \subseteq agentSessions',
         minted \subseteq minted',
         \A t \in Threads : threadToSession[b][t] # None =>
           /\ threadToSession'[b][t] = threadToSession[b][t]
           /\ diskSessions'[t] \in {diskSessions[t], threadToSession[b][t]},
         a.kind \in {"start", "resume", "list"},
         a.kind = "start" => /\ a.id \in Threads \cap minted'
                             /\ threadToSession'[b][a.id] = a.session
                             /\ diskSessions'[a.id] \in {None, a.session}
                             /\ a.session \in agentSessions' \ agentSessions
                             /\ a.session # None,
         a.kind = "resume" => diskRoutes[a.id] = a.session,
         a.kind = "list" => a.sessions \subseteq agentSessions'
  PROVE  AnswerInv'
<1> DEFINE n == Len(pipe[b])
<1>1. /\ n \in Nat /\ Len(pipe'[b]) = n + 1 /\ pipe'[b][n + 1] = a
      /\ \A i \in 1..n : pipe'[b][i] = pipe[b][i]
      /\ \A i \in 1..(n + 1) : i = n + 1 \/ i \in 1..n
  BY AppendPipe DEF IInv
<1> SUFFICES ASSUME NEW i \in 1..(n + 1)
             PROVE  /\ pipe'[b][i].kind \in {"start", "resume", "list"}
                    /\ pipe'[b][i].kind = "start" => StartedInv(b, i)'
                    /\ pipe'[b][i].kind = "resume" =>
                         diskRoutes'[pipe'[b][i].id] = pipe'[b][i].session
                    /\ pipe'[b][i].kind = "list" => pipe'[b][i].sessions \subseteq agentSessions'
  BY <1>1 DEF OneBridge, AnswerInv
<1>2. CASE i = n + 1
  <2>1. ASSUME a.kind = "start" PROVE StartedInv(b, i)'
    <3>1. \A id \in Ids : diskRoutes[id] # a.session
      BY <2>1 DEF RouteInv
    <3>2. ASSUME NEW j \in 1..n, pipe[b][j].kind = "list" PROVE a.session \notin pipe[b][j].sessions
      BY <2>1, <3>2 DEF AnswerInv
    <3>3. ASSUME NEW j \in 1..n, pipe[b][j].kind = "start" PROVE a.session # pipe[b][j].session
      BY <2>1, <3>3 DEF AnswerInv, StartedInv
    <3>4. \A j \in 1..(n + 1) :
            /\ j < i /\ pipe'[b][j].kind = "list" => a.session \notin pipe'[b][j].sessions
            /\ j # i /\ pipe'[b][j].kind = "start" => a.session # pipe'[b][j].session
      BY <1>1, <1>2, <3>2, <3>3
    <3>5. QED
      BY <1>1, <1>2, <2>1, <3>1, <3>4 DEF StartedInv
  <2>2. QED
    BY <1>1, <1>2, <2>1
<1>3. CASE i \in 1..n
  <2>1. pipe'[b][i] = pipe[b][i]
    BY <1>1, <1>3
  <2>2. ASSUME pipe[b][i].kind = "start" PROVE StartedInv(b, i)'
    <3>1. StartedInv(b, i)
      BY <1>3, <2>2 DEF AnswerInv
    <3>2. /\ pipe[b][i].session # None /\ pipe[b][i].id \in minted'
          /\ threadToSession'[b][pipe[b][i].id] = pipe[b][i].session
          /\ diskSessions'[pipe[b][i].id] \in {None, pipe[b][i].session}
      <4>1. None \notin Sessions /\ agentSessions \subseteq Sessions
        BY IdentityConstants DEF Ids, IInv, MappedWasMinted
      <4>2. QED
        BY <3>1, <4>1 DEF StartedInv
    <3>3. \A j \in 1..(n + 1) :
            /\ j < i /\ pipe'[b][j].kind = "list" => pipe[b][i].session \notin pipe'[b][j].sessions
            /\ j # i /\ pipe'[b][j].kind = "start" => pipe[b][i].session # pipe'[b][j].session
      <4>1. \A j \in 1..n :
              /\ j < i /\ pipe[b][j].kind = "list" => pipe[b][i].session \notin pipe[b][j].sessions
              /\ j # i /\ pipe[b][j].kind = "start" => pipe[b][i].session # pipe[b][j].session
        BY <3>1 DEF StartedInv
      <4>2. ~(n + 1 < i)
        BY <1>1, <1>3
      <4>3. a.kind = "start" => pipe[b][i].session # a.session
        BY <3>1 DEF StartedInv
      <4>4. QED
        BY <1>1, <4>1, <4>2, <4>3
    <3>4. QED
      BY <1>1, <2>1, <3>1, <3>2, <3>3 DEF StartedInv
  <2>3. QED
    BY <1>3, <2>1, <2>2 DEF AnswerInv
<1>4. QED
  BY <1>1, <1>2, <1>3

\* The multiplexer's step with the first answer leaves what is known of the others.
LEMMA TailStep ==
  ASSUME OneBridge, IInv, AnswerInv, NEW b \in Bridges, pipe[b] # <<>>,
         pipe' = [pipe EXCEPT ![b] = Tail(@)],
         UNCHANGED <<threadToSession, diskSessions, agentSessions, minted>>,
         \A i \in 1..Len(pipe[b]) : i # 1 =>
           /\ pipe[b][i].kind = "start" => \A id \in Ids : diskRoutes'[id] # pipe[b][i].session
           /\ pipe[b][i].kind = "resume" => diskRoutes'[pipe[b][i].id] = pipe[b][i].session
  PROVE  AnswerInv'
<1>1. /\ Len(pipe[b]) \in Nat
      /\ \A i \in 1..Len(pipe'[b]) : /\ pipe'[b][i] = pipe[b][i + 1]
                                     /\ i + 1 \in 1..Len(pipe[b]) /\ i \in Nat /\ i + 1 # 1
  BY TailPipe DEF IInv
<1> SUFFICES ASSUME NEW i \in 1..Len(pipe'[b])
             PROVE  /\ pipe'[b][i].kind \in {"start", "resume", "list"}
                    /\ pipe'[b][i].kind = "start" => StartedInv(b, i)'
                    /\ pipe'[b][i].kind = "resume" =>
                         diskRoutes'[pipe'[b][i].id] = pipe'[b][i].session
                    /\ pipe'[b][i].kind = "list" => pipe'[b][i].sessions \subseteq agentSessions'
  BY DEF OneBridge, AnswerInv
<1> DEFINE k == i + 1
<1>2. pipe'[b][i] = pipe[b][k] /\ k \in 1..Len(pipe[b]) /\ k # 1
  BY <1>1
<1>3. ASSUME pipe[b][k].kind = "start" PROVE StartedInv(b, i)'
  <2>1. StartedInv(b, k)
    BY <1>2, <1>3 DEF AnswerInv
  <2>2. \A id \in Ids : diskRoutes'[id] # pipe[b][k].session
    BY <1>2, <1>3
  <2>3. ASSUME NEW j \in 1..Len(pipe'[b])
        PROVE  /\ j < i /\ pipe'[b][j].kind = "list" => pipe[b][k].session \notin pipe'[b][j].sessions
               /\ j # i /\ pipe'[b][j].kind = "start" => pipe[b][k].session # pipe'[b][j].session
    <3>1. /\ pipe'[b][j] = pipe[b][j + 1] /\ j + 1 \in 1..Len(pipe[b])
          /\ j < i => j + 1 < k
          /\ j # i => j + 1 # k
      BY <1>1
    <3>2. QED
      BY <2>1, <3>1 DEF StartedInv
  <2>4. QED
    BY <1>2, <2>1, <2>2, <2>3 DEF StartedInv
<1>4. QED
  BY <1>2, <1>3 DEF AnswerInv

\* Without forks and rollbacks a route, once it is there, stays what it is, and
\* what an answer on the way will record is there already or is new.
LEMMA RouteInvStep ==
  ASSUME OneBridge, IInv, RouteInv, AnswerInv, RestartingNext
  PROVE  RouteInv' /\ AnswerInv'
<1>0. /\ diskRoutes \in [Ids -> Sessions \cup {None}]
      /\ diskSessions \in [Ids -> Sessions \cup {None}]
      /\ threadToSession \in [Bridges -> [Ids -> Sessions \cup {None}]]
      /\ pipe \in [Bridges -> Seq(Answers)] /\ agentSessions \subseteq Sessions
      /\ up \subseteq Bridges /\ \A b \in up : routes[b] = diskRoutes
      /\ \A b \in Bridges \ up : pipe[b] = <<>>
      /\ None \notin Ids /\ Threads \cap Sessions = {} /\ Ids = Threads \cup Sessions
  BY IdentityConstants DEF IInv, FilesLoaded, MappedWasMinted, RouteFile, SessionFile, Ids
<1>1. ASSUME UNCHANGED <<diskRoutes, diskSessions, minted>>, agentSessions \subseteq agentSessions',
             \A c \in Bridges : \/ pipe'[c] = <<>>
                                \/ UNCHANGED <<pipe[c], threadToSession[c]>>,
             \A c \in up' : \/ threadToSession'[c] = diskSessions
                            \/ c \in up /\ UNCHANGED threadToSession[c]
      PROVE  RouteInv' /\ AnswerInv'
  <2>1. RouteInv'
    BY <1>1, Zenon DEF RouteInv
  <2>2. ASSUME NEW c \in Bridges, NEW i \in 1..Len(pipe'[c])
        PROVE  /\ pipe'[c][i].kind \in {"start", "resume", "list"}
               /\ pipe'[c][i].kind = "start" => StartedInv(c, i)'
               /\ pipe'[c][i].kind = "resume" => diskRoutes'[pipe'[c][i].id] = pipe'[c][i].session
               /\ pipe'[c][i].kind = "list" => pipe'[c][i].sessions \subseteq agentSessions'
    <3>1. pipe'[c] = pipe[c] /\ threadToSession'[c] = threadToSession[c]
      BY <1>1, <2>2
    <3>2. QED
      BY <1>1, <2>2, <3>1 DEF AnswerInv, StartedInv
  <2>3. QED
    BY <2>1, <2>2 DEF AnswerInv
<1>2. CASE AgentSession \/ \E b \in Bridges : Launch(b) \/ Stop(b)
  <2>1. CASE AgentSession
    BY <1>0, <1>1, <2>1 DEF AgentSession, bridgeVars
  <2>2. ASSUME NEW b \in Bridges, Launch(b) PROVE RouteInv' /\ AnswerInv'
    <3>1. /\ UNCHANGED <<pipe, diskRoutes, diskSessions, minted, agentSessions>>
          /\ b \notin up /\ up' = up \cup {b}
          /\ threadToSession' = [threadToSession EXCEPT ![b] = diskSessions]
      BY <2>2 DEF Launch, diskVars
    <3>2. /\ threadToSession'[b] = diskSessions /\ pipe'[b] = <<>>
          /\ \A c \in Bridges \ {b} : threadToSession'[c] = threadToSession[c]
      BY <1>0, <3>1
    <3>3. \A c \in Bridges : \/ pipe'[c] = <<>>
                             \/ UNCHANGED <<pipe[c], threadToSession[c]>>
      BY <3>1, <3>2
    <3>4. \A c \in up' : \/ threadToSession'[c] = diskSessions
                         \/ c \in up /\ UNCHANGED threadToSession[c]
      BY <1>0, <3>1, <3>2
    <3>5. QED
      BY <1>1, <3>1, <3>3, <3>4
  <2>3. ASSUME NEW b \in Bridges, Stop(b) PROVE RouteInv' /\ AnswerInv'
    BY <1>0, <1>1, <2>3 DEF Stop, diskVars
  <2>4. QED
    BY <1>2, <2>1, <2>2, <2>3
<1>3. ASSUME NEW b \in Bridges, ThreadStart(b) PROVE RouteInv' /\ AnswerInv'
  <2>1. PICK t \in Threads \ minted, s \in Sessions \ agentSessions :
          /\ Answer(b, [kind |-> "start", id |-> t, session |-> s])
          /\ CreateThreadSessionMapping(b, t, s)
          /\ agentSessions' = agentSessions \cup {s} /\ minted' = minted \cup {t}
          /\ UNCHANGED <<up, diskRoutes>>
    BY <1>3 DEF ThreadStart
  <2> DEFINE a == [kind |-> "start", id |-> t, session |-> s]
  <2>2. t \in Ids /\ t \notin Sessions /\ s # None /\ a \in Answers /\ b \in up
    BY <1>0, <2>1 DEF Answers, Answer
  <2>3. /\ threadToSession'[b][t] = s
        /\ diskSessions'[t] \in {diskSessions[t], s}
        /\ \A x \in Ids \ {t} : /\ threadToSession'[b][x] = threadToSession[b][x]
                                /\ diskSessions'[x] \in {diskSessions[x], threadToSession[b][x]}
        /\ \A c \in Bridges : c = b
    BY <1>0, <2>1, <2>2 DEF CreateThreadSessionMapping, OneBridge
  <2>4. diskSessions[t] = None /\ diskRoutes[t] = None /\ threadToSession[b][t] = None
    BY <1>0, <2>2 DEF IInv, MappedWasMinted, RouteInv
  <2>5. RouteInv'
    BY <1>0, <2>1, <2>2, <2>3, <2>4 DEF RouteInv
  <2>6. AnswerInv'
    BY <1>0, <2>1, <2>2, <2>3, <2>4, AppendStep
  <2>7. QED
    BY <2>5, <2>6
<1>4. ASSUME NEW b \in Bridges, ThreadList(b) PROVE RouteInv' /\ AnswerInv'
  <2> DEFINE a == [kind |-> "list", sessions |-> agentSessions]
  <2>1. /\ a \in Answers /\ Answer(b, a)
        /\ UNCHANGED <<up, threadToSession, diskRoutes, diskSessions, agentSessions, minted>>
    BY <1>0, <1>4 DEF ThreadList, diskVars, Answers
  <2>2. AnswerInv'
    BY <2>1, AppendStep
  <2>3. QED
    BY <2>1, <2>2 DEF RouteInv
<1>5. ASSUME NEW b \in Bridges, NEW id \in Ids, ThreadResume(b, id)
      PROVE  RouteInv' /\ AnswerInv'
  <2> DEFINE s == SessionToResume(b, id)
             a == [kind |-> "resume", id |-> id, session |-> s]
  <2>1. /\ b \in up /\ diskRoutes[id] # None /\ s \in agentSessions /\ Answer(b, a)
        /\ s = IF threadToSession[b][id] # None THEN threadToSession[b][id] ELSE id
        /\ UNCHANGED <<up, diskRoutes, agentSessions, minted>>
    BY <1>0, <1>5 DEF ThreadResume, RoutedToGrok, SessionToResume, Answer
  <2>2. a \in Answers /\ a.kind = "resume" /\ a.id = id /\ a.session = s
    BY <1>0, <2>1 DEF Answers
  <2> HIDE DEF s, a
  <2>3. diskRoutes[id] = s
    BY <1>0, <2>1 DEF RouteInv
  <2>4. \A c \in Bridges : c = b
    BY DEF OneBridge
  <2>5. CASE threadToSession[b][id] # None
    <3>1. UNCHANGED <<threadToSession, diskSessions>>
      BY <1>5, <2>5 DEF ThreadResume
    <3>2. RouteInv'
      BY <2>1, <3>1 DEF RouteInv
    <3>3. AnswerInv'
      BY <2>1, <2>2, <2>3, <3>1, AppendStep
    <3>4. QED
      BY <3>2, <3>3
  <2>6. CASE threadToSession[b][id] = None
    <3>1. CreateThreadSessionMapping(b, id, s) /\ s = id /\ id \in Sessions
      BY <1>0, <1>5, <2>1, <2>6 DEF ThreadResume, s
    <3>2. /\ threadToSession'[b][id] = id
          /\ diskSessions'[id] \in {diskSessions[id], id}
          /\ \A x \in Ids \ {id} :
               /\ threadToSession'[b][x] = threadToSession[b][x]
               /\ diskSessions'[x] \in {diskSessions[x], threadToSession[b][x]}
      BY <1>0, <3>1 DEF CreateThreadSessionMapping
    <3>3. RouteInv'
      BY <1>0, <2>1, <2>4, <3>1, <3>2 DEF RouteInv
    <3>4. \A t \in Threads : t \in Ids \ {id}
      BY <1>0, <3>1
    <3>5. AnswerInv'
      BY <2>1, <2>2, <2>3, <3>2, <3>4, AppendStep
    <3>6. QED
      BY <3>3, <3>5
  <2>7. QED
    BY <2>5, <2>6
<1>6. ASSUME NEW b \in Bridges, TakeAnswer(b) PROVE RouteInv' /\ AnswerInv'
  <2> DEFINE a == pipe[b][1]
             n == Len(pipe[b])
  <2>1. /\ pipe[b] # <<>> /\ pipe' = [pipe EXCEPT ![b] = Tail(@)]
        /\ a.kind # "list" /\ RecordRoute(b, a) /\ 1 \in 1..n /\ n \in Nat
        /\ b \in up /\ routes[b] = diskRoutes
        /\ UNCHANGED <<up, threadToSession, diskSessions, agentSessions, minted>>
    BY <1>0, <1>6, TailPipe DEF TakeAnswer, IInv
  <2>2. a.kind \in {"start", "resume"} /\ a \in Answers
    BY <1>0, <2>1 DEF AnswerInv
  <2>3. /\ a.id \in Ids /\ a.session \in Sessions
        /\ diskRoutes' = [diskRoutes EXCEPT ![a.id] = a.session]
    BY <2>1, <2>2 DEF Answers, RecordRoute, RouteInsert
  <2>4. ASSUME NEW i \in 1..n, pipe[b][i].kind = "resume"
        PROVE  pipe[b][i].id \in Ids /\ diskRoutes[pipe[b][i].id] = pipe[b][i].session
    BY <1>0, <2>4 DEF AnswerInv, Answers
  <2>5. CASE a.kind = "resume"
    <3>1. UNCHANGED diskRoutes
      <4>1. diskRoutes[a.id] = a.session
        BY <2>1, <2>4, <2>5
      <4>2. QED
        BY <1>0, <2>3, <4>1
    <3>2. \A i \in 1..n : i # 1 =>
            /\ pipe[b][i].kind = "start" => \A id \in Ids : diskRoutes'[id] # pipe[b][i].session
            /\ pipe[b][i].kind = "resume" => diskRoutes'[pipe[b][i].id] = pipe[b][i].session
      BY <2>4, <3>1 DEF AnswerInv, StartedInv
    <3>3. AnswerInv'
      BY <2>1, <3>2, TailStep
    <3>4. QED
      BY <2>1, <3>1, <3>3 DEF RouteInv
  <2>6. CASE a.kind = "start"
    <3>1. StartedInv(b, 1)
      BY <2>1, <2>6 DEF AnswerInv
    <3>2. /\ a.id \in Threads \cap minted /\ a.session \in agentSessions /\ a.id \notin Sessions
          /\ threadToSession[b][a.id] = a.session /\ diskSessions[a.id] \in {None, a.session}
          /\ \A id \in Ids : diskRoutes[id] # a.session
          /\ \A j \in 1..n : j # 1 /\ pipe[b][j].kind = "start" => a.session # pipe[b][j].session
      BY <1>0, <3>1 DEF StartedInv
    <3>3. diskRoutes[a.id] = None /\ \A c \in Bridges : c = b
      BY <1>0, <2>1, <2>3, <3>2 DEF RouteInv, OneBridge
    <3>4. RouteInv'
      BY <1>0, <2>1, <2>3, <3>2, <3>3 DEF RouteInv
    <3>5. ASSUME NEW i \in 1..n, i # 1
          PROVE  /\ pipe[b][i].kind = "start" =>
                      \A id \in Ids : diskRoutes'[id] # pipe[b][i].session
                 /\ pipe[b][i].kind = "resume" => diskRoutes'[pipe[b][i].id] = pipe[b][i].session
      <4>1. pipe[b][i].kind = "start" => \A id \in Ids : diskRoutes[id] # pipe[b][i].session
        BY DEF AnswerInv, StartedInv
      <4>2. pipe[b][i].kind = "resume" => pipe[b][i].id # a.id
        BY <1>0, <2>4, <3>3, <3>5 DEF Answers
      <4>3. QED
        BY <1>0, <2>3, <2>4, <3>2, <3>5, <4>1, <4>2
    <3>6. AnswerInv'
      BY <2>1, <3>5, TailStep
    <3>7. QED
      BY <3>4, <3>6
  <2>7. QED
    BY <2>2, <2>5, <2>6
<1>7. ASSUME NEW b \in Bridges, TakeList(b) PROVE RouteInv' /\ AnswerInv'
  <2> DEFINE listed == pipe[b][1].sessions
             n == Len(pipe[b])
  <2>1. /\ pipe[b] # <<>> /\ pipe' = [pipe EXCEPT ![b] = Tail(@)]
        /\ 1 \in 1..n /\ n \in Nat /\ pipe[b][1].kind = "list" /\ listed \in SUBSET Sessions
        /\ diskRoutes' = MergeRoutes(diskRoutes, listed)
        /\ UNCHANGED <<up, threadToSession, diskSessions, agentSessions, minted>>
    <3>1. pipe[b] # <<>> /\ pipe' = [pipe EXCEPT ![b] = Tail(@)]
      BY <1>7 DEF TakeList
    <3>2. n \in Nat /\ 1 \in 1..n /\ Head(pipe[b]) = pipe[b][1]
      BY <3>1, TailPipe DEF IInv
    <3>3. QED
      BY <1>7, <3>1, <3>2, TakenList
  <2>2. listed \subseteq agentSessions
    BY <2>1 DEF AnswerInv
  <2> HIDE DEF listed
  <2>3. \A id \in Ids : \/ diskRoutes'[id] = diskRoutes[id]
                        \/ /\ id \in listed /\ diskRoutes'[id] = id /\ diskRoutes[id] = None
                           /\ \A other \in Ids : diskRoutes[other] # id
    <3>1. ASSUME NEW id \in listed, diskRoutes[id] = None, PublicIds(diskRoutes, id) = {id},
                 NEW other \in Ids, diskRoutes[other] = id
          PROVE  FALSE
      <4>1. other # id /\ id # None
        BY <1>0, <2>1, <3>1
      <4>2. other \in PublicIds(diskRoutes, id)
        BY <3>1, <4>1 DEF PublicIds
      <4>3. QED
        BY <3>1, <4>1, <4>2
    <3>2. QED
      BY <2>1, <3>1 DEF MergeRoutes
  <2>4. RouteInv'
    <3>1. \A id \in Ids : diskRoutes'[id] # None => diskRoutes'[id] \in agentSessions
      BY <2>2, <2>3 DEF RouteInv
    <3>2. ASSUME NEW id \in Ids, NEW other \in Ids, diskRoutes'[id] # None,
                 diskRoutes'[id] = diskRoutes'[other]
          PROVE  id = other
      BY <2>3, <3>2 DEF RouteInv
    <3>3. \A s \in Sessions : diskRoutes'[s] \in {None, s}
      BY <1>0, <2>3 DEF RouteInv
    <3>4. \A t \in Threads : diskRoutes'[t] = diskRoutes[t]
      BY <1>0, <2>1, <2>3
    <3>5. QED
      BY <2>1, <3>1, <3>2, <3>3, <3>4 DEF RouteInv
  <2>5. ASSUME NEW i \in 1..n, i # 1
        PROVE  /\ pipe[b][i].kind = "start" =>
                    \A id \in Ids : diskRoutes'[id] # pipe[b][i].session
               /\ pipe[b][i].kind = "resume" => diskRoutes'[pipe[b][i].id] = pipe[b][i].session
    <3>1. ASSUME pipe[b][i].kind = "start"
          PROVE  \A id \in Ids : diskRoutes'[id] # pipe[b][i].session
      <4>1. StartedInv(b, i)
        BY <3>1 DEF AnswerInv
      <4>2. pipe[b][i].session \notin listed
        BY <2>1, <2>5, <4>1 DEF StartedInv, listed
      <4>3. QED
        BY <2>3, <4>1, <4>2 DEF StartedInv
    <3>2. ASSUME pipe[b][i].kind = "resume"
          PROVE  diskRoutes'[pipe[b][i].id] = pipe[b][i].session
      <4>1. /\ pipe[b][i].id \in Ids /\ pipe[b][i].session \in Sessions
            /\ diskRoutes[pipe[b][i].id] = pipe[b][i].session
        BY <1>0, <3>2 DEF AnswerInv, Answers
      <4>2. QED
        BY <1>0, <2>3, <4>1
    <3>3. QED
      BY <3>1, <3>2
  <2>6. AnswerInv'
    BY <2>1, <2>5, TailStep
  <2>7. QED
    BY <2>4, <2>6
<1>8. QED
  BY <1>2, <1>3, <1>4, <1>5, <1>6, <1>7 DEF RestartingNext

LEMMA InitRouteInv == Init => RouteInv /\ AnswerInv
  BY DEF Init, Empty, RouteInv, AnswerInv, Ids
-----------------------------------------------------------------------------
(* What follows for the tasks a client knows.                              *)

\* What a client knows reaches Grok after any number of restarts, unless it came
\* from a fork, whose answer record_route_from_response does not record.
THEOREM KnownTasksAreRouted ==
  ASSUME OneBridge, ~Forks PROVE Spec => []KnownIsRouted
<1>1. IInv /\ KnownInv /\ [Next]_vars => (IInv /\ KnownInv)'
  <2> SUFFICES ASSUME IInv, KnownInv, [Next]_vars PROVE IInv' /\ KnownInv'
    OBVIOUS
  <2>1. CASE Next
    <3>1. UnforkedNext
      BY <2>1 DEF Next, UnforkedNext, RestartingNext, ThreadFork
    <3>2. QED
      BY <2>1, <3>1, NextStep, KnownStep
  <2>2. CASE UNCHANGED vars
    BY <2>2 DEF vars, IInv, FilesLoaded, MappedWasMinted, KnownInv
  <2>3. QED
    BY <2>1, <2>2
<1>2. IInv /\ KnownInv => KnownIsRouted
  BY DEF IInv, FilesLoaded, KnownInv, KnownIsRouted
<1>3. QED
  BY <1>1, <1>2, InitIInv, InitKnownInv, PTL DEF Spec

\* What the invariants say of the tasks of a client that neither forks nor rolls
\* back: a known task is listed as itself, has its session alone, and is
\* remembered as it is saved.
LEMMA TasksApart ==
  ASSUME IInv, KnownInv, RouteInv
  PROVE  ListedAsItself /\ OneTaskPerSession /\ MemoriesAgree
<1>1. ASSUME NEW b \in up, NEW id \in known[b]
      PROVE  /\ id \in Ids /\ routes[b] = diskRoutes /\ diskRoutes[id] # None
             /\ threadToSession[b][id] \in {None, diskRoutes[id]}
             /\ diskSessions[id] \in {None, threadToSession[b][id]}
  <2>1. /\ id \in Ids /\ routes[b] = diskRoutes /\ diskRoutes[id] # None
        /\ diskSessions[id] # None => threadToSession[b][id] # None
    BY DEF IInv, FilesLoaded, KnownInv
  <2>2. /\ threadToSession[b][id] \in {None, diskRoutes[id]}
        /\ diskSessions[id] \in {None, diskRoutes[id]}
    BY <2>1, IdentityConstants DEF RouteInv, Ids
  <2>3. QED
    BY <2>1, <2>2
<1>2. ListedAsItself
  <2> SUFFICES ASSUME NEW b \in up, NEW id \in known[b], threadToSession[b][id] # None
               PROVE  PublicIds(routes[b], threadToSession[b][id]) = {id}
    BY DEF ListedAsItself
  <2> DEFINE s == threadToSession[b][id]
  <2>1. id \in Ids /\ routes[b] = diskRoutes /\ diskRoutes[id] = s /\ s # None
    BY <1>1
  <2>2. \A other \in Ids : diskRoutes[other] = s => other = id
    BY <2>1 DEF RouteInv
  <2> HIDE DEF s
  <2>3. CASE id = s
    <3>1. {other \in Ids \ {s} : diskRoutes[other] = s} = {}
      BY <2>2, <2>3
    <3>2. QED
      BY <2>1, <2>3, <3>1 DEF PublicIds, s
  <2>4. CASE id # s
    <3>1. {other \in Ids \ {s} : diskRoutes[other] = s} = {id}
      BY <2>1, <2>2, <2>4
    <3>2. QED
      BY <2>1, <3>1 DEF PublicIds, s
  <2>5. QED
    BY <2>3, <2>4
<1>3. OneTaskPerSession
  BY <1>1 DEF OneTaskPerSession, RouteInv
<1>4. MemoriesAgree
  BY <1>1 DEF MemoriesAgree
<1>5. QED
  BY <1>2, <1>3, <1>4

\* A client that neither forks nor rolls back, whatever it starts, resumes and
\* lists and however often the bridge stops with answers on their way, has each
\* of its tasks listed once and as itself, with a session of its own, and the
\* multiplexer, the adapter and their files agree about it.
THEOREM TasksStayApart ==
  ASSUME OneBridge, ~Forks, ~Rollbacks
  PROVE  Spec => [](ListedAsItself /\ OneTaskPerSession /\ MemoriesAgree)
<1> DEFINE Inv == IInv /\ KnownInv /\ RouteInv /\ AnswerInv
<1>1. Inv /\ [Next]_vars => Inv'
  <2> SUFFICES ASSUME Inv, [Next]_vars PROVE Inv'
    OBVIOUS
  <2>1. CASE Next
    <3>1. RestartingNext /\ UnforkedNext
      BY <2>1 DEF Next, UnforkedNext, RestartingNext, ThreadFork, ThreadRollback
    <3>2. QED
      BY <2>1, <3>1, NextStep, KnownStep, RouteInvStep
  <2>2. CASE UNCHANGED vars
    BY <2>2 DEF vars, IInv, FilesLoaded, MappedWasMinted, KnownInv, RouteInv, AnswerInv,
                StartedInv
  <2>3. QED
    BY <2>1, <2>2
<1>2. Init => Inv
  BY InitIInv, InitKnownInv, InitRouteInv
<1>3. Inv => ListedAsItself /\ OneTaskPerSession /\ MemoriesAgree
  BY TasksApart
<1>4. QED
  BY <1>1, <1>2, <1>3, PTL DEF Spec

-----------------------------------------------------------------------------
(* The run that checks this, in MCDurable: its parts are the client that     *)
(* forks and rolls back, the one that does not fork, and the one that does   *)
(* neither; the other parts leave what is known of tasks as it is.           *)

LEMMA InitTypeOK == Init => TypeOK
<1> SUFFICES ASSUME Init PROVE TypeOK
  OBVIOUS
<1>1. Empty \in [Ids -> Sessions \cup {None}]
  BY DEF Empty
<1>2. QED
  BY <1>1 DEF Init, TypeOK, RouteFile, SessionFile, Empty

LEMMA TypeStep ==
  ASSUME OneBridge, IInv, TypeOK, Next PROVE TypeOK'
<1>1. /\ IInv' /\ pipe \in [Bridges -> Seq(Answers)]
      /\ sessionToThread \in [Bridges -> [Sessions -> Ids \cup {None}]]
      /\ known \in [Bridges -> SUBSET Ids] /\ minted \subseteq Threads /\ rollouts \subseteq Threads
  BY NextStep DEF TypeOK
<1>2. sessionToThread' \in [Bridges -> [Sessions -> Ids \cup {None}]]
  <2>1. ASSUME NEW b \in Bridges, NEW id \in Ids, NEW s \in Sessions,
               CreateThreadSessionMapping(b, id, s)
        PROVE  sessionToThread' \in [Bridges -> [Sessions -> Ids \cup {None}]]
    BY <1>1, <2>1 DEF CreateThreadSessionMapping
  <2>2. ASSUME NEW b \in Bridges, NEW id \in Ids, ThreadResume(b, id)
        PROVE  sessionToThread' \in [Bridges -> [Sessions -> Ids \cup {None}]]
    BY <1>1, <2>1, <2>2 DEF ThreadResume, IInv, MappedWasMinted
  <2>3. ASSUME NEW b \in Bridges, Launch(b) \/ Stop(b)
        PROVE  sessionToThread' \in [Bridges -> [Sessions -> Ids \cup {None}]]
    BY <1>1, <2>3 DEF Launch, Stop
  <2>4. ASSUME NEW b \in Bridges,
               \/ ThreadStart(b)
               \/ \E id \in Ids : ThreadFork(b, id) \/ ThreadRollback(b, id)
        PROVE  sessionToThread' \in [Bridges -> [Sessions -> Ids \cup {None}]]
    BY <2>1, <2>4 DEF ThreadStart, ThreadFork, ThreadRollback, Ids
  <2>5. CASE AgentSession \/ \E b \in Bridges : ThreadList(b) \/ TakeAnswer(b) \/ TakeList(b)
    BY <1>1, <2>5 DEF AgentSession, bridgeVars, ThreadList, TakeAnswer, TakeList
  <2>6. QED
    BY <2>2, <2>3, <2>4, <2>5 DEF Next
<1>3. minted' \subseteq Threads /\ rollouts' \subseteq Threads
  BY <1>1 DEF Next, AgentSession, Launch, Stop, ThreadStart, ThreadList, TakeAnswer, TakeList,
              ThreadResume, ThreadFork, ThreadRollback, diskVars
<1>4. known' \in [Bridges -> SUBSET Ids]
  <2>1. ASSUME NEW b \in Bridges, TakeAnswer(b) PROVE known' \in [Bridges -> SUBSET Ids]
    <3>1. Head(pipe[b]) \in Answers /\ Head(pipe[b]).kind # "list"
      BY <1>1, <2>1 DEF TakeAnswer
    <3>2. Head(pipe[b]).id \in Ids
      BY <3>1 DEF Answers
    <3>3. QED
      BY <1>1, <2>1, <3>2 DEF TakeAnswer
  <2>2. ASSUME NEW b \in Bridges, TakeList(b) PROVE known' \in [Bridges -> SUBSET Ids]
    BY <1>1, <2>2 DEF TakeList
  <2>3. CASE known' = known
    BY <1>1, <2>3
  <2>4. QED
    BY <2>1, <2>2, <2>3
       DEF Next, AgentSession, Launch, Stop, ThreadStart, ThreadList, ThreadResume,
           ThreadFork, ThreadRollback
<1>5. QED
  BY <1>1, <1>2, <1>3, <1>4 DEF TypeOK, IInv, FilesLoaded, MappedWasMinted, RouteFile, SessionFile

\* The steps of the instance without forks are those without a fork.
LEMMA UnforkedSteps == Unforked!Next => UnforkedNext
<1> SUFFICES ASSUME Unforked!Next PROVE UnforkedNext
  OBVIOUS
<1>1. Unforked!AgentSession => AgentSession
  BY DEF Unforked!AgentSession, AgentSession, Unforked!bridgeVars, bridgeVars
<1>2. ASSUME NEW b \in Bridges, Unforked!Launch(b) PROVE Launch(b)
  BY <1>2 DEF Unforked!Launch, Launch, Unforked!diskVars, diskVars, Unforked!ReverseOf,
        ReverseOf, Unforked!Ids, Ids
<1>3. ASSUME NEW b \in Bridges, Unforked!Stop(b) PROVE Stop(b)
  BY <1>3 DEF Unforked!Stop, Stop, Unforked!Empty, Empty, Unforked!Ids, Ids,
        Unforked!diskVars, diskVars
<1>4. ASSUME NEW b \in Bridges, Unforked!ThreadStart(b) PROVE ThreadStart(b)
  BY <1>4 DEF Unforked!ThreadStart, ThreadStart, Unforked!Answer, Answer,
        Unforked!CreateThreadSessionMapping, CreateThreadSessionMapping
<1>5. ASSUME NEW b \in Bridges, Unforked!ThreadList(b) PROVE ThreadList(b)
  BY <1>5 DEF Unforked!ThreadList, ThreadList, Unforked!Answer, Answer, Unforked!diskVars,
        diskVars
<1>6. ASSUME NEW b \in Bridges, Unforked!TakeAnswer(b) PROVE TakeAnswer(b)
  BY <1>6 DEF Unforked!TakeAnswer, TakeAnswer, Unforked!RecordRoute, RecordRoute,
        Unforked!RouteInsert, RouteInsert
<1>7. ASSUME NEW b \in Bridges, Unforked!TakeList(b) PROVE TakeList(b)
  BY <1>7 DEF Unforked!TakeList, TakeList, Unforked!MergeRoutes, MergeRoutes,
        Unforked!ListedAs, ListedAs, Unforked!PublicIds, PublicIds, Unforked!RouteInsert,
        RouteInsert, Unforked!Ids, Ids
<1>8. ASSUME NEW b \in Bridges, NEW id \in Ids, Unforked!ThreadResume(b, id) PROVE ThreadResume(b, id)
  BY <1>8 DEF Unforked!ThreadResume, ThreadResume, Unforked!SessionToResume,
        SessionToResume, Unforked!RoutedToGrok, RoutedToGrok, Unforked!Answer, Answer,
        Unforked!CreateThreadSessionMapping, CreateThreadSessionMapping
<1>9. ASSUME NEW b \in Bridges, NEW id \in Ids, Unforked!ThreadRollback(b, id) PROVE ThreadRollback(b, id)
  BY <1>9 DEF Unforked!ThreadRollback, ThreadRollback, Unforked!RoutedToGrok, RoutedToGrok,
        Unforked!Answer, Answer, Unforked!CreateThreadSessionMapping,
        CreateThreadSessionMapping
<1>10. \A b \in Bridges, id \in Ids : ~Unforked!ThreadFork(b, id)
  BY DEF Unforked!ThreadFork
<1>11. QED
  BY <1>1, <1>2, <1>3, <1>4, <1>5, <1>6, <1>7, <1>8, <1>9, <1>10
     DEF Unforked!Next, UnforkedNext, RestartingNext, Unforked!Ids, Ids

\* And those of the instance without rollbacks too.
LEMMA RestartingSteps == Restarting!Next => RestartingNext
<1> SUFFICES ASSUME Restarting!Next PROVE RestartingNext
  OBVIOUS
<1>1. Restarting!AgentSession => AgentSession
  BY DEF Restarting!AgentSession, AgentSession, Restarting!bridgeVars, bridgeVars
<1>2. ASSUME NEW b \in Bridges, Restarting!Launch(b) PROVE Launch(b)
  BY <1>2 DEF Restarting!Launch, Launch, Restarting!diskVars, diskVars,
        Restarting!ReverseOf, ReverseOf, Restarting!Ids, Ids
<1>3. ASSUME NEW b \in Bridges, Restarting!Stop(b) PROVE Stop(b)
  BY <1>3 DEF Restarting!Stop, Stop, Restarting!Empty, Empty, Restarting!Ids, Ids,
        Restarting!diskVars, diskVars
<1>4. ASSUME NEW b \in Bridges, Restarting!ThreadStart(b) PROVE ThreadStart(b)
  BY <1>4 DEF Restarting!ThreadStart, ThreadStart, Restarting!Answer, Answer,
        Restarting!CreateThreadSessionMapping, CreateThreadSessionMapping
<1>5. ASSUME NEW b \in Bridges, Restarting!ThreadList(b) PROVE ThreadList(b)
  BY <1>5 DEF Restarting!ThreadList, ThreadList, Restarting!Answer, Answer,
        Restarting!diskVars, diskVars
<1>6. ASSUME NEW b \in Bridges, Restarting!TakeAnswer(b) PROVE TakeAnswer(b)
  BY <1>6 DEF Restarting!TakeAnswer, TakeAnswer, Restarting!RecordRoute, RecordRoute,
        Restarting!RouteInsert, RouteInsert
<1>7. ASSUME NEW b \in Bridges, Restarting!TakeList(b) PROVE TakeList(b)
  BY <1>7 DEF Restarting!TakeList, TakeList, Restarting!MergeRoutes, MergeRoutes,
        Restarting!ListedAs, ListedAs, Restarting!PublicIds, PublicIds,
        Restarting!RouteInsert, RouteInsert, Restarting!Ids, Ids
<1>8. ASSUME NEW b \in Bridges, NEW id \in Ids, Restarting!ThreadResume(b, id) PROVE ThreadResume(b, id)
  BY <1>8 DEF Restarting!ThreadResume, ThreadResume, Restarting!SessionToResume,
        SessionToResume, Restarting!RoutedToGrok, RoutedToGrok, Restarting!Answer, Answer,
        Restarting!CreateThreadSessionMapping, CreateThreadSessionMapping
<1>9. \A b \in Bridges, id \in Ids : ~Restarting!ThreadFork(b, id)
  BY DEF Restarting!ThreadFork
<1>10. \A b \in Bridges, id \in Ids : ~Restarting!ThreadRollback(b, id)
  BY DEF Restarting!ThreadRollback
<1>11. QED
  BY <1>1, <1>2, <1>3, <1>4, <1>5, <1>6, <1>7, <1>8, <1>9, <1>10
     DEF Restarting!Next, RestartingNext, Restarting!Ids, Ids

-----------------------------------------------------------------------------
\* What the run keeps, with what holds for the part it is in.
MCInv ==
  /\ part \in {"tasks", "unforked", "restarts"} => IInv
  /\ part = "tasks" => TypeOK
  /\ part \in {"unforked", "restarts"} => KnownInv
  /\ part = "restarts" => RouteInv /\ AnswerInv

\* What the run checks of tasks, on every instance with one bridge: everything
\* a client knows of a task stays true of it, see MCDurable.
THEOREM TasksKnownHold == ASSUME OneBridge PROVE MCSpec => []TasksKnown
<1>1. MCInit => MCInv
  BY InitIInv, InitTypeOK, InitKnownInv, InitRouteInv DEF MCInit, MCInv
<1>2. MCInv /\ [MCNext]_allVars => MCInv'
  <2> SUFFICES ASSUME MCInv, [MCNext]_allVars PROVE MCInv'
    OBVIOUS
  <2>1. CASE UNCHANGED vars /\ part' = part
    BY <2>1 DEF vars, MCInv, IInv, FilesLoaded, MappedWasMinted, TypeOK, KnownInv, RouteInv,
                AnswerInv, StartedInv
  <2>2. CASE part = "tasks" /\ part' = part /\ Next
    BY <2>2, NextStep, TypeStep DEF MCInv
  <2>3. CASE part = "unforked" /\ part' = part /\ UnforkedNext
    <3>1. Next
      BY <2>3 DEF Next, UnforkedNext, RestartingNext
    <3>2. QED
      BY <2>3, <3>1, NextStep, KnownStep DEF MCInv
  <2>4. CASE part = "restarts" /\ part' = part /\ RestartingNext
    <3>1. Next /\ UnforkedNext
      BY <2>4 DEF Next, UnforkedNext, RestartingNext
    <3>2. QED
      BY <2>4, <3>1, NextStep, KnownStep, RouteInvStep DEF MCInv
  <2>5. \/ UNCHANGED vars /\ part' = part
        \/ part = "tasks" /\ part' = part /\ Next
        \/ part = "unforked" /\ part' = part /\ UnforkedNext
        \/ part = "restarts" /\ part' = part /\ RestartingNext
    <3>1. CASE UNCHANGED allVars
      BY <3>1 DEF allVars
    <3>2. CASE \/ InTasks /\ AgentSession
               \/ InTasks /\ \E b \in Bridges : Launch(b)
               \/ InTasks /\ \E b \in Bridges : Stop(b)
               \/ InTasks /\ \E b \in Bridges : ThreadStart(b)
               \/ InTasks /\ \E b \in Bridges : ThreadList(b)
               \/ InTasks /\ \E b \in Bridges : TakeAnswer(b)
               \/ InTasks /\ \E b \in Bridges : TakeList(b)
               \/ InTasks /\ \E b \in Bridges, id \in Ids : ThreadResume(b, id)
               \/ InTasks /\ \E b \in Bridges, id \in Ids : ThreadFork(b, id)
               \/ InTasks /\ \E b \in Bridges, id \in Ids : ThreadRollback(b, id)
      BY <3>2 DEF InTasks, Next
    <3>3. CASE InUnforked /\ Unforked!Next
      BY <3>3, UnforkedSteps DEF InUnforked
    <3>4. CASE InRestarts /\ Restarting!Next
      BY <3>4, RestartingSteps DEF InRestarts
    <3>5. CASE InNames \/ InTitles \/ InScan \/ InHistory \/ InLists \/ InHeads
      BY <3>5 DEF InNames, InTitles, InScan, InHistory, InLists, InHeads
    <3>6. QED
      BY <3>1, <3>2, <3>3, <3>4, <3>5, Zenon DEF MCNext
  <2>6. QED
    BY <2>1, <2>2, <2>3, <2>4, <2>5
<1>3. MCInv => TasksKnown
  BY TasksApart DEF MCInv, TasksKnown, IInv, FilesLoaded, KnownInv, KnownIsRouted
<1>4. QED
  BY <1>1, <1>2, <1>3, PTL DEF MCSpec
=============================================================================
