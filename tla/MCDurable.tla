----------------------------- MODULE MCDurable ------------------------------
(* What outlives a process, for TLC: routes and sessions of tasks, their     *)
(* names, their rollout files and how these are listed.  The components do   *)
(* not step together: a behaviour is one of one component, on an instance of *)
(* its own, and one run checks them all.                                     *)
EXTENDS TaskIdentity, TLC

CONSTANTS
  NameThreads, NameTexts, MaxRenames,              \* SessionIndex
  NoText,                                          \* the text of a blank name
  ScanBytes, ScanTarget, ScanLength, ScanChunks, ScanAppends, \* IndexScan
  HistThreads, MaxDay, MaxRollbacks, MaxRestarts,  \* RolloutHistory
  MaxFile, MaxTime, ScanCap, PageSizes, SortKeys, Layouts,    \* RolloutPages
  Writers, HeadLimit, UserLimit, HeadLines, MaxSaid,          \* RolloutHead
  Unused \* the value of what is not used in a behaviour

\* The same instance without forks, and without rollbacks too.
Unforked   == INSTANCE TaskIdentity WITH Forks <- FALSE
Restarting == INSTANCE TaskIdentity WITH Forks <- FALSE, Rollbacks <- FALSE

VARIABLE part   \* the component this behaviour is of; the others rest

\* The names of tasks and the search of their file.
VARIABLES namesIndex, namesNaming, namesLanding, namesAnnounced, namesRenames
namesVars == <<namesIndex, namesNaming, namesLanding, namesAnnounced,
               namesRenames>>
Names == INSTANCE SessionIndex WITH
  Threads <- NameThreads, Texts <- NameTexts, EmptyText <- NoText,
  MaxRenames <- MaxRenames, AgentTitles <- FALSE, AppendFails <- TRUE,
  Restarts <- TRUE, NoRename <- None, index <- namesIndex,
  naming <- namesNaming, landing <- namesLanding, announced <- namesAnnounced,
  renames <- namesRenames
Titles == INSTANCE SessionIndex WITH
  Threads <- NameThreads, Texts <- NameTexts, EmptyText <- NoText,
  MaxRenames <- MaxRenames, AgentTitles <- TRUE, AppendFails <- FALSE,
  Restarts <- FALSE, NoRename <- None, index <- namesIndex,
  naming <- namesNaming, landing <- namesLanding, announced <- namesAnnounced,
  renames <- namesRenames

\* The search of that file from its end.
VARIABLES scanFile, scanChunk, scanOpened, scanAppends, scanRemaining,
          scanLineRev, scanFound, scanDone
scanVars == <<scanFile, scanChunk, scanOpened, scanAppends, scanRemaining,
              scanLineRev, scanFound, scanDone>>
Scan == INSTANCE IndexScan WITH
  Bytes <- ScanBytes, Newline <- "newline", Target <- ScanTarget,
  MaxLength <- ScanLength, ChunkSizes <- ScanChunks, MaxAppends <- ScanAppends,
  NoEntry <- None, file <- scanFile,
  chunk <- scanChunk, opened <- scanOpened, appends <- scanAppends,
  remaining <- scanRemaining, lineRev <- scanLineRev, found <- scanFound,
  done <- scanDone

\* The rollout files of threads.
VARIABLES histFiles, histHeaders, histItems, histToday, histOpenFiles,
          histThreadFiles, histUnwritten, histSession, histSessions,
          histHandler, histRollbacks, histRestarts
histVars == <<histFiles, histHeaders, histItems, histToday, histOpenFiles,
              histThreadFiles, histUnwritten, histSession, histSessions,
              histHandler, histRollbacks, histRestarts>>
History == INSTANCE RolloutHistory WITH
  Threads <- HistThreads, MaxDay <- MaxDay, MaxRollbacks <- MaxRollbacks,
  MaxRestarts <- MaxRestarts, FileFails <- TRUE, AgentFails <- TRUE,
  NoFile <- None, NoThread <- None,
  files <- histFiles, headers <- histHeaders, items <- histItems,
  today <- histToday, openFiles <- histOpenFiles,
  threadFiles <- histThreadFiles, unwritten <- histUnwritten,
  session <- histSession, sessions <- histSessions, handler <- histHandler,
  rollbacks <- histRollbacks, restarts <- histRestarts

\* The pages they are listed on.
VARIABLES listFiles, listCreated, listUpdated, listHidden, listNow,
          listListing, listSessions, listForeign, listNext, listShown,
          listFresh, listStatus
listVars == <<listFiles, listCreated, listUpdated, listHidden, listNow,
              listListing, listSessions, listForeign, listNext, listShown,
              listFresh, listStatus>>
Lists == INSTANCE RolloutPages WITH
  MaxFile <- MaxFile, MaxTime <- MaxTime, ScanCap <- ScanCap,
  PageSizes <- PageSizes, SortKeys <- SortKeys, AgentLists <- FALSE,
  Layouts <- Layouts, NoCursor <- None, files <- listFiles,
  created <- listCreated, updated <- listUpdated, hidden <- listHidden,
  now <- listNow, listing <- listListing, sessions <- listSessions,
  foreign <- listForeign, next <- listNext, shown <- listShown,
  fresh <- listFresh, status <- listStatus

\* What the list reads of a file.
VARIABLES headWriter, headLines, headSaid, headAsked
headVars == <<headWriter, headLines, headSaid, headAsked>>
Heads == INSTANCE RolloutHead WITH
  Writers <- Writers, HeadLimit <- HeadLimit, UserLimit <- UserLimit,
  MaxLines <- HeadLines, MaxSaid <- MaxSaid, writer <- headWriter, lines <- headLines,
  said <- headSaid, asked <- headAsked

\* The values the instances are given are as their modules ask.
ASSUME InstanceConstants ==
  /\ Names!SessionIndexConstants
  /\ Titles!SessionIndexConstants
  /\ NoText \notin NameTexts
  /\ Scan!IndexScanConstants
  /\ History!RolloutHistoryConstants
  /\ Lists!RolloutPagesConstants
  /\ Heads!RolloutHeadConstants

-----------------------------------------------------------------------------
AllParts == {"tasks", "unforked", "restarts", "names", "titles", "scan",
             "history", "lists", "heads"}

InTasks == part = "tasks" /\ UNCHANGED <<part, namesVars, scanVars, histVars,
    listVars, headVars>>
InUnforked == part = "unforked" /\ UNCHANGED <<part, namesVars, scanVars,
    histVars, listVars, headVars>>
InRestarts == part = "restarts" /\ UNCHANGED <<part, namesVars, scanVars,
    histVars, listVars, headVars>>
InNames == part = "names" /\ UNCHANGED <<part, vars, scanVars, histVars,
    listVars, headVars>>
InTitles == part = "titles" /\ UNCHANGED <<part, vars, scanVars, histVars,
    listVars, headVars>>
InScan == part = "scan" /\ UNCHANGED <<part, vars, namesVars, histVars,
    listVars, headVars>>
InHistory == part = "history" /\ UNCHANGED <<part, vars, namesVars, scanVars,
    listVars, headVars>>
InLists == part = "lists" /\ UNCHANGED <<part, vars, namesVars, scanVars,
    histVars, headVars>>
InHeads == part = "heads" /\ UNCHANGED <<part, vars, namesVars, scanVars,
    histVars, listVars>>

MCInit ==
  /\ part \in AllParts
  /\ Init
  /\ Names!Init
  /\ IF part = "scan" THEN Scan!Init
     ELSE /\ scanFile = Unused /\ scanChunk = Unused /\ scanOpened = Unused
          /\ scanAppends = Unused /\ scanRemaining = Unused
          /\ scanLineRev = Unused /\ scanFound = Unused /\ scanDone = Unused
  /\ History!Init
  /\ IF part = "lists" THEN Lists!Init
     ELSE /\ listFiles = Unused /\ listCreated = Unused
          /\ listUpdated = Unused /\ listHidden = Unused /\ listNow = Unused
          /\ listListing = Unused /\ listSessions = Unused
          /\ listForeign = Unused /\ listNext = Unused /\ listShown = Unused
          /\ listFresh = Unused /\ listStatus = Unused
  /\ IF part = "heads" THEN Heads!Init
     ELSE /\ headWriter = Unused /\ headLines = Unused /\ headSaid = Unused
          /\ headAsked = Unused

MCNext ==
  \/ InTasks /\ AgentSession
  \/ InTasks /\ \E b \in Bridges : Launch(b)
  \/ InTasks /\ \E b \in Bridges : Stop(b)
  \/ InTasks /\ \E b \in Bridges : ThreadStart(b)
  \/ InTasks /\ \E b \in Bridges : ThreadList(b)
  \/ InTasks /\ \E b \in Bridges : TakeAnswer(b)
  \/ InTasks /\ \E b \in Bridges : TakeList(b)
  \/ InTasks /\ \E b \in Bridges, id \in Ids : ThreadResume(b, id)
  \/ InTasks /\ \E b \in Bridges, id \in Ids : ThreadFork(b, id)
  \/ InTasks /\ \E b \in Bridges, id \in Ids : ThreadRollback(b, id)
  \/ InUnforked /\ Unforked!Next
  \/ InRestarts /\ Restarting!Next
  \/ InNames /\ \E t \in NameThreads, n \in Names!Names : Names!NameSet(t, n)
  \/ InNames /\ Names!NameAppended
  \/ InNames /\ Names!NameFailed
  \/ InNames /\ Names!Restart
  \/ InTitles /\ \E t \in NameThreads, n \in Titles!Names : Titles!AgentTitle(t, n)
  \/ InTitles /\ \E r \in namesLanding : Titles!TitleAppended(r)
  \/ InTitles /\ \E t \in NameThreads, n \in Titles!Names : Titles!NameSet(t, n)
  \/ InTitles /\ Titles!NameAppended
  \/ InScan /\ Scan!ReadChunk
  \/ InScan /\ Scan!LastTry
  \/ InScan /\ \E name \in ScanBytes : Scan!Appended(name)
  \/ InHistory /\ \E t \in HistThreads : History!ThreadStart(t)
  \/ InHistory /\ \E t \in HistThreads : History!ThreadResume(t)
  \/ InHistory /\ \E t \in HistThreads : History!ThreadRollback(t)
  \/ InHistory /\ \E t \in HistThreads : History!ThreadArchive(t)
  \/ InHistory /\ \E t \in HistThreads : History!ThreadUnarchive(t)
  \/ InHistory /\ \E s, t \in HistThreads : History!ThreadFork(s, t)
  \/ InHistory /\ History!StartAnswered
  \/ InHistory /\ History!ForkAnswered
  \/ InHistory /\ History!RollbackAnswered
  \/ InHistory /\ History!AgentRefuses
  \/ InHistory /\ History!Midnight
  \/ InHistory /\ History!Restart
  \/ InLists /\ Lists!ListPage
  \/ InLists /\ Lists!Tick
  \/ InLists /\ \E f \in 1..MaxFile : Lists!FileCreated(f)
  \/ InLists /\ \E f \in 1..MaxFile : Lists!FileWritten(f)
  \/ InLists /\ \E f \in 1..MaxFile : Lists!FileArchived(f)
  \/ InHeads /\ Heads!BridgeStarts
  \/ InHeads /\ Heads!BridgeTurn
  \/ InHeads /\ Heads!BridgeRollback
  \/ InHeads /\ Heads!OtherWrites

allVars == <<part, vars, namesVars, scanVars, histVars, listVars, headVars>>
MCSpec == MCInit /\ [][MCNext]_allVars

\* No action or property names one of these.
Symmetry == Permutations(Threads) \cup Permutations(Sessions)

-----------------------------------------------------------------------------
(* Properties, beside RoutesSurvive and TaskKeepsSession of TaskIdentity.    *)

\* A task the client knows is handed to Grok unless a fork made it; without
\* rollbacks, which leave the route behind, it is listed once, as itself, no
\* two prompt one session, and memories and files agree across restarts as far as the
\* files could be written.
TasksKnown ==
  /\ part = "tasks" => TypeOK
  /\ part \in {"unforked", "restarts"} => KnownIsRouted
  /\ part = "restarts" => ListedAsItself /\ OneTaskPerSession /\ MemoriesAgree

\* The two readers of names agree, and what they find is none that a newer name
\* replaced, whatever failed or ended meanwhile; the search of the file from its
\* end finds the newest entry however chunks cut the lines.
NamesRead ==
  /\ part = "names" => Names!TypeOK /\ Names!NothingOlderShown
  /\ part \in {"names", "titles"} => Names!ReadersAgree
  /\ part = "scan" => Scan!TypeOK /\ Scan!FindsNewest

\* A thread's rollout file is found, across days and archives, a fork begins with
\* what its source held as far as it could be written, and rollback markers stand
\* in order, each once.  Over the pages of a list no thread that is left alone is
\* missed or comes twice or out of order, whatever is created, written and archived
\* between them; a file is listed exactly when its header and a message of the user
\* are found, and thread/read finds the header it is listed by.
RolloutsFound ==
  /\ part = "history" => /\ History!TypeOK /\ History!ReadFindsThread
                         /\ History!ForkIsCopy /\ History!MarkersInOrder
  /\ part = "lists" =>
       Lists!TypeOK /\ Lists!ShownOnce /\ Lists!AllShown /\ Lists!ShownInOrder
  /\ part = "heads" => Heads!TypeOK /\ Heads!ListedWhenFound /\ Heads!ReadShowsListed

\* A rollout file only grows, and what is written to it later neither hides the
\* thread nor changes the entry it is listed with.
RolloutsGrow ==
  /\ History!HistoryKept
  /\ [][part = "heads" => (Heads!Listed(headLines) =>
          Heads!Listed(headLines') /\ Heads!Item(headLines') = Heads!Item(headLines))]_headVars
=============================================================================
