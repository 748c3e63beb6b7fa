----------------------------- MODULE FileSearch -----------------------------
(***************************************************************************)
(* A file search session (crates/file-search/src/lib.rs), which serves     *)
(* fuzzyFileSearch (src/src/lib.rs).                                       *)
(*                                                                         *)
(* Its parties run concurrently.  The owner of the session updates the     *)
(* query, may raise the cancel flag and drops the session; the walkers     *)
(* push the files they find into the engine; the matcher takes signals     *)
(* off an unbounded queue, lets the engine tick when its timer fires, and  *)
(* tells the reporter of changed results and of completion.                *)
(*                                                                         *)
(* The engine (the nucleo crate) is external.  A tick hands the pattern    *)
(* and the files pushed so far to its workers.  Either the tick settles:   *)
(* the snapshot is the result for those; or it runs out of time: the       *)
(* snapshot is at best what the workers had before, and a notification is  *)
(* owed for when they are done.                                            *)
(***************************************************************************)
EXTENDS Integers, Sequences, FiniteSets

CONSTANTS
  Files,        \* the files under the search directories
  Walkers,      \* the threads of the walk
  CheckEvery,   \* CHECK_INTERVAL: files between two looks at the flags
  MaxQueries,   \* bound: how often the owner updates the query
  Cancels,      \* whether the session has a cancel flag that may be raised
  OneShot       \* whether the owner is run(): one query, wait, drop

FileSearchConstants ==
  /\ CheckEvery \in Nat \ {0} /\ MaxQueries \in Nat
  /\ Cancels \in BOOLEAN /\ OneShot \in BOOLEAN

VARIABLES
  asked,      \* how many queries were sent; query 0 is the empty one
  cancelled,  \* the cancel flag
  shutdown,   \* the session is dropped and its flag set
  left,       \* the files the walk has not come to
  since,      \* per walker: files since it last looked at the flags
  walked,     \* WalkComplete is sent
  queue,      \* work_rx
  last,       \* last_query
  armed,      \* will_notify: next_notify is to fire
  complete,   \* walk_complete
  ended,      \* matcher_worker has returned
  engine,     \* what was pushed, what the workers have, what they show
  shown,      \* the result of the latest on_update
  told,       \* queries taken before the latest on_complete, -1 before any
  answer      \* what run() has returned

owner   == <<asked, cancelled, shutdown, answer>>
walk    == <<left, since, walked>>
matcher == <<last, armed, complete, ended, shown, told>>
vars    == <<asked, cancelled, shutdown, left, since, walked, queue, last, armed,
             complete, ended, engine, shown, told, answer>>

Result(query, files) == [query |-> query, files |-> files]
Results == [query : 0..MaxQueries, files : SUBSET Files]
Nothing == Result(0, {})
NoAnswer == Result(-1, {})

Signal(kind) == [kind |-> kind, query |-> 0]
QueryUpdated(k) == [kind |-> "QueryUpdated", query |-> k]
Signals == {Signal(kind) : kind \in {"NucleoNotify", "WalkComplete", "Shutdown"}}
             \cup {QueryUpdated(k) : k \in 1..MaxQueries}

TypeOK ==
  /\ asked \in 0..MaxQueries /\ cancelled \in BOOLEAN /\ shutdown \in BOOLEAN
  /\ left \subseteq Files /\ since \in [Walkers -> 0..CheckEvery - 1] /\ walked \in BOOLEAN
  /\ \A i \in DOMAIN queue : queue[i] \in Signals
  /\ last \in 0..asked /\ armed \in BOOLEAN /\ complete \in BOOLEAN /\ ended \in BOOLEAN
  /\ engine.pushed \subseteq Files /\ engine.work \in Results /\ engine.owed \in BOOLEAN
  /\ engine.snapshot \in Results /\ shown \in Results
  /\ told \in -1..asked /\ answer \in Results \cup {NoAnswer}

-----------------------------------------------------------------------------
(* The owner. *)

\* A shared cancel flag may be up before the session is created.
Init ==
  /\ asked = 0 /\ cancelled \in {FALSE, Cancels} /\ shutdown = FALSE
  /\ left = Files /\ since = [w \in Walkers |-> 0] /\ walked = FALSE
  /\ queue = <<>>
  /\ last = 0 /\ armed = FALSE /\ complete = FALSE /\ ended = FALSE
  /\ engine = [pushed |-> {}, work |-> Nothing, snapshot |-> Nothing, owed |-> FALSE]
  /\ shown = Nothing /\ told = -1 /\ answer = NoAnswer

UpdateQuery ==
  /\ ~shutdown /\ asked < MaxQueries
  /\ asked' = asked + 1
  /\ queue' = Append(queue, QueryUpdated(asked'))
  /\ UNCHANGED <<cancelled, shutdown, walk, matcher, engine, answer>>

Cancel ==
  /\ Cancels /\ ~cancelled
  /\ cancelled' = TRUE
  /\ UNCHANGED <<asked, shutdown, answer, walk, queue, matcher, engine>>

DropSession ==
  /\ shutdown' = TRUE
  /\ queue' = Append(queue, Signal("Shutdown"))

Drop ==
  /\ ~OneShot /\ ~shutdown
  /\ DropSession
  /\ UNCHANGED <<asked, cancelled, answer, walk, matcher, engine>>

\* run: its query sent, it waits for the first on_complete, reads what is shown
\* and drops the session.
RunReturns ==
  /\ OneShot /\ ~shutdown
  /\ asked = MaxQueries /\ told >= 0
  /\ answer' = shown
  /\ DropSession
  /\ UNCHANGED <<asked, cancelled, walk, matcher, engine>>

-----------------------------------------------------------------------------
(* The walk. *)

Flagged == cancelled \/ shutdown

\* A walker looks at the flags once in CheckEvery files and may end the walk.
Quits(w) == since[w] + 1 = CheckEvery /\ Flagged

NewCount(n) == n % CheckEvery

Visit(w, f) ==
  /\ f \in left
  /\ left' = IF Quits(w) THEN {} ELSE left \ {f}
  /\ since' = [since EXCEPT ![w] = NewCount(@ + 1)]
  /\ engine' = [engine EXCEPT !.pushed = @ \cup {f}]
  /\ queue' = Append(queue, Signal("NucleoNotify"))
  /\ UNCHANGED <<owner, walked, matcher>>

WalkEnds ==
  /\ left = {} /\ ~walked
  /\ walked' = TRUE
  /\ queue' = Append(queue, Signal("WalkComplete"))
  /\ UNCHANGED <<owner, left, since, matcher, engine>>

-----------------------------------------------------------------------------
(* The engine. *)

Current == Result(last, engine.pushed)

Settles == engine' = [engine EXCEPT !.work = Current, !.snapshot = Current]
RunsOn  == \E seen \in {engine.snapshot, engine.work} :
             engine' = [engine EXCEPT !.work = Current, !.snapshot = seen, !.owed = TRUE]

EngineNotifies ==
  /\ engine.owed
  /\ engine' = [engine EXCEPT !.owed = FALSE]
  /\ queue' = Append(queue, Signal("NucleoNotify"))
  /\ UNCHANGED <<owner, walk, matcher>>

-----------------------------------------------------------------------------
(* The matcher: each iteration of its loop takes one arm of the select and *)
(* then looks at the flags; when it leaves it tells of completion once     *)
(* more, for every query there was.                                        *)

Leaves(stops) == stops \/ Flagged

EndIteration(stops, idle) ==
  /\ ended' = Leaves(stops)
  /\ told' = IF ended' THEN asked ELSE IF idle THEN last ELSE told

Arms(kind) == kind # "Shutdown"

TakeSignal ==
  /\ ~ended /\ queue # <<>>
  /\ LET signal == Head(queue)
     IN /\ last' = IF signal.kind = "QueryUpdated" THEN signal.query ELSE last
        /\ armed' = (armed \/ Arms(signal.kind))
        /\ complete' = (complete \/ signal.kind = "WalkComplete")
        /\ EndIteration(signal.kind = "Shutdown", FALSE)
  /\ queue' = Tail(queue)
  /\ UNCHANGED <<owner, walk, engine, shown>>

\* mistake: the walk may still be under way
IdleWhenSettled(settled) == settled
Idle(settled) == settled /\ complete

\* next_notify fires.  on_update is called when the snapshot has changed.
Tick(settled) ==
  /\ ~ended /\ armed
  /\ armed' = FALSE
  /\ IF settled THEN Settles ELSE RunsOn
  /\ shown' = engine'.snapshot
  /\ EndIteration(FALSE, Idle(settled))
  /\ UNCHANGED <<owner, walk, queue, last, complete>>

\* 100 ms without a signal: the loop comes round to look at the flags.
TimeOut ==
  /\ ~ended /\ queue = <<>> /\ ~armed
  /\ EndIteration(FALSE, FALSE)
  /\ UNCHANGED <<owner, walk, queue, engine, last, armed, complete, shown>>

-----------------------------------------------------------------------------
Next ==
  \/ UpdateQuery \/ Cancel \/ Drop \/ RunReturns
  \/ \E w \in Walkers, f \in Files : Visit(w, f)
  \/ WalkEnds \/ EngineNotifies
  \/ TakeSignal \/ Tick(TRUE) \/ Tick(FALSE) \/ TimeOut

Spec == Init /\ [][Next]_vars

(* The threads run, and the engine has time for every search in the end; it *)
(* may run out of time often.  The owner need not do anything, but run()    *)
(* goes on.                                                                 *)
Fairness ==
  /\ \A w \in Walkers : WF_vars(\E f \in Files : Visit(w, f))
  /\ WF_vars(WalkEnds) /\ WF_vars(EngineNotifies)
  /\ WF_vars(TakeSignal) /\ SF_vars(Tick(TRUE)) /\ WF_vars(TimeOut)
  /\ WF_vars(OneShot /\ UpdateQuery) /\ WF_vars(RunReturns)

FairSpec == Spec /\ Fairness

-----------------------------------------------------------------------------
\* What run() returns without cancellation was searched for in all the files,
\* though results may be reported between the completion and its reading them.
RunReturnsAll == answer # NoAnswer /\ ~cancelled => answer.files = Files

\* Every query is followed by a completion that was told when it was taken, or when
\* the session ended (SessionReporter: "at least once per update_query").
\* The code does not keep this once the search is cancelled: see README.
QueriesComplete == \A k \in 1..MaxQueries : asked >= k ~> told >= k

\* run() returns results of its query (test run_returns_matches_for_query).
\* The code does not keep this: see README.
RunReturnsItsQuery == answer # NoAnswer /\ ~cancelled => answer.query = MaxQueries
=============================================================================
