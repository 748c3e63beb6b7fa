--------------------------- MODULE RolloutHistory ---------------------------
(***************************************************************************)
(* The rollout files of the gateway's threads                              *)
(* (src/src/rollout/recorder.rs and the handlers that use it): a file is   *)
(* written when a thread starts or forks, gains a marker when turns are    *)
(* rolled back, moves between sessions/ and archived_sessions/, and is     *)
(* found again through a map in memory or a scan of the directory, by this *)
(* process or the next.                                                    *)
(*                                                                         *)
(* The gateway records no turns, so past its header a file holds the       *)
(* markers of thread/rollback only; a marker is the number of its request. *)
(* Days stand for the YYYY/MM/DD of a path.  One handler runs at a time.   *)
(*                                                                         *)
(* Writing may fail at any point, and the recorder only logs it: lines are *)
(* flushed one by one from the buffer of the thread's writer, a line that  *)
(* was not written stays in it and goes out with a later one, if there is  *)
(* one.  The buffer is larger than all lines of a thread, and readers skip *)
(* the piece of a line that a failure leaves at the end of a file.         *)
(***************************************************************************)
EXTENDS Naturals, Sequences, SequencesExt, FiniteSets

CONSTANTS
  Threads,       \* thread ids
  MaxDay,        \* days that pass
  MaxRollbacks,  \* rollback requests
  MaxRestarts,   \* times the process is started again
  FileFails,     \* can a rollout file fail to be created or written?
  AgentFails,    \* can the agent refuse a session?
  NoFile,        \* no path
  NoThread       \* no thread

\* A path: its directory, the date of the directory, the date of the file name.
Path == [dir : {"sessions", "archived_sessions"}, day : 0..MaxDay, name : 0..MaxDay]
Markers == 1..MaxRollbacks

RolloutHistoryConstants ==
  /\ MaxDay \in Nat /\ MaxRollbacks \in Nat /\ MaxRestarts \in Nat
  /\ FileFails \in BOOLEAN /\ AgentFails \in BOOLEAN
  /\ NoThread \notin Threads /\ NoFile \notin Path

VARIABLES
  files,        \* the path of each thread's rollout file
  headers,      \* threads whose file has its header
  items,        \* the lines that follow it
  today,
  openFiles,    \* open_files: threads with an open writer
  threadFiles,  \* thread_files: the paths the process remembers
  unwritten,    \* the lines in the buffer of each thread's writer
  session,      \* the agent session of each thread, 0 for none
  sessions,     \* sessions the agent has made
  handler,      \* the handler that waits for the agent
  rollbacks,    \* the requests so far: thread, its session then, answer
  restarts

disk   == <<files, headers, items>>
memory == <<openFiles, threadFiles, unwritten>>
vars   == <<files, headers, items, today, openFiles, threadFiles, unwritten,
            session, sessions, handler, rollbacks, restarts>>

NoHandler == [op |-> "none", thread |-> NoThread, source |-> NoThread]

Handlers == [op : {"none", "start", "fork", "rollback"},
             thread : Threads \cup {NoThread}, source : Threads \cup {NoThread}]

TypeOK ==
  /\ files \in [Threads -> Path \cup {NoFile}]
  /\ headers \subseteq Threads
  /\ items \in [Threads -> Seq(Markers)]
  /\ today \in 0..MaxDay
  /\ openFiles \subseteq Threads
  /\ threadFiles \in [Threads -> Path \cup {NoFile}]
  /\ unwritten \in [Threads -> Seq(Markers)]
  /\ session \in [Threads -> 0..sessions]
  /\ sessions \in Nat
  /\ handler \in Handlers
  /\ rollbacks \in Seq([thread : Threads, session : Nat,
                        answer : {"none", "ok", "error"}])
  /\ restarts \in 0..MaxRestarts

Init ==
  /\ files = [t \in Threads |-> NoFile]
  /\ headers = {}
  /\ items = [t \in Threads |-> <<>>]
  /\ today = 0
  /\ openFiles = {}
  /\ threadFiles = [t \in Threads |-> NoFile]
  /\ unwritten = [t \in Threads |-> <<>>]
  /\ session = [t \in Threads |-> 0]
  /\ sessions = 0
  /\ handler = NoHandler
  /\ rollbacks = <<>>
  /\ restarts = 0

-----------------------------------------------------------------------------
(* The recorder.                                                           *)

InSessions(day, name) == [dir |-> "sessions", day |-> day, name |-> name]

HasFile(t, dir) == files[t] # NoFile /\ files[t].dir = dir

\* What a scan of sessions/ finds.
FindThreadPathById(t) == IF HasFile(t, "sessions") THEN files[t] ELSE NoFile

\* find_thread_file: the map first, the directory second
FindThreadFile(t) ==
  IF threadFiles[t] # NoFile THEN threadFiles[t] ELSE FindThreadPathById(t)

\* A path leads to the file when it is there.
Found(t) == FindThreadFile(t) # NoFile /\ FindThreadFile(t) = files[t]

\* A file is read when it is found and begins with its header.
Readable(t) == Found(t) /\ t \in headers

\* start_thread: the file, its header, the map and the writer.  It stops where it
\* fails: without a file, or with one that no writer belongs to and whose header
\* is there only if it is written when the buffer is dropped.
StartRecording(t) ==
  \/ /\ files' = [files EXCEPT ![t] = InSessions(today, today)]
     /\ headers' = headers \cup {t}
     /\ threadFiles' = [threadFiles EXCEPT ![t] = InSessions(today, today)]
     /\ openFiles' = openFiles \cup {t}
  \/ /\ FileFails
     /\ \/ UNCHANGED <<files, headers>>
        \/ /\ files' = [files EXCEPT ![t] = InSessions(today, today)]
           /\ headers' \in {headers, headers \cup {t}}
     /\ UNCHANGED <<threadFiles, openFiles>>

\* What record_item was given for a thread since its file began.
Given(t) == items[t] \o unwritten[t]

\* A flush writes lines in order; only a failure leaves some behind.
Flushed(t, lines, n) ==
  /\ n < Len(lines) => FileFails
  /\ items' = [items EXCEPT ![t] = SubSeq(lines, 1, n)]

\* record_item, for several lines: nothing without a writer.
RecordItems(t, more) ==
  \/ /\ t \in openFiles'
     /\ LET lines == Given(t) \o more
        IN  \E n \in Len(items[t])..Len(lines) :
              /\ Flushed(t, lines, n)
              /\ unwritten' = [unwritten EXCEPT ![t] = SubSeq(lines, n + 1, Len(lines))]
  \/ t \notin openFiles' /\ UNCHANGED <<items, unwritten>>

\* What the last flush of a writer does not write is lost.
CloseFile(t) ==
  /\ openFiles' = openFiles \ {t}
  /\ \E n \in Len(items[t])..Len(Given(t)) : Flushed(t, Given(t), n)
  /\ unwritten' = [unwritten EXCEPT ![t] = <<>>]

LoadRolloutItems(t) == items[t]

\* Threads with a new id.
Fresh(t) == files[t] = NoFile /\ session[t] = 0

-----------------------------------------------------------------------------
(* thread/start, thread/resume                                             *)

ThreadStart(t) ==
  /\ handler = NoHandler
  /\ Fresh(t)
  /\ handler' = [op |-> "start", thread |-> t, source |-> NoThread]
  /\ UNCHANGED <<disk, memory, today, session, sessions, rollbacks, restarts>>

NewSession(t) ==
  /\ sessions' = sessions + 1
  /\ session' = [session EXCEPT ![t] = sessions + 1]
  /\ handler' = NoHandler

StartAnswered ==
  /\ handler.op = "start"
  /\ NewSession(handler.thread)
  /\ StartRecording(handler.thread)
  /\ UNCHANGED <<items, unwritten, today, rollbacks, restarts>>

\* mistake: a resumed thread is recorded from the beginning
ResumeRecords(t) ==
  /\ handler = NoHandler /\ session[t] # 0 /\ HasFile(t, "sessions")
  /\ openFiles' = openFiles \cup {t}
  /\ items' = [items EXCEPT ![t] = <<>>]
  /\ UNCHANGED <<files, headers, threadFiles, unwritten, today, session, sessions,
                 handler, rollbacks, restarts>>

\* The session that the routes kept is loaded; nothing is recorded.
ThreadResume(t) ==
  /\ handler = NoHandler
  /\ session[t] # 0
  /\ UNCHANGED <<disk, memory, today, session, sessions, handler, rollbacks, restarts>>

-----------------------------------------------------------------------------
(* thread/fork: the copy is on disk before the agent is asked.             *)

ThreadFork(s, t) ==
  /\ handler = NoHandler
  /\ Fresh(t)
  /\ HasFile(s, "sessions") /\ s \in headers
  /\ StartRecording(t)
  /\ RecordItems(t, LoadRolloutItems(s))
  /\ handler' = [op |-> "fork", thread |-> t, source |-> s]
  /\ UNCHANGED <<today, session, sessions, rollbacks, restarts>>

ForkAnswered ==
  /\ handler.op = "fork"
  /\ NewSession(handler.thread)
  /\ UNCHANGED <<disk, memory, today, rollbacks, restarts>>

-----------------------------------------------------------------------------
(* thread/rollback: the marker is on disk before the agent is asked.       *)

ThreadRollback(t) ==
  /\ handler = NoHandler
  /\ Len(rollbacks) < MaxRollbacks
  /\ Readable(t)
  /\ UNCHANGED <<files, headers, openFiles, threadFiles>>
  /\ RecordItems(t, <<Len(rollbacks) + 1>>)
  /\ rollbacks' = Append(rollbacks, [thread |-> t, session |-> session[t], answer |-> "none"])
  /\ handler' = [op |-> "rollback", thread |-> t, source |-> NoThread]
  /\ UNCHANGED <<today, session, sessions, restarts>>

RollbackAnswered ==
  /\ handler.op = "rollback"
  /\ NewSession(handler.thread)
  /\ rollbacks' = [rollbacks EXCEPT ![Len(rollbacks)].answer = "ok"]
  /\ UNCHANGED <<disk, memory, today, restarts>>

\* The agent's error leaves what the handler did before.
AgentRefuses ==
  /\ AgentFails
  /\ handler # NoHandler
  /\ rollbacks' = IF handler.op = "rollback"
                  THEN [rollbacks EXCEPT ![Len(rollbacks)].answer = "error"]
                  ELSE rollbacks
  /\ handler' = NoHandler
  /\ UNCHANGED <<disk, memory, today, session, sessions, restarts>>

-----------------------------------------------------------------------------
(* thread/archive, thread/unarchive                                        *)

\* The path stays in the map.
ThreadArchive(t) ==
  /\ handler = NoHandler
  /\ HasFile(t, "sessions")
  /\ files' = [files EXCEPT ![t].dir = "archived_sessions"]
  /\ CloseFile(t)
  /\ UNCHANGED <<headers, threadFiles, today, session, sessions, handler, rollbacks, restarts>>

\* The date comes from the file name (rollout_date_parts).
RestoredPath(t) == InSessions(files[t].name, files[t].name)

ThreadUnarchive(t) ==
  /\ handler = NoHandler
  /\ HasFile(t, "archived_sessions")
  /\ files' = [files EXCEPT ![t] = RestoredPath(t)]
  /\ UNCHANGED <<headers, items, memory, today, session, sessions, handler,
                 rollbacks, restarts>>

-----------------------------------------------------------------------------
(* The day and the process.                                                *)

Midnight ==
  /\ today < MaxDay
  /\ today' = today + 1
  /\ UNCHANGED <<disk, memory, session, sessions, handler, rollbacks, restarts>>

\* The process ends at any point and another begins: the files and the routes
\* remain, and of what its writers held any beginning may have been written.
Restart ==
  /\ restarts < MaxRestarts
  /\ restarts' = restarts + 1
  /\ \E held \in [Threads -> 0..MaxRollbacks] :
       /\ \A t \in Threads : held[t] \in Len(items[t])..Len(Given(t))
       /\ items' = [t \in Threads |-> SubSeq(Given(t), 1, held[t])]
  /\ openFiles' = {}
  /\ threadFiles' = [t \in Threads |-> NoFile]
  /\ unwritten' = [t \in Threads |-> <<>>]
  /\ handler' = NoHandler
  /\ UNCHANGED <<files, headers, today, session, sessions, rollbacks>>

Next ==
  \/ \E t \in Threads :
       \/ ThreadStart(t) \/ ThreadResume(t) \/ ThreadRollback(t)
       \/ ThreadArchive(t) \/ ThreadUnarchive(t)
       \/ \E s \in Threads : ThreadFork(s, t)
  \/ StartAnswered \/ ForkAnswered \/ RollbackAnswered \/ AgentRefuses
  \/ Midnight \/ Restart

Spec == Init /\ [][Next]_vars

-----------------------------------------------------------------------------
(* Properties.                                                             *)

\* A thread whose file is in sessions/ is found there, whatever the map in
\* memory remembers of the days before it was archived and restored.
ReadFindsThread == \A t \in Threads : HasFile(t, "sessions") => Found(t)

\* While thread/fork waits for the agent, the new file holds what the source
\* holds as far as it could be written, and its writer the rest, in order; if
\* its header could not be written, none of it.
ForkIsCopy ==
  handler.op = "fork" =>
    Given(handler.thread) = IF handler.thread \in openFiles
                            THEN items[handler.source] ELSE <<>>

\* In every file and its writer's buffer, through forks of forks, failed writes,
\* archives and restarts, the markers stand in the order of the requests and
\* each only once.
MarkersInOrder ==
  \A t \in Threads : \A i, j \in DOMAIN Given(t) : i < j => Given(t)[i] < Given(t)[j]

\* What a file holds is never rewritten.
HistoryKept == [][\A t \in Threads : IsPrefix(items[t], items'[t])]_vars

\* thread/rollback "Records a `ThreadRolledBack` event to the rollout file":
\* a request that was answered without an error has its marker in the file.
\* The code does not keep this: see README.
MarkerRecorded ==
  \A k \in DOMAIN rollbacks :
    rollbacks[k].answer = "ok" => Contains(items[rollbacks[k].thread], k)

\* "creates a fresh ACP session since the old session context is stale after
\* rollback": a thread whose turns were rolled back has left the session it
\* had.
\* The code does not keep this: see README.
StaleSessionLeft ==
  handler = NoHandler =>
    \A k \in DOMAIN rollbacks :
      Contains(items[rollbacks[k].thread], k)
        => session[rollbacks[k].thread] > rollbacks[k].session
=============================================================================
