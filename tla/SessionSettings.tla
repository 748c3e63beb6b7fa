--------------------------- MODULE SessionSettings ---------------------------
(* The settings of a task: which backend serves it, and the model, the         *)
(* reasoning effort (an ACP session mode) and the configuration options of the *)
(* session behind it.  A client sends them with thread/start, thread/resume    *)
(* and turn/start, or alone; the multiplexer of hybrid.rs picks the backend    *)
(* and strips the "grok/" prefix of a model's name, the gateway of lib.rs sets *)
(* them one by one at the agent, and the agent may also change them itself.    *)
(*                                                                             *)
(* A handler of the gateway awaits the agent inside the event loop, so what    *)
(* the agent says on its own waits in a queue until the handler has answered.  *)
(* The agent may refuse any setting; the gateway then goes on without it.      *)
EXTENDS Naturals, Sequences

CONSTANTS
  Threads,      \* names of tasks
  Sessions,     \* names of ACP sessions
  GrokModels,   \* models of the Grok agent
  NativeModels, \* models of the native backend
  Efforts,      \* reasoning efforts, the modes of a session
  High,         \* the effort a new session has, and the one responses default to
  Options,      \* sets of configuration options a session may offer
  None,         \* an absent field
  Direct,       \* TRUE: the client talks to the gateway, without the multiplexer
  ConfigModels, \* TRUE: thread/start and resume may name a model in params.config too
  TurnModels,   \* TRUE: clients may name a model with turn/start
  Rollbacks,    \* TRUE: clients roll tasks back
  AgentChanges, \* TRUE: the agent changes settings on its own
  MaxNotes,     \* bound on the updates waiting in the gateway
  MaxRestarts   \* bound on restarts

(* A name of a model as a client writes it: in the namespace of the bridge     *)
(* ("grok/...") or as it is.                                                   *)
Plain(m)   == <<"plain", m>>
Spaced(m)  == <<"grok", m>>
Names      == {Plain(m) : m \in NativeModels \cup GrokModels} \cup {Spaced(m) : m \in GrokModels}

(* What the agent keeps of a session.                                          *)
AgentSettings ==
  [model : {None} \cup {Plain(m) : m \in GrokModels}, mode : Efforts, options : Options]

ASSUME SettingsConstants ==
  /\ High \in Efforts /\ Options # {}
  /\ None \notin {"grok", "native"} \cup Threads \cup Sessions \cup Efforts
  /\ None \notin Names \cup AgentSettings
  /\ {Direct, ConfigModels, TurnModels, Rollbacks, AgentChanges} \subseteq BOOLEAN
  /\ MaxNotes \in Nat /\ MaxRestarts \in Nat

is_grok_model(n) == n[1] = "grok"
Strip(n)   == IF n = None THEN None ELSE Plain(n[2])

(* What a client may choose: the names model/list gave it.                     *)
Choices == IF Direct THEN {Plain(m) : m \in GrokModels}
           ELSE {Plain(m) : m \in NativeModels} \cup {Spaced(m) : m \in GrokModels}
AgentDefault == [model |-> None, mode |-> High, options |-> CHOOSE c \in Options : TRUE]
Unknown == [mode |-> None, options |-> None]
NothingTaken == [model |-> None, mode |-> None]

VARIABLES
  owner,      \* owner[t]: the backend that created task t
  routes,     \* routes.json: the tasks routed to Grok
  sess,       \* thread_to_session of the id map: the session of task t
  saved,      \* what the file of the id map says of it
  thread_of,  \* session_to_thread: the task that gets what session s says
  loaded,     \* the tasks this gateway has started or resumed
  agent,      \* agent[s]: the settings of session s, kept by the agent
  model_state,\* the gateway knows the agent's models
  advertised, \* the agent has told its models to this gateway
  updates,    \* updates of the agent the gateway has not handled
  told,       \* told[t]: the settings the client was told of task t
  taken,      \* taken[t]: the last model and effort the client set that the agent took
  given,      \* the last request the multiplexer handed on: to whom, with which models
  served,     \* served[t]: the backends that got a request for t
  restarts
idMapVars == <<sess, saved, thread_of>>
settingsVars == <<owner, routes, sess, saved, thread_of, loaded, agent, model_state,
          advertised, updates, told, taken, given, served, restarts>>

Backend == {"grok", "native"}
SettingsTypeOK ==
  /\ owner \in [Threads -> Backend \cup {None}]
  /\ routes \subseteq Threads /\ loaded \subseteq Threads
  /\ sess \in [Threads -> Sessions \cup {None}] /\ saved \in [Threads -> Sessions \cup {None}]
  /\ thread_of \in [Sessions -> Threads \cup {None}]
  /\ agent \in [Sessions -> {None} \cup AgentSettings]
  /\ model_state \in BOOLEAN /\ advertised \in BOOLEAN
  /\ told \in [Threads -> [mode : Efforts \cup {None}, options : Options \cup {None}]]
  /\ taken \in [Threads -> [model : {Plain(m) : m \in GrokModels} \cup {None},
                        mode : Efforts \cup {None}]]
  /\ given \in {None} \cup [to : Backend, model : Names \cup {None}, config : Names \cup {None}]
  /\ served \in [Threads -> SUBSET Backend]
  /\ Len(updates) <= MaxNotes /\ restarts \in 0..MaxRestarts

SettingsInit ==
  /\ owner = [t \in Threads |-> None] /\ routes = {} /\ loaded = {}
  /\ sess = [t \in Threads |-> None] /\ saved = [t \in Threads |-> None]
  /\ thread_of = [s \in Sessions |-> None]
  /\ agent = [s \in Sessions |-> None]
  /\ model_state = FALSE /\ advertised = FALSE /\ updates = <<>>
  /\ told = [t \in Threads |-> Unknown]
  /\ taken = [t \in Threads |-> NothingTaken]
  /\ given = None /\ served = [t \in Threads |-> {}]
  /\ restarts = 0

-----------------------------------------------------------------------------
(* The multiplexer.                                                            *)

\* mistake: an unknown task is served by the backend its model names
route_by_model(t, new, n) ==
  CASE Direct -> "grok"
    [] OTHER -> IF n = None THEN (IF t \in routes THEN "grok" ELSE "native")
                ELSE IF is_grok_model(n) THEN "grok" ELSE "native"

(* A new task goes where its model says, any other request where the routes    *)
(* say, and what no route names is native.                                     *)
route_request(t, new, n) ==
  CASE Direct -> "grok"
    [] ~Direct /\ new -> IF n # None /\ is_grok_model(n) THEN "grok" ELSE "native"
    [] OTHER -> IF t \in routes THEN "grok" ELSE "native"

\* mistake: only Grok's side of the boundary is checked
boundary_one_side(b, new, n) ==
  ~Direct /\ n # None /\ b = "grok" => is_grok_model(n)

(* validate_model_boundary looks at params.model alone.                        *)
validate_model_boundary(b, new, n) ==
  ~Direct /\ n # None =>
    IF b = "grok" THEN is_grok_model(n) ELSE is_grok_model(n) => new

(* What reaches the gateway: names with their prefix stripped, in params.model *)
(* and in params.config.                                                       *)
strip_grok_model_namespace(n) == IF Direct THEN n ELSE Strip(n)

(* The native backend gets the line as the client wrote it.                    *)
Forwarded(b, t, n, cn) ==
  /\ served' = [served EXCEPT ![t] = @ \cup {b}]
  /\ given' = CASE Direct -> given
                [] ~Direct /\ b = "native" -> [to |-> b, model |-> n, config |-> cn]
                [] OTHER -> [to |-> b, model |-> Strip(n), config |-> Strip(cn)]

-----------------------------------------------------------------------------
(* The agent, as the gateway uses it.                                          *)
WithModel(a, m) == IF m = None THEN a ELSE [a EXCEPT !.model = m]
WithMode(a, e)  == IF e = None THEN a ELSE [a EXCEPT !.mode = e]
ModeUpdate(s, e) ==
  IF e = None THEN <<>> ELSE <<[session |-> s, what |-> "mode", value |-> e]>>

(* Of what a request asks for, the agent takes it or not.                       *)
TakenOf(x) == {x, None}

(* taken[t] after the agent took model m and effort e for task t.               *)
Took(t, m, e) ==
  [taken EXCEPT ![t] = [model |-> IF m = None THEN @.model ELSE m,
                        mode  |-> IF e = None THEN @.mode ELSE e]]

(* IdMap: a session is given to a task; writing the file may fail, which is    *)
(* only logged.                                                                *)
create_thread_session_mapping(t, s) ==
  /\ sess' = [sess EXCEPT ![t] = s]
  /\ thread_of' = [thread_of EXCEPT ![s] = t]
  /\ saved' \in {sess', saved}

-----------------------------------------------------------------------------
(* thread/start at the gateway: a new session; the agent's models are noted,   *)
(* and the model asked for is set if the agent has ever told its models.       *)
handle_thread_start(t, n) ==
  \E s \in Sessions, models \in BOOLEAN, m \in TakenOf(n) :
    /\ agent[s] = None
    /\ advertised => models
    /\ model_state' = (model_state \/ models)
    /\ advertised' = (advertised \/ models)
    /\ m # None => model_state'
    /\ agent' = [agent EXCEPT ![s] = WithModel(AgentDefault, m)]
    /\ taken' = Took(t, m, None)
    /\ create_thread_session_mapping(t, s)

Start(t, n, cn) ==
  LET b == route_request(t, TRUE, n) IN
  /\ owner[t] = None
  /\ validate_model_boundary(b, TRUE, n)
  /\ Forwarded(b, t, n, cn)
  /\ owner' = [owner EXCEPT ![t] = b]
  /\ IF b = "grok"
     THEN /\ handle_thread_start(t, strip_grok_model_namespace(n))
          /\ routes' = routes \cup {t}
          /\ loaded' = loaded \cup {t}
     ELSE UNCHANGED <<routes, loaded, idMapVars, agent, model_state, advertised, taken>>
  /\ UNCHANGED <<updates, told, restarts>>

\* mistake: the task goes on with the settings of a new session
resume_anew(t, n) ==
  \E m \in TakenOf(n) :
    /\ agent' = [agent EXCEPT ![sess[t]] = WithModel(AgentDefault, m)]
    /\ taken' = Took(t, m, None)

(* thread/resume: the session is loaded with the settings the agent kept, and  *)
(* the model asked for is set.  The models of the response are not looked at.  *)
handle_thread_resume(t, n) ==
  \E m \in TakenOf(n) :
    /\ agent' = [agent EXCEPT ![sess[t]] = WithModel(@, m)]
    /\ taken' = Took(t, m, None)

(* A task whose session the id map has lost is asked for by its own id, which  *)
(* the agent does not know: the request fails.                                 *)
Resume(t, n, cn) ==
  LET b == route_request(t, FALSE, n) IN
  /\ owner[t] # None
  /\ validate_model_boundary(b, FALSE, n)
  /\ Forwarded(b, t, n, cn)
  /\ IF b = "grok" /\ sess[t] # None
     THEN /\ handle_thread_resume(t, strip_grok_model_namespace(n))
          /\ loaded' = loaded \cup {t}
          /\ advertised' \in {advertised, TRUE}
     ELSE UNCHANGED <<agent, taken, loaded, advertised>>
  /\ UNCHANGED <<owner, routes, idMapVars, model_state, updates, told, restarts>>

(* An effort is set as the mode of the session.  The agent confirms a mode it   *)
(* took with an update.                                                        *)
set_session_mode(t, e) ==
  \E m \in TakenOf(e) :
    /\ agent' = [agent EXCEPT ![sess[t]] = WithMode(@, m)]
    /\ updates' = updates \o ModeUpdate(sess[t], m)
    /\ taken' = Took(t, None, m)

(* turn/start: the effort is set before the prompt is sent, taken or not; a     *)
(* model is not looked at, and there is no config.                             *)
Turn(t, n, e) ==
  LET b == route_request(t, FALSE, n) IN
  /\ owner[t] # None
  /\ validate_model_boundary(b, FALSE, n)
  /\ Len(updates) < MaxNotes
  /\ Forwarded(b, t, n, None)
  /\ IF b = "grok" /\ t \in loaded
     THEN set_session_mode(t, e)
     ELSE UNCHANGED <<agent, updates, taken>>
  /\ UNCHANGED <<owner, routes, idMapVars, loaded, model_state, advertised, told, restarts>>

(* session/setMode: the client learns the mode from the agent's confirmation.  *)
handle_set_session_mode(t, e) ==
  /\ t \in loaded /\ Len(updates) < MaxNotes
  /\ set_session_mode(t, e)
  /\ UNCHANGED <<owner, routes, idMapVars, loaded, model_state, advertised, told, given, served,
                 restarts>>

(* session/setConfigOption: the response carries the options the session has   *)
(* now, and goes out before any update that is still waiting.                  *)
handle_set_session_config_option(t) ==
  \E c \in Options :
    /\ t \in loaded
    /\ agent' = [agent EXCEPT ![sess[t]].options = c]
    /\ told' = [told EXCEPT ![t].options = c]
    /\ UNCHANGED <<owner, routes, idMapVars, loaded, model_state, advertised, updates, taken,
                   given, served, restarts>>

(* thread/rollback: the task gets a new session, with the agent's defaults.    *)
handle_thread_rollback(t) ==
  \E s \in Sessions :
    /\ Rollbacks /\ t \in loaded /\ agent[s] = None
    /\ agent' = [agent EXCEPT ![s] = AgentDefault]
    /\ create_thread_session_mapping(t, s)
    /\ taken' = [taken EXCEPT ![t] = NothingTaken]
    /\ UNCHANGED <<owner, routes, loaded, model_state, advertised, updates, told, given, served,
                   restarts>>

-----------------------------------------------------------------------------
(* The agent changes the settings of a session it has open on its own and says *)
(* so; a session a task had before a rollback is still open.                   *)
AgentChangesMode(s, e) ==
  /\ AgentChanges /\ Len(updates) < MaxNotes
  /\ thread_of[s] \in loaded
  /\ agent' = [agent EXCEPT ![s].mode = e]
  /\ updates' = updates \o ModeUpdate(s, e)
  /\ taken' = [t \in Threads |-> IF sess[t] = s THEN [taken[t] EXCEPT !.mode = None] ELSE taken[t]]
  /\ UNCHANGED <<owner, routes, idMapVars, loaded, model_state, advertised, told, given, served,
                 restarts>>

AgentChangesOptions(s, c) ==
  /\ AgentChanges /\ Len(updates) < MaxNotes
  /\ thread_of[s] \in loaded
  /\ agent' = [agent EXCEPT ![s].options = c]
  /\ updates' = Append(updates, [session |-> s, what |-> "options", value |-> c])
  /\ UNCHANGED <<owner, routes, idMapVars, loaded, model_state, advertised, told, taken, given,
                 served, restarts>>

(* The gateway translates the oldest update for the task of its session, the   *)
(* present one or an old one.  The multiplexer keeps those of the gateway's    *)
(* own kinds from the client.                                                  *)
TakeUpdate ==
  LET u == Head(updates) IN
  /\ updates # <<>>
  /\ updates' = Tail(updates)
  /\ told' = [t \in Threads |->
       IF thread_of[u.session] # t THEN told[t]
       ELSE IF u.what = "mode" THEN [told[t] EXCEPT !.mode = u.value]
       ELSE IF Direct THEN [told[t] EXCEPT !.options = u.value] ELSE told[t]]
  /\ UNCHANGED <<owner, routes, idMapVars, loaded, agent, model_state, advertised, taken, given,
                 served, restarts>>

(* The bridge and its agent stop and start again: the files and the sessions   *)
(* stay, what was in memory is gone, and so is the client's view.  A task goes *)
(* back to the session the file says, and what it set since is lost with it.   *)
Restart ==
  /\ restarts < MaxRestarts
  /\ restarts' = restarts + 1
  /\ loaded' = {} /\ model_state' = FALSE /\ advertised' = FALSE /\ updates' = <<>>
  /\ told' = [t \in Threads |-> Unknown]
  /\ sess' = saved
  /\ thread_of' = [s \in Sessions |->
       IF \E t \in Threads : saved[t] = s THEN CHOOSE t \in Threads : saved[t] = s ELSE None]
  /\ taken' = [t \in Threads |-> IF saved[t] = sess[t] THEN taken[t] ELSE NothingTaken]
  /\ UNCHANGED <<owner, routes, saved, agent, given, served>>

(* What model/list answers with.                                               *)
handle_model_list == IF model_state THEN "the agent's models" ELSE "acp-agent"

ConfigChoices == IF ConfigModels THEN Choices \cup {None} ELSE {None}
TurnChoices   == IF TurnModels THEN Choices \cup {None} ELSE {None}

SettingsNext ==
  \/ \E t \in Threads, n \in Choices \cup {None}, cn \in ConfigChoices :
       Start(t, n, cn) \/ Resume(t, n, cn)
  \/ \E t \in Threads, n \in TurnChoices, e \in Efforts \cup {None} : Turn(t, n, e)
  \/ \E t \in Threads, e \in Efforts : handle_set_session_mode(t, e)
  \/ \E t \in Threads : handle_set_session_config_option(t) \/ handle_thread_rollback(t)
  \/ \E s \in Sessions, e \in Efforts : AgentChangesMode(s, e)
  \/ \E s \in Sessions, c \in Options : AgentChangesOptions(s, c)
  \/ TakeUpdate
  \/ Restart

SettingsSpec == SettingsInit /\ [][SettingsNext]_settingsVars
-----------------------------------------------------------------------------
Grok(t) == t \in loaded /\ sess[t] # None

(* Every request of a task is served by the backend that created it, whatever  *)
(* models the client names later and across restarts (design/invariants,       *)
(* core.md, invariant 4).                                                      *)
PinnedToBackend ==
  \A t \in Threads : owner[t] # None => served[t] = {owner[t]}

(* The models a backend offers, as it knows them.                              *)
Offered(b) == {Plain(m) : m \in IF b = "grok" THEN GrokModels ELSE NativeModels}

(* A request that is handed on names, in params.model, no model of the other   *)
(* backend, whatever the task was created with and its client has named since. *)
ModelsOfOwner ==
  given # None => given.model \in {None} \cup Offered(given.to)

(* A request of an existing task that is handed on names no model of the other *)
(* backend, in neither field whose prefix is stripped                          *)
(* (design/plans/first-class-grok-mvp.md: "Reject cross-backend model changes  *)
(* explicitly").                                                               *)
\* The code does not keep this of params.config: see README.
CrossBackendRefused ==
  [][given' # given /\ UNCHANGED owner
       => {given'.model, given'.config} \subseteq {None} \cup Offered(given'.to)]_settingsVars

(* A session has the model that was set for its task last: a later resume,     *)
(* turn or restart that names none, or one the agent refuses, keeps it.        *)
ModelLasts ==
  \A t \in Threads :
    Grok(t) /\ taken[t].model # None => agent[sess[t]].model = taken[t].model

(* A session has the effort that was set for its task last, however many       *)
(* requests, refusals, restarts and resumes came since, unless the agent       *)
(* itself changed it.                                                          *)
EffortLasts ==
  \A t \in Threads :
    Grok(t) /\ taken[t].mode # None => agent[sess[t]].mode = taken[t].mode

(* Only the present session of task t is mapped to it: the task has not been   *)
(* rolled back since the bridge was started.                                   *)
OneSession(t) == \A s \in Sessions : thread_of[s] = t => s = sess[t]

(* When no update is waiting, the mode the client was told last is the mode of *)
(* the session, whether the client or the agent chose it.                      *)
ModeTold ==
  updates = <<>> => \A t \in Threads :
    Grok(t) /\ OneSession(t) /\ told[t].mode # None => told[t].mode = agent[sess[t]].mode

(* When no update is waiting, the options the client was told last are those   *)
(* of the session.                                                             *)
\* The code does not keep this: see README.
OptionsTold ==
  updates = <<>> => \A t \in Threads :
    Grok(t) /\ told[t].options # None => told[t].options = agent[sess[t]].options

(* Once the agent has told its models in a response to a new or a resumed      *)
(* session, model/list answers with them.                                      *)
\* The code does not keep this: see README.
ModelsKnown == advertised => handle_model_list # "acp-agent"
=============================================================================
