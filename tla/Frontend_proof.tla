--------------------------- MODULE Frontend_proof ---------------------------
(***************************************************************************)
(* Proofs about what stands between the client and the agent's sessions.   *)
(* SessionSettings, for every set of tasks, sessions, models and efforts,  *)
(* with or without the multiplexer: a task stays with its backend; what a  *)
(* request names in params.model is a model of the backend that gets it;   *)
(* and what was set lasts until something else is set, whatever the agent  *)
(* refuses.                                                                *)
(* Approvals, for every set of things the agent may ask: each is in one    *)
(* place until the user has decided it, and the agent is told what he      *)
(* decided.                                                                *)
(* HybridMux, for any number of requests in either direction, both         *)
(* children using the same ids, any order of lines and the exit of the     *)
(* multiplexer: each request gets the answer to it, at most once.          *)
(***************************************************************************)
EXTENDS HybridMux, SessionSettings, FiniteSetTheorems, WellFoundedInduction, TLAPS

\* The routes say who created a task, so what they say of its requests is its owner.
OwnersRouted ==
  \A t \in Threads :
    /\ served[t] = IF owner[t] = None THEN {} ELSE {owner[t]}
    /\ owner[t] \in Backend \cup {None}
    /\ Direct => owner[t] # "native"
    /\ ~Direct => (t \in routes <=> owner[t] = "grok")

Functions == /\ owner \in [Threads -> Backend \cup {None}]
             /\ served \in [Threads -> SUBSET Backend]

IInv == Functions /\ OwnersRouted

\* The steps that are no request of a task change none of this.
routingVars == <<owner, routes, served, given>>

LEMMA InitIInv == SettingsInit => IInv
  BY SettingsConstants DEF SettingsInit, IInv, Functions, OwnersRouted, Backend

LEMMA StartStep ==
  ASSUME IInv, NEW t \in Threads, NEW n, NEW cn, Start(t, n, cn)
  PROVE  IInv'
<1> DEFINE b == route_request(t, TRUE, n)
<1>1. /\ owner[t] = None /\ owner' = [owner EXCEPT ![t] = b]
      /\ served' = [served EXCEPT ![t] = @ \cup {b}]
  BY DEF Start, Forwarded
<1>2. /\ b \in Backend /\ b # None
      /\ Direct => b = "grok"
  BY SettingsConstants DEF route_request, Backend
<1>3. routes' = IF b = "grok" THEN routes \cup {t} ELSE routes
  BY DEF Start
<1> HIDE DEF b
<1>4. /\ owner'[t] = b /\ served'[t] = {b}
      /\ \A u \in Threads \ {t} : owner'[u] = owner[u] /\ served'[u] = served[u]
  BY <1>1, <1>2 DEF IInv, Functions, OwnersRouted
<1>5. Functions'
  BY <1>1, <1>2 DEF IInv, Functions
<1>6. OwnersRouted'
  <2>1. /\ served'[t] = IF owner'[t] = None THEN {} ELSE {owner'[t]}
        /\ owner'[t] \in Backend \cup {None}
        /\ Direct => owner'[t] # "native"
    BY <1>2, <1>4
  <2>2. ~Direct => (t \in routes' <=> owner'[t] = "grok")
    BY <1>1, <1>2, <1>3, <1>4, SettingsConstants DEF IInv, OwnersRouted
  <2>3. QED
    BY <1>3, <1>4, <2>1, <2>2 DEF IInv, OwnersRouted
<1>7. QED
  BY <1>5, <1>6 DEF IInv

\* A later request of a task goes to its owner.
LEMMA LaterRequest ==
  ASSUME IInv, NEW t \in Threads, NEW n, NEW cn, owner[t] # None,
         Forwarded(route_request(t, FALSE, n), t, n, cn), UNCHANGED <<owner, routes>>
  PROVE  IInv' /\ route_request(t, FALSE, n) = owner[t]
<1>1. route_request(t, FALSE, n) = owner[t]
  BY SettingsConstants DEF route_request, IInv, OwnersRouted, Backend
<1>2. served' = [served EXCEPT ![t] = @ \cup {owner[t]}]
  BY <1>1 DEF Forwarded
<1>3. served' = served
  BY <1>2 DEF IInv, Functions, OwnersRouted
<1>4. QED
  BY <1>1, <1>2, <1>3 DEF IInv, Functions, OwnersRouted

\* A request whose model is of the backend it goes to.
LEMMA HandedOn ==
  ASSUME NEW t \in Threads, NEW n \in Choices \cup {None}, NEW cn, NEW b \in Backend,
         ~Direct /\ n # None => (is_grok_model(n) <=> b = "grok"), Forwarded(b, t, n, cn)
  PROVE  given' = given \/ ModelsOfOwner'
<1>1. CASE Direct
  BY <1>1 DEF Forwarded
<1>2. CASE ~Direct /\ b = "native"
  <2>1. given' = [to |-> "native", model |-> n, config |-> cn]
    BY <1>2 DEF Forwarded
  <2>2. n = None \/ \E m \in NativeModels : n = Plain(m)
    BY <1>2 DEF Choices, Plain, Spaced, is_grok_model
  <2>3. QED
    BY <2>1, <2>2 DEF ModelsOfOwner, Offered
<1>3. CASE ~Direct /\ b = "grok"
  <2>1. given' = [to |-> "grok", model |-> Strip(n), config |-> Strip(cn)]
    BY <1>3 DEF Forwarded
  <2>2. n = None \/ \E m \in GrokModels : n = Spaced(m)
    BY <1>3 DEF Choices, Plain, Spaced, is_grok_model
  <2>3. n # None => \E m \in GrokModels : Strip(n) = Plain(m)
    BY <2>2 DEF Strip, Spaced
  <2>4. n = None => Strip(n) = None
    BY DEF Strip
  <2>5. QED
    BY <2>1, <2>3, <2>4 DEF ModelsOfOwner, Offered
<1>4. QED
  BY <1>1, <1>2, <1>3 DEF Backend

\* The steps of SettingsNext: a request of one task, or a step that leaves requests alone.
LEMMA NextStep ==
  ASSUME IInv, SettingsNext
  PROVE  IInv' /\ (given' = given \/ ModelsOfOwner')
<1>1. ASSUME NEW t \in Threads, NEW n \in Choices \cup {None}, NEW cn \in ConfigChoices,
             Start(t, n, cn)
      PROVE  IInv' /\ (given' = given \/ ModelsOfOwner')
  <2>1. IInv'
    BY <1>1, StartStep
  <2>2. /\ route_request(t, TRUE, n) \in Backend
        /\ ~Direct /\ n # None => (is_grok_model(n) <=> route_request(t, TRUE, n) = "grok")
        /\ Forwarded(route_request(t, TRUE, n), t, n, cn)
    BY <1>1 DEF Start, route_request, Backend
  <2>3. QED
    BY <2>1, <2>2, HandedOn
<1>2. ASSUME NEW t \in Threads, NEW n \in Choices \cup {None}, NEW cn \in ConfigChoices,
             owner[t] # None, UNCHANGED <<owner, routes>>,
             validate_model_boundary(route_request(t, FALSE, n), FALSE, n),
             Forwarded(route_request(t, FALSE, n), t, n, cn)
      PROVE  IInv' /\ (given' = given \/ ModelsOfOwner')
  <2>1. IInv'
    BY <1>2, LaterRequest
  <2>2. route_request(t, FALSE, n) \in Backend
    BY DEF route_request, Backend
  <2>3. ~Direct /\ n # None => (is_grok_model(n) <=> route_request(t, FALSE, n) = "grok")
    BY <1>2, <2>2 DEF validate_model_boundary, Backend
  <2>4. QED
    BY <1>2, <2>1, <2>2, <2>3, HandedOn
<1>3. ASSUME NEW t \in Threads, NEW n \in Choices \cup {None}, NEW cn \in ConfigChoices,
             Resume(t, n, cn)
      PROVE  IInv' /\ (given' = given \/ ModelsOfOwner')
  <2>1. /\ owner[t] # None /\ UNCHANGED <<owner, routes>>
        /\ validate_model_boundary(route_request(t, FALSE, n), FALSE, n)
        /\ Forwarded(route_request(t, FALSE, n), t, n, cn)
    BY <1>3 DEF Resume
  <2>2. QED
    BY <1>2, <2>1
<1>4. ASSUME NEW t \in Threads, NEW n \in TurnChoices,
             NEW e \in Efforts \cup {None}, Turn(t, n, e)
      PROVE  IInv' /\ (given' = given \/ ModelsOfOwner')
  <2>1. n \in Choices \cup {None} /\ None \in ConfigChoices
    BY DEF TurnChoices, ConfigChoices
  <2>2. /\ owner[t] # None /\ UNCHANGED <<owner, routes>>
        /\ validate_model_boundary(route_request(t, FALSE, n), FALSE, n)
        /\ Forwarded(route_request(t, FALSE, n), t, n, None)
    BY <1>4 DEF Turn
  <2>3. QED
    BY <1>2, <2>1, <2>2
<1>5. ASSUME UNCHANGED routingVars PROVE IInv' /\ given' = given
  BY <1>5 DEF routingVars, IInv, Functions, OwnersRouted
<1>6. CASE \E t \in Threads, e \in Efforts : handle_set_session_mode(t, e)
  BY <1>5, <1>6 DEF handle_set_session_mode, routingVars
<1>7. CASE \E t \in Threads : handle_set_session_config_option(t) \/ handle_thread_rollback(t)
  BY <1>5, <1>7 DEF handle_set_session_config_option, handle_thread_rollback, routingVars
<1>8. CASE \E s \in Sessions, e \in Efforts : AgentChangesMode(s, e)
  BY <1>5, <1>8 DEF AgentChangesMode, routingVars
<1>9. CASE \E s \in Sessions, c \in Options : AgentChangesOptions(s, c)
  BY <1>5, <1>9 DEF AgentChangesOptions, routingVars
<1>10. CASE TakeUpdate \/ Restart
  BY <1>5, <1>10 DEF TakeUpdate, Restart, routingVars
<1>11. CASE \E t \in Threads, n \in Choices \cup {None}, cn \in ConfigChoices :
              Start(t, n, cn) \/ Resume(t, n, cn)
  BY <1>1, <1>3, <1>11
<1>12. CASE \E t \in Threads, n \in TurnChoices, e \in Efforts \cup {None} : Turn(t, n, e)
  BY <1>4, <1>12
<1>13. QED
  BY <1>5, <1>6, <1>7, <1>8, <1>9, <1>10, <1>11, <1>12 DEF SettingsNext

LEMMA NextIInv == IInv /\ [SettingsNext]_settingsVars => IInv'
<1> SUFFICES ASSUME IInv, [SettingsNext]_settingsVars PROVE IInv'
  OBVIOUS
<1>1. CASE SettingsNext
  BY <1>1, NextStep
<1>2. CASE UNCHANGED settingsVars
  BY <1>2 DEF settingsVars, IInv, Functions, OwnersRouted
<1>3. QED
  BY <1>1, <1>2

\* A task is served by the backend that created it and by no other, whatever models its
\* later requests name and however often the bridge is restarted.
THEOREM TasksArePinned == SettingsSpec => []PinnedToBackend
<1>1. IInv => PinnedToBackend
  BY DEF IInv, OwnersRouted, PinnedToBackend
<1>2. QED
  BY <1>1, InitIInv, NextIInv, PTL DEF SettingsSpec

\* What a request names in params.model is a model of the backend it is handed on to,
\* whatever it names elsewhere, and for old tasks as for new ones.
THEOREM ModelsStayWithBackend == SettingsSpec => []ModelsOfOwner
<1>1. SettingsInit => ModelsOfOwner
  BY DEF SettingsInit, ModelsOfOwner
<1>2. IInv /\ ModelsOfOwner /\ [SettingsNext]_settingsVars => ModelsOfOwner'
  <2> SUFFICES ASSUME IInv, ModelsOfOwner, [SettingsNext]_settingsVars PROVE ModelsOfOwner'
    OBVIOUS
  <2>1. CASE given' = given
    BY <2>1 DEF ModelsOfOwner
  <2>2. CASE SettingsNext
    BY <2>1, <2>2, NextStep
  <2>3. CASE UNCHANGED settingsVars
    BY <2>1, <2>3 DEF settingsVars
  <2>4. QED
    BY <2>2, <2>3
<1>3. QED
  BY <1>1, <1>2, InitIInv, NextIInv, PTL DEF SettingsSpec
-----------------------------------------------------------------------------
(* The settings themselves.                                                *)

Models == {Plain(m) : m \in GrokModels}

\* What the agent says on its own.
ModeNotes == [session : Sessions, what : {"mode"}, value : Efforts]
Notes == ModeNotes \cup [session : Sessions, what : {"options"}, value : Options]

\* Tasks have sessions of their own, which the agent keeps and tells about, in memory as in
\* the file, and what was set or told is of a task that was started.
SessInv ==
  /\ updates \in Seq(Notes)
  /\ \A t \in Threads : sess[t] # None => thread_of[sess[t]] = t
  /\ \A t \in Threads : saved[t] # None => thread_of[saved[t]] = t
  /\ \A s \in Sessions : thread_of[s] # None => agent[s] # None /\ sess[thread_of[s]] # None
  /\ \A t \in loaded : sess[t] # None
  /\ \A t \in Threads : owner[t] = None => sess[t] = None /\ saved[t] = None
  /\ \A t \in Threads : sess[t] = None => taken[t] = NothingTaken /\ told[t] = Unknown
  /\ \A i \in DOMAIN updates : agent[updates[i].session] # None

TypeInv == SettingsTypeOK /\ SessInv

\* The steps as far as they concern the settings.  A task gets its session:
Started(t, m) ==
  \E s \in Sessions :
    /\ agent[s] = None /\ owner[t] = None /\ owner'[t] # None /\ owner'[t] \in Backend
    /\ \A u \in Threads \ {t} : owner'[u] = owner[u]
    /\ owner' \in [Threads -> Backend \cup {None}]
    /\ create_thread_session_mapping(t, s)
    /\ loaded' = loaded \cup {t}
    /\ agent' = [agent EXCEPT ![s] = WithModel(AgentDefault, m)]
    /\ taken' = Took(t, m, None)
    /\ UNCHANGED <<updates, told>>

\* a task is resumed,
Resumed(t, m) ==
  /\ sess[t] # None
  /\ agent' = [agent EXCEPT ![sess[t]] = WithModel(@, m)]
  /\ taken' = Took(t, m, None)
  /\ loaded' = loaded \cup {t}
  /\ UNCHANGED <<owner, idMapVars, updates, told>>

\* a turn is started, which does not look at the model, or a mode is set,
Turned(t, e) ==
  /\ t \in loaded /\ Len(updates) < MaxNotes
  /\ agent' = [agent EXCEPT ![sess[t]] = WithMode(@, e)]
  /\ taken' = Took(t, None, e)
  /\ updates' = updates \o ModeUpdate(sess[t], e)
  /\ UNCHANGED <<owner, idMapVars, loaded, told>>

\* or nothing of this changes: a request to the native backend.
Aside ==
  /\ owner' \in [Threads -> Backend \cup {None}]
  /\ \A t \in Threads : owner'[t] = None => owner[t] = None
  /\ UNCHANGED <<idMapVars, loaded, agent, updates, told, taken>>

LEMMA SettingsFacts ==
  /\ AgentDefault \in AgentSettings /\ AgentDefault.mode = High
  /\ AgentDefault # None
  /\ \A a \in AgentSettings, m \in Models : WithModel(a, m) = [a EXCEPT !.model = m]
  /\ \A a \in AgentSettings : WithModel(a, None) = a
  /\ \A a \in AgentSettings, m \in Models \cup {None} :
       WithModel(a, m) \in AgentSettings /\ WithModel(a, m).mode = a.mode
  /\ \A a \in AgentSettings, e \in Efforts \cup {None} :
       WithMode(a, e) \in AgentSettings /\ WithMode(a, e).model = a.model
  /\ None \notin Models /\ None \notin AgentSettings
<1>1. \A m \in Models : m # None /\ m \in Names
  BY SettingsConstants DEF Models, Names
<1>2. AgentDefault \in AgentSettings /\ AgentDefault.mode = High /\ AgentDefault # None
  BY SettingsConstants DEF AgentDefault, AgentSettings
<1>3. \A a \in AgentSettings, m \in Models :
         WithModel(a, m) = [a EXCEPT !.model = m] /\ WithModel(a, m) \in AgentSettings
         /\ WithModel(a, m).mode = a.mode
  BY <1>1 DEF WithModel, AgentSettings, Models
<1>4. \A a \in AgentSettings : WithModel(a, None) = a
  BY <1>1 DEF WithModel, Models
<1>5. \A a \in AgentSettings, e \in Efforts \cup {None} :
       WithMode(a, e) \in AgentSettings /\ WithMode(a, e).model = a.model
  BY SettingsConstants DEF WithMode, AgentSettings
<1>6. QED
  BY <1>1, <1>2, <1>3, <1>4, <1>5, SettingsConstants

\* A name that passed the boundary to Grok is one of the agent's models there.
LEMMA StrippedIsModel ==
  ASSUME NEW n \in Choices \cup {None}, ~Direct /\ n # None => is_grok_model(n)
  PROVE  /\ strip_grok_model_namespace(n) \in Models \cup {None}
         /\ n = None => strip_grok_model_namespace(n) = None
<1>1. CASE n = None
  BY <1>1 DEF strip_grok_model_namespace, Strip
<1>2. CASE n # None /\ Direct
  BY <1>2 DEF strip_grok_model_namespace, Choices, Models
<1>3. CASE n # None /\ ~Direct
  <2>1. PICK m \in GrokModels : n = Spaced(m)
    BY <1>3 DEF Choices, Plain, Spaced, is_grok_model
  <2>2. strip_grok_model_namespace(n) = Plain(m)
    BY <1>3, <2>1 DEF strip_grok_model_namespace, Strip, Spaced
  <2>3. QED
    BY <1>3, <2>2 DEF Models
<1>4. QED
  BY <1>1, <1>2, <1>3

\* Every step is one of these.
LEMMA Steps ==
  ASSUME IInv, TypeInv, SettingsNext
  PROVE  \/ \E t \in Threads, m \in Models \cup {None} : Started(t, m) \/ Resumed(t, m)
         \/ \E t \in Threads, e \in Efforts \cup {None} : Turned(t, e)
         \/ \E t \in Threads : handle_set_session_config_option(t) \/ handle_thread_rollback(t)
         \/ \E s \in Sessions, e \in Efforts : AgentChangesMode(s, e)
         \/ \E s \in Sessions, c \in Options : AgentChangesOptions(s, c)
         \/ TakeUpdate \/ Restart \/ Aside
<1>1. ASSUME NEW t \in Threads, NEW n \in Choices \cup {None}, NEW cn, Start(t, n, cn)
      PROVE  Aside \/ \E m \in Models \cup {None} : Started(t, m)
  <2> DEFINE b == route_request(t, TRUE, n)
             name == strip_grok_model_namespace(n)
  <2>1. /\ owner[t] = None /\ owner' = [owner EXCEPT ![t] = b]
        /\ UNCHANGED <<updates, told>>
        /\ b \in Backend /\ b # None
    BY <1>1, SettingsConstants DEF Start, route_request, Backend
  <2>2. /\ owner' \in [Threads -> Backend \cup {None}]
        /\ owner'[t] # None /\ owner'[t] \in Backend
        /\ \A u \in Threads \ {t} : owner'[u] = owner[u]
    BY <2>1 DEF IInv, Functions
  <2>3. CASE b = "grok"
    <3>1. ~Direct /\ n # None => is_grok_model(n)
      BY <1>1, <2>3 DEF Start, validate_model_boundary
    <3>2. name \in Models \cup {None}
      BY <3>1, StrippedIsModel
    <3>3. /\ handle_thread_start(t, name)
          /\ loaded' = loaded \cup {t}
      BY <1>1, <2>3 DEF Start
    <3>4. PICK m \in TakenOf(name) : Started(t, m)
      BY <2>1, <2>2, <3>3 DEF handle_thread_start, Started
    <3>5. QED
      BY <3>2, <3>4 DEF TakenOf
  <2>4. CASE b # "grok"
    <3>1. UNCHANGED <<idMapVars, loaded, agent, updates, told, taken>>
      BY <1>1, <2>4 DEF Start
    <3>2. QED
      BY <2>2, <3>1 DEF Aside
  <2>5. QED
    BY <2>3, <2>4
<1>2. ASSUME NEW t \in Threads, NEW n \in Choices \cup {None}, NEW cn, Resume(t, n, cn)
      PROVE  Aside \/ \E m \in Models \cup {None} : Resumed(t, m)
  <2> DEFINE b == route_request(t, FALSE, n)
             name == strip_grok_model_namespace(n)
  <2>1. UNCHANGED <<owner, idMapVars, updates, told>>
    BY <1>2 DEF Resume
  <2>2. CASE b = "grok" /\ sess[t] # None
    <3>1. ~Direct /\ n # None => is_grok_model(n)
      BY <1>2, <2>2 DEF Resume, validate_model_boundary
    <3>2. name \in Models \cup {None}
      BY <3>1, StrippedIsModel
    <3>3. /\ handle_thread_resume(t, name)
          /\ loaded' = loaded \cup {t}
      BY <1>2, <2>2 DEF Resume
    <3>4. PICK m \in TakenOf(name) : Resumed(t, m)
      BY <2>1, <2>2, <3>3 DEF handle_thread_resume, Resumed
    <3>5. QED
      BY <3>2, <3>4 DEF TakenOf
  <2>3. CASE ~(b = "grok" /\ sess[t] # None)
    <3>1. UNCHANGED <<agent, taken, loaded>>
      BY <1>2, <2>3 DEF Resume
    <3>2. QED
      BY <2>1, <3>1 DEF Aside, IInv, Functions
  <2>4. QED
    BY <2>2, <2>3
<1>3. ASSUME NEW t \in Threads, NEW e \in Efforts \cup {None}, t \in loaded,
             Len(updates) < MaxNotes, set_session_mode(t, e),
             UNCHANGED <<owner, idMapVars, loaded, told>>
      PROVE  \E m \in Efforts \cup {None} : Turned(t, m)
  BY <1>3 DEF set_session_mode, TakenOf, Turned
<1>4. ASSUME NEW t \in Threads, NEW n \in TurnChoices, NEW e \in Efforts \cup {None},
             Turn(t, n, e)
      PROVE  Aside \/ \E m \in Efforts \cup {None} : Turned(t, m)
  <2> DEFINE b == route_request(t, FALSE, n)
  <2>1. /\ UNCHANGED <<owner, idMapVars, loaded, told>>
        /\ Len(updates) < MaxNotes
    BY <1>4 DEF Turn
  <2>2. CASE b = "grok" /\ t \in loaded
    <3>1. set_session_mode(t, e)
      BY <1>4, <2>2 DEF Turn
    <3>2. QED
      BY <1>3, <2>1, <2>2, <3>1
  <2>3. CASE ~(b = "grok" /\ t \in loaded)
    <3>1. UNCHANGED <<agent, updates, taken>>
      BY <1>4, <2>3 DEF Turn
    <3>2. QED
      BY <2>1, <3>1 DEF Aside, IInv, Functions
  <2>4. QED
    BY <2>2, <2>3
<1>5. ASSUME NEW t \in Threads, NEW e \in Efforts, handle_set_session_mode(t, e)
      PROVE  \E m \in Efforts \cup {None} : Turned(t, m)
  BY <1>3, <1>5 DEF handle_set_session_mode
<1>6. CASE \E t \in Threads, n \in Choices \cup {None}, cn \in ConfigChoices :
             Start(t, n, cn) \/ Resume(t, n, cn)
  BY <1>1, <1>2, <1>6
<1>7. CASE \E t \in Threads, n \in TurnChoices, e \in Efforts \cup {None} : Turn(t, n, e)
  BY <1>4, <1>7
<1>8. CASE \E t \in Threads, e \in Efforts : handle_set_session_mode(t, e)
  BY <1>5, <1>8
<1>9. QED
  BY <1>6, <1>7, <1>8 DEF SettingsNext

GivenTypes ==
  {None} \cup [to : Backend, model : Names \cup {None}, config : Names \cup {None}]

\* The variables that no setting depends on keep their types.
RestTypes ==
  /\ routes \subseteq Threads
  /\ model_state \in BOOLEAN /\ advertised \in BOOLEAN
  /\ given \in GivenTypes /\ served \in [Threads -> SUBSET Backend]
  /\ restarts \in 0..MaxRestarts

CoreTypes ==
  /\ owner \in [Threads -> Backend \cup {None}]
  /\ loaded \subseteq Threads
  /\ sess \in [Threads -> Sessions \cup {None}]
  /\ saved \in [Threads -> Sessions \cup {None}]
  /\ thread_of \in [Sessions -> Threads \cup {None}]
  /\ agent \in [Sessions -> {None} \cup AgentSettings]
  /\ told \in [Threads -> [mode : Efforts \cup {None}, options : Options \cup {None}]]
  /\ taken \in [Threads -> [model : Models \cup {None}, mode : Efforts \cup {None}]]
  /\ Len(updates) <= MaxNotes

LEMMA TypesOfAll == SettingsTypeOK <=> CoreTypes /\ RestTypes
  BY DEF SettingsTypeOK, CoreTypes, RestTypes, GivenTypes, Models

LEMMA NextRestTypes == RestTypes /\ [SettingsNext]_settingsVars => RestTypes'
<1> SUFFICES ASSUME RestTypes, [SettingsNext]_settingsVars PROVE RestTypes'
  OBVIOUS
<1>1. Choices \subseteq Names /\ TurnChoices \subseteq Names \cup {None}
      /\ ConfigChoices \subseteq Names \cup {None}
  BY DEF Choices, Names, TurnChoices, ConfigChoices
<1>2. ASSUME NEW t \in Threads, NEW n \in Names \cup {None}, NEW cn \in Names \cup {None},
             NEW b \in Backend, Forwarded(b, t, n, cn)
      PROVE  given' \in GivenTypes /\ served' \in [Threads -> SUBSET Backend]
  <2>1. Strip(n) \in Names \cup {None} /\ Strip(cn) \in Names \cup {None}
    BY DEF Strip, Names, Plain, Spaced
  <2>2. given' \in GivenTypes
    BY <1>2, <2>1 DEF Forwarded, RestTypes, GivenTypes
  <2>3. QED
    BY <1>2, <2>2 DEF Forwarded, RestTypes
<1>3. ASSUME NEW t \in Threads, NEW n \in Choices \cup {None}, NEW cn \in ConfigChoices,
             Start(t, n, cn)
      PROVE  RestTypes'
  <2>1. /\ routes' \subseteq Threads
        /\ model_state' \in BOOLEAN /\ advertised' \in BOOLEAN
        /\ restarts' = restarts
    BY <1>3 DEF Start, handle_thread_start, RestTypes
  <2>2. route_request(t, TRUE, n) \in Backend
    BY DEF route_request, Backend
  <2>3. QED
    BY <1>1, <1>2, <1>3, <2>1, <2>2 DEF Start, RestTypes
<1>4. ASSUME NEW t \in Threads
      PROVE  \A n : route_request(t, FALSE, n) \in Backend
  BY DEF route_request, Backend
<1>5. ASSUME NEW t \in Threads, NEW n \in Choices \cup {None}, NEW cn \in ConfigChoices,
             Resume(t, n, cn)
      PROVE  RestTypes'
  <2>1. UNCHANGED <<routes, model_state, restarts>> /\ advertised' \in BOOLEAN
    BY <1>5 DEF Resume, RestTypes
  <2>2. QED
    BY <1>1, <1>2, <1>4, <1>5, <2>1 DEF Resume, RestTypes
<1>6. ASSUME NEW t \in Threads, NEW n \in TurnChoices,
             NEW e \in Efforts \cup {None}, Turn(t, n, e)
      PROVE  RestTypes'
  <2>1. UNCHANGED <<routes, model_state, advertised, restarts>>
    BY <1>6 DEF Turn
  <2>2. QED
    BY <1>1, <1>2, <1>4, <1>6, <2>1 DEF Turn, RestTypes
<1>7. ASSUME UNCHANGED <<routes, model_state, advertised, given, served, restarts>>
      PROVE  RestTypes'
  BY <1>7 DEF RestTypes
<1>8. CASE \E t \in Threads, e \in Efforts : handle_set_session_mode(t, e)
  BY <1>7, <1>8 DEF handle_set_session_mode
<1>9. CASE \E t \in Threads : handle_set_session_config_option(t) \/ handle_thread_rollback(t)
  BY <1>7, <1>9 DEF handle_set_session_config_option, handle_thread_rollback
<1>10. CASE \E s \in Sessions, e \in Efforts : AgentChangesMode(s, e)
  BY <1>7, <1>10 DEF AgentChangesMode
<1>11. CASE \E s \in Sessions, c \in Options : AgentChangesOptions(s, c)
  BY <1>7, <1>11 DEF AgentChangesOptions
<1>12. CASE TakeUpdate
  BY <1>7, <1>12 DEF TakeUpdate
<1>13. CASE Restart
  <2>1. restarts' \in 0..MaxRestarts
    BY <1>13, SettingsConstants DEF Restart, RestTypes
  <2>2. QED
    BY <1>13, <2>1 DEF Restart, RestTypes
<1>14. CASE UNCHANGED settingsVars
  BY <1>7, <1>14 DEF settingsVars
<1>15. QED
  BY <1>3, <1>5, <1>6, <1>8, <1>9, <1>10, <1>11, <1>12, <1>13, <1>14 DEF SettingsNext

-----------------------------------------------------------------------------
(* Each kind of step keeps the types and the sessions apart.               *)

CoreInv == CoreTypes /\ SessInv

LEMMA NotesOf ==
  ASSUME NEW s \in Sessions, NEW e \in Efforts \cup {None}
  PROVE  /\ ModeUpdate(s, e) \in Seq(Notes)
         /\ e = None => ModeUpdate(s, e) = <<>>
         /\ e # None => /\ Len(ModeUpdate(s, e)) = 1
                        /\ ModeUpdate(s, e)[1] = [session |-> s, what |-> "mode", value |-> e]
<1>1. CASE e = None
  BY <1>1 DEF ModeUpdate
<1>2. CASE e # None
  <2>1. [session |-> s, what |-> "mode", value |-> e] \in Notes
    BY <1>2 DEF Notes, ModeNotes
  <2>2. QED
    BY <1>2, <2>1 DEF ModeUpdate
<1>3. QED
  BY <1>1, <1>2

\* Task t gets session s, which nobody had.
NewSession(t, s, new) ==
  /\ agent[s] = None
  /\ agent' = [agent EXCEPT ![s] = new]
  /\ create_thread_session_mapping(t, s)
  /\ owner' \in [Threads -> Backend \cup {None}]
  /\ \A u \in Threads : owner'[u] = None => owner[u] = None /\ u # t
  /\ loaded' \in {loaded, loaded \cup {t}}
  /\ taken' \in [Threads -> [model : Models \cup {None}, mode : Efforts \cup {None}]]
  /\ \A u \in Threads \ {t} : taken'[u] = taken[u]
  /\ UNCHANGED <<updates, told>>

LEMMA Mapped ==
  ASSUME CoreInv, NEW t \in Threads, NEW s \in Sessions, agent[s] = None,
         create_thread_session_mapping(t, s)
  PROVE  /\ sess' \in [Threads -> Sessions \cup {None}] /\ sess'[t] = s
         /\ \A u \in Threads \ {t} : sess'[u] = sess[u]
         /\ saved' \in [Threads -> Sessions \cup {None}]
         /\ saved' \in {saved, sess'}
         /\ thread_of' \in [Sessions -> Threads \cup {None}] /\ thread_of'[s] = t
         /\ \A r \in Sessions \ {s} : thread_of'[r] = thread_of[r]
         /\ \A u \in Threads : sess[u] # s /\ saved[u] # s
         /\ s # None /\ t # None
<1>1. thread_of[s] = None /\ t # None
  BY SettingsConstants DEF CoreInv, SessInv
<1>2. \A u \in Threads : sess[u] # s /\ saved[u] # s
  BY <1>1, SettingsConstants DEF CoreInv, SessInv
<1>3. QED
  BY <1>1, <1>2, SettingsConstants DEF create_thread_session_mapping, CoreInv, CoreTypes

LEMMA NewSessionCore ==
  ASSUME CoreInv, NEW t \in Threads, NEW s \in Sessions, NEW new \in AgentSettings,
         NewSession(t, s, new)
  PROVE  CoreInv'
<1> USE DEF NewSession
<1>1. new # None /\ agent'[s] # None /\ \A r \in Sessions : agent[r] # None => agent'[r] # None
  BY SettingsFacts DEF CoreInv, CoreTypes
<1>2. CoreTypes'
  BY Mapped DEF CoreInv, CoreTypes
<1>3. /\ \A u \in Threads : sess'[u] # None => thread_of'[sess'[u]] = u
      /\ \A u \in Threads : saved'[u] # None => thread_of'[saved'[u]] = u
  <2> DEFINE Before(u) == sess[u] # None => thread_of'[sess[u]] = u
             InFile(u) == saved[u] # None => thread_of'[saved[u]] = u
  <2>1. \A u \in Threads : Before(u) /\ InFile(u)
    <3>1. SUFFICES ASSUME NEW u \in Threads PROVE Before(u) /\ InFile(u)
      OBVIOUS
    <3>2. \A r \in Sessions \ {s} : thread_of'[r] = thread_of[r]
      BY Mapped
    <3>3. sess[u] # s /\ saved[u] # s
      BY Mapped
    <3>4. sess[u] \in Sessions \cup {None} /\ saved[u] \in Sessions \cup {None}
      BY DEF CoreInv, CoreTypes
    <3>5. /\ sess[u] # None => thread_of[sess[u]] = u
          /\ saved[u] # None => thread_of[saved[u]] = u
      BY DEF CoreInv, SessInv
    <3>6. QED
      BY <3>2, <3>3, <3>4, <3>5
  <2>2. /\ thread_of'[s] = t /\ sess'[t] = s
        /\ \A u \in Threads \ {t} : sess'[u] = sess[u]
        /\ saved' \in {saved, sess'}
    BY Mapped
  <2>3. QED
    BY <2>1, <2>2
<1>4. \A r \in Sessions : thread_of'[r] # None => agent'[r] # None /\ sess'[thread_of'[r]] # None
  <2>1. SUFFICES ASSUME NEW r \in Sessions, thread_of'[r] # None
                 PROVE  agent'[r] # None /\ sess'[thread_of'[r]] # None
    OBVIOUS
  <2>2. CASE r = s
    BY <1>1, <2>2, Mapped
  <2>3. CASE r # s
    <3>1. thread_of'[r] = thread_of[r] /\ thread_of[r] \in Threads
      BY <2>1, <2>3, Mapped DEF CoreInv, CoreTypes
    <3>2. agent[r] # None /\ sess[thread_of[r]] # None
      BY <2>1, <3>1 DEF CoreInv, SessInv
    <3>3. QED
      BY <1>1, <3>1, <3>2, Mapped
  <2>4. QED
    BY <2>2, <2>3
<1>5. /\ \A u \in loaded' : sess'[u] # None
      /\ \A u \in Threads : owner'[u] = None => sess'[u] = None /\ saved'[u] = None
      /\ \A u \in Threads : sess'[u] = None => taken'[u] = NothingTaken /\ told'[u] = Unknown
  BY Mapped DEF CoreInv, CoreTypes, SessInv
<1>6. \A i \in DOMAIN updates' : agent'[updates'[i].session] # None
  <2>1. \A i \in DOMAIN updates : updates[i] \in Notes
    BY DEF CoreInv, SessInv
  <2>2. \A i \in DOMAIN updates : updates[i].session \in Sessions
    BY <2>1 DEF Notes, ModeNotes
  <2>3. QED
    BY <1>1, <2>2 DEF CoreInv, SessInv
<1>7. updates' \in Seq(Notes)
  BY DEF CoreInv, SessInv
<1>8. QED
  BY <1>2, <1>3, <1>4, <1>5, <1>6, <1>7 DEF CoreInv, SessInv

\* The step gives session s other settings, and may append updates about it.
Changed(s, new, more) ==
  /\ agent[s] # None
  /\ agent' = [agent EXCEPT ![s] = new]
  /\ updates' = updates \o more /\ Len(updates') <= MaxNotes
  /\ \A i \in DOMAIN more : more[i].session = s
  /\ taken' \in [Threads -> [model : Models \cup {None}, mode : Efforts \cup {None}]]
  /\ told' \in [Threads -> [mode : Efforts \cup {None}, options : Options \cup {None}]]
  /\ \A t \in Threads : sess[t] = None => taken'[t] = taken[t] /\ told'[t] = told[t]
  /\ loaded' \subseteq Threads /\ \A t \in loaded' : sess[t] # None
  /\ UNCHANGED <<owner, idMapVars>>

LEMMA ChangedCore ==
  ASSUME CoreInv, NEW s \in Sessions, NEW new \in AgentSettings, NEW more \in Seq(Notes),
         Changed(s, new, more)
  PROVE  CoreInv'
<1> USE DEF Changed, idMapVars
<1>1. CoreTypes'
  BY DEF CoreInv, CoreTypes
<1>2. new # None /\ \A r \in Sessions : agent[r] # None => agent'[r] # None
  BY SettingsFacts DEF CoreInv, CoreTypes
<1>3. updates' \in Seq(Notes) /\ \A i \in DOMAIN updates' : agent'[updates'[i].session] # None
  <2>1. updates \in Seq(Notes)
    BY DEF CoreInv, SessInv
  <2>2. updates' \in Seq(Notes)
    BY <2>1
  <2>3. SUFFICES ASSUME NEW i \in DOMAIN updates' PROVE agent'[updates'[i].session] # None
    BY <2>2
  <2>4. i \in 1..(Len(updates) + Len(more)) /\ i \in Nat
    BY <2>1
  <2>5. CASE i <= Len(updates)
    <3>1. i \in DOMAIN updates /\ updates'[i] = updates[i]
      BY <2>1, <2>4, <2>5
    <3>2. updates[i] \in Notes
      BY <2>1, <3>1
    <3>3. updates[i].session \in Sessions
      BY <3>2 DEF Notes, ModeNotes
    <3>4. QED
      BY <1>2, <3>1, <3>3 DEF CoreInv, SessInv
  <2>6. CASE i > Len(updates)
    <3>1. i - Len(updates) \in DOMAIN more /\ updates'[i] = more[i - Len(updates)]
      BY <2>1, <2>4, <2>6
    <3>2. QED
      BY <1>2, <3>1
  <2>7. QED
    BY <2>4, <2>5, <2>6, <2>1
<1>4. /\ \A t \in Threads : sess'[t] # None => thread_of'[sess'[t]] = t
      /\ \A t \in Threads : saved'[t] # None => thread_of'[saved'[t]] = t
      /\ \A r \in Sessions : thread_of'[r] # None => agent'[r] # None /\ sess'[thread_of'[r]] # None
      /\ \A t \in loaded' : sess'[t] # None
      /\ \A t \in Threads : owner'[t] = None => sess'[t] = None /\ saved'[t] = None
  BY <1>2 DEF CoreInv, CoreTypes, SessInv
<1>5. \A t \in Threads : sess'[t] = None => taken'[t] = NothingTaken /\ told'[t] = Unknown
  BY DEF CoreInv, SessInv
<1>6. QED
  BY <1>1, <1>3, <1>4, <1>5 DEF CoreInv, SessInv

-----------------------------------------------------------------------------
(* What was set lasts.                                              *)

\* This holds of all tasks with a session, loaded or not, so that a resume finds it.
ModelInv ==
  \A t \in Threads :
    sess[t] # None /\ taken[t].model # None => agent[sess[t]].model = taken[t].model

EffortInv ==
  \A t \in Threads :
    sess[t] # None /\ taken[t].mode # None => agent[sess[t]].mode = taken[t].mode

\* Update i changes a mode, that of session s.
ModeOf(i, s) == updates[i].what = "mode" /\ updates[i].session = s

\* The last mode that is waiting to be told is the one the session has; if none is
\* waiting, the one that was told is, unless updates of an old session got in.
ToldInv ==
  /\ \A i \in DOMAIN updates : \A s \in Sessions :
       ModeOf(i, s) /\ (\A j \in DOMAIN updates : ModeOf(j, s) => j <= i)
         => updates[i].value = agent[s].mode
  /\ \A t \in Threads :
       sess[t] # None /\ OneSession(t) /\ (\A i \in DOMAIN updates : ~ModeOf(i, sess[t]))
         => told[t].mode \in {None, agent[sess[t]].mode}

\* Task t is alone with its session, whose settings are a record.
LEMMA Alone ==
  ASSUME CoreInv, NEW t \in Threads, sess[t] # None
  PROVE  /\ sess[t] \in Sessions /\ agent[sess[t]] \in AgentSettings /\ agent[sess[t]] # None
         /\ \A u \in Threads \ {t} : sess[u] # None => sess[u] \in Sessions \ {sess[t]}
         /\ \A new : agent' = [agent EXCEPT ![sess[t]] = new]
                     => /\ agent'[sess[t]] = new
                        /\ \A r \in Sessions \ {sess[t]} : agent'[r] = agent[r]
<1>1. sess[t] \in Sessions /\ thread_of[sess[t]] = t /\ t # None
  BY SettingsConstants DEF CoreInv, CoreTypes, SessInv
<1>2. agent[sess[t]] \in AgentSettings /\ agent[sess[t]] # None
  BY <1>1 DEF CoreInv, CoreTypes, SessInv
<1>3. \A u \in Threads \ {t} : sess[u] # None => sess[u] \in Sessions \ {sess[t]}
  BY <1>1 DEF CoreInv, CoreTypes, SessInv
<1>4. QED
  BY <1>1, <1>2, <1>3 DEF CoreInv, CoreTypes

LEMMA TookFacts ==
  ASSUME CoreInv, NEW t \in Threads, NEW m \in Models \cup {None},
         NEW e \in Efforts \cup {None}, taken' = Took(t, m, e)
  PROVE  /\ taken' \in [Threads -> [model : Models \cup {None}, mode : Efforts \cup {None}]]
         /\ taken'[t].model = IF m = None THEN taken[t].model ELSE m
         /\ taken'[t].mode = IF e = None THEN taken[t].mode ELSE e
         /\ \A u \in Threads \ {t} : taken'[u] = taken[u]
BY DEF Took, CoreInv, CoreTypes

\* A step that changes no mode and may append updates about other things.
LEMMA ModesStay ==
  ASSUME CoreInv, NEW more \in Seq(Notes), updates' = updates \o more,
         \A i \in DOMAIN more : more[i].what # "mode", UNCHANGED idMapVars,
         \A r \in Sessions : agent[r] # None => agent'[r].mode = agent[r].mode,
         \A t \in Threads : told'[t].mode = told[t].mode, ToldInv
  PROVE  ToldInv'
<1> USE DEF idMapVars
<1>1. updates \in Seq(Notes) /\ updates' \in Seq(Notes)
  BY DEF CoreInv, SessInv
<1>2. \A i \in DOMAIN updates : i \in DOMAIN updates' /\ updates'[i] = updates[i]
  BY <1>1
<1>3. \A i \in DOMAIN updates' : updates'[i].what = "mode" => i \in DOMAIN updates
  <2>1. SUFFICES ASSUME NEW i \in DOMAIN updates', i \notin DOMAIN updates
                 PROVE  updates'[i].what # "mode"
    OBVIOUS
  <2>2. i \in Nat /\ i > Len(updates) /\ i <= Len(updates) + Len(more)
    BY <1>1, <2>1
  <2>3. i - Len(updates) \in DOMAIN more /\ updates'[i] = more[i - Len(updates)]
    BY <1>1, <2>2
  <2>4. QED
    BY <2>3
<1>4. \A i \in DOMAIN updates, r \in Sessions : ModeOf(i, r) => agent'[r].mode = agent[r].mode
  BY DEF ModeOf, CoreInv, SessInv
<1>5. \A i \in DOMAIN updates' : \A r \in Sessions :
        ModeOf(i, r)' /\ (\A j \in DOMAIN updates' : ModeOf(j, r)' => j <= i)
          => updates'[i].value = agent'[r].mode
  <2>1. SUFFICES ASSUME NEW i \in DOMAIN updates', NEW r \in Sessions, ModeOf(i, r)',
                        \A j \in DOMAIN updates' : ModeOf(j, r)' => j <= i
                 PROVE  updates'[i].value = agent'[r].mode
    OBVIOUS
  <2>2. i \in DOMAIN updates /\ updates'[i] = updates[i] /\ ModeOf(i, r)
    BY <1>2, <1>3, <2>1 DEF ModeOf
  <2>3. \A j \in DOMAIN updates : ModeOf(j, r) => j <= i
    BY <1>2, <2>1 DEF ModeOf
  <2>4. updates[i].value = agent[r].mode
    BY <2>2, <2>3 DEF ToldInv
  <2>5. QED
    BY <1>4, <2>2, <2>4
<1>6. \A t \in Threads :
        sess'[t] # None /\ OneSession(t)' /\ (\A i \in DOMAIN updates' : ~ModeOf(i, sess[t])')
          => told'[t].mode \in {None, agent'[sess'[t]].mode}
  <2>1. \A t \in Threads : sess[t] # None => agent'[sess[t]].mode = agent[sess[t]].mode
    BY Alone
  <2>2. QED
    BY <1>2, <2>1 DEF ToldInv, ModeOf, OneSession
<1>7. QED
  BY <1>5, <1>6 DEF ToldInv, ModeOf, OneSession

LEMMA NewSessionKeeps ==
  ASSUME CoreInv, NEW t \in Threads, NEW s \in Sessions, NEW new \in AgentSettings,
         NewSession(t, s, new), taken'[t].mode = None, taken'[t].model \in {None, new.model}
  PROVE  /\ ModelInv => ModelInv'
         /\ EffortInv => EffortInv'
         /\ ToldInv => ToldInv'
<1> USE DEF NewSession
<1>1. agent'[s] = new /\ \A r \in Sessions \ {s} : agent'[r] = agent[r]
  BY DEF CoreInv, CoreTypes
<1>2. /\ \A u \in Threads \ {t} : sess'[u] # None => sess[u] \in Sessions \ {s} /\ sess'[u] = sess[u]
      /\ sess'[t] = s
  BY Mapped DEF CoreInv, CoreTypes
<1>3. ModelInv => ModelInv'
  BY <1>1, <1>2 DEF ModelInv
<1>4. EffortInv => EffortInv'
  BY <1>1, <1>2 DEF EffortInv
<1>5. ASSUME ToldInv PROVE ToldInv'
  <2>1. \A i \in DOMAIN updates' : \A r \in Sessions :
          ModeOf(i, r)' /\ (\A j \in DOMAIN updates' : ModeOf(j, r)' => j <= i)
            => updates'[i].value = agent'[r].mode
    <3>1. \A i \in DOMAIN updates : updates[i].session # s
      BY DEF CoreInv, SessInv
    <3>2. QED
      BY <1>1, <1>5, <3>1 DEF ToldInv, ModeOf
  <2>2. ASSUME NEW u \in Threads, OneSession(u)', sess'[u] # None,
               \A i \in DOMAIN updates' : ~ModeOf(i, sess[u])'
        PROVE  told'[u].mode \in {None, agent'[sess'[u]].mode}
    <3>1. CASE u = t
      <4>1. sess[t] = None
        BY <2>2, <3>1, Mapped DEF OneSession, CoreInv, CoreTypes, SessInv
      <4>2. QED
        BY <3>1, <4>1 DEF CoreInv, SessInv, Unknown
    <3>2. CASE u # t
      <4>1. sess'[u] = sess[u] /\ sess[u] \in Sessions \ {s}
        BY <1>2, <2>2, <3>2
      <4>2. OneSession(u)
        <5>1. thread_of[s] # u
          BY SettingsConstants DEF CoreInv, SessInv
        <5>2. \A r \in Sessions \ {s} : thread_of'[r] = thread_of[r]
          BY Mapped
        <5>3. QED
          BY <2>2, <4>1, <5>1, <5>2 DEF OneSession
      <4>3. \A i \in DOMAIN updates : ~ModeOf(i, sess[u])
        BY <2>2, <4>1 DEF ModeOf
      <4>4. told[u].mode \in {None, agent[sess[u]].mode}
        BY <1>5, <2>2, <4>1, <4>2, <4>3 DEF ToldInv
      <4>5. QED
        BY <1>1, <4>1, <4>4
    <3>3. QED
      BY <3>1, <3>2
  <2>3. QED
    BY <2>1, <2>2 DEF ToldInv
<1>6. QED
  BY <1>3, <1>4, <1>5

LEMMA StartedKeeps ==
  ASSUME CoreInv, NEW t \in Threads, NEW m \in Models \cup {None}, Started(t, m)
  PROVE  /\ CoreInv'
         /\ ModelInv => ModelInv'
         /\ EffortInv => EffortInv'
         /\ ToldInv => ToldInv'
<1>1. PICK s \in Sessions :
        /\ agent[s] = None /\ owner[t] = None /\ owner'[t] # None
        /\ \A u \in Threads \ {t} : owner'[u] = owner[u]
        /\ owner' \in [Threads -> Backend \cup {None}]
        /\ create_thread_session_mapping(t, s)
        /\ loaded' = loaded \cup {t}
        /\ agent' = [agent EXCEPT ![s] = WithModel(AgentDefault, m)]
        /\ taken' = Took(t, m, None)
        /\ UNCHANGED <<updates, told>>
  BY DEF Started
<1> DEFINE new == WithModel(AgentDefault, m)
<1>2. new \in AgentSettings /\ (m # None => new.model = m)
  BY SettingsFacts DEF AgentSettings
<1>3. taken[t] = NothingTaken
  BY <1>1 DEF CoreInv, SessInv
<1>4. /\ taken' \in [Threads -> [model : Models \cup {None}, mode : Efforts \cup {None}]]
      /\ taken'[t].model = m /\ taken'[t].mode = None
      /\ \A u \in Threads \ {t} : taken'[u] = taken[u]
  BY <1>1, <1>3, TookFacts DEF NothingTaken
<1> HIDE DEF new
<1>5. NewSession(t, s, new)
  BY <1>1, <1>4 DEF NewSession, new
<1>6. QED
  BY <1>2, <1>4, <1>5, NewSessionCore, NewSessionKeeps

LEMMA RolledBackKeeps ==
  ASSUME CoreInv, NEW t \in Threads, handle_thread_rollback(t)
  PROVE  /\ CoreInv'
         /\ ModelInv => ModelInv'
         /\ EffortInv => EffortInv'
         /\ ToldInv => ToldInv'
<1>1. PICK s \in Sessions :
        /\ t \in loaded /\ agent[s] = None
        /\ agent' = [agent EXCEPT ![s] = AgentDefault]
        /\ create_thread_session_mapping(t, s)
        /\ taken' = [taken EXCEPT ![t] = NothingTaken]
        /\ UNCHANGED <<owner, loaded, updates, told>>
  BY DEF handle_thread_rollback
<1>2. /\ taken' \in [Threads -> [model : Models \cup {None}, mode : Efforts \cup {None}]]
      /\ taken'[t] = NothingTaken
      /\ \A u \in Threads \ {t} : taken'[u] = taken[u]
  BY <1>1 DEF CoreInv, CoreTypes, NothingTaken
<1>3. owner[t] # None
  BY <1>1 DEF CoreInv, SessInv
<1>4. NewSession(t, s, AgentDefault)
  BY <1>1, <1>2, <1>3 DEF NewSession, CoreInv, CoreTypes
<1>5. QED
  BY <1>2, <1>4, NewSessionCore, NewSessionKeeps, SettingsFacts DEF NothingTaken

LEMMA ResumedKeeps ==
  ASSUME CoreInv, NEW t \in Threads, NEW m \in Models \cup {None}, Resumed(t, m)
  PROVE  /\ CoreInv'
         /\ ModelInv => ModelInv'
         /\ EffortInv => EffortInv'
         /\ ToldInv => ToldInv'
<1> DEFINE s == sess[t]
           new == WithModel(agent[s], m)
<1>1. /\ s # None /\ taken' = Took(t, m, None)
      /\ loaded' = loaded \cup {t} /\ UNCHANGED <<owner, idMapVars, updates, told>>
      /\ agent' = [agent EXCEPT ![s] = new]
  BY Alone DEF Resumed, CoreInv, CoreTypes
<1>2. /\ s \in Sessions /\ agent[s] \in AgentSettings /\ agent[s] # None
      /\ \A u \in Threads \ {t} : sess[u] # None => sess[u] \in Sessions \ {s}
      /\ agent'[s] = new
      /\ \A r \in Sessions \ {s} : agent'[r] = agent[r]
  BY <1>1, Alone
<1>3. /\ new \in AgentSettings /\ new.mode = agent[s].mode
      /\ m # None => new.model = m
      /\ m = None => new = agent[s]
  BY <1>2, SettingsFacts DEF AgentSettings
<1> HIDE DEF new, s
<1>4. /\ taken' \in [Threads -> [model : Models \cup {None}, mode : Efforts \cup {None}]]
      /\ taken'[t].model = IF m = None THEN taken[t].model ELSE m
      /\ taken'[t].mode = taken[t].mode
      /\ \A u \in Threads \ {t} : taken'[u] = taken[u]
  BY <1>1, TookFacts
<1>5. CoreInv'
  <2> DEFINE none == <<>>
  <2>1. /\ none \in Seq(Notes) /\ updates' = updates \o none /\ Len(updates') <= MaxNotes
        /\ \A i \in DOMAIN none : none[i].session = s
    BY <1>1 DEF CoreInv, CoreTypes, SessInv
  <2>2. loaded' \subseteq Threads /\ \A u \in loaded' : sess[u] # None
    BY <1>1 DEF CoreInv, CoreTypes, SessInv, s
  <2>3. \A u \in Threads : sess[u] = None => taken'[u] = taken[u] /\ told'[u] = told[u]
    BY <1>1, <1>4 DEF s
  <2>4. told' \in [Threads -> [mode : Efforts \cup {None}, options : Options \cup {None}]]
    BY <1>1 DEF CoreInv, CoreTypes
  <2> HIDE DEF none
  <2>5. Changed(s, new, none)
    BY <1>1, <1>2, <1>3, <1>4, <2>1, <2>2, <2>3, <2>4 DEF Changed
  <2>6. QED
    BY <2>5, <1>2, <1>3, <2>1, ChangedCore
<1>6. ModelInv => ModelInv'
  BY <1>1, <1>2, <1>3, <1>4 DEF ModelInv, s, idMapVars
<1>7. \A r \in Sessions : agent[r] # None => agent'[r].mode = agent[r].mode
  BY <1>2, <1>3
<1>8. EffortInv => EffortInv'
  <2>1. \A u \in Threads : taken'[u].mode = taken[u].mode /\ sess'[u] = sess[u]
    BY <1>1, <1>4 DEF idMapVars
  <2>2. \A u \in Threads : sess[u] # None => agent'[sess[u]].mode = agent[sess[u]].mode
    BY <1>7, Alone
  <2>3. QED
    BY <2>1, <2>2 DEF EffortInv
<1>9. ToldInv => ToldInv'
  <2> DEFINE none == <<>>
  <2>1. /\ none \in Seq(Notes) /\ updates' = updates \o none
        /\ \A i \in DOMAIN none : none[i].what # "mode"
    BY <1>1 DEF CoreInv, SessInv
  <2> HIDE DEF none
  <2>2. QED
    BY <1>1, <1>7, <2>1, ModesStay
<1>10. QED
  BY <1>5, <1>6, <1>8, <1>9

\* A step that changes the mode of session s and tells it.
LEMMA ModeChanged ==
  ASSUME CoreInv, NEW s \in Sessions, agent[s] # None, NEW e \in Efforts,
         NEW new \in AgentSettings, new.mode = e, agent' = [agent EXCEPT ![s] = new],
         updates' = updates \o ModeUpdate(s, e), UNCHANGED <<idMapVars, told>>, ToldInv
  PROVE  ToldInv'
<1> USE DEF idMapVars
<1>0. updates \in Seq(Notes)
  BY DEF CoreInv, SessInv
<1>1. PICK n \in Nat : n = Len(updates) + 1
  BY <1>0
<1>2. ModeUpdate(s, e) = <<[session |-> s, what |-> "mode", value |-> e]>>
  BY SettingsConstants DEF ModeUpdate
<1>3. /\ DOMAIN updates' = 1..n
      /\ DOMAIN updates = 1..(n - 1)
      /\ updates'[n] = [session |-> s, what |-> "mode", value |-> e]
      /\ \A i \in DOMAIN updates : updates'[i] = updates[i]
  BY <1>0, <1>1, <1>2
<1>4. agent'[s].mode = e /\ \A r \in Sessions \ {s} : agent'[r] = agent[r]
  BY DEF CoreInv, CoreTypes
<1>5. ModeOf(n, s)' /\ \A i \in DOMAIN updates, r \in Sessions : ModeOf(i, r)' <=> ModeOf(i, r)
  BY <1>3 DEF ModeOf
<1>6. \A i \in DOMAIN updates' : \A r \in Sessions :
        ModeOf(i, r)' /\ (\A j \in DOMAIN updates' : ModeOf(j, r)' => j <= i)
          => updates'[i].value = agent'[r].mode
  <2>1. SUFFICES ASSUME NEW i \in DOMAIN updates', NEW r \in Sessions, ModeOf(i, r)',
                        \A j \in DOMAIN updates' : ModeOf(j, r)' => j <= i
                 PROVE  updates'[i].value = agent'[r].mode
    OBVIOUS
  <2>2. CASE r = s
    <3>1. n <= i
      BY <1>1, <1>3, <1>5, <2>1, <2>2
    <3>2. i = n
      BY <1>1, <1>3, <3>1
    <3>3. QED
      BY <1>3, <1>4, <2>2, <3>2
  <2>3. CASE r # s
    <3>1. i # n
      BY <1>3, <2>1, <2>3 DEF ModeOf
    <3>2. i \in DOMAIN updates
      BY <1>1, <1>3, <3>1
    <3>3. ModeOf(i, r) /\ \A j \in DOMAIN updates : ModeOf(j, r) => j <= i
      BY <1>1, <1>3, <1>5, <2>1, <3>2
    <3>4. updates[i].value = agent[r].mode
      BY <3>2, <3>3 DEF ToldInv
    <3>5. QED
      BY <1>3, <1>4, <2>3, <3>2, <3>4
  <2>4. QED
    BY <2>2, <2>3
<1>7. \A t \in Threads :
        sess'[t] # None /\ OneSession(t)' /\ (\A i \in DOMAIN updates' : ~ModeOf(i, sess[t])')
          => told'[t].mode \in {None, agent'[sess'[t]].mode}
  <2>1. SUFFICES ASSUME NEW t \in Threads, sess[t] # None, OneSession(t),
                        \A i \in DOMAIN updates' : ~ModeOf(i, sess[t])'
                 PROVE  told[t].mode \in {None, agent'[sess[t]].mode}
    BY DEF ModeOf, OneSession
  <2>2. sess[t] \in Sessions
    BY <2>1, Alone
  <2>3. sess[t] # s
    <3>1. n \in DOMAIN updates' /\ updates'[n].what = "mode" /\ updates'[n].session = s
      BY <1>1, <1>3
    <3>2. ~(updates'[n].what = "mode" /\ updates'[n].session = sess'[t])
      BY <2>1, <3>1 DEF ModeOf
    <3>3. QED
      BY <3>1, <3>2
  <2>4. \A i \in DOMAIN updates : ~ModeOf(i, sess[t])
    <3>1. \A i \in DOMAIN updates : i \in DOMAIN updates'
      BY <1>1, <1>3
    <3>2. QED
      BY <1>3, <2>1, <3>1 DEF ModeOf
  <2>5. told[t].mode \in {None, agent[sess[t]].mode}
    BY <2>1, <2>4 DEF ToldInv
  <2>6. QED
    BY <1>4, <2>2, <2>3, <2>5
<1>8. QED
  BY <1>6, <1>7 DEF ToldInv, ModeOf

LEMMA TurnedKeeps ==
  ASSUME CoreInv, NEW t \in Threads, NEW e \in Efforts \cup {None}, Turned(t, e)
  PROVE  /\ CoreInv'
         /\ ModelInv => ModelInv'
         /\ EffortInv => EffortInv'
         /\ ToldInv => ToldInv'
<1> DEFINE s == sess[t]
           new == WithMode(agent[s], e)
           more == ModeUpdate(s, e)
<1>1. /\ t \in loaded /\ s # None /\ Len(updates) < MaxNotes /\ taken' = Took(t, None, e)
      /\ updates' = updates \o more /\ UNCHANGED <<owner, idMapVars, loaded, told>>
      /\ agent' = [agent EXCEPT ![s] = new]
  BY DEF Turned, CoreInv, CoreTypes, SessInv
<1>2. /\ s \in Sessions /\ agent[s] \in AgentSettings /\ agent[s] # None
      /\ \A u \in Threads \ {t} : sess[u] # None => sess[u] \in Sessions \ {s}
      /\ agent'[s] = new
      /\ \A r \in Sessions \ {s} : agent'[r] = agent[r]
  BY <1>1, Alone
<1>3. /\ new \in AgentSettings /\ new.model = agent[s].model
      /\ e = None => new = agent[s]
      /\ e # None => new.mode = e
  BY <1>2, SettingsFacts, SettingsConstants DEF WithMode, AgentSettings
<1>4. /\ taken' \in [Threads -> [model : Models \cup {None}, mode : Efforts \cup {None}]]
      /\ taken'[t].model = taken[t].model
      /\ taken'[t].mode = IF e = None THEN taken[t].mode ELSE e
      /\ \A u \in Threads \ {t} : taken'[u] = taken[u]
  BY <1>1, TookFacts
<1>5. /\ more \in Seq(Notes)
      /\ \A i \in DOMAIN more : more[i].session = s
      /\ e = None => more = <<>>
      /\ Len(updates') <= MaxNotes
  <2>1. /\ more \in Seq(Notes)
        /\ e = None => more = <<>>
        /\ e # None => Len(more) = 1 /\ more[1] = [session |-> s, what |-> "mode", value |-> e]
    BY <1>2, NotesOf
  <2>2. Len(more) <= 1 /\ Len(more) \in Nat /\ DOMAIN more = 1..Len(more)
    <3> HIDE DEF more
    <3>1. Len(<<>>) = 0
      OBVIOUS
    <3>2. Len(more) \in {0, 1}
      BY <2>1, <3>1
    <3>3. Len(more) \in Nat /\ DOMAIN more = 1..Len(more)
      BY <2>1
    <3>4. QED
      BY <3>2, <3>3
  <2>3. \A i \in DOMAIN more : i = 1 /\ e # None
    <3> HIDE DEF more
    <3>1. QED
      BY <2>1, <2>2
  <2>4. updates \in Seq(Notes)
    BY DEF CoreInv, SessInv
  <2>5. Len(updates') = Len(updates) + Len(more) /\ Len(updates) \in Nat
    BY <1>1, <2>1, <2>4
  <2>6. QED
    BY <1>1, <2>1, <2>2, <2>3, <2>5, SettingsConstants
<1> HIDE DEF new, more
<1>6. CoreInv'
  <2>1. loaded' \subseteq Threads /\ \A u \in loaded' : sess[u] # None
    BY <1>1 DEF CoreInv, CoreTypes, SessInv
  <2>2. \A u \in Threads : sess[u] = None => taken'[u] = taken[u] /\ told'[u] = told[u]
    BY <1>1, <1>4
  <2>3. told' \in [Threads -> [mode : Efforts \cup {None}, options : Options \cup {None}]]
    BY <1>1 DEF CoreInv, CoreTypes
  <2> HIDE DEF s
  <2>4. Changed(s, new, more)
    BY <1>1, <1>2, <1>3, <1>4, <1>5, <2>1, <2>2, <2>3 DEF Changed
  <2>5. QED
    BY <2>4, <1>2, <1>3, <1>5, ChangedCore
<1>7. ModelInv => ModelInv'
  BY <1>1, <1>2, <1>3, <1>4 DEF ModelInv, idMapVars
<1>8. EffortInv => EffortInv'
  BY <1>1, <1>2, <1>3, <1>4 DEF EffortInv, idMapVars
<1>9. ToldInv => ToldInv'
  <2>1. CASE e = None
    <3>1. \A r \in Sessions : agent[r] # None => agent'[r].mode = agent[r].mode
      BY <1>2, <1>3, <2>1
    <3>2. \A i \in DOMAIN more : more[i].what # "mode"
      BY <1>5, <2>1
    <3>3. QED
      BY <1>1, <1>5, <3>1, <3>2, ModesStay
  <2>2. CASE e # None
    BY <1>1, <1>2, <1>3, <2>2, ModeChanged DEF more
  <2>3. QED
    BY <2>1, <2>2
<1>10. QED
  BY <1>6, <1>7, <1>8, <1>9

LEMMA OptionsKeep ==
  ASSUME CoreInv, NEW t \in Threads, handle_set_session_config_option(t)
  PROVE  /\ CoreInv'
         /\ ModelInv => ModelInv'
         /\ EffortInv => EffortInv'
         /\ ToldInv => ToldInv'
<1> DEFINE s == sess[t]
           none == <<>>
<1>1. PICK c \in Options :
        /\ t \in loaded /\ agent' = [agent EXCEPT ![s].options = c]
        /\ told' = [told EXCEPT ![t].options = c]
        /\ UNCHANGED <<owner, idMapVars, loaded, updates, taken>>
  BY DEF handle_set_session_config_option
<1> DEFINE new == [agent[s] EXCEPT !.options = c]
<1>2. s # None /\ s \in Sessions
  BY <1>1 DEF CoreInv, CoreTypes, SessInv
<1>3. agent' = [agent EXCEPT ![s] = new]
  BY <1>1, <1>2 DEF CoreInv, CoreTypes
<1>4. /\ agent[s] \in AgentSettings /\ agent[s] # None /\ agent'[s] = new
      /\ \A u \in Threads \ {t} : sess[u] # None => sess[u] \in Sessions \ {s}
      /\ \A r \in Sessions \ {s} : agent'[r] = agent[r]
  BY <1>2, <1>3, Alone
<1>5. new \in AgentSettings /\ new.mode = agent[s].mode /\ new.model = agent[s].model
  BY <1>4 DEF AgentSettings
<1> HIDE DEF new
<1>6. /\ told' \in [Threads -> [mode : Efforts \cup {None}, options : Options \cup {None}]]
      /\ \A u \in Threads : told'[u].mode = told[u].mode
      /\ \A u \in Threads \ {t} : told'[u] = told[u]
  BY <1>1 DEF CoreInv, CoreTypes
<1>7. /\ none \in Seq(Notes) /\ updates' = updates \o none /\ Len(updates') <= MaxNotes
      /\ \A i \in DOMAIN none : none[i].session = s /\ none[i].what # "mode"
  BY <1>1 DEF CoreInv, CoreTypes, SessInv
<1> HIDE DEF none
<1>8. CoreInv'
  <2>1. loaded' \subseteq Threads /\ \A u \in loaded' : sess[u] # None
    BY <1>1 DEF CoreInv, CoreTypes, SessInv
  <2>2. \A u \in Threads : sess[u] = None => taken'[u] = taken[u] /\ told'[u] = told[u]
    BY <1>1, <1>2, <1>6
  <2>3. taken' \in [Threads -> [model : Models \cup {None}, mode : Efforts \cup {None}]]
    BY <1>1 DEF CoreInv, CoreTypes
  <2> HIDE DEF s
  <2>4. Changed(s, new, none)
    BY <1>1, <1>2, <1>3, <1>4, <1>5, <1>6, <1>7, <2>1, <2>2, <2>3 DEF Changed
  <2>5. QED
    BY <2>4, <1>2, <1>5, <1>7, ChangedCore
<1>9. \A r \in Sessions : agent[r] # None =>
        agent'[r].mode = agent[r].mode /\ agent'[r].model = agent[r].model
  BY <1>4, <1>5
<1>10. \A u \in Threads : sess[u] # None =>
         agent'[sess[u]].mode = agent[sess[u]].mode /\ agent'[sess[u]].model = agent[sess[u]].model
  BY <1>9, Alone
<1>11. (ModelInv => ModelInv') /\ (EffortInv => EffortInv')
  BY <1>1, <1>10 DEF ModelInv, EffortInv, idMapVars
<1>12. ToldInv => ToldInv'
  <2>1. \A i \in DOMAIN none : none[i].what # "mode"
    BY <1>7
  <2>2. none \in Seq(Notes) /\ updates' = updates \o none /\ UNCHANGED idMapVars
    BY <1>1, <1>7
  <2>3. \A r \in Sessions : agent[r] # None => agent'[r].mode = agent[r].mode
    BY <1>9
  <2>4. \A u \in Threads : told'[u].mode = told[u].mode
    BY <1>6
  <2>5. QED
    BY <2>1, <2>2, <2>3, <2>4, ModesStay
<1>13. QED
  BY <1>8, <1>11, <1>12

LEMMA AgentModeKeeps ==
  ASSUME CoreInv, NEW s \in Sessions, NEW e \in Efforts, AgentChangesMode(s, e)
  PROVE  /\ CoreInv'
         /\ ModelInv => ModelInv'
         /\ EffortInv => EffortInv'
         /\ ToldInv => ToldInv'
<1> DEFINE new == [agent[s] EXCEPT !.mode = e]
           more == ModeUpdate(s, e)
<1>1. /\ agent[s] # None /\ Len(updates) < MaxNotes
      /\ agent' = [agent EXCEPT ![s].mode = e]
      /\ updates' = updates \o more
      /\ taken' = [t \in Threads |-> IF sess[t] = s THEN [taken[t] EXCEPT !.mode = None] ELSE taken[t]]
      /\ UNCHANGED <<owner, idMapVars, loaded, told>>
  BY SettingsConstants DEF AgentChangesMode, CoreInv, CoreTypes, SessInv
<1>2. /\ agent' = [agent EXCEPT ![s] = new] /\ agent[s] \in AgentSettings
      /\ agent'[s] = new /\ \A r \in Sessions \ {s} : agent'[r] = agent[r]
  BY <1>1 DEF CoreInv, CoreTypes
<1>3. new \in AgentSettings /\ new.mode = e /\ new.model = agent[s].model
  BY <1>2 DEF AgentSettings
<1> HIDE DEF new
<1>4. /\ taken' \in [Threads -> [model : Models \cup {None}, mode : Efforts \cup {None}]]
      /\ \A t \in Threads : /\ taken'[t].model = taken[t].model
                            /\ sess[t] = s => taken'[t].mode = None
                            /\ sess[t] # s => taken'[t] = taken[t]
  BY <1>1 DEF CoreInv, CoreTypes
<1>5. /\ more \in Seq(Notes) /\ \A i \in DOMAIN more : more[i].session = s
      /\ Len(updates') <= MaxNotes
  <2>1. /\ more \in Seq(Notes) /\ e # None
        /\ Len(more) = 1 /\ more[1] = [session |-> s, what |-> "mode", value |-> e]
    BY NotesOf, SettingsConstants
  <2> HIDE DEF more
  <2>2. DOMAIN more = {1}
    BY <2>1
  <2>3. updates \in Seq(Notes)
    BY DEF CoreInv, SessInv
  <2>4. Len(updates') = Len(updates) + 1 /\ Len(updates) \in Nat
    <3>1. updates' = updates \o more /\ more \in Seq(Notes)
      BY <1>1, <2>1
    <3>2. Len(updates') = Len(updates) + Len(more) /\ Len(updates) \in Nat
      BY ONLY <2>3, <3>1
    <3>3. QED
      BY <2>1, <3>2
  <2>5. QED
    BY <1>1, <2>1, <2>2, <2>4, SettingsConstants
<1> HIDE DEF more
<1>6. CoreInv'
  <2>1. loaded' \subseteq Threads /\ \A u \in loaded' : sess[u] # None
    BY <1>1 DEF CoreInv, CoreTypes, SessInv
  <2>2. \A u \in Threads : sess[u] = None => taken'[u] = taken[u] /\ told'[u] = told[u]
    BY <1>1, <1>4, SettingsConstants
  <2>3. told' \in [Threads -> [mode : Efforts \cup {None}, options : Options \cup {None}]]
    BY <1>1 DEF CoreInv, CoreTypes
  <2>4. Changed(s, new, more)
    BY <1>1, <1>2, <1>3, <1>4, <1>5, <2>1, <2>2, <2>3 DEF Changed
  <2>5. QED
    BY <2>4, <1>3, <1>5, ChangedCore
<1>7. \A u \in Threads : sess[u] # None =>
        /\ agent'[sess[u]].model = agent[sess[u]].model
        /\ sess[u] # s => agent'[sess[u]].mode = agent[sess[u]].mode
  BY <1>2, <1>3, Alone
<1>8. (ModelInv => ModelInv') /\ (EffortInv => EffortInv')
  BY <1>1, <1>4, <1>7 DEF ModelInv, EffortInv, idMapVars
<1>9. ToldInv => ToldInv'
  BY <1>1, <1>2, <1>3, ModeChanged DEF more
<1>10. QED
  BY <1>6, <1>8, <1>9

LEMMA AgentOptionsKeep ==
  ASSUME CoreInv, NEW s \in Sessions, NEW c \in Options, AgentChangesOptions(s, c)
  PROVE  /\ CoreInv'
         /\ ModelInv => ModelInv'
         /\ EffortInv => EffortInv'
         /\ ToldInv => ToldInv'
<1> DEFINE new == [agent[s] EXCEPT !.options = c]
           more == <<[session |-> s, what |-> "options", value |-> c]>>
<1>1. /\ agent[s] # None /\ Len(updates) < MaxNotes
      /\ agent' = [agent EXCEPT ![s].options = c]
      /\ updates' = Append(updates, [session |-> s, what |-> "options", value |-> c])
      /\ UNCHANGED <<owner, idMapVars, loaded, told, taken>>
  BY SettingsConstants DEF AgentChangesOptions, CoreInv, CoreTypes, SessInv
<1>2. /\ agent' = [agent EXCEPT ![s] = new] /\ agent[s] \in AgentSettings
      /\ agent'[s] = new /\ \A r \in Sessions \ {s} : agent'[r] = agent[r]
  BY <1>1 DEF CoreInv, CoreTypes
<1>3. new \in AgentSettings /\ new.mode = agent[s].mode /\ new.model = agent[s].model
  BY <1>2 DEF AgentSettings
<1> HIDE DEF new
<1>4. /\ more \in Seq(Notes) /\ updates' = updates \o more /\ Len(updates') <= MaxNotes
      /\ \A i \in DOMAIN more : more[i].session = s /\ more[i].what # "mode"
  <2>1. [session |-> s, what |-> "options", value |-> c] \in Notes
    BY DEF Notes
  <2>2. updates \in Seq(Notes)
    BY DEF CoreInv, SessInv
  <2>3. Len(updates') = Len(updates) + 1 /\ Len(updates) \in Nat
    BY <1>1, <2>2
  <2>4. more \in Seq(Notes) /\ updates' = updates \o more
    BY <1>1, <2>1, <2>2
  <2>5. \A i \in DOMAIN more : more[i].session = s /\ more[i].what # "mode"
    OBVIOUS
  <2>6. QED
    BY <1>1, <2>3, <2>4, <2>5, SettingsConstants
<1> HIDE DEF more
<1>5. CoreInv'
  <2>1. loaded' \subseteq Threads /\ \A u \in loaded' : sess[u] # None
    BY <1>1 DEF CoreInv, CoreTypes, SessInv
  <2>2. \A u \in Threads : sess[u] = None => taken'[u] = taken[u] /\ told'[u] = told[u]
    BY <1>1
  <2>3. /\ told' \in [Threads -> [mode : Efforts \cup {None}, options : Options \cup {None}]]
        /\ taken' \in [Threads -> [model : Models \cup {None}, mode : Efforts \cup {None}]]
    BY <1>1 DEF CoreInv, CoreTypes
  <2>4. Changed(s, new, more)
    BY <1>1, <1>2, <1>3, <1>4, <2>1, <2>2, <2>3 DEF Changed
  <2>5. QED
    BY <2>4, <1>3, <1>4, ChangedCore
<1>6. \A r \in Sessions : agent[r] # None =>
        agent'[r].mode = agent[r].mode /\ agent'[r].model = agent[r].model
  BY <1>2, <1>3
<1>7. \A u \in Threads : sess[u] # None =>
        agent'[sess[u]].mode = agent[sess[u]].mode /\ agent'[sess[u]].model = agent[sess[u]].model
  BY <1>6, Alone
<1>8. (ModelInv => ModelInv') /\ (EffortInv => EffortInv')
  BY <1>1, <1>7 DEF ModelInv, EffortInv, idMapVars
<1>9. ToldInv => ToldInv'
  BY <1>1, <1>4, <1>6, ModesStay
<1>10. QED
  BY <1>5, <1>8, <1>9

LEMMA TakeKeeps ==
  ASSUME CoreInv, TakeUpdate
  PROVE  /\ CoreInv'
         /\ ModelInv => ModelInv'
         /\ EffortInv => EffortInv'
         /\ ToldInv => ToldInv'
<1> DEFINE u == Head(updates)
<1>1. /\ updates # <<>> /\ updates' = Tail(updates)
      /\ told' = [t \in Threads |->
           IF thread_of[u.session] # t THEN told[t]
           ELSE IF u.what = "mode" THEN [told[t] EXCEPT !.mode = u.value]
           ELSE IF Direct THEN [told[t] EXCEPT !.options = u.value] ELSE told[t]]
      /\ UNCHANGED <<owner, idMapVars, loaded, agent, taken>>
  BY DEF TakeUpdate
<1>2. updates \in Seq(Notes)
  BY DEF CoreInv, SessInv
<1>3. /\ u = updates[1] /\ 1 \in DOMAIN updates
      /\ updates' \in Seq(Notes) /\ Len(updates') <= MaxNotes
      /\ \A i \in DOMAIN updates' : i + 1 \in DOMAIN updates /\ updates'[i] = updates[i + 1]
      /\ \A i \in DOMAIN updates \ {1} : i - 1 \in DOMAIN updates' /\ updates'[i - 1] = updates[i]
      /\ DOMAIN updates \subseteq Nat /\ DOMAIN updates' \subseteq Nat
  <2>1. updates # <<>> /\ updates' = Tail(updates) /\ Len(updates) <= MaxNotes
    BY <1>1 DEF CoreInv, CoreTypes
  <2>2. /\ updates' \in Seq(Notes) /\ Len(updates') = Len(updates) - 1
        /\ Len(updates) \in Nat /\ Len(updates) > 0
    BY ONLY <1>2, <2>1
  <2>3. DOMAIN updates = 1..Len(updates) /\ DOMAIN updates' = 1..(Len(updates) - 1)
    BY ONLY <1>2, <2>2
  <2>4. \A i \in DOMAIN updates' : updates'[i] = updates[i + 1]
    BY ONLY <1>2, <2>1, <2>2, <2>3
  <2>5. /\ \A i \in DOMAIN updates' : i + 1 \in DOMAIN updates
        /\ \A i \in DOMAIN updates \ {1} : i - 1 \in DOMAIN updates' /\ (i - 1) + 1 = i
    BY ONLY <2>2, <2>3
  <2>6. \A i \in DOMAIN updates \ {1} : updates'[i - 1] = updates[i]
    <3>1. SUFFICES ASSUME NEW i \in DOMAIN updates \ {1} PROVE updates'[i - 1] = updates[i]
      OBVIOUS
    <3>2. i - 1 \in DOMAIN updates' /\ (i - 1) + 1 = i
      BY ONLY <2>5, i \in DOMAIN updates \ {1}
    <3>3. updates'[i - 1] = updates[(i - 1) + 1]
      BY ONLY <2>4, <3>2
    <3>4. QED
      BY <3>2, <3>3
  <2>7. Len(updates') <= MaxNotes
    BY <2>1, <2>2, SettingsConstants
  <2>8. u = updates[1] /\ 1 \in DOMAIN updates
    BY <1>2, <2>2, <2>3
  <2>9. QED
    BY <2>2, <2>3, <2>4, <2>5, <2>6, <2>7, <2>8
<1>4. u \in Notes
  BY <1>2, <1>3
<1> HIDE DEF u
<1>5. /\ u.session \in Sessions
      /\ u.what = "mode" => u.value \in Efforts
      /\ u.what # "mode" => u.value \in Options
  BY <1>4 DEF Notes, ModeNotes
<1>6. \A t \in Threads :
        /\ told'[t] \in [mode : Efforts \cup {None}, options : Options \cup {None}]
        /\ sess[t] = None => told'[t] = told[t]
        /\ ~(u.what = "mode" /\ thread_of[u.session] = t) => told'[t].mode = told[t].mode
        /\ u.what = "mode" /\ thread_of[u.session] = t => told'[t].mode = u.value
  <2>1. SUFFICES ASSUME NEW t \in Threads
                 PROVE  /\ told'[t] \in [mode : Efforts \cup {None}, options : Options \cup {None}]
                        /\ sess[t] = None => told'[t] = told[t]
                        /\ ~(u.what = "mode" /\ thread_of[u.session] = t) => told'[t].mode = told[t].mode
                        /\ u.what = "mode" /\ thread_of[u.session] = t => told'[t].mode = u.value
    OBVIOUS
  <2>2. told[t] \in [mode : Efforts \cup {None}, options : Options \cup {None}]
    BY DEF CoreInv, CoreTypes
  <2>3. CASE thread_of[u.session] = t
    <3>1. sess[t] # None
      BY <1>5, <2>3, SettingsConstants DEF CoreInv, SessInv
    <3>2. QED
      BY <1>1, <1>5, <2>2, <2>3, <3>1
  <2>4. CASE thread_of[u.session] # t
    BY <1>1, <2>2, <2>4
  <2>5. QED
    BY <2>3, <2>4
<1>7. CoreInv'
  <2>1. told' \in [Threads -> [mode : Efforts \cup {None}, options : Options \cup {None}]]
    BY <1>1, <1>6
  <2>2. CoreTypes'
    BY <1>1, <1>3, <2>1 DEF CoreInv, CoreTypes, idMapVars
  <2>3. SessInv'
    <3>1. \A i \in DOMAIN updates' : agent'[updates'[i].session] # None
      BY <1>1, <1>3 DEF CoreInv, SessInv
    <3>2. \A t \in Threads : sess'[t] = None => taken'[t] = NothingTaken /\ told'[t] = Unknown
      BY <1>1, <1>6 DEF CoreInv, SessInv, idMapVars
    <3>3. QED
      BY <1>1, <1>3, <3>1, <3>2 DEF CoreInv, SessInv, idMapVars
  <2>4. QED
    BY <2>2, <2>3 DEF CoreInv
<1>8. (ModelInv => ModelInv') /\ (EffortInv => EffortInv')
  BY <1>1 DEF ModelInv, EffortInv, idMapVars
<1>9. ASSUME ToldInv PROVE ToldInv'
  <2>1. \A i \in DOMAIN updates' : \A r \in Sessions :
          ModeOf(i, r)' /\ (\A j \in DOMAIN updates' : ModeOf(j, r)' => j <= i)
            => updates'[i].value = agent'[r].mode
    <3>1. SUFFICES ASSUME NEW i \in DOMAIN updates', NEW r \in Sessions, ModeOf(i, r)',
                          \A j \in DOMAIN updates' : ModeOf(j, r)' => j <= i
                   PROVE  updates'[i].value = agent'[r].mode
      OBVIOUS
    <3>2. i + 1 \in DOMAIN updates /\ ModeOf(i + 1, r)
      BY <1>3, <3>1 DEF ModeOf
    <3>3. ASSUME NEW j \in DOMAIN updates, ModeOf(j, r) PROVE j <= i + 1
      <4>1. CASE j = 1
        BY <1>3, <4>1
      <4>2. CASE j # 1
        <5>1. j - 1 \in DOMAIN updates' /\ updates'[j - 1] = updates[j]
          BY <1>3, <4>2
        <5>2. j - 1 <= i
          BY <3>1, <3>3, <5>1 DEF ModeOf
        <5>3. QED
          BY <1>3, <5>2
      <4>3. QED
        BY <4>1, <4>2
    <3>4. updates[i + 1].value = agent[r].mode
      BY <1>9, <3>2, <3>3 DEF ToldInv
    <3>5. QED
      BY <1>1, <1>3, <3>4
  <2>2. \A t \in Threads :
          sess'[t] # None /\ OneSession(t)' /\ (\A i \in DOMAIN updates' : ~ModeOf(i, sess[t])')
            => told'[t].mode \in {None, agent'[sess'[t]].mode}
    <3>1. SUFFICES ASSUME NEW t \in Threads, sess[t] # None, OneSession(t),
                          \A i \in DOMAIN updates' : ~ModeOf(i, sess[t])'
                   PROVE  told'[t].mode \in {None, agent[sess[t]].mode}
      BY <1>1 DEF idMapVars, OneSession
    <3>2. sess[t] \in Sessions
      BY <3>1, Alone
    <3>3. \A i \in DOMAIN updates \ {1} : ~ModeOf(i, sess[t])
      BY <1>1, <1>3, <3>1 DEF ModeOf, idMapVars
    <3>4. CASE ModeOf(1, sess[t])
      <4>1. \A j \in DOMAIN updates : ModeOf(j, sess[t]) => j <= 1
        BY <1>3, <3>3
      <4>2. updates[1].value = agent[sess[t]].mode
        BY <1>3, <1>9, <3>2, <3>4, <4>1 DEF ToldInv
      <4>3. QED
        BY <1>3, <1>6, <3>1, <3>4, <4>2 DEF ModeOf, CoreInv, SessInv
    <3>5. CASE ~ModeOf(1, sess[t])
      <4>1. told'[t].mode = told[t].mode
        BY <1>3, <1>5, <1>6, <3>1, <3>5 DEF ModeOf, OneSession
      <4>2. QED
        BY <1>9, <3>1, <3>3, <3>5, <4>1 DEF ToldInv
    <3>6. QED
      BY <3>4, <3>5
  <2>3. QED
    BY <2>1, <2>2 DEF ToldInv, ModeOf
<1>10. QED
  BY <1>7, <1>8, <1>9

LEMMA RestartKeeps ==
  ASSUME CoreInv, Restart
  PROVE  /\ CoreInv'
         /\ ModelInv => ModelInv'
         /\ EffortInv => EffortInv'
         /\ ToldInv'
<1>1. /\ loaded' = {} /\ updates' = <<>> /\ sess' = saved
      /\ told' = [t \in Threads |-> Unknown]
      /\ thread_of' = [s \in Sessions |->
           IF \E t \in Threads : saved[t] = s THEN CHOOSE t \in Threads : saved[t] = s ELSE None]
      /\ taken' = [t \in Threads |-> IF saved[t] = sess[t] THEN taken[t] ELSE NothingTaken]
      /\ UNCHANGED <<owner, saved, agent>>
  BY DEF Restart
<1>2. CoreTypes'
  <2>1. thread_of' \in [Sessions -> Threads \cup {None}]
    BY <1>1
  <2>2. taken' \in [Threads -> [model : Models \cup {None}, mode : Efforts \cup {None}]]
    BY <1>1 DEF CoreInv, CoreTypes, NothingTaken
  <2>3. QED
    BY <1>1, <2>1, <2>2, SettingsConstants DEF CoreInv, CoreTypes, Unknown
<1>3. \A s \in Sessions, t \in Threads : thread_of'[s] = t <=> saved[t] = s
  <2>1. \A t, u \in Threads : saved[t] = saved[u] /\ saved[t] # None => t = u
    BY DEF CoreInv, SessInv
  <2>2. SUFFICES ASSUME NEW s \in Sessions, NEW t \in Threads PROVE thread_of'[s] = t <=> saved[t] = s
    OBVIOUS
  <2>3. s # None /\ t # None
    BY SettingsConstants
  <2>4. CASE \E u \in Threads : saved[u] = s
    <3>1. thread_of'[s] \in Threads /\ saved[thread_of'[s]] = s
      BY <1>1, <2>4
    <3>2. QED
      BY <2>1, <2>3, <3>1
  <2>5. CASE ~\E u \in Threads : saved[u] = s
    BY <1>1, <2>3, <2>5
  <2>6. QED
    BY <2>4, <2>5
<1>4. SessInv'
  <2>1. \A t \in Threads : sess'[t] # None => thread_of'[sess'[t]] = t
    BY <1>1, <1>3 DEF CoreInv, CoreTypes
  <2>2. \A s \in Sessions :
          thread_of'[s] # None => agent'[s] # None /\ sess'[thread_of'[s]] # None
    <3>1. SUFFICES ASSUME NEW s \in Sessions, NEW t \in Threads, thread_of'[s] = t
                   PROVE  agent[s] # None /\ saved[t] # None
      BY <1>1, <1>2 DEF CoreTypes
    <3>2. saved[t] = s /\ s # None
      BY <1>3, <3>1, SettingsConstants
    <3>3. thread_of[s] = t
      BY <3>2 DEF CoreInv, SessInv
    <3>4. agent[s] # None
      BY <3>3, SettingsConstants DEF CoreInv, SessInv
    <3>5. QED
      BY <3>2, <3>4
  <2>3. \A t \in Threads : sess'[t] = None => taken'[t] = NothingTaken /\ told'[t] = Unknown
    BY <1>1 DEF CoreInv, SessInv
  <2>4. \A t \in Threads : saved[t] # None => thread_of'[saved[t]] = t
    BY <1>3 DEF CoreInv, CoreTypes
  <2>5. \A t \in Threads : owner[t] = None => saved[t] = None
    BY DEF CoreInv, SessInv
  <2>6. updates' \in Seq(Notes) /\ DOMAIN updates' = {}
    BY <1>1
  <2>7. QED
    BY <1>1, <2>1, <2>2, <2>3, <2>4, <2>5, <2>6 DEF SessInv
<1>5. (ModelInv => ModelInv') /\ (EffortInv => EffortInv')
  BY <1>1 DEF ModelInv, EffortInv, NothingTaken
<1>6. ToldInv'
  BY <1>1 DEF ToldInv, Unknown
<1>7. QED
  BY <1>2, <1>4, <1>5, <1>6 DEF CoreInv

LEMMA AsideKeeps ==
  ASSUME CoreInv, owner' \in [Threads -> Backend \cup {None}],
         \A t \in Threads : owner'[t] = None => owner[t] = None,
         UNCHANGED <<idMapVars, loaded, agent, updates, told, taken>>
  PROVE  /\ CoreInv'
         /\ ModelInv => ModelInv'
         /\ EffortInv => EffortInv'
         /\ ToldInv => ToldInv'
<1> USE DEF idMapVars
<1>1. CoreInv'
  BY DEF CoreInv, CoreTypes, SessInv
<1>2. (ModelInv => ModelInv') /\ (EffortInv => EffortInv')
  BY DEF ModelInv, EffortInv, idMapVars
<1>3. ToldInv => ToldInv'
  BY DEF ToldInv, ModeOf, OneSession
<1>4. QED
  BY <1>1, <1>2, <1>3

LEMMA InitSettings == SettingsInit => TypeInv /\ ModelInv /\ EffortInv /\ ToldInv
<1> SUFFICES ASSUME SettingsInit PROVE TypeInv /\ ModelInv /\ EffortInv /\ ToldInv
  OBVIOUS
<1>1. CoreTypes /\ RestTypes
  <2>1. told \in [Threads -> [mode : Efforts \cup {None}, options : Options \cup {None}]]
    BY DEF SettingsInit, Unknown
  <2>2. taken \in [Threads -> [model : Models \cup {None}, mode : Efforts \cup {None}]]
    BY DEF SettingsInit, NothingTaken
  <2>3. Len(updates) <= MaxNotes /\ restarts \in 0..MaxRestarts
    BY SettingsConstants DEF SettingsInit
  <2>4. CoreTypes
    BY <2>1, <2>2, <2>3 DEF SettingsInit, CoreTypes
  <2>5. RestTypes
    BY <2>3 DEF SettingsInit, RestTypes, GivenTypes
  <2>6. QED
    BY <2>4, <2>5
<1>2. SessInv
  BY DEF SettingsInit, SessInv
<1>3. ModelInv /\ EffortInv /\ ToldInv
  BY DEF SettingsInit, ModelInv, EffortInv, ToldInv, NothingTaken
<1>4. QED
  BY <1>1, <1>2, <1>3, TypesOfAll DEF TypeInv

LEMMA NextSettings ==
  ASSUME IInv, TypeInv, [SettingsNext]_settingsVars
  PROVE  /\ TypeInv'
         /\ ModelInv => ModelInv'
         /\ EffortInv => EffortInv'
         /\ ToldInv => ToldInv'
<1> DEFINE Kept == /\ CoreInv'
                   /\ ModelInv => ModelInv'
                   /\ EffortInv => EffortInv'
                   /\ ToldInv => ToldInv'
<1>1. CoreInv /\ RestTypes
  BY TypesOfAll DEF TypeInv, CoreInv
<1>2. RestTypes'
  BY <1>1, NextRestTypes
<1>3. Kept
  <2>1. ASSUME NEW t \in Threads, NEW m \in Models \cup {None}, Started(t, m) PROVE Kept
    BY <1>1, <2>1, StartedKeeps
  <2>2. ASSUME NEW t \in Threads, NEW m \in Models \cup {None}, Resumed(t, m) PROVE Kept
    BY <1>1, <2>2, ResumedKeeps
  <2>3. ASSUME NEW t \in Threads, NEW e \in Efforts \cup {None}, Turned(t, e) PROVE Kept
    BY <1>1, <2>3, TurnedKeeps
  <2>4. ASSUME NEW t \in Threads, handle_set_session_config_option(t) PROVE Kept
    BY <1>1, <2>4, OptionsKeep
  <2>5. ASSUME NEW t \in Threads, handle_thread_rollback(t) PROVE Kept
    BY <1>1, <2>5, RolledBackKeeps
  <2>6. ASSUME NEW s \in Sessions, NEW e \in Efforts, AgentChangesMode(s, e) PROVE Kept
    BY <1>1, <2>6, AgentModeKeeps
  <2>7. ASSUME NEW s \in Sessions, NEW c \in Options, AgentChangesOptions(s, c) PROVE Kept
    BY <1>1, <2>7, AgentOptionsKeep
  <2>8. CASE TakeUpdate
    BY <1>1, <2>8, TakeKeeps
  <2>9. CASE Restart
    BY <1>1, <2>9, RestartKeeps
  <2>10. CASE Aside
    BY <1>1, <2>10, AsideKeeps DEF Aside
  <2>11. CASE UNCHANGED settingsVars
    <3>1. owner \in [Threads -> Backend \cup {None}]
      BY DEF IInv, Functions
    <3>2. QED
      BY <1>1, <2>11, <3>1, AsideKeeps DEF settingsVars, idMapVars
  <2> HIDE DEF Kept
  <2>12. CASE SettingsNext
    <3>1. CASE \E t \in Threads, m \in Models \cup {None} : Started(t, m) \/ Resumed(t, m)
      BY <2>1, <2>2, <3>1
    <3>2. CASE \E t \in Threads, e \in Efforts \cup {None} : Turned(t, e)
      BY <2>3, <3>2
    <3>3. CASE \E t \in Threads :
                 handle_set_session_config_option(t) \/ handle_thread_rollback(t)
      BY <2>4, <2>5, <3>3
    <3>4. CASE \E s \in Sessions, e \in Efforts : AgentChangesMode(s, e)
      BY <2>6, <3>4
    <3>5. CASE \E s \in Sessions, c \in Options : AgentChangesOptions(s, c)
      BY <2>7, <3>5
    <3>6. QED
      BY <2>8, <2>9, <2>10, <2>12, <3>1, <3>2, <3>3, <3>4, <3>5, Steps
  <2>13. QED
    BY <2>11, <2>12
<1>4. SettingsTypeOK'
  BY <1>2, <1>3 DEF CoreInv, SettingsTypeOK, CoreTypes, RestTypes, GivenTypes, Models
<1>5. QED
  BY <1>3, <1>4 DEF TypeInv, CoreInv

\* What is taken for lasts, and what was told is so, if it lasts for every task.
LEMMA SettingsHold ==
  /\ ModelInv => ModelLasts
  /\ EffortInv => EffortLasts
  /\ TypeInv /\ ToldInv => ModeTold
<1>1. ModelInv => ModelLasts
  BY DEF ModelInv, ModelLasts, Grok
<1>2. EffortInv => EffortLasts
  BY DEF EffortInv, EffortLasts, Grok
<1>3. ToldInv => ModeTold
  <2> SUFFICES ASSUME ToldInv, updates = <<>>, NEW t \in Threads, sess[t] # None,
                      OneSession(t), told[t].mode # None
               PROVE  told[t].mode = agent[sess[t]].mode
    BY DEF ModeTold, Grok
  <2>1. \A i \in DOMAIN updates : FALSE
    OBVIOUS
  <2>2. QED
    BY <2>1 DEF ToldInv
<1>4. QED
  BY <1>1, <1>2, <1>3

\* The settings of every task keep their types, what the agent keeps of its session included.
THEOREM SettingsCorrect == SettingsSpec => []SettingsTypeOK
<1>1. TypeInv => SettingsTypeOK
  BY DEF TypeInv
<1>2. QED
  BY <1>1, InitIInv, InitSettings, NextIInv, NextSettings, PTL DEF SettingsSpec

\* A session keeps the effort that was set for its task last, whatever requests, refusals,
\* restarts and resumes came since; and once all updates were told, the mode that was told
\* last is the one it has, unless the task was rolled back under this bridge.
THEOREM EffortsLast == SettingsSpec => [](EffortLasts /\ ModeTold)
  BY InitIInv, InitSettings, NextIInv, NextSettings, SettingsHold, PTL DEF SettingsSpec

\* A session keeps the model that was set for its task last, also over requests that name
\* another one which the agent refuses or the gateway does not look at.
THEOREM ModelsLast == SettingsSpec => []ModelLasts
  BY InitIInv, InitSettings, NextIInv, NextSettings, SettingsHold, PTL DEF SettingsSpec

-----------------------------------------------------------------------------
(* What the agent asks (Approvals), under names of its own.                *)

CONSTANTS AskThreads, Asks, AskKinds, AskOptions, Decisions, MaxCalls, ManyTurns,
          NoAnswer, NoThread

VARIABLES userInTurn, userAsked, userEvents, userLoop, userCalls, userInbound,
          userPending, userNextId, userClient, userDecided, userArrived, userAnswers

Ask == INSTANCE Approvals WITH
  Threads <- AskThreads, Kinds <- AskKinds, OptionLists <- AskOptions,
  inTurn <- userInTurn, asked <- userAsked, events <- userEvents, loop <- userLoop,
  calls <- userCalls, inbound <- userInbound, pending <- userPending,
  nextId <- userNextId, client <- userClient, decided <- userDecided,
  arrived <- userArrived, answers <- userAnswers

InEvents(a) == \E i \in DOMAIN userEvents : userEvents[i] = a

\* What the client sends: a response, or a request, under id 0.
UserLines == [id : Ask!Ids, decision : Decisions \cup {"call"}]

AskTypes ==
  /\ userInTurn \subseteq AskThreads
  /\ userAsked \in [Asks -> Ask!AskRecords \cup {NoAnswer}]
  /\ userEvents \in Seq(Asks)
  /\ userLoop \in {"free", "waiting", "ended"}
  /\ userCalls \in 0..MaxCalls
  /\ userInbound \in Seq(UserLines)
  /\ userPending \in [Ask!Ids -> Asks \cup {NoAnswer}]
  /\ userNextId \in Nat \ {0}
  /\ userClient \subseteq [id : Ask!Ids, thread : AskThreads \cup {NoThread}, ask : Asks]
  /\ userDecided \in [Asks -> Decisions \cup {NoAnswer}]
  /\ userArrived \in [Asks -> Decisions \cup {NoAnswer}]
  /\ userAnswers \in [Asks -> Ask!Outcomes \cup {NoAnswer}]

\* Each event is there once, and each that was taken has had an id: so the ids suffice.
EventsInv ==
  /\ \A i, j \in DOMAIN userEvents : userEvents[i] = userEvents[j] => i = j
  /\ \A i \in DOMAIN userEvents : userEvents[i] \in Ask!Asked
  /\ (userNextId - 1) + Len(userEvents) = Cardinality(Ask!Asked)

\* An ask in the table is there once and under an id that was given out.
PendingInv ==
  /\ \A i \in Ask!Ids : userPending[i] # NoAnswer =>
       /\ 0 < i /\ i < userNextId
       /\ userPending[i] \in Ask!Asked
       /\ userArrived[userPending[i]] = NoAnswer
       /\ ~InEvents(userPending[i])
  /\ \A i, j \in Ask!Ids : userPending[i] = userPending[j] /\ userPending[i] # NoAnswer => i = j

\* What was decided was asked.  While the loop runs an ask is an event, in the table,
\* decided or given back.
PlaceInv ==
  /\ \A a \in Asks : userArrived[a] # NoAnswer \/ userDecided[a] # NoAnswer =>
       a \in Ask!Asked /\ ~InEvents(a)
  /\ userLoop # "ended" =>
       \A a \in Ask!Asked : userArrived[a] = NoAnswer /\ userAnswers[a] = NoAnswer =>
         InEvents(a) \/ \E i \in Ask!Ids : userPending[i] = a

\* While the loop runs a request of the client shows the ask that is in the table under
\* its id, and no other request does; so does a response on its way.
ClientInv ==
  userLoop # "ended" =>
    /\ \A r \in userClient : /\ userPending[r.id] = r.ask
                             /\ userDecided[r.ask] = NoAnswer
    /\ \A q, r \in userClient : q.id = r.id => q = r

InboundInv ==
  userLoop # "ended" =>
    /\ \A i \in DOMAIN userInbound : userInbound[i].id # 0 =>
         /\ userPending[userInbound[i].id] # NoAnswer
         /\ userInbound[i].decision = userDecided[userPending[userInbound[i].id]]
         /\ userInbound[i].decision \in Decisions
         /\ \A r \in userClient : r.id # userInbound[i].id
    /\ \A i, j \in DOMAIN userInbound :
         userInbound[i].id = userInbound[j].id /\ userInbound[i].id # 0 => i = j

\* What has arrived is what was decided, and is handed on as it is.
AnswersInv ==
  /\ Ask!DecisionOfItsAsk
  /\ Ask!ToldAsDecided

\* While the loop runs, what is answered undecided was asked and given back: nothing
\* waits for it.
GivenBack(a) ==
  /\ a \in Ask!Asked /\ ~InEvents(a)
  /\ userDecided[a] = NoAnswer
  /\ \A i \in Ask!Ids : userPending[i] # a

UnsentInv ==
  userLoop # "ended" =>
    \A a \in Asks : userAnswers[a] # NoAnswer /\ userArrived[a] = NoAnswer => GivenBack(a)

AskInv == /\ AskTypes /\ EventsInv /\ PendingInv /\ PlaceInv
          /\ ClientInv /\ InboundInv /\ AnswersInv /\ UnsentInv

\* One turn at a time is the turn of all that is asked.
ThreadInv ==
  /\ \A t, u \in userInTurn : t = u
  /\ userLoop # "ended" => \A a \in Ask!Asked :
       userAnswers[a] = NoAnswer => userAsked[a].thread \in userInTurn
  /\ Ask!ShownInItsThread

LEMMA Least ==
  ASSUME NEW S \in SUBSET Nat, S # {}
  PROVE  Ask!Min(S) \in S
<1>1. \E x \in S : \A y \in S : ~(<<y, x>> \in OpToRel(<, Nat))
  BY WFMin, NatLessThanWellFounded, Zenon
<1>2. PICK x \in S : \A y \in S : ~(y < x)
  BY <1>1 DEF OpToRel
<1>3. \A y \in S : x <= y
  BY <1>2
<1>4. QED
  BY <1>3 DEF Ask!Min

LEMMA AskSizes ==
  /\ \A S : Ask!Cardinality(S) = Cardinality(S)
  /\ Ask!ApprovalsConstants => IsFiniteSet(Asks) /\ Cardinality(Asks) \in Nat
<1>1. \A S : Ask!Cardinality(S) = Cardinality(S)
  BY DEF Ask!Cardinality, Cardinality
<1>2. Ask!IsFiniteSet(Asks) => IsFiniteSet(Asks)
  BY DEF Ask!IsFiniteSet, IsFiniteSet
<1>3. ASSUME Ask!ApprovalsConstants PROVE IsFiniteSet(Asks) /\ Cardinality(Asks) \in Nat
  <2>1. IsFiniteSet(Asks)
    BY <1>2, <1>3 DEF Ask!ApprovalsConstants
  <2>2. QED
    BY <2>1, FS_CardinalityType
<1>4. QED
  BY <1>1, <1>3

LEMMA FirstIsOne ==
  ASSUME Ask!ApprovalsConstants, NEW o \in AskOptions, NEW some
  PROVE  Ask!FirstOf(o, some) = "cancelled" \/ Ask!FirstOf(o, some) \in some
<1> DEFINE these == {i \in DOMAIN o : o[i] \in some}
<1>1. DOMAIN o \in SUBSET Nat
  BY DEF Ask!ApprovalsConstants
<1>2. CASE these = {}
  BY <1>2 DEF Ask!FirstOf
<1>3. CASE these # {}
  <2>1. Ask!Min(these) \in these
    BY <1>1, <1>3, Least
  <2>2. Ask!FirstOf(o, some) = o[Ask!Min(these)]
    BY <1>3 DEF Ask!FirstOf
  <2>3. QED
    BY <2>1, <2>2
<1>4. QED
  BY <1>2, <1>3

\* What an answer is translated to allows or rejects as the decision does.
LEMMA OutcomeIs ==
  ASSUME Ask!ApprovalsConstants, AskTypes, NEW a \in Ask!Asked, userArrived[a] \in Decisions
  PROVE  /\ Ask!Outcome(a) \in Ask!Outcomes
         /\ Ask!Outcome(a) \in Ask!AllowOptions \cup {"answered"} => userArrived[a] \in Ask!Accepting
         /\ Ask!Outcome(a) \in Ask!RejectOptions => userArrived[a] \notin Ask!Accepting
<1>1. userAsked[a] \in Ask!AskRecords
  BY DEF AskTypes, Ask!Asked
<1>2. userAsked[a].options \in AskOptions
  BY <1>1 DEF Ask!AskRecords
<1> DEFINE some == IF userArrived[a] \in Ask!Accepting THEN Ask!AllowOptions ELSE Ask!RejectOptions
           first == Ask!FirstOf(userAsked[a].options, some)
<1>3. first = "cancelled" \/ first \in some
  BY <1>2, FirstIsOne
<1>4. Ask!Outcome(a) = IF userAsked[a].kind = "permission" THEN first
                       ELSE IF userArrived[a] \in Ask!Accepting THEN "answered" ELSE "failed"
  BY DEF Ask!Outcome, Ask!TranslateDecision, Ask!TranslateAnswer
<1> HIDE DEF first
<1>5. QED
  BY <1>3, <1>4 DEF Ask!Outcomes, Ask!AllowOptions, Ask!RejectOptions

\* The ids suffice, as each ask takes one.
LEMMA TypesHold == ASSUME Ask!ApprovalsConstants PROVE AskInv => Ask!TypeOK
<1> SUFFICES ASSUME AskInv PROVE Ask!TypeOK
  OBVIOUS
<1>1. Ask!Cardinality(Asks) = Cardinality(Asks) /\ IsFiniteSet(Asks) /\ Cardinality(Asks) \in Nat
  BY AskSizes
<1>2. /\ Cardinality(Ask!Asked) \in Nat /\ Cardinality(Ask!Asked) <= Cardinality(Asks)
  <2>1. Ask!Asked \in SUBSET Asks
    BY DEF Ask!Asked
  <2>2. QED
    BY <1>1, <2>1, FS_Subset, FS_CardinalityType
<1>3. Len(userEvents) \in Nat /\ userNextId \in Nat \ {0}
      /\ (userNextId - 1) + Len(userEvents) = Cardinality(Ask!Asked)
  BY DEF AskInv, AskTypes, EventsInv
<1>4. userNextId \in 1..(Ask!Cardinality(Asks) + 1)
  BY <1>1, <1>2, <1>3
<1>5. Ask!ToSet(userEvents) \subseteq Asks
  BY DEF AskInv, AskTypes, Ask!ToSet
<1>6. \A i \in DOMAIN userInbound :
        userInbound[i] \in [id : Ask!Ids, decision : Decisions \cup {"call"}]
  <2>1. \A i \in DOMAIN userInbound : userInbound[i] \in UserLines
    BY DEF AskInv, AskTypes
  <2>2. QED
    BY <2>1 DEF UserLines
<1>7. \A a \in Ask!Asked : userAsked[a] \in Ask!AskRecords
  BY DEF AskInv, AskTypes, Ask!Asked
<1>8. QED
  BY <1>4, <1>5, <1>6, <1>7 DEF AskInv, AskTypes, Ask!TypeOK

LEMMA InitAskInv == ASSUME Ask!ApprovalsConstants PROVE Ask!Init => AskInv /\ ThreadInv
<1> SUFFICES ASSUME Ask!Init PROVE AskInv /\ ThreadInv
  OBVIOUS
<1>1. /\ userInTurn = {} /\ userEvents = <<>> /\ userInbound = <<>> /\ userClient = {}
      /\ userNextId = 1 /\ userLoop = "free" /\ userCalls = 0
      /\ userAsked = [a \in Asks |-> NoAnswer]
      /\ userPending = [i \in Ask!Ids |-> NoAnswer]
      /\ userDecided = [a \in Asks |-> NoAnswer]
      /\ userArrived = [a \in Asks |-> NoAnswer]
      /\ userAnswers = [a \in Asks |-> NoAnswer]
  BY DEF Ask!Init
<1>2. Ask!Asked = {} /\ Cardinality(Ask!Asked) = 0
  BY <1>1, FS_EmptySet DEF Ask!Asked
<1>3. AskTypes
  BY <1>1 DEF AskTypes, Ask!ApprovalsConstants
<1>4. EventsInv
  BY <1>1, <1>2 DEF EventsInv
<1>5. PendingInv
  BY <1>1 DEF PendingInv
<1>6. PlaceInv
  BY <1>1, <1>2 DEF PlaceInv
<1>7. ClientInv /\ InboundInv
  BY <1>1 DEF ClientInv, InboundInv
<1>8. AnswersInv
  BY <1>1 DEF AnswersInv, Ask!DecisionOfItsAsk, Ask!ToldAsDecided, Ask!ApprovalsConstants,
              Ask!Outcomes
<1>9. UnsentInv
  BY <1>1 DEF UnsentInv
<1>10. ThreadInv
  BY <1>1, <1>2 DEF ThreadInv, Ask!ShownInItsThread
<1>11. QED
  BY <1>3, <1>4, <1>5, <1>6, <1>7, <1>8, <1>9, <1>10 DEF AskInv

\* A step of turns, of the agent's answers to calls, or none.
LEMMA QuietKeeps ==
  ASSUME AskInv, userInTurn' \subseteq AskThreads, userCalls' \in 0..MaxCalls,
         userLoop' \in {"free", "waiting", "ended"}, userLoop' # "ended" => userLoop # "ended",
         UNCHANGED <<userAsked, userEvents, userInbound, userPending, userNextId, userClient,
                     userDecided, userArrived, userAnswers>>
  PROVE  AskInv'
<1>1. AskTypes'
  BY DEF AskInv, AskTypes, UserLines, Ask!Ids, Ask!AskRecords, Ask!Outcomes, Ask!AllowOptions,
         Ask!RejectOptions
<1>2. Ask!Asked' = Ask!Asked /\ \A a : InEvents(a)' <=> InEvents(a)
  BY DEF Ask!Asked, InEvents
<1>3. EventsInv'
  BY <1>2 DEF AskInv, EventsInv
<1>4. PendingInv'
  BY <1>2 DEF AskInv, PendingInv, Ask!Ids
<1>5. PlaceInv'
  BY <1>2 DEF AskInv, PlaceInv, Ask!Ids
<1>6. ClientInv' /\ InboundInv'
  BY DEF AskInv, ClientInv, InboundInv
<1>7. AnswersInv'
  BY DEF AskInv, AnswersInv, Ask!DecisionOfItsAsk, Ask!ToldAsDecided, Ask!Accepting,
         Ask!AllowOptions, Ask!RejectOptions
<1>8. UnsentInv'
  BY <1>2 DEF AskInv, UnsentInv, GivenBack, Ask!Ids
<1>9. QED
  BY <1>1, <1>3, <1>4, <1>5, <1>6, <1>7, <1>8 DEF AskInv

LEMMA TurnsKeep ==
  ASSUME AskInv, NEW t \in AskThreads, Ask!TurnBegins(t) \/ Ask!TurnEnds(t)
  PROVE  /\ AskInv'
         /\ ~ManyTurns /\ ThreadInv => ThreadInv'
<1>1. /\ userInTurn' \subseteq AskThreads
      /\ userLoop = "free"
      /\ UNCHANGED <<userAsked, userEvents, userLoop, userCalls, userInbound, userPending,
                     userNextId, userClient, userDecided, userArrived, userAnswers>>
  BY DEF Ask!TurnBegins, Ask!TurnEnds, AskInv, AskTypes
<1>2. AskInv'
  BY <1>1, QuietKeeps DEF AskInv, AskTypes
<1>3. ASSUME ~ManyTurns, ThreadInv PROVE ThreadInv'
  <2>1. Ask!Asked' = Ask!Asked
    BY <1>1 DEF Ask!Asked
  <2>2. CASE Ask!TurnBegins(t)
    <3>1. userInTurn = {} /\ userInTurn' = {t}
      BY <1>3, <2>2 DEF Ask!TurnBegins
    <3>2. QED
      BY <1>1, <1>3, <2>1, <3>1 DEF ThreadInv, Ask!ShownInItsThread
  <2>3. CASE Ask!TurnEnds(t)
    <3>1. /\ userInTurn' = userInTurn \ {t}
          /\ \A a \in Ask!Asked : userAsked[a].thread = t => userAnswers[a] # NoAnswer
      BY <2>3 DEF Ask!TurnEnds
    <3>2. QED
      BY <1>1, <1>3, <2>1, <3>1 DEF ThreadInv, Ask!ShownInItsThread
  <2>4. QED
    BY <2>2, <2>3
<1>4. QED
  BY <1>2, <1>3

LEMMA AgentAnswersCallKeeps ==
  ASSUME AskInv, Ask!AgentAnswersCall
  PROVE  AskInv' /\ (ThreadInv => ThreadInv')
<1>1. /\ userLoop = "waiting" /\ userLoop' = "free"
      /\ UNCHANGED <<userInTurn, userAsked, userEvents, userCalls, userInbound, userPending,
                     userNextId, userClient, userDecided, userArrived, userAnswers>>
  BY DEF Ask!AgentAnswersCall
<1>2. AskInv'
  BY <1>1, QuietKeeps DEF AskInv, AskTypes
<1>3. ThreadInv => ThreadInv'
  BY <1>1 DEF ThreadInv, Ask!ShownInItsThread, Ask!Asked
<1>4. QED
  BY <1>2, <1>3

LEMMA AgentAsksKeeps ==
  ASSUME Ask!ApprovalsConstants, AskInv, NEW a \in Asks, NEW t \in AskThreads,
         NEW k \in AskKinds, NEW o \in AskOptions, Ask!AgentAsks(a, t, k, o)
  PROVE  /\ AskInv'
         /\ ThreadInv => ThreadInv'
<1> DEFINE new == [thread |-> t, kind |-> k, options |-> o]
<1>1. /\ userLoop # "ended" /\ a \notin Ask!Asked /\ t \in userInTurn
      /\ userAsked' = [userAsked EXCEPT ![a] = new]
      /\ userEvents' = Append(userEvents, a)
      /\ UNCHANGED <<userInTurn, userLoop, userCalls, userInbound, userPending, userNextId,
                     userClient, userDecided, userArrived, userAnswers>>
  BY DEF Ask!AgentAsks
<1>2. new \in Ask!AskRecords /\ new # NoAnswer
  BY DEF Ask!AskRecords, Ask!ApprovalsConstants
<1> HIDE DEF new
<1>3. /\ userAsked'[a] = new /\ \A b \in Asks \ {a} : userAsked'[b] = userAsked[b]
      /\ Ask!Asked' = Ask!Asked \cup {a}
      /\ \A b \in Ask!Asked : userAsked'[b] = userAsked[b]
  BY <1>1, <1>2 DEF AskInv, AskTypes, Ask!Asked
<1>4. PICK n \in Nat : n = Len(userEvents)
  BY DEF AskInv, AskTypes
<1>5. /\ DOMAIN userEvents = 1..n /\ DOMAIN userEvents' = 1..(n + 1) /\ Len(userEvents') = n + 1
      /\ userEvents'[n + 1] = a /\ \A i \in 1..n : userEvents'[i] = userEvents[i]
      /\ userEvents' \in Seq(Asks)
  BY <1>1, <1>4 DEF AskInv, AskTypes
<1>6. \A b : InEvents(b)' <=> InEvents(b) \/ b = a
  BY <1>5 DEF InEvents
<1>7. /\ userArrived[a] = NoAnswer /\ userDecided[a] = NoAnswer
      /\ ~InEvents(a) /\ userAnswers[a] = NoAnswer
      /\ \A i \in Ask!Ids : userPending[i] # a
      /\ \A r \in userClient : r.ask # a
  <2>1. userArrived[a] = NoAnswer /\ userDecided[a] = NoAnswer
    BY <1>1 DEF AskInv, PlaceInv
  <2>2. ~InEvents(a)
    BY <1>1 DEF AskInv, EventsInv, InEvents
  <2>3. userAnswers[a] = NoAnswer
    BY <1>1, <2>1 DEF AskInv, UnsentInv, GivenBack
  <2>4. \A i \in Ask!Ids : userPending[i] # a
    BY <1>1 DEF AskInv, PendingInv, Ask!ApprovalsConstants
  <2>5. \A r \in userClient : r.ask # a
    BY <1>1, <2>4 DEF AskInv, ClientInv, AskTypes
  <2>6. QED
    BY <2>1, <2>2, <2>3, <2>4, <2>5
<1>8. AskTypes'
  BY <1>1, <1>2, <1>5 DEF AskInv, AskTypes, UserLines, Ask!Ids, Ask!AskRecords, Ask!Outcomes,
                         Ask!AllowOptions, Ask!RejectOptions
<1>9. EventsInv'
  <2>1. \A i \in DOMAIN userEvents : userEvents[i] # a
    BY <1>7 DEF InEvents
  <2>2. \A i, j \in DOMAIN userEvents' : userEvents'[i] = userEvents'[j] => i = j
    <3>1. \A i, j \in 1..n : userEvents[i] = userEvents[j] => i = j
      BY <1>5 DEF AskInv, EventsInv
    <3>2. \A i \in 1..n : userEvents'[i] # a
      BY <1>5, <2>1
    <3>3. \A i \in 1..(n + 1) : i = n + 1 \/ i \in 1..n
      OBVIOUS
    <3>4. QED
      BY <1>5, <3>1, <3>2, <3>3
  <2>3. \A i \in DOMAIN userEvents' : userEvents'[i] \in Ask!Asked'
    <3>1. \A i \in 1..n : userEvents[i] \in Ask!Asked
      BY <1>5 DEF AskInv, EventsInv
    <3>2. \A i \in 1..(n + 1) : i = n + 1 \/ i \in 1..n
      OBVIOUS
    <3>3. QED
      BY <1>3, <1>5, <3>1, <3>2
  <2>4. Cardinality(Ask!Asked') = Cardinality(Ask!Asked) + 1
    <3>1. IsFiniteSet(Ask!Asked)
      <4>1. Ask!Asked \in SUBSET Asks
        BY DEF Ask!Asked
      <4>2. QED
        BY <4>1, AskSizes, FS_Subset
    <3>2. QED
      BY <1>1, <1>3, <3>1, FS_AddElement
  <2>5. (userNextId' - 1) + Len(userEvents') = Cardinality(Ask!Asked')
    <3>1. (userNextId - 1) + n = Cardinality(Ask!Asked) /\ userNextId \in Nat
      BY <1>4 DEF AskInv, EventsInv, AskTypes
    <3>2. userNextId' = userNextId
      BY <1>1
    <3>3. QED
      BY <1>5, <2>4, <3>1, <3>2
  <2>6. QED
    BY <2>2, <2>3, <2>5 DEF EventsInv
<1>10. PendingInv'
  BY <1>1, <1>3, <1>6, <1>7 DEF AskInv, PendingInv, Ask!Ids
<1>11. PlaceInv'
  <2>1. \A b \in Asks : userArrived'[b] # NoAnswer \/ userDecided'[b] # NoAnswer =>
          b \in Ask!Asked' /\ ~InEvents(b)'
    BY <1>1, <1>3, <1>6, <1>7 DEF AskInv, PlaceInv
  <2>2. \A b \in Ask!Asked' : userArrived'[b] = NoAnswer /\ userAnswers'[b] = NoAnswer =>
          InEvents(b)' \/ \E i \in Ask!Ids : userPending'[i] = b
    BY <1>1, <1>3, <1>6 DEF AskInv, PlaceInv
  <2>3. QED
    BY <2>1, <2>2 DEF PlaceInv, Ask!Ids
<1>12. ClientInv' /\ InboundInv'
  BY <1>1 DEF AskInv, ClientInv, InboundInv
<1>13. AnswersInv'
  BY <1>1 DEF AskInv, AnswersInv, Ask!DecisionOfItsAsk, Ask!ToldAsDecided, Ask!Accepting,
              Ask!AllowOptions, Ask!RejectOptions
<1>14. ASSUME ThreadInv PROVE ThreadInv'
  <2>1. new.thread = t
    BY DEF new
  <2>2. \A b \in Ask!Asked' : userAnswers'[b] = NoAnswer => userAsked'[b].thread \in userInTurn'
    BY <1>1, <1>3, <1>14, <2>1 DEF ThreadInv
  <2>3. Ask!ShownInItsThread'
    <3>1. \A r \in userClient : r.ask \in Asks \ {a}
      BY <1>7 DEF AskInv, AskTypes
    <3>2. QED
      BY <1>1, <1>3, <1>14, <3>1 DEF ThreadInv, Ask!ShownInItsThread
  <2>4. QED
    BY <1>1, <1>14, <2>2, <2>3 DEF ThreadInv
<1>15. UnsentInv'
  BY <1>1, <1>3, <1>6, <1>7 DEF AskInv, UnsentInv, GivenBack, Ask!Ids
<1>16. QED
  BY <1>8, <1>9, <1>10, <1>11, <1>12, <1>13, <1>14, <1>15 DEF AskInv

\* The loop ends, and what was waited for is forgotten.
LEMMA DisconnectedKeeps ==
  ASSUME AskInv, Ask!Disconnected
  PROVE  /\ AskInv'
         /\ ThreadInv => ThreadInv'
<1>1. /\ userLoop' = "ended" /\ userPending' = [i \in Ask!Ids |-> NoAnswer]
      /\ UNCHANGED <<userInTurn, userAsked, userEvents, userCalls, userInbound, userNextId,
                     userClient, userDecided, userArrived, userAnswers>>
  BY DEF Ask!Disconnected
<1>2. Ask!Asked' = Ask!Asked /\ \A a : InEvents(a)' <=> InEvents(a)
  BY <1>1 DEF Ask!Asked, InEvents
<1>3. AskTypes'
  BY <1>1 DEF AskInv, AskTypes, UserLines, Ask!Ids, Ask!AskRecords, Ask!Outcomes,
              Ask!AllowOptions, Ask!RejectOptions
<1>4. EventsInv' /\ PlaceInv'
  BY <1>1, <1>2 DEF AskInv, EventsInv, PlaceInv
<1>5. PendingInv'
  BY <1>1 DEF PendingInv, Ask!Ids
<1>6. ClientInv' /\ InboundInv' /\ UnsentInv'
  BY <1>1 DEF ClientInv, InboundInv, UnsentInv
<1>7. AnswersInv'
  BY <1>1 DEF AskInv, AnswersInv, Ask!DecisionOfItsAsk, Ask!ToldAsDecided, Ask!Accepting,
              Ask!AllowOptions, Ask!RejectOptions
<1>8. ThreadInv => ThreadInv'
  BY <1>1 DEF ThreadInv, Ask!ShownInItsThread
<1>9. QED
  BY <1>3, <1>4, <1>5, <1>6, <1>7, <1>8 DEF AskInv

\* A task hands on what has arrived, or gives up when nothing can.
LEMMA TasksKeep ==
  ASSUME Ask!ApprovalsConstants, AskInv, NEW a \in Asks,
         Ask!TaskAnswers(a) \/ Ask!TaskGivesUp(a)
  PROVE  /\ AskInv'
         /\ ThreadInv => ThreadInv'
<1>1. PICK x : /\ userAnswers[a] = NoAnswer /\ userAnswers' = [userAnswers EXCEPT ![a] = x]
               /\ \/ userArrived[a] # NoAnswer /\ x = Ask!Outcome(a)
                  \/ userLoop = "ended" /\ x \in {"cancelled", "failed"}
               /\ UNCHANGED <<userInTurn, userAsked, userEvents, userLoop, userCalls, userInbound,
                              userPending, userNextId, userClient, userDecided, userArrived>>
  BY DEF Ask!TaskAnswers, Ask!TaskGivesUp, Ask!Undecided
<1>2. /\ x \in Ask!Outcomes
      /\ x \in Ask!AllowOptions \cup {"answered"} => userDecided[a] \in Ask!Accepting
      /\ x \in Ask!RejectOptions => userDecided[a] \in Decisions \ Ask!Accepting
  <2>1. CASE userArrived[a] # NoAnswer /\ x = Ask!Outcome(a)
    <3>1. userArrived[a] = userDecided[a] /\ userArrived[a] \in Decisions /\ a \in Ask!Asked
      BY <2>1 DEF AskInv, AnswersInv, Ask!DecisionOfItsAsk, AskTypes, PlaceInv
    <3>2. QED
      BY <2>1, <3>1, OutcomeIs DEF AskInv
  <2>2. CASE x \in {"cancelled", "failed"}
    BY <2>2 DEF Ask!Outcomes, Ask!AllowOptions, Ask!RejectOptions
  <2>3. QED
    BY <1>1, <2>1, <2>2
<1>3. Ask!Asked' = Ask!Asked /\ \A b : InEvents(b)' <=> InEvents(b)
  BY <1>1 DEF Ask!Asked, InEvents
<1>4. /\ userAnswers' \in [Asks -> Ask!Outcomes \cup {NoAnswer}]
      /\ userAnswers'[a] = x /\ \A b \in Asks \ {a} : userAnswers'[b] = userAnswers[b]
      /\ x # NoAnswer
  BY <1>1, <1>2 DEF AskInv, AskTypes, Ask!ApprovalsConstants
<1>5. AskTypes'
  BY <1>1, <1>4 DEF AskInv, AskTypes, UserLines, Ask!Ids, Ask!AskRecords, Ask!Outcomes,
                   Ask!AllowOptions, Ask!RejectOptions
<1>6. EventsInv' /\ PlaceInv' /\ PendingInv'
  <2>1. EventsInv' /\ PendingInv'
    BY <1>1, <1>3 DEF AskInv, EventsInv, PendingInv, Ask!Ids
  <2>2. \A b \in Ask!Asked : userAnswers'[b] = NoAnswer => userAnswers[b] = NoAnswer
    BY <1>4 DEF Ask!Asked
  <2>3. PlaceInv'
    BY <1>1, <1>3, <2>2 DEF AskInv, PlaceInv, Ask!Ids
  <2>4. QED
    BY <2>1, <2>3
<1>7. ClientInv' /\ InboundInv'
  BY <1>1 DEF AskInv, ClientInv, InboundInv
<1>8. AnswersInv'
  <2>1. Ask!DecisionOfItsAsk'
    BY <1>1 DEF AskInv, AnswersInv, Ask!DecisionOfItsAsk
  <2>2. Ask!ToldAsDecided'
    BY <1>1, <1>2, <1>4 DEF AskInv, AnswersInv, Ask!ToldAsDecided, Ask!Accepting,
                           Ask!AllowOptions, Ask!RejectOptions
  <2>3. QED
    BY <2>1, <2>2 DEF AnswersInv
<1>9. UnsentInv'
  BY <1>1, <1>3, <1>4 DEF AskInv, UnsentInv, GivenBack, Ask!Ids
<1>10. ThreadInv => ThreadInv'
  <2>1. \A b \in Ask!Asked : userAnswers'[b] = NoAnswer => userAnswers[b] = NoAnswer
    BY <1>4 DEF Ask!Asked
  <2>2. QED
    BY <1>1, <1>3, <2>1 DEF ThreadInv, Ask!ShownInItsThread
<1>11. QED
  BY <1>5, <1>6, <1>7, <1>8, <1>9, <1>10 DEF AskInv

\* The first element of a sequence, and where the others go.
LEMMA HeadAndTail ==
  ASSUME NEW S, NEW s \in Seq(S), s # <<>>
  PROVE  /\ Head(s) = s[1] /\ 1 \in DOMAIN s /\ Head(s) \in S
         /\ Tail(s) \in Seq(S) /\ Len(Tail(s)) = Len(s) - 1
         /\ \A i \in DOMAIN Tail(s) : i + 1 \in DOMAIN s /\ i + 1 # 1 /\ Tail(s)[i] = s[i + 1]
         /\ \A i \in DOMAIN Tail(s), j \in DOMAIN Tail(s) : i + 1 = j + 1 => i = j
         /\ \A i \in DOMAIN s : i # 1 => i - 1 \in DOMAIN Tail(s) /\ Tail(s)[i - 1] = s[i]
<1>1. PICK n \in Nat : n = Len(s) /\ n # 0 /\ DOMAIN s = 1..n
  OBVIOUS
<1>2. Tail(s) \in Seq(S) /\ Len(Tail(s)) = n - 1 /\ DOMAIN Tail(s) = 1..(n - 1)
  BY <1>1
<1>3. \A i \in 1..(n - 1) : Tail(s)[i] = s[i + 1]
  BY <1>1
<1>4. \A i \in 1..n : i # 1 => i - 1 \in 1..(n - 1) /\ Tail(s)[i - 1] = s[i]
  BY <1>1, <1>3
<1>5. Head(s) = s[1] /\ s[1] \in S
  BY <1>1
<1>6. QED
  BY <1>1, <1>2, <1>3, <1>4, <1>5

LEMMA ClientCallsKeeps ==
  ASSUME Ask!ApprovalsConstants, AskInv, Ask!ClientCalls
  PROVE  /\ AskInv'
         /\ ThreadInv => ThreadInv'
<1> DEFINE m == [id |-> 0, decision |-> "call"]
<1>1. /\ userCalls < MaxCalls /\ userCalls' = userCalls + 1
      /\ userInbound' = Append(userInbound, m)
      /\ UNCHANGED <<userInTurn, userAsked, userEvents, userLoop, userPending, userNextId,
                     userClient, userDecided, userArrived, userAnswers>>
  BY DEF Ask!ClientCalls
<1>2. m \in UserLines /\ m.id = 0
  BY AskSizes DEF UserLines, Ask!Ids
<1> HIDE DEF m
<1>3. PICK n \in Nat : n = Len(userInbound)
  BY DEF AskInv, AskTypes
<1>4. /\ DOMAIN userInbound = 1..n /\ DOMAIN userInbound' = 1..(n + 1)
      /\ userInbound'[n + 1] = m /\ \A i \in 1..n : userInbound'[i] = userInbound[i]
      /\ userInbound' \in Seq(UserLines)
  BY <1>1, <1>2, <1>3 DEF AskInv, AskTypes
<1>5. userCalls' \in 0..MaxCalls
  BY <1>1 DEF AskInv, AskTypes, Ask!ApprovalsConstants
<1>6. AskTypes'
  <2>1. UserLines' = UserLines
    BY DEF UserLines, Ask!Ids
  <2>2. QED
    BY <1>1, <1>4, <1>5, <2>1 DEF AskInv, AskTypes, Ask!Ids, Ask!AskRecords, Ask!Outcomes,
                         Ask!AllowOptions, Ask!RejectOptions
<1>7. Ask!Asked' = Ask!Asked /\ \A b : InEvents(b)' <=> InEvents(b)
  BY <1>1 DEF Ask!Asked, InEvents
<1>8. EventsInv' /\ PlaceInv' /\ PendingInv' /\ ClientInv'
  BY <1>1, <1>7 DEF AskInv, EventsInv, PlaceInv, PendingInv, ClientInv, Ask!Ids
<1>9. InboundInv'
  <2>1. \A i \in 1..(n + 1) : userInbound'[i].id # 0 => i \in 1..n /\ userInbound'[i] = userInbound[i]
    <3>1. \A i \in 1..(n + 1) : i = n + 1 \/ i \in 1..n
      OBVIOUS
    <3>2. QED
      BY <1>2, <1>4, <3>1
  <2>2. QED
    BY <1>1, <1>4, <2>1 DEF AskInv, InboundInv
<1>10. AnswersInv'
  BY <1>1 DEF AskInv, AnswersInv, Ask!DecisionOfItsAsk, Ask!ToldAsDecided, Ask!Accepting,
              Ask!AllowOptions, Ask!RejectOptions
<1>11. UnsentInv'
  BY <1>1, <1>7 DEF AskInv, UnsentInv, GivenBack, Ask!Ids
<1>12. ThreadInv => ThreadInv'
  BY <1>1, <1>7 DEF ThreadInv, Ask!ShownInItsThread
<1>13. QED
  BY <1>6, <1>8, <1>9, <1>10, <1>11, <1>12 DEF AskInv

LEMMA HandleCallKeeps ==
  ASSUME AskInv, Ask!HandleCall
  PROVE  /\ AskInv'
         /\ ThreadInv => ThreadInv'
<1>1. /\ userLoop = "free" /\ userLoop' = "waiting" /\ userInbound # <<>>
      /\ userInbound' = Tail(userInbound)
      /\ UNCHANGED <<userInTurn, userAsked, userEvents, userCalls, userPending, userNextId,
                     userClient, userDecided, userArrived, userAnswers>>
  BY DEF Ask!HandleCall
<1>2. /\ userInbound' \in Seq(UserLines)
      /\ \A i \in DOMAIN userInbound' :
           i + 1 \in DOMAIN userInbound /\ userInbound'[i] = userInbound[i + 1]
      /\ \A i, j \in DOMAIN userInbound' : i + 1 = j + 1 => i = j
  BY <1>1, HeadAndTail DEF AskInv, AskTypes
<1>3. AskTypes'
  <2>1. UserLines' = UserLines
    BY DEF UserLines, Ask!Ids
  <2>2. QED
    BY <1>1, <1>2, <2>1 DEF AskInv, AskTypes, Ask!Ids, Ask!AskRecords, Ask!Outcomes,
                         Ask!AllowOptions, Ask!RejectOptions
<1>4. Ask!Asked' = Ask!Asked /\ \A b : InEvents(b)' <=> InEvents(b)
  BY <1>1 DEF Ask!Asked, InEvents
<1>5. EventsInv' /\ PlaceInv' /\ PendingInv' /\ ClientInv'
  BY <1>1, <1>4 DEF AskInv, EventsInv, PlaceInv, PendingInv, ClientInv, Ask!Ids
<1>6. InboundInv'
  BY <1>1, <1>2 DEF AskInv, InboundInv
<1>7. AnswersInv'
  BY <1>1 DEF AskInv, AnswersInv, Ask!DecisionOfItsAsk, Ask!ToldAsDecided, Ask!Accepting,
              Ask!AllowOptions, Ask!RejectOptions
<1>8. UnsentInv'
  BY <1>1, <1>4 DEF AskInv, UnsentInv, GivenBack, Ask!Ids
<1>9. ThreadInv => ThreadInv'
  BY <1>1, <1>4 DEF ThreadInv, Ask!ShownInItsThread
<1>10. QED
  BY <1>3, <1>5, <1>6, <1>7, <1>8, <1>9 DEF AskInv

\* The client decides: its request goes, and a response comes under the same id.
LEMMA ClientAnswersKeeps ==
  ASSUME Ask!ApprovalsConstants, AskInv, NEW r \in userClient, NEW d \in Decisions,
         Ask!ClientAnswers(r, d)
  PROVE  /\ AskInv'
         /\ ThreadInv => ThreadInv'
<1> DEFINE m == [id |-> r.id, decision |-> d]
<1>1. /\ userLoop # "ended" /\ userClient' = userClient \ {r}
      /\ userInbound' = Append(userInbound, m)
      /\ userDecided' = [userDecided EXCEPT ![r.ask] = d]
      /\ UNCHANGED <<userInTurn, userAsked, userEvents, userLoop, userCalls, userPending,
                     userNextId, userArrived, userAnswers>>
  BY DEF Ask!ClientAnswers
<1>2. r.id \in Ask!Ids /\ r.ask \in Asks
  BY DEF AskInv, AskTypes
<1>3. m \in UserLines /\ m.id = r.id /\ m.decision = d
  BY <1>2 DEF UserLines
<1> HIDE DEF m
<1>4. /\ userPending[r.id] = r.ask /\ userPending[r.id] # NoAnswer /\ userArrived[r.ask] = NoAnswer
      /\ userAnswers[r.ask] = NoAnswer /\ r.id # 0
  <2>1. userPending[r.id] = r.ask /\ r.ask # NoAnswer
    BY <1>1, <1>2 DEF AskInv, ClientInv, Ask!ApprovalsConstants
  <2>2. userArrived[r.ask] = NoAnswer /\ 0 < r.id
    BY <1>2, <2>1 DEF AskInv, PendingInv
  <2>3. QED
    BY <1>1, <1>2, <2>1, <2>2 DEF AskInv, UnsentInv, GivenBack
<1>5. PICK n \in Nat : n = Len(userInbound)
  BY DEF AskInv, AskTypes
<1>6. /\ DOMAIN userInbound = 1..n /\ DOMAIN userInbound' = 1..(n + 1)
      /\ userInbound'[n + 1] = m /\ \A i \in 1..n : userInbound'[i] = userInbound[i]
      /\ userInbound' \in Seq(UserLines)
      /\ \A i \in 1..(n + 1) : i = n + 1 \/ i \in 1..n
  BY <1>1, <1>3, <1>5 DEF AskInv, AskTypes
<1>7. /\ userDecided' \in [Asks -> Decisions \cup {NoAnswer}]
      /\ userDecided'[r.ask] = d /\ \A b \in Asks \ {r.ask} : userDecided'[b] = userDecided[b]
  BY <1>1, <1>2 DEF AskInv, AskTypes
<1>8. AskTypes'
  <2>1. UserLines' = UserLines
    BY DEF UserLines, Ask!Ids
  <2>2. QED
    BY <1>1, <1>6, <1>7, <2>1 DEF AskInv, AskTypes, Ask!Ids, Ask!AskRecords, Ask!Outcomes,
                         Ask!AllowOptions, Ask!RejectOptions
<1>9. Ask!Asked' = Ask!Asked /\ \A b : InEvents(b)' <=> InEvents(b)
  BY <1>1 DEF Ask!Asked, InEvents
<1>10. EventsInv' /\ PlaceInv' /\ PendingInv'
  <2>1. EventsInv' /\ PendingInv'
    BY <1>1, <1>9 DEF AskInv, EventsInv, PendingInv, Ask!Ids
  <2>2. r.ask \in Ask!Asked /\ ~InEvents(r.ask)
    BY <1>2, <1>4 DEF AskInv, PendingInv
  <2>3. \A b \in Asks : userArrived'[b] # NoAnswer \/ userDecided'[b] # NoAnswer =>
          b \in Ask!Asked' /\ ~InEvents(b)'
    BY <1>1, <1>7, <1>9, <2>2 DEF AskInv, PlaceInv
  <2>4. \A b \in Ask!Asked : userArrived[b] = NoAnswer /\ userAnswers[b] = NoAnswer =>
          InEvents(b) \/ \E i \in Ask!Ids : userPending[i] = b
    BY <1>1 DEF AskInv, PlaceInv
  <2>5. PlaceInv'
    BY <1>1, <1>9, <2>3, <2>4 DEF PlaceInv, Ask!Ids
  <2>6. QED
    BY <2>1, <2>5
<1>11. ClientInv'
  <2>1. \A q \in userClient' : q \in userClient /\ q.id # r.id /\ q.ask # r.ask /\ q.ask \in Asks
                              /\ q.id \in Ask!Ids
    <3>1. \A q \in userClient' : q \in userClient /\ q # r /\ q.ask \in Asks /\ q.id \in Ask!Ids
      BY <1>1 DEF AskInv, AskTypes
    <3>2. \A q \in userClient : userPending[q.id] = q.ask /\ (q.id = r.id => q = r)
      BY <1>1 DEF AskInv, ClientInv
    <3>3. \A i \in Ask!Ids : userPending[i] = r.ask => i = r.id
      BY <1>2, <1>4 DEF AskInv, PendingInv
    <3>4. QED
      BY <3>1, <3>2, <3>3
  <2>2. \A q \in userClient' : userPending'[q.id] = q.ask /\ userDecided'[q.ask] = NoAnswer
    BY <1>1, <1>7, <2>1 DEF AskInv, ClientInv
  <2>3. \A p, q \in userClient' : p.id = q.id => p = q
    BY <1>1, <2>1 DEF AskInv, ClientInv
  <2>4. QED
    BY <2>2, <2>3 DEF ClientInv
<1>12. InboundInv'
  <2>1. \A i \in 1..n : userInbound[i].id # 0 =>
          /\ userInbound[i].id # r.id
          /\ userInbound[i].id \in Ask!Ids
          /\ userPending[userInbound[i].id] # NoAnswer
          /\ userPending[userInbound[i].id] \in Asks \ {r.ask}
    <3>1. \A i \in 1..n : userInbound[i].id \in Ask!Ids
      <4>1. \A i \in 1..n : userInbound[i] \in UserLines
        BY <1>6 DEF AskInv, AskTypes
      <4>2. \A x \in UserLines : x.id \in Ask!Ids
        BY DEF UserLines
      <4>3. QED
        BY <4>1, <4>2
    <3>2. \A i \in 1..n : userInbound[i].id # 0 =>
            userInbound[i].id # r.id /\ userPending[userInbound[i].id] # NoAnswer
      BY <1>1, <1>6 DEF AskInv, InboundInv
    <3>3. \A j \in Ask!Ids : userPending[j] # NoAnswer /\ j # r.id => userPending[j] \in Asks \ {r.ask}
      BY <1>2, <1>4 DEF AskInv, AskTypes, PendingInv
    <3>4. QED
      BY <3>1, <3>2, <3>3
  <2>2. \A i \in 1..n : userInbound[i].id # 0 =>
          /\ userInbound[i].decision = userDecided'[userPending[userInbound[i].id]]
          /\ userInbound[i].decision \in Decisions
          /\ \A q \in userClient' : q.id # userInbound[i].id
    BY <1>1, <1>6, <1>7, <2>1 DEF AskInv, InboundInv
  <2>3. \A q \in userClient' : q.id # r.id
    BY <1>1 DEF AskInv, ClientInv
  <2>4. \A i, j \in 1..n : userInbound[i].id = userInbound[j].id /\ userInbound[i].id # 0 => i = j
    BY <1>1, <1>6 DEF AskInv, InboundInv
  <2>5. \A i \in DOMAIN userInbound' : userInbound'[i].id # 0 =>
         /\ userPending'[userInbound'[i].id] # NoAnswer
         /\ userInbound'[i].decision = userDecided'[userPending'[userInbound'[i].id]]
         /\ userInbound'[i].decision \in Decisions
         /\ \A q \in userClient' : q.id # userInbound'[i].id
    BY <1>1, <1>3, <1>4, <1>6, <1>7, <2>1, <2>2, <2>3
  <2>6. \A i, j \in DOMAIN userInbound' :
         userInbound'[i].id = userInbound'[j].id /\ userInbound'[i].id # 0 => i = j
    BY <1>3, <1>4, <1>6, <2>1, <2>4
  <2>7. QED
    BY <2>5, <2>6 DEF InboundInv
<1>13. AnswersInv'
  <2>1. Ask!DecisionOfItsAsk'
    BY <1>1, <1>4, <1>7 DEF AskInv, AnswersInv, Ask!DecisionOfItsAsk
  <2>2. NoAnswer \notin Ask!AllowOptions \cup {"answered"} /\ NoAnswer \notin Ask!RejectOptions
    BY DEF Ask!ApprovalsConstants, Ask!Outcomes
  <2>3. Ask!ToldAsDecided'
    BY <1>1, <1>4, <1>7, <2>2 DEF AskInv, AnswersInv, Ask!ToldAsDecided, Ask!Accepting,
                           Ask!AllowOptions, Ask!RejectOptions
  <2>4. QED
    BY <1>1, <2>1, <2>3 DEF AskInv, AnswersInv
<1>14. UnsentInv'
  BY <1>1, <1>4, <1>7, <1>9 DEF AskInv, UnsentInv, GivenBack, Ask!Ids
<1>15. ThreadInv => ThreadInv'
  BY <1>1, <1>9 DEF ThreadInv, Ask!ShownInItsThread
<1>16. QED
  BY <1>8, <1>10, <1>11, <1>12, <1>13, <1>14, <1>15 DEF AskInv

\* A response of the client reaches the task that waits for it.
LEMMA HandleResponseKeeps ==
  ASSUME Ask!ApprovalsConstants, AskInv, Ask!HandleResponse
  PROVE  /\ AskInv'
         /\ ThreadInv => ThreadInv'
<1> DEFINE m == Head(userInbound)
           a == userPending[m.id]
<1>1. /\ userLoop = "free" /\ userEvents = <<>> /\ userInbound # <<>> /\ m.id # 0
      /\ userInbound' = Tail(userInbound)
      /\ userPending' = [userPending EXCEPT ![m.id] = NoAnswer]
      /\ userArrived' = IF a = NoAnswer THEN userArrived ELSE [userArrived EXCEPT ![a] = m.decision]
      /\ UNCHANGED <<userInTurn, userAsked, userEvents, userLoop, userCalls, userNextId,
                     userClient, userDecided, userAnswers>>
  BY DEF Ask!HandleResponse, Ask!Unpend
<1>2. /\ m = userInbound[1] /\ 1 \in DOMAIN userInbound /\ m \in UserLines
      /\ userInbound' \in Seq(UserLines)
      /\ \A i \in DOMAIN userInbound' :
           i + 1 \in DOMAIN userInbound /\ i + 1 # 1 /\ userInbound'[i] = userInbound[i + 1]
      /\ \A i, j \in DOMAIN userInbound' : i + 1 = j + 1 => i = j
  BY <1>1, HeadAndTail DEF AskInv, AskTypes
<1>3. m.id \in Ask!Ids
  BY <1>2 DEF UserLines
<1> HIDE DEF m
<1>4. /\ a # NoAnswer /\ a \in Asks /\ m.decision = userDecided[a] /\ m.decision \in Decisions
      /\ \A r \in userClient : r.id # m.id
  BY <1>1, <1>2, <1>3 DEF AskInv, InboundInv, AskTypes
<1>5. a \in Ask!Asked /\ userArrived[a] = NoAnswer
  BY <1>3, <1>4 DEF AskInv, PendingInv
<1>6. \A i \in Ask!Ids : userPending[i] = a => i = m.id
  BY <1>3, <1>4 DEF AskInv, PendingInv
<1> HIDE DEF a
<1>7. /\ userPending' \in [Ask!Ids -> Asks \cup {NoAnswer}]
      /\ userPending'[m.id] = NoAnswer
      /\ \A i \in Ask!Ids \ {m.id} : userPending'[i] = userPending[i] /\ userPending[i] # a
      /\ userPending[m.id] = a
  BY <1>1, <1>3, <1>6 DEF AskInv, AskTypes, a
<1>8. /\ userArrived' \in [Asks -> Decisions \cup {NoAnswer}]
      /\ userArrived'[a] = m.decision /\ m.decision # NoAnswer
      /\ \A b \in Asks \ {a} : userArrived'[b] = userArrived[b]
  BY <1>1, <1>4 DEF AskInv, AskTypes, Ask!ApprovalsConstants
<1>9. AskTypes'
  <2>1. UserLines' = UserLines
    BY DEF UserLines, Ask!Ids
  <2>2. QED
    BY <1>1, <1>2, <1>7, <1>8, <2>1 DEF AskInv, AskTypes, Ask!Ids, Ask!AskRecords, Ask!Outcomes,
                         Ask!AllowOptions, Ask!RejectOptions
<1>10. /\ Ask!Asked' = Ask!Asked /\ Ask!Ids' = Ask!Ids
       /\ \A b : ~InEvents(b) /\ ~InEvents(b)'
  BY <1>1 DEF Ask!Asked, Ask!Ids, InEvents
<1>11. EventsInv'
  BY <1>1, <1>10 DEF AskInv, EventsInv
<1>12. PendingInv'
  <2>1. \A i \in Ask!Ids : userPending'[i] # NoAnswer =>
          i # m.id /\ userPending'[i] = userPending[i] /\ userPending[i] \in Asks \ {a}
    BY <1>7 DEF AskInv, AskTypes
  <2>2. \A i \in Ask!Ids : userPending'[i] # NoAnswer =>
          /\ 0 < i /\ i < userNextId
          /\ userPending[i] \in Ask!Asked
          /\ userArrived[userPending[i]] = NoAnswer
    BY <2>1 DEF AskInv, PendingInv
  <2>3. \A i, j \in Ask!Ids : userPending'[i] = userPending'[j] /\ userPending'[i] # NoAnswer => i = j
    BY <2>1 DEF AskInv, PendingInv
  <2>4. QED
    BY <1>1, <1>8, <1>10, <2>1, <2>2, <2>3 DEF PendingInv
<1>13. PlaceInv'
  <2>1. \A b \in Asks : userArrived'[b] # NoAnswer \/ userDecided'[b] # NoAnswer => b \in Ask!Asked
    BY <1>1, <1>5, <1>8 DEF AskInv, PlaceInv
  <2>2. \A b \in Ask!Asked : userArrived'[b] = NoAnswer => b # a /\ userArrived[b] = NoAnswer
    BY <1>8 DEF Ask!Asked
  <2>3. \A b \in Ask!Asked : userArrived'[b] = NoAnswer /\ userAnswers'[b] = NoAnswer =>
          \E i \in Ask!Ids : userPending'[i] = b
    BY <1>1, <1>7, <1>10, <2>2 DEF AskInv, PlaceInv
  <2>4. QED
    BY <1>10, <2>1, <2>3 DEF PlaceInv
<1>14. ClientInv'
  <2>1. \A r \in userClient : r.id \in Ask!Ids \ {m.id}
    BY <1>4 DEF AskInv, AskTypes
  <2>2. QED
    BY <1>1, <1>7, <2>1 DEF AskInv, ClientInv
<1>15. InboundInv'
  <2>1. \A i, j \in DOMAIN userInbound :
          userInbound[i].id = userInbound[j].id /\ userInbound[i].id # 0 => i = j
    BY <1>1 DEF AskInv, InboundInv
  <2>2. \A i \in DOMAIN userInbound' : userInbound'[i].id # 0 => userInbound'[i].id \in Ask!Ids \ {m.id}
    <3>1. \A x \in UserLines : x.id \in Ask!Ids
      BY DEF UserLines
    <3>2. \A i \in DOMAIN userInbound' : userInbound'[i] \in UserLines
      BY <1>2
    <3>3. QED
      BY <1>1, <1>2, <2>1, <3>1, <3>2
  <2>3. \A i, j \in DOMAIN userInbound' :
          userInbound'[i].id = userInbound'[j].id /\ userInbound'[i].id # 0 => i = j
    BY <1>2, <2>1
  <2>4. \A i \in DOMAIN userInbound' : userInbound'[i].id # 0 =>
         /\ userPending[userInbound'[i].id] # NoAnswer
         /\ userInbound'[i].decision = userDecided[userPending[userInbound'[i].id]]
         /\ userInbound'[i].decision \in Decisions
         /\ \A r \in userClient : r.id # userInbound'[i].id
    BY <1>1, <1>2 DEF AskInv, InboundInv
  <2>5. QED
    BY <1>1, <1>7, <2>2, <2>3, <2>4 DEF InboundInv
<1>16. AnswersInv'
  <2>1. Ask!DecisionOfItsAsk'
    BY <1>1, <1>4, <1>8 DEF AskInv, AnswersInv, Ask!DecisionOfItsAsk
  <2>2. Ask!ToldAsDecided'
    BY <1>1 DEF AskInv, AnswersInv, Ask!ToldAsDecided, Ask!Accepting,
                Ask!AllowOptions, Ask!RejectOptions
  <2>3. QED
    BY <2>1, <2>2 DEF AnswersInv
<1>17. UnsentInv'
  <2>1. ASSUME NEW b \in Asks, userAnswers'[b] # NoAnswer, userArrived'[b] = NoAnswer
        PROVE  GivenBack(b)'
    <3>1. userAnswers[b] # NoAnswer /\ userArrived[b] = NoAnswer
      BY <1>1, <1>8, <2>1
    <3>2. GivenBack(b) /\ b # NoAnswer
      BY <1>1, <3>1 DEF AskInv, UnsentInv, Ask!ApprovalsConstants
    <3>3. \A i \in Ask!Ids : userPending'[i] # b
      BY <1>7, <3>2 DEF GivenBack
    <3>4. QED
      BY <1>1, <1>10, <3>2, <3>3 DEF GivenBack
  <2>2. QED
    BY <2>1 DEF UnsentInv
<1>18. ThreadInv => ThreadInv'
  BY <1>1, <1>10 DEF ThreadInv, Ask!ShownInItsThread
<1>19. QED
  BY <1>9, <1>11, <1>12, <1>13, <1>14, <1>15, <1>16, <1>17, <1>18 DEF AskInv

\* The first event is taken: an id of its own is left for it, and nothing has had it.
LEMMA EventTaken ==
  ASSUME Ask!ApprovalsConstants, AskInv, NEW a, a = Head(userEvents), userLoop = "free",
         userEvents # <<>>, userEvents' = Tail(userEvents), userAsked' = userAsked,
         userNextId' = userNextId + 1
  PROVE  /\ a \in Asks /\ a \in Ask!Asked /\ InEvents(a) /\ a # NoAnswer
         /\ userArrived[a] = NoAnswer /\ userAnswers[a] = NoAnswer /\ userDecided[a] = NoAnswer
         /\ \A i \in Ask!Ids : userPending[i] # a
         /\ userNextId \in Ask!Ids /\ userNextId \in Nat \ {0}
         /\ userEvents' \in Seq(Asks)
         /\ Ask!Asked' = Ask!Asked /\ Ask!Ids' = Ask!Ids
         /\ \A b : b # a => (InEvents(b)' <=> InEvents(b))
         /\ ~InEvents(a)'
         /\ EventsInv'
<1>1. /\ a = userEvents[1] /\ 1 \in DOMAIN userEvents /\ a \in Asks
      /\ userEvents' \in Seq(Asks) /\ Len(userEvents') = Len(userEvents) - 1
      /\ \A i \in DOMAIN userEvents' :
           i + 1 \in DOMAIN userEvents /\ i + 1 # 1 /\ userEvents'[i] = userEvents[i + 1]
      /\ \A i, j \in DOMAIN userEvents' : i + 1 = j + 1 => i = j
      /\ \A i \in DOMAIN userEvents : i # 1 => i - 1 \in DOMAIN userEvents'
                                               /\ userEvents'[i - 1] = userEvents[i]
  BY HeadAndTail DEF AskInv, AskTypes
<1>2. a \in Ask!Asked /\ InEvents(a) /\ a # NoAnswer
  BY <1>1 DEF AskInv, EventsInv, InEvents, Ask!ApprovalsConstants
<1>3. userArrived[a] = NoAnswer /\ userAnswers[a] = NoAnswer /\ userDecided[a] = NoAnswer
      /\ \A i \in Ask!Ids : userPending[i] # a
  <2>1. userArrived[a] = NoAnswer /\ userDecided[a] = NoAnswer
    BY <1>1, <1>2 DEF AskInv, PlaceInv
  <2>2. userAnswers[a] = NoAnswer
    BY <1>1, <1>2, <2>1 DEF AskInv, UnsentInv, GivenBack
  <2>3. QED
    BY <1>2, <2>1, <2>2 DEF AskInv, PendingInv
<1>4. userNextId \in Ask!Ids /\ userNextId \in Nat \ {0}
  <2>1. /\ Ask!Cardinality(Asks) = Cardinality(Asks) /\ IsFiniteSet(Asks)
        /\ Cardinality(Asks) \in Nat
    BY AskSizes
  <2>2. /\ Cardinality(Ask!Asked) \in Nat /\ Cardinality(Ask!Asked) <= Cardinality(Asks)
    <3>1. Ask!Asked \in SUBSET Asks
      BY DEF Ask!Asked
    <3>2. QED
      BY <2>1, <3>1, FS_Subset, FS_CardinalityType
  <2>3. PICK n \in Nat : n = Len(userEvents) /\ n # 0
    BY DEF AskInv, AskTypes
  <2>4. userNextId \in Nat \ {0} /\ (userNextId - 1) + n = Cardinality(Ask!Asked)
    BY <2>3 DEF AskInv, AskTypes, EventsInv
  <2>5. QED
    BY <2>1, <2>2, <2>3, <2>4 DEF Ask!Ids
<1>5. /\ Ask!Asked' = Ask!Asked /\ Ask!Ids' = Ask!Ids
      /\ \A b : b # a => (InEvents(b)' <=> InEvents(b))
      /\ ~InEvents(a)'
  <2>1. Ask!Asked' = Ask!Asked /\ Ask!Ids' = Ask!Ids
    BY DEF Ask!Asked, Ask!Ids
  <2>2. ASSUME NEW b, b # a, InEvents(b) PROVE InEvents(b)'
    <3>1. PICK i \in DOMAIN userEvents : userEvents[i] = b
      BY <2>2 DEF InEvents
    <3>2. i # 1
      BY <1>1, <2>2, <3>1
    <3>3. QED
      BY <1>1, <3>1, <3>2 DEF InEvents
  <2>3. ASSUME NEW b, InEvents(b)' PROVE InEvents(b) /\ b # a
    <3>1. PICK i \in DOMAIN userEvents' : userEvents'[i] = b
      BY <2>3 DEF InEvents
    <3>2. i + 1 \in DOMAIN userEvents /\ i + 1 # 1 /\ userEvents[i + 1] = b
      BY <1>1, <3>1
    <3>3. b # a
      BY <1>1, <3>2 DEF AskInv, EventsInv
    <3>4. QED
      BY <3>2, <3>3 DEF InEvents
  <2>4. QED
    BY <2>1, <2>2, <2>3
<1>6. EventsInv'
  <2>1. \A i, j \in DOMAIN userEvents' : userEvents'[i] = userEvents'[j] => i = j
    BY <1>1 DEF AskInv, EventsInv
  <2>2. \A i \in DOMAIN userEvents' : userEvents'[i] \in Ask!Asked
    BY <1>1 DEF AskInv, EventsInv
  <2>3. (userNextId' - 1) + Len(userEvents') = Cardinality(Ask!Asked)
    <3>1. PICK n \in Nat : n = Len(userEvents)
      BY DEF AskInv, AskTypes
    <3>2. (userNextId - 1) + n = Cardinality(Ask!Asked)
      BY <3>1 DEF AskInv, EventsInv
    <3>3. QED
      BY <1>1, <1>4, <3>1, <3>2
  <2>4. QED
    BY <1>5, <2>1, <2>2, <2>3 DEF EventsInv
<1>7. QED
  BY <1>1, <1>2, <1>3, <1>4, <1>5, <1>6

\* An ask becomes a request of the client, under an id that nothing has had.
LEMMA AskSentKeeps ==
  ASSUME Ask!ApprovalsConstants, AskInv, Ask!HandleAsk, Ask!SendRequest(Head(userEvents))
  PROVE  /\ AskInv'
         /\ ThreadInv => ThreadInv'
<1>0. PICK a : a = Head(userEvents)
  OBVIOUS
<1>1. PICK t \in Ask!ShownAs(a) :
      /\ userLoop = "free" /\ userEvents # <<>> /\ userEvents' = Tail(userEvents)
      /\ userPending' = [userPending EXCEPT ![userNextId] = a]
      /\ userNextId' = userNextId + 1
      /\ userClient' = userClient \cup {Ask!AsShown(a, t)}
      /\ UNCHANGED <<userInTurn, userAsked, userLoop, userCalls, userInbound, userDecided,
                     userArrived, userAnswers>>
  BY <1>0 DEF Ask!HandleAsk, Ask!SendRequest, Ask!NextId
<1> DEFINE r == Ask!AsShown(a, t)
<1>2. /\ a \in Asks /\ a \in Ask!Asked /\ a # NoAnswer
      /\ userArrived[a] = NoAnswer /\ userAnswers[a] = NoAnswer /\ userDecided[a] = NoAnswer
      /\ \A i \in Ask!Ids : userPending[i] # a
      /\ userNextId \in Ask!Ids /\ userNextId \in Nat \ {0}
      /\ userEvents' \in Seq(Asks)
      /\ Ask!Asked' = Ask!Asked /\ Ask!Ids' = Ask!Ids
      /\ \A b : b # a => (InEvents(b)' <=> InEvents(b))
      /\ ~InEvents(a)'
  BY <1>0, <1>1, EventTaken
<1>3. EventsInv'
  BY <1>0, <1>1, EventTaken
<1>4. t \in AskThreads \cup {NoThread}
  <2>1. userAsked[a] \in Ask!AskRecords
    BY <1>2 DEF AskInv, AskTypes, Ask!Asked
  <2>2. userAsked[a].thread \in AskThreads
    BY <2>1 DEF Ask!AskRecords
  <2>3. QED
    BY <1>1, <2>2 DEF Ask!ShownAs, AskInv, AskTypes
<1>5. /\ r = [id |-> userNextId, thread |-> t, ask |-> a]
      /\ r.id = userNextId /\ r.ask = a /\ r.thread = t
  BY DEF Ask!AsShown
<1> HIDE DEF r
<1>6. /\ userPending' \in [Ask!Ids -> Asks \cup {NoAnswer}]
      /\ userPending'[userNextId] = a
      /\ \A i \in Ask!Ids \ {userNextId} : userPending'[i] = userPending[i]
  BY <1>1, <1>2 DEF AskInv, AskTypes
<1>7. userPending[userNextId] = NoAnswer
  BY <1>2 DEF AskInv, PendingInv
<1>8. \A q \in userClient : q.id \in Ask!Ids \ {userNextId} /\ q.ask # a
  <2>1. \A q \in userClient : q.id \in Ask!Ids /\ q.ask \in Asks /\ userPending[q.id] = q.ask
    BY <1>1 DEF AskInv, AskTypes, ClientInv
  <2>2. NoAnswer \notin Asks
    BY DEF Ask!ApprovalsConstants
  <2>3. QED
    BY <1>2, <1>7, <2>1, <2>2
<1>9. AskTypes'
  <2>1. UserLines' = UserLines
    BY DEF UserLines, Ask!Ids
  <2>2. r \in [id : Ask!Ids, thread : AskThreads \cup {NoThread}, ask : Asks]
    BY <1>2, <1>4, <1>5
  <2>3. userClient' = userClient \cup {r}
    BY <1>1 DEF r
  <2>4. QED
    BY <1>1, <1>2, <1>6, <2>1, <2>2, <2>3 DEF AskInv, AskTypes, Ask!Ids, Ask!AskRecords,
                         Ask!Outcomes, Ask!AllowOptions, Ask!RejectOptions
<1>10. PendingInv'
  <2>1. \A i \in Ask!Ids : i \in Nat
    BY DEF Ask!Ids
  <2>2. \A i \in Ask!Ids \ {userNextId} : userPending[i] # NoAnswer =>
          /\ 0 < i /\ i < userNextId
          /\ userPending[i] \in Ask!Asked
          /\ userArrived[userPending[i]] = NoAnswer
          /\ ~InEvents(userPending[i])
    BY DEF AskInv, PendingInv
  <2>3. \A i \in Ask!Ids : userPending'[i] # NoAnswer =>
          /\ 0 < i /\ i < userNextId'
          /\ userPending'[i] \in Ask!Asked
          /\ userArrived[userPending'[i]] = NoAnswer
          /\ \A b : b = userPending'[i] => ~InEvents(b)'
    BY <1>1, <1>2, <1>6, <2>1, <2>2
  <2>4. \A i, j \in Ask!Ids : userPending'[i] = userPending'[j] /\ userPending'[i] # NoAnswer => i = j
    BY <1>2, <1>6 DEF AskInv, PendingInv
  <2>5. QED
    BY <1>1, <1>2, <2>3, <2>4 DEF PendingInv
<1>11. PlaceInv'
  <2>1. \A b \in Asks : userArrived[b] # NoAnswer \/ userDecided[b] # NoAnswer =>
          b \in Ask!Asked /\ ~InEvents(b)'
    BY <1>2 DEF AskInv, PlaceInv
  <2>2. ASSUME NEW b \in Ask!Asked, userArrived[b] = NoAnswer, userAnswers[b] = NoAnswer
        PROVE  InEvents(b)' \/ \E i \in Ask!Ids : userPending'[i] = b
    <3>1. CASE b = a
      BY <1>2, <1>6, <3>1
    <3>2. CASE b # a
      <4>1. InEvents(b) \/ \E i \in Ask!Ids : userPending[i] = b
        BY <1>1, <2>2 DEF AskInv, PlaceInv
      <4>2. b # NoAnswer
        BY DEF Ask!Asked, Ask!ApprovalsConstants
      <4>3. QED
        BY <1>2, <1>6, <1>7, <3>2, <4>1, <4>2
    <3>3. QED
      BY <3>1, <3>2
  <2>3. QED
    BY <1>1, <1>2, <2>1, <2>2 DEF PlaceInv
<1>12. ClientInv'
  <2>1. userClient' = userClient \cup {r}
    BY <1>1 DEF r
  <2>2. userDecided[a] = NoAnswer
    BY <1>2
  <2>3. QED
    BY <1>1, <1>5, <1>6, <1>8, <2>1, <2>2 DEF AskInv, ClientInv
<1>13. InboundInv'
  <2>1. userClient' = userClient \cup {r}
    BY <1>1 DEF r
  <2>2. \A i \in DOMAIN userInbound : userInbound[i].id # 0 =>
          userInbound[i].id \in Ask!Ids \ {userNextId}
    <3>1. \A x \in UserLines : x.id \in Ask!Ids
      BY DEF UserLines
    <3>2. \A i \in DOMAIN userInbound : userInbound[i] \in UserLines
      BY DEF AskInv, AskTypes
    <3>3. QED
      BY <1>1, <1>7, <3>1, <3>2 DEF AskInv, InboundInv
  <2>3. QED
    BY <1>1, <1>5, <1>6, <2>1, <2>2 DEF AskInv, InboundInv
<1>14. AnswersInv'
  BY <1>1 DEF AskInv, AnswersInv, Ask!DecisionOfItsAsk, Ask!ToldAsDecided, Ask!Accepting,
              Ask!AllowOptions, Ask!RejectOptions
<1>15. ASSUME ThreadInv PROVE ThreadInv'
  <2>1. userAsked[a].thread \in userInTurn
    BY <1>1, <1>2, <1>15 DEF ThreadInv
  <2>2. t = userAsked[a].thread
    BY <1>1, <1>15, <2>1 DEF ThreadInv, Ask!ShownAs
  <2>3. userClient' = userClient \cup {r}
    BY <1>1 DEF r
  <2>4. QED
    BY <1>1, <1>2, <1>5, <1>15, <2>2, <2>3 DEF ThreadInv, Ask!ShownInItsThread
<1>16. UnsentInv'
  <2>1. ASSUME NEW b \in Asks, userAnswers[b] # NoAnswer, userArrived[b] = NoAnswer
        PROVE  GivenBack(b)'
    <3>1. GivenBack(b) /\ b # a
      BY <1>1, <1>2, <2>1 DEF AskInv, UnsentInv
    <3>2. QED
      BY <1>1, <1>2, <1>6, <3>1 DEF GivenBack
  <2>2. QED
    BY <1>1, <2>1 DEF UnsentInv
<1>17. QED
  BY <1>3, <1>9, <1>10, <1>11, <1>12, <1>13, <1>14, <1>15, <1>16 DEF AskInv

\* An ask that cannot be sent is answered at once, and nothing waits for it.
LEMMA AskUnsentKeeps ==
  ASSUME Ask!ApprovalsConstants, AskInv, Ask!HandleAsk, Ask!SendFails(Head(userEvents))
  PROVE  /\ AskInv'
         /\ ThreadInv => ThreadInv'
<1>0. PICK a : a = Head(userEvents)
  OBVIOUS
<1>1. PICK x \in {"cancelled", "failed"} :
      /\ userLoop = "free" /\ userEvents # <<>> /\ userEvents' = Tail(userEvents)
      /\ userNextId' = userNextId + 1
      /\ userAnswers' = [userAnswers EXCEPT ![a] = x]
      /\ UNCHANGED <<userInTurn, userAsked, userLoop, userCalls, userInbound, userPending,
                     userClient, userDecided, userArrived>>
  BY <1>0 DEF Ask!HandleAsk, Ask!SendFails, Ask!Undecided, Ask!NextId
<1>2. /\ a \in Asks /\ a \in Ask!Asked /\ a # NoAnswer
      /\ userArrived[a] = NoAnswer /\ userAnswers[a] = NoAnswer /\ userDecided[a] = NoAnswer
      /\ \A i \in Ask!Ids : userPending[i] # a
      /\ userNextId \in Ask!Ids /\ userNextId \in Nat \ {0}
      /\ userEvents' \in Seq(Asks)
      /\ Ask!Asked' = Ask!Asked /\ Ask!Ids' = Ask!Ids
      /\ \A b : b # a => (InEvents(b)' <=> InEvents(b))
      /\ ~InEvents(a)'
  BY <1>0, <1>1, EventTaken
<1>3. EventsInv'
  BY <1>0, <1>1, EventTaken
<1>4. x \in Ask!Outcomes /\ x \notin Ask!AllowOptions \cup {"answered"} \cup Ask!RejectOptions
  BY <1>1 DEF Ask!Outcomes, Ask!AllowOptions, Ask!RejectOptions
<1>5. /\ userAnswers' \in [Asks -> Ask!Outcomes \cup {NoAnswer}]
      /\ userAnswers'[a] = x /\ \A b \in Asks \ {a} : userAnswers'[b] = userAnswers[b]
      /\ x # NoAnswer
  BY <1>1, <1>2, <1>4 DEF AskInv, AskTypes, Ask!ApprovalsConstants
<1>6. AskTypes'
  <2>1. UserLines' = UserLines
    BY DEF UserLines, Ask!Ids
  <2>2. QED
    BY <1>1, <1>2, <1>5, <2>1 DEF AskInv, AskTypes, Ask!Ids, Ask!AskRecords,
                         Ask!Outcomes, Ask!AllowOptions, Ask!RejectOptions
<1>7. PendingInv'
  <2>1. \A i \in Ask!Ids : i \in Nat
    BY DEF Ask!Ids
  <2>2. \A i \in Ask!Ids : userPending[i] # NoAnswer =>
          /\ 0 < i /\ i < userNextId'
          /\ userPending[i] \in Ask!Asked
          /\ userArrived[userPending[i]] = NoAnswer
          /\ \A b : b = userPending[i] => ~InEvents(b)'
    BY <1>1, <1>2, <2>1 DEF AskInv, PendingInv
  <2>3. \A i, j \in Ask!Ids : userPending[i] = userPending[j] /\ userPending[i] # NoAnswer => i = j
    BY DEF AskInv, PendingInv
  <2>4. QED
    BY <1>1, <1>2, <2>2, <2>3 DEF PendingInv
<1>8. PlaceInv'
  <2>1. \A b \in Asks : userArrived[b] # NoAnswer \/ userDecided[b] # NoAnswer =>
          b \in Ask!Asked /\ ~InEvents(b)'
    BY <1>2 DEF AskInv, PlaceInv
  <2>2. ASSUME NEW b \in Ask!Asked, userArrived[b] = NoAnswer, userAnswers'[b] = NoAnswer
        PROVE  InEvents(b)' \/ \E i \in Ask!Ids : userPending[i] = b
    <3>1. b # a /\ userAnswers[b] = NoAnswer
      BY <1>5, <2>2 DEF Ask!Asked
    <3>2. InEvents(b) \/ \E i \in Ask!Ids : userPending[i] = b
      BY <1>1, <2>2, <3>1 DEF AskInv, PlaceInv
    <3>3. QED
      BY <1>2, <3>1, <3>2
  <2>3. QED
    BY <1>1, <1>2, <2>1, <2>2 DEF PlaceInv
<1>9. ClientInv' /\ InboundInv'
  BY <1>1 DEF AskInv, ClientInv, InboundInv
<1>10. AnswersInv'
  <2>1. Ask!DecisionOfItsAsk'
    BY <1>1 DEF AskInv, AnswersInv, Ask!DecisionOfItsAsk
  <2>2. Ask!ToldAsDecided'
    BY <1>1, <1>4, <1>5 DEF AskInv, AnswersInv, Ask!ToldAsDecided, Ask!Accepting,
                           Ask!AllowOptions, Ask!RejectOptions
  <2>3. QED
    BY <2>1, <2>2 DEF AnswersInv
<1>11. UnsentInv'
  <2>1. ASSUME NEW b \in Asks, userAnswers'[b] # NoAnswer, userArrived[b] = NoAnswer
        PROVE  GivenBack(b)'
    <3>1. CASE b = a
      BY <1>1, <1>2, <3>1 DEF GivenBack
    <3>2. CASE b # a
      <4>1. GivenBack(b)
        BY <1>1, <1>5, <2>1, <3>2 DEF AskInv, UnsentInv
      <4>2. QED
        BY <1>1, <1>2, <3>2, <4>1 DEF GivenBack
    <3>3. QED
      BY <3>1, <3>2
  <2>2. QED
    BY <1>1, <2>1 DEF UnsentInv
<1>12. ThreadInv => ThreadInv'
  <2>1. \A b \in Ask!Asked : userAnswers'[b] = NoAnswer => userAnswers[b] = NoAnswer
    BY <1>2, <1>5 DEF Ask!Asked
  <2>2. QED
    BY <1>1, <1>2, <2>1 DEF ThreadInv, Ask!ShownInItsThread
<1>13. QED
  BY <1>3, <1>6, <1>7, <1>8, <1>9, <1>10, <1>11, <1>12 DEF AskInv

LEMMA NextAskInv ==
  ASSUME Ask!ApprovalsConstants, AskInv, Ask!Next \/ UNCHANGED Ask!vars
  PROVE  /\ AskInv'
         /\ ~ManyTurns /\ ThreadInv => ThreadInv'
<1>1. ASSUME NEW t \in AskThreads, Ask!TurnBegins(t) \/ Ask!TurnEnds(t)
      PROVE  AskInv' /\ (~ManyTurns /\ ThreadInv => ThreadInv')
  BY <1>1, TurnsKeep
<1>2. ASSUME NEW a \in Asks, NEW t \in AskThreads, NEW k \in AskKinds, NEW o \in AskOptions,
             Ask!AgentAsks(a, t, k, o)
      PROVE  AskInv' /\ (ThreadInv => ThreadInv')
  BY <1>2, AgentAsksKeeps
<1>3. CASE Ask!AgentAnswersCall
  BY <1>3, AgentAnswersCallKeeps
<1>4. CASE Ask!ClientCalls
  BY <1>4, ClientCallsKeeps
<1>5. CASE Ask!Disconnected
  BY <1>5, DisconnectedKeeps
<1>6. ASSUME NEW r \in userClient, NEW d \in Decisions, Ask!ClientAnswers(r, d)
      PROVE  AskInv' /\ (ThreadInv => ThreadInv')
  BY <1>6, ClientAnswersKeeps
<1>7. CASE Ask!HandleAsk
  <2>1. Ask!SendRequest(Head(userEvents)) \/ Ask!SendFails(Head(userEvents))
    BY <1>7 DEF Ask!HandleAsk
  <2>2. QED
    BY <1>7, <2>1, AskSentKeeps, AskUnsentKeeps
<1>8. CASE Ask!HandleResponse
  BY <1>8, HandleResponseKeeps
<1>9. CASE Ask!HandleCall
  BY <1>9, HandleCallKeeps
<1>10. ASSUME NEW a \in Asks, Ask!TaskAnswers(a) \/ Ask!TaskGivesUp(a)
       PROVE  AskInv' /\ (ThreadInv => ThreadInv')
  BY <1>10, TasksKeep
<1>11. CASE UNCHANGED Ask!vars
  <2>1. UNCHANGED <<userInTurn, userAsked, userEvents, userLoop, userCalls, userInbound,
                    userPending, userNextId, userClient, userDecided, userArrived, userAnswers>>
    BY <1>11 DEF Ask!vars
  <2>2. AskInv'
    BY <2>1, QuietKeeps DEF AskInv, AskTypes
  <2>3. ThreadInv => ThreadInv'
    BY <2>1 DEF ThreadInv, Ask!ShownInItsThread, Ask!Asked
  <2>4. QED
    BY <2>2, <2>3
<1>12. QED
  BY <1>1, <1>2, <1>3, <1>4, <1>5, <1>6, <1>7, <1>8, <1>9, <1>10, <1>11 DEF Ask!Next

\* One place is counted once, and none is not counted.
LEMMA PlacesCounted ==
  ASSUME NEW S
  PROVE  /\ (\A x \in S : FALSE) => Ask!Cardinality(S) = 0
         /\ \A x \in S : (\A y \in S : y = x) => Ask!Cardinality(S) = 1
<1>1. Ask!Cardinality(S) = Cardinality(S)
  BY AskSizes
<1>2. ASSUME \A x \in S : FALSE PROVE Ask!Cardinality(S) = 0
  <2>1. S = {}
    BY <1>2
  <2>2. QED
    BY <1>1, <2>1, FS_EmptySet
<1>3. ASSUME NEW x \in S, \A y \in S : y = x PROVE Ask!Cardinality(S) = 1
  <2>1. S = {x}
    BY <1>3
  <2>2. QED
    BY <1>1, <2>1, FS_Singleton
<1>4. QED
  BY <1>2, <1>3

LEMMA PlacedOnce == ASSUME Ask!ApprovalsConstants, AskInv PROVE Ask!AskedOnce
<1> SUFFICES ASSUME userLoop # "ended", NEW a \in Ask!Asked
    PROVE  LET waiting == Ask!Cardinality({i \in Ask!Ids : userPending[i] = a})
               before  == Ask!Cardinality({i \in DOMAIN userEvents : userEvents[i] = a})
           IN  waiting + before =
                 IF userArrived[a] = NoAnswer /\ userAnswers[a] = NoAnswer THEN 1 ELSE 0
  BY DEF Ask!AskedOnce
<1> DEFINE W == {i \in Ask!Ids : userPending[i] = a}
           E == {i \in DOMAIN userEvents : userEvents[i] = a}
<1>1. a \in Asks /\ a # NoAnswer
  BY DEF Ask!Asked, Ask!ApprovalsConstants
<1>2. \A x, y \in W : x = y
  BY <1>1 DEF AskInv, PendingInv
<1>3. \A x, y \in E : x = y
  BY DEF AskInv, EventsInv
<1> DEFINE waits == userArrived[a] = NoAnswer /\ userAnswers[a] = NoAnswer
<1>4. ASSUME ~waits PROVE (\A x \in W : FALSE) /\ (\A x \in E : FALSE)
  <2>1. CASE userArrived[a] # NoAnswer
    BY <1>1, <2>1 DEF AskInv, PendingInv, PlaceInv, InEvents
  <2>2. CASE userArrived[a] = NoAnswer /\ userAnswers[a] # NoAnswer
    BY <1>1, <2>2 DEF AskInv, UnsentInv, GivenBack, InEvents
  <2>3. QED
    BY <1>4, <2>1, <2>2
<1>5. (\E x \in W : TRUE) => \A x \in E : FALSE
  BY <1>1 DEF AskInv, PendingInv, InEvents
<1>6. waits => (\E x \in W : TRUE) \/ (\E x \in E : TRUE)
  BY DEF AskInv, PlaceInv, InEvents
<1> HIDE DEF W, E, waits
<1>7. CASE ~waits
  <2>1. Ask!Cardinality(W) = 0 /\ Ask!Cardinality(E) = 0
    BY <1>4, <1>7, PlacesCounted
  <2>2. QED
    BY <1>7, <2>1 DEF W, E, waits
<1>8. CASE waits /\ \E x \in W : TRUE
  <2>1. Ask!Cardinality(W) = 1 /\ Ask!Cardinality(E) = 0
    BY <1>2, <1>5, <1>8, PlacesCounted
  <2>2. QED
    BY <1>8, <2>1 DEF W, E, waits
<1>9. CASE waits /\ \A x \in W : FALSE
  <2>1. Ask!Cardinality(W) = 0 /\ Ask!Cardinality(E) = 1
    BY <1>3, <1>6, <1>9, PlacesCounted
  <2>2. QED
    BY <1>9, <2>1 DEF W, E, waits
<1>10. QED
  BY <1>7, <1>8, <1>9

\* What the agent asks of the user (client_impl.rs, send_request and resolve_pending in
\* outgoing.rs): for any sessions, asks, options and decisions, an ask is in one place
\* under one id until it is decided, the decision that arrives is the one that was given
\* for it, and the agent is told what was decided.
THEOREM DecidedAsAsked ==
  ASSUME Ask!ApprovalsConstants
  PROVE  Ask!Spec =>
           [](Ask!TypeOK /\ Ask!AskedOnce /\ Ask!ToldAsDecided /\ Ask!DecisionOfItsAsk)
<1>1. Ask!Init => AskInv
  BY InitAskInv
<1>2. AskInv /\ [Ask!Next]_(Ask!vars) => AskInv'
  BY NextAskInv
<1>3. AskInv => Ask!TypeOK /\ Ask!AskedOnce /\ Ask!ToldAsDecided /\ Ask!DecisionOfItsAsk
  BY TypesHold, PlacedOnce DEF AskInv, AnswersInv
<1>4. QED
  BY <1>1, <1>2, <1>3, PTL DEF Ask!Spec

\* When one thread at a time is in a turn, the client is shown what is asked in the
\* thread whose session asks (find_active_turn in lib.rs), whatever the ask names.
THEOREM ShownWhereAsked ==
  ASSUME Ask!ApprovalsConstants, ~ManyTurns
  PROVE  Ask!Spec => []Ask!ShownInItsThread
<1>1. Ask!Init => AskInv /\ ThreadInv
  BY InitAskInv
<1>2. AskInv /\ ThreadInv /\ [Ask!Next]_(Ask!vars) => AskInv' /\ ThreadInv'
  BY NextAskInv
<1>3. ThreadInv => Ask!ShownInItsThread
  BY DEF ThreadInv
<1>4. QED
  BY <1>1, <1>2, <1>3, PTL DEF Ask!Spec

-----------------------------------------------------------------------------
(* What the client decides reaches the child that asked. *)

NativeAsk(ask) == ask.from = "native" /\ ask.id = ChildId(ask.asked)

\* A request of the adapter that the client is answering has its entry in grok_server_ids.
GrokAsk(ask) == /\ ask.from = "grok"
                /\ ask.id \in DOMAIN grokServerIds
                /\ grokServerIds[ask.id] = ask.asked

\* Ids of grok_server_ids are below the counter, so none is given twice; with that two
\* requests are never shown to the client under one id of the multiplexer.
ServerInv ==
  /\ nextServerId \in Nat
  /\ DOMAIN grokServerIds \subseteq {ServerId(n) : n \in 0..nextServerId - 1}
  /\ shown \subseteq Shown
  /\ \A ask \in shown : NativeAsk(ask) \/ GrokAsk(ask)
  /\ \A a, b \in shown : a.from = "grok" /\ b.from = "grok" /\ a.id = b.id => a = b
  /\ serverAnswers \in [Backends -> SUBSET Shown]
  /\ ServerAnswersReachAsker

LEMMA InitServerInv == Init => ServerInv
  BY MuxConstants DEF Init, ServerInv, ServerAnswersReachAsker, Nothing, Backends

\* The ids of a child are never those of the multiplexer.
LEMMA IdsDiffer == \A i, n : ChildId(i) # ServerId(n)
  BY DEF ChildId, ServerId

LEMMA ShowNativeStep ==
  ASSUME ServerInv, NEW i \in ServerIds, ShowNative(i)
  PROVE  ServerInv'
<1> DEFINE new == [id |-> ChildId(i), from |-> "native", asked |-> i]
<1>1. new \in Shown
  BY DEF Shown, Backends
<1>2. shown' = shown \cup {new} /\ UNCHANGED <<grokServerIds, nextServerId, serverAnswers>>
  BY DEF ShowNative
<1>3. NativeAsk(new)
  BY DEF NativeAsk
<1>4. \A ask \in shown' : NativeAsk(ask) \/ GrokAsk(ask)'
  BY <1>2, <1>3 DEF ServerInv, GrokAsk
<1>5. \A ask \in shown' : NativeAsk(ask)' <=> NativeAsk(ask)
  BY DEF NativeAsk
<1>6. \A a, b \in shown' : a.from = "grok" /\ b.from = "grok" /\ a.id = b.id => a = b
  BY <1>2 DEF ServerInv
<1>7. shown' \subseteq Shown
  BY <1>1, <1>2 DEF ServerInv
<1>8. QED
  BY <1>2, <1>4, <1>5, <1>6, <1>7 DEF ServerInv, ServerAnswersReachAsker

LEMMA ShowGrokStep ==
  ASSUME ServerInv, NEW i \in ServerIds, ShowGrok(i)
  PROVE  ServerInv'
<1> DEFINE id  == ServerId(nextServerId)
           new == [id |-> id, from |-> "grok", asked |-> i]
<1>1. /\ shown' = shown \cup {new} /\ nextServerId' = nextServerId + 1
      /\ grokServerIds' = Put(grokServerIds, id, i) /\ serverAnswers' = serverAnswers
      /\ nextServerId \in 1..MaxId
  BY DEF ShowGrok, NewServerId
<1>2. new \in Shown
  BY <1>1 DEF Shown, Backends
<1>3. id \notin DOMAIN grokServerIds
  BY DEF ServerInv, ServerId
<1>4. /\ DOMAIN grokServerIds' = DOMAIN grokServerIds \cup {id}
      /\ grokServerIds'[id] = i
      /\ \A k \in DOMAIN grokServerIds : grokServerIds'[k] = grokServerIds[k]
  BY <1>1, <1>3 DEF Put
<1>5. DOMAIN grokServerIds' \subseteq {ServerId(n) : n \in 0..nextServerId' - 1}
  BY <1>1, <1>4 DEF ServerInv
<1>6. \A ask \in shown' : (NativeAsk(ask) \/ GrokAsk(ask))'
  BY <1>1, <1>4 DEF ServerInv, NativeAsk, GrokAsk
<1>7. \A a \in shown : a.from = "grok" => a.id # id
  BY <1>3 DEF ServerInv, NativeAsk, GrokAsk
<1>8. \A a, b \in shown' : a.from = "grok" /\ b.from = "grok" /\ a.id = b.id => a = b
  BY <1>1, <1>7 DEF ServerInv
<1>9. QED
  BY <1>1, <1>2, <1>5, <1>6, <1>8 DEF ServerInv, ServerAnswersReachAsker

LEMMA ClientAnswersStep ==
  ASSUME ServerInv, ClientAnswers
  PROVE  ServerInv'
<1>1. PICK ask \in shown :
        /\ shown' = shown \ {ask} /\ nextServerId' = nextServerId
        /\ IF ask.id \in DOMAIN grokServerIds
             THEN /\ serverAnswers' = [serverAnswers EXCEPT !["grok"] =
                       @ \cup {[ask EXCEPT !.id = ChildId(grokServerIds[ask.id])]}]
                  /\ grokServerIds' = Remove(grokServerIds, ask.id)
             ELSE /\ serverAnswers' = [serverAnswers EXCEPT !["native"] =
                       @ \cup {[ask EXCEPT !.id = ask.id]}]
                  /\ grokServerIds' = grokServerIds
  BY DEF ClientAnswers
<1>2. ask \in Shown /\ (NativeAsk(ask) \/ GrokAsk(ask))
  BY DEF ServerInv
<1>3. CASE ask.id \in DOMAIN grokServerIds
  <2> DEFINE back == [ask EXCEPT !.id = ChildId(grokServerIds[ask.id])]
  <2>1. GrokAsk(ask)
    BY <1>2, <1>3, IdsDiffer DEF ServerInv, NativeAsk
  <2>2. back \in Shown /\ back.from = "grok" /\ back.id = ChildId(back.asked)
    BY <1>2, <2>1 DEF GrokAsk, Shown
  <2>3. serverAnswers' = [serverAnswers EXCEPT !["grok"] = @ \cup {back}]
    BY <1>1, <1>3
  <2> HIDE DEF back
  <2>4. serverAnswers' \in [Backends -> SUBSET Shown] /\ ServerAnswersReachAsker'
    BY <2>2, <2>3 DEF ServerInv, ServerAnswersReachAsker, Backends
  <2>5. /\ DOMAIN grokServerIds' = DOMAIN grokServerIds \ {ask.id}
        /\ \A k \in DOMAIN grokServerIds' : grokServerIds'[k] = grokServerIds[k]
    BY <1>1, <1>3 DEF Remove
  <2>6. ASSUME NEW other \in shown' PROVE (NativeAsk(other) \/ GrokAsk(other))'
    <3>1. other \in shown /\ other # ask
      BY <1>1
    <3>2. CASE NativeAsk(other)
      BY <3>2 DEF NativeAsk
    <3>3. CASE GrokAsk(other)
      <4>1. other.id # ask.id
        BY <2>1, <3>1, <3>3 DEF GrokAsk, ServerInv
      <4>2. QED
        BY <2>5, <3>3, <4>1 DEF GrokAsk
    <3>4. QED
      BY <3>1, <3>2, <3>3 DEF ServerInv
  <2>7. QED
    BY <1>1, <2>4, <2>5, <2>6 DEF ServerInv
<1>4. CASE ask.id \notin DOMAIN grokServerIds
  <2>1. NativeAsk(ask) /\ grokServerIds' = grokServerIds
    BY <1>1, <1>2, <1>4 DEF GrokAsk
  <2>2. [ask EXCEPT !.id = ask.id] = ask
    BY <1>2 DEF Shown
  <2>3. serverAnswers' = [serverAnswers EXCEPT !["native"] = @ \cup {ask}]
    BY <1>1, <1>4, <2>2
  <2>4. serverAnswers' \in [Backends -> SUBSET Shown] /\ ServerAnswersReachAsker'
    BY <1>2, <2>1, <2>3 DEF ServerInv, ServerAnswersReachAsker, Backends, NativeAsk
  <2>5. \A other \in shown' : (NativeAsk(other) \/ GrokAsk(other))'
    BY <1>1, <2>1 DEF ServerInv, NativeAsk, GrokAsk
  <2>6. QED
    BY <1>1, <2>1, <2>4, <2>5 DEF ServerInv
<1>5. QED
  BY <1>3, <1>4

\* No other action touches what the requests of the children depend on.
LEMMA NextServerInv == ServerInv /\ [Next]_vars => ServerInv'
<1> SUFFICES ASSUME ServerInv, [Next]_vars PROVE ServerInv'
  OBVIOUS
<1>1. CASE UNCHANGED <<grokServerIds, nextServerId, shown, serverAnswers>>
  BY <1>1 DEF ServerInv, NativeAsk, GrokAsk, ServerAnswersReachAsker
<1>2. CASE UNCHANGED vars
  BY <1>1, <1>2 DEF vars
<1>3. CASE \E r \in Requests : ClientRequest(r)
  BY <1>1, <1>3 DEF ClientRequest, Reject, AskSomebody, AskNobody, PassToNative, PassToGrok,
     AskBoth, AskOther, AskGroup, serverVars
<1>4. CASE \E b \in Backends, r \in Requests, ok \in BOOLEAN : ChildAnswers(b, r, ok)
  BY <1>1, <1>4 DEF ChildAnswers, serverVars
<1>5. CASE \E b \in Backends : ChildLine(b)
  BY <1>1, <1>5 DEF ChildLine, TakePassed, TakeHalf, TakeUnknown, serverVars
<1>6. CASE ServerRequest
  BY <1>1, <1>6, ShowNativeStep, ShowGrokStep, ClientAnswersStep DEF ServerRequest, ChildAsks
<1>7. CASE MuxExits
  BY <1>1, <1>7 DEF MuxExits, serverVars
<1>8. QED
  BY <1>2, <1>3, <1>4, <1>5, <1>6, <1>7 DEF Next

\* What the client decides about a child's request comes back to that child, under the id
\* the child gave it (handle_child_line, handle_client_message).
THEOREM DecisionsReachTheAsker == Spec => []ServerAnswersReachAsker
<1>1. ServerInv => ServerAnswersReachAsker
  BY DEF ServerInv
<1>2. QED
  BY <1>1, InitServerInv, NextServerInv, PTL DEF Spec

-----------------------------------------------------------------------------
(* The tables know every line that is under way, and nothing else. *)

\* Lines and answers under way; of those of the multiplexer's own ids there is one each,
\* so the first answer under an id is the only one.
LinesInv ==
  /\ inbox \in [Backends -> SUBSET Lines] /\ outbox \in [Backends -> SUBSET Answers]
  /\ \A b, c \in Backends :
       /\ \A x \in inbox[b], y \in inbox[c] : x.id \in Internals /\ x.id = y.id => b = c /\ x = y
       /\ \A x \in outbox[b], y \in outbox[c] : x.id \in Internals /\ x.id = y.id => b = c /\ x = y
       /\ \A x \in inbox[b], y \in outbox[c] : x.id \in Internals => x.id # y.id

Out == {id \in Internals : \E b \in Backends :
          \/ \E x \in inbox[b] : x.id = id
          \/ \E x \in outbox[b] : x.id = id}

\* pending holds just those, under ids that were given; the halves of a group that are
\* missing are those with an entry in pending, and one is always missing.
RequestsInv ==
  /\ nextId \in 1..MaxId + 1
  /\ DOMAIN pending = Out
  /\ \A id \in DOMAIN pending : /\ pending[id] \in Pass \cup Half
                                /\ id \in {InternalId(n) : n \in 1..nextId - 1}

GroupInv ==
  /\ DOMAIN aggregates \subseteq 1..nextId - 1
  /\ \A g \in DOMAIN aggregates :
       /\ aggregates[g] \in Groups
       /\ \E b \in Backends : aggregates[g].halves[b] = NoReply
       /\ \A b \in Backends : aggregates[g].halves[b] = NoReply =>
            \E id \in DOMAIN pending : pending[id] = [kind |-> "aggregate", group |-> g, backend |-> b]
  /\ \A id \in DOMAIN pending : pending[id] \in Half =>
       /\ pending[id].group \in DOMAIN aggregates
       /\ aggregates[pending[id].group].halves[pending[id].backend] = NoReply
       /\ \A other \in DOMAIN pending : pending[other] = pending[id] => other = id

TableInv == LinesInv /\ RequestsInv /\ GroupInv

LEMMA InitTableInv == Init => TableInv
  BY MuxConstants DEF Init, TableInv, LinesInv, RequestsInv, GroupInv, Out, Nothing

LEMMA Kinds2 == /\ \A x \in Pass : x.kind = "pass" /\ x \notin Half
                /\ \A x \in Half : x.kind = "aggregate" /\ x \notin Pass
  BY DEF Pass, Half

LEMMA IdsApart == /\ \A r, n : ClientId(r) # InternalId(n)
                  /\ \A m, n : InternalId(m) = InternalId(n) => m = n
                  /\ \A r : ClientId(r) \notin Internals
  BY DEF ClientId, InternalId, Internals

LEMMA TablesMatch == TableInv => TablesMatchChildren
<1> SUFFICES ASSUME TableInv PROVE TablesMatchChildren
  OBVIOUS
<1>1. Out = {line.id : line \in UNION {inbox[b] \cup outbox[b] : b \in Backends}} \cap Internals
  BY DEF Out
<1>2. \A id \in DOMAIN pending : pending[id] \in Half <=> pending[id].kind = "aggregate"
  BY Kinds2 DEF TableInv, RequestsInv
<1>3. \A g \in DOMAIN aggregates : \E id \in DOMAIN pending :
        pending[id].kind = "aggregate" /\ pending[id].group = g
  BY DEF TableInv, GroupInv
<1>4. \A id \in DOMAIN pending : pending[id].kind = "aggregate" => pending[id].group \in DOMAIN aggregates
  BY <1>2 DEF TableInv, GroupInv
<1>5. DOMAIN aggregates = {pending[id].group : id \in {i \in DOMAIN pending : pending[i].kind = "aggregate"}}
  BY <1>3, <1>4
<1>6. QED
  BY <1>1, <1>5 DEF TableInv, RequestsInv, TablesMatchChildren

LEMMA UpTo ==
  ASSUME NEW max \in Nat, NEW n \in 1..max + 1, NEW m \in n..max + 1
  PROVE  /\ n \in Nat /\ m \in 1..max + 1
         /\ \A k \in 1..n - 1 : k \in 1..m - 1
  OBVIOUS

LEMMA BeyondUpTo ==
  ASSUME NEW max \in Nat, NEW n \in 1..max + 1, NEW m \in n + 1..max + 1
  PROVE  /\ n \in Nat /\ m \in 1..max + 1 /\ n \in 1..m - 1 /\ n \in 1..max
         /\ \A k \in 1..n - 1 : k \in 1..m - 1
         /\ \A k \in n + 1..m - 1 : k \in 1..m - 1
  OBVIOUS

\* The counter may run ahead of the tables.
LEMMA QuietTables ==
  ASSUME TableInv, UNCHANGED <<inbox, outbox, pending, aggregates>>,
         nextId' \in nextId..MaxId + 1
  PROVE  TableInv'
<1>1. /\ nextId \in Nat /\ nextId' \in 1..MaxId + 1
      /\ \A n \in 1..nextId - 1 : n \in 1..nextId' - 1
  BY MuxConstants, UpTo DEF TableInv, RequestsInv
<1>2. LinesInv'
  BY DEF TableInv, LinesInv
<1>3. RequestsInv'
  <2>1. Out' = Out
    BY DEF Out
  <2>2. QED
    BY <1>1, <2>1 DEF TableInv, RequestsInv
<1>4. GroupInv'
  <2>1. DOMAIN aggregates' \subseteq 1..nextId' - 1
    BY <1>1 DEF TableInv, GroupInv
  <2>2. QED
    BY <2>1 DEF TableInv, GroupInv
<1>5. QED
  BY <1>2, <1>3, <1>4 DEF TableInv

LEMMA PassToNativeTables ==
  ASSUME TableInv, NEW r \in Requests, PassToNative(r)
  PROVE  TableInv'
<1> DEFINE line == [id |-> ClientId(r), request |-> r]
<1>1. /\ inbox' = [inbox EXCEPT !["native"] = @ \cup {line}]
      /\ UNCHANGED <<outbox, pending, aggregates, nextId>>
  BY DEF PassToNative
<1>2. line \in Lines /\ line.id \notin Internals
  BY IdsApart DEF Lines
<1> HIDE DEF line
<1>3. LinesInv'
  BY <1>1, <1>2 DEF TableInv, LinesInv, Backends
<1>4. Out' = Out
  BY <1>1, <1>2 DEF Out, TableInv, LinesInv, Backends
<1>5. RequestsInv' /\ GroupInv'
  BY <1>1, <1>4 DEF TableInv, RequestsInv, GroupInv
<1>6. QED
  BY <1>3, <1>5 DEF TableInv

\* A new id is the id of no line.
LEMMA NewIds ==
  ASSUME TableInv, NEW n \in nextId..MaxId
  PROVE  /\ InternalId(n) \in Internals /\ InternalId(n) \notin Out
         /\ InternalId(n) \notin DOMAIN pending
         /\ \A b \in Backends : /\ \A x \in inbox[b] : x.id # InternalId(n)
                                /\ \A x \in outbox[b] : x.id # InternalId(n)
<1>1. InternalId(n) \in Internals
  BY DEF Internals, TableInv, RequestsInv
<1>2. InternalId(n) \notin DOMAIN pending
  BY IdsApart, MuxConstants DEF TableInv, RequestsInv
<1>3. QED
  BY <1>1, <1>2 DEF TableInv, RequestsInv, Out

LEMMA PassToGrokTables ==
  ASSUME TableInv, NEW r \in Requests, PassToGrok(r)
  PROVE  TableInv'
<1> DEFINE id    == InternalId(nextId)
           line  == [id |-> id, request |-> r]
           entry == [kind |-> "pass", client |-> r]
<1>1. /\ inbox' = [inbox EXCEPT !["grok"] = @ \cup {line}]
      /\ pending' = Put(pending, id, entry)
      /\ nextId \in 1..MaxId /\ nextId' = nextId + 1
      /\ UNCHANGED <<outbox, aggregates>>
  BY DEF PassToGrok
<1>2. /\ line \in Lines /\ id \in Internals /\ id \notin DOMAIN pending /\ id \notin Out
      /\ \A b \in Backends : /\ \A x \in inbox[b] : x.id # id
                             /\ \A x \in outbox[b] : x.id # id
  BY <1>1, NewIds, MuxConstants DEF Lines
<1>3. /\ DOMAIN pending' = DOMAIN pending \cup {id} /\ pending'[id] = entry
      /\ \A k \in DOMAIN pending : pending'[k] = pending[k]
  BY <1>1, <1>2 DEF Put
<1>4. entry \in Pass /\ entry \notin Half
  BY DEF Pass, Half
<1>5. nextId' \in 1..MaxId + 1 /\ id \in {InternalId(n) : n \in 1..nextId' - 1}
      /\ \A n \in 1..nextId - 1 : n \in 1..nextId' - 1
  BY <1>1, MuxConstants
<1>6. line.id = id
  OBVIOUS
<1> HIDE DEF line, id, entry
<1>7. LinesInv'
  BY <1>1, <1>2, <1>6 DEF TableInv, LinesInv, Backends
<1>8. Out' = Out \cup {id}
  BY <1>1, <1>2, <1>6 DEF Out, TableInv, LinesInv, Backends
<1>9. RequestsInv'
  BY <1>3, <1>4, <1>5, <1>8 DEF TableInv, RequestsInv
<1>10. GroupInv'
  <2>1. DOMAIN aggregates' \subseteq 1..nextId' - 1
    BY <1>1, <1>5 DEF TableInv, GroupInv
  <2>2. QED
    BY <1>1, <1>3, <1>4, <2>1 DEF TableInv, GroupInv
<1>11. QED
  BY <1>7, <1>9, <1>10 DEF TableInv

\* A group takes one id for itself and one for each half.
LEMMA GroupIds ==
  ASSUME TableInv, NEW r \in Requests, NEW kind, NEW backends,
         backends = Backends \/ \E b \in Backends : backends = {b}, AskGroup(r, kind, backends)
  PROVE  /\ nextId' \in nextId + 1..MaxId + 1
         /\ \A b \in backends : /\ b \in Backends
                                /\ HalfIds(nextId, backends)[b] \in {InternalId(n) : n \in nextId + 1..nextId' - 1}
                                /\ HalfIds(nextId, backends)[b] \in {InternalId(n) : n \in nextId..MaxId}
         /\ \A b, c \in backends : HalfIds(nextId, backends)[b] = HalfIds(nextId, backends)[c] => b = c
<1>1. nextId \in Nat /\ nextId' = nextId + 1 + Cardinality(backends)
      /\ nextId + Cardinality(backends) <= MaxId /\ MaxId \in Nat
  BY MuxConstants DEF AskGroup, TableInv, RequestsInv
<1>2. CASE backends = Backends
  <2>1. Cardinality(backends) = 2
    <3>1. Backends = {"native"} \cup {"grok"} /\ "grok" \notin {"native"}
      BY DEF Backends
    <3>2. IsFiniteSet({"native"}) /\ Cardinality({"native"}) = 1
      BY FS_Singleton
    <3>3. Cardinality({"native"} \cup {"grok"}) = 1 + 1
      BY <3>1, <3>2, FS_AddElement
    <3>4. QED
      BY <1>2, <3>1, <3>3
  <2>2. \A b \in Backends : HalfIds(nextId, backends)[b] =
          IF b = "native" THEN InternalId(nextId + 1) ELSE InternalId(nextId + 2)
    BY <1>2 DEF HalfIds
  <2>3. \A b, c \in Backends : HalfIds(nextId, backends)[b] = HalfIds(nextId, backends)[c] => b = c
    BY <1>1, <2>2, IdsApart DEF Backends
  <2>4. nextId + 1 \in nextId + 1..nextId' - 1 /\ nextId + 2 \in nextId + 1..nextId' - 1
        /\ nextId' \in nextId + 1..MaxId + 1
        /\ nextId + 1 \in nextId..MaxId /\ nextId + 2 \in nextId..MaxId
    BY <1>1, <2>1
  <2>5. QED
    BY <1>2, <2>2, <2>3, <2>4
<1>3. CASE \E b \in Backends : backends = {b}
  <2>1. PICK b \in Backends : backends = {b}
    BY <1>3
  <2>2. Cardinality(backends) = 1 /\ backends # Backends
    <3>1. Cardinality(backends) = 1
      BY <2>1, FS_Singleton
    <3>2. "native" \in Backends /\ "grok" \in Backends /\ "native" # "grok"
      BY DEF Backends
    <3>3. QED
      BY <2>1, <3>1, <3>2
  <2>3. HalfIds(nextId, backends)[b] = InternalId(nextId + 1)
    BY <2>1, <2>2 DEF HalfIds
  <2>4. nextId + 1 \in nextId + 1..nextId' - 1 /\ nextId' \in nextId + 1..MaxId + 1
        /\ nextId + 1 \in nextId..MaxId
    BY <1>1, <2>2
  <2>5. QED
    BY <2>1, <2>3, <2>4
<1>4. QED
  BY <1>2, <1>3

LEMMA AskGroupTables ==
  ASSUME TableInv, NEW r \in Requests, NEW kind \in Aggregate, NEW backends,
         backends = Backends \/ \E b \in Backends : backends = {b}, AskGroup(r, kind, backends)
  PROVE  TableInv'
<1> DEFINE ids   == HalfIds(nextId, backends)
           half(b) == [kind |-> "aggregate", group |-> nextId, backend |-> b]
           line(b) == [id |-> ids[b], request |-> r]
           halves == [b \in Backends |-> IF b \in backends THEN NoReply ELSE EmptyPage]
           group == [kind |-> kind, client |-> r, halves |-> halves]
           mine  == {ids[b] : b \in backends}
<1>1. /\ nextId' \in nextId + 1..MaxId + 1
      /\ \A b \in backends : /\ b \in Backends
                             /\ ids[b] \in {InternalId(n) : n \in nextId + 1..nextId' - 1}
                             /\ ids[b] \in {InternalId(n) : n \in nextId..MaxId}
      /\ \A b, c \in backends : ids[b] = ids[c] => b = c
  BY GroupIds
<1>2. /\ aggregates' = Put(aggregates, nextId, group)
      /\ pending' = [id \in DOMAIN pending \cup mine |->
           IF id \in DOMAIN pending THEN pending[id]
           ELSE half(CHOOSE b \in backends : ids[b] = id)]
  BY DEF AskGroup
<1>13. /\ inbox' = [b \in Backends |-> IF b \in backends THEN inbox[b] \cup {line(b)} ELSE inbox[b]]
       /\ outbox' = outbox
  BY DEF AskGroup
<1>3. \A b \in backends :
        /\ ids[b] \in Internals /\ ids[b] \notin Out /\ ids[b] \notin DOMAIN pending
        /\ \A c \in Backends : /\ \A x \in inbox[c] : x.id # ids[b]
                               /\ \A x \in outbox[c] : x.id # ids[b]
  <2> TAKE b \in backends
  <2>1. PICK n \in nextId..MaxId : ids[b] = InternalId(n)
    BY <1>1
  <2> HIDE DEF ids
  <2>2. QED
    BY <2>1, NewIds
<1>4. nextId \notin DOMAIN aggregates /\ \E b \in Backends : b \in backends
  BY MuxConstants DEF TableInv, GroupInv, RequestsInv, Backends
<1>5. /\ DOMAIN pending' = DOMAIN pending \cup mine
      /\ \A id \in DOMAIN pending : pending'[id] = pending[id]
      /\ \A b \in backends : pending'[ids[b]] = half(b)
  <2>1. \A b \in backends : (CHOOSE c \in backends : ids[c] = ids[b]) = b
    BY <1>1
  <2>2. QED
    BY <1>2, <1>3, <2>1
<1>6. /\ DOMAIN aggregates' = DOMAIN aggregates \cup {nextId}
      /\ aggregates'[nextId] = group
      /\ \A g \in DOMAIN aggregates : aggregates'[g] = aggregates[g]
  BY <1>2, <1>4 DEF Put
<1>7. /\ nextId \in Nat /\ nextId' \in 1..MaxId + 1 /\ nextId \in 1..nextId' - 1 /\ nextId \in 1..MaxId
      /\ \A n \in 1..nextId - 1 : n \in 1..nextId' - 1
      /\ \A n \in nextId + 1..nextId' - 1 : n \in 1..nextId' - 1
  BY <1>1, MuxConstants, BeyondUpTo DEF TableInv, RequestsInv
<1>8. LinesInv'
  <2>1. inbox' \in [Backends -> SUBSET Lines]
    BY <1>3, <1>13 DEF TableInv, LinesInv, Lines
  <2>2. ASSUME NEW b \in Backends, NEW x \in inbox'[b]
        PROVE  x \in inbox[b] \/ (b \in backends /\ x = line(b))
    BY <1>13
  <2>3. \A b \in backends : line(b).id = ids[b]
    OBVIOUS
  <2> HIDE DEF line
  <2>4. \A b, c \in Backends : \A x \in inbox'[b], y \in inbox'[c] :
          x.id \in Internals /\ x.id = y.id => b = c /\ x = y
    BY <1>1, <1>3, <2>2, <2>3 DEF TableInv, LinesInv
  <2>5. \A b, c \in Backends : \A x \in inbox'[b], y \in outbox[c] : x.id \in Internals => x.id # y.id
    BY <1>3, <2>2, <2>3 DEF TableInv, LinesInv
  <2>6. QED
    BY <1>13, <2>1, <2>4, <2>5 DEF TableInv, LinesInv
<1>9. Out' = Out \cup mine
  <2>1. \A b \in backends : b \in Backends /\ ids[b] \in Internals /\ line(b).id = ids[b]
    BY <1>1, <1>3
  <2> HIDE DEF line, ids
  <2>2. \A b \in Backends : inbox'[b] = IF b \in backends THEN inbox[b] \cup {line(b)} ELSE inbox[b]
    BY <1>13
  <2>3. Out' \subseteq Out \cup mine
    BY <1>13, <2>1, <2>2 DEF Out
  <2>4. Out \cup mine \subseteq Out'
    BY <1>13, <2>1, <2>2 DEF Out
  <2>5. QED
    BY <2>3, <2>4
<1>10. RequestsInv'
  <2>1. \A b \in backends : half(b) \in Half
    BY <1>1, <1>7 DEF Half
  <2> HIDE DEF half, ids
  <2>2. ASSUME NEW id \in DOMAIN pending'
        PROVE  id \in {InternalId(n) : n \in 1..nextId' - 1} /\ pending'[id] \in Pass \cup Half
    <3>1. CASE id \in DOMAIN pending
      BY <1>5, <1>7, <3>1 DEF TableInv, RequestsInv
    <3>2. CASE id \in mine
      <4>1. PICK b \in backends : id = ids[b]
        BY <3>2
      <4>2. PICK n \in nextId + 1..nextId' - 1 : id = InternalId(n)
        BY <1>1, <4>1
      <4>3. n \in 1..nextId' - 1
        BY <1>7
      <4>4. QED
        BY <1>5, <2>1, <4>1, <4>2, <4>3
    <3>3. QED
      BY <1>5, <3>1, <3>2
  <2>3. DOMAIN pending' = Out'
    BY <1>5, <1>9 DEF TableInv, RequestsInv
  <2>4. QED
    BY <1>7, <2>2, <2>3 DEF RequestsInv
<1>11. GroupInv'
  <2>1. group \in Groups
    BY DEF Groups, EmptyPage, Reply
  <2>2. \A b \in Backends : halves[b] = NoReply <=> b \in backends
    <3>1. EmptyPage \in Reply
      BY DEF EmptyPage, Reply
    <3>2. EmptyPage # NoReply
      BY <3>1, MuxConstants
    <3>3. QED
      BY <3>2
  <2>3. group.halves = halves
    OBVIOUS
  <2>4. \A b \in backends : half(b).group = nextId /\ half(b).backend = b /\ half(b) \in Half
    BY <1>1, <1>7 DEF Half
  <2>5. \A id \in DOMAIN pending : pending[id] \in Half => pending[id].group # nextId
    BY <1>4 DEF TableInv, GroupInv
  <2> HIDE DEF group, halves, ids
  <2>6. DOMAIN aggregates' \subseteq 1..nextId' - 1
    BY <1>6, <1>7 DEF TableInv, GroupInv
  <2>7. ASSUME NEW g \in DOMAIN aggregates'
        PROVE  /\ aggregates'[g] \in Groups
               /\ \E b \in Backends : aggregates'[g].halves[b] = NoReply
               /\ \A b \in Backends : aggregates'[g].halves[b] = NoReply =>
                    \E id \in DOMAIN pending' :
                      pending'[id] = [kind |-> "aggregate", group |-> g, backend |-> b]
    <3>1. CASE g \in DOMAIN aggregates
      BY <1>5, <1>6, <3>1 DEF TableInv, GroupInv
    <3>2. CASE g = nextId
      BY <1>4, <1>5, <1>6, <2>1, <2>2, <2>3, <3>2
    <3>3. QED
      BY <1>6, <3>1, <3>2
  <2> HIDE DEF half
  <2>8. ASSUME NEW id \in DOMAIN pending', pending'[id] \in Half
        PROVE  /\ pending'[id].group \in DOMAIN aggregates'
               /\ aggregates'[pending'[id].group].halves[pending'[id].backend] = NoReply
               /\ \A other \in DOMAIN pending' : pending'[other] = pending'[id] => other = id
    <3>1. CASE id \in DOMAIN pending
      BY <1>5, <1>6, <2>4, <2>5, <2>8, <3>1 DEF TableInv, GroupInv
    <3>2. CASE id \in mine
      <4>1. PICK b \in backends : id = ids[b]
        BY <3>2
      <4>2. QED
        BY <1>1, <1>5, <1>6, <2>2, <2>3, <2>4, <2>5, <4>1
    <3>3. QED
      BY <1>5, <3>1, <3>2
  <2>9. QED
    BY <2>6, <2>7, <2>8 DEF GroupInv
<1>12. QED
  BY <1>8, <1>10, <1>11 DEF TableInv

\* The answer takes the place of the line.
LEMMA ChildAnswersTables ==
  ASSUME TableInv, NEW b \in Backends, NEW r \in Requests, NEW ok \in BOOLEAN, ChildAnswers(b, r, ok)
  PROVE  TableInv'
<1>1. PICK line \in inbox[b] :
        /\ line.request = r
        /\ inbox' = [inbox EXCEPT ![b] = @ \ {line}]
        /\ outbox' = [outbox EXCEPT ![b] = @ \cup
             {[id |-> line.id, reply |-> [ok |-> ok, parts |-> {<<b, r>>}]]}]
        /\ UNCHANGED <<pending, aggregates, nextId>>
  BY DEF ChildAnswers
<1> DEFINE answer == [id |-> line.id, reply |-> [ok |-> ok, parts |-> {<<b, r>>}]]
<1>2. answer \in Answers /\ answer.id = line.id
  <2>1. line.id \in {ClientId(q) : q \in Requests} \cup Internals
    BY DEF TableInv, LinesInv, Lines
  <2>2. [ok |-> ok, parts |-> {<<b, r>>}] \in Reply
    BY DEF Reply, Parts
  <2>3. QED
    BY <2>1, <2>2 DEF Answers
<1>3. outbox' = [outbox EXCEPT ![b] = @ \cup {answer}]
  BY <1>1
<1> HIDE DEF answer
<1>9. inbox \in [Backends -> SUBSET Lines] /\ outbox \in [Backends -> SUBSET Answers]
  BY DEF TableInv, LinesInv
<1>4. \A c \in Backends : /\ \A x \in inbox'[c] : x \in inbox[c] /\ (c = b => x # line)
                          /\ \A x \in outbox'[c] : x \in outbox[c] \/ (c = b /\ x = answer)
  BY <1>1, <1>3, <1>9
<1>5. LinesInv'
  <2>1. inbox' \in [Backends -> SUBSET Lines] /\ outbox' \in [Backends -> SUBSET Answers]
    BY <1>1, <1>2, <1>3 DEF TableInv, LinesInv
  <2>2. \A c, d \in Backends : \A x \in inbox'[c], y \in inbox'[d] :
          x.id \in Internals /\ x.id = y.id => c = d /\ x = y
    BY <1>4 DEF TableInv, LinesInv
  <2>3. \A c, d \in Backends : \A x \in outbox'[c], y \in outbox'[d] :
          x.id \in Internals /\ x.id = y.id => c = d /\ x = y
    BY <1>2, <1>4 DEF TableInv, LinesInv
  <2>4. \A c, d \in Backends : \A x \in inbox'[c], y \in outbox'[d] :
          x.id \in Internals => x.id # y.id
    BY <1>2, <1>4 DEF TableInv, LinesInv
  <2>5. QED
    BY <2>1, <2>2, <2>3, <2>4 DEF LinesInv
<1>6. Out' = Out
  <2>1. \A id \in Internals : (\E c \in Backends : (\E x \in inbox'[c] : x.id = id) \/ \E x \in outbox'[c] : x.id = id)
          => \E c \in Backends : (\E x \in inbox[c] : x.id = id) \/ \E x \in outbox[c] : x.id = id
    BY <1>2, <1>4
  <2>2. \A c \in Backends : \A x \in inbox[c] : x \in inbox'[c] \/ (c = b /\ x = line)
    BY <1>1, <1>9
  <2>3. answer \in outbox'[b] /\ \A c \in Backends : outbox[c] \subseteq outbox'[c]
    BY <1>3 DEF TableInv, LinesInv
  <2>4. QED
    BY <1>2, <2>1, <2>2, <2>3 DEF Out
<1>7. RequestsInv' /\ GroupInv'
  BY <1>1, <1>6 DEF TableInv, RequestsInv, GroupInv
<1>8. QED
  BY <1>5, <1>7 DEF TableInv

\* With an answer goes its id; of the others every line and every id stays.
LEMMA TakenLines ==
  ASSUME TableInv, NEW b \in Backends, NEW answer \in outbox[b],
         outbox' = [outbox EXCEPT ![b] = @ \ {answer}], inbox' = inbox
  PROVE  LinesInv' /\ Out' = Out \ {answer.id}
<1>1. inbox \in [Backends -> SUBSET Lines] /\ outbox \in [Backends -> SUBSET Answers]
  BY DEF TableInv, LinesInv
<1>2. \A c \in Backends : /\ outbox'[c] \subseteq outbox[c]
                          /\ \A x \in outbox[c] : x \in outbox'[c] \/ (c = b /\ x = answer)
  BY <1>1
<1>3. answer \notin outbox'[b]
  BY <1>1
<1>4. LinesInv'
  <2>1. outbox' \in [Backends -> SUBSET Answers]
    BY <1>1
  <2>2. QED
    BY <1>2, <2>1 DEF TableInv, LinesInv
<1>5. \A id \in Out' : id \in Out /\ id # answer.id
  <2>1. \A c \in Backends : \A x \in inbox[c] : x.id \in Internals => x.id # answer.id
    BY DEF TableInv, LinesInv
  <2>2. \A c \in Backends : \A x \in outbox'[c] : x.id \in Internals => x.id # answer.id
    BY <1>2, <1>3 DEF TableInv, LinesInv
  <2>3. QED
    BY <1>2, <2>1, <2>2 DEF Out
<1>6. \A id \in Out : id # answer.id => id \in Out'
  BY <1>2 DEF Out
<1>7. QED
  BY <1>4, <1>5, <1>6

LEMMA TakePassedTables ==
  ASSUME TableInv, NEW b \in Backends, TakePassed(b)
  PROVE  TableInv'
<1>1. PICK answer \in outbox[b] :
        /\ outbox' = [outbox EXCEPT ![b] = @ \ {answer}]
        /\ answer.id \in DOMAIN pending /\ pending[answer.id].kind = "pass"
        /\ pending' = Remove(pending, answer.id)
        /\ UNCHANGED <<inbox, aggregates, nextId>>
  BY DEF TakePassed, Take
<1>2. LinesInv' /\ Out' = Out \ {answer.id}
  BY <1>1, TakenLines
<1>3. /\ DOMAIN pending' = DOMAIN pending \ {answer.id}
      /\ \A id \in DOMAIN pending' : pending'[id] = pending[id]
  BY <1>1 DEF Remove
<1>4. RequestsInv'
  BY <1>1, <1>2, <1>3 DEF TableInv, RequestsInv
<1>5. \A g \in DOMAIN aggregates, c \in Backends :
        pending[answer.id] # [kind |-> "aggregate", group |-> g, backend |-> c]
  BY <1>1
<1>6. GroupInv'
  BY <1>1, <1>3, <1>5 DEF TableInv, GroupInv
<1>7. QED
  BY <1>2, <1>4, <1>6 DEF TableInv

LEMMA TakeUnknownTables ==
  ASSUME TableInv, NEW b \in Backends, TakeUnknown(b)
  PROVE  TableInv'
<1>1. PICK answer \in outbox[b] :
        /\ outbox' = [outbox EXCEPT ![b] = @ \ {answer}] /\ answer.id \notin DOMAIN pending
        /\ UNCHANGED <<inbox, pending, aggregates, nextId>>
  BY DEF TakeUnknown, Take
<1>2. LinesInv' /\ Out' = Out
  BY <1>1, TakenLines DEF TableInv, RequestsInv
<1>3. RequestsInv'
  BY <1>1, <1>2 DEF TableInv, RequestsInv
<1>4. GroupInv'
  BY <1>1 DEF TableInv, GroupInv
<1>5. QED
  BY <1>2, <1>3, <1>4 DEF TableInv

\* The group of a half is there, so the multiplexer does not stop over it; it is finished
\* with its last half and not before.
LEMMA TakeHalfTables ==
  ASSUME TableInv, NEW b \in Backends, TakeHalf(b)
  PROVE  TableInv' /\ up' = up
<1>1. PICK answer \in outbox[b] :
        /\ outbox' = [outbox EXCEPT ![b] = @ \ {answer}]
        /\ answer.id \in DOMAIN pending /\ pending[answer.id].kind = "aggregate"
        /\ pending' = Remove(pending, answer.id)
        /\ IF pending[answer.id].group \in DOMAIN aggregates
             THEN FillHalf(pending[answer.id].group, answer) /\ UNCHANGED up
             ELSE up' = FALSE /\ UNCHANGED <<aggregates, replies>>
        /\ UNCHANGED <<inbox, nextId>>
  BY DEF TakeHalf, Take
<1> DEFINE half   == pending[answer.id]
           g      == half.group
           halves == [aggregates[g].halves EXCEPT ![half.backend] = answer.reply]
<1>2. half \in Half /\ half = [kind |-> "aggregate", group |-> g, backend |-> half.backend]
      /\ half.backend \in Backends
  <2>1. half \in Half
    BY <1>1, Kinds2 DEF TableInv, RequestsInv
  <2>2. QED
    BY <2>1 DEF Half
<1>3. /\ g \in DOMAIN aggregates /\ aggregates[g] \in Groups
      /\ \A other \in DOMAIN pending : pending[other] = half => other = answer.id
  BY <1>1, <1>2 DEF TableInv, GroupInv
<1>4. IF \A c \in Backends : halves[c] # NoReply
        THEN aggregates' = Remove(aggregates, g)
        ELSE aggregates' = Put(aggregates, g, [aggregates[g] EXCEPT !.halves = halves])
  BY <1>1, <1>3 DEF FillHalf
<1>5. LinesInv' /\ Out' = Out \ {answer.id}
  BY <1>1, TakenLines
<1>6. /\ DOMAIN pending' = DOMAIN pending \ {answer.id}
      /\ \A id \in DOMAIN pending' : pending'[id] = pending[id] /\ pending[id] # half
  BY <1>1, <1>3 DEF Remove
<1>7. RequestsInv'
  BY <1>1, <1>5, <1>6 DEF TableInv, RequestsInv
<1>8. /\ aggregates[g].halves \in [Backends -> Reply \cup {NoReply}]
      /\ answer.reply \in Reply /\ answer.reply # NoReply
  BY <1>3, MuxConstants DEF Groups, Answers, TableInv, LinesInv
<1>9. /\ halves \in [Backends -> Reply \cup {NoReply}]
      /\ \A c \in Backends : halves[c] = NoReply <=> (c # half.backend /\ aggregates[g].halves[c] = NoReply)
  BY <1>2, <1>8
<1> HIDE DEF half, g, halves
<1>10. CASE \A c \in Backends : halves[c] # NoReply
  <2>1. /\ DOMAIN aggregates' = DOMAIN aggregates \ {g}
        /\ \A k \in DOMAIN aggregates' : aggregates'[k] = aggregates[k]
    BY <1>4, <1>10 DEF Remove
  <2>2. \A id \in DOMAIN pending' : pending[id] \in Half => pending[id].group # g
    <3> SUFFICES ASSUME NEW id \in DOMAIN pending', pending[id] \in Half, pending[id].group = g
                 PROVE  FALSE
      OBVIOUS
    <3>1. aggregates[g].halves[pending[id].backend] = NoReply /\ pending[id].backend \in Backends
      BY <1>6 DEF TableInv, GroupInv, Half
    <3>2. pending[id].backend = half.backend
      BY <1>9, <1>10, <3>1
    <3>3. pending[id] = half
      BY <1>2, <3>2 DEF Half
    <3>4. QED
      BY <1>6, <3>3
  <2>3. \A k \in DOMAIN aggregates', c \in Backends :
          half # [kind |-> "aggregate", group |-> k, backend |-> c]
    BY <1>2, <2>1
  <2>4. GroupInv'
    BY <1>1, <1>6, <2>1, <2>2, <2>3 DEF TableInv, GroupInv, half
  <2>5. QED
    BY <1>1, <1>3, <1>5, <1>7, <2>4 DEF TableInv, half, g
<1>11. CASE \E c \in Backends : halves[c] = NoReply
  <2> DEFINE group == [aggregates[g] EXCEPT !.halves = halves]
  <2>1. group \in Groups /\ group.halves = halves
    BY <1>3, <1>9 DEF Groups
  <2>2. /\ DOMAIN aggregates' = DOMAIN aggregates
        /\ aggregates'[g] = group
        /\ \A k \in DOMAIN aggregates : k # g => aggregates'[k] = aggregates[k]
    BY <1>3, <1>4, <1>11 DEF Put
  <2> HIDE DEF group
  <2>3. ASSUME NEW k \in DOMAIN aggregates
        PROVE  /\ aggregates'[k] \in Groups
               /\ \E c \in Backends : aggregates'[k].halves[c] = NoReply
               /\ \A c \in Backends : aggregates'[k].halves[c] = NoReply =>
                    \E id \in DOMAIN pending' :
                      pending'[id] = [kind |-> "aggregate", group |-> k, backend |-> c]
    <3>1. \A c \in Backends : aggregates'[k].halves[c] = NoReply =>
            aggregates[k].halves[c] = NoReply /\ half # [kind |-> "aggregate", group |-> k, backend |-> c]
      BY <1>2, <1>9, <2>1, <2>2
    <3>2. \A c \in Backends : aggregates[k].halves[c] = NoReply =>
            \E id \in DOMAIN pending :
              pending[id] = [kind |-> "aggregate", group |-> k, backend |-> c]
      BY DEF TableInv, GroupInv
    <3>3. \A id \in DOMAIN pending : pending[id] # half => id \in DOMAIN pending'
      BY <1>6 DEF half
    <3>4. \A c \in Backends : aggregates'[k].halves[c] = NoReply =>
            \E id \in DOMAIN pending' :
              pending'[id] = [kind |-> "aggregate", group |-> k, backend |-> c]
      BY <1>6, <3>1, <3>2, <3>3
    <3>5. aggregates'[k] \in Groups /\ \E c \in Backends : aggregates'[k].halves[c] = NoReply
      BY <1>11, <2>1, <2>2 DEF TableInv, GroupInv
    <3>6. QED
      BY <3>4, <3>5
  <2>4. ASSUME NEW id \in DOMAIN pending', pending'[id] \in Half
        PROVE  /\ pending'[id].group \in DOMAIN aggregates'
               /\ aggregates'[pending'[id].group].halves[pending'[id].backend] = NoReply
               /\ \A other \in DOMAIN pending' : pending'[other] = pending'[id] => other = id
    <3>1. /\ pending[id].group \in DOMAIN aggregates
          /\ aggregates[pending[id].group].halves[pending[id].backend] = NoReply
          /\ \A other \in DOMAIN pending : pending[other] = pending[id] => other = id
      BY <1>6, <2>4 DEF TableInv, GroupInv
    <3>2. CASE pending[id].group = g
      <4>1. pending[id].backend \in Backends /\ pending[id].backend # half.backend
        BY <1>2, <1>6, <2>4, <3>2 DEF Half
      <4>2. QED
        BY <1>6, <1>9, <2>1, <2>2, <3>1, <3>2, <4>1
    <3>3. CASE pending[id].group # g
      BY <1>6, <2>2, <3>1, <3>3
    <3>4. QED
      BY <3>2, <3>3
  <2>5. GroupInv'
    BY <1>1, <2>2, <2>3, <2>4 DEF TableInv, GroupInv
  <2>6. QED
    BY <1>1, <1>3, <1>5, <1>7, <2>5 DEF TableInv, half, g
<1>12. QED
  BY <1>10, <1>11

LEMMA NextTableInv == TableInv /\ [Next]_vars => TableInv'
<1> SUFFICES ASSUME TableInv, [Next]_vars PROVE TableInv'
  OBVIOUS
<1>1. CASE UNCHANGED <<inbox, outbox, pending, aggregates, nextId>>
  BY <1>1, QuietTables, MuxConstants DEF TableInv, RequestsInv
<1>2. CASE UNCHANGED vars
  BY <1>1, <1>2 DEF vars
<1>3. ASSUME NEW r \in Requests, ClientRequest(r) PROVE TableInv'
  <2>1. ASSUME NEW kind \in Kinds, Reject(r, kind) PROVE TableInv'
    BY <1>1, <2>1 DEF Reject
  <2>2. CASE AskNobody(r)
    <3>1. UNCHANGED <<inbox, outbox, pending, aggregates>> /\ nextId' \in nextId..MaxId + 1
      BY <2>2, MuxConstants DEF AskNobody
    <3>2. QED
      BY <3>1, QuietTables
  <2>3. ASSUME NEW kind \in Aggregate, AskBoth(r, kind) PROVE TableInv'
    BY <2>3, AskGroupTables DEF AskBoth
  <2>4. ASSUME NEW b \in Backends, AskOther(r, b) PROVE TableInv'
    BY <2>4, AskGroupTables DEF AskOther, Aggregate
  <2>5. QED
    BY <1>3, <2>1, <2>2, <2>3, <2>4, PassToNativeTables, PassToGrokTables
       DEF ClientRequest, AskSomebody
<1>4. CASE \E b \in Backends, r \in Requests, ok \in BOOLEAN : ChildAnswers(b, r, ok)
  BY <1>4, ChildAnswersTables
<1>5. CASE \E b \in Backends : ChildLine(b)
  BY <1>5, TakePassedTables, TakeHalfTables, TakeUnknownTables DEF ChildLine
<1>6. CASE ServerRequest
  BY <1>1, <1>6 DEF ServerRequest, ChildAsks, ShowNative, ShowGrok, ClientAnswers, requestVars
<1>7. CASE MuxExits
  BY <1>1, <1>7 DEF MuxExits, requestVars
<1>8. QED
  BY <1>2, <1>3, <1>4, <1>5, <1>6, <1>7 DEF Next

\* No entry of pending or of aggregates is lost or left behind (HybridBridge's two tables).
THEOREM TablesKnowTheLines == Spec => []TablesMatchChildren
<1>1. QED
  BY TablesMatch, InitTableInv, NextTableInv, PTL DEF Spec

-----------------------------------------------------------------------------
(* Each request is answered once, with its own answer. *)

\* The line or the answer under that id, at that child or from it, is about that request.
Serves(b, id, r) ==
  \/ /\ asked[r] = "native" /\ b = "native" /\ id = ClientId(r)
  \/ /\ asked[r] = "grok" /\ id \in DOMAIN pending /\ pending[id] \in Pass
     /\ pending[id].client = r
  \/ /\ asked[r] \in Aggregate /\ id \in DOMAIN pending /\ pending[id] \in Half
     /\ pending[id].backend = b /\ aggregates[pending[id].group].client = r

Open(r) == asked[r] # "unsent" /\ replies[r] = NoReply

UniqueLines ==
  \A b, c \in Backends :
    /\ \A x \in inbox[b], y \in inbox[c] : x.id = y.id => b = c /\ x = y
    /\ \A x \in outbox[b], y \in outbox[c] : x.id = y.id => b = c /\ x = y
    /\ \A x \in inbox[b], y \in outbox[c] : x.id # y.id

\* What is under way is about requests that wait for an answer; what a child refused is known
\* from its answer, from the half it filled, or from the answer the client got.
LineFacts ==
  /\ \A b \in Backends : \A x \in inbox[b] :
       Serves(b, x.id, x.request) /\ Open(x.request) /\ <<b, x.request>> \notin refused
  /\ \A b \in Backends : \A x \in outbox[b] : \E r \in Requests :
       /\ Serves(b, x.id, r) /\ Open(r) /\ x.reply.parts = {<<b, r>>}
       /\ x.reply.ok => <<b, r>> \notin refused

GroupFacts ==
  /\ \A g \in DOMAIN aggregates :
       LET r == aggregates[g].client
       IN  /\ asked[r] \in Aggregate /\ Open(r)
           /\ \A b \in Backends : aggregates[g].halves[b] # NoReply =>
                /\ aggregates[g].halves[b].parts \subseteq {<<b, r>>}
                /\ aggregates[g].halves[b].ok => <<b, r>> \notin refused
  /\ \A g, h \in DOMAIN aggregates : aggregates[g].client = aggregates[h].client => g = h

PassFacts ==
  \A i \in DOMAIN pending : pending[i] \in Pass =>
    /\ asked[pending[i].client] = "grok"
    /\ \A j \in DOMAIN pending : pending[j] = pending[i] => j = i

Known(c, r) ==
  \/ replies[r] # NoReply
  \/ \E x \in outbox[c] : x.reply.parts = {<<c, r>>} /\ ~x.reply.ok
  \/ \E g \in DOMAIN aggregates : /\ aggregates[g].client = r
                                  /\ aggregates[g].halves[c] # NoReply
                                  /\ ~aggregates[g].halves[c].ok

RefusedFacts == \A c \in Backends, r \in Requests : <<c, r>> \in refused =>
  asked[r] # "unsent" /\ Known(c, r)

RequestInv ==
  /\ asked \in [Requests -> Kinds \cup {"unsent"}]
  /\ replies \in [Requests -> Reply \cup {NoReply}]
  /\ \A r \in Requests : asked[r] = "unsent" => replies[r] = NoReply
  /\ UniqueLines /\ LineFacts /\ GroupFacts /\ PassFacts /\ RefusedFacts

LEMMA InitRequestInv == Init => RequestInv
  BY DEF Init, RequestInv, UniqueLines, LineFacts, GroupFacts, PassFacts, RefusedFacts, Nothing

LEMMA KindsDiffer == /\ "native" \notin Aggregate /\ "grok" \notin Aggregate
                     /\ "unsent" \notin Aggregate
  BY DEF Aggregate

\* One line of each child's per request, and one at all unless it is for both.
LEMMA OneServes ==
  ASSUME TableInv, RequestInv, NEW b \in Backends, NEW c \in Backends,
         NEW r \in Requests, NEW i, NEW j, Serves(b, i, r), Serves(c, j, r),
         b = c \/ asked[r] \notin Aggregate
  PROVE  i = j
<1>1. CASE asked[r] = "native"
  BY <1>1, KindsDiffer DEF Serves
<1>2. CASE asked[r] = "grok"
  <2>1. /\ i \in DOMAIN pending /\ pending[i] \in Pass /\ pending[i].client = r
        /\ j \in DOMAIN pending /\ pending[j] \in Pass /\ pending[j].client = r
    BY <1>2, KindsDiffer DEF Serves
  <2>2. pending[i] = pending[j]
    BY <2>1 DEF Pass
  <2>3. QED
    BY <2>1, <2>2 DEF RequestInv, PassFacts
<1>3. CASE asked[r] \in Aggregate
  <2>1. /\ i \in DOMAIN pending /\ pending[i] \in Half /\ aggregates[pending[i].group].client = r
        /\ j \in DOMAIN pending /\ pending[j] \in Half /\ aggregates[pending[j].group].client = r
        /\ pending[i].backend = b /\ pending[j].backend = b
    BY <1>3, KindsDiffer DEF Serves
  <2>2. pending[i].group = pending[j].group
    BY <2>1 DEF TableInv, GroupInv, RequestInv, GroupFacts
  <2>3. pending[i] = pending[j]
    BY <2>1, <2>2 DEF Half
  <2>4. QED
    BY <2>1, <2>3 DEF TableInv, GroupInv
<1>4. QED
  BY <1>1, <1>2, <1>3 DEF Serves

-----------------------------------------------------------------------------
(* Requests that are answered at once, and lines for one child. *)

\* Nothing is about a request that was not sent.
LEMMA NothingUnsent ==
  ASSUME TableInv, RequestInv, NEW r \in Requests, asked[r] = "unsent"
  PROVE  /\ replies[r] = NoReply /\ \A b, id : ~Serves(b, id, r)
         /\ \A c \in Backends : <<c, r>> \notin refused
         /\ \A g \in DOMAIN aggregates : aggregates[g].client # r
         /\ \A i \in DOMAIN pending : pending[i] \in Pass => pending[i].client # r
  BY KindsDiffer DEF RequestInv, Serves, RefusedFacts, GroupFacts, PassFacts

LEMMA AnswerAtOnce ==
  ASSUME TableInv, RequestInv, NEW r \in Requests, asked[r] = "unsent",
         NEW kind \in Kinds, NEW ok \in BOOLEAN,
         asked' = [asked EXCEPT ![r] = kind],
         replies' = [replies EXCEPT ![r] = [ok |-> ok, parts |-> {}]],
         UNCHANGED <<inbox, outbox, pending, aggregates, refused>>
  PROVE  RequestInv' /\ Contract!Reject(r)
<1>1. [ok |-> ok, parts |-> {}] \in Reply
  BY DEF Reply
<1>2. kind # "unsent"
  BY DEF Kinds, Aggregate
<1>3. /\ asked' \in [Requests -> Kinds \cup {"unsent"}]
      /\ replies' \in [Requests -> Reply \cup {NoReply}]
      /\ asked'[r] = kind /\ replies'[r] # NoReply
      /\ \A q \in Requests : q # r => asked'[q] = asked[q] /\ replies'[q] = replies[q]
  BY <1>1, MuxConstants DEF RequestInv
<1>4. \A b, id : \A q \in Requests : Serves(b, id, q) => q # r /\ Serves(b, id, q)'
  BY <1>3, NothingUnsent DEF Serves
<1>5. \A q \in Requests : Open(q) /\ q # r => Open(q)'
  BY <1>3 DEF Open
<1>6. UniqueLines'
  BY DEF RequestInv, UniqueLines
<1>7. LineFacts'
  <2>1. ASSUME NEW b \in Backends, NEW x \in inbox[b]
        PROVE  Serves(b, x.id, x.request)' /\ Open(x.request)' /\ <<b, x.request>> \notin refused
    <3>1. x.request \in Requests
      BY DEF TableInv, LinesInv, Lines
    <3>2. Serves(b, x.id, x.request) /\ Open(x.request) /\ <<b, x.request>> \notin refused
      BY DEF RequestInv, LineFacts
    <3>3. QED
      BY <1>4, <1>5, <3>1, <3>2
  <2>2. ASSUME NEW b \in Backends, NEW x \in outbox[b]
        PROVE  \E q \in Requests :
                 /\ Serves(b, x.id, q)' /\ Open(q)' /\ x.reply.parts = {<<b, q>>}
                 /\ x.reply.ok => <<b, q>> \notin refused
    <3>1. PICK q \in Requests :
            /\ Serves(b, x.id, q) /\ Open(q) /\ x.reply.parts = {<<b, q>>}
            /\ x.reply.ok => <<b, q>> \notin refused
      BY DEF RequestInv, LineFacts
    <3>2. Serves(b, x.id, q)' /\ Open(q)'
      BY <1>4, <1>5, <3>1
    <3>3. QED
      BY <3>1, <3>2
  <2>3. QED
    BY <2>1, <2>2 DEF LineFacts
<1>8. GroupFacts'
  <2>1. \A g \in DOMAIN aggregates : aggregates[g].client \in Requests /\ aggregates[g].client # r
    BY NothingUnsent DEF TableInv, GroupInv, Groups
  <2>2. QED
    BY <1>3, <1>5, <2>1 DEF RequestInv, GroupFacts
<1>9. PassFacts'
  <2>1. \A i \in DOMAIN pending : pending[i] \in Pass => pending[i].client \in Requests \ {r}
    BY NothingUnsent DEF Pass
  <2>2. QED
    BY <1>3, <2>1 DEF RequestInv, PassFacts
<1>10. RefusedFacts'
  BY <1>3, NothingUnsent DEF RequestInv, RefusedFacts, Known
<1>11. RequestInv'
  BY <1>2, <1>3, <1>6, <1>7, <1>8, <1>9, <1>10 DEF RequestInv
<1>12. Contract!Reject(r)
  <2>1. {q \in Requests : asked'[q] # "unsent"} = {q \in Requests : asked[q] # "unsent"} \cup {r}
    BY <1>2, <1>3
  <2>2. QED
    BY <2>1 DEF Contract!Reject
<1>13. QED
  BY <1>11, <1>12

\* A request goes to some children, under ids that no line has; what its lines and its entries
\* say is the same for one child and for both.
SentTo(r, kind, at, ids) ==
  /\ asked[r] = "unsent" /\ asked' = [asked EXCEPT ![r] = kind]
  /\ UNCHANGED <<replies, outbox, refused>>
  /\ inbox' = [b \in Backends |-> IF b \in at THEN inbox[b] \cup {[id |-> ids[b], request |-> r]}
                                              ELSE inbox[b]]
  /\ \A b \in at : \A c \in Backends : /\ \A x \in inbox[c] : x.id # ids[b]
                                       /\ \A x \in outbox[c] : x.id # ids[b]
  /\ \A b, c \in at : ids[b] = ids[c] => b = c
  /\ \A i \in DOMAIN pending : i \in DOMAIN pending' /\ pending'[i] = pending[i]
  /\ \A i \in DOMAIN pending' \ DOMAIN pending : pending'[i] \in Pass =>
       /\ kind = "grok" /\ pending'[i].client = r
       /\ \A j \in DOMAIN pending' \ DOMAIN pending : j = i
  /\ \A g \in DOMAIN aggregates : g \in DOMAIN aggregates' /\ aggregates'[g] = aggregates[g]
  /\ \A g \in DOMAIN aggregates' \ DOMAIN aggregates :
       /\ kind \in Aggregate /\ aggregates'[g].client = r
       /\ \A b \in Backends : aggregates'[g].halves[b] \in {NoReply, EmptyPage}
       /\ \A h \in DOMAIN aggregates' \ DOMAIN aggregates : h = g

LEMMA SendStep ==
  ASSUME TableInv, TableInv', RequestInv, NEW r \in Requests, NEW kind \in Kinds,
         NEW at \in SUBSET Backends, NEW ids, SentTo(r, kind, at, ids),
         \A b \in at : Serves(b, ids[b], r)'
  PROVE  RequestInv' /\ Contract!Send(r)
<1> USE DEF SentTo
<1>1. kind # "unsent"
  BY DEF Kinds, Aggregate
<1>2. /\ asked' \in [Requests -> Kinds \cup {"unsent"}]
      /\ asked'[r] = kind /\ replies'[r] = NoReply /\ replies' = replies
      /\ \A q \in Requests : q # r => asked'[q] = asked[q]
  BY NothingUnsent DEF RequestInv
<1>3. /\ \A c \in Backends : <<c, r>> \notin refused
      /\ \A g \in DOMAIN aggregates : aggregates[g].client \in Requests \ {r}
      /\ \A i \in DOMAIN pending : pending[i] \in Pass => pending[i].client \in Requests \ {r}
  BY NothingUnsent DEF TableInv, GroupInv, Groups, Pass
<1>4. Open(r)' /\ \A q \in Requests : Open(q) => q # r /\ Open(q)'
  BY <1>1, <1>2 DEF Open
<1>5. ASSUME NEW b, NEW id, NEW q \in Requests, Serves(b, id, q)
      PROVE  q # r /\ Serves(b, id, q)'
  <2>1. q # r
    BY <1>5, NothingUnsent
  <2>2. id \in DOMAIN pending /\ pending[id] \in Half => pending[id].group \in DOMAIN aggregates
    BY DEF TableInv, GroupInv
  <2>3. QED
    BY <1>2, <1>5, <2>1, <2>2 DEF Serves
<1>6. \A b \in Backends : \A x \in inbox'[b] :
        \/ x \in inbox[b]
        \/ (b \in at /\ x.id = ids[b] /\ x.request = r)
  OBVIOUS
<1>7. UniqueLines'
  <2>1. \A b, c \in Backends : \A x \in inbox'[b], y \in inbox'[c] : x.id = y.id => b = c /\ x.request = y.request
    BY <1>6 DEF RequestInv, UniqueLines
  <2>2. \A b \in Backends : \A x \in inbox'[b] : x \in Lines
    BY DEF TableInv, LinesInv
  <2>3. \A b, c \in Backends : \A x \in inbox'[b], y \in inbox'[c] : x.id = y.id => b = c /\ x = y
    BY <2>1, <2>2 DEF Lines
  <2>4. \A b, c \in Backends : \A x \in inbox'[b], y \in outbox[c] : x.id # y.id
    BY <1>6 DEF RequestInv, UniqueLines
  <2>5. QED
    BY <2>3, <2>4 DEF RequestInv, UniqueLines
<1>8. LineFacts'
  <2>1. ASSUME NEW b \in Backends, NEW x \in inbox'[b]
        PROVE  (Serves(b, x.id, x.request) /\ Open(x.request))' /\ <<b, x.request>> \notin refused
    <3>1. CASE x \in inbox[b]
      <4>1. x.request \in Requests
        BY <3>1 DEF TableInv, LinesInv, Lines
      <4>2. QED
        BY <1>4, <1>5, <3>1, <4>1 DEF RequestInv, LineFacts
    <3>2. CASE b \in at /\ x.id = ids[b] /\ x.request = r
      BY <1>3, <1>4, <3>2
    <3>3. QED
      BY <1>6, <3>1, <3>2
  <2>2. \A b \in Backends : \A x \in outbox[b] : \E q \in Requests :
          /\ Serves(b, x.id, q)' /\ Open(q)' /\ x.reply.parts = {<<b, q>>}
          /\ x.reply.ok => <<b, q>> \notin refused
    BY <1>4, <1>5 DEF RequestInv, LineFacts
  <2>3. QED
    BY <2>1, <2>2 DEF LineFacts
<1>9. GroupFacts'
  <2>1. ASSUME NEW g \in DOMAIN aggregates', NEW q, q = aggregates'[g].client
        PROVE  /\ asked'[q] \in Aggregate /\ Open(q)'
               /\ \A b \in Backends : aggregates'[g].halves[b] # NoReply =>
                    /\ aggregates'[g].halves[b].parts \subseteq {<<b, q>>}
                    /\ aggregates'[g].halves[b].ok => <<b, q>> \notin refused
    <3>1. CASE g \in DOMAIN aggregates
      BY <1>2, <1>3, <1>4, <2>1, <3>1 DEF RequestInv, GroupFacts
    <3>2. CASE g \notin DOMAIN aggregates
      BY <1>2, <1>3, <1>4, <2>1, <3>2 DEF EmptyPage
    <3>3. QED
      BY <3>1, <3>2
  <2>2. \A g, h \in DOMAIN aggregates' : aggregates'[g].client = aggregates'[h].client => g = h
    BY <1>3 DEF RequestInv, GroupFacts
  <2>3. QED
    BY <2>1, <2>2 DEF GroupFacts
<1>10. PassFacts'
  BY <1>2, <1>3 DEF RequestInv, PassFacts
<1>11. RefusedFacts'
  BY <1>2, <1>3 DEF RequestInv, RefusedFacts, Known
<1>12. RequestInv'
  BY <1>2, <1>1, <1>7, <1>8, <1>9, <1>10, <1>11 DEF RequestInv
<1>13. Contract!Send(r)
  <2>1. {q \in Requests : asked'[q] # "unsent"} = {q \in Requests : asked[q] # "unsent"} \cup {r}
    BY <1>1, <1>2
  <2>2. QED
    BY <2>1 DEF Contract!Send
<1>14. QED
  BY <1>12, <1>13

LEMMA PassToNativeStep ==
  ASSUME TableInv, TableInv', RequestInv, NEW r \in Requests, PassToNative(r)
  PROVE  RequestInv' /\ Contract!Send(r)
<1> DEFINE ids == [b \in Backends |-> ClientId(r)]
<1>1. /\ asked[r] = "unsent" /\ asked' = [asked EXCEPT ![r] = "native"]
      /\ UNCHANGED <<replies, outbox, refused, pending, aggregates>>
      /\ inbox' = [inbox EXCEPT !["native"] = @ \cup {[id |-> ClientId(r), request |-> r]}]
  BY DEF PassToNative, Unsent
<1>2. {"native"} \in SUBSET Backends /\ "native" \in Kinds /\ ids["native"] = ClientId(r)
  BY DEF Backends, Kinds
<1>3. inbox' = [b \in Backends |-> IF b \in {"native"} THEN inbox[b] \cup {[id |-> ids[b], request |-> r]}
                                               ELSE inbox[b]]
  BY <1>1, <1>2 DEF TableInv, LinesInv
<1>4. Serves("native", ids["native"], r)'
  BY <1>1, <1>2 DEF Serves, RequestInv
<1>5. \A b \in Backends, q \in Requests : ~Serves(b, ClientId(r), q)
  BY <1>1, NothingUnsent, IdsApart DEF Serves, ClientId, TableInv, RequestsInv
<1>6. ASSUME NEW c \in Backends
      PROVE  /\ \A x \in inbox[c] : x.id # ClientId(r)
             /\ \A x \in outbox[c] : x.id # ClientId(r)
  <2>1. \A x \in inbox[c] : x.request \in Requests
    BY DEF TableInv, LinesInv, Lines
  <2>2. \A x \in inbox[c] : Serves(c, x.id, x.request)
    BY DEF RequestInv, LineFacts
  <2>3. \A x \in outbox[c] : \E q \in Requests : Serves(c, x.id, q)
    BY DEF RequestInv, LineFacts
  <2>4. QED
    BY <1>5, <2>1, <2>2, <2>3
<1>7. SentTo(r, "native", {"native"}, ids)
  BY <1>1, <1>2, <1>3, <1>6 DEF SentTo
<1>8. QED
  BY <1>2, <1>4, <1>7, SendStep

LEMMA PassToGrokStep ==
  ASSUME TableInv, TableInv', RequestInv, NEW r \in Requests, PassToGrok(r)
  PROVE  RequestInv' /\ Contract!Send(r)
<1>0. PICK id : id = InternalId(nextId)
  OBVIOUS
<1> DEFINE ids   == [b \in Backends |-> id]
           entry == [kind |-> "pass", client |-> r]
<1>1. /\ asked[r] = "unsent" /\ asked' = [asked EXCEPT ![r] = "grok"]
      /\ UNCHANGED <<replies, outbox, refused, aggregates>>
      /\ inbox' = [inbox EXCEPT !["grok"] = @ \cup {[id |-> id, request |-> r]}]
      /\ pending' = Put(pending, id, entry)
      /\ nextId \in nextId..MaxId
  BY <1>0, MuxConstants DEF PassToGrok, Unsent
<1>2. {"grok"} \in SUBSET Backends /\ "grok" \in Kinds /\ ids["grok"] = id
  BY DEF Backends, Kinds
<1>3. inbox' = [b \in Backends |-> IF b \in {"grok"} THEN inbox[b] \cup {[id |-> ids[b], request |-> r]}
                                                     ELSE inbox[b]]
  BY <1>1, <1>2 DEF TableInv, LinesInv
<1>4. /\ id \notin DOMAIN pending
      /\ \A c \in Backends : /\ \A x \in inbox[c] : x.id # id
                             /\ \A x \in outbox[c] : x.id # id
  BY <1>0, <1>1, NewIds
<1>5. /\ DOMAIN pending' = DOMAIN pending \cup {id} /\ pending'[id] = entry
      /\ \A i \in DOMAIN pending : pending'[i] = pending[i]
  BY <1>1, <1>4 DEF Put
<1>6. entry \in Pass /\ entry.client = r
  BY DEF Pass
<1> HIDE DEF ids, entry
<1>7. Serves("grok", id, r)'
  BY <1>1, <1>5, <1>6 DEF Serves, RequestInv
<1>8. SentTo(r, "grok", {"grok"}, ids)
  <2>1. /\ \A b \in {"grok"} : \A c \in Backends : /\ \A x \in inbox[c] : x.id # ids[b]
                                                   /\ \A x \in outbox[c] : x.id # ids[b]
        /\ \A b, c \in {"grok"} : ids[b] = ids[c] => b = c
    BY <1>2, <1>4
  <2>2. /\ \A i \in DOMAIN pending : i \in DOMAIN pending' /\ pending'[i] = pending[i]
        /\ \A i \in DOMAIN pending' \ DOMAIN pending :
             pending'[i].client = r /\ \A j \in DOMAIN pending' \ DOMAIN pending : j = i
    BY <1>5, <1>6
  <2>3. /\ \A g \in DOMAIN aggregates : g \in DOMAIN aggregates' /\ aggregates'[g] = aggregates[g]
        /\ DOMAIN aggregates' \ DOMAIN aggregates = {}
    BY <1>1
  <2>4. asked[r] = "unsent" /\ asked' = [asked EXCEPT ![r] = "grok"] /\ UNCHANGED <<replies, outbox, refused>>
    BY <1>1
  <2>5. QED
    BY <1>3, <2>1, <2>2, <2>3, <2>4 DEF SentTo
<1>9. QED
  BY <1>2, <1>7, <1>8, SendStep

LEMMA AskGroupStep ==
  ASSUME TableInv, TableInv', RequestInv, NEW r \in Requests, NEW kind \in Aggregate, NEW backends,
         backends = Backends \/ \E b \in Backends : backends = {b}, AskGroup(r, kind, backends)
  PROVE  RequestInv' /\ Contract!Send(r)
<1>0. PICK g, ids : g = nextId /\ ids = HalfIds(nextId, backends)
  OBVIOUS
<1> DEFINE half(b) == [kind |-> "aggregate", group |-> g, backend |-> b]
           halves  == [b \in Backends |-> IF b \in backends THEN NoReply ELSE EmptyPage]
           group   == [kind |-> kind, client |-> r, halves |-> halves]
           mine    == {ids[b] : b \in backends}
<1>1. /\ backends \in SUBSET Backends /\ kind \in Kinds
      /\ asked[r] = "unsent" /\ asked' = [asked EXCEPT ![r] = kind]
      /\ UNCHANGED <<replies, outbox, refused>>
  BY DEF AskGroup, Unsent, Kinds
<1>2. /\ aggregates' = Put(aggregates, g, group)
      /\ pending' = [id \in DOMAIN pending \cup mine |->
           IF id \in DOMAIN pending THEN pending[id]
           ELSE half(CHOOSE b \in backends : ids[b] = id)]
  BY <1>0 DEF AskGroup
<1>3. inbox' = [b \in Backends |-> IF b \in backends THEN inbox[b] \cup {[id |-> ids[b], request |-> r]}
                                                     ELSE inbox[b]]
  BY <1>0 DEF AskGroup
<1>4. /\ \A b \in backends : /\ b \in Backends /\ ids[b] \in {InternalId(n) : n \in nextId..MaxId}
      /\ \A b, c \in backends : ids[b] = ids[c] => b = c
  BY <1>0, GroupIds
<1>5. \A b \in backends :
        /\ ids[b] \notin DOMAIN pending
        /\ \A c \in Backends : /\ \A x \in inbox[c] : x.id # ids[b]
                               /\ \A x \in outbox[c] : x.id # ids[b]
  <2> TAKE b \in backends
  <2>1. PICK n \in nextId..MaxId : ids[b] = InternalId(n)
    BY <1>4
  <2>2. QED
    BY <2>1, NewIds
<1>6. g \notin DOMAIN aggregates /\ g \in Nat
  BY <1>0, MuxConstants DEF TableInv, GroupInv, RequestsInv
<1>7. /\ DOMAIN pending' = DOMAIN pending \cup mine
      /\ \A id \in DOMAIN pending : pending'[id] = pending[id]
      /\ \A b \in backends : pending'[ids[b]] = half(b)
  <2>1. \A b \in backends : (CHOOSE c \in backends : ids[c] = ids[b]) = b
    BY <1>4
  <2>2. QED
    BY <1>2, <1>5, <2>1
<1>8. /\ DOMAIN aggregates' = DOMAIN aggregates \cup {g}
      /\ aggregates'[g] = group
      /\ \A k \in DOMAIN aggregates : aggregates'[k] = aggregates[k]
  BY <1>2, <1>6 DEF Put
<1>9. /\ group.client = r
      /\ \A b \in Backends : group.halves[b] \in {NoReply, EmptyPage}
  OBVIOUS
<1>10. \A i \in DOMAIN pending' \ DOMAIN pending : pending'[i] \notin Pass
  <2> TAKE i \in DOMAIN pending' \ DOMAIN pending
  <2>1. PICK b \in backends : i = ids[b]
    BY <1>7
  <2>2. pending'[i] = half(b)
    BY <1>7, <2>1
  <2>3. QED
    BY <2>2 DEF Pass
<1>11. ASSUME NEW b \in backends PROVE Serves(b, ids[b], r)'
  <2>1. asked'[r] = kind
    BY <1>1 DEF RequestInv
  <2>2. /\ ids[b] \in DOMAIN pending' /\ pending'[ids[b]] = half(b)
    BY <1>7
  <2>3. half(b) \in Half /\ half(b).backend = b /\ half(b).group = g
    <3>1. DOMAIN aggregates' \subseteq 1..nextId' - 1 /\ nextId' \in 1..MaxId + 1 /\ MaxId \in Nat
      BY MuxConstants DEF TableInv, GroupInv, RequestsInv
    <3>2. g \in 1..MaxId
      BY <1>8, <3>1
    <3>3. QED
      BY <1>4, <3>2 DEF Half
  <2> HIDE DEF half, group
  <2>4. QED
    BY <1>8, <1>9, <2>1, <2>2, <2>3 DEF Serves
<1> HIDE DEF half, halves, group, mine
<1>12. SentTo(r, kind, backends, ids)
  <2>1. \A k \in DOMAIN aggregates' \ DOMAIN aggregates : k = g
    BY <1>8
  <2>2. QED
    BY <1>1, <1>3, <1>4, <1>5, <1>7, <1>8, <1>9, <1>10, <2>1 DEF SentTo
<1>13. QED
  BY <1>1, <1>11, <1>12, SendStep

-----------------------------------------------------------------------------
(* The children answer. *)

\* A line is the only one of its child that is about its request, and so is an answer.
LEMMA OneLinePerRequest ==
  ASSUME TableInv, RequestInv, NEW b \in Backends, NEW r \in Requests
  PROVE  /\ \A x, y \in inbox[b] : Serves(b, x.id, r) /\ Serves(b, y.id, r) => x = y
         /\ \A x, y \in outbox[b] : Serves(b, x.id, r) /\ Serves(b, y.id, r) => x = y
         /\ \A x \in inbox[b], y \in outbox[b] : ~(Serves(b, x.id, r) /\ Serves(b, y.id, r))
<1>1. \A i, j : Serves(b, i, r) /\ Serves(b, j, r) => i = j
  BY OneServes
<1>2. QED
  BY <1>1 DEF RequestInv, UniqueLines

LEMMA ChildAnswersStep ==
  ASSUME TableInv, TableInv', RequestInv, NEW b \in Backends, NEW r \in Requests, NEW ok \in BOOLEAN,
         ChildAnswers(b, r, ok)
  PROVE  RequestInv' /\ (UNCHANGED Contract!vars \/ Contract!Refuse(b, r))
<1>1. PICK line \in inbox[b] :
        /\ line.request = r
        /\ inbox' = [inbox EXCEPT ![b] = @ \ {line}]
        /\ outbox' = [outbox EXCEPT ![b] = @ \cup
             {[id |-> line.id, reply |-> [ok |-> ok, parts |-> {<<b, r>>}]]}]
        /\ refused' = IF ok THEN refused ELSE refused \cup {<<b, r>>}
        /\ UNCHANGED <<asked, replies, pending, aggregates>>
  BY DEF ChildAnswers
<1> DEFINE answer == [id |-> line.id, reply |-> [ok |-> ok, parts |-> {<<b, r>>}]]
<1>2. /\ answer.id = line.id /\ answer.reply.parts = {<<b, r>>} /\ answer.reply.ok = ok
      /\ outbox' = [outbox EXCEPT ![b] = @ \cup {answer}]
  BY <1>1
<1> HIDE DEF answer
<1>3. inbox \in [Backends -> SUBSET Lines] /\ outbox \in [Backends -> SUBSET Answers]
  BY DEF TableInv, LinesInv
<1>4. \A c \in Backends : /\ \A x \in inbox'[c] : x \in inbox[c] /\ (c = b => x # line)
                          /\ \A x \in outbox'[c] : x \in outbox[c] \/ (c = b /\ x = answer)
                          /\ outbox[c] \subseteq outbox'[c]
  BY <1>1, <1>2, <1>3
<1>5. Serves(b, line.id, r) /\ Open(r) /\ <<b, r>> \notin refused
  BY <1>1 DEF RequestInv, LineFacts
<1>6. /\ \A c, id : \A q \in Requests : Serves(c, id, q)' <=> Serves(c, id, q)
      /\ \A q \in Requests : Open(q)' <=> Open(q)
  BY <1>1 DEF Serves, Open
<1>7. \A c \in Backends, q \in Requests : <<c, q>> \in refused' =>
        <<c, q>> \in refused \/ (c = b /\ q = r /\ ~ok)
  BY <1>1
<1>8. UniqueLines'
  <2>1. \A c, d \in Backends : \A x \in inbox'[c], y \in inbox'[d] : x.id = y.id => c = d /\ x = y
    BY <1>4 DEF RequestInv, UniqueLines
  <2>2. \A c, d \in Backends : \A x \in outbox'[c], y \in outbox'[d] : x.id = y.id => c = d /\ x = y
    BY <1>2, <1>4 DEF RequestInv, UniqueLines
  <2>3. \A c, d \in Backends : \A x \in inbox'[c], y \in outbox'[d] : x.id # y.id
    BY <1>2, <1>4 DEF RequestInv, UniqueLines
  <2>4. QED
    BY <2>1, <2>2, <2>3 DEF UniqueLines
<1>9. LineFacts'
  <2>1. ASSUME NEW c \in Backends, NEW x \in inbox'[c]
        PROVE  (Serves(c, x.id, x.request) /\ Open(x.request))' /\ <<c, x.request>> \notin refused'
    <3>1. /\ x \in inbox[c] /\ x.request \in Requests
          /\ Serves(c, x.id, x.request) /\ Open(x.request) /\ <<c, x.request>> \notin refused
      BY <1>4 DEF TableInv, LinesInv, Lines, RequestInv, LineFacts
    <3>2. ~(c = b /\ x.request = r)
      BY <1>4, <1>5, <3>1, OneLinePerRequest
    <3>3. QED
      BY <1>6, <1>7, <3>1, <3>2
  <2>2. ASSUME NEW c \in Backends, NEW x \in outbox'[c]
        PROVE  \E q \in Requests :
                 /\ (Serves(c, x.id, q) /\ Open(q))' /\ x.reply.parts = {<<c, q>>}
                 /\ x.reply.ok => <<c, q>> \notin refused'
    <3>1. CASE x \in outbox[c]
      <4>1. PICK q \in Requests :
              /\ Serves(c, x.id, q) /\ Open(q) /\ x.reply.parts = {<<c, q>>}
              /\ x.reply.ok => <<c, q>> \notin refused
        BY <3>1 DEF RequestInv, LineFacts
      <4>2. ~(c = b /\ q = r)
        BY <1>5, <3>1, <4>1, OneLinePerRequest
      <4>3. QED
        BY <1>6, <1>7, <4>1, <4>2
    <3>2. CASE c = b /\ x = answer
      BY <1>1, <1>2, <1>5, <1>6, <3>2
    <3>3. QED
      BY <1>4, <3>1, <3>2
  <2>3. QED
    BY <2>1, <2>2 DEF LineFacts
<1>10. GroupFacts'
  <2>1. \A g \in DOMAIN aggregates : aggregates[g].client = r => aggregates[g].halves[b] = NoReply
    BY <1>5, KindsDiffer DEF RequestInv, GroupFacts, Serves, TableInv, GroupInv
  <2>2. \A g \in DOMAIN aggregates : aggregates[g].client \in Requests
    BY DEF TableInv, GroupInv, Groups
  <2>3. QED
    BY <1>1, <1>6, <1>7, <2>1, <2>2 DEF RequestInv, GroupFacts
<1>11. PassFacts'
  BY <1>1 DEF RequestInv, PassFacts
<1>12. RefusedFacts'
  <2>1. \A c \in Backends, q \in Requests : Known(c, q) => Known(c, q)'
    BY <1>1, <1>4 DEF Known
  <2>2. ~ok => Known(b, r)'
    BY <1>2, <1>3 DEF Known
  <2>3. QED
    BY <1>1, <1>5, <1>7, <2>1, <2>2 DEF RequestInv, RefusedFacts, Open
<1>13. RequestInv'
  BY <1>1, <1>8, <1>9, <1>10, <1>11, <1>12 DEF RequestInv
<1>14. UNCHANGED Contract!vars \/ Contract!Refuse(b, r)
  BY <1>1, <1>5 DEF Open, Contract!vars, Contract!Refuse
<1>15. QED
  BY <1>13, <1>14

-----------------------------------------------------------------------------
(* The answers are taken. *)

\* What is about a request for one child is about no other.
LEMMA OneRequest ==
  ASSUME TableInv, RequestInv, NEW b \in Backends, NEW q \in Requests, NEW r \in Requests, NEW id,
         Serves(b, id, q), Serves(b, id, r)
  PROVE  q = r
<1>1. \A m, n : ClientId(m) = ClientId(n) => m = n
  BY DEF ClientId
<1>2. ClientId(q) \notin DOMAIN pending /\ ClientId(r) \notin DOMAIN pending
  BY IdsApart DEF TableInv, RequestsInv, Out
<1>3. id \in DOMAIN pending => ~(pending[id] \in Pass /\ pending[id] \in Half)
  BY Kinds2
<1>4. QED
  BY <1>1, <1>2, <1>3 DEF Serves

\* An answer is taken that was all there was about its request: the client gets the reply.
\* What else is known of that request goes with it.
Answered(b, r, answer, reply) ==
  /\ Serves(b, answer.id, r) /\ Open(r)
  /\ outbox' = [outbox EXCEPT ![b] = @ \ {answer}]
  /\ replies' = [replies EXCEPT ![r] = reply]
  /\ reply.parts \subseteq Backends \X {r}
  /\ reply.ok => \A c \in Backends : <<c, r>> \notin refused
  /\ UNCHANGED <<asked, inbox, refused>>
  /\ \A c \in Backends : /\ \A x \in inbox[c] : ~Serves(c, x.id, r)
                         /\ \A x \in outbox'[c] : ~Serves(c, x.id, r)
  /\ \A i \in DOMAIN pending' : i \in DOMAIN pending /\ pending'[i] = pending[i]
  /\ \A i \in DOMAIN pending : i # answer.id => i \in DOMAIN pending'
  /\ \A g \in DOMAIN aggregates' : /\ g \in DOMAIN aggregates /\ aggregates'[g] = aggregates[g]
                                   /\ aggregates[g].client # r
  /\ \A g \in DOMAIN aggregates : aggregates[g].client # r => g \in DOMAIN aggregates'

LEMMA ReplyStep ==
  ASSUME TableInv, TableInv', RequestInv, NEW b \in Backends, NEW r \in Requests,
         NEW answer \in outbox[b], NEW reply \in Reply, Answered(b, r, answer, reply)
  PROVE  RequestInv' /\ Contract!Reply(r)
<1> USE DEF Answered
<1>1. /\ replies' \in [Requests -> Reply \cup {NoReply}] /\ replies'[r] = reply /\ reply # NoReply
      /\ \A q \in Requests : q # r => replies'[q] = replies[q]
  BY MuxConstants DEF RequestInv
<1>2. outbox \in [Backends -> SUBSET Answers]
  BY DEF TableInv, LinesInv
<1>3. \A c \in Backends : /\ outbox'[c] \subseteq outbox[c]
                          /\ \A x \in outbox[c] : x \in outbox'[c] \/ (c = b /\ x = answer)
  BY <1>2
<1>4. answer.reply.parts = {<<b, r>>}
  <2>1. PICK q \in Requests : Serves(b, answer.id, q) /\ answer.reply.parts = {<<b, q>>}
    BY DEF RequestInv, LineFacts
  <2>2. q = r
    BY <2>1, OneRequest
  <2>3. QED
    BY <2>1, <2>2
<1>5. ASSUME NEW c \in Backends, NEW x, x \in inbox[c] \/ x \in outbox'[c],
             NEW q \in Requests, Serves(c, x.id, q), Open(q)
      PROVE  (Serves(c, x.id, q) /\ Open(q))'
  <2>1. q # r
    BY <1>5
  <2>2. x.id # answer.id
    BY <1>3, <1>5, <1>2 DEF RequestInv, UniqueLines
  <2>3. Open(q)'
    BY <1>1, <1>5, <2>1 DEF Open
  <2>4. Serves(c, x.id, q)'
    <3>1. CASE asked[q] = "native"
      BY <1>5, <3>1, KindsDiffer DEF Serves
    <3>2. CASE asked[q] = "grok"
      BY <1>5, <2>2, <3>2, KindsDiffer DEF Serves
    <3>3. CASE asked[q] \in Aggregate
      <4>1. /\ x.id \in DOMAIN pending /\ pending[x.id] \in Half /\ pending[x.id].backend = c
            /\ aggregates[pending[x.id].group].client = q
        BY <1>5, <3>3, KindsDiffer DEF Serves
      <4>2. pending[x.id].group \in DOMAIN aggregates
        BY <4>1 DEF TableInv, GroupInv
      <4>3. pending[x.id].group \in DOMAIN aggregates' /\ x.id \in DOMAIN pending'
        BY <2>1, <2>2, <4>1, <4>2
      <4>4. QED
        BY <3>3, <4>1, <4>3 DEF Serves
    <3>4. QED
      BY <1>5, <3>1, <3>2, <3>3 DEF Serves
  <2>5. QED
    BY <2>3, <2>4
<1>6. UniqueLines'
  BY <1>2, <1>3 DEF RequestInv, UniqueLines
<1>7. LineFacts'
  <2>1. ASSUME NEW c \in Backends, NEW x \in inbox'[c]
        PROVE  (Serves(c, x.id, x.request) /\ Open(x.request))' /\ <<c, x.request>> \notin refused'
    <3>1. x.request \in Requests
      BY DEF TableInv, LinesInv, Lines
    <3>2. Serves(c, x.id, x.request) /\ Open(x.request) /\ <<c, x.request>> \notin refused
      BY DEF RequestInv, LineFacts
    <3>3. QED
      BY <1>5, <3>1, <3>2
  <2>2. ASSUME NEW c \in Backends, NEW x \in outbox'[c]
        PROVE  \E q \in Requests :
                 /\ (Serves(c, x.id, q) /\ Open(q))' /\ x.reply.parts = {<<c, q>>}
                 /\ x.reply.ok => <<c, q>> \notin refused'
    <3>1. PICK q \in Requests :
            /\ Serves(c, x.id, q) /\ Open(q) /\ x.reply.parts = {<<c, q>>}
            /\ x.reply.ok => <<c, q>> \notin refused
      BY <1>3 DEF RequestInv, LineFacts
    <3>2. QED
      BY <1>5, <3>1
  <2>3. QED
    BY <2>1, <2>2 DEF LineFacts
<1>8. GroupFacts'
  <2>1. \A g \in DOMAIN aggregates' : aggregates[g].client \in Requests \ {r}
    BY DEF TableInv, GroupInv, Groups
  <2>2. QED
    BY <1>1, <2>1 DEF RequestInv, GroupFacts, Open
<1>9. PassFacts'
  BY DEF RequestInv, PassFacts
<1>10. RefusedFacts'
  <2>1. ASSUME NEW c \in Backends, NEW q \in Requests, Known(c, q) PROVE Known(c, q)'
    <3>1. CASE q = r
      BY <1>1, <3>1 DEF Known
    <3>2. CASE q # r
      <4>1. \A x \in outbox[c] : x.reply.parts = {<<c, q>>} => x \in outbox'[c]
        <5>1. <<c, q>> \notin {<<b, r>>} /\ <<c, q>> \in {<<c, q>>}
          BY <3>2
        <5>2. {<<c, q>>} # {<<b, r>>}
          BY <5>1
        <5>3. QED
          BY <1>3, <1>4, <5>2
      <4>2. QED
        BY <1>1, <2>1, <3>2, <4>1 DEF Known
    <3>3. QED
      BY <3>1, <3>2
  <2>2. QED
    BY <2>1 DEF RequestInv, RefusedFacts
<1>11. RequestInv'
  BY <1>1, <1>6, <1>7, <1>8, <1>9, <1>10 DEF RequestInv, Open
<1>12. Contract!Reply(r)
  <2>1. reply \in Contract!Replies(r)
    BY DEF Reply, Contract!Replies
  <2>2. QED
    BY <2>1 DEF Open, Contract!Reply
<1>13. QED
  BY <1>11, <1>12

\* A request for one child has one line; nothing is under way about it once that is taken,
\* and if it is a result, nobody refused.
LEMMA OnlyAnswer ==
  ASSUME TableInv, RequestInv, NEW b \in Backends, NEW r \in Requests, NEW answer \in outbox[b],
         Serves(b, answer.id, r), asked[r] \notin Aggregate,
         outbox' = [outbox EXCEPT ![b] = @ \ {answer}]
  PROVE  /\ \A c \in Backends : /\ \A x \in inbox[c] : ~Serves(c, x.id, r)
                                /\ \A x \in outbox'[c] : ~Serves(c, x.id, r)
         /\ answer.reply \in Reply /\ Open(r) /\ answer.reply.parts = {<<b, r>>}
         /\ answer.reply.ok => \A c \in Backends : <<c, r>> \notin refused
<1>1. outbox \in [Backends -> SUBSET Answers]
  BY DEF TableInv, LinesInv
<1>2. \A c \in Backends : outbox'[c] \subseteq outbox[c] /\ (c = b => answer \notin outbox'[c])
  BY <1>1
<1>3. \A c \in Backends : \A id : Serves(c, id, r) => id = answer.id
  BY OneServes
<1>4. PICK q \in Requests : /\ Serves(b, answer.id, q) /\ Open(q) /\ answer.reply.parts = {<<b, q>>}
                            /\ answer.reply.ok => <<b, q>> \notin refused
  BY DEF RequestInv, LineFacts
<1>5. q = r
  BY <1>4, OneRequest
<1>6. \A c \in Backends : /\ \A x \in inbox[c] : x.id # answer.id
                          /\ \A x \in outbox'[c] : x.id # answer.id
                          /\ \A x \in outbox[c] : x.id = answer.id => x = answer /\ c = b
  BY <1>2 DEF RequestInv, UniqueLines
<1>7. ASSUME NEW c \in Backends, <<c, r>> \in refused PROVE ~answer.reply.ok
  <2>1. Known(c, r) /\ replies[r] = NoReply
    BY <1>4, <1>5, <1>7 DEF RequestInv, RefusedFacts, Open
  <2>2. \A g \in DOMAIN aggregates : aggregates[g].client # r
    BY DEF RequestInv, GroupFacts
  <2>3. PICK x \in outbox[c] : x.reply.parts = {<<c, r>>} /\ ~x.reply.ok
    BY <2>1, <2>2 DEF Known
  <2>4. PICK p \in Requests : Serves(c, x.id, p) /\ x.reply.parts = {<<c, p>>}
    BY DEF RequestInv, LineFacts
  <2>5. p = r
    <3>1. <<c, p>> \in {<<c, r>>}
      BY <2>3, <2>4
    <3>2. QED
      BY <3>1
  <2>6. QED
    BY <1>3, <1>6, <2>3, <2>4, <2>5
<1>8. answer.reply \in Reply
  BY <1>1 DEF Answers
<1>9. QED
  BY <1>3, <1>4, <1>5, <1>6, <1>7, <1>8

LEMMA TakePassedStep ==
  ASSUME TableInv, TableInv', RequestInv, NEW b \in Backends, TakePassed(b)
  PROVE  RequestInv' /\ \E r \in Requests : Contract!Reply(r)
<1>1. PICK answer \in outbox[b] :
        /\ outbox' = [outbox EXCEPT ![b] = @ \ {answer}]
        /\ answer.id \in DOMAIN pending /\ pending[answer.id].kind = "pass"
        /\ pending' = Remove(pending, answer.id)
        /\ replies' = [replies EXCEPT ![pending[answer.id].client] = answer.reply]
        /\ UNCHANGED <<asked, inbox, aggregates, refused>>
  BY DEF TakePassed, Take
<1>2. PICK r \in Requests : r = pending[answer.id].client
  BY <1>1, Kinds2 DEF TableInv, RequestsInv, Pass
<1>3. pending[answer.id] \in Pass /\ asked[r] = "grok" /\ Serves(b, answer.id, r)
  BY <1>1, <1>2, Kinds2 DEF TableInv, RequestsInv, RequestInv, PassFacts, Serves
<1>4. /\ \A c \in Backends : /\ \A x \in inbox[c] : ~Serves(c, x.id, r)
                             /\ \A x \in outbox'[c] : ~Serves(c, x.id, r)
      /\ answer.reply \in Reply /\ Open(r) /\ answer.reply.parts = {<<b, r>>}
      /\ answer.reply.ok => \A c \in Backends : <<c, r>> \notin refused
  BY <1>1, <1>3, OnlyAnswer, KindsDiffer
<1>5. /\ DOMAIN pending' = DOMAIN pending \ {answer.id}
      /\ \A i \in DOMAIN pending' : pending'[i] = pending[i]
  BY <1>1 DEF Remove
<1>6. \A g \in DOMAIN aggregates : aggregates[g].client # r
  BY <1>3, KindsDiffer DEF RequestInv, GroupFacts
<1>7. answer.reply.parts \subseteq Backends \X {r}
  BY <1>4
<1>8. Answered(b, r, answer, answer.reply)
  BY <1>1, <1>2, <1>3, <1>4, <1>5, <1>6, <1>7 DEF Answered
<1>9. QED
  BY <1>4, <1>8, ReplyStep

LEMMA TakeUnknownStep ==
  ASSUME TableInv, TableInv', RequestInv, NEW b \in Backends, TakeUnknown(b)
  PROVE  RequestInv' /\ \E r \in Requests : Contract!Reply(r)
<1>1. PICK answer \in outbox[b] :
        /\ outbox' = [outbox EXCEPT ![b] = @ \ {answer}]
        /\ answer.id \notin DOMAIN pending
        /\ replies' = [r \in Requests |-> IF answer.id = ClientId(r) THEN answer.reply ELSE replies[r]]
        /\ UNCHANGED <<asked, inbox, pending, aggregates, refused>>
  BY DEF TakeUnknown, Take
<1>2. PICK r \in Requests : Serves(b, answer.id, r)
  BY DEF RequestInv, LineFacts
<1>3. asked[r] = "native" /\ answer.id = ClientId(r)
  BY <1>1, <1>2 DEF Serves
<1>4. /\ \A c \in Backends : /\ \A x \in inbox[c] : ~Serves(c, x.id, r)
                             /\ \A x \in outbox'[c] : ~Serves(c, x.id, r)
      /\ answer.reply \in Reply /\ Open(r) /\ answer.reply.parts = {<<b, r>>}
      /\ answer.reply.ok => \A c \in Backends : <<c, r>> \notin refused
  BY <1>1, <1>2, <1>3, OnlyAnswer, KindsDiffer
<1>5. replies' = [replies EXCEPT ![r] = answer.reply]
  <2>1. \A q \in Requests : answer.id = ClientId(q) <=> q = r
    BY <1>3 DEF ClientId
  <2>2. QED
    BY <1>1, <2>1 DEF RequestInv
<1>6. \A g \in DOMAIN aggregates : aggregates[g].client # r
  BY <1>3, KindsDiffer DEF RequestInv, GroupFacts
<1>7. answer.reply.parts \subseteq Backends \X {r}
  BY <1>4
<1>8. Answered(b, r, answer, answer.reply)
  BY <1>1, <1>2, <1>4, <1>5, <1>6, <1>7 DEF Answered
<1>9. QED
  BY <1>4, <1>8, ReplyStep

\* The half is written into its group, and what it says of refusals with it; the last one
\* finishes the group, and no line about the request is left.
LEMMA TakeHalfStep ==
  ASSUME TableInv, TableInv', RequestInv, NEW b \in Backends, TakeHalf(b)
  PROVE  RequestInv' /\ (UNCHANGED Contract!vars \/ \E r \in Requests : Contract!Reply(r))
<1>1. PICK answer \in outbox[b] :
        /\ outbox' = [outbox EXCEPT ![b] = @ \ {answer}]
        /\ answer.id \in DOMAIN pending /\ pending[answer.id].kind = "aggregate"
        /\ pending' = Remove(pending, answer.id)
        /\ IF pending[answer.id].group \in DOMAIN aggregates
             THEN FillHalf(pending[answer.id].group, answer) /\ UNCHANGED up
             ELSE up' = FALSE /\ UNCHANGED <<aggregates, replies>>
        /\ UNCHANGED <<asked, inbox, refused>>
  BY DEF TakeHalf, Take
<1>2. PICK r \in Requests : /\ Serves(b, answer.id, r) /\ Open(r) /\ answer.reply.parts = {<<b, r>>}
                            /\ answer.reply.ok => <<b, r>> \notin refused
  BY DEF RequestInv, LineFacts
<1>3. PICK g, old : g = pending[answer.id].group /\ old = aggregates[g]
  OBVIOUS
<1>4. /\ asked[r] \in Aggregate /\ pending[answer.id] \in Half
      /\ pending[answer.id].backend = b /\ old.client = r
  <2>1. ClientId(r) \notin DOMAIN pending
    BY IdsApart DEF TableInv, RequestsInv, Out
  <2>2. pending[answer.id] \notin Pass
    BY <1>1, Kinds2
  <2>3. QED
    BY <1>1, <1>2, <1>3, <2>1, <2>2 DEF Serves
<1>5. g \in DOMAIN aggregates /\ old \in Groups
  BY <1>1, <1>3, <1>4 DEF TableInv, GroupInv
<1> DEFINE halves == [old.halves EXCEPT ![b] = answer.reply]
<1>6. IF \A c \in Backends : halves[c] # NoReply
        THEN /\ aggregates' = Remove(aggregates, g)
             /\ replies' = [replies EXCEPT ![r] =
                  FinishAggregate(old.kind, halves["native"], halves["grok"])]
        ELSE /\ aggregates' = Put(aggregates, g, [old EXCEPT !.halves = halves])
             /\ UNCHANGED replies
  BY <1>1, <1>3, <1>4, <1>5 DEF FillHalf
<1>7. outbox \in [Backends -> SUBSET Answers]
  BY DEF TableInv, LinesInv
<1>8. /\ \A c \in Backends : /\ outbox'[c] \subseteq outbox[c] /\ (c = b => answer \notin outbox'[c])
                             /\ \A x \in outbox[c] : x \in outbox'[c] \/ (c = b /\ x = answer)
      /\ answer.reply \in Reply /\ answer.reply # NoReply
  BY <1>1, <1>7, MuxConstants DEF Answers
<1>9. /\ old.halves \in [Backends -> Reply \cup {NoReply}]
      /\ halves \in [Backends -> Reply \cup {NoReply}]
      /\ halves[b] = answer.reply /\ \A c \in Backends : c # b => halves[c] = old.halves[c]
  BY <1>5, <1>8 DEF Groups
<1>10. \A c \in Backends : halves[c] # NoReply =>
         halves[c].parts \subseteq {<<c, r>>} /\ (halves[c].ok => <<c, r>> \notin refused)
  <2> TAKE c \in Backends
  <2>1. CASE c = b
    BY <1>2, <1>9, <2>1
  <2>2. CASE c # b
    BY <1>3, <1>4, <1>5, <1>9, <2>2 DEF RequestInv, GroupFacts
  <2>3. QED
    BY <2>1, <2>2
<1>11. /\ DOMAIN pending' = DOMAIN pending \ {answer.id}
       /\ \A i \in DOMAIN pending' : pending'[i] = pending[i]
  BY <1>1 DEF Remove
<1>12. \A c \in Backends : /\ \A x \in inbox[c] : x.id # answer.id
                           /\ \A x \in outbox'[c] : x.id # answer.id
  BY <1>8 DEF RequestInv, UniqueLines
<1>13. \A k \in DOMAIN aggregates : aggregates[k].client = r => k = g
  BY <1>3, <1>4, <1>5 DEF RequestInv, GroupFacts
<1> HIDE DEF halves
<1>14. CASE \A c \in Backends : halves[c] # NoReply
  <2> DEFINE reply == FinishAggregate(old.kind, halves["native"], halves["grok"])
  <2>1. "native" \in Backends /\ "grok" \in Backends /\ \A c \in Backends : c = "native" \/ c = "grok"
    BY DEF Backends
  <2>2. halves["native"] \in Reply /\ halves["grok"] \in Reply
    BY <1>9, <1>14, <2>1
  <2>3. /\ reply \in Reply
        /\ reply.parts \subseteq halves["native"].parts \cup halves["grok"].parts
        /\ reply.ok => halves["native"].ok /\ halves["grok"].ok
    BY <2>2 DEF FinishAggregate, Reply
  <2> HIDE DEF reply
  <2>4. reply.parts \subseteq Backends \X {r}
    <3>1. \A c \in Backends : halves[c].parts \subseteq {<<c, r>>}
      BY <1>10, <1>14
    <3>2. reply.parts \subseteq {<<"native", r>>} \cup {<<"grok", r>>}
      BY <2>1, <2>3, <3>1
    <3>3. <<"native", r>> \in Backends \X {r} /\ <<"grok", r>> \in Backends \X {r}
      BY <2>1
    <3>4. QED
      BY <3>2, <3>3
  <2>5. reply.ok => \A c \in Backends : <<c, r>> \notin refused
    BY <1>10, <1>14, <2>1, <2>3
  <2>6. ASSUME NEW c \in Backends, NEW id, Serves(c, id, r) PROVE id = answer.id
    <3>1. /\ id \in DOMAIN pending /\ pending[id] \in Half /\ pending[id].backend = c
          /\ aggregates[pending[id].group].client = r
      BY <1>4, <2>6, KindsDiffer DEF Serves
    <3>2. pending[id].group = g /\ old.halves[c] = NoReply
      BY <1>3, <1>13, <3>1 DEF TableInv, GroupInv
    <3>3. c = b
      BY <1>9, <1>14, <3>2
    <3>4. QED
      BY <1>2, <2>6, <3>3, OneServes
  <2>7. /\ DOMAIN aggregates' = DOMAIN aggregates \ {g}
        /\ \A k \in DOMAIN aggregates' : aggregates'[k] = aggregates[k]
        /\ replies' = [replies EXCEPT ![r] = reply]
    BY <1>6, <1>14 DEF Remove, reply
  <2>8. \A c \in Backends : /\ \A x \in inbox[c] : ~Serves(c, x.id, r)
                            /\ \A x \in outbox'[c] : ~Serves(c, x.id, r)
    BY <1>12, <2>6
  <2>9. aggregates[g].client = r
    BY <1>3, <1>4
  <2>10. Answered(b, r, answer, reply)
    BY <1>1, <1>2, <1>11, <1>13, <2>4, <2>5, <2>7, <2>8, <2>9 DEF Answered
  <2>11. QED
    BY <2>3, <2>10, ReplyStep
<1>15. CASE \E c \in Backends : halves[c] = NoReply
  <2> DEFINE group == [old EXCEPT !.halves = halves]
  <2>1. group.client = r /\ group.halves = halves
    BY <1>4, <1>5 DEF Groups
  <2>2. /\ DOMAIN aggregates' = DOMAIN aggregates
        /\ aggregates'[g] = group
        /\ \A k \in DOMAIN aggregates : k # g => aggregates'[k] = aggregates[k]
        /\ replies' = replies
    BY <1>5, <1>6, <1>15 DEF Put
  <2> HIDE DEF group
  <2>3. \A k \in DOMAIN aggregates : aggregates'[k].client = aggregates[k].client
    BY <1>3, <1>4, <2>1, <2>2
  <2>4. ASSUME NEW c, NEW id, NEW q, Serves(c, id, q), id # answer.id
        PROVE  Serves(c, id, q)'
    <3>1. id \in DOMAIN pending => id \in DOMAIN pending' /\ pending'[id] = pending[id]
      BY <1>11, <2>4
    <3>2. id \in DOMAIN pending /\ pending[id] \in Half => pending[id].group \in DOMAIN aggregates
      BY DEF TableInv, GroupInv
    <3>3. QED
      BY <1>1, <2>3, <2>4, <3>1, <3>2 DEF Serves
  <2>5. \A q : Open(q) => Open(q)'
    BY <1>1, <2>2 DEF Open
  <2>6. UniqueLines'
    BY <1>1, <1>8 DEF RequestInv, UniqueLines
  <2>7. LineFacts'
    <3>1. \A c \in Backends : \A x \in inbox[c] :
            Serves(c, x.id, x.request)' /\ Open(x.request)' /\ <<c, x.request>> \notin refused
      BY <1>12, <2>4, <2>5 DEF RequestInv, LineFacts
    <3>2. \A c \in Backends : \A x \in outbox'[c] : \E q \in Requests :
            /\ Serves(c, x.id, q)' /\ Open(q)' /\ x.reply.parts = {<<c, q>>}
            /\ x.reply.ok => <<c, q>> \notin refused
      BY <1>8, <1>12, <2>4, <2>5 DEF RequestInv, LineFacts
    <3>3. QED
      BY <1>1, <3>1, <3>2 DEF LineFacts
  <2>8. GroupFacts'
    <3>1. ASSUME NEW k \in DOMAIN aggregates, NEW q, q = aggregates'[k].client
          PROVE  /\ asked[q] \in Aggregate /\ Open(q)'
                 /\ \A c \in Backends : aggregates'[k].halves[c] # NoReply =>
                      /\ aggregates'[k].halves[c].parts \subseteq {<<c, q>>}
                      /\ aggregates'[k].halves[c].ok => <<c, q>> \notin refused
      <4>1. CASE k = g
        BY <1>2, <1>4, <1>10, <2>1, <2>2, <2>5, <3>1, <4>1
      <4>2. CASE k # g
        BY <2>2, <2>5, <3>1, <4>2 DEF RequestInv, GroupFacts
      <4>3. QED
        BY <4>1, <4>2
    <3>2. \A h, k \in DOMAIN aggregates' : aggregates'[h].client = aggregates'[k].client => h = k
      BY <2>2, <2>3 DEF RequestInv, GroupFacts
    <3>3. QED
      BY <1>1, <2>2, <3>1, <3>2 DEF GroupFacts
  <2>9. PassFacts'
    BY <1>1, <1>11 DEF RequestInv, PassFacts
  <2>10. RefusedFacts'
    <3>1. ASSUME NEW c \in Backends, NEW q \in Requests, Known(c, q) PROVE Known(c, q)'
      <4>1. CASE replies[q] # NoReply
        BY <2>2, <4>1 DEF Known
      <4>2. ASSUME NEW x \in outbox[c], x.reply.parts = {<<c, q>>}, ~x.reply.ok PROVE Known(c, q)'
        <5>1. CASE x \in outbox'[c]
          BY <4>2, <5>1 DEF Known
        <5>2. CASE c = b /\ x = answer
          <6>1. <<c, q>> \in {<<b, r>>}
            BY <1>2, <4>2, <5>2
          <6>2. q = r
            BY <6>1
          <6>3. /\ g \in DOMAIN aggregates' /\ aggregates'[g].client = r
                /\ aggregates'[g].halves[c] # NoReply /\ ~aggregates'[g].halves[c].ok
            BY <1>5, <1>8, <1>9, <2>1, <2>2, <4>2, <5>2
          <6>4. QED
            BY <6>2, <6>3 DEF Known
        <5>3. QED
          BY <1>8, <5>1, <5>2
      <4>3. ASSUME NEW k \in DOMAIN aggregates, aggregates[k].client = q,
                   aggregates[k].halves[c] # NoReply, ~aggregates[k].halves[c].ok
            PROVE  Known(c, q)'
        <5>1. CASE k # g
          BY <2>2, <4>3, <5>1 DEF Known
        <5>2. CASE k = g
          <6>1. old.halves[b] = NoReply
            BY <1>1, <1>3, <1>4 DEF TableInv, GroupInv
          <6>2. c # b
            BY <1>3, <4>3, <5>2, <6>1
          <6>3. aggregates'[k].halves[c] = aggregates[k].halves[c]
            BY <1>3, <1>9, <2>1, <2>2, <5>2, <6>2
          <6>4. QED
            BY <2>2, <2>3, <4>3, <6>3 DEF Known
        <5>3. QED
          BY <5>1, <5>2
      <4>4. QED
        BY <3>1, <4>1, <4>2, <4>3 DEF Known
    <3>2. QED
      BY <1>1, <3>1 DEF RequestInv, RefusedFacts
  <2>11. RequestInv'
    BY <1>1, <2>2, <2>6, <2>7, <2>8, <2>9, <2>10 DEF RequestInv
  <2>12. UNCHANGED Contract!vars
    BY <1>1, <2>2 DEF Contract!vars
  <2>13. QED
    BY <2>11, <2>12
<1>16. QED
  BY <1>14, <1>15

-----------------------------------------------------------------------------
LEMMA NextRequestInv ==
  ASSUME TableInv, TableInv', RequestInv, [Next]_vars
  PROVE  RequestInv' /\ [Contract!Next]_Contract!vars
<1> SUFFICES RequestInv' /\ (Contract!Next \/ UNCHANGED Contract!vars)
  OBVIOUS
<1>1. CASE UNCHANGED <<asked, replies, inbox, outbox, pending, aggregates, refused>>
  <2>1. /\ \A b, id, r : Serves(b, id, r)' <=> Serves(b, id, r)
        /\ \A r : Open(r)' <=> Open(r)
        /\ \A c, r : Known(c, r)' <=> Known(c, r)
    BY <1>1 DEF Serves, Open, Known
  <2>2. UniqueLines' /\ PassFacts' /\ RefusedFacts'
    BY <1>1, <2>1 DEF RequestInv, UniqueLines, PassFacts, RefusedFacts
  <2>3. LineFacts'
    BY <1>1, <2>1 DEF RequestInv, LineFacts
  <2>4. GroupFacts'
    BY <1>1, <2>1 DEF RequestInv, GroupFacts
  <2>5. QED
    BY <1>1, <2>2, <2>3, <2>4 DEF RequestInv, Contract!vars
<1>2. CASE UNCHANGED vars
  BY <1>1, <1>2 DEF vars
<1>3. ASSUME NEW r \in Requests, ClientRequest(r)
      PROVE  RequestInv' /\ (Contract!Reject(r) \/ Contract!Send(r))
  <2>1. ASSUME NEW kind \in Kinds, Reject(r, kind) PROVE RequestInv' /\ Contract!Reject(r)
    BY <2>1, AnswerAtOnce DEF Reject, Unsent
  <2>2. ASSUME AskNobody(r) PROVE RequestInv' /\ Contract!Reject(r)
    <3>1. "threads" \in Kinds
      BY DEF Kinds, Aggregate
    <3>2. QED
      BY <2>2, <3>1, AnswerAtOnce DEF AskNobody, Unsent, EmptyPage
  <2>3. ASSUME NEW kind \in Aggregate, AskBoth(r, kind) PROVE RequestInv' /\ Contract!Send(r)
    BY <2>3, AskGroupStep DEF AskBoth
  <2>4. ASSUME NEW b \in Backends, AskOther(r, b) PROVE RequestInv' /\ Contract!Send(r)
    BY <2>4, AskGroupStep DEF AskOther, Aggregate
  <2>5. QED
    BY <1>3, <2>1, <2>2, <2>3, <2>4, PassToNativeStep, PassToGrokStep DEF ClientRequest, AskSomebody
<1>4. ASSUME NEW b \in Backends, NEW r \in Requests, NEW ok \in BOOLEAN, ChildAnswers(b, r, ok)
      PROVE  RequestInv' /\ (Contract!Next \/ UNCHANGED Contract!vars)
  BY <1>4, ChildAnswersStep DEF Contract!Next
<1>5. ASSUME NEW b \in Backends, ChildLine(b)
      PROVE  RequestInv' /\ (Contract!Next \/ UNCHANGED Contract!vars)
  BY <1>5, TakePassedStep, TakeHalfStep, TakeUnknownStep DEF ChildLine, Contract!Next
<1>6. CASE ServerRequest
  BY <1>1, <1>6 DEF ServerRequest, ChildAsks, ShowNative, ShowGrok, ClientAnswers, requestVars
<1>7. CASE MuxExits
  BY <1>1, <1>7 DEF MuxExits, requestVars
<1>8. QED
  BY <1>2, <1>3, <1>4, <1>5, <1>6, <1>7 DEF Next, Contract!Next

\* Whatever the order of the children's lines, each request is answered at most once, with the
\* answer to it, and with success only if no backend that was asked had failed
\* (handle_child_line, finish_aggregate): HybridMux implements Dialogue.
THEOREM DialogueImplemented == Spec => ImplementsDialogue
<1>1. Init => Contract!Init
  BY DEF Init, Contract!Init
<1>2. QED
  BY <1>1, InitTableInv, NextTableInv, InitRequestInv, NextRequestInv, PTL
     DEF Spec, ImplementsDialogue, Contract!Spec
=============================================================================
