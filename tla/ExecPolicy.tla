----------------------------- MODULE ExecPolicy -----------------------------
(***************************************************************************)
(* Rules that say which commands may run, and the file approvals are       *)
(* added to (crates/execpolicy/src).                                       *)
(*                                                                         *)
(* Policy files are sequences of prefix_rule calls.  A process loads them  *)
(* all, and judges a command by the strictest of the rules it matches.     *)
(* When the user approves a prefix for good the process appends a rule to  *)
(* the last file, under a lock, and adds it to the policy it holds (the    *)
(* caller that does both is external).  Several processes share the file.  *)
(*                                                                         *)
(* A line of the file is the sequence of the calls that stand on it: one   *)
(* when nothing went wrong.  A line goes out in a single write.            *)
(***************************************************************************)
EXTENDS Naturals, Sequences

CONSTANTS
  Processes,
  Words,       \* the tokens of commands
  Commands,    \* the commands that are judged
  Approvable,  \* the prefixes users approve
  Calls,       \* the calls users write
  BaseFiles,   \* what the files before the last may hold: sets of calls
  LastFiles,   \* what the last may hold: its lines, and whether the last of them is ended
  Nobody, NoPolicy

Decisions == {"allow", "prompt", "forbidden"}

AllowCall(x) == [pattern |-> [i \in DOMAIN x |-> {x[i]}], decision |-> "allow",
                 match |-> {}, not_match |-> {}]

AllCalls == Calls \cup {AllowCall(x) : x \in Approvable}

ASSUME PolicyConstants ==
  /\ Nobody \notin Processes
  /\ Commands \subseteq Seq(Words) \ {<<>>}
  /\ Approvable \subseteq Seq(Words)
  /\ \A c \in Calls : c.decision \in Decisions
  /\ BaseFiles \subseteq SUBSET Calls
  /\ LastFiles \subseteq [lines : Seq(Seq(AllCalls)), ended : BOOLEAN]
  /\ \A f \in LastFiles :
       /\ f.lines = <<>> => f.ended
       /\ \A i, j \in DOMAIN f.lines : f.lines[i] = f.lines[j] => i = j

VARIABLES
  base,     \* the calls of the files before the last
  dir,      \* whether the directory of the last file is there
  lines,    \* the lines of the last file
  ended,    \* whether its last line has its newline
  lock,     \* who holds the lock on it
  pc,       \* where each process is in blocking_append_allow_prefix_rule
  prefix,   \* what it appends
  seen,     \* the contents it has read
  policy    \* the rules it holds, once it has loaded them

file == <<lines, ended>>
policyVars == <<base, dir, lines, ended, lock, pc, prefix, seen, policy>>

-----------------------------------------------------------------------------
(* Judging a command. *)

Severity(d) == CASE d = "allow" -> 0 [] d = "prompt" -> 1 [] d = "forbidden" -> 2

\* PrefixPattern::matches_prefix; the rest of a pattern is a sequence of sets of words.
PrefixMatches(rule, cmd) ==
  /\ Len(cmd) > Len(rule.rest)
  /\ cmd[1] = rule.first
  /\ \A i \in DOMAIN rule.rest : cmd[i + 1] \in rule.rest[i]

Matching(rules, cmd) == {r \in rules : PrefixMatches(r, cmd)}

\* The decisions of matches_for_command; h is what the heuristics say of cmd.
MatchesForCommand(rules, cmd, h) ==
  IF Matching(rules, cmd) = {} THEN {h} ELSE {r.decision : r \in Matching(rules, cmd)}

Strictest(decisions) == CHOOSE d \in decisions : \A e \in decisions : Severity(d) >= Severity(e)

Check(rules, cmd, h) == Strictest(MatchesForCommand(rules, cmd, h))

CheckMultiple(rules, cmds, h) ==
  Strictest(UNION {MatchesForCommand(rules, c, h[c]) : c \in cmds})

-----------------------------------------------------------------------------
(* Loading the files. *)

\* prefix_rule: a rule for each alternative of the first token.
RulesOf(call) ==
  {[first |-> w, rest |-> Tail(call.pattern), decision |-> call.decision] : w \in call.pattern[1]}

ExamplesHold(call) ==
  /\ \A e \in call.match : \E r \in RulesOf(call) : PrefixMatches(r, e)
  /\ \A e \in call.not_match, r \in RulesOf(call) : ~PrefixMatches(r, e)

Evaluates(call) == /\ call.pattern # <<>>
                   /\ \A i \in DOMAIN call.pattern : call.pattern[i] # {}
                   /\ ExamplesHold(call)

\* Two calls on one line are no statement.
Parses(line) == Len(line) = 1 /\ Evaluates(line[1])

LoadedCalls == base \cup {lines[i][1] : i \in DOMAIN lines}

\* load_policies takes no lock; one call that fails loses them all.
Load(p) ==
  /\ pc[p] = "idle" /\ policy[p] = NoPolicy
  /\ \A c \in base : Evaluates(c)
  /\ \A i \in DOMAIN lines : Parses(lines[i])
  /\ policy' = [policy EXCEPT ![p] = UNION {RulesOf(c) : c \in LoadedCalls}]
  /\ UNCHANGED <<base, dir, file, lock, pc, prefix, seen>>

-----------------------------------------------------------------------------
(* Appending a rule. *)

Goto(p, step) == pc' = [pc EXCEPT ![p] = step]

Approve(p, x) ==
  /\ pc[p] = "idle" /\ policy[p] # NoPolicy /\ x # <<>>
  /\ prefix' = [prefix EXCEPT ![p] = x]
  /\ Goto(p, "dir")
  /\ UNCHANGED <<base, dir, file, lock, seen, policy>>

CreateDir(p) ==
  /\ pc[p] = "dir"
  /\ dir' = TRUE /\ Goto(p, "open")
  /\ UNCHANGED <<base, file, lock, prefix, seen, policy>>

\* mistake: the lock is shared
ShareLock(p) ==
  /\ pc[p] = "open"
  /\ lock' = p /\ Goto(p, "read")
  /\ UNCHANGED <<base, dir, file, prefix, seen, policy>>
Lock(p) ==
  /\ pc[p] = "open" /\ lock = Nobody
  /\ lock' = p /\ Goto(p, "read")
  /\ UNCHANGED <<base, dir, file, prefix, seen, policy>>

ReadAll(p) ==
  /\ pc[p] = "read"
  /\ seen' = [seen EXCEPT ![p] = file]
  /\ Goto(p, "compare")
  /\ UNCHANGED <<base, dir, file, lock, prefix, policy>>

Has(contents, x) == \E i \in DOMAIN contents[1] : contents[1][i] = <<AllowCall(x)>>

\* Ok(()) closes the file, which releases the lock.
Close(p) == lock' = IF lock = p THEN Nobody ELSE lock

FoundThere(p) ==
  /\ pc[p] = "compare" /\ Has(seen[p], prefix[p])
  /\ Goto(p, "appended") /\ Close(p)
  /\ UNCHANGED <<base, dir, file, prefix, seen, policy>>

\* mistake: the rule runs into a line that was not ended
EndNoLine(p) ==
  /\ pc[p] = "compare" /\ ~Has(seen[p], prefix[p])
  /\ Goto(p, "write")
  /\ UNCHANGED <<base, dir, file, lock, prefix, seen, policy>>
EndLine(p) ==
  /\ pc[p] = "compare" /\ ~Has(seen[p], prefix[p])
  /\ ended' = (ended \/ (seen[p][1] # <<>> /\ ~seen[p][2]))
  /\ Goto(p, "write")
  /\ UNCHANGED <<base, dir, lines, lock, prefix, seen, policy>>

WriteLine(p) ==
  /\ pc[p] = "write"
  /\ LET n == Len(lines)
         c == AllowCall(prefix[p])
     IN lines' = IF ended THEN Append(lines, <<c>>) ELSE [lines EXCEPT ![n] = Append(@, c)]
  /\ ended' = TRUE
  /\ Goto(p, "appended") /\ Close(p)
  /\ UNCHANGED <<base, dir, prefix, seen, policy>>

\* add_prefix_rule
AddToPolicy(p) ==
  /\ pc[p] = "appended"
  /\ policy' = [policy EXCEPT ![p] = @ \cup RulesOf(AllowCall(prefix[p]))]
  /\ Goto(p, "idle")
  /\ UNCHANGED <<base, dir, file, lock, prefix, seen>>

\* mistake: the caller goes on as if the rule were there
FailsUnseen(p) ==
  /\ pc[p] \in {"dir", "open", "read", "compare", "write"}
  /\ Goto(p, "appended") /\ Close(p)
  /\ UNCHANGED <<base, dir, file, prefix, seen, policy>>

\* An error of create_dir, open, lock, seek, read or write is returned, and the rule is
\* not added.  The file is closed; a newline written before stays.
Fails(p) ==
  /\ \/ pc[p] = "dir" /\ ~dir
     \/ pc[p] \in {"open", "read", "write"}
     \/ pc[p] = "compare" /\ ~Has(seen[p], prefix[p]) /\ seen[p][1] # <<>> /\ ~seen[p][2]
  /\ Goto(p, "idle") /\ Close(p)
  /\ UNCHANGED <<base, dir, file, prefix, seen, policy>>

\* A process ends, anywhere; the system closes its file.
Exit(p) ==
  /\ policy[p] # NoPolicy
  /\ policy' = [policy EXCEPT ![p] = NoPolicy]
  /\ Goto(p, "idle") /\ Close(p)
  /\ UNCHANGED <<base, dir, file, prefix, seen>>

-----------------------------------------------------------------------------

PolicyInit ==
  /\ base \in BaseFiles
  /\ \E f \in LastFiles : /\ lines = f.lines /\ ended = f.ended
                          /\ dir \in {TRUE} \cup {f.lines # <<>>}
  /\ lock = Nobody
  /\ pc = [p \in Processes |-> "idle"]
  /\ prefix = [p \in Processes |-> <<>>]
  /\ seen = [p \in Processes |-> <<<<>>, TRUE>>]
  /\ policy = [p \in Processes |-> NoPolicy]

PolicyNext == \E p \in Processes :
  \/ Load(p) \/ \E x \in Approvable : Approve(p, x)
  \/ CreateDir(p) \/ Lock(p) \/ ReadAll(p) \/ FoundThere(p) \/ EndLine(p) \/ WriteLine(p)
  \/ AddToPolicy(p) \/ Fails(p) \/ Exit(p)

PolicySpec == PolicyInit /\ [][PolicyNext]_policyVars

-----------------------------------------------------------------------------
(* Properties. *)

\* Approving the same prefix twice, here or in another process, gives one line
\* (append_locked_line compares under the lock).
AppendedOnce ==
  \A x \in Approvable, i, j \in DOMAIN lines :
    lines[i] = <<AllowCall(x)>> /\ lines[j] = <<AllowCall(x)>> => i = j

\* A rule never runs into the line before it, nor is one that cannot be loaded
\* written: what loads before an approval loads after it.
StillLoads == [][
  (\A i \in DOMAIN lines : Parses(lines[i])) => \A i \in DOMAIN lines' : Parses(lines'[i])]_policyVars

\* Who is not appending holds no lock, however its approval ended: nobody waits for a
\* process that failed or is gone.
LockIsGivenBack == \A p \in Processes : lock = p => pc[p] \in {"read", "compare", "write"}

\* The policy a process goes on with decides as the one it would load again: what others
\* have appended changes no decision of a rule it holds, and an approval that failed, at
\* any of its steps, leaves it no rule that the file has not.
MemoryIsFile ==
  \A p \in Processes : policy[p] # NoPolicy =>
    LET reloaded == UNION {RulesOf(c) : c \in LoadedCalls}
    IN \A c \in Commands, h \in Decisions :
         /\ Matching(policy[p], c) # {} => Check(policy[p], c, h) = Check(reloaded, c, h)
         /\ pc[p] = "idle" => policy[p] \subseteq reloaded

\* What a call gives as an example of a match is judged at least as strictly
\* as the call says, whatever other files say (README.md:30).
ExamplesMatch ==
  \A p \in Processes : policy[p] # NoPolicy =>
    \A call \in LoadedCalls : \A e \in call.match, h \in Decisions :
      Severity(Check(policy[p], e, h)) >= Severity(call.decision)

\* Of several commands the strictest counts, each judged by itself: one that
\* rules allow does not carry along one that only the heuristics know.
EachCommandCounts ==
  \A p \in Processes : policy[p] # NoPolicy =>
    \A c, d \in Commands : \A h \in [{c, d} -> Decisions] :
      CheckMultiple(policy[p], {c, d}, h) =
        Strictest({Check(policy[p], c, h[c]), Check(policy[p], d, h[d])})
=============================================================================
