------------------------------ MODULE TokenUse ------------------------------
(***************************************************************************)
(* The tokens a thread has used, as TokenUsageInfo adds them up            *)
(* (crates/protocol/src/protocol.rs) and thread/tokenUsage/updated tells   *)
(* them (app-server-protocol/src/protocol/v2.rs).  Each answer of the      *)
(* model reports what it used; one that no longer fits fills the window.   *)
(* Who reports is the core of Codex, and external.                         *)
(***************************************************************************)
EXTENDS Integers, Sequences, FiniteSets, Functions

CONSTANTS
  Usages,        \* what one answer may report
  Windows,       \* the context windows of the models
  BaselineTokens,\* BASELINE_TOKENS
  NoUsage, NoWindow, NoInfo,
  MaxReports     \* bound: reports and fills

Fields == {"input", "cached", "output", "reasoning", "total"}
Usage  == [Fields -> Int]
Infos  == [total : Usage, last : Usage, window : Windows \cup {NoWindow}]

ASSUME UseConstants ==
  /\ Usages \subseteq Usage /\ Windows \subseteq Nat /\ BaselineTokens \in Nat
  /\ NoUsage \notin Usages /\ NoWindow \notin Windows /\ NoInfo \notin Infos
  /\ MaxReports \in Nat

VARIABLES
  info,      \* TokenUsageInfo, or none yet
  told,      \* the last update the client got
  reported,  \* for the properties: what was reported since the window was last full
  fullAt,    \* and the size of that window, 0 if it never was
  reports

vars == <<info, told, reported, fullAt, reports>>

Zero == [f \in Fields |-> 0]

TypeOK ==
  /\ info \in Infos \cup {NoInfo}
  /\ told = NoInfo <=> info = NoInfo
  /\ info # NoInfo /\ fullAt # 0 => info.window # NoWindow
  /\ reported \in Usage /\ fullAt \in Windows \cup {0} /\ reports \in 0..MaxReports

-----------------------------------------------------------------------------

\* add_assign
Sum(a, b) == [f \in Fields |-> a[f] + b[f]]

AppendLast(i, last) == [i EXCEPT !.total = Sum(i.total, last), !.last = last]

New(window) == [total |-> Zero, last |-> Zero, window |-> window]

NewOrAppend(i, last, window) ==
  LET known    == IF i = NoInfo THEN New(window) ELSE i
      appended == IF last = NoUsage THEN known ELSE AppendLast(known, last)
  IN  IF i = NoInfo /\ last = NoUsage THEN NoInfo
      ELSE IF window = NoWindow THEN appended ELSE [appended EXCEPT !.window = window]

OnlyTotal(n) == [Zero EXCEPT !["total"] = n]
AtLeast0(n)  == IF n < 0 THEN 0 ELSE n

\* mistake: what was missing is taken for what there is
FillSwapped(i, window) ==
  [total |-> OnlyTotal(AtLeast0(window - i.total["total"])),
   last |-> OnlyTotal(window), window |-> window]

FillToContextWindow(i, window) ==
  [total |-> OnlyTotal(window),
   last |-> OnlyTotal(AtLeast0(window - i.total["total"])), window |-> window]

FullContextWindow(window) == FillToContextWindow(New(window), window)

\* ThreadTokenUsage::from
\* mistake: the last report for the total
ThreadTokenUsageLast(i) == IF i = NoInfo THEN NoInfo ELSE [i EXCEPT !.total = i.last]
ThreadTokenUsage(i)     == i

-----------------------------------------------------------------------------
(* What the counts come to. *)

NonCachedInput(u) == AtLeast0(u["input"] - AtLeast0(u["cached"]))

BlendedTotal(u)     == AtLeast0(NonCachedInput(u) + AtLeast0(u["output"]))

\* Of the window that the user has, which is what the baseline leaves; rounded.
PercentRemaining(u, window) ==
  LET effective == window - BaselineTokens
      remaining == AtLeast0(effective - AtLeast0(u["total"] - BaselineTokens))
  IN  IF window <= BaselineTokens THEN 0 ELSE (200 * remaining + effective) \div (2 * effective)

-----------------------------------------------------------------------------

Init ==
  /\ info = NoInfo /\ told = NoInfo
  /\ reported = Zero /\ fullAt = 0 /\ reports = 0

Counted == reports < MaxReports /\ reports' = reports + 1
Tell    == told' = ThreadTokenUsage(info')

\* An answer, or only news of the limits: then there is no usage.
Report(last, window) ==
  /\ Counted
  /\ info' = NewOrAppend(info, last, window)
  /\ reported' = IF last = NoUsage THEN reported ELSE [f \in Fields |-> reported[f] + last[f]]
  /\ Tell
  /\ UNCHANGED fullAt

\* The request did not fit.
Exceeded(window) ==
  /\ Counted
  /\ info' = IF info = NoInfo THEN FullContextWindow(window) ELSE FillToContextWindow(info, window)
  /\ reported' = Zero /\ fullAt' = window
  /\ Tell

Next == \/ \E last \in Usages \cup {NoUsage}, window \in Windows \cup {NoWindow} : Report(last, window)
        \/ \E window \in Windows : Exceeded(window)

Spec == Init /\ [][Next]_vars

-----------------------------------------------------------------------------
(* Properties. *)

\* The client is told, field by field, what all answers since the window was last full
\* used, on top of that window; nothing is lost or counted twice when an update brings
\* no usage or another model (protocol.rs:1490-1516).
TotalsAddUp ==
  told # NoInfo =>
    \A f \in Fields : told.total[f] = reported[f] + IF f = "total" THEN fullAt ELSE 0

\* While the window stays the same, no update raises what is left of it: neither an
\* answer nor the fill that comes when less was counted than was used
\* (protocol.rs:1518-1536, 1608-1631).
PercentOnlyFalls ==
  [][/\ info # NoInfo /\ info'.window = info.window /\ info.window # NoWindow
     => PercentRemaining(info'.total, info.window) <= PercentRemaining(info.total, info.window)]_info

\* Nothing is left of a window once a request did not fit into it, however many answers
\* follow; all of it is left as long as no more than the baseline is used, of every window
\* that is larger (protocol.rs:1611-1618).
PercentSpansTheWindow ==
  info # NoInfo /\ info.window # NoWindow =>
    LET left == PercentRemaining(info.total, info.window)
    IN  /\ left \in 0..100
        /\ fullAt = info.window => left = 0
        /\ info.window > BaselineTokens /\ info.total["total"] <= BaselineTokens => left = 100

\* Tokens read from the cache cost nothing: the one number shown is never more than the
\* answers used without them, and never less than what they put out
\* (protocol.rs:1596-1603).
BlendedIsInBounds ==
  info # NoInfo => BlendedTotal(info.total) \in
    reported["output"] .. (reported["output"] + AtLeast0(reported["input"] - reported["cached"]))
=============================================================================
