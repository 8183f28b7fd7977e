---------------------------- MODULE BaselineDiff ----------------------------
(***************************************************************************)
(* diff_baseline of sessionscope-core (baseline.rs): the findings of a     *)
(* baseline file against those of a current report, in three passes.       *)
(* Findings are matched by id, the baseline findings that are left by      *)
(* fingerprint, and the current findings that are left are new.            *)
(*                                                                         *)
(* `matched_baseline` and `matched_current` hold ids, and so does          *)
(* `current_by_id`: the passes take ids to be unique.  Nothing enforces    *)
(* it, neither the classifier nor the reader of the two files, so lists    *)
(* with a repeated id are among the inputs.                                *)
(*                                                                         *)
(* A change names its findings by their indices, 0 for none; the order in  *)
(* which changes are listed is left out.                                   *)
(***************************************************************************)
EXTENDS Integers, Sequences, FiniteSets

CONSTANTS
    Prints,         \* fingerprints, semantic and evidence taken together
    Places,         \* source locations
    Inputs          \* lists of findings a file may hold

Finding == [id : Nat, print : Prints, places : SUBSET Places]

ASSUME DiffAssumption ==
    /\ Prints \subseteq Nat
    /\ Inputs \subseteq Seq(Finding)

VARIABLES
    baseline,           \* baseline.findings
    current,            \* current_baseline.findings
    matched_baseline,   \* ids
    matched_current,    \* ids
    changes,
    pass,
    i                   \* index of the loop of the pass

vars == <<baseline, current, matched_baseline, matched_current, changes, pass, i>>

Kind == {"new", "unchanged", "changed", "moved", "resolved"}
Change == [kind : Kind, baseline : Nat, current : Nat]

BaselineIndex == 1..Len(baseline)
CurrentIndex == 1..Len(current)

-----------------------------------------------------------------------------
\* sort_baseline_findings, at the end of create_baseline.
InOrder(s) ==
    \A k, l \in 1..Len(s) : k < l =>
        \/ s[k].id < s[l].id
        \/ s[k].id = s[l].id /\ s[k].print <= s[l].print

\* current_by_id: of several findings with one id the map keeps the last.
IsCurrentById(id, c) ==
    /\ current[c].id = id
    /\ \A k \in CurrentIndex : current[k].id = id => k <= c

\* Slip: the last finding is left out.
AllButLastIds == {current[k].id : k \in 1..(Len(current) - 1)}

CurrentIds == {current[k].id : k \in CurrentIndex}

\* compare_matched
CompareMatched(b, c) ==
    IF b.print # c.print THEN "changed"
    ELSE IF b.places = c.places THEN "unchanged" ELSE "moved"

\* Slip: a finding that is matched already is matched again.
AnyWithPrint(b) == {k \in CurrentIndex : current[k].print = b.print}

\* Slip: a finding that stands in the same place is not looked for.
ElsewhereWithPrint(b) ==
    {k \in CurrentIndex : /\ current[k].print = b.print
                          /\ current[k].places \cap b.places = {}
                          /\ current[k].id \notin matched_current}

\* find_fingerprint_match takes the first of these.
FingerprintMatches(b) ==
    {k \in CurrentIndex : /\ current[k].print = b.print
                          /\ current[k].id \notin matched_current}

-----------------------------------------------------------------------------
\* The baseline was created from an earlier report, and perhaps edited; the
\* current findings are those create_baseline returns for the report.
Init ==
    /\ baseline \in Inputs
    /\ current \in Inputs /\ InOrder(current)
    /\ matched_baseline = {}
    /\ matched_current = {}
    /\ changes = {}
    /\ pass = "id"
    /\ i = 1

Tell(kind, b, c) ==
    changes' = changes \cup {[kind |-> kind, baseline |-> b, current |-> c]}

Match(b, c) ==
    /\ matched_baseline' = matched_baseline \cup {baseline[b].id}
    /\ matched_current' = matched_current \cup {current[c].id}

Advance == i' = i + 1 /\ UNCHANGED <<baseline, current, pass>>

\* One iteration of the first loop.
MatchById ==
    /\ pass = "id"
    /\ i \in BaselineIndex
    /\ \E c \in CurrentIndex :
        /\ IsCurrentById(baseline[i].id, c)
        /\ Match(i, c)
        /\ Tell(CompareMatched(baseline[i], current[c]), i, c)
    /\ Advance

LeaveById ==
    /\ pass = "id"
    /\ i \in BaselineIndex
    /\ baseline[i].id \notin CurrentIds
    /\ Advance
    /\ UNCHANGED <<matched_baseline, matched_current, changes>>

\* One iteration of the second loop.
SkipMatched ==
    /\ pass = "print"
    /\ i \in BaselineIndex
    /\ baseline[i].id \in matched_baseline
    /\ Advance
    /\ UNCHANGED <<matched_baseline, matched_current, changes>>

MatchByPrint ==
    /\ pass = "print"
    /\ i \in BaselineIndex
    /\ baseline[i].id \notin matched_baseline
    /\ \E c \in FingerprintMatches(baseline[i]) :
        /\ \A d \in FingerprintMatches(baseline[i]) : c <= d
        /\ Match(i, c)
        /\ Tell("moved", i, c)
    /\ Advance

Resolve ==
    /\ pass = "print"
    /\ i \in BaselineIndex
    /\ baseline[i].id \notin matched_baseline
    /\ FingerprintMatches(baseline[i]) = {}
    /\ matched_baseline' = matched_baseline \cup {baseline[i].id}
    /\ Tell("resolved", i, 0)
    /\ Advance
    /\ UNCHANGED matched_current

\* Slip: whatever is not in the baseline by its id is new.
ReportUnknownId ==
    /\ pass = "new"
    /\ i \in CurrentIndex
    /\ IF \E b \in BaselineIndex : baseline[b].id = current[i].id
       THEN UNCHANGED changes
       ELSE Tell("new", 0, i)
    /\ Advance
    /\ UNCHANGED <<matched_baseline, matched_current>>

\* Slip: whatever the baseline has the text of is known.
ReportUnknownPrint ==
    /\ pass = "new"
    /\ i \in CurrentIndex
    /\ IF \E b \in BaselineIndex : baseline[b].print = current[i].print
       THEN UNCHANGED changes
       ELSE Tell("new", 0, i)
    /\ Advance
    /\ UNCHANGED <<matched_baseline, matched_current>>

\* One iteration of the third loop.
ReportNew ==
    /\ pass = "new"
    /\ i \in CurrentIndex
    /\ IF current[i].id \in matched_current
       THEN UNCHANGED changes
       ELSE Tell("new", 0, i)
    /\ Advance
    /\ UNCHANGED <<matched_baseline, matched_current>>

EndPass(here, there, findings) ==
    /\ pass = here
    /\ i > Len(findings)
    /\ pass' = there
    /\ i' = 1
    /\ UNCHANGED <<baseline, current, matched_baseline, matched_current, changes>>

Step ==
    \/ MatchById \/ LeaveById \/ EndPass("id", "print", baseline)
    \/ SkipMatched \/ MatchByPrint \/ Resolve \/ EndPass("print", "new", baseline)
    \/ ReportNew \/ EndPass("new", "done", current)

Done == pass = "done"

Next == Step \/ (Done /\ UNCHANGED vars)

Spec == Init /\ [][Next]_vars /\ WF_vars(Step)

-----------------------------------------------------------------------------
(* Properties.                                                             *)

TypeOK ==
    /\ baseline \in Seq(Finding)
    /\ current \in Seq(Finding)
    /\ matched_baseline \in SUBSET Nat
    /\ matched_current \in SUBSET CurrentIds
    /\ changes \in SUBSET Change
    /\ \A x \in changes : /\ x.baseline \in BaselineIndex \/ (x.baseline = 0 /\ x.kind = "new")
                          /\ x.current \in CurrentIndex \/ (x.current = 0 /\ x.kind = "resolved")
    /\ pass \in {"id", "print", "new", "done"}
    /\ i \in Nat \ {0}

Unique(s) == \A k, l \in 1..Len(s) : s[k].id = s[l].id => k = l

\* Every finding of either side is in exactly one change of the finished
\* diff, when ids are unique.
EachToldOnce ==
    (Done /\ Unique(baseline) /\ Unique(current)) =>
        /\ \A b \in BaselineIndex : \E x \in changes :
                x.baseline = b /\ \A y \in changes : y.baseline = b => y = x
        /\ \A c \in CurrentIndex : \E x \in changes :
                x.current = c /\ \A y \in changes : y.current = c => y = x

\* No id of either side goes without a change, also when ids repeat.
NoIdUntold ==
    Done =>
        /\ \A b \in BaselineIndex : \E x \in changes :
                x.baseline # 0 /\ baseline[x.baseline].id = baseline[b].id
        /\ \A c \in CurrentIndex : \E x \in changes :
                x.current # 0 /\ current[x.current].id = current[c].id

\* A finding that moved is not told as resolved and new: no resolved finding
\* has the fingerprint of a new one.
NoMissedMove ==
    Done => \A x, y \in changes :
        (x.kind = "resolved" /\ y.kind = "new") =>
            baseline[x.baseline].print # current[y.current].print

\* What a reviewer need not look at again is the same: an unchanged finding
\* has the id, the text and the places it had, a moved one the text.
UntouchedIsSame ==
    \A x \in changes :
        /\ x.kind = "unchanged" =>
                baseline[x.baseline] = current[x.current]
        /\ x.kind = "moved" =>
                baseline[x.baseline].print = current[x.current].print

\* A report against the baseline created from it: nothing to review.
QuietAgainstItself ==
    (Done /\ baseline = current /\ Unique(current)) =>
        changes = {[kind |-> "unchanged", baseline |-> k, current |-> k] :
                   k \in CurrentIndex}

\* The number of moves does not depend on the order of the baseline: of the
\* findings with one fingerprint that only one side knows by id, as many are
\* moves as the other side has.
Orphans(s, t, print) ==
    {k \in 1..Len(s) : /\ s[k].print = print
                       /\ \A l \in 1..Len(t) : t[l].id # s[k].id}
Smaller(m, n) == IF m <= n THEN m ELSE n
MovesAreMaximal ==
    (Done /\ Unique(baseline) /\ Unique(current)) => \A print \in Prints :
        Cardinality({x \in changes : /\ x.kind = "moved"
                                     /\ x.baseline \in Orphans(baseline, current, print)})
        = Smaller(Cardinality(Orphans(baseline, current, print)),
                  Cardinality(Orphans(current, baseline, print)))
=============================================================================
