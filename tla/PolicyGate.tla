----------------------------- MODULE PolicyGate -----------------------------
(***************************************************************************)
(* The commands of sessionscope-cli that read and write files, run one     *)
(* after another in a working directory: `scan` (and its focused views),   *)
(* `evaluate` and `baseline create`.  Policy comes from the command line,  *)
(* from sessionscope.toml and from defaults; enforce mode turns findings   *)
(* into the exit status.  Between commands the tree, the configuration and *)
(* the files change; a write may fail and a command may be killed, and     *)
(* what fs::write was writing is then torn.                                *)
(*                                                                         *)
(* A finding is its id; what a scan finds is the state `tree`.  An absent  *)
(* sessionscope.toml is one that sets nothing.                             *)
(***************************************************************************)
EXTENDS Integers, Sequences

CONSTANTS
    Ids,            \* finding ids
    SeverityOf,     \* of the finding with an id, 1 (info) to 4 (high)
    CategoryOf,
    Categories,
    Paths, NoPath,
    Commands,       \* command lines
    Configs         \* contents of sessionscope.toml

Severity == 1..4

\* ProjectConfig and EnforcementOverrides: what is unset is inherited.
Policy == [mode : {"unset", "advisory", "enforce"}, fail_severity : {0} \cup Severity,
           fail_categories : SUBSET Categories, include : SUBSET Ids,
           exclude : SUBSET Ids, baseline : Paths \cup {NoPath}]

Unset == [mode |-> "unset", fail_severity |-> 0, fail_categories |-> {},
          include |-> {}, exclude |-> {}, baseline |-> NoPath]

Config == [valid : BOOLEAN, policy : Policy]

Output == [path : Paths, format : {"json", "text"}]

\* `view` is what the focused views keep of the findings, `from` the report
\* that evaluate and baseline create read.
Command == [kind : {"scan", "evaluate", "baseline"}, outs : Seq(Output), view : SUBSET Ids,
            from : Paths \cup {NoPath}, cli : Policy, use_policy_config : BOOLEAN]

\* A file: none, cut off by a failure, a report that is not JSON (with the prefix
\* that the GitHub Action gives a SARIF report, or without) or a document; and the
\* ids of the findings it tells of.
Content == [kind : {"none", "torn", "text", "prefixed", "report", "baseline"},
            ids : SUBSET Ids]
NoFile == [kind |-> "none", ids |-> {}]
Torn == [kind |-> "torn", ids |-> {}]

ASSUME GateAssumption ==
    /\ SeverityOf \in [Ids -> Severity]
    /\ CategoryOf \in [Ids -> Categories]
    /\ NoPath \notin Paths
    /\ Configs \subseteq Config
    /\ Commands \subseteq Command
    /\ \A c \in Commands :
        /\ c.kind # "scan" => c.from \in Paths
        /\ \A k, l \in DOMAIN c.outs : c.outs[k].path = c.outs[l].path => c.outs[k] = c.outs[l]

VARIABLES
    tree,           \* what a scan would find
    config,         \* sessionscope.toml
    disk,           \* the other files
    pc,
    cmd,            \* the command that runs, or ran last
    policy,         \* EnforcementOptions
    report,         \* the findings in memory
    todo,           \* outputs still to be written
    exit,
    start           \* history: the files when the command started

vars == <<tree, config, disk, pc, cmd, policy, report, todo, exit, start>>

-----------------------------------------------------------------------------
\* Policy

Inherit(low, high) ==
    [mode |-> IF high.mode = "unset" THEN low.mode ELSE high.mode,
     fail_severity |-> IF high.fail_severity = 0 THEN low.fail_severity ELSE high.fail_severity,
     fail_categories |->
        IF high.fail_categories = {} THEN low.fail_categories ELSE high.fail_categories,
     include |-> IF high.include = {} THEN low.include ELSE high.include,
     exclude |-> IF high.exclude = {} THEN low.exclude ELSE high.exclude,
     baseline |-> IF high.baseline = NoPath THEN low.baseline ELSE high.baseline]

\* EnforcementOptions::default; no category stands for all of them.
DefaultOptions == [mode |-> "advisory", fail_severity |-> 4, fail_categories |-> {},
                   include |-> {}, exclude |-> {}, baseline |-> NoPath]

\* load_project_config
ProjectPolicy == IF cmd.use_policy_config THEN config.policy ELSE Unset

\* Slip: the file wins over the command line.
ConfigWins == Inherit(Inherit(DefaultOptions, cmd.cli), ProjectPolicy)

\* build_enforcement_options
BuildOptions == Inherit(Inherit(DefaultOptions, ProjectPolicy), cmd.cli)

\* Slip: a file that does not parse suppresses nothing.
AnyContent(content) == TRUE

\* load_baseline_ids takes every JSON document with `findings`, a report too.
HasFindingIds(content) == content.kind \in {"report", "baseline"}

\* blocks
Blocks(id, baseline_ids) ==
    /\ id \notin policy.exclude
    /\ \/ id \in policy.include
       \/ /\ id \notin baseline_ids
          /\ SeverityOf[id] >= policy.fail_severity
          /\ policy.fail_categories = {} \/ CategoryOf[id] \in policy.fail_categories

-----------------------------------------------------------------------------
\* A command

Exit(status) == pc' = "done" /\ exit' = status

Start ==
    /\ pc = "idle"
    /\ \E c \in Commands :
        /\ cmd' = c
        /\ pc' = IF c.kind = "baseline" THEN "read" ELSE "config"
    /\ start' = disk
    /\ UNCHANGED <<tree, config, disk, policy, report, todo, exit>>

LoadConfig ==
    /\ pc = "config"
    /\ config.valid \/ ~cmd.use_policy_config
    /\ policy' = BuildOptions
    /\ pc' = IF cmd.kind = "scan" THEN "scan" ELSE "read"
    /\ UNCHANGED <<tree, config, disk, cmd, report, todo, exit, start>>

ConfigInvalid ==
    /\ pc = "config" /\ ~config.valid /\ cmd.use_policy_config
    /\ Exit("error")
    /\ UNCHANGED <<tree, config, disk, cmd, policy, report, todo, start>>

\* scan_path, classify and, for a focused view, filter_report.
ScanTree ==
    /\ pc = "scan"
    /\ report' = tree \cap cmd.view
    /\ todo' = cmd.outs
    /\ pc' = "write"
    /\ UNCHANGED <<tree, config, disk, cmd, policy, exit, start>>

ScanFails ==
    /\ pc = "scan" /\ Exit("error")
    /\ UNCHANGED <<tree, config, disk, cmd, policy, report, todo, start>>

\* evaluate and baseline create parse a whole ScanReport.
ReadReport ==
    /\ pc = "read" /\ disk[cmd.from].kind = "report"
    /\ report' = disk[cmd.from].ids
    /\ todo' = cmd.outs
    /\ pc' = "write"
    /\ UNCHANGED <<tree, config, disk, cmd, policy, exit, start>>

ReportUnreadable ==
    /\ pc = "read" /\ disk[cmd.from].kind # "report"
    /\ Exit("error")
    /\ UNCHANGED <<tree, config, disk, cmd, policy, report, todo, start>>

Rendered(out) ==
    [kind |-> IF out.format = "text" THEN "text"
              ELSE IF cmd.kind = "baseline" THEN "baseline" ELSE "report",
     ids |-> report]

\* fs::write truncates, then writes.
OpenOutput ==
    /\ pc = "write" /\ todo # <<>>
    /\ disk' = [disk EXCEPT ![Head(todo).path] = Torn]
    /\ pc' = "fill"
    /\ UNCHANGED <<tree, config, cmd, policy, report, todo, exit, start>>

FillOutput ==
    /\ pc = "fill"
    /\ disk' = [disk EXCEPT ![Head(todo).path] = Rendered(Head(todo))]
    /\ todo' = Tail(todo)
    /\ pc' = "write"
    /\ UNCHANGED <<tree, config, cmd, policy, report, exit, start>>

WriteFails ==
    /\ pc = "fill" \/ (pc = "write" /\ todo # <<>>)
    /\ Exit("error")
    /\ UNCHANGED <<tree, config, disk, cmd, policy, report, todo, start>>

\* Slip: the verdict does not wait for the second report.
FirstWritten == Len(todo) < Len(cmd.outs) \/ cmd.outs = <<>>

AllWritten == todo = <<>>

BaselineCreated ==
    /\ pc = "write" /\ AllWritten /\ cmd.kind = "baseline"
    /\ Exit("ok")
    /\ UNCHANGED <<tree, config, disk, cmd, policy, report, todo, start>>

\* EnforcementOptions::evaluate: the baseline is read in either mode.
Verdict(baseline_ids) ==
    IF policy.mode = "enforce" /\ \E id \in report : Blocks(id, baseline_ids)
    THEN "blocked" ELSE "ok"

AtVerdict == pc = "write" /\ AllWritten /\ cmd.kind # "baseline"

EvaluateWithout ==
    /\ AtVerdict /\ policy.baseline = NoPath
    /\ Exit(Verdict({}))
    /\ UNCHANGED <<tree, config, disk, cmd, policy, report, todo, start>>

EvaluateAgainst ==
    /\ AtVerdict /\ policy.baseline # NoPath /\ HasFindingIds(disk[policy.baseline])
    /\ Exit(Verdict(disk[policy.baseline].ids))
    /\ UNCHANGED <<tree, config, disk, cmd, policy, report, todo, start>>

BaselineUnreadable ==
    /\ AtVerdict /\ policy.baseline # NoPath /\ ~HasFindingIds(disk[policy.baseline])
    /\ Exit("error")
    /\ UNCHANGED <<tree, config, disk, cmd, policy, report, todo, start>>

Kill ==
    /\ pc \notin {"idle", "done"} /\ Exit("killed")
    /\ UNCHANGED <<tree, config, disk, cmd, policy, report, todo, start>>

Return ==
    /\ pc = "done" /\ pc' = "idle" /\ exit' = "none"
    /\ policy' = DefaultOptions /\ report' = {} /\ todo' = <<>>
    /\ UNCHANGED <<tree, config, disk, cmd, start>>

-----------------------------------------------------------------------------
\* Around the commands

\* The tree may change while it is scanned, too.
EditTree ==
    /\ tree' \in SUBSET Ids
    /\ UNCHANGED <<config, disk, pc, cmd, policy, report, todo, exit, start>>

EditConfig ==
    /\ pc = "idle" /\ config' \in Configs
    /\ UNCHANGED <<tree, disk, pc, cmd, policy, report, todo, exit, start>>

Remove ==
    /\ pc = "idle" /\ \E p \in Paths : disk' = [disk EXCEPT ![p] = NoFile]
    /\ UNCHANGED <<tree, config, pc, cmd, policy, report, todo, exit, start>>

Init ==
    /\ tree \in SUBSET Ids
    /\ config \in Configs
    /\ disk = [p \in Paths |-> NoFile]
    /\ pc = "idle"
    /\ cmd \in Commands
    /\ policy = DefaultOptions
    /\ report = {}
    /\ todo = <<>>
    /\ exit = "none"
    /\ start = disk

Next ==
    \/ Start \/ LoadConfig \/ ConfigInvalid \/ ScanTree \/ ScanFails \/ ReadReport
    \/ ReportUnreadable \/ OpenOutput \/ FillOutput \/ WriteFails \/ BaselineCreated
    \/ EvaluateWithout \/ EvaluateAgainst \/ BaselineUnreadable \/ Kill \/ Return
    \/ EditTree \/ EditConfig \/ Remove

Spec == Init /\ [][Next]_vars

-----------------------------------------------------------------------------
\* Properties

\* The values of the variables; the policy is always complete.
TypeOK ==
    /\ tree \subseteq Ids
    /\ config \in Configs
    /\ disk \in [Paths -> Content]
    /\ start \in [Paths -> Content]
    /\ pc \in {"idle", "config", "scan", "read", "write", "fill", "done"}
    /\ cmd \in Commands
    /\ policy \in Policy /\ policy.mode # "unset" /\ policy.fail_severity # 0
    /\ report \subseteq Ids
    /\ todo \in Seq(Output)
    /\ exit \in {"none", "ok", "blocked", "error", "killed"}
    /\ pc = "done" <=> exit # "none"

Outputs == {cmd.outs[k].path : k \in DOMAIN cmd.outs}
Judged == cmd.kind # "baseline" /\ exit \in {"ok", "blocked"}

\* What the command line says of a field, or else the project's file.
Says(field) ==
    IF cmd.cli[field] # Unset[field] THEN cmd.cli[field]
    ELSE IF cmd.use_policy_config THEN config.policy[field] ELSE Unset[field]

\* Accepted before the command began.
Accepted == IF Says("baseline") = NoPath THEN {} ELSE start[Says("baseline")].ids

\* A finding that counts, whatever the baseline.
Serious(id) ==
    /\ SeverityOf[id] >= IF Says("fail_severity") = 0 THEN 4 ELSE Says("fail_severity")
    /\ Says("fail_categories") # {} => CategoryOf[id] \in Says("fail_categories")

\* Enforce mode fails for a finding that is named, or that counts and was not
\* accepted, and for nothing else: the baseline is judged as it was before the
\* command, whatever the command wrote meanwhile, and the command line's words
\* come before the file's, which counts for nothing where it is not to be used.
\* (A command that is told to write its report over its baseline is not held to
\* this: see BaselineReadOnly.)
VerdictFollowsPolicy ==
    (Judged /\ Says("baseline") \notin Outputs) =>
        (exit = "blocked" <=>
            /\ Says("mode") = "enforce"
            /\ \E id \in report \ Says("exclude") :
                id \in Says("include") \/ (Serious(id) /\ id \notin Accepted))

\* "Enforce mode exits nonzero after reports are written": when a command has
\* judged, every report it was asked for is whole on disk and tells of the
\* findings that were judged.
ReportsBeforeVerdict ==
    exit \in {"ok", "blocked"} =>
        \A k \in DOMAIN cmd.outs : disk[cmd.outs[k].path] = Rendered(cmd.outs[k])

\* What a crash or a failed write left is never taken for an empty baseline or
\* an empty report: a command that judges, in either mode, read whole documents.
OnlyWholeInputs ==
    Judged =>
        /\ cmd.kind = "evaluate" => start[cmd.from].kind = "report" /\ report = start[cmd.from].ids
        /\ Says("baseline") \notin Outputs \cup {NoPath} =>
            start[Says("baseline")].kind \in {"report", "baseline"}

\* A command never changes the baseline it is judged against: "read-only
\* suppression" (README.md, DESIGN_DECISIONS.md).  `--output` may name it.
BaselineReadOnly ==
    [][(pc # "idle" /\ cmd.kind # "baseline" /\ policy.baseline # NoPath) =>
        disk'[policy.baseline] = disk[policy.baseline]]_vars
=============================================================================
