----------------------------- MODULE ActionRun -----------------------------
(***************************************************************************)
(* The GitHub Action, scripts/github-action.sh, used one or several times  *)
(* in a job.  Every use of the job works in one reports directory.  The    *)
(* script checks its inputs, scans in advisory mode, prefixes the          *)
(* locations of the SARIF report, writes a summary, publishes the paths of *)
(* the reports and, to enforce, evaluates the JSON report it has just      *)
(* written; an EXIT trap removes that report where it was not asked for.   *)
(*                                                                         *)
(* Both commands are those of PolicyGate, step by step, with all their     *)
(* failures; the script adds its own: an input it rejects, a release       *)
(* binary it cannot get, a write that fails, and being killed, which no    *)
(* trap survives.                                                          *)
(***************************************************************************)
EXTENDS PolicyGate

CONSTANTS
    Uses,                       \* the inputs a job uses the action with
    MaxUses,
    JsonPath, MarkdownPath, SarifPath, TmpPath, SummaryPath,
    Given                       \* what a file outside the reports directory may hold

ReportPaths == {JsonPath, MarkdownPath, SarifPath, TmpPath, SummaryPath}

\* `formats` is `output`, `nested` a `path` other than the repository itself,
\* `invalid` the check that rejects an input, an empty fail-severity is 0.
Use == [mode : {"advisory", "enforce"}, fail_on_findings : BOOLEAN, nested : BOOLEAN,
        formats : SUBSET {"json", "markdown", "sarif"}, fail_severity : {0} \cup Severity,
        fail_categories : SUBSET Categories, include : SUBSET Ids, exclude : SUBSET Ids,
        baseline : Paths \cup {NoPath}, invalid : {"nothing", "inputs", "formats or baseline"}]

VARIABLES
    uses,           \* begun so far
    use,            \* the inputs of the current use
    at,             \* where the script is
    json_path,      \* unset until the inputs are known to be good
    published,      \* paths written to GITHUB_OUTPUT
    status,         \* exit status of the script
    scanned,        \* history: what the scan of this use reported
    before          \* history: the JSON report an earlier use left

script == <<uses, use, at, json_path, published, status, scanned, before>>
actionVars == <<vars, script>>

-----------------------------------------------------------------------------
\* The command lines the script runs

JsonRequested == "json" \in use.formats

OutputOf(format) ==
    CASE format = "json" -> [path |-> JsonPath, format |-> "json"]
      [] format = "markdown" -> [path |-> MarkdownPath, format |-> "text"]
      [] format = "sarif" -> [path |-> SarifPath, format |-> "text"]

\* Slip: JSON is written only where it was asked for.
RequestedOnly(formats) == formats

\* scan_outputs: the summary and the evaluation need the JSON report.
ScanFormats(formats) == formats \cup {"json"}

\* scan_outputs, where the JSON report comes last when it is added.
ScanOutputs(u) ==
    LET Chosen(format) ==
            IF format \in ScanFormats(u.formats) THEN <<OutputOf(format)>> ELSE <<>>
    IN Chosen("markdown") \o Chosen("sarif") \o Chosen("json")

PolicyArgs(u, mode, severity) ==
    [mode |-> mode, fail_severity |-> severity, fail_categories |-> u.fail_categories,
     include |-> u.include, exclude |-> u.exclude, baseline |-> u.baseline]

ScanCommand(u) ==
    [kind |-> "scan", outs |-> ScanOutputs(u), view |-> Ids, from |-> NoPath,
     cli |-> PolicyArgs(u, "advisory", u.fail_severity), use_policy_config |-> FALSE]

\* fail-on-findings is enforce mode for any finding.
EffectiveSeverity(u) == IF u.fail_on_findings THEN 1 ELSE u.fail_severity
Enforced == use.fail_on_findings \/ use.mode = "enforce"

EvaluateCommand(u) ==
    [kind |-> "evaluate", outs |-> <<>>, view |-> Ids, from |-> JsonPath,
     cli |-> PolicyArgs(u, "enforce", EffectiveSeverity(u)), use_policy_config |-> FALSE]

ASSUME ActionAssumption ==
    /\ Uses \subseteq Use
    /\ MaxUses \in Nat
    /\ ReportPaths \subseteq Paths
    /\ JsonPath \notin {MarkdownPath, SarifPath, TmpPath, SummaryPath}
    /\ MarkdownPath \notin {SarifPath, TmpPath, SummaryPath}
    /\ SarifPath \notin {TmpPath, SummaryPath} /\ TmpPath # SummaryPath
    /\ Given \subseteq Content
    /\ Commands = {ScanCommand(u) : u \in Uses}
            \cup {EvaluateCommand(u) : u \in {v \in Uses : EffectiveSeverity(v) # 0}}

-----------------------------------------------------------------------------
\* The script

Goto(place) == at' = place

\* `exit`, or set -e after a command that failed: the trap is next.
Stop(with) == status' = with /\ Goto("exiting")

BeginUse ==
    /\ at = "idle" /\ uses < MaxUses
    /\ use' \in Uses
    /\ uses' = uses + 1
    /\ Goto("inputs")
    /\ json_path' = NoPath /\ published' = {} /\ status' = "none" /\ scanned' = {}
    /\ before' = disk[JsonPath]
    /\ UNCHANGED vars

\* mode, fail-on-findings and path, before there is a trap.
RejectInputs ==
    /\ at = "inputs" /\ use.invalid = "inputs"
    /\ status' = "refused" /\ Goto("ended")
    /\ UNCHANGED <<vars, uses, use, json_path, published, scanned, before>>

MakeReportsDir ==
    /\ at = "inputs" /\ use.invalid # "inputs"
    /\ Goto("prepare")
    /\ UNCHANGED <<vars, uses, use, json_path, published, status, scanned, before>>

\* No gh, no archive for the runner, a download, checksum or archive that is bad.
ResolveFails ==
    /\ at = "prepare" /\ Stop("error")
    /\ UNCHANGED <<vars, uses, use, json_path, published, scanned, before>>

RejectFormatsOrBaseline ==
    /\ at = "prepare" /\ use.invalid # "nothing" /\ Stop("refused")
    /\ UNCHANGED <<vars, uses, use, json_path, published, scanned, before>>

Prepare ==
    /\ at = "prepare" /\ use.invalid = "nothing"
    /\ json_path' = JsonPath
    /\ Goto("scan")
    /\ UNCHANGED <<vars, uses, use, published, status, scanned, before>>

Run(command) == Start /\ cmd' = command

Scan ==
    /\ at = "scan" /\ Run(ScanCommand(use))
    /\ Goto("scanning")
    /\ UNCHANGED <<uses, use, json_path, published, status, scanned, before>>

Scanned ==
    /\ at = "scanning" /\ exit = "ok" /\ Return
    /\ scanned' = report
    /\ Goto("prefix")
    /\ UNCHANGED <<uses, use, json_path, published, status, before>>

ScanStops ==
    /\ at = "scanning" /\ exit \notin {"none", "ok"} /\ Return
    /\ Stop(exit)
    /\ UNCHANGED <<uses, use, json_path, published, scanned, before>>

HasPrefix == "sarif" \in use.formats /\ use.nested

\* prefix_sarif_uris: a sibling file, then os.replace.
WriteTmp ==
    /\ at = "prefix" /\ HasPrefix
    /\ disk' = [disk EXCEPT ![TmpPath] = Torn]
    /\ Goto("replace")
    /\ UNCHANGED <<tree, config, pc, cmd, policy, report, todo, exit, start, uses, use,
                   json_path, published, status, scanned, before>>

ReplaceSarif ==
    /\ at = "replace"
    /\ disk' = [disk EXCEPT ![SarifPath].kind = "prefixed", ![TmpPath] = NoFile]
    /\ Goto("summary")
    /\ UNCHANGED <<tree, config, pc, cmd, policy, report, todo, exit, start, uses, use,
                   json_path, published, status, scanned, before>>

NothingToPrefix ==
    /\ at = "prefix" /\ ~HasPrefix
    /\ Goto("summary")
    /\ UNCHANGED <<vars, uses, use, json_path, published, status, scanned, before>>

PrefixFails ==
    /\ at = "replace" \/ (at = "prefix" /\ HasPrefix)
    /\ Stop("error")
    /\ UNCHANGED <<vars, uses, use, json_path, published, scanned, before>>

WriteSummary ==
    /\ at = "summary" /\ disk[JsonPath].kind = "report"
    /\ disk' = [disk EXCEPT ![SummaryPath] = [kind |-> "text", ids |-> disk[JsonPath].ids]]
    /\ Goto("publish")
    /\ UNCHANGED <<tree, config, pc, cmd, policy, report, todo, exit, start, uses, use,
                   json_path, published, status, scanned, before>>

\* The JSON report cannot be read, or the summary not be written.
SummaryFails ==
    /\ at = "summary" /\ Stop("error")
    /\ disk' \in {disk, [disk EXCEPT ![SummaryPath] = Torn]}
    /\ UNCHANGED <<tree, config, pc, cmd, policy, report, todo, exit, start, uses, use,
                   json_path, published, scanned, before>>

\* Slip: the path of the JSON report is published whether it was asked for or not.
AllOutputs(formats) == {OutputOf(format).path : format \in formats \cup {"json"}}

PublishedReports(formats) == {OutputOf(format).path : format \in formats}

\* write_output
Publish ==
    /\ at = "publish"
    /\ published' = {SummaryPath} \cup PublishedReports(use.formats)
    /\ Goto("judge")
    /\ UNCHANGED <<vars, uses, use, json_path, status, scanned, before>>

Advise ==
    /\ at = "judge" /\ ~Enforced /\ Stop("ok")
    /\ UNCHANGED <<vars, uses, use, json_path, published, scanned, before>>

Evaluate ==
    /\ at = "judge" /\ Enforced /\ EffectiveSeverity(use) # 0
    /\ Run(EvaluateCommand(use))
    /\ Goto("judging")
    /\ UNCHANGED <<uses, use, json_path, published, status, scanned, before>>

\* An empty fail-severity is left out of the scan's arguments, not of these.
SeverityRejected ==
    /\ at = "judge" /\ Enforced /\ EffectiveSeverity(use) = 0 /\ Stop("error")
    /\ UNCHANGED <<vars, uses, use, json_path, published, scanned, before>>

Evaluated ==
    /\ at = "judging" /\ exit # "none" /\ Return
    /\ Stop(exit)
    /\ UNCHANGED <<uses, use, json_path, published, scanned, before>>

\* cleanup_internal_artifacts, with the exit status kept.
Cleanup ==
    /\ at = "exiting"
    /\ disk' = IF json_path # NoPath /\ ~JsonRequested
               THEN [disk EXCEPT ![json_path] = NoFile] ELSE disk
    /\ Goto("ended")
    /\ UNCHANGED <<tree, config, pc, cmd, policy, report, todo, exit, start, uses, use,
                   json_path, published, status, scanned, before>>

KillScript ==
    /\ at \notin {"idle", "ended"} /\ pc = "idle"
    /\ status' = "killed" /\ Goto("ended")
    /\ UNCHANGED <<vars, uses, use, json_path, published, scanned, before>>

NextStep ==
    /\ at = "ended" /\ Goto("idle")
    /\ UNCHANGED <<vars, uses, use, json_path, published, status, scanned, before>>

\* Other steps of the job change the tree.
Checkout == at = "idle" /\ EditTree /\ UNCHANGED script

\* A step of the command that runs.
CommandStep ==
    /\ pc \notin {"idle", "done"}
    /\ UNCHANGED <<tree, script>> /\ Next

ActionInit ==
    /\ tree \in SUBSET Ids
    /\ config \in Configs
    /\ \E given \in [Paths \ ReportPaths -> Given] :
        disk = [p \in Paths |-> IF p \in ReportPaths THEN NoFile ELSE given[p]]
    /\ pc = "idle" /\ cmd \in Commands /\ policy = DefaultOptions /\ report = {} /\ todo = <<>>
    /\ exit = "none" /\ start = disk
    /\ uses = 0 /\ use \in Uses /\ at = "idle" /\ json_path = NoPath /\ published = {}
    /\ status = "none" /\ scanned = {} /\ before = NoFile

ActionNext ==
    \/ BeginUse \/ RejectInputs \/ MakeReportsDir \/ ResolveFails \/ RejectFormatsOrBaseline
    \/ Prepare \/ Scan \/ Scanned \/ ScanStops \/ WriteTmp \/ ReplaceSarif \/ NothingToPrefix
    \/ PrefixFails \/ WriteSummary \/ SummaryFails \/ Publish \/ Advise \/ Evaluate
    \/ SeverityRejected \/ Evaluated \/ Cleanup \/ KillScript \/ NextStep \/ Checkout
    \/ CommandStep

ActionSpec == ActionInit /\ [][ActionNext]_actionVars

-----------------------------------------------------------------------------
\* Properties

Ended == at = "ended"

\* What the inputs say of a finding, whatever the baseline.
Counts(id) ==
    /\ use.fail_on_findings \/ SeverityOf[id] >= use.fail_severity
    /\ use.fail_categories # {} => CategoryOf[id] \in use.fail_categories

\* A use that runs to its end fails exactly when it is to enforce and its own
\* scan found a finding that is named, or that counts and that the baseline does
\* not have: it is never judged by the report of an earlier use of the job, nor
\* by the policy of the repository it scans, and the advisory scan decides
\* nothing.  (A baseline inside the reports directory is not held to this.)
StatusFollowsInputs ==
    (Ended /\ status \in {"ok", "blocked"} /\ use.baseline \notin ReportPaths) =>
        (status = "blocked" <=>
            /\ Enforced
            /\ \E id \in scanned \ use.exclude :
                \/ id \in use.include
                \/ /\ Counts(id)
                   /\ use.baseline # NoPath => id \notin disk[use.baseline].ids)

\* However a use ends, the reports it published are on disk, whole, tell what its
\* own scan found and name files of the repository; unless it was killed, a JSON
\* report that was not asked for is gone, and a use that ended before its scan
\* leaves the JSON report of an earlier one alone.
LeavesWhatItPublished ==
    Ended =>
        /\ \A p \in published :
            /\ disk[p].kind \notin {"none", "torn"} /\ disk[p].ids = scanned
            /\ p = SarifPath => (disk[p].kind = "prefixed" <=> use.nested)
        /\ status = "killed" \/ disk[JsonPath] = before \/ json_path # NoPath
        /\ status = "killed" \/ json_path = NoPath \/ JsonRequested \/ disk[JsonPath] = NoFile
=============================================================================
