---------------------------- MODULE MCActionRun ----------------------------
(***************************************************************************)
(* ActionRun with a high finding h and a low one l of two categories, a    *)
(* baseline b, and a repository whose own policy asks for something else.  *)
(***************************************************************************)
EXTENDS ActionRun, TLC

CONSTANTS h, l, b

MCPaths == ReportPaths \cup {b}
MCSeverityOf == (h :> 4) @@ (l :> 2)
MCCategoryOf == (h :> "misconfiguration") @@ (l :> "gap")
MCConfigs == {[valid |-> TRUE, policy |-> [Unset EXCEPT !.mode = "enforce", !.exclude = {h},
                                                        !.include = {l}]]}
MCGiven == {NoFile, Torn, [kind |-> "baseline", ids |-> {h}]}

Advisory == [mode |-> "advisory", fail_on_findings |-> FALSE, nested |-> FALSE,
             formats |-> {"markdown", "sarif"}, fail_severity |-> 4, fail_categories |-> {},
             include |-> {}, exclude |-> {}, baseline |-> NoPath, invalid |-> "nothing"]
Enforce == [Advisory EXCEPT !.mode = "enforce"]

MCUses ==
    {[Advisory EXCEPT !.nested = TRUE],
     [Advisory EXCEPT !.formats = {"json"}, !.fail_on_findings = TRUE, !.exclude = {h}],
     [Enforce EXCEPT !.formats = {"sarif", "json"}, !.baseline = b, !.nested = TRUE],
     [Enforce EXCEPT !.formats = {"markdown"}, !.fail_severity = 2, !.include = {l},
                     !.fail_categories = {"misconfiguration"}],
     [Enforce EXCEPT !.fail_severity = 0],
     [Enforce EXCEPT !.invalid = "inputs"],
     [Enforce EXCEPT !.invalid = "formats or baseline"]}
MCCommands ==
    {ScanCommand(u) : u \in MCUses}
    \cup {EvaluateCommand(u) : u \in {v \in MCUses : EffectiveSeverity(v) # 0}}
=============================================================================
