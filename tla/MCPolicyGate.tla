---------------------------- MODULE MCPolicyGate ----------------------------
(***************************************************************************)
(* PolicyGate with a high finding h and a low one l, of two categories, a  *)
(* JSON report r, a Markdown report m and a baseline b.                    *)
(***************************************************************************)
EXTENDS PolicyGate, TLC

CONSTANTS r, m, b, h, l, OverBaseline

MCSeverityOf == (h :> 4) @@ (l :> 2)
MCCategoryOf == (h :> "misconfiguration") @@ (l :> "gap")

Json(p) == [path |-> p, format |-> "json"]
Text(p) == [path |-> p, format |-> "text"]

Scan(outs, cli, use) ==
    [kind |-> "scan", outs |-> outs, view |-> Ids, from |-> NoPath, cli |-> cli,
     use_policy_config |-> use]

Evaluate(cli, use) == [Scan(<<>>, cli, use) EXCEPT !.kind = "evaluate", !.from = r]

Enforce == [Unset EXCEPT !.mode = "enforce"]
Against == [Enforce EXCEPT !.baseline = b]

MCCommands ==
    {Scan(<<Json(r)>>, Unset, TRUE),
     Scan(<<Text(m), Json(r)>>, Against, TRUE),
     Scan(<<Text(m)>>, [Against EXCEPT !.fail_severity = 2, !.include = {l}], FALSE),
     [Scan(<<Json(r)>>, [Unset EXCEPT !.baseline = b], FALSE) EXCEPT !.view = {l}],
     Evaluate([Against EXCEPT !.fail_severity = 1, !.exclude = {h}], FALSE),
     Evaluate([Enforce EXCEPT !.fail_categories = {"gap"}, !.fail_severity = 2], TRUE),
     [Scan(<<Json(b)>>, Unset, FALSE) EXCEPT !.kind = "baseline", !.from = r]}
    \cup IF OverBaseline THEN {Scan(<<Json(b)>>, Against, TRUE)} ELSE {}

MCConfigs ==
    {[valid |-> TRUE, policy |-> Unset], [valid |-> FALSE, policy |-> Unset],
     [valid |-> TRUE, policy |-> [Enforce EXCEPT !.fail_severity = 1, !.exclude = {l}]],
     [valid |-> TRUE, policy |-> [Against EXCEPT !.mode = "advisory", !.include = {h}]]}
=============================================================================
