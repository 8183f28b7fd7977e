----------------------------- MODULE FixationRules -----------------------------
(***************************************************************************)
(* The session fixation classifier (sessionscope-classifier,                *)
(* session_fixation.rs): a login or a change of privilege near which the    *)
(* session is not regenerated.                                              *)
(***************************************************************************)
EXTENDS Report

CONSTANT LinkDistance       \* LINK_DISTANCE

ASSUME LinkDistanceAssumption == LinkDistance \in Nat

Regeneration == {"session.regenerate", "session.reissue", "session.framework_default_regenerate"}

\* fixation_records: evidence with the artifact it is of, by its place in the report.
FixationRecords(r, detectors, stage) ==
    {u \in (DOMAIN r.artifacts) \X Of(r.evidence, detectors) :
        u[2] \in r.artifacts[u[1]].evidence /\ u[2].stage = stage}
TransitionsOf(r) == FixationRecords(r, {"session.auth_transition", "session.privilege_transition"}, "issue")
RegenerationsOf(r) == FixationRecords(r, Regeneration, "refresh")
StoresOf(r) == FixationRecords(r, {"session.store_after_auth"}, "store")

\* Slip: the scopes are not compared.
AnyScope(r, t, u) == t[2].file = u[2].file
\* Both in one scope of a file, or both in none.
SameScope(r, t, u) == t[2].file = u[2].file /\ r.artifacts[t[1]].scope = r.artifacts[u[1]].scope

\* has_nearby_regeneration: from LinkDistance lines before the transition to the
\* next one of its scope, at most LinkDistance lines after it.
LastLine(t, later) ==
    IF later = {} THEN t[2].line + LinkDistance
    ELSE Least({Least(later) - 1, t[2].line + LinkDistance})
Regenerated(r, t) ==
    LET later == {u[2].line : u \in {v \in TransitionsOf(r) : SameScope(r, t, v) /\ v[2].line > t[2].line}}
    IN \E g \in RegenerationsOf(r) :
          /\ SameScope(r, t, g)
          /\ t[2].detector = "session.privilege_transition" => ~g[2].default
          /\ g[2].line <= LastLine(t, later)
          /\ Within(LinkDistance, t[2], g[2])

LoginRule == "session_fixation_login_regeneration_review"
PrivilegeRule == "session_fixation_privilege_regeneration_review"
\* fixation_finding: with the stores of the user near it, in whatever scope.
FixationFinding(r, t, stores) ==
    LET rule == IF t[2].detector = "session.privilege_transition" THEN PrivilegeRule ELSE LoginRule
        ids == Ids({u[2] : u \in stores \cup {t}})
    IN [rule |-> rule, category |-> Review, severity |-> "medium",
        artifacts |-> {r.artifacts[u[1]].id : u \in stores \cup {t}}, evidence |-> ids,
        id |-> <<rule, t[2].file, t[2].line, ids, t[2].detector>>]

\* One finding for the transitions of a kind on a line, the first of the report's.
Reported(T) == {t \in T : ~\E u \in T : /\ u[1] < t[1] /\ u[2].detector = t[2].detector
                                       /\ u[2].file = t[2].file /\ u[2].line = t[2].line}
FixationFindings(r) ==
    {FixationFinding(r, t, {u \in StoresOf(r) : Within(LinkDistance, t[2], u[2])}) :
        t \in Reported({t \in TransitionsOf(r) : ~Regenerated(r, t)})}
=============================================================================
