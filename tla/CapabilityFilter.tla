---------------------------- MODULE CapabilityFilter ----------------------------
(***************************************************************************)
(* The focused views of a report (sessionscope-core, capability.rs,          *)
(* filter_report): what `cookies`, `logout` and `refresh` print, and judge   *)
(* by, of the paths and findings of LifecycleRules.  Ids of artifacts and    *)
(* evidence are collected in two sets that grow as the report is walked; the *)
(* paths are walked once, in the order of the report.                        *)
(*                                                                         *)
(* `claims` is left out: it is about the claims of JWTs, which no rule over  *)
(* paths reads.                                                            *)
(***************************************************************************)
EXTENDS LifecycleRules, SequencesExt

CapabilityArea == {"Cookies", "Logout", "Refresh"}

\* The evidence of a's cookie attributes; cookie_attributes is there or not.
CookieEvidence(id) ==
    IF id \in DOMAIN Attributes
    THEN {Attributes[id][x].evidence : x \in DOMAIN Attributes[id]} ELSE {}

-----------------------------------------------------------------------------
(* What is of an area by itself.                                           *)
\* Slip: a refresh token is told by its refreshes.
WhatRefreshes(area, a) ==
    \/ area = "Cookies" /\ (a.type \in {"SessionCookie", "SignedCookie"} \/ a.id \in DOMAIN Attributes)
    \/ area = "Refresh" /\ \E e \in a.evidence : e.stage = "refresh"
\* artifact_matches.  That of a logout looks for words in ids of evidence, which
\* are hashes: it never holds.
ArtifactMatches(area, a) ==
    \/ area = "Cookies" /\ (a.type \in {"SessionCookie", "SignedCookie"} \/ a.id \in DOMAIN Attributes)
    \/ area = "Refresh" /\ (IsRefresh(a) \/ \E e \in a.evidence : e.stage = "refresh")

LogoutDetector == {"logout.handler", "logout.cookie_clear", "logout.session_destroy",
                   "logout.token_revoke", "logout.provider_revoke"}
RefreshDetector == {"refresh.handler", "refresh.rotate", "refresh.revoke", "refresh.provider",
                    "refresh.reuse_detection", "refresh.store", "refresh.expire"}
EvidenceMatches(area, e) ==
    \/ area = "Cookies" /\ e.detector = "cookie.sid"
    \/ area = "Logout" /\ e.detector \in LogoutDetector
    \/ area = "Refresh" /\ (e.stage = "refresh" \/ e.detector \in RefreshDetector)

LifecycleStageMatches(area, stage) ==
    \/ area = "Cookies"
    \/ area = "Logout" /\ stage = "revoke"
    \/ area = "Refresh" /\ stage = "refresh"

CollectArtifactEvidence(area, a) ==
    {e \in a.evidence : LifecycleStageMatches(area, e.stage)}
    \cup IF area = "Cookies" THEN CookieEvidence(a.id) ELSE {}

\* The words titles of findings say; a title names its artifact.
TitleSays(f) ==
    (CASE f.rule \in {"lifecycle_refresh_without_revoke", "lifecycle_refresh_dynamic_review",
                      "refresh_family_revocation_absent_on_logout_review"}
            -> {"refresh", "revoke"} \cup (IF f.rule = "refresh_family_revocation_absent_on_logout_review"
                                           THEN {"logout"} ELSE {})
       [] f.rule \in {"lifecycle_reset_without_single_use", "password_change_global_revocation_absent_review"}
            -> {"revoke"}
       [] f.rule = "lifecycle_clear_cookie_only_logout" -> {"cookie", "logout", "revoke"}
       [] f.rule = "lifecycle_cookie_clear_attribute_mismatch" -> {"cookie"}
       [] f.rule = "jwt_denylist_absent_on_logout_review" -> {"logout"}
       [] OTHER -> {})
    \cup (IF IsRefresh(Lookup(f.artifact)) THEN {"refresh"} ELSE {})
    \cup (IF Lookup(f.artifact).name = "logout" THEN {"logout"} ELSE {})

-----------------------------------------------------------------------------
(* The sets: ids of artifacts, and evidence.                               *)
Meets(ids, evidence, kept) == ids \cap kept.ids # {} \/ evidence \cap kept.evidence # {}

\* One path of the walk.
Widen(area, kept, p) ==
    IF Meets(IdsOf(p), p.evidence, kept)
    THEN [ids |-> kept.ids \cup IdsOf(p),
          evidence |-> kept.evidence \cup {e \in p.evidence : LifecycleStageMatches(area, e.stage)}]
    ELSE kept

\* The walk over the paths in the order `order`.
Walked(area, start, order) ==
    LET kept[n \in 0..Len(order)] ==
            IF n = 0 THEN start ELSE Widen(area, kept[n - 1], order[n])
    IN kept[Len(order)]

FindingMatches(area, f, kept) ==
    \/ f.evidence \cap kept.evidence # {}
    \/ area = "Cookies" /\ "cookie" \in TitleSays(f) /\ f.artifact \in kept.ids
    \/ area = "Logout" /\ TitleSays(f) \cap {"logout", "revoke"} # {}
    \/ area = "Refresh" /\ "refresh" \in TitleSays(f) /\ f.artifact \in kept.ids

\* filter_report, of a report whose paths are in the order `order`.
View(area, order) ==
    LET evidence == {e \in ReportEvidence : EvidenceMatches(area, e)}
        ids == {artifacts[k].id : k \in {l \in Index : \/ ArtifactMatches(area, artifacts[l])
                                                      \/ artifacts[l].evidence \cap evidence # {}}}
        collected == UNION {CollectArtifactEvidence(area, artifacts[k]) :
                                k \in {l \in Index : artifacts[l].id \in ids}}
        widened == Walked(area, [ids |-> ids, evidence |-> evidence \cup collected], order)
        told == {f \in findings : FindingMatches(area, f, widened)}
        kept == [ids |-> widened.ids \cup {f.artifact : f \in told},
                 evidence |-> widened.evidence \cup UNION {f.evidence : f \in told}]
        held == {k \in Index : artifacts[k].id \in kept.ids}
    IN [findings |-> told,
        artifacts |-> held,
        evidence |-> ReportEvidence \cap kept.evidence,
        paths |-> {p \in {order[n] : n \in DOMAIN order} : Meets(IdsOf(p), p.evidence, kept)},
        \* filter_file, summarize_files: a file with nothing left is not counted,
        \* and so none that was skipped.
        files |-> {e.file : e \in (ReportEvidence \cap kept.evidence)
                                  \cup UNION {artifacts[k].evidence : k \in held}}]

-----------------------------------------------------------------------------
(* Properties.                                                             *)

\* "Filter findings to the named capability area" (docs/USAGE.md): a view keeps
\* what the rules of its area find, wherever the evidence they name was merged and
\* in whichever order the hashes of the paths put them.
RulesOf == [Cookies |-> {"lifecycle_cookie_clear_attribute_mismatch"},
            Logout |-> LogoutRules \cup {"lifecycle_clear_cookie_only_logout"},
            Refresh |-> RefreshRules \cup {"refresh_family_revocation_absent_on_logout_review"}]
ViewKeepsItsFindings ==
    \A area \in CapabilityArea : \A order \in {linked, Reverse(linked)} :
        {f \in findings : f.rule \in RulesOf[area]} \subseteq View(area, order).findings
=============================================================================
