---------------------------- MODULE LifecycleRules ----------------------------
(***************************************************************************)
(* The lifecycle classifier (sessionscope-classifier, lifecycle.rs,         *)
(* classify): ten rules over the linked paths of a report.  Paths are judged *)
(* by the one artifact that represents them and by the evidence merged into  *)
(* them; some rules also look for evidence of the report near the path.      *)
(*                                                                         *)
(* Here a piece of evidence has three facts more: whether it is dynamic, the *)
(* words its excerpt says, and the path and domain its options write, those  *)
(* that are static.                                                         *)
(***************************************************************************)
EXTENDS LifecycleLink

CONSTANT
    Attributes      \* for the ids of cookies set with a static path or domain:
                    \* by attribute, its value ("" if not static) and its evidence

\* What the detectors emit: a logout handler is an artifact of its own name, which
\* no JWT has, and refresh tokens are revoked by calls that say so.
ASSUME DetectorAssumption ==
    \A s \in Inputs : \A k \in 1..Len(s) :
        /\ (\E e \in s[k].evidence : e.detector = "logout.handler") => s[k].name = "logout"
        /\ s[k].name = "logout" => s[k].type \notin {"AccessJwt", "RefreshJwt"}
        /\ IsRefresh(s[k]) => \A e \in s[k].evidence : e.stage = "revoke" =>
            e.detector \in {"refresh.rotate", "refresh.revoke", "refresh.provider", "refresh.reuse_detection",
                            "logout.token_revoke", "logout.provider_revoke", "logout.cookie_clear"}

VARIABLE findings   \* the lifecycle findings, {} before they are made

-----------------------------------------------------------------------------
(* Evidence.                                                               *)
Says(e, words) == e.says \cap words # {}

\* Slip: a cookie that is cleared counts as revoked.
ServerRevokeOrClear(e) ==
    e.stage = "revoke" /\ e.detector # "logout.handler"
\* is_server_revoke_evidence, of evidence in the revoke stage
ServerRevoke(e) ==
    /\ e.stage = "revoke"
    /\ e.detector \in {"logout.session_destroy", "logout.token_revoke", "logout.provider_revoke",
                       "refresh.rotate", "refresh.revoke", "refresh.provider", "refresh.reuse_detection"}
Clears(e) == e.stage = "revoke" /\ e.detector = "logout.cookie_clear"
Rotates(e) == e.detector \in {"session.regenerate", "session.reissue",
                              "session.framework_default_regenerate", "refresh.rotate"}

\* contains_jwt_denylist_text, of any evidence
DenylistsJwt(e) ==
    /\ Says(e, {"revoke", "blocklist"})
    /\ Says(e, {"jwt", "access"}) \/ ("token" \in e.says /\ "refresh" \notin e.says)
FamilyText(e) == "refresh" \in e.says /\ "family" \in e.says /\ Says(e, {"revoke", "delete"})
RevokesFamily(e) ==
    \/ e.detector = "refresh.reuse_detection" /\ e.stage = "revoke"
    \/ /\ e.detector \in {"refresh.revoke", "refresh.rotate", "logout.token_revoke", "logout.provider_revoke"}
       /\ FamilyText(e)
RevokesAll(e) == e.detector = "password_change.global_revoke" \/ RevokesFamily(e)
Slides(e) == /\ e.detector \in {"session.middleware", "refresh.expire", "refresh.store"}
             /\ {"sliding", "lifetime"} \subseteq e.says

-----------------------------------------------------------------------------
(* Paths.                                                                  *)
StageOf(p, stage) == {e \in p.evidence : e.stage = stage}
ReportEvidence == UNION {artifacts[k].evidence : k \in Index}

\* Slip: lines are compared, files are not.
NearPathInAnyFile(e, p) == \E f \in p.evidence : e.line - f.line \in -MaxDistance..MaxDistance
\* evidence_linked_to_path_context
NearPath(e, p) == \E f \in p.evidence : Near(e, f)

\* Evidence of one kind in a stage of the path, or anywhere near it.
Linked(Is(_), p, stage) ==
    (\E e \in StageOf(p, stage) : Is(e)) \/ \E e \in ReportEvidence : Is(e) /\ NearPath(e, p)

\* linked_logout_handler_ids
Logouts(p) ==
    LET handlers == {e \in ReportEvidence : e.detector = "logout.handler"}
        own == handlers \cap StageOf(p, "revoke")
    IN IF own # {} THEN own ELSE {e \in handlers : NearPath(e, p)}

\* The evidence of a logout finding: of one stage after the other, while there
\* is only one piece.
Widened(E, F) == IF Cardinality(E) = 1 THEN E \cup F ELSE E

-----------------------------------------------------------------------------
(* Rules, of a path p and the artifact a that represents it.               *)
Finding(rule, category, a, p, evidence) ==
    {[rule |-> rule, category |-> category, artifact |-> a.id, path |-> p.stamp, evidence |-> evidence]}
Gap(is, rule, a, p, evidence) == IF is THEN Finding(rule, "lifecycle_gap", a, p, evidence) ELSE {}
Review(is, rule, a, p, evidence) ==
    IF is THEN Finding(rule, "dynamic_review_required", a, p, evidence) ELSE {}

IssueWithoutValidate(a, p) ==
    Gap(a.type \in {"AccessJwt", "RefreshJwt"} /\ HasStage(p, "issue") /\ ~HasStage(p, "validate"),
        "lifecycle_issue_without_validate", a, p, StageOf(p, "issue"))

RefreshWithoutRevoke(a, p) ==
    LET refreshes == StageOf(p, "refresh")
        unrevoked == /\ refreshes # {} /\ \A e \in p.evidence : ~ServerRevoke(e)
                     /\ \/ IsRefresh(a)
                        \/ \E e \in refreshes : e.detector \in {"refresh.handler", "refresh.rotate", "refresh.provider"}
        unsure == \E e \in refreshes : e.dynamic \/ e.detector = "refresh.provider"
    IN Review(unrevoked /\ unsure, "lifecycle_refresh_dynamic_review", a, p, refreshes)
       \cup Gap(unrevoked /\ ~unsure, "lifecycle_refresh_without_revoke", a, p, refreshes)

Reset(a, p, stage, rule) ==
    Gap(/\ a.type \in {"PasswordResetToken", "EmailVerificationToken"}
        /\ HasStage(p, "issue") /\ ~HasStage(p, stage), rule, a, p, p.evidence)
ResetWithoutExpiry(a, p) == Reset(a, p, "expire", "lifecycle_reset_without_expiry")
ResetWithoutSingleUse(a, p) == Reset(a, p, "revoke", "lifecycle_reset_without_single_use")

\* The types of rules about sessions, kept in cookies or by a server.
SessionLike == {"SessionCookie", "SignedCookie", "SessionRecord", "RefreshJwt", "Unknown"}
Clearings(p) == {e \in p.evidence : Clears(e)}
ClearCookieOnly(a, p) ==
    Gap(/\ Clearings(p) # {} /\ \A e \in p.evidence : ~ServerRevoke(e)
        /\ a.type \in SessionLike, "lifecycle_clear_cookie_only_logout", a, p, Clearings(p))

\* attribute_missing_or_mismatched: no clearing writes the attribute, or none
\* with the value it was set to.
Mismatched(p, x, value) ==
    LET written == {e.options[x] : e \in {c \in Clearings(p) : x \in DOMAIN c.options}}
    IN written = {} \/ (value # "" /\ value \notin written)
ClearAttributeMismatch(a, p) ==
    LET set == IF a.id \in DOMAIN Attributes THEN Attributes[a.id] ELSE <<>>
        wrong == {x \in DOMAIN set : Mismatched(p, x, set[x].value)}
    IN Review(Clearings(p) # {} /\ a.type \in {"SessionCookie", "SignedCookie"} /\ wrong # {},
              "lifecycle_cookie_clear_attribute_mismatch", a, p,
              Clearings(p) \cup {set[x].evidence : x \in wrong})

DenylistAbsent(a, p) ==
    Gap(/\ a.type = "AccessJwt"
        /\ HasStage(p, "issue") \/ HasStage(p, "validate")
        /\ Logouts(p) # {} /\ ~Linked(DenylistsJwt, p, "revoke"),
        "jwt_denylist_absent_on_logout_review", a, p,
        Widened(Logouts(p) \cup StageOf(p, "issue"), StageOf(p, "validate")))

FamilyRevocationAbsent(a, p) ==
    Gap(/\ IsRefresh(a) /\ \E e \in p.evidence : e.stage \in {"issue", "store", "refresh", "validate"}
        /\ Logouts(p) # {} /\ ~Linked(RevokesFamily, p, "revoke"),
        "refresh_family_revocation_absent_on_logout_review", a, p,
        Widened(Widened(Logouts(p) \cup StageOf(p, "refresh"), StageOf(p, "store")), StageOf(p, "issue")))

SlidingWithoutRotation(a, p) ==
    LET sliding == {e \in p.evidence : Slides(e)}
    IN Gap(a.type \in SessionLike /\ sliding # {} /\ ~Linked(Rotates, p, "refresh"),
           "sliding_expiry_without_rotation_review", a, p, sliding)

PasswordChangeWithoutRevocation(a, p) ==
    LET handlers == {e \in p.evidence : e.detector = "password_change.handler"}
    IN Gap(/\ handlers # {} /\ \A e \in p.evidence : ~RevokesAll(e)
           /\ \A e \in ReportEvidence : RevokesAll(e) => ~NearPath(e, p),
           "password_change_global_revocation_absent_review", a, p, handlers)

PathFindings(a, p) ==
    IssueWithoutValidate(a, p) \cup RefreshWithoutRevoke(a, p) \cup ResetWithoutExpiry(a, p)
    \cup ResetWithoutSingleUse(a, p) \cup ClearCookieOnly(a, p) \cup ClearAttributeMismatch(a, p)
    \cup DenylistAbsent(a, p) \cup FamilyRevocationAbsent(a, p) \cup SlidingWithoutRotation(a, p)
    \cup PasswordChangeWithoutRevocation(a, p)

-----------------------------------------------------------------------------
LifecycleFindings == UNION {PathFindings(Representative(linked[n]), linked[n]) : n \in DOMAIN linked}

RulesInit == Init /\ findings = {}
Classify == /\ pass = "linked"
            /\ pass' = "classified"
            /\ findings' = LifecycleFindings
            /\ UNCHANGED <<artifacts, paths, gone, i, j, linked>>
RulesNext == \/ Step /\ UNCHANGED findings
             \/ Classify
             \/ pass = "classified" /\ UNCHANGED <<vars, findings>>
RulesSpec == RulesInit /\ [][RulesNext]_<<vars, findings>> /\ WF_<<vars, findings>>(RulesNext)

-----------------------------------------------------------------------------
(* Properties.                                                             *)
\* Evidence that the server, and not only the browser, forgets something.
ServerSide(e) == e.stage = "revoke" /\ e.detector \notin {"logout.cookie_clear", "logout.handler"}
RefreshRules == {"lifecycle_refresh_without_revoke", "lifecycle_refresh_dynamic_review"}
Told(rules, e) == \E f \in findings : f.rule \in rules /\ e \in f.evidence

\* A path of refresh tokens is not reported as never revoked when the server
\* revokes one of their type and name near each of them, whatever tokens of that
\* type the revocation was merged into first.  (Near one of them is not enough: the
\* refresh pass sweeps once.)
RevokedNotReported ==
    \A f \in findings : f.rule \in RefreshRules =>
        ~\E r \in Index :
            /\ OnlyRevoke(artifacts[r]) /\ artifacts[r].name \in RefreshName
            /\ \E e \in artifacts[r].evidence : ServerSide(e)
            /\ \A k \in Members(f.path[2]) : /\ artifacts[k].name = artifacts[r].name
                                            /\ artifacts[k].type = artifacts[r].type
                                            /\ InContext(artifacts[k], artifacts[r])
            /\ \A n \in DOMAIN linked : LET M == Members(linked[n].evidence) IN
                  r \in M => \A k \in M : /\ IsRefresh(artifacts[k])
                                         /\ artifacts[k].type = artifacts[r].type

\* "Clearing a refresh cookie remains client-side evidence only" (SS-DEC-006), and
\* so does that of a session cookie (SS-DEC-005): in a report where the server
\* revokes nothing every refresh of a refresh token is reported, and every
\* clearing of a session where no token of another kind has its name, whatever
\* is merged with it.
SessionNames == SessionAlias \cup RefreshName
ClearingIsNotRevoking ==
    (pass = "classified" /\ \A e \in ReportEvidence : ~ServerSide(e)) =>
        \A k \in Index : \A e \in artifacts[k].evidence :
            /\ (artifacts[k].name \in RefreshName /\ e.stage = "refresh") => Told(RefreshRules, e)
            /\ (/\ Clears(e) /\ artifacts[k].name \in SessionNames
                /\ \A l \in Index : artifacts[l].name \in SessionNames => artifacts[l].type \in SessionLike)
               => Told({"lifecycle_clear_cookie_only_logout"}, e)

\* A logout is held against a token only where the token is issued, checked, kept
\* or refreshed near it (docs/COVERAGE_MATRIX.md: "linked by source context").
LogoutRules == {"jwt_denylist_absent_on_logout_review", "refresh_family_revocation_absent_on_logout_review"}
LogoutNearToken ==
    \A f \in findings : f.rule \in LogoutRules =>
        \E e \in f.evidence : e.detector = "logout.handler" /\ \E g \in f.path[2] \ {e} : Near(e, g)

\* "Password-change without global session or refresh-family revocation evidence"
\* (docs/USAGE.md) is reported: a handler near which nothing revokes is.
PasswordChangeReported ==
    pass = "classified" =>
        \A e \in ReportEvidence :
            (/\ e.detector = "password_change.handler"
             /\ \A g \in ReportEvidence : RevokesAll(g) => ~Near(e, g))
            => Told({"password_change_global_revocation_absent_review"}, e)

\* "lifecycle_gap when evidence shows part of the lifecycle but no linked
\* counterpart" (SS-DEC-003): a JWT that is issued, and of whose name nothing is
\* validated, is reported.
IssuedIsJudged ==
    pass = "classified" =>
        \A k \in Index : \A e \in artifacts[k].evidence :
            (/\ artifacts[k].type = "AccessJwt" /\ e.stage = "issue"
             /\ \A g \in ReportEvidence : g.stage # "validate")
            => Told({"lifecycle_issue_without_validate"}, e)
=============================================================================
