-------------------------------- MODULE Report --------------------------------
(***************************************************************************)
(* The scan report as the classifiers read it (sessionscope-model): the    *)
(* artifacts the detectors found, the evidence for them, and the findings  *)
(* a classifier adds.  A report r has                                      *)
(*   r.artifacts   a sequence, in the order of the files and detectors;    *)
(*   r.evidence    the set of all evidence, with that of no artifact.      *)
(* An artifact holds its evidence, not only the ids, since the detectors   *)
(* emit the two together; lifecycle_evidence.<stage> is the evidence of    *)
(* that stage.  An id is the facts it is hashed from, and the order of ids *)
(* means nothing: the first of a set of ids is any one, always the same.   *)
(* The text of an excerpt is the set of the words the rules look for.      *)
(***************************************************************************)
EXTENDS Integers, Sequences, FiniteSets

Stage == {"issue", "store", "transmit", "validate", "refresh", "revoke",
          "expire", "introspect"}

Confidence == {"low", "medium", "high"}
Severity == {"info", "low", "medium", "high"}

\* The categories of FindingCategory by their wire names.
Misconfigured == "high_confidence_misconfiguration"
MissingCheck == "missing_validation_evidence"
Gap == "lifecycle_gap"
Review == "dynamic_review_required"
Assumed == "framework_default_assumed"
Category == {Misconfigured, MissingCheck, Gap, Review, Assumed}

ArtifactKind ==
    {"SessionCookie", "SignedCookie", "AccessJwt", "RefreshJwt",
     "OpaqueBearerToken", "ApiKey", "ServiceToken", "UnknownToken",
     "PasswordResetToken", "EmailVerificationToken", "OAuthAuthCodeFlow",
     "SessionRecord", "Unknown"}

NoName == "dynamic"     \* display_name is None
NoLine == 0             \* a location without a line

\* An observation of an attribute of a cookie, a JWT or a boundary.
ObservationState == {"present", "missing", "dynamic", "framework_default", "unknown"}
NoValue == "none given"
Observation(state, value, confidence, ids) ==
    [state |-> state, value |-> value, confidence |-> confidence, ids |-> ids]
Unobserved == Observation("unknown", NoValue, "low", {})

\* Attributes an artifact of another kind does not have.
NoAttributes == [none |-> TRUE]

-----------------------------------------------------------------------------
Range1(s) == {s[k] : k \in DOMAIN s}
Artifacts(r) == Range1(r.artifacts)
AllEvidence(r) == r.evidence

Ids(E) == {e.id : e \in E}
Of(E, detectors) == {e \in E : e.detector \in detectors}
In(E, stages) == {e \in E : e.stage \in stages}
HasStage(E, s) == \E e \in E : e.stage = s
HasDetector(E, d) == \E e \in E : e.detector = d

\* |left.line - right.line| <= n in one file, both lines known.
Within(n, e, f) == /\ e.file = f.file
                   /\ e.line # NoLine /\ f.line # NoLine
                   /\ e.line - f.line \in -n..n

Least(S) == CHOOSE x \in S : \A y \in S : x <= y
FirstPart(ids) == IF ids = {} THEN <<>> ELSE CHOOSE x \in ids : TRUE

\* Slip: one id for all findings of a rule about an artifact.
FindingOfArtifact(rule, category, severity, a, ids) ==
    [rule |-> rule, category |-> category, severity |-> severity,
     artifacts |-> {a.id}, evidence |-> ids, id |-> <<rule, a.id, a.name>>]

\* stable_finding_id hashes rule, artifact, first evidence and name: findings
\* that agree on the four have one id.
Finding(rule, category, severity, a, ids) ==
    [rule |-> rule, category |-> category, severity |-> severity,
     artifacts |-> {a.id}, evidence |-> ids,
     id |-> <<rule, a.id, FirstPart(ids), a.name>>]

\* The findings about a of the rules <<guard, rule, category, severity, ids>>
\* whose guard is true.
Fire(a, rules) == {Finding(t[2], t[3], t[4], a, t[5]) : t \in {u \in rules : u[1]}}
=============================================================================
