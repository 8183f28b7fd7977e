------------------------------- MODULE ResetCode ------------------------------
(***************************************************************************)
(* The detector of password reset and email verification tokens             *)
(* (sessionscope-detectors, reset_tokens).  A file with a line that issues  *)
(* such a token has one artifact of that family; the first line that speaks *)
(* of an expiry, and the first that speaks of a single use, wherever they   *)
(* are and whatever of, are its evidence, and that of the other family too. *)
(***************************************************************************)
EXTENDS Words

Families ==
    << [type |-> "PasswordResetToken", name |-> "password_reset_token",
        terms |-> {"create_reset_token", "generate_reset", "password_reset_token", "reset_token"},
        detectors |-> [issue |-> "reset.issue", expire |-> "reset.expire", revoke |-> "reset.single_use"]],
       [type |-> "EmailVerificationToken", name |-> "email_verification_token",
        terms |-> {"create_verification_token", "generate_verification", "verification_token",
                   "email_verification_token"},
        detectors |-> [issue |-> "verification.issue", expire |-> "verification.expire",
                       revoke |-> "verification.single_use"]] >>
ExpiryTerms == {"expires_at", "expires", "expiry", "ttl", "timedelta", "max_age", "maxage"}
SingleUseTerms == {"single_use", "used_at", "consumed", "consume", "delete", "revoke", "invalidate"}

\* contains_term: a term is a whole identifier; what is a part of another word of
\* the line is none, but for the method that a dot sets apart.
Dotted == {"cookies_delete", "req_cookies_delete", "DELETE"}
Term(T, w) == /\ w \in T
              /\ \A v \in (T \cap DOMAIN Parts) \ Dotted : w \notin Parts[v]

\* first_matching_location, 0 for none
FirstLineOf(f, terms) ==
    LET lines == {n \in DOMAIN f.nodes : \E w \in terms : Term(OwnText(f.nodes[n]), w)}
    IN IF lines = {} THEN 0 ELSE Least(lines)

\* append_family_evidence
ResetEvidence(f, family) ==
    LET terms == [issue |-> family.terms, expire |-> ExpiryTerms, revoke |-> SingleUseTerms]
    IN {EvidenceAt(f, family.detectors[s], <<s>>, FirstLineOf(f, terms[s]), family.name, s, "present", {}) :
          s \in {x \in DOMAIN terms : FirstLineOf(f, terms[x]) # 0}}
ResetArtifact(f, family) ==
    LET evidence == ResetEvidence(f, family)
    IN Artifact(f, "reset.lifecycle", <<family.type>>, NoLine, Least({e.line : e \in evidence}), family.type,
                family.name, {}, evidence)
ResetArtifacts(f) ==
    FlattenSeq(Each(LAMBDA family : IF FirstLineOf(f, family.terms) = 0 THEN <<>> ELSE <<ResetArtifact(f, family)>>,
                    Families))
=============================================================================
