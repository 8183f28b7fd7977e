------------------------------- MODULE JwtRules -------------------------------
(***************************************************************************)
(* The JWT classifier (sessionscope-classifier, jwt.rs).  A JWT's           *)
(* observations are a.jwt, by attribute; a value, like an excerpt, is the   *)
(* set of what the rules look for in its text:                              *)
(*   "none", "hmac", "asymmetric"   algorithms                              *)
(*   "public", "private"            what a key reference is named for       *)
(*   "true", "false"                literals                                *)
(*   "trusted", "untrusted"         an allow-list, pinned keys, ...         *)
(*   "key map"                      a static key-map lookup                 *)
(*   durations                      the members of DOMAIN Seconds           *)
(*   "..."                          values left out of an observation       *)
(***************************************************************************)
EXTENDS Report

CONSTANT Seconds    \* parse_duration_seconds, of the durations

ASSUME SecondsAssumption == \A text \in DOMAIN Seconds : Seconds[text] \in Nat

JwtAttribute == {"operation", "algorithm", "key_reference", "issuer", "audience",
                 "expiration", "signature_verification", "expiry_enforcement"}

Validating(a) == Ids(In(a.evidence, {"validate"}))
Inspecting(a) == Ids(In(a.evidence, {"introspect"}))
Expiring(a) == Ids(In(a.evidence, {"expire"}))
Issuing(a) == Ids(In(a.evidence, {"issue"}))

\* artifact_bound_evidence
Bound(a, detector) == Of(In(a.evidence, {"validate"}), {detector})
Says(E, word) == \E e \in E : word \in e.says
\* Slip: nothing is cited when the observation has no evidence.
NoFallback(ids, fallback) == ids
Fallback(ids, fallback) == IF ids = {} THEN fallback ELSE ids

-----------------------------------------------------------------------------
AlgorithmOptions(a) == Bound(a, "jwt.option.algorithms")

\* Without an allow-list it is a default of the libraries named in the hints.
AlgNoneRules(a) ==
    LET options == AlgorithmOptions(a)
        algorithm == a.jwt["algorithm"]
        none == Says(options, "none") \/ "none" \in algorithm.value
        dynamic == \/ \E e \in options : e.dynamic
                   \/ algorithm.state = "dynamic"
        unpinned == algorithm.state = "unknown" /\ a.hints \cap {"jsonwebtoken", "pyjwt"} # {}
        rule == "jwt_alg_none_accepted"
    IN Fire(a, {<<none, rule, Misconfigured, "high",
                  Fallback(Ids(options) \cup algorithm.ids, Validating(a))>>,
                <<~none /\ ~dynamic /\ unpinned, rule, Assumed, "medium", Validating(a)>>})

AcceptedAlgorithms(a) == a.jwt["algorithm"].value \cup UNION {e.says : e \in AlgorithmOptions(a)}

\* public_key_like_reference
PublicKey(a) == LET words == a.jwt["key_reference"].value
                IN "public" \in words /\ "private" \notin words

AlgConfusionRules(a) ==
    LET hmac == "hmac" \in AcceptedAlgorithms(a)
        asymmetric == "asymmetric" \in AcceptedAlgorithms(a)
        ids == Ids(AlgorithmOptions(a)) \cup a.jwt["algorithm"].ids \cup a.jwt["key_reference"].ids
        rule == "jwt_alg_confusion_signal"
    IN Fire(a, {<<hmac /\ asymmetric, rule, Misconfigured, "high", ids>>,
                <<hmac /\ ~asymmetric /\ PublicKey(a), rule, Review, "medium", ids>>})

\* Headers do not vouch for themselves, except for a lookup of the kid.
Header == {"jwt.header.jku", "jwt.header.x5u", "jwt.header.jwk", "jwt.header.kid"}
Vouches(e) == /\ {"trusted", "key map"} \cap e.says # {}
              /\ "untrusted" \notin e.says
TrustedKeys(a) == \E e \in In(a.evidence, {"validate"}) : e.detector \notin Header /\ Vouches(e)
TrustedKid(a) == \/ TrustedKeys(a)
                 \/ Says(Bound(a, "jwt.header.kid"), "key map")

HeaderTrustRules(a) ==
    LET complete == Bound(a, "jwt.option.complete")
        trusts(header, rule) ==
            LET read == Bound(a, header)
            IN <<Says(complete, "true") /\ read # {} /\ ~TrustedKeys(a),
                 rule, Review, "medium", Ids(complete) \cup Ids(read)>>
    IN Fire(a, {trusts("jwt.header.jku", "jwt_jku_header_trust"),
                trusts("jwt.header.x5u", "jwt_x5u_header_trust"),
                trusts("jwt.header.jwk", "jwt_embedded_jwk_trust")})

\* nbf_is_ignored: the excerpt names the option and its value.
Ignores(e) == \/ {"ignoreNotBefore", "true"} \subseteq e.says
              \/ {"verify_nbf", "false"} \subseteq e.says

\* A tolerance the parser makes nothing of is not broad.
Broad(e) == e.dynamic \/ \E text \in e.says \cap DOMAIN Seconds : Seconds[text] > 60

NbfClockKidRules(a) ==
    LET nbf == Bound(a, "jwt.option.ignore_not_before")
        clock == Bound(a, "jwt.option.clock_tolerance")
        kid == Bound(a, "jwt.header.kid")
    IN Fire(a,
       {<<nbf = {} \/ (\E e \in nbf : Ignores(e)),
          "jwt_nbf_missing", MissingCheck, "low", Fallback(Ids(nbf), Validating(a))>>,
        <<\E e \in clock : Broad(e), "jwt_clock_skew_review", Review, "medium", Ids(clock)>>,
        <<kid # {} /\ ~TrustedKid(a),
          "jwt_kid_unvalidated_review", MissingCheck, "medium", Ids(kid)>>})

-----------------------------------------------------------------------------
DecodeRules(a) ==
    LET signature == a.jwt["signature_verification"] IN
    Fire(a, {<<\/ "decode_without_verify" \in a.jwt["operation"].value
               \/ signature.state = "missing",
               "jwt_decode_without_verify", Misconfigured, "high",
               Fallback(signature.ids, Inspecting(a))>>})

ValidationRules(a, o, missing, dynamic) ==
    LET ids == Fallback(o.ids, Validating(a)) IN
    Fire(a, {<<o.state = "missing", missing, MissingCheck, "medium", ids>>,
             <<o.state = "dynamic", dynamic, Review, "medium", ids>>})

ExpirationRules(a) ==
    LET o == a.jwt["expiration"]
        ids == Fallback(o.ids, Expiring(a))
    IN Fire(a, {<<o.state = "missing", "jwt_missing_expiration", Gap, "low", ids>>,
                <<o.state = "dynamic", "jwt_dynamic_expiration", Review, "medium", ids>>})

ExpiryEnforcementRules(a) ==
    LET o == a.jwt["expiry_enforcement"]
        ids == Fallback(o.ids, Validating(a))
    IN Fire(a,
       {<<o.state = "missing", "jwt_expiry_enforcement_disabled", Misconfigured, "high", ids>>,
        <<o.state = "dynamic", "jwt_dynamic_expiry_enforcement", Review, "medium", ids>>,
        <<o.state = "framework_default", "jwt_default_expiry_enforcement", Assumed, "low", ids>>})

JwtFindings(r) ==
    UNION {DecodeRules(a)
           \cup (IF Validating(a) = {} THEN {}
                 ELSE AlgNoneRules(a) \cup AlgConfusionRules(a) \cup HeaderTrustRules(a)
                      \cup NbfClockKidRules(a)
                      \cup ValidationRules(a, a.jwt["issuer"], "jwt_missing_issuer", "jwt_dynamic_issuer")
                      \cup ValidationRules(a, a.jwt["audience"], "jwt_missing_audience",
                                           "jwt_dynamic_audience"))
           \cup (IF Issuing(a) = {} THEN {} ELSE ExpirationRules(a))
           \cup (IF Validating(a) \cup Inspecting(a) = {} THEN {} ELSE ExpiryEnforcementRules(a)) :
           a \in {b \in Artifacts(r) : b.jwt # NoAttributes}}
=============================================================================
