----------------------------- MODULE CookieRules ------------------------------
(***************************************************************************)
(* The cookie classifier (sessionscope-classifier, cookies.rs).  A cookie's *)
(* observations are a.cookie: httpOnly, secure, sameSite, maxAge, expires,  *)
(* path and domain.  Values are what their parsers make of the text:        *)
(*   secure, httpOnly   "true", "false"                                     *)
(*   sameSite           "none", "lax"                                       *)
(*   path               "/", "/app"                                         *)
(*   domain             "broad" (a name with a dot), "host" (none, a name    *)
(*                      without one, localhost, an address)                 *)
(*   maxAge, expires    the text; Number, Days and FarFuture say what the   *)
(*                      parsers make of it                                  *)
(***************************************************************************)
EXTENDS Report

CONSTANTS
    HostNames,      \* the names that start with __Host-
    SecureNames,    \* the names that start with __Secure-
    SessionNames,   \* the names that say the cookie holds a session
    Number,         \* eval_numeric_expression, of the texts it evaluates
    Days,           \* the days of the timedelta, of the texts that have one
    FarFuture,      \* the texts that name a year far away
    IntBits         \* the width of the signed integers of the evaluator

ASSUME CookieNamesAssumption ==
    /\ HostNames \cap SecureNames = {}
    /\ NoName \notin HostNames \cup SecureNames \cup SessionNames
    /\ IntBits \in 1..30

ExcessiveSeconds == 30 * 24 * 60 * 60

\* Arithmetic of i64, at the width IntBits.
Wrap(n) == LET m == n % 2^IntBits
           IN IF m >= 2^(IntBits - 1) THEN m - 2^IntBits ELSE m

SessionLike(a) == \/ a.type \in {"SessionCookie", "SignedCookie"}
                  \/ a.name \in SessionNames

Prefix(name) == IF name \in HostNames THEN "__Host-"
                ELSE IF name \in SecureNames THEN "__Secure-" ELSE "no prefix"

IsPresent(o) == o.state = "present"
IsMissing(o) == o.state = "missing"
IsDynamic(o) == o.state = "dynamic"
IsDefault(o) == o.state = "framework_default"
Literal(o) == IsPresent(o) /\ o.confidence = "high"
SureMissing(o) == IsMissing(o) /\ o.confidence = "high"

\* lifecycle_evidence.store or .transmit holds it; an artifact has at most one.
ArtifactEvidence(a, detector) == Of(In(a.evidence, {"store", "transmit"}), {detector})

WithPrefix(a, o) == o.ids \cup Ids(ArtifactEvidence(a, "cookie.attribute.name_prefix"))

-----------------------------------------------------------------------------
PrefixRules(a) ==
    LET p == Prefix(a.name)
        host == p = "__Host-"
        path == a.cookie.path
        domain == a.cookie.domain
        secure == a.cookie.secure
        secureRule == IF host THEN "cookie_host_prefix_secure_violation"
                      ELSE "cookie_secure_prefix_secure_violation"
    IN Fire(a,
       {<<host /\ ((Literal(path) /\ path.value # "/") \/ IsMissing(path)),
          "cookie_host_prefix_path_violation", Misconfigured, "high", WithPrefix(a, path)>>,
        <<host /\ IsDynamic(path),
          "cookie_host_prefix_path_violation", Review, "medium", WithPrefix(a, path)>>,
        <<host /\ IsPresent(domain),
          "cookie_host_prefix_domain_violation", Misconfigured, "high", WithPrefix(a, domain)>>,
        <<host /\ IsDynamic(domain),
          "cookie_host_prefix_domain_violation", Review, "medium", WithPrefix(a, domain)>>,
        <<p # "no prefix" /\ IsMissing(secure),
          secureRule, Misconfigured, "high", WithPrefix(a, secure)>>,
        <<p # "no prefix" /\ (IsDynamic(secure) \/ IsDefault(secure)),
          secureRule, Review, "medium", WithPrefix(a, secure)>>})

\* The four outcomes HttpOnly and Secure share.
FlagRules(a, o, missing, defaultFalse, dynamic, default) ==
    LET false == o.value = "false" /\ o.confidence = "low" IN
    Fire(a, {<<SureMissing(o), missing, Misconfigured, "high", o.ids>>,
             <<IsDefault(o) /\ false, defaultFalse, Assumed, "low", o.ids>>,
             <<IsDynamic(o), dynamic, Review, "medium", o.ids>>,
             <<IsDefault(o) /\ ~false, default, Assumed, "low", o.ids>>})

HttpOnlyRules(a) ==
    FlagRules(a, a.cookie.httpOnly, "cookie_missing_httponly", "cookie_default_false_httponly",
              "cookie_dynamic_httponly", "cookie_default_httponly")
SecureRules(a) ==
    FlagRules(a, a.cookie.secure, "cookie_missing_secure", "cookie_default_false_secure",
              "cookie_dynamic_secure", "cookie_default_secure")

SameSiteNone(a) == a.cookie.sameSite.value = "none"

SameSiteRules(a) ==
    LET same == a.cookie.sameSite
        secure == a.cookie.secure
        both == same.ids \cup secure.ids
        session == SessionLike(a)
    IN Fire(a,
       {<<SameSiteNone(a) /\ IsMissing(secure),
          "cookie_samesite_none_without_secure", Misconfigured, "high", both>>,
        <<SameSiteNone(a) /\ IsDynamic(secure),
          "cookie_samesite_none_dynamic_secure", Review, "medium", both>>,
        <<SameSiteNone(a) /\ IsDefault(secure),
          "cookie_samesite_none_default_secure", Assumed, "medium", both>>,
        <<SameSiteNone(a) /\ IsPresent(secure),
          "cookie_samesite_none_cross_site_review", Review, "low", both>>,
        <<session /\ SureMissing(same),
          "cookie_missing_samesite", Misconfigured, "medium", same.ids>>,
        <<session /\ IsDynamic(same), "cookie_dynamic_samesite", Review, "medium", same.ids>>,
        <<session /\ IsDefault(same), "cookie_default_samesite", Assumed, "low", same.ids>>})

\* relative_expires_seconds of a literal, 0 when it is not a relative duration.
\* The factors of a timedelta are multiplied with no check for overflow.
RelativeSeconds(text) ==
    LET total == Wrap(Days[text] * 86400) IN
    IF text \in DOMAIN Days /\ total > 0 THEN total ELSE 0

\* Express counts in milliseconds.
Excessive(a, text) ==
    /\ text \in DOMAIN Number
    /\ (IF "express" \in a.hints THEN Number[text] \div 1000 ELSE Number[text]) > ExcessiveSeconds

LifetimeRules(a) ==
    LET age == a.cookie.maxAge
        expires == a.cookie.expires
    IN Fire(a,
       {<<Literal(age) /\ Excessive(a, age.value),
          "cookie_excessive_max_age", Misconfigured, "high", age.ids>>,
        <<Literal(expires) /\ RelativeSeconds(expires.value) > ExcessiveSeconds,
          "cookie_excessive_expires", Misconfigured, "high", expires.ids>>,
        <<Literal(expires) /\ RelativeSeconds(expires.value) = 0 /\ expires.value \in FarFuture,
          "cookie_absolute_expires_review", Review, "low", expires.ids>>})

ScopeRules(a) ==
    LET path == a.cookie.path
        domain == a.cookie.domain
        session == SessionLike(a)
        broad == Literal(domain) /\ domain.value = "broad"
        host == Prefix(a.name) = "__Host-"
    IN Fire(a,
       {<<session /\ broad, "cookie_broad_domain_scope", Misconfigured, "high", domain.ids>>,
        <<session /\ IsDynamic(domain), "cookie_dynamic_domain_scope", Review, "low", domain.ids>>,
        <<session /\ Literal(path) /\ path.value = "/" /\ ~host,
          "cookie_broad_path_scope", Misconfigured, "high", path.ids>>,
        <<session /\ IsDynamic(path), "cookie_dynamic_path_scope", Review, "low", path.ids>>,
        <<~session /\ broad, "cookie_domain_leak_review", Review, "medium", domain.ids>>})

\* The default value "none" of a lifetime is kept as NoValue.
Absent(o) == IsMissing(o) \/ (IsDefault(o) /\ o.value = NoValue)

ExpiryRules(a) ==
    LET age == a.cookie.maxAge
        expires == a.cookie.expires
        dynamic == IsDynamic(age) \/ IsDynamic(expires)
        ids == age.ids \cup expires.ids
    IN Fire(a, {<<dynamic, "cookie_dynamic_expiry", Review, "low", ids>>,
                <<~dynamic /\ Absent(age) /\ Absent(expires), "cookie_missing_expiry", Gap, "low", ids>>})

PartitionedRules(a) ==
    {Finding("cookie_partitioned_review", Review, "low", a, {e.id}) :
        e \in ArtifactEvidence(a, "cookie.attribute.partitioned")}

\* One handler that writes a cookie more than once: the finding is about all
\* the artifacts that share the conflict, and named for the first.
ConflictRules(r) ==
    LET sharers(e) == {k \in DOMAIN r.artifacts : e \in In(r.artifacts[k].evidence, {"store"})} IN
    {LET writes == sharers(e)
         sets == UNION {Of(In(r.artifacts[k].evidence, {"store"}), {"cookie.set"}) : k \in writes}
     IN [Finding("cookie_conflicting_writes_review", Review, "medium", r.artifacts[Least(writes)],
                 {e.id} \cup Ids(sets))
           EXCEPT !.artifacts = {r.artifacts[k].id : k \in writes}] :
     e \in {f \in Of(AllEvidence(r), {"cookie.conflicting_writes"}) : Cardinality(sharers(f)) >= 2}}

CookieFindings(r) ==
    ConflictRules(r) \cup
    UNION {PrefixRules(a) \cup SameSiteRules(a) \cup LifetimeRules(a)
           \cup PartitionedRules(a) \cup ScopeRules(a)
           \cup (IF SessionLike(a) THEN HttpOnlyRules(a) \cup ExpiryRules(a) ELSE {})
           \cup (IF a.name # NoName THEN SecureRules(a) ELSE {}) :
           a \in {b \in Artifacts(r) : b.cookie # NoAttributes}}
=============================================================================
