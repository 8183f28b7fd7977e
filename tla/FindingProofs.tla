---------------------------- MODULE FindingProofs ----------------------------
(***************************************************************************)
(* What the findings of Audit are, rule by rule, for every repository: each *)
(* rests on artifacts and evidence of the report, and a misconfiguration on *)
(* something the source says (Grounded); each has an id of its own          *)
(* (NamedFindingsUnique); those about an authorization flow are settled by  *)
(* the next flow of the file (SettledFlows); and those about a login stay   *)
(* while code is written elsewhere (FixationStays).  For the first, what    *)
(* the detectors back (Basis) is followed through the guard of every rule.  *)
(* For the second, artifacts are known by their ids as far as the detectors *)
(* make them so (Distinct), the rules of one name fire at most once for an  *)
(* artifact (OneEach), and no two families of rules share a name.  For the  *)
(* third, no rule but those about flows is about a flow (OfOthers), and no  *)
(* line behind the next flow is evidence of one (FlowStays).  For the       *)
(* fourth, the logins and regenerations of a report are those its files     *)
(* show, each in its scope (FixationTold), and in a handler the files show  *)
(* the same after a commit outside of it (GrownKeepsFacts).                 *)
(***************************************************************************)
EXTENDS AuditProofs

-----------------------------------------------------------------------------
(* Findings rest on what the source says.                                   *)

\* Artifacts and evidence as the detectors leave them.
Solid(a) ==
    /\ a.evidence # {} /\ \A e \in a.evidence : Sure(e)
    /\ a.jwt # NoAttributes => JwtBacked(a)
    /\ a.cookie # NoAttributes => CookieBacked(a)
Basis(r) ==
    /\ IsSequence(r.artifacts)
    /\ \A a \in Artifacts(r) : Solid(a) /\ a.evidence \subseteq r.evidence
    /\ \A e \in r.evidence : e.detector \in Foreign => \E a \in Artifacts(r) : e \in a.evidence

\* What is asked of a finding, and of a rule <<guard, rule, category, severity, ids>>.
Just(r, g) ==
    /\ g.artifacts # {} /\ g.artifacts \subseteq Ids(Artifacts(r))
    /\ g.evidence # {} /\ g.evidence \subseteq Ids(r.evidence)
    /\ g.category = Misconfigured => FirmIn(r.evidence, g.evidence)
AllJust(r, G) == \A g \in G : Just(r, g)
Claim(E, t) ==
    t[1] => /\ t[5] # {} /\ t[5] \subseteq Ids(E)
            /\ t[3] = Misconfigured => FirmIn(E, t[5])
Asks == {MissingCheck, Gap, Review, Assumed}

LEMMA ReportIsSolid ==
    ASSUME Written, NEW d, d = Detected(code, DOMAIN Files)
    PROVE  Basis(d)
<1>1. Whole(d)
  BY TheReport
<1>2. ASSUME NEW a \in Artifacts(d) PROVE Solid(a)
  <2>1. PICK m \in DOMAIN d.artifacts : a = d.artifacts[m]
    BY DEF Artifacts, Range1
  <2>2. PICK k \in DOMAIN Files : \E i \in 1..Len(Detect(FileOf(k))) : d.artifacts[m] = Detect(FileOf(k))[i]
    BY <1>1 DEF Whole
  <2>3. PICK i \in 1..Len(Detect(FileOf(k))) : d.artifacts[m] = Detect(FileOf(k))[i]
    BY <2>2
  <2>4. Found(FileOf(k), Detect(FileOf(k)), Cookie!CookieCalls(FileOf(k)))
    BY DetectIs DEF Written
  <2>5. Shown(FileOf(k), a) /\ (a.cookie # NoAttributes => CookieBacked(a))
    BY <2>1, <2>3, <2>4, Zenon DEF Found
  <2>. QED  BY <2>5 DEF Shown, Solid
<1>. QED  BY <1>1, <1>2 DEF Whole, Basis

-----------------------------------------------------------------------------
(* What the ids of artifacts and evidence tell apart.                       *)

\* What the ids of artifacts and of evidence say: a cookie, a JWT with a name and a
\* flow that has its own line are known by theirs, and so is what evidence says of
\* browser storage; a cookie has one conflict at most, and nothing else has any.
Flowing(a) == HasDetector(a.evidence, "oauth.flow.auth_code")
Conflicting(a) == Of(a.evidence, {"cookie.conflicting_writes"})
Distinct(r) ==
    /\ IsSequence(r.artifacts)
    /\ \A a, b \in Artifacts(r) : a.id = b.id =>
          /\ a.cookie # NoAttributes /\ b.cookie # NoAttributes => a = b
          /\ a.jwt # NoAttributes /\ b.jwt # NoAttributes /\ a.name = b.name /\ a.name # NoName => a = b
          /\ Flowing(a) /\ Flowing(b) => a = b
    /\ \A a \in Artifacts(r) : \A e, x \in Conflicting(a) : e = x /\ a.cookie # NoAttributes
    /\ \A e, x \in r.evidence : e.detector \in Stores /\ x.detector \in Stores /\ e.id = x.id => e = x

LEMMA OneConflict ==
    ASSUME NEW f, NEW calls, NEW c
    PROVE  LET a == Cookie!CookieArtifact(f, calls, c)
           IN a.cookie # NoAttributes /\ \A e, x \in Conflicting(a) : e = x
<1>. DEFINE a == Cookie!CookieArtifact(f, calls, c)
<1>1. a.cookie # NoAttributes
  <2>1. DOMAIN a.cookie = Cookie!Attribute
    BY DEF Cookie!CookieArtifact, Cookie!Artifact
  <2>2. DOMAIN NoAttributes = {"none"}
    BY DEF NoAttributes
  <2>3. "secure" \in Cookie!Attribute
    BY DEF Cookie!Attribute
  <2>. HIDE DEF a
  <2>4. a.cookie = NoAttributes => "secure" = "none"
    BY <2>1, <2>2, <2>3
  <2>. QED  BY <2>4
<1>2. \A e \in Conflicting(a) : e \in Cookie!Conflicts(f, calls, c)
  BY CookieEvidence DEF Conflicting, Of
<1>3. \A e, x \in Cookie!Conflicts(f, calls, c) : e = x
  <2>. DEFINE same == {k \in DOMAIN calls : calls[k].scope = c.scope /\ calls[k].name = c.name}
              one == [Cookie!EvidenceAt(f, "cookie.conflicting_writes", <<>>, c.scope, c.name, "store", "dynamic", {})
                        EXCEPT !.line = calls[Cookie!Least(same)].line]
  <2>1. \A e \in Cookie!Conflicts(f, calls, c) : e = one
    BY DEF Cookie!Conflicts
  <2>. HIDE DEF one
  <2>. QED  BY <2>1
<1>. HIDE DEF a
<1>4. \A e, x \in Conflicting(a) : e = x
  BY <1>2, <1>3
<1>. QED  BY <1>1, <1>4 DEF a

LEMMA FlowsAreApart ==
    ASSUME NEW f, NEW a, NEW b, FlowIn(f, a), FlowIn(f, b), a.id = b.id
    PROVE  a = b
<1>1. PICK n : a = OAuth!FlowArtifact(f, n)
  BY DEF FlowIn
<1>2. PICK m : b = OAuth!FlowArtifact(f, m)
  BY DEF FlowIn
<1>3. \A k : OAuth!FlowArtifact(f, k).id[4] = k
  BY DEF OAuth!FlowArtifact, OAuth!Artifact
<1>. QED  BY <1>1, <1>2, <1>3

LEMMA StoresAreApart ==
    ASSUME NEW e, NEW x, KnownById(e), KnownById(x), e.id = x.id
    PROVE  e = x
<1>1. PICK path, stage, line, name : e = StoreAt(path, e.detector, stage, line, name)
  BY DEF KnownById
<1>2. PICK path1, stage1, line1, name1 : x = StoreAt(path1, x.detector, stage1, line1, name1)
  BY DEF KnownById
<1>3. \A p, d, s, l, n : LET i == StoreAt(p, d, s, l, n).id
                          IN i[1] = p /\ i[2] = d /\ i[3][2] = s /\ i[4] = l /\ i[5] = n
  BY DEF StoreAt, EvidenceAt
<1>. DEFINE d == e.detector
            d1 == x.detector
<1>. HIDE DEF d, d1
<1>4. e = StoreAt(path, d, stage, line, name) /\ x = StoreAt(path1, d1, stage1, line1, name1)
  BY <1>1, <1>2 DEF d, d1
<1>5. path = path1 /\ d = d1 /\ stage = stage1 /\ line = line1 /\ name = name1
  BY <1>3, <1>4
<1>. QED  BY <1>4, <1>5

LEMMA ReportIsDistinct ==
    ASSUME Written, NEW d, d = Detected(code, DOMAIN Files)
    PROVE  Distinct(d)
<1>. DEFINE f(k) == FileOf(k)
            s(k) == Detect(f(k))
            calls(k) == Cookie!CookieCalls(f(k))
            At(k, i, a) == k \in DOMAIN Files /\ i \in 1..Len(s(k)) /\ a = s(k)[i]
<1>1. Whole(d)
  BY TheReport
<1>2. \A k \in DOMAIN Files : /\ Found(f(k), s(k), calls(k)) /\ IsFile(f(k)) /\ f(k).path = Files[k].path
                              /\ IsSequence(calls(k)) /\ IsSequence(Jwt!JwtCalls(f(k)))
  BY DetectIs, FilesAre, CookieCallsIsOne, JwtCallsAreGood DEF Written, IsRead, CallsOf
<1>3. \A a \in Artifacts(d) : \E k, i : At(k, i, a)
  BY <1>1 DEF Whole, Artifacts, Range1
<1>. HIDE DEF f, s, calls
<1>4. ASSUME NEW a \in Artifacts(d), NEW k, NEW i, At(k, i, a)
      PROVE  /\ Shown(f(k), a) /\ a.id[1] = Files[k].path
             /\ a.cookie # NoAttributes \/ Conflicting(a) # {} =>
                   /\ i \in DOMAIN calls(k) /\ a = Cookie!CookieArtifact(f(k), calls(k), calls(k)[i])
  <2>1. Shown(f(k), a) /\ (a.cookie # NoAttributes => i <= Len(calls(k)))
        /\ \A e \in a.evidence : e.detector = "cookie.conflicting_writes" => i <= Len(calls(k))
    BY <1>2, <1>4 DEF Found
  <2>2. a.id[1] = Files[k].path
    BY <1>2, <1>4, <2>1 DEF Shown
  <2>3. a.cookie # NoAttributes \/ Conflicting(a) # {} => i <= Len(calls(k))
    BY <2>1 DEF Conflicting, Of
  <2>4. DOMAIN calls(k) = 1..Len(calls(k)) /\ Len(calls(k)) \in Nat
    BY <1>2, <1>4, SequenceForm
  <2>5. i \in Nat /\ i >= 1
    <3>1. IsSequence(s(k)) /\ i \in 1..Len(s(k))
      BY <1>2, <1>4 DEF Found
    <3>2. Len(s(k)) \in Nat
      BY <3>1, SequenceForm
    <3>. QED  BY <3>1, <3>2
  <2>6. i <= Len(calls(k)) => i \in DOMAIN calls(k)
    BY <2>4, <2>5
  <2>7. i \in DOMAIN calls(k) => a = Cookie!CookieArtifact(f(k), calls(k), calls(k)[i])
    BY <1>2, <1>4, <2>4 DEF Found
  <2>. QED  BY <2>1, <2>2, <2>3, <2>6, <2>7
<1>5. ASSUME NEW a \in Artifacts(d), NEW b \in Artifacts(d), a.id = b.id
      PROVE  /\ a.cookie # NoAttributes /\ b.cookie # NoAttributes => a = b
             /\ a.jwt # NoAttributes /\ b.jwt # NoAttributes /\ a.name = b.name /\ a.name # NoName => a = b
             /\ Flowing(a) /\ Flowing(b) => a = b
  <2>1. PICK k, i : At(k, i, a)
    BY <1>3
  <2>2. PICK l, j : At(l, j, b)
    BY <1>3
  <2>3. k = l
    <3>1. Files[k].path = Files[l].path
      BY <1>4, <1>5, <2>1, <2>2
    <3>. QED  BY <2>1, <2>2, <3>1, FilesAre
  <2>4. Shown(f(k), a) /\ Shown(f(k), b)
    BY <1>4, <2>1, <2>2, <2>3
  <2>5. a.cookie # NoAttributes /\ b.cookie # NoAttributes => a = b
    <3>. SUFFICES ASSUME a.cookie # NoAttributes, b.cookie # NoAttributes PROVE a = b
      OBVIOUS
    <3>1. /\ i \in DOMAIN calls(k) /\ a = Cookie!CookieArtifact(f(k), calls(k), calls(k)[i])
          /\ j \in DOMAIN calls(k) /\ b = Cookie!CookieArtifact(f(k), calls(k), calls(k)[j])
      BY <1>4, <2>1, <2>2, <2>3
    <3>2. calls(k)[i] = calls(k)[j]
      BY <1>2, <1>5, <2>1, <3>1, CookiesAreApart DEF calls
    <3>. QED  BY <3>1, <3>2
  <2>6. a.jwt # NoAttributes /\ b.jwt # NoAttributes /\ a.name = b.name /\ a.name # NoName => a = b
    BY <1>2, <2>1, <2>4, JwtsAreApart DEF Shown
  <2>7. Flowing(a) /\ Flowing(b) => a = b
    BY <1>5, <2>4, FlowsAreApart DEF Shown, Flowing, HasDetector
  <2>. QED  BY <2>5, <2>6, <2>7
<1>6. ASSUME NEW a \in Artifacts(d) PROVE \A e, x \in Conflicting(a) : e = x /\ a.cookie # NoAttributes
  <2>1. PICK k, i : At(k, i, a)
    BY <1>3
  <2>2. Conflicting(a) # {} => a = Cookie!CookieArtifact(f(k), calls(k), calls(k)[i])
    BY <1>4, <2>1
  <2>. QED  BY <2>2, OneConflict
<1>7. ASSUME NEW e \in d.evidence, NEW x \in d.evidence, e.detector \in Stores, x.detector \in Stores, e.id = x.id
      PROVE  e = x
  <2>1. ASSUME NEW y \in d.evidence, y.detector \in Stores PROVE KnownById(y)
    <3>1. y.detector \in Foreign
      BY <2>1 DEF Stores, Foreign, Alien
    <3>2. PICK a \in Artifacts(d) : y \in a.evidence
      BY <1>1, <3>1 DEF Whole
    <3>3. PICK k, i : At(k, i, a)
      BY <1>3
    <3>. QED  BY <1>4, <2>1, <3>2, <3>3 DEF Shown, Sure
  <2>. QED  BY <1>7, <2>1, StoresAreApart
<1>8. IsSequence(d.artifacts)
  BY <1>1 DEF Whole
<1>. QED  BY <1>5, <1>6, <1>7, <1>8 DEF Distinct

LEMMA FirmAmong ==
    ASSUME NEW E, NEW ids, NEW more, ids \subseteq more, FirmIn(E, ids)
    PROVE  FirmIn(E, more) /\ ids # {}
BY DEF FirmIn

LEMMA FirmOf ==
    ASSUME NEW E, NEW D, E \subseteq D, NEW ids, FirmIn(E, ids)
    PROVE  FirmIn(D, ids)
BY DEF FirmIn

LEMMA ClaimIs ==
    ASSUME NEW E, NEW b, NEW rule, NEW category, NEW severity, NEW ids,
           b => ids # {} /\ ids \subseteq Ids(E) /\ (category \notin Asks => FirmIn(E, ids))
    PROVE  Claim(E, <<b, rule, category, severity, ids>>)
<1>. DEFINE t == <<b, rule, category, severity, ids>>
<1>1. t[1] = b /\ t[3] = category /\ t[5] = ids
  OBVIOUS
<1>2. Misconfigured \notin Asks
  BY DEF Asks, Misconfigured, MissingCheck, Gap, Review, Assumed
<1>. HIDE DEF t
<1>3. Claim(E, t)
  BY <1>1, <1>2 DEF Claim
<1>. QED  BY <1>3 DEF t

LEMMA FireIsJust ==
    ASSUME NEW r, NEW a \in Artifacts(r), NEW E, E \subseteq r.evidence,
           NEW rules, \A t \in rules : Claim(E, t)
    PROVE  AllJust(r, Fire(a, rules))
<1>. SUFFICES ASSUME NEW t \in rules, t[1] PROVE Just(r, Finding(t[2], t[3], t[4], a, t[5]))
  BY DEF AllJust, Fire
<1>1. t[5] # {} /\ t[5] \subseteq Ids(E) /\ (t[3] = Misconfigured => FirmIn(E, t[5]))
  BY DEF Claim
<1>2. t[5] \subseteq Ids(r.evidence) /\ (t[3] = Misconfigured => FirmIn(r.evidence, t[5]))
  BY <1>1, FirmOf DEF Ids
<1>3. {a.id} # {} /\ {a.id} \subseteq Ids(Artifacts(r))
  BY DEF Ids
<1>. DEFINE g == Finding(t[2], t[3], t[4], a, t[5])
<1>4. g.category = t[3] /\ g.evidence = t[5] /\ g.artifacts = {a.id}
  BY FindingIs
<1>. HIDE DEF g
<1>5. Just(r, g)
  BY <1>1, <1>2, <1>3, <1>4 DEF Just
<1>. QED  BY <1>5 DEF g

-----------------------------------------------------------------------------
(* What the rules say of one artifact, each at most once.                   *)

\* Of the rules <<guard, rule, ...>> at most one of a name fires.
Alone(rules, names) ==
    /\ \A t \in rules : t[2] \in names
    /\ \A t, u \in rules : t[1] /\ u[1] /\ t[2] = u[2] => t = u

\* Findings about a, by rules of these names, of which no two share an id.
OneEach(a, G, names) ==
    \A g \in G :
       /\ g.rule \in names /\ g.artifacts = {a.id}
       /\ g.id[1] = g.rule /\ g.id[2] = a.id /\ g.id[4] = a.name
       /\ \A h \in G : g.id = h.id => g = h

PrefixNames == {"cookie_host_prefix_path_violation", "cookie_host_prefix_domain_violation",
                "cookie_host_prefix_secure_violation", "cookie_secure_prefix_secure_violation"}
HttpOnlyFlagNames == {"cookie_missing_httponly", "cookie_default_false_httponly",
                      "cookie_dynamic_httponly", "cookie_default_httponly"}
SecureFlagNames == {"cookie_missing_secure", "cookie_default_false_secure",
                    "cookie_dynamic_secure", "cookie_default_secure"}
SameSiteNames == {"cookie_samesite_none_without_secure", "cookie_samesite_none_dynamic_secure",
                  "cookie_samesite_none_default_secure", "cookie_samesite_none_cross_site_review",
                  "cookie_missing_samesite", "cookie_dynamic_samesite", "cookie_default_samesite"}
LifetimeNames == {"cookie_excessive_max_age", "cookie_excessive_expires", "cookie_absolute_expires_review"}
ScopeNames == {"cookie_broad_domain_scope", "cookie_dynamic_domain_scope", "cookie_broad_path_scope",
               "cookie_dynamic_path_scope", "cookie_domain_leak_review"}
ExpiryNames == {"cookie_dynamic_expiry", "cookie_missing_expiry"}
PartitionedNames == {"cookie_partitioned_review"}

DecodeNames == {"jwt_decode_without_verify"}
AlgNoneNames == {"jwt_alg_none_accepted"}
AlgConfusionNames == {"jwt_alg_confusion_signal"}
HeaderTrustNames == {"jwt_jku_header_trust", "jwt_x5u_header_trust", "jwt_embedded_jwk_trust"}
NbfClockKidNames == {"jwt_nbf_missing", "jwt_clock_skew_review", "jwt_kid_unvalidated_review"}
IssuerNames == {"jwt_missing_issuer", "jwt_dynamic_issuer"}
AudienceNames == {"jwt_missing_audience", "jwt_dynamic_audience"}
ExpirationNames == {"jwt_missing_expiration", "jwt_dynamic_expiration"}
EnforcementNames == {"jwt_expiry_enforcement_disabled", "jwt_dynamic_expiry_enforcement",
                     "jwt_default_expiry_enforcement"}

FlowNames == {"oauth_pkce_missing_review", "oauth_state_missing", "oauth_state_static_review",
              "oauth_state_unverified_review", "oidc_nonce_missing", "oidc_nonce_unverified_review",
              "oauth_redirect_uri_wildcard_review"}
RiskNames == {"bearer_token_in_url_query", "bearer_static_secret_literal", "bearer_public_runtime_config_exposure",
              "bearer_frontend_bundle_exposure", "bearer_token_browser_storage"}
ContextNames == {"bearer_missing_validation", "bearer_issue_without_expiry",
                 "bearer_missing_rotation_or_revocation", "bearer_missing_scope_evidence",
                 "bearer_dynamic_provider_review"}

LEMMA FireIsOneEach ==
    ASSUME NEW a, NEW rules, NEW names, Alone(rules, names)
    PROVE  OneEach(a, Fire(a, rules), names)
<1>. DEFINE of(t) == Finding(t[2], t[3], t[4], a, t[5])
<1>1. \A t : of(t).rule = t[2] /\ of(t).artifacts = {a.id} /\ of(t).id = <<t[2], a.id, FirstPart(t[5]), a.name>>
  BY DEF Finding
<1>2. ASSUME NEW t PROVE of(t).id[1] = t[2] /\ of(t).id[2] = a.id /\ of(t).id[4] = a.name
  <2>. DEFINE i == <<t[2], a.id, FirstPart(t[5]), a.name>>
  <2>1. i[1] = t[2] /\ i[2] = a.id /\ i[4] = a.name
    OBVIOUS
  <2>2. of(t).id = i
    BY <1>1
  <2>. HIDE DEF i, of
  <2>. QED  BY <2>1, <2>2
<1>3. \A g \in Fire(a, rules) : \E t \in rules : t[1] /\ g = of(t)
  BY DEF Fire
<1>. HIDE DEF of
<1>. SUFFICES ASSUME NEW g \in Fire(a, rules)
              PROVE  /\ g.rule \in names /\ g.artifacts = {a.id}
                     /\ g.id[1] = g.rule /\ g.id[2] = a.id /\ g.id[4] = a.name
                     /\ \A h \in Fire(a, rules) : g.id = h.id => g = h
  BY DEF OneEach
<1>4. PICK t \in rules : t[1] /\ g = of(t)
  BY <1>3
<1>5. ASSUME NEW h \in Fire(a, rules), g.id = h.id PROVE g = h
  <2>1. PICK u \in rules : u[1] /\ h = of(u)
    BY <1>3
  <2>2. t[2] = u[2]
    BY <1>2, <1>4, <1>5, <2>1
  <2>. QED  BY <1>4, <2>1, <2>2 DEF Alone
<1>. QED  BY <1>1, <1>2, <1>4, <1>5 DEF Alone

LEMMA NoneIsOneEach == \A a, names : OneEach(a, {}, names)
BY DEF OneEach

LEMMA OneEachTogether ==
    ASSUME NEW a, NEW G, NEW H, NEW names, NEW more, names \cap more = {},
           OneEach(a, G, names), OneEach(a, H, more)
    PROVE  OneEach(a, G \cup H, names \cup more)
<1>. SUFFICES ASSUME NEW g \in G \cup H
              PROVE  /\ g.rule \in names \cup more /\ g.artifacts = {a.id}
                     /\ g.id[1] = g.rule /\ g.id[2] = a.id /\ g.id[4] = a.name
                     /\ \A h \in G \cup H : g.id = h.id => g = h
  BY DEF OneEach
<1>0. \A h \in G \cup H : h.id[1] = h.rule
  BY DEF OneEach
<1>1. \A h \in G \cup H : (h \in G <=> h.rule \in names) /\ (h \in H <=> h.rule \in more)
  BY DEF OneEach
<1>2. ASSUME NEW h \in G \cup H, g.id = h.id PROVE g = h
  <2>1. g.id[1] = g.rule /\ h.id[1] = h.rule
    BY <1>0, <1>2
  <2>2. g.rule = h.rule
    BY <1>2, <2>1
  <2>. QED  BY <1>1, <1>2, <2>2 DEF OneEach
<1>. QED  BY <1>2 DEF OneEach

\* What is observed of a cookie.
Backs(a, o) ==
    /\ o.ids # {} /\ o.ids \subseteq Ids(a.evidence)
    /\ o.state \in {"present", "missing"} => FirmIn(a.evidence, o.ids)

LEMMA CookieObserved ==
    ASSUME NEW a, CookieBacked(a)
    PROVE  /\ Backs(a, a.cookie.httpOnly) /\ Backs(a, a.cookie.secure) /\ Backs(a, a.cookie.sameSite)
           /\ Backs(a, a.cookie.maxAge) /\ Backs(a, a.cookie.expires)
           /\ Backs(a, a.cookie.path) /\ Backs(a, a.cookie.domain)
BY DEF CookieBacked, Backs, Cookie!Attribute

LEMMA WithPrefixIs ==
    ASSUME NEW a, NEW o, Backs(a, o)
    PROVE  /\ WithPrefix(a, o) # {} /\ WithPrefix(a, o) \subseteq Ids(a.evidence)
           /\ o.state \in {"present", "missing"} => FirmIn(a.evidence, WithPrefix(a, o))
<1>1. o.ids \subseteq WithPrefix(a, o) /\ WithPrefix(a, o) \subseteq Ids(a.evidence)
  BY DEF Backs, WithPrefix, ArtifactEvidence, Of, In, Ids
<1>. QED  BY <1>1, FirmAmong DEF Backs

LEMMA PrefixClaims ==
    ASSUME NEW r, NEW a \in Artifacts(r), a.evidence \subseteq r.evidence, CookieBacked(a)
    PROVE  AllJust(r, PrefixRules(a)) /\ OneEach(a, PrefixRules(a), PrefixNames)
<1>. DEFINE E == a.evidence
            p == Prefix(a.name)
            host == p = "__Host-"
            path == a.cookie.path
            domain == a.cookie.domain
            secure == a.cookie.secure
            secureRule == IF host THEN "cookie_host_prefix_secure_violation"
                          ELSE "cookie_secure_prefix_secure_violation"
            wrongPath == host /\ ((Literal(path) /\ path.value # "/") \/ IsMissing(path))
            otherPath == host /\ IsDynamic(path)
            wrongDomain == host /\ IsPresent(domain)
            otherDomain == host /\ IsDynamic(domain)
            notSecure == p # "no prefix" /\ IsMissing(secure)
            otherSecure == p # "no prefix" /\ (IsDynamic(secure) \/ IsDefault(secure))
            t1 == <<wrongPath, "cookie_host_prefix_path_violation", Misconfigured, "high", WithPrefix(a, path)>>
            t2 == <<otherPath, "cookie_host_prefix_path_violation", Review, "medium", WithPrefix(a, path)>>
            t3 == <<wrongDomain, "cookie_host_prefix_domain_violation", Misconfigured, "high", WithPrefix(a, domain)>>
            t4 == <<otherDomain, "cookie_host_prefix_domain_violation", Review, "medium", WithPrefix(a, domain)>>
            t5 == <<notSecure, secureRule, Misconfigured, "high", WithPrefix(a, secure)>>
            t6 == <<otherSecure, secureRule, Review, "medium", WithPrefix(a, secure)>>
<1>1. PrefixRules(a) = Fire(a, {t1, t2, t3, t4, t5, t6})
  BY DEF PrefixRules
<1>2. Backs(a, path) /\ Backs(a, domain) /\ Backs(a, secure)
  BY CookieObserved
<1>3. /\ wrongPath => path.state \in {"present", "missing"}
      /\ wrongDomain => domain.state \in {"present", "missing"}
      /\ notSecure => secure.state \in {"present", "missing"}
  BY DEF Literal, IsPresent, IsMissing
<1>4. ~(wrongPath /\ otherPath) /\ ~(wrongDomain /\ otherDomain) /\ ~(notSecure /\ otherSecure)
  BY DEF Literal, IsPresent, IsMissing, IsDynamic, IsDefault
<1>5. secureRule \in {"cookie_host_prefix_secure_violation", "cookie_secure_prefix_secure_violation"}
  OBVIOUS
<1>. HIDE DEF secureRule, wrongPath, otherPath, wrongDomain, otherDomain, notSecure, otherSecure, path, domain, secure
<1>6. Review \in Asks
  BY DEF Asks
<1>7. \A o \in {path, domain, secure} :
         /\ WithPrefix(a, o) # {} /\ WithPrefix(a, o) \subseteq Ids(E)
         /\ o.state \in {"present", "missing"} => FirmIn(E, WithPrefix(a, o))
  BY <1>2, WithPrefixIs
<1>8. /\ Claim(E, t1) /\ Claim(E, t2) /\ Claim(E, t3)
      /\ Claim(E, t4) /\ Claim(E, t5) /\ Claim(E, t6)
  BY <1>3, <1>6, <1>7, ClaimIs
<1>9. /\ t1[2] = "cookie_host_prefix_path_violation" /\ t2[2] = "cookie_host_prefix_path_violation"
      /\ t3[2] = "cookie_host_prefix_domain_violation" /\ t4[2] = "cookie_host_prefix_domain_violation"
      /\ t5[2] = secureRule /\ t6[2] = secureRule
      /\ t1[1] = wrongPath /\ t2[1] = otherPath /\ t3[1] = wrongDomain
      /\ t4[1] = otherDomain /\ t5[1] = notSecure /\ t6[1] = otherSecure
  OBVIOUS
<1>. HIDE DEF t1, t2, t3, t4, t5, t6, E
<1>10. \A t \in {t1, t2, t3, t4, t5, t6} : Claim(E, t)
  BY <1>8
<1>11. Alone({t1, t2, t3, t4, t5, t6}, PrefixNames)
  BY <1>4, <1>5, <1>9 DEF Alone, PrefixNames
<1>. QED  BY <1>1, <1>10, <1>11, FireIsJust, FireIsOneEach DEF E

LEMMA FlagClaims ==
    ASSUME NEW r, NEW a \in Artifacts(r), a.evidence \subseteq r.evidence, NEW o, Backs(a, o),
           NEW missing, NEW defaultFalse, NEW dynamic, NEW default
    PROVE  /\ AllJust(r, FlagRules(a, o, missing, defaultFalse, dynamic, default))
           /\ OneEach(a, FlagRules(a, o, missing, defaultFalse, dynamic, default),
                      {missing, defaultFalse, dynamic, default})
<1>. DEFINE E == a.evidence
            false == o.value = "false" /\ o.confidence = "low"
            b1 == SureMissing(o)
            b2 == IsDefault(o) /\ false
            b3 == IsDynamic(o)
            b4 == IsDefault(o) /\ ~false
            t1 == <<b1, missing, Misconfigured, "high", o.ids>>
            t2 == <<b2, defaultFalse, Assumed, "low", o.ids>>
            t3 == <<b3, dynamic, Review, "medium", o.ids>>
            t4 == <<b4, default, Assumed, "low", o.ids>>
<1>1. FlagRules(a, o, missing, defaultFalse, dynamic, default) = Fire(a, {t1, t2, t3, t4})
  BY DEF FlagRules
<1>2. b1 => FirmIn(E, o.ids)
  BY DEF SureMissing, IsMissing, Backs
<1>3. ~(b1 /\ b2) /\ ~(b1 /\ b3) /\ ~(b1 /\ b4) /\ ~(b2 /\ b3) /\ ~(b2 /\ b4) /\ ~(b3 /\ b4)
  BY DEF SureMissing, IsMissing, IsDefault, IsDynamic
<1>4. o.ids # {} /\ o.ids \subseteq Ids(E)
  BY DEF Backs
<1>. HIDE DEF b1, b2, b3, b4
<1>5. Review \in Asks /\ Assumed \in Asks
  BY DEF Asks
<1>6. Claim(E, t1) /\ Claim(E, t2) /\ Claim(E, t3) /\ Claim(E, t4)
  BY <1>2, <1>4, <1>5, ClaimIs
<1>7. /\ t1[1] = b1 /\ t2[1] = b2 /\ t3[1] = b3 /\ t4[1] = b4
      /\ t1[2] = missing /\ t2[2] = defaultFalse /\ t3[2] = dynamic /\ t4[2] = default
  OBVIOUS
<1>. HIDE DEF t1, t2, t3, t4, E
<1>8. \A t \in {t1, t2, t3, t4} : Claim(E, t)
  BY <1>6
<1>9. Alone({t1, t2, t3, t4}, {missing, defaultFalse, dynamic, default})
  BY <1>3, <1>7 DEF Alone
<1>. QED  BY <1>1, <1>8, <1>9, FireIsJust, FireIsOneEach DEF E

LEMMA SameSiteClaims ==
    ASSUME NEW r, NEW a \in Artifacts(r), a.evidence \subseteq r.evidence, CookieBacked(a)
    PROVE  AllJust(r, SameSiteRules(a)) /\ OneEach(a, SameSiteRules(a), SameSiteNames)
<1>. DEFINE E == a.evidence
            same == a.cookie.sameSite
            secure == a.cookie.secure
            both == same.ids \cup secure.ids
            session == SessionLike(a)
            b1 == SameSiteNone(a) /\ IsMissing(secure)
            b2 == SameSiteNone(a) /\ IsDynamic(secure)
            b3 == SameSiteNone(a) /\ IsDefault(secure)
            b4 == SameSiteNone(a) /\ IsPresent(secure)
            b5 == session /\ SureMissing(same)
            b6 == session /\ IsDynamic(same)
            b7 == session /\ IsDefault(same)
            t1 == <<b1, "cookie_samesite_none_without_secure", Misconfigured, "high", both>>
            t2 == <<b2, "cookie_samesite_none_dynamic_secure", Review, "medium", both>>
            t3 == <<b3, "cookie_samesite_none_default_secure", Assumed, "medium", both>>
            t4 == <<b4, "cookie_samesite_none_cross_site_review", Review, "low", both>>
            t5 == <<b5, "cookie_missing_samesite", Misconfigured, "medium", same.ids>>
            t6 == <<b6, "cookie_dynamic_samesite", Review, "medium", same.ids>>
            t7 == <<b7, "cookie_default_samesite", Assumed, "low", same.ids>>
<1>1. SameSiteRules(a) = Fire(a, {t1, t2, t3, t4, t5, t6, t7})
  BY DEF SameSiteRules
<1>2. Backs(a, same) /\ Backs(a, secure)
  BY CookieObserved
<1>3. (b1 => secure.state = "missing") /\ (b5 => same.state = "missing")
  BY DEF SureMissing, IsMissing
<1>. HIDE DEF b1, b2, b3, b4, b5, b6, b7, same, secure
<1>4. /\ b1 => FirmIn(E, both)
      /\ b5 => FirmIn(E, same.ids)
  BY <1>2, <1>3, FirmAmong DEF Backs
<1>5. /\ both # {} /\ both \subseteq Ids(E)
      /\ same.ids # {} /\ same.ids \subseteq Ids(E)
  BY <1>2 DEF Backs
<1>. HIDE DEF both
<1>6. Review \in Asks /\ Assumed \in Asks
  BY DEF Asks
<1>7. /\ Claim(E, t1) /\ Claim(E, t2) /\ Claim(E, t3) /\ Claim(E, t4)
      /\ Claim(E, t5) /\ Claim(E, t6) /\ Claim(E, t7)
  BY <1>4, <1>5, <1>6, ClaimIs
<1>8. /\ t1[2] = "cookie_samesite_none_without_secure" /\ t2[2] = "cookie_samesite_none_dynamic_secure"
      /\ t3[2] = "cookie_samesite_none_default_secure" /\ t4[2] = "cookie_samesite_none_cross_site_review"
      /\ t5[2] = "cookie_missing_samesite" /\ t6[2] = "cookie_dynamic_samesite"
      /\ t7[2] = "cookie_default_samesite"
  OBVIOUS
<1>. HIDE DEF t1, t2, t3, t4, t5, t6, t7, E
<1>9. \A t \in {t1, t2, t3, t4, t5, t6, t7} : Claim(E, t)
  BY <1>7
<1>10. Alone({t1, t2, t3, t4, t5, t6, t7}, SameSiteNames)
  BY <1>8 DEF Alone, SameSiteNames
<1>. QED  BY <1>1, <1>9, <1>10, FireIsJust, FireIsOneEach DEF E

LEMMA LifetimeClaims ==
    ASSUME NEW r, NEW a \in Artifacts(r), a.evidence \subseteq r.evidence, CookieBacked(a)
    PROVE  AllJust(r, LifetimeRules(a)) /\ OneEach(a, LifetimeRules(a), LifetimeNames)
<1>. DEFINE E == a.evidence
            age == a.cookie.maxAge
            expires == a.cookie.expires
            b1 == Literal(age) /\ Excessive(a, age.value)
            b2 == Literal(expires) /\ RelativeSeconds(expires.value) > ExcessiveSeconds
            b3 == Literal(expires) /\ RelativeSeconds(expires.value) = 0 /\ expires.value \in FarFuture
            t1 == <<b1, "cookie_excessive_max_age", Misconfigured, "high", age.ids>>
            t2 == <<b2, "cookie_excessive_expires", Misconfigured, "high", expires.ids>>
            t3 == <<b3, "cookie_absolute_expires_review", Review, "low", expires.ids>>
<1>1. LifetimeRules(a) = Fire(a, {t1, t2, t3})
  BY DEF LifetimeRules
<1>2. Backs(a, age) /\ Backs(a, expires)
  BY CookieObserved
<1>3. (b1 => age.state = "present") /\ (b2 => expires.state = "present")
  BY DEF Literal, IsPresent
<1>. HIDE DEF b1, b2, b3, age, expires
<1>4. (b1 => FirmIn(E, age.ids)) /\ (b2 => FirmIn(E, expires.ids))
  BY <1>2, <1>3 DEF Backs
<1>5. /\ age.ids # {} /\ age.ids \subseteq Ids(E)
      /\ expires.ids # {} /\ expires.ids \subseteq Ids(E)
  BY <1>2 DEF Backs
<1>6. Review \in Asks
  BY DEF Asks
<1>7. Claim(E, t1) /\ Claim(E, t2) /\ Claim(E, t3)
  BY <1>4, <1>5, <1>6, ClaimIs
<1>8. /\ t1[2] = "cookie_excessive_max_age" /\ t2[2] = "cookie_excessive_expires"
      /\ t3[2] = "cookie_absolute_expires_review"
  OBVIOUS
<1>. HIDE DEF t1, t2, t3, E
<1>9. \A t \in {t1, t2, t3} : Claim(E, t)
  BY <1>7
<1>10. Alone({t1, t2, t3}, LifetimeNames)
  BY <1>8 DEF Alone, LifetimeNames
<1>. QED  BY <1>1, <1>9, <1>10, FireIsJust, FireIsOneEach DEF E

LEMMA ScopeClaims ==
    ASSUME NEW r, NEW a \in Artifacts(r), a.evidence \subseteq r.evidence, CookieBacked(a)
    PROVE  AllJust(r, ScopeRules(a)) /\ OneEach(a, ScopeRules(a), ScopeNames)
<1>. DEFINE E == a.evidence
            path == a.cookie.path
            domain == a.cookie.domain
            session == SessionLike(a)
            broad == Literal(domain) /\ domain.value = "broad"
            host == Prefix(a.name) = "__Host-"
            b1 == session /\ broad
            b2 == session /\ IsDynamic(domain)
            b3 == session /\ Literal(path) /\ path.value = "/" /\ ~host
            b4 == session /\ IsDynamic(path)
            b5 == ~session /\ broad
            t1 == <<b1, "cookie_broad_domain_scope", Misconfigured, "high", domain.ids>>
            t2 == <<b2, "cookie_dynamic_domain_scope", Review, "low", domain.ids>>
            t3 == <<b3, "cookie_broad_path_scope", Misconfigured, "high", path.ids>>
            t4 == <<b4, "cookie_dynamic_path_scope", Review, "low", path.ids>>
            t5 == <<b5, "cookie_domain_leak_review", Review, "medium", domain.ids>>
<1>1. ScopeRules(a) = Fire(a, {t1, t2, t3, t4, t5})
  BY DEF ScopeRules
<1>2. Backs(a, path) /\ Backs(a, domain)
  BY CookieObserved
<1>3. (b1 => domain.state = "present") /\ (b3 => path.state = "present")
  BY DEF Literal, IsPresent
<1>. HIDE DEF b1, b2, b3, b4, b5, path, domain
<1>4. (b1 => FirmIn(E, domain.ids)) /\ (b3 => FirmIn(E, path.ids))
  BY <1>2, <1>3 DEF Backs
<1>5. /\ path.ids # {} /\ path.ids \subseteq Ids(E)
      /\ domain.ids # {} /\ domain.ids \subseteq Ids(E)
  BY <1>2 DEF Backs
<1>6. Review \in Asks
  BY DEF Asks
<1>7. Claim(E, t1) /\ Claim(E, t2) /\ Claim(E, t3) /\ Claim(E, t4) /\ Claim(E, t5)
  BY <1>4, <1>5, <1>6, ClaimIs
<1>8. /\ t1[2] = "cookie_broad_domain_scope" /\ t2[2] = "cookie_dynamic_domain_scope"
      /\ t3[2] = "cookie_broad_path_scope" /\ t4[2] = "cookie_dynamic_path_scope"
      /\ t5[2] = "cookie_domain_leak_review"
  OBVIOUS
<1>. HIDE DEF t1, t2, t3, t4, t5, E
<1>9. \A t \in {t1, t2, t3, t4, t5} : Claim(E, t)
  BY <1>7
<1>10. Alone({t1, t2, t3, t4, t5}, ScopeNames)
  BY <1>8 DEF Alone, ScopeNames
<1>. QED  BY <1>1, <1>9, <1>10, FireIsJust, FireIsOneEach DEF E

LEMMA ExpiryClaims ==
    ASSUME NEW r, NEW a \in Artifacts(r), a.evidence \subseteq r.evidence, CookieBacked(a)
    PROVE  AllJust(r, ExpiryRules(a)) /\ OneEach(a, ExpiryRules(a), ExpiryNames)
<1>. DEFINE E == a.evidence
            age == a.cookie.maxAge
            expires == a.cookie.expires
            dynamic == IsDynamic(age) \/ IsDynamic(expires)
            ids == age.ids \cup expires.ids
            none == ~dynamic /\ Absent(age) /\ Absent(expires)
            t1 == <<dynamic, "cookie_dynamic_expiry", Review, "low", ids>>
            t2 == <<none, "cookie_missing_expiry", Gap, "low", ids>>
<1>1. ExpiryRules(a) = Fire(a, {t1, t2})
  BY DEF ExpiryRules
<1>2. Backs(a, age) /\ Backs(a, expires)
  BY CookieObserved
<1>3. ids # {} /\ ids \subseteq Ids(E)
  BY <1>2 DEF Backs
<1>. HIDE DEF dynamic, none, ids
<1>4. Review \in Asks /\ Gap \in Asks
  BY DEF Asks
<1>5. Claim(E, t1) /\ Claim(E, t2)
  BY <1>3, <1>4, ClaimIs
<1>6. t1[2] = "cookie_dynamic_expiry" /\ t2[2] = "cookie_missing_expiry"
  OBVIOUS
<1>. HIDE DEF t1, t2, E
<1>7. \A t \in {t1, t2} : Claim(E, t)
  BY <1>5
<1>8. Alone({t1, t2}, ExpiryNames)
  BY <1>6 DEF Alone, ExpiryNames
<1>. QED  BY <1>1, <1>7, <1>8, FireIsJust, FireIsOneEach DEF E

\* A finding that is built without Fire, and not of a misconfiguration.
LEMMA AskingIsJust ==
    ASSUME NEW r, NEW g, g.artifacts # {}, g.artifacts \subseteq Ids(Artifacts(r)),
           g.evidence # {}, g.evidence \subseteq Ids(r.evidence), g.category \in Asks
    PROVE  Just(r, g)
BY DEF Just, Asks, Misconfigured, MissingCheck, Gap, Review, Assumed

LEMMA PartitionedClaims ==
    ASSUME NEW r, NEW a \in Artifacts(r), a.evidence \subseteq r.evidence
    PROVE  AllJust(r, PartitionedRules(a))
<1>. SUFFICES ASSUME NEW e \in ArtifactEvidence(a, "cookie.attribute.partitioned")
              PROVE  Just(r, Finding("cookie_partitioned_review", Review, "low", a, {e.id}))
  BY DEF AllJust, PartitionedRules
<1>. DEFINE g == Finding("cookie_partitioned_review", Review, "low", a, {e.id})
<1>1. g.category = Review /\ g.evidence = {e.id} /\ g.artifacts = {a.id}
  BY FindingIs
<1>2. e \in r.evidence
  BY DEF ArtifactEvidence, Of, In
<1>. HIDE DEF g
<1>3. {a.id} \subseteq Ids(Artifacts(r)) /\ {e.id} \subseteq Ids(r.evidence)
  BY <1>2 DEF Ids
<1>4. Just(r, g)
  BY <1>1, <1>3, AskingIsJust DEF Asks
<1>. QED  BY <1>4 DEF g

LEMMA ConflictClaims ==
    ASSUME NEW r, Basis(r)
    PROVE  AllJust(r, ConflictRules(r))
<1>. DEFINE sharers(e) == {k \in DOMAIN r.artifacts : e \in In(r.artifacts[k].evidence, {"store"})}
            sets(e) == UNION {Of(In(r.artifacts[k].evidence, {"store"}), {"cookie.set"}) : k \in sharers(e)}
            of(e) == [Finding("cookie_conflicting_writes_review", Review, "medium", r.artifacts[Least(sharers(e))],
                              {e.id} \cup Ids(sets(e)))
                        EXCEPT !.artifacts = {r.artifacts[k].id : k \in sharers(e)}]
<1>1. ConflictRules(r) =
        {of(e) : e \in {f \in Of(AllEvidence(r), {"cookie.conflicting_writes"}) : Cardinality(sharers(f)) >= 2}}
  BY DEF ConflictRules
<1>2. ASSUME NEW e \in r.evidence, Cardinality(sharers(e)) >= 2
      PROVE  Just(r, of(e))
  <2>1. sharers(e) # {}
    <3>. DEFINE S == sharers(e)
    <3>1. Cardinality(S) >= 2
      BY <1>2
    <3>. HIDE DEF S
    <3>2. S # {}
      BY <3>1, FS_EmptySet
    <3>. QED  BY <3>2 DEF S
  <2>. DEFINE x == Finding("cookie_conflicting_writes_review", Review, "medium", r.artifacts[Least(sharers(e))],
                           {e.id} \cup Ids(sets(e)))
              ids == {r.artifacts[k].id : k \in sharers(e)}
              g == of(e)
  <2>2. x.category = Review /\ x.evidence = {e.id} \cup Ids(sets(e)) /\ "artifacts" \in DOMAIN x
    BY DEF Finding
  <2>3. g = [x EXCEPT !.artifacts = ids]
    OBVIOUS
  <2>4. ids # {} /\ ids \subseteq Ids(Artifacts(r))
    BY <2>1 DEF Ids, Artifacts, Range1
  <2>5. sets(e) \subseteq r.evidence
    BY DEF Basis, Artifacts, Range1, Of, In
  <2>. HIDE DEF x, ids, g, sets
  <2>6. g.category = Review /\ g.evidence = {e.id} \cup Ids(sets(e)) /\ g.artifacts = ids
    BY <2>2, <2>3
  <2>7. g.evidence # {} /\ g.evidence \subseteq Ids(r.evidence)
    BY <2>5, <2>6 DEF Ids
  <2>8. Just(r, g)
    BY <2>4, <2>6, <2>7, AskingIsJust DEF Asks
  <2>. QED  BY <2>8 DEF g
<1>. QED  BY <1>1, <1>2 DEF AllJust, AllEvidence, Of

LEMMA CookieFindingsAreJust ==
    ASSUME NEW r, Basis(r)
    PROVE  AllJust(r, CookieFindings(r))
<1>1. ASSUME NEW a \in Artifacts(r), a.cookie # NoAttributes
      PROVE  /\ AllJust(r, PrefixRules(a)) /\ AllJust(r, SameSiteRules(a)) /\ AllJust(r, LifetimeRules(a))
             /\ AllJust(r, PartitionedRules(a)) /\ AllJust(r, ScopeRules(a)) /\ AllJust(r, ExpiryRules(a))
             /\ AllJust(r, HttpOnlyRules(a)) /\ AllJust(r, SecureRules(a))
  <2>1. a.evidence \subseteq r.evidence /\ CookieBacked(a)
    BY <1>1 DEF Basis, Solid
  <2>2. Backs(a, a.cookie.httpOnly) /\ Backs(a, a.cookie.secure)
    BY <2>1, CookieObserved
  <2>3. AllJust(r, HttpOnlyRules(a)) /\ AllJust(r, SecureRules(a))
    BY <2>1, <2>2, FlagClaims DEF HttpOnlyRules, SecureRules
  <2>. QED
    BY <2>1, <2>3, PrefixClaims, SameSiteClaims, LifetimeClaims, PartitionedClaims, ScopeClaims, ExpiryClaims
<1>2. AllJust(r, ConflictRules(r))
  BY ConflictClaims
<1>. QED  BY <1>1, <1>2 DEF CookieFindings, AllJust

LEMMA FallbackIs ==
    ASSUME NEW S, NEW ids, ids \subseteq S, NEW more, more \subseteq S, ids # {} \/ more # {}
    PROVE  Fallback(ids, more) # {} /\ Fallback(ids, more) \subseteq S /\ ids \subseteq Fallback(ids, more)
BY DEF Fallback

LEMMA StageIds ==
    ASSUME NEW a
    PROVE  /\ Validating(a) \subseteq Ids(a.evidence) /\ Inspecting(a) \subseteq Ids(a.evidence)
           /\ Expiring(a) \subseteq Ids(a.evidence) /\ Issuing(a) \subseteq Ids(a.evidence)
           /\ \A detector : Bound(a, detector) \subseteq a.evidence /\ Ids(Bound(a, detector)) \subseteq Ids(a.evidence)
BY DEF Validating, Inspecting, Expiring, Issuing, Bound, Of, In, Ids

LEMMA SomeIds == \A E : E # {} => Ids(E) # {}
BY DEF Ids

\* What a JWT says is firm.
LEMMA SaidIsFirm ==
    ASSUME NEW a, JwtBacked(a), NEW E, E \subseteq a.evidence, NEW word, \E e \in E : word \in e.says
    PROVE  FirmIn(a.evidence, Ids(E))
<1>1. PICK e \in E : word \in e.says
  OBVIOUS
<1>2. Firm(e)
  BY <1>1 DEF JwtBacked
<1>. QED  BY <1>2 DEF FirmIn, Ids

LEMMA JwtObserved ==
    ASSUME NEW a, JwtBacked(a), NEW k \in JwtAttribute
    PROVE  /\ a.jwt[k].ids \subseteq Ids(a.evidence)
           /\ a.jwt[k].state \in {"missing", "dynamic", "framework_default"} => a.jwt[k].ids # {}
           /\ a.jwt[k].state = "missing" => FirmIn(a.evidence, a.jwt[k].ids)
BY DEF JwtBacked

LEMMA DecodeClaims ==
    ASSUME NEW r, NEW a \in Artifacts(r), a.evidence \subseteq r.evidence, JwtBacked(a)
    PROVE  AllJust(r, DecodeRules(a)) /\ OneEach(a, DecodeRules(a), DecodeNames)
<1>. DEFINE E == a.evidence
            signature == a.jwt["signature_verification"]
            b == \/ "decode_without_verify" \in a.jwt["operation"].value
                 \/ signature.state = "missing"
            ids == Fallback(signature.ids, Inspecting(a))
            t1 == <<b, "jwt_decode_without_verify", Misconfigured, "high", ids>>
<1>1. DecodeRules(a) = Fire(a, {t1})
  BY DEF DecodeRules
<1>2. b => FirmIn(E, signature.ids)
  BY JwtObserved DEF JwtBacked, JwtAttribute
<1>3. signature.ids \subseteq Ids(E)
  BY JwtObserved DEF JwtAttribute
<1>. HIDE DEF b, signature
<1>4. b => ids # {} /\ ids \subseteq Ids(E) /\ FirmIn(E, ids)
  <2>. SUFFICES ASSUME b PROVE ids # {} /\ ids \subseteq Ids(E) /\ FirmIn(E, ids)
    OBVIOUS
  <2>1. signature.ids # {}
    BY <1>2, FirmAmong
  <2>2. ids # {} /\ ids \subseteq Ids(E) /\ signature.ids \subseteq ids
    BY <1>3, <2>1, StageIds, FallbackIs
  <2>. QED  BY <1>2, <2>2, FirmAmong
<1>. HIDE DEF ids
<1>5. Claim(E, t1)
  BY <1>4, ClaimIs
<1>6. t1[2] = "jwt_decode_without_verify"
  OBVIOUS
<1>. HIDE DEF t1, E
<1>7. \A t \in {t1} : Claim(E, t)
  BY <1>5
<1>8. Alone({t1}, DecodeNames)
  BY <1>6 DEF Alone, DecodeNames
<1>. QED  BY <1>1, <1>7, <1>8, FireIsJust, FireIsOneEach DEF E

LEMMA AlgNoneClaims ==
    ASSUME NEW r, NEW a \in Artifacts(r), a.evidence \subseteq r.evidence, JwtBacked(a), Validating(a) # {}
    PROVE  AllJust(r, AlgNoneRules(a)) /\ OneEach(a, AlgNoneRules(a), AlgNoneNames)
<1>. DEFINE E == a.evidence
            options == AlgorithmOptions(a)
            algorithm == a.jwt["algorithm"]
            none == Says(options, "none") \/ "none" \in algorithm.value
            dynamic == \/ \E e \in options : e.dynamic
                       \/ algorithm.state = "dynamic"
            unpinned == algorithm.state = "unknown" /\ a.hints \cap {"jsonwebtoken", "pyjwt"} # {}
            assumed == ~none /\ ~dynamic /\ unpinned
            rule == "jwt_alg_none_accepted"
            shown == Ids(options) \cup algorithm.ids
            ids == Fallback(shown, Validating(a))
            t1 == <<none, rule, Misconfigured, "high", ids>>
            t2 == <<assumed, rule, Assumed, "medium", Validating(a)>>
<1>1. AlgNoneRules(a) = Fire(a, {t1, t2})
  BY DEF AlgNoneRules
<1>2. options \subseteq E /\ Ids(options) \subseteq Ids(E) /\ algorithm.ids \subseteq Ids(E)
  BY StageIds, JwtObserved DEF AlgorithmOptions, JwtAttribute
<1>3. none => FirmIn(E, shown)
  <2>1. Says(options, "none") => FirmIn(E, Ids(options))
    BY <1>2, SaidIsFirm DEF Says
  <2>2. "none" \in algorithm.value => FirmIn(E, algorithm.ids)
    BY DEF JwtBacked
  <2>. QED  BY <2>1, <2>2, FirmAmong
<1>4. ~(none /\ assumed)
  OBVIOUS
<1>5. rule \in AlgNoneNames
  BY DEF AlgNoneNames
<1>. HIDE DEF none, assumed, algorithm, options
<1>6. shown \subseteq Ids(E)
  BY <1>2
<1>. HIDE DEF shown
<1>7. ids # {} /\ ids \subseteq Ids(E) /\ shown \subseteq ids
  BY <1>6, StageIds, FallbackIs
<1>8. none => FirmIn(E, ids)
  BY <1>3, <1>7, FirmAmong
<1>9. Validating(a) # {} /\ Validating(a) \subseteq Ids(E) /\ Assumed \in Asks
  BY StageIds DEF Asks
<1>. HIDE DEF ids, rule
<1>10. Claim(E, t1) /\ Claim(E, t2)
  BY <1>7, <1>8, <1>9, ClaimIs
<1>11. t1[1] = none /\ t2[1] = assumed /\ t1[2] = rule /\ t2[2] = rule
  OBVIOUS
<1>. HIDE DEF t1, t2, E
<1>12. \A t \in {t1, t2} : Claim(E, t)
  BY <1>10
<1>13. Alone({t1, t2}, AlgNoneNames)
  BY <1>4, <1>5, <1>11 DEF Alone
<1>. QED  BY <1>1, <1>12, <1>13, FireIsJust, FireIsOneEach DEF E

LEMMA AlgConfusionClaims ==
    ASSUME NEW r, NEW a \in Artifacts(r), a.evidence \subseteq r.evidence, JwtBacked(a)
    PROVE  AllJust(r, AlgConfusionRules(a)) /\ OneEach(a, AlgConfusionRules(a), AlgConfusionNames)
<1>. DEFINE E == a.evidence
            options == AlgorithmOptions(a)
            algorithm == a.jwt["algorithm"]
            hmac == "hmac" \in AcceptedAlgorithms(a)
            asymmetric == "asymmetric" \in AcceptedAlgorithms(a)
            ids == Ids(options) \cup algorithm.ids \cup a.jwt["key_reference"].ids
            rule == "jwt_alg_confusion_signal"
            both == hmac /\ asymmetric
            one == hmac /\ ~asymmetric /\ PublicKey(a)
            t1 == <<both, rule, Misconfigured, "high", ids>>
            t2 == <<one, rule, Review, "medium", ids>>
<1>1. AlgConfusionRules(a) = Fire(a, {t1, t2})
  BY DEF AlgConfusionRules
<1>2. /\ options \subseteq E /\ Ids(options) \subseteq Ids(E)
      /\ algorithm.ids \subseteq Ids(E) /\ a.jwt["key_reference"].ids \subseteq Ids(E)
  BY StageIds, JwtObserved DEF AlgorithmOptions, JwtAttribute
<1>3. hmac => FirmIn(E, ids)
  <2>. SUFFICES ASSUME hmac PROVE FirmIn(E, ids)
    OBVIOUS
  <2>1. "hmac" \in algorithm.value \/ \E e \in options : "hmac" \in e.says
    BY DEF AcceptedAlgorithms
  <2>2. (\E e \in options : "hmac" \in e.says) => FirmIn(E, Ids(options))
    BY <1>2, SaidIsFirm
  <2>3. "hmac" \in algorithm.value => FirmIn(E, algorithm.ids)
    BY DEF JwtBacked
  <2>. QED  BY <2>1, <2>2, <2>3, FirmAmong
<1>4. ids \subseteq Ids(E)
  BY <1>2
<1>5. (both => hmac) /\ (one => hmac)
  OBVIOUS
<1>6. ~(both /\ one)
  OBVIOUS
<1>7. rule \in AlgConfusionNames
  BY DEF AlgConfusionNames
<1>. HIDE DEF hmac, both, one, ids, rule
<1>8. hmac => ids # {}
  BY <1>3, FirmAmong
<1>9. Review \in Asks
  BY DEF Asks
<1>10. Claim(E, t1) /\ Claim(E, t2)
  BY <1>3, <1>4, <1>5, <1>8, <1>9, ClaimIs
<1>11. t1[1] = both /\ t2[1] = one /\ t1[2] = rule /\ t2[2] = rule
  OBVIOUS
<1>. HIDE DEF t1, t2, E
<1>12. \A t \in {t1, t2} : Claim(E, t)
  BY <1>10
<1>13. Alone({t1, t2}, AlgConfusionNames)
  BY <1>6, <1>7, <1>11 DEF Alone
<1>. QED  BY <1>1, <1>12, <1>13, FireIsJust, FireIsOneEach DEF E

LEMMA HeaderTrustClaims ==
    ASSUME NEW r, NEW a \in Artifacts(r), a.evidence \subseteq r.evidence
    PROVE  AllJust(r, HeaderTrustRules(a)) /\ OneEach(a, HeaderTrustRules(a), HeaderTrustNames)
<1>. DEFINE E == a.evidence
            complete == Bound(a, "jwt.option.complete")
            b(header) == Says(complete, "true") /\ Bound(a, header) # {} /\ ~TrustedKeys(a)
            ids(header) == Ids(complete) \cup Ids(Bound(a, header))
            trusts(header, rule) == <<b(header), rule, Review, "medium", ids(header)>>
            t1 == trusts("jwt.header.jku", "jwt_jku_header_trust")
            t2 == trusts("jwt.header.x5u", "jwt_x5u_header_trust")
            t3 == trusts("jwt.header.jwk", "jwt_embedded_jwk_trust")
<1>1. HeaderTrustRules(a) = Fire(a, {t1, t2, t3})
  BY DEF HeaderTrustRules
<1>2. \A header : (b(header) => ids(header) # {}) /\ ids(header) \subseteq Ids(E)
  BY StageIds, SomeIds
<1>. HIDE DEF b, ids
<1>3. Review \in Asks
  BY DEF Asks
<1>4. \A header, rule : Claim(E, trusts(header, rule))
  BY <1>2, <1>3, ClaimIs
<1>5. /\ t1[2] = "jwt_jku_header_trust" /\ t2[2] = "jwt_x5u_header_trust"
      /\ t3[2] = "jwt_embedded_jwk_trust"
  OBVIOUS
<1>. HIDE DEF trusts, E
<1>6. \A t \in {t1, t2, t3} : Claim(E, t)
  BY <1>4
<1>. HIDE DEF t1, t2, t3
<1>7. Alone({t1, t2, t3}, HeaderTrustNames)
  BY <1>5 DEF Alone, HeaderTrustNames
<1>. QED  BY <1>1, <1>6, <1>7, FireIsJust, FireIsOneEach DEF E

LEMMA NbfClockKidClaims ==
    ASSUME NEW r, NEW a \in Artifacts(r), a.evidence \subseteq r.evidence, Validating(a) # {}
    PROVE  AllJust(r, NbfClockKidRules(a)) /\ OneEach(a, NbfClockKidRules(a), NbfClockKidNames)
<1>. DEFINE E == a.evidence
            nbf == Bound(a, "jwt.option.ignore_not_before")
            clock == Bound(a, "jwt.option.clock_tolerance")
            kid == Bound(a, "jwt.header.kid")
            ignored == nbf = {} \/ (\E e \in nbf : Ignores(e))
            broad == \E e \in clock : Broad(e)
            unvouched == kid # {} /\ ~TrustedKid(a)
            ids == Fallback(Ids(nbf), Validating(a))
            t1 == <<ignored, "jwt_nbf_missing", MissingCheck, "low", ids>>
            t2 == <<broad, "jwt_clock_skew_review", Review, "medium", Ids(clock)>>
            t3 == <<unvouched, "jwt_kid_unvalidated_review", MissingCheck, "medium", Ids(kid)>>
<1>1. NbfClockKidRules(a) = Fire(a, {t1, t2, t3})
  BY DEF NbfClockKidRules
<1>2. ids # {} /\ ids \subseteq Ids(E)
  BY StageIds, FallbackIs
<1>3. /\ broad => Ids(clock) # {}
      /\ unvouched => Ids(kid) # {}
  BY SomeIds
<1>4. Ids(clock) \subseteq Ids(E) /\ Ids(kid) \subseteq Ids(E)
  BY StageIds
<1>. HIDE DEF ignored, broad, unvouched, ids, clock, kid
<1>5. Review \in Asks /\ MissingCheck \in Asks
  BY DEF Asks
<1>6. Claim(E, t1) /\ Claim(E, t2) /\ Claim(E, t3)
  BY <1>2, <1>3, <1>4, <1>5, ClaimIs
<1>7. /\ t1[2] = "jwt_nbf_missing" /\ t2[2] = "jwt_clock_skew_review"
      /\ t3[2] = "jwt_kid_unvalidated_review"
  OBVIOUS
<1>. HIDE DEF t1, t2, t3, E
<1>8. \A t \in {t1, t2, t3} : Claim(E, t)
  BY <1>6
<1>9. Alone({t1, t2, t3}, NbfClockKidNames)
  BY <1>7 DEF Alone, NbfClockKidNames
<1>. QED  BY <1>1, <1>8, <1>9, FireIsJust, FireIsOneEach DEF E

LEMMA ValidationClaims ==
    ASSUME NEW r, NEW a \in Artifacts(r), a.evidence \subseteq r.evidence, Validating(a) # {},
           NEW o, o.ids \subseteq Ids(a.evidence), NEW missing, NEW dynamic
    PROVE  /\ AllJust(r, ValidationRules(a, o, missing, dynamic))
           /\ OneEach(a, ValidationRules(a, o, missing, dynamic), {missing, dynamic})
<1>. DEFINE E == a.evidence
            ids == Fallback(o.ids, Validating(a))
            b1 == o.state = "missing"
            b2 == o.state = "dynamic"
            t1 == <<b1, missing, MissingCheck, "medium", ids>>
            t2 == <<b2, dynamic, Review, "medium", ids>>
<1>1. ValidationRules(a, o, missing, dynamic) = Fire(a, {t1, t2})
  BY DEF ValidationRules
<1>2. ids # {} /\ ids \subseteq Ids(E)
  BY StageIds, FallbackIs
<1>3. ~(b1 /\ b2)
  OBVIOUS
<1>. HIDE DEF b1, b2, ids
<1>4. Review \in Asks /\ MissingCheck \in Asks
  BY DEF Asks
<1>5. Claim(E, t1) /\ Claim(E, t2)
  BY <1>2, <1>4, ClaimIs
<1>6. t1[1] = b1 /\ t2[1] = b2 /\ t1[2] = missing /\ t2[2] = dynamic
  OBVIOUS
<1>. HIDE DEF t1, t2, E
<1>7. \A t \in {t1, t2} : Claim(E, t)
  BY <1>5
<1>8. Alone({t1, t2}, {missing, dynamic})
  BY <1>3, <1>6 DEF Alone
<1>. QED  BY <1>1, <1>7, <1>8, FireIsJust, FireIsOneEach DEF E

LEMMA ExpirationClaims ==
    ASSUME NEW r, NEW a \in Artifacts(r), a.evidence \subseteq r.evidence, JwtBacked(a)
    PROVE  /\ AllJust(r, ExpirationRules(a)) /\ OneEach(a, ExpirationRules(a), ExpirationNames)
           /\ AllJust(r, ExpiryEnforcementRules(a)) /\ OneEach(a, ExpiryEnforcementRules(a), EnforcementNames)
<1>. DEFINE E == a.evidence
            o(k) == a.jwt[k]
            b1(k) == o(k).state = "missing"
            b2(k) == o(k).state = "dynamic"
            b3(k) == o(k).state = "framework_default"
            x == "expiration"
            y == "expiry_enforcement"
            ids == Fallback(o(x).ids, Expiring(a))
            jds == Fallback(o(y).ids, Validating(a))
            t1 == <<b1(x), "jwt_missing_expiration", Gap, "low", ids>>
            t2 == <<b2(x), "jwt_dynamic_expiration", Review, "medium", ids>>
            u1 == <<b1(y), "jwt_expiry_enforcement_disabled", Misconfigured, "high", jds>>
            u2 == <<b2(y), "jwt_dynamic_expiry_enforcement", Review, "medium", jds>>
            u3 == <<b3(y), "jwt_default_expiry_enforcement", Assumed, "low", jds>>
<1>1. ExpirationRules(a) = Fire(a, {t1, t2}) /\ ExpiryEnforcementRules(a) = Fire(a, {u1, u2, u3})
  BY DEF ExpirationRules, ExpiryEnforcementRules
<1>2. \A k \in {x, y} : /\ b1(k) \/ b2(k) \/ b3(k) => o(k).ids # {}
                        /\ o(k).ids \subseteq Ids(E)
                        /\ b1(k) => FirmIn(E, o(k).ids)
  BY JwtObserved DEF JwtAttribute
<1>. HIDE DEF b1, b2, b3, o, x, y
<1>3. /\ b1(x) \/ b2(x) \/ b3(x) => ids # {} /\ ids \subseteq Ids(E)
      /\ b1(y) \/ b2(y) \/ b3(y) => jds # {} /\ jds \subseteq Ids(E) /\ o(y).ids \subseteq jds
  BY <1>2, StageIds, FallbackIs
<1>4. b1(y) => FirmIn(E, jds)
  BY <1>2, <1>3, FirmAmong
<1>. HIDE DEF ids, jds
<1>5. Review \in Asks /\ Gap \in Asks /\ Assumed \in Asks
  BY DEF Asks
<1>6. Claim(E, t1) /\ Claim(E, t2) /\ Claim(E, u1) /\ Claim(E, u2) /\ Claim(E, u3)
  BY <1>3, <1>4, <1>5, ClaimIs
<1>7. /\ t1[2] = "jwt_missing_expiration" /\ t2[2] = "jwt_dynamic_expiration"
      /\ u1[2] = "jwt_expiry_enforcement_disabled" /\ u2[2] = "jwt_dynamic_expiry_enforcement"
      /\ u3[2] = "jwt_default_expiry_enforcement"
  OBVIOUS
<1>. HIDE DEF t1, t2, u1, u2, u3, E
<1>8. (\A t \in {t1, t2} : Claim(E, t)) /\ (\A t \in {u1, u2, u3} : Claim(E, t))
  BY <1>6
<1>9. Alone({t1, t2}, ExpirationNames) /\ Alone({u1, u2, u3}, EnforcementNames)
  BY <1>7 DEF Alone, ExpirationNames, EnforcementNames
<1>. QED  BY <1>1, <1>8, <1>9, FireIsJust, FireIsOneEach DEF E

LEMMA JwtFindingsAreJust ==
    ASSUME NEW r, Basis(r)
    PROVE  AllJust(r, JwtFindings(r))
<1>1. ASSUME NEW a \in Artifacts(r), a.jwt # NoAttributes
      PROVE  /\ AllJust(r, DecodeRules(a)) /\ AllJust(r, AlgConfusionRules(a)) /\ AllJust(r, HeaderTrustRules(a))
             /\ AllJust(r, ExpirationRules(a)) /\ AllJust(r, ExpiryEnforcementRules(a))
             /\ Validating(a) # {} =>
                   /\ AllJust(r, AlgNoneRules(a)) /\ AllJust(r, NbfClockKidRules(a))
                   /\ AllJust(r, ValidationRules(a, a.jwt["issuer"], "jwt_missing_issuer", "jwt_dynamic_issuer"))
                   /\ AllJust(r, ValidationRules(a, a.jwt["audience"], "jwt_missing_audience",
                                                 "jwt_dynamic_audience"))
  <2>1. a.evidence \subseteq r.evidence /\ JwtBacked(a)
    BY <1>1 DEF Basis, Solid
  <2>2. a.jwt["issuer"].ids \subseteq Ids(a.evidence) /\ a.jwt["audience"].ids \subseteq Ids(a.evidence)
    BY <2>1, JwtObserved DEF JwtAttribute
  <2>3. /\ AllJust(r, DecodeRules(a)) /\ AllJust(r, AlgConfusionRules(a)) /\ AllJust(r, HeaderTrustRules(a))
        /\ AllJust(r, ExpirationRules(a)) /\ AllJust(r, ExpiryEnforcementRules(a))
    BY <2>1, DecodeClaims, AlgConfusionClaims, HeaderTrustClaims, ExpirationClaims
  <2>4. Validating(a) # {} => AllJust(r, AlgNoneRules(a)) /\ AllJust(r, NbfClockKidRules(a))
    BY <2>1, AlgNoneClaims, NbfClockKidClaims
  <2>5. Validating(a) # {} =>
           /\ AllJust(r, ValidationRules(a, a.jwt["issuer"], "jwt_missing_issuer", "jwt_dynamic_issuer"))
           /\ AllJust(r, ValidationRules(a, a.jwt["audience"], "jwt_missing_audience", "jwt_dynamic_audience"))
    BY <2>1, <2>2, ValidationClaims
  <2>. QED  BY <2>3, <2>4, <2>5
<1>. QED  BY <1>1 DEF JwtFindings, AllJust

LEMMA FlowFindingsAreJust ==
    ASSUME NEW r, Basis(r)
    PROVE  /\ AllJust(r, OAuthFindings(r))
           /\ \A a \in Artifacts(r) : Flowing(a) => OneEach(a, Fire(a, FlowRules(a)), FlowNames)
<1>1. ASSUME NEW a \in Artifacts(r), HasDetector(a.evidence, "oauth.flow.auth_code")
      PROVE  AllJust(r, Fire(a, FlowRules(a))) /\ OneEach(a, Fire(a, FlowRules(a)), FlowNames)
  <2>. DEFINE E == a.evidence
              has(d) == HasDetector(E, d)
              ids(detectors) == Ids(Of(E, detectors))
              b1 == ~has("oauth.pkce.present")
              b2 == ~has("oauth.state.present") /\ ~has("oauth.state.static")
              b3 == has("oauth.state.static")
              b4 == has("oauth.state.callback_read") /\ ~has("oauth.state.verified")
              b5 == has("oauth.oidc.openid_scope") /\ ~has("oauth.nonce.present")
              b6 == has("oauth.oidc.openid_scope") /\ has("oauth.nonce.present") /\ ~has("oauth.nonce.verified")
              b7 == has("oauth.redirect_uri.broad")
              t1 == <<b1, "oauth_pkce_missing_review", Review, "medium",
                      ids({"oauth.flow.auth_code", "oauth.flow.framework_default"})>>
              t2 == <<b2, "oauth_state_missing", MissingCheck, "medium", ids({"oauth.flow.auth_code"})>>
              t3 == <<b3, "oauth_state_static_review", Review, "medium", ids({"oauth.state.static"})>>
              t4 == <<b4, "oauth_state_unverified_review", MissingCheck, "high",
                      ids({"oauth.state.callback_read", "oauth.state.present"})>>
              t5 == <<b5, "oidc_nonce_missing", MissingCheck, "medium",
                      ids({"oauth.oidc.openid_scope", "oauth.flow.auth_code"})>>
              t6 == <<b6, "oidc_nonce_unverified_review", MissingCheck, "medium", ids({"oauth.nonce.present"})>>
              t7 == <<b7, "oauth_redirect_uri_wildcard_review", Review, "medium", ids({"oauth.redirect_uri.broad"})>>
  <2>1. FlowRules(a) = {t1, t2, t3, t4, t5, t6, t7}
    BY DEF FlowRules
  <2>2. \A detectors : \A d \in detectors : has(d) => ids(detectors) # {}
    BY DEF HasDetector, Of, Ids
  <2>3. \A detectors : ids(detectors) \subseteq Ids(E)
    BY DEF Of, Ids
  <2>4. has("oauth.flow.auth_code")
    BY <1>1
  <2>. HIDE DEF has, ids, E
  <2>5. /\ ids({"oauth.flow.auth_code", "oauth.flow.framework_default"}) # {}
        /\ ids({"oauth.flow.auth_code"}) # {}
        /\ b3 => ids({"oauth.state.static"}) # {}
        /\ b4 => ids({"oauth.state.callback_read", "oauth.state.present"}) # {}
        /\ ids({"oauth.oidc.openid_scope", "oauth.flow.auth_code"}) # {}
        /\ b6 => ids({"oauth.nonce.present"}) # {}
        /\ b7 => ids({"oauth.redirect_uri.broad"}) # {}
    BY <2>2, <2>4
  <2>. HIDE DEF b1, b2, b3, b4, b5, b6, b7
  <2>6. Review \in Asks /\ MissingCheck \in Asks
    BY DEF Asks
  <2>7. /\ Claim(E, t1) /\ Claim(E, t2) /\ Claim(E, t3) /\ Claim(E, t4)
        /\ Claim(E, t5) /\ Claim(E, t6) /\ Claim(E, t7)
    BY <2>3, <2>5, <2>6, ClaimIs
  <2>8. /\ t1[2] = "oauth_pkce_missing_review" /\ t2[2] = "oauth_state_missing"
        /\ t3[2] = "oauth_state_static_review" /\ t4[2] = "oauth_state_unverified_review"
        /\ t5[2] = "oidc_nonce_missing" /\ t6[2] = "oidc_nonce_unverified_review"
        /\ t7[2] = "oauth_redirect_uri_wildcard_review"
    OBVIOUS
  <2>. HIDE DEF t1, t2, t3, t4, t5, t6, t7
  <2>9. Alone(FlowRules(a), FlowNames)
    BY <2>1, <2>8 DEF Alone, FlowNames
  <2>10. \A t \in FlowRules(a) : Claim(E, t)
    BY <2>1, <2>7
  <2>11. E \subseteq r.evidence
    BY DEF Basis, E
  <2>. QED  BY <2>9, <2>10, <2>11, FireIsJust, FireIsOneEach
<1>. QED  BY <1>1 DEF OAuthFindings, AllJust, Flowing

LEMMA ContextIs ==
    ASSUME NEW r, Basis(r), NEW c \in Contexts(r)
    PROVE  /\ c.artifact \in Artifacts(r) /\ c.evidence \subseteq r.evidence
           /\ \A e \in c.evidence : Sure(e)
<1>. DEFINE same(i) == {k \in DOMAIN r.artifacts : r.artifacts[k].id = i /\ r.artifacts[k].type \in BearerLike}
            of(i) == [artifact |-> r.artifacts[Least(same(i))],
                      evidence |-> UNION {r.artifacts[k].evidence : k \in same(i)}]
<1>1. PICK a \in Artifacts(r) : a.type \in BearerLike /\ c = of(a.id)
  BY DEF Contexts
<1>2. PICK k \in DOMAIN r.artifacts : a = r.artifacts[k]
  BY DEF Artifacts, Range1
<1>3. k \in same(a.id) /\ same(a.id) \subseteq DOMAIN r.artifacts
  BY <1>1, <1>2
<1>4. DOMAIN r.artifacts \subseteq Nat
  BY SequenceForm DEF Basis
<1>5. Least(same(a.id)) \in DOMAIN r.artifacts
  <2>. DEFINE S == same(a.id)
  <2>1. S \subseteq Nat /\ S # {} /\ S \subseteq DOMAIN r.artifacts
    BY <1>3, <1>4
  <2>. HIDE DEF S
  <2>2. Least(S) \in DOMAIN r.artifacts
    BY <2>1, LeastIs
  <2>. QED  BY <2>2 DEF S
<1>6. c.artifact \in Artifacts(r)
  BY <1>1, <1>5 DEF Artifacts, Range1
<1>7. \A e \in c.evidence : Sure(e) /\ e \in r.evidence
  BY ContextHolds DEF Basis, Solid
<1>. QED  BY <1>6, <1>7

LEMMA RiskIsJust ==
    ASSUME NEW r, NEW a \in Artifacts(r), NEW e \in r.evidence, Firm(e), NEW b, NEW rule
    PROVE  AllJust(r, Fire(a, {<<b, rule, Misconfigured, "high", {e.id}>>}))
<1>. DEFINE E == r.evidence
            ids == {e.id}
            t1 == <<b, rule, Misconfigured, "high", ids>>
<1>1. ids # {} /\ ids \subseteq Ids(E) /\ FirmIn(E, ids)
  BY DEF Ids, FirmIn
<1>. HIDE DEF ids
<1>2. Claim(E, t1)
  BY <1>1, ClaimIs
<1>. HIDE DEF t1
<1>3. \A t \in {t1} : Claim(E, t)
  BY <1>2
<1>4. AllJust(r, Fire(a, {t1}))
  BY <1>3, FireIsJust
<1>. QED  BY <1>4 DEF t1, ids

LEMMA DeterministicClaims ==
    ASSUME NEW r, NEW a \in Artifacts(r), NEW E, E \subseteq r.evidence, \A e \in E : Sure(e)
    PROVE  AllJust(r, DeterministicRules(r, a, E))
<1>. DEFINE risk(d, rule) == UNION {Fire(a, {<<TRUE, rule, Misconfigured, "high", {e.id}>>}) : e \in Of(E, {d})}
            fired(e) == Fire(a, {<<~StoredHere(r, e), "bearer_token_browser_storage", Misconfigured, "high", {e.id}>>})
<1>1. DeterministicRules(r, a, E) =
        risk("bearer.transmit.url_query", "bearer_token_in_url_query")
        \cup risk("bearer.literal.static", "bearer_static_secret_literal")
        \cup risk("bearer.store.public_config", "bearer_public_runtime_config_exposure")
        \cup risk("bearer.store.frontend_bundle", "bearer_frontend_bundle_exposure")
        \cup UNION {fired(e) : e \in Of(E, {"bearer.store.browser"})}
  BY DEF DeterministicRules
<1>2. \A d \in Certain : \A e \in Of(E, {d}) : e \in r.evidence /\ Firm(e)
  BY DEF Of, Sure
<1>3. ASSUME NEW d \in Certain, NEW rule PROVE AllJust(r, risk(d, rule))
  <2>1. \A e \in Of(E, {d}) : AllJust(r, Fire(a, {<<TRUE, rule, Misconfigured, "high", {e.id}>>}))
    BY <1>2, <1>3, RiskIsJust, Zenon
  <2>. QED  BY <2>1, Zenon DEF AllJust
<1>4. \A e \in Of(E, {"bearer.store.browser"}) : AllJust(r, fired(e))
  <2>1. "bearer.store.browser" \in Certain
    BY DEF Certain
  <2>2. ASSUME NEW e \in Of(E, {"bearer.store.browser"}) PROVE AllJust(r, fired(e))
    <3>. DEFINE b == ~StoredHere(r, e)
    <3>1. e \in r.evidence /\ Firm(e)
      BY <1>2, <2>1, <2>2
    <3>. HIDE DEF b
    <3>2. AllJust(r, Fire(a, {<<b, "bearer_token_browser_storage", Misconfigured, "high", {e.id}>>}))
      BY <3>1, RiskIsJust, Zenon
    <3>. QED  BY <3>2 DEF b
  <2>. QED  BY <2>2
<1>. HIDE DEF risk, fired
<1>5. /\ AllJust(r, risk("bearer.transmit.url_query", "bearer_token_in_url_query"))
      /\ AllJust(r, risk("bearer.literal.static", "bearer_static_secret_literal"))
      /\ AllJust(r, risk("bearer.store.public_config", "bearer_public_runtime_config_exposure"))
      /\ AllJust(r, risk("bearer.store.frontend_bundle", "bearer_frontend_bundle_exposure"))
  BY <1>3 DEF Certain
<1>. QED  BY <1>1, <1>4, <1>5 DEF AllJust

LEMMA ContextClaims ==
    ASSUME NEW r, NEW a \in Artifacts(r), NEW E, E \subseteq r.evidence, \A e \in E : Sure(e)
    PROVE  AllJust(r, ContextRules(r, a, E)) /\ OneEach(a, ContextRules(r, a, E), ContextNames)
<1>. DEFINE known == E \cup RelatedEvidence(r, a)
            inbound == Of(E, {"bearer.read.inbound"})
            issued == a.type \in IssuedToken /\ LocalLifecycle(E)
            dynamic == DynamicEvidence(E)
            handed == Ids(In(E, {"issue", "store"}))
            sent == Ids(In(E, {"issue", "transmit"}))
            b1 == inbound # {} /\ ~HasStage(known, "validate")
            b2 == issued /\ ~HasStage(known, "expire")
            b3 == issued /\ ~HasStage(known, "refresh") /\ ~HasStage(known, "revoke")
            b4 == /\ a.type \in IssuedToken \cup {"OpaqueBearerToken"}
                  /\ HasStage(E, "issue") \/ HasDetector(E, "bearer.transmit")
                  /\ ~HasDetector(known, "bearer.scope")
            b5 == dynamic # {}
            t1 == <<b1, "bearer_missing_validation", MissingCheck, "medium", Ids(inbound)>>
            t2 == <<b2, "bearer_issue_without_expiry", Gap, "low", handed>>
            t3 == <<b3, "bearer_missing_rotation_or_revocation", Gap, "low", handed>>
            t4 == <<b4, "bearer_missing_scope_evidence", MissingCheck, "low", sent>>
            t5 == <<b5, "bearer_dynamic_provider_review", Review, "low", Ids(dynamic)>>
<1>1. ContextRules(r, a, E) = Fire(a, {t1, t2, t3, t4, t5})
  BY DEF ContextRules
<1>2. /\ Ids(inbound) \subseteq Ids(E) /\ handed \subseteq Ids(E) /\ sent \subseteq Ids(E)
      /\ Ids(dynamic) \subseteq Ids(E)
  BY DEF Of, In, Ids, DynamicEvidence
<1>3. /\ b1 => Ids(inbound) # {}
      /\ b5 => Ids(dynamic) # {}
  BY SomeIds
<1>4. issued => handed # {}
  BY SomeIds DEF LocalLifecycle
<1>5. b4 => sent # {}
  BY DEF HasStage, HasDetector, In, Ids, Sure
<1>6. (b2 => issued) /\ (b3 => issued)
  OBVIOUS
<1>. HIDE DEF b1, b2, b3, b4, b5, handed, sent, inbound, dynamic, issued
<1>7. Review \in Asks /\ Gap \in Asks /\ MissingCheck \in Asks
  BY DEF Asks
<1>8. Claim(E, t1) /\ Claim(E, t2) /\ Claim(E, t3) /\ Claim(E, t4) /\ Claim(E, t5)
  BY <1>2, <1>3, <1>4, <1>5, <1>6, <1>7, ClaimIs
<1>9. /\ t1[2] = "bearer_missing_validation" /\ t2[2] = "bearer_issue_without_expiry"
       /\ t3[2] = "bearer_missing_rotation_or_revocation" /\ t4[2] = "bearer_missing_scope_evidence"
       /\ t5[2] = "bearer_dynamic_provider_review"
  OBVIOUS
<1>. HIDE DEF t1, t2, t3, t4, t5
<1>10. \A t \in {t1, t2, t3, t4, t5} : Claim(E, t)
  BY <1>8
<1>11. Alone({t1, t2, t3, t4, t5}, ContextNames)
  BY <1>9 DEF Alone, ContextNames
<1>. QED  BY <1>1, <1>10, <1>11, FireIsJust, FireIsOneEach

LEMMA BearerFindingsAreJust ==
    ASSUME NEW r, Basis(r)
    PROVE  AllJust(r, BearerFindings(r))
<1>1. ASSUME NEW c \in Contexts(r)
      PROVE  /\ AllJust(r, DeterministicRules(r, c.artifact, c.evidence))
             /\ AllJust(r, ContextRules(r, c.artifact, c.evidence))
  BY ContextIs, DeterministicClaims, ContextClaims
<1>. QED  BY <1>1 DEF BearerFindings, AllJust

LEMMA StorageFindingsAreJust ==
    ASSUME NEW r, Basis(r)
    PROVE  AllJust(r, StorageFindings(r))
<1>. DEFINE holders(e) == {a.id : a \in {b \in Artifacts(r) : e \in b.evidence}}
<1>1. ASSUME NEW g \in StorageFindings(r)
      PROVE  \E rule \in Range1(StorageRule) : \E e \in AllEvidence(r) :
                /\ e.detector = rule[1]
                /\ g.category = rule[3] /\ g.artifacts = holders(e) /\ g.evidence = {e.id}
  BY DEF StorageFindings
<1>2. ASSUME NEW rule \in Range1(StorageRule)
      PROVE  rule[1] \in Foreign /\ (rule[1] \in Certain \/ rule[3] = Review)
  <2>1. PICK k \in 1..4 : rule = StorageRule[k]
    BY <1>2 DEF Range1, StorageRule
  <2>2. /\ StorageRule[1][1] = "client_storage.local_storage.set_item"
        /\ StorageRule[2][1] = "client_storage.session_storage.set_item"
        /\ StorageRule[3][1] = "client_storage.url_path_or_fragment.token"
        /\ StorageRule[4][1] = "client_storage.browser.client_secret" /\ StorageRule[4][3] = Review
    BY DEF StorageRule
  <2>3. k \in {1, 2, 3, 4}
    OBVIOUS
  <2>. QED  BY <2>1, <2>2, <2>3 DEF Foreign, Alien, Certain
<1>. SUFFICES ASSUME NEW g \in StorageFindings(r) PROVE Just(r, g)
  BY DEF AllJust
<1>3. PICK rule \in Range1(StorageRule), e \in AllEvidence(r) :
         /\ e.detector = rule[1]
         /\ g.category = rule[3] /\ g.artifacts = holders(e) /\ g.evidence = {e.id}
  BY <1>1
<1>4. e \in r.evidence
  BY DEF AllEvidence
<1>5. PICK a \in Artifacts(r) : e \in a.evidence
  BY <1>2, <1>3, <1>4 DEF Basis
<1>6. Sure(e)
  BY <1>5 DEF Basis, Solid
<1>7. holders(e) # {} /\ holders(e) \subseteq Ids(Artifacts(r))
  BY <1>5 DEF Ids
<1>8. g.evidence # {} /\ g.evidence \subseteq Ids(r.evidence)
  BY <1>3, <1>4 DEF Ids
<1>. HIDE DEF holders
<1>9. CASE rule[1] \in Certain
  <2>1. FirmIn(r.evidence, g.evidence)
    BY <1>3, <1>4, <1>6, <1>9 DEF FirmIn, Sure
  <2>. QED  BY <1>3, <1>7, <1>8, <2>1 DEF Just
<1>10. CASE rule[3] = Review
  BY <1>3, <1>7, <1>8, <1>10, AskingIsJust DEF Asks
<1>. QED  BY <1>2, <1>9, <1>10

LEMMA QueryFindingsAreJust ==
    ASSUME NEW r, Basis(r)
    PROVE  AllJust(r, QueryFindings(r))
<1>. DEFINE of(a) == LET rule == QueryRule(a, QueryEvidence(a))
                     IN Finding(rule[1], rule[2], rule[3], a, Ids(QueryEvidence(a)))
<1>1. ASSUME NEW g \in QueryFindings(r)
      PROVE  \E a \in Artifacts(r) : QueryEvidence(a) # {} /\ g = of(a)
  BY DEF QueryFindings, Artifacts, Range1
<1>2. ASSUME NEW a \in Artifacts(r), QueryEvidence(a) # {} PROVE Just(r, of(a))
  <2>. DEFINE E == QueryEvidence(a)
              rule == QueryRule(a, E)
              g == of(a)
  <2>1. g.category = rule[2] /\ g.evidence = Ids(E) /\ g.artifacts = {a.id}
    BY DEF Finding
  <2>2. E # {} /\ E \subseteq r.evidence /\ \A e \in E : ~e.default
    BY <1>2 DEF QueryEvidence, Of, In, Basis, Solid, Sure, Reading
  <2>3. rule[2] = Misconfigured => \A e \in E : ~e.dynamic
    BY DEF QueryRule, Misconfigured, Review
  <2>. HIDE DEF E, rule, g
  <2>4. g.category = Misconfigured => FirmIn(r.evidence, g.evidence)
    BY <2>1, <2>2, <2>3 DEF FirmIn, Firm, Ids
  <2>5. /\ g.artifacts # {} /\ g.artifacts \subseteq Ids(Artifacts(r))
        /\ g.evidence # {} /\ g.evidence \subseteq Ids(r.evidence)
    BY <2>1, <2>2 DEF Ids
  <2>6. Just(r, g)
    BY <2>4, <2>5 DEF Just
  <2>. QED  BY <2>6 DEF g
<1>. HIDE DEF of
<1>. QED  BY <1>1, <1>2 DEF AllJust

LEMMA TrustFindingsAreJust ==
    ASSUME NEW r, Basis(r)
    PROVE  AllJust(r, TrustFindings(r))
<1>1. ASSUME NEW h \in Groups(r)
      PROVE  /\ h.artifacts # {} /\ h.artifacts \subseteq Artifacts(r)
             /\ h.evidence # {} /\ h.evidence \subseteq r.evidence
  <2>1. PICK b \in Artifacts(r) : b.type \in BoundaryToken /\ h = Group(r, GroupKey(b))
    BY <1>1 DEF Groups
  <2>. DEFINE members == {a \in Artifacts(r) : a.type \in BoundaryToken /\ GroupKey(a) = GroupKey(b)}
  <2>2. h.artifacts = members /\ h.evidence = UNION {a.evidence : a \in members}
    BY <2>1 DEF Group
  <2>3. b \in members
    BY <2>1
  <2>4. \A a \in members : a.evidence # {} /\ a.evidence \subseteq r.evidence /\ a \in Artifacts(r)
    BY DEF Basis, Solid
  <2>. HIDE DEF members
  <2>. QED  BY <2>2, <2>3, <2>4
<1>2. ASSUME NEW h, h.evidence # {}, NEW t \in TrustRule(h), t[1]
      PROVE  t[4] # {} /\ t[4] \subseteq h.evidence
  <2>. DEFINE across == Inbound(h) \cup Outbound(h)
              reused == Inbound(h) # {} /\ Outbound(h) # {} /\ ~Constrained(h, across)
              exposed == Cardinality(Ids(h.artifacts)) >= 2 /\ Frontend(h) /\ Backend(h)
              moved == \/ Cardinality(Environments(h)) >= 2
                       \/ Cardinality(Of(h.evidence, {"bearer.boundary.environment"})) >= 2
              managed == Managed(h) # {} /\ ~Constrained(h, Managed(h))
              described == Metadata(h) # {} /\ ~Constrained(h, Metadata(h))
              t1 == <<reused, "trust_boundary_inbound_outbound_reuse_review", "medium", across>>
              t2 == <<exposed, "trust_boundary_frontend_backend_reuse_review", "low", BoundaryEvidence(h)>>
              t3 == <<moved, "trust_boundary_environment_reuse_review", "low", BoundaryEvidence(h)>>
              t4 == <<managed, "trust_boundary_provider_scope_review", "low", Managed(h)>>
              t5 == <<described, "trust_boundary_metadata_review", "low", Metadata(h)>>
              Cited(u) == u[1] => u[4] # {} /\ u[4] \subseteq h.evidence
  <2>1. TrustRule(h) = {t1, t2, t3, t4, t5}
    BY DEF TrustRule
  <2>2. across \subseteq h.evidence /\ Managed(h) \subseteq h.evidence /\ Metadata(h) \subseteq h.evidence
    BY DEF Inbound, Outbound, Managed, Metadata, Of
  <2>3. BoundaryEvidence(h) # {} /\ BoundaryEvidence(h) \subseteq h.evidence
    BY <1>2 DEF BoundaryEvidence, Of
  <2>4. (reused => across # {}) /\ (managed => Managed(h) # {}) /\ (described => Metadata(h) # {})
    OBVIOUS
  <2>. HIDE DEF across, reused, exposed, moved, managed, described
  <2>5. Cited(t1) /\ Cited(t2) /\ Cited(t3) /\ Cited(t4) /\ Cited(t5)
    BY <2>2, <2>3, <2>4
  <2>. HIDE DEF t1, t2, t3, t4, t5, Cited
  <2>6. Cited(t)
    BY <1>2, <2>1, <2>5
  <2>. QED  BY <1>2, <2>6 DEF Cited
<1>. SUFFICES ASSUME NEW h \in Groups(r), NEW t \in TrustRule(h), t[1] PROVE Just(r, TrustFinding(h, t))
  BY DEF AllJust, TrustFindings
<1>. DEFINE g == TrustFinding(h, t)
<1>3. g.category = Review /\ g.artifacts = Ids(h.artifacts) /\ g.evidence = Ids(t[4])
  BY DEF TrustFinding
<1>4. t[4] # {} /\ t[4] \subseteq r.evidence
  BY <1>1, <1>2
<1>. HIDE DEF g
<1>5. /\ g.artifacts # {} /\ g.artifacts \subseteq Ids(Artifacts(r))
      /\ g.evidence # {} /\ g.evidence \subseteq Ids(r.evidence)
  BY <1>1, <1>3, <1>4 DEF Ids
<1>6. Just(r, g)
  BY <1>3, <1>5, AskingIsJust DEF Asks
<1>. QED  BY <1>6 DEF g

LEMMA FixationFindingsAreJust ==
    ASSUME NEW r
    PROVE  AllJust(r, FixationFindings(r))
<1>1. ASSUME NEW g \in FixationFindings(r)
      PROVE  \E t \in TransitionsOf(r), stores \in SUBSET StoresOf(r) : g = FixationFinding(r, t, stores)
  BY DEF FixationFindings, Reported
<1>2. \A t \in TransitionsOf(r) \cup StoresOf(r) : t[1] \in DOMAIN r.artifacts /\ t[2] \in r.evidence
  BY DEF TransitionsOf, StoresOf, FixationRecords, Of
<1>3. ASSUME NEW t \in TransitionsOf(r), NEW stores \in SUBSET StoresOf(r)
      PROVE  Just(r, FixationFinding(r, t, stores))
  <2>. DEFINE g == FixationFinding(r, t, stores)
              all == stores \cup {t}
  <2>1. g.category = Review /\ g.artifacts = {r.artifacts[u[1]].id : u \in all} /\ g.evidence = Ids({u[2] : u \in all})
    BY DEF FixationFinding
  <2>2. all # {} /\ \A u \in all : u[1] \in DOMAIN r.artifacts /\ u[2] \in r.evidence
    BY <1>2
  <2>. HIDE DEF g, all
  <2>3. /\ g.artifacts # {} /\ g.artifacts \subseteq Ids(Artifacts(r))
        /\ g.evidence # {} /\ g.evidence \subseteq Ids(r.evidence)
    BY <2>1, <2>2 DEF Ids, Artifacts, Range1
  <2>4. Just(r, g)
    BY <2>1, <2>3, AskingIsJust DEF Asks
  <2>. QED  BY <2>4 DEF g
<1>. QED  BY <1>1, <1>3 DEF AllJust

LEMMA WrittenIsGrounded == Written => Grounded
<1>. SUFFICES ASSUME Written PROVE Grounded
  OBVIOUS
<1>. DEFINE d == Detected(code, DOMAIN Files)
<1>1. /\ report.artifacts = d.artifacts /\ report.evidence = d.evidence /\ report.findings = Classified(d)
      /\ Basis(d)
  BY TheReport, ReportIsSolid
<1>. HIDE DEF d
<1>2. /\ AllJust(d, CookieFindings(d)) /\ AllJust(d, JwtFindings(d)) /\ AllJust(d, OAuthFindings(d))
      /\ AllJust(d, BearerFindings(d)) /\ AllJust(d, StorageFindings(d)) /\ AllJust(d, QueryFindings(d))
      /\ AllJust(d, TrustFindings(d)) /\ AllJust(d, FixationFindings(d))
  BY <1>1, CookieFindingsAreJust, JwtFindingsAreJust, FlowFindingsAreJust, BearerFindingsAreJust,
     StorageFindingsAreJust, QueryFindingsAreJust, TrustFindingsAreJust, FixationFindingsAreJust
<1>3. AllJust(d, Classified(d))
  BY <1>2 DEF AllJust, Classified, FileFindings
<1>4. Artifacts(report) = Artifacts(d)
  BY <1>1 DEF Artifacts
<1>5. \A f \in report.findings :
         /\ f.artifacts # {} /\ f.artifacts \subseteq Ids(Artifacts(report))
         /\ f.evidence # {} /\ f.evidence \subseteq Ids(report.evidence)
         /\ f.category = Misconfigured => FirmIn(report.evidence, f.evidence)
  BY <1>1, <1>3, <1>4 DEF AllJust, Just
<1>. QED  BY <1>5 DEF Grounded, FirmIn, Firm, Cites

\* Every finding of the report is about artifacts of it and cites evidence of it, and
\* one that is called a misconfiguration cites something that is neither dynamic nor a
\* default of a framework: whatever the code, no rule accuses on a guess.
THEOREM AuditGrounded == Spec => []Grounded
<1>1. Written => Grounded
  BY WrittenIsGrounded
<1>. QED  BY <1>1, AuditWritten, PTL

-----------------------------------------------------------------------------
(* No two findings share an id, but those about JWTs without a name.        *)

\* Findings by rules of these names, of which no two share an id unless they are
\* about JWTs without a name.
Named(r, g) == ~\E a \in Artifacts(r) : UnnamedJwt(a) /\ a.id \in g.artifacts
ToldApart(r, G, names) ==
    \A g \in G : /\ g.rule \in names /\ g.id[1] = g.rule
                 /\ \A h \in G : g.id = h.id /\ Named(r, g) => g = h

LEMMA ToldApartTogether ==
    ASSUME NEW r, NEW G, NEW H, NEW names, NEW more, names \cap more = {},
           ToldApart(r, G, names), ToldApart(r, H, more)
    PROVE  ToldApart(r, G \cup H, names \cup more)
<1>. SUFFICES ASSUME NEW g \in G \cup H
              PROVE  /\ g.rule \in names \cup more /\ g.id[1] = g.rule
                     /\ \A h \in G \cup H : g.id = h.id /\ Named(r, g) => g = h
  BY DEF ToldApart
<1>1. \A h \in G \cup H : h.id[1] = h.rule
  BY DEF ToldApart
<1>2. \A h \in G \cup H : (h \in G <=> h.rule \in names) /\ (h \in H <=> h.rule \in more)
  BY DEF ToldApart
<1>3. ASSUME NEW h \in G \cup H, g.id = h.id, Named(r, g) PROVE g = h
  <2>1. g.id[1] = g.rule /\ h.id[1] = h.rule
    BY <1>1, <1>3
  <2>2. g.rule = h.rule
    BY <1>3, <2>1
  <2>. QED  BY <1>2, <1>3, <2>2 DEF ToldApart
<1>. QED  BY <1>3 DEF ToldApart

\* A finding that cites one evidence is what its id says.
Citing(rule, category, severity, a, i) == Finding(rule, category, severity, a, {i})

LEMMA OneCited ==
    ASSUME NEW a, NEW b, NEW rule, NEW name, NEW category, NEW severity, NEW i, NEW j,
           Citing(rule, category, severity, a, i).id = Citing(name, category, severity, b, j).id
    PROVE  Citing(rule, category, severity, a, i) = Citing(name, category, severity, b, j)
<1>. DEFINE as(n, c, k, m) == [rule |-> n, category |-> category, severity |-> severity,
                               artifacts |-> {c}, evidence |-> {k}, id |-> <<n, c, k, m>>]
            g == Citing(rule, category, severity, a, i)
            h == Citing(name, category, severity, b, j)
            x == <<rule, a.id, i, a.name>>
            y == <<name, b.id, j, b.name>>
<1>1. \A k : FirstPart({k}) = k
  BY DEF FirstPart
<1>2. g = as(rule, a.id, i, a.name) /\ h = as(name, b.id, j, b.name)
  BY <1>1 DEF Finding, Citing
<1>3. as(rule, a.id, i, a.name).id = x /\ as(name, b.id, j, b.name).id = y
  OBVIOUS
<1>4. x = y => rule = name /\ a.id = b.id /\ i = j /\ a.name = b.name
  OBVIOUS
<1>. HIDE DEF as, x, y, g, h
<1>5. g.id = h.id
  BY DEF g, h
<1>6. x = y
  BY <1>2, <1>3, <1>5
<1>7. g = h
  BY <1>2, <1>4, <1>6
<1>. QED  BY <1>7 DEF g, h

\* What an id says of a finding.
LEMMA FindingId ==
    ASSUME NEW rule, NEW category, NEW severity, NEW a, NEW ids
    PROVE  LET i == Finding(rule, category, severity, a, ids).id
           IN i[1] = rule /\ i[2] = a.id /\ i[3] = FirstPart(ids) /\ i[4] = a.name
<1>. DEFINE i == <<rule, a.id, FirstPart(ids), a.name>>
<1>1. i[1] = rule /\ i[2] = a.id /\ i[3] = FirstPart(ids) /\ i[4] = a.name
  OBVIOUS
<1>2. Finding(rule, category, severity, a, ids).id = i
  BY DEF Finding
<1>. HIDE DEF i
<1>. QED  BY <1>1, <1>2

LEMMA PartitionedIsOneEach ==
    ASSUME NEW a
    PROVE  OneEach(a, PartitionedRules(a), PartitionedNames)
<1>. DEFINE name == "cookie_partitioned_review"
            of(i) == Citing(name, Review, "low", a, i)
<1>1. \A g \in PartitionedRules(a) : \E i : g = of(i)
  BY DEF PartitionedRules, Citing
<1>2. \A i : of(i).rule = name /\ of(i).artifacts = {a.id}
  BY FindingIs DEF Citing
<1>3. \A i : of(i).id[1] = name /\ of(i).id[2] = a.id /\ of(i).id[4] = a.name
  BY FindingId DEF Citing
<1>4. \A i, j : of(i).id = of(j).id => of(i) = of(j)
  BY OneCited
<1>5. name \in PartitionedNames
  BY DEF PartitionedNames
<1>. HIDE DEF of, name
<1>. QED  BY <1>1, <1>2, <1>3, <1>4, <1>5 DEF OneEach

CookieNames == PrefixNames \cup SameSiteNames \cup LifetimeNames \cup PartitionedNames \cup ScopeNames
               \cup (HttpOnlyFlagNames \cup ExpiryNames) \cup SecureFlagNames
OfCookie(a) == PrefixRules(a) \cup SameSiteRules(a) \cup LifetimeRules(a)
               \cup PartitionedRules(a) \cup ScopeRules(a)
               \cup (IF SessionLike(a) THEN HttpOnlyRules(a) \cup ExpiryRules(a) ELSE {})
               \cup (IF a.name # NoName THEN SecureRules(a) ELSE {})

LEMMA CookieIsOneEach ==
    ASSUME NEW r, Basis(r), NEW a \in Artifacts(r), a.cookie # NoAttributes
    PROVE  OneEach(a, OfCookie(a), CookieNames)
<1>. DEFINE session == IF SessionLike(a) THEN HttpOnlyRules(a) \cup ExpiryRules(a) ELSE {}
            secure == IF a.name # NoName THEN SecureRules(a) ELSE {}
<1>1. a.evidence \subseteq r.evidence /\ CookieBacked(a)
  BY DEF Basis, Solid
<1>2. Backs(a, a.cookie.httpOnly) /\ Backs(a, a.cookie.secure)
  BY <1>1, CookieObserved
<1>3. OneEach(a, HttpOnlyRules(a), HttpOnlyFlagNames) /\ OneEach(a, SecureRules(a), SecureFlagNames)
  BY <1>1, <1>2, FlagClaims DEF HttpOnlyRules, SecureRules, HttpOnlyFlagNames, SecureFlagNames
<1>4. /\ OneEach(a, PrefixRules(a), PrefixNames) /\ OneEach(a, SameSiteRules(a), SameSiteNames)
      /\ OneEach(a, LifetimeRules(a), LifetimeNames) /\ OneEach(a, PartitionedRules(a), PartitionedNames)
      /\ OneEach(a, ScopeRules(a), ScopeNames) /\ OneEach(a, ExpiryRules(a), ExpiryNames)
  BY <1>1, PrefixClaims, SameSiteClaims, LifetimeClaims, PartitionedIsOneEach, ScopeClaims, ExpiryClaims
<1>5. OneEach(a, session, HttpOnlyFlagNames \cup ExpiryNames)
  <2>1. HttpOnlyFlagNames \cap ExpiryNames = {}
    BY DEF HttpOnlyFlagNames, ExpiryNames
  <2>2. OneEach(a, HttpOnlyRules(a) \cup ExpiryRules(a), HttpOnlyFlagNames \cup ExpiryNames)
    BY <1>3, <1>4, <2>1, OneEachTogether
  <2>. QED  BY <2>2, NoneIsOneEach
<1>6. OneEach(a, secure, SecureFlagNames)
  BY <1>3, NoneIsOneEach
<1>. HIDE DEF session, secure
<1>7. /\ PrefixNames \cap SameSiteNames = {}
      /\ (PrefixNames \cup SameSiteNames) \cap LifetimeNames = {}
      /\ (PrefixNames \cup SameSiteNames \cup LifetimeNames) \cap PartitionedNames = {}
      /\ (PrefixNames \cup SameSiteNames \cup LifetimeNames \cup PartitionedNames) \cap ScopeNames = {}
      /\ (PrefixNames \cup SameSiteNames \cup LifetimeNames \cup PartitionedNames \cup ScopeNames)
         \cap (HttpOnlyFlagNames \cup ExpiryNames) = {}
      /\ (PrefixNames \cup SameSiteNames \cup LifetimeNames \cup PartitionedNames \cup ScopeNames
          \cup (HttpOnlyFlagNames \cup ExpiryNames)) \cap SecureFlagNames = {}
  BY DEF PrefixNames, SameSiteNames, LifetimeNames, PartitionedNames, ScopeNames, HttpOnlyFlagNames,
         ExpiryNames, SecureFlagNames
<1>8. OneEach(a, PrefixRules(a) \cup SameSiteRules(a) \cup LifetimeRules(a),
              PrefixNames \cup SameSiteNames \cup LifetimeNames)
  BY <1>4, <1>7, OneEachTogether
<1>9. OneEach(a, PrefixRules(a) \cup SameSiteRules(a) \cup LifetimeRules(a) \cup PartitionedRules(a) \cup ScopeRules(a),
              PrefixNames \cup SameSiteNames \cup LifetimeNames \cup PartitionedNames \cup ScopeNames)
  BY <1>4, <1>7, <1>8, OneEachTogether
<1>10. OneEach(a, PrefixRules(a) \cup SameSiteRules(a) \cup LifetimeRules(a) \cup PartitionedRules(a) \cup ScopeRules(a)
                  \cup session \cup secure, CookieNames)
  BY <1>5, <1>6, <1>7, <1>9, OneEachTogether DEF CookieNames
<1>. QED  BY <1>10 DEF OfCookie, session, secure

LEMMA ConflictsAreApart ==
    ASSUME NEW r, Distinct(r)
    PROVE  ToldApart(r, ConflictRules(r), {"cookie_conflicting_writes_review"})
<1>. DEFINE name == "cookie_conflicting_writes_review"
            first(e) == r.artifacts[Least(Sharers(r, e))]
<1>1. ASSUME NEW e \in Conflicted(r)
      PROVE  /\ ConflictAt(r, e).rule = name /\ ConflictAt(r, e).id[1] = name
             /\ ConflictAt(r, e).id[2] = first(e).id
             /\ first(e) \in Artifacts(r) /\ e \in Conflicting(first(e))
  <2>. DEFINE S == Sharers(r, e)
              sets == UNION {Of(In(r.artifacts[k].evidence, {"store"}), {"cookie.set"}) : k \in S}
              x == Finding(name, Review, "medium", first(e), {e.id} \cup Ids(sets))
              ids == {r.artifacts[k].id : k \in S}
  <2>1. ConflictAt(r, e) = [x EXCEPT !.artifacts = ids]
    BY DEF ConflictAt
  <2>2. x.rule = name
    BY FindingIs
  <2>3. x.id[1] = name /\ x.id[2] = first(e).id
    BY FindingId
  <2>4. "artifacts" \in DOMAIN x /\ "rule" \in DOMAIN x /\ "id" \in DOMAIN x
    BY DEF Finding
  <2>5. Cardinality(S) >= 2 /\ e.detector = "cookie.conflicting_writes"
    BY DEF Conflicted, Of
  <2>6. S \subseteq DOMAIN r.artifacts
    BY DEF Sharers
  <2>7. \A k \in S : e \in r.artifacts[k].evidence
    BY DEF Sharers, In
  <2>. HIDE DEF x, ids, S
  <2>8. S # {}
    BY <2>5, FS_EmptySet
  <2>9. DOMAIN r.artifacts \subseteq Nat
    BY SequenceForm DEF Distinct
  <2>10. Least(S) \in S
    BY <2>6, <2>8, <2>9, LeastIs
  <2>11. Least(Sharers(r, e)) \in DOMAIN r.artifacts /\ e \in first(e).evidence
    BY <2>6, <2>7, <2>10 DEF S
  <2>. QED  BY <2>1, <2>2, <2>3, <2>4, <2>5, <2>11 DEF Artifacts, Range1, Conflicting, Of
<1>. HIDE DEF first
<1>2. ASSUME NEW e \in Conflicted(r), NEW x \in Conflicted(r), ConflictAt(r, e).id = ConflictAt(r, x).id
      PROVE  e = x
  <2>1. first(e).id = first(x).id
    BY <1>1, <1>2
  <2>2. /\ first(e) \in Artifacts(r) /\ e \in Conflicting(first(e))
        /\ first(x) \in Artifacts(r) /\ x \in Conflicting(first(x))
    BY <1>1
  <2>3. first(e).cookie # NoAttributes /\ first(x).cookie # NoAttributes
    BY <2>2 DEF Distinct
  <2>4. first(e) = first(x)
    BY <2>1, <2>2, <2>3 DEF Distinct
  <2>. QED  BY <2>2, <2>4 DEF Distinct
<1>3. \A g \in ConflictRules(r) : \E e \in Conflicted(r) : g = ConflictAt(r, e)
  BY ConflictsAre
<1>. QED  BY <1>1, <1>2, <1>3 DEF ToldApart

CookieFindingNames == {"cookie_conflicting_writes_review"} \cup CookieNames

LEMMA CookieFindingsAreApart ==
    ASSUME NEW r, Basis(r), Distinct(r)
    PROVE  ToldApart(r, CookieFindings(r), CookieFindingNames)
<1>. DEFINE cookies == {b \in Artifacts(r) : b.cookie # NoAttributes}
            G == UNION {OfCookie(a) : a \in cookies}
<1>1. CookieFindings(r) = ConflictRules(r) \cup G
  BY DEF CookieFindings, OfCookie
<1>2. \A a \in cookies : OneEach(a, OfCookie(a), CookieNames)
  BY CookieIsOneEach
<1>3. \A a, b \in cookies : a.id = b.id => a = b
  BY DEF Distinct
<1>4. \A g \in G : \E a \in cookies : g \in OfCookie(a)
  OBVIOUS
<1>. HIDE DEF G, cookies
<1>5. ToldApart(r, G, CookieNames)
  <2>. SUFFICES ASSUME NEW g \in G
                PROVE  /\ g.rule \in CookieNames /\ g.id[1] = g.rule
                       /\ \A h \in G : g.id = h.id /\ Named(r, g) => g = h
    BY DEF ToldApart
  <2>1. PICK a \in cookies : g \in OfCookie(a)
    BY <1>4
  <2>2. ASSUME NEW h \in G, g.id = h.id PROVE g = h
    <3>1. PICK b \in cookies : h \in OfCookie(b)
      BY <1>4
    <3>2. g.id[2] = a.id /\ h.id[2] = b.id
      BY <1>2, <2>1, <3>1 DEF OneEach
    <3>3. a = b
      BY <1>3, <2>2, <3>2
    <3>. QED  BY <1>2, <2>1, <2>2, <3>1, <3>3 DEF OneEach
  <2>. QED  BY <1>2, <2>1, <2>2 DEF OneEach
<1>6. {"cookie_conflicting_writes_review"} \cap CookieNames = {}
  BY DEF CookieNames, PrefixNames, SameSiteNames, LifetimeNames, PartitionedNames, ScopeNames, HttpOnlyFlagNames,
         ExpiryNames, SecureFlagNames
<1>. QED  BY <1>1, <1>5, <1>6, ConflictsAreApart, ToldApartTogether DEF CookieFindingNames

JwtNames == DecodeNames
            \cup (AlgNoneNames \cup AlgConfusionNames \cup HeaderTrustNames \cup NbfClockKidNames
                  \cup IssuerNames \cup AudienceNames)
            \cup ExpirationNames \cup EnforcementNames
OfJwt(a) ==
    DecodeRules(a)
    \cup (IF Validating(a) = {} THEN {}
          ELSE AlgNoneRules(a) \cup AlgConfusionRules(a) \cup HeaderTrustRules(a)
               \cup NbfClockKidRules(a)
               \cup ValidationRules(a, a.jwt["issuer"], "jwt_missing_issuer", "jwt_dynamic_issuer")
               \cup ValidationRules(a, a.jwt["audience"], "jwt_missing_audience", "jwt_dynamic_audience"))
    \cup (IF Issuing(a) = {} THEN {} ELSE ExpirationRules(a))
    \cup (IF Validating(a) \cup Inspecting(a) = {} THEN {} ELSE ExpiryEnforcementRules(a))

LEMMA JwtIsOneEach ==
    ASSUME NEW r, Basis(r), NEW a \in Artifacts(r), a.jwt # NoAttributes
    PROVE  OneEach(a, OfJwt(a), JwtNames)
<1>. DEFINE issuer == ValidationRules(a, a.jwt["issuer"], "jwt_missing_issuer", "jwt_dynamic_issuer")
            audience == ValidationRules(a, a.jwt["audience"], "jwt_missing_audience", "jwt_dynamic_audience")
            G == AlgNoneRules(a) \cup AlgConfusionRules(a) \cup HeaderTrustRules(a)
                 \cup NbfClockKidRules(a) \cup issuer \cup audience
            N == AlgNoneNames \cup AlgConfusionNames \cup HeaderTrustNames \cup NbfClockKidNames
                 \cup IssuerNames \cup AudienceNames
            validated == IF Validating(a) = {} THEN {} ELSE G
            issued == IF Issuing(a) = {} THEN {} ELSE ExpirationRules(a)
            enforced == IF Validating(a) \cup Inspecting(a) = {} THEN {} ELSE ExpiryEnforcementRules(a)
<1>1. a.evidence \subseteq r.evidence /\ JwtBacked(a)
  BY DEF Basis, Solid
<1>2. a.jwt["issuer"].ids \subseteq Ids(a.evidence) /\ a.jwt["audience"].ids \subseteq Ids(a.evidence)
  BY <1>1, JwtObserved DEF JwtAttribute
<1>3. /\ OneEach(a, DecodeRules(a), DecodeNames)
      /\ OneEach(a, AlgConfusionRules(a), AlgConfusionNames)
      /\ OneEach(a, HeaderTrustRules(a), HeaderTrustNames)
      /\ OneEach(a, ExpirationRules(a), ExpirationNames)
      /\ OneEach(a, ExpiryEnforcementRules(a), EnforcementNames)
  BY <1>1, DecodeClaims, AlgConfusionClaims, HeaderTrustClaims, ExpirationClaims
<1>4. AlgNoneNames \cap AlgConfusionNames = {}
  BY DEF AlgNoneNames, AlgConfusionNames
<1>5. /\ (AlgNoneNames \cup AlgConfusionNames) \cap HeaderTrustNames = {}
      /\ (AlgNoneNames \cup AlgConfusionNames \cup HeaderTrustNames) \cap NbfClockKidNames = {}
      /\ (AlgNoneNames \cup AlgConfusionNames \cup HeaderTrustNames \cup NbfClockKidNames) \cap IssuerNames = {}
      /\ (AlgNoneNames \cup AlgConfusionNames \cup HeaderTrustNames \cup NbfClockKidNames \cup IssuerNames)
         \cap AudienceNames = {}
  BY DEF AlgNoneNames, AlgConfusionNames, HeaderTrustNames, NbfClockKidNames, IssuerNames, AudienceNames
<1>6. ASSUME Validating(a) # {} PROVE OneEach(a, G, N)
  <2>1. OneEach(a, AlgNoneRules(a), AlgNoneNames) /\ OneEach(a, NbfClockKidRules(a), NbfClockKidNames)
    BY <1>1, <1>6, AlgNoneClaims, NbfClockKidClaims
  <2>2. OneEach(a, issuer, IssuerNames) /\ OneEach(a, audience, AudienceNames)
    BY <1>1, <1>2, <1>6, ValidationClaims DEF IssuerNames, AudienceNames
  <2>. HIDE DEF issuer, audience
  <2>3. OneEach(a, AlgNoneRules(a) \cup AlgConfusionRules(a) \cup HeaderTrustRules(a),
                AlgNoneNames \cup AlgConfusionNames \cup HeaderTrustNames)
    BY <1>3, <1>4, <1>5, <2>1, OneEachTogether
  <2>4. OneEach(a, AlgNoneRules(a) \cup AlgConfusionRules(a) \cup HeaderTrustRules(a) \cup NbfClockKidRules(a),
                AlgNoneNames \cup AlgConfusionNames \cup HeaderTrustNames \cup NbfClockKidNames)
    BY <1>5, <2>1, <2>3, OneEachTogether
  <2>. QED  BY <1>5, <2>2, <2>4, OneEachTogether
<1>7. OneEach(a, validated, N) /\ OneEach(a, issued, ExpirationNames) /\ OneEach(a, enforced, EnforcementNames)
  BY <1>3, <1>6, NoneIsOneEach
<1>8. /\ DecodeNames \cap N = {}
      /\ (DecodeNames \cup N) \cap ExpirationNames = {}
      /\ (DecodeNames \cup N \cup ExpirationNames) \cap EnforcementNames = {}
  BY DEF DecodeNames, AlgNoneNames, AlgConfusionNames, HeaderTrustNames, NbfClockKidNames, IssuerNames,
         AudienceNames, ExpirationNames, EnforcementNames
<1>9. JwtNames = DecodeNames \cup N \cup ExpirationNames \cup EnforcementNames
  BY DEF JwtNames
<1>10. OfJwt(a) = DecodeRules(a) \cup validated \cup issued \cup enforced
  BY DEF OfJwt
<1>. HIDE DEF validated, issued, enforced, N
<1>11. OneEach(a, DecodeRules(a) \cup validated, DecodeNames \cup N)
  BY <1>3, <1>7, <1>8, OneEachTogether
<1>12. OneEach(a, DecodeRules(a) \cup validated \cup issued, DecodeNames \cup N \cup ExpirationNames)
  BY <1>7, <1>8, <1>11, OneEachTogether
<1>. QED  BY <1>7, <1>8, <1>9, <1>10, <1>12, OneEachTogether

LEMMA JwtFindingsAreApart ==
    ASSUME NEW r, Basis(r), Distinct(r)
    PROVE  ToldApart(r, JwtFindings(r), JwtNames)
<1>. DEFINE jwts == {b \in Artifacts(r) : b.jwt # NoAttributes}
            G == JwtFindings(r)
<1>1. \A a \in jwts : OneEach(a, OfJwt(a), JwtNames)
  BY JwtIsOneEach
<1>2. \A a, b \in jwts : a.id = b.id /\ a.name = b.name /\ a.name # NoName => a = b
  BY DEF Distinct
<1>3. \A a \in jwts : a \in Artifacts(r) /\ (a.name = NoName => UnnamedJwt(a))
  BY DEF UnnamedJwt
<1>4. \A g \in G : \E a \in jwts : g \in OfJwt(a)
  BY DEF JwtFindings, OfJwt
<1>. HIDE DEF G, jwts
<1>5. ASSUME NEW g \in G
      PROVE  /\ g.rule \in JwtNames /\ g.id[1] = g.rule
             /\ \A h \in G : g.id = h.id /\ Named(r, g) => g = h
  <2>1. PICK a \in jwts : g \in OfJwt(a)
    BY <1>4
  <2>2. g.artifacts = {a.id}
    BY <1>1, <2>1 DEF OneEach
  <2>3. ASSUME NEW h \in G, g.id = h.id, Named(r, g) PROVE g = h
    <3>1. PICK b \in jwts : h \in OfJwt(b)
      BY <1>4
    <3>2. g.id[2] = a.id /\ h.id[2] = b.id /\ g.id[4] = a.name /\ h.id[4] = b.name
      BY <1>1, <2>1, <3>1 DEF OneEach
    <3>3. a.name # NoName
      BY <1>3, <2>2, <2>3 DEF Named
    <3>4. a = b
      BY <1>2, <2>3, <3>2, <3>3
    <3>. QED  BY <1>1, <2>1, <2>3, <3>1, <3>4 DEF OneEach
  <2>. QED  BY <1>1, <2>1, <2>3 DEF OneEach
<1>. QED  BY <1>5 DEF ToldApart, G

LEMMA FlowFindingsAreApart ==
    ASSUME NEW r, Basis(r), Distinct(r)
    PROVE  ToldApart(r, OAuthFindings(r), FlowNames)
<1>. DEFINE flows == {b \in Artifacts(r) : b.type = "OAuthAuthCodeFlow" /\ Flowing(b)}
            G == OAuthFindings(r)
            of(a) == Fire(a, FlowRules(a))
<1>1. \A a \in flows : OneEach(a, of(a), FlowNames)
  BY FlowFindingsAreJust
<1>2. \A a, b \in flows : a.id = b.id => a = b
  BY DEF Distinct
<1>3. \A g \in G : \E a \in flows : g \in of(a)
  BY DEF OAuthFindings, Flowing
<1>. HIDE DEF G, flows, of
<1>4. ASSUME NEW g \in G
      PROVE  /\ g.rule \in FlowNames /\ g.id[1] = g.rule
             /\ \A h \in G : g.id = h.id /\ Named(r, g) => g = h
  <2>1. PICK a \in flows : g \in of(a)
    BY <1>3
  <2>2. ASSUME NEW h \in G, g.id = h.id PROVE g = h
    <3>1. PICK b \in flows : h \in of(b)
      BY <1>3
    <3>2. g.id[2] = a.id /\ h.id[2] = b.id
      BY <1>1, <2>1, <3>1 DEF OneEach
    <3>3. a = b
      BY <1>2, <2>2, <3>2
    <3>. QED  BY <1>1, <2>1, <2>2, <3>1, <3>3 DEF OneEach
  <2>. QED  BY <1>1, <2>1, <2>2 DEF OneEach
<1>. QED  BY <1>4 DEF ToldApart, G

LEMMA RisksAre ==
    ASSUME NEW r, NEW a, NEW E, NEW g \in DeterministicRules(r, a, E)
    PROVE  \E rule \in RiskNames : \E i : g = Citing(rule, Misconfigured, "high", a, i)
<1>. DEFINE of(rule, i) == Finding(rule, Misconfigured, "high", a, {i})
            told == \E rule \in RiskNames : \E i : g = of(rule, i)
<1>1. ASSUME NEW b, NEW rule \in RiskNames, NEW e, g \in Fire(a, {<<b, rule, Misconfigured, "high", {e.id}>>})
      PROVE  told
  <2>. DEFINE t == <<b, rule, Misconfigured, "high", {e.id}>>
  <2>1. t[2] = rule /\ t[3] = Misconfigured /\ t[4] = "high" /\ t[5] = {e.id}
    OBVIOUS
  <2>2. g = Finding(t[2], t[3], t[4], a, t[5])
    BY <1>1 DEF Fire
  <2>. HIDE DEF t
  <2>3. g = of(rule, e.id)
    BY <2>1, <2>2
  <2>. QED  BY <2>3
<1>. DEFINE risk(d, rule) == UNION {Fire(a, {<<TRUE, rule, Misconfigured, "high", {e.id}>>}) : e \in Of(E, {d})}
            fired(e) == Fire(a, {<<~StoredHere(r, e), "bearer_token_browser_storage", Misconfigured, "high", {e.id}>>})
<1>2. DeterministicRules(r, a, E) =
        risk("bearer.transmit.url_query", "bearer_token_in_url_query")
        \cup risk("bearer.literal.static", "bearer_static_secret_literal")
        \cup risk("bearer.store.public_config", "bearer_public_runtime_config_exposure")
        \cup risk("bearer.store.frontend_bundle", "bearer_frontend_bundle_exposure")
        \cup UNION {fired(e) : e \in Of(E, {"bearer.store.browser"})}
  BY DEF DeterministicRules
<1>. HIDE DEF told
<1>3. ASSUME NEW d, NEW rule \in RiskNames, g \in risk(d, rule) PROVE told
  <2>. DEFINE b == TRUE
  <2>1. PICK e \in Of(E, {d}) : g \in Fire(a, {<<b, rule, Misconfigured, "high", {e.id}>>})
    BY <1>3
  <2>. HIDE DEF b
  <2>. QED  BY <1>1, <2>1
<1>4. ASSUME NEW e, g \in fired(e) PROVE told
  <2>. DEFINE b == ~StoredHere(r, e)
  <2>1. g \in Fire(a, {<<b, "bearer_token_browser_storage", Misconfigured, "high", {e.id}>>})
    BY <1>4
  <2>2. "bearer_token_browser_storage" \in RiskNames
    BY DEF RiskNames
  <2>. HIDE DEF b
  <2>. QED  BY <1>1, <2>1, <2>2
<1>. HIDE DEF risk, fired
<1>5. told
  BY <1>2, <1>3, <1>4 DEF RiskNames
<1>. QED  BY <1>5 DEF told, Citing

LEMMA ContextsAreApart ==
    ASSUME NEW r, Basis(r), NEW c \in Contexts(r), NEW x \in Contexts(r), c.artifact.id = x.artifact.id
    PROVE  c = x
<1>. DEFINE same(i) == {k \in DOMAIN r.artifacts : r.artifacts[k].id = i /\ r.artifacts[k].type \in BearerLike}
            of(i) == [artifact |-> r.artifacts[Least(same(i))],
                      evidence |-> UNION {r.artifacts[k].evidence : k \in same(i)}]
<1>1. ASSUME NEW y \in Contexts(r) PROVE y = of(y.artifact.id)
  <2>1. PICK a \in Artifacts(r) : a.type \in BearerLike /\ y = of(a.id)
    <3>1. Contexts(r) = {of(i) : i \in {a.id : a \in {b \in Artifacts(r) : b.type \in BearerLike}}}
      BY Zenon DEF Contexts
    <3>. HIDE DEF of, same
    <3>. QED  BY <3>1
  <2>2. PICK k \in DOMAIN r.artifacts : a = r.artifacts[k]
    BY DEF Artifacts, Range1
  <2>. DEFINE S == same(a.id)
              first == r.artifacts[Least(S)]
  <2>3. k \in S /\ S \subseteq DOMAIN r.artifacts /\ \A m \in S : r.artifacts[m].id = a.id
    BY <2>1, <2>2
  <2>4. DOMAIN r.artifacts \subseteq Nat
    BY SequenceForm DEF Basis
  <2>. HIDE DEF S
  <2>5. Least(S) \in S
    BY <2>3, <2>4, LeastIs
  <2>6. first.id = a.id
    BY <2>3, <2>5
  <2>7. y.artifact = first
    BY <2>1 DEF S
  <2>. HIDE DEF of, first
  <2>. QED  BY <2>1, <2>6, <2>7
<1>. HIDE DEF of
<1>2. c = of(c.artifact.id) /\ x = of(x.artifact.id)
  BY <1>1
<1>. DEFINE i == c.artifact.id
            j == x.artifact.id
<1>3. i = j
  OBVIOUS
<1>. HIDE DEF i, j
<1>4. c = of(i) /\ x = of(j)
  BY <1>2 DEF i, j
<1>. QED  BY <1>3, <1>4

LEMMA BearerFindingsAreApart ==
    ASSUME NEW r, Basis(r)
    PROVE  ToldApart(r, BearerFindings(r), RiskNames \cup ContextNames)
<1>. DEFINE risks(c) == DeterministicRules(r, c.artifact, c.evidence)
            rules(c) == ContextRules(r, c.artifact, c.evidence)
            Risks == UNION {risks(c) : c \in Contexts(r)}
            Rules == UNION {rules(c) : c \in Contexts(r)}
<1>1. BearerFindings(r) = Risks \cup Rules
  BY DEF BearerFindings
<1>2. \A c \in Contexts(r) : OneEach(c.artifact, rules(c), ContextNames)
  BY ContextIs, ContextClaims
<1>3. \A g \in Risks : \E rule \in RiskNames : \E a, i : g = Citing(rule, Misconfigured, "high", a, i)
  BY RisksAre
<1>4. \A g \in Rules : \E c \in Contexts(r) : g \in rules(c)
  OBVIOUS
<1>. HIDE DEF Risks, Rules, rules
<1>5. ToldApart(r, Risks, RiskNames)
  <2>1. \A rule, a, i : Citing(rule, Misconfigured, "high", a, i).rule = rule
    BY FindingIs DEF Citing
  <2>2. \A rule, a, i : Citing(rule, Misconfigured, "high", a, i).id[1] = rule
    BY FindingId DEF Citing
  <2>3. \A g, h \in Risks : g.id = h.id => g = h
    BY <1>3, OneCited
  <2>4. \A g \in Risks : g.rule \in RiskNames /\ g.id[1] = g.rule
    BY <1>3, <2>1, <2>2
  <2>. QED  BY <2>3, <2>4 DEF ToldApart
<1>6. ToldApart(r, Rules, ContextNames)
  <2>. SUFFICES ASSUME NEW g \in Rules
                PROVE  /\ g.rule \in ContextNames /\ g.id[1] = g.rule
                       /\ \A h \in Rules : g.id = h.id /\ Named(r, g) => g = h
    BY DEF ToldApart
  <2>1. PICK c \in Contexts(r) : g \in rules(c)
    BY <1>4
  <2>2. ASSUME NEW h \in Rules, g.id = h.id PROVE g = h
    <3>1. PICK x \in Contexts(r) : h \in rules(x)
      BY <1>4
    <3>2. g.id[2] = c.artifact.id /\ h.id[2] = x.artifact.id
      BY <1>2, <2>1, <3>1 DEF OneEach
    <3>3. c = x
      BY <2>2, <3>2, ContextsAreApart
    <3>. QED  BY <1>2, <2>1, <2>2, <3>1, <3>3 DEF OneEach
  <2>. QED  BY <1>2, <2>1, <2>2 DEF OneEach
<1>7. RiskNames \cap ContextNames = {}
  BY DEF RiskNames, ContextNames
<1>. QED  BY <1>1, <1>5, <1>6, <1>7, ToldApartTogether

StorageNames == {"token_in_local_storage", "token_in_session_storage", "token_in_url_path_or_fragment",
                 "client_secret_in_browser_code"}

LEMMA StorageFindingsAreApart ==
    ASSUME NEW r, Distinct(r)
    PROVE  ToldApart(r, StorageFindings(r), StorageNames)
<1>. DEFINE rules == Range1(StorageRule)
<1>1. /\ \A t \in rules : t[1] \in Stores /\ t[2] \in StorageNames
      /\ \A t, u \in rules : t[2] = u[2] => t = u
  <2>. DEFINE t1 == StorageRule[1]
              t2 == StorageRule[2]
              t3 == StorageRule[3]
              t4 == StorageRule[4]
  <2>1. rules = {t1, t2, t3, t4}
    <3>1. DOMAIN StorageRule = {1, 2, 3, 4}
      BY DEF StorageRule
    <3>. QED  BY <3>1 DEF Range1
  <2>2. /\ t1[1] = "client_storage.local_storage.set_item" /\ t1[2] = "token_in_local_storage"
        /\ t2[1] = "client_storage.session_storage.set_item" /\ t2[2] = "token_in_session_storage"
        /\ t3[1] = "client_storage.url_path_or_fragment.token" /\ t3[2] = "token_in_url_path_or_fragment"
        /\ t4[1] = "client_storage.browser.client_secret" /\ t4[2] = "client_secret_in_browser_code"
    BY DEF StorageRule
  <2>. HIDE DEF rules, t1, t2, t3, t4
  <2>. QED  BY <2>1, <2>2 DEF Stores, StorageNames
<1>2. ASSUME NEW g \in StorageFindings(r)
      PROVE  \E t \in rules : \E e \in r.evidence : e.detector = t[1] /\ g = StoredAt(r, t, e)
  BY StoragesAre
<1>3. ASSUME NEW t, NEW e
      PROVE  StoredAt(r, t, e).rule = t[2] /\ StoredAt(r, t, e).id[1] = t[2] /\ StoredAt(r, t, e).id[2] = e.id
  <2>. DEFINE i == <<t[2], e.id, e.file>>
  <2>1. i[1] = t[2] /\ i[2] = e.id
    OBVIOUS
  <2>2. StoredAt(r, t, e).rule = t[2] /\ StoredAt(r, t, e).id = i
    BY DEF StoredAt
  <2>. HIDE DEF i
  <2>. QED  BY <2>1, <2>2
<1>. HIDE DEF rules
<1>. SUFFICES ASSUME NEW g \in StorageFindings(r)
              PROVE  /\ g.rule \in StorageNames /\ g.id[1] = g.rule
                     /\ \A h \in StorageFindings(r) : g.id = h.id /\ Named(r, g) => g = h
  BY DEF ToldApart
<1>4. PICK t \in rules, e \in r.evidence : e.detector = t[1] /\ g = StoredAt(r, t, e)
  BY <1>2
<1>5. ASSUME NEW h \in StorageFindings(r), g.id = h.id PROVE g = h
  <2>1. PICK u \in rules, x \in r.evidence : x.detector = u[1] /\ h = StoredAt(r, u, x)
    BY <1>2
  <2>2. t[2] = u[2] /\ e.id = x.id
    BY <1>3, <1>4, <1>5, <2>1
  <2>3. t = u
    BY <1>1, <2>2
  <2>4. e = x
    BY <1>1, <1>4, <2>1, <2>2 DEF Distinct
  <2>. QED  BY <1>4, <2>1, <2>3, <2>4
<1>. QED  BY <1>1, <1>3, <1>4, <1>5

QueryNames == {"query_param_token_acceptance_review", "query_param_reset_or_verification_review",
               "query_param_auth_token_acceptance"}

LEMMA QueryFindingsAreApart ==
    ASSUME NEW r, Basis(r)
    PROVE  ToldApart(r, QueryFindings(r), QueryNames)
<1>. DEFINE rule(k) == QueryRule(r.artifacts[k], QueryEvidence(r.artifacts[k]))
            at(k) == QueryAt(r.artifacts[k])
<1>1. ASSUME NEW k PROVE rule(k)[1] \in QueryNames
  BY DEF QueryRule, QueryNames
<1>2. ASSUME NEW k, NEW j, rule(k)[1] = rule(j)[1] PROVE rule(k) = rule(j)
  <2>. DEFINE t1 == <<"query_param_token_acceptance_review", Review, "low">>
              t2 == <<"query_param_reset_or_verification_review", Review, "low">>
              t3 == <<"query_param_auth_token_acceptance", Misconfigured, "high">>
  <2>1. rule(k) \in {t1, t2, t3} /\ rule(j) \in {t1, t2, t3}
    BY DEF QueryRule
  <2>2. /\ t1[1] = "query_param_token_acceptance_review"
        /\ t2[1] = "query_param_reset_or_verification_review"
        /\ t3[1] = "query_param_auth_token_acceptance"
    OBVIOUS
  <2>. HIDE DEF t1, t2, t3, rule
  <2>. QED  BY <1>2, <2>1, <2>2
<1>3. \A k : at(k).rule = rule(k)[1]
  BY FindingIs DEF QueryAt
<1>4. \A k : at(k).id[1] = rule(k)[1] /\ at(k).id[2] = r.artifacts[k].id
  BY FindingId DEF QueryAt
<1>5. ASSUME NEW k \in Asked(r), NEW j \in Asked(r), r.artifacts[k].id = r.artifacts[j].id, rule(k) = rule(j)
      PROVE  k = j
  <2>1. DOMAIN r.artifacts = 1..Len(r.artifacts) /\ Len(r.artifacts) \in Nat
    BY SequenceForm DEF Basis
  <2>2. \A m \in Asked(r) : /\ m \in 1..Len(r.artifacts)
                            /\ QueryEvidence(r.artifacts[m]) # {} /\ First(r, m)
    BY <2>1 DEF Asked
  <2>3. ASSUME NEW m \in Asked(r), NEW n \in Asked(r), m < n,
               r.artifacts[m].id = r.artifacts[n].id, rule(m) = rule(n)
        PROVE  FALSE
    <3>1. m \in 1..(n - 1)
      BY <2>1, <2>2, <2>3
    <3>. QED  BY <2>2, <2>3, <3>1 DEF First
  <2>4. ~(k < j) /\ ~(j < k)
    BY <1>5, <2>3
  <2>. QED  BY <2>1, <2>2, <2>4
<1>6. \A g \in QueryFindings(r) : \E k \in Asked(r) : g = at(k)
  BY QueriesAre
<1>. HIDE DEF rule, at
<1>. SUFFICES ASSUME NEW g \in QueryFindings(r)
              PROVE  /\ g.rule \in QueryNames /\ g.id[1] = g.rule
                     /\ \A h \in QueryFindings(r) : g.id = h.id /\ Named(r, g) => g = h
  BY DEF ToldApart
<1>7. PICK k \in Asked(r) : g = at(k)
  BY <1>6
<1>8. ASSUME NEW h \in QueryFindings(r), g.id = h.id PROVE g = h
  <2>1. PICK j \in Asked(r) : h = at(j)
    BY <1>6
  <2>2. rule(k)[1] = rule(j)[1] /\ r.artifacts[k].id = r.artifacts[j].id
    BY <1>4, <1>7, <1>8, <2>1
  <2>3. k = j
    BY <1>2, <1>5, <2>2
  <2>. QED  BY <1>7, <2>1, <2>3
<1>. QED  BY <1>1, <1>3, <1>4, <1>7, <1>8

TrustNames == {"trust_boundary_inbound_outbound_reuse_review", "trust_boundary_frontend_backend_reuse_review",
               "trust_boundary_environment_reuse_review", "trust_boundary_provider_scope_review",
               "trust_boundary_metadata_review"}

LEMMA TrustRulesAreApart ==
    ASSUME NEW h
    PROVE  /\ \A t \in TrustRule(h) : t[2] \in TrustNames
           /\ \A t, u \in TrustRule(h) : t[2] = u[2] => t = u
<1>. DEFINE across == Inbound(h) \cup Outbound(h)
            b1 == Inbound(h) # {} /\ Outbound(h) # {} /\ ~Constrained(h, across)
            b2 == Cardinality(Ids(h.artifacts)) >= 2 /\ Frontend(h) /\ Backend(h)
            b3 == \/ Cardinality(Environments(h)) >= 2
                  \/ Cardinality(Of(h.evidence, {"bearer.boundary.environment"})) >= 2
            b4 == Managed(h) # {} /\ ~Constrained(h, Managed(h))
            b5 == Metadata(h) # {} /\ ~Constrained(h, Metadata(h))
            t1 == <<b1, "trust_boundary_inbound_outbound_reuse_review", "medium", across>>
            t2 == <<b2, "trust_boundary_frontend_backend_reuse_review", "low", BoundaryEvidence(h)>>
            t3 == <<b3, "trust_boundary_environment_reuse_review", "low", BoundaryEvidence(h)>>
            t4 == <<b4, "trust_boundary_provider_scope_review", "low", Managed(h)>>
            t5 == <<b5, "trust_boundary_metadata_review", "low", Metadata(h)>>
<1>1. TrustRule(h) = {t1, t2, t3, t4, t5}
  BY DEF TrustRule
<1>. HIDE DEF b1, b2, b3, b4, b5, across
<1>2. /\ t1[2] = "trust_boundary_inbound_outbound_reuse_review"
      /\ t2[2] = "trust_boundary_frontend_backend_reuse_review"
      /\ t3[2] = "trust_boundary_environment_reuse_review" /\ t4[2] = "trust_boundary_provider_scope_review"
      /\ t5[2] = "trust_boundary_metadata_review"
  OBVIOUS
<1>. HIDE DEF t1, t2, t3, t4, t5
<1>. QED  BY <1>1, <1>2 DEF TrustNames

LEMMA TrustFindingsAreApart ==
    ASSUME NEW r
    PROVE  ToldApart(r, TrustFindings(r), TrustNames)
<1>1. ASSUME NEW h, NEW t
      PROVE  /\ TrustFinding(h, t).rule = t[2] /\ TrustFinding(h, t).id[1] = t[2]
             /\ TrustFinding(h, t).id[2] = h.key
  <2>. DEFINE i == <<t[2], h.key, Ids(t[4])>>
  <2>1. i[1] = t[2] /\ i[2] = h.key
    OBVIOUS
  <2>2. TrustFinding(h, t).rule = t[2] /\ TrustFinding(h, t).id = i
    BY DEF TrustFinding
  <2>. HIDE DEF i
  <2>. QED  BY <2>1, <2>2
<1>2. ASSUME NEW h \in Groups(r) PROVE h = Group(r, h.key)
  <2>1. PICK a \in Artifacts(r) : h = Group(r, GroupKey(a))
    BY DEF Groups
  <2>. DEFINE key == GroupKey(a)
  <2>2. Group(r, key).key = key
    BY DEF Group
  <2>. HIDE DEF key
  <2>3. h = Group(r, key)
    BY <2>1 DEF key
  <2>. QED  BY <2>2, <2>3
<1>3. ASSUME NEW h \in Groups(r), NEW x \in Groups(r), h.key = x.key PROVE h = x
  <2>. DEFINE i == h.key
              j == x.key
  <2>1. i = j
    BY <1>3
  <2>2. h = Group(r, i) /\ x = Group(r, j)
    BY <1>2
  <2>. HIDE DEF i, j
  <2>. QED  BY <2>1, <2>2
<1>4. \A g \in TrustFindings(r) : \E h \in Groups(r) : \E t \in TrustRule(h) : g = TrustFinding(h, t)
  BY DEF TrustFindings
<1>. SUFFICES ASSUME NEW g \in TrustFindings(r)
              PROVE  /\ g.rule \in TrustNames /\ g.id[1] = g.rule
                     /\ \A h \in TrustFindings(r) : g.id = h.id /\ Named(r, g) => g = h
  BY DEF ToldApart
<1>5. PICK h \in Groups(r) : \E t \in TrustRule(h) : g = TrustFinding(h, t)
  BY <1>4
<1>6. PICK t \in TrustRule(h) : g = TrustFinding(h, t)
  BY <1>5
<1>7. ASSUME NEW f \in TrustFindings(r), g.id = f.id PROVE g = f
  <2>1. PICK x \in Groups(r) : \E u \in TrustRule(x) : f = TrustFinding(x, u)
    BY <1>4
  <2>2. PICK u \in TrustRule(x) : f = TrustFinding(x, u)
    BY <2>1
  <2>3. t[2] = u[2] /\ h.key = x.key
    BY <1>1, <1>6, <1>7, <2>2
  <2>4. h = x
    BY <1>3, <2>3
  <2>5. t = u
    BY <2>3, <2>4, TrustRulesAreApart
  <2>. QED  BY <1>6, <2>2, <2>4, <2>5
<1>. QED  BY <1>1, <1>6, <1>7, TrustRulesAreApart

LEMMA FixationFindingsAreApart ==
    ASSUME NEW r, Basis(r)
    PROVE  ToldApart(r, FixationFindings(r), {LoginRule, PrivilegeRule})
<1>. DEFINE rule(t) == IF t[2].detector = "session.privilege_transition" THEN PrivilegeRule ELSE LoginRule
            all(t) == StoresNear(r, t) \cup {t}
            at(t) == FixationFinding(r, t, StoresNear(r, t))
            ids(t) == Ids({u[2] : u \in all(t)})
            about(t) == {r.artifacts[u[1]].id : u \in all(t)}
            of(name, artifacts, evidence, i) ==
              [rule |-> name, category |-> Review, severity |-> "medium",
               artifacts |-> artifacts, evidence |-> evidence, id |-> i]
            id(t) == <<rule(t), t[2].file, t[2].line, ids(t), t[2].detector>>
            T == Reported(Fixed(r))
<1>1. \A t : at(t) = of(rule(t), about(t), ids(t), id(t))
  BY DEF FixationFinding
<1>2. \A t : id(t)[1] = rule(t) /\ id(t)[2] = t[2].file /\ id(t)[3] = t[2].line /\ id(t)[4] = ids(t)
             /\ id(t)[5] = t[2].detector
  OBVIOUS
<1>3. \A t, u \in T : /\ t[2].file = u[2].file /\ t[2].line = u[2].line /\ t[2].detector = u[2].detector
                      => t[1] = u[1]
  <2>1. DOMAIN r.artifacts \subseteq Nat
    BY SequenceForm DEF Basis
  <2>2. \A t \in T : t \in Fixed(r) /\ t[1] \in Nat
    BY <2>1 DEF Reported, Fixed, TransitionsOf, FixationRecords
  <2>. SUFFICES ASSUME NEW t \in T, NEW u \in T, t[2].file = u[2].file, t[2].line = u[2].line,
                       t[2].detector = u[2].detector
                PROVE  t[1] = u[1]
    OBVIOUS
  <2>3. ~(t[1] < u[1]) /\ ~(u[1] < t[1])
    BY <2>2 DEF Reported
  <2>. QED  BY <2>2, <2>3
<1>4. ASSUME NEW t \in T, NEW u \in T, t[2].file = u[2].file, t[2].line = u[2].line, t[1] = u[1]
      PROVE  about(t) = about(u)
  <2>1. StoresNear(r, t) = StoresNear(r, u)
    BY <1>4 DEF StoresNear, Within
  <2>. HIDE DEF T
  <2>. QED  BY <1>4, <2>1
<1>5. \A t : of(rule(t), about(t), ids(t), id(t)).rule = rule(t) /\ of(rule(t), about(t), ids(t), id(t)).id = id(t)
  OBVIOUS
<1>6. \A g \in FixationFindings(r) : \E t \in T : g = at(t)
  BY FixationsAre
<1>7. \A t : rule(t) \in {LoginRule, PrivilegeRule}
  OBVIOUS
<1>. HIDE DEF rule, at, ids, about, of, id, T
<1>. SUFFICES ASSUME NEW g \in FixationFindings(r)
              PROVE  /\ g.rule \in {LoginRule, PrivilegeRule} /\ g.id[1] = g.rule
                     /\ \A h \in FixationFindings(r) : g.id = h.id /\ Named(r, g) => g = h
  BY DEF ToldApart
<1>8. PICK t \in T : g = at(t)
  BY <1>6
<1>9. ASSUME NEW h \in FixationFindings(r), g.id = h.id PROVE g = h
  <2>1. PICK u \in T : h = at(u)
    BY <1>6
  <2>2. id(t) = id(u)
    BY <1>1, <1>5, <1>8, <1>9, <2>1
  <2>3. /\ rule(t) = rule(u) /\ t[2].file = u[2].file /\ t[2].line = u[2].line
        /\ ids(t) = ids(u) /\ t[2].detector = u[2].detector
    BY <1>2, <2>2
  <2>4. about(t) = about(u)
    BY <1>3, <1>4, <2>3
  <2>. QED  BY <1>1, <1>8, <2>1, <2>2, <2>3, <2>4
<1>. QED  BY <1>1, <1>2, <1>5, <1>7, <1>8, <1>9

LEMMA WrittenIsNamed == Written => NamedFindingsUnique
<1>. SUFFICES ASSUME Written PROVE NamedFindingsUnique
  OBVIOUS
<1>. DEFINE d == Detected(code, DOMAIN Files)
            bearer == RiskNames \cup ContextNames
            fixation == {LoginRule, PrivilegeRule}
<1>1. /\ report.artifacts = d.artifacts /\ report.findings = Classified(d)
      /\ Basis(d) /\ Distinct(d)
  BY TheReport, ReportIsSolid, ReportIsDistinct
<1>. HIDE DEF d
<1>2. /\ ToldApart(d, CookieFindings(d), CookieFindingNames) /\ ToldApart(d, JwtFindings(d), JwtNames)
      /\ ToldApart(d, StorageFindings(d), StorageNames) /\ ToldApart(d, QueryFindings(d), QueryNames)
      /\ ToldApart(d, OAuthFindings(d), FlowNames) /\ ToldApart(d, FixationFindings(d), fixation)
      /\ ToldApart(d, BearerFindings(d), bearer) /\ ToldApart(d, TrustFindings(d), TrustNames)
  BY <1>1, CookieFindingsAreApart, JwtFindingsAreApart, StorageFindingsAreApart, QueryFindingsAreApart,
     FlowFindingsAreApart, FixationFindingsAreApart, BearerFindingsAreApart, TrustFindingsAreApart
<1>3. CookieFindingNames \cap JwtNames = {}
  BY DEF CookieFindingNames, CookieNames, PrefixNames, SameSiteNames, LifetimeNames, PartitionedNames, ScopeNames,
         HttpOnlyFlagNames, ExpiryNames, SecureFlagNames, JwtNames, DecodeNames, AlgNoneNames, AlgConfusionNames,
         HeaderTrustNames, NbfClockKidNames, IssuerNames, AudienceNames, ExpirationNames, EnforcementNames
<1>4. (CookieFindingNames \cup JwtNames) \cap (StorageNames \cup QueryNames \cup FlowNames \cup fixation
                                                \cup bearer \cup TrustNames) = {}
  BY DEF CookieFindingNames, CookieNames, PrefixNames, SameSiteNames, LifetimeNames, PartitionedNames, ScopeNames,
         HttpOnlyFlagNames, ExpiryNames, SecureFlagNames, JwtNames, DecodeNames, AlgNoneNames, AlgConfusionNames,
         HeaderTrustNames, NbfClockKidNames, IssuerNames, AudienceNames, ExpirationNames, EnforcementNames,
         StorageNames, QueryNames, FlowNames, LoginRule, PrivilegeRule, RiskNames, ContextNames, TrustNames
<1>5. /\ StorageNames \cap QueryNames = {}
      /\ (StorageNames \cup QueryNames) \cap FlowNames = {}
      /\ (StorageNames \cup QueryNames \cup FlowNames) \cap fixation = {}
      /\ (StorageNames \cup QueryNames \cup FlowNames \cup fixation) \cap bearer = {}
      /\ (StorageNames \cup QueryNames \cup FlowNames \cup fixation \cup bearer) \cap TrustNames = {}
  BY DEF StorageNames, QueryNames, FlowNames, LoginRule, PrivilegeRule, RiskNames, ContextNames, TrustNames
<1>. HIDE DEF bearer, fixation
<1>6. ToldApart(d, CookieFindings(d) \cup JwtFindings(d), CookieFindingNames \cup JwtNames)
  BY <1>2, <1>3, ToldApartTogether
<1>7. ToldApart(d, StorageFindings(d) \cup QueryFindings(d) \cup OAuthFindings(d),
                StorageNames \cup QueryNames \cup FlowNames)
  BY <1>2, <1>5, ToldApartTogether
<1>8. ToldApart(d, StorageFindings(d) \cup QueryFindings(d) \cup OAuthFindings(d) \cup FixationFindings(d)
                   \cup BearerFindings(d),
                StorageNames \cup QueryNames \cup FlowNames \cup fixation \cup bearer)
  BY <1>2, <1>5, <1>7, ToldApartTogether
<1>9. ToldApart(d, StorageFindings(d) \cup QueryFindings(d) \cup OAuthFindings(d) \cup FixationFindings(d)
                   \cup BearerFindings(d) \cup TrustFindings(d),
                StorageNames \cup QueryNames \cup FlowNames \cup fixation \cup bearer \cup TrustNames)
  BY <1>2, <1>5, <1>8, ToldApartTogether
<1>. DEFINE G == (CookieFindings(d) \cup JwtFindings(d))
                 \cup (StorageFindings(d) \cup QueryFindings(d) \cup OAuthFindings(d) \cup FixationFindings(d)
                       \cup BearerFindings(d) \cup TrustFindings(d))
            names == (CookieFindingNames \cup JwtNames)
                     \cup (StorageNames \cup QueryNames \cup FlowNames \cup fixation \cup bearer \cup TrustNames)
<1>10. ToldApart(d, G, names)
  BY <1>4, <1>6, <1>9, ToldApartTogether
<1>11. report.findings = G
  BY <1>1 DEF Classified, FileFindings
<1>12. Artifacts(report) = Artifacts(d)
  BY <1>1 DEF Artifacts
<1>. HIDE DEF G
<1>. QED  BY <1>10, <1>11, <1>12 DEF NamedFindingsUnique, ToldApart, Named

\* Baselines and diffs take a finding for its id: over all rules, files and artifacts,
\* and whatever the code, no two findings of a report share one, but for those about
\* JWTs whose name is not known.
THEOREM AuditNamedFindings == Spec => []NamedFindingsUnique
<1>1. Written => NamedFindingsUnique
  BY WrittenIsNamed
<1>. QED  BY <1>1, AuditWritten, PTL
-----------------------------------------------------------------------------
(* What is said of a flow is settled by the next one.                       *)

\* Detectors whose evidence no flow has.
Strange == Stores \cup Reading \cup {"cookie.conflicting_writes", "session.auth_transition",
                                     "session.privilege_transition", "session.store_after_auth"}

\* What a flow of f is evidence of: the lines and their signals.
FlowSignals(f) == UNION {{n} \X OAuth!LineSignals(OAuth!OwnText(f.nodes[n])) : n \in DOMAIN f.nodes}
FlowSignalsOf(f, n) == {p \in FlowSignals(f) : OAuth!OfFlow(f, n, p[1], p[2])}

LEMMA FlowSignalsAre ==
    ASSUME NEW f, NEW m, NEW signal
    PROVE  <<m, signal>> \in FlowSignals(f) <=>
              m \in DOMAIN f.nodes /\ signal \in OAuth!LineSignals(OAuth!OwnText(f.nodes[m]))
<1>. DEFINE L(n) == OAuth!LineSignals(OAuth!OwnText(f.nodes[n]))
<1>1. FlowSignals(f) = UNION {{n} \X L(n) : n \in DOMAIN f.nodes}
  BY DEF FlowSignals
<1>. HIDE DEF L
<1>2. <<m, signal>> \in FlowSignals(f) <=> m \in DOMAIN f.nodes /\ signal \in L(m)
  BY <1>1
<1>. QED  BY <1>2 DEF L

LEMMA FlowIs ==
    ASSUME NEW f, NEW n \in OAuth!FlowLines(f)
    PROVE  LET a == OAuth!FlowArtifact(f, n)
           IN /\ a.id = <<f.path, "oauth.flow", <<"oauth_auth_code_flow">>, n, "oauth_auth_code_flow">>
              /\ a.type = "OAuthAuthCodeFlow" /\ a.name = "oauth_auth_code_flow"
              /\ a.file = f.path /\ a.line = n
              /\ a.cookie = NoAttributes /\ a.jwt = NoAttributes
              /\ a.evidence = {OAuth!FlowEvidence(f, n, p[1], p[2]) : p \in FlowSignalsOf(f, n)}
              /\ \A e \in a.evidence : e.detector \notin Strange
              /\ Flowing(a)
<1>. DEFINE a == OAuth!FlowArtifact(f, n)
            own == <<"oauth.flow.auth_code", "issue", "present">>
<1>1. /\ a.id = <<f.path, "oauth.flow", <<"oauth_auth_code_flow">>, n, "oauth_auth_code_flow">>
      /\ a.type = "OAuthAuthCodeFlow" /\ a.name = "oauth_auth_code_flow"
      /\ a.file = f.path /\ a.line = n
      /\ a.cookie = NoAttributes /\ a.jwt = NoAttributes
  BY DEF OAuth!FlowArtifact, OAuth!Artifact, OAuth!NoAttributes, NoAttributes
<1>2. a.evidence = {OAuth!FlowEvidence(f, n, p[1], p[2]) : p \in FlowSignalsOf(f, n)}
  BY DEF OAuth!FlowArtifact, OAuth!Artifact, FlowSignalsOf, FlowSignals
<1>3. \A T : \A signal \in OAuth!LineSignals(T) : signal[1] \notin Strange
  BY DEF OAuth!LineSignals, OAuth!StateSignal, Strange, Stores, Reading
<1>4. \A m, signal : OAuth!FlowEvidence(f, n, m, signal).detector = signal[1]
  BY DEF OAuth!FlowEvidence, OAuth!EvidenceAt
<1>5. \A p \in FlowSignals(f) : p[1] \in DOMAIN f.nodes /\ p[2] \in OAuth!LineSignals(OAuth!OwnText(f.nodes[p[1]]))
  BY DEF FlowSignals
<1>6. n \in DOMAIN f.nodes /\ OAuth!IsFlow(OAuth!OwnText(f.nodes[n]))
  BY DEF OAuth!FlowLines
<1>7. \A T : OAuth!IsFlow(T) => own \in OAuth!LineSignals(T)
  BY Zenon DEF OAuth!LineSignals
<1>8. OAuth!OfFlow(f, n, n, own)
  BY DEF OAuth!OfFlow
<1>9. own[1] = "oauth.flow.auth_code"
  OBVIOUS
<1>. HIDE DEF a, own
<1>10. <<n, own>> \in FlowSignalsOf(f, n)
  BY <1>6, <1>7, <1>8, FlowSignalsAre DEF FlowSignalsOf
<1>11. OAuth!FlowEvidence(f, n, n, own) \in a.evidence
  BY <1>2, <1>10
<1>12. Flowing(a)
  BY <1>4, <1>9, <1>11 DEF Flowing, HasDetector
<1>13. \A e \in a.evidence : e.detector \notin Strange
  BY <1>2, <1>3, <1>4, <1>5 DEF FlowSignalsOf
<1>. QED  BY <1>1, <1>2, <1>12, <1>13 DEF a

LEMMA AppendedNodes ==
    ASSUME NEW f, IsFile(f), NEW s, NEW g, g.nodes = Append(f.nodes, s)
    PROVE  /\ Len(f.nodes) \in Nat /\ DOMAIN f.nodes = 1..Len(f.nodes) /\ DOMAIN g.nodes = 1..(Len(f.nodes) + 1)
           /\ \A m \in DOMAIN f.nodes : g.nodes[m] = f.nodes[m]
<1>1. IsSequence(f.nodes) /\ g.nodes = f.nodes \o <<s>>
  BY DEF IsFile, IsSequence
<1>2. IsSequence(<<s>>) /\ Len(<<s>>) = 1
  BY SingleIsOne
<1>3. IsSequence(g.nodes) /\ Len(g.nodes) = Len(f.nodes) + 1 /\ \A m \in 1..Len(f.nodes) : g.nodes[m] = f.nodes[m]
  BY <1>1, <1>2, ConcatIsOne
<1>. QED  BY <1>1, <1>3, SequenceForm

\* Behind the next flow, no line is evidence of a flow.
LEMMA FlowStays ==
    ASSUME NEW f, IsFile(f), NEW s, NEW g, g.nodes = Append(f.nodes, s), g.path = f.path,
           NEW n \in OAuth!FlowLines(f), NEW m \in OAuth!FlowLines(f), n < m
    PROVE  /\ n \in OAuth!FlowLines(g)
           /\ OAuth!FlowArtifact(g, n).id = OAuth!FlowArtifact(f, n).id
           /\ OAuth!FlowArtifact(g, n).evidence = OAuth!FlowArtifact(f, n).evidence
<1>. DEFINE N == Len(f.nodes)
            T(x) == OAuth!OwnText(f.nodes[x])
<1>1. /\ N \in Nat /\ DOMAIN f.nodes = 1..N /\ DOMAIN g.nodes = 1..(N + 1)
      /\ \A x \in DOMAIN f.nodes : g.nodes[x] = f.nodes[x]
  BY AppendedNodes
<1>2. OAuth!FlowLines(f) \subseteq OAuth!FlowLines(g) /\ OAuth!FlowLines(g) \subseteq OAuth!FlowLines(f) \cup {N + 1}
  BY <1>1 DEF OAuth!FlowLines
<1>3. n \in 1..N /\ m \in 1..N
  BY <1>1 DEF OAuth!FlowLines
<1>. HIDE DEF N
<1>4. ASSUME NEW x \in DOMAIN f.nodes, NEW signal
      PROVE  OAuth!OfFlow(g, n, x, signal) <=> OAuth!OfFlow(f, n, x, signal)
  <2>1. x < N + 1 /\ ~(N + 1 < n)
    BY <1>1, <1>3
  <2>2. (\A other \in OAuth!FlowLines(g) : (other < n => other < x) /\ (other > n => x < other))
        <=> (\A other \in OAuth!FlowLines(f) : (other < n => other < x) /\ (other > n => x < other))
    BY <1>2, <2>1
  <2>. QED  BY <2>2 DEF OAuth!OfFlow
<1>5. ASSUME NEW signal PROVE ~OAuth!OfFlow(g, n, N + 1, signal)
  <2>1. m \in OAuth!FlowLines(g) /\ m > n /\ ~(N + 1 < m) /\ N + 1 # n
    BY <1>1, <1>2, <1>3
  <2>. QED  BY <2>1 DEF OAuth!OfFlow
<1>6. FlowSignalsOf(g, n) = FlowSignalsOf(f, n)
  <2>1. ASSUME NEW x, NEW signal
        PROVE  <<x, signal>> \in FlowSignalsOf(g, n) <=> <<x, signal>> \in FlowSignalsOf(f, n)
    <3>1. \A h : <<x, signal>> \in FlowSignalsOf(h, n) <=>
             /\ x \in DOMAIN h.nodes /\ signal \in OAuth!LineSignals(OAuth!OwnText(h.nodes[x]))
             /\ OAuth!OfFlow(h, n, x, signal)
      BY FlowSignalsAre DEF FlowSignalsOf
    <3>2. CASE x \in DOMAIN f.nodes
      <4>1. x \in DOMAIN g.nodes /\ g.nodes[x] = f.nodes[x]
        BY <1>1, <3>2
      <4>. QED  BY <1>4, <3>1, <3>2, <4>1
    <3>3. CASE x \notin DOMAIN f.nodes
      <4>1. x \in DOMAIN g.nodes => x = N + 1
        BY <1>1, <3>3
      <4>. QED  BY <1>5, <3>1, <3>3, <4>1
    <3>. QED  BY <3>2, <3>3
  <2>2. \A h : \A p \in FlowSignalsOf(h, n) : p = <<p[1], p[2]>>
    BY DEF FlowSignalsOf, FlowSignals
  <2>3. ASSUME NEW p PROVE p \in FlowSignalsOf(g, n) <=> p \in FlowSignalsOf(f, n)
    <3>. DEFINE q == <<p[1], p[2]>>
    <3>1. q \in FlowSignalsOf(g, n) <=> q \in FlowSignalsOf(f, n)
      BY <2>1
    <3>2. p \in FlowSignalsOf(g, n) \/ p \in FlowSignalsOf(f, n) => p = q
      BY <2>2
    <3>. HIDE DEF q
    <3>. QED  BY <3>1, <3>2
  <2>. QED  BY <2>3
<1>7. \A x, signal : OAuth!FlowEvidence(g, n, x, signal) = OAuth!FlowEvidence(f, n, x, signal)
  BY DEF OAuth!FlowEvidence, OAuth!EvidenceAt
<1>8. n \in OAuth!FlowLines(g)
  BY <1>2
<1>9. \A h \in {f, g} :
         /\ OAuth!FlowArtifact(h, n).id = <<h.path, "oauth.flow", <<"oauth_auth_code_flow">>, n, "oauth_auth_code_flow">>
         /\ OAuth!FlowArtifact(h, n).evidence = {OAuth!FlowEvidence(h, n, p[1], p[2]) : p \in FlowSignalsOf(h, n)}
  <2>1. \A h \in {f, g} : n \in OAuth!FlowLines(h)
    BY <1>8
  <2>. QED  BY <2>1, FlowIs
<1>. DEFINE of(h) == {OAuth!FlowEvidence(h, n, p[1], p[2]) : p \in FlowSignalsOf(h, n)}
<1>10. OAuth!FlowArtifact(g, n).evidence = OAuth!FlowArtifact(f, n).evidence
  <2>1. of(g) = of(f)
    BY <1>6, <1>7
  <2>2. \A h \in {f, g} : OAuth!FlowArtifact(h, n).evidence = of(h)
    BY <1>9
  <2>. HIDE DEF of
  <2>. QED  BY <2>1, <2>2
<1>11. OAuth!FlowArtifact(g, n).id = OAuth!FlowArtifact(f, n).id
  BY <1>9
<1>. QED  BY <1>8, <1>10, <1>11
\* Flows of a report are known by their ids, and have what only flows have.
FlowsAreFlows(r) ==
    \A a \in FlowsOf(r) :
       /\ a.cookie = NoAttributes /\ a.jwt = NoAttributes /\ Flowing(a)
       /\ \A e \in a.evidence : e.detector \notin Strange
       /\ \A b \in Artifacts(r) : b.id = a.id => b = a

\* Findings about other artifacts than flows.
OfOthers(r, G) == \A g \in G : \A i \in g.artifacts : \E b \in Artifacts(r) \ FlowsOf(r) : i = b.id

LEMMA CookiesAreOthers ==
    ASSUME NEW r, Basis(r), FlowsAreFlows(r)
    PROVE  OfOthers(r, CookieFindings(r))
<1>. DEFINE cookies == {b \in Artifacts(r) : b.cookie # NoAttributes}
            G == UNION {OfCookie(a) : a \in cookies}
<1>1. CookieFindings(r) = ConflictRules(r) \cup G
  BY DEF CookieFindings, OfCookie
<1>2. OfOthers(r, G)
  <2>1. \A a \in cookies : OneEach(a, OfCookie(a), CookieNames) /\ a \in Artifacts(r) \ FlowsOf(r)
    BY CookieIsOneEach DEF FlowsAreFlows
  <2>2. \A g \in G : \E a \in cookies : g \in OfCookie(a)
    OBVIOUS
  <2>. HIDE DEF G, cookies
  <2>. QED  BY <2>1, <2>2 DEF OneEach, OfOthers
<1>3. OfOthers(r, ConflictRules(r))
  <2>1. ASSUME NEW e \in Conflicted(r), NEW i \in ConflictAt(r, e).artifacts
        PROVE  \E b \in Artifacts(r) \ FlowsOf(r) : i = b.id
    <3>1. ConflictAt(r, e).artifacts = {r.artifacts[k].id : k \in Sharers(r, e)}
      BY DEF ConflictAt, Finding
    <3>2. PICK k \in Sharers(r, e) : i = r.artifacts[k].id
      BY <2>1, <3>1
    <3>3. k \in DOMAIN r.artifacts /\ e \in r.artifacts[k].evidence /\ e.detector \in Strange
      BY DEF Sharers, In, Conflicted, Of, Strange
    <3>4. r.artifacts[k] \in Artifacts(r)
      BY <3>3 DEF Artifacts, Range1
    <3>. QED  BY <3>2, <3>3, <3>4 DEF FlowsAreFlows
  <2>. QED  BY <2>1, ConflictsAre DEF OfOthers
<1>. QED  BY <1>1, <1>2, <1>3 DEF OfOthers

LEMMA JwtsAreOthers ==
    ASSUME NEW r, Basis(r), FlowsAreFlows(r)
    PROVE  OfOthers(r, JwtFindings(r))
<1>. DEFINE jwts == {b \in Artifacts(r) : b.jwt # NoAttributes}
            G == JwtFindings(r)
<1>1. \A a \in jwts : OneEach(a, OfJwt(a), JwtNames) /\ a \in Artifacts(r) \ FlowsOf(r)
  BY JwtIsOneEach DEF FlowsAreFlows
<1>2. \A g \in G : \E a \in jwts : g \in OfJwt(a)
  BY DEF JwtFindings, OfJwt
<1>. HIDE DEF G, jwts
<1>3. OfOthers(r, G)
  BY <1>1, <1>2 DEF OneEach, OfOthers
<1>. QED  BY <1>3 DEF G

LEMMA ContextType ==
    ASSUME NEW r, Basis(r), NEW c \in Contexts(r)
    PROVE  c.artifact \in Artifacts(r) \ FlowsOf(r)
<1>. DEFINE same(i) == {k \in DOMAIN r.artifacts : r.artifacts[k].id = i /\ r.artifacts[k].type \in BearerLike}
            of(i) == [artifact |-> r.artifacts[Least(same(i))],
                      evidence |-> UNION {r.artifacts[k].evidence : k \in same(i)}]
<1>1. PICK a \in Artifacts(r) : a.type \in BearerLike /\ c = of(a.id)
  BY DEF Contexts
<1>2. PICK k \in DOMAIN r.artifacts : a = r.artifacts[k]
  BY DEF Artifacts, Range1
<1>. DEFINE S == same(a.id)
<1>3. k \in S /\ S \subseteq Nat /\ c.artifact = r.artifacts[Least(S)]
      /\ \A j \in S : j \in DOMAIN r.artifacts /\ r.artifacts[j].type \in BearerLike
  <2>1. DOMAIN r.artifacts \subseteq Nat
    BY SequenceForm DEF Basis
  <2>. QED  BY <1>1, <1>2, <2>1
<1>. HIDE DEF S
<1>4. Least(S) \in S
  BY <1>3, LeastIs
<1>5. "OAuthAuthCodeFlow" \notin BearerLike
  BY DEF BearerLike
<1>. QED  BY <1>3, <1>4, <1>5 DEF Artifacts, Range1, FlowsOf

LEMMA BearersAreOthers ==
    ASSUME NEW r, Basis(r)
    PROVE  OfOthers(r, BearerFindings(r))
<1>. DEFINE risks(c) == DeterministicRules(r, c.artifact, c.evidence)
            rules(c) == ContextRules(r, c.artifact, c.evidence)
<1>1. \A g \in BearerFindings(r) : \E c \in Contexts(r) : g \in risks(c) \/ g \in rules(c)
  BY DEF BearerFindings
<1>2. ASSUME NEW c \in Contexts(r), NEW g \in risks(c) PROVE g.artifacts = {c.artifact.id}
  <2>1. PICK rule \in RiskNames : \E i : g = Citing(rule, Misconfigured, "high", c.artifact, i)
    BY <1>2, RisksAre
  <2>. QED  BY <2>1, FindingIs DEF Citing
<1>3. ASSUME NEW c \in Contexts(r), NEW g \in rules(c) PROVE g.artifacts = {c.artifact.id}
  <2>1. OneEach(c.artifact, rules(c), ContextNames)
    BY ContextIs, ContextClaims
  <2>. QED  BY <2>1 DEF OneEach
<1>. HIDE DEF risks, rules
<1>. QED  BY <1>1, <1>2, <1>3, ContextType DEF OfOthers

LEMMA StoragesAreOthers ==
    ASSUME NEW r, FlowsAreFlows(r)
    PROVE  OfOthers(r, StorageFindings(r))
<1>1. \A rule \in Range1(StorageRule) : rule[1] \in Strange
  <2>1. Range1(StorageRule) = {StorageRule[1], StorageRule[2], StorageRule[3], StorageRule[4]}
    BY DEF Range1, StorageRule
  <2>2. \A k \in {1, 2, 3, 4} : StorageRule[k][1] \in Stores
    BY DEF StorageRule, Stores
  <2>. QED  BY <2>1, <2>2 DEF Strange
<1>2. ASSUME NEW rule \in Range1(StorageRule), NEW e, e.detector = rule[1], NEW i \in StoredAt(r, rule, e).artifacts
      PROVE  \E b \in Artifacts(r) \ FlowsOf(r) : i = b.id
  <2>1. PICK b \in Artifacts(r) : e \in b.evidence /\ i = b.id
    BY <1>2 DEF StoredAt
  <2>. QED  BY <1>1, <1>2, <2>1 DEF FlowsAreFlows
<1>3. \A g \in StorageFindings(r) : \E rule \in Range1(StorageRule) : \E e : e.detector = rule[1] /\ g = StoredAt(r, rule, e)
  BY StoragesAre
<1>. QED  BY <1>2, <1>3 DEF OfOthers

LEMMA QueriesAreOthers ==
    ASSUME NEW r, FlowsAreFlows(r)
    PROVE  OfOthers(r, QueryFindings(r))
<1>1. ASSUME NEW k \in Asked(r)
      PROVE  r.artifacts[k] \in Artifacts(r) \ FlowsOf(r) /\ QueryAt(r.artifacts[k]).artifacts = {r.artifacts[k].id}
  <2>. DEFINE a == r.artifacts[k]
  <2>1. a \in Artifacts(r) /\ QueryEvidence(a) # {}
    BY DEF Asked, Artifacts, Range1
  <2>2. PICK e \in a.evidence : e.detector \in Reading
    BY <2>1 DEF QueryEvidence, Of, In, Reading
  <2>3. a \notin FlowsOf(r)
    BY <2>2 DEF FlowsAreFlows, Strange
  <2>4. QueryAt(a).artifacts = {a.id}
    BY DEF QueryAt, Finding
  <2>. QED  BY <2>1, <2>3, <2>4
<1>. QED  BY <1>1, QueriesAre DEF OfOthers

LEMMA TrustsAreOthers ==
    ASSUME NEW r
    PROVE  OfOthers(r, TrustFindings(r))
<1>1. ASSUME NEW h \in Groups(r), NEW i \in Ids(h.artifacts)
      PROVE  \E b \in Artifacts(r) \ FlowsOf(r) : i = b.id
  <2>1. PICK key : h = Group(r, key)
    BY DEF Groups
  <2>2. \A a \in h.artifacts : a \in Artifacts(r) /\ a.type \in BoundaryToken
    BY <2>1 DEF Group
  <2>. QED  BY <1>1, <2>2 DEF Ids, FlowsOf, BoundaryToken
<1>2. \A g \in TrustFindings(r) : \E h \in Groups(r) : \E t : g = TrustFinding(h, t)
  BY DEF TrustFindings
<1>3. \A h, t : TrustFinding(h, t).artifacts = Ids(h.artifacts)
  BY DEF TrustFinding
<1>. QED  BY <1>1, <1>2, <1>3 DEF OfOthers

LEMMA FixationsAreOthers ==
    ASSUME NEW r, FlowsAreFlows(r)
    PROVE  OfOthers(r, FixationFindings(r))
<1>1. \A u \in TransitionsOf(r) \cup StoresOf(r) :
         u[1] \in DOMAIN r.artifacts /\ u[2] \in r.artifacts[u[1]].evidence /\ u[2].detector \in Strange
  BY DEF TransitionsOf, StoresOf, FixationRecords, Of, Strange
<1>2. \A u \in TransitionsOf(r) \cup StoresOf(r) : r.artifacts[u[1]] \in Artifacts(r) \ FlowsOf(r)
  BY <1>1 DEF Artifacts, Range1, FlowsAreFlows
<1>3. ASSUME NEW g \in FixationFindings(r), NEW i \in g.artifacts
      PROVE  \E b \in Artifacts(r) \ FlowsOf(r) : i = b.id
  <2>1. PICK t \in TransitionsOf(r) : g = FixationFinding(r, t, StoresNear(r, t))
    BY FixationsAre DEF Reported, Fixed
  <2>2. g.artifacts = {r.artifacts[u[1]].id : u \in StoresNear(r, t) \cup {t}}
    BY <2>1 DEF FixationFinding
  <2>3. PICK u \in StoresOf(r) \cup TransitionsOf(r) : i = r.artifacts[u[1]].id
    BY <1>3, <2>2 DEF StoresNear
  <2>. QED  BY <1>2, <2>3
<1>. QED  BY <1>3 DEF OfOthers

\* What a report says of a flow is what the rules about flows say of it.
LEMMA AboutFlows ==
    ASSUME NEW r, Basis(r), FlowsAreFlows(r), NEW a \in FlowsOf(r)
    PROVE  {g \in Classified(r) : a.id \in g.artifacts} = Fire(a, FlowRules(a))
<1>. DEFINE others == CookieFindings(r) \cup JwtFindings(r) \cup StorageFindings(r) \cup QueryFindings(r)
                      \cup FixationFindings(r) \cup BearerFindings(r) \cup TrustFindings(r)
<1>1. Classified(r) = OAuthFindings(r) \cup others
  BY DEF Classified, FileFindings
<1>2. OfOthers(r, others)
  BY CookiesAreOthers, JwtsAreOthers, StoragesAreOthers, QueriesAreOthers, FixationsAreOthers, BearersAreOthers,
     TrustsAreOthers DEF OfOthers
<1>. HIDE DEF others
<1>3. \A g \in others : a.id \notin g.artifacts
  BY <1>2 DEF OfOthers, FlowsAreFlows
<1>4. OAuthFindings(r) = UNION {Fire(b, FlowRules(b)) : b \in FlowsOf(r)}
  BY DEF OAuthFindings, FlowsOf, FlowsAreFlows, Flowing
<1>5. \A b \in FlowsOf(r) : \A g \in Fire(b, FlowRules(b)) : g.artifacts = {b.id}
  BY FlowFindingsAreJust DEF FlowsAreFlows, OneEach, FlowsOf
<1>6. \A b \in FlowsOf(r) : b.id = a.id => b = a
  BY DEF FlowsAreFlows, FlowsOf
<1>. DEFINE F(b) == Fire(b, FlowRules(b))
<1>7. \A g : g \in Classified(r) /\ a.id \in g.artifacts <=> g \in F(a)
  <2>. HIDE DEF F
  <2>1. \A g \in OAuthFindings(r) : \E b \in FlowsOf(r) : g \in F(b)
    BY <1>4 DEF F
  <2>2. F(a) \subseteq OAuthFindings(r)
    BY <1>4 DEF F
  <2>3. \A b \in FlowsOf(r) : \A g \in F(b) : g.artifacts = {b.id}
    BY <1>5 DEF F
  <2>. QED  BY <1>1, <1>3, <1>6, <2>1, <2>2, <2>3
<1>. QED  BY <1>7
\* The flows of a report are those of its files, and what it says of them is what
\* the rules about flows say of them.
FlowsTold ==
    /\ \A a \in FlowsOf(report) : \E k \in DOMAIN Files : FlowIn(FileOf(k), a)
    /\ \A k \in DOMAIN Files : Program(FileOf(k)) =>
          \A n \in OAuth!FlowLines(FileOf(k)) : OAuth!FlowArtifact(FileOf(k), n) \in FlowsOf(report)
    /\ \A a \in FlowsOf(report) : About(report, a) = Fire(a, FlowRules(a))

LEMMA FlowInIs ==
    ASSUME NEW f, NEW a, FlowIn(f, a)
    PROVE  /\ a.id[2] = "oauth.flow" /\ a.type = "OAuthAuthCodeFlow"
           /\ a.cookie = NoAttributes /\ a.jwt = NoAttributes /\ Flowing(a)
           /\ \A e \in a.evidence : e.detector \notin Strange
<1>1. PICK n \in OAuth!FlowLines(f) : a = OAuth!FlowArtifact(f, n)
  BY DEF FlowIn
<1>2. a.id = <<f.path, "oauth.flow", <<"oauth_auth_code_flow">>, n, "oauth_auth_code_flow">>
  BY <1>1, FlowIs
<1>3. a.id[2] = "oauth.flow"
  BY <1>2
<1>. QED  BY <1>1, <1>3, FlowIs

LEMMA WrittenTellsFlows ==
    ASSUME Written
    PROVE  FlowsTold
<1>. DEFINE d == Detected(code, DOMAIN Files)
<1>1. /\ report.artifacts = d.artifacts /\ report.evidence = d.evidence /\ report.findings = Classified(d)
      /\ Whole(d) /\ Basis(d) /\ Distinct(d)
  BY TheReport, ReportIsSolid, ReportIsDistinct
<1>. HIDE DEF d
<1>2. Artifacts(report) = Artifacts(d) /\ FlowsOf(report) = FlowsOf(d)
  BY <1>1 DEF Artifacts, FlowsOf
<1>3. ASSUME NEW a \in Artifacts(d) PROVE \E k \in DOMAIN Files : Shown(FileOf(k), a)
  <2>0. PICK m \in DOMAIN d.artifacts : a = d.artifacts[m]
    BY DEF Artifacts, Range1
  <2>1. PICK k \in DOMAIN Files : \E i \in 1..Len(Detect(FileOf(k))) : a = Detect(FileOf(k))[i]
    BY <1>1, <2>0 DEF Whole
  <2>2. Found(FileOf(k), Detect(FileOf(k)), Cookie!CookieCalls(FileOf(k)))
    BY DetectIs DEF Written
  <2>. QED  BY <2>1, <2>2 DEF Found
<1>4. ASSUME NEW a \in Artifacts(d), LikeFlow(a) PROVE \E k \in DOMAIN Files : FlowIn(FileOf(k), a)
  BY <1>3, <1>4 DEF Shown
<1>5. \A a \in FlowsOf(d) : a \in Artifacts(d) /\ LikeFlow(a)
  BY DEF FlowsOf, LikeFlow
<1>6. FlowsAreFlows(d)
  <2>. SUFFICES ASSUME NEW a \in FlowsOf(d)
                PROVE  /\ a.cookie = NoAttributes /\ a.jwt = NoAttributes /\ Flowing(a)
                       /\ \A e \in a.evidence : e.detector \notin Strange
                       /\ \A b \in Artifacts(d) : b.id = a.id => b = a
    BY DEF FlowsAreFlows
  <2>1. \E k \in DOMAIN Files : FlowIn(FileOf(k), a)
    BY <1>4, <1>5
  <2>2. /\ a.id[2] = "oauth.flow" /\ Flowing(a) /\ a.cookie = NoAttributes /\ a.jwt = NoAttributes
        /\ \A e \in a.evidence : e.detector \notin Strange
    BY <2>1, FlowInIs
  <2>3. ASSUME NEW b \in Artifacts(d), b.id = a.id PROVE b = a
    <3>1. LikeFlow(b)
      BY <2>2, <2>3 DEF LikeFlow
    <3>2. Flowing(b)
      BY <1>4, <3>1, FlowInIs
    <3>. QED  BY <1>1, <1>5, <2>2, <2>3, <3>2 DEF Distinct
  <2>. QED  BY <2>2, <2>3
<1>7. ASSUME NEW a \in FlowsOf(report) PROVE About(report, a) = Fire(a, FlowRules(a))
  <2>1. About(report, a) = {g \in Classified(d) : a.id \in g.artifacts}
    BY <1>1 DEF About
  <2>. QED  BY <1>1, <1>2, <1>6, <2>1, AboutFlows
<1>8. ASSUME NEW k \in DOMAIN Files, Program(FileOf(k)), NEW n \in OAuth!FlowLines(FileOf(k))
      PROVE  OAuth!FlowArtifact(FileOf(k), n) \in FlowsOf(report)
  <2>. DEFINE a == OAuth!FlowArtifact(FileOf(k), n)
  <2>1. a \in Range1(Detect(FileOf(k)))
    BY <1>8, DetectIs DEF Written
  <2>2. a.type = "OAuthAuthCodeFlow"
    BY FlowIs
  <2>. HIDE DEF a
  <2>3. a \in FlowsOf(report)
    BY <1>1, <1>2, <2>1, <2>2 DEF Whole, FlowsOf
  <2>. QED  BY <2>3 DEF a
<1>. QED  BY <1>2, <1>4, <1>5, <1>7, <1>8 DEF FlowsTold

\* Of a flow the rules see its evidence only.
LEMMA FlowRulesSee ==
    ASSUME NEW a, NEW c, a.id = c.id, a.name = c.name, a.evidence = c.evidence
    PROVE  Fire(a, FlowRules(a)) = Fire(c, FlowRules(c))
<1>1. FlowRules(a) = FlowRules(c)
  BY DEF FlowRules
<1>2. \A t : Finding(t[2], t[3], t[4], a, t[5]) = Finding(t[2], t[3], t[4], c, t[5])
  BY DEF Finding
<1>. QED  BY <1>1, <1>2 DEF Fire

LEMMA CommitSettlesFlows ==
    ASSUME Written, FlowsTold, FlowsTold', NEW k \in DOMAIN Files, Commit(k),
           NEW a \in FlowsOf(report), NEW b \in FlowsOf(report), b.file = a.file, b.line > a.line
    PROVE  /\ \E c \in FlowsOf(report') : c.id = a.id /\ c.evidence = a.evidence
           /\ About(report, a) = About(report', a)
<1>1. PICK s : code' = [code EXCEPT ![k] = Append(@, s)]
  BY DEF Commit
<1>2. Files' = Files /\ \A j : FileOf(j)' = Read(code', j)
  BY DEF Commit, Files, FileOf, Read
<1>3. /\ code'[k] = Append(code[k], s) /\ \A j \in DOMAIN Files \ {k} : code'[j] = code[j]
  BY <1>1 DEF Written
<1>4. PICK i \in DOMAIN Files : FlowIn(FileOf(i), a)
  BY DEF FlowsTold
<1>5. PICK j \in DOMAIN Files : FlowIn(FileOf(j), b)
  BY DEF FlowsTold
<1>6. PICK n \in OAuth!FlowLines(FileOf(i)) : a = OAuth!FlowArtifact(FileOf(i), n)
  BY <1>4 DEF FlowIn
<1>7. PICK m \in OAuth!FlowLines(FileOf(j)) : b = OAuth!FlowArtifact(FileOf(j), m)
  BY <1>5 DEF FlowIn
<1>8. a.file = FileOf(i).path /\ a.line = n /\ a.name = "oauth_auth_code_flow"
      /\ b.file = FileOf(j).path /\ b.line = m
  BY <1>6, <1>7, FlowIs
<1>9. i = j /\ n < m
  <2>1. n \in DOMAIN FileOf(i).nodes /\ m \in DOMAIN FileOf(j).nodes
    BY DEF OAuth!FlowLines
  <2>2. IsFile(FileOf(i)) /\ IsFile(FileOf(j))
    BY DEF Written, IsRead
  <2>3. n \in Nat /\ m \in Nat
    BY <2>1, <2>2, SequenceForm DEF IsFile
  <2>. QED  BY <1>8, <2>3, FilesAre
<1>. DEFINE g == Read(code', i)
            c == OAuth!FlowArtifact(g, n)
<1>10. n \in OAuth!FlowLines(g) /\ c.id = a.id /\ c.evidence = a.evidence
  <2>1. CASE i = k
    <3>1. g.nodes = Append(FileOf(i).nodes, s) /\ g.path = FileOf(i).path
      BY <1>3, <2>1 DEF FileOf, Read
    <3>2. IsFile(FileOf(i))
      BY DEF Written, IsRead
    <3>. QED  BY <1>6, <1>7, <1>9, <3>1, <3>2, FlowStays
  <2>2. CASE i # k
    <3>1. g = FileOf(i)
      BY <1>3, <2>2 DEF FileOf, Read
    <3>. QED  BY <1>6, <3>1
  <2>. QED  BY <2>1, <2>2
<1>11. c.name = a.name
  BY <1>8, <1>10, FlowIs
<1>12. Program(g)
  BY <1>4 DEF FlowIn, Program, FileOf, Read
<1>. HIDE DEF c
<1>13. c \in FlowsOf(report')
  BY <1>2, <1>10, <1>12 DEF FlowsTold, c
<1>14. About(report', c) = Fire(c, FlowRules(c)) /\ About(report, a) = Fire(a, FlowRules(a))
  BY <1>13 DEF FlowsTold
<1>15. About(report', c) = About(report', a)
  BY <1>10 DEF About
<1>. QED  BY <1>10, <1>11, <1>13, <1>14, <1>15, FlowRulesSee

\* What the report says of an authorization flow, and on what evidence, is settled
\* once another flow follows it in its file: whatever is written afterwards, there or
\* in another file, neither silences a finding about it nor adds one.
THEOREM AuditSettledFlows == Spec => SettledFlows
<1>1. Written => FlowsTold
  BY WrittenTellsFlows
<1>2. Spec => []FlowsTold
  BY <1>1, AuditWritten, PTL
<1>3. Written /\ FlowsTold /\ FlowsTold' /\ [Next]_vars =>
        [\A a \in FlowsOf(report) :
           (\E b \in FlowsOf(report) : b.file = a.file /\ b.line > a.line)
           => /\ \E c \in FlowsOf(report') : c.id = a.id /\ c.evidence = a.evidence
              /\ About(report, a) = About(report', a)]_vars
  BY CommitSettlesFlows DEF Next
<1>. QED  BY <1>2, <1>3, AuditWritten, PTL DEF Spec, SettledFlows

-----------------------------------------------------------------------------
(* A login that does not regenerate the session stays reported.             *)

\* A fact of a file, and those of a report: the records of each kind.
IsFact(f, detectors, stage, p) ==
    /\ Program(f)
    /\ \E n \in DOMAIN f.nodes : \E x \in Seen(f, n) :
          x.detector \in detectors /\ x.stage = stage /\ p = <<x.scope, EvidenceOf(f, x)>>
Pair(r, u) == <<r.artifacts[u[1]].scope, u[2]>>
Shared(records, detectors, stage) ==
    /\ \A u \in records : \E k \in DOMAIN Files : IsFact(FileOf(k), detectors, stage, Pair(report, u))
    /\ \A k \in DOMAIN Files : \A p : IsFact(FileOf(k), detectors, stage, p) => \E u \in records : Pair(report, u) = p

LEMMA EvidenceOfIs ==
    ASSUME NEW f, NEW x
    PROVE  /\ Session!SessionArtifact(f, x).evidence = {EvidenceOf(f, x)}
           /\ Session!SessionArtifact(f, x).scope = x.scope
           /\ EvidenceOf(f, x).id = <<f.path, x.detector, <<x.stage, x.column>>, x.line, x.name>>
           /\ EvidenceOf(f, x).detector = x.detector /\ EvidenceOf(f, x).stage = x.stage
           /\ EvidenceOf(f, x).file = f.path /\ EvidenceOf(f, x).line = x.line
<1>. DEFINE e == Session!EvidenceAt(f, x.detector, <<x.stage, x.column>>, x.line, x.name, x.stage, x.state, {})
            a == Session!Artifact(f, x.detector, <<x.type, x.column>>, x.line, x.line, x.type, x.name, {}, {e})
<1>1. e = EvidenceOf(f, x)
  BY DEF EvidenceOf, EvidenceAt, Session!EvidenceAt
<1>2. Session!SessionArtifact(f, x) = [a EXCEPT !.scope = x.scope]
  BY Zenon DEF Session!SessionArtifact
<1>3. a.evidence = {e} /\ "evidence" \in DOMAIN a /\ "scope" \in DOMAIN a
  BY DEF Session!Artifact
<1>. HIDE DEF a, e
<1>4. Session!SessionArtifact(f, x).evidence = {e} /\ Session!SessionArtifact(f, x).scope = x.scope
  BY <1>2, <1>3
<1>. QED  BY <1>1, <1>4 DEF EvidenceOf, EvidenceAt

LEMMA RecordsAreFacts ==
    ASSUME Written, NEW detectors, detectors \subseteq Sessional, NEW stage
    PROVE  Shared(FixationRecords(report, detectors, stage), detectors, stage)
<1>. DEFINE d == Detected(code, DOMAIN Files)
            R == FixationRecords(report, detectors, stage)
<1>1. report.artifacts = d.artifacts /\ report.evidence = d.evidence /\ Whole(d)
  BY TheReport
<1>. HIDE DEF d
<1>2. ASSUME NEW u \in R PROVE \E k \in DOMAIN Files : IsFact(FileOf(k), detectors, stage, Pair(report, u))
  <2>1. PICK m \in DOMAIN report.artifacts, e \in Of(report.evidence, detectors) :
           u = <<m, e>> /\ e \in report.artifacts[m].evidence /\ e.stage = stage
    BY DEF FixationRecords
  <2>2. PICK k \in DOMAIN Files : \E i \in 1..Len(Detect(FileOf(k))) : d.artifacts[m] = Detect(FileOf(k))[i]
    BY <1>1, <2>1 DEF Whole
  <2>. DEFINE f == FileOf(k)
              a == report.artifacts[m]
  <2>3. PICK i \in 1..Len(Detect(f)) : a = Detect(f)[i]
    BY <1>1, <2>2
  <2>4. Shown(f, a)
    <3>1. Found(f, Detect(f), Cookie!CookieCalls(f))
      BY DetectIs DEF Written
    <3>. QED  BY <2>3, <3>1 DEF Found
  <2>5. e.detector \in detectors
    BY DEF Of
  <2>6. SessionIn(f, a)
    BY <2>1, <2>4, <2>5 DEF Shown
  <2>. HIDE DEF f, a
  <2>7. PICK n \in DOMAIN f.nodes : \E s \in Range1(Session!SessionSignals(f, n)) : a = Session!SessionArtifact(f, s)
    BY <2>6 DEF SessionIn
  <2>8. PICK x \in Range1(Session!SessionSignals(f, n)) : a = Session!SessionArtifact(f, x)
    BY <2>7
  <2>9. a.evidence = {EvidenceOf(f, x)} /\ a.scope = x.scope
    BY <2>8, EvidenceOfIs
  <2>10. e = EvidenceOf(f, x)
    BY <2>1, <2>9 DEF a
  <2>11. x.detector \in detectors /\ x.stage = stage
    BY <2>1, <2>5, <2>10, EvidenceOfIs
  <2>12. x \in Seen(f, n)
    BY <2>11 DEF Seen
  <2>13. Pair(report, u) = <<x.scope, EvidenceOf(f, x)>>
    BY <2>1, <2>9, <2>10 DEF Pair, a
  <2>14. IsFact(f, detectors, stage, Pair(report, u))
    BY <2>6, <2>11, <2>12, <2>13 DEF IsFact, SessionIn
  <2>. QED  BY <2>14 DEF f
<1>3. ASSUME NEW k \in DOMAIN Files, NEW p, IsFact(FileOf(k), detectors, stage, p)
      PROVE  \E u \in R : Pair(report, u) = p
  <2>. DEFINE f == FileOf(k)
  <2>1. Program(f)
    BY <1>3 DEF IsFact
  <2>0. PICK n \in DOMAIN f.nodes : \E x \in Seen(f, n) :
           x.detector \in detectors /\ x.stage = stage /\ p = <<x.scope, EvidenceOf(f, x)>>
    BY <1>3 DEF IsFact
  <2>2. PICK x \in Seen(f, n) :
           x.detector \in detectors /\ x.stage = stage /\ p = <<x.scope, EvidenceOf(f, x)>>
    BY <2>0
  <2>. DEFINE a == Session!SessionArtifact(f, x)
              e == EvidenceOf(f, x)
  <2>3. a \in Range1(Detect(f))
    BY <2>1, DetectIs DEF Seen, Written
  <2>4. a \in Artifacts(d)
    BY <1>1, <2>3 DEF Whole
  <2>5. PICK m \in DOMAIN report.artifacts : report.artifacts[m] = a
    BY <1>1, <2>4 DEF Artifacts, Range1
  <2>6. a.evidence = {e} /\ a.scope = x.scope /\ e.detector = x.detector /\ e.stage = x.stage
    BY EvidenceOfIs
  <2>7. e \in report.evidence
    BY <1>1, <2>4, <2>6 DEF Whole
  <2>. HIDE DEF a, e
  <2>8. <<m, e>> \in R
    BY <2>2, <2>5, <2>6, <2>7 DEF FixationRecords, Of
  <2>9. Pair(report, <<m, e>>) = p
    BY <2>2, <2>5, <2>6 DEF Pair, e
  <2>. QED  BY <2>8, <2>9
<1>. QED  BY <1>2, <1>3 DEF Shared

\* A report of session fixation: its transitions and regenerations are facts of the
\* files, its findings those of the classifier.
Passages == {"session.auth_transition", "session.privilege_transition"}
FixationTold ==
    /\ Shared(TransitionsOf(report), Passages, "issue")
    /\ Shared(RegenerationsOf(report), Regeneration, "refresh")
    /\ FixationFindings(report) \subseteq report.findings
    /\ \A f \in report.findings : f.rule \in {LoginRule, PrivilegeRule} => f \in FixationFindings(report)
    /\ \A t \in TransitionsOf(report), u \in StoresOf(report) : t[2].id # u[2].id
    /\ DOMAIN report.artifacts \subseteq Nat

LEMMA WrittenTellsFixation == Written => FixationTold
<1>. SUFFICES ASSUME Written PROVE FixationTold
  OBVIOUS
<1>. DEFINE d == Detected(code, DOMAIN Files)
            fixation == {LoginRule, PrivilegeRule}
<1>1. /\ report.artifacts = d.artifacts /\ report.evidence = d.evidence /\ report.findings = Classified(d)
      /\ Whole(d) /\ Basis(d) /\ Distinct(d)
  BY TheReport, ReportIsSolid, ReportIsDistinct
<1>. HIDE DEF d
<1>2. /\ ToldApart(d, CookieFindings(d), CookieFindingNames) /\ ToldApart(d, JwtFindings(d), JwtNames)
      /\ ToldApart(d, StorageFindings(d), StorageNames) /\ ToldApart(d, QueryFindings(d), QueryNames)
      /\ ToldApart(d, OAuthFindings(d), FlowNames)
      /\ ToldApart(d, BearerFindings(d), RiskNames \cup ContextNames) /\ ToldApart(d, TrustFindings(d), TrustNames)
  BY <1>1, CookieFindingsAreApart, JwtFindingsAreApart, StorageFindingsAreApart, QueryFindingsAreApart,
     FlowFindingsAreApart, BearerFindingsAreApart, TrustFindingsAreApart
<1>3. fixation \cap (CookieFindingNames \cup JwtNames) = {}
  BY DEF CookieFindingNames, CookieNames, PrefixNames, SameSiteNames, LifetimeNames, PartitionedNames, ScopeNames,
         HttpOnlyFlagNames, ExpiryNames, SecureFlagNames, JwtNames, DecodeNames, AlgNoneNames, AlgConfusionNames,
         HeaderTrustNames, NbfClockKidNames, IssuerNames, AudienceNames, ExpirationNames, EnforcementNames,
         LoginRule, PrivilegeRule
<1>4. fixation \cap (StorageNames \cup QueryNames \cup FlowNames \cup RiskNames \cup ContextNames \cup TrustNames) = {}
  BY DEF StorageNames, QueryNames, FlowNames, LoginRule, PrivilegeRule, RiskNames, ContextNames, TrustNames
<1>. HIDE DEF fixation
<1>. DEFINE G == CookieFindings(d) \cup JwtFindings(d) \cup StorageFindings(d) \cup QueryFindings(d) \cup OAuthFindings(d)
                 \cup BearerFindings(d) \cup TrustFindings(d)
<1>5. report.findings = G \cup FixationFindings(d)
  BY <1>1 DEF Classified, FileFindings
<1>6. \A g \in G : g.rule \notin fixation
  BY <1>2, <1>3, <1>4 DEF ToldApart
<1>. HIDE DEF G
<1>7. /\ TransitionsOf(report) = TransitionsOf(d) /\ StoresOf(report) = StoresOf(d)
      /\ RegenerationsOf(report) = RegenerationsOf(d)
  BY <1>1 DEF TransitionsOf, StoresOf, RegenerationsOf, FixationRecords
<1>8. FixationFindings(report) = FixationFindings(d)
  <2>1. \A t : Regenerated(report, t) <=> Regenerated(d, t)
    BY <1>1, <1>7 DEF Regenerated, SameScope
  <2>2. Fixed(report) = Fixed(d)
    BY <1>7, <2>1 DEF Fixed
  <2>3. \A t : StoresNear(report, t) = StoresNear(d, t)
    BY <1>7 DEF StoresNear
  <2>4. \A t, u : FixationFinding(report, t, u) = FixationFinding(d, t, u)
    BY <1>1 DEF FixationFinding
  <2>. QED  BY <2>2, <2>3, <2>4, FixationsAre
<1>9. FixationFindings(report) \subseteq report.findings
      /\ \A f \in report.findings : f.rule \in fixation => f \in FixationFindings(report)
  BY <1>5, <1>6, <1>8
<1>10. \A t \in TransitionsOf(report), u \in StoresOf(report) : t[2].id # u[2].id
  <2>. TAKE t \in TransitionsOf(report), u \in StoresOf(report)
  <2>1. t[2] \in d.evidence /\ t[2].detector \in Passages
    BY <1>1 DEF TransitionsOf, FixationRecords, Of, Passages
  <2>2. u[2] \in d.evidence /\ u[2].detector = "session.store_after_auth"
    BY <1>1 DEF StoresOf, FixationRecords, Of
  <2>3. \A e \in d.evidence : e.id[2] = e.detector
    BY <1>1 DEF Whole, Placed
  <2>. QED  BY <2>1, <2>2, <2>3 DEF Passages
<1>11. DOMAIN report.artifacts \subseteq Nat
  BY <1>1, SequenceForm DEF Whole
<1>12. Shared(TransitionsOf(report), Passages, "issue") /\ Shared(RegenerationsOf(report), Regeneration, "refresh")
  BY RecordsAreFacts DEF TransitionsOf, RegenerationsOf, Passages, Regeneration, Sessional
<1>. QED  BY <1>9, <1>10, <1>11, <1>12 DEF FixationTold, fixation

\* What one report has of a transition's scope, the other has.
Mirrors(r, t, R, q, u, Q) ==
    \A v \in R : SameScope(r, t, v) => \E x \in Q : SameScope(q, u, x) /\ x[2] = v[2]

LEMMA RegeneratedAlike ==
    ASSUME NEW r, NEW q, NEW t, NEW u, t[2] = u[2],
           Mirrors(r, t, TransitionsOf(r), q, u, TransitionsOf(q)),
           Mirrors(q, u, TransitionsOf(q), r, t, TransitionsOf(r)),
           Mirrors(r, t, RegenerationsOf(r), q, u, RegenerationsOf(q)),
           Regenerated(r, t)
    PROVE  Regenerated(q, u)
<1>. DEFINE T(x) == TransitionsOf(x)
            G(x) == RegenerationsOf(x)
            later(x, y) == {v[2].line : v \in {z \in T(x) : SameScope(x, y, z) /\ z[2].line > y[2].line}}
            ends(x, y, g) == /\ SameScope(x, y, g)
                             /\ y[2].detector = "session.privilege_transition" => ~g[2].default
                             /\ g[2].line <= LastLine(y, later(x, y))
                             /\ Within(LinkDistance, y[2], g[2])
<1>1. \A x, y : Regenerated(x, y) <=> \E g \in G(x) : ends(x, y, g)
  BY DEF Regenerated
<1>2. later(r, t) = later(q, u)
  <2>1. ASSUME NEW v \in T(r), SameScope(r, t, v), v[2].line > t[2].line PROVE v[2].line \in later(q, u)
    <3>1. PICK x \in T(q) : SameScope(q, u, x) /\ x[2] = v[2]
      BY <2>1 DEF Mirrors
    <3>. QED  BY <2>1, <3>1
  <2>2. ASSUME NEW v \in T(q), SameScope(q, u, v), v[2].line > u[2].line PROVE v[2].line \in later(r, t)
    <3>1. PICK x \in T(r) : SameScope(r, t, x) /\ x[2] = v[2]
      BY <2>2 DEF Mirrors
    <3>. QED  BY <2>2, <3>1
  <2>. QED  BY <2>1, <2>2
<1>3. LastLine(t, later(r, t)) = LastLine(u, later(q, u))
  BY <1>2 DEF LastLine
<1>4. PICK g \in G(r) : ends(r, t, g)
  BY <1>1
<1>5. PICK h \in G(q) : SameScope(q, u, h) /\ h[2] = g[2]
  BY <1>4 DEF Mirrors
<1>. HIDE DEF later, T, G
<1>6. ends(q, u, h)
  BY <1>3, <1>4, <1>5
<1>. HIDE DEF ends
<1>. QED  BY <1>1, <1>5, <1>6

\* Of the transitions of a kind on a line, one is reported.
LEMMA OneIsReported ==
    ASSUME NEW r, DOMAIN r.artifacts \subseteq Nat, NEW t \in Fixed(r)
    PROVE  \E u \in Reported(Fixed(r)) : /\ u[2].detector = t[2].detector
                                         /\ u[2].file = t[2].file /\ u[2].line = t[2].line
<1>. DEFINE like(u) == u[2].detector = t[2].detector /\ u[2].file = t[2].file /\ u[2].line = t[2].line
            T == {u[1] : u \in {v \in Fixed(r) : like(v)}}
<1>1. \A u \in Fixed(r) : u[1] \in Nat
  BY DEF Fixed, TransitionsOf, FixationRecords
<1>2. T \in SUBSET Nat /\ T # {}
  BY <1>1
<1>. HIDE DEF T
<1>3. PICK n \in T : \A m \in T : n <= m
  BY <1>2, LeastNat
<1>4. PICK u \in Fixed(r) : like(u) /\ u[1] = n
  BY <1>3 DEF T
<1>5. \A v \in Fixed(r) : like(v) => v[1] \in T
  BY DEF T
<1>6. ASSUME NEW v \in Fixed(r), v[1] < u[1], v[2].detector = u[2].detector, v[2].file = u[2].file,
             v[2].line = u[2].line
      PROVE  FALSE
  <2>1. like(v)
    BY <1>4, <1>6
  <2>2. n <= v[1] /\ n \in Nat /\ v[1] \in Nat
    BY <1>1, <1>2, <1>3, <1>5, <2>1
  <2>. QED  BY <1>4, <1>6, <2>2
<1>7. u \in Reported(Fixed(r))
  BY <1>6 DEF Reported
<1>. QED  BY <1>4, <1>7

\* Outside of the functions that a node is in, the added node is in none of its chain.
LEMMA OutsideIs ==
    ASSUME NEW k \in DOMAIN Files, Committed = k, NEW w, Grown(FileOf(k), Read(code', k), w),
           NEW n \in DOMAIN FileOf(k).nodes, OutsideOf(n)
    PROVE  Outside(FileOf(k), n, w)
<1>. DEFINE f == FileOf(k)
            g == Read(code', k)
            N == Len(f.nodes)
<1>1. /\ IsTree(g) /\ N \in Nat /\ Len(g.nodes) = N + 1
      /\ DOMAIN g.nodes = 1..(N + 1) /\ g.nodes[N + 1].within = w
      /\ \A m \in 0..N : ChainOf(g)[m] = ChainOf(f)[m]
  BY GrownIs
<1>2. IsTree(f) /\ w \in 0..N
  BY DEF Grown
<1>3. Added = N + 1
  <2>1. g.nodes = code'[k]
    BY DEF Read
  <2>. QED  BY <1>1, <2>1 DEF Added
<1>4. \A x : Inside(g, N + 1, x) <=> x # 0 /\ x \in ChainOf(f)[w]
  <2>1. N + 1 \in DOMAIN g.nodes
    BY <1>1
  <2>2. \A x : Inside(g, N + 1, x) <=> x # 0 /\ x \in ChainOf(g)[g.nodes[N + 1].within]
    BY <1>1, <2>1, InsideIs
  <2>. QED  BY <1>1, <1>2, <2>2
<1>5. \A x \in Bearer!Around(f, n) \cup {n} : ~Inside(g, N + 1, x)
  BY <1>3 DEF OutsideOf, AddedIn
<1>6. Bearer!Around(f, n) \cup {n} = ChainOf(f)[n] \ {0}
  BY <1>2, AroundIs
<1>. HIDE DEF f, g, N
<1>7. Outside(f, n, w)
  BY <1>4, <1>5, <1>6 DEF Outside
<1>. QED  BY <1>7 DEF f

\* A file, before and after a commit, has the same facts of a scope.
SameFacts(f, g, s) ==
    \A detectors, stage : \A p : p[1] = s => (IsFact(f, detectors, stage, p) <=> IsFact(g, detectors, stage, p))

LEMMA GrownKeepsFacts ==
    ASSUME NEW f, NEW g, NEW w, Grown(f, g, w), NEW n \in DOMAIN f.nodes, Outside(f, n, w),
           NEW s, s # 0, s = Session!HandlerScope(f, n)
    PROVE  SameFacts(f, g, s)
<1>1. /\ \A m \in DOMAIN f.nodes : \A x \in Seen(f, m) : x.scope = s => m \in DOMAIN g.nodes /\ x \in Seen(g, m)
      /\ \A m \in DOMAIN g.nodes : \A x \in Seen(g, m) : x.scope = s => m \in DOMAIN f.nodes /\ x \in Seen(f, m)
  BY FactsStay
<1>2. Program(f) <=> Program(g)
  BY DEF Grown, Program
<1>3. \A x : EvidenceOf(f, x) = EvidenceOf(g, x)
  BY DEF Grown, EvidenceOf, EvidenceAt
<1>4. ASSUME NEW detectors, NEW stage, NEW p, p[1] = s, IsFact(f, detectors, stage, p)
      PROVE  IsFact(g, detectors, stage, p)
  <2>1. PICK m \in DOMAIN f.nodes : \E x \in Seen(f, m) :
           x.detector \in detectors /\ x.stage = stage /\ p = <<x.scope, EvidenceOf(f, x)>>
    BY <1>4 DEF IsFact
  <2>2. PICK x \in Seen(f, m) :
           x.detector \in detectors /\ x.stage = stage /\ p = <<x.scope, EvidenceOf(f, x)>>
    BY <2>1
  <2>3. m \in DOMAIN g.nodes /\ x \in Seen(g, m)
    BY <1>1, <1>4, <2>2
  <2>. QED  BY <1>2, <1>3, <1>4, <2>2, <2>3 DEF IsFact
<1>5. ASSUME NEW detectors, NEW stage, NEW p, p[1] = s, IsFact(g, detectors, stage, p)
      PROVE  IsFact(f, detectors, stage, p)
  <2>1. PICK m \in DOMAIN g.nodes : \E x \in Seen(g, m) :
           x.detector \in detectors /\ x.stage = stage /\ p = <<x.scope, EvidenceOf(g, x)>>
    BY <1>5 DEF IsFact
  <2>2. PICK x \in Seen(g, m) :
           x.detector \in detectors /\ x.stage = stage /\ p = <<x.scope, EvidenceOf(g, x)>>
    BY <2>1
  <2>3. m \in DOMAIN f.nodes /\ x \in Seen(f, m)
    BY <1>1, <1>5, <2>2
  <2>. QED  BY <1>2, <1>3, <1>5, <2>2, <2>3 DEF IsFact
<1>. QED  BY <1>4, <1>5 DEF SameFacts

\* Two reports whose records are the facts of files: records of one scope of a file
\* that has the same facts in both are the same.
FactsOf(r, records, F, detectors, stage) ==
    /\ \A u \in records : \E k \in DOMAIN F : IsFact(F[k], detectors, stage, Pair(r, u))
    /\ \A k \in DOMAIN F : \A p : IsFact(F[k], detectors, stage, p) => \E u \in records : Pair(r, u) = p
OnePath(F) == \A i, j \in DOMAIN F : F[i].path = F[j].path => i = j

LEMMA FactIsOf ==
    ASSUME NEW f, NEW detectors, NEW stage, NEW p, IsFact(f, detectors, stage, p)
    PROVE  p[2].file = f.path
<1>1. PICK n \in DOMAIN f.nodes : \E x \in Seen(f, n) : p = <<x.scope, EvidenceOf(f, x)>>
  BY DEF IsFact
<1>. QED  BY <1>1, EvidenceOfIs

LEMMA FactsMirror ==
    ASSUME NEW r, NEW q, NEW R, NEW Q, NEW F, NEW G, NEW detectors, NEW stage,
           FactsOf(r, R, F, detectors, stage), FactsOf(q, Q, G, detectors, stage),
           DOMAIN G = DOMAIN F, OnePath(F), NEW k \in DOMAIN F,
           NEW t, NEW u, t[2] = u[2], t[2].file = F[k].path, NEW s, Pair(r, t)[1] = s, Pair(q, u)[1] = s,
           SameFacts(F[k], G[k], s)
    PROVE  Mirrors(r, t, R, q, u, Q)
<1>. SUFFICES ASSUME NEW v \in R, SameScope(r, t, v) PROVE \E x \in Q : SameScope(q, u, x) /\ x[2] = v[2]
  BY DEF Mirrors
<1>1. Pair(r, v)[1] = s /\ Pair(r, v)[2] = v[2] /\ v[2].file = F[k].path
  BY DEF SameScope, Pair
<1>2. PICK j \in DOMAIN F : IsFact(F[j], detectors, stage, Pair(r, v))
  BY DEF FactsOf
<1>3. j = k
  <2>1. F[j].path = F[k].path
    BY <1>1, <1>2, FactIsOf
  <2>. QED  BY <2>1 DEF OnePath
<1>4. IsFact(G[k], detectors, stage, Pair(r, v))
  BY <1>1, <1>2, <1>3 DEF SameFacts
<1>5. PICK x \in Q : Pair(q, x) = Pair(r, v)
  BY <1>4 DEF FactsOf
<1>6. x[2] = v[2] /\ q.artifacts[x[1]].scope = s /\ q.artifacts[u[1]].scope = s
  BY <1>1, <1>5 DEF Pair
<1>7. SameScope(q, u, x)
  BY <1>1, <1>6 DEF SameScope
<1>. QED  BY <1>6, <1>7

\* The id of a fact says where it is, and in which scope.
LEMMA FactId ==
    ASSUME NEW f, NEW detectors, NEW stage, NEW p, IsFact(f, detectors, stage, p)
    PROVE  /\ p[2].line \in DOMAIN f.nodes /\ p[2].file = f.path
           /\ p[1] # 0 => p[1] = Session!HandlerScope(f, p[2].line)
           /\ \A q : IsFact(f, detectors, stage, q) /\ q[2].id = p[2].id =>
                 p[1] = q[1] /\ p[2].detector = q[2].detector /\ p[2].line = q[2].line
           /\ p[2].id[1] = f.path
<1>. DEFINE of(q, n, x) ==
              /\ n \in DOMAIN f.nodes /\ x \in Seen(f, n) /\ q = <<x.scope, EvidenceOf(f, x)>>
<1>1. \A q : IsFact(f, detectors, stage, q) => \E n \in DOMAIN f.nodes : \E x \in Seen(f, n) : of(q, n, x)
  BY DEF IsFact
<1>2. ASSUME NEW q, NEW n, NEW x, of(q, n, x)
      PROVE  /\ q[1] = (IF x.column = 1 THEN 0 ELSE Session!HandlerScope(f, q[2].line))
             /\ n = q[2].line /\ n \in DOMAIN f.nodes /\ q[2].file = f.path
             /\ q[2].id = <<f.path, q[2].detector, <<x.stage, x.column>>, q[2].line, x.name>>
  <2>1. x.line = n /\ x.scope = (IF x.column = 1 THEN 0 ELSE Session!HandlerScope(f, n))
    BY <1>2, SeenIs
  <2>2. q[1] = x.scope /\ q[2] = EvidenceOf(f, x)
    BY <1>2
  <2>. HIDE DEF of
  <2>3. /\ q[2].id = <<f.path, x.detector, <<x.stage, x.column>>, x.line, x.name>>
        /\ q[2].detector = x.detector /\ q[2].file = f.path /\ q[2].line = x.line
    BY <2>2, EvidenceOfIs
  <2>. QED  BY <1>2, <2>1, <2>2, <2>3 DEF of
<1>. HIDE DEF of
<1>3. PICK n, x : of(p, n, x)
  BY <1>1
<1>4. /\ p[1] = (IF x.column = 1 THEN 0 ELSE Session!HandlerScope(f, p[2].line))
      /\ n = p[2].line /\ n \in DOMAIN f.nodes /\ p[2].file = f.path
      /\ p[2].id = <<f.path, p[2].detector, <<x.stage, x.column>>, p[2].line, x.name>>
  BY <1>2, <1>3
<1>5. ASSUME NEW q, IsFact(f, detectors, stage, q), q[2].id = p[2].id
      PROVE  p[1] = q[1] /\ p[2].detector = q[2].detector /\ p[2].line = q[2].line
  <2>1. PICK m, y : of(q, m, y)
    BY <1>1, <1>5
  <2>2. /\ q[1] = (IF y.column = 1 THEN 0 ELSE Session!HandlerScope(f, q[2].line))
        /\ q[2].id = <<f.path, q[2].detector, <<y.stage, y.column>>, q[2].line, y.name>>
    BY <1>2, <2>1
  <2>3. y.column = x.column /\ q[2].line = p[2].line /\ q[2].detector = p[2].detector
    BY <1>4, <1>5, <2>2
  <2>. QED  BY <1>4, <2>2, <2>3
<1>6. p[1] # 0 => p[1] = Session!HandlerScope(f, p[2].line)
  BY <1>4
<1>. QED  BY <1>4, <1>5, <1>6

\* A commit outside of a handler keeps what is reported of its transitions.
LEMMA CommitKeepsFixation ==
    ASSUME Written, Written', Nested, FixationTold, FixationTold', NEW k \in DOMAIN Files, Commit(k),
           NEW f \in report.findings, NEW t \in TransitionsOf(report), Cites(f, t[2]),
           f.rule \in {LoginRule, PrivilegeRule}, report.artifacts[t[1]].scope # 0,
           t[2].file = Files[Committed].path => OutsideOf(t[2].line)
    PROVE  StillReported(f, t[2])
<1>. DEFINE F == [j \in DOMAIN Files |-> FileOf(j)]
            G == [j \in DOMAIN Files |-> Read(code', j)]
<1>1. PICK w : Grown(FileOf(k), Read(code', k), w)
  BY CommitGrows
<1>2. /\ \A j \in DOMAIN Files \ {k} : Read(code', j) = FileOf(j)
      /\ Files' = Files /\ \A j : FileOf(j)' = Read(code', j)
      /\ Committed = k
  BY CommitGrows
<1>3. DOMAIN F = DOMAIN Files /\ DOMAIN G = DOMAIN Files /\ OnePath(F) /\ OnePath(G)
  <2>1. \A i, j \in DOMAIN Files : Files[i].path = Files[j].path => i = j
    BY FilesAre
  <2>2. \A j \in DOMAIN Files : F[j].path = Files[j].path /\ G[j].path = Files[j].path
    BY DEF FileOf, Read
  <2>. HIDE DEF F, G
  <2>3. DOMAIN F = DOMAIN Files /\ DOMAIN G = DOMAIN Files
    BY DEF F, G
  <2>. QED  BY <2>1, <2>2, <2>3 DEF OnePath
<1>4. /\ FactsOf(report, TransitionsOf(report), F, Passages, "issue")
      /\ FactsOf(report, RegenerationsOf(report), F, Regeneration, "refresh")
      /\ FixationFindings(report) \subseteq report.findings /\ f \in FixationFindings(report)
      /\ \A u \in TransitionsOf(report), v \in StoresOf(report) : u[2].id # v[2].id
  BY DEF FixationTold, Shared, FactsOf
<1>5. /\ FactsOf(report', TransitionsOf(report'), G, Passages, "issue")
      /\ FactsOf(report', RegenerationsOf(report'), G, Regeneration, "refresh")
      /\ FixationFindings(report') \subseteq report'.findings /\ DOMAIN report'.artifacts \subseteq Nat
  BY <1>2 DEF FixationTold, Shared, FactsOf
<1>6. \A j \in DOMAIN Files : F[j] = FileOf(j) /\ G[j] = Read(code', j)
  OBVIOUS
<1>. HIDE DEF F, G
<1>7. PICK u \in Reported(Fixed(report)) : f = FixationFinding(report, u, StoresNear(report, u))
  BY <1>4, FixationsAre
<1>8. u \in TransitionsOf(report) /\ ~Regenerated(report, u)
  BY DEF Reported, Fixed
<1>9. /\ f.rule = (IF u[2].detector = "session.privilege_transition" THEN PrivilegeRule ELSE LoginRule)
      /\ f.evidence = Ids({v[2] : v \in StoresNear(report, u) \cup {u}})
  BY <1>7 DEF FixationFinding
<1>10. t[2].id = u[2].id
  <2>1. PICK v \in StoresNear(report, u) \cup {u} : t[2].id = v[2].id
    BY <1>9 DEF Cites, Ids
  <2>2. v \notin StoresNear(report, u)
    BY <1>4, <2>1 DEF StoresNear
  <2>. QED  BY <2>1, <2>2
<1>11. PICK j \in DOMAIN F : IsFact(F[j], Passages, "issue", Pair(report, t))
  BY <1>4 DEF FactsOf
<1>12. IsFact(F[j], Passages, "issue", Pair(report, u))
  <2>1. PICK i \in DOMAIN F : IsFact(F[i], Passages, "issue", Pair(report, u))
    BY <1>4, <1>8 DEF FactsOf
  <2>2. Pair(report, t)[2] = t[2] /\ Pair(report, u)[2] = u[2]
    BY DEF Pair
  <2>3. F[i].path = t[2].id[1] /\ F[j].path = u[2].id[1]
    BY <1>10, <1>11, <2>1, <2>2, FactId
  <2>4. i = j
    BY <1>3, <1>10, <2>3 DEF OnePath
  <2>. QED  BY <2>1, <2>4
<1>. DEFINE p == Pair(report, u)
            s == p[1]
            n == u[2].line
<1>13. p = Pair(report, t) \/ (p[1] = Pair(report, t)[1] /\ u[2].detector = t[2].detector /\ u[2].line = t[2].line
          /\ u[2].file = t[2].file)
  <2>1. Pair(report, t)[2] = t[2] /\ p[2] = u[2]
    BY DEF Pair
  <2>. QED  BY <1>10, <1>11, <1>12, <2>1, FactId
<1>14. /\ s # 0 /\ s = Session!HandlerScope(F[j], n) /\ n \in DOMAIN F[j].nodes /\ u[2].file = F[j].path
       /\ u[2].detector = t[2].detector /\ u[2].line = t[2].line /\ u[2].file = t[2].file
  <2>1. Pair(report, t)[2] = t[2] /\ p[2] = u[2] /\ Pair(report, t)[1] = report.artifacts[t[1]].scope
    BY DEF Pair
  <2>2. s # 0 /\ u[2].detector = t[2].detector /\ u[2].line = t[2].line /\ u[2].file = t[2].file
    BY <1>13, <2>1
  <2>. HIDE DEF p
  <2>3. s = Session!HandlerScope(F[j], n) /\ n \in DOMAIN F[j].nodes /\ u[2].file = F[j].path
    <3>1. IsFact(F[j], Passages, "issue", p)
      BY <1>12 DEF p
    <3>. QED  BY <2>1, <2>2, <3>1, FactId
  <2>. QED  BY <2>2, <2>3
<1>. HIDE DEF s, n, p
<1>15. SameFacts(F[j], G[j], s)
  <2>1. CASE j = k
    <3>1. t[2].file = Files[Committed].path
      <4>1. F[j].path = Files[j].path
        BY <1>3, <1>6 DEF FileOf, Read
      <4>. QED  BY <1>2, <1>14, <2>1, <4>1
    <3>2. OutsideOf(n)
      BY <1>14, <3>1 DEF n
    <3>3. Outside(F[j], n, w)
      BY <1>1, <1>2, <1>3, <1>6, <1>14, <2>1, <3>2, OutsideIs
    <3>. QED  BY <1>1, <1>3, <1>6, <1>14, <2>1, <3>3, GrownKeepsFacts
  <2>2. CASE j # k
    <3>1. G[j] = F[j]
      BY <1>2, <1>3, <1>6, <2>2
    <3>. QED  BY <3>1 DEF SameFacts
  <2>. QED  BY <2>1, <2>2
<1>16. PICK v \in TransitionsOf(report') : Pair(report', v) = Pair(report, u)
  <2>1. IsFact(G[j], Passages, "issue", Pair(report, u))
    BY <1>12, <1>15 DEF SameFacts, s, p
  <2>. QED  BY <1>3, <1>5, <2>1 DEF FactsOf
<1>17. v[2] = u[2] /\ Pair(report', v)[1] = s /\ Pair(report, u)[1] = s
  BY <1>16 DEF Pair, s, p
<1>18. ~Regenerated(report', v)
  <2>1. SameFacts(G[j], F[j], s)
    BY <1>15 DEF SameFacts
  <2>2. G[j].path = F[j].path
    BY <1>3, <1>6 DEF FileOf, Read
  <2>3. Mirrors(report', v, TransitionsOf(report'), report, u, TransitionsOf(report))
    BY <1>3, <1>4, <1>5, <1>14, <1>17, <2>1, <2>2, FactsMirror
  <2>4. Mirrors(report, u, TransitionsOf(report), report', v, TransitionsOf(report'))
    BY <1>3, <1>4, <1>5, <1>14, <1>15, <1>17, FactsMirror
  <2>5. Mirrors(report', v, RegenerationsOf(report'), report, u, RegenerationsOf(report))
    BY <1>3, <1>4, <1>5, <1>14, <1>17, <2>1, <2>2, FactsMirror
  <2>. QED  BY <1>8, <1>17, <2>3, <2>4, <2>5, RegeneratedAlike
<1>19. v \in Fixed(report')
  BY <1>18 DEF Fixed
<1>20. PICK x \in Reported(Fixed(report')) :
          x[2].detector = v[2].detector /\ x[2].file = v[2].file /\ x[2].line = v[2].line
  BY <1>5, <1>19, OneIsReported
<1>. DEFINE g == FixationFinding(report', x, StoresNear(report', x))
<1>21. g \in report'.findings
  BY <1>5, FixationsAre
<1>22. /\ g.rule = (IF x[2].detector = "session.privilege_transition" THEN PrivilegeRule ELSE LoginRule)
       /\ g.evidence = Ids({y[2] : y \in StoresNear(report', x) \cup {x}})
  BY DEF FixationFinding
<1>. HIDE DEF g
<1>23. g.rule = f.rule /\ Cites(g, x[2])
  BY <1>9, <1>17, <1>20, <1>22 DEF Cites, Ids
<1>24. x \in TransitionsOf(report')
  BY DEF Reported, Fixed
<1>. QED  BY <1>14, <1>17, <1>20, <1>21, <1>23, <1>24 DEF StillReported

\* A login or a change of privilege in a handler that does not regenerate the session
\* stays reported, whatever is written outside of that handler, in its file or in
\* another: other handlers' regenerations, logins and stores of the user say nothing
\* of this one.
THEOREM AuditFixationStays == Spec => FixationStays
<1>1. Written => FixationTold
  BY WrittenTellsFixation
<1>2. Spec => []FixationTold
  BY <1>1, AuditWritten, PTL
<1>3. Written /\ Written' /\ Nested /\ FixationTold /\ FixationTold' /\ [Next]_vars =>
        [\A f \in report.findings : \A t \in {u \in TransitionsOf(report) : Cites(f, u[2])} :
           (/\ f.rule \in {LoginRule, PrivilegeRule} /\ report.artifacts[t[1]].scope # 0
            /\ t[2].file = Files[Committed].path => OutsideOf(t[2].line))
           => StillReported(f, t[2])]_vars
  BY CommitKeepsFixation DEF Next
<1>. QED  BY <1>2, <1>3, AuditWritten, AuditNested, PTL DEF Spec, FixationStays
===============================================================================
