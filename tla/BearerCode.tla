------------------------------ MODULE BearerCode ------------------------------
(***************************************************************************)
(* The bearer token and API key detector (sessionscope-detectors, bearer). *)
(* Its nodes are the statements Call, Assign and, in a configuration file,  *)
(* Line.  It looks for words and knows no types: what a statement is about *)
(* is guessed from the words around the ones that make it a signal.        *)
(***************************************************************************)
EXTENDS Words

BrowserStorage == {"localstorage", "sessionstorage"}

-----------------------------------------------------------------------------
(* Contexts.                                                                *)
IsBrowserStorage(W) == Says(W, BrowserStorage)
BrowserSession(W) == Says(W, {"session", "sid"})

\* contains_provider_config_context, contains_token_context
ProviderConfig(W) ==
    /\ Says(W, Provider)
    /\ Says(W, {"issuer", "audience", "client_id", "callback", "scope", "tenant", "session",
                "jwt", "token", "revoke", "logout", "signout"})
TokenContext(W) ==
    \/ ProviderConfig(W)
    \/ Says(W, {"authorization", "bearer", "session_token", "session_id", "api_key",
                "access_token", "service_token", "client_token"})
    \/ /\ "token" \in W
       /\ Says(W, {"header", "auth", "store", "find", "validate", "verify", "create", "generate",
                   "revoke", "expires", "scope", "audience", "permission", "provider"}
                  \cup BrowserStorage)
    \/ IsBrowserStorage(W) /\ BrowserSession(W)

PublicConfig(W) == Says(W, {"next_public", "vite_", "react_app", "public_", "publicruntimeconfig",
                            "runtimeconfig", "clientconfig", "window.__"})
FrontendContext(W) == Says(W, {"frontend", "client", "browser", "public"})
ScopeContext(W) == Says(W, {"scope", "audience", "permission"}) /\ TokenContext(W)

\* is_frontend_exposed_path: a directory at the root of the tree is none, as
\* no "/" is before it.
FrontendPath(f) ==
    \/ \E k \in 2..(Len(f.path) - 1) : f.path[k] \in {"client", "frontend", "public", "static", "browser"}
    \/ EndsWithTsx(f.path)

\* What a statement is taken to be about: its code, or all its text when only
\* the literals speak of a token.
IsContext(n, call) ==
    \/ call /\ ("url parameter" \in n.text \/ ProviderConfig(n.code))
    \/ TokenContext(n.code)
    \/ IsBrowserStorage(n.text) /\ BrowserSession(n.text)
    \/ "headers" \in n.code /\ TokenContext(n.text)
Context(n) == IF TokenContext(n.code) THEN n.code ELSE n.text

-----------------------------------------------------------------------------
(* Operations.                                                              *)
IssueCall(C) == "token" \in C /\ Says(C, {"create", "generate", "random", "nanoid", "uuid"})
StoreCall(C) ==
    /\ ~Says(C, {"headers_set", "headers_append", "headers_authorization"})
    /\ Says(C, {"dot_create", "insert", "save", "update", "set", "env", "settings"} \cup BrowserStorage)
UrlQuery(X, T) == "url parameter" \in T \/ ("params" \in X /\ Says(X, {"token", "api_key"}))
TransmitCall(X, T) == Says(X, {"authorization", "bearer", "x_api_key", "headers"}) \/ UrlQuery(X, T)
ValidateCall(C) == Says(C, {"validate", "verify", "check", "compare_digest", "timingsafeequal",
                            "findunique", "findfirst", "findone"})
ExpireCall(C) == Says(C, {"expires", "ttl", "maxage"})
RevokeCall(C) == Says(C, {"revoke", "disable", "delete", "destroy"})
RotationCall(C) == Says(C, {"rotate", "roll", "regenerate", "replace"}) /\ Says(C, {"token", "api_key", "key"})
DynamicProviderCall(C) ==
    /\ Says(C, Provider \cup {"clientcredentials"})
    /\ Says(C, {"token", "api_key", "session", "jwt", "callback", "clientcredentials"})
InboundHeader(W) == Says(W, {"req_headers", "headers_get"}) /\ Says(W, {"authorization", "api_key"})
JwtLibrary(C) == Says(C, {"jwt.sign", "jwt.verify", "jwt.decode", "jsonwebtoken", "jwtverify", "signjwt"})
SecretLiteral(T, C) == TokenContext(C) /\ "secret literal" \in T

-----------------------------------------------------------------------------
(* Types, names and framework hints.                                        *)
TypeOf(W) ==
    FirstRule(W, << <<{"api_key"}, "ApiKey">>,
                    <<{"service", "machine", "clientcredentials", "client_token", "internal"}, "ServiceToken">>,
                    <<{"bearer", "authorization", "access_token", "session_token", "session_id"},
                      "OpaqueBearerToken">> >>,
              IF IsBrowserStorage(W) /\ BrowserSession(W) THEN "OpaqueBearerToken" ELSE "UnknownToken")
NameOf(W) ==
    FirstRule(W, << <<{"x_api_key"}, "x_api_key">>, <<{"api_key"}, "api_key">>,
                    <<{"service"}, "service_token">>,
                    <<{"authorization", "bearer"}, "authorization_bearer">>,
                    <<{"access_token"}, "access_token">>, <<{"session_token"}, "session_token">>,
                    <<{"session_id"}, "session_id">>, <<{"session"}, "session">>, <<{"sid"}, "sid">> >>,
              TypePart(TypeOf(W)))

ProviderHint(W) ==
    FirstRule(W, << <<{"nextauth"}, "nextauth">>, <<{"authjs"}, "authjs">>, <<{"passport"}, "passport">>,
                    <<{"openid", "oidc"}, "oidc">>, <<{"auth0"}, "auth0">>, <<{"okta"}, "okta">>,
                    <<{"cognito"}, "cognito">>, <<{"azuread"}, "azure-ad">>,
                    <<{"firebase"}, "firebase">>, <<{"supabase"}, "supabase">>,
                    <<{"clerk"}, "clerk">>, <<{"oauth"}, "oauth">> >>, "provider")
JsHint(W) ==
    FirstRule(W, << <<Provider, ProviderHint(W)>>, <<{"cookies", "next"}, "nextjs">>,
                    <<{"req", "res", "express"}, "express">>,
                    <<{"axios", "fetch"}, "javascript-http-client">> >>, "javascript")
PythonHint(W) ==
    FirstRule(W, << <<Provider, ProviderHint(W)>>, <<{"req_headers", "fastapi"}, "fastapi">>,
                    <<{"django", "settings"}, "django">>,
                    <<{"requests", "httpx"}, "python-http-client">> >>, "python")

-----------------------------------------------------------------------------
(* Signals.                                                                 *)

\* boundary_kinds_for_context: the words that make a boundary, and the words
\* its value is the first of.
BoundaryTerms ==
    [issuer |-> <<"issuer", "auth0", "okta", "oauth", "oidc", "openid", "cognito", "azuread",
                  "firebase", "supabase", "clerk", "provider">>,
     audience |-> <<"audience", "resource", "internal", "public", "scope", "client_id">>,
     service |-> <<"service", "internal", "backend", "server", "machine">>,
     environment |-> <<"production", "prod", "staging", "stage", "development", "dev", "test">>,
     tenant |-> <<"tenant", "organization", "org", "workspace", "realm">>,
     provider |-> <<"provider", "nextauth", "authjs", "passport", "auth0", "okta", "oauth", "oidc",
                    "openid", "cognito", "azuread", "firebase", "supabase", "clerk">>,
     trust_boundary |-> <<"frontend", "client", "backend", "server", "public", "internal">>]
IsBoundary(k, W) ==
    CASE k = "issuer" -> "iss" \in W
      [] k = "audience" -> Says(W, {"aud", "resource", "scope", "permission"})
      [] k = "service" -> Says(W, {"service", "internal", "server", "machine"})
      [] k = "environment" -> Says(W, {"prod", "staging", "stage", "dev", "test"})
      [] k = "tenant" -> Says(W, {"tenant", "organization", "workspace"})
      [] k = "provider" -> Says(W, {"provider", "auth0", "okta", "oauth", "supabase", "clerk"})
      [] k = "trust_boundary" -> PublicConfig(W) \/ FrontendContext(W) \/ Says(W, {"backend", "server"})
BoundaryDetector(k) ==
    [issuer |-> "bearer.boundary.issuer", audience |-> "bearer.boundary.audience",
     service |-> "bearer.boundary.service", environment |-> "bearer.boundary.environment",
     tenant |-> "bearer.boundary.tenant", provider |-> "bearer.boundary.provider",
     trust_boundary |-> "bearer.boundary.trust_boundary", scope |-> "bearer.scope"][k]
BoundarySignals(W, n, hint) ==
    {Signal(BoundaryDetector(k), "introspect", TypeOf(W), NameOf(W), hint, n, FALSE,
            FirstSaid(W, BoundaryTerms[k])) :
       k \in {x \in DOMAIN BoundaryTerms : IsBoundary(x, W)}}

\* A call is as many operations as its words allow; what is stored goes to the
\* place `stored`.
OperationSignals(n, s, plain, hint, stored) ==
    LET C == s.code  T == s.text  X == Context(s)
        of(detector, stage) == Signal(detector, stage, TypeOf(X), NameOf(X), hint, n, FALSE, {})
        when(is, detector, stage) == IF is THEN {of(detector, stage)} ELSE {}
        transmitted == IF InboundHeader(X) THEN "bearer.read.inbound"
                       ELSE IF UrlQuery(X, T) THEN "bearer.transmit.url_query" ELSE "bearer.transmit"
    IN {[t EXCEPT !.hint = plain] : t \in when(IssueCall(C), "bearer.issue", "issue")}
       \cup when(StoreCall(C), stored, "store")
       \cup when(TransmitCall(X, T), transmitted, "transmit")
       \cup when(ValidateCall(C), "bearer.validate", "validate")
       \cup when(ScopeContext(C), "bearer.scope", IF IssueCall(C) THEN "issue" ELSE "validate")
       \cup when(ExpireCall(C), "bearer.expire", "expire")
       \cup when(RotationCall(C), "bearer.rotate", "refresh")
       \cup when(RevokeCall(C), "bearer.revoke", "revoke")
       \cup {[t EXCEPT !.hint = ProviderHint(C), !.dynamic = TRUE] :
               t \in when(DynamicProviderCall(C), "bearer.dynamic_provider", "transmit")}
       \cup BoundarySignals(X, n, hint)

\* Where a call that is no browser storage puts a token.
ServerStore(f, X) == IF PublicConfig(X) THEN "bearer.store.public_config"
                     ELSE IF FrontendPath(f) THEN "bearer.store.frontend_bundle" ELSE "bearer.store"

\* collect_js_call_signal, collect_python_call_signal: calls of a JWT library are
\* left to its detector in JavaScript only, and so is browser storage seen.
JsCallSignals(f, n, s) ==
    IF ~IsContext(s, TRUE) \/ JwtLibrary(s.code) THEN {}
    ELSE OperationSignals(n, s, "javascript", JsHint(s.code),
            IF IsBrowserStorage(s.code) THEN "bearer.store.browser" ELSE ServerStore(f, Context(s)))
PythonCallSignals(f, n, s) ==
    IF ~IsContext(s, TRUE) THEN {}
    ELSE OperationSignals(n, s, "python", PythonHint(s.code), ServerStore(f, Context(s)))

\* collect_assignment_signal: an assignment is one operation.
AssignmentSignals(f, n) ==
    LET C == f.nodes[n].code  T == f.nodes[n].text  X == Context(f.nodes[n])
        hint == IF f.language = "py" THEN "python" ELSE "javascript"
        of(detector, stage) == Signal(detector, stage, TypeOf(X), NameOf(X), hint, n, FALSE, {})
        stage == IF Says(C, {"expires", "ttl"}) THEN "expire"
                 ELSE IF Says(C, {"header", "authorization"}) THEN "transmit" ELSE "store"
        detector == IF PublicConfig(X) THEN "bearer.store.public_config"
                    ELSE IF FrontendPath(f) /\ stage = "store" THEN "bearer.store.frontend_bundle"
                    ELSE IF SecretLiteral(T, C) THEN "bearer.literal.static"
                    ELSE IF InboundHeader(C) THEN "bearer.read.inbound"
                    ELSE IF stage = "transmit" THEN "bearer.transmit" ELSE "bearer.store.config"
    IN IF ~IsContext(f.nodes[n], FALSE) \/ JwtLibrary(C) THEN {}
       ELSE {of(detector, stage)}
            \cup (IF ScopeContext(C)
                  THEN {of("bearer.scope", IF stage = "store" THEN "issue" ELSE "validate")} ELSE {})
            \cup BoundarySignals(X, n, hint)

\* detect_config: line by line, literals included.
FixtureMetadata(f) ==
    /\ f.path[Len(f.path)] \in {"expected.json", "expected.yaml", "expected.toml"}
    /\ \A w \in {"expected_artifacts", "expected_findings"} : \E n \in Nodes(f, "Line") : w \in f.nodes[n].text
ConfigSignals(f, n) ==
    LET W == f.nodes[n].text
        hint == f.language \o "-config"
        detector == IF PublicConfig(W) THEN "bearer.store.public_config"
                    ELSE IF SecretLiteral(W, W) THEN "bearer.literal.static" ELSE "bearer.store.config"
    IN IF ~TokenContext(W) \/ ~Says(W, {"env", "header", "authorization", "api_key", "token"}) THEN {}
       ELSE {Signal(detector, IF Says(W, {"expires", "ttl"}) THEN "expire" ELSE "store",
                    TypeOf(W), NameOf(W), hint, n, FALSE, {})}
            \cup BoundarySignals(W, n, hint)

BearerSignals(f) ==
    IF IsConfig(f)
    THEN IF FixtureMetadata(f) THEN {} ELSE UNION {ConfigSignals(f, n) : n \in Nodes(f, "Line")}
    ELSE (UNION {IF f.language = "py" THEN PythonCallSignals(f, n, Said(f, n)) ELSE JsCallSignals(f, n, Said(f, n)) :
                    n \in Calls(f)})
         \cup (UNION {AssignmentSignals(f, n) : n \in Nodes(f, "Assign")})

-----------------------------------------------------------------------------
(* Artifacts.                                                               *)

\* boundary_attributes_for_signal, merge_token_boundary_attributes: of several
\* values the first one.
BoundaryOf(f, group) ==
    LET of(k) == {s \in group : s.detector = BoundaryDetector(k)}
        valued(k) == {s \in of(k) : s.value # {}}
    IN [k \in DOMAIN BoundaryTerms \cup {"scope"} |->
          IF of(k) = {} THEN [Unobserved EXCEPT !.value = {}]
          ELSE Observation("present",
                 IF valued(k) = {} THEN {}
                 ELSE (CHOOSE s \in valued(k) : s.line = Least({t.line : t \in valued(k)})).value,
                 "high", {SignalEvidence(f, "bearer", s).id : s \in of(k)})]
BearerArtifact(f, group) ==
    LET bounded == \E s \in group, k \in DOMAIN BoundaryTerms \cup {"scope"} : s.detector = BoundaryDetector(k)
    IN [SignalArtifact(f, "bearer", group) EXCEPT !.boundary = IF bounded THEN BoundaryOf(f, group) ELSE @]
BearerArtifacts(f) == Each(LAMBDA group : BearerArtifact(f, group), SignalGroups(f, BearerSignals(f)))
=============================================================================
