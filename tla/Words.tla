-------------------------------- MODULE Words ---------------------------------
(***************************************************************************)
(* What the detectors that look for words in the text of a node find there *)
(* (sessionscope-detectors: bearer, client_storage, query_params, sessions,*)
(* oauth_flow, reset_tokens).  A text is the set of the words it contains,  *)
(* spelled in one way: "api_key" is apiKey and API_KEY too, and a method    *)
(* ("set", "insert", "dot_create") has its dot.  Words that every rule lists *)
(* together are one word.  contains() is about substrings, so a text         *)
(* contains what its words contain.                                         *)
(***************************************************************************)
EXTENDS Source

\* Words that contain other words.
Parts ==
    [access_token |-> {"access", "token"}, refresh_token |-> {"refresh", "token"},
     session_token |-> {"session", "token"}, session_id |-> {"session"}, x_api_key |-> {"api_key"}, service_token |-> {"service", "token"},
     client_token |-> {"client", "token"}, client_id |-> {"client"},
     clientcredentials |-> {"client"}, authorization |-> {"auth"}, headers |-> {"header"},
     headers_get |-> {"headers", "header"}, headers_set |-> {"headers", "header", "set"},
     req_headers |-> {"headers", "header"}, nextauth |-> {"auth"}, oauth |-> {"auth"},
     auth0 |-> {"auth"}, issuer |-> {"iss"}, permission |-> {"iss"}, audience |-> {"aud"},
     next_public |-> {"public"}, publicruntimeconfig |-> {"public"}, clientconfig |-> {"client"},
     localstorage_setitem |-> {"localstorage", "set"},
     sessionstorage_setitem |-> {"sessionstorage", "session", "set"},
     sessionstorage |-> {"session"}, regenerate |-> {"generate"}, production |-> {"prod"},
     development |-> {"dev"}, dot_create |-> {"create"}, jwtverify |-> {"jwt", "verify"}, signjwt |-> {"jwt"},
     DELETE |-> {"delete"}, authcallback |-> {"auth", "callback"}, authenticate |-> {"auth"},
     authentication |-> {"auth"}, password_verify |-> {"password", "verify"},
     password_change |-> {"password"}, make_admin |-> {"admin"}, role_admin |-> {"role", "admin"},
     grant_role |-> {"grant", "role"}, req_session |-> {"session"}, session_user |-> {"session", "user"},
     session_role |-> {"session", "role"}, session_null |-> {"session"},
     session_regenerate |-> {"session", "regenerate", "generate"}, rotate_session |-> {"rotate", "session"},
     session_flush |-> {"session"}, session_destroy |-> {"session", "destroy"},
     revoke_session |-> {"revoke", "session"}, all_sessions |-> {"session"},
     revoke_all_sessions |-> {"revoke", "session", "all_sessions"},
     token_version |-> {"token"}, cookie_session |-> {"cookie", "session"},
     set_cookie |-> {"set", "cookie"}, clear_cookie |-> {"cookie"}, delete_cookie |-> {"delete", "cookie"},
     cookies_delete |-> {"delete", "cookie"}, req_cookies_delete |-> {"cookies_delete", "delete", "cookie"},
     cookies_set |-> {"set", "cookie"}, random_bytes |-> {"random"},
     oauth2passwordbearer |-> {"oauth", "auth", "bearer"}, issue_refresh |-> {"refresh"},
     store_refresh |-> {"refresh"}, mark_used |-> {"used"}, used_at |-> {"used"},
     oauth2strategy |-> {"oauth", "auth"}, oauthprovider |-> {"oauth", "auth", "provider"},
     oidcprovider |-> {"oidc", "provider"}, oauth_register |-> {"oauth", "auth"},
     authorization_url |-> {"authorization", "auth"}, authorize_redirect |-> {"auth"},
     response_type_code |-> {"response_type", "code"}, code_challenge |-> {"code"}, code_verifier |-> {"code"},
     state_literal |-> {"state"}, state_compared |-> {"state"}, nonce_verified |-> {"nonce"},
     revoked_at |-> {"revoked", "revoke"}, revoked |-> {"revoke"}, family_id |-> {"family"},
     token_family |-> {"token", "family"}, reset_token |-> {"reset", "token"}]
Whole(W) == W \cup UNION {Parts[w] : w \in W \cap DOMAIN Parts}

Says(W, words) == W \cap words # {}

\* The first of the words in a list that a text contains, none for {}.
FirstSaid(W, words) == LET k == SelectInSeq(words, LAMBDA w : w \in W)
                       IN IF k = 0 THEN {} ELSE {words[k]}

\* What the first rule <<words, result>> gives some word of which a text contains.
FirstRule(W, rules, otherwise) ==
    LET k == SelectInSeq(rules, LAMBDA r : Says(W, r[1]))
    IN IF k = 0 THEN otherwise ELSE rules[k][2]

\* A statement: the words of its code and, with those in its literals, of all
\* its text; what it calls, by the last part of its name; the key a browser storage
\* or a cookie is written under ("" without one); and the query parameters read in
\* it, each once for every node of the statement in which it is seen, with the
\* words around that node.  A Route is a call that is given an arrow function.
Statement(kind, code, literals) ==
    [kind |-> kind, code |-> Whole(code), text |-> Whole(code \cup literals), callee |-> "",
     key |-> "", reads |-> {}, form |-> "arrow", parameters |-> <<>>, within |-> 0]
Calls(f) == Nodes(f, "Call") \cup Nodes(f, "Route")

\* node_text: what is in a node is part of its text.  The name of an arrow function
\* and the decorators of a function are in the text of what declares it.
OwnCode(n) == CASE n.kind = "Function" -> IF n.form = "arrow" THEN {} ELSE n.says
                [] n.kind \in {"Call", "Route", "Assign", "Line"} -> n.code
                [] OTHER -> {}
OwnText(n) == IF n.kind \in {"Call", "Route", "Assign", "Line"} THEN n.text ELSE OwnCode(n)
Around(f, n) == {m \in DOMAIN f.nodes : m # n /\ Inside(f, n, m)}
Contents(f, n) == {m \in DOMAIN f.nodes : m # n /\ Inside(f, m, n)}
BodyText(f, n) == UNION {OwnText(f.nodes[m]) : m \in Contents(f, n)}
TextOf(f, n) == OwnText(f.nodes[n]) \cup BodyText(f, n)
CodeOf(f, n) == UNION {OwnCode(f.nodes[m]) : m \in Contents(f, n) \cup {n}}
DeclarationText(f, n) ==
    TextOf(f, n) \cup (IF f.nodes[n].kind = "Function" THEN f.nodes[n].says \cup f.nodes[n].decorators ELSE {})
FileText(f) == UNION {DeclarationText(f, n) : n \in {m \in DOMAIN f.nodes : f.nodes[m].within = 0}}

\* A statement with all that is in it.
Said(f, n) == [f.nodes[n] EXCEPT !.code = CodeOf(f, n), !.text = TextOf(f, n)]
QueryRead(dynamic, parameter, around) ==
    [dynamic |-> dynamic, parameter |-> parameter, around |-> around]

Provider == {"provider", "nextauth", "authjs", "passport", "openid", "oidc", "oauth", "auth0",
             "okta", "cognito", "azuread", "firebase", "supabase", "clerk"}

\* artifact_type_part, of the types the detectors name a token by
TypePart(type) == CASE type = "OpaqueBearerToken" -> "opaque_bearer_token"
                    [] type = "ServiceToken" -> "service_token"
                    [] type = "ApiKey" -> "api_key"
                    [] type = "UnknownToken" -> "unknown_token"
                    [] OTHER -> type

IsConfig(f) == f.language \in {"json", "yaml", "toml"}

\* A signal of a detector, at a node of a file.
Signal(detector, stage, type, name, hint, line, dynamic, value) ==
    [detector |-> detector, stage |-> stage, type |-> type, name |-> name, hint |-> hint,
     line |-> line, dynamic |-> dynamic, value |-> value]

\* signals_to_output: signals that agree on type and name are one artifact.
SignalEvidence(f, detector, s) ==
    EvidenceAt(f, s.detector, <<detector, s.stage>>, s.line, s.name, s.stage,
               IF s.dynamic THEN "dynamic" ELSE "present", {})
\* merge_artifact: the groups of the signals by their first lines; those of one
\* line come in any order, always the same.
FirstLine(group) == Least({s.line : s \in group})
ByLine(f, groups) == FlattenSeq([n \in DOMAIN f.nodes |-> SetToSeq({G \in groups : FirstLine(G) = n})])
SignalGroups(f, signals) ==
    ByLine(f, {{t \in signals : t.type = s.type /\ t.name = s.name} : s \in signals})
SignalArtifact(f, detector, group) ==
    LET s == CHOOSE s \in group : TRUE
    IN Artifact(f, detector, <<s.type>>, NoLine, FirstLine(group), s.type, s.name,
                {t.hint : t \in group}, {SignalEvidence(f, detector, t) : t \in group})

\* depth_limit_evidence: nodes deeper than TREE_SITTER_MAX_DEPTH are not visited,
\* and are none of f.nodes; of an artifact it is not.
DepthEvidence(f, detector) ==
    IF f.deep
    THEN {EvidenceAt(f, "detector.depth_limit_skipped", <<detector>>, NoLine, NoName, "introspect",
                     "dynamic", {})}
    ELSE {}
=============================================================================
