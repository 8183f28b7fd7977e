------------------------------ MODULE ClientCode ------------------------------
(***************************************************************************)
(* Two detectors of what a client carries (sessionscope-detectors):         *)
(* client_storage, which reads a file line by line, and query_params, which *)
(* looks at the nodes that read a query.  A key or a parameter is named by  *)
(* the first of the words the detector looks for in it, or by itself when   *)
(* the detector ignores it.                                                 *)
(***************************************************************************)
EXTENDS Words

Lines(f) == Calls(f) \cup Nodes(f, "Assign")

\* is_token_shaped_name; two keys that are shaped like a token's are allowed.
TokenShaped(key) ==
    key \in {"access_token", "id_token", "refresh_token", "jwt", "bearer", "auth", "session",
             "session_token", "session_id"}
AllowlistedKey == {"theme", "dark", "authorship", "session_replay_consent", "session_storage_test"}
StorageType(key) ==
    CASE key \in {"access_token", "id_token", "jwt"} -> "AccessJwt"
      [] key = "refresh_token" -> "RefreshJwt"
      [] key = "client_secret" -> "ServiceToken"
      [] key \in {"session", "session_token", "session_id"} -> "OpaqueBearerToken"
      [] OTHER -> "UnknownToken"

\* is_browser_client_path, with or without a directory before it.
BrowserPath(f) ==
    \/ \E k \in 1..(Len(f.path) - 1) : f.path[k] \in {"pages", "app", "public"}
    \/ \E k \in 2..(Len(f.path) - 1) : f.path[k] = "components"

StorageSignals(f, n) ==
    LET s == f.nodes[n]
        key == IF s.key = "" THEN "document_cookie" ELSE s.key
        of(detector, stage, name, dynamic) ==
            {Signal(detector, stage, StorageType(name), name, "browser-client", n, dynamic, {})}
        when(is, signals) == IF is THEN signals ELSE {}
        stored(key1) == TokenShaped(key1) /\ key1 \notin AllowlistedKey
    IN when("localstorage_setitem" \in s.code /\ stored(s.key),
            of("client_storage.local_storage.set_item", "store", s.key, FALSE))
       \cup when("sessionstorage_setitem" \in s.code /\ stored(s.key),
                 of("client_storage.session_storage.set_item", "store", s.key, FALSE))
       \cup when("document.cookie" \in s.code /\ stored(key),
                 of("client_storage.document_cookie.write", "store", key, FALSE))
       \cup when("url fragment" \in s.text,
                 of("client_storage.url_path_or_fragment.token", "transmit", "url_token", FALSE))
       \cup when(BrowserPath(f) /\ "client_secret" \in s.text,
                 of("client_storage.browser.client_secret", "store", "client_secret", TRUE))

\* Every signal is an artifact of its own, under the id of its name in the file.
StorageArtifacts(f) ==
    LET signals == IF f.language = "js" THEN UNION {StorageSignals(f, n) : n \in Lines(f)} ELSE {}
    IN Each(LAMBDA group : SignalArtifact(f, "client.storage", group), ByLine(f, {{s} : s \in signals}))

-----------------------------------------------------------------------------
(* Query parameters.                                                        *)
IgnoredName == {"page_token", "next_token", "csrf_token", "idempotency_key", "state", "code", "page"}
TokenName == {"token", "access_token", "id_token", "refresh_token", "api_key", "service_token",
              "client_token", "reset_token", "verification_token", "bearer_token", "authorization",
              "other_token"}

\* A parameter called token is what the words around it say.
QueryType(parameter, around) ==
    CASE \/ parameter = "reset_token"
         \/ parameter = "token" /\ Says(around, {"reset", "password"}) -> "PasswordResetToken"
      [] \/ parameter = "verification_token"
         \/ /\ parameter = "token" /\ ~Says(around, {"reset", "password"})
            /\ Says(around, {"verify", "confirm", "email"}) -> "EmailVerificationToken"
      [] parameter = "refresh_token" -> "RefreshJwt"
      [] parameter \in {"access_token", "id_token"} -> "AccessJwt"
      [] parameter = "api_key" -> "ApiKey"
      [] parameter \in {"service_token", "client_token"} -> "ServiceToken"
      [] parameter \in {"bearer_token", "authorization"} -> "OpaqueBearerToken"
      [] OTHER -> "UnknownToken"
QueryName(parameter, type) == CASE type = "PasswordResetToken" -> "password_reset_token"
                                [] type = "EmailVerificationToken" -> "email_verification_token"
                                [] OTHER -> parameter

QueryHint(f, around) ==
    IF f.language = "py"
    THEN FirstRule(around, << <<{"query_params"}, "fastapi">>, <<{"request.get"}, "django">>,
                              <<{"query"}, "fastapi">> >>, "python")
    ELSE FirstRule(around, << <<{"nexturl", "searchparams"}, "nextjs">>,
                              <<{"req.query", "app.get"}, "express">> >>, "javascript")

\* push_static_signal, push_dynamic_signal: under a name that is computed a read
\* is about a token when the variable or the words around it say so.
QueryRelevant(q) ==
    /\ q.parameter \notin IgnoredName
    /\ q.parameter \in TokenName \/ (q.dynamic /\ "token" \in q.around)
QuerySignal(f, n, q) ==
    LET type == QueryType(q.parameter, q.around)
    IN Signal(IF q.dynamic THEN "query_param.read.dynamic" ELSE "query_param.read", "transmit", type,
              IF q.dynamic /\ type = "UnknownToken" THEN "dynamic_query_token"
              ELSE QueryName(q.parameter, type),
              QueryHint(f, q.around), n, q.dynamic, {})
QuerySignals(f) ==
    UNION {{QuerySignal(f, n, q) : q \in {p \in f.nodes[n].reads : QueryRelevant(p)}} : n \in Lines(f)}

\* Signals of one name on a line are one: ids have no column.
QueryArtifacts(f) ==
    Each(LAMBDA group : SignalArtifact(f, "query_param.token", group), SignalGroups(f, QuerySignals(f)))
=============================================================================
