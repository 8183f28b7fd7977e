------------------------------ MODULE MCLifecycle ------------------------------
(***************************************************************************)
(* LifecycleLink and LifecycleRules on lists of what the detectors emit.    *)
(* The report concatenates the results of its files in the order of their  *)
(* paths, so file 1 comes before file 2; within a file the order is that   *)
(* of the detectors and of the calls they look at, hence any.  A site is a   *)
(* call; ids are hashes: they order the sites upwards or downwards.  With   *)
(* MaxDistance 1 lines 1 and 3 are apart and line 2 bridges them.           *)
(***************************************************************************)
EXTENDS CapabilityFilter

\* How many artifacts a list has, and how many when it is one of all the classes.
CONSTANTS MaxArtifacts, MaxClasses

E(detector, stage, file, line, says) ==
    [stage |-> stage, file |-> file, line |-> line, detector |-> detector, dynamic |-> FALSE,
     says |-> says, options |-> <<>>]
T(site, file, type, name, evidence) ==
    [site |-> site, file |-> file, type |-> type, name |-> name, evidence |-> evidence]

SetPath == E("cookie.sid", "store", 1, 1, {})
Templates == <<
    T(1, 1, "RefreshJwt", "refresh_token", {E("refresh.rotate", "refresh", 1, 2, {"refresh"})}),
    T(1, 1, "RefreshJwt", "refresh_token", {E("refresh.rotate", "revoke", 1, 2, {"refresh"})}),
    T(2, 1, "RefreshJwt", "refresh_token", {E("refresh.handler", "refresh", 1, 1, {"refresh"})}),
    T(3, 2, "RefreshJwt", "refresh_token", {E("refresh.handler", "refresh", 2, 1, {"refresh"})}),
    T(4, 1, "RefreshJwt", "refresh_token", {E("refresh.revoke", "revoke", 1, 3, {"refresh", "family", "revoke"})}),
    T(5, 2, "RefreshJwt", "refresh_token", {E("logout.token_revoke", "revoke", 2, 2, {"refresh", "token", "revoke"})}),
    T(6, 1, "Unknown", "refresh_token", {[E("refresh.provider", "refresh", 1, 3, {}) EXCEPT !.dynamic = TRUE]}),
    T(7, 1, "Unknown", "refresh_token", {E("logout.cookie_clear", "revoke", 1, 2, {})}),
    T(8, 1, "AccessJwt", "access_token", {E("jwt.sign", "issue", 1, 1, {"jwt"})}),
    T(9, 1, "OpaqueBearerToken", "access_token", {E("query_param.read", "transmit", 1, 2, {})}),
    T(10, 1, "Unknown", "logout", {E("logout.handler", "revoke", 1, 2, {})}),
    T(11, 2, "Unknown", "logout", {E("logout.handler", "revoke", 2, 2, {})}),
    T(12, 2, "AccessJwt", "access_token", {E("logout.token_revoke", "revoke", 2, 1, {"access", "token", "revoke"})}),
    T(13, 1, "Unknown", "password_change", {E("password_change.handler", "revoke", 1, 1, {})}),
    T(14, 2, "Unknown", "password_change", {E("password_change.handler", "revoke", 2, 1, {})}),
    T(15, 2, "SessionRecord", "session", {E("password_change.global_revoke", "revoke", 2, 2, {})}),
    T(16, 1, "SessionCookie", "sid", {SetPath}),
    T(17, 1, "SessionCookie", "sid", {[E("logout.cookie_clear", "revoke", 1, 2, {}) EXCEPT !.options = [path |-> "/app"]]}),
    T(18, 1, "SessionRecord", "session", {E("session.middleware", "store", 1, 1, {"sliding", "lifetime"})}),
    T(19, 1, "SessionRecord", "session", {E("session.regenerate", "refresh", 1, 3, {})}),
    T(20, 1, "SessionRecord", "session", {E("logout.session_destroy", "revoke", 1, 3, {})}),
    T(21, 1, "PasswordResetToken", "reset_token", {E("reset.issue", "issue", 1, 1, {}), E("reset.expire", "expire", 1, 1, {})}),
    T(22, 1, "PasswordResetToken", "reset_token", {E("logout.token_revoke", "revoke", 1, 2, {"token", "revoke"})}),
    T(23, 1, "RefreshJwt", "refresh_token", {E("jwt.sign", "issue", 1, 1, {"jwt"})}),
    \* One per class that the predicates of the linking distinguish.  Sites 31 and
    \* 32 emit two artifacts with one id, the revocation second, as site 1 does.
    T(31, 1, "RefreshJwt", "refresh_token", {E("refresh.rotate", "refresh", 1, 2, {"refresh"})}),
    T(31, 1, "RefreshJwt", "refresh_token", {E("refresh.rotate", "revoke", 1, 2, {"refresh"})}),
    T(32, 1, "RefreshJwt", "refresh_token", {E("refresh.reuse_detection", "validate", 1, 3, {"refresh"})}),
    T(32, 1, "RefreshJwt", "refresh_token", {E("refresh.reuse_detection", "revoke", 1, 3, {"refresh"})}),
    T(33, 1, "RefreshJwt", "refresh_jwt", {E("jwt.sign", "issue", 1, 1, {"jwt"})}),
    T(34, 1, "SessionCookie", "refresh_token", {E("cookie.sid", "store", 1, 1, {})}),
    T(35, 2, "RefreshJwt", "refresh_token", {E("refresh.revoke", "revoke", 2, 2, {"refresh", "revoke"})}),
    T(36, 1, "SessionCookie", "sid", {E("cookie.sid", "store", 1, 1, {})}),
    T(37, 1, "SessionCookie", "sid", {E("logout.cookie_clear", "revoke", 1, 2, {})}),
    T(38, 1, "SessionRecord", "session", {E("logout.session_destroy", "revoke", 1, 3, {})}),
    T(39, 1, "AccessJwt", "access_token", {E("jwt.sign", "issue", 1, 1, {"jwt"}), E("jwt.verify", "validate", 1, 3, {"jwt"})}),
    T(40, 2, "AccessJwt", "access_token", {E("logout.token_revoke", "revoke", 2, 2, {"access", "token", "revoke"})}),
    T(41, 1, "OpaqueBearerToken", "access_token", {E("query_param.read", "transmit", 1, 2, {})}),
    T(42, 1, "AccessJwt", "access_token", {E("jwt.decode", "introspect", 1, NoLine, {"jwt"})}),
    T(43, 2, "OpaqueBearerToken", "access_token", {}),
    T(44, 1, "Unknown", "refresh_token", {E("refresh.issue", "issue", 1, 2, {"refresh"})}),
    T(45, 1, "AccessJwt", "access_token", {E("logout.token_revoke", "revoke", 1, 1, {"access", "token", "revoke"})}),
    T(46, 2, "AccessJwt", "access_token", {E("jwt.sign", "issue", 2, 2, {"jwt"})}),
    \* Names that others share: a token in the browser, a cookie that is cleared.
    T(50, 1, "AccessJwt", "refresh_jwt", {E("client_storage.set", "store", 1, 1, {})}),
    T(51, 1, "Unknown", "refresh_jwt", {E("logout.cookie_clear", "revoke", 1, 3, {})}),
    T(52, 1, "RefreshJwt", "refresh_jwt", {E("query_param.read", "transmit", 1, 2, {})}),
    T(53, 1, "RefreshJwt", "app_refresh_token", {E("client_storage.set", "store", 1, 1, {})}),
    T(54, 1, "Unknown", "app_refresh_token", {E("logout.cookie_clear", "revoke", 1, 3, {})}),
    T(55, 1, "SessionCookie", "refresh_token", {E("cookie.sid", "store", 1, 3, {})}),
    T(56, 1, "RefreshJwt", "refresh_token", {E("client_storage.set", "store", 1, 3, {})}),
    T(57, 1, "RefreshJwt", "refresh_token", {E("refresh.revoke", "revoke", 1, 2, {"refresh", "revoke"})}) >>

MCAttributes == [id \in {16, 64} |-> [path |-> [value |-> "/", evidence |-> SetPath]]]
MCEvidence == UNION {Templates[t].evidence : t \in DOMAIN Templates}

\* What the rules look at together: refresh tokens, access tokens at a logout, a
\* change of password, sessions and cookies, reset tokens, a refresh token that is issued and a logout.
Groups == {1..8, 9..13, {5} \cup 14..16, 17..21, {8, 22, 23}, {1, 8, 11, 24},
           {3, 5, 8, 48, 49, 50}, {1, 8} \cup 43..48}
Classes == 25..42
Lists(n, templates) ==
    {s \in UNION {[1..n -> G] : G \in IF n <= MaxClasses THEN Groups \cup {Classes} ELSE Groups} :
        \A k, l \in 1..n : k < l =>
           /\ s[k] # s[l]
           /\ templates[s[k]].file <= templates[s[l]].file
           /\ templates[s[k]].site = templates[s[l]].site => l = k + 1 /\ s[k] < s[l]}
MCInputs ==
    LET templates == Templates
        artifact(t, up) == [id |-> IF up THEN t.site ELSE 80 - t.site,
                            type |-> t.type, name |-> t.name, evidence |-> t.evidence]
    \* `\o` has TLC evaluate the sequence once.
    IN UNION {{<<>> \o [k \in DOMAIN s |-> artifact(templates[s[k]], up)] :
                  s \in Lists(n, templates), up \in BOOLEAN} : n \in 0..MaxArtifacts}
=============================================================================
