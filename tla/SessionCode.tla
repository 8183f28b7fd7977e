------------------------------ MODULE SessionCode ------------------------------
(***************************************************************************)
(* The session detector (sessionscope-detectors, sessions): logins,         *)
(* logouts, changes of privilege and of password, and what becomes of the   *)
(* session and its tokens at them.  Its nodes are functions, calls, routes  *)
(* and assignments; every call is a statement of its own.  The code of a     *)
(* node says what its literals do not; the text of a node says it all.       *)
(***************************************************************************)
EXTENDS Words

-----------------------------------------------------------------------------
(* Contexts.                                                                *)
LogoutContext(W) == Says(W, {"logout", "signout"})
LoginWords == {"login", "signin", "authcallback", "password_verify"}
\* is_auth_handler_context, is_auth_transition_context
AuthHandler(W) == ~LogoutContext(W) /\ Says(W, LoginWords)
AuthTransition(W) == ~LogoutContext(W) /\ Says(W, LoginWords \cup {"authenticate", "authentication"})
Privilege(W) == /\ ~LogoutContext(W)
                /\ Says(W, {"promote", "elevate", "privilege", "permission", "impersonate", "sudo",
                            "make_admin", "role_admin", "grant_role"})
PrivilegeCall(C) ==
    Privilege(C) /\ Says(C, {"set", "reset", "update", "grant", "assign", "promote", "impersonate"})
PasswordChange(W) == /\ Says(W, {"password_change", "password_update"})
                     /\ ~Says(W, {"validate", "validator", "verify", "check", "strength"})

RouteCall(T) == Says(T, {"app.get", "app.post", "app.put", "app.patch",
                         "router.get", "router.post", "router.put", "router.patch"})

\* `function` expressions are no handlers.
Handlers(f, n) == {m \in Around(f, n) : f.nodes[m].form # "expression"}

\* ancestor_context_text: the nearest function, or the call it is an argument of;
\* the node itself outside of them.  A route's function is nearer than the route.
AncestorText(f, n) ==
    IF Handlers(f, n) = {} THEN TextOf(f, n)
    ELSE LET a == LastOf(Handlers(f, n))
         IN IF f.nodes[a].kind = "Route" THEN BodyText(f, a) ELSE TextOf(f, a)

\* is_auth_or_privilege_ancestor, of a statement: any node around it, from the
\* body it is in to the whole file.
Transition(T) == AuthTransition(T) \/ Privilege(T)
InTransition(f, n) ==
    \/ Transition(FileText(f))
    \/ \E a \in Around(f, n) :
          Transition(BodyText(f, a)) \/ Transition(TextOf(f, a)) \/ Transition(DeclarationText(f, a))

\* handler_scope_hint: the innermost call of a route or a transition, itself
\* included, before the innermost function; 0 is None.
HandlerScope(f, n) ==
    LET call(m) == /\ f.language = "js" /\ f.nodes[m].kind \in {"Call", "Route"}
                   /\ LET T == TextOf(f, m) IN RouteCall(T) \/ Transition(T)
        calls == {m \in Around(f, n) \cup {n} : call(m)}
        functions == Handlers(f, n) \cup ({n} \cap Nodes(f, "Function"))
    IN IF calls # {} THEN LastOf(calls) ELSE IF functions # {} THEN LastOf(functions) ELSE 0

-----------------------------------------------------------------------------
(* Operations.                                                              *)
ProviderConfigCall(C) == Says(C, Provider) /\ Says(C, {"auth", "session"})
Middleware(s, C) == \/ "cookie_session" \in C
                    \/ s.callee = "session" /\ "secret" \in C
JsRegenerate(C) == Says(C, {"session_regenerate", "rotate_session"})
PythonRegenerate(C) == Says(C, {"cycle_key", "rotate_session"})
SessionMutation(T) == /\ Says(T, {"user", "account", "role", "admin", "auth", "impersonate"})
                      /\ "session" \in T
JsMutation(T) == SessionMutation(T) /\ Says(T, {"req_session", "session_user", "session_role"})
CookieStore(s) ==
    s.callee \in {"cookie", "set", "setCookie", "set_cookie"} /\ "session" \in s.code
JsReissue(T) == /\ AuthTransition(T) /\ "session" \in T
                /\ Says(T, {"clear_cookie", "cookies_delete", "session_null"})
                /\ Says(T, {"dot_cookie", "cookies_set", "set_cookie"})
PythonReissue(T) == /\ AuthTransition(T) /\ "session" \in T
                    /\ Says(T, {"delete_cookie", "session_flush"}) /\ "set_cookie" \in T
JsClearCookie(s) == \/ s.callee = "clearCookie"
                    \/ s.callee = "delete" /\ Says(s.text, {"cookies()", "req_cookies_delete"})
JsDestroy(C) == "session" \in C /\ Says(C, {"destroy", "invalidate", "revoke"})
PythonDestroy(C) == Says(C, {"session_flush", "session_destroy", "revoke_session"})
GlobalRevoke(C) ==
    \/ Says(C, {"revoke_all_sessions", "token_version"})
    \/ /\ "refresh" \in C /\ Says(C, {"user", "family", "all_sessions"})
       /\ Says(C, {"revoke", "delete", "invalidate", "destroy"})
ProviderRevoke(C) == Says(C, Provider) /\ Says(C, {"revoke", "logout", "signout"})
TokenRevoke(C) == /\ Says(C, {"revoke", "invalidate", "denylist", "destroy"})
                  /\ Says(C, {"token", "jwt", "refresh", "bearer", "session"})
SecurityDependency(s) ==
    \/ "oauth2passwordbearer" \in s.code
    \/ /\ s.callee = "Depends"
       /\ Says(s.code, {"oauth", "security", "api_key", "bearer", "token", "jwt", "auth", "session",
                        "cookie", "current_user"})

TokenName(C) == FirstRule(C, << <<{"refresh"}, "refresh_token">>, <<{"access"}, "access_token">>,
                                <<{"reset"}, "reset_token">>, <<{"session"}, "session">> >>, "token")
TokenType(name) == CASE name = "session" -> "SessionRecord"
                     [] name = "refresh_token" -> "RefreshJwt"
                     [] name = "access_token" -> "AccessJwt"
                     [] name = "reset_token" -> "PasswordResetToken"
                     [] OTHER -> "Unknown"
ClearedName(s) == IF s.key = "" THEN "cookie" ELSE s.key
ClearedType(name) == IF name \in {"session", "session_id", "sid"} THEN "SessionCookie"
                     ELSE IF name = "signed" THEN "SignedCookie" ELSE "Unknown"

-----------------------------------------------------------------------------
(* Signals: a sequence for every node, in the order of the code.            *)
SignalOf(detector, stage, type, name, n, state) ==
    << [detector |-> detector, stage |-> stage, type |-> type, name |-> name, line |-> n,
        state |-> state, scope |-> 0, column |-> 2] >>
When(is, signals) == IF is THEN signals ELSE <<>>
UpTo(steps) ==  \* the signals of the steps <<signals, return>>, the first return included
    LET last == SelectInSeq(steps, LAMBDA s : s[2] /\ s[1] # <<>>)
    IN FlattenSeq([k \in 1..(IF last = 0 THEN Len(steps) ELSE last) |-> steps[k][1]])

\* session_fixation_signal
Fixation(detector, stage, n, scope, state) ==
    LET s == SignalOf(detector, stage, "SessionRecord", "session", n, state)[1]
    IN << [s EXCEPT !.scope = scope] >>
Revokes(detector, type, name, n, state) == SignalOf(detector, "revoke", type, name, n, state)
RevokesToken(detector, C, n) ==
    Revokes(detector, TokenType(TokenName(C)), TokenName(C), n, "dynamic")

\* What a handler's name makes of it, for the first of the four that it says.
HandlerSignals(n, scope, logout, W, state) ==
    IF logout THEN Revokes("logout.handler", "Unknown", "logout", n, state)
    ELSE IF PasswordChange(W) THEN Revokes("password_change.handler", "Unknown", "password_change", n, state)
    ELSE IF AuthHandler(W) THEN Fixation("session.auth_transition", "issue", n, scope, state)
    ELSE IF Privilege(W) THEN Fixation("session.privilege_transition", "issue", n, scope, state)
    ELSE <<>>

\* The name of a JavaScript function; arrows and expressions have none.
JsFunctionSignals(f, n) ==
    LET W == f.nodes[n].says
    IN When(f.nodes[n].form \in {"declaration", "method"},
            HandlerSignals(n, HandlerScope(f, n), Says(W, {"DELETE", "logout"}), W, "dynamic"))

\* export_statement: judged by all its code, not by its name; it is in no function.
ExportSignals(f, n) ==
    LET C == f.nodes[n].says \cup CodeOf(f, n)
        all == When("DELETE" \in f.nodes[n].says, HandlerSignals(n, 0, TRUE, C, "dynamic"))
               \o HandlerSignals(n, 0, FALSE, C, "dynamic")
    IN When(f.nodes[n].exported, Each(LAMBDA s : [s EXCEPT !.column = 1], all))

PythonFunctionSignals(f, n) ==
    LET W == f.nodes[n].says \cup f.nodes[n].decorators
    IN HandlerSignals(n, HandlerScope(f, n), "logout" \in W, W, "present")

\* What a call does; s is the call with all that is in it, A the text around it.
FixationStep(is, detector, stage, n, scope, state) ==
    <<When(is, Fixation(detector, stage, n, scope, state)), FALSE>>
RevokeStep(is, signals, return) == <<When(is, signals), return>>
SessionRevoke(detector, n) == Revokes(detector, "SessionRecord", "session", n, "present")
ConfigStep(is, detector, n) ==
    <<When(is, SignalOf(detector, "store", "SessionRecord", "session", n, "dynamic")), FALSE>>
ClearSignal(s, n) ==
    Revokes("logout.cookie_clear", ClearedType(ClearedName(s)), ClearedName(s), n,
            IF s.key = "" THEN "dynamic" ELSE "present")

\* collect_js_call_signal
JsCallSignals(n, s, A, scope, inTransition) ==
    LET C == s.code  T == s.text
        privilegeRoute == RouteCall(T) /\ Privilege(T)
    IN UpTo(<<
         ConfigStep(ProviderConfigCall(C), "session.provider_config", n),
         ConfigStep(Middleware(s, C), "session.middleware", n),
         FixationStep(\/ RouteCall(T) /\ AuthTransition(T)
                      \/ CookieStore(s) /\ "cookies()" \in T /\ AuthTransition(A),
                      "session.auth_transition", "issue", n, scope, "present"),
         FixationStep(privilegeRoute \/ PrivilegeCall(C), "session.privilege_transition", "issue", n,
                      scope, IF privilegeRoute THEN "present" ELSE "dynamic"),
         FixationStep(JsRegenerate(C), "session.regenerate", "refresh", n, scope, "present"),
         FixationStep(JsReissue(A), "session.reissue", "refresh", n, scope, "dynamic"),
         FixationStep(\/ CookieStore(s) /\ (inTransition \/ Transition(T))
                      \/ JsMutation(T) /\ inTransition,
                      "session.store_after_auth", "store", n, scope, "present"),
         RevokeStep(Says(T, {"app.post", "router.post"}) /\ "logout" \in T,
                    Revokes("logout.handler", "Unknown", "logout", n, "present"), FALSE),
         RevokeStep(JsClearCookie(s), ClearSignal(s, n), TRUE),
         RevokeStep(JsDestroy(C), SessionRevoke("logout.session_destroy", n), TRUE),
         RevokeStep(GlobalRevoke(C), SessionRevoke("password_change.global_revoke", n), FALSE),
         RevokeStep(ProviderRevoke(C), RevokesToken("logout.provider_revoke", C, n), TRUE),
         RevokeStep(TokenRevoke(C), RevokesToken("logout.token_revoke", C, n), FALSE) >>)

\* collect_python_call_signal; a login is Django's, and rotates the session.
PythonCallSignals(n, s, A, scope, inTransition) ==
    LET C == s.code  login == s.callee = "login"
    IN UpTo(<<
         <<When(SecurityDependency(s),
                SignalOf("fastapi.security_dependency", "validate", "Unknown", "security_dependency", n,
                         "dynamic")), FALSE>>,
         FixationStep(\/ s.callee = "set_cookie" /\ "session" \in C /\ (inTransition \/ Transition(s.text))
                      \/ SessionMutation(s.text) /\ inTransition,
                      "session.store_after_auth", "store", n, scope, "present"),
         FixationStep(login, "session.auth_transition", "issue", n, scope, "present"),
         RevokeStep(login, Fixation("session.framework_default_regenerate", "refresh", n, scope,
                                    "framework_default"), TRUE),
         FixationStep(PythonRegenerate(C), "session.regenerate", "refresh", n, scope, "present"),
         FixationStep(PythonReissue(A), "session.reissue", "refresh", n, scope, "dynamic"),
         RevokeStep(s.callee = "delete_cookie", ClearSignal(s, n), TRUE),
         RevokeStep(s.callee = "logout" \/ PythonDestroy(C), SessionRevoke("logout.session_destroy", n), TRUE),
         RevokeStep(GlobalRevoke(C), SessionRevoke("password_change.global_revoke", n), FALSE),
         RevokeStep(ProviderRevoke(C), RevokesToken("logout.provider_revoke", C, n), TRUE),
         RevokeStep(TokenRevoke(C), RevokesToken("logout.token_revoke", C, n), FALSE) >>)

\* collect_js_assignment_signal, collect_python_assignment_signal
AssignmentSignals(f, n, scope) ==
    LET T == f.nodes[n].text
        mutation == IF f.language = "js" THEN JsMutation(T) ELSE SessionMutation(T)
    IN When(mutation /\ (InTransition(f, n) \/ Transition(T)),
            Fixation("session.store_after_auth", "store", n, scope, "present"))

SessionSignals(f, n) ==
    LET kind == f.nodes[n].kind  js == f.language = "js" IN
    CASE kind = "Function" /\ js -> ExportSignals(f, n) \o JsFunctionSignals(f, n)
      [] kind = "Function" /\ ~js -> PythonFunctionSignals(f, n)
      [] kind \in {"Call", "Route"} /\ js ->
           JsCallSignals(n, Said(f, n), AncestorText(f, n), HandlerScope(f, n), InTransition(f, n))
      [] kind = "Call" /\ ~js ->
           PythonCallSignals(n, Said(f, n), AncestorText(f, n), HandlerScope(f, n), InTransition(f, n))
      [] kind = "Assign" -> AssignmentSignals(f, n, HandlerScope(f, n))
      [] OTHER -> <<>>

\* signals_to_output: every signal is an artifact of its own.
SessionArtifact(f, s) ==
    LET evidence == EvidenceAt(f, s.detector, <<s.stage, s.column>>, s.line, s.name, s.stage, s.state, {})
    IN [Artifact(f, s.detector, <<s.type, s.column>>, s.line, s.line, s.type, s.name, {}, {evidence})
          EXCEPT !.scope = s.scope]
SessionArtifacts(f) ==
    Each(LAMBDA s : SessionArtifact(f, s), FlattenSeq([n \in DOMAIN f.nodes |-> SessionSignals(f, n)]))
=============================================================================
