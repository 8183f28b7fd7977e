------------------------------ MODULE RefreshCode ------------------------------
(***************************************************************************)
(* The refresh token detector (sessionscope-detectors, sessions): handlers  *)
(* and calls that speak of a refresh token, and what they do with it.  One  *)
(* call may be of several stages of the lifecycle.                          *)
(***************************************************************************)
EXTENDS SessionCode

\* Every operation but the provider's says "refresh" too.
RefreshRoute(T) == Says(T, {"app.post", "router.post", "app.patch", "router.patch"})
RefreshCookie(s) == s.callee \in {"cookie", "set", "set_cookie"}
RefreshStore(C) == Says(C, {"dot_create", "insert", "save", "set", "update", "store_refresh", "persist",
                            "set_cookie", "cookies_set"})
RefreshIssue(C) == Says(C, {"issue_refresh", "signjwt", "jwt.encode", "random_bytes"})
RefreshValidate(C) ==
    Says(C, {"find", "findunique", "findfirst", "findone", "lookup", "compare", "verify", "jwt.decode",
             "cookies_get", "request.body", "revoked", "used", "expires"})
RefreshRotate(C) == Says(C, {"rotate", "mark_used", "used_at", "revoked_at", "replace"})
RefreshRevoke(C) == Says(C, {"revoke", "invalidate", "delete", "destroy", "denylist", "password_change"})
ReuseDetection(C) == Says(C, {"reuse", "token_family", "family_id"})
OldTokenInvalidated(C) ==
    Says(C, {"revoke", "invalidate", "delete", "denylist", "mark_used", "used_at"})
FamilyInvalidated(C) == OldTokenInvalidated(C) /\ Says(C, {"family", "session", "user"})
RefreshExpiry(C) == Says(C, {"expires", "maxage", "ttl"})
RefreshProvider(C) ==
    Says(C, Provider) /\ Says(C, {"refresh", "rotate", "revoke", "signout", "session", "callback"})

RefreshType(C) == IF "jwt" \in C THEN "RefreshJwt" ELSE "Unknown"

\* refresh_signal
Refreshes(detector, stage, C, n, state) ==
    SignalOf(detector, stage, RefreshType(C), "refresh_token", n, state)

RefreshFunctionSignals(f, n) ==
    LET says == f.nodes[n].says
        python == f.language = "py"
        handler(C, state) == Refreshes("refresh.handler", "refresh", C, n, state)
        exported == /\ f.nodes[n].exported /\ Says(says, {"PATCH", "POST"})
                    /\ "refresh" \in says \cup TextOf(f, n)
        named == /\ f.nodes[n].form \in {"declaration", "method", "definition"}
                 /\ "refresh" \in says \cup (IF python THEN f.nodes[n].decorators ELSE {})
    IN When(exported, Each(LAMBDA s : [s EXCEPT !.column = 1], handler(says \cup CodeOf(f, n), "dynamic")))
       \o When(named, handler(CodeOf(f, n), IF python THEN "present" ELSE "dynamic"))

\* collect_refresh_js_call_signal, collect_refresh_python_call_signal
RefreshCallSignals(js, n, s) ==
    LET C == s.code
        speaks == "refresh" \in C
        when(is, detector, stage) == When(is, Refreshes(detector, stage, C, n, "present"))
        stores == speaks /\ (RefreshStore(C) \/ (js /\ RefreshCookie(s)))
        rotates == speaks /\ RefreshRotate(C)
        reuse == speaks /\ ReuseDetection(C)
    IN when(js /\ RefreshRoute(s.text) /\ "refresh" \in s.text, "refresh.handler", "refresh")
       \o when(stores, "refresh.store", "store")
       \o when(stores /\ RefreshExpiry(C), "refresh.expire", "expire")
       \o when(speaks /\ RefreshIssue(C), "refresh.issue", "issue")
       \o when(speaks /\ RefreshValidate(C), "refresh.validate", "validate")
       \o when(rotates, "refresh.rotate", "refresh")
       \o when(rotates /\ OldTokenInvalidated(C), "refresh.rotate", "revoke")
       \o when(speaks /\ ~rotates /\ RefreshRevoke(C), "refresh.revoke", "revoke")
       \o when(reuse, "refresh.reuse_detection", "validate")
       \o when(reuse /\ FamilyInvalidated(C), "refresh.reuse_detection", "revoke")
       \o When(RefreshProvider(C),
               Refreshes("refresh.provider",
                         IF Says(C, {"revoke", "delete", "logout", "signout"}) THEN "revoke" ELSE "refresh",
                         C, n, "dynamic"))

RefreshSignals(f, n) ==
    CASE f.nodes[n].kind = "Function" -> RefreshFunctionSignals(f, n)
      [] n \in Calls(f) -> RefreshCallSignals(f.language = "js", n, Said(f, n))
      [] OTHER -> <<>>
RefreshArtifacts(f) ==
    Each(LAMBDA s : SessionArtifact(f, s), FlattenSeq([n \in DOMAIN f.nodes |-> RefreshSignals(f, n)]))
=============================================================================
