------------------------------ MODULE OAuthRules ------------------------------
(***************************************************************************)
(* The rules about authorization code flows (sessionscope-classifier,       *)
(* oauth_flow.rs).                                                          *)
(***************************************************************************)
EXTENDS Report

\* classify_pkce, classify_state, classify_nonce, classify_redirect_uri
FlowRules(a) ==
    LET has(d) == HasDetector(a.evidence, d)
        ids(detectors) == Ids(Of(a.evidence, detectors))
    IN {<<~has("oauth.pkce.present"), "oauth_pkce_missing_review", Review, "medium",
          ids({"oauth.flow.auth_code", "oauth.flow.framework_default"})>>,
        <<~has("oauth.state.present") /\ ~has("oauth.state.static"), "oauth_state_missing", MissingCheck,
          "medium", ids({"oauth.flow.auth_code"})>>,
        <<has("oauth.state.static"), "oauth_state_static_review", Review, "medium", ids({"oauth.state.static"})>>,
        <<has("oauth.state.callback_read") /\ ~has("oauth.state.verified"), "oauth_state_unverified_review",
          MissingCheck, "high", ids({"oauth.state.callback_read", "oauth.state.present"})>>,
        <<has("oauth.oidc.openid_scope") /\ ~has("oauth.nonce.present"), "oidc_nonce_missing", MissingCheck,
          "medium", ids({"oauth.oidc.openid_scope", "oauth.flow.auth_code"})>>,
        <<has("oauth.oidc.openid_scope") /\ has("oauth.nonce.present") /\ ~has("oauth.nonce.verified"),
          "oidc_nonce_unverified_review", MissingCheck, "medium", ids({"oauth.nonce.present"})>>,
        <<has("oauth.redirect_uri.broad"), "oauth_redirect_uri_wildcard_review", Review, "medium",
          ids({"oauth.redirect_uri.broad"})>>}

\* A flow has its own line among its evidence.
OAuthFindings(r) ==
    UNION {Fire(a, FlowRules(a)) : a \in {b \in Artifacts(r) : b.type = "OAuthAuthCodeFlow"
                                                          /\ HasDetector(b.evidence, "oauth.flow.auth_code")}}
=============================================================================
