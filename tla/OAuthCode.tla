------------------------------ MODULE OAuthCode -------------------------------
(***************************************************************************)
(* The authorization code flow detector (sessionscope-detectors,            *)
(* oauth_flow).  It reads a file line by line; a line that builds a request *)
(* is a flow, and what the lines around it say is evidence of it.  A word   *)
(* stands for what the pattern of that name matches on a line:              *)
(*   "response_type_code", "checks_pkce"   an assignment                     *)
(*   "state_literal"     a literal of four or more characters is assigned   *)
(*   "state_compared"    with one of session, cookie, cache, expected, csrf *)
(*   "nonce_verified"    compared with one, or given to a verification      *)
(*   "redirect_uri"      assigned a literal or a list                       *)
(*   "wildcard_literal", "host_literal"    a quoted string with a * or with *)
(*                       a host and no path, no loopback address without *  *)
(***************************************************************************)
EXTENDS Words

CONSTANT FlowDistance       \* how many lines from a flow its evidence is

Flow == {"oauth2strategy", "authorization_url", "oauthprovider", "oidcprovider", "oauth_register",
         "authorize_redirect", "response_type_code"}
Pkce == {"code_challenge", "code_verifier", "s256", "checks_pkce"}

\* is_state_issue_line, is_nonce_issue_line; of an assigned response type and of
\* a strategy a line need say no more than the words.
IssueLine(T) == \/ Says(T, {"authorization_url", "authorize_redirect", "oauthprovider", "oidcprovider"})
                \/ {"response_type", "code"} \subseteq T
IsFlow(T) == Says(T, Flow) /\ "import" \notin T
StateSignal(T) == IF "state_literal" \in T THEN "oauth.state.static"
                  ELSE IF Says(T, {"req.query", "request.query", "searchparams"}) THEN "oauth.state.callback_read"
                  ELSE "oauth.state.present"
ReadsState(T) == "state" \in T /\ StateSignal(T) = "oauth.state.callback_read"

\* What a line is a signal of: the detector's name, its stage and its state.
LineSignals(T) ==
    LET when(is, detector, stage, state) == IF is THEN {<<detector, stage, state>>} ELSE {}
    IN when(IsFlow(T), "oauth.flow.auth_code", "issue", "present")
       \cup when(IsFlow(T) /\ Says(T, {"nextauth", "oauthprovider", "oidcprovider"}),
                 "oauth.flow.framework_default", "issue", "framework_default")
       \cup when(Says(T, Pkce), "oauth.pkce.present", "issue", "present")
       \cup when("state" \in T /\ ~ReadsState(T) /\ IssueLine(T), StateSignal(T), "issue",
                 IF "state_literal" \in T THEN "present" ELSE "dynamic")
       \cup when(ReadsState(T), "oauth.state.callback_read", "validate", "dynamic")
       \cup when("state_compared" \in T, "oauth.state.verified", "validate", "present")
       \cup when(Says(T, {"openid", "oidcprovider"}), "oauth.oidc.openid_scope", "issue", "present")
       \cup when("nonce" \in T /\ IssueLine(T), "oauth.nonce.present", "issue", "dynamic")
       \cup when("nonce_verified" \in T, "oauth.nonce.verified", "validate", "present")
       \cup when("redirect_uri" \in T, "oauth.redirect_uri.literal", "issue", "present")
       \cup when("redirect_uri" \in T /\ Says(T, {"wildcard_literal", "host_literal"}),
                 "oauth.redirect_uri.broad", "issue", "present")

FlowLines(f) == {n \in DOMAIN f.nodes : IsFlow(OwnText(f.nodes[n]))}

\* Slip: the flows around a flow do not bound it.
NearFlow(f, flow, n, signal) ==
    IF signal[1] = "oauth.flow.auth_code" THEN n = flow ELSE n - flow \in -FlowDistance..FlowDistance
\* signal_belongs_to_flow: a signal between two flows, and near both, is of both.
OfFlow(f, flow, n, signal) ==
    IF signal[1] = "oauth.flow.auth_code" THEN n = flow
    ELSE /\ n - flow \in -FlowDistance..FlowDistance
         /\ \A other \in FlowLines(f) : (other < flow => other < n) /\ (other > flow => n < other)

\* A framework's default is dynamic too.
FlowEvidence(f, flow, n, signal) ==
    [EvidenceAt(f, signal[1], <<flow>>, n, NoName, signal[2], signal[3], {}) EXCEPT
        !.dynamic = signal[3] # "present"]

FlowHints(f) ==
    LET hint == [passport |-> "passport-oauth2", openid_client |-> "openid-client", nextauth |-> "next-auth",
                 authjs |-> "next-auth", authlib |-> "authlib", oauth2session |-> "authlib",
                 oauth2client |-> "authlib"]
        hints == {hint[w] : w \in FileText(f) \cap DOMAIN hint}
    IN IF hints = {} THEN {"oauth-generic"} ELSE hints

FlowArtifact(f, flow) ==
    Artifact(f, "oauth.flow", <<"oauth_auth_code_flow">>, flow, flow, "OAuthAuthCodeFlow",
             "oauth_auth_code_flow", FlowHints(f),
             {FlowEvidence(f, flow, o[1], o[2]) :
                o \in {p \in UNION {{n} \X LineSignals(OwnText(f.nodes[n])) : n \in DOMAIN f.nodes} :
                         OfFlow(f, flow, p[1], p[2])}})
OAuthArtifacts(f) ==
    FlattenSeq([n \in DOMAIN f.nodes |-> IF n \in FlowLines(f) THEN <<FlowArtifact(f, n)>> ELSE <<>>])
=============================================================================
