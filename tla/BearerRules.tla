------------------------------ MODULE BearerRules -----------------------------
(***************************************************************************)
(* The rules about bearer tokens and API keys, about the values the browser *)
(* stores and about tokens in query parameters (sessionscope-classifier:    *)
(* bearer, client_storage, query_params).                                   *)
(***************************************************************************)
EXTENDS Report

BearerLike == {"OpaqueBearerToken", "ApiKey", "ServiceToken", "UnknownToken"}
IssuedToken == {"ApiKey", "ServiceToken"}
Exposed == {"bearer.store.browser", "bearer.store.public_config", "bearer.store.frontend_bundle",
            "bearer.literal.static"}

\* token_contexts: the artifacts of one id are one context, about the first.
Contexts(r) ==
    {LET same == {k \in DOMAIN r.artifacts : r.artifacts[k].id = i /\ r.artifacts[k].type \in BearerLike}
     IN [artifact |-> r.artifacts[Least(same)], evidence |-> UNION {r.artifacts[k].evidence : k \in same}] :
       i \in {a.id : a \in {b \in Artifacts(r) : b.type \in BearerLike}}}

\* is_related_token_artifact, related_artifact_context
PathPrefix(path) == SubSeq(path, 1, IF Len(path) < 2 THEN Len(path) ELSE 2)
RelatedContext(a, b) == a.hints \cap b.hints # {} \/ PathPrefix(a.file) = PathPrefix(b.file)
Related(a, b) ==
    /\ {a.type, b.type} \subseteq BearerLike
    /\ a.id = b.id \/ (a.name # NoName /\ a.name = b.name /\ RelatedContext(a, b))
RelatedEvidence(r, a) == UNION {b.evidence : b \in {c \in Artifacts(r) : Related(a, c)}}

\* Slip: a store anywhere in the file is taken for the one that was reported.
StoredInFile(r, e) ==
    \E f \in AllEvidence(r) :
       /\ f.detector \in {"client_storage.local_storage.set_item", "client_storage.session_storage.set_item"}
       /\ f.file = e.file

\* has_client_storage_same_location
StoredHere(r, e) ==
    \E f \in AllEvidence(r) :
       /\ f.detector \in {"client_storage.local_storage.set_item", "client_storage.session_storage.set_item"}
       /\ f.file = e.file /\ f.line = e.line

\* classify_deterministic_risks: what the source alone shows, one finding for each.
DeterministicRules(r, a, E) ==
    LET risk(d, rule) == UNION {Fire(a, {<<TRUE, rule, Misconfigured, "high", {e.id}>>}) : e \in Of(E, {d})}
    IN risk("bearer.transmit.url_query", "bearer_token_in_url_query")
       \cup risk("bearer.literal.static", "bearer_static_secret_literal")
       \cup risk("bearer.store.public_config", "bearer_public_runtime_config_exposure")
       \cup risk("bearer.store.frontend_bundle", "bearer_frontend_bundle_exposure")
       \cup UNION {Fire(a, {<<~StoredHere(r, e), "bearer_token_browser_storage", Misconfigured, "high", {e.id}>>}) :
                     e \in Of(E, {"bearer.store.browser"})}

\* Issue and store evidence of a token the source hands out, not one it exposes.
LocalLifecycle(E) == \E e \in In(E, {"issue", "store"}) : e.detector \notin Exposed

\* server_to_server_needs_review
ServerToServer(E) ==
    /\ HasDetector(E, "bearer.transmit")
    /\ ~(HasDetector(E, "bearer.scope") /\ HasStage(E, "expire")
         /\ (HasStage(E, "refresh") \/ HasStage(E, "revoke")))
DynamicEvidence(E) ==
    {e \in E : /\ e.detector \notin Exposed \cup {"bearer.transmit.url_query"}
               /\ \/ e.detector \in {"bearer.dynamic_provider", "bearer.store.config"}
                  \/ e.detector = "bearer.transmit" /\ ServerToServer(E)
                  \/ e.dynamic}

\* The other rules: the context and the artifacts related to it lack a stage.
ContextRules(r, a, E) ==
    LET known == E \cup RelatedEvidence(r, a)
        inbound == Of(E, {"bearer.read.inbound"})
        issued == a.type \in IssuedToken /\ LocalLifecycle(E)
    IN Fire(a,
        {<<inbound # {} /\ ~HasStage(known, "validate"),
           "bearer_missing_validation", MissingCheck, "medium", Ids(inbound)>>,
         <<issued /\ ~HasStage(known, "expire"),
           "bearer_issue_without_expiry", Gap, "low", Ids(In(E, {"issue", "store"}))>>,
         <<issued /\ ~HasStage(known, "refresh") /\ ~HasStage(known, "revoke"),
           "bearer_missing_rotation_or_revocation", Gap, "low", Ids(In(E, {"issue", "store"}))>>,
         <</\ a.type \in IssuedToken \cup {"OpaqueBearerToken"}
           /\ HasStage(E, "issue") \/ HasDetector(E, "bearer.transmit")
           /\ ~HasDetector(known, "bearer.scope"),
           "bearer_missing_scope_evidence", MissingCheck, "low", Ids(In(E, {"issue", "transmit"}))>>,
         <<DynamicEvidence(E) # {},
           "bearer_dynamic_provider_review", Review, "low", Ids(DynamicEvidence(E))>>})

BearerFindings(r) ==
    UNION {DeterministicRules(r, c.artifact, c.evidence) \cup ContextRules(r, c.artifact, c.evidence) :
             c \in Contexts(r)}

-----------------------------------------------------------------------------
(* client_storage::classify: a finding for each evidence, about the artifacts *)
(* that have it.                                                             *)
StorageRule ==
    << <<"client_storage.local_storage.set_item", "token_in_local_storage", Misconfigured>>,
       <<"client_storage.session_storage.set_item", "token_in_session_storage", Misconfigured>>,
       <<"client_storage.url_path_or_fragment.token", "token_in_url_path_or_fragment", Misconfigured>>,
       <<"client_storage.browser.client_secret", "client_secret_in_browser_code", Review>> >>
StorageFindings(r) ==
    UNION {{[rule |-> rule[2], category |-> rule[3], severity |-> "high",
             artifacts |-> {a.id : a \in {b \in Artifacts(r) : e \in b.evidence}},
             evidence |-> {e.id}, id |-> <<rule[2], e.id, e.file>>] :
              e \in {f \in AllEvidence(r) : f.detector = rule[1]}} : rule \in Range1(StorageRule)}

-----------------------------------------------------------------------------
(* query_params::classify: one finding for each artifact, the weakest when the *)
(* parameter or the token is not known.                                      *)
QueryEvidence(a) == Of(In(a.evidence, {"transmit"}), {"query_param.read", "query_param.read.dynamic"})
QueryRule(a, E) ==
    IF (\E e \in E : e.dynamic) \/ a.type = "UnknownToken"
    THEN <<"query_param_token_acceptance_review", Review, "low">>
    ELSE IF a.type \in {"PasswordResetToken", "EmailVerificationToken"}
    THEN <<"query_param_reset_or_verification_review", Review, "low">>
    ELSE <<"query_param_auth_token_acceptance", Misconfigured, "high">>

\* Of the artifacts with one id only the first is asked.
QueryFindings(r) ==
    LET first(k) == \A j \in 1..(k - 1) :
                       \/ r.artifacts[j].id # r.artifacts[k].id \/ QueryEvidence(r.artifacts[j]) = {}
                       \/ QueryRule(r.artifacts[j], QueryEvidence(r.artifacts[j]))
                          # QueryRule(r.artifacts[k], QueryEvidence(r.artifacts[k]))
        asked == {r.artifacts[k] : k \in {m \in DOMAIN r.artifacts :
                                             QueryEvidence(r.artifacts[m]) # {} /\ first(m)}}
    IN {LET rule == QueryRule(a, QueryEvidence(a))
        IN Finding(rule[1], rule[2], rule[3], a, Ids(QueryEvidence(a))) : a \in asked}
=============================================================================
