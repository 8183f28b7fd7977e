------------------------------ MODULE TrustRules ------------------------------
(***************************************************************************)
(* The rules about tokens that cross a trust boundary                       *)
(* (sessionscope-classifier: trust_boundary).  They look at all tokens of   *)
(* one name at once, wherever they are in the tree, and only ever ask for a *)
(* review: that two tokens share a name does not make them one.             *)
(***************************************************************************)
EXTENDS Report, Source

BoundaryToken == {"AccessJwt", "RefreshJwt", "OpaqueBearerToken", "ApiKey", "ServiceToken", "UnknownToken"}

\* boundary_group_key: a generic name is that of one token per part of the tree,
\* known by the path up to a directory where sources are kept.
Family(type) == CASE type \in {"AccessJwt", "OpaqueBearerToken", "UnknownToken"} -> "bearer"
                  [] type = "ApiKey" -> "api_key"
                  [] type = "ServiceToken" -> "service_token"
                  [] OTHER -> "token"
GenericName == {NoName, "token", "unknown_token", "opaque_bearer_token", "api_key", "x_api_key"}
PathGroup(path) ==
    LET root == SelectInSeq(path, LAMBDA part : part \in {"src", "app", "packages", "services", "config"})
    IN SubSeq(path, 1, IF root = 0 THEN 1 ELSE root)
GroupKey(a) == <<Family(a.type), IF a.name \in GenericName THEN PathGroup(a.file) ELSE <<>>, a.name>>

\* token_groups
Group(r, key) ==
    LET members == {a \in Artifacts(r) : a.type \in BoundaryToken /\ GroupKey(a) = key}
    IN [key |-> key, artifacts |-> members, evidence |-> UNION {a.evidence : a \in members}]
Groups(r) == {Group(r, GroupKey(a)) : a \in {b \in Artifacts(r) : b.type \in BoundaryToken}}

\* has_scoped_boundary_constraint_ids: one constraint of the group within twelve
\* lines of one of the evidence is enough.
Constraint == {"bearer.boundary.audience", "bearer.boundary.service", "bearer.boundary.tenant", "bearer.scope"}
Constrained(g, targets) == \E t \in targets, c \in Of(g.evidence, Constraint) : Within(12, t, c)

\* has_frontend_context, has_backend_context: as for the detector, a directory at
\* the root is none.
InDirectory(path, names) == \E k \in 2..(Len(path) - 1) : path[k] \in names
Exposure == {"bearer.store.public_config", "bearer.store.frontend_bundle"}
Frontend(g) ==
    \/ \E a \in g.artifacts : \/ InDirectory(a.file, {"frontend", "client", "public", "browser"})
                              \/ EndsWithTsx(a.file)
    \/ Of(g.evidence, Exposure) # {}
Backend(g) == \E a \in g.artifacts : InDirectory(a.file, {"server", "backend", "api"})

\* boundary_values of the environment: only the first value of an artifact is kept.
Environments(g) ==
    UNION {a.boundary.environment.value :
             a \in {b \in g.artifacts : b.boundary # NoAttributes /\ b.boundary.environment.state = "present"}}

Boundary == {"bearer.boundary." \o k : k \in {"issuer", "audience", "service", "environment", "tenant",
                                              "provider", "trust_boundary"}}
\* boundary_or_all_evidence_ids
BoundaryEvidence(g) == LET shown == Of(g.evidence, Boundary \cup Exposure)
                       IN IF shown = {} THEN g.evidence ELSE shown

Inbound(g) == Of(g.evidence, {"bearer.read.inbound", "query_param.read", "query_param.read.dynamic"})
Outbound(g) == Of(g.evidence, {"bearer.transmit", "bearer.transmit.url_query"})
Managed(g) == Of(g.evidence, {"bearer.dynamic_provider"})
Metadata(g) == Of(g.evidence, {"bearer.boundary.issuer", "bearer.boundary.provider",
                               "bearer.boundary.trust_boundary"})

\* The five rules, as <<guard, rule, severity, evidence>>.
TrustRule(g) ==
    LET across == Inbound(g) \cup Outbound(g) IN
    {<<Inbound(g) # {} /\ Outbound(g) # {} /\ ~Constrained(g, across),
       "trust_boundary_inbound_outbound_reuse_review", "medium", across>>,
     <<Cardinality(Ids(g.artifacts)) >= 2 /\ Frontend(g) /\ Backend(g),
       "trust_boundary_frontend_backend_reuse_review", "low", BoundaryEvidence(g)>>,
     <<\/ Cardinality(Environments(g)) >= 2
       \/ Cardinality(Of(g.evidence, {"bearer.boundary.environment"})) >= 2,
       "trust_boundary_environment_reuse_review", "low", BoundaryEvidence(g)>>,
     <<Managed(g) # {} /\ ~Constrained(g, Managed(g)),
       "trust_boundary_provider_scope_review", "low", Managed(g)>>,
     <<Metadata(g) # {} /\ ~Constrained(g, Metadata(g)),
       "trust_boundary_metadata_review", "low", Metadata(g)>>}
TrustFinding(g, rule) ==
    [rule |-> rule[2], category |-> Review, severity |-> rule[3], artifacts |-> Ids(g.artifacts),
     evidence |-> Ids(rule[4]), id |-> <<rule[2], g.key, Ids(rule[4])>>]
TrustFindings(r) == UNION {{TrustFinding(g, rule) : rule \in {t \in TrustRule(g) : t[1]}} : g \in Groups(r)}
=============================================================================
