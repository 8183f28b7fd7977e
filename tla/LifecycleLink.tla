---------------------------- MODULE LifecycleLink ----------------------------
(***************************************************************************)
(* Lifecycle linking of sessionscope-classifier (lifecycle.rs, link): a    *)
(* path is built for each artifact of the report that has evidence, then   *)
(* three passes merge paths in place: revoke-only paths into the path they *)
(* revoke, query-parameter paths into the path of the token they carry,    *)
(* and refresh paths of one region with each other.  What remains is       *)
(* sorted.                                                                 *)
(*                                                                         *)
(* A path keeps the index of its artifact.  `retain` at the end of a pass  *)
(* only closes the gaps, so a path that is not there is one in `gone`.     *)
(*                                                                         *)
(* A piece of evidence is the facts its id is hashed from and the rules    *)
(* look at; names are those normalized_artifact_name returns.              *)
(***************************************************************************)
EXTENDS Integers, Sequences, FiniteSets, FiniteSetsExt

CONSTANTS
    Evidence,       \* [stage, file, line, detector]
    MaxDistance,    \* REFRESH_LINK_MAX_LINE_DISTANCE
    Inputs          \* the sequences of artifacts a report may hold

NoLine == 0         \* SourceLocation without a line

ArtifactType ==
    {"SessionCookie", "SignedCookie", "SessionRecord", "RefreshJwt",
     "AccessJwt", "OpaqueBearerToken", "ApiKey", "ServiceToken",
     "UnknownToken", "PasswordResetToken", "EmailVerificationToken",
     "OAuthAuthCodeFlow", "Unknown"}

\* Two artifacts of a report can have one id: it is hashed from the detector,
\* the type, the name and the place, but not from the stage.
Artifact == [id : Nat, type : ArtifactType, name : STRING,
             evidence : SUBSET Evidence]

ASSUME LinkAssumption ==
    /\ MaxDistance \in Nat
    /\ \A e \in Evidence : e.line \in Nat
    /\ Inputs \subseteq Seq(Artifact)

\* The type and the name of an artifact are hashed into its id.
ASSUME IdAssumption ==
    \A s \in Inputs : \A k, l \in 1..Len(s) :
        s[k].id = s[l].id => s[k].type = s[l].type /\ s[k].name = s[l].name

VARIABLES
    artifacts,  \* report.artifacts
    paths,      \* paths[k]: the path begun with artifacts[k]
    gone,       \* indices with no path: never had one, or absorbed
    pass,       \* the pass that is running
    i,          \* index of its outer loop
    j,          \* index of the inner loop of the refresh pass, 0 outside it
    linked      \* report.lifecycle_paths

vars == <<artifacts, paths, gone, pass, i, j, linked>>

Index == 1..Len(artifacts)
Live == Index \ gone

-----------------------------------------------------------------------------
(* Artifacts.                                                              *)

\* artifact_by_id: of several artifacts with one id the map keeps the last.
Lookup(id) == artifacts[CHOOSE k \in Index :
                            /\ artifacts[k].id = id
                            /\ \A l \in Index : artifacts[l].id = id => l <= k]

OnlyRevoke(a) == a.evidence # {} /\ \A e \in a.evidence : e.stage = "revoke"

RefreshName == {"refresh", "refresh_token", "refresh_jwt"}
IsRefresh(a) == a.type = "RefreshJwt" \/ a.name \in RefreshName

SessionAlias == {"session", "sessionid", "sid", "connect_sid", "connectsid"}
BothAliases(a, b) == a.name \in SessionAlias /\ b.name \in SessionAlias

CookieSession == {"SessionCookie", "SignedCookie", "SessionRecord"}
Token == {"RefreshJwt", "AccessJwt", "OpaqueBearerToken", "ApiKey",
          "ServiceToken", "UnknownToken"}
OneUnknown(a, b) == "Unknown" \in {a.type, b.type}
BothIn(a, b, types) == {a.type, b.type} \subseteq types

CompatibleRevoke(a, b) ==
    /\ a.name = b.name \/ (BothIn(a, b, CookieSession) /\ BothAliases(a, b))
    /\ \/ a.type = b.type        \/ BothIn(a, b, CookieSession)
       \/ OneUnknown(a, b)       \/ BothIn(a, b, Token)

CompatibleRefresh(a, b) ==
    /\ IsRefresh(a) /\ IsRefresh(b)
    /\ a.type = b.type \/ OneUnknown(a, b) \/ BothIn(a, b, Token)

CompatibleQuery(a, b) ==
    /\ a.name = b.name
    /\ \/ a.type = b.type
       \/ {a.type, b.type} = {"AccessJwt", "OpaqueBearerToken"}
    /\ a.type \notin {"UnknownToken", "Unknown"}

-----------------------------------------------------------------------------
(* Paths.                                                                  *)

\* `stamp` is what refresh_path_metadata last derived the path's id,
\* confidence, dynamic flag and reviewer question from.
Path == [artifacts : Seq(Nat), evidence : SUBSET Evidence,
         stamp : (SUBSET Nat) \X (SUBSET Evidence)]

IdsOf(p) == {p.artifacts[k] : k \in 1..Len(p.artifacts)}
Facts(p) == <<IdsOf(p), p.evidence>>

\* The ids of S in ascending order, each once.
Nth(S, k) == CHOOSE x \in S : Cardinality({y \in S : y <= x}) = k
Ascending(S) == [k \in 1..Cardinality(S) |-> Nth(S, k)]

PathFor(a) == [artifacts |-> <<a.id>>, evidence |-> a.evidence,
               stamp |-> <<{a.id}, a.evidence>>]

\* artifact_for_path: the first artifact that is more than a revocation.
Representative(p) ==
    LET strong == {k \in 1..Len(p.artifacts) : ~OnlyRevoke(Lookup(p.artifacts[k]))}
    IN Lookup(p.artifacts[IF strong = {} THEN 1 ELSE Min(strong)])

HasStage(p, stage) == \E e \in p.evidence : e.stage = stage
RevokeOnlyPath(p) == p.evidence # {} /\ \A e \in p.evidence : e.stage = "revoke"
QueryPath(p) == /\ \A e \in p.evidence : e.stage = "transmit"
                /\ \E e \in p.evidence : e.detector = "query_param.read"
RefreshPath(p) == \/ \E id \in IdsOf(p) : IsRefresh(Lookup(id))
                  \/ HasStage(p, "refresh")

Near(e, f) == /\ e.file = f.file
              /\ e.line # NoLine /\ f.line # NoLine
              /\ e.line - f.line \in -MaxDistance..MaxDistance

InContext(p, q) == \E e \in p.evidence, f \in q.evidence : Near(e, f)

\* revoke_paths_are_linkable
RevokeLinkable(p, q) ==
    LET a == Representative(p)  b == Representative(q) IN
    /\ CompatibleRevoke(a, b)
    /\ (IsRefresh(a) /\ IsRefresh(b)) \/ BothAliases(a, b) => InContext(p, q)

QueryLinkable(p, q) ==
    /\ ~QueryPath(q)
    /\ CompatibleQuery(Representative(p), Representative(q))
    /\ InContext(p, q)

\* Slip: refresh tokens merged by name and type alone.
RefreshLinkableAnywhere(p, q) ==
    RefreshPath(p) /\ CompatibleRefresh(Representative(p), Representative(q))

RefreshLinkable(p, q) ==
    /\ RefreshPath(p)
    /\ CompatibleRefresh(Representative(p), Representative(q))
    /\ InContext(p, q)

\* merge_path
Merged(source, target) ==
    [target EXCEPT !.artifacts = @ \o source.artifacts,
                   !.evidence = @ \cup source.evidence]

\* Slip: the facts of the path are those it was built from.
KeepStamp(p) == [p EXCEPT !.artifacts = Ascending(IdsOf(p))]

\* refresh_path_metadata
Refreshed(p) == [p EXCEPT !.artifacts = Ascending(IdsOf(p)),
                          !.stamp = Facts(p)]

-----------------------------------------------------------------------------
Init ==
    /\ artifacts \in Inputs
    /\ paths = [k \in Index |-> PathFor(artifacts[k])]
    /\ gone = {k \in Index : artifacts[k].evidence = {}}
    /\ pass = "revoke"
    /\ i = 1
    /\ j = 0
    /\ linked = <<>>

\* Slip: the source of a merge stays in the list.
AbsorbKeepingSource(s, t) ==
    /\ paths' = [paths EXCEPT ![t] = Refreshed(Merged(paths[s], @))]
    /\ UNCHANGED gone

Absorb(s, t) ==
    /\ paths' = [paths EXCEPT ![t] = Refreshed(Merged(paths[s], @))]
    /\ gone' = gone \cup {s}

\* Slip: a target that was absorbed before is not left out.
AnyOther(s) == Index \ {s}

\* Slip: only the paths after the source are looked at.
LaterOthers(s) == {t \in Live : t > s}

Others(s) == Live \ {s}

\* The targets of source s in the revoke and in the query pass.
RevokeTargets(s) ==
    {t \in Others(s) : s \in Live /\ RevokeOnlyPath(paths[s])
                       /\ RevokeLinkable(paths[s], paths[t])}
QueryTargets(s) ==
    {t \in Others(s) : s \in Live /\ QueryPath(paths[s])
                       /\ QueryLinkable(paths[s], paths[t])}

\* One iteration of a pass over sources: into the first target, if any.
Link(targets) ==
    /\ i \in Index
    /\ IF targets = {} THEN UNCHANGED <<paths, gone>>
                       ELSE \E t \in targets : /\ \A u \in targets : t <= u
                                               /\ Absorb(i, t)
    /\ i' = i + 1
    /\ UNCHANGED <<artifacts, pass, j, linked>>

LinkRevoke == pass = "revoke" /\ Link(RevokeTargets(i))
LinkQuery == pass = "query" /\ Link(QueryTargets(i))

EndPass(here, there) ==
    /\ pass = here
    /\ i > Len(artifacts)
    /\ pass' = there
    /\ i' = 1
    /\ UNCHANGED <<artifacts, paths, gone, j, linked>>

(* merge_refresh_paths: each target in turn against the sources after it.  *)

RefreshTarget(t) == t \in Live /\ RefreshPath(paths[t])

SkipTarget ==
    /\ pass = "refresh" /\ j = 0 /\ i \in Index
    /\ ~RefreshTarget(i)
    /\ i' = i + 1
    /\ UNCHANGED <<artifacts, paths, gone, pass, j, linked>>

OpenTarget ==
    /\ pass = "refresh" /\ j = 0 /\ i \in Index
    /\ RefreshTarget(i)
    /\ j' = i + 1
    /\ UNCHANGED <<artifacts, paths, gone, pass, i, linked>>

LinkRefresh ==
    /\ pass = "refresh" /\ j \in Index
    /\ IF j \in Live /\ RefreshLinkable(paths[j], paths[i])
       THEN /\ paths' = [paths EXCEPT ![i] = Merged(paths[j], @)]
            /\ gone' = gone \cup {j}
       ELSE UNCHANGED <<paths, gone>>
    /\ j' = j + 1
    /\ UNCHANGED <<artifacts, pass, i, linked>>

CloseTarget ==
    /\ pass = "refresh" /\ j > Len(artifacts)
    /\ paths' = [paths EXCEPT ![i] = Refreshed(@)]
    /\ i' = i + 1
    /\ j' = 0
    /\ UNCHANGED <<artifacts, gone, pass, linked>>

\* sort_paths: by artifact ids; of paths with the same first id (two
\* artifacts with one id) either may come first.
FirstId(k) == paths[k].artifacts[1]
SortPaths ==
    /\ pass = "refresh" /\ j = 0 /\ i > Len(artifacts)
    /\ pass' = "linked"
    /\ \E order \in [1..Cardinality(Live) -> Live] :
        /\ {order[n] : n \in DOMAIN order} = Live
        /\ \A n \in 2..Cardinality(Live) : FirstId(order[n - 1]) <= FirstId(order[n])
        /\ linked' = [n \in DOMAIN order |-> paths[order[n]]]
    /\ UNCHANGED <<artifacts, paths, gone, i, j>>

Step ==
    \/ LinkRevoke \/ EndPass("revoke", "query")
    \/ LinkQuery  \/ EndPass("query", "refresh")
    \/ SkipTarget \/ OpenTarget \/ LinkRefresh \/ CloseTarget \/ SortPaths

Next == Step \/ (pass = "linked" /\ UNCHANGED vars)

Spec == Init /\ [][Next]_vars /\ WF_vars(Step)

-----------------------------------------------------------------------------
(* Properties.                                                             *)

EvidenceOf(ks) == UNION {paths[k].evidence : k \in ks}
IdsIn(ks) == UNION {IdsOf(paths[k]) : k \in ks}

TypeOK ==
    /\ artifacts \in Seq(Artifact)
    /\ paths \in [Index -> Path]
    /\ \A k \in Index : paths[k].artifacts # <<>>
    /\ gone \subseteq Index
    /\ pass \in {"revoke", "query", "refresh", "linked"}
    /\ i \in 1..(Len(artifacts) + 1)
    /\ j \in {0} \cup 2..(Len(artifacts) + 1)
    /\ linked \in Seq(Path)

\* Merging loses nothing and invents nothing: at every step the paths that
\* are left, and in the end the reported ones, hold the evidence of all
\* artifacts and name those that have any.
AllEvidence == UNION {artifacts[k].evidence : k \in Index}
AllIds == {artifacts[k].id : k \in {l \in Index : artifacts[l].evidence # {}}}
NothingLost ==
    /\ EvidenceOf(Live) = AllEvidence
    /\ IdsIn(Live) = AllIds
    /\ pass = "linked" =>
        /\ UNION {linked[n].evidence : n \in 1..Len(linked)} = AllEvidence
        /\ UNION {IdsOf(linked[n]) : n \in 1..Len(linked)} = AllIds

\* No evidence is told twice: paths that are left share none when the
\* artifacts shared none.
DisjointArtifacts ==
    \A k, l \in Index : k # l => artifacts[k].evidence \cap artifacts[l].evidence = {}
NothingTwice ==
    DisjointArtifacts =>
        \A k, l \in Live : k # l => paths[k].evidence \cap paths[l].evidence = {}

\* The id, confidence and reviewer question of a reported path are those of
\* the artifacts and the evidence it ends up with, after whatever merges.
StampCurrent == \A n \in 1..Len(linked) : linked[n].stamp = Facts(linked[n])

\* The artifacts all of whose evidence is in E, as that of a path holds them.
Members(E) == {k \in Index : artifacts[k].evidence # {} /\ artifacts[k].evidence \subseteq E}

\* "Refresh-token paths are linked only when evidence is source-local": an
\* artifact of a reported path with others, where all of its name are refresh
\* tokens, has evidence near that of another, or shares some with it.
RefreshStaysLocal ==
    \A n \in 1..Len(linked) : LET M == Members(linked[n].evidence) IN
        \A k \in M :
            (M # {k} /\ \A l \in M : artifacts[l].name = artifacts[k].name => IsRefresh(artifacts[l]))
            => \E m \in M \ {k} : \/ InContext(artifacts[k], artifacts[m])
                                  \/ artifacts[k].evidence \cap artifacts[m].evidence # {}

\* Artifacts of one type any two of which could be linked as revocation and token.
Alike(K) == \A k, l \in K : /\ artifacts[k].type = artifacts[l].type
                            /\ CompatibleRevoke(artifacts[k], artifacts[l])

\* A revocation is not left on its own: no reported revoke-only path could
\* still be merged into another path whose artifacts are like its own.
NoStrayRevoke ==
    \A m, n \in 1..Len(linked) :
        (/\ m # n /\ RevokeOnlyPath(linked[m])
         /\ Alike(Members(linked[m].evidence) \cup Members(linked[n].evidence)))
        => ~RevokeLinkable(linked[m], linked[n])
=============================================================================
