-------------------------------- MODULE Audit ---------------------------------
(***************************************************************************)
(* A repository that is written and scanned, again and again: the detectors *)
(* of DetectorRegistry::builtin on every file, in the order of the paths,   *)
(* and classify on what they found.  Commit adds a statement to a file, at   *)
(* its end and in any of the functions that are open there, and a scan      *)
(* follows.  What the scan does with the files, the budget and the workers   *)
(* is ScanPipeline's; here every file is read and no detector fails.        *)
(***************************************************************************)
EXTENDS CookieRules, JwtRules, OAuthRules, BearerRules, TrustRules, FixationRules

CONSTANTS
    FlowDistance,   \* how many lines from a flow its evidence is
    Repositories    \* each with its files in the order of their paths
                    \* ([path, language, deep, bare]), for each file the nodes that
                    \* may be written to it, and a bound on the nodes of all files

\* A repository: files of distinct paths, and for each the nodes that may be
\* written, those that read queries finitely many; a file of configuration is
\* read by its lines.
IsNode(n) ==
    /\ {"kind", "within"} \subseteq DOMAIN n
    /\ n.kind = "Header" => "cookies" \in DOMAIN n /\ IsSequence(n.cookies)
    /\ n.kind \in {"Call", "Route", "Assign"} => "reads" \in DOMAIN n /\ IsFiniteSet(n.reads)
IsRepository(R) ==
    /\ IsSequence(R.files)
    /\ \A i, j \in DOMAIN R.files : R.files[i].path = R.files[j].path => i = j
    /\ DOMAIN R.statements = DOMAIN R.files
    /\ \A i \in DOMAIN R.files : \A s \in DOMAIN R.statements[i] :
          /\ IsNode(R.statements[i][s])
          /\ R.files[i].language \in {"js", "py"} \/ R.statements[i][s].kind = "Line"
    /\ R.nodes \in Nat

ASSUME AuditAssumption ==
    /\ FlowDistance \in Nat
    /\ \A k \in DOMAIN Repositories : IsRepository(Repositories[k])

VARIABLES
    repository,     \* the repository that is written
    code,           \* the nodes of each of its files
    report          \* the report of the last scan

vars == <<repository, code, report>>

Files == Repositories[repository].files
Statements == Repositories[repository].statements

Cookie == INSTANCE CookieCode
Jwt == INSTANCE JwtCode
OAuth == INSTANCE OAuthCode
Bearer == INSTANCE BearerCode
Client == INSTANCE ClientCode
Reset == INSTANCE ResetCode
Session == INSTANCE SessionCode
Refresh == INSTANCE RefreshCode

-----------------------------------------------------------------------------
(* A scan.                                                                  *)
Read(c, k) == [path |-> Files[k].path, language |-> Files[k].language, deep |-> Files[k].deep,
               bare |-> Files[k].bare, nodes |-> c[k]]

\* A detector is asked for the languages it knows.
Program(f) == f.language \in {"js", "py"}
Detect(f) ==
    (IF Program(f) THEN Cookie!CookieArtifacts(f) \o Jwt!JwtArtifacts(f) \o OAuth!OAuthArtifacts(f)
                        \o Client!StorageArtifacts(f) ELSE <<>>)
    \o Bearer!BearerArtifacts(f)
    \o (IF Program(f) THEN Client!QueryArtifacts(f) \o Reset!ResetArtifacts(f) \o Session!SessionArtifacts(f)
                            \o Refresh!RefreshArtifacts(f) ELSE <<>>)

\* Evidence that is no artifact's.
Loose(f) == UNION {Bearer!DepthEvidence(f, d) : d \in {"bearer.token", "query_param.token"}}

\* scan_path: one result for each file, joined in the order of the paths.
Joined(artifacts, loose) ==
    [artifacts |-> artifacts, evidence |-> loose \cup UNION {a.evidence : a \in Range1(artifacts)}]
Detected(c, K) ==
    Joined(FlattenSeq([k \in DOMAIN Files |-> IF k \in K THEN Detect(Read(c, k)) ELSE <<>>]),
           UNION {Loose(Read(c, k)) : k \in K})

\* Rules that look at one file, and rules that look at all of them.
FileFindings(r) == CookieFindings(r) \cup JwtFindings(r) \cup StorageFindings(r) \cup QueryFindings(r)
                   \cup OAuthFindings(r) \cup FixationFindings(r)
Classified(r) == FileFindings(r) \cup BearerFindings(r) \cup TrustFindings(r)

WithFindings(r) == [artifacts |-> r.artifacts, evidence |-> r.evidence, findings |-> Classified(r)]
ReportOf(c) == WithFindings(Detected(c, DOMAIN Files))

-----------------------------------------------------------------------------
(* Behaviours.                                                              *)
Nothing(k) == [n \in DOMAIN Repositories[k].files |-> <<>>]
Init == /\ repository \in DOMAIN Repositories
        /\ code = Nothing(repository)
        /\ report = ReportOf(code)

\* The functions that are open at the end of a file.
Open(nodes) ==
    LET around[m \in 0..Len(nodes)] == {m} \cup (IF m = 0 THEN {} ELSE around[nodes[m].within])
        last == Len(nodes)
    IN IF last = 0 THEN {0}
       ELSE IF nodes[last].kind \in {"Function", "Route"} THEN around[last] ELSE around[nodes[last].within]

Commit(k) ==
    /\ Len(FlattenSeq(code)) < Repositories[repository].nodes
    /\ \E s \in DOMAIN Statements[k], w \in Open(code[k]) :
          code' = [code EXCEPT ![k] = Append(@, [Statements[k][s] EXCEPT !.within = w])]
    /\ report' = ReportOf(code')
    /\ UNCHANGED repository

Next == \E k \in DOMAIN Files : Commit(k)
Spec == Init /\ [][Next]_vars

-----------------------------------------------------------------------------
(* Properties.                                                              *)
FileOf(k) == Read(code, k)
Cites(f, e) == e.id \in f.evidence
Told(rules) == {f \in report.findings : f.rule \in rules}

\* A finding is about artifacts of the report and cites evidence of the report,
\* at least some; and what is called a misconfiguration rests on something the
\* source says, never on dynamic values and defaults alone (SS-DEC-002).
Grounded ==
    \A f \in report.findings :
       /\ f.artifacts # {} /\ f.artifacts \subseteq Ids(Artifacts(report))
       /\ f.evidence # {} /\ f.evidence \subseteq Ids(report.evidence)
       /\ f.category = Misconfigured =>
             \E e \in report.evidence : Cites(f, e) /\ ~e.dynamic /\ ~e.default

\* "Findings match by stable finding ID first" (docs/SCHEMA.md): baselines, diffs
\* and SARIF fingerprints take a finding for its id, so two findings do not share
\* one.  Two JWTs without a name in one file do share them.
FindingIdsUnique ==
    \A f, g \in report.findings : f.id = g.id => f = g

\* But for those, ids are unique over all rules, files and artifacts, though cookies
\* of one wrapper share their evidence and tokens of one name their ids.
UnnamedJwt(a) == a.jwt # NoAttributes /\ a.name = NoName
NamedFindingsUnique ==
    \A f, g \in report.findings :
       f.id = g.id /\ ~(\E a \in Artifacts(report) : UnnamedJwt(a) /\ a.id \in f.artifacts) => f = g

\* The rules about cookies, JWTs, browser storage and query parameters judge each
\* file by itself: what is in another file neither adds nor hides a finding.
LocalRules ==
    FileFindings(report) = UNION {FileFindings(Detected(code, {k})) : k \in DOMAIN Files}

\* The calls of one name in a file are one JWT.  A check that one of them lacks is
\* reported with that call, whatever the other calls do.
WorstCallCounts ==
    \A k \in DOMAIN Files :
       LET f == FileOf(k) IN
       \A c \in Range1(Jwt!JwtCalls(f)) :
          \A x \in {Jwt!Attr(a) : a \in {"issuer", "audience", "signature_verification",
                                        "expiry_enforcement"}} \cap DOMAIN c.fields :
             c.fields[x].state = "missing" =>
                \E g \in report.findings : /\ g.category \in {Misconfigured, MissingCheck}
                                          /\ Cites(g, Jwt!FieldEvidence(f, c, x))

\* Two detectors see a token go into browser storage, and two classifiers report
\* it: for each place one of them does, and not both.
OneStorageReport ==
    \A e \in Of(report.evidence, {"bearer.store.browser"}) :
       LET here(rules) == {g \in Told(rules) :
                             \E d \in report.evidence : Cites(g, d) /\ d.file = e.file /\ d.line = e.line}
           bearer == here({"bearer_token_browser_storage"})
           client == here({"token_in_local_storage", "token_in_session_storage"})
       IN (bearer = {}) # (client = {})

\* Conflicting writes are reported for two writes of one name in one handler, and
\* for all such pairs: wrappers, headers and direct calls are writes alike, and
\* functions within functions are handlers of their own.  But a function at the very
\* first byte of its file is told from the code outside of all functions by nothing,
\* and a write in the one and a write in the other are reported too.
OneHandler(f, m, n) ==
    \/ Cookie!Handler(f, m) = Cookie!Handler(f, n)
    \/ {Cookie!Handler(f, m), Cookie!Handler(f, n)} = {0, 1} /\ Cookie!AtFirstByte(f, 1)
ConflictsInOneHandler ==
    \A k \in DOMAIN Files :
       \A calls \in {Cookie!CookieCalls(FileOf(k))} :
          LET artifact(j) == Cookie!CookieArtifact(FileOf(k), calls, calls[j]).id IN
          \A i, j \in DOMAIN calls : i < j =>
             ((\E g \in Told({"cookie_conflicting_writes_review"}) : {artifact(i), artifact(j)} \subseteq g.artifacts)
              <=> /\ calls[i].name # NoName /\ calls[i].name = calls[j].name
                  /\ OneHandler(FileOf(k), calls[i].line, calls[j].line))

\* The file the last statement is added to, and whether it is added to node n or in it.
Committed == CHOOSE k \in DOMAIN Files : code'[k] # code[k]
Added == Len(code'[Committed])
AddedIn(n) == Inside(Read(code', Committed), Added, n)

\* A misconfiguration of a JWT, of a token or of what a client stores stays reported
\* when code is added that is not part of the statement it cites: no later call,
\* header or assignment of the file, nor another file, talks it away.  What a query
\* parameter is accepted for may become a review, when it is read under a computed
\* name too.  (Options of cookies are taken from the last assignment of the scope, an
\* import may change what a name above it means, and a file that turns out to hold
\* expected results is not searched for tokens.)  What the code says of the accepted
\* algorithms outside of an allow-list counts only while the calls of the JWT give at
\* most three values of `algorithm`: of more, the first three in the order of their
\* texts are judged, whichever calls they are from, so a later call of the name can
\* talk it away.  What the allow-lists themselves say stays reported.
CookieRule(rule) == \E r \in {f.rule : f \in CookieFindings(report)} : r = rule
StillTold(f, e) ==
    \E g \in report'.findings :
       /\ Cites(g, e)
       /\ \/ g.rule = f.rule
          \/ /\ f.rule = "query_param_auth_token_acceptance"
             /\ g.rule = "query_param_token_acceptance_review"
Touches(n) ==
    \/ AddedIn(n)
    \/ code'[Committed][Added].kind = "Import"
    \/ Bearer!FixtureMetadata(Read(code', Committed))

Accepted == [jwt_alg_none_accepted |-> {"none"}, jwt_alg_confusion_signal |-> {"hmac", "asymmetric"}]
AllowLists(f) ==
    UNION {e.says : e \in {d \in Of(report.evidence, {"jwt.option.algorithms"}) : Cites(f, d)}}
Crowded(f) ==
    /\ f.rule \in DOMAIN Accepted /\ ~(Accepted[f.rule] \subseteq AllowLists(f))
    /\ \E a \in Artifacts(report') : /\ a.id \in f.artifacts /\ a.jwt # NoAttributes
                                    /\ "..." \in a.jwt["algorithm"].value
NeverTalkedAway ==
    [][\A f \in report.findings : \A e \in {d \in report.evidence : Cites(f, d)} :
          (/\ f.category = Misconfigured /\ ~CookieRule(f.rule) /\ ~Crowded(f)
           /\ e.file = Files[Committed].path => ~Touches(e.line))
          => StillTold(f, e)]_vars

\* What is reported about an authorization flow is settled once another flow
\* follows it in its file: code written further down is evidence of that one, and
\* neither silences nor adds a finding of the first.
FlowsOf(r) == {a \in Artifacts(r) : a.type = "OAuthAuthCodeFlow"}
About(r, a) == {f \in r.findings : a.id \in f.artifacts}
SettledFlows ==
    [][\A a \in FlowsOf(report) :
          (\E b \in FlowsOf(report) : b.file = a.file /\ b.line > a.line)
          => /\ \E c \in FlowsOf(report') : c.id = a.id /\ c.evidence = a.evidence
             /\ About(report, a) = About(report', a)]_vars

\* A login or a change of privilege in a handler that does not regenerate the
\* session stays reported while code is written elsewhere: what another handler
\* of the file does, however near, says nothing of this one.  Of the transitions of
\* a line, the function's and its export's, one is reported for both.
OutsideOf(n) ==  \* the last node is in no function that n is in, nor is n one
    ~\E m \in Bearer!Around(FileOf(Committed), n) \cup {n} : AddedIn(m)
StillReported(f, e) ==
    \E g \in report'.findings, u \in TransitionsOf(report') :
       /\ g.rule = f.rule /\ Cites(g, u[2])
       /\ u[2].detector = e.detector /\ u[2].file = e.file /\ u[2].line = e.line
FixationStays ==
    [][\A f \in report.findings : \A t \in {u \in TransitionsOf(report) : Cites(f, u[2])} :
          (/\ f.rule \in {LoginRule, PrivilegeRule} /\ report.artifacts[t[1]].scope # 0
           /\ t[2].file = Files[Committed].path => OutsideOf(t[2].line))
          => StillReported(f, t[2])]_vars
=============================================================================
