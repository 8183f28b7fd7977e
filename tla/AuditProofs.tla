----------------------------- MODULE AuditProofs -----------------------------
(***************************************************************************)
(* Proofs about Audit, for every repository of any number of files, with    *)
(* any statements written to them in any order: a check that one call of a  *)
(* JWT lacks is reported with it, what is stored in the browser is reported *)
(* once for each place, writes of a cookie conflict in one handler and      *)
(* nowhere else, and files are judged each by itself; and what a file shows *)
(* of logins and regenerations in a handler, which nothing written outside  *)
(* of it changes (FactsStay).  The invariants are that the report is that   *)
(* of the code and the code is of nodes that may be written (Written), each *)
(* in nodes before it (Nested); the rest is what the detectors find in such *)
(* files (DetectorProofs) and what the classifiers make of it.              *)
(***************************************************************************)
EXTENDS DetectorProofs

-----------------------------------------------------------------------------
(* What is written, and the report of it.                                   *)

\* The files hold nodes that may be written to them, and the report is theirs.
Written ==
    /\ repository \in DOMAIN Repositories
    /\ DOMAIN code = DOMAIN Files
    /\ \A k \in DOMAIN Files : IsRead(FileOf(k))
    /\ report = ReportOf(code)

LEMMA EmptyIsRead ==
    ASSUME NEW f, f.nodes = <<>>
    PROVE  IsRead(f)
BY EmptyIsOne DEF IsRead, IsFile

LEMMA WrittenIsNode ==
    ASSUME NEW n, IsNode(n), NEW w
    PROVE  LET m == [n EXCEPT !.within = w] IN IsNode(m) /\ m.kind = n.kind
<1>. DEFINE m == [n EXCEPT !.within = w]
<1>1. {"kind", "within"} \subseteq DOMAIN n
  BY DEF IsNode
<1>2. DOMAIN m = DOMAIN n /\ \A x \in DOMAIN n \ {"within"} : m[x] = n[x]
  BY Zenon
<1>3. m.kind = n.kind
  BY <1>1, <1>2
<1>4. "cookies" \in DOMAIN n => m.cookies = n.cookies
  BY <1>2
<1>5. "reads" \in DOMAIN n => m.reads = n.reads
  BY <1>2
<1>. HIDE DEF m
<1>6. IsNode(m)
  BY <1>1, <1>2, <1>3, <1>4, <1>5 DEF IsNode
<1>. QED  BY <1>3, <1>6 DEF m

LEMMA AppendIsRead ==
    ASSUME NEW f, IsRead(f), NEW n, IsNode(n), Program(f) \/ n.kind = "Line",
           NEW g, g.language = f.language, g.nodes = Append(f.nodes, n)
    PROVE  IsRead(g)
<1>. DEFINE s == f.nodes
            t == g.nodes
<1>1. IsSequence(s) /\ \A k \in DOMAIN s : IsNode(s[k]) /\ (Program(f) \/ s[k].kind = "Line")
  BY DEF IsRead, IsFile
<1>2. Program(g) <=> Program(f)
  BY DEF Program
<1>3. t = s \o <<n>>
  BY <1>1 DEF IsSequence
<1>. HIDE DEF s, t
<1>4. IsSequence(<<n>>) /\ Range1(<<n>>) = {n}
  BY SingleIsOne
<1>5. IsSequence(t) /\ Range1(t) = Range1(s) \cup {n}
  BY <1>1, <1>3, <1>4, ConcatIsOne
<1>6. \A k \in DOMAIN t : IsNode(t[k]) /\ (Program(f) \/ t[k].kind = "Line")
  BY <1>1, <1>5 DEF Range1
<1>. QED  BY <1>2, <1>5, <1>6 DEF IsRead, IsFile, t

\* The nodes of the files are nodes that may be written to them: an invariant.
THEOREM AuditWritten == Spec => []Written
<1>1. Init => Written
  <2>. SUFFICES ASSUME Init PROVE Written
    OBVIOUS
  <2>1. DOMAIN code = DOMAIN Files /\ \A k \in DOMAIN Files : code[k] = <<>>
    BY DEF Init, Nothing, Files
  <2>2. \A k \in DOMAIN Files : FileOf(k).nodes = <<>>
    BY <2>1 DEF FileOf, Read
  <2>3. \A k \in DOMAIN Files : IsRead(FileOf(k))
    BY <2>2, EmptyIsRead
  <2>. QED  BY <2>1, <2>3 DEF Init, Written
<1>2. Written /\ [Next]_vars => Written'
  <2>. SUFFICES ASSUME Written, [Next]_vars PROVE Written'
    OBVIOUS
  <2>1. ASSUME repository' = repository PROVE ReportOf(code)' = ReportOf(code')
    BY <2>1 DEF ReportOf, Detected, Read, Files
  <2>2. CASE UNCHANGED vars
    <3>1. Files' = Files /\ \A k : FileOf(k)' = FileOf(k)
      BY <2>2 DEF vars, Files, FileOf, Read
    <3>. QED  BY <2>1, <2>2, <3>1 DEF vars, Written
  <2>3. ASSUME NEW k \in DOMAIN Files, Commit(k) PROVE Written'
    <3>1. repository' = repository /\ Files' = Files /\ Statements' = Statements
      BY <2>3 DEF Commit, Files, Statements
    <3>2. PICK s \in DOMAIN Statements[k], w \in Open(code[k]) :
             code' = [code EXCEPT ![k] = Append(@, [Statements[k][s] EXCEPT !.within = w])]
      BY <2>3 DEF Commit
    <3>. DEFINE n == [Statements[k][s] EXCEPT !.within = w]
    <3>3. DOMAIN code' = DOMAIN Files /\ code'[k] = Append(code[k], n)
          /\ \A j \in DOMAIN Files \ {k} : code'[j] = code[j]
      BY <3>2 DEF Written
    <3>4. /\ IsNode(Statements[k][s])
          /\ Program(FileOf(k)) \/ Statements[k][s].kind = "Line"
      BY AuditAssumption DEF Written, IsRepository, Files, Statements, FileOf, Read, Program
    <3>5. IsNode(n) /\ (Program(FileOf(k)) \/ n.kind = "Line")
      BY <3>4, WrittenIsNode
    <3>. HIDE DEF n
    <3>6. \A j : FileOf(j)' = Read(code', j)
      BY <3>1 DEF FileOf, Read
    <3>7. IsRead(Read(code', k))
      <4>1. /\ Read(code', k).language = FileOf(k).language
            /\ Read(code', k).nodes = Append(FileOf(k).nodes, n)
        BY <3>3 DEF FileOf, Read
      <4>2. IsRead(FileOf(k))
        BY DEF Written
      <4>. QED  BY <3>5, <4>1, <4>2, AppendIsRead
    <3>8. ASSUME NEW j \in DOMAIN Files, j # k PROVE IsRead(Read(code', j))
      <4>1. Read(code', j) = FileOf(j)
        BY <3>3, <3>8 DEF FileOf, Read
      <4>. QED  BY <4>1 DEF Written
    <3>9. \A j \in DOMAIN Files : IsRead(Read(code', j))
      BY <3>7, <3>8
    <3>10. report' = ReportOf(code')
      BY <2>3 DEF Commit
    <3>. QED  BY <2>1, <3>1, <3>3, <3>6, <3>9, <3>10 DEF Written
  <2>. QED  BY <2>2, <2>3 DEF Next
<1>. QED  BY <1>1, <1>2, PTL DEF Spec

\* What is in a report d of the files.
Whole(d) ==
    /\ IsSequence(d.artifacts)
    /\ \A m \in DOMAIN d.artifacts :
          \E k \in DOMAIN Files : \E i \in 1..Len(Detect(FileOf(k))) : d.artifacts[m] = Detect(FileOf(k))[i]
    /\ \A k \in DOMAIN Files : \A i, j \in 1..Len(Detect(FileOf(k))) : i # j =>
          \E m, n \in DOMAIN d.artifacts :
             m # n /\ d.artifacts[m] = Detect(FileOf(k))[i] /\ d.artifacts[n] = Detect(FileOf(k))[j]
    /\ \A k \in DOMAIN Files : Range1(Detect(FileOf(k))) \subseteq Artifacts(d)
    /\ \A a \in Artifacts(d) : a.evidence \subseteq d.evidence
    /\ \A e \in d.evidence :
          /\ \E k \in DOMAIN Files : Placed(FileOf(k), e)
          /\ e.detector \in Foreign => \E a \in Artifacts(d) : e \in a.evidence

LEMMA FilesAre ==
    ASSUME Written
    PROVE  /\ IsSequence(Files)
           /\ \A i, j \in DOMAIN Files : Files[i].path = Files[j].path => i = j
           /\ \A k \in DOMAIN Files : FileOf(k).path = Files[k].path
BY AuditAssumption DEF Written, IsRepository, Files, FileOf, Read

LEMMA TheReport ==
    ASSUME Written, NEW d, d = Detected(code, DOMAIN Files)
    PROVE  /\ report.artifacts = d.artifacts /\ report.evidence = d.evidence /\ report.findings = Classified(d)
           /\ Whole(d)
<1>. DEFINE ss == [k \in DOMAIN Files |-> Detect(FileOf(k))]
            tt == [k \in DOMAIN Files |-> IF k \in DOMAIN Files THEN Detect(Read(code, k)) ELSE <<>>]
            s == FlattenSeq(ss)
            loose == UNION {Loose(Read(code, k)) : k \in DOMAIN Files}
<1>1. report.artifacts = d.artifacts /\ report.evidence = d.evidence /\ report.findings = Classified(d)
  BY DEF Written, ReportOf, WithFindings
<1>2. d.artifacts = s /\ d.evidence = loose \cup UNION {a.evidence : a \in Range1(s)}
  <2>1. ss = tt
    BY DEF FileOf
  <2>2. d = Joined(FlattenSeq(tt), loose)
    BY DEF Detected
  <2>. HIDE DEF ss, tt, loose
  <2>. QED  BY <2>1, <2>2 DEF Joined
<1>3. IsSequence(Files) /\ DOMAIN Files = 1..Len(Files)
  BY FilesAre, SequenceForm
<1>4. DOMAIN ss = DOMAIN Files /\ ss = [k \in DOMAIN Files |-> ss[k]] /\ \A k \in DOMAIN Files : ss[k] = Detect(FileOf(k))
  OBVIOUS
<1>. HIDE DEF ss
<1>5. IsSequence(ss) /\ Len(ss) = Len(Files)
  BY <1>3, <1>4, IndexedIsOne
<1>6. \A k \in DOMAIN Files : Found(FileOf(k), ss[k], Cookie!CookieCalls(FileOf(k)))
  BY <1>4, DetectIs DEF Written
<1>7. \A k \in DOMAIN Files : IsSequence(ss[k]) /\ DOMAIN ss[k] = 1..Len(ss[k])
  BY <1>6, SequenceForm DEF Found
<1>8. IsSequences(ss)
  BY <1>3, <1>5, <1>7 DEF IsSequences
<1>9. PICK at : Blocks(ss, at)
  BY <1>8, FlattenBlocks
<1>10. IsSequence(s) /\ Range1(s) = UNION {Range1(ss[k]) : k \in DOMAIN ss} /\ DOMAIN s = 1..Len(s)
  BY <1>8, FlattenIsOne, SequenceForm
<1>11. \A m \in DOMAIN s : \E k \in DOMAIN Files : \E i \in 1..Len(ss[k]) : s[m] = ss[k][i]
  <2>. TAKE m \in DOMAIN s
  <2>0. \A x \in 1..Len(s) : \E k \in 1..Len(ss) : \E i \in 1..Len(ss[k]) : x = at[k - 1] + i
    BY <1>9, Zenon DEF Blocks
  <2>1. PICK k \in 1..Len(ss) : \E i \in 1..Len(ss[k]) : m = at[k - 1] + i
    BY <1>10, <2>0
  <2>2. PICK i \in 1..Len(ss[k]) : m = at[k - 1] + i
    BY <2>1
  <2>3. s[m] = ss[k][i]
    BY <1>9, <2>2 DEF Blocks
  <2>. QED  BY <1>3, <1>5, <2>3
<1>12. ASSUME NEW k \in DOMAIN Files, NEW i \in 1..Len(ss[k]), NEW j \in 1..Len(ss[k]), i # j
       PROVE  \E m, n \in DOMAIN s : m # n /\ s[m] = ss[k][i] /\ s[n] = ss[k][j]
  <2>. DEFINE m == at[k - 1] + i
              n == at[k - 1] + j
  <2>1. k \in 1..Len(ss)
    BY <1>3, <1>5
  <2>2. at[k - 1] \in Nat /\ m \in 1..Len(s) /\ n \in 1..Len(s) /\ s[m] = ss[k][i] /\ s[n] = ss[k][j]
    BY <1>9, <2>1 DEF Blocks
  <2>3. Len(ss[k]) \in Nat
    BY <1>7, SequenceForm
  <2>4. m # n
    BY <1>12, <2>2, <2>3
  <2>. QED  BY <1>10, <2>2, <2>4
<1>13. \A k \in DOMAIN Files : Range1(ss[k]) \subseteq Range1(s)
  BY <1>4, <1>10
<1>14. \A a \in Range1(s) : a.evidence \subseteq d.evidence
  BY <1>2
<1>15. ASSUME NEW e \in d.evidence
       PROVE  /\ \E k \in DOMAIN Files : Placed(FileOf(k), e)
              /\ e.detector \in Foreign => \E a \in Range1(s) : e \in a.evidence
  <2>1. CASE e \in loose
    <3>1. PICK k \in DOMAIN Files : e \in Loose(FileOf(k))
      BY <2>1 DEF FileOf
    <3>. QED  BY <3>1, LooseIs
  <2>2. CASE e \notin loose
    <3>1. PICK a \in Range1(s) : e \in a.evidence
      BY <1>2, <2>2
    <3>2. PICK k \in DOMAIN Files : a \in Range1(ss[k])
      BY <1>4, <1>10, <3>1
    <3>3. PICK i \in 1..Len(ss[k]) : a = ss[k][i]
      BY <1>7, <3>2 DEF Range1
    <3>4. Placed(FileOf(k), e)
      BY <1>6, <3>1, <3>3 DEF Found, Shown
    <3>. QED  BY <3>1, <3>4
  <2>. QED  BY <2>1, <2>2
<1>16. Artifacts(d) = Range1(s)
  BY <1>2 DEF Artifacts
<1>. HIDE DEF s
<1>17. \A k \in DOMAIN Files : ss[k] = Detect(FileOf(k))
  BY <1>4
<1>18. IsSequence(d.artifacts)
  BY <1>2, <1>10
<1>22. ASSUME NEW m \in DOMAIN d.artifacts
       PROVE  \E k \in DOMAIN Files : \E i \in 1..Len(Detect(FileOf(k))) : d.artifacts[m] = Detect(FileOf(k))[i]
  <2>1. m \in DOMAIN s /\ d.artifacts[m] = s[m]
    BY <1>2
  <2>2. PICK k \in DOMAIN Files : \E i \in 1..Len(ss[k]) : s[m] = ss[k][i]
    BY <1>11, <2>1
  <2>. QED  BY <1>17, <2>1, <2>2
<1>23. ASSUME NEW k \in DOMAIN Files
       PROVE  Range1(Detect(FileOf(k))) \subseteq Artifacts(d)
  <2>1. Detect(FileOf(k)) = ss[k]
    BY <1>17
  <2>. QED  BY <1>13, <1>16, <2>1
<1>19. \A k \in DOMAIN Files : \A i, j \in 1..Len(Detect(FileOf(k))) : i # j =>
          \E m, n \in DOMAIN d.artifacts :
             m # n /\ d.artifacts[m] = Detect(FileOf(k))[i] /\ d.artifacts[n] = Detect(FileOf(k))[j]
  BY <1>2, <1>12, <1>17
<1>20. /\ \A a \in Artifacts(d) : a.evidence \subseteq d.evidence
       /\ \A e \in d.evidence :
          /\ \E k \in DOMAIN Files : Placed(FileOf(k), e)
          /\ e.detector \in Foreign => \E a \in Artifacts(d) : e \in a.evidence
  BY <1>14, <1>15, <1>16
<1>21. Whole(d)
  BY <1>18, <1>22, <1>23, <1>19, <1>20, Zenon DEF Whole
<1>. QED  BY <1>1, <1>21

-----------------------------------------------------------------------------
(* What rules report.                                                       *)

LEMMA Fires ==
    ASSUME NEW a, NEW rules, NEW rule, NEW category, NEW severity, NEW ids,
           <<TRUE, rule, category, severity, ids>> \in rules
    PROVE  Finding(rule, category, severity, a, ids) \in Fire(a, rules)
<1>. DEFINE t == <<TRUE, rule, category, severity, ids>>
<1>1. t[1] = TRUE /\ t[2] = rule /\ t[3] = category /\ t[4] = severity /\ t[5] = ids
  OBVIOUS
<1>2. t \in {u \in rules : u[1]}
  BY <1>1
<1>. HIDE DEF t
<1>. QED  BY <1>1, <1>2 DEF Fire

LEMMA FindingIs ==
    ASSUME NEW rule, NEW category, NEW severity, NEW a, NEW ids
    PROVE  LET g == Finding(rule, category, severity, a, ids)
           IN g.rule = rule /\ g.category = category /\ g.evidence = ids /\ g.artifacts = {a.id}
BY DEF Finding

-----------------------------------------------------------------------------
(* A check that one call lacks.                                             *)

Judged == {"issuer", "audience", "signature_verification", "expiry_enforcement"}

LEMMA WorstIsKept ==
    ASSUME NEW f, NEW group, NEW c \in group, NEW k \in Judged,
           Jwt!Attr(k) \in DOMAIN c.fields, c.fields[Jwt!Attr(k)].state = "missing"
    PROVE  LET a == Jwt!JwtArtifact(f, group)
           IN /\ a.jwt # NoAttributes
              /\ a.jwt[k].state = "missing"
              /\ Jwt!FieldEvidence(f, c, Jwt!Attr(k)).id \in a.jwt[k].ids
<1>. DEFINE a == Jwt!JwtArtifact(f, group)
            x == Jwt!Attr(k)
            o == Jwt!Aggregate(f, group, x)
            calls == {y \in group : x \in DOMAIN y.fields}
            seen == {y.fields[x] : y \in calls}
            ids == {Jwt!FieldEvidence(f, y, x).id : y \in calls}
<1>1. c \in calls
  OBVIOUS
<1>2. seen # {} /\ \E s \in seen : s.state = "missing"
  BY <1>1
<1>3. o.state = "missing" /\ o.ids = ids
  BY <1>2, SMTT(20) DEF Jwt!Aggregate, Jwt!Observation
<1>4. Jwt!FieldEvidence(f, c, x).id \in o.ids
  BY <1>1, <1>3
<1>5. a.jwt = Jwt!JwtObservations(f, group)
  BY DEF Jwt!JwtArtifact, Jwt!Artifact
<1>. HIDE DEF o, a
<1>6. a.jwt[k] = o
  BY <1>5 DEF Jwt!JwtObservations, Jwt!JwtAttribute, Judged, o
<1>7. "operation" \in DOMAIN a.jwt
  BY <1>5 DEF Jwt!JwtObservations, Jwt!JwtAttribute
<1>8. a.jwt # NoAttributes
  BY <1>7 DEF NoAttributes
<1>. QED  BY <1>3, <1>4, <1>6, <1>8 DEF a

LEMMA CheckStages ==
    ASSUME NEW f, NEW c, NEW k \in {"signature_verification", "expiry_enforcement"}
    PROVE  Jwt!FieldEvidence(f, c, Jwt!Attr(k)).stage = "validate"
<1>1. Jwt!Attr(k) # Jwt!Attr("expiration")
  BY DEF Jwt!Attr
<1>2. \A s : Jwt!FieldStage(Jwt!Attr(k), s) = "validate"
  BY <1>1 DEF Jwt!FieldStage
<1>. QED  BY <1>2 DEF Jwt!FieldEvidence, Jwt!EvidenceAt

LEMMA CheckIsSeen ==
    ASSUME NEW f, NEW group, NEW c \in group, GoodCall(c), NEW k \in Judged,
           Jwt!Attr(k) \in DOMAIN c.fields, c.fields[Jwt!Attr(k)].state = "missing"
    PROVE  k = "signature_verification" \/ Validating(Jwt!JwtArtifact(f, group)) # {}
<1>. DEFINE a == Jwt!JwtArtifact(f, group)
            j == IF k = "expiry_enforcement" THEN k ELSE "signature_verification"
            e == Jwt!FieldEvidence(f, c, Jwt!Attr(j))
<1>1. Jwt!Attr(j) \in DOMAIN c.fields
  BY DEF GoodCall, Judged
<1>2. a.evidence = UNION {{Jwt!OperationEvidence(f, y)} \cup {Jwt!FieldEvidence(f, y, x) : x \in DOMAIN y.fields} :
                            y \in group}
  BY DEF Jwt!JwtArtifact, Jwt!Artifact
<1>3. e \in a.evidence
  BY <1>1, <1>2
<1>4. e.stage = "validate"
  BY CheckStages
<1>. HIDE DEF a, e
<1>. QED  BY <1>3, <1>4 DEF Validating, Ids, In, a

LEMMA LackIsReported ==
    ASSUME NEW d, NEW a \in Artifacts(d), a.jwt # NoAttributes, NEW k \in Judged,
           a.jwt[k].state = "missing", a.jwt[k].ids # {},
           k = "signature_verification" \/ Validating(a) # {}
    PROVE  \E g \in JwtFindings(d) : /\ g.category \in {Misconfigured, MissingCheck}
                                     /\ g.evidence = a.jwt[k].ids
<1>. DEFINE ids == a.jwt[k].ids
<1>0. \A fallback : Fallback(ids, fallback) = ids
  BY DEF Fallback
<1>1. CASE k = "signature_verification"
  <2>. DEFINE g == Finding("jwt_decode_without_verify", Misconfigured, "high", a, ids)
  <2>. DEFINE o == a.jwt["signature_verification"]
              rules == {<<\/ "decode_without_verify" \in a.jwt["operation"].value
                          \/ o.state = "missing",
                          "jwt_decode_without_verify", Misconfigured, "high", Fallback(o.ids, Inspecting(a))>>}
  <2>1. <<TRUE, "jwt_decode_without_verify", Misconfigured, "high", ids>> \in rules
    BY <1>0, <1>1
  <2>5. DecodeRules(a) = Fire(a, rules)
    BY DEF DecodeRules
  <2>. HIDE DEF rules
  <2>2. g \in DecodeRules(a)
    BY <2>1, <2>5, Fires
  <2>3. g \in JwtFindings(d)
    BY <2>2 DEF JwtFindings
  <2>4. g.category = Misconfigured /\ g.evidence = ids
    BY FindingIs
  <2>. QED  BY <2>3, <2>4
<1>2. CASE k = "expiry_enforcement" /\ Validating(a) # {}
  <2>. DEFINE g == Finding("jwt_expiry_enforcement_disabled", Misconfigured, "high", a, ids)
              o == a.jwt["expiry_enforcement"]
              fallen == Fallback(o.ids, Validating(a))
              rules == {<<o.state = "missing", "jwt_expiry_enforcement_disabled", Misconfigured, "high", fallen>>,
                        <<o.state = "dynamic", "jwt_dynamic_expiry_enforcement", Review, "medium", fallen>>,
                        <<o.state = "framework_default", "jwt_default_expiry_enforcement", Assumed, "low", fallen>>}
  <2>1. <<TRUE, "jwt_expiry_enforcement_disabled", Misconfigured, "high", ids>> \in rules
    BY <1>0, <1>2
  <2>5. ExpiryEnforcementRules(a) = Fire(a, rules)
    BY DEF ExpiryEnforcementRules
  <2>. HIDE DEF rules
  <2>2. g \in ExpiryEnforcementRules(a)
    BY <2>1, <2>5, Fires
  <2>3. g \in JwtFindings(d)
    BY <1>2, <2>2 DEF JwtFindings
  <2>4. g.category = Misconfigured /\ g.evidence = ids
    BY FindingIs
  <2>. QED  BY <2>3, <2>4
<1>3. CASE k \in {"issuer", "audience"} /\ Validating(a) # {}
  <2>. DEFINE missing == IF k = "issuer" THEN "jwt_missing_issuer" ELSE "jwt_missing_audience"
              dynamic == IF k = "issuer" THEN "jwt_dynamic_issuer" ELSE "jwt_dynamic_audience"
              g == Finding(missing, MissingCheck, "medium", a, ids)
              o == a.jwt[k]
              fallen == Fallback(o.ids, Validating(a))
              rules == {<<o.state = "missing", missing, MissingCheck, "medium", fallen>>,
                        <<o.state = "dynamic", dynamic, Review, "medium", fallen>>}
  <2>. HIDE DEF missing, dynamic
  <2>1. <<TRUE, missing, MissingCheck, "medium", ids>> \in rules
    BY <1>0
  <2>5. ValidationRules(a, o, missing, dynamic) = Fire(a, rules)
    BY DEF ValidationRules
  <2>. HIDE DEF rules
  <2>2. g \in ValidationRules(a, o, missing, dynamic)
    BY <2>1, <2>5, Fires
  <2>3. g \in JwtFindings(d)
    BY <1>3, <2>2 DEF JwtFindings, missing, dynamic
  <2>4. g.category = MissingCheck /\ g.evidence = ids
    BY FindingIs
  <2>. QED  BY <2>3, <2>4
<1>. QED  BY <1>1, <1>2, <1>3 DEF Judged

LEMMA WrittenReportsTheWorst ==
    ASSUME Written
    PROVE  WorstCallCounts
<1>. DEFINE d == Detected(code, DOMAIN Files)
<1>1. report.findings = Classified(d) /\ Whole(d)
  BY TheReport
<1>. HIDE DEF d
<1>2. SUFFICES ASSUME NEW k \in DOMAIN Files, NEW c \in Range1(Jwt!JwtCalls(FileOf(k))), NEW j \in Judged,
                      Jwt!Attr(j) \in DOMAIN c.fields, c.fields[Jwt!Attr(j)].state = "missing"
               PROVE  \E g \in report.findings : /\ g.category \in {Misconfigured, MissingCheck}
                                                 /\ Cites(g, Jwt!FieldEvidence(FileOf(k), c, Jwt!Attr(j)))
  BY DEF WorstCallCounts, Judged
<1>. DEFINE f == FileOf(k)
            e == Jwt!FieldEvidence(f, c, Jwt!Attr(j))
<1>3. IsRead(f) /\ IsFile(f)
  BY DEF Written, IsRead
<1>4. GoodCall(c)
  BY <1>3, JwtCallsAreGood
<1>5. PICK group : c \in group /\ Jwt!JwtArtifact(f, group) \in Range1(Detect(f))
  BY <1>3, DetectIs
<1>. DEFINE a == Jwt!JwtArtifact(f, group)
<1>6. a \in Artifacts(d)
  BY <1>1, <1>5 DEF Whole
<1>7. a.jwt # NoAttributes /\ a.jwt[j].state = "missing" /\ e.id \in a.jwt[j].ids
  BY <1>2, <1>5, WorstIsKept
<1>8. j = "signature_verification" \/ Validating(a) # {}
  BY <1>2, <1>4, <1>5, CheckIsSeen
<1>. HIDE DEF a, e
<1>9. PICK g \in JwtFindings(d) : g.category \in {Misconfigured, MissingCheck} /\ g.evidence = a.jwt[j].ids
  BY <1>6, <1>7, <1>8, LackIsReported
<1>10. g \in report.findings
  BY <1>1, <1>9 DEF Classified, FileFindings
<1>11. Cites(g, e)
  BY <1>7, <1>9 DEF Cites
<1>. QED  BY <1>9, <1>10, <1>11 DEF e

\* The calls of one name in a file are one JWT; a check that one of them lacks is
\* reported with that call (WorstCallCounts), in whatever repository and whatever
\* else is written to it.
THEOREM AuditWorstCall == Spec => []WorstCallCounts
<1>1. Written => WorstCallCounts
  BY WrittenReportsTheWorst
<1>. QED  BY <1>1, AuditWritten, PTL

-----------------------------------------------------------------------------
(* Which family of rules reports what.                                      *)

Watched == {"bearer_token_browser_storage", "token_in_local_storage", "token_in_session_storage",
            "cookie_conflicting_writes_review"}
Unwatched(G) == \A g \in G : g.rule \notin Watched

LEMMA UnwatchedFire ==
    ASSUME NEW a, NEW rules, \A t \in rules : t[2] \notin Watched
    PROVE  Unwatched(Fire(a, rules))
BY DEF Unwatched, Fire, Finding

LEMMA FireOne ==
    ASSUME NEW a, NEW b, NEW rule, NEW category, NEW severity, NEW ids,
           NEW g \in Fire(a, {<<b, rule, category, severity, ids>>})
    PROVE  b /\ g = Finding(rule, category, severity, a, ids)
<1>. DEFINE t == <<b, rule, category, severity, ids>>
<1>1. t[1] = b /\ t[2] = rule /\ t[3] = category /\ t[4] = severity /\ t[5] = ids
  OBVIOUS
<1>. HIDE DEF t
<1>2. \E u \in {t} : u[1] /\ g = Finding(u[2], u[3], u[4], a, u[5])
  BY DEF Fire, t
<1>3. t[1] /\ g = Finding(t[2], t[3], t[4], a, t[5])
  BY <1>2
<1>. QED  BY <1>1, <1>3

LEMMA CookieRulesAre == 
    ASSUME NEW r, NEW g \in CookieFindings(r), g.rule \in Watched
    PROVE  g \in ConflictRules(r)
<1>1. ASSUME NEW a PROVE Unwatched(PrefixRules(a))
  <2>. DEFINE p == Prefix(a.name)
              host == p = "__Host-"
              path == a.cookie.path
              domain == a.cookie.domain
              secure == a.cookie.secure
              secureRule == IF host THEN "cookie_host_prefix_secure_violation"
                            ELSE "cookie_secure_prefix_secure_violation"
              wrongPath == host /\ ((Literal(path) /\ path.value # "/") \/ IsMissing(path))
              otherPath == host /\ IsDynamic(path)
              wrongDomain == host /\ IsPresent(domain)
              otherDomain == host /\ IsDynamic(domain)
              notSecure == p # "no prefix" /\ IsMissing(secure)
              otherSecure == p # "no prefix" /\ (IsDynamic(secure) \/ IsDefault(secure))
              rules ==
                {<<wrongPath, "cookie_host_prefix_path_violation", Misconfigured, "high", WithPrefix(a, path)>>,
                 <<otherPath, "cookie_host_prefix_path_violation", Review, "medium", WithPrefix(a, path)>>,
                 <<wrongDomain, "cookie_host_prefix_domain_violation", Misconfigured, "high", WithPrefix(a, domain)>>,
                 <<otherDomain, "cookie_host_prefix_domain_violation", Review, "medium", WithPrefix(a, domain)>>,
                 <<notSecure, secureRule, Misconfigured, "high", WithPrefix(a, secure)>>,
                 <<otherSecure, secureRule, Review, "medium", WithPrefix(a, secure)>>}
  <2>1. PrefixRules(a) = Fire(a, rules)
    BY DEF PrefixRules
  <2>2. secureRule \notin Watched
    BY DEF Watched
  <2>. HIDE DEF secureRule, wrongPath, otherPath, wrongDomain, otherDomain, notSecure, otherSecure
  <2>3. \A t \in rules : t[2] \notin Watched
    BY <2>2 DEF Watched
  <2>. HIDE DEF rules
  <2>. QED  BY <2>1, <2>3, UnwatchedFire
<1>2. \A a : Unwatched(SameSiteRules(a))
  BY DEF Unwatched, SameSiteRules, Fire, Finding, Watched
<1>3. \A a : Unwatched(LifetimeRules(a))
  BY DEF Unwatched, LifetimeRules, Fire, Finding, Watched
<1>4. ASSUME NEW a, NEW x \in PartitionedRules(a) PROVE x.rule \notin Watched
  <2>1. \E e : x = Finding("cookie_partitioned_review", Review, "low", a, {e.id})
    BY DEF PartitionedRules
  <2>2. x.rule = "cookie_partitioned_review"
    BY <2>1, FindingIs
  <2>. QED  BY <2>2 DEF Watched
<1>5. \A a : Unwatched(ScopeRules(a))
  BY DEF Unwatched, ScopeRules, Fire, Finding, Watched
<1>6. \A a : Unwatched(HttpOnlyRules(a)) /\ Unwatched(SecureRules(a))
  BY DEF Unwatched, HttpOnlyRules, SecureRules, FlagRules, Fire, Finding, Watched
<1>7. \A a : Unwatched(ExpiryRules(a))
  BY DEF Unwatched, ExpiryRules, Fire, Finding, Watched
<1>. QED
  BY <1>1, <1>2, <1>3, <1>4, <1>5, <1>6, <1>7 DEF CookieFindings, Unwatched

LEMMA JwtRulesAre == \A r : Unwatched(JwtFindings(r))
<1>1. ASSUME NEW a, NEW g \in DecodeRules(a) PROVE g.rule \notin Watched
  <2>. DEFINE b == \/ "decode_without_verify" \in a.jwt["operation"].value
                   \/ a.jwt["signature_verification"].state = "missing"
              ids == Fallback(a.jwt["signature_verification"].ids, Inspecting(a))
  <2>1. g \in Fire(a, {<<b, "jwt_decode_without_verify", Misconfigured, "high", ids>>})
    BY DEF DecodeRules
  <2>. HIDE DEF b, ids
  <2>2. g = Finding("jwt_decode_without_verify", Misconfigured, "high", a, ids)
    BY <2>1, FireOne
  <2>. QED  BY <2>2 DEF Finding, Watched
<1>2. \A a : Unwatched(AlgNoneRules(a))
  BY DEF Unwatched, AlgNoneRules, Fire, Finding, Watched
<1>3. \A a : Unwatched(AlgConfusionRules(a))
  BY DEF Unwatched, AlgConfusionRules, Fire, Finding, Watched
<1>4. \A a : Unwatched(HeaderTrustRules(a))
  BY DEF Unwatched, HeaderTrustRules, Fire, Finding, Watched
<1>5. ASSUME NEW a PROVE Unwatched(NbfClockKidRules(a))
  <2>. DEFINE nbf == Bound(a, "jwt.option.ignore_not_before")
              clock == Bound(a, "jwt.option.clock_tolerance")
              kid == Bound(a, "jwt.header.kid")
              ignored == nbf = {} \/ (\E e \in nbf : Ignores(e))
              broad == \E e \in clock : Broad(e)
              unvouched == kid # {} /\ ~TrustedKid(a)
              rules ==
                {<<ignored, "jwt_nbf_missing", MissingCheck, "low", Fallback(Ids(nbf), Validating(a))>>,
                 <<broad, "jwt_clock_skew_review", Review, "medium", Ids(clock)>>,
                 <<unvouched, "jwt_kid_unvalidated_review", MissingCheck, "medium", Ids(kid)>>}
  <2>1. NbfClockKidRules(a) = Fire(a, rules)
    BY DEF NbfClockKidRules
  <2>. HIDE DEF ignored, broad, unvouched
  <2>2. \A t \in rules : t[2] \notin Watched
    BY DEF Watched
  <2>. HIDE DEF rules
  <2>. QED  BY <2>1, <2>2, UnwatchedFire
<1>6. \A a, o, x, y : x \notin Watched /\ y \notin Watched => Unwatched(ValidationRules(a, o, x, y))
  BY DEF Unwatched, ValidationRules, Fire, Finding
<1>7. \A a : Unwatched(ExpirationRules(a))
  BY DEF Unwatched, ExpirationRules, Fire, Finding, Watched
<1>8. \A a : Unwatched(ExpiryEnforcementRules(a))
  BY DEF Unwatched, ExpiryEnforcementRules, Fire, Finding, Watched
<1>9. \A a : /\ Unwatched(ValidationRules(a, a.jwt["issuer"], "jwt_missing_issuer", "jwt_dynamic_issuer"))
             /\ Unwatched(ValidationRules(a, a.jwt["audience"], "jwt_missing_audience", "jwt_dynamic_audience"))
  BY <1>6 DEF Watched
<1>. QED
  BY <1>1, <1>2, <1>3, <1>4, <1>5, <1>7, <1>8, <1>9 DEF JwtFindings, Unwatched

LEMMA FlowRulesAre == \A r : Unwatched(OAuthFindings(r))
<1>1. ASSUME NEW a, NEW t \in FlowRules(a) PROVE t[2] \notin Watched
  BY <1>1 DEF FlowRules, Watched
<1>2. \A a : Unwatched(Fire(a, FlowRules(a)))
  BY <1>1, UnwatchedFire
<1>. QED  BY <1>2 DEF OAuthFindings, Unwatched

LEMMA QueryRulesAre == \A r : Unwatched(QueryFindings(r))
<1>1. \A a, E : QueryRule(a, E)[1] \notin Watched
  BY DEF QueryRule, Watched
<1>2. ASSUME NEW r, NEW g \in QueryFindings(r)
      PROVE  \E a, x, y, ids : \E E : g = Finding(QueryRule(a, E)[1], x, y, a, ids)
  BY <1>2 DEF QueryFindings
<1>. QED  BY <1>1, <1>2, FindingIs DEF Unwatched

LEMMA FixationRulesAre == \A r : Unwatched(FixationFindings(r))
<1>1. \A r, t, s : FixationFinding(r, t, s).rule \notin Watched
  BY DEF FixationFinding, LoginRule, PrivilegeRule, Watched
<1>. QED  BY <1>1 DEF FixationFindings, Unwatched

LEMMA TrustRulesAre == \A r : Unwatched(TrustFindings(r))
<1>1. ASSUME NEW g, NEW t \in TrustRule(g) PROVE t[2] \notin Watched
  <2>. DEFINE across == Inbound(g) \cup Outbound(g)
              reused == Inbound(g) # {} /\ Outbound(g) # {} /\ ~Constrained(g, across)
              exposed == Cardinality(Ids(g.artifacts)) >= 2 /\ Frontend(g) /\ Backend(g)
              moved == \/ Cardinality(Environments(g)) >= 2
                       \/ Cardinality(Of(g.evidence, {"bearer.boundary.environment"})) >= 2
              managed == Managed(g) # {} /\ ~Constrained(g, Managed(g))
              described == Metadata(g) # {} /\ ~Constrained(g, Metadata(g))
  <2>1. t \in {<<reused, "trust_boundary_inbound_outbound_reuse_review", "medium", across>>,
               <<exposed, "trust_boundary_frontend_backend_reuse_review", "low", BoundaryEvidence(g)>>,
               <<moved, "trust_boundary_environment_reuse_review", "low", BoundaryEvidence(g)>>,
               <<managed, "trust_boundary_provider_scope_review", "low", Managed(g)>>,
               <<described, "trust_boundary_metadata_review", "low", Metadata(g)>>}
    BY <1>1 DEF TrustRule
  <2>. HIDE DEF across, reused, exposed, moved, managed, described
  <2>. QED  BY <2>1 DEF Watched
<1>2. \A g, t : TrustFinding(g, t).rule = t[2]
  BY DEF TrustFinding
<1>. QED  BY <1>1, <1>2 DEF TrustFindings, Unwatched

LEMMA BearerRulesAre ==
    ASSUME NEW r, NEW g \in BearerFindings(r), g.rule \in Watched
    PROVE  \E c \in Contexts(r) : \E e \in Of(c.evidence, {"bearer.store.browser"}) :
              ~StoredHere(r, e) /\ g = Finding("bearer_token_browser_storage", Misconfigured, "high", c.artifact, {e.id})
<1>1. ASSUME NEW a, NEW E PROVE Unwatched(ContextRules(r, a, E))
  <2>. DEFINE known == E \cup RelatedEvidence(r, a)
              inbound == Of(E, {"bearer.read.inbound"})
              issued == a.type \in IssuedToken /\ LocalLifecycle(E)
              unvalidated == inbound # {} /\ ~HasStage(known, "validate")
              unexpired == issued /\ ~HasStage(known, "expire")
              unrotated == issued /\ ~HasStage(known, "refresh") /\ ~HasStage(known, "revoke")
              unscoped == /\ a.type \in IssuedToken \cup {"OpaqueBearerToken"}
                          /\ HasStage(E, "issue") \/ HasDetector(E, "bearer.transmit")
                          /\ ~HasDetector(known, "bearer.scope")
              dynamic == DynamicEvidence(E) # {}
              handed == Ids(In(E, {"issue", "store"}))
              sent == Ids(In(E, {"issue", "transmit"}))
              rules ==
                {<<unvalidated, "bearer_missing_validation", MissingCheck, "medium", Ids(inbound)>>,
                 <<unexpired, "bearer_issue_without_expiry", Gap, "low", handed>>,
                 <<unrotated, "bearer_missing_rotation_or_revocation", Gap, "low", handed>>,
                 <<unscoped, "bearer_missing_scope_evidence", MissingCheck, "low", sent>>,
                 <<dynamic, "bearer_dynamic_provider_review", Review, "low", Ids(DynamicEvidence(E))>>}
  <2>1. ContextRules(r, a, E) = Fire(a, rules)
    BY DEF ContextRules
  <2>. HIDE DEF unvalidated, unexpired, unrotated, unscoped, dynamic, handed, sent
  <2>2. \A t \in rules : t[2] \notin Watched
    BY DEF Watched
  <2>. HIDE DEF rules
  <2>. QED  BY <2>1, <2>2, UnwatchedFire
<1>2. PICK c \in Contexts(r) : g \in DeterministicRules(r, c.artifact, c.evidence)
  BY <1>1 DEF BearerFindings, Unwatched
<1>. DEFINE a == c.artifact
            risk(d, rule) == UNION {Fire(a, {<<TRUE, rule, Misconfigured, "high", {e.id}>>}) : e \in Of(c.evidence, {d})}
<1>3. \A d, rule : rule \notin Watched => Unwatched(risk(d, rule))
  <2>1. ASSUME NEW ids, NEW rule, rule \notin Watched
        PROVE  Unwatched(Fire(a, {<<TRUE, rule, Misconfigured, "high", ids>>}))
    <3>1. ASSUME NEW x \in Fire(a, {<<TRUE, rule, Misconfigured, "high", ids>>}) PROVE x.rule \notin Watched
      <4>1. x = Finding(rule, Misconfigured, "high", a, ids)
        BY <3>1, FireOne, Zenon
      <4>. QED  BY <2>1, <4>1, FindingIs
    <3>. QED  BY <3>1 DEF Unwatched
  <2>. QED  BY <2>1 DEF Unwatched
<1>4. /\ Unwatched(risk("bearer.transmit.url_query", "bearer_token_in_url_query"))
      /\ Unwatched(risk("bearer.literal.static", "bearer_static_secret_literal"))
      /\ Unwatched(risk("bearer.store.public_config", "bearer_public_runtime_config_exposure"))
      /\ Unwatched(risk("bearer.store.frontend_bundle", "bearer_frontend_bundle_exposure"))
  <2>1. /\ "bearer_token_in_url_query" \notin Watched /\ "bearer_static_secret_literal" \notin Watched
        /\ "bearer_public_runtime_config_exposure" \notin Watched
        /\ "bearer_frontend_bundle_exposure" \notin Watched
    BY DEF Watched
  <2>. HIDE DEF risk
  <2>. QED  BY <1>3, <2>1
<1>. DEFINE fired(e) == Fire(a, {<<~StoredHere(r, e), "bearer_token_browser_storage", Misconfigured, "high", {e.id}>>})
<1>5. DeterministicRules(r, a, c.evidence) =
        risk("bearer.transmit.url_query", "bearer_token_in_url_query")
        \cup risk("bearer.literal.static", "bearer_static_secret_literal")
        \cup risk("bearer.store.public_config", "bearer_public_runtime_config_exposure")
        \cup risk("bearer.store.frontend_bundle", "bearer_frontend_bundle_exposure")
        \cup UNION {fired(e) : e \in Of(c.evidence, {"bearer.store.browser"})}
  BY DEF DeterministicRules
<1>. HIDE DEF risk
<1>6. PICK e \in Of(c.evidence, {"bearer.store.browser"}) : g \in fired(e)
  BY <1>2, <1>4, <1>5 DEF Unwatched
<1>7. ~StoredHere(r, e) /\ g = Finding("bearer_token_browser_storage", Misconfigured, "high", a, {e.id})
  <2>. DEFINE b == ~StoredHere(r, e)
              ids == {e.id}
  <2>1. g \in Fire(a, {<<b, "bearer_token_browser_storage", Misconfigured, "high", ids>>})
    BY <1>6
  <2>. HIDE DEF a, b, ids
  <2>2. b /\ g = Finding("bearer_token_browser_storage", Misconfigured, "high", a, ids)
    BY <2>1, FireOne, Zenon
  <2>. QED  BY <2>2 DEF b, ids
<1>. QED  BY <1>6, <1>7

LEMMA StorageRulesAre ==
    ASSUME NEW r, NEW g \in StorageFindings(r), g.rule \in Watched
    PROVE  /\ g.rule \in {"token_in_local_storage", "token_in_session_storage"}
           /\ \E e \in AllEvidence(r) :
                 /\ e.detector \in {"client_storage.local_storage.set_item", "client_storage.session_storage.set_item"}
                 /\ g.evidence = {e.id}
<1>1. PICK rule \in Range1(StorageRule), e \in AllEvidence(r) :
         e.detector = rule[1] /\ g.rule = rule[2] /\ g.evidence = {e.id}
  BY DEF StorageFindings
<1>2. PICK k \in 1..4 : rule = StorageRule[k]
  BY <1>1 DEF Range1, StorageRule
<1>3. /\ StorageRule[1][1] = "client_storage.local_storage.set_item" /\ StorageRule[1][2] = "token_in_local_storage"
      /\ StorageRule[2][1] = "client_storage.session_storage.set_item" /\ StorageRule[2][2] = "token_in_session_storage"
      /\ StorageRule[3][2] \notin Watched /\ StorageRule[4][2] \notin Watched
  BY DEF StorageRule, Watched
<1>4. k \in {1, 2}
  BY <1>1, <1>2, <1>3
<1>. QED  BY <1>1, <1>2, <1>3, <1>4

-----------------------------------------------------------------------------
(* One report for what is stored in the browser.                            *)

LEMMA ContextOf ==
    ASSUME NEW r, NEW a \in Artifacts(r), a.type \in BearerLike
    PROVE  \E c \in Contexts(r) : a.evidence \subseteq c.evidence
<1>. DEFINE same(i) == {k \in DOMAIN r.artifacts : r.artifacts[k].id = i /\ r.artifacts[k].type \in BearerLike}
            of(i) == [artifact |-> r.artifacts[Least(same(i))],
                      evidence |-> UNION {r.artifacts[k].evidence : k \in same(i)}]
<1>1. of(a.id) \in Contexts(r)
  BY Zenon DEF Contexts
<1>2. PICK m \in DOMAIN r.artifacts : a = r.artifacts[m]
  BY DEF Artifacts, Range1
<1>3. m \in same(a.id)
  BY <1>2
<1>4. a.evidence \subseteq of(a.id).evidence
  BY <1>2, <1>3
<1>. QED  BY <1>1, <1>4

LEMMA ContextHolds ==
    ASSUME NEW r, NEW c \in Contexts(r), NEW e \in c.evidence
    PROVE  \E a \in Artifacts(r) : e \in a.evidence
<1>. DEFINE same(i) == {k \in DOMAIN r.artifacts : r.artifacts[k].id = i /\ r.artifacts[k].type \in BearerLike}
            of(i) == [artifact |-> r.artifacts[Least(same(i))],
                      evidence |-> UNION {r.artifacts[k].evidence : k \in same(i)}]
<1>1. PICK i : c = of(i)
  BY DEF Contexts
<1>2. PICK k \in same(i) : e \in r.artifacts[k].evidence
  BY <1>1
<1>. QED  BY <1>2 DEF Artifacts, Range1

\* Evidence of one id is of one place.
LEMMA PlaceOfId ==
    ASSUME NEW d, Whole(d), NEW e \in d.evidence, NEW x \in d.evidence, e.id = x.id,
           x.detector # "cookie.conflicting_writes"
    PROVE  e.file = x.file /\ e.line = x.line /\ e.detector = x.detector
<1>1. PICK k \in DOMAIN Files : Placed(FileOf(k), e)
  BY DEF Whole
<1>2. PICK j \in DOMAIN Files : Placed(FileOf(j), x)
  BY DEF Whole
<1>. QED  BY <1>1, <1>2 DEF Placed

LEMMA WatchedFindings ==
    ASSUME NEW d, NEW g \in Classified(d), g.rule \in Watched
    PROVE  \/ g \in ConflictRules(d) /\ g.rule = "cookie_conflicting_writes_review"
           \/ g \in BearerFindings(d) /\ g.rule = "bearer_token_browser_storage"
           \/ g \in StorageFindings(d) /\ g.rule \in {"token_in_local_storage", "token_in_session_storage"}
<1>1. g \in CookieFindings(d) \/ g \in StorageFindings(d) \/ g \in BearerFindings(d)
  BY JwtRulesAre, FlowRulesAre, QueryRulesAre, FixationRulesAre, TrustRulesAre
     DEF Classified, FileFindings, Unwatched
<1>2. CASE g \in CookieFindings(d)
  <2>1. g \in ConflictRules(d)
    BY <1>2, CookieRulesAre
  <2>2. g.rule = "cookie_conflicting_writes_review"
    BY <2>1, FindingIs DEF ConflictRules, Finding
  <2>. QED  BY <2>1, <2>2
<1>3. CASE g \in BearerFindings(d)
  <2>1. PICK c \in Contexts(d) : \E e \in Of(c.evidence, {"bearer.store.browser"}) :
          g = Finding("bearer_token_browser_storage", Misconfigured, "high", c.artifact, {e.id})
    BY <1>3, BearerRulesAre
  <2>. QED  BY <1>3, <2>1, FindingIs
<1>4. CASE g \in StorageFindings(d)
  BY <1>4, StorageRulesAre
<1>. QED  BY <1>1, <1>2, <1>3, <1>4

LEMMA StoredIsReported ==
    ASSUME NEW d, NEW e \in d.evidence,
           e.detector \in {"client_storage.local_storage.set_item", "client_storage.session_storage.set_item"}
    PROVE  \E g \in StorageFindings(d) :
              g.rule \in {"token_in_local_storage", "token_in_session_storage"} /\ g.evidence = {e.id}
<1>. DEFINE k == IF e.detector = "client_storage.local_storage.set_item" THEN 1 ELSE 2
            rule == StorageRule[k]
            g == [rule |-> rule[2], category |-> rule[3], severity |-> "high",
                  artifacts |-> {a.id : a \in {b \in Artifacts(d) : e \in b.evidence}},
                  evidence |-> {e.id}, id |-> <<rule[2], e.id, e.file>>]
<1>1. rule \in Range1(StorageRule) /\ rule[1] = e.detector
      /\ rule[2] \in {"token_in_local_storage", "token_in_session_storage"}
  BY DEF StorageRule, Range1
<1>2. g.rule = rule[2] /\ g.evidence = {e.id}
  OBVIOUS
<1>. DEFINE of(x) == {[rule |-> x[2], category |-> x[3], severity |-> "high",
                       artifacts |-> {a.id : a \in {b \in Artifacts(d) : y \in b.evidence}},
                       evidence |-> {y.id}, id |-> <<x[2], y.id, y.file>>] :
                        y \in {f \in AllEvidence(d) : f.detector = x[1]}}
<1>. HIDE DEF rule
<1>4. e \in {f \in AllEvidence(d) : f.detector = rule[1]}
  BY <1>1 DEF AllEvidence
<1>5. g \in of(rule)
  BY <1>4
<1>6. StorageFindings(d) = UNION {of(x) : x \in Range1(StorageRule)}
  BY DEF StorageFindings
<1>. HIDE DEF of, g
<1>3. g \in StorageFindings(d)
  BY <1>1, <1>5, <1>6
<1>. QED  BY <1>1, <1>2, <1>3 DEF g

LEMMA KeptIsReported ==
    ASSUME NEW d, NEW a \in Artifacts(d), a.type \in BearerLike, NEW e \in a.evidence,
           e.detector = "bearer.store.browser", ~StoredHere(d, e)
    PROVE  \E g \in BearerFindings(d) : g.rule = "bearer_token_browser_storage" /\ g.evidence = {e.id}
<1>1. PICK c \in Contexts(d) : a.evidence \subseteq c.evidence
  BY ContextOf
<1>. DEFINE b == ~StoredHere(d, e)
            ids == {e.id}
            rules == {<<b, "bearer_token_browser_storage", Misconfigured, "high", ids>>}
            g == Finding("bearer_token_browser_storage", Misconfigured, "high", c.artifact, ids)
<1>2. <<TRUE, "bearer_token_browser_storage", Misconfigured, "high", ids>> \in rules
  OBVIOUS
<1>3. e \in Of(c.evidence, {"bearer.store.browser"})
  BY <1>1 DEF Of
<1>4. Fire(c.artifact, rules) \subseteq DeterministicRules(d, c.artifact, c.evidence)
  BY <1>3 DEF DeterministicRules
<1>. HIDE DEF rules
<1>5. g \in Fire(c.artifact, rules)
  BY <1>2, Fires
<1>6. g \in BearerFindings(d)
  BY <1>4, <1>5 DEF BearerFindings
<1>7. g.rule = "bearer_token_browser_storage" /\ g.evidence = {e.id}
  BY FindingIs
<1>. QED  BY <1>6, <1>7

LEMMA WrittenStoresOnce ==
    ASSUME Written
    PROVE  OneStorageReport
<1>. DEFINE d == Detected(code, DOMAIN Files)
<1>1. report.findings = Classified(d) /\ report.evidence = d.evidence /\ Whole(d)
  BY TheReport
<1>. HIDE DEF d
<1>. DEFINE here(e, rules) == {g \in Told(rules) :
                                \E x \in report.evidence : Cites(g, x) /\ x.file = e.file /\ x.line = e.line}
            kept == {"bearer_token_browser_storage"}
            stored == {"token_in_local_storage", "token_in_session_storage"}
<1>2. SUFFICES ASSUME NEW e \in Of(report.evidence, {"bearer.store.browser"})
               PROVE  (here(e, kept) = {}) # (here(e, stored) = {})
  BY DEF OneStorageReport
<1>3. e \in d.evidence /\ e.detector = "bearer.store.browser"
  BY <1>1, <1>2 DEF Of
<1>4. ASSUME NEW g, NEW rules, NEW x \in d.evidence, g \in report.findings, g.rule \in rules, g.evidence = {x.id},
             x.file = e.file, x.line = e.line
      PROVE  g \in here(e, rules)
  BY <1>1, <1>4 DEF Told, Cites
<1>5. ASSUME StoredHere(d, e) PROVE here(e, stored) # {}
  <2>1. PICK x \in d.evidence :
           /\ x.detector \in {"client_storage.local_storage.set_item", "client_storage.session_storage.set_item"}
           /\ x.file = e.file /\ x.line = e.line
    BY <1>5 DEF StoredHere, AllEvidence
  <2>2. PICK g \in StorageFindings(d) : g.rule \in stored /\ g.evidence = {x.id}
    BY <2>1, StoredIsReported
  <2>3. g \in report.findings
    BY <1>1, <2>2 DEF Classified, FileFindings
  <2>. QED  BY <1>4, <2>1, <2>2, <2>3
<1>6. ASSUME NEW g \in here(e, stored) PROVE StoredHere(d, e)
  <2>1. PICK x \in d.evidence : Cites(g, x) /\ x.file = e.file /\ x.line = e.line
    BY <1>1, <1>6
  <2>2. g \in Classified(d) /\ g.rule \in stored
    BY <1>1, <1>6 DEF Told
  <2>3. g \in StorageFindings(d) /\ g.rule \in Watched
    BY <2>2, WatchedFindings DEF Watched
  <2>4. PICK y \in d.evidence :
           /\ y.detector \in {"client_storage.local_storage.set_item", "client_storage.session_storage.set_item"}
           /\ g.evidence = {y.id}
    BY <2>3, StorageRulesAre DEF AllEvidence
  <2>5. x.id = y.id
    BY <2>1, <2>4 DEF Cites
  <2>6. x.file = y.file /\ x.line = y.line
    BY <1>1, <2>4, <2>5, PlaceOfId
  <2>. QED  BY <2>1, <2>4, <2>6 DEF StoredHere, AllEvidence
<1>7. ASSUME ~StoredHere(d, e) PROVE here(e, kept) # {}
  <2>1. PICK a \in Artifacts(d) : e \in a.evidence
    BY <1>1, <1>3 DEF Whole, Foreign, Alien
  <2>2. PICK m \in DOMAIN d.artifacts : a = d.artifacts[m]
    BY <2>1 DEF Artifacts, Range1
  <2>3. PICK k \in DOMAIN Files : \E i \in 1..Len(Detect(FileOf(k))) : a = Detect(FileOf(k))[i]
    BY <1>1, <2>2 DEF Whole
  <2>4. Found(FileOf(k), Detect(FileOf(k)), Cookie!CookieCalls(FileOf(k)))
    BY DetectIs DEF Written
  <2>5. a.type \in BearerLike
    BY <1>3, <2>1, <2>3, <2>4 DEF Found
  <2>6. PICK g \in BearerFindings(d) : g.rule = "bearer_token_browser_storage" /\ g.evidence = {e.id}
    BY <1>3, <1>7, <2>1, <2>5, KeptIsReported
  <2>7. g \in report.findings
    BY <1>1, <2>6 DEF Classified
  <2>. QED  BY <1>3, <1>4, <2>6, <2>7
<1>8. ASSUME NEW g \in here(e, kept) PROVE ~StoredHere(d, e)
  <2>1. PICK x \in d.evidence : Cites(g, x) /\ x.file = e.file /\ x.line = e.line
    BY <1>1, <1>8
  <2>2. g \in Classified(d) /\ g.rule \in kept
    BY <1>1, <1>8 DEF Told
  <2>3. g \in BearerFindings(d) /\ g.rule \in Watched
    BY <2>2, WatchedFindings DEF Watched
  <2>. HIDE DEF here, kept, stored
  <2>4. PICK c \in Contexts(d) : \E y \in Of(c.evidence, {"bearer.store.browser"}) :
           ~StoredHere(d, y) /\ g = Finding("bearer_token_browser_storage", Misconfigured, "high", c.artifact, {y.id})
    BY <2>3, BearerRulesAre, Zenon
  <2>5. PICK y \in Of(c.evidence, {"bearer.store.browser"}) :
           ~StoredHere(d, y) /\ g = Finding("bearer_token_browser_storage", Misconfigured, "high", c.artifact, {y.id})
    BY <2>4
  <2>6. y \in d.evidence /\ y.detector = "bearer.store.browser"
    <3>1. y \in c.evidence /\ y.detector = "bearer.store.browser"
      BY DEF Of
    <3>2. PICK a \in Artifacts(d) : y \in a.evidence
      BY <3>1, ContextHolds
    <3>. QED  BY <1>1, <3>1, <3>2 DEF Whole
  <2>7. g.evidence = {y.id}
    BY <2>5, FindingIs
  <2>8. x.id = y.id
    BY <2>1, <2>7 DEF Cites
  <2>9. x.file = y.file /\ x.line = y.line
    BY <1>1, <2>6, <2>8, PlaceOfId
  <2>. QED  BY <2>1, <2>5, <2>9 DEF StoredHere
<1>. HIDE DEF here
<1>. QED  BY <1>5, <1>6, <1>7, <1>8

\* A token that goes into browser storage is reported by one of the two classifiers
\* that know of it and not by both, for each place where it happens (OneStorageReport).
THEOREM AuditStorage == Spec => []OneStorageReport
<1>1. Written => OneStorageReport
  BY WrittenStoresOnce
<1>. QED  BY <1>1, AuditWritten, PTL

-----------------------------------------------------------------------------
(* Conflicting writes of a cookie.                                          *)

LEMMA TwoOf ==
    ASSUME NEW S, IsFiniteSet(S), NEW x \in S, NEW y \in S, x # y
    PROVE  Cardinality(S) >= 2
<1>. DEFINE T == {x, y}
<1>1. IsFiniteSet({x}) /\ Cardinality({x}) = 1
  BY FS_Singleton
<1>2. T = {x} \cup {y} /\ y \notin {x}
  OBVIOUS
<1>3. IsFiniteSet(T) /\ Cardinality(T) = 2
  <2>1. Cardinality({x} \cup {y}) = Cardinality({x}) + 1
    BY <1>1, <1>2, FS_AddElement
  <2>2. IsFiniteSet({x} \cup {y})
    BY <1>1, FS_AddElement
  <2>. QED  BY <1>1, <1>2, <2>1, <2>2
<1>4. Cardinality(T) <= Cardinality(S)
  BY FS_Subset
<1>5. Cardinality(S) \in Nat
  BY FS_CardinalityType
<1>. QED  BY <1>3, <1>4, <1>5

LEMMA PositionsAreFinite ==
    ASSUME NEW s, IsSequence(s), NEW S \in SUBSET (DOMAIN s)
    PROVE  IsFiniteSet(S)
<1>1. DOMAIN s = 1..Len(s) /\ Len(s) \in Nat
  BY SequenceForm
<1>2. IsFiniteSet(1..Len(s))
  BY <1>1, FS_Interval
<1>. QED  BY <1>1, <1>2, FS_Subset

LEMMA ConflictOf ==
    ASSUME NEW f, NEW calls, NEW c, NEW e \in Cookie!Conflicts(f, calls, c)
    PROVE  /\ e.id[4] = c.scope /\ e.id[5] = c.name /\ c.name # NoName
           /\ e.detector = "cookie.conflicting_writes" /\ e.stage = "store"
BY DEF Cookie!Conflicts, Cookie!EvidenceAt, Cookie!NoName, NoName

\* Two writes of one name in one scope share the evidence of their conflict.
LEMMA ConflictIsShared ==
    ASSUME NEW f, NEW calls, IsSequence(calls), NEW i \in DOMAIN calls, NEW j \in DOMAIN calls, i # j,
           calls[i].name # NoName, calls[i].name = calls[j].name, calls[i].scope = calls[j].scope
    PROVE  \E e : /\ e \in Cookie!Conflicts(f, calls, calls[i]) /\ e \in Cookie!Conflicts(f, calls, calls[j])
                  /\ e \in Cookie!CookieArtifact(f, calls, calls[i]).evidence
                  /\ e \in Cookie!CookieArtifact(f, calls, calls[j]).evidence
<1>. DEFINE same(c) == {k \in DOMAIN calls : calls[k].scope = c.scope /\ calls[k].name = c.name}
            of(c) == [Cookie!EvidenceAt(f, "cookie.conflicting_writes", <<>>, c.scope, c.name, "store", "dynamic", {})
                        EXCEPT !.line = calls[Cookie!Least(same(c))].line]
<1>1. same(calls[i]) = same(calls[j]) /\ of(calls[i]) = of(calls[j])
  OBVIOUS
<1>2. Cardinality(same(calls[i])) >= 2
  <2>1. same(calls[i]) \in SUBSET (DOMAIN calls) /\ i \in same(calls[i]) /\ j \in same(calls[i])
    OBVIOUS
  <2>. HIDE DEF same
  <2>2. IsFiniteSet(same(calls[i]))
    BY <2>1, PositionsAreFinite
  <2>. QED  BY <2>1, <2>2, TwoOf
<1>3. Cardinality(same(calls[i])) \in Nat
  <2>1. same(calls[i]) \in SUBSET (DOMAIN calls)
    OBVIOUS
  <2>. QED  BY <2>1, PositionsAreFinite, FS_CardinalityType
<1>4. ASSUME NEW c, c.name # NoName, same(c) = same(calls[i]) PROVE Cookie!Conflicts(f, calls, c) = {of(c)}
  <2>1. ~(Cardinality(same(c)) < 2)
    <3>. DEFINE n == Cardinality(same(c))
    <3>1. n \in Nat /\ n >= 2
      BY <1>2, <1>3, <1>4
    <3>. HIDE DEF n
    <3>2. ~(n < 2)
      BY <3>1
    <3>. QED  BY <3>2 DEF n
  <2>2. Cookie!Conflicts(f, calls, c) = IF c.name = NoName \/ Cardinality(same(c)) < 2 THEN {} ELSE {of(c)}
    <3>1. \A S : Cookie!Cardinality(S) = Cardinality(S)
      BY DEF Cookie!Cardinality, Cardinality
    <3>. QED  BY <3>1 DEF Cookie!Conflicts, Cookie!NoName, NoName
  <2>. QED  BY <1>4, <2>1, <2>2
<1>5. \A c : Cookie!Conflicts(f, calls, c) \subseteq Cookie!CookieArtifact(f, calls, c).evidence
  BY DEF Cookie!CookieArtifact, Cookie!Artifact
<1>6. Cookie!Conflicts(f, calls, calls[i]) = {of(calls[i])} /\ Cookie!Conflicts(f, calls, calls[j]) = {of(calls[i])}
  BY <1>1, <1>4
<1>. HIDE DEF of
<1>. QED  BY <1>5, <1>6

LEMMA CookieId ==
    ASSUME NEW f, NEW calls, NEW c
    PROVE  LET i == Cookie!CookieArtifact(f, calls, c).id
           IN i[1] = f.path /\ i[4] = c.line /\ i[5] = c.name
BY DEF Cookie!CookieArtifact, Cookie!Artifact

\* What is shared by two artifacts is reported about both.
LEMMA SharedIsReported ==
    ASSUME NEW d, IsSequence(d.artifacts), NEW e \in d.evidence, e.detector = "cookie.conflicting_writes",
           e.stage = "store", NEW m \in DOMAIN d.artifacts, NEW n \in DOMAIN d.artifacts, m # n,
           e \in d.artifacts[m].evidence, e \in d.artifacts[n].evidence
    PROVE  \E g \in ConflictRules(d) : /\ g.rule = "cookie_conflicting_writes_review"
                                       /\ {d.artifacts[m].id, d.artifacts[n].id} \subseteq g.artifacts
<1>. DEFINE sharers(x) == {k \in DOMAIN d.artifacts : x \in In(d.artifacts[k].evidence, {"store"})}
            sets(x) == UNION {Of(In(d.artifacts[k].evidence, {"store"}), {"cookie.set"}) : k \in sharers(x)}
            finding(x) == Finding("cookie_conflicting_writes_review", Review, "medium",
                                  d.artifacts[Least(sharers(x))], {x.id} \cup Ids(sets(x)))
            of(x) == [finding(x) EXCEPT !.artifacts = {d.artifacts[k].id : k \in sharers(x)}]
<1>1. ConflictRules(d) = {of(x) : x \in {f \in Of(AllEvidence(d), {"cookie.conflicting_writes"}) :
                                          Cardinality(sharers(f)) >= 2}}
  BY DEF ConflictRules
<1>2. m \in sharers(e) /\ n \in sharers(e) /\ sharers(e) \in SUBSET (DOMAIN d.artifacts)
  BY DEF In
<1>3. Cardinality(sharers(e)) >= 2
  <2>. HIDE DEF sharers
  <2>1. IsFiniteSet(sharers(e))
    BY <1>2, PositionsAreFinite
  <2>. QED  BY <1>2, <2>1, TwoOf
<1>4. e \in Of(AllEvidence(d), {"cookie.conflicting_writes"})
  BY DEF Of, AllEvidence
<1>5. of(e).rule = "cookie_conflicting_writes_review" /\ of(e).artifacts = {d.artifacts[k].id : k \in sharers(e)}
  <2>. HIDE DEF sharers, sets
  <2>. QED  BY DEF Finding
<1>. HIDE DEF sharers, sets, of, finding
<1>6. of(e) \in ConflictRules(d)
  BY <1>1, <1>3, <1>4
<1>. QED  BY <1>2, <1>5, <1>6

LEMMA ReportedIsShared ==
    ASSUME NEW d, NEW g \in ConflictRules(d)
    PROVE  \E e \in d.evidence :
              /\ e.detector = "cookie.conflicting_writes"
              /\ \A i \in g.artifacts : \E m \in DOMAIN d.artifacts :
                    i = d.artifacts[m].id /\ e \in d.artifacts[m].evidence
<1>. DEFINE sharers(x) == {k \in DOMAIN d.artifacts : x \in In(d.artifacts[k].evidence, {"store"})}
            sets(x) == UNION {Of(In(d.artifacts[k].evidence, {"store"}), {"cookie.set"}) : k \in sharers(x)}
            finding(x) == Finding("cookie_conflicting_writes_review", Review, "medium",
                                  d.artifacts[Least(sharers(x))], {x.id} \cup Ids(sets(x)))
            of(x) == [finding(x) EXCEPT !.artifacts = {d.artifacts[k].id : k \in sharers(x)}]
<1>1. ConflictRules(d) = {of(x) : x \in {f \in Of(AllEvidence(d), {"cookie.conflicting_writes"}) :
                                          Cardinality(sharers(f)) >= 2}}
  BY DEF ConflictRules
<1>. HIDE DEF of
<1>2. PICK e \in Of(AllEvidence(d), {"cookie.conflicting_writes"}) : g = of(e)
  BY <1>1
<1>3. e \in d.evidence /\ e.detector = "cookie.conflicting_writes"
  BY DEF Of, AllEvidence
<1>4. g.artifacts = {d.artifacts[k].id : k \in sharers(e)}
  <2>. HIDE DEF sharers, sets
  <2>. QED  BY <1>2 DEF Finding, of
<1>5. \A k \in sharers(e) : k \in DOMAIN d.artifacts /\ e \in d.artifacts[k].evidence
  BY DEF In
<1>. HIDE DEF sharers
<1>. QED  BY <1>3, <1>4, <1>5

\* An artifact with the evidence of a conflict is that of a write of its file.
LEMMA ConflictIsOfWrites ==
    ASSUME Written, NEW d, Whole(d), NEW e, e.detector = "cookie.conflicting_writes",
           NEW m \in DOMAIN d.artifacts, e \in d.artifacts[m].evidence
    PROVE  \E k \in DOMAIN Files : \E i \in DOMAIN Cookie!CookieCalls(FileOf(k)) :
              LET f == FileOf(k)
                  calls == Cookie!CookieCalls(f)
              IN /\ d.artifacts[m].id = Cookie!CookieArtifact(f, calls, calls[i]).id
                 /\ e \in Cookie!Conflicts(f, calls, calls[i])
<1>1. PICK k \in DOMAIN Files : \E i \in 1..Len(Detect(FileOf(k))) : d.artifacts[m] = Detect(FileOf(k))[i]
  BY DEF Whole
<1>2. PICK i \in 1..Len(Detect(FileOf(k))) : d.artifacts[m] = Detect(FileOf(k))[i]
  BY <1>1
<1>. DEFINE f == FileOf(k)
            calls == Cookie!CookieCalls(f)
            s == Detect(f)
<1>3. Found(f, s, calls)
  BY DetectIs DEF Written
<1>. HIDE DEF f, calls, s
<1>4. IsSequence(calls) /\ i <= Len(calls) /\ i \in Nat /\ i >= 1 /\ s[i] = d.artifacts[m]
  <2>1. i \in 1..Len(s) /\ s[i] = d.artifacts[m] /\ IsSequence(s)
    BY <1>2, <1>3 DEF Found, s, f
  <2>2. Len(s) \in Nat
    BY <2>1, SequenceForm
  <2>. QED  BY <1>3, <2>1, <2>2 DEF Found
<1>5. i \in DOMAIN calls /\ i \in 1..Len(calls)
  BY <1>4, SequenceForm
<1>6. s[i] = Cookie!CookieArtifact(f, calls, calls[i])
  BY <1>3, <1>5 DEF Found
<1>7. e \in Cookie!Conflicts(f, calls, calls[i])
  BY <1>4, <1>6, CookieEvidence
<1>. QED  BY <1>4, <1>5, <1>6, <1>7 DEF f, calls

\* Two lines have one scope when they are in one handler, or in the function at the
\* first byte of the file and outside of all functions.
LEMMA ScopeIsHandler ==
    ASSUME NEW f, NEW m, NEW n
    PROVE  Cookie!Scope(f, m) = Cookie!Scope(f, n) <=> OneHandler(f, m, n)
<1>. DEFINE h == Cookie!Handler(f, m)
            g == Cookie!Handler(f, n)
            first == Cookie!AtFirstByte(f, 1)
            start(x) == IF x = 1 /\ first THEN 0 ELSE x
<1>1. \A x : Cookie!AtFirstByte(f, x) <=> x = 1 /\ first
  BY DEF Cookie!AtFirstByte
<1>2. \A x : Cookie!Start(f, x) = start(x)
  BY <1>1 DEF Cookie!Start
<1>3. Cookie!Scope(f, m) = start(h) /\ Cookie!Scope(f, n) = start(g)
  BY <1>2 DEF Cookie!Scope
<1>4. OneHandler(f, m, n) <=> h = g \/ ({h, g} = {0, 1} /\ first)
  BY DEF OneHandler
<1>. HIDE DEF h, g, first
<1>5. start(h) = start(g) <=> h = g \/ ({h, g} = {0, 1} /\ first)
  OBVIOUS
<1>. QED  BY <1>3, <1>4, <1>5

LEMMA WrittenConflictsInOneHandler ==
    ASSUME Written
    PROVE  ConflictsInOneHandler
<1>. DEFINE d == Detected(code, DOMAIN Files)
            conflict == {"cookie_conflicting_writes_review"}
<1>1. report.findings = Classified(d) /\ Whole(d)
  BY TheReport
<1>. HIDE DEF d
<1>2. SUFFICES ASSUME NEW k \in DOMAIN Files, NEW calls, calls = Cookie!CookieCalls(FileOf(k)),
                      NEW i \in DOMAIN calls, NEW j \in DOMAIN calls, i < j
               PROVE  (\E g \in Told(conflict) :
                         {Cookie!CookieArtifact(FileOf(k), calls, calls[i]).id,
                          Cookie!CookieArtifact(FileOf(k), calls, calls[j]).id} \subseteq g.artifacts)
                      <=> /\ calls[i].name # NoName /\ calls[i].name = calls[j].name
                          /\ OneHandler(FileOf(k), calls[i].line, calls[j].line)
  BY DEF ConflictsInOneHandler
<1>. DEFINE f == FileOf(k)
            id(x) == Cookie!CookieArtifact(f, calls, calls[x]).id
            s == Detect(f)
<1>3. IsRead(f) /\ IsFile(f)
  BY DEF Written, IsRead
<1>4. Found(f, s, calls)
  BY <1>2, <1>3, DetectIs
<1>5. IsSequence(calls) /\ \A c \in Range1(calls) : c.scope = Cookie!Scope(f, c.line)
  BY <1>2, <1>3, CookieCallsIsOne DEF CallsOf
<1>6. i \in Nat /\ j \in Nat /\ i # j /\ i \in 1..Len(s) /\ j \in 1..Len(s) /\ i \in 1..Len(calls) /\ j \in 1..Len(calls)
  <2>. HIDE DEF f, s
  <2>1. DOMAIN calls = 1..Len(calls) /\ Len(calls) \in Nat
    BY <1>5, SequenceForm
  <2>2. IsSequence(s) /\ Len(calls) <= Len(s)
    BY <1>4 DEF Found
  <2>3. Len(s) \in Nat
    BY <2>2, SequenceForm
  <2>. QED  BY <1>2, <2>1, <2>2, <2>3
<1>7. s[i] = Cookie!CookieArtifact(f, calls, calls[i]) /\ s[j] = Cookie!CookieArtifact(f, calls, calls[j])
  BY <1>4, <1>6 DEF Found
<1>. HIDE DEF s
<1>8. ASSUME calls[i].name # NoName, calls[i].name = calls[j].name, calls[i].scope = calls[j].scope
      PROVE  \E g \in Told(conflict) : {id(i), id(j)} \subseteq g.artifacts
  <2>1. PICK e : /\ e \in Cookie!Conflicts(f, calls, calls[i])
                 /\ e \in Cookie!CookieArtifact(f, calls, calls[i]).evidence
                 /\ e \in Cookie!CookieArtifact(f, calls, calls[j]).evidence
    BY <1>5, <1>6, <1>8, ConflictIsShared
  <2>2. PICK m \in DOMAIN d.artifacts, n \in DOMAIN d.artifacts :
           m # n /\ d.artifacts[m] = s[i] /\ d.artifacts[n] = s[j]
    BY <1>1, <1>6 DEF Whole, s
  <2>3. e.detector = "cookie.conflicting_writes" /\ e.stage = "store"
    BY <2>1, ConflictOf
  <2>4. e \in d.artifacts[m].evidence /\ e \in d.artifacts[n].evidence
    BY <1>7, <2>1, <2>2
  <2>5. d.artifacts[m] \in Artifacts(d)
    BY DEF Artifacts, Range1
  <2>6. e \in d.evidence /\ IsSequence(d.artifacts)
    BY <1>1, <2>4, <2>5 DEF Whole
  <2>7. PICK g \in ConflictRules(d) : /\ g.rule = "cookie_conflicting_writes_review"
                                      /\ {d.artifacts[m].id, d.artifacts[n].id} \subseteq g.artifacts
    BY <2>2, <2>3, <2>4, <2>6, SharedIsReported
  <2>8. g \in Told(conflict)
    BY <1>1, <2>7 DEF Told, Classified, FileFindings, CookieFindings
  <2>. QED  BY <1>7, <2>2, <2>7, <2>8
<1>9. ASSUME NEW g \in Told(conflict), {id(i), id(j)} \subseteq g.artifacts
      PROVE  calls[i].name # NoName /\ calls[i].name = calls[j].name /\ calls[i].scope = calls[j].scope
  <2>1. g \in Classified(d) /\ g.rule = "cookie_conflicting_writes_review"
    BY <1>1 DEF Told
  <2>2. g \in ConflictRules(d)
    BY <2>1, WatchedFindings DEF Watched
  <2>3. PICK e \in d.evidence :
           /\ e.detector = "cookie.conflicting_writes"
           /\ \A x \in g.artifacts : \E m \in DOMAIN d.artifacts :
                 x = d.artifacts[m].id /\ e \in d.artifacts[m].evidence
    BY <2>2, ReportedIsShared
  <2>4. ASSUME NEW x \in DOMAIN calls, id(x) \in g.artifacts
        PROVE  e.id[4] = calls[x].scope /\ e.id[5] = calls[x].name /\ calls[x].name # NoName
    <3>1. PICK m \in DOMAIN d.artifacts : id(x) = d.artifacts[m].id /\ e \in d.artifacts[m].evidence
      BY <2>3, <2>4
    <3>2. PICK k2 \in DOMAIN Files : \E y \in DOMAIN Cookie!CookieCalls(FileOf(k2)) :
             LET f2 == FileOf(k2)
                 calls2 == Cookie!CookieCalls(f2)
             IN /\ d.artifacts[m].id = Cookie!CookieArtifact(f2, calls2, calls2[y]).id
                /\ e \in Cookie!Conflicts(f2, calls2, calls2[y])
      BY <1>1, <2>3, <3>1, ConflictIsOfWrites
    <3>. DEFINE f2 == FileOf(k2)
                calls2 == Cookie!CookieCalls(f2)
    <3>3. PICK y \in DOMAIN calls2 : /\ d.artifacts[m].id = Cookie!CookieArtifact(f2, calls2, calls2[y]).id
                                     /\ e \in Cookie!Conflicts(f2, calls2, calls2[y])
      BY <3>2
    <3>4. f2.path = f.path /\ calls2[y].line = calls[x].line /\ calls2[y].name = calls[x].name
      <4>. HIDE DEF f, f2, calls2
      <4>. QED  BY <3>1, <3>3, CookieId DEF id
    <3>5. k2 = k
      BY <3>4, FilesAre
    <3>6. calls2 = calls
      BY <1>2, <3>5
    <3>7. calls[y] \in Range1(calls) /\ calls[x] \in Range1(calls)
      BY <2>4, <3>3, <3>6 DEF Range1
    <3>8. calls[y].scope = calls[x].scope
      BY <1>5, <3>4, <3>6, <3>7
    <3>9. e.id[4] = calls[y].scope /\ e.id[5] = calls[y].name /\ calls[y].name # NoName
      BY <3>3, <3>6, ConflictOf
    <3>. QED  BY <3>4, <3>6, <3>8, <3>9
  <2>. QED  BY <1>9, <2>4
<1>. HIDE DEF id
<1>10. calls[i].scope = calls[j].scope <=> OneHandler(f, calls[i].line, calls[j].line)
  <2>1. calls[i] \in Range1(calls) /\ calls[j] \in Range1(calls)
    BY <1>2 DEF Range1
  <2>. QED  BY <1>5, <2>1, ScopeIsHandler
<1>11. (\E g \in Told(conflict) : {id(i), id(j)} \subseteq g.artifacts)
       <=> (calls[i].name # NoName /\ calls[i].name = calls[j].name /\ calls[i].scope = calls[j].scope)
  BY <1>8, <1>9
<1>. QED  BY <1>10, <1>11 DEF id

\* Two writes of a cookie are reported as conflicting when they write one name in one
\* handler, and only then (ConflictsInOneHandler).
THEOREM AuditConflicts == Spec => []ConflictsInOneHandler
<1>1. Written => ConflictsInOneHandler
  BY WrittenConflictsInOneHandler
<1>. QED  BY <1>1, AuditWritten, PTL

-----------------------------------------------------------------------------
(* Rules that judge each file by itself.                                    *)

\* The report q is that of the file at `path` alone: what of d is of that file, its
\* artifacts in the same order, b places earlier.
Part(d, q, path, b) ==
    /\ IsSequence(d.artifacts) /\ IsSequence(q.artifacts) /\ b \in Nat
    /\ \A m \in DOMAIN q.artifacts :
          m + b \in DOMAIN d.artifacts /\ d.artifacts[m + b] = q.artifacts[m] /\ q.artifacts[m].id[1] = path
    /\ \A n \in DOMAIN d.artifacts : d.artifacts[n].id[1] = path => n - b \in DOMAIN q.artifacts
    /\ \A n \in DOMAIN d.artifacts : \A e \in d.artifacts[n].evidence : e.file = d.artifacts[n].id[1]
    /\ q.evidence = {e \in d.evidence : e.file = path}

\* The reports of the files, each by itself, make up d.
Parts(d, q) ==
    /\ \A k \in DOMAIN q : \E path, b : Part(d, q[k], path, b)
    /\ Artifacts(d) = UNION {Artifacts(q[k]) : k \in DOMAIN q}
    /\ d.evidence = UNION {q[k].evidence : k \in DOMAIN q}

LEMMA PlacesOf ==
    ASSUME NEW d, NEW q, NEW path, NEW b, Part(d, q, path, b)
    PROVE  /\ DOMAIN d.artifacts \subseteq Nat /\ DOMAIN q.artifacts \subseteq Nat /\ b \in Nat
           /\ \A n \in DOMAIN d.artifacts : d.artifacts[n].id[1] = path =>
                 /\ n - b \in DOMAIN q.artifacts /\ (n - b) + b = n /\ d.artifacts[n] = q.artifacts[n - b]
           /\ \A n \in DOMAIN d.artifacts : \A e \in q.evidence : e \in d.artifacts[n].evidence => d.artifacts[n].id[1] = path
<1>1. DOMAIN d.artifacts = 1..Len(d.artifacts) /\ DOMAIN q.artifacts = 1..Len(q.artifacts)
      /\ Len(d.artifacts) \in Nat /\ Len(q.artifacts) \in Nat /\ b \in Nat
  BY SequenceForm DEF Part
<1>2. DOMAIN d.artifacts \subseteq Nat /\ DOMAIN q.artifacts \subseteq Nat
  BY <1>1
<1>3. ASSUME NEW n \in DOMAIN d.artifacts, d.artifacts[n].id[1] = path
      PROVE  n - b \in DOMAIN q.artifacts /\ (n - b) + b = n /\ d.artifacts[n] = q.artifacts[n - b]
  <2>1. n - b \in DOMAIN q.artifacts
    BY <1>3 DEF Part
  <2>2. (n - b) + b = n
    BY <1>1, <1>2
  <2>3. d.artifacts[(n - b) + b] = q.artifacts[n - b]
    BY <2>1 DEF Part
  <2>. QED  BY <2>1, <2>2, <2>3
<1>4. \A n \in DOMAIN d.artifacts : \A e \in q.evidence : e \in d.artifacts[n].evidence => d.artifacts[n].id[1] = path
  BY DEF Part
<1>. QED  BY <1>1, <1>2, <1>3, <1>4

LEMMA TwoIn ==
    ASSUME NEW S, IsFiniteSet(S), Cardinality(S) >= 2
    PROVE  \E x, y \in S : x # y
<1>1. Cardinality(S) \in Nat /\ S # {}
  BY FS_CardinalityType, FS_EmptySet
<1>2. PICK x \in S : TRUE
  BY <1>1
<1>3. IsFiniteSet(S \ {x}) /\ Cardinality(S \ {x}) = Cardinality(S) - 1
  BY FS_RemoveElement
<1>4. S \ {x} # {}
  <2>1. Cardinality(S \ {x}) # 0
    BY <1>1, <1>3
  <2>. QED  BY <2>1, FS_EmptySet
<1>. QED  BY <1>4

\* Places of d and the same places of its part hold the same artifacts, the first of
\* them first.
LEMMA Shifted ==
    ASSUME NEW d, NEW q, NEW path, NEW b, Part(d, q, path, b),
           NEW S \in SUBSET (DOMAIN d.artifacts), \A n \in S : d.artifacts[n].id[1] = path,
           NEW T \in SUBSET (DOMAIN q.artifacts), \A m \in DOMAIN q.artifacts : m \in T <=> m + b \in S
    PROVE  /\ \A n \in S : n - b \in T /\ d.artifacts[n] = q.artifacts[n - b]
           /\ \A m \in T : m + b \in S /\ d.artifacts[m + b] = q.artifacts[m]
           /\ S # {} => T # {} /\ d.artifacts[Least(S)] = q.artifacts[Least(T)]
           /\ Cardinality(S) >= 2 <=> Cardinality(T) >= 2
<1>1. DOMAIN d.artifacts \subseteq Nat /\ DOMAIN q.artifacts \subseteq Nat /\ b \in Nat
  BY PlacesOf
<1>2. ASSUME NEW n \in S PROVE n - b \in T /\ (n - b) + b = n /\ d.artifacts[n] = q.artifacts[n - b]
  BY PlacesOf
<1>3. \A m \in T : m + b \in S /\ d.artifacts[m + b] = q.artifacts[m]
  BY DEF Part
<1>4. ASSUME S # {} PROVE T # {} /\ d.artifacts[Least(S)] = q.artifacts[Least(T)]
  <2>. DEFINE x == Least(S)
              y == Least(T)
  <2>1. T # {}
    BY <1>2, <1>4
  <2>2. x \in S /\ \A n \in S : x <= n
    BY <1>1, <1>4, LeastIs
  <2>3. y \in T /\ \A m \in T : y <= m
    BY <1>1, <2>1, LeastIs
  <2>. HIDE DEF x, y
  <2>4. y + b \in S /\ x - b \in T
    BY <1>2, <1>3, <2>2, <2>3
  <2>5. x <= y + b /\ y <= x - b /\ x \in Nat /\ y \in Nat
    BY <1>1, <2>2, <2>3, <2>4
  <2>6. x = y + b
    BY <1>1, <2>5
  <2>7. d.artifacts[x] = q.artifacts[y]
    BY <1>3, <2>3, <2>6
  <2>. QED  BY <2>1, <2>7 DEF x, y
<1>5. IsFiniteSet(S) /\ IsFiniteSet(T)
  BY PositionsAreFinite DEF Part
<1>6. ASSUME Cardinality(S) >= 2 PROVE Cardinality(T) >= 2
  <2>1. PICK x, y \in S : x # y
    BY <1>5, <1>6, TwoIn
  <2>2. x - b \in T /\ y - b \in T /\ x \in Nat /\ y \in Nat
    BY <1>1, <1>2
  <2>3. x - b # y - b
    BY <1>1, <2>1, <2>2
  <2>. QED  BY <1>5, <2>2, <2>3, TwoOf
<1>7. ASSUME Cardinality(T) >= 2 PROVE Cardinality(S) >= 2
  <2>1. PICK x, y \in T : x # y
    BY <1>5, <1>7, TwoIn
  <2>2. x + b \in S /\ y + b \in S /\ x \in Nat /\ y \in Nat
    BY <1>1, <1>3
  <2>3. x + b # y + b
    BY <1>1, <2>1, <2>2
  <2>. QED  BY <1>5, <2>2, <2>3, TwoOf
<1>. QED  BY <1>2, <1>3, <1>4, <1>6, <1>7

\* The artifacts with an evidence, and the finding about their conflict.
Sharers(r, e) == {k \in DOMAIN r.artifacts : e \in In(r.artifacts[k].evidence, {"store"})}
ConflictAt(r, e) ==
    LET writes == Sharers(r, e)
        sets == UNION {Of(In(r.artifacts[k].evidence, {"store"}), {"cookie.set"}) : k \in writes}
    IN [Finding("cookie_conflicting_writes_review", Review, "medium", r.artifacts[Least(writes)],
                {e.id} \cup Ids(sets))
          EXCEPT !.artifacts = {r.artifacts[k].id : k \in writes}]
Conflicted(r) == {e \in Of(r.evidence, {"cookie.conflicting_writes"}) : Cardinality(Sharers(r, e)) >= 2}

LEMMA ConflictsAre ==
    ASSUME NEW r
    PROVE  ConflictRules(r) = {ConflictAt(r, e) : e \in Conflicted(r)}
BY DEF ConflictRules, ConflictAt, Conflicted, Sharers, AllEvidence

LEMMA ConflictIsLocal ==
    ASSUME NEW d, NEW q, NEW path, NEW b, Part(d, q, path, b), NEW e \in q.evidence
    PROVE  /\ e \in Conflicted(d) <=> e \in Conflicted(q)
           /\ e \in Conflicted(d) => ConflictAt(d, e) = ConflictAt(q, e)
<1>. DEFINE S == Sharers(d, e)
            T == Sharers(q, e)
<1>1. S \in SUBSET (DOMAIN d.artifacts) /\ T \in SUBSET (DOMAIN q.artifacts)
  BY DEF Sharers
<1>2. \A n \in S : d.artifacts[n].id[1] = path
  BY PlacesOf DEF Sharers, In
<1>3. \A m \in DOMAIN q.artifacts : m \in T <=> m + b \in S
  BY DEF Part, Sharers
<1>4. /\ \A n \in S : n - b \in T /\ d.artifacts[n] = q.artifacts[n - b]
      /\ \A m \in T : m + b \in S /\ d.artifacts[m + b] = q.artifacts[m]
      /\ S # {} => T # {} /\ d.artifacts[Least(S)] = q.artifacts[Least(T)]
      /\ Cardinality(S) >= 2 <=> Cardinality(T) >= 2
  <2>. HIDE DEF S, T
  <2>. QED  BY <1>1, <1>2, <1>3, Shifted
<1>5. e \in d.evidence
  BY DEF Part
<1>6. e \in Conflicted(d) <=> e \in Conflicted(q)
  BY <1>4, <1>5 DEF Conflicted, Of
<1>7. ASSUME e \in Conflicted(d) PROVE ConflictAt(d, e) = ConflictAt(q, e)
  <2>1. S # {}
    <3>1. Cardinality(S) >= 2 /\ IsFiniteSet(S)
      BY <1>1, <1>7, PositionsAreFinite DEF Conflicted, Part
    <3>. HIDE DEF S
    <3>. QED  BY <3>1, TwoIn
  <2>. DEFINE sets(r, W) == UNION {Of(In(r.artifacts[k].evidence, {"store"}), {"cookie.set"}) : k \in W}
              ids(r, W) == {r.artifacts[k].id : k \in W}
  <2>2. sets(d, S) = sets(q, T) /\ ids(d, S) = ids(q, T)
    <3>. HIDE DEF S, T
    <3>1. sets(d, S) \subseteq sets(q, T) /\ ids(d, S) \subseteq ids(q, T)
      BY <1>4
    <3>2. sets(q, T) \subseteq sets(d, S) /\ ids(q, T) \subseteq ids(d, S)
      BY <1>4
    <3>. HIDE DEF sets, ids
    <3>. QED  BY <3>1, <3>2
  <2>. DEFINE about(a, E, I) ==
                [Finding("cookie_conflicting_writes_review", Review, "medium", a, {e.id} \cup Ids(E))
                   EXCEPT !.artifacts = I]
  <2>3. \A r : ConflictAt(r, e) =
           about(r.artifacts[Least(Sharers(r, e))], sets(r, Sharers(r, e)), ids(r, Sharers(r, e)))
    BY DEF ConflictAt
  <2>4. d.artifacts[Least(S)] = q.artifacts[Least(T)]
    BY <1>4, <2>1
  <2>. HIDE DEF sets, ids, about
  <2>5. ConflictAt(d, e) = about(d.artifacts[Least(S)], sets(d, S), ids(d, S))
    BY <2>3
  <2>6. ConflictAt(q, e) = about(q.artifacts[Least(T)], sets(q, T), ids(q, T))
    BY <2>3
  <2>. QED  BY <2>2, <2>4, <2>5, <2>6
<1>. QED  BY <1>6, <1>7

LEMMA ConflictsAreLocal ==
    ASSUME NEW d, NEW q, Parts(d, q)
    PROVE  ConflictRules(d) = UNION {ConflictRules(q[k]) : k \in DOMAIN q}
<1>1. ASSUME NEW k \in DOMAIN q, NEW e \in q[k].evidence
      PROVE  /\ e \in Conflicted(d) <=> e \in Conflicted(q[k])
             /\ e \in Conflicted(d) => ConflictAt(d, e) = ConflictAt(q[k], e)
  BY ConflictIsLocal DEF Parts
<1>2. \A r : Conflicted(r) \subseteq r.evidence
  BY DEF Conflicted, Of
<1>3. ASSUME NEW e \in Conflicted(d) PROVE \E k \in DOMAIN q : ConflictAt(d, e) \in ConflictRules(q[k])
  <2>1. PICK k \in DOMAIN q : e \in q[k].evidence
    BY <1>2 DEF Parts
  <2>. QED  BY <1>1, <2>1, ConflictsAre
<1>4. ASSUME NEW k \in DOMAIN q, NEW e \in Conflicted(q[k]) PROVE ConflictAt(q[k], e) \in ConflictRules(d)
  <2>1. e \in Conflicted(d) /\ ConflictAt(d, e) = ConflictAt(q[k], e)
    BY <1>1, <1>2
  <2>. QED  BY <2>1, ConflictsAre
<1>. QED  BY <1>3, <1>4, ConflictsAre

\* A rule about what the browser stores finds the same for each evidence.
StoredAt(r, rule, e) ==
    [rule |-> rule[2], category |-> rule[3], severity |-> "high",
     artifacts |-> {a.id : a \in {b \in Artifacts(r) : e \in b.evidence}},
     evidence |-> {e.id}, id |-> <<rule[2], e.id, e.file>>]

LEMMA StoragesAre ==
    ASSUME NEW r
    PROVE  StorageFindings(r) = UNION {{StoredAt(r, rule, e) : e \in {f \in r.evidence : f.detector = rule[1]}} :
                                         rule \in Range1(StorageRule)}
BY DEF StorageFindings, StoredAt, AllEvidence

LEMMA HoldersAre ==
    ASSUME NEW d, NEW q, NEW path, NEW b, Part(d, q, path, b), NEW e \in q.evidence
    PROVE  {a \in Artifacts(d) : e \in a.evidence} = {a \in Artifacts(q) : e \in a.evidence}
<1>1. ASSUME NEW n \in DOMAIN d.artifacts, e \in d.artifacts[n].evidence
      PROVE  d.artifacts[n] \in Artifacts(q)
  <2>1. n - b \in DOMAIN q.artifacts /\ d.artifacts[n] = q.artifacts[n - b]
    BY <1>1, PlacesOf
  <2>. QED  BY <2>1 DEF Artifacts, Range1
<1>2. ASSUME NEW m \in DOMAIN q.artifacts PROVE q.artifacts[m] \in Artifacts(d)
  <2>1. m + b \in DOMAIN d.artifacts /\ d.artifacts[m + b] = q.artifacts[m]
    BY DEF Part
  <2>. QED  BY <2>1 DEF Artifacts, Range1
<1>3. \A a \in Artifacts(d) : e \in a.evidence => a \in Artifacts(q)
  BY <1>1 DEF Artifacts, Range1
<1>4. Artifacts(q) \subseteq Artifacts(d)
  BY <1>2 DEF Artifacts, Range1
<1>. QED  BY <1>3, <1>4

LEMMA StorageIsLocal ==
    ASSUME NEW d, NEW q, Parts(d, q)
    PROVE  StorageFindings(d) = UNION {StorageFindings(q[k]) : k \in DOMAIN q}
<1>1. ASSUME NEW k \in DOMAIN q, NEW e \in q[k].evidence
      PROVE  e \in d.evidence /\ \A rule : StoredAt(d, rule, e) = StoredAt(q[k], rule, e)
  <2>1. {a \in Artifacts(d) : e \in a.evidence} = {a \in Artifacts(q[k]) : e \in a.evidence}
    BY HoldersAre DEF Parts
  <2>. QED  BY <2>1 DEF StoredAt, Parts
<1>2. ASSUME NEW g \in StorageFindings(d) PROVE \E k \in DOMAIN q : g \in StorageFindings(q[k])
  <2>1. PICK rule \in Range1(StorageRule) : g \in {StoredAt(d, rule, e) : e \in {f \in d.evidence : f.detector = rule[1]}}
    BY StoragesAre
  <2>2. PICK e \in d.evidence : e.detector = rule[1] /\ g = StoredAt(d, rule, e)
    BY <2>1
  <2>3. PICK k \in DOMAIN q : e \in q[k].evidence
    BY DEF Parts
  <2>4. g = StoredAt(q[k], rule, e)
    BY <1>1, <2>2, <2>3
  <2>. QED  BY <2>2, <2>3, <2>4, StoragesAre
<1>3. ASSUME NEW k \in DOMAIN q, NEW g \in StorageFindings(q[k]) PROVE g \in StorageFindings(d)
  <2>1. PICK rule \in Range1(StorageRule) : g \in {StoredAt(q[k], rule, e) : e \in {f \in q[k].evidence : f.detector = rule[1]}}
    BY StoragesAre
  <2>2. PICK e \in q[k].evidence : e.detector = rule[1] /\ g = StoredAt(q[k], rule, e)
    BY <2>1
  <2>3. e \in d.evidence /\ g = StoredAt(d, rule, e)
    BY <1>1, <2>2
  <2>. QED  BY <2>2, <2>3, StoragesAre
<1>. QED  BY <1>2, <1>3

\* The places of r where a token that is read from the query is asked about first.
First(r, k) ==
    \A j \in 1..(k - 1) :
       \/ r.artifacts[j].id # r.artifacts[k].id \/ QueryEvidence(r.artifacts[j]) = {}
       \/ QueryRule(r.artifacts[j], QueryEvidence(r.artifacts[j]))
          # QueryRule(r.artifacts[k], QueryEvidence(r.artifacts[k]))
Asked(r) == {k \in DOMAIN r.artifacts : QueryEvidence(r.artifacts[k]) # {} /\ First(r, k)}
QueryAt(a) ==
    LET rule == QueryRule(a, QueryEvidence(a))
    IN Finding(rule[1], rule[2], rule[3], a, Ids(QueryEvidence(a)))

LEMMA QueriesAre ==
    ASSUME NEW r
    PROVE  QueryFindings(r) = {QueryAt(r.artifacts[k]) : k \in Asked(r)}
<1>1. QueryFindings(r) = {QueryAt(a) : a \in {r.artifacts[k] : k \in Asked(r)}}
  BY DEF QueryFindings, QueryAt, Asked, First
<1>. QED  BY <1>1

LEMMA AskedIsLocal ==
    ASSUME NEW d, NEW q, NEW path, NEW b, Part(d, q, path, b), NEW m \in DOMAIN q.artifacts
    PROVE  m + b \in DOMAIN d.artifacts /\ d.artifacts[m + b] = q.artifacts[m]
           /\ (m + b \in Asked(d) <=> m \in Asked(q))
<1>1. /\ m + b \in DOMAIN d.artifacts /\ d.artifacts[m + b] = q.artifacts[m] /\ q.artifacts[m].id[1] = path
      /\ b \in Nat /\ m \in Nat
  BY PlacesOf DEF Part
<1>2. DOMAIN q.artifacts = 1..Len(q.artifacts) /\ DOMAIN d.artifacts = 1..Len(d.artifacts)
      /\ Len(d.artifacts) \in Nat /\ Len(q.artifacts) \in Nat
  BY SequenceForm DEF Part
<1>. DEFINE same(r, j, k) == ~(\/ r.artifacts[j].id # r.artifacts[k].id \/ QueryEvidence(r.artifacts[j]) = {}
                               \/ QueryRule(r.artifacts[j], QueryEvidence(r.artifacts[j]))
                                  # QueryRule(r.artifacts[k], QueryEvidence(r.artifacts[k])))
<1>3. \A r, k : First(r, k) <=> \A j \in 1..(k - 1) : ~same(r, j, k)
  BY DEF First
<1>4. ASSUME NEW j \in DOMAIN q.artifacts PROVE same(d, j + b, m + b) <=> same(q, j, m)
  BY <1>1 DEF Part
<1>5. ASSUME NEW j \in DOMAIN d.artifacts, same(d, j, m + b)
      PROVE  j - b \in DOMAIN q.artifacts /\ same(q, j - b, m)
  <2>1. d.artifacts[j].id[1] = path
    BY <1>1, <1>5
  <2>2. j - b \in DOMAIN q.artifacts /\ d.artifacts[j] = q.artifacts[j - b]
    BY <2>1, PlacesOf
  <2>. QED  BY <1>1, <1>5, <2>2
<1>. HIDE DEF same
<1>6. ASSUME First(d, m + b) PROVE First(q, m)
  <2>1. ASSUME NEW j \in 1..(m - 1) PROVE ~same(q, j, m)
    <3>1. j \in DOMAIN q.artifacts /\ j + b \in 1..((m + b) - 1)
      BY <1>1, <1>2
    <3>. QED  BY <1>3, <1>4, <1>6, <3>1
  <2>. QED  BY <1>3, <2>1
<1>7. ASSUME First(q, m) PROVE First(d, m + b)
  <2>1. ASSUME NEW j \in 1..((m + b) - 1), same(d, j, m + b) PROVE FALSE
    <3>1. j \in DOMAIN d.artifacts
      BY <1>1, <1>2
    <3>2. j - b \in DOMAIN q.artifacts /\ same(q, j - b, m)
      BY <1>5, <2>1, <3>1
    <3>3. j - b \in 1..(m - 1)
      BY <1>1, <1>2, <3>2
    <3>. QED  BY <1>3, <1>7, <3>2, <3>3
  <2>. QED  BY <1>3, <2>1
<1>. QED  BY <1>1, <1>6, <1>7 DEF Asked

LEMMA QueryIsLocal ==
    ASSUME NEW d, NEW q, Parts(d, q)
    PROVE  QueryFindings(d) = UNION {QueryFindings(q[k]) : k \in DOMAIN q}
<1>1. ASSUME NEW m \in Asked(d) PROVE \E k \in DOMAIN q : QueryAt(d.artifacts[m]) \in QueryFindings(q[k])
  <2>1. m \in DOMAIN d.artifacts /\ d.artifacts[m] \in Artifacts(d)
    BY DEF Asked, Artifacts, Range1
  <2>2. PICK k \in DOMAIN q : d.artifacts[m] \in Artifacts(q[k])
    BY <2>1 DEF Parts
  <2>3. PICK path, b : Part(d, q[k], path, b)
    BY DEF Parts
  <2>4. d.artifacts[m].id[1] = path
    BY <2>2, <2>3 DEF Part, Artifacts, Range1
  <2>5. m - b \in DOMAIN q[k].artifacts /\ (m - b) + b = m
    BY <2>1, <2>3, <2>4, PlacesOf
  <2>6. d.artifacts[m] = q[k].artifacts[m - b] /\ m - b \in Asked(q[k])
    BY <2>3, <2>5, AskedIsLocal
  <2>. QED  BY <2>6, QueriesAre
<1>2. ASSUME NEW k \in DOMAIN q, NEW m \in Asked(q[k]) PROVE QueryAt(q[k].artifacts[m]) \in QueryFindings(d)
  <2>1. PICK path, b : Part(d, q[k], path, b)
    BY DEF Parts
  <2>2. m \in DOMAIN q[k].artifacts
    BY DEF Asked
  <2>3. m + b \in Asked(d) /\ d.artifacts[m + b] = q[k].artifacts[m]
    BY <2>1, <2>2, AskedIsLocal
  <2>. QED  BY <2>3, QueriesAre
<1>. QED  BY <1>1, <1>2, QueriesAre

\* A record of the part is one of d, and one of d that is of the file is of the part.
Up(u, b) == <<u[1] + b, u[2]>>

LEMMA RecordsAre ==
    ASSUME NEW d, NEW q, NEW path, NEW b, Part(d, q, path, b), NEW detectors, NEW stage
    PROVE  /\ \A u \in FixationRecords(q, detectors, stage) :
                 /\ Up(u, b) \in FixationRecords(d, detectors, stage) /\ u[2].file = path /\ u[1] \in Nat
                 /\ d.artifacts[u[1] + b] = q.artifacts[u[1]]
           /\ \A u \in FixationRecords(d, detectors, stage) : u[2].file = path =>
                 \E v \in FixationRecords(q, detectors, stage) : u = Up(v, b)
<1>0. DOMAIN q.artifacts \subseteq Nat /\ DOMAIN d.artifacts \subseteq Nat /\ b \in Nat
  BY PlacesOf
<1>1. ASSUME NEW u \in FixationRecords(q, detectors, stage)
      PROVE  /\ Up(u, b) \in FixationRecords(d, detectors, stage) /\ u[2].file = path /\ u[1] \in Nat
             /\ d.artifacts[u[1] + b] = q.artifacts[u[1]]
  <2>1. PICK m \in DOMAIN q.artifacts, e \in Of(q.evidence, detectors) :
           u = <<m, e>> /\ e \in q.artifacts[m].evidence /\ e.stage = stage
    BY DEF FixationRecords
  <2>2. m + b \in DOMAIN d.artifacts /\ d.artifacts[m + b] = q.artifacts[m] /\ e.file = path
        /\ e \in Of(d.evidence, detectors)
    BY DEF Part, Of
  <2>3. Up(u, b) = <<m + b, e>>
    BY <2>1 DEF Up
  <2>4. <<m + b, e>> \in FixationRecords(d, detectors, stage)
    BY <2>1, <2>2 DEF FixationRecords
  <2>. QED  BY <1>0, <2>1, <2>2, <2>3, <2>4
<1>2. ASSUME NEW u \in FixationRecords(d, detectors, stage), u[2].file = path
      PROVE  \E v \in FixationRecords(q, detectors, stage) : u = Up(v, b)
  <2>1. PICK n \in DOMAIN d.artifacts, e \in Of(d.evidence, detectors) :
           u = <<n, e>> /\ e \in d.artifacts[n].evidence /\ e.stage = stage
    BY DEF FixationRecords
  <2>2. e.file = path /\ d.artifacts[n].id[1] = path
    BY <1>2, <2>1 DEF Part
  <2>3. n - b \in DOMAIN q.artifacts /\ (n - b) + b = n /\ d.artifacts[n] = q.artifacts[n - b]
    BY <2>2, PlacesOf
  <2>4. e \in Of(q.evidence, detectors)
    BY <2>2 DEF Part, Of
  <2>. DEFINE v == <<n - b, e>>
  <2>5. v \in FixationRecords(q, detectors, stage)
    BY <2>1, <2>3, <2>4 DEF FixationRecords
  <2>6. u = Up(v, b)
    BY <2>1, <2>3 DEF Up
  <2>. QED  BY <2>5, <2>6
<1>. QED  BY <1>1, <1>2

LEMMA RegeneratedIsLocal ==
    ASSUME NEW d, NEW q, NEW path, NEW b, Part(d, q, path, b), NEW t \in TransitionsOf(q)
    PROVE  Regenerated(d, Up(t, b)) <=> Regenerated(q, t)
<1>. DEFINE T(r) == TransitionsOf(r)
            G(r) == RegenerationsOf(r)
            w == Up(t, b)
<1>1. /\ \A u \in T(q) : /\ Up(u, b) \in T(d) /\ u[2].file = path /\ d.artifacts[u[1] + b] = q.artifacts[u[1]]
      /\ \A u \in T(d) : u[2].file = path => \E v \in T(q) : u = Up(v, b)
  BY RecordsAre DEF TransitionsOf
<1>2. /\ \A u \in G(q) : /\ Up(u, b) \in G(d) /\ u[2].file = path /\ d.artifacts[u[1] + b] = q.artifacts[u[1]]
      /\ \A u \in G(d) : u[2].file = path => \E v \in G(q) : u = Up(v, b)
  BY RecordsAre DEF RegenerationsOf
<1>3. \A u : Up(u, b)[1] = u[1] + b /\ Up(u, b)[2] = u[2]
  BY DEF Up
<1>4. \A u \in T(q) \cup G(q) : SameScope(d, w, Up(u, b)) <=> SameScope(q, t, u)
  BY <1>1, <1>2, <1>3 DEF SameScope
<1>5. \A u \in T(d) \cup G(d) : SameScope(d, w, u) => u[2].file = path
  BY <1>1, <1>3 DEF SameScope
<1>. DEFINE later(r, x) == {u[2].line : u \in {v \in T(r) : SameScope(r, x, v) /\ v[2].line > x[2].line}}
<1>6. later(d, w) = later(q, t)
  <2>1. ASSUME NEW u \in T(d), SameScope(d, w, u), u[2].line > w[2].line PROVE u[2].line \in later(q, t)
    <3>1. PICK v \in T(q) : u = Up(v, b)
      BY <1>1, <1>5, <2>1
    <3>. QED  BY <1>3, <1>4, <2>1, <3>1
  <2>2. ASSUME NEW u \in T(q), SameScope(q, t, u), u[2].line > t[2].line PROVE u[2].line \in later(d, w)
    <3>1. Up(u, b) \in T(d) /\ SameScope(d, w, Up(u, b)) /\ Up(u, b)[2] = u[2] /\ w[2] = t[2]
      BY <1>1, <1>3, <1>4, <2>2
    <3>. QED  BY <2>2, <3>1
  <2>. QED  BY <2>1, <2>2
<1>. DEFINE ends(r, x, g) == /\ SameScope(r, x, g)
                             /\ x[2].detector = "session.privilege_transition" => ~g[2].default
                             /\ g[2].line <= LastLine(x, later(r, x))
                             /\ Within(LinkDistance, x[2], g[2])
<1>7. \A r, x : Regenerated(r, x) <=> \E g \in G(r) : ends(r, x, g)
  BY DEF Regenerated
<1>8. LastLine(w, later(d, w)) = LastLine(t, later(q, t))
  BY <1>3, <1>6 DEF LastLine
<1>9. \A g \in G(q) : ends(d, w, Up(g, b)) <=> ends(q, t, g)
  <2>. HIDE DEF later, w
  <2>1. w[2] = t[2]
    BY <1>3 DEF w
  <2>. QED  BY <1>3, <1>4, <1>8, <2>1
<1>10. \A g \in G(d) : ends(d, w, g) => \E v \in G(q) : g = Up(v, b)
  BY <1>2, <1>5
<1>. HIDE DEF ends, w, G
<1>11. (\E g \in G(d) : ends(d, w, g)) <=> (\E g \in G(q) : ends(q, t, g))
  BY <1>2, <1>9, <1>10
<1>. QED  BY <1>7, <1>11 DEF w

\* The transitions without a regeneration, and the stores near one of them.
Fixed(r) == {t \in TransitionsOf(r) : ~Regenerated(r, t)}
StoresNear(r, t) == {u \in StoresOf(r) : Within(LinkDistance, t[2], u[2])}

LEMMA FixationsAre ==
    ASSUME NEW r
    PROVE  FixationFindings(r) = {FixationFinding(r, t, StoresNear(r, t)) : t \in Reported(Fixed(r))}
BY DEF FixationFindings, Fixed, StoresNear

LEMMA ReportedIsLocal ==
    ASSUME NEW d, NEW q, NEW path, NEW b, Part(d, q, path, b)
    PROVE  /\ \A t \in Reported(Fixed(q)) : Up(t, b) \in Reported(Fixed(d))
           /\ \A t \in Reported(Fixed(d)) : t[2].file = path => \E v \in Reported(Fixed(q)) : t = Up(v, b)
<1>1. /\ \A u \in TransitionsOf(q) : Up(u, b) \in TransitionsOf(d) /\ u[2].file = path /\ u[1] \in Nat
      /\ \A u \in TransitionsOf(d) : u[2].file = path => \E v \in TransitionsOf(q) : u = Up(v, b)
  BY RecordsAre DEF TransitionsOf
<1>0. b \in Nat
  BY PlacesOf
<1>2. \A t \in TransitionsOf(q) : Regenerated(d, Up(t, b)) <=> Regenerated(q, t)
  BY RegeneratedIsLocal
<1>3. /\ \A u \in Fixed(q) : Up(u, b) \in Fixed(d) /\ u[2].file = path /\ u[1] \in Nat
      /\ \A u \in Fixed(d) : u[2].file = path => \E v \in Fixed(q) : u = Up(v, b)
  BY <1>1, <1>2 DEF Fixed
<1>4. \A u : Up(u, b)[1] = u[1] + b /\ Up(u, b)[2] = u[2]
  BY DEF Up
<1>. DEFINE before(u, t) == /\ u[1] < t[1] /\ u[2].detector = t[2].detector
                            /\ u[2].file = t[2].file /\ u[2].line = t[2].line
<1>5. \A T : Reported(T) = {t \in T : ~\E u \in T : before(u, t)}
  BY DEF Reported
<1>6. \A u, t \in Fixed(q) : before(Up(u, b), Up(t, b)) <=> before(u, t)
  <2>. TAKE u, t \in Fixed(q)
  <2>1. u[1] + b < t[1] + b <=> u[1] < t[1]
    <3>1. u[1] \in Nat /\ t[1] \in Nat /\ b \in Nat
      BY <1>0, <1>3
    <3>. QED  BY <3>1
  <2>. QED  BY <1>4, <2>1
<1>7. \A u, t : before(u, t) => u[2].file = t[2].file
  OBVIOUS
<1>. HIDE DEF before
<1>8. ASSUME NEW t \in Reported(Fixed(q)) PROVE Up(t, b) \in Reported(Fixed(d))
  <2>1. t \in Fixed(q) /\ Up(t, b) \in Fixed(d)
    BY <1>3, <1>5
  <2>2. ASSUME NEW u \in Fixed(d), before(u, Up(t, b)) PROVE FALSE
    <3>1. PICK v \in Fixed(q) : u = Up(v, b)
      BY <1>3, <1>4, <1>7, <2>1, <2>2
    <3>. QED  BY <1>5, <1>6, <2>1, <2>2, <3>1
  <2>. QED  BY <1>5, <2>1, <2>2
<1>9. ASSUME NEW t \in Reported(Fixed(d)), t[2].file = path PROVE \E v \in Reported(Fixed(q)) : t = Up(v, b)
  <2>1. PICK v \in Fixed(q) : t = Up(v, b)
    BY <1>3, <1>5, <1>9
  <2>2. ASSUME NEW u \in Fixed(q), before(u, v) PROVE FALSE
    BY <1>3, <1>5, <1>6, <1>9, <2>1, <2>2
  <2>3. v \in Reported(Fixed(q))
    BY <1>5, <2>2
  <2>. QED  BY <2>1, <2>3
<1>. QED  BY <1>8, <1>9

LEMMA FixationOfPart ==
    ASSUME NEW d, NEW q, NEW path, NEW b, Part(d, q, path, b), NEW t \in TransitionsOf(q)
    PROVE  FixationFinding(d, Up(t, b), StoresNear(d, Up(t, b))) = FixationFinding(q, t, StoresNear(q, t))
<1>. DEFINE w == Up(t, b)
            S == StoresNear(q, t) \cup {t}
            R == StoresNear(d, w) \cup {w}
<1>1. Up(t, b)[2] = t[2] /\ t[2].file = path /\ d.artifacts[t[1] + b] = q.artifacts[t[1]]
  <2>1. t[2].file = path /\ d.artifacts[t[1] + b] = q.artifacts[t[1]]
    BY RecordsAre DEF TransitionsOf
  <2>. QED  BY <2>1 DEF Up
<1>2. /\ \A u \in StoresOf(q) : Up(u, b) \in StoresOf(d) /\ d.artifacts[u[1] + b] = q.artifacts[u[1]]
      /\ \A u \in StoresOf(d) : u[2].file = path => \E v \in StoresOf(q) : u = Up(v, b)
  BY RecordsAre DEF StoresOf
<1>3. \A u : Up(u, b)[1] = u[1] + b /\ Up(u, b)[2] = u[2]
  BY DEF Up
<1>4. \A u \in StoresNear(d, w) : u[2].file = path
  BY <1>1 DEF StoresNear, Within
<1>5. \A u \in S : Up(u, b) \in R /\ d.artifacts[u[1] + b] = q.artifacts[u[1]]
  BY <1>1, <1>2, <1>3 DEF StoresNear
<1>6. ASSUME NEW u \in R PROVE \E v \in S : u = Up(v, b)
  <2>1. CASE u = w
    BY <2>1
  <2>2. CASE u \in StoresNear(d, w)
    <3>1. u \in StoresOf(d) /\ u[2].file = path /\ Within(LinkDistance, w[2], u[2])
      BY <1>4, <2>2 DEF StoresNear
    <3>2. PICK v \in StoresOf(q) : u = Up(v, b)
      BY <1>2, <3>1
    <3>3. v \in StoresNear(q, t)
      BY <1>1, <1>3, <3>1, <3>2 DEF StoresNear
    <3>. QED  BY <3>2, <3>3
  <2>. QED  BY <2>1, <2>2
<1>. DEFINE evidence(U) == {u[2] : u \in U}
            about(r, U) == {r.artifacts[u[1]].id : u \in U}
<1>. HIDE DEF S, R
<1>7. evidence(R) = evidence(S) /\ about(d, R) = about(q, S)
  <2>1. \A v \in S : Up(v, b)[2] = v[2] /\ d.artifacts[Up(v, b)[1]].id = q.artifacts[v[1]].id
    BY <1>3, <1>5
  <2>2. evidence(R) \subseteq evidence(S) /\ evidence(S) \subseteq evidence(R)
    BY <1>5, <1>6, <2>1
  <2>3. about(d, R) \subseteq about(q, S)
    BY <1>6, <2>1
  <2>4. about(q, S) \subseteq about(d, R)
    BY <1>5, <2>1
  <2>. HIDE DEF evidence, about
  <2>. QED  BY <2>2, <2>3, <2>4
<1>. HIDE DEF evidence, about
<1>8. \A r, x, U : FixationFinding(r, x, U) =
         LET rule == IF x[2].detector = "session.privilege_transition" THEN PrivilegeRule ELSE LoginRule
             ids == Ids(evidence(U \cup {x}))
         IN [rule |-> rule, category |-> Review, severity |-> "medium",
             artifacts |-> about(r, U \cup {x}), evidence |-> ids,
             id |-> <<rule, x[2].file, x[2].line, ids, x[2].detector>>]
  BY DEF FixationFinding, evidence, about
<1>. QED  BY <1>1, <1>7, <1>8 DEF R, S

LEMMA FixationIsLocal ==
    ASSUME NEW d, NEW q, Parts(d, q)
    PROVE  FixationFindings(d) = UNION {FixationFindings(q[k]) : k \in DOMAIN q}
<1>0. \A r : Reported(Fixed(r)) \subseteq TransitionsOf(r)
  BY DEF Reported, Fixed
<1>1. ASSUME NEW t \in Reported(Fixed(d))
      PROVE  \E k \in DOMAIN q : FixationFinding(d, t, StoresNear(d, t)) \in FixationFindings(q[k])
  <2>1. t[2] \in d.evidence
    BY <1>0 DEF TransitionsOf, FixationRecords, Of
  <2>2. PICK k \in DOMAIN q : t[2] \in q[k].evidence
    BY <2>1 DEF Parts
  <2>3. PICK path, b : Part(d, q[k], path, b)
    BY DEF Parts
  <2>4. t[2].file = path
    BY <2>2, <2>3 DEF Part
  <2>5. PICK v \in Reported(Fixed(q[k])) : t = Up(v, b)
    BY <2>3, <2>4, ReportedIsLocal
  <2>6. FixationFinding(d, t, StoresNear(d, t)) = FixationFinding(q[k], v, StoresNear(q[k], v))
    BY <1>0, <2>3, <2>5, FixationOfPart
  <2>. QED  BY <2>5, <2>6, FixationsAre
<1>2. ASSUME NEW k \in DOMAIN q, NEW t \in Reported(Fixed(q[k]))
      PROVE  FixationFinding(q[k], t, StoresNear(q[k], t)) \in FixationFindings(d)
  <2>1. PICK path, b : Part(d, q[k], path, b)
    BY DEF Parts
  <2>2. Up(t, b) \in Reported(Fixed(d))
    BY <2>1, ReportedIsLocal
  <2>3. FixationFinding(d, Up(t, b), StoresNear(d, Up(t, b))) = FixationFinding(q[k], t, StoresNear(q[k], t))
    BY <1>0, <2>1, FixationOfPart
  <2>. QED  BY <2>2, <2>3, FixationsAre
<1>. QED  BY <1>1, <1>2, FixationsAre

\* The rules of FileFindings, each of them local.
LEMMA RulesAreLocal ==
    ASSUME NEW d, NEW q, Parts(d, q)
    PROVE  FileFindings(d) = UNION {FileFindings(q[k]) : k \in DOMAIN q}
<1>. DEFINE cookie(a) == PrefixRules(a) \cup SameSiteRules(a) \cup LifetimeRules(a)
                         \cup PartitionedRules(a) \cup ScopeRules(a)
                         \cup (IF SessionLike(a) THEN HttpOnlyRules(a) \cup ExpiryRules(a) ELSE {})
                         \cup (IF a.name # NoName THEN SecureRules(a) ELSE {})
            jwt(a) == DecodeRules(a)
                      \cup (IF Validating(a) = {} THEN {}
                            ELSE AlgNoneRules(a) \cup AlgConfusionRules(a) \cup HeaderTrustRules(a)
                                 \cup NbfClockKidRules(a)
                                 \cup ValidationRules(a, a.jwt["issuer"], "jwt_missing_issuer", "jwt_dynamic_issuer")
                                 \cup ValidationRules(a, a.jwt["audience"], "jwt_missing_audience",
                                                      "jwt_dynamic_audience"))
                      \cup (IF Issuing(a) = {} THEN {} ELSE ExpirationRules(a))
                      \cup (IF Validating(a) \cup Inspecting(a) = {} THEN {} ELSE ExpiryEnforcementRules(a))
            flow(a) == Fire(a, FlowRules(a))
            isFlow(a) == a.type = "OAuthAuthCodeFlow" /\ HasDetector(a.evidence, "oauth.flow.auth_code")
            cookies(r) == UNION {cookie(a) : a \in {b \in Artifacts(r) : b.cookie # NoAttributes}}
            jwts(r) == UNION {jwt(a) : a \in {b \in Artifacts(r) : b.jwt # NoAttributes}}
            flows(r) == UNION {flow(a) : a \in {b \in Artifacts(r) : isFlow(b)}}
<1>1. \A r : CookieFindings(r) = ConflictRules(r) \cup cookies(r)
  BY DEF CookieFindings
<1>2. \A r : JwtFindings(r) = jwts(r)
  BY DEF JwtFindings
<1>3. \A r : OAuthFindings(r) = flows(r)
  BY DEF OAuthFindings
<1>. HIDE DEF cookie, jwt, flow, isFlow
<1>4. Artifacts(d) = UNION {Artifacts(q[k]) : k \in DOMAIN q}
  BY DEF Parts
<1>5. cookies(d) = UNION {cookies(q[k]) : k \in DOMAIN q}
  BY <1>4
<1>6. jwts(d) = UNION {jwts(q[k]) : k \in DOMAIN q}
  BY <1>4
<1>7. flows(d) = UNION {flows(q[k]) : k \in DOMAIN q}
  BY <1>4
<1>. HIDE DEF cookies, jwts, flows
<1>8. \A r : FileFindings(r) = ConflictRules(r) \cup cookies(r) \cup jwts(r) \cup StorageFindings(r) \cup QueryFindings(r)
                               \cup flows(r) \cup FixationFindings(r)
  BY <1>1, <1>2, <1>3 DEF FileFindings
<1>9. /\ ConflictRules(d) = UNION {ConflictRules(q[k]) : k \in DOMAIN q}
      /\ StorageFindings(d) = UNION {StorageFindings(q[k]) : k \in DOMAIN q}
      /\ QueryFindings(d) = UNION {QueryFindings(q[k]) : k \in DOMAIN q}
      /\ FixationFindings(d) = UNION {FixationFindings(q[k]) : k \in DOMAIN q}
  BY ConflictsAreLocal, StorageIsLocal, QueryIsLocal, FixationIsLocal
<1>10. ASSUME NEW g
       PROVE  /\ g \in ConflictRules(d) <=> \E k \in DOMAIN q : g \in ConflictRules(q[k])
              /\ g \in cookies(d) <=> \E k \in DOMAIN q : g \in cookies(q[k])
              /\ g \in jwts(d) <=> \E k \in DOMAIN q : g \in jwts(q[k])
              /\ g \in StorageFindings(d) <=> \E k \in DOMAIN q : g \in StorageFindings(q[k])
              /\ g \in QueryFindings(d) <=> \E k \in DOMAIN q : g \in QueryFindings(q[k])
              /\ g \in flows(d) <=> \E k \in DOMAIN q : g \in flows(q[k])
              /\ g \in FixationFindings(d) <=> \E k \in DOMAIN q : g \in FixationFindings(q[k])
  BY <1>5, <1>6, <1>7, <1>9
<1>11. ASSUME NEW g PROVE g \in FileFindings(d) <=> \E k \in DOMAIN q : g \in FileFindings(q[k])
  BY <1>8, <1>10
<1>. QED  BY <1>11

\* A sequence of which all blocks but one are empty is that block.
LEMMA OnlyBlock ==
    ASSUME NEW ss, IsSequences(ss), NEW k \in 1..Len(ss), \A j \in 1..Len(ss) : j # k => ss[j] = <<>>
    PROVE  FlattenSeq(ss) = ss[k]
<1>. DEFINE s == FlattenSeq(ss)
            t == ss[k]
<1>1. PICK at : Blocks(ss, at)
  BY FlattenBlocks
<1>. DEFINE b == at[k - 1]
<1>2. IsSequence(s) /\ IsSequence(t) /\ b \in Nat
  BY <1>1 DEF Blocks, IsSequences
<1>3. ASSUME NEW m \in 1..Len(s) PROVE \E j \in 1..Len(t) : m = b + j
  <2>1. PICK i \in 1..Len(ss) : \E j \in 1..Len(ss[i]) : m = at[i - 1] + j
    BY <1>1 DEF Blocks
  <2>2. i = k
    <3>1. 1..Len(<<>>) = {}
      BY EmptyIsOne
    <3>. QED  BY <2>1, <3>1
  <2>. QED  BY <2>1, <2>2
<1>4. \A j \in 1..Len(t) : b + j \in 1..Len(s) /\ s[b + j] = t[j]
  BY <1>1 DEF Blocks
<1>. HIDE DEF s, t, b
<1>5. Len(s) \in Nat /\ Len(t) \in Nat /\ s = [m \in 1..Len(s) |-> s[m]] /\ t = [m \in 1..Len(t) |-> t[m]]
  BY <1>2, SequenceForm
<1>6. CASE Len(s) = 0
  <2>1. Len(t) = 0
    <3>1. ~(1 \in 1..Len(t))
      BY <1>2, <1>4, <1>5, <1>6
    <3>. QED  BY <1>5, <3>1
  <2>2. 1..Len(s) = {} /\ 1..Len(t) = {}
    BY <1>6, <2>1
  <2>. QED  BY <1>5, <1>6, <2>1 DEF s, t
<1>7. CASE Len(s) # 0
  <2>1. b = 0
    <3>1. 1 \in 1..Len(s)
      BY <1>5, <1>7
    <3>2. PICK j \in 1..Len(t) : 1 = b + j
      BY <1>3, <3>1
    <3>. QED  BY <1>2, <1>5, <3>2
  <2>2. \A m \in 1..Len(s) : m \in 1..Len(t)
    <3>. TAKE m \in 1..Len(s)
    <3>1. PICK j \in 1..Len(t) : m = b + j
      BY <1>3
    <3>. QED  BY <1>5, <2>1, <3>1
  <2>3. \A j \in 1..Len(t) : j \in 1..Len(s) /\ s[j] = t[j]
    <3>. TAKE j \in 1..Len(t)
    <3>1. b + j = j
      BY <1>5, <2>1
    <3>. QED  BY <1>4, <3>1
  <2>4. 1..Len(s) = 1..Len(t)
    BY <2>2, <2>3
  <2>5. [m \in 1..Len(s) |-> s[m]] = [m \in 1..Len(t) |-> t[m]]
    BY <2>3, <2>4
  <2>. QED  BY <1>5, <2>5 DEF s, t
<1>. QED  BY <1>6, <1>7

\* What a scan of some of the files gives: their artifacts one file after the other.
LEMMA DetectedIs ==
    ASSUME Written, NEW K \in SUBSET (DOMAIN Files)
    PROVE  \E ss : /\ IsSequences(ss) /\ DOMAIN ss = DOMAIN Files /\ DOMAIN Files = 1..Len(ss)
                   /\ \A k \in DOMAIN Files : ss[k] = IF k \in K THEN Detect(FileOf(k)) ELSE <<>>
                   /\ Detected(code, K).artifacts = FlattenSeq(ss)
                   /\ Detected(code, K).evidence =
                        (UNION {Loose(FileOf(k)) : k \in K}) \cup (UNION {a.evidence : a \in Range1(FlattenSeq(ss))})
<1>. DEFINE ss == [k \in DOMAIN Files |-> IF k \in K THEN Detect(Read(code, k)) ELSE <<>>]
            loose == UNION {Loose(Read(code, k)) : k \in K}
<1>1. DOMAIN ss = DOMAIN Files /\ ss = [k \in DOMAIN Files |-> ss[k]]
      /\ \A k \in DOMAIN Files : ss[k] = IF k \in K THEN Detect(FileOf(k)) ELSE <<>>
  BY DEF FileOf
<1>2. Detected(code, K) = Joined(FlattenSeq(ss), loose)
  BY DEF Detected
<1>. HIDE DEF ss
<1>3. Detected(code, K).artifacts = FlattenSeq(ss)
      /\ Detected(code, K).evidence = loose \cup UNION {a.evidence : a \in Range1(FlattenSeq(ss))}
  BY <1>2 DEF Joined
<1>4. loose = UNION {Loose(FileOf(k)) : k \in K}
  BY DEF FileOf
<1>5. IsSequence(Files) /\ DOMAIN Files = 1..Len(Files)
  BY FilesAre, SequenceForm
<1>6. IsSequence(ss) /\ Len(ss) = Len(Files)
  BY <1>1, <1>5, IndexedIsOne
<1>7. \A k \in DOMAIN Files : IsSequence(ss[k])
  <2>1. \A k \in DOMAIN Files : IsSequence(Detect(FileOf(k)))
    BY DetectIs DEF Written, Found
  <2>. QED  BY <1>1, <2>1, EmptyIsOne
<1>8. IsSequences(ss)
  BY <1>5, <1>6, <1>7 DEF IsSequences
<1>. HIDE DEF loose
<1>. QED  BY <1>1, <1>3, <1>4, <1>5, <1>6, <1>8

\* What a scan of one file gives: what is found in it.
LEMMA OneDetectedIs ==
    ASSUME Written, NEW k \in DOMAIN Files
    PROVE  /\ Detected(code, {k}).artifacts = Detect(FileOf(k))
           /\ Detected(code, {k}).evidence = Loose(FileOf(k)) \cup UNION {a.evidence : a \in Range1(Detect(FileOf(k)))}
<1>1. PICK ss : /\ IsSequences(ss) /\ DOMAIN ss = DOMAIN Files /\ DOMAIN Files = 1..Len(ss)
                /\ \A j \in DOMAIN Files : ss[j] = IF j \in {k} THEN Detect(FileOf(j)) ELSE <<>>
                /\ Detected(code, {k}).artifacts = FlattenSeq(ss)
                /\ Detected(code, {k}).evidence =
                     (UNION {Loose(FileOf(j)) : j \in {k}}) \cup (UNION {a.evidence : a \in Range1(FlattenSeq(ss))})
  BY DetectedIs
<1>2. FlattenSeq(ss) = ss[k]
  BY <1>1, OnlyBlock
<1>3. ss[k] = Detect(FileOf(k))
  BY <1>1
<1>4. UNION {Loose(FileOf(j)) : j \in {k}} = Loose(FileOf(k))
  OBVIOUS
<1>. QED  BY <1>1, <1>2, <1>3, <1>4

LEMMA ReportHasParts ==
    ASSUME Written
    PROVE  Parts(Detected(code, DOMAIN Files), [k \in DOMAIN Files |-> Detected(code, {k})])
<1>. DEFINE d == Detected(code, DOMAIN Files)
            q == [k \in DOMAIN Files |-> Detected(code, {k})]
<1>1. PICK ss : /\ IsSequences(ss) /\ DOMAIN ss = DOMAIN Files /\ DOMAIN Files = 1..Len(ss)
                /\ \A k \in DOMAIN Files : ss[k] = IF k \in DOMAIN Files THEN Detect(FileOf(k)) ELSE <<>>
                /\ d.artifacts = FlattenSeq(ss)
                /\ d.evidence = (UNION {Loose(FileOf(k)) : k \in DOMAIN Files})
                                  \cup (UNION {a.evidence : a \in Range1(FlattenSeq(ss))})
  BY DetectedIs
<1>2. PICK at : Blocks(ss, at)
  BY <1>1, FlattenBlocks
<1>3. DOMAIN q = DOMAIN Files /\ \A k \in DOMAIN Files : q[k] = Detected(code, {k})
  OBVIOUS
<1>. HIDE DEF d, q
<1>4. ASSUME NEW k \in DOMAIN Files
      PROVE  /\ ss[k] = Detect(FileOf(k)) /\ q[k].artifacts = ss[k] /\ IsSequence(ss[k]) /\ DOMAIN ss[k] = 1..Len(ss[k])
             /\ q[k].evidence = Loose(FileOf(k)) \cup UNION {a.evidence : a \in Range1(ss[k])}
             /\ \A i \in 1..Len(ss[k]) : /\ ss[k][i].id[1] = Files[k].path
                                         /\ \A e \in ss[k][i].evidence : e.file = Files[k].path
             /\ \A e \in q[k].evidence : e.file = Files[k].path
  <2>1. ss[k] = Detect(FileOf(k))
    BY <1>1
  <2>2. Found(FileOf(k), ss[k], Cookie!CookieCalls(FileOf(k)))
    BY <2>1, DetectIs DEF Written
  <2>3. FileOf(k).path = Files[k].path
    BY FilesAre
  <2>4. IsSequence(ss[k]) /\ DOMAIN ss[k] = 1..Len(ss[k])
    BY <2>2, SequenceForm DEF Found
  <2>5. \A i \in 1..Len(ss[k]) : /\ ss[k][i].id[1] = Files[k].path
                                 /\ \A e \in ss[k][i].evidence : e.file = Files[k].path
    BY <2>2, <2>3 DEF Found, Shown, Placed
  <2>6. q[k].artifacts = ss[k] /\ q[k].evidence = Loose(FileOf(k)) \cup UNION {a.evidence : a \in Range1(ss[k])}
    BY <1>3, <2>1, OneDetectedIs
  <2>7. \A e \in Loose(FileOf(k)) : e.file = Files[k].path
    BY <2>3, LooseIs DEF Placed
  <2>8. \A e \in q[k].evidence : e.file = Files[k].path
    BY <2>4, <2>5, <2>6, <2>7 DEF Range1
  <2>. QED  BY <2>1, <2>4, <2>5, <2>6, <2>8, Zenon
<1>5. IsSequence(d.artifacts) /\ DOMAIN d.artifacts = 1..Len(d.artifacts)
      /\ Artifacts(d) = UNION {Range1(ss[k]) : k \in DOMAIN Files}
  BY <1>1, FlattenIsOne, SequenceForm DEF Artifacts
<1>6. ASSUME NEW n \in DOMAIN d.artifacts
      PROVE  \E k \in DOMAIN Files : \E i \in 1..Len(ss[k]) : n = at[k - 1] + i /\ d.artifacts[n] = ss[k][i]
  <2>1. PICK k \in 1..Len(ss) : \E i \in 1..Len(ss[k]) : n = at[k - 1] + i
    BY <1>1, <1>2, <1>5 DEF Blocks
  <2>2. PICK i \in 1..Len(ss[k]) : n = at[k - 1] + i
    BY <2>1
  <2>3. FlattenSeq(ss)[at[k - 1] + i] = ss[k][i]
    BY <1>2 DEF Blocks
  <2>. QED  BY <1>1, <2>2, <2>3
<1>7. d.evidence = UNION {q[k].evidence : k \in DOMAIN Files}
  <2>1. UNION {a.evidence : a \in Artifacts(d)} = UNION {UNION {a.evidence : a \in Range1(ss[k])} : k \in DOMAIN Files}
    BY <1>5
  <2>2. d.evidence = (UNION {Loose(FileOf(k)) : k \in DOMAIN Files}) \cup (UNION {a.evidence : a \in Artifacts(d)})
    BY <1>1 DEF Artifacts
  <2>. QED  BY <1>4, <2>1, <2>2
<1>8. Artifacts(d) = UNION {Artifacts(q[k]) : k \in DOMAIN Files}
  BY <1>4, <1>5 DEF Artifacts
<1>9. ASSUME NEW k \in DOMAIN Files PROVE Part(d, q[k], Files[k].path, at[k - 1])
  <2>. DEFINE b == at[k - 1]
              path == Files[k].path
  <2>1. b \in Nat
    BY <1>1, <1>2 DEF Blocks
  <2>2. ASSUME NEW m \in DOMAIN q[k].artifacts
        PROVE  m + b \in DOMAIN d.artifacts /\ d.artifacts[m + b] = q[k].artifacts[m] /\ q[k].artifacts[m].id[1] = path
    <3>1. m \in 1..Len(ss[k]) /\ q[k].artifacts[m] = ss[k][m]
      BY <1>4
    <3>2. b + m \in 1..Len(FlattenSeq(ss)) /\ FlattenSeq(ss)[b + m] = ss[k][m]
      BY <1>1, <1>2, <3>1 DEF Blocks
    <3>3. b + m = m + b
      BY <2>1, <3>1, <1>4, SequenceForm
    <3>. QED  BY <1>1, <1>4, <1>5, <3>1, <3>2, <3>3
  <2>3. ASSUME NEW n \in DOMAIN d.artifacts, d.artifacts[n].id[1] = path PROVE n - b \in DOMAIN q[k].artifacts
    <3>1. PICK j \in DOMAIN Files : \E i \in 1..Len(ss[j]) : n = at[j - 1] + i /\ d.artifacts[n] = ss[j][i]
      BY <1>6
    <3>2. PICK i \in 1..Len(ss[j]) : n = at[j - 1] + i /\ d.artifacts[n] = ss[j][i]
      BY <3>1
    <3>3. j = k
      BY <1>4, <2>3, <3>2, FilesAre
    <3>4. n = b + i /\ i \in 1..Len(ss[k])
      BY <3>2, <3>3
    <3>5. n - b = i
      BY <2>1, <3>4, <1>4, SequenceForm
    <3>. QED  BY <1>4, <3>4, <3>5
  <2>4. ASSUME NEW n \in DOMAIN d.artifacts, NEW e \in d.artifacts[n].evidence PROVE e.file = d.artifacts[n].id[1]
    <3>1. PICK j \in DOMAIN Files : \E i \in 1..Len(ss[j]) : n = at[j - 1] + i /\ d.artifacts[n] = ss[j][i]
      BY <1>6
    <3>. QED  BY <1>4, <2>4, <3>1
  <2>5. q[k].evidence = {e \in d.evidence : e.file = path}
    <3>1. \A j \in DOMAIN Files : \A e \in q[j].evidence : e.file = path => j = k
      BY <1>4, FilesAre
    <3>. QED  BY <1>4, <1>7, <3>1
  <2>6. IsSequence(q[k].artifacts)
    BY <1>4
  <2>. HIDE DEF b, path
  <2>7. Part(d, q[k], path, b)
    BY <1>5, <2>1, <2>2, <2>3, <2>4, <2>5, <2>6 DEF Part
  <2>. QED  BY <2>7 DEF b, path
<1>10. Parts(d, q)
  BY <1>3, <1>7, <1>8, <1>9 DEF Parts
<1>. QED  BY <1>10 DEF d, q

LEMMA WrittenIsLocal ==
    ASSUME Written
    PROVE  LocalRules
<1>. DEFINE d == Detected(code, DOMAIN Files)
            q == [k \in DOMAIN Files |-> Detected(code, {k})]
<1>1. Parts(d, q)
  BY ReportHasParts
<1>2. DOMAIN q = DOMAIN Files /\ \A k \in DOMAIN Files : q[k] = Detected(code, {k})
  OBVIOUS
<1>3. report.artifacts = d.artifacts /\ report.evidence = d.evidence
  BY TheReport
<1>. HIDE DEF d, q
<1>4. FileFindings(report) = FileFindings(d)
  BY <1>3 DEF FileFindings, CookieFindings, JwtFindings, StorageFindings, QueryFindings, OAuthFindings, FixationFindings,
              ConflictRules, Artifacts, AllEvidence, TransitionsOf, RegenerationsOf, StoresOf, FixationRecords,
              FixationFinding, Regenerated, SameScope
<1>5. FileFindings(d) = UNION {FileFindings(q[k]) : k \in DOMAIN q}
  BY <1>1, RulesAreLocal
<1>. QED  BY <1>2, <1>4, <1>5 DEF LocalRules

\* The rules about cookies, JWTs, flows, what the browser stores, query parameters and
\* sessions judge each file by itself: the findings of the report are those of its files,
\* each read alone, and no other file adds or hides one.
THEOREM AuditLocal == Spec => []LocalRules
<1>1. Written => LocalRules
  BY WrittenIsLocal
<1>. QED  BY <1>1, AuditWritten, PTL

-----------------------------------------------------------------------------
(* The nodes around a node.                                                 *)

\* The node around a node comes before it.
IsTree(f) == IsFile(f) /\ \A m \in DOMAIN f.nodes : f.nodes[m].within \in 0..(m - 1)

\* Up to the n-th node, each with what is around it, and with 0.
Chained(nodes, A, n) ==
    /\ A = [m \in 0..n |-> A[m]]
    /\ A[0] = {0}
    /\ \A m \in 1..n : A[m] = {m} \cup A[nodes[m].within]

LEMMA ChainsExist ==
    ASSUME NEW nodes, NEW N \in Nat, \A m \in 1..N : nodes[m].within \in 0..(m - 1)
    PROVE  \E A : Chained(nodes, A, N)
<1>. DEFINE S == {n \in Nat : n <= N => \E A : Chained(nodes, A, n)}
<1>1. 0 \in S
  <2>. DEFINE h == [m \in 0..0 |-> {0}]
  <2>1. Chained(nodes, h, 0)
    BY DEF Chained
  <2>. QED  BY <2>1
<1>2. ASSUME NEW n \in S PROVE n + 1 \in S
  <2>1. n \in Nat /\ n + 1 \in Nat
    OBVIOUS
  <2>. SUFFICES ASSUME n + 1 <= N PROVE \E A : Chained(nodes, A, n + 1)
    BY <2>1
  <2>2. PICK A : Chained(nodes, A, n)
    BY <2>1
  <2>. DEFINE w(m) == nodes[m].within
              h == [m \in 0..(n + 1) |-> IF m = n + 1 THEN {n + 1} \cup A[w(n + 1)] ELSE A[m]]
  <2>3. h = [m \in 0..(n + 1) |-> h[m]]
    OBVIOUS
  <2>4. \A m \in 0..n : h[m] = A[m]
    BY <2>1
  <2>5. h[n + 1] = {n + 1} \cup A[w(n + 1)]
    <3>1. n + 1 \in 0..(n + 1)
      BY <2>1
    <3>. QED  BY <3>1, Zenon
  <2>6. \A m \in 1..(n + 1) : w(m) \in 0..n /\ (m # n + 1 => m \in 1..n)
    BY <2>1
  <2>. HIDE DEF h, w
  <2>7. h[0] = {0}
    BY <2>1, <2>2, <2>4 DEF Chained
  <2>8. ASSUME NEW m \in 1..(n + 1) PROVE h[m] = {m} \cup h[w(m)]
    <3>1. CASE m = n + 1
      BY <2>4, <2>5, <2>6, <3>1
    <3>2. CASE m # n + 1
      <4>1. m \in 1..n /\ m \in 0..n /\ w(m) \in 0..n
        BY <2>1, <2>6, <3>2
      <4>2. A[m] = {m} \cup A[w(m)]
        BY <2>2, <4>1 DEF Chained, w
      <4>. QED  BY <2>4, <4>1, <4>2
    <3>. QED  BY <3>1, <3>2
  <2>9. Chained(nodes, h, n + 1)
    BY <2>3, <2>7, <2>8 DEF Chained, w
  <2>. QED  BY <2>9
<1>3. S \in SUBSET Nat
  OBVIOUS
<1>. HIDE DEF S
<1>4. S = Nat
  BY <1>1, <1>2, <1>3, AllNat
<1>5. N \in S /\ N <= N
  BY <1>4
<1>. QED  BY <1>5 DEF S

\* A node is in its own chain, which holds those of its nodes; of two nodes of a
\* chain one is in that of the other.
Linked(A, m) ==
    /\ A[m] \subseteq 0..m /\ m \in A[m]
    /\ \A x \in A[m] : A[x] \subseteq A[m]
    /\ \A x, y \in A[m] : x \in A[y] \/ y \in A[x]

LEMMA ChainsAreLinked ==
    ASSUME NEW nodes, NEW N \in Nat, \A m \in 1..N : nodes[m].within \in 0..(m - 1),
           NEW A, Chained(nodes, A, N)
    PROVE  \A m \in 0..N : Linked(A, m)
<1>. DEFINE S == {n \in Nat : \A m \in 0..n : m <= N => Linked(A, m)}
<1>1. 0 \in S
  <2>1. A[0] = {0}
    BY DEF Chained
  <2>2. Linked(A, 0)
    BY <2>1 DEF Linked
  <2>3. \A m \in 0..0 : m = 0
    OBVIOUS
  <2>. QED  BY <2>2, <2>3
<1>2. ASSUME NEW n \in S PROVE n + 1 \in S
  <2>1. n \in Nat /\ n + 1 \in Nat /\ \A m \in 0..n : m <= N => Linked(A, m)
    OBVIOUS
  <2>2. ASSUME n + 1 <= N PROVE Linked(A, n + 1)
    <3>. DEFINE k == n + 1
                w == nodes[k].within
    <3>1. A[k] = {k} \cup A[w] /\ w \in 0..n /\ w <= N
      <4>1. k \in 1..N /\ k - 1 = n
        BY <2>1, <2>2
      <4>2. w \in 0..n
        BY <4>1
      <4>. QED  BY <2>1, <2>2, <4>1, <4>2 DEF Chained
    <3>2. Linked(A, w)
      BY <2>1, <3>1
    <3>3. 0..w \subseteq 0..k /\ k \in 0..k
      BY <2>1, <3>1
    <3>. HIDE DEF k, w
    <3>. QED  BY <3>1, <3>2, <3>3 DEF Linked, k
  <2>3. \A m \in 0..(n + 1) : m \in 0..n \/ m = n + 1
    BY <2>1
  <2>. QED  BY <2>1, <2>2, <2>3
<1>3. S \in SUBSET Nat
  OBVIOUS
<1>. HIDE DEF S
<1>4. S = Nat
  BY <1>1, <1>2, <1>3, AllNat
<1>5. N \in S /\ \A m \in 0..N : m <= N
  BY <1>4
<1>. QED  BY <1>5 DEF S

\* What comes later changes no chain.
Begins(nodes, more, N) == \A m \in 1..N : nodes[m].within \in 0..(m - 1) /\ more[m] = nodes[m]

LEMMA ChainsAgree ==
    ASSUME NEW nodes, NEW more, NEW N \in Nat, NEW M \in Nat, N <= M, Begins(nodes, more, N),
           NEW A, Chained(nodes, A, N), NEW B, Chained(more, B, M)
    PROVE  \A m \in 0..N : B[m] = A[m]
<1>. DEFINE S == {n \in Nat : \A m \in 0..n : m <= N => B[m] = A[m]}
<1>1. 0 \in S
  <2>1. A[0] = B[0]
    BY DEF Chained
  <2>2. \A m \in 0..0 : m = 0
    OBVIOUS
  <2>. QED  BY <2>1, <2>2
<1>2. ASSUME NEW n \in S PROVE n + 1 \in S
  <2>1. n \in Nat /\ n + 1 \in Nat /\ \A m \in 0..n : m <= N => B[m] = A[m]
    OBVIOUS
  <2>2. ASSUME n + 1 <= N PROVE B[n + 1] = A[n + 1]
    <3>. DEFINE k == n + 1
                w == nodes[k].within
    <3>1. k \in 1..N /\ k \in 1..M /\ k - 1 = n
      BY <2>1, <2>2
    <3>2. w \in 0..n /\ w <= N /\ more[k] = nodes[k]
      BY <2>1, <2>2, <3>1 DEF Begins
    <3>3. A[k] = {k} \cup A[w] /\ B[k] = {k} \cup B[w]
      BY <3>1, <3>2 DEF Chained
    <3>4. B[w] = A[w]
      BY <2>1, <3>2
    <3>. QED  BY <3>3, <3>4
  <2>3. \A m \in 0..(n + 1) : m \in 0..n \/ m = n + 1
    BY <2>1
  <2>. QED  BY <2>1, <2>2, <2>3
<1>3. S \in SUBSET Nat
  OBVIOUS
<1>. HIDE DEF S
<1>4. S = Nat
  BY <1>1, <1>2, <1>3, AllNat
<1>5. N \in S /\ \A m \in 0..N : m <= N
  BY <1>4
<1>. QED  BY <1>5 DEF S

\* The functions that are open at the end of a file are of it.
LEMMA OpenIs ==
    ASSUME NEW nodes, IsTree([nodes |-> nodes])
    PROVE  Open(nodes) \subseteq 0..Len(nodes)
<1>. DEFINE N == Len(nodes)
            Around(A) == A = [m \in 0..N |-> {m} \cup (IF m = 0 THEN {} ELSE A[nodes[m].within])]
            around == CHOOSE A : Around(A)
<1>1. Open(nodes) = IF N = 0 THEN {0}
                    ELSE IF nodes[N].kind \in {"Function", "Route"} THEN around[N] ELSE around[nodes[N].within]
  BY DEF Open
<1>2. N \in Nat /\ \A m \in 1..N : nodes[m].within \in 0..(m - 1)
  BY SequenceForm DEF IsTree, IsFile
<1>. HIDE DEF N
<1>3. \E A : Around(A)
  <2>1. PICK A : Chained(nodes, A, N)
    BY <1>2, ChainsExist
  <2>2. \A m \in 0..N : A[m] = {m} \cup (IF m = 0 THEN {} ELSE A[nodes[m].within])
    <3>. TAKE m \in 0..N
    <3>1. m = 0 \/ m \in 1..N
      BY <1>2
    <3>. QED  BY <2>1, <3>1 DEF Chained
  <2>3. A = [m \in 0..N |-> A[m]]
    BY <2>1 DEF Chained
  <2>4. A = [m \in 0..N |-> {m} \cup (IF m = 0 THEN {} ELSE A[nodes[m].within])]
    BY <2>2, <2>3
  <2>. QED  BY <2>4
<1>4. Around(around)
  BY <1>3
<1>. HIDE DEF around
<1>5. Chained(nodes, around, N)
  <2>1. \A m \in 0..N : around[m] = {m} \cup (IF m = 0 THEN {} ELSE around[nodes[m].within])
    BY <1>4
  <2>2. around = [m \in 0..N |-> around[m]]
    BY <1>4
  <2>3. 0 \in 0..N /\ \A m \in 1..N : m \in 0..N /\ m # 0
    BY <1>2
  <2>4. around[0] = {0}
    BY <2>1, <2>3
  <2>5. \A m \in 1..N : around[m] = {m} \cup around[nodes[m].within]
    BY <2>1, <2>3
  <2>. QED  BY <2>2, <2>4, <2>5 DEF Chained
<1>6. \A m \in 0..N : around[m] \subseteq 0..N
  <2>. TAKE m \in 0..N
  <2>1. around[m] \subseteq 0..m
    BY <1>2, <1>5, ChainsAreLinked DEF Linked
  <2>2. 0..m \subseteq 0..N
    BY <1>2
  <2>. QED  BY <2>1, <2>2
<1>7. CASE N = 0
  BY <1>1, <1>7 DEF N
<1>8. CASE N # 0
  <2>1. N \in 0..N /\ N \in 1..N
    BY <1>2, <1>8
  <2>2. nodes[N].within \in 0..(N - 1)
    BY <1>2, <2>1
  <2>3. nodes[N].within \in 0..N
    BY <1>2, <2>2
  <2>. QED  BY <1>1, <1>6, <1>8, <2>1, <2>3 DEF N
<1>. QED  BY <1>7, <1>8

\* The nodes around each node of a file.
ChainOf(f) == CHOOSE A : Chained(f.nodes, A, Len(f.nodes))

LEMMA ChainOfIs ==
    ASSUME NEW f, IsTree(f)
    PROVE  /\ Len(f.nodes) \in Nat /\ DOMAIN f.nodes = 1..Len(f.nodes)
           /\ \A m \in 1..Len(f.nodes) : f.nodes[m].within \in 0..(m - 1)
           /\ Chained(f.nodes, ChainOf(f), Len(f.nodes))
           /\ \A m \in 0..Len(f.nodes) : Linked(ChainOf(f), m)
<1>1. Len(f.nodes) \in Nat /\ DOMAIN f.nodes = 1..Len(f.nodes)
  BY SequenceForm DEF IsTree, IsFile
<1>2. \A m \in 1..Len(f.nodes) : f.nodes[m].within \in 0..(m - 1)
  BY <1>1 DEF IsTree
<1>3. Chained(f.nodes, ChainOf(f), Len(f.nodes))
  BY <1>1, <1>2, ChainsExist DEF ChainOf
<1>. QED  BY <1>1, <1>2, <1>3, ChainsAreLinked

\* A node is in those of its chain.
LEMMA InsideIs ==
    ASSUME NEW f, IsTree(f), NEW n \in DOMAIN f.nodes, NEW x
    PROVE  /\ Inside(f, n, x) <=> x # 0 /\ x \in ChainOf(f)[f.nodes[n].within]
           /\ Session!Inside(f, n, x) <=> x # 0 /\ x \in ChainOf(f)[f.nodes[n].within]
           /\ Bearer!Inside(f, n, x) <=> x # 0 /\ x \in ChainOf(f)[f.nodes[n].within]
<1>. DEFINE N == Len(f.nodes)
            w(m) == f.nodes[m].within
            A == ChainOf(f)
            Climbs(up) == up = [m \in 0..N |-> m # 0 /\ (m = x \/ up[w(m)])]
            climb == CHOOSE up : Climbs(up)
            h == [m \in 0..N |-> m # 0 /\ x # 0 /\ x \in A[m]]
<1>1. /\ Inside(f, n, x) <=> climb[w(n)]
      /\ Session!Inside(f, n, x) <=> climb[w(n)]
      /\ Bearer!Inside(f, n, x) <=> climb[w(n)]
  BY DEF Inside, Session!Inside, Bearer!Inside
<1>2. /\ N \in Nat /\ DOMAIN f.nodes = 1..N /\ Chained(f.nodes, A, N)
      /\ \A m \in 1..N : w(m) \in 0..(m - 1)
  BY ChainOfIs
<1>. HIDE DEF N, A
<1>3. /\ A[0] = {0} /\ \A m \in 1..N : A[m] = {m} \cup A[w(m)]
      /\ \A m \in 1..N : m \in 0..N /\ m # 0 /\ w(m) \in 0..N
  <2>1. \A m \in 1..N : m \in 0..N /\ m # 0 /\ 0..(m - 1) \subseteq 0..N
    BY <1>2
  <2>2. A[0] = {0} /\ \A m \in 1..N : A[m] = {m} \cup A[w(m)]
    BY <1>2 DEF Chained
  <2>. HIDE DEF w
  <2>. QED  BY <1>2, <2>1, <2>2
<1>. HIDE DEF w
<1>4. \E up : Climbs(up)
  <2>1. ASSUME NEW m \in 0..N PROVE h[m] = (m # 0 /\ (m = x \/ h[w(m)]))
    <3>1. CASE m = 0
      BY <3>1
    <3>2. CASE m # 0
      <4>1. m \in 1..N
        BY <1>2, <3>2
      <4>2. A[m] = {m} \cup A[w(m)] /\ w(m) \in 0..N
        BY <1>3, <4>1
      <4>3. h[w(m)] = (w(m) # 0 /\ x # 0 /\ x \in A[w(m)])
        BY <4>2
      <4>4. h[m] = (m # 0 /\ x # 0 /\ x \in A[m])
        OBVIOUS
      <4>5. w(m) = 0 => (x \in A[w(m)] <=> x = 0)
        BY <1>3
      <4>. HIDE DEF h
      <4>. QED  BY <3>2, <4>2, <4>3, <4>4, <4>5
    <3>. QED  BY <3>1, <3>2
  <2>2. h = [m \in 0..N |-> h[m]]
    OBVIOUS
  <2>. HIDE DEF h
  <2>3. h = [m \in 0..N |-> m # 0 /\ (m = x \/ h[w(m)])]
    BY <2>1, <2>2
  <2>. QED  BY <2>3
<1>5. Climbs(climb)
  BY <1>4
<1>6. \A m \in 0..N : climb[m] = (m # 0 /\ (m = x \/ climb[w(m)]))
  BY <1>5
<1>. HIDE DEF climb
<1>. DEFINE S == {k \in Nat : \A m \in 0..k : m <= N => (climb[m] <=> m # 0 /\ x # 0 /\ x \in A[m])}
<1>7. 0 \in S
  <2>1. ~climb[0]
    <3>1. 0 \in 0..N
      BY <1>2
    <3>2. climb[0] = (0 # 0 /\ (0 = x \/ climb[w(0)]))
      BY <1>6, <3>1
    <3>3. (0 # 0 /\ (0 = x \/ climb[w(0)])) = FALSE
      OBVIOUS
    <3>. QED  BY <3>2, <3>3
  <2>2. \A m \in 0..0 : m = 0
    OBVIOUS
  <2>. QED  BY <2>1, <2>2
<1>8. ASSUME NEW k \in S PROVE k + 1 \in S
  <2>1. k \in Nat /\ k + 1 \in Nat /\ \A m \in 0..k : m <= N => (climb[m] <=> m # 0 /\ x # 0 /\ x \in A[m])
    OBVIOUS
  <2>2. ASSUME NEW m, m = k + 1, m <= N PROVE climb[m] <=> x # 0 /\ x \in A[m]
    <3>1. m \in 1..N /\ m - 1 = k /\ m # 0 /\ m \in 0..N
      BY <1>2, <2>1, <2>2
    <3>2. w(m) \in 0..k /\ w(m) <= N
      <4>1. w(m) \in 0..(m - 1)
        BY <1>2, <3>1
      <4>. QED  BY <1>2, <2>1, <3>1, <4>1
    <3>3. climb[w(m)] <=> w(m) # 0 /\ x # 0 /\ x \in A[w(m)]
      BY <2>1, <3>2
    <3>4. A[m] = {m} \cup A[w(m)]
      BY <1>3, <3>1
    <3>5. climb[m] <=> m = x \/ climb[w(m)]
      BY <1>6, <3>1
    <3>6. w(m) = 0 => (x \in A[w(m)] <=> x = 0)
      BY <1>3
    <3>. QED  BY <3>1, <3>3, <3>4, <3>5, <3>6
  <2>3. \A m \in 0..(k + 1) : m \in 0..k \/ m = k + 1
    BY <2>1
  <2>4. k + 1 # 0
    BY <2>1
  <2>. QED  BY <2>1, <2>2, <2>3, <2>4
<1>9. S \in SUBSET Nat
  OBVIOUS
<1>. HIDE DEF S
<1>10. S = Nat
  BY <1>7, <1>8, <1>9, AllNat
<1>11. N \in S /\ \A m \in 0..N : m <= N
  BY <1>2, <1>10
<1>12. \A m \in 0..N : climb[m] <=> m # 0 /\ x # 0 /\ x \in A[m]
  BY <1>11 DEF S
<1>13. w(n) \in 0..N /\ (w(n) = 0 => (x \in A[w(n)] <=> x = 0))
  BY <1>2, <1>3
<1>14. climb[w(n)] <=> x # 0 /\ x \in A[w(n)]
  BY <1>12, <1>13
<1>. QED  BY <1>1, <1>14 DEF A, w

\* What is around a node is its chain, and what is in it has it in its chain.
LEMMA AroundIs ==
    ASSUME NEW f, IsTree(f), NEW n \in DOMAIN f.nodes
    PROVE  /\ Session!Around(f, n) = ChainOf(f)[n] \ {0, n}
           /\ Bearer!Around(f, n) \cup {n} = ChainOf(f)[n] \ {0}
           /\ Session!Contents(f, n) = {m \in DOMAIN f.nodes : m # n /\ n \in ChainOf(f)[m]}
<1>. DEFINE N == Len(f.nodes)
            w(m) == f.nodes[m].within
            A == ChainOf(f)
<1>1. /\ N \in Nat /\ DOMAIN f.nodes = 1..N /\ Chained(f.nodes, A, N)
      /\ \A m \in 1..N : w(m) \in 0..(m - 1)
      /\ \A m \in 0..N : A[m] \subseteq 0..m
  BY ChainOfIs DEF Linked
<1>2. \A m \in 1..N : \A x : Inside(f, m, x) <=> x # 0 /\ x \in A[w(m)]
  BY <1>1, InsideIs
<1>3. \A m \in 1..N : \A x : Session!Inside(f, m, x) <=> x # 0 /\ x \in A[w(m)]
  BY <1>1, InsideIs
<1>4. \A m \in 1..N : \A x : Bearer!Inside(f, m, x) <=> x # 0 /\ x \in A[w(m)]
  BY <1>1, InsideIs
<1>. HIDE DEF N, A
<1>5. \A m \in 1..N : A[m] = {m} \cup A[w(m)]
  BY <1>1 DEF Chained
<1>. HIDE DEF w
<1>6. \A m \in 1..N : m \notin A[w(m)] /\ m # 0 /\ A[w(m)] \subseteq 0..N
  <2>. TAKE m \in 1..N
  <2>1. w(m) \in 0..(m - 1) /\ m \in 1..N /\ N \in Nat
    BY <1>1
  <2>2. w(m) \in 0..N /\ m \notin 0..w(m) /\ 0..w(m) \subseteq 0..N
    BY <2>1
  <2>3. A[w(m)] \subseteq 0..w(m)
    BY <1>1, <2>2
  <2>. QED  BY <2>1, <2>2, <2>3
<1>7. n \in 1..N /\ 0..N = {0} \cup 1..N /\ 0 \notin 1..N
  BY <1>1
<1>8. Session!Around(f, n) = A[n] \ {0, n}
  <2>1. \A m : m \in Session!Around(f, n) <=> m \in 1..N /\ m # n /\ m # 0 /\ m \in A[w(n)]
    BY <1>1, <1>3, <1>7 DEF Session!Around
  <2>2. A[n] = {n} \cup A[w(n)] /\ n \notin A[w(n)] /\ n # 0
    BY <1>5, <1>6, <1>7
  <2>3. \A m : m \in A[w(n)] /\ m # 0 => m \in 1..N
    BY <1>6, <1>7
  <2>. QED  BY <2>1, <2>2, <2>3
<1>9. Bearer!Around(f, n) \cup {n} = A[n] \ {0}
  <2>1. \A m : m \in Bearer!Around(f, n) <=> m \in 1..N /\ m # n /\ m # 0 /\ m \in A[w(n)]
    BY <1>1, <1>4, <1>7 DEF Bearer!Around
  <2>2. A[n] = {n} \cup A[w(n)] /\ n \notin A[w(n)] /\ n # 0
    BY <1>5, <1>6, <1>7
  <2>3. \A m : m \in A[w(n)] /\ m # 0 => m \in 1..N
    BY <1>6, <1>7
  <2>. QED  BY <2>1, <2>2, <2>3
<1>10. Session!Contents(f, n) = {m \in DOMAIN f.nodes : m # n /\ n \in A[m]}
  <2>1. \A m \in 1..N : m # n => (Session!Inside(f, m, n) <=> n \in A[m])
    BY <1>3, <1>5, <1>7
  <2>. QED  BY <1>1, <2>1 DEF Session!Contents
<1>. QED  BY <1>8, <1>9, <1>10 DEF A

-----------------------------------------------------------------------------
(* A file to which a node is added, in node w.                              *)
Grown(f, g, w) ==
    /\ IsTree(f) /\ w \in 0..Len(f.nodes) /\ IsFile(g)
    /\ g.path = f.path /\ g.language = f.language
    /\ \E s : s.within = w /\ g.nodes = Append(f.nodes, s)

\* Of the nodes that were there nothing changes.
LEMMA GrownIs ==
    ASSUME NEW f, NEW g, NEW w, Grown(f, g, w)
    PROVE  /\ IsTree(g) /\ Len(f.nodes) \in Nat /\ Len(g.nodes) = Len(f.nodes) + 1
           /\ DOMAIN f.nodes = 1..Len(f.nodes) /\ DOMAIN g.nodes = 1..(Len(f.nodes) + 1)
           /\ \A m \in DOMAIN f.nodes : g.nodes[m] = f.nodes[m]
           /\ \A m \in 0..Len(f.nodes) : ChainOf(g)[m] = ChainOf(f)[m]
           /\ ChainOf(g)[Len(f.nodes) + 1] = {Len(f.nodes) + 1} \cup ChainOf(f)[w]
           /\ g.nodes[Len(f.nodes) + 1].within = w
<1>. DEFINE N == Len(f.nodes)
<1>1. PICK s : s.within = w /\ g.nodes = Append(f.nodes, s)
  BY DEF Grown
<1>2. IsSequence(f.nodes) /\ g.nodes = f.nodes \o <<s>>
  <2>1. IsSequence(f.nodes)
    BY DEF Grown, IsTree, IsFile
  <2>2. Append(f.nodes, s) = f.nodes \o <<s>>
    BY <2>1 DEF IsSequence
  <2>. QED  BY <1>1, <2>1, <2>2
<1>3. IsSequence(<<s>>) /\ Len(<<s>>) = 1 /\ <<s>>[1] = s /\ 1 \in 1..1
  BY SingleIsOne
<1>4. /\ N \in Nat /\ IsSequence(g.nodes) /\ Len(g.nodes) = N + 1
      /\ \A m \in 1..N : g.nodes[m] = f.nodes[m]
      /\ g.nodes[N + 1] = s
  BY <1>2, <1>3, ConcatIsOne, SequenceForm
<1>5. DOMAIN f.nodes = 1..N /\ DOMAIN g.nodes = 1..(N + 1)
  BY <1>2, <1>4, SequenceForm
<1>6. /\ \A m \in 1..N : f.nodes[m].within \in 0..(m - 1)
      /\ Chained(f.nodes, ChainOf(f), N)
  BY ChainOfIs DEF Grown
<1>7. w \in 0..N
  BY DEF Grown
<1>. HIDE DEF N
<1>8. \A m \in 1..(N + 1) : g.nodes[m].within \in 0..(m - 1)
  <2>. TAKE m \in 1..(N + 1)
  <2>1. CASE m = N + 1
    BY <1>1, <1>4, <1>7, <2>1
  <2>2. CASE m # N + 1
    <3>1. m \in 1..N
      BY <1>4, <2>2
    <3>. QED  BY <1>4, <1>6, <3>1
  <2>. QED  BY <2>1, <2>2
<1>9. IsTree(g)
  BY <1>5, <1>8 DEF IsTree, Grown
<1>10. Chained(g.nodes, ChainOf(g), N + 1)
  BY <1>4, <1>9, ChainOfIs
<1>11. \A m \in 0..N : ChainOf(g)[m] = ChainOf(f)[m]
  <2>1. N + 1 \in Nat /\ N <= N + 1
    BY <1>4
  <2>2. \A m \in 1..N : f.nodes[m].within \in 0..(m - 1) /\ g.nodes[m] = f.nodes[m]
    BY <1>4, <1>6
  <2>. DEFINE M == N + 1
              A == ChainOf(f)
              B == ChainOf(g)
              F == f.nodes
              G == g.nodes
  <2>3. N \in Nat /\ M \in Nat /\ N <= M /\ Chained(F, A, N) /\ Chained(G, B, M)
    BY <1>4, <1>6, <1>10, <2>1
  <2>4. Begins(F, G, N)
    BY <2>2 DEF Begins
  <2>. HIDE DEF M, A, B, F, G
  <2>5. \A m \in 0..N : B[m] = A[m]
    BY <2>3, <2>4, ChainsAgree
  <2>. QED  BY <2>5 DEF A, B
<1>12. ChainOf(g)[N + 1] = {N + 1} \cup ChainOf(f)[w]
  <2>1. N + 1 \in 1..(N + 1) /\ g.nodes[N + 1].within = w
    BY <1>1, <1>4
  <2>2. ChainOf(g)[N + 1] = {N + 1} \cup ChainOf(g)[w]
    BY <1>10, <2>1 DEF Chained
  <2>. QED  BY <1>7, <1>11, <2>2
<1>. QED  BY <1>1, <1>4, <1>5, <1>9, <1>11, <1>12 DEF N

\* What is in w is in no node of m's chain.
Outside(f, m, w) == \A x \in ChainOf(f)[m] \ {0} : x \notin ChainOf(f)[w]

\* Two nodes in one function: the added node is in what is around both, or in neither.
LEMMA OutsideAll ==
    ASSUME NEW f, IsTree(f), NEW n \in DOMAIN f.nodes, NEW m \in DOMAIN f.nodes, NEW w \in 0..Len(f.nodes),
           NEW s, s # 0, s \in ChainOf(f)[n], s \in ChainOf(f)[m], Outside(f, n, w)
    PROVE  Outside(f, m, w)
<1>. DEFINE A == ChainOf(f)
<1>1. Linked(A, n) /\ Linked(A, m) /\ Linked(A, w)
  <2>1. n \in 0..Len(f.nodes) /\ m \in 0..Len(f.nodes)
    BY ChainOfIs
  <2>. QED  BY <2>1, ChainOfIs
<1>. SUFFICES ASSUME NEW x \in A[m] \ {0}, x \in A[w] PROVE FALSE
  BY DEF Outside
<1>. HIDE DEF A
<1>2. CASE x \in A[s]
  BY <1>1, <1>2 DEF Outside, Linked, A
<1>3. CASE s \in A[x]
  BY <1>1, <1>3 DEF Outside, Linked, A
<1>. QED  BY <1>1, <1>2, <1>3 DEF Linked, A

\* What is around a node and in it, and what it says, without the added node.
LEMMA Unmoved ==
    ASSUME NEW f, NEW g, NEW w, Grown(f, g, w), NEW m \in DOMAIN f.nodes, Outside(f, m, w)
    PROVE  /\ m \in DOMAIN g.nodes /\ g.nodes[m] = f.nodes[m]
           /\ Session!Around(g, m) = Session!Around(f, m)
           /\ \A x \in Session!Around(f, m) \cup {m} :
                 /\ g.nodes[x] = f.nodes[x]
                 /\ Session!BodyText(g, x) = Session!BodyText(f, x)
                 /\ Session!TextOf(g, x) = Session!TextOf(f, x)
                 /\ Session!CodeOf(g, x) = Session!CodeOf(f, x)
<1>. DEFINE N == Len(f.nodes)
            A == ChainOf(f)
<1>1. /\ IsTree(f) /\ IsTree(g) /\ N \in Nat
      /\ DOMAIN f.nodes = 1..N /\ DOMAIN g.nodes = 1..(N + 1)
      /\ \A y \in 1..N : g.nodes[y] = f.nodes[y]
      /\ \A y \in 0..N : ChainOf(g)[y] = A[y]
      /\ ChainOf(g)[N + 1] = {N + 1} \cup A[w]
  <2>1. IsTree(f)
    BY DEF Grown
  <2>2. /\ IsTree(g) /\ Len(f.nodes) \in Nat
        /\ DOMAIN f.nodes = 1..Len(f.nodes) /\ DOMAIN g.nodes = 1..(Len(f.nodes) + 1)
        /\ \A y \in DOMAIN f.nodes : g.nodes[y] = f.nodes[y]
        /\ \A y \in 0..Len(f.nodes) : ChainOf(g)[y] = ChainOf(f)[y]
        /\ ChainOf(g)[Len(f.nodes) + 1] = {Len(f.nodes) + 1} \cup ChainOf(f)[w]
    BY GrownIs
  <2>. QED  BY <2>1, <2>2
<1>2. 1..N \subseteq 0..N /\ 1..(N + 1) = 1..N \cup {N + 1} /\ N + 1 \notin 1..N /\ 0..N = {0} \cup 1..N
      /\ 0 \notin 1..N
  BY <1>1
<1>3. \A y \in 1..N : Linked(A, y) /\ 0..y \subseteq 0..N
  BY <1>1, <1>2, ChainOfIs
<1>4. Session!Around(f, m) = A[m] \ {0, m} /\ Session!Around(g, m) = ChainOf(g)[m] \ {0, m}
  <2>1. m \in DOMAIN f.nodes /\ m \in DOMAIN g.nodes
    BY <1>1, <1>2
  <2>. QED  BY <1>1, <2>1, AroundIs
<1>5. m \in 1..N
  BY <1>1
<1>. HIDE DEF N
<1>6. Session!Around(g, m) = Session!Around(f, m)
  BY <1>1, <1>2, <1>4, <1>5
<1>7. ASSUME NEW x \in Session!Around(f, m) \cup {m}
      PROVE  /\ x \in 1..N /\ g.nodes[x] = f.nodes[x]
             /\ Session!Contents(g, x) = Session!Contents(f, x)
             /\ Session!Contents(f, x) \subseteq 1..N
  <2>1. x \in A[m] \ {0}
    BY <1>2, <1>3, <1>4, <1>5 DEF Linked
  <2>2. x \in 1..N
    BY <1>2, <1>3, <1>5, <2>1 DEF Linked
  <2>3. /\ Session!Contents(f, x) = {y \in DOMAIN f.nodes : y # x /\ x \in A[y]}
        /\ Session!Contents(g, x) = {y \in DOMAIN g.nodes : y # x /\ x \in ChainOf(g)[y]}
    BY <1>1, <1>2, <2>2, AroundIs
  <2>4. x \notin A[w] /\ x # N + 1
    BY <1>2, <2>1, <2>2 DEF Outside
  <2>. HIDE DEF A
  <2>5. x \notin ChainOf(g)[N + 1]
    BY <1>1, <2>4
  <2>6. \A y : y \in DOMAIN g.nodes /\ y # x /\ x \in ChainOf(g)[y] <=> y \in DOMAIN f.nodes /\ y # x /\ x \in A[y]
    BY <1>1, <1>2, <2>5
  <2>. QED  BY <1>1, <2>2, <2>3, <2>6
<1>8. ASSUME NEW x \in Session!Around(f, m) \cup {m}
      PROVE  /\ Session!BodyText(g, x) = Session!BodyText(f, x)
             /\ Session!TextOf(g, x) = Session!TextOf(f, x)
             /\ Session!CodeOf(g, x) = Session!CodeOf(f, x)
  <2>. DEFINE C == Session!Contents(f, x)
  <2>1. C = Session!Contents(g, x) /\ g.nodes[x] = f.nodes[x]
        /\ \A y \in C : g.nodes[y] = f.nodes[y]
    BY <1>1, <1>7
  <2>. HIDE DEF C
  <2>2. Session!BodyText(f, x) = UNION {Session!OwnText(f.nodes[y]) : y \in C}
    BY DEF Session!BodyText, C
  <2>3. Session!BodyText(g, x) = UNION {Session!OwnText(g.nodes[y]) : y \in C}
    BY <2>1 DEF Session!BodyText
  <2>4. {Session!OwnText(g.nodes[y]) : y \in C} = {Session!OwnText(f.nodes[y]) : y \in C}
    BY <2>1
  <2>5. Session!CodeOf(f, x) = UNION {Session!OwnCode(f.nodes[y]) : y \in C \cup {x}}
    BY DEF Session!CodeOf, C
  <2>6. Session!CodeOf(g, x) = UNION {Session!OwnCode(g.nodes[y]) : y \in C \cup {x}}
    BY <2>1 DEF Session!CodeOf
  <2>7. {Session!OwnCode(g.nodes[y]) : y \in C \cup {x}} = {Session!OwnCode(f.nodes[y]) : y \in C \cup {x}}
    BY <2>1
  <2>. QED  BY <2>1, <2>2, <2>3, <2>4, <2>5, <2>6, <2>7 DEF Session!TextOf
<1>. QED  BY <1>1, <1>2, <1>5, <1>6, <1>7, <1>8

-----------------------------------------------------------------------------
(* What the session detector finds elsewhere.                               *)

\* Of some numbers up to a bound one is the last.
LEMMA LastIs ==
    ASSUME NEW N \in Nat, NEW S, S \subseteq 0..N, S # {}
    PROVE  \E x \in S : \A y \in S : y <= x
<1>. DEFINE T == {N - x : x \in S}
<1>1. T \subseteq Nat /\ T # {}
  <2>1. \A x \in 0..N : N - x \in Nat
    OBVIOUS
  <2>2. \A x \in S : N - x \in Nat
    BY <2>1
  <2>. QED  BY <2>2
<1>. HIDE DEF T
<1>2. PICK t \in T : \A u \in T : t <= u
  BY <1>1, LeastNat
<1>3. PICK x \in S : t = N - x
  BY <1>2 DEF T
<1>4. \A y \in S : N - y \in T /\ y \in Nat
  BY DEF T
<1>5. \A y \in S : y <= x
  <2>. TAKE y \in S
  <2>1. N - x <= N - y
    BY <1>2, <1>3, <1>4
  <2>. QED  BY <1>4, <2>1
<1>. QED  BY <1>5

LEMMA LastOfIs ==
    ASSUME NEW N \in Nat, NEW S, S \subseteq 0..N, S # {}
    PROVE  Session!LastOf(S) \in S
BY LastIs DEF Session!LastOf

\* What is read around a node that the added one is not in.
LEMMA UnmovedContext ==
    ASSUME NEW f, NEW g, NEW w, Grown(f, g, w), NEW m \in DOMAIN f.nodes, Outside(f, m, w)
    PROVE  /\ Session!Said(g, m) = Session!Said(f, m)
           /\ Session!AncestorText(g, m) = Session!AncestorText(f, m)
           /\ Session!HandlerScope(g, m) = Session!HandlerScope(f, m)
<1>. DEFINE near == Session!Around(f, m) \cup {m}
<1>1. /\ g.language = f.language /\ Session!Around(g, m) = Session!Around(f, m)
      /\ \A x \in near :
            /\ g.nodes[x] = f.nodes[x]
            /\ Session!BodyText(g, x) = Session!BodyText(f, x)
            /\ Session!TextOf(g, x) = Session!TextOf(f, x)
            /\ Session!CodeOf(g, x) = Session!CodeOf(f, x)
  <2>1. g.language = f.language
    BY DEF Grown
  <2>. HIDE DEF near
  <2>2. Session!Around(g, m) = Session!Around(f, m)
    BY Unmoved
  <2>3. \A x \in near : /\ g.nodes[x] = f.nodes[x]
                        /\ Session!BodyText(g, x) = Session!BodyText(f, x)
                        /\ Session!TextOf(g, x) = Session!TextOf(f, x)
                        /\ Session!CodeOf(g, x) = Session!CodeOf(f, x)
    BY Unmoved DEF near
  <2>. QED  BY <2>1, <2>2, <2>3
<1>2. Session!Handlers(f, m) \subseteq near /\ Session!Handlers(g, m) = Session!Handlers(f, m) /\ m \in near
  <2>1. Session!Handlers(f, m) = {x \in Session!Around(f, m) : f.nodes[x].form # "expression"}
    BY DEF Session!Handlers
  <2>2. Session!Handlers(g, m) = {x \in Session!Around(f, m) : g.nodes[x].form # "expression"}
    BY <1>1 DEF Session!Handlers
  <2>3. \A x \in Session!Around(f, m) : g.nodes[x].form = f.nodes[x].form
    BY <1>1
  <2>. QED  BY <2>1, <2>2, <2>3
<1>3. Len(f.nodes) \in Nat /\ near \subseteq 0..Len(f.nodes)
  <2>1. Len(f.nodes) \in Nat /\ DOMAIN f.nodes = 1..Len(f.nodes)
    BY GrownIs
  <2>2. near \subseteq DOMAIN f.nodes
    BY DEF Session!Around
  <2>. QED  BY <2>1, <2>2
<1>. HIDE DEF near
<1>4. Session!Said(g, m) = Session!Said(f, m)
  BY <1>1, <1>2 DEF Session!Said
<1>5. Session!AncestorText(g, m) = Session!AncestorText(f, m)
  <2>. DEFINE H == Session!Handlers(f, m)
  <2>1. CASE H = {}
    BY <1>1, <1>2, <2>1 DEF Session!AncestorText
  <2>2. CASE H # {}
    <3>1. Session!LastOf(H) \in near
      <4>1. H \subseteq 0..Len(f.nodes)
        BY <1>2, <1>3
      <4>. HIDE DEF H
      <4>2. Session!LastOf(H) \in H
        BY <1>3, <2>2, <4>1, LastOfIs
      <4>. QED  BY <1>2, <4>2 DEF H
    <3>. QED  BY <1>1, <1>2, <2>2, <3>1 DEF Session!AncestorText
  <2>. QED  BY <2>1, <2>2
<1>6. Session!HandlerScope(g, m) = Session!HandlerScope(f, m)
  <2>. DEFINE call(h, x) == /\ h.language = "js" /\ h.nodes[x].kind \in {"Call", "Route"}
                            /\ LET T == Session!TextOf(h, x) IN Session!RouteCall(T) \/ Session!Transition(T)
              calls(h) == {x \in Session!Around(h, m) \cup {m} : call(h, x)}
              functions(h) == Session!Handlers(h, m) \cup ({m} \cap Session!Nodes(h, "Function"))
              scope(h) == IF calls(h) # {} THEN Session!LastOf(calls(h))
                          ELSE IF functions(h) # {} THEN Session!LastOf(functions(h)) ELSE 0
  <2>1. Session!HandlerScope(f, m) = scope(f) /\ Session!HandlerScope(g, m) = scope(g)
    BY DEF Session!HandlerScope
  <2>2. calls(g) = calls(f)
    BY <1>1 DEF near
  <2>3. functions(g) = functions(f)
    <3>1. m \in DOMAIN f.nodes /\ m \in DOMAIN g.nodes /\ g.nodes[m] = f.nodes[m]
      BY Unmoved
    <3>. QED  BY <1>2, <3>1 DEF Session!Nodes
  <2>. HIDE DEF calls, functions
  <2>. QED  BY <2>1, <2>2, <2>3
<1>. QED  BY <1>4, <1>5, <1>6

\* The scope of a node is in its chain.
LEMMA ScopeIsAround ==
    ASSUME NEW f, IsTree(f), NEW m \in DOMAIN f.nodes, Session!HandlerScope(f, m) # 0
    PROVE  Session!HandlerScope(f, m) \in ChainOf(f)[m]
<1>. DEFINE near == Session!Around(f, m) \cup {m}
            call(x) == /\ f.language = "js" /\ f.nodes[x].kind \in {"Call", "Route"}
                       /\ LET T == Session!TextOf(f, x) IN Session!RouteCall(T) \/ Session!Transition(T)
            calls == {x \in near : call(x)}
            functions == Session!Handlers(f, m) \cup ({m} \cap Session!Nodes(f, "Function"))
<1>1. Session!HandlerScope(f, m) = IF calls # {} THEN Session!LastOf(calls)
                                   ELSE IF functions # {} THEN Session!LastOf(functions) ELSE 0
  BY DEF Session!HandlerScope
<1>2. Len(f.nodes) \in Nat /\ near \subseteq 0..Len(f.nodes) /\ near \subseteq ChainOf(f)[m]
  <2>1. Len(f.nodes) \in Nat /\ DOMAIN f.nodes = 1..Len(f.nodes)
    BY ChainOfIs
  <2>2. near \subseteq DOMAIN f.nodes
    BY DEF Session!Around
  <2>3. m \in 0..Len(f.nodes)
    BY <2>1
  <2>4. m \in ChainOf(f)[m]
    BY <2>3, ChainOfIs DEF Linked
  <2>5. Session!Around(f, m) \subseteq ChainOf(f)[m]
    BY AroundIs
  <2>. QED  BY <2>1, <2>2, <2>4, <2>5
<1>3. calls \subseteq near /\ functions \subseteq near
  BY DEF Session!Handlers
<1>. HIDE DEF near, calls, functions
<1>4. calls # {} => Session!LastOf(calls) \in calls
  <2>1. calls \subseteq 0..Len(f.nodes)
    BY <1>2, <1>3
  <2>. QED  BY <1>2, <2>1, LastOfIs
<1>5. functions # {} => Session!LastOf(functions) \in functions
  <2>1. functions \subseteq 0..Len(f.nodes)
    BY <1>2, <1>3
  <2>. QED  BY <1>2, <2>1, LastOfIs
<1>. QED  BY <1>1, <1>2, <1>3, <1>4, <1>5

\* What a node shows of the session: stores of the user apart, that depend on the
\* whole file.
Seen(f, n) == {x \in Range1(Session!SessionSignals(f, n)) : x.detector \in Sessional}

LEMMA SeenStays ==
    ASSUME NEW f, NEW g, NEW w, Grown(f, g, w), NEW m \in DOMAIN f.nodes, Outside(f, m, w)
    PROVE  Seen(g, m) = Seen(f, m)
<1>. DEFINE kind == f.nodes[m].kind
            js == f.language = "js"
            z == Session!HandlerScope(f, m)
            said == Session!Said(f, m)
            A == Session!AncestorText(f, m)
            Ti(h) == Session!InTransition(h, m)
            X(h) == Session!ExportSignals(h, m) \o Session!JsFunctionSignals(h, m)
            Y(h) == Session!PythonFunctionSignals(h, m)
            J(h) == Session!JsCallSignals(m, said, A, z, Ti(h))
            P(h) == Session!PythonCallSignals(m, said, A, z, Ti(h))
            S(h) == Session!AssignmentSignals(h, m, z)
            D(h) == (CASE kind = "Function" /\ js -> X(h) [] kind = "Function" /\ ~js -> Y(h)
                      [] kind \in {"Call", "Route"} /\ js -> J(h) [] kind = "Call" /\ ~js -> P(h)
                      [] kind = "Assign" -> S(h) [] OTHER -> <<>>)
<1>1. /\ g.language = f.language /\ g.nodes[m] = f.nodes[m] /\ Session!CodeOf(g, m) = Session!CodeOf(f, m)
      /\ Session!Said(g, m) = said /\ Session!AncestorText(g, m) = A /\ Session!HandlerScope(g, m) = z
  <2>1. g.language = f.language
    BY DEF Grown
  <2>2. g.nodes[m] = f.nodes[m] /\ Session!CodeOf(g, m) = Session!CodeOf(f, m)
    BY Unmoved
  <2>3. Session!Said(g, m) = said /\ Session!AncestorText(g, m) = A /\ Session!HandlerScope(g, m) = z
    BY UnmovedContext
  <2>. QED  BY <2>1, <2>2, <2>3
<1>2. \A h \in {f, g} : Session!SessionSignals(h, m) = D(h)
  <2>1. Session!SessionSignals(f, m) = D(f)
    BY Zenon DEF Session!SessionSignals
  <2>. DEFINE k == g.nodes[m].kind
              j == g.language = "js"
              z2 == Session!HandlerScope(g, m)
              said2 == Session!Said(g, m)
              A2 == Session!AncestorText(g, m)
              J2 == Session!JsCallSignals(m, said2, A2, z2, Ti(g))
              P2 == Session!PythonCallSignals(m, said2, A2, z2, Ti(g))
              S2 == Session!AssignmentSignals(g, m, z2)
  <2>2. Session!SessionSignals(g, m) =
           CASE k = "Function" /\ j -> X(g) [] k = "Function" /\ ~j -> Y(g)
             [] k \in {"Call", "Route"} /\ j -> J2 [] k = "Call" /\ ~j -> P2
             [] k = "Assign" -> S2 [] OTHER -> <<>>
    BY Zenon DEF Session!SessionSignals
  <2>3. k = kind /\ j = js /\ J2 = J(g) /\ P2 = P(g) /\ S2 = S(g)
    BY <1>1
  <2>. HIDE DEF k, j, J2, P2, S2, kind, js, X, Y, J, P, S
  <2>4. Session!SessionSignals(g, m) = D(g)
    BY <2>2, <2>3
  <2>. QED  BY <2>1, <2>4
<1>3. X(g) = X(f)
  BY <1>1 DEF Session!ExportSignals, Session!JsFunctionSignals
<1>4. Y(g) = Y(f)
  BY <1>1 DEF Session!PythonFunctionSignals
<1>5. \A h, i : \A x \in Range1(J(h)) : x.detector \in Sessional => x \in Range1(J(i))
  BY JsCallsSignal
<1>6. \A h, i : \A x \in Range1(P(h)) : x.detector \in Sessional => x \in Range1(P(i))
  BY PythonCallsSignal
<1>7. \A h : \A x \in Range1(S(h)) : x.detector \notin Sessional
  <2>. DEFINE T == Session!Fixation("session.store_after_auth", "store", m, z, "present")
  <2>1. T = <<T[1]>> /\ T[1].detector = "session.store_after_auth"
    BY DEF Session!Fixation, Session!SignalOf
  <2>2. \A h : S(h) \in {T, <<>>}
    BY DEF Session!AssignmentSignals, Session!When
  <2>. HIDE DEF T, S
  <2>3. Range1(T) = {T[1]} /\ Range1(<<>>) = {}
    BY <2>1, SingleIsOne, EmptyIsOne
  <2>4. \A h : Range1(S(h)) \in {{T[1]}, {}}
    BY <2>2, <2>3
  <2>. QED  BY <2>1, <2>4 DEF Sessional
<1>. HIDE DEF kind, js, X, Y, J, P, S
<1>8. \A h, i \in {f, g} : \A x \in Seen(h, m) : x \in Seen(i, m)
  <2>. TAKE h, i \in {f, g}
  <2>. TAKE x \in Seen(h, m)
  <2>1. x \in Range1(Session!SessionSignals(h, m)) /\ x.detector \in Sessional
    BY DEF Seen
  <2>2. X(i) = X(h) /\ Y(i) = Y(h)
    BY <1>3, <1>4
  <2>3. x \in Range1(Session!SessionSignals(i, m))
    <3>1. CASE kind = "Function"
      BY <1>2, <2>1, <2>2, <3>1
    <3>2. CASE kind \in {"Call", "Route"} /\ js
      <4>1. \A k \in {f, g} : Session!SessionSignals(k, m) = J(k)
        BY <1>2, <3>2
      <4>. QED  BY <1>5, <2>1, <4>1
    <3>3. CASE kind = "Call" /\ ~js
      <4>1. \A k \in {f, g} : Session!SessionSignals(k, m) = P(k)
        BY <1>2, <3>3
      <4>. QED  BY <1>6, <2>1, <4>1
    <3>4. CASE kind = "Assign"
      <4>1. Session!SessionSignals(h, m) = S(h)
        BY <1>2, <3>4
      <4>. QED  BY <1>7, <2>1, <4>1
    <3>5. CASE kind \notin {"Function", "Call", "Assign"} /\ ~(kind = "Route" /\ js)
      <4>1. Session!SessionSignals(h, m) = <<>>
        BY <1>2, <3>5
      <4>. QED  BY <2>1, <4>1, EmptyIsOne
    <3>. QED  BY <3>1, <3>2, <3>3, <3>4, <3>5
  <2>. QED  BY <2>1, <2>3 DEF Seen
<1>. QED  BY <1>8

\* What the classifier compares of a login, a change of privilege or a regeneration:
\* its evidence, and the scope it is in.
EvidenceOf(f, x) ==
    EvidenceAt(f, x.detector, <<x.stage, x.column>>, x.line, x.name, x.stage, x.state, {})

LEMMA SeenIs ==
    ASSUME NEW f, NEW n, NEW x \in Seen(f, n)
    PROVE  /\ x \in Range1(Session!SessionSignals(f, n)) /\ x.detector \in Sessional
           /\ x.line = n /\ x.scope = IF x.column = 1 THEN 0 ELSE Session!HandlerScope(f, n)
<1>1. x \in Range1(Session!SessionSignals(f, n)) /\ x.detector \in Sessional
  BY DEF Seen
<1>2. Local(n, {Session!HandlerScope(f, n)}, x)
  BY <1>1, SessionSignalsAre DEF Signals
<1>. QED  BY <1>1, <1>2 DEF Local

\* A scope of the file that the added node is not in has the same facts.
LEMMA FactsStay ==
    ASSUME NEW f, NEW g, NEW w, Grown(f, g, w), NEW n \in DOMAIN f.nodes, Outside(f, n, w),
           NEW s, s # 0, s = Session!HandlerScope(f, n)
    PROVE  /\ \A m \in DOMAIN f.nodes : \A x \in Seen(f, m) : x.scope = s => m \in DOMAIN g.nodes /\ x \in Seen(g, m)
           /\ \A m \in DOMAIN g.nodes : \A x \in Seen(g, m) : x.scope = s => m \in DOMAIN f.nodes /\ x \in Seen(f, m)
<1>. DEFINE N == Len(f.nodes)
<1>1. /\ IsTree(f) /\ IsTree(g) /\ N \in Nat /\ w \in 0..N
      /\ DOMAIN f.nodes = 1..N /\ DOMAIN g.nodes = 1..(N + 1)
      /\ \A m \in 0..N : ChainOf(g)[m] = ChainOf(f)[m]
      /\ ChainOf(g)[N + 1] = {N + 1} \cup ChainOf(f)[w]
  <2>1. IsTree(f) /\ w \in 0..Len(f.nodes)
    BY DEF Grown
  <2>2. /\ IsTree(g) /\ Len(f.nodes) \in Nat
        /\ DOMAIN f.nodes = 1..Len(f.nodes) /\ DOMAIN g.nodes = 1..(Len(f.nodes) + 1)
        /\ \A m \in 0..Len(f.nodes) : ChainOf(g)[m] = ChainOf(f)[m]
        /\ ChainOf(g)[Len(f.nodes) + 1] = {Len(f.nodes) + 1} \cup ChainOf(f)[w]
    BY GrownIs
  <2>. QED  BY <2>1, <2>2
<1>2. 1..N \subseteq 0..N /\ 1..(N + 1) = 1..N \cup {N + 1} /\ N + 1 \notin 0..N
  BY <1>1
<1>3. s \in ChainOf(f)[n] /\ ChainOf(f)[n] \subseteq 0..N
  <2>1. s \in ChainOf(f)[n]
    BY <1>1, ScopeIsAround
  <2>2. Linked(ChainOf(f), n) /\ 0..n \subseteq 0..N
    BY <1>1, <1>2, ChainOfIs
  <2>. QED  BY <2>1, <2>2 DEF Linked
<1>. HIDE DEF N
<1>4. ASSUME NEW m \in DOMAIN f.nodes, s \in ChainOf(f)[m]
      PROVE  Outside(f, m, w)
  BY <1>1, <1>3, <1>4, OutsideAll DEF N
<1>5. ASSUME NEW m \in DOMAIN f.nodes, NEW x \in Seen(f, m), x.scope = s
      PROVE  m \in DOMAIN g.nodes /\ x \in Seen(g, m)
  <2>1. Session!HandlerScope(f, m) = s
    BY <1>5, SeenIs
  <2>2. s \in ChainOf(f)[m]
    BY <1>1, <2>1, ScopeIsAround
  <2>3. Seen(g, m) = Seen(f, m)
    BY <1>4, <2>2, SeenStays
  <2>. QED  BY <1>1, <1>2, <2>3
<1>6. ASSUME NEW m \in DOMAIN g.nodes, NEW x \in Seen(g, m), x.scope = s
      PROVE  m \in DOMAIN f.nodes /\ x \in Seen(f, m)
  <2>1. Session!HandlerScope(g, m) = s
    BY <1>6, SeenIs
  <2>2. s \in ChainOf(g)[m]
    BY <1>1, <2>1, ScopeIsAround
  <2>3. m # N + 1
    <3>. SUFFICES ASSUME m = N + 1 PROVE FALSE
      OBVIOUS
    <3>1. s \in ChainOf(f)[w]
      BY <1>1, <1>2, <1>3, <2>2
    <3>. QED  BY <1>3, <3>1 DEF Outside
  <2>4. m \in DOMAIN f.nodes /\ s \in ChainOf(f)[m]
    BY <1>1, <1>2, <2>2, <2>3
  <2>5. Seen(g, m) = Seen(f, m)
    BY <1>4, <2>4, SeenStays
  <2>. QED  BY <2>4, <2>5
<1>. QED  BY <1>5, <1>6

\* The nodes of the files are in nodes before them: an invariant.
Nested == \A k \in DOMAIN Files : IsTree(FileOf(k))

LEMMA CommitGrows ==
    ASSUME Written, Written', Nested, NEW k \in DOMAIN Files, Commit(k)
    PROVE  /\ \E w : Grown(FileOf(k), Read(code', k), w)
           /\ \A j \in DOMAIN Files \ {k} : Read(code', j) = FileOf(j)
           /\ Files' = Files /\ \A j : FileOf(j)' = Read(code', j)
           /\ Committed = k
<1>1. PICK s \in DOMAIN Statements[k], w \in Open(code[k]) :
         code' = [code EXCEPT ![k] = Append(@, [Statements[k][s] EXCEPT !.within = w])]
  BY DEF Commit
<1>. DEFINE n == [Statements[k][s] EXCEPT !.within = w]
            f == FileOf(k)
            g == Read(code', k)
<1>2. Files' = Files /\ \A j : FileOf(j)' = Read(code', j)
  BY DEF Commit, Files, FileOf, Read
<1>3. code'[k] = Append(code[k], n) /\ \A j \in DOMAIN Files \ {k} : code'[j] = code[j]
  BY <1>1 DEF Written
<1>4. n.within = w
  <2>1. IsNode(Statements[k][s])
    BY AuditAssumption DEF Written, IsRepository, Files, Statements
  <2>. QED  BY <2>1 DEF IsNode
<1>. HIDE DEF n
<1>5. \A j \in DOMAIN Files \ {k} : Read(code', j) = FileOf(j)
  BY <1>3 DEF FileOf, Read
<1>6. f.nodes = code[k] /\ g.nodes = Append(f.nodes, n) /\ g.path = f.path /\ g.language = f.language
  BY <1>3 DEF FileOf, Read
<1>7. IsTree(f) /\ IsFile(g)
  <2>1. IsRead(FileOf(k)')
    BY <1>2 DEF Written
  <2>. QED  BY <1>2, <2>1 DEF Nested, IsRead
<1>8. w \in 0..Len(f.nodes)
  <2>1. IsTree([nodes |-> code[k]])
    BY <1>6, <1>7 DEF IsTree, IsFile
  <2>. QED  BY <1>6, <2>1, OpenIs
<1>9. Grown(f, g, w)
  BY <1>4, <1>6, <1>7, <1>8 DEF Grown
<1>10. code'[k] # code[k]
  <2>1. Len(g.nodes) = Len(f.nodes) + 1 /\ Len(f.nodes) \in Nat
    BY <1>9, GrownIs
  <2>2. g.nodes = code'[k]
    BY DEF Read
  <2>. QED  BY <1>6, <2>1, <2>2
<1>11. Committed = k
  BY <1>3, <1>10 DEF Committed
<1>. QED  BY <1>2, <1>5, <1>9, <1>11

\* What is written is in a node before it, whatever is open at the end of the file.
THEOREM AuditNested == Spec => []Nested
<1>1. Init => Nested
  <2>. SUFFICES ASSUME Init, NEW k \in DOMAIN Files PROVE IsTree(FileOf(k))
    BY DEF Nested
  <2>1. FileOf(k).nodes = <<>>
    BY DEF Init, Nothing, Files, FileOf, Read
  <2>. QED  BY <2>1, EmptyIsOne DEF IsTree, IsFile
<1>2. Written /\ Written' /\ Nested /\ [Next]_vars => Nested'
  <2>. SUFFICES ASSUME Written, Written', Nested, [Next]_vars PROVE Nested'
    OBVIOUS
  <2>1. CASE UNCHANGED vars
    BY <2>1 DEF vars, Nested, Files, FileOf, Read
  <2>2. ASSUME NEW k \in DOMAIN Files, Commit(k) PROVE Nested'
    <3>1. /\ \E w : Grown(FileOf(k), Read(code', k), w)
          /\ \A j \in DOMAIN Files \ {k} : Read(code', j) = FileOf(j)
          /\ Files' = Files /\ \A j : FileOf(j)' = Read(code', j)
      BY <2>2, CommitGrows
    <3>2. IsTree(Read(code', k))
      BY <3>1, GrownIs
    <3>3. \A j \in DOMAIN Files : IsTree(Read(code', j))
      BY <3>1, <3>2 DEF Nested
    <3>. QED  BY <3>1, <3>3 DEF Nested
  <2>. QED  BY <2>1, <2>2 DEF Next
<1>. QED  BY <1>1, <1>2, AuditWritten, PTL DEF Spec
===============================================================================
