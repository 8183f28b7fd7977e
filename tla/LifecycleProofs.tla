-------------------------- MODULE LifecycleProofs --------------------------
(***************************************************************************)
(* What linking does, for every report.  First what merging keeps, whatever *)
(* the linkability rules answer (Inv: only the bookkeeping of the passes is *)
(* used).  Then what the rules are for (LinkInv): which artifacts a path    *)
(* tells and which of them represents it, that refresh tokens are merged    *)
(* with what is near, and that a revocation finds what it revokes.  Last    *)
(* what the rules find in the paths, and what a view keeps of it, for every *)
(* report the detectors emit: the argument is about the artifact that       *)
(* represents a path (AllJudged).  Until the refresh pass all artifacts of  *)
(* a path have the same name, and the refresh pass merges the paths of      *)
(* refresh tokens only, so that merging never hides a refresh token or a    *)
(* session from the rules that look at the type and the name of the         *)
(* representative.                                                          *)
(***************************************************************************)
EXTENDS CapabilityFilter, FiniteSetTheorems, SequenceTheorems, WellFoundedInduction, TLAPS

-----------------------------------------------------------------------------
(* Sorting the ids of a path keeps them.                                   *)

LEMMA RankInjection ==
    ASSUME NEW S \in SUBSET Nat, IsFiniteSet(S)
    PROVE  [x \in S |-> Cardinality({y \in S : y <= x})]
                \in Injection(S, 1..Cardinality(S))
<1>. DEFINE Below(x) == {y \in S : y <= x}
            f == [x \in S |-> Cardinality(Below(x))]
<1>0. Cardinality(S) \in Nat
  BY FS_CardinalityType
<1>1. \A x \in S : IsFiniteSet(Below(x)) /\ Cardinality(Below(x)) <= Cardinality(S)
  BY FS_Subset
<1>2. \A x \in S : Cardinality(Below(x)) \in Nat
  BY <1>1, FS_CardinalityType
<1>3. \A x \in S : Cardinality(Below(x)) # 0
  <2>. SUFFICES ASSUME NEW x \in S PROVE Cardinality(Below(x)) # 0
    OBVIOUS
  <2>1. x \in Below(x)
    OBVIOUS
  <2>. QED  BY <1>1, <2>1, FS_EmptySet
<1>4. f \in [S -> 1..Cardinality(S)]
  BY <1>0, <1>1, <1>2, <1>3
<1>5. ASSUME NEW x \in S, NEW y \in S, x < y
      PROVE  Cardinality(Below(x)) # Cardinality(Below(y))
  <2>1. \A z \in S : z <= x => z <= y
    BY <1>5
  <2>2. y \in Below(y) /\ y \notin Below(x)
    BY <1>5
  <2>3. Below(x) \in SUBSET Below(y) /\ Below(x) # Below(y)
    BY <2>1, <2>2
  <2>4. IsFiniteSet(Below(y))
    BY <1>1
  <2>. HIDE DEF Below
  <2>. QED  BY <2>3, <2>4, FS_Subset
<1>6. \A x, y \in S : f[x] = f[y] => x = y
  <2>. SUFFICES ASSUME NEW x \in S, NEW y \in S, x # y
                PROVE  f[x] # f[y]
    OBVIOUS
  <2>1. x < y \/ y < x
    OBVIOUS
  <2>2. Cardinality(Below(x)) # Cardinality(Below(y))
    BY <1>5, <2>1
  <2>. QED  BY <2>2
<1>. QED  BY <1>4, <1>6 DEF Injection, IsInjective

LEMMA AscendingKeepsIds ==
    ASSUME NEW S \in SUBSET Nat, IsFiniteSet(S)
    PROVE  /\ Ascending(S) \in Seq(Nat)
           /\ Len(Ascending(S)) = Cardinality(S)
           /\ {Ascending(S)[k] : k \in 1..Len(Ascending(S))} = S
<1>. DEFINE f == [x \in S |-> Cardinality({y \in S : y <= x})]
            n == Cardinality(S)
            a == Ascending(S)
<1>0. n \in Nat
  BY FS_CardinalityType
<1>1. f \in Injection(S, 1..n)
  BY RankInjection
<1>2. IsFiniteSet(1..n) /\ Cardinality(1..n) = n
  BY <1>0, FS_Interval
<1>3. f \in Surjection(S, 1..n)
  <2>. HIDE DEF f
  <2>. QED  BY <1>1, <1>2, FS_Injection
<1>4. \A k \in 1..n : \E x \in S : f[x] = k
  BY <1>3 DEF Surjection
<1>5. \A x, y \in S : f[x] = f[y] => x = y
  BY <1>1 DEF Injection, IsInjective
<1>6. \A x \in S : f[x] \in 1..n
  BY <1>1 DEF Injection
<1>7. a = [k \in 1..n |-> Nth(S, k)]
  BY DEF Ascending
<1>8. \A k \in 1..n : a[k] \in S /\ f[a[k]] = k
  <2>. SUFFICES ASSUME NEW k \in 1..n PROVE a[k] \in S /\ f[a[k]] = k
    OBVIOUS
  <2>1. \E x \in S : Cardinality({y \in S : y <= x}) = k
    BY <1>4
  <2>2. Nth(S, k) \in S /\ Cardinality({y \in S : y <= Nth(S, k)}) = k
    BY <2>1 DEF Nth
  <2>. QED  BY <1>7, <2>2
<1>. HIDE DEF f, a, n
<1>9. \A x \in S : a[f[x]] = x
  BY <1>5, <1>6, <1>8
<1>10. a \in [1..n -> S]
  BY <1>7, <1>8
<1>11. a \in Seq(S) /\ Len(a) = n
  BY <1>0, <1>10
<1>12. a \in Seq(Nat)
  <2>1. a \in [1..n -> Nat]
    BY <1>10
  <2>. QED  BY <1>0, <2>1
<1>13. {a[k] : k \in 1..n} = S
  BY <1>6, <1>8, <1>9
<1>. QED  BY <1>11, <1>12, <1>13 DEF a, n
-----------------------------------------------------------------------------
(* Paths.                                                                  *)

LEMMA IdsOfType ==
    ASSUME NEW p \in Path
    PROVE  /\ Len(p.artifacts) \in Nat
           /\ IdsOf(p) \in SUBSET Nat
           /\ IsFiniteSet(IdsOf(p))
<1>1. p.artifacts \in Seq(Nat)
  BY DEF Path
<1>2. Len(p.artifacts) \in Nat /\ p.artifacts \in [1..Len(p.artifacts) -> Nat]
  BY <1>1, LenProperties
<1>3. IsFiniteSet(1..Len(p.artifacts))
  <2>. PICK n \in Nat : n = Len(p.artifacts)
    BY <1>2
  <2>1. IsFiniteSet(1..n)
    BY FS_Interval
  <2>. QED  BY <2>1
<1>4. p.artifacts \in Surjection(1..Len(p.artifacts), IdsOf(p))
  BY <1>2 DEF Surjection, IdsOf
<1>. QED  BY <1>2, <1>3, <1>4, FS_Surjection DEF IdsOf

\* A path whose metadata is refreshed keeps its ids and evidence, and its
\* stamp is current.
LEMMA RefreshedPath ==
    ASSUME NEW p \in Path, p.artifacts # <<>>
    PROVE  /\ Refreshed(p) \in Path
           /\ Refreshed(p).artifacts # <<>>
           /\ IdsOf(Refreshed(p)) = IdsOf(p)
           /\ Refreshed(p).evidence = p.evidence
           /\ Refreshed(p).stamp = Facts(Refreshed(p))
<1>. DEFINE a == Ascending(IdsOf(p))
            q == Refreshed(p)
<1>1. IdsOf(p) \in SUBSET Nat /\ IsFiniteSet(IdsOf(p))
  BY IdsOfType
<1>2. /\ a \in Seq(Nat)
      /\ {a[k] : k \in 1..Len(a)} = IdsOf(p)
  BY <1>1, AscendingKeepsIds
<1>3. p.evidence \in SUBSET Evidence /\ p.artifacts \in Seq(Nat)
      /\ p = [artifacts |-> p.artifacts, evidence |-> p.evidence, stamp |-> p.stamp]
  BY DEF Path
<1>4. q = [[p EXCEPT !.artifacts = a] EXCEPT !.stamp = Facts(p)]
  BY <1>3 DEF Refreshed
<1>. HIDE DEF a, q
<1>4a. q = [artifacts |-> a, evidence |-> p.evidence, stamp |-> Facts(p)]
  BY <1>3, <1>4
<1>4b. IdsOf(q) = {a[k] : k \in 1..Len(a)}
  BY <1>4a DEF IdsOf
<1>5. IdsOf(q) = IdsOf(p) /\ q.evidence = p.evidence
  BY <1>2, <1>4a, <1>4b
<1>6. Facts(q) = Facts(p)
  BY <1>5 DEF Facts
<1>7. q \in Path
  BY <1>1, <1>2, <1>3, <1>4a DEF Path, Facts
<1>8. q.artifacts # <<>>
  <2>1. Len(p.artifacts) # 0 /\ Len(p.artifacts) \in Nat
    BY <1>3, EmptySeq
  <2>2. p.artifacts[1] \in IdsOf(p)
    <3>1. 1 \in 1..Len(p.artifacts)
      BY <2>1
    <3>. QED  BY <3>1 DEF IdsOf
  <2>3. Len(a) # 0
    BY <1>2, <2>2
  <2>. QED  BY <1>2, <1>4a, <2>3, EmptySeq
<1>. QED  BY <1>4a, <1>5, <1>6, <1>7, <1>8 DEF q

LEMMA ConcatRange ==
    ASSUME NEW s \in Seq(Nat), NEW t \in Seq(Nat)
    PROVE  {(t \o s)[k] : k \in 1..Len(t \o s)}
                = {s[k] : k \in 1..Len(s)} \cup {t[k] : k \in 1..Len(t)}
<1>. DEFINE c == t \o s
<1>1. Len(s) \in Nat /\ Len(t) \in Nat
  BY LenProperties
<1>2. /\ Len(c) = Len(t) + Len(s)
      /\ \A k \in 1..Len(t) + Len(s) :
            c[k] = IF k <= Len(t) THEN t[k] ELSE s[k - Len(t)]
  BY ConcatProperties
<1>. HIDE DEF c
<1>3. \A k \in 1..Len(t) : k \in 1..Len(c) /\ c[k] = t[k]
  BY <1>1, <1>2
<1>4. \A k \in 1..Len(s) : k + Len(t) \in 1..Len(c) /\ c[k + Len(t)] = s[k]
  <2>. TAKE k \in 1..Len(s)
  <2>1. k + Len(t) \in 1..Len(t) + Len(s) /\ ~(k + Len(t) <= Len(t))
        /\ k + Len(t) - Len(t) = k
    BY <1>1
  <2>. QED  BY <1>2, <2>1
<1>5. \A k \in 1..Len(c) :
        \/ k \in 1..Len(t) /\ c[k] = t[k]
        \/ k - Len(t) \in 1..Len(s) /\ c[k] = s[k - Len(t)]
  BY <1>1, <1>2
<1>6. {c[k] : k \in 1..Len(c)} = {s[k] : k \in 1..Len(s)} \cup {t[k] : k \in 1..Len(t)}
  <2>. DEFINE C == {c[k] : k \in 1..Len(c)}
              U == {s[k] : k \in 1..Len(s)} \cup {t[k] : k \in 1..Len(t)}
  <2>1. C \subseteq U
    BY <1>5
  <2>2. \A k \in 1..Len(s) : s[k] \in C
    BY <1>4
  <2>3. \A k \in 1..Len(t) : t[k] \in C
    BY <1>3
  <2>. QED  BY <2>1, <2>2, <2>3
<1>. QED  BY <1>6 DEF c

LEMMA ConcatNonEmpty ==
    ASSUME NEW s \in Seq(Nat), NEW t \in Seq(Nat), t # <<>>
    PROVE  t \o s # <<>>
<1>. DEFINE c == t \o s
<1>1. Len(s) \in Nat /\ Len(t) \in Nat /\ Len(t) # 0
  BY LenProperties, EmptySeq
<1>2. Len(c) = Len(t) + Len(s)
  BY ConcatProperties
<1>. HIDE DEF c
<1>3. Len(c) # 0
  BY <1>1, <1>2
<1>. QED  BY <1>3, EmptySeq DEF c

LEMMA MergedPath ==
    ASSUME NEW p \in Path, NEW q \in Path, q.artifacts # <<>>
    PROVE  /\ Merged(p, q) \in Path
           /\ Merged(p, q).artifacts # <<>>
           /\ IdsOf(Merged(p, q)) = IdsOf(p) \cup IdsOf(q)
           /\ Merged(p, q).evidence = p.evidence \cup q.evidence
<1>. DEFINE c == q.artifacts \o p.artifacts
            m == Merged(p, q)
<1>1. p.artifacts \in Seq(Nat) /\ q.artifacts \in Seq(Nat)
      /\ p.evidence \in SUBSET Evidence /\ q.evidence \in SUBSET Evidence
  BY DEF Path
<1>2. c \in Seq(Nat) /\ Len(c) = Len(q.artifacts) + Len(p.artifacts)
  BY <1>1, ConcatProperties
<1>3. c # <<>>
  BY <1>1, ConcatNonEmpty
<1>4. IdsOf(p) \cup IdsOf(q) = {c[k] : k \in 1..Len(c)}
  BY <1>1, ConcatRange DEF IdsOf
<1>5. m = [[q EXCEPT !.artifacts = c] EXCEPT !.evidence = q.evidence \cup p.evidence]
  BY DEF Merged, Path
<1>. HIDE DEF c, m
<1>6. /\ m \in Path
      /\ m.artifacts = c
      /\ m.evidence = p.evidence \cup q.evidence
  BY <1>1, <1>2, <1>5 DEF Path
<1>7. IdsOf(m) = {c[k] : k \in 1..Len(c)}
  BY <1>6 DEF IdsOf
<1>. QED  BY <1>3, <1>4, <1>6, <1>7 DEF m
-----------------------------------------------------------------------------
(* One merge: s is absorbed by t.                                          *)

Absorbed(s, t) ==
    /\ artifacts' = artifacts
    /\ gone' = gone \cup {s}
    /\ paths'[t] \in Path
    /\ paths'[t].artifacts # <<>>
    /\ IdsOf(paths'[t]) = IdsOf(paths[s]) \cup IdsOf(paths[t])
    /\ paths'[t].evidence = paths[s].evidence \cup paths[t].evidence
    /\ \A k \in Index \ {t} : paths'[k] = paths[k]

LEMMA AbsorbedLoses ==
    ASSUME NEW s \in Live, NEW t \in Live, s # t, Absorbed(s, t)
    PROVE  /\ EvidenceOf(Live)' = EvidenceOf(Live)
           /\ IdsIn(Live)' = IdsIn(Live)
<1>1. Live' = Live \ {s} /\ Live \subseteq Index
  BY DEF Absorbed, Live, Index
<1>2. /\ t \in Live'
      /\ \A k \in Live \ {s, t} : k \in Live' /\ paths'[k] = paths[k]
      /\ \A k \in Live' : k = t \/ k \in Live \ {s, t}
  BY <1>1 DEF Absorbed
<1>3. EvidenceOf(Live)' = EvidenceOf(Live)
  <2>1. ASSUME NEW e \in EvidenceOf(Live) PROVE e \in EvidenceOf(Live)'
    <3>. PICK k \in Live : e \in paths[k].evidence
      BY DEF EvidenceOf
    <3>1. CASE k \in {s, t}
      BY <1>2, <3>1 DEF Absorbed, EvidenceOf
    <3>2. CASE k \notin {s, t}
      BY <1>2, <3>2 DEF EvidenceOf
    <3>. QED  BY <3>1, <3>2
  <2>2. ASSUME NEW e \in EvidenceOf(Live)' PROVE e \in EvidenceOf(Live)
    <3>. PICK k \in Live' : e \in paths'[k].evidence
      BY DEF EvidenceOf
    <3>1. CASE k = t
      BY <3>1 DEF Absorbed, EvidenceOf
    <3>2. CASE k \in Live \ {s, t}
      BY <1>2, <3>2 DEF EvidenceOf
    <3>. QED  BY <1>2, <3>1, <3>2
  <2>. QED  BY <2>1, <2>2
<1>4. IdsIn(Live)' = IdsIn(Live)
  <2>1. ASSUME NEW e \in IdsIn(Live) PROVE e \in IdsIn(Live)'
    <3>. PICK k \in Live : e \in IdsOf(paths[k])
      BY DEF IdsIn
    <3>1. CASE k \in {s, t}
      BY <1>2, <3>1 DEF Absorbed, IdsIn
    <3>2. CASE k \notin {s, t}
      BY <1>2, <3>2 DEF IdsIn
    <3>. QED  BY <3>1, <3>2
  <2>2. ASSUME NEW e \in IdsIn(Live)' PROVE e \in IdsIn(Live)
    <3>. PICK k \in Live' : e \in IdsOf(paths'[k])
      BY DEF IdsIn
    <3>1. CASE k = t
      BY <3>1 DEF Absorbed, IdsIn
    <3>2. CASE k \in Live \ {s, t}
      BY <1>2, <3>2 DEF IdsIn
    <3>. QED  BY <1>2, <3>1, <3>2
  <2>. QED  BY <2>1, <2>2
<1>. QED  BY <1>3, <1>4

Apart == \A k, l \in Live : k # l => paths[k].evidence \cap paths[l].evidence = {}

LEMMA AbsorbedApart ==
    ASSUME NEW s \in Live, NEW t \in Live, s # t, Absorbed(s, t), Apart
    PROVE  Apart'
<1>1. Live' = Live \ {s} /\ Live \subseteq Index
  BY DEF Absorbed, Live, Index
<1>. SUFFICES ASSUME NEW k \in Live', NEW l \in Live', k # l
              PROVE  paths'[k].evidence \cap paths'[l].evidence = {}
  BY DEF Apart
<1>2. CASE k # t /\ l # t
  BY <1>1, <1>2 DEF Absorbed, Apart
<1>3. CASE k = t
  BY <1>1, <1>3 DEF Absorbed, Apart
<1>4. CASE l = t
  BY <1>1, <1>4 DEF Absorbed, Apart
<1>. QED  BY <1>2, <1>3, <1>4

LEMMA AbsorbIsAbsorbed ==
    ASSUME TypeOK, NEW s \in Index, NEW t \in Index, Absorb(s, t),
           artifacts' = artifacts
    PROVE  /\ Absorbed(s, t)
           /\ paths'[t].stamp = Facts(paths'[t])
           /\ paths' \in [Index -> Path]
<1>1. paths \in [Index -> Path] /\ paths[s] \in Path /\ paths[t] \in Path
      /\ paths[t].artifacts # <<>>
  BY DEF TypeOK
<1>. DEFINE m == Merged(paths[s], paths[t])
<1>2. /\ m \in Path
      /\ m.artifacts # <<>>
      /\ IdsOf(m) = IdsOf(paths[s]) \cup IdsOf(paths[t])
      /\ m.evidence = paths[s].evidence \cup paths[t].evidence
  BY <1>1, MergedPath
<1>. HIDE DEF m
<1>. DEFINE r == Refreshed(m)
<1>3. /\ r \in Path
      /\ r.artifacts # <<>>
      /\ IdsOf(r) = IdsOf(m)
      /\ r.evidence = m.evidence
      /\ r.stamp = Facts(r)
  BY <1>2, RefreshedPath
<1>4. paths' = [paths EXCEPT ![t] = r] /\ gone' = gone \cup {s}
  BY DEF Absorb, m
<1>. HIDE DEF r
<1>5. /\ paths' \in [Index -> Path]
      /\ paths'[t] = r
      /\ \A k \in Index \ {t} : paths'[k] = paths[k]
  BY <1>1, <1>3, <1>4
<1>. QED  BY <1>2, <1>3, <1>4, <1>5 DEF Absorbed
-----------------------------------------------------------------------------
(* The inductive invariant.                                                *)

\* The loops of the refresh pass look at later paths only.
Cursor == j # 0 => /\ pass = "refresh" /\ i \in Live /\ i < j

\* Only the target of the refresh pass may have a stamp that is out of date.
Stamped == \A k \in Live : (j # 0 /\ k = i) \/ paths[k].stamp = Facts(paths[k])

Typed ==
    /\ TypeOK
    /\ Len(artifacts) \in Nat

Inv ==
    /\ Typed
    /\ Cursor
    /\ NothingLost
    /\ DisjointArtifacts => Apart
    /\ Stamped
    /\ StampCurrent

LEMMA PathForType ==
    ASSUME NEW a \in Artifact
    PROVE  /\ PathFor(a) \in Path
           /\ PathFor(a).artifacts # <<>>
           /\ IdsOf(PathFor(a)) = {a.id}
           /\ PathFor(a).evidence = a.evidence
           /\ PathFor(a).stamp = Facts(PathFor(a))
<1>1. a.id \in Nat /\ a.evidence \in SUBSET Evidence
  BY DEF Artifact
<1>. DEFINE p == PathFor(a)
<1>2. p = [artifacts |-> <<a.id>>, evidence |-> a.evidence, stamp |-> <<{a.id}, a.evidence>>]
  BY DEF PathFor
<1>3. <<a.id>> \in Seq(Nat) /\ <<a.id>> # <<>>
  BY <1>1
<1>4. p \in Path /\ p.artifacts # <<>> /\ p.evidence = a.evidence
  BY <1>1, <1>2, <1>3 DEF Path
<1>5. IdsOf(p) = {a.id}
  BY <1>2 DEF IdsOf
<1>. QED  BY <1>2, <1>4, <1>5 DEF Facts

LEMMA InitInv == Init => Inv
<1>. SUFFICES ASSUME Init PROVE Inv
  OBVIOUS
<1>1. artifacts \in Seq(Artifact) /\ Len(artifacts) \in Nat
  BY LinkAssumption, LenProperties DEF Init
<1>2. \A k \in Index : artifacts[k] \in Artifact
  BY <1>1, ElementOfSeq DEF Index
<1>3. paths = [k \in Index |-> PathFor(artifacts[k])]
  BY DEF Init
<1>4. \A k \in Index :
        /\ paths[k] \in Path /\ paths[k].artifacts # <<>>
        /\ IdsOf(paths[k]) = {artifacts[k].id}
        /\ paths[k].evidence = artifacts[k].evidence
        /\ paths[k].stamp = Facts(paths[k])
  BY <1>2, <1>3, PathForType
<1>5. linked = <<>> /\ gone \subseteq Index /\ pass = "revoke" /\ i = 1 /\ j = 0
  BY DEF Init
<1>6. TypeOK
  <2>1. paths \in [Index -> Path]
    BY <1>3, <1>4
  <2>2. i \in 1..(Len(artifacts) + 1)
    BY <1>1, <1>5
  <2>. QED  BY <1>1, <1>4, <1>5, <2>1, <2>2 DEF TypeOK
<1>7. Live = {k \in Index : artifacts[k].evidence # {}}
  BY DEF Init, Live
<1>8. EvidenceOf(Live) = AllEvidence
  BY <1>4, <1>7 DEF EvidenceOf, AllEvidence
<1>9. IdsIn(Live) = AllIds
  <2>1. ASSUME NEW x \in IdsIn(Live) PROVE x \in AllIds
    BY <1>4, <1>7 DEF IdsIn, AllIds
  <2>2. ASSUME NEW x \in AllIds PROVE x \in IdsIn(Live)
    BY <1>4, <1>7 DEF IdsIn, AllIds
  <2>. QED  BY <2>1, <2>2
<1>10. NothingLost
  BY <1>5, <1>8, <1>9 DEF NothingLost
<1>11. DisjointArtifacts => Apart
  BY <1>4, <1>7 DEF DisjointArtifacts, Apart
<1>12. Stamped /\ StampCurrent
  BY <1>4, <1>5, <1>7 DEF Stamped, StampCurrent
<1>. QED  BY <1>1, <1>5, <1>6, <1>10, <1>11, <1>12 DEF Inv, Typed, Cursor
-----------------------------------------------------------------------------
(* The steps.                                                              *)

\* A step that leaves the paths alone keeps what is said about them.
LEMMA PathsUnchanged ==
    ASSUME UNCHANGED <<artifacts, paths, gone>>
    PROVE  /\ Live' = Live /\ Index' = Index
           /\ EvidenceOf(Live)' = EvidenceOf(Live) /\ IdsIn(Live)' = IdsIn(Live)
           /\ AllEvidence' = AllEvidence /\ AllIds' = AllIds
           /\ DisjointArtifacts' = DisjointArtifacts
           /\ Apart' = Apart
BY DEF Live, Index, EvidenceOf, IdsIn, AllEvidence, AllIds, DisjointArtifacts, Apart

\* A step of the loops that leaves the paths alone.
LEMMA Idle ==
    ASSUME Inv, UNCHANGED <<artifacts, paths, gone, linked>>,
           pass' \in {"revoke", "query", "refresh"},
           i' \in 1..(Len(artifacts) + 1),
           j' \in {0} \cup 2..(Len(artifacts) + 1),
           Cursor', j = 0 \/ (j' # 0 /\ i' = i)
    PROVE  Inv'
<1>1. TypeOK'
  BY PathsUnchanged DEF Inv, Typed, TypeOK
<1>2. NothingLost'
  BY PathsUnchanged DEF Inv, NothingLost
<1>3. (DisjointArtifacts => Apart)'
  BY PathsUnchanged DEF Inv
<1>4. StampCurrent'
  BY DEF Inv, StampCurrent
<1>5. Stamped'
  <2>. SUFFICES ASSUME NEW k \in Live
                PROVE  (j' # 0 /\ k = i') \/ paths[k].stamp = Facts(paths[k])
    BY PathsUnchanged DEF Stamped, Facts
  <2>1. (j # 0 /\ k = i) \/ paths[k].stamp = Facts(paths[k])
    BY DEF Inv, Stamped
  <2>. QED  BY <2>1
<1>. QED  BY <1>1, <1>2, <1>3, <1>4, <1>5 DEF Inv, Typed
\* A step that merges path s into path t.
LEMMA Merge ==
    ASSUME Inv, NEW s \in Live, NEW t \in Live, s # t, Absorbed(s, t),
           paths' \in [Index -> Path],
           pass # "linked", UNCHANGED <<pass, linked>>,
           i' \in 1..(Len(artifacts) + 1),
           j' \in {0} \cup 2..(Len(artifacts) + 1),
           Cursor', Stamped'
    PROVE  Inv'
<1>1. artifacts' = artifacts /\ Index' = Index /\ s \in Index /\ t \in Index
  BY DEF Absorbed, Index, Live
<1>2. TypeOK'
  <2>1. \A k \in Index : paths'[k].artifacts # <<>>
    BY <1>1 DEF Absorbed, Inv, Typed, TypeOK
  <2>2. gone' \subseteq Index
    BY <1>1 DEF Absorbed, Inv, Typed, TypeOK
  <2>. QED  BY <1>1, <2>1, <2>2 DEF Inv, Typed, TypeOK
<1>3. NothingLost'
  <2>1. AllEvidence' = AllEvidence /\ AllIds' = AllIds
    BY <1>1 DEF AllEvidence, AllIds
  <2>2. EvidenceOf(Live) = AllEvidence /\ IdsIn(Live) = AllIds
    BY DEF Inv, NothingLost
  <2>. QED  BY <2>1, <2>2, AbsorbedLoses DEF NothingLost
<1>4. (DisjointArtifacts => Apart)'
  <2>1. DisjointArtifacts' = DisjointArtifacts
    BY <1>1 DEF DisjointArtifacts
  <2>. QED  BY <2>1, AbsorbedApart DEF Inv
<1>5. StampCurrent'
  BY DEF Inv, StampCurrent
<1>. QED  BY <1>1, <1>2, <1>3, <1>4, <1>5 DEF Inv, Typed

LEMMA LinkStep ==
    ASSUME Inv, NEW targets \in SUBSET Others(i), Link(targets),
           targets # {} => i \in Live, pass \in {"revoke", "query"}
    PROVE  Inv'
<1>1. j = 0 /\ j' = 0
  BY DEF Inv, Cursor, Link
<1>2. i' \in 1..(Len(artifacts) + 1) /\ i \in Index
  BY DEF Link, Index, Inv, Typed
<1>3. Cursor'
  BY <1>1 DEF Cursor
<1>4. CASE targets = {}
  BY <1>1, <1>2, <1>3, <1>4, Idle DEF Link
<1>5. CASE targets # {}
  <2>. PICK t \in targets : Absorb(i, t)
    BY <1>5 DEF Link
  <2>1. i \in Live /\ t \in Live /\ t # i /\ t \in Index
    BY <1>5 DEF Others, Live
  <2>2. UNCHANGED <<artifacts, pass, linked>>
    BY DEF Link
  <2>3. /\ Absorbed(i, t)
        /\ paths'[t].stamp = Facts(paths'[t])
        /\ paths' \in [Index -> Path]
    BY <1>2, <2>1, <2>2, AbsorbIsAbsorbed DEF Inv, Typed
  <2>4. Stamped'
    <3>. SUFFICES ASSUME NEW k \in Live'
                  PROVE  paths'[k].stamp = Facts(paths'[k])
      BY DEF Stamped, Facts
    <3>1. k \in Live
      BY <2>2, <2>3 DEF Absorbed, Live, Index
    <3>2. paths[k].stamp = Facts(paths[k])
      BY <1>1, <3>1 DEF Inv, Stamped
    <3>3. k = t \/ paths'[k] = paths[k]
      BY <3>1, <2>3 DEF Absorbed, Live
    <3>. QED  BY <2>3, <3>2, <3>3
  <2>. QED  BY <1>1, <1>2, <1>3, <2>1, <2>2, <2>3, <2>4, Merge
<1>. QED  BY <1>4, <1>5

LEMMA LinkRefreshStep ==
    ASSUME Inv, LinkRefresh
    PROVE  Inv'
<1>1. j \in Nat \ {0} /\ j \in Index /\ pass = "refresh" /\ i \in Live /\ i < j
      /\ j' = j + 1 /\ UNCHANGED <<artifacts, pass, i, linked>>
  BY DEF Inv, Typed, Cursor, LinkRefresh, Index
<1>2. j' \in 2..(Len(artifacts) + 1) /\ i' \in 1..(Len(artifacts) + 1) /\ i \in Index
      /\ i < j'
  BY <1>1 DEF Index, Inv, Typed, TypeOK, Live
<1>3. CASE UNCHANGED <<paths, gone>>
  <2>1. Cursor'
    BY <1>1, <1>2, <1>3, PathsUnchanged DEF Cursor
  <2>. QED  BY <1>1, <1>2, <1>3, <2>1, Idle
<1>4. CASE /\ j \in Live
           /\ paths' = [paths EXCEPT ![i] = Merged(paths[j], @)]
           /\ gone' = gone \cup {j}
  <2>1. paths \in [Index -> Path] /\ paths[i] \in Path /\ paths[j] \in Path
        /\ paths[i].artifacts # <<>>
    BY <1>1, <1>2 DEF Inv, Typed, TypeOK
  <2>. DEFINE m == Merged(paths[j], paths[i])
  <2>2. /\ m \in Path
        /\ m.artifacts # <<>>
        /\ IdsOf(m) = IdsOf(paths[j]) \cup IdsOf(paths[i])
        /\ m.evidence = paths[j].evidence \cup paths[i].evidence
    BY <2>1, MergedPath
  <2>3. paths' = [paths EXCEPT ![i] = m]
    BY <1>4
  <2>. HIDE DEF m
  <2>4. /\ paths' \in [Index -> Path]
        /\ paths'[i] = m
        /\ \A k \in Index \ {i} : paths'[k] = paths[k]
    BY <1>2, <2>1, <2>2, <2>3
  <2>5. Absorbed(j, i)
    BY <1>1, <1>4, <2>2, <2>4 DEF Absorbed
  <2>6. Live' = Live \ {j}
    BY <1>1, <1>4 DEF Live, Index
  <2>7. Cursor'
    BY <1>1, <1>2, <2>6 DEF Cursor
  <2>8. Stamped'
    <3>. SUFFICES ASSUME NEW k \in Live', k # i
                  PROVE  paths'[k].stamp = Facts(paths'[k])
      BY <1>1, <1>2 DEF Stamped, Facts
    <3>1. k \in Live /\ k \in Index
      BY <2>6 DEF Live
    <3>2. paths[k].stamp = Facts(paths[k])
      BY <3>1 DEF Inv, Stamped
    <3>. QED  BY <2>4, <3>1, <3>2
  <2>. QED  BY <1>1, <1>2, <1>4, <2>4, <2>5, <2>7, <2>8, Merge
<1>. QED  BY <1>3, <1>4 DEF LinkRefresh
LEMMA CloseTargetStep ==
    ASSUME Inv, CloseTarget
    PROVE  Inv'
<1>1. Len(artifacts) \in Nat /\ j \in Nat /\ j # 0 /\ i \in Live /\ i \in Index
  BY DEF Inv, Typed, TypeOK, Cursor, CloseTarget, Live
<1>2. /\ j' = 0 /\ i' = i + 1 /\ i' \in 1..(Len(artifacts) + 1)
      /\ pass = "refresh"
      /\ UNCHANGED <<artifacts, gone, pass, linked>>
  BY <1>1 DEF CloseTarget, Index
<1>3. Index' = Index /\ Live' = Live
  BY <1>2 DEF Index, Live
<1>4. paths \in [Index -> Path] /\ paths[i] \in Path /\ paths[i].artifacts # <<>>
  BY <1>1 DEF Inv, Typed, TypeOK
<1>. DEFINE r == Refreshed(paths[i])
<1>5. /\ r \in Path
      /\ r.artifacts # <<>>
      /\ IdsOf(r) = IdsOf(paths[i])
      /\ r.evidence = paths[i].evidence
      /\ r.stamp = Facts(r)
  BY <1>4, RefreshedPath
<1>6. paths' = [paths EXCEPT ![i] = r]
  BY DEF CloseTarget
<1>. HIDE DEF r
<1>7. /\ paths' \in [Index -> Path]
      /\ paths'[i] = r
      /\ \A k \in Index \ {i} : paths'[k] = paths[k]
  BY <1>1, <1>4, <1>5, <1>6
<1>8. \A k \in Index : /\ paths'[k].evidence = paths[k].evidence
                       /\ IdsOf(paths'[k]) = IdsOf(paths[k])
                       /\ paths'[k].artifacts # <<>>
  BY <1>5, <1>7 DEF Inv, Typed, TypeOK
<1>9. TypeOK'
  BY <1>2, <1>3, <1>7, <1>8 DEF Inv, Typed, TypeOK
<1>10. NothingLost'
  <2>1. EvidenceOf(Live)' = EvidenceOf(Live) /\ IdsIn(Live)' = IdsIn(Live)
    BY <1>3, <1>8 DEF EvidenceOf, IdsIn, Live
  <2>2. AllEvidence' = AllEvidence /\ AllIds' = AllIds
    BY <1>2, <1>3 DEF AllEvidence, AllIds
  <2>. QED  BY <1>2, <2>1, <2>2 DEF Inv, NothingLost
<1>11. (DisjointArtifacts => Apart)'
  <2>1. DisjointArtifacts' = DisjointArtifacts
    BY <1>2, <1>3 DEF DisjointArtifacts
  <2>2. Apart => Apart'
    BY <1>3, <1>8 DEF Apart, Live
  <2>. QED  BY <2>1, <2>2 DEF Inv
<1>12. Stamped'
  <2>. SUFFICES ASSUME NEW k \in Live
                PROVE  paths'[k].stamp = Facts(paths'[k])
    BY <1>3 DEF Stamped, Facts
  <2>1. CASE k = i
    BY <1>5, <1>7, <2>1
  <2>2. CASE k # i
    <3>1. paths[k].stamp = Facts(paths[k])
      BY <2>2 DEF Inv, Stamped
    <3>. QED  BY <1>7, <2>2, <3>1 DEF Live
  <2>. QED  BY <2>1, <2>2
<1>13. StampCurrent'
  BY <1>2 DEF Inv, StampCurrent
<1>14. Cursor'
  BY <1>2 DEF Cursor
<1>. QED  BY <1>2, <1>9, <1>10, <1>11, <1>12, <1>13, <1>14 DEF Inv, Typed

LEMMA SortPathsStep ==
    ASSUME Inv, SortPaths
    PROVE  Inv'
<1>1. pass' = "linked" /\ j = 0 /\ UNCHANGED <<artifacts, paths, gone, i, j>>
  BY DEF SortPaths
<1>. DEFINE n == Cardinality(Live)
<1>2. n \in Nat
  <2>1. IsFiniteSet(Index)
    BY FS_Interval DEF Inv, Typed, Index
  <2>2. IsFiniteSet(Live)
    BY <2>1, FS_Subset DEF Live
  <2>. QED  BY <2>2, FS_CardinalityType
<1>. HIDE DEF n
<1>3. PICK order \in [1..n -> Live] :
        /\ {order[x] : x \in DOMAIN order} = Live
        /\ linked' = [x \in DOMAIN order |-> paths[order[x]]]
  BY DEF SortPaths, n
<1>4. DOMAIN order = 1..n /\ \A x \in 1..n : order[x] \in Live /\ order[x] \in Index
  BY <1>3 DEF Live
<1>5. \A x \in 1..n : paths[order[x]] \in Path
  BY <1>4 DEF Inv, Typed, TypeOK
<1>6. /\ linked' \in [1..n -> Path]
      /\ \A x \in 1..n : linked'[x] = paths[order[x]]
  BY <1>3, <1>4, <1>5
<1>7. linked' \in Seq(Path) /\ Len(linked') = n
  BY <1>2, <1>6
<1>8. \A k \in Live : \E x \in 1..n : order[x] = k
  BY <1>3, <1>4
<1>9. TypeOK'
  BY <1>1, <1>7 DEF Inv, Typed, TypeOK, Index
<1>10. NothingLost'
  <2>1. EvidenceOf(Live) = AllEvidence /\ IdsIn(Live) = AllIds
    BY DEF Inv, NothingLost
  <2>2. UNION {linked'[x].evidence : x \in 1..n} = EvidenceOf(Live)
    <3>1. ASSUME NEW e \in EvidenceOf(Live)
          PROVE  e \in UNION {linked'[x].evidence : x \in 1..n}
      BY <1>6, <1>8 DEF EvidenceOf
    <3>2. ASSUME NEW e \in UNION {linked'[x].evidence : x \in 1..n}
          PROVE  e \in EvidenceOf(Live)
      BY <1>4, <1>6 DEF EvidenceOf
    <3>. QED  BY <3>1, <3>2
  <2>3. UNION {IdsOf(linked'[x]) : x \in 1..n} = IdsIn(Live)
    <3>1. ASSUME NEW e \in IdsIn(Live)
          PROVE  e \in UNION {IdsOf(linked'[x]) : x \in 1..n}
      BY <1>6, <1>8 DEF IdsIn
    <3>2. ASSUME NEW e \in UNION {IdsOf(linked'[x]) : x \in 1..n}
          PROVE  e \in IdsIn(Live)
      BY <1>4, <1>6 DEF IdsIn
    <3>. QED  BY <3>1, <3>2
  <2>4. 1..Len(linked') = 1..n
    BY <1>7
  <2>. QED  BY <1>1, <2>1, <2>2, <2>3, <2>4, PathsUnchanged DEF NothingLost, IdsOf
<1>11. (DisjointArtifacts => Apart)'
  BY <1>1, PathsUnchanged DEF Inv
<1>12. Stamped'
  BY <1>1, PathsUnchanged DEF Inv, Stamped
<1>13. StampCurrent'
  <2>. SUFFICES ASSUME NEW x \in 1..n
                PROVE  linked'[x].stamp = Facts(linked'[x])
    BY <1>7 DEF StampCurrent, Facts
  <2>1. paths[order[x]].stamp = Facts(paths[order[x]])
    BY <1>1, <1>4 DEF Inv, Stamped
  <2>. QED  BY <1>6, <2>1
<1>14. Cursor'
  BY <1>1 DEF Cursor
<1>. QED  BY <1>1, <1>9, <1>10, <1>11, <1>12, <1>13, <1>14 DEF Inv, Typed

LEMMA EndPassStep ==
    ASSUME Inv, NEW here \in {"revoke", "query"}, NEW there \in {"query", "refresh"},
           EndPass(here, there)
    PROVE  Inv'
<1>1. j = 0 /\ j' = 0 /\ pass' = there /\ i' = 1
      /\ UNCHANGED <<artifacts, paths, gone, linked>>
  BY DEF Inv, Cursor, EndPass
<1>2. i' \in 1..(Len(artifacts) + 1)
  BY <1>1 DEF Inv, Typed
<1>3. Cursor'
  BY <1>1 DEF Cursor
<1>. QED  BY <1>1, <1>2, <1>3, Idle

LEMMA SkipTargetStep ==
    ASSUME Inv, SkipTarget
    PROVE  Inv'
<1>1. j = 0 /\ j' = 0 /\ pass' = "refresh" /\ i \in Index /\ i' = i + 1
      /\ UNCHANGED <<artifacts, paths, gone, linked>>
  BY DEF SkipTarget
<1>2. i' \in 1..(Len(artifacts) + 1)
  BY <1>1 DEF Inv, Typed, Index
<1>3. Cursor'
  BY <1>1 DEF Cursor
<1>. QED  BY <1>1, <1>2, <1>3, Idle

LEMMA OpenTargetStep ==
    ASSUME Inv, OpenTarget
    PROVE  Inv'
<1>1. j = 0 /\ j' = i + 1 /\ pass' = "refresh" /\ i \in Index /\ i' = i /\ i \in Live
      /\ UNCHANGED <<artifacts, paths, gone, linked>>
  BY DEF OpenTarget, RefreshTarget
<1>2. i' \in 1..(Len(artifacts) + 1) /\ j' \in 2..(Len(artifacts) + 1) /\ i < j'
  BY <1>1 DEF Inv, Typed, Index
<1>3. Cursor'
  BY <1>1, <1>2, PathsUnchanged DEF Cursor
<1>. QED  BY <1>1, <1>2, <1>3, Idle

LEMMA NextInv == Inv /\ [Next]_vars => Inv'
<1>. SUFFICES ASSUME Inv, [Next]_vars PROVE Inv'
  OBVIOUS
<1>1. CASE LinkRevoke
  <2>1. RevokeTargets(i) \in SUBSET Others(i) /\ (RevokeTargets(i) # {} => i \in Live)
    BY DEF RevokeTargets
  <2>. QED  BY <1>1, <2>1, LinkStep DEF LinkRevoke
<1>2. CASE LinkQuery
  <2>1. QueryTargets(i) \in SUBSET Others(i) /\ (QueryTargets(i) # {} => i \in Live)
    BY DEF QueryTargets
  <2>. QED  BY <1>2, <2>1, LinkStep DEF LinkQuery
<1>3. CASE EndPass("revoke", "query")
  BY <1>3, EndPassStep
<1>4. CASE EndPass("query", "refresh")
  BY <1>4, EndPassStep
<1>5. CASE SkipTarget
  BY <1>5, SkipTargetStep
<1>6. CASE OpenTarget
  BY <1>6, OpenTargetStep
<1>7. CASE LinkRefresh
  BY <1>7, LinkRefreshStep
<1>8. CASE CloseTarget
  BY <1>8, CloseTargetStep
<1>9. CASE SortPaths
  BY <1>9, SortPathsStep
<1>10. CASE UNCHANGED vars
  <2>1. Live' = Live
    BY <1>10 DEF vars, Live, Index
  <2>2. TypeOK'
    BY <1>10 DEF vars, Inv, Typed, TypeOK, Index
  <2>3. NothingLost' /\ (DisjointArtifacts => Apart)'
    BY <1>10, PathsUnchanged DEF vars, Inv, NothingLost
  <2>4. Stamped' /\ StampCurrent' /\ Cursor'
    BY <1>10, <2>1 DEF vars, Inv, Stamped, StampCurrent, Cursor, Facts, IdsOf
  <2>. QED  BY <1>10, <2>2, <2>3, <2>4 DEF vars, Inv, Typed
<1>. QED
  BY <1>1, <1>2, <1>3, <1>4, <1>5, <1>6, <1>7, <1>8, <1>9, <1>10 DEF Next, Step

\* The passes keep their bookkeeping: what the theorems below follow from.
THEOREM LinkInvariance == Spec => []Inv
<1>. QED  BY InitInv, NextInv, PTL DEF Spec

\* Every state of the passes is well formed.
THEOREM LinkTypeCorrectness == Spec => []TypeOK
<1>1. Inv => TypeOK
  BY DEF Inv, Typed
<1>. QED  BY <1>1, LinkInvariance, PTL

\* Linking loses and invents neither evidence nor ids, for every report.
THEOREM LinkLosesNothing == Spec => []NothingLost
<1>1. Inv => NothingLost
  BY DEF Inv
<1>. QED  BY <1>1, LinkInvariance, PTL

\* Linking never tells one piece of evidence in two paths, for every report
\* whose artifacts share none.
THEOREM LinkTellsOnce == Spec => []NothingTwice
<1>1. Inv => NothingTwice
  BY DEF Inv, NothingTwice, Apart
<1>. QED  BY <1>1, LinkInvariance, PTL

\* The metadata of every reported path is derived from what it holds.
THEOREM LinkStampsCurrent == Spec => []StampCurrent
<1>1. Inv => StampCurrent
  BY DEF Inv
<1>. QED  BY <1>1, LinkInvariance, PTL

-----------------------------------------------------------------------------
(* Natural numbers, and where a path finds an id.                          *)

LEMMA LeastNat ==
    ASSUME NEW T \in SUBSET Nat, T # {}
    PROVE  \E x \in T : \A y \in T : x <= y
<1>. DEFINE R == OpToRel(<, Nat)
<1>1. IsWellFoundedOn(R, Nat)
  BY NatLessThanWellFounded
<1>. HIDE DEF R
<1>2. PICK x \in T : \A y \in T : ~(<<y, x>> \in R)
  BY <1>1, WFMin
<1>3. \A y \in T : ~(y < x)
  BY <1>2 DEF R, OpToRel
<1>. QED  BY <1>3

\* Induction over a set of natural numbers.
LEMMA AllNat ==
    ASSUME NEW S \in SUBSET Nat, 0 \in S, \A n \in S : n + 1 \in S
    PROVE  S = Nat
<1>. SUFFICES ASSUME Nat \ S # {} PROVE FALSE
  OBVIOUS
<1>1. PICK n \in Nat \ S : \A m \in Nat \ S : n <= m
  BY LeastNat
<1>2. n # 0 /\ n - 1 \in Nat
  BY <1>1
<1>3. n - 1 \in S
  BY <1>1, <1>2
<1>4. (n - 1) + 1 \in S
  BY <1>3
<1>. QED  BY <1>1, <1>2, <1>4

LEMMA GreatestNat ==
    ASSUME NEW n \in Nat, NEW S \in SUBSET (1..n), S # {}
    PROVE  \E x \in S : \A y \in S : y <= x
<1>. DEFINE T == {m \in Nat : \A y \in S : y <= m}
<1>1. n \in T
  OBVIOUS
<1>2. PICK x \in T : \A y \in T : x <= y
  BY <1>1, LeastNat
<1>3. x \in S
  <2>. SUFFICES ASSUME x \notin S PROVE FALSE
    OBVIOUS
  <2>1. \A y \in S : y <= x /\ y # x /\ y \in Nat /\ y # 0
    BY <1>2
  <2>. PICK z \in S : TRUE
    OBVIOUS
  <2>2. x # 0 /\ x \in Nat
    <3>1. z <= x /\ z \in Nat /\ z # 0 /\ x \in Nat
      BY <2>1
    <3>. QED  BY <3>1
  <2>3. x - 1 \in T
    BY <2>1, <2>2
  <2>. QED  BY <1>2, <2>2, <2>3
<1>. QED  BY <1>2, <1>3

\* What the types of artifacts and paths say, whatever the pass.
Shaped ==
    /\ artifacts \in Seq(Artifact)
    /\ Len(artifacts) \in Nat
    /\ paths \in [Index -> Path]
    /\ \A k \in Index : paths[k].artifacts # <<>>

LEMMA TypedShaped == Typed => Shaped
BY DEF Typed, TypeOK, Shaped

LEMMA LookupFinds ==
    ASSUME Shaped, NEW k \in Index
    PROVE  \E l \in Index : /\ Lookup(artifacts[k].id) = artifacts[l]
                            /\ artifacts[l].id = artifacts[k].id
<1>. DEFINE S == {l \in Index : artifacts[l].id = artifacts[k].id}
<1>1. Len(artifacts) \in Nat /\ S \in SUBSET (1..Len(artifacts)) /\ S # {}
  BY DEF Shaped, Index
<1>2. PICK m \in S : \A l \in S : l <= m
  BY <1>1, GreatestNat
<1>3. \E l \in Index : /\ artifacts[l].id = artifacts[k].id
                       /\ \A o \in Index : artifacts[o].id = artifacts[k].id => o <= l
  BY <1>2
<1>. QED  BY <1>3 DEF Lookup

LEMMA MinIsIn ==
    ASSUME NEW S \in SUBSET Nat, S # {}
    PROVE  Min(S) \in S /\ \A y \in S : Min(S) <= y
BY LeastNat DEF Min

-----------------------------------------------------------------------------
(* What a step does to the paths.                                          *)

\* Nothing but the order of the ids and the stamp of a path.
Kept ==
    /\ UNCHANGED <<artifacts, gone>>
    /\ \A k \in Index : /\ IdsOf(paths'[k]) = IdsOf(paths[k])
                        /\ paths'[k].evidence = paths[k].evidence

\* The paths stay as they are, or the target of the refresh pass is refreshed.
Quiet == \/ /\ UNCHANGED paths
            /\ j = 0 \/ (j' # 0 /\ i' = i)
         \/ CloseTarget
Keeping == Kept /\ Quiet

\* Path s is merged into path t by the rule of the pass.
Linkable(s, t) ==
    \/ /\ pass = "revoke"
       /\ RevokeOnlyPath(paths[s]) /\ RevokeLinkable(paths[s], paths[t])
    \/ /\ pass = "query"
       /\ QueryPath(paths[s]) /\ QueryLinkable(paths[s], paths[t])
    \/ /\ pass = "refresh"
       /\ RefreshLinkable(paths[s], paths[t])

LinkMerge(s, t) ==
    /\ pass \in {"revoke", "query"} /\ s = i /\ j = 0
    /\ \A u \in Others(s) : Linkable(s, u) => t <= u
    /\ Absorb(s, t)
    /\ i' = i + 1 /\ j' = 0

RefreshMerge(s, t) ==
    /\ pass = "refresh" /\ s = j /\ t = i
    /\ paths' = [paths EXCEPT ![t] = Merged(paths[s], @)]
    /\ i' = i /\ j' = j + 1

Merging(s, t) ==
    /\ s \in Live /\ t \in Live /\ s # t
    /\ Absorbed(s, t)
    /\ Linkable(s, t)
    /\ pass' = pass
    /\ LinkMerge(s, t) \/ RefreshMerge(s, t)

LEMMA LinkIsMerging ==
    ASSUME Inv, NEW targets \in SUBSET Others(i), Link(targets),
           pass \in {"revoke", "query"}, i \in Live \/ targets = {},
           \A t \in Others(i) : i \in Live => (t \in targets <=> Linkable(i, t))
    PROVE  Keeping \/ \E s, t \in Index : Merging(s, t)
<1>1. j = 0 /\ j' = 0
  BY DEF Inv, Cursor, Link
<1>2. CASE targets = {}
  BY <1>1, <1>2 DEF Link, Keeping, Kept, Quiet, IdsOf
<1>3. CASE targets # {}
  <2>. PICK t \in targets : Absorb(i, t) /\ \A u \in targets : t <= u
    BY <1>3 DEF Link
  <2>1. i \in Live /\ t \in Live /\ t # i /\ t \in Index /\ i \in Index
    BY <1>3 DEF Others, Live
  <2>2. UNCHANGED <<artifacts, pass, linked>> /\ i' = i + 1
    BY DEF Link
  <2>3. Absorbed(i, t)
    BY <2>1, <2>2, AbsorbIsAbsorbed DEF Inv, Typed
  <2>4. Linkable(i, t)
    BY <2>1
  <2>5. LinkMerge(i, t)
    BY <1>1, <2>1, <2>2 DEF LinkMerge
  <2>. QED  BY <2>1, <2>2, <2>3, <2>4, <2>5 DEF Merging
<1>. QED  BY <1>2, <1>3

LEMMA StepCases ==
    ASSUME Inv, [Next]_vars
    PROVE  Keeping \/ \E s, t \in Index : Merging(s, t)
<1>1. CASE LinkRevoke
  <2>1. /\ RevokeTargets(i) \in SUBSET Others(i)
        /\ i \in Live \/ RevokeTargets(i) = {}
        /\ \A t \in Others(i) : i \in Live => (t \in RevokeTargets(i) <=> Linkable(i, t))
    BY <1>1 DEF RevokeTargets, Linkable, LinkRevoke
  <2>. QED  BY <1>1, <2>1, LinkIsMerging DEF LinkRevoke
<1>2. CASE LinkQuery
  <2>1. /\ QueryTargets(i) \in SUBSET Others(i)
        /\ i \in Live \/ QueryTargets(i) = {}
        /\ \A t \in Others(i) : i \in Live => (t \in QueryTargets(i) <=> Linkable(i, t))
    BY <1>2 DEF QueryTargets, Linkable, LinkQuery
  <2>. QED  BY <1>2, <2>1, LinkIsMerging DEF LinkQuery
<1>3. CASE EndPass("revoke", "query") \/ EndPass("query", "refresh")
  <2>1. j = 0 /\ UNCHANGED <<artifacts, paths, gone>>
    BY <1>3 DEF EndPass, Inv, Cursor
  <2>. QED  BY <2>1 DEF Keeping, Kept, Quiet, IdsOf
<1>4. CASE SkipTarget \/ OpenTarget \/ SortPaths \/ UNCHANGED vars
  <2>1. UNCHANGED <<artifacts, paths, gone>> /\ (j = 0 \/ (j' # 0 /\ i' = i))
    BY <1>4 DEF SkipTarget, OpenTarget, SortPaths, vars
  <2>. QED  BY <2>1 DEF Keeping, Kept, Quiet, IdsOf
<1>5. CASE LinkRefresh
  <2>1. CASE UNCHANGED <<paths, gone>>
    <3>1. j # 0 /\ j' # 0 /\ i' = i /\ artifacts' = artifacts
      BY <1>5 DEF LinkRefresh, Index, Inv, Typed
    <3>. QED  BY <2>1, <3>1 DEF Keeping, Kept, Quiet, IdsOf
  <2>2. CASE j \in Live /\ RefreshLinkable(paths[j], paths[i]) /\ ~UNCHANGED <<paths, gone>>
    <3>1. /\ j \in Index /\ i \in Live /\ i < j /\ i \in Index /\ i # j
      BY <1>5 DEF Inv, Typed, TypeOK, Cursor, LinkRefresh, Live, Index
    <3>2. paths \in [Index -> Path] /\ paths[i] \in Path /\ paths[j] \in Path
          /\ paths[i].artifacts # <<>>
      BY <3>1 DEF Inv, Typed, TypeOK
    <3>. DEFINE m == Merged(paths[j], paths[i])
    <3>3. /\ m \in Path
          /\ m.artifacts # <<>>
          /\ IdsOf(m) = IdsOf(paths[j]) \cup IdsOf(paths[i])
          /\ m.evidence = paths[j].evidence \cup paths[i].evidence
      BY <3>2, MergedPath
    <3>4. paths' = [paths EXCEPT ![i] = m] /\ gone' = gone \cup {j}
          /\ artifacts' = artifacts /\ pass' = pass /\ i' = i /\ j' = j + 1 /\ pass = "refresh"
      BY <1>5, <2>2 DEF LinkRefresh
    <3>5. RefreshMerge(j, i)
      BY <3>4 DEF RefreshMerge, m
    <3>. HIDE DEF m
    <3>6. /\ paths'[i] = m
          /\ \A k \in Index \ {i} : paths'[k] = paths[k]
      BY <3>1, <3>2, <3>4
    <3>7. Absorbed(j, i)
      BY <3>3, <3>4, <3>6 DEF Absorbed
    <3>. QED  BY <2>2, <3>1, <3>4, <3>5, <3>7 DEF Merging, Linkable
  <2>. QED  BY <1>5, <2>1, <2>2 DEF LinkRefresh
<1>6. CASE CloseTarget
  <2>1. i \in Index /\ paths \in [Index -> Path] /\ paths[i] \in Path /\ paths[i].artifacts # <<>>
    BY <1>6 DEF Inv, Typed, TypeOK, Cursor, CloseTarget, Live
  <2>. DEFINE r == Refreshed(paths[i])
  <2>2. IdsOf(r) = IdsOf(paths[i]) /\ r.evidence = paths[i].evidence
    BY <2>1, RefreshedPath
  <2>3. paths' = [paths EXCEPT ![i] = r] /\ UNCHANGED <<artifacts, gone>>
    BY <1>6 DEF CloseTarget
  <2>. HIDE DEF r
  <2>4. paths'[i] = r /\ \A k \in Index \ {i} : paths'[k] = paths[k]
    BY <2>1, <2>3
  <2>. QED  BY <1>6, <2>2, <2>3, <2>4 DEF Keeping, Kept, Quiet
<1>. QED  BY <1>1, <1>2, <1>3, <1>4, <1>5, <1>6 DEF Next, Step

-----------------------------------------------------------------------------
(* Where the artifacts are.                                                *)

\* Path p tells artifact k.
Holds(p, k) ==
    /\ k \in Members(p.evidence)
    /\ artifacts[k].id \in IdsOf(p)

Homes ==
    /\ artifacts \in Inputs
    /\ \A k \in Live : Holds(paths[k], k)
    /\ \A k \in Live : \A e \in paths[k].evidence :
            \E l \in Index : Holds(paths[k], l) /\ e \in artifacts[l].evidence
    /\ \A k \in Live : \A id \in IdsOf(paths[k]) :
            \E l \in Index : Holds(paths[k], l) /\ artifacts[l].id = id
    /\ \A k \in Index : artifacts[k].evidence # {} => \E l \in Live : Holds(paths[l], k)

LEMMA InitHomes == Init => Homes
<1>. SUFFICES ASSUME Init PROVE Homes
  OBVIOUS
<1>1. artifacts \in Seq(Artifact) /\ artifacts \in Inputs
  BY LinkAssumption DEF Init
<1>2. \A k \in Index : artifacts[k] \in Artifact
  BY <1>1, ElementOfSeq DEF Index
<1>3. \A k \in Index : IdsOf(paths[k]) = {artifacts[k].id} /\ paths[k].evidence = artifacts[k].evidence
  BY <1>2, PathForType DEF Init
<1>4. Live = {k \in Index : artifacts[k].evidence # {}}
  BY DEF Init, Live
<1>5. \A k \in Live : Holds(paths[k], k)
  BY <1>3, <1>4 DEF Holds, Members
<1>. QED  BY <1>1, <1>3, <1>4, <1>5 DEF Homes

LEMMA KeptHomes ==
    ASSUME Homes, Kept
    PROVE  Homes'
<1>1. Index' = Index /\ Live' = Live /\ artifacts' = artifacts
  BY DEF Kept, Index, Live
<1>2. \A k \in Live : k \in Index
  BY DEF Live
<1>3. \A k, l \in Index : Holds(paths[k], l)' <=> Holds(paths[k], l)
  BY <1>1 DEF Holds, Members, Kept
<1>. QED  BY <1>1, <1>2, <1>3 DEF Homes, Kept

LEMMA MergeHomes ==
    ASSUME Homes, NEW s \in Live, NEW t \in Live, s # t, Absorbed(s, t)
    PROVE  Homes'
<1>1. Index' = Index /\ Live' = Live \ {s} /\ artifacts' = artifacts /\ t \in Live'
  BY DEF Absorbed, Index, Live
<1>2. \A k \in Live : k \in Index
  BY DEF Live
<1>3. \A k \in Live' : k # t => paths'[k] = paths[k] /\ k \in Live
  BY <1>1, <1>2 DEF Absorbed
<1>4. \A k \in Live', l \in Index : k # t => (Holds(paths[k], l)' <=> Holds(paths[k], l))
  BY <1>1, <1>3 DEF Holds, Members, IdsOf
<1>5. \A l \in Index : Holds(paths[s], l) \/ Holds(paths[t], l) => Holds(paths[t], l)'
  BY <1>1, <1>2 DEF Holds, Members, Absorbed
<1>6. \A k \in Live' : Holds(paths[k], k)'
  BY <1>1, <1>2, <1>3, <1>4, <1>5 DEF Homes
<1>7. \A k \in Live' : \A e \in paths'[k].evidence :
            \E l \in Index' : Holds(paths[k], l)' /\ e \in artifacts'[l].evidence
  <2>. SUFFICES ASSUME NEW k \in Live', NEW e \in paths'[k].evidence
                PROVE  \E l \in Index : Holds(paths[k], l)' /\ e \in artifacts[l].evidence
    BY <1>1
  <2>1. CASE k = t
    <3>1. e \in paths[s].evidence \/ e \in paths[t].evidence
      BY <2>1 DEF Absorbed
    <3>2. PICK l \in Index : /\ Holds(paths[s], l) \/ Holds(paths[t], l)
                            /\ e \in artifacts[l].evidence
      BY <3>1 DEF Homes
    <3>. QED  BY <1>5, <2>1, <3>2
  <2>2. CASE k # t
    BY <1>3, <1>4, <2>2 DEF Homes
  <2>. QED  BY <2>1, <2>2
<1>8. \A k \in Live' : \A id \in IdsOf(paths[k])' :
            \E l \in Index' : Holds(paths[k], l)' /\ artifacts'[l].id = id
  <2>. SUFFICES ASSUME NEW k \in Live', NEW id \in IdsOf(paths'[k])
                PROVE  \E l \in Index : Holds(paths[k], l)' /\ artifacts[l].id = id
    BY <1>1
  <2>1. CASE k = t
    <3>1. id \in IdsOf(paths[s]) \/ id \in IdsOf(paths[t])
      BY <2>1 DEF Absorbed
    <3>2. PICK l \in Index : (Holds(paths[s], l) \/ Holds(paths[t], l)) /\ artifacts[l].id = id
      BY <3>1 DEF Homes
    <3>. QED  BY <1>5, <2>1, <3>2
  <2>2. CASE k # t
    <3>1. k \in Live /\ id \in IdsOf(paths[k])
      BY <1>3, <2>2
    <3>2. PICK l \in Index : Holds(paths[k], l) /\ artifacts[l].id = id
      BY <3>1 DEF Homes
    <3>. QED  BY <1>4, <2>2, <3>2
  <2>. QED  BY <2>1, <2>2
<1>9. \A k \in Index : artifacts[k].evidence # {} => \E l \in Live' : Holds(paths[l], k)'
  <2>. SUFFICES ASSUME NEW k \in Index, artifacts[k].evidence # {}
                PROVE  \E l \in Live' : Holds(paths[l], k)'
    OBVIOUS
  <2>. PICK l \in Live : Holds(paths[l], k)
    BY DEF Homes
  <2>1. CASE l \in {s, t}
    BY <1>1, <1>5, <2>1
  <2>2. CASE l \notin {s, t}
    BY <1>1, <1>4, <2>2
  <2>. QED  BY <2>1, <2>2
<1>. QED  BY <1>1, <1>6, <1>7, <1>8, <1>9 DEF Homes

-----------------------------------------------------------------------------
(* The artifact that represents a path.                                    *)

LEMMA RepresentativeId ==
    ASSUME NEW p \in Path, p.artifacts # <<>>
    PROVE  \E id \in IdsOf(p) : Representative(p) = Lookup(id)
<1>. DEFINE strong == {k \in 1..Len(p.artifacts) : ~OnlyRevoke(Lookup(p.artifacts[k]))}
            n == IF strong = {} THEN 1 ELSE Min(strong)
<1>1. Len(p.artifacts) \in Nat /\ Len(p.artifacts) # 0
  BY LenProperties, EmptySeq DEF Path
<1>2. strong \in SUBSET (1..Len(p.artifacts))
  OBVIOUS
<1>. HIDE DEF strong
<1>3. n \in 1..Len(p.artifacts)
  <2>1. strong # {} => Min(strong) \in strong
    BY <1>1, <1>2, MinIsIn
  <2>2. CASE strong = {}
    BY <1>1, <2>2
  <2>3. CASE strong # {}
    <3>1. n = Min(strong)
      BY <2>3
    <3>. QED  BY <1>2, <2>1, <2>3, <3>1
  <2>. QED  BY <2>2, <2>3
<1>4. Representative(p) = Lookup(p.artifacts[n])
  BY DEF Representative, strong
<1>5. p.artifacts[n] \in IdsOf(p)
  BY <1>3 DEF IdsOf
<1>. QED  BY <1>4, <1>5

\* Artifacts with one id have one type and one name.
LEMMA OneIdentity ==
    ASSUME artifacts \in Inputs, NEW k \in Index, NEW l \in Index,
           artifacts[k].id = artifacts[l].id
    PROVE  artifacts[k].type = artifacts[l].type /\ artifacts[k].name = artifacts[l].name
BY IdAssumption DEF Index

Identity(a, b) == a.id = b.id /\ a.type = b.type /\ a.name = b.name

\* The artifact an id of a path stands for is an artifact of the report, and one
\* the path tells has its identity.
LEMMA LookupHeld ==
    ASSUME Shaped, Homes, NEW k \in Live, NEW id \in IdsOf(paths[k])
    PROVE  /\ \E m \in Index : Lookup(id) = artifacts[m]
           /\ \E l \in Index : Holds(paths[k], l) /\ Identity(Lookup(id), artifacts[l])
           /\ Lookup(id).id = id
<1>. PICK l \in Index : Holds(paths[k], l) /\ artifacts[l].id = id
  BY DEF Homes
<1>. PICK m \in Index : Lookup(id) = artifacts[m] /\ artifacts[m].id = id
  BY LookupFinds
<1>1. Identity(artifacts[m], artifacts[l])
  BY OneIdentity DEF Homes, Identity
<1>. QED  BY <1>1

LEMMA RepresentativeHeld ==
    ASSUME Shaped, Homes, NEW k \in Live
    PROVE  /\ Representative(paths[k]) \in Artifact
           /\ \E m \in Index : Representative(paths[k]) = artifacts[m]
           /\ \E l \in Index : /\ Holds(paths[k], l)
                               /\ Identity(Representative(paths[k]), artifacts[l])
<1>1. paths[k] \in Path /\ paths[k].artifacts # <<>>
  BY DEF Shaped, Live
<1>. PICK id \in IdsOf(paths[k]) : Representative(paths[k]) = Lookup(id)
  BY <1>1, RepresentativeId
<1>2. \A m \in Index : artifacts[m] \in Artifact
  BY ElementOfSeq DEF Shaped, Index
<1>. QED  BY <1>2, LookupHeld

-----------------------------------------------------------------------------
(* Refresh tokens are linked where they are.                               *)

Closely(k, m) == \/ InContext(artifacts[k], artifacts[m])
                 \/ artifacts[k].evidence \cap artifacts[m].evidence # {}
AllRefresh(k, M) == \A l \in M : artifacts[l].name = artifacts[k].name => IsRefresh(artifacts[l])
LocalIn(M) == \A k \in M : (M # {k} /\ AllRefresh(k, M)) => \E m \in M \ {k} : Closely(k, m)
Locals == \A k \in Live : LocalIn(Members(paths[k].evidence))

LEMMA NearSymmetric ==
    ASSUME NEW e \in Evidence, NEW f \in Evidence, Near(e, f)
    PROVE  Near(f, e)
BY LinkAssumption DEF Near, NoLine

\* A path merged with another of refresh tokens is near it.
LEMMA RefreshNeedsContext ==
    ASSUME Typed, Homes, NEW s \in Live, NEW t \in Live, Linkable(s, t), NEW k \in Live,
           k = s \/ k = t, NEW a \in Index, IsRefresh(artifacts[a]),
           Identity(Representative(paths[k]), artifacts[a]),
           NEW l \in Live, {k, l} = {s, t}, 
           NEW b \in Index, Identity(Representative(paths[l]), artifacts[b]),
           artifacts[b].name = artifacts[a].name => IsRefresh(artifacts[b])
    PROVE  InContext(paths[s], paths[t])
<1>1. IsRefresh(Representative(paths[k]))
  BY DEF IsRefresh, Identity
<1>2. CASE pass = "revoke"
  <2>1. CompatibleRevoke(Representative(paths[s]), Representative(paths[t]))
    BY <1>2 DEF Linkable, RevokeLinkable
  <2>2. Representative(paths[l]).name = Representative(paths[k]).name
        \/ BothAliases(Representative(paths[s]), Representative(paths[t]))
    BY <2>1 DEF CompatibleRevoke
  <2>3. CASE BothAliases(Representative(paths[s]), Representative(paths[t]))
    BY <1>2, <2>3 DEF Linkable, RevokeLinkable
  <2>4. CASE Representative(paths[l]).name = Representative(paths[k]).name
    <3>1. IsRefresh(Representative(paths[l]))
      BY <2>4 DEF Identity, IsRefresh
    <3>. QED  BY <1>1, <1>2, <3>1 DEF Linkable, RevokeLinkable
  <2>. QED  BY <2>2, <2>3, <2>4
<1>3. CASE pass # "revoke"
  BY <1>3 DEF Linkable, QueryLinkable, RefreshLinkable
<1>. QED  BY <1>2, <1>3

LEMMA MergeLocals ==
    ASSUME Typed, Homes, Locals, NEW s \in Index, NEW t \in Index, Merging(s, t)
    PROVE  Locals'
<1>1. Index' = Index /\ Live' = Live \ {s} /\ artifacts' = artifacts
      /\ s \in Live /\ t \in Live /\ s # t /\ Absorbed(s, t) /\ Linkable(s, t)
  BY DEF Merging, Absorbed, Index, Live
<1>2. \A k \in Live' : k # t => paths'[k] = paths[k] /\ k \in Live
  BY <1>1 DEF Absorbed, Live
<1>. DEFINE E == paths[s].evidence \cup paths[t].evidence
            M == Members(E)
            H(k) == Members(paths[k].evidence)
<1>3. paths'[t].evidence = E
  BY <1>1 DEF Absorbed
<1>5. H(s) \subseteq M /\ H(t) \subseteq M
  BY DEF Members
<1>6. LocalIn(M)
  <2>. SUFFICES ASSUME NEW k \in M, M # {k}, AllRefresh(k, M)
                PROVE  \E m \in M \ {k} : Closely(k, m)
    BY DEF LocalIn
  <2>0. k \in Index /\ artifacts[k].evidence # {} /\ artifacts[k].evidence \subseteq E
        /\ IsRefresh(artifacts[k])
    BY DEF Members, AllRefresh
  <2>1. ASSUME NEW x \in {s, t}, k \in H(x), H(x) # {k}
        PROVE  \E m \in M \ {k} : Closely(k, m)
    <3>1. AllRefresh(k, H(x))
      BY <1>5 DEF AllRefresh
    <3>2. LocalIn(H(x))
      BY <1>1 DEF Locals
    <3>. QED  BY <1>5, <2>1, <3>1, <3>2 DEF LocalIn
  <2>2. ASSUME NEW x \in {s, t}, NEW y \in {s, t}, x # y, H(x) = {k}, k \notin H(y)
        PROVE  \E m \in M \ {k} : Closely(k, m)
    <3>1. x \in Live /\ y \in Live /\ {x, y} = {s, t}
      BY <1>1, <2>2
    <3>2. \A l \in Index : Holds(paths[x], l) => l = k
      BY <2>2 DEF Holds
    <3>3. paths[x].evidence \subseteq artifacts[k].evidence
      BY <3>1, <3>2 DEF Homes
    <3>4. Identity(Representative(paths[x]), artifacts[k])
      BY <3>1, <3>2, RepresentativeHeld, TypedShaped
    <3>. PICK b \in Index : Holds(paths[y], b) /\ Identity(Representative(paths[y]), artifacts[b])
      BY <3>1, RepresentativeHeld, TypedShaped
    <3>5. b \in M
      BY <1>5 DEF Holds
    <3>6. InContext(paths[s], paths[t])
      <4>1. artifacts[b].name = artifacts[k].name => IsRefresh(artifacts[b])
        BY <3>5 DEF AllRefresh
      <4>2. /\ k \in Index /\ IsRefresh(artifacts[k])
            /\ s \in Live /\ t \in Live /\ Linkable(s, t)
            /\ x = s \/ x = t
        BY <1>1, <2>0
      <4>. HIDE DEF E, M, H
      <4>. QED  BY <3>1, <3>4, <4>1, <4>2, RefreshNeedsContext
    <3>7. \E e \in paths[x].evidence, f \in paths[y].evidence : Near(e, f) \/ Near(f, e)
      BY <2>2, <3>6 DEF InContext
    <3>. PICK e \in paths[x].evidence, f \in paths[y].evidence : Near(e, f) \/ Near(f, e)
      BY <3>7
    <3>8. PICK m \in Index : Holds(paths[y], m) /\ f \in artifacts[m].evidence
      BY <3>1 DEF Homes
    <3>9. m \in H(y) /\ m \in M /\ m # k
      BY <1>5, <2>2, <3>8 DEF Holds
    <3>10. e \in Evidence /\ f \in Evidence
      BY <3>1 DEF Typed, TypeOK, Live, Path
    <3>11. Near(e, f)
      BY <3>10, NearSymmetric
    <3>. QED  BY <3>3, <3>8, <3>9, <3>11 DEF Closely, InContext
  <2>3. CASE k \in H(s) \/ k \in H(t)
    <3>1. CASE k \in H(s) /\ k \in H(t)
      <4>1. s \in H(s) /\ t \in H(t)
        BY <1>1 DEF Homes, Holds
      <4>2. H(s) # {k} \/ H(t) # {k}
        BY <1>1, <4>1
      <4>. QED  BY <2>1, <3>1, <4>2
    <3>2. CASE k \in H(s) /\ k \notin H(t)
      BY <1>1, <2>1, <2>2, <3>2
    <3>3. CASE k \in H(t) /\ k \notin H(s)
      BY <1>1, <2>1, <2>2, <3>3
    <3>. QED  BY <2>3, <3>1, <3>2, <3>3
  <2>4. CASE k \notin H(s) /\ k \notin H(t)
    <3>. PICK e \in artifacts[k].evidence : e \in E
      BY <2>0
    <3>1. PICK x \in {s, t} : e \in paths[x].evidence
      OBVIOUS
    <3>2. x \in Live
      BY <1>1, <3>1
    <3>3. PICK m \in Index : Holds(paths[x], m) /\ e \in artifacts[m].evidence
      BY <3>1, <3>2 DEF Homes
    <3>4. m \in H(x) /\ m \in M /\ m # k
      BY <1>5, <2>4, <3>1, <3>3 DEF Holds
    <3>. QED  BY <3>3, <3>4 DEF Closely
  <2>. QED  BY <2>3, <2>4
<1>7. ASSUME NEW k \in Live'
      PROVE  LocalIn(Members(paths[k].evidence))'
  <2>1. CASE k = t
    <3>1. Members(paths[k].evidence)' = M
      BY <1>1, <1>3, <2>1 DEF Members
    <3>. QED  BY <1>1, <1>6, <3>1 DEF LocalIn, AllRefresh, Closely
  <2>2. CASE k # t
    <3>1. Members(paths[k].evidence)' = H(k) /\ k \in Live
      BY <1>1, <1>2, <2>2 DEF Members
    <3>2. LocalIn(H(k))
      BY <3>1 DEF Locals
    <3>. HIDE DEF H
    <3>. QED  BY <1>1, <3>1, <3>2 DEF LocalIn, AllRefresh, Closely
  <2>. QED  BY <2>1, <2>2
<1>. QED  BY <1>7 DEF Locals

LEMMA InitLocals == Init => Locals
<1>. SUFFICES ASSUME Init PROVE Locals
  OBVIOUS
<1>0. artifacts \in Seq(Artifact)
  BY LinkAssumption DEF Init
<1>1. \A k \in Index : artifacts[k] \in Artifact
  BY <1>0, ElementOfSeq DEF Index
<1>2. \A k \in Index : paths[k].evidence = artifacts[k].evidence
  BY <1>1, PathForType DEF Init
<1>. SUFFICES ASSUME NEW k \in Live, NEW l \in Members(paths[k].evidence),
                     Members(paths[k].evidence) # {l}
              PROVE  \E m \in Members(paths[k].evidence) \ {l} : Closely(l, m)
  BY DEF Locals, LocalIn
<1>3. k \in Index /\ artifacts[k].evidence # {}
  BY DEF Init, Live
<1>4. k \in Members(paths[k].evidence)
  BY <1>2, <1>3 DEF Members
<1>5. l \in Index /\ artifacts[l].evidence # {} /\ artifacts[l].evidence \subseteq artifacts[k].evidence
  BY <1>2, <1>3 DEF Members
<1>6. CASE l # k
  BY <1>4, <1>5, <1>6 DEF Closely
<1>7. CASE l = k
  <2>. PICK m \in Members(paths[k].evidence) : m # k
    BY <1>7
  <2>1. artifacts[m].evidence # {} /\ artifacts[m].evidence \subseteq artifacts[k].evidence
    BY <1>2, <1>3 DEF Members
  <2>. QED  BY <1>7, <2>1 DEF Closely
<1>. QED  BY <1>6, <1>7

LEMMA KeptLocals ==
    ASSUME Locals, Kept
    PROVE  Locals'
<1>1. Index' = Index /\ Live' = Live /\ artifacts' = artifacts
  BY DEF Kept, Index, Live
<1>. SUFFICES ASSUME NEW k \in Live
              PROVE  LocalIn(Members(paths[k].evidence))'
  BY <1>1 DEF Locals
<1>2. Members(paths[k].evidence)' = Members(paths[k].evidence)
  BY <1>1 DEF Members, Kept, Live
<1>3. LocalIn(Members(paths[k].evidence))
  BY DEF Locals
<1>. QED  BY <1>1, <1>2, <1>3 DEF LocalIn, AllRefresh, Closely

-----------------------------------------------------------------------------
(* The report.                                                             *)

\* The reported paths are those that are left, each once.
Lists(order) ==
    /\ order \in [1..Len(linked) -> Live]
    /\ \A n \in 1..Len(linked) : linked[n] = paths[order[n]]
    /\ \A m, n \in 1..Len(linked) : order[m] = order[n] => m = n
    /\ \A k \in Live : \E n \in 1..Len(linked) : order[n] = k
Reported == \E order : Lists(order)

Listed == IF pass = "linked" THEN Reported ELSE linked = <<>>

LEMMA SortPathsReports ==
    ASSUME Typed, SortPaths
    PROVE  Reported'
<1>. DEFINE n == Cardinality(Live)
<1>1. IsFiniteSet(Live) /\ n \in Nat
  <2>1. IsFiniteSet(Index)
    BY FS_Interval DEF Typed, Index
  <2>2. IsFiniteSet(Live)
    BY <2>1, FS_Subset DEF Live
  <2>. QED  BY <2>2, FS_CardinalityType
<1>2. UNCHANGED <<artifacts, paths, gone>> /\ Live' = Live
  BY DEF SortPaths, Live, Index
<1>. HIDE DEF n
<1>3. PICK order \in [1..n -> Live] :
        /\ {order[x] : x \in DOMAIN order} = Live
        /\ linked' = [x \in DOMAIN order |-> paths[order[x]]]
  BY DEF SortPaths, n
<1>4. Len(linked') = n /\ linked' = [x \in 1..n |-> paths[order[x]]]
  BY <1>1, <1>3
<1>5. order \in Surjection(1..n, Live)
  BY <1>3 DEF Surjection
<1>6. IsFiniteSet(1..n) /\ Cardinality(1..n) = n
  BY <1>1, FS_Interval
<1>7. order \in Injection(1..n, Live)
  BY <1>1, <1>5, <1>6, FS_SurjSameCardinalityImpliesInj DEF n
<1>8. \A x, y \in 1..n : order[x] = order[y] => x = y
  BY <1>7 DEF Injection, IsInjective
<1>9. \A k \in Live : \E x \in 1..n : order[x] = k
  BY <1>3
<1>10. Lists(order)'
  BY <1>2, <1>3, <1>4, <1>8, <1>9 DEF Lists
<1>. QED  BY <1>10 DEF Reported

LEMMA NextListed ==
    ASSUME Inv, Listed, [Next]_vars
    PROVE  Listed'
<1>1. CASE SortPaths
  BY <1>1, SortPathsReports DEF Inv, SortPaths, Listed
<1>2. CASE ~SortPaths /\ Step
  <2>1. linked' = linked /\ pass # "linked" /\ pass' # "linked"
    BY <1>2 DEF Step, LinkRevoke, LinkQuery, Link, EndPass, SkipTarget, OpenTarget,
                LinkRefresh, CloseTarget
  <2>. QED  BY <2>1 DEF Listed
<1>3. CASE UNCHANGED vars
  BY <1>3 DEF vars, Listed, Reported, Lists, Live, Index
<1>. QED  BY <1>1, <1>2, <1>3 DEF Next

-----------------------------------------------------------------------------
(* The artifact that represents a path, before and after its ids are sorted. *)

Strong(S) == {x \in S : ~OnlyRevoke(Lookup(x))}
LeastStrong(S) == Min(IF Strong(S) = {} THEN S ELSE Strong(S))

\* What represents the path now and what will once its metadata is refreshed.
Chosen(p) == {Representative(p), Lookup(LeastStrong(IdsOf(p)))}
InOrder(p) == p.artifacts = Ascending(IdsOf(p))

LEMMA AscendingIncreases ==
    ASSUME NEW S \in SUBSET Nat, IsFiniteSet(S)
    PROVE  \A k, l \in 1..Cardinality(S) : k < l => Ascending(S)[k] < Ascending(S)[l]
<1>. DEFINE rank(x) == Cardinality({y \in S : y <= x})
            n == Cardinality(S)
            f == [x \in S |-> rank(x)]
<1>0. n \in Nat
  BY FS_CardinalityType
<1>1. f \in Injection(S, 1..n)
  BY RankInjection
<1>2. IsFiniteSet(1..n) /\ Cardinality(1..n) = n
  BY <1>0, FS_Interval
<1>3. f \in Surjection(S, 1..n)
  <2>. HIDE DEF f
  <2>. QED  BY <1>1, <1>2, FS_Injection
<1>4. \A k \in 1..n : \E x \in S : rank(x) = k
  BY <1>3 DEF Surjection
<1>5. \A k \in 1..n : Ascending(S)[k] \in S /\ rank(Ascending(S)[k]) = k
  <2>. SUFFICES ASSUME NEW k \in 1..n PROVE Ascending(S)[k] \in S /\ rank(Ascending(S)[k]) = k
    OBVIOUS
  <2>1. Nth(S, k) \in S /\ rank(Nth(S, k)) = k
    BY <1>4 DEF Nth
  <2>2. Ascending(S)[k] = Nth(S, k)
    BY DEF Ascending
  <2>. QED  BY <2>1, <2>2
<1>6. \A x \in S : rank(x) \in Nat
  <2>. SUFFICES ASSUME NEW x \in S PROVE rank(x) \in Nat
    OBVIOUS
  <2>1. IsFiniteSet({y \in S : y <= x})
    BY FS_Subset
  <2>. QED  BY <2>1, FS_CardinalityType
<1>7. \A x, y \in S : x <= y => rank(x) <= rank(y)
  <2>. SUFFICES ASSUME NEW x \in S, NEW y \in S, x <= y PROVE rank(x) <= rank(y)
    OBVIOUS
  <2>1. {z \in S : z <= x} \in SUBSET {z \in S : z <= y}
    <3>1. \A z \in S : z <= x => z <= y
      OBVIOUS
    <3>. QED  BY <3>1
  <2>2. IsFiniteSet({z \in S : z <= y})
    BY FS_Subset
  <2>. QED  BY <2>1, <2>2, FS_Subset
<1>. HIDE DEF rank, f, n
<1>8. ASSUME NEW k \in 1..n, NEW l \in 1..n, k < l
      PROVE  Ascending(S)[k] < Ascending(S)[l]
  <2>. DEFINE x == Ascending(S)[k]  y == Ascending(S)[l]
  <2>1. x \in S /\ y \in S /\ rank(x) = k /\ rank(y) = l
    BY <1>5
  <2>. HIDE DEF x, y
  <2>2. x \in Nat /\ y \in Nat /\ k \in Nat /\ l \in Nat
    BY <1>0, <2>1 DEF n
  <2>3. ~(y <= x)
    BY <1>7, <1>8, <2>1, <2>2
  <2>4. x < y
    BY <2>2, <2>3
  <2>. QED  BY <2>4 DEF x, y
<1>. QED  BY <1>8 DEF n

LEMMA StrongIds ==
    ASSUME NEW p \in Path, p.artifacts # <<>>
    PROVE  /\ IdsOf(p) \in SUBSET Nat /\ IdsOf(p) # {} /\ IsFiniteSet(IdsOf(p))
           /\ LeastStrong(IdsOf(p)) \in IdsOf(p)
<1>1. IdsOf(p) \in SUBSET Nat /\ IsFiniteSet(IdsOf(p))
  BY IdsOfType
<1>2. Len(p.artifacts) \in Nat /\ Len(p.artifacts) # 0
  BY LenProperties, EmptySeq DEF Path
<1>3. p.artifacts[1] \in IdsOf(p)
  BY <1>2 DEF IdsOf
<1>. DEFINE T == IF Strong(IdsOf(p)) = {} THEN IdsOf(p) ELSE Strong(IdsOf(p))
<1>4. T \in SUBSET Nat /\ T # {} /\ T \subseteq IdsOf(p)
  BY <1>1, <1>3 DEF Strong
<1>5. Min(T) \in T
  BY <1>4, MinIsIn
<1>. QED  BY <1>1, <1>3, <1>4, <1>5 DEF LeastStrong

LEMMA SortedRepresentative ==
    ASSUME NEW p \in Path, p.artifacts # <<>>, InOrder(p)
    PROVE  Representative(p) = Lookup(LeastStrong(IdsOf(p)))
<1>. DEFINE S == IdsOf(p)
            n == Len(p.artifacts)
            a == p.artifacts
            strong == {k \in 1..n : ~OnlyRevoke(Lookup(a[k]))}
            k0 == IF strong = {} THEN 1 ELSE Min(strong)
            T == IF Strong(S) = {} THEN S ELSE Strong(S)
<1>1. S \in SUBSET Nat /\ S # {} /\ IsFiniteSet(S)
  BY StrongIds
<1>2. n \in Nat /\ n # 0 /\ n = Cardinality(S)
  BY <1>1, AscendingKeepsIds, LenProperties, EmptySeq DEF Path, InOrder
<1>3. \A k, l \in 1..n : k < l => a[k] < a[l]
  BY <1>1, <1>2, AscendingIncreases DEF InOrder
<1>4. S = {a[k] : k \in 1..n}
  BY DEF IdsOf
<1>5. Strong(S) = {a[k] : k \in strong}
  BY <1>4 DEF Strong
<1>6. Representative(p) = Lookup(a[k0])
  BY DEF Representative
<1>. HIDE DEF S, n, a
<1>7. k0 \in 1..n /\ a[k0] \in T /\ \A x \in T : a[k0] <= x
  <2>0. \A k \in 1..n : a[k] \in Nat
    BY <1>1, <1>4
  <2>1. CASE strong = {}
    <3>1. k0 = 1 /\ 1 \in 1..n /\ T = S
      BY <1>2, <1>5, <2>1
    <3>2. ASSUME NEW k \in 1..n PROVE a[1] <= a[k]
      <4>1. k = 1 \/ 1 < k
        BY <1>2
      <4>. QED  BY <1>2, <1>3, <2>0, <4>1
    <3>3. \A x \in S : a[1] <= x
      BY <1>4, <3>2
    <3>4. a[1] \in S
      BY <1>4, <3>1
    <3>. HIDE DEF k0, T, strong
    <3>. QED  BY <3>1, <3>3, <3>4
  <2>2. CASE strong # {}
    <3>. HIDE DEF strong
    <3>1. strong \in SUBSET Nat
      BY <1>2 DEF strong
    <3>2. k0 \in strong /\ \A l \in strong : k0 <= l
      BY <2>2, <3>1, MinIsIn
    <3>3. T = Strong(S)
      BY <1>5, <2>2
    <3>4. strong \subseteq 1..n
      BY DEF strong
    <3>. HIDE DEF k0, T
    <3>5. ASSUME NEW k \in strong PROVE a[k0] <= a[k]
      <4>1. k0 \in 1..n /\ k \in 1..n /\ k0 <= k
        BY <3>2, <3>4
      <4>2. k0 = k \/ k0 < k
        BY <1>2, <4>1
      <4>. QED  BY <1>2, <1>3, <2>0, <4>1, <4>2
    <3>. QED  BY <1>5, <3>2, <3>3, <3>4, <3>5
  <2>. QED  BY <2>1, <2>2
<1>. HIDE DEF k0, T
<1>8. T \in SUBSET Nat /\ T # {}
  BY <1>1 DEF T, Strong
<1>9. Min(T) \in T /\ \A x \in T : Min(T) <= x
  BY <1>8, MinIsIn
<1>10. Min(T) = a[k0]
  <2>1. Min(T) <= a[k0] /\ a[k0] <= Min(T) /\ Min(T) \in Nat /\ a[k0] \in Nat
    BY <1>7, <1>8, <1>9
  <2>. QED  BY <2>1
<1>. QED  BY <1>6, <1>10 DEF LeastStrong, T, S

LEMMA LeastStrongOfUnion ==
    ASSUME NEW S \in SUBSET Nat, NEW T \in SUBSET Nat, S # {}, T # {}
    PROVE  LeastStrong(S \cup T) \in {LeastStrong(S), LeastStrong(T)}
<1>1. Strong(S \cup T) = Strong(S) \cup Strong(T) /\ Strong(S) \in SUBSET Nat /\ Strong(T) \in SUBSET Nat
  BY DEF Strong
<1>2. ASSUME NEW A \in SUBSET Nat, NEW B \in SUBSET Nat, A # {}, B # {}
      PROVE  Min(A \cup B) \in {Min(A), Min(B)}
  <2>. DEFINE m == Min(A \cup B)
  <2>1. A \cup B \in SUBSET Nat /\ A \cup B # {}
    BY <1>2
  <2>2. m \in A \cup B /\ \A y \in A \cup B : m <= y
    BY <2>1, MinIsIn
  <2>3. Min(A) \in A /\ \A y \in A : Min(A) <= y
    BY <1>2, MinIsIn
  <2>4. Min(B) \in B /\ \A y \in B : Min(B) <= y
    BY <1>2, MinIsIn
  <2>. HIDE DEF m
  <2>5. m \in Nat /\ Min(A) \in Nat /\ Min(B) \in Nat
    BY <2>1, <2>2, <2>3, <2>4
  <2>6. CASE m \in A
    <3>1. m <= Min(A) /\ Min(A) <= m
      BY <2>2, <2>3, <2>6
    <3>2. m = Min(A)
      BY <2>5, <3>1
    <3>. QED  BY <3>2 DEF m
  <2>7. CASE m \in B
    <3>1. m <= Min(B) /\ Min(B) <= m
      BY <2>2, <2>4, <2>7
    <3>2. m = Min(B)
      BY <2>5, <3>1
    <3>. QED  BY <3>2 DEF m
  <2>. QED  BY <2>2, <2>6, <2>7
<1>3. CASE Strong(S) = {} /\ Strong(T) = {}
  BY <1>1, <1>2, <1>3 DEF LeastStrong
<1>4. CASE Strong(S) # {} /\ Strong(T) = {}
  BY <1>1, <1>4 DEF LeastStrong
<1>5. CASE Strong(S) = {} /\ Strong(T) # {}
  BY <1>1, <1>5 DEF LeastStrong
<1>6. CASE Strong(S) # {} /\ Strong(T) # {}
  <2>1. Strong(S \cup T) # {}
    BY <1>1, <1>6
  <2>. QED  BY <1>1, <1>2, <1>6, <2>1 DEF LeastStrong
<1>. QED  BY <1>3, <1>4, <1>5, <1>6

LEMMA MergedRepresentative ==
    ASSUME NEW s \in Path, NEW t \in Path, s.artifacts # <<>>, t.artifacts # <<>>
    PROVE  Representative(Merged(s, t)) \in {Representative(s), Representative(t)}
<1>. DEFINE a == s.artifacts  b == t.artifacts  c == b \o a
            A == {k \in 1..Len(a) : ~OnlyRevoke(Lookup(a[k]))}
            B == {k \in 1..Len(b) : ~OnlyRevoke(Lookup(b[k]))}
            C == {k \in 1..Len(c) : ~OnlyRevoke(Lookup(c[k]))}
<1>0. Merged(s, t).artifacts = c
  BY DEF Merged, Path
<1>1. a \in Seq(Nat) /\ b \in Seq(Nat) /\ a # <<>> /\ b # <<>>
  BY DEF Path
<1>2. Len(a) \in Nat /\ Len(b) \in Nat /\ Len(a) # 0 /\ Len(b) # 0
  BY <1>1, LenProperties, EmptySeq
<1>3. /\ Len(c) = Len(b) + Len(a)
      /\ \A k \in 1..Len(b) + Len(a) : c[k] = IF k <= Len(b) THEN b[k] ELSE a[k - Len(b)]
  BY <1>1, ConcatProperties
<1>4. /\ Representative(Merged(s, t)) = Lookup(c[IF C = {} THEN 1 ELSE Min(C)])
      /\ Representative(s) = Lookup(a[IF A = {} THEN 1 ELSE Min(A)])
      /\ Representative(t) = Lookup(b[IF B = {} THEN 1 ELSE Min(B)])
  BY <1>0 DEF Representative
<1>. HIDE DEF a, b, c
<1>5. \A k \in 1..Len(b) : k \in 1..Len(c) /\ c[k] = b[k]
  BY <1>2, <1>3
<1>6. \A k \in 1..Len(a) : k + Len(b) \in 1..Len(c) /\ c[k + Len(b)] = a[k]
  <2>. TAKE k \in 1..Len(a)
  <2>1. k + Len(b) \in 1..Len(b) + Len(a) /\ ~(k + Len(b) <= Len(b)) /\ k + Len(b) - Len(b) = k
    BY <1>2
  <2>. QED  BY <1>3, <2>1
<1>7. \A k \in 1..Len(c) : k \notin 1..Len(b) => k - Len(b) \in 1..Len(a)
  BY <1>2, <1>3
<1>8. \A k \in 1..Len(b) : k \in C <=> k \in B
  BY <1>5
<1>9. \A k \in 1..Len(a) : k + Len(b) \in C <=> k \in A
  BY <1>6
<1>10. A \in SUBSET (1..Len(a)) /\ B \in SUBSET (1..Len(b)) /\ C \in SUBSET (1..Len(c))
  OBVIOUS
<1>. HIDE DEF A, B, C
<1>11. A \in SUBSET Nat /\ B \in SUBSET Nat /\ C \in SUBSET Nat
  BY <1>2, <1>3, <1>10
<1>12. CASE B # {}
  <2>1. Min(B) \in B /\ \A k \in B : Min(B) <= k
    BY <1>11, <1>12, MinIsIn
  <2>2. Min(B) \in C /\ C # {}
    BY <1>8, <1>10, <2>1
  <2>3. Min(C) \in C /\ \A k \in C : Min(C) <= k
    BY <1>11, <2>2, MinIsIn
  <2>4. Min(C) \in 1..Len(b)
    <3>1. Min(C) <= Min(B) /\ Min(B) \in 1..Len(b) /\ Min(C) \in 1..Len(c)
      BY <1>10, <2>1, <2>2, <2>3
    <3>. QED  BY <1>2, <1>3, <3>1
  <2>5. Min(C) \in B /\ Min(C) = Min(B)
    <3>1. Min(C) \in B
      BY <1>8, <2>3, <2>4
    <3>2. Min(C) <= Min(B) /\ Min(B) <= Min(C) /\ Min(C) \in Nat /\ Min(B) \in Nat
      BY <1>11, <2>1, <2>2, <2>3, <3>1
    <3>. QED  BY <3>1, <3>2
  <2>. QED  BY <1>4, <1>5, <1>12, <2>2, <2>4, <2>5
<1>13. CASE B = {} /\ A # {}
  <2>1. Min(A) \in A /\ \A k \in A : Min(A) <= k
    BY <1>11, <1>13, MinIsIn
  <2>2. Min(A) + Len(b) \in C /\ C # {}
    BY <1>9, <1>10, <2>1
  <2>3. Min(C) \in C /\ \A k \in C : Min(C) <= k
    BY <1>11, <2>2, MinIsIn
  <2>4. Min(C) \notin 1..Len(b)
    BY <1>8, <1>13, <2>3
  <2>. DEFINE m == Min(C) - Len(b)
  <2>5. m \in 1..Len(a) /\ m + Len(b) = Min(C)
    <3>1. Min(C) \in 1..Len(c) /\ Min(C) \in Nat
      BY <1>10, <1>11, <2>3
    <3>2. m \in 1..Len(a)
      BY <1>7, <2>4, <3>1
    <3>. QED  BY <1>2, <3>1, <3>2
  <2>6. m \in A
    BY <1>9, <2>3, <2>5
  <2>7. m = Min(A)
    <3>1. Min(C) <= Min(A) + Len(b) /\ Min(A) <= m
      BY <2>1, <2>2, <2>3, <2>6
    <3>2. Min(C) \in Nat /\ Min(A) \in Nat
      BY <1>11, <2>1, <2>3
    <3>. QED  BY <1>2, <3>1, <3>2
  <2>8. c[Min(C)] = a[Min(A)]
    BY <1>6, <2>5, <2>7
  <2>. QED  BY <1>4, <1>13, <2>2, <2>8
<1>14. CASE B = {} /\ A = {}
  <2>1. C = {}
    <3>. SUFFICES ASSUME NEW k \in C PROVE FALSE
      OBVIOUS
    <3>1. k \in 1..Len(c) /\ k \in Nat
      BY <1>10, <1>11
    <3>2. k \notin 1..Len(b)
      BY <1>8, <1>14
    <3>. DEFINE m == k - Len(b)
    <3>3. m \in 1..Len(a) /\ m + Len(b) = k
      BY <1>2, <1>7, <3>1, <3>2
    <3>. QED  BY <1>9, <1>14, <3>3
  <2>2. c[1] = b[1]
    BY <1>2, <1>5
  <2>. QED  BY <1>4, <1>14, <2>1, <2>2
<1>. QED  BY <1>12, <1>13, <1>14

Sorted == \A k \in Live : (j # 0 /\ k = i) \/ InOrder(paths[k])

LEMMA RefreshedInOrder ==
    ASSUME NEW p \in Path, p.artifacts # <<>>
    PROVE  InOrder(Refreshed(p))
<1>1. IdsOf(Refreshed(p)) = IdsOf(p)
  BY RefreshedPath
<1>2. Refreshed(p).artifacts = Ascending(IdsOf(p))
  BY DEF Refreshed, Path
<1>. QED  BY <1>1, <1>2 DEF InOrder

LEMMA AbsorbInOrder ==
    ASSUME Typed, NEW s \in Index, NEW t \in Index, Absorb(s, t)
    PROVE  InOrder(paths'[t])
<1>1. paths \in [Index -> Path] /\ paths[s] \in Path /\ paths[t] \in Path
      /\ paths[t].artifacts # <<>>
  BY DEF Typed, TypeOK
<1>. DEFINE m == Merged(paths[s], paths[t])
<1>2. m \in Path /\ m.artifacts # <<>>
  BY <1>1, MergedPath
<1>3. paths' = [paths EXCEPT ![t] = Refreshed(m)]
  BY DEF Absorb
<1>. HIDE DEF m
<1>4. paths'[t] = Refreshed(m)
  BY <1>1, <1>3
<1>. QED  BY <1>2, <1>4, RefreshedInOrder

LEMMA InitSorted == Init => Sorted
<1>. SUFFICES ASSUME Init, NEW k \in Live PROVE InOrder(paths[k])
  BY DEF Sorted
<1>1. artifacts \in Seq(Artifact) /\ k \in Index
  BY LinkAssumption DEF Init, Live
<1>2. artifacts[k] \in Artifact
  BY <1>1, ElementOfSeq DEF Index
<1>. DEFINE id == artifacts[k].id
            a == Ascending({id})
<1>3. id \in Nat /\ {id} \in SUBSET Nat /\ IsFiniteSet({id}) /\ Cardinality({id}) = 1
  BY <1>2, FS_Singleton DEF Artifact
<1>4. IdsOf(paths[k]) = {id} /\ paths[k].artifacts = <<id>>
  BY <1>1, <1>2, PathForType DEF Init, PathFor
<1>5. a \in Seq(Nat) /\ Len(a) = 1 /\ {a[x] : x \in 1..Len(a)} = {id}
  BY <1>3, AscendingKeepsIds
<1>. HIDE DEF a, id
<1>6. a[1] = id
  BY <1>5
<1>7. a = <<id>>
  BY <1>3, <1>5, <1>6, SeqEqual
<1>. QED  BY <1>4, <1>7 DEF InOrder, a

LEMMA KeepingSorted ==
    ASSUME Inv, Sorted, Keeping
    PROVE  Sorted'
<1>1. Live' = Live /\ Index' = Index
  BY DEF Keeping, Kept, Live, Index
<1>2. CASE UNCHANGED paths /\ (j = 0 \/ (j' # 0 /\ i' = i))
  <2>1. \A k \in Live : (j' # 0 /\ k = i') \/ InOrder(paths'[k])
    BY <1>2 DEF Sorted
  <2>. QED  BY <1>1, <2>1 DEF Sorted, InOrder, Ascending, IdsOf, Nth
<1>3. CASE CloseTarget
  <2>1. i \in Index /\ paths \in [Index -> Path] /\ paths[i] \in Path /\ paths[i].artifacts # <<>>
    BY <1>3 DEF Inv, Typed, TypeOK, Cursor, CloseTarget, Live
  <2>2. paths' = [paths EXCEPT ![i] = Refreshed(paths[i])] /\ j' = 0
    BY <1>3 DEF CloseTarget
  <2>3. InOrder(Refreshed(paths[i]))
    BY <2>1, RefreshedInOrder
  <2>4. \A k \in Index : paths'[k] = IF k = i THEN Refreshed(paths[i]) ELSE paths[k]
    BY <2>1, <2>2
  <2>5. \A k \in Live : InOrder(paths'[k])
    BY <2>3, <2>4 DEF Sorted, Live
  <2>. QED  BY <1>1, <2>5 DEF Sorted, InOrder, Ascending, IdsOf, Nth
<1>. QED  BY <1>2, <1>3 DEF Keeping, Quiet

LEMMA MergeSorted ==
    ASSUME Inv, Sorted, NEW s \in Index, NEW t \in Index, Merging(s, t)
    PROVE  Sorted'
<1>1. Live' = Live \ {s} /\ Index' = Index /\ \A k \in Index \ {t} : paths'[k] = paths[k]
  BY DEF Merging, Absorbed, Live, Index
<1>2. ASSUME NEW k \in Live'
      PROVE  (j' # 0 /\ k = i') \/ InOrder(paths'[k])
  <2>1. CASE LinkMerge(s, t)
    <3>1. CASE k = t
      BY <2>1, <3>1, AbsorbInOrder DEF Inv, LinkMerge
    <3>2. CASE k # t
      BY <1>1, <2>1, <3>2 DEF LinkMerge, Sorted, Live
    <3>. QED  BY <3>1, <3>2
  <2>2. CASE RefreshMerge(s, t)
    <3>1. i' = i /\ j' # 0 /\ t = i /\ j # 0
      BY <2>2 DEF RefreshMerge, Index, Inv, Typed
    <3>2. CASE k = t
      BY <3>1, <3>2
    <3>3. CASE k # t
      BY <1>1, <3>1, <3>3 DEF Sorted, Live
    <3>. QED  BY <3>2, <3>3
  <2>. QED  BY <2>1, <2>2 DEF Merging
<1>. QED  BY <1>2 DEF Sorted, InOrder, Ascending, IdsOf, Nth

-----------------------------------------------------------------------------
(* What the artifacts that may represent a path become.                    *)

LEMMA SameArtifacts ==
    ASSUME artifacts' = artifacts, NEW k
    PROVE  /\ Representative(paths[k])' = Representative(paths'[k])
           /\ Chosen(paths[k])' = Chosen(paths'[k])
           /\ \A x : Lookup(x)' = Lookup(x)
<1>1. \A x : Lookup(x)' = Lookup(x)
  BY DEF Lookup, Index
<1>2. Representative(paths[k])' = Representative(paths'[k])
  BY DEF Representative, Lookup, Index, OnlyRevoke
<1>3. Lookup(LeastStrong(IdsOf(paths[k])))' = Lookup(LeastStrong(IdsOf(paths'[k])))
  BY DEF Lookup, Index, Strong, OnlyRevoke, LeastStrong, IdsOf
<1>. QED  BY <1>1, <1>2, <1>3 DEF Chosen

\* It is an artifact of the path.
LEMMA ChosenHeld ==
    ASSUME Shaped, Homes, NEW k \in Live, NEW c \in Chosen(paths[k])
    PROVE  \E m \in Index : c = artifacts[m] /\ artifacts[m].id \in IdsOf(paths[k])
<1>1. paths[k] \in Path /\ paths[k].artifacts # <<>>
  BY DEF Shaped, Live
<1>2. PICK id \in IdsOf(paths[k]) : c = Lookup(id)
  BY <1>1, RepresentativeId, StrongIds DEF Chosen
<1>. QED  BY <1>2, LookupHeld

LEMMA KeepingChosen ==
    ASSUME Inv, Keeping, NEW k \in Live
    PROVE  Chosen(paths[k])' \subseteq Chosen(paths[k])
<1>1. artifacts' = artifacts /\ k \in Index /\ IdsOf(paths'[k]) = IdsOf(paths[k])
  BY DEF Keeping, Kept, Live
<1>2. Chosen(paths[k])' = Chosen(paths'[k])
  BY <1>1, SameArtifacts
<1>3. CASE paths'[k] = paths[k]
  BY <1>2, <1>3
<1>4. CASE CloseTarget /\ paths'[k] # paths[k]
  <2>1. i \in Index /\ paths \in [Index -> Path] /\ paths[i] \in Path /\ paths[i].artifacts # <<>>
    BY <1>4 DEF Inv, Typed, TypeOK, Cursor, CloseTarget, Live
  <2>2. paths' = [paths EXCEPT ![i] = Refreshed(paths[i])]
    BY <1>4 DEF CloseTarget
  <2>3. k = i /\ paths'[k] = Refreshed(paths[k])
    BY <1>1, <1>4, <2>1, <2>2
  <2>4. InOrder(paths'[k]) /\ paths'[k] \in Path /\ paths'[k].artifacts # <<>>
    BY <2>1, <2>3, RefreshedInOrder, RefreshedPath
  <2>5. Representative(paths'[k]) = Lookup(LeastStrong(IdsOf(paths'[k])))
    BY <2>4, SortedRepresentative
  <2>. QED  BY <1>1, <1>2, <2>5 DEF Chosen
<1>. QED  BY <1>3, <1>4 DEF Keeping, Quiet

LEMMA MergeChosen ==
    ASSUME Inv, Sorted, NEW s \in Index, NEW t \in Index, Merging(s, t)
    PROVE  /\ Chosen(paths[t])' \subseteq Chosen(paths[s]) \cup Chosen(paths[t])
           /\ \A k \in Live \ {s, t} : Chosen(paths[k])' = Chosen(paths[k])
<1>1. /\ Live' = Live \ {s} /\ artifacts' = artifacts /\ s \in Live /\ t \in Live
      /\ \A k \in Index \ {t} : paths'[k] = paths[k]
      /\ paths'[t] \in Path /\ paths'[t].artifacts # <<>>
      /\ IdsOf(paths'[t]) = IdsOf(paths[s]) \cup IdsOf(paths[t])
  BY DEF Merging, Absorbed, Live, Index
<1>2. /\ paths[s] \in Path /\ paths[s].artifacts # <<>>
      /\ paths[t] \in Path /\ paths[t].artifacts # <<>>
      /\ paths \in [Index -> Path]
  BY DEF Inv, Typed, TypeOK
<1>3. Lookup(LeastStrong(IdsOf(paths'[t]))) \in Chosen(paths[s]) \cup Chosen(paths[t])
  <2>1. /\ IdsOf(paths[s]) \in SUBSET Nat /\ IdsOf(paths[s]) # {}
        /\ IdsOf(paths[t]) \in SUBSET Nat /\ IdsOf(paths[t]) # {}
    BY <1>2, StrongIds
  <2>. QED  BY <1>1, <2>1, LeastStrongOfUnion DEF Chosen
<1>4. Representative(paths'[t]) \in Chosen(paths[s]) \cup Chosen(paths[t])
  <2>1. CASE LinkMerge(s, t)
    <3>1. InOrder(paths'[t])
      BY <2>1, AbsorbInOrder DEF Inv, LinkMerge
    <3>. QED  BY <1>1, <1>3, <3>1, SortedRepresentative
  <2>2. CASE RefreshMerge(s, t)
    <3>1. paths'[t] = Merged(paths[s], paths[t])
      BY <1>2, <2>2 DEF RefreshMerge
    <3>. QED  BY <1>2, <3>1, MergedRepresentative DEF Chosen
  <2>. QED  BY <2>1, <2>2 DEF Merging
<1>5. Chosen(paths[t])' = Chosen(paths'[t])
  BY <1>1, SameArtifacts
<1>6. \A k \in Live \ {s, t} : Chosen(paths[k])' = Chosen(paths[k])
  <2>. SUFFICES ASSUME NEW k \in Live \ {s, t} PROVE Chosen(paths[k])' = Chosen(paths[k])
    OBVIOUS
  <2>1. paths'[k] = paths[k]
    BY <1>1 DEF Live
  <2>2. Chosen(paths[k])' = Chosen(paths'[k])
    BY <1>1, SameArtifacts
  <2>. QED  BY <2>1, <2>2
<1>. QED  BY <1>3, <1>4, <1>5, <1>6 DEF Chosen

-----------------------------------------------------------------------------
(* The names of a path.                                                    *)

SameName(a, b) == a.name = b.name \/ BothAliases(a, b)
Homonymous(ids) ==
    \A a, b \in Index : artifacts[a].id \in ids /\ artifacts[b].id \in ids
                            => SameName(artifacts[a], artifacts[b])

\* Revocations and query parameters are merged by name.
Homonyms == pass \in {"revoke", "query"} => \A k \in Live : Homonymous(IdsOf(paths[k]))

LEMMA InitHomonyms == Init => Homonyms
<1>. SUFFICES ASSUME Init, NEW k \in Live PROVE Homonymous(IdsOf(paths[k]))
  BY DEF Homonyms
<1>1. artifacts \in Inputs /\ artifacts \in Seq(Artifact) /\ k \in Index
  BY LinkAssumption DEF Init, Live
<1>2. artifacts[k] \in Artifact
  BY <1>1, ElementOfSeq DEF Index
<1>3. IdsOf(paths[k]) = {artifacts[k].id}
  BY <1>1, <1>2, PathForType DEF Init
<1>. QED  BY <1>1, <1>3, OneIdentity DEF Homonymous, SameName

LEMMA KeepingHomonyms ==
    ASSUME Homonyms, Keeping, pass' \in {"revoke", "query"} => pass \in {"revoke", "query"}
    PROVE  Homonyms'
<1>1. Live' = Live /\ Index' = Index /\ artifacts' = artifacts
      /\ \A k \in Live : IdsOf(paths[k])' = IdsOf(paths[k])
  BY DEF Keeping, Kept, Live, Index, IdsOf
<1>. QED  BY <1>1 DEF Homonyms, Homonymous

LEMMA MergeHomonyms ==
    ASSUME Inv, Homes, Homonyms, NEW s \in Index, NEW t \in Index, Merging(s, t)
    PROVE  Homonyms'
<1>1. /\ Live' = Live \ {s} /\ Index' = Index /\ artifacts' = artifacts /\ pass' = pass
      /\ s \in Live /\ t \in Live
      /\ \A k \in Index \ {t} : paths'[k] = paths[k]
      /\ IdsOf(paths'[t]) = IdsOf(paths[s]) \cup IdsOf(paths[t])
  BY DEF Merging, Absorbed, Live, Index
<1>. SUFFICES ASSUME pass \in {"revoke", "query"}, NEW k \in Live'
              PROVE  Homonymous(IdsOf(paths'[k]))
  BY <1>1 DEF Homonyms, Homonymous, IdsOf
<1>2. CASE k # t
  BY <1>1, <1>2 DEF Homonyms, Live
<1>3. CASE k = t
  <2>. PICK l \in Index : Holds(paths[s], l) /\ Identity(Representative(paths[s]), artifacts[l])
    BY <1>1, RepresentativeHeld, TypedShaped DEF Inv
  <2>. PICK m \in Index : Holds(paths[t], m) /\ Identity(Representative(paths[t]), artifacts[m])
    BY <1>1, RepresentativeHeld, TypedShaped DEF Inv
  <2>1. SameName(artifacts[l], artifacts[m])
    <3>1. SameName(Representative(paths[s]), Representative(paths[t]))
      BY DEF Merging, Linkable, RevokeLinkable, CompatibleRevoke, QueryLinkable,
             CompatibleQuery, SameName
    <3>. QED  BY <3>1 DEF Identity, SameName, BothAliases
  <2>2. Homonymous(IdsOf(paths[s])) /\ Homonymous(IdsOf(paths[t]))
    BY <1>1 DEF Homonyms
  <2>3. artifacts[l].id \in IdsOf(paths[s]) /\ artifacts[m].id \in IdsOf(paths[t])
    BY DEF Holds
  <2>. SUFFICES ASSUME NEW a \in Index, artifacts[a].id \in IdsOf(paths[s]) \cup IdsOf(paths[t])
                PROVE  SameName(artifacts[a], artifacts[m])
    BY <1>1, <1>3 DEF Homonymous, SameName, BothAliases
  <2>. QED  BY <2>1, <2>2, <2>3 DEF Homonymous, SameName, BothAliases
<1>. QED  BY <1>2, <1>3

-----------------------------------------------------------------------------
(* Revocations that are left.                                              *)

MembersOf(k) == Members(paths[k].evidence)
InNeed(a, b) == (IsRefresh(a) /\ IsRefresh(b)) \/ BothAliases(a, b)
NeedContext(K) == \A k, l \in K : InNeed(artifacts[k], artifacts[l])

\* A revocation the revoke pass has been at could only be merged into a path like
\* it if it was near.
Unstray ==
    \A m, n \in Live :
        (/\ m # n /\ RevokeOnlyPath(paths[m])
         /\ pass = "revoke" => m < i
         /\ Alike(MembersOf(m) \cup MembersOf(n)))
        => NeedContext(MembersOf(m) \cup MembersOf(n)) /\ ~InContext(paths[m], paths[n])

LEMMA NeedSpreads ==
    ASSUME NEW K \in SUBSET Index, Alike(K), NEW k \in K, NEW l \in K, InNeed(artifacts[k], artifacts[l])
    PROVE  NeedContext(K)
<1>1. \A x \in K : artifacts[x].type = artifacts[k].type
                   /\ (artifacts[x].name = artifacts[k].name
                       \/ BothAliases(artifacts[x], artifacts[k]))
  BY DEF Alike, CompatibleRevoke
<1>2. CASE IsRefresh(artifacts[k])
  <2>1. CASE artifacts[k].type = "RefreshJwt"
    BY <1>1, <2>1 DEF NeedContext, InNeed, IsRefresh
  <2>2. CASE artifacts[k].name \in RefreshName
    <3>1. artifacts[k].name \notin SessionAlias
      BY <2>2 DEF RefreshName, SessionAlias
    <3>. QED  BY <1>1, <2>2, <3>1 DEF NeedContext, InNeed, IsRefresh, BothAliases
  <2>. QED  BY <1>2, <2>1, <2>2 DEF IsRefresh
<1>3. CASE BothAliases(artifacts[k], artifacts[l])
  BY <1>1, <1>3 DEF NeedContext, InNeed, BothAliases
<1>. QED  BY <1>2, <1>3 DEF InNeed

\* Paths of artifacts that are alike are linked unless they need to be near and are not.
LEMMA AlikeLinkable ==
    ASSUME Shaped, Homes, NEW s \in Live, NEW t \in Live, Alike(MembersOf(s) \cup MembersOf(t))
    PROVE  RevokeLinkable(paths[s], paths[t]) <=>
             (NeedContext(MembersOf(s) \cup MembersOf(t)) => InContext(paths[s], paths[t]))
<1>. PICK l \in Index : Holds(paths[s], l) /\ Identity(Representative(paths[s]), artifacts[l])
  BY RepresentativeHeld
<1>. PICK m \in Index : Holds(paths[t], m) /\ Identity(Representative(paths[t]), artifacts[m])
  BY RepresentativeHeld
<1>. DEFINE K == MembersOf(s) \cup MembersOf(t)
<1>1. l \in K /\ m \in K /\ K \in SUBSET Index
  BY DEF Holds, MembersOf, Members
<1>2. CompatibleRevoke(artifacts[l], artifacts[m])
  BY <1>1 DEF Alike
<1>3. CompatibleRevoke(Representative(paths[s]), Representative(paths[t]))
  BY <1>2 DEF Identity, CompatibleRevoke, BothIn, BothAliases, OneUnknown
<1>4. InNeed(Representative(paths[s]), Representative(paths[t])) <=> InNeed(artifacts[l], artifacts[m])
  BY DEF Identity, InNeed, IsRefresh, BothAliases
<1>5. InNeed(artifacts[l], artifacts[m]) <=> NeedContext(K)
  BY <1>1, NeedSpreads DEF NeedContext
<1>. QED  BY <1>3, <1>4, <1>5 DEF RevokeLinkable, InNeed

LEMMA ContextSymmetric ==
    ASSUME NEW p \in Path, NEW q \in Path
    PROVE  InContext(p, q) <=> InContext(q, p)
BY NearSymmetric DEF InContext, Path

LEMMA InitUnstray == Init => Unstray
<1>. SUFFICES ASSUME Init PROVE Unstray
  OBVIOUS
<1>1. \A m \in Live : m \in Nat /\ ~(m < i) /\ pass = "revoke"
  BY LinkAssumption DEF Init, Live, Index
<1>. QED  BY <1>1 DEF Unstray

LEMMA KeepingUnstray ==
    ASSUME Inv, Homes, Unstray, Keeping, [Next]_vars
    PROVE  Unstray'
<1>1. /\ Live' = Live /\ Index' = Index /\ artifacts' = artifacts
      /\ \A k \in Live : paths'[k].evidence = paths[k].evidence
  BY DEF Keeping, Kept, Live, Index
<1>2. ASSUME NEW m \in Live, NEW n \in Live, m # n, RevokeOnlyPath(paths[m]),
             pass' = "revoke" => m < i', Alike(MembersOf(m) \cup MembersOf(n))
      PROVE  NeedContext(MembersOf(m) \cup MembersOf(n)) /\ ~InContext(paths[m], paths[n])
  <2>1. CASE pass = "revoke" => m < i
    BY <1>2, <2>1 DEF Unstray
  <2>2. CASE pass = "revoke" /\ ~(m < i)
    <3>1. m \in 1..Len(artifacts) /\ i \in Nat /\ Len(artifacts) \in Nat
      BY DEF Live, Index, Inv, Typed, TypeOK
    <3>2. LinkRevoke
      <4>1. CASE UNCHANGED vars
        BY <1>2, <2>2, <4>1 DEF vars
      <4>2. CASE EndPass("revoke", "query")
        BY <2>2, <3>1, <4>2 DEF EndPass
      <4>. QED
        BY <2>2, <4>1, <4>2 DEF Next, Step, LinkQuery, EndPass, SkipTarget, OpenTarget,
                                LinkRefresh, CloseTarget, SortPaths
    <3>3. i' = i + 1 /\ pass' = pass
      BY <3>2 DEF LinkRevoke, Link
    <3>4. m = i
      BY <1>2, <2>2, <3>1, <3>3
    <3>5. RevokeTargets(i) = {}
      <4>. SUFFICES ASSUME RevokeTargets(i) # {} PROVE FALSE
        OBVIOUS
      <4>1. gone' = gone \cup {i} /\ i \in Live
        BY <3>2, <3>4 DEF LinkRevoke, Link, Absorb
      <4>. QED  BY <4>1 DEF Keeping, Kept, Live
    <3>6. ~RevokeLinkable(paths[m], paths[n])
      BY <1>2, <3>4, <3>5 DEF RevokeTargets, Others
    <3>. QED  BY <1>2, <3>6, AlikeLinkable, TypedShaped DEF Inv
  <2>. QED  BY <2>1, <2>2
<1>. SUFFICES ASSUME NEW m \in Live, NEW n \in Live, m # n, RevokeOnlyPath(paths[m])',
                     pass' = "revoke" => m < i', Alike(MembersOf(m) \cup MembersOf(n))'
              PROVE  NeedContext(MembersOf(m) \cup MembersOf(n))' /\ ~InContext(paths[m], paths[n])'
  BY <1>1 DEF Unstray
<1>3. MembersOf(m)' = MembersOf(m) /\ MembersOf(n)' = MembersOf(n)
  BY <1>1 DEF MembersOf, Members
<1>4. RevokeOnlyPath(paths[m]) /\ Alike(MembersOf(m) \cup MembersOf(n))
  BY <1>1, <1>3 DEF RevokeOnlyPath, Alike
<1>5. NeedContext(MembersOf(m) \cup MembersOf(n)) /\ ~InContext(paths[m], paths[n])
  BY <1>2, <1>4
<1>. QED  BY <1>1, <1>3, <1>5 DEF NeedContext, InContext

LEMMA MergeUnstray ==
    ASSUME Inv, Homes, Unstray, NEW s \in Index, NEW t \in Index, Merging(s, t)
    PROVE  Unstray'
<1>1. /\ Live' = Live \ {s} /\ Index' = Index /\ artifacts' = artifacts /\ pass' = pass
      /\ s \in Live /\ t \in Live /\ s # t
      /\ \A k \in Index \ {t} : paths'[k] = paths[k]
      /\ paths'[t].evidence = paths[s].evidence \cup paths[t].evidence
      /\ \A k \in Live : k \in Index /\ k \in Nat
  BY DEF Merging, Absorbed, Live, Index
<1>. DEFINE E(k) == IF k = t THEN paths[s].evidence \cup paths[t].evidence ELSE paths[k].evidence
            N(k) == Members(E(k))
<1>2. /\ \A k \in Live' : paths'[k].evidence = E(k)
      /\ \A k \in Live' : MembersOf(k) \subseteq N(k)
      /\ MembersOf(s) \subseteq N(t)
      /\ \A k \in Live' : N(k) \subseteq Index
  BY <1>1 DEF MembersOf, Members
<1>3. \A k \in Live' : MembersOf(k)' = N(k)
  <2>. SUFFICES ASSUME NEW k \in Live' PROVE MembersOf(k)' = N(k)
    OBVIOUS
  <2>1. paths'[k].evidence = E(k)
    BY <1>2
  <2>. HIDE DEF E
  <2>. QED  BY <1>1, <2>1 DEF MembersOf, Members
<1>4. \A k \in Live : k \in MembersOf(k) /\ paths[k].evidence # {} /\ paths[k] \in Path
  BY <1>1 DEF Homes, Holds, MembersOf, Members, Inv, Typed, TypeOK
<1>5. /\ \A K : Alike(K)' <=> Alike(K)
      /\ \A K : NeedContext(K)' <=> NeedContext(K)
  BY <1>1 DEF Alike, NeedContext
<1>6. \A K, L : L \subseteq K /\ Alike(K) => Alike(L)
  BY DEF Alike
<1>7. /\ i' \in Nat /\ i \in Nat
      /\ pass = "revoke" => s = i /\ i' = i + 1
  <2>1. i \in Nat /\ i' \in Nat
    BY DEF Merging, LinkMerge, RefreshMerge, Inv, Typed, TypeOK
  <2>. QED  BY <2>1 DEF Merging, LinkMerge, RefreshMerge
<1>8. \A k \in Live' : (pass = "revoke" => k < i') => (pass = "revoke" => k < i)
  BY <1>1, <1>7
<1>. HIDE DEF N
<1>9. ASSUME NEW m \in Live', NEW n \in Live', m # n,
             E(m) # {}, \A e \in E(m) : e.stage = "revoke",
             pass = "revoke" => m < i', Alike(N(m) \cup N(n))
      PROVE  /\ NeedContext(N(m) \cup N(n))
             /\ ~\E e \in E(m), f \in E(n) : Near(e, f)
  <2>0. /\ m \in Live /\ n \in Live /\ m # s /\ n # s
        /\ N(m) \cup N(n) \in SUBSET Index
        /\ Alike(MembersOf(m) \cup MembersOf(n))
    BY <1>1, <1>2, <1>6, <1>9
  <2>1. CASE m # t
    <3>1. RevokeOnlyPath(paths[m]) /\ E(m) = paths[m].evidence
      BY <1>9, <2>1 DEF RevokeOnlyPath
    <3>2. NeedContext(MembersOf(m) \cup MembersOf(n)) /\ ~InContext(paths[m], paths[n])
      BY <1>8, <1>9, <2>0, <3>1 DEF Unstray
    <3>3. NeedContext(N(m) \cup N(n))
      <4>1. m \in N(m) \cup N(n) /\ InNeed(artifacts[m], artifacts[m])
        BY <1>2, <1>4, <1>9, <2>0, <3>2 DEF NeedContext
      <4>. QED  BY <1>9, <2>0, <4>1, NeedSpreads
    <3>4. n = t => ~InContext(paths[m], paths[s])
      <4>. SUFFICES ASSUME n = t PROVE ~InContext(paths[m], paths[s])
        OBVIOUS
      <4>1. Alike(MembersOf(m) \cup MembersOf(s))
        BY <1>2, <1>6, <1>9
      <4>. QED  BY <1>1, <1>8, <1>9, <2>0, <3>1, <4>1 DEF Unstray
    <3>. QED  BY <3>1, <3>2, <3>3, <3>4 DEF InContext
  <2>2. CASE m = t
    <3>1. RevokeOnlyPath(paths[s]) /\ RevokeOnlyPath(paths[t])
      BY <1>1, <1>4, <1>9, <2>2 DEF RevokeOnlyPath
    <3>2. Alike(MembersOf(s) \cup MembersOf(t)) /\ Alike(MembersOf(t) \cup MembersOf(s))
      BY <1>2, <1>6, <1>9, <2>2
    <3>3. CASE pass = "revoke"
      <4>1. t < i /\ s = i
        BY <1>7, <1>8, <1>9, <2>2, <3>3
      <4>2. NeedContext(MembersOf(t) \cup MembersOf(s)) /\ ~InContext(paths[t], paths[s])
        BY <1>1, <3>1, <3>2, <3>3, <4>1 DEF Unstray
      <4>3. RevokeLinkable(paths[s], paths[t])
        BY <3>3 DEF Merging, Linkable
      <4>4. MembersOf(s) \cup MembersOf(t) = MembersOf(t) \cup MembersOf(s)
        OBVIOUS
      <4>5. InContext(paths[s], paths[t])
        BY <1>1, <3>2, <4>2, <4>3, <4>4, AlikeLinkable, TypedShaped DEF Inv
      <4>. QED  BY <1>1, <1>4, <4>2, <4>5, ContextSymmetric
    <3>4. CASE pass = "query"
      BY <3>1, <3>4 DEF Merging, Linkable, QueryPath, RevokeOnlyPath
    <3>5. CASE pass = "refresh"
      <4>1. ~InContext(paths[s], paths[t])
        BY <1>1, <3>1, <3>2, <3>5 DEF Unstray
      <4>. QED  BY <3>5, <4>1 DEF Merging, Linkable, RefreshLinkable
    <3>. QED  BY <3>3, <3>4, <3>5 DEF Merging, Linkable
  <2>. QED  BY <2>1, <2>2
<1>. SUFFICES ASSUME NEW m \in Live', NEW n \in Live', m # n, RevokeOnlyPath(paths'[m]),
                     pass = "revoke" => m < i', Alike(N(m) \cup N(n))
              PROVE  NeedContext(N(m) \cup N(n)) /\ ~InContext(paths'[m], paths'[n])
  BY <1>1, <1>3, <1>5 DEF Unstray, RevokeOnlyPath, InContext, Near
<1>10. paths'[m].evidence = E(m) /\ paths'[n].evidence = E(n)
  BY <1>2
<1>. HIDE DEF E
<1>. QED  BY <1>9, <1>10 DEF RevokeOnlyPath, InContext

LEMMA UnstrayAtTheEnd ==
    ASSUME Inv, Homes, Unstray, Reported, pass = "linked"
    PROVE  NoStrayRevoke
<1>. PICK order : Lists(order)
  BY DEF Reported
<1>. SUFFICES ASSUME NEW m \in 1..Len(linked), NEW n \in 1..Len(linked), m # n,
                     RevokeOnlyPath(linked[m]),
                     Alike(Members(linked[m].evidence) \cup Members(linked[n].evidence))
              PROVE  ~RevokeLinkable(linked[m], linked[n])
  BY DEF NoStrayRevoke
<1>1. /\ order[m] \in Live /\ linked[m] = paths[order[m]]
      /\ order[n] \in Live /\ linked[n] = paths[order[n]]
      /\ order[m] # order[n]
  BY DEF Lists
<1>2. NeedContext(MembersOf(order[m]) \cup MembersOf(order[n])) /\ ~InContext(linked[m], linked[n])
  BY <1>1 DEF Unstray, MembersOf
<1>. QED  BY <1>1, <1>2, AlikeLinkable, TypedShaped DEF Inv, MembersOf

-----------------------------------------------------------------------------
(* Revocations of refresh tokens find them.                                *)

\* In the revoke pass a revocation is on its own, or with others, until its turn.
Waiting ==
    pass = "revoke" =>
        \A k \in Index :
            /\ k >= i /\ artifacts[k].evidence # {} => k \in Live
            /\ k \in Live /\ OnlyRevoke(artifacts[k]) => RevokeOnlyPath(paths[k])

LEMMA InitWaiting == Init => Waiting
<1>. SUFFICES ASSUME Init PROVE Waiting
  OBVIOUS
<1>1. artifacts \in Seq(Artifact)
  BY LinkAssumption DEF Init
<1>2. \A k \in Index : artifacts[k] \in Artifact
  BY <1>1, ElementOfSeq DEF Index
<1>3. \A k \in Index : paths[k].evidence = artifacts[k].evidence
  BY <1>2, PathForType DEF Init
<1>. QED  BY <1>3 DEF Init, Waiting, Live, OnlyRevoke, RevokeOnlyPath

LEMMA KeepingWaiting ==
    ASSUME Inv, Waiting, Keeping, [Next]_vars
    PROVE  Waiting'
<1>1. /\ Live' = Live /\ Index' = Index /\ artifacts' = artifacts
      /\ \A k \in Live : paths'[k].evidence = paths[k].evidence
  BY DEF Keeping, Kept, Live, Index
<1>2. pass' = "revoke" => pass = "revoke" /\ i \in Nat /\ (i' = i \/ i' = i + 1)
  BY DEF Next, Step, LinkRevoke, LinkQuery, Link, EndPass, SkipTarget, OpenTarget,
           LinkRefresh, CloseTarget, SortPaths, vars, Inv, Typed, TypeOK
<1>. SUFFICES ASSUME pass' = "revoke", NEW k \in Index
              PROVE  /\ k >= i' /\ artifacts[k].evidence # {} => k \in Live
                     /\ k \in Live /\ OnlyRevoke(artifacts[k]) => RevokeOnlyPath(paths[k])'
  BY <1>1 DEF Waiting, OnlyRevoke
<1>3. k \in Nat
  BY DEF Index
<1>4. k >= i' => k >= i
  BY <1>2, <1>3
<1>. QED  BY <1>1, <1>2, <1>4 DEF Waiting, RevokeOnlyPath

LEMMA MergeWaiting ==
    ASSUME Inv, Waiting, NEW s \in Index, NEW t \in Index, Merging(s, t)
    PROVE  Waiting'
<1>1. /\ Live' = Live \ {s} /\ Index' = Index /\ artifacts' = artifacts /\ pass' = pass
      /\ s \in Live /\ t \in Live /\ s # t
      /\ \A k \in Index \ {t} : paths'[k] = paths[k]
      /\ paths'[t].evidence = paths[s].evidence \cup paths[t].evidence
  BY DEF Merging, Absorbed, Live, Index
<1>. SUFFICES ASSUME pass = "revoke", NEW k \in Index
              PROVE  /\ k >= i' /\ artifacts[k].evidence # {} => k \in Live'
                     /\ k \in Live' /\ OnlyRevoke(artifacts[k]) => RevokeOnlyPath(paths'[k])
  BY <1>1 DEF Waiting, OnlyRevoke, RevokeOnlyPath
<1>2. s = i /\ i' = i + 1 /\ i \in Nat /\ k \in Nat /\ RevokeOnlyPath(paths[s])
  BY DEF Merging, LinkMerge, RefreshMerge, Inv, Typed, TypeOK, Index, Linkable
<1>3. k >= i' => k >= i /\ k # s
  BY <1>2
<1>. QED  BY <1>1, <1>2, <1>3 DEF Waiting, RevokeOnlyPath

\* The tokens of path t are those artifact r revokes, where it does.
RevokedBy(t, r) == \A k \in MembersOf(t) : /\ artifacts[k].name = artifacts[r].name
                                  /\ artifacts[k].type = artifacts[r].type
                                  /\ InContext(artifacts[k], artifacts[r])
\* A path that tells r is one of refresh tokens of its type.
Pure(r) == \A h \in Live : r \in MembersOf(h) =>
                \A k \in MembersOf(h) : IsRefresh(artifacts[k]) /\ artifacts[k].type = artifacts[r].type
Revokes(r) == OnlyRevoke(artifacts[r]) /\ artifacts[r].name \in RefreshName

\* How far the loops are from merging path h and path t.
Ahead(h, t, r) ==
    /\ pass = "revoke" => IF i <= r THEN h = r ELSE h <= t
    /\ pass = "query" => h <= t
    /\ pass = "refresh" => IF j = 0 THEN h = t \/ (i <= h /\ h < t)
                           ELSE h = t \/ (i < h /\ h < t) \/ (h = i /\ j <= t)
    /\ pass = "linked" => h = t

Caught ==
    \A r \in Index : Revokes(r) /\ Pure(r) =>
        \A t \in Live : RevokedBy(t, r) => \E h \in Live : Holds(paths[h], r) /\ Ahead(h, t, r)

LEMMA InitCaught == Init => Caught
<1>. SUFFICES ASSUME Init, NEW r \in Index, Revokes(r), NEW t \in Live
              PROVE  \E h \in Live : Holds(paths[h], r) /\ Ahead(h, t, r)
  BY DEF Caught
<1>1. Homes
  BY InitHomes
<1>2. r \in Live
  BY DEF Revokes, OnlyRevoke, Init, Live
<1>3. pass = "revoke" /\ i <= r
  BY DEF Init, Index
<1>. QED  BY <1>1, <1>2, <1>3 DEF Homes, Ahead

LEMMA NearbyPath ==
    ASSUME Shaped, Homes, NEW r \in Index, NEW h \in Live, Holds(paths[h], r),
           NEW t \in Live, RevokedBy(t, r)
    PROVE  InContext(paths[h], paths[t]) /\ InContext(paths[t], paths[h])
<1>1. t \in MembersOf(t) /\ r \in MembersOf(h)
  BY DEF Homes, Holds, MembersOf
<1>2. InContext(artifacts[t], artifacts[r])
  BY <1>1 DEF RevokedBy
<1>3. InContext(paths[t], paths[h])
  BY <1>1, <1>2 DEF InContext, MembersOf, Members
<1>4. paths[t] \in Path /\ paths[h] \in Path
  BY DEF Shaped, Live
<1>. QED  BY <1>3, <1>4, ContextSymmetric

\* A revocation is linkable to what it revokes.
LEMMA RevocationLinkable ==
    ASSUME Shaped, Homes, Homonyms, pass = "revoke", NEW r \in Index, Revokes(r), Pure(r),
           NEW h \in Live, Holds(paths[h], r), NEW t \in Live, RevokedBy(t, r)
    PROVE  RevokeLinkable(paths[h], paths[t])
<1>. PICK l \in Index : Holds(paths[h], l) /\ Identity(Representative(paths[h]), artifacts[l])
  BY RepresentativeHeld
<1>. PICK m \in Index : Holds(paths[t], m) /\ Identity(Representative(paths[t]), artifacts[m])
  BY RepresentativeHeld
<1>1. artifacts[m].name = artifacts[r].name /\ artifacts[m].type = artifacts[r].type
  BY DEF RevokedBy, Holds, MembersOf
<1>2. artifacts[l].type = artifacts[r].type
  BY DEF Pure, Holds, MembersOf
<1>3. artifacts[l].name = artifacts[r].name
  <2>1. SameName(artifacts[l], artifacts[r])
    BY DEF Homonyms, Homonymous, Holds
  <2>. QED  BY <2>1 DEF SameName, BothAliases, Revokes, RefreshName, SessionAlias
<1>4. InContext(paths[h], paths[t])
  BY NearbyPath
<1>. QED  BY <1>1, <1>2, <1>3, <1>4 DEF RevokeLinkable, CompatibleRevoke, Identity

LEMMA RefreshesLinkable ==
    ASSUME Shaped, Homes, NEW r \in Index, Revokes(r), Pure(r),
           NEW h \in Live, Holds(paths[h], r), NEW t \in Live, RevokedBy(t, r)
    PROVE  /\ RefreshPath(paths[h])
           /\ RefreshLinkable(paths[t], paths[h])
<1>. PICK l \in Index : Holds(paths[h], l) /\ Identity(Representative(paths[h]), artifacts[l])
  BY RepresentativeHeld
<1>. PICK m \in Index : Holds(paths[t], m) /\ Identity(Representative(paths[t]), artifacts[m])
  BY RepresentativeHeld
<1>1. artifacts[m].type = artifacts[r].type /\ IsRefresh(artifacts[m])
  BY DEF RevokedBy, Holds, MembersOf, Revokes, IsRefresh
<1>2. artifacts[l].type = artifacts[r].type /\ IsRefresh(artifacts[l])
  BY DEF Pure, Holds, MembersOf
<1>3. CompatibleRefresh(Representative(paths[t]), Representative(paths[h]))
  BY <1>1, <1>2 DEF CompatibleRefresh, Identity, IsRefresh
<1>4. InContext(paths[t], paths[h])
  BY NearbyPath
<1>5. ASSUME NEW k \in Live, NEW n \in Index, Holds(paths[k], n), IsRefresh(artifacts[n])
      PROVE  RefreshPath(paths[k])
  <2>1. artifacts[n].id \in IdsOf(paths[k])
    BY <1>5 DEF Holds
  <2>2. PICK o \in Index : Holds(paths[k], o) /\ Identity(Lookup(artifacts[n].id), artifacts[o])
    BY <2>1, LookupHeld
  <2>3. artifacts[o].id = artifacts[n].id
    BY <2>1, <2>2, LookupHeld DEF Identity
  <2>4. artifacts[o].type = artifacts[n].type /\ artifacts[o].name = artifacts[n].name
    BY <2>3, OneIdentity DEF Homes
  <2>5. IsRefresh(Lookup(artifacts[n].id))
    BY <1>5, <2>2, <2>4 DEF Identity, IsRefresh
  <2>. QED  BY <2>1, <2>5 DEF RefreshPath
<1>. QED  BY <1>1, <1>2, <1>3, <1>4, <1>5 DEF RefreshLinkable

LEMMA KeepingAhead ==
    ASSUME Inv, Homes, Homonyms, Waiting, Keeping, [Next]_vars,
           NEW r \in Index, Revokes(r), Pure(r),
           NEW h \in Live, Holds(paths[h], r),
           NEW t \in Live, RevokedBy(t, r), Ahead(h, t, r)
    PROVE  Ahead(h, t, r)'
<1>0. /\ i \in Nat /\ j \in Nat /\ r \in Nat /\ h \in Nat /\ t \in Nat /\ Len(artifacts) \in Nat
      /\ r <= Len(artifacts) /\ h <= Len(artifacts) /\ t <= Len(artifacts)
      /\ h \in Index /\ t \in Index
      /\ pass \in {"revoke", "query", "refresh", "linked"}
  BY DEF Inv, Typed, TypeOK, Index, Live
<1>1. Shaped
  BY TypedShaped DEF Inv
<1>2. RefreshPath(paths[h]) /\ RefreshLinkable(paths[t], paths[h])
  BY <1>1, RefreshesLinkable
<1>3. CASE LinkRevoke
  <2>1. pass = "revoke" /\ pass' = "revoke" /\ i' = i + 1
    BY <1>3 DEF LinkRevoke, Link
  <2>2. CASE i = r
    <3>1. h = r /\ RevokeOnlyPath(paths[r])
      BY <1>0, <2>1, <2>2 DEF Ahead, Waiting, Revokes
    <3>2. CASE t = r
      BY <1>0, <2>1, <3>1, <3>2 DEF Ahead
    <3>3. CASE t # r
      <4>1. RevokeLinkable(paths[r], paths[t])
        BY <1>1, <2>1, <3>1, RevocationLinkable
      <4>2. t \in RevokeTargets(i)
        BY <2>2, <3>1, <3>3, <4>1 DEF RevokeTargets, Others
      <4>3. gone' = gone \cup {i}
        BY <1>3, <4>2 DEF LinkRevoke, Link, Absorb
      <4>. QED  BY <2>2, <3>1, <4>3 DEF Keeping, Kept, Live
    <3>. QED  BY <3>2, <3>3
  <2>3. CASE i # r
    BY <1>0, <2>1, <2>3 DEF Ahead
  <2>. QED  BY <2>2, <2>3
<1>4. CASE EndPass("revoke", "query")
  BY <1>0, <1>4 DEF EndPass, Ahead
<1>5. CASE LinkQuery
  BY <1>0, <1>5 DEF LinkQuery, Link, Ahead
<1>6. CASE EndPass("query", "refresh")
  <2>1. pass = "query" /\ pass' = "refresh" /\ i' = 1 /\ j' = 0
    BY <1>6 DEF EndPass, Inv, Cursor
  <2>2. 1 <= h
    BY <1>0 DEF Index
  <2>. QED  BY <1>0, <2>1, <2>2 DEF Ahead
<1>7. CASE SkipTarget
  <2>1. h # i
    BY <1>2, <1>7 DEF SkipTarget, RefreshTarget
  <2>. QED  BY <1>0, <1>7, <2>1 DEF SkipTarget, Ahead
<1>8. CASE OpenTarget
  <2>1. i + 1 # 0
    BY <1>0
  <2>. QED  BY <1>0, <1>8, <2>1 DEF OpenTarget, Ahead
<1>9. CASE LinkRefresh
  <2>1. ~(h = i /\ j = t)
    <3>. SUFFICES ASSUME h = i, j = t PROVE FALSE
      OBVIOUS
    <3>1. gone' = gone \cup {j}
      BY <1>2, <1>9 DEF LinkRefresh
    <3>. QED  BY <3>1 DEF Keeping, Kept, Live
  <2>2. pass = "refresh" /\ pass' = "refresh" /\ i' = i /\ j' = j + 1 /\ j # 0 /\ j + 1 # 0
    BY <1>0, <1>9 DEF LinkRefresh, Index
  <2>. QED  BY <1>0, <2>1, <2>2 DEF Ahead
<1>10. CASE CloseTarget
  <2>1. pass = "refresh" /\ pass' = "refresh" /\ i' = i + 1 /\ j' = 0 /\ j # 0 /\ j > Len(artifacts)
    BY <1>0, <1>10 DEF CloseTarget
  <2>. QED  BY <1>0, <2>1 DEF Ahead
<1>11. CASE SortPaths
  BY <1>0, <1>11 DEF SortPaths, Ahead
<1>12. CASE UNCHANGED vars
  BY <1>12 DEF vars, Ahead
<1>. QED  BY <1>3, <1>4, <1>5, <1>6, <1>7, <1>8, <1>9, <1>10, <1>11, <1>12 DEF Next, Step

LEMMA KeepingCaught ==
    ASSUME Inv, Homes, Homonyms, Waiting, Caught, Keeping, [Next]_vars
    PROVE  Caught'
<1>1. /\ Live' = Live /\ Index' = Index /\ artifacts' = artifacts
      /\ \A k \in Live : k \in Index
  BY DEF Keeping, Kept, Live, Index
<1>2. \A k \in Live : MembersOf(k)' = MembersOf(k)
  BY <1>1 DEF MembersOf, Members, Keeping, Kept
<1>3. \A k \in Live, l \in Index : Holds(paths[k], l)' <=> Holds(paths[k], l)
  BY <1>1, <1>2 DEF Holds, MembersOf, Keeping, Kept
<1>4. \A r \in Index : /\ Revokes(r)' <=> Revokes(r)
                       /\ Pure(r)' <=> Pure(r)
                       /\ \A t \in Live : RevokedBy(t, r)' <=> RevokedBy(t, r)
  BY <1>1, <1>2 DEF Revokes, OnlyRevoke, Pure, RevokedBy, IsRefresh, InContext, Near
<1>. SUFFICES ASSUME NEW r \in Index, Revokes(r), Pure(r), NEW t \in Live, RevokedBy(t, r)
              PROVE  \E h \in Live : Holds(paths[h], r)' /\ Ahead(h, t, r)'
  BY <1>1, <1>4 DEF Caught
<1>. PICK h \in Live : Holds(paths[h], r) /\ Ahead(h, t, r)
  BY DEF Caught
<1>. QED  BY <1>3, KeepingAhead

LEMMA MergeAhead ==
    ASSUME Inv, Homes, Homonyms,
           NEW s \in Index, NEW u \in Index, Merging(s, u),
           NEW r \in Index, Revokes(r), Pure(r),
           NEW h \in Live, Holds(paths[h], r),
           NEW t \in Live, t # s, RevokedBy(t, r), Ahead(h, t, r)
    PROVE  Ahead(IF h = s THEN u ELSE h, t, r)'
<1>0. /\ i \in Nat /\ j \in Nat /\ r \in Nat /\ h \in Nat /\ t \in Nat /\ s \in Nat /\ u \in Nat
      /\ s # 0 /\ s # u
      /\ pass' = pass
  BY DEF Inv, Typed, TypeOK, Index, Live, Merging
<1>1. Shaped
  BY TypedShaped DEF Inv
<1>2. CASE pass = "revoke"
  <2>1. s = i /\ i' = i + 1 /\ RevokeOnlyPath(paths[s])
        /\ \A v \in Others(s) : Linkable(s, v) => u <= v
    BY <1>2 DEF Merging, LinkMerge, RefreshMerge, Linkable
  <2>2. h = s => u <= t
    <3>. SUFFICES ASSUME h = s PROVE u <= t
      OBVIOUS
    <3>1. RevokeLinkable(paths[s], paths[t])
      BY <1>1, <1>2, RevocationLinkable
    <3>. QED  BY <1>2, <2>1, <3>1 DEF Linkable, Others
  <2>. QED  BY <1>0, <1>2, <2>1, <2>2 DEF Ahead
<1>3. CASE pass = "query"
  <2>1. h # s
    BY <1>3 DEF Merging, Linkable, QueryPath, Holds, Members, Revokes, OnlyRevoke
  <2>. QED  BY <1>0, <1>3, <2>1 DEF Ahead
<1>4. CASE pass = "refresh"
  <2>1. s = j /\ u = i /\ i' = i /\ j' = j + 1
    BY <1>4 DEF Merging, LinkMerge, RefreshMerge
  <2>2. j # 0 /\ j' # 0
    BY <1>0, <2>1
  <2>. QED  BY <1>0, <1>4, <2>1, <2>2 DEF Ahead
<1>. QED  BY <1>2, <1>3, <1>4 DEF Merging, Linkable

LEMMA MergeCaught ==
    ASSUME Inv, Homes, Homonyms, Caught, NEW s \in Index, NEW u \in Index, Merging(s, u)
    PROVE  Caught'
<1>1. /\ Live' = Live \ {s} /\ Index' = Index /\ artifacts' = artifacts
      /\ s \in Live /\ u \in Live /\ s # u
      /\ \A k \in Index \ {u} : paths'[k] = paths[k]
      /\ paths'[u].evidence = paths[s].evidence \cup paths[u].evidence
      /\ IdsOf(paths'[u]) = IdsOf(paths[s]) \cup IdsOf(paths[u])
      /\ \A k \in Live : k \in Index
  BY DEF Merging, Absorbed, Live, Index
<1>. DEFINE G(k) == IF k = s THEN u ELSE k
<1>2. \A k \in Live : /\ G(k) \in Live'
                      /\ paths[k].evidence \subseteq paths'[G(k)].evidence
                      /\ IdsOf(paths[k]) \subseteq IdsOf(paths'[G(k)])
  <2>. SUFFICES ASSUME NEW k \in Live
                PROVE  /\ G(k) \in Live'
                       /\ paths[k].evidence \subseteq paths'[G(k)].evidence
                       /\ IdsOf(paths[k]) \subseteq IdsOf(paths'[G(k)])
    OBVIOUS
  <2>1. CASE k = s
    BY <1>1, <2>1
  <2>2. CASE k = u
    BY <1>1, <2>2
  <2>3. CASE k \notin {s, u}
    <3>1. paths'[k] = paths[k]
      BY <1>1, <2>3
    <3>. QED  BY <1>1, <2>3, <3>1
  <2>. QED  BY <2>1, <2>2, <2>3
<1>. HIDE DEF G
<1>3. \A k \in Live : MembersOf(k) \subseteq MembersOf(G(k))'
  BY <1>1, <1>2 DEF MembersOf, Members
<1>4. \A k \in Live, l \in Index : Holds(paths[k], l) => Holds(paths[G(k)], l)'
  BY <1>1, <1>2 DEF Holds, Members, IdsOf
<1>. SUFFICES ASSUME NEW r \in Index, Revokes(r), Pure(r)', NEW t \in Live', RevokedBy(t, r)'
              PROVE  \E h \in Live' : Holds(paths[h], r)' /\ Ahead(h, t, r)'
  BY <1>1 DEF Caught, Revokes, OnlyRevoke
<1>5. Pure(r)
  BY <1>1, <1>2, <1>3 DEF Pure, IsRefresh
<1>6. t \in Live /\ t # s
  BY <1>1
<1>7. RevokedBy(t, r)
  <2>1. MembersOf(t) \subseteq MembersOf(t)'
    BY <1>3, <1>6 DEF G
  <2>. QED  BY <1>1, <2>1 DEF RevokedBy, InContext, Near
<1>. PICK h \in Live : Holds(paths[h], r) /\ Ahead(h, t, r)
  BY <1>5, <1>6, <1>7 DEF Caught
<1>8. Ahead(G(h), t, r)'
  BY <1>5, <1>6, <1>7, MergeAhead DEF G
<1>. QED  BY <1>2, <1>4, <1>8

-----------------------------------------------------------------------------
(* The invariant, and what it says of the report.                          *)

\* A revocation is told with what it revokes.
ToldTogether ==
    \A r \in Index : Revokes(r) /\ Pure(r) =>
        \A t \in Live : RevokedBy(t, r) => Holds(paths[t], r)

LEMMA CaughtAtTheEnd == Caught /\ pass = "linked" => ToldTogether
BY DEF Caught, ToldTogether, Ahead

LinkInv ==
    /\ Inv
    /\ Homes
    /\ Locals
    /\ Listed
    /\ Sorted
    /\ Homonyms
    /\ Unstray
    /\ Waiting
    /\ Caught

LEMMA LinkInvInit == Init => LinkInv
<1>. SUFFICES ASSUME Init PROVE LinkInv
  OBVIOUS
<1>1. Listed
  BY DEF Init, Listed
<1>2. Inv /\ Homes /\ Locals /\ Sorted /\ Homonyms
  BY InitInv, InitHomes, InitLocals, InitSorted, InitHomonyms
<1>3. Unstray /\ Waiting /\ Caught
  BY InitUnstray, InitWaiting, InitCaught
<1>. QED  BY <1>1, <1>2, <1>3 DEF LinkInv

LEMMA LinkInvNext == LinkInv /\ [Next]_vars => LinkInv'
<1>. SUFFICES ASSUME LinkInv, [Next]_vars PROVE LinkInv'
  OBVIOUS
<1>0. Inv /\ Homes /\ Locals /\ Listed /\ Sorted /\ Homonyms /\ Unstray /\ Waiting /\ Caught
  BY DEF LinkInv
<1>1. Inv' /\ Listed'
  BY <1>0, NextInv, NextListed
<1>2. CASE Keeping
  <2>1. pass' \in {"revoke", "query"} => pass \in {"revoke", "query"}
    BY DEF Next, Step, LinkRevoke, LinkQuery, Link, EndPass, SkipTarget, OpenTarget,
           LinkRefresh, CloseTarget, SortPaths, vars
  <2>2. Homes' /\ Locals' /\ Sorted' /\ Homonyms'
    BY <1>0, <1>2, <2>1, KeptHomes, KeptLocals, KeepingSorted, KeepingHomonyms DEF Keeping
  <2>3. Unstray' /\ Waiting' /\ Caught'
    BY <1>0, <1>2, KeepingUnstray, KeepingWaiting, KeepingCaught
  <2>. QED  BY <1>1, <2>2, <2>3 DEF LinkInv
<1>3. CASE \E s, t \in Index : Merging(s, t)
  <2>. PICK s \in Index, t \in Index : Merging(s, t)
    BY <1>3
  <2>1. s \in Live /\ t \in Live /\ s # t /\ Absorbed(s, t) /\ Typed
    BY <1>0 DEF Merging, Inv
  <2>2. Homes' /\ Locals' /\ Sorted' /\ Homonyms'
    BY <1>0, <2>1, MergeHomes, MergeLocals, MergeSorted, MergeHomonyms
  <2>3. Unstray' /\ Waiting' /\ Caught'
    BY <1>0, MergeUnstray, MergeWaiting, MergeCaught
  <2>. QED  BY <1>1, <2>2, <2>3 DEF LinkInv
<1>. QED  BY <1>0, <1>2, <1>3, StepCases

\* In every reachable state the linking keeps its invariant.
THEOREM LinkInvInvariance == Spec => []LinkInv
<1>. QED  BY LinkInvInit, LinkInvNext, PTL DEF Spec

\* "Refresh-token paths are linked only when evidence is source-local" (the
\* linkability rules of merge_refresh_paths and merge_revoke_only_paths): in every
\* report an artifact that is merged with others, where all of its name are refresh
\* tokens, has evidence near that of another of them, or shares some with it.
THEOREM RefreshTokensStayLocal == Spec => []RefreshStaysLocal
<1>1. LinkInv => RefreshStaysLocal
  <2>. SUFFICES ASSUME LinkInv, NEW n \in 1..Len(linked)
                PROVE  LocalIn(Members(linked[n].evidence))
    BY DEF RefreshStaysLocal, LocalIn, AllRefresh, Closely
  <2>1. Reported
    BY DEF LinkInv, Listed
  <2>2. PICK order : Lists(order)
    BY <2>1 DEF Reported
  <2>3. order[n] \in Live /\ linked[n] = paths[order[n]]
    BY <2>2 DEF Lists
  <2>. QED  BY <2>3 DEF LinkInv, Locals
<1>. QED  BY <1>1, LinkInvInvariance, PTL

\* merge_revoke_only_paths leaves no revocation on its own that could still be
\* merged: of the reported paths none that is nothing but revocations is linkable
\* to another whose artifacts are like its own.
THEOREM NoRevocationIsLeftAstray == Spec => []NoStrayRevoke
<1>1. LinkInv => NoStrayRevoke
  <2>. SUFFICES ASSUME LinkInv PROVE NoStrayRevoke
    OBVIOUS
  <2>1. CASE pass = "linked"
    BY <2>1, UnstrayAtTheEnd DEF LinkInv, Listed
  <2>2. CASE pass # "linked"
    BY <2>2 DEF LinkInv, Listed, NoStrayRevoke
  <2>. QED  BY <2>1, <2>2
<1>. QED  BY <1>1, LinkInvInvariance, PTL

-----------------------------------------------------------------------------
(* Who represents a path.                                                  *)

NamesOf(p) == {artifacts[a].name : a \in {b \in Index : artifacts[b].id \in IdsOf(p)}}
SessionsOnly == \A l \in Index : artifacts[l].name \in SessionNames => artifacts[l].type \in SessionLike

Judged(p) ==
    \* A path that names a refresh token is represented by one,
    /\ NamesOf(p) \cap RefreshName # {} => \A c \in Chosen(p) : IsRefresh(c)
    \* one that names a session by an artifact with the type of one,
    /\ SessionsOnly /\ NamesOf(p) \cap SessionNames # {}
            => \A c \in Chosen(p) : c.type \in SessionLike
    \* and a logout handler is only with others.
    /\ "logout" \in NamesOf(p) => NamesOf(p) = {"logout"}
    \* Which artifact it is changes between refresh tokens only.
    /\ \/ \A c, d \in Chosen(p) : c = d
       \/ \A c \in Chosen(p) : IsRefresh(c)
AllJudged == \A k \in Live : Judged(paths[k])

BaseInv ==
    /\ Inv
    /\ Homes
    /\ Sorted
    /\ Homonyms

LEMMA HomonymsJudge == BaseInv /\ pass \in {"revoke", "query"} => AllJudged
<1>. SUFFICES ASSUME BaseInv, pass \in {"revoke", "query"}, NEW k \in Live
              PROVE  Judged(paths[k])
  BY DEF AllJudged
<1>0. Shaped /\ j = 0 /\ InOrder(paths[k]) /\ paths[k] \in Path /\ paths[k].artifacts # <<>>
  BY TypedShaped DEF BaseInv, Inv, Cursor, Sorted, Typed, TypeOK, Live
<1>1. ASSUME NEW c \in Chosen(paths[k])
      PROVE  \E m \in Index : c = artifacts[m] /\ artifacts[m].id \in IdsOf(paths[k])
  BY <1>0, ChosenHeld DEF BaseInv
<1>2. \A a, b \in Index : artifacts[a].id \in IdsOf(paths[k]) /\ artifacts[b].id \in IdsOf(paths[k])
                            => SameName(artifacts[a], artifacts[b])
  BY DEF BaseInv, Homonyms, Homonymous
<1>3. \A c \in Chosen(paths[k]), n \in NamesOf(paths[k]) :
            c.name = n \/ (c.name \in SessionAlias /\ n \in SessionAlias)
  BY <1>1, <1>2 DEF NamesOf, SameName, BothAliases
<1>4. NamesOf(paths[k]) \cap RefreshName # {} => \A c \in Chosen(paths[k]) : IsRefresh(c)
  BY <1>3 DEF IsRefresh, RefreshName, SessionAlias
<1>5. SessionsOnly /\ NamesOf(paths[k]) \cap SessionNames # {}
        => \A c \in Chosen(paths[k]) : c.type \in SessionLike
  BY <1>1, <1>3 DEF SessionsOnly, SessionNames
<1>6. "logout" \in NamesOf(paths[k]) => NamesOf(paths[k]) = {"logout"}
  BY <1>2 DEF NamesOf, SameName, BothAliases, SessionAlias
<1>7. \A c, d \in Chosen(paths[k]) : c = d
  BY <1>0, SortedRepresentative DEF Chosen
<1>. QED  BY <1>4, <1>5, <1>6, <1>7 DEF Judged

LEMMA KeepingJudged ==
    ASSUME Inv, AllJudged, Keeping
    PROVE  AllJudged'
<1>1. Live' = Live /\ Index' = Index /\ artifacts' = artifacts
  BY DEF Keeping, Kept, Live, Index
<1>. SUFFICES ASSUME NEW k \in Live PROVE Judged(paths[k])'
  BY <1>1 DEF AllJudged
<1>2. Chosen(paths[k])' \subseteq Chosen(paths[k])
  BY KeepingChosen
<1>3. NamesOf(paths[k])' = NamesOf(paths[k]) /\ SessionsOnly' = SessionsOnly
  <2>1. IdsOf(paths[k])' = IdsOf(paths[k])
    BY DEF Keeping, Kept, Live, IdsOf
  <2>. QED  BY <1>1, <2>1 DEF NamesOf, SessionsOnly
<1>4. Judged(paths[k])
  BY DEF AllJudged
<1>. QED  BY <1>2, <1>3, <1>4 DEF Judged

LEMMA RefreshMergeJudged ==
    ASSUME Inv, Homes, Sorted, AllJudged, pass \notin {"revoke", "query"},
           NEW s \in Index, NEW t \in Index, Merging(s, t)
    PROVE  AllJudged'
<1>1. /\ Live' = Live \ {s} /\ Index' = Index /\ artifacts' = artifacts
      /\ s \in Live /\ t \in Live /\ s # t
      /\ \A k \in Index \ {t} : paths'[k] = paths[k]
      /\ IdsOf(paths'[t]) = IdsOf(paths[s]) \cup IdsOf(paths[t])
      /\ \A k \in Live : k \in Index
  BY DEF Merging, Absorbed, Live, Index
<1>2. /\ Chosen(paths[t])' \subseteq Chosen(paths[s]) \cup Chosen(paths[t])
      /\ \A k \in Live \ {s, t} : Chosen(paths[k])' = Chosen(paths[k])
  BY MergeChosen
<1>3. \A x \in {s, t} : IsRefresh(Representative(paths[x]))
  BY DEF Merging, Linkable, RefreshLinkable, CompatibleRefresh
<1>4. \A x \in {s, t} : \A c \in Chosen(paths[x]) : IsRefresh(c)
  <2>1. \A x \in {s, t} : Representative(paths[x]) \in Chosen(paths[x]) /\ Judged(paths[x])
    BY <1>1 DEF Chosen, AllJudged
  <2>. QED  BY <1>3, <2>1 DEF Judged
<1>5. NamesOf(paths[t])' = NamesOf(paths[s]) \cup NamesOf(paths[t])
  <2>1. IdsOf(paths[t])' = IdsOf(paths[s]) \cup IdsOf(paths[t])
    BY <1>1 DEF IdsOf
  <2>2. \A b \in Index : artifacts[b].id \in IdsOf(paths[t])' <=>
                \/ artifacts[b].id \in IdsOf(paths[s]) \/ artifacts[b].id \in IdsOf(paths[t])
    BY <2>1
  <2>. QED  BY <1>1, <2>2 DEF NamesOf
<1>6. \A x \in {s, t} : "logout" \notin NamesOf(paths[x])
  <2>. SUFFICES ASSUME NEW x \in {s, t}, "logout" \in NamesOf(paths[x]) PROVE FALSE
    OBVIOUS
  <2>1. x \in Live /\ NamesOf(paths[x]) = {"logout"}
    BY <1>1 DEF AllJudged, Judged
  <2>. DEFINE c == Representative(paths[x])
  <2>2. PICK m \in Index : c = artifacts[m] /\ artifacts[m].id \in IdsOf(paths[x])
    BY <2>1, ChosenHeld, TypedShaped DEF Inv, Chosen
  <2>3. artifacts[m].name = "logout"
    BY <2>1, <2>2 DEF NamesOf
  <2>4. artifacts[m].type # "RefreshJwt"
    BY <2>3, DetectorAssumption DEF Homes, Index
  <2>. QED  BY <1>3, <2>2, <2>3, <2>4 DEF IsRefresh, RefreshName
<1>7. SessionsOnly' = SessionsOnly
  BY <1>1 DEF SessionsOnly
<1>8. ASSUME SessionsOnly, NEW x \in {s, t}, NEW c \in Chosen(paths[x])
      PROVE  c.type \in SessionLike
  <2>1. PICK m \in Index : c = artifacts[m]
    BY <1>1, ChosenHeld, TypedShaped DEF Inv
  <2>. QED  BY <1>4, <1>8, <2>1 DEF IsRefresh, SessionsOnly, SessionNames, SessionLike
<1>. SUFFICES ASSUME NEW k \in Live' PROVE Judged(paths[k])'
  BY DEF AllJudged
<1>9. CASE k = t
  <2>1. \A c \in Chosen(paths[k])' : IsRefresh(c)
    BY <1>2, <1>4, <1>9
  <2>2. "logout" \notin NamesOf(paths[k])'
    BY <1>5, <1>6, <1>9
  <2>3. SessionsOnly => \A c \in Chosen(paths[k])' : c.type \in SessionLike
    BY <1>2, <1>8, <1>9
  <2>. QED  BY <1>7, <2>1, <2>2, <2>3 DEF Judged
<1>10. CASE k # t
  <2>1. k \in Live \ {s, t} /\ paths'[k] = paths[k]
    BY <1>1, <1>10
  <2>2. Chosen(paths[k])' = Chosen(paths[k])
    BY <1>2, <2>1
  <2>3. NamesOf(paths[k])' = NamesOf(paths[k])
    BY <1>1, <2>1 DEF NamesOf, IdsOf
  <2>4. Judged(paths[k])
    BY <2>1 DEF AllJudged
  <2>. QED  BY <1>7, <2>2, <2>3, <2>4 DEF Judged
<1>. QED  BY <1>9, <1>10

\* What the rules see.
Settled ==
    /\ Shaped
    /\ Homes
    /\ Reported
    /\ linked \in Seq(Path)
    /\ StampCurrent
    /\ AllJudged
    /\ ToldTogether

RulesInv ==
    IF pass = "classified"
    THEN Settled /\ findings = LifecycleFindings
    ELSE LinkInv /\ AllJudged /\ findings = {}

LEMMA SettledKept ==
    ASSUME Settled, UNCHANGED <<artifacts, paths, gone, linked>>
    PROVE  Settled'
<1>1. Index' = Index /\ Live' = Live
  BY DEF Index, Live
<1>2. Shaped' /\ Homes' /\ Reported' /\ StampCurrent'
  <2>1. Shaped'
    BY <1>1 DEF Settled, Shaped
  <2>2. Homes'
    <3>1. Kept
      BY DEF Kept, IdsOf
    <3>. QED  BY <3>1, KeptHomes DEF Settled
  <2>3. Reported'
    BY <1>1 DEF Settled, Reported, Lists
  <2>4. StampCurrent'
    BY DEF Settled, StampCurrent
  <2>. QED  BY <2>1, <2>2, <2>3, <2>4
<1>3. \A k : Chosen(paths[k])' = Chosen(paths[k])
  BY DEF Chosen, Representative, Lookup, Index, OnlyRevoke, LeastStrong, Strong, IdsOf
<1>4. \A k : NamesOf(paths[k])' = NamesOf(paths[k]) /\ SessionsOnly' = SessionsOnly
  BY DEF NamesOf, Index, IdsOf, SessionsOnly
<1>5. AllJudged'
  BY <1>1, <1>3, <1>4 DEF Settled, AllJudged, Judged
<1>6. ToldTogether'
  <2>1. \A k : MembersOf(k)' = MembersOf(k)
    BY <1>1 DEF MembersOf, Members
  <2>2. \A k, l : Holds(paths[k], l)' <=> Holds(paths[k], l)
    BY <1>1 DEF Holds, Members, IdsOf
  <2>3. \A r : /\ Revokes(r)' <=> Revokes(r)
               /\ Pure(r)' <=> Pure(r)
               /\ \A t : RevokedBy(t, r)' <=> RevokedBy(t, r)
    BY <1>1, <2>1 DEF Revokes, OnlyRevoke, Pure, RevokedBy, IsRefresh, InContext, Near
  <2>. QED  BY <1>1, <2>2, <2>3 DEF Settled, ToldTogether
<1>. QED  BY <1>2, <1>5, <1>6 DEF Settled

LEMMA SameFindings ==
    ASSUME UNCHANGED <<artifacts, linked>>
    PROVE  LifecycleFindings' = LifecycleFindings
<1>1. /\ ReportEvidence' = ReportEvidence
      /\ \A id : Lookup(id)' = Lookup(id)
  BY DEF ReportEvidence, Index, Lookup
<1>2. \A p : Representative(p)' = Representative(p)
  BY <1>1 DEF Representative, OnlyRevoke
<1>3. \A p : Logouts(p)' = Logouts(p)
  BY <1>1 DEF Logouts, StageOf, NearPath, Near
<1>4. \A a, p : /\ IssueWithoutValidate(a, p)' = IssueWithoutValidate(a, p)
                /\ RefreshWithoutRevoke(a, p)' = RefreshWithoutRevoke(a, p)
                /\ ResetWithoutExpiry(a, p)' = ResetWithoutExpiry(a, p)
                /\ ResetWithoutSingleUse(a, p)' = ResetWithoutSingleUse(a, p)
                /\ ClearCookieOnly(a, p)' = ClearCookieOnly(a, p)
                /\ ClearAttributeMismatch(a, p)' = ClearAttributeMismatch(a, p)
  BY DEF IssueWithoutValidate, RefreshWithoutRevoke, ResetWithoutExpiry, ResetWithoutSingleUse,
         Reset, ClearCookieOnly, ClearAttributeMismatch, Mismatched, Clearings, Finding, Gap, Review
<1>5. \A a, p : DenylistAbsent(a, p)' = DenylistAbsent(a, p)
  BY <1>1, <1>3 DEF DenylistAbsent, Linked, NearPath, Near, Finding, Gap
<1>6. \A a, p : FamilyRevocationAbsent(a, p)' = FamilyRevocationAbsent(a, p)
  BY <1>1, <1>3 DEF FamilyRevocationAbsent, Linked, NearPath, Near, Finding, Gap
<1>7. \A a, p : SlidingWithoutRotation(a, p)' = SlidingWithoutRotation(a, p)
  BY <1>1 DEF SlidingWithoutRotation, Linked, NearPath, Near, Finding, Gap
<1>8. \A a, p : PasswordChangeWithoutRevocation(a, p)' = PasswordChangeWithoutRevocation(a, p)
  BY <1>1 DEF PasswordChangeWithoutRevocation, NearPath, Near, Finding, Gap
<1>9. \A a, p : PathFindings(a, p)' = PathFindings(a, p)
  BY <1>4, <1>5, <1>6, <1>7, <1>8 DEF PathFindings
<1>. QED  BY <1>2, <1>9 DEF LifecycleFindings

LEMMA RulesInitInv == RulesInit => RulesInv
<1>. SUFFICES ASSUME RulesInit PROVE RulesInv
  OBVIOUS
<1>1. LinkInv /\ findings = {} /\ pass = "revoke"
  BY LinkInvInit DEF RulesInit, Init
<1>2. AllJudged
  BY <1>1, HomonymsJudge DEF LinkInv, BaseInv
<1>. QED  BY <1>1, <1>2 DEF RulesInv

LEMMA LinkInvJudged ==
    ASSUME LinkInv, AllJudged, Step
    PROVE  LinkInv' /\ AllJudged' /\ pass' # "classified"
<1>1. LinkInv'
  BY LinkInvNext DEF Next
<1>2. pass' # "classified"
  BY <1>1 DEF LinkInv, Inv, Typed, TypeOK
<1>3. CASE pass' \in {"revoke", "query"}
  <2>1. (BaseInv /\ pass \in {"revoke", "query"} => AllJudged)'
    BY HomonymsJudge, PTL
  <2>. QED  BY <1>1, <1>2, <1>3, <2>1 DEF LinkInv, BaseInv
<1>4. CASE pass' \notin {"revoke", "query"}
  <2>1. Inv /\ Homes /\ Sorted
    BY DEF LinkInv
  <2>2. CASE Keeping
    BY <1>1, <1>2, <2>1, <2>2, KeepingJudged
  <2>3. CASE \E s, t \in Index : Merging(s, t)
    <3>. PICK s \in Index, t \in Index : Merging(s, t)
      BY <2>3
    <3>1. pass' = pass
      BY DEF Merging
    <3>. QED  BY <1>1, <1>2, <1>4, <2>1, <3>1, RefreshMergeJudged
  <2>. QED  BY <2>1, <2>2, <2>3, StepCases DEF Next
<1>. QED  BY <1>3, <1>4

LEMMA RulesNextInv == RulesInv /\ [RulesNext]_<<vars, findings>> => RulesInv'
<1>. SUFFICES ASSUME RulesInv, [RulesNext]_<<vars, findings>> PROVE RulesInv'
  OBVIOUS
<1>1. CASE Step /\ UNCHANGED findings
  <2>1. pass # "classified"
    BY <1>1 DEF Step, LinkRevoke, LinkQuery, Link, EndPass, SkipTarget, OpenTarget, LinkRefresh,
                CloseTarget, SortPaths
  <2>. QED  BY <1>1, <2>1, LinkInvJudged DEF RulesInv
<1>2. CASE Classify
  <2>1. LinkInv /\ AllJudged /\ pass = "linked"
    BY <1>2 DEF Classify, RulesInv
  <2>2. Settled
    BY <2>1, TypedShaped, CaughtAtTheEnd DEF Settled, LinkInv, Inv, Listed, Typed, TypeOK
  <2>3. UNCHANGED <<artifacts, paths, gone, linked>> /\ pass' = "classified"
        /\ findings' = LifecycleFindings
    BY <1>2 DEF Classify
  <2>. QED  BY <2>2, <2>3, SettledKept, SameFindings DEF RulesInv
<1>3. CASE UNCHANGED <<vars, findings>>
  <2>1. UNCHANGED <<artifacts, paths, gone, pass, i, j, linked, findings>>
    BY <1>3 DEF vars
  <2>2. CASE pass = "classified"
    BY <2>1, <2>2, SettledKept, SameFindings DEF RulesInv
  <2>3. CASE pass # "classified"
    <3>1. LinkInv' 
      BY <2>1, <2>3, LinkInvNext DEF RulesInv, vars
    <3>2. AllJudged'
      <4>1. Keeping
        BY <2>1 DEF Keeping, Kept, Quiet, IdsOf
      <4>. QED  BY <2>3, <4>1, KeepingJudged DEF RulesInv, LinkInv
    <3>. QED  BY <2>1, <2>3, <3>1, <3>2 DEF RulesInv
  <2>. QED  BY <2>2, <2>3
<1>. QED  BY <1>1, <1>2, <1>3 DEF RulesNext

\* Until the rules are applied linking keeps its invariant and every path is judged
\* as its names are (AllJudged); afterwards the findings are those of what linking
\* left, where a revocation is told with the tokens near which it was (ToldTogether).
THEOREM RulesInvariance == RulesSpec => []RulesInv
<1>. QED  BY RulesInitInv, RulesNextInv, PTL DEF RulesSpec

-----------------------------------------------------------------------------
(* Findings.                                                               *)

\* A reported path, with the artifact that represents it.
LEMMA ReportedPath ==
    ASSUME Settled, NEW n \in DOMAIN linked
    PROVE  /\ \E m \in Index : Representative(linked[n]) = artifacts[m]
                               /\ artifacts[m].id \in IdsOf(linked[n])
           /\ linked[n].evidence \subseteq ReportEvidence
           /\ linked[n].stamp[2] = linked[n].evidence
           /\ Judged(linked[n])
           /\ \A e \in linked[n].evidence : \E l \in Index :
                    e \in artifacts[l].evidence /\ artifacts[l].name \in NamesOf(linked[n])
           /\ Representative(linked[n]) \in Chosen(linked[n])
<1>1. PICK order : Lists(order)
  BY DEF Settled, Reported
<1>2. linked \in Seq(Path) /\ n \in 1..Len(linked)
  BY DEF Settled
<1>. DEFINE k == order[n]
<1>3. k \in Live /\ linked[n] = paths[k] /\ k \in Index
  BY <1>1, <1>2 DEF Lists, Live
<1>. HIDE DEF k
<1>4. \E m \in Index : Representative(linked[n]) = artifacts[m]
                               /\ artifacts[m].id \in IdsOf(linked[n])
  BY <1>3, ChosenHeld DEF Chosen, Settled
<1>5. \A e \in linked[n].evidence : \E l \in Index :
                    e \in artifacts[l].evidence /\ artifacts[l].name \in NamesOf(linked[n])
  BY <1>3 DEF Settled, Homes, Holds, NamesOf
<1>6. linked[n].evidence \subseteq ReportEvidence
  BY <1>5 DEF ReportEvidence
<1>7. linked[n].stamp[2] = linked[n].evidence
  BY <1>2 DEF Settled, StampCurrent, Facts
<1>. QED  BY <1>3, <1>4, <1>5, <1>6, <1>7 DEF Chosen, Settled, AllJudged

LEMMA InReport ==
    ASSUME Settled, NEW k \in Index, NEW e \in artifacts[k].evidence
    PROVE  \E n \in DOMAIN linked : e \in linked[n].evidence /\ artifacts[k].name \in NamesOf(linked[n])
<1>1. PICK order : Lists(order)
  BY DEF Settled, Reported
<1>2. PICK l \in Live : Holds(paths[l], k)
  BY DEF Settled, Homes
<1>3. PICK n \in 1..Len(linked) : order[n] = l
  BY <1>1 DEF Lists
<1>4. linked[n] = paths[l] /\ n \in DOMAIN linked
  BY <1>1, <1>3 DEF Lists, Settled
<1>5. e \in paths[l].evidence /\ artifacts[k].name \in NamesOf(paths[l])
  BY <1>2 DEF Holds, Members, NamesOf
<1>. QED  BY <1>4, <1>5

LEMMA FindingMade ==
    ASSUME findings = LifecycleFindings, NEW n \in DOMAIN linked,
           NEW f \in PathFindings(Representative(linked[n]), linked[n])
    PROVE  f \in findings
BY DEF LifecycleFindings

\* Where the server revokes nothing, a refresh and the clearing of a session stay
\* findings, whatever merges there were.
LEMMA ClearingTold == RulesInv => ClearingIsNotRevoking
<1>. SUFFICES ASSUME RulesInv, pass = "classified",
                     \A e \in ReportEvidence : ~ServerSide(e),
                     NEW k \in Index, NEW e \in artifacts[k].evidence
              PROVE  /\ (artifacts[k].name \in RefreshName /\ e.stage = "refresh") => Told(RefreshRules, e)
                     /\ (Clears(e) /\ artifacts[k].name \in SessionNames /\ SessionsOnly)
                          => Told({"lifecycle_clear_cookie_only_logout"}, e)
  BY DEF ClearingIsNotRevoking, SessionsOnly
<1>1. Settled /\ findings = LifecycleFindings
  BY DEF RulesInv
<1>2. PICK n \in DOMAIN linked :
        e \in linked[n].evidence /\ artifacts[k].name \in NamesOf(linked[n])
  BY <1>1, InReport
<1>. DEFINE p == linked[n]
            a == Representative(linked[n])
<1>3. Judged(p) /\ a \in Chosen(p) /\ p.evidence \subseteq ReportEvidence
  BY <1>1, ReportedPath
<1>4. \A g \in p.evidence : ~ServerRevoke(g)
  BY <1>3 DEF ServerRevoke, ServerSide
<1>. HIDE DEF p, a
<1>5. ASSUME artifacts[k].name \in RefreshName, e.stage = "refresh"
      PROVE  Told(RefreshRules, e)
  <2>1. IsRefresh(a)
    BY <1>2, <1>3, <1>5 DEF Judged, p
  <2>2. e \in StageOf(p, "refresh")
    BY <1>2, <1>5 DEF StageOf, p
  <2>3. \E f \in RefreshWithoutRevoke(a, p) : f.rule \in RefreshRules /\ e \in f.evidence
    <3>. DEFINE refreshes == StageOf(p, "refresh")
                unrevoked == /\ refreshes # {} /\ \A g \in p.evidence : ~ServerRevoke(g)
                             /\ \/ IsRefresh(a)
                                \/ \E g \in refreshes : g.detector \in {"refresh.handler", "refresh.rotate", "refresh.provider"}
                unsure == \E g \in refreshes : g.dynamic \/ g.detector = "refresh.provider"
    <3>1. unrevoked /\ e \in refreshes
      BY <1>4, <2>1, <2>2
    <3>2. RefreshWithoutRevoke(a, p) =
            Review(unrevoked /\ unsure, "lifecycle_refresh_dynamic_review", a, p, refreshes)
            \cup Gap(unrevoked /\ ~unsure, "lifecycle_refresh_without_revoke", a, p, refreshes)
      BY DEF RefreshWithoutRevoke
    <3>. HIDE DEF refreshes, unrevoked, unsure
    <3>3. CASE unsure
      BY <3>1, <3>2, <3>3 DEF Review, Finding, RefreshRules
    <3>4. CASE ~unsure
      <4>1. Gap(unrevoked /\ ~unsure, "lifecycle_refresh_without_revoke", a, p, refreshes)
              = Finding("lifecycle_refresh_without_revoke", "lifecycle_gap", a, p, refreshes)
        BY <3>1, <3>4 DEF Gap
      <4>. DEFINE f == [rule |-> "lifecycle_refresh_without_revoke", category |-> "lifecycle_gap",
                        artifact |-> a.id, path |-> p.stamp, evidence |-> refreshes]
      <4>2. f \in RefreshWithoutRevoke(a, p)
        BY <3>2, <4>1 DEF Finding
      <4>3. f.rule \in RefreshRules /\ e \in f.evidence
        BY <3>1 DEF RefreshRules
      <4>. HIDE DEF f
      <4>. QED  BY <4>2, <4>3
    <3>. QED  BY <3>3, <3>4
  <2>4. RefreshWithoutRevoke(a, p) \subseteq findings
    BY <1>1, FindingMade DEF PathFindings, a, p
  <2>. QED  BY <2>3, <2>4 DEF Told
<1>6. ASSUME Clears(e), artifacts[k].name \in SessionNames, SessionsOnly
      PROVE  Told({"lifecycle_clear_cookie_only_logout"}, e)
  <2>1. a.type \in SessionLike
    BY <1>2, <1>3, <1>6 DEF Judged, p
  <2>2. e \in Clearings(p)
    BY <1>2, <1>6 DEF Clearings, p
  <2>3. \E f \in ClearCookieOnly(a, p) : f.rule = "lifecycle_clear_cookie_only_logout" /\ e \in f.evidence
    BY <1>4, <2>1, <2>2 DEF ClearCookieOnly, Gap, Finding
  <2>4. ClearCookieOnly(a, p) \subseteq findings
    BY <1>1, FindingMade DEF PathFindings, a, p
  <2>. QED  BY <2>3, <2>4 DEF Told
<1>. QED  BY <1>5, <1>6

\* A finding of the report is made by a rule of its name, about a reported path.
LEMMA FindingFrom ==
    ASSUME RulesInv, NEW f \in findings
    PROVE  /\ Settled
           /\ pass = "classified"
           /\ \E n \in DOMAIN linked : f \in PathFindings(Representative(linked[n]), linked[n])
<1>1. pass = "classified" /\ Settled /\ findings = LifecycleFindings
  BY DEF RulesInv
<1>. QED  BY <1>1 DEF LifecycleFindings

LEMMA RuleOf ==
    ASSUME NEW a, NEW p, NEW f \in PathFindings(a, p)
    PROVE  /\ f.rule = "jwt_denylist_absent_on_logout_review" => f \in DenylistAbsent(a, p)
           /\ f.rule = "refresh_family_revocation_absent_on_logout_review" => f \in FamilyRevocationAbsent(a, p)
           /\ f.rule \in RefreshRules => f \in RefreshWithoutRevoke(a, p)
           /\ f.rule = "lifecycle_cookie_clear_attribute_mismatch" => f \in ClearAttributeMismatch(a, p)
           /\ f.rule = "lifecycle_clear_cookie_only_logout" => f \in ClearCookieOnly(a, p)
BY DEF PathFindings, IssueWithoutValidate, RefreshWithoutRevoke, Reset,
   ResetWithoutExpiry, ResetWithoutSingleUse, ClearCookieOnly, RefreshRules,
   ClearAttributeMismatch, DenylistAbsent, FamilyRevocationAbsent, SlidingWithoutRotation,
   PasswordChangeWithoutRevocation, Finding, Gap, Review

LEMMA LogoutNear == RulesInv => LogoutNearToken
<1>. SUFFICES ASSUME RulesInv, NEW f \in findings, f.rule \in LogoutRules
              PROVE  \E e \in f.evidence : e.detector = "logout.handler"
                                           /\ \E g \in f.path[2] \ {e} : Near(e, g)
  BY DEF LogoutNearToken
<1>1. PICK n \in DOMAIN linked : f \in PathFindings(Representative(linked[n]), linked[n])
  BY FindingFrom
<1>. DEFINE p == linked[n]
            a == Representative(linked[n])
<1>2. /\ Settled /\ Judged(p)
      /\ \E m \in Index : a = artifacts[m] /\ artifacts[m].id \in IdsOf(p)
      /\ p.stamp[2] = p.evidence
      /\ \A e \in p.evidence : \E l \in Index :
              e \in artifacts[l].evidence /\ artifacts[l].name \in NamesOf(p)
  BY FindingFrom, ReportedPath
<1>3. f \in DenylistAbsent(a, p) \/ f \in FamilyRevocationAbsent(a, p)
  BY <1>1, RuleOf DEF LogoutRules
<1>. HIDE DEF p, a
<1>4. /\ a.type = "AccessJwt" \/ IsRefresh(a)
      /\ Logouts(p) # {} /\ Logouts(p) \subseteq f.evidence
      /\ f.path = p.stamp
  BY <1>3 DEF DenylistAbsent, FamilyRevocationAbsent, Gap, Finding, Widened
<1>5. ASSUME NEW e \in p.evidence, e.detector = "logout.handler"
      PROVE  FALSE
  <2>1. PICK l \in Index : e \in artifacts[l].evidence /\ artifacts[l].name \in NamesOf(p)
    BY <1>2
  <2>2. artifacts \in Inputs /\ artifacts[l].name = "logout"
    BY <1>2, <1>5, <2>1, DetectorAssumption DEF Settled, Homes, Index
  <2>3. NamesOf(p) = {"logout"}
    BY <1>2, <2>1, <2>2 DEF Judged
  <2>4. PICK m \in Index : a = artifacts[m] /\ artifacts[m].id \in IdsOf(p)
    BY <1>2
  <2>5. a.name = "logout"
    BY <2>3, <2>4 DEF NamesOf
  <2>6. a.type \notin {"AccessJwt", "RefreshJwt"}
    BY <2>2, <2>4, <2>5, DetectorAssumption DEF Index
  <2>. QED  BY <1>4, <2>5, <2>6 DEF IsRefresh, RefreshName
<1>6. PICK e \in Logouts(p) : e \notin p.evidence /\ e.detector = "logout.handler" /\ NearPath(e, p)
  BY <1>4, <1>5 DEF Logouts, StageOf
<1>. QED  BY <1>2, <1>4, <1>6 DEF NearPath

-----------------------------------------------------------------------------
(* Views.                                                                  *)

\* The walk over the paths only adds.
LEMMA WalkedKeeps ==
    ASSUME NEW area, NEW start, NEW order, Len(order) \in Nat
    PROVE  /\ start.ids \subseteq Walked(area, start, order).ids
           /\ start.evidence \subseteq Walked(area, start, order).evidence
<1>. DEFINE Keeps(k) == start.ids \subseteq k.ids /\ start.evidence \subseteq k.evidence
            n == Len(order)
            Is(g, m) == g = [x \in 0..m |-> IF x = 0 THEN start ELSE Widen(area, g[x - 1], order[x])]
            f == CHOOSE g : Is(g, n)
<1>1. Walked(area, start, order) = f[n]
  BY DEF Walked
<1>2. ASSUME NEW k, NEW p
      PROVE  k.ids \subseteq Widen(area, k, p).ids /\ k.evidence \subseteq Widen(area, k, p).evidence
  BY DEF Widen
<1>. HIDE DEF f
<1>3. \E g : Is(g, n)
  <2>. DEFINE S == {m \in Nat : \E g : Is(g, m)}
  <2>1. 0 \in S
    <3>. DEFINE g == [x \in 0..0 |-> start]
    <3>1. g = [x \in 0..0 |-> IF x = 0 THEN start ELSE Widen(area, g[x - 1], order[x])]
      BY \A x \in 0..0 : x = 0
    <3>. QED  BY <3>1
  <2>2. ASSUME NEW m \in S PROVE m + 1 \in S
    <3>1. PICK g : Is(g, m)
      BY <2>2
    <3>. DEFINE h == [x \in 0..(m + 1) |-> IF x = m + 1 THEN Widen(area, g[m], order[m + 1]) ELSE g[x]]
    <3>2. \A x \in 0..m : h[x] = g[x]
      OBVIOUS
    <3>3. \A x \in 0..(m + 1) : h[x] = IF x = 0 THEN start ELSE Widen(area, h[x - 1], order[x])
      <4>. SUFFICES ASSUME NEW x \in 0..(m + 1)
                    PROVE  h[x] = IF x = 0 THEN start ELSE Widen(area, h[x - 1], order[x])
        OBVIOUS
      <4>1. CASE x = m + 1
        <5>1. h[x] = Widen(area, g[m], order[m + 1]) /\ x - 1 = m /\ x # 0 /\ m \in 0..m
          BY <4>1
        <5>. HIDE DEF h
        <5>. QED  BY <3>2, <4>1, <5>1
      <4>2. CASE x # m + 1
        <5>1. x \in 0..m /\ (x # 0 => x - 1 \in 0..m)
          BY <4>2
        <5>2. g[x] = IF x = 0 THEN start ELSE Widen(area, g[x - 1], order[x])
          BY <3>1, <5>1
        <5>. HIDE DEF h
        <5>. QED  BY <3>2, <5>1, <5>2
      <4>. QED  BY <4>1, <4>2
    <3>4. Is(h, m + 1)
      <4>. DEFINE H == h
      <4>1. H = [x \in 0..(m + 1) |-> H[x]]
        OBVIOUS
      <4>2. \A x \in 0..(m + 1) : H[x] = IF x = 0 THEN start ELSE Widen(area, H[x - 1], order[x])
        BY <3>3
      <4>. HIDE DEF H, h
      <4>3. Is(H, m + 1)
        BY <4>1, <4>2
      <4>. QED  BY <4>3 DEF H
    <3>5. m + 1 \in Nat
      BY <2>2
    <3>. HIDE DEF h, Is
    <3>. QED  BY <3>4, <3>5
  <2>. HIDE DEF S
  <2>3. S = Nat
    <3>1. S \in SUBSET Nat
      BY DEF S
    <3>. QED  BY <2>1, <2>2, <3>1, AllNat
  <2>. QED  BY <2>3 DEF S
<1>4. Is(f, n)
  BY <1>3 DEF f
<1>5. \A m \in 0..n : Keeps(f[m])
  <2>. DEFINE S == {m \in Nat : m \in 0..n => Keeps(f[m])}
  <2>0. \A x \in 0..n : f[x] = IF x = 0 THEN start ELSE Widen(area, f[x - 1], order[x])
    BY <1>4
  <2>1. 0 \in S
    BY <2>0
  <2>2. ASSUME NEW m \in S PROVE m + 1 \in S
    <3>. SUFFICES ASSUME m + 1 \in 0..n PROVE Keeps(f[m + 1])
      BY <2>2
    <3>1. m \in 0..n /\ m + 1 # 0 /\ (m + 1) - 1 = m
      BY <2>2
    <3>2. Keeps(f[m]) /\ f[m + 1] = Widen(area, f[m], order[m + 1])
      BY <2>0, <2>2, <3>1
    <3>. QED  BY <1>2, <3>2
  <2>. HIDE DEF S
  <2>3. S = Nat
    <3>1. S \in SUBSET Nat
      BY DEF S
    <3>. QED  BY <2>1, <2>2, <3>1, AllNat
  <2>. QED  BY <2>3 DEF S
<1>. QED  BY <1>1, <1>5

LEMMA ViewKeeps == RulesInv => ViewKeepsItsFindings
<1>. SUFFICES ASSUME RulesInv, NEW area \in CapabilityArea, NEW order \in {linked, Reverse(linked)},
                     NEW f \in findings, f.rule \in RulesOf[area]
              PROVE  f \in View(area, order).findings
  BY DEF ViewKeepsItsFindings
<1>1. PICK n \in DOMAIN linked : f \in PathFindings(Representative(linked[n]), linked[n])
  BY FindingFrom
<1>. DEFINE p == linked[n]
            a == Representative(linked[n])
            evidence == {e \in ReportEvidence : EvidenceMatches(area, e)}
            ids == {artifacts[k].id : k \in {l \in Index : \/ ArtifactMatches(area, artifacts[l])
                                                          \/ artifacts[l].evidence \cap evidence # {}}}
            collected == UNION {CollectArtifactEvidence(area, artifacts[k]) :
                                    k \in {l \in Index : artifacts[l].id \in ids}}
            widened == Walked(area, [ids |-> ids, evidence |-> evidence \cup collected], order)
<1>2. View(area, order).findings = {g \in findings : FindingMatches(area, g, widened)}
  BY DEF View
<1>3. /\ Settled
      /\ \E m \in Index : a = artifacts[m]
      /\ p.evidence \subseteq ReportEvidence
  BY FindingFrom, ReportedPath
<1>4. Len(order) \in Nat
  <2>1. linked \in Seq(Path)
    BY <1>3 DEF Settled
  <2>2. Len(linked) \in Nat
    BY <2>1, LenProperties
  <2>3. Len(Reverse(linked)) = Len(linked)
    BY <2>1, <2>2 DEF Reverse
  <2>. QED  BY <2>2, <2>3
<1>5. ids \subseteq widened.ids /\ evidence \subseteq widened.evidence
  BY <1>4, WalkedKeeps
<1>. HIDE DEF widened
<1>6. \A m \in Index : ArtifactMatches(area, artifacts[m]) => artifacts[m].id \in ids
  OBVIOUS
<1>. HIDE DEF p, a, ids
<1>7. CASE area = "Logout"
  <2>1. TitleSays(f) \cap {"logout", "revoke"} # {}
    BY <1>7 DEF RulesOf, LogoutRules, TitleSays
  <2>. QED  BY <1>2, <1>7, <2>1 DEF FindingMatches
<1>8. CASE area = "Cookies"
  <2>1. f \in ClearAttributeMismatch(a, p) /\ f.rule = "lifecycle_cookie_clear_attribute_mismatch"
    BY <1>1, <1>8, RuleOf DEF RulesOf, a, p
  <2>2. f.artifact = a.id /\ a.type \in {"SessionCookie", "SignedCookie"}
    BY <2>1 DEF ClearAttributeMismatch, Review, Finding
  <2>3. f.artifact \in ids
    BY <1>3, <1>6, <1>8, <2>2 DEF ArtifactMatches
  <2>4. "cookie" \in TitleSays(f)
    BY <2>1 DEF TitleSays
  <2>. QED  BY <1>2, <1>5, <1>8, <2>3, <2>4 DEF FindingMatches
<1>9. CASE area = "Refresh"
  <2>1. CASE f.rule \in RefreshRules
    <3>1. f \in RefreshWithoutRevoke(a, p)
      BY <1>1, <2>1, RuleOf DEF a, p
    <3>2. f.evidence = StageOf(p, "refresh") /\ StageOf(p, "refresh") # {}
      BY <3>1 DEF RefreshWithoutRevoke, Review, Gap, Finding
    <3>3. f.evidence \subseteq evidence
      BY <1>3, <1>9, <3>2 DEF StageOf, EvidenceMatches
    <3>. QED  BY <1>2, <1>5, <3>2, <3>3 DEF FindingMatches
  <2>2. CASE f.rule = "refresh_family_revocation_absent_on_logout_review"
    <3>1. f \in FamilyRevocationAbsent(a, p)
      BY <1>1, <2>2, RuleOf DEF a, p
    <3>2. f.artifact = a.id /\ IsRefresh(a)
      BY <3>1 DEF FamilyRevocationAbsent, Gap, Finding
    <3>3. f.artifact \in ids
      BY <1>3, <1>6, <1>9, <3>2 DEF ArtifactMatches
    <3>4. "refresh" \in TitleSays(f)
      BY <2>2 DEF TitleSays
    <3>. QED  BY <1>2, <1>5, <1>9, <3>3, <3>4 DEF FindingMatches
  <2>. QED  BY <1>9, <2>1, <2>2 DEF RulesOf
<1>. QED  BY <1>7, <1>8, <1>9 DEF CapabilityArea

-----------------------------------------------------------------------------
(* Tokens that are revoked.                                                *)

LEMMA RevokedNot == RulesInv => RevokedNotReported
<1>. SUFFICES ASSUME RulesInv, NEW f \in findings, f.rule \in RefreshRules,
                     NEW r \in Index, OnlyRevoke(artifacts[r]), artifacts[r].name \in RefreshName,
                     NEW e \in artifacts[r].evidence, ServerSide(e),
                     \A k \in Members(f.path[2]) : /\ artifacts[k].name = artifacts[r].name
                                                  /\ artifacts[k].type = artifacts[r].type
                                                  /\ InContext(artifacts[k], artifacts[r]),
                     \A m \in DOMAIN linked : r \in Members(linked[m].evidence) =>
                        \A k \in Members(linked[m].evidence) :
                            /\ IsRefresh(artifacts[k])
                            /\ artifacts[k].type = artifacts[r].type
              PROVE  FALSE
  BY DEF RevokedNotReported
<1>1. Settled
  BY FindingFrom
<1>2. PICK n \in DOMAIN linked : f \in PathFindings(Representative(linked[n]), linked[n])
  BY FindingFrom
<1>3. PICK order : Lists(order)
  BY <1>1 DEF Settled, Reported
<1>4. linked \in Seq(Path) /\ DOMAIN linked = 1..Len(linked)
  BY <1>1 DEF Settled
<1>. DEFINE p == linked[n]
            t == order[n]
<1>5. t \in Live /\ p = paths[t]
  BY <1>3, <1>4 DEF Lists
<1>6. f.path[2] = p.evidence /\ \A g \in p.evidence : ~ServerRevoke(g)
  <2>1. f \in RefreshWithoutRevoke(Representative(p), p)
    BY <1>2, RuleOf
  <2>2. f.path = p.stamp /\ \A g \in p.evidence : ~ServerRevoke(g)
    BY <2>1 DEF RefreshWithoutRevoke, Review, Gap, Finding
  <2>. QED  BY <1>1, <2>2, ReportedPath
<1>. HIDE DEF p, t
<1>7. RevokedBy(t, r)
  BY <1>5, <1>6 DEF RevokedBy, MembersOf
<1>8. Pure(r)
  <2>. SUFFICES ASSUME NEW h \in Live, r \in MembersOf(h), NEW k \in MembersOf(h)
                PROVE  IsRefresh(artifacts[k]) /\ artifacts[k].type = artifacts[r].type
    BY DEF Pure
  <2>1. PICK m \in 1..Len(linked) : order[m] = h
    BY <1>3 DEF Lists
  <2>2. linked[m] = paths[h]
    BY <1>3, <2>1 DEF Lists
  <2>. QED  BY <1>4, <2>2 DEF MembersOf
<1>9. Holds(paths[t], r)
  BY <1>1, <1>5, <1>7, <1>8 DEF Settled, ToldTogether, Revokes
<1>10. e \in p.evidence
  BY <1>5, <1>9 DEF Holds, Members
<1>11. IsRefresh(artifacts[r]) /\ artifacts \in Inputs
  BY <1>1 DEF IsRefresh, Settled, Homes
<1>12. e.detector \in {"refresh.rotate", "refresh.revoke", "refresh.provider", "refresh.reuse_detection",
                       "logout.token_revoke", "logout.provider_revoke", "logout.cookie_clear"}
  BY <1>11, DetectorAssumption DEF ServerSide, Index
<1>13. ServerRevoke(e)
  BY <1>12 DEF ServerSide, ServerRevoke
<1>. QED  BY <1>6, <1>10, <1>13

\* A path of refresh tokens that the server revokes near each of them is not reported
\* as never revoked (has_revoke_evidence), whatever the revocation was merged into first.
THEOREM RevokedTokensAreNotReported == RulesSpec => []RevokedNotReported
<1>. QED  BY RulesInvariance, RevokedNot, PTL

\* Clearing a refresh or session cookie is client-side evidence only: where the server
\* revokes nothing every refresh, and every clearing of a session, is reported,
\* however revocations, cookies and tokens were merged.
THEOREM ClearingACookieIsNotRevoking == RulesSpec => []ClearingIsNotRevoking
<1>. QED  BY RulesInvariance, ClearingTold, PTL

\* linked_logout_handler_ids: what a logout is held against is near it.
THEOREM LogoutsAreNearTheirTokens == RulesSpec => []LogoutNearToken
<1>. QED  BY RulesInvariance, LogoutNear, PTL

\* filter_report: a view keeps the findings of the rules of its area, wherever their
\* evidence was merged and whatever the order of the paths.
THEOREM ViewsKeepTheirFindings == RulesSpec => []ViewKeepsItsFindings
<1>. QED  BY RulesInvariance, ViewKeeps, PTL
===============================================================================
