------------------------- MODULE ScanPipelineProofs -------------------------
(***************************************************************************)
(* Safety of ScanPipeline for every tree, registry and machine.  First     *)
(* where each thread stands in its chunk, then what the threads account    *)
(* for together: each file has one owner, each panic is counted once, and  *)
(* the report lists every path but those of threads that died.  Last, that *)
(* every scan is one the contract allows: a thread's push settles one path, *)
(* its death loses its chunk, the publication lists what is left, and      *)
(* nothing else is seen.                                                   *)
(***************************************************************************)
EXTENDS ScanRefinement, FiniteSetTheorems, SequenceTheorems, TLAPS

-----------------------------------------------------------------------------
(* The division of the files.                                              *)

LEMMA DivCeilCovers ==
    ASSUME NEW n \in Nat, NEW m \in Nat \ {0}
    PROVE  DivCeil(n, m) \in Nat /\ n <= m * DivCeil(n, m)
<1>1. DivCeil(n, m) \in Nat
  BY DEF DivCeil
<1>2. n <= m * DivCeil(n, m)
  BY DEF DivCeil
<1>. QED  BY <1>1, <1>2

LEMMA WorkerCountType == WorkerCount \in Nat \ {0}
BY PipelineAssumption DEF WorkerCount

\* Chunks are never empty and WorkerCount of them hold every file.
LEMMA ChunkSizeCovers ==
    ASSUME Len(files) \in Nat
    PROVE  /\ ChunkSize \in Nat \ {0}
           /\ Len(files) <= WorkerCount * ChunkSize
<1>. DEFINE c == DivCeil(Len(files), WorkerCount)
<1>1. c \in Nat /\ Len(files) <= WorkerCount * c
  BY WorkerCountType, DivCeilCovers
<1>2. ChunkSize \in Nat \ {0} /\ ChunkSize >= c
  BY <1>1 DEF ChunkSize, AtLeastOne
<1>3. WorkerCount * ChunkSize >= WorkerCount * c
  BY <1>1, <1>2, WorkerCountType
<1>. QED  BY <1>1, <1>2, <1>3, WorkerCountType

\* A thread whose chunk starts inside the list is one of the first
\* WorkerCount, and one of the first Len(files).
LEMMA ThreadBound ==
    ASSUME NEW n \in Nat, NEW m \in Nat, NEW c \in Nat \ {0}, NEW s \in Nat,
           n <= m * c, s * c < n
    PROVE  s < m /\ s < n
<1>1. s < m
  BY SMTT(30)
<1>2. s < n
  BY SMTT(30)
<1>. QED  BY <1>1, <1>2

\* The chunk of a later thread starts after the chunk of an earlier one.
LEMMA ChunksApart ==
    ASSUME NEW c \in Nat \ {0}, NEW v \in Nat, NEW w \in Nat, v < w
    PROVE  v * c <= (w - 1) * c
<1>1. PICK d \in Nat : w - 1 = v + d
  <2>. w - 1 - v \in Nat
    OBVIOUS
  <2>. QED  OBVIOUS
<1>2. (w - 1) * c = v * c + d * c
  BY <1>1
<1>. QED  BY <1>2

-----------------------------------------------------------------------------
(* The sort: ranks are a permutation of the positions.                     *)

LEMMA FunctionIsSeq ==
    ASSUME NEW S, NEW n \in Nat, NEW t \in [1..n -> S]
    PROVE  t \in Seq(S) /\ Len(t) = n
OBVIOUS

LEMMA EntryType ==
    ASSUME NEW s \in Seq(Result), NEW i \in 1..Len(s)
    PROVE  /\ Len(s) \in Nat
           /\ s[i] \in Result
           /\ s[i].path \in Path
           /\ s[i].path \in Int
<1>1. Len(s) \in Nat
  BY LenProperties
<1>2. s[i] \in Result
  BY ElementOfSeq
<1>3. s[i].path \in Path
  BY <1>2 DEF Result
<1>4. s[i].path \in Int
  BY <1>3, PipelineAssumption DEF Path
<1>. QED  BY <1>1, <1>2, <1>3, <1>4

LEMMA RankType ==
    ASSUME NEW s \in Seq(Result), NEW i \in 1..Len(s)
    PROVE  Rank(s, i) \in 1..Len(s)
<1>. DEFINE B == {j \in 1..Len(s) : Precedes(s, j, i)}
<1>0. Len(s) \in Nat /\ s[i].path \in Int
  BY EntryType
<1>1. IsFiniteSet(1..Len(s)) /\ Cardinality(1..Len(s)) = Len(s)
  BY <1>0, FS_Interval
<1>2. IsFiniteSet(B) /\ Cardinality(B) <= Len(s)
  BY <1>1, FS_Subset
<1>3. i \in B
  BY <1>0 DEF Precedes
<1>4. Cardinality(B) # 0
  BY <1>2, <1>3, FS_EmptySet
<1>5. Cardinality(B) \in Nat
  BY <1>2, FS_CardinalityType
<1>. QED  BY <1>0, <1>2, <1>4, <1>5 DEF Rank

\* An entry that comes later in the order has the greater rank.
LEMMA RankMonotone ==
    ASSUME NEW s \in Seq(Result), NEW i \in 1..Len(s), NEW k \in 1..Len(s),
           \/ s[i].path < s[k].path
           \/ s[i].path = s[k].path /\ i < k
    PROVE  Rank(s, i) < Rank(s, k)
<1>. DEFINE B(x) == {j \in 1..Len(s) : Precedes(s, j, x)}
<1>1. \A j \in 1..Len(s) : s[j].path \in Int
  BY EntryType
<1>2. B(i) \subseteq B(k)
  BY <1>1 DEF Precedes
<1>3. k \in B(k) /\ k \notin B(i)
  BY <1>1 DEF Precedes
<1>4. IsFiniteSet(B(k))
  <2>1. IsFiniteSet(1..Len(s))
    BY EntryType, FS_Interval
  <2>. QED  BY <2>1, FS_Subset
<1>5. Cardinality(B(i)) <= Cardinality(B(k)) /\ Cardinality(B(i)) # Cardinality(B(k))
  BY <1>2, <1>3, <1>4, FS_Subset
<1>6. Cardinality(B(i)) \in Nat /\ Cardinality(B(k)) \in Nat
  BY <1>2, <1>4, FS_Subset, FS_CardinalityType
<1>. QED  BY <1>5, <1>6 DEF Rank

LEMMA RankOnto ==
    ASSUME NEW s \in Seq(Result), NEW k \in 1..Len(s)
    PROVE  \E i \in 1..Len(s) : Rank(s, i) = k
<1>. DEFINE D == 1..Len(s)
            f == [i \in D |-> Rank(s, i)]
<1>1. f \in [D -> D]
  BY RankType
<1>2. \A i, j \in D : f[i] = f[j] => i = j
  <2>. SUFFICES ASSUME NEW i \in D, NEW j \in D, i < j
                PROVE  f[i] # f[j]
    OBVIOUS
  <2>1. s[i].path \in Int /\ s[j].path \in Int
    BY EntryType
  <2>2. Rank(s, i) < Rank(s, j) \/ Rank(s, j) < Rank(s, i)
    BY <2>1, RankMonotone
  <2>3. Rank(s, i) \in Int /\ Rank(s, j) \in Int
    BY RankType
  <2>. QED  BY <2>2, <2>3
<1>3. f \in Injection(D, D)
  BY <1>1, <1>2 DEF Injection, IsInjective
<1>4. f \in Surjection(D, D)
  BY <1>3, FS_Interval, FS_Injection
<1>. QED  BY <1>4 DEF Surjection

\* Sorting permutes: the result has the entries of s, in ascending order of
\* path.
LEMMA SortByPathProperties ==
    ASSUME NEW s \in Seq(Result)
    PROVE  /\ SortByPath(s) \in Seq(Result)
           /\ Len(SortByPath(s)) = Len(s)
           /\ \A k \in 1..Len(s) : \E i \in 1..Len(s) : SortByPath(s)[k] = s[i]
           /\ \A i \in 1..Len(s) : \E k \in 1..Len(s) : SortByPath(s)[k] = s[i]
           /\ \A k, l \in 1..Len(s) : k < l =>
                    SortByPath(s)[k].path <= SortByPath(s)[l].path
<1>. DEFINE at(k) == CHOOSE i \in 1..Len(s) : Rank(s, i) = k
            t == [k \in 1..Len(s) |-> s[at(k)]]
<1>1. \A k \in 1..Len(s) : at(k) \in 1..Len(s) /\ Rank(s, at(k)) = k
  BY RankOnto
<1>2. \A k \in 1..Len(s) : t[k] \in Result
  BY <1>1, ElementOfSeq
<1>3. t \in Seq(Result) /\ Len(t) = Len(s)
  <2>1. Len(s) \in Nat
    BY LenProperties
  <2>2. t \in [1..Len(s) -> Result]
    BY <1>2
  <2>. HIDE DEF t
  <2>. QED  BY <2>1, <2>2, FunctionIsSeq
<1>4. \A k \in 1..Len(s) : \E i \in 1..Len(s) : t[k] = s[i]
  BY <1>1
<1>5. ASSUME NEW i \in 1..Len(s)
      PROVE  \E k \in 1..Len(s) : t[k] = s[i]
  <2>. DEFINE k == Rank(s, i)
  <2>1. k \in 1..Len(s) /\ Rank(s, at(k)) = k /\ at(k) \in 1..Len(s)
    BY RankType, <1>1
  <2>2. s[i].path \in Int /\ s[at(k)].path \in Int
    BY <2>1, EntryType
  <2>3. at(k) = i
    <3>. SUFFICES ASSUME at(k) # i PROVE FALSE
      OBVIOUS
    <3>1. Rank(s, i) < Rank(s, at(k)) \/ Rank(s, at(k)) < Rank(s, i)
      BY <2>1, <2>2, RankMonotone
    <3>. QED  BY <3>1, <2>1
  <2>. QED  BY <2>1, <2>3
<1>6. ASSUME NEW k \in 1..Len(s), NEW l \in 1..Len(s), k < l
      PROVE  t[k].path <= t[l].path
  <2>1. s[at(k)].path \in Int /\ s[at(l)].path \in Int
    BY <1>1, EntryType
  <2>. SUFFICES ASSUME s[at(l)].path < s[at(k)].path PROVE FALSE
    BY <2>1
  <2>2. Rank(s, at(l)) < Rank(s, at(k))
    BY <1>1, RankMonotone
  <2>3. Rank(s, at(k)) = k /\ Rank(s, at(l)) = l
    BY <1>1
  <2>. QED  BY <2>2, <2>3, <1>6
<1>. QED  BY <1>3, <1>4, <1>5, <1>6 DEF SortByPath

-----------------------------------------------------------------------------
(* Facts about the chunks that every step uses.                            *)

LEMMA ChunkBounds ==
    ASSUME TypeOK, NEW w \in Worker
    PROVE  /\ Len(files) \in Nat /\ Len(files) <= NumPaths
           /\ ChunkSize \in Nat \ {0}
           /\ ChunkFirst(w) \in Nat \ {0}
           /\ ChunkLast(w) \in Nat
           /\ ChunkLast(w) <= Len(files)
<1>1. Len(files) \in Nat /\ Len(files) <= NumPaths
  BY PipelineAssumption DEF TypeOK
<1>2. ChunkSize \in Nat \ {0}
  BY <1>1, ChunkSizeCovers
<1>3. w \in Nat \ {0}
  BY PipelineAssumption DEF Worker
<1>4. (w - 1) * ChunkSize \in Nat /\ w * ChunkSize \in Nat
  BY <1>2, <1>3
<1>. QED  BY <1>1, <1>2, <1>4 DEF ChunkFirst, ChunkLast

LEMMA ChunksFixed ==
    ASSUME files' = files
    PROVE  /\ ChunkSize' = ChunkSize
           /\ \A w : ChunkFirst(w)' = ChunkFirst(w) /\ ChunkLast(w)' = ChunkLast(w)
<1>1. ChunkSize' = ChunkSize
  BY DEF ChunkSize
<1>. QED  BY <1>1 DEF ChunkFirst, ChunkLast

LEMMA CurrentPathType ==
    ASSUME TypeOK, NEW w \in Worker, next[w] \in 1..Len(files)
    PROVE  CurrentPath(w) \in Path
BY DEF TypeOK, Ascending, CurrentPath

LEMMA SkippedResultType ==
    ASSUME NEW p \in Path, NEW r \in Reason, r # Scanned
    PROVE  /\ SkippedResult(p, r) \in Result
           /\ SkippedResult(p, r).path = p
           /\ AllOrNothing(SkippedResult(p, r))
BY DEF SkippedResult, Result, AllOrNothing

-----------------------------------------------------------------------------
LEMMA InitIInv == Init => IInv
<1>. SUFFICES ASSUME Init PROVE IInv
  OBVIOUS
<1>1. TypeOK
  <2>1. PICK n \in 0..NumPaths :
          /\ files \in Ascending(n)
          /\ \E others \in Ascending(NumPaths - n) :
              discoverySkips = [j \in 1..(NumPaths - n) |->
                                   SkippedResult(others[j], DiscoverySkip)]
    BY DEF Init
  <2>2. n \in Nat /\ NumPaths - n \in Nat
    BY PipelineAssumption
  <2>3. files \in [1..n -> Path] /\ Len(files) = n
    BY <2>1, <2>2, FunctionIsSeq DEF Ascending
  <2>4. discoverySkips \in Seq(Result)
    <3>1. PICK others \in Ascending(NumPaths - n) :
            discoverySkips = [j \in 1..(NumPaths - n) |->
                                 SkippedResult(others[j], DiscoverySkip)]
      BY <2>1
    <3>2. \A j \in 1..(NumPaths - n) : SkippedResult(others[j], DiscoverySkip) \in Result
      BY DEF Ascending, SkippedResult, Result, Reason
    <3>3. discoverySkips \in [1..(NumPaths - n) -> Result]
      BY <3>1, <3>2
    <3>. QED  BY <2>2, <3>3, FunctionIsSeq
  <2>5. unknown \subseteq Path
    BY <2>3 DEF Init
  <2>6. \A S : <<>> \in Seq(S)
    OBVIOUS
  <2>. QED  BY <2>1, <2>2, <2>3, <2>4, <2>5, <2>6, PipelineAssumption
            DEF Init, TypeOK, Worker, Status, NoReport
<1>2. \A w \in Worker : Placed(w) /\ KeptInOrder(w)
  BY PipelineAssumption DEF Init, Placed, KeptInOrder, Worker, BodyStatus
<1>3. NoPartialEvidence
  BY DEF Init, NoPartialEvidence, NoReport
<1>4. \A i \in 1..Len(discoverySkips) : AllOrNothing(discoverySkips[i])
  <2>0. PICK m \in Nat : \E others \in Ascending(m) :
          discoverySkips = [j \in 1..m |-> SkippedResult(others[j], DiscoverySkip)]
    <3>1. \A n \in 0..NumPaths : NumPaths - n \in Nat
      BY PipelineAssumption
    <3>. QED  BY <3>1 DEF Init
  <2>1. PICK others \in Ascending(m) :
          discoverySkips = [j \in 1..m |-> SkippedResult(others[j], DiscoverySkip)]
    BY <2>0
  <2>2. \A j \in 1..m : AllOrNothing(SkippedResult(others[j], DiscoverySkip))
    BY DEF SkippedResult, AllOrNothing, DiscoverySkip, Scanned
  <2>. QED  BY <2>1, <2>2
<1>. QED  BY <1>1, <1>2, <1>3, <1>4 DEF IInv

-----------------------------------------------------------------------------
(* The steps of a thread: one lemma for pushing a result, one for moving   *)
(* within a file, then each action is an instance of one of them.          *)

LEMMA PushStep ==
    ASSUME IInv, NEW w \in Worker, pc[w] # "unspawned", next[w] <= ChunkLast(w),
           NEW r \in Result, r.path = CurrentPath(w), AllOrNothing(r),
           localPanics' \in [Worker -> Nat], Push(w, r)
    PROVE  IInv'
<1>. USE DEF Push
<1>1. TypeOK /\ Placed(w) /\ w <= spawned
  BY DEF IInv, Placed
<1>2. UNCHANGED <<files, discoverySkips, unknown, spawned, joined, results,
                  workerPanicCount, report>>
  BY DEF input, main
<1>3. /\ ChunkFirst(w) \in Nat \ {0} /\ ChunkLast(w) \in Nat
      /\ ChunkLast(w) <= NumPaths
      /\ \A v : ChunkFirst(v)' = ChunkFirst(v) /\ ChunkLast(v)' = ChunkLast(v)
      /\ ChunkSize' = ChunkSize
  BY <1>1, <1>2, ChunkBounds, ChunksFixed, PipelineAssumption
<1>4. next[w] \in ChunkFirst(w)..ChunkLast(w) /\ next[w] \in Nat
  BY <1>1, <1>3 DEF Placed
<1>5. /\ local[w] \in Seq(Result)
      /\ local'[w] = Append(local[w], r)
      /\ next'[w] = next[w] + 1
      /\ pc'[w] = "idle"
      /\ output'[w] = <<>>
  BY <1>1 DEF TypeOK
<1>6. /\ local'[w] \in Seq(Result)
      /\ Len(local'[w]) = Len(local[w]) + 1
      /\ \A k \in 1..Len(local[w]) : local'[w][k] = local[w][k]
      /\ local'[w][Len(local[w]) + 1] = r
      /\ Len(local[w]) \in Nat
  BY <1>5, AppendProperties, LenProperties
<1>7. TypeOK'
  <2>1. next' \in [Worker -> 0..(NumPaths + 1)]
    <3>1. NumPaths \in Nat /\ next \in [Worker -> 0..(NumPaths + 1)]
      BY <1>1, PipelineAssumption DEF TypeOK
    <3>2. next[w] + 1 \in 0..(NumPaths + 1)
      BY <1>3, <1>4, <3>1
    <3>3. next' = [next EXCEPT ![w] = next[w] + 1]
      OBVIOUS
    <3>. QED  BY ONLY <3>1, <3>2, <3>3
  <2>2. local' \in [Worker -> Seq(Result)]
    BY <1>1, <1>5, <1>6 DEF TypeOK
  <2>3. output' \in [Worker -> Seq(Detector)]
    BY <1>1 DEF TypeOK
  <2>4. pc' \in [Worker -> Status] /\ late' \in [Worker -> BOOLEAN]
    BY <1>1 DEF TypeOK, Status
  <2>. QED  BY <1>1, <1>2, <2>1, <2>2, <2>3, <2>4 DEF TypeOK, Ascending
<1>8. Placed(w)' /\ KeptInOrder(w)'
  <2>1. \A k \in 1..Len(local'[w]) :
            local'[w][k].path = files[ChunkFirst(w) + k - 1]
    <3>. SUFFICES ASSUME NEW k \in 1..Len(local'[w])
                  PROVE  local'[w][k].path = files[ChunkFirst(w) + k - 1]
      OBVIOUS
    <3>1. CASE k \in 1..Len(local[w])
      BY <3>1, <1>1, <1>6 DEF Placed
    <3>2. CASE k = Len(local[w]) + 1
      BY <3>2, <1>1, <1>3, <1>4, <1>6 DEF Placed, CurrentPath
    <3>. QED  BY <3>1, <3>2, <1>6
  <2>2. Placed(w)'
    <3>1. Len(local'[w]) = next'[w] - ChunkFirst(w)
      BY <1>1, <1>4, <1>3, <1>5, <1>6 DEF Placed
    <3>2. next'[w] \in ChunkFirst(w)..(ChunkLast(w) + 1)
      BY <1>3, <1>4, <1>5
    <3>3. w <= spawned /\ (w - 1) * ChunkSize < Len(files)
      BY <1>1 DEF Placed
    <3>. QED  BY <1>2, <1>3, <1>5, <2>1, <3>1, <3>2, <3>3 DEF Placed, BodyStatus
  <2>3. KeptInOrder(w)'
    BY <1>5 DEF KeptInOrder, BodyStatus
  <2>. QED  BY <2>2, <2>3
<1>9. \A v \in Worker \ {w} : Placed(v)' /\ KeptInOrder(v)'
  <2>. SUFFICES ASSUME NEW v \in Worker, v # w PROVE Placed(v)' /\ KeptInOrder(v)'
    OBVIOUS
  <2>1. /\ pc'[v] = pc[v] /\ next'[v] = next[v] /\ local'[v] = local[v]
        /\ output'[v] = output[v]
    BY <1>1 DEF TypeOK
  <2>2. Placed(v) /\ KeptInOrder(v)
    BY DEF IInv
  <2>. QED  BY <2>1, <2>2, <1>2, <1>3 DEF Placed, KeptInOrder
<1>10. NoPartialEvidence'
  <2>1. NoPartialEvidence
    BY DEF IInv
  <2>2. \A i \in 1..Len(local'[w]) : AllOrNothing(local'[w][i])
    BY <2>1, <1>6 DEF NoPartialEvidence
  <2>3. \A v \in Worker \ {w} : local'[v] = local[v]
    BY <1>1 DEF TypeOK
  <2>. QED  BY <2>1, <2>2, <2>3, <1>2 DEF NoPartialEvidence
<1>11. \A i \in 1..Len(discoverySkips') : AllOrNothing(discoverySkips'[i])
  BY <1>2 DEF IInv
<1>. QED  BY <1>7, <1>8, <1>9, <1>10, <1>11 DEF IInv

\* A step of thread w that stays within its file, or ends it.
LEMMA MoveStep ==
    ASSUME IInv, NEW w \in Worker, pc[w] # "unspawned",
           UNCHANGED <<input, main, next, local, localPanics>>,
           pc' \in [Worker -> Status], pc'[w] # "unspawned",
           \A v \in Worker \ {w} : pc'[v] = pc[v] /\ output'[v] = output[v],
           pc'[w] \in BodyStatus => next[w] <= ChunkLast(w),
           output' \in [Worker -> Seq(Detector)],
           late' \in [Worker -> BOOLEAN],
           KeptInOrder(w)'
    PROVE  IInv'
<1>1. TypeOK
  BY DEF IInv
<1>2. UNCHANGED <<files, discoverySkips, unknown, spawned, joined, results,
                  workerPanicCount, report, next, local, localPanics>>
  BY DEF input, main
<1>3. /\ \A v : ChunkFirst(v)' = ChunkFirst(v) /\ ChunkLast(v)' = ChunkLast(v)
      /\ ChunkSize' = ChunkSize
  BY <1>2, ChunksFixed
<1>4. TypeOK'
  BY <1>1, <1>2 DEF TypeOK, Ascending
<1>5. \A v \in Worker : Placed(v)'
  <2>1. \A v \in Worker : Placed(v)
    BY DEF IInv
  <2>2. Placed(w)'
    <3>1. Placed(w)
      BY <2>1
    <3>2. /\ UNCHANGED <<files, spawned>>
          /\ next'[w] = next[w] /\ local'[w] = local[w]
          /\ ChunkFirst(w)' = ChunkFirst(w) /\ ChunkLast(w)' = ChunkLast(w)
          /\ ChunkSize' = ChunkSize
      BY <1>2, <1>3
    <3>. QED  BY <3>1, <3>2 DEF Placed
  <2>3. \A v \in Worker \ {w} : Placed(v)'
    BY <1>2, <1>3, <2>1 DEF Placed
  <2>. QED  BY <2>2, <2>3
<1>6. \A v \in Worker : KeptInOrder(v)'
  BY <1>2 DEF IInv, KeptInOrder
<1>7. NoPartialEvidence'
  BY <1>2 DEF IInv, NoPartialEvidence
<1>8. \A i \in 1..Len(discoverySkips') : AllOrNothing(discoverySkips'[i])
  BY <1>2 DEF IInv
<1>. QED  BY <1>4, <1>5, <1>6, <1>7, <1>8 DEF IInv

LEMMA PushActions ==
    ASSUME IInv, NEW w \in Worker,
           \/ SkipUnknown(w) \/ ReadRefused(w) \/ TimeOut(w)
           \/ FinishFile(w)  \/ CatchPanic(w)
    PROVE  IInv'
<1>1. TypeOK /\ Placed(w) /\ KeptInOrder(w)
  BY DEF IInv
<1>2. /\ pc[w] # "unspawned"
      /\ next[w] <= ChunkLast(w)
      /\ localPanics' \in [Worker -> Nat]
  BY <1>1 DEF Placed, BodyStatus, TypeOK,
     SkipUnknown, ReadRefused, TimeOut, FinishFile, CatchPanic
<1>3. CurrentPath(w) \in Path
  <2>1. next[w] \in 1..Len(files)
    BY <1>1, <1>2, ChunkBounds DEF Placed
  <2>. QED  BY <1>1, <2>1, CurrentPathType
<1>4. CASE SkipUnknown(w)
  BY <1>2, <1>3, <1>4, SkippedResultType, PushStep DEF SkipUnknown, Reason, Scanned
<1>5. CASE ReadRefused(w)
  <2>1. PICK reason \in SourceReasons : Push(w, SkippedResult(CurrentPath(w), reason))
    BY <1>5 DEF ReadRefused
  <2>2. reason \in Reason /\ reason # Scanned
    BY PipelineAssumption DEF Reason, Scanned
  <2>. QED  BY <1>2, <1>3, <2>1, <2>2, SkippedResultType, PushStep
<1>6. CASE TimeOut(w)
  BY <1>2, <1>3, <1>6, SkippedResultType, PushStep DEF TimeOut, Reason, Scanned
<1>7. CASE FinishFile(w)
  <2>. DEFINE r == ScannedResult(CurrentPath(w), output[w])
  <2>1. output[w] \in Seq(Detector)
    BY <1>1 DEF TypeOK
  <2>2. r \in Result /\ r.path = CurrentPath(w)
    BY <1>3, <2>1 DEF ScannedResult, Result
  <2>3. AllOrNothing(r)
    BY <1>1, <1>7 DEF FinishFile, KeptInOrder, AllOrNothing, ScannedResult, Detector
  <2>. QED  BY <1>2, <1>7, <2>2, <2>3, PushStep DEF FinishFile
<1>8. CASE CatchPanic(w)
  BY <1>2, <1>3, <1>8, SkippedResultType, PushStep
     DEF CatchPanic, Reason, Scanned, DetectorPanic
<1>. QED  BY <1>4, <1>5, <1>6, <1>7, <1>8

LEMMA MoveActions ==
    ASSUME IInv, NEW w \in Worker,
           \/ StartFile(w)     \/ Expire(w)      \/ ReadDone(w) \/ BeginDetector(w)
           \/ EndDetector(w)   \/ KeepOutput(w)  \/ Die(w)      \/ Return(w)
    PROVE  IInv'
<1>1. TypeOK /\ Placed(w) /\ KeptInOrder(w)
  BY DEF IInv
<1>2. /\ pc \in [Worker -> Status] /\ output \in [Worker -> Seq(Detector)]
      /\ late \in [Worker -> BOOLEAN]
  BY <1>1 DEF TypeOK
<1>3. /\ UNCHANGED <<input, main, next, local, localPanics>>
      /\ pc[w] # "unspawned"
      /\ pc' \in [Worker -> Status]
      /\ pc'[w] # "unspawned"
      /\ \A v \in Worker \ {w} : pc'[v] = pc[v]
      /\ pc'[w] \in BodyStatus => next[w] <= ChunkLast(w)
      /\ late' \in [Worker -> BOOLEAN]
  BY <1>1, <1>2 DEF Placed, Status, BodyStatus, GoTo,
     StartFile, Expire, ReadDone, BeginDetector, EndDetector, KeepOutput, Die, Return
<1>4. CASE KeepOutput(w)
  <2>. DEFINE d == Len(output[w]) + 1
  <2>1. output[w] \in Seq(Detector) /\ Len(output[w]) \in Nat
    BY <1>2, LenProperties
  <2>2. Len(output[w]) < NumDetectors
    BY <1>1, <1>4 DEF KeepOutput, GoTo, KeptInOrder
  <2>3. d \in Detector
    BY <2>1, <2>2, PipelineAssumption DEF Detector
  <2>4. /\ output'[w] = Append(output[w], d)
        /\ output' \in [Worker -> Seq(Detector)]
        /\ \A v \in Worker \ {w} : output'[v] = output[v]
    BY <1>2, <1>4, <2>1, <2>3, AppendProperties DEF KeepOutput
  <2>5. /\ output'[w] \in Seq(Detector)
        /\ Len(output'[w]) = d
        /\ \A i \in 1..d : output'[w][i] = i
    BY <1>1, <2>1, <2>3, <2>4, AppendProperties DEF KeptInOrder
  <2>6. output'[w] = [i \in 1..Len(output'[w]) |-> i]
    BY <2>5, LenProperties
  <2>7. pc'[w] = IF d = NumDetectors THEN "sanitizing" ELSE "before"
    BY <1>2, <1>4 DEF KeepOutput, GoTo
  <2>8. KeptInOrder(w)'
    BY <2>2, <2>1, <2>5, <2>6, <2>7, PipelineAssumption DEF KeptInOrder, BodyStatus
  <2>. QED  BY <1>3, <2>4, <2>8, MoveStep
<1>5. CASE ~KeepOutput(w)
  <2>1. output' = output
    BY <1>5 DEF StartFile, Expire, ReadDone, BeginDetector, EndDetector, Die, Return
  <2>2. KeptInOrder(w)'
    <3>1. CASE ReadDone(w)
      <4>1. output[w] = <<>> /\ Len(output[w]) = 0
        BY <1>1, <3>1 DEF ReadDone, GoTo, KeptInOrder, BodyStatus
      <4>2. pc'[w] = IF NumDetectors = 0 THEN "sanitizing" ELSE "before"
        BY <1>2, <3>1 DEF ReadDone, GoTo
      <4>. QED  BY <1>1, <2>1, <4>1, <4>2, PipelineAssumption
                DEF KeptInOrder, BodyStatus
    <3>2. CASE ~ReadDone(w)
      <4>1. \/ pc'[w] \in {"before", "detecting", "after"} /\
               pc[w] \in {"before", "detecting", "after"}
            \/ pc'[w] = pc[w]
            \/ pc'[w] \in {"reading", "panicked", "returned"} /\ pc[w] = "idle"
        BY <1>2, <1>5, <3>2 DEF GoTo,
           StartFile, Expire, BeginDetector, EndDetector, Die, Return
      <4>. QED  BY <1>1, <2>1, <4>1 DEF KeptInOrder, BodyStatus
    <3>. QED  BY <3>1, <3>2
  <2>. QED  BY <1>2, <1>3, <2>1, <2>2, MoveStep
<1>. QED  BY <1>4, <1>5

-----------------------------------------------------------------------------
(* The steps of the main thread.                                           *)

LEMMA SpawnStep == IInv /\ Spawn => IInv'
<1>. SUFFICES ASSUME IInv, Spawn PROVE IInv'
  OBVIOUS
<1>1. TypeOK /\ \A v \in Worker : Placed(v) /\ KeptInOrder(v)
  BY DEF IInv
<1>2. UNCHANGED <<files, discoverySkips, unknown, late, output, local,
                  localPanics, joined, results, workerPanicCount, report>>
  BY DEF Spawn, input
<1>3. Len(files) \in Nat /\ Len(files) <= NumPaths /\ ChunkSize \in Nat \ {0}
  BY <1>1, ChunkSizeCovers, PipelineAssumption DEF TypeOK
<1>4. spawned \in Nat /\ spawned * ChunkSize < Len(files)
  BY <1>1, PipelineAssumption DEF TypeOK, Spawn, MoreChunks
<1>5. spawned < Len(files)
  BY <1>3, <1>4, ThreadBound, WorkerCountType, ChunkSizeCovers
<1>6. PICK n \in Worker : n = spawned + 1
  BY <1>3, <1>4, <1>5, PipelineAssumption DEF Worker
<1>7. /\ \A v : ChunkFirst(v)' = ChunkFirst(v) /\ ChunkLast(v)' = ChunkLast(v)
      /\ ChunkSize' = ChunkSize
  BY <1>2, ChunksFixed
<1>8. pc[n] = "unspawned"
  BY <1>1, <1>4, <1>6 DEF Placed
<1>9. /\ pc'[n] = "idle" /\ next'[n] = ChunkFirst(n) /\ spawned' = n
      /\ \A v \in Worker \ {n} : pc'[v] = pc[v] /\ next'[v] = next[v]
  BY <1>1, <1>6 DEF TypeOK, Spawn
<1>10. /\ ChunkFirst(n) \in Nat /\ ChunkFirst(n) <= Len(files)
       /\ ChunkFirst(n) <= ChunkLast(n) + 1 /\ (n - 1) * ChunkSize < Len(files)
  <2>1. n - 1 = spawned
    BY <1>4, <1>6
  <2>2. spawned * ChunkSize <= n * ChunkSize /\ spawned * ChunkSize \in Nat
        /\ n * ChunkSize \in Nat
    BY <1>3, <1>4, <1>6
  <2>. QED  BY <1>3, <1>4, <2>1, <2>2 DEF ChunkFirst, ChunkLast
<1>11. TypeOK'
  <2>1. next' \in [Worker -> 0..(NumPaths + 1)]
    BY <1>1, <1>3, <1>6, <1>10, PipelineAssumption DEF TypeOK, Spawn
  <2>2. pc' \in [Worker -> Status]
    BY <1>1 DEF TypeOK, Spawn, Status
  <2>3. spawned' \in 0..NumPaths /\ joined' \in 0..spawned'
    BY <1>1, <1>2, <1>3, <1>4, <1>5, <1>6, <1>9, PipelineAssumption DEF TypeOK
  <2>. QED  BY <1>1, <1>2, <2>1, <2>2, <2>3 DEF TypeOK, Ascending
<1>12. Placed(n)' /\ KeptInOrder(n)'
  <2>1. local[n] = <<>> /\ output[n] = <<>> /\ Len(local[n]) = 0
    BY <1>1, <1>6, <1>8, EmptySeq DEF Placed, KeptInOrder, BodyStatus
  <2>2. Placed(n)'
    BY <1>2, <1>4, <1>7, <1>9, <1>10, <2>1, <1>1, <1>6, ChunkBounds
       DEF Placed, BodyStatus
  <2>3. KeptInOrder(n)'
    BY <1>1, <1>2, <1>6, <1>9, <2>1 DEF KeptInOrder, BodyStatus
  <2>. QED  BY <2>2, <2>3
<1>13. \A v \in Worker \ {n} : Placed(v)' /\ KeptInOrder(v)'
  <2>. SUFFICES ASSUME NEW v \in Worker, v # n PROVE Placed(v)' /\ KeptInOrder(v)'
    OBVIOUS
  <2>1. v \in Nat /\ spawned' = n
    BY <1>9, PipelineAssumption DEF Worker
  <2>2. pc'[v] = pc[v] /\ next'[v] = next[v] /\ local' = local /\ output' = output
    BY <1>2, <1>9
  <2>3. KeptInOrder(v)'
    BY <1>1, <2>2 DEF KeptInOrder
  <2>4. CASE pc[v] = "unspawned"
    <3>1. v > spawned /\ local[v] = <<>>
      BY <1>1, <2>4 DEF Placed
    <3>2. v > spawned'
      BY <3>1, <1>4, <1>6, <2>1
    <3>. QED  BY <2>2, <2>3, <2>4, <3>1, <3>2 DEF Placed
  <2>5. CASE pc[v] # "unspawned"
    <3>1. v <= spawned'
      BY <1>1, <1>4, <1>6, <2>1, <2>5 DEF Placed
    <3>. QED  BY <1>1, <1>2, <1>7, <2>2, <2>3, <2>5, <3>1 DEF Placed
  <2>. QED  BY <2>4, <2>5
<1>14. NoPartialEvidence'
  BY <1>2 DEF IInv, NoPartialEvidence
<1>15. \A i \in 1..Len(discoverySkips') : AllOrNothing(discoverySkips'[i])
  BY <1>2 DEF IInv
<1>. QED  BY <1>11, <1>12, <1>13, <1>14, <1>15 DEF IInv

LEMMA JoinStep == IInv /\ (JoinReturned \/ JoinPanicked) => IInv'
<1>. SUFFICES ASSUME IInv, JoinReturned \/ JoinPanicked PROVE IInv'
  OBVIOUS
<1>. DEFINE w == joined + 1
<1>1. TypeOK /\ NoPartialEvidence
  BY DEF IInv
<1>2. UNCHANGED <<files, discoverySkips, unknown, pc, next, late, output, local,
                  localPanics, spawned, report>>
  BY DEF JoinReturned, JoinPanicked, input, worker
<1>3. w \in Worker /\ joined' = w /\ w \in 0..spawned
  BY <1>1, PipelineAssumption DEF TypeOK, Worker, JoinReturned, JoinPanicked
<1>4. /\ results' \in Seq(Result)
      /\ workerPanicCount' \in Nat
      /\ \A i \in 1..Len(results') : AllOrNothing(results'[i])
  <2>1. CASE JoinReturned
    <3>1. /\ results \in Seq(Result) /\ local[w] \in Seq(Result)
          /\ results' = results \o local[w]
      BY <1>1, <1>3, <2>1 DEF TypeOK, JoinReturned
    <3>2. /\ results' \in Seq(Result)
          /\ Len(results') = Len(results) + Len(local[w])
          /\ \A i \in 1..Len(results') :
                results'[i] = IF i <= Len(results) THEN results[i]
                                                   ELSE local[w][i - Len(results)]
      BY <3>1, ConcatProperties
    <3>3. Len(results) \in Nat /\ Len(local[w]) \in Nat
      BY <3>1, LenProperties
    <3>4. ASSUME NEW i \in 1..Len(results') PROVE AllOrNothing(results'[i])
      <4>1. CASE i <= Len(results)
        BY <1>1, <3>2, <3>3, <4>1 DEF NoPartialEvidence
      <4>2. CASE ~(i <= Len(results))
        <5>1. i - Len(results) \in 1..Len(local[w])
          BY <3>2, <3>3, <4>2
        <5>. QED  BY <1>1, <1>3, <3>2, <4>2, <5>1 DEF NoPartialEvidence
      <4>. QED  BY <4>1, <4>2
    <3>5. workerPanicCount' \in Nat
      BY <1>1, <1>3, <2>1 DEF TypeOK, JoinReturned
    <3>. QED  BY <3>2, <3>4, <3>5
  <2>2. CASE JoinPanicked
    <3>1. results' = results /\ workerPanicCount' = workerPanicCount + 1
      BY <2>2 DEF JoinPanicked
    <3>2. workerPanicCount \in Nat /\ results \in Seq(Result)
      BY <1>1 DEF TypeOK
    <3>. QED  BY <1>1, <3>1, <3>2 DEF NoPartialEvidence
  <2>. QED  BY <2>1, <2>2
<1>5. TypeOK'
  BY <1>1, <1>2, <1>3, <1>4 DEF TypeOK, Ascending
<1>6. NoPartialEvidence'
  BY <1>1, <1>2, <1>4 DEF NoPartialEvidence
<1>7. \A v \in Worker : Placed(v)' /\ KeptInOrder(v)'
  BY <1>2, ChunksFixed DEF IInv, Placed, KeptInOrder
<1>8. \A i \in 1..Len(discoverySkips') : AllOrNothing(discoverySkips'[i])
  BY <1>2 DEF IInv
<1>. QED  BY <1>5, <1>6, <1>7, <1>8 DEF IInv

LEMMA PublishStep == IInv /\ Publish => IInv'
<1>. SUFFICES ASSUME IInv, Publish PROVE IInv'
  OBVIOUS
<1>. DEFINE s == results \o discoverySkips
            t == SortByPath(s)
<1>1. TypeOK /\ NoPartialEvidence
  BY DEF IInv
<1>2. UNCHANGED <<files, discoverySkips, unknown, pc, next, late, output, local,
                  localPanics, spawned, joined, results, workerPanicCount>>
  BY DEF Publish, input, worker
<1>3. results \in Seq(Result) /\ discoverySkips \in Seq(Result)
  BY <1>1 DEF TypeOK
<1>4. /\ s \in Seq(Result)
      /\ \A i \in 1..Len(s) : AllOrNothing(s[i])
  <2>1. /\ s \in Seq(Result)
        /\ Len(s) = Len(results) + Len(discoverySkips)
        /\ \A i \in 1..Len(s) :
              s[i] = IF i <= Len(results) THEN results[i]
                                          ELSE discoverySkips[i - Len(results)]
    BY <1>3, ConcatProperties
  <2>2. Len(results) \in Nat /\ Len(discoverySkips) \in Nat
    BY <1>3, LenProperties
  <2>3. ASSUME NEW i \in 1..Len(s) PROVE AllOrNothing(s[i])
    <3>1. CASE i <= Len(results)
      BY <1>1, <2>1, <2>2, <3>1 DEF NoPartialEvidence
    <3>2. CASE ~(i <= Len(results))
      <4>1. i - Len(results) \in 1..Len(discoverySkips)
        BY <2>1, <2>2, <3>2
      <4>. QED  BY <2>1, <3>2, <4>1 DEF IInv
    <3>. QED  BY <3>1, <3>2
  <2>. QED  BY <2>1, <2>3
<1>5. /\ t \in Seq(Result)
      /\ \A k \in 1..Len(t) : AllOrNothing(t[k])
  <2>1. t \in Seq(Result) /\ Len(t) = Len(s)
    BY <1>4, SortByPathProperties
  <2>2. \A k \in 1..Len(s) : \E i \in 1..Len(s) : t[k] = s[i]
    BY <1>4, SortByPathProperties
  <2>. QED  BY <1>4, <2>1, <2>2
<1>6. report'.published = TRUE /\ report'.files = t
  BY DEF Publish
<1>7. TypeOK'
  BY <1>1, <1>2, <1>5, <1>6 DEF TypeOK, Ascending
<1>8. NoPartialEvidence'
  BY <1>1, <1>2, <1>5, <1>6 DEF NoPartialEvidence
<1>9. \A v \in Worker : Placed(v)' /\ KeptInOrder(v)'
  BY <1>2, ChunksFixed DEF IInv, Placed, KeptInOrder
<1>10. \A i \in 1..Len(discoverySkips') : AllOrNothing(discoverySkips'[i])
  BY <1>2 DEF IInv
<1>. QED  BY <1>7, <1>8, <1>9, <1>10 DEF IInv

-----------------------------------------------------------------------------
(* The theorems.                                                           *)

LEMMA NextIInv == IInv /\ [Next]_vars => IInv'
<1>. SUFFICES ASSUME IInv, [Next]_vars PROVE IInv'
  OBVIOUS
<1>1. CASE MainStep
  BY <1>1, SpawnStep, JoinStep, PublishStep DEF MainStep
<1>2. ASSUME NEW w \in Worker, WorkerStep(w) \/ Expire(w) \/ CatchPanic(w) \/ Die(w)
      PROVE  IInv'
  BY <1>2, PushActions, MoveActions DEF WorkerStep
<1>3. CASE UNCHANGED vars
  <2>1. UNCHANGED <<files, discoverySkips, unknown, pc, next, late, output, local,
                    localPanics, spawned, joined, results, workerPanicCount, report>>
    BY <1>3 DEF vars, input, worker, main
  <2>2. TypeOK' /\ NoPartialEvidence'
    BY <2>1 DEF IInv, TypeOK, Ascending, NoPartialEvidence
  <2>3. \A v \in Worker : Placed(v)' /\ KeptInOrder(v)'
    BY <2>1, ChunksFixed DEF IInv, Placed, KeptInOrder
  <2>. QED  BY <2>1, <2>2, <2>3 DEF IInv
<1>. QED  BY <1>1, <1>2, <1>3 DEF Next, Terminated

THEOREM Invariance == Spec => []IInv
BY InitIInv, NextIInv, PTL DEF Spec

\* The variables of the scan have their types in every state; a thread that
\* works on a file works on one of the list.
THEOREM TypeCorrectness == Spec => []TypeOK
<1>1. IInv => TypeOK
  BY DEF IInv
<1>. QED  BY <1>1, Invariance, PTL

\* A recorded or published result has the output of the whole registry or is
\* a skip without any: run_with_deadline and catch_unwind are all or nothing.
THEOREM EvidenceIsWhole == Spec => []NoPartialEvidence
<1>1. IInv => NoPartialEvidence
  BY DEF IInv
<1>. QED  BY <1>1, Invariance, PTL

\* However many files there are, no more than
\* min(available_parallelism(), MAX_CONCURRENT_FILE_WORKERS) bodies are in
\* memory: the chunk size bounds the threads.
THEOREM InFlightBound == Spec => []BoundedInFlight
<1>1. IInv => BoundedInFlight
  <2>. SUFFICES ASSUME IInv PROVE Cardinality(Scanning) <= WorkerCount
    BY DEF BoundedInFlight
  <2>1. /\ Len(files) \in Nat /\ ChunkSize \in Nat \ {0}
        /\ Len(files) <= WorkerCount * ChunkSize /\ WorkerCount \in Nat
    BY ChunkSizeCovers, WorkerCountType DEF IInv, TypeOK
  <2>2. ASSUME NEW w \in Scanning PROVE w \in 1..WorkerCount
    <3>1. w \in Worker /\ pc[w] # "unspawned" /\ Placed(w)
      BY DEF Scanning, BodyStatus, IInv
    <3>2. w \in Nat \ {0} /\ w - 1 \in Nat /\ (w - 1) * ChunkSize < Len(files)
      BY <3>1, PipelineAssumption DEF Placed, Worker
    <3>3. w - 1 < WorkerCount
      BY <2>1, <3>2, ThreadBound
    <3>. QED  BY <2>1, <3>2, <3>3
  <2>3. /\ IsFiniteSet(1..WorkerCount)
        /\ Cardinality(1..WorkerCount) = WorkerCount
    <3>1. WorkerCount \in Int /\ 1 \in Int /\ ~(1 > WorkerCount) /\ WorkerCount - 1 + 1 = WorkerCount
      BY WorkerCountType
    <3>. QED  BY <3>1, FS_Interval, Zenon
  <2>. QED  BY <2>2, <2>3, FS_Subset
<1>. QED  BY <1>1, Invariance, PTL

-----------------------------------------------------------------------------
(* Counting.                                                               *)

LEMMA OneToOne ==
    ASSUME NEW S, IsFiniteSet(S), NEW T, NEW f \in [S -> T],
           \A x, y \in S : f[x] = f[y] => x = y,
           \A t \in T : \E x \in S : f[x] = t
    PROVE  /\ IsFiniteSet(T)
           /\ Cardinality(T) = Cardinality(S)
<1>1. f \in Bijection(S, T)
  BY DEF Bijection, Injection, IsInjective, Surjection
<1>2. ExistsBijection(S, T)
  BY <1>1 DEF ExistsBijection
<1>. QED  BY <1>2, FS_Bijection

LEMMA DisjointUnion ==
    ASSUME NEW S, IsFiniteSet(S), NEW T, IsFiniteSet(T), S \cap T = {}
    PROVE  /\ IsFiniteSet(S \cup T)
           /\ Cardinality(S \cup T) = Cardinality(S) + Cardinality(T)
<1>1. Cardinality(S \cap T) = 0
  BY FS_EmptySet
<1>2. Cardinality(S) \in Nat /\ Cardinality(T) \in Nat
  BY FS_CardinalityType
<1>3. IsFiniteSet(S \cup T) /\ Cardinality(S \cup T) = Cardinality(S) + Cardinality(T) - Cardinality(S \cap T)
  BY FS_Union
<1>. QED  BY <1>1, <1>2, <1>3

-----------------------------------------------------------------------------
(* The chunks are a partition of the file list.                             *)

LEMMA FilesDistinct ==
    ASSUME TypeOK, NEW i \in 1..Len(files), NEW j \in 1..Len(files)
    PROVE  /\ files[i] \in Path /\ files[i] \in Int
           /\ files[i] = files[j] => i = j
           /\ i < j => files[i] < files[j]
<1>1. files \in Ascending(Len(files)) /\ Len(files) \in Nat
  BY PipelineAssumption DEF TypeOK
<1>2. /\ files[i] \in Path /\ files[j] \in Path
      /\ i < j => files[i] < files[j]
      /\ j < i => files[j] < files[i]
  BY <1>1 DEF Ascending
<1>3. files[i] \in Int /\ files[j] \in Int
  BY <1>2, PipelineAssumption DEF Path
<1>. QED  BY <1>1, <1>2, <1>3

LEMMA EarlierChunk ==
    ASSUME TypeOK, NEW v \in Worker, NEW w \in Worker, v < w,
           NEW i \in ChunkFirst(v)..ChunkLast(v), NEW j \in ChunkFirst(w)..ChunkLast(w)
    PROVE  i < j
<1>1. v \in Nat /\ w \in Nat
  BY PipelineAssumption DEF Worker
<1>2. ChunkSize \in Nat \ {0} /\ Len(files) \in Nat
  BY ChunkBounds
<1>3. v * ChunkSize <= (w - 1) * ChunkSize
  BY <1>1, <1>2, ChunksApart
<1>4. v * ChunkSize \in Nat /\ (w - 1) * ChunkSize \in Int
  BY <1>1, <1>2
<1>5. i <= v * ChunkSize /\ i \in Int
  BY <1>2, <1>4, ChunkBounds DEF ChunkLast
<1>6. (w - 1) * ChunkSize + 1 <= j /\ j \in Int
  BY <1>2, <1>4, ChunkBounds DEF ChunkFirst
<1>. QED  BY <1>3, <1>4, <1>5, <1>6

\* A position is in the chunk of one thread.
LEMMA ChunksDisjoint ==
    ASSUME TypeOK, NEW v \in Worker, NEW w \in Worker, v # w,
           NEW i \in ChunkFirst(v)..ChunkLast(v), NEW j \in ChunkFirst(w)..ChunkLast(w)
    PROVE  i # j
<1>1. v \in Nat /\ w \in Nat
  BY PipelineAssumption DEF Worker
<1>2. v < w \/ w < v
  BY <1>1
<1>3. i < j \/ j < i
  BY <1>2, EarlierChunk
<1>4. i \in Int /\ j \in Int
  BY ChunkBounds
<1>. QED  BY <1>3, <1>4

\* So the files of two chunks are different files.
LEMMA ChunkPathsDisjoint ==
    ASSUME TypeOK, NEW v \in Worker, NEW w \in Worker, v # w
    PROVE  ChunkPaths(v) \cap ChunkPaths(w) = {}
<1>. SUFFICES ASSUME NEW i \in ChunkFirst(v)..ChunkLast(v), NEW j \in ChunkFirst(w)..ChunkLast(w),
                     files[i] = files[j]
              PROVE  FALSE
  BY DEF ChunkPaths
<1>1. i \in 1..Len(files) /\ j \in 1..Len(files)
  BY ChunkBounds
<1>. QED  BY <1>1, FilesDistinct, ChunksDisjoint

\* Once all threads are spawned every file is in a chunk.
LEMMA ChunksCover ==
    ASSUME TypeOK, AllSpawned, NEW i \in 1..Len(files)
    PROVE  \E w \in 1..spawned : i \in ChunkFirst(w)..ChunkLast(w)
<1>. DEFINE c == ChunkSize
            q == (i - 1) \div c
<1>1. c \in Nat \ {0} /\ Len(files) \in Nat /\ spawned \in Nat /\ i \in Nat /\ i >= 1
  BY ChunkSizeCovers, PipelineAssumption DEF TypeOK
<1>2. spawned * c >= Len(files)
  BY DEF AllSpawned
<1>. HIDE DEF c
<1>3. q \in Nat /\ q * c <= i - 1 /\ i - 1 < q * c + c
  BY <1>1, SMTT(30)
<1>. HIDE DEF q
<1>4. q < spawned
  <2>1. q * c < spawned * c
    BY <1>1, <1>2, <1>3, SMTT(30)
  <2>. QED  BY <1>1, <1>3, <2>1, SMTT(30)
<1>. DEFINE w == q + 1
<1>5. w \in 1..spawned /\ (w - 1) * c = q * c /\ w * c = q * c + c
  BY <1>1, <1>3, <1>4
<1>6. i \in ChunkFirst(w)..ChunkLast(w)
  <2>1. ChunkFirst(w) = q * c + 1
    BY <1>5 DEF ChunkFirst, c
  <2>2. ChunkLast(w) = IF q * c + c < Len(files) THEN q * c + c ELSE Len(files)
    BY <1>5 DEF ChunkLast, c
  <2>3. q * c \in Nat
    BY <1>1, <1>3
  <2>. QED  BY <1>1, <1>3, <2>1, <2>2, <2>3
<1>. QED  BY <1>5, <1>6
-----------------------------------------------------------------------------
(* Ownership.                                                              *)

LEMMA SpawnedPlaced ==
    ASSUME IInv, NEW w \in 1..spawned
    PROVE  /\ w \in Worker /\ w \in Nat /\ pc[w] # "unspawned" /\ Placed(w) /\ TypeOK
           /\ spawned \in Nat /\ spawned <= NumPaths
<1>1. TypeOK /\ spawned \in Nat /\ spawned <= NumPaths
  BY PipelineAssumption DEF IInv, TypeOK
<1>2. w \in Worker /\ w \in Nat /\ ~(w > spawned)
  BY <1>1, PipelineAssumption DEF Worker
<1>3. Placed(w)
  BY <1>2 DEF IInv
<1>. QED  BY <1>1, <1>2, <1>3 DEF Placed

\* What a thread has recorded is the first part of its chunk.
LEMMA RecordedPaths ==
    ASSUME IInv, NEW w \in 1..spawned
    PROVE  /\ PathsOf(local[w]) = {files[i] : i \in ChunkFirst(w)..(next[w] - 1)}
           /\ ChunkFirst(w) \in Nat \ {0} /\ ChunkLast(w) \in Nat /\ ChunkLast(w) <= Len(files)
           /\ next[w] \in ChunkFirst(w)..(ChunkLast(w) + 1)
           /\ Len(local[w]) = next[w] - ChunkFirst(w)
<1>1. /\ w \in Worker /\ pc[w] # "unspawned" /\ Placed(w) /\ TypeOK
  BY SpawnedPlaced
<1>2. /\ ChunkFirst(w) \in Nat \ {0} /\ ChunkLast(w) \in Nat /\ ChunkLast(w) <= Len(files)
  BY <1>1, ChunkBounds
<1>3. /\ next[w] \in ChunkFirst(w)..(ChunkLast(w) + 1)
      /\ Len(local[w]) = next[w] - ChunkFirst(w)
      /\ \A k \in 1..Len(local[w]) : local[w][k].path = files[ChunkFirst(w) + k - 1]
  BY <1>1 DEF Placed
<1>4. next[w] \in Int
  BY <1>2, <1>3
<1>5. ASSUME NEW k \in 1..Len(local[w])
      PROVE  ChunkFirst(w) + k - 1 \in ChunkFirst(w)..(next[w] - 1)
  BY <1>2, <1>3, <1>4
<1>6. ASSUME NEW i \in ChunkFirst(w)..(next[w] - 1)
      PROVE  /\ i - ChunkFirst(w) + 1 \in 1..Len(local[w])
             /\ files[i] = local[w][i - ChunkFirst(w) + 1].path
  <2>1. /\ i - ChunkFirst(w) + 1 \in 1..Len(local[w])
        /\ ChunkFirst(w) + (i - ChunkFirst(w) + 1) - 1 = i
    BY <1>2, <1>3, <1>4
  <2>. QED  BY <1>3, <2>1
<1>7. PathsOf(local[w]) \subseteq {files[i] : i \in ChunkFirst(w)..(next[w] - 1)}
  BY <1>3, <1>5 DEF PathsOf
<1>8. {files[i] : i \in ChunkFirst(w)..(next[w] - 1)} \subseteq PathsOf(local[w])
  BY <1>6 DEF PathsOf
<1>. QED  BY <1>2, <1>3, <1>7, <1>8

\* The files of a range of positions are as many as the positions.
LEMMA FilesCount ==
    ASSUME TypeOK, NEW a \in Nat \ {0}, NEW b \in Nat, a <= b + 1, b <= Len(files)
    PROVE  /\ IsFiniteSet({files[i] : i \in a..b})
           /\ Cardinality({files[i] : i \in a..b}) = b - a + 1
<1>. DEFINE f == [i \in a..b |-> files[i]]
            T == {files[i] : i \in a..b}
<1>1. Len(files) \in Nat
  BY PipelineAssumption DEF TypeOK
<1>2. a..b \subseteq 1..Len(files)
  BY <1>1
<1>3. /\ f \in [a..b -> T]
      /\ \A x, y \in a..b : f[x] = f[y] => x = y
      /\ \A t \in T : \E x \in a..b : f[x] = t
  BY <1>2, FilesDistinct
<1>4. IsFiniteSet(a..b) /\ Cardinality(a..b) = b - a + 1
  <2>1. a \in Int /\ b \in Int /\ (a > b => b - a + 1 = 0)
    OBVIOUS
  <2>. QED  BY <2>1, FS_Interval
<1>. HIDE DEF f, T
<1>5. IsFiniteSet(T) /\ Cardinality(T) = Cardinality(a..b)
  BY <1>3, <1>4, OneToOne
<1>. QED  BY <1>4, <1>5 DEF T

LEMMA TouchedCount ==
    ASSUME IInv, NEW w \in 1..spawned
    PROVE  /\ Touched(w) \subseteq ChunkPaths(w)
           /\ Cardinality(Touched(w)) = Len(local[w]) + Cardinality({w} \cap Scanning)
<1>1. /\ PathsOf(local[w]) = {files[i] : i \in ChunkFirst(w)..(next[w] - 1)}
      /\ ChunkFirst(w) \in Nat \ {0} /\ ChunkLast(w) \in Nat /\ ChunkLast(w) <= Len(files)
      /\ next[w] \in ChunkFirst(w)..(ChunkLast(w) + 1)
      /\ Len(local[w]) = next[w] - ChunkFirst(w)
  BY RecordedPaths
<1>2. w \in Worker /\ Placed(w) /\ TypeOK /\ pc[w] # "unspawned"
  BY SpawnedPlaced
<1>3. next[w] \in Nat \ {0} /\ next[w] - 1 \in Nat /\ Len(files) \in Nat
  <2>1. Len(files) \in Nat
    BY <1>2, PipelineAssumption DEF TypeOK
  <2>. QED  BY <1>1, <2>1
<1>4. CASE w \in Scanning
  <2>1. next[w] <= ChunkLast(w)
    BY <1>2, <1>4 DEF Scanning, Placed
  <2>2. {w} \cap Scanning = {w}
    BY <1>4
  <2>3. Touched(w) = {files[i] : i \in ChunkFirst(w)..next[w]}
    <3>1. Touched(w) = {files[i] : i \in ChunkFirst(w)..(next[w] - 1)} \cup {files[next[w]]}
      BY <1>1, <2>2 DEF Touched, CurrentPath
    <3>2. ChunkFirst(w)..next[w] = ChunkFirst(w)..(next[w] - 1) \cup {next[w]}
      BY <1>1, <1>3
    <3>. QED  BY <3>1, <3>2
  <2>4. Cardinality(Touched(w)) = next[w] - ChunkFirst(w) + 1
    <3>1. ChunkFirst(w) <= next[w] + 1 /\ next[w] <= Len(files) /\ next[w] \in Nat
      BY <1>1, <1>3, <2>1
    <3>2. Cardinality({files[i] : i \in ChunkFirst(w)..next[w]}) = next[w] - ChunkFirst(w) + 1
      BY <1>1, <1>2, <3>1, FilesCount
    <3>. QED  BY <2>3, <3>2
  <2>5. Cardinality({w} \cap Scanning) = 1
    BY <2>2, FS_Singleton
  <2>6. ChunkFirst(w)..next[w] \subseteq ChunkFirst(w)..ChunkLast(w)
    BY <1>1, <1>3, <2>1
  <2>. QED  BY <1>1, <2>3, <2>4, <2>5, <2>6 DEF ChunkPaths
<1>5. CASE w \notin Scanning
  <2>1. {w} \cap Scanning = {}
    BY <1>5
  <2>2. Touched(w) = {files[i] : i \in ChunkFirst(w)..(next[w] - 1)}
    BY <1>1, <2>1 DEF Touched
  <2>3. Cardinality(Touched(w)) = next[w] - 1 - ChunkFirst(w) + 1
    <3>1. ChunkFirst(w) <= next[w] - 1 + 1 /\ next[w] - 1 <= Len(files)
      BY <1>1, <1>3
    <3>2. Cardinality({files[i] : i \in ChunkFirst(w)..(next[w] - 1)}) = next[w] - 1 - ChunkFirst(w) + 1
      BY <1>1, <1>2, <1>3, <3>1, FilesCount
    <3>. QED  BY <2>2, <3>2
  <2>4. Cardinality({w} \cap Scanning) = 0
    BY <2>1, FS_EmptySet
  <2>5. ChunkFirst(w)..(next[w] - 1) \subseteq ChunkFirst(w)..ChunkLast(w)
    BY <1>1, <1>3
  <2>. QED  BY <1>1, <1>3, <2>2, <2>3, <2>4, <2>5 DEF ChunkPaths
<1>. QED  BY <1>4, <1>5

\* No two threads record or scan one file, and none does so twice: the chunks of
\* slice::chunks are a partition, and a thread goes through its own in order.
THEOREM FilesAreOwned == Spec => []FileOwnership
<1>1. IInv => FileOwnership
  <2>. SUFFICES ASSUME IInv, NEW v \in 1..spawned, NEW w \in 1..spawned
                PROVE  /\ v # w => Touched(v) \cap Touched(w) = {}
                       /\ Cardinality(Touched(w)) = Len(local[w]) + Cardinality({w} \cap Scanning)
    BY DEF FileOwnership
  <2>1. v \in Worker /\ w \in Worker /\ TypeOK
    BY SpawnedPlaced
  <2>2. Touched(v) \subseteq ChunkPaths(v) /\ Touched(w) \subseteq ChunkPaths(w)
    BY TouchedCount
  <2>3. v # w => ChunkPaths(v) \cap ChunkPaths(w) = {}
    BY <2>1, ChunkPathsDisjoint
  <2>4. Cardinality(Touched(w)) = Len(local[w]) + Cardinality({w} \cap Scanning)
    BY TouchedCount
  <2>. QED  BY <2>2, <2>3, <2>4
<1>. QED  BY <1>1, Invariance, PTL
-----------------------------------------------------------------------------
(* Entries of lists that are joined and sorted.                            *)

\* The entries name different paths.
Distinct(s) == \A i, j \in 1..Len(s) : s[i].path = s[j].path => i = j

LEMMA PanicEntriesFinite ==
    ASSUME NEW s \in Seq(Result)
    PROVE  /\ IsFiniteSet(PanicEntries(s))
           /\ Cardinality(PanicEntries(s)) \in Nat
           /\ Len(s) \in Nat
<1>1. Len(s) \in Nat
  BY LenProperties
<1>2. IsFiniteSet(1..Len(s))
  BY <1>1, FS_Interval
<1>3. IsFiniteSet(PanicEntries(s))
  BY <1>2, FS_Subset DEF PanicEntries
<1>. QED  BY <1>1, <1>3, FS_CardinalityType

LEMMA ConcatEntries ==
    ASSUME NEW s \in Seq(Result), NEW t \in Seq(Result)
    PROVE  /\ s \o t \in Seq(Result)
           /\ Len(s \o t) = Len(s) + Len(t) /\ Len(s) \in Nat /\ Len(t) \in Nat
           /\ \A i \in 1..Len(s) : (s \o t)[i] = s[i]
           /\ \A i \in 1..Len(t) : (s \o t)[Len(s) + i] = t[i]
<1>1. Len(s) \in Nat /\ Len(t) \in Nat
  BY LenProperties
<1>2. /\ s \o t \in Seq(Result)
      /\ Len(s \o t) = Len(s) + Len(t)
      /\ \A i \in 1..Len(s) + Len(t) : (s \o t)[i] = IF i <= Len(s) THEN s[i] ELSE t[i - Len(s)]
  BY ConcatProperties
<1>3. ASSUME NEW i \in 1..Len(s) PROVE (s \o t)[i] = s[i]
  BY <1>1, <1>2
<1>4. ASSUME NEW i \in 1..Len(t) PROVE (s \o t)[Len(s) + i] = t[i]
  <2>1. Len(s) + i \in 1..Len(s) + Len(t) /\ ~(Len(s) + i <= Len(s)) /\ Len(s) + i - Len(s) = i
    BY <1>1
  <2>. QED  BY <1>2, <2>1
<1>. QED  BY <1>1, <1>2, <1>3, <1>4

LEMMA ConcatPanics ==
    ASSUME NEW s \in Seq(Result), NEW t \in Seq(Result)
    PROVE  Cardinality(PanicEntries(s \o t)) = Cardinality(PanicEntries(s)) + Cardinality(PanicEntries(t))
<1>. DEFINE n == Len(s)
            A == PanicEntries(s)
            B == PanicEntries(t)
            C == {n + i : i \in B}
            f == [i \in B |-> n + i]
<1>1. /\ Len(s \o t) = n + Len(t) /\ n \in Nat /\ Len(t) \in Nat
      /\ \A i \in 1..n : (s \o t)[i] = s[i]
      /\ \A i \in 1..Len(t) : (s \o t)[n + i] = t[i]
  BY ConcatEntries
<1>2. IsFiniteSet(A) /\ IsFiniteSet(B)
  BY PanicEntriesFinite
<1>3. \A i \in A : i \in 1..n
  BY DEF PanicEntries
<1>4. \A i \in B : i \in 1..Len(t)
  BY DEF PanicEntries
<1>5. /\ f \in [B -> C]
      /\ \A x, y \in B : f[x] = f[y] => x = y
      /\ \A k \in C : \E x \in B : f[x] = k
  BY <1>1, <1>4
<1>6. PanicEntries(s \o t) = A \cup C
  <2>1. ASSUME NEW k \in PanicEntries(s \o t) PROVE k \in A \cup C
    <3>1. k \in 1..(n + Len(t)) /\ (s \o t)[k].status = DetectorPanic
      BY <1>1 DEF PanicEntries
    <3>2. CASE k <= n
      BY <1>1, <3>1, <3>2 DEF PanicEntries
    <3>3. CASE ~(k <= n)
      <4>1. k - n \in 1..Len(t) /\ n + (k - n) = k
        BY <1>1, <3>1, <3>3
      <4>2. t[k - n].status = DetectorPanic
        BY <1>1, <3>1, <4>1
      <4>. QED  BY <4>1, <4>2 DEF PanicEntries
    <3>. QED  BY <3>2, <3>3
  <2>2. A \subseteq PanicEntries(s \o t)
    BY <1>1 DEF PanicEntries
  <2>3. C \subseteq PanicEntries(s \o t)
    BY <1>1 DEF PanicEntries
  <2>. QED  BY <2>1, <2>2, <2>3
<1>7. A \cap C = {}
  BY <1>1, <1>3, <1>4
<1>. HIDE DEF A, B, C, f
<1>8. IsFiniteSet(C) /\ Cardinality(C) = Cardinality(B)
  BY <1>2, <1>5, OneToOne
<1>9. Cardinality(A \cup C) = Cardinality(A) + Cardinality(C)
  BY <1>2, <1>7, <1>8, DisjointUnion
<1>. QED  BY <1>6, <1>8, <1>9 DEF A, B

LEMMA ConcatPaths ==
    ASSUME NEW s \in Seq(Result), NEW t \in Seq(Result)
    PROVE  /\ PathsOf(s \o t) = PathsOf(s) \cup PathsOf(t)
           /\ Distinct(s) /\ Distinct(t) /\ PathsOf(s) \cap PathsOf(t) = {} => Distinct(s \o t)
<1>. DEFINE n == Len(s)
            u == s \o t
<1>1. /\ Len(u) = n + Len(t) /\ n \in Nat /\ Len(t) \in Nat
      /\ \A i \in 1..n : u[i] = s[i]
      /\ \A i \in 1..Len(t) : u[n + i] = t[i]
  BY ConcatEntries
<1>. HIDE DEF u, n
<1>2. ASSUME NEW k \in 1..Len(u)
      PROVE  \/ k \in 1..n /\ u[k] = s[k]
             \/ k - n \in 1..Len(t) /\ n + (k - n) = k /\ u[k] = t[k - n]
  <2>1. CASE k <= n
    BY <1>1, <2>1
  <2>2. CASE ~(k <= n)
    <3>1. k - n \in 1..Len(t) /\ n + (k - n) = k
      BY <1>1, <2>2
    <3>. QED  BY <1>1, <3>1
  <2>. QED  BY <2>1, <2>2
<1>3. PathsOf(u) \subseteq PathsOf(s) \cup PathsOf(t)
  BY <1>2 DEF PathsOf, n
<1>4. PathsOf(s) \subseteq PathsOf(u)
  <2>1. \A i \in 1..n : i \in 1..Len(u)
    BY <1>1
  <2>. QED  BY <1>1, <2>1 DEF PathsOf, n
<1>5. PathsOf(t) \subseteq PathsOf(u)
  <2>1. \A i \in 1..Len(t) : n + i \in 1..Len(u)
    BY <1>1
  <2>. QED  BY <1>1, <2>1 DEF PathsOf
<1>6. ASSUME Distinct(s), Distinct(t), PathsOf(s) \cap PathsOf(t) = {},
             NEW i \in 1..Len(u), NEW j \in 1..Len(u), u[i].path = u[j].path
      PROVE  i = j
  <2>1. \A k \in 1..n : s[k].path \in PathsOf(s)
    BY DEF PathsOf, n
  <2>2. \A k \in 1..Len(t) : t[k].path \in PathsOf(t)
    BY DEF PathsOf
  <2>3. CASE i \in 1..n /\ u[i] = s[i]
    <3>1. j \in 1..n /\ u[j] = s[j]
      BY <1>2, <1>6, <2>1, <2>2, <2>3
    <3>. QED  BY <1>6, <2>3, <3>1 DEF Distinct, n
  <2>4. CASE i - n \in 1..Len(t) /\ n + (i - n) = i /\ u[i] = t[i - n]
    <3>1. j - n \in 1..Len(t) /\ n + (j - n) = j /\ u[j] = t[j - n]
      BY <1>2, <1>6, <2>1, <2>2, <2>4
    <3>2. i - n = j - n
      BY <1>6, <2>4, <3>1 DEF Distinct
    <3>. QED  BY <2>4, <3>1, <3>2
  <2>. QED  BY <1>2, <2>3, <2>4
<1>. QED  BY <1>3, <1>4, <1>5, <1>6 DEF Distinct, u

\* Sorting moves each entry to the place its rank gives it.
LEMMA SortPlaces ==
    ASSUME NEW s \in Seq(Result), NEW i \in 1..Len(s)
    PROVE  SortByPath(s)[Rank(s, i)] = s[i]
<1>. DEFINE k == Rank(s, i)
            m == CHOOSE j \in 1..Len(s) : Rank(s, j) = k
<1>1. k \in 1..Len(s)
  BY RankType
<1>2. m \in 1..Len(s) /\ Rank(s, m) = k
  OBVIOUS
<1>3. SortByPath(s)[k] = s[m]
  BY <1>1 DEF SortByPath
<1>4. m = i
  <2>. SUFFICES ASSUME m # i PROVE FALSE
    OBVIOUS
  <2>1. s[i].path \in Int /\ s[m].path \in Int
    BY <1>2, EntryType
  <2>. HIDE DEF m
  <2>2. Rank(s, i) < Rank(s, m) \/ Rank(s, m) < Rank(s, i)
    BY <1>2, <2>1, RankMonotone
  <2>. QED  BY <1>1, <1>2, <2>2
<1>. QED  BY <1>3, <1>4

LEMMA SortPanics ==
    ASSUME NEW s \in Seq(Result)
    PROVE  Cardinality(PanicEntries(SortByPath(s))) = Cardinality(PanicEntries(s))
<1>. DEFINE t == SortByPath(s)
            f == [i \in PanicEntries(s) |-> Rank(s, i)]
<1>1. Len(t) = Len(s)
  BY SortByPathProperties
<1>2. ASSUME NEW i \in PanicEntries(s)
      PROVE  Rank(s, i) \in PanicEntries(t)
  BY <1>1, RankType, SortPlaces DEF PanicEntries
<1>3. ASSUME NEW i \in PanicEntries(s), NEW j \in PanicEntries(s), Rank(s, i) = Rank(s, j)
      PROVE  i = j
  <2>1. i \in 1..Len(s) /\ j \in 1..Len(s)
    BY DEF PanicEntries
  <2>2. s[i].path \in Int /\ s[j].path \in Int /\ Rank(s, i) \in Int /\ i \in Int /\ j \in Int
    BY <2>1, EntryType, RankType
  <2>. SUFFICES ASSUME i # j PROVE FALSE
    OBVIOUS
  <2>3. Rank(s, i) < Rank(s, j) \/ Rank(s, j) < Rank(s, i)
    BY <2>1, <2>2, RankMonotone
  <2>. QED  BY <1>3, <2>2, <2>3
<1>4. ASSUME NEW k \in PanicEntries(t)
      PROVE  \E i \in PanicEntries(s) : Rank(s, i) = k
  <2>1. k \in 1..Len(s) /\ t[k].status = DetectorPanic
    BY <1>1 DEF PanicEntries
  <2>2. PICK i \in 1..Len(s) : Rank(s, i) = k
    BY <2>1, RankOnto
  <2>3. t[k] = s[i]
    BY <2>2, SortPlaces
  <2>. QED  BY <2>1, <2>2, <2>3 DEF PanicEntries
<1>5. /\ f \in [PanicEntries(s) -> PanicEntries(t)]
      /\ \A x, y \in PanicEntries(s) : f[x] = f[y] => x = y
      /\ \A k \in PanicEntries(t) : \E x \in PanicEntries(s) : f[x] = k
  BY <1>2, <1>3, <1>4
<1>6. IsFiniteSet(PanicEntries(s))
  BY PanicEntriesFinite
<1>. HIDE DEF f, t
<1>7. Cardinality(PanicEntries(t)) = Cardinality(PanicEntries(s))
  BY <1>5, <1>6, OneToOne
<1>. QED  BY <1>7 DEF t

LEMMA SortPaths ==
    ASSUME NEW s \in Seq(Result), Distinct(s)
    PROVE  /\ PathsOf(SortByPath(s)) = PathsOf(s)
           /\ \A k, l \in 1..Len(s) : k < l => SortByPath(s)[k].path < SortByPath(s)[l].path
<1>. DEFINE t == SortByPath(s)
<1>1. /\ Len(t) = Len(s)
      /\ \A k \in 1..Len(s) : \E i \in 1..Len(s) : t[k] = s[i]
      /\ \A i \in 1..Len(s) : \E k \in 1..Len(s) : t[k] = s[i]
      /\ \A k, l \in 1..Len(s) : k < l => t[k].path <= t[l].path
  BY SortByPathProperties
<1>. HIDE DEF t
<1>2. PathsOf(t) = PathsOf(s)
  <2>1. ASSUME NEW k \in 1..Len(t) PROVE t[k].path \in PathsOf(s)
    <3>1. PICK i \in 1..Len(s) : t[k] = s[i]
      BY <1>1, <2>1
    <3>. QED  BY <3>1 DEF PathsOf
  <2>2. ASSUME NEW i \in 1..Len(s) PROVE s[i].path \in PathsOf(t)
    <3>1. PICK k \in 1..Len(t) : t[k] = s[i]
      BY <1>1, <2>2
    <3>. QED  BY <3>1 DEF PathsOf
  <2>. QED  BY <2>1, <2>2 DEF PathsOf
<1>3. ASSUME NEW k \in 1..Len(s), NEW l \in 1..Len(s), k < l
      PROVE  t[k].path < t[l].path
  <2>1. PICK i \in 1..Len(s) : Rank(s, i) = k
    BY RankOnto
  <2>2. PICK j \in 1..Len(s) : Rank(s, j) = l
    BY RankOnto
  <2>3. t[k] = s[i] /\ t[l] = s[j]
    BY <2>1, <2>2, SortPlaces DEF t
  <2>4. i # j
    BY <1>3, <2>1, <2>2
  <2>5. s[i].path # s[j].path /\ s[i].path \in Int /\ s[j].path \in Int
    BY <2>4, EntryType DEF Distinct
  <2>6. t[k].path <= t[l].path
    BY <1>1, <1>3
  <2>. QED  BY <2>3, <2>5, <2>6
<1>. QED  BY <1>2, <1>3 DEF t

LEMMA PathsCount ==
    ASSUME NEW s \in Seq(Result), Distinct(s)
    PROVE  IsFiniteSet(PathsOf(s)) /\ Cardinality(PathsOf(s)) = Len(s)
<1>. DEFINE f == [i \in 1..Len(s) |-> s[i].path]
            T == PathsOf(s)
<1>1. Len(s) \in Nat
  BY LenProperties
<1>2. IsFiniteSet(1..Len(s)) /\ Cardinality(1..Len(s)) = Len(s)
  BY <1>1, FS_Interval
<1>3. /\ f \in [1..Len(s) -> T]
      /\ \A x, y \in 1..Len(s) : f[x] = f[y] => x = y
      /\ \A p \in T : \E x \in 1..Len(s) : f[x] = p
  BY DEF PathsOf, Distinct
<1>. HIDE DEF f, T
<1>4. IsFiniteSet(T) /\ Cardinality(T) = Cardinality(1..Len(s))
  BY <1>2, <1>3, OneToOne
<1>. QED  BY <1>2, <1>4 DEF T
-----------------------------------------------------------------------------
(* The invariant: what the joined threads have brought.                     *)

FilePaths == {files[i] : i \in 1..Len(files)}
Returned == {w \in 1..joined : pc[w] = "returned"}
Lost == {w \in 1..joined : pc[w] = "panicked"}

\* Discovery's lists: every path is in one of them, once.
InputInv ==
    /\ PathsOf(discoverySkips) = Path \ FilePaths
    /\ Distinct(discoverySkips)
    /\ Len(files) + Len(discoverySkips) = NumPaths
    /\ PanicEntries(discoverySkips) = {}

\* A thread has counted the panics among its results, and has returned at the end
\* of its chunk.
ThreadInv ==
    \A w \in Worker : /\ localPanics[w] = Cardinality(PanicEntries(local[w]))
                      /\ pc[w] = "returned" => next[w] = ChunkLast(w) + 1

\* The joined threads have ended; what they brought is the chunks of those that
\* returned, and the count of panics is that of their entries and of the others.
JoinInv ==
    /\ \A w \in 1..joined : pc[w] \in {"returned", "panicked"}
    /\ joined > 0 => AllSpawned
    /\ workerPanicCount = Cardinality(PanicEntries(results)) + Cardinality(Lost)
    /\ PathsOf(results) = UNION {ChunkPaths(w) : w \in Returned}
    /\ Distinct(results)
    /\ report.published => joined = spawned /\ AllSpawned

AccountInv == InputInv /\ ThreadInv /\ JoinInv /\ PanicAccounting /\ ReportComplete

\* Two disjoint ascending lists of NumPaths paths in all are all of them.
LEMMA InitAccount == Init => AccountInv
<1>. SUFFICES ASSUME Init PROVE AccountInv
  OBVIOUS
<1>0. TypeOK
  BY InitIInv DEF IInv
<1>1. PICK n \in 0..NumPaths :
        /\ files \in Ascending(n)
        /\ \E others \in Ascending(NumPaths - n) :
            /\ \A i \in 1..n, j \in 1..(NumPaths - n) : files[i] # others[j]
            /\ discoverySkips = [j \in 1..(NumPaths - n) |->
                                   SkippedResult(others[j], DiscoverySkip)]
  BY DEF Init
<1>. DEFINE m == NumPaths - n
<1>2. PICK others \in Ascending(m) :
        /\ \A i \in 1..n, j \in 1..m : files[i] # others[j]
        /\ discoverySkips = [j \in 1..m |-> SkippedResult(others[j], DiscoverySkip)]
  BY <1>1
<1>3. n \in Nat /\ m \in Nat /\ NumPaths \in Nat /\ n + m = NumPaths
  BY PipelineAssumption
<1>. HIDE DEF m
<1>4. Len(files) = n
  BY <1>1, <1>3, FunctionIsSeq DEF Ascending
<1>5. Len(discoverySkips) = m /\ discoverySkips \in Seq(Result)
  <2>1. DOMAIN discoverySkips = 1..m
    BY <1>2
  <2>2. discoverySkips \in Seq(Result)
    BY <1>0 DEF TypeOK
  <2>3. DOMAIN discoverySkips = 1..Len(discoverySkips) /\ Len(discoverySkips) \in Nat
    BY <2>2, LenProperties
  <2>. QED  BY <1>3, <2>1, <2>2, <2>3
<1>6. \A j \in 1..m : /\ discoverySkips[j].path = others[j]
                      /\ discoverySkips[j].status = DiscoverySkip
                      /\ others[j] \in Path
  BY <1>2 DEF SkippedResult, Ascending
<1>7. Distinct(discoverySkips)
  <2>1. \A i, j \in 1..m : i < j => others[i] < others[j]
    BY <1>2 DEF Ascending
  <2>2. \A i \in 1..m : others[i] \in Int
    BY <1>6, PipelineAssumption DEF Path
  <2>3. \A i, j \in 1..m : others[i] = others[j] => i = j
    BY <1>3, <2>1, <2>2
  <2>. QED  BY <1>5, <1>6, <2>3 DEF Distinct
<1>8. PathsOf(discoverySkips) = Path \ FilePaths
  <2>. DEFINE S == PathsOf(discoverySkips)
  <2>1. IsFiniteSet(S) /\ Cardinality(S) = m
    BY <1>5, <1>7, PathsCount
  <2>2. IsFiniteSet(FilePaths) /\ Cardinality(FilePaths) = n
    <3>1. 1 <= n + 1 /\ n <= Len(files) /\ n - 1 + 1 = n /\ 1 \in Nat \ {0}
      BY <1>3, <1>4
    <3>2. /\ IsFiniteSet({files[i] : i \in 1..n})
          /\ Cardinality({files[i] : i \in 1..n}) = n - 1 + 1
      BY <1>0, <1>3, <3>1, FilesCount
    <3>. QED  BY <1>4, <3>1, <3>2 DEF FilePaths
  <2>3. S \cap FilePaths = {} /\ S \subseteq Path /\ FilePaths \subseteq Path
    <3>1. \A x \in S : \E j \in 1..m : x = others[j] /\ x \in Path
      BY <1>5, <1>6 DEF PathsOf
    <3>2. \A x \in FilePaths : \E i \in 1..n : x = files[i] /\ x \in Path
      BY <1>0, <1>4, FilesDistinct DEF FilePaths
    <3>. HIDE DEF S
    <3>. QED  BY <1>2, <3>1, <3>2
  <2>. HIDE DEF S
  <2>4. IsFiniteSet(S \cup FilePaths) /\ Cardinality(S \cup FilePaths) = m + n
    BY <2>1, <2>2, <2>3, DisjointUnion
  <2>5. IsFiniteSet(Path) /\ Cardinality(Path) = NumPaths
    BY <1>3, FS_Interval DEF Path
  <2>6. S \cup FilePaths = Path
    BY <1>3, <2>3, <2>4, <2>5, FS_Subset
  <2>. QED  BY <2>3, <2>6 DEF S
<1>9. PanicEntries(discoverySkips) = {}
  BY <1>5, <1>6 DEF PanicEntries, DiscoverySkip, DetectorPanic
<1>10. InputInv
  BY <1>3, <1>4, <1>5, <1>7, <1>8, <1>9 DEF InputInv
<1>11. PanicEntries(<<>>) = {} /\ PathsOf(<<>>) = {} /\ Distinct(<<>>)
  BY EmptySeq DEF PanicEntries, PathsOf, Distinct
<1>12. ThreadInv
  BY <1>11, FS_EmptySet DEF Init, ThreadInv
<1>13. JoinInv
  <2>1. Lost = {} /\ Returned = {}
    BY DEF Lost, Returned, Init
  <2>2. joined = 0 /\ workerPanicCount = 0 /\ results = <<>> /\ ~report.published
    BY DEF Init, NoReport
  <2>3. Cardinality({}) = 0 /\ UNION {ChunkPaths(w) : w \in {}} = {}
    BY FS_EmptySet
  <2>4. UNION {ChunkPaths(w) : w \in Returned} = {} /\ Cardinality(Lost) = 0
    BY <2>1, <2>3
  <2>5. \A w \in 1..joined : pc[w] \in {"returned", "panicked"}
    BY <2>2
  <2>6. PathsOf(results) = {} /\ Distinct(results) /\ Cardinality(PanicEntries(results)) = 0
    BY <1>11, <2>2, <2>3
  <2>. QED  BY <2>2, <2>4, <2>5, <2>6 DEF JoinInv
<1>. QED  BY <1>10, <1>12, <1>13 DEF AccountInv, PanicAccounting, ReportComplete, Init, NoReport
-----------------------------------------------------------------------------
(* The steps of a thread: none is joined, and nothing is published.         *)

LEMMA AppendPanics ==
    ASSUME NEW s \in Seq(Result), NEW r \in Result
    PROVE  Cardinality(PanicEntries(Append(s, r)))
             = IF r.status = DetectorPanic THEN Cardinality(PanicEntries(s)) + 1
                                           ELSE Cardinality(PanicEntries(s))
<1>. DEFINE n == Len(s)
            t == Append(s, r)
<1>1. n \in Nat /\ IsFiniteSet(PanicEntries(s))
  BY PanicEntriesFinite
<1>2. /\ Len(t) = n + 1
      /\ \A i \in 1..n : t[i] = s[i]
      /\ t[n + 1] = r
  BY AppendProperties
<1>3. n + 1 \notin PanicEntries(s)
  BY <1>1 DEF PanicEntries
<1>. HIDE DEF t
<1>4. CASE r.status = DetectorPanic
  <2>1. PanicEntries(t) = PanicEntries(s) \cup {n + 1}
    BY <1>1, <1>2, <1>4 DEF PanicEntries
  <2>2. Cardinality(PanicEntries(t)) = Cardinality(PanicEntries(s)) + 1
    BY <1>1, <1>3, <2>1, FS_AddElement
  <2>. QED  BY <1>4, <2>2 DEF t
<1>5. CASE r.status # DetectorPanic
  <2>1. PanicEntries(t) = PanicEntries(s)
    BY <1>1, <1>2, <1>5 DEF PanicEntries
  <2>. QED  BY <1>5, <2>1 DEF t
<1>. QED  BY <1>4, <1>5

Running(w) == pc[w] \notin {"unspawned", "returned", "panicked"}

LEMMA RunningUnjoined ==
    ASSUME IInv, AccountInv, NEW w \in Worker, Running(w)
    PROVE  w \notin 1..joined /\ ~report.published
<1>1. /\ \A v \in 1..joined : pc[v] \in {"returned", "panicked"}
      /\ report.published => joined = spawned
  BY DEF AccountInv, JoinInv
<1>2. w \notin 1..joined
  BY <1>1 DEF Running
<1>3. w \in 1..spawned
  <2>1. Placed(w)
    BY DEF IInv
  <2>. QED  BY <2>1, PipelineAssumption DEF Placed, Running, Worker
<1>. QED  BY <1>1, <1>2, <1>3

LEMMA InputFixed ==
    ASSUME InputInv, UNCHANGED <<files, discoverySkips>>
    PROVE  InputInv'
<1>1. /\ PathsOf(discoverySkips)' = PathsOf(discoverySkips)
      /\ PanicEntries(discoverySkips)' = PanicEntries(discoverySkips)
      /\ Distinct(discoverySkips)' = Distinct(discoverySkips)
  BY DEF PathsOf, PanicEntries, Distinct
<1>2. FilePaths' = FilePaths /\ Len(files)' = Len(files) /\ Len(discoverySkips)' = Len(discoverySkips)
  BY DEF FilePaths
<1>. QED  BY <1>1, <1>2 DEF InputInv, Path

LEMMA ThreadStep ==
    ASSUME IInv, AccountInv, NEW w \in Worker, Running(w), UNCHANGED <<input, main>>,
           \A v \in Worker \ {w} : /\ pc'[v] = pc[v] /\ next'[v] = next[v] /\ local'[v] = local[v]
                                  /\ localPanics'[v] = localPanics[v],
           localPanics'[w] = Cardinality(PanicEntries(local'[w])),
           pc'[w] = "returned" => next'[w] = ChunkLast(w) + 1
    PROVE  AccountInv'
<1>1. UNCHANGED <<files, discoverySkips, spawned, joined, results, workerPanicCount, report>>
  BY DEF input, main
<1>2. /\ ChunkSize' = ChunkSize
      /\ \A v : ChunkFirst(v)' = ChunkFirst(v) /\ ChunkLast(v)' = ChunkLast(v)
  BY <1>1, ChunksFixed
<1>3. w \notin 1..joined /\ ~report.published
  BY RunningUnjoined
<1>4. 1..joined \subseteq Worker
  <2>1. TypeOK
    BY DEF IInv
  <2>. QED  BY <2>1, PipelineAssumption DEF TypeOK, Worker
<1>5. InputInv'
  BY <1>1, InputFixed DEF AccountInv
<1>6. ThreadInv'
  <2>. SUFFICES ASSUME NEW v \in Worker
                PROVE  /\ localPanics'[v] = Cardinality(PanicEntries(local'[v]))
                       /\ pc'[v] = "returned" => next'[v] = ChunkLast(v) + 1
    BY <1>2 DEF ThreadInv, PanicEntries
  <2>1. CASE v = w
    BY <2>1
  <2>2. CASE v # w
    BY <2>2 DEF AccountInv, ThreadInv
  <2>. QED  BY <2>1, <2>2
<1>7. JoinInv'
  <2>1. \A v \in 1..joined : pc'[v] = pc[v]
    BY <1>3, <1>4
  <2>2. Lost' = Lost /\ Returned' = Returned
    BY <1>1, <2>1 DEF Lost, Returned
  <2>3. \A v : ChunkPaths(v)' = ChunkPaths(v)
    BY <1>1, <1>2 DEF ChunkPaths
  <2>4. AllSpawned' = AllSpawned
    BY <1>1, <1>2 DEF AllSpawned
  <2>5. JoinInv
    BY DEF AccountInv
  <2>6. (UNION {ChunkPaths(v) : v \in Returned})' = UNION {ChunkPaths(v) : v \in Returned}
    BY <2>2, <2>3
  <2>7. PathsOf(results)' = PathsOf(results) /\ PanicEntries(results)' = PanicEntries(results)
        /\ Distinct(results)' = Distinct(results)
    BY <1>1 DEF PathsOf, PanicEntries, Distinct
  <2>. QED  BY <1>1, <1>3, <2>1, <2>2, <2>4, <2>5, <2>6, <2>7 DEF JoinInv
<1>8. PanicAccounting' /\ ReportComplete'
  BY <1>1, <1>3 DEF PanicAccounting, ReportComplete
<1>. QED  BY <1>5, <1>6, <1>7, <1>8 DEF AccountInv

LEMMA PushAccount ==
    ASSUME IInv, AccountInv, NEW w \in Worker, Running(w), NEW r \in Result, Push(w, r),
           localPanics' = IF r.status = DetectorPanic
                          THEN [localPanics EXCEPT ![w] = @ + 1] ELSE localPanics
    PROVE  AccountInv'
<1>1. /\ local \in [Worker -> Seq(Result)] /\ next \in [Worker -> 0..(NumPaths + 1)]
      /\ pc \in [Worker -> Status] /\ localPanics \in [Worker -> Nat]
  BY DEF IInv, TypeOK
<1>2. /\ local'[w] = Append(local[w], r) /\ local[w] \in Seq(Result)
      /\ pc'[w] = "idle"
      /\ \A v \in Worker \ {w} : /\ pc'[v] = pc[v] /\ next'[v] = next[v] /\ local'[v] = local[v]
                                 /\ localPanics'[v] = localPanics[v]
  BY <1>1 DEF Push
<1>3. localPanics[w] = Cardinality(PanicEntries(local[w]))
  BY DEF AccountInv, ThreadInv
<1>4. localPanics'[w] = Cardinality(PanicEntries(local'[w]))
  BY <1>1, <1>2, <1>3, AppendPanics
<1>5. UNCHANGED <<input, main>>
  BY DEF Push
<1>. QED  BY <1>2, <1>4, <1>5, ThreadStep

LEMMA PushActionsAccount ==
    ASSUME IInv, AccountInv, NEW w \in Worker,
           \/ SkipUnknown(w) \/ ReadRefused(w) \/ TimeOut(w)
           \/ FinishFile(w)  \/ CatchPanic(w)
    PROVE  AccountInv'
<1>1. TypeOK /\ Placed(w) /\ KeptInOrder(w)
  BY DEF IInv
<1>2. Running(w) /\ next[w] <= ChunkLast(w)
  BY <1>1 DEF Running, Placed, BodyStatus, SkipUnknown, ReadRefused, TimeOut, FinishFile, CatchPanic
<1>3. CurrentPath(w) \in Path
  <2>1. next[w] \in 1..Len(files)
    BY <1>1, <1>2, ChunkBounds DEF Placed, Running
  <2>. QED  BY <1>1, <2>1, CurrentPathType
<1>4. ASSUME NEW reason \in Reason, reason # Scanned
      PROVE  /\ SkippedResult(CurrentPath(w), reason) \in Result
             /\ SkippedResult(CurrentPath(w), reason).status = reason
  BY <1>3, <1>4, SkippedResultType DEF SkippedResult
<1>5. CASE SkipUnknown(w)
  BY <1>2, <1>4, <1>5, PushAccount DEF SkipUnknown, Reason, Scanned, DetectorPanic
<1>6. CASE ReadRefused(w)
  <2>1. PICK reason \in SourceReasons : Push(w, SkippedResult(CurrentPath(w), reason))
    BY <1>6 DEF ReadRefused
  <2>2. reason \in Reason /\ reason # Scanned /\ reason # DetectorPanic
    BY PipelineAssumption DEF Reason, Scanned, DetectorPanic
  <2>3. localPanics' = localPanics
    BY <1>6 DEF ReadRefused
  <2>. QED  BY <1>2, <1>4, <2>1, <2>2, <2>3, PushAccount
<1>7. CASE TimeOut(w)
  BY <1>2, <1>4, <1>7, PushAccount DEF TimeOut, Reason, Scanned, DetectorPanic
<1>8. CASE FinishFile(w)
  <2>. DEFINE r == ScannedResult(CurrentPath(w), output[w])
  <2>1. output[w] \in Seq(Detector)
    BY <1>1 DEF TypeOK
  <2>2. r \in Result /\ r.status # DetectorPanic
    BY <1>3, <2>1 DEF ScannedResult, Result, Scanned, DetectorPanic
  <2>3. Push(w, r) /\ localPanics' = localPanics
    BY <1>8 DEF FinishFile
  <2>. QED  BY <1>2, <2>2, <2>3, PushAccount
<1>9. CASE CatchPanic(w)
  BY <1>2, <1>4, <1>9, PushAccount DEF CatchPanic, Reason, Scanned, DetectorPanic
<1>. QED  BY <1>5, <1>6, <1>7, <1>8, <1>9

LEMMA MoveActionsAccount ==
    ASSUME IInv, AccountInv, NEW w \in Worker,
           \/ StartFile(w)     \/ Expire(w)      \/ ReadDone(w) \/ BeginDetector(w)
           \/ EndDetector(w)   \/ KeepOutput(w)  \/ Die(w)      \/ Return(w)
    PROVE  AccountInv'
<1>1. TypeOK /\ Placed(w)
  BY DEF IInv
<1>2. /\ UNCHANGED <<input, main, next, local, localPanics>>
      /\ Running(w)
      /\ \A v \in Worker \ {w} : pc'[v] = pc[v]
      /\ pc'[w] = "returned" => Return(w)
  BY <1>1 DEF TypeOK, Running, GoTo,
     StartFile, Expire, ReadDone, BeginDetector, EndDetector, KeepOutput, Die, Return
<1>3. localPanics'[w] = Cardinality(PanicEntries(local'[w]))
  BY <1>2 DEF AccountInv, ThreadInv
<1>4. ASSUME Return(w) PROVE next'[w] = ChunkLast(w) + 1
  <2>1. next[w] > ChunkLast(w) /\ next[w] \in ChunkFirst(w)..(ChunkLast(w) + 1)
    BY <1>1, <1>2, <1>4 DEF Return, Placed, Running
  <2>2. ChunkFirst(w) \in Nat /\ ChunkLast(w) \in Nat
    BY <1>1, ChunkBounds
  <2>. QED  BY <1>2, <2>1, <2>2
<1>. QED  BY <1>2, <1>3, <1>4, ThreadStep
-----------------------------------------------------------------------------
(* The steps of the main thread.                                           *)

\* What does not change when only the main thread's own variables do.
LEMMA MainFixed ==
    ASSUME UNCHANGED <<input, worker, spawned>>
    PROVE  /\ \A v : ChunkPaths(v)' = ChunkPaths(v)
           /\ AllSpawned' = AllSpawned
           /\ InputInv => InputInv'
           /\ ThreadInv => ThreadInv'
           /\ Panicked' = Panicked
<1>1. UNCHANGED <<files, discoverySkips, pc, next, local, localPanics, spawned>>
  BY DEF input, worker
<1>2. /\ ChunkSize' = ChunkSize
      /\ \A v : ChunkFirst(v)' = ChunkFirst(v) /\ ChunkLast(v)' = ChunkLast(v)
  BY <1>1, ChunksFixed
<1>3. \A v : ChunkPaths(v)' = ChunkPaths(v)
  BY <1>1, <1>2 DEF ChunkPaths
<1>4. AllSpawned' = AllSpawned
  BY <1>1, <1>2 DEF AllSpawned
<1>5. InputInv => InputInv'
  BY <1>1, InputFixed
<1>6. ThreadInv => ThreadInv'
  BY <1>1, <1>2 DEF ThreadInv, PanicEntries
<1>7. Panicked' = Panicked
  BY <1>1 DEF Panicked, Worker
<1>. QED  BY <1>3, <1>4, <1>5, <1>6, <1>7

LEMMA SpawnAccount == IInv /\ AccountInv /\ Spawn => AccountInv'
<1>. SUFFICES ASSUME IInv, AccountInv, Spawn PROVE AccountInv'
  OBVIOUS
<1>1. /\ UNCHANGED <<files, discoverySkips, local, localPanics, joined, results, workerPanicCount, report>>
      /\ pc' = [pc EXCEPT ![spawned + 1] = "idle"]
      /\ next' = [next EXCEPT ![spawned + 1] = ChunkFirst(spawned + 1)]
      /\ MoreChunks
  BY DEF Spawn, input
<1>2. TypeOK /\ InputInv /\ ThreadInv /\ JoinInv
  BY DEF IInv, AccountInv
<1>3. ~AllSpawned
  <2>1. /\ ChunkSize \in Nat \ {0} /\ Len(files) \in Nat /\ spawned \in Nat
    BY <1>2, ChunkSizeCovers, PipelineAssumption DEF TypeOK
  <2>2. spawned * ChunkSize \in Nat
    BY <2>1
  <2>. QED  BY <1>1, <2>1, <2>2 DEF MoreChunks, AllSpawned
<1>4. joined = 0 /\ ~report.published
  <2>1. joined \in Nat
    BY <1>2, PipelineAssumption DEF TypeOK
  <2>. QED  BY <1>2, <1>3, <2>1 DEF JoinInv
<1>5. InputInv'
  BY <1>1, <1>2, InputFixed
<1>6. ThreadInv'
  <2>. SUFFICES ASSUME NEW v \in Worker
                PROVE  /\ localPanics'[v] = Cardinality(PanicEntries(local'[v]))
                       /\ pc'[v] = "returned" => next'[v] = ChunkLast(v) + 1
    BY <1>1, ChunksFixed DEF ThreadInv, PanicEntries
  <2>1. pc'[v] = "returned" => pc[v] = "returned" /\ next'[v] = next[v]
    BY <1>1, <1>2 DEF TypeOK
  <2>. QED  BY <1>1, <1>2, <2>1 DEF ThreadInv
<1>7. JoinInv'
  <2>1. 1..joined = {} /\ 1..joined' = {}
    BY <1>1, <1>4
  <2>2. Lost = {} /\ Lost' = {} /\ Returned = {} /\ Returned' = {}
    BY <2>1 DEF Lost, Returned
  <2>3. UNION {ChunkPaths(v) : v \in Returned} = {}
    BY <2>2
  <2>4. (UNION {ChunkPaths(v) : v \in Returned})' = {}
    BY <2>2
  <2>5. /\ PathsOf(results)' = PathsOf(results) /\ PanicEntries(results)' = PanicEntries(results)
        /\ Distinct(results)' = Distinct(results)
    BY <1>1 DEF PathsOf, PanicEntries, Distinct
  <2>. QED  BY <1>1, <1>2, <1>4, <2>1, <2>2, <2>3, <2>4, <2>5 DEF JoinInv
<1>8. PanicAccounting' /\ ReportComplete'
  BY <1>1, <1>4 DEF PanicAccounting, ReportComplete
<1>. QED  BY <1>5, <1>6, <1>7, <1>8 DEF AccountInv

LEMMA PlaceInList ==
    ASSUME NEW first \in Nat \ {0}, NEW last \in Nat, NEW n \in Nat, last <= n,
           NEW k \in 1..(last + 1 - first)
    PROVE  first + k - 1 \in 1..n
OBVIOUS

\* A thread that has returned has recorded its whole chunk, each file once.
LEMMA ReturnedPaths ==
    ASSUME IInv, ThreadInv, NEW w \in 1..spawned, pc[w] = "returned"
    PROVE  PathsOf(local[w]) = ChunkPaths(w) /\ Distinct(local[w])
<1>1. w \in Worker /\ Placed(w) /\ TypeOK
  BY SpawnedPlaced
<1>2. /\ PathsOf(local[w]) = {files[i] : i \in ChunkFirst(w)..(next[w] - 1)}
      /\ ChunkFirst(w) \in Nat \ {0} /\ ChunkLast(w) \in Nat /\ ChunkLast(w) <= Len(files)
      /\ Len(local[w]) = next[w] - ChunkFirst(w)
  BY RecordedPaths
<1>3. next[w] - 1 = ChunkLast(w) /\ Len(local[w]) = ChunkLast(w) + 1 - ChunkFirst(w)
  BY <1>1, <1>2 DEF ThreadInv
<1>4. PathsOf(local[w]) = ChunkPaths(w)
  BY <1>2, <1>3 DEF ChunkPaths
<1>5. Distinct(local[w])
  <2>. SUFFICES ASSUME NEW i \in 1..Len(local[w]), NEW j \in 1..Len(local[w]),
                       local[w][i].path = local[w][j].path
                PROVE  i = j
    BY DEF Distinct
  <2>1. /\ local[w][i].path = files[ChunkFirst(w) + i - 1]
        /\ local[w][j].path = files[ChunkFirst(w) + j - 1]
    BY <1>1 DEF Placed, ThreadInv
  <2>2. Len(files) \in Nat
    BY <1>1, PipelineAssumption DEF TypeOK
  <2>3. ChunkFirst(w) + i - 1 \in 1..Len(files) /\ ChunkFirst(w) + j - 1 \in 1..Len(files)
    <3>1. Len(local[w]) = ChunkLast(w) + 1 - ChunkFirst(w)
      BY <1>3
    <3>. QED  BY <1>2, <2>2, <3>1, PlaceInList
  <2>4. ChunkFirst(w) + i - 1 = ChunkFirst(w) + j - 1
    BY <1>1, <2>1, <2>3, FilesDistinct
  <2>. QED  BY <1>2, <1>3, <2>4
<1>. QED  BY <1>4, <1>5

LEMMA JoinAccount == IInv /\ AccountInv /\ (JoinReturned \/ JoinPanicked) => AccountInv'
<1>. SUFFICES ASSUME IInv, AccountInv, JoinReturned \/ JoinPanicked PROVE AccountInv'
  OBVIOUS
<1>. DEFINE w == joined + 1
<1>1. /\ UNCHANGED <<input, worker, spawned, report>>
      /\ AllSpawned /\ joined < spawned /\ joined' = w
  BY DEF JoinReturned, JoinPanicked
<1>2. TypeOK /\ InputInv /\ ThreadInv /\ JoinInv
  BY DEF IInv, AccountInv
<1>3. /\ joined \in Nat /\ spawned \in Nat /\ w \in 1..spawned /\ w \notin 1..joined
      /\ 1..w = 1..joined \cup {w} /\ spawned <= NumPaths
  BY <1>1, <1>2, PipelineAssumption DEF TypeOK
<1>. HIDE DEF w
<1>4. 1..joined \subseteq Worker /\ w \in Worker
  BY <1>3, PipelineAssumption DEF Worker
<1>5. /\ \A v : ChunkPaths(v)' = ChunkPaths(v)
      /\ AllSpawned' = AllSpawned
      /\ InputInv' /\ ThreadInv'
  BY <1>1, <1>2, MainFixed
<1>6. ~report.published
  BY <1>1, <1>2, <1>3 DEF JoinInv
<1>7. pc' = pc /\ 1..joined' = 1..joined \cup {w}
  BY <1>1, <1>3 DEF worker
<1>8. /\ \A v \in 1..joined : pc[v] \in {"returned", "panicked"}
      /\ workerPanicCount = Cardinality(PanicEntries(results)) + Cardinality(Lost)
      /\ PathsOf(results) = UNION {ChunkPaths(v) : v \in Returned}
      /\ Distinct(results)
  BY <1>2 DEF JoinInv
<1>9. IsFiniteSet(Lost) /\ Cardinality(Lost) \in Nat /\ w \notin Lost
  <2>1. IsFiniteSet(1..joined) /\ Lost \subseteq 1..joined
    BY <1>3, FS_Interval DEF Lost
  <2>2. IsFiniteSet(Lost)
    BY <2>1, FS_Subset
  <2>. QED  BY <1>3, <2>1, <2>2, FS_CardinalityType
<1>10. results \in Seq(Result) /\ local[w] \in Seq(Result) /\ workerPanicCount \in Nat
  BY <1>2, <1>4 DEF TypeOK
<1>11. /\ \A v \in 1..joined' : pc'[v] \in {"returned", "panicked"}
       /\ workerPanicCount' = Cardinality(PanicEntries(results')) + Cardinality(Lost')
       /\ PathsOf(results') = UNION {ChunkPaths(v) : v \in Returned'}
       /\ Distinct(results')
  <2>1. CASE JoinReturned
    <3>1. /\ pc[w] = "returned" /\ results' = results \o local[w]
          /\ workerPanicCount' = workerPanicCount + localPanics[w]
      BY <2>1 DEF JoinReturned, w
    <3>2. Lost' = Lost /\ Returned' = Returned \cup {w}
      BY <1>7, <3>1 DEF Lost, Returned
    <3>3. PathsOf(local[w]) = ChunkPaths(w) /\ Distinct(local[w])
      BY <1>2, <1>3, <3>1, ReturnedPaths
    <3>4. localPanics[w] = Cardinality(PanicEntries(local[w]))
      BY <1>2, <1>4 DEF ThreadInv
    <3>5. Cardinality(PanicEntries(results')) = Cardinality(PanicEntries(results)) + Cardinality(PanicEntries(local[w]))
      BY <1>10, <3>1, ConcatPanics
    <3>6. /\ Cardinality(PanicEntries(results)) \in Nat
          /\ Cardinality(PanicEntries(local[w])) \in Nat
      BY <1>10, PanicEntriesFinite
    <3>7. workerPanicCount' = Cardinality(PanicEntries(results')) + Cardinality(Lost')
      BY <1>8, <1>9, <3>1, <3>2, <3>4, <3>5, <3>6
    <3>8. PathsOf(results) \cap PathsOf(local[w]) = {}
      <4>1. \A v \in Returned : ChunkPaths(v) \cap ChunkPaths(w) = {}
        BY <1>2, <1>3, <1>4, ChunkPathsDisjoint DEF Returned
      <4>. QED  BY <1>8, <3>3, <4>1
    <3>9. PathsOf(results') = PathsOf(results) \cup PathsOf(local[w]) /\ Distinct(results')
      BY <1>8, <1>10, <3>1, <3>3, <3>8, ConcatPaths
    <3>10. PathsOf(results') = UNION {ChunkPaths(v) : v \in Returned'}
      BY <1>8, <3>2, <3>3, <3>9
    <3>11. \A v \in 1..joined' : pc'[v] \in {"returned", "panicked"}
      BY <1>7, <1>8, <3>1
    <3>. QED  BY <3>7, <3>9, <3>10, <3>11
  <2>2. CASE JoinPanicked
    <3>1. /\ pc[w] = "panicked" /\ results' = results
          /\ workerPanicCount' = workerPanicCount + 1
      BY <2>2 DEF JoinPanicked, w
    <3>2. Lost' = Lost \cup {w} /\ Returned' = Returned
      BY <1>7, <3>1 DEF Lost, Returned
    <3>3. Cardinality(Lost') = Cardinality(Lost) + 1
      BY <1>9, <3>2, FS_AddElement
    <3>4. Cardinality(PanicEntries(results)) \in Nat
      BY <1>10, PanicEntriesFinite
    <3>5. workerPanicCount' = Cardinality(PanicEntries(results')) + Cardinality(Lost')
      BY <1>8, <1>9, <3>1, <3>3, <3>4
    <3>. QED  BY <1>7, <1>8, <3>1, <3>2, <3>5
  <2>. QED  BY <2>1, <2>2
<1>12. JoinInv'
  <2>1. (UNION {ChunkPaths(v) : v \in Returned})' = UNION {ChunkPaths(v) : v \in Returned'}
    BY <1>5
  <2>2. /\ PathsOf(results)' = PathsOf(results') /\ PanicEntries(results)' = PanicEntries(results')
        /\ Distinct(results)' = Distinct(results')
    BY DEF PathsOf, PanicEntries, Distinct
  <2>. QED  BY <1>1, <1>5, <1>6, <1>11, <2>1, <2>2 DEF JoinInv
<1>13. PanicAccounting' /\ ReportComplete'
  BY <1>1, <1>6 DEF PanicAccounting, ReportComplete
<1>. QED  BY <1>5, <1>12, <1>13 DEF AccountInv
-----------------------------------------------------------------------------
(* The report.                                                             *)

LostPaths == UNION {ChunkPaths(w) : w \in Panicked}

\* With every thread joined, the paths of the results and of discovery's skips are
\* those of the tree but the chunks of the threads that died.
LEMMA AllJoined ==
    ASSUME IInv, AccountInv, AllSpawned, joined = spawned
    PROVE  /\ Panicked = Lost
           /\ LostPaths \subseteq Path
           /\ PathsOf(results) \cup PathsOf(discoverySkips) = Path \ LostPaths
           /\ PathsOf(results) \cap PathsOf(discoverySkips) = {}
<1>1. TypeOK /\ InputInv /\ JoinInv
  BY DEF IInv, AccountInv
<1>2. joined \in Nat /\ 1..joined \subseteq Worker /\ \A w \in 1..joined : w \in 1..spawned
  BY <1>1, PipelineAssumption DEF TypeOK, Worker
<1>3. Panicked = Lost
  <2>1. ASSUME NEW w \in Worker, pc[w] = "panicked" PROVE w \in 1..joined
    <3>1. Placed(w)
      BY DEF IInv
    <3>. QED  BY <1>2, <2>1, <3>1, PipelineAssumption DEF Placed, Worker
  <2>. QED  BY <1>2, <2>1 DEF Panicked, Lost
<1>4. 1..spawned = Lost \cup Returned /\ Lost \cap Returned = {}
  BY <1>1 DEF JoinInv, Lost, Returned
<1>5. FilePaths = UNION {ChunkPaths(w) : w \in 1..spawned}
  <2>1. ASSUME NEW i \in 1..Len(files) PROVE \E w \in 1..spawned : files[i] \in ChunkPaths(w)
    <3>1. PICK w \in 1..spawned : i \in ChunkFirst(w)..ChunkLast(w)
      BY <1>1, ChunksCover
    <3>. QED  BY <3>1 DEF ChunkPaths
  <2>2. ASSUME NEW w \in 1..spawned PROVE ChunkPaths(w) \subseteq FilePaths
    <3>1. w \in Worker
      BY <1>2
    <3>2. /\ Len(files) \in Nat /\ ChunkFirst(w) \in Nat \ {0}
          /\ ChunkLast(w) \in Nat /\ ChunkLast(w) <= Len(files)
      BY <1>1, <3>1, ChunkBounds
    <3>3. ChunkFirst(w)..ChunkLast(w) \subseteq 1..Len(files)
      BY <3>2
    <3>. QED  BY <3>3 DEF ChunkPaths, FilePaths
  <2>. QED  BY <2>1, <2>2 DEF FilePaths
<1>6. FilePaths \subseteq Path
  BY <1>1, FilesDistinct DEF FilePaths
<1>7. FilePaths = LostPaths \cup PathsOf(results)
  <2>1. PathsOf(results) = UNION {ChunkPaths(w) : w \in Returned}
    BY <1>1 DEF JoinInv
  <2>. QED  BY <1>3, <1>4, <1>5, <2>1 DEF LostPaths
<1>8. LostPaths \cap PathsOf(results) = {}
  <2>1. \A v \in Lost, w \in Returned : v \in Worker /\ w \in Worker /\ v # w
    BY <1>2, <1>4 DEF Lost, Returned
  <2>2. \A v \in Lost, w \in Returned : ChunkPaths(v) \cap ChunkPaths(w) = {}
    BY <1>1, <2>1, ChunkPathsDisjoint
  <2>3. PathsOf(results) = UNION {ChunkPaths(w) : w \in Returned}
    BY <1>1 DEF JoinInv
  <2>. QED  BY <1>3, <2>2, <2>3 DEF LostPaths
<1>9. PathsOf(discoverySkips) = Path \ FilePaths
  BY <1>1 DEF InputInv
<1>. QED  BY <1>3, <1>6, <1>7, <1>8, <1>9

LEMMA PublishAccount == IInv /\ AccountInv /\ Publish => AccountInv'
<1>. SUFFICES ASSUME IInv, AccountInv, Publish PROVE AccountInv'
  OBVIOUS
<1>. DEFINE s == results \o discoverySkips
            t == SortByPath(s)
            scannedAt == {i \in 1..Len(t) : t[i].status = Scanned}
<1>1. /\ UNCHANGED <<input, worker, spawned, joined, results, workerPanicCount>>
      /\ AllSpawned /\ joined = spawned
      /\ report' = [published |-> TRUE, files |-> t,
                    discovered |-> Len(files) + Len(discoverySkips),
                    scanned |-> Cardinality(scannedAt),
                    skipped |-> Len(t) - Cardinality(scannedAt),
                    panics |-> workerPanicCount]
  BY DEF Publish
<1>2. TypeOK /\ InputInv /\ ThreadInv /\ JoinInv
  BY DEF IInv, AccountInv
<1>3. results \in Seq(Result) /\ discoverySkips \in Seq(Result) /\ s \in Seq(Result)
  <2>1. results \in Seq(Result) /\ discoverySkips \in Seq(Result)
    BY <1>2 DEF TypeOK
  <2>. QED  BY <2>1, ConcatEntries
<1>4. /\ Panicked = Lost
      /\ LostPaths \subseteq Path
      /\ PathsOf(results) \cup PathsOf(discoverySkips) = Path \ LostPaths
      /\ PathsOf(results) \cap PathsOf(discoverySkips) = {}
  BY <1>1, AllJoined
<1>5. Distinct(s) /\ PathsOf(s) = Path \ LostPaths
  <2>1. Distinct(results) /\ Distinct(discoverySkips)
    BY <1>2 DEF JoinInv, InputInv
  <2>. QED  BY <1>3, <1>4, <2>1, ConcatPaths
<1>6. Cardinality(PanicEntries(s)) = Cardinality(PanicEntries(results))
  <2>1. Cardinality(PanicEntries(discoverySkips)) = 0
    BY <1>2, FS_EmptySet DEF InputInv
  <2>2. Cardinality(PanicEntries(results)) \in Nat
    BY <1>3, PanicEntriesFinite
  <2>3. Cardinality(PanicEntries(s)) = Cardinality(PanicEntries(results)) + Cardinality(PanicEntries(discoverySkips))
    BY <1>3, ConcatPanics
  <2>. QED  BY <2>1, <2>2, <2>3
<1>. HIDE DEF s
<1>7. /\ Len(t) = Len(s) /\ Len(s) \in Nat
      /\ Cardinality(PanicEntries(t)) = Cardinality(PanicEntries(s))
      /\ PathsOf(t) = PathsOf(s)
      /\ \A k, l \in 1..Len(s) : k < l => t[k].path < t[l].path
  BY <1>3, <1>5, LenProperties, SortByPathProperties, SortPanics, SortPaths
<1>8. Len(s) = NumPaths - Cardinality(LostPaths) /\ Cardinality(LostPaths) \in Nat
  <2>1. IsFiniteSet(Path) /\ Cardinality(Path) = NumPaths /\ NumPaths \in Nat
    BY PipelineAssumption, FS_Interval DEF Path
  <2>2. Path \cap LostPaths = LostPaths
    BY <1>4
  <2>3. Cardinality(Path \ LostPaths) = Cardinality(Path) - Cardinality(Path \cap LostPaths)
    BY <2>1, FS_Difference
  <2>4. Cardinality(PathsOf(s)) = Len(s)
    BY <1>3, <1>5, PathsCount
  <2>5. Cardinality(LostPaths) \in Nat
    BY <1>4, <2>1, FS_Subset, FS_CardinalityType
  <2>. QED  BY <1>5, <2>1, <2>2, <2>3, <2>4, <2>5
<1>9. Cardinality(scannedAt) \in Nat
  <2>1. IsFiniteSet(1..Len(t))
    BY <1>7, FS_Interval
  <2>2. IsFiniteSet(scannedAt)
    BY <2>1, FS_Subset
  <2>. QED  BY <2>2, FS_CardinalityType
<1>. HIDE DEF t, scannedAt
<1>10. /\ \A v : ChunkPaths(v)' = ChunkPaths(v)
       /\ AllSpawned' = AllSpawned
       /\ InputInv' /\ ThreadInv'
       /\ Panicked' = Panicked
  BY <1>1, <1>2, MainFixed
<1>11. JoinInv'
  <2>1. pc' = pc
    BY <1>1 DEF worker
  <2>2. Lost' = Lost /\ Returned' = Returned
    BY <1>1, <2>1 DEF Lost, Returned
  <2>3. (UNION {ChunkPaths(v) : v \in Returned})' = UNION {ChunkPaths(v) : v \in Returned}
    BY <1>10, <2>2
  <2>4. /\ PathsOf(results)' = PathsOf(results) /\ PanicEntries(results)' = PanicEntries(results)
        /\ Distinct(results)' = Distinct(results)
    BY <1>1 DEF PathsOf, PanicEntries, Distinct
  <2>. QED  BY <1>1, <1>2, <1>10, <2>1, <2>2, <2>3, <2>4 DEF JoinInv
<1>12. PanicAccounting'
  <2>1. workerPanicCount = Cardinality(PanicEntries(t)) + Cardinality(Panicked)
    BY <1>2, <1>4, <1>6, <1>7 DEF JoinInv
  <2>2. report'.panics = workerPanicCount /\ report'.files = t
    BY <1>1
  <2>3. PanicEntries(report.files)' = PanicEntries(t)
    BY <2>2 DEF PanicEntries
  <2>. QED  BY <1>10, <2>1, <2>2, <2>3 DEF PanicAccounting
<1>13. ReportComplete'
  <2>1. LostPaths' = LostPaths
    BY <1>10 DEF LostPaths
  <2>2. report'.files = t /\ PathsOf(report.files)' = PathsOf(t)
    BY <1>1 DEF PathsOf
  <2>3. PathsOf(report.files)' = Path \ LostPaths
    BY <1>5, <1>7, <2>2
  <2>4. \A i, j \in 1..Len(report'.files) : i < j => report'.files[i].path < report'.files[j].path
    BY <1>7, <2>2
  <2>5. report'.scanned + report'.skipped = report'.discovered - Cardinality(LostPaths)
    <3>1. /\ report'.scanned = Cardinality(scannedAt)
          /\ report'.skipped = Len(t) - Cardinality(scannedAt)
          /\ report'.discovered = NumPaths
      BY <1>1, <1>2 DEF InputInv
    <3>. QED  BY <1>7, <1>8, <1>9, <3>1
  <2>. QED  BY <2>1, <2>3, <2>4, <2>5 DEF ReportComplete, LostPaths, Path
<1>. QED  BY <1>10, <1>11, <1>12, <1>13 DEF AccountInv

LEMMA StutterAccount == AccountInv /\ UNCHANGED vars => AccountInv'
<1>. SUFFICES ASSUME AccountInv, UNCHANGED vars PROVE AccountInv'
  OBVIOUS
<1>1. UNCHANGED <<input, worker, spawned, joined, results, workerPanicCount, report>> /\ pc' = pc
  BY DEF vars, main, worker
<1>2. /\ \A v : ChunkPaths(v)' = ChunkPaths(v)
      /\ AllSpawned' = AllSpawned
      /\ InputInv' /\ ThreadInv'
      /\ Panicked' = Panicked
  BY <1>1, MainFixed DEF AccountInv
<1>3. Lost' = Lost /\ Returned' = Returned
  BY <1>1 DEF Lost, Returned
<1>4. (UNION {ChunkPaths(v) : v \in Returned})' = UNION {ChunkPaths(v) : v \in Returned}
  BY <1>2, <1>3
<1>5. /\ PathsOf(results)' = PathsOf(results) /\ PanicEntries(results)' = PanicEntries(results)
      /\ Distinct(results)' = Distinct(results)
  BY <1>1 DEF PathsOf, PanicEntries, Distinct
<1>6. JoinInv'
  BY <1>1, <1>2, <1>3, <1>4, <1>5 DEF AccountInv, JoinInv
<1>7. PanicAccounting'
  BY <1>1, <1>2 DEF AccountInv, PanicAccounting, PanicEntries
<1>8. ReportComplete'
  <2>1. LostPaths' = LostPaths
    BY <1>2 DEF LostPaths
  <2>2. PathsOf(report.files)' = PathsOf(report.files)
    BY <1>1 DEF PathsOf
  <2>. QED  BY <1>1, <2>1, <2>2 DEF AccountInv, ReportComplete, LostPaths, Path
<1>. QED  BY <1>2, <1>6, <1>7, <1>8 DEF AccountInv

LEMMA NextAccount == IInv /\ AccountInv /\ [Next]_vars => AccountInv'
<1>. SUFFICES ASSUME IInv, AccountInv, [Next]_vars PROVE AccountInv'
  OBVIOUS
<1>1. CASE MainStep
  BY <1>1, SpawnAccount, JoinAccount, PublishAccount DEF MainStep
<1>2. ASSUME NEW w \in Worker, WorkerStep(w) \/ Expire(w) \/ CatchPanic(w) \/ Die(w)
      PROVE  AccountInv'
  BY <1>2, PushActionsAccount, MoveActionsAccount DEF WorkerStep
<1>3. CASE UNCHANGED vars
  BY <1>3, StutterAccount
<1>. QED  BY <1>1, <1>2, <1>3 DEF Next, Terminated

THEOREM AccountInvariance == Spec => []AccountInv
BY InitAccount, NextAccount, Invariance, PTL DEF Spec

\* The published count is the number of "detector panic" entries plus the number of
\* threads that died, whichever order they ran and were joined in.
THEOREM PanicsAreCounted == Spec => []PanicAccounting
<1>1. AccountInv => PanicAccounting
  BY DEF AccountInv
<1>. QED  BY <1>1, AccountInvariance, PTL

\* The report has one entry, in path order, for each path of the tree except the
\* chunks of threads that died, and its counts add up to that.
THEOREM ReportsAreComplete == Spec => []ReportComplete
<1>1. AccountInv => ReportComplete
  BY DEF AccountInv
<1>. QED  BY <1>1, AccountInvariance, PTL

-----------------------------------------------------------------------------
(* The refinement.                                                         *)

Verdicts == (Reason \cup {Scanned}) \ {DiscoverySkip}
Verdict == [p \in Path |-> VerdictOn(p)]

\* No path has two entries, in one list or in two.
Sole(l) ==
    \A v, w \in Worker : \A i \in 1..Len(l[v]), j \in 1..Len(l[w]) :
        l[v][i].path = l[w][j].path => v = w /\ i = j

LEMMA StatusFound ==
    ASSUME NEW l, Sole(l), NEW w \in Worker, NEW i \in 1..Len(l[w]), NEW p, l[w][i].path = p
    PROVE  /\ \E v \in Worker : Recorded(p, l[v])
           /\ StatusIn(p, l[CHOOSE v \in Worker : Recorded(p, l[v])]) = l[w][i].status
<1>. DEFINE c == CHOOSE v \in Worker : Recorded(p, l[v])
            k == CHOOSE j \in 1..Len(l[c]) : l[c][j].path = p
<1>1. Recorded(p, l[w])
  BY DEF Recorded
<1>2. c \in Worker /\ Recorded(p, l[c])
  BY <1>1
<1>. HIDE DEF c
<1>3. k \in 1..Len(l[c]) /\ l[c][k].path = p
  BY <1>2 DEF Recorded
<1>. HIDE DEF k
<1>4. c = w /\ k = i
  BY <1>2, <1>3 DEF Sole
<1>5. StatusIn(p, l[c]) = l[c][k].status
  BY DEF StatusIn, k
<1>. QED  BY <1>1, <1>4, <1>5 DEF c

\* The k-th entry of a thread at y is the file at a + k - 1, in its chunk and behind y.
LEMMA BehindNext ==
    ASSUME NEW a \in Nat \ {0}, NEW b \in Nat, NEW m \in Nat, b <= m,
           NEW y \in a..(b + 1), NEW n, n = y - a, NEW k \in 1..n
    PROVE  a + k - 1 \in a..b /\ a + k - 1 \in 1..m /\ a + k - 1 < y
<1>1. a \in Int /\ b \in Int /\ m \in Int /\ y \in Int /\ n \in Int /\ k \in Int
  OBVIOUS
<1>2. 1 <= a /\ a <= y /\ y <= b + 1 /\ b <= m /\ n = y - a /\ 1 <= k /\ k <= n
  BY <1>1
<1>3. a <= a + k - 1 /\ a + k - 1 <= b /\ a + k - 1 < y
  BY <1>1, <1>2
<1>. QED  BY <1>1, <1>2, <1>3

LEMMA RecordedSole == IInv => Sole(local)
<1>. SUFFICES ASSUME IInv, NEW v \in Worker, NEW w \in Worker,
                     NEW i \in 1..Len(local[v]), NEW j \in 1..Len(local[w]),
                     local[v][i].path = local[w][j].path
              PROVE  v = w /\ i = j
  BY DEF Sole
<1>1. TypeOK /\ Placed(v) /\ Placed(w)
  BY DEF IInv
<1>2. pc[v] # "unspawned" /\ pc[w] # "unspawned"
  BY <1>1 DEF Placed
<1>3. \A u \in {v, w} :
        /\ ChunkFirst(u) \in Nat \ {0} /\ ChunkLast(u) \in Nat /\ ChunkLast(u) <= Len(files)
        /\ next[u] \in ChunkFirst(u)..(ChunkLast(u) + 1)
        /\ Len(local[u]) = next[u] - ChunkFirst(u)
        /\ \A k \in 1..Len(local[u]) : local[u][k].path = files[ChunkFirst(u) + k - 1]
  BY <1>1, <1>2, ChunkBounds DEF Placed
<1>4. Len(files) \in Nat
  BY <1>1, PipelineAssumption DEF TypeOK
<1>5. ASSUME NEW u \in {v, w}, NEW k \in 1..Len(local[u])
      PROVE  /\ ChunkFirst(u) + k - 1 \in ChunkFirst(u)..ChunkLast(u)
             /\ ChunkFirst(u) + k - 1 \in 1..Len(files)
  <2>1. /\ ChunkFirst(u) \in Nat \ {0} /\ ChunkLast(u) \in Nat /\ ChunkLast(u) <= Len(files)
        /\ next[u] \in ChunkFirst(u)..(ChunkLast(u) + 1)
        /\ Len(local[u]) = next[u] - ChunkFirst(u)
    BY <1>3
  <2>. QED  BY <1>4, <2>1, BehindNext
<1>6. ChunkFirst(v) + i - 1 = ChunkFirst(w) + j - 1
  <2>1. /\ local[v][i].path = files[ChunkFirst(v) + i - 1]
        /\ local[w][j].path = files[ChunkFirst(w) + j - 1]
    BY <1>3
  <2>2. ChunkFirst(v) + i - 1 \in 1..Len(files) /\ ChunkFirst(w) + j - 1 \in 1..Len(files)
    BY <1>5
  <2>3. files[ChunkFirst(v) + i - 1] = files[ChunkFirst(w) + j - 1]
    BY <2>1
  <2>. QED  BY <1>1, <2>2, <2>3, FilesDistinct
<1>7. v = w
  BY <1>1, <1>5, <1>6, ChunksDisjoint
<1>8. i = j
  BY <1>3, <1>6, <1>7
<1>. QED  BY <1>7, <1>8

\* The verdicts without CHOOSE.
VerdictsAre ==
    \A p \in Path :
        /\ p \in PathsOf(discoverySkips) => VerdictOn(p) = DiscoverySkip
        /\ p \notin PathsOf(discoverySkips) =>
            /\ p \in LostPaths => VerdictOn(p) = "Lost"
            /\ p \notin LostPaths =>
                /\ \A w \in Worker : \A i \in 1..Len(local[w]) :
                        local[w][i].path = p => VerdictOn(p) = local[w][i].status
                /\ (\A w \in Worker : p \notin PathsOf(local[w])) => VerdictOn(p) = "Pending"

LEMMA VerdictCases == IInv => VerdictsAre
<1>. SUFFICES ASSUME IInv, NEW p \in Path
              PROVE  /\ p \in PathsOf(discoverySkips) => VerdictOn(p) = DiscoverySkip
                     /\ p \notin PathsOf(discoverySkips) =>
                         /\ p \in LostPaths => VerdictOn(p) = "Lost"
                         /\ p \notin LostPaths =>
                             /\ \A w \in Worker : \A i \in 1..Len(local[w]) :
                                     local[w][i].path = p => VerdictOn(p) = local[w][i].status
                             /\ (\A w \in Worker : p \notin PathsOf(local[w]))
                                     => VerdictOn(p) = "Pending"
  BY DEF VerdictsAre
<1>1. p \in PathsOf(discoverySkips) <=> Recorded(p, discoverySkips)
  BY DEF PathsOf, Recorded
<1>2. p \in LostPaths <=> \E w \in Panicked : p \in ChunkPaths(w)
  BY DEF LostPaths
<1>3. \A w \in Worker : p \in PathsOf(local[w]) <=> Recorded(p, local[w])
  BY DEF PathsOf, Recorded
<1>4. Sole(local)
  BY RecordedSole
<1>5. ASSUME p \notin PathsOf(discoverySkips), p \notin LostPaths, NEW w \in Worker,
             NEW i \in 1..Len(local[w]), local[w][i].path = p
      PROVE  VerdictOn(p) = local[w][i].status
  BY <1>1, <1>2, <1>4, <1>5, StatusFound DEF VerdictOn
<1>6. CASE p \in PathsOf(discoverySkips)
  BY <1>1, <1>6 DEF VerdictOn
<1>7. CASE p \notin PathsOf(discoverySkips) /\ p \in LostPaths
  BY <1>1, <1>2, <1>7 DEF VerdictOn
<1>8. CASE p \notin PathsOf(discoverySkips) /\ p \notin LostPaths
  <2>1. (\A w \in Worker : p \notin PathsOf(local[w])) => VerdictOn(p) = "Pending"
    BY <1>1, <1>2, <1>3, <1>8 DEF VerdictOn
  <2>. QED  BY <1>5, <1>8, <2>1
<1>. QED  BY <1>6, <1>7, <1>8
-----------------------------------------------------------------------------
(* The statuses of entries: those of results are the ones their threads gave. *)

EntryInv == \A w \in Worker : \A i \in 1..Len(local[w]) : local[w][i].status \in Verdicts
SkipsInv == \A i \in 1..Len(discoverySkips) : discoverySkips[i].status = DiscoverySkip
ResultsInv ==
    \A i \in 1..Len(results) : \E w \in Worker :
        /\ w \in 1..joined /\ pc[w] = "returned"
        /\ \E j \in 1..Len(local[w]) : results[i] = local[w][j]
StatusInv == EntryInv /\ SkipsInv /\ ResultsInv

\* What a step of a running thread leaves alone.
OnlyThread(w) ==
    /\ UNCHANGED <<input, main>>
    /\ \A v \in Worker \ {w} : pc'[v] = pc[v] /\ next'[v] = next[v] /\ local'[v] = local[v]

LEMMA VerdictReasons ==
    /\ \A r \in SourceReasons \cup {DetectorPanic, "Unsupported", "Timeout", Scanned} : r \in Verdicts
    /\ "Pending" \notin Verdicts /\ "Lost" \notin Verdicts /\ DiscoverySkip \notin Verdicts
BY ReasonsApart, PipelineAssumption DEF Verdicts, Reason, Scanned, DetectorPanic, DiscoverySkip

LEMMA InitStatus == Init => StatusInv
<1>. SUFFICES ASSUME Init PROVE StatusInv
  OBVIOUS
<1>0. NumPaths \in Nat
  BY PipelineAssumption
<1>1. PICK n \in 0..NumPaths : \E others \in Ascending(NumPaths - n) :
        discoverySkips = [j \in 1..(NumPaths - n) |-> SkippedResult(others[j], DiscoverySkip)]
  BY DEF Init
<1>2. PICK others \in Ascending(NumPaths - n) :
        discoverySkips = [j \in 1..(NumPaths - n) |-> SkippedResult(others[j], DiscoverySkip)]
  BY <1>1
<1>3. SkipsInv
  <2>1. discoverySkips \in Seq(Result)
    BY InitIInv DEF IInv, TypeOK
  <2>2. DOMAIN discoverySkips = 1..Len(discoverySkips)
    BY <2>1, LenProperties
  <2>3. DOMAIN discoverySkips = 1..(NumPaths - n)
    BY <1>2
  <2>. QED  BY <1>2, <2>2, <2>3 DEF SkipsInv, SkippedResult
<1>4. EntryInv
  BY DEF Init, EntryInv
<1>5. ResultsInv
  BY DEF Init, ResultsInv
<1>. QED  BY <1>3, <1>4, <1>5 DEF StatusInv

\* A push: the thread, its file, and a verdict for it.
Pushes(w, r) ==
    /\ Running(w) /\ OnlyThread(w)
    /\ next[w] \in ChunkFirst(w)..ChunkLast(w)
    /\ r \in Result /\ r.path = files[next[w]] /\ r.status \in Verdicts
    /\ local'[w] = Append(local[w], r)
    /\ pc'[w] = "idle"

\* The other steps of a thread record nothing; only one of them ends in a panic.
Moves(w) ==
    /\ Running(w) /\ OnlyThread(w)
    /\ local' = local
    /\ pc'[w] # "panicked"

LEMMA PushesPush ==
    ASSUME IInv, NEW w \in Worker,
           \/ SkipUnknown(w) \/ ReadRefused(w) \/ TimeOut(w)
           \/ FinishFile(w)  \/ CatchPanic(w)
    PROVE  \E r \in Result : Pushes(w, r)
<1>1. TypeOK /\ Placed(w)
  BY DEF IInv
<1>2. Running(w) /\ next[w] \in ChunkFirst(w)..ChunkLast(w)
  <2>1. Running(w) /\ next[w] <= ChunkLast(w)
    BY <1>1 DEF Running, Placed, BodyStatus, SkipUnknown, ReadRefused, TimeOut, FinishFile, CatchPanic
  <2>2. next[w] \in ChunkFirst(w)..(ChunkLast(w) + 1) /\ ChunkFirst(w) \in Nat /\ ChunkLast(w) \in Nat
    BY <1>1, <2>1, ChunkBounds DEF Placed, Running
  <2>. QED  BY <2>1, <2>2
<1>3. CurrentPath(w) \in Path
  <2>1. /\ ChunkFirst(w) \in Nat \ {0} /\ ChunkLast(w) \in Nat /\ ChunkLast(w) <= Len(files)
        /\ Len(files) \in Nat
    BY <1>1, ChunkBounds
  <2>2. next[w] \in 1..Len(files)
    BY <1>2, <2>1
  <2>. QED  BY <1>1, <2>2, CurrentPathType
<1>4. ASSUME NEW r \in Result, Push(w, r), r.path = CurrentPath(w), r.status \in Verdicts
      PROVE  Pushes(w, r)
  BY <1>1, <1>2, <1>4 DEF Push, Pushes, OnlyThread, TypeOK, CurrentPath
<1>5. ASSUME NEW reason \in SourceReasons \cup {DetectorPanic, "Unsupported", "Timeout"},
             Push(w, SkippedResult(CurrentPath(w), reason))
      PROVE  \E r \in Result : Pushes(w, r)
  <2>1. reason \in Reason /\ reason # Scanned /\ reason \in Verdicts
    BY VerdictReasons, PipelineAssumption DEF Reason, Scanned, DetectorPanic
  <2>2. SkippedResult(CurrentPath(w), reason) \in Result
    BY <1>3, <2>1, SkippedResultType
  <2>3. /\ SkippedResult(CurrentPath(w), reason).path = CurrentPath(w)
        /\ SkippedResult(CurrentPath(w), reason).status = reason
    BY DEF SkippedResult
  <2>. QED  BY <1>4, <1>5, <2>1, <2>2, <2>3
<1>6. CASE SkipUnknown(w)
  BY <1>5, <1>6 DEF SkipUnknown
<1>7. CASE ReadRefused(w)
  BY <1>5, <1>7 DEF ReadRefused
<1>8. CASE TimeOut(w)
  BY <1>5, <1>8 DEF TimeOut
<1>9. CASE FinishFile(w)
  <2>. DEFINE r == ScannedResult(CurrentPath(w), output[w])
  <2>1. output[w] \in Seq(Detector)
    BY <1>1 DEF TypeOK
  <2>2. r \in Result /\ r.path = CurrentPath(w) /\ r.status \in Verdicts
    BY <1>3, <2>1, VerdictReasons DEF ScannedResult, Result, Scanned
  <2>3. Push(w, r)
    BY <1>9 DEF FinishFile
  <2>. QED  BY <1>4, <2>2, <2>3
<1>10. CASE CatchPanic(w)
  BY <1>5, <1>10 DEF CatchPanic
<1>. QED  BY <1>6, <1>7, <1>8, <1>9, <1>10

LEMMA MovesMove ==
    ASSUME IInv, NEW w \in Worker,
           \/ StartFile(w)   \/ Expire(w)     \/ ReadDone(w) \/ BeginDetector(w)
           \/ EndDetector(w) \/ KeepOutput(w) \/ Return(w)
    PROVE  Moves(w)
<1>1. TypeOK
  BY DEF IInv
<1>. QED  BY <1>1 DEF TypeOK, Moves, Running, OnlyThread, GoTo, StartFile, Expire, ReadDone,
          BeginDetector, EndDetector, KeepOutput, Return

LEMMA DieDies ==
    ASSUME IInv, NEW w \in Worker, Die(w)
    PROVE  Running(w) /\ OnlyThread(w) /\ local'[w] = local[w] /\ pc'[w] = "panicked"
BY DEF IInv, TypeOK, Running, OnlyThread, GoTo, Die

LEMMA ThreadStatus ==
    ASSUME IInv, AccountInv, StatusInv, NEW w \in Worker, Running(w), OnlyThread(w),
           \/ local'[w] = local[w]
           \/ \E r \in Result : r.status \in Verdicts /\ local'[w] = Append(local[w], r)
    PROVE  StatusInv'
<1>1. results' = results /\ discoverySkips' = discoverySkips /\ joined' = joined
  BY DEF OnlyThread, input, main
<1>2. EntryInv'
  <2>. SUFFICES ASSUME NEW v \in Worker, NEW i \in 1..Len(local'[v])
                PROVE  local'[v][i].status \in Verdicts
    BY DEF EntryInv, Verdicts, Reason
  <2>1. local[w] \in Seq(Result)
    BY DEF IInv, TypeOK
  <2>2. CASE v # w \/ local'[w] = local[w]
    BY <2>2 DEF OnlyThread, StatusInv, EntryInv
  <2>3. CASE v = w /\ \E r \in Result : r.status \in Verdicts /\ local'[w] = Append(local[w], r)
    <3>1. PICK r \in Result : r.status \in Verdicts /\ local'[w] = Append(local[w], r)
      BY <2>3
    <3>2. /\ Len(local'[w]) = Len(local[w]) + 1 /\ Len(local[w]) \in Nat
          /\ \A k \in 1..Len(local[w]) : local'[w][k] = local[w][k]
          /\ local'[w][Len(local[w]) + 1] = r
      BY <2>1, <3>1, AppendProperties, LenProperties
    <3>3. i \in 1..Len(local[w]) \/ i = Len(local[w]) + 1
      BY <2>3, <3>2
    <3>. QED  BY <2>3, <3>1, <3>2, <3>3 DEF StatusInv, EntryInv
  <2>. QED  BY <2>2, <2>3
<1>3. SkipsInv'
  BY <1>1 DEF StatusInv, SkipsInv
<1>4. ResultsInv'
  <2>. SUFFICES ASSUME NEW i \in 1..Len(results)
                PROVE  \E v \in Worker : /\ v \in 1..joined /\ pc'[v] = "returned"
                                         /\ \E j \in 1..Len(local'[v]) : results[i] = local'[v][j]
    BY <1>1 DEF ResultsInv
  <2>1. PICK v \in Worker : /\ v \in 1..joined /\ pc[v] = "returned"
                            /\ \E j \in 1..Len(local[v]) : results[i] = local[v][j]
    BY DEF StatusInv, ResultsInv
  <2>2. v # w
    BY <2>1 DEF Running
  <2>. QED  BY <2>1, <2>2 DEF OnlyThread
<1>. QED  BY <1>2, <1>3, <1>4 DEF StatusInv

LEMMA MainStatus ==
    ASSUME IInv, StatusInv, MainStep
    PROVE  StatusInv'
<1>1. discoverySkips' = discoverySkips /\ local' = local /\ TypeOK
  BY DEF MainStep, Spawn, JoinReturned, JoinPanicked, Publish, input, worker, IInv
<1>2. EntryInv' /\ SkipsInv'
  BY <1>1 DEF StatusInv, EntryInv, SkipsInv, Verdicts, Reason
<1>3. joined \in Nat /\ spawned \in Nat /\ spawned <= NumPaths /\ NumPaths \in Nat
  BY <1>1, PipelineAssumption DEF TypeOK
<1>4. CASE Spawn
  <2>1. \A v \in Worker : pc[v] = "returned" => pc'[v] = "returned"
    <3>1. \A v \in Worker : v > spawned => pc[v] = "unspawned"
      BY <1>3, PipelineAssumption DEF IInv, Placed, Worker
    <3>2. \A v \in Worker : v # spawned + 1 => pc'[v] = pc[v]
      BY <1>1, <1>4 DEF Spawn, TypeOK
    <3>3. \A v \in Worker : v = spawned + 1 => v > spawned
      BY <1>3
    <3>. QED  BY <3>1, <3>2, <3>3
  <2>2. results' = results /\ joined' = joined
    BY <1>4 DEF Spawn
  <2>3. ResultsInv'
    BY <1>1, <2>1, <2>2 DEF StatusInv, ResultsInv
  <2>. QED  BY <1>2, <2>3 DEF StatusInv
<1>5. CASE JoinReturned
  <2>. DEFINE w == joined + 1
  <2>1. /\ pc' = pc /\ joined' = w /\ pc[w] = "returned" /\ joined < spawned
        /\ results' = results \o local[w]
    BY <1>5 DEF JoinReturned, worker
  <2>2. w \in Worker /\ 1..joined' = 1..joined \cup {w}
    BY <1>3, <2>1 DEF Worker
  <2>. HIDE DEF w
  <2>3. results \in Seq(Result) /\ local[w] \in Seq(Result)
    BY <1>1, <2>2 DEF TypeOK
  <2>4. /\ Len(results') = Len(results) + Len(local[w])
        /\ Len(results) \in Nat /\ Len(local[w]) \in Nat
        /\ \A i \in 1..Len(results) : results'[i] = results[i]
        /\ \A i \in 1..Len(local[w]) : results'[Len(results) + i] = local[w][i]
    BY <2>1, <2>3, ConcatEntries
  <2>5. ASSUME NEW i \in 1..Len(results')
        PROVE  \E v \in Worker : /\ v \in 1..joined' /\ pc'[v] = "returned"
                                 /\ \E j \in 1..Len(local[v]) : results'[i] = local[v][j]
    <3>1. CASE i \in 1..Len(results)
      BY <2>1, <2>2, <2>4, <3>1 DEF StatusInv, ResultsInv
    <3>2. CASE i \notin 1..Len(results)
      <4>1. i - Len(results) \in 1..Len(local[w]) /\ Len(results) + (i - Len(results)) = i
        BY <2>4, <3>2
      <4>2. results'[i] = local[w][i - Len(results)]
        BY <2>4, <4>1
      <4>. QED  BY <2>1, <2>2, <4>1, <4>2
    <3>. QED  BY <3>1, <3>2
  <2>6. ResultsInv'
    BY <1>1, <2>5 DEF ResultsInv
  <2>. QED  BY <1>2, <2>6 DEF StatusInv
<1>6. CASE JoinPanicked
  <2>1. pc' = pc /\ results' = results /\ joined' = joined + 1
    BY <1>6 DEF JoinPanicked, worker
  <2>2. 1..joined \subseteq 1..joined'
    BY <1>3, <2>1
  <2>3. ResultsInv'
    BY <1>1, <2>1, <2>2 DEF StatusInv, ResultsInv
  <2>. QED  BY <1>2, <2>3 DEF StatusInv
<1>7. CASE Publish
  <2>1. pc' = pc /\ results' = results /\ joined' = joined
    BY <1>7 DEF Publish, worker
  <2>2. ResultsInv'
    BY <1>1, <2>1 DEF StatusInv, ResultsInv
  <2>. QED  BY <1>2, <2>2 DEF StatusInv
<1>. QED  BY <1>4, <1>5, <1>6, <1>7 DEF MainStep

LEMMA NextStatus == IInv /\ AccountInv /\ StatusInv /\ [Next]_vars => StatusInv'
<1>. SUFFICES ASSUME IInv, AccountInv, StatusInv, [Next]_vars PROVE StatusInv'
  OBVIOUS
<1>1. CASE MainStep
  BY <1>1, MainStatus
<1>2. ASSUME NEW w \in Worker, WorkerStep(w) \/ Expire(w) \/ CatchPanic(w) \/ Die(w)
      PROVE  StatusInv'
  <2>1. ASSUME NEW r \in Result, Pushes(w, r) PROVE StatusInv'
    BY <2>1, ThreadStatus DEF Pushes
  <2>2. CASE Moves(w)
    BY <2>2, ThreadStatus DEF Moves
  <2>3. CASE Die(w)
    BY <2>3, DieDies, ThreadStatus
  <2>. QED  BY <1>2, <2>1, <2>2, <2>3, PushesPush, MovesMove DEF WorkerStep
<1>3. CASE UNCHANGED vars
  <2>1. UNCHANGED <<discoverySkips, local, pc, results, joined>>
    BY <1>3 DEF vars, input, worker, main
  <2>2. EntryInv' /\ SkipsInv'
    BY <2>1 DEF StatusInv, EntryInv, SkipsInv, Verdicts, Reason
  <2>3. ResultsInv'
    BY <2>1 DEF StatusInv, ResultsInv
  <2>. QED  BY <2>2, <2>3 DEF StatusInv
<1>. QED  BY <1>1, <1>2, <1>3 DEF Next, Terminated
-----------------------------------------------------------------------------
(* Each step is a step of the contract.                                    *)

SeenVars == <<Verdict, report.published, Listing>>

\* The chunks stay, and so do the verdicts while nobody records or dies.
LEMMA VerdictsStay ==
    ASSUME UNCHANGED <<files, discoverySkips, local>>, Panicked' = Panicked
    PROVE  Verdict' = Verdict
<1>1. \A v : ChunkPaths(v)' = ChunkPaths(v)
  BY ChunksFixed DEF ChunkPaths
<1>2. ASSUME NEW p PROVE VerdictOn(p)' = VerdictOn(p)
  <2>1. Recorded(p, discoverySkips)' = Recorded(p, discoverySkips)
    BY DEF Recorded
  <2>2. (\E w \in Panicked : p \in ChunkPaths(w))' <=> \E w \in Panicked : p \in ChunkPaths(w)
    BY <1>1
  <2>3. (\E w \in Worker : Recorded(p, local[w]))' <=> \E w \in Worker : Recorded(p, local[w])
    BY DEF Recorded, Worker
  <2>4. StatusIn(p, local[CHOOSE w \in Worker : Recorded(p, local[w])])'
          = StatusIn(p, local[CHOOSE w \in Worker : Recorded(p, local[w])])
    BY DEF StatusIn, Recorded, Worker
  <2>. QED  BY <2>1, <2>2, <2>3, <2>4, Zenon DEF VerdictOn
<1>. QED  BY <1>2 DEF Verdict, Path

LEMMA ListingStays ==
    ASSUME report' = report
    PROVE  Listing' = Listing
BY DEF Listing

LEMMA InitContract == Init => Contract!Init
<1>. SUFFICES ASSUME Init PROVE Contract!Init
  OBVIOUS
<1>1. /\ local = [w \in Worker |-> <<>>] /\ pc = [w \in Worker |-> "unspawned"]
      /\ report = NoReport
  BY DEF Init
<1>2. Panicked = {}
  BY <1>1 DEF Panicked
<1>3. \A p, w : w \in Worker => ~Recorded(p, local[w])
  BY <1>1 DEF Recorded
<1>4. ASSUME NEW p \in Path PROVE VerdictOn(p) \in {"Pending", DiscoverySkip}
  BY <1>2, <1>3 DEF VerdictOn
<1>5. [p \in Path |-> VerdictOn(p)] \in [Path -> {"Pending", DiscoverySkip}]
  BY <1>4
<1>6. report.published = FALSE /\ Listing = {}
  BY <1>1 DEF NoReport, Listing
<1>. QED  BY <1>5, <1>6 DEF Contract!Init, Contract!Path, Contract!Pending, Path

\* Nothing is known of the file a running thread is at.
LEMMA FreshFile ==
    ASSUME IInv, AccountInv, VerdictsAre, NEW w \in Worker, Running(w),
           next[w] \in ChunkFirst(w)..ChunkLast(w), NEW x, x = files[next[w]]
    PROVE  /\ x \in Path /\ x \notin PathsOf(discoverySkips) /\ x \notin LostPaths
           /\ \A v \in Worker : x \notin PathsOf(local[v])
           /\ VerdictOn(x) = "Pending"
<1>1. TypeOK /\ InputInv
  BY DEF IInv, AccountInv
<1>2. next[w] \in 1..Len(files)
  <2>1. /\ ChunkFirst(w) \in Nat \ {0} /\ ChunkLast(w) \in Nat /\ ChunkLast(w) <= Len(files)
        /\ Len(files) \in Nat
    BY <1>1, ChunkBounds
  <2>. QED  BY <2>1
<1>3. x \in Path /\ x \in ChunkPaths(w) /\ x \in FilePaths /\ x \notin PathsOf(discoverySkips)
  BY <1>1, <1>2, FilesDistinct DEF ChunkPaths, FilePaths, InputInv
<1>4. x \notin LostPaths
  <2>1. \A v \in Panicked : v \in Worker /\ v # w
    BY DEF Panicked, Running
  <2>2. \A v \in Panicked : ChunkPaths(v) \cap ChunkPaths(w) = {}
    BY <1>1, <2>1, ChunkPathsDisjoint
  <2>. QED  BY <1>3, <2>2 DEF LostPaths
<1>5. \A v \in Worker : x \notin PathsOf(local[v])
  <2>. SUFFICES ASSUME NEW v \in Worker, NEW k \in 1..Len(local[v]), local[v][k].path = x
                PROVE  FALSE
    BY DEF PathsOf
  <2>1. Placed(v)
    BY DEF IInv
  <2>2. pc[v] # "unspawned"
    BY <2>1 DEF Placed
  <2>3. /\ ChunkFirst(v) \in Nat \ {0} /\ ChunkLast(v) \in Nat /\ ChunkLast(v) <= Len(files)
        /\ Len(files) \in Nat
    BY <1>1, ChunkBounds
  <2>4. /\ next[v] \in ChunkFirst(v)..(ChunkLast(v) + 1)
        /\ Len(local[v]) = next[v] - ChunkFirst(v)
        /\ local[v][k].path = files[ChunkFirst(v) + k - 1]
    BY <2>1, <2>2 DEF Placed
  <2>. DEFINE j == ChunkFirst(v) + k - 1
  <2>5. j \in ChunkFirst(v)..ChunkLast(v) /\ j \in 1..Len(files) /\ j < next[v]
    BY <2>3, <2>4, BehindNext
  <2>6. j = next[w]
    BY <1>1, <1>2, <2>4, <2>5, FilesDistinct
  <2>7. v = w
    BY <1>1, <2>5, <2>6, ChunksDisjoint
  <2>8. next[w] \in Int
    BY <1>2
  <2>. QED  BY <2>5, <2>6, <2>7, <2>8
<1>. QED  BY <1>3, <1>4, <1>5 DEF VerdictsAre

\* A push says something of a path of which nothing was known.
LEMMA PushSettles ==
    ASSUME IInv, AccountInv, VerdictsAre, VerdictsAre',
           NEW w \in Worker, NEW r \in Result, Pushes(w, r)
    PROVE  \E p \in Path : Contract!Settle(p)
<1>1. /\ TypeOK /\ local[w] \in Seq(Result)
      /\ next[w] \in ChunkFirst(w)..ChunkLast(w)
      /\ UNCHANGED <<files, discoverySkips, report>>
      /\ pc'[w] = "idle" /\ Running(w)
  BY DEF IInv, TypeOK, Pushes, OnlyThread, input, main
<1>2. PICK x : x = files[next[w]]
  OBVIOUS
<1>3. /\ x \in Path /\ x \notin PathsOf(discoverySkips) /\ x \notin LostPaths
      /\ \A v \in Worker : x \notin PathsOf(local[v])
      /\ VerdictOn(x) = "Pending"
  BY <1>1, <1>2, FreshFile
<1>4. /\ \A v : ChunkPaths(v)' = ChunkPaths(v)
      /\ PathsOf(discoverySkips)' = PathsOf(discoverySkips)
  BY <1>1, ChunksFixed DEF ChunkPaths, PathsOf
<1>5. Panicked' = Panicked
  BY <1>1 DEF Panicked, Worker, Running, Pushes, OnlyThread
<1>6. LostPaths' = LostPaths
  BY <1>4, <1>5 DEF LostPaths
<1>7. /\ Len(local'[w]) = Len(local[w]) + 1 /\ Len(local[w]) \in Nat
      /\ \A k \in 1..Len(local[w]) : local'[w][k] = local[w][k]
      /\ local'[w][Len(local[w]) + 1] = r
      /\ r.path = x /\ r.status \in Verdicts
      /\ \A v \in Worker \ {w} : local'[v] = local[v]
  BY <1>1, <1>2, AppendProperties, LenProperties DEF Pushes, OnlyThread
<1>8. VerdictOn(x)' = r.status
  <2>1. x \in Path' /\ x \notin PathsOf(discoverySkips)' /\ x \notin LostPaths'
    BY <1>3, <1>4, <1>6 DEF Path
  <2>2. Len(local[w]) + 1 \in 1..Len(local'[w]) /\ local'[w][Len(local[w]) + 1].path = x
    BY <1>7
  <2>3. w \in Worker'
    BY DEF Worker
  <2>. QED  BY <1>7, <2>1, <2>2, <2>3 DEF VerdictsAre
<1>9. ASSUME NEW p \in Path, p # x PROVE VerdictOn(p)' = VerdictOn(p)
  <2>1. p \in Path' /\ Worker' = Worker
    BY DEF Path, Worker
  <2>2. CASE p \in PathsOf(discoverySkips)
    BY <1>4, <2>1, <2>2 DEF VerdictsAre
  <2>3. CASE p \notin PathsOf(discoverySkips) /\ p \in LostPaths
    BY <1>4, <1>6, <2>1, <2>3 DEF VerdictsAre
  <2>4. CASE /\ p \notin PathsOf(discoverySkips) /\ p \notin LostPaths
             /\ \E v \in Worker : \E k \in 1..Len(local[v]) : local[v][k].path = p
    <3>1. PICK v \in Worker : \E k \in 1..Len(local[v]) : local[v][k].path = p
      BY <2>4
    <3>2. PICK k \in 1..Len(local[v]) : local[v][k].path = p
      BY <3>1
    <3>3. k \in 1..Len(local'[v]) /\ local'[v][k] = local[v][k]
      BY <1>7
    <3>4. VerdictOn(p) = local[v][k].status
      BY <2>4, <3>2 DEF VerdictsAre
    <3>5. VerdictOn(p)' = local'[v][k].status
      BY <1>4, <1>6, <2>1, <2>4, <3>2, <3>3 DEF VerdictsAre
    <3>. QED  BY <3>3, <3>4, <3>5
  <2>5. CASE /\ p \notin PathsOf(discoverySkips) /\ p \notin LostPaths
             /\ \A v \in Worker : \A k \in 1..Len(local[v]) : local[v][k].path # p
    <3>1. \A v \in Worker : p \notin PathsOf(local[v])
      BY <2>5 DEF PathsOf
    <3>2. ASSUME NEW v \in Worker, NEW k \in 1..Len(local'[v]) PROVE local'[v][k].path # p
      <4>1. CASE v # w
        BY <1>7, <2>5, <4>1
      <4>2. CASE v = w
        <5>1. k \in 1..Len(local[w]) \/ k = Len(local[w]) + 1
          BY <1>7, <4>2
        <5>. QED  BY <1>7, <1>9, <2>5, <4>2, <5>1
      <4>. QED  BY <4>1, <4>2
    <3>3. \A v \in Worker : p \notin PathsOf(local[v])'
      BY <3>2 DEF PathsOf
    <3>4. VerdictOn(p) = "Pending"
      BY <2>5, <3>1 DEF VerdictsAre
    <3>5. VerdictOn(p)' = "Pending"
      BY <1>4, <1>6, <2>1, <2>5, <3>3 DEF VerdictsAre
    <3>. QED  BY <3>4, <3>5
  <2>. QED  BY <2>2, <2>3, <2>4, <2>5
<1>10. [p \in Path |-> VerdictOn(p)]' = [[p \in Path |-> VerdictOn(p)] EXCEPT ![x] = r.status]
  BY <1>3, <1>8, <1>9 DEF Path
<1>11. Listing' = Listing
  BY <1>1, ListingStays
<1>. QED  BY <1>1, <1>3, <1>7, <1>10, <1>11
          DEF Contract!Settle, Contract!Path, Contract!Pending, Verdicts, Path

\* A thread that dies loses its chunk.
LEMMA DieLoses ==
    ASSUME IInv, AccountInv, StatusInv, VerdictsAre, NEW w \in Worker, Die(w)
    PROVE  \E S \in SUBSET Path : Contract!Lose(S)
<1>. DEFINE S == ChunkPaths(w)
<1>1. /\ Running(w) /\ local'[w] = local[w] /\ pc'[w] = "panicked"
      /\ \A v \in Worker \ {w} : pc'[v] = pc[v] /\ local'[v] = local[v]
      /\ UNCHANGED <<files, discoverySkips, report>>
  BY DieDies DEF OnlyThread, input, main
<1>2. TypeOK /\ InputInv
  BY DEF IInv, AccountInv
<1>3. ~report.published
  BY <1>1, RunningUnjoined
<1>4. S \subseteq FilePaths /\ S \subseteq Path
  <2>1. /\ ChunkFirst(w) \in Nat \ {0} /\ ChunkLast(w) \in Nat /\ ChunkLast(w) <= Len(files)
        /\ Len(files) \in Nat
    BY <1>2, ChunkBounds
  <2>2. ChunkFirst(w)..ChunkLast(w) \subseteq 1..Len(files)
    BY <2>1
  <2>. QED  BY <1>2, <2>2, FilesDistinct DEF ChunkPaths, FilePaths
<1>5. \A p \in S : p \notin PathsOf(discoverySkips)
  BY <1>2, <1>4 DEF InputInv
<1>6. \A p \in S : p \notin LostPaths
  <2>1. \A v \in Panicked : v \in Worker /\ v # w
    BY <1>1 DEF Panicked, Running
  <2>2. \A v \in Panicked : ChunkPaths(v) \cap ChunkPaths(w) = {}
    BY <1>2, <2>1, ChunkPathsDisjoint
  <2>. QED  BY <2>2 DEF LostPaths
<1>7. \A v : ChunkPaths(v)' = ChunkPaths(v)
  BY <1>1, ChunksFixed DEF ChunkPaths
<1>8. Panicked' = Panicked \cup {w}
  BY <1>1 DEF Panicked, Worker
<1>9. ASSUME NEW p \in S PROVE VerdictOn(p) \notin {"Lost", DiscoverySkip}
  <2>1. CASE \A v \in Worker : p \notin PathsOf(local[v])
    BY <1>4, <1>5, <1>6, <2>1 DEF VerdictsAre, DiscoverySkip
  <2>2. CASE ~(\A v \in Worker : p \notin PathsOf(local[v]))
    <3>1. PICK v \in Worker : \E k \in 1..Len(local[v]) : local[v][k].path = p
      BY <2>2 DEF PathsOf
    <3>2. PICK k \in 1..Len(local[v]) : local[v][k].path = p
      BY <3>1
    <3>3. VerdictOn(p) = local[v][k].status
      BY <1>4, <1>5, <1>6, <3>2 DEF VerdictsAre
    <3>4. local[v][k].status \in Verdicts
      BY DEF StatusInv, EntryInv
    <3>. QED  BY <3>3, <3>4, VerdictReasons
  <2>. QED  BY <2>1, <2>2
<1>10. ASSUME NEW p \in Path
       PROVE  VerdictOn(p)' = IF p \in S THEN "Lost" ELSE VerdictOn(p)
  <2>1. Recorded(p, discoverySkips)' = Recorded(p, discoverySkips)
    BY <1>1 DEF Recorded
  <2>2. Recorded(p, discoverySkips) <=> p \in PathsOf(discoverySkips)
    BY DEF Recorded, PathsOf
  <2>3. local' = local
    BY DEF Die, GoTo
  <2>4. (\E v \in Panicked : p \in ChunkPaths(v))' <=> p \in S \/ \E v \in Panicked : p \in ChunkPaths(v)
    BY <1>7, <1>8
  <2>5. CASE p \in S
    <3>1. ~Recorded(p, discoverySkips)'
      BY <1>5, <2>1, <2>2, <2>5
    <3>. QED  BY <2>4, <2>5, <3>1 DEF VerdictOn
  <2>6. CASE p \notin S
    <3>1. (\E v \in Panicked : p \in ChunkPaths(v))' <=> \E v \in Panicked : p \in ChunkPaths(v)
      BY <2>4, <2>6
    <3>2. (\E v \in Worker : Recorded(p, local[v]))' <=> \E v \in Worker : Recorded(p, local[v])
      BY <2>3 DEF Recorded, Worker
    <3>3. StatusIn(p, local[CHOOSE v \in Worker : Recorded(p, local[v])])'
            = StatusIn(p, local[CHOOSE v \in Worker : Recorded(p, local[v])])
      BY <2>3 DEF StatusIn, Recorded, Worker
    <3>. QED  BY <2>1, <2>6, <3>1, <3>2, <3>3, Zenon DEF VerdictOn
  <2>. QED  BY <2>5, <2>6
<1>. HIDE DEF S
<1>11. Listing' = Listing
  BY <1>1, ListingStays
<1>12. [p \in Path |-> VerdictOn(p)]'
         = [p \in Path |-> IF p \in S THEN "Lost" ELSE [q \in Path |-> VerdictOn(q)][p]]
  BY <1>10 DEF Path
<1>13. \A p \in S : [q \in Path |-> VerdictOn(q)][p] \notin {"Lost", DiscoverySkip}
  BY <1>4, <1>9
<1>. QED  BY <1>1, <1>3, <1>4, <1>11, <1>12, <1>13
          DEF Contract!Lose, Contract!Path, Contract!Lost, Path

\* With every thread joined nothing is pending, and the sorted list has the verdicts
\* that are left.
LEMMA PublishLists ==
    ASSUME IInv, AccountInv, StatusInv, VerdictsAre, Publish
    PROVE  Contract!Publish
<1>. DEFINE s == results \o discoverySkips
            t == SortByPath(s)
            left == {q \in Path : VerdictOn(q) # "Lost"}
<1>1. /\ UNCHANGED <<input, worker, spawned>>
      /\ AllSpawned /\ joined = spawned /\ ~report.published
      /\ report'.published = TRUE /\ report'.files = t
  BY DEF Publish
<1>2. TypeOK /\ InputInv /\ JoinInv
  BY DEF IInv, AccountInv
<1>3. results \in Seq(Result) /\ discoverySkips \in Seq(Result)
  BY <1>2 DEF TypeOK
<1>4. /\ LostPaths \subseteq Path
      /\ PathsOf(results) \cup PathsOf(discoverySkips) = Path \ LostPaths
      /\ PathsOf(results) \cap PathsOf(discoverySkips) = {}
  BY <1>1, AllJoined
<1>5. /\ s \in Seq(Result) /\ PathsOf(s) = Path \ LostPaths
      /\ Len(s) = Len(results) + Len(discoverySkips)
      /\ Len(results) \in Nat /\ Len(discoverySkips) \in Nat
      /\ \A i \in 1..Len(results) : s[i] = results[i]
      /\ \A i \in 1..Len(discoverySkips) : s[Len(results) + i] = discoverySkips[i]
  BY <1>3, <1>4, ConcatEntries, ConcatPaths
<1>. HIDE DEF s
<1>6. /\ Len(t) = Len(s)
      /\ \A k \in 1..Len(s) : \E i \in 1..Len(s) : t[k] = s[i]
      /\ \A i \in 1..Len(s) : \E k \in 1..Len(s) : t[k] = s[i]
  BY <1>5, SortByPathProperties
<1>. HIDE DEF t
<1>7. ASSUME NEW i \in 1..Len(s)
      PROVE  /\ s[i].path \in Path \ LostPaths
             /\ VerdictOn(s[i].path) = s[i].status
             /\ s[i].status \notin {"Lost", "Pending"}
  <2>1. s[i].path \in Path \ LostPaths
    BY <1>5 DEF PathsOf
  <2>2. CASE i \in 1..Len(results)
    <3>1. s[i] = results[i] /\ results[i].path \in PathsOf(results)
      BY <1>5, <2>2 DEF PathsOf
    <3>2. PICK w \in Worker : \E j \in 1..Len(local[w]) : results[i] = local[w][j]
      BY <2>2 DEF StatusInv, ResultsInv
    <3>3. PICK j \in 1..Len(local[w]) : results[i] = local[w][j]
      BY <3>2
    <3>4. local[w][j].status \in Verdicts
      BY DEF StatusInv, EntryInv
    <3>5. s[i].path \notin PathsOf(discoverySkips)
      BY <1>4, <3>1
    <3>6. VerdictOn(s[i].path) = local[w][j].status
      BY <2>1, <3>1, <3>3, <3>5 DEF VerdictsAre
    <3>. QED  BY <2>1, <3>1, <3>3, <3>4, <3>6, VerdictReasons
  <2>3. CASE i \notin 1..Len(results)
    <3>1. i - Len(results) \in 1..Len(discoverySkips) /\ Len(results) + (i - Len(results)) = i
      BY <1>5, <2>3
    <3>2. s[i] = discoverySkips[i - Len(results)]
      BY <1>5, <3>1
    <3>3. s[i].path \in PathsOf(discoverySkips) /\ s[i].status = DiscoverySkip
      BY <3>1, <3>2 DEF PathsOf, StatusInv, SkipsInv
    <3>. QED  BY <2>1, <3>3 DEF VerdictsAre, DiscoverySkip
  <2>. QED  BY <2>2, <2>3
<1>8. \A p \in LostPaths : VerdictOn(p) = "Lost"
  <2>1. \A p \in LostPaths : p \in Path /\ p \notin PathsOf(discoverySkips)
    BY <1>4
  <2>. QED  BY <2>1 DEF VerdictsAre
<1>9. \A p \in Path : p \in LostPaths \/ \E i \in 1..Len(s) : s[i].path = p
  BY <1>5 DEF PathsOf
<1>10. \A p \in Path : VerdictOn(p) # "Pending"
  BY <1>7, <1>8, <1>9
<1>11. {<<t[k].path, t[k].status>> : k \in 1..Len(t)} = {<<p, VerdictOn(p)>> : p \in left}
  <2>1. ASSUME NEW k \in 1..Len(t)
        PROVE  t[k].path \in left /\ VerdictOn(t[k].path) = t[k].status
    <3>1. PICK i \in 1..Len(s) : t[k] = s[i]
      BY <1>6
    <3>. QED  BY <1>7, <3>1
  <2>2. ASSUME NEW p \in left
        PROVE  \E k \in 1..Len(t) : t[k].path = p /\ t[k].status = VerdictOn(p)
    <3>1. PICK i \in 1..Len(s) : s[i].path = p
      BY <1>8, <1>9
    <3>2. PICK k \in 1..Len(s) : t[k] = s[i]
      BY <1>6
    <3>. QED  BY <1>6, <1>7, <3>1, <3>2
  <2>. QED  BY <2>1, <2>2
<1>12. Listing' = {<<p, VerdictOn(p)>> : p \in left}
  <2>1. Listing' = {<<t[k].path, t[k].status>> : k \in 1..Len(t)}
    BY <1>1 DEF Listing
  <2>. QED  BY <1>11, <2>1
<1>13. Verdict' = Verdict
  <2>1. UNCHANGED <<files, discoverySkips, local>>
    BY <1>1 DEF input, worker
  <2>2. Panicked' = Panicked
    BY <1>1, MainFixed
  <2>. QED  BY <2>1, <2>2, VerdictsStay
<1>14. {<<p, VerdictOn(p)>> : p \in left} = {<<p, Verdict[p]>> : p \in {q \in Path : Verdict[q] # "Lost"}}
  BY DEF Verdict
<1>15. \A p \in Path : Verdict[p] # "Pending"
  BY <1>10 DEF Verdict
<1>. QED  BY <1>1, <1>12, <1>13, <1>14, <1>15
          DEF Contract!Publish, Contract!Path, Contract!Lost, Contract!Pending, Path, Verdict

\* Spawning, joining, reading, running detectors and returning are not seen.
LEMMA Unseen ==
    ASSUME IInv, \/ Spawn \/ JoinReturned \/ JoinPanicked \/ UNCHANGED vars
                 \/ \E w \in Worker : Moves(w)
    PROVE  UNCHANGED SeenVars
<1>1. TypeOK
  BY DEF IInv
<1>2. UNCHANGED <<files, discoverySkips, local, report>>
  <2>1. CASE \E w \in Worker : Moves(w)
    BY <2>1 DEF Moves, OnlyThread, input, main
  <2>. QED  BY <2>1 DEF Spawn, JoinReturned, JoinPanicked, vars, input, main, worker
<1>3. Panicked' = Panicked
  <2>1. CASE Spawn
    <3>1. \A v \in Worker : v > spawned => pc[v] = "unspawned"
      BY <1>1, PipelineAssumption DEF IInv, Placed, Worker, TypeOK
    <3>2. \A v \in Worker : v # spawned + 1 => pc'[v] = pc[v]
      BY <1>1, <2>1 DEF Spawn, TypeOK
    <3>3. \A v \in Worker : v = spawned + 1 => v > spawned /\ pc'[v] = "idle"
      BY <1>1, <2>1, PipelineAssumption DEF Spawn, TypeOK
    <3>. QED  BY <3>1, <3>2, <3>3 DEF Panicked, Worker
  <2>2. CASE \E w \in Worker : Moves(w)
    BY <2>2 DEF Moves, OnlyThread, Running, Panicked, Worker
  <2>3. CASE JoinReturned \/ JoinPanicked \/ UNCHANGED vars
    BY <2>3 DEF JoinReturned, JoinPanicked, vars, worker, Panicked, Worker
  <2>. QED  BY <2>1, <2>2, <2>3
<1>. QED  BY <1>2, <1>3, VerdictsStay, ListingStays DEF SeenVars

LEMMA ContractStep ==
    IInv /\ AccountInv /\ StatusInv /\ VerdictsAre /\ VerdictsAre' /\ [Next]_vars
        => [Contract!Next]_(Contract!vars)
<1>. SUFFICES ASSUME IInv, AccountInv, StatusInv, VerdictsAre, VerdictsAre', [Next]_vars
              PROVE  Contract!Next \/ UNCHANGED SeenVars
  BY DEF SeenVars, Verdict, Contract!vars
<1>1. CASE MainStep
  BY <1>1, Unseen, PublishLists DEF MainStep, Contract!Next
<1>2. ASSUME NEW w \in Worker, WorkerStep(w) \/ Expire(w) \/ CatchPanic(w) \/ Die(w)
      PROVE  Contract!Next \/ UNCHANGED SeenVars
  <2>1. ASSUME NEW r \in Result, Pushes(w, r) PROVE Contract!Next
    BY <2>1, PushSettles DEF Contract!Next, Contract!Path, Path
  <2>2. CASE Moves(w)
    BY <2>2, Unseen
  <2>3. CASE Die(w)
    BY <2>3, DieLoses DEF Contract!Next, Contract!Path, Path
  <2>. QED  BY <1>2, <2>1, <2>2, <2>3, PushesPush, MovesMove DEF WorkerStep
<1>3. CASE UNCHANGED vars
  BY <1>3, Unseen
<1>. QED  BY <1>1, <1>2, <1>3 DEF Next, Terminated

THEOREM StatusInvariance == Spec => []StatusInv
BY InitStatus, NextStatus, Invariance, AccountInvariance, PTL DEF Spec

\* The threads, the chunks, the sort and the panics implement the contract: a verdict
\* is given once and only lost with its thread, and the report has those left.
THEOREM Implements == Spec => ImplementsContract
<1>1. Init => Contract!Init
  BY InitContract
<1>2. IInv => VerdictsAre
  BY VerdictCases
<1>. QED  BY <1>1, <1>2, ContractStep, Invariance, AccountInvariance, StatusInvariance, PTL
          DEF Spec, ImplementsContract, Contract!Spec
=============================================================================
