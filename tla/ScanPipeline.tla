---------------------------- MODULE ScanPipeline ----------------------------
(***************************************************************************)
(* The parallel file scan of sessionscope-core (pipeline.rs): discovery    *)
(* hands over a sorted list of files, the list is cut into contiguous      *)
(* chunks, one scoped thread scans each chunk file by file, the main       *)
(* thread joins the threads in spawn order, appends the files discovery    *)
(* skipped, sorts by path and publishes one report.                        *)
(*                                                                         *)
(* A path is its rank in path order, so `<` on Path is the order of        *)
(* `left.path.cmp(&right.path)`.                                           *)
(***************************************************************************)
EXTENDS Integers, Sequences, FiniteSets

CONSTANTS
    NumPaths,       \* paths of the scanned tree
    Parallelism,    \* thread::available_parallelism(), 1 when it is unknown
    MaxWorkers,     \* MAX_CONCURRENT_FILE_WORKERS
    NumDetectors,   \* detectors in the registry
    SourceReasons   \* the SkippedReasons read_source_under_root can return

ASSUME PipelineAssumption ==
    /\ NumPaths \in Nat
    /\ Parallelism \in Nat \ {0}
    /\ MaxWorkers \in Nat \ {0}
    /\ NumDetectors \in Nat
    /\ "Scanned" \notin SourceReasons /\ "DetectorPanic" \notin SourceReasons

VARIABLES
    files,          \* discovery.files: the paths to scan, ascending
    discoverySkips, \* discovery.skipped: results for the other paths
    unknown,        \* files whose classify_language is Unknown
    spawned,        \* threads spawned so far
    pc,             \* pc[w]: where thread w is
    next,           \* next[w]: position in `files` of the file thread w is at
    late,           \* late[w]: started_at.elapsed() > budget for that file
    output,         \* output[w]: detectors whose output run_with_deadline kept
    local,          \* local[w]: local_results of thread w
    localPanics,    \* localPanics[w]: local_panics of thread w
    joined,         \* handles joined so far
    results,        \* results of the joined threads
    workerPanicCount,
    report          \* the ScanReport, or NoReport before scan_path returns

worker == <<pc, next, late, output, local, localPanics>>
main == <<spawned, joined, results, workerPanicCount, report>>
input == <<files, discoverySkips, unknown>>
vars == <<input, worker, main>>

Path == 1..NumPaths
Worker == 1..NumPaths
Detector == 1..NumDetectors

Scanned == "Scanned"                \* skipped_reason: None
DiscoverySkip == "DiscoverySkip"    \* any reason discover_files gives
DetectorPanic == "DetectorPanic"    \* ReadError("detector panic")
Reason == SourceReasons \cup
          {DiscoverySkip, DetectorPanic, "Unsupported", "Timeout"}
Result == [path : Path, status : Reason \cup {Scanned},
           evidence : Seq(Detector)]

SkippedResult(p, reason) == [path |-> p, status |-> reason, evidence |-> <<>>]
ScannedResult(p, kept) == [path |-> p, status |-> Scanned, evidence |-> kept]

NoReport == [published |-> FALSE]

-----------------------------------------------------------------------------
(* The division of the work, pipeline.rs scan_files.                       *)

WorkerCount == IF Parallelism < MaxWorkers THEN Parallelism ELSE MaxWorkers
\* Slip: division rounded down, as `len / worker_count` would.
DivFloor(a, b) == a \div b
DivCeil(a, b) == (a + b - 1) \div b
\* Slip: the `.max(1)` forgotten.
AnySize(n) == n
AtLeastOne(n) == IF n > 1 THEN n ELSE 1
ChunkSize == AtLeastOne(DivCeil(Len(files), WorkerCount))

\* Positions of the first and the last file of the chunk of thread w.
ChunkFirst(w) == (w - 1) * ChunkSize + 1
\* Slip: chunks that overlap by one file.
ChunkLastInclusive(w) == IF w * ChunkSize < Len(files) THEN w * ChunkSize + 1
                                                       ELSE Len(files)
ChunkLast(w) == IF w * ChunkSize < Len(files) THEN w * ChunkSize
                                              ELSE Len(files)

\* slice::chunks panics on a chunk size of zero: no thread would be spawned.
MoreChunks == ChunkSize > 0 /\ spawned * ChunkSize < Len(files)
AllSpawned == ChunkSize > 0 /\ spawned * ChunkSize >= Len(files)

\* The sequence s sorted by path, entries of one path in their order in s
\* (sort_by is stable): every entry goes to the position given by its rank.
Precedes(s, j, i) == \/ s[j].path < s[i].path
                     \/ s[j].path = s[i].path /\ j <= i
Rank(s, i) == Cardinality({j \in 1..Len(s) : Precedes(s, j, i)})
\* Slip: the report left in completion order.
Unsorted(s) == s
SortByPath(s) ==
    [k \in 1..Len(s) |-> s[CHOOSE i \in 1..Len(s) : Rank(s, i) = k]]

-----------------------------------------------------------------------------
Ascending(n) == {f \in [1..n -> Path] :
                    \A i, j \in 1..n : i < j => f[i] < f[j]}

Init ==
    /\ \E n \in 0..NumPaths :
        /\ files \in Ascending(n)
        /\ \E others \in Ascending(NumPaths - n) :
            /\ \A i \in 1..n, j \in 1..(NumPaths - n) : files[i] # others[j]
            /\ discoverySkips = [j \in 1..(NumPaths - n) |->
                                   SkippedResult(others[j], DiscoverySkip)]
    /\ unknown \in SUBSET {files[i] : i \in 1..Len(files)}
    /\ spawned = 0
    /\ pc = [w \in Worker |-> "unspawned"]
    /\ next = [w \in Worker |-> 0]
    /\ late = [w \in Worker |-> FALSE]
    /\ output = [w \in Worker |-> <<>>]
    /\ local = [w \in Worker |-> <<>>]
    /\ localPanics = [w \in Worker |-> 0]
    /\ joined = 0
    /\ results = <<>>
    /\ workerPanicCount = 0
    /\ report = NoReport

-----------------------------------------------------------------------------
(* The main thread.                                                        *)

Spawn ==
    /\ MoreChunks
    /\ spawned' = spawned + 1
    /\ pc' = [pc EXCEPT ![spawned + 1] = "idle"]
    /\ next' = [next EXCEPT ![spawned + 1] = ChunkFirst(spawned + 1)]
    /\ UNCHANGED <<input, late, output, local, localPanics,
                   joined, results, workerPanicCount, report>>

\* Slip: a thread's results taken before it has returned.
JoinEarly ==
    LET w == joined + 1 IN
    /\ AllSpawned
    /\ joined < spawned
    /\ pc[w] # "panicked"
    /\ joined' = w
    /\ results' = results \o local[w]
    /\ workerPanicCount' = workerPanicCount + localPanics[w]
    /\ UNCHANGED <<input, worker, spawned, report>>

JoinReturned ==
    LET w == joined + 1 IN
    /\ AllSpawned
    /\ joined < spawned
    /\ pc[w] = "returned"
    /\ joined' = w
    /\ results' = results \o local[w]
    /\ workerPanicCount' = workerPanicCount + localPanics[w]
    /\ UNCHANGED <<input, worker, spawned, report>>

\* Slip: the panics of a dead thread added to its own.
JoinPanickedAddingLocal ==
    /\ AllSpawned
    /\ joined < spawned
    /\ pc[joined + 1] = "panicked"
    /\ joined' = joined + 1
    /\ workerPanicCount' = workerPanicCount + 1 + localPanics[joined + 1]
    /\ UNCHANGED <<input, worker, spawned, results, report>>

\* The thread panicked outside catch_unwind: its results are lost.
JoinPanicked ==
    /\ AllSpawned
    /\ joined < spawned
    /\ pc[joined + 1] = "panicked"
    /\ joined' = joined + 1
    /\ workerPanicCount' = workerPanicCount + 1
    /\ UNCHANGED <<input, worker, spawned, results, report>>

\* scan_path after scan_files: append the discovery skips, sort, count.
Publish ==
    LET merged == SortByPath(results \o discoverySkips)
        scanned == Cardinality({i \in 1..Len(merged) :
                                    merged[i].status = Scanned})
    IN
    /\ AllSpawned
    /\ joined = spawned
    /\ ~report.published
    /\ report' = [published |-> TRUE,
                  files |-> merged,
                  discovered |-> Len(files) + Len(discoverySkips),
                  scanned |-> scanned,
                  skipped |-> Len(merged) - scanned,
                  panics |-> workerPanicCount]
    /\ UNCHANGED <<input, worker, spawned, joined, results, workerPanicCount>>

-----------------------------------------------------------------------------
(* Thread w: the loop body of the closure scan_files spawns, and scan_file. *)

CurrentPath(w) == files[next[w]]

\* local_results.push(result), then on to the next file of the chunk.
Push(w, result) ==
    /\ local' = [local EXCEPT ![w] = Append(@, result)]
    /\ next' = [next EXCEPT ![w] = @ + 1]
    /\ pc' = [pc EXCEPT ![w] = "idle"]
    /\ late' = [late EXCEPT ![w] = FALSE]
    /\ output' = [output EXCEPT ![w] = <<>>]
    /\ UNCHANGED <<input, main>>

GoTo(w, from, to) ==
    /\ pc[w] = from
    /\ pc' = [pc EXCEPT ![w] = to]
    /\ UNCHANGED <<input, main, next, local, localPanics>>

\* Language::Unknown: skipped before the clock starts or the file is read.
SkipUnknown(w) ==
    /\ pc[w] = "idle"
    /\ next[w] <= ChunkLast(w)
    /\ CurrentPath(w) \in unknown
    /\ Push(w, SkippedResult(CurrentPath(w), "Unsupported"))
    /\ UNCHANGED localPanics

StartFile(w) ==
    /\ GoTo(w, "idle", "reading")
    /\ next[w] <= ChunkLast(w)
    /\ CurrentPath(w) \notin unknown
    /\ UNCHANGED <<late, output>>

\* Time passes: the file's budget, halved for a minified one, runs out.
Expire(w) ==
    /\ pc[w] \in {"reading", "before", "detecting", "after"}
    /\ ~late[w]
    /\ late' = [late EXCEPT ![w] = TRUE]
    /\ UNCHANGED <<input, main, pc, next, output, local, localPanics>>

ReadRefused(w) ==
    /\ pc[w] = "reading"
    /\ \E reason \in SourceReasons :
            Push(w, SkippedResult(CurrentPath(w), reason))
    /\ UNCHANGED localPanics

\* run_with_deadline has an iteration per detector; with none it completes.
ReadDone(w) ==
    /\ GoTo(w, "reading", IF NumDetectors = 0 THEN "sanitizing" ELSE "before")
    /\ UNCHANGED <<late, output>>

BeginDetector(w) ==
    /\ ~late[w]
    /\ GoTo(w, "before", "detecting")
    /\ UNCHANGED <<late, output>>

EndDetector(w) ==
    /\ GoTo(w, "detecting", "after")
    /\ UNCHANGED <<late, output>>

\* The detector that ran is the one after those whose output was kept.
KeepOutput(w) ==
    LET d == Len(output[w]) + 1 IN
    /\ ~late[w]
    /\ GoTo(w, "after", IF d = NumDetectors THEN "sanitizing" ELSE "before")
    /\ output' = [output EXCEPT ![w] = Append(@, d)]
    /\ UNCHANGED late

\* Slip: a timed-out file keeps what the earlier detectors produced.
TimeOutKeepingOutput(w) ==
    /\ pc[w] \in {"before", "after"}
    /\ late[w]
    /\ Push(w, [SkippedResult(CurrentPath(w), "Timeout")
                   EXCEPT !.evidence = output[w]])
    /\ UNCHANGED localPanics

\* RunOutcome::TimedOut drops what the earlier detectors produced.
TimeOut(w) ==
    /\ pc[w] \in {"before", "after"}
    /\ late[w]
    /\ Push(w, SkippedResult(CurrentPath(w), "Timeout"))
    /\ UNCHANGED localPanics

FinishFile(w) ==
    /\ pc[w] = "sanitizing"
    /\ Push(w, ScannedResult(CurrentPath(w), output[w]))
    /\ UNCHANGED localPanics

\* A panic inside catch_unwind costs the file, not the thread.
CatchPanic(w) ==
    /\ pc[w] \in {"reading", "detecting", "sanitizing"}
    /\ localPanics' = [localPanics EXCEPT ![w] = @ + 1]
    /\ Push(w, SkippedResult(CurrentPath(w), DetectorPanic))

\* A panic outside catch_unwind costs the thread and all its results.
Die(w) ==
    /\ GoTo(w, "idle", "panicked")
    /\ UNCHANGED <<late, output>>

Return(w) ==
    /\ GoTo(w, "idle", "returned")
    /\ next[w] > ChunkLast(w)
    /\ UNCHANGED <<late, output>>

-----------------------------------------------------------------------------
MainStep == Spawn \/ JoinReturned \/ JoinPanicked \/ Publish

\* The steps a running thread takes on its own; time and panics are not its.
WorkerStep(w) ==
    \/ SkipUnknown(w)   \/ StartFile(w)    \/ ReadRefused(w) \/ ReadDone(w)
    \/ BeginDetector(w) \/ EndDetector(w)  \/ KeepOutput(w)
    \/ TimeOut(w)       \/ FinishFile(w)   \/ Return(w)

Terminated == report.published /\ UNCHANGED vars

Next ==
    \/ MainStep
    \/ \E w \in Worker : WorkerStep(w) \/ Expire(w) \/ CatchPanic(w) \/ Die(w)
    \/ Terminated

Fairness == WF_vars(MainStep) /\ \A w \in Worker : WF_vars(WorkerStep(w))

Spec == Init /\ [][Next]_vars
FairSpec == Spec /\ Fairness

-----------------------------------------------------------------------------
(* Properties.                                                             *)


\* The places at which scan_file holds the body of a file, and all places.
BodyStatus == {"reading", "before", "detecting", "after", "sanitizing"}
Status == {"unspawned", "idle", "returned", "panicked"} \cup BodyStatus

\* The types of the variables; in particular a thread never looks past the
\* end of the file list, so `files[next[w]]` is a file while it works on one.
TypeOK ==
    /\ Len(files) \in 0..NumPaths
    /\ files \in Ascending(Len(files))
    /\ discoverySkips \in Seq(Result)
    /\ unknown \subseteq Path
    /\ spawned \in 0..NumPaths
    /\ pc \in [Worker -> Status]
    /\ next \in [Worker -> 0..(NumPaths + 1)]
    /\ late \in [Worker -> BOOLEAN]
    /\ output \in [Worker -> Seq(Detector)]
    /\ local \in [Worker -> Seq(Result)]
    /\ localPanics \in [Worker -> Nat]
    /\ joined \in 0..spawned
    /\ results \in Seq(Result)
    /\ workerPanicCount \in Nat
    /\ report.published \in BOOLEAN
    /\ report.published => report.files \in Seq(Result)

\* The threads whose scan_file holds the body of a file.
Scanning == {w \in Worker : pc[w] \in BodyStatus}

\* "The pipeline caps simultaneous in-flight file bodies at
\* min(available_parallelism(), 4)" (docs/CONFIGURATION.md): the chunk size
\* alone must keep the number of threads down to that.
BoundedInFlight == Cardinality(Scanning) <= WorkerCount

\* A result carries the output of every detector in registry order, or it is
\* skipped and carries none: a timeout or a panic half way through the
\* registry, or the file scanned before, never leaks part of it.
AllOrNothing(r) ==
    r.evidence = IF r.status = Scanned THEN [d \in Detector |-> d] ELSE <<>>

NoPartialEvidence ==
    /\ \A w \in Worker : \A i \in 1..Len(local[w]) : AllOrNothing(local[w][i])
    /\ \A i \in 1..Len(results) : AllOrNothing(results[i])
    /\ report.published =>
            \A i \in 1..Len(report.files) : AllOrNothing(report.files[i])

\* The files thread w was given.
ChunkPaths(w) == {files[i] : i \in ChunkFirst(w)..ChunkLast(w)}
PathsOf(s) == {s[i].path : i \in 1..Len(s)}

Touched(w) == PathsOf(local[w]) \cup {CurrentPath(v) : v \in {w} \cap Scanning}

\* No two threads touch one file, in whatever order they run: the files a
\* thread recorded or is scanning are no other thread's, and it records none
\* of them twice.
FileOwnership ==
    \A v, w \in 1..spawned :
        /\ v # w => Touched(v) \cap Touched(w) = {}
        /\ Cardinality(Touched(w)) = Len(local[w]) + Cardinality({w} \cap Scanning)

Panicked == {w \in Worker : pc[w] = "panicked"}
PanicEntries(s) == {i \in 1..Len(s) : s[i].status = DetectorPanic}

\* Every panic is counted once: the published counter is the number of
\* "detector panic" entries plus the number of threads that died, whichever
\* threads died and whatever they had counted before.
PanicAccounting ==
    report.published =>
        report.panics =
            Cardinality(PanicEntries(report.files)) + Cardinality(Panicked)

\* The published report lists, in ascending path order and once each, every
\* path of the tree but the chunks of the threads that died, and its counts
\* are those of the list: the same files whatever order the threads ran in.
ReportComplete ==
    report.published =>
        LET lost == UNION {ChunkPaths(w) : w \in Panicked} IN
        /\ PathsOf(report.files) = Path \ lost
        /\ \A i, j \in 1..Len(report.files) :
                i < j => report.files[i].path < report.files[j].path
        /\ report.scanned + report.skipped
                = report.discovered - Cardinality(lost)

\* scan_path returns a report: no file, panic or lost thread blocks the join.
ScanReturns == <>report.published

-----------------------------------------------------------------------------
(* The inductive invariant behind the safety properties.                   *)

\* Thread w exists iff it is one of the first `spawned`; its position is in
\* its own chunk and its results are those of the files before it there.
Placed(w) ==
    IF pc[w] = "unspawned"
    THEN w > spawned /\ local[w] = <<>>
    ELSE /\ w <= spawned
         /\ (w - 1) * ChunkSize < Len(files)
         /\ next[w] \in ChunkFirst(w)..(ChunkLast(w) + 1)
         /\ pc[w] \in BodyStatus => next[w] <= ChunkLast(w)
         /\ Len(local[w]) = next[w] - ChunkFirst(w)
         /\ \A k \in 1..Len(local[w]) :
                local[w][k].path = files[ChunkFirst(w) + k - 1]

\* The output kept so far is that of a prefix of the registry: a proper one
\* while detectors remain, all of it in the sanitizer, none between files.
KeptInOrder(w) ==
    /\ output[w] = [d \in 1..Len(output[w]) |-> d]
    /\ pc[w] \in {"before", "detecting", "after"} => Len(output[w]) < NumDetectors
    /\ pc[w] = "sanitizing" => Len(output[w]) = NumDetectors
    /\ pc[w] \notin BodyStatus \ {"reading"} => output[w] = <<>>

IInv ==
    /\ TypeOK
    /\ \A w \in Worker : Placed(w) /\ KeptInOrder(w)
    /\ NoPartialEvidence
    /\ \A i \in 1..Len(discoverySkips) : AllOrNothing(discoverySkips[i])
=============================================================================
