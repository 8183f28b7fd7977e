--------------------------- MODULE ScanRefinement ---------------------------
(***************************************************************************)
(* ScanPipeline implements ScanContract: the verdict on a path is the one  *)
(* in the results of its thread, lost once that thread has panicked.       *)
(***************************************************************************)
EXTENDS ScanPipeline

\* The reasons are those of io::ErrorKind and SkippedReason (source.rs), none of
\* them the words the contract uses for itself.
ASSUME ReasonsApart == SourceReasons \cap {DiscoverySkip, "Pending", "Lost"} = {}

Recorded(p, s) == \E i \in 1..Len(s) : s[i].path = p
StatusIn(p, s) == s[CHOOSE i \in 1..Len(s) : s[i].path = p].status

VerdictOn(p) ==
    IF Recorded(p, discoverySkips) THEN DiscoverySkip
    ELSE IF \E w \in Panicked : p \in ChunkPaths(w) THEN "Lost"
    ELSE IF \E w \in Worker : Recorded(p, local[w])
         THEN StatusIn(p, local[CHOOSE w \in Worker : Recorded(p, local[w])])
         ELSE "Pending"

Listing ==
    IF ~report.published THEN {}
    ELSE {<<report.files[i].path, report.files[i].status>> :
             i \in 1..Len(report.files)}

Contract == INSTANCE ScanContract WITH
    Verdicts <- (Reason \cup {Scanned}) \ {DiscoverySkip},
    verdict <- [p \in Path |-> VerdictOn(p)],
    published <- report.published,
    listing <- Listing

\* The threads, the chunks and the join implement the contract: a file's
\* verdict is given once and only lost with its thread, and the report is
\* exactly the verdicts left when none is pending.
ImplementsContract == Contract!Spec
=============================================================================
