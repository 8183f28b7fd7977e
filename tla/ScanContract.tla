---------------------------- MODULE ScanContract ----------------------------
(***************************************************************************)
(* What a scan promises, with no threads, chunks or detectors in it: every *)
(* path gets one verdict, a verdict once given is never changed for        *)
(* another, files may be lost with the thread that had them, and one       *)
(* report is published of exactly the verdicts that are left, when none is *)
(* outstanding.                                                            *)
(***************************************************************************)
EXTENDS Naturals

CONSTANTS
    NumPaths,       \* paths of the scanned tree
    Verdicts,       \* what a scan can say of a file it was given
    DiscoverySkip   \* what is said of a path discovery refused

VARIABLES
    verdict,        \* verdict[p]: what is known of path p
    published,      \* whether scan_path has returned
    listing         \* the entries of the report, none before it is published

vars == <<verdict, published, listing>>

Path == 1..NumPaths
Pending == "Pending"
Lost == "Lost"

Init ==
    /\ verdict \in [Path -> {Pending, DiscoverySkip}]
    /\ published = FALSE
    /\ listing = {}

\* A file is scanned or skipped.
Settle(p) ==
    /\ verdict[p] = Pending
    /\ \E v \in Verdicts : verdict' = [verdict EXCEPT ![p] = v]
    /\ UNCHANGED <<published, listing>>

\* A thread dies: what was said of its files and what was pending is lost.
Lose(S) ==
    /\ ~published
    /\ \A p \in S : verdict[p] \notin {Lost, DiscoverySkip}
    /\ verdict' = [p \in Path |-> IF p \in S THEN Lost ELSE verdict[p]]
    /\ UNCHANGED <<published, listing>>

Publish ==
    /\ ~published
    /\ \A p \in Path : verdict[p] # Pending
    /\ published' = TRUE
    /\ listing' = {<<p, verdict[p]>> : p \in {q \in Path : verdict[q] # Lost}}
    /\ UNCHANGED verdict

Next ==
    \/ \E p \in Path : Settle(p)
    \/ \E S \in SUBSET Path : Lose(S)
    \/ Publish

Spec == Init /\ [][Next]_vars
=============================================================================
