------------------------------ MODULE PanicHook ------------------------------
(***************************************************************************)
(* SuppressedPanicHook of sessionscope-core (pipeline.rs): a scan takes    *)
(* the panic hook of the process, sets a silent one, and puts back what it *)
(* took when it ends.  Several scans may run in one process, as the tests  *)
(* of the workspace do; each call of std::panic is atomic, the pair of     *)
(* them is not.                                                            *)
(***************************************************************************)
CONSTANTS Scans

VARIABLES
    hook,           \* of the process: "default" prints a panic's payload
    previous,       \* what a scan took
    pc,
    printed         \* the payload of a detector's panic was printed

vars == <<hook, previous, pc, printed>>

Hook == {"default", "silent"}

Init ==
    /\ hook = "default"
    /\ previous = [s \in Scans |-> "default"]
    /\ pc = [s \in Scans |-> "idle"]
    /\ printed = FALSE

TakeHook(s) ==
    /\ pc[s] = "idle"
    /\ previous' = [previous EXCEPT ![s] = hook]
    /\ hook' = "default"
    /\ pc' = [pc EXCEPT ![s] = "taken"]
    /\ UNCHANGED printed

SetHook(s) ==
    /\ pc[s] = "taken"
    /\ hook' = "silent"
    /\ pc' = [pc EXCEPT ![s] = "scanning"]
    /\ UNCHANGED <<previous, printed>>

\* A detector panics: the hook runs first, then catch_unwind discards the
\* payload.
DetectorPanics(s) ==
    /\ pc[s] = "scanning"
    /\ printed' = (printed \/ hook = "default")
    /\ UNCHANGED <<hook, previous, pc>>

DropHook(s) ==
    /\ pc[s] = "scanning"
    /\ hook' = previous[s]
    /\ pc' = [pc EXCEPT ![s] = "idle"]
    /\ UNCHANGED <<previous, printed>>

Next == \E s \in Scans : TakeHook(s) \/ SetHook(s) \/ DetectorPanics(s) \/ DropHook(s)

Spec == Init /\ [][Next]_vars

\* "The panic payload is intentionally discarded" (pipeline.rs): no panic of a
\* detector is printed.  With two scans in a process, the second takes the
\* silent hook of the first away before it sets its own, and the first that
\* ends puts back the hook that prints while the other still scans.
PayloadDiscarded == ~printed
=============================================================================
