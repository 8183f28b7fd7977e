--------------------------- MODULE MCBaselineDiff ---------------------------
(***************************************************************************)
(* BaselineDiff on every pair of lists of up to MaxFindings findings,      *)
(* repeated ids included.                                                  *)
(***************************************************************************)
EXTENDS BaselineDiff

CONSTANTS MaxFindings, Ids

MCFinding == [id : Ids, print : Prints, places : {{p} : p \in Places}]
MCInputs == UNION {[1..n -> MCFinding] : n \in 0..MaxFindings}
=============================================================================
