---------------------------- MODULE MCSourceRead ----------------------------
(***************************************************************************)
(* SourceRead with a cap of two units and a probe of one: files shorter    *)
(* than, as long as and two units longer than the cap, NUL bytes inside    *)
(* and beyond the probe, and one replacement of the path at any moment.    *)
(***************************************************************************)
EXTENDS SourceRead
=============================================================================
