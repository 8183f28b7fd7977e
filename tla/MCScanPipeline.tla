--------------------------- MODULE MCScanPipeline ---------------------------
(***************************************************************************)
(* ScanPipeline on up to four files, two threads and two detectors: two    *)
(* full chunks, a full one beside a shorter one, one chunk for two         *)
(* threads, an empty file list, a timeout before and after each detector,  *)
(* and a thread that dies after it recorded results and counted panics.    *)
(***************************************************************************)
EXTENDS ScanRefinement
=============================================================================
