--------------------------- MODULE MCIngestStream ---------------------------
(* Instances of IngestStream: one decision, in three batches of a file that  *)
(* two runs read.                                                           *)
EXTENDS IngestStream

CONSTANTS u1, t1, t2
=============================================================================
