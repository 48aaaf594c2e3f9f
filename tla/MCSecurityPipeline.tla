------------------------- MODULE MCSecurityPipeline -------------------------
(* Small instance of SecurityPipeline: one file reported by two sensors,    *)
(* the second with growing confidence, so that two findings on it become    *)
(* candidates; and one malformed report.                                    *)
EXTENDS SecurityPipeline

Obs(source, confidence, deterministic) ==
  [source_id |-> source, kind |-> "YARA_MATCH", wellFormed |-> TRUE,
   confidence |-> confidence, deterministic |-> deterministic,
   process_id |-> 0, process_name |-> None, file_path |-> "a.exe", sha256 |-> None]

MCNorm == "a.exe" :> "a.exe"

MCObservations ==
  {Obs("s1", 100, TRUE),
   Obs("s2",  40, FALSE),
   Obs("s2", 100, FALSE),
   [Obs("s2", 90, FALSE) EXCEPT !.wellFormed = FALSE]}
=============================================================================
