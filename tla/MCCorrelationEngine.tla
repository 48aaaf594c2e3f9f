------------------------ MODULE MCCorrelationEngine -------------------------
(* Small instance of CorrelationEngine: three targets of one kind, one of   *)
(* them in two spellings, one known by its pid only; two sources.           *)
EXTENDS CorrelationEngine

Obs(source, confidence, deterministic, path) ==
  [source_id |-> source, kind |-> "YARA_MATCH", wellFormed |-> TRUE,
   confidence |-> confidence, deterministic |-> deterministic,
   process_id |-> 0, process_name |-> None, file_path |-> path, sha256 |-> None]

MCNorm == ("a.exe" :> "a.exe") @@ ("A.EXE" :> "a.exe") @@ ("b.exe" :> "b.exe")

MCObservations ==
  {Obs("s1", 100, TRUE,  "a.exe"),
   Obs("s1",  80, FALSE, "A.EXE"),
   Obs("s2",  90, FALSE, "a.exe"),
   Obs("s1",  60, FALSE, "b.exe"),
   [Obs("s2",  50, FALSE, None) EXCEPT !.process_id = 7],
   [Obs("s2", 90, FALSE, "b.exe") EXCEPT !.wellFormed = FALSE]}

MCProtected == {"b.exe"}
=============================================================================
