---------------------------- MODULE MCQuarantine ----------------------------
(* Small instances of QuarantineExecutor: two files, one of them known by   *)
(* its hash, and candidates that must be refused: not approved, protected,  *)
(* changed since detection.                                                 *)
EXTENDS QuarantineExecutor, TLC

Candidate(id, state, path, sha) ==
  [finding_id |-> id, approval_state |-> state, target_path |-> path, expected_sha256 |-> sha]

MCPaths == {"a.exe", "b.exe", "sys.dll"}

MCContents == {"x", "y", "z"}

MCProtected == {"sys.dll"}

MCCandidates ==
  {Candidate(1, "APPROVED", "a.exe", "x"),
   Candidate(2, "APPROVED", "b.exe", None),
   Candidate(3, "APPROVED", "sys.dll", "z"),
   Candidate(4, "REJECTED", "b.exe", "y"),
   Candidate(5, "APPROVED", "b.exe", "x")}

MCInitialFiles == ("a.exe" :> "x") @@ ("b.exe" :> "y") @@ ("sys.dll" :> "z")

MCRewrites == {<<"b.exe", "y">>, <<"b.exe", "z">>}

\* A quiet machine; failing file-system calls; a busy file, on this volume or on
\* another; dying processes.
MCSurroundings ==
  {{}, {"rename", "locked"}, {"rewrite"}, {"rewrite", "rename"}, {"crash", "rename", "append"}, {"disk_full"}}

CallerSymmetry == Permutations(Callers)
=============================================================================
