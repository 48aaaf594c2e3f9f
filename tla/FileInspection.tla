--------------------------- MODULE FileInspection ---------------------------
EXTENDS Naturals, Sequences, FiniteSets

(***************************************************************************)
(* ArtifactTrustEngine::inspect() reads a file three times: the first      *)
(* MAX_INSPECTION_BYTES, the hash, the whole for its signature.  Another   *)
(* program may write to the file between them, and each of them may find   *)
(* that the file cannot be opened.  A content is told by where its PE      *)
(* header is, its size and whether its signature, which covers all of it,  *)
(* holds.  The file is an executable in a place for downloads; the entropy *)
(* of its bytes, which is reported by itself, is left out.                 *)
(***************************************************************************)

CONSTANTS AtContents,   \* records: header "near", "far" (beyond the first bytes) or "broken";
                        \* size "small", "large" (than MAX_INSPECTION_BYTES) or "huge" (than
                        \* MAX_SIGNATURE_CHECK_BYTES); signed
          AtMaxWrites, AtMaxInspections

ASSUME AtConstants == {AtMaxWrites, AtMaxInspections} \subseteq Nat

VARIABLES atFile,       \* content of the file
          atHand,       \* inspect(): where it is, the bytes judged and the content hashed
          atWrites, atInspections,
          atQuiet,      \* history: the file was not written since the inspection began
          atFailed,     \* history: a read of this inspection failed
          atSaid        \* history: the last observations

atVars == <<atFile, atHand, atWrites, atInspections, atQuiet, atFailed, atSaid>>

AtNothing == [header |-> "none", size |-> "small", signed |-> FALSE]
AtIdle == [pc |-> "idle", bytes |-> AtNothing, hashed |-> AtNothing]

AtInit ==
  /\ atFile = CHOOSE c \in AtContents : TRUE
  /\ atHand = AtIdle /\ atWrites = 0 /\ atInspections = 0
  /\ atQuiet = TRUE /\ atFailed = FALSE /\ atSaid = {}

AtWrite(c) ==
  /\ atWrites < AtMaxWrites /\ atWrites' = atWrites + 1 /\ atFile' = c /\ atQuiet' = FALSE
  /\ UNCHANGED <<atHand, atInspections, atFailed, atSaid>>

\* A file that cannot be opened ends inspect() with nothing said.
AtRead ==
  /\ atHand.pc = "idle" /\ atInspections < AtMaxInspections /\ atInspections' = atInspections + 1
  /\ \/ atHand' = [atHand EXCEPT !.pc = "hash", !.bytes = atFile] /\ atFailed' = FALSE
     \/ atHand' = AtIdle /\ atFailed' = TRUE
  /\ atQuiet' = TRUE /\ atSaid' = {}
  /\ UNCHANGED <<atFile, atWrites>>

\* looks_like_invalid_pe(), on the first bytes: a header beyond them is none.
AtInvalidPe(c) == c.header = "broken" \/ (c.header = "far" /\ c.size # "small")

AtSays(kind, judged, hash) == {[kind |-> kind, judged |-> judged, hash |-> hash]}

\* hash_file(), which answers "" if it cannot read, and the end of it for a
\* broken executable.
AtHash ==
  /\ atHand.pc = "hash"
  /\ \E hash \in {atFile, AtNothing} :
       /\ IF AtInvalidPe(atHand.bytes)
          THEN atHand' = AtIdle /\ atSaid' = AtSays("INVALID_PE", atHand.bytes, hash)
          ELSE atHand' = [atHand EXCEPT !.pc = "signature", !.hashed = hash] /\ UNCHANGED atSaid
       /\ atFailed' = (atFailed \/ hash = AtNothing)
  /\ UNCHANGED <<atFile, atWrites, atInspections, atQuiet>>

\* has_valid_offline_signature(): the whole file is read again, unless it is
\* too large for that.
AtSigned(c) == c.signed /\ c.size # "huge"

\* A file that cannot be read, or not to its end, counts as unsigned.
AtSignature ==
  /\ atHand.pc = "signature" /\ atHand' = AtIdle
  /\ \E failed \in BOOLEAN :
       /\ atSaid' = IF AtSigned(atFile) /\ ~failed THEN {}
                    ELSE AtSays("UNSIGNED_RISKY_LOCATION", atFile, atHand.hashed)
       /\ atFailed' = (atFailed \/ failed)
  /\ UNCHANGED <<atFile, atWrites, atInspections, atQuiet>>

AtNext == AtRead \/ AtHash \/ AtSignature \/ \E c \in AtContents : AtWrite(c)

AtSpec == AtInit /\ [][AtNext]_atVars

\* Of a file that nobody wrote to since the inspection began, and that could be
\* read each time, whatever is wrong is reported, under the hash of the content
\* that was judged.  What is reported is wrong with the file, with three
\* exceptions: a header beyond the first bytes passes for a broken one, a
\* signature in a file that is too large for none, and so does one that cannot
\* be read.
AtQuietIsExact ==
  atQuiet /\ atHand.pc = "idle" /\ atInspections > 0 =>
    /\ ~atFailed /\ (atFile.header = "broken" \/ ~atFile.signed) => atSaid # {}
    /\ \A o \in atSaid :
         /\ o.judged = atFile /\ (o.hash = atFile \/ atFailed)
         /\ o.kind = "INVALID_PE" => atFile.header = "broken" \/ (atFile.header = "far" /\ atFile.size # "small")
         /\ o.kind = "UNSIGNED_RISKY_LOCATION" => ~atFile.signed \/ atFile.size = "huge" \/ atFailed

-----------------------------------------------------------------------------
(***************************************************************************)
(* SandboxEngine: submitted files wait in a queue; one worker runs each    *)
(* and writes the result into the first analysis of that path that is      *)
(* still pending.  A file that is deleted while the worker looks at it     *)
(* makes file_size() throw, which ends the program.                        *)
(***************************************************************************)

CONSTANTS SbFiles,
          MAX_ANALYSES,
          SbMaxId,       \* bound on the submissions
          SbPolls        \* numbers of polls of a run tried (timeout / 500 ms gives 60)

ASSUME SbConstants ==
  {MAX_ANALYSES, SbMaxId} \subseteq Nat \ {0} /\ SbPolls \subseteq Nat /\ "none" \notin SbFiles

VARIABLES sbAnalyses, sbQueue, sbNext,
          sbWorker,      \* the file under analysis, or "none"
          sbFound,       \* exists() has answered yes for it
          sbRunning, sbThere,   \* running_; files that exist
          sbTerminated   \* std::terminate was called

sbVars == <<sbAnalyses, sbQueue, sbNext, sbWorker, sbFound, sbRunning, sbThere, sbTerminated>>

\* The paths the worker looks at: it skips the empty one.
SbNamed == SbFiles \ {""}

SbInit ==
  /\ sbAnalyses = <<>> /\ sbQueue = <<>> /\ sbNext = 1
  /\ sbWorker = "none" /\ sbFound = FALSE /\ sbRunning = FALSE
  /\ sbThere = SbNamed /\ sbTerminated = FALSE

SbStart ==
  /\ ~sbRunning /\ sbRunning' = TRUE
  /\ UNCHANGED <<sbAnalyses, sbQueue, sbNext, sbWorker, sbFound, sbThere, sbTerminated>>

\* stop() joins the worker, which finishes the file it is at; the queue stays.
SbStop ==
  /\ sbRunning /\ sbWorker = "none"
  /\ sbRunning' = FALSE
  /\ UNCHANGED <<sbAnalyses, sbQueue, sbNext, sbWorker, sbFound, sbThere, sbTerminated>>

SbKeptAnalyses(all) == IF Len(all) > MAX_ANALYSES THEN Tail(all) ELSE all

SbSubmit(file) ==
  /\ sbNext <= SbMaxId
  /\ sbAnalyses' = SbKeptAnalyses(Append(sbAnalyses, [id |-> sbNext, file |-> file, verdict |-> "PENDING"]))
  /\ sbQueue' = Append(sbQueue, file)
  /\ sbNext' = sbNext + 1
  /\ UNCHANGED <<sbWorker, sbFound, sbRunning, sbThere, sbTerminated>>

\* worker_loop() takes the front of the queue; an empty path is dropped.
SbTake ==
  /\ sbRunning /\ sbWorker = "none" /\ sbQueue # <<>>
  /\ sbWorker' = (IF Head(sbQueue) = "" THEN "none" ELSE Head(sbQueue)) /\ sbQueue' = Tail(sbQueue)
  /\ UNCHANGED <<sbAnalyses, sbNext, sbFound, sbRunning, sbThere, sbTerminated>>

\* monitor_process() adds the children and the writable code pages it sees
\* at every poll; more than ten pages in all count as an injection.
SbBehavior(polls, children, pages) ==
  [children |-> polls * children, memory |-> polls * pages, injection |-> polls * pages > 10, apis |-> 0]

SbFailed == [children |-> 0, memory |-> 0, injection |-> FALSE, apis |-> 1]

\* classify(), on what monitor_process() and analyze_file() can observe: the
\* other members of SandboxBehavior are never set.
SbRisk(b) ==
  (IF b.injection THEN 35 ELSE 0)
    + (IF b.children > 5 THEN 10 ELSE IF b.children > 2 THEN 5 ELSE 0)
    + (IF b.memory > 50 THEN 5 ELSE 0) + 5 * b.apis

SbVerdict(b) == IF SbRisk(b) >= 70 THEN "MALICIOUS" ELSE IF SbRisk(b) >= 30 THEN "SUSPICIOUS" ELSE "CLEAN"

SbPendingOf(file) == {i \in DOMAIN sbAnalyses : sbAnalyses[i].file = file /\ sbAnalyses[i].verdict = "PENDING"}

\* Fault: the newest analysis of the path is completed, done or not.
SbCompletedNewest(file, verdict) ==
  LET of == {i \in DOMAIN sbAnalyses : sbAnalyses[i].file = file}
  IN  IF of = {} THEN sbAnalyses
      ELSE [sbAnalyses EXCEPT ![CHOOSE i \in of : \A j \in of : j <= i].verdict = verdict]

\* The result goes to the first pending analysis of the path, if one is left.
SbCompleted(file, verdict) ==
  IF SbPendingOf(file) = {} THEN sbAnalyses
  ELSE [sbAnalyses EXCEPT ![CHOOSE i \in SbPendingOf(file) : \A j \in SbPendingOf(file) : i <= j].verdict = verdict]

\* The end of the worker's turn.
SbCompletes(verdict) ==
  /\ sbAnalyses' = SbCompleted(sbWorker, verdict)
  /\ sbWorker' = "none" /\ sbFound' = FALSE
  /\ UNCHANGED <<sbQueue, sbNext, sbRunning, sbThere, sbTerminated>>

\* analyze_file() asks whether the file exists ...
SbLook ==
  /\ sbWorker # "none" /\ ~sbFound
  /\ \/ /\ sbWorker \in sbThere /\ sbFound' = TRUE
        /\ UNCHANGED <<sbAnalyses, sbQueue, sbNext, sbWorker, sbRunning, sbThere, sbTerminated>>
     \/ sbWorker \notin sbThere /\ SbCompletes("ANALYSIS_ERROR")

\* ... and then for its size: nobody catches what file_size() throws ...
SbThrow ==
  /\ sbFound /\ sbWorker \notin sbThere /\ sbTerminated' = TRUE
  /\ UNCHANGED <<sbAnalyses, sbQueue, sbNext, sbWorker, sbFound, sbRunning, sbThere>>

\* ... and runs it.
SbFinish ==
  /\ sbFound /\ sbWorker \in sbThere
  /\ \E verdict \in {SbVerdict(SbFailed)} \union
                    {SbVerdict(SbBehavior(p, c, m)) : p \in SbPolls, c \in 0..5, m \in {0, 1, 60}} :
       SbCompletes(verdict)

SbDelete(file) ==
  /\ sbThere' = sbThere \ {file}
  /\ UNCHANGED <<sbAnalyses, sbQueue, sbNext, sbWorker, sbFound, sbRunning, sbTerminated>>

SbStep ==
  /\ ~sbTerminated
  /\ \/ SbStart \/ SbStop \/ SbTake \/ SbLook \/ SbThrow \/ SbFinish
     \/ \E file \in SbFiles : SbSubmit(file) \/ SbDelete(file)

SbSpec == SbInit /\ [][SbStep]_sbVars

SbWaiting(file) ==
  Cardinality({i \in DOMAIN sbQueue : sbQueue[i] = file}) + (IF sbWorker = file THEN 1 ELSE 0)

\* No analysis is forgotten: as many runs of its path are queued or under way as
\* analyses of it are pending, although runs and analyses know nothing of each
\* other but the path, and old analyses are dropped.  An empty path is the
\* exception: its analysis is pending for ever.
SbPendingIsQueued == \A file \in SbNamed : Cardinality(SbPendingOf(file)) <= SbWaiting(file)

\* No file is ever called malicious: what a run can observe does not add up
\* to the 70 points that the verdict needs.
SbNeverMalicious == \A i \in DOMAIN sbAnalyses : sbAnalyses[i].verdict # "MALICIOUS"

\* A verdict on a file that nobody wrote to meanwhile is the verdict on its
\* content, as far as inspect() reads it; a sandbox job with a path that is
\* pending is in the queue; and what the sandbox observes never adds up to
\* MALICIOUS.
InspectionsTrue == AtQuietIsExact /\ SbPendingIsQueued /\ SbNeverMalicious
=============================================================================
