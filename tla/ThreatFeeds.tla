---------------------------- MODULE ThreatFeeds -----------------------------
EXTENDS Naturals, SequencesExt

(***************************************************************************)
(* ThreatIntelEngine: a list of indicators, three indices over it and the  *)
(* file form of it.  add_ioc(), remove_ioc() and each part of reload_all() *)
(* take the lock on their own, so that other callers come in between.      *)
(***************************************************************************)

CONSTANTS TiTypes,       \* the IocTypes that callers add
          TiValues,      \* the spellings of hashes and domains that callers use
          TiNorm,        \* normalize_hash/normalize_domain: spelling -> spelling
          TiDefaults,    \* install_default_iocs(): sequence of [type, value], in normal spelling
          TiMaxId        \* bound on the ids given

ASSUME TiConstants ==
  /\ TiNorm \in [TiValues -> TiValues]
  /\ \A v \in TiValues : TiNorm[TiNorm[v]] = TiNorm[v]
  /\ TiDefaults \in Seq([type : TiTypes, value : TiValues])
  /\ \A i \in DOMAIN TiDefaults : TiNorm[TiDefaults[i].value] = TiDefaults[i].value
  /\ TiMaxId \in Nat

VARIABLES tiIocs,     \* iocs_
          tiIndex,    \* hash_index_, ip_index_, domain_index_
          tiNext,     \* next_id_
          tiFile,     \* lines written by save_to_file()
          tiReload,   \* the reload_all() under way: "none", "cleared" or "loading"
          tiRead      \* lines of the file still to add

tiVars == <<tiIocs, tiIndex, tiNext, tiFile, tiReload, tiRead>>

TiIndexOf(type) == CASE type \in {"SHA256_HASH", "MD5_HASH"} -> "hash"
                     [] type = "IPV4_ADDRESS" -> "ip"
                     [] type = "DOMAIN" -> "domain"
                     [] OTHER -> "none"

TiEmptyIndex == [k \in {"hash", "ip", "domain"} |-> {}]

TiInit ==
  /\ tiIocs = <<>> /\ tiIndex = TiEmptyIndex /\ tiNext = 1
  /\ tiFile = <<>> /\ tiReload = "none" /\ tiRead = <<>>

\* rebuild_indices()
TiRebuilt(iocs) ==
  [k \in DOMAIN TiEmptyIndex |-> {iocs[i].value : i \in {j \in DOMAIN iocs : TiIndexOf(iocs[j].type) = k}}]

\* The form in which add_ioc() stores a value.
TiStored(type, value) == IF TiIndexOf(type) \in {"hash", "domain"} THEN TiNorm[value] ELSE value

\* add_ioc(); the spelling given is kept for the properties.
TiAdd(type, value) ==
  /\ tiNext <= TiMaxId
  /\ tiIocs' = Append(tiIocs, [id |-> tiNext, type |-> type, value |-> TiStored(type, value), given |-> value])
  /\ tiIndex' = TiRebuilt(tiIocs')
  /\ tiNext' = tiNext + 1

TiAddIoc(type, value) == TiAdd(type, value) /\ UNCHANGED <<tiFile, tiReload, tiRead>>

\* find_if() and erase()
TiWithout(id) == RemoveAt(tiIocs, SelectInSeq(tiIocs, LAMBDA e : e.id = id))

\* remove_ioc(): an id that is not there changes nothing.
TiRemoveIoc(id) ==
  /\ \E i \in DOMAIN tiIocs : tiIocs[i].id = id
  /\ tiIocs' = TiWithout(id)
  /\ tiIndex' = TiRebuilt(tiIocs')
  /\ UNCHANGED <<tiNext, tiFile, tiReload, tiRead>>

\* install_default_iocs(), which start() calls too: only into an empty list.
TiInstalled ==
  IF tiIocs = <<>> THEN [i \in DOMAIN TiDefaults |->
    [id |-> tiNext + i - 1, type |-> TiDefaults[i].type, value |-> TiDefaults[i].value, given |-> TiDefaults[i].value]]
  ELSE tiIocs

TiInstall ==
  /\ tiNext + Len(TiDefaults) <= TiMaxId + 1
  /\ tiIocs' = TiInstalled
  /\ tiIndex' = IF tiIocs = <<>> THEN TiRebuilt(tiIocs') ELSE tiIndex
  /\ tiNext' = IF tiIocs = <<>> THEN tiNext + Len(TiDefaults) ELSE tiNext

TiStart == TiInstall /\ UNCHANGED <<tiFile, tiReload, tiRead>>

\* save_to_file(): the defaults are written with the rest.
TiSave ==
  /\ tiFile' = [i \in DOMAIN tiIocs |-> [type |-> tiIocs[i].type, value |-> tiIocs[i].value]]
  /\ UNCHANGED <<tiIocs, tiIndex, tiNext, tiReload, tiRead>>

\* reload_all(): clear_iocs(), install_default_iocs(), then load_from_file(),
\* which calls add_ioc() line by line.
TiReloadClear ==
  /\ tiReload = "none"
  /\ tiIocs' = <<>> /\ tiIndex' = TiEmptyIndex /\ tiReload' = "cleared"
  /\ UNCHANGED <<tiNext, tiFile, tiRead>>

TiReloadInstall ==
  /\ tiReload = "cleared"
  /\ TiInstall
  /\ tiReload' = "loading" /\ tiRead' = tiFile
  /\ UNCHANGED tiFile

TiReloadLine ==
  /\ tiReload = "loading"
  /\ \/ /\ tiRead # <<>>
        /\ TiAdd(Head(tiRead).type, Head(tiRead).value)
        /\ tiRead' = Tail(tiRead)
        /\ UNCHANGED tiReload
     \/ /\ tiRead = <<>>
        /\ tiReload' = "none"
        /\ UNCHANGED <<tiIocs, tiIndex, tiNext, tiRead>>
  /\ UNCHANGED tiFile

TiStep ==
  \/ \E type \in TiTypes, value \in TiValues : TiAddIoc(type, value)
  \/ \E id \in 1..TiMaxId : TiRemoveIoc(id)
  \/ TiStart \/ TiSave \/ TiReloadClear \/ TiReloadInstall \/ TiReloadLine

TiSpec == TiInit /\ [][TiStep]_tiVars

\* lookup() on a hash or domain, check_hash/check_domain on the index.
TiLookup(kind, value) == \E i \in DOMAIN tiIocs : TiIndexOf(tiIocs[i].type) = kind /\ tiIocs[i].value = TiNorm[value]
TiCheck(kind, value) == TiNorm[value] \in tiIndex[kind]

\* The quick checks and lookup() agree about every spelling of every value,
\* whatever was added twice, removed once, or is being reloaded.
TiCheckAgreesWithLookup ==
  \A kind \in {"hash", "domain"}, value \in TiValues : TiCheck(kind, value) <=> TiLookup(kind, value)

\* A hash or a domain in the list is found under the spelling it was added
\* with, also after it went through the file.
TiAddedIsFound ==
  \A i \in DOMAIN tiIocs : LET kind == TiIndexOf(tiIocs[i].type)
                           IN  kind \in {"hash", "domain"} => TiCheck(kind, tiIocs[i].given)

-----------------------------------------------------------------------------
(***************************************************************************)
(* UpdateEngine: load_*_db() verifies a database file, reads its version   *)
(* and its hash, and notes them in the manifest of the database.  The file *)
(* is read three times and without the lock, and each time it may not open *)
(* or be gone.  A content stands for its hash and its version.             *)
(***************************************************************************)

CONSTANTS UpCallers,   \* threads that load databases
          UpContents,  \* contents of the database file
          UpExpected,  \* checksums callers pass; "" is none
          MAX_UPDATE_LOG, UpMaxId, UpMaxWrites  \* the last two bound records and writes

ASSUME UpConstants == {MAX_UPDATE_LOG, UpMaxId} \subseteq Nat \ {0} /\ UpMaxWrites \in Nat

VARIABLES upDisk,      \* content of the file, or "gone"
          upWrites,
          upManifests, \* manifests_: entries of one database, by hash and version
          upLog, upNextId,
          up,          \* up[c]: where caller c is in load_*_db()
          upSaved,     \* entries in manifest.txt
          upCheck      \* hash check_for_updates() found, which holds the lock; or "none"

upVars == <<upDisk, upWrites, upManifests, upLog, upNextId, up, upSaved, upCheck>>

UpIdle == [pc |-> "idle", expected |-> "", version |-> "", sha |-> "", result |-> "", id |-> 0, torn |-> FALSE]

UpInit ==
  /\ upDisk = "gone" /\ upWrites = 0
  /\ upManifests = <<>> /\ upLog = <<>> /\ upNextId = 1
  /\ up = [c \in UpCallers |-> UpIdle]
  /\ upSaved = <<>> /\ upCheck = "none"

\* What compute_file_sha256() and parse_version_from_file() return, otherwise
\* being their answer for a file that cannot be opened.
UpRead(opens, otherwise) == IF opens /\ upDisk # "gone" THEN upDisk ELSE otherwise

\* Fault: the checksum is not compared.
UpVerifyNothing(c, expected, opens) ==
  /\ up[c].pc = "idle" /\ upNextId <= UpMaxId /\ upDisk # "gone"
  /\ up' = [up EXCEPT ![c] = [UpIdle EXCEPT !.expected = expected, !.pc = "version"]]
  /\ UNCHANGED <<upDisk, upWrites, upManifests, upLog, upNextId, upSaved, upCheck>>

\* exists() and verify_checksum(); an empty checksum is not compared.
UpVerify(c, expected, opens) ==
  /\ up[c].pc = "idle" /\ upNextId <= UpMaxId
  /\ LET fails == expected \notin {"", UpRead(opens, "")}
     IN  up' = [up EXCEPT ![c] = [UpIdle EXCEPT !.expected = expected,
                  !.result = IF upDisk = "gone" THEN "FILE_NOT_FOUND" ELSE IF fails THEN "CHECKSUM_MISMATCH" ELSE "",
                  !.pc = IF upDisk = "gone" \/ fails THEN "record" ELSE "version"]]
  /\ UNCHANGED <<upDisk, upWrites, upManifests, upLog, upNextId, upSaved, upCheck>>

\* parse_version_from_file() and compute_file_sha256(): neither tells its
\* caller that the file could not be read.
UpVersion(c, opens) ==
  /\ up[c].pc = "version"
  /\ up' = [up EXCEPT ![c] = [@ EXCEPT !.pc = "hash", !.version = UpRead(opens, "0.0.0"), !.torn = IF opens THEN up[c].torn ELSE TRUE]]
  /\ UNCHANGED <<upDisk, upWrites, upManifests, upLog, upNextId, upSaved, upCheck>>

UpHash(c, opens) ==
  /\ up[c].pc = "hash"
  /\ up' = [up EXCEPT ![c] = [@ EXCEPT !.pc = "commit", !.sha = UpRead(opens, ""), !.torn = IF opens THEN up[c].torn ELSE TRUE]]
  /\ UNCHANGED <<upDisk, upWrites, upManifests, upLog, upNextId, upSaved, upCheck>>

\* The rest of validate_and_update(), under the lock.
UpNoted(manifests, sha, version) ==
  IF manifests # <<>> /\ manifests[1].sha = sha THEN [manifests |-> manifests, result |-> "ALREADY_CURRENT"]
  ELSE [manifests |-> <<[sha |-> sha, version |-> version]>> \o (IF manifests = <<>> THEN <<>> ELSE Tail(manifests)),
        result |-> "SUCCESS"]

UpCommit(c) ==
  LET noted == UpNoted(upManifests, up[c].sha, up[c].version)
  IN  /\ up[c].pc = "commit" /\ upCheck = "none"
      /\ upManifests' = noted.manifests
      /\ up' = [up EXCEPT ![c] = [@ EXCEPT !.pc = "record", !.result = noted.result]]
      /\ UNCHANGED <<upDisk, upWrites, upLog, upNextId, upSaved, upCheck>>

\* The version found in the manifest now, and an id, are taken ...
UpRecord(c) ==
  /\ up[c].pc = "record" /\ upCheck = "none" /\ upNextId <= UpMaxId
  /\ up' = [up EXCEPT ![c] = [@ EXCEPT !.pc = "log", !.id = upNextId,
                                      !.version = IF upManifests = <<>> THEN "" ELSE upManifests[1].version]]
  /\ upNextId' = upNextId + 1
  /\ UNCHANGED <<upDisk, upWrites, upManifests, upLog, upSaved, upCheck>>

UpKeptLog(log) == IF Len(log) > MAX_UPDATE_LOG THEN Tail(log) ELSE log

\* ... and record_update() appends the record in another critical section.
UpAppend(c) ==
  /\ up[c].pc = "log" /\ upCheck = "none"
  /\ upLog' = UpKeptLog(Append(upLog, [id |-> up[c].id, result |-> up[c].result, version |-> up[c].version]))
  /\ up' = [up EXCEPT ![c] = UpIdle]
  /\ UNCHANGED <<upDisk, upWrites, upManifests, upNextId, upSaved, upCheck>>

\* check_for_updates() holds the lock while it reads the file twice: a file
\* that changed, or cannot be read, is adopted, without a checksum.
UpCheckHash(opens) ==
  /\ upCheck = "none" /\ upNextId <= UpMaxId
  /\ upManifests # <<>> /\ upDisk # "gone" /\ UpRead(opens, "") # upManifests[1].sha
  /\ upCheck' = UpRead(opens, "")
  /\ UNCHANGED <<upDisk, upWrites, upManifests, upLog, upNextId, up, upSaved>>

UpCheckNote(opens) ==
  /\ upCheck # "none" /\ upCheck' = "none"
  /\ upManifests' = [upManifests EXCEPT ![1] = [sha |-> upCheck, version |-> UpRead(opens, "0.0.0")]]
  /\ upLog' = UpKeptLog(Append(upLog, [id |-> upNextId, result |-> "SUCCESS", version |-> UpRead(opens, "0.0.0")]))
  /\ upNextId' = upNextId + 1
  /\ UNCHANGED <<upDisk, upWrites, up, upSaved>>

UpWriteManifest ==
  /\ upCheck = "none" /\ upSaved' = upManifests
  /\ UNCHANGED <<upDisk, upWrites, upManifests, upLog, upNextId, up, upCheck>>

\* stop() and start(), which reads manifest.txt: its entries replace or join
\* the ones there are.
UpRestart ==
  /\ upCheck = "none" /\ upSaved # <<>> /\ upManifests' = upSaved
  /\ UNCHANGED <<upDisk, upWrites, upLog, upNextId, up, upSaved, upCheck>>

\* Another program writes or deletes the file.
UpWrite(content) ==
  /\ upWrites < UpMaxWrites /\ content # upDisk
  /\ upDisk' = content /\ upWrites' = upWrites + 1
  /\ up' = [c \in UpCallers |-> IF up[c].pc \in {"version", "hash"} THEN [up[c] EXCEPT !.torn = TRUE] ELSE up[c]]
  /\ UNCHANGED <<upManifests, upLog, upNextId, upSaved, upCheck>>

UpNext ==
  \/ UpWriteManifest \/ UpRestart
  \/ \E content \in UpContents \union {"gone"} : UpWrite(content)
  \/ \E opens \in BOOLEAN : UpCheckHash(opens) \/ UpCheckNote(opens)
  \/ \E c \in UpCallers : UpCommit(c) \/ UpRecord(c) \/ UpAppend(c)
  \/ \E c \in UpCallers, opens \in BOOLEAN :
       UpVersion(c, opens) \/ UpHash(c, opens) \/ \E e \in UpExpected : UpVerify(c, e, opens)

UpSpec == UpInit /\ [][UpNext]_upVars

\* A database has one entry in the manifest, however loads, checks and
\* restarts interleave.
UpOneEntry == Len(upManifests) <= 1 /\ Len(upSaved) <= 1

\* A load that was given a checksum and ends well notes the content it verified,
\* and the version of that content, unless the file was written or could not be
\* opened during the load: the three reads are not one, and one that fails is
\* noted like any other.  A load without a checksum, and check_for_updates(),
\* note what they find.
UpVerifiedIsNoted ==
  [][\A c \in UpCallers :
       up[c].pc = "commit" /\ up'[c].result = "SUCCESS" /\ ~up[c].torn
         => /\ up[c].expected \in {"", upManifests'[1].sha}
            /\ upManifests'[1].version = upManifests'[1].sha]_upVars
=============================================================================
