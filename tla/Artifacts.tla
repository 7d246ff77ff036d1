----------------------------- MODULE Artifacts -----------------------------
(***************************************************************************)
(* The versions of one artifact (services/artifact_service.py and the      *)
(* artifact repositories).                                                 *)
(*                                                                         *)
(* Adding or restoring a version and archiving take the artifact's row     *)
(* FOR UPDATE and keep it to the end of the transaction; a deletion reads  *)
(* the row without a lock and then updates it, which waits for the lock.   *)
(* Waiting is a step not taken yet.  The locking read, the read of the     *)
(* version table and the write with its commit are separate steps.         *)
(*                                                                         *)
(* Rows of different artifacts do not interact.  The name, description,    *)
(* metadata, tags and favorites are left out; a text stands for its hash.  *)
(***************************************************************************)
EXTENDS Naturals, Sequences

CONSTANTS
  Contents,     \* the texts
  Blank,        \* content of a row that does not exist
  MaxVersions,  \* bound on the versions
  Editors

ASSUME VersionsAssumption == MaxVersions \in Nat

VARIABLES
  artifact,     \* "absent", "live" or "deleted" (deleted_at)
  content,      \* generated_artifacts.content
  current,      \* the number of current_version_id, 0 for NULL
  archived,     \* archived_at is set
  versions,     \* artifact_versions: the content by version number
  edit          \* the requests' transactions

rowVars == <<artifact, content, current, archived>>
artifactVars == <<rowVars, versions, edit>>

Numbers == 1..MaxVersions

AtRest == [pc |-> "idle"]
AddTxn == [pc : {"adding"}, text : Contents]
RestoreTxn == [pc : {"restoring"}, source : Numbers]
WriteTxn == [pc : {"pointing", "inserting"}, number : Numbers, text : Contents]
ArchiveTxn == [pc : {"archiving"}, to : BOOLEAN]
DeleteTxn == [pc : {"deleting"}]
Edits == {AtRest} \cup AddTxn \cup RestoreTxn \cup WriteTxn \cup ArchiveTxn \cup DeleteTxn

ArtifactTypeOK ==
  /\ artifact \in {"absent", "live", "deleted"}
  /\ content \in Contents \cup {Blank}
  /\ current \in Numbers \cup {0}
  /\ archived \in BOOLEAN
  /\ DOMAIN versions \subseteq Numbers
  /\ \A n \in DOMAIN versions : versions[n] \in Contents
  /\ edit \in [Editors -> Edits]

ArtifactInit ==
  /\ artifact = "absent"
  /\ content = Blank
  /\ current = 0
  /\ archived = FALSE
  /\ versions = <<>>
  /\ edit = [r \in Editors |-> AtRest]

-----------------------------------------------------------------------------
(* Helpers                                                                 *)

Holds(r) == edit[r].pc \in {"adding", "restoring", "pointing", "inserting", "archiving"}
LockFree == \A r \in Editors : ~Holds(r)

(* Slips a change of this code could make, for the runs to reject: a read  *)
(* without the lock, the first version with the text.                      *)
ReadUnlocked == artifact = "live"
FirstWith(c, n) == versions[n] = c /\ \A k \in DOMAIN versions : versions[k] = c => n <= k

(* get_artifact_for_update: the row once its lock is free, unless deleted *)
Lockable == artifact = "live" /\ LockFree

(* get_by_hash: the version with the text and the highest number *)
LatestWith(c, n) == versions[n] = c /\ \A k \in DOMAIN versions : versions[k] = c => k <= n

(* get_max_version_number + 1 *)
NextNumber(n) ==
  \/ n = 1 /\ DOMAIN versions = {}
  \/ n - 1 \in DOMAIN versions /\ \A k \in DOMAIN versions : k < n

(* update_artifact with a version and its content *)
ShowVersion(n, c) ==
  /\ current' = n
  /\ content' = c
  /\ UNCHANGED <<artifact, archived>>

InsertVersion(n, c) ==
  versions' = [k \in DOMAIN versions \cup {n} |-> IF k = n THEN c ELSE versions[k]]

To(r, txn) == edit' = [edit EXCEPT ![r] = txn]
Finish(r) == To(r, AtRest)

-----------------------------------------------------------------------------
(* create: the artifact and its first version in one transaction *)
Create(c) ==
  /\ artifact = "absent"
  /\ MaxVersions > 0
  /\ artifact' = "live"
  /\ content' = c
  /\ current' = 1
  /\ InsertVersion(1, c)
  /\ UNCHANGED <<archived, edit>>

(* A generator that was not asked to save: an artifact without a version *)
Generate(c) ==
  /\ artifact = "absent"
  /\ artifact' = "live"
  /\ content' = c
  /\ UNCHANGED <<current, archived, versions, edit>>

(* The locking read of add_version, restore_version, archive, unarchive *)
Lock(r, txn) ==
  /\ edit[r] = AtRest
  /\ Lockable
  /\ To(r, txn)
  /\ UNCHANGED <<rowVars, versions>>

(* add_version of a text that a version has: if that version is not the    *)
(* current one it will be; nothing is inserted.                            *)
FoundByHash(r, n) ==
  /\ edit[r].pc = "adding"
  /\ n \in DOMAIN versions
  /\ LatestWith(edit[r].text, n)
  /\ To(r, IF current = n THEN AtRest
           ELSE [pc |-> "pointing", number |-> n, text |-> versions[n]])
  /\ UNCHANGED <<rowVars, versions>>

NewByHash(r, n) ==
  /\ edit[r].pc = "adding"
  /\ \A k \in DOMAIN versions : versions[k] # edit[r].text
  /\ NextNumber(n)
  /\ To(r, [pc |-> "inserting", number |-> n, text |-> edit[r].text])
  /\ UNCHANGED <<rowVars, versions>>

(* restore_version copies the source, whatever hash it has *)
ReadSource(r, n) ==
  /\ edit[r].pc = "restoring"
  /\ edit[r].source \in DOMAIN versions
  /\ NextNumber(n)
  /\ To(r, [pc |-> "inserting", number |-> n, text |-> versions[edit[r].source]])
  /\ UNCHANGED <<rowVars, versions>>

CommitPoint(r) ==
  /\ edit[r].pc = "pointing"
  /\ ShowVersion(edit[r].number, edit[r].text)
  /\ Finish(r)
  /\ UNCHANGED versions

(* uq_artifact_version is the guard: a taken number is a rollback *)
CommitInsert(r) ==
  /\ edit[r].pc = "inserting"
  /\ edit[r].number \notin DOMAIN versions
  /\ InsertVersion(edit[r].number, edit[r].text)
  /\ ShowVersion(edit[r].number, edit[r].text)
  /\ Finish(r)

CommitArchive(r) ==
  /\ edit[r].pc = "archiving"
  /\ archived' = edit[r].to
  /\ Finish(r)
  /\ UNCHANGED <<artifact, content, current, versions>>

-----------------------------------------------------------------------------
(* delete_artifact: a plain read, later an UPDATE by id *)

ReadForDelete(r) ==
  /\ edit[r] = AtRest
  /\ artifact = "live"
  /\ To(r, [pc |-> "deleting"])
  /\ UNCHANGED <<rowVars, versions>>

CommitDelete(r) ==
  /\ edit[r].pc = "deleting"
  /\ LockFree
  /\ artifact' = "deleted"
  /\ Finish(r)
  /\ UNCHANGED <<content, current, archived, versions>>

(* get_db rolls back: no write permission, no such version, a failure *)
RollbackEdit(r) ==
  /\ edit[r].pc # "idle"
  /\ Finish(r)
  /\ UNCHANGED <<rowVars, versions>>

ArtifactNext ==
  \/ \E c \in Contents : Create(c) \/ Generate(c)
  \/ \E r \in Editors :
       \/ \E txn \in AddTxn \cup RestoreTxn \cup ArchiveTxn : Lock(r, txn)
       \/ \E n \in Numbers : FoundByHash(r, n) \/ NewByHash(r, n) \/ ReadSource(r, n)
       \/ CommitPoint(r) \/ CommitInsert(r) \/ CommitArchive(r)
       \/ ReadForDelete(r) \/ CommitDelete(r)
       \/ RollbackEdit(r)

ArtifactSpec == ArtifactInit /\ [][ArtifactNext]_artifactVars

-----------------------------------------------------------------------------
(* Properties                                                              *)

(* Overlapping add_version and restore_version requests never choose the   *)
(* same number: uq_artifact_version fails none of them.                    *)
NumbersNeverCollide ==
  \A r \in Editors : edit[r].pc = "inserting" => edit[r].number \notin DOMAIN versions

(* The legacy content column that lists and reviews read and the current   *)
(* version that get_artifact returns are the same text.  An artifact that  *)
(* a generator made without a version has none until one is added.         *)
ContentIsCurrentVersion ==
  IF current = 0 THEN DOMAIN versions = {}
  ELSE current \in DOMAIN versions /\ versions[current] = content

(* A request that waited for a deletion does not write to the artifact:    *)
(* delete_artifact is final for its versions, content and archive flag.    *)
DeletionIsFinal ==
  [][artifact = "deleted" => UNCHANGED <<rowVars, versions>>]_artifactVars

(* The requests of many users amount to one editor of a document whose     *)
(* history only grows (backend/README.md: version history, unified diffs,  *)
(* and restore-as-new-version).                                            *)
Document ==
  INSTANCE DocumentHistory
    WITH state <- artifact, history <- versions, shown <- current, text <- content
IsADocument == Document!Spec
=============================================================================
