---------------------------- MODULE CloudArchive ----------------------------
(***************************************************************************)
(* The S3 archive of a workspace (integration/cloudsync, cli/sync_cloud.go *)
(* ).  A push stages the files that the allowlist admits, scans the copy,  *)
(* and uploads it object by object; a pull writes every object into a      *)
(* fresh directory; destroy deletes what it has listed.  Nothing else is   *)
(* ever deleted from the archive.                                          *)
(*                                                                         *)
(* A path is a sequence of names and a content a number; the scanner finds *)
(* the contents in Findings.  One push at a time, with pulls, destroys and *)
(* edits between its steps.  Any step may fail.                            *)
(***************************************************************************)
EXTENDS Naturals, Sequences, FiniteSets

CONSTANTS Paths,        \* the paths of the workspace's files
          Symlinks,     \* those that are symbolic links
          Contents, Findings,
          Unscannable,  \* whether the scanner may fail to run
          MaxFileEdits, MaxPushes   \* bounds: edits, and pushes and destroys

Manifest == <<"repos-manifest.tsv">>
NoContent == 0

ASSUME CloudAssumption == \E c \in Contents : c \notin Findings

VARIABLES file,     \* the content of each file, or NoContent
          push,     \* the push: "none", "stage", "scan" or "upload"
          dryRun,   \* whether it stops after it has staged
          toStage,  \* the paths it walked and has not staged yet
          staging,  \* its copies
          toUpload, \* the copies it has not uploaded yet
          bucket,   \* the archive
          listed,   \* the keys that a pull or a destroy has still to handle
          reader,   \* "none", "pull" or "destroy"
          dest,     \* what a pull has written
          fileEdits, pushes,
          emptied,  \* history: a destroy deleted since the push began
          scanned,  \* history: the copies of this push that a scan passed
          whole,    \* history: the last push, when it has uploaded all and nothing followed
          expected  \* history: whole when the last pull began, if that pull saw no change

cloudVars == <<file, push, dryRun, toStage, staging, toUpload, bucket, listed, reader, dest,
               fileEdits, pushes, emptied, scanned, whole, expected>>

-----------------------------------------------------------------------------

includeRoots == {"raw", "scripts", "skills", "wiki", "tickets"}
includeRootFiles == {"CLAUDE.md", "Taskfile.yaml", "WIKI.md", ".gitignore",
                     ".markdownlint-cli2.yaml", ".gitleaks.toml", ".pre-commit-config.yaml"}

\* adb's own state, worktrees and mirrors, and what is private to a ticket.
\* Segments are whole names here: an .env file of one variant stands for all.
deniedSegment(s) ==
    s \in {"backlog.yaml", ".task_counter", ".session_counter", ".adb", ".adb_memory.sqlite",
           ".adb_memory.sqlite-shm", ".adb_memory.sqlite-wal", ".adb_mcp_cache.json",
           ".adb_session_changes", ".taskrc", ".taskconfig", ".adb-workspace-README.md",
           ".events.jsonl", ".governance.jsonl", "work", "repos", ".omnictx",
           "communications", "sessions", ".env", ".env.local"}
isDenied(path) == \E i \in DOMAIN path : deniedSegment(path[i])

\* Denied first; then a file in the root by its name, another by its tree.
ShouldUpload(path) ==
    /\ path # <<>> /\ ~isDenied(path)
    /\ path[1] \in IF Len(path) = 1 THEN includeRootFiles ELSE includeRoots

WalkUploadSet == {p \in Paths \ Symlinks : file[p] # NoContent /\ ShouldUpload(p)}

With(f, k, c) == [x \in DOMAIN f \cup {k} |-> IF x = k THEN c ELSE f[x]]
Only(f, S) == [x \in DOMAIN f \cap S |-> f[x]]

-----------------------------------------------------------------------------

CloudTypeOK ==
    /\ \A p \in Paths : file[p] \in Contents \cup {NoContent}
    /\ DOMAIN bucket \subseteq Paths \cup {Manifest} /\ DOMAIN dest \subseteq Paths \cup {Manifest}
    /\ push = "none" => toStage = {} /\ toUpload = {} /\ staging = <<>>
    /\ toUpload \subseteq DOMAIN staging
    /\ reader = "none" => listed = {}

CloudInit ==
    /\ file = [p \in Paths |-> CHOOSE c \in Contents : c \notin Findings]
    /\ push = "none" /\ dryRun = FALSE /\ toStage = {} /\ staging = <<>> /\ toUpload = {}
    /\ bucket = <<>> /\ listed = {} /\ reader = "none" /\ dest = <<>>
    /\ fileEdits = 0 /\ pushes = 0 /\ emptied = FALSE
    /\ scanned = <<>> /\ whole = <<>> /\ expected = <<>>

archive == <<bucket, listed, reader, dest, emptied, whole, expected>>
pushing == <<push, dryRun, toStage, staging, toUpload, pushes, scanned>>

EditFile(p) ==
    /\ fileEdits < MaxFileEdits /\ fileEdits' = fileEdits + 1
    /\ \E c \in Contents \cup {NoContent} : file' = [file EXCEPT ![p] = c]
    /\ UNCHANGED <<pushing, archive>>

EndPush ==
    /\ push' = "none" /\ toStage' = {} /\ staging' = <<>> /\ toUpload' = {} /\ scanned' = <<>>
    /\ UNCHANGED <<dryRun, pushes>>

Push(dry) ==
    /\ push = "none" /\ pushes < MaxPushes /\ pushes' = pushes + 1
    /\ push' = "stage" /\ dryRun' = dry /\ toStage' = WalkUploadSet /\ emptied' = FALSE
    /\ UNCHANGED <<staging, toUpload, scanned, file, fileEdits, bucket, listed, reader, dest,
                   whole, expected>>

\* A file that was removed since the walk ends the push.
stageFile(p) ==
    /\ push = "stage" /\ p \in toStage
    /\ IF file[p] = NoContent THEN EndPush
       ELSE /\ toStage' = toStage \ {p} /\ staging' = With(staging, p, file[p])
            /\ UNCHANGED <<push, dryRun, toUpload, pushes, scanned>>
    /\ UNCHANGED <<file, fileEdits, archive>>

\* The manifest joins the copies, and a dry run stops here.
StageManifest ==
    /\ push = "stage" /\ toStage = {}
    /\ IF dryRun THEN EndPush
       ELSE /\ push' = "scan"
            /\ staging' = With(staging, Manifest, CHOOSE c \in Contents : c \notin Findings)
            /\ UNCHANGED <<dryRun, toStage, toUpload, pushes, scanned>>
    /\ UNCHANGED <<file, fileEdits, archive>>

\* A finding ends the push, and so does a scanner that cannot tell.
ScanForSecretsWith ==
    /\ push = "scan"
    /\ \/ /\ \A p \in DOMAIN staging : staging[p] \notin Findings
          /\ push' = "upload" /\ toUpload' = DOMAIN staging /\ scanned' = staging
          /\ UNCHANGED <<dryRun, toStage, staging, pushes>>
       \/ (Unscannable \/ \E p \in DOMAIN staging : staging[p] \in Findings) /\ EndPush
    /\ UNCHANGED <<file, fileEdits, archive>>

\* Mutant: the file itself goes up.
UploadOfFile(p) == IF p \in Paths /\ file[p] # NoContent THEN file[p] ELSE staging[p]

\* The copy goes up, whatever became of the file; the manifest is the last.
UploadOf(p) == staging[p]
putStagedFile(p) ==
    /\ push = "upload" /\ p \in toUpload /\ (p = Manifest => toUpload = {p})
    /\ bucket' = With(bucket, p, UploadOf(p))
    /\ expected' = <<>>
    /\ IF toUpload = {p} THEN EndPush /\ whole' = IF emptied THEN <<>> ELSE staging
       ELSE /\ toUpload' = toUpload \ {p} /\ whole' = <<>>
            /\ UNCHANGED <<push, dryRun, toStage, staging, pushes, scanned>>
    /\ UNCHANGED <<file, fileEdits, listed, reader, dest, emptied>>

PushFails == push # "none" /\ EndPush /\ UNCHANGED <<file, fileEdits, archive>>

\* A pull into a fresh directory, or a destroy with --confirm, lists the keys.
List(r) ==
    /\ reader = "none" /\ reader' = r /\ listed' = DOMAIN bucket
    /\ dest' = (IF r = "pull" THEN <<>> ELSE dest)
    /\ expected' = (IF r = "pull" THEN whole ELSE expected)
    /\ UNCHANGED <<file, fileEdits, pushing, bucket, emptied, whole>>
Pull == List("pull")
Destroy == List("destroy") /\ pushes < MaxPushes

\* The object is copied whole, or until the download breaks off: the file is
\* made before the first byte comes.  An object deleted meanwhile ends the pull.
pullOne(k) ==
    /\ reader = "pull" /\ k \in listed
    /\ \/ /\ k \in DOMAIN bucket /\ dest' = With(dest, k, bucket[k])
          /\ listed' = listed \ {k} /\ reader' = (IF listed = {k} THEN "none" ELSE "pull")
          /\ UNCHANGED expected
       \/ /\ dest' = (IF k \in DOMAIN bucket THEN With(dest, k, NoContent) ELSE dest)
          /\ listed' = {} /\ reader' = "none" /\ expected' = <<>>
    /\ UNCHANGED <<file, fileEdits, pushing, bucket, emptied, whole>>

\* Keys go in batches.  A key that S3 could not delete stays, unreported.
Delete(batch) ==
    /\ reader = "destroy" /\ batch # {} /\ batch \subseteq listed
    /\ \E kept \in {{}, batch} : bucket' = Only(bucket, DOMAIN bucket \ (batch \ kept))
    /\ listed' = listed \ batch /\ whole' = <<>> /\ expected' = <<>> /\ emptied' = TRUE
    /\ reader' = IF batch = listed THEN "none" ELSE reader
    /\ UNCHANGED <<file, fileEdits, pushing, dest>>

\* With nothing listed there is nothing to do; a request may fail.
ReadEnds ==
    /\ reader # "none" /\ reader' = "none" /\ listed' = {}
    /\ expected' = (IF listed = {} THEN expected ELSE <<>>)
    /\ UNCHANGED <<file, fileEdits, pushing, bucket, dest, emptied, whole>>

CloudNext ==
    \/ \E p \in Paths : EditFile(p) \/ stageFile(p)
    \/ \E dry \in BOOLEAN : Push(dry)
    \/ StageManifest \/ ScanForSecretsWith \/ PushFails
    \/ \E p \in Paths \cup {Manifest} : putStagedFile(p) \/ pullOne(p)
    \/ Pull \/ Destroy \/ ReadEnds \/ \E batch \in SUBSET listed : Delete(batch)

CloudSpec == CloudInit /\ [][CloudNext]_cloudVars

-----------------------------------------------------------------------------

(* The archive holds only what the allowlist admits and what a scan of the
   very copy passed, whatever is edited while a push runs. *)
OnlyScannedLeaves ==
    /\ \A k \in DOMAIN bucket : (k = Manifest \/ ShouldUpload(k)) /\ bucket[k] \notin Findings
    /\ push = "upload" => \A k \in toUpload : k \in DOMAIN scanned /\ scanned[k] = staging[k]

(* A push that reported no failure, and then a pull that reported none, with
   no other push or destroy in between, bring every file back as the scan
   saw it, and the manifest. *)
RoundTrip ==
    reader = "none" /\ expected # <<>> =>
      /\ Manifest \in DOMAIN dest
      /\ \A k \in DOMAIN expected : k \in DOMAIN dest /\ dest[k] = expected[k]

(* Nothing leaves unscanned, and what left comes back. *)
ArchiveIsSound == CloudTypeOK /\ OnlyScannedLeaves /\ RoundTrip
=============================================================================
