------------------------------ MODULE Scaffold ------------------------------
(***************************************************************************)
(* Files that adb makes from its embedded templates and a user then edits  *)
(* (core/projectinit.go, core/harness_install.go, core/drift.go,           *)
(* cli/init.go).  A project's manifest records the answers and the content *)
(* each file was last given, and init update compares the three: template, *)
(* manifest and disk.  The harness keeps no manifest, and init workspace   *)
(* and init claude make only what is missing.                              *)
(*                                                                         *)
(* One command runs at a time; users act between its steps, and it may die *)
(* at any of them, in the middle of a write too.  A content stands for its *)
(* SHA-256 digest, with no collision.                                      *)
(***************************************************************************)
EXTENDS Integers, Sequences, SequencesExt

CONSTANTS BaseFiles, GitFiles, BMADFiles,   \* the project's files of each template tree
          NamedFiles,    \* those whose text holds the project's name
          HarnessFiles,  \* the agents and skills
          Templates,     \* per version: the text of each file the tree has
          Answers,       \* the options that init project is given
          MaxTouches,    \* bound: changes by users
          ScaffoldDeaths \* bound: commands that die

ScaffoldFiles == BaseFiles \cup GitFiles \cup BMADFiles \cup HarnessFiles
Versions == DOMAIN Templates

\* A version is never 0, what an empty manifest parses as; no template reads like
\* an empty file or like what users and init workspace write; the agents and the
\* skills are in a directory of their own.
ASSUME ScaffoldAssumption ==
    /\ 1 \in Versions /\ Versions \subseteq Nat \ {0}
    /\ \A v \in Versions : \A f \in DOMAIN Templates[v] :
          Templates[v][f] \notin {"absent", "empty", "mine", "workspace"}
    /\ HarnessFiles \cap (BaseFiles \cup GitFiles \cup BMADFiles) = {}
    /\ ScaffoldDeaths \in Nat

VARIABLES version,    \* the templates that the installed adb carries
          disk,       \* the content of each file
          manifest,   \* the manifest, or NoManifest
          command,    \* the command that runs
          pending,    \* its groups of files still to write, first group first
          rendered,   \* what it writes to each
          baseline,   \* the digests it will record
          wrote,      \* history: the content a project or update command last gave each file
          written,    \* history: files the running command wrote
          unrecorded, \* history: files that a dead command wrote
          touched,    \* history: files a user changed since the command began
          settled,    \* history: no change since the last update ended
          skipped,    \* history: conflicts that it left alone
          touches, deaths

scaffoldVars == <<version, disk, manifest, command, pending, rendered, baseline,
                  wrote, written, unrecorded, touched, settled, skipped, touches, deaths>>

-----------------------------------------------------------------------------

Content(t, n) == [text |-> t, name |-> n]
Absent == Content("absent", "")
Empty == Content("empty", "")
Mine == Content("mine", "")

NoOptions == [name |-> "", git |-> FALSE, bmad |-> FALSE]
NoManifest == [version |-> -1, options |-> NoOptions, files |-> <<>>]
\* A manifest whose writer died when it had only emptied the file parses as this.
BlankManifest == [version |-> 0, options |-> NoOptions, files |-> <<>>]
HasManifest == manifest # NoManifest

Run(op, o, force) == [op |-> op, options |-> o, force |-> force]
NoCommand == Run("none", NoOptions, FALSE)
Idle == command = NoCommand
OnProject == command.op \in {"project", "update"}

TemplateVersion == version

renderFile(f, o) == Content(Templates[version][f], IF f \in NamedFiles THEN o.name ELSE "")

\* The git and the BMAD trees are part of the set only when asked for.
Tree(o) == BaseFiles \cup (IF o.git THEN GitFiles ELSE {})
                     \cup (IF o.bmad THEN BMADFiles ELSE {})
renderArtifacts(o) == [f \in Tree(o) \cap DOMAIN Templates[version] |-> renderFile(f, o)]

applyDefaults(o) == IF o.name = "" THEN [o EXCEPT !.name = "dir"] ELSE o

ByTemplate(f, r) == disk[f] # Absent /\ f \in DOMAIN manifest.files /\ r[f] # manifest.files[f]
\* Mutant: a file that the template changed is updated, whoever edited it.
PlanUpdateBlind(r) ==
    [added |-> {f \in DOMAIN r : disk[f] = Absent \/ f \notin DOMAIN manifest.files},
     updated |-> {f \in DOMAIN r : ByTemplate(f, r)}, conflicts |-> {}]
\* The three-way comparison, for the files rendered.
PlanUpdate(r) ==
    [added |-> {f \in DOMAIN r : disk[f] = Absent \/ f \notin DOMAIN manifest.files},
     updated |-> {f \in DOMAIN r : ByTemplate(f, r) /\ disk[f] = manifest.files[f]},
     conflicts |-> {f \in DOMAIN r : ByTemplate(f, r) /\ disk[f] # manifest.files[f]}]

HarnessManifest == [f \in HarnessFiles \cap DOMAIN Templates[version] |->
                      Content(Templates[version][f], "")]

\* Without --force a file that differs is the user's.
installHarnessFile(f, force) ==
    disk[f] # HarnessManifest[f] /\ (disk[f] = Absent \/ force)

\* What a conformance check says of the templates.
checkTemplateDrift ==
    IF ~HasManifest THEN {}
    ELSE (IF manifest.version \notin {0, version} THEN {"stale template"} ELSE {})
         \cup {f \in DOMAIN manifest.files : disk[f] = Absent}

-----------------------------------------------------------------------------

ScaffoldTypeOK ==
    /\ version \in Versions /\ HasManifest => DOMAIN manifest.files \subseteq ScaffoldFiles
    /\ \A i \in DOMAIN pending : pending[i] \subseteq DOMAIN rendered
    /\ Idle => pending = <<>>
    /\ DOMAIN baseline \subseteq ScaffoldFiles /\ deaths \in 0 .. ScaffoldDeaths

ScaffoldInit ==
    /\ version = 1 /\ disk = [f \in ScaffoldFiles |-> Absent] /\ manifest = NoManifest
    /\ command = NoCommand /\ pending = <<>> /\ rendered = <<>> /\ baseline = <<>>
    /\ wrote = disk /\ written = {} /\ unrecorded = {} /\ touched = {}
    /\ settled = FALSE /\ skipped = {} /\ touches = 0 /\ deaths = 0

Begin(c, groups, r, b) ==
    /\ Idle /\ command' = c /\ pending' = groups /\ rendered' = r /\ baseline' = b
    /\ touched' = {} /\ written' = {} /\ settled' = FALSE
    /\ UNCHANGED <<version, disk, manifest, wrote, unrecorded, touches, deaths>>

\* init project renders everything and writes it over what is there.
InitializeProject(o) ==
    LET r == renderArtifacts(applyDefaults(o))
    IN /\ Begin(Run("project", applyDefaults(o), FALSE),
                <<DOMAIN r>>, r, r)
       /\ UNCHANGED skipped

\* Mutant: only the files that are new get written.
ApplyUpdateShort(force) ==
    LET r == renderArtifacts(manifest.options)
        plan == PlanUpdate(r)
    IN /\ HasManifest
       /\ Begin(Run("update", manifest.options, force), <<plan.added>>, r, manifest.files)
       /\ skipped' = plan.conflicts

\* init update --apply: the new baseline starts from the recorded one, and an
\* unchanged file's digest in it is already that of the render.
ApplyUpdate(force) ==
    LET r == renderArtifacts(manifest.options)
        plan == PlanUpdate(r)
    IN /\ HasManifest
       /\ Begin(Run("update", manifest.options, force),
                <<plan.added, plan.updated>> \o (IF force THEN <<plan.conflicts>> ELSE <<>>),
                r, manifest.files)
       /\ skipped' = IF force THEN {} ELSE plan.conflicts

\* sync claude-user looks at each file as it comes to it.
InstallHarness(force) ==
    /\ Begin(Run("harness", NoOptions, force),
             <<DOMAIN HarnessManifest>>, HarnessManifest, <<>>)
    /\ UNCHANGED skipped

\* init workspace writes its own text where there is no file.
NewWorkspace ==
    /\ Begin(Run("workspace", NoOptions, FALSE),
             <<BaseFiles>>, [f \in BaseFiles |-> Content("workspace", "")], <<>>)
    /\ UNCHANGED skipped

Writes(f) ==
    CASE command.op = "workspace" -> disk[f] = Absent
      [] command.op = "harness" -> installHarnessFile(f, command.force)
      [] OTHER -> TRUE

\* The file is written, and counts as written in the new baseline.
WriteArtifact(f) ==
    /\ pending # <<>> /\ f \in Head(pending)
    /\ pending' = [pending EXCEPT ![1] = @ \ {f}]
    /\ IF Writes(f)
       THEN /\ disk' = [disk EXCEPT ![f] = rendered[f]]
            /\ wrote' = IF OnProject THEN [wrote EXCEPT ![f] = rendered[f]] ELSE wrote
            /\ baseline' = [g \in DOMAIN baseline \cup {f} |->
                              IF g = f THEN rendered[f] ELSE baseline[g]]
            /\ written' = written \cup {f}
       ELSE UNCHANGED <<disk, wrote, baseline, written>>
    /\ UNCHANGED <<version, manifest, command, rendered, unrecorded,
                   touched, settled, skipped, touches, deaths>>

NextGroup ==
    /\ Len(pending) > 1 /\ Head(pending) = {} /\ pending' = Tail(pending)
    /\ UNCHANGED <<version, disk, manifest, command, rendered, baseline,
                   wrote, written, unrecorded, touched, settled, skipped, touches, deaths>>

\* The manifest is the last thing a command on a project writes.
Recorded == [version |-> TemplateVersion, options |-> command.options, files |-> baseline]

writeManifest ==
    /\ Len(pending) = 1 /\ Head(pending) = {}
    /\ command' = NoCommand /\ pending' = <<>> /\ rendered' = <<>> /\ baseline' = <<>>
    /\ IF OnProject
       THEN /\ manifest' = Recorded /\ unrecorded' = unrecorded \ written
            /\ settled' = (touched = {} /\ unrecorded' = {})
       ELSE UNCHANGED <<manifest, unrecorded, settled>>
    /\ skipped' = IF command.op = "update" THEN skipped ELSE {}
    /\ touched' = {} /\ written' = {}
    /\ UNCHANGED <<version, disk, wrote, touches, deaths>>

\* A command dies or a write fails.  Of the file at hand nothing may be left.
Die ==
    /\ ~Idle /\ deaths < ScaffoldDeaths /\ deaths' = deaths + 1
    /\ command' = NoCommand /\ pending' = <<>> /\ rendered' = <<>> /\ baseline' = <<>>
    /\ \/ UNCHANGED <<disk, manifest>> /\ unrecorded' = unrecorded \cup written
       \/ /\ \E f \in Head(pending) :
               /\ Writes(f) /\ disk' = [disk EXCEPT ![f] = Empty]
               /\ unrecorded' = unrecorded \cup written \cup {f}
          /\ UNCHANGED manifest
       \/ /\ Len(pending) = 1 /\ Head(pending) = {} /\ OnProject
          /\ manifest' = BlankManifest /\ unrecorded' = unrecorded \cup written
          /\ UNCHANGED disk
    /\ settled' = FALSE /\ skipped' = {}
    /\ touched' = {} /\ written' = {}
    /\ UNCHANGED <<version, wrote, touches>>

\* A user edits, makes or deletes a file.
Touch(f) ==
    /\ touches < MaxTouches /\ touches' = touches + 1
    /\ \E c \in {Mine, Absent} \ {disk[f]} : disk' = [disk EXCEPT ![f] = c]
    /\ touched' = IF Idle THEN {} ELSE touched \cup {f}
    /\ settled' = FALSE /\ skipped' = IF Idle THEN {} ELSE skipped
    /\ UNCHANGED <<version, manifest, command, pending, rendered, baseline,
                   wrote, written, unrecorded, deaths>>

\* A newer adb is installed.
Upgrade ==
    /\ Idle /\ version + 1 \in Versions /\ version' = version + 1
    /\ settled' = FALSE /\ skipped' = {}
    /\ UNCHANGED <<disk, manifest, command, pending, rendered, baseline,
                   wrote, written, unrecorded, touched, touches, deaths>>

newInitProjectCmd == \E o \in Answers : InitializeProject(o)
\* Without --apply the plan is only printed.
newInitUpdateCmd == \E force \in BOOLEAN : ApplyUpdate(force)
\* sync claude-user and sync all.
installClaudeHarness == \E force \in BOOLEAN : InstallHarness(force)

ScaffoldNext ==
    \/ newInitProjectCmd \/ newInitUpdateCmd \/ installClaudeHarness
    \/ NewWorkspace \/ NextGroup \/ writeManifest \/ Die \/ Upgrade
    \/ \E f \in ScaffoldFiles : WriteArtifact(f) \/ Touch(f)

ScaffoldSpec == ScaffoldInit /\ [][ScaffoldNext]_scaffoldVars

-----------------------------------------------------------------------------

(* What a user wrote stays through every command but a new init project or
   one with --force.  An update still takes a file that is not in the
   manifest for a new one, and a file edited after the plan for untouched. *)
EditsKept ==
    [][\A f \in ScaffoldFiles : disk[f] = Mine /\ disk'[f] # Mine =>
         \/ f \in touched \cup touched' \/ Idle
         \/ command.op = "project" \/ command.force
         \/ command.op = "update" /\ f \notin DOMAIN manifest.files]_scaffoldVars

(* Between commands the manifest holds what adb last wrote, unless a command
   died after it wrote the file: so an update never calls a file that only
   adb wrote a conflict. *)
BaselineHonest ==
    Idle =>
      \A f \in DOMAIN manifest.files \ unrecorded : manifest.files[f] = wrote[f]

(* When an update has ended, another finds nothing to write, and finds again
   the conflicts that the first one skipped. *)
UpdateSettles ==
    settled /\ Idle =>
      LET plan == PlanUpdate(renderArtifacts(manifest.options))
      IN plan.added \cup plan.updated = {} /\ plan.conflicts = skipped

(* A project whose check finds no drift needs no update: what an update
   would still write is a conflict that was skipped, or was cut short. *)
NoDriftNoUpdate ==
    Idle /\ HasManifest /\ manifest # BlankManifest /\ checkTemplateDrift = {} =>
      LET plan == PlanUpdate(renderArtifacts(manifest.options))
      IN plan.added = {} /\ plan.updated \subseteq unrecorded

(* Manifest, drift check and update agree on what is on disk. *)
UpdatesAreRight == ScaffoldTypeOK /\ BaselineHonest /\ UpdateSettles /\ NoDriftNoUpdate
=============================================================================
