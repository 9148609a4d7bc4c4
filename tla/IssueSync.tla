------------------------------ MODULE IssueSync ------------------------------
(***************************************************************************)
(* adb sync issues (cli/sync_issues.go, integration/issuesync): processes  *)
(* reconcile a task with its GitHub or GitLab issue, while people change   *)
(* the task, its context.md and the issue.  Every call of the provider's   *)
(* command and every read or write of a file is one step.                  *)
(*                                                                         *)
(* One task is modelled: tasks meet only in that a process loads all       *)
(* records first, which the time between Load and Store allows for.  The   *)
(* title, which travels as the status does, and the priority, which is     *)
(* never pulled, are left out, as is the log.  A body is named by a        *)
(* number, and the time is that of the last write.                         *)
(***************************************************************************)
EXTENDS Naturals, Sequences, SequencesExt, FiniteSets

CONSTANTS Procs,
          Repos,        \* the hosts the task's repository may be on
          Statuses,     \* statuses people set, with "done", "archived", "in_progress"
          Runs,         \* the --direction and --dry-run of a command
          Seeds,        \* whether the task is created for an issue there is
          Faults,       \* which steps may fail
          MaxEdits,     \* bound: changes people make
          MaxFaults     \* bound: failures

ASSUME IssueSyncAssumption ==
    /\ Repos \subseteq {"github", "gitlab", "none"}
    /\ Runs \subseteq [direction : {"both", "push", "pull"}, dryRun : BOOLEAN]
    /\ Seeds \subseteq BOOLEAN
    /\ {"backlog", "in_progress", "done", "archived"} \subseteq Statuses
    /\ MaxEdits \in Nat /\ MaxFaults \in Nat

VARIABLES repo,       \* the host of the task's repository
          rec,        \* the task's record in the backlog
          context,    \* the body in its context.md
          issues,     \* the issues on the host, by their number
          clock,      \* the time of the last write
          pc, loaded, args,   \* each process: its step, the record it loaded, its flags
          body, got, stale,   \* the body and the issue it read, the labels to remove
          link,       \* the issue its write-back will name
          edits, faults,      \* how many changes and failures there were
          unseen,     \* history: issues people changed since adb wrote or read them
          cut,        \* history: issues a push that was cut short has changed
          meant,      \* history: the status people last set
          causes      \* history: what happened that weakens the promises

remote == <<issues, clock, unseen, cut>>
local == <<rec, context, meant>>
own == <<loaded, args, body, got, stale, link>>
vars == <<repo, remote, local, pc, own, edits, faults, causes>>

-----------------------------------------------------------------------------
(* What labels and states mean (mapping.go).                               *)

Unlinked == 0
NoHash == <<>>
NoIssue == [body |-> 0]
NoRun == [direction |-> "none", dryRun |-> FALSE]
Label(s) == <<"adb", s>>

isAdbOwnedLabel(l) == l[1] = "adb"

StatusToState(s) == IF s \in {"done", "archived"} THEN "closed" ELSE "open"

(* AdbLabelFrom takes the first of the issue's labels, in the host's order. *)
AdbLabelFrom(labels) == {l[2] : l \in {m \in labels : isAdbOwnedLabel(m)}}

StateToStatus(issue) ==
    IF issue.state = "closed" THEN {"done"}
    ELSE IF AdbLabelFrom(issue.labels) # {} THEN AdbLabelFrom(issue.labels)
    ELSE {"in_progress"}

\* Mutant: the body is not in the baseline.
SyncHashShort(s, b) == <<s>>

SyncHash(s, b) == <<s, b>>

-----------------------------------------------------------------------------
(* The verdict (reconcile.go).                                             *)

canPush(direction) == direction \in {"both", "push"}
canPull(direction) == direction \in {"both", "pull"}

localChanged(r, b) == r.hash # SyncHash(r.status, b)
remoteChanged(r, issue) == issue.at > r.updated

Reconcile(r, b, issue, direction) ==
    IF issue = NoIssue THEN IF canPush(direction) THEN "create" ELSE "noop"
    ELSE IF remoteChanged(r, issue) THEN IF canPull(direction) THEN "pull" ELSE "noop"
    ELSE IF localChanged(r, b) /\ canPush(direction) THEN "push"
    ELSE "noop"

-----------------------------------------------------------------------------

At(p, step) == pc[p] = step
Idle(p) == At(p, "idle")

Mine == <<"people", "bug">>

NewRecord == [status |-> "backlog", link |-> Unlinked, hash |-> NoHash, updated |-> 1]
NewIssue(b, s) == [body |-> b, labels |-> {Label(s)}, state |-> "open", at |-> clock + 1]

(* A process does not know the number of the issue that it made.           *)
Nameless(p) == link[p] = Unlinked /\ loaded[p].link = Unlinked

TypeOK ==
    /\ rec.link \in {Unlinked} \cup DOMAIN issues /\ rec.status \in Statuses
    /\ unseen \cup cut \subseteq DOMAIN issues
    /\ rec.updated <= clock /\ \A n \in DOMAIN issues : issues[n].at <= clock
    /\ \A p \in Procs : At(p, "store") => link[p] \in DOMAIN issues \/ Nameless(p)
    /\ \A p \in Procs : pc[p] \in {"labels", "edit", "state", "pull"}
         => got[p] # NoIssue /\ link[p] = loaded[p].link /\ link[p] \in DOMAIN issues

(* A task may be created for an issue there is.                            *)
Init ==
    /\ repo \in Repos
    /\ \E seeded \in Seeds :
         /\ rec = [NewRecord EXCEPT !.link = IF seeded THEN 1 ELSE Unlinked]
         /\ issues = IF seeded THEN << [body |-> 2, labels |-> {}, state |-> "open", at |-> 1] >>
                     ELSE <<>>
         /\ unseen = IF seeded THEN {1} ELSE {}
    /\ context = 1 /\ clock = 1 /\ cut = {}
    /\ pc = [p \in Procs |-> "idle"] /\ loaded = [p \in Procs |-> NewRecord]
    /\ args = [p \in Procs |-> NoRun] /\ body = [p \in Procs |-> 0]
    /\ got = [p \in Procs |-> NoIssue] /\ stale = [p \in Procs |-> {}]
    /\ link = [p \in Procs |-> Unlinked]
    /\ edits = 0 /\ faults = 0 /\ meant = "backlog" /\ causes = {}

Goto(p, step) ==
    /\ pc' = [pc EXCEPT ![p] = step]
    /\ UNCHANGED <<loaded, args>>

(* The task is done with; what was read is forgotten.                      *)
Done(p) ==
    /\ pc' = [pc EXCEPT ![p] = "idle"]
    /\ loaded' = [loaded EXCEPT ![p] = NewRecord] /\ args' = [args EXCEPT ![p] = NoRun]
    /\ body' = [body EXCEPT ![p] = 0] /\ got' = [got EXCEPT ![p] = NoIssue]
    /\ stale' = [stale EXCEPT ![p] = {}] /\ link' = [link EXCEPT ![p] = Unlinked]

Fault(kind) ==
    /\ kind \in Faults /\ faults < MaxFaults
    /\ faults' = faults + 1

-----------------------------------------------------------------------------
(* One command, for one task.                                              *)

(* The command loads the backlog, and skips tasks without a provider.      *)
ProviderFor(r) == r # "none"

Load(p) ==
    /\ Idle(p)
    /\ ProviderFor(repo)
    /\ \E a \in Runs : args' = [args EXCEPT ![p] = a]
    /\ loaded' = [loaded EXCEPT ![p] = rec]
    /\ pc' = [pc EXCEPT ![p] = "body"]
    /\ causes' = IF \E q \in Procs : ~Idle(q) THEN causes \cup {"overlap"} ELSE causes
    /\ UNCHANGED <<repo, remote, local, body, got, stale, link, edits, faults>>

(* A context.md that cannot be read is taken for an empty body.            *)
ReadBody(p) ==
    /\ At(p, "body")
    /\ \/ body' = [body EXCEPT ![p] = context] /\ UNCHANGED faults
       \/ body' = [body EXCEPT ![p] = 0] /\ Fault("body")
    /\ Goto(p, "get")
    /\ UNCHANGED <<repo, remote, local, got, stale, link, edits, causes>>

\* Mutant: an issue that cannot be had is taken for one that is not there.
GetAny(p) ==
    LET n == loaded[p].link
    IN  IF n = Unlinked THEN {NoIssue} ELSE {issues[n], NoIssue}

(* Get does not ask for an unlinked task's issue.                          *)
Get(p) ==
    LET n == loaded[p].link IN {IF n = Unlinked THEN NoIssue ELSE issues[n]}

(* Only GitHub's Update looks at the labels first.                         *)
FirstStep(verdict) ==
    IF verdict # "push" THEN verdict ELSE IF repo = "github" THEN "labels" ELSE "edit"

Decide(p) ==
    /\ At(p, "get")
    /\ \E issue \in Get(p) :
         LET verdict == Reconcile(loaded[p], body[p], issue, args[p].direction)
         IN  IF args[p].dryRun \/ verdict = "noop"
             THEN Done(p)
             ELSE /\ Goto(p, FirstStep(verdict))
                  /\ got' = [got EXCEPT ![p] = issue]
                  /\ link' = [link EXCEPT ![p] = loaded[p].link]
                  /\ UNCHANGED <<body, stale>>
    /\ UNCHANGED <<repo, remote, local, edits, faults, causes>>

(* An issue that is gone, and a call that fails, end it with no more.      *)
GetFails(p) ==
    /\ At(p, "get") /\ loaded[p].link # Unlinked
    /\ Fault("get")
    /\ Done(p)
    /\ UNCHANGED <<repo, remote, local, edits, causes>>

(* A malformed URL has no number, which is no error.                       *)
issueNumberFromURL(malformed) == IF malformed THEN Unlinked ELSE Len(issues) + 1

(* The new issue is open, whatever the task's status is.                   *)
MakeIssue(p) ==
    /\ issues' = Append(issues, NewIssue(body[p], loaded[p].status))
    /\ clock' = clock + 1
    /\ UNCHANGED <<unseen, cut>>

Create(p) ==
    /\ At(p, "create")
    /\ MakeIssue(p)
    /\ \/ link' = [link EXCEPT ![p] = issueNumberFromURL(FALSE)] /\ UNCHANGED <<faults, causes>>
       \/ /\ link' = [link EXCEPT ![p] = issueNumberFromURL(TRUE)]
          /\ Fault("url") /\ causes' = causes \cup {"unlinked"}
    /\ Goto(p, "store")
    /\ UNCHANGED <<repo, local, body, got, stale, edits>>

(* The call may fail before or after the issue is made.                    *)
CreateFails(p) ==
    /\ At(p, "create")
    /\ Fault("create")
    /\ \/ MakeIssue(p) /\ causes' = causes \cup {"unlinked"}
       \/ UNCHANGED <<remote, causes>>
    /\ Done(p)
    /\ UNCHANGED <<repo, local, edits>>

(* Update reads the labels again; when it cannot, it removes none.         *)
StaleLabels(p) == {l \in issues[link[p]].labels : isAdbOwnedLabel(l)} \ {Label(loaded[p].status)}

ReadLabels(p) ==
    /\ At(p, "labels")
    /\ \/ stale' = [stale EXCEPT ![p] = StaleLabels(p)] /\ UNCHANGED <<faults, causes>>
       \/ UNCHANGED stale /\ Fault("labels") /\ causes' = causes \cup {"labels"}
    /\ Goto(p, "edit")
    /\ UNCHANGED <<repo, remote, local, body, got, link, edits>>

\* Mutant: labels are only added.
EditedAdding(p, issue) ==
    [issue EXCEPT !.body = body[p], !.labels = @ \cup {Label(loaded[p].status)}, !.at = clock + 1]

Edited(p, issue) ==
    [issue EXCEPT !.body = body[p], !.labels = (@ \ stale[p]) \cup {Label(loaded[p].status)},
                  !.at = clock + 1]

Edit(p) ==
    /\ At(p, "edit")
    /\ issues' = [issues EXCEPT ![link[p]] = Edited(p, @)]
    /\ clock' = clock + 1
    /\ unseen' = unseen \ {link[p]} /\ cut' = cut \ {link[p]}
    /\ Goto(p, "state")
    /\ UNCHANGED <<repo, local, body, got, stale, link, edits, faults, causes>>

EditFails(p) ==
    /\ At(p, "edit")
    /\ Fault("edit")
    /\ Done(p)
    /\ UNCHANGED <<repo, remote, local, edits, causes>>

(* An issue that stays closed says done, whatever its label says; one that *)
(* stays open says what its label says.                                    *)
InState(p) == issues[link[p]].state = StatusToState(loaded[p].status)
StaysClosed(p) == ~InState(p) /\ issues[link[p]].state = "closed"

(* Closing or reopening is best-effort: its failure goes unnoticed.        *)
SetState(p) ==
    /\ At(p, "state")
    /\ LET n == link[p]
           at == IF InState(p) THEN issues[n].at ELSE clock + 1
       IN  \/ /\ issues' = [issues EXCEPT ![n].state = StatusToState(loaded[p].status),
                                          ![n].at = at]
              /\ clock' = IF InState(p) THEN clock ELSE at
              /\ UNCHANGED <<faults, cut, causes>>
           \/ /\ Fault("state")
              /\ cut' = IF InState(p) THEN cut ELSE cut \cup {n}
              /\ causes' = IF StaysClosed(p) THEN causes \cup {"reopen"} ELSE causes
              /\ UNCHANGED <<issues, clock>>
    /\ Goto(p, "store")
    /\ UNCHANGED <<repo, local, body, got, stale, link, edits, unseen>>

\* Mutant: the body is not pulled.
PulledBodyNot(p) == context

PulledBody(p) == IF got[p].body # body[p] THEN got[p].body ELSE context

(* WriteBody writes context.md before the record is stored.                *)
PullBody(p) ==
    /\ At(p, "pull")
    /\ context' = PulledBody(p)
    /\ body' = [body EXCEPT ![p] = got[p].body]
    /\ Goto(p, "store")
    /\ UNCHANGED <<repo, remote, rec, meant, got, stale, link, edits, faults, causes>>

PullFails(p) ==
    /\ At(p, "pull") /\ got[p].body # body[p]
    /\ Fault("pull")
    /\ Done(p)
    /\ UNCHANGED <<repo, remote, local, edits, causes>>

Pulls(p) == got[p] # NoIssue /\ remoteChanged(loaded[p], got[p])

(* The record written back is the whole of the one loaded, but for what    *)
(* the sync made of it; Updated is left as it was.                         *)
Stored(p, s) ==
    [loaded[p] EXCEPT !.status = s, !.link = link[p], !.hash = SyncHash(s, body[p])]

NewStatuses(p) == IF Pulls(p) THEN StateToStatus(got[p]) ELSE {loaded[p].status}

Store(p) ==
    /\ At(p, "store")
    /\ \E s \in NewStatuses(p) :
         /\ rec' = Stored(p, s)
         /\ meant' = IF Pulls(p) /\ link[p] \in unseen THEN s ELSE meant
    /\ LET read == IF Pulls(p) /\ got[p] = issues[link[p]] THEN {link[p]} ELSE {}
       IN  unseen' = unseen \ read /\ cut' = cut \ read
    /\ causes' = IF rec = loaded[p] THEN causes ELSE causes \cup {"edited"}
    /\ Done(p)
    /\ UNCHANGED <<repo, context, issues, clock, edits, faults>>

(* A push has changed the issue and not yet written that back.             *)
HalfPushed(p) == At(p, "state") \/ (At(p, "store") /\ got[p] # NoIssue /\ ~Pulls(p))

(* A process died, or could not write back.  What it pushed stays: a state *)
(* that is not the task's, or a status people have changed meanwhile.      *)
Forgotten(p) ==
    /\ unseen' = unseen
    /\ cut' = IF HalfPushed(p) THEN cut \cup {link[p]} ELSE cut
    /\ causes' = causes
         \cup (IF At(p, "store") /\ loaded[p].link = Unlinked THEN {"unlinked"} ELSE {})
         \cup (IF HalfPushed(p) /\ rec # loaded[p] THEN {"edited"} ELSE {})
         \cup (IF At(p, "state") /\ StaysClosed(p) THEN {"reopen"} ELSE {})

StoreFails(p) ==
    /\ At(p, "store")
    /\ Fault("store")
    /\ Forgotten(p)
    /\ Done(p)
    /\ UNCHANGED <<repo, local, issues, clock, edits>>

Crash(p) ==
    /\ ~Idle(p)
    /\ Fault("crash")
    /\ Forgotten(p)
    /\ Done(p)
    /\ UNCHANGED <<repo, local, issues, clock, edits>>

-----------------------------------------------------------------------------
(* People change the task, its context.md, and the issue.                  *)

Change ==
    /\ edits < MaxEdits /\ edits' = edits + 1
    /\ UNCHANGED <<repo, pc, own, faults>>

NewBody == edits + 3

(* task update stores the status, and the time, whatever the status was.   *)
Recorded(s) == [rec EXCEPT !.status = s, !.updated = clock + 1]

EditTask ==
    /\ Change
    /\ \E s \in Statuses : rec' = Recorded(s) /\ meant' = s
    /\ clock' = clock + 1
    /\ UNCHANGED <<context, issues, unseen, cut, causes>>

EditBody ==
    /\ Change
    /\ context' = NewBody
    /\ UNCHANGED <<remote, rec, meant, causes>>

Maintain ==
    /\ Change
    /\ \E n \in DOMAIN issues :
         /\ \/ issues' = [issues EXCEPT ![n].body = NewBody, ![n].at = clock + 1]
            \/ issues' = [issues EXCEPT ![n].labels = @ \cup {Mine}, ![n].at = clock + 1]
            \/ \E state \in {"open", "closed"} \ {issues[n].state} :
                 issues' = [issues EXCEPT ![n].state = state, ![n].at = clock + 1]
            \/ \E s \in Statuses :
                 issues' = [issues EXCEPT ![n].at = clock + 1,
                              ![n].labels = {Label(s)} \cup {l \in @ : ~isAdbOwnedLabel(l)}]
         /\ unseen' = unseen \cup {n}
    /\ clock' = clock + 1
    /\ causes' = IF \E p \in Procs : At(p, "edit") THEN causes \cup {"labels"} ELSE causes
    /\ UNCHANGED <<cut, local>>

-----------------------------------------------------------------------------

Sync(p) ==
    \/ ReadBody(p) \/ Decide(p) \/ GetFails(p)
    \/ Create(p) \/ CreateFails(p)
    \/ ReadLabels(p) \/ Edit(p) \/ EditFails(p) \/ SetState(p)
    \/ PullBody(p) \/ PullFails(p)
    \/ Store(p) \/ StoreFails(p)

Next ==
    \/ \E p \in Procs : Load(p) \/ Sync(p) \/ Crash(p)
    \/ EditTask \/ EditBody \/ Maintain

Spec == Init /\ [][Next]_vars

(* A command that was begun goes on, and someone runs it again and again,  *)
(* with the default direction.                                             *)
LoadBoth(p) == Load(p) /\ args'[p] = [direction |-> "both", dryRun |-> FALSE]

FairSpec ==
    /\ Spec
    /\ \A p \in Procs : WF_vars(Sync(p)) /\ SF_vars(LoadBoth(p))

-----------------------------------------------------------------------------

Tells(issue, s) ==
    \/ s \in StateToStatus(issue)
    \/ s = "archived" /\ issue.state = "closed"

Agree ==
    /\ rec.link # Unlinked
    /\ issues[rec.link].body = context
    /\ Tells(issues[rec.link], rec.status)

(* A task has one issue, unless the answer to its creation was lost, the   *)
(* number could not be written back, or two commands ran at once: an issue *)
(* that cannot be had is not made again.                                   *)
OneIssue == Len(issues) <= 1 \/ {"unlinked", "overlap"} \cap causes # {}

(* What a task and the commands at work on it are linked to is there, and  *)
(* no other issue was made for it.                                         *)
LinkedOnce == TypeOK /\ OneIssue

(* Where the baseline says that nothing changed locally, both sides say    *)
(* the same (reconcile.go:58-62: a stored baseline detects a local edit    *)
(* since the last sync), if adb has seen all that people did to the issue  *)
(* and none of its pushes was cut short: by its death, by a record that    *)
(* could not be stored, by a close or reopen that failed.  A task whose    *)
(* issue gave no number has a baseline and no issue.                       *)
BaselineHonest ==
    /\ ~localChanged(rec, context)
    /\ \A p \in Procs : Idle(p)
    /\ rec.link \notin unseen \cup cut
    /\ "overlap" \notin causes
    => Agree \/ (rec.link = Unlinked /\ "unlinked" \in causes)

(* The status is the one people last set on the task, or that of an issue  *)
(* they changed since: what adb writes to an issue it reads back as the    *)
(* same status (mapping.go:26-28), on GitHub, but for an archived task,    *)
(* which comes back as done.  Excepted are a change of the task made while *)
(* a sync of it runs, which its write-back undoes, or the issue it left    *)
(* behind; labels that could not be read, or changed since, which stay on  *)
(* the issue; and an issue adb could not reopen, or died before it did,    *)
(* which says done for a task that is not.                                 *)
StatusRoundTrips ==
    \/ rec.status = meant
    \/ <<meant, rec.status>> = <<"archived", "done">>
    \/ repo = "gitlab"
    \/ {"overlap", "edited", "labels", "reopen"} \cap causes # {}

(* When people stop, both sides come to agree, whatever failed, but for a  *)
(* change of the issue, by people or by a push cut short, that is older    *)
(* than the task's record: no sync notices it.                             *)
Masked ==
    /\ rec.link # Unlinked
    /\ rec.link \in unseen \cup cut
    /\ ~remoteChanged(rec, issues[rec.link])

Converges == repo # "none" => <>[](Agree \/ Masked)

=============================================================================
