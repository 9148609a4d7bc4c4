--------------------------- MODULE IssueSyncProofs ---------------------------
(***************************************************************************)
(* Proofs about IssueSync, for any number of processes, any statuses and   *)
(* any changes and failures: a task has one issue, the baseline does not   *)
(* lie, and statuses survive the way to the issue and back.                *)
(***************************************************************************)
EXTENDS IssueSync, SequenceTheorems, TLAPS

Labels == {Label(s) : s \in Statuses} \cup {Mine}
Issues == [body : Nat, labels : SUBSET Labels, state : {"open", "closed"}, at : Nat]
TaskRecords == [status : Statuses, link : Nat,
                hash : {NoHash} \cup (Statuses \X Nat), updated : Nat]

Pushing == {"labels", "edit", "state"}
Steps == {"idle", "body", "get", "create", "pull", "store"} \cup Pushing

IssueTypes == issues \in Seq(Issues) /\ clock \in Nat /\ unseen \cup cut \subseteq DOMAIN issues
TaskTypes == rec \in TaskRecords /\ context \in Nat /\ meant \in Statuses
OwnTypes ==
    /\ pc \in [Procs -> Steps] /\ loaded \in [Procs -> TaskRecords]
    /\ args \in [Procs -> [direction : {"none", "both", "push", "pull"}, dryRun : BOOLEAN]]
    /\ body \in [Procs -> Nat] /\ got \in [Procs -> Issues \cup {NoIssue}]
    /\ stale \in [Procs -> SUBSET Labels] /\ link \in [Procs -> Nat]

Types ==
    /\ repo \in {"github", "gitlab", "none"} /\ edits \in Nat /\ faults \in Nat
    /\ IssueTypes /\ TaskTypes /\ OwnTypes

(* Links lead to issues, and nothing is from the future.                   *)
LinksAndTimes ==
    /\ rec.link \in {Unlinked} \cup DOMAIN issues
    /\ \A p \in Procs :
          loaded[p].link \in {Unlinked} \cup DOMAIN issues /\ loaded[p].updated <= clock
    /\ 1 <= clock
    /\ rec.updated <= clock /\ \A n \in DOMAIN issues : issues[n].at <= clock

(* What the verdict has decided for a process at its step.                 *)
Decided(p) ==
    /\ pc[p] \in Pushing \cup {"pull", "store"} /\ loaded[p].link # Unlinked =>
          got[p] # NoIssue /\ link[p] = loaded[p].link
    /\ pc[p] \in Pushing \cup {"pull"} => loaded[p].link # Unlinked
    /\ pc[p] = "create" => loaded[p].link = Unlinked
    /\ pc[p] \in {"create", "store"} /\ loaded[p].link = Unlinked => got[p] = NoIssue
    /\ pc[p] = "store" => link[p] \in DOMAIN issues \/ Nameless(p)
    /\ pc[p] \in Pushing => ~Pulls(p)
    /\ pc[p] = "pull" => Pulls(p)
    /\ pc[p] = "store" /\ Pulls(p) => body[p] = got[p].body

Shape == Types /\ LinksAndTimes /\ \A p \in Procs : Decided(p)

(* Without an overlap one process at a time is at work.                    *)
Alone ==
    "overlap" \notin causes => \A p, q \in Procs : ~Idle(p) /\ ~Idle(q) => p = q

(* A process at work knows the link of the task, and there is no issue but *)
(* the linked one and one whose number is about to be written back.        *)
KnownLink ==
    "overlap" \notin causes => \A p \in Procs : ~Idle(p) => loaded[p].link = rec.link

Making(p) == At(p, "store") /\ loaded[p].link = Unlinked

OneInv ==
    {"unlinked", "overlap"} \cap causes = {} =>
      /\ Len(issues) <= 1
      /\ rec.link = Unlinked /\ (\A p \in Procs : ~Making(p)) => Len(issues) = 0

(* An issue is as a status and a body say.                                 *)
Fits(issue, s, b) == issue.body = b /\ Tells(issue, s)

(* While no process is between its first write to the issue and its write- *)
(* back, the baseline describes the issue, whatever it says of the task.   *)
HashLinked == rec.hash # NoHash /\ rec.link = Unlinked => "unlinked" \in causes

(* Nothing was done to an issue that adb has not seen, or not written back. *)
Known(n) == n # Unlinked /\ n \notin unseen \cup cut

Baseline ==
    /\ \A p \in Procs : pc[p] \in {"state", "store"} => Pulls(p)
    /\ rec.hash # NoHash /\ Known(rec.link)
    => Fits(issues[rec.link], rec.hash[1], rec.hash[2])

HonestAt(p) ==
    /\ pc[p] \in {"pull", "store"} /\ Pulls(p) /\ link[p] \notin unseen
         => got[p] = issues[link[p]]
    /\ At(p, "state") /\ link[p] \notin unseen =>
         issues[link[p]].body = body[p] /\ Label(loaded[p].status) \in issues[link[p]].labels
    /\ At(p, "store") /\ ~Pulls(p) /\ Known(link[p]) =>
         Fits(issues[link[p]], loaded[p].status, body[p])
    /\ At(p, "store") /\ Nameless(p) => "unlinked" \in causes

HonestInv == "overlap" \notin causes => HashLinked /\ Baseline /\ \A p \in Procs : HonestAt(p)

(* An issue says one status, that of the task.                             *)
Says(issue, s) ==
    StateToStatus(issue) = {s} \/ (s = "archived" /\ issue.state = "closed")

AdbLabels(issue) == {l \in issue.labels : isAdbOwnedLabel(l)}

OneLabel == \A n \in DOMAIN issues : \A l, m \in AdbLabels(issues[n]) : l = m

TripAt(p) ==
    /\ At(p, "edit") => stale[p] = StaleLabels(p)
    /\ At(p, "state") /\ link[p] \notin unseen =>
         AdbLabels(issues[link[p]]) = {Label(loaded[p].status)}
    /\ At(p, "store") /\ ~Pulls(p) /\ link[p] \notin unseen \cup {Unlinked} =>
         Says(issues[link[p]], loaded[p].status)

(* A pull of an issue that only adb changed would bring the status back.   *)
Echo ==
    /\ \A p \in Procs : pc[p] \in {"state", "store"} => Pulls(p)
    /\ rec.link # Unlinked /\ rec.link \notin unseen /\ remoteChanged(rec, issues[rec.link])
    => Says(issues[rec.link], rec.status)

AsMeant == rec.status = meant \/ <<meant, rec.status>> = <<"archived", "done">>

TripInv ==
    repo # "gitlab" /\ {"overlap", "edited", "labels", "reopen"} \cap causes = {} =>
      OneLabel /\ (\A p \in Procs : TripAt(p)) /\ Echo /\ AsMeant

(* Without a provider no command works on the task.                        *)
Provided == \A p \in Procs : ~Idle(p) => repo # "none"

-----------------------------------------------------------------------------
(* Sequences of issues, and their types.                                   *)

LEMMA PutIssue ==
  ASSUME NEW s \in Seq(Issues), NEW n \in DOMAIN s, NEW e \in Issues
  PROVE  /\ [s EXCEPT ![n] = e] \in Seq(Issues)
         /\ DOMAIN [s EXCEPT ![n] = e] = DOMAIN s
         /\ Len([s EXCEPT ![n] = e]) = Len(s)
         /\ \A m \in DOMAIN s : [s EXCEPT ![n] = e][m] = IF m = n THEN e ELSE s[m]
  BY LenProperties, ExceptSeq

LEMMA AddIssue ==
  ASSUME NEW s \in Seq(Issues), NEW e \in Issues
  PROVE  /\ Append(s, e) \in Seq(Issues)
         /\ Len(Append(s, e)) = Len(s) + 1
         /\ DOMAIN Append(s, e) = DOMAIN s \cup {Len(s) + 1}
         /\ Len(s) + 1 \notin DOMAIN s
         /\ \A m \in DOMAIN s : Append(s, e)[m] = s[m]
         /\ Append(s, e)[Len(s) + 1] = e
  OBVIOUS

LEMMA IssueFacts ==
  ASSUME Types
  PROVE  /\ \A n \in DOMAIN issues : issues[n] \in Issues /\ n \in Nat
         /\ Unlinked \notin DOMAIN issues
         /\ NoIssue \notin Issues
         /\ \A s \in Statuses : Label(s) \in Labels
  <1>1. /\ \A n \in DOMAIN issues : issues[n] \in Issues /\ n \in Nat
        /\ Unlinked \notin DOMAIN issues
    BY ElementOfSeq, LenProperties DEF Types, IssueTypes, Unlinked
  <1>2. NoIssue \notin Issues
    BY DEF NoIssue, Issues
  <1>3. \A s \in Statuses : Label(s) \in Labels
    BY DEF Labels
  <1>4. QED
    BY <1>1, <1>2, <1>3

LEMMA StatusOfIssue ==
  ASSUME NEW issue \in Issues
  PROVE  StateToStatus(issue) \subseteq Statuses
  <1>1. AdbLabelFrom(issue.labels) \subseteq Statuses
    BY DEF Issues, Labels, Label, Mine, AdbLabelFrom, isAdbOwnedLabel
  <1>2. QED
    BY <1>1, IssueSyncAssumption DEF StateToStatus

LEMMA NewIssueTyped ==
  ASSUME Types, NEW b \in Nat, NEW s \in Statuses
  PROVE  NewIssue(b, s) \in Issues
  BY IssueFacts DEF NewIssue, Issues, Types, IssueTypes

LEMMA NewRecordTyped == NewRecord \in TaskRecords
  BY IssueSyncAssumption DEF NewRecord, TaskRecords, Unlinked

-----------------------------------------------------------------------------
(* What a step does to the issues.                                         *)

(* Only this issue changes, into that one.                                 *)
Becomes(n, issue) ==
    /\ n \in DOMAIN issues /\ issue \in Issues
    /\ issues' \in Seq(Issues) /\ DOMAIN issues' = DOMAIN issues /\ Len(issues') = Len(issues)
    /\ issues'[n] = issue /\ \A m \in DOMAIN issues \ {n} : issues'[m] = issues[m]

IssueAdded(issue) ==
    /\ issue \in Issues
    /\ issues' \in Seq(Issues) /\ Len(issues') = Len(issues) + 1
    /\ DOMAIN issues' = DOMAIN issues \cup {Len(issues) + 1}
    /\ Len(issues) + 1 \notin DOMAIN issues
    /\ issues'[Len(issues) + 1] = issue /\ \A m \in DOMAIN issues : issues'[m] = issues[m]

LEMMA PutInPlace ==
  ASSUME NEW n \in DOMAIN issues, NEW issue \in Issues, issues \in Seq(Issues),
         issues' = [issues EXCEPT ![n] = issue]
  PROVE  Becomes(n, issue)
  BY PutIssue DEF Becomes

LEMMA Typed ==
  ASSUME Shape, NEW p \in Procs
  PROVE  /\ issues \in Seq(Issues) /\ clock \in Nat /\ rec \in TaskRecords
         /\ loaded[p] \in TaskRecords /\ stale[p] \in SUBSET Labels /\ body[p] \in Nat
         /\ got[p] \in Issues \cup {NoIssue} /\ link[p] \in Nat /\ Label(loaded[p].status) \in Labels
  BY DEF Shape, Types, IssueTypes, TaskTypes, OwnTypes, TaskRecords, Labels

LEMMA LinkLeads ==
  ASSUME Shape, NEW p \in Procs, pc[p] \in Pushing \cup {"pull", "store"},
         pc[p] = "store" => link[p] # Unlinked
  PROVE  link[p] \in DOMAIN issues /\ issues[link[p]] \in Issues
  <1>1. link[p] \in DOMAIN issues
    BY DEF Shape, LinksAndTimes, Decided, Nameless
  <1>2. QED
    BY <1>1, IssueFacts DEF Shape

LEMMA HalfPushedLinked ==
  ASSUME Shape, NEW p \in Procs, HalfPushed(p)
  PROVE  /\ pc[p] \in {"state", "store"} /\ ~Pulls(p)
         /\ link[p] = loaded[p].link /\ link[p] \in DOMAIN issues /\ link[p] # Unlinked
  <1>1. pc[p] \in {"state", "store"} /\ ~Pulls(p) /\ loaded[p].link # Unlinked
    BY DEF HalfPushed, At, Shape, Decided, Pushing
  <1>2. link[p] = loaded[p].link
    BY <1>1 DEF Shape, Decided, Pushing
  <1>3. link[p] \in DOMAIN issues
    BY <1>1, <1>2 DEF Shape, LinksAndTimes
  <1>4. QED
    BY <1>1, <1>2, <1>3

LEMMA EditEffect ==
  ASSUME Shape, NEW p \in Procs, Edit(p)
  PROVE  Becomes(link[p], Edited(p, issues[link[p]]))
  <1>1. link[p] \in DOMAIN issues /\ issues[link[p]] \in Issues
    BY LinkLeads DEF Edit, At, Pushing
  <1>2. /\ stale[p] \in SUBSET Labels /\ body[p] \in Nat /\ clock + 1 \in Nat
        /\ Label(loaded[p].status) \in Labels /\ issues \in Seq(Issues)
    BY Typed
  <1>3. Edited(p, issues[link[p]]) \in Issues
    BY <1>1, <1>2 DEF Edited, Issues
  <1>4. QED
    BY <1>1, <1>2, <1>3, PutInPlace DEF Edit

LEMMA StateIsSet ==
  ASSUME NEW issue \in Issues, NEW state \in {"open", "closed"}, NEW at \in Nat
  PROVE  [issue EXCEPT !.state = state, !.at = at] \in Issues
  BY DEF Issues

LEMMA StateEffect ==
  ASSUME Shape, NEW p \in Procs, SetState(p)
  PROVE  LET issue == issues[link[p]]
             state == StatusToState(loaded[p].status)
         IN  \/ /\ UNCHANGED <<clock, cut>> /\ issue.state = state
                /\ Becomes(link[p], issue)
             \/ /\ clock' = clock + 1 /\ UNCHANGED cut /\ issue.state # state
                /\ Becomes(link[p], [issue EXCEPT !.state = state, !.at = clock + 1])
             \/ /\ UNCHANGED <<clock, issues>>
                /\ cut' = IF issue.state = state THEN cut ELSE cut \cup {link[p]}
                /\ causes' = IF StaysClosed(p) THEN causes \cup {"reopen"} ELSE causes
  <1> DEFINE n == link[p]
             state == StatusToState(loaded[p].status)
  <1>1. /\ n \in DOMAIN issues /\ issues[n] \in Issues
        /\ clock + 1 \in Nat /\ issues \in Seq(Issues)
    BY LinkLeads, Typed DEF SetState, At, Pushing
  <1>2. state \in {"open", "closed"}
    BY DEF StatusToState
  <1>3. CASE issues' = [issues EXCEPT ![n].state = state,
                                      ![n].at = IF issues[n].state = state THEN issues[n].at ELSE clock + 1]
             /\ clock' = (IF issues[n].state = state THEN clock ELSE clock + 1) /\ cut' = cut
    <2>1. CASE issues[n].state = state
      <3>1. issues' = [issues EXCEPT ![n] = issues[n]]
        BY <1>1, <1>3, <2>1 DEF Issues
      <3>2. QED
        BY <1>1, <1>3, <2>1, <3>1, PutInPlace
    <2>2. CASE issues[n].state # state
      <3>1. issues' = [issues EXCEPT ![n] = [issues[n] EXCEPT !.state = state, !.at = clock + 1]]
        BY <1>1, <1>3, <2>2 DEF Issues
      <3>2. [issues[n] EXCEPT !.state = state, !.at = clock + 1] \in Issues
        BY <1>1, <1>2, StateIsSet
      <3>3. Becomes(n, [issues[n] EXCEPT !.state = state, !.at = clock + 1])
        BY <1>1, <3>1, <3>2, PutInPlace
      <3>4. QED
        BY <1>3, <2>2, <3>3
    <2>3. QED
      BY <2>1, <2>2
  <1>4. CASE /\ cut' = (IF issues[n].state = state THEN cut ELSE cut \cup {n})
             /\ causes' = IF StaysClosed(p) THEN causes \cup {"reopen"} ELSE causes
             /\ UNCHANGED <<issues, clock>>
    BY <1>4
  <1>5. QED
    BY <1>3, <1>4 DEF SetState, InState

(* What people may make of an issue: one that says one status more.        *)
Maintained(issue, new) ==
    \/ AdbLabels(new) = AdbLabels(issue)
    \/ \E s \in Statuses : AdbLabels(new) = {Label(s)}

LEMMA MaintainEffect ==
  ASSUME Shape, Maintain
  PROVE  \E n \in DOMAIN issues : \E issue \in Issues :
            /\ Becomes(n, issue) /\ Maintained(issues[n], issue)
            /\ issue.at = clock + 1 /\ clock' = clock + 1
            /\ unseen' = unseen \cup {n} /\ cut' = cut
  <1> USE IssueFacts
  <1> DEFINE Works(n, issue) ==
         /\ Becomes(n, issue) /\ Maintained(issues[n], issue)
         /\ issue.at = clock + 1 /\ clock' = clock + 1
            /\ unseen' = unseen \cup {n} /\ cut' = cut
  <1>1. issues \in Seq(Issues) /\ clock + 1 \in Nat /\ NewBody \in Nat
    BY DEF Shape, Types, IssueTypes, NewBody
  <1>2. PICK n \in DOMAIN issues :
         /\ \/ issues' = [issues EXCEPT ![n].body = NewBody, ![n].at = clock + 1]
            \/ issues' = [issues EXCEPT ![n].labels = @ \cup {Mine}, ![n].at = clock + 1]
            \/ \E state \in {"open", "closed"} \ {issues[n].state} :
                 issues' = [issues EXCEPT ![n].state = state, ![n].at = clock + 1]
            \/ \E s \in Statuses :
                 issues' = [issues EXCEPT ![n].at = clock + 1,
                              ![n].labels = {Label(s)} \cup {l \in @ : ~isAdbOwnedLabel(l)}]
         /\ unseen' = unseen \cup {n}
    BY DEF Maintain
  <1>3. clock' = clock + 1 /\ cut' = cut
    BY DEF Maintain
  <1>4. issues[n] \in Issues
    BY DEF Shape
  <1>5. CASE issues' = [issues EXCEPT ![n].body = NewBody, ![n].at = clock + 1]
    <2> DEFINE new == [issues[n] EXCEPT !.body = NewBody, !.at = clock + 1]
    <2>1. new \in Issues /\ new.at = clock + 1 /\ new.labels = issues[n].labels
      BY <1>1, <1>4 DEF Issues
    <2>2. issues' = [issues EXCEPT ![n] = new]
      BY <1>1, <1>4, <1>5
    <2>3. Works(n, new)
      BY <1>1, <1>2, <1>3, <2>1, <2>2, PutInPlace DEF Maintained, AdbLabels
    <2>4. QED
      BY <2>1, <2>3
  <1>6. CASE issues' = [issues EXCEPT ![n].labels = @ \cup {Mine}, ![n].at = clock + 1]
    <2> DEFINE new == [issues[n] EXCEPT !.labels = @ \cup {Mine}, !.at = clock + 1]
    <2>1. new \in Issues /\ new.at = clock + 1 /\ new.labels = issues[n].labels \cup {Mine}
      BY <1>1, <1>4 DEF Issues, Labels
    <2>2. issues' = [issues EXCEPT ![n] = new]
      BY <1>1, <1>4, <1>6
    <2>3. ~isAdbOwnedLabel(Mine)
      BY DEF isAdbOwnedLabel, Mine
    <2>4. Works(n, new)
      BY <1>1, <1>2, <1>3, <2>1, <2>2, <2>3, PutInPlace DEF Maintained, AdbLabels
    <2>5. QED
      BY <2>1, <2>4
  <1>7. CASE \E state \in {"open", "closed"} \ {issues[n].state} :
                 issues' = [issues EXCEPT ![n].state = state, ![n].at = clock + 1]
    <2>1. PICK state \in {"open", "closed"} :
                 issues' = [issues EXCEPT ![n].state = state, ![n].at = clock + 1]
      BY <1>7
    <2> DEFINE new == [issues[n] EXCEPT !.state = state, !.at = clock + 1]
    <2>2. new \in Issues /\ new.at = clock + 1 /\ new.labels = issues[n].labels
      BY <1>1, <1>4 DEF Issues
    <2>3. issues' = [issues EXCEPT ![n] = new]
      BY <1>1, <1>4, <2>1
    <2>4. Works(n, new)
      BY <1>1, <1>2, <1>3, <2>2, <2>3, PutInPlace DEF Maintained, AdbLabels
    <2>5. QED
      BY <2>2, <2>4
  <1>8. CASE \E s \in Statuses :
                 issues' = [issues EXCEPT ![n].at = clock + 1,
                              ![n].labels = {Label(s)} \cup {l \in @ : ~isAdbOwnedLabel(l)}]
    <2>1. PICK s \in Statuses :
                 issues' = [issues EXCEPT ![n].at = clock + 1,
                              ![n].labels = {Label(s)} \cup {l \in @ : ~isAdbOwnedLabel(l)}]
      BY <1>8
    <2> DEFINE new == [issues[n] EXCEPT !.at = clock + 1,
                          !.labels = {Label(s)} \cup {l \in @ : ~isAdbOwnedLabel(l)}]
    <2>2. /\ new \in Issues /\ new.at = clock + 1
          /\ new.labels = {Label(s)} \cup {l \in issues[n].labels : ~isAdbOwnedLabel(l)}
      BY <1>1, <1>4 DEF Issues, Shape
    <2>3. issues' = [issues EXCEPT ![n] = new]
      BY <1>1, <1>4, <2>1
    <2>4. isAdbOwnedLabel(Label(s))
      BY DEF isAdbOwnedLabel, Label
    <2>5. AdbLabels(new) = {Label(s)}
      BY <2>2, <2>4 DEF AdbLabels
    <2>6. Works(n, new)
      BY <1>1, <1>2, <1>3, <2>2, <2>3, <2>5, PutInPlace DEF Maintained
    <2>7. QED
      BY <2>2, <2>6
  <1>9. QED
    BY <1>2, <1>5, <1>6, <1>7, <1>8

-----------------------------------------------------------------------------
(* Types, links and verdicts.                                              *)

LEMMA DoneTyped ==
  ASSUME OwnTypes, NEW p \in Procs, Done(p)
  PROVE  OwnTypes'
  <1>1. NewRecord \in TaskRecords /\ NoRun \in [direction : {"none", "both", "push", "pull"}, dryRun : BOOLEAN]
    BY NewRecordTyped DEF NoRun
  <1>2. QED
    BY <1>1 DEF OwnTypes, Done, Steps, Unlinked

LEMMA IssuesTyped ==
  ASSUME IssueTypes,
         \/ UNCHANGED issues
         \/ \E n \in DOMAIN issues : \E issue \in Issues : Becomes(n, issue)
         \/ \E issue \in Issues : IssueAdded(issue),
         clock' \in {clock, clock + 1},
         unseen' \subseteq unseen \/ \E n \in DOMAIN issues : unseen' = unseen \cup {n},
         cut' \subseteq cut \/ \E n \in DOMAIN issues : cut' = cut \cup {n}
  PROVE  IssueTypes'
  <1>1. issues' \in Seq(Issues) /\ DOMAIN issues \subseteq DOMAIN issues'
    BY DEF IssueTypes, Becomes, IssueAdded
  <1>2. QED
    BY <1>1 DEF IssueTypes

LEMMA MakeEffect ==
  ASSUME Shape, NEW p \in Procs, MakeIssue(p)
  PROVE  IssueAdded(NewIssue(body[p], loaded[p].status))
  <1>1. body[p] \in Nat /\ loaded[p].status \in Statuses /\ issues \in Seq(Issues)
    BY Typed DEF TaskRecords
  <1>2. NewIssue(body[p], loaded[p].status) \in Issues
    BY <1>1, NewIssueTyped DEF Shape
  <1>3. QED
    BY <1>1, <1>2, AddIssue DEF MakeIssue, IssueAdded

LEMMA StoredTyped ==
  ASSUME Shape, NEW p \in Procs, At(p, "store"), NEW s \in NewStatuses(p)
  PROVE  Stored(p, s) \in TaskRecords /\ s \in Statuses
  <1>1. loaded[p] \in TaskRecords /\ link[p] \in Nat /\ body[p] \in Nat
    BY Typed
  <1>2. s \in Statuses
    BY <1>1, StatusOfIssue, Typed DEF NewStatuses, Pulls, TaskRecords
  <1>3. SyncHash(s, body[p]) \in Statuses \X Nat
    BY <1>1, <1>2 DEF SyncHash
  <1>4. QED
    BY <1>1, <1>2, <1>3 DEF Stored, TaskRecords

LEMMA TypesPreserved ==
  ASSUME Shape, [Next]_vars
  PROVE  Types'
  <1> USE DEF Types
  <1>1. /\ IssueTypes /\ TaskTypes /\ OwnTypes /\ edits \in Nat /\ faults \in Nat
        /\ repo \in {"github", "gitlab", "none"}
    BY DEF Shape
  <1>2. ASSUME NEW p \in Procs, Load(p)
        PROVE  Types'
    <2>1. OwnTypes'
      BY <1>1, <1>2, IssueSyncAssumption DEF Load, OwnTypes, TaskTypes, Steps
    <2>2. QED
      BY <1>1, <1>2, <2>1 DEF Load, remote, local, IssueTypes, TaskTypes
  <1>3. ASSUME NEW p \in Procs, ReadBody(p)
        PROVE  Types'
    <2>1. OwnTypes'
      BY <1>1, <1>3 DEF ReadBody, Goto, OwnTypes, TaskTypes, Steps
    <2>2. QED
      BY <1>1, <1>3, <2>1 DEF ReadBody, Fault, remote, local, IssueTypes, TaskTypes
  <1>4. ASSUME NEW p \in Procs, Decide(p)
        PROVE  Types'
    <2>1. \A issue \in Get(p) : issue \in Issues \cup {NoIssue}
      BY IssueFacts DEF Shape, LinksAndTimes, Get
    <2>2. loaded[p].link \in Nat
      BY Typed DEF TaskRecords
    <2>3. \A r, b, issue, d : FirstStep(Reconcile(r, b, issue, d)) \in
              {"create", "pull", "noop", "labels", "edit"}
      BY DEF FirstStep, Reconcile
    <2>4. OwnTypes'
      <3>1. CASE Done(p)
        BY <1>1, <3>1, DoneTyped
      <3>2. CASE \E issue \in Get(p) :
                   LET verdict == Reconcile(loaded[p], body[p], issue, args[p].direction)
                   IN  /\ verdict # "noop"
                       /\ Goto(p, FirstStep(verdict))
                       /\ got' = [got EXCEPT ![p] = issue]
                       /\ link' = [link EXCEPT ![p] = loaded[p].link]
                       /\ UNCHANGED <<body, stale>>
        <4>1. PICK issue \in Get(p) :
                   LET verdict == Reconcile(loaded[p], body[p], issue, args[p].direction)
                   IN  /\ verdict # "noop"
                       /\ Goto(p, FirstStep(verdict))
                       /\ got' = [got EXCEPT ![p] = issue]
                       /\ link' = [link EXCEPT ![p] = loaded[p].link]
                       /\ UNCHANGED <<body, stale>>
          BY <3>2
        <4>2. FirstStep(Reconcile(loaded[p], body[p], issue, args[p].direction)) \in Steps
          BY <4>1 DEF FirstStep, Reconcile, Steps, Pushing
        <4>3. QED
          BY <1>1, <2>1, <2>2, <4>1, <4>2 DEF Goto, OwnTypes
      <3>3. QED
        BY <1>4, <3>1, <3>2 DEF Decide
    <2>5. QED
      BY <1>1, <1>4, <2>4 DEF Decide, remote, local, IssueTypes, TaskTypes
  <1>5. ASSUME NEW p \in Procs, GetFails(p) \/ EditFails(p) \/ PullFails(p)
        PROVE  Types'
    <2>1. Done(p) /\ UNCHANGED <<repo, remote, local, edits>> /\ faults' = faults + 1
      BY <1>5 DEF GetFails, EditFails, PullFails, Fault
    <2>2. QED
      BY <1>1, <2>1, DoneTyped DEF remote, local, IssueTypes, TaskTypes
  <1>6. ASSUME NEW p \in Procs, Create(p)
        PROVE  Types'
    <2>1. Len(issues) + 1 \in Nat
      BY <1>1, LenProperties DEF IssueTypes
    <2>2. /\ \E n \in Nat : link' = [link EXCEPT ![p] = n]
          /\ Goto(p, "store") /\ UNCHANGED <<repo, local, body, got, stale, edits>>
          /\ faults' \in {faults, faults + 1}
      BY <1>6, <2>1 DEF Create, Fault, issueNumberFromURL, Unlinked
    <2>3. OwnTypes'
      BY <1>1, <2>2 DEF Goto, OwnTypes, Steps
    <2>4. IssueAdded(NewIssue(body[p], loaded[p].status)) /\ clock' = clock + 1
          /\ unseen' = unseen /\ cut' = cut
      BY <1>6, MakeEffect DEF Create, MakeIssue
    <2>5. IssueTypes'
      BY <1>1, <2>4, IssuesTyped DEF IssueAdded
    <2>6. QED
      BY <1>1, <2>2, <2>3, <2>5 DEF local, TaskTypes
  <1>7. ASSUME NEW p \in Procs, CreateFails(p)
        PROVE  Types'
    <2>1. Done(p) /\ UNCHANGED <<repo, local, edits>> /\ faults' = faults + 1
      BY <1>7 DEF CreateFails, Fault
    <2>2. CASE MakeIssue(p)
      <3>1. IssueAdded(NewIssue(body[p], loaded[p].status)) /\ clock' = clock + 1
          /\ unseen' = unseen /\ cut' = cut
        BY <2>2, MakeEffect DEF MakeIssue
      <3>2. IssueTypes'
        BY <1>1, <3>1, IssuesTyped DEF IssueAdded
      <3>3. QED
        BY <1>1, <2>1, <3>2, DoneTyped DEF local, TaskTypes
    <2>3. CASE UNCHANGED remote
      BY <1>1, <2>1, <2>3, DoneTyped DEF remote, local, IssueTypes, TaskTypes
    <2>4. QED
      BY <1>7, <2>2, <2>3 DEF CreateFails
  <1>8. ASSUME NEW p \in Procs, ReadLabels(p)
        PROVE  Types'
    <2>1. StaleLabels(p) \in SUBSET Labels
      BY <1>8, LinkLeads DEF StaleLabels, Issues, ReadLabels, At, Pushing
    <2>2. OwnTypes'
      BY <1>1, <1>8, <2>1 DEF ReadLabels, Goto, OwnTypes, Steps, Pushing
    <2>3. QED
      BY <1>1, <1>8, <2>2 DEF ReadLabels, Fault, remote, local, IssueTypes, TaskTypes
  <1>9. ASSUME NEW p \in Procs, Edit(p)
        PROVE  Types'
    <2>1. OwnTypes'
      BY <1>1, <1>9 DEF Edit, Goto, OwnTypes, Steps, Pushing
    <2>2. Becomes(link[p], Edited(p, issues[link[p]])) /\ clock' = clock + 1
          /\ unseen' \subseteq unseen /\ cut' \subseteq cut
      BY <1>9, EditEffect DEF Edit
    <2>3. IssueTypes'
      BY <1>1, <2>2, IssuesTyped DEF Becomes
    <2>4. QED
      BY <1>1, <1>9, <2>1, <2>3 DEF Edit, local, TaskTypes
  <1>10. ASSUME NEW p \in Procs, SetState(p)
         PROVE  Types'
    <2>1. OwnTypes'
      BY <1>1, <1>10 DEF SetState, Goto, OwnTypes, Steps
    <2>2. link[p] \in DOMAIN issues /\ issues[link[p]] \in Issues
      BY <1>10, LinkLeads DEF SetState, At, Pushing
    <2>3. /\ UNCHANGED issues \/ \E n \in DOMAIN issues : \E issue \in Issues : Becomes(n, issue)
          /\ clock' \in {clock, clock + 1}
          /\ unseen' = unseen
          /\ cut' \subseteq cut \/ \E n \in DOMAIN issues : cut' = cut \cup {n}
      BY <1>10, <2>2, StateEffect DEF Becomes, SetState
    <2>4. IssueTypes'
      BY <1>1, <2>3, IssuesTyped
    <2>5. QED
      BY <1>1, <1>10, <2>1, <2>4 DEF SetState, Fault, local, TaskTypes
  <1>11. ASSUME NEW p \in Procs, PullBody(p)
         PROVE  Types'
    <2>1. got[p] \in Issues
      BY <1>11, Typed DEF PullBody, At, Shape, Decided, Pulls
    <2>2. got[p].body \in Nat
      BY <2>1 DEF Issues
    <2>3. OwnTypes'
      BY <1>1, <1>11, <2>2 DEF PullBody, Goto, OwnTypes, Steps
    <2>4. context' \in Nat
      BY <1>1, <1>11, <2>2 DEF PullBody, PulledBody, TaskTypes
    <2>5. QED
      BY <1>1, <1>11, <2>3, <2>4 DEF PullBody, remote, IssueTypes, TaskTypes
  <1>12. ASSUME NEW p \in Procs, Store(p)
         PROVE  Types'
    <2>1. TaskTypes'
      BY <1>1, <1>12, StoredTyped DEF Store, TaskTypes
    <2>2. unseen' \subseteq unseen /\ cut' \subseteq cut /\ Done(p)
          /\ UNCHANGED <<repo, issues, clock, edits, faults>>
      BY <1>12 DEF Store
    <2>3. QED
      BY <1>1, <2>1, <2>2, DoneTyped DEF IssueTypes
  <1>13. ASSUME NEW p \in Procs, StoreFails(p) \/ Crash(p)
         PROVE  Types'
    <2>1. Done(p) /\ UNCHANGED <<repo, local, issues, clock, edits>> /\ faults' = faults + 1
      BY <1>13 DEF StoreFails, Crash, Fault
    <2>2. unseen' \cup cut' \subseteq DOMAIN issues
      <3>1. HalfPushed(p) => link[p] \in DOMAIN issues
        BY LinkLeads, HalfPushedLinked
      <3>2. QED
        BY <1>1, <1>13, <3>1 DEF StoreFails, Crash, Forgotten, IssueTypes
    <2>3. QED
      BY <1>1, <2>1, <2>2, DoneTyped DEF local, IssueTypes, TaskTypes
  <1>14. CASE EditTask
    <2>1. clock + 1 \in Nat
      BY <1>1 DEF IssueTypes
    <2>2. \A s \in Statuses : Recorded(s) \in TaskRecords
      BY <1>1, <2>1 DEF Recorded, TaskTypes, TaskRecords
    <2>3. TaskTypes'
      BY <1>1, <1>14, <2>2 DEF EditTask, TaskTypes
    <2>4. QED
      BY <1>1, <1>14, <2>1, <2>3 DEF EditTask, Change, own, IssueTypes, OwnTypes
  <1>15. CASE EditBody
    BY <1>1, <1>15 DEF EditBody, Change, NewBody, own, remote, IssueTypes, TaskTypes, OwnTypes
  <1>16. CASE Maintain
    <2>1. PICK n \in DOMAIN issues, issue \in Issues :
            Becomes(n, issue) /\ clock' = clock + 1 /\ unseen' = unseen \cup {n} /\ cut' = cut
      BY <1>16, MaintainEffect
    <2>2. issues' \in Seq(Issues) /\ DOMAIN issues' = DOMAIN issues
      BY <2>1 DEF Becomes
    <2>3. IssueTypes'
      BY <1>1, <2>1, <2>2 DEF IssueTypes
    <2>4. UNCHANGED <<repo, pc, own, faults>> /\ UNCHANGED local /\ edits' = edits + 1
      BY <1>16, Zenon DEF Maintain, Change
    <2>5. QED
      BY <1>1, <2>3, <2>4 DEF own, local, TaskTypes, OwnTypes
  <1>17. CASE UNCHANGED vars
    BY <1>1, <1>17 DEF vars, own, remote, local, IssueTypes, TaskTypes, OwnTypes
  <1>18. QED
    BY <1>2, <1>3, <1>4, <1>5, <1>6, <1>7, <1>8, <1>9, <1>10, <1>11, <1>12, <1>13, <1>14,
       <1>15, <1>16, <1>17 DEF Next, Sync

OwnSame(q) ==
    /\ pc'[q] = pc[q] /\ loaded'[q] = loaded[q] /\ args'[q] = args[q] /\ body'[q] = body[q]
    /\ got'[q] = got[q] /\ stale'[q] = stale[q] /\ link'[q] = link[q]

LEMMA OthersSame ==
  ASSUME Shape, NEW p \in Procs, Load(p) \/ Sync(p) \/ Crash(p), NEW q \in Procs \ {p}
  PROVE  OwnSame(q)
  <1>1. OwnTypes
    BY DEF Shape, Types
  <1>2. Done(p) => OwnSame(q)
    BY <1>1 DEF Done, OwnSame, OwnTypes
  <1>3. CASE Load(p) \/ ReadBody(p) \/ ReadLabels(p)
    BY <1>1, <1>3 DEF Load, ReadBody, ReadLabels, Goto, OwnSame, OwnTypes
  <1>4. CASE Create(p) \/ Edit(p)
    BY <1>1, <1>4 DEF Create, Edit, Goto, OwnSame, OwnTypes
  <1>5. CASE SetState(p) \/ PullBody(p)
    BY <1>1, <1>5 DEF SetState, PullBody, Goto, OwnSame, OwnTypes
  <1>6. CASE Decide(p)
    BY <1>1, <1>2, <1>6 DEF Decide, Goto, OwnSame, OwnTypes
  <1>7. CASE Store(p) \/ StoreFails(p) \/ Crash(p) \/ CreateFails(p)
    BY <1>2, <1>7 DEF Store, StoreFails, Crash, CreateFails
  <1>8. CASE GetFails(p) \/ EditFails(p) \/ PullFails(p)
    BY <1>2, <1>8 DEF GetFails, EditFails, PullFails
  <1>9. QED
    BY <1>3, <1>4, <1>5, <1>6, <1>7, <1>8 DEF Sync

LEMMA AllSame ==
  ASSUME EditTask \/ EditBody \/ Maintain \/ UNCHANGED vars, NEW q \in Procs
  PROVE  OwnSame(q)
  <1>1. pc' = pc /\ UNCHANGED own
    BY Zenon DEF EditTask, EditBody, Maintain, Change, vars
  <1>2. QED
    BY <1>1 DEF own, OwnSame

(* The issues that a step leaves, changes or makes.                        *)
Untouched == UNCHANGED issues /\ clock' \in {clock, clock + 1}
Touched(n, issue) ==
    Becomes(n, issue) /\ issue.at <= clock' /\ clock' \in {clock, clock + 1}
Made(issue) == IssueAdded(issue) /\ issue.at = clock + 1 /\ clock' = clock + 1

LEMMA IssueSteps ==
  ASSUME Shape, [Next]_vars
  PROVE  \/ Untouched
         \/ \E n \in DOMAIN issues : \E issue \in Issues : Touched(n, issue)
         \/ \E issue \in Issues : Made(issue)
  <1>1. clock \in Nat
    BY DEF Shape, Types, IssueTypes
  <1>2. ASSUME NEW p \in Procs, MakeIssue(p)
        PROVE  \E issue \in Issues : Made(issue)
    <2>1. IssueAdded(NewIssue(body[p], loaded[p].status))
      BY <1>2, MakeEffect
    <2>2. QED
      BY <1>2, <2>1 DEF MakeIssue, IssueAdded, Made, NewIssue
  <1>3. ASSUME NEW p \in Procs, Edit(p)
        PROVE  \E n \in DOMAIN issues : \E issue \in Issues : Touched(n, issue)
    <2> DEFINE issue == Edited(p, issues[link[p]])
    <2>1. Becomes(link[p], issue)
      BY <1>3, EditEffect
    <2>2. issues[link[p]] \in Issues
      BY <1>3, LinkLeads DEF Edit, At, Pushing
    <2>3. issue.at = clock + 1 /\ clock' = clock + 1
      BY <1>3, <2>2 DEF Edit, Edited, Issues
    <2>4. QED
      BY <1>1, <2>1, <2>3 DEF Becomes, Touched
  <1>4. ASSUME NEW p \in Procs, SetState(p)
        PROVE  Untouched \/ \E n \in DOMAIN issues : \E issue \in Issues : Touched(n, issue)
    <2> DEFINE issue == issues[link[p]]
               state == StatusToState(loaded[p].status)
    <2>1. link[p] \in DOMAIN issues /\ issue \in Issues /\ issue.at <= clock
      BY <1>4, LinkLeads DEF SetState, At, Pushing, Shape, LinksAndTimes
    <2>2. CASE UNCHANGED clock /\ Becomes(link[p], issue)
      BY <1>1, <2>1, <2>2 DEF Touched
    <2>3. CASE /\ clock' = clock + 1
               /\ Becomes(link[p], [issue EXCEPT !.state = state, !.at = clock + 1])
      <3>1. [issue EXCEPT !.state = state, !.at = clock + 1].at = clock + 1
        BY <2>1 DEF Issues
      <3>2. clock + 1 <= clock + 1
        BY <1>1
      <3>3. Touched(link[p], [issue EXCEPT !.state = state, !.at = clock + 1])
        BY <2>3, <3>1, <3>2 DEF Touched
      <3>4. QED
        BY <3>3 DEF Becomes, Touched
    <2>4. CASE UNCHANGED <<clock, issues>>
      BY <2>4 DEF Untouched
    <2>5. QED
      BY <1>4, <2>2, <2>3, <2>4, StateEffect
  <1>5. CASE Maintain
    <2>1. PICK n \in DOMAIN issues, issue \in Issues :
            Becomes(n, issue) /\ issue.at = clock + 1 /\ clock' = clock + 1
      BY <1>5, MaintainEffect
    <2>2. Touched(n, issue)
      BY <1>1, <2>1 DEF Touched
    <2>3. QED
      BY <2>2
  <1>6. ASSUME NEW p \in Procs,
               \/ Load(p) \/ ReadBody(p) \/ Decide(p) \/ GetFails(p)
               \/ ReadLabels(p) \/ EditFails(p) \/ PullBody(p) \/ PullFails(p)
        PROVE  Untouched
    BY <1>1, <1>6 DEF Load, ReadBody, Decide, GetFails, ReadLabels, EditFails, PullBody, PullFails,
       remote, Untouched
  <1>7. ASSUME NEW p \in Procs, Store(p) \/ StoreFails(p) \/ Crash(p)
        PROVE  Untouched
    BY <1>1, <1>7 DEF Store, StoreFails, Crash, Untouched
  <1>8. ASSUME NEW p \in Procs, CreateFails(p)
        PROVE  Untouched \/ \E issue \in Issues : Made(issue)
    BY <1>1, <1>2, <1>8 DEF CreateFails, remote, Untouched
  <1>9. CASE EditTask \/ EditBody \/ UNCHANGED vars
    BY <1>1, <1>9 DEF EditTask, EditBody, vars, remote, Untouched
  <1>10. QED
    BY <1>2, <1>3, <1>4, <1>5, <1>6, <1>7, <1>8, <1>9 DEF Next, Sync, Create

(* Issues stay, under their numbers.                                       *)
LEMMA IssuesStay ==
  ASSUME Shape, [Next]_vars
  PROVE  /\ DOMAIN issues \subseteq DOMAIN issues' /\ clock <= clock'
         /\ \A n \in DOMAIN issues' : issues'[n].at <= clock'
  <1>1. clock \in Nat /\ \A n \in DOMAIN issues : issues[n].at <= clock /\ issues[n].at \in Nat
    BY IssueFacts DEF Shape, Types, IssueTypes, LinksAndTimes, Issues
  <1>2. CASE Untouched
    BY <1>1, <1>2 DEF Untouched
  <1>3. CASE \E n \in DOMAIN issues : \E issue \in Issues : Touched(n, issue)
    BY <1>1, <1>3 DEF Touched, Becomes
  <1>4. CASE \E issue \in Issues : Made(issue)
    BY <1>1, <1>4 DEF Made, IssueAdded
  <1>5. QED
    BY <1>2, <1>3, <1>4, IssueSteps

(* The record changes by a write-back or an edit; a process loads it.      *)
LEMMA RecordSteps ==
  ASSUME Shape, [Next]_vars
  PROVE  /\ \/ UNCHANGED rec
            \/ EditTask
            \/ \E p \in Procs : Store(p) /\ rec'.link = link[p] /\ rec'.updated = loaded[p].updated
         /\ \A p \in Procs : loaded'[p] \in {loaded[p], rec, NewRecord}
  <1>1. OwnTypes
    BY DEF Shape, Types
  <1>2. ASSUME NEW p \in Procs
        PROVE  /\ Done(p) => \A q \in Procs : loaded'[q] \in {loaded[q], NewRecord}
               /\ \A step : Goto(p, step) => loaded' = loaded
    BY <1>1 DEF OwnTypes, Done, Goto
  <1>3. ASSUME NEW p \in Procs, Store(p)
        PROVE  rec'.link = link[p] /\ rec'.updated = loaded[p].updated
    <2>1. loaded[p] \in TaskRecords
      BY Typed
    <2>2. QED
      BY <1>3, <2>1 DEF Store, Stored, TaskRecords
  <1>4. ASSUME NEW p \in Procs,
               \/ ReadBody(p) \/ Create(p) \/ ReadLabels(p) \/ Edit(p) \/ SetState(p) \/ PullBody(p)
        PROVE  UNCHANGED rec /\ UNCHANGED loaded
    BY <1>4 DEF ReadBody, Create, ReadLabels, Edit, SetState, PullBody, Goto, local
  <1>5. ASSUME NEW p \in Procs,
               \/ GetFails(p) \/ CreateFails(p) \/ EditFails(p) \/ PullFails(p)
               \/ StoreFails(p) \/ Crash(p)
        PROVE  UNCHANGED rec /\ Done(p)
    BY <1>5 DEF GetFails, CreateFails, EditFails, PullFails, StoreFails, Crash, local
  <1>6. ASSUME NEW p \in Procs, Decide(p)
        PROVE  UNCHANGED rec /\ (Done(p) \/ UNCHANGED loaded)
    BY <1>6 DEF Decide, Goto, local
  <1>7. ASSUME NEW p \in Procs, Load(p)
        PROVE  UNCHANGED rec /\ \A q \in Procs : loaded'[q] \in {loaded[q], rec}
    BY <1>1, <1>7 DEF Load, local, OwnTypes
  <1>8. CASE EditTask \/ EditBody \/ Maintain \/ UNCHANGED vars
    <2>1. UNCHANGED loaded /\ (EditTask \/ UNCHANGED rec)
      BY <1>8, Zenon DEF EditTask, EditBody, Maintain, Change, own, vars, local
    <2>2. QED
      BY <2>1
  <1>9. ASSUME NEW p \in Procs, Store(p)
        PROVE  Done(p)
    BY <1>9 DEF Store
  <1>10. QED
    BY <1>2, <1>3, <1>4, <1>5, <1>6, <1>7, <1>8, <1>9 DEF Next, Sync

LEMMA LinksPreserved ==
  ASSUME Shape, [Next]_vars
  PROVE  LinksAndTimes'
  <1>1. /\ DOMAIN issues \subseteq DOMAIN issues' /\ clock <= clock'
        /\ \A n \in DOMAIN issues' : issues'[n].at <= clock'
    BY IssuesStay
  <1>2. /\ clock \in Nat /\ clock' \in Nat /\ rec.updated \in Nat
        /\ \A p \in Procs : loaded[p].updated \in Nat
    BY TypesPreserved, Typed DEF Shape, Types, IssueTypes, TaskTypes, TaskRecords
  <1>3. LinksAndTimes
    BY DEF Shape
  <1>4. rec'.link \in {Unlinked} \cup DOMAIN issues' /\ rec'.updated <= clock'
    <2>1. CASE UNCHANGED rec
      BY <1>1, <1>2, <1>3, <2>1 DEF LinksAndTimes
    <2>2. CASE EditTask
      <3>1. rec'.link = rec.link /\ rec'.updated = clock + 1 /\ clock' = clock + 1
        BY <2>2 DEF EditTask, Recorded, Shape, Types, TaskTypes, TaskRecords
      <3>2. QED
        BY <1>1, <1>2, <1>3, <3>1 DEF LinksAndTimes
    <2>3. ASSUME NEW p \in Procs, Store(p), rec'.link = link[p], rec'.updated = loaded[p].updated
          PROVE  rec'.link \in {Unlinked} \cup DOMAIN issues' /\ rec'.updated <= clock'
      BY <1>1, <1>2, <1>3, <2>3, LinkLeads DEF LinksAndTimes, Store, At
    <2>4. QED
      BY <2>1, <2>2, <2>3, RecordSteps
  <1>5. ASSUME NEW p \in Procs
        PROVE  loaded'[p].link \in {Unlinked} \cup DOMAIN issues' /\ loaded'[p].updated <= clock'
    <2>1. loaded'[p] \in {loaded[p], rec, NewRecord}
      BY RecordSteps
    <2>2. NewRecord.link = Unlinked /\ NewRecord.updated = 1
      BY DEF NewRecord
    <2>3. QED
      BY <1>1, <1>2, <1>3, <2>1, <2>2 DEF LinksAndTimes
  <1>6. QED
    BY <1>1, <1>2, <1>3, <1>4, <1>5 DEF LinksAndTimes

LEMMA DecidedStays ==
  ASSUME NEW q \in Procs, Decided(q), OwnSame(q), DOMAIN issues \subseteq DOMAIN issues'
  PROVE  Decided(q)'
  BY DEF Decided, Nameless, OwnSame, Pulls, remoteChanged, Pushing

LEMMA DecidedPreserved ==
  ASSUME Shape, [Next]_vars, NEW q \in Procs
  PROVE  Decided(q)'
  <1>1. OwnTypes /\ Decided(q)
    BY DEF Shape, Types
  <1>2. DOMAIN issues \subseteq DOMAIN issues'
    BY IssuesStay
  <1>3. Done(q) => Decided(q)'
    BY <1>1 DEF Done, OwnTypes, Decided, Pushing
  <1>4. CASE Load(q)
    BY <1>1, <1>4 DEF Load, OwnTypes, Decided, Pushing
  <1>5. CASE ReadBody(q)
    BY <1>1, <1>5 DEF ReadBody, Goto, OwnTypes, Decided, Pushing
  <1>6. CASE Decide(q)
    <2>1. PICK issue \in Get(q) :
             LET verdict == Reconcile(loaded[q], body[q], issue, args[q].direction)
             IN  \/ Done(q)
                 \/ /\ verdict # "noop" /\ Goto(q, FirstStep(verdict))
                    /\ got' = [got EXCEPT ![q] = issue]
                    /\ link' = [link EXCEPT ![q] = loaded[q].link]
      BY <1>6 DEF Decide
    <2>2. issue = NoIssue <=> loaded[q].link = Unlinked
      BY <2>1, IssueFacts DEF Get, Shape, LinksAndTimes
    <2> DEFINE verdict == Reconcile(loaded[q], body[q], issue, args[q].direction)
    <2>3. CASE /\ verdict # "noop" /\ Goto(q, FirstStep(verdict))
               /\ got' = [got EXCEPT ![q] = issue]
               /\ link' = [link EXCEPT ![q] = loaded[q].link]
      <3>1. /\ pc'[q] = FirstStep(verdict) /\ got'[q] = issue /\ link'[q] = loaded[q].link
            /\ loaded'[q] = loaded[q]
        BY <1>1, <2>3 DEF OwnTypes, Goto
      <3>2. CASE issue = NoIssue
        <4>1. pc'[q] = "create"
          BY <2>3, <3>1, <3>2 DEF Reconcile, FirstStep
        <4>2. QED
          BY <2>2, <3>1, <3>2, <4>1 DEF Decided, Pushing
      <3>3. CASE issue # NoIssue /\ remoteChanged(loaded[q], issue)
        <4>1. pc'[q] = "pull"
          BY <2>3, <3>1, <3>3 DEF Reconcile, FirstStep
        <4>2. QED
          BY <2>2, <3>1, <3>3, <4>1 DEF Decided, Pushing, Pulls, remoteChanged
      <3>4. CASE issue # NoIssue /\ ~remoteChanged(loaded[q], issue)
        <4>1. pc'[q] \in {"labels", "edit"}
          BY <2>3, <3>1, <3>4 DEF Reconcile, FirstStep
        <4>2. QED
          BY <2>2, <3>1, <3>4, <4>1 DEF Decided, Pushing, Pulls, remoteChanged
      <3>5. QED
        BY <3>2, <3>3, <3>4
    <2>4. QED
      BY <1>3, <2>1, <2>3
  <1>7. CASE Create(q)
    <2>1. /\ pc'[q] = "store" /\ link'[q] \in {Unlinked, Len(issues) + 1} /\ got'[q] = got[q]
          /\ loaded'[q] = loaded[q] /\ body'[q] = body[q]
      BY <1>1, <1>7 DEF Create, Goto, OwnTypes, issueNumberFromURL
    <2>2. Len(issues) + 1 \in DOMAIN issues'
      BY <1>7, MakeEffect DEF Create, IssueAdded
    <2>3. QED
      BY <1>1, <1>7, <2>1, <2>2 DEF Decided, Pushing, Create, At, Pulls, Nameless
  <1>8. CASE ReadLabels(q) \/ Edit(q)
    BY <1>1, <1>2, <1>8 DEF ReadLabels, Edit, At, Goto, OwnTypes, Decided, Pushing, Pulls, remoteChanged
  <1>9. CASE SetState(q)
    <2>1. link[q] \in DOMAIN issues
      BY <1>9, LinkLeads DEF SetState, At, Pushing
    <2>2. QED
      BY <1>1, <1>2, <1>9, <2>1 DEF SetState, At, Goto, OwnTypes, Decided, Pushing, Pulls, remoteChanged
  <1>10. CASE PullBody(q)
    <2>1. link[q] \in DOMAIN issues
      BY <1>10, LinkLeads DEF PullBody, At, Pushing
    <2>2. QED
      BY <1>1, <1>2, <1>10, <2>1 DEF PullBody, At, Goto, OwnTypes, Decided, Pushing, Pulls, remoteChanged
  <1>11. CASE Store(q) \/ StoreFails(q) \/ Crash(q) \/ CreateFails(q)
    BY <1>3, <1>11 DEF Store, StoreFails, Crash, CreateFails
  <1>12. CASE GetFails(q) \/ EditFails(q) \/ PullFails(q)
    BY <1>3, <1>12 DEF GetFails, EditFails, PullFails
  <1>13. CASE \E p \in Procs \ {q} : Load(p) \/ Sync(p) \/ Crash(p)
    BY <1>1, <1>2, <1>13, OthersSame, DecidedStays
  <1>14. CASE EditTask \/ EditBody \/ Maintain \/ UNCHANGED vars
    BY <1>1, <1>2, <1>14, AllSame, DecidedStays
  <1>15. QED
    BY <1>4, <1>5, <1>6, <1>7, <1>8, <1>9, <1>10, <1>11, <1>12, <1>13, <1>14 DEF Next, Sync

LEMMA ShapePreserved ==
  ASSUME Shape, [Next]_vars
  PROVE  Shape'
  BY TypesPreserved, LinksPreserved, DecidedPreserved DEF Shape

-----------------------------------------------------------------------------
(* One process at work.                                                    *)

Acts(p) == Load(p) \/ Sync(p) \/ Crash(p)

LEMMA ActsOrEdits ==
  ASSUME [Next]_vars
  PROVE  (\E p \in Procs : Acts(p)) \/ EditTask \/ EditBody \/ Maintain \/ UNCHANGED vars
  BY DEF Next, Acts

LEMMA CausesStay ==
  ASSUME [Next]_vars
  PROVE  causes \subseteq causes' /\ repo' = repo
  <1>1. ASSUME NEW p \in Procs,
               \/ Load(p) \/ ReadBody(p) \/ Decide(p) \/ GetFails(p) \/ Create(p) \/ CreateFails(p)
               \/ ReadLabels(p)
        PROVE  causes \subseteq causes' /\ repo' = repo
    BY <1>1 DEF Load, ReadBody, Decide, GetFails, Create, CreateFails, ReadLabels
  <1>2. ASSUME NEW p \in Procs, Edit(p) \/ EditFails(p) \/ SetState(p) \/ PullBody(p) \/ PullFails(p)
        PROVE  causes \subseteq causes' /\ repo' = repo
    BY <1>2 DEF Edit, EditFails, SetState, PullBody, PullFails
  <1>3. ASSUME NEW p \in Procs, Store(p) \/ StoreFails(p) \/ Crash(p)
        PROVE  causes \subseteq causes' /\ repo' = repo
    BY <1>3 DEF Store, StoreFails, Crash, Forgotten
  <1>4. CASE EditTask \/ EditBody \/ Maintain \/ UNCHANGED vars
    <2>1. repo' = repo /\ (UNCHANGED causes \/ causes' = causes \cup {"labels"})
      BY <1>4, Zenon DEF EditTask, EditBody, Maintain, Change, vars
    <2>2. QED
      BY <2>1
  <1>5. QED
    BY <1>1, <1>2, <1>3, <1>4 DEF Next, Sync

LEMMA ActsWhenAwake ==
  ASSUME NEW p \in Procs, Sync(p) \/ Crash(p)
  PROVE  ~Idle(p)
  BY DEF Sync, Crash, Idle, At, ReadBody, Decide, GetFails, Create, CreateFails, ReadLabels, Edit,
     EditFails, SetState, PullBody, PullFails, Store, StoreFails

LEMMA OthersIdle ==
  ASSUME Shape, Alone, NEW p \in Procs, Acts(p), "overlap" \notin causes, "overlap" \notin causes'
  PROVE  \A q \in Procs \ {p} : Idle(q) /\ pc'[q] = "idle"
  <1>1. \A q \in Procs \ {p} : OwnSame(q)
    BY OthersSame DEF Acts
  <1>2. CASE Load(p)
    BY <1>1, <1>2 DEF Load, Idle, At, OwnSame
  <1>3. CASE Sync(p) \/ Crash(p)
    BY <1>1, <1>3, ActsWhenAwake DEF Alone, Idle, At, OwnSame
  <1>4. QED
    BY <1>2, <1>3 DEF Acts

LEMMA AlonePreserved ==
  ASSUME Shape, Alone, [Next]_vars
  PROVE  Alone'
  <1> SUFFICES ASSUME "overlap" \notin causes'
               PROVE  \A p, q \in Procs : ~Idle(p)' /\ ~Idle(q)' => p = q
    BY DEF Alone
  <1>1. "overlap" \notin causes
    BY CausesStay
  <1>2. ASSUME NEW r \in Procs, Acts(r)
        PROVE  \A p, q \in Procs : ~Idle(p)' /\ ~Idle(q)' => p = q
    BY <1>1, <1>2, OthersIdle DEF Idle, At
  <1>3. CASE EditTask \/ EditBody \/ Maintain \/ UNCHANGED vars
    <2>1. \A q \in Procs : pc'[q] = pc[q]
      BY <1>3, AllSame DEF OwnSame
    <2>2. QED
      BY <1>1, <2>1 DEF Alone, Idle, At
  <1>4. QED
    BY <1>2, <1>3, ActsOrEdits

LEMMA GotoAt ==
  ASSUME OwnTypes, NEW p \in Procs
  PROVE  /\ \A step : Goto(p, step) => pc'[p] = step /\ UNCHANGED <<loaded, args>>
         /\ Done(p) => pc'[p] = "idle"
  BY DEF OwnTypes, Goto, Done

(* A step loads the record, ends the work, or keeps what was loaded.       *)
LEMMA WorkGoesOn ==
  ASSUME Shape, NEW p \in Procs, Acts(p)
  PROVE  \/ pc'[p] = "idle"
         \/ loaded'[p] = rec /\ UNCHANGED rec /\ repo # "none"
         \/ loaded'[p] = loaded[p] /\ UNCHANGED rec /\ ~Idle(p)
  <1>1. OwnTypes
    BY DEF Shape, Types
  <1>2. CASE Load(p)
    BY <1>1, <1>2 DEF Load, OwnTypes, local, ProviderFor
  <1>3. CASE ReadBody(p) \/ Create(p) \/ ReadLabels(p) \/ Edit(p) \/ SetState(p) \/ PullBody(p)
    BY <1>3, ActsWhenAwake DEF Sync, ReadBody, Create, ReadLabels, Edit, SetState, PullBody, Goto, local
  <1>4. CASE Decide(p)
    <2>1. Done(p) \/ UNCHANGED loaded
      BY <1>4 DEF Decide, Goto
    <2>2. QED
      BY <1>1, <1>4, <2>1, GotoAt, ActsWhenAwake DEF Sync, Decide, local
  <1>5. CASE Store(p) \/ StoreFails(p) \/ Crash(p) \/ CreateFails(p)
    BY <1>1, <1>5, GotoAt DEF Store, StoreFails, Crash, CreateFails
  <1>6. CASE GetFails(p) \/ EditFails(p) \/ PullFails(p)
    BY <1>1, <1>6, GotoAt DEF GetFails, EditFails, PullFails
  <1>7. QED
    BY <1>2, <1>3, <1>4, <1>5, <1>6 DEF Acts, Sync

LEMMA EditsKeepLink ==
  ASSUME Shape, EditTask \/ EditBody \/ Maintain \/ UNCHANGED vars
  PROVE  rec'.link = rec.link /\ rec'.hash = rec.hash
  <1>1. CASE EditTask
    <2>1. PICK s \in Statuses : rec' = Recorded(s)
      BY <1>1 DEF EditTask
    <2>2. rec \in TaskRecords
      BY DEF Shape, Types, TaskTypes
    <2>3. QED
      BY <2>1, <2>2 DEF Recorded, TaskRecords
  <1>2. CASE EditBody \/ Maintain \/ UNCHANGED vars
    BY <1>2, Zenon DEF EditBody, Maintain, vars, local
  <1>3. QED
    BY <1>1, <1>2

LEMMA KnownLinkPreserved ==
  ASSUME Shape, Alone, KnownLink, [Next]_vars
  PROVE  KnownLink'
  <1> SUFFICES ASSUME "overlap" \notin causes', NEW q \in Procs, ~Idle(q)'
               PROVE  loaded'[q].link = rec'.link
    BY DEF KnownLink
  <1>1. "overlap" \notin causes
    BY CausesStay
  <1>2. ASSUME NEW p \in Procs, Acts(p)
        PROVE  loaded'[q].link = rec'.link
    <2>1. p = q
      BY <1>1, <1>2, OthersIdle DEF Idle, At
    <2>2. QED
      BY <1>1, <1>2, <2>1, WorkGoesOn DEF KnownLink, Idle, At
  <1>3. CASE EditTask \/ EditBody \/ Maintain \/ UNCHANGED vars
    <2>1. OwnSame(q)
      BY <1>3, AllSame
    <2>2. QED
      BY <1>1, <1>3, <2>1, EditsKeepLink DEF KnownLink, Idle, At, OwnSame
  <1>4. QED
    BY <1>2, <1>3, ActsOrEdits

LEMMA ProvidedPreserved ==
  ASSUME Shape, Provided, [Next]_vars
  PROVE  Provided'
  <1> SUFFICES ASSUME NEW q \in Procs, ~Idle(q)'
               PROVE  repo' # "none"
    BY DEF Provided
  <1>1. repo' = repo
    BY CausesStay
  <1>2. ASSUME NEW p \in Procs, Acts(p)
        PROVE  repo # "none"
    <2>1. CASE p = q
      <3>1. CASE Load(p)
        BY <3>1 DEF Load, ProviderFor
      <3>2. CASE Sync(p) \/ Crash(p)
        BY <3>2, ActsWhenAwake DEF Provided
      <3>3. QED
        BY <1>2, <3>1, <3>2 DEF Acts
    <2>2. CASE p # q
      BY <1>2, <2>2, OthersSame DEF Acts, OwnSame, Provided, Idle, At
    <2>3. QED
      BY <2>1, <2>2
  <1>3. CASE EditTask \/ EditBody \/ Maintain \/ UNCHANGED vars
    <2>1. OwnSame(q)
      BY <1>3, AllSame
    <2>2. QED
      BY <1>1, <2>1 DEF Provided, OwnSame, Idle, At
  <1>4. QED
    BY <1>1, <1>2, <1>3, ActsOrEdits

-----------------------------------------------------------------------------
(* One issue.                                                              *)

LEMMA OneInvPreserved ==
  ASSUME Shape, Alone, KnownLink, HonestInv, OneInv, [Next]_vars
  PROVE  OneInv'
  <1> SUFFICES ASSUME {"unlinked", "overlap"} \cap causes' = {}
               PROVE  /\ Len(issues') <= 1
                      /\ rec'.link = Unlinked /\ (\A p \in Procs : ~Making(p)') => Len(issues') = 0
    BY DEF OneInv
  <1>1. /\ {"unlinked", "overlap"} \cap causes = {}
        /\ "overlap" \notin causes /\ "overlap" \notin causes'
    BY CausesStay
  <1>2. /\ Len(issues) <= 1
        /\ rec.link = Unlinked /\ (\A p \in Procs : ~Making(p)) => Len(issues) = 0
    BY <1>1 DEF OneInv
  <1>3. OwnTypes
    BY DEF Shape, Types
  (* A step that makes no issue, and gives nobody up who was to name one.  *)
  <1>4. ASSUME Len(issues') = Len(issues), rec'.link = Unlinked => rec.link = Unlinked,
               rec'.link = Unlinked => \A p \in Procs : Making(p) => Making(p)'
        PROVE  /\ Len(issues') <= 1
               /\ rec'.link = Unlinked /\ (\A p \in Procs : ~Making(p)') => Len(issues') = 0
    BY <1>2, <1>4
  <1>5. ASSUME NEW p \in Procs, Acts(p)
        PROVE  /\ Len(issues') <= 1
               /\ rec'.link = Unlinked /\ (\A q \in Procs : ~Making(q)') => Len(issues') = 0
    <2>1. \A q \in Procs \ {p} : Idle(q) /\ ~Making(q)
      BY <1>1, <1>5, OthersIdle DEF Making, Idle, At
    <2>2. CASE Create(p)
      <3>1. pc[p] = "create" /\ loaded[p].link = Unlinked /\ ~Idle(p)
        BY <2>2 DEF Create, Shape, Decided, At, Idle
      <3>2. rec.link = Unlinked /\ ~Making(p)
        BY <1>1, <3>1 DEF KnownLink, Making, At
      <3>3. Len(issues) = 0
        BY <1>2, <2>1, <3>2
      <3>4. Len(issues') = 1
        BY <2>2, <3>3, MakeEffect DEF Create, IssueAdded
      <3>5. pc'[p] = "store" /\ loaded'[p] = loaded[p]
        BY <1>3, <2>2, GotoAt DEF Create
      <3>6. Making(p)'
        BY <3>1, <3>5 DEF Making, At
      <3>7. QED
        BY <3>4, <3>6
    <2>3. CASE CreateFails(p)
      <3>1. UNCHANGED issues /\ UNCHANGED rec
        BY <2>3 DEF CreateFails, remote, local
      <3>2. ~Making(p)
        BY <2>3 DEF CreateFails, Making, At
      <3>3. QED
        BY <1>4, <2>1, <3>1, <3>2
    <2>4. CASE Edit(p) \/ SetState(p)
      <3>1. pc[p] \in {"edit", "state"} /\ UNCHANGED rec
        BY <2>4 DEF Edit, SetState, At, local
      <3>2. ~Making(p)
        BY <3>1 DEF Making, At
      <3>3. Len(issues') = Len(issues)
        <4>1. CASE Edit(p)
          BY <4>1, EditEffect DEF Becomes
        <4>2. CASE SetState(p)
          <5>1. UNCHANGED issues \/ \E issue : Becomes(link[p], issue)
            BY <4>2, StateEffect, Zenon
          <5>2. QED
            BY <5>1 DEF Becomes
        <4>3. QED
          BY <2>4, <4>1, <4>2
      <3>4. QED
        BY <1>4, <2>1, <3>1, <3>2, <3>3
    <2>5. CASE \/ Load(p) \/ ReadBody(p) \/ Decide(p) \/ GetFails(p)
               \/ ReadLabels(p) \/ EditFails(p) \/ PullBody(p) \/ PullFails(p)
      <3>1. UNCHANGED issues /\ UNCHANGED rec /\ pc[p] # "store"
        BY <2>5 DEF Load, ReadBody, Decide, GetFails, ReadLabels, EditFails, PullBody, PullFails,
           Idle, At, remote, local
      <3>2. ~Making(p)
        BY <3>1 DEF Making, At
      <3>3. QED
        BY <1>4, <2>1, <3>1, <3>2
    <2>6. CASE StoreFails(p) \/ Crash(p)
      <3>1. UNCHANGED issues /\ UNCHANGED rec /\ Forgotten(p)
        BY <2>6 DEF StoreFails, Crash, local
      <3>2. ~Making(p)
        BY <3>1 DEF Making, Forgotten
      <3>3. QED
        BY <1>4, <2>1, <3>1, <3>2
    <2>7. CASE Store(p)
      <3>1. rec'.link = link[p] /\ UNCHANGED issues
        <4>1. loaded[p] \in TaskRecords
          BY Typed
        <4>2. QED
          BY <2>7, <4>1 DEF Store, Stored, TaskRecords
      <3>2. CASE link[p] # Unlinked
        BY <1>2, <3>1, <3>2
      <3>3. CASE link[p] = Unlinked
        <4>1. Nameless(p) /\ At(p, "store")
          BY <2>7, <3>3, IssueFacts DEF Store, Shape, Decided, At
        <4>2. HonestAt(p)
          BY <1>1 DEF HonestInv
        <4>3. QED
          BY <1>1, <4>1, <4>2 DEF HonestAt
      <3>4. QED
        BY <3>2, <3>3
    <2>8. QED
      BY <1>5, <2>2, <2>3, <2>4, <2>5, <2>6, <2>7 DEF Acts, Sync
  <1>6. CASE EditTask \/ EditBody \/ Maintain \/ UNCHANGED vars
    <2>1. \A p \in Procs : Making(p) => Making(p)'
      BY <1>6, AllSame DEF OwnSame, Making, At
    <2>2. rec'.link = rec.link
      BY <1>6, EditsKeepLink
    <2>3. CASE Maintain
      BY <1>4, <2>1, <2>2, <2>3, MaintainEffect DEF Becomes
    <2>4. CASE EditTask \/ EditBody \/ UNCHANGED vars
      <3>1. UNCHANGED issues
        BY <2>4 DEF EditTask, EditBody, vars, remote
      <3>2. QED
        BY <1>4, <2>1, <2>2, <3>1
    <2>5. QED
      BY <1>6, <2>3, <2>4
  <1>7. QED
    BY <1>5, <1>6, ActsOrEdits

-----------------------------------------------------------------------------
(* The baseline.                                                           *)

LoneBaseline(p) ==
    (pc[p] \in {"state", "store"} => Pulls(p)) /\ rec.hash # NoHash /\ Known(rec.link)
    => Fits(issues[rec.link], rec.hash[1], rec.hash[2])

LoneHonest(p) == HashLinked /\ LoneBaseline(p) /\ HonestAt(p)

LEMMA HonestForOne ==
  ASSUME NEW p \in Procs, \A q \in Procs \ {p} : Idle(q) /\ pc'[q] = "idle"
  PROVE  /\ HonestInv /\ "overlap" \notin causes => LoneHonest(p)
         /\ LoneHonest(p)' => HonestInv'
  BY DEF HonestInv, LoneHonest, Baseline, LoneBaseline, HonestAt, Idle, At

(* A status that a sync writes to an issue is one the issue tells.         *)
LEMMA StateTells ==
  ASSUME NEW issue, NEW s, issue.state = StatusToState(s), Label(s) \in issue.labels
  PROVE  Tells(issue, s)
  <1>1. s \in AdbLabelFrom(issue.labels)
    BY DEF AdbLabelFrom, Label, isAdbOwnedLabel
  <1>2. QED
    BY <1>1 DEF Tells, StatusToState, StateToStatus

LEMMA LinkedRecord ==
  ASSUME Shape, rec.link # Unlinked
  PROVE  rec.link \in DOMAIN issues
  BY DEF Shape, LinksAndTimes

(* Steps that leave the record and what it is linked to.                   *)
LEMMA HonestStays ==
  ASSUME Shape, NEW p \in Procs, LoneHonest(p), UNCHANGED rec, UNCHANGED unseen, UNCHANGED cut,
         causes \subseteq causes',
         \A n \in DOMAIN issues : issues'[n] = issues[n],
         pc[p] \notin {"state", "store"}, pc'[p] \notin {"pull", "state", "store"}
  PROVE  LoneHonest(p)'
  <1>1. rec.link # Unlinked => issues'[rec.link] = issues[rec.link]
    BY LinkedRecord
  <1>2. HashLinked' /\ LoneBaseline(p)'
    BY <1>1 DEF LoneHonest, HashLinked, LoneBaseline, Known, Fits, Tells, StateToStatus
  <1>3. HonestAt(p)'
    BY DEF HonestAt, At
  <1>4. QED
    BY <1>2, <1>3 DEF LoneHonest

LEMMA HonestActs ==
  ASSUME Shape, NEW p \in Procs, LoneHonest(p), Acts(p), causes \subseteq causes',
         ~Idle(p) => loaded[p].link = rec.link
  PROVE  LoneHonest(p)'
  <1>1. OwnTypes /\ Decided(p)
    BY DEF Shape, Types
  <1>2. HashLinked /\ LoneBaseline(p) /\ HonestAt(p)
    BY DEF LoneHonest
  <1>3. /\ \A step : Goto(p, step) => pc'[p] = step /\ UNCHANGED <<loaded, args>>
        /\ Done(p) => pc'[p] = "idle"
    BY <1>1, GotoAt
  <1>4. CASE Load(p) \/ ReadBody(p) \/ ReadLabels(p)
    <2>1. /\ UNCHANGED rec /\ UNCHANGED unseen /\ UNCHANGED cut /\ UNCHANGED issues
          /\ pc[p] \in {"idle", "body", "labels"}
      BY <1>4 DEF Load, ReadBody, ReadLabels, Idle, At, remote, local
    <2>2. pc'[p] \in {"body", "get", "edit"}
      BY <1>1, <1>3, <1>4 DEF Load, ReadBody, ReadLabels, OwnTypes
    <2>3. QED
      BY <2>1, <2>2, HonestStays
  <1>5. CASE GetFails(p) \/ EditFails(p) \/ PullFails(p)
    <2>1. /\ UNCHANGED rec /\ UNCHANGED unseen /\ UNCHANGED cut /\ UNCHANGED issues
          /\ pc[p] \in {"get", "edit", "pull"} /\ Done(p)
      BY <1>5 DEF GetFails, EditFails, PullFails, At, remote, local
    <2>2. QED
      BY <1>3, <2>1, HonestStays
  <1>6. CASE CreateFails(p)
    <2>1. /\ UNCHANGED rec /\ UNCHANGED unseen /\ UNCHANGED cut
          /\ pc[p] = "create" /\ Done(p)
      BY <1>6 DEF CreateFails, At, local, remote, MakeIssue
    <2>2. \A n \in DOMAIN issues : issues'[n] = issues[n]
      BY <1>6, MakeEffect DEF CreateFails, remote, IssueAdded
    <2>3. QED
      BY <1>3, <2>1, <2>2, HonestStays
  <1>7. CASE Decide(p)
    <2>1. UNCHANGED rec /\ UNCHANGED unseen /\ UNCHANGED cut /\ UNCHANGED issues /\ pc[p] = "get"
      BY <1>7 DEF Decide, At, local, remote
    <2>2. PICK issue \in Get(p) :
             LET verdict == Reconcile(loaded[p], body[p], issue, args[p].direction)
             IN  \/ Done(p)
                 \/ /\ verdict # "noop" /\ Goto(p, FirstStep(verdict))
                    /\ got' = [got EXCEPT ![p] = issue]
                    /\ link' = [link EXCEPT ![p] = loaded[p].link]
      BY <1>7 DEF Decide
    <2> DEFINE verdict == Reconcile(loaded[p], body[p], issue, args[p].direction)
    <2>3. CASE Done(p)
      BY <1>3, <2>1, <2>3, HonestStays
    <2>4. CASE /\ verdict # "noop" /\ Goto(p, FirstStep(verdict))
               /\ got' = [got EXCEPT ![p] = issue]
               /\ link' = [link EXCEPT ![p] = loaded[p].link]
      <3>1. /\ pc'[p] = FirstStep(verdict) /\ got'[p] = issue /\ link'[p] = loaded[p].link
            /\ loaded'[p] = loaded[p]
        BY <1>1, <1>3, <2>4 DEF OwnTypes
      <3>2. pc'[p] \in {"create", "labels", "edit", "pull"}
        BY <2>4, <3>1 DEF FirstStep, Reconcile
      <3>3. CASE pc'[p] = "pull"
        <4>1. issue # NoIssue
          BY <2>4, <3>1, <3>3 DEF FirstStep, Reconcile
        <4>2. issue = issues[loaded[p].link]
          BY <2>2, <4>1 DEF Get
        <4>3. HonestAt(p)'
          BY <2>1, <3>1, <3>3, <4>2 DEF HonestAt, At
        <4>4. HashLinked' /\ LoneBaseline(p)'
          BY <1>2, <2>1 DEF HashLinked, LoneBaseline, Known, Fits, Tells, StateToStatus
        <4>5. QED
          BY <4>3, <4>4 DEF LoneHonest
      <3>4. CASE pc'[p] # "pull"
        BY <2>1, <3>2, <3>4, HonestStays
      <3>5. QED
        BY <3>3, <3>4
    <2>5. QED
      BY <2>2, <2>3, <2>4
  <1>8. CASE Create(p)
    <2> DEFINE new == NewIssue(body[p], loaded[p].status)
               n == Len(issues) + 1
    <2>1. issues'[n] = new
      BY <1>8, MakeEffect DEF Create, IssueAdded
    <2>2. /\ pc[p] = "create" /\ pc'[p] = "store" /\ loaded'[p] = loaded[p] /\ body'[p] = body[p]
          /\ got'[p] = got[p] /\ UNCHANGED rec
      BY <1>1, <1>3, <1>8 DEF Create, At, local
    <2>3. link'[p] = n \/ (link'[p] = Unlinked /\ "unlinked" \in causes')
      BY <1>1, <1>8 DEF Create, OwnTypes, issueNumberFromURL
    <2>4. n # Unlinked
      BY LenProperties DEF Shape, Types, IssueTypes, Unlinked
    <2>5. ~Pulls(p)'
      BY <1>1, <2>2 DEF Decided, Pulls
    <2>6. new.body = body[p] /\ new.state = "open" /\ new.labels = {Label(loaded[p].status)}
      BY DEF NewIssue
    <2>7. Fits(new, loaded[p].status, body[p])
      <3>1. loaded[p].status \in AdbLabelFrom(new.labels)
        BY <2>6 DEF AdbLabelFrom, Label, isAdbOwnedLabel
      <3>2. QED
        BY <2>6, <3>1 DEF Fits, Tells, StateToStatus
    <2>8. HonestAt(p)'
      BY <2>1, <2>2, <2>3, <2>4, <2>5, <2>7
         DEF HonestAt, At, Known, Nameless, Fits, Tells, StateToStatus
    <2>9. HashLinked' /\ LoneBaseline(p)'
      BY <1>2, <2>2, <2>5 DEF HashLinked, LoneBaseline
    <2>10. QED
      BY <2>8, <2>9 DEF LoneHonest
  <1>9. CASE Edit(p)
    <2>1. Becomes(link[p], Edited(p, issues[link[p]])) /\ issues[link[p]] \in Issues
      BY <1>9, EditEffect, LinkLeads DEF Edit, At, Pushing
    <2>2. /\ pc'[p] = "state" /\ loaded'[p] = loaded[p] /\ body'[p] = body[p]
          /\ link'[p] = link[p] /\ got'[p] = got[p] /\ UNCHANGED rec /\ pc[p] = "edit"
      BY <1>3, <1>9 DEF Edit, At, local
    <2>3. issues'[link[p]].body = body[p] /\ Label(loaded[p].status) \in issues'[link[p]].labels
      BY <2>1 DEF Becomes, Edited, Issues
    <2>4. HonestAt(p)'
      BY <2>2, <2>3 DEF HonestAt, At
    <2>5. ~Pulls(p)'
      BY <1>1, <2>2 DEF Decided, Pulls, Pushing, remoteChanged
    <2>6. HashLinked' /\ LoneBaseline(p)'
      BY <1>2, <2>2, <2>5 DEF HashLinked, LoneBaseline
    <2>7. QED
      BY <2>4, <2>6 DEF LoneHonest
  <1>10. CASE SetState(p)
    <2> DEFINE issue == issues[link[p]]
               state == StatusToState(loaded[p].status)
    <2>1. /\ pc[p] = "state" /\ pc'[p] = "store" /\ loaded'[p] = loaded[p] /\ body'[p] = body[p]
          /\ link'[p] = link[p] /\ got'[p] = got[p] /\ UNCHANGED rec /\ UNCHANGED unseen
      BY <1>3, <1>10 DEF SetState, At, local
    <2>2. ~Pulls(p)'
      BY <1>1, <2>1 DEF Decided, Pulls, Pushing, remoteChanged
    <2>3. issue \in Issues
      BY <2>1, LinkLeads DEF Pushing
    <2>4. link[p] \notin cut' =>
             /\ issues'[link[p]].state = state
             /\ issues'[link[p]].body = issue.body /\ issues'[link[p]].labels = issue.labels
      <3>1. CASE UNCHANGED cut /\ issue.state = state /\ Becomes(link[p], issue)
        BY <3>1 DEF Becomes
      <3>2. CASE /\ UNCHANGED cut
                 /\ Becomes(link[p], [issue EXCEPT !.state = state, !.at = clock + 1])
        BY <2>3, <3>2 DEF Becomes, Issues
      <3>3. CASE /\ UNCHANGED issues
                 /\ cut' = IF issue.state = state THEN cut ELSE cut \cup {link[p]}
        BY <3>3
      <3>4. \/ UNCHANGED cut /\ issue.state = state /\ Becomes(link[p], issue)
            \/ /\ UNCHANGED cut
               /\ Becomes(link[p], [issue EXCEPT !.state = state, !.at = clock + 1])
            \/ /\ UNCHANGED issues
               /\ cut' = IF issue.state = state THEN cut ELSE cut \cup {link[p]}
        BY <1>10, StateEffect, Zenon
      <3>5. QED
        BY <3>1, <3>2, <3>3, <3>4
    <2>5. link[p] \notin unseen /\ link[p] \notin cut' => Fits(issues'[link[p]], loaded[p].status, body[p])
      BY <1>2, <2>1, <2>4, StateTells DEF HonestAt, At, Fits
    <2>6. HonestAt(p)'
      <3>1. ~Nameless(p)'
        BY <1>1, <2>1 DEF Decided, Nameless, Pushing
      <3>2. QED
        BY <2>1, <2>2, <2>5, <3>1 DEF HonestAt, At, Known, Fits, Tells, StateToStatus
    <2>7. HashLinked' /\ LoneBaseline(p)'
      BY <1>2, <2>1, <2>2 DEF HashLinked, LoneBaseline
    <2>8. QED
      BY <2>6, <2>7 DEF LoneHonest
  <1>11. CASE PullBody(p)
    <2>1. /\ pc[p] = "pull" /\ pc'[p] = "store" /\ loaded'[p] = loaded[p] /\ got'[p] = got[p]
          /\ link'[p] = link[p] /\ UNCHANGED rec /\ UNCHANGED issues
          /\ UNCHANGED unseen /\ UNCHANGED cut
      BY <1>3, <1>11 DEF PullBody, At, remote
    <2>2. Pulls(p) /\ Pulls(p)'
      BY <1>1, <2>1 DEF Decided, Pulls, remoteChanged
    <2>3. HonestAt(p)'
      <3>1. ~Nameless(p)'
        BY <1>1, <2>1 DEF Decided, Nameless
      <3>2. QED
        BY <1>2, <2>1, <2>2, <3>1 DEF HonestAt, At
    <2>4. HashLinked' /\ LoneBaseline(p)'
      BY <1>2, <2>1 DEF HashLinked, LoneBaseline, Known, Fits, Tells, StateToStatus
    <2>5. QED
      BY <2>3, <2>4 DEF LoneHonest
  <1>12. CASE Store(p)
    <2>1. PICK s \in NewStatuses(p) : rec' = Stored(p, s)
      BY <1>12 DEF Store
    <2>2. pc[p] = "store" /\ pc'[p] = "idle" /\ UNCHANGED issues
      BY <1>3, <1>12 DEF Store, At
    <2>3. rec'.link = link[p] /\ rec'.hash = <<s, body[p]>>
      <3>1. loaded[p] \in TaskRecords
        BY Typed
      <3>2. QED
        BY <2>1, <3>1 DEF Stored, TaskRecords, SyncHash
    <2>4. ASSUME link[p] # Unlinked, link[p] \notin unseen' \cup cut'
          PROVE  Fits(issues[link[p]], s, body[p])
      <3>1. CASE Pulls(p)
        <4>1. got[p] = issues[link[p]]
          BY <1>2, <1>12, <2>2, <2>4, <3>1 DEF Store, HonestAt, At
        <4>2. s \in StateToStatus(got[p]) /\ body[p] = got[p].body
          BY <1>1, <2>1, <2>2, <3>1 DEF NewStatuses, Decided
        <4>3. QED
          BY <4>1, <4>2 DEF Fits, Tells
      <3>2. CASE ~Pulls(p)
        <4>1. s = loaded[p].status /\ unseen' = unseen /\ cut' = cut
          BY <1>12, <2>1, <3>2 DEF NewStatuses, Store
        <4>2. QED
          BY <1>2, <2>2, <2>4, <3>2, <4>1 DEF HonestAt, At, Known
      <3>3. QED
        BY <3>1, <3>2
    <2>5. HashLinked'
      <3>1. link[p] = Unlinked => Nameless(p)
        BY <1>1, <2>2, IssueFacts DEF Decided, Shape
      <3>2. QED
        BY <1>2, <2>2, <2>3, <3>1 DEF HashLinked, HonestAt, At
    <2>6. LoneBaseline(p)'
      <3> SUFFICES ASSUME Known(rec.link)'
                   PROVE  Fits(issues[link[p]], s, body[p])
        BY <2>2, <2>3 DEF LoneBaseline, Fits, Tells, StateToStatus
      <3>1. link[p] # Unlinked /\ link[p] \notin unseen' \cup cut'
        BY <2>3 DEF Known
      <3>2. QED
        BY <2>4, <3>1
    <2>7. HonestAt(p)'
      BY <2>2 DEF HonestAt, At
    <2>8. QED
      BY <2>5, <2>6, <2>7 DEF LoneHonest
  <1>13. CASE StoreFails(p) \/ Crash(p)
    <2>1. /\ UNCHANGED rec /\ UNCHANGED issues /\ UNCHANGED unseen /\ Forgotten(p)
          /\ pc'[p] = "idle" /\ pc[p] # "idle"
      BY <1>3, <1>13 DEF StoreFails, Crash, Forgotten, Idle, At, local
    <2>2. HashLinked' /\ HonestAt(p)'
      BY <1>2, <2>1 DEF HashLinked, HonestAt, At
    <2>3. CASE HalfPushed(p)
      <3>1. cut' = cut \cup {link[p]} /\ rec.link = link[p]
        BY <2>1, <2>3, HalfPushedLinked DEF Forgotten, Idle, At
      <3>2. LoneBaseline(p)'
        BY <2>1, <3>1 DEF LoneBaseline, Known
      <3>3. QED
        BY <2>2, <3>2 DEF LoneHonest
    <2>4. CASE ~HalfPushed(p)
      <3>1. UNCHANGED cut
        BY <2>1, <2>4 DEF Forgotten
      <3>2. (pc[p] \in {"state", "store"} => Pulls(p)) \/ rec.link = Unlinked
        BY <1>1, <2>1, <2>4 DEF HalfPushed, Decided, Idle, At
      <3>3. LoneBaseline(p)'
        BY <1>2, <2>1, <3>1, <3>2 DEF LoneBaseline, Known, Fits, Tells, StateToStatus
      <3>4. QED
        BY <2>2, <3>3 DEF LoneHonest
    <2>5. QED
      BY <2>3, <2>4
  <1>14. QED
    BY <1>4, <1>5, <1>6, <1>7, <1>8, <1>9, <1>10, <1>11, <1>12, <1>13 DEF Acts, Sync

LEMMA HonestPreserved ==
  ASSUME Shape, Alone, KnownLink, HonestInv, [Next]_vars
  PROVE  HonestInv'
  <1> SUFFICES ASSUME "overlap" \notin causes'
               PROVE  HonestInv'
    BY DEF HonestInv
  <1>1. "overlap" \notin causes /\ HashLinked /\ Baseline /\ \A p \in Procs : HonestAt(p)
    BY CausesStay DEF HonestInv
  <1>2. ASSUME NEW p \in Procs, Acts(p)
        PROVE  HonestInv'
    <2>1. \A q \in Procs \ {p} : Idle(q) /\ pc'[q] = "idle"
      BY <1>1, <1>2, OthersIdle
    <2>2. LoneHonest(p)
      BY <1>1, <2>1, HonestForOne
    <2>3. ~Idle(p) => loaded[p].link = rec.link
      BY <1>1 DEF KnownLink
    <2>4. LoneHonest(p)'
      BY <1>2, <2>2, <2>3, HonestActs, CausesStay
    <2>5. QED
      BY <2>1, <2>4, HonestForOne
  (* People change one issue, and it is not seen.                          *)
  <1>3. ASSUME \A q \in Procs : OwnSame(q), rec'.link = rec.link, rec'.hash = rec.hash,
               unseen \subseteq unseen', cut' = cut,
               \A n \in DOMAIN issues : n \notin unseen' => issues'[n] = issues[n]
        PROVE  HonestInv'
    <2>1. HashLinked'
      BY <1>1, <1>3, CausesStay DEF HashLinked
    <2>2. Baseline'
      <3>1. rec.link # Unlinked => rec.link \in DOMAIN issues
        BY LinkedRecord
      <3>2. QED
        BY <1>1, <1>3, <3>1 DEF Baseline, Known, OwnSame, Pulls, remoteChanged, Fits, Tells, StateToStatus
    <2>3. ASSUME NEW p \in Procs
          PROVE  HonestAt(p)'
      <3>1. pc[p] \in Pushing \cup {"pull"} \/ (pc[p] = "store" /\ link[p] # Unlinked) =>
              link[p] \in DOMAIN issues
        BY LinkLeads DEF Pushing
      <3>2. OwnSame(p) /\ HonestAt(p)
        BY <1>1, <1>3
      <3>3. link[p] \in DOMAIN issues /\ link[p] \notin unseen' =>
              issues'[link[p]] = issues[link[p]] /\ link[p] \notin unseen
        BY <1>3
      <3>4. Pulls(p) /\ pc[p] = "store" => link[p] # Unlinked
        BY IssueFacts DEF Shape, Decided, LinksAndTimes, Pulls
      <3>5. QED
        BY <1>3, <3>1, <3>2, <3>3, <3>4, CausesStay DEF HonestAt, OwnSame, At, Pushing, Pulls,
           remoteChanged, Known, Nameless, Fits, Tells, StateToStatus
    <2>4. QED
      BY <2>1, <2>2, <2>3 DEF HonestInv
  <1>4. CASE EditTask \/ EditBody \/ Maintain \/ UNCHANGED vars
    <2>1. /\ \A q \in Procs : OwnSame(q)
          /\ rec'.link = rec.link /\ rec'.hash = rec.hash
      BY <1>4, AllSame, EditsKeepLink
    <2>2. CASE Maintain
      <3>1. PICK n \in DOMAIN issues, issue \in Issues :
              Becomes(n, issue) /\ unseen' = unseen \cup {n} /\ cut' = cut
        BY <2>2, MaintainEffect
      <3>2. QED
        BY <1>3, <2>1, <3>1 DEF Becomes
    <2>3. CASE EditTask \/ EditBody \/ UNCHANGED vars
      <3>1. UNCHANGED issues /\ UNCHANGED unseen /\ UNCHANGED cut
        BY <2>3 DEF EditTask, EditBody, vars, remote
      <3>2. QED
        BY <1>3, <2>1, <3>1
    <2>4. QED
      BY <1>4, <2>2, <2>3
  <1>5. QED
    BY <1>2, <1>4, ActsOrEdits

-----------------------------------------------------------------------------
(* The way of a status to the issue and back.                              *)

LoneEcho(p) ==
    /\ pc[p] \in {"state", "store"} => Pulls(p)
    /\ rec.link # Unlinked /\ rec.link \notin unseen /\ remoteChanged(rec, issues[rec.link])
    => Says(issues[rec.link], rec.status)

LoneTrip(p) == OneLabel /\ TripAt(p) /\ LoneEcho(p) /\ AsMeant

LEMMA TripForOne ==
  ASSUME NEW p \in Procs, \A q \in Procs \ {p} : Idle(q) /\ pc'[q] = "idle"
  PROVE  /\ OneLabel /\ (\A q \in Procs : TripAt(q)) /\ Echo /\ AsMeant => LoneTrip(p)
         /\ LoneTrip(p)' => TripInv'
  BY DEF TripInv, LoneTrip, Echo, LoneEcho, TripAt, Idle, At

(* What an issue says depends on its labels and its state.                 *)
LEMMA OneLabelSays ==
  ASSUME NEW issue, NEW s, AdbLabels(issue) = {Label(s)}
  PROVE  AdbLabelFrom(issue.labels) = {s}
  <1>1. AdbLabelFrom(issue.labels) = {l[2] : l \in AdbLabels(issue)}
    BY DEF AdbLabelFrom, AdbLabels
  <1>2. \A t : t \in AdbLabelFrom(issue.labels) <=> t = s
    BY <1>1 DEF Label
  <1>3. QED
    BY <1>2

LEMMA SaysOne ==
  ASSUME NEW issue, NEW s, issue.state \in {StatusToState(s), "open"},
         AdbLabels(issue) = {Label(s)}
  PROVE  Says(issue, s)
  BY OneLabelSays DEF Says, StatusToState, StateToStatus

LEMMA PulledStatus ==
  ASSUME NEW issue \in Issues, \A l, m \in AdbLabels(issue) : l = m, NEW s \in StateToStatus(issue)
  PROVE  StateToStatus(issue) = {s}
  <1>1. \A t \in AdbLabelFrom(issue.labels) : AdbLabelFrom(issue.labels) = {t}
    <2>1. AdbLabelFrom(issue.labels) = {l[2] : l \in AdbLabels(issue)}
      BY DEF AdbLabelFrom, AdbLabels
    <2>2. QED
      BY <2>1
  <1>2. QED
    BY <1>1 DEF StateToStatus

(* Steps that leave the record, what it is linked to, and what was meant.  *)
LEMMA TripStays ==
  ASSUME Shape, NEW p \in Procs, LoneTrip(p),
         UNCHANGED rec, UNCHANGED unseen, UNCHANGED meant, UNCHANGED issues,
         pc[p] \notin {"state", "store"}, pc'[p] \notin {"edit", "state", "store"}
  PROVE  LoneTrip(p)'
  <1>1. OneLabel' /\ AsMeant'
    BY DEF LoneTrip, OneLabel, AdbLabels, AsMeant
  <1>2. LoneEcho(p)'
    BY DEF LoneTrip, LoneEcho, remoteChanged, Says, StateToStatus
  <1>3. TripAt(p)'
    BY DEF TripAt, At
  <1>4. QED
    BY <1>1, <1>2, <1>3 DEF LoneTrip

LEMMA OneLabelStays ==
  ASSUME OneLabel, NEW n \in DOMAIN issues, NEW issue, Becomes(n, issue),
         \A l, m \in AdbLabels(issue) : l = m
  PROVE  OneLabel'
  BY DEF OneLabel, Becomes, AdbLabels

LEMMA NewIssueLabels ==
  ASSUME NEW b, NEW s
  PROVE  AdbLabels(NewIssue(b, s)) = {Label(s)}
  BY DEF AdbLabels, NewIssue, isAdbOwnedLabel, Label

LEMMA OneLabelAdded ==
  ASSUME OneLabel, NEW b, NEW s, IssueAdded(NewIssue(b, s))
  PROVE  OneLabel'
  <1>1. \A l, m \in AdbLabels(NewIssue(b, s)) : l = m
    BY NewIssueLabels
  <1>2. \A n \in DOMAIN issues : \A l, m \in AdbLabels(issues[n]) : l = m
    BY DEF OneLabel
  <1>3. ASSUME NEW n \in DOMAIN issues'
        PROVE  issues'[n] = NewIssue(b, s) \/ (n \in DOMAIN issues /\ issues'[n] = issues[n])
    BY <1>3 DEF IssueAdded
  <1>4. \A n \in DOMAIN issues' : \A l, m \in AdbLabels(issues'[n]) : l = m
    BY <1>1, <1>2, <1>3
  <1>5. QED
    BY <1>4 DEF OneLabel, AdbLabels

LEMMA TripActs ==
  ASSUME Shape, NEW p \in Procs, LoneHonest(p), LoneTrip(p), Acts(p),
         ~Idle(p) => loaded[p].link = rec.link /\ repo = "github",
         {"edited", "labels", "reopen"} \cap causes' = {}
  PROVE  LoneTrip(p)'
  <1>1. OwnTypes /\ Decided(p)
    BY DEF Shape, Types
  <1>2. OneLabel /\ TripAt(p) /\ LoneEcho(p) /\ AsMeant
    BY DEF LoneTrip
  <1>3. /\ \A step : Goto(p, step) => pc'[p] = step /\ UNCHANGED <<loaded, args>>
        /\ Done(p) => pc'[p] = "idle"
    BY <1>1, GotoAt
  <1>4. CASE Load(p) \/ ReadBody(p)
    <2>1. /\ UNCHANGED rec /\ UNCHANGED unseen /\ UNCHANGED meant /\ UNCHANGED issues
          /\ pc[p] \in {"idle", "body"}
      BY <1>4 DEF Load, ReadBody, Idle, At, remote, local
    <2>2. pc'[p] \in {"body", "get"}
      BY <1>1, <1>3, <1>4 DEF Load, ReadBody, OwnTypes
    <2>3. QED
      BY <2>1, <2>2, TripStays
  <1>5. CASE GetFails(p) \/ EditFails(p) \/ PullFails(p)
    <2>1. /\ UNCHANGED rec /\ UNCHANGED unseen /\ UNCHANGED meant /\ UNCHANGED issues
          /\ pc[p] \in {"get", "edit", "pull"} /\ Done(p)
      BY <1>5 DEF GetFails, EditFails, PullFails, At, remote, local
    <2>2. QED
      BY <1>3, <2>1, TripStays
  <1>6. CASE Decide(p)
    <2>1. /\ UNCHANGED rec /\ UNCHANGED unseen /\ UNCHANGED meant /\ UNCHANGED issues
          /\ pc[p] = "get"
      BY <1>6 DEF Decide, At, local, remote
    <2>2. repo = "github"
      BY <2>1 DEF Idle, At
    <2>3. pc'[p] \in {"idle", "create", "labels", "pull"}
      BY <1>1, <1>3, <1>6, <2>2 DEF Decide, FirstStep, Reconcile
    <2>4. QED
      BY <2>1, <2>3, TripStays
  <1>7. CASE ReadLabels(p)
    <2>1. /\ UNCHANGED rec /\ UNCHANGED unseen /\ UNCHANGED meant /\ UNCHANGED issues
          /\ pc[p] = "labels" /\ pc'[p] = "edit" /\ UNCHANGED loaded /\ UNCHANGED link
      BY <1>3, <1>7 DEF ReadLabels, At, local, remote
    <2>2. stale'[p] = StaleLabels(p)
      BY <1>1, <1>7 DEF ReadLabels, OwnTypes
    <2>3. TripAt(p)'
      BY <2>1, <2>2 DEF TripAt, At, StaleLabels
    <2>4. OneLabel' /\ AsMeant' /\ LoneEcho(p)'
      BY <1>2, <2>1 DEF OneLabel, AdbLabels, AsMeant, LoneEcho, remoteChanged, Says, StateToStatus
    <2>5. QED
      BY <2>3, <2>4 DEF LoneTrip
  <1>8. CASE Create(p)
    <2> DEFINE new == NewIssue(body[p], loaded[p].status)
    <2>1. IssueAdded(new)
      BY <1>8, MakeEffect DEF Create
    <2>2. /\ pc[p] = "create" /\ pc'[p] = "store" /\ loaded'[p] = loaded[p]
          /\ got'[p] = got[p] /\ link'[p] \in {Unlinked, Len(issues) + 1}
          /\ UNCHANGED rec /\ UNCHANGED meant
      BY <1>1, <1>3, <1>8 DEF Create, At, OwnTypes, local, issueNumberFromURL
    <2>3. ~Pulls(p)'
      BY <1>1, <2>2 DEF Decided, Pulls
    <2>4. new.state = "open" /\ new.labels = {Label(loaded[p].status)}
      BY DEF NewIssue
    <2>5. Says(new, loaded[p].status)
      <3>1. AdbLabelFrom(new.labels) = {loaded[p].status}
        BY NewIssueLabels, OneLabelSays
      <3>2. QED
        BY <2>4, <3>1 DEF Says, StateToStatus
    <2>6. link'[p] # Unlinked => issues'[link'[p]] = new
      BY <2>1, <2>2 DEF IssueAdded
    <2>7. TripAt(p)'
      BY <2>2, <2>3, <2>5, <2>6 DEF TripAt, At, Says, StateToStatus
    <2>8. OneLabel'
      BY <1>2, <2>1, OneLabelAdded
    <2>9. LoneEcho(p)' /\ AsMeant'
      BY <1>2, <2>2, <2>3 DEF LoneEcho, AsMeant
    <2>10. QED
      BY <2>7, <2>8, <2>9 DEF LoneTrip
  <1>9. CASE CreateFails(p)
    <2>1. UNCHANGED rec /\ UNCHANGED unseen /\ UNCHANGED meant /\ pc[p] = "create" /\ Done(p)
      BY <1>9 DEF CreateFails, At, local, remote, MakeIssue
    <2>2. CASE UNCHANGED issues
      BY <1>3, <2>1, <2>2, TripStays
    <2>3. CASE MakeIssue(p)
      <3>1. IssueAdded(NewIssue(body[p], loaded[p].status))
        BY <2>3, MakeEffect
      <3>2. OneLabel'
        BY <1>2, <3>1, OneLabelAdded
      <3>3. rec.link # Unlinked => issues'[rec.link] = issues[rec.link]
        BY <3>1, LinkedRecord DEF IssueAdded
      <3>4. LoneEcho(p)' /\ AsMeant'
        BY <1>2, <2>1, <3>3 DEF LoneEcho, AsMeant, remoteChanged, Says, StateToStatus
      <3>5. TripAt(p)'
        BY <1>3, <2>1 DEF TripAt, At
      <3>6. QED
        BY <3>2, <3>4, <3>5 DEF LoneTrip
    <2>4. QED
      BY <1>9, <2>2, <2>3 DEF CreateFails, remote
  <1>10. CASE Edit(p)
    <2> DEFINE new == Edited(p, issues[link[p]])
    <2>1. Becomes(link[p], new) /\ issues[link[p]] \in Issues
      BY <1>10, EditEffect, LinkLeads DEF Edit, At, Pushing
    <2>2. /\ pc[p] = "edit" /\ pc'[p] = "state" /\ loaded'[p] = loaded[p] /\ got'[p] = got[p]
          /\ link'[p] = link[p] /\ UNCHANGED rec /\ UNCHANGED meant
      BY <1>3, <1>10 DEF Edit, At, local
    <2>3. stale[p] = StaleLabels(p)
      BY <1>2, <2>2 DEF TripAt, At
    <2>4. new.labels = (issues[link[p]].labels \ stale[p]) \cup {Label(loaded[p].status)}
      BY <2>1 DEF Edited, Issues
    <2>5. AdbLabels(new) = {Label(loaded[p].status)}
      <3>1. isAdbOwnedLabel(Label(loaded[p].status))
        BY DEF isAdbOwnedLabel, Label
      <3>2. QED
        BY <2>3, <2>4, <3>1 DEF AdbLabels, StaleLabels
    <2>6. OneLabel'
      BY <1>2, <2>1, <2>5, OneLabelStays DEF Becomes
    <2>7. TripAt(p)'
      BY <2>1, <2>2, <2>5 DEF TripAt, At, Becomes, AdbLabels
    <2>8. ~Pulls(p)'
      BY <1>1, <2>2 DEF Decided, Pulls, Pushing, remoteChanged
    <2>9. LoneEcho(p)' /\ AsMeant'
      BY <1>2, <2>2, <2>8 DEF LoneEcho, AsMeant
    <2>10. QED
      BY <2>6, <2>7, <2>9 DEF LoneTrip
  <1>11. CASE SetState(p)
    <2> DEFINE issue == issues[link[p]]
               state == StatusToState(loaded[p].status)
    <2>1. /\ pc[p] = "state" /\ pc'[p] = "store" /\ loaded'[p] = loaded[p] /\ link'[p] = link[p]
          /\ got'[p] = got[p] /\ UNCHANGED rec /\ UNCHANGED meant /\ UNCHANGED unseen
      BY <1>3, <1>11 DEF SetState, At, local
    <2>2. ~Pulls(p)'
      BY <1>1, <2>1 DEF Decided, Pulls, Pushing, remoteChanged
    <2>3. issue \in Issues /\ link[p] \in DOMAIN issues
      BY <2>1, LinkLeads DEF Pushing
    <2>4. /\ OneLabel' /\ issues'[link[p]].state \in {state, "open"}
          /\ issues'[link[p]].labels = issue.labels
      <3>1. ASSUME NEW new \in Issues, Becomes(link[p], new),
                   new.state = state, new.labels = issue.labels
            PROVE  /\ OneLabel' /\ issues'[link[p]].state = state
                   /\ issues'[link[p]].labels = issue.labels
        <4>1. \A l, m \in AdbLabels(new) : l = m
          BY <1>2, <2>3, <3>1 DEF OneLabel, AdbLabels
        <4>2. OneLabel'
          BY <1>2, <2>3, <3>1, <4>1, OneLabelStays
        <4>3. QED
          BY <3>1, <4>2 DEF Becomes
      <3>2. CASE issue.state = state /\ Becomes(link[p], issue)
        BY <2>3, <3>1, <3>2
      <3>3. CASE Becomes(link[p], [issue EXCEPT !.state = state, !.at = clock + 1])
        <4> DEFINE new == [issue EXCEPT !.state = state, !.at = clock + 1]
        <4>1. new \in Issues
          BY <3>3 DEF Becomes
        <4>2. new.state = state /\ new.labels = issue.labels
          BY <2>3 DEF Issues
        <4>3. QED
          BY <3>1, <3>3, <4>1, <4>2
      (* An issue that stays closed though its task is not is named.       *)
      <3>4. CASE /\ UNCHANGED issues
                 /\ causes' = IF StaysClosed(p) THEN causes \cup {"reopen"} ELSE causes
        <4>1. ~StaysClosed(p)
          BY <3>4
        <4>2. issue.state \in {state, "open"}
          BY <2>3, <4>1 DEF StaysClosed, InState, Issues
        <4>3. QED
          BY <1>2, <3>4, <4>2 DEF OneLabel, AdbLabels
      <3>5. QED
        BY <1>11, <3>2, <3>3, <3>4, StateEffect, Zenon
    <2>5. link[p] \notin unseen => Says(issues'[link[p]], loaded[p].status)
      <3>1. link[p] \notin unseen => AdbLabels(issue) = {Label(loaded[p].status)}
        BY <1>2, <2>1 DEF TripAt, At
      <3>2. link[p] \notin unseen => AdbLabels(issues'[link[p]]) = {Label(loaded[p].status)}
        BY <2>4, <3>1 DEF AdbLabels
      <3>3. QED
        BY <2>4, <3>2, SaysOne
    <2>6. TripAt(p)'
      BY <2>1, <2>2, <2>5 DEF TripAt, At, Says, StateToStatus
    <2>7. LoneEcho(p)' /\ AsMeant'
      BY <1>2, <2>1, <2>2 DEF LoneEcho, AsMeant
    <2>8. QED
      BY <2>4, <2>6, <2>7 DEF LoneTrip
  <1>12. CASE PullBody(p)
    <2>1. /\ pc[p] = "pull" /\ pc'[p] = "store" /\ loaded'[p] = loaded[p] /\ got'[p] = got[p]
          /\ UNCHANGED rec /\ UNCHANGED meant /\ UNCHANGED issues /\ UNCHANGED unseen
      BY <1>3, <1>12 DEF PullBody, At, remote
    <2>2. Pulls(p)'
      BY <1>1, <2>1 DEF Decided, Pulls, remoteChanged
    <2>3. TripAt(p)'
      BY <2>1, <2>2 DEF TripAt, At
    <2>4. OneLabel' /\ AsMeant' /\ LoneEcho(p)'
      BY <1>2, <2>1 DEF OneLabel, AdbLabels, AsMeant, LoneEcho, remoteChanged, Says, StateToStatus
    <2>5. QED
      BY <2>3, <2>4 DEF LoneTrip
  <1>13. CASE Store(p)
    <2>1. PICK s \in NewStatuses(p) :
             rec' = Stored(p, s) /\ meant' = IF Pulls(p) /\ link[p] \in unseen THEN s ELSE meant
      BY <1>13 DEF Store
    <2>2. pc[p] = "store" /\ pc'[p] = "idle" /\ UNCHANGED issues
      BY <1>3, <1>13 DEF Store, At
    <2>3. rec = loaded[p]
      BY <1>13 DEF Store
    <2>4. /\ loaded[p] \in TaskRecords
          /\ link[p] # Unlinked => link[p] \in DOMAIN issues /\ issues[link[p]] \in Issues
      BY <2>2, Typed, LinkLeads
    <2>5. rec'.status = s /\ rec'.link = link[p] /\ rec'.updated = rec.updated
      BY <2>1, <2>3, <2>4 DEF Stored, TaskRecords
    <2>6. CASE Pulls(p)
      <3>1. rec.link # Unlinked /\ link[p] = rec.link
        BY <1>1, <2>2, <2>3, <2>6 DEF Decided, Pulls
      <3>2. s \in StateToStatus(got[p])
        BY <2>1, <2>6 DEF NewStatuses
      <3>3. link[p] \notin unseen => got[p] = issues[link[p]]
        BY <2>2, <2>6 DEF LoneHonest, HonestAt
      <3>4. AsMeant'
        <4>1. CASE link[p] \in unseen
          BY <2>1, <2>5, <2>6, <4>1 DEF AsMeant
        <4>2. CASE link[p] \notin unseen
          <5>1. Says(issues[link[p]], rec.status)
            BY <1>2, <2>2, <2>3, <2>6, <3>1, <3>3, <4>2 DEF LoneEcho, Pulls
          <5>2. s = rec.status \/ (rec.status = "archived" /\ s = "done")
            BY <3>2, <3>3, <4>2, <5>1 DEF Says, StateToStatus
          <5>3. meant' = meant
            BY <2>1, <4>2
          <5>4. QED
            BY <1>2, <2>5, <5>2, <5>3 DEF AsMeant
        <4>3. QED
          BY <4>1, <4>2
      <3>5. link[p] \notin unseen' => Says(issues[link[p]], s)
        <4>1. link[p] \notin unseen' => got[p] = issues[link[p]]
          BY <1>13, <2>6, <3>3 DEF Store
        <4>2. \A l, m \in AdbLabels(issues[link[p]]) : l = m
          BY <1>2, <2>4, <3>1 DEF OneLabel
        <4>3. QED
          BY <2>4, <3>1, <3>2, <4>1, <4>2, PulledStatus DEF Says
      <3>6. QED
        <4>1. LoneEcho(p)'
          BY <2>2, <2>5, <3>5 DEF LoneEcho, Says, StateToStatus
        <4>2. OneLabel' /\ TripAt(p)'
          BY <1>2, <2>2 DEF OneLabel, AdbLabels, TripAt, At
        <4>3. QED
          BY <3>4, <4>1, <4>2 DEF LoneTrip
    <2>7. CASE ~Pulls(p)
      <3>1. s = rec.status /\ meant' = meant /\ unseen' = unseen
        BY <1>13, <2>1, <2>3, <2>7 DEF NewStatuses, Store
      <3>2. link[p] \notin unseen \cup {Unlinked} => Says(issues[link[p]], rec.status)
        BY <1>2, <2>2, <2>3, <2>7 DEF TripAt, At
      <3>3. LoneEcho(p)'
        BY <2>2, <2>5, <3>1, <3>2 DEF LoneEcho, Says, StateToStatus
      <3>4. OneLabel' /\ TripAt(p)' /\ AsMeant'
        BY <1>2, <2>2, <2>5, <3>1 DEF OneLabel, AdbLabels, TripAt, At, AsMeant
      <3>5. QED
        BY <3>3, <3>4 DEF LoneTrip
    <2>8. QED
      BY <2>6, <2>7
  <1>14. CASE StoreFails(p) \/ Crash(p)
    <2>1. /\ UNCHANGED rec /\ UNCHANGED issues /\ UNCHANGED meant /\ UNCHANGED unseen
          /\ Forgotten(p) /\ pc'[p] = "idle" /\ pc[p] # "idle"
      BY <1>3, <1>14 DEF StoreFails, Crash, Forgotten, Idle, At, local
    <2>2. OneLabel' /\ TripAt(p)' /\ AsMeant'
      BY <1>2, <2>1 DEF OneLabel, AdbLabels, TripAt, At, AsMeant
    (* What was pushed is the status the task still has.                   *)
    <2>3. CASE HalfPushed(p)
      <3>1. rec = loaded[p] /\ ~(At(p, "state") /\ StaysClosed(p))
        BY <2>1, <2>3 DEF Forgotten
      <3>2. /\ pc[p] \in {"state", "store"} /\ ~Pulls(p) /\ rec.link = link[p]
            /\ link[p] # Unlinked /\ issues[link[p]] \in Issues
        BY <2>3, <3>1, HalfPushedLinked, IssueFacts DEF Shape
      <3>3. CASE pc[p] = "state"
        <4>1. issues[link[p]].state \in {StatusToState(rec.status), "open"}
          BY <3>1, <3>2, <3>3 DEF StaysClosed, InState, Issues, At
        <4>2. link[p] \notin unseen => AdbLabels(issues[link[p]]) = {Label(rec.status)}
          BY <1>2, <3>1, <3>3 DEF TripAt, At
        <4>3. link[p] \notin unseen => Says(issues[link[p]], rec.status)
          BY <4>1, <4>2, SaysOne
        <4>4. LoneEcho(p)'
          BY <2>1, <3>2, <4>3 DEF LoneEcho, Says, StateToStatus
        <4>5. QED
          BY <2>2, <4>4 DEF LoneTrip
      <3>4. CASE pc[p] = "store"
        <4>1. link[p] \notin unseen => Says(issues[link[p]], rec.status)
          BY <1>2, <3>1, <3>2, <3>4 DEF TripAt, At
        <4>2. LoneEcho(p)'
          BY <2>1, <3>2, <4>1 DEF LoneEcho, Says, StateToStatus
        <4>3. QED
          BY <2>2, <4>2 DEF LoneTrip
      <3>5. QED
        BY <3>2, <3>3, <3>4
    <2>4. CASE ~HalfPushed(p)
      <3>1. (pc[p] \in {"state", "store"} => Pulls(p)) \/ rec.link = Unlinked
        BY <1>1, <2>1, <2>4 DEF HalfPushed, Decided, Idle, At
      <3>2. LoneEcho(p)'
        BY <1>2, <2>1, <3>1 DEF LoneEcho, remoteChanged, Says, StateToStatus
      <3>3. QED
        BY <2>2, <3>2 DEF LoneTrip
    <2>5. QED
      BY <2>3, <2>4
  <1>15. QED
    BY <1>4, <1>5, <1>6, <1>7, <1>8, <1>9, <1>10, <1>11, <1>12, <1>13, <1>14 DEF Acts, Sync

LEMMA TripPreserved ==
  ASSUME Shape, Alone, KnownLink, HonestInv, Provided, TripInv, [Next]_vars
  PROVE  TripInv'
  <1> SUFFICES ASSUME repo' # "gitlab", {"overlap", "edited", "labels", "reopen"} \cap causes' = {}
               PROVE  TripInv'
    BY DEF TripInv
  <1>1. /\ repo' = repo /\ causes \subseteq causes'
        /\ "overlap" \notin causes /\ "overlap" \notin causes' /\ "labels" \notin causes'
    BY CausesStay
  <1>2. OneLabel /\ (\A p \in Procs : TripAt(p)) /\ Echo /\ AsMeant
    BY <1>1 DEF TripInv
  <1>3. ASSUME NEW p \in Procs, Acts(p)
        PROVE  TripInv'
    <2>1. \A q \in Procs \ {p} : Idle(q) /\ pc'[q] = "idle"
      BY <1>1, <1>3, OthersIdle
    <2>2. LoneHonest(p) /\ LoneTrip(p)
      BY <1>1, <1>2, <2>1, HonestForOne, TripForOne
    <2>3. ~Idle(p) => loaded[p].link = rec.link /\ repo = "github"
      BY <1>1 DEF KnownLink, Provided, Shape, Types
    <2>4. LoneTrip(p)'
      BY <1>3, <2>2, <2>3, TripActs
    <2>5. QED
      BY <2>1, <2>4, TripForOne
  <1>4. ASSUME NEW p \in Procs, pc[p] \in Pushing \cup {"pull", "store"},
               pc[p] = "store" => link[p] # Unlinked
        PROVE  link[p] \in DOMAIN issues
    BY <1>4, LinkLeads
  (* People change one issue, and it is not seen, or the task.             *)
  <1>5. ASSUME \A q \in Procs : OwnSame(q), unseen \subseteq unseen',
               \A n \in DOMAIN issues : n \notin unseen' => issues'[n] = issues[n],
               OneLabel', \A q \in Procs : ~At(q, "edit") \/ UNCHANGED issues,
               Echo', AsMeant'
        PROVE  TripInv'
    <2>1. ASSUME NEW p \in Procs
          PROVE  TripAt(p)'
      <3>1. OwnSame(p) /\ TripAt(p) /\ (At(p, "edit") => UNCHANGED issues)
        BY <1>2, <1>5
      <3>2. pc[p] \in {"state", "store"} /\ link[p] \notin unseen'
              /\ (pc[p] = "store" => link[p] # Unlinked) =>
              issues'[link[p]] = issues[link[p]] /\ link[p] \notin unseen
        BY <1>4, <1>5 DEF Pushing
      <3>3. QED
        BY <3>1, <3>2 DEF TripAt, OwnSame, At, Pulls, remoteChanged, StaleLabels, AdbLabels, Says,
           StateToStatus
    <2>2. QED
      BY <1>5, <2>1 DEF TripInv
  <1>6. CASE EditTask
    <2>1. PICK s \in Statuses : rec' = Recorded(s) /\ meant' = s
      BY <1>6 DEF EditTask
    <2>2. UNCHANGED issues /\ UNCHANGED unseen /\ clock' = clock + 1
      BY <1>6 DEF EditTask
    <2>3. /\ rec'.status = s /\ rec'.link = rec.link /\ rec'.updated = clock + 1
          /\ clock \in Nat
      BY <2>1 DEF Recorded, Shape, Types, TaskTypes, IssueTypes, TaskRecords
    <2>4. OneLabel' /\ AsMeant'
      BY <1>2, <2>1, <2>2, <2>3 DEF OneLabel, AdbLabels, AsMeant
    <2>5. rec'.link # Unlinked => ~(issues[rec'.link].at > rec'.updated)
      <3>1. rec'.link # Unlinked =>
              issues[rec'.link].at <= clock /\ issues[rec'.link].at \in Nat
        BY <2>3, LinkedRecord, IssueFacts DEF Shape, LinksAndTimes, Issues
      <3>2. QED
        BY <2>3, <3>1
    <2>6. Echo'
      BY <2>2, <2>5 DEF Echo, remoteChanged
    <2>7. QED
      BY <1>5, <1>6, <2>2, <2>4, <2>6, AllSame
  <1>7. CASE Maintain
    <2>1. PICK n \in DOMAIN issues, issue \in Issues :
            Becomes(n, issue) /\ Maintained(issues[n], issue) /\ unseen' = unseen \cup {n}
      BY <1>7, MaintainEffect
    <2>2. UNCHANGED rec /\ UNCHANGED meant /\ \A p \in Procs : ~At(p, "edit")
      <3>1. /\ UNCHANGED rec /\ UNCHANGED meant
            /\ causes' = IF \E p \in Procs : At(p, "edit") THEN causes \cup {"labels"} ELSE causes
        BY <1>7, Zenon DEF Maintain, local
      <3>2. QED
        BY <1>1, <3>1
    <2>3. \A q \in Procs : OwnSame(q)
      BY <1>7, AllSame
    <2>4. \A l, m \in AdbLabels(issue) : l = m
      BY <1>2, <2>1 DEF Maintained, OneLabel
    <2>5. OneLabel' /\ AsMeant'
      BY <1>2, <2>1, <2>2, <2>4, OneLabelStays DEF AsMeant
    <2>6. \A m \in DOMAIN issues : m \notin unseen' => issues'[m] = issues[m]
      BY <2>1 DEF Becomes
    <2>7. Echo'
      <3>1. rec.link # Unlinked /\ rec.link \notin unseen' =>
              issues'[rec.link] = issues[rec.link] /\ rec.link \notin unseen
        BY <2>1, <2>6, LinkedRecord
      <3>2. QED
        BY <1>2, <2>2, <2>3, <3>1 DEF Echo, OwnSame, Pulls, remoteChanged, Says, StateToStatus
    <2>8. QED
      BY <1>5, <2>1, <2>2, <2>3, <2>5, <2>6, <2>7
  <1>8. CASE EditBody \/ UNCHANGED vars
    <2>1. UNCHANGED issues /\ UNCHANGED unseen /\ UNCHANGED rec /\ UNCHANGED meant
      BY <1>8 DEF EditBody, vars, remote, local
    <2>2. \A q \in Procs : OwnSame(q)
      BY <1>8, AllSame
    <2>3. OneLabel' /\ AsMeant' /\ Echo'
      BY <1>2, <2>1, <2>2 DEF OneLabel, AdbLabels, AsMeant, Echo, OwnSame, Pulls, remoteChanged,
         Says, StateToStatus
    <2>4. QED
      BY <1>5, <2>1, <2>2, <2>3
  <1>9. QED
    BY <1>3, <1>6, <1>7, <1>8, ActsOrEdits

-----------------------------------------------------------------------------
(* All of it together.                                                     *)

SyncInv ==
    /\ Shape /\ Alone /\ KnownLink /\ Provided
    /\ OneInv /\ HonestInv /\ TripInv

LEMMA SyncInit ==
  ASSUME Init
  PROVE  SyncInv
  <1>1. PICK seeded \in Seeds :
         /\ rec = [NewRecord EXCEPT !.link = IF seeded THEN 1 ELSE Unlinked]
         /\ issues = IF seeded THEN << [body |-> 2, labels |-> {}, state |-> "open", at |-> 1] >>
                     ELSE <<>>
         /\ unseen = IF seeded THEN {1} ELSE {}
    BY DEF Init
  <1>2. /\ pc = [p \in Procs |-> "idle"] /\ loaded = [p \in Procs |-> NewRecord]
        /\ args = [p \in Procs |-> NoRun] /\ body = [p \in Procs |-> 0]
        /\ got = [p \in Procs |-> NoIssue] /\ stale = [p \in Procs |-> {}]
        /\ link = [p \in Procs |-> Unlinked]
        /\ repo \in Repos /\ context = 1 /\ clock = 1 /\ cut = {}
        /\ edits = 0 /\ faults = 0 /\ meant = "backlog" /\ causes = {}
    BY DEF Init
  <1>3. seeded \in BOOLEAN
    BY IssueSyncAssumption
  <1>4. /\ issues \in Seq(Issues) /\ Len(issues) <= 1
        /\ DOMAIN issues = IF seeded THEN {1} ELSE {}
        /\ \A n \in DOMAIN issues : issues[n] = [body |-> 2, labels |-> {}, state |-> "open", at |-> 1]
    <2>1. CASE seeded
      <3> DEFINE issue == [body |-> 2, labels |-> {}, state |-> "open", at |-> 1]
      <3>1. issue \in Issues
        BY DEF Issues
      <3>2. issues = <<issue>>
        BY <1>1, <2>1
      <3> HIDE DEF issue
      <3>3. issues \in Seq(Issues) /\ Len(issues) = 1 /\ DOMAIN issues = {1} /\ issues[1] = issue
        BY <3>1, <3>2
      <3>4. QED
        BY <2>1, <3>3 DEF issue
    <2>2. CASE ~seeded
      BY <1>1, <2>2
    <2>3. QED
      BY <1>3, <2>1, <2>2
  <1>5. /\ rec.status = "backlog" /\ rec.hash = NoHash /\ rec.updated = 1
        /\ rec.link = (IF seeded THEN 1 ELSE Unlinked) /\ rec \in TaskRecords
        /\ NewRecord \in TaskRecords /\ NewRecord.link = Unlinked /\ NewRecord.updated = 1
    BY <1>1, IssueSyncAssumption DEF NewRecord, TaskRecords, Unlinked
  <1>6. Types
    <2>1. NoRun \in [direction : {"none", "both", "push", "pull"}, dryRun : BOOLEAN]
      BY DEF NoRun
    <2>2. OwnTypes
      BY <1>2, <1>5, <2>1 DEF OwnTypes, Steps, Unlinked
    <2>3. IssueTypes
      BY <1>1, <1>2, <1>3, <1>4 DEF IssueTypes
    <2>4. QED
      BY <1>2, <1>5, <2>2, <2>3, IssueSyncAssumption DEF Types, TaskTypes
  <1>7. \A p \in Procs : pc[p] = "idle" /\ loaded[p] = NewRecord
    BY <1>2
  <1>8. LinksAndTimes
    BY <1>2, <1>3, <1>4, <1>5, <1>7 DEF LinksAndTimes
  <1>9. Shape
    BY <1>6, <1>7, <1>8 DEF Shape, Decided, Pushing
  <1>10. Alone /\ KnownLink /\ Provided
    BY <1>7 DEF Alone, KnownLink, Provided, Idle, At
  <1>11. OneInv
    BY <1>3, <1>4, <1>5 DEF OneInv, Unlinked
  <1>12. HonestInv
    BY <1>5, <1>7 DEF HonestInv, HashLinked, Baseline, HonestAt, At
  <1>13. TripInv
    <2>1. OneLabel
      BY <1>4 DEF OneLabel, AdbLabels
    <2>2. Echo
      BY <1>1, <1>3, <1>5 DEF Echo
    <2>3. QED
      BY <1>2, <1>5, <1>7, <2>1, <2>2 DEF TripInv, TripAt, At, AsMeant
  <1>14. QED
    BY <1>9, <1>10, <1>11, <1>12, <1>13 DEF SyncInv

LEMMA SyncInvariant == Spec => []SyncInv
  <1>1. Init => SyncInv
    BY SyncInit
  <1>2. SyncInv /\ [Next]_vars => SyncInv'
    BY ShapePreserved, AlonePreserved, KnownLinkPreserved, ProvidedPreserved, OneInvPreserved,
       HonestPreserved, TripPreserved DEF SyncInv
  <1>3. QED
    BY <1>1, <1>2, PTL DEF Spec

(* However many processes run adb sync issues, whatever fails and whoever  *)
(* edits: a task's link leads to an issue that is there, and no second     *)
(* issue is made for it but for a lost answer, a number that could not be  *)
(* written back, or commands that ran at once (engine.go, reconcile.go).   *)
THEOREM OneIssuePerTask == Spec => []LinkedOnce
  <1>1. SyncInv => LinkedOnce
    <2> SUFFICES ASSUME SyncInv
                 PROVE  LinkedOnce
      OBVIOUS
    <2>1. Shape /\ OneInv
      BY DEF SyncInv
    <2>2. /\ rec.link \in {Unlinked} \cup DOMAIN issues /\ rec.status \in Statuses
          /\ unseen \cup cut \subseteq DOMAIN issues
      BY <2>1 DEF Shape, LinksAndTimes, Types, TaskTypes, IssueTypes, TaskRecords
    <2>3. rec.updated <= clock /\ \A n \in DOMAIN issues : issues[n].at <= clock
      BY <2>1 DEF Shape, LinksAndTimes
    <2>4. ASSUME NEW p \in Procs
          PROVE  /\ At(p, "store") => link[p] \in DOMAIN issues \/ Nameless(p)
                 /\ pc[p] \in {"labels", "edit", "state", "pull"}
                      => got[p] # NoIssue /\ link[p] = loaded[p].link /\ link[p] \in DOMAIN issues
      <3>1. Decided(p)
        BY <2>1 DEF Shape
      <3>2. pc[p] \in Pushing \cup {"pull"} => link[p] \in DOMAIN issues
        BY <2>1, LinkLeads DEF Pushing
      <3>3. QED
        BY <3>1, <3>2 DEF Decided, Pushing, At
    <2>5. OneIssue
      BY <2>1 DEF OneInv, OneIssue
    <2>6. QED
      BY <2>2, <2>3, <2>4, <2>5 DEF LinkedOnce, TypeOK
  <1>2. QED
    BY <1>1, SyncInvariant, PTL

(* When the stored baseline says that nothing changed locally, both sides  *)
(* say the same (reconcile.go:58-62): at rest, unless commands ran at      *)
(* once, people changed the issue and adb has not seen it, or a push was   *)
(* cut short.  Only a task whose issue gave no number has a baseline and   *)
(* no issue.                                                               *)
THEOREM BaselineDoesNotLie == Spec => []BaselineHonest
  <1>1. SyncInv => BaselineHonest
    <2> SUFFICES ASSUME SyncInv, ~localChanged(rec, context), \A p \in Procs : Idle(p),
                        rec.link \notin unseen \cup cut, "overlap" \notin causes
                 PROVE  Agree \/ (rec.link = Unlinked /\ "unlinked" \in causes)
      BY DEF BaselineHonest
    <2>1. HashLinked /\ Baseline
      BY DEF SyncInv, HonestInv
    <2>2. rec.hash = <<rec.status, context>>
      BY DEF localChanged, SyncHash
    <2>3. rec.hash # NoHash /\ rec.hash[1] = rec.status /\ rec.hash[2] = context
      BY <2>2 DEF NoHash
    <2>4. QED
      BY <2>1, <2>3 DEF HashLinked, Baseline, Known, Fits, Agree, Idle, At
  <1>2. QED
    BY <1>1, SyncInvariant, PTL

(* On GitHub the task keeps the status people last set on it, or that of   *)
(* an issue they changed since: what a sync wrote to the issue is read     *)
(* back as the same status (mapping.go:26-28).  Excepted are an archived   *)
(* task, which comes back as done, commands that ran at once, a change of  *)
(* the task during a sync, labels that could not be read or changed since, *)
(* and an issue that adb failed to reopen.                                 *)
THEOREM StatusComesBack == Spec => []StatusRoundTrips
  <1>1. SyncInv => StatusRoundTrips
    BY DEF SyncInv, TripInv, AsMeant, StatusRoundTrips
  <1>2. QED
    BY <1>1, SyncInvariant, PTL

=============================================================================
