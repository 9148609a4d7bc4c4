----------------------------- MODULE Automation -----------------------------
(***************************************************************************)
(* The scheduler daemon and the automation it runs (cli/scheduler.go,      *)
(* scheduler/scheduler.go, scheduler/state.go).  The commands scheduler    *)
(* start, stop, restart and status agree through a PID file; each daemon   *)
(* runs jobs on tickers: one drains the event log behind a cursor file and *)
(* fires rules, one rotates the log, and one each fires a time rule.       *)
(*                                                                         *)
(* A daemon's process id is the daemon; ids are not reused, and commands   *)
(* do not die on their way.  The jobs that pull repositories and evaluate  *)
(* alerts touch none of this.                                              *)
(***************************************************************************)
EXTENDS EventLog, RuleEngine

CONSTANTS Daemons, Clis,
          Jobs,          \* which of "dispatch", "rotate" and the time rules run
          Commands,      \* which of "start", "stop", "restart" and "status" are given
          Payload(_),    \* the fields of an event
          Type(_),       \* the type of an event
          Faults,        \* which of "crash" and "cursor" happen
          FirstCursor,   \* the cursor that an earlier daemon left, or 0
          MaxTicks,      \* bound: ticks of all daemons
          MaxCommands    \* bound: commands

ASSUME AutomationAssumption ==
    /\ Jobs \subseteq {"dispatch", "rotate", "rule"}
    /\ Commands \subseteq {"start", "stop", "restart", "status"}
    /\ "none" \notin Daemons
    /\ FirstCursor \in {0, 1}   \* the time is 1 at first, and a cursor no later
    /\ MaxTicks \in Nat /\ MaxCommands \in Nat

VARIABLES status,     \* each daemon: "never", "up", "stopping" or "dead"
          pidFile,    \* the daemon in the PID file, or "none"
          cpc, saw,   \* each command's step, and the daemon it read
          restarts,   \* the commands that start again after they stopped
          cursor,     \* the time in the cursor file, or 0 when it holds none
          pc,         \* the step of each slot that an invocation can have
          batch,      \* the events it has left, and
          done,       \* those it has dispatched
          from,       \* the cursor it read
          queue,      \* the rules left for the first of them, the first at work
          counted,    \* each daemon's copy of the job counts
          stateFile,  \* the counts in the state file
          ticks, commands,
          taken,      \* history: how often an event was dispatched
          finished,   \* history: the runs and skips there were
          crowded,    \* history: two daemons lived at once
          clash,      \* history: commands overlapped
          again,      \* history: events whose cursor was not stored
          skipped     \* history: events that a seed, a rotation or a crash lost

daemonVars == <<status, crowded>>
cliVars == <<pidFile, cpc, saw, restarts, commands, clash>>
drain == <<batch, done, from, queue>>
counts == <<counted, stateFile, ticks, finished>>
ledger == <<taken, again, skipped>>
vars == <<logVars, tail, ruleVars, daemonVars, cliVars, cursor, pc, drain, counts, ledger>>

-----------------------------------------------------------------------------

\* Two drains would overlap if the job's mutex did not stop them.
Room(j) == IF j = "dispatch" THEN {1, 2} ELSE {1}
Slots == {s \in Daemons \X Jobs \X {1, 2} : s[3] \in Room(s[2])}
DaemonOf(s) == s[1]
JobOf(s) == s[2]

Alive(d) == status[d] \in {"up", "stopping"}
Busy(d) == {s \in Slots : DaemonOf(s) = d /\ pc[s] # "idle"}
InBatch(e) == \E s \in Slots : e \in ToSet(batch[s])

TypeOK ==
    /\ LogTypeOK
    /\ pidFile \in Daemons \cup {"none"} /\ cursor \in 0 .. clock
    /\ \A s \in Slots : pc[s] # "idle" => Alive(DaemonOf(s))
    /\ \A s \in Slots : ToSet(batch[s]) \cup done[s] \subseteq appended
    /\ \A d \in Daemons : counted[d] <= finished
    /\ fired \subseteq ran

Init ==
    /\ cursor = FirstCursor /\ LogInit(cursor) /\ RuleInit
    /\ status = [d \in Daemons |-> "never"] /\ crowded = FALSE
    /\ pidFile = "none" /\ cpc = [c \in Clis |-> "idle"] /\ saw = [c \in Clis |-> "none"]
    /\ restarts = {} /\ commands = 0 /\ clash = FALSE
    /\ pc = [s \in Slots |-> "idle"]
    /\ batch = [s \in Slots |-> <<>>] /\ done = [s \in Slots |-> {}]
    /\ from = [s \in Slots |-> 0] /\ queue = [s \in Slots |-> <<>>]
    /\ counted = [d \in Daemons |-> 0] /\ stateFile = 0 /\ ticks = 0 /\ finished = 0
    /\ taken = [e \in 1 .. MaxEvents |-> 0] /\ again = {} /\ skipped = {}

(* The log's own steps.                                                    *)
LogStep ==
    /\ \/ TakeStamp \/ Follow \/ \E e \in pending : AppendLine(e)
    /\ UNCHANGED <<ruleVars, daemonVars, cliVars, cursor, pc, drain, counts, ledger>>

-----------------------------------------------------------------------------
(* The commands.                                                           *)

processAlive(d) == d # "none" /\ Alive(d)

CliGoto(c, step) == cpc' = [cpc EXCEPT ![c] = step]

(* Every command begins by reading the PID file and probing its process.   *)
readPIDFile(c) ==
    /\ cpc[c] = "idle" /\ commands < MaxCommands
    /\ commands' = commands + 1
    /\ clash' = (clash \/ \E o \in Clis \ {c} : cpc[o] # "idle")
    /\ saw' = [saw EXCEPT ![c] = pidFile]
    /\ \E command \in Commands :
         /\ restarts' = IF command = "restart" THEN restarts \cup {c} ELSE restarts
         /\ CliGoto(c, CASE command = "start" -> IF processAlive(pidFile) THEN "idle" ELSE "spawn"
                         [] command = "status" ->
                              IF processAlive(pidFile) \/ pidFile = "none" THEN "idle" ELSE "remove"
                         [] command \in {"stop", "restart"} ->
                              IF processAlive(pidFile) THEN "signal" ELSE "remove")
    /\ UNCHANGED <<pidFile, daemonVars, counted>>

\* Mutant: the PID file is removed and its process is not told to stop.
stopNothing(c) ==
    /\ cpc[c] = "signal"
    /\ CliGoto(c, "remove")
    /\ UNCHANGED <<pidFile, saw, restarts, commands, clash, daemonVars, counted>>

(* SIGTERM cancels the daemon's context; nothing waits for its end.        *)
stopProcess(c) ==
    /\ cpc[c] = "signal"
    /\ status' = [status EXCEPT ![saw[c]] = IF @ = "up" THEN "stopping" ELSE @]
    /\ CliGoto(c, "remove")
    /\ UNCHANGED <<pidFile, saw, restarts, commands, clash, crowded, counted>>

RemovePIDFile(c) ==
    /\ cpc[c] = "remove"
    /\ pidFile' = IF saw[c] = "none" THEN pidFile ELSE "none"
    /\ CliGoto(c, IF c \in restarts THEN "read" ELSE "idle")
    /\ UNCHANGED <<saw, restarts, commands, clash, daemonVars, counted>>

ReadAgain(c) ==
    /\ cpc[c] = "read"
    /\ CliGoto(c, IF processAlive(pidFile) THEN "idle" ELSE "spawn")
    /\ restarts' = restarts \ {c}
    /\ UNCHANGED <<pidFile, saw, commands, clash, daemonVars, counted>>

\* Mutant: a daemon starts with empty counts.
loadStatesNone == 0

loadStates == stateFile

(* A daemon opens its log, loads the job counts and starts its tickers; no *)
(* job runs before its first tick.                                         *)
RunForeground(d) ==
    /\ status[d] = "never"
    /\ status' = [status EXCEPT ![d] = "up"]
    /\ counted' = [counted EXCEPT ![d] = loadStates]
    /\ crowded' = (crowded \/ \E o \in Daemons : Alive(o))

Spawn(c) ==
    /\ cpc[c] = "spawn"
    /\ \E d \in Daemons : RunForeground(d) /\ saw' = [saw EXCEPT ![c] = d]
    /\ CliGoto(c, "write")
    /\ UNCHANGED <<pidFile, restarts, commands, clash>>

WritePIDFile(c) ==
    /\ cpc[c] = "write"
    /\ pidFile' = saw[c]
    /\ CliGoto(c, "idle")
    /\ UNCHANGED <<saw, restarts, commands, clash, daemonVars, counted>>

CliStep(c) ==
    /\ \/ readPIDFile(c) \/ stopProcess(c) \/ RemovePIDFile(c) \/ ReadAgain(c)
       \/ Spawn(c) \/ WritePIDFile(c)
    /\ UNCHANGED <<logVars, tail, ruleVars, cursor, pc, drain, stateFile, ticks, finished,
                   ledger>>

-----------------------------------------------------------------------------
(* The job loops.                                                          *)

Goto(s, step) == pc' = [pc EXCEPT ![s] = step]

FirstStep(job) == CASE job = "dispatch" -> "cursor"
                    [] job = "rotate"   -> "rotate"
                    [] job = "rule"     -> "rule"

(* stateStore.update changes the daemon's copy and writes the whole file.  *)
update(d, by) ==
    /\ counted' = [counted EXCEPT ![d] = @ + by]
    /\ stateFile' = counted[d] + by
    /\ finished' = finished + by

TryLock(d, j) == \A s \in Slots : s[1] = d /\ s[2] = j => pc[s] = "idle"

(* A tick starts an invocation, or skips when the last one still runs.     *)
invoke(d, j) ==
    /\ status[d] = "up" /\ ticks < MaxTicks
    /\ ticks' = ticks + 1
    /\ LET free == {i \in Room(j) : pc[<<d, j, i>>] = "idle"}
       IN  IF TryLock(d, j) /\ free # {}
           THEN Goto(<<d, j, CHOOSE i \in free : \A k \in free : i <= k>>, FirstStep(j))
                /\ update(d, 0)
           ELSE update(d, 1) /\ UNCHANGED pc
    /\ UNCHANGED <<logVars, tail, ruleVars, daemonVars, cliVars, cursor, drain, ledger>>

(* The invocation is over, whether its job failed or not.                  *)
Finish(s) ==
    /\ pc[s] = "finish"
    /\ update(DaemonOf(s), 1)
    /\ Goto(s, "idle")
    /\ batch' = [batch EXCEPT ![s] = <<>>] /\ done' = [done EXCEPT ![s] = {}]
    /\ from' = [from EXCEPT ![s] = 0] /\ queue' = [queue EXCEPT ![s] = <<>>]
    /\ UNCHANGED <<logVars, tail, ruleVars, daemonVars, cliVars, cursor, ticks, ledger>>

-----------------------------------------------------------------------------
(* drainAutomationEvents.                                                  *)

\* What a step of a drain leaves alone.
drainOnly == <<tail, daemonVars, cliVars, counts>>

ReadCursor(s) ==
    /\ pc[s] = "cursor"
    /\ from' = [from EXCEPT ![s] = cursor]
    /\ Goto(s, IF cursor = 0 THEN "seed" ELSE "read")
    /\ UNCHANGED <<logVars, ruleVars, cursor, batch, done, queue, ledger, drainOnly>>

(* The first drain, and one that finds no time in the file, starts at now. *)
Seed(s) ==
    /\ pc[s] = "seed"
    /\ cursor' = clock
    /\ seeded' = clock
    /\ skipped' = skipped \cup {e \in ToSet(log) : taken[e] = 0}
    /\ Goto(s, "finish")
    /\ UNCHANGED <<clock, stamp, pending, log, stranded, appended, late, ruleVars, drain, taken,
                   again, drainOnly>>

(* A boundary event has been processed already.                            *)
After(s) == Sublist(ReadSince(from[s]), {e \in Events : stamp[e] > from[s]})

\* The drain goes on with these events: the rules of the first one are next.
Begin(s, rest) ==
    LET rules == IF rest = <<>> THEN <<>> ELSE Rules(Type(Head(rest)))
    IN  /\ batch' = [batch EXCEPT ![s] = rest]
        /\ queue' = [queue EXCEPT ![s] = rules]
        /\ Goto(s, IF rest = <<>> THEN "advance" ELSE IF rules = <<>> THEN "event" ELSE "fire")

ReadEvents(s) ==
    /\ pc[s] = "read"
    /\ Begin(s, After(s))
    /\ UNCHANGED <<logVars, ruleVars, cursor, done, from, ledger, drainOnly>>

EventOver(s) ==
    /\ Begin(s, Tail(batch[s]))
    /\ done' = [done EXCEPT ![s] = @ \cup {Head(batch[s])}]
    /\ taken' = [taken EXCEPT ![Head(batch[s])] = @ + 1]

(* An event that no rule is about.                                         *)
DispatchNone(s) ==
    /\ pc[s] = "event"
    /\ EventOver(s)
    /\ UNCHANGED <<logVars, ruleVars, cursor, from, again, skipped, drainOnly>>

(* os.WriteFile truncates the cursor before it writes it.                  *)
TruncateCursor(s) ==
    /\ pc[s] = "advance"
    /\ \/ done[s] = {} /\ Goto(s, "finish") /\ UNCHANGED <<cursor, again>>
       \/ done[s] # {} /\ cursor' = 0 /\ Goto(s, "write") /\ UNCHANGED again
       \/ /\ done[s] # {} /\ "cursor" \in Faults
          /\ again' = again \cup done[s]
          /\ Goto(s, "finish") /\ UNCHANGED cursor
    /\ UNCHANGED <<logVars, ruleVars, drain, taken, skipped, drainOnly>>

\* Mutant: the cursor moves to the time it is written.
newCursorNow(s) == clock

(* The newest event of the drain.                                          *)
newCursor(s) == CHOOSE t \in {stamp[e] : e \in done[s]} : \A e \in done[s] : stamp[e] <= t

WriteCursor(s) ==
    /\ pc[s] = "write"
    /\ cursor' = newCursor(s)
    /\ Goto(s, "finish")
    /\ UNCHANGED <<logVars, ruleVars, drain, ledger, drainOnly>>

-----------------------------------------------------------------------------
(* Firing the first rule of the queue, for an event or on its own ticker.  *)

Event(s) == IF JobOf(s) = "dispatch" THEN Head(batch[s]) ELSE 0
eventPayload(s) == IF JobOf(s) = "dispatch" THEN Payload(Event(s)) ELSE {}

StartRule(s) ==
    /\ pc[s] = "rule"
    /\ \E r \in TimeRules : queue' = [queue EXCEPT ![s] = <<r>>]
    /\ Goto(s, "fire")
    /\ UNCHANGED <<logVars, ruleVars, cursor, batch, done, from, ledger, drainOnly>>

RuleOver(s) ==
    IF Len(queue[s]) > 1
    THEN queue' = [queue EXCEPT ![s] = Tail(@)] /\ Goto(s, "fire") /\ UNCHANGED <<batch, done, taken>>
    ELSE IF JobOf(s) = "dispatch" THEN EventOver(s)
    ELSE Goto(s, "finish") /\ UNCHANGED <<batch, done, queue, taken>>

fire(s) ==
    /\ pc[s] = "fire"
    /\ LET r == Head(queue[s])
           cancelled == status[DaemonOf(s)] = "stopping"
       IN  \/ /\ \E edges \in Neighbors : Gate(r, eventPayload(s), edges) # "open"
              /\ RuleOver(s) /\ UNCHANGED ran
           \/ /\ \E edges \in Neighbors : Gate(r, eventPayload(s), edges) = "open"
              /\ \/ /\ "error" \in runAction(r, eventPayload(s), cancelled)
                    /\ RuleOver(s) /\ UNCHANGED ran
                 \/ /\ "ok" \in runAction(r, eventPayload(s), cancelled)
                    /\ ran' = ran \cup {<<r, Event(s)>>}
                    /\ Goto(s, "outputs") /\ UNCHANGED <<batch, done, queue, taken>>
    /\ UNCHANGED <<logVars, fired, applied, cursor, from, again, skipped, drainOnly>>

Apply(s) ==
    /\ pc[s] = "outputs"
    /\ LET r == Head(queue[s])
       IN  \E k \in applyOutputs(r, eventPayload(s)) :
             /\ applied' = applied \cup {<<r, Event(s), i>> : i \in 1 .. k}
             /\ fired' = IF k = Len(RuleSet[r].write) THEN fired \cup {<<r, Event(s)>>} ELSE fired
    /\ RuleOver(s)
    /\ UNCHANGED <<logVars, ran, cursor, from, again, skipped, drainOnly>>

-----------------------------------------------------------------------------

(* The events-rotate job.                                                  *)
Rotate(s) ==
    /\ pc[s] = "rotate"
    /\ RotateIfLarge
    /\ skipped' = skipped \cup {e \in ToSet(log) \ ToSet(log') : taken[e] = 0 /\ ~InBatch(e)}
                          \cup stranded'
    /\ Goto(s, "finish")
    /\ UNCHANGED <<ruleVars, daemonVars, cliVars, cursor, drain, counts, taken, again>>

JobStep(s) ==
    \/ ReadCursor(s) \/ Seed(s) \/ ReadEvents(s) \/ DispatchNone(s) \/ fire(s) \/ Apply(s)
    \/ TruncateCursor(s) \/ WriteCursor(s) \/ StartRule(s) \/ Rotate(s) \/ Finish(s)

(* A daemon told to stop ends when its invocations have ended.             *)
Exit(d) ==
    /\ status[d] = "stopping" /\ Busy(d) = {}
    /\ status' = [status EXCEPT ![d] = "dead"]
    /\ UNCHANGED <<logVars, tail, ruleVars, crowded, cliVars, cursor, pc, drain, counts, ledger>>

(* A daemon that is killed stores no cursor.                               *)
Crash(d) ==
    /\ "crash" \in Faults /\ Alive(d)
    /\ status' = [status EXCEPT ![d] = "dead"]
    /\ again' = again \cup UNION {done[s] : s \in Busy(d)}
    /\ skipped' = skipped \cup {e \in UNION {ToSet(batch[s]) : s \in Busy(d)} :
                                  taken[e] = 0 /\ e \notin ToSet(log)}
    /\ pc' = [s \in Slots |-> IF s \in Busy(d) THEN "idle" ELSE pc[s]]
    /\ batch' = [s \in Slots |-> IF s \in Busy(d) THEN <<>> ELSE batch[s]]
    /\ done' = [s \in Slots |-> IF s \in Busy(d) THEN {} ELSE done[s]]
    /\ from' = [s \in Slots |-> IF s \in Busy(d) THEN 0 ELSE from[s]]
    /\ queue' = [s \in Slots |-> IF s \in Busy(d) THEN <<>> ELSE queue[s]]
    /\ UNCHANGED <<logVars, tail, ruleVars, crowded, cliVars, cursor, counts, taken>>

Next == \/ LogStep
        \/ \E c \in Clis : CliStep(c)
        \/ \E d \in Daemons : Exit(d) \/ Crash(d) \/ \E j \in Jobs : invoke(d, j)
        \/ \E s \in Slots : JobStep(s)

Spec == Init /\ [][Next]_vars

-----------------------------------------------------------------------------

(* A logged event is dispatched, about to be, or after the cursor, unless  *)
(* it came late, the cursor began after it, or its log was rotated away    *)
(* unread, perhaps before the event was in it (cli/scheduler.go:467-518,   *)
(* jobs.go:125).                                                           *)
NoEventLost ==
    \A e \in appended :
      \/ taken[e] > 0 \/ InBatch(e)
      \/ e \in ToSet(log) /\ (cursor = 0 \/ stamp[e] > cursor)
      \/ e \in late \cup skipped

(* An event is dispatched twice only if its cursor was not stored or two   *)
(* daemons lived at once (scheduler.go:124, cli/scheduler.go:498).         *)
NotTwice == crowded \/ \A e \in appended \ again : taken[e] <= 1

(* Each event is dispatched, once, with the exceptions named above.        *)
DispatchedOnce == NoEventLost /\ NotTwice

(* Commands that do not overlap leave one daemon that nobody has stopped,  *)
(* and the PID file names it (cli/scheduler.go:225-277).                   *)
OneDaemon ==
    LET up == {d \in Daemons : status[d] = "up"}
    IN  ~clash => /\ Cardinality(up) <= 1
                  /\ (\A c \in Clis : cpc[c] = "idle") => up \subseteq {pidFile}

(* A rule's outputs are applied only if all of them resolve, and all of    *)
(* them are there when it is reported as fired (core/rules.go:247-252: "a  *)
(* template/wiring error cannot leave a partially-applied set").           *)
OutputsWhole ==
    /\ \A a \in applied : \A j \in Places(a[1]) :
         Resolves(a[1], j, IF a[2] = 0 THEN {} ELSE Payload(a[2]))
    /\ \A f \in fired : \A i \in Places(f[1]) : <<f[1], f[2], i>> \in applied

(* The state file counts every run and every skip, over restarts and       *)
(* crashes, unless two daemons lived at once (scheduler/state.go:50-95).   *)
CountsKept == crowded \/ stateFile = finished

(* What the commands show of jobs and events is what happened: the counts  *)
(* of scheduler status, and the events of events tail --follow.            *)
ReportsTrue == TypeOK /\ CountsKept /\ TailedOnce

=============================================================================
