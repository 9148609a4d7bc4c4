------------------------------ MODULE EventLog ------------------------------
(***************************************************************************)
(* The event log (observability/eventlog.go): processes take a timestamp   *)
(* and then append one line, the scheduler renames a log that is too long  *)
(* (scheduler/jobs.go), and adb events tail --follow shows what is new     *)
(* (cli/events.go).  Events are numbered in the order of their timestamps' *)
(* making; a malformed line, which every reader skips, is not an event.    *)
(***************************************************************************)
EXTENDS Naturals, Sequences, SequencesExt, FiniteSets, Sublists

CONSTANTS MaxEvents,  \* bound: events
          RotateAt    \* the length at which the log is rotated

ASSUME EventLogAssumption == MaxEvents \in Nat /\ RotateAt \in Nat \ {0}

VARIABLES clock,      \* the latest time anyone has read
          stamp,      \* the timestamp of each event made so far
          pending,    \* the events stamped and not yet written
          log,        \* the events in the log file, in file order
          stranded,   \* those whose writer has a log open that was rotated away
          appended,   \* history: the events that were ever written
          late,       \* history: those written after one in a log as recent as they are
          seeded,     \* history: the latest time a reader began from
          seen,       \* how many lines the follower has counted
          tailed,     \* history: what the follower has shown
          missed      \* history: events that a rotation kept from the follower

tail == <<seen, tailed, missed>>
logVars == <<clock, stamp, pending, log, stranded, appended, late, seeded>>

-----------------------------------------------------------------------------

Events == 1 .. Len(stamp)

LogTypeOK ==
    /\ Len(stamp) <= MaxEvents
    /\ \A e \in Events : stamp[e] \in 1 .. clock
    /\ pending \subseteq Events /\ appended = Events \ pending
    /\ ToSet(log) \subseteq appended /\ IsInjective(log)
    /\ late \subseteq appended
    /\ stranded \subseteq missed \ ToSet(log)

\* Readers begin after the time an earlier reader left, or 0.
LogInit(since) ==
    /\ clock = 1 /\ stamp = <<>> /\ pending = {} /\ log = <<>>
    /\ stranded = {} /\ appended = {} /\ late = {} /\ seeded = since
    /\ seen = 0 /\ tailed = <<>> /\ missed = {}

(* Log reads the time first.  Two events may read the same time.           *)
TakeStamp ==
    /\ Len(stamp) < MaxEvents
    /\ \E now \in clock .. clock + 1 : clock' = now /\ stamp' = Append(stamp, now)
    /\ pending' = pending \cup {Len(stamp) + 1}
    /\ UNCHANGED <<log, stranded, appended, late, seeded, tail>>

(* The line is appended to the file that had the name when the event's     *)
(* process opened it; the mutex of Log orders the events of one process    *)
(* only.                                                                   *)
AppendLine(e) ==
    /\ e \in pending
    /\ pending' = pending \ {e}
    /\ log' = IF e \in stranded THEN log ELSE Append(log, e)
    /\ appended' = appended \cup {e}
    /\ late' = IF seeded >= stamp[e] \/ \E f \in appended \ stranded : stamp[f] >= stamp[e]
               THEN late \cup {e} ELSE late
    /\ missed' = IF e \notin stranded /\ Len(log) < seen THEN missed \cup {e} ELSE missed
    /\ UNCHANGED <<clock, stamp, stranded, seeded, seen, tailed>>

ReadAll == log
ReadSince(cutoff) == Sublist(ReadAll, {e \in Events : stamp[e] >= cutoff})

(* rotateIfLarge renames the file and makes an empty one.  Of the events   *)
(* that are about to be written, some have the old one open already.       *)
RotateIfLarge ==
    /\ IF Len(log) >= RotateAt
       THEN \E opened \in SUBSET pending :
              /\ log' = <<>>
              /\ stranded' = stranded \cup opened
              /\ missed' = missed \cup ToSet(SubSeq(log, seen + 1, Len(log))) \cup opened
       ELSE UNCHANGED <<log, stranded, missed>>
    /\ UNCHANGED <<clock, stamp, pending, appended, late, seeded, seen, tailed>>

(* runEventsTail compares the length of the log with the lines it counted, *)
(* whatever file they were in.                                             *)
Follow ==
    /\ Len(ReadAll) > seen
    /\ tailed' = tailed \o SubSeq(ReadAll, seen + 1, Len(ReadAll))
    /\ seen' = Len(ReadAll)
    /\ UNCHANGED <<logVars, missed>>

(* adb events tail --follow shows every event once, except those in a log  *)
(* that was rotated away, before or after they were written, and those at  *)
(* the start of the next one, which it takes for lines it has counted      *)
(* (cli/events.go:246-248: "emitting only events past the last-seen        *)
(* count").                                                                *)
TailedOnce ==
    \A e \in appended :
      Cardinality({i \in 1 .. Len(tailed) : tailed[i] = e})
        + Cardinality({i \in seen + 1 .. Len(log) : log[i] = e})
        + (IF e \in missed THEN 1 ELSE 0) = 1

=============================================================================
