--------------------------- MODULE AutomationProofs ---------------------------
(***************************************************************************)
(* Proofs about Automation, for any number of daemons, commands, events    *)
(* and rules: no event is lost or dispatched twice, one daemon is up, the  *)
(* outputs of a rule are whole, and the reports are true.                  *)
(***************************************************************************)
EXTENDS Automation, SequenceTheorems, FiniteSetTheorems, WellFoundedInduction, TLAPS

(* The types.                                                              *)
Drains == {"cursor", "seed", "read", "event", "advance", "write"}
Steps == {"idle", "rotate", "rule", "fire", "outputs", "finish"} \cup Drains

LogTypes ==
    /\ clock \in Nat \ {0} /\ stamp \in Seq(Nat)
    /\ \A e \in Events : 1 <= stamp[e] /\ stamp[e] <= clock
    /\ Len(stamp) <= MaxEvents
    /\ pending \subseteq Events /\ appended = Events \ pending
    /\ log \in Seq(appended) /\ IsInjective(log)
    /\ late \subseteq appended /\ seeded \in Nat /\ seeded <= clock
    /\ stranded \subseteq Events /\ stranded \cap ToSet(log) = {}

DaemonTypes ==
    /\ status \in [Daemons -> {"never", "up", "stopping", "dead"}]
    /\ pidFile \in Daemons \cup {"none"}
    /\ cpc \in [Clis -> {"idle", "spawn", "remove", "signal", "read", "write"}]
    /\ saw \in [Clis -> Daemons \cup {"none"}]
    /\ crowded \in BOOLEAN /\ clash \in BOOLEAN
    /\ \A c \in Clis : cpc[c] \in {"signal", "write"} => saw[c] \in Daemons

CountTypes ==
    /\ counted \in [Daemons -> Nat] /\ stateFile \in Nat /\ finished \in Nat
    /\ stateFile <= finished /\ \A d \in Daemons : counted[d] <= finished

LedgerTypes ==
    /\ cursor \in Nat /\ cursor <= clock
    /\ taken \in [1 .. MaxEvents -> Nat]
    /\ \A e \in 1 .. MaxEvents : taken[e] > 0 => e \in appended

SlotTypes ==
    /\ pc \in [Slots -> Steps] /\ batch \in [Slots -> Seq(Nat)]
    /\ done \in [Slots -> SUBSET Nat] /\ from \in [Slots -> Nat]
    /\ queue \in [Slots -> Seq(DOMAIN RuleSet)]

(* What a slot holds at its step.                                          *)
SlotShape(s) ==
    /\ pc[s] # "idle" => Alive(DaemonOf(s))
    /\ pc[s] \in Drains => JobOf(s) = "dispatch"
    /\ pc[s] \in {"rotate", "rule"} => JobOf(s) # "dispatch"
    /\ pc[s] \in {"fire", "outputs"} => queue[s] # <<>>
    /\ pc[s] \notin {"event", "fire", "outputs"} => batch[s] = <<>>
    /\ pc[s] = "event" \/ (pc[s] \in {"fire", "outputs"} /\ JobOf(s) = "dispatch") => batch[s] # <<>>
    /\ pc[s] \in {"idle", "cursor", "seed", "read", "rule", "rotate"} => done[s] = {}
    /\ pc[s] = "write" => done[s] # {}
    /\ JobOf(s) # "dispatch" => batch[s] = <<>> /\ done[s] = {}
    /\ ToSet(batch[s]) \cup done[s] \subseteq appended
    /\ IsInjective(batch[s]) /\ ToSet(batch[s]) \cap done[s] = {}

Shape ==
    /\ LogTypes /\ DaemonTypes /\ CountTypes /\ LedgerTypes /\ SlotTypes
    /\ \A s \in Slots : SlotShape(s)

(* A daemon runs a job once at a time.                                     *)
OneRun == \A s, t \in Slots :
            DaemonOf(s) = DaemonOf(t) /\ JobOf(s) = JobOf(t) /\ pc[s] # "idle" /\ pc[t] # "idle" => s = t

(* What happened to an event that will not be dispatched from the log.     *)
Safe(e) ==
    \/ taken[e] > 0 \/ e \in late \cup skipped
    \/ InBatch(e) /\ e \notin ToSet(log)

Passed(t) == \A e \in appended : stamp[e] <= t => Safe(e)
Reached(t) == t <= seeded \/ \E f \in appended \ stranded : stamp[f] >= t

(* An event that the cursor, or a drain, is past is safe, or next.  One    *)
(* whose writer has an old log open will be in no drain.                   *)
LostInv ==
    /\ \A e \in appended \ ToSet(log) : Safe(e)
    /\ stranded \subseteq skipped
    /\ \A s \in Slots : (done[s] \cup ToSet(batch[s])) \cap stranded = {}
    /\ Passed(cursor) /\ Reached(cursor)
    /\ \A s \in Slots :
         /\ Passed(from[s]) /\ Reached(from[s])
         /\ \A f \in done[s] \cup ToSet(batch[s]), e \in appended :
               stamp[e] <= stamp[f] => Safe(e) \/ e \in ToSet(batch[s])

(* While one daemon lives, what was dispatched is before the cursor or in  *)
(* the drain that will move it.                                            *)
Stored(e) == taken[e] > 0 => e \in again \/ cursor = 0 \/ stamp[e] <= cursor \/ \E s \in Slots : e \in done[s]

DrainAt(s) ==
    /\ pc[s] \in {"read", "event", "advance"} \/ (pc[s] \in {"fire", "outputs"} /\ JobOf(s) = "dispatch")
         => from[s] = cursor /\ cursor # 0
    /\ pc[s] = "write" => \A e \in appended : taken[e] > 0 => e \in again \cup done[s] \/ stamp[e] <= from[s]
    /\ \A e \in ToSet(batch[s]) \cup done[s] : stamp[e] > from[s]
    /\ \A e \in ToSet(batch[s]) : taken[e] = 0 \/ e \in again
    /\ pc[s] = "finish" => \A e \in done[s] : stamp[e] <= cursor \/ e \in again

LoneInv == ~crowded => \A d, o \in Daemons : Alive(d) /\ Alive(o) => d = o

TwiceInv ==
    ~crowded =>
      /\ \A e \in appended : Stored(e) /\ (taken[e] <= 1 \/ e \in again)
      /\ \A s \in Slots : DrainAt(s)

(* One command at a time knows which daemon is up.                         *)
Up == {d \in Daemons : status[d] = "up"}

OneInv ==
    ~clash =>
      /\ \A c, o \in Clis : cpc[c] # "idle" /\ cpc[o] # "idle" => c = o
      /\ \A d, o \in Up : d = o
      /\ (\A c \in Clis : cpc[c] = "idle") => Up \subseteq {pidFile}
      /\ \A c \in Clis :
           /\ cpc[c] \in {"signal", "write"} => Up \subseteq {saw[c]}
           /\ cpc[c] \in {"spawn", "remove", "read"} => Up = {}

CountInv ==
    ~crowded => stateFile = finished /\ \A d \in Daemons : Alive(d) => counted[d] = finished

(* A rule whose outputs are next has run for the event at hand.            *)
RanInv == \A s \in Slots : pc[s] = "outputs" => <<Head(queue[s]), Event(s)>> \in ran

OutputInv == OutputsWhole /\ fired \subseteq ran /\ RanInv

(* What the follower has yet to show.                                      *)
Ahead == {log[i] : i \in seen + 1 .. Len(log)}

TailInv ==
    /\ seen \in Nat /\ tailed \in Seq(appended) /\ IsInjective(tailed)
    /\ missed \subseteq appended \cup stranded /\ stranded \subseteq missed
    /\ ToSet(tailed) \cap missed = {} /\ Ahead \cap (ToSet(tailed) \cup missed) = {}
    /\ appended \subseteq ToSet(tailed) \cup missed \cup Ahead

-----------------------------------------------------------------------------
(* Sublists and maxima.                                                    *)

LEMMA LargestOf ==
  ASSUME NEW S \in SUBSET Nat, S # {}, NEW n \in Nat, \A x \in S : x <= n
  PROVE  \E x \in S : \A y \in S : y <= x
  <1> DEFINE T == {n - x : x \in S}
             R == {p \in Nat \X Nat : p[1] < p[2]}
  <1>1. T \subseteq Nat /\ T # {}
    <2>1. \A x \in S : n - x \in Nat
      OBVIOUS
    <2>2. QED
      BY <2>1
  <1>2. \E t \in T : \A u \in T : ~(<<u, t>> \in R)
    <2>1. IsWellFoundedOn(R, Nat)
      BY NatLessThanWellFounded DEF OpToRel
    <2> HIDE DEF T, R
    <2>2. QED
      BY <1>1, <2>1, WFMin
  <1>3. PICK t \in T : \A u \in T : ~(u < t)
    BY <1>1, <1>2
  <1>4. PICK x \in S : t = n - x
    OBVIOUS
  <1>5. ASSUME NEW y \in S
        PROVE  y <= x
    <2>1. ~(n - y < n - x)
      BY <1>3, <1>4
    <2>2. QED
      BY <2>1
  <1>6. QED
    BY <1>5

LEMMA PlaceIsNat ==
  ASSUME NEW K, IsFiniteSet(K), NEW i
  PROVE  Place(i, K) \in Nat /\ Place(i, K) <= Cardinality(K)
  BY FS_Subset, FS_CardinalityType DEF Place

(* Places are counted up.                                                  *)
LEMMA PlaceGrows ==
  ASSUME NEW K \in SUBSET Nat, IsFiniteSet(K), NEW i \in K, NEW j \in K, i < j
  PROVE  Place(i, K) < Place(j, K)
  <1> DEFINE A == {k \in K : k <= i}
             B == {k \in K : k <= j}
  <1>1. A \in SUBSET B /\ A # B /\ B \in SUBSET K
    <2>1. i \in Nat /\ j \in Nat /\ j \in B /\ j \notin A
      OBVIOUS
    <2>2. \A k \in K : k \in Nat /\ (k <= i => k <= j)
      BY <2>1
    <2>3. QED
      BY <2>1, <2>2
  <1>2. IsFiniteSet(B) /\ Cardinality(A) <= Cardinality(B) /\ Cardinality(A) # Cardinality(B)
    <2> HIDE DEF A, B
    <2>1. IsFiniteSet(B)
      BY <1>1, FS_Subset
    <2>2. QED
      BY <1>1, <2>1, FS_Subset
  <1>3. Cardinality(A) \in Nat /\ Cardinality(B) \in Nat
    BY PlaceIsNat DEF Place
  <1>4. QED
    BY <1>2, <1>3 DEF Place

LEMMA PlacesAreAll ==
  ASSUME NEW K \in SUBSET Nat, IsFiniteSet(K)
  PROVE  /\ Cardinality(K) \in Nat
         /\ \A i \in K : Place(i, K) \in 1 .. Cardinality(K)
         /\ \A i, j \in K : Place(i, K) = Place(j, K) => i = j
         /\ \A k \in 1 .. Cardinality(K) : \E i \in K : Place(i, K) = k
  <1> DEFINE n == Cardinality(K)
             f == [i \in K |-> Place(i, K)]
  <1>1. n \in Nat
    BY FS_CardinalityType
  <1>2. ASSUME NEW i \in K
        PROVE  Place(i, K) \in 1 .. n
    <2>1. {j \in K : j <= i} # {} /\ IsFiniteSet({j \in K : j <= i})
      <3>1. IsFiniteSet({j \in K : j <= i})
        BY FS_Subset
      <3>2. QED
        BY <3>1
    <2>2. Place(i, K) # 0
      BY <2>1, FS_EmptySet DEF Place
    <2>3. QED
      BY <1>1, <2>2, PlaceIsNat
  <1>3. ASSUME NEW i \in K, NEW j \in K, Place(i, K) = Place(j, K)
        PROVE  i = j
    <2>1. Place(i, K) \in Nat
      BY PlaceIsNat
    <2>2. ~(i < j) /\ ~(j < i)
      BY <1>3, <2>1, PlaceGrows
    <2>3. QED
      BY <2>2
  <1>4. f \in Injection(K, 1 .. n)
    BY <1>2, <1>3 DEF Injection, IsInjective
  <1>5. IsFiniteSet(1 .. n) /\ Cardinality(1 .. n) = n
    BY <1>1, FS_Interval
  <1>6. f \in Surjection(K, 1 .. n)
    <2> HIDE DEF f, n
    <2>1. Cardinality(K) = Cardinality(1 .. n)
      BY <1>5 DEF n
    <2>2. QED
      BY <1>4, <1>5, <2>1, FS_Injection
  <1>7. \A k \in 1 .. n : \E i \in K : Place(i, K) = k
    BY <1>6 DEF Surjection
  <1>8. QED
    BY <1>1, <1>2, <1>3, <1>7

LEMMA SublistIs ==
  ASSUME NEW T, NEW s \in Seq(T), NEW S
  PROVE  /\ Sublist(s, S) \in Seq(T)
         /\ ToSet(Sublist(s, S)) = ToSet(s) \cap S
         /\ IsInjective(s) => IsInjective(Sublist(s, S))
  <1> DEFINE K == {i \in DOMAIN s : s[i] \in S}
             n == Cardinality(K)
             at(k) == CHOOSE i \in K : Place(i, K) = k
  <1>1. DOMAIN s = 1 .. Len(s) /\ Len(s) \in Nat /\ \A i \in DOMAIN s : s[i] \in T
    BY LenProperties, ElementOfSeq
  <1>2. K \in SUBSET Nat /\ IsFiniteSet(K)
    <2>1. IsFiniteSet(1 .. Len(s))
      BY <1>1, FS_Interval
    <2>2. K \in SUBSET (1 .. Len(s))
      BY <1>1
    <2>3. IsFiniteSet(K)
      <3> HIDE DEF K
      <3>1. QED
        BY <2>1, <2>2, FS_Subset
    <2>4. QED
      BY <1>1, <2>3
  <1>3. /\ n \in Nat
        /\ \A i \in K : Place(i, K) \in 1 .. n
        /\ \A i, j \in K : Place(i, K) = Place(j, K) => i = j
        /\ \A k \in 1 .. n : \E i \in K : Place(i, K) = k
    <2> HIDE DEF K
    <2>1. QED
      BY <1>2, PlacesAreAll
  <1>4. \A k \in 1 .. n : at(k) \in K /\ Place(at(k), K) = k
    <2> HIDE DEF K
    <2>1. QED
      BY <1>3
  <1>5. Sublist(s, S) = [k \in 1 .. n |-> s[at(k)]]
    BY DEF Sublist
  <1>6. \A k \in K : k \in DOMAIN s /\ s[k] \in S
    OBVIOUS
  <1>7. \A k \in DOMAIN s : s[k] \in S => k \in K
    OBVIOUS
  <1> HIDE DEF K, n, at
  <1>8. Sublist(s, S) \in Seq(T)
    BY <1>1, <1>3, <1>4, <1>5, <1>6
  <1>9. ToSet(Sublist(s, S)) = ToSet(s) \cap S
    <2>1. ASSUME NEW k \in 1 .. n
          PROVE  s[at(k)] \in ToSet(s) \cap S
      BY <1>4, <1>6 DEF ToSet
    <2>2. ASSUME NEW e \in ToSet(s) \cap S
          PROVE  \E k \in 1 .. n : s[at(k)] = e
      <3>1. PICK i \in DOMAIN s : s[i] = e
        BY DEF ToSet
      <3>2. i \in K
        BY <1>7, <3>1
      <3>3. Place(i, K) \in 1 .. n /\ at(Place(i, K)) = i
        BY <1>3, <1>4, <3>2
      <3>4. QED
        BY <3>1, <3>3
    <2>3. DOMAIN Sublist(s, S) = 1 .. n /\ \A k \in 1 .. n : Sublist(s, S)[k] = s[at(k)]
      BY <1>5
    <2>4. QED
      BY <2>1, <2>2, <2>3 DEF ToSet
  <1>10. ASSUME IsInjective(s)
         PROVE  IsInjective(Sublist(s, S))
    <2>1. ASSUME NEW k \in 1 .. n, NEW l \in 1 .. n, s[at(k)] = s[at(l)]
          PROVE  k = l
      <3>1. at(k) = at(l)
        BY <1>4, <1>6, <1>10, <2>1 DEF IsInjective
      <3>2. QED
        BY <1>4, <3>1
    <2>2. DOMAIN Sublist(s, S) = 1 .. n /\ \A k \in 1 .. n : Sublist(s, S)[k] = s[at(k)]
      BY <1>5
    <2>3. QED
      BY <2>1, <2>2 DEF IsInjective
  <1>11. QED
    BY <1>8, <1>9, <1>10

-----------------------------------------------------------------------------
(* The log.                                                                *)

LEMMA StampFacts ==
  ASSUME LogTypes
  PROVE  /\ Len(stamp) \in Nat /\ Events = 1 .. Len(stamp) /\ Events \subseteq Nat
         /\ appended \subseteq Events /\ ToSet(log) \subseteq appended
         /\ \A e \in Events : stamp[e] \in Nat /\ stamp[e] >= 1
         /\ Events \subseteq 1 .. MaxEvents
  <1>1. Len(stamp) \in Nat /\ DOMAIN stamp = 1 .. Len(stamp) /\ \A e \in 1 .. Len(stamp) : stamp[e] \in Nat
    BY LenProperties, ElementOfSeq DEF LogTypes
  <1>2. ToSet(log) \subseteq appended
    BY ElementOfSeq DEF LogTypes, ToSet
  <1>3. QED
    BY <1>1, <1>2, EventLogAssumption DEF LogTypes, Events

(* A line that is new.                                                     *)
LEMMA AppendedType ==
  ASSUME NEW T, NEW s \in Seq(T), NEW e
  PROVE  s \in Seq(T \cup {e}) /\ Append(s, e) \in Seq(T \cup {e})
  <1>1. Len(s) \in Nat /\ DOMAIN s = 1 .. Len(s) /\ \A i \in 1 .. Len(s) : s[i] \in T
    BY LenProperties, ElementOfSeq
  <1>2. s \in Seq(T \cup {e})
    BY <1>1
  <1>3. QED
    BY <1>2, AppendProperties

LEMMA AppendedLine ==
  ASSUME NEW T, NEW s \in Seq(T), NEW e
  PROVE  /\ Len(Append(s, e)) = Len(s) + 1
         /\ ToSet(Append(s, e)) = ToSet(s) \cup {e}
         /\ \A i \in 1 .. Len(s) : Append(s, e)[i] = s[i]
         /\ Append(s, e)[Len(s) + 1] = e
         /\ IsInjective(s) /\ e \notin ToSet(s) => IsInjective(Append(s, e))
  <1> DEFINE q == Append(s, e)
  <1>1. Len(s) \in Nat /\ DOMAIN s = 1 .. Len(s) /\ s \in Seq(T \cup {e})
    BY LenProperties, AppendedType
  <1>2. /\ q \in Seq(T \cup {e}) /\ Len(q) = Len(s) + 1 /\ DOMAIN q = 1 .. Len(s) + 1
        /\ \A i \in 1 .. Len(s) : q[i] = s[i]
        /\ q[Len(s) + 1] = e
    BY <1>1, AppendedType, AppendProperties, LenProperties
  <1> HIDE DEF q
  <1>3. \A i \in DOMAIN q : (i \in DOMAIN s /\ q[i] = s[i]) \/ (i = Len(s) + 1 /\ q[i] = e)
    BY <1>1, <1>2
  <1>4. ToSet(q) = ToSet(s) \cup {e}
    BY <1>1, <1>2, <1>3 DEF ToSet
  <1>5. ASSUME IsInjective(s), e \notin ToSet(s)
        PROVE  IsInjective(q)
    BY <1>1, <1>3, <1>5 DEF IsInjective, ToSet
  <1>6. QED
    BY <1>2, <1>4, <1>5 DEF q

LEMMA EmptyLog == IsInjective(<<>>) /\ ToSet(<<>>) = {} /\ \A T : <<>> \in Seq(T)
  BY DEF IsInjective, ToSet

LEMMA LogTypesPreserved ==
  ASSUME LogTypes, [Next]_vars
  PROVE  LogTypes'
  <1>1. ASSUME UNCHANGED logVars
        PROVE  LogTypes'
    BY <1>1 DEF LogTypes, logVars, Events
  <1>2. CASE TakeStamp
    <2>1. PICK now \in clock .. clock + 1 : clock' = now /\ stamp' = Append(stamp, now)
      BY <1>2 DEF TakeStamp
    <2>2. /\ now \in Nat /\ clock <= now /\ now # 0 /\ Len(stamp) \in Nat /\ Events = 1 .. Len(stamp)
          /\ stamp \in Seq(Nat) /\ clock \in Nat
      BY StampFacts DEF LogTypes
    <2>3. stamp' \in Seq(Nat) /\ Len(stamp') = Len(stamp) + 1
      BY <2>1, <2>2, AppendProperties
    <2>4. stamp'[Len(stamp) + 1] = now /\ \A e \in Events : stamp'[e] = stamp[e]
      BY <2>1, <2>2, AppendProperties
    <2>5. Events' = Events \cup {Len(stamp) + 1} /\ Len(stamp) + 1 \notin Events
      BY <2>2, <2>3 DEF Events
    <2>6. Len(stamp') <= MaxEvents
      BY <1>2, <2>2, <2>3, EventLogAssumption DEF TakeStamp
    <2>7. /\ pending' = pending \cup {Len(stamp) + 1} /\ UNCHANGED <<log, stranded, appended, late, seeded>>
      BY <1>2 DEF TakeStamp
    <2>8. pending' \subseteq Events' /\ appended' = Events' \ pending'
      BY <2>5, <2>7 DEF LogTypes
    <2>9. \A e \in Events' : 1 <= stamp'[e] /\ stamp'[e] <= clock'
      <3>1. \A e \in Events : stamp[e] \in Nat /\ 1 <= stamp[e] /\ stamp[e] <= clock
        BY StampFacts DEF LogTypes
      <3>2. QED
        BY <2>1, <2>2, <2>4, <2>5, <3>1
    <2>10. stranded' \subseteq Events' /\ stranded' \cap ToSet(log') = {}
      BY <2>5, <2>7 DEF LogTypes
    <2>11. log' \in Seq(appended') /\ IsInjective(log') /\ late' \subseteq appended'
           /\ seeded' \in Nat /\ seeded' <= clock'
      BY <2>1, <2>2, <2>7 DEF LogTypes
    <2>12. QED
      BY <2>1, <2>2, <2>3, <2>6, <2>8, <2>9, <2>10, <2>11 DEF LogTypes
  <1>3. ASSUME NEW e \in pending, AppendLine(e)
        PROVE  LogTypes'
    <2>1. /\ log' = log \/ (log' = Append(log, e) /\ e \notin stranded)
          /\ appended' = appended \cup {e} /\ pending' = pending \ {e}
          /\ UNCHANGED <<clock, stamp, stranded, seeded>> /\ late' \subseteq late \cup {e}
      BY <1>3 DEF AppendLine
    <2>2. e \notin ToSet(log) /\ e \in Events
      BY StampFacts DEF LogTypes
    <2>3. log' \in Seq(appended') /\ IsInjective(log') /\ stranded' \cap ToSet(log') = {}
      <3>1. log \in Seq(appended) /\ IsInjective(log)
        BY DEF LogTypes
      <3>2. Append(log, e) \in Seq(appended \cup {e})
        BY <3>1, AppendedType
      <3>3. IsInjective(Append(log, e)) /\ ToSet(Append(log, e)) = ToSet(log) \cup {e}
        BY <2>2, <3>1, AppendedLine
      <3>4. log \in Seq(appended \cup {e})
        BY <3>1, AppendedType
      <3>5. stranded \cap ToSet(log) = {}
        BY DEF LogTypes
      <3>6. QED
        BY <2>1, <3>1, <3>2, <3>3, <3>4, <3>5
    <2>4. appended' = Events' \ pending' /\ pending' \subseteq Events'
      BY <2>1, <2>2 DEF LogTypes, Events
    <2>5. QED
      BY <2>1, <2>3, <2>4 DEF LogTypes, Events
  <1>4. CASE LogStep
    <2>1. CASE Follow
      BY <1>1, <2>1 DEF Follow
    <2>2. QED
      BY <1>2, <1>3, <1>4, <2>1 DEF LogStep
  <1>5. ASSUME NEW s \in Slots, Seed(s)
        PROVE  LogTypes'
    BY <1>5 DEF Seed, LogTypes, Events
  <1>6. ASSUME NEW s \in Slots, Rotate(s)
        PROVE  LogTypes'
    <2>1. /\ log' = <<>> \/ log' = log
          /\ stranded' \subseteq stranded \cup pending
          /\ UNCHANGED <<clock, stamp, pending, appended, late, seeded>>
      BY <1>6 DEF Rotate, RotateIfLarge
    <2>2. stranded' \subseteq Events /\ stranded' \cap ToSet(log') = {}
      BY <2>1, EmptyLog, StampFacts DEF LogTypes
    <2>3. QED
      BY <2>1, <2>2, EmptyLog DEF LogTypes, Events
  <1>7. ASSUME NEW s \in Slots, JobStep(s)
        PROVE  LogTypes'
    <2>1. CASE ReadCursor(s) \/ ReadEvents(s) \/ DispatchNone(s) \/ fire(s) \/ Apply(s)
      BY <1>1, <2>1 DEF ReadCursor, ReadEvents, DispatchNone, fire, Apply
    <2>2. CASE TruncateCursor(s) \/ WriteCursor(s) \/ StartRule(s) \/ Finish(s)
      BY <1>1, <2>2 DEF TruncateCursor, WriteCursor, StartRule, Finish
    <2>3. QED
      BY <1>5, <1>6, <1>7, <2>1, <2>2 DEF JobStep
  <1>8. CASE \E c \in Clis : CliStep(c)
    BY <1>1, <1>8 DEF CliStep
  <1>9. CASE \E d \in Daemons : Exit(d) \/ Crash(d) \/ \E j \in Jobs : invoke(d, j)
    BY <1>1, <1>9 DEF Exit, Crash, invoke
  <1>10. CASE UNCHANGED vars
    BY <1>1, <1>10 DEF vars
  <1>11. QED
    BY <1>4, <1>7, <1>8, <1>9, <1>10 DEF Next

-----------------------------------------------------------------------------
(* The slots.                                                              *)

LEMMA RulesTyped ==
  /\ DOMAIN RuleSet = 1 .. Len(RuleSet) /\ Len(RuleSet) \in Nat
  /\ \A type : Rules(type) \in Seq(DOMAIN RuleSet)
  /\ \A r \in DOMAIN RuleSet : RuleSet[r].write \in Seq(SUBSET STRING)
  <1>1. DOMAIN RuleSet = 1 .. Len(RuleSet) /\ Len(RuleSet) \in Nat
    BY RulesAssumption, LenProperties
  <1>2. [r \in DOMAIN RuleSet |-> r] \in Seq(DOMAIN RuleSet)
    BY <1>1
  <1>3. \A type : Rules(type) \in Seq(DOMAIN RuleSet)
    BY <1>2, SublistIs DEF Rules
  <1>4. \A r \in DOMAIN RuleSet : RuleSet[r].write \in Seq(SUBSET STRING)
    <2> TAKE r \in DOMAIN RuleSet
    <2>1. RuleSet[r] \in Rule
      BY <1>1, RulesAssumption, ElementOfSeq
    <2>2. QED
      BY <2>1 DEF Rule
  <1>5. QED
    BY <1>1, <1>3, <1>4

LEMMA AfterIs ==
  ASSUME LogTypes, SlotTypes, NEW s \in Slots
  PROVE  /\ After(s) \in Seq(appended) /\ IsInjective(After(s))
         /\ ToSet(After(s)) = {e \in ToSet(log) : stamp[e] > from[s]}
  <1> DEFINE since == {e \in Events : stamp[e] >= from[s]}
             past == {e \in Events : stamp[e] > from[s]}
  <1>1. from[s] \in Nat /\ log \in Seq(appended) /\ IsInjective(log)
    BY DEF SlotTypes, LogTypes
  <1>2. /\ ReadSince(from[s]) \in Seq(appended) /\ IsInjective(ReadSince(from[s]))
        /\ ToSet(ReadSince(from[s])) = ToSet(log) \cap since
    <2> HIDE DEF since
    <2>1. ReadSince(from[s]) = Sublist(log, since)
      BY DEF ReadSince, ReadAll, since
    <2>2. QED
      BY <1>1, <2>1, SublistIs
  <1>3. /\ After(s) \in Seq(appended) /\ IsInjective(After(s))
        /\ ToSet(After(s)) = ToSet(log) \cap since \cap past
    <2> HIDE DEF since, past
    <2>1. After(s) = Sublist(ReadSince(from[s]), past)
      BY DEF After, past
    <2>2. QED
      BY <1>2, <2>1, SublistIs
  <1>4. \A e \in ToSet(log) : e \in since /\ e \in past <=> stamp[e] > from[s]
    BY <1>1, StampFacts
  <1>5. QED
    BY <1>3, <1>4

SlotSame(t) ==
    /\ pc'[t] = pc[t] /\ batch'[t] = batch[t] /\ done'[t] = done[t]
    /\ from'[t] = from[t] /\ queue'[t] = queue[t]

(* The slot is at its next event, or at the end of its drain.              *)
Begun(s, rest) ==
    /\ batch'[s] = rest
    /\ rest = <<>> => pc'[s] = "advance"
    /\ rest # <<>> => pc'[s] = "event" \/ (pc'[s] = "fire" /\ queue'[s] # <<>>)

LEMMA BeginEffect ==
  ASSUME SlotTypes, NEW s \in Slots, NEW rest \in Seq(Nat), Begin(s, rest)
  PROVE  /\ pc' \in [Slots -> Steps] /\ batch' \in [Slots -> Seq(Nat)]
         /\ queue' \in [Slots -> Seq(DOMAIN RuleSet)]
         /\ \A t \in Slots \ {s} : pc'[t] = pc[t] /\ batch'[t] = batch[t] /\ queue'[t] = queue[t]
         /\ Begun(s, rest)
  <1> DEFINE rules == IF rest = <<>> THEN <<>> ELSE Rules(Type(Head(rest)))
             step == IF rest = <<>> THEN "advance" ELSE IF rules = <<>> THEN "event" ELSE "fire"
  <1>1. rules \in Seq(DOMAIN RuleSet)
    BY RulesTyped
  <1>2. /\ batch' = [batch EXCEPT ![s] = rest] /\ queue' = [queue EXCEPT ![s] = rules]
        /\ pc' = [pc EXCEPT ![s] = step]
    BY DEF Begin, Goto
  <1> HIDE DEF rules
  <1>3. step \in Steps
    BY DEF Steps, Drains
  <1>4. QED
    BY <1>1, <1>2, <1>3 DEF SlotTypes, Begun

LEMMA TailIs ==
  ASSUME NEW T, NEW q \in Seq(T), q # <<>>
  PROVE  /\ Tail(q) \in Seq(T) /\ Head(q) \in T
         /\ ToSet(q) = {Head(q)} \cup ToSet(Tail(q))
         /\ IsInjective(q) => IsInjective(Tail(q)) /\ Head(q) \notin ToSet(Tail(q))
  <1>1. Len(q) \in Nat \ {0} /\ DOMAIN q = 1 .. Len(q) /\ Head(q) = q[1]
    BY LenProperties, EmptySeq, HeadTailProperties
  <1>2. /\ Tail(q) \in Seq(T) /\ Head(q) \in T /\ DOMAIN Tail(q) = 1 .. Len(q) - 1
        /\ \A i \in 1 .. Len(q) - 1 : Tail(q)[i] = q[i + 1]
    BY <1>1, HeadTailProperties, LenProperties
  <1>3. ToSet(q) = {Head(q)} \cup ToSet(Tail(q))
    <2>1. ASSUME NEW i \in DOMAIN q
          PROVE  q[i] \in {Head(q)} \cup ToSet(Tail(q))
      <3>1. CASE i = 1
        BY <1>1, <3>1
      <3>2. CASE i # 1
        <4>1. i - 1 \in 1 .. Len(q) - 1 /\ (i - 1) + 1 = i
          BY <1>1, <3>2
        <4>2. QED
          BY <1>2, <4>1 DEF ToSet
      <3>3. QED
        BY <3>1, <3>2
    <2>2. ASSUME NEW i \in DOMAIN Tail(q)
          PROVE  Tail(q)[i] \in ToSet(q)
      <3>1. i + 1 \in DOMAIN q
        BY <1>1, <1>2
      <3>2. QED
        BY <1>2, <3>1 DEF ToSet
    <2>3. Head(q) \in ToSet(q)
      BY <1>1 DEF ToSet
    <2>4. QED
      BY <2>1, <2>2, <2>3 DEF ToSet
  <1>4. ASSUME IsInjective(q)
        PROVE  IsInjective(Tail(q)) /\ Head(q) \notin ToSet(Tail(q))
    <2>1. \A i, j \in DOMAIN q : q[i] = q[j] => i = j
      BY <1>4 DEF IsInjective
    <2>2. \A i \in DOMAIN Tail(q) : i \in Nat /\ i + 1 \in DOMAIN q /\ i + 1 # 1 /\ Tail(q)[i] = q[i + 1]
      BY <1>1, <1>2
    <2>3. ASSUME NEW i \in DOMAIN Tail(q), NEW j \in DOMAIN Tail(q), Tail(q)[i] = Tail(q)[j]
          PROVE  i = j
      <3>1. i + 1 = j + 1
        BY <2>1, <2>2, <2>3
      <3>2. QED
        BY <2>2, <3>1
    <2>4. 1 \in DOMAIN q
      BY <1>1
    <2>5. Head(q) \notin ToSet(Tail(q))
      BY <1>1, <2>1, <2>2, <2>4 DEF ToSet
    <2>6. QED
      BY <2>3, <2>5 DEF IsInjective
  <1>5. QED
    BY <1>2, <1>3, <1>4

(* The drain goes on to its next event, or to its end.                     *)
Turned(s) ==
    /\ pc[s] \in {"event", "fire", "outputs"} /\ JobOf(s) = "dispatch"
    /\ Begun(s, Tail(batch[s]))
    /\ done'[s] = done[s] \cup {Head(batch[s])}
    /\ taken' = [taken EXCEPT ![Head(batch[s])] = @ + 1]
    /\ UNCHANGED <<logVars, tail, from, cursor, again, skipped, daemonVars, cliVars, counts>>

(* A rule is under way, or the one rule of a ticker is over.               *)
Stayed(s) ==
    /\ pc[s] \in {"rule", "fire", "outputs"} /\ pc'[s] \in {"fire", "outputs", "finish"}
    /\ JobOf(s) = "dispatch" => pc'[s] # "finish"
    /\ pc'[s] # "finish" => queue'[s] # <<>>
    /\ UNCHANGED <<logVars, tail, batch, done, from, cursor, ledger, daemonVars, cliVars, counts>>

HeadTyped(s) == pc[s] \in {"event", "fire", "outputs"} /\ JobOf(s) = "dispatch" =>
                  batch[s] # <<>> /\ Head(batch[s]) \in appended /\ Head(batch[s]) \in 1 .. MaxEvents

LEMMA HeadFacts ==
  ASSUME Shape, NEW s \in Slots
  PROVE  HeadTyped(s)
  <1>1. LogTypes /\ SlotTypes /\ SlotShape(s)
    BY DEF Shape
  <1>2. ASSUME batch[s] # <<>>
        PROVE  Head(batch[s]) \in appended /\ Head(batch[s]) \in 1 .. MaxEvents
    <2>1. Head(batch[s]) \in ToSet(batch[s])
      BY <1>1, <1>2, TailIs DEF SlotTypes
    <2>2. QED
      BY <1>1, <2>1, StampFacts DEF SlotShape
  <1>3. QED
    BY <1>1, <1>2 DEF HeadTyped, SlotShape

(* The types of the slots, and of the rest, after a step of s.             *)
SlotStep(s) == SlotTypes' /\ taken' \in [1 .. MaxEvents -> Nat] /\ \A t \in Slots \ {s} : SlotSame(t)

LEMMA EventOverEffect ==
  ASSUME Shape, NEW s \in Slots, pc[s] \in {"event", "fire", "outputs"}, JobOf(s) = "dispatch",
         EventOver(s), UNCHANGED from
  PROVE  /\ SlotStep(s) /\ Begun(s, Tail(batch[s]))
         /\ done'[s] = done[s] \cup {Head(batch[s])}
         /\ taken' = [taken EXCEPT ![Head(batch[s])] = @ + 1]
  <1>1. SlotTypes /\ LedgerTypes /\ batch[s] # <<>> /\ Head(batch[s]) \in 1 .. MaxEvents
    BY HeadFacts DEF Shape, HeadTyped
  <1>2. Tail(batch[s]) \in Seq(Nat) /\ Head(batch[s]) \in Nat
    BY <1>1, TailIs DEF SlotTypes
  <1>3. /\ Begin(s, Tail(batch[s]))
        /\ done' = [done EXCEPT ![s] = @ \cup {Head(batch[s])}]
        /\ taken' = [taken EXCEPT ![Head(batch[s])] = @ + 1]
    BY DEF EventOver
  <1>4. /\ pc' \in [Slots -> Steps] /\ batch' \in [Slots -> Seq(Nat)]
        /\ queue' \in [Slots -> Seq(DOMAIN RuleSet)]
        /\ \A t \in Slots \ {s} : pc'[t] = pc[t] /\ batch'[t] = batch[t] /\ queue'[t] = queue[t]
        /\ Begun(s, Tail(batch[s]))
    BY <1>1, <1>2, <1>3, BeginEffect
  <1>5. done' \in [Slots -> SUBSET Nat] /\ done'[s] = done[s] \cup {Head(batch[s])}
        /\ \A t \in Slots \ {s} : done'[t] = done[t]
    BY <1>1, <1>2, <1>3 DEF SlotTypes
  <1>6. taken' \in [1 .. MaxEvents -> Nat]
    BY <1>1, <1>3 DEF LedgerTypes
  <1>7. SlotTypes'
    BY <1>1, <1>4, <1>5 DEF SlotTypes
  <1>8. \A t \in Slots \ {s} : SlotSame(t)
    BY <1>4, <1>5 DEF SlotSame
  <1>9. QED
    BY <1>3, <1>4, <1>5, <1>6, <1>7, <1>8 DEF SlotStep

(* Nothing but the queue and the step of s changes.                        *)
LEMMA QueueEffect ==
  ASSUME SlotTypes, LedgerTypes, NEW s \in Slots, UNCHANGED <<batch, done, from, taken>>,
         NEW q \in Seq(DOMAIN RuleSet), queue' = [queue EXCEPT ![s] = q],
         NEW step \in Steps, Goto(s, step)
  PROVE  SlotStep(s) /\ pc'[s] = step /\ queue'[s] = q
  <1>1. pc' \in [Slots -> Steps] /\ pc'[s] = step /\ \A t \in Slots \ {s} : pc'[t] = pc[t]
    BY DEF SlotTypes, Goto
  <1>2. queue' \in [Slots -> Seq(DOMAIN RuleSet)] /\ queue'[s] = q /\ \A t \in Slots \ {s} : queue'[t] = queue[t]
    BY DEF SlotTypes
  <1>3. QED
    BY <1>1, <1>2 DEF SlotTypes, SlotStep, SlotSame, LedgerTypes

LEMMA SameQueue ==
  ASSUME SlotTypes, NEW s \in Slots, UNCHANGED queue
  PROVE  queue[s] \in Seq(DOMAIN RuleSet) /\ queue' = [queue EXCEPT ![s] = queue[s]]
  BY DEF SlotTypes

RestOfRule == UNCHANGED <<logVars, tail, from, cursor, again, skipped, daemonVars, cliVars, counts>>

LEMMA RuleOverEffect ==
  ASSUME Shape, NEW s \in Slots, pc[s] \in {"fire", "outputs"}, RuleOver(s), RestOfRule
  PROVE  SlotStep(s) /\ (Turned(s) \/ Stayed(s)) /\ pc'[s] # "outputs"
  <1>1. SlotTypes /\ LedgerTypes /\ queue[s] \in Seq(DOMAIN RuleSet) /\ queue[s] # <<>>
    BY DEF Shape, SlotTypes, SlotShape
  <1>2. UNCHANGED from
    BY Zenon DEF RestOfRule
  <1>3. CASE Len(queue[s]) > 1
    <2>1. queue' = [queue EXCEPT ![s] = Tail(@)] /\ Goto(s, "fire") /\ UNCHANGED <<batch, done, taken>>
      BY <1>3 DEF RuleOver
    <2>2. Tail(queue[s]) \in Seq(DOMAIN RuleSet) /\ Tail(queue[s]) # <<>>
      <3>1. Len(Tail(queue[s])) = Len(queue[s]) - 1 /\ Tail(queue[s]) \in Seq(DOMAIN RuleSet)
        BY <1>1, HeadTailProperties
      <3>2. Len(queue[s]) \in Nat /\ Len(<<>>) = 0
        BY <1>1, LenProperties
      <3>3. \A n \in Nat : n > 1 => n - 1 # 0
        OBVIOUS
      <3>4. QED
        BY <1>3, <3>1, <3>2, <3>3, Zenon
    <2>3. "fire" \in Steps
      BY DEF Steps
    <2>4. SlotStep(s) /\ pc'[s] = "fire" /\ queue'[s] = Tail(queue[s])
      BY <1>1, <1>2, <2>1, <2>2, <2>3, QueueEffect
    <2>5. Stayed(s)
      <3>1. queue'[s] # <<>> /\ pc'[s] = "fire" /\ pc[s] \in {"fire", "outputs"}
        BY <2>2, <2>4
      <3>2. QED
        BY <1>2, <2>1, <3>1, Zenon DEF Stayed, RestOfRule, ledger
    <2>6. QED
      BY <2>4, <2>5
  <1>4. CASE ~(Len(queue[s]) > 1) /\ JobOf(s) = "dispatch"
    <2>1. EventOver(s)
      BY <1>4 DEF RuleOver
    <2>2. /\ SlotStep(s) /\ Begun(s, Tail(batch[s]))
          /\ done'[s] = done[s] \cup {Head(batch[s])}
          /\ taken' = [taken EXCEPT ![Head(batch[s])] = @ + 1]
      BY <1>2, <1>4, <2>1, EventOverEffect
    <2>3. Turned(s)
      BY <1>4, <2>2, Zenon DEF Turned, RestOfRule
    <2>4. QED
      BY <2>2, <2>3 DEF Begun
  <1>5. CASE ~(Len(queue[s]) > 1) /\ JobOf(s) # "dispatch"
    <2>1. Goto(s, "finish") /\ UNCHANGED <<batch, done, queue, taken>>
      BY <1>5 DEF RuleOver
    <2>2. "finish" \in Steps
      BY DEF Steps
    <2>3. SlotStep(s) /\ pc'[s] = "finish"
      BY <1>1, <1>2, <2>1, <2>2, SameQueue, QueueEffect
    <2>4. Stayed(s)
      BY <1>2, <1>5, <2>1, <2>3, Zenon DEF Stayed, RestOfRule, ledger
    <2>5. QED
      BY <2>3, <2>4
  <1>6. QED
    BY <1>3, <1>4, <1>5

LEMMA FireEffect ==
  ASSUME Shape, NEW s \in Slots, fire(s)
  PROVE  /\ SlotStep(s) /\ (Turned(s) \/ Stayed(s)) /\ UNCHANGED <<fired, applied>>
         /\ \/ ran' = ran /\ pc'[s] # "outputs"
            \/ /\ ran' = ran \cup {<<Head(queue[s]), Event(s)>>}
               /\ UNCHANGED <<batch, queue>>
  <1>1. pc[s] = "fire" /\ RestOfRule /\ UNCHANGED <<fired, applied>>
    BY Zenon DEF fire, RestOfRule, drainOnly
  <1>2. SlotTypes /\ LedgerTypes /\ queue[s] # <<>>
    BY <1>1 DEF Shape, SlotShape
  <1>3. CASE RuleOver(s) /\ UNCHANGED ran
    BY <1>1, <1>3, RuleOverEffect
  <1>4. CASE /\ ran' = ran \cup {<<Head(queue[s]), Event(s)>>}
             /\ Goto(s, "outputs") /\ UNCHANGED <<batch, done, queue, taken>>
    <2>1. "outputs" \in Steps
      BY DEF Steps
    <2>2. UNCHANGED from
      BY <1>1, Zenon DEF RestOfRule
    <2>3. SlotStep(s) /\ pc'[s] = "outputs"
      BY <1>2, <1>4, <2>1, <2>2, SameQueue, QueueEffect
    <2>4. Stayed(s)
      BY <1>1, <1>2, <1>4, <2>3, Zenon DEF Stayed, RestOfRule, ledger
    <2>5. QED
      BY <1>1, <1>4, <2>3, <2>4
  <1>5. QED
    BY <1>3, <1>4, Zenon DEF fire

LEMMA ApplyEffect ==
  ASSUME Shape, NEW s \in Slots, Apply(s)
  PROVE  SlotStep(s) /\ (Turned(s) \/ Stayed(s)) /\ pc'[s] # "outputs"
  <1>1. pc[s] = "outputs" /\ RestOfRule /\ RuleOver(s)
    BY Zenon DEF Apply, RestOfRule, drainOnly
  <1>2. QED
    BY <1>1, RuleOverEffect

LEMMA StartRuleEffect ==
  ASSUME Shape, NEW s \in Slots, StartRule(s)
  PROVE  SlotStep(s) /\ Stayed(s) /\ pc'[s] = "fire" /\ UNCHANGED ruleVars
  <1>1. /\ pc[s] = "rule" /\ RestOfRule /\ Goto(s, "fire") /\ UNCHANGED <<batch, done, taken>>
        /\ UNCHANGED ruleVars
    BY Zenon DEF StartRule, RestOfRule, drainOnly, ledger
  <1>2. PICK r \in TimeRules : queue' = [queue EXCEPT ![s] = <<r>>]
    BY DEF StartRule
  <1>3. SlotTypes /\ LedgerTypes /\ JobOf(s) # "dispatch"
    BY <1>1 DEF Shape, SlotShape
  <1>4. <<r>> \in Seq(DOMAIN RuleSet) /\ <<r>> # <<>> /\ "fire" \in Steps
    BY DEF TimeRules, Steps
  <1>5. UNCHANGED from
    BY <1>1, Zenon DEF RestOfRule
  <1>6. SlotStep(s) /\ pc'[s] = "fire" /\ queue'[s] = <<r>>
    BY <1>1, <1>2, <1>3, <1>4, <1>5, QueueEffect
  <1>7. Stayed(s)
    BY <1>1, <1>3, <1>4, <1>6, Zenon DEF Stayed, RestOfRule, ledger
  <1>8. QED
    BY <1>1, <1>6, <1>7

LEMMA GotoEffect ==
  ASSUME SlotTypes, LedgerTypes, NEW s \in Slots, NEW step \in Steps, Goto(s, step), UNCHANGED <<drain, taken>>
  PROVE  SlotStep(s) /\ pc'[s] = step
  <1>1. pc' \in [Slots -> Steps] /\ pc'[s] = step /\ \A t \in Slots \ {s} : pc'[t] = pc[t]
    BY DEF SlotTypes, Goto
  <1>2. QED
    BY <1>1 DEF SlotTypes, SlotStep, SlotSame, LedgerTypes, drain

LEMMA ReadCursorEffect ==
  ASSUME Shape, NEW s \in Slots, ReadCursor(s)
  PROVE  SlotStep(s) /\ from'[s] = cursor /\ pc'[s] = IF cursor = 0 THEN "seed" ELSE "read"
  <1>1. SlotTypes /\ LedgerTypes
    BY DEF Shape
  <1>2. from' = [from EXCEPT ![s] = cursor] /\ cursor \in Nat
    BY <1>1 DEF ReadCursor, LedgerTypes
  <1>3. from' \in [Slots -> Nat] /\ from'[s] = cursor /\ \A t \in Slots \ {s} : from'[t] = from[t]
    BY <1>1, <1>2 DEF SlotTypes
  <1> DEFINE step == IF cursor = 0 THEN "seed" ELSE "read"
  <1>4. Goto(s, step) /\ UNCHANGED <<batch, done, queue, taken>>
    BY DEF ReadCursor, ledger
  <1>5. step \in Steps
    BY DEF Steps, Drains
  <1> HIDE DEF step
  <1>6. pc' \in [Slots -> Steps] /\ pc'[s] = step /\ \A t \in Slots \ {s} : pc'[t] = pc[t]
    BY <1>1, <1>4, <1>5 DEF SlotTypes, Goto
  <1>7. SlotStep(s)
    BY <1>1, <1>3, <1>4, <1>6 DEF SlotTypes, SlotStep, SlotSame, LedgerTypes
  <1>8. QED
    BY <1>3, <1>6, <1>7 DEF step

LEMMA ReadEventsEffect ==
  ASSUME Shape, NEW s \in Slots, ReadEvents(s)
  PROVE  SlotStep(s) /\ Begun(s, After(s))
  <1>1. SlotTypes /\ LedgerTypes /\ LogTypes
    BY DEF Shape
  <1>2. After(s) \in Seq(Nat)
    <2>1. After(s) \in Seq(appended) /\ appended \subseteq Nat
      BY <1>1, AfterIs, StampFacts
    <2>2. DOMAIN After(s) = 1 .. Len(After(s)) /\ Len(After(s)) \in Nat
          /\ \A i \in 1 .. Len(After(s)) : After(s)[i] \in appended
      BY <2>1, LenProperties, ElementOfSeq
    <2>3. After(s) = [i \in 1 .. Len(After(s)) |-> After(s)[i]]
      BY <2>1, <2>2
    <2>4. QED
      BY <2>1, <2>2, <2>3
  <1>3. Begin(s, After(s)) /\ UNCHANGED <<done, from, taken>>
    BY DEF ReadEvents, ledger
  <1>4. /\ pc' \in [Slots -> Steps] /\ batch' \in [Slots -> Seq(Nat)]
        /\ queue' \in [Slots -> Seq(DOMAIN RuleSet)]
        /\ \A t \in Slots \ {s} : pc'[t] = pc[t] /\ batch'[t] = batch[t] /\ queue'[t] = queue[t]
        /\ Begun(s, After(s))
    BY <1>1, <1>2, <1>3, BeginEffect
  <1>5. QED
    BY <1>1, <1>3, <1>4 DEF SlotTypes, SlotStep, SlotSame, LedgerTypes

LEMMA FinishEffect ==
  ASSUME Shape, NEW s \in Slots, Finish(s)
  PROVE  SlotStep(s) /\ pc'[s] = "idle" /\ batch'[s] = <<>> /\ done'[s] = {} /\ from'[s] = 0
  <1>1. SlotTypes /\ LedgerTypes /\ "idle" \in Steps
    BY DEF Shape, Steps
  <1>2. /\ Goto(s, "idle") /\ UNCHANGED taken
        /\ batch' = [batch EXCEPT ![s] = <<>>] /\ done' = [done EXCEPT ![s] = {}]
        /\ from' = [from EXCEPT ![s] = 0] /\ queue' = [queue EXCEPT ![s] = <<>>]
    BY Zenon DEF Finish, ledger
  <1>3. pc' \in [Slots -> Steps] /\ pc'[s] = "idle" /\ \A t \in Slots \ {s} : pc'[t] = pc[t]
    BY <1>1, <1>2 DEF SlotTypes, Goto
  <1>4. batch' \in [Slots -> Seq(Nat)] /\ batch'[s] = <<>> /\ \A t \in Slots \ {s} : batch'[t] = batch[t]
    BY <1>1, <1>2, EmptyLog DEF SlotTypes
  <1>5. done' \in [Slots -> SUBSET Nat] /\ done'[s] = {} /\ \A t \in Slots \ {s} : done'[t] = done[t]
    BY <1>1, <1>2 DEF SlotTypes
  <1>6. from' \in [Slots -> Nat] /\ from'[s] = 0 /\ \A t \in Slots \ {s} : from'[t] = from[t]
    BY <1>1, <1>2 DEF SlotTypes
  <1>7. queue' \in [Slots -> Seq(DOMAIN RuleSet)] /\ \A t \in Slots \ {s} : queue'[t] = queue[t]
    BY <1>1, <1>2, EmptyLog DEF SlotTypes
  <1>8. QED
    BY <1>1, <1>2, <1>3, <1>4, <1>5, <1>6, <1>7 DEF SlotTypes, SlotStep, SlotSame, LedgerTypes

(* A step of a job that only goes from one step of its slot to another.    *)
Went(s, step) == SlotStep(s) /\ pc'[s] = step /\ UNCHANGED <<drain, taken, daemonVars, cliVars>>

LEMMA WentEffect ==
  ASSUME Shape, NEW s \in Slots
  PROVE  /\ Seed(s) => Went(s, "finish") /\ UNCHANGED counts
         /\ TruncateCursor(s) => (Went(s, "finish") \/ Went(s, "write")) /\ UNCHANGED counts
         /\ WriteCursor(s) => Went(s, "finish") /\ UNCHANGED counts
         /\ Rotate(s) => Went(s, "finish") /\ UNCHANGED counts
  <1>1. SlotTypes /\ LedgerTypes /\ "finish" \in Steps /\ "write" \in Steps
    BY DEF Shape, Steps, Drains
  <1>2. \A step \in Steps : Goto(s, step) /\ UNCHANGED <<drain, taken>> => SlotStep(s) /\ pc'[s] = step
    BY <1>1, GotoEffect
  <1>3. ASSUME Seed(s)
        PROVE  Went(s, "finish") /\ UNCHANGED counts
    <2>1. Goto(s, "finish") /\ UNCHANGED <<drain, taken>> /\ UNCHANGED <<daemonVars, cliVars, counts>>
      BY <1>3 DEF Seed, drainOnly
    <2>2. QED
      BY <1>1, <1>2, <2>1 DEF Went
  <1>4. ASSUME TruncateCursor(s)
        PROVE  (Went(s, "finish") \/ Went(s, "write")) /\ UNCHANGED counts
    <2>1. /\ Goto(s, "finish") \/ Goto(s, "write")
          /\ UNCHANGED <<drain, taken>> /\ UNCHANGED <<daemonVars, cliVars, counts>>
      BY <1>4 DEF TruncateCursor, drainOnly
    <2>2. QED
      BY <1>1, <1>2, <2>1 DEF Went
  <1>5. ASSUME WriteCursor(s)
        PROVE  Went(s, "finish") /\ UNCHANGED counts
    <2>1. Goto(s, "finish") /\ UNCHANGED <<drain, taken>> /\ UNCHANGED <<daemonVars, cliVars, counts>>
      BY <1>5 DEF WriteCursor, drainOnly, ledger
    <2>2. QED
      BY <1>1, <1>2, <2>1 DEF Went
  <1>6. ASSUME Rotate(s)
        PROVE  Went(s, "finish") /\ UNCHANGED counts
    <2>1. Goto(s, "finish") /\ UNCHANGED <<drain, taken>> /\ UNCHANGED <<daemonVars, cliVars, counts>>
      BY <1>6, Zenon DEF Rotate
    <2>2. QED
      BY <1>1, <1>2, <2>1 DEF Went
  <1>7. QED
    BY <1>3, <1>4, <1>5, <1>6

JobCases(s) ==
    \/ ReadCursor(s) \/ Seed(s) \/ ReadEvents(s) \/ Turned(s) \/ Stayed(s)
    \/ TruncateCursor(s) \/ WriteCursor(s) \/ Rotate(s) \/ Finish(s)

LEMMA JobEffect ==
  ASSUME Shape, NEW s \in Slots, JobStep(s)
  PROVE  SlotStep(s) /\ JobCases(s) /\ UNCHANGED <<daemonVars, cliVars>>
  <1>1. CASE ReadCursor(s)
    <2>1. UNCHANGED <<daemonVars, cliVars>>
      BY <1>1, Zenon DEF ReadCursor, drainOnly
    <2>2. QED
      BY <1>1, <2>1, ReadCursorEffect DEF JobCases
  <1>2. CASE ReadEvents(s)
    <2>1. UNCHANGED <<daemonVars, cliVars>>
      BY <1>2, Zenon DEF ReadEvents, drainOnly
    <2>2. QED
      BY <1>2, <2>1, ReadEventsEffect DEF JobCases
  <1>3. CASE DispatchNone(s)
    <2>1. /\ pc[s] = "event" /\ EventOver(s)
          /\ UNCHANGED <<logVars, tail, from, cursor, again, skipped, daemonVars, cliVars, counts>>
      BY <1>3, Zenon DEF DispatchNone, drainOnly
    <2>2. JobOf(s) = "dispatch"
      BY <2>1 DEF Shape, SlotShape, Drains
    <2>3. UNCHANGED from
      BY <2>1
    <2>4. /\ SlotStep(s) /\ Begun(s, Tail(batch[s]))
          /\ done'[s] = done[s] \cup {Head(batch[s])}
          /\ taken' = [taken EXCEPT ![Head(batch[s])] = @ + 1]
      BY <2>1, <2>2, <2>3, EventOverEffect
    <2>5. Turned(s)
      BY <2>1, <2>2, <2>4, Zenon DEF Turned
    <2>6. QED
      BY <2>4, <2>5, Zenon DEF JobCases, Turned
  <1>4. CASE fire(s) \/ Apply(s) \/ StartRule(s)
    <2>1. SlotStep(s) /\ (Turned(s) \/ Stayed(s))
      BY <1>4, FireEffect, ApplyEffect, StartRuleEffect
    <2>2. UNCHANGED <<daemonVars, cliVars>>
      BY <2>1, Zenon DEF Turned, Stayed
    <2>3. QED
      BY <2>1, <2>2 DEF JobCases
  <1>5. CASE Finish(s)
    <2>1. UNCHANGED <<daemonVars, cliVars>>
      BY <1>5, Zenon DEF Finish
    <2>2. QED
      BY <1>5, <2>1, FinishEffect DEF JobCases
  <1>6. CASE Seed(s) \/ TruncateCursor(s) \/ WriteCursor(s) \/ Rotate(s)
    BY <1>6, WentEffect, Zenon DEF Went, JobCases
  <1>7. QED
    BY <1>1, <1>2, <1>3, <1>4, <1>5, <1>6 DEF JobStep

(* The steps that change no slot, or one that was idle, or a daemon's.     *)
LEMMA InvokeEffect ==
  ASSUME Shape, NEW d \in Daemons, NEW j \in Jobs, invoke(d, j)
  PROVE  /\ status[d] = "up" /\ UNCHANGED <<logVars, tail, ruleVars, daemonVars, cliVars, cursor, drain, ledger>>
         /\ update(d, 0) \/ update(d, 1)
         /\ \/ UNCHANGED pc
            \/ /\ \A t \in Slots : DaemonOf(t) = d /\ JobOf(t) = j => pc[t] = "idle"
               /\ \E s \in Slots : DaemonOf(s) = d /\ JobOf(s) = j /\ Goto(s, FirstStep(j))
  <1> DEFINE free == {i \in Room(j) : pc[<<d, j, i>>] = "idle"}
             first == CHOOSE i \in free : \A k \in free : i <= k
  <1>1. /\ status[d] = "up" /\ UNCHANGED <<logVars, tail, ruleVars, daemonVars, cliVars, cursor, drain, ledger>>
    BY Zenon DEF invoke
  <1>2. \/ TryLock(d, j) /\ free # {} /\ Goto(<<d, j, first>>, FirstStep(j)) /\ update(d, 0)
        \/ update(d, 1) /\ UNCHANGED pc
    BY Zenon DEF invoke
  <1>3. ASSUME TryLock(d, j), free # {}
        PROVE  <<d, j, first>> \in Slots
    <2>1. free \subseteq {1, 2} /\ free \subseteq Room(j)
      BY DEF Room
    <2> HIDE DEF free
    <2>2. \E i \in free : \A k \in free : i <= k
      <3>1. CASE 1 \in free
        BY <2>1, <3>1
      <3>2. CASE 1 \notin free
        <4>1. \A k \in free : k = 2
          BY <2>1, <3>2
        <4>2. PICK k \in free : TRUE
          BY <1>3
        <4>3. QED
          BY <4>1, <4>2
      <3>3. QED
        BY <3>1, <3>2
    <2>3. first \in free
      BY <2>2
    <2>4. first \in Room(j) /\ first \in {1, 2}
      BY <2>1, <2>3
    <2>5. QED
      BY <2>4 DEF Slots
  <1>4. CASE TryLock(d, j) /\ free # {} /\ Goto(<<d, j, first>>, FirstStep(j)) /\ update(d, 0)
    <2>1. <<d, j, first>> \in Slots
      BY <1>3, <1>4
    <2> HIDE DEF first, free
    <2>2. DaemonOf(<<d, j, first>>) = d /\ JobOf(<<d, j, first>>) = j
      BY DEF DaemonOf, JobOf
    <2>3. \A t \in Slots : DaemonOf(t) = d /\ JobOf(t) = j => pc[t] = "idle"
      BY <1>4 DEF TryLock, DaemonOf, JobOf
    <2>4. QED
      BY <1>1, <1>4, <2>1, <2>2, <2>3
  <1>5. CASE update(d, 1) /\ UNCHANGED pc
    BY <1>1, <1>5
  <1>6. QED
    BY <1>2, <1>4, <1>5

Reset(s) == pc'[s] = "idle" /\ batch'[s] = <<>> /\ done'[s] = {} /\ from'[s] = 0

LEMMA CrashEffect ==
  ASSUME Shape, NEW d \in Daemons, Crash(d)
  PROVE  /\ SlotTypes'
         /\ \A s \in Slots : IF s \in Busy(d) THEN Reset(s) ELSE SlotSame(s)
  <1>1. SlotTypes /\ "idle" \in Steps
    BY DEF Shape, Steps
  <1>2. /\ pc' = [s \in Slots |-> IF s \in Busy(d) THEN "idle" ELSE pc[s]]
        /\ batch' = [s \in Slots |-> IF s \in Busy(d) THEN <<>> ELSE batch[s]]
        /\ done' = [s \in Slots |-> IF s \in Busy(d) THEN {} ELSE done[s]]
        /\ from' = [s \in Slots |-> IF s \in Busy(d) THEN 0 ELSE from[s]]
        /\ queue' = [s \in Slots |-> IF s \in Busy(d) THEN <<>> ELSE queue[s]]
    BY DEF Crash
  <1>3. batch' \in [Slots -> Seq(Nat)] /\ queue' \in [Slots -> Seq(DOMAIN RuleSet)]
    BY <1>1, <1>2, EmptyLog DEF SlotTypes
  <1>4. SlotTypes'
    BY <1>1, <1>2, <1>3 DEF SlotTypes
  <1>5. QED
    BY <1>2, <1>4 DEF Reset, SlotSame

(* The commands change the status of a daemon only to start or to stop it. *)
LEMMA CliEffect ==
  ASSUME Shape, NEW c \in Clis, CliStep(c)
  PROVE  /\ UNCHANGED <<logVars, tail, ruleVars, cursor, pc, drain, stateFile, ticks, finished, ledger>>
         /\ \A d \in Daemons : Alive(d) => Alive(d)'
  <1>1. UNCHANGED <<logVars, tail, ruleVars, cursor, pc, drain, stateFile, ticks, finished, ledger>>
    BY DEF CliStep
  <1>2. DaemonTypes
    BY DEF Shape
  <1>3. ASSUME UNCHANGED daemonVars, NEW d \in Daemons, Alive(d)
        PROVE  Alive(d)'
    BY <1>3 DEF Alive, daemonVars
  <1>4. ASSUME stopProcess(c), NEW d \in Daemons, Alive(d)
        PROVE  Alive(d)'
    <2>1. status' = [status EXCEPT ![saw[c]] = IF @ = "up" THEN "stopping" ELSE @]
      BY <1>4 DEF stopProcess
    <2>2. QED
      BY <1>2, <1>4, <2>1 DEF DaemonTypes, Alive
  <1>5. ASSUME Spawn(c), NEW d \in Daemons, Alive(d)
        PROVE  Alive(d)'
    <2>1. PICK o \in Daemons : RunForeground(o)
      BY <1>5 DEF Spawn
    <2>2. status' = [status EXCEPT ![o] = "up"]
      BY <2>1 DEF RunForeground
    <2>3. QED
      BY <1>2, <1>5, <2>2 DEF DaemonTypes, Alive
  <1>6. QED
    <2>1. \/ UNCHANGED daemonVars \/ stopProcess(c) \/ Spawn(c)
      BY Zenon DEF CliStep, readPIDFile, RemovePIDFile, ReadAgain, WritePIDFile
    <2>2. QED
      BY <1>1, <1>3, <1>4, <1>5, <2>1

LEMMA DaemonTypesPreserved ==
  ASSUME Shape, [Next]_vars
  PROVE  DaemonTypes'
  <1>1. DaemonTypes
    BY DEF Shape
  <1>2. ASSUME UNCHANGED <<daemonVars, cliVars>>
        PROVE  DaemonTypes'
    BY <1>1, <1>2 DEF DaemonTypes, daemonVars, cliVars
  <1>3. CASE \E c \in Clis : CliStep(c)
    <2>1. PICK c \in Clis : CliStep(c)
      BY <1>3
    <2>2. CASE readPIDFile(c)
      <3>1. PICK command \in Commands :
              CliGoto(c, CASE command = "start" -> IF processAlive(pidFile) THEN "idle" ELSE "spawn"
                           [] command = "status" ->
                                IF processAlive(pidFile) \/ pidFile = "none" THEN "idle" ELSE "remove"
                           [] command \in {"stop", "restart"} ->
                                IF processAlive(pidFile) THEN "signal" ELSE "remove")
        BY <2>2, Zenon DEF readPIDFile
      <3>2. command \in {"start", "status", "stop", "restart"}
        BY AutomationAssumption
      <3>3. \E step \in {"idle", "spawn", "remove", "signal"} :
              CliGoto(c, step) /\ (step = "signal" => processAlive(pidFile))
        BY <3>1, <3>2
      <3>4. /\ saw' = [saw EXCEPT ![c] = pidFile] /\ UNCHANGED <<pidFile, daemonVars>>
            /\ clash' \in BOOLEAN
        BY <2>2 DEF readPIDFile
      <3>5. QED
        BY <1>1, <3>3, <3>4 DEF DaemonTypes, daemonVars, CliGoto, processAlive
    <2>3. CASE stopProcess(c)
      <3>1. /\ status' = [status EXCEPT ![saw[c]] = IF @ = "up" THEN "stopping" ELSE @]
            /\ CliGoto(c, "remove") /\ UNCHANGED <<pidFile, saw, clash, crowded>>
        BY <2>3 DEF stopProcess
      <3>2. QED
        BY <1>1, <3>1 DEF DaemonTypes, CliGoto
    <2>4. CASE RemovePIDFile(c)
      <3>1. /\ pidFile' \in {pidFile, "none"} /\ (CliGoto(c, "read") \/ CliGoto(c, "idle"))
            /\ UNCHANGED <<saw, clash, daemonVars>>
        BY <2>4 DEF RemovePIDFile
      <3>2. QED
        BY <1>1, <3>1 DEF DaemonTypes, CliGoto, daemonVars
    <2>5. CASE ReadAgain(c)
      <3>1. /\ CliGoto(c, "spawn") \/ CliGoto(c, "idle")
            /\ UNCHANGED <<pidFile, saw, clash, daemonVars>>
        BY <2>5 DEF ReadAgain
      <3>2. QED
        BY <1>1, <3>1 DEF DaemonTypes, CliGoto, daemonVars
    <2>6. CASE Spawn(c)
      <3>1. PICK d \in Daemons : RunForeground(d) /\ saw' = [saw EXCEPT ![c] = d]
        BY <2>6 DEF Spawn
      <3>2. status' = [status EXCEPT ![d] = "up"] /\ crowded' \in BOOLEAN
        BY <3>1 DEF RunForeground
      <3>3. CliGoto(c, "write") /\ UNCHANGED <<pidFile, clash>>
        BY <2>6 DEF Spawn
      <3>4. QED
        BY <1>1, <3>1, <3>2, <3>3 DEF DaemonTypes, CliGoto
    <2>7. CASE WritePIDFile(c)
      <3>1. /\ cpc[c] = "write" /\ pidFile' = saw[c] /\ CliGoto(c, "idle")
            /\ UNCHANGED <<saw, clash, daemonVars>>
        BY <2>7 DEF WritePIDFile
      <3>2. QED
        BY <1>1, <3>1 DEF DaemonTypes, CliGoto, daemonVars
    <2>8. QED
      BY <2>1, <2>2, <2>3, <2>4, <2>5, <2>6, <2>7 DEF CliStep
  <1>4. CASE \E d \in Daemons : Exit(d) \/ Crash(d)
    <2>1. PICK d \in Daemons : Exit(d) \/ Crash(d)
      BY <1>4
    <2>2. status' = [status EXCEPT ![d] = "dead"] /\ UNCHANGED <<crowded, cliVars>>
      BY <2>1 DEF Exit, Crash
    <2>3. QED
      BY <1>1, <2>2 DEF DaemonTypes, cliVars
  <1>5. CASE \E d \in Daemons : \E j \in Jobs : invoke(d, j)
    BY <1>2, <1>5, InvokeEffect
  <1>6. CASE \E s \in Slots : JobStep(s)
    BY <1>2, <1>6, JobEffect
  <1>7. CASE LogStep
    BY <1>2, <1>7 DEF LogStep
  <1>8. CASE UNCHANGED vars
    BY <1>2, <1>8 DEF vars
  <1>9. QED
    BY <1>3, <1>4, <1>5, <1>6, <1>7, <1>8 DEF Next

LEMMA CountTypesPreserved ==
  ASSUME Shape, [Next]_vars
  PROVE  CountTypes'
  <1>1. CountTypes
    BY DEF Shape
  <1>2. ASSUME UNCHANGED <<counted, stateFile, finished>>
        PROVE  CountTypes'
    BY <1>1, <1>2 DEF CountTypes
  <1>3. ASSUME NEW d \in Daemons, NEW by \in {0, 1}, update(d, by)
        PROVE  CountTypes'
    <2>1. /\ counted' = [counted EXCEPT ![d] = @ + by] /\ stateFile' = counted[d] + by
          /\ finished' = finished + by
      BY <1>3 DEF update
    <2>2. QED
      BY <1>1, <2>1 DEF CountTypes
  <1>4. CASE \E c \in Clis : CliStep(c)
    <2>1. PICK c \in Clis : CliStep(c)
      BY <1>4
    <2>2. UNCHANGED <<stateFile, finished>>
      BY <2>1 DEF CliStep
    <2>3. CASE UNCHANGED counted
      BY <1>2, <2>2, <2>3
    <2>4. CASE Spawn(c)
      <3>1. PICK d \in Daemons : RunForeground(d)
        BY <2>4 DEF Spawn
      <3>2. counted' = [counted EXCEPT ![d] = stateFile]
        BY <3>1 DEF RunForeground, loadStates
      <3>3. QED
        BY <1>1, <2>2, <3>2 DEF CountTypes
    <2>5. QED
      <3>1. UNCHANGED counted \/ Spawn(c)
        BY <2>1, Zenon DEF CliStep, readPIDFile, stopProcess, RemovePIDFile, ReadAgain, WritePIDFile
      <3>2. QED
        BY <2>3, <2>4, <3>1
  <1>5. CASE \E d \in Daemons : \E j \in Jobs : invoke(d, j)
    BY <1>3, <1>5, InvokeEffect
  <1>6. CASE \E s \in Slots : JobStep(s)
    <2>1. PICK s \in Slots : JobStep(s)
      BY <1>6
    <2>2. DaemonOf(s) \in Daemons
      BY DEF Slots, DaemonOf
    <2>3. CASE Finish(s)
      BY <1>3, <2>2, <2>3 DEF Finish
    <2>4. CASE ~Finish(s)
      <3>1. UNCHANGED counts
        <4>1. SlotStep(s) /\ JobCases(s)
          BY <2>1, JobEffect
        <4>2. QED
          BY <2>4, <4>1, WentEffect, Zenon DEF JobCases, ReadCursor, ReadEvents, drainOnly, Turned, Stayed
      <3>2. QED
        BY <1>2, <3>1 DEF counts
    <2>5. QED
      BY <2>3, <2>4
  <1>7. CASE \E d \in Daemons : Exit(d) \/ Crash(d)
    BY <1>2, <1>7 DEF Exit, Crash, counts
  <1>8. CASE LogStep
    BY <1>2, <1>8 DEF LogStep, counts
  <1>9. CASE UNCHANGED vars
    BY <1>2, <1>9 DEF vars, counts
  <1>10. QED
    BY <1>4, <1>5, <1>6, <1>7, <1>8, <1>9 DEF Next

LEMMA NewCursorIs ==
  ASSUME Shape, NEW s \in Slots, done[s] # {}
  PROVE  /\ \E f \in done[s] : newCursor(s) = stamp[f]
         /\ \A e \in done[s] : stamp[e] <= newCursor(s)
  <1> DEFINE S == {stamp[e] : e \in done[s]}
  <1>1. \A e \in done[s] : e \in appended /\ stamp[e] \in Nat /\ stamp[e] <= clock
    BY StampFacts DEF Shape, LogTypes, SlotShape
  <1>2. S \in SUBSET Nat /\ S # {} /\ clock \in Nat /\ \A t \in S : t <= clock
    BY <1>1 DEF Shape, LogTypes
  <1>3. \E t \in S : \A u \in S : u <= t
    <2> HIDE DEF S
    <2>1. QED
      BY <1>2, LargestOf
  <1>4. \E t \in S : \A e \in done[s] : stamp[e] <= t
    BY <1>3
  <1>5. newCursor(s) \in S /\ \A e \in done[s] : stamp[e] <= newCursor(s)
    <2>1. newCursor(s) = CHOOSE t \in S : \A e \in done[s] : stamp[e] <= t
      BY DEF newCursor
    <2> HIDE DEF S
    <2>2. QED
      BY <1>4, <2>1
  <1>6. QED
    BY <1>5

LEMMA LedgerTypesPreserved ==
  ASSUME Shape, [Next]_vars
  PROVE  LedgerTypes'
  <1>1. LedgerTypes /\ LogTypes /\ clock \in Nat
    BY DEF Shape, LogTypes
  <1>2. ASSUME UNCHANGED <<cursor, taken, clock, appended>>
        PROVE  LedgerTypes'
    BY <1>1, <1>2 DEF LedgerTypes
  <1>3. CASE LogStep
    <2>1. UNCHANGED <<cursor, taken>>
      BY <1>3 DEF LogStep, ledger
    <2>2. appended \subseteq appended' /\ clock' \in Nat /\ clock <= clock'
      BY <1>1, <1>3 DEF LogStep, TakeStamp, AppendLine, Follow, logVars
    <2>3. QED
      BY <1>1, <2>1, <2>2 DEF LedgerTypes
  <1>4. CASE \E s \in Slots : JobStep(s)
    <2>1. PICK s \in Slots : JobStep(s)
      BY <1>4
    <2>2. SlotStep(s) /\ JobCases(s)
      BY <2>1, JobEffect
    <2>3. CASE ReadCursor(s) \/ ReadEvents(s) \/ Stayed(s) \/ Finish(s)
      <3>1. UNCHANGED <<cursor, taken, clock, appended>>
        BY <2>3, Zenon DEF ReadCursor, ReadEvents, Stayed, Finish, ledger, logVars
      <3>2. QED
        BY <1>2, <3>1
    <2>4. CASE Seed(s)
      <3>1. cursor' = clock /\ UNCHANGED <<taken, clock, appended>>
        BY <2>4 DEF Seed
      <3>2. QED
        BY <1>1, <3>1 DEF LedgerTypes
    <2>5. CASE Turned(s)
      <3>1. /\ taken' = [taken EXCEPT ![Head(batch[s])] = @ + 1]
            /\ UNCHANGED <<cursor, clock, appended>>
        BY <2>5, Zenon DEF Turned, logVars
      <3>2. PICK h \in appended : h = Head(batch[s])
        BY <2>5, HeadFacts DEF Turned, HeadTyped
      <3>3. taken' = [taken EXCEPT ![h] = @ + 1]
        BY <3>1, <3>2
      <3>4. \A e \in 1 .. MaxEvents : e # h => taken'[e] = taken[e]
        BY <1>1, <3>3 DEF LedgerTypes
      <3>5. taken' \in [1 .. MaxEvents -> Nat]
        BY <2>2 DEF SlotStep
      <3>6. QED
        BY <1>1, <3>1, <3>2, <3>4, <3>5 DEF LedgerTypes
    <2>6. CASE TruncateCursor(s)
      <3>1. cursor' \in {0, cursor} /\ UNCHANGED <<taken, clock, appended>>
        BY <2>6 DEF TruncateCursor, logVars
      <3>2. QED
        BY <1>1, <3>1 DEF LedgerTypes
    <2>7. CASE WriteCursor(s)
      <3>1. pc[s] = "write" /\ cursor' = newCursor(s) /\ UNCHANGED <<taken, clock, appended>>
        BY <2>7 DEF WriteCursor, ledger, logVars
      <3>2. done[s] # {} /\ done[s] \subseteq appended
        BY <3>1 DEF Shape, SlotShape
      <3>3. cursor' \in Nat /\ cursor' <= clock
        BY <1>1, <3>1, <3>2, NewCursorIs, StampFacts DEF LogTypes
      <3>4. QED
        BY <1>1, <3>1, <3>3 DEF LedgerTypes
    <2>8. CASE Rotate(s)
      <3>1. UNCHANGED <<cursor, taken, clock, appended>>
        BY <2>8 DEF Rotate, RotateIfLarge
      <3>2. QED
        BY <1>2, <3>1
    <2>9. QED
      BY <2>2, <2>3, <2>4, <2>5, <2>6, <2>7, <2>8 DEF JobCases
  <1>5. CASE \E c \in Clis : CliStep(c)
    BY <1>2, <1>5, CliEffect DEF logVars, ledger
  <1>6. CASE \E d \in Daemons : \E j \in Jobs : invoke(d, j)
    <2>1. UNCHANGED <<logVars, cursor, ledger>>
      BY <1>6, InvokeEffect
    <2>2. QED
      BY <1>2, <2>1 DEF logVars, ledger
  <1>7. CASE \E d \in Daemons : Exit(d) \/ Crash(d)
    BY <1>2, <1>7 DEF Exit, Crash, logVars, ledger
  <1>8. CASE UNCHANGED vars
    BY <1>2, <1>8 DEF vars, logVars, ledger
  <1>9. QED
    BY <1>3, <1>4, <1>5, <1>6, <1>7, <1>8 DEF Next

(* The shape of a slot.                                                    *)
LEMMA SlotShapeSame ==
  ASSUME NEW s \in Slots, SlotShape(s), SlotSame(s), appended \subseteq appended',
         Alive(DaemonOf(s)) /\ pc[s] # "idle" => Alive(DaemonOf(s))'
  PROVE  SlotShape(s)'
  BY DEF SlotShape, SlotSame

LEMMA EmptySlot ==
  ASSUME NEW s \in Slots, batch'[s] = <<>>, done'[s] = {}, pc'[s] # "idle" => Alive(DaemonOf(s))',
         pc'[s] \in Drains => JobOf(s) = "dispatch",
         pc'[s] \in {"rotate", "rule"} => JobOf(s) # "dispatch",
         pc'[s] \in {"fire", "outputs"} => queue'[s] # <<>> /\ JobOf(s) # "dispatch",
         pc'[s] \notin {"event", "write"}
  PROVE  SlotShape(s)'
  BY EmptyLog DEF SlotShape

LEMMA JobSlotShape ==
  ASSUME Shape, NEW s \in Slots, JobStep(s)
  PROVE  SlotShape(s)' /\ UNCHANGED appended
  <1>1. SlotStep(s) /\ JobCases(s) /\ UNCHANGED <<daemonVars, cliVars>>
    BY JobEffect
  <1>2. SlotTypes /\ LogTypes /\ SlotShape(s)
    BY DEF Shape
  <1>3. ASSUME Alive(DaemonOf(s))
        PROVE  Alive(DaemonOf(s))'
    BY <1>1, <1>3 DEF Alive, daemonVars
  <1>4. CASE ReadCursor(s)
    <2>1. pc'[s] \in {"seed", "read"}
      BY <1>4, ReadCursorEffect
    <2>2. pc[s] = "cursor" /\ UNCHANGED <<batch, done, appended>>
      BY <1>4, Zenon DEF ReadCursor, logVars
    <2>3. batch'[s] = <<>> /\ done'[s] = {} /\ JobOf(s) = "dispatch" /\ Alive(DaemonOf(s))
      BY <1>2, <2>2 DEF SlotShape, Drains
    <2>4. QED
      BY <1>3, <2>1, <2>2, <2>3, EmptySlot
  <1>5. CASE Seed(s) \/ Rotate(s)
    <2>1. pc'[s] = "finish" /\ UNCHANGED drain
      BY <1>5, WentEffect DEF Went
    <2>2. pc[s] \in {"seed", "rotate"} /\ UNCHANGED appended
      BY <1>5, Zenon DEF Seed, Rotate, RotateIfLarge
    <2>3. batch'[s] = <<>> /\ done'[s] = {} /\ Alive(DaemonOf(s))
      BY <1>2, <2>1, <2>2 DEF SlotShape, drain
    <2>4. QED
      BY <1>3, <2>1, <2>2, <2>3, EmptySlot DEF Drains
  <1>6. CASE ReadEvents(s)
    <2>1. pc[s] = "read" /\ UNCHANGED <<done, appended>>
      BY <1>6, Zenon DEF ReadEvents, logVars
    <2>2. done'[s] = {} /\ JobOf(s) = "dispatch" /\ Alive(DaemonOf(s))'
      BY <1>2, <1>3, <2>1 DEF SlotShape, Drains
    <2>3. Begun(s, After(s))
      BY <1>6, ReadEventsEffect
    <2>4. IsInjective(After(s)) /\ ToSet(After(s)) \subseteq appended
      BY <1>2, AfterIs, StampFacts
    <2>5. QED
      BY <2>1, <2>2, <2>3, <2>4 DEF Begun, SlotShape
  <1>7. CASE Turned(s)
    <2>1. /\ Begun(s, Tail(batch[s])) /\ done'[s] = done[s] \cup {Head(batch[s])}
          /\ pc[s] \in {"event", "fire", "outputs"} /\ JobOf(s) = "dispatch" /\ UNCHANGED appended
      BY <1>7, Zenon DEF Turned, logVars
    <2>2. batch[s] # <<>> /\ batch[s] \in Seq(Nat) /\ Alive(DaemonOf(s))'
      BY <1>2, <1>3, <2>1 DEF SlotShape, SlotTypes
    <2>3. /\ IsInjective(Tail(batch[s])) /\ Head(batch[s]) \notin ToSet(Tail(batch[s]))
          /\ ToSet(batch[s]) = {Head(batch[s])} \cup ToSet(Tail(batch[s]))
      BY <1>2, <2>2, TailIs DEF SlotShape
    <2>4. /\ ToSet(batch'[s]) \cup done'[s] \subseteq appended'
          /\ IsInjective(batch'[s]) /\ ToSet(batch'[s]) \cap done'[s] = {}
      BY <1>2, <2>1, <2>3 DEF SlotShape, Begun
    <2>5. QED
      BY <2>1, <2>2, <2>4 DEF Begun, SlotShape
  <1>8. CASE Stayed(s)
    <2>1. /\ pc[s] \in {"rule", "fire", "outputs"} /\ pc'[s] \in {"fire", "outputs", "finish"}
          /\ JobOf(s) = "dispatch" => pc'[s] # "finish"
          /\ pc'[s] # "finish" => queue'[s] # <<>>
          /\ UNCHANGED <<batch, done, appended>>
      BY <1>8, Zenon DEF Stayed, logVars
    <2>2. Alive(DaemonOf(s))'
      BY <1>2, <1>3, <2>1 DEF SlotShape
    <2>3. CASE JobOf(s) = "dispatch"
      BY <1>2, <2>1, <2>2, <2>3 DEF SlotShape, Drains
    <2>4. CASE JobOf(s) # "dispatch"
      BY <1>2, <2>1, <2>2, <2>4, EmptySlot DEF SlotShape, Drains
    <2>5. QED
      BY <2>3, <2>4
  <1>9. CASE TruncateCursor(s)
    <2>1. pc'[s] \in {"finish", "write"} /\ UNCHANGED drain
      BY <1>9, WentEffect DEF Went
    <2>2. pc[s] = "advance" /\ UNCHANGED appended
      BY <1>9, Zenon DEF TruncateCursor, logVars
    <2>3. pc'[s] = "write" => done[s] # {}
      <3>1. CASE done[s] = {}
        <4>1. Goto(s, "finish")
          BY <1>9, <3>1 DEF TruncateCursor
        <4>2. QED
          BY <1>2, <4>1 DEF Goto, SlotTypes
      <3>2. QED
        BY <3>1
    <2>4. Alive(DaemonOf(s))' /\ JobOf(s) = "dispatch" /\ batch[s] = <<>>
      BY <1>2, <1>3, <2>2 DEF SlotShape, Drains
    <2>5. QED
      BY <1>2, <2>1, <2>2, <2>3, <2>4 DEF SlotShape, drain
  <1>10. CASE WriteCursor(s)
    <2>1. pc'[s] = "finish" /\ UNCHANGED drain
      BY <1>10, WentEffect DEF Went
    <2>2. pc[s] = "write" /\ UNCHANGED appended
      BY <1>10, Zenon DEF WriteCursor, logVars
    <2>3. Alive(DaemonOf(s))' /\ JobOf(s) = "dispatch"
      BY <1>2, <1>3, <2>2 DEF SlotShape, Drains
    <2>4. QED
      BY <1>2, <2>1, <2>2, <2>3 DEF SlotShape, drain, Drains
  <1>11. CASE Finish(s)
    <2>1. pc'[s] = "idle" /\ batch'[s] = <<>> /\ done'[s] = {}
      BY <1>11, FinishEffect
    <2>2. UNCHANGED appended
      BY <1>11, Zenon DEF Finish, logVars
    <2>3. QED
      BY <2>1, <2>2, EmptySlot DEF Drains
  <1>12. QED
    BY <1>1, <1>4, <1>5, <1>6, <1>7, <1>8, <1>9, <1>10, <1>11 DEF JobCases

LEMMA ShapePreserved ==
  ASSUME Shape, [Next]_vars
  PROVE  Shape'
  <1>1. LogTypes' /\ DaemonTypes' /\ CountTypes' /\ LedgerTypes'
    BY LogTypesPreserved, DaemonTypesPreserved, CountTypesPreserved, LedgerTypesPreserved DEF Shape
  <1>2. SlotTypes /\ \A s \in Slots : SlotShape(s)
    BY DEF Shape
  <1>3. ASSUME UNCHANGED <<pc, drain>>, appended \subseteq appended',
               \A d \in Daemons : Alive(d) /\ Busy(d) # {} => Alive(d)'
        PROVE  SlotTypes' /\ \A s \in Slots : SlotShape(s)'
    <2>1. SlotTypes'
      BY <1>2, <1>3 DEF SlotTypes, drain
    <2>2. ASSUME NEW s \in Slots
          PROVE  SlotShape(s)'
      <3>1. SlotSame(s)
        BY <1>3 DEF SlotSame, drain
      <3>2. DaemonOf(s) \in Daemons /\ (pc[s] # "idle" => Busy(DaemonOf(s)) # {})
        BY DEF DaemonOf, Slots, Busy
      <3>3. QED
        BY <1>2, <1>3, <3>1, <3>2, SlotShapeSame
    <2>3. QED
      BY <2>1, <2>2
  <1>4. CASE LogStep
    <2>1. UNCHANGED <<pc, drain, daemonVars>>
      BY <1>4 DEF LogStep
    <2>2. appended \subseteq appended'
      BY <1>4 DEF LogStep, TakeStamp, AppendLine, Follow, logVars
    <2>3. \A d \in Daemons : Alive(d) => Alive(d)'
      BY <2>1 DEF Alive, daemonVars
    <2>4. QED
      BY <1>1, <1>3, <2>1, <2>2, <2>3 DEF Shape
  <1>5. CASE \E c \in Clis : CliStep(c)
    <2>1. UNCHANGED <<logVars, pc, drain>> /\ \A d \in Daemons : Alive(d) => Alive(d)'
      BY <1>5, CliEffect
    <2>2. QED
      BY <1>1, <1>3, <2>1 DEF Shape, logVars
  <1>6. CASE \E d \in Daemons : Exit(d)
    <2>1. PICK d \in Daemons : Exit(d)
      BY <1>6
    <2>2. UNCHANGED <<logVars, pc, drain>> /\ Busy(d) = {} /\ status' = [status EXCEPT ![d] = "dead"]
      BY <2>1 DEF Exit
    <2>3. \A o \in Daemons : Alive(o) /\ Busy(o) # {} => Alive(o)'
      BY <2>2 DEF Alive, Shape, DaemonTypes
    <2>4. QED
      BY <1>1, <1>3, <2>2, <2>3 DEF Shape, logVars
  <1>7. CASE \E d \in Daemons : Crash(d)
    <2>1. PICK d \in Daemons : Crash(d)
      BY <1>7
    <2>2. SlotTypes' /\ \A s \in Slots : IF s \in Busy(d) THEN Reset(s) ELSE SlotSame(s)
      BY <2>1, CrashEffect
    <2>3. UNCHANGED logVars /\ status' = [status EXCEPT ![d] = "dead"]
      BY <2>1 DEF Crash
    <2>4. ASSUME NEW s \in Slots
          PROVE  SlotShape(s)'
      <3>1. CASE s \in Busy(d)
        BY <2>2, <3>1, EmptySlot DEF Reset, Drains
      <3>2. CASE s \notin Busy(d)
        <4>1. pc[s] # "idle" => DaemonOf(s) # d
          BY <3>2 DEF Busy
        <4>2. Alive(DaemonOf(s)) /\ pc[s] # "idle" => Alive(DaemonOf(s))'
          BY <2>3, <4>1 DEF Alive, Shape, DaemonTypes, DaemonOf, Slots
        <4>3. QED
          BY <1>2, <2>2, <2>3, <3>2, <4>2, SlotShapeSame DEF logVars
      <3>3. QED
        BY <3>1, <3>2
    <2>5. QED
      BY <1>1, <2>2, <2>4 DEF Shape
  <1>8. CASE \E d \in Daemons : \E j \in Jobs : invoke(d, j)
    <2>1. PICK d \in Daemons, j \in Jobs : invoke(d, j)
      BY <1>8
    <2>2. /\ status[d] = "up" /\ UNCHANGED <<logVars, daemonVars, drain>>
          /\ \/ UNCHANGED pc
             \/ \E s \in Slots : DaemonOf(s) = d /\ JobOf(s) = j /\ pc[s] = "idle" /\ Goto(s, FirstStep(j))
      BY <2>1, InvokeEffect
    <2>3. \A o \in Daemons : Alive(o) => Alive(o)'
      BY <2>2 DEF Alive, daemonVars
    <2>4. CASE UNCHANGED pc
      BY <1>1, <1>3, <2>2, <2>3, <2>4 DEF Shape, logVars
    <2>5. ASSUME NEW s \in Slots, DaemonOf(s) = d, JobOf(s) = j, pc[s] = "idle", Goto(s, FirstStep(j))
          PROVE  Shape'
      <3>1. \/ j = "dispatch" /\ FirstStep(j) = "cursor"
            \/ j = "rotate" /\ FirstStep(j) = "rotate"
            \/ j = "rule" /\ FirstStep(j) = "rule"
        <4>1. j \in {"dispatch", "rotate", "rule"}
          BY <2>1, AutomationAssumption
        <4>2. QED
          BY <4>1 DEF FirstStep
      <3>2. FirstStep(j) \in Steps
        BY <3>1 DEF Steps, Drains
      <3>3. pc' \in [Slots -> Steps] /\ pc'[s] = FirstStep(j) /\ \A t \in Slots \ {s} : pc'[t] = pc[t]
        BY <1>2, <2>5, <3>2 DEF SlotTypes, Goto
      <3>4. SlotTypes'
        BY <1>2, <2>2, <3>3 DEF SlotTypes, drain
      <3>5. SlotShape(s)'
        <4>1. batch'[s] = <<>> /\ done'[s] = {} /\ Alive(DaemonOf(s))'
          BY <1>2, <2>2, <2>5 DEF SlotShape, drain, Alive, daemonVars
        <4>2. QED
          BY <2>5, <3>1, <3>3, <4>1, EmptySlot DEF Drains
      <3>6. ASSUME NEW t \in Slots \ {s}
            PROVE  SlotShape(t)'
        <4>1. SlotSame(t) /\ UNCHANGED appended
          BY <2>2, <3>3 DEF SlotSame, drain, logVars
        <4>2. DaemonOf(t) \in Daemons
          BY DEF DaemonOf, Slots
        <4>3. QED
          BY <1>2, <2>3, <4>1, <4>2, SlotShapeSame
      <3>7. QED
        BY <1>1, <3>4, <3>5, <3>6 DEF Shape
    <2>6. QED
      BY <2>2, <2>4, <2>5
  <1>9. CASE \E s \in Slots : JobStep(s)
    <2>1. PICK s \in Slots : JobStep(s)
      BY <1>9
    <2>2. SlotStep(s) /\ UNCHANGED <<daemonVars, cliVars>>
      BY <2>1, JobEffect
    <2>3. SlotShape(s)' /\ UNCHANGED appended
      BY <2>1, JobSlotShape
    <2>4. ASSUME NEW t \in Slots \ {s}
          PROVE  SlotShape(t)'
      <3>1. Alive(DaemonOf(t)) => Alive(DaemonOf(t))'
        BY <2>2 DEF Alive, daemonVars
      <3>2. QED
        BY <1>2, <2>2, <2>3, <3>1, SlotShapeSame DEF SlotStep
    <2>5. QED
      BY <1>1, <2>2, <2>3, <2>4 DEF Shape, SlotStep
  <1>10. CASE UNCHANGED vars
    <2>1. UNCHANGED <<logVars, pc, drain, daemonVars>>
      BY <1>10 DEF vars
    <2>2. \A d \in Daemons : Alive(d) => Alive(d)'
      BY <2>1 DEF Alive, daemonVars
    <2>3. QED
      BY <1>1, <1>3, <2>1, <2>2 DEF Shape, logVars
  <1>11. QED
    BY <1>4, <1>5, <1>6, <1>7, <1>8, <1>9, <1>10 DEF Next

LEMMA ShapeInit == Init => Shape
  <1> SUFFICES ASSUME Init PROVE Shape
    OBVIOUS
  <1>1. clock = 1 /\ stamp = <<>> /\ pending = {} /\ log = <<>> /\ stranded = {} /\ appended = {}
        /\ late = {} /\ seeded = FirstCursor /\ cursor = FirstCursor /\ FirstCursor \in {0, 1}
    BY AutomationAssumption DEF Init, LogInit
  <1>2. LogTypes
    <2>1. Events = {}
      BY <1>1 DEF Events
    <2>2. <<>> \in Seq(Nat) /\ <<>> \in Seq({}) /\ IsInjective(<<>>) /\ Len(<<>>) = 0
      BY EmptyLog
    <2>3. QED
      BY <1>1, <2>1, <2>2, EventLogAssumption DEF LogTypes
  <1>3. DaemonTypes
    BY DEF Init, DaemonTypes
  <1>4. CountTypes
    BY DEF Init, CountTypes
  <1>5. LedgerTypes
    BY <1>1 DEF Init, LedgerTypes
  <1>6. SlotTypes
    <2>1. \A T : <<>> \in Seq(T)
      OBVIOUS
    <2>2. QED
      BY <2>1 DEF Init, SlotTypes, Steps
  <1>7. ASSUME NEW s \in Slots
        PROVE  SlotShape(s)
    <2>1. pc[s] = "idle" /\ batch[s] = <<>> /\ done[s] = {}
      BY DEF Init
    <2>2. QED
      BY <2>1, EmptyLog DEF SlotShape, Drains
  <1>8. QED
    BY <1>2, <1>3, <1>4, <1>5, <1>6, <1>7 DEF Shape

-----------------------------------------------------------------------------
(* A daemon's job, and the daemons.                                        *)

LEMMA OneRunPreserved ==
  ASSUME Shape, OneRun, [Next]_vars
  PROVE  OneRun'
  <1>1. ASSUME \A s \in Slots : pc'[s] # "idle" => pc[s] # "idle"
        PROVE  OneRun'
    BY <1>1 DEF OneRun
  <1>2. CASE \E s \in Slots : JobStep(s)
    <2>1. PICK s \in Slots : JobStep(s)
      BY <1>2
    <2>2. SlotStep(s) /\ JobCases(s)
      BY <2>1, JobEffect
    <2>3. pc[s] # "idle"
      BY <2>2, Zenon DEF JobCases, ReadCursor, Seed, ReadEvents, Turned, Stayed, TruncateCursor,
                         WriteCursor, Rotate, Finish
    <2>4. QED
      BY <1>1, <2>2, <2>3 DEF SlotStep, SlotSame
  <1>3. CASE \E d \in Daemons : \E j \in Jobs : invoke(d, j)
    <2>1. PICK d \in Daemons, j \in Jobs : invoke(d, j)
      BY <1>3
    <2>2. CASE UNCHANGED pc
      BY <1>1, <2>2
    <2>3. ASSUME \A t \in Slots : DaemonOf(t) = d /\ JobOf(t) = j => pc[t] = "idle",
                 NEW s \in Slots, DaemonOf(s) = d, JobOf(s) = j, Goto(s, FirstStep(j))
          PROVE  OneRun'
      <3>1. \A t \in Slots \ {s} : pc'[t] = pc[t]
        BY <2>3 DEF Goto, Shape, SlotTypes
      <3>2. QED
        BY <2>3, <3>1 DEF OneRun
    <2>4. QED
      BY <2>1, <2>2, <2>3, InvokeEffect
  <1>4. CASE \E d \in Daemons : Crash(d)
    BY <1>1, <1>4, CrashEffect DEF Reset, SlotSame
  <1>5. CASE \E c \in Clis : CliStep(c)
    BY <1>1, <1>5, CliEffect
  <1>6. CASE LogStep \/ UNCHANGED vars \/ \E d \in Daemons : Exit(d)
    <2>1. UNCHANGED pc
      BY <1>6 DEF LogStep, vars, Exit
    <2>2. QED
      BY <1>1, <2>1
  <1>7. QED
    BY <1>2, <1>3, <1>4, <1>5, <1>6 DEF Next

(* What the steps of others leave alone.                                   *)
LEMMA CommandsSame ==
  ASSUME Shape, [Next]_vars
  PROVE  \/ \E c \in Clis : CliStep(c)
         \/ /\ UNCHANGED <<cliVars, crowded>>
            /\ \/ UNCHANGED status
               \/ \E d \in Daemons : status' = [status EXCEPT ![d] = "dead"]
  <1>1. CASE \E s \in Slots : JobStep(s)
    BY <1>1, JobEffect DEF daemonVars
  <1>2. CASE \E d \in Daemons : \E j \in Jobs : invoke(d, j)
    BY <1>2, InvokeEffect DEF daemonVars
  <1>3. CASE \E d \in Daemons : Exit(d) \/ Crash(d)
    BY <1>3 DEF Exit, Crash
  <1>4. CASE LogStep \/ UNCHANGED vars
    BY <1>4 DEF LogStep, vars, daemonVars
  <1>5. QED
    BY <1>1, <1>2, <1>3, <1>4 DEF Next

LEMMA OneInvPreserved ==
  ASSUME Shape, OneInv, [Next]_vars
  PROVE  OneInv'
  <1> SUFFICES ASSUME ~clash' PROVE OneInv'
    BY DEF OneInv
  <1>1. DaemonTypes
    BY DEF Shape
  <1>2. ASSUME UNCHANGED cliVars, Up' \subseteq Up
        PROVE  OneInv'
    BY <1>2 DEF OneInv, cliVars
  <1>3. CASE UNCHANGED cliVars /\ UNCHANGED status
    BY <1>2, <1>3 DEF Up
  <1>4. ASSUME UNCHANGED cliVars, NEW d \in Daemons, status' = [status EXCEPT ![d] = "dead"]
        PROVE  OneInv'
    <2>1. Up' \subseteq Up
      BY <1>1, <1>4 DEF Up, DaemonTypes
    <2>2. QED
      BY <1>2, <1>4, <2>1
  <1>5. ASSUME NEW c \in Clis, CliStep(c)
        PROVE  OneInv'
    <2>1. CASE readPIDFile(c)
      <3>1. /\ cpc[c] = "idle" /\ saw' = [saw EXCEPT ![c] = pidFile]
            /\ clash' = (clash \/ \E o \in Clis \ {c} : cpc[o] # "idle")
            /\ UNCHANGED <<pidFile, status>>
        BY <2>1, Zenon DEF readPIDFile, daemonVars
      <3>2. ~clash /\ \A o \in Clis : cpc[o] = "idle"
        BY <3>1
      <3>3. Up \subseteq {pidFile} /\ Up' = Up
        BY <3>1, <3>2 DEF OneInv, Up
      <3>4. processAlive(pidFile) \/ Up = {}
        BY <3>3, AutomationAssumption DEF processAlive, Up, Alive
      <3>5. PICK command \in Commands :
              CliGoto(c, CASE command = "start" -> IF processAlive(pidFile) THEN "idle" ELSE "spawn"
                           [] command = "status" ->
                                IF processAlive(pidFile) \/ pidFile = "none" THEN "idle" ELSE "remove"
                           [] command \in {"stop", "restart"} ->
                                IF processAlive(pidFile) THEN "signal" ELSE "remove")
        BY <2>1, Zenon DEF readPIDFile
      <3>6. command \in {"start", "status", "stop", "restart"}
        BY AutomationAssumption
      <3>7. \E step \in {"idle", "spawn", "remove", "signal"} :
              CliGoto(c, step) /\ (step \in {"spawn", "remove"} => Up = {})
        BY <3>4, <3>5, <3>6
      <3>8. QED
        BY <1>1, <3>1, <3>2, <3>3, <3>7 DEF OneInv, DaemonTypes, CliGoto
    <2>2. CASE stopProcess(c)
      <3>1. /\ cpc[c] = "signal" /\ CliGoto(c, "remove") /\ UNCHANGED <<pidFile, saw, clash>>
            /\ status' = [status EXCEPT ![saw[c]] = IF @ = "up" THEN "stopping" ELSE @]
        BY <2>2, Zenon DEF stopProcess
      <3>2. Up' = {}
        BY <1>1, <3>1 DEF OneInv, Up, DaemonTypes
      <3>3. QED
        BY <1>1, <3>1, <3>2 DEF OneInv, DaemonTypes, CliGoto
    <2>3. CASE RemovePIDFile(c)
      <3>1. /\ cpc[c] = "remove" /\ UNCHANGED <<saw, clash, status>>
            /\ CliGoto(c, IF c \in restarts THEN "read" ELSE "idle")
        BY <2>3, Zenon DEF RemovePIDFile, daemonVars
      <3>2. Up' = {}
        BY <3>1 DEF OneInv, Up
      <3>3. QED
        BY <1>1, <3>1, <3>2 DEF OneInv, DaemonTypes, CliGoto
    <2>4. CASE ReadAgain(c)
      <3>1. /\ cpc[c] = "read" /\ UNCHANGED <<saw, clash, status, pidFile>>
            /\ CliGoto(c, IF processAlive(pidFile) THEN "idle" ELSE "spawn")
        BY <2>4, Zenon DEF ReadAgain, daemonVars
      <3>2. Up' = {}
        BY <3>1 DEF OneInv, Up
      <3>3. QED
        BY <1>1, <3>1, <3>2 DEF OneInv, DaemonTypes, CliGoto
    <2>5. CASE Spawn(c)
      <3>1. PICK d \in Daemons : RunForeground(d) /\ saw' = [saw EXCEPT ![c] = d]
        BY <2>5, Zenon DEF Spawn
      <3>2. cpc[c] = "spawn" /\ CliGoto(c, "write") /\ UNCHANGED <<pidFile, clash>>
        BY <2>5, Zenon DEF Spawn
      <3>3. status' = [status EXCEPT ![d] = "up"]
        BY <3>1 DEF RunForeground
      <3>4. Up' = {d}
        BY <1>1, <3>2, <3>3 DEF OneInv, Up, DaemonTypes
      <3>5. QED
        BY <1>1, <3>1, <3>2, <3>4 DEF OneInv, DaemonTypes, CliGoto
    <2>6. CASE WritePIDFile(c)
      <3>1. /\ cpc[c] = "write" /\ CliGoto(c, "idle") /\ UNCHANGED <<saw, clash, status>>
            /\ pidFile' = saw[c]
        BY <2>6, Zenon DEF WritePIDFile, daemonVars
      <3>2. Up' = Up
        BY <3>1 DEF Up
      <3>3. QED
        BY <1>1, <3>1, <3>2 DEF OneInv, DaemonTypes, CliGoto
    <2>7. QED
      BY <1>5, <2>1, <2>2, <2>3, <2>4, <2>5, <2>6 DEF CliStep
  <1>6. QED
    BY <1>3, <1>4, <1>5, CommandsSame

LEMMA OneInvImplies ==
  ASSUME OneInv
  PROVE  OneDaemon
  <1>1. ASSUME ~clash
        PROVE  Cardinality(Up) <= 1
    <2>1. CASE Up = {}
      BY <2>1, FS_EmptySet
    <2>2. ASSUME NEW d \in Up
          PROVE  Cardinality(Up) <= 1
      <3>1. Up = {d}
        BY <1>1 DEF OneInv, Up
      <3>2. Cardinality({d}) = 1
        BY FS_Singleton
      <3>3. QED
        BY <3>1, <3>2
    <2>3. QED
      BY <2>1, <2>2
  <1>2. QED
    BY <1>1 DEF OneInv, OneDaemon, Up

LEMMA LonePreserved ==
  ASSUME Shape, LoneInv, [Next]_vars
  PROVE  LoneInv'
  <1>1. DaemonTypes
    BY DEF Shape
  <1>2. ASSUME UNCHANGED crowded, \A d \in Daemons : Alive(d)' => Alive(d)
        PROVE  LoneInv'
    BY <1>2 DEF LoneInv
  <1>3. ASSUME NEW c \in Clis, CliStep(c)
        PROVE  LoneInv'
    <2>1. CASE Spawn(c)
      <3>1. PICK d \in Daemons : RunForeground(d)
        BY <2>1, Zenon DEF Spawn
      <3>2. /\ status' = [status EXCEPT ![d] = "up"]
            /\ crowded' = (crowded \/ \E o \in Daemons : Alive(o))
        BY <3>1 DEF RunForeground
      <3>3. QED
        BY <1>1, <3>2 DEF LoneInv, Alive, DaemonTypes
    <2>2. CASE stopProcess(c)
      <3>1. /\ status' = [status EXCEPT ![saw[c]] = IF @ = "up" THEN "stopping" ELSE @]
            /\ UNCHANGED crowded
        BY <2>2 DEF stopProcess
      <3>2. QED
        BY <1>1, <1>2, <3>1 DEF Alive, DaemonTypes
    <2>3. CASE UNCHANGED daemonVars
      BY <1>2, <2>3 DEF Alive, daemonVars
    <2>4. QED
      <3>1. UNCHANGED daemonVars \/ stopProcess(c) \/ Spawn(c)
        BY <1>3, Zenon DEF CliStep, readPIDFile, RemovePIDFile, ReadAgain, WritePIDFile
      <3>2. QED
        BY <2>1, <2>2, <2>3, <3>1
  <1>4. ASSUME UNCHANGED crowded, NEW d \in Daemons, status' = [status EXCEPT ![d] = "dead"]
        PROVE  LoneInv'
    BY <1>1, <1>2, <1>4 DEF Alive, DaemonTypes
  <1>5. ASSUME UNCHANGED <<crowded, status>>
        PROVE  LoneInv'
    BY <1>2, <1>5 DEF Alive
  <1>6. QED
    BY <1>3, <1>4, <1>5, CommandsSame

LEMMA CountInvPreserved ==
  ASSUME Shape, LoneInv, CountInv, [Next]_vars
  PROVE  CountInv'
  <1>1. DaemonTypes /\ CountTypes
    BY DEF Shape
  <1>2. ASSUME UNCHANGED <<crowded, counted, stateFile, finished>>, \A d \in Daemons : Alive(d)' => Alive(d)
        PROVE  CountInv'
    BY <1>2 DEF CountInv
  <1>3. ASSUME NEW d \in Daemons, Alive(d), NEW by \in {0, 1}, update(d, by), UNCHANGED daemonVars
        PROVE  CountInv'
    <2>1. /\ counted' = [counted EXCEPT ![d] = @ + by] /\ stateFile' = counted[d] + by
          /\ finished' = finished + by /\ UNCHANGED <<crowded, status>>
      BY <1>3 DEF update, daemonVars
    <2>2. ASSUME ~crowded
          PROVE  \A o \in Daemons : Alive(o)' => o = d
      BY <1>3, <2>1, <2>2 DEF LoneInv, Alive
    <2>3. QED
      BY <1>1, <1>3, <2>1, <2>2 DEF CountInv, CountTypes
  <1>4. ASSUME NEW c \in Clis, CliStep(c)
        PROVE  CountInv'
    <2>1. UNCHANGED <<stateFile, finished>>
      BY <1>4 DEF CliStep
    <2>2. CASE Spawn(c)
      <3>1. PICK d \in Daemons : RunForeground(d)
        BY <2>2, Zenon DEF Spawn
      <3>2. /\ status' = [status EXCEPT ![d] = "up"] /\ counted' = [counted EXCEPT ![d] = stateFile]
            /\ crowded' = (crowded \/ \E o \in Daemons : Alive(o))
        BY <3>1 DEF RunForeground, loadStates
      <3>3. QED
        BY <1>1, <2>1, <3>2 DEF CountInv, Alive, DaemonTypes, CountTypes
    <2>3. CASE stopProcess(c)
      <3>1. /\ status' = [status EXCEPT ![saw[c]] = IF @ = "up" THEN "stopping" ELSE @]
            /\ UNCHANGED <<crowded, counted>>
        BY <2>3 DEF stopProcess
      <3>2. \A d \in Daemons : Alive(d)' => Alive(d)
        BY <1>1, <3>1 DEF Alive, DaemonTypes
      <3>3. QED
        BY <1>2, <2>1, <3>1, <3>2
    <2>4. CASE UNCHANGED <<daemonVars, counted>>
      BY <1>2, <2>1, <2>4 DEF Alive, daemonVars
    <2>5. QED
      <3>1. UNCHANGED <<daemonVars, counted>> \/ stopProcess(c) \/ Spawn(c)
        BY <1>4, Zenon DEF CliStep, readPIDFile, RemovePIDFile, ReadAgain, WritePIDFile
      <3>2. QED
        BY <2>2, <2>3, <2>4, <3>1
  <1>5. CASE \E d \in Daemons : \E j \in Jobs : invoke(d, j)
    <2>1. PICK d \in Daemons, j \in Jobs : invoke(d, j)
      BY <1>5
    <2>2. Alive(d) /\ UNCHANGED daemonVars /\ (update(d, 0) \/ update(d, 1))
      BY <2>1, InvokeEffect DEF Alive
    <2>3. QED
      BY <1>3, <2>2
  <1>6. CASE \E s \in Slots : JobStep(s)
    <2>1. PICK s \in Slots : JobStep(s)
      BY <1>6
    <2>2. DaemonOf(s) \in Daemons /\ UNCHANGED daemonVars
      BY <2>1, JobEffect DEF Slots, DaemonOf
    <2>3. CASE Finish(s)
      <3>1. update(DaemonOf(s), 1) /\ pc[s] = "finish"
        BY <2>3, Zenon DEF Finish
      <3>2. Alive(DaemonOf(s))
        BY <3>1 DEF Shape, SlotShape
      <3>3. QED
        BY <1>3, <2>2, <3>1, <3>2
    <2>4. CASE ~Finish(s)
      <3>1. UNCHANGED counts
        <4>1. JobCases(s)
          BY <2>1, JobEffect
        <4>2. QED
          BY <2>4, <4>1, WentEffect, Zenon DEF JobCases, ReadCursor, ReadEvents, drainOnly, Turned, Stayed
      <3>2. QED
        BY <1>2, <2>2, <3>1 DEF counts, daemonVars, Alive
    <2>5. QED
      BY <2>3, <2>4
  <1>7. ASSUME NEW d \in Daemons, Exit(d) \/ Crash(d)
        PROVE  CountInv'
    <2>1. status' = [status EXCEPT ![d] = "dead"] /\ UNCHANGED <<crowded, counted, stateFile, finished>>
      BY <1>7 DEF Exit, Crash, counts
    <2>2. \A o \in Daemons : Alive(o)' => Alive(o)
      BY <1>1, <2>1 DEF Alive, DaemonTypes
    <2>3. QED
      BY <1>2, <2>1, <2>2
  <1>8. CASE LogStep \/ UNCHANGED vars
    <2>1. UNCHANGED <<daemonVars, counts>>
      BY <1>8 DEF LogStep, vars
    <2>2. QED
      BY <1>2, <2>1 DEF Alive, daemonVars, counts
  <1>9. QED
    BY <1>4, <1>5, <1>6, <1>7, <1>8 DEF Next

-----------------------------------------------------------------------------
(* The outputs.                                                            *)

LEMMA OutputsApplied ==
  ASSUME Shape, OutputInv, NEW s \in Slots, Apply(s)
  PROVE  OutputsWhole' /\ fired' \subseteq ran' /\ UNCHANGED ran
  <1> DEFINE r == Head(queue[s])
             p == eventPayload(s)
             e == Event(s)
  <1>1. PICK k \in applyOutputs(r, p) :
          /\ applied' = applied \cup {<<r, e, i>> : i \in 1 .. k}
          /\ fired' = IF k = Len(RuleSet[r].write) THEN fired \cup {<<r, e>>} ELSE fired
    BY Zenon DEF Apply
  <1>2. pc[s] = "outputs" /\ UNCHANGED ran
    BY Zenon DEF Apply
  <1>3. r \in DOMAIN RuleSet
    <2>1. queue[s] # <<>> /\ queue[s] \in Seq(DOMAIN RuleSet)
      BY <1>2 DEF Shape, SlotTypes, SlotShape
    <2>2. QED
      BY <2>1, TailIs
  <1>4. p = IF e = 0 THEN {} ELSE Payload(e)
    <2>1. CASE JobOf(s) = "dispatch"
      <3>1. e # 0
        BY <1>2, <2>1, HeadFacts DEF HeadTyped, Event
      <3>2. QED
        BY <2>1, <3>1 DEF eventPayload
    <2>2. CASE JobOf(s) # "dispatch"
      BY <2>2 DEF eventPayload, Event
    <2>3. QED
      BY <2>1, <2>2
  <1> HIDE DEF p, e, r
  <1>5. Len(RuleSet[r].write) \in Nat /\ Places(r) = 1 .. Len(RuleSet[r].write)
    <2>1. RuleSet[r].write \in Seq(SUBSET STRING)
      BY <1>3, RulesTyped
    <2>2. QED
      BY <2>1, LenProperties DEF Places
  <1>6. \/ k = 0
        \/ k \in Nat /\ \A j \in Places(r) : Resolves(r, j, p)
    <2>1. CASE \E i \in Places(r) : ~Resolves(r, i, p)
      BY <1>1, <2>1, Zenon DEF applyOutputs
    <2>2. CASE ~\E i \in Places(r) : ~Resolves(r, i, p)
      <3>1. applyOutputs(r, p) \subseteq {0} \cup Places(r) \/ applyOutputs(r, p) = {Len(RuleSet[r].write)}
        BY <2>2, Zenon DEF applyOutputs
      <3>2. k \in Nat
        BY <1>1, <1>5, <3>1
      <3>3. QED
        BY <2>2, <3>2
    <2>3. QED
      BY <2>1, <2>2
  <1>7. ASSUME NEW a \in applied', NEW j \in Places(a[1])
        PROVE  Resolves(a[1], j, IF a[2] = 0 THEN {} ELSE Payload(a[2]))
    <2>1. CASE a \in applied
      BY <1>7, <2>1 DEF OutputInv, OutputsWhole
    <2>2. CASE a \notin applied
      <3>1. PICK i \in 1 .. k : a = <<r, e, i>>
        BY <1>1, <2>2
      <3>2. a[1] = r /\ a[2] = e
        BY <3>1
      <3>3. k # 0
        BY <3>1
      <3>4. Resolves(r, j, p)
        BY <1>6, <1>7, <3>2, <3>3
      <3>5. QED
        BY <1>4, <3>2, <3>4
    <2>3. QED
      BY <2>1, <2>2
  <1>8. ASSUME NEW f \in fired', NEW i \in Places(f[1])
        PROVE  <<f[1], f[2], i>> \in applied'
    <2>1. CASE f \in fired
      BY <1>1, <1>8, <2>1 DEF OutputInv, OutputsWhole
    <2>2. CASE f \notin fired
      <3>1. f = <<r, e>> /\ k = Len(RuleSet[r].write)
        BY <1>1, <2>2
      <3>2. i \in 1 .. k /\ f[1] = r /\ f[2] = e
        BY <1>5, <1>8, <3>1
      <3>3. QED
        BY <1>1, <3>2
    <2>3. QED
      BY <2>1, <2>2
  <1>9. fired' \subseteq ran'
    <2>1. <<r, e>> \in ran
      BY <1>2 DEF OutputInv, RanInv, r, e
    <2>2. QED
      BY <1>1, <1>2, <2>1 DEF OutputInv
  <1>10. OutputsWhole'
    <2>1. /\ \A a \in applied' : \A j \in Places(a[1]) :
               Resolves(a[1], j, IF a[2] = 0 THEN {} ELSE Payload(a[2]))
          /\ \A f \in fired' : \A i \in Places(f[1]) : <<f[1], f[2], i>> \in applied'
      BY <1>7, <1>8
    <2>2. QED
      BY <2>1 DEF OutputsWhole, Places, Resolves, expandTemplate
  <1>11. QED
    BY <1>2, <1>9, <1>10

LEMMA OutputInvPreserved ==
  ASSUME Shape, OutputInv, [Next]_vars
  PROVE  OutputInv'
  <1>1. ASSUME UNCHANGED ruleVars
        PROVE  OutputsWhole' /\ fired' \subseteq ran'
    <2>1. UNCHANGED <<ran, fired, applied>>
      BY <1>1 DEF ruleVars
    <2>2. QED
      BY <2>1 DEF OutputInv, OutputsWhole, Places, Resolves, expandTemplate
  <1>2. ASSUME NEW s \in Slots, SlotSame(s), ran \subseteq ran'
        PROVE  pc'[s] = "outputs" => <<Head(queue'[s]), Event(s)'>> \in ran'
    BY <1>2 DEF OutputInv, RanInv, SlotSame, Event
  <1>3. ASSUME UNCHANGED ruleVars, \A s \in Slots : SlotSame(s) \/ pc'[s] # "outputs"
        PROVE  OutputInv'
    <2>1. OutputsWhole' /\ fired' \subseteq ran' /\ ran \subseteq ran'
      BY <1>1, <1>3 DEF ruleVars
    <2>2. RanInv'
      BY <1>2, <1>3, <2>1 DEF RanInv
    <2>3. QED
      BY <2>1, <2>2 DEF OutputInv
  <1>4. ASSUME NEW s \in Slots, JobStep(s)
        PROVE  OutputInv'
    <2>1. SlotStep(s)
      BY <1>4, JobEffect
    <2>2. ASSUME pc'[s] # "outputs", UNCHANGED ruleVars
          PROVE  OutputInv'
      BY <1>3, <2>1, <2>2 DEF SlotStep
    <2>3. ASSUME pc'[s] = "outputs" => <<Head(queue'[s]), Event(s)'>> \in ran',
                 ran \subseteq ran', OutputsWhole', fired' \subseteq ran'
          PROVE  OutputInv'
      BY <1>2, <2>1, <2>3 DEF SlotStep, OutputInv, RanInv
    <2>4. CASE fire(s)
      <3>1. /\ UNCHANGED <<fired, applied>>
            /\ \/ ran' = ran /\ pc'[s] # "outputs"
               \/ /\ ran' = ran \cup {<<Head(queue[s]), Event(s)>>}
                  /\ UNCHANGED <<batch, queue>>
        BY <2>4, FireEffect
      <3>2. OutputsWhole' /\ fired' \subseteq ran' /\ ran \subseteq ran'
        BY <3>1 DEF OutputInv, OutputsWhole, Places, Resolves, expandTemplate
      <3>3. pc'[s] = "outputs" => <<Head(queue'[s]), Event(s)'>> \in ran'
        BY <3>1 DEF Event
      <3>4. QED
        BY <2>3, <3>2, <3>3
    <2>5. CASE Apply(s)
      BY <2>3, <2>5, OutputsApplied, ApplyEffect
    <2>6. CASE StartRule(s)
      BY <2>2, <2>6, StartRuleEffect
    <2>7. CASE ReadCursor(s)
      <3>1. UNCHANGED ruleVars
        BY <2>7, Zenon DEF ReadCursor
      <3>2. QED
        BY <2>2, <2>7, <3>1, ReadCursorEffect
    <2>8. CASE ReadEvents(s)
      <3>1. UNCHANGED ruleVars /\ Begun(s, After(s))
        BY <2>8, ReadEventsEffect, Zenon DEF ReadEvents
      <3>2. QED
        BY <2>2, <3>1 DEF Begun
    <2>9. CASE DispatchNone(s)
      <3>1. UNCHANGED ruleVars /\ EventOver(s) /\ pc[s] = "event" /\ UNCHANGED from
        BY <2>9, Zenon DEF DispatchNone
      <3>2. JobOf(s) = "dispatch"
        BY <3>1 DEF Shape, SlotShape, Drains
      <3>3. Begun(s, Tail(batch[s]))
        BY <3>1, <3>2, EventOverEffect
      <3>4. QED
        BY <2>2, <3>1, <3>3 DEF Begun
    <2>10. CASE Seed(s) \/ TruncateCursor(s) \/ WriteCursor(s) \/ Rotate(s)
      <3>1. UNCHANGED ruleVars
        BY <2>10, Zenon DEF Seed, TruncateCursor, WriteCursor, Rotate
      <3>2. QED
        BY <2>2, <2>10, <3>1, WentEffect DEF Went
    <2>11. CASE Finish(s)
      <3>1. UNCHANGED ruleVars
        BY <2>11, Zenon DEF Finish
      <3>2. QED
        BY <2>2, <2>11, <3>1, FinishEffect
    <2>12. QED
      BY <1>4, <2>4, <2>5, <2>6, <2>7, <2>8, <2>9, <2>10, <2>11 DEF JobStep
  <1>5. ASSUME UNCHANGED <<ruleVars, pc, drain>>
        PROVE  OutputInv'
    BY <1>3, <1>5 DEF SlotSame, drain
  <1>6. CASE \E d \in Daemons : \E j \in Jobs : invoke(d, j)
    <2>1. PICK d \in Daemons, j \in Jobs : invoke(d, j)
      BY <1>6
    <2>2. UNCHANGED <<ruleVars, drain>>
      BY <2>1, InvokeEffect
    <2>3. CASE UNCHANGED pc
      BY <1>5, <2>2, <2>3
    <2>4. ASSUME NEW s \in Slots, Goto(s, FirstStep(j))
          PROVE  OutputInv'
      <3>1. FirstStep(j) # "outputs"
        <4>1. j \in {"dispatch", "rotate", "rule"}
          BY <2>1, AutomationAssumption
        <4>2. QED
          BY <4>1 DEF FirstStep
      <3>2. pc'[s] = FirstStep(j) /\ \A t \in Slots \ {s} : pc'[t] = pc[t]
        BY <2>4 DEF Goto, Shape, SlotTypes
      <3>3. \A t \in Slots \ {s} : SlotSame(t)
        BY <2>2, <3>2 DEF SlotSame, drain
      <3>4. QED
        BY <1>3, <2>2, <3>1, <3>2, <3>3
    <2>5. QED
      BY <2>1, <2>3, <2>4, InvokeEffect
  <1>7. CASE \E d \in Daemons : Crash(d)
    <2>1. PICK d \in Daemons : Crash(d)
      BY <1>7
    <2>2. UNCHANGED ruleVars
      BY <2>1 DEF Crash
    <2>3. QED
      BY <1>3, <2>1, <2>2, CrashEffect DEF Reset
  <1>8. CASE \E c \in Clis : CliStep(c)
    BY <1>5, <1>8, CliEffect
  <1>9. CASE LogStep \/ UNCHANGED vars \/ \E d \in Daemons : Exit(d)
    <2>1. UNCHANGED <<ruleVars, pc, drain>>
      BY <1>9 DEF LogStep, vars, Exit
    <2>2. QED
      BY <1>5, <2>1
  <1>10. QED
    BY <1>4, <1>6, <1>7, <1>8, <1>9 DEF Next

-----------------------------------------------------------------------------
(* The follower.                                                           *)

LEMMA ConcatIs ==
  ASSUME NEW T, NEW s \in Seq(T), NEW u \in Seq(T)
  PROVE  /\ s \o u \in Seq(T) /\ ToSet(s \o u) = ToSet(s) \cup ToSet(u)
         /\ IsInjective(s) /\ IsInjective(u) /\ ToSet(s) \cap ToSet(u) = {} => IsInjective(s \o u)
  <1> DEFINE q == s \o u
             m == Len(s)
             n == Len(u)
  <1>1. m \in Nat /\ n \in Nat /\ DOMAIN s = 1 .. m /\ DOMAIN u = 1 .. n
    BY LenProperties
  <1>2. /\ q \in Seq(T) /\ DOMAIN q = 1 .. m + n
        /\ \A i \in 1 .. m + n : q[i] = IF i <= m THEN s[i] ELSE u[i - m]
    BY ConcatProperties, LenProperties
  <1> HIDE DEF q, m, n
  <1>3. ASSUME NEW i \in 1 .. m + n
        PROVE  \/ i \in DOMAIN s /\ q[i] = s[i]
               \/ i - m \in DOMAIN u /\ q[i] = u[i - m] /\ i - m + m = i
    BY <1>1, <1>2
  <1>4. \A i \in DOMAIN s : i \in DOMAIN q /\ q[i] = s[i]
    BY <1>1, <1>2
  <1>5. ASSUME NEW i \in DOMAIN u
        PROVE  m + i \in DOMAIN q /\ q[m + i] = u[i]
    <2>1. m + i \in 1 .. m + n /\ ~(m + i <= m) /\ m + i - m = i
      <3>1. \A k, x, y \in Nat : x >= 1 /\ x <= y => k + x \in 1 .. k + y /\ ~(k + x <= k) /\ k + x - k = x
        OBVIOUS
      <3>2. i \in Nat /\ i >= 1 /\ i <= n
        BY <1>1
      <3>3. QED
        BY <1>1, <3>1, <3>2
    <2>2. q[m + i] = IF m + i <= m THEN s[m + i] ELSE u[m + i - m]
      <3>1. \A k \in 1 .. m + n : q[k] = IF k <= m THEN s[k] ELSE u[k - m]
        BY <1>2
      <3>2. QED
        BY <1>1, <2>1, <3>1
    <2>3. q[m + i] = u[m + i - m]
      BY <2>1, <2>2, Zenon
    <2>4. QED
      BY <1>2, <2>1, <2>3, Zenon
  <1>6. ToSet(q) = ToSet(s) \cup ToSet(u)
    <2>1. \A i \in DOMAIN q : q[i] \in ToSet(s) \cup ToSet(u)
      BY <1>2, <1>3 DEF ToSet
    <2>2. \A i \in DOMAIN s : s[i] \in ToSet(q)
      BY <1>4 DEF ToSet
    <2>3. \A i \in DOMAIN u : u[i] \in ToSet(q)
      BY <1>5 DEF ToSet
    <2>4. QED
      BY <2>1, <2>2, <2>3 DEF ToSet
  <1>7. ASSUME IsInjective(s), IsInjective(u), ToSet(s) \cap ToSet(u) = {}
        PROVE  IsInjective(q)
    <2>1. ASSUME NEW i \in DOMAIN q, NEW j \in DOMAIN q, q[i] = q[j]
          PROVE  i = j
      <3>1. \A k \in DOMAIN s, l \in DOMAIN u : s[k] # u[l]
        BY <1>7 DEF ToSet
      <3>2. CASE i \in DOMAIN s /\ q[i] = s[i] /\ j \in DOMAIN s /\ q[j] = s[j]
        BY <1>7, <2>1, <3>2 DEF IsInjective
      <3>3. CASE /\ i - m \in DOMAIN u /\ q[i] = u[i - m] /\ i - m + m = i
                 /\ j - m \in DOMAIN u /\ q[j] = u[j - m] /\ j - m + m = j
        <4>1. i - m = j - m
          BY <1>7, <2>1, <3>3 DEF IsInjective
        <4>2. QED
          BY <3>3, <4>1
      <3>4. QED
        BY <1>2, <1>3, <2>1, <3>1, <3>2, <3>3
    <2>2. QED
      BY <2>1 DEF IsInjective
  <1>8. QED
    BY <1>2, <1>6, <1>7 DEF q

LEMMA AheadIs ==
  ASSUME LogTypes, seen \in Nat
  PROVE  LET new == SubSeq(log, seen + 1, Len(log))
         IN  new \in Seq(appended) /\ ToSet(new) = Ahead /\ IsInjective(new) /\ Ahead \subseteq ToSet(log)
  <1> DEFINE m == seen + 1
             n == Len(log)
             new == SubSeq(log, m, n)
  <1>1. m \in Nat /\ m >= 1 /\ n \in Nat /\ DOMAIN log = 1 .. n /\ \A i \in 1 .. n : log[i] \in appended
    BY LenProperties, ElementOfSeq DEF LogTypes
  <1>2. m \in Int /\ n \in Int /\ \A i \in m .. n : i \in 1 .. n /\ log[i] \in appended
    BY <1>1
  <1> HIDE DEF m, n
  <1>3. /\ new \in Seq(appended) /\ Len(new) = IF m <= n THEN n - m + 1 ELSE 0
        /\ \A i \in 1 .. n - m + 1 : new[i] = log[m + i - 1]
    BY <1>2, SubSeqProperties
  <1>4. DOMAIN new = 1 .. n - m + 1
    <2>1. DOMAIN new = 1 .. Len(new)
      BY <1>3, LenProperties
    <2>2. 1 .. Len(new) = 1 .. n - m + 1
      BY <1>1, <1>3
    <2>3. QED
      BY <2>1, <2>2
  <1> HIDE DEF new
  <1>5. Ahead = {log[i] : i \in m .. n}
    BY DEF Ahead, m, n
  <1>6. ASSUME NEW i \in 1 .. n - m + 1
        PROVE  m + i - 1 \in m .. n /\ new[i] = log[m + i - 1] /\ i \in Nat
    BY <1>1, <1>3
  <1>7. ASSUME NEW i \in m .. n
        PROVE  i - m + 1 \in 1 .. n - m + 1 /\ new[i - m + 1] = log[i]
    <2>1. i - m + 1 \in 1 .. n - m + 1 /\ m + (i - m + 1) - 1 = i
      BY <1>1
    <2>2. QED
      BY <1>3, <2>1
  <1>8. ToSet(new) = Ahead
    <2>1. \A i \in DOMAIN new : new[i] \in Ahead
      BY <1>4, <1>5, <1>6
    <2>2. \A i \in m .. n : log[i] \in ToSet(new)
      BY <1>4, <1>7 DEF ToSet
    <2>3. QED
      BY <1>5, <2>1, <2>2 DEF ToSet
  <1>9. IsInjective(new)
    <2>1. ASSUME NEW i \in DOMAIN new, NEW j \in DOMAIN new, new[i] = new[j]
          PROVE  i = j
      <3>1. /\ m + i - 1 \in DOMAIN log /\ m + j - 1 \in DOMAIN log
            /\ log[m + i - 1] = log[m + j - 1] /\ i \in Nat /\ j \in Nat
        BY <1>1, <1>2, <1>4, <1>6, <2>1
      <3>2. m + i - 1 = m + j - 1
        BY <3>1 DEF LogTypes, IsInjective
      <3>3. QED
        BY <1>1, <3>1, <3>2
    <2>2. QED
      BY <2>1 DEF IsInjective
  <1>10. Ahead \subseteq ToSet(log)
    BY <1>1, <1>2, <1>5 DEF ToSet
  <1>11. QED
    BY <1>3, <1>8, <1>9, <1>10 DEF new, m, n

LEMMA TailInvPreserved ==
  ASSUME Shape, TailInv, [Next]_vars
  PROVE  TailInv'
  <1>1. LogTypes /\ seen \in Nat /\ Len(log) \in Nat
    BY LenProperties DEF Shape, TailInv, LogTypes
  <1>2. ASSUME UNCHANGED <<log, stranded, appended, tail>>
        PROVE  TailInv'
    BY <1>2 DEF TailInv, Ahead, tail
  <1>3. CASE LogStep
    <2>1. CASE TakeStamp
      BY <1>2, <2>1 DEF TakeStamp
    <2>2. CASE Follow
      <3>1. /\ Len(log) > seen /\ seen' = Len(log)
            /\ tailed' = tailed \o SubSeq(log, seen + 1, Len(log))
            /\ UNCHANGED <<log, stranded, appended, missed>>
        BY <2>2 DEF Follow, ReadAll, logVars
      <3>2. tailed' \in Seq(appended) /\ ToSet(tailed') = ToSet(tailed) \cup Ahead /\ IsInjective(tailed')
        <4> DEFINE new == SubSeq(log, seen + 1, Len(log))
        <4>1. new \in Seq(appended) /\ ToSet(new) = Ahead /\ IsInjective(new)
          BY <1>1, AheadIs
        <4>2. tailed' = tailed \o new
          BY <3>1
        <4> HIDE DEF new
        <4>3. tailed \in Seq(appended) /\ IsInjective(tailed) /\ ToSet(tailed) \cap ToSet(new) = {}
          BY <4>1 DEF TailInv
        <4>4. QED
          BY <4>1, <4>2, <4>3, ConcatIs
      <3>3. Ahead' = {}
        <4>1. seen' + 1 .. Len(log') = {}
          BY <1>1, <3>1
        <4>2. QED
          BY <4>1 DEF Ahead
      <3>4. QED
        BY <1>1, <3>1, <3>2, <3>3 DEF TailInv
    <2>3. ASSUME NEW e \in pending, AppendLine(e), e \notin stranded
          PROVE  TailInv'
      <3>1. /\ log' = Append(log, e) /\ appended' = appended \cup {e}
            /\ missed' = IF Len(log) < seen THEN missed \cup {e} ELSE missed
            /\ UNCHANGED <<stranded, seen, tailed>>
        BY <2>3 DEF AppendLine
      <3>2. e \notin appended /\ log \in Seq(appended)
        BY <1>1 DEF LogTypes
      <3>3. Len(log') = Len(log) + 1 /\ log'[Len(log) + 1] = e /\ \A i \in 1 .. Len(log) : log'[i] = log[i]
        BY <3>1, <3>2, AppendedLine
      <3>4. e \notin ToSet(tailed) /\ ToSet(tailed) \subseteq appended
        BY <3>2, ElementOfSeq DEF TailInv, ToSet
      <3>5. tailed' \in Seq(appended')
        <4>1. DOMAIN tailed = 1 .. Len(tailed) /\ Len(tailed) \in Nat /\ \A i \in DOMAIN tailed : tailed[i] \in appended'
          BY <3>1, ElementOfSeq, LenProperties DEF TailInv
        <4>2. tailed = [i \in 1 .. Len(tailed) |-> tailed[i]]
          BY <4>1 DEF TailInv
        <4>3. QED
          BY <3>1, <4>1, <4>2
      <3>6. CASE Len(log) < seen
        <4>1. seen' + 1 .. Len(log') = {} /\ seen + 1 .. Len(log) = {}
          BY <1>1, <3>1, <3>3, <3>6
        <4>2. Ahead' = {} /\ Ahead = {}
          BY <4>1 DEF Ahead
        <4>3. missed' = missed \cup {e} /\ missed' \subseteq appended' \cup stranded'
          BY <3>1, <3>6 DEF TailInv
        <4>4. appended' \subseteq ToSet(tailed') \cup missed' \cup Ahead'
          BY <3>1, <4>2, <4>3 DEF TailInv
        <4>5. QED
          BY <3>1, <3>2, <3>4, <3>5, <4>2, <4>3, <4>4 DEF TailInv
      <3>7. CASE ~(Len(log) < seen)
        <4>1. seen' + 1 .. Len(log') = (seen + 1 .. Len(log)) \cup {Len(log) + 1}
          BY <1>1, <3>1, <3>3, <3>7
        <4>2. \A i \in seen + 1 .. Len(log) : log'[i] = log[i]
          BY <1>1, <3>3
        <4>3. Ahead' = Ahead \cup {e}
          BY <3>3, <4>1, <4>2 DEF Ahead
        <4>4. UNCHANGED missed /\ missed' \subseteq appended' \cup stranded'
          BY <3>1, <3>7 DEF TailInv
        <4>5. e \notin missed
          BY <2>3, <3>2 DEF TailInv
        <4>6. /\ ToSet(tailed) \cap missed = {} /\ Ahead' \cap (ToSet(tailed) \cup missed) = {}
              /\ appended' \subseteq ToSet(tailed) \cup missed \cup Ahead'
          BY <3>1, <3>4, <4>3, <4>5 DEF TailInv
        <4>7. QED
          BY <3>1, <3>5, <4>4, <4>6 DEF TailInv
      <3>8. QED
        BY <3>6, <3>7
    <2>4. ASSUME NEW e \in pending, AppendLine(e), e \in stranded
          PROVE  TailInv'
      <3>1. appended' = appended \cup {e} /\ UNCHANGED <<log, stranded, seen, tailed, missed>>
        BY <2>4 DEF AppendLine
      <3>2. tailed' \in Seq(appended')
        BY <3>1, AppendedType DEF TailInv
      <3>3. UNCHANGED Ahead
        BY <3>1 DEF Ahead
      <3>4. QED
        BY <2>4, <3>1, <3>2, <3>3 DEF TailInv
    <2>5. QED
      BY <1>3, <2>1, <2>2, <2>3, <2>4 DEF LogStep
  <1>4. ASSUME NEW s \in Slots, Rotate(s)
        PROVE  TailInv'
    <2>1. CASE Len(log) >= RotateAt
      <3>1. PICK opened \in SUBSET pending :
              /\ log' = <<>> /\ stranded' = stranded \cup opened
              /\ missed' = missed \cup ToSet(SubSeq(log, seen + 1, Len(log))) \cup opened
              /\ UNCHANGED <<appended, seen, tailed>>
        BY <1>4, <2>1 DEF Rotate, RotateIfLarge
      <3>2. missed' = missed \cup Ahead \cup opened /\ Ahead \subseteq appended
        BY <1>1, <3>1, AheadIs, StampFacts
      <3>3. ToSet(tailed) \cap opened = {}
        BY <1>1, <3>1, ElementOfSeq DEF TailInv, ToSet, LogTypes
      <3>4. Ahead' = {}
        <4>1. seen' + 1 .. Len(log') = {}
          BY <1>1, <3>1
        <4>2. QED
          BY <4>1 DEF Ahead
      <3>5. QED
        BY <3>1, <3>2, <3>3, <3>4 DEF TailInv
    <2>2. CASE ~(Len(log) >= RotateAt)
      <3>1. UNCHANGED <<log, stranded, appended, seen, tailed, missed>>
        BY <1>4, <2>2 DEF Rotate, RotateIfLarge
      <3>2. QED
        BY <1>2, <3>1 DEF tail
    <2>3. QED
      BY <2>1, <2>2
  <1>5. CASE \E s \in Slots : JobStep(s)
    <2>1. PICK s \in Slots : JobStep(s)
      BY <1>5
    <2>2. CASE ~Rotate(s)
      <3>1. JobCases(s)
        BY <2>1, JobEffect
      <3>2. UNCHANGED <<log, stranded, appended, tail>>
        BY <2>2, <3>1, Zenon DEF JobCases, ReadCursor, Seed, ReadEvents, Turned, Stayed, TruncateCursor,
                                 WriteCursor, Finish, drainOnly, logVars
      <3>3. QED
        BY <1>2, <3>2
    <2>3. QED
      BY <1>4, <2>2
  <1>6. CASE \E d \in Daemons : \E j \in Jobs : invoke(d, j)
    <2>1. UNCHANGED <<logVars, tail>>
      BY <1>6, InvokeEffect
    <2>2. QED
      BY <1>2, <2>1 DEF logVars
  <1>7. CASE \E c \in Clis : CliStep(c)
    <2>1. UNCHANGED <<logVars, tail>>
      BY <1>7, CliEffect
    <2>2. QED
      BY <1>2, <2>1 DEF logVars
  <1>8. CASE UNCHANGED vars \/ \E d \in Daemons : Exit(d) \/ Crash(d)
    <2>1. UNCHANGED <<logVars, tail>>
      BY <1>8 DEF vars, Exit, Crash
    <2>2. QED
      BY <1>2, <2>1 DEF logVars
  <1>9. QED
    BY <1>3, <1>5, <1>6, <1>7, <1>8 DEF Next

LEMMA OneOrNone ==
  ASSUME NEW K, \A i, j \in K : i = j
  PROVE  Cardinality(K) = IF K = {} THEN 0 ELSE 1
  <1>1. CASE K = {}
    BY <1>1, FS_EmptySet
  <1>2. ASSUME NEW i \in K
        PROVE  Cardinality(K) = 1
    <2>1. K = {i}
      OBVIOUS
    <2>2. Cardinality({i}) = 1
      BY FS_Singleton
    <2>3. QED
      BY <2>1, <2>2
  <1>3. QED
    BY <1>1, <1>2

LEMMA TailInvImplies ==
  ASSUME LogTypes, TailInv
  PROVE  TailedOnce
  <1> SUFFICES ASSUME NEW e \in appended
               PROVE  Cardinality({i \in 1 .. Len(tailed) : tailed[i] = e})
                        + Cardinality({i \in seen + 1 .. Len(log) : log[i] = e})
                        + (IF e \in missed THEN 1 ELSE 0) = 1
    BY DEF TailedOnce
  <1> DEFINE K == {i \in 1 .. Len(tailed) : tailed[i] = e}
             L == {i \in seen + 1 .. Len(log) : log[i] = e}
  <1>1. DOMAIN tailed = 1 .. Len(tailed) /\ DOMAIN log = 1 .. Len(log) /\ Len(log) \in Nat /\ seen \in Nat
    BY LenProperties DEF TailInv, LogTypes
  <1>2. \A i, j \in K : i = j
    BY <1>1 DEF TailInv, IsInjective
  <1>3. \A i, j \in L : i = j
    <2>1. \A i \in L : i \in DOMAIN log /\ log[i] = e
      BY <1>1
    <2>2. QED
      BY <2>1 DEF LogTypes, IsInjective
  <1>4. K # {} <=> e \in ToSet(tailed)
    BY <1>1 DEF ToSet
  <1>5. L # {} <=> e \in Ahead
    BY DEF Ahead
  <1>6. /\ Cardinality(K) = IF K = {} THEN 0 ELSE 1
        /\ Cardinality(L) = IF L = {} THEN 0 ELSE 1
    <2> HIDE DEF K, L
    <2>1. QED
      BY <1>2, <1>3, OneOrNone
  <1> HIDE DEF K, L
  <1>7. Cardinality(K) + Cardinality(L) + (IF e \in missed THEN 1 ELSE 0) = 1
    BY <1>4, <1>5, <1>6 DEF TailInv
  <1>8. QED
    BY <1>7 DEF K, L

-----------------------------------------------------------------------------
(* No event is lost.                                                       *)

LEMMA SafeKept ==
  ASSUME NEW e, taken[e] > 0 => taken'[e] > 0, late \subseteq late', skipped \subseteq skipped',
         e \in ToSet(log') => e \in ToSet(log),
         InBatch(e) /\ e \notin ToSet(log) => InBatch(e)' \/ taken'[e] > 0 \/ e \in skipped'
  PROVE  Safe(e) => Safe(e)'
  BY DEF Safe

LEMMA LostKept ==
  ASSUME Shape, Shape', LostInv,
         \A e \in appended : Safe(e) => Safe(e)',
         appended \subseteq appended', \A e \in appended : stamp'[e] = stamp[e], seeded <= seeded',
         stranded' \subseteq skipped', \A e \in stranded' : e \in stranded \/ e \notin appended,
         \A e \in appended' \ ToSet(log') : e \in appended \ ToSet(log) \/ Safe(e)',
         \A e \in appended' \ appended : \A t \in Nat : Reached(t) /\ stamp'[e] <= t => Safe(e)',
         cursor' \in {cursor, 0} \/ (Passed(cursor)' /\ Reached(cursor)'),
         \A s \in Slots : from'[s] \in {from[s], cursor, 0},
         \A s \in Slots :
           \/ /\ done'[s] \cup ToSet(batch'[s]) \subseteq done[s] \cup ToSet(batch[s])
              /\ \A e \in ToSet(batch[s]) : e \in ToSet(batch'[s]) \/ Safe(e)'
           \/ /\ \A f \in done'[s] \cup ToSet(batch'[s]), e \in appended' :
                   stamp'[e] <= stamp'[f] => Safe(e)' \/ e \in ToSet(batch'[s])
              /\ (done'[s] \cup ToSet(batch'[s])) \cap stranded' = {}
  PROVE  LostInv'
  <1>1. /\ LogTypes /\ LogTypes' /\ cursor \in Nat /\ \A s \in Slots : from[s] \in Nat
        /\ \A s \in Slots : SlotShape(s)
    BY DEF Shape, LedgerTypes, SlotTypes
  <1>2. /\ \A e \in appended : stamp[e] \in Nat /\ stamp[e] >= 1
        /\ \A e \in appended' : stamp'[e] \in Nat /\ stamp'[e] >= 1
        /\ seeded \in Nat /\ seeded' \in Nat
    <2>1. \A e \in appended : stamp[e] \in Nat /\ stamp[e] >= 1
      BY <1>1, StampFacts
    <2>2. \A e \in appended' : stamp'[e] \in Nat /\ stamp'[e] >= 1
      <3>1. stamp' \in Seq(Nat) /\ appended' \subseteq Events' /\ Events' = 1 .. Len(stamp')
        BY <1>1 DEF LogTypes, Events
      <3>2. \A e \in Events' : stamp'[e] \in Nat /\ 1 <= stamp'[e]
        BY <1>1, <3>1, ElementOfSeq DEF LogTypes
      <3>3. QED
        BY <3>1, <3>2
    <2>3. QED
      BY <1>1, <2>1, <2>2 DEF LogTypes
  <1>3. ASSUME NEW t \in Nat, Passed(t), Reached(t)
        PROVE  Passed(t)' /\ Reached(t)'
    <2>1. Passed(t)'
      BY <1>2, <1>3 DEF Passed
    <2>2. Reached(t)'
      BY <1>2, <1>3 DEF Reached
    <2>3. QED
      BY <2>1, <2>2
  <1>4. Passed(0)' /\ Reached(0)'
    BY <1>2 DEF Passed, Reached
  <1>5. Passed(cursor)' /\ Reached(cursor)'
    <2>1. CASE cursor' = cursor
      <3>1. Passed(cursor) /\ Reached(cursor)
        BY DEF LostInv
      <3>2. ASSUME NEW t \in Nat, t = cursor
            PROVE  Passed(t)' /\ Reached(t)'
        BY <1>3, <3>1, <3>2
      <3>3. QED
        BY <1>1, <2>1, <3>2 DEF Passed, Reached
    <2>2. CASE cursor' = 0
      BY <1>4, <2>2 DEF Passed, Reached
    <2>3. QED
      BY <2>1, <2>2
  <1>6. ASSUME NEW s \in Slots
        PROVE  Passed(from[s])' /\ Reached(from[s])'
    <2>1. PICK t \in Nat : t = from'[s] /\ Passed(t)' /\ Reached(t)'
      <3>1. CASE from'[s] = from[s] \/ from'[s] = cursor
        BY <1>1, <1>3, <3>1 DEF LostInv
      <3>2. CASE from'[s] = 0
        BY <1>4, <3>2
      <3>3. QED
        BY <3>1, <3>2
    <2>2. QED
      BY <2>1 DEF Passed, Reached
  <1>7. ASSUME NEW s \in Slots, NEW f \in done'[s] \cup ToSet(batch'[s]), NEW e \in appended',
               stamp'[e] <= stamp'[f]
        PROVE  Safe(e)' \/ e \in ToSet(batch'[s])
    <2>1. CASE /\ done'[s] \cup ToSet(batch'[s]) \subseteq done[s] \cup ToSet(batch[s])
               /\ \A x \in ToSet(batch[s]) : x \in ToSet(batch'[s]) \/ Safe(x)'
      <3>1. f \in appended \ stranded /\ f \in done[s] \cup ToSet(batch[s])
        BY <1>1, <2>1 DEF SlotShape, LostInv
      <3>2. stamp'[f] = stamp[f] /\ stamp[f] \in Nat
        BY <1>2, <3>1
      <3>3. CASE e \in appended
        <4>1. stamp[e] <= stamp[f]
          BY <1>7, <3>2, <3>3
        <4>2. Safe(e) \/ e \in ToSet(batch[s])
          BY <3>1, <3>3, <4>1 DEF LostInv
        <4>3. QED
          BY <2>1, <3>3, <4>2
      <3>4. CASE e \notin appended
        <4>1. Reached(stamp[f])
          BY <1>2, <3>1 DEF Reached
        <4>2. QED
          BY <1>7, <3>2, <3>4, <4>1
      <3>5. QED
        BY <3>3, <3>4
    <2>2. QED
      BY <1>7, <2>1
  <1>8. \A e \in appended' \ ToSet(log') : Safe(e)'
    BY DEF LostInv
  <1>9. ASSUME NEW s \in Slots
        PROVE  (done'[s] \cup ToSet(batch'[s])) \cap stranded' = {}
    <2>1. (done[s] \cup ToSet(batch[s])) \cap stranded' = {}
      BY <1>1 DEF SlotShape, LostInv
    <2>2. QED
      BY <2>1
  <1>10. QED
    BY <1>5, <1>6, <1>7, <1>8, <1>9 DEF LostInv

LEMMA LostQuiet ==
  ASSUME Shape, Shape', LostInv, UNCHANGED <<stamp, log, stranded, appended, late, seeded, taken, skipped>>,
         cursor' \in {cursor, 0},
         \A s \in Slots : /\ batch'[s] = batch[s] /\ done'[s] \subseteq done[s]
                          /\ from'[s] \in {from[s], cursor, 0}
  PROVE  LostInv'
  <1>1. \A e \in appended : Safe(e) => Safe(e)'
    BY DEF Safe, InBatch
  <1>2. seeded <= seeded' /\ stranded' \subseteq skipped'
    BY DEF Shape, LogTypes, LostInv
  <1>3. QED
    BY <1>1, <1>2, LostKept

LEMMA LostByTurn ==
  ASSUME Shape, Shape', LostInv, NEW s \in Slots, SlotStep(s), Turned(s)
  PROVE  LostInv'
  <1>1. /\ Begun(s, Tail(batch[s])) /\ done'[s] = done[s] \cup {Head(batch[s])}
        /\ taken' = [taken EXCEPT ![Head(batch[s])] = @ + 1] /\ from' = from
        /\ UNCHANGED <<stamp, log, stranded, appended, late, seeded, skipped, cursor>>
    BY Zenon DEF Turned, logVars
  <1>2. batch[s] # <<>> /\ Head(batch[s]) \in 1 .. MaxEvents /\ batch[s] \in Seq(Nat)
    BY HeadFacts DEF Turned, HeadTyped, Shape, SlotTypes
  <1>3. ToSet(batch[s]) = {Head(batch[s])} \cup ToSet(batch'[s])
    BY <1>1, <1>2, TailIs DEF Begun
  <1>4. appended \subseteq 1 .. MaxEvents
    BY StampFacts DEF Shape
  <1>5. taken'[Head(batch[s])] > 0 /\ \A e \in appended : taken[e] > 0 => taken'[e] > 0
    BY <1>1, <1>2, <1>4 DEF Shape, LedgerTypes
  <1>6. ASSUME NEW e \in appended
        PROVE  Safe(e) => Safe(e)'
    <2>1. ASSUME NEW t \in Slots, e \in ToSet(batch[t])
          PROVE  InBatch(e)' \/ taken'[e] > 0
      <3>1. CASE t = s
        BY <1>3, <1>5, <2>1, <3>1 DEF InBatch
      <3>2. CASE t # s
        BY <2>1, <3>2 DEF SlotStep, SlotSame, InBatch
      <3>3. QED
        BY <3>1, <3>2
    <2>2. QED
      BY <1>1, <1>5, <2>1, SafeKept DEF InBatch
  <1>7. \A e \in ToSet(batch[s]) : e \in ToSet(batch'[s]) \/ Safe(e)'
    <2>1. PICK h \in Nat : h = Head(batch[s])
      BY <1>2
    <2>2. Safe(h)'
      BY <1>5, <2>1 DEF Safe
    <2>3. QED
      BY <1>3, <2>1, <2>2
  <1>8. ASSUME NEW t \in Slots
        PROVE  /\ done'[t] \cup ToSet(batch'[t]) \subseteq done[t] \cup ToSet(batch[t])
               /\ \A e \in ToSet(batch[t]) : e \in ToSet(batch'[t]) \/ Safe(e)'
    <2>1. CASE t = s
      BY <1>1, <1>3, <1>7, <2>1
    <2>2. CASE t # s
      BY <2>2 DEF SlotStep, SlotSame
    <2>3. QED
      BY <2>1, <2>2
  <1>9. seeded <= seeded' /\ stranded' \subseteq skipped'
    BY <1>1 DEF Shape, LogTypes, LostInv
  <1>10. QED
    BY <1>1, <1>6, <1>8, <1>9, LostKept

LEMMA LostByRead ==
  ASSUME Shape, Shape', LostInv, NEW s \in Slots, ReadEvents(s)
  PROVE  LostInv'
  <1>1. SlotStep(s) /\ Begun(s, After(s))
    BY ReadEventsEffect
  <1>2. /\ pc[s] = "read"
        /\ UNCHANGED <<stamp, log, stranded, appended, late, seeded, skipped, cursor, taken, done, from>>
    BY Zenon DEF ReadEvents, logVars, ledger
  <1>3. /\ LogTypes /\ SlotTypes /\ SlotShape(s) /\ seeded \in Nat /\ from[s] \in Nat
        /\ batch[s] = <<>> /\ done[s] = {}
    BY <1>2 DEF Shape, SlotShape, LogTypes, SlotTypes
  <1>4. ToSet(batch'[s]) = {e \in ToSet(log) : stamp[e] > from[s]} /\ ToSet(batch[s]) = {}
    BY <1>1, <1>3, AfterIs, EmptyLog DEF Begun
  <1>5. ASSUME NEW e \in appended
        PROVE  Safe(e) => Safe(e)'
    <2>1. ASSUME InBatch(e)
          PROVE  InBatch(e)'
      BY <1>1, <1>4, <2>1 DEF InBatch, SlotStep, SlotSame
    <2>2. QED
      BY <1>2, <2>1, SafeKept
  <1>6. ASSUME NEW f \in done'[s] \cup ToSet(batch'[s]), NEW e \in appended', stamp'[e] <= stamp'[f]
        PROVE  Safe(e)' \/ e \in ToSet(batch'[s])
    <2>1. e \in appended /\ stamp[e] \in Nat
      BY <1>2, <1>3, StampFacts
    <2>2. Safe(e) \/ e \in ToSet(batch'[s])
      <3>1. CASE e \notin ToSet(log) \/ stamp[e] <= from[s]
        BY <2>1, <3>1 DEF LostInv, Passed
      <3>2. CASE e \in ToSet(log) /\ ~(stamp[e] <= from[s])
        BY <1>3, <1>4, <2>1, <3>2
      <3>3. QED
        BY <3>1, <3>2
    <2>3. QED
      BY <1>5, <2>1, <2>2
  <1>7. ASSUME NEW t \in Slots
        PROVE  \/ /\ done'[t] \cup ToSet(batch'[t]) \subseteq done[t] \cup ToSet(batch[t])
                  /\ \A e \in ToSet(batch[t]) : e \in ToSet(batch'[t]) \/ Safe(e)'
               \/ /\ \A f \in done'[t] \cup ToSet(batch'[t]), e \in appended' :
                       stamp'[e] <= stamp'[f] => Safe(e)' \/ e \in ToSet(batch'[t])
                  /\ (done'[t] \cup ToSet(batch'[t])) \cap stranded' = {}
    <2>1. CASE t = s
      <3>1. (done'[s] \cup ToSet(batch'[s])) \cap stranded' = {}
        BY <1>2, <1>3, <1>4 DEF LogTypes
      <3>2. QED
        BY <1>6, <2>1, <3>1
    <2>2. CASE t # s
      BY <1>1, <2>2 DEF SlotStep, SlotSame
    <2>3. QED
      BY <2>1, <2>2
  <1>8. seeded <= seeded' /\ stranded' \subseteq skipped'
    BY <1>2, <1>3 DEF LostInv
  <1>9. QED
    BY <1>2, <1>5, <1>7, <1>8, LostKept

LEMMA LostBySeed ==
  ASSUME Shape, Shape', LostInv, NEW s \in Slots, Seed(s)
  PROVE  LostInv'
  <1>1. /\ cursor' = clock /\ seeded' = clock /\ skipped' = skipped \cup {e \in ToSet(log) : taken[e] = 0}
        /\ UNCHANGED <<stamp, log, stranded, appended, late, taken, batch, done, from>>
    BY Zenon DEF Seed, drain
  <1>2. LogTypes /\ LedgerTypes /\ seeded \in Nat /\ seeded <= clock /\ clock \in Nat
    BY DEF Shape, LogTypes
  <1>3. ASSUME NEW e \in appended
        PROVE  Safe(e) => Safe(e)'
    BY <1>1, SafeKept DEF InBatch
  <1>4. ASSUME NEW e \in appended
        PROVE  Safe(e)'
    <2>1. CASE e \notin ToSet(log)
      BY <1>3, <2>1 DEF LostInv
    <2>2. CASE e \in ToSet(log)
      <3>1. taken[e] = 0 \/ taken[e] > 0
        BY <1>2, StampFacts DEF LedgerTypes
      <3>2. QED
        BY <1>1, <2>2, <3>1 DEF Safe
    <2>3. QED
      BY <2>1, <2>2
  <1>5. Passed(cursor)' /\ Reached(cursor)'
    BY <1>1, <1>2, <1>4 DEF Passed, Reached
  <1>6. stranded' \subseteq skipped'
    BY <1>1 DEF LostInv
  <1>7. QED
    BY <1>1, <1>2, <1>4, <1>5, <1>6, LostKept

LEMMA LostByWrite ==
  ASSUME Shape, Shape', LostInv, NEW s \in Slots, WriteCursor(s)
  PROVE  LostInv'
  <1>1. /\ pc[s] = "write" /\ cursor' = newCursor(s)
        /\ UNCHANGED <<stamp, log, stranded, appended, late, seeded, taken, skipped, batch, done, from>>
    BY Zenon DEF WriteCursor, drain, ledger, logVars
  <1>2. /\ LogTypes /\ done[s] # {} /\ batch[s] = <<>> /\ done[s] \subseteq appended
        /\ seeded \in Nat
    BY <1>1 DEF Shape, SlotShape, LogTypes
  <1>3. \A e \in appended : Safe(e) => Safe(e)'
    BY <1>1 DEF Safe, InBatch
  <1>4. PICK f \in done[s] : newCursor(s) = stamp[f]
    BY <1>2, NewCursorIs
  <1>5. \A e \in appended : stamp[e] <= stamp[f] => Safe(e)
    BY <1>2, EmptyLog DEF LostInv
  <1>6. Passed(cursor)'
    BY <1>1, <1>3, <1>4, <1>5 DEF Passed
  <1>7. Reached(cursor)'
    <2>1. f \in appended' \ stranded' /\ stamp'[f] = cursor' /\ stamp[f] \in Nat
      BY <1>1, <1>2, <1>4, StampFacts DEF LostInv
    <2>2. stamp'[f] >= cursor'
      BY <1>1, <2>1
    <2>3. QED
      BY <2>1, <2>2 DEF Reached
  <1>8. seeded <= seeded' /\ stranded' \subseteq skipped'
    BY <1>1, <1>2 DEF LostInv
  <1>9. QED
    BY <1>1, <1>3, <1>6, <1>7, <1>8, LostKept

LEMMA LostByRotation ==
  ASSUME Shape, Shape', LostInv, NEW s \in Slots, Rotate(s)
  PROVE  LostInv'
  <1>1. /\ skipped' = skipped \cup {e \in ToSet(log) \ ToSet(log') : taken[e] = 0 /\ ~InBatch(e)}
                              \cup stranded'
        /\ UNCHANGED <<batch, done, from, cursor, taken>>
    BY Zenon DEF Rotate, drain
  <1>2. /\ log' = <<>> \/ log' = log
        /\ stranded' \subseteq stranded \cup pending /\ UNCHANGED <<stamp, appended, late, seeded>>
    BY DEF Rotate, RotateIfLarge
  <1>3. LogTypes /\ LedgerTypes /\ ToSet(log) \subseteq appended /\ seeded \in Nat
    BY StampFacts DEF Shape, LogTypes
  <1>4. ToSet(log') \subseteq ToSet(log)
    BY <1>2, EmptyLog
  <1>5. \A e : InBatch(e) => InBatch(e)'
    BY <1>1 DEF InBatch
  <1>6. ASSUME NEW e \in appended
        PROVE  Safe(e) => Safe(e)'
    BY <1>1, <1>2, <1>4, <1>5, SafeKept
  <1>7. ASSUME NEW e \in ToSet(log) \ ToSet(log')
        PROVE  Safe(e)'
    <2>1. taken[e] = 0 \/ taken[e] > 0
      BY <1>3, StampFacts DEF LedgerTypes
    <2>2. CASE taken[e] > 0
      BY <1>1, <2>2 DEF Safe
    <2>3. CASE taken[e] = 0 /\ InBatch(e)
      BY <1>5, <1>7, <2>3 DEF Safe
    <2>4. CASE taken[e] = 0 /\ ~InBatch(e)
      BY <1>1, <1>7, <2>4 DEF Safe
    <2>5. QED
      BY <2>1, <2>2, <2>3, <2>4
  <1>8. seeded <= seeded' /\ stranded' \subseteq skipped' /\ pending \cap appended = {}
    BY <1>1, <1>2, <1>3 DEF LogTypes
  <1>9. \A e \in appended' \ ToSet(log') : e \in appended \ ToSet(log) \/ Safe(e)'
    BY <1>2, <1>7
  <1>10. QED
    BY <1>1, <1>2, <1>6, <1>8, <1>9, LostKept

LEMMA LostByStamp ==
  ASSUME Shape, Shape', LostInv, TakeStamp, UNCHANGED <<batch, done, from, cursor, taken, skipped>>
  PROVE  LostInv'
  <1>1. PICK now \in clock .. clock + 1 : stamp' = Append(stamp, now)
    BY DEF TakeStamp
  <1>2. UNCHANGED <<log, stranded, appended, late, seeded>>
    BY DEF TakeStamp
  <1>3. LogTypes /\ now \in Nat /\ seeded \in Nat
    BY DEF Shape, LogTypes
  <1>4. \A e \in appended : stamp'[e] = stamp[e]
    <2>1. \A e \in 1 .. Len(stamp) : stamp'[e] = stamp[e]
      BY <1>1, <1>3, AppendProperties DEF LogTypes
    <2>2. QED
      BY <1>3, <2>1, StampFacts
  <1>5. \A e \in appended : Safe(e) => Safe(e)'
    BY <1>2 DEF Safe, InBatch
  <1>6. seeded <= seeded' /\ stranded' \subseteq skipped'
    BY <1>2, <1>3 DEF LostInv
  <1>7. QED
    BY <1>2, <1>4, <1>5, <1>6, LostKept

LEMMA LostByLine ==
  ASSUME Shape, Shape', LostInv, NEW e0 \in pending, AppendLine(e0),
         UNCHANGED <<batch, done, from, cursor, taken, skipped>>
  PROVE  LostInv'
  <1>1. /\ log' = IF e0 \in stranded THEN log ELSE Append(log, e0)
        /\ appended' = appended \cup {e0} /\ UNCHANGED <<stamp, stranded, seeded>>
        /\ late' = IF seeded >= stamp[e0] \/ \E f \in appended \ stranded : stamp[f] >= stamp[e0]
                   THEN late \cup {e0} ELSE late
    BY DEF AppendLine
  <1>2. /\ LogTypes /\ seeded \in Nat /\ e0 \notin appended /\ e0 \in Events /\ log \in Seq(appended)
    BY DEF Shape, LogTypes
  <1>3. ToSet(log') = ToSet(log) \cup ({e0} \ stranded)
    <2>1. ToSet(Append(log, e0)) = ToSet(log) \cup {e0}
      BY <1>2, AppendedLine
    <2>2. QED
      BY <1>1, <2>1
  <1>4. ASSUME NEW e \in appended
        PROVE  Safe(e) => Safe(e)'
    <2>1. e \in ToSet(log') => e \in ToSet(log)
      BY <1>2, <1>3
    <2>2. late \subseteq late' /\ (InBatch(e) => InBatch(e)')
      BY <1>1 DEF InBatch
    <2>3. QED
      BY <2>1, <2>2, SafeKept
  <1>5. ASSUME NEW t \in Nat, Reached(t), stamp'[e0] <= t
        PROVE  Safe(e0)'
    <2>1. stamp[e0] \in Nat /\ \A f \in appended : stamp[f] \in Nat
      BY <1>2, StampFacts
    <2>2. seeded >= stamp[e0] \/ \E f \in appended \ stranded : stamp[f] >= stamp[e0]
      BY <1>1, <1>2, <1>5, <2>1 DEF Reached
    <2>3. QED
      BY <1>1, <2>2 DEF Safe
  <1>6. seeded <= seeded' /\ stranded' \subseteq skipped'
    BY <1>1, <1>2 DEF LostInv
  <1>7. \A e \in appended' \ ToSet(log') : e \in appended \ ToSet(log) \/ Safe(e)'
    <2>1. e0 \in stranded => Safe(e0)'
      BY <1>6, <1>1 DEF Safe
    <2>2. QED
      BY <1>1, <1>3, <2>1
  <1>8. QED
    BY <1>1, <1>4, <1>5, <1>6, <1>7, LostKept

LEMMA LostByCrash ==
  ASSUME Shape, Shape', LostInv, NEW d \in Daemons, Crash(d)
  PROVE  LostInv'
  <1>1. /\ skipped' = skipped \cup {e \in UNION {ToSet(batch[s]) : s \in Busy(d)} :
                                      taken[e] = 0 /\ e \notin ToSet(log)}
        /\ UNCHANGED <<logVars, cursor, taken>>
    BY Zenon DEF Crash
  <1>2. \A s \in Slots : IF s \in Busy(d) THEN Reset(s) ELSE SlotSame(s)
    BY CrashEffect
  <1>3. LogTypes /\ LedgerTypes /\ seeded \in Nat /\ \A s \in Slots : SlotShape(s)
    BY DEF Shape, LogTypes
  <1>4. UNCHANGED <<stamp, log, stranded, appended, late, seeded>>
    BY <1>1 DEF logVars
  <1>5. ASSUME NEW e \in appended
        PROVE  Safe(e) => Safe(e)'
    <2>1. taken[e] = 0 \/ taken[e] > 0
      BY <1>3, StampFacts DEF LedgerTypes
    <2>2. ASSUME NEW s \in Slots, e \in ToSet(batch[s]), e \notin ToSet(log)
          PROVE  InBatch(e)' \/ taken'[e] > 0 \/ e \in skipped'
      <3>1. CASE s \in Busy(d)
        BY <1>1, <2>1, <2>2, <3>1
      <3>2. CASE s \notin Busy(d)
        BY <1>2, <2>2, <3>2 DEF SlotSame, InBatch
      <3>3. QED
        BY <3>1, <3>2
    <2>3. QED
      BY <1>1, <1>4, <2>2, SafeKept DEF InBatch
  <1>6. ASSUME NEW s \in Slots
        PROVE  \/ /\ done'[s] \cup ToSet(batch'[s]) \subseteq done[s] \cup ToSet(batch[s])
                  /\ \A e \in ToSet(batch[s]) : e \in ToSet(batch'[s]) \/ Safe(e)'
               \/ /\ \A f \in done'[s] \cup ToSet(batch'[s]), e \in appended' :
                       stamp'[e] <= stamp'[f] => Safe(e)' \/ e \in ToSet(batch'[s])
                  /\ (done'[s] \cup ToSet(batch'[s])) \cap stranded' = {}
    <2>1. CASE s \in Busy(d)
      BY <1>2, <2>1, EmptyLog DEF Reset
    <2>2. CASE s \notin Busy(d)
      BY <1>2, <2>2 DEF SlotSame
    <2>3. QED
      BY <2>1, <2>2
  <1>7. \A s \in Slots : from'[s] \in {from[s], cursor, 0}
    BY <1>2 DEF Reset, SlotSame
  <1>8. seeded <= seeded' /\ stranded' \subseteq skipped'
    BY <1>1, <1>3, <1>4 DEF LostInv
  <1>9. QED
    BY <1>1, <1>4, <1>5, <1>6, <1>7, <1>8, LostKept

LEMMA LostInvPreserved ==
  ASSUME Shape, LostInv, [Next]_vars
  PROVE  LostInv'
  <1>1. Shape'
    BY ShapePreserved
  <1>2. ASSUME UNCHANGED <<logVars, cursor, taken, skipped, batch, done, from>>
        PROVE  LostInv'
    BY <1>1, <1>2, LostQuiet DEF logVars
  <1>3. ASSUME NEW s \in Slots, JobStep(s)
        PROVE  LostInv'
    <2>1. SlotStep(s) /\ JobCases(s)
      BY <1>3, JobEffect
    <2>2. ASSUME UNCHANGED <<logVars, taken, skipped>>, cursor' \in {cursor, 0}, batch'[s] = batch[s],
                 done'[s] \subseteq done[s], from'[s] \in {from[s], cursor, 0}
          PROVE  LostInv'
      <3>1. \A t \in Slots : /\ batch'[t] = batch[t] /\ done'[t] \subseteq done[t]
                             /\ from'[t] \in {from[t], cursor, 0}
        BY <2>1, <2>2 DEF SlotStep, SlotSame
      <3>2. QED
        BY <1>1, <2>2, <3>1, LostQuiet DEF logVars
    <2>3. CASE ReadCursor(s)
      <3>1. UNCHANGED <<logVars, cursor, taken, skipped, batch, done>>
        BY <2>3, Zenon DEF ReadCursor, ledger
      <3>2. QED
        BY <2>2, <2>3, <3>1, ReadCursorEffect
    <2>4. CASE Stayed(s)
      <3>1. UNCHANGED <<logVars, cursor, taken, skipped, batch, done, from>>
        BY <2>4, Zenon DEF Stayed, ledger
      <3>2. QED
        BY <2>2, <3>1
    <2>5. CASE TruncateCursor(s)
      <3>1. UNCHANGED <<logVars, taken, skipped, batch, done, from>>
        BY <2>5, Zenon DEF TruncateCursor, drain
      <3>2. cursor' \in {cursor, 0}
        BY <2>5 DEF TruncateCursor
      <3>3. QED
        BY <2>2, <3>1, <3>2
    <2>6. CASE Finish(s)
      <3>1. pc[s] = "finish" /\ UNCHANGED <<logVars, cursor, taken, skipped>>
        BY <2>6, Zenon DEF Finish, ledger
      <3>2. batch'[s] = <<>> /\ done'[s] = {} /\ from'[s] = 0 /\ batch[s] = <<>>
        BY <2>6, <3>1, FinishEffect DEF Shape, SlotShape
      <3>3. QED
        BY <2>2, <3>1, <3>2
    <2>7. QED
      BY <1>1, <2>1, <2>3, <2>4, <2>5, <2>6, LostByTurn, LostByRead, LostBySeed, LostByWrite,
         LostByRotation DEF JobCases
  <1>4. CASE LogStep
    <2>1. UNCHANGED <<batch, done, from, cursor, taken, skipped>>
      BY <1>4 DEF LogStep, drain, ledger
    <2>2. CASE Follow
      BY <1>2, <2>1, <2>2 DEF Follow
    <2>3. QED
      BY <1>1, <1>4, <2>1, <2>2, LostByStamp, LostByLine DEF LogStep
  <1>5. CASE \E d \in Daemons : Crash(d)
    BY <1>1, <1>5, LostByCrash
  <1>6. CASE \E d \in Daemons : \E j \in Jobs : invoke(d, j)
    <2>1. UNCHANGED <<logVars, cursor, drain, ledger>>
      BY <1>6, InvokeEffect
    <2>2. QED
      BY <1>2, <2>1 DEF drain, ledger
  <1>7. CASE \E c \in Clis : CliStep(c)
    <2>1. UNCHANGED <<logVars, cursor, drain, ledger>>
      BY <1>7, CliEffect
    <2>2. QED
      BY <1>2, <2>1 DEF drain, ledger
  <1>8. CASE UNCHANGED vars \/ \E d \in Daemons : Exit(d)
    <2>1. UNCHANGED <<logVars, cursor, drain, ledger>>
      BY <1>8 DEF vars, Exit
    <2>2. QED
      BY <1>2, <2>1 DEF drain, ledger
  <1>9. QED
    BY <1>3, <1>4, <1>5, <1>6, <1>7, <1>8 DEF Next

LEMMA LostInvImplies ==
  ASSUME Shape, LostInv
  PROVE  NoEventLost
  <1>1. \A e \in appended : stamp[e] \in Nat /\ cursor \in Nat
    BY StampFacts DEF Shape, LedgerTypes
  <1>2. QED
    BY <1>1 DEF LostInv, Passed, Safe, NoEventLost

-----------------------------------------------------------------------------
(* No event is dispatched twice.                                           *)

LEMMA EmptyDrainAt ==
  ASSUME NEW s \in Slots, batch'[s] = <<>>, done'[s] = {}, pc'[s] \notin {"read", "event", "advance", "write"},
         JobOf(s) = "dispatch" => pc'[s] \notin {"fire", "outputs"}
  PROVE  DrainAt(s)'
  BY EmptyLog DEF DrainAt

(* The one drain there is, is the drain of the one daemon.                 *)
LEMMA OthersDrainNothing ==
  ASSUME Shape, OneRun, LoneInv, ~crowded, NEW s \in Slots, JobOf(s) = "dispatch", pc[s] # "idle", SlotStep(s)
  PROVE  \A t \in Slots \ {s} : DrainAt(t)' /\ done[t] = {} /\ done'[t] = {}
  <1> SUFFICES ASSUME NEW t \in Slots \ {s}
               PROVE  DrainAt(t)' /\ done[t] = {} /\ done'[t] = {}
    OBVIOUS
  <1>1. SlotShape(s) /\ SlotShape(t) /\ SlotSame(t)
    BY DEF Shape, SlotStep
  <1>2. CASE JobOf(t) # "dispatch"
    <2>1. batch[t] = <<>> /\ done[t] = {} /\ pc[t] \notin Drains
      BY <1>1, <1>2 DEF SlotShape
    <2>2. QED
      BY <1>1, <1>2, <2>1, EmptyDrainAt DEF SlotSame, Drains
  <1>3. CASE JobOf(t) = "dispatch"
    <2>1. pc[t] = "idle"
      <3>1. SUFFICES ASSUME pc[t] # "idle" PROVE FALSE
        OBVIOUS
      <3>2. Alive(DaemonOf(s)) /\ Alive(DaemonOf(t))
        BY <1>1, <3>1 DEF SlotShape
      <3>3. DaemonOf(s) \in Daemons /\ DaemonOf(t) \in Daemons
        BY DEF Slots, DaemonOf
      <3>4. QED
        BY <1>3, <3>1, <3>2, <3>3 DEF LoneInv, OneRun
    <2>2. batch[t] = <<>> /\ done[t] = {}
      BY <1>1, <2>1 DEF SlotShape
    <2>3. QED
      BY <1>1, <2>1, <2>2, EmptyDrainAt DEF SlotSame
  <1>4. QED
    BY <1>2, <1>3

(* Nothing is dispatched, and the cursor stays.                            *)
LEMMA TwiceKept ==
  ASSUME Shape, Shape', TwiceInv, crowded => crowded', UNCHANGED <<cursor, taken>>, again \subseteq again',
         appended \subseteq appended', \A e \in appended : stamp'[e] = stamp[e],
         ~crowded =>
           \A s \in Slots :
             SlotSame(s) \/ (DrainAt(s)' /\ \A e \in done[s] : e \in done'[s] \cup again' \/ stamp[e] <= cursor)
  PROVE  TwiceInv'
  <1> SUFFICES ASSUME ~crowded'
               PROVE  /\ \A e \in appended' : Stored(e)' /\ (taken'[e] <= 1 \/ e \in again')
                      /\ \A s \in Slots : DrainAt(s)'
    BY DEF TwiceInv
  <1>1. /\ \A e \in appended : Stored(e) /\ (taken[e] <= 1 \/ e \in again)
        /\ \A s \in Slots : DrainAt(s)
    BY DEF TwiceInv
  <1>2. LogTypes /\ LogTypes' /\ LedgerTypes /\ \A s \in Slots : SlotShape(s)
    BY DEF Shape
  <1>3. \A e \in appended' : taken'[e] \in Nat /\ (taken'[e] = 0 \/ e \in appended)
    <2>1. appended' \subseteq 1 .. MaxEvents
      <3>1. Len(stamp') \in Nat /\ Len(stamp') <= MaxEvents
        BY <1>2, LenProperties DEF LogTypes
      <3>2. appended' \subseteq 1 .. Len(stamp')
        BY <1>2 DEF LogTypes, Events
      <3>3. QED
        BY <3>1, <3>2, EventLogAssumption
    <2>2. QED
      BY <1>2, <2>1 DEF LedgerTypes
  <1>4. ASSUME NEW e \in appended'
        PROVE  Stored(e)' /\ (taken'[e] <= 1 \/ e \in again')
    <2>1. CASE taken'[e] = 0
      BY <2>1 DEF Stored
    <2>2. CASE e \in appended /\ taken[e] > 0
      <3>1. e \in again \/ cursor = 0 \/ stamp[e] <= cursor \/ \E s \in Slots : e \in done[s]
        BY <1>1, <2>2 DEF Stored
      <3>2. CASE e \in again \/ cursor = 0 \/ stamp[e] <= cursor
        BY <1>1, <2>2, <3>2 DEF Stored
      <3>3. ASSUME NEW s \in Slots, e \in done[s]
            PROVE  e \in done'[s] \cup again' \/ stamp[e] <= cursor
        BY <3>3 DEF SlotSame
      <3>4. QED
        BY <1>1, <2>2, <3>1, <3>2, <3>3 DEF Stored
    <2>3. QED
      BY <1>3, <2>1, <2>2
  <1>5. ASSUME NEW s \in Slots
        PROVE  DrainAt(s)'
    <2>1. CASE SlotSame(s)
      <3>1. /\ pc'[s] = pc[s] /\ batch'[s] = batch[s] /\ done'[s] = done[s] /\ from'[s] = from[s]
            /\ DrainAt(s)
        BY <1>1, <2>1 DEF SlotSame
      <3>2. ToSet(batch[s]) \cup done[s] \subseteq appended
        BY <1>2 DEF SlotShape
      <3>3. QED
        BY <1>3, <3>1, <3>2 DEF DrainAt
    <2>2. QED
      BY <2>1
  <1>6. QED
    BY <1>4, <1>5

LEMMA TwiceByRead ==
  ASSUME Shape, Shape', OneRun, LoneInv, TwiceInv, NEW s \in Slots, ReadEvents(s)
  PROVE  TwiceInv'
  <1>1. SlotStep(s) /\ Begun(s, After(s))
    BY ReadEventsEffect
  <1>2. pc[s] = "read" /\ UNCHANGED <<logVars, cursor, taken, again, done, from, daemonVars>>
    BY Zenon DEF ReadEvents, ledger, drainOnly
  <1>3. LogTypes /\ SlotTypes /\ SlotShape(s) /\ JobOf(s) = "dispatch" /\ done[s] = {}
    BY <1>2 DEF Shape, SlotShape, Drains
  <1>4. ToSet(batch'[s]) = {e \in ToSet(log) : stamp[e] > from[s]} /\ ToSet(log) \subseteq appended
    BY <1>1, <1>3, AfterIs, StampFacts DEF Begun
  <1>5. ASSUME ~crowded
        PROVE  DrainAt(s)'
    <2>1. from[s] = cursor /\ cursor # 0 /\ \A e \in appended : Stored(e)
      BY <1>2, <1>5 DEF TwiceInv, DrainAt
    <2>2. \A t \in Slots : done[t] = {}
      BY <1>1, <1>2, <1>3, <1>5, OthersDrainNothing
    <2>3. \A e \in appended : stamp[e] \in Nat /\ cursor \in Nat /\ taken[e] \in Nat
      BY <1>3, StampFacts DEF Shape, LedgerTypes
    <2>4. \A e \in ToSet(batch'[s]) : taken[e] = 0 \/ e \in again
      BY <1>4, <2>1, <2>2, <2>3 DEF Stored
    <2>5. UNCHANGED stamp /\ pc'[s] \in {"event", "fire", "advance"} /\ done'[s] = {} /\ from'[s] = cursor
      BY <1>1, <1>2, <1>3, <2>1 DEF logVars, Begun
    <2>6. \A e \in ToSet(batch'[s]) \cup done'[s] : stamp'[e] > from'[s]
      BY <1>2, <1>4, <2>5
    <2>7. QED
      BY <1>2, <2>1, <2>4, <2>5, <2>6 DEF DrainAt
  <1>6. ~crowded => \A t \in Slots :
          SlotSame(t) \/ (DrainAt(t)' /\ \A e \in done[t] : e \in done'[t] \cup again' \/ stamp[e] <= cursor)
    BY <1>1, <1>3, <1>5 DEF SlotStep
  <1>7. UNCHANGED <<crowded, stamp, appended>>
    BY <1>2 DEF logVars, daemonVars
  <1>8. QED
    BY <1>2, <1>6, <1>7, TwiceKept

(* A step of the drain that dispatches an event, or moves the cursor.      *)
LEMMA TwiceByDrain ==
  ASSUME Shape, OneRun, LoneInv, TwiceInv, NEW s \in Slots, JobOf(s) = "dispatch", pc[s] # "idle", SlotStep(s),
         UNCHANGED <<crowded, appended>>,
         ~crowded => /\ DrainAt(s)'
                     /\ \A e \in appended : taken'[e] <= 1 \/ e \in again'
                     /\ \A e \in appended :
                          (taken[e] > 0 => e \in again \/ cursor = 0 \/ stamp[e] <= cursor \/ e \in done[s])
                             => (taken'[e] > 0 => e \in again' \/ cursor' = 0 \/ stamp'[e] <= cursor' \/ e \in done'[s])
  PROVE  TwiceInv'
  <1> SUFFICES ASSUME ~crowded
               PROVE  /\ \A e \in appended' : Stored(e)' /\ (taken'[e] <= 1 \/ e \in again')
                      /\ \A t \in Slots : DrainAt(t)'
    BY DEF TwiceInv
  <1>1. \A t \in Slots \ {s} : DrainAt(t)' /\ done[t] = {} /\ done'[t] = {}
    BY OthersDrainNothing
  <1>2. ASSUME NEW e \in appended
        PROVE  Stored(e)'
    <2>1. Stored(e)
      BY DEF TwiceInv
    <2>2. taken[e] > 0 => e \in again \/ cursor = 0 \/ stamp[e] <= cursor \/ e \in done[s]
      BY <1>1, <2>1 DEF Stored
    <2>3. taken'[e] > 0 => e \in again' \/ cursor' = 0 \/ stamp'[e] <= cursor' \/ e \in done'[s]
      BY <2>2
    <2>4. QED
      BY <2>3 DEF Stored
  <1>3. QED
    BY <1>1, <1>2

LEMMA TwiceByTurn ==
  ASSUME Shape, OneRun, LoneInv, TwiceInv, NEW s \in Slots, SlotStep(s), Turned(s)
  PROVE  TwiceInv'
  <1>1. /\ pc[s] \in {"event", "fire", "outputs"} /\ JobOf(s) = "dispatch"
        /\ Begun(s, Tail(batch[s])) /\ done'[s] = done[s] \cup {Head(batch[s])}
        /\ taken' = [taken EXCEPT ![Head(batch[s])] = @ + 1]
        /\ UNCHANGED <<stamp, appended, from, cursor, again, crowded>>
    BY Zenon DEF Turned, logVars, daemonVars
  <1>2. SlotTypes /\ LedgerTypes /\ SlotShape(s) /\ appended \subseteq 1 .. MaxEvents
    BY StampFacts DEF Shape
  <1>3. PICK h \in appended : h = Head(batch[s]) /\ batch[s] # <<>>
    BY <1>1, HeadFacts DEF HeadTyped
  <1>4. ToSet(batch[s]) = {h} \cup ToSet(batch'[s]) /\ h \notin ToSet(batch'[s])
    BY <1>1, <1>2, <1>3, TailIs DEF SlotShape, SlotTypes, Begun
  <1>5. /\ \A e \in appended : taken[e] \in Nat
        /\ taken'[h] = taken[h] + 1 /\ \A e \in appended : e # h => taken'[e] = taken[e]
    <2>1. taken' = [taken EXCEPT ![h] = @ + 1]
      BY <1>1, <1>3
    <2>2. QED
      BY <1>2, <1>3, <2>1 DEF LedgerTypes
  <1>6. ASSUME ~crowded
        PROVE  /\ DrainAt(s)' /\ \A e \in appended : taken'[e] <= 1 \/ e \in again'
    <2>1. DrainAt(s) /\ \A e \in appended : taken[e] <= 1 \/ e \in again
      BY <1>6 DEF TwiceInv
    <2>2. from[s] = cursor /\ cursor # 0 /\ (taken[h] = 0 \/ h \in again)
      BY <1>1, <1>4, <2>1 DEF DrainAt
    <2>3. \A e \in appended : taken'[e] <= 1 \/ e \in again'
      BY <1>1, <1>5, <2>1, <2>2
    <2>4. pc'[s] \in {"event", "fire", "advance"}
      BY <1>1 DEF Begun
    <2>5. \A e \in ToSet(batch'[s]) : e \in appended /\ e # h /\ (taken[e] = 0 \/ e \in again)
      BY <1>2, <1>4, <2>1 DEF SlotShape, DrainAt
    <2>6. \A e \in ToSet(batch'[s]) : taken'[e] = 0 \/ e \in again'
      BY <1>1, <1>5, <2>5
    <2>7. \A e \in ToSet(batch'[s]) \cup done'[s] : stamp'[e] > from'[s]
      <3>1. ToSet(batch'[s]) \cup done'[s] \subseteq ToSet(batch[s]) \cup done[s]
        BY <1>1, <1>3, <1>4
      <3>2. QED
        BY <1>1, <2>1, <3>1 DEF DrainAt
    <2>8. from'[s] = cursor' /\ cursor' # 0
      BY <1>1, <2>2
    <2>9. DrainAt(s)'
      BY <2>4, <2>6, <2>7, <2>8 DEF DrainAt
    <2>10. QED
      BY <2>3, <2>9
  <1>7. ASSUME NEW e \in appended,
               taken[e] > 0 => e \in again \/ cursor = 0 \/ stamp[e] <= cursor \/ e \in done[s],
               taken'[e] > 0
        PROVE  e \in again' \/ cursor' = 0 \/ stamp'[e] <= cursor' \/ e \in done'[s]
    BY <1>1, <1>3, <1>5, <1>7
  <1>8. pc[s] # "idle"
    BY <1>1
  <1>9. QED
    BY <1>1, <1>6, <1>7, <1>8, TwiceByDrain

LEMMA TwiceBySeed ==
  ASSUME Shape, OneRun, LoneInv, TwiceInv, NEW s \in Slots, Seed(s)
  PROVE  TwiceInv'
  <1>1. /\ pc[s] = "seed" /\ cursor' = clock
        /\ UNCHANGED <<stamp, appended, taken, again, batch, done, crowded>>
    BY Zenon DEF Seed, drain, drainOnly, daemonVars
  <1>2. SlotStep(s) /\ pc'[s] = "finish"
    BY WentEffect DEF Went
  <1>3. batch[s] = <<>> /\ done[s] = {} /\ JobOf(s) = "dispatch"
    BY <1>1 DEF Shape, SlotShape, Drains
  <1>4. DrainAt(s)'
    BY <1>1, <1>2, <1>3, EmptyDrainAt
  <1>5. \A e \in appended : stamp'[e] <= cursor'
    BY <1>1, StampFacts DEF Shape, LogTypes
  <1>6. ~crowded => \A e \in appended : taken'[e] <= 1 \/ e \in again'
    BY <1>1 DEF TwiceInv
  <1>7. pc[s] # "idle" /\ UNCHANGED <<crowded, appended>>
    BY <1>1
  <1>8. QED
    BY <1>2, <1>3, <1>4, <1>5, <1>6, <1>7, TwiceByDrain

LEMMA TwiceByTruncation ==
  ASSUME Shape, OneRun, LoneInv, TwiceInv, NEW s \in Slots, TruncateCursor(s)
  PROVE  TwiceInv'
  <1>1. /\ pc[s] = "advance"
        /\ UNCHANGED <<stamp, appended, taken, batch, done, from, crowded>>
    BY Zenon DEF TruncateCursor, drain, drainOnly, daemonVars, logVars
  <1>2. SlotStep(s) /\ pc' = [pc EXCEPT ![s] = pc'[s]]
    BY WentEffect DEF Went, TruncateCursor, Goto, Shape, SlotTypes
  <1>3. /\ batch[s] = <<>> /\ JobOf(s) = "dispatch" /\ SlotTypes
        /\ pc[s] # "idle"
    BY <1>1 DEF Shape, SlotShape, Drains
  <1>4. \/ done[s] = {} /\ pc'[s] = "finish" /\ UNCHANGED <<cursor, again>>
        \/ done[s] # {} /\ pc'[s] = "write" /\ cursor' = 0 /\ UNCHANGED again
        \/ pc'[s] = "finish" /\ again' = again \cup done[s] /\ UNCHANGED cursor
    BY <1>3 DEF TruncateCursor, Goto, SlotTypes
  <1>5. ASSUME ~crowded
        PROVE  DrainAt(s)'
    <2>1. /\ DrainAt(s) /\ from[s] = cursor /\ cursor # 0 /\ \A e \in appended : Stored(e)
      BY <1>1, <1>5 DEF TwiceInv, DrainAt
    <2>2. \A t \in Slots \ {s} : done[t] = {}
      BY <1>2, <1>3, <1>5, OthersDrainNothing
    <2>3. \A e \in appended : taken[e] > 0 => e \in again \cup done[s] \/ stamp[e] <= from[s]
      BY <2>1, <2>2 DEF Stored
    <2>4. \A e \in ToSet(batch[s]) \cup done[s] : stamp[e] > from[s]
      BY <2>1 DEF DrainAt
    <2>5. ToSet(batch'[s]) = {}
      BY <1>1, <1>3, EmptyLog
    <2>6. CASE pc'[s] = "finish" /\ (done[s] = {} \/ again' = again \cup done[s])
      BY <1>1, <2>4, <2>5, <2>6 DEF DrainAt
    <2>7. CASE pc'[s] = "write" /\ UNCHANGED again
      BY <1>1, <2>3, <2>4, <2>5, <2>7 DEF DrainAt
    <2>8. QED
      BY <1>4, <2>6, <2>7
  <1>6. ~crowded => \A e \in appended : taken'[e] <= 1 \/ e \in again'
    BY <1>1, <1>4 DEF TwiceInv
  <1>7. \A e \in appended :
          (taken[e] > 0 => e \in again \/ cursor = 0 \/ stamp[e] <= cursor \/ e \in done[s])
             => (taken'[e] > 0 => e \in again' \/ cursor' = 0 \/ stamp'[e] <= cursor' \/ e \in done'[s])
    BY <1>1, <1>4
  <1>8. UNCHANGED <<crowded, appended>>
    BY <1>1
  <1>9. QED
    BY <1>2, <1>3, <1>5, <1>6, <1>7, <1>8, TwiceByDrain

LEMMA TwiceByWrite ==
  ASSUME Shape, OneRun, LoneInv, TwiceInv, NEW s \in Slots, WriteCursor(s)
  PROVE  TwiceInv'
  <1>1. /\ pc[s] = "write" /\ cursor' = newCursor(s)
        /\ UNCHANGED <<stamp, appended, taken, again, batch, done, from, crowded>>
    BY Zenon DEF WriteCursor, drain, drainOnly, daemonVars, logVars, ledger
  <1>2. SlotStep(s) /\ pc'[s] = "finish"
    BY WentEffect DEF Went
  <1>3. batch[s] = <<>> /\ JobOf(s) = "dispatch" /\ done[s] # {} /\ pc[s] # "idle" /\ done[s] \subseteq appended
    BY <1>1 DEF Shape, SlotShape, Drains
  <1>4. PICK f \in done[s] : cursor' = stamp[f] /\ \A e \in done[s] : stamp[e] <= cursor'
    BY <1>1, <1>3, NewCursorIs
  <1>5. \A e \in appended : stamp[e] \in Nat
    BY StampFacts DEF Shape
  <1>6. ASSUME ~crowded
        PROVE  DrainAt(s) /\ DrainAt(s)' /\ \A e \in appended : taken'[e] <= 1 \/ e \in again'
    <2>1. DrainAt(s) /\ \A e \in appended : taken[e] <= 1 \/ e \in again
      BY <1>6 DEF TwiceInv
    <2>2. DrainAt(s)'
      <3>1. \A e \in ToSet(batch[s]) \cup done[s] : stamp[e] > from[s]
        BY <2>1 DEF DrainAt
      <3>2. ToSet(batch'[s]) = {}
        BY <1>1, <1>3, EmptyLog
      <3>3. QED
        BY <1>1, <1>2, <1>4, <3>1, <3>2 DEF DrainAt
    <2>3. QED
      BY <1>1, <2>1, <2>2
  <1>7. ASSUME ~crowded, NEW e \in appended, taken'[e] > 0
        PROVE  e \in again' \/ stamp'[e] <= cursor' \/ e \in done'[s]
    <2>1. e \in again \cup done[s] \/ stamp[e] <= from[s]
      BY <1>1, <1>6, <1>7 DEF DrainAt
    <2>2. stamp[f] > from[s] /\ from[s] \in Nat /\ stamp[f] \in Nat /\ stamp[e] \in Nat
      BY <1>3, <1>5, <1>6, <1>7 DEF DrainAt, Shape, SlotTypes
    <2>3. QED
      BY <1>1, <1>4, <2>1, <2>2
  <1>8. UNCHANGED <<crowded, appended>>
    BY <1>1
  <1>9. QED
    BY <1>2, <1>3, <1>6, <1>7, <1>8, TwiceByDrain

LEMMA TwiceInvPreserved ==
  ASSUME Shape, OneRun, LoneInv, TwiceInv, [Next]_vars
  PROVE  TwiceInv'
  <1>1. Shape'
    BY ShapePreserved
  <1>2. crowded => crowded'
    <2>1. ASSUME NEW c \in Clis, CliStep(c), crowded
          PROVE  crowded'
      BY <2>1, Zenon DEF CliStep, readPIDFile, stopProcess, RemovePIDFile, ReadAgain, Spawn, RunForeground,
                         WritePIDFile, daemonVars
    <2>2. QED
      BY <2>1, CommandsSame
  <1>3. ASSUME UNCHANGED <<stamp, appended, cursor, taken>>, again \subseteq again',
               ~crowded =>
                 \A s \in Slots :
                   SlotSame(s) \/ (DrainAt(s)' /\ \A e \in done[s] : e \in done'[s] \cup again' \/ stamp[e] <= cursor)
        PROVE  TwiceInv'
    BY <1>1, <1>2, <1>3, TwiceKept
  <1>4. ASSUME UNCHANGED <<logVars, cursor, ledger>>, \A s \in Slots : SlotSame(s)
        PROVE  TwiceInv'
    BY <1>3, <1>4 DEF logVars, ledger
  <1>5. ASSUME NEW s \in Slots, JobStep(s)
        PROVE  TwiceInv'
    <2>1. SlotStep(s) /\ JobCases(s)
      BY <1>5, JobEffect
    <2>2. ASSUME UNCHANGED <<stamp, appended, cursor, taken, again>>,
                 ~crowded => DrainAt(s)' /\ \A e \in done[s] : e \in done'[s] \cup again' \/ stamp[e] <= cursor
          PROVE  TwiceInv'
      <3>1. \A t \in Slots \ {s} : SlotSame(t)
        BY <2>1 DEF SlotStep
      <3>2. QED
        BY <1>3, <2>2, <3>1
    <2>3. CASE ReadCursor(s)
      <3>1. pc[s] = "cursor" /\ UNCHANGED <<stamp, appended, cursor, taken, again, batch, done>>
        BY <2>3, Zenon DEF ReadCursor, ledger, logVars
      <3>2. batch[s] = <<>> /\ done[s] = {}
        BY <3>1 DEF Shape, SlotShape
      <3>3. from'[s] = cursor /\ pc'[s] = IF cursor = 0 THEN "seed" ELSE "read"
        BY <2>3, ReadCursorEffect
      <3>4. DrainAt(s)'
        BY <3>1, <3>2, <3>3, EmptyLog DEF DrainAt
      <3>5. QED
        BY <2>2, <3>1, <3>2, <3>4
    <2>4. CASE Stayed(s)
      <3>1. /\ pc[s] \in {"rule", "fire", "outputs"} /\ pc'[s] \in {"fire", "outputs", "finish"}
            /\ JobOf(s) = "dispatch" => pc'[s] # "finish"
            /\ UNCHANGED <<stamp, appended, cursor, taken, again, batch, done, from>>
        BY <2>4, Zenon DEF Stayed, ledger, logVars
      <3>2. CASE JobOf(s) # "dispatch"
        <4>1. batch[s] = <<>> /\ done[s] = {}
          BY <3>2 DEF Shape, SlotShape
        <4>2. DrainAt(s)'
          BY <3>1, <3>2, <4>1, EmptyDrainAt
        <4>3. QED
          BY <2>2, <3>1, <4>1, <4>2
      <3>3. CASE JobOf(s) = "dispatch"
        <4>1. pc[s] # "rule"
          BY <3>3 DEF Shape, SlotShape
        <4>2. ASSUME ~crowded
              PROVE  DrainAt(s)'
          BY <3>1, <3>3, <4>1, <4>2 DEF TwiceInv, DrainAt
        <4>3. QED
          BY <2>2, <3>1, <4>2
      <3>4. QED
        BY <3>2, <3>3
    <2>5. CASE Rotate(s)
      <3>1. pc[s] = "rotate" /\ UNCHANGED <<stamp, appended, cursor, taken, again, batch, done>>
        BY <2>5, Zenon DEF Rotate, RotateIfLarge, drain
      <3>2. batch[s] = <<>> /\ done[s] = {} /\ pc'[s] = "finish"
        BY <2>5, <3>1, WentEffect DEF Went, Shape, SlotShape
      <3>3. DrainAt(s)'
        BY <3>1, <3>2, EmptyDrainAt
      <3>4. QED
        BY <2>2, <3>1, <3>2, <3>3
    <2>6. CASE Finish(s)
      <3>1. pc[s] = "finish" /\ UNCHANGED <<stamp, appended, cursor, taken, again>>
        BY <2>6, Zenon DEF Finish, ledger, logVars
      <3>2. batch'[s] = <<>> /\ done'[s] = {} /\ pc'[s] = "idle"
        BY <2>6, FinishEffect
      <3>3. DrainAt(s)'
        BY <3>2, EmptyDrainAt
      <3>4. ~crowded => \A e \in done[s] : stamp[e] <= cursor \/ e \in again
        BY <3>1 DEF TwiceInv, DrainAt
      <3>5. QED
        BY <2>2, <3>1, <3>3, <3>4
    <2>7. QED
      BY <1>1, <2>1, <2>3, <2>4, <2>5, <2>6, TwiceByRead, TwiceByTurn, TwiceBySeed, TwiceByTruncation,
         TwiceByWrite DEF JobCases
  <1>6. CASE LogStep
    <2>1. UNCHANGED <<cursor, taken, again, pc, drain>>
      BY <1>6 DEF LogStep, ledger
    <2>2. \A s \in Slots : SlotSame(s)
      BY <2>1 DEF SlotSame, drain
    <2>3. appended \subseteq appended'
      BY <1>6 DEF LogStep, TakeStamp, AppendLine, Follow, logVars
    <2>4. \A e \in appended : stamp'[e] = stamp[e]
      <3>1. CASE TakeStamp
        <4>1. PICK now \in clock .. clock + 1 : stamp' = Append(stamp, now)
          BY <3>1 DEF TakeStamp
        <4>2. LogTypes /\ now \in Nat
          BY DEF Shape, LogTypes
        <4>3. \A e \in 1 .. Len(stamp) : stamp'[e] = stamp[e]
          BY <4>1, <4>2, AppendProperties DEF LogTypes
        <4>4. QED
          BY <4>2, <4>3, StampFacts
      <3>2. CASE UNCHANGED stamp
        BY <3>2
      <3>3. QED
        BY <1>6, <3>1, <3>2 DEF LogStep, AppendLine, Follow, logVars
    <2>5. QED
      BY <1>1, <1>2, <2>1, <2>2, <2>3, <2>4, TwiceKept
  <1>7. CASE \E d \in Daemons : \E j \in Jobs : invoke(d, j)
    <2>1. PICK d \in Daemons, j \in Jobs : invoke(d, j)
      BY <1>7
    <2>2. UNCHANGED <<logVars, cursor, drain, ledger>>
      BY <2>1, InvokeEffect
    <2>3. CASE UNCHANGED pc
      BY <1>4, <2>2, <2>3 DEF SlotSame, drain
    <2>4. ASSUME NEW s \in Slots, pc[s] = "idle", Goto(s, FirstStep(j))
          PROVE  TwiceInv'
      <3>1. pc'[s] = FirstStep(j) /\ \A t \in Slots \ {s} : pc'[t] = pc[t]
        BY <2>4 DEF Goto, Shape, SlotTypes
      <3>2. FirstStep(j) \in {"cursor", "rotate", "rule"}
        <4>1. j \in {"dispatch", "rotate", "rule"}
          BY <2>1, AutomationAssumption
        <4>2. QED
          BY <4>1 DEF FirstStep
      <3>3. batch'[s] = <<>> /\ done'[s] = {} /\ done[s] = {}
        BY <2>2, <2>4 DEF Shape, SlotShape, drain
      <3>4. DrainAt(s)'
        BY <3>1, <3>2, <3>3, EmptyDrainAt
      <3>5. \A t \in Slots \ {s} : SlotSame(t)
        BY <2>2, <3>1 DEF SlotSame, drain
      <3>6. QED
        BY <1>3, <2>2, <3>3, <3>4, <3>5 DEF logVars, ledger
    <2>5. QED
      BY <2>1, <2>3, <2>4, InvokeEffect
  <1>8. CASE \E d \in Daemons : Crash(d)
    <2>1. PICK d \in Daemons : Crash(d)
      BY <1>8
    <2>2. /\ again' = again \cup UNION {done[s] : s \in Busy(d)}
          /\ UNCHANGED <<stamp, appended, cursor, taken>>
      BY <2>1, Zenon DEF Crash, logVars
    <2>3. ASSUME NEW s \in Slots
          PROVE  SlotSame(s) \/ (DrainAt(s)' /\ \A e \in done[s] : e \in done'[s] \cup again' \/ stamp[e] <= cursor)
      <3>1. CASE s \in Busy(d)
        <4>1. DrainAt(s)'
          BY <2>1, <3>1, CrashEffect, EmptyDrainAt DEF Reset
        <4>2. QED
          BY <2>2, <3>1, <4>1
      <3>2. CASE s \notin Busy(d)
        BY <2>1, <3>2, CrashEffect
      <3>3. QED
        BY <3>1, <3>2
    <2>4. QED
      BY <1>3, <2>2, <2>3
  <1>9. ASSUME UNCHANGED <<logVars, cursor, pc, drain, ledger>>
        PROVE  TwiceInv'
    BY <1>4, <1>9 DEF SlotSame, drain
  <1>10. CASE \E c \in Clis : CliStep(c)
    BY <1>9, <1>10, CliEffect
  <1>11. CASE UNCHANGED vars \/ \E d \in Daemons : Exit(d)
    BY <1>9, <1>11 DEF vars, Exit
  <1>12. QED
    BY <1>5, <1>6, <1>7, <1>8, <1>10, <1>11 DEF Next

LEMMA TwiceInvImplies ==
  ASSUME TwiceInv
  PROVE  NotTwice
  BY DEF TwiceInv, NotTwice

-----------------------------------------------------------------------------
(* The theorems.                                                           *)

AutomationInv == /\ Shape /\ OneRun /\ LostInv /\ LoneInv /\ TwiceInv
                 /\ OneInv /\ CountInv /\ OutputInv /\ TailInv

LEMMA AutomationInvInit == Init => AutomationInv
  <1> SUFFICES ASSUME Init PROVE AutomationInv
    OBVIOUS
  <1>1. Shape
    BY ShapeInit
  <1>2. /\ clock = 1 /\ stamp = <<>> /\ log = <<>> /\ stranded = {} /\ appended = {} /\ late = {}
        /\ seeded = cursor
        /\ seen = 0 /\ tailed = <<>> /\ missed = {} /\ cursor \in Nat
    BY AutomationAssumption DEF Init, LogInit
  <1>3. \A s \in Slots : pc[s] = "idle" /\ batch[s] = <<>> /\ done[s] = {} /\ from[s] = 0
    BY DEF Init
  <1>4. \A d \in Daemons : status[d] = "never"
    BY DEF Init
  <1>5. OneRun /\ LoneInv
    BY <1>3, <1>4 DEF OneRun, LoneInv, Alive
  <1>6. LostInv
    BY <1>2, <1>3 DEF LostInv, Passed, Reached, Shape, LogTypes
  <1>7. TwiceInv
    BY <1>2, <1>3, EmptyLog DEF TwiceInv, DrainAt
  <1>8. OneInv
    BY <1>4 DEF OneInv, Up, Init
  <1>9. CountInv
    BY <1>4 DEF CountInv, Alive, Init
  <1>10. OutputInv
    BY <1>3 DEF OutputInv, OutputsWhole, RanInv, Init, RuleInit
  <1>11. TailInv
    <2>1. Ahead = {}
      BY <1>2 DEF Ahead
    <2>2. <<>> \in Seq({})
      OBVIOUS
    <2>3. QED
      BY <1>2, <2>1, <2>2, EmptyLog DEF TailInv
  <1>12. QED
    BY <1>1, <1>5, <1>6, <1>7, <1>8, <1>9, <1>10, <1>11 DEF AutomationInv

LEMMA AutomationInvHolds == Spec => []AutomationInv
  <1>1. AutomationInv /\ [Next]_vars => AutomationInv'
    BY ShapePreserved, OneRunPreserved, LostInvPreserved, LonePreserved, TwiceInvPreserved, OneInvPreserved,
       CountInvPreserved, OutputInvPreserved, TailInvPreserved DEF AutomationInv
  <1>2. QED
    BY AutomationInvInit, <1>1, PTL DEF Spec

(* No logged event is lost between the log, the cursor and the drains, and *)
(* none is dispatched twice, but for the cases DispatchedOnce names        *)
(* (cli/scheduler.go:467-518), whatever dies and whatever is rotated.      *)
THEOREM EveryEventOnce == Spec => []DispatchedOnce
  <1>1. AutomationInv => DispatchedOnce
    BY LostInvImplies, TwiceInvImplies DEF AutomationInv, DispatchedOnce
  <1>2. QED
    BY AutomationInvHolds, <1>1, PTL

(* While commands do not overlap, one daemon at most has not been stopped, *)
(* and the PID file names it (cli/scheduler.go:225-277).                   *)
THEOREM AtMostOneDaemon == Spec => []OneDaemon
  <1>1. AutomationInv => OneDaemon
    BY OneInvImplies DEF AutomationInv
  <1>2. QED
    BY AutomationInvHolds, <1>1, PTL

(* Outputs of a rule that do not all resolve are not applied at all, and a *)
(* rule reported as fired has applied all of them (core/rules.go:247-252). *)
THEOREM NoPartialOutputs == Spec => []OutputsWhole
  <1>1. AutomationInv => OutputsWhole
    BY DEF AutomationInv, OutputInv
  <1>2. QED
    BY AutomationInvHolds, <1>1, PTL

LEMMA TypesHold == AutomationInv => TypeOK
  <1> SUFFICES ASSUME AutomationInv PROVE TypeOK
    OBVIOUS
  <1>1. LogTypes /\ DaemonTypes /\ CountTypes /\ LedgerTypes /\ fired \subseteq ran
        /\ \A s \in Slots : SlotShape(s)
    BY DEF AutomationInv, Shape, OutputInv
  <1>2. LogTypeOK
    BY <1>1, StampFacts DEF LogTypes, LogTypeOK, AutomationInv, TailInv
  <1>3. cursor \in 0 .. clock
    BY <1>1 DEF LogTypes, LedgerTypes
  <1>4. QED
    BY <1>1, <1>2, <1>3 DEF TypeOK, DaemonTypes, CountTypes, SlotShape

(* The counts that scheduler status shows are those of all runs and skips, *)
(* and events tail --follow shows each event once (scheduler/state.go:     *)
(* 50-95, cli/events.go:246-248).                                          *)
THEOREM ReportsHold == Spec => []ReportsTrue
  <1>1. AutomationInv => ReportsTrue
    BY TypesHold, TailInvImplies DEF AutomationInv, Shape, CountInv, CountsKept, ReportsTrue
  <1>2. QED
    BY AutomationInvHolds, <1>1, PTL

=============================================================================
