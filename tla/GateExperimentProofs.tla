------------------------ MODULE GateExperimentProofs ------------------------
(***************************************************************************)
(* Proofs about both experiments on the shared gate, for every number of   *)
(* operations, clients, waves, HAProxy Pods and disturbances, and every    *)
(* capacity of the pool.                                                   *)
(***************************************************************************)
EXTENDS GateExperimentProps, FiniteSetTheorems, WellFoundedInduction, TLAPS

-----------------------------------------------------------------------------
(* What is counted.                                                        *)

Places == {"idle", "planned", "ready", "held", "lost", "done"}

\* Operations whose attempt has been sent and not answered; the attempts
\* started in this wave; the checks of the run that the pool still has.
InFlight == {o \in Ops : stage[o] \in {"held", "lost"}}
Flight == Cardinality(InFlight)
Tried == {x \in Ops \X (1..2) : x[2] <= tries[x[1]]}
Attempts == Cardinality(Tried)
Own == Cardinality(Held) + (IF git = "held" THEN 1 ELSE 0) + Orphans

\* Attempts that the plan allows in one wave.
Quota == LogicalOps * limit

-----------------------------------------------------------------------------
(* The inductive invariant.                                                *)

GateType ==
  /\ limit \in 1..2
  /\ stage \in [Ops -> Places] /\ tries \in [Ops -> 0..2]
  /\ git \in {"idle", "ready", "held", "lost"} /\ gitLeft \in 0..GitChecks
  /\ left \in [own : Nat, other : Nat, cutOwn : Nat, cutOther : Nat]
  /\ late \in {"none", "row"} /\ recording \in {"none", "logs", "both"} /\ faults \in Nat
CounterType == [overflow : Nat, total : Nat, dispatched : Nat, aborts : Nat]
LogType == [checks : Nat, strange : Nat, served : Nat, refused : Nat, ingress : Nat, unmapped : Nat]
ClientType == client \in [sent : Nat, failed : Nat, odd : Nat]
TruthType == truth \in [refused : Nat, unsent : Nat, granted : Nat, missed : Nat]
RecordType ==
  /\ counters \in CounterType /\ logs \in LogType
  /\ ClientType /\ TruthType
RunType ==
  /\ harness \in Harnesses /\ phase \in Phases /\ wave \in 0..WaveCount
  /\ pc \in Running \cup {"ready", "judge", "freeze", "ended"}
  /\ monitor \in {"off", "running", "broken", "ended"}
  /\ {actual, last, generation} \subseteq 1..Generations /\ actual <= generation
  /\ frozen \in 0..Generations
  /\ accepted \in [Measured -> 0..Generations] /\ window \in [Measured -> SUBSET (1..Generations)]

\* Operations and the Git read are under way only while the run waits for
\* them, within the plan.
PlanInv ==
  /\ \A o \in Ops : /\ tries[o] <= limit
                    /\ stage[o] \in {"planned", "ready"} => tries[o] < limit
                    /\ stage[o] # "idle" => wave > 0
                    /\ pc \notin {"work", "join"} => stage[o] \in {"idle", "done"}
                    /\ stage[o] = "lost" => generation # actual
  /\ pc \notin {"work", "join"} \/ P4 => git = "idle"
  /\ git = "ready" => gitLeft > 0
  /\ pc \in Opening => wave = 0
  /\ pc = "wave" => wave < WaveCount

\* What is recorded when.
Empty == counters = NoCounters /\ client = NoAttempts /\ truth = NoTruth
RecordInv ==
  /\ recording = "both" => pc \in {"wave", "work", "join", "settle", "after"}
  /\ recording = "logs" => pc \in {"counters", "path"}
  /\ pc \in Opening => Orphans = 0 /\ Empty
  /\ pc \in {"wave", "work", "join", "settle", "after"} /\ recording = "none" => Empty
  /\ pc \in {"settle", "after", "path", "judge"} => monitor = "ended"

\* Readings of the counters that are good enough to be compared.
Clear == IF P4 THEN pc \in {"after", "path", "judge"} ELSE quiet = "yes"

\* A failure with a status is an attempt that the pool refused, one that did not
\* come to it, or one that it had granted; the counters have them all.
ReasonInv ==
  /\ truth.refused + truth.unsent <= client.failed
  /\ client.failed <= truth.refused + truth.unsent + truth.granted
  /\ truth.granted <= counters.total /\ truth.refused <= counters.overflow
  /\ P4 => /\ truth.granted + truth.refused + truth.unsent <= client.sent
           /\ client.sent <= truth.granted + truth.refused + truth.unsent + client.odd
  /\ quiet = "yes" => counters.total <= truth.granted + logs.strange + (IF recording = "both" THEN Strays ELSE 0)

\* The ingress has a row of every request, those HAProxy has not answered and
\* those that were never sent to it included.
IngressInv ==
  /\ counters.dispatched + truth.unsent <= logs.ingress + logs.strange + truth.missed
  /\ recording = "both" =>
       counters.dispatched + left.own + truth.unsent <= logs.ingress + logs.strange + truth.missed

\* A granted attempt fails where it leaves another row, or an abort as soon as
\* the target answers, on the HAProxy it was sent to.
Excused == truth.refused + truth.unsent + logs.unmapped + counters.aborts + truth.missed
AbortInv ==
  /\ recording = "both" /\ generation = actual => client.failed <= Excused + left.own
  /\ pc \in {"path", "judge"} /\ last = actual /\ Clear => client.failed <= Excused
  /\ P4 /\ pc = "after" => Orphans = 0

\* Checks that are still held were admitted in this run; on a gate that was
\* empty before, so were those of others.
HeldInv == recording = "both" => Own <= truth.granted
FullInv == recording = "both" /\ Clear => Active <= counters.total

\* A HAProxy that has been replaced no longer counts what it had dispatched.
NoLoad == truth.granted = 0 /\ (counters.overflow > 0 => counters.total > 0)
ReplacedInv ==
  /\ pc = "after" /\ generation # actual /\ Clear
     => NoLoad \/ counters.dispatched + left.own < counters.total + counters.overflow + logs.strange
  /\ pc \in {"path", "judge"} /\ last # actual /\ Clear
     => NoLoad \/ counters.dispatched < counters.total + counters.overflow + logs.strange

\* Attempts are answered at most once.
AnswerInv ==
  /\ client.failed + client.odd <= client.sent
  /\ recording = "both" => /\ client.failed + client.odd + Flight <= client.sent
                           /\ client.failed + Flight <= truth.refused + truth.unsent + truth.granted

\* Attempts of the finished waves, and of this one.
QuotaInv == client.sent = 0 \/ (wave > 0 /\ client.sent + Quota <= wave * Quota + Attempts)

ResultInv ==
  /\ \A p \in Measured : accepted[p] # 0 => window[p] = {accepted[p]}
  /\ paired = "valid" => pc = "ended" /\ \A p \in Measured : window[p] = {frozen}

IInv ==
  /\ GateType /\ RecordType /\ RunType
  /\ PlanInv /\ RecordInv /\ ReasonInv /\ IngressInv /\ AbortInv
  /\ HeldInv /\ FullInv /\ ReplacedInv /\ AnswerInv /\ QuotaInv
  /\ ResultInv

-----------------------------------------------------------------------------
(* Counting.                                                               *)

\* Ops has LogicalOps members.
LEMMA OpsFinite == IsFiniteSet(Ops) /\ Cardinality(Ops) = LogicalOps
  BY GateAssumption, FS_Interval DEF Ops

\* Adding or removing one operation moves a cardinality by at most one.
LEMMA CountMove ==
  ASSUME NEW S \in SUBSET Ops, NEW o \in Ops
  PROVE  /\ Cardinality(S) \in Nat
         /\ Cardinality(S \cup {o}) = (IF o \in S THEN Cardinality(S) ELSE Cardinality(S) + 1)
         /\ Cardinality(S \ {o}) = (IF o \in S THEN Cardinality(S) - 1 ELSE Cardinality(S))
<1>1. IsFiniteSet(S)
  BY OpsFinite, FS_Subset
<1> QED
  BY <1>1, FS_CardinalityType, FS_AddElement, FS_RemoveElement

\* There are finitely many attempts.
LEMMA TriedFinite == IsFiniteSet(Tried)
<1>1. IsFiniteSet(1..2)
  <2>1. PICK n \in Int : n = 2
    OBVIOUS
  <2>2. IsFiniteSet(1..n)
    BY FS_Interval
  <2> QED
    BY <2>1, <2>2
<1>2. IsFiniteSet(Ops \X (1..2))
  BY <1>1, OpsFinite, FS_Product
<1> DEFINE S == Ops \X (1..2)
<1>3. Tried = {x \in S : x[2] <= tries[x[1]]}
  BY DEF Tried
<1>4. IsFiniteSet(S)
  BY <1>2
<1> HIDE DEF S
<1>5. Tried \in SUBSET S
  BY <1>3
<1> QED
  BY <1>4, <1>5, FS_Subset

\* The counts are natural numbers.
LEMMA CountTypes ==
  ASSUME GateType
  PROVE  /\ Cardinality(Held) \in Nat /\ Flight \in Nat /\ Attempts \in Nat
         /\ Own \in Nat /\ Orphans \in Nat /\ Strays \in Nat /\ Active = Own + Strays
<1>1. IsFiniteSet(Held) /\ IsFiniteSet(InFlight)
  BY OpsFinite, FS_Subset DEF Held, InFlight
<1>2. IsFiniteSet(Tried)
  BY TriedFinite
<1>3. Cardinality(Held) \in Nat /\ Cardinality(InFlight) \in Nat /\ Cardinality(Tried) \in Nat
  BY <1>1, <1>2, FS_CardinalityType
<1>4. Orphans \in Nat /\ Strays \in Nat
  BY DEF GateType, Orphans, Strays
<1> DEFINE h == Cardinality(Held)
           g == IF git = "held" THEN 1 ELSE 0
<1>5. h \in Nat /\ g \in Nat /\ Own = h + g + Orphans /\ Active = h + g + Strays + Orphans
  BY <1>3 DEF Own, Active
<1> HIDE DEF h, g
<1>6. Own \in Nat /\ Active = Own + Strays
  BY <1>4, <1>5
<1> QED
  BY <1>3, <1>4, <1>6 DEF Flight, Attempts

\* The counts depend on these variables alone.
LEMMA SameLoad ==
  ASSUME UNCHANGED <<stage, tries, git, left>>
  PROVE  /\ Own' = Own /\ Flight' = Flight /\ Attempts' = Attempts
         /\ Active' = Active /\ Strays' = Strays /\ Orphans' = Orphans
BY DEF Own, Flight, Attempts, Held, InFlight, Tried, Active, Strays, Orphans

\* An operation that moves is counted where it goes to.
LEMMA HeldMoves ==
  ASSUME GateType, NEW o \in Ops, NEW s \in Places, stage' = [stage EXCEPT ![o] = s]
  PROVE  Cardinality(Held)' = (IF s = "held" THEN IF stage[o] = "held" THEN Cardinality(Held) ELSE Cardinality(Held) + 1
                               ELSE IF stage[o] = "held" THEN Cardinality(Held) - 1 ELSE Cardinality(Held))
<1>1. Held \in SUBSET Ops
  BY DEF Held
<1>2. o \in Held <=> stage[o] = "held"
  BY DEF Held
<1>3. CASE s = "held"
  <2>1. Held' = Held \cup {o}
    BY <1>3 DEF Held, GateType
  <2> QED
    BY <1>1, <1>2, <1>3, <2>1, CountMove
<1>4. CASE s # "held"
  <2>1. Held' = Held \ {o}
    BY <1>4 DEF Held, GateType
  <2> QED
    BY <1>1, <1>2, <1>4, <2>1, CountMove
<1> QED
  BY <1>3, <1>4

\* What moving one operation does to the number in flight.
LEMMA FlightMoves ==
  ASSUME GateType, NEW o \in Ops, NEW s \in Places, stage' = [stage EXCEPT ![o] = s]
  PROVE  Flight' \in Nat /\
         Flight' = (IF s \in {"held", "lost"} THEN IF stage[o] \in {"held", "lost"} THEN Flight ELSE Flight + 1
                    ELSE IF stage[o] \in {"held", "lost"} THEN Flight - 1 ELSE Flight)
<1>1. InFlight \in SUBSET Ops
  BY DEF InFlight
<1>2. o \in InFlight <=> stage[o] \in {"held", "lost"}
  BY DEF InFlight
<1>3. CASE s \in {"held", "lost"}
  <2>1. InFlight' = InFlight \cup {o}
    BY <1>3 DEF InFlight, GateType
  <2> QED
    BY <1>1, <1>2, <1>3, <2>1, CountMove DEF Flight
<1>4. CASE s \notin {"held", "lost"}
  <2>1. InFlight' = InFlight \ {o}
    BY <1>4 DEF InFlight, GateType
  <2> QED
    BY <1>1, <1>2, <1>4, <2>1, CountMove DEF Flight
<1>5. Flight' \in Nat
  <2>1. InFlight' \in SUBSET Ops
    BY DEF InFlight
  <2> QED
    BY <2>1, CountMove DEF Flight
<1> QED
  BY <1>3, <1>4, <1>5

\* What one step of a client does to the counts.
LEMMA OneMoves ==
  ASSUME GateType, NEW o \in Ops, NEW s \in Places, stage' = [stage EXCEPT ![o] = s], git' = git,
         NEW x \in Nat, Orphans' = x
  PROVE  /\ Own' = Own + (IF s = "held" THEN 1 ELSE 0) - (IF stage[o] = "held" THEN 1 ELSE 0) + (x - Orphans)
         /\ Flight' = Flight + (IF s \in {"held", "lost"} THEN 1 ELSE 0)
                             - (IF stage[o] \in {"held", "lost"} THEN 1 ELSE 0)
         /\ Flight' \in Nat
<1> DEFINE h == Cardinality(Held)
           k == Cardinality(Held)'
           g == IF git = "held" THEN 1 ELSE 0
<1>1. h \in Nat /\ k = (IF s = "held" THEN IF stage[o] = "held" THEN h ELSE h + 1
                         ELSE IF stage[o] = "held" THEN h - 1 ELSE h)
  BY HeldMoves, CountTypes
<1>2. g \in Nat /\ Own = h + g + Orphans /\ Own' = k + g + x
  BY DEF Own
<1>3. Flight \in Nat /\ Flight' \in Nat /\ Flight' = (IF s \in {"held", "lost"} THEN IF stage[o] \in {"held", "lost"} THEN Flight ELSE Flight + 1
                    ELSE IF stage[o] \in {"held", "lost"} THEN Flight - 1 ELSE Flight)
  BY FlightMoves, CountTypes
<1>4. Orphans \in Nat
  BY CountTypes
<1> HIDE DEF h, k, g
<1>5. Own' = Own + (IF s = "held" THEN 1 ELSE 0) - (IF stage[o] = "held" THEN 1 ELSE 0) + (x - Orphans)
  BY <1>1, <1>2, <1>4
<1>6. Flight' = Flight + (IF s \in {"held", "lost"} THEN 1 ELSE 0) - (IF stage[o] \in {"held", "lost"} THEN 1 ELSE 0)
  BY <1>3
<1> QED
  BY <1>3, <1>5, <1>6

\* Attempts are counted up to the limit of each operation.
LEMMA TriedBounded ==
  ASSUME GateType, \A o \in Ops : tries[o] <= limit
  PROVE  Attempts <= Quota
<1>0. limit \in Nat
  BY DEF GateType
<1>1. IsFiniteSet(1..limit) /\ Cardinality(1..limit) = limit
  BY <1>0, FS_Interval
<1>2. IsFiniteSet(Ops \X (1..limit)) /\ Cardinality(Ops \X (1..limit)) = Quota
  <2>1. Cardinality(Ops \X (1..limit)) = Cardinality(Ops) * Cardinality(1..limit)
    BY <1>1, OpsFinite, FS_Product
  <2> QED
    BY <1>1, <2>1, OpsFinite, FS_Product DEF Quota
<1>3. Tried \in SUBSET (Ops \X (1..limit))
  BY DEF Tried, GateType
<1> QED
  BY <1>2, <1>3, FS_Subset DEF Attempts

\* A request is one more attempt.
LEMMA TriedOneMore ==
  ASSUME GateType, NEW o \in Ops, tries[o] < 2, tries' = [tries EXCEPT ![o] = @ + 1]
  PROVE  Attempts' = Attempts + 1
<1>1. IsFiniteSet(Tried)
  BY TriedFinite
<1>2. Tried' = Tried \cup {<<o, tries[o] + 1>>}
  BY DEF Tried, GateType
<1>3. <<o, tries[o] + 1>> \notin Tried
  BY DEF Tried, GateType
<1> QED
  BY <1>1, <1>2, <1>3, FS_AddElement DEF Attempts

\* Nothing has been tried before a wave.
LEMMA NoneTried == ASSUME tries = [o \in Ops |-> 0] PROVE Attempts = 0
<1>1. Tried = {}
  BY DEF Tried
<1> QED
  BY <1>1, FS_EmptySet DEF Attempts

\* A run that waits for nothing has nothing in flight.
LEMMA NoneInFlight == ASSUME GateType, \A o \in Ops : stage[o] \in {"idle", "done"}
                      PROVE Flight = 0 /\ Cardinality(Held) = 0
<1>1. InFlight = {} /\ Held = {}
  BY DEF InFlight, Held
<1> QED
  BY <1>1, FS_EmptySet DEF Flight

\* What the target holds is of the run, or of nobody who waits for it.
LEMMA ActiveIsOwn ==
  ASSUME GateType, GateType'
  PROVE  /\ Active = Own + Strays /\ Own \in Nat /\ Strays \in Nat /\ Orphans \in Nat
         /\ Active' = Own' + Strays' /\ Own' \in Nat /\ Strays' \in Nat /\ Orphans' \in Nat
<1>1. Held' \in SUBSET Ops
  BY DEF Held
<1> DEFINE x == Cardinality(Held)' + (IF git' = "held" THEN 1 ELSE 0)
           active == Active'
           own == Own'
           s == Strays'
           o == Orphans'
<1>2. x \in Nat
  BY <1>1, OpsFinite, FS_Subset, FS_CardinalityType
<1>3. s \in Nat /\ o \in Nat
  BY DEF GateType, Strays, Orphans
<1>4. active = x + s + o /\ own = x + o
  BY DEF Active, Own
<1> HIDE DEF x, active, own, s, o
<1>5. active = own + s /\ own \in Nat
  BY <1>2, <1>3, <1>4
<1> QED
  BY <1>3, <1>5, CountTypes DEF active, own, s, o

\* A check whose sender goes away keeps its place.
LEMMA LeftBehind ==
  ASSUME GateType, Held' = {}, git' # "held",
         Orphans' = Orphans + Cardinality(Held) + (IF git = "held" THEN 1 ELSE 0)
  PROVE  Own' = Own
<1> DEFINE h == Cardinality(Held)
           g == IF git = "held" THEN 1 ELSE 0
<1>1. h \in Nat /\ g \in Nat /\ Orphans \in Nat
  BY CountTypes
<1>2. h' = 0
  BY FS_EmptySet
<1>3. Own = h + g + Orphans /\ Own' = h' + 0 + Orphans' /\ Orphans' = Orphans + h + g
  BY DEF Own
<1> HIDE DEF h, g
<1> QED
  BY <1>1, <1>2, <1>3

-----------------------------------------------------------------------------
(* Steps of the run.                                                       *)

USE GateAssumption, ExperimentAssumption

\* Tuples of variables, sets of places and types of records.
USE DEF loadVars, workVars, recordVars, runVars, resultVars, gateVars, NoCounters, NoRows, NoAttempts,
        NoTruth, Places, Phases, Measured, Running, Opening, Closing, WaveCount, P4, CounterType, LogType,
        ClientType, TruthType

\* Without records the counts agree.
LEMMA DiscardKeeps ==
  ASSUME Discard, pc' # "after"
  PROVE  /\ RecordType' /\ ReasonInv' /\ IngressInv' /\ AbortInv' /\ HeldInv' /\ FullInv'
         /\ ReplacedInv' /\ AnswerInv' /\ QuotaInv'
<1> USE DEF Discard
<1>1. RecordType' /\ ReasonInv' /\ IngressInv'
  BY DEF RecordType, ReasonInv, IngressInv
<1>2. AbortInv'
  BY DEF AbortInv, Excused
<1>3. HeldInv' /\ FullInv' /\ ReplacedInv' /\ AnswerInv' /\ QuotaInv'
  BY DEF HeldInv, FullInv, ReplacedInv, NoLoad, AnswerInv, QuotaInv
<1> QED
  BY <1>1, <1>2, <1>3

\* A step of the run itself changes no count.
LEMMA CountsKept ==
  ASSUME IInv, UNCHANGED <<limit, stage, tries, git, left, counters, logs, client, truth>>,
         UNCHANGED <<harness, wave, quiet, generation, actual, last>>,
         recording' = "both" <=> recording = "both",
         pc' \in {"after", "path", "judge"} => pc' = pc
  PROVE  /\ Own' = Own /\ ReasonInv' /\ IngressInv' /\ AbortInv' /\ HeldInv' /\ FullInv'
         /\ ReplacedInv' /\ AnswerInv' /\ QuotaInv'
<1>1. /\ Own' = Own /\ Flight' = Flight /\ Attempts' = Attempts
      /\ Active' = Active /\ Strays' = Strays /\ Orphans' = Orphans
  BY SameLoad
<1>2. ReasonInv' /\ IngressInv'
  BY <1>1 DEF IInv, ReasonInv, IngressInv
<1>3. Clear' => Clear
  BY DEF Clear
<1>4. AbortInv' /\ FullInv'
  BY <1>1, <1>3 DEF IInv, AbortInv, FullInv, Excused
<1>5. HeldInv' /\ AnswerInv'
  BY <1>1 DEF IInv, HeldInv, AnswerInv
<1>6. ReplacedInv' /\ QuotaInv'
  BY <1>1, <1>3 DEF IInv, ReplacedInv, NoLoad, QuotaInv, Quota
<1> QED
  BY <1>1, <1>2, <1>4, <1>5, <1>6

\* A run starts with empty records.
LEMMA BeginKeeps == ASSUME IInv, NEW p \in Phases, Begin(p) PROVE IInv'
<1> USE DEF Begin, Quit, Discard
<1>0. pc' # "after" /\ Discard
  BY DEF Running
<1>1. /\ RecordType' /\ ReasonInv' /\ IngressInv' /\ AbortInv' /\ HeldInv' /\ FullInv'
      /\ ReplacedInv' /\ AnswerInv' /\ QuotaInv'
  BY <1>0, DiscardKeeps
<1>2. GateType' /\ RunType'
  BY DEF IInv, GateType, RunType
<1>3. PlanInv'
  BY DEF IInv, GateType, RunType, PlanInv
<1>4. RecordInv' /\ ResultInv'
  BY DEF IInv, RunType, RecordInv, ResultInv, Empty, Orphans
<1> QED
  BY <1>1, <1>2, <1>3, <1>4 DEF IInv

\* The log collection starts on a run that has sent nothing.
LEMMA BeforeLogsKeeps == ASSUME IInv, BeforeLogs PROVE IInv'
<1> USE DEF BeforeLogs
<1>1. /\ Own' = Own /\ Flight' = Flight /\ Attempts' = Attempts
      /\ Active' = Active /\ Strays' = Strays /\ Orphans' = Orphans
  BY SameLoad
<1>2. recording # "both" /\ Empty
  BY DEF IInv, RecordInv
<1>3. GateType' /\ RecordType' /\ RunType'
  BY DEF IInv, GateType, RecordType, RunType
<1>4. PlanInv'
  BY DEF IInv, PlanInv
<1>5. RecordInv'
  BY <1>1, <1>2 DEF IInv, RecordInv, Empty
<1>6. ReasonInv' /\ IngressInv'
  BY <1>1, <1>2 DEF IInv, ReasonInv, IngressInv, Empty, RecordType
<1>7. HeldInv' /\ FullInv' /\ AbortInv' /\ ReplacedInv'
  BY DEF HeldInv, FullInv, AbortInv, ReplacedInv
<1>8. AnswerInv' /\ QuotaInv'
  BY <1>1, <1>2 DEF IInv, AnswerInv, QuotaInv, Quota
<1>9. ResultInv'
  BY DEF IInv, ResultInv
<1> QED
  BY <1>3, <1>4, <1>5, <1>6, <1>7, <1>8, <1>9 DEF IInv

\* The counters are read before the first wave.
LEMMA BeforeCountersKeeps == ASSUME IInv, BeforeCounters PROVE IInv'
<1> USE DEF BeforeCounters, SeenQuiet, Outstanding
<1>1. Own' = Own /\ Flight' = Flight /\ Active' = Active /\ Strays' = Strays /\ Orphans' = Orphans
  BY SameLoad
<1>2. Flight = 0 /\ Own = 0 /\ Orphans = 0
  <2>1. Flight = 0 /\ Cardinality(Held) = 0
    BY NoneInFlight DEF IInv, PlanInv
  <2>2. git = "idle" /\ Orphans = 0
    BY DEF IInv, PlanInv, RecordInv
  <2> QED
    BY <2>1, <2>2 DEF Own
<1>3. left.own = 0
  BY <1>2 DEF IInv, GateType, Orphans
<1>4. Empty /\ UNCHANGED <<counters, client, truth, logs, left>> /\ recording' \in {"none", "both"}
  BY DEF IInv, RecordInv
<1>5. GateType' /\ RecordType' /\ RunType'
  BY DEF IInv, GateType, RecordType, RunType
<1>6. PlanInv'
  BY DEF IInv, PlanInv, RunType
<1>7. RecordInv'
  BY <1>1, <1>4 DEF RecordInv, Empty
<1>8. quiet' = "yes" => quiet = "yes" /\ Active = 0
  BY CountTypes DEF IInv
<1>9. ReasonInv'
  <2>1. Strays' \in Nat
    BY <1>1, CountTypes DEF IInv
  <2> QED
    BY <1>4, <2>1 DEF ReasonInv, Empty, IInv, RecordType
<1>10. IngressInv' /\ AbortInv' /\ ReplacedInv'
  BY <1>3, <1>4 DEF IngressInv, AbortInv, Excused, ReplacedInv, Empty, IInv, RecordType
<1>11. HeldInv' /\ FullInv'
  BY <1>1, <1>2, <1>4, <1>8 DEF HeldInv, FullInv, Clear, Empty
<1>12. AnswerInv' /\ QuotaInv'
  BY <1>1, <1>2, <1>4 DEF AnswerInv, QuotaInv, Empty
<1>13. ResultInv'
  BY DEF IInv, ResultInv, RunType
<1> QED
  BY <1>5, <1>6, <1>7, <1>9, <1>10, <1>11, <1>12, <1>13 DEF IInv

\* A monitor that raises, or a failed sentinel.
LEMMA DisturbedKeeps == ASSUME IInv, Disturbed PROVE IInv'
<1> USE DEF Disturbed, Disturb
<1>1. /\ Own' = Own /\ ReasonInv' /\ IngressInv' /\ AbortInv' /\ HeldInv' /\ FullInv'
      /\ ReplacedInv' /\ AnswerInv' /\ QuotaInv'
  BY CountsKept
<1>2. GateType' /\ RecordType' /\ RunType'
  BY DEF IInv, GateType, RecordType, RunType
<1>3. PlanInv' /\ RecordInv'
  BY DEF IInv, GateType, RunType, PlanInv, RecordInv, Empty, Orphans
<1>4. ResultInv'
  BY DEF IInv, RunType, RecordInv, ResultInv
<1> QED
  BY <1>1, <1>2, <1>3, <1>4 DEF IInv

\* A monitor sees the stop event.
LEMMA MonitorEndKeeps == ASSUME IInv, MonitorEnd PROVE IInv'
<1> USE DEF MonitorEnd
<1>1. /\ Own' = Own /\ ReasonInv' /\ IngressInv' /\ AbortInv' /\ HeldInv' /\ FullInv'
      /\ ReplacedInv' /\ AnswerInv' /\ QuotaInv'
  BY CountsKept
<1>2. GateType' /\ RecordType' /\ RunType'
  BY DEF IInv, GateType, RecordType, RunType
<1>3. PlanInv' /\ RecordInv'
  BY DEF IInv, GateType, RunType, PlanInv, RecordInv, Empty, Orphans
<1>4. ResultInv'
  BY DEF IInv, RunType, RecordInv, ResultInv
<1> QED
  BY <1>1, <1>2, <1>3, <1>4 DEF IInv

\* The end of a wave that is followed by another, or by the join.
LEMMA WaveGoesOnKeeps == ASSUME IInv, WaveEnd, UNCHANGED recordVars PROVE IInv'
<1> USE DEF WaveEnd, WorkDone, Leave, StopMonitors, Discard
<1>1. /\ Own' = Own /\ ReasonInv' /\ IngressInv' /\ AbortInv' /\ HeldInv' /\ FullInv'
      /\ ReplacedInv' /\ AnswerInv' /\ QuotaInv'
  BY CountsKept
<1>2. GateType' /\ RecordType' /\ RunType'
  BY DEF IInv, GateType, RecordType, RunType
<1>3. PlanInv' /\ RecordInv'
  BY DEF IInv, GateType, RunType, PlanInv, RecordInv, Empty, Orphans
<1>4. ResultInv'
  BY DEF IInv, RunType, RecordInv, ResultInv
<1> QED
  BY <1>1, <1>2, <1>3, <1>4 DEF IInv

\* A load that fails is joined without records.
LEMMA WaveFailsKeeps == ASSUME IInv, WaveEnd, Leave("yes") PROVE IInv'
<1> USE DEF WaveEnd, WorkDone, Leave, StopMonitors, Discard
<1>0. pc' # "after" /\ Discard
  BY DEF Running
<1>1. /\ RecordType' /\ ReasonInv' /\ IngressInv' /\ AbortInv' /\ HeldInv' /\ FullInv'
      /\ ReplacedInv' /\ AnswerInv' /\ QuotaInv'
  BY <1>0, DiscardKeeps
<1>2. GateType' /\ RunType'
  BY DEF IInv, GateType, RunType
<1>3. PlanInv'
  BY DEF IInv, GateType, RunType, PlanInv
<1>4. RecordInv' /\ ResultInv'
  BY DEF IInv, RunType, RecordInv, ResultInv, Empty, Orphans
<1> QED
  BY <1>1, <1>2, <1>3, <1>4 DEF IInv

\* So is one that is interrupted.
LEMMA InterruptKeeps == ASSUME IInv, Interrupt PROVE IInv'
<1> USE DEF Interrupt, Leave, StopMonitors, Discard
<1>0. pc' # "after" /\ Discard
  BY DEF Running
<1>1. /\ RecordType' /\ ReasonInv' /\ IngressInv' /\ AbortInv' /\ HeldInv' /\ FullInv'
      /\ ReplacedInv' /\ AnswerInv' /\ QuotaInv'
  BY <1>0, DiscardKeeps
<1>2. GateType' /\ RunType'
  BY DEF IInv, GateType, RunType
<1>3. PlanInv'
  BY DEF IInv, GateType, RunType, PlanInv
<1>4. RecordInv' /\ ResultInv'
  BY DEF IInv, RunType, RecordInv, ResultInv, Empty, Orphans
<1> QED
  BY <1>1, <1>2, <1>3, <1>4 DEF IInv

\* A sound load is joined.
LEMMA JoinSoundKeeps == ASSUME IInv, Join, LoadSound PROVE IInv'
<1> USE DEF Join, WorkDone, LoadSound
<1>1. /\ Own' = Own /\ ReasonInv' /\ IngressInv' /\ AbortInv' /\ HeldInv' /\ FullInv'
      /\ ReplacedInv' /\ AnswerInv' /\ QuotaInv'
  BY CountsKept
<1>2. GateType' /\ RecordType' /\ RunType'
  BY DEF IInv, GateType, RecordType, RunType
<1>3. PlanInv' /\ RecordInv'
  BY DEF IInv, GateType, RunType, PlanInv, RecordInv, Empty, Orphans
<1>4. ResultInv'
  BY DEF IInv, RunType, RecordInv, ResultInv
<1> QED
  BY <1>1, <1>2, <1>3, <1>4 DEF IInv

\* A broken monitor ends the run at the join.
LEMMA JoinFailsKeeps == ASSUME IInv, Join, ~LoadSound PROVE IInv'
<1> USE DEF Join, WorkDone, Over, Quit, Discard
<1>0. pc' # "after" /\ Discard
  BY DEF Running
<1>1. /\ RecordType' /\ ReasonInv' /\ IngressInv' /\ AbortInv' /\ HeldInv' /\ FullInv'
      /\ ReplacedInv' /\ AnswerInv' /\ QuotaInv'
  BY <1>0, DiscardKeeps
<1>2. GateType' /\ RunType'
  BY DEF IInv, GateType, RunType
<1>3. PlanInv'
  BY DEF IInv, GateType, RunType, PlanInv
<1>4. RecordInv' /\ ResultInv'
  BY DEF IInv, RunType, RecordInv, ResultInv, Empty, Orphans
<1> QED
  BY <1>1, <1>2, <1>3, <1>4 DEF IInv

\* The configuration is still the one of the first reading, and a saturation
\* run has seen the gate empty.
LEMMA SettleOnKeeps == ASSUME IInv, Settle, pc' = "after", UNCHANGED recordVars PROVE IInv'
<1> USE DEF Settle, Over, Quit
<1>1. /\ Own' = Own /\ Flight' = Flight /\ Attempts' = Attempts
      /\ Active' = Active /\ Strays' = Strays /\ Orphans' = Orphans
  BY SameLoad
<1>2. /\ pc = "settle" /\ generation = actual /\ (P4 => ~Outstanding)
      /\ UNCHANGED <<loadVars, recordVars, harness, runVars, generation, resultVars>>
  BY DEF ConfigurationKept
<1>3. /\ Own \in Nat /\ Orphans \in Nat /\ Strays \in Nat /\ Active = Own + Strays
      /\ P4 => Active = 0
  BY <1>2, CountTypes DEF IInv, Outstanding
<1>4. P4 => Orphans = 0
  <2>1. Orphans <= Own
    <3>1. Cardinality(Held) \in Nat
      BY CountTypes DEF IInv
    <3> QED
      BY <1>3, <3>1 DEF Own
  <2> QED
    BY <1>3, <2>1
<1>5. GateType' /\ RecordType' /\ RunType'
  BY <1>2 DEF IInv, GateType, RecordType, RunType
<1>6. PlanInv' /\ RecordInv'
  BY <1>2 DEF IInv, PlanInv, RecordInv, Empty
<1>7. ReasonInv' /\ IngressInv'
  BY <1>1, <1>2 DEF IInv, ReasonInv, IngressInv
<1>8. AbortInv'
  BY <1>1, <1>2, <1>4 DEF IInv, AbortInv, Excused
<1>9. FullInv'
  BY <1>1, <1>2, <1>3 DEF IInv, FullInv, Clear, RecordType
<1>10. ReplacedInv'
  BY <1>2 DEF ReplacedInv
<1>11. HeldInv' /\ AnswerInv' /\ QuotaInv'
  BY <1>1, <1>2 DEF IInv, HeldInv, AnswerInv, QuotaInv, Quota
<1>12. ResultInv'
  BY <1>2 DEF IInv, ResultInv
<1> QED
  BY <1>5, <1>6, <1>7, <1>8, <1>9, <1>10, <1>11, <1>12 DEF IInv

\* It is another one, or the gate is still busy.
LEMMA SettleFailsKeeps == ASSUME IInv, Settle, Over PROVE IInv'
<1> USE DEF Settle, Over, Quit, Discard
<1>0. pc' # "after" /\ Discard
  BY DEF Running
<1>1. /\ RecordType' /\ ReasonInv' /\ IngressInv' /\ AbortInv' /\ HeldInv' /\ FullInv'
      /\ ReplacedInv' /\ AnswerInv' /\ QuotaInv'
  BY <1>0, DiscardKeeps
<1>2. GateType' /\ RunType'
  BY DEF IInv, GateType, RunType
<1>3. PlanInv'
  BY DEF IInv, GateType, RunType, PlanInv
<1>4. RecordInv' /\ ResultInv'
  BY DEF IInv, RunType, RecordInv, ResultInv, Empty, Orphans
<1> QED
  BY <1>1, <1>2, <1>3, <1>4 DEF IInv

\* The counters are read after the load: a busy gate loses `quiet`.
LEMMA AfterCountersKeeps == ASSUME IInv, AfterCounters PROVE IInv'
<1> USE DEF AfterCounters, SeenQuiet, Outstanding
<1>1. /\ Own' = Own /\ Flight' = Flight /\ Attempts' = Attempts
      /\ Active' = Active /\ Strays' = Strays /\ Orphans' = Orphans
  BY SameLoad
<1>2. /\ Own \in Nat /\ Orphans \in Nat /\ Strays \in Nat /\ Active = Own + Strays /\ Orphans <= Own
  <2>1. Cardinality(Held) \in Nat /\ Own \in Nat /\ Orphans \in Nat
    BY CountTypes DEF IInv
  <2>2. Orphans <= Own
    BY <2>1 DEF Own
  <2> QED
    BY <2>2, CountTypes DEF IInv
<1>3. quiet' = "yes" => quiet = "yes" /\ Strays = 0 /\ Orphans = 0
  BY <1>2
<1>4. Clear' => Clear /\ left.own = 0
  <2>1. left.own \in Nat /\ left.cutOwn \in Nat /\ Orphans = left.own + left.cutOwn
    BY DEF IInv, GateType, Orphans
  <2>2. P4 => Orphans = 0
    BY DEF IInv, AbortInv
  <2>3. Clear' => Clear /\ Orphans = 0
    BY <1>3, <2>2 DEF Clear
  <2> QED
    BY <2>1, <2>3
<1>5. /\ recording \in {"none", "both"} /\ (recording = "none" => Empty)
      /\ UNCHANGED <<counters, logs, client, truth, left, harness, wave, actual, generation>>
      /\ pc = "after" /\ pc' = "path" /\ last' = generation /\ recording' # "both"
  BY DEF IInv, GateType, RecordInv
<1>6. GateType' /\ RecordType' /\ RunType'
  BY DEF IInv, GateType, RecordType, RunType
<1>7. PlanInv' /\ RecordInv'
  BY DEF IInv, PlanInv, RecordInv
<1>8. ReasonInv'
  BY <1>1, <1>2, <1>3, <1>5 DEF IInv, ReasonInv
<1>9. IngressInv'
  BY <1>5 DEF IInv, IngressInv
<1>10. AbortInv'
  <2>1. ASSUME last' = actual', Clear' PROVE client.failed <= Excused
    <3>1. CASE recording = "both"
      BY <1>4, <1>5, <2>1, <3>1 DEF IInv, AbortInv, RecordType, Excused
    <3>2. CASE recording = "none"
      BY <1>5, <3>2 DEF Empty, IInv, RecordType, Excused
    <3> QED
      BY <1>5, <3>1, <3>2
  <2>2. Excused' = Excused
    BY <1>5 DEF Excused
  <2> QED
    BY <1>5, <2>1, <2>2 DEF AbortInv
<1>11. ReplacedInv'
  BY <1>4, <1>5 DEF IInv, RecordType, ReplacedInv, NoLoad
<1>12. HeldInv' /\ FullInv' /\ AnswerInv' /\ QuotaInv'
  BY <1>1, <1>5 DEF IInv, HeldInv, FullInv, AnswerInv, QuotaInv, Quota
<1>13. ResultInv'
  BY DEF IInv, ResultInv
<1> QED
  BY <1>6, <1>7, <1>8, <1>9, <1>10, <1>11, <1>12, <1>13 DEF IInv

\* The rows are collected, perhaps without a last one.
LEMMA AfterLogsKeeps == ASSUME IInv, AfterLogs PROVE IInv'
<1> USE DEF AfterLogs, Calm, Disturb
<1>1. Own' = Own /\ Flight' = Flight /\ Attempts' = Attempts /\ Strays' = Strays /\ Orphans' = Orphans
  BY SameLoad
<1>2. /\ pc = "path" /\ pc' = "judge" /\ recording' = "none" /\ recording # "both"
      /\ UNCHANGED <<counters, client, left, harness, wave, quiet, actual, last, generation>>
  BY DEF IInv, RecordInv
<1>3. /\ logs' \in LogType /\ TruthType'
      /\ logs'.strange = logs.strange
      /\ truth'.refused = truth.refused /\ truth'.unsent = truth.unsent /\ truth'.granted = truth.granted
      /\ logs'.ingress + truth'.missed = logs.ingress + truth.missed
      /\ logs'.unmapped + truth'.missed >= logs.unmapped + truth.missed
  <2>0. logs \in LogType /\ TruthType
    BY DEF IInv, RecordType
  <2>1. CASE UNCHANGED <<logs, truth>>
    BY <2>0, <2>1
  <2>2. CASE /\ \E r \in {"served", "refused"} : logs[r] > 0 /\ logs' = [logs EXCEPT ![r] = @ - 1]
             /\ UNCHANGED truth
    <3>1. PICK r \in {"served", "refused"} : logs[r] > 0 /\ logs' = [logs EXCEPT ![r] = @ - 1]
      BY <2>2
    <3>2. logs' = [checks |-> logs.checks, strange |-> logs.strange,
                   served |-> IF r = "served" THEN logs.served - 1 ELSE logs.served,
                   refused |-> IF r = "refused" THEN logs.refused - 1 ELSE logs.refused,
                   ingress |-> logs.ingress, unmapped |-> logs.unmapped]
      BY <2>0, <3>1
    <3>3. logs.served \in Nat /\ logs.refused \in Nat /\ (r = "served" => logs.served > 0) /\ (r = "refused" => logs.refused > 0)
      BY <2>0, <3>1
    <3>4. logs' \in LogType
      BY <2>0, <3>1, <3>2, <3>3
    <3> QED
      BY <2>0, <2>2, <3>2, <3>4
  <2>3. CASE /\ logs.ingress > 0 /\ truth' = [truth EXCEPT !.missed = @ + 1]
             /\ logs' = [logs EXCEPT !.ingress = @ - 1]
    <3>1. logs' = [checks |-> logs.checks, strange |-> logs.strange, served |-> logs.served,
                   refused |-> logs.refused, ingress |-> logs.ingress - 1, unmapped |-> logs.unmapped]
      BY <2>0, <2>3
    <3>2. truth' = [refused |-> truth.refused, unsent |-> truth.unsent, granted |-> truth.granted,
                    missed |-> truth.missed + 1]
      BY <2>0, <2>3
    <3> QED
      BY <2>0, <2>3, <3>1, <3>2
  <2>4. CASE /\ logs.ingress > 0 /\ truth' = [truth EXCEPT !.missed = @ + 1]
             /\ logs.unmapped > 0 /\ logs' = [logs EXCEPT !.ingress = @ - 1, !.unmapped = @ - 1]
    <3>1. PICK l : l = [logs EXCEPT !.ingress = @ - 1, !.unmapped = @ - 1]
      OBVIOUS
    <3>2. l = [checks |-> logs.checks, strange |-> logs.strange, served |-> logs.served,
               refused |-> logs.refused, ingress |-> logs.ingress - 1, unmapped |-> logs.unmapped - 1]
      BY <2>0, <3>1
    <3>3. truth' = [refused |-> truth.refused, unsent |-> truth.unsent, granted |-> truth.granted,
                    missed |-> truth.missed + 1]
      BY <2>0, <2>4
    <3> QED
      BY <2>0, <2>4, <3>1, <3>2, <3>3
  <2> QED
    BY <2>1, <2>2, <2>3, <2>4
<1>4. GateType' /\ RecordType' /\ RunType'
  BY <1>3 DEF IInv, GateType, RecordType, RunType
<1>5. PlanInv' /\ RecordInv'
  BY DEF IInv, PlanInv, RecordInv
<1>6. ReasonInv'
  BY <1>1, <1>2, <1>3 DEF IInv, ReasonInv
<1>7. IngressInv'
  BY <1>2, <1>3 DEF IInv, IngressInv, RecordType
<1>8. AbortInv'
  <2>1. Clear' => Clear
    BY <1>2 DEF Clear
  <2>2. Excused <= Excused'
    BY <1>2, <1>3 DEF IInv, RecordType, Excused
  <2>3. client.failed \in Nat /\ Excused \in Nat /\ Excused' \in Nat
    BY <1>3, <1>2 DEF IInv, RecordType, Excused
  <2> DEFINE e == Excused
             f == Excused'
  <2>4. last = actual /\ Clear => client.failed <= e
    BY <1>2 DEF IInv, AbortInv
  <2>5. e \in Nat /\ f \in Nat /\ e <= f /\ client.failed \in Nat
    BY <2>2, <2>3
  <2> HIDE DEF e, f
  <2>6. last = actual /\ Clear => client.failed <= f
    BY <2>4, <2>5
  <2> QED
    BY <1>2, <2>1, <2>6 DEF AbortInv, f
<1>9. ReplacedInv'
  BY <1>2, <1>3 DEF IInv, ReplacedInv, NoLoad, Clear
<1>10. HeldInv' /\ FullInv' /\ AnswerInv'
  BY <1>1, <1>2 DEF IInv, HeldInv, FullInv, AnswerInv
<1>11. QuotaInv' /\ ResultInv'
  BY <1>1, <1>2 DEF IInv, QuotaInv, Quota, ResultInv
<1> QED
  BY <1>4, <1>5, <1>6, <1>7, <1>8, <1>9, <1>10, <1>11 DEF IInv

\* A command that fails.
LEMMA AbortKeeps == ASSUME IInv, Abort PROVE IInv'
<1> USE DEF Abort, Over, Quit, Discard
<1>0. pc' # "after" /\ Discard
  BY DEF Running
<1>1. /\ RecordType' /\ ReasonInv' /\ IngressInv' /\ AbortInv' /\ HeldInv' /\ FullInv'
      /\ ReplacedInv' /\ AnswerInv' /\ QuotaInv'
  BY <1>0, DiscardKeeps
<1>2. GateType' /\ RunType'
  BY DEF IInv, GateType, RunType
<1>3. PlanInv'
  BY DEF IInv, GateType, RunType, PlanInv
<1>4. RecordInv' /\ ResultInv'
  BY DEF IInv, RunType, RecordInv, ResultInv, Empty, Orphans
<1> QED
  BY <1>1, <1>2, <1>3, <1>4 DEF IInv

\* The end of the process leaves its held checks at the gate.
LEMMA KillKeeps == ASSUME IInv, Kill PROVE IInv'
<1> USE DEF Kill, Over, Quit, Discard
<1>0. pc' # "after" /\ Discard
  BY DEF Running
<1>1. /\ RecordType' /\ ReasonInv' /\ IngressInv' /\ AbortInv' /\ HeldInv' /\ FullInv'
      /\ ReplacedInv' /\ AnswerInv' /\ QuotaInv'
  BY <1>0, DiscardKeeps
<1>2. GateType' /\ RunType'
  BY CountTypes DEF IInv, GateType, RunType
<1>3. PlanInv'
  BY DEF IInv, GateType, RunType, PlanInv
<1>4. RecordInv' /\ ResultInv'
  BY DEF IInv, RunType, RecordInv, ResultInv, Empty, Orphans
<1> QED
  BY <1>1, <1>2, <1>3, <1>4 DEF IInv

\* The configuration of the calibration is frozen.
LEMMA FreezeKeeps == ASSUME IInv, Freeze PROVE IInv'
<1> USE DEF Freeze
<1>1. /\ Own' = Own /\ ReasonInv' /\ IngressInv' /\ AbortInv' /\ HeldInv' /\ FullInv'
      /\ ReplacedInv' /\ AnswerInv' /\ QuotaInv'
  BY CountsKept
<1>2. GateType' /\ RecordType' /\ RunType'
  BY DEF IInv, GateType, RecordType, RunType
<1>3. PlanInv' /\ RecordInv'
  BY DEF IInv, GateType, RunType, PlanInv, RecordInv, Empty, Orphans
<1>4. ResultInv'
  BY DEF IInv, RunType, RecordInv, ResultInv
<1> QED
  BY <1>1, <1>2, <1>3, <1>4 DEF IInv

\* Both accepted runs are on the frozen configuration.
LEMMA PairKeeps == ASSUME IInv, Pair PROVE IInv'
<1> USE DEF Pair, Comparable
<1>1. /\ Own' = Own /\ ReasonInv' /\ IngressInv' /\ AbortInv' /\ HeldInv' /\ FullInv'
      /\ ReplacedInv' /\ AnswerInv' /\ QuotaInv'
  BY CountsKept
<1>2. GateType' /\ RecordType' /\ RunType'
  BY DEF IInv, GateType, RecordType, RunType
<1>3. PlanInv' /\ RecordInv'
  BY DEF IInv, GateType, RunType, PlanInv, RecordInv, Empty, Orphans
<1>4. ResultInv'
  BY DEF IInv, RunType, RecordInv, ResultInv
<1> QED
  BY <1>1, <1>2, <1>3, <1>4 DEF IInv

\* A wave starts with nothing tried and nothing held.
LEMMA SubmitKeeps == ASSUME IInv, Submit PROVE IInv'
<1> USE DEF Submit
<1>1. Own' = Own /\ Flight' = Flight /\ Flight = 0 /\ Attempts' = 0
  <2>1. Flight = 0 /\ Cardinality(Held) = 0
    BY NoneInFlight DEF IInv, PlanInv
  <2>2. Flight' = 0 /\ Cardinality(Held)' = 0
    <3>1. InFlight' = {} /\ Held' = {}
      BY DEF InFlight, Held
    <3> QED
      BY <3>1, FS_EmptySet DEF Flight
  <2>3. Attempts' = 0
    <3>1. Tried' = {}
      BY DEF Tried
    <3> QED
      BY <3>1, FS_EmptySet DEF Attempts
  <2>4. git = "idle" /\ git' \in {"idle", "ready"} /\ Orphans' = Orphans
    BY DEF IInv, PlanInv, Orphans
  <2> QED
    BY <2>1, <2>2, <2>3, <2>4 DEF Own
<1>2. Own \in Nat /\ Attempts \in Nat /\ Attempts <= Quota
  BY CountTypes, TriedBounded DEF IInv, PlanInv
<1>3. GateType' /\ RecordType' /\ RunType'
  BY DEF IInv, PlanInv, GateType, RecordType, RunType
<1>4. PlanInv'
  BY DEF IInv, PlanInv, GateType, RecordType, RunType
<1>5. RecordInv'
  BY DEF IInv, RecordInv, Empty
<1>6. ReasonInv' /\ IngressInv'
  BY DEF IInv, ReasonInv, IngressInv, Strays
<1>7. Active' = Active
  <2>1. Active = Own + Strays /\ Active' = Own' + Strays'
    BY <1>3, ActiveIsOwn DEF IInv
  <2>2. Strays' = Strays
    BY DEF Strays
  <2> QED
    BY <1>1, <2>1, <2>2
<1>8. AbortInv' /\ FullInv'
  BY <1>7 DEF IInv, AbortInv, FullInv, Excused, Clear
<1>9. HeldInv' /\ ReplacedInv' /\ AnswerInv'
  BY <1>1 DEF IInv, HeldInv, ReplacedInv, AnswerInv
<1>10. QuotaInv'
  <2>1. Quota' = Quota /\ Quota \in Nat
    BY DEF IInv, GateType, Quota
  <2>2. wave' = wave + 1 /\ wave \in Nat /\ client' = client /\ client.sent \in Nat
    BY DEF IInv, GateType, RecordType, RunType
  <2>3. wave' * Quota = wave * Quota + Quota
    BY <2>1, <2>2
  <2>4. client.sent = 0 \/ client.sent + Quota <= wave * Quota + Attempts
    BY DEF IInv, QuotaInv
  <2>5. wave * Quota \in Nat
    BY <2>1, <2>2
  <2> QED
    BY <1>1, <1>2, <2>1, <2>2, <2>3, <2>4, <2>5 DEF QuotaInv
<1>11. ResultInv'
  BY DEF IInv, ResultInv, RunType
<1> QED
  BY <1>3, <1>4, <1>5, <1>6, <1>8, <1>9, <1>10, <1>11 DEF IInv

\* A run whose rows and counters agree was served by one HAProxy: what another
\* one had dispatched before is missing in the counters.
LEMMA ValidOnOneProxy == ASSUME IInv, pc = "judge", Valid PROVE last = actual /\ Clear
<1>1. Clear
  BY DEF Clear, Valid, CascadeValid
<1>2. /\ counters \in CounterType /\ logs \in LogType /\ ClientType /\ TruthType
      /\ recording # "both"
  BY DEF IInv, RecordType, RecordInv
<1>3. counters.overflow > 0
  BY DEF Valid, SaturationValid, CascadeValid
<1>4. logs.strange = 0 /\ counters.dispatched = counters.total + counters.overflow
  BY <1>2 DEF Valid, SaturationValid, CascadeValid, OwnChecks, TargetRows
<1>5. ASSUME truth.granted = 0, counters.total > 0 PROVE FALSE
  <2>1. CASE P4
    <3>1. counters.overflow = client.failed /\ counters.dispatched = client.sent /\ client.odd = 0
      BY <2>1 DEF Valid, SaturationValid, ImpactOnly
    <3>2. /\ client.sent <= truth.granted + truth.refused + truth.unsent + client.odd
          /\ truth.refused + truth.unsent <= client.failed
      BY <2>1 DEF IInv, ReasonInv
    <3> QED
      BY <1>2, <1>4, <1>5, <3>1, <3>2
  <2>2. CASE ~P4
    <3>1. quiet = "yes"
      BY <2>2 DEF Valid, CascadeValid
    <3>2. counters.total <= truth.granted + logs.strange + 0
      BY <1>2, <3>1 DEF IInv, ReasonInv
    <3> QED
      BY <1>2, <1>4, <1>5, <3>2
  <2> QED
    BY <2>1, <2>2
<1>6. last # actual => NoLoad \/ counters.dispatched < counters.total + counters.overflow + logs.strange
  BY <1>1 DEF IInv, ReplacedInv
<1>7. ~NoLoad
  BY <1>3, <1>5 DEF NoLoad
<1> QED
  BY <1>1, <1>2, <1>4, <1>6, <1>7

\* A run that is accepted had one configuration at both readings.
LEMMA JudgeKeeps == ASSUME IInv, Judge PROVE IInv'
<1> USE DEF Judge, Over, Quit
<1>0. pc' # "after" /\ Discard
  BY DEF Accept
<1>1. /\ RecordType' /\ ReasonInv' /\ IngressInv' /\ AbortInv' /\ HeldInv' /\ FullInv'
      /\ ReplacedInv' /\ AnswerInv' /\ QuotaInv'
  BY <1>0, DiscardKeeps
<1> USE DEF Discard
<1>2. GateType'
  BY DEF IInv, GateType, RecordType, RunType
<1>3. CASE Valid /\ Accept
  <2>1. last = actual
    BY <1>3, ValidOnOneProxy
  <2>2. RunType'
    BY <1>3, <2>1 DEF Accept, IInv, GateType, RecordType, RunType
  <2>3. PlanInv'
    BY <1>3 DEF Accept, IInv, PlanInv, GateType, RecordType, RunType
  <2>4. RecordInv'
    BY <1>3 DEF Accept, IInv, RecordInv, Empty, Orphans
  <2>5. ResultInv'
    BY <1>3, <2>1 DEF Accept, IInv, ResultInv, GateType, RecordType, RunType
  <2> QED
    BY <1>1, <1>2, <2>2, <2>3, <2>4, <2>5 DEF IInv
<1>4. CASE Over /\ UNCHANGED <<accepted, window, amplified>>
  <2>1. RunType' /\ PlanInv'
    BY <1>4 DEF IInv, PlanInv, GateType, RecordType, RunType
  <2>2. RecordInv' /\ ResultInv'
    BY <1>4 DEF IInv, RecordInv, ResultInv, Empty, RunType
  <2> QED
    BY <1>1, <1>2, <2>1, <2>2 DEF IInv
<1> QED
  BY <1>3, <1>4

\* Requests that others have still open at a HAProxy that goes.
LEMMA ReplaceAdds ==
  ASSUME RecordType, GateType, Replace
  PROVE  /\ counters' \in CounterType /\ counters'.overflow = counters.overflow /\ counters'.total = counters.total
         /\ recording = "both" => counters'.dispatched = 0 /\ counters'.aborts = 0
         /\ recording # "both" => counters' = counters
         /\ logs' \in LogType /\ logs'.ingress >= logs.ingress
         /\ logs'.strange = logs.strange /\ logs'.unmapped = logs.unmapped
<1> USE DEF RecordType
<1>1. PICK c : c = [counters EXCEPT !.dispatched = 0, !.aborts = 0]
  OBVIOUS
<1>2. c = [overflow |-> counters.overflow, total |-> counters.total, dispatched |-> 0, aborts |-> 0]
  BY <1>1
<1>3. counters' = (IF recording = "both" THEN c ELSE counters)
  BY <1>1 DEF Replace, Counted
<1>4. left.other \in Nat
  BY DEF GateType
<1>5. PICK n \in 0 .. left.other : Logged([logs EXCEPT !.ingress = @ + n])
  BY DEF Replace
<1>6. PICK l : l = [logs EXCEPT !.ingress = @ + n]
  OBVIOUS
<1>7. l = [checks |-> logs.checks, strange |-> logs.strange, served |-> logs.served, refused |-> logs.refused,
           ingress |-> logs.ingress + n, unmapped |-> logs.unmapped]
  BY <1>6
<1>8. n \in Nat
  BY <1>4
<1>9. logs' = (IF recording # "none" THEN l ELSE logs)
  BY <1>5, <1>6 DEF Logged
<1> QED
  BY <1>2, <1>3, <1>7, <1>8, <1>9

\* The checks of a HAProxy that goes stay at the pool, and their clients wait.
LEMMA ReplaceKeeps == ASSUME IInv, Replace PROVE IInv'
<1>1. /\ Own' = Own /\ Flight' = Flight /\ Attempts' = Attempts
      /\ Held' = {} /\ git' # "held" /\ Strays' = Strays /\ left'.own = 0
      /\ Orphans' = Orphans + Cardinality(Held) + (IF git = "held" THEN 1 ELSE 0)
  <2>1. InFlight' = InFlight /\ Held' = {} /\ Tried' = Tried /\ git' # "held"
    BY DEF Replace, IInv, GateType, InFlight, Held, Tried
  <2>2. /\ left'.own = 0 /\ left'.other = 0 /\ left'.cutOther = Strays
        /\ left'.cutOwn = Orphans + Cardinality(Held) + (IF git = "held" THEN 1 ELSE 0)
    BY DEF Replace
  <2> DEFINE x == Orphans + Cardinality(Held) + (IF git = "held" THEN 1 ELSE 0)
  <2>3. Strays \in Nat /\ x \in Nat
    BY CountTypes DEF IInv
  <2>4. Strays' = 0 + Strays /\ Orphans' = 0 + x
    BY <2>2 DEF Strays, Orphans
  <2>5. Strays' = Strays /\ Orphans' = x
    BY <2>3, <2>4
  <2>6. Own' = Own
    BY <2>1, <2>5, LeftBehind DEF IInv
  <2> QED
    BY <2>1, <2>2, <2>5, <2>6 DEF Flight, Attempts
<1>2. Own \in Nat /\ Strays \in Nat /\ Orphans \in Nat /\ Cardinality(Held) \in Nat
  BY CountTypes DEF IInv
<1>3. /\ counters' \in CounterType /\ counters'.overflow = counters.overflow /\ counters'.total = counters.total
      /\ recording = "both" => counters'.dispatched = 0 /\ counters'.aborts = 0
      /\ recording # "both" => counters' = counters
      /\ logs' \in LogType /\ logs'.ingress >= logs.ingress
      /\ logs'.strange = logs.strange /\ logs'.unmapped = logs.unmapped
  BY ReplaceAdds DEF IInv
<1>4. /\ UNCHANGED <<limit, tries, gitLeft, late, recording, client, truth, harness, pc, runVars, resultVars>>
      /\ generation' = generation + 1 /\ generation < Generations /\ faults' \in Nat
  BY DEF Replace, Disturb, Calm, IInv, GateType
<1>5. generation' # actual /\ generation' \in 1..Generations /\ actual <= generation'
  BY <1>4 DEF IInv, RunType
<1>6. GateType'
  <2>1. left' \in [own : Nat, other : Nat, cutOwn : Nat, cutOther : Nat]
    BY <1>2 DEF Replace
  <2>2. stage' \in [Ops -> Places] /\ git' \in {"idle", "ready", "held", "lost"}
    BY DEF Replace, IInv, GateType
  <2> QED
    BY <1>4, <2>1, <2>2 DEF IInv, GateType
<1>7. RecordType' /\ RunType'
  BY <1>3, <1>4, <1>5 DEF IInv, RecordType, RunType
<1>8. PlanInv'
  BY <1>4, <1>5 DEF Replace, IInv, PlanInv, GateType
<1>9. RecordInv'
  <2>1. ASSUME pc \in Opening PROVE Orphans' = 0
    <3>1. Cardinality(Held) = 0 /\ git = "idle"
      BY <2>1, NoneInFlight DEF IInv, PlanInv
    <3>2. Orphans' = 0 + 0 + 0
      BY <1>1, <2>1, <3>1 DEF IInv, RecordInv
    <3> QED
      BY <3>2
  <2>2. recording # "both" => Empty' = Empty
    BY <1>3, <1>4 DEF Empty
  <2>3. recording = "both" \/ (recording # "both" /\ Empty' = Empty)
    BY <2>2
  <2> QED
    BY <1>4, <2>1, <2>3 DEF IInv, RecordInv
<1>10. ReasonInv'
  BY <1>1, <1>3, <1>4 DEF IInv, ReasonInv
<1>11. IngressInv'
  <2>1. /\ counters \in CounterType /\ logs \in LogType /\ TruthType
        /\ counters.dispatched + truth.unsent <= logs.ingress + logs.strange + truth.missed
    BY DEF IInv, RecordType, IngressInv
  <2>2. /\ counters'.dispatched + truth.unsent <= logs'.ingress + logs'.strange + truth.missed
        /\ recording = "both" => counters'.dispatched + 0 + truth.unsent <= logs'.ingress + logs'.strange + truth.missed
    BY <1>3, <2>1
  <2> QED
    BY <1>1, <1>4, <2>2 DEF IngressInv
<1>12. AbortInv'
  <2>1. pc \in {"path", "judge"} => recording # "both"
    BY DEF IInv, RecordInv
  <2>2. ASSUME pc \in {"path", "judge"}, last = actual, Clear PROVE client.failed <= Excused'
    <3>1. Excused' = Excused
      BY <1>3, <1>4, <2>1, <2>2 DEF Excused
    <3> QED
      BY <2>2, <3>1 DEF IInv, AbortInv
  <2>3. ASSUME P4, pc = "after" PROVE Orphans' = 0
    <3>1. Cardinality(Held) = 0 /\ git = "idle" /\ Orphans = 0
      BY <2>3, NoneInFlight DEF IInv, PlanInv, AbortInv
    <3>2. Orphans' = 0 + 0 + 0
      BY <1>1, <3>1
    <3> QED
      BY <3>2
  <2> QED
    BY <1>4, <1>5, <2>2, <2>3 DEF AbortInv, Clear
<1>13. HeldInv'
  BY <1>1, <1>4 DEF IInv, HeldInv
<1>14. FullInv'
  <2>1. Active = Own + Strays /\ Active' = Own' + Strays'
    BY <1>6, ActiveIsOwn DEF IInv
  <2>2. Active' = Active
    BY <1>1, <2>1
  <2> QED
    BY <1>3, <1>4, <2>2 DEF IInv, FullInv, Clear
<1>15. ReplacedInv'
  <2>0. /\ counters \in CounterType /\ logs \in LogType /\ TruthType
        /\ truth.granted <= counters.total
    BY DEF IInv, RecordType, ReasonInv
  <2>1. NoLoad' = NoLoad
    BY <1>3, <1>4 DEF NoLoad
  <2>2. CASE pc = "after" /\ recording = "both"
    <3>1. \/ truth.granted = 0 /\ counters.overflow = 0
          \/ 0 < counters.total + counters.overflow + logs.strange
      BY <2>0
    <3>2. NoLoad' \/ counters'.dispatched + left'.own < counters'.total + counters'.overflow + logs'.strange
      BY <1>1, <1>3, <2>0, <2>1, <2>2, <3>1 DEF NoLoad
    <3> QED
      BY <1>4, <2>2, <3>2 DEF ReplacedInv
  <2>3. CASE pc = "after" /\ recording # "both"
    <3>1. NoLoad
      BY <2>3 DEF IInv, RecordInv, GateType, Empty, NoLoad
    <3> QED
      BY <1>4, <2>1, <2>3, <3>1 DEF ReplacedInv
  <2>4. CASE pc \in {"path", "judge"}
    <3>1. recording # "both"
      BY <2>4 DEF IInv, RecordInv
    <3> QED
      BY <1>3, <1>4, <2>1, <2>4, <3>1 DEF IInv, ReplacedInv, Clear
  <2>5. CASE pc \notin {"after", "path", "judge"}
    BY <1>4, <2>5 DEF ReplacedInv
  <2> QED
    BY <2>2, <2>3, <2>4, <2>5
<1>16. AnswerInv' /\ QuotaInv'
  BY <1>1, <1>4 DEF IInv, AnswerInv, QuotaInv, Quota
<1>17. ResultInv'
  BY <1>4 DEF IInv, ResultInv
<1> QED
  BY <1>6, <1>7, <1>8, <1>9, <1>10, <1>11, <1>12, <1>13, <1>14, <1>15, <1>16, <1>17 DEF IInv

-----------------------------------------------------------------------------
(* What the steps of the load add to the records.                          *)

Counts(o, t, d, a) ==
  /\ counters'.overflow = counters.overflow + o
  /\ counters'.total = counters.total + t
  /\ counters'.dispatched = counters.dispatched + d
  /\ counters'.aborts = counters.aborts + a
RowsFrom(l, i) ==
  logs'.ingress = l.ingress + i /\ logs'.unmapped = l.unmapped /\ logs'.strange = l.strange
Rows(i, m, s) ==
  /\ logs'.ingress = logs.ingress + i
  /\ logs'.unmapped = logs.unmapped + m
  /\ logs'.strange = logs.strange + s
Attempt(s, f, o) ==
  /\ client'.sent = client.sent + s
  /\ client'.failed = client.failed + f
  /\ client'.odd = client.odd + o
Pool(r, u, g) ==
  /\ truth'.refused = truth.refused + r
  /\ truth'.unsent = truth.unsent + u
  /\ truth'.granted = truth.granted + g
  /\ truth'.missed = truth.missed

Counting(o, t, d, a) == counters' \in CounterType /\ IF recording = "both" THEN Counts(o, t, d, a) ELSE counters' = counters
Attempted(s, f, o) == ClientType' /\ IF recording = "both" THEN Attempt(s, f, o) ELSE client' = client
Pooled(r, u, g) == TruthType' /\ IF recording = "both" THEN Pool(r, u, g) ELSE truth' = truth
Writing(l, i) == logs' \in LogType /\ IF recording # "none" THEN RowsFrom(l, i) ELSE logs' = logs

\* Records that stay the same have nothing added.
LEMMA NothingAdded ==
  ASSUME RecordType
  PROVE  /\ counters' = counters => Counting(0, 0, 0, 0)
         /\ logs' = logs => Writing(logs, 0)
         /\ client' = client => Attempted(0, 0, 0)
         /\ truth' = truth => Pooled(0, 0, 0)
BY DEF RecordType, Counting, Counts, Writing, RowsFrom, Attempted, Attempt, Pooled, Pool

\* The rows of the target, and those that tell what is behind one.
LEMMA RowShapes ==
  ASSUME NEW l \in LogType
  PROVE  /\ Row(l) \in LogType /\ Row(l).ingress = l.ingress /\ Row(l).unmapped = l.unmapped /\ Row(l).strange = l.strange
         /\ Strange(l) \in LogType /\ Strange(l).ingress = l.ingress /\ Strange(l).unmapped = l.unmapped
         /\ Strange(l).strange = l.strange + 1
         /\ Unmapped(l) \in LogType /\ Unmapped(l).ingress = l.ingress /\ Unmapped(l).unmapped = l.unmapped + 1
         /\ Unmapped(l).strange = l.strange
<1>1. PICK m : m = [l EXCEPT !.checks = @ + 1, !.served = @ + 1]
  OBVIOUS
<1>2. m = [checks |-> l.checks + 1, strange |-> l.strange, served |-> l.served + 1, refused |-> l.refused,
           ingress |-> l.ingress, unmapped |-> l.unmapped]
  BY <1>1
<1>3. m \in LogType /\ m.ingress = l.ingress /\ m.unmapped = l.unmapped /\ m.strange = l.strange
  BY <1>2
<1>4. Row(l) = m
  BY <1>1 DEF Row
<1> QED
  BY <1>3, <1>4 DEF Strange, Unmapped

\* One more row of the ingress, or none.
LEMMA IngressAdds ==
  ASSUME RecordType, NEW l \in LogType
  PROVE  /\ Logged(l) => Writing(l, 0)
         /\ Logged([l EXCEPT !.ingress = @ + 1]) => Writing(l, 1)
BY DEF RecordType, Logged, Writing, RowsFrom

\* A check that the pool admits.
LEMMA AdmittedAdds ==
  ASSUME RecordType, Admitted
  PROVE  Counting(0, 1, 0, 0) /\ logs' = logs
BY DEF RecordType, Counting, Counts, Admitted, Counted

\* A check that the pool refuses.
LEMMA RefusedAdds ==
  ASSUME RecordType, Refused
  PROVE  Counting(1, 0, 1, 0) /\ Writing(logs, 1)
<1> USE DEF RecordType
<1>1. PICK c : c = [counters EXCEPT !.overflow = @ + 1, !.dispatched = @ + 1]
  OBVIOUS
<1>2. c = [overflow |-> counters.overflow + 1, total |-> counters.total, dispatched |-> counters.dispatched + 1,
           aborts |-> counters.aborts]
  BY <1>1
<1>3. counters' = (IF recording = "both" THEN c ELSE counters)
  BY <1>1 DEF Refused, Counted
<1>4. Counting(1, 0, 1, 0)
  BY <1>2, <1>3 DEF Counting, Counts
<1>5. PICK l : l = [logs EXCEPT !.refused = @ + 1, !.ingress = @ + 1]
  OBVIOUS
<1>6. l = [checks |-> logs.checks, strange |-> logs.strange, served |-> logs.served, refused |-> logs.refused + 1,
           ingress |-> logs.ingress + 1, unmapped |-> logs.unmapped]
  BY <1>5
<1>7. logs' = (IF recording # "none" THEN l ELSE logs)
  BY <1>5 DEF Refused, Logged
<1>8. Writing(logs, 1)
  BY <1>6, <1>7 DEF Writing, RowsFrom
<1> QED
  BY <1>4, <1>8

\* The answer of the target to a check that is still waited for.
LEMMA ServedAdds ==
  ASSUME RecordType, NEW l \in LogType, Served(l)
  PROVE  Counting(0, 0, 1, 0) /\ Writing(l, 1)
<1>1. Counting(0, 0, 1, 0)
  BY DEF RecordType, Counting, Counts, Served, Counted
<1>2. Row(l) \in LogType /\ Logged([Row(l) EXCEPT !.ingress = @ + 1])
  BY RowShapes DEF Served
<1>3. Writing(Row(l), 1)
  BY <1>2, IngressAdds
<1> QED
  BY <1>1, <1>3, RowShapes DEF Writing, RowsFrom

\* Its answer to another one, on a HAProxy that is still there.
LEMMA AbortedAdds == ASSUME RecordType, Aborted PROVE Counting(0, 0, 1, 1)
<1> USE DEF RecordType
<1>1. PICK c : c = [counters EXCEPT !.dispatched = @ + 1, !.aborts = @ + 1]
  OBVIOUS
<1>2. c = [overflow |-> counters.overflow, total |-> counters.total, dispatched |-> counters.dispatched + 1,
           aborts |-> counters.aborts + 1]
  BY <1>1
<1>3. counters' = (IF recording = "both" THEN c ELSE counters)
  BY <1>1 DEF Aborted, Counted
<1> QED
  BY <1>2, <1>3 DEF Counting, Counts

\* A request that the ingress denies on its own.
LEMMA DeniedAdds ==
  ASSUME RecordType, NEW l \in LogType, Denied(l)
  PROVE  Counting(0, 0, 0, 0) /\ Writing(l, 1)
BY NothingAdded, IngressAdds DEF Denied

\* What the client notes of an attempt.
LEMMA NotedAdds ==
  ASSUME RecordType
  PROVE  /\ Noted([client EXCEPT !.sent = @ + 1]) => Attempted(1, 0, 0)
         /\ Noted([client EXCEPT !.failed = @ + 1]) => Attempted(0, 1, 0)
         /\ Noted([client EXCEPT !.odd = @ + 1]) => Attempted(0, 0, 1)
         /\ Noted([client EXCEPT !.sent = @ + 1, !.failed = @ + 1]) => Attempted(1, 1, 0)
         /\ Noted([client EXCEPT !.sent = @ + 1, !.odd = @ + 1]) => Attempted(1, 0, 1)
<1> USE DEF RecordType, Attempted, Attempt
<1>1. Noted([client EXCEPT !.sent = @ + 1, !.failed = @ + 1]) => Attempted(1, 1, 0)
  <2>1. PICK n : n = [client EXCEPT !.sent = @ + 1, !.failed = @ + 1]
    OBVIOUS
  <2>2. n = [sent |-> client.sent + 1, failed |-> client.failed + 1, odd |-> client.odd]
    BY <2>1
  <2>3. Noted(n) => Attempted(1, 1, 0)
    BY <2>2 DEF Noted
  <2> QED
    BY <2>1, <2>3
<1>2. Noted([client EXCEPT !.sent = @ + 1, !.odd = @ + 1]) => Attempted(1, 0, 1)
  <2>1. PICK n : n = [client EXCEPT !.sent = @ + 1, !.odd = @ + 1]
    OBVIOUS
  <2>2. n = [sent |-> client.sent + 1, failed |-> client.failed, odd |-> client.odd + 1]
    BY <2>1
  <2>3. Noted(n) => Attempted(1, 0, 1)
    BY <2>2 DEF Noted
  <2> QED
    BY <2>1, <2>3
<1>3. /\ Noted([client EXCEPT !.sent = @ + 1]) => Attempted(1, 0, 0)
      /\ Noted([client EXCEPT !.failed = @ + 1]) => Attempted(0, 1, 0)
      /\ Noted([client EXCEPT !.odd = @ + 1]) => Attempted(0, 0, 1)
  BY DEF Noted
<1> QED
  BY <1>1, <1>2, <1>3

\* What really became of an attempt of the run.
LEMMA KnownAdds ==
  ASSUME RecordType
  PROVE  /\ Known([truth EXCEPT !.granted = @ + 1]) => Pooled(0, 0, 1)
         /\ Known([truth EXCEPT !.refused = @ + 1]) => Pooled(1, 0, 0)
         /\ Known([truth EXCEPT !.unsent = @ + 1]) => Pooled(0, 1, 0)
BY DEF RecordType, Pooled, Pool, Known

\* Steps that add this to the records.
Adds(o, t, d, a, l, i) == Counting(o, t, d, a) /\ Writing(l, i)

\* A request is admitted, refused, denied or lost.
LEMMA SendAdds ==
  ASSUME RecordType, NEW o \in Ops, Send(o)
  PROVE  \/ /\ stage' = [stage EXCEPT ![o] = "held"]
            /\ Adds(0, 1, 0, 0, logs, 0) /\ Attempted(1, 0, 0) /\ Pooled(0, 0, 1)
         \/ /\ Fail(o, tries'[o])
            /\ \/ Adds(1, 0, 1, 0, logs, 1) /\ Attempted(1, 1, 0) /\ Pooled(1, 0, 0)
               \/ Adds(0, 0, 0, 0, logs, 1) /\ Attempted(1, 1, 0) /\ Pooled(0, 1, 0)
               \/ Adds(0, 0, 0, 0, logs, 0) /\ Attempted(1, 0, 1) /\ Pooled(0, 0, 0)
<1> USE NothingAdded, NotedAdds, KnownAdds DEF Adds
<1>0. logs \in LogType
  BY DEF RecordType
<1>1. CASE /\ Admitted /\ stage' = [stage EXCEPT ![o] = "held"] /\ Noted([client EXCEPT !.sent = @ + 1])
           /\ Known([truth EXCEPT !.granted = @ + 1])
  BY <1>1, AdmittedAdds
<1>2. CASE /\ Refused /\ Fail(o, tries'[o]) /\ Noted([client EXCEPT !.sent = @ + 1, !.failed = @ + 1])
           /\ Known([truth EXCEPT !.refused = @ + 1])
  BY <1>2, RefusedAdds
<1>3. CASE /\ Denied(logs) /\ Fail(o, tries'[o]) /\ Noted([client EXCEPT !.sent = @ + 1, !.failed = @ + 1])
           /\ Known([truth EXCEPT !.unsent = @ + 1])
  BY <1>0, <1>3, DeniedAdds
<1>4. CASE /\ Unrecorded /\ Fail(o, tries'[o]) /\ Noted([client EXCEPT !.sent = @ + 1, !.odd = @ + 1])
           /\ UNCHANGED truth
  BY <1>4 DEF Unrecorded
<1> QED
  BY <1>1, <1>2, <1>3, <1>4 DEF Send

\* The ways an attempt that was admitted ends.
LEMMA AnswerAdds ==
  ASSUME RecordType, NEW o \in Ops, Answer(o)
  PROVE  \/ Adds(0, 0, 1, 0, logs, 1) /\ Attempted(0, 0, 0) /\ left' = left
         \/ Adds(0, 0, 1, 0, Unmapped(logs), 1) /\ Attempted(0, 1, 0) /\ left' = left
         \/ Adds(0, 0, 0, 0, logs, 1) /\ Attempted(0, 1, 0) /\ left' = [left EXCEPT !.own = @ + 1]
         \/ Adds(0, 0, 0, 0, Unmapped(logs), 1) /\ Attempted(0, 0, 1) /\ left' = [left EXCEPT !.own = @ + 1]
<1> USE NothingAdded, NotedAdds DEF Adds
<1>0. logs \in LogType /\ Unmapped(logs) \in LogType
  BY RowShapes DEF RecordType
<1>1. CASE Served(logs) /\ UNCHANGED <<client, left>>
  BY <1>0, <1>1, ServedAdds
<1>2. CASE Served(Unmapped(logs)) /\ Noted([client EXCEPT !.failed = @ + 1]) /\ UNCHANGED left
  BY <1>0, <1>2, ServedAdds
<1>3. CASE /\ Denied(logs) /\ Noted([client EXCEPT !.failed = @ + 1]) /\ left' = [left EXCEPT !.own = @ + 1]
  BY <1>0, <1>3, DeniedAdds
<1>4. CASE /\ Denied(Unmapped(logs)) /\ Noted([client EXCEPT !.odd = @ + 1]) /\ left' = [left EXCEPT !.own = @ + 1]
  BY <1>0, <1>4, DeniedAdds
<1> QED
  BY <1>1, <1>2, <1>3, <1>4 DEF Answer

\* The Git read goes through the same pool.
LEMMA GitReadAdds ==
  ASSUME RecordType, GitRead
  PROVE  /\ client' = client
         /\ \/ /\ git = "ready" /\ git' = "held" /\ left' = left
               /\ Adds(0, 1, 0, 0, logs, 0) /\ Pooled(0, 0, 1)
            \/ /\ git = "ready" /\ git' = "idle" /\ left' = left /\ Pooled(0, 0, 0)
               /\ Adds(1, 0, 1, 0, logs, 1) \/ Adds(0, 0, 0, 0, logs, 1)
            \/ /\ git = "held" /\ git' \in {"idle", "ready"} /\ left' = left /\ Pooled(0, 0, 0)
               /\ \E l \in {logs, Unmapped(logs)} : Adds(0, 0, 1, 0, l, 1)
            \/ /\ git = "held" /\ git' = "idle" /\ left' = [left EXCEPT !.own = @ + 1] /\ Pooled(0, 0, 0)
               /\ \E l \in {logs, Unmapped(logs)} : Adds(0, 0, 0, 0, l, 1)
            \/ /\ git = "lost" /\ git' = "idle" /\ left' = left /\ Pooled(0, 0, 0)
               /\ Adds(0, 0, 0, 0, logs, 1)
<1> USE NothingAdded, KnownAdds DEF Adds
<1>0. logs \in LogType /\ Unmapped(logs) \in LogType
  BY RowShapes DEF RecordType
<1>1. CASE git = "ready" /\ git' = "held" /\ Admitted /\ Known([truth EXCEPT !.granted = @ + 1]) /\ UNCHANGED <<client, left>>
  BY <1>1, AdmittedAdds
<1>2. CASE git = "ready" /\ git' = "idle" /\ UNCHANGED <<client, truth, left>> /\ (Refused \/ Denied(logs))
  BY <1>0, <1>2, RefusedAdds, DeniedAdds
<1>3. CASE git = "held" /\ git' \in {"idle", "ready"} /\ Served(logs) /\ UNCHANGED <<client, truth, left>>
  BY <1>0, <1>3, ServedAdds
<1>4. CASE git = "held" /\ git' = "idle" /\ Served(Unmapped(logs)) /\ UNCHANGED <<client, truth, left>>
  BY <1>0, <1>4, ServedAdds
<1>5. CASE /\ git = "held" /\ git' = "idle" /\ UNCHANGED <<client, truth>>
           /\ (\E l \in {logs, Unmapped(logs)} : Denied(l)) /\ left' = [left EXCEPT !.own = @ + 1]
  BY <1>0, <1>5, DeniedAdds
<1>6. CASE git = "lost" /\ git' = "idle" /\ Denied(logs) /\ UNCHANGED <<client, truth, left>>
  BY <1>0, <1>6, DeniedAdds
<1> QED
  BY <1>1, <1>2, <1>3, <1>4, <1>5, <1>6 DEF GitRead

\* A check of somebody else.
LEMMA ForeignAdds ==
  ASSUME RecordType, Foreign
  PROVE  \/ Adds(0, 1, 0, 0, logs, 0) /\ left' = [left EXCEPT !.other = @ + 1]
         \/ Active >= Capacity /\ Adds(1, 0, 1, 0, logs, 1) /\ left' = left
<1> USE NothingAdded DEF Adds
<1>1. CASE Admitted /\ left' = [left EXCEPT !.other = @ + 1]
  BY <1>1, AdmittedAdds
<1>2. CASE Active >= Capacity /\ Refused /\ left' = left
  BY <1>2, RefusedAdds
<1> QED
  BY <1>1, <1>2 DEF Foreign

\* The target answers a check that nobody of the run waits for.
LEMMA ReleaseAdds ==
  ASSUME RecordType, Release
  PROVE  \/ OneLess("own") /\ Adds(0, 0, 1, 1, logs, 0)
         \/ OneLess("other") /\ (Adds(0, 0, 1, 0, Strange(logs), 1) \/ Adds(0, 0, 1, 1, Strange(logs), 0))
         \/ OneLess("cutOwn") /\ Adds(0, 0, 0, 0, logs, 0)
         \/ OneLess("cutOther") /\ Adds(0, 0, 0, 0, Strange(logs), 0)
<1> USE NothingAdded DEF Adds
<1>0. logs \in LogType /\ Strange(logs) \in LogType /\ Row(logs) \in LogType /\ Row(Strange(logs)) \in LogType
  BY RowShapes DEF RecordType
<1>1. ASSUME NEW l \in {logs, Strange(logs)}, Logged(Row(l)) PROVE Writing(l, 0)
  <2>1. Row(l) \in LogType /\ l \in LogType
    BY <1>0
  <2>2. Writing(Row(l), 0)
    BY <1>1, <2>1, IngressAdds
  <2> QED
    BY <2>1, <2>2, RowShapes DEF Writing, RowsFrom
<1>2. CASE OneLess("own") /\ Aborted /\ Logged(Row(logs))
  BY <1>1, <1>2, AbortedAdds
<1>3. CASE OneLess("other") /\ Served(Strange(logs))
  BY <1>0, <1>3, ServedAdds
<1>4. CASE OneLess("other") /\ Aborted /\ Logged(Row(Strange(logs)))
  BY <1>1, <1>4, AbortedAdds
<1>5. CASE OneLess("cutOwn") /\ UNCHANGED counters /\ Logged(Row(logs))
  BY <1>1, <1>5
<1>6. CASE OneLess("cutOther") /\ UNCHANGED counters /\ Logged(Row(Strange(logs)))
  BY <1>1, <1>6
<1> QED
  BY <1>2, <1>3, <1>4, <1>5, <1>6 DEF Release

-----------------------------------------------------------------------------
(* Steps of the load.                                                      *)

RunStays == UNCHANGED <<harness, pc, runVars, generation, resultVars>>

\* They leave the run itself alone.
LEMMA RunKept ==
  ASSUME IInv, RunStays, UNCHANGED recording,
         recording # "both" => UNCHANGED <<counters, client, truth>>,
         pc \in Opening => Orphans' = 0
  PROVE  RunType' /\ RecordInv' /\ ResultInv'
<1>1. RunType' /\ ResultInv'
  BY DEF RunStays, IInv, RunType, ResultInv
<1>2. pc \in Opening \/ recording = "none" => Empty' = Empty
  BY DEF Empty, IInv, RecordInv
<1>3. RecordInv'
  BY <1>2 DEF RunStays, IInv, RecordInv
<1> QED
  BY <1>1, <1>3

\* A step that is not counted adds to the logs alone.
LEMMA UnrecordedKeeps ==
  ASSUME IInv, RunStays, recording' = recording, recording # "both",
         UNCHANGED <<counters, client, truth>>, limit' = limit,
         logs' \in LogType, logs'.ingress >= logs.ingress, logs'.strange >= logs.strange,
         logs'.unmapped >= logs.unmapped,
         client.sent = 0 \/ tries' = tries,
         pc = "after" => Orphans' = 0 \/ ~P4
  PROVE  /\ ReasonInv' /\ IngressInv' /\ AbortInv' /\ HeldInv' /\ FullInv'
         /\ ReplacedInv' /\ AnswerInv' /\ QuotaInv'
<1> USE DEF RunStays
<1>1. /\ counters \in CounterType /\ logs \in LogType /\ ClientType /\ TruthType
      /\ pc = "after" => NoLoad
  <2>1. pc = "after" => Empty
    BY DEF IInv, GateType, RecordInv
  <2> QED
    BY <2>1 DEF IInv, RecordType, Empty, NoLoad
<1>2. ReasonInv'
  BY <1>1 DEF IInv, ReasonInv
<1>3. IngressInv'
  BY <1>1 DEF IInv, IngressInv
<1>4. AbortInv'
  <2>1. client.failed <= Excused => client.failed <= Excused'
    BY <1>1 DEF Excused
  <2> QED
    BY <2>1 DEF IInv, AbortInv, Clear
<1>5. HeldInv' /\ FullInv'
  BY DEF HeldInv, FullInv
<1>6. ReplacedInv'
  BY <1>1 DEF IInv, ReplacedInv, NoLoad, Clear
<1>7. AnswerInv'
  BY DEF IInv, AnswerInv
<1>8. QuotaInv'
  <2>1. tries' = tries => Attempts' = Attempts
    BY DEF Attempts, Tried
  <2> QED
    BY <2>1 DEF IInv, QuotaInv, Quota
<1> QED
  BY <1>2, <1>3, <1>4, <1>5, <1>6, <1>7, <1>8

\* An attempt is sent: it is admitted, or it has failed at once.
LEMMA SendKeeps == ASSUME IInv, NEW o \in Ops, Send(o), RunStays PROVE IInv'
<1>1. /\ pc \in {"work", "join"} /\ wave > 0 /\ recording \in {"none", "both"}
      /\ stage[o] \in {"ready", "planned"} /\ tries[o] < limit /\ tries[o] < 2
  BY DEF Send, MayStart, IInv, GateType, PlanInv, RecordInv
<1>2. /\ UNCHANGED <<limit, git, gitLeft, left, late, recording>> /\ RunStays
      /\ tries' = [tries EXCEPT ![o] = @ + 1] /\ tries'[o] = tries[o] + 1
      /\ faults' \in Nat
  BY DEF Send, IInv, GateType, Calm, Disturb
<1>3. /\ RecordType'
      /\ recording # "both" => UNCHANGED <<counters, logs, client, truth>>
      /\ recording = "both" =>
         \/ /\ stage' = [stage EXCEPT ![o] = "held"]
            /\ Counts(0, 1, 0, 0) /\ Rows(0, 0, 0) /\ Attempt(1, 0, 0) /\ Pool(0, 0, 1)
         \/ /\ Fail(o, tries'[o])
            /\ \/ Counts(1, 0, 1, 0) /\ Rows(1, 0, 0) /\ Attempt(1, 1, 0) /\ Pool(1, 0, 0)
               \/ Counts(0, 0, 0, 0) /\ Rows(1, 0, 0) /\ Attempt(1, 1, 0) /\ Pool(0, 1, 0)
               \/ Counts(0, 0, 0, 0) /\ Rows(0, 0, 0) /\ Attempt(1, 0, 1) /\ Pool(0, 0, 0)
  <2>1. RecordType /\ logs \in LogType
    BY DEF IInv, RecordType
  <2> QED
    BY <1>1, <2>1, SendAdds DEF RecordType, Adds, Counting, Writing, RowsFrom, Rows, Attempted, Pooled
<1>4. PICK s \in Places : /\ stage' = [stage EXCEPT ![o] = s] /\ s \in {"held", "ready", "done"}
                          /\ s = "ready" => tries[o] + 1 < limit
  BY <1>2 DEF Send, Fail, MayRetry
<1>5. stage[o] \in Places /\ stage'[o] = s /\ (Fail(o, tries'[o]) => s # "held")
  BY <1>4 DEF Fail, IInv, GateType
<1>6. Attempts' = Attempts + 1
  BY <1>1, <1>2, TriedOneMore DEF IInv
<1>7. /\ Own \in Nat /\ Flight \in Nat /\ Attempts \in Nat /\ Orphans \in Nat /\ Strays \in Nat
      /\ Strays' = Strays /\ Orphans' = Orphans
  BY <1>2, CountTypes DEF IInv, Strays, Orphans
<1>8. Own' = Own + (IF s = "held" THEN 1 ELSE 0) /\ Flight' = Flight + (IF s = "held" THEN 1 ELSE 0)
  <2>1. /\ Own' = Own + (IF s = "held" THEN 1 ELSE 0) - (IF stage[o] = "held" THEN 1 ELSE 0) + (Orphans - Orphans)
        /\ Flight' = Flight + (IF s \in {"held", "lost"} THEN 1 ELSE 0)
                             - (IF stage[o] \in {"held", "lost"} THEN 1 ELSE 0)
    BY <1>2, <1>4, <1>7, OneMoves DEF IInv
  <2> QED
    BY <1>1, <1>4, <1>7, <2>1
<1>9. GateType' /\ PlanInv'
  BY <1>1, <1>2, <1>4 DEF IInv, GateType, PlanInv, RunStays
<1>10. RunType' /\ RecordInv' /\ ResultInv'
  BY <1>1, <1>2, <1>3, RunKept
<1>11. CASE recording # "both"
  <2>1. client.sent = 0
    BY <1>1, <1>11 DEF IInv, RecordInv, Empty
  <2>2. logs' \in LogType /\ logs' = logs
    BY <1>3, <1>11 DEF RecordType
  <2> QED
    BY <1>1, <1>2, <1>3, <1>9, <1>10, <1>11, <2>1, <2>2, UnrecordedKeeps DEF IInv
<1>12. CASE recording = "both"
  <2> USE <1>12
  <2>0. /\ counters \in CounterType /\ logs \in LogType /\ ClientType /\ TruthType
        /\ counters' \in CounterType /\ logs' \in LogType /\ ClientType' /\ TruthType'
        /\ recording' = "both" /\ pc' = pc /\ UNCHANGED <<harness, quiet, wave, generation, actual, last>>
    BY <1>2, <1>3 DEF IInv, RecordType, RunStays
  <2> USE DEF Counts, Rows, Attempt, Pool
  <2>1. ReasonInv'
    BY <1>3, <1>7, <2>0 DEF IInv, ReasonInv
  <2>2. IngressInv'
    BY <1>2, <1>3, <2>0 DEF IInv, IngressInv, GateType
  <2>3. AbortInv'
    BY <1>1, <1>2, <1>3, <2>0 DEF IInv, AbortInv, Excused, GateType
  <2>4. HeldInv'
    BY <1>3, <1>5, <1>7, <1>8, <2>0 DEF IInv, HeldInv
  <2>5. FullInv'
    <3>1. Active = Own + Strays /\ Active' = Own' + Strays'
      BY <1>9, ActiveIsOwn DEF IInv
    <3>2. Active' = Active + (IF s = "held" THEN 1 ELSE 0) /\ Active \in Nat
      BY <1>7, <1>8, <3>1
    <3> QED
      BY <1>1, <1>3, <1>5, <2>0, <3>2 DEF IInv, FullInv, Clear
  <2>6. ReplacedInv'
    BY <1>1, <2>0 DEF ReplacedInv
  <2>7. AnswerInv'
    BY <1>3, <1>5, <1>7, <1>8, <2>0 DEF IInv, AnswerInv
  <2>8. QuotaInv'
    <3>1. wave' = wave /\ Quota' = Quota
      BY <1>2 DEF RunStays, Quota
    <3>2. wave * Quota \in Nat /\ Quota \in Nat
      BY DEF IInv, GateType, RunType, Quota
    <3>3. client.sent \in Nat /\ client'.sent = client.sent + 1
      BY <1>3, <2>0
    <3>4. client.sent = 0 => client'.sent + Quota <= wave * Quota + Attempts'
      <4>1. wave * Quota >= Quota
        BY <1>1, <3>2 DEF IInv, RunType
      <4> QED
        BY <1>6, <1>7, <3>2, <3>3, <4>1
    <3>5. client.sent # 0 => client.sent + Quota <= wave * Quota + Attempts
      BY DEF IInv, QuotaInv
    <3> QED
      BY <1>1, <1>6, <1>7, <3>1, <3>2, <3>3, <3>4, <3>5 DEF QuotaInv
  <2> QED
    BY <1>3, <1>9, <1>10, <2>1, <2>2, <2>3, <2>4, <2>5, <2>6, <2>7, <2>8 DEF IInv
<1> QED
  BY <1>11, <1>12

\* An attempt ends, and the check is answered or left to the application.
LEMMA AnswerKeeps == ASSUME IInv, NEW o \in Ops, Answer(o), RunStays PROVE IInv'
<1>1. /\ pc \in {"work", "join"} /\ wave > 0 /\ recording \in {"none", "both"} /\ stage[o] = "held"
  BY DEF Answer, IInv, GateType, PlanInv, RecordInv
<1>2. /\ UNCHANGED <<limit, tries, git, gitLeft, late, recording, truth>> /\ RunStays
      /\ faults' \in Nat /\ left \in [own : Nat, other : Nat, cutOwn : Nat, cutOther : Nat]
  BY DEF Answer, IInv, GateType, Calm, Disturb
<1>3. /\ RecordType'
      /\ recording # "both" => UNCHANGED <<counters, logs, client>>
      /\ left' = left \/ left' = [left EXCEPT !.own = @ + 1]
      /\ recording = "both" =>
         \/ Counts(0, 0, 1, 0) /\ Rows(1, 0, 0) /\ Attempt(0, 0, 0) /\ left' = left
         \/ Counts(0, 0, 1, 0) /\ Rows(1, 1, 0) /\ Attempt(0, 1, 0) /\ left' = left
         \/ Counts(0, 0, 0, 0) /\ Rows(1, 0, 0) /\ Attempt(0, 1, 0) /\ left' = [left EXCEPT !.own = @ + 1]
         \/ Counts(0, 0, 0, 0) /\ Rows(1, 1, 0) /\ Attempt(0, 0, 1) /\ left' = [left EXCEPT !.own = @ + 1]
  <2>1. RecordType /\ logs \in LogType
    BY DEF IInv, RecordType
  <2>2. ASSUME NEW f \in {0, 1}, NEW d \in {0, 1}, NEW q \in {0, 1}, NEW m \in {0, 1},
               Adds(0, 0, d, 0, IF m = 0 THEN logs ELSE Unmapped(logs), 1), Attempted(0, f, q)
        PROVE  /\ RecordType'
               /\ recording # "both" => UNCHANGED <<counters, logs, client>>
               /\ recording = "both" => Counts(0, 0, d, 0) /\ Rows(1, m, 0) /\ Attempt(0, f, q)
    <3>1. Counting(0, 0, d, 0) /\ Writing(IF m = 0 THEN logs ELSE Unmapped(logs), 1)
      BY <2>2 DEF Adds
    <3>2. logs' \in LogType /\ IF recording # "none" THEN Rows(1, m, 0) ELSE logs' = logs
      <4>1. CASE m = 0
        BY <2>1, <3>1, <4>1 DEF Writing, RowsFrom, Rows
      <4>2. CASE m = 1
        <5>1. Writing(Unmapped(logs), 1)
          BY <3>1, <4>2
        <5>2. Unmapped(logs).ingress = logs.ingress /\ Unmapped(logs).unmapped = logs.unmapped + 1 /\ Unmapped(logs).strange = logs.strange
          BY <2>1, RowShapes
        <5> QED
          BY <2>1, <4>2, <5>1, <5>2 DEF Writing, RowsFrom, Rows
      <4> QED
        BY <4>1, <4>2
    <3> QED
      BY <1>1, <1>2, <2>1, <2>2, <3>1, <3>2 DEF RecordType, Counting, Attempted
  <2>3. \/ Adds(0, 0, 1, 0, logs, 1) /\ Attempted(0, 0, 0) /\ left' = left
        \/ Adds(0, 0, 1, 0, Unmapped(logs), 1) /\ Attempted(0, 1, 0) /\ left' = left
        \/ Adds(0, 0, 0, 0, logs, 1) /\ Attempted(0, 1, 0) /\ left' = [left EXCEPT !.own = @ + 1]
        \/ Adds(0, 0, 0, 0, Unmapped(logs), 1) /\ Attempted(0, 0, 1) /\ left' = [left EXCEPT !.own = @ + 1]
    BY <2>1, AnswerAdds
  <2> QED
    BY <2>2, <2>3
<1>4. PICK s \in Places : /\ stage' = [stage EXCEPT ![o] = s] /\ s \in {"ready", "done"}
                          /\ s = "ready" => tries[o] < limit
  BY DEF Answer, Fail, MayRetry
<1>5. Attempts' = Attempts
  BY <1>2 DEF Attempts, Tried
<1>6. /\ Own \in Nat /\ Flight \in Nat /\ Attempts \in Nat /\ Orphans \in Nat /\ Strays \in Nat
      /\ Strays' = Strays
  BY <1>2, <1>3, CountTypes DEF IInv, Strays
<1>7. /\ left' \in [own : Nat, other : Nat, cutOwn : Nat, cutOther : Nat]
      /\ left'.own >= left.own
      /\ \/ left' = left /\ Orphans' = Orphans
         \/ left' # left /\ left'.own = left.own + 1 /\ Orphans' = Orphans + 1
  BY <1>2, <1>3 DEF Orphans
<1> DEFINE x == IF left' = left THEN Orphans ELSE Orphans + 1
<1>8. Own' = (IF left' = left THEN Own - 1 ELSE Own) /\ Flight' = Flight - 1 /\ Flight' \in Nat
  <2>1. x \in Nat /\ Orphans' = x
    BY <1>6, <1>7
  <2> HIDE DEF x
  <2>2. /\ Own' = Own + (IF s = "held" THEN 1 ELSE 0) - (IF stage[o] = "held" THEN 1 ELSE 0) + (x - Orphans)
        /\ Flight' = Flight + (IF s \in {"held", "lost"} THEN 1 ELSE 0)
                             - (IF stage[o] \in {"held", "lost"} THEN 1 ELSE 0)
        /\ Flight' \in Nat
    BY <1>2, <1>4, <2>1, OneMoves DEF IInv
  <2>3. Own' = Own - 1 + (x - Orphans) /\ Flight' = Flight - 1
    BY <1>1, <1>4, <1>6, <2>1, <2>2
  <2> QED
    BY <1>6, <2>1, <2>2, <2>3 DEF x
<1>9. GateType' /\ PlanInv'
  BY <1>1, <1>2, <1>4, <1>7 DEF IInv, GateType, PlanInv, RunStays
<1>10. RunType' /\ RecordInv' /\ ResultInv'
  BY <1>1, <1>2, <1>3, RunKept
<1>11. CASE recording # "both"
  <2>1. logs' \in LogType /\ logs' = logs
    BY <1>3, <1>11 DEF RecordType
  <2> QED
    BY <1>1, <1>2, <1>3, <1>9, <1>10, <1>11, <2>1, UnrecordedKeeps DEF IInv
<1>12. CASE recording = "both"
  <2> USE <1>12
  <2>0. /\ counters \in CounterType /\ logs \in LogType /\ ClientType /\ TruthType
        /\ counters' \in CounterType /\ logs' \in LogType /\ ClientType' /\ truth' = truth
        /\ recording' = "both" /\ pc' = pc /\ UNCHANGED <<harness, quiet, wave, generation, actual, last>>
    BY <1>2, <1>3 DEF IInv, RecordType, RunStays
  <2> USE DEF Counts, Rows, Attempt, Pool
  <2>1. AnswerInv'
    BY <1>3, <1>6, <1>8, <2>0 DEF IInv, AnswerInv
  <2>2. ReasonInv'
    <3>1. client'.failed <= truth.refused + truth.unsent + truth.granted
      BY <1>8, <2>0, <2>1 DEF AnswerInv
    <3>2. truth.refused + truth.unsent <= client'.failed
      BY <1>3, <2>0 DEF IInv, ReasonInv
    <3>3. P4 => /\ truth.granted + truth.refused + truth.unsent <= client'.sent
                /\ client'.sent <= truth.granted + truth.refused + truth.unsent + client'.odd
      BY <1>3, <2>0 DEF IInv, ReasonInv
    <3>4. /\ truth.granted <= counters'.total /\ truth.refused <= counters'.overflow
          /\ quiet = "yes" => counters'.total <= truth.granted + logs'.strange + Strays
      BY <1>3, <1>6, <2>0 DEF IInv, ReasonInv
    <3> QED
      BY <1>6, <2>0, <3>1, <3>2, <3>3, <3>4 DEF ReasonInv
  <2>3. IngressInv'
    BY <1>2, <1>3, <1>7, <2>0 DEF IInv, IngressInv
  <2>4. AbortInv'
    BY <1>1, <1>2, <1>3, <1>7, <2>0 DEF IInv, AbortInv, Excused
  <2>5. HeldInv'
    BY <1>6, <1>8, <2>0 DEF IInv, HeldInv
  <2>6. FullInv'
    <3>1. Active = Own + Strays /\ Active' = Own' + Strays'
      BY <1>9, ActiveIsOwn DEF IInv
    <3>2. Active' \in {Active, Active - 1} /\ Active \in Nat
      BY <1>6, <1>8, <3>1
    <3> QED
      BY <1>1, <1>3, <2>0, <3>2 DEF IInv, FullInv, Clear
  <2>7. ReplacedInv'
    BY <1>1, <2>0 DEF ReplacedInv
  <2>8. QuotaInv'
    <3>1. wave' = wave /\ Quota' = Quota /\ client'.sent = client.sent
      BY <1>2, <1>3, <2>0 DEF Quota
    <3> QED
      BY <1>5, <3>1 DEF IInv, QuotaInv
  <2> QED
    BY <1>3, <1>9, <1>10, <2>1, <2>2, <2>3, <2>4, <2>5, <2>6, <2>7, <2>8 DEF IInv
<1> QED
  BY <1>11, <1>12

\* The ingress denies what a HAProxy that has gone had sent on.
LEMMA LostKeeps == ASSUME IInv, NEW o \in Ops, Lost(o), RunStays PROVE IInv'
<1>1. /\ pc \in {"work", "join"} /\ wave > 0 /\ recording \in {"none", "both"} /\ stage[o] = "lost"
      /\ generation # actual
  BY DEF Lost, IInv, GateType, PlanInv, RecordInv
<1>2. /\ UNCHANGED <<limit, tries, git, gitLeft, left, late, recording, truth, faults>> /\ RunStays
  BY DEF Lost
<1>3. /\ RecordType'
      /\ recording # "both" => UNCHANGED <<counters, logs, client>>
      /\ recording = "both" => Counts(0, 0, 0, 0) /\ Rows(1, 0, 0) /\ Attempt(0, 1, 0)
  <2>1. RecordType /\ logs \in LogType
    BY DEF IInv, RecordType
  <2>2. Counting(0, 0, 0, 0) /\ Writing(logs, 1) /\ Attempted(0, 1, 0)
    BY <2>1, DeniedAdds, NotedAdds DEF Lost
  <2> QED
    BY <1>1, <1>2, <2>1, <2>2 DEF RecordType, Counting, Writing, RowsFrom, Rows, Attempted
<1>4. PICK s \in Places : /\ stage' = [stage EXCEPT ![o] = s] /\ s \in {"ready", "done"}
                          /\ s = "ready" => tries[o] < limit
  BY DEF Lost, Fail, MayRetry
<1>5. Attempts' = Attempts
  BY <1>2 DEF Attempts, Tried
<1>6. /\ Own \in Nat /\ Flight \in Nat /\ Attempts \in Nat /\ Orphans \in Nat /\ Strays \in Nat
      /\ Strays' = Strays /\ Orphans' = Orphans
  BY <1>2, CountTypes DEF IInv, Strays, Orphans
<1>7. Own' = Own /\ Flight' = Flight - 1 /\ Flight' \in Nat
  <2>1. /\ Own' = Own + (IF s = "held" THEN 1 ELSE 0) - (IF stage[o] = "held" THEN 1 ELSE 0) + (Orphans - Orphans)
        /\ Flight' = Flight + (IF s \in {"held", "lost"} THEN 1 ELSE 0)
                             - (IF stage[o] \in {"held", "lost"} THEN 1 ELSE 0)
        /\ Flight' \in Nat
    BY <1>2, <1>4, <1>6, OneMoves DEF IInv
  <2> QED
    BY <1>1, <1>4, <1>6, <2>1
<1>8. GateType' /\ PlanInv'
  BY <1>1, <1>2, <1>4 DEF IInv, GateType, PlanInv, RunStays
<1>9. RunType' /\ RecordInv' /\ ResultInv'
  BY <1>1, <1>2, <1>3, RunKept
<1>10. CASE recording # "both"
  <2>1. logs' \in LogType /\ logs' = logs
    BY <1>3, <1>10 DEF RecordType
  <2> QED
    BY <1>1, <1>2, <1>3, <1>8, <1>9, <1>10, <2>1, UnrecordedKeeps DEF IInv
<1>11. CASE recording = "both"
  <2> USE <1>11
  <2>0. /\ counters \in CounterType /\ logs \in LogType /\ ClientType /\ TruthType
        /\ counters' \in CounterType /\ logs' \in LogType /\ ClientType' /\ truth' = truth
        /\ recording' = "both" /\ pc' = pc /\ UNCHANGED <<harness, quiet, wave, generation, actual, last>>
    BY <1>2, <1>3 DEF IInv, RecordType, RunStays
  <2> USE DEF Counts, Rows, Attempt, Pool
  <2>1. AnswerInv'
    BY <1>3, <1>6, <1>7, <2>0 DEF IInv, AnswerInv
  <2>2. ReasonInv'
    <3>1. client'.failed <= truth.refused + truth.unsent + truth.granted
      BY <1>7, <2>0, <2>1 DEF AnswerInv
    <3> QED
      BY <1>3, <1>6, <2>0, <3>1 DEF IInv, ReasonInv
  <2>3. IngressInv'
    BY <1>2, <1>3, <2>0 DEF IInv, IngressInv, GateType
  <2>4. AbortInv'
    BY <1>1, <2>0 DEF AbortInv
  <2>5. HeldInv'
    BY <1>7, <2>0 DEF IInv, HeldInv
  <2>6. FullInv'
    <3>1. Active = Own + Strays /\ Active' = Own' + Strays'
      BY <1>8, ActiveIsOwn DEF IInv
    <3> QED
      BY <1>3, <1>6, <1>7, <2>0, <3>1 DEF IInv, FullInv, Clear
  <2>7. ReplacedInv'
    BY <1>1, <2>0 DEF ReplacedInv
  <2>8. QuotaInv'
    <3>1. wave' = wave /\ Quota' = Quota /\ client'.sent = client.sent
      BY <1>2, <1>3, <2>0 DEF Quota
    <3> QED
      BY <1>5, <3>1 DEF IInv, QuotaInv
  <2> QED
    BY <1>3, <1>8, <1>9, <2>1, <2>2, <2>3, <2>4, <2>5, <2>6, <2>7, <2>8 DEF IInv
<1> QED
  BY <1>10, <1>11

\* The Git read of a cascade wave sends its next check or gets its answer.
LEMMA GitReadKeeps == ASSUME IInv, GitRead, RunStays PROVE IInv'
<1>1. pc \in {"work", "join"} /\ ~P4 /\ recording \in {"none", "both"}
  BY DEF GitRead, IInv, GateType, PlanInv, RecordInv
<1>2. /\ UNCHANGED <<limit, stage, tries, late, recording, client>> /\ RunStays
      /\ git' \in {"idle", "ready", "held", "lost"} /\ gitLeft' \in 0..GitChecks /\ (git' = "ready" => gitLeft' > 0)
      /\ faults' \in Nat /\ left \in [own : Nat, other : Nat, cutOwn : Nat, cutOther : Nat]
  BY DEF GitRead, IInv, GateType, PlanInv, Calm, Disturb
<1>3. \/ /\ git = "ready" /\ git' = "held" /\ left' = left
         /\ Adds(0, 1, 0, 0, logs, 0) /\ Pooled(0, 0, 1)
      \/ /\ git = "ready" /\ git' = "idle" /\ left' = left /\ Pooled(0, 0, 0)
         /\ Adds(1, 0, 1, 0, logs, 1) \/ Adds(0, 0, 0, 0, logs, 1)
      \/ /\ git = "held" /\ git' \in {"idle", "ready"} /\ left' = left /\ Pooled(0, 0, 0)
         /\ \E l \in {logs, Unmapped(logs)} : Adds(0, 0, 1, 0, l, 1)
      \/ /\ git = "held" /\ git' = "idle" /\ left' = [left EXCEPT !.own = @ + 1] /\ Pooled(0, 0, 0)
         /\ \E l \in {logs, Unmapped(logs)} : Adds(0, 0, 0, 0, l, 1)
      \/ /\ git = "lost" /\ git' = "idle" /\ left' = left /\ Pooled(0, 0, 0)
         /\ Adds(0, 0, 0, 0, logs, 1)
  BY GitReadAdds DEF IInv
<1>4. PICK ov \in {0, 1}, to \in {0, 1}, di \in {0, 1}, un \in {0, 1}, i \in {0, 1} :
        /\ Adds(ov, to, di, 0, IF un = 0 THEN logs ELSE Unmapped(logs), i) /\ Pooled(0, 0, to)
        /\ \/ git = "ready" /\ git' = "held" /\ left' = left /\ ov = 0 /\ to = 1 /\ di = 0
           \/ git # "held" /\ git' = "idle" /\ left' = left /\ di = ov /\ to = 0 /\ i = 1
           \/ git = "held" /\ git' # "held" /\ left' = left /\ ov = 0 /\ di = 1 /\ to = 0 /\ i = 1
           \/ /\ git = "held" /\ git' # "held" /\ left' = [left EXCEPT !.own = @ + 1]
              /\ ov = 0 /\ di = 0 /\ to = 0 /\ i = 1
  <2>1. ASSUME NEW l \in {logs, Unmapped(logs)}, NEW d \in {0, 1}, Adds(0, 0, d, 0, l, 1)
        PROVE  \E un \in {0, 1} : Adds(0, 0, d, 0, IF un = 0 THEN logs ELSE Unmapped(logs), 1)
    <3>1. CASE l = logs
      BY <2>1, <3>1
    <3>2. CASE l = Unmapped(logs)
      BY <2>1, <3>2
    <3> QED
      BY <3>1, <3>2
  <2> HIDE DEF Unmapped, Adds, Pooled
  <2>2. CASE git = "ready" /\ git' = "held" /\ left' = left /\ Adds(0, 1, 0, 0, logs, 0) /\ Pooled(0, 0, 1)
    BY <2>2
  <2>3. CASE /\ git = "ready" /\ git' = "idle" /\ left' = left /\ Pooled(0, 0, 0)
             /\ Adds(1, 0, 1, 0, logs, 1) \/ Adds(0, 0, 0, 0, logs, 1)
    BY <2>3
  <2>4. CASE /\ git = "held" /\ git' \in {"idle", "ready"} /\ left' = left /\ Pooled(0, 0, 0)
             /\ \E l \in {logs, Unmapped(logs)} : Adds(0, 0, 1, 0, l, 1)
    <3>1. PICK un \in {0, 1} : Adds(0, 0, 1, 0, IF un = 0 THEN logs ELSE Unmapped(logs), 1)
      BY <2>1, <2>4
    <3> QED
      BY <2>4, <3>1
  <2>5. CASE /\ git = "held" /\ git' = "idle" /\ left' = [left EXCEPT !.own = @ + 1] /\ Pooled(0, 0, 0)
             /\ \E l \in {logs, Unmapped(logs)} : Adds(0, 0, 0, 0, l, 1)
    <3>1. PICK un \in {0, 1} : Adds(0, 0, 0, 0, IF un = 0 THEN logs ELSE Unmapped(logs), 1)
      BY <2>1, <2>5
    <3> QED
      BY <2>5, <3>1
  <2>6. CASE /\ git = "lost" /\ git' = "idle" /\ left' = left /\ Pooled(0, 0, 0)
             /\ Adds(0, 0, 0, 0, logs, 1)
    BY <2>6
  <2> QED
    BY <1>3, <2>2, <2>3, <2>4, <2>5, <2>6
<1>5. /\ RecordType'
      /\ recording # "both" => UNCHANGED <<counters, logs, client, truth>>
      /\ recording = "both" => Counts(ov, to, di, 0) /\ Rows(i, un, 0) /\ Pool(0, 0, to)
  <2>1. RecordType /\ logs \in LogType
    BY DEF IInv, RecordType
  <2>2. Counting(ov, to, di, 0) /\ Writing(IF un = 0 THEN logs ELSE Unmapped(logs), i) /\ Pooled(0, 0, to)
    BY <1>4 DEF Adds
  <2>3. logs' \in LogType /\ IF recording # "none" THEN Rows(i, un, 0) ELSE logs' = logs
    <3>1. CASE un = 0
      BY <2>1, <2>2, <3>1 DEF Writing, RowsFrom, Rows
    <3>2. CASE un = 1
      <4>1. Writing(Unmapped(logs), i)
        BY <2>2, <3>2
      <4>2. Unmapped(logs).ingress = logs.ingress /\ Unmapped(logs).unmapped = logs.unmapped + 1 /\ Unmapped(logs).strange = logs.strange
        BY <2>1, RowShapes
      <4> QED
        BY <2>1, <3>2, <4>1, <4>2 DEF Writing, RowsFrom, Rows
    <3> QED
      BY <3>1, <3>2
  <2> QED
    BY <1>1, <1>2, <2>1, <2>2, <2>3 DEF RecordType, Counting, Pooled
<1>6. /\ left' \in [own : Nat, other : Nat, cutOwn : Nat, cutOther : Nat]
      /\ Strays' = Strays
      /\ \/ left' = left /\ Orphans' = Orphans
         \/ left' # left /\ left'.own = left.own + 1 /\ Orphans' = Orphans + 1
  BY <1>2, <1>4 DEF Orphans, Strays
<1>7. /\ Own \in Nat /\ Flight \in Nat /\ Attempts \in Nat /\ Orphans \in Nat /\ Strays \in Nat
      /\ Flight' = Flight /\ Attempts' = Attempts
  <2>1. InFlight' = InFlight /\ Tried' = Tried
    BY <1>2 DEF InFlight, Tried
  <2> QED
    BY <2>1, CountTypes DEF IInv, Flight, Attempts
<1>8. Own' = Own + to - (IF git = "held" /\ left' = left THEN 1 ELSE 0)
  <2> DEFINE h == Cardinality(Held)
             w == Orphans'
             own == Own'
  <2>1. Held' = Held
    BY <1>2 DEF Held
  <2>2. h \in Nat /\ own = h + (IF git' = "held" THEN 1 ELSE 0) + w /\ Own = h + (IF git = "held" THEN 1 ELSE 0) + Orphans
    BY <2>1, CountTypes DEF Own, IInv
  <2>3. (left' = left /\ w = Orphans) \/ (left' # left /\ w = Orphans + 1)
    BY <1>6
  <2>4. \/ git = "ready" /\ git' = "held" /\ left' = left /\ to = 1
        \/ git # "held" /\ git' = "idle" /\ left' = left /\ to = 0
        \/ git = "held" /\ git' # "held" /\ to = 0
    BY <1>4
  <2> HIDE DEF h, w, own
  <2>5. own = Own + to - (IF git = "held" /\ left' = left THEN 1 ELSE 0)
    BY <1>7, <2>2, <2>3, <2>4
  <2> QED
    BY <2>5 DEF own
<1>9. GateType' /\ PlanInv'
  BY <1>1, <1>2, <1>6 DEF IInv, GateType, PlanInv, RunStays
<1>10. RunType' /\ RecordInv' /\ ResultInv'
  BY <1>1, <1>2, <1>5, RunKept
<1>11. CASE recording # "both"
  <2>1. logs' \in LogType /\ logs' = logs
    BY <1>5, <1>11 DEF RecordType
  <2> QED
    BY <1>1, <1>2, <1>5, <1>9, <1>10, <1>11, <2>1, UnrecordedKeeps DEF IInv
<1>12. CASE recording = "both"
  <2> USE <1>12
  <2>0. /\ counters \in CounterType /\ logs \in LogType /\ ClientType /\ TruthType
        /\ counters' \in CounterType /\ logs' \in LogType /\ TruthType' /\ client' = client
        /\ recording' = "both" /\ pc' = pc /\ UNCHANGED <<harness, quiet, wave, generation, actual, last>>
        /\ Counts(ov, to, di, 0) /\ Rows(i, un, 0) /\ Pool(0, 0, to)
    BY <1>2, <1>5 DEF IInv, RecordType, RunStays
  <2> USE DEF Counts, Rows, Pool
  <2>1. AnswerInv'
    BY <1>7, <2>0 DEF IInv, AnswerInv
  <2>2. ReasonInv'
    BY <1>1, <1>6, <1>7, <2>0 DEF IInv, ReasonInv
  <2>3. IngressInv'
    <3>1. di + (left'.own - left.own) <= i /\ left'.own \in Nat /\ left.own \in Nat
      BY <1>2, <1>4, <1>6
    <3> QED
      BY <2>0, <3>1 DEF IInv, IngressInv
  <2>4. AbortInv'
    <3>1. left'.own >= left.own /\ left'.own \in Nat /\ left.own \in Nat
      BY <1>2, <1>6
    <3> QED
      BY <1>1, <2>0, <3>1 DEF IInv, AbortInv, Excused
  <2>5. HeldInv'
    BY <1>7, <1>8, <2>0 DEF IInv, HeldInv
  <2>6. FullInv'
    <3>1. Active = Own + Strays /\ Active' = Own' + Strays'
      BY <1>9, ActiveIsOwn DEF IInv
    <3>2. Active' \in {Active + to, Active + to - 1} /\ Active \in Nat
      BY <1>6, <1>7, <1>8, <3>1
    <3> QED
      BY <1>1, <2>0, <3>2 DEF IInv, FullInv, Clear
  <2>7. ReplacedInv'
    BY <1>1, <2>0 DEF ReplacedInv
  <2>8. QuotaInv'
    BY <1>2, <1>7, <2>0 DEF IInv, QuotaInv, Quota
  <2> QED
    BY <1>5, <1>9, <1>10, <2>1, <2>2, <2>3, <2>4, <2>5, <2>6, <2>7, <2>8 DEF IInv
<1> QED
  BY <1>11, <1>12

\* Somebody else's check is admitted or rejected.
LEMMA ForeignKeeps == ASSUME IInv, Foreign, RunStays PROVE IInv'
<1>1. /\ UNCHANGED <<limit, stage, tries, git, gitLeft, late, recording, client, truth>> /\ RunStays
      /\ faults' \in Nat /\ left \in [own : Nat, other : Nat, cutOwn : Nat, cutOther : Nat]
  BY DEF Foreign, Disturb, IInv, GateType
<1>2. PICK y \in {0, 1} :
        /\ Counting(y, 1 - y, y, 0) /\ Writing(logs, y)
        /\ \/ y = 0 /\ left' = [left EXCEPT !.other = @ + 1]
           \/ y = 1 /\ left' = left /\ Active >= Capacity
  <2>1. CASE Adds(0, 1, 0, 0, logs, 0) /\ left' = [left EXCEPT !.other = @ + 1]
    <3>1. Counting(0, 1 - 0, 0, 0) /\ Writing(logs, 0)
      BY <2>1 DEF Adds
    <3> QED
      BY <2>1, <3>1
  <2>2. CASE Active >= Capacity /\ Adds(1, 0, 1, 0, logs, 1) /\ left' = left
    <3>1. Counting(1, 1 - 1, 1, 0) /\ Writing(logs, 1)
      BY <2>2 DEF Adds
    <3> QED
      BY <2>2, <3>1
  <2> QED
    BY <2>1, <2>2, ForeignAdds DEF IInv
<1>3. /\ RecordType'
      /\ recording # "both" => counters' = counters
      /\ recording = "both" => Counts(y, 1 - y, y, 0)
      /\ IF recording # "none" THEN Rows(y, 0, 0) ELSE logs' = logs
  BY <1>1, <1>2 DEF IInv, RecordType, Counting, Writing, RowsFrom, Rows
<1>4. /\ left' \in [own : Nat, other : Nat, cutOwn : Nat, cutOther : Nat]
      /\ left'.own = left.own /\ Orphans' = Orphans /\ Strays' = Strays + (1 - y)
  BY <1>1, <1>2 DEF Orphans, Strays
<1>5. Own' = Own /\ Flight' = Flight /\ Attempts' = Attempts
  BY <1>1, <1>4 DEF Own, Flight, Attempts, Held, InFlight, Tried
<1>6. Own \in Nat /\ Strays \in Nat /\ Orphans \in Nat /\ Active = Own + Strays
  BY CountTypes DEF IInv
<1>7. GateType' /\ PlanInv'
  BY <1>1, <1>4 DEF IInv, GateType, PlanInv, RunStays
<1>8. RunType' /\ RecordInv' /\ ResultInv'
  BY <1>1, <1>3, <1>4, RunKept DEF IInv, RecordInv
<1>9. CASE recording # "both"
  <2>1. logs' \in LogType /\ logs'.ingress >= logs.ingress /\ logs'.strange >= logs.strange /\ logs'.unmapped >= logs.unmapped
    BY <1>3 DEF IInv, RecordType, Rows
  <2>2. P4 /\ pc = "after" => Orphans' = 0
    BY <1>4 DEF IInv, AbortInv
  <2> QED
    BY <1>1, <1>3, <1>7, <1>8, <1>9, <2>1, <2>2, UnrecordedKeeps DEF IInv
<1>10. CASE recording = "both"
  <2> USE <1>10
  <2>0. /\ counters \in CounterType /\ logs \in LogType /\ ClientType /\ TruthType
        /\ counters' \in CounterType /\ logs' \in LogType /\ client' = client /\ truth' = truth
        /\ recording' = "both" /\ pc' = pc /\ UNCHANGED <<harness, quiet, wave, generation, actual, last>>
        /\ Counts(y, 1 - y, y, 0) /\ Rows(y, 0, 0)
    BY <1>1, <1>3 DEF IInv, RecordType, RunStays
  <2>9. pc \notin {"path", "judge"}
    BY DEF IInv, RecordInv
  <2> USE DEF Counts, Rows
  <2>1. AnswerInv'
    BY <1>5, <2>0 DEF IInv, AnswerInv
  <2>2. ReasonInv'
    BY <1>4, <1>6, <2>0 DEF IInv, ReasonInv
  <2>3. IngressInv'
    BY <1>1, <1>4, <2>0 DEF IInv, IngressInv
  <2>4. AbortInv'
    BY <1>1, <1>4, <2>0, <2>9 DEF IInv, AbortInv, Excused, Clear
  <2>5. HeldInv'
    BY <1>5, <2>0 DEF IInv, HeldInv
  <2>6. FullInv'
    <3>1. Active' = Own' + Strays'
      BY <1>7, ActiveIsOwn DEF IInv
    <3>2. Active' = Active + (1 - y) /\ Active \in Nat
      BY <1>4, <1>5, <1>6, <3>1
    <3> QED
      BY <2>0, <3>2 DEF IInv, FullInv, Clear
  <2>7. ReplacedInv'
    <3>1. Clear' = Clear
      BY <2>0 DEF Clear
    <3>2. ASSUME NoLoad, Clear PROVE NoLoad'
      <4>1. y = 1 => counters.total > 0
        BY <1>2, <1>6, <2>0, <3>2 DEF IInv, FullInv
      <4> QED
        BY <2>0, <3>2, <4>1 DEF NoLoad
    <3>3. ASSUME counters.dispatched + left.own < counters.total + counters.overflow + logs.strange
          PROVE  counters'.dispatched + left'.own < counters'.total + counters'.overflow + logs'.strange
      BY <1>1, <1>4, <2>0, <3>3
    <3> QED
      BY <2>0, <2>9, <3>1, <3>2, <3>3 DEF IInv, ReplacedInv
  <2>8. QuotaInv'
    BY <1>1, <1>5, <2>0 DEF IInv, QuotaInv, Quota
  <2> QED
    BY <1>3, <1>7, <1>8, <2>1, <2>2, <2>3, <2>4, <2>5, <2>6, <2>7, <2>8 DEF IInv
<1> QED
  BY <1>9, <1>10

\* A check without a client is answered.
LEMMA ReleaseKeeps == ASSUME IInv, Release, RunStays PROVE IInv'
<1>1. /\ UNCHANGED <<limit, stage, tries, git, gitLeft, late, recording, client, truth, faults>> /\ RunStays
      /\ left \in [own : Nat, other : Nat, cutOwn : Nat, cutOther : Nat]
  BY DEF Release, IInv, GateType
<1>2. PICK di \in {0, 1}, ab \in {0, 1}, i \in {0, 1}, st \in {0, 1}, ow \in {0, 1} :
        /\ Counting(0, 0, di, ab) /\ IF st = 0 THEN Writing(logs, i) ELSE Writing(Strange(logs), i)
        /\ \/ OneLess("own") /\ st = 0 /\ i = 0 /\ di = 1 /\ ab = 1 /\ ow = 1
           \/ OneLess("cutOwn") /\ st = 0 /\ i = 0 /\ di = 0 /\ ab = 0 /\ ow = 0
           \/ (OneLess("other") \/ OneLess("cutOther")) /\ st = 1 /\ ow = 0
  <2> HIDE DEF Strange, OneLess
  <2>1. CASE OneLess("own") /\ Adds(0, 0, 1, 1, logs, 0)
    BY <2>1 DEF Adds
  <2>2. CASE OneLess("other") /\ Adds(0, 0, 1, 0, Strange(logs), 1)
    BY <2>2 DEF Adds
  <2>3. CASE OneLess("other") /\ Adds(0, 0, 1, 1, Strange(logs), 0)
    BY <2>3 DEF Adds
  <2>4. CASE OneLess("cutOwn") /\ Adds(0, 0, 0, 0, logs, 0)
    BY <2>4 DEF Adds
  <2>5. CASE OneLess("cutOther") /\ Adds(0, 0, 0, 0, Strange(logs), 0)
    BY <2>5 DEF Adds
  <2> QED
    BY <2>1, <2>2, <2>3, <2>4, <2>5, ReleaseAdds DEF IInv
<1>3. /\ RecordType'
      /\ recording # "both" => counters' = counters
      /\ recording = "both" => Counts(0, 0, di, ab)
      /\ IF recording # "none" THEN Rows(i, 0, st) ELSE logs' = logs
  <2>1. RecordType /\ logs \in LogType
    BY DEF IInv, RecordType
  <2>2. logs' \in LogType /\ IF recording # "none" THEN Rows(i, 0, st) ELSE logs' = logs
    <3>1. CASE st = 0
      BY <1>2, <2>1, <3>1 DEF Writing, RowsFrom, Rows
    <3>2. CASE st = 1
      <4>1. Writing(Strange(logs), i)
        BY <1>2, <3>2
      <4>2. Strange(logs).ingress = logs.ingress /\ Strange(logs).unmapped = logs.unmapped /\ Strange(logs).strange = logs.strange + 1
        BY <2>1, RowShapes
      <4> QED
        BY <2>1, <3>2, <4>1, <4>2 DEF Writing, RowsFrom, Rows
    <3> QED
      BY <3>1, <3>2
  <2> QED
    BY <1>1, <1>2, <2>1, <2>2 DEF RecordType, Counting
<1>4. /\ left' \in [own : Nat, other : Nat, cutOwn : Nat, cutOther : Nat]
      /\ left'.own = left.own - ow
      /\ Strays' = Strays - st /\ Orphans' = Orphans - (1 - st)
  <2>1. CASE OneLess("own") /\ st = 0 /\ ow = 1
    BY <1>1, <2>1 DEF OneLess, Orphans, Strays
  <2>2. CASE OneLess("cutOwn") /\ st = 0 /\ ow = 0
    BY <1>1, <2>2 DEF OneLess, Orphans, Strays
  <2>3. CASE OneLess("other") /\ st = 1 /\ ow = 0
    BY <1>1, <2>3 DEF OneLess, Orphans, Strays
  <2>4. CASE OneLess("cutOther") /\ st = 1 /\ ow = 0
    BY <1>1, <2>4 DEF OneLess, Orphans, Strays
  <2> QED
    BY <1>2, <2>1, <2>2, <2>3, <2>4
<1>5. /\ Own \in Nat /\ Strays \in Nat /\ Orphans \in Nat /\ Active = Own + Strays
      /\ Own' = Own - (1 - st) /\ Flight' = Flight /\ Attempts' = Attempts
  <2>1. Held' = Held /\ InFlight' = InFlight /\ Tried' = Tried /\ git' = git
    BY <1>1 DEF Held, InFlight, Tried
  <2> DEFINE h == Cardinality(Held)
             w == Orphans'
             own == Own'
  <2>2. /\ h \in Nat /\ own = h + (IF git = "held" THEN 1 ELSE 0) + w
        /\ Own = h + (IF git = "held" THEN 1 ELSE 0) + Orphans /\ Orphans \in Nat /\ w = Orphans - (1 - st)
    BY <1>4, <2>1, CountTypes DEF Own, IInv
  <2> HIDE DEF h, w, own
  <2>3. own = Own - (1 - st)
    BY <2>2
  <2> QED
    BY <2>1, <2>3, CountTypes DEF own, Flight, Attempts, IInv
<1>6. Orphans' \in Nat /\ Strays' \in Nat
  BY <1>4 DEF Orphans, Strays
<1>7. GateType' /\ PlanInv'
  BY <1>1, <1>4 DEF IInv, GateType, PlanInv, RunStays
<1>8. (P4 /\ pc = "after") \/ pc \in Opening => Orphans' = 0
  <2>1. (P4 /\ pc = "after") \/ pc \in Opening => Orphans = 0
    BY DEF IInv, AbortInv, RecordInv
  <2> QED
    BY <1>4, <1>6, <2>1
<1>9. RunType' /\ RecordInv' /\ ResultInv'
  BY <1>1, <1>3, <1>8, RunKept
<1>10. CASE recording # "both"
  <2>1. logs' \in LogType /\ logs'.ingress >= logs.ingress /\ logs'.strange >= logs.strange /\ logs'.unmapped >= logs.unmapped
    BY <1>3 DEF IInv, RecordType, Rows
  <2> QED
    BY <1>1, <1>3, <1>7, <1>8, <1>9, <1>10, <2>1, UnrecordedKeeps DEF IInv
<1>11. CASE recording = "both"
  <2> USE <1>11
  <2>0. /\ counters \in CounterType /\ logs \in LogType /\ ClientType /\ TruthType
        /\ counters' \in CounterType /\ logs' \in LogType /\ client' = client /\ truth' = truth
        /\ recording' = "both" /\ pc' = pc /\ UNCHANGED <<harness, quiet, wave, generation, actual, last>>
        /\ Counts(0, 0, di, ab) /\ Rows(i, 0, st)
    BY <1>1, <1>3 DEF IInv, RecordType, RunStays
  <2>9. pc \notin {"path", "judge"} /\ left.own \in Nat /\ left'.own \in Nat
    BY <1>1, <1>4 DEF IInv, RecordInv
  <2>10. st = 0 => i = 0 /\ di = ow /\ ab = ow
    BY <1>2
  <2>11. st = 1 => ow = 0
    BY <1>2
  <2> USE DEF Counts, Rows
  <2>1. AnswerInv'
    BY <1>5, <2>0 DEF IInv, AnswerInv
  <2>2. ReasonInv'
    BY <1>4, <1>5, <2>0 DEF IInv, ReasonInv
  <2>3. IngressInv'
    BY <1>4, <2>0, <2>9, <2>10, <2>11 DEF IInv, IngressInv
  <2>4. AbortInv'
    BY <1>4, <1>8, <2>0, <2>9, <2>10, <2>11 DEF IInv, AbortInv, Excused, Clear
  <2>5. HeldInv'
    BY <1>5, <2>0 DEF IInv, HeldInv
  <2>6. FullInv'
    <3>1. Active' = Own' + Strays'
      BY <1>7, ActiveIsOwn DEF IInv
    <3>2. Active' = Active - 1 /\ Active \in Nat
      BY <1>4, <1>5, <3>1
    <3> QED
      BY <2>0, <3>2 DEF IInv, FullInv, Clear
  <2>7. ReplacedInv'
    <3>1. Clear' = Clear /\ NoLoad' = NoLoad
      BY <2>0 DEF Clear, NoLoad
    <3>3. ASSUME counters.dispatched + left.own < counters.total + counters.overflow + logs.strange
          PROVE  counters'.dispatched + left'.own < counters'.total + counters'.overflow + logs'.strange
      BY <1>4, <2>0, <2>9, <2>10, <2>11, <3>3
    <3> QED
      BY <2>0, <2>9, <3>1, <3>3 DEF IInv, ReplacedInv
  <2>8. QuotaInv'
    BY <1>1, <1>5, <2>0 DEF IInv, QuotaInv, Quota
  <2> QED
    BY <1>3, <1>7, <1>9, <2>1, <2>2, <2>3, <2>4, <2>5, <2>6, <2>7, <2>8 DEF IInv
<1> QED
  BY <1>10, <1>11

\* A row of an earlier run arrives.
LEMMA LateRowKeeps == ASSUME IInv, LateRow, RunStays PROVE IInv'
<1>1. /\ UNCHANGED <<limit, stage, tries, git, gitLeft, left, recording, counters, client, truth, faults>> /\ RunStays
      /\ late' = "none"
  BY DEF LateRow
<1>2. /\ logs \in LogType /\ logs' \in LogType /\ logs'.ingress >= logs.ingress
      /\ logs'.strange = logs.strange /\ logs'.unmapped = logs.unmapped
  BY DEF LateRow, Logged, ProxyRows, IInv, RecordType
<1>3. /\ Own' = Own /\ Flight' = Flight /\ Attempts' = Attempts
      /\ Active' = Active /\ Strays' = Strays /\ Orphans' = Orphans
  BY <1>1, SameLoad
<1>4. GateType' /\ RecordType' /\ PlanInv'
  BY <1>1, <1>2 DEF IInv, GateType, RecordType, PlanInv, RunStays
<1>5. RunType' /\ RecordInv' /\ ResultInv'
  BY <1>1, <1>3, RunKept DEF IInv, RecordInv
<1> USE DEF RunStays
<1>6. ReasonInv'
  BY <1>1, <1>2, <1>3 DEF IInv, ReasonInv
<1>7. IngressInv'
  <2>1. counters \in CounterType /\ TruthType /\ left.own \in Nat
    BY DEF IInv, RecordType, GateType
  <2> QED
    BY <1>1, <1>2, <2>1 DEF IInv, IngressInv
<1>8. AbortInv'
  BY <1>1, <1>2, <1>3 DEF IInv, AbortInv, Excused, Clear
<1>9. HeldInv' /\ FullInv' /\ ReplacedInv'
  BY <1>1, <1>2, <1>3 DEF IInv, HeldInv, FullInv, ReplacedInv, NoLoad, Clear
<1>10. AnswerInv' /\ QuotaInv'
  BY <1>1, <1>3 DEF IInv, AnswerInv, QuotaInv, Quota
<1> QED
  BY <1>4, <1>5, <1>6, <1>7, <1>8, <1>9, <1>10 DEF IInv

-----------------------------------------------------------------------------
(* The theorems.                                                           *)

\* The initial states.
LEMMA Start == Init => IInv
<1> SUFFICES ASSUME Init PROVE IInv
  OBVIOUS
<1>1. GateType /\ RecordType /\ RunType
  BY DEF Init, InitGate, GateType, RecordType, RunType, Harnesses
<1>2. PlanInv /\ RecordInv
  BY DEF Init, InitGate, PlanInv, RecordInv, Empty, Orphans
<1>3. ReasonInv /\ IngressInv /\ AbortInv
  BY DEF Init, InitGate, ReasonInv, IngressInv, AbortInv, Excused
<1>4. HeldInv /\ FullInv /\ ReplacedInv /\ AnswerInv /\ QuotaInv /\ ResultInv
  BY DEF Init, InitGate, HeldInv, FullInv, ReplacedInv, AnswerInv, QuotaInv, ResultInv
<1> QED
  BY <1>1, <1>2, <1>3, <1>4 DEF IInv

\* The steps of one measurement.
LEMMA MeasureKeeps == ASSUME IInv, Measure PROVE IInv'
<1>1. CASE WaveEnd
  <2>1. UNCHANGED recordVars \/ Leave("yes")
    BY <1>1 DEF WaveEnd, Leave
  <2> QED
    BY <1>1, <2>1, WaveGoesOnKeeps, WaveFailsKeeps
<1>2. CASE Join
  BY <1>2, JoinSoundKeeps, JoinFailsKeeps
<1>3. CASE Settle
  <2>1. (pc' = "after" /\ UNCHANGED recordVars) \/ Over
    BY <1>3 DEF Settle
  <2> QED
    BY <1>3, <2>1, SettleOnKeeps, SettleFailsKeeps
<1> QED
  BY <1>1, <1>2, <1>3, BeforeLogsKeeps, BeforeCountersKeeps, SubmitKeeps, MonitorEndKeeps,
     AfterCountersKeeps, AfterLogsKeeps, JudgeKeeps DEF Measure

\* Every step keeps the inductive invariant.
LEMMA Step == IInv /\ [Next]_vars => IInv'
<1> SUFFICES ASSUME IInv, [Next]_vars PROVE IInv'
  OBVIOUS
<1>1. CASE \E p \in Phases : Begin(p)
  BY <1>1, BeginKeeps
<1>2. CASE Work
  BY <1>2, SendKeeps, AnswerKeeps, LostKeeps, GitReadKeeps DEF Work, ClientStep, RunStays
<1>3. CASE Environment
  BY <1>3, ForeignKeeps, ReleaseKeeps, LateRowKeeps DEF Environment, GateStep, RunStays
<1>4. CASE UNCHANGED vars
  <2> USE <1>4 DEF vars
  <2>1. /\ Own' = Own /\ Flight' = Flight /\ Attempts' = Attempts
        /\ Active' = Active /\ Strays' = Strays /\ Orphans' = Orphans
    BY SameLoad
  <2>2. GateType' /\ RecordType' /\ RunType' /\ PlanInv' /\ ResultInv'
    BY DEF IInv, GateType, RecordType, RunType, PlanInv, ResultInv
  <2>3. RecordInv' /\ ReasonInv' /\ IngressInv'
    BY <2>1 DEF IInv, RecordInv, ReasonInv, IngressInv, Empty
  <2>4. AbortInv' /\ FullInv' /\ ReplacedInv'
    BY <2>1 DEF IInv, AbortInv, Excused, FullInv, ReplacedInv, NoLoad, Clear
  <2>5. HeldInv' /\ AnswerInv' /\ QuotaInv'
    BY <2>1 DEF IInv, HeldInv, AnswerInv, QuotaInv, Quota
  <2> QED
    BY <2>2, <2>3, <2>4, <2>5 DEF IInv
<1> QED
  BY <1>1, <1>2, <1>3, <1>4, MeasureKeeps, InterruptKeeps, DisturbedKeeps, AbortKeeps, KillKeeps,
     FreezeKeeps, PairKeeps, ReplaceKeeps DEF Next

\* Whatever else the gate serves, what is lost and what is read too early: a
\* failure with a status has one of the reasons of ReasonInv and AbortInv (a
\* rejection, an attempt not sent on, another row or an abort of its own), every
\* request that HAProxy has answered or not has its row at the ingress, and a
\* HAProxy that was replaced is missed in the counters.
THEOREM Invariance == Spec => []IInv
BY Start, Step, PTL DEF Spec

\* A run sends no more attempts than its waves allow.
LEMMA SentWithinPlan == ASSUME IInv PROVE client.sent \in 0..(WaveCount * LogicalOps * limit)
<1>1. client.sent \in Nat /\ Quota \in Nat /\ wave \in Nat /\ WaveCount \in Nat /\ wave <= WaveCount /\ Attempts \in Nat
  BY CountTypes DEF IInv, RecordType, GateType, RunType, Quota
<1>2. Attempts <= Quota
  BY TriedBounded DEF IInv, PlanInv
<1>3. client.sent = 0 \/ client.sent + Quota <= wave * Quota + Attempts
  BY DEF IInv, QuotaInv
<1>4. wave * Quota \in Nat /\ WaveCount * Quota \in Nat /\ wave * Quota <= WaveCount * Quota
  <2>1. PICK k \in Nat : WaveCount = wave + k
    <3>1. WaveCount - wave \in Nat /\ WaveCount = wave + (WaveCount - wave)
      BY <1>1
    <3> QED
      BY <3>1
  <2>2. WaveCount * Quota = wave * Quota + k * Quota /\ k * Quota \in Nat /\ wave * Quota \in Nat
    BY <1>1, <2>1
  <2> QED
    BY <2>2
<1>5. WaveCount * LogicalOps * limit = WaveCount * Quota
  BY <1>1 DEF IInv, GateType, Quota
<1> QED
  BY <1>1, <1>2, <1>3, <1>4, <1>5

\* A run that validate_measurement() or validate_run() accepts is its own load
\* against its own rejections, as far as the ingress had written its rows: every
\* failed attempt was rejected by the pool of the target, in a saturation run so
\* was every rejection an attempt. The admissions counted are those of this run
\* and the monitors lasted as long as the load, whatever was written.
THEOREM ValidRunsAreOwn == Spec => []ValidRunIsOwn
<1>1. IInv => TypeInv
  <2> SUFFICES ASSUME IInv PROVE TypeInv
    OBVIOUS
  <2>1. \A o \in Ops : stage[o] \in Places /\ tries[o] \in 0..limit
    BY DEF IInv, GateType, PlanInv
  <2>2. client.failed + client.odd <= client.sent
    BY DEF IInv, AnswerInv
  <2> QED
    BY <2>1, <2>2, SentWithinPlan DEF IInv, GateType, RunType, TypeInv
<1>2. ASSUME IInv, JustAccepted PROVE FailuresAreRejections /\ AdmissionsAreOwn /\ RejectionsAreOwn
  <2>0. /\ counters \in CounterType /\ logs \in LogType /\ ClientType /\ TruthType
        /\ pc = "judge" /\ Valid /\ recording # "both"
    BY <1>2 DEF IInv, RecordType, RecordInv, JustAccepted
  <2>1. /\ truth.refused + truth.unsent <= client.failed
        /\ truth.granted <= counters.total /\ truth.refused <= counters.overflow
    BY <1>2 DEF IInv, ReasonInv
  <2>2. /\ client.odd = 0 /\ logs.strange = 0 /\ logs.unmapped = 0
        /\ logs.ingress = counters.dispatched /\ counters.aborts = 0
        /\ counters.total = logs.checks
    BY <2>0 DEF Valid, SaturationValid, CascadeValid, ImpactOnly, OwnChecks, IngressRefusalsMapped, IngressAnswered
  <2>3. truth.missed = 0 => client.failed = truth.refused
    <3>1. client.failed <= Excused
      BY <1>2, <2>0, ValidOnOneProxy DEF IInv, AbortInv
    <3>2. counters.dispatched + truth.unsent <= logs.ingress + logs.strange + truth.missed
      BY <1>2 DEF IInv, IngressInv
    <3> QED
      BY <2>0, <2>1, <2>2, <3>1, <3>2 DEF Excused
  <2>4. client.failed >= truth.refused
    BY <2>0, <2>1
  <2>5. counters.total = truth.granted
    <3>1. CASE P4
      <4>1. client.sent <= truth.granted + truth.refused + truth.unsent + client.odd
        BY <1>2, <3>1 DEF IInv, ReasonInv
      <4>2. counters.overflow = client.failed /\ logs.refused = counters.overflow /\ logs.checks + logs.refused = client.sent
        BY <2>0, <3>1 DEF Valid, SaturationValid
      <4> QED
        BY <2>0, <2>1, <2>2, <4>1, <4>2
    <3>2. CASE ~P4
      <4>1. quiet = "yes"
        BY <2>0, <3>2 DEF Valid, CascadeValid
      <4>2. counters.total <= truth.granted + logs.strange + 0
        BY <1>2, <2>0, <4>1 DEF IInv, ReasonInv
      <4> QED
        BY <2>0, <2>1, <2>2, <4>2
    <3> QED
      BY <3>1, <3>2
  <2>6. P4 => counters.overflow = client.failed
    BY <2>0 DEF Valid, SaturationValid
  <2> QED
    BY <2>2, <2>3, <2>4, <2>5, <2>6 DEF FailuresAreRejections, AdmissionsAreOwn, RejectionsAreOwn
<1>3. ASSUME IInv, JustAccepted PROVE ValidWasWatched
  BY <1>3 DEF IInv, RecordInv, JustAccepted, Valid, SaturationValid, CascadeValid, ImpactOnly,
     ValidWasWatched
<1>4. IInv => ValidRunIsOwn
  BY <1>1, <1>2, <1>3 DEF ValidRunIsOwn, FailuresAreRejections, AdmissionsAreOwn, RejectionsAreOwn,
     ValidWasWatched
<1> QED
  BY <1>4, Invariance, PTL

\* result() and paired() compare two runs that the HAProxy of the frozen
\* configuration served from the first reading to the last.
THEOREM PairsShareFixture == Spec => []PairedOnOneFixture
<1>1. IInv => PairedOnOneFixture
  BY DEF IInv, ResultInv, PairedOnOneFixture
<1> QED
  BY <1>1, Invariance, PTL
----------------------------------------------------------------
\* What an experiment compares is its own and was measured on one fixture:
\* result() and paired() read runs of ValidRunsAreOwn, with the one condition on
\* the rows of the ingress that it has.
THEOREM ComparisonsAreOwn == Spec => []RunsAreComparable
BY ValidRunsAreOwn, PairsShareFixture, PTL DEF RunsAreComparable

-----------------------------------------------------------------------------
(* The pool of the target.                                                 *)

\* An attempt takes a place of the pool, or none.
LEMMA SendInPool ==
  ASSUME IInv, IInv', NEW o \in Ops, Send(o)
  PROVE  Target!Enter \/ Active' = Active
<1>1. stage[o] \in {"ready", "planned"} /\ left' = left /\ git' = git
  BY DEF Send, MayStart
<1>2. /\ Active = Own + Strays /\ Own \in Nat /\ Strays \in Nat /\ Orphans \in Nat
      /\ Active' = Own' + Strays' /\ Own' \in Nat /\ Strays' = Strays /\ Orphans' = Orphans
  BY <1>1, ActiveIsOwn DEF IInv, Strays, Orphans
<1>3. \/ Active < Capacity /\ stage' = [stage EXCEPT ![o] = "held"]
      \/ stage' = [stage EXCEPT ![o] = "ready"] \/ stage' = [stage EXCEPT ![o] = "done"]
  BY DEF Send, Fail
<1>4. ASSUME NEW s \in Places, stage' = [stage EXCEPT ![o] = s]
      PROVE  Own' = Own + (IF s = "held" THEN 1 ELSE 0)
  <2>1. Own' = Own + (IF s = "held" THEN 1 ELSE 0) - (IF stage[o] = "held" THEN 1 ELSE 0) + (Orphans - Orphans)
    BY <1>1, <1>2, <1>4, OneMoves DEF IInv
  <2> QED
    BY <1>1, <1>2, <2>1
<1>5. CASE Active < Capacity /\ stage' = [stage EXCEPT ![o] = "held"]
  <2>1. Own' = Own + 1
    BY <1>4, <1>5
  <2> QED
    BY <1>2, <1>5, <2>1 DEF Target!Enter
<1>6. CASE stage' = [stage EXCEPT ![o] = "ready"] \/ stage' = [stage EXCEPT ![o] = "done"]
  <2>1. Own' = Own
    BY <1>2, <1>4, <1>6
  <2> QED
    BY <1>2, <2>1
<1> QED
  BY <1>3, <1>5, <1>6

\* An answer leaves the pool; a client or an ingress that gives up does not.
LEMMA AnswerInPool ==
  ASSUME IInv, IInv', NEW o \in Ops, Answer(o)
  PROVE  Target!Leave \/ Active' = Active
<1>1. stage[o] = "held" /\ git' = git /\ left \in [own : Nat, other : Nat, cutOwn : Nat, cutOther : Nat]
  BY DEF Answer, IInv, GateType
<1>2. /\ Active = Own + Strays /\ Own \in Nat /\ Strays \in Nat /\ Orphans \in Nat
      /\ Active' = Own' + Strays' /\ Own' \in Nat /\ Orphans' \in Nat
  BY ActiveIsOwn DEF IInv
<1>3. PICK s \in {"ready", "done"} : stage' = [stage EXCEPT ![o] = s]
  BY DEF Answer, Fail
<1>4. PICK w \in {0, 1} : Orphans' = Orphans + w /\ Strays' = Strays
  <2>1. CASE left' = left
    <3>1. Orphans' = Orphans + 0 /\ Strays' = Strays
      BY <1>2, <2>1 DEF Orphans, Strays
    <3> QED
      BY <3>1
  <2>2. CASE left' = [left EXCEPT !.own = @ + 1]
    <3>1. Orphans' = Orphans + 1 /\ Strays' = Strays
      BY <1>1, <2>2 DEF Orphans, Strays
    <3> QED
      BY <3>1
  <2> QED
    BY <2>1, <2>2 DEF Answer
<1>5. Own' = Own - 1 + w
  <2> DEFINE x == Orphans + w
  <2>1. x \in Nat /\ Orphans' = x /\ x - Orphans = w
    BY <1>2, <1>4
  <2> HIDE DEF x
  <2>2. Own' = Own + (IF s = "held" THEN 1 ELSE 0) - (IF stage[o] = "held" THEN 1 ELSE 0) + (x - Orphans)
    BY <1>1, <1>3, <2>1, OneMoves DEF IInv
  <2>3. Own' = Own + 0 - 1 + w
    BY <1>1, <2>1, <2>2
  <2> QED
    BY <1>2, <2>3
<1> DEFINE active == Active'
<1>6. Active = Own + Strays /\ active = Own - 1 + w + Strays /\ active \in Nat
  BY <1>2, <1>4, <1>5
<1> HIDE DEF active
<1>7. (Active > 0 /\ active = Active - 1) \/ active = Active
  BY <1>2, <1>6
<1> QED
  BY <1>7 DEF active, Target!Leave

\* An operation whose check is lost to it has no place any more.
LEMMA LostInPool == ASSUME IInv, IInv', NEW o \in Ops, Lost(o) PROVE Active' = Active
<1>1. stage[o] = "lost" /\ left' = left /\ git' = git
  BY DEF Lost
<1>2. /\ Active = Own + Strays /\ Own \in Nat /\ Strays \in Nat /\ Orphans \in Nat
      /\ Active' = Own' + Strays' /\ Own' \in Nat /\ Strays' = Strays /\ Orphans' = Orphans
  BY <1>1, ActiveIsOwn DEF IInv, Strays, Orphans
<1>3. PICK s \in {"ready", "done"} : stage' = [stage EXCEPT ![o] = s]
  BY DEF Lost, Fail
<1>4. Own' = Own + (IF s = "held" THEN 1 ELSE 0) - (IF stage[o] = "held" THEN 1 ELSE 0) + (Orphans - Orphans)
  BY <1>1, <1>2, <1>3, OneMoves DEF IInv
<1>5. Own' = Own
  BY <1>1, <1>2, <1>4
<1> QED
  BY <1>2, <1>5

\* The Git read has one check at a time in the pool.
LEMMA GitReadInPool ==
  ASSUME IInv, IInv', GitRead
  PROVE  Target!Enter \/ Target!Leave \/ Active' = Active
<1> DEFINE h == Cardinality(Held)
           w == Orphans'
           active == Active'
<1>1. h' = h
  BY DEF GitRead, Held
<1>2. left \in [own : Nat, other : Nat, cutOwn : Nat, cutOther : Nat]
  BY DEF IInv, GateType
<1>3. h \in Nat /\ Strays \in Nat /\ Orphans \in Nat
  BY CountTypes DEF IInv
<1>4. \/ git = "ready" /\ git' = "held" /\ Active < Capacity /\ left' = left
      \/ git \in {"ready", "lost"} /\ git' = "idle" /\ left' = left
      \/ git = "held" /\ git' # "held" /\ (left' = left \/ left' = [left EXCEPT !.own = @ + 1])
  BY DEF GitRead
<1>5. Strays' = Strays /\ (IF left' = left THEN w = Orphans ELSE w = Orphans + 1)
  BY <1>2, <1>4 DEF Strays, Orphans
<1>6. /\ Active = h + (IF git = "held" THEN 1 ELSE 0) + Strays + Orphans
      /\ active = h + (IF git' = "held" THEN 1 ELSE 0) + Strays + w
  BY <1>1, <1>5 DEF Active
<1> HIDE DEF h, w, active
<1>7. (Active < Capacity /\ active = Active + 1) \/ (Active > 0 /\ active = Active - 1) \/ active = Active
  BY <1>3, <1>4, <1>5, <1>6
<1> QED
  BY <1>7 DEF Target!Enter, Target!Leave, active

\* Others take places and leave them, too; so do checks nobody waits for.
LEMMA OthersInPool ==
  ASSUME IInv, IInv', GateStep
  PROVE  Target!Enter \/ Target!Leave \/ Active' = Active
<1> DEFINE h == Cardinality(Held)
           rest == Strays + Orphans
           less == Strays' + Orphans'
           active == Active'
<1>1. h' = h /\ git' = git
  BY DEF GateStep, Foreign, Release, LateRow, Held
<1>2. left \in [own : Nat, other : Nat, cutOwn : Nat, cutOther : Nat]
  BY DEF IInv, GateType
<1>3. h \in Nat /\ Strays \in Nat /\ Orphans \in Nat /\ Strays' \in Nat /\ Orphans' \in Nat
  BY CountTypes, ActiveIsOwn DEF IInv
<1>4. \/ Active < Capacity /\ left' = [left EXCEPT !.other = @ + 1]
      \/ \E k \in {"own", "other", "cutOwn", "cutOther"} : OneLess(k)
      \/ left' = left
  BY DEF GateStep, Foreign, Release, LateRow
<1>5. rest \in Nat /\ less \in Nat /\
      (\/ Active < Capacity /\ less = rest + 1
       \/ rest > 0 /\ less = rest - 1
       \/ less = rest)
  <2>1. CASE Active < Capacity /\ left' = [left EXCEPT !.other = @ + 1]
    <3>1. left'.own = left.own /\ left'.cutOwn = left.cutOwn /\ left'.cutOther = left.cutOther /\ left'.other = left.other + 1
      BY <1>2, <2>1
    <3> QED
      BY <1>2, <1>3, <2>1, <3>1 DEF Strays, Orphans
  <2>2. CASE \E k \in {"own", "other", "cutOwn", "cutOther"} : OneLess(k)
    <3>1. PICK k \in {"own", "other", "cutOwn", "cutOther"} : left[k] > 0 /\ left' = [left EXCEPT ![k] = @ - 1]
      BY <2>2 DEF OneLess
    <3>2. /\ left'.own = (IF k = "own" THEN left.own - 1 ELSE left.own)
          /\ left'.other = (IF k = "other" THEN left.other - 1 ELSE left.other)
          /\ left'.cutOwn = (IF k = "cutOwn" THEN left.cutOwn - 1 ELSE left.cutOwn)
          /\ left'.cutOther = (IF k = "cutOther" THEN left.cutOther - 1 ELSE left.cutOther)
      BY <1>2, <3>1
    <3>3. /\ k = "own" => left.own > 0
          /\ k = "other" => left.other > 0
          /\ k = "cutOwn" => left.cutOwn > 0
          /\ k = "cutOther" => left.cutOther > 0
      BY <3>1
    <3> QED
      BY <1>2, <1>3, <3>2, <3>3 DEF Strays, Orphans
  <2>3. CASE left' = left
    BY <1>3, <2>3 DEF Strays, Orphans
  <2> QED
    BY <1>4, <2>1, <2>2, <2>3
<1>6. /\ Active = h + (IF git = "held" THEN 1 ELSE 0) + rest
      /\ active = h + (IF git = "held" THEN 1 ELSE 0) + less
  <2>1. /\ Active = h + (IF git = "held" THEN 1 ELSE 0) + Strays + Orphans
        /\ active = h + (IF git = "held" THEN 1 ELSE 0) + Strays' + Orphans'
    BY <1>1 DEF Active
  <2> DEFINE s == Strays'
             w == Orphans'
             g == IF git = "held" THEN 1 ELSE 0
  <2>2. s \in Nat /\ w \in Nat /\ g \in Nat
    BY <1>3
  <2>3. Active = h + g + Strays + Orphans /\ active = h + g + s + w
    BY <2>1
  <2> HIDE DEF s, w, g, h, active
  <2>4. Active = h + g + (Strays + Orphans) /\ active = h + g + (s + w)
    BY <1>3, <2>2, <2>3
  <2> QED
    BY <2>4 DEF s, w, g
<1> HIDE DEF h, rest, less, active
<1>7. (Active < Capacity /\ active = Active + 1) \/ (Active > 0 /\ active = Active - 1) \/ active = Active
  BY <1>3, <1>5, <1>6
<1> QED
  BY <1>7 DEF Target!Enter, Target!Leave, active

\* A run begins with what the last ones have left at the target.
LEMMA BeginInPool == ASSUME IInv, IInv', NEW p \in Phases, Begin(p) PROVE Active' = Active
<1>1. /\ Held = {} /\ git = "idle" /\ Held' = {} /\ git' = "idle"
      /\ left \in [own : Nat, other : Nat, cutOwn : Nat, cutOther : Nat]
      /\ left' = [own |-> 0, other |-> left.own + left.other, cutOwn |-> 0, cutOther |-> left.cutOwn + left.cutOther]
  BY DEF Begin, IInv, PlanInv, Held, GateType
<1>2. Strays' = (left.own + left.other) + (left.cutOwn + left.cutOther) /\ Orphans' = 0 + 0
  BY <1>1 DEF Strays, Orphans
<1>3. Cardinality(Held) = 0 /\ Cardinality(Held)' = 0
  BY <1>1, FS_EmptySet
<1>4. /\ Active = 0 + 0 + (left.other + left.cutOther) + (left.own + left.cutOwn)
      /\ Active' = 0 + 0 + Strays' + Orphans'
  BY <1>1, <1>3 DEF Active, Strays, Orphans
<1>5. Active' = 0 + 0 + ((left.own + left.other) + (left.cutOwn + left.cutOther)) + (0 + 0)
  BY <1>2, <1>4
<1> QED
  BY <1>1, <1>4, <1>5

\* The next wave finds nothing of the last one at the target.
LEMMA SubmitInPool == ASSUME IInv, IInv', Submit PROVE Active' = Active
<1>1. Held' = Held /\ Strays' = Strays /\ Orphans' = Orphans
  BY DEF Submit, IInv, PlanInv, Held, Strays, Orphans
<1>2. git # "held" /\ git' # "held"
  BY DEF Submit, IInv, PlanInv
<1> QED
  BY <1>1, <1>2 DEF Active

\* Who is replaced or killed leaves its checks behind.
LEMMA GoneInPool == ASSUME IInv, IInv', Replace \/ Kill PROVE Active' = Active
<1> DEFINE x == Cardinality(Held) + (IF git = "held" THEN 1 ELSE 0)
<1>1. Held' = {} /\ git' # "held" /\ left \in [own : Nat, other : Nat, cutOwn : Nat, cutOther : Nat]
  BY DEF Replace, Kill, Held, IInv, GateType
<1>2. x \in Nat /\ Strays \in Nat /\ Orphans \in Nat
  BY CountTypes DEF IInv
<1>3. Strays' = Strays /\ Orphans' = Orphans + x
  <2>1. CASE Replace
    <3>1. /\ left'.own = 0 /\ left'.other = 0 /\ left'.cutOther = Strays
          /\ left'.cutOwn = Orphans + Cardinality(Held) + (IF git = "held" THEN 1 ELSE 0)
      BY <2>1 DEF Replace
    <3>2. Orphans + Cardinality(Held) + (IF git = "held" THEN 1 ELSE 0) = Orphans + x
      BY <1>2, CountTypes DEF IInv
    <3>3. Strays' = 0 + Strays /\ Orphans' = 0 + (Orphans + x)
      BY <3>1, <3>2 DEF Strays, Orphans
    <3> QED
      BY <1>2, <3>3
  <2>2. CASE Kill
    <3>1. left' = [left EXCEPT !.own = @ + Cardinality(Held) + (IF git = "held" THEN 1 ELSE 0)]
      BY <2>2 DEF Kill
    <3> DEFINE h == Cardinality(Held)
               g == IF git = "held" THEN 1 ELSE 0
    <3>2. h \in Nat /\ g \in Nat /\ x = h + g /\ left' = [left EXCEPT !.own = @ + h + g]
      BY <3>1, CountTypes DEF IInv
    <3> HIDE DEF h, g, x
    <3>3. /\ left'.own = left.own + h + g /\ left'.other = left.other
          /\ left'.cutOwn = left.cutOwn /\ left'.cutOther = left.cutOther
      BY <1>1, <3>2
    <3>4. Strays' = left.other + left.cutOther /\ Orphans' = (left.own + h + g) + left.cutOwn
      BY <3>3 DEF Strays, Orphans
    <3> QED
      BY <1>1, <3>2, <3>4 DEF Strays, Orphans
  <2> QED
    BY <2>1, <2>2
<1>4. Own' = Own
  <2>1. Orphans' = Orphans + Cardinality(Held) + (IF git = "held" THEN 1 ELSE 0)
    BY <1>2, <1>3, CountTypes DEF IInv
  <2> QED
    BY <1>1, <2>1, LeftBehind DEF IInv
<1> QED
  BY <1>3, <1>4, ActiveIsOwn DEF IInv

\* Every other step leaves the target alone.
LEMMA PoolStep == IInv /\ IInv' /\ [Next]_vars => [Target!Enter \/ Target!Leave]_Active
<1> SUFFICES ASSUME IInv, IInv', [Next]_vars PROVE Target!Enter \/ Target!Leave \/ Active' = Active
  OBVIOUS
<1>1. UNCHANGED <<stage, git, left>> => Active' = Active
  BY DEF Active, Held, Strays, Orphans
<1>2. CASE Work
  BY <1>2, SendInPool, AnswerInPool, LostInPool, GitReadInPool DEF Work, ClientStep
<1>3. CASE Environment
  BY <1>3, OthersInPool DEF Environment
<1>4. CASE Measure
  BY <1>1, <1>4, SubmitInPool DEF Measure, BeforeLogs, BeforeCounters, WaveEnd, MonitorEnd, Join, Settle,
     AfterCounters, AfterLogs, Judge
<1>5. CASE Interrupt \/ Disturbed \/ Abort \/ Freeze \/ Pair \/ UNCHANGED vars
  BY <1>1, <1>5 DEF Interrupt, Disturbed, Abort, Freeze, Pair, vars
<1> QED
  BY <1>2, <1>3, <1>4, <1>5, BeginInPool, GoneInPool DEF Next

\* Whoever sends, gives up, is killed or replaced: the target admits
\* max_requests checks at a time, and what it holds is counted until answered.
THEOREM TargetIsAPool == Spec => PoolSpec
<1>1. Init => Target!Init
  <2> SUFFICES ASSUME Init PROVE Active = 0
    BY DEF Target!Init
  <2>1. Held = {} /\ git = "idle" /\ Strays = 0 /\ Orphans = 0
    BY DEF Init, InitGate, Held, Strays, Orphans
  <2>2. Cardinality(Held) = 0
    BY <2>1, FS_EmptySet
  <2> QED
    BY <2>1, <2>2 DEF Active
<1> QED
  BY <1>1, PoolStep, Invariance, PTL DEF Spec, PoolSpec, Target!Spec
----------------------------------------------------------------

-----------------------------------------------------------------------------
(* The work of a run.                                                      *)

\* What is left is never negative.
LEMMA LeftIsNat ==
  ASSUME IInv
  PROVE  GitLeft \in Nat /\ \A o \in Ops : ClientLeft(o) \in Nat
<1>1. gitLeft \in Nat /\ limit \in Nat
  BY DEF IInv, GateType
<1>2. ASSUME NEW o \in Ops PROVE ClientLeft(o) \in Nat
  <2>1. tries[o] \in Nat /\ tries[o] <= limit
    BY DEF IInv, GateType, PlanInv
  <2>2. 3 * (limit - tries[o]) \in Nat
    BY <1>1, <2>1
  <2> QED
    BY <2>2 DEF ClientLeft
<1> QED
  BY <1>1, <1>2 DEF GitLeft

\* The clients are as far as they were.
LEMMA ClientsStay ==
  ASSUME IInv, UNCHANGED <<limit, stage, tries>>
  PROVE  \A o \in Ops : ClientLeft(o)' \in 0 .. ClientLeft(o)
<1>1. \A o \in Ops : ClientLeft(o)' = ClientLeft(o)
  BY DEF ClientLeft
<1> QED
  BY <1>1, LeftIsNat

\* So is the Git read.
LEMMA GitStays == ASSUME IInv, UNCHANGED <<git, gitLeft>> PROVE GitLeft' \in 0 .. GitLeft
<1>1. GitLeft' = GitLeft
  BY DEF GitLeft
<1> QED
  BY <1>1, LeftIsNat

\* An operation that is on its way to its last answer has less to do, the others
\* as much as before.
LEMMA ClientGoes ==
  ASSUME IInv, IInv', NEW o \in Ops, limit' = limit,
         NEW s \in Places, stage' = [stage EXCEPT ![o] = s],
         NEW n \in 0..2, tries' = [tries EXCEPT ![o] = n],
         \/ stage[o] \in {"planned", "ready"} /\ s \in {"held", "ready", "done"} /\ n = tries[o] + 1
         \/ stage[o] = "held" /\ s \in {"lost", "ready", "done"} /\ n = tries[o]
         \/ stage[o] = "lost" /\ s \in {"ready", "done"} /\ n = tries[o]
  PROVE  /\ ClientLeft(o)' < ClientLeft(o)
         /\ \A q \in Ops : ClientLeft(q)' \in 0 .. ClientLeft(q)
<1>1. /\ limit \in 1..2 /\ tries[o] \in 0..2 /\ tries[o] <= limit /\ n <= limit
      /\ stage'[o] = s /\ tries'[o] = n
      /\ stage[o] \in {"planned", "ready"} => tries[o] < limit
      /\ s = "ready" => n < limit
  BY DEF IInv, GateType, PlanInv
<1>2. ClientLeft(o) = (IF stage[o] \in {"planned", "ready"} THEN 3 * (limit - tries[o])
                       ELSE IF stage[o] = "held" THEN 3 * (limit - tries[o]) + 2 ELSE 3 * (limit - tries[o]) + 1)
  BY DEF ClientLeft
<1>3. ClientLeft(o)' = (IF s = "ready" THEN 3 * (limit - n) ELSE IF s = "held" THEN 3 * (limit - n) + 2
                        ELSE IF s = "lost" THEN 3 * (limit - n) + 1 ELSE 0)
  BY <1>1 DEF ClientLeft
<1>4. ClientLeft(o)' < ClientLeft(o) /\ ClientLeft(o)' \in Nat
  BY <1>1, <1>2, <1>3
<1>5. ASSUME NEW q \in Ops, q # o PROVE ClientLeft(q)' = ClientLeft(q)
  <2>1. stage'[q] = stage[q] /\ tries'[q] = tries[q]
    BY <1>5 DEF IInv, GateType
  <2> QED
    BY <2>1 DEF ClientLeft
<1> QED
  BY <1>4, <1>5, LeftIsNat

\* Every step of a client is one of those its operation has left.
LEMMA ClientStepGoes ==
  ASSUME IInv, IInv', NEW o \in Ops, Send(o) \/ Answer(o) \/ Lost(o)
  PROVE  Shrinks /\ \A q \in Ops : ClientLeft(q)' \in 0 .. ClientLeft(q)
<1>1. limit' = limit /\ tries[o] \in 0..2 /\ tries \in [Ops -> 0..2]
  BY DEF Send, Answer, Lost, IInv, GateType
<1>2. CASE Send(o)
  <2>1. stage[o] \in {"planned", "ready"} /\ tries' = [tries EXCEPT ![o] = tries[o] + 1]
    BY <1>2 DEF Send, MayStart
  <2>2. PICK s \in {"held", "ready", "done"} : stage' = [stage EXCEPT ![o] = s]
    BY <1>2 DEF Send, Fail
  <2>3. tries[o] + 1 \in 0..2
    BY <1>1, <2>1 DEF IInv, PlanInv, GateType
  <2> QED
    BY <1>1, <2>1, <2>2, <2>3, ClientGoes DEF Shrinks
<1>3. CASE Answer(o)
  <2>1. stage[o] = "held" /\ tries' = [tries EXCEPT ![o] = tries[o]]
    BY <1>1, <1>3 DEF Answer
  <2>2. PICK s \in {"ready", "done"} : stage' = [stage EXCEPT ![o] = s]
    BY <1>3 DEF Answer, Fail
  <2> QED
    BY <1>1, <2>1, <2>2, ClientGoes DEF Shrinks
<1>4. CASE Lost(o)
  <2>1. stage[o] = "lost" /\ tries' = [tries EXCEPT ![o] = tries[o]]
    BY <1>1, <1>4 DEF Lost
  <2>2. PICK s \in {"ready", "done"} : stage' = [stage EXCEPT ![o] = s]
    BY <1>4 DEF Lost, Fail
  <2> QED
    BY <1>1, <2>1, <2>2, ClientGoes DEF Shrinks
<1> QED
  BY <1>2, <1>3, <1>4

\* The Git read has its checks to send, one after the other.
LEMMA GitReadGoes == ASSUME IInv, IInv', GitRead PROVE GitLeft' < GitLeft /\ GitLeft' \in 0 .. GitLeft
<1>1. gitLeft \in Nat /\ gitLeft' \in Nat /\ (git = "ready" => gitLeft > 0) /\ (git' = "ready" => gitLeft' > 0)
  BY DEF IInv, GateType, PlanInv
<1>2. \/ git = "ready" /\ git' = "held" /\ gitLeft' = gitLeft - 1
      \/ git \in {"ready", "lost"} /\ git' = "idle" /\ gitLeft' = gitLeft
      \/ git = "held" /\ git' \in {"idle", "ready"} /\ gitLeft' = gitLeft
  BY DEF GitRead
<1> QED
  BY <1>1, <1>2 DEF GitLeft

\* A HAProxy that goes takes the checks it has sent on from their senders.
LEMMA ReplaceGoes == ASSUME IInv, IInv', Replace PROVE WaveGoesOn
<1>1. PlaceLeft' = PlaceLeft
  BY DEF Replace, PlaceLeft
<1>2. ASSUME NEW o \in Ops
      PROVE  /\ ClientLeft(o)' \in 0 .. ClientLeft(o)
             /\ stage[o] = "held" => ClientLeft(o)' < ClientLeft(o)
  <2>1. /\ limit' = limit /\ tries' = tries /\ stage[o] \in Places
        /\ stage'[o] = IF stage[o] = "held" THEN "lost" ELSE stage[o]
    BY DEF Replace, IInv, GateType
  <2>2. CASE stage[o] = "held"
    <3>1. 3 * (limit - tries[o]) \in Nat
      BY DEF IInv, GateType, PlanInv
    <3>2. ClientLeft(o) = 3 * (limit - tries[o]) + 2 /\ ClientLeft(o)' = 3 * (limit - tries[o]) + 1
      BY <2>1, <2>2 DEF ClientLeft
    <3> QED
      BY <3>1, <3>2
  <2>3. CASE stage[o] # "held"
    <3>1. ClientLeft(o)' = ClientLeft(o)
      BY <2>1, <2>3 DEF ClientLeft
    <3> QED
      BY <2>3, <3>1, LeftIsNat
  <2> QED
    BY <2>2, <2>3
<1>3. gitLeft' = gitLeft /\ git' = (IF git = "held" THEN "lost" ELSE git) /\ gitLeft \in Nat
  BY DEF Replace, IInv, GateType
<1>4. GitLeft' \in 0 .. GitLeft /\ (git = "held" => GitLeft' < GitLeft)
  BY <1>3 DEF GitLeft, IInv, GateType
<1>5. CASE git = "held" \/ \E o \in Ops : stage[o] = "held"
  BY <1>1, <1>2, <1>4, <1>5 DEF WaveGoesOn, Shrinks
<1>6. CASE git # "held" /\ \A o \in Ops : stage[o] # "held"
  <2>1. stage' = stage /\ git' = git
    BY <1>3, <1>6 DEF Replace, IInv, GateType
  <2>2. UNCHANGED <<harness, pc, phase, limit, wave, raised, stop, monitor, workVars>>
    BY <2>1 DEF Replace
  <2> QED
    BY <1>1, <1>2, <1>4, <2>2 DEF WaveGoesOn
<1> QED
  BY <1>5, <1>6

\* A run goes forward from place to place, whatever its waves come to.
LEMMA PlaceGoes ==
  ASSUME IInv, IInv', pc \in Running,
         \/ BeforeLogs \/ BeforeCounters \/ Submit \/ WaveEnd \/ Join \/ Settle \/ AfterCounters \/ AfterLogs
         \/ Interrupt \/ Abort \/ Kill
  PROVE  PlaceLeft' < PlaceLeft
<1> DEFINE W == WaveCount
<1>1. W \in Nat /\ wave \in Nat /\ wave' \in Nat /\ wave <= W
  BY DEF IInv, RunType
<1>2. W' = W
  BY DEF BeforeLogs, BeforeCounters, Submit, WaveEnd, Join, Settle, AfterCounters, AfterLogs, Interrupt, Abort, Kill
<1>3. PlaceLeft = (CASE pc = "logs" -> 2 * W + 7 [] pc = "counters" -> 2 * W + 6
        [] pc = "work" -> 2 * (W - wave) + 6 [] pc = "wave" -> 2 * (W - wave) + 5
        [] pc = "join" -> 4 [] pc = "settle" -> 3 [] pc = "after" -> 2 [] pc = "path" -> 1
        [] OTHER -> 0)
  BY DEF PlaceLeft
<1>4. PlaceLeft' = (CASE pc' = "logs" -> 2 * W + 7 [] pc' = "counters" -> 2 * W + 6
        [] pc' = "work" -> 2 * (W - wave') + 6 [] pc' = "wave" -> 2 * (W - wave') + 5
        [] pc' = "join" -> 4 [] pc' = "settle" -> 3 [] pc' = "after" -> 2 [] pc' = "path" -> 1
        [] OTHER -> 0)
  BY <1>2 DEF PlaceLeft
<1>5. \/ pc = "logs" /\ pc' = "counters"
      \/ pc = "counters" /\ pc' = "wave" /\ wave = 0 /\ wave' = wave
      \/ pc = "wave" /\ pc' = "work" /\ wave' = wave + 1
      \/ pc = "work" /\ pc' = "wave" /\ wave' = wave
      \/ pc \in {"wave", "work"} /\ pc' = "join"
      \/ pc = "join" /\ pc' = "settle"
      \/ pc = "settle" /\ pc' = "after"
      \/ pc = "after" /\ pc' = "path"
      \/ pc' \in {"judge", "ready", "ended"}
  BY DEF BeforeLogs, BeforeCounters, Submit, WaveEnd, Leave, Join, Settle, AfterCounters, AfterLogs, Interrupt,
     Abort, Kill, Over, Quit, IInv, PlanInv
<1> HIDE DEF W
<1> QED
  BY <1>1, <1>3, <1>4, <1>5

\* The work of a run is bounded, whatever the gate answers, others send and the
\* environment does: operation() gives up after max_attempts, a Git read has so
\* many checks, and measure() goes through its waves and places once.
THEOREM RunIsFinite == Spec => FiniteRun
<1>1. ASSUME IInv, IInv', Next, pc \in Running
      PROVE  PlaceLeft' < PlaceLeft \/ WaveGoesOn
  <2>0. ASSUME UNCHANGED <<harness, pc, wave>> PROVE PlaceLeft' = PlaceLeft
    BY <2>0 DEF PlaceLeft
  <2>1. CASE Work
    <3>1. UNCHANGED <<harness, pc, wave>>
      BY <2>1 DEF Work
    <3>2. ASSUME NEW o \in Ops, Send(o) \/ Answer(o) \/ Lost(o) PROVE WaveGoesOn
      <4>1. UNCHANGED <<git, gitLeft>>
        BY <3>2 DEF Send, Answer, Lost
      <4> QED
        BY <1>1, <2>0, <3>1, <3>2, <4>1, ClientStepGoes, GitStays DEF WaveGoesOn
    <3>3. ASSUME GitRead PROVE WaveGoesOn
      <4>1. UNCHANGED <<limit, stage, tries>>
        BY <3>3 DEF GitRead
      <4> QED
        BY <1>1, <2>0, <3>1, <3>3, <4>1, GitReadGoes, ClientsStay DEF WaveGoesOn, Shrinks
    <3> QED
      BY <2>1, <3>2, <3>3 DEF Work, ClientStep
  <2>2. ASSUME UNCHANGED <<harness, pc, phase, limit, wave, raised, stop, workVars>>,
               monitor' = monitor \/ monitor = "running"
        PROVE  WaveGoesOn
    <3>1. PlaceLeft' = PlaceLeft
      BY <2>0, <2>2
    <3> QED
      BY <1>1, <2>2, <3>1, ClientsStay, GitStays DEF WaveGoesOn, Shrinks
  <2>3. CASE Environment
    BY <2>2, <2>3 DEF Environment, GateStep, Foreign, Release, LateRow
  <2>4. CASE Disturbed \/ MonitorEnd
    BY <2>2, <2>4 DEF Disturbed, MonitorEnd
  <2>5. CASE Replace
    BY <1>1, <2>5, ReplaceGoes
  <2>6. CASE (\E p \in Phases : Begin(p)) \/ Judge \/ Freeze \/ Pair
    BY <1>1, <2>6 DEF Begin, Judge, Freeze, Pair
  <2> QED
    BY <1>1, <2>1, <2>3, <2>4, <2>5, <2>6, PlaceGoes DEF Next, Measure
<1>2. IInv /\ IInv' /\ [Next]_vars => [(pc \in Running) => PlaceLeft' < PlaceLeft \/ WaveGoesOn]_vars
  BY <1>1
<1> QED
  BY <1>2, Invariance, PTL DEF Spec, FiniteRun

\* The monitors of a run are told to stop before they are waited for, unless it
\* was interrupted before its load.
MoveInv ==
  /\ pc = "work" => wave > 0
  /\ pc \in {"wave", "work", "join"} => monitor # "off"
  /\ stop \in {"clear", "set"}
  /\ pc = "join" => stop = "set" \/ (raised = "yes" /\ wave = 0)

\* Every step keeps MoveInv.
LEMMA MoveStep == IInv /\ MoveInv /\ [Next]_vars => MoveInv'
<1> SUFFICES ASSUME IInv, MoveInv, [Next]_vars PROVE MoveInv'
  OBVIOUS
<1> USE DEF MoveInv, Quit, Over
<1>0. wave \in Nat
  BY DEF IInv, RunType
<1>1. CASE \E p \in Phases : Begin(p)
  BY <1>1 DEF Begin
<1>2. CASE Work \/ Environment
  BY <1>2 DEF Work, Environment
<1>3. CASE Measure
  BY <1>0, <1>3 DEF Measure, BeforeLogs, BeforeCounters, Submit, WaveEnd, MonitorEnd, Join, Settle, AfterCounters,
     AfterLogs, Judge, Accept, Leave, StopMonitors
<1>4. CASE Interrupt \/ Disturbed \/ Abort \/ Kill \/ Freeze \/ Pair \/ Replace
  BY <1>4 DEF Interrupt, Disturbed, Abort, Kill, Freeze, Pair, Replace, Leave, StopMonitors
<1>5. CASE UNCHANGED vars
  BY <1>5 DEF vars
<1> QED
  BY <1>1, <1>2, <1>3, <1>4, <1>5 DEF Next

\* Among the operations that wait for a thread there is a first one.
LEMMA FirstInLine ==
  ASSUME NEW Q \in SUBSET Ops, Q # {}
  PROVE  \E n \in Q : \A m \in Q : n <= m
<1>1. Q \subseteq Nat
  BY DEF Ops
<1>2. PICK n \in Q : \A m \in Q : ~(<<m, n>> \in OpToRel(<, Nat))
  BY <1>1, NatLessThanWellFounded, WFMin
<1>3. \A m \in Q : ~(m < n)
  BY <1>1, <1>2 DEF OpToRel
<1> QED
  BY <1>1, <1>3

\* While a wave is not done one of its clients goes on.
LEMMA SomeClientMoves == ASSUME IInv, ~WorkDone PROVE ClientMoves
<1> SUFFICES ASSUME git = "idle", \A o \in Ops : stage[o] \notin {"ready", "held", "lost"}
             PROVE  \E o \in Ops : MayStart(o)
  BY DEF ClientMoves
<1> DEFINE Q == {o \in Ops : stage[o] = "planned"}
<1>1. Q \in SUBSET Ops /\ Q # {}
  BY DEF WorkDone, IInv, GateType
<1>2. PICK n \in Q : \A m \in Q : n <= m
  BY <1>1, FirstInLine
<1>3. Cardinality(Busy) < Concurrency
  <2>1. Busy = {}
    BY DEF Busy, IInv, GateType
  <2>2. Cardinality(Busy) = 0
    BY <2>1, FS_EmptySet
  <2> QED
    BY <2>2
<1> QED
  BY <1>2, <1>3 DEF MayStart

\* From its load to its end a run never stands still: with RunIsFinite, its
\* clients, its Git read and its monitors come to their ends and it is concluded.
\* The exception is NeverStarted, an interrupt before there was any load.
THEOREM RunNeverStands == Spec => []RunMoves
<1>1. IInv /\ MoveInv => RunMoves
  <2> SUFFICES ASSUME IInv, MoveInv, pc \in {"work", "join"}, WorkDone
               PROVE  \/ pc = "work" /\ WorkDone /\ (P4 => wave = WaveCount)
                      \/ pc = "join" /\ WorkDone /\ stop = "set" /\ monitor \in {"ended", "broken"}
                      \/ monitor = "running" /\ stop = "set"
                      \/ NeverStarted
    BY SomeClientMoves DEF RunMoves
  <2>1. CASE pc = "work"
    BY <2>1 DEF MoveInv, IInv, RunType
  <2>2. CASE pc = "join"
    BY <2>2 DEF MoveInv, IInv, RunType, NeverStarted
  <2> QED
    BY <2>1, <2>2
<1>2. Init => MoveInv
  BY DEF Init, MoveInv
<1> QED
  BY <1>1, <1>2, MoveStep, Invariance, PTL DEF Spec

\* While it lasts a run shares the target as a pool, has a bounded amount of work
\* and goes on with it until it is concluded, or until it is NeverStarted.
THEOREM RunsKeepContract == Spec => RunContract
BY TargetIsAPool, RunIsFinite, RunNeverStands, PTL DEF RunContract
=============================================================================
