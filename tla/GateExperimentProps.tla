------------------------- MODULE GateExperimentProps --------------------------
EXTENDS GateExperiment

\* The counts of a run fit its plan: nothing is attempted more often than
\* max_attempts allows, and nothing is counted that was not sent.
TypeInv ==
  /\ limit \in 1..2 /\ git \in {"idle", "ready", "held", "lost"} /\ gitLeft \in 0..GitChecks
  /\ \A o \in Ops : /\ stage[o] \in {"idle", "planned", "ready", "held", "lost", "done"}
                    /\ tries[o] \in 0..limit
  /\ late \in {"none", "row"} /\ recording \in {"none", "logs", "both"}
  /\ client.sent \in 0..(WaveCount * LogicalOps * limit)
  /\ recording # "none" => client.failed + client.odd <= client.sent
  /\ harness \in Harnesses /\ phase \in Phases /\ wave \in 0..WaveCount
  /\ pc \in Running \cup {"ready", "judge", "freeze", "ended"}
  /\ monitor \in {"off", "running", "broken", "ended"}
  /\ {actual, last, generation} \subseteq 1..Generations /\ frozen \in 0..Generations

JustAccepted == pc = "judge" /\ Valid

\* A run is valid only if every failed attempt of it was rejected by the pool
\* of the target: no check that the ingress gave up or could not send on, no
\* timeout, no answer of Forgejo, and no row of another run or client makes up for
\* one (validate_measurement(), validate_run()). They compare numbers of rows, so
\* this is so if the ingress had written all of its own when they were read.
FailuresAreRejections ==
  JustAccepted =>
    /\ client.odd = 0 /\ client.failed >= truth.refused
    /\ truth.missed = 0 => client.failed = truth.refused

\* A run is valid only if the pool admitted exactly the checks of this run that
\* the application has rows of; what an earlier run left at the gate, or
\* somebody else sent, is not counted.
AdmissionsAreOwn ==
  JustAccepted => counters.total = truth.granted /\ logs.checks = truth.granted

\* A saturation run, which has no other client, attributes every rejection the
\* pool has counted to one attempt, on the same condition.
RejectionsAreOwn == JustAccepted /\ P4 /\ truth.missed = 0 => counters.overflow = truth.refused

\* A run is valid only if its monitors lasted as long as its load.
ValidWasWatched == JustAccepted => monitor = "ended" /\ samples = "good"

\* validate_measurement(), validate_run(): what counts as a valid run is its own
\* load against its own rejections, watched from beginning to end.
ValidRunIsOwn ==
  /\ TypeInv
  /\ FailuresAreRejections
  /\ AdmissionsAreOwn
  /\ RejectionsAreOwn
  /\ ValidWasWatched

\* A result compares two runs on one fixture, the frozen one: the HAProxy it names
\* served both windows from the first reading to the last.
PairedOnOneFixture ==
  paired = "valid" => \A p \in Measured : window[p] = {frozen}

\* validate_measurement(), validate_run(), result() and paired(): what an
\* experiment compares is its own, and was measured on one fixture.
RunsAreComparable == ValidRunIsOwn /\ PairedOnOneFixture

-----------------------------------------------------------------------------
(* One run: what it may do, how long, and that it goes on.                 *)

Target == INSTANCE BoundedPool WITH taken <- Active, Size <- Capacity

\* The target never holds more checks than max_requests allows, and a check
\* that a client, a proxy or a whole process has left behind keeps its place
\* until the app answers: the next run starts with it.
PoolSpec == Target!Spec

\* What measure() has still to do around its waves, an operation in the wave,
\* and the Git read.
PlaceLeft ==
  LET waves == 2 * (WaveCount - wave)
  IN  CASE pc = "logs" -> 2 * WaveCount + 7 [] pc = "counters" -> 2 * WaveCount + 6
        [] pc = "work" -> waves + 6 [] pc = "wave" -> waves + 5
        [] pc = "join" -> 4 [] pc = "settle" -> 3 [] pc = "after" -> 2 [] pc = "path" -> 1
        [] OTHER -> 0
ClientLeft(o) ==
  LET rest == 3 * (limit - tries[o])
  IN  CASE stage[o] \in {"planned", "ready"} -> rest [] stage[o] = "held" -> rest + 2
        [] stage[o] = "lost" -> rest + 1 [] OTHER -> 0
GitLeft ==
  CASE git = "ready" -> 3 * gitLeft [] git = "held" -> 3 * gitLeft + 2
    [] git = "lost" -> 3 * gitLeft + 1 [] OTHER -> 0

(* The work of a run is bounded (measure(), operation() and its retries,    *)
(* git_read()): each of its steps is one of those it has left, in this wave *)
(* or around it, and nothing that others do at the gate adds to them.       *)
Shrinks ==
  \/ \E o \in Ops : ClientLeft(o)' < ClientLeft(o)
  \/ GitLeft' < GitLeft
  \/ monitor = "running" /\ monitor' # "running"
WaveGoesOn ==
  /\ PlaceLeft' = PlaceLeft
  /\ \A o \in Ops : ClientLeft(o)' \in 0 .. ClientLeft(o)
  /\ GitLeft' \in 0 .. GitLeft
  /\ Shrinks \/ UNCHANGED <<harness, pc, phase, limit, wave, raised, stop, monitor, workVars>>
FiniteRun == [][(pc \in Running) => PlaceLeft' < PlaceLeft \/ WaveGoesOn]_vars

\* A process that was interrupted between the start of its threads and the `try`
\* around its load: the threads wait for an event that nobody sets any more, and
\* the process waits for the threads until somebody ends it.
NeverStarted == pc = "join" /\ stop = "clear" /\ raised = "yes" /\ wave = 0

(* A run whose load has started never comes to a standstill before its end: *)
(* a client or the Git read goes on, or the wave is over, or the monitors,  *)
(* which see the event by then, are waited for (the executors of measure()).*)
(* An interrupt before that may leave NeverStarted behind, and nothing else.*)
ClientMoves == git # "idle" \/ \E o \in Ops : stage[o] \in {"ready", "held", "lost"} \/ MayStart(o)
RunMoves ==
  pc \in {"work", "join"} =>
    \/ ClientMoves
    \/ pc = "work" /\ WorkDone /\ (P4 => wave = WaveCount)
    \/ pc = "join" /\ WorkDone /\ stop = "set" /\ monitor \in {"ended", "broken"}
    \/ monitor = "running" /\ stop = "set"
    \/ NeverStarted

\* What a run of either experiment promises while it lasts: the pool is shared,
\* its work is bounded, and after each step it can go on.
RunContract == PoolSpec /\ FiniteRun /\ [][RunMoves']_vars

\* However the load of a run ends, its threads end and the run is concluded;
\* one that is interrupted before it has sent anything may have to be killed.
RunConcludes == []<>(pc \notin Running \/ NeverStarted)
=============================================================================
