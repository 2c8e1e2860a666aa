------------------------------ MODULE SharedGate ------------------------------
(***************************************************************************)
(* The shared authorization gate under load, and what is recorded of it.   *)
(*                                                                         *)
(*   clients   the operations of scripts/shared-gate-saturation.py and     *)
(*             scripts/azure-cascade.py: an HTTP read, retried at once     *)
(*             after any failure, and the Git read of a cascade wave       *)
(*   gate      the ingress sends one check of a request through HAProxy    *)
(*             to the target; its sidecar admits Capacity checks at a time *)
(*             and rejects the others before cmd/ext-authz-sim sees them.  *)
(*             The ingress waits 5 s for the answer, less than its client: *)
(*             then it denies the request, and the target keeps the check  *)
(*   records   the client rows, the counters of sidecar and HAProxy, and   *)
(*             the access logs; counters and logs are read at different    *)
(*             moments, so what happens in between is in one of them only  *)
(***************************************************************************)
EXTENDS Integers, FiniteSets

CONSTANTS
  LogicalOps,   \* logical operations of one wave
  Concurrency,  \* client threads
  Capacity,     \* max_requests
  GitChecks,    \* checks one Git read sends at most
  Faults        \* bound on the disturbances of one run

Ops == 1 .. LogicalOps

ASSUME GateAssumption ==
  /\ LogicalOps \in Nat /\ Capacity \in Nat \ {0} /\ GitChecks \in Nat \ {0}
  /\ Concurrency \in Nat /\ Capacity < Concurrency /\ Concurrency <= LogicalOps
  /\ Faults \in Nat

VARIABLES
  limit,      \* max_attempts of the run
  stage,      \* stage[o]: "idle" between waves, then up to "done"; "held" at the app
  tries,      \* tries[o]: attempts of the operation started
  git,        \* the Git read: "idle", "ready", "held" or "lost"
  gitLeft,    \* checks it may still send
  left,       \* checks at the app that nobody of this run waits for: its own and
              \* others, and of both those that the HAProxy Pod is cut off from
  late,       \* "row" while the row of an earlier run is written but not flushed
  recording,  \* "none", "logs" or "both": what is between its two readings
  counters,   \* sidecar: overflow, total; HAProxy: dispatched, and aborts (cli_abrt)
  logs,       \* rows of the app (checks; strange: not of the run), of the sidecar
              \* (served, refused) and of the ingress (unmapped: another failure)
  client,     \* attempt rows: sent, failed with a status, failed otherwise
  truth,      \* Issue attempts the pool refused and those not sent on to it; checks
              \* of the run it granted; ingress rows missed at the last reading
  faults      \* disturbances of this run

workVars == <<stage, tries, git, gitLeft>>
loadVars == <<limit, workVars, left, late>>
recordVars == <<recording, counters, logs, client, truth, faults>>
gateVars == <<loadVars, recordVars>>

NoCounters == [overflow |-> 0, total |-> 0, dispatched |-> 0, aborts |-> 0]
NoRows == [checks |-> 0, strange |-> 0, served |-> 0, refused |-> 0, ingress |-> 0, unmapped |-> 0]
NoAttempts == [sent |-> 0, failed |-> 0, odd |-> 0]
NoTruth == [refused |-> 0, unsent |-> 0, granted |-> 0, missed |-> 0]

InitGate ==
  /\ limit = 1
  /\ stage = [o \in Ops |-> "idle"] /\ tries = [o \in Ops |-> 0]
  /\ git = "idle" /\ gitLeft = 0
  /\ left = [own |-> 0, other |-> 0, cutOwn |-> 0, cutOther |-> 0]
  /\ late = "none" /\ recording = "none"
  /\ counters = NoCounters /\ logs = NoRows /\ client = NoAttempts /\ truth = NoTruth
  /\ faults = 0

Held == {o \in Ops : stage[o] = "held"}
Strays == left.other + left.cutOther
Orphans == left.own + left.cutOwn
Active == Cardinality(Held) + (IF git = "held" THEN 1 ELSE 0) + Strays + Orphans
Busy == {o \in Ops : stage[o] \notin {"idle", "planned", "done"}}
WorkDone == git = "idle" /\ \A o \in Ops : stage[o] \in {"idle", "done"}

\* A run that is going to fail keeps no record.
Disturb == faults < Faults /\ faults' = IF recording = "none" THEN faults ELSE faults + 1
Calm == UNCHANGED faults

-----------------------------------------------------------------------------
(* What one check leaves in the records.                                   *)

Counted(c) == counters' = IF recording = "both" THEN c ELSE counters
Logged(l) == logs' = IF recording # "none" THEN l ELSE logs

\* upstream_rq_total, before the app answers.
Admitted == Counted([counters EXCEPT !.total = @ + 1]) /\ UNCHANGED logs

\* CheckHandler.check() writes its row and answers, and the sidecar logs its own.
Row(l) == [l EXCEPT !.checks = @ + 1, !.served = @ + 1]
Strange(l) == [l EXCEPT !.strange = @ + 1]

\* HAProxy counts the answer and the ingress logs what it has sent its client.
Served(l) ==
  /\ Counted([counters EXCEPT !.dispatched = @ + 1])
  /\ Logged([Row(l) EXCEPT !.ingress = @ + 1])

\* HAProxy counts an answer that its client, the ingress, does not take any more.
Aborted == Counted([counters EXCEPT !.dispatched = @ + 1, !.aborts = @ + 1])

\* upstream_rq_active_overflow and a 503 that the app has no row of.
Refused ==
  /\ Counted([counters EXCEPT !.overflow = @ + 1, !.dispatched = @ + 1])
  /\ Logged([logs EXCEPT !.refused = @ + 1, !.ingress = @ + 1])

\* The ingress denies a request without an answer to its check: ext_authz_error,
\* as after a refusal; Unmapped when its row says something else.
Denied(l) == UNCHANGED counters /\ Logged([l EXCEPT !.ingress = @ + 1])
Unmapped(l) == [l EXCEPT !.unmapped = @ + 1]

Unrecorded == UNCHANGED <<counters, logs>>

Noted(c) == client' = IF recording = "both" THEN c ELSE client
Known(t) == truth' = IF recording = "both" THEN t ELSE truth

-----------------------------------------------------------------------------
(* The clients: operation(), and git_read() of a cascade.                  *)

\* The n-th attempt ends without the expected answer.
RetryWithoutLimit(n) == n <= limit  \* mutant: one attempt more than max_attempts
MayRetry(n) == n < limit
Fail(o, n) == stage' = [stage EXCEPT ![o] = IF MayRetry(n) THEN "ready" ELSE "done"]

\* A free thread takes the operation that was submitted first.
MayStart(o) ==
  /\ stage[o] = "planned" /\ Cardinality(Busy) < Concurrency
  /\ \A q \in Ops : stage[q] = "planned" => o <= q

Send(o) ==
  /\ stage[o] = "ready" \/ MayStart(o)
  /\ tries' = [tries EXCEPT ![o] = @ + 1]
  /\ \/ /\ Active < Capacity /\ Calm /\ Admitted
        /\ stage' = [stage EXCEPT ![o] = "held"]
        /\ Noted([client EXCEPT !.sent = @ + 1])
        /\ Known([truth EXCEPT !.granted = @ + 1])
     \/ /\ Active >= Capacity /\ Calm /\ Refused /\ Fail(o, tries'[o])
        /\ Noted([client EXCEPT !.sent = @ + 1, !.failed = @ + 1])
        /\ Known([truth EXCEPT !.refused = @ + 1])
     \* the ingress cannot send the check on, and denies the request
     \/ /\ Disturb /\ Denied(logs) /\ Fail(o, tries'[o])
        /\ Noted([client EXCEPT !.sent = @ + 1, !.failed = @ + 1])
        /\ Known([truth EXCEPT !.unsent = @ + 1])
     \* the request does not reach the ingress
     \/ /\ Disturb /\ Unrecorded /\ Fail(o, tries'[o])
        /\ Noted([client EXCEPT !.sent = @ + 1, !.odd = @ + 1])
        /\ UNCHANGED truth
  /\ UNCHANGED <<limit, git, gitLeft, left, late, recording>>

Answer(o) ==
  /\ stage[o] = "held"
  /\ \/ /\ Calm /\ Served(logs)
        /\ stage' = [stage EXCEPT ![o] = "done"]
        /\ UNCHANGED <<client, left>>
     \* the check passes, and Forgejo answers with another status
     \/ /\ Disturb /\ Served(Unmapped(logs)) /\ Fail(o, tries[o])
        /\ Noted([client EXCEPT !.failed = @ + 1]) /\ UNCHANGED left
     \* the ingress gives up after the timeout of its provider
     \/ /\ Disturb /\ Denied(logs) /\ Fail(o, tries[o])
        /\ Noted([client EXCEPT !.failed = @ + 1])
        /\ left' = [left EXCEPT !.own = @ + 1]
     \* the connection of the client breaks
     \/ /\ Disturb /\ Denied(Unmapped(logs)) /\ Fail(o, tries[o])
        /\ Noted([client EXCEPT !.odd = @ + 1])
        /\ left' = [left EXCEPT !.own = @ + 1]
  /\ UNCHANGED <<limit, tries, git, gitLeft, late, recording, truth>>

\* The Pod that has sent the check on is gone, and the ingress denies the request.
Lost(o) ==
  /\ stage[o] = "lost" /\ Denied(logs) /\ Fail(o, tries[o])
  /\ Noted([client EXCEPT !.failed = @ + 1])
  /\ UNCHANGED <<limit, tries, git, gitLeft, left, late, recording, truth, faults>>

\* A Git read is over with its first request that fails; no client row judges it.
GitRead ==
  /\ \/ /\ git = "ready" /\ Active < Capacity /\ Calm /\ Admitted
        /\ git' = "held" /\ gitLeft' = gitLeft - 1
        /\ Known([truth EXCEPT !.granted = @ + 1]) /\ UNCHANGED left
     \/ /\ git = "ready" /\ git' = "idle" /\ UNCHANGED <<gitLeft, truth, left>>
        /\ \/ Active >= Capacity /\ Calm /\ Refused
           \/ Disturb /\ Denied(logs)
     \/ /\ git = "held" /\ Calm /\ Served(logs)
        /\ git' \in {"idle"} \cup {s \in {"ready"} : gitLeft > 0}
        /\ UNCHANGED <<gitLeft, truth, left>>
     \/ /\ git = "held" /\ Disturb /\ git' = "idle" /\ UNCHANGED <<gitLeft, truth>>
        /\ \/ Served(Unmapped(logs)) /\ UNCHANGED left
           \/ /\ \E l \in {logs, Unmapped(logs)} : Denied(l)
              /\ left' = [left EXCEPT !.own = @ + 1]
     \/ /\ git = "lost" /\ Calm /\ Denied(logs)
        /\ git' = "idle" /\ UNCHANGED <<gitLeft, truth, left>>
  /\ UNCHANGED <<limit, stage, tries, late, recording, client>>

-----------------------------------------------------------------------------
(* What else the gate serves.                                              *)

\* A request of somebody else.
Foreign ==
  /\ Disturb
  /\ \/ Active < Capacity /\ Admitted /\ left' = [left EXCEPT !.other = @ + 1]
     \/ Active >= Capacity /\ Refused /\ UNCHANGED left
  /\ UNCHANGED <<limit, workVars, late, recording, client, truth>>

\* The app answers a check that nobody of the run waits for. A HAProxy Pod that
\* is gone counts nothing; the client of another may still be there.
OneLess(k) == left[k] > 0 /\ left' = [left EXCEPT ![k] = @ - 1]

Release ==
  /\ \/ OneLess("own") /\ Aborted /\ Logged(Row(logs))
     \/ OneLess("other") /\ Served(Strange(logs))
     \/ OneLess("other") /\ Aborted /\ Logged(Row(Strange(logs)))
     \/ OneLess("cutOwn") /\ UNCHANGED counters /\ Logged(Row(logs))
     \/ OneLess("cutOther") /\ UNCHANGED counters /\ Logged(Row(Strange(logs)))
  /\ UNCHANGED <<limit, workVars, late, recording, client, truth, faults>>

\* A row that the earlier reading of the logs missed.
ProxyRows == {"served", "refused", "ingress"}

LateRow ==
  /\ late = "row" /\ late' = "none"
  /\ \E r \in ProxyRows : Logged([logs EXCEPT ![r] = @ + 1])
  /\ UNCHANGED <<limit, workVars, left, recording, counters, client, truth, faults>>

ClientStep == \E o \in Ops : Send(o) \/ Answer(o) \/ Lost(o)
GateStep == Foreign \/ Release \/ LateRow
=============================================================================
