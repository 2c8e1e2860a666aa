--------------------------- MODULE IsolationDrive ----------------------------
(***************************************************************************)
(* One measured window of the P10 experiment: drive() of                   *)
(* scripts/critical-bulk-isolation.py with the client and the gated pools  *)
(* of scripts/local-isolation-pair.py.                                     *)
(*                                                                         *)
(*   scheduler  submits every planned arrival at its time, or records it   *)
(*              as not submitted when too many operations are unfinished   *)
(*   workers    one pool for Critical and one for Bulk operations; an      *)
(*              operation is a sequence of HTTP requests, each of which    *)
(*              is one check at a target Pod                               *)
(*   targets    two Pods with a fixed inbound capacity; a check beyond it  *)
(*              is rejected at once, an admitted one is held               *)
(***************************************************************************)
EXTENDS Integers, FiniteSets

CONSTANTS
  N,            \* number of planned arrivals
  Kind,         \* Kind[n]: "critical" or "bulk"
  At,           \* At[n]: planned tick of arrival n
  Duration,     \* duration_seconds: nothing is issued from here on
  Horizon,      \* bound on time; an end at Horizon is past the drain time
  Lag,          \* max_driver_lag_seconds
  Workers,      \* Workers[k]: critical_workers, bulk_workers
  Backlog,      \* unfinished operations that leave an arrival unsubmitted
  MaxAttempts,  \* max_attempts
  Capacity,     \* max_requests of every target
  Faults        \* bound on lost, denied and failed requests of a window

Items == 1 .. N
Classes == {"critical", "bulk"}
Arms == {"shared", "isolated"}
Targets == {"first", "second"}

ASSUME WindowAssumption ==
  /\ N \in Nat \ {0}
  /\ Kind \in [Items -> Classes]
  /\ At \in [Items -> Nat]
  /\ \A m, n \in Items : m <= n => At[m] <= At[n]
  /\ Duration \in Nat /\ Horizon \in Nat /\ Lag \in Nat
  /\ At[N] < Duration /\ Duration < Horizon
  /\ Workers \in [Classes -> Nat \ {0}] /\ Backlog \in Nat \ {0}
  /\ MaxAttempts \in 1..2 /\ Capacity \in Nat \ {0} /\ Faults \in Nat

VARIABLES
  window,    \* "closed", "open" while drive() runs, "done" after its end record
  arm,       \* the topology the targets are arranged in
  now,       \* clock() - origin
  cursor,    \* the arrival the scheduler is at; N + 1 after the last
  stage,     \* stage[n]: where operation n is; a target while it is held there
  part,      \* part[n]: the HTTP request of the attempt n is at
  attempts,  \* attempts[n]: number of attempts started
  row,       \* row[n]: outcome of the terminal row of n, "open" before
  tardy,     \* operations issued later than the allowed lag
  requests,  \* requests[k]: Client.counts
  admitted,  \* admitted[k]: checks of class k a target answered 200
  rejected,  \* rejected[k]: checks of class k a target answered 503
  denials,   \* admitted requests that Forgejo itself answered 403
  orphans    \* orphans[t]: checks held at t whose client has given up

countVars == <<requests, admitted, rejected, denials>>
driveVars == <<now, cursor, stage, part, attempts, row, tardy, countVars, orphans>>
windowVars == <<window, driveVars>>

Outcomes == {"success", "overloaded", "failed", "unsubmitted", "unissued"}
Parts(n) == IF Kind[n] = "bulk" THEN 2 ELSE 1

\* The arms differ in the backend of a class only.
ServesAnyClass(t, k) == TRUE  \* mutant: both classes go to every pool
Serves(t, k) == arm = "shared" \/ (t = "first" <=> k = "critical")

\* Futures that are not done, and those a worker of a pool is busy with.
Unfinished == {n \in Items : stage[n] \notin {"planned", "done"}}
Busy(k) == {n \in Unfinished : Kind[n] = k /\ stage[n] # "queued"}
Active(t) == Cardinality({n \in Items : stage[n] = t}) + orphans[t]

Fresh ==
  /\ now' = 0 /\ cursor' = 1
  /\ stage' = [n \in Items |-> "planned"] /\ part' = [n \in Items |-> 1]
  /\ attempts' = [n \in Items |-> 0] /\ row' = [n \in Items |-> "open"]
  /\ tardy' = {}
  /\ requests' = [k \in Classes |-> 0] /\ admitted' = [k \in Classes |-> 0]
  /\ rejected' = [k \in Classes |-> 0] /\ denials' = 0
  /\ orphans' = [t \in Targets |-> 0]

InitWindow ==
  /\ window = "closed" /\ now = 0 /\ cursor = 1
  /\ stage = [n \in Items |-> "planned"] /\ part = [n \in Items |-> 1]
  /\ attempts = [n \in Items |-> 0] /\ row = [n \in Items |-> "open"]
  /\ tardy = {}
  /\ requests = [k \in Classes |-> 0] /\ admitted = [k \in Classes |-> 0]
  /\ rejected = [k \in Classes |-> 0] /\ denials = 0
  /\ orphans = [t \in Targets |-> 0]

Tick ==
  /\ window = "open" /\ now < Horizon
  /\ now' = now + 1
  /\ UNCHANGED <<window, cursor, stage, part, attempts, row, tardy, countVars, orphans>>

Enter(n, o) ==
  /\ stage' = [stage EXCEPT ![n] = "done"]
  /\ row' = [row EXCEPT ![n] = o]

-----------------------------------------------------------------------------
(* The scheduler.                                                          *)

DropArrival == stage' = [stage EXCEPT ![cursor] = "done"] /\ UNCHANGED row  \* mutant: an arrival over the backlog has no row
LeaveOut == Enter(cursor, "unsubmitted")

\* An arrival never waits for an earlier one to finish.
Arrive ==
  /\ window = "open"
  /\ cursor <= N /\ At[cursor] <= now
  /\ IF Cardinality(Unfinished) >= Backlog
     THEN LeaveOut
     ELSE stage' = [stage EXCEPT ![cursor] = "queued"] /\ UNCHANGED row
  /\ cursor' = cursor + 1
  /\ UNCHANGED <<window, now, part, attempts, tardy, countVars, orphans>>

\* After the last arrival: the rest of the duration, then every future.
End ==
  /\ window = "open"
  /\ cursor > N /\ now >= Duration /\ Unfinished = {}
  /\ window' = "done"
  /\ UNCHANGED driveVars

-----------------------------------------------------------------------------
(* The workers: operation() and the client it calls.                       *)

\* The oldest submitted operation of a class with a free worker.
Take(n) ==
  /\ window = "open"
  /\ stage[n] = "queued"
  /\ \A m \in Items : Kind[m] = Kind[n] /\ stage[m] = "queued" => n <= m
  /\ Cardinality(Busy(Kind[n])) < Workers[Kind[n]]
  /\ IF now < Duration
     THEN /\ stage' = [stage EXCEPT ![n] = "ready"]
          /\ attempts' = [attempts EXCEPT ![n] = 1]
          /\ tardy' = IF now > At[n] + Lag THEN tardy \cup {n} ELSE tardy
          /\ UNCHANGED row
     ELSE Enter(n, "unissued") /\ UNCHANGED <<attempts, tardy>>
  /\ UNCHANGED <<window, now, cursor, part, countVars, orphans>>

MayFail == Cardinality({n \in Items : row[n] = "failed"}) + denials < Faults

\* Only a 403 is an overload, and only an overload is tried again.
RetryAlways(n) ==  \* mutant: max_attempts is not looked at
  /\ attempts' = [attempts EXCEPT ![n] = @ + 1]
  /\ part' = [part EXCEPT ![n] = 1]
  /\ stage' = [stage EXCEPT ![n] = "ready"]
  /\ UNCHANGED row
Overload(n) ==
  IF attempts[n] < MaxAttempts
  THEN /\ attempts' = [attempts EXCEPT ![n] = @ + 1]
       /\ part' = [part EXCEPT ![n] = 1]
       /\ stage' = [stage EXCEPT ![n] = "ready"]
       /\ UNCHANGED row
  ELSE Enter(n, "overloaded") /\ UNCHANGED <<attempts, part>>

\* A request that never reaches the gate.
Lose(n) ==
  /\ MayFail
  /\ Enter(n, "failed")
  /\ UNCHANGED <<part, attempts, admitted, rejected>>

Room(t) == Active(t) < Capacity

\* HAProxy sends the check to the pool of its class, the Service to any Pod.
Check(n, t) ==
  /\ Serves(t, Kind[n])
  /\ IF Room(t)
     THEN /\ stage' = [stage EXCEPT ![n] = t]
          /\ admitted' = [admitted EXCEPT ![Kind[n]] = @ + 1]
          /\ UNCHANGED <<part, attempts, row, rejected>>
     ELSE Overload(n) /\ rejected' = [rejected EXCEPT ![Kind[n]] = @ + 1] /\ UNCHANGED admitted

Request(n) ==
  /\ window = "open"
  /\ stage[n] = "ready"
  /\ requests' = [requests EXCEPT ![Kind[n]] = @ + 1]
  /\ Lose(n) \/ \E t \in Targets : Check(n, t)
  /\ UNCHANGED <<window, now, cursor, tardy, denials, orphans>>

\* The answer to an admitted request: the next request of the operation or its
\* end, a denial by Forgejo that looks like an overload, or a failure, of a
\* client that may leave the check held.
Continue(n) ==
  IF part[n] < Parts(n)
  THEN /\ part' = [part EXCEPT ![n] = @ + 1]
       /\ stage' = [stage EXCEPT ![n] = "ready"]
       /\ UNCHANGED row
  ELSE Enter(n, "success") /\ UNCHANGED part

Answer(n) ==
  /\ window = "open"
  /\ stage[n] \in Targets
  /\ \/ Continue(n) /\ UNCHANGED <<attempts, denials, orphans>>
     \/ MayFail /\ Overload(n) /\ denials' = denials + 1 /\ UNCHANGED orphans
     \/ /\ MayFail /\ Enter(n, "failed")
        /\ orphans' \in {orphans, [orphans EXCEPT ![stage[n]] = @ + 1]}
        /\ UNCHANGED <<part, attempts, denials>>
  /\ UNCHANGED <<window, now, cursor, tardy, requests, admitted, rejected>>

\* A held check ends without anyone waiting for it.
Release(t) ==
  /\ window # "closed"
  /\ orphans[t] > 0
  /\ orphans' = [orphans EXCEPT ![t] = @ - 1]
  /\ UNCHANGED <<window, now, cursor, stage, part, attempts, row, tardy, countVars>>

WindowStep ==
  \/ Tick \/ Arrive \/ End
  \/ \E n \in Items : Take(n) \/ Request(n) \/ Answer(n)
  \/ \E t \in Targets : Release(t)

-----------------------------------------------------------------------------
(* What the saved rows and counters must say.                              *)

Sum(f) == f["critical"] + f["bulk"]
Attempted(k) ==
  LET mine == {n \in Items : Kind[n] = k}
  IN Cardinality({x \in mine \X (1..MaxAttempts) : x[2] <= attempts[x[1]]})

\* window_accounting(): the class rows of the HAProxy ring, the client counts
\* and the ingress log describe the same requests, and every refusal in the
\* ingress log is one of a pool.
IgnoreDenials == Sum(requests) = Sum(admitted) + Sum(rejected)  \* mutant: refusals in the ingress log are not compared
WindowAccounts ==
  /\ Sum(requests) = Sum(admitted) + Sum(rejected)
  /\ denials = 0

\* accounting(): the same by class.
ChecksAccount ==
  /\ \A k \in Classes : requests[k] = admitted[k] + rejected[k]
  /\ requests["critical"] = Attempted("critical")
  /\ requests["bulk"] >= Attempted("bulk")

\* client_report(): every arrival was issued in time and every attempt ended
\* with a success or an overload.
ClientReport ==
  /\ \A n \in Items : row[n] \in {"success", "overloaded"}
  /\ tardy = {}
  /\ now < Horizon
=============================================================================
