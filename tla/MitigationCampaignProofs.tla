----------------------- MODULE MitigationCampaignProofs ---------------------
(***************************************************************************)
(* Proofs about the P9 campaign and its healthy initialization, for any    *)
(* number of invocations, plans, arms and calibrations.                    *)
(***************************************************************************)
EXTENDS MitigationCampaignProps, FiniteSetTheorems, TLAPS

USE MitigationAssumption, InitializationAssumption

-----------------------------------------------------------------------------
(* The healthy initialization.                                             *)

PrepSteps == {"settle", "settleCpu", "baseline", "launch", "journey", "telemetry", "telemetryCpu", "accounting"}

PrepType ==
  /\ prep \in [pc : PrepSteps \cup {"idle"},
               cpu : [history : Nat, recovered : {"yes", "no"}, candidate : Nat,
                      completed : {"yes", "no"}, stamp : Nat, turn : Nat],
               reading : [warnings : Nat, hpa : {"failed", "active"}, turn : Nat]]
  /\ initLedger \subseteq {"intent", "complete"} /\ journey \in [started : Nat, live : {"yes", "no"}]
  /\ cluster \in [hpa : {"failed", "active"}, turn : Nat, warnings : Nat, stamp : Nat,
                  fresh : SUBSET (1 .. Samples)]
  /\ cluster.stamp <= Samples

\* The journey is launched under an intent, of which there is one.
JourneyInv ==
  /\ prep.pc \in {"settle", "settleCpu", "baseline"} => "intent" \notin initLedger
  /\ prep.pc \in {"launch", "journey", "telemetry", "telemetryCpu", "accounting"} => "intent" \in initLedger
  /\ "complete" \in initLedger => "intent" \in initLedger
  /\ "intent" \notin initLedger \/ prep.pc = "launch" => journey.started = 0
  /\ prep.pc \in {"journey", "telemetry", "telemetryCpu", "accounting"} => journey.started = 1
  /\ prep.pc \in {"telemetry", "telemetryCpu", "accounting"} => journey.live = "no"
  /\ journey.started <= 1

\* What CPUStartup remembers is of polls that were positive, and none of them
\* was before the last warning.
SeenInv ==
  /\ seen \subseteq Nat \X (1 .. Samples)
  /\ seen # {} => prep.cpu.recovered = "yes"
  /\ \A x \in seen : x[1] = prep.cpu.history
  /\ prep.cpu.candidate # 0 => \E x \in seen : x[2] = prep.cpu.candidate
  /\ prep.cpu.stamp # 0 => \E x \in seen : x[2] = prep.cpu.stamp
  /\ prep.cpu.completed = "yes" =>
       /\ prep.cpu.recovered = "yes"
       /\ prep.cpu.history = 0 \/ (prep.cpu.candidate # 0 /\ prep.cpu.stamp > prep.cpu.candidate)
  /\ prep.pc = "accounting" =>
       /\ prep.cpu.completed = "yes" /\ prep.reading.warnings = prep.cpu.history
       /\ prep.cpu.stamp # 0

PrepInv == PrepType /\ JourneyInv /\ SeenInv

LEMMA ReadingType ==
  ASSUME PrepType, NEW s \in Readable
  PROVE  s \in Nat
  BY DEF PrepType, Readable

LEMMA CpuStep ==
  ASSUME PrepInv, CpuReading
  PROVE  PrepInv'
<1>1. PICK s \in Readable, quiet \in {"yes", "no"}, apart \in {"yes", "no"}, telemetry \in {"yes", "no"} :
        /\ Accepted(prep.reading, s, quiet)
        /\ prep' = [prep EXCEPT
             !.cpu = Observed(prep.reading, s, quiet, apart),
             !.pc = IF @ = "settleCpu"
                    THEN (IF Observed(prep.reading, s, quiet, apart).completed = "yes"
                             /\ Positive(prep.reading, s, quiet) THEN "baseline" ELSE "settle")
                    ELSE IF (Observed(prep.reading, s, quiet, apart).completed = "yes"
                             /\ Positive(prep.reading, s, quiet)) /\ telemetry = "yes"
                         THEN "accounting" ELSE "telemetry"]
        /\ seen' = IF Recovered(prep.reading, s, quiet) THEN seen \cup {<<prep.reading.warnings, s>>} ELSE seen
  BY Zenon DEF CpuReading
<1> DEFINE r == prep.reading
           cpu == Observed(prep.reading, s, quiet, apart)
<1>2. s \in Nat /\ (Recovered(r, s, quiet) => s \in 1 .. Samples)
  BY <1>1, ReadingType DEF PrepInv, PrepType, Recovered
<1>a. cpu = [history |-> r.warnings,
             recovered |-> IF Recovered(r, s, quiet) THEN "yes" ELSE prep.cpu.recovered,
             completed |-> IF prep.cpu.completed = "yes" \/ Completes(r, s, quiet, apart) THEN "yes" ELSE "no",
             candidate |-> IF \/ prep.cpu.completed = "yes" \/ Completes(r, s, quiet, apart)
                              \/ Stale(r, s, quiet) \/ (Positive(r, s, quiet) /\ Candidate(r) # 0)
                           THEN Candidate(r)
                           ELSE IF Positive(r, s, quiet) THEN s ELSE 0,
             stamp |-> IF Positive(r, s, quiet) THEN s ELSE prep.cpu.stamp,
             turn |-> IF Positive(r, s, quiet) THEN r.turn ELSE prep.cpu.turn]
  BY Zenon DEF Observed, Latches
<1> HIDE DEF cpu
<1>0. /\ cpu.history = r.warnings
      /\ cpu.recovered = IF Recovered(r, s, quiet) THEN "yes" ELSE prep.cpu.recovered
      /\ cpu.completed = IF prep.cpu.completed = "yes" \/ Completes(r, s, quiet, apart) THEN "yes" ELSE "no"
      /\ cpu.stamp = IF Positive(r, s, quiet) THEN s ELSE prep.cpu.stamp
      /\ cpu.turn = IF Positive(r, s, quiet) THEN r.turn ELSE prep.cpu.turn
      /\ \/ cpu.candidate \in {Candidate(r), 0}
         \/ cpu.candidate = s /\ Positive(r, s, quiet)
      /\ cpu.completed = "yes" => cpu.candidate = Candidate(r)
      /\ cpu = [history |-> cpu.history, recovered |-> cpu.recovered, completed |-> cpu.completed,
                candidate |-> cpu.candidate, stamp |-> cpu.stamp, turn |-> cpu.turn]
  BY <1>a
<1>3. cpu \in [history : Nat, recovered : {"yes", "no"}, candidate : Nat,
               completed : {"yes", "no"}, stamp : Nat, turn : Nat]
  <2>1. r.warnings \in Nat /\ r.turn \in Nat /\ Candidate(r) \in Nat /\ prep.cpu.stamp \in Nat
        /\ prep.cpu.turn \in Nat /\ prep.cpu.recovered \in {"yes", "no"}
    BY DEF PrepInv, PrepType, Candidate
  <2>2. /\ cpu.history \in Nat /\ cpu.recovered \in {"yes", "no"} /\ cpu.candidate \in Nat
        /\ cpu.completed \in {"yes", "no"} /\ cpu.stamp \in Nat /\ cpu.turn \in Nat
    BY <1>2, <1>0, <2>1
  <2> QED
    BY <1>0, <2>2
<1>4. prep.pc \in {"settleCpu", "telemetryCpu"} /\ UNCHANGED <<initLedger, journey, cluster>>
  BY DEF CpuReading
<1>5. /\ prep'.cpu = cpu /\ prep'.reading = r
      /\ prep.pc = "settleCpu" => prep'.pc \in {"baseline", "settle"}
      /\ prep.pc = "telemetryCpu" => prep'.pc \in {"accounting", "telemetry"}
      /\ prep'.pc = "accounting" => cpu.completed = "yes" /\ Positive(r, s, quiet)
  BY <1>1, <1>4 DEF PrepInv, PrepType, cpu
<1>6. PrepType'
  BY <1>1, <1>3, <1>4, <1>5 DEF PrepInv, PrepType, PrepSteps
<1>7. JourneyInv'
  BY <1>4, <1>5 DEF PrepInv, JourneyInv
<1>8. SeenInv'
  <2>1. cpu.history = r.warnings /\ (prep.cpu.recovered = "yes" => r.warnings = prep.cpu.history)
    BY <1>1, <1>0 DEF Accepted
  <2>0. r.warnings \in Nat
    BY DEF PrepInv, PrepType
  <2>2. /\ seen' \subseteq Nat \X (1 .. Samples)
        /\ \A x \in seen' : x[1] = cpu.history
        /\ seen' # {} => cpu.recovered = "yes"
        /\ Recovered(r, s, quiet) => \E x \in seen' : x[2] = s
    <3>1. CASE Recovered(r, s, quiet)
      <4>1. seen' = seen \cup {<<r.warnings, s>>} /\ <<r.warnings, s>> \in Nat \X (1 .. Samples)
        BY <1>1, <1>2, <2>0, <3>1
      <4>2. \A x \in seen : x[1] = cpu.history
        BY <2>1 DEF PrepInv, SeenInv
      <4>3. <<r.warnings, s>> \in seen' /\ <<r.warnings, s>>[1] = cpu.history /\ <<r.warnings, s>>[2] = s
        BY <4>1, <2>1
      <4>4. cpu.recovered = "yes"
        BY <1>0, <3>1
      <4> QED
        BY <4>1, <4>2, <4>3, <4>4 DEF PrepInv, SeenInv
    <3>2. CASE ~Recovered(r, s, quiet)
      <4>1. seen' = seen /\ cpu.recovered = prep.cpu.recovered
        BY <1>1, <1>0, <3>2
      <4> QED
        BY <4>1, <2>1, <3>2 DEF PrepInv, SeenInv
    <3> QED
      BY <3>1, <3>2
  <2>3. seen \subseteq seen'
    BY <1>1
  <2>4. Candidate(r) # 0 => \E x \in seen' : x[2] = Candidate(r)
    BY <2>3 DEF PrepInv, SeenInv, Candidate
  <2>5. Positive(r, s, quiet) => Recovered(r, s, quiet)
    BY DEF Positive
  <2>6. cpu.candidate # 0 => \E x \in seen' : x[2] = cpu.candidate
    BY <1>0, <2>2, <2>4, <2>5
  <2>7. cpu.stamp # 0 => \E x \in seen' : x[2] = cpu.stamp
    BY <1>0, <2>2, <2>3, <2>5 DEF PrepInv, SeenInv
  <2>8. cpu.completed = "yes" =>
          /\ cpu.recovered = "yes"
          /\ cpu.history = 0 \/ (cpu.candidate # 0 /\ cpu.stamp > cpu.candidate)
    <3> HAVE cpu.completed = "yes"
    <3>1. CASE prep.cpu.completed = "yes"
      <4>1. prep.cpu.recovered = "yes" /\ r.warnings = prep.cpu.history
        BY <2>1, <3>1 DEF PrepInv, SeenInv
      <4>2. cpu.recovered = "yes" /\ cpu.candidate = prep.cpu.candidate /\ cpu.history = prep.cpu.history
        BY <1>0, <3>1, <4>1 DEF Candidate
      <4>3. cpu.stamp = prep.cpu.stamp \/ (cpu.stamp = s /\ s # 0)
        BY <1>0, <2>5 DEF Recovered, Usable
      <4>4. cpu.stamp >= prep.cpu.stamp
        BY <1>1, <1>2, <4>3 DEF Accepted, Usable, PrepInv, PrepType
      <4> QED
        BY <1>3, <3>1, <4>2, <4>4 DEF PrepInv, PrepType, SeenInv
    <3>2. CASE prep.cpu.completed # "yes"
      <4>1. Completes(r, s, quiet, apart)
        BY <1>0, <3>2
      <4>2. cpu.recovered = "yes" /\ cpu.stamp = s /\ cpu.candidate = Candidate(r)
        BY <1>0, <4>1, <2>5 DEF Completes
      <4> QED
        BY <1>2, <2>1, <4>1, <4>2 DEF Completes
    <3> QED
      BY <3>1, <3>2
  <2>9. Positive(r, s, quiet) => cpu.stamp = s /\ s # 0
    BY <1>0, <2>5 DEF Recovered, Usable
  <2> QED
    BY <1>5, <2>1, <2>2, <2>6, <2>7, <2>8, <2>9 DEF SeenInv
<1> QED
  BY <1>6, <1>7, <1>8 DEF PrepInv

LEMMA PrepStep ==
  ASSUME PrepInv, Initialization
  PROVE  PrepInv'
<1> USE DEF PrepInv, PrepSteps
<1>1. CASE Initialize
  <2>1. /\ prep' = [pc |-> "settle", cpu |-> NoCpu, reading |-> NoReading] /\ seen' = {}
        /\ UNCHANGED <<initLedger, journey>> /\ "intent" \notin initLedger
    BY <1>1 DEF Initialize, NotConsumed, NoPrep
  <2>2. PICK h \in {"failed", "active"}, w \in 0 .. 1, s \in 0 .. 1 :
          cluster' = [NoCluster EXCEPT !.hpa = h, !.warnings = w, !.stamp = s, !.fresh = {1} \cap {s}]
    <3> HIDE DEF PrepInv, PrepSteps
    <3> QED
      BY <1>1 DEF Initialize
  <2>3. PrepType'
    <3> DEFINE T == [hpa : {"failed", "active"}, turn : Nat, warnings : Nat, stamp : Nat, fresh : SUBSET (1 .. Samples)]
    <3>1. NoCluster \in T
      BY DEF NoCluster
    <3>2. {1} \cap {s} \in SUBSET (1 .. Samples) /\ s \in Nat /\ w \in Nat /\ s <= Samples
      BY InitializationAssumption
    <3>3. cluster' \in T /\ cluster'.stamp <= Samples
      <4> HIDE DEF NoCluster
      <4>1. cluster' \in T
        BY <2>2, <3>1, <3>2
      <4>2. cluster'.stamp = s
        BY <2>2, <3>1
      <4> QED
        BY <3>2, <4>1, <4>2
    <3> QED
      BY <2>1, <3>3 DEF PrepType, NoCpu, NoReading
  <2>4. JourneyInv' /\ SeenInv'
    BY <2>1 DEF JourneyInv, SeenInv, NoCpu, NoReading
  <2> QED
    BY <2>3, <2>4
<1>2. CASE SafetyReading
  BY <1>2 DEF SafetyReading, PrepType, JourneyInv, SeenInv
<1>3. CASE Intent \/ Launch \/ JourneyValid
  BY <1>3 DEF Intent, Launch, JourneyValid, Step, PrepType, JourneyInv, SeenInv
<1>4. CASE Complete \/ Abandon
  <2>1. /\ prep' = NoPrep /\ cluster' = NoCluster /\ seen' = {} /\ journey' = journey
        /\ initLedger' = initLedger \/ (initLedger' = initLedger \cup {"complete"} /\ prep.pc = "accounting")
    BY <1>4 DEF Complete, Abandon
  <2>2. PrepType'
    <3>1. NoPrep \in [pc : PrepSteps \cup {"idle"},
               cpu : [history : Nat, recovered : {"yes", "no"}, candidate : Nat,
                      completed : {"yes", "no"}, stamp : Nat, turn : Nat],
               reading : [warnings : Nat, hpa : {"failed", "active"}, turn : Nat]]
      BY DEF NoPrep, NoCpu, NoReading
    <3>2. /\ NoCluster \in [hpa : {"failed", "active"}, turn : Nat, warnings : Nat, stamp : Nat,
                            fresh : SUBSET (1 .. Samples)]
          /\ NoCluster.stamp <= Samples
      BY DEF NoCluster
    <3>3. initLedger' \subseteq {"intent", "complete"} /\ journey' \in [started : Nat, live : {"yes", "no"}]
      BY <2>1 DEF PrepType
    <3>4. prep' = NoPrep /\ cluster' = NoCluster
      BY <2>1
    <3> QED
      BY <3>1, <3>2, <3>3, <3>4 DEF PrepType
  <2>3. JourneyInv' /\ SeenInv'
    BY <2>1 DEF PrepType, JourneyInv, SeenInv, NoPrep, NoCpu, NoReading
  <2> QED
    BY <2>2, <2>3
<1>5. CASE JourneyEnds
  BY <1>5 DEF JourneyEnds, PrepType, JourneyInv, SeenInv
<1>6. CASE Startup
  <2>1. UNCHANGED <<prep, initLedger, journey, seen>>
    BY <1>6 DEF Startup
  <2> DEFINE Type(c) == /\ c \in [hpa : {"failed", "active"}, turn : Nat, warnings : Nat, stamp : Nat,
                                   fresh : SUBSET (1 .. Samples)]
                        /\ c.stamp <= Samples
  <2>0. Type(cluster)
    BY DEF PrepType
  <2>2. Type(cluster')
    <3>1. CASE /\ cluster.stamp < Samples
               /\ cluster' = [cluster EXCEPT !.stamp = @ + 1, !.fresh = @ \cup {cluster.stamp + 1}]
      <4>1. cluster.stamp + 1 \in 1 .. Samples
        BY <2>0, <3>1
      <4>2. cluster' = [hpa |-> cluster.hpa, turn |-> cluster.turn, warnings |-> cluster.warnings,
                       stamp |-> cluster.stamp + 1, fresh |-> cluster.fresh \cup {cluster.stamp + 1}]
        BY <2>0, <3>1
      <4> QED
        BY <2>0, <4>1, <4>2
    <3>2. CASE \E s \in cluster.fresh : cluster' = [cluster EXCEPT !.fresh = @ \ {s}]
      BY <2>0, <3>2
    <3>3. CASE cluster' = [cluster EXCEPT !.warnings = @ + 1, !.hpa = "failed"]
      <4>1. cluster' = [hpa |-> "failed", turn |-> cluster.turn, warnings |-> cluster.warnings + 1,
                       stamp |-> cluster.stamp, fresh |-> cluster.fresh]
        BY <2>0, <3>3
      <4> QED
        BY <2>0, <4>1
    <3>4. CASE cluster' = [cluster EXCEPT !.hpa = "failed"]
      BY <2>0, <3>4
    <3>5. CASE cluster' = [cluster EXCEPT !.hpa = "active", !.turn = @ + 1]
      <4>1. cluster' = [hpa |-> "active", turn |-> cluster.turn + 1, warnings |-> cluster.warnings,
                       stamp |-> cluster.stamp, fresh |-> cluster.fresh]
        BY <2>0, <3>5
      <4> QED
        BY <2>0, <4>1
    <3> HIDE DEF Type
    <3> QED
      BY <1>6, <3>1, <3>2, <3>3, <3>4, <3>5 DEF Startup
  <2> QED
    BY <2>1, <2>2 DEF PrepType, JourneyInv, SeenInv
<1> QED
  BY <1>1, <1>2, <1>3, <1>4, <1>5, <1>6, CpuStep DEF Initialization

LEMMA Initializing ==
  ASSUME PrepInit
  PROVE  PrepInv
  BY DEF PrepInit, PrepInv, PrepType, PrepSteps, JourneyInv, SeenInv, NoPrep, NoCpu, NoReading, NoCluster

-----------------------------------------------------------------------------
(* The campaign.                                                           *)

Running == {"preflight", "drive", "join", "final"}
Stages == {"idle", "gate", "prepare"} \cup Running
RunType ==
  [kind : Kinds \cup {"none"}, plan : Plans \cup {NoOne}, row : Nat,
   demand : {"none", "mitigation", "recovery", "complete", "cut"},
   live : SUBSET {"sentinel", "monitor"}, native : {"unseen", "ok", "denied"},
   monitor : {"idle", "before", "after"}, failed : {"no", "probe", "snapshot", "drift"},
   release : Knobs \cup {"off", "done", "failed"}]
RowType == [kind : Kinds, plan : Plans, result : {"consumed", "valid"}]

CampaignType ==
  /\ pc \in [Processes -> Stages] /\ run \in [Processes -> RunType]
  /\ lock \in Processes \cup {NoOne}
  /\ ledger \in Seq(RowType)
  /\ lifted \subseteq Knobs /\ effective \subseteq Knobs
  /\ frozen \subseteq Plans /\ compared \in Plans \cup {NoOne}

LockInv == \A p \in Processes : lock = p <=> pc[p] # "idle"

\* One run on its own, at stage l with state r.
Flow(l, r) ==
  /\ l \in {"idle", "gate"} => r = NoRun
  /\ l \in {"prepare", "preflight"} => r.demand = "none"
  /\ l = "drive" => r.demand \in {"mitigation", "recovery"}
  /\ l = "join" => r.demand \in {"none", "complete", "cut"}
  /\ l = "final" => r.demand \in {"complete", "cut"} /\ r.live = {} /\ r.release = "done"
  /\ r.release # "off" => l \in {"drive", "join", "final"}
  /\ r.demand \in {"recovery", "complete", "cut"} => r.release # "off"
  /\ r.demand # "none" => r.native # "unseen"
  /\ r.native = "denied" => r.failed # "no"
FlowInv == \A p \in Processes : Flow(pc[p], run[p])

\* A run that was counted has the last row, and only the main thread reviews it.
CountedInv ==
  \A p \in Processes : pc[p] \notin {"idle", "gate"} =>
    /\ run[p].kind \in Kinds /\ run[p].plan \in Plans
    /\ run[p].row = Len(ledger) /\ run[p].row \in DOMAIN ledger
    /\ ledger[run[p].row] = Entry(run[p].kind, run[p].plan)
    /\ pc[p] \in Running => run[p].kind = "calibration" \/ run[p].plan \in frozen

WithinBudget(rows) ==
  /\ Cardinality(Rows(rows, "calibration")) <= Calibrations
  /\ \A a \in Arms : Cardinality(Rows(rows, a)) <= 1
FrozenInv == \A q \in frozen : \E i \in DOMAIN ledger : ValidRun(i, "calibration", q)
MeasuredInv ==
  \A i \in DOMAIN ledger : ledger[i].kind # "calibration" /\ ledger[i].result = "valid" =>
    \E j \in 1 .. i - 1 : ValidRun(j, "calibration", ledger[i].plan)
ComparedInv ==
  compared # NoOne => \A a \in Arms : \E i \in DOMAIN ledger : ValidRun(i, a, compared)
LedgerInv == WithinBudget(ledger) /\ FrozenInv /\ MeasuredInv /\ ComparedInv

IInv == PrepInv /\ CampaignType /\ LockInv /\ FlowInv /\ CountedInv /\ LedgerInv

LEMMA NoRunType == NoRun \in RunType /\ NoOne \notin Processes /\ NoOne \notin Plans
  BY DEF NoRun, RunType, Knobs

\* A step of one run that leaves the ledger alone.
LEMMA RunStep ==
  ASSUME IInv, NEW p \in Processes, NEW l \in Running \cup {"prepare"}, NEW r \in RunType,
         pc[p] \notin {"idle", "gate"},
         pc' = [pc EXCEPT ![p] = l], run' = [run EXCEPT ![p] = r],
         r.kind = run[p].kind, r.plan = run[p].plan, r.row = run[p].row,
         Flow(l, r),
         pc[p] \in Running \/ l = "prepare" \/ r.kind = "calibration" \/ r.plan \in frozen,
         PrepInv', lifted' \subseteq Knobs, effective' \subseteq Knobs,
         UNCHANGED <<lock, ledger, frozen, compared>>
  PROVE  IInv'
<1>1. CampaignType'
  BY DEF IInv, CampaignType, Stages
<1>2. LockInv'
  BY DEF IInv, CampaignType, LockInv, Running
<1>3. FlowInv'
  BY DEF IInv, CampaignType, FlowInv
<1>4. CountedInv'
  <2> SUFFICES ASSUME NEW o \in Processes, pc'[o] \notin {"idle", "gate"}
               PROVE  /\ run'[o].kind \in Kinds /\ run'[o].plan \in Plans
                      /\ run'[o].row = Len(ledger) /\ run'[o].row \in DOMAIN ledger
                      /\ ledger[run'[o].row] = Entry(run'[o].kind, run'[o].plan)
                      /\ pc'[o] \in Running => run'[o].kind = "calibration" \/ run'[o].plan \in frozen
    BY DEF CountedInv, Entry
  <2>1. CASE o = p
    <3>1. pc'[o] = l /\ run'[o] = r
      BY <2>1 DEF IInv, CampaignType
    <3>2. /\ r.kind \in Kinds /\ r.plan \in Plans
          /\ r.row = Len(ledger) /\ r.row \in DOMAIN ledger
          /\ ledger[r.row] = Entry(r.kind, r.plan)
          /\ pc[p] \in Running => r.kind = "calibration" \/ r.plan \in frozen
      BY DEF IInv, CountedInv
    <3>3. l = "prepare" => l \notin Running
      BY DEF Running
    <3> QED
      BY <3>1, <3>2, <3>3
  <2>2. CASE o # p
    <3>1. pc'[o] = pc[o] /\ run'[o] = run[o]
      BY <2>2 DEF IInv, CampaignType
    <3> QED
      BY <3>1 DEF IInv, CountedInv
  <2> QED
    BY <2>1, <2>2
<1>5. LedgerInv'
  BY DEF IInv, LedgerInv, WithinBudget, Rows, FrozenInv, MeasuredInv, ComparedInv, ValidRun
<1> QED
  BY <1>1, <1>2, <1>3, <1>4, <1>5 DEF IInv

\* The end of an invocation, after which its ledger is what it is.
LEMMA LeaveStep ==
  ASSUME IInv, NEW p \in Processes, pc[p] # "idle", Leave(p),
         ledger' \in Seq(RowType), LedgerInv',
         UNCHANGED <<prepVars, faultVars, frozen, compared>>
  PROVE  IInv'
<1>0. lock = p /\ lock' = NoOne /\ \A o \in Processes \ {p} : pc[o] = "idle"
  BY DEF IInv, LockInv, Leave, Unlock
<1>1. pc' = [pc EXCEPT ![p] = "idle"] /\ run' = [run EXCEPT ![p] = NoRun]
  BY DEF Leave, Goto
<1>2. PrepInv'
  BY DEF IInv, PrepInv, PrepType, JourneyInv, SeenInv, prepVars
<1>3. CampaignType'
  BY <1>0, <1>1, NoRunType DEF IInv, CampaignType, Stages, faultVars
<1>4. \A o \in Processes : pc'[o] = "idle"
  BY <1>0, <1>1 DEF IInv, CampaignType
<1>5. LockInv'
  BY <1>0, <1>4, NoRunType DEF LockInv
<1>6. FlowInv'
  <2> SUFFICES ASSUME NEW o \in Processes PROVE Flow(pc'[o], run'[o])
    BY DEF FlowInv
  <2>1. run'[o] = NoRun
    BY <1>0, <1>1 DEF IInv, CampaignType, FlowInv, Flow
  <2> QED
    BY <1>4, <2>1 DEF Flow, NoRun
<1>7. CountedInv'
  BY <1>4 DEF CountedInv
<1> QED
  BY <1>2, <1>3, <1>5, <1>6, <1>7 DEF IInv

LEMMA PrepSame ==
  ASSUME PrepInv, UNCHANGED prepVars
  PROVE  PrepInv'
  BY DEF PrepInv, PrepType, JourneyInv, SeenInv, prepVars

LEMMA LedgerSame ==
  ASSUME LedgerInv, UNCHANGED <<ledger, frozen, compared>>
  PROVE  LedgerInv'
  BY DEF LedgerInv, WithinBudget, Rows, FrozenInv, MeasuredInv, ComparedInv, ValidRun

\* A thread only has a run that was counted.
LEMMA ThreadRuns ==
  ASSUME IInv, NEW p \in Processes,
         run[p].live # {} \/ run[p].monitor # "idle" \/ run[p].release \in Knobs
  PROVE  pc[p] \in Running \cup {"prepare"} /\ run[p] \in RunType /\ Flow(pc[p], run[p])
<1>1. pc[p] \in Stages /\ run[p] \in RunType /\ Flow(pc[p], run[p])
  BY DEF IInv, CampaignType, FlowInv
<1>2. run[p] # NoRun
  BY DEF NoRun, Knobs
<1> QED
  BY <1>1, <1>2 DEF Flow, Stages

LEMMA ThreadStep ==
  ASSUME IInv, NEW p \in Processes, Threads(p)
  PROVE  IInv'
<1>0. PrepInv' /\ UNCHANGED <<pc, lock, ledger, frozen, compared>> /\ effective' \subseteq Knobs
  BY PrepSame DEF Threads, Monitor, Sentinel, SentinelStops, Collect, Collected, Drifted, SnapshotFails,
     MonitorStops, MonitorFails, Release, IInv, CampaignType, faultVars, reportVars
<1>1. pc' = [pc EXCEPT ![p] = pc[p]]
  BY <1>0 DEF IInv, CampaignType
<1>2. CASE Sentinel(p) \/ SentinelStops(p) \/ Monitor(p)
  <2>1. pc[p] \in Running \cup {"prepare"} /\ run[p] \in RunType /\ Flow(pc[p], run[p])
    BY <1>2, ThreadRuns DEF Sentinel, SentinelStops, Monitor, Collect, Collected, Drifted, SnapshotFails,
       MonitorStops
  <2>2. lifted' \subseteq Knobs
    BY <1>2 DEF Sentinel, SentinelStops, Monitor, Collect, Collected, Drifted, SnapshotFails,
       MonitorStops, MonitorFails, faultVars, IInv, CampaignType
  <2>3. \E r \in RunType :
          /\ run' = [run EXCEPT ![p] = r] /\ Flow(pc[p], r)
          /\ r.kind = run[p].kind /\ r.plan = run[p].plan /\ r.row = run[p].row
    <3>1. CASE Sentinel(p)
      <4>0. "sentinel" \in run[p].live
        BY <3>1 DEF Sentinel
      <4>1. CASE run' = [run EXCEPT ![p].native = "ok"]
        <5> DEFINE r == [run[p] EXCEPT !.native = "ok"]
        <5>1. r \in RunType /\ r.kind = run[p].kind /\ r.plan = run[p].plan /\ r.row = run[p].row
          BY <2>1 DEF RunType
        <5>2. Flow(pc[p], r)
          BY <2>1, <4>0 DEF Flow, RunType, NoRun
        <5>3. run' = [run EXCEPT ![p] = r]
          BY <4>1
        <5> QED
          BY <5>1, <5>2, <5>3
      <4>2. CASE run' = [run EXCEPT ![p] = Latch([@ EXCEPT !.native = "denied"], "probe")]
        <5> DEFINE r == Latch([run[p] EXCEPT !.native = "denied"], "probe")
        <5>1. r \in RunType /\ r.kind = run[p].kind /\ r.plan = run[p].plan /\ r.row = run[p].row
          BY <2>1 DEF RunType, Latch
        <5>2. Flow(pc[p], r)
          BY <2>1, <4>0 DEF Flow, RunType, NoRun, Latch
        <5>3. run' = [run EXCEPT ![p] = r]
          BY <4>2
        <5> QED
          BY <5>1, <5>2, <5>3
      <4> QED
        BY <3>1, <4>1, <4>2 DEF Sentinel
    <3>2. CASE SentinelStops(p)
      <4> DEFINE r == [run[p] EXCEPT !.live = @ \ {"sentinel"}]
      <4>1. r \in RunType /\ r.kind = run[p].kind /\ r.plan = run[p].plan /\ r.row = run[p].row
        BY <2>1 DEF RunType
      <4>2. Flow(pc[p], r)
        BY <2>1, <3>2 DEF Flow, RunType, NoRun, SentinelStops, Stopping
      <4>3. run' = [run EXCEPT ![p] = r]
        BY <3>2 DEF SentinelStops
      <4> QED
        BY <4>1, <4>2, <4>3
    <3>3. CASE MonitorStops(p)
      <4> DEFINE r == [run[p] EXCEPT !.live = @ \ {"monitor"}]
      <4>1. r \in RunType /\ r.kind = run[p].kind /\ r.plan = run[p].plan /\ r.row = run[p].row
        BY <2>1 DEF RunType
      <4>2. Flow(pc[p], r)
        BY <2>1, <3>3 DEF Flow, RunType, NoRun, MonitorStops, Stopping
      <4>3. run' = [run EXCEPT ![p] = r]
        BY <3>3 DEF MonitorStops
      <4> QED
        BY <4>1, <4>2, <4>3
    <3>4. CASE Collect(p) \/ Collected(p)
      <4>1. PICK m \in {"idle", "before", "after"} : run' = [run EXCEPT ![p].monitor = m]
        BY <3>4 DEF Collect, Collected
      <4> DEFINE r == [run[p] EXCEPT !.monitor = m]
      <4>2. r \in RunType /\ r.kind = run[p].kind /\ r.plan = run[p].plan /\ r.row = run[p].row
        BY <2>1 DEF RunType
      <4>3. Flow(pc[p], r)
        BY <2>1 DEF Flow, RunType, Running
      <4>4. run' = [run EXCEPT ![p] = r]
        BY <4>1
      <4> QED
        BY <4>2, <4>3, <4>4
    <3>5. CASE Drifted(p) \/ SnapshotFails(p)
      <4>1. PICK c \in {"drift", "snapshot"} : MonitorFails(p, c)
        BY <3>5 DEF Drifted, SnapshotFails
      <4> DEFINE s == [run[p] EXCEPT !.monitor = "idle", !.live = @ \ {"monitor"}]
                 r == Latch(s, c)
      <4>2. r \in RunType /\ r.kind = run[p].kind /\ r.plan = run[p].plan /\ r.row = run[p].row
        <5>1. s \in RunType /\ s.kind = run[p].kind /\ s.plan = run[p].plan /\ s.row = run[p].row
          BY <2>1 DEF RunType
        <5>2. CASE s.failed = "no"
          <6>1. r = [s EXCEPT !.failed = c]
            BY <5>2 DEF Latch
          <6> HIDE DEF s, r
          <6>2. [s EXCEPT !.failed = c] \in RunType
            BY <5>1 DEF RunType
          <6>3. /\ [s EXCEPT !.failed = c].kind = s.kind /\ [s EXCEPT !.failed = c].plan = s.plan
                /\ [s EXCEPT !.failed = c].row = s.row
            BY <5>1 DEF RunType
          <6> QED
            BY <5>1, <6>1, <6>2, <6>3
        <5>3. CASE s.failed # "no"
          BY <5>1, <5>3 DEF Latch
        <5> QED
          BY <5>2, <5>3
      <4>5. /\ r.live \subseteq run[p].live /\ r.demand = run[p].demand /\ r.native = run[p].native
            /\ r.release = run[p].release /\ (run[p].failed # "no" => r.failed # "no")
        <5>1. /\ s.live = run[p].live \ {"monitor"} /\ s.demand = run[p].demand /\ s.native = run[p].native
              /\ s.release = run[p].release /\ s.failed = run[p].failed
          BY <2>1 DEF RunType
        <5>2. CASE s.failed = "no"
          <6>1. r = [s EXCEPT !.failed = c]
            BY <5>2 DEF Latch
          <6>2. /\ r.live = s.live /\ r.demand = s.demand /\ r.native = s.native
                /\ r.release = s.release
            BY <2>1, <6>1 DEF RunType
          <6> QED
            BY <5>1, <5>2, <6>2
        <5>3. CASE s.failed # "no"
          BY <5>1, <5>3 DEF Latch
        <5> QED
          BY <5>2, <5>3
      <4>6. pc[p] \notin {"idle", "gate"}
        BY <2>1 DEF Running
      <4>3. Flow(pc[p], r)
        <5> HIDE DEF r
        <5> QED
          BY <2>1, <4>5, <4>6 DEF Flow
      <4>4. run' = [run EXCEPT ![p] = r]
        BY <4>1 DEF MonitorFails
      <4> QED
        BY <4>2, <4>3, <4>4
    <3> QED
      BY <1>2, <3>1, <3>2, <3>3, <3>4, <3>5 DEF Monitor
  <2> QED
    BY <1>0, <1>1, <2>1, <2>2, <2>3, RunStep DEF Running
<1>3. CASE Release(p)
  <2>0. run[p].release \in Knobs
    BY <1>3 DEF Release
  <2>1. pc[p] \in Running \cup {"prepare"} /\ run[p] \in RunType /\ Flow(pc[p], run[p])
    BY <2>0, ThreadRuns
  <2>2. PICK v \in {"capacity", "done", "failed"} : run' = [run EXCEPT ![p].release = v]
    BY <1>3 DEF Release
  <2>3. lifted' \subseteq Knobs
    BY <1>3 DEF Release, IInv, CampaignType
  <2> DEFINE r == [run[p] EXCEPT !.release = v]
  <2>4. r \in RunType /\ r.kind = run[p].kind /\ r.plan = run[p].plan /\ r.row = run[p].row
    BY <2>1 DEF RunType, Knobs
  <2>5. Flow(pc[p], r)
    BY <2>0, <2>1 DEF Flow, RunType, Knobs, Running
  <2>6. run' = [run EXCEPT ![p] = r]
    BY <2>2
  <2> QED
    BY <1>0, <1>1, <2>1, <2>3, <2>4, <2>5, <2>6, RunStep DEF Running
<1> QED
  BY <1>2, <1>3 DEF Threads

\* A run keeps its type when its demand and its release move on.
LEMMA DemandAndRelease ==
  ASSUME NEW q \in RunType, NEW d \in {"none", "mitigation", "recovery", "complete", "cut"},
         NEW k \in Knobs \cup {"off", "done", "failed"}
  PROVE  LET r == [q EXCEPT !.demand = d, !.release = k]
         IN  r \in RunType /\ r.kind = q.kind /\ r.plan = q.plan /\ r.row = q.row
<1> DEFINE R == Knobs \cup {"off", "done", "failed"}
<1> DEFINE D == {"none", "mitigation", "recovery", "complete", "cut"}
<1> HIDE DEF R, D
<1>1. k \in R /\ d \in D
  BY DEF R, D
<1>2. q \in [kind : Kinds \cup {"none"}, plan : Plans \cup {NoOne}, row : Nat, demand : D,
             live : SUBSET {"sentinel", "monitor"}, native : {"unseen", "ok", "denied"},
             monitor : {"idle", "before", "after"}, failed : {"no", "probe", "snapshot", "drift"}, release : R]
  BY DEF R, D, RunType
<1>3. [q EXCEPT !.demand = d, !.release = k] \in
        [kind : Kinds \cup {"none"}, plan : Plans \cup {NoOne}, row : Nat, demand : D,
         live : SUBSET {"sentinel", "monitor"}, native : {"unseen", "ok", "denied"},
         monitor : {"idle", "before", "after"}, failed : {"no", "probe", "snapshot", "drift"}, release : R]
  BY <1>1, <1>2
<1>4. LET r == [q EXCEPT !.demand = d, !.release = k]
      IN  r.kind = q.kind /\ r.plan = q.plan /\ r.row = q.row
  BY <1>2
<1> QED
  BY <1>3, <1>4 DEF R, D, RunType

\* The main thread between the row and the review.
LEMMA MainStep ==
  ASSUME IInv, NEW p \in Processes,
         \/ Prepare(p) \/ Preflight(p) \/ PreflightFails(p) \/ DriveReleases(p) \/ DriveCompletes(p)
         \/ DriveCuts(p) \/ Join(p)
  PROVE  IInv'
<1>0. PrepInv' /\ UNCHANGED <<lock, ledger, frozen, compared, lifted, effective>>
  BY PrepSame DEF Prepare, Preflight, PreflightFails, DriveReleases, DriveCompletes, DriveCuts, Join,
     IInv, faultVars, reportVars
<1>1. pc[p] \in Stages /\ run[p] \in RunType /\ Flow(pc[p], run[p]) /\ pc \in [Processes -> Stages]
      /\ run \in [Processes -> RunType] /\ lifted \subseteq Knobs /\ effective \subseteq Knobs
  BY DEF IInv, CampaignType, FlowInv
<1>2. \E l \in Running, r \in RunType :
        /\ pc[p] \in Running \cup {"prepare"}
        /\ pc' = [pc EXCEPT ![p] = l] /\ run' = [run EXCEPT ![p] = r] /\ Flow(l, r)
        /\ r.kind = run[p].kind /\ r.plan = run[p].plan /\ r.row = run[p].row
        /\ pc[p] \in Running \/ r.kind = "calibration" \/ r.plan \in frozen
  <2>1. CASE Prepare(p)
    <3> DEFINE r == [run[p] EXCEPT !.live = {"sentinel", "monitor"}]
    <3>1. r \in RunType /\ r.kind = run[p].kind /\ r.plan = run[p].plan /\ r.row = run[p].row
      BY <1>1 DEF RunType
    <3>2. Flow("preflight", r)
      BY <1>1, <2>1 DEF Flow, RunType, Prepare, At
    <3>3. pc' = [pc EXCEPT ![p] = "preflight"] /\ run' = [run EXCEPT ![p] = r] /\ pc[p] = "prepare"
      BY <2>1 DEF Prepare, At, Goto
    <3>4. run[p].kind = "calibration" \/ run[p].plan \in frozen
      BY <2>1 DEF Prepare, Frozen
    <3> QED
      BY <3>1, <3>2, <3>3, <3>4 DEF Running
  <2>2. CASE Preflight(p)
    <3> DEFINE r == [run[p] EXCEPT !.demand = "mitigation"]
    <3>1. r \in RunType /\ r.kind = run[p].kind /\ r.plan = run[p].plan /\ r.row = run[p].row
      BY <1>1 DEF RunType
    <3>2. Flow("drive", r)
      BY <1>1, <2>2 DEF Flow, RunType, Preflight
    <3>3. pc' = [pc EXCEPT ![p] = "drive"] /\ run' = [run EXCEPT ![p] = r] /\ pc[p] = "preflight"
      BY <2>2 DEF Preflight, Goto
    <3> QED
      BY <3>1, <3>2, <3>3 DEF Running
  <2>3. CASE PreflightFails(p)
    <3>1. Flow("join", run[p]) /\ pc[p] = "preflight"
      BY <1>1, <2>3 DEF Flow, RunType, PreflightFails
    <3>2. pc' = [pc EXCEPT ![p] = "join"] /\ run' = [run EXCEPT ![p] = run[p]]
      BY <1>1, <2>3 DEF PreflightFails, Goto
    <3> QED
      BY <1>1, <3>1, <3>2 DEF Running
  <2>4. CASE DriveReleases(p)
    <3> DEFINE r == [run[p] EXCEPT !.demand = "recovery", !.release = "hold"]
    <3>1. r \in RunType /\ r.kind = run[p].kind /\ r.plan = run[p].plan /\ r.row = run[p].row
      <4>1. run[p] \in RunType /\ "hold" \in Knobs \cup {"off", "done", "failed"}
        BY <1>1 DEF Knobs
      <4> QED
        BY <4>1, DemandAndRelease
    <3>2. Flow("drive", r)
      BY <1>1, <2>4 DEF Flow, RunType, DriveReleases, Knobs
    <3>3. pc' = [pc EXCEPT ![p] = "drive"] /\ run' = [run EXCEPT ![p] = r] /\ pc[p] = "drive"
      BY <1>1, <2>4 DEF DriveReleases
    <3> QED
      BY <3>1, <3>2, <3>3 DEF Running
  <2>5. CASE DriveCompletes(p)
    <3> DEFINE r == [run[p] EXCEPT !.demand = "complete"]
    <3>1. r \in RunType /\ r.kind = run[p].kind /\ r.plan = run[p].plan /\ r.row = run[p].row
      BY <1>1 DEF RunType
    <3>2. Flow("join", r)
      BY <1>1, <2>5 DEF Flow, RunType, DriveCompletes, At, Knobs
    <3>3. pc' = [pc EXCEPT ![p] = "join"] /\ run' = [run EXCEPT ![p] = r] /\ pc[p] = "drive"
      BY <2>5 DEF DriveCompletes, At, Goto
    <3> QED
      BY <3>1, <3>2, <3>3 DEF Running
  <2>6. CASE DriveCuts(p)
    <3> DEFINE k == IF run[p].release = "off" THEN "hold" ELSE run[p].release
    <3> DEFINE r == [run[p] EXCEPT !.demand = "cut", !.release = k]
    <3>1. r \in RunType /\ r.kind = run[p].kind /\ r.plan = run[p].plan /\ r.row = run[p].row
      <4>1. run[p] \in RunType /\ "hold" \in Knobs \cup {"off", "done", "failed"}
        BY <1>1 DEF Knobs
      <4>2. k \in Knobs \cup {"off", "done", "failed"}
        BY <4>1 DEF RunType
      <4> HIDE DEF k
      <4> QED
        BY <4>1, <4>2, DemandAndRelease
    <3>2. Flow("join", r)
      BY <1>1, <2>6 DEF Flow, RunType, DriveCuts, At, Knobs
    <3>3. pc' = [pc EXCEPT ![p] = "join"] /\ run' = [run EXCEPT ![p] = r] /\ pc[p] = "drive"
      BY <2>6 DEF DriveCuts, At, Goto
    <3> QED
      BY <3>1, <3>2, <3>3 DEF Running
  <2>7. CASE Join(p)
    <3>1. pc[p] = "join" /\ pc' = [pc EXCEPT ![p] = "final"] /\ run' = [run EXCEPT ![p] = run[p]]
          /\ run[p].live = {} /\ run[p].release \notin Knobs /\ run[p].demand # "none" /\ run[p].release # "failed"
      BY <1>1, <2>7 DEF Join, At, Goto, Joined, NotRaised
    <3>2. Flow("final", run[p])
      BY <1>1, <3>1 DEF Flow, RunType, Knobs
    <3> QED
      BY <1>1, <3>1, <3>2 DEF Running
  <2> QED
    BY <2>1, <2>2, <2>3, <2>4, <2>5, <2>6, <2>7
<1> QED
  BY <1>0, <1>1, <1>2, RunStep DEF Running

LEMMA OpenStep ==
  ASSUME IInv, NEW p \in Processes, Open(p)
  PROVE  IInv'
<1>0. /\ pc' = [pc EXCEPT ![p] = "gate"] /\ pc[p] = "idle" /\ lock = NoOne /\ lock' = p
      /\ UNCHANGED <<run, ledger, prepVars, lifted, effective, frozen, compared>>
  BY DEF Open, TakeLock, At, Goto, faultVars, reportVars
<1>1. PrepInv' /\ LedgerInv'
  BY <1>0, PrepSame, LedgerSame DEF IInv
<1>2. \A o \in Processes : pc[o] = "idle" /\ run[o] = NoRun
  BY <1>0, NoRunType DEF IInv, LockInv, FlowInv, Flow, CampaignType
<1>3. CampaignType'
  BY <1>0 DEF IInv, CampaignType, Stages
<1>4. \A o \in Processes : pc'[o] = IF o = p THEN "gate" ELSE "idle"
  BY <1>0, <1>2 DEF IInv, CampaignType
<1>5. LockInv'
  BY <1>0, <1>4, NoRunType DEF LockInv
<1>6. FlowInv'
  <2> SUFFICES ASSUME NEW o \in Processes PROVE Flow(pc'[o], run'[o])
    BY DEF FlowInv
  <2> QED
    BY <1>0, <1>2, <1>4 DEF Flow, NoRun
<1>7. CountedInv'
  BY <1>4 DEF CountedInv
<1> QED
  BY <1>1, <1>3, <1>5, <1>6, <1>7 DEF IInv

LEMMA CountStep ==
  ASSUME IInv, NEW p \in Processes, Count(p)
  PROVE  IInv'
<1>1. PICK k \in Kinds, q \in Plans :
        /\ Budget(Append(ledger, Entry(k, q)), q)
        /\ ledger' = Append(ledger, Entry(k, q))
        /\ run' = [run EXCEPT ![p].kind = k, ![p].plan = q, ![p].row = Len(ledger) + 1]
  BY DEF Count, Gate
<1>2. /\ pc' = [pc EXCEPT ![p] = "prepare"] /\ pc[p] = "gate"
      /\ UNCHANGED <<lock, prepVars, lifted, effective, frozen, compared>>
  BY DEF Count, At, Goto, faultVars, reportVars
<1>3. run[p] = NoRun /\ lock = p /\ \A o \in Processes \ {p} : pc[o] = "idle" /\ run[o] = NoRun
  BY <1>2 DEF IInv, LockInv, FlowInv, Flow
<1>4. ledger \in Seq(RowType) /\ Entry(k, q) \in RowType /\ Len(ledger) \in Nat
  BY DEF IInv, CampaignType, Entry, RowType
<1>5. /\ ledger' \in Seq(RowType) /\ Len(ledger') = Len(ledger) + 1 /\ DOMAIN ledger' = 1 .. Len(ledger) + 1
      /\ DOMAIN ledger = 1 .. Len(ledger)
      /\ ledger'[Len(ledger) + 1] = Entry(k, q)
      /\ \A i \in DOMAIN ledger : ledger'[i] = ledger[i]
  BY <1>1, <1>4
<1> DEFINE r == [[[NoRun EXCEPT !.kind = k] EXCEPT !.plan = q] EXCEPT !.row = Len(ledger) + 1]
<1>6. /\ r.kind = k /\ r.plan = q /\ r.row = Len(ledger) + 1 /\ r.demand = "none" /\ r.release = "off"
      /\ r.native = "unseen"
  BY DEF NoRun
<1>8. r \in RunType
  <2> DEFINE A == [NoRun EXCEPT !.kind = k]
             B == [A EXCEPT !.plan = q]
  <2>1. A \in RunType
    BY NoRunType DEF RunType
  <2>2. B \in RunType
    BY <2>1 DEF RunType
  <2>3. r = [B EXCEPT !.row = Len(ledger) + 1]
    OBVIOUS
  <2>4. Len(ledger) + 1 \in Nat
    BY <1>4
  <2> DEFINE n == Len(ledger) + 1
  <2> HIDE DEF B, r, n
  <2>5. [B EXCEPT !.row = n] \in RunType
    BY <2>2, <2>4 DEF RunType, n
  <2> QED
    BY <2>3, <2>5 DEF n
<1>7. run' = [run EXCEPT ![p] = r]
  BY <1>1, <1>3 DEF IInv, CampaignType
<1> HIDE DEF r
<1>9. \A o \in Processes : /\ pc'[o] = IF o = p THEN "prepare" ELSE "idle"
                           /\ run'[o] = IF o = p THEN r ELSE NoRun
  BY <1>2, <1>3, <1>7 DEF IInv, CampaignType
<1>10. PrepInv'
  BY <1>2, PrepSame DEF IInv
<1>11. CampaignType'
  BY <1>2, <1>5, <1>7, <1>8 DEF IInv, CampaignType, Stages
<1>12. LockInv'
  BY <1>2, <1>3, <1>9 DEF IInv, LockInv
<1>13. FlowInv'
  <2> SUFFICES ASSUME NEW o \in Processes PROVE Flow(pc'[o], run'[o])
    BY DEF FlowInv
  <2>1. Flow("prepare", r) /\ Flow("idle", NoRun)
    BY <1>6 DEF Flow, NoRun
  <2> QED
    BY <1>9, <2>1
<1>14. CountedInv'
  <2> SUFFICES ASSUME NEW o \in Processes, pc'[o] \notin {"idle", "gate"}
               PROVE  /\ run'[o].kind \in Kinds /\ run'[o].plan \in Plans
                      /\ run'[o].row = Len(ledger') /\ run'[o].row \in DOMAIN ledger'
                      /\ ledger'[run'[o].row] = Entry(run'[o].kind, run'[o].plan)
                      /\ pc'[o] \notin Running
    BY DEF CountedInv, Entry
  <2> QED
    BY <1>4, <1>5, <1>6, <1>9 DEF Running
<1>15. LedgerInv'
  <2>1. WithinBudget(ledger)'
    BY <1>1 DEF Budget, WithinBudget
  <2>2. FrozenInv'
    BY <1>2, <1>5 DEF IInv, LedgerInv, FrozenInv, ValidRun
  <2>3. MeasuredInv'
    BY <1>4, <1>5 DEF IInv, LedgerInv, MeasuredInv, ValidRun, Entry
  <2>4. ComparedInv'
    BY <1>2, <1>5 DEF IInv, LedgerInv, ComparedInv, ValidRun
  <2> QED
    BY <2>1, <2>2, <2>3, <2>4 DEF LedgerInv
<1> QED
  BY <1>10, <1>11, <1>12, <1>13, <1>14, <1>15 DEF IInv

\* The review makes the last row valid, or leaves it.
LEMMA EndStep ==
  ASSUME IInv, NEW p \in Processes,
         Refuse(p) \/ Raise(p) \/ JoinRaises(p) \/ Ended(p) \/ FinalRaises(p) \/ Kill(p)
  PROVE  IInv'
<1>1. Leave(p) /\ pc[p] # "idle" /\ UNCHANGED <<prepVars, faultVars, frozen, compared>>
  BY DEF Refuse, Raise, JoinRaises, Ended, FinalRaises, Kill, reportVars
<1>2. CASE ledger' = ledger
  BY <1>1, <1>2, LeaveStep, LedgerSame DEF IInv, CampaignType
<1>3. CASE ledger' # ledger
  <2>1. pc[p] = "final" /\ ledger' = [ledger EXCEPT ![run[p].row].result = "valid"]
    BY <1>3 DEF Refuse, Raise, JoinRaises, Ended, FinalRaises, Kill
  <2> DEFINE n == run[p].row
  <2>2. /\ n = Len(ledger) /\ n \in DOMAIN ledger /\ run[p].kind \in Kinds /\ run[p].plan \in Plans
        /\ ledger[n] = [kind |-> run[p].kind, plan |-> run[p].plan, result |-> "consumed"]
        /\ run[p].kind = "calibration" \/ run[p].plan \in frozen
    BY <2>1 DEF IInv, CountedInv, Entry, Running
  <2>3. ledger \in Seq(RowType) /\ DOMAIN ledger = 1 .. Len(ledger) /\ Len(ledger) \in Nat
    BY DEF IInv, CampaignType
  <2>4. ledger' = [ledger EXCEPT ![n] = [kind |-> run[p].kind, plan |-> run[p].plan, result |-> "valid"]]
    <3>1. [ledger[n] EXCEPT !.result = "valid"]
            = [kind |-> run[p].kind, plan |-> run[p].plan, result |-> "valid"]
      BY <2>2
    <3> QED
      BY <2>1, <3>1
  <2> HIDE DEF n
  <2>5. /\ ledger' \in Seq(RowType) /\ DOMAIN ledger' = DOMAIN ledger
        /\ ledger'[n] = [kind |-> run[p].kind, plan |-> run[p].plan, result |-> "valid"]
        /\ \A i \in DOMAIN ledger : i # n => ledger'[i] = ledger[i]
    BY <2>2, <2>3, <2>4 DEF RowType
  <2>6. \A i \in DOMAIN ledger : ledger'[i].kind = ledger[i].kind
    BY <2>2, <2>5
  <2>7. \A i \in DOMAIN ledger, k \in Kinds, q \in Plans : ValidRun(i, k, q) => ValidRun(i, k, q)'
    BY <2>2, <2>5 DEF ValidRun
  <2>8. WithinBudget(ledger)'
    <3>1. \A k \in Kinds : Rows(ledger', k) = Rows(ledger, k)
      BY <2>5, <2>6 DEF Rows
    <3> QED
      BY <3>1 DEF IInv, LedgerInv, WithinBudget, Kinds
  <2>9. FrozenInv'
    BY <1>1, <2>5, <2>7 DEF IInv, LedgerInv, FrozenInv, Kinds, CampaignType
  <2>10. ComparedInv'
    BY <1>1, <2>5, <2>7 DEF IInv, LedgerInv, ComparedInv, Kinds, CampaignType
  <2>11. MeasuredInv'
    <3> SUFFICES ASSUME NEW i \in DOMAIN ledger, ledger'[i].kind # "calibration", ledger'[i].result = "valid"
                 PROVE  \E j \in 1 .. i - 1 :
                          ledger'[j] = [kind |-> "calibration", plan |-> ledger'[i].plan, result |-> "valid"]
      BY <2>5 DEF MeasuredInv, ValidRun
    <3>1. \E j \in 1 .. i - 1 : ValidRun(j, "calibration", ledger'[i].plan) /\ ledger'[i].plan \in Plans
      <4>1. CASE i = n
        <5>1. ledger'[i].plan = run[p].plan /\ run[p].plan \in frozen
          BY <2>2, <2>5, <4>1
        <5>2. PICK j \in DOMAIN ledger : ValidRun(j, "calibration", run[p].plan)
          BY <5>1 DEF IInv, LedgerInv, FrozenInv
        <5>3. j # n
          BY <2>2, <5>2 DEF ValidRun
        <5> QED
          BY <2>2, <2>3, <4>1, <5>1, <5>2, <5>3
      <4>2. CASE i # n
        <5>1. ledger'[i] = ledger[i] /\ ledger[i] \in RowType
          BY <2>3, <2>5, <4>2
        <5> QED
          BY <5>1 DEF IInv, LedgerInv, MeasuredInv, RowType
      <4> QED
        BY <4>1, <4>2
    <3>2. PICK j \in 1 .. i - 1 : ValidRun(j, "calibration", ledger'[i].plan) /\ ledger'[i].plan \in Plans
      BY <3>1
    <3>3. j \in DOMAIN ledger
      BY <2>3
    <3>4. ledger'[j] = ledger[j]
      BY <2>2, <2>5, <3>2, <3>3 DEF ValidRun
    <3> QED
      BY <3>2, <3>4 DEF ValidRun
  <2> QED
    BY <1>1, <2>5, <2>8, <2>9, <2>10, <2>11, LeaveStep DEF LedgerInv
<1> QED
  BY <1>2, <1>3

\* What only changes the initialization, the fault, or the manifests and reports.
LEMMA RunsKept ==
  ASSUME IInv, PrepInv', UNCHANGED <<pc, run, lock, ledger>>,
         lifted' \subseteq Knobs, effective' \subseteq Knobs,
         frozen' \subseteq Plans, frozen \subseteq frozen', compared' \in Plans \cup {NoOne},
         FrozenInv', ComparedInv'
  PROVE  IInv'
<1>1. CampaignType' /\ LockInv' /\ FlowInv'
  BY DEF IInv, CampaignType, LockInv, FlowInv
<1>2. CountedInv'
  BY DEF IInv, CountedInv
<1>3. LedgerInv'
  BY DEF IInv, LedgerInv, WithinBudget, MeasuredInv, ValidRun
<1> QED
  BY <1>1, <1>2, <1>3 DEF IInv

LEMMA OtherStep ==
  ASSUME IInv,
         \/ Initialization /\ UNCHANGED campaignVars
         \/ Converge \/ Others
         \/ \E q \in Plans : Freeze(q) \/ Compare(q)
  PROVE  IInv'
<1>1. UNCHANGED <<pc, run, lock, ledger>>
  BY DEF campaignVars, Converge, Others, Freeze, Compare
<1>2. PrepInv'
  BY PrepStep, PrepSame DEF IInv, Converge, Others, Freeze, Compare
<1>3. lifted' \subseteq Knobs /\ effective' \subseteq Knobs
  BY DEF Initialization, Initialize, SafetyReading, CpuReading, Intent, Launch, JourneyValid, Complete, Abandon,
     JourneyEnds, Startup, Converge, Others, Freeze, Compare, faultVars, IInv, CampaignType
<1>4. frozen' \subseteq Plans /\ frozen \subseteq frozen' /\ compared' \in Plans \cup {NoOne}
  BY DEF campaignVars, reportVars, Converge, Others, Freeze, Compare, IInv, CampaignType
<1>5. FrozenInv'
  <2>1. CASE \E q \in Plans : Freeze(q)
    BY <1>1, <2>1 DEF Freeze, IInv, LedgerInv, FrozenInv, ValidRun
  <2>2. CASE frozen' = frozen
    BY <1>1, <2>2 DEF IInv, LedgerInv, FrozenInv, ValidRun
  <2> QED
    BY <2>1, <2>2 DEF campaignVars, reportVars, Converge, Others, Compare
<1>6. ComparedInv'
  <2>1. CASE \E q \in Plans : Compare(q)
    BY <1>1, <2>1 DEF Compare, ComparedInv, ValidRun
  <2>2. CASE compared' = compared
    BY <1>1, <2>2 DEF IInv, LedgerInv, ComparedInv, ValidRun
  <2> QED
    BY <2>1, <2>2 DEF campaignVars, reportVars, Converge, Others, Freeze
<1> QED
  BY <1>1, <1>2, <1>3, <1>4, <1>5, <1>6, RunsKept

LEMMA NextStep ==
  ASSUME IInv, [Next]_vars
  PROVE  IInv'
<1>1. CASE \E p \in Processes : Open(p) \/ Count(p)
  BY <1>1, OpenStep, CountStep
<1>2. CASE \E p \in Processes : Refuse(p) \/ Raise(p) \/ JoinRaises(p) \/ Ended(p) \/ FinalRaises(p) \/ Kill(p)
  BY <1>2, EndStep
<1>3. CASE \E p \in Processes : \/ Prepare(p) \/ Preflight(p) \/ PreflightFails(p) \/ DriveReleases(p)
                                \/ DriveCompletes(p) \/ DriveCuts(p) \/ Join(p)
  BY <1>3, MainStep
<1>4. CASE \E p \in Processes : Threads(p)
  BY <1>4, ThreadStep
<1>5. CASE \/ Initialization /\ UNCHANGED campaignVars
           \/ Converge \/ Others
           \/ \E q \in Plans : Freeze(q) \/ Compare(q)
  BY <1>5, OtherStep
<1>6. CASE UNCHANGED vars
  <2>1. PrepInv' /\ UNCHANGED <<pc, run, lock, ledger, lifted, effective, frozen, compared>>
    BY <1>6, PrepSame DEF vars, campaignVars, reportVars, faultVars, IInv
  <2> QED
    BY <2>1, RunsKept, LedgerSame DEF IInv, CampaignType, LedgerInv
<1> QED
  BY <1>1, <1>2, <1>3, <1>4, <1>5, <1>6 DEF Next, Main

LEMMA InitStep ==
  ASSUME Init
  PROVE  IInv
<1>1. PrepInv
  BY Initializing DEF Init
<1>2. CampaignType
  BY NoRunType DEF Init, PrepInit, CampaignType, Stages
<1>3. LockInv /\ CountedInv
  BY NoRunType DEF Init, LockInv, CountedInv
<1>4. FlowInv
  BY DEF Init, FlowInv, Flow, NoRun
<1>5. LedgerInv
  <2>1. DOMAIN ledger = {}
    BY DEF Init
  <2>2. \A k : Rows(ledger, k) = {}
    BY <2>1 DEF Rows
  <2>3. Cardinality({}) = 0
    BY FS_EmptySet
  <2>4. WithinBudget(ledger)
    BY <2>2, <2>3 DEF WithinBudget
  <2> QED
    BY <2>1, <2>4 DEF LedgerInv, FrozenInv, MeasuredInv, ComparedInv, Init
<1> QED
  BY <1>1, <1>2, <1>3, <1>4, <1>5 DEF IInv

\* The invariant of the campaign, for every number of invocations, plans and arms.
THEOREM Invariance == Spec => []IInv
  BY InitStep, NextStep, PTL DEF Spec

-----------------------------------------------------------------------------
(* What the invariant gives.                                               *)

LEMMA AllTyped == IInv => TypeInv
<1> SUFFICES ASSUME IInv PROVE TypeInv
  OBVIOUS
<1>1. /\ pc \in [Processes -> {"idle", "gate", "prepare", "preflight", "drive", "join", "final"}]
      /\ run \in [Processes -> RunType] /\ ledger \in Seq(RowType)
      /\ lock \in Processes \cup {NoOne} /\ lifted \subseteq Knobs /\ effective \subseteq Knobs
      /\ frozen \subseteq Plans /\ compared \in Plans \cup {NoOne}
  BY DEF IInv, CampaignType, Stages, Running
<1>2. \A p \in Processes : pc[p] = "idle" => lock # p /\ run[p] = NoRun
  BY DEF IInv, LockInv, FlowInv, Flow
<1>3. prep \in [pc : {"idle", "settle", "settleCpu", "baseline", "launch", "journey", "telemetry",
                      "telemetryCpu", "accounting"},
                cpu : [history : Nat, recovered : {"yes", "no"}, candidate : Nat,
                       completed : {"yes", "no"}, stamp : Nat, turn : Nat],
                reading : [warnings : Nat, hpa : {"failed", "active"}, turn : Nat]]
  <2>1. PrepSteps \cup {"idle"} = {"idle", "settle", "settleCpu", "baseline", "launch", "journey", "telemetry",
                                   "telemetryCpu", "accounting"}
    BY DEF PrepSteps
  <2> QED
    BY <2>1 DEF IInv, PrepInv, PrepType
<1>4. /\ initLedger \subseteq {"intent", "complete"} /\ journey \in [started : Nat, live : {"yes", "no"}]
      /\ cluster \in [hpa : {"failed", "active"}, turn : Nat, warnings : Nat, stamp : Nat,
                      fresh : SUBSET (1 .. Samples)]
  BY DEF IInv, PrepInv, PrepType
<1> QED
  BY <1>1, <1>2, <1>3, <1>4 DEF TypeInv, RunType, RowType

\* A run that works holds the lock; the others have none.
LEMMA WorkerHoldsLock ==
  ASSUME IInv, NEW p \in Processes, Working(p)
  PROVE  pc[p] \notin {"idle", "gate"} /\ lock = p /\ \A o \in Processes \ {p} : run[o] = NoRun
<1>1. pc[p] \notin {"idle", "gate"}
  BY DEF Working, IInv, FlowInv, Flow, NoRun
<1> QED
  BY <1>1 DEF IInv, LockInv, FlowInv, Flow

\* initialize 1833-1836, _measure 1876-1886: whatever was killed and started again,
\* the journey is launched once, runs follow one another, and each works under a
\* row of its own within the budget.
THEOREM EverythingIsConsumedOnce == Spec => []ConsumedOnce
<1>1. IInv => ConsumedOnce
  <2> SUFFICES ASSUME IInv PROVE ConsumedOnce
    OBVIOUS
  <2>1. TypeInv /\ JourneyOnce
    BY AllTyped DEF IInv, PrepInv, JourneyInv, JourneyOnce
  <2>2. BudgetHolds
    <3>1. \A p \in Processes : Working(p) =>
            /\ run[p].row \in DOMAIN ledger
            /\ ledger[run[p].row].kind = run[p].kind /\ ledger[run[p].row].plan = run[p].plan
            /\ \A o \in Processes \ {p} : run[o].row # run[p].row
      <4> SUFFICES ASSUME NEW p \in Processes, Working(p)
                   PROVE  /\ run[p].row \in DOMAIN ledger
                          /\ ledger[run[p].row].kind = run[p].kind /\ ledger[run[p].row].plan = run[p].plan
                          /\ \A o \in Processes \ {p} : run[o].row # run[p].row
        OBVIOUS
      <4>1. /\ run[p].row \in DOMAIN ledger /\ ledger[run[p].row] = Entry(run[p].kind, run[p].plan)
        BY WorkerHoldsLock DEF IInv, CountedInv
      <4>2. run[p].row # 0
        BY <4>1 DEF IInv, CampaignType
      <4> QED
        BY <4>1, <4>2, WorkerHoldsLock DEF Entry, NoRun
    <3> QED
      BY <3>1 DEF IInv, LedgerInv, WithinBudget, BudgetHolds
  <2>3. OneRunAtATime
    BY WorkerHoldsLock DEF OneRunAtATime
  <2> QED
    BY <2>1, <2>2, <2>3 DEF ConsumedOnce
<1> QED
  BY <1>1, Invariance, PTL

LEMMA OnlyOne ==
  ASSUME NEW S, IsFiniteSet(S), Cardinality(S) <= 1, NEW x \in S
  PROVE  Cardinality(S) = 1 /\ S = {x}
<1>1. Cardinality(S) \in Nat /\ Cardinality(S) # 0
  BY FS_CardinalityType, FS_EmptySet
<1>2. Cardinality(S) = 1
  BY <1>1
<1> QED
  BY <1>2, FS_Singleton

\* frozen 884, compare 2346: a comparison that succeeded is about one plan, and
\* about the only run each arm has ever had, after a calibration of that plan.
THEOREM ComparisonsAreSound == Spec => []ComparisonIsSound
<1>1. IInv => ComparisonIsSound
  <2> SUFFICES ASSUME IInv, compared # NoOne, NEW a \in Arms
               PROVE  /\ Cardinality(Rows(ledger, a)) = 1
                      /\ \A i \in Rows(ledger, a) :
                           /\ ValidRun(i, a, compared)
                           /\ \E j \in 1 .. i - 1 : ValidRun(j, "calibration", compared)
    BY DEF ComparisonIsSound
  <2>1. PICK i \in DOMAIN ledger : ValidRun(i, a, compared)
    BY DEF IInv, LedgerInv, ComparedInv
  <2>2. i \in Rows(ledger, a) /\ ledger[i].kind # "calibration" /\ ledger[i].result = "valid"
        /\ ledger[i].plan = compared
    BY <2>1 DEF ValidRun, Rows
  <2>3. IsFiniteSet(Rows(ledger, a))
    <3>1. Rows(ledger, a) \subseteq 1 .. Len(ledger) /\ Len(ledger) \in Nat
      BY DEF IInv, CampaignType, Rows
    <3>2. IsFiniteSet(1 .. Len(ledger))
      BY <3>1, FS_Interval
    <3> QED
      BY <3>1, <3>2, FS_Subset
  <2>4. Cardinality(Rows(ledger, a)) = 1 /\ Rows(ledger, a) = {i}
    BY <2>2, <2>3, OnlyOne DEF IInv, LedgerInv, WithinBudget
  <2>5. \E j \in 1 .. i - 1 : ValidRun(j, "calibration", compared)
    BY <2>1, <2>2 DEF IInv, LedgerInv, MeasuredInv
  <2> QED
    BY <2>1, <2>4, <2>5
<1> QED
  BY <1>1, Invariance, PTL

\* _measure 1952-1963, validate 2201, require_complete_demand 1010: a row only turns
\* valid for a run with its whole demand, sentinel, snapshots and both releases.
THEOREM ValidRunsAreWhole == Spec => ValidRunIsWhole
<1>1. IInv /\ [Next]_vars =>
        [\A i \in DOMAIN ledger :
           ledger[i].result # "valid" /\ ledger'[i].result = "valid" =>
             \E p \in Processes :
               /\ run[p].row = i /\ run[p].demand = "complete" /\ run[p].live = {}
               /\ run[p].native = "ok" /\ run[p].failed = "no" /\ run[p].release = "done"]_vars
  <2> SUFFICES ASSUME IInv, Next, NEW i \in DOMAIN ledger,
                      ledger[i].result # "valid", ledger'[i].result = "valid"
               PROVE  \E p \in Processes :
                        /\ run[p].row = i /\ run[p].demand = "complete" /\ run[p].live = {}
                        /\ run[p].native = "ok" /\ run[p].failed = "no" /\ run[p].release = "done"
    OBVIOUS
  <2>1. ledger' # ledger
    OBVIOUS
  <2>2. ~\E p \in Processes : Count(p)
    <3>1. ASSUME NEW p \in Processes, Count(p)
          PROVE  FALSE
      <4>1. PICK k \in Kinds, q \in Plans : ledger' = Append(ledger, Entry(k, q))
        BY <3>1 DEF Count
      <4>2. ledger'[i] = ledger[i]
        BY <4>1 DEF IInv, CampaignType
      <4> QED
        BY <4>2
    <3> QED
      BY <3>1
  <2>3. PICK p \in Processes : Ended(p)
    BY <2>1, <2>2 DEF Next, Main, Threads, Monitor, Open, Refuse, Prepare, Raise, Preflight, PreflightFails,
       DriveReleases, DriveCompletes, DriveCuts, Join, JoinRaises, FinalRaises, Sentinel, SentinelStops,
       Collect, Collected, Drifted, SnapshotFails, MonitorStops, Release, Kill, campaignVars, Converge,
       Others, Freeze, Compare
  <2>4. pc[p] = "final" /\ run[p].failed = "no" /\ run[p].demand = "complete"
        /\ ledger' = [ledger EXCEPT ![run[p].row].result = "valid"]
    BY <2>1, <2>3 DEF Ended, CompleteDemand
  <2>5. run[p].row = i
    BY <2>4 DEF IInv, CountedInv
  <2>6. run[p].live = {} /\ run[p].release = "done" /\ run[p].native \notin {"unseen", "denied"}
    BY <2>4 DEF IInv, FlowInv, Flow
  <2>7. run[p].native = "ok"
    BY <2>6 DEF IInv, CampaignType, RunType
  <2> QED
    BY <2>4, <2>5, <2>6, <2>7
<1> QED
  BY <1>1, Invariance, PTL DEF Spec, ValidRunIsWhole

\* _measure 1949-1961: only a run that has the lock, and is in drive() or waits for
\* its release, lifts the fault.
THEOREM NothingIsLeftPending == Spec => NothingPendingAfterRun
<1>1. IInv /\ [Next]_vars =>
        [\A p \in Processes :
           lifted' # lifted /\ run'[p] # run[p] => lock = p /\ pc[p] \in {"drive", "join"}]_vars
  <2> SUFFICES ASSUME IInv, Next, NEW p \in Processes, lifted' # lifted, run'[p] # run[p]
               PROVE  lock = p /\ pc[p] \in {"drive", "join"}
    OBVIOUS
  <2>1. PICK o \in Processes : Release(o)
    BY DEF Next, Main, Threads, Monitor, Open, Count, Refuse, Prepare, Raise, Preflight, PreflightFails,
       DriveReleases, DriveCompletes, DriveCuts, Join, JoinRaises, Ended, FinalRaises, Sentinel, SentinelStops,
       Collect, Collected, Drifted, SnapshotFails, MonitorStops, Kill, campaignVars, faultVars, Converge,
       Others, Freeze, Compare, Initialization, Initialize, SafetyReading, CpuReading, Intent, Launch,
       JourneyValid, Complete, Abandon, JourneyEnds, Startup
  <2>2. o = p /\ run[p].release \in Knobs
    BY <2>1 DEF Release, IInv, CampaignType
  <2>3. Flow(pc[p], run[p])
    BY DEF IInv, FlowInv
  <2>4. pc[p] \in {"drive", "join"}
    BY <2>2, <2>3 DEF Flow, Knobs
  <2> QED
    BY <2>4 DEF IInv, LockInv
<1> QED
  BY <1>1, Invariance, PTL DEF Spec, NothingPendingAfterRun

-----------------------------------------------------------------------------
(* The campaign sees every run in the phases that drive() promises.        *)

\* Before the demand has met its recovery nothing has asked for the release.
OffInv == \A p \in Processes : run[p].demand \in {"none", "mitigation"} => run[p].release = "off"

Unseen(p) ==
  /\ run'[p].demand = run[p].demand /\ run'[p].release = run[p].release
  /\ pc'[p] = "final" <=> pc[p] = "final"
Gone(p) == run'[p].demand = "none" /\ run'[p].release = "off"
Begins(p) ==
  /\ run[p].demand = "none" /\ run'[p].demand = "mitigation"
  /\ run'[p].release = run[p].release /\ pc'[p] # "final"

\* A step of a run's threads: only the release is seen from outside.
LEMMA ThreadPhase ==
  ASSUME IInv, NEW p \in Processes, Threads(p)
  PROVE  (Unseen(p) \/ Phases(p)!Next) /\ \A o \in Processes \ {p} : Unseen(o)
<1>1. run \in [Processes -> RunType] /\ pc' = pc
  BY DEF IInv, CampaignType, Threads, Sentinel, SentinelStops, Monitor, Collect, Collected, Drifted,
     SnapshotFails, MonitorStops, Release
<1>2. run[p] \in RunType
  BY <1>1
<1>3. CASE Sentinel(p) \/ SentinelStops(p) \/ Monitor(p)
  <2>1. PICK r : /\ run' = [run EXCEPT ![p] = r]
                 /\ r.demand = run[p].demand /\ r.release = run[p].release
    <3>1. CASE Sentinel(p)
      <4>1. CASE run' = [run EXCEPT ![p].native = "ok"]
        <5> DEFINE s == [run[p] EXCEPT !.native = "ok"]
        <5>1. s.demand = run[p].demand /\ s.release = run[p].release
          BY <1>2 DEF RunType
        <5>2. run' = [run EXCEPT ![p] = s]
          BY <4>1
        <5> QED
          BY <5>1, <5>2
      <4>2. CASE run' = [run EXCEPT ![p] = Latch([@ EXCEPT !.native = "denied"], "probe")]
        <5> DEFINE s == Latch([run[p] EXCEPT !.native = "denied"], "probe")
        <5>1. s.demand = run[p].demand /\ s.release = run[p].release
          BY <1>2 DEF RunType, Latch
        <5>2. run' = [run EXCEPT ![p] = s]
          BY <4>2
        <5> QED
          BY <5>1, <5>2
      <4> QED
        BY <3>1, <4>1, <4>2 DEF Sentinel
    <3>2. CASE SentinelStops(p) \/ Collect(p) \/ Collected(p) \/ MonitorStops(p)
      BY <1>2, <3>2 DEF SentinelStops, Collect, Collected, MonitorStops, RunType
    <3>3. ASSUME NEW cause, MonitorFails(p, cause)
          PROVE  \E r : /\ run' = [run EXCEPT ![p] = r]
                        /\ r.demand = run[p].demand /\ r.release = run[p].release
      <4> DEFINE s == Latch([run[p] EXCEPT !.monitor = "idle", !.live = @ \ {"monitor"}], cause)
      <4>1. s.demand = run[p].demand /\ s.release = run[p].release
        BY <1>2 DEF RunType, Latch
      <4>2. run' = [run EXCEPT ![p] = s]
        BY <3>3 DEF MonitorFails
      <4> QED
        BY <4>1, <4>2
    <3> QED
      BY <1>3, <3>1, <3>2, <3>3 DEF Monitor, Drifted, SnapshotFails
  <2> QED
    BY <1>1, <2>1 DEF Unseen
<1>4. CASE Release(p)
  <2>1. PICK s : /\ run' = [run EXCEPT ![p].release = s]
                 /\ \/ run[p].release = "hold" /\ s \in {"capacity", "failed"}
                    \/ run[p].release = "capacity" /\ s \in {"done", "failed"}
    <3>1. run[p].release \in {"hold", "capacity"}
      BY <1>4 DEF Release, Knobs
    <3>2. CASE run' = [run EXCEPT ![p].release = IF @ = "hold" THEN "capacity" ELSE "done"]
      BY <3>1, <3>2
    <3>3. CASE run' = [run EXCEPT ![p].release = "failed"]
      BY <3>1, <3>3
    <3> QED
      BY <1>4, <3>2, <3>3 DEF Release
  <2>2. /\ run'[p].demand = run[p].demand /\ run'[p].release = s
        /\ \A o \in Processes \ {p} : run'[o] = run[o]
    BY <1>1, <1>2, <2>1 DEF RunType
  <2>3. Phases(p)!Patch
    BY <1>1, <2>1, <2>2 DEF Phases!Patch
  <2> QED
    BY <1>1, <2>2, <2>3 DEF Phases!Next, Unseen
<1> QED
  BY <1>3, <1>4 DEF Threads

\* A step of the main thread: its demand begins, is released, complete or cut, or
\* the run ends.
LEMMA MainPhase ==
  ASSUME IInv, OffInv, NEW p \in Processes, Open(p) \/ Main(p) \/ Kill(p)
  PROVE  /\ Unseen(p) \/ Gone(p) \/ Begins(p) \/ Phases(p)!Next
         /\ \A o \in Processes \ {p} : Unseen(o)
<1> DEFINE Goal ==
      /\ Unseen(p) \/ Gone(p) \/ Begins(p) \/ Phases(p)!Next
      /\ \A o \in Processes \ {p} : Unseen(o)
<1>1. run \in [Processes -> RunType] /\ pc \in [Processes -> Stages]
  BY DEF IInv, CampaignType
<1>2. run[p] \in RunType /\ Flow(pc[p], run[p])
  BY <1>1 DEF IInv, FlowInv
<1>a. ASSUME NEW l, NEW r, pc' = [pc EXCEPT ![p] = l], run' = [run EXCEPT ![p] = r]
      PROVE  /\ pc'[p] = l /\ run'[p] = r
             /\ \A o \in Processes \ {p} : Unseen(o)
  BY <1>1, <1>a DEF Unseen
<1>3. CASE Leave(p)
  <2>1. pc' = [pc EXCEPT ![p] = "idle"] /\ run' = [run EXCEPT ![p] = NoRun]
    BY <1>3 DEF Leave, Goto
  <2>2. run'[p] = NoRun /\ \A o \in Processes \ {p} : Unseen(o)
    BY <2>1, <1>a
  <2> QED
    BY <2>2 DEF Gone, NoRun
<1>4. CASE Open(p) \/ PreflightFails(p)
  <2>1. pc[p] # "final" /\ \E l : l # "final" /\ pc' = [pc EXCEPT ![p] = l]
    BY <1>4 DEF Open, PreflightFails, At, Goto
  <2>2. run' = [run EXCEPT ![p] = run[p]]
    BY <1>1, <1>4 DEF Open, PreflightFails
  <2> QED
    BY <2>1, <2>2, <1>a DEF Unseen
<1>5. CASE Count(p)
  <2>1. PICK k \in Kinds, q \in Plans :
          run' = [run EXCEPT ![p].kind = k, ![p].plan = q, ![p].row = Len(ledger) + 1]
    BY <1>5 DEF Count
  <2>2. PICK r : run' = [run EXCEPT ![p] = r] /\ r.demand = run[p].demand /\ r.release = run[p].release
    <3> DEFINE s == [run[p] EXCEPT !.kind = k, !.plan = q, !.row = Len(ledger) + 1]
    <3>1. s.demand = run[p].demand /\ s.release = run[p].release
      BY <1>2 DEF RunType
    <3>2. run' = [run EXCEPT ![p] = s]
      BY <1>1, <2>1
    <3> QED
      BY <3>1, <3>2
  <2>3. pc[p] = "gate" /\ pc' = [pc EXCEPT ![p] = "prepare"]
    BY <1>5 DEF Count, At, Goto
  <2> QED
    BY <2>2, <2>3, <1>a DEF Unseen
<1>6. CASE Prepare(p)
  <2>1. PICK r : run' = [run EXCEPT ![p] = r] /\ r.demand = run[p].demand /\ r.release = run[p].release
    <3> DEFINE s == [run[p] EXCEPT !.live = {"sentinel", "monitor"}]
    <3>1. s.demand = run[p].demand /\ s.release = run[p].release
      BY <1>2 DEF RunType
    <3>2. run' = [run EXCEPT ![p] = s]
      BY <1>6 DEF Prepare
    <3> QED
      BY <3>1, <3>2
  <2>2. pc[p] = "prepare" /\ pc' = [pc EXCEPT ![p] = "preflight"]
    BY <1>6 DEF Prepare, At, Goto
  <2> QED
    BY <2>1, <2>2, <1>a DEF Unseen
<1>7. CASE Preflight(p)
  <2>1. PICK r : run' = [run EXCEPT ![p] = r] /\ r.demand = "mitigation" /\ r.release = run[p].release
    <3> DEFINE s == [run[p] EXCEPT !.demand = "mitigation"]
    <3>1. s.demand = "mitigation" /\ s.release = run[p].release
      BY <1>2 DEF RunType
    <3>2. run' = [run EXCEPT ![p] = s]
      BY <1>7 DEF Preflight
    <3> QED
      BY <3>1, <3>2
  <2>2. pc[p] = "preflight" /\ pc' = [pc EXCEPT ![p] = "drive"] /\ run[p].demand = "none"
    BY <1>2, <1>7 DEF Preflight, Goto, Flow
  <2> QED
    BY <2>1, <2>2, <1>a DEF Begins
<1>8. CASE DriveReleases(p)
  <2>1. PICK r : run' = [run EXCEPT ![p] = r] /\ r.demand = "recovery" /\ r.release = "hold"
    <3> DEFINE s == [run[p] EXCEPT !.demand = "recovery", !.release = "hold"]
    <3>1. s.demand = "recovery" /\ s.release = "hold"
      BY <1>2 DEF RunType
    <3>2. run' = [run EXCEPT ![p] = s]
      BY <1>8 DEF DriveReleases
    <3> QED
      BY <3>1, <3>2
  <2>2. pc' = [pc EXCEPT ![p] = pc[p]] /\ run[p].demand = "mitigation" /\ run[p].release = "off"
    BY <1>1, <1>8 DEF DriveReleases, OffInv
  <2>3. Phases(p)!Lift
    BY <2>1, <2>2, <1>a DEF Phases!Lift
  <2> QED
    BY <2>1, <2>2, <2>3, <1>a DEF Phases!Next
<1>9. CASE DriveCompletes(p)
  <2>1. PICK r : run' = [run EXCEPT ![p] = r] /\ r.demand = "complete" /\ r.release = run[p].release
    <3> DEFINE s == [run[p] EXCEPT !.demand = "complete"]
    <3>1. s.demand = "complete" /\ s.release = run[p].release
      BY <1>2 DEF RunType
    <3>2. run' = [run EXCEPT ![p] = s]
      BY <1>9 DEF DriveCompletes
    <3> QED
      BY <3>1, <3>2
  <2>2. pc[p] = "drive" /\ pc' = [pc EXCEPT ![p] = "join"] /\ run[p].demand = "recovery"
    BY <1>9 DEF DriveCompletes, At, Goto
  <2>3. Phases(p)!Complete
    BY <2>1, <2>2, <1>a DEF Phases!Complete
  <2> QED
    BY <2>1, <2>2, <2>3, <1>a DEF Phases!Next
<1>10. CASE DriveCuts(p)
  <2>1. PICK r : /\ run' = [run EXCEPT ![p] = r] /\ r.demand = "cut"
                 /\ r.release = IF run[p].release = "off" THEN "hold" ELSE run[p].release
    <3> DEFINE s == [run[p] EXCEPT !.demand = "cut", !.release = IF @ = "off" THEN "hold" ELSE @]
    <3>1. s.demand = "cut" /\ s.release = IF run[p].release = "off" THEN "hold" ELSE run[p].release
      BY <1>2 DEF RunType
    <3>2. run' = [run EXCEPT ![p] = s]
      BY <1>10 DEF DriveCuts
    <3> QED
      BY <3>1, <3>2
  <2>2. pc[p] = "drive" /\ pc' = [pc EXCEPT ![p] = "join"]
    BY <1>10 DEF DriveCuts, At, Goto
  <2>3. run[p].demand \in {"mitigation", "recovery"}
    BY <1>2, <2>2 DEF Flow
  <2>4. Phases(p)!Cut
    BY <2>1, <2>2, <2>3, <1>a DEF Phases!Cut
  <2> QED
    BY <2>1, <2>2, <2>4, <1>a DEF Phases!Next
<1>11. CASE Join(p)
  <2>1. pc[p] = "join" /\ pc' = [pc EXCEPT ![p] = "final"] /\ run' = [run EXCEPT ![p] = run[p]]
    BY <1>1, <1>11 DEF Join, At, Goto
  <2>2. run[p].demand \in {"complete", "cut"} /\ run[p].release = "done"
    BY <1>2, <1>11, <2>1 DEF Join, Joined, NotRaised, Flow, RunType, Knobs
  <2>3. Phases(p)!Close
    BY <2>1, <2>2, <1>a DEF Phases!Close
  <2> QED
    BY <2>1, <2>3, <1>a DEF Phases!Next
<1> QED
  BY <1>3, <1>4, <1>5, <1>6, <1>7, <1>8, <1>9, <1>10, <1>11
  DEF Main, Refuse, Raise, JoinRaises, Ended, FinalRaises, Kill

\* What every step of the system does to one run.
LEMMA PhaseMoves ==
  ASSUME IInv, OffInv, [Next]_vars, NEW p \in Processes
  PROVE  Unseen(p) \/ Gone(p) \/ Begins(p) \/ Phases(p)!Next
<1>1. ASSUME NEW o \in Processes, Open(o) \/ Main(o) \/ Threads(o) \/ Kill(o)
      PROVE  Unseen(p) \/ Gone(p) \/ Begins(p) \/ Phases(p)!Next
  BY <1>1, ThreadPhase, MainPhase
<1>2. CASE UNCHANGED <<pc, run>>
  BY <1>2 DEF Unseen
<1> QED
  BY <1>1, <1>2 DEF Next, campaignVars, vars, Converge, Others, Freeze, Compare

LEMMA OffStep == IInv /\ OffInv /\ [Next]_vars => OffInv'
<1> SUFFICES ASSUME IInv, OffInv, [Next]_vars, NEW p \in Processes,
                    run'[p].demand \in {"none", "mitigation"}
             PROVE  run'[p].release = "off"
  BY DEF OffInv
<1>1. CASE Unseen(p) \/ Gone(p) \/ Begins(p)
  BY <1>1 DEF Unseen, Gone, Begins, OffInv
<1>2. CASE Phases(p)!Next
  BY <1>2 DEF Phases!Next, Phases!Lift, Phases!Complete, Phases!Cut, Phases!Patch, Phases!Close, OffInv
<1> QED
  BY <1>1, <1>2, PhaseMoves

\* Every run of the campaign, from the begin of its demand to its end, goes
\* through the phases of RunPhases.
THEOREM RunsFollowPhases == Spec => RunsKeepPhases
<1> DEFINE Kept(p) ==
      run'[p].demand # "none" =>
        IF run[p].demand = "none" THEN Phases(p)!Init'
        ELSE [Phases(p)!Next]_<<run[p].demand, run[p].release, pc[p] = "final">>
<1>1. Init => OffInv
  BY DEF Init, OffInv, NoRun
<1>2. ASSUME IInv, OffInv, Next, NEW p \in Processes
      PROVE  Kept(p)
  <2> SUFFICES ASSUME run'[p].demand # "none" PROVE Kept(p)
    OBVIOUS
  <2>1. CASE run[p].demand = "none"
    <3>1. ~Phases(p)!Next
      BY <1>2, <2>1
      DEF Phases!Next, Phases!Lift, Phases!Complete, Phases!Cut, Phases!Patch, Phases!Close, OffInv
    <3>2. Begins(p)
      BY <1>2, <2>1, <3>1, PhaseMoves DEF Unseen, Gone
    <3>3. Phases(p)!Init'
      BY <1>2, <2>1, <3>2 DEF Begins, OffInv, Phases!Init
    <3> QED
      BY <2>1, <3>3
  <2>2. CASE run[p].demand # "none"
    <3>1. Unseen(p) \/ Phases(p)!Next
      BY <1>2, <2>2, PhaseMoves DEF Gone, Begins
    <3>2. Unseen(p) => UNCHANGED <<run[p].demand, run[p].release, pc[p] = "final">>
      BY DEF Unseen
    <3> QED
      BY <2>2, <3>1, <3>2
  <2> QED
    BY <2>1, <2>2
<1>3. IInv /\ OffInv /\ [Next]_vars => [\A p \in Processes : Kept(p)]_vars
  BY <1>2
<1> QED
  BY <1>1, <1>3, OffStep, Invariance, PTL DEF Spec, RunsKeepPhases

\* The runs of the campaign use drive() as it promises to be used, and leave no
\* patch behind.
THEOREM RunsKeepContract == Spec => RunKeepsContract
  BY NothingIsLeftPending, RunsFollowPhases DEF RunKeepsContract

\* Only Complete writes the second row of the initialization.
LEMMA OnlyComplete ==
  ASSUME IInv, Next, Completing
  PROVE  Complete
<1>1. Initialization
  BY DEF Completing, Next, Main, Threads, Monitor, Open, Count, Refuse, Prepare, Raise, Preflight, PreflightFails,
     DriveReleases, DriveCompletes, DriveCuts, Join, JoinRaises, Ended, FinalRaises, Sentinel, SentinelStops,
     Collect, Collected, Drifted, SnapshotFails, MonitorStops, Release, Kill, prepVars, Converge,
     Others, Freeze, Compare
<1>2. CASE Intent
  <2>1. "intent" \notin initLedger /\ initLedger' = initLedger \cup {"intent"}
    BY <1>2 DEF Intent, Step, IInv, PrepInv, JourneyInv
  <2> QED
    BY <2>1 DEF Completing, IInv, PrepInv, JourneyInv
<1> QED
  BY <1>1, <1>2 DEF Completing, Initialization, Initialize, SafetyReading, CpuReading, Launch, JourneyValid,
     Abandon, JourneyEnds, Startup

\* initialize 1833-1836, healthy_initialize 1796: an initialization completes after
\* its one journey has ended, on a sample of a positive poll that is still fresh.
THEOREM CompletionIsFresh == Spec => FreshAtCompletion
<1>1. IInv /\ [Next]_vars =>
        [Completing =>
           /\ journey.started = 1 /\ journey.live = "no"
           /\ <<prep.reading.warnings, prep.cpu.stamp>> \in seen
           /\ prep.cpu.stamp \in cluster.fresh]_vars
  <2> SUFFICES ASSUME IInv, Complete
               PROVE  /\ journey.started = 1 /\ journey.live = "no"
                      /\ <<prep.reading.warnings, prep.cpu.stamp>> \in seen
                      /\ prep.cpu.stamp \in cluster.fresh
    BY OnlyComplete
  <2>1. prep.pc = "accounting" /\ prep.cpu.stamp \in cluster.fresh
    BY DEF Complete, StillFresh
  <2>2. journey.started = 1 /\ journey.live = "no"
    BY <2>1 DEF IInv, PrepInv, JourneyInv
  <2>3. PICK x \in seen : x[2] = prep.cpu.stamp /\ x[1] = prep.reading.warnings
    BY <2>1 DEF IInv, PrepInv, SeenInv
  <2>4. seen \subseteq Nat \X (1 .. Samples)
    BY DEF IInv, PrepInv, SeenInv
  <2>5. x = <<x[1], x[2]>>
    BY <2>4
  <2> QED
    BY <2>1, <2>2, <2>3, <2>5
<1> QED
  BY <1>1, Invariance, PTL DEF Spec, FreshAtCompletion

\* CPUStartup 1521, 1587, 1598: an initialization completes on the warnings that its
\* first positive poll had counted, and on two samples when there were any.
THEOREM WarningsAreSettled == Spec => WarningsSettled
<1>1. IInv /\ [Next]_vars =>
        [Completing =>
           /\ \A x \in seen : x[1] = prep.reading.warnings
           /\ prep.reading.warnings # 0 => Cardinality({x[2] : x \in seen}) >= 2]_vars
  <2> SUFFICES ASSUME IInv, Complete
               PROVE  /\ \A x \in seen : x[1] = prep.reading.warnings
                      /\ prep.reading.warnings # 0 => Cardinality({x[2] : x \in seen}) >= 2
    BY OnlyComplete
  <2>1. SeenInv /\ PrepType /\ prep.cpu.completed = "yes" /\ prep.reading.warnings = prep.cpu.history
    BY DEF IInv, PrepInv, SeenInv, Complete
  <2>2. ASSUME prep.reading.warnings # 0
        PROVE  Cardinality({x[2] : x \in seen}) >= 2
    <3> DEFINE T == {x[2] : x \in seen}
    <3>1. /\ prep.cpu.candidate \in Nat /\ prep.cpu.stamp \in Nat
          /\ prep.cpu.candidate # 0 /\ prep.cpu.stamp > prep.cpu.candidate
      BY <2>1, <2>2 DEF SeenInv, PrepType
    <3>2. prep.cpu.candidate \in T /\ prep.cpu.stamp \in T
      BY <2>1, <3>1 DEF SeenInv
    <3>3. IsFiniteSet(T)
      <4>0. \A x \in Nat \X (1 .. Samples) : x[2] \in 1 .. Samples
        OBVIOUS
      <4>1. T \subseteq 1 .. Samples
        BY <2>1, <4>0 DEF SeenInv
      <4>2. IsFiniteSet(1 .. Samples)
        BY FS_Interval
      <4> QED
        BY <4>1, <4>2, FS_Subset
    <3> HIDE DEF T
    <3>4. Cardinality(T) \in Nat /\ Cardinality(T) # 0
      BY <3>2, <3>3, FS_CardinalityType, FS_EmptySet
    <3>5. ~(Cardinality(T) <= 1)
      BY <3>1, <3>2, <3>3, OnlyOne
    <3>6. Cardinality(T) >= 2
      BY <3>4, <3>5
    <3> QED
      BY <3>6 DEF T
  <2> QED
    BY <2>1, <2>2 DEF SeenInv
<1> QED
  BY <1>1, Invariance, PTL DEF Spec, WarningsSettled
=============================================================================
