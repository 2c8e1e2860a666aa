---------------------------- MODULE PairRunProofs ----------------------------
(***************************************************************************)
(* Proofs about the local pair, for every plan of arrivals, number of      *)
(* workers, backlog, capacity and bound on faults.                         *)
(***************************************************************************)
EXTENDS PairRunProps, FiniteSetTheorems, WellFoundedInduction, TLAPS

USE WindowAssumption

-----------------------------------------------------------------------------
(* The window.                                                             *)

Failed == {n \in Items : row[n] = "failed"}
CriticalFailed == \E n \in Items : Kind[n] = "critical" /\ row[n] = "failed"

WindowType ==
  /\ window \in {"closed", "open", "done"} /\ arm \in Arms
  /\ now \in 0..Horizon /\ cursor \in 1..(N + 1)
  /\ stage \in [Items -> {"planned", "queued", "ready", "done"} \cup Targets]
  /\ part \in [Items -> Nat]
  /\ attempts \in [Items -> 0..MaxAttempts] /\ row \in [Items -> Outcomes \cup {"open"}]
  /\ rejected \in [Classes -> Nat] /\ orphans \in [Targets -> Nat]

\* The rows are those of the operations that are done, and a window that is
\* done has all of them.
RowInv ==
  /\ \A n \in Items : row[n] # "open" <=> stage[n] = "done"
  /\ \A n \in Items : stage[n] = "planned" <=> cursor <= n
  /\ window = "done" => \A n \in Items : stage[n] = "done"

\* A check only stays held without a client when its operation has failed.
OrphanInv == \A t \in Targets : orphans[t] <= Cardinality(Failed)

BusyInv == \A k \in Classes : Cardinality(Busy(k)) <= Workers[k]

\* In the isolated arm the pools do not meet.
SeparateInv ==
  arm = "isolated" =>
    /\ \A n \in Items : stage[n] = "first" => Kind[n] = "critical"
    /\ orphans["first"] > 0 => CriticalFailed
    /\ Workers["critical"] <= Capacity /\ rejected["critical"] > 0 => CriticalFailed

WindowInv == WindowType /\ RowInv /\ OrphanInv /\ BusyInv /\ SeparateInv

LEMMA ItemsFinite == IsFiniteSet(Items) /\ Cardinality(Items) = N
  BY FS_Interval DEF Items

\* Subsets of the arrivals can be counted, by inclusion.
LEMMA Counted ==
  ASSUME NEW S \in SUBSET Items, NEW T \in SUBSET S
  PROVE  /\ IsFiniteSet(S) /\ Cardinality(S) \in Nat /\ Cardinality(S) <= N
         /\ IsFiniteSet(T) /\ Cardinality(T) \in Nat /\ Cardinality(T) <= Cardinality(S)
<1>1. IsFiniteSet(S) /\ Cardinality(S) <= N
  BY ItemsFinite, FS_Subset
<1>2. IsFiniteSet(T) /\ Cardinality(T) <= Cardinality(S)
  BY <1>1, FS_Subset
<1> QED
  BY <1>1, <1>2, FS_CardinalityType

LEMMA CountedOneMore ==
  ASSUME NEW S \in SUBSET Items, NEW x \in Items
  PROVE  /\ Cardinality(S \cup {x}) <= Cardinality(S) + 1
         /\ x \notin S => Cardinality(S \cup {x}) = Cardinality(S) + 1
<1>1. IsFiniteSet(S) /\ Cardinality(S) \in Nat
  BY Counted
<1>2. Cardinality(S \cup {x}) = IF x \in S THEN Cardinality(S) ELSE Cardinality(S) + 1
  <2>1. CASE x \in S
    <3>1. S \cup {x} = S
      BY <2>1
    <3> QED
      BY <2>1, <3>1
  <2>2. CASE x \notin S
    BY <2>2, <1>1, FS_AddElement
  <2> QED
    BY <2>1, <2>2
<1> QED
  BY <1>1, <1>2

\* A window as it is opened, or reset.
LEMMA FreshWindow ==
  ASSUME Fresh, window' \in {"closed", "open"}, arm' \in Arms
  PROVE  WindowInv'
<1>1. WindowType'
  <2>1. 1 \in 1..(N + 1) /\ 0 \in 0..Horizon /\ 0 \in 0..MaxAttempts
    OBVIOUS
  <2> QED
    BY <2>1 DEF Fresh, WindowType, Outcomes
<1>2. RowInv'
  BY DEF Fresh, RowInv, Items
<1>3. OrphanInv'
  <2>0. Failed' \in SUBSET Items
    BY DEF Failed
  <2>1. Cardinality(Failed)' \in Nat
    BY <2>0, Counted
  <2> QED
    BY <2>1 DEF Fresh, OrphanInv, Targets
<1>4. BusyInv'
  <2>1. \A k \in Classes : Busy(k)' = {}
    BY DEF Fresh, Busy, Unfinished
  <2>2. \A k \in Classes : Cardinality(Busy(k))' = 0
    BY <2>1, FS_EmptySet
  <2> QED
    BY <2>2 DEF BusyInv
<1>5. SeparateInv'
  BY DEF Fresh, SeparateInv, Targets, Classes
<1> QED
  BY <1>1, <1>2, <1>3, <1>4, <1>5 DEF WindowInv

LEMMA WindowSame ==
  ASSUME WindowInv, UNCHANGED windowVars, arm' \in {arm, "shared"}
  PROVE  WindowInv'
<1> USE DEF windowVars, driveVars, countVars
<1>1. WindowType' /\ RowInv'
  BY DEF WindowInv, WindowType, RowInv, Arms
<1>2. OrphanInv' /\ BusyInv'
  BY DEF WindowInv, OrphanInv, BusyInv, Failed, Busy, Unfinished
<1>3. SeparateInv'
  BY DEF WindowInv, SeparateInv, CriticalFailed
<1> QED
  BY <1>1, <1>2, <1>3 DEF WindowInv

\* What every step of an operation does to the rows.
Moved(n, s, o) ==
  /\ stage' = [stage EXCEPT ![n] = s]
  /\ row' = IF s = "done" THEN [row EXCEPT ![n] = o] ELSE row
  /\ stage[n] # "done"
  /\ cursor' = IF stage[n] = "planned" THEN cursor + 1 ELSE cursor
  /\ stage[n] = "planned" => n = cursor

LEMMA MovedKeeps ==
  ASSUME WindowInv, NEW n \in Items, NEW s \in {"queued", "ready", "done"} \cup Targets,
         NEW o \in Outcomes, Moved(n, s, o), window = "open", window' = window
  PROVE  /\ RowInv'
         /\ cursor' \in 1..(N + 1)
         /\ stage' \in [Items -> {"planned", "queued", "ready", "done"} \cup Targets]
         /\ row' \in [Items -> Outcomes \cup {"open"}]
         /\ Failed \subseteq Failed'
         /\ s = "done" /\ o = "failed" => n \notin Failed /\ Failed' = Failed \cup {n}
<1>0. /\ cursor \in 1..(N + 1) /\ row \in [Items -> Outcomes \cup {"open"}]
      /\ stage \in [Items -> {"planned", "queued", "ready", "done"} \cup Targets]
  BY DEF WindowInv, WindowType
<1>1. /\ \A m \in Items : (row[m] # "open" <=> stage[m] = "done") /\ (stage[m] = "planned" <=> cursor <= m)
      /\ \A m \in Items : m \in 1..N
  BY DEF WindowInv, RowInv, Items
<1>2. stage[n] # "done" /\ row[n] = "open" /\ s # "planned" /\ o # "open" /\ "failed" # "open"
  <2>1. stage[n] # "done" /\ row[n] = "open"
    BY <1>1 DEF Moved
  <2> QED
    BY <2>1 DEF Outcomes, Targets
<1>3. stage' = [stage EXCEPT ![n] = s] /\ row' = IF s = "done" THEN [row EXCEPT ![n] = o] ELSE row
  BY DEF Moved
<1>4. /\ cursor' = IF stage[n] = "planned" THEN cursor + 1 ELSE cursor
      /\ stage[n] = "planned" => n = cursor
  BY DEF Moved
<1>5. stage' \in [Items -> {"planned", "queued", "ready", "done"} \cup Targets]
  BY <1>0, <1>3
<1>6. row' \in [Items -> Outcomes \cup {"open"}]
  BY <1>0, <1>3
<1>7. cursor' \in 1..(N + 1)
  <2>1. CASE stage[n] = "planned"
    <3>1. cursor' = n + 1 /\ n \in 1..N
      BY <1>1, <1>4, <2>1
    <3> QED
      BY <3>1
  <2>2. CASE stage[n] # "planned"
    BY <1>0, <1>4, <2>2
  <2> QED
    BY <2>1, <2>2
<1>8. /\ stage'[n] = s /\ row'[n] = IF s = "done" THEN o ELSE row[n]
      /\ \A m \in Items \ {n} : stage'[m] = stage[m] /\ row'[m] = row[m]
  BY <1>0, <1>3
<1>9. \A m \in Items : row'[m] # "open" <=> stage'[m] = "done"
  BY <1>1, <1>2, <1>8
<1>10. \A m \in Items : stage'[m] = "planned" <=> cursor' <= m
  <2> SUFFICES ASSUME NEW m \in Items
               PROVE  stage'[m] = "planned" <=> cursor' <= m
    OBVIOUS
  <2>1. m \in Int /\ n \in Int /\ cursor \in Int
    BY <1>0, <1>1
  <2>2. CASE m = n
    <3>1. stage'[m] # "planned"
      BY <1>2, <1>8, <2>2
    <3>2. CASE stage[n] = "planned"
      BY <1>4, <2>1, <2>2, <3>1, <3>2
    <3>3. CASE stage[n] # "planned"
      BY <1>1, <1>4, <2>2, <3>1, <3>3
    <3> QED
      BY <3>2, <3>3
  <2>3. CASE m # n
    <3>1. stage'[m] = stage[m] /\ (stage[m] = "planned" <=> cursor <= m)
      BY <1>1, <1>8, <2>3
    <3>2. CASE stage[n] = "planned"
      <4>1. cursor' = cursor + 1 /\ n = cursor
        BY <1>4, <3>2
      <4>2. cursor + 1 <= m <=> cursor <= m
        BY <2>1, <2>3, <4>1
      <4> QED
        BY <3>1, <4>1, <4>2
    <3>3. CASE stage[n] # "planned"
      BY <1>4, <3>1, <3>3
    <3> QED
      BY <3>2, <3>3
  <2> QED
    BY <2>2, <2>3
<1>11. Failed \subseteq Failed'
  BY <1>2, <1>8 DEF Failed
<1>12. ASSUME s = "done", o = "failed"
       PROVE  n \notin Failed /\ Failed' = Failed \cup {n}
  <2>1. row'[n] = "failed" /\ \A m \in Items \ {n} : row'[m] = row[m]
    BY <1>8, <1>12
  <2> QED
    BY <1>2, <2>1 DEF Failed
<1>13. window' = "open" /\ RowInv'
  BY <1>9, <1>10 DEF RowInv
<1> QED
  BY <1>5, <1>6, <1>7, <1>11, <1>12, <1>13

\* A held check that is left behind is one of an operation that fails.
LEMMA OrphansKeep ==
  ASSUME OrphanInv, orphans \in [Targets -> Nat], orphans' = orphans, Failed \subseteq Failed'
  PROVE  OrphanInv'
<1>1. Failed \in SUBSET Failed' /\ Failed' \in SUBSET Items
  BY DEF Failed
<1>2. Cardinality(Failed) \in Nat /\ Cardinality(Failed)' \in Nat /\ Cardinality(Failed) <= Cardinality(Failed)'
  BY <1>1, Counted
<1> QED
  BY <1>2 DEF OrphanInv

\* No operation more at work than before.
LEMMA BusyShrinks ==
  ASSUME BusyInv, \A k \in Classes : Busy(k)' \subseteq Busy(k)
  PROVE  BusyInv'
<1> SUFFICES ASSUME NEW k \in Classes
             PROVE  Cardinality(Busy(k))' <= Workers[k]
  BY DEF BusyInv
<1>1. Busy(k)' \in SUBSET Busy(k) /\ Busy(k) \in SUBSET Items
  BY DEF Busy, Unfinished
<1>2. Cardinality(Busy(k)) \in Nat /\ Cardinality(Busy(k))' \in Nat /\ Cardinality(Busy(k))' <= Cardinality(Busy(k))
  BY <1>1, Counted
<1> QED
  BY <1>2 DEF BusyInv

-----------------------------------------------------------------------------
(* The steps of a window.                                                  *)

LEMMA ArriveKeeps ==
  ASSUME WindowInv, Arrive, UNCHANGED arm
  PROVE  WindowInv'
<1> USE DEF Arrive, LeaveOut, Enter, countVars
<1>1. cursor \in Items /\ stage[cursor] = "planned"
  BY DEF WindowInv, WindowType, RowInv, Items
<1>2. PICK s \in {"queued", "done"} : Moved(cursor, s, "unsubmitted")
  <2>1. CASE Cardinality(Unfinished) >= Backlog
    <3>1. Moved(cursor, "done", "unsubmitted")
      BY <1>1, <2>1 DEF Moved
    <3> QED
      BY <3>1
  <2>2. CASE ~(Cardinality(Unfinished) >= Backlog)
    <3>1. Moved(cursor, "queued", "unsubmitted")
      BY <1>1, <2>2 DEF Moved
    <3> QED
      BY <3>1
  <2> QED
    BY <2>1, <2>2
<1>3. /\ RowInv' /\ Failed \subseteq Failed'
      /\ cursor' \in 1..(N + 1)
      /\ stage' \in [Items -> {"planned", "queued", "ready", "done"} \cup Targets]
      /\ row' \in [Items -> Outcomes \cup {"open"}]
  BY <1>1, <1>2, MovedKeeps DEF Outcomes
<1>4. WindowType'
  BY <1>3 DEF WindowInv, WindowType
<1>5. OrphanInv'
  BY <1>3, OrphansKeep DEF WindowInv, WindowType
<1>6. BusyInv'
  <2>1. \A k \in Classes : Busy(k)' \subseteq Busy(k)
    BY <1>1, <1>2 DEF Busy, Unfinished, Moved, WindowInv, WindowType
  <2> QED
    BY <2>1, BusyShrinks DEF WindowInv
<1>7. SeparateInv'
  <2>1. \A n \in Items : stage'[n] = "first" => stage[n] = "first"
    BY <1>1, <1>2 DEF Moved, WindowInv, WindowType
  <2> QED
    BY <1>3, <2>1 DEF WindowInv, SeparateInv, CriticalFailed, Failed
<1> QED
  BY <1>3, <1>4, <1>5, <1>6, <1>7 DEF WindowInv

LEMMA TakeKeeps ==
  ASSUME WindowInv, NEW n \in Items, Take(n), UNCHANGED arm
  PROVE  WindowInv'
<1> USE DEF Take, Enter, countVars
<1>0. Kind[n] \in Classes
  OBVIOUS
<1>1. PICK s \in {"ready", "done"} : Moved(n, s, "unissued")
  <2>1. CASE now < Duration
    <3>1. Moved(n, "ready", "unissued")
      BY <2>1 DEF Moved
    <3> QED
      BY <3>1
  <2>2. CASE ~(now < Duration)
    <3>1. Moved(n, "done", "unissued")
      BY <2>2 DEF Moved
    <3> QED
      BY <3>1
  <2> QED
    BY <2>1, <2>2
<1>2. /\ RowInv' /\ Failed \subseteq Failed'
      /\ cursor' \in 1..(N + 1)
      /\ stage' \in [Items -> {"planned", "queued", "ready", "done"} \cup Targets]
      /\ row' \in [Items -> Outcomes \cup {"open"}]
  BY <1>1, MovedKeeps DEF Outcomes
<1>3. attempts' \in [Items -> 0..MaxAttempts]
  <2>1. 1 \in 0..MaxAttempts
    OBVIOUS
  <2> QED
    BY <2>1 DEF WindowInv, WindowType
<1>4. WindowType'
  BY <1>2, <1>3 DEF WindowInv, WindowType
<1>5. OrphanInv'
  BY <1>2, OrphansKeep DEF WindowInv, WindowType
<1>6. BusyInv'
  <2> SUFFICES ASSUME NEW k \in Classes
               PROVE  Cardinality(Busy(k))' <= Workers[k]
    BY DEF BusyInv
  <2>1. Busy(k) \in SUBSET Items /\ Busy(k)' \in SUBSET Items /\ Workers[k] \in Nat
    BY DEF Busy, Unfinished
  <2>2. CASE k = Kind[n]
    <3>1. Busy(k)' \in SUBSET (Busy(k) \cup {n})
      BY <1>1 DEF Busy, Unfinished, Moved, WindowInv, WindowType
    <3>2. Cardinality(Busy(k)) \in Nat /\ Cardinality(Busy(k)) < Workers[k]
      BY <2>1, <2>2, Counted
    <3>3. /\ Cardinality(Busy(k) \cup {n}) \in Nat
          /\ Cardinality(Busy(k))' \in Nat
          /\ Cardinality(Busy(k))' <= Cardinality(Busy(k) \cup {n})
      BY <2>1, <3>1, Counted
    <3>4. Cardinality(Busy(k) \cup {n}) <= Cardinality(Busy(k)) + 1
      BY <2>1, CountedOneMore
    <3> QED
      BY <2>1, <3>2, <3>3, <3>4
  <2>3. CASE k # Kind[n]
    <3>1. Busy(k)' \in SUBSET Busy(k)
      BY <1>1, <2>3 DEF Busy, Unfinished, Moved, WindowInv, WindowType
    <3>2. /\ Cardinality(Busy(k)) \in Nat /\ Cardinality(Busy(k))' \in Nat
          /\ Cardinality(Busy(k))' <= Cardinality(Busy(k))
      BY <2>1, <3>1, Counted
    <3> QED
      BY <2>1, <3>2 DEF WindowInv, BusyInv
  <2> QED
    BY <2>2, <2>3
<1>7. SeparateInv'
  <2>1. \A m \in Items : stage'[m] = "first" => stage[m] = "first"
    BY <1>1 DEF Moved, WindowInv, WindowType
  <2> QED
    BY <1>2, <2>1 DEF WindowInv, SeparateInv, CriticalFailed, Failed
<1> QED
  BY <1>2, <1>4, <1>5, <1>6, <1>7 DEF WindowInv

\* An overload is tried again or recorded.
LEMMA OverloadMoves ==
  ASSUME WindowInv, NEW n \in Items, Overload(n), stage[n] \in {"ready"} \cup Targets,
         UNCHANGED cursor
  PROVE  /\ \E s \in {"ready", "done"} : Moved(n, s, "overloaded")
         /\ attempts' \in [Items -> 0..MaxAttempts]
         /\ part' \in [Items -> Nat]
<1> USE DEF Overload, Enter
<1>1. CASE attempts[n] < MaxAttempts
  <2>1. Moved(n, "ready", "overloaded")
    BY <1>1 DEF Moved, Targets
  <2>2. attempts[n] + 1 \in 0..MaxAttempts
    BY <1>1 DEF WindowInv, WindowType
  <2> QED
    BY <1>1, <2>1, <2>2 DEF WindowInv, WindowType
<1>2. CASE ~(attempts[n] < MaxAttempts)
  <2>1. Moved(n, "done", "overloaded")
    BY <1>2 DEF Moved, Targets
  <2> QED
    BY <1>2, <2>1 DEF WindowInv, WindowType
<1> QED
  BY <1>1, <1>2

\* An operation that moves between a worker, a target and its end leaves the
\* workers as busy as they were, or less.
LEMMA MovedBusy ==
  ASSUME WindowInv, NEW n \in Items, NEW s \in {"ready", "done"} \cup Targets, NEW o \in Outcomes,
         Moved(n, s, o), stage[n] \in {"ready"} \cup Targets
  PROVE  BusyInv'
<1>1. \A k \in Classes : Busy(k)' \subseteq Busy(k)
  BY DEF Busy, Unfinished, Moved, WindowInv, WindowType, Targets
<1> QED
  BY <1>1, BusyShrinks DEF WindowInv

\* A check of a Critical operation finds room in its own pool, unless a check
\* of a client that failed is still held there.
LEMMA CriticalHasRoom ==
  ASSUME WindowInv, NEW n \in Items, arm = "isolated", Kind[n] = "critical",
         stage[n] = "ready", Workers["critical"] <= Capacity, ~Room("first")
  PROVE  CriticalFailed
<1> DEFINE Held == {m \in Items : stage[m] = "first"}
           Mine == Busy("critical")
<1>0. "first" \in Targets /\ "critical" \in Classes
  BY DEF Targets, Classes
<1>1. Held \in SUBSET Mine /\ n \in Mine /\ n \notin Held
  <2>1. \A m \in Held : Kind[m] = "critical"
    BY DEF WindowInv, SeparateInv
  <2> QED
    BY <2>1 DEF Busy, Unfinished
<1>2. Held \cup {n} \in SUBSET Mine /\ Mine \in SUBSET Items /\ Held \in SUBSET Items
  BY <1>1 DEF Busy, Unfinished
<1>3. /\ Cardinality(Held) \in Nat /\ Cardinality(Mine) \in Nat
      /\ Cardinality(Held \cup {n}) <= Cardinality(Mine)
      /\ Cardinality(Held \cup {n}) = Cardinality(Held) + 1
  BY <1>1, <1>2, Counted, CountedOneMore
<1>4. Cardinality(Mine) <= Workers["critical"] /\ Workers["critical"] \in Nat
  BY <1>0 DEF WindowInv, BusyInv
<1>5. Cardinality(Held) < Capacity
  <2> HIDE DEF Held, Mine
  <2> QED
    BY <1>3, <1>4
<1>6. orphans["first"] \in Nat
  BY <1>0 DEF WindowInv, WindowType
<1>7. orphans["first"] > 0
  <2>1. Active("first") = Cardinality(Held) + orphans["first"]
    BY DEF Active
  <2> HIDE DEF Held
  <2> QED
    BY <1>3, <1>5, <1>6, <2>1 DEF Room
<1> QED
  BY <1>7 DEF WindowInv, SeparateInv

LEMMA RequestKeeps ==
  ASSUME WindowInv, NEW n \in Items, Request(n), UNCHANGED arm
  PROVE  WindowInv'
<1> USE DEF Request, countVars
<1>0. /\ Kind[n] \in Classes /\ window = "open" /\ window' = window
      /\ orphans \in [Targets -> Nat] /\ OrphanInv /\ SeparateInv
      /\ rejected \in [Classes -> Nat] /\ stage \in [Items -> {"planned", "queued", "ready", "done"} \cup Targets]
  BY DEF WindowInv, WindowType
<1>1. CASE Lose(n)
  <2>1. Moved(n, "done", "failed")
    BY <1>1 DEF Lose, Enter, Moved
  <2>2. /\ RowInv' /\ Failed \subseteq Failed'
        /\ cursor' \in 1..(N + 1)
        /\ stage' \in [Items -> {"planned", "queued", "ready", "done"} \cup Targets]
        /\ row' \in [Items -> Outcomes \cup {"open"}]
    BY <1>0, <2>1, MovedKeeps DEF Outcomes
  <2>3. WindowType'
    BY <1>1, <2>2 DEF Lose, WindowInv, WindowType
  <2>4. OrphanInv'
    BY <1>0, <2>2, OrphansKeep
  <2>5. BusyInv'
    BY <2>1, MovedBusy DEF Outcomes
  <2>6. SeparateInv'
    <3>1. \A m \in Items : stage'[m] = "first" => stage[m] = "first"
      BY <1>0, <2>1 DEF Moved
    <3>2. rejected' = rejected
      BY <1>1 DEF Lose
    <3> QED
      BY <1>0, <2>2, <3>1, <3>2 DEF SeparateInv, CriticalFailed, Failed
  <2> QED
    BY <2>2, <2>3, <2>4, <2>5, <2>6 DEF WindowInv
<1>2. ASSUME NEW t \in Targets, Check(n, t), Room(t)
      PROVE  WindowInv'
  <2>0. t # "done" /\ t # "planned"
    BY DEF Targets
  <2>1. Moved(n, t, "failed")
    BY <1>2, <2>0 DEF Check, Moved
  <2>2. /\ RowInv' /\ Failed \subseteq Failed'
        /\ cursor' \in 1..(N + 1)
        /\ stage' \in [Items -> {"planned", "queued", "ready", "done"} \cup Targets]
        /\ row' \in [Items -> Outcomes \cup {"open"}]
    BY <1>0, <2>1, MovedKeeps DEF Outcomes
  <2>3. WindowType'
    BY <1>2, <2>2 DEF Check, WindowInv, WindowType
  <2>4. OrphanInv'
    BY <1>0, <2>2, OrphansKeep
  <2>5. BusyInv'
    BY <2>1, MovedBusy DEF Outcomes
  <2>6. SeparateInv'
    <3>1. arm = "isolated" => \A m \in Items : stage'[m] = "first" => stage[m] = "first" \/ (m = n /\ Kind[n] = "critical")
      BY <1>0, <1>2, <2>1 DEF Moved, Check, Serves
    <3>2. rejected' = rejected
      BY <1>2 DEF Check
    <3> QED
      BY <1>0, <2>2, <3>1, <3>2 DEF SeparateInv, CriticalFailed, Failed
  <2> QED
    BY <2>2, <2>3, <2>4, <2>5, <2>6 DEF WindowInv
<1>3. ASSUME NEW t \in Targets, Check(n, t), ~Room(t)
      PROVE  WindowInv'
  <2>0. /\ Overload(n) /\ Serves(t, Kind[n]) /\ cursor' = cursor
        /\ rejected' = [rejected EXCEPT ![Kind[n]] = @ + 1]
    BY <1>3 DEF Check
  <2>1. PICK s \in {"ready", "done"} : Moved(n, s, "overloaded")
    BY <2>0, OverloadMoves
  <2>2. /\ RowInv' /\ Failed \subseteq Failed'
        /\ cursor' \in 1..(N + 1)
        /\ stage' \in [Items -> {"planned", "queued", "ready", "done"} \cup Targets]
        /\ row' \in [Items -> Outcomes \cup {"open"}]
    BY <1>0, <2>1, MovedKeeps DEF Outcomes
  <2>3. attempts' \in [Items -> 0..MaxAttempts] /\ part' \in [Items -> Nat]
    BY <2>0, OverloadMoves
  <2>4. rejected' \in [Classes -> Nat]
    BY <1>0, <2>0
  <2>5. WindowType'
    BY <2>2, <2>3, <2>4 DEF WindowInv, WindowType
  <2>6. OrphanInv'
    BY <1>0, <2>2, OrphansKeep
  <2>7. BusyInv'
    BY <2>1, MovedBusy DEF Outcomes
  <2>8. SeparateInv'
    <3>1. \A m \in Items : stage'[m] = "first" => stage[m] = "first"
      BY <1>0, <2>1 DEF Moved
    <3>2. CriticalFailed => CriticalFailed'
      BY <2>2 DEF CriticalFailed, Failed
    <3>3. ASSUME arm = "isolated", Workers["critical"] <= Capacity, rejected'["critical"] > 0
          PROVE  CriticalFailed
      <4>1. CASE Kind[n] = "critical"
        <5>1. t = "first"
          BY <2>0, <3>3, <4>1 DEF Serves
        <5> QED
          BY <1>3, <3>3, <4>1, <5>1, CriticalHasRoom
      <4>2. CASE Kind[n] # "critical"
        <5>1. rejected'["critical"] = rejected["critical"]
          BY <1>0, <2>0, <4>2 DEF Classes
        <5> QED
          BY <1>0, <3>3, <5>1 DEF SeparateInv
      <4> QED
        BY <4>1, <4>2
    <3> QED
      BY <1>0, <3>1, <3>2, <3>3 DEF SeparateInv
  <2> QED
    BY <2>2, <2>5, <2>6, <2>7, <2>8 DEF WindowInv
<1> QED
  BY <1>1, <1>2, <1>3

LEMMA AnswerKeeps ==
  ASSUME WindowInv, NEW n \in Items, Answer(n), UNCHANGED arm
  PROVE  WindowInv'
<1> USE DEF Answer
<1>0. /\ window = "open" /\ window' = window /\ stage[n] \in Targets
      /\ orphans \in [Targets -> Nat] /\ OrphanInv /\ SeparateInv /\ rejected' = rejected
      /\ stage \in [Items -> {"planned", "queued", "ready", "done"} \cup Targets]
  BY DEF WindowInv, WindowType
<1>1. ASSUME NEW s \in {"ready", "done"}, NEW o \in Outcomes, Moved(n, s, o), orphans' = orphans,
             attempts' \in [Items -> 0..MaxAttempts], part' \in [Items -> Nat]
      PROVE  WindowInv'
  <2>1. /\ RowInv' /\ Failed \subseteq Failed'
        /\ cursor' \in 1..(N + 1)
        /\ stage' \in [Items -> {"planned", "queued", "ready", "done"} \cup Targets]
        /\ row' \in [Items -> Outcomes \cup {"open"}]
    BY <1>0, <1>1, MovedKeeps
  <2>2. WindowType'
    BY <1>1, <2>1 DEF WindowInv, WindowType
  <2>3. OrphanInv'
    BY <1>0, <1>1, <2>1, OrphansKeep
  <2>4. BusyInv'
    BY <1>0, <1>1, MovedBusy
  <2>5. SeparateInv'
    <3>1. \A m \in Items : stage'[m] = "first" => stage[m] = "first"
      BY <1>0, <1>1 DEF Moved, Targets
    <3> QED
      BY <1>0, <1>1, <2>1, <3>1 DEF SeparateInv, CriticalFailed, Failed
  <2> QED
    BY <2>1, <2>2, <2>3, <2>4, <2>5 DEF WindowInv
<1>2. CASE Continue(n) /\ UNCHANGED <<attempts, denials, orphans>>
  <2>1. attempts' \in [Items -> 0..MaxAttempts]
    BY <1>2 DEF WindowInv, WindowType
  <2>2. CASE part[n] < Parts(n)
    <3>1. Moved(n, "ready", "success")
      BY <1>0, <1>2, <2>2 DEF Continue, Moved, Targets
    <3>2. part' \in [Items -> Nat]
      BY <1>2, <2>2 DEF Continue, WindowInv, WindowType
    <3> QED
      BY <1>1, <1>2, <2>1, <3>1, <3>2 DEF Outcomes
  <2>3. CASE ~(part[n] < Parts(n))
    <3>1. Moved(n, "done", "success")
      BY <1>0, <1>2, <2>3 DEF Continue, Enter, Moved, Targets
    <3>2. part' \in [Items -> Nat]
      BY <1>2, <2>3 DEF Continue, WindowInv, WindowType
    <3> QED
      BY <1>1, <1>2, <2>1, <3>1, <3>2 DEF Outcomes
  <2> QED
    BY <2>2, <2>3
<1>3. CASE MayFail /\ Overload(n) /\ denials' = denials + 1 /\ UNCHANGED orphans
  <2>1. PICK s \in {"ready", "done"} : Moved(n, s, "overloaded")
    BY <1>0, <1>3, OverloadMoves
  <2>2. attempts' \in [Items -> 0..MaxAttempts] /\ part' \in [Items -> Nat]
    BY <1>0, <1>3, OverloadMoves
  <2> QED
    BY <1>1, <1>3, <2>1, <2>2 DEF Outcomes
<1>4. CASE /\ MayFail /\ Enter(n, "failed")
           /\ orphans' \in {orphans, [orphans EXCEPT ![stage[n]] = @ + 1]}
           /\ UNCHANGED <<part, attempts, denials>>
  <2>1. Moved(n, "done", "failed")
    BY <1>0, <1>4 DEF Enter, Moved, Targets
  <2>2. /\ RowInv' /\ Failed \subseteq Failed'
        /\ cursor' \in 1..(N + 1)
        /\ stage' \in [Items -> {"planned", "queued", "ready", "done"} \cup Targets]
        /\ row' \in [Items -> Outcomes \cup {"open"}]
        /\ n \notin Failed /\ Failed' = Failed \cup {n}
    BY <1>0, <2>1, MovedKeeps DEF Outcomes
  <2>3. orphans' \in [Targets -> Nat] /\ \A t \in Targets : orphans'[t] <= orphans[t] + 1
    BY <1>0, <1>4
  <2>4. WindowType'
    BY <1>4, <2>2, <2>3 DEF WindowInv, WindowType
  <2>5. OrphanInv'
    <3>1. Failed \in SUBSET Items
      BY DEF Failed
    <3>2. Cardinality(Failed)' = Cardinality(Failed) + 1 /\ Cardinality(Failed) \in Nat
      BY <2>2, <3>1, CountedOneMore, Counted
    <3> QED
      BY <1>0, <2>3, <3>2 DEF OrphanInv
  <2>6. BusyInv'
    BY <1>0, <2>1, MovedBusy DEF Outcomes
  <2>7. SeparateInv'
    <3>1. \A m \in Items : stage'[m] = "first" => stage[m] = "first"
      BY <1>0, <2>1 DEF Moved, Targets
    <3>2. CriticalFailed => CriticalFailed'
      BY <2>2 DEF CriticalFailed, Failed
    <3>3. ASSUME arm = "isolated", orphans'["first"] > 0
          PROVE  CriticalFailed'
      <4>1. CASE stage[n] = "first"
        <5>1. Kind[n] = "critical"
          BY <1>0, <3>3, <4>1 DEF SeparateInv
        <5> QED
          BY <2>2, <5>1 DEF CriticalFailed, Failed
      <4>2. CASE stage[n] # "first"
        <5>1. orphans'["first"] = orphans["first"]
          BY <1>0, <1>4, <4>2 DEF Targets
        <5> QED
          BY <1>0, <3>2, <3>3, <5>1 DEF SeparateInv
      <4> QED
        BY <4>1, <4>2
    <3> QED
      BY <1>0, <3>1, <3>2, <3>3 DEF SeparateInv
  <2> QED
    BY <2>2, <2>4, <2>5, <2>6, <2>7 DEF WindowInv
<1> QED
  BY <1>2, <1>3, <1>4

LEMMA ReleaseKeeps ==
  ASSUME WindowInv, NEW t \in Targets, Release(t), UNCHANGED arm
  PROVE  WindowInv'
<1> USE DEF Release, countVars
<1>1. orphans' \in [Targets -> Nat] /\ \A u \in Targets : orphans'[u] <= orphans[u]
  BY DEF WindowInv, WindowType
<1>2. WindowType' /\ RowInv'
  BY <1>1 DEF WindowInv, WindowType, RowInv
<1>3. OrphanInv'
  <2>1. Failed' = Failed /\ Failed \in SUBSET Items
    BY DEF Failed
  <2>2. Cardinality(Failed) \in Nat /\ Cardinality(Failed)' = Cardinality(Failed)
    BY <2>1, Counted
  <2> QED
    BY <1>1, <2>2 DEF WindowInv, WindowType, OrphanInv
<1>4. BusyInv'
  BY DEF WindowInv, BusyInv, Busy, Unfinished
<1>5. SeparateInv'
  <2>1. orphans'["first"] > 0 => orphans["first"] > 0
    BY <1>1 DEF WindowInv, WindowType, Targets
  <2> QED
    BY <2>1 DEF WindowInv, SeparateInv, CriticalFailed
<1> QED
  BY <1>2, <1>3, <1>4, <1>5 DEF WindowInv

LEMMA ClockKeeps ==
  ASSUME WindowInv, Tick \/ End, UNCHANGED arm
  PROVE  WindowInv'
<1> USE DEF Tick, End, driveVars, countVars
<1>1. WindowType'
  BY DEF WindowInv, WindowType
<1>2. RowInv'
  <2>1. CASE Tick
    BY <2>1 DEF WindowInv, RowInv
  <2>2. CASE End
    <3>1. \A n \in Items : stage[n] = "done"
      <4>1. cursor > N /\ Unfinished = {} /\ cursor \in 1..(N + 1)
        BY <2>2 DEF WindowInv, WindowType
      <4>2. \A n \in Items : stage[n] \in {"planned", "done"}
        BY <4>1 DEF Unfinished
      <4>3. \A n \in Items : ~(cursor <= n)
        BY <4>1 DEF Items
      <4>4. \A n \in Items : stage[n] # "planned"
        BY <4>3 DEF WindowInv, RowInv
      <4> QED
        BY <4>2, <4>4
    <3> QED
      BY <2>2, <3>1 DEF WindowInv, RowInv
  <2> QED
    BY <2>1, <2>2
<1>3. OrphanInv' /\ BusyInv'
  BY DEF WindowInv, OrphanInv, BusyInv, Failed, Busy, Unfinished
<1>4. SeparateInv'
  BY DEF WindowInv, SeparateInv, CriticalFailed
<1> QED
  BY <1>1, <1>2, <1>3, <1>4 DEF WindowInv

LEMMA WindowStepKeeps ==
  ASSUME WindowInv, WindowStep, UNCHANGED arm
  PROVE  WindowInv'
BY ClockKeeps, ArriveKeeps, TakeKeeps, RequestKeeps, AnswerKeeps, ReleaseKeeps DEF WindowStep

-----------------------------------------------------------------------------
(* The run around the window.                                              *)

Routing == {"route", "restart", "converge"}
AfterBase == {"hold", "serve", "ready", "verify", "finish", "ended"}
Restoring == {"remove", "reap"} \cup Routing \cup AfterBase
Routed == {"identify", "warm", "open", "measure", "drain"}
InArm == {"apply", "rollout"} \cup Routing \cup Routed

ProcessType ==
  /\ pc \in Steps \cup Over /\ mode \in {"run", "restore"}
  /\ outcome \in {"ok", "failed", "interrupted"} /\ owned \subseteq Arms
  /\ problems \subseteq Steps /\ (problems # {} => mode = "restore")
  /\ {configmap, haproxy} \subseteq Arms \cup {"base"} /\ rolling \in BOOLEAN
  /\ {hold, baseHold} \subseteq {"base", "pair"}
  /\ target \in {"serving", "stopping", "stopped", "starting"}
  /\ objects \subseteq Objects
  /\ pods \in [Pools -> {"none", "starting", "ready", "terminating"}]
  /\ verdict \in [Arms -> {"none", "invalid", "valid", "insufficient"}]

\* restore() and the window never overlap.
PhaseInv ==
  /\ mode = "restore" => pc \in Restoring
  /\ pc \in AfterBase => mode = "restore"
  /\ window = "open" => pc = "measure"
  /\ window # "closed" => pc \in {"measure", "drain"}
  /\ pc = "drain" => window = "done"

\* What a run has arranged on its way to the window of an arm.
ArmInv ==
  mode = "run" =>
    /\ pc \in {"setup", "remove", "reap"} \cup InArm => target = "stopped"
    /\ pc \in {"gate", "scale", "vacate", "setup"} => owned = {}
    /\ pc \in InArm => owned = {arm} /\ hold = "pair"
    /\ pc \in InArm \ {"apply"} => objects = Inventory(arm)
    /\ pc \in Routed \ {"identify"} => \A p \in PoolsOf(arm) : pods[p] = "ready"

\* What local.apply() has done to HAProxy: the ConfigMap first, then the restart,
\* and a step after it only when the running one has read that ConfigMap.
ProxyInv ==
  /\ pc = "converge" /\ ~rolling => haproxy = configmap
  /\ pc \in {"restart", "converge"} => configmap = (IF mode = "run" THEN arm ELSE "base")
  /\ pc \in Routed => configmap = arm /\ haproxy = arm /\ ~rolling
  /\ pc \in AfterBase /\ problems \cap Routing = {} =>
       configmap = "base" /\ haproxy = "base" /\ ~rolling

\* A fixture that is back stays so.
RestoredInv ==
  /\ restored = "yes" => pc \in {"finish", "ended"} /\ problems = {} /\ FixtureIsBack
  /\ result # "none" =>
       /\ pc = "ended" /\ restored = "yes"
       /\ \A a \in Arms : verdict[a] \in {"valid", "insufficient"}
       /\ result = "conclusive" => \A a \in Arms : verdict[a] = "valid"

RunInv ==
  /\ ProcessType /\ PhaseInv /\ OwnershipCoversPools
  /\ ArmInv /\ ProxyInv /\ LeftoversRefused /\ RestoredInv

LEMMA OwnedParts ==
  /\ \A x : x \in Owned <=> \E a \in owned : x \in Inventory(a)
  /\ \A a \in Arms : PoolsOf(a) \subseteq Pools /\ Inventory(a) \subseteq Objects
  /\ \A a \in Arms : \A p \in Pools : p \in Inventory(a) <=> p \in PoolsOf(a)
BY DEF Owned, Inventory, PoolsOf, Pools, Objects, Classes, Arms

\* A step goes on, or raises and is recorded in restore(); the types stay.
LEMMA TypeKept ==
  ASSUME ProcessType, arm \in Arms, UNCHANGED <<configmap, haproxy, rolling, baseHold, verdict, pods, target>>,
         pc \in Steps, pc' \in Steps, outcome' \in {outcome, "failed"}, hold' \in {hold, "pair"},
         \/ problems' = problems /\ mode' = mode
         \/ mode' = "restore" /\ problems' \in {problems, problems \cup {pc}},
         owned' \in {owned, owned \cup {arm}, {}}, objects' \subseteq objects
  PROVE  ProcessType'
<1>1. problems' \subseteq Steps /\ (problems' # {} => mode' = "restore") /\ mode' \in {"run", "restore"}
  BY DEF ProcessType
<1>2. owned' \subseteq Arms /\ objects' \subseteq Objects
  BY DEF ProcessType
<1>3. {hold', baseHold'} \subseteq {"base", "pair"} /\ outcome' \in {"ok", "failed", "interrupted"}
  BY DEF ProcessType
<1> QED
  BY <1>1, <1>2, <1>3 DEF ProcessType

\* Before the arms.
LEMMA BeforeKeeps ==
  ASSUME RunInv, window' = window, Gate \/ ScaleAway \/ Vacate
  PROVE  RunInv'
<1> USE DEF Gate, ScaleAway, Vacate, GoOrRaise, Go, Raise, clusterVars, proxyVars, idle, windowVars
<1>1. ProcessType'
  <2>1. ProcessType
    BY DEF RunInv
  <2>2. /\ UNCHANGED <<configmap, haproxy, rolling, hold, owned, verdict, objects, pods>>
        /\ problems' \in {problems, problems \cup {pc}} /\ mode' \in {mode, "restore"}
        /\ (problems' = problems /\ mode' = mode) \/ mode' = "restore"
        /\ baseHold' \in {baseHold, hold} /\ target' \in {target, "stopping"}
        /\ outcome' \in {outcome, "failed"} /\ pc \in Steps
    BY <2>1 DEF ProcessType, Steps
  <2>3. pc' \in Steps \cup Over
    BY <2>1 DEF Steps, Over
  <2> HIDE DEF Gate, ScaleAway, Vacate, GoOrRaise, Go, Raise
  <2>4. problems' \subseteq Steps /\ (problems' # {} => mode' = "restore") /\ mode' \in {"run", "restore"}
    BY <2>1, <2>2 DEF ProcessType
  <2> QED
    BY <2>1, <2>2, <2>3, <2>4 DEF ProcessType
<1>2. PhaseInv'
  BY DEF RunInv, ProcessType, PhaseInv, Restoring, AfterBase, Routing
<1>3. OwnershipCoversPools'
  <2>1. Owned' = Owned
    BY DEF Owned, Inventory, PoolsOf
  <2>2. CASE Gate
    BY <2>2 DEF RunInv, OwnershipCoversPools, NothingLeft, NoPods, Over
  <2>3. CASE ScaleAway \/ Vacate
    BY <2>1, <2>3 DEF RunInv, OwnershipCoversPools, Over
  <2> QED
    BY <2>2, <2>3
<1>4. ArmInv'
  <2>1. mode' = "run" => mode = "run" /\ pc' \in {"scale", "refused", "vacate", "setup"}
    OBVIOUS
  <2>2. owned' = owned /\ (pc' = "setup" => target' = "stopped" \/ mode' = "restore")
    OBVIOUS
  <2>3. pc \in {"gate", "scale", "vacate"}
    OBVIOUS
  <2> QED
    BY <2>1, <2>2, <2>3 DEF RunInv, ArmInv, InArm, Routed, Routing
<1>5. LeftoversRefused'
  BY DEF RunInv, LeftoversRefused, NothingLeft, NoPods
<1>6. RestoredInv'
  BY DEF RunInv, RestoredInv
<1>7. ProxyInv'
  <2>1. pc' \in {"scale", "refused", "vacate", "setup", "remove"}
    BY DEF RunInv, ProcessType, PhaseInv, Restoring, AfterBase, Routing
  <2> QED
    BY <2>1 DEF ProxyInv, AfterBase, Routed
<1> QED
  BY <1>1, <1>2, <1>3, <1>4, <1>5, <1>6, <1>7 DEF RunInv

\* remove_owned().
LEMMA RemoveKeeps ==
  ASSUME RunInv, arm \in Arms, window' = window, arm' = arm, Delete \/ Reap
  PROVE  RunInv'
<1> USE DEF Delete, Reap, Go, Raise, clusterVars, proxyVars, idle, windowVars
<1>0. pc \in {"remove", "reap"}
  OBVIOUS
<1>1. ProcessType'
  <2>1. ProcessType
    BY DEF RunInv
  <2>2. /\ UNCHANGED <<configmap, haproxy, rolling, baseHold, verdict, pods>> /\ outcome' \in {outcome, "failed"} /\ pc \in Steps
        /\ \/ problems' = problems /\ mode' = mode
           \/ mode' = "restore" /\ problems' \in {problems, problems \cup {pc}}
        /\ hold' \in {hold, "pair"} /\ target' = target
    BY <2>1 DEF ProcessType, Steps
  <2>3. pc' \in Steps
    BY DEF Steps
  <2>4. owned' \in {owned, owned \cup {arm}, {}} /\ objects' \subseteq objects
    OBVIOUS
  <2> HIDE DEF Delete, Reap, Go, Raise
  <2> QED
    BY <2>1, <2>2, <2>3, <2>4, TypeKept
<1>2. PhaseInv'
  BY DEF RunInv, ProcessType, PhaseInv, Restoring, AfterBase, Routing
<1>3. OwnershipCoversPools'
  <2>1. CASE Delete
    <3>1. Owned' = Owned
      BY <2>1 DEF Owned, Inventory, PoolsOf
    <3> QED
      BY <2>1, <3>1 DEF RunInv, OwnershipCoversPools, Over
  <2>2. CASE Reap /\ owned' = owned
    <3>1. Owned' = Owned
      BY <2>2 DEF Owned, Inventory, PoolsOf
    <3> QED
      BY <2>2, <3>1 DEF RunInv, OwnershipCoversPools, Over
  <2>3. CASE Reap /\ Absent
    <3>1. objects' = {} /\ pods' = pods /\ NoPods
      BY <2>3 DEF RunInv, OwnershipCoversPools, Over, Absent
    <3> QED
      BY <3>1 DEF OwnershipCoversPools, NoPods
  <2> QED
    BY <2>1, <2>2, <2>3
<1>4. ArmInv'
  BY <1>0 DEF RunInv, ArmInv, InArm, Routed, Routing
<1>5. LeftoversRefused'
  BY <1>0 DEF LeftoversRefused
<1>6. RestoredInv'
  BY <1>0 DEF RunInv, RestoredInv
<1>7. ProxyInv'
  <2>1. pc' \in {"remove", "reap", "route", "setup"}
    OBVIOUS
  <2> QED
    BY <2>1 DEF ProxyInv, AfterBase, Routed
<1> QED
  BY <1>1, <1>2, <1>3, <1>4, <1>5, <1>6, <1>7 DEF RunInv

\* setup() of an arm, up to the window.
LEMMA SetupKeeps ==
  ASSUME RunInv, arm \in Arms, window' = window, arm' = arm, Setup
  PROVE  RunInv'
<1> USE DEF Setup, Registered, GoOrRaise, Go, Raise, clusterVars, proxyVars, idle, windowVars
<1>1. ProcessType'
  <2>1. ProcessType
    BY DEF RunInv
  <2>2. /\ UNCHANGED <<configmap, haproxy, rolling, baseHold, verdict, pods>> /\ outcome' \in {outcome, "failed"} /\ pc \in Steps
        /\ \/ problems' = problems /\ mode' = mode
           \/ mode' = "restore" /\ problems' \in {problems, problems \cup {pc}}
        /\ hold' \in {hold, "pair"} /\ target' = target
    BY <2>1 DEF ProcessType, Steps
  <2>3. pc' \in Steps
    BY DEF Steps
  <2>4. owned' \in {owned, owned \cup {arm}, {}} /\ objects' \subseteq objects
    OBVIOUS
  <2> HIDE DEF Setup, Registered, GoOrRaise, Go, Raise
  <2> QED
    BY <2>1, <2>2, <2>3, <2>4, TypeKept
<1>2. PhaseInv'
  BY DEF RunInv, ProcessType, PhaseInv, Restoring, AfterBase, Routing
<1>3. OwnershipCoversPools'
  <2>1. \A x \in Owned : x \in Owned'
    BY DEF Owned, Inventory, PoolsOf
  <2> QED
    BY <2>1 DEF RunInv, OwnershipCoversPools, Over
<1>4. ArmInv'
  <2>1. mode' = "run" => pc' = "apply" /\ hold' = "pair" /\ mode = "run"
    OBVIOUS
  <2>2. mode = "run" => owned' = {arm'} /\ target' = "stopped"
    BY DEF RunInv, ArmInv
  <2> QED
    BY <2>1, <2>2 DEF ArmInv, InArm, Routed, Routing
<1>5. LeftoversRefused'
  BY DEF LeftoversRefused
<1>6. RestoredInv'
  BY DEF RunInv, RestoredInv
<1>7. ProxyInv'
  <2>1. pc' \in {"apply", "remove"}
    BY DEF RunInv, ProcessType, PhaseInv, Restoring, AfterBase, Routing
  <2> QED
    BY <2>1 DEF ProxyInv, AfterBase, Routed
<1> QED
  BY <1>1, <1>2, <1>3, <1>4, <1>5, <1>6, <1>7 DEF RunInv

LEMMA ApplyKeeps ==
  ASSUME RunInv, arm \in Arms, window' = window, arm' = arm, ApplyPools
  PROVE  RunInv'
<1> USE DEF ApplyPools, Go, Raise, clusterVars, proxyVars, idle, windowVars
<1>0. mode = "run" /\ pc = "apply" /\ owned = {arm} /\ owned' = {arm}
  BY DEF RunInv, ProcessType, PhaseInv, Restoring, AfterBase, Routing, ArmInv, InArm
<1>1. PICK new \in SUBSET Inventory(arm) :
        objects' = objects \cup new /\ ((new = Inventory(arm) /\ Go("rollout")) \/ Raise("rollout"))
  OBVIOUS
<1>2. Owned = Inventory(arm) /\ Owned' = Inventory(arm) /\ Inventory(arm) \subseteq Objects
  BY <1>0, OwnedParts DEF Owned, Inventory, PoolsOf
<1>3. objects \subseteq Inventory(arm) /\ objects' \subseteq Inventory(arm)
  BY <1>0, <1>1, <1>2 DEF RunInv, OwnershipCoversPools, Over
<1>4. ProcessType'
  BY <1>2, <1>3 DEF RunInv, ProcessType, Steps, Over
<1>5. PhaseInv'
  BY DEF RunInv, ProcessType, PhaseInv, Restoring, AfterBase, Routing
<1>6. OwnershipCoversPools'
  BY <1>0, <1>2, <1>3 DEF RunInv, OwnershipCoversPools, Over
<1>7. ArmInv'
  <2>1. mode' = "run" => pc' = "rollout" /\ objects' = Inventory(arm)
    BY <1>1, <1>3
  <2>2. target = "stopped" /\ hold = "pair"
    BY <1>0 DEF RunInv, ArmInv, InArm
  <2>3. Inventory(arm)' = Inventory(arm)
    BY DEF Inventory, PoolsOf
  <2> QED
    BY <1>0, <2>1, <2>2, <2>3 DEF ArmInv, InArm, Routed, Routing
<1>8. LeftoversRefused'
  BY DEF LeftoversRefused
<1>9. RestoredInv'
  BY DEF RunInv, RestoredInv
<1>10. ProxyInv'
  <2>1. pc' \in {"rollout", "remove"}
    BY <1>0
  <2> QED
    BY <2>1 DEF ProxyInv, AfterBase, Routed
<1> QED
  BY <1>4, <1>5, <1>6, <1>7, <1>8, <1>9, <1>10 DEF RunInv

\* A run reaches these steps with its arm set up, and does not touch it.
LEMMA WatchKeeps ==
  ASSUME RunInv, arm \in Arms, window' = window, arm' = arm, Rollout \/ Identify \/ WarmUp
  PROVE  RunInv'
<1> USE DEF Rollout, Identify, WarmUp, GoOrRaise, Go, Raise, clusterVars, proxyVars, idle, windowVars
<1>0. mode = "run" /\ pc \in {"rollout", "identify", "warm"} /\ owned' = owned
  BY DEF RunInv, ProcessType, PhaseInv, Restoring, AfterBase, Routing
<1>1. ProcessType'
  <2>1. ProcessType
    BY DEF RunInv
  <2>2. /\ UNCHANGED <<configmap, haproxy, rolling, baseHold, verdict, pods>> /\ outcome' \in {outcome, "failed"} /\ pc \in Steps
        /\ \/ problems' = problems /\ mode' = mode
           \/ mode' = "restore" /\ problems' \in {problems, problems \cup {pc}}
        /\ hold' \in {hold, "pair"} /\ target' = target
    BY <2>1 DEF ProcessType, Steps
  <2>3. pc' \in Steps
    BY DEF Steps
  <2>4. owned' \in {owned, owned \cup {arm}, {}} /\ objects' \subseteq objects
    OBVIOUS
  <2> HIDE DEF Rollout, Identify, WarmUp, GoOrRaise, Go, Raise
  <2> QED
    BY <2>1, <2>2, <2>3, <2>4, TypeKept
<1>2. PhaseInv'
  BY DEF RunInv, ProcessType, PhaseInv, Restoring, AfterBase, Routing
<1>3. OwnershipCoversPools'
  <2>1. Owned' = Owned
    BY DEF Owned, Inventory, PoolsOf
  <2> QED
    BY <1>0, <2>1 DEF RunInv, OwnershipCoversPools, Over
<1>4. ArmInv'
  <2>1. Inventory(arm)' = Inventory(arm) /\ PoolsOf(arm)' = PoolsOf(arm) /\ PoolsOf(arm) \subseteq Pools
    BY DEF Inventory, PoolsOf, Pools, Classes
  <2>2. /\ target = "stopped" /\ owned = {arm} /\ hold = "pair" /\ objects = Inventory(arm)
        /\ pc = "warm" => \A p \in PoolsOf(arm) : pods[p] = "ready"
    BY <1>0 DEF RunInv, ArmInv, InArm, Routed, Routing
  <2>3. CASE Rollout
    BY <1>0, <2>1, <2>2, <2>3 DEF ArmInv, InArm, Routed, Routing
  <2>4. CASE Identify
    BY <1>0, <2>1, <2>2, <2>4 DEF ArmInv, InArm, Routed, Routing
  <2>5. CASE WarmUp
    BY <1>0, <2>1, <2>2, <2>5 DEF ArmInv, InArm, Routed, Routing
  <2> QED
    BY <2>3, <2>4, <2>5
<1>5. LeftoversRefused'
  BY <1>0 DEF LeftoversRefused
<1>6. RestoredInv'
  BY <1>0 DEF RunInv, RestoredInv
<1>7. ProxyInv'
  <2>1. UNCHANGED <<configmap, haproxy, rolling, arm>>
    OBVIOUS
  <2>2. pc' \in {"route", "remove"} \/ (pc \in {"identify", "warm"} /\ pc' \in {"warm", "open", "remove"})
    BY <1>0
  <2> QED
    BY <2>1, <2>2 DEF RunInv, ProxyInv, AfterBase, Routed
<1> QED
  BY <1>1, <1>2, <1>3, <1>4, <1>5, <1>6, <1>7 DEF RunInv

\* local.apply(), in an arm and in restore(); a step of it that raises in restore()
\* is a problem of the fixture.
LEMMA RouteKeeps ==
  ASSUME RunInv, arm \in Arms, window' = window, arm' = arm, Route \/ Restart \/ Converge
  PROVE  RunInv'
<1> USE DEF Route, Restart, Converge, AfterRoute, NewPod, Go, Raise, clusterVars, proxyVars, idle, windowVars
<1>0. /\ pc \in Routing /\ owned' = owned /\ objects' = objects /\ pods' = pods /\ target' = target
      /\ hold' = hold /\ baseHold' = baseHold /\ verdict' = verdict /\ restored' = restored /\ result' = result
  BY DEF Routing
<1>1. /\ pc' \in Steps /\ mode' \in {mode, "restore"} /\ outcome' \in {outcome, "failed"}
      /\ problems' = problems \/ (mode' = "restore" /\ problems' = problems \cup {pc})
      /\ configmap' \in {configmap, arm, "base"} /\ haproxy' = haproxy /\ rolling' \in {rolling, TRUE}
  BY DEF RunInv, ProcessType, Steps
<1>2. ProcessType'
  <2>1. ProcessType
    BY DEF RunInv
  <2>2. {configmap', haproxy'} \subseteq Arms \cup {"base"}
    BY <1>1, <2>1 DEF ProcessType
  <2>3. rolling' \in BOOLEAN
    BY <1>1, <2>1 DEF ProcessType
  <2> HIDE DEF Route, Restart, Converge, AfterRoute, NewPod, Go, Raise
  <2>4. pc \in Steps
    BY <1>0 DEF Routing, Steps
  <2>5. problems' \subseteq Steps /\ (problems' # {} => mode' = "restore")
    BY <1>1, <2>1, <2>4 DEF ProcessType
  <2> QED
    BY <1>0, <1>1, <2>1, <2>2, <2>3, <2>5 DEF ProcessType
<1>3. /\ mode' = "run" => mode = "run" /\ pc' \in {"restart", "converge", "identify"}
      /\ mode = "restore" => mode' = "restore" /\ pc' \in {"restart", "converge", "hold"}
      /\ mode = "run" /\ mode' = "restore" => pc' = "remove"
  BY DEF RunInv, ProcessType
<1>4. PhaseInv'
  BY <1>0, <1>1, <1>2, <1>3 DEF RunInv, ProcessType, PhaseInv, Restoring, AfterBase, Routing
<1>5. OwnershipCoversPools'
  <2>1. Owned' = Owned
    BY <1>0 DEF Owned, Inventory, PoolsOf
  <2> QED
    BY <1>0, <2>1 DEF RunInv, OwnershipCoversPools, Over, Routing
<1>6. ArmInv'
  <2>1. Inventory(arm)' = Inventory(arm)
    BY DEF Inventory, PoolsOf
  <2> HIDE DEF Route, Restart, Converge, AfterRoute, NewPod, Go, Raise
  <2> QED
    BY <1>0, <1>3, <2>1 DEF RunInv, ArmInv, InArm, Routed, Routing
<1>7. ProxyInv'
  <2>1. ProxyInv /\ mode \in {"run", "restore"}
    BY DEF RunInv, ProcessType
  <2>2. CASE Route
    <3>1. pc' \in {"restart", "hold", "remove"}
      BY <2>2
    <3>2. pc' = "restart" => configmap' = (IF mode' = "run" THEN arm' ELSE "base")
      BY <2>2
    <3>3. pc' = "hold" => "route" \in problems'
      BY <2>1, <2>2
    <3> HIDE DEF Route, Go, Raise
    <3> QED
      BY <3>1, <3>2, <3>3 DEF ProxyInv, Routed, Routing, AfterBase
  <2>3. CASE Restart
    <3>1. pc' \in {"converge", "hold", "remove"} /\ configmap' = configmap
      BY <2>3
    <3>2. pc' = "converge" => rolling' = TRUE /\ mode' = mode
      BY <2>3
    <3>3. pc' = "hold" => "restart" \in problems'
      BY <2>1, <2>3
    <3>4. configmap = (IF mode = "run" THEN arm ELSE "base")
      BY <2>1, <2>3 DEF ProxyInv
    <3> HIDE DEF Restart, Go, Raise
    <3> QED
      BY <3>1, <3>2, <3>3, <3>4 DEF ProxyInv, Routed, Routing, AfterBase
  <2>4. CASE Converge
    <3>1. /\ pc' \in {"identify", "hold", "remove"} /\ UNCHANGED <<configmap, haproxy, rolling>>
          /\ configmap = (IF mode = "run" THEN arm ELSE "base")
      BY <2>1, <2>4 DEF ProxyInv
    <3>2. pc' = "identify" => ~rolling /\ mode = "run"
      BY <2>1, <2>4
    <3>3. pc' = "hold" => "converge" \in problems' \/ (~rolling /\ mode = "restore")
      BY <2>1, <2>4
    <3>4. ~rolling => haproxy = configmap
      BY <2>1, <2>4 DEF ProxyInv
    <3> HIDE DEF Converge, NewPod, AfterRoute, Go, Raise
    <3> QED
      BY <3>1, <3>2, <3>3, <3>4 DEF ProxyInv, Routed, Routing, AfterBase
  <2> QED
    BY <2>2, <2>3, <2>4
<1>8. LeftoversRefused'
  BY <1>3 DEF LeftoversRefused, RunInv, ProcessType
<1>9. RestoredInv'
  BY <1>0 DEF RunInv, RestoredInv, Routing
<1> QED
  BY <1>2, <1>4, <1>5, <1>6, <1>7, <1>8, <1>9 DEF RunInv

\* The window and its conclusion.
LEMMA MeasureKeeps ==
  ASSUME RunInv, arm \in Arms, OpenWindow \/ Drain \/ Conclude
  PROVE  RunInv'
<1> USE DEF OpenWindow, Drain, Conclude, Go, Raise, clusterVars, proxyVars, windowVars
<1>0. /\ mode = "run" /\ pc \in {"open", "measure", "drain"} /\ owned' = owned
      /\ objects' = objects /\ pods' = pods /\ target' = target /\ hold' = hold
      /\ UNCHANGED <<configmap, haproxy, rolling>>
  BY DEF RunInv, ProcessType, PhaseInv, Restoring, AfterBase, Routing
<1>1. ProcessType'
  <2>1. Judged \in {"none", "invalid", "valid", "insufficient"}
    BY DEF Judged
  <2>2. verdict' = verdict \/ verdict' = [verdict EXCEPT ![arm] = Judged]
    OBVIOUS
  <2>3. verdict' \in [Arms -> {"none", "invalid", "valid", "insufficient"}]
    BY <2>1, <2>2 DEF RunInv, ProcessType
  <2>4. /\ pc' \in {"measure", "drain", "remove"} /\ mode' \in {"run", "restore"}
        /\ outcome' \in {"ok", "failed", "interrupted"} /\ problems' = {} /\ baseHold' = baseHold
    BY <1>0 DEF RunInv, ProcessType
  <2> QED
    BY <1>0, <2>3, <2>4 DEF RunInv, ProcessType, Steps
<1>2. PhaseInv'
  BY DEF RunInv, ProcessType, PhaseInv, Restoring, AfterBase, Routing
<1>3. OwnershipCoversPools'
  <2>1. Owned' = Owned
    BY <1>0 DEF Owned, Inventory, PoolsOf
  <2> QED
    BY <1>0, <2>1 DEF RunInv, OwnershipCoversPools, Over
<1>4. ArmInv'
  <2>1. mode' = "run" => \/ arm' = arm /\ pc' \in {"measure", "drain"}
                         \/ pc' = "remove"
    OBVIOUS
  <2>2. arm' = arm => Inventory(arm)' = Inventory(arm) /\ PoolsOf(arm)' = PoolsOf(arm)
    BY DEF Inventory, PoolsOf
  <2>3. /\ target = "stopped" /\ owned = {arm} /\ hold = "pair" /\ objects = Inventory(arm)
        /\ \A p \in PoolsOf(arm) : pods[p] = "ready"
    BY <1>0 DEF RunInv, ArmInv, InArm, Routed, Routing
  <2> QED
    BY <1>0, <2>1, <2>2, <2>3 DEF ArmInv, InArm, Routed, Routing
<1>5. LeftoversRefused'
  BY <1>0 DEF LeftoversRefused
<1>6. RestoredInv'
  BY <1>0 DEF RunInv, RestoredInv
<1>7. ProxyInv'
  <2>1. UNCHANGED <<configmap, haproxy, rolling>>
    OBVIOUS
  <2>2. pc' = "remove" \/ (pc' \in {"measure", "drain"} /\ arm' = arm)
    BY <1>0
  <2> QED
    BY <1>0, <2>1, <2>2 DEF RunInv, ProxyInv, AfterBase, Routed
<1> QED
  BY <1>1, <1>2, <1>3, <1>4, <1>5, <1>6, <1>7 DEF RunInv

\* The rest of restore() and the end.
LEMMA RestoreKeeps ==
  ASSUME RunInv, arm \in Arms, window' = window, arm' = arm, PatchHold \/ ScaleBack \/ Ready \/ Verify
  PROVE  RunInv'
<1> USE DEF PatchHold, ScaleBack, Ready, Verify, GoOrRaise, Go, Raise, clusterVars, proxyVars, idle, windowVars
<1>0. /\ mode = "restore" /\ mode' = "restore" /\ owned' = owned /\ objects' = objects /\ pods' = pods
      /\ pc \in {"hold", "serve", "ready", "verify"} /\ pc' \in {"serve", "ready", "verify", "finish"}
  BY DEF RunInv, ProcessType, PhaseInv, Restoring, AfterBase, Routing
<1>1. ProcessType'
  <2>1. ProcessType
    BY DEF RunInv
  <2>2. /\ UNCHANGED <<outcome, configmap, haproxy, rolling, baseHold, verdict>>
        /\ problems' \in {problems, problems \cup {pc}}
        /\ hold' \in {hold, baseHold} /\ target' \in {target, "starting"}
    BY <1>0
  <2> HIDE DEF PatchHold, ScaleBack, Ready, Verify, GoOrRaise, Go, Raise
  <2>3. pc' \in Steps \cup Over /\ problems' \subseteq Steps
    BY <1>0, <2>1, <2>2 DEF ProcessType, Steps
  <2>4. /\ {hold', baseHold'} \subseteq {"base", "pair"}
        /\ target' \in {"serving", "stopping", "stopped", "starting"}
    BY <2>1, <2>2 DEF ProcessType
  <2> QED
    BY <1>0, <2>1, <2>2, <2>3, <2>4 DEF ProcessType
<1>2. PhaseInv'
  BY <1>0 DEF RunInv, ProcessType, PhaseInv, Restoring, AfterBase, Routing
<1>3. OwnershipCoversPools'
  <2>1. Owned' = Owned
    BY <1>0 DEF Owned, Inventory, PoolsOf
  <2> QED
    BY <1>0, <2>1 DEF RunInv, OwnershipCoversPools, Over
<1>4. ArmInv'
  BY <1>0 DEF ArmInv
<1>5. LeftoversRefused'
  BY <1>0 DEF LeftoversRefused
<1>6. RestoredInv'
  <2>1. result' = result /\ result = "none" /\ restored # "yes"
    BY <1>0 DEF RunInv, RestoredInv
  <2>2. CASE restored' = restored
    BY <2>1, <2>2 DEF RestoredInv
  <2>3. CASE Verify
    <3>1. FixtureIsBack => FixtureIsBack'
      BY <2>3 DEF FixtureIsBack, NoPods
    <3> QED
      BY <2>1, <2>3, <3>1 DEF RestoredInv, FoundRestored
  <2> QED
    BY <2>2, <2>3
<1>7. ProxyInv'
  <2>1. UNCHANGED <<configmap, haproxy, rolling>> /\ problems \subseteq problems'
    OBVIOUS
  <2> HIDE DEF PatchHold, ScaleBack, Ready, Verify, GoOrRaise, Go, Raise
  <2> QED
    BY <1>0, <2>1 DEF RunInv, ProxyInv, AfterBase, Routed
<1> QED
  BY <1>1, <1>2, <1>3, <1>4, <1>5, <1>6, <1>7 DEF RunInv

LEMMA FinishKeeps ==
  ASSUME RunInv, arm \in Arms, window' = window, arm' = arm, Finish
  PROVE  RunInv'
<1> USE DEF Finish, Go, clusterVars, proxyVars, idle, windowVars
<1>0. mode = "restore" /\ mode' = "restore" /\ pc' = "ended"
  BY DEF RunInv, ProcessType, PhaseInv, Restoring, AfterBase, Routing
<1>1. ProcessType'
  BY DEF RunInv, ProcessType, Steps, Over
<1>2. PhaseInv'
  BY <1>0 DEF RunInv, ProcessType, PhaseInv, Restoring, AfterBase, Routing
<1>3. OwnershipCoversPools'
  BY <1>0 DEF OwnershipCoversPools, Over
<1>4. ArmInv'
  BY <1>0 DEF ArmInv
<1>5. LeftoversRefused'
  BY <1>0 DEF LeftoversRefused
<1>6. RestoredInv'
  <2>1. FixtureIsBack => FixtureIsBack'
    BY DEF FixtureIsBack, NoPods
  <2> QED
    BY <2>1 DEF RunInv, RestoredInv, ResultEarned
<1>7. ProxyInv'
  BY <1>0 DEF RunInv, ProxyInv, AfterBase, Routed
<1> QED
  BY <1>1, <1>2, <1>3, <1>4, <1>5, <1>6, <1>7 DEF RunInv

\* Faults: the run is interrupted or killed, and a new one starts.
LEMMA InterruptKeeps ==
  ASSUME RunInv, arm' = arm, Interrupt
  PROVE  RunInv'
<1> USE DEF Interrupt, clusterVars, proxyVars
<1>0. /\ mode = "run" /\ pc \notin Over \cup {"gate"} /\ mode' = "restore" /\ pc' = "remove"
      /\ owned' = owned /\ objects' = objects /\ pods' = pods
  OBVIOUS
<1>1. ProcessType'
  BY DEF RunInv, ProcessType, Steps
<1>2. PhaseInv'
  BY <1>0 DEF PhaseInv, Restoring, AfterBase, Routing
<1>3. OwnershipCoversPools'
  <2>1. Owned' = Owned
    BY <1>0 DEF Owned, Inventory, PoolsOf
  <2> QED
    BY <1>0, <2>1 DEF RunInv, OwnershipCoversPools
<1>4. ArmInv'
  BY <1>0 DEF ArmInv
<1>5. LeftoversRefused'
  BY <1>0 DEF LeftoversRefused
<1>6. RestoredInv'
  <2>1. restored # "yes" /\ result = "none"
    BY <1>0 DEF RunInv, RestoredInv, PhaseInv, Restoring, AfterBase, Routing, Over
  <2> QED
    BY <2>1 DEF RestoredInv
<1>7. ProxyInv'
  BY <1>0 DEF ProxyInv, AfterBase, Routed
<1> QED
  BY <1>1, <1>2, <1>3, <1>4, <1>5, <1>6, <1>7 DEF RunInv

LEMMA RestartKeeps ==
  ASSUME RunInv, Kill \/ NextRun
  PROVE  RunInv'
<1> USE DEF Kill, NextRun, clusterVars, proxyVars, windowVars
<1>0. /\ mode' = "run" /\ pc' \in {"killed", "gate"} /\ owned' = {} /\ window' = "closed"
  BY DEF RunInv, PhaseInv, Over
<1>1. ProcessType'
  BY <1>0 DEF RunInv, ProcessType, Over, Steps, Arms
<1>2. PhaseInv'
  BY <1>0 DEF PhaseInv, Restoring, AfterBase, Routing
<1>3. OwnershipCoversPools'
  BY <1>0 DEF OwnershipCoversPools, Over
<1>4. ArmInv'
  BY <1>0 DEF ArmInv, InArm, Routed, Routing
<1>5. LeftoversRefused'
  BY <1>0 DEF LeftoversRefused
<1>6. RestoredInv'
  BY DEF RestoredInv
<1>7. ProxyInv'
  BY <1>0 DEF ProxyInv, AfterBase, Routed
<1> QED
  BY <1>1, <1>2, <1>3, <1>4, <1>5, <1>6, <1>7 DEF RunInv

\* The cluster moves on its own.
LEMMA ControllerKeeps ==
  ASSUME RunInv, arm \in Arms, window' = window, arm' = arm, (\E p \in Pools : PodStep(p)) \/ TargetStep \/ ProxyStep
  PROVE  RunInv'
<1> USE DEF PodStep, TargetStep, ProxyStep, processVars
<1>0. /\ mode' = mode /\ pc' = pc /\ owned' = owned /\ objects' = objects /\ hold' = hold
      /\ problems' = problems /\ outcome' = outcome
      /\ verdict' = verdict /\ restored' = restored /\ result' = result /\ baseHold' = baseHold
      /\ pods \in [Pools -> {"none", "starting", "ready", "terminating"}]
  BY DEF RunInv, ProcessType
<1>1. pods' \in [Pools -> {"none", "starting", "ready", "terminating"}]
  BY <1>0
<1>2. ProcessType'
  <2>1. configmap' = configmap /\ haproxy' \in {haproxy, configmap} /\ rolling' \in {rolling, FALSE}
    BY DEF proxyVars
  <2>2. target' \in {"serving", "stopping", "stopped", "starting"}
    BY DEF RunInv, ProcessType
  <2> HIDE DEF PodStep, TargetStep, ProxyStep
  <2>3. ProcessType
    BY DEF RunInv
  <2>4. {configmap', haproxy'} \subseteq Arms \cup {"base"}
    BY <2>1, <2>3 DEF ProcessType
  <2> QED
    BY <1>0, <1>1, <2>1, <2>2, <2>3, <2>4 DEF ProcessType
<1>3. PhaseInv'
  BY <1>0 DEF RunInv, PhaseInv
<1>4. \A p \in Pools : /\ pods'[p] # "none" => p \in objects \/ pods[p] # "none"
                       /\ pods[p] = "ready" /\ p \in objects => pods'[p] = "ready"
  BY <1>0
<1>5. OwnershipCoversPools'
  <2>1. Owned' = Owned
    BY <1>0 DEF Owned, Inventory, PoolsOf
  <2> QED
    BY <1>0, <1>4, <2>1 DEF RunInv, OwnershipCoversPools
<1>6. ArmInv'
  <2>1. Inventory(arm)' = Inventory(arm) /\ PoolsOf(arm)' = PoolsOf(arm)
    BY DEF Inventory, PoolsOf
  <2>2. PoolsOf(arm) \subseteq Inventory(arm) /\ PoolsOf(arm) \subseteq Pools
    BY OwnedParts DEF Inventory
  <2>3. target = "stopped" => target' = "stopped"
    OBVIOUS
  <2>4. SUFFICES ASSUME mode = "run"
                 PROVE  ArmInv'
    BY <1>0 DEF ArmInv
  <2>5. pc \in Routed \ {"identify"} => \A p \in PoolsOf(arm) : pods'[p] = "ready"
    BY <1>4, <2>2, <2>4 DEF RunInv, ArmInv, InArm, Routed, Routing
  <2> QED
    BY <1>0, <2>1, <2>3, <2>4, <2>5 DEF RunInv, ArmInv
<1>7. LeftoversRefused' /\ (FixtureIsBack => FixtureIsBack')
  <2>1. objects = {} /\ NoPods => NoPods'
    BY <1>4 DEF NoPods
  <2>2. /\ target = "serving" => target' = "serving"
        /\ target \in {"serving", "starting"} => target' \in {"serving", "starting"}
    OBVIOUS
  <2>3. configmap' = configmap
    BY DEF proxyVars
  <2> QED
    BY <1>0, <2>1, <2>2, <2>3 DEF RunInv, LeftoversRefused, FixtureIsBack
<1>8. RestoredInv'
  BY <1>0, <1>7 DEF RunInv, RestoredInv
<1>9. ProxyInv'
  <2>1. CASE UNCHANGED proxyVars
    BY <1>0, <2>1 DEF RunInv, ProxyInv, proxyVars
  <2>2. CASE ProxyStep
    BY <1>0, <2>2 DEF RunInv, ProxyInv
  <2> QED
    BY <2>1, <2>2
<1> QED
  BY <1>2, <1>3, <1>5, <1>6, <1>7, <1>8, <1>9 DEF RunInv

\* The window runs while the run waits for it.
LEMMA DriveKeeps ==
  ASSUME RunInv, Drive
  PROVE  RunInv'
<1> USE DEF Drive, pairVars, processVars, clusterVars, proxyVars
<1>1. window' = window \/ (window = "open" /\ window' = "done")
  BY DEF WindowStep, Tick, Arrive, End, Take, Request, Answer, Release
<1>2. ProcessType' /\ LeftoversRefused'
  BY DEF RunInv, ProcessType, LeftoversRefused, NoPods
<1>3. PhaseInv'
  BY <1>1 DEF RunInv, PhaseInv
<1>4. OwnershipCoversPools'
  BY DEF RunInv, OwnershipCoversPools, Owned, Inventory, PoolsOf
<1>5. ArmInv' /\ ProxyInv'
  BY DEF RunInv, ArmInv, ProxyInv, Inventory, PoolsOf
<1>6. RestoredInv'
  BY DEF RunInv, RestoredInv, FixtureIsBack, NoPods
<1> QED
  BY <1>2, <1>3, <1>4, <1>5, <1>6 DEF RunInv

-----------------------------------------------------------------------------
(* The specification.                                                      *)

\* run_pair() with the window it measures.
IInv == WindowInv /\ RunInv

LEMMA Starts == Init => IInv
<1> SUFFICES ASSUME Init
             PROVE  IInv
  OBVIOUS
<1> USE DEF Init, InitWindow, InitProcess
<1>1. WindowType
  <2>1. 1 \in 1..(N + 1) /\ 0 \in 0..Horizon /\ 0 \in 0..MaxAttempts
    OBVIOUS
  <2> QED
    BY <2>1 DEF WindowType, Outcomes, Arms
<1>2. RowInv
  BY DEF RowInv, Items
<1>3. OrphanInv
  <2>1. Failed \in SUBSET Items
    BY DEF Failed
  <2>2. Cardinality(Failed) \in Nat
    BY <2>1, Counted
  <2> QED
    BY <2>2 DEF OrphanInv, Targets
<1>4. BusyInv
  <2>1. \A k \in Classes : Busy(k) = {}
    BY DEF Busy, Unfinished
  <2>2. \A k \in Classes : Cardinality(Busy(k)) = 0
    BY <2>1, FS_EmptySet
  <2> QED
    BY <2>2 DEF BusyInv
<1>5. SeparateInv
  BY DEF SeparateInv
<1>6. RunInv
  <2>1. ProcessType
    BY DEF ProcessType, Over, Steps, Pools, Objects, Arms
  <2>2. PhaseInv /\ RestoredInv
    BY DEF PhaseInv, Restoring, AfterBase, Routing, Over, RestoredInv
  <2>3. OwnershipCoversPools /\ LeftoversRefused
    BY DEF OwnershipCoversPools, LeftoversRefused, Over
  <2>4. ArmInv /\ ProxyInv
    BY DEF ArmInv, ProxyInv, InArm, Routed, Routing, AfterBase
  <2> QED
    BY <2>1, <2>2, <2>3, <2>4 DEF RunInv
<1> QED
  BY <1>1, <1>2, <1>3, <1>4, <1>5, <1>6 DEF IInv, WindowInv

\* Every step is one of the cluster, of the window or of the run around it.
LEMMA StepOfWindow ==
  ASSUME WindowInv, RunInv, Next
  PROVE  WindowInv'
<1>0. window \in {"closed", "open", "done"} /\ arm \in Arms
  BY DEF WindowInv, WindowType
<1>1. CASE Drive
  BY <1>1, WindowStepKeeps DEF Drive
<1>2. CASE Gate \/ ScaleAway \/ Vacate \/ Delete \/ Reap \/ Setup \/ ApplyPools \/ Rollout \/ Route \/ Restart \/ Converge
           \/ Identify \/ WarmUp \/ PatchHold \/ ScaleBack \/ Ready \/ Verify \/ Finish
           \/ (\E p \in Pools : PodStep(p)) \/ TargetStep \/ ProxyStep \/ NextRun
  <2>1. UNCHANGED windowVars /\ arm' \in {arm, "shared"}
    BY <1>2 DEF idle, Gate, ScaleAway, Vacate, Delete, Reap, Setup, ApplyPools, Rollout, Route, Restart, Converge, Identify, WarmUp,
            PatchHold, ScaleBack, Ready, Verify, Finish, PodStep, TargetStep, ProxyStep, NextRun
  <2> QED
    BY <2>1, WindowSame
<1>3. CASE OpenWindow \/ Drain \/ Conclude \/ Interrupt \/ Kill
  <2>1. \/ UNCHANGED <<windowVars, arm>>
        \/ Fresh /\ window' \in {"closed", "open"} /\ arm' \in Arms
    BY <1>0, <1>3 DEF OpenWindow, Drain, Conclude, Interrupt, Kill, Arms, AfterArm
  <2> QED
    BY <2>1, WindowSame, FreshWindow
<1> QED
  BY <1>1, <1>2, <1>3 DEF Next, Process

LEMMA StepOfRun ==
  ASSUME WindowInv, RunInv, Next
  PROVE  RunInv'
<1>0. arm \in Arms
  BY DEF WindowInv, WindowType
<1>1. CASE Process
  <2>1. \/ OpenWindow \/ Drain \/ Conclude
        \/ window' = window /\ arm' = arm
    BY <1>1 DEF Process, idle, windowVars, Gate, ScaleAway, Vacate, Delete, Reap, Setup, ApplyPools, Rollout, Route, Restart, Converge,
            Identify, WarmUp, PatchHold, ScaleBack, Ready, Verify, Finish
  <2> QED
    BY <1>0, <1>1, <2>1, BeforeKeeps, RemoveKeeps, SetupKeeps, ApplyKeeps, WatchKeeps, RouteKeeps, MeasureKeeps,
       RestoreKeeps, FinishKeeps DEF Process
<1>2. CASE Drive
  BY <1>2, DriveKeeps
<1>3. CASE Interrupt \/ Kill \/ NextRun
  BY <1>3, InterruptKeeps, RestartKeeps DEF Interrupt
<1>4. CASE (\E p \in Pools : PodStep(p)) \/ TargetStep \/ ProxyStep
  <2>1. window' = window /\ arm' = arm
    BY <1>4 DEF PodStep, TargetStep, ProxyStep, idle, windowVars
  <2> QED
    BY <1>0, <1>4, <2>1, ControllerKeeps
<1> QED
  BY <1>1, <1>2, <1>3, <1>4 DEF Next

LEMMA Stutters ==
  ASSUME IInv, UNCHANGED vars
  PROVE  IInv'
<1> USE DEF vars, pairVars, processVars, clusterVars, proxyVars
<1>1. WindowInv'
  BY WindowSame DEF IInv
<1>2. RunInv'
  <2>1. ProcessType' /\ PhaseInv' /\ LeftoversRefused'
    BY DEF IInv, RunInv, ProcessType, PhaseInv, LeftoversRefused, NoPods, windowVars
  <2>2. OwnershipCoversPools' /\ ArmInv' /\ ProxyInv'
    BY DEF IInv, RunInv, OwnershipCoversPools, ArmInv, ProxyInv, Owned, Inventory, PoolsOf
  <2>3. RestoredInv'
    BY DEF IInv, RunInv, RestoredInv, FixtureIsBack, NoPods
  <2> QED
    BY <2>1, <2>2, <2>3 DEF RunInv
<1> QED
  BY <1>1, <1>2 DEF IInv

\* In every reachable state the window, the run and the cluster agree on whose
\* the pools are (run_pair(), drive() and their faults).
THEOREM Invariance == Spec => []IInv
<1>1. Init => IInv
  BY Starts
<1>2. IInv /\ [Next]_vars => IInv'
  BY StepOfWindow, StepOfRun, Stutters DEF IInv
<1> QED
  BY <1>1, <1>2, PTL DEF Spec

\* While a run lives, all of the P10 objects in the cluster are its own, and a
\* window is measured on the Pods of its own arm alone, with the running HAProxy
\* routing to them, whatever an earlier run left (Run.owned, identify(), converge()).
THEOREM ClusterIsOwned == Spec => []FixtureIsOwned
<1>1. IInv => FixtureIsOwned
  <2> SUFFICES ASSUME IInv
               PROVE  FixtureIsOwned
    OBVIOUS
  <2>1. TypeInv
    <3>1. orphans \in [Targets -> 0..N]
      <4>1. Failed \in SUBSET Items
        BY DEF Failed
      <4>2. Cardinality(Failed) \in Nat /\ Cardinality(Failed) <= N
        BY <4>1, Counted
      <4>3. \A t \in Targets : orphans[t] \in 0..N
        BY <4>2 DEF IInv, WindowInv, WindowType, OrphanInv
      <4> QED
        BY <4>3 DEF IInv, WindowInv, WindowType
    <3>2. /\ now \in 0..Horizon /\ cursor \in 1..(N + 1) /\ arm \in Arms
          /\ row \in [Items -> Outcomes \cup {"open"}] /\ attempts \in [Items -> 0..MaxAttempts]
          /\ window \in {"closed", "open", "done"}
      BY DEF IInv, WindowInv, WindowType
    <3> QED
      BY <3>1, <3>2 DEF IInv, RunInv, ProcessType, PhaseInv, TypeInv
  <2>2. PoolsNeverMix
    <3> SUFFICES ASSUME window # "closed"
                 PROVE  /\ \A p \in Pools : pods[p] = (IF p \in PoolsOf(arm) THEN "ready" ELSE "none")
                        /\ configmap = arm /\ haproxy = arm /\ ~rolling
                        /\ hold = "pair" /\ target = "stopped"
      BY DEF PoolsNeverMix
    <3>1. pc \in {"measure", "drain"} /\ mode = "run"
      BY DEF IInv, RunInv, PhaseInv, ProcessType, Restoring, AfterBase, Routing
    <3>2. /\ owned = {arm} /\ hold = "pair" /\ target = "stopped" /\ arm \in Arms
          /\ \A p \in PoolsOf(arm) : pods[p] = "ready"
      BY <3>1 DEF IInv, RunInv, ArmInv, InArm, Routed, WindowInv, WindowType
    <3>3. \A p \in Pools : pods[p] # "none" => p \in PoolsOf(arm)
      BY <3>1, <3>2, OwnedParts DEF IInv, RunInv, OwnershipCoversPools, Over
    <3>4. configmap = arm /\ haproxy = arm /\ ~rolling
      BY <3>1 DEF IInv, RunInv, ProxyInv, Routed
    <3> QED
      BY <3>2, <3>3, <3>4
  <2> QED
    BY <2>1, <2>2 DEF IInv, RunInv, FixtureIsOwned
<1> QED
  BY <1>1, Invariance, PTL

\* A result of the pair is one of two usable arms and a fixture that is back,
\* and stays back, the configuration the running HAProxy has read included, though
\* verify() reads only the ConfigMap (restore(), run_pair() and finish()).
THEOREM ResultsAreEarned == Spec => []ResultAfterRestore
<1>1. IInv => ResultAfterRestore
  <2> SUFFICES ASSUME IInv, result # "none"
               PROVE  ResultAfterRestore
    BY DEF ResultAfterRestore
  <2>1. pc = "ended" /\ problems = {} /\ FixtureIsBack
    BY DEF IInv, RunInv, RestoredInv
  <2>2. haproxy = "base" /\ ~rolling
    BY <2>1 DEF IInv, RunInv, ProxyInv, AfterBase
  <2> QED
    BY <2>1, <2>2 DEF IInv, RunInv, RestoredInv, ResultAfterRestore
<1> QED
  BY <1>1, Invariance, PTL

\* In the isolated arm no Critical check is turned away, whatever Bulk does, by
\* a pool with room for all Critical workers (the isolated topology).
THEOREM IsolationWorks == Spec => []BulkNeverRejectsCritical
<1>1. IInv => BulkNeverRejectsCritical
  BY DEF IInv, WindowInv, SeparateInv, CriticalFailed, BulkNeverRejectsCritical
<1> QED
  BY <1>1, Invariance, PTL

\* Steps of the process and the cluster leave an open window alone or close it.
LEMMA OnlyWindowSteps ==
  ASSUME IInv, [Next]_vars, window = "open", window' # "closed", ~UNCHANGED windowVars
  PROVE  WindowStep
<1>1. pc = "measure"
  BY DEF IInv, RunInv, PhaseInv
<1>2. Drive \/ Drain \/ Interrupt \/ Kill
  BY <1>1 DEF vars, Next, Process, idle, Gate, ScaleAway, Vacate, Delete, Reap, Setup, ApplyPools, Rollout,
     Route, Restart, Converge, Identify, WarmUp, OpenWindow, Conclude, PatchHold, ScaleBack, Ready, Verify, Finish, PodStep,
     TargetStep, ProxyStep, NextRun, Over
<1> QED
  BY <1>2 DEF Drive, Drain, Interrupt, Kill

\* A window gives every arrival one row, that is never changed, and ends with
\* all of them (drive() and its end record).
THEOREM WindowIsALedger == Spec => WindowKeepsLedger
<1>1. IInv /\ [Next]_vars =>
        [window = "open" /\ window' # "closed" => Ledger!Next]_<<row, window = "done">>
  <2> SUFFICES ASSUME IInv, [Next]_vars, window = "open", window' # "closed",
                      ~UNCHANGED <<row, window = "done">>
               PROVE  Ledger!Next
    OBVIOUS
  <2>1. WindowType /\ RowInv /\ RunInv
    BY DEF IInv, WindowInv
  <2>2. pc = "measure"
    BY <2>1 DEF RunInv, PhaseInv
  <2>3. WindowStep
    <3>1. row' # row \/ (window' = "done") # (window = "done")
      OBVIOUS
    <3>2. ~UNCHANGED windowVars
      BY <3>1 DEF windowVars, driveVars
    <3> QED
      BY <3>2, OnlyWindowSteps
  <2>4. ASSUME NEW n \in Items, NEW o \in Outcomes, row[n] = "open", Enter(n, o), window' = window
        PROVE  Ledger!Next
    <3>1. Ledger!Enter(n, o)
      BY <2>4 DEF Ledger!Enter, Enter
    <3> QED
      BY <3>1 DEF Ledger!Next
  <2>5. \A n \in Items : stage[n] # "done" => row[n] = "open"
    BY <2>1 DEF RowInv
  <2>6. CASE End
    <3>1. Unfinished = {} /\ cursor > N
      BY <2>6 DEF End
    <3>2. \A n \in Items : stage[n] # "planned"
      BY <2>1, <3>1 DEF WindowType, RowInv, Items
    <3>3. \A n \in Items : row[n] # "open"
      BY <2>1, <3>1, <3>2 DEF Unfinished, RowInv
    <3> QED
      BY <2>6, <3>3 DEF End, driveVars, Ledger!Close, Ledger!Next
  <2>7. CASE Arrive
    <3>1. cursor \in Items /\ stage[cursor] # "done"
      BY <2>1, <2>7 DEF Arrive, WindowType, RowInv, Items
    <3>2. Enter(cursor, "unsubmitted") /\ window' = window
      BY <2>7 DEF Arrive, LeaveOut
    <3> QED
      BY <2>4, <2>5, <3>1, <3>2 DEF Outcomes
  <2>8. ASSUME NEW n \in Items, Take(n)
        PROVE  Ledger!Next
    <3>1. Enter(n, "unissued") /\ window' = window /\ stage[n] # "done"
      BY <2>8 DEF Take
    <3> QED
      BY <2>4, <2>5, <3>1 DEF Outcomes
  <2>9. ASSUME NEW n \in Items, Request(n) \/ Answer(n)
        PROVE  Ledger!Next
    <3>1. PICK o \in {"failed", "overloaded", "success"} : Enter(n, o)
      BY <2>9 DEF Request, Answer, Lose, Check, Overload, Continue
    <3>2. window' = window /\ stage[n] # "done"
      BY <2>9 DEF Request, Answer, Targets
    <3> QED
      BY <2>4, <2>5, <3>1, <3>2 DEF Outcomes
  <2>10. ~Tick /\ \A t \in Targets : ~Release(t)
    BY DEF Tick, Release
  <2> QED
    BY <2>3, <2>6, <2>7, <2>8, <2>9, <2>10 DEF WindowStep
<1> QED
  BY <1>1, Invariance, PTL DEF Spec, WindowKeepsLedger

-----------------------------------------------------------------------------
(* A window comes to its end: what needs no fairness.                      *)

\* An attempt has at most two requests.
PartInv == part \in [Items -> 1..2]

LEMMA PartStep == IInv /\ PartInv /\ [Next]_vars => PartInv'
<1> SUFFICES ASSUME IInv, PartInv, [Next]_vars PROVE PartInv'
  OBVIOUS
<1> USE DEF PartInv
<1>1. CASE WindowStep
  <2>1. CASE Tick \/ Arrive \/ End \/ \E t \in Targets : Release(t)
    BY <2>1 DEF Tick, Arrive, End, Release, driveVars
  <2>2. ASSUME NEW n \in Items, Take(n) \/ Request(n) PROVE PartInv'
    BY <2>2 DEF Take, Request, Lose, Check, Overload
  <2>3. ASSUME NEW n \in Items, Answer(n) PROVE PartInv'
    BY <2>3 DEF Answer, Continue, Overload, Parts
  <2> QED
    BY <1>1, <2>1, <2>2, <2>3 DEF WindowStep
<1>2. CASE UNCHANGED windowVars
  BY <1>2 DEF windowVars, driveVars
<1>3. CASE Fresh
  BY <1>3 DEF Fresh
<1>4. Drive \/ Fresh \/ UNCHANGED windowVars
  BY DEF vars, Next, Process, idle, Gate, ScaleAway, Vacate, Delete, Reap, Setup, ApplyPools, Rollout, Route, Restart, Converge,
     Identify, WarmUp, OpenWindow, Drain, Conclude, PatchHold, ScaleBack, Ready, Verify, Finish, PodStep,
     TargetStep, ProxyStep, Interrupt, Kill, NextRun
<1> QED
  BY <1>1, <1>2, <1>3, <1>4 DEF Drive

\* How the steps left of an operation compare.
LEMMA StepsShrink ==
  ASSUME NEW a \in 0..MaxAttempts, NEW p \in 1..2
  PROVE  /\ \A s : StepsLeft(s, a, p) \in Nat
         /\ StepsLeft("queued", a, p) < StepsLeft("planned", a, p)
         /\ StepsLeft("done", a, p) < StepsLeft("planned", a, p)
         /\ StepsLeft("ready", 1, p) < StepsLeft("queued", a, p)
         /\ \A t \in Targets : StepsLeft(t, a, p) < StepsLeft("ready", a, p)
         /\ \A s \in {"queued", "ready"} \cup Targets :
              \A b \in 0..MaxAttempts, q \in 1..2 : StepsLeft("done", b, q) < StepsLeft(s, a, p)
         /\ a < MaxAttempts => \A s \in {"ready"} \cup Targets : StepsLeft("ready", a + 1, 1) < StepsLeft(s, a, p)
         /\ p = 1 => \A t \in Targets : StepsLeft("ready", a, 2) < StepsLeft(t, a, p)
<1> DEFINE rest == 4 * (MaxAttempts - a) + 2 * (2 - p)
<1>1. rest \in Nat /\ MaxAttempts \in Nat
  OBVIOUS
<1>2. /\ \A b, q : StepsLeft("planned", b, q) = 4 * MaxAttempts + 2
      /\ \A b, q : StepsLeft("queued", b, q) = 4 * MaxAttempts + 1
      /\ \A b, q : StepsLeft("ready", b, q) = 4 * (MaxAttempts - b) + 2 * (2 - q) + 2
      /\ \A t \in Targets : \A b, q : StepsLeft(t, b, q) = 4 * (MaxAttempts - b) + 2 * (2 - q) + 1
      /\ \A b, q : StepsLeft("done", b, q) = 0
  BY DEF StepsLeft, Targets
<1>3. \A s : \A b \in 0..MaxAttempts, q \in 1..2 : StepsLeft(s, b, q) \in Nat
  BY DEF StepsLeft
<1>4. /\ StepsLeft("queued", a, p) < StepsLeft("planned", a, p)
      /\ StepsLeft("done", a, p) < StepsLeft("planned", a, p)
  BY <1>1, <1>2
<1>5. StepsLeft("ready", 1, p) < StepsLeft("queued", a, p)
  BY <1>2
<1>6. ASSUME NEW t \in Targets
      PROVE  /\ StepsLeft(t, a, p) < StepsLeft("ready", a, p)
             /\ p = 1 => StepsLeft("ready", a, 2) < StepsLeft(t, a, p)
  <2>1. StepsLeft(t, a, p) = 4 * (MaxAttempts - a) + 2 * (2 - p) + 1
    BY <1>2
  <2>2. /\ StepsLeft("ready", a, p) = 4 * (MaxAttempts - a) + 2 * (2 - p) + 2
        /\ StepsLeft("ready", a, 2) = 4 * (MaxAttempts - a) + 2 * (2 - 2) + 2
    BY <1>2
  <2> QED
    BY <2>1, <2>2
<1>7. ASSUME NEW s \in {"queued", "ready"} \cup Targets, NEW b \in 0..MaxAttempts, NEW q \in 1..2
      PROVE  StepsLeft("done", b, q) < StepsLeft(s, a, p)
  <2>1. StepsLeft("done", b, q) = 0
    BY <1>2
  <2>2. StepsLeft(s, a, p) \in Nat /\ StepsLeft(s, a, p) > 0
    <3>1. CASE s = "queued"
      BY <1>1, <1>2, <3>1
    <3>2. CASE s = "ready"
      <4>1. StepsLeft(s, a, p) = rest + 2
        BY <1>2, <3>2
      <4> QED
        BY <1>1, <4>1
    <3>3. CASE s \in Targets
      <4>1. StepsLeft(s, a, p) = rest + 1
        BY <1>2, <3>3
      <4> QED
        BY <1>1, <4>1
    <3> QED
      BY <3>1, <3>2, <3>3
  <2> QED
    BY <2>1, <2>2
<1>8. ASSUME a < MaxAttempts, NEW s \in {"ready"} \cup Targets
      PROVE  StepsLeft("ready", a + 1, 1) < StepsLeft(s, a, p)
  <2>1. StepsLeft("ready", a + 1, 1) = 4 * (MaxAttempts - (a + 1)) + 2 * (2 - 1) + 2
    BY <1>2
  <2>2. StepsLeft(s, a, p) \in {rest + 1, rest + 2}
    BY <1>2
  <2> QED
    BY <2>1, <2>2
<1> QED
  BY <1>3, <1>4, <1>5, <1>6, <1>7, <1>8

\* An operation that moves has fewer steps left; the others keep theirs.
LEMMA OthersKeep ==
  ASSUME WindowInv, PartInv, NEW n \in Items,
         stage' = [stage EXCEPT ![n] = stage'[n]], part' = [part EXCEPT ![n] = part'[n]],
         attempts' = [attempts EXCEPT ![n] = attempts'[n]],
         OperationLeft(n)' < OperationLeft(n), OperationLeft(n)' \in Nat
  PROVE  \A m \in Items : OperationLeft(m)' \in 0 .. OperationLeft(m)
<1> SUFFICES ASSUME NEW m \in Items PROVE OperationLeft(m)' \in 0 .. OperationLeft(m)
  OBVIOUS
<1>1. attempts[m] \in 0..MaxAttempts /\ part[m] \in 1..2
  BY DEF WindowInv, WindowType, PartInv
<1>2. OperationLeft(m) \in Nat
  BY <1>1, StepsShrink DEF OperationLeft
<1>3. CASE m = n
  BY <1>2, <1>3
<1>4. CASE m # n
  <2>1. stage'[m] = stage[m] /\ part'[m] = part[m] /\ attempts'[m] = attempts[m]
    BY <1>4 DEF WindowInv, WindowType, PartInv
  <2>2. OperationLeft(m)' = OperationLeft(m)
    BY <2>1 DEF OperationLeft
  <2> QED
    BY <1>2, <2>2
<1> QED
  BY <1>3, <1>4

\* Every step of a worker is one of those its operation has left.
LEMMA OperationGoes ==
  ASSUME WindowInv, PartInv, WindowInv', PartInv', NEW n \in Items, Take(n) \/ Request(n) \/ Answer(n)
  PROVE  /\ stage' = [stage EXCEPT ![n] = stage'[n]] /\ part' = [part EXCEPT ![n] = part'[n]]
         /\ attempts' = [attempts EXCEPT ![n] = attempts'[n]]
         /\ OperationLeft(n)' < OperationLeft(n) /\ OperationLeft(n)' \in Nat
<1>0. /\ attempts[n] \in 0..MaxAttempts /\ part[n] \in 1..2
      /\ attempts'[n] \in 0..MaxAttempts /\ part'[n] \in 1..2
      /\ stage \in [Items -> {"planned", "queued", "ready", "done"} \cup Targets]
      /\ part \in [Items -> 1..2] /\ attempts \in [Items -> 0..MaxAttempts]
  BY DEF WindowInv, WindowType, PartInv
<1>1. /\ stage' = [stage EXCEPT ![n] = stage'[n]] /\ part' = [part EXCEPT ![n] = part'[n]]
      /\ attempts' = [attempts EXCEPT ![n] = attempts'[n]]
  BY <1>0 DEF Take, Request, Answer, Lose, Check, Overload, Continue, Enter
<1>2. OperationLeft(n)' \in Nat
  BY <1>0, StepsShrink DEF OperationLeft
<1>3. ASSUME stage[n] \in {"queued", "ready"} \cup Targets, stage'[n] = "done"
      PROVE  OperationLeft(n)' < OperationLeft(n)
  BY <1>0, <1>3, StepsShrink DEF OperationLeft
<1>4. ASSUME Overload(n), stage[n] \in {"ready"} \cup Targets
      PROVE  OperationLeft(n)' < OperationLeft(n)
  <2>1. CASE attempts[n] < MaxAttempts
    <3>1. stage'[n] = "ready" /\ attempts'[n] = attempts[n] + 1 /\ part'[n] = 1
      BY <1>0, <1>4, <2>1 DEF Overload
    <3>2. OperationLeft(n)' = StepsLeft("ready", attempts[n] + 1, 1)
      BY <3>1 DEF OperationLeft
    <3>3. OperationLeft(n) = StepsLeft(stage[n], attempts[n], part[n])
      BY DEF OperationLeft
    <3> QED
      BY <1>0, <1>4, <2>1, <3>2, <3>3, StepsShrink
  <2>2. CASE ~(attempts[n] < MaxAttempts)
    BY <1>0, <1>3, <1>4, <2>2 DEF Overload, Enter
  <2> QED
    BY <2>1, <2>2
<1>5. ASSUME Take(n) PROVE OperationLeft(n)' < OperationLeft(n)
  <2>1. CASE now < Duration
    <3>1. stage[n] = "queued" /\ stage'[n] = "ready" /\ attempts'[n] = 1 /\ part'[n] = part[n]
      BY <1>0, <1>5, <2>1 DEF Take
    <3>2. OperationLeft(n)' = StepsLeft("ready", 1, part[n]) /\ OperationLeft(n) = StepsLeft("queued", attempts[n], part[n])
      BY <3>1 DEF OperationLeft
    <3>3. StepsLeft("ready", 1, part[n]) < StepsLeft("queued", attempts[n], part[n])
      BY <1>0, StepsShrink
    <3> QED
      BY <3>2, <3>3
  <2>2. CASE ~(now < Duration)
    <3>1. stage[n] = "queued" /\ stage'[n] = "done"
      BY <1>0, <1>5, <2>2 DEF Take, Enter
    <3> QED
      BY <1>3, <3>1
  <2> QED
    BY <2>1, <2>2
<1>6. ASSUME Request(n) PROVE OperationLeft(n)' < OperationLeft(n)
  <2>0. stage[n] = "ready"
    BY <1>6 DEF Request
  <2>1. CASE Lose(n)
    <3>1. stage'[n] = "done"
      BY <1>0, <2>1 DEF Lose, Enter
    <3> QED
      BY <1>3, <2>0, <3>1
  <2>2. ASSUME NEW t \in Targets, Check(n, t) PROVE OperationLeft(n)' < OperationLeft(n)
    <3>1. CASE Room(t)
      <4>1. stage'[n] = t /\ attempts'[n] = attempts[n] /\ part'[n] = part[n]
        BY <1>0, <2>2, <3>1 DEF Check
      <4>2. OperationLeft(n)' = StepsLeft(t, attempts[n], part[n])
        BY <4>1 DEF OperationLeft
      <4>3. OperationLeft(n) = StepsLeft("ready", attempts[n], part[n])
        BY <2>0 DEF OperationLeft
      <4> QED
        BY <1>0, <4>2, <4>3, StepsShrink
    <3>2. CASE ~Room(t)
      BY <1>4, <2>0, <2>2, <3>2 DEF Check
    <3> QED
      BY <3>1, <3>2
  <2> QED
    BY <1>6, <2>1, <2>2 DEF Request
<1>7. ASSUME Answer(n) PROVE OperationLeft(n)' < OperationLeft(n)
  <2>0. stage[n] \in Targets
    BY <1>7 DEF Answer
  <2>1. CASE Continue(n) /\ attempts' = attempts
    <3>1. CASE part[n] < Parts(n)
      <4>1. stage'[n] = "ready" /\ attempts'[n] = attempts[n] /\ part[n] = 1 /\ part'[n] = 2
        BY <1>0, <2>1, <3>1 DEF Continue, Parts
      <4>2. OperationLeft(n)' = StepsLeft("ready", attempts[n], 2)
        BY <4>1 DEF OperationLeft
      <4>3. OperationLeft(n) = StepsLeft(stage[n], attempts[n], part[n])
        BY DEF OperationLeft
      <4>4. StepsLeft("ready", attempts[n], 2) < StepsLeft(stage[n], attempts[n], part[n])
        BY <1>0, <2>0, <4>1, StepsShrink
      <4> QED
        BY <4>2, <4>3, <4>4
    <3>2. CASE ~(part[n] < Parts(n))
      <4>1. stage'[n] = "done"
        BY <1>0, <2>1, <3>2 DEF Continue, Enter
      <4> QED
        BY <1>3, <2>0, <4>1
    <3> QED
      BY <3>1, <3>2
  <2>2. CASE Overload(n)
    BY <1>4, <2>0, <2>2
  <2>3. CASE Enter(n, "failed")
    <3>1. stage'[n] = "done"
      BY <1>0, <2>3 DEF Enter
    <3> QED
      BY <1>3, <2>0, <3>1
  <2> QED
    BY <1>7, <2>1, <2>2, <2>3 DEF Answer
<1> QED
  BY <1>1, <1>2, <1>5, <1>6, <1>7

\* A window does a bounded number of things: the operations have their steps, and
\* between two of them only checks are let go of that nobody waits for
\* (operation(), its retries and the requests of a Git read).
THEOREM WindowIsFinite == Spec => FiniteWindow
<1> DEFINE NoMore == \A n \in Items : OperationLeft(n)' \in 0 .. OperationLeft(n)
           Less == \/ \E n \in Items : OperationLeft(n)' < OperationLeft(n)
                   \/ UNCHANGED <<stage, part, attempts>> /\ \E t \in Targets : orphans'[t] < orphans[t]
                   \/ window' = "done"
<1>1. ASSUME WindowInv, PartInv, WindowInv', PartInv', WindowStep
      PROVE  NoMore /\ (now' = now => Less)
  <2>0. \A n \in Items : OperationLeft(n) \in Nat
    BY <1>1, StepsShrink DEF OperationLeft, WindowInv, WindowType, PartInv
  <2>1. ASSUME UNCHANGED <<stage, part, attempts>> PROVE NoMore
    <3>1. \A n \in Items : OperationLeft(n)' = OperationLeft(n)
      BY <2>1 DEF OperationLeft
    <3> QED
      BY <2>0, <3>1
  <2>2. CASE Tick
    <3>1. UNCHANGED <<stage, part, attempts>> /\ now' = now + 1 /\ now \in Int
      BY <1>1, <2>2 DEF Tick, WindowInv, WindowType
    <3> QED
      BY <2>1, <3>1
  <2>3. CASE End
    <3>1. UNCHANGED <<stage, part, attempts>> /\ window' = "done"
      BY <2>3 DEF End, driveVars
    <3> QED
      BY <2>1, <3>1
  <2>4. ASSUME NEW t \in Targets, Release(t) PROVE NoMore /\ Less
    <3>1. UNCHANGED <<stage, part, attempts>>
      BY <2>4 DEF Release
    <3>2. orphans'[t] < orphans[t]
      BY <1>1, <2>4 DEF Release, WindowInv, WindowType
    <3> QED
      BY <2>1, <3>1, <3>2
  <2>5. CASE Arrive
    <3>1. PICK n \in Items : n = cursor
      BY <1>1, <2>5 DEF Arrive, WindowInv, WindowType, Items
    <3>2. stage[n] = "planned" /\ stage'[n] \in {"queued", "done"} /\ UNCHANGED <<part, attempts>>
      BY <1>1, <2>5, <3>1 DEF Arrive, LeaveOut, Enter, WindowInv, WindowType, RowInv, Items
    <3>3. /\ stage' = [stage EXCEPT ![n] = stage'[n]] /\ part' = [part EXCEPT ![n] = part'[n]]
          /\ attempts' = [attempts EXCEPT ![n] = attempts'[n]]
      BY <1>1, <2>5, <3>1, <3>2 DEF Arrive, LeaveOut, Enter, WindowInv, WindowType, PartInv
    <3>4. attempts[n] \in 0..MaxAttempts /\ part[n] \in 1..2
      BY <1>1 DEF WindowInv, WindowType, PartInv
    <3>5. /\ OperationLeft(n)' = StepsLeft(stage'[n], attempts[n], part[n])
          /\ OperationLeft(n) = StepsLeft("planned", attempts[n], part[n])
      BY <3>2 DEF OperationLeft
    <3>6. OperationLeft(n)' < OperationLeft(n) /\ OperationLeft(n)' \in Nat
      BY <3>2, <3>4, <3>5, StepsShrink
    <3> QED
      BY <1>1, <3>3, <3>6, OthersKeep
  <2>6. ASSUME NEW n \in Items, Take(n) \/ Request(n) \/ Answer(n) PROVE NoMore /\ Less
    <3>1. /\ stage' = [stage EXCEPT ![n] = stage'[n]] /\ part' = [part EXCEPT ![n] = part'[n]]
          /\ attempts' = [attempts EXCEPT ![n] = attempts'[n]]
          /\ OperationLeft(n)' < OperationLeft(n) /\ OperationLeft(n)' \in Nat
      BY <1>1, <2>6, OperationGoes
    <3> QED
      BY <1>1, <3>1, OthersKeep
  <2> QED
    BY <1>1, <2>2, <2>3, <2>4, <2>5, <2>6 DEF WindowStep
<1>2. IInv /\ IInv' /\ PartInv /\ PartInv' /\ [Next]_vars =>
        [window = "open" /\ window' # "closed" => NoMore /\ (now' = now => Less)]_windowVars
  BY <1>1, OnlyWindowSteps DEF IInv
<1>3. Init => PartInv
  BY DEF Init, InitWindow, PartInv
<1> QED
  BY <1>2, <1>3, PartStep, Invariance, PTL DEF Spec, FiniteWindow

\* Among the arrivals of a class that wait for a worker there is a first one.
LEMMA FirstInLine ==
  ASSUME NEW Q \in SUBSET Items, Q # {}
  PROVE  \E n \in Q : \A m \in Q : n <= m
<1>1. Q \subseteq Nat
  BY DEF Items
<1>2. PICK n \in Q : \A m \in Q : ~(<<m, n>> \in OpToRel(<, Nat))
  BY <1>1, NatLessThanWellFounded, WFMin
<1>3. \A m \in Q : ~(m < n)
  BY <1>1, <1>2 DEF OpToRel
<1> QED
  BY <1>1, <1>3

\* With no operation at work, the first in line of any class finds a worker.
LEMMA FreeWorker ==
  ASSUME WindowInv, Unfinished # {}
  PROVE  \E n \in Items : OperationMoves(n)
<1> SUFFICES ASSUME \A n \in Items : stage[n] \notin {"ready"} \cup Targets
             PROVE  \E n \in Items : OperationMoves(n)
  <2>1. ASSUME NEW n \in Items, stage[n] = "ready" PROVE OperationMoves(n)
    <3>1. \E t \in Targets : Serves(t, Kind[n])
      BY DEF Serves, Targets, Classes
    <3> QED
      BY <2>1, <3>1 DEF OperationMoves
  <2> QED
    BY <2>1 DEF OperationMoves
<1>1. PICK x \in Items : stage[x] = "queued"
  BY DEF Unfinished, WindowInv, WindowType
<1> DEFINE Q == {m \in Items : Kind[m] = Kind[x] /\ stage[m] = "queued"}
<1>2. Q \in SUBSET Items /\ x \in Q
  BY <1>1
<1>3. PICK n \in Q : \A m \in Q : n <= m
  BY <1>2, FirstInLine
<1>4. n \in Items /\ stage[n] = "queued" /\ Kind[n] = Kind[x]
  BY <1>3
<1>5. \A m \in Items : Kind[m] = Kind[n] /\ stage[m] = "queued" => n <= m
  BY <1>3, <1>4
<1>6. Cardinality(Busy(Kind[n])) < Workers[Kind[n]]
  <2>1. Busy(Kind[n]) = {}
    BY DEF Busy, Unfinished, WindowInv, WindowType
  <2>2. Cardinality(Busy(Kind[n])) = 0
    BY <2>1, FS_EmptySet
  <2>3. Workers[Kind[n]] \in Nat \ {0}
    BY <1>4
  <2> QED
    BY <2>2, <2>3
<1> QED
  BY <1>4, <1>5, <1>6 DEF OperationMoves

\* When the duration of a window is over something in it can go on, and with
\* WindowIsFinite that only so often: drive() comes to its end record.
THEOREM WindowNeverStands == Spec => []WindowMoves
<1>1. IInv => WindowMoves
  <2> SUFFICES ASSUME IInv, window = "open", now >= Duration
               PROVE  NextMoves \/ \E n \in Items : OperationMoves(n)
    BY DEF WindowMoves
  <2>1. CASE cursor <= N
    <3>1. cursor \in Items /\ N \in Items /\ now \in Nat
      BY <2>1 DEF IInv, WindowInv, WindowType, Items
    <3>2. At[cursor] \in Nat /\ At[N] \in Nat /\ At[cursor] <= At[N]
      BY <2>1, <3>1
    <3> QED
      BY <2>1, <3>1, <3>2 DEF NextMoves
  <2>2. CASE ~(cursor <= N)
    BY <2>2, FreeWorker DEF NextMoves, IInv
  <2> QED
    BY <2>1, <2>2
<1> QED
  BY <1>1, Invariance, PTL

\* What drive() promises for a window, up to fairness.
THEOREM WindowsKeepContract == Spec => WindowContract
  BY WindowIsALedger, WindowIsFinite, WindowNeverStands, PTL DEF WindowContract

-----------------------------------------------------------------------------
(* Whose the overloads are.                                                *)

\* The attempts of a class, and its operations at work or ended by something
\* else than an overload: the last attempt of each is no overload, all the
\* others of the class are.
Made(k) == {x \in {n \in Items : Kind[n] = k} \X (1..MaxAttempts) : x[2] <= attempts[x[1]]}
AtWork == {"ready"} \cup Targets
Unspent(k) == {n \in Items : Kind[n] = k /\ (stage[n] \in AtWork \/ row[n] \in {"success", "failed"})}
Spent(k) == Cardinality(Made(k)) - Cardinality(Unspent(k))

\* Every rejection by a pool ended an attempt of its class as an overload, and
\* only denials by Forgejo ended others so.
AttributionInv ==
  /\ denials \in Nat
  /\ \A n \in Items : stage[n] \in {"planned", "queued"} => attempts[n] = 0
  /\ \A k \in Classes : rejected[k] <= Spent(k) /\ Spent(k) <= rejected[k] + denials

\* There are finitely many attempts.
LEMMA MadeFinite == \A k \in Classes : IsFiniteSet(Made(k)) /\ Cardinality(Made(k)) \in Nat
<1> SUFFICES ASSUME NEW k \in Classes
             PROVE  IsFiniteSet(Made(k)) /\ Cardinality(Made(k)) \in Nat
  OBVIOUS
<1> DEFINE S == {n \in Items : Kind[n] = k}
           P == S \X (1..MaxAttempts)
<1>1. IsFiniteSet(S)
  BY ItemsFinite, FS_Subset
<1>2. IsFiniteSet(1..MaxAttempts)
  BY FS_Interval
<1>3. IsFiniteSet(P)
  BY <1>1, <1>2, FS_Product
<1>4. Made(k) = {x \in P : x[2] <= attempts[x[1]]}
  BY DEF Made
<1> HIDE DEF P
<1>5. Made(k) \in SUBSET P
  BY <1>4
<1> QED
  BY <1>3, <1>5, FS_Subset, FS_CardinalityType

\* A new attempt is one of the class of its operation.
LEMMA MadeOneMore ==
  ASSUME attempts \in [Items -> 0..MaxAttempts], NEW n \in Items, attempts[n] < MaxAttempts,
         attempts' = [attempts EXCEPT ![n] = @ + 1], NEW k \in Classes
  PROVE  Cardinality(Made(k))' = Cardinality(Made(k)) + (IF Kind[n] = k THEN 1 ELSE 0)
<1>0. attempts[n] + 1 \in 1..MaxAttempts /\ attempts[n] \in Nat
  OBVIOUS
<1>1. CASE Kind[n] = k
  <2>1. Made(k)' = Made(k) \cup {<<n, attempts[n] + 1>>}
    BY <1>0, <1>1 DEF Made
  <2>2. <<n, attempts[n] + 1>> \notin Made(k)
    BY <1>0 DEF Made
  <2> QED
    BY <1>1, <2>1, <2>2, MadeFinite, FS_AddElement
<1>2. CASE Kind[n] # k
  <2>1. Made(k)' = Made(k)
    BY <1>2 DEF Made
  <2> QED
    BY <1>2, <2>1, MadeFinite
<1> QED
  BY <1>1, <1>2

\* What an operation that moves does to the overloads of its class.
LEMMA SpentMoves ==
  ASSUME WindowInv, NEW n \in Items, NEW s \in {"queued", "ready", "done"} \cup Targets, NEW o \in Outcomes,
         Moved(n, s, o), NEW a \in {0, 1}, NEW b \in {0, 1}, NEW c \in {0, 1},
         a = 0 => attempts' = attempts,
         a = 1 => attempts[n] < MaxAttempts /\ attempts' = [attempts EXCEPT ![n] = @ + 1],
         b = 1 <=> stage[n] \in AtWork,
         c = 1 <=> s \in AtWork \/ (s = "done" /\ o \in {"success", "failed"}),
         NEW k \in Classes
  PROVE  Spent(k) \in Int /\ Spent(k)' = Spent(k) + (IF Kind[n] = k THEN a + b - c ELSE 0)
<1> DEFINE m == Cardinality(Made(k))
           u == Cardinality(Unspent(k))
<1>1. m \in Nat /\ m' = m + (IF Kind[n] = k THEN a ELSE 0)
  <2>1. CASE a = 0
    <3>1. Made(k)' = Made(k)
      BY <2>1 DEF Made
    <3> QED
      BY <2>1, <3>1, MadeFinite
  <2>2. CASE a = 1
    BY <2>2, MadeFinite, MadeOneMore DEF WindowInv, WindowType
  <2> QED
    BY <2>1, <2>2
<1>2. u \in Nat /\ u' = u + (IF Kind[n] = k THEN c - b ELSE 0)
  <2>0. Unspent(k) \in SUBSET Items /\ IsFiniteSet(Unspent(k)) /\ u \in Nat
    <3>1. Unspent(k) \in SUBSET Items
      BY DEF Unspent
    <3> QED
      BY <3>1, Counted
  <2>1. row[n] = "open"
    BY DEF WindowInv, RowInv, Moved
  <2>2. n \in Unspent(k) <=> Kind[n] = k /\ b = 1
    BY <2>1 DEF Unspent
  <2>3. stage'[n] = s /\ (s = "done" => row'[n] = o) /\ (s # "done" => row'[n] = row[n])
    BY DEF Moved, WindowInv, WindowType
  <2>4. n \in Unspent(k)' <=> Kind[n] = k /\ c = 1
    BY <2>1, <2>3 DEF Unspent, AtWork, Targets
  <2>5. \A i \in Items : i # n => (i \in Unspent(k)' <=> i \in Unspent(k))
    BY DEF Moved, WindowInv, WindowType, Unspent
  <2>6. Unspent(k)' \in SUBSET Items
    BY DEF Unspent
  <2>7. CASE Kind[n] = k /\ c = 1
    <3>1. Unspent(k)' = Unspent(k) \cup {n}
      BY <2>0, <2>4, <2>5, <2>6, <2>7
    <3>2. Cardinality(Unspent(k) \cup {n}) = (IF n \in Unspent(k) THEN Cardinality(Unspent(k)) ELSE Cardinality(Unspent(k)) + 1)
      BY <2>0, FS_AddElement
    <3>3. u' = Cardinality(Unspent(k) \cup {n})
      BY <3>1
    <3>4. u' = (IF n \in Unspent(k) THEN u ELSE u + 1)
      BY <3>2, <3>3
    <3> HIDE DEF u
    <3> QED
      BY <2>0, <2>2, <2>7, <3>4
  <2>8. CASE ~(Kind[n] = k /\ c = 1)
    <3>1. Unspent(k)' = Unspent(k) \ {n}
      BY <2>0, <2>4, <2>5, <2>6, <2>8
    <3>2. Cardinality(Unspent(k) \ {n}) = (IF n \in Unspent(k) THEN Cardinality(Unspent(k)) - 1 ELSE Cardinality(Unspent(k)))
      BY <2>0, FS_RemoveElement
    <3>3. u' = Cardinality(Unspent(k) \ {n})
      BY <3>1
    <3>4. u' = (IF n \in Unspent(k) THEN u - 1 ELSE u)
      BY <3>2, <3>3
    <3> HIDE DEF u
    <3> QED
      BY <2>0, <2>2, <2>8, <3>4
  <2> QED
    BY <2>7, <2>8
<1>3. Spent(k) = m - u /\ Spent(k)' = m' - u'
  BY DEF Spent
<1> HIDE DEF m, u
<1> QED
  BY <1>1, <1>2, <1>3

\* A step that counts nothing.
LEMMA SpentSame ==
  ASSUME AttributionInv, UNCHANGED <<stage, row, attempts, rejected, denials>>
  PROVE  AttributionInv'
<1>1. \A k : Made(k)' = Made(k) /\ Unspent(k)' = Unspent(k)
  BY DEF Made, Unspent
<1>2. \A k : Spent(k)' = Spent(k)
  BY <1>1 DEF Spent
<1> QED
  BY <1>2 DEF AttributionInv

\* A window as it is opened, or reset.
LEMMA SpentFresh ==
  ASSUME stage' = [n \in Items |-> "planned"], row' = [n \in Items |-> "open"],
         attempts' = [n \in Items |-> 0], rejected' = [k \in Classes |-> 0], denials' = 0
  PROVE  AttributionInv'
<1>1. \A k : Made(k)' = {} /\ Unspent(k)' = {}
  BY DEF Made, Unspent, AtWork, Targets
<1>2. \A k : Spent(k)' = 0
  <2>1. \A k : Cardinality(Made(k)') = 0 /\ Cardinality(Unspent(k)') = 0
    BY <1>1, FS_EmptySet
  <2> QED
    BY <2>1 DEF Spent
<1> QED
  BY <1>2 DEF AttributionInv

\* An attempt that goes on, or ends in anything but an overload.
LEMMA NoOverload ==
  ASSUME WindowInv, AttributionInv, NEW n \in Items, NEW s \in {"queued", "ready", "done"} \cup Targets,
         NEW o \in Outcomes, Moved(n, s, o), UNCHANGED <<attempts, rejected, denials>>,
         stage[n] \in AtWork <=> s \in AtWork \/ (s = "done" /\ o \in {"success", "failed"})
  PROVE  AttributionInv'
<1>1. \A k \in Classes : Spent(k)' = Spent(k)
  <2> SUFFICES ASSUME NEW k \in Classes
               PROVE  Spent(k)' = Spent(k)
    OBVIOUS
  <2>1. CASE stage[n] \in AtWork
    <3>1. Spent(k) \in Int /\ Spent(k)' = Spent(k) + (IF Kind[n] = k THEN 0 + 1 - 1 ELSE 0)
      BY <2>1, SpentMoves
    <3> QED
      BY <3>1
  <2>2. CASE stage[n] \notin AtWork
    <3>1. Spent(k) \in Int /\ Spent(k)' = Spent(k) + (IF Kind[n] = k THEN 0 + 0 - 0 ELSE 0)
      BY <2>2, SpentMoves
    <3> QED
      BY <3>1
  <2> QED
    BY <2>1, <2>2
<1>2. \A i \in Items : stage'[i] \in {"planned", "queued"} => attempts'[i] = 0
  BY DEF AttributionInv, Moved, WindowInv, WindowType, AtWork, Targets
<1> QED
  BY <1>1, <1>2 DEF AttributionInv

\* An attempt that ends in an overload, by a pool or by Forgejo.
LEMMA OneOverload ==
  ASSUME WindowInv, AttributionInv, NEW n \in Items, stage[n] \in AtWork, Overload(n), UNCHANGED cursor,
         \/ rejected' = [rejected EXCEPT ![Kind[n]] = @ + 1] /\ denials' = denials
         \/ rejected' = rejected /\ denials' = denials + 1
  PROVE  AttributionInv'
<1>0. Kind[n] \in Classes /\ rejected \in [Classes -> Nat] /\ denials \in Nat /\ denials' \in Nat
  BY DEF WindowInv, WindowType, AttributionInv
<1>1. \A k \in Classes : Spent(k) \in Int /\ Spent(k)' = Spent(k) + (IF Kind[n] = k THEN 1 ELSE 0)
  <2> SUFFICES ASSUME NEW k \in Classes
               PROVE  Spent(k) \in Int /\ Spent(k)' = Spent(k) + (IF Kind[n] = k THEN 1 ELSE 0)
    OBVIOUS
  <2>1. CASE attempts[n] < MaxAttempts
    <3>1. Moved(n, "ready", "overloaded") /\ attempts' = [attempts EXCEPT ![n] = @ + 1]
      BY <2>1 DEF Overload, Moved, AtWork, Targets
    <3>2. PICK a \in {0, 1} : a = 1
      OBVIOUS
    <3>3. /\ a = 0 => attempts' = attempts
          /\ a = 1 => attempts[n] < MaxAttempts /\ attempts' = [attempts EXCEPT ![n] = @ + 1]
      BY <2>1, <3>1, <3>2
    <3>4. /\ a = 1 <=> stage[n] \in AtWork
          /\ a = 1 <=> "ready" \in AtWork \/ ("ready" = "done" /\ "overloaded" \in {"success", "failed"})
      BY <3>2 DEF AtWork
    <3>5. "overloaded" \in Outcomes /\ Moved(n, "ready", "overloaded")
      BY <3>1 DEF Outcomes
    <3>6. Spent(k) \in Int /\ Spent(k)' = Spent(k) + (IF Kind[n] = k THEN a + a - a ELSE 0)
      BY <3>3, <3>4, <3>5, SpentMoves
    <3> QED
      BY <3>2, <3>6
  <2>2. CASE ~(attempts[n] < MaxAttempts)
    <3>1. Moved(n, "done", "overloaded") /\ attempts' = attempts
      BY <2>2 DEF Overload, Enter, Moved, AtWork, Targets
    <3>2. Spent(k) \in Int /\ Spent(k)' = Spent(k) + (IF Kind[n] = k THEN 0 + 1 - 0 ELSE 0)
      BY <3>1, SpentMoves DEF AtWork, Targets, Outcomes
    <3> QED
      BY <3>2
  <2> QED
    BY <2>1, <2>2
<1>2. \A i \in Items : stage'[i] \in {"planned", "queued"} => attempts'[i] = 0
  BY DEF AttributionInv, Overload, Enter, WindowInv, WindowType
<1>3. \A k \in Classes : rejected'[k] <= Spent(k)' /\ Spent(k)' <= rejected'[k] + denials'
  <2> SUFFICES ASSUME NEW k \in Classes
               PROVE  rejected'[k] <= Spent(k)' /\ Spent(k)' <= rejected'[k] + denials'
    OBVIOUS
  <2>1. rejected[k] <= Spent(k) /\ Spent(k) <= rejected[k] + denials /\ rejected[k] \in Nat
    BY <1>0 DEF AttributionInv
  <2> QED
    BY <1>0, <1>1, <2>1
<1> QED
  BY <1>0, <1>2, <1>3 DEF AttributionInv

\* The first attempt of an operation starts when a worker takes it.
LEMMA TakeSpends ==
  ASSUME WindowInv, AttributionInv, NEW n \in Items, Take(n)
  PROVE  AttributionInv'
<1> USE DEF Take, Enter, countVars
<1>1. CASE now < Duration
  <2>1. Moved(n, "ready", "unissued")
    BY <1>1 DEF Moved
  <2>2. attempts[n] = 0 /\ attempts[n] < MaxAttempts /\ attempts' = [attempts EXCEPT ![n] = @ + 1]
    BY <1>1 DEF AttributionInv, WindowInv, WindowType
  <2>3. \A k \in Classes : Spent(k)' = Spent(k)
    <3> SUFFICES ASSUME NEW k \in Classes
                 PROVE  Spent(k)' = Spent(k)
      OBVIOUS
    <3>1. PICK a \in {0, 1} : a = 1
      OBVIOUS
    <3>2. /\ a = 0 => attempts' = attempts
          /\ a = 1 => attempts[n] < MaxAttempts /\ attempts' = [attempts EXCEPT ![n] = @ + 1]
      BY <2>2, <3>1
    <3>3. /\ 0 = 1 <=> stage[n] \in AtWork
          /\ a = 1 <=> "ready" \in AtWork \/ ("ready" = "done" /\ "unissued" \in {"success", "failed"})
      BY <1>1, <3>1 DEF AtWork, Targets
    <3>4. "unissued" \in Outcomes /\ Moved(n, "ready", "unissued")
      BY <2>1 DEF Outcomes
    <3>5. Spent(k) \in Int /\ Spent(k)' = Spent(k) + (IF Kind[n] = k THEN a + 0 - a ELSE 0)
      BY <3>2, <3>3, <3>4, SpentMoves
    <3> QED
      BY <3>1, <3>5
  <2>4. \A i \in Items : stage'[i] \in {"planned", "queued"} => attempts'[i] = 0
    BY <1>1 DEF AttributionInv, WindowInv, WindowType
  <2> QED
    BY <2>3, <2>4 DEF AttributionInv
<1>2. CASE ~(now < Duration)
  <2>1. Moved(n, "done", "unissued")
    BY <1>2 DEF Moved
  <2> QED
    BY <1>2, <2>1, NoOverload DEF AtWork, Targets, Outcomes
<1> QED
  BY <1>1, <1>2

\* A request is lost, held by a target or rejected by it.
LEMMA RequestSpends ==
  ASSUME WindowInv, AttributionInv, NEW n \in Items, Request(n)
  PROVE  AttributionInv'
<1> USE DEF Request
<1>1. CASE Lose(n)
  <2>1. Moved(n, "done", "failed")
    BY <1>1 DEF Lose, Enter, Moved
  <2> QED
    BY <1>1, <2>1, NoOverload DEF Lose, AtWork, Targets, Outcomes
<1>2. ASSUME NEW t \in Targets, Check(n, t), Room(t)
      PROVE  AttributionInv'
  <2>1. Moved(n, t, "failed")
    BY <1>2 DEF Check, Moved, Targets
  <2> QED
    BY <1>2, <2>1, NoOverload DEF Check, AtWork, Outcomes
<1>3. ASSUME NEW t \in Targets, Check(n, t), ~Room(t)
      PROVE  AttributionInv'
  BY <1>3, OneOverload DEF Check, AtWork
<1> QED
  BY <1>1, <1>2, <1>3

\* The answer to an admitted request.
LEMMA AnswerSpends ==
  ASSUME WindowInv, AttributionInv, NEW n \in Items, Answer(n)
  PROVE  AttributionInv'
<1> USE DEF Answer
<1>0. stage[n] \in AtWork /\ stage[n] # "done" /\ stage[n] # "planned"
  BY DEF AtWork, Targets
<1>1. CASE Continue(n) /\ UNCHANGED <<attempts, denials, orphans>>
  <2>1. CASE part[n] < Parts(n)
    <3>1. Moved(n, "ready", "success")
      BY <1>0, <1>1, <2>1 DEF Continue, Moved
    <3> QED
      BY <1>0, <1>1, <3>1, NoOverload DEF AtWork, Outcomes
  <2>2. CASE ~(part[n] < Parts(n))
    <3>1. Moved(n, "done", "success")
      BY <1>0, <1>1, <2>2 DEF Continue, Enter, Moved
    <3> QED
      BY <1>0, <1>1, <3>1, NoOverload DEF AtWork, Outcomes
  <2> QED
    BY <2>1, <2>2
<1>2. CASE Overload(n) /\ denials' = denials + 1
  BY <1>0, <1>2, OneOverload
<1>3. CASE Enter(n, "failed") /\ UNCHANGED <<part, attempts, denials>>
  <2>1. Moved(n, "done", "failed")
    BY <1>0, <1>3 DEF Enter, Moved
  <2> QED
    BY <1>0, <1>3, <2>1, NoOverload DEF AtWork, Outcomes
<1> QED
  BY <1>1, <1>2, <1>3

\* Every step of a window keeps the attribution.
LEMMA WindowSpends ==
  ASSUME WindowInv, AttributionInv, WindowStep
  PROVE  AttributionInv'
<1>1. CASE Tick \/ End \/ \E t \in Targets : Release(t)
  BY <1>1, SpentSame DEF Tick, End, Release, driveVars, countVars
<1>2. CASE Arrive
  <2>1. cursor \in Items /\ stage[cursor] = "planned"
    BY <1>2 DEF Arrive, WindowInv, WindowType, RowInv, Items
  <2>2. Moved(cursor, "done", "unsubmitted") \/ Moved(cursor, "queued", "unsubmitted")
    BY <1>2, <2>1 DEF Arrive, LeaveOut, Enter, Moved
  <2> QED
    BY <1>2, <2>1, <2>2, NoOverload DEF Arrive, countVars, AtWork, Targets, Outcomes
<1> QED
  BY <1>1, <1>2, TakeSpends, RequestSpends, AnswerSpends DEF WindowStep

\* So does every step around it, which leaves the window alone or resets it.
LEMMA StepSpends ==
  ASSUME IInv, AttributionInv, [Next]_vars
  PROVE  AttributionInv'
<1>1. CASE Drive
  BY <1>1, WindowSpends DEF Drive, IInv
<1>2. CASE UNCHANGED windowVars
  BY <1>2, SpentSame DEF windowVars, driveVars, countVars
<1>3. CASE Fresh
  BY <1>3, SpentFresh DEF Fresh
<1>4. Drive \/ Fresh \/ UNCHANGED windowVars
  BY DEF vars, Next, Process, idle, Gate, ScaleAway, Vacate, Delete, Reap, Setup, ApplyPools, Rollout, Route, Restart, Converge,
     Identify, WarmUp, OpenWindow, Drain, Conclude, PatchHold, ScaleBack, Ready, Verify, Finish, PodStep,
     TargetStep, ProxyStep, Interrupt, Kill, NextRun
<1> QED
  BY <1>1, <1>2, <1>3, <1>4

\* In an accepted window each overload of a client is one rejection by a pool of
\* its class, and nothing is held (client_report(), window_accounting() and
\* accounting()).
THEOREM OverloadsAreAttributed == Spec => []AcceptedIsAttributed
<1>1. Init => AttributionInv
  <2> SUFFICES ASSUME Init PROVE AttributionInv
    OBVIOUS
  <2>1. \A k : Made(k) = {} /\ Unspent(k) = {}
    BY DEF Init, InitWindow, Made, Unspent, AtWork, Targets
  <2>2. \A k : Spent(k) = 0
    BY <2>1, FS_EmptySet DEF Spent
  <2> QED
    BY <2>2 DEF Init, InitWindow, AttributionInv
<1>2. IInv /\ AttributionInv => AcceptedIsAttributed
  <2> SUFFICES ASSUME IInv, AttributionInv, Accepted
               PROVE  /\ \A k \in Classes : SeenOverloads(k) = rejected[k]
                      /\ \A t \in Targets : Active(t) = 0
    BY DEF AcceptedIsAttributed
  <2>1. ClientReport /\ PoolGuard /\ denials = 0
    BY DEF Accepted, Judged, WindowAccounts
  <2>2. \A n \in Items : row[n] \in {"success", "overloaded"} /\ stage[n] = "done"
    BY <2>1 DEF ClientReport, IInv, WindowInv, RowInv
  <2>3. ASSUME NEW k \in Classes PROVE SeenOverloads(k) = rejected[k]
    <3>1. Unspent(k) = {n \in Items : Kind[n] = k /\ row[n] = "success"}
      BY <2>2 DEF Unspent, AtWork, Targets
    <3>2. SeenOverloads(k) = Spent(k)
      BY <3>1 DEF SeenOverloads, Attempted, Spent, Made
    <3>3. /\ rejected[k] <= Spent(k) /\ Spent(k) <= rejected[k] + 0 /\ rejected[k] \in Nat
      BY <2>1 DEF AttributionInv, IInv, WindowInv, WindowType
    <3>4. Cardinality(Made(k)) \in Nat /\ Cardinality(Unspent(k)) \in Nat
      <4>1. Unspent(k) \in SUBSET Items
        BY DEF Unspent
      <4> QED
        BY <4>1, Counted, MadeFinite
    <3>5. Spent(k) \in Int
      BY <3>4 DEF Spent
    <3> QED
      BY <3>2, <3>3, <3>5
  <2> QED
    BY <2>1, <2>3 DEF PoolGuard
<1> QED
  BY <1>1, <1>2, StepSpends, Invariance, PTL DEF Spec
-----------------------------------------------------------------------------
(* A run keeps to its own.                                                 *)

\* The steps of a run that leave what is registered, and what there is, alone.
LEMMA QuietSteps ==
  ASSUME Gate \/ ScaleAway \/ Vacate \/ Rollout \/ Route \/ Restart \/ Converge \/ Identify \/ WarmUp \/ OpenWindow \/ Drain \/ Conclude
         \/ PatchHold \/ ScaleBack \/ Ready \/ Verify \/ Finish \/ Interrupt \/ Drive \/ TargetStep \/ ProxyStep
  PROVE  owned' = owned /\ objects' = objects /\ pods' = pods
BY DEF Gate, ScaleAway, Vacate, Rollout, Route, Restart, Converge, Identify, WarmUp, OpenWindow, Drain, Conclude, PatchHold, ScaleBack,
   Ready, Verify, Finish, Interrupt, Drive, TargetStep, ProxyStep, clusterVars, proxyVars, pairVars, processVars

\* Only apply() adds anything, and only of an inventory that is registered.
LEMMA OnlyOwnIsAdded ==
  ASSUME IInv, Next
  PROVE  Present' \subseteq Present \cup (IF Alive THEN Owned ELSE {})
<1>1. CASE ApplyPools
  <2>1. pc = "apply" /\ mode = "run" /\ owned = {arm} /\ pods' = pods
    BY <1>1 DEF ApplyPools, IInv, RunInv, ProcessType, PhaseInv, Restoring, AfterBase, Routing, ArmInv, InArm
  <2>2. Owned = Inventory(arm) /\ Alive
    BY <2>1 DEF Owned, Alive, Over
  <2>3. objects' \subseteq objects \cup Inventory(arm)
    BY <1>1 DEF ApplyPools
  <2> QED
    BY <2>1, <2>2, <2>3 DEF Present
<1>2. CASE \E p \in Pools : PodStep(p)
  <2>1. objects' = objects /\ pods \in [Pools -> {"none", "starting", "ready", "terminating"}]
    BY <1>2 DEF PodStep, IInv, RunInv, ProcessType
  <2>2. \A p \in Pools : pods'[p] # "none" => p \in objects \/ pods[p] # "none"
    BY <1>2, <2>1 DEF PodStep
  <2> QED
    BY <2>1, <2>2 DEF Present
<1>3. CASE Delete \/ Reap \/ Setup \/ Kill \/ NextRun
  <2>1. objects' \subseteq objects /\ pods' = pods
    BY <1>3 DEF Delete, Reap, Setup, Kill, NextRun, clusterVars, proxyVars
  <2> QED
    BY <2>1 DEF Present
<1>4. CASE Gate \/ ScaleAway \/ Vacate \/ Rollout \/ Route \/ Restart \/ Converge \/ Identify \/ WarmUp \/ OpenWindow \/ Drain \/ Conclude
           \/ PatchHold \/ ScaleBack \/ Ready \/ Verify \/ Finish \/ Interrupt \/ Drive \/ TargetStep \/ ProxyStep
  BY <1>4, QuietSteps DEF Present
<1> QED
  BY <1>1, <1>2, <1>3, <1>4 DEF Next, Process

\* What is there of a run that lives is registered.
LEMMA PresentIsOwned == ASSUME IInv, Alive PROVE Present \subseteq Owned
  BY DEF IInv, RunInv, OwnershipCoversPools, Present, Alive

\* A step is one of OwnedObjects.
LEMMA RunStep ==
  ASSUME IInv, IInv', Next
  PROVE  [Own!Next]_<<Alive, IF Alive THEN Owned ELSE {}, Present>>
<1> DEFINE Mine == IF Alive THEN Owned ELSE {}
<1>0. Present' \subseteq Present \cup Mine
  BY OnlyOwnIsAdded
<1>1. CASE Alive /\ Alive'
  <2>1. Present' \subseteq Owned'
    BY <1>1 DEF IInv, RunInv, OwnershipCoversPools, Present, Alive
  <2>2. Mine' = Owned' /\ Alive' = Alive
    BY <1>1
  <2> QED
    BY <1>0, <1>1, <2>1, <2>2 DEF Own!Next, Own!Work
<1>2. CASE Alive /\ ~Alive'
  <2>1. Finish \/ Kill
    BY <1>2 DEF Alive, Over, Next, Process, Gate, ScaleAway, Vacate, Delete, Reap, Setup, ApplyPools, Rollout, Route, Restart, Converge,
       Identify, WarmUp, OpenWindow, Drain, Conclude, PatchHold, ScaleBack, Ready, Verify, AfterRoute, GoOrRaise, Go, Raise,
       Interrupt, NextRun, PodStep, TargetStep, ProxyStep, Drive, pairVars
  <2>2. Present' = Present
    BY <2>1 DEF Finish, Kill, clusterVars, proxyVars, Present
  <2>3. Mine' = {} /\ Alive' = FALSE
    BY <1>2 DEF Alive
  <2> QED
    BY <1>2, <2>2, <2>3 DEF Own!Next, Own!End
<1>3. CASE ~Alive /\ Alive'
  <2>1. Gate /\ pc' = "scale"
    BY <1>3 DEF Alive, Over, Next, Process, Gate, ScaleAway, Vacate, Delete, Reap, Setup, ApplyPools, Rollout, Route, Restart, Converge,
       Identify, WarmUp, OpenWindow, Drain, Conclude, PatchHold, ScaleBack, Ready, Verify, Finish, Go,
       Interrupt, Kill, NextRun, PodStep, TargetStep, ProxyStep, Drive, pairVars
  <2>2. mode = "run" /\ owned = {}
    BY <2>1 DEF Gate, IInv, RunInv, ProcessType, PhaseInv, Restoring, AfterBase, Routing, ArmInv
  <2>3. NothingLeft /\ owned' = {} /\ objects' = objects /\ pods' = pods
    BY <2>1, <2>2 DEF Gate, Go, clusterVars, proxyVars
  <2>4. Present = {} /\ Present' = {} /\ Owned' = {}
    BY <2>3 DEF NothingLeft, NoPods, Present, Owned
  <2> QED
    BY <1>3, <2>4 DEF Own!Next, Own!Begin
<1>4. CASE ~Alive /\ ~Alive'
  <2>1. Mine = {} /\ Mine' = {} /\ Alive = FALSE /\ Alive' = FALSE
    BY <1>4 DEF Alive
  <2> QED
    BY <1>0, <2>1 DEF Own!Next, Own!Vanish
<1> QED
  BY <1>1, <1>2, <1>3, <1>4

\* One run after another refines OwnedObjects: each begins on a fixture without
\* a trace of an earlier one, and adds only what it has registered; what it could
\* not remove or a kill left never grows again (run_pair(), Run.owned).
THEOREM RunKeepsToItsOwn == Spec => KeepsToItsOwn
<1>1. Init => Own!Init
  BY DEF Init, InitProcess, Own!Init, Alive, Over, Present
<1>2. IInv /\ IInv' /\ [Next]_vars => [Own!Next]_<<Alive, IF Alive THEN Owned ELSE {}, Present>>
  <2>1. ASSUME UNCHANGED vars PROVE UNCHANGED <<Alive, IF Alive THEN Owned ELSE {}, Present>>
    <3>1. pc' = pc /\ owned' = owned /\ objects' = objects /\ pods' = pods
      BY <2>1 DEF vars, pairVars, processVars, clusterVars, proxyVars
    <3>2. Alive' = Alive /\ Owned' = Owned /\ Present' = Present
      BY <3>1 DEF Alive, Owned, Inventory, PoolsOf, Present
    <3> QED
      BY <3>2
  <2> QED
    BY <2>1, RunStep
<1> QED
  BY <1>1, <1>2, Invariance, PTL DEF Spec, KeepsToItsOwn, Own!Spec
-----------------------------------------------------------------------------
(* A run comes to an end.                                                  *)

\* What is counted in restore() ...
LEMMA RestoreCounts ==
  ASSUME NEW a
  PROVE  /\ CommandsLeft("remove", "restore", a) = 11 /\ CommandsLeft("reap", "restore", a) = 10
         /\ CommandsLeft("route", "restore", a) = 9 /\ CommandsLeft("restart", "restore", a) = 8
         /\ CommandsLeft("converge", "restore", a) = 7 /\ CommandsLeft("hold", "restore", a) = 6
         /\ CommandsLeft("serve", "restore", a) = 5 /\ CommandsLeft("ready", "restore", a) = 4
         /\ CommandsLeft("verify", "restore", a) = 3 /\ CommandsLeft("finish", "restore", a) = 2
         /\ CommandsLeft("ended", "restore", a) = 0
BY DEF CommandsLeft, RestoreLeft

\* ... and before it, where the shared arm has the isolated one before it.
Extra(a) == IF a = "shared" THEN 13 ELSE 0

LEMMA ArmCounts ==
  ASSUME NEW a
  PROVE  /\ CommandsLeft("scale", "run", a) = 24 + Extra(a) /\ CommandsLeft("vacate", "run", a) = 23 + Extra(a)
         /\ CommandsLeft("remove", "run", a) = 24 + Extra(a) /\ CommandsLeft("reap", "run", a) = 23 + Extra(a)
         /\ CommandsLeft("setup", "run", a) = 22 + Extra(a) /\ CommandsLeft("apply", "run", a) = 21 + Extra(a)
         /\ CommandsLeft("rollout", "run", a) = 20 + Extra(a) /\ CommandsLeft("route", "run", a) = 19 + Extra(a)
         /\ CommandsLeft("restart", "run", a) = 18 + Extra(a) /\ CommandsLeft("converge", "run", a) = 17 + Extra(a)
         /\ CommandsLeft("identify", "run", a) = 16 + Extra(a) /\ CommandsLeft("warm", "run", a) = 15 + Extra(a)
         /\ CommandsLeft("open", "run", a) = 14 + Extra(a) /\ CommandsLeft("measure", "run", a) = 13 + Extra(a)
         /\ CommandsLeft("drain", "run", a) = 12 + Extra(a) /\ CommandsLeft("killed", "run", a) = 0
BY DEF CommandsLeft, ArmLeft, Extra

\* What a run is in the middle of: one of the two halves of run_pair().
Halves ==
  \/ mode = "restore" /\ pc \in {"remove", "reap", "hold", "serve", "ready", "verify", "finish"} \cup Routing
  \/ mode = "run" /\ pc \in {"scale", "vacate", "remove", "reap", "setup"} \cup InArm

LEMMA InHalf == ASSUME IInv, Alive PROVE Halves
BY DEF IInv, RunInv, ProcessType, PhaseInv, Restoring, AfterBase, Routing, InArm, Routed, Alive, Over, Steps, Halves

LEMMA HalfCounts ==
  ASSUME Halves
  PROVE  CommandsLeft(pc, mode, arm) \in 1 .. 37 /\ (mode = "run" => CommandsLeft(pc, mode, arm) >= 12)
<1>1. Extra(arm) \in {0, 13}
  BY DEF Extra
<1>2. CASE mode = "restore"
  BY <1>2, RestoreCounts DEF Halves, Routing
<1>3. CASE mode = "run"
  BY <1>1, <1>3, ArmCounts DEF Halves, InArm, Routing, Routed
<1> QED
  BY <1>2, <1>3 DEF Halves

\* A step of restore() is the next one of a list, whether it raises or not.
LEMMA RestoreFalls ==
  ASSUME IInv, Alive, mode = "restore", Process
  PROVE  CommandsLeft(pc', mode', arm') < CommandsLeft(pc, mode, arm)
<1>1. pc \in {"remove", "reap", "route", "restart", "converge", "hold", "serve", "ready", "verify", "finish"}
  BY InHalf DEF Halves, Routing
<1>2. Delete \/ Reap \/ Route \/ Restart \/ Converge \/ PatchHold \/ ScaleBack \/ Ready \/ Verify \/ Finish
  BY <1>1 DEF Process, Gate, ScaleAway, Vacate, Setup, ApplyPools, Rollout, Identify, WarmUp, OpenWindow, Drain,
     Conclude
<1>3. /\ mode' = "restore"
      /\ \/ pc = "remove" /\ pc' \in {"reap", "route"}
         \/ pc = "reap" /\ pc' = "route"
         \/ pc = "route" /\ pc' \in {"restart", "hold"}
         \/ pc = "restart" /\ pc' \in {"converge", "hold"}
         \/ pc = "converge" /\ pc' = "hold"
         \/ pc = "hold" /\ pc' = "serve"
         \/ pc = "serve" /\ pc' = "ready"
         \/ pc = "ready" /\ pc' = "verify"
         \/ pc = "verify" /\ pc' = "finish"
         \/ pc = "finish" /\ pc' = "ended"
  BY <1>2 DEF Delete, Reap, Route, Restart, Converge, PatchHold, ScaleBack, Ready, Verify, Finish, AfterRoute, GoOrRaise, Go, Raise
<1> QED
  BY <1>3, RestoreCounts

\* A step of the arms is the next one, or leads to the next arm or to restore().
LEMMA ArmFalls ==
  ASSUME IInv, Alive, mode = "run", Process
  PROVE  CommandsLeft(pc', mode', arm') < CommandsLeft(pc, mode, arm)
<1>0. Halves /\ arm \in Arms
  BY InHalf DEF IInv, WindowInv, WindowType
<1>1. \/ mode' = "restore" /\ pc' = "remove"
      \/ mode' = "run" /\ arm = "shared" /\ arm' = "isolated" /\ pc = "drain" /\ pc' = "remove"
      \/ /\ mode' = "run" /\ arm' = arm
         /\ \/ pc = "scale" /\ pc' = "vacate"
            \/ pc = "vacate" /\ pc' = "setup"
            \/ pc = "remove" /\ pc' = "reap"
            \/ pc = "reap" /\ pc' = "setup"
            \/ pc = "setup" /\ pc' = "apply"
            \/ pc = "apply" /\ pc' = "rollout"
            \/ pc = "rollout" /\ pc' = "route"
            \/ pc = "route" /\ pc' = "restart"
            \/ pc = "restart" /\ pc' = "converge"
            \/ pc = "converge" /\ pc' = "identify"
            \/ pc = "identify" /\ pc' = "warm"
            \/ pc = "warm" /\ pc' = "open"
            \/ pc = "open" /\ pc' = "measure"
            \/ pc = "measure" /\ pc' = "drain"
  <2> USE DEF GoOrRaise, Go, Raise, idle
  <2>1. CASE ScaleAway \/ Vacate \/ Delete \/ Reap
    BY <2>1 DEF ScaleAway, Vacate, Delete, Reap
  <2>2. CASE Setup \/ ApplyPools \/ Rollout \/ Route \/ Restart \/ Converge
    BY <2>2 DEF Setup, ApplyPools, Rollout, Route, Restart, Converge, AfterRoute
  <2>3. CASE Identify \/ WarmUp \/ OpenWindow \/ Drain
    BY <2>3 DEF Identify, WarmUp, OpenWindow, Drain
  <2>4. CASE Conclude
    BY <1>0, <2>4 DEF Conclude, AfterArm, Arms
  <2>5. ~(Gate \/ PatchHold \/ ScaleBack \/ Ready \/ Verify \/ Finish)
    BY <1>0 DEF Halves, InArm, Routing, Routed, Gate, PatchHold, ScaleBack, Ready, Verify, Finish
  <2> QED
    BY <2>1, <2>2, <2>3, <2>4, <2>5 DEF Process
<1>2. CASE mode' = "restore" /\ pc' = "remove"
  <2>1. CommandsLeft(pc', mode', arm') = 11
    BY <1>2, RestoreCounts
  <2> QED
    BY <1>0, <2>1, HalfCounts
<1>3. CASE mode' = "run" /\ arm = "shared" /\ arm' = "isolated" /\ pc = "drain" /\ pc' = "remove"
  <2>1. Extra("shared") = 13 /\ Extra("isolated") = 0
    BY DEF Extra
  <2>2. CommandsLeft("remove", "run", "isolated") < CommandsLeft("drain", "run", "shared")
    BY <2>1, ArmCounts
  <2> QED
    BY <1>3, <2>2
<1>4. CASE ~(mode' = "restore" /\ pc' = "remove") /\ arm' = arm
  <2>1. Extra(arm) \in {0, 13}
    BY DEF Extra
  <2>2. CommandsLeft(pc', "run", arm) < CommandsLeft(pc, "run", arm)
    BY <1>1, <1>4, <2>1, ArmCounts
  <2> QED
    BY <1>1, <1>4, <2>2
<1> QED
  BY <1>1, <1>2, <1>3, <1>4

\* Whatever raises, an interrupt included, a run has a bounded number of steps
\* before it around its windows, and each one it takes is one less (run_pair(),
\* restore(); the windows themselves: WindowIsFinite).
THEOREM CommandsAreFinite == Spec => FiniteCommands
<1> DEFINE Falls == Alive => /\ RunLeft' \in 0 .. RunLeft
                             /\ RunLeft' < RunLeft \/ UNCHANGED <<pc, processVars, arm>>
<1>1. ASSUME IInv, IInv', Next, Alive
      PROVE  \/ CommandsLeft(pc', mode', arm') < CommandsLeft(pc, mode, arm)
             \/ UNCHANGED <<pc, processVars, arm>>
  <2>1. CASE Process
    <3>1. mode \in {"run", "restore"}
      BY <1>1 DEF IInv, RunInv, ProcessType
    <3> QED
      BY <1>1, <2>1, <3>1, RestoreFalls, ArmFalls
  <2>2. CASE Interrupt
    <3>1. CommandsLeft(pc', mode', arm') = 11 /\ mode = "run"
      BY <2>2, RestoreCounts DEF Interrupt
    <3>2. CommandsLeft(pc, mode, arm) \in Int /\ CommandsLeft(pc, mode, arm) >= 12
      BY <1>1, <3>1, InHalf, HalfCounts
    <3> QED
      BY <3>1, <3>2
  <2>3. CASE Kill
    <3>1. CommandsLeft(pc', mode', arm') = 0
      BY <2>3, ArmCounts DEF Kill
    <3>2. CommandsLeft(pc, mode, arm) \in 1 .. 37
      BY <1>1, InHalf, HalfCounts
    <3> QED
      BY <3>1, <3>2
  <2>4. CASE Drive \/ (\E p \in Pools : PodStep(p)) \/ TargetStep \/ ProxyStep
    BY <2>4 DEF Drive, PodStep, TargetStep, ProxyStep, idle, pairVars
  <2>5. ~NextRun
    BY <1>1 DEF NextRun, Alive
  <2> QED
    BY <1>1, <2>1, <2>2, <2>3, <2>4, <2>5 DEF Next
<1>2. ASSUME NEW p, NEW m, NEW a PROVE CommandsLeft(p, m, a) \in Nat
  <2>1. ArmLeft(p) \in Nat
    BY DEF ArmLeft
  <2>2. RestoreLeft(p) \in Nat
    BY DEF RestoreLeft
  <2> QED
    BY <2>1, <2>2 DEF CommandsLeft
<1>3. ASSUME IInv, IInv', Next, Alive PROVE Falls
  <2> DEFINE before == CommandsLeft(pc, mode, arm)  after == CommandsLeft(pc', mode', arm')
  <2>1. before \in Nat /\ after \in Nat
    BY <1>2
  <2>2. CASE after < before
    <3>1. after \in 0 .. before
      <4> HIDE DEF after, before
      <4> QED
        BY <2>1, <2>2
    <3> QED
      BY <2>2, <3>1 DEF RunLeft
  <2>3. CASE UNCHANGED <<pc, processVars, arm>>
    <3>1. after = before
      BY <2>3 DEF processVars
    <3>2. after \in 0 .. before
      <4> HIDE DEF after, before
      <4> QED
        BY <2>1, <3>1
    <3> QED
      BY <2>3, <3>2 DEF RunLeft
  <2> QED
    BY <1>1, <1>3, <2>2, <2>3
<1>4. IInv /\ IInv' /\ [Next]_vars => [Falls]_vars
  BY <1>3
<1> QED
  BY <1>4, Invariance, PTL DEF Spec, FiniteCommands

\* What run_pair() owes to the cluster it is started in.
THEOREM RunKeepsContract == Spec => PairContract
  BY RunKeepsToItsOwn, WindowsKeepContract, CommandsAreFinite, PTL DEF PairContract
=============================================================================
