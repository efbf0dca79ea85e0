------------------------ MODULE RoutineOccurrenceProofs ------------------------
(***************************************************************************)
(* Theorems about one scheduled routine, for any number of heartbeats that *)
(* overlap, of occurrences and member actions, for any limits, delays and  *)
(* faults.                                                                 *)
(***************************************************************************)
EXTENDS RoutineOccurrence, WellFoundedInduction, TLAPS

(* A heartbeat begins with cleanupRetention, a recursive function over the *)
(* rows.  What it keeps is proved with a least counterexample.             *)
LEMMA NatMin ==
    ASSUME NEW T, T \subseteq Nat, T # {}
    PROVE  \E m \in T : \A k \in T : m <= k
<1> DEFINE Less == {p \in Nat \X Nat : p[1] < p[2]}
<1>1. IsWellFoundedOn(Less, Nat)
  BY NatLessThanWellFounded, Zenon DEF OpToRel
<1>2. \E m \in T : \A k \in T : <<k, m>> \notin Less
  <2> HIDE DEF Less
  <2> QED BY <1>1, WFMin, Zenon
<1>3. PICK m \in T : \A k \in T : <<k, m>> \notin Less
  BY <1>2
<1>4. \A k \in T : ~ (k < m)
  BY <1>3
<1> QED
  BY <1>4

-----------------------------------------------------------------------------
(* The inductive invariant                                                 *)

(* What has not begun has no checkpoint yet.                               *)
Early == {"absent", "queued", "admitting"}

Tidy(row) ==
    row.status \in Early =>
        /\ row.envelope = None /\ row.receipt = None
        /\ row.settlement = None /\ row.delivery = None

(* A full streak has stopped the routine, and stays until it is cleared.   *)
StreakInv(rt) ==
    rt.failures = MaxFailures => rt.state \in {"paused", "disabled"} \/ rt.deleted

(* The occurrence of a routine that runs once will complete it: its kind   *)
(* is not edited meanwhile and its streak is not full.                     *)
OnceInv(db) ==
    \A r \in ActiveIn(db) :
        db.run[r].source = "once" =>
            db.routine.deleted
              \/ (db.routine.kind = "once" /\ db.routine.failures < MaxFailures)

Db == [routine : Routine, run : [Runs -> Row]]

DbInv(db) ==
    /\ db \in Db
    /\ \A r \in Runs : Tidy(db.run[r])
    /\ \A q, r \in ActiveIn(db) : q = r
    /\ StreakInv(db.routine)
    /\ OnceInv(db)

(* What a heartbeat carries to where it stands.                            *)
Carries(b) ==
    /\ b.pc = "fail" => b.outcome \in Classes
    /\ b.pc = "settle" => b.outcome \in Outcomes
    /\ b.pc = "finalize" => b.outcome \in {"no_op"} \cup Classes
    /\ b.pc \in {"record_result", "record_notice"} =>
          b.outcome \in {"delivered", "unknown", "failed"}

BeatsInv ==
    /\ beat \in [Heartbeats -> Beat]
    /\ \A h \in Heartbeats : Carries(beat[h])

(* The agent is only ever given the envelope that is frozen.               *)
Frozen(rows, b) ==
    b.pc = "dispatch" =>
        /\ b.of \in Runs
        /\ rows[b.of].status \notin Early
        /\ rows[b.of].envelope = b.envelope

Submission == [work : {None, "working", "failed", "succeeded", "no_op"},
               envelope : {None} \cup Prompts]

AgentInv ==
    /\ agent \in [Runs -> Submission]
    /\ \A r \in Runs : agent[r].work # None =>
          occ[r].status \notin Early /\ agent[r].envelope = occ[r].envelope
    /\ \A h \in Heartbeats : Frozen(occ, beat[h])

(* Whoever posts, records or closes holds the occurrence's one delivery.   *)
Delivering == {"post_result", "post_notice", "record_result", "record_notice",
               "close"}

Holds(b, r) == b.pc \in Delivering /\ b.of = r

HolderInv(row, slack, b) ==
    /\ row.delivery # None
    /\ b.pc \in {"post_result", "post_notice"} =>
          slack.results = 0 /\ slack.notices = 0
    /\ b.pc = "record_result" /\ b.outcome = "delivered" => slack.results = 1
    /\ b.pc = "close" => row.delivery = "delivered" /\ slack.results = 1

DeliveryInv ==
    /\ \A r \in Runs, g, h \in Heartbeats :
          Holds(beat[g], r) /\ Holds(beat[h], r) => g = h
    /\ \A r \in Runs, h \in Heartbeats :
          Holds(beat[h], r) => HolderInv(occ[r], shown[r], beat[h])
    /\ shown \in [Runs -> [results : Nat, notices : Nat]]
    /\ \A r \in Runs : occ[r].delivery = None =>
          shown[r].results = 0 /\ shown[r].notices = 0
    /\ OnePostAsRecorded

RoutineInv ==
    /\ DbInv(Tables) /\ BeatsInv /\ AgentInv /\ DeliveryInv
    /\ controls \in 0 .. MaxControls

-----------------------------------------------------------------------------
(* What the store's own operations keep of the rows                        *)

(* A row after an operation that ends or reconciles occurrences.           *)
Kept(row, new) ==
    /\ new.source = row.source
    /\ new.envelope = row.envelope
    /\ new.receipt = row.receipt
    /\ new.settlement = row.settlement
    /\ \/ new.delivery = row.delivery
       \/ row.delivery = "leased" /\ new.delivery \in {"delivered", "unknown", "failed"}
    /\ \/ new.status = row.status
       \/ row.status \in Active /\ new.status \in Terminal

Settled(old, new) ==
    /\ \A r \in Runs : Kept(old.run[r], new.run[r])
    /\ RoutineStops(old.routine) => RoutineStops(new.routine)
    /\ \A r \in Runs : new.run[r].class = "unknown" =>
          old.run[r].class = "unknown" \/ RoutineStops(new.routine)

NoneSucceeds(old, new) ==
    \A r \in Runs : new.run[r].status = "succeeded" => old.run[r].status = "succeeded"

LEMMA SettledTransitive ==
    ASSUME NEW a, NEW b, NEW c, Settled(a, b), Settled(b, c)
    PROVE  Settled(a, c)
<1>1. ASSUME NEW r \in Runs PROVE Kept(a.run[r], c.run[r])
  <2>1. Kept(a.run[r], b.run[r]) /\ Kept(b.run[r], c.run[r])
    BY DEF Settled
  <2> QED BY <2>1 DEF Kept, Active, Terminal
<1>2. ASSUME NEW r \in Runs, c.run[r].class = "unknown"
      PROVE  a.run[r].class = "unknown" \/ RoutineStops(c.routine)
  BY <1>2 DEF Settled
<1> QED BY <1>1, <1>2 DEF Settled

(* What a terminal occurrence does to its routine                          *)
MayComplete(db, r) ==
    (~db.routine.deleted /\ db.run[r].source = "once" /\ db.routine.kind = "once")
      => db.routine.failures < MaxFailures

Applied(db, new, status, class) ==
    /\ new \in Db
    /\ new.run = db.run
    /\ StreakInv(new.routine)
    /\ RoutineStops(db.routine) => RoutineStops(new.routine)
    /\ status = "failed" /\ class = "unknown" => RoutineStops(new.routine)

LEMMA OutcomeApplied ==
    ASSUME NEW db \in Db, NEW r \in Runs, NEW status, NEW class,
           StreakInv(db.routine), MayComplete(db, r)
    PROVE  Applied(db, ApplyRoutineOutcome(db, r, status, class), status, class)
<1> SUFFICES ASSUME NEW new, new = ApplyRoutineOutcome(db, r, status, class)
             PROVE  Applied(db, new, status, class)
  OBVIOUS
<1> USE DEF Applied
<1>0. db.routine \in Routine /\ MaxFailures \in Nat /\ MaxFailures > 0
  BY RoutineBounds DEF Db
<1> USE DEF StreakInv, RoutineStops, MayComplete
<1>1. CASE db.routine.deleted
  BY <1>1 DEF ApplyRoutineOutcome
<1>2. CASE ~db.routine.deleted /\ db.run[r].source = "once" /\ db.routine.kind = "once"
  <2>1. new = [db EXCEPT !.routine.state = "completed", !.routine.next = NotDue]
    BY <1>2 DEF ApplyRoutineOutcome, Complete
  <2>2. NotDue \in -(Period + Grace + MaxLag) .. NotDue
    BY RoutineBounds DEF NotDue
  <2>3. /\ new.run = db.run
        /\ new.routine = [db.routine EXCEPT !.state = "completed", !.next = NotDue]
        /\ new = [routine |-> new.routine, run |-> new.run]
    BY <2>1 DEF Db
  <2>4. new.routine \in Routine
    BY <1>0, <2>2, <2>3 DEF Routine
  <2>5. new.routine.failures < MaxFailures
    BY <1>0, <1>2, <2>3 DEF Routine
  <2>6. new.routine.failures # MaxFailures /\ new.routine.state = "completed"
    BY <1>0, <2>3, <2>4, <2>5 DEF Routine
  <2>7. new \in Db
    BY <2>3, <2>4 DEF Db
  <2> QED BY <2>3, <2>6, <2>7
<1>3. CASE ~db.routine.deleted /\ ~(db.run[r].source = "once" /\ db.routine.kind = "once")
  <2>1. CASE status \in {"succeeded", "no_op"}
    <3>1. new = [db EXCEPT !.routine.failures = 0]
      BY <1>3, <2>1 DEF ApplyRoutineOutcome
    <3> QED BY <1>0, <2>1, <3>1 DEF Db, Routine
  <2>2. CASE status = "failed" /\ class = "access"
    <3>1. new = [db EXCEPT !.routine.state = "disabled"]
      BY <1>3, <2>2 DEF ApplyRoutineOutcome
    <3> QED BY <1>0, <2>2, <3>1 DEF Db, Routine
  <2>3. CASE status = "failed" /\ class = "unknown"
    <3>1. new = IF db.routine.state = "disabled" THEN db
                ELSE [db EXCEPT !.routine.state = "paused"]
      BY <1>3, <2>3 DEF ApplyRoutineOutcome, PauseForUnknownOutcome
    <3> QED BY <1>0, <2>3, <3>1 DEF Db, Routine
  <2>4. CASE status = "failed" /\ class = "attributable"
    <3> DEFINE n == db.routine.failures + 1
    <3>1. new = [db EXCEPT !.routine.failures = IF n < MaxFailures THEN n ELSE MaxFailures,
                           !.routine.state = IF n >= MaxFailures THEN "paused" ELSE @]
      BY <1>3, <2>4 DEF ApplyRoutineOutcome, CountFailure
    <3>2. /\ new.run = db.run
          /\ new.routine = [db.routine EXCEPT
                 !.failures = IF n < MaxFailures THEN n ELSE MaxFailures,
                 !.state = IF n >= MaxFailures THEN "paused" ELSE @]
          /\ new = [routine |-> new.routine, run |-> new.run]
      BY <3>1 DEF Db
    <3>3. n \in Nat /\ (n < MaxFailures \/ n >= MaxFailures)
      BY <1>0 DEF Routine
    <3>4. /\ new.routine = [kind |-> db.routine.kind, next |-> db.routine.next,
                             deleted |-> db.routine.deleted,
                             state |-> new.routine.state,
                             failures |-> new.routine.failures]
          /\ new.routine.deleted = db.routine.deleted
          /\ new.routine.state = IF n >= MaxFailures THEN "paused" ELSE db.routine.state
          /\ new.routine.failures = IF n < MaxFailures THEN n ELSE MaxFailures
      <4> HIDE DEF n
      <4> QED BY <1>0, <3>2 DEF Routine
    <3>5. /\ new.routine.failures \in 0 .. MaxFailures
          /\ new.routine.failures = MaxFailures => new.routine.state = "paused"
          /\ new.routine.state \in {db.routine.state, "paused"}
      <4> HIDE DEF n
      <4> QED BY <1>0, <3>3, <3>4
    <3>6. new.routine \in Routine BY <1>0, <3>4, <3>5 DEF Routine
    <3>7. new \in Db
      BY <3>2, <3>6 DEF Db
    <3> QED BY <2>4, <3>2, <3>4, <3>5, <3>7
  <2>5. CASE /\ status \notin {"succeeded", "no_op"}
             /\ ~(status = "failed" /\ class \in {"access", "unknown", "attributable"})
    <3>1. new = db
      BY <1>3, <2>5 DEF ApplyRoutineOutcome
    <3> QED BY <1>0, <2>5, <3>1
  <2> QED BY <2>1, <2>2, <2>3, <2>4, <2>5
<1> QED BY <1>1, <1>2, <1>3

(* The row of an occurrence changes, and nothing else.                     *)
LEMMA RowChanges ==
    ASSUME NEW db \in Db, NEW r \in Runs, NEW row \in Row, NEW new,
           new = [db EXCEPT !.run[r] = row]
    PROVE  /\ new \in Db
           /\ new.routine = db.routine
           /\ new.run[r] = row
           /\ \A q \in Runs : q # r => new.run[q] = db.run[q]
           /\ new.run = [db.run EXCEPT ![r] = row]
BY DEF Db

EndedAs(row, status, class) == [Ended(row, status) EXCEPT !.class = class]

LEMMA RowEnds ==
    ASSUME NEW row \in Row, NEW status \in Terminal,
           NEW class \in {None} \cup Classes
    PROVE  LET new == EndedAs(row, status, class) IN
           /\ new \in Row
           /\ new.source = row.source /\ new.envelope = row.envelope
           /\ new.receipt = row.receipt /\ new.settlement = row.settlement
           /\ new.delivery = row.delivery
           /\ new.class = class /\ new.status = status
<1>1. 0 \in -(Grace + 1) .. Grace /\ 0 \in -MaxLag .. AdmissionLease
  BY RoutineBounds
<1> QED BY <1>1 DEF EndedAs, Ended, Row

(* transitionRun is a no-op, or ends an occurrence that is active.         *)
LEMMA EndsRun ==
    ASSUME NEW db, DbInv(db), NEW r \in Runs, db.run[r].status \in Active,
           NEW status \in Terminal, NEW class \in {None} \cup Classes,
           class = "unknown" => status = "failed",
           NEW row, row = EndedAs(db.run[r], status, class),
           NEW mid, mid = [db EXCEPT !.run[r] = row],
           NEW new, new = ApplyRoutineOutcome(mid, r, status, class)
    PROVE  /\ DbInv(new)
           /\ Settled(db, new)
           /\ new.run = [db.run EXCEPT ![r] = row]
           /\ status = "failed" /\ class = "unknown" => RoutineStops(new.routine)
<1>1. db \in Db /\ db.run[r] \in Row /\ db.run \in [Runs -> Row]
  BY DEF DbInv, Db
<1>2. row \in Row
  BY <1>1, RowEnds
<1>3. /\ mid \in Db /\ mid.routine = db.routine /\ mid.run[r] = row
      /\ mid.run = [db.run EXCEPT ![r] = row]
  BY <1>1, <1>2, RowChanges
<1>4. /\ row.source = db.run[r].source /\ row.envelope = db.run[r].envelope
      /\ row.receipt = db.run[r].receipt /\ row.settlement = db.run[r].settlement
      /\ row.delivery = db.run[r].delivery /\ row.class = class /\ row.status = status
  BY <1>1, RowEnds
<1>5. r \in ActiveIn(db) /\ StreakInv(db.routine) /\ OnceInv(db)
      /\ \A q \in ActiveIn(db) : q = r
  BY DEF DbInv, ActiveIn
<1>6. MayComplete(mid, r)
  BY <1>3, <1>4, <1>5 DEF OnceInv, MayComplete
<1>8. /\ new \in Db /\ new.run = mid.run /\ StreakInv(new.routine)
      /\ RoutineStops(db.routine) => RoutineStops(new.routine)
      /\ status = "failed" /\ class = "unknown" => RoutineStops(new.routine)
  <2>1. StreakInv(mid.routine)
    BY <1>3, <1>5
  <2>2. Applied(mid, ApplyRoutineOutcome(mid, r, status, class), status, class)
    <3>1. mid \in Db
      BY <1>3
    <3> QED BY <1>6, <2>1, <3>1, OutcomeApplied, Zenon
  <2>3. Applied(mid, new, status, class)
    BY <2>2
  <2> QED BY <1>3, <2>3 DEF Applied
<1>9. new.run[r] = row /\ \A q \in Runs : q # r => new.run[q] = db.run[q]
  BY <1>1, <1>3, <1>8
<1>10. ActiveIn(new) = {}
  <2>1. ASSUME NEW q \in Runs PROVE new.run[q].status \notin Active
    BY <1>4, <1>5, <1>9 DEF ActiveIn, Active, Terminal
  <2> QED BY <2>1 DEF ActiveIn
<1>11. DbInv(new)
  <2>1. ASSUME NEW q \in Runs PROVE Tidy(new.run[q])
    BY <1>4, <1>9 DEF DbInv, Tidy, Early, Terminal
  <2> QED BY <1>8, <1>10, <2>1 DEF DbInv, OnceInv
<1>12. Settled(db, new)
  <2>1. ASSUME NEW q \in Runs PROVE Kept(db.run[q], new.run[q])
    BY <1>4, <1>9 DEF Kept
  <2>2. ASSUME NEW q \in Runs, new.run[q].class = "unknown"
        PROVE  db.run[q].class = "unknown" \/ RoutineStops(new.routine)
    BY <1>4, <1>8, <1>9, <2>2
  <2> QED BY <1>8, <2>1, <2>2 DEF Settled
<1> QED BY <1>3, <1>8, <1>11, <1>12

LEMMA SettledStays == \A db : Settled(db, db)
BY DEF Settled, Kept

LEMMA RunTransitions ==
    ASSUME NEW db, DbInv(db), NEW r \in Runs, NEW from,
           NEW status \in Terminal, NEW class \in {None} \cup Classes,
           class = "unknown" => status = "failed",
           NEW new, new = TransitionRun(db, r, from, status, class)
    PROVE  /\ DbInv(new)
           /\ Settled(db, new)
           /\ \A q \in Runs : q # r => new.run[q] = db.run[q]
           /\ new.run[r].delivery = db.run[r].delivery
           /\ new.run[r].status \in {db.run[r].status, status}
<1>1. CASE db.run[r].status = status \/ ~MayTransition(db, r, from, status)
  BY <1>1, SettledStays DEF TransitionRun
<1>2. CASE ~(db.run[r].status = status \/ ~MayTransition(db, r, from, status))
  <2> DEFINE row == EndedAs(db.run[r], status, class)
  <2>1. db.run[r].status \in Active
    BY <1>2 DEF MayTransition, ValidTransition, Active
  <2>2. db \in Db /\ db.run \in [Runs -> Row]
    BY DEF DbInv, Db
  <2>3. new = ApplyRoutineOutcome([db EXCEPT !.run[r] = row], r, status, class)
    BY <1>2, <2>2 DEF TransitionRun, Db, EndedAs
  <2>4. DbInv(new) /\ Settled(db, new) /\ new.run = [db.run EXCEPT ![r] = row]
    <3> DEFINE mid == [db EXCEPT !.run[r] = row]
    <3>1. mid = [db EXCEPT !.run[r] = row] /\ row = EndedAs(db.run[r], status, class)
      OBVIOUS
    <3>2. new = ApplyRoutineOutcome(mid, r, status, class)
      BY <2>3
    <3> HIDE DEF mid, row
    <3> QED BY <2>1, <3>1, <3>2, EndsRun
  <2>5. row.delivery = db.run[r].delivery /\ row.status = status
    BY <2>2, RowEnds
  <2> HIDE DEF row
  <2> QED BY <2>2, <2>4, <2>5
<1> QED BY <1>1, <1>2

LEMMA DeliveryIsRecorded ==
    ASSUME NEW db, DbInv(db), NEW r \in Runs, db.run[r].delivery = "leased",
           NEW outcome \in {"delivered", "unknown", "failed"},
           NEW new, new = RecordDelivery(db, r, outcome)
    PROVE  /\ DbInv(new)
           /\ Settled(db, new)
           /\ NoneSucceeds(db, new)
           /\ new.routine = db.routine
           /\ \A q \in Runs : q # r => new.run[q] = db.run[q]
           /\ new.run[r].status = db.run[r].status
           /\ new.run[r].delivery = outcome
<1> DEFINE row == [db.run[r] EXCEPT !.delivery = outcome, !.hold = 0]
<1>1. db \in Db /\ db.run \in [Runs -> Row] /\ db.run[r] \in Row
  BY DEF DbInv, Db
<1>2. row \in Row
  <2>1. 0 \in 0 .. DeliveryLease
    BY RoutineBounds
  <2> QED BY <1>1, <2>1 DEF Row
<1>3. /\ row.source = db.run[r].source /\ row.envelope = db.run[r].envelope
      /\ row.receipt = db.run[r].receipt /\ row.settlement = db.run[r].settlement
      /\ row.delivery = outcome /\ row.class = db.run[r].class
      /\ row.status = db.run[r].status
  BY <1>1 DEF Row
<1>4. new = [db EXCEPT !.run[r] = row]
  BY <1>1 DEF RecordDelivery, Db
<1> HIDE DEF row
<1>5. /\ new \in Db /\ new.routine = db.routine /\ new.run[r] = row
      /\ \A q \in Runs : q # r => new.run[q] = db.run[q]
  BY <1>1, <1>2, <1>4, RowChanges
<1>6. \A q \in Runs : /\ new.run[q].status = db.run[q].status
                      /\ new.run[q].source = db.run[q].source
                      /\ new.run[q].class = db.run[q].class
                      /\ Kept(db.run[q], new.run[q])
  <2>1. Kept(db.run[r], new.run[r])
    BY <1>3, <1>5 DEF Kept
  <2>2. \A q \in Runs : q # r => Kept(db.run[q], new.run[q])
    BY <1>5 DEF Kept
  <2> QED BY <1>3, <1>5, <2>1, <2>2
<1>7. ActiveIn(new) = ActiveIn(db)
  BY <1>6 DEF ActiveIn
<1>8. db.run[r].status \notin Early
  BY DEF DbInv, Tidy, None
<1>9. \A q \in Runs : Tidy(new.run[q])
  BY <1>3, <1>5, <1>8 DEF DbInv, Tidy
<1>10. OnceInv(new)
  BY <1>5, <1>6, <1>7 DEF DbInv, OnceInv, ActiveIn
<1>11. DbInv(new)
  BY <1>5, <1>7, <1>9, <1>10 DEF DbInv
<1> QED BY <1>3, <1>5, <1>6, <1>11 DEF Settled, NoneSucceeds

-----------------------------------------------------------------------------
(* cleanupRetention                                                        *)

(* What one operation, or several in a row, make of the tables.            *)
LapsesStop(db, new) ==
    \A r \in Runs : new.run[r].delivery = "unknown" =>
        db.run[r].delivery = "unknown" \/ RoutineStops(new.routine)

Reconciled(db, new) ==
    DbInv(new) /\ Settled(db, new) /\ NoneSucceeds(db, new) /\ LapsesStop(db, new)

LEMMA ReconciledTransitive ==
    ASSUME NEW a, NEW b, NEW c, Reconciled(a, b), Reconciled(b, c)
    PROVE  Reconciled(a, c)
<1>1. Settled(a, c) /\ NoneSucceeds(a, c)
  BY SettledTransitive DEF Reconciled, NoneSucceeds
<1>2. LapsesStop(a, c)
  BY DEF Reconciled, LapsesStop, Settled
<1> QED BY <1>1, <1>2 DEF Reconciled

LEMMA ReconciledStays ==
    ASSUME NEW db, DbInv(db)
    PROVE  Reconciled(db, db)
BY SettledStays DEF Reconciled, NoneSucceeds, LapsesStop

LEMMA RunFails ==
    ASSUME NEW db, DbInv(db), NEW r \in Runs, NEW from,
           NEW status \in Terminal \ {"succeeded"}, NEW class \in {None} \cup Classes,
           class = "unknown" => status = "failed"
    PROVE  Reconciled(db, TransitionRun(db, r, from, status, class))
<1> DEFINE new == TransitionRun(db, r, from, status, class)
<1>1. /\ DbInv(new) /\ Settled(db, new)
      /\ \A q \in Runs : q # r => new.run[q] = db.run[q]
      /\ new.run[r].delivery = db.run[r].delivery
      /\ new.run[r].status \in {db.run[r].status, status}
  <2>1. status \in Terminal
    OBVIOUS
  <2> QED BY <2>1, RunTransitions
<1> HIDE DEF new
<1>2. NoneSucceeds(db, new)
  BY <1>1 DEF NoneSucceeds
<1>3. LapsesStop(db, new)
  BY <1>1 DEF LapsesStop
<1>4. Reconciled(db, new)
  BY <1>1, <1>2, <1>3 DEF Reconciled
<1> QED BY <1>4 DEF new

LEMMA UnknownPauses ==
    ASSUME NEW db, DbInv(db)
    PROVE  /\ Reconciled(db, PauseForUnknownOutcome(db))
           /\ RoutineStops(PauseForUnknownOutcome(db).routine)
<1> DEFINE new == PauseForUnknownOutcome(db)
<1>1. CASE db.routine.deleted \/ db.routine.state = "disabled"
  BY <1>1, ReconciledStays DEF PauseForUnknownOutcome, RoutineStops
<1>2. CASE ~(db.routine.deleted \/ db.routine.state = "disabled")
  <2>1. db \in Db
    BY DEF DbInv
  <2>2. /\ new.run = db.run
        /\ new.routine = [db.routine EXCEPT !.state = "paused"]
        /\ new = [routine |-> new.routine, run |-> new.run]
    BY <1>2, <2>1 DEF PauseForUnknownOutcome, Db
  <2>3. /\ new.routine \in Routine /\ new.routine.state = "paused"
        /\ new.routine.deleted = db.routine.deleted
        /\ new.routine.kind = db.routine.kind
        /\ new.routine.failures = db.routine.failures
    BY <2>1, <2>2 DEF Db, Routine
  <2> HIDE DEF new
  <2>4. new \in Db /\ ActiveIn(new) = ActiveIn(db)
    BY <2>1, <2>2, <2>3 DEF Db, ActiveIn
  <2>5. DbInv(new)
    BY <2>2, <2>3, <2>4 DEF DbInv, StreakInv, OnceInv
  <2>6. Settled(db, new) /\ NoneSucceeds(db, new)
    BY <2>2, <2>3 DEF Settled, Kept, NoneSucceeds, RoutineStops
  <2>7. Reconciled(db, new)
    BY <2>2, <2>5, <2>6 DEF Reconciled, LapsesStop
  <2>8. RoutineStops(new.routine)
    BY <2>3 DEF RoutineStops
  <2> QED BY <2>7, <2>8 DEF new
<1> QED BY <1>1, <1>2

(* An occurrence that ends with its effects unknown stops its routine.     *)
LEMMA UnknownEndStops ==
    ASSUME NEW db, DbInv(db), NEW r \in Runs, db.run[r].status = "running"
    PROVE  RoutineStops(TransitionRun(db, r, {"running"}, "failed", "unknown").routine)
<1> DEFINE new == TransitionRun(db, r, {"running"}, "failed", "unknown")
           row == EndedAs(db.run[r], "failed", "unknown")
           mid == [db EXCEPT !.run[r] = row]
<1>1. db \in Db /\ MayTransition(db, r, {"running"}, "failed")
  BY DEF DbInv, MayTransition, ValidTransition
<1>2. new = ApplyRoutineOutcome(mid, r, "failed", "unknown")
  BY <1>1 DEF TransitionRun, Db, EndedAs
<1>3. /\ db.run[r].status \in Active
      /\ mid = [db EXCEPT !.run[r] = row] /\ row = EndedAs(db.run[r], "failed", "unknown")
      /\ "failed" \in Terminal /\ "unknown" \in {None} \cup Classes
  BY DEF Active, Terminal, Classes
<1> HIDE DEF new, mid, row
<1>4. RoutineStops(new.routine)
  BY <1>2, <1>3, EndsRun
<1> QED BY <1>4 DEF new

LEMMA DeliveryReconciles ==
    ASSUME NEW db, DbInv(db), NEW r \in Runs
    PROVE  Reconciled(db, ReconcileDelivery(db, r))
<1>1. CASE ~(db.run[r].delivery = "leased" /\ db.run[r].hold = 0)
  BY <1>1, ReconciledStays DEF ReconcileDelivery
<1>2. CASE db.run[r].delivery = "leased" /\ db.run[r].hold = 0
  <2> DEFINE recorded == RecordDelivery(db, r, "unknown")
             new == ReconcileDelivery(db, r)
  <2>1. /\ DbInv(recorded) /\ Settled(db, recorded) /\ NoneSucceeds(db, recorded)
        /\ recorded.run[r].status = db.run[r].status
    BY <1>2, DeliveryIsRecorded
  <2>2. Reconciled(recorded, new) /\ RoutineStops(new.routine)
    <3>1. CASE db.run[r].status = "running"
      <4>1. new = TransitionRun(recorded, r, {"running"}, "failed", "unknown")
        BY <1>2, <3>1 DEF ReconcileDelivery
      <4>2. /\ "failed" \in Terminal \ {"succeeded"}
            /\ "unknown" \in {None} \cup Classes
        BY DEF Terminal, Classes
      <4> HIDE DEF recorded
      <4> QED BY <2>1, <3>1, <4>1, <4>2, RunFails, UnknownEndStops
    <3>2. CASE db.run[r].status # "running"
      <4>1. new = PauseForUnknownOutcome(recorded)
        BY <1>2, <3>2 DEF ReconcileDelivery
      <4> HIDE DEF recorded
      <4> QED BY <2>1, <4>1, UnknownPauses
    <3> QED BY <3>1, <3>2
  <2> HIDE DEF recorded, new
  <2>3. Settled(db, new) /\ NoneSucceeds(db, new)
    BY <2>1, <2>2, SettledTransitive DEF Reconciled, NoneSucceeds
  <2>4. LapsesStop(db, new)
    BY <2>2 DEF LapsesStop
  <2>5. Reconciled(db, new)
    BY <2>2, <2>3, <2>4 DEF Reconciled
  <2> QED BY <2>5 DEF new
<1> QED BY <1>1, <1>2

LEMMA DeadlineReconciles ==
    ASSUME NEW db, DbInv(db), NEW r \in Runs
    PROVE  Reconciled(db, ReconcileDeadline(db, r))
<1>1. Reconciled(db, TransitionRun(db, r, {"queued"}, "skipped", "other"))
  <2>1. "skipped" \in Terminal \ {"succeeded"} /\ "other" \in {None} \cup Classes
    BY DEF Terminal, Classes
  <2> QED BY <2>1, RunFails
<1>2. Reconciled(db, TransitionRun(db, r, {"admitting"}, "failed", "other"))
  <2>1. "failed" \in Terminal \ {"succeeded"} /\ "other" \in {None} \cup Classes
    BY DEF Terminal, Classes
  <2> QED BY <2>1, RunFails
<1>3. Reconciled(db, TransitionRun(db, r, {"running"}, "failed", "unknown"))
  <2>1. "failed" \in Terminal \ {"succeeded"} /\ "unknown" \in {None} \cup Classes
    BY DEF Terminal, Classes
  <2> QED BY <2>1, RunFails
<1>4. ReconcileDeadline(db, r) \in
        {TransitionRun(db, r, {"queued"}, "skipped", "other"),
         TransitionRun(db, r, {"admitting"}, "failed", "other"),
         TransitionRun(db, r, {"running"}, "failed", "unknown"), db}
  BY Zenon DEF ReconcileDeadline
<1> QED BY <1>1, <1>2, <1>3, <1>4, ReconciledStays

LEMMA OneReconciles ==
    ASSUME NEW db, DbInv(db), NEW n \in 1 .. 2 * MaxRuns
    PROVE  Reconciled(db, Reconcile(db, n))
<1>0. MaxRuns \in Nat
  BY RoutineBounds
<1>1. CASE n <= MaxRuns
  <2>1. n \in Runs
    BY <1>0, <1>1 DEF Runs
  <2> QED BY <1>1, <2>1, DeliveryReconciles DEF Reconcile
<1>2. CASE ~(n <= MaxRuns)
  <2>1. n - MaxRuns \in Runs
    BY <1>0, <1>2 DEF Runs
  <2> QED BY <1>2, <2>1, DeadlineReconciles DEF Reconcile
<1> QED BY <1>1, <1>2

(* The recursive function exists: a least bound up to which it does not    *)
(* would be one more than a bound up to which it does.                     *)
ReconcilesUpTo(db, k, done) ==
    done = [n \in 0 .. k |-> IF n = 0 THEN db ELSE Reconcile(done[n - 1], n)]

LEMMA ReconcilesFully ==
    ASSUME NEW db, NEW k \in Nat
    PROVE  \E done : ReconcilesUpTo(db, k, done)
<1> DEFINE Bad == {m \in Nat : ~ \E done : ReconcilesUpTo(db, m, done)}
<1> SUFFICES ASSUME Bad # {} PROVE FALSE
  OBVIOUS
<1>1. PICK m \in Bad : \A j \in Bad : m <= j
  <2>1. Bad \subseteq Nat
    OBVIOUS
  <2> HIDE DEF Bad
  <2> QED BY <2>1, NatMin
<1>2. m \in Nat /\ ~ \E done : ReconcilesUpTo(db, m, done)
  OBVIOUS
<1>3. CASE m = 0
  <2> DEFINE one == [n \in 0 .. 0 |-> db]
  <2>1. one = [n \in 0 .. m |-> IF n = 0 THEN db ELSE Reconcile(one[n - 1], n)]
    BY <1>3
  <2> QED BY <1>2, <2>1 DEF ReconcilesUpTo
<1>4. CASE m # 0
  <2>1. m - 1 \in Nat /\ m - 1 \notin Bad
    BY <1>1, <1>2, <1>4
  <2>2. PICK f : ReconcilesUpTo(db, m - 1, f)
    BY <2>1
  <2> DEFINE g == [n \in 0 .. m |-> IF n = 0 THEN db ELSE Reconcile(f[n - 1], n)]
  <2>3. ASSUME NEW n \in 0 .. m - 1 PROVE g[n] = f[n]
    <3>1. n \in 0 .. m
      BY <1>2
    <3>2. g[n] = IF n = 0 THEN db ELSE Reconcile(f[n - 1], n)
      BY <3>1
    <3>3. f[n] = IF n = 0 THEN db ELSE Reconcile(f[n - 1], n)
      BY <2>2 DEF ReconcilesUpTo
    <3> QED BY <3>2, <3>3
  <2>4. ASSUME NEW n \in 0 .. m
        PROVE  (IF n = 0 THEN db ELSE Reconcile(f[n - 1], n))
                 = (IF n = 0 THEN db ELSE Reconcile(g[n - 1], n))
    <3>1. CASE n = 0 BY <3>1
    <3>2. CASE n # 0
      <4>1. n - 1 \in 0 .. m - 1
        BY <1>2, <3>2
      <4> HIDE DEF g
      <4>2. g[n - 1] = f[n - 1]
        BY <2>3, <4>1
      <4> QED BY <4>2
    <3> QED BY <3>1, <3>2
  <2>5. g = [n \in 0 .. m |-> IF n = 0 THEN db ELSE Reconcile(g[n - 1], n)]
    BY <2>4
  <2> HIDE DEF g
  <2>6. ReconcilesUpTo(db, m, g)
    BY <2>5 DEF ReconcilesUpTo
  <2> QED BY <1>2, <2>6
<1> QED BY <1>3, <1>4

(* A heartbeat's first step keeps the tables, whatever lapsed meanwhile.   *)
LEMMA CleanupReconciles ==
    ASSUME NEW db, DbInv(db)
    PROVE  Reconciled(db, CleanupRetention(db))
<1>0. MaxRuns \in Nat /\ 2 * MaxRuns \in Nat
  BY RoutineBounds
<1> DEFINE done == CHOOSE f : ReconcilesUpTo(db, 2 * MaxRuns, f)
<1>1. ReconcilesUpTo(db, 2 * MaxRuns, done)
  BY <1>0, ReconcilesFully
<1>2. CleanupRetention(db) = done[2 * MaxRuns]
  BY DEF CleanupRetention, ReconcilesUpTo
<1> HIDE DEF done
<1>3. ASSUME NEW n \in 0 .. 2 * MaxRuns
      PROVE  done[n] = IF n = 0 THEN db ELSE Reconcile(done[n - 1], n)
  BY <1>1 DEF ReconcilesUpTo
<1> DEFINE Bad == {n \in 0 .. 2 * MaxRuns : ~Reconciled(db, done[n])}
<1>4. Bad = {}
  <2> SUFFICES ASSUME Bad # {} PROVE FALSE
    OBVIOUS
  <2>1. PICK m \in Bad : \A j \in Bad : m <= j
    <3>1. Bad \subseteq Nat
      BY <1>0
    <3> HIDE DEF Bad
    <3> QED BY <3>1, NatMin
  <2>2. m \in 0 .. 2 * MaxRuns /\ ~Reconciled(db, done[m])
    OBVIOUS
  <2>3. m # 0
    BY <1>3, <2>2, ReconciledStays
  <2>4. m - 1 \in 0 .. 2 * MaxRuns /\ m - 1 \notin Bad /\ m \in 1 .. 2 * MaxRuns
    BY <1>0, <2>1, <2>2, <2>3
  <2>5. Reconciled(db, done[m - 1])
    BY <2>4
  <2>6. Reconciled(done[m - 1], Reconcile(done[m - 1], m))
    BY <2>4, <2>5, OneReconciles DEF Reconciled
  <2>7. done[m] = Reconcile(done[m - 1], m)
    BY <1>3, <2>2, <2>3
  <2> QED BY <2>2, <2>5, <2>6, <2>7, ReconciledTransitive
<1> QED BY <1>0, <1>2, <1>4

-----------------------------------------------------------------------------
(* What a step of the system keeps                                         *)

RowStep(row, new) ==
    /\ row.envelope # None => new.envelope = row.envelope
    /\ row.receipt # None => new.receipt = row.receipt
    /\ row.settlement # None => new.settlement = row.settlement
    /\ row.delivery # None => new.delivery # None
    /\ row.delivery \notin {None, "leased"} => new.delivery = row.delivery
    /\ row.status \in Terminal => new.status = row.status
    /\ row.status \notin Early => new.status \notin Early /\ new.envelope = row.envelope

RowsStep == \A r \in Runs : RowStep(occ[r], occ'[r])

UnknownStops ==
    \A r \in Runs : occ[r].class # "unknown" /\ occ'[r].class = "unknown" =>
        RoutineStops(routine')

StartsActive ==
    \A r \in Runs :
        (occ[r].status # "running" /\ occ'[r].status = "running"
           /\ occ[r].source # "run_now") => ~RoutineStops(routine)

StoreStep ==
    /\ DbInv([routine |-> routine', run |-> occ'])
    /\ RowsStep /\ UnknownStops /\ StartsActive

NothingSucceeds ==
    \A r \in Runs : occ'[r].status = "succeeded" => occ[r].status = "succeeded"

LEMMA StoreSettles ==
    ASSUME DbInv(Tables), NEW new, Write(new), DbInv(new), Settled(Tables, new)
    PROVE  StoreStep /\ (NoneSucceeds(Tables, new) => NothingSucceeds)
<1>1. routine' = new.routine /\ occ' = new.run
  BY DEF Write
<1>2. new = [routine |-> routine', run |-> occ']
  BY <1>1 DEF DbInv, Db
<1>3. ASSUME NEW r \in Runs
      PROVE  /\ Kept(occ[r], occ'[r]) /\ occ[r] \in Row
             /\ occ'[r].class = "unknown" => occ[r].class = "unknown" \/ RoutineStops(routine')
             /\ Tidy(occ[r])
  BY <1>1 DEF Settled, Tables, DbInv, Db
<1>4. RowsStep
  <2> SUFFICES ASSUME NEW r \in Runs PROVE RowStep(occ[r], occ'[r])
    BY DEF RowsStep
  <2> QED BY <1>3 DEF RowStep, Kept, Active, Terminal, Early, None
<1>5. UnknownStops /\ StartsActive
  BY <1>3 DEF UnknownStops, StartsActive, Kept, Terminal
<1>6. NoneSucceeds(Tables, new) => NothingSucceeds
  BY <1>1 DEF NoneSucceeds, NothingSucceeds, Tables
<1> QED BY <1>2, <1>4, <1>5, <1>6 DEF StoreStep

LEMMA StoreRests ==
    ASSUME DbInv(Tables), UNCHANGED <<routine, occ>>
    PROVE  StoreStep /\ NothingSucceeds
<1>1. [routine |-> routine', run |-> occ'] = Tables
  BY DEF Tables
<1>2. RowsStep
  BY DEF RowsStep, RowStep
<1> QED BY <1>1, <1>2 DEF StoreStep, UnknownStops, StartsActive, NothingSucceeds

(* One row moves on, as it may.                                            *)
LEMMA RowMoves ==
    ASSUME DbInv(Tables), NEW r \in Runs, NEW row \in Row,
           UNCHANGED routine, occ' = [occ EXCEPT ![r] = row],
           RowStep(occ[r], row), Tidy(row),
           row.status \in Active => occ[r].status \in Active,
           row.source = occ[r].source, row.class = occ[r].class,
           row.status = "succeeded" => occ[r].status = "succeeded",
           (occ[r].status # "running" /\ row.status = "running"
              /\ occ[r].source # "run_now") => ~RoutineStops(routine)
    PROVE  StoreStep /\ NothingSucceeds
<1> DEFINE new == [routine |-> routine', run |-> occ']
<1>1. routine \in Routine /\ occ \in [Runs -> Row] /\ StreakInv(routine)
  BY DEF DbInv, Db, Tables
<1>2. occ' \in [Runs -> Row] /\ occ'[r] = row /\ \A q \in Runs : q # r => occ'[q] = occ[q]
  BY <1>1
<1>3. new \in Db /\ new.routine = routine /\ new.run = occ'
  BY <1>1, <1>2 DEF Db
<1>4. ASSUME NEW q \in Runs
      PROVE  /\ Tidy(new.run[q]) /\ RowStep(occ[q], occ'[q])
             /\ new.run[q].source = occ[q].source
             /\ new.run[q].status \in Active => occ[q].status \in Active
  <2>1. CASE q = r
    BY <1>2, <1>3, <2>1
  <2>2. CASE q # r
    BY <1>2, <1>3, <2>2 DEF DbInv, Tables, RowStep
  <2> QED BY <2>1, <2>2
<1>5. ActiveIn(new) \subseteq ActiveIn(Tables)
  BY <1>4 DEF ActiveIn, Tables
<1>6. OnceInv(new)
  <2> SUFFICES ASSUME NEW q \in ActiveIn(new), new.run[q].source = "once"
               PROVE  new.routine.deleted
                        \/ (new.routine.kind = "once" /\ new.routine.failures < MaxFailures)
    BY DEF OnceInv
  <2>1. q \in ActiveIn(Tables) /\ q \in Runs
    BY <1>5 DEF ActiveIn
  <2>2. Tables.run[q].source = "once" /\ Tables.routine = new.routine
    BY <1>3, <1>4, <2>1 DEF Tables
  <2> QED BY <2>1, <2>2 DEF DbInv, OnceInv
<1>7. DbInv(new)
  BY <1>1, <1>3, <1>4, <1>5, <1>6 DEF DbInv
<1>8. RowsStep
  BY <1>4 DEF RowsStep
<1>9. UnknownStops /\ StartsActive /\ NothingSucceeds
  <2>1. ASSUME NEW q \in Runs, q # r PROVE occ'[q] = occ[q]
    BY <1>2, <2>1
  <2> QED BY <1>2, <2>1 DEF UnknownStops, StartsActive, NothingSucceeds
<1> QED BY <1>7, <1>8, <1>9 DEF StoreStep

(* Only the definition changes.                                            *)
LEMMA RoutineMoves ==
    ASSUME DbInv(Tables), UNCHANGED occ, routine' \in Routine, StreakInv(routine'),
           \A r \in Runs : occ[r].status \in Active /\ occ[r].source = "once" =>
               routine'.deleted
                 \/ (routine'.kind = "once" /\ routine'.failures < MaxFailures)
    PROVE  StoreStep /\ NothingSucceeds
<1> DEFINE new == [routine |-> routine', run |-> occ']
<1>1. occ \in [Runs -> Row]
  BY DEF DbInv, Db, Tables
<1>2. new \in Db /\ new.routine = routine' /\ new.run = occ
  BY <1>1 DEF Db
<1>3. ActiveIn(new) = ActiveIn(Tables)
  BY <1>2 DEF ActiveIn, Tables
<1>4. OnceInv(new)
  BY <1>2 DEF OnceInv, ActiveIn
<1>5. DbInv(new)
  BY <1>2, <1>3, <1>4 DEF DbInv, Tables
<1>6. RowsStep
  BY DEF RowsStep, RowStep
<1> QED BY <1>5, <1>6 DEF StoreStep, UnknownStops, StartsActive, NothingSucceeds

-----------------------------------------------------------------------------
(* What the agent and the deliveries keep of it                            *)

(* A heartbeat that goes on as it was, but for its clock.                  *)
SameWork(b, new) ==
    new.pc = b.pc /\ new.of = b.of /\ new.envelope = b.envelope /\ new.outcome = b.outcome

LEMMA AgentStays ==
    ASSUME AgentInv, RowsStep, UNCHANGED agent,
           \A h \in Heartbeats : SameWork(beat[h], beat'[h]) \/ Frozen(occ', beat'[h])
    PROVE  AgentInv'
<1>1. ASSUME NEW r \in Runs, agent[r].work # None
      PROVE  occ'[r].status \notin Early /\ agent[r].envelope = occ'[r].envelope
  BY <1>1 DEF AgentInv, RowsStep, RowStep
<1>2. ASSUME NEW h \in Heartbeats PROVE Frozen(occ', beat'[h])
  <2>1. CASE Frozen(occ', beat'[h])
    BY <2>1
  <2>2. CASE SameWork(beat[h], beat'[h])
    <3>1. Frozen(occ, beat[h])
      BY DEF AgentInv
    <3> QED BY <2>2, <3>1 DEF SameWork, Frozen, RowsStep, RowStep
  <2> QED BY <2>1, <2>2
<1> QED BY <1>1, <1>2 DEF AgentInv

LEMMA DeliveryStays ==
    ASSUME DeliveryInv, RowsStep, NothingSucceeds, UNCHANGED shown,
           \A h \in Heartbeats : SameWork(beat[h], beat'[h]) \/ beat'[h].pc \notin Delivering
    PROVE  DeliveryInv'
<1>1. ASSUME NEW r \in Runs, NEW h \in Heartbeats, Holds(beat'[h], r)
      PROVE  Holds(beat[h], r) /\ SameWork(beat[h], beat'[h])
  BY <1>1 DEF Holds, SameWork
<1>2. ASSUME NEW r \in Runs, NEW h \in Heartbeats, Holds(beat'[h], r)
      PROVE  HolderInv(occ'[r], shown[r], beat'[h])
  <2>1. HolderInv(occ[r], shown[r], beat[h])
    BY <1>1, <1>2 DEF DeliveryInv
  <2>2. RowStep(occ[r], occ'[r]) /\ SameWork(beat[h], beat'[h])
    BY <1>1, <1>2 DEF RowsStep
  <2> QED BY <2>1, <2>2 DEF HolderInv, RowStep, SameWork, None
<1>3. ASSUME NEW r \in Runs, occ'[r].delivery = None
      PROVE  shown[r].results = 0 /\ shown[r].notices = 0
  BY <1>3 DEF DeliveryInv, RowsStep, RowStep
<1>4. OnePostAsRecorded'
  <2> SUFFICES ASSUME NEW r \in Runs
               PROVE  /\ shown[r].results + shown[r].notices <= 1
                      /\ occ'[r].status = "succeeded" =>
                            occ'[r].delivery = "delivered" /\ shown[r].results = 1
    BY DEF OnePostAsRecorded
  <2> QED BY DEF DeliveryInv, OnePostAsRecorded, NothingSucceeds, RowsStep, RowStep, None
<1>5. \A r \in Runs, g, h \in Heartbeats :
          Holds(beat'[g], r) /\ Holds(beat'[h], r) => g = h
  BY <1>1 DEF DeliveryInv
<1> QED BY <1>2, <1>3, <1>4, <1>5 DEF DeliveryInv

LEMMA OneBeatMoves ==
    ASSUME BeatsInv, NEW h \in Heartbeats, NEW b \in Beat, Carries(b), BeatGoesTo(h, b)
    PROVE  /\ BeatsInv'
           /\ beat'[h] = b
           /\ \A g \in Heartbeats : g # h => beat'[g] = beat[g]
<1>1. beat \in [Heartbeats -> Beat] /\ \A g \in Heartbeats : Carries(beat[g])
  BY DEF BeatsInv
<1>2. beat' \in [Heartbeats -> Beat] /\ beat'[h] = b
        /\ \A g \in Heartbeats : g # h => beat'[g] = beat[g]
  BY <1>1 DEF BeatGoesTo
<1>3. \A g \in Heartbeats : Carries(beat'[g])
  BY <1>1, <1>2
<1> QED BY <1>2, <1>3 DEF BeatsInv

(* Where a heartbeat may stand that neither dispatches nor delivers.       *)
Plain(b) ==
    /\ b \in Beat /\ Carries(b)
    /\ b.pc \notin Delivering

RoutineStep ==
    RoutineInv' /\ RowsStep /\ UnknownStops /\ StartsActive

LEMMA HeartbeatMoves ==
    ASSUME RoutineInv, StoreStep, NothingSucceeds, NEW h \in Heartbeats, NEW b,
           Plain(b), Frozen(occ', b), BeatGoesTo(h, b), UNCHANGED <<agent, shown, controls>>
    PROVE  RoutineStep
<1>1. BeatsInv' /\ beat'[h] = b /\ \A g \in Heartbeats : g # h => beat'[g] = beat[g]
  BY OneBeatMoves DEF RoutineInv, Plain
<1>2. \A g \in Heartbeats : SameWork(beat[g], beat'[g]) \/ Frozen(occ', beat'[g])
  BY <1>1 DEF SameWork
<1>3. \A g \in Heartbeats : SameWork(beat[g], beat'[g]) \/ beat'[g].pc \notin Delivering
  BY <1>1 DEF SameWork, Plain
<1>4. AgentInv'
  BY <1>2, AgentStays DEF RoutineInv, StoreStep
<1>5. DeliveryInv'
  BY <1>3, DeliveryStays DEF RoutineInv, StoreStep
<1>6. DbInv(Tables)'
  BY DEF StoreStep, Tables
<1> QED BY <1>1, <1>4, <1>5, <1>6 DEF RoutineStep, RoutineInv, StoreStep

(* Nobody's heartbeat moves, but for its clock.                            *)
LEMMA NoHeartbeatMoves ==
    ASSUME RoutineInv, StoreStep, NothingSucceeds, UNCHANGED <<agent, shown>>,
           BeatsInv', \A h \in Heartbeats : SameWork(beat[h], beat'[h]),
           controls' \in 0 .. MaxControls
    PROVE  RoutineStep
<1>1. AgentInv'
  BY AgentStays DEF RoutineInv, StoreStep
<1>2. DeliveryInv'
  BY DeliveryStays DEF RoutineInv, StoreStep
<1>3. DbInv(Tables)'
  BY DEF StoreStep, Tables
<1> QED BY <1>1, <1>2, <1>3 DEF RoutineStep, RoutineInv, StoreStep

-----------------------------------------------------------------------------
(* The definition: members, and the clock                                  *)

LEMMA RoutineConstants ==
    /\ MaxRuns \in Nat /\ Period \in Nat /\ Grace \in Nat /\ AdmissionLease \in Nat
    /\ DeliveryLease \in Nat /\ MaxFailures \in Nat /\ MaxLag \in Nat /\ MaxControls \in Nat
    /\ MaxRuns > 0 /\ Period > 0 /\ Grace > 0 /\ AdmissionLease > 0
    /\ DeliveryLease > 0 /\ MaxFailures > 0
    /\ MaxLag <= Period /\ MaxLag <= Grace
BY RoutineBounds, RoutineSaturation

LEMMA RoutineInitInv == RoutineInit => RoutineInv
<1> SUFFICES ASSUME RoutineInit PROVE RoutineInv
  OBVIOUS
<1>1. routine \in Routine /\ routine.failures = 0 /\ StreakInv(routine)
  <2>1. PICK kind \in {"schedule", "once"}, next \in Ahead :
          routine = [kind |-> kind, state |-> "active", next |-> next,
                     failures |-> 0, deleted |-> FALSE]
    BY DEF RoutineInit
  <2>2. next \in -(Period + Grace + MaxLag) .. NotDue /\ 0 \in 0 .. MaxFailures
          /\ 0 # MaxFailures
    BY RoutineConstants, RoutineAhead DEF NotDue
  <2> QED BY <2>1, <2>2 DEF Routine, StreakInv
<1>2. NewRow \in Row
  <2>1. 0 \in -(Grace + 1) .. Grace /\ 0 \in -MaxLag .. AdmissionLease
          /\ 0 \in 0 .. DeliveryLease
    BY RoutineConstants
  <2> QED BY <2>1 DEF NewRow, Row, Sources, Active
<1>3. occ = [r \in Runs |-> NewRow] /\ Tidy(NewRow) /\ NewRow.status = "absent"
        /\ NewRow.delivery = None
  BY DEF RoutineInit, Tidy, NewRow
<1>4. DbInv(Tables)
  <2>1. occ \in [Runs -> Row]
    BY <1>2, <1>3
  <2>2. Tables \in Db
    BY <1>1, <2>1 DEF Tables, Db
  <2>3. ActiveIn(Tables) = {}
    BY <1>3 DEF ActiveIn, Tables, Active
  <2>4. \A r \in Runs : Tidy(occ[r])
    BY <1>3
  <2> QED BY <1>1, <2>2, <2>3, <2>4 DEF DbInv, OnceInv, Tables
<1>5. BeatsInv
  <2>1. Idle \in Beat
    <3>1. 0 \in 0 .. MaxLag /\ 0 \in 0 .. MaxRuns
      BY RoutineConstants
    <3> QED BY <3>1 DEF Idle, Beat
  <2>2. Carries(Idle)
    BY DEF Carries, Idle
  <2> QED BY <2>1, <2>2 DEF RoutineInit, BeatsInv
<1>6. AgentInv
  BY DEF RoutineInit, AgentInv, Submission, Frozen, Idle
<1>7. DeliveryInv
  BY <1>3 DEF RoutineInit, DeliveryInv, Holds, Delivering, Idle, OnePostAsRecorded
<1> QED BY <1>4, <1>5, <1>6, <1>7, RoutineConstants DEF RoutineInit, RoutineInv

LEMMA ControlStep ==
    ASSUME RoutineInv, Control, StoreStep, NothingSucceeds
    PROVE  RoutineStep
<1>1. controls' \in 0 .. MaxControls
  BY RoutineConstants DEF Control, RoutineInv
<1>2. BeatsInv' /\ \A h \in Heartbeats : SameWork(beat[h], beat'[h])
  BY DEF Control, RoutineInv, BeatsInv, SameWork
<1> QED BY <1>1, <1>2, NoHeartbeatMoves DEF Control

(* Members cancel what is queued by the schedule.                          *)
LEMMA QueueIsCancelled ==
    ASSUME DbInv(Tables), NEW state \in {"paused", "disabled"},
           routine' = [routine EXCEPT !.state = state],
           occ' = CancelQueuedScheduledOccurrences(occ)
    PROVE  StoreStep /\ NothingSucceeds
<1> DEFINE new == [routine |-> routine', run |-> occ']
<1>1. routine \in Routine /\ occ \in [Runs -> Row] /\ StreakInv(routine)
        /\ OnceInv(Tables) /\ \A q, r \in ActiveIn(Tables) : q = r
  BY DEF DbInv, Db, Tables
<1>2. /\ routine' \in Routine /\ routine'.state = state
      /\ routine'.deleted = routine.deleted /\ routine'.kind = routine.kind
      /\ routine'.failures = routine.failures
  BY <1>1 DEF Routine
<1>3. ASSUME NEW r \in Runs
      PROVE  /\ occ'[r] \in Row
             /\ Tidy(occ'[r]) /\ RowStep(occ[r], occ'[r])
             /\ occ'[r].source = occ[r].source /\ occ'[r].class = occ[r].class
             /\ occ'[r].status \in {occ[r].status, "cancelled"}
  <2>0. occ[r] \in Row /\ Tidy(occ[r])
    BY <1>1 DEF DbInv, Tables
  <2>1. CASE occ'[r] = occ[r]
    BY <2>0, <2>1 DEF RowStep
  <2>2. CASE occ[r].status = "queued" /\ occ'[r] = Ended(occ[r], "cancelled")
    <3>1. 0 \in -(Grace + 1) .. Grace /\ 0 \in -MaxLag .. AdmissionLease
      BY RoutineConstants
    <3>2. /\ occ'[r] \in Row /\ occ'[r].status = "cancelled"
          /\ occ'[r].source = occ[r].source /\ occ'[r].class = occ[r].class
          /\ occ'[r].envelope = occ[r].envelope /\ occ'[r].receipt = occ[r].receipt
          /\ occ'[r].settlement = occ[r].settlement
          /\ occ'[r].delivery = occ[r].delivery
      BY <2>0, <2>2, <3>1 DEF Ended, Row, Terminal
    <3> QED BY <2>2, <3>2 DEF Tidy, RowStep, Early, Terminal
  <2> QED BY <2>1, <2>2 DEF CancelQueuedScheduledOccurrences
<1>4. occ' \in [Runs -> Row]
  BY <1>3 DEF CancelQueuedScheduledOccurrences
<1>5. new \in Db /\ ActiveIn(new) \subseteq ActiveIn(Tables)
  BY <1>2, <1>3, <1>4 DEF Db, ActiveIn, Tables, Active
<1>6. DbInv(new)
  <2>1. StreakInv(routine')
    BY <1>2 DEF StreakInv
  <2>2. ASSUME NEW r \in ActiveIn(new), occ'[r].source = "once"
        PROVE  routine'.deleted
                 \/ (routine'.kind = "once" /\ routine'.failures < MaxFailures)
    <3>1. r \in ActiveIn(Tables) /\ r \in Runs
      BY <1>5 DEF ActiveIn
    <3>2. occ[r].source = "once"
      BY <1>3, <2>2, <3>1
    <3> QED BY <1>1, <1>2, <3>1, <3>2 DEF OnceInv, Tables
  <2> QED BY <1>1, <1>3, <1>5, <2>1, <2>2 DEF DbInv, OnceInv
<1>7. RowsStep
  BY <1>3 DEF RowsStep
<1>8. UnknownStops /\ StartsActive /\ NothingSucceeds
  BY <1>3 DEF UnknownStops, StartsActive, NothingSucceeds
<1> QED BY <1>6, <1>7, <1>8 DEF StoreStep

LEMMA PauseStep == RoutineInv /\ Pause => RoutineStep
<1> SUFFICES ASSUME RoutineInv, Pause PROVE RoutineStep
  OBVIOUS
<1>1. StoreStep /\ NothingSucceeds
  BY QueueIsCancelled DEF Pause, RoutineInv
<1> QED BY <1>1, ControlStep DEF Pause

LEMMA DisableStep == RoutineInv /\ Disable => RoutineStep
<1> SUFFICES ASSUME RoutineInv, Disable PROVE RoutineStep
  OBVIOUS
<1>1. StoreStep /\ NothingSucceeds
  BY QueueIsCancelled DEF Disable, RoutineInv
<1> QED BY <1>1, ControlStep DEF Disable

(* What the invariant says of the definition.                              *)
LEMMA RoutineFacts ==
    ASSUME RoutineInv
    PROVE  /\ DbInv(Tables) /\ routine \in Routine /\ StreakInv(routine)
           /\ occ \in [Runs -> Row]
           /\ \A r \in Runs : occ[r].status \in Active /\ occ[r].source = "once" =>
                 routine.deleted
                   \/ (routine.kind = "once" /\ routine.failures < MaxFailures)
BY DEF RoutineInv, DbInv, Db, Tables, OnceInv, ActiveIn

LEMMA ResumeStep == RoutineInv /\ Resume => RoutineStep
<1> SUFFICES ASSUME RoutineInv, Resume PROVE RoutineStep
  OBVIOUS
<1>0. routine \in Routine
  BY RoutineFacts
<1>1. PICK next \in -(Period + Grace + MaxLag) .. NotDue :
        routine' = [routine EXCEPT !.state = "active", !.failures = 0, !.next = next]
  <2>1. CASE routine' = [routine EXCEPT !.state = "active", !.failures = 0]
    BY <1>0, <2>1 DEF Routine
  <2>2. CASE \E next \in Ahead :
          routine' = [routine EXCEPT !.state = "active", !.failures = 0, !.next = next]
    <3>1. Ahead \subseteq -(Period + Grace + MaxLag) .. NotDue
      BY RoutineConstants, RoutineAhead DEF NotDue
    <3> QED BY <2>2, <3>1
  <2> QED BY <2>1, <2>2 DEF Resume
<1>2. /\ routine' \in Routine /\ routine'.failures = 0
      /\ routine'.kind = routine.kind /\ routine'.deleted = routine.deleted
  <2>1. 0 \in 0 .. MaxFailures
    BY RoutineConstants
  <2> QED BY <1>0, <1>1, <2>1 DEF Routine
<1>3. StoreStep /\ NothingSucceeds
  <2>1. StreakInv(routine') /\ 0 < MaxFailures
    BY <1>2, RoutineConstants DEF StreakInv
  <2>2. UNCHANGED occ
    BY DEF Resume
  <2>3. \A r \in Runs : occ[r].status \in Active /\ occ[r].source = "once" =>
          routine'.deleted \/ (routine'.kind = "once" /\ routine'.failures < MaxFailures)
    BY <1>2, <2>1, RoutineFacts
  <2> QED BY <1>2, <2>1, <2>2, <2>3, RoutineFacts, RoutineMoves
<1> QED BY <1>3, ControlStep DEF Resume

LEMMA EditStep == RoutineInv /\ Edit => RoutineStep
<1> SUFFICES ASSUME RoutineInv, Edit PROVE RoutineStep
  OBVIOUS
<1>0. routine \in Routine /\ StreakInv(routine) /\ ~routine.deleted
  BY RoutineFacts DEF Edit, Control
<1>1. PICK kind \in {"schedule", "once"}, next \in Ahead :
        routine' = [routine EXCEPT
                      !.kind = kind, !.next = next,
                      !.state = IF @ = "completed" THEN "active" ELSE @]
  BY DEF Edit
<1>2. next \in -(Period + Grace + MaxLag) .. NotDue
  BY RoutineConstants, RoutineAhead DEF NotDue
<1>3. /\ routine' \in Routine
      /\ routine'.failures = routine.failures /\ routine'.deleted = routine.deleted
      /\ routine'.kind = kind
      /\ routine'.state = IF routine.state = "completed" THEN "active" ELSE routine.state
  BY <1>0, <1>1, <1>2 DEF Routine
<1>4. StreakInv(routine')
  BY <1>0, <1>3 DEF StreakInv
<1>5. ASSUME NEW r \in Runs, occ[r].status \in Active, occ[r].source = "once"
      PROVE  FALSE
  <2>1. routine.kind = "once"
    BY <1>0, <1>5, RoutineFacts
  <2>2. ActiveIn(Tables) = {}
    BY <2>1 DEF Edit
  <2> QED BY <1>5, <2>2 DEF ActiveIn, Tables
<1>6. StoreStep /\ NothingSucceeds
  <2>1. UNCHANGED occ
    BY DEF Edit
  <2> QED BY <1>3, <1>4, <1>5, <2>1, RoutineFacts, RoutineMoves
<1> QED BY <1>6, ControlStep DEF Edit

LEMMA DeleteStep == RoutineInv /\ Delete => RoutineStep
<1> SUFFICES ASSUME RoutineInv, Delete PROVE RoutineStep
  OBVIOUS
<1>1. routine' \in Routine /\ routine'.deleted
  <2>1. NotDue \in -(Period + Grace + MaxLag) .. NotDue
    BY RoutineConstants DEF NotDue
  <2>2. routine \in Routine /\ routine' = [routine EXCEPT !.deleted = TRUE, !.next = NotDue]
    BY RoutineFacts DEF Delete
  <2> QED BY <2>1, <2>2 DEF Routine
<1>2. StoreStep /\ NothingSucceeds
  <2>1. UNCHANGED occ
    BY DEF Delete
  <2>2. StreakInv(routine')
    BY <1>1 DEF StreakInv
  <2> QED BY <1>1, <2>1, <2>2, RoutineFacts, RoutineMoves
<1> QED BY <1>2, ControlStep DEF Delete

-----------------------------------------------------------------------------
(* A new occurrence                                                        *)

(* Nothing was active before, and its row was absent.                      *)
LEMMA RunIsInserted ==
    ASSUME DbInv(Tables), NEW db \in Db, db.run = occ, StreakInv(db.routine),
           MayInsert(Tables), NEW source \in Sources, NEW left \in -(Grace + 1) .. Grace,
           source = "once" => db.routine.kind = "once" /\ db.routine.failures < MaxFailures,
           Write(Insert(db, source, left))
    PROVE  StoreStep /\ NothingSucceeds
<1> DEFINE IsFirst(r) == /\ occ[r].status = "absent"
                         /\ \A q \in 1 .. r - 1 : occ[q].status # "absent"
           r == CHOOSE r \in Runs : IsFirst(r)
           row == [NewRow EXCEPT !.status = "queued", !.source = source, !.left = left]
           new == Insert(db, source, left)
<1>1. /\ occ \in [Runs -> Row] /\ ActiveIn(Tables) = {}
      /\ \A q \in Runs : Tidy(occ[q])
  BY DEF DbInv, Db, Tables, MayInsert
<1>2. r \in Runs /\ occ[r].status = "absent"
  <2> DEFINE Absent == {q \in Runs : occ[q].status = "absent"}
  <2>1. Absent # {} /\ Absent \subseteq Nat
    BY RoutineConstants DEF MayInsert, Tables, Runs
  <2>2. PICK m \in Absent : \A q \in Absent : m <= q
    <3> HIDE DEF Absent
    <3> QED BY <2>1, NatMin
  <2>3. IsFirst(m)
    <3>1. ASSUME NEW q \in 1 .. m - 1 PROVE occ[q].status # "absent"
      <4>1. q \in Runs /\ ~(m <= q)
        BY RoutineConstants DEF Runs
      <4> QED BY <2>2, <4>1
    <3> QED BY <3>1
  <2>4. \E q \in Runs : IsFirst(q)
    BY <2>3
  <2>5. r \in Runs /\ IsFirst(r)
    <3> HIDE DEF IsFirst
    <3> QED BY <2>4
  <2> QED BY <2>5
<1>3. row \in Row /\ Tidy(row) /\ row.status = "queued" /\ row.source = source
        /\ row.class = None
  <2>1. 0 \in -MaxLag .. AdmissionLease /\ 0 \in 0 .. DeliveryLease
    BY RoutineConstants
  <2> QED BY <2>1 DEF NewRow, Row, Tidy, Active
<1>4. new = [db EXCEPT !.run[r] = row]
  BY DEF Insert
<1> HIDE DEF r, row, new
<1>5. /\ new \in Db /\ new.routine = db.routine /\ new.run[r] = row
      /\ \A q \in Runs : q # r => new.run[q] = occ[q]
  <2>1. row \in Row /\ r \in Runs
    BY <1>2, <1>3
  <2>2. /\ new \in Db /\ new.routine = db.routine /\ new.run[r] = row
        /\ \A q \in Runs : q # r => new.run[q] = db.run[q]
    BY <1>4, <2>1 DEF Db
  <2> QED BY <2>2
<1>6. routine' = new.routine /\ occ' = new.run
  BY DEF Write, new
<1>7. [routine |-> routine', run |-> occ'] = new
  BY <1>5, <1>6 DEF Db
<1>8. ActiveIn(new) = {r}
  <2>1. ASSUME NEW q \in Runs, q # r PROVE new.run[q].status \notin Active
    BY <1>1, <1>5, <2>1 DEF ActiveIn, Tables
  <2> QED BY <1>2, <1>3, <1>5, <2>1 DEF ActiveIn, Active
<1>9. DbInv(new)
  <2>1. \A q \in Runs : Tidy(new.run[q])
    BY <1>1, <1>3, <1>5
  <2>2. OnceInv(new)
    BY <1>3, <1>5, <1>8 DEF OnceInv
  <2> QED BY <1>5, <1>8, <2>1, <2>2 DEF DbInv
<1>10. RowsStep
  <2> SUFFICES ASSUME NEW q \in Runs PROVE RowStep(occ[q], occ'[q])
    BY DEF RowsStep
  <2>1. CASE q = r
    BY <1>1, <1>2, <1>5, <1>6, <2>1 DEF RowStep, Tidy, Early, Terminal
  <2>2. CASE q # r
    BY <1>5, <1>6, <2>2 DEF RowStep
  <2> QED BY <2>1, <2>2
<1>11. UnknownStops /\ StartsActive /\ NothingSucceeds
  <2>1. \A q \in Runs : occ'[q] = occ[q] \/ occ'[q] = row
    BY <1>5, <1>6
  <2> QED BY <1>3, <2>1 DEF UnknownStops, StartsActive, NothingSucceeds, None
<1> QED BY <1>7, <1>9, <1>10, <1>11 DEF StoreStep

LEMMA RunNowStep == RoutineInv /\ RunNow => RoutineStep
<1> SUFFICES ASSUME RoutineInv, RunNow PROVE RoutineStep
  OBVIOUS
<1>1. StoreStep /\ NothingSucceeds
  <2>1. Grace \in -(Grace + 1) .. Grace /\ "run_now" \in Sources
    BY RoutineConstants DEF Sources
  <2>2. Tables \in Db /\ Tables.run = occ /\ StreakInv(Tables.routine) /\ DbInv(Tables)
    BY RoutineFacts DEF Tables, DbInv
  <2> QED BY <2>1, <2>2, RunIsInserted DEF RunNow
<1>2. BeatsInv' /\ \A h \in Heartbeats : SameWork(beat[h], beat'[h])
  BY DEF RunNow, RoutineInv, BeatsInv, SameWork
<1>3. controls' \in 0 .. MaxControls /\ UNCHANGED <<agent, shown>>
  BY DEF RunNow, RoutineInv
<1> QED BY <1>1, <1>2, <1>3, NoHeartbeatMoves

-----------------------------------------------------------------------------
(* A heartbeat finds work                                                  *)

LEMMA IdleIsPlain ==
    /\ Plain(Idle) /\ Plain([Idle EXCEPT !.pc = "claim"])
    /\ \A rows : Frozen(rows, Idle) /\ Frozen(rows, [Idle EXCEPT !.pc = "claim"])
<1>1. 0 \in 0 .. MaxLag /\ 0 \in 0 .. MaxRuns
  BY RoutineConstants
<1>2. Idle \in Beat /\ [Idle EXCEPT !.pc = "claim"] \in Beat
  BY <1>1 DEF Idle, Beat
<1> QED BY <1>2 DEF Plain, Carries, Delivering, Frozen, Idle

(* Where a heartbeat goes that works on an occurrence.                     *)
LEMMA WorkIsPlain ==
    ASSUME NEW r \in Runs,
           NEW pc \in {"load", "fail", "settle", "finalize", "deliver", "notice"},
           NEW outcome \in {None} \cup Outcomes,
           pc = "fail" => outcome \in Classes,
           pc = "settle" => outcome \in Outcomes,
           pc = "finalize" => outcome \in {"no_op"} \cup Classes,
           NEW rows
    PROVE  LET b == [Idle EXCEPT !.pc = pc, !.of = r, !.outcome = outcome] IN
           Plain(b) /\ Frozen(rows, b)
<1>1. 0 \in 0 .. MaxLag /\ r \in 0 .. MaxRuns
  BY RoutineConstants DEF Runs
<1> QED BY <1>1 DEF Idle, Beat, Plain, Carries, Delivering, Frozen

(* A heartbeat gives up, having changed the rows as it may.                *)
LEMMA HeartbeatStops ==
    ASSUME RoutineInv, StoreStep, NothingSucceeds, NEW h \in Heartbeats, Stop(h),
           UNCHANGED <<agent, shown, controls>>
    PROVE  RoutineStep
BY IdleIsPlain, HeartbeatMoves DEF Stop

LEMMA StartStep == \A h \in Heartbeats : RoutineInv /\ Start(h) => RoutineStep
<1> SUFFICES ASSUME NEW h \in Heartbeats, RoutineInv, Start(h) PROVE RoutineStep
  OBVIOUS
<1> DEFINE new == CleanupRetention(Tables)
<1>1. DbInv(Tables) /\ Write(new) /\ DbInv(new) /\ Settled(Tables, new)
        /\ NoneSucceeds(Tables, new)
  BY CleanupReconciles DEF RoutineInv, Start, Reconciled
<1> HIDE DEF new
<1>2. StoreStep /\ NothingSucceeds
  BY <1>1, StoreSettles
<1> QED BY <1>2, IdleIsPlain, HeartbeatMoves DEF Start

LEMMA ListRunsStep == \A h \in Heartbeats : RoutineInv /\ ListRuns(h) => RoutineStep
<1> SUFFICES ASSUME NEW h \in Heartbeats, RoutineInv, ListRuns(h) PROVE RoutineStep
  OBVIOUS
<1>1. StoreStep /\ NothingSucceeds
  BY StoreRests DEF ListRuns, RoutineInv
<1>2. UNCHANGED <<agent, shown, controls>>
  BY DEF ListRuns
<1>3. beat[h] \in Beat
  BY DEF RoutineInv, BeatsInv
<1>4. CASE Stop(h)
  BY <1>1, <1>2, <1>4, HeartbeatStops
<1>5. ASSUME NEW r \in ActiveIn(Tables), BeatGoesTo(h, [beat[h] EXCEPT !.pc = "queued", !.of = r])
      PROVE  RoutineStep
  <2> DEFINE b == [beat[h] EXCEPT !.pc = "queued", !.of = r]
  <2>1. r \in 0 .. MaxRuns
    BY RoutineConstants DEF ActiveIn, Runs
  <2>2. b \in Beat /\ b.pc = "queued"
    BY <1>3, <2>1 DEF Beat
  <2> HIDE DEF b
  <2>3. Plain(b) /\ Frozen(occ', b)
    BY <2>2 DEF Plain, Carries, Delivering, Frozen
  <2>4. BeatGoesTo(h, b)
    BY <1>5 DEF b
  <2> QED BY <1>1, <1>2, <2>3, <2>4, HeartbeatMoves
<1>6. ASSUME NEW r \in ActiveIn(Tables), BeatGoesTo(h, [Idle EXCEPT !.pc = "load", !.of = r])
      PROVE  RoutineStep
  <2> DEFINE b == [Idle EXCEPT !.pc = "load", !.of = r]
  <2>1. r \in 0 .. MaxRuns /\ 0 \in 0 .. MaxLag
    BY RoutineConstants DEF ActiveIn, Runs
  <2>2. b \in Beat /\ b.pc = "load"
    BY <2>1 DEF Beat, Idle
  <2> HIDE DEF b
  <2>3. Plain(b) /\ Frozen(occ', b)
    BY <2>2 DEF Plain, Carries, Delivering, Frozen
  <2>4. BeatGoesTo(h, b)
    BY <1>6 DEF b
  <2> QED BY <1>1, <1>2, <2>3, <2>4, HeartbeatMoves
<1> QED BY <1>4, <1>5, <1>6 DEF ListRuns

LEMMA SkipExpiredStep ==
    \A h \in Heartbeats, r \in Runs : RoutineInv /\ SkipExpired(h, r) => RoutineStep
<1> SUFFICES ASSUME NEW h \in Heartbeats, NEW r \in Runs, RoutineInv, SkipExpired(h, r)
             PROVE  RoutineStep
  OBVIOUS
<1> DEFINE new == TransitionRun(Tables, r, {"queued"}, "skipped", "other")
<1>1. "skipped" \in Terminal \ {"succeeded"} /\ "other" \in {None} \cup Classes
  BY DEF Terminal, Classes
<1>2. DbInv(Tables) /\ Reconciled(Tables, new) /\ Write(new)
  BY <1>1, RunFails DEF RoutineInv, SkipExpired
<1> HIDE DEF new
<1>3. StoreStep /\ NothingSucceeds
  BY <1>2, StoreSettles DEF Reconciled
<1> QED BY <1>3, HeartbeatStops DEF SkipExpired

LEMMA StartAdmissionAttemptStep ==
    \A h \in Heartbeats, r \in Runs :
        RoutineInv /\ StartAdmissionAttempt(h, r) => RoutineStep
<1> SUFFICES ASSUME NEW h \in Heartbeats, NEW r \in Runs, RoutineInv,
                    StartAdmissionAttempt(h, r)
             PROVE  RoutineStep
  OBVIOUS
<1>1. UNCHANGED <<routine, agent, shown, controls>>
  BY DEF StartAdmissionAttempt
<1>2. CASE Stop(h) /\ UNCHANGED occ
  <2>1. StoreStep /\ NothingSucceeds
    BY <1>1, <1>2, StoreRests DEF RoutineInv
  <2> QED BY <1>1, <1>2, <2>1, HeartbeatStops
<1>3. CASE /\ MayBeAdmitted(h, r)
           /\ occ' = [occ EXCEPT ![r].status = "admitting",
                                 ![r].lease = AdmissionLease - beat[h].lag]
           /\ BeatGoesTo(h, [Idle EXCEPT !.pc = "load", !.of = r])
  <2> DEFINE row == [occ[r] EXCEPT !.status = "admitting",
                                   !.lease = AdmissionLease - beat[h].lag]
  <2>1. occ \in [Runs -> Row] /\ Tidy(occ[r]) /\ DbInv(Tables)
    BY RoutineFacts DEF DbInv, Tables
  <2>2. AdmissionLease - beat[h].lag \in -MaxLag .. AdmissionLease
    <3>1. beat[h].lag \in 0 .. MaxLag
      BY DEF RoutineInv, BeatsInv, Beat
    <3> QED BY <3>1, RoutineConstants
  <2>3. occ[r].status \in {"queued", "admitting"}
    BY <1>3 DEF MayBeAdmitted
  <2>4. /\ row \in Row /\ row.status = "admitting"
        /\ row.source = occ[r].source /\ row.class = occ[r].class
        /\ row.envelope = occ[r].envelope /\ row.receipt = occ[r].receipt
        /\ row.settlement = occ[r].settlement /\ row.delivery = occ[r].delivery
    <3>1. occ[r] \in Row /\ "admitting" \in Active
      BY <2>1 DEF Active
    <3>2. row \in Row
      BY <2>2, <3>1 DEF Row
    <3> QED BY <3>1, <3>2 DEF Row
  <2>5. occ' = [occ EXCEPT ![r] = row]
    BY <1>3, <2>1
  <2> HIDE DEF row
  <2>6. RowStep(occ[r], row) /\ Tidy(row)
    BY <2>1, <2>3, <2>4 DEF RowStep, Tidy, Early, Terminal
  <2>7. StoreStep /\ NothingSucceeds
    <3>1. occ[r].status \in Active
      BY <2>3 DEF Active
    <3> QED BY <1>1, <2>1, <2>4, <2>5, <2>6, <3>1, RowMoves
  <2>8. Plain([Idle EXCEPT !.pc = "load", !.of = r])
          /\ Frozen(occ', [Idle EXCEPT !.pc = "load", !.of = r])
    <3>1. r \in 0 .. MaxRuns /\ 0 \in 0 .. MaxLag
      BY RoutineConstants DEF Runs
    <3> QED BY <3>1 DEF Plain, Beat, Idle, Carries, Delivering, Frozen
  <2> QED BY <1>1, <1>3, <2>7, <2>8, HeartbeatMoves
<1> QED BY <1>2, <1>3 DEF StartAdmissionAttempt

(* Due slots are claimed, skipped or deferred.                             *)
LEMMA ClaimDueSchedulesStep ==
    \A h \in Heartbeats : RoutineInv /\ ClaimDueSchedules(h) => RoutineStep
<1> SUFFICES ASSUME NEW h \in Heartbeats, RoutineInv, ClaimDueSchedules(h)
             PROVE  RoutineStep
  OBVIOUS
<1> DEFINE lag == beat[h].lag
           due == DueSlots(lag)
           moved == [Tables EXCEPT !.routine.next = due.next]
<1>1. /\ routine \in Routine /\ StreakInv(routine) /\ DbInv(Tables)
      /\ occ \in [Runs -> Row] /\ beat[h] \in Beat /\ lag \in 0 .. MaxLag
  BY RoutineFacts DEF RoutineInv, BeatsInv, Beat
<1>2. ASSUME Due(lag)
      PROVE  /\ due.age \in Nat
             /\ due.next \in -(Period + Grace + MaxLag) .. NotDue
             /\ routine.state = "active" /\ ~routine.deleted
             /\ routine.failures < MaxFailures
  <2>1. lag \in Nat /\ routine.next \in Int /\ Overdue(lag) \in Nat /\ lag <= MaxLag
    <3>1. routine.next \in -(Period + Grace + MaxLag) .. NotDue
      BY <1>1 DEF Routine
    <3>2. routine.next \in Int /\ routine.next <= -lag
      BY <1>2, <3>1 DEF Due
    <3> HIDE DEF lag
    <3> QED BY <1>1, <3>2, RoutineConstants DEF Overdue
  <2>2. Overdue(lag) % Period \in 0 .. Period - 1
    BY <2>1, RoutineConstants
  <2>3. Period - (Overdue(lag) % Period) - lag \in -(Period + Grace + MaxLag) .. NotDue
    <3> HIDE DEF lag
    <3> QED BY <2>1, <2>2, RoutineConstants DEF NotDue
  <2>4. NotDue \in -(Period + Grace + MaxLag) .. NotDue
    BY RoutineConstants DEF NotDue
  <2>5. due.age \in {Overdue(lag), Overdue(lag) % Period}
          /\ due.next \in {NotDue, Period - (Overdue(lag) % Period) - lag}
    BY DEF DueSlots
  <2>6. due.age \in Nat /\ due.next \in -(Period + Grace + MaxLag) .. NotDue
    <3> HIDE DEF due
    <3> QED BY <2>1, <2>2, <2>3, <2>4, <2>5
  <2>7. routine.failures < MaxFailures
    <3>1. routine.failures \in 0 .. MaxFailures
      BY <1>1 DEF Routine
    <3>2. routine.failures # MaxFailures
      BY <1>1, <1>2 DEF StreakInv, Due
    <3> QED BY <3>1, <3>2, RoutineConstants
  <2> QED BY <1>2, <2>6, <2>7 DEF Due
<1>3. ASSUME Due(lag)
      PROVE  /\ moved \in Db /\ moved.run = occ
             /\ moved.routine = [routine EXCEPT !.next = due.next]
             /\ moved.routine \in Routine /\ StreakInv(moved.routine)
             /\ moved.routine.kind = routine.kind
             /\ moved.routine.failures = routine.failures
             /\ moved.routine.deleted = routine.deleted
  <2>1. due.next \in -(Period + Grace + MaxLag) .. NotDue
    BY <1>2, <1>3
  <2>2. moved = [routine |-> [routine EXCEPT !.next = due.next], run |-> occ]
    BY DEF Tables
  <2> HIDE DEF due, lag
  <2>3. LET rt == [routine EXCEPT !.next = due.next] IN
        /\ rt \in Routine /\ rt.kind = routine.kind /\ rt.failures = routine.failures
        /\ rt.deleted = routine.deleted /\ rt.state = routine.state
    BY <1>1, <2>1 DEF Routine
  <2> QED BY <1>1, <2>2, <2>3 DEF Db, StreakInv
<1>4. StoreStep /\ NothingSucceeds
  <2>1. CASE UNCHANGED <<routine, occ>>
    BY <1>1, <2>1, StoreRests
  <2>2. CASE Due(lag) /\ routine' = [routine EXCEPT !.state = "paused"] /\ UNCHANGED occ
    <3>1. /\ routine' \in Routine /\ routine'.state = "paused"
          /\ routine'.deleted = routine.deleted /\ routine'.kind = routine.kind
          /\ routine'.failures = routine.failures
      BY <1>1, <2>2 DEF Routine
    <3>2. StreakInv(routine')
      BY <3>1 DEF StreakInv
    <3> QED BY <1>1, <2>2, <3>1, <3>2, RoutineFacts, RoutineMoves
  <2>3. CASE Due(lag) /\ Write(Complete(moved))
    <3> HIDE DEF moved
    <3>1. Complete(moved).run = occ /\ occ' = occ
      BY <1>3, <2>3 DEF Complete, Write, Db
    <3>2. /\ routine' \in Routine /\ routine'.kind = routine.kind
          /\ routine'.failures = routine.failures /\ routine'.deleted = routine.deleted
      <4>1. CASE moved.routine.deleted \/ moved.routine.kind # "once"
        BY <1>3, <2>3, <4>1 DEF Complete, Write
      <4>2. CASE ~(moved.routine.deleted \/ moved.routine.kind # "once")
        <5>1. routine' = [moved.routine EXCEPT !.state = "completed", !.next = NotDue]
          BY <1>3, <2>3, <4>2 DEF Complete, Write, Db
        <5>2. NotDue \in -(Period + Grace + MaxLag) .. NotDue
          BY RoutineConstants DEF NotDue
        <5>3. moved.routine \in Routine
          BY <1>3, <2>3
        <5>4. /\ routine' \in Routine /\ routine'.kind = moved.routine.kind
              /\ routine'.failures = moved.routine.failures
              /\ routine'.deleted = moved.routine.deleted
          BY <5>1, <5>2, <5>3 DEF Routine
        <5> QED BY <1>3, <2>3, <5>4
      <4> QED BY <4>1, <4>2
    <3>3. StreakInv(routine')
      <4>1. routine.failures # MaxFailures
        <5>1. routine.failures \in 0 .. MaxFailures /\ routine.failures < MaxFailures
          BY <1>1, <1>2, <2>3 DEF Routine
        <5> QED BY <5>1, RoutineConstants
      <4> QED BY <3>2, <4>1 DEF StreakInv
    <3> QED BY <1>1, <3>1, <3>2, <3>3, RoutineFacts, RoutineMoves
  <2>4. CASE /\ Due(lag) /\ ~IsSkipped(due) /\ MayInsert(Tables)
             /\ Write(Insert(moved, routine.kind, Grace - due.age - lag))
    <3>1. Grace - due.age - lag \in -(Grace + 1) .. Grace
      <4>1. due.age \in Nat /\ ~(due.age > Grace)
        BY <1>2, <2>4 DEF IsSkipped
      <4> HIDE DEF due, lag
      <4> QED BY <1>1, <4>1, RoutineConstants
    <3>2. routine.kind \in Sources
      BY <1>1 DEF Routine, Sources
    <3>3. moved \in Db /\ moved.run = occ /\ StreakInv(moved.routine)
            /\ (routine.kind = "once" =>
                  moved.routine.kind = "once" /\ moved.routine.failures < MaxFailures)
      BY <1>2, <1>3, <2>4
    <3> HIDE DEF moved, due, lag
    <3> QED BY <1>1, <2>4, <3>1, <3>2, <3>3, RunIsInserted
  <2> QED BY <2>1, <2>2, <2>3, <2>4 DEF ClaimDueSchedules
<1> DEFINE b == [beat[h] EXCEPT !.pc = "list"]
<1>5. b \in Beat /\ b.pc = "list"
  BY <1>1 DEF Beat
<1>6. BeatGoesTo(h, b) /\ UNCHANGED <<agent, shown, controls>>
  BY DEF ClaimDueSchedules, Proceed
<1> HIDE DEF b, moved, due, lag
<1>7. Plain(b) /\ Frozen(occ', b)
  BY <1>5 DEF Plain, Carries, Delivering, Frozen
<1> QED BY <1>4, <1>6, <1>7, HeartbeatMoves

-----------------------------------------------------------------------------
(* Time                                                                    *)

LEMMA TickStep == RoutineInv /\ Tick => RoutineStep
<1> SUFFICES ASSUME RoutineInv, Tick PROVE RoutineStep
  OBVIOUS
<1> DEFINE new == [routine |-> routine', run |-> occ']
<1>1. /\ routine \in Routine /\ StreakInv(routine) /\ DbInv(Tables)
      /\ occ \in [Runs -> Row]
  BY RoutineFacts
<1>2. routine' = [routine EXCEPT !.next = Nearer(routine.next)]
  BY DEF Tick
<1>3. Nearer(routine.next) \in -(Period + Grace + MaxLag) .. NotDue
  <2> DEFINE n == routine.next
  <2>1. n \in -(Period + Grace + MaxLag) .. NotDue /\ routine.kind \in {"schedule", "once"}
    BY <1>1 DEF Routine
  <2>2. Nearer(n) \in {NotDue, Lower(n, -(Grace + MaxLag + 1)),
                       Lower(n, -(Period + MaxLag)), Period}
    BY <2>1 DEF Nearer
  <2> HIDE DEF n
  <2>3. NotDue \in Int /\ NotDue = Period + 1
    BY RoutineConstants DEF NotDue
  <2>4. Lower(n, -(Grace + MaxLag + 1)) \in -(Period + Grace + MaxLag) .. NotDue
    BY <2>1, <2>3, RoutineConstants DEF Lower
  <2>5. Lower(n, -(Period + MaxLag)) \in -(Period + Grace + MaxLag) .. NotDue
    BY <2>1, <2>3, RoutineConstants DEF Lower
  <2>6. {NotDue, Period} \subseteq -(Period + Grace + MaxLag) .. NotDue
    BY <2>3, RoutineConstants
  <2>7. Nearer(n) \in -(Period + Grace + MaxLag) .. NotDue
    BY <2>2, <2>4, <2>5, <2>6
  <2> QED BY <2>7 DEF n
<1>4. /\ routine' \in Routine /\ routine'.kind = routine.kind
      /\ routine'.failures = routine.failures /\ routine'.deleted = routine.deleted
      /\ routine'.state = routine.state
  BY <1>1, <1>2, <1>3 DEF Routine
<1>5. ASSUME NEW r \in Runs
      PROVE  /\ occ'[r] \in Row
             /\ occ'[r].status = occ[r].status /\ occ'[r].source = occ[r].source
             /\ occ'[r].class = occ[r].class /\ occ'[r].envelope = occ[r].envelope
             /\ occ'[r].receipt = occ[r].receipt
             /\ occ'[r].settlement = occ[r].settlement
             /\ occ'[r].delivery = occ[r].delivery
  <2>1. occ[r] \in Row
    BY <1>1
  <2>2. CASE occ'[r] = occ[r]
    BY <2>1, <2>2
  <2>3. CASE occ'[r] = Later(occ[r])
    <3> DEFINE left == IF occ[r].status \in Active THEN Lower(occ[r].left, -(Grace + 1))
                                                  ELSE occ[r].left
               lease == Lower(occ[r].lease, -MaxLag)
               hold == Lower(occ[r].hold, 0)
    <3>1. /\ occ[r].left \in -(Grace + 1) .. Grace
          /\ occ[r].lease \in -MaxLag .. AdmissionLease
          /\ occ[r].hold \in 0 .. DeliveryLease
      BY <2>1 DEF Row
    <3>2. left \in -(Grace + 1) .. Grace
      BY <3>1, RoutineConstants DEF Lower
    <3>3. lease \in -MaxLag .. AdmissionLease
      BY <3>1, RoutineConstants DEF Lower
    <3>4. hold \in 0 .. DeliveryLease
      BY <3>1, RoutineConstants DEF Lower
    <3>5. occ'[r] = [occ[r] EXCEPT !.left = left, !.lease = lease, !.hold = hold]
      BY <2>1, <2>3 DEF Later, Row
    <3> HIDE DEF left, lease, hold
    <3> QED BY <2>1, <3>2, <3>3, <3>4, <3>5 DEF Row
  <2> QED BY <2>2, <2>3 DEF Tick
<1>6. occ' \in [Runs -> Row]
  BY <1>5 DEF Tick
<1>7. new \in Db /\ ActiveIn(new) = ActiveIn(Tables)
  BY <1>4, <1>5, <1>6 DEF Db, ActiveIn, Tables
<1>8. DbInv(new)
  <2>1. \A r \in Runs : Tidy(occ'[r])
    BY <1>1, <1>5 DEF DbInv, Tidy, Tables
  <2>2. StreakInv(routine')
    BY <1>1, <1>4 DEF StreakInv
  <2>3. OnceInv(new)
    BY <1>1, <1>4, <1>5, <1>7 DEF DbInv, OnceInv, Tables, ActiveIn
  <2> QED BY <1>1, <1>7, <2>1, <2>2, <2>3 DEF DbInv
<1>9. StoreStep /\ NothingSucceeds
  <2>1. RowsStep
    BY <1>5 DEF RowsStep, RowStep
  <2> QED BY <1>5, <1>8, <2>1 DEF StoreStep, UnknownStops, StartsActive, NothingSucceeds
<1>10. ASSUME NEW h \in Heartbeats
       PROVE  beat'[h] \in Beat /\ SameWork(beat[h], beat'[h])
  <2>1. beat[h] \in Beat
    BY DEF RoutineInv, BeatsInv
  <2>2. CASE beat'[h] = beat[h]
    BY <2>1, <2>2 DEF SameWork
  <2>3. CASE Waiting(h) /\ beat'[h] = [beat[h] EXCEPT !.lag = beat[h].lag + 1]
    <3>1. beat[h].lag < MaxLag /\ beat[h].lag \in 0 .. MaxLag
      BY <2>1, <2>3 DEF Tick, Beat
    <3>2. beat[h].lag + 1 \in 0 .. MaxLag
      BY <3>1, RoutineConstants
    <3> QED BY <2>1, <2>3, <3>2 DEF Beat, SameWork
  <2> QED BY <2>2, <2>3 DEF Tick
<1>11. BeatsInv'
  <2>1. beat' \in [Heartbeats -> Beat]
    BY <1>10 DEF Tick
  <2> QED BY <1>10, <2>1 DEF RoutineInv, BeatsInv, Carries, SameWork
<1>12. controls' \in 0 .. MaxControls /\ UNCHANGED <<agent, shown>>
  BY DEF RoutineInv, Tick
<1> QED BY <1>9, <1>10, <1>11, <1>12, NoHeartbeatMoves

-----------------------------------------------------------------------------
(* executeRoutineOccurrence: preparation                                   *)

LEMMA HeartbeatThrows ==
    ASSUME RoutineInv, StoreStep, NothingSucceeds, NEW h \in Heartbeats, NEW r \in Runs,
           beat[h].of = r,
           NEW pc \in {"load", "fail", "settle", "finalize", "deliver", "notice"},
           NEW outcome \in {None} \cup Outcomes,
           pc = "fail" => outcome \in Classes,
           pc = "settle" => outcome \in Outcomes,
           pc = "finalize" => outcome \in {"no_op"} \cup Classes,
           ThrowWith(h, pc, outcome), UNCHANGED <<agent, shown, controls>>
    PROVE  RoutineStep
<1> DEFINE b == [Idle EXCEPT !.pc = pc, !.of = r, !.outcome = outcome]
<1>1. Plain(b) /\ Frozen(occ', b)
  BY WorkIsPlain
<1>2. BeatGoesTo(h, b)
  BY DEF ThrowWith
<1> HIDE DEF b
<1> QED BY <1>1, <1>2, HeartbeatMoves

LEMMA PrepareStep ==
    \A h \in Heartbeats, r \in Runs : RoutineInv /\ PrepareRoutine(h, r) => RoutineStep
<1> SUFFICES ASSUME NEW h \in Heartbeats, NEW r \in Runs, RoutineInv, PrepareRoutine(h, r)
             PROVE  RoutineStep
  OBVIOUS
<1>1. /\ StoreStep /\ NothingSucceeds /\ UNCHANGED <<agent, shown, controls>>
      /\ beat[h].of = r
  BY StoreRests DEF PrepareRoutine, RoutineInv, On
<1>2. CASE Stop(h)
  BY <1>1, <1>2, HeartbeatStops
<1>3. ASSUME NEW class \in {"access", "attributable"}, ThrowWith(h, "fail", class)
      PROVE  RoutineStep
  <2>1. class \in Classes /\ class \in {None} \cup Outcomes
    BY DEF Classes, Outcomes
  <2> QED BY <1>1, <1>3, <2>1, HeartbeatThrows
<1>4. ASSUME NEW p \in Prompts,
             BeatGoesTo(h, [Idle EXCEPT !.pc = "freeze", !.of = r, !.prompt = p,
                        !.receipt = occ[r].receipt,
                        !.envelope = IF occ[r].envelope = None THEN p
                                                               ELSE occ[r].envelope])
      PROVE  RoutineStep
  <2> DEFINE envelope == IF occ[r].envelope = None THEN p ELSE occ[r].envelope
             b == [Idle EXCEPT !.pc = "freeze", !.of = r, !.prompt = p,
                               !.receipt = occ[r].receipt, !.envelope = envelope]
  <2>1. /\ envelope \in {None} \cup Prompts
        /\ occ[r].receipt \in {None, "accepted", "deduplicated"}
    BY RoutineFacts DEF Row
  <2>2. r \in 0 .. MaxRuns /\ 0 \in 0 .. MaxLag
    BY RoutineConstants DEF Runs
  <2>3. BeatGoesTo(h, b)
    BY <1>4
  <2> HIDE DEF envelope
  <2>4. b \in Beat /\ b.pc = "freeze"
    BY <2>1, <2>2 DEF Beat, Idle
  <2> HIDE DEF b
  <2>5. Plain(b) /\ Frozen(occ', b)
    BY <2>4 DEF Plain, Carries, Delivering, Frozen
  <2> QED BY <1>1, <2>3, <2>5, HeartbeatMoves
<1> QED BY <1>2, <1>3, <1>4 DEF PrepareRoutine

(* A heartbeat that has found or made its envelope the frozen one goes on. *)
LEMMA StartedGoesOn ==
    ASSUME RoutineInv, StoreStep, NothingSucceeds, NEW h \in Heartbeats, NEW r \in Runs,
           On(h, r, "freeze"), Started(h, r), UNCHANGED <<agent, shown, controls>>,
           occ'[r].status \notin Early, occ'[r].envelope = beat[h].envelope
    PROVE  RoutineStep
<1>1. beat[h] \in Beat /\ beat[h].of = r /\ beat[h].pc = "freeze"
  BY DEF RoutineInv, BeatsInv, On, BeatAt
<1>2. CASE ThrowWith(h, "fail", "attributable")
  <2>1. "attributable" \in Classes /\ "attributable" \in {None} \cup Outcomes
    BY DEF Classes, Outcomes
  <2> QED BY <1>1, <1>2, <2>1, HeartbeatThrows
<1>3. CASE occ[r].settlement # None
           /\ BeatGoesTo(h, [Idle EXCEPT !.pc = FinalizeNext(occ[r].settlement),
                                   !.of = r, !.outcome = occ[r].settlement])
  <2> DEFINE outcome == occ[r].settlement
             pc == FinalizeNext(outcome)
  <2>1. outcome \in Outcomes
    BY <1>3, RoutineFacts DEF Row
  <2>2. /\ pc \in {"deliver", "finalize"}
        /\ pc = "finalize" => outcome \in {"no_op"} \cup Classes
    BY <2>1 DEF FinalizeNext, Outcomes
  <2>3. ThrowWith(h, pc, outcome)
    BY <1>1, <1>3 DEF ThrowWith
  <2> HIDE DEF outcome, pc
  <2> QED BY <1>1, <2>1, <2>2, <2>3, HeartbeatThrows
<1>4. ASSUME NEW pc \in {"read", "dispatch"}, BeatGoesTo(h, [beat[h] EXCEPT !.pc = pc])
      PROVE  RoutineStep
  <2> DEFINE b == [beat[h] EXCEPT !.pc = pc]
  <2>1. b \in Beat /\ b.pc = pc /\ b.of = r /\ b.envelope = beat[h].envelope
    BY <1>1 DEF Beat
  <2>2. BeatGoesTo(h, b)
    BY <1>4
  <2> HIDE DEF b
  <2>3. Plain(b) /\ Frozen(occ', b)
    BY <2>1 DEF Plain, Carries, Delivering, Frozen
  <2> QED BY <2>2, <2>3, HeartbeatMoves
<1> QED BY <1>2, <1>3, <1>4 DEF Started

LEMMA PrepareAgentDispatchStep ==
    \A h \in Heartbeats, r \in Runs :
        RoutineInv /\ PrepareAgentDispatch(h, r) => RoutineStep
<1> SUFFICES ASSUME NEW h \in Heartbeats, NEW r \in Runs, RoutineInv,
                    PrepareAgentDispatch(h, r)
             PROVE  RoutineStep
  OBVIOUS
<1>1. /\ UNCHANGED <<routine, agent, shown, controls>> /\ On(h, r, "freeze")
      /\ beat[h].of = r /\ beat[h] \in Beat
  BY DEF PrepareAgentDispatch, On, RoutineInv, BeatsInv
<1>2. DbInv(Tables) /\ occ \in [Runs -> Row] /\ Tidy(occ[r])
  BY RoutineFacts DEF DbInv, Tables
<1>3. CASE UNCHANGED occ
  <2>1. StoreStep /\ NothingSucceeds
    BY <1>1, <1>2, <1>3, StoreRests
  <2>2. CASE occ[r].status = "running" /\ SameEnvelope(h, r) /\ Started(h, r)
    <3>1. occ'[r].status \notin Early /\ occ'[r].envelope = beat[h].envelope
      BY <1>3, <2>2 DEF SameEnvelope, Early
    <3> QED BY <1>1, <2>1, <2>2, <3>1, StartedGoesOn
  <2>3. CASE ThrowWith(h, "fail", "attributable")
    <3>1. "attributable" \in Classes /\ "attributable" \in {None} \cup Outcomes
      BY DEF Classes, Outcomes
    <3> QED BY <1>1, <2>1, <2>3, <3>1, HeartbeatThrows
  <2>4. CASE Stop(h)
    BY <1>1, <2>1, <2>4, HeartbeatStops
  <2>5. CASE /\ occ[r].status = "admitting" /\ MayBegin(r)
             /\ occ' = [occ EXCEPT ![r].status = "running", ![r].lease = 0,
                                   ![r].envelope = beat[h].envelope]
    <3>1. occ'[r].status = "running"
      BY <1>2, <2>5 DEF Row
    <3> QED BY <1>3, <2>5, <3>1
  <2> QED BY <2>2, <2>3, <2>4, <2>5 DEF PrepareAgentDispatch
<1>4. CASE /\ occ[r].status = "admitting"
           /\ occ' = [occ EXCEPT ![r] = Ended(@, "superseded")] /\ Stop(h)
  <2> DEFINE row == Ended(occ[r], "superseded")
  <2>1. 0 \in -(Grace + 1) .. Grace /\ 0 \in -MaxLag .. AdmissionLease
    BY RoutineConstants
  <2>2. /\ row \in Row /\ row.status = "superseded"
        /\ row.source = occ[r].source /\ row.class = occ[r].class
        /\ row.envelope = occ[r].envelope /\ row.receipt = occ[r].receipt
        /\ row.settlement = occ[r].settlement /\ row.delivery = occ[r].delivery
    <3>1. occ[r] \in Row /\ "superseded" \in Terminal
      BY <1>2 DEF Terminal
    <3>2. row \in Row
      BY <2>1, <3>1 DEF Ended, Row
    <3> QED BY <3>1, <3>2 DEF Ended, Row
  <2>3. occ' = [occ EXCEPT ![r] = row]
    BY <1>4
  <2> HIDE DEF row
  <2>4. RowStep(occ[r], row) /\ Tidy(row)
    BY <1>4, <2>2 DEF RowStep, Tidy, Early, Terminal
  <2>5. StoreStep /\ NothingSucceeds
    <3>1. row.status \notin Active
      BY <2>2 DEF Active
    <3> QED BY <1>1, <1>2, <2>2, <2>3, <2>4, <3>1, RowMoves
  <2> QED BY <1>1, <1>4, <2>5, HeartbeatStops
<1>5. CASE /\ occ[r].status = "admitting" /\ MayBegin(r) /\ Started(h, r)
           /\ occ' = [occ EXCEPT ![r].status = "running", ![r].lease = 0,
                                 ![r].envelope = beat[h].envelope]
  <2> DEFINE row == [occ[r] EXCEPT !.status = "running", !.lease = 0,
                                   !.envelope = beat[h].envelope]
  <2>1. 0 \in -MaxLag .. AdmissionLease /\ beat[h].envelope \in {None} \cup Prompts
    BY <1>1, RoutineConstants DEF Beat
  <2>2. /\ row \in Row /\ row.status = "running"
        /\ row.source = occ[r].source /\ row.class = occ[r].class
        /\ row.envelope = beat[h].envelope /\ row.receipt = occ[r].receipt
        /\ row.settlement = occ[r].settlement /\ row.delivery = occ[r].delivery
    <3>1. occ[r] \in Row /\ "running" \in Active
      BY <1>2 DEF Active
    <3>2. row \in Row
      BY <2>1, <3>1 DEF Row
    <3> QED BY <3>1, <3>2 DEF Row
  <2>3. occ' = [occ EXCEPT ![r] = row]
    BY <1>2, <1>5
  <2> HIDE DEF row
  <2>4. RowStep(occ[r], row) /\ Tidy(row)
    BY <1>2, <1>5, <2>2 DEF RowStep, Tidy, Early, Terminal
  <2>5. occ[r].source # "run_now" => ~RoutineStops(routine)
    BY <1>5 DEF MayBegin, RoutineStops
  <2>6. StoreStep /\ NothingSucceeds
    <3>1. occ[r].status \in Active
      BY <1>5 DEF Active
    <3> QED BY <1>1, <1>2, <2>2, <2>3, <2>4, <2>5, <3>1, RowMoves
  <2>7. occ'[r].status \notin Early /\ occ'[r].envelope = beat[h].envelope
    BY <1>2, <2>2, <2>3 DEF Early
  <2> QED BY <1>1, <1>5, <2>6, <2>7, StartedGoesOn
<1> QED BY <1>3, <1>4, <1>5 DEF PrepareAgentDispatch

LEMMA FailUnsettledRunStep ==
    \A h \in Heartbeats, r \in Runs : RoutineInv /\ FailUnsettledRun(h, r) => RoutineStep
<1> SUFFICES ASSUME NEW h \in Heartbeats, NEW r \in Runs, RoutineInv,
                    FailUnsettledRun(h, r)
             PROVE  RoutineStep
  OBVIOUS
<1> DEFINE new == TransitionRun(Tables, r, {"admitting", "running"}, "failed",
                                beat[h].outcome)
<1>1. "failed" \in Terminal \ {"succeeded"} /\ beat[h].outcome \in {None} \cup Classes
  BY DEF FailUnsettledRun, On, BeatAt, RoutineInv, BeatsInv, Carries, Terminal
<1>2. DbInv(Tables) /\ Reconciled(Tables, new) /\ Write(new)
  BY <1>1, RunFails DEF RoutineInv, FailUnsettledRun
<1> HIDE DEF new
<1>3. StoreStep /\ NothingSucceeds
  BY <1>2, StoreSettles DEF Reconciled
<1> QED BY <1>3, HeartbeatStops DEF FailUnsettledRun

-----------------------------------------------------------------------------
(* executeRoutineOccurrence: the agent                                     *)

(* Only the agent's submission of one occurrence changes.                  *)
LEMMA AgentMoves ==
    ASSUME AgentInv, UNCHANGED occ, NEW r \in Runs, NEW s \in Submission,
           s.work # None => occ[r].status \notin Early /\ s.envelope = occ[r].envelope,
           agent' = [agent EXCEPT ![r] = s],
           \A h \in Heartbeats : Frozen(occ, beat'[h])
    PROVE  AgentInv'
<1>1. /\ agent' \in [Runs -> Submission] /\ agent'[r] = s
      /\ \A q \in Runs : q # r => agent'[q] = agent[q]
  BY DEF AgentInv
<1>2. ASSUME NEW q \in Runs, agent'[q].work # None
      PROVE  occ[q].status \notin Early /\ agent'[q].envelope = occ[q].envelope
  <2>1. CASE q = r
    BY <1>1, <1>2, <2>1
  <2>2. CASE q # r
    BY <1>1, <1>2, <2>2 DEF AgentInv
  <2> QED BY <2>1, <2>2
<1> QED BY <1>1, <1>2 DEF AgentInv

LEMMA DispatchStep ==
    \A h \in Heartbeats, r \in Runs : RoutineInv /\ DispatchAgent(h, r) => RoutineStep
<1> SUFFICES ASSUME NEW h \in Heartbeats, NEW r \in Runs, RoutineInv, DispatchAgent(h, r)
             PROVE  RoutineStep
  OBVIOUS
<1>1. /\ UNCHANGED <<routine, occ, shown, controls>>
      /\ beat[h].of = r /\ beat[h].pc = "dispatch" /\ beat[h] \in Beat
      /\ occ[r].status \notin Early /\ occ[r].envelope = beat[h].envelope
  BY DEF DispatchAgent, On, BeatAt, RoutineInv, BeatsInv, AgentInv, Frozen
<1>2. StoreStep /\ NothingSucceeds
  BY <1>1, StoreRests DEF RoutineInv
<1>3. PICK b : Plain(b) /\ b.pc # "dispatch" /\ BeatGoesTo(h, b)
  <2>1. CASE Stop(h)
    BY <2>1, IdleIsPlain DEF Stop, Idle
  <2>2. CASE ThrowWith(h, "settle", "attributable")
    <3>1. "attributable" \in Outcomes
      BY DEF Outcomes, Classes
    <3> DEFINE b == [Idle EXCEPT !.pc = "settle", !.of = r, !.outcome = "attributable"]
    <3>2. Plain(b)
      BY <3>1, WorkIsPlain
    <3>3. BeatGoesTo(h, b) /\ b.pc = "settle"
      BY <1>1, <2>2 DEF ThrowWith, Idle
    <3> HIDE DEF b
    <3> QED BY <3>2, <3>3
  <2>3. ASSUME NEW receipt \in {"accepted", "deduplicated"},
               BeatGoesTo(h, [beat[h] EXCEPT !.pc = "receipt", !.receipt = receipt])
        PROVE  \E b : Plain(b) /\ b.pc # "dispatch" /\ BeatGoesTo(h, b)
    <3> DEFINE b == [beat[h] EXCEPT !.pc = "receipt", !.receipt = receipt]
    <3>1. b \in Beat /\ b.pc = "receipt"
      BY <1>1 DEF Beat
    <3>2. BeatGoesTo(h, b)
      BY <2>3
    <3> HIDE DEF b
    <3>3. Plain(b)
      BY <3>1 DEF Plain, Carries, Delivering
    <3> QED BY <3>1, <3>2, <3>3
  <2> QED BY <2>1, <2>2, <2>3 DEF DispatchAgent
<1>4. BeatsInv' /\ beat'[h] = b /\ \A g \in Heartbeats : g # h => beat'[g] = beat[g]
  BY <1>3, OneBeatMoves DEF RoutineInv, Plain
<1>5. DeliveryInv'
  <2>1. \A g \in Heartbeats : SameWork(beat[g], beat'[g]) \/ beat'[g].pc \notin Delivering
    BY <1>3, <1>4 DEF SameWork, Plain
  <2> QED BY <1>1, <1>2, <2>1, DeliveryStays DEF RoutineInv, StoreStep
<1>6. \A g \in Heartbeats : Frozen(occ, beat'[g])
  BY <1>3, <1>4 DEF RoutineInv, AgentInv, Frozen
<1>7. AgentInv'
  <2>1. CASE UNCHANGED agent
    BY <1>1, <1>6, <2>1 DEF RoutineInv, AgentInv
  <2>2. CASE agent' = [agent EXCEPT ![r] = [work |-> "working",
                                            envelope |-> beat[h].envelope]]
    <3> DEFINE s == [work |-> "working", envelope |-> beat[h].envelope]
    <3>1. s \in Submission
      BY <1>1 DEF Submission, Beat
    <3>2. s.envelope = occ[r].envelope /\ agent' = [agent EXCEPT ![r] = s]
      BY <1>1, <2>2
    <3> HIDE DEF s
    <3> QED BY <1>1, <1>6, <3>1, <3>2, AgentMoves DEF RoutineInv
  <2> QED BY <2>1, <2>2 DEF DispatchAgent
<1>8. DbInv(Tables)'
  BY <1>2 DEF StoreStep, Tables
<1> QED BY <1>1, <1>2, <1>4, <1>5, <1>7, <1>8 DEF RoutineStep, RoutineInv, StoreStep

LEMMA AgentEndsStep == \A r \in Runs : RoutineInv /\ AgentEnds(r) => RoutineStep
<1> SUFFICES ASSUME NEW r \in Runs, RoutineInv, AgentEnds(r) PROVE RoutineStep
  OBVIOUS
<1>1. /\ UNCHANGED <<routine, occ, beat, shown, controls>>
      /\ agent[r].work = "working" /\ agent[r] \in Submission
  BY DEF AgentEnds, RoutineInv, AgentInv
<1>2. StoreStep /\ NothingSucceeds
  BY <1>1, StoreRests DEF RoutineInv
<1>3. AgentInv'
  <2>1. PICK work \in {"succeeded", "no_op", "failed"} :
          agent' = [agent EXCEPT ![r].work = work]
    BY DEF AgentEnds
  <2> DEFINE s == [agent[r] EXCEPT !.work = work]
  <2>2. s \in Submission /\ s.envelope = agent[r].envelope
    BY <1>1 DEF Submission
  <2>3. agent' = [agent EXCEPT ![r] = s]
    BY <2>1 DEF RoutineInv, AgentInv
  <2> HIDE DEF s
  <2>4. occ[r].status \notin Early /\ s.envelope = occ[r].envelope
    BY <1>1, <2>2 DEF RoutineInv, AgentInv, None
  <2>5. \A h \in Heartbeats : Frozen(occ, beat'[h])
    BY <1>1 DEF RoutineInv, AgentInv
  <2> QED BY <1>1, <2>2, <2>3, <2>4, <2>5, AgentMoves DEF RoutineInv
<1>4. DeliveryInv'
  <2>1. \A h \in Heartbeats : SameWork(beat[h], beat'[h])
    BY <1>1 DEF SameWork
  <2> QED BY <1>1, <1>2, <2>1, DeliveryStays DEF RoutineInv, StoreStep
<1>5. DbInv(Tables)' /\ BeatsInv'
  BY <1>1, <1>2 DEF StoreStep, Tables, RoutineInv, BeatsInv
<1> QED BY <1>1, <1>2, <1>3, <1>4, <1>5 DEF RoutineStep, RoutineInv, StoreStep

(* A heartbeat goes on with what it carries.                               *)
LEMMA HeartbeatProceeds ==
    ASSUME RoutineInv, StoreStep, NothingSucceeds, NEW h \in Heartbeats,
           NEW pc \in {"read", "deliver", "finalize"}, Proceed(h, pc),
           pc = "finalize" => beat[h].outcome \in {"no_op"} \cup Classes,
           UNCHANGED <<agent, shown, controls>>
    PROVE  RoutineStep
<1> DEFINE b == [beat[h] EXCEPT !.pc = pc]
<1>1. beat[h] \in Beat
  BY DEF RoutineInv, BeatsInv
<1>2. b \in Beat /\ b.pc = pc /\ b.outcome = beat[h].outcome
  BY <1>1 DEF Beat
<1>3. BeatGoesTo(h, b)
  BY DEF Proceed
<1> HIDE DEF b
<1>4. Plain(b) /\ Frozen(occ', b)
  BY <1>2 DEF Plain, Carries, Delivering, Frozen
<1> QED BY <1>3, <1>4, HeartbeatMoves

LEMMA RecordAgentReceiptStep ==
    \A h \in Heartbeats, r \in Runs :
        RoutineInv /\ RecordAgentReceipt(h, r) => RoutineStep
<1> SUFFICES ASSUME NEW h \in Heartbeats, NEW r \in Runs, RoutineInv,
                    RecordAgentReceipt(h, r)
             PROVE  RoutineStep
  OBVIOUS
<1>1. /\ UNCHANGED <<routine, agent, shown, controls>>
      /\ beat[h].of = r /\ beat[h] \in Beat
  BY DEF RecordAgentReceipt, On, RoutineInv, BeatsInv
<1>2. DbInv(Tables) /\ occ \in [Runs -> Row]
  BY RoutineFacts
<1>3. CASE /\ occ[r].status = "running" /\ SameReceipt(h, r)
           /\ occ' = [occ EXCEPT ![r].receipt = beat[h].receipt]
           /\ Proceed(h, "read")
  <2> DEFINE row == [occ[r] EXCEPT !.receipt = beat[h].receipt]
  <2>1. /\ row \in Row /\ row.status = "running" /\ row.source = occ[r].source
        /\ row.class = occ[r].class /\ row.envelope = occ[r].envelope
        /\ row.receipt = beat[h].receipt /\ row.settlement = occ[r].settlement
        /\ row.delivery = occ[r].delivery
    BY <1>1, <1>2, <1>3 DEF Row, Beat
  <2>2. occ' = [occ EXCEPT ![r] = row]
    BY <1>2, <1>3
  <2> HIDE DEF row
  <2>3. RowStep(occ[r], row) /\ Tidy(row)
    BY <1>3, <2>1 DEF RowStep, Tidy, Early, Terminal, SameReceipt
  <2>4. StoreStep /\ NothingSucceeds
    <3>1. occ[r].status \in Active
      BY <1>3 DEF Active
    <3> QED BY <1>1, <1>2, <1>3, <2>1, <2>2, <2>3, <3>1, RowMoves
  <2> QED BY <1>1, <1>3, <2>4, HeartbeatProceeds
<1>4. CASE ThrowWith(h, "settle", "attributable") /\ UNCHANGED occ
  <2>1. "attributable" \in Outcomes
    BY DEF Classes, Outcomes
  <2>2. StoreStep /\ NothingSucceeds
    BY <1>1, <1>2, <1>4, StoreRests
  <2> QED BY <1>1, <1>4, <2>1, <2>2, HeartbeatThrows
<1> QED BY <1>3, <1>4 DEF RecordAgentReceipt

LEMMA ReadStep ==
    \A h \in Heartbeats, r \in Runs : RoutineInv /\ ReadAgent(h, r) => RoutineStep
<1> SUFFICES ASSUME NEW h \in Heartbeats, NEW r \in Runs, RoutineInv, ReadAgent(h, r)
             PROVE  RoutineStep
  OBVIOUS
<1>1. /\ StoreStep /\ NothingSucceeds /\ UNCHANGED <<agent, shown, controls>>
      /\ beat[h].of = r
  BY StoreRests DEF ReadAgent, RoutineInv, On
<1>2. CASE Stop(h)
  BY <1>1, <1>2, HeartbeatStops
<1>3. ASSUME NEW outcome \in Outcomes, ThrowWith(h, "settle", outcome)
      PROVE  RoutineStep
  BY <1>1, <1>3, HeartbeatThrows
<1>4. {"attributable", "access", "unknown", "succeeded", "no_op"} \subseteq Outcomes
  BY DEF Outcomes, Classes
<1>5. ASSUME NEW class \in {"attributable", "access"}, ThrowAfterTools(h, class)
      PROVE  RoutineStep
  BY <1>3, <1>4, <1>5 DEF ThrowAfterTools
<1> QED BY <1>2, <1>3, <1>4, <1>5 DEF ReadAgent

LEMMA RecordAgentSettlementStep ==
    \A h \in Heartbeats, r \in Runs :
        RoutineInv /\ RecordAgentSettlement(h, r) => RoutineStep
<1> SUFFICES ASSUME NEW h \in Heartbeats, NEW r \in Runs, RoutineInv,
                    RecordAgentSettlement(h, r)
             PROVE  RoutineStep
  OBVIOUS
<1>1. /\ UNCHANGED <<routine, agent, shown, controls>> /\ beat[h].outcome \in Outcomes
  BY DEF RecordAgentSettlement, On, BeatAt, RoutineInv, BeatsInv, Carries
<1>2. DbInv(Tables) /\ occ \in [Runs -> Row]
  BY RoutineFacts
<1>3. /\ FinalizeNext(beat[h].outcome) \in {"deliver", "finalize"}
      /\ FinalizeNext(beat[h].outcome) = "finalize" =>
            beat[h].outcome \in {"no_op"} \cup Classes
  BY <1>1 DEF FinalizeNext, Outcomes
<1>4. CASE UNCHANGED occ
  <2>1. StoreStep /\ NothingSucceeds
    BY <1>1, <1>2, <1>4, StoreRests
  <2>2. CASE Stop(h)
    BY <1>1, <2>1, <2>2, HeartbeatStops
  <2>3. CASE Proceed(h, FinalizeNext(beat[h].outcome))
    BY <1>1, <1>3, <2>1, <2>3, HeartbeatProceeds
  <2> QED BY <2>2, <2>3 DEF RecordAgentSettlement
<1>5. CASE /\ occ[r].status = "running" /\ occ[r].settlement = None
           /\ occ' = [occ EXCEPT ![r].settlement = beat[h].outcome]
           /\ Proceed(h, FinalizeNext(beat[h].outcome))
  <2> DEFINE row == [occ[r] EXCEPT !.settlement = beat[h].outcome]
  <2>1. /\ row \in Row /\ row.status = "running" /\ row.source = occ[r].source
        /\ row.class = occ[r].class /\ row.envelope = occ[r].envelope
        /\ row.receipt = occ[r].receipt /\ row.delivery = occ[r].delivery
    BY <1>1, <1>2, <1>5 DEF Row
  <2>2. occ' = [occ EXCEPT ![r] = row]
    BY <1>2, <1>5
  <2> HIDE DEF row
  <2>3. RowStep(occ[r], row) /\ Tidy(row)
    BY <1>5, <2>1 DEF RowStep, Tidy, Early, Terminal
  <2>4. StoreStep /\ NothingSucceeds
    <3>1. occ[r].status \in Active
      BY <1>5 DEF Active
    <3> QED BY <1>1, <1>2, <1>5, <2>1, <2>2, <2>3, <3>1, RowMoves
  <2> QED BY <1>1, <1>3, <1>5, <2>4, HeartbeatProceeds
<1> QED BY <1>4, <1>5 DEF RecordAgentSettlement

-----------------------------------------------------------------------------
(* finalizeSettlement and delivery                                         *)

LEMMA FinalizeStep ==
    \A h \in Heartbeats, r \in Runs : RoutineInv /\ Finalize(h, r) => RoutineStep
<1> SUFFICES ASSUME NEW h \in Heartbeats, NEW r \in Runs, RoutineInv, Finalize(h, r)
             PROVE  RoutineStep
  OBVIOUS
<1>1. /\ UNCHANGED <<agent, shown, controls>> /\ beat[h].of = r
      /\ beat[h].outcome \in {"no_op"} \cup Classes /\ DbInv(Tables)
  BY DEF Finalize, On, BeatAt, RoutineInv, BeatsInv, Carries
<1>2. CASE Write(TransitionRun(Tables, r, {"running"}, "no_op", None)) /\ Stop(h)
  <2> DEFINE new == TransitionRun(Tables, r, {"running"}, "no_op", None)
  <2>1. "no_op" \in Terminal \ {"succeeded"} /\ None \in {None} \cup Classes
          /\ None # "unknown"
    BY DEF Terminal, None
  <2>2. Reconciled(Tables, new) /\ Write(new)
    BY <1>1, <1>2, <2>1, RunFails
  <2> HIDE DEF new
  <2>3. StoreStep /\ NothingSucceeds
    BY <1>1, <2>2, StoreSettles DEF Reconciled
  <2> QED BY <1>1, <1>2, <2>3, HeartbeatStops
<1>3. CASE /\ beat[h].outcome # "no_op"
           /\ Write(TransitionRun(Tables, r, {"running"}, "failed", beat[h].outcome))
           /\ ThrowWith(h, "notice", None) \/ Stop(h)
  <2> DEFINE new == TransitionRun(Tables, r, {"running"}, "failed", beat[h].outcome)
  <2>1. "failed" \in Terminal \ {"succeeded"} /\ beat[h].outcome \in {None} \cup Classes
    BY <1>1, <1>3 DEF Terminal
  <2>2. Reconciled(Tables, new) /\ Write(new)
    BY <1>1, <1>3, <2>1, RunFails
  <2> HIDE DEF new
  <2>3. StoreStep /\ NothingSucceeds
    BY <1>1, <2>2, StoreSettles DEF Reconciled
  <2> QED BY <1>1, <1>3, <2>3, HeartbeatStops, HeartbeatThrows
<1> QED BY <1>2, <1>3 DEF Finalize

(* The holder of the delivery goes on; nobody else holds it.               *)
LEMMA HolderMoves ==
    ASSUME DeliveryInv, RowsStep, NothingSucceeds, NEW h \in Heartbeats, NEW r \in Runs,
           NEW b, Holds(b, r), beat'[h] = b,
           \A g \in Heartbeats : g # h => beat'[g] = beat[g] /\ ~Holds(beat[g], r),
           shown' \in [Runs -> [results : Nat, notices : Nat]],
           \A q \in Runs : q # r => shown'[q] = shown[q],
           HolderInv(occ'[r], shown'[r], b),
           shown'[r].results + shown'[r].notices <= 1,
           shown'[r] = shown[r] \/ occ'[r].status # "succeeded"
    PROVE  DeliveryInv'
<1>1. ASSUME NEW q \in Runs, NEW g \in Heartbeats, Holds(beat'[g], q)
      PROVE  /\ \/ g = h /\ q = r
                \/ g # h /\ q # r /\ Holds(beat[g], q)
             /\ HolderInv(occ'[q], shown'[q], beat'[g])
  <2>1. CASE g = h
    BY <1>1, <2>1 DEF Holds
  <2>2. CASE g # h
    <3>1. Holds(beat[g], q) /\ q # r /\ beat'[g] = beat[g]
      BY <1>1, <2>2
    <3>2. HolderInv(occ[q], shown[q], beat[g]) /\ RowStep(occ[q], occ'[q])
      BY <3>1 DEF DeliveryInv, RowsStep
    <3>3. shown'[q] = shown[q]
      BY <3>1
    <3>4. HolderInv(occ'[q], shown'[q], beat'[g])
      BY <3>1, <3>2, <3>3 DEF HolderInv, RowStep, None
    <3> QED BY <2>2, <3>1, <3>4
  <2> QED BY <2>1, <2>2
<1>2. \A q \in Runs, f, g \in Heartbeats :
          Holds(beat'[f], q) /\ Holds(beat'[g], q) => f = g
  BY <1>1 DEF DeliveryInv
<1>3. ASSUME NEW q \in Runs, occ'[q].delivery = None
      PROVE  shown'[q].results = 0 /\ shown'[q].notices = 0
  <2>1. q # r
    BY <1>3 DEF HolderInv
  <2> QED BY <1>3, <2>1 DEF DeliveryInv, RowsStep, RowStep
<1>4. ASSUME NEW q \in Runs
      PROVE  /\ shown'[q].results + shown'[q].notices <= 1
             /\ occ'[q].status = "succeeded" =>
                   occ'[q].delivery = "delivered" /\ shown'[q].results = 1
  <2>1. CASE shown'[q] = shown[q]
    BY <2>1 DEF DeliveryInv, OnePostAsRecorded, NothingSucceeds, RowsStep, RowStep, None
  <2>2. CASE q = r /\ occ'[r].status # "succeeded"
    BY <2>2
  <2> QED BY <2>1, <2>2
<1> QED BY <1>1, <1>2, <1>3, <1>4 DEF DeliveryInv, OnePostAsRecorded

(* One heartbeat moves as the holder of a delivery.                        *)
LEMMA HolderStep ==
    ASSUME RoutineInv, StoreStep, NothingSucceeds, NEW h \in Heartbeats,
           NEW b \in Beat, Carries(b), b.pc \in Delivering, BeatGoesTo(h, b),
           DeliveryInv', UNCHANGED <<agent, controls>>
    PROVE  RoutineStep
<1>1. BeatsInv' /\ beat'[h] = b /\ \A g \in Heartbeats : g # h => beat'[g] = beat[g]
  BY OneBeatMoves DEF RoutineInv
<1>2. AgentInv'
  <2>1. \A g \in Heartbeats : SameWork(beat[g], beat'[g]) \/ Frozen(occ', beat'[g])
    BY <1>1 DEF SameWork, Frozen, Delivering
  <2> QED BY <2>1, AgentStays DEF RoutineInv, StoreStep
<1>3. DbInv(Tables)'
  BY DEF StoreStep, Tables
<1> QED BY <1>1, <1>2, <1>3 DEF RoutineStep, RoutineInv, StoreStep

LEMMA ClaimDeliveryStep ==
    \A h \in Heartbeats, r \in Runs : RoutineInv /\ ClaimDelivery(h, r) => RoutineStep
<1> SUFFICES ASSUME NEW h \in Heartbeats, NEW r \in Runs, RoutineInv,
                    ClaimDelivery(h, r)
             PROVE  RoutineStep
  OBVIOUS
<1>1. UNCHANGED <<routine, agent, shown, controls>> /\ DbInv(Tables)
        /\ occ \in [Runs -> Row] /\ DeliveryInv /\ Tidy(occ[r])
  BY RoutineFacts DEF ClaimDelivery, RoutineInv, DbInv, Tables
<1>2. CASE Stop(h) /\ UNCHANGED occ
  <2>1. StoreStep /\ NothingSucceeds
    BY <1>1, <1>2, StoreRests
  <2> QED BY <1>1, <1>2, <2>1, HeartbeatStops
<1>3. ASSUME NEW pc \in {"post_result", "post_notice"}, MayClaimDelivery(r),
             occ' = [occ EXCEPT ![r].delivery = "leased", ![r].hold = DeliveryLease],
             BeatGoesTo(h, [Idle EXCEPT !.of = r, !.pc = pc])
      PROVE  RoutineStep
  <2> DEFINE row == [occ[r] EXCEPT !.delivery = "leased", !.hold = DeliveryLease]
             b == [Idle EXCEPT !.of = r, !.pc = pc]
  <2>0. occ[r].status \in {"running", "failed"} /\ occ[r].delivery = None
    BY <1>3 DEF MayClaimDelivery
  <2>1. /\ row \in Row /\ row.status = occ[r].status /\ row.source = occ[r].source
        /\ row.class = occ[r].class /\ row.envelope = occ[r].envelope
        /\ row.receipt = occ[r].receipt /\ row.settlement = occ[r].settlement
        /\ row.delivery = "leased"
    <3>1. DeliveryLease \in 0 .. DeliveryLease
      BY RoutineConstants
    <3>2. occ[r] \in Row
      BY <1>1
    <3>3. row \in Row
      BY <3>1, <3>2 DEF Row
    <3> QED BY <3>2, <3>3 DEF Row
  <2>2. occ' = [occ EXCEPT ![r] = row]
    BY <1>1, <1>3
  <2>3. b \in Beat /\ b.pc = pc /\ b.of = r /\ BeatGoesTo(h, b)
    <3>1. r \in 0 .. MaxRuns /\ 0 \in 0 .. MaxLag
      BY RoutineConstants DEF Runs
    <3> QED BY <1>3, <3>1 DEF Beat, Idle
  <2> HIDE DEF row, b
  <2>4. RowStep(occ[r], row) /\ Tidy(row)
    BY <2>0, <2>1 DEF RowStep, Tidy, Early, Terminal
  <2>5. StoreStep /\ NothingSucceeds
    BY <1>1, <2>1, <2>2, <2>4, RowMoves, <2>0
  <2>6. Carries(b) /\ b.pc \in Delivering /\ Holds(b, r)
    BY <2>3 DEF Carries, Delivering, Holds
  <2>7. beat'[h] = b /\ \A g \in Heartbeats : g # h => beat'[g] = beat[g]
    BY <2>3, <2>6, OneBeatMoves DEF RoutineInv
  <2>8. \A g \in Heartbeats : ~Holds(beat[g], r)
    BY <1>1, <2>0 DEF DeliveryInv, HolderInv
  <2>9. shown[r].results = 0 /\ shown[r].notices = 0
    BY <1>1, <2>0 DEF DeliveryInv
  <2>10. HolderInv(occ'[r], shown'[r], b)
    <3>1. occ'[r] = row /\ shown'[r] = shown[r]
      BY <1>1, <2>2
    <3> QED BY <2>1, <2>3, <2>9, <3>1 DEF HolderInv, None
  <2>11. DeliveryInv'
    <3>1. shown' \in [Runs -> [results : Nat, notices : Nat]] /\ RowsStep
            /\ (\A q \in Runs : q # r => shown'[q] = shown[q]) /\ shown'[r] = shown[r]
            /\ shown'[r].results + shown'[r].notices <= 1
      BY <1>1, <2>5, <2>9 DEF DeliveryInv, StoreStep
    <3> QED BY <1>1, <2>5, <2>6, <2>7, <2>8, <2>10, <3>1, HolderMoves
  <2> QED BY <1>1, <2>3, <2>5, <2>6, <2>11, HolderStep
<1> QED BY <1>2, <1>3 DEF ClaimDelivery

LEMMA PostMessageStep ==
    \A h \in Heartbeats, r \in Runs : RoutineInv /\ PostMessage(h, r) => RoutineStep
<1> SUFFICES ASSUME NEW h \in Heartbeats, NEW r \in Runs, RoutineInv, PostMessage(h, r)
             PROVE  RoutineStep
  OBVIOUS
<1>1. /\ UNCHANGED <<routine, occ, agent, controls>> /\ beat[h] \in Beat
      /\ beat[h].of = r /\ beat[h].pc \in {"post_result", "post_notice"}
      /\ DeliveryInv
  BY DEF PostMessage, On, BeatAt, RoutineInv, BeatsInv
<1>2. StoreStep /\ NothingSucceeds
  BY <1>1, StoreRests DEF RoutineInv
<1>3. PICK outcome \in {"delivered", "unknown", "failed"} :
        /\ \/ outcome \in {"delivered", "unknown"} /\ Appears(h, r)
           \/ outcome \in {"unknown", "failed"} /\ UNCHANGED shown
        /\ BeatGoesTo(h, [beat[h] EXCEPT
                      !.pc = IF @ = "post_result" THEN "record_result"
                                                  ELSE "record_notice",
                      !.outcome = outcome])
  BY DEF PostMessage
<1> DEFINE pc == IF beat[h].pc = "post_result" THEN "record_result" ELSE "record_notice"
           b == [beat[h] EXCEPT !.pc = pc, !.outcome = outcome]
<1>4. pc \in {"record_result", "record_notice"}
  OBVIOUS
<1>5. b \in Beat /\ b.pc = pc /\ b.of = r /\ b.outcome = outcome
  <2> HIDE DEF pc
  <2>1. outcome \in {None} \cup Outcomes \cup {"delivered", "unknown", "failed"}
    OBVIOUS
  <2> QED BY <1>1, <1>4, <2>1 DEF Beat
<1>6. BeatGoesTo(h, b)
  BY <1>1, <1>3
<1>7. pc = "record_result" => beat[h].pc = "post_result"
  OBVIOUS
<1> HIDE DEF pc, b
<1>8. Carries(b) /\ b.pc \in Delivering /\ Holds(b, r) /\ Holds(beat[h], r)
  BY <1>1, <1>4, <1>5 DEF Carries, Delivering, Holds
<1>9. beat'[h] = b /\ \A g \in Heartbeats : g # h => beat'[g] = beat[g]
  BY <1>5, <1>6, <1>8, OneBeatMoves DEF RoutineInv
<1>10. \A g \in Heartbeats : g # h => ~Holds(beat[g], r)
  BY <1>1, <1>8 DEF DeliveryInv
<1>11. HolderInv(occ[r], shown[r], beat[h]) /\ shown[r] \in [results : Nat, notices : Nat]
  BY <1>1, <1>8 DEF DeliveryInv
<1>12. shown[r].results = 0 /\ shown[r].notices = 0 /\ occ[r].delivery # None
         /\ occ[r].status # "succeeded"
  BY <1>1, <1>11 DEF HolderInv, DeliveryInv, OnePostAsRecorded
<1>13. /\ shown' \in [Runs -> [results : Nat, notices : Nat]]
       /\ \A q \in Runs : q # r => shown'[q] = shown[q]
       /\ shown'[r].results + shown'[r].notices <= 1
       /\ pc = "record_result" /\ outcome = "delivered" => shown'[r].results = 1
  <2>1. shown \in [Runs -> [results : Nat, notices : Nat]]
    BY <1>1 DEF DeliveryInv
  <2>2. CASE UNCHANGED shown /\ outcome # "delivered"
    BY <1>12, <2>1, <2>2
  <2>3. CASE beat[h].pc = "post_result" /\ shown' = [shown EXCEPT ![r].results = @ + 1]
    BY <1>11, <1>12, <2>1, <2>3
  <2>4. CASE beat[h].pc # "post_result" /\ shown' = [shown EXCEPT ![r].notices = @ + 1]
    BY <1>7, <1>11, <1>12, <2>1, <2>4
  <2> QED BY <1>3, <2>2, <2>3, <2>4 DEF Appears, BeatAt
<1>14. HolderInv(occ'[r], shown'[r], b)
  BY <1>1, <1>4, <1>5, <1>12, <1>13 DEF HolderInv
<1>15. DeliveryInv'
  <2>1. RowsStep /\ occ'[r].status # "succeeded"
    BY <1>1, <1>2, <1>12 DEF StoreStep
  <2> QED BY <1>1, <1>2, <1>8, <1>9, <1>10, <1>13, <1>14, <2>1, HolderMoves
<1> QED BY <1>1, <1>2, <1>5, <1>6, <1>8, <1>15, HolderStep

LEMMA RecordDeliveryOutcomeStep ==
    \A h \in Heartbeats, r \in Runs :
        RoutineInv /\ RecordDeliveryOutcome(h, r) => RoutineStep
<1> SUFFICES ASSUME NEW h \in Heartbeats, NEW r \in Runs, RoutineInv,
                    RecordDeliveryOutcome(h, r)
             PROVE  RoutineStep
  OBVIOUS
<1>1. /\ UNCHANGED <<agent, shown, controls>> /\ beat[h] \in Beat /\ beat[h].of = r
      /\ beat[h].pc \in {"record_result", "record_notice"} /\ DeliveryInv /\ DbInv(Tables)
      /\ beat[h].outcome \in {"delivered", "unknown", "failed"}
  BY DEF RecordDeliveryOutcome, On, BeatAt, RoutineInv, BeatsInv, Carries
<1>2. CASE ~DeliveryIsHeld(Tables, r)
  <2>1. UNCHANGED <<routine, occ>> /\ Stop(h)
    BY <1>2 DEF RecordDeliveryOutcome
  <2>2. StoreStep /\ NothingSucceeds
    BY <1>1, <2>1, StoreRests
  <2> QED BY <1>1, <2>1, <2>2, HeartbeatStops
<1>3. CASE DeliveryIsHeld(Tables, r)
  <2> DEFINE new == RecordDelivery(Tables, r, beat[h].outcome)
  <2>1. DbInv(new) /\ Settled(Tables, new) /\ NoneSucceeds(Tables, new) /\ Write(new)
          /\ new.run[r].delivery = beat[h].outcome
    <3>1. Tables.run[r].delivery = "leased"
      BY <1>3 DEF DeliveryIsHeld
    <3> QED BY <1>1, <1>3, <3>1, DeliveryIsRecorded DEF RecordDeliveryOutcome
  <2> HIDE DEF new
  <2>2. StoreStep /\ NothingSucceeds
    BY <1>1, <2>1, StoreSettles
  <2>3. CASE Stop(h)
    BY <1>1, <2>2, <2>3, HeartbeatStops
  <2>4. CASE beat[h].outcome = "delivered" /\ beat[h].pc = "record_result"
             /\ Proceed(h, "close")
    <3> DEFINE b == [beat[h] EXCEPT !.pc = "close"]
    <3>1. b \in Beat /\ b.pc = "close" /\ b.of = r /\ BeatGoesTo(h, b)
      BY <1>1, <2>4 DEF Beat, Proceed
    <3> HIDE DEF b
    <3>2. Carries(b) /\ b.pc \in Delivering /\ Holds(b, r) /\ Holds(beat[h], r)
      BY <1>1, <3>1 DEF Carries, Delivering, Holds
    <3>3. beat'[h] = b /\ \A g \in Heartbeats : g # h => beat'[g] = beat[g]
      BY <3>1, <3>2, OneBeatMoves DEF RoutineInv
    <3>4. \A g \in Heartbeats : g # h => ~Holds(beat[g], r)
      BY <1>1, <3>2 DEF DeliveryInv
    <3>5. HolderInv(occ[r], shown[r], beat[h])
      BY <1>1, <3>2 DEF DeliveryInv
    <3>6. HolderInv(occ'[r], shown'[r], b)
      <4>1. occ'[r].delivery = "delivered" /\ shown'[r] = shown[r]
        BY <1>1, <2>1, <2>4 DEF Write
      <4>2. shown[r].results = 1
        BY <2>4, <3>5 DEF HolderInv
      <4> QED BY <3>1, <4>1, <4>2 DEF HolderInv, None
    <3>7. /\ shown' \in [Runs -> [results : Nat, notices : Nat]]
          /\ \A q \in Runs : q # r => shown'[q] = shown[q]
          /\ shown'[r].results + shown'[r].notices <= 1 /\ shown'[r] = shown[r]
          /\ RowsStep
      BY <1>1, <2>2 DEF DeliveryInv, OnePostAsRecorded, StoreStep
    <3>8. DeliveryInv'
      BY <1>1, <2>2, <3>2, <3>3, <3>4, <3>6, <3>7, HolderMoves
    <3> QED BY <1>1, <2>2, <3>1, <3>2, <3>8, HolderStep
  <2> QED BY <1>3, <2>3, <2>4 DEF RecordDeliveryOutcome, BeatAt
<1> QED BY <1>2, <1>3

LEMMA CloseStep ==
    \A h \in Heartbeats, r \in Runs : RoutineInv /\ Close(h, r) => RoutineStep
<1> SUFFICES ASSUME NEW h \in Heartbeats, NEW r \in Runs, RoutineInv, Close(h, r)
             PROVE  RoutineStep
  OBVIOUS
<1>1. /\ UNCHANGED <<agent, shown, controls>> /\ Stop(h)
      /\ Holds(beat[h], r) /\ beat[h].pc = "close" /\ DeliveryInv /\ DbInv(Tables)
  BY DEF Close, On, BeatAt, RoutineInv, Holds, Delivering
<1>2. occ[r].delivery = "delivered" /\ shown[r].results = 1
  BY <1>1 DEF DeliveryInv, HolderInv
<1> DEFINE new == TransitionRun(Tables, r, {"running"}, "succeeded", None)
<1>3. /\ DbInv(new) /\ Settled(Tables, new)
      /\ \A q \in Runs : q # r => new.run[q] = Tables.run[q]
  <2>1. "succeeded" \in Terminal /\ None \in {None} \cup Classes /\ None # "unknown"
    BY DEF Terminal, None
  <2> QED BY <1>1, <2>1, RunTransitions
<1>4. Write(new)
  BY DEF Close
<1> HIDE DEF new
<1>5. StoreStep /\ \A q \in Runs : q # r => occ'[q] = occ[q]
  BY <1>1, <1>3, <1>4, StoreSettles DEF Write, Tables
<1>6. BeatsInv' /\ beat'[h] = Idle /\ \A g \in Heartbeats : g # h => beat'[g] = beat[g]
  BY <1>1, IdleIsPlain, OneBeatMoves DEF Plain, RoutineInv, Stop
<1>7. AgentInv'
  <2>1. \A g \in Heartbeats : SameWork(beat[g], beat'[g]) \/ Frozen(occ', beat'[g])
    BY <1>6, IdleIsPlain DEF SameWork
  <2> QED BY <1>1, <1>5, <2>1, AgentStays DEF RoutineInv, StoreStep
<1>8. RowsStep
  BY <1>5 DEF StoreStep
<1>9. DeliveryInv'
  <2>1. ASSUME NEW q \in Runs, NEW g \in Heartbeats, Holds(beat'[g], q)
        PROVE  /\ Holds(beat[g], q)
               /\ HolderInv(occ'[q], shown'[q], beat'[g])
    <3>1. g # h
      BY <1>6, <2>1 DEF Holds, Delivering, Idle
    <3>2. Holds(beat[g], q) /\ beat'[g] = beat[g]
      BY <1>6, <2>1, <3>1
    <3>3. HolderInv(occ[q], shown[q], beat[g]) /\ RowStep(occ[q], occ'[q])
      BY <1>1, <1>8, <3>2 DEF DeliveryInv, RowsStep
    <3>4. shown'[q] = shown[q]
      BY <1>1
    <3>5. HolderInv(occ'[q], shown'[q], beat'[g])
      BY <3>2, <3>3, <3>4 DEF HolderInv, RowStep, None
    <3> QED BY <3>2, <3>5
  <2>2. ASSUME NEW q \in Runs
        PROVE  /\ shown'[q].results + shown'[q].notices <= 1
               /\ occ'[q].status = "succeeded" =>
                     occ'[q].delivery = "delivered" /\ shown'[q].results = 1
    <3>1. shown[q].results + shown[q].notices <= 1 /\ shown'[q] = shown[q]
      BY <1>1 DEF DeliveryInv, OnePostAsRecorded
    <3>2. CASE q = r
      <4>1. occ'[r].delivery = "delivered"
        BY <1>2, <1>8 DEF RowsStep, RowStep, None
      <4> QED BY <1>2, <3>1, <3>2, <4>1
    <3>3. CASE q # r
      BY <1>1, <1>5, <3>1, <3>3 DEF DeliveryInv, OnePostAsRecorded
    <3> QED BY <3>2, <3>3
  <2>3. ASSUME NEW q \in Runs, occ'[q].delivery = None
        PROVE  shown'[q].results = 0 /\ shown'[q].notices = 0
    BY <1>1, <1>8, <2>3 DEF DeliveryInv, RowsStep, RowStep
  <2>4. \A q \in Runs, f, g \in Heartbeats :
           Holds(beat'[f], q) /\ Holds(beat'[g], q) => f = g
    BY <1>1, <2>1 DEF DeliveryInv
  <2>5. shown' \in [Runs -> [results : Nat, notices : Nat]]
    BY <1>1 DEF DeliveryInv
  <2> QED BY <2>1, <2>2, <2>3, <2>4, <2>5 DEF DeliveryInv, OnePostAsRecorded
<1>10. DbInv(Tables)'
  BY <1>5 DEF StoreStep, Tables
<1> QED BY <1>1, <1>5, <1>6, <1>7, <1>9, <1>10 DEF RoutineStep, RoutineInv, StoreStep

LEMMA CrashStep == \A h \in Heartbeats : RoutineInv /\ BeatCrashes(h) => RoutineStep
<1> SUFFICES ASSUME NEW h \in Heartbeats, RoutineInv, BeatCrashes(h) PROVE RoutineStep
  OBVIOUS
<1>1. StoreStep /\ NothingSucceeds
  BY StoreRests DEF BeatCrashes, RoutineInv
<1> QED BY <1>1, HeartbeatStops DEF BeatCrashes

-----------------------------------------------------------------------------
(* The theorems                                                            *)

LEMMA RoutineStuttersOrSteps ==
    ASSUME RoutineInv, [RoutineNext]_routineVars
    PROVE  RoutineStep
<1>1. CASE UNCHANGED routineVars
  <2>1. StoreStep /\ NothingSucceeds
    BY <1>1, StoreRests DEF routineVars, RoutineInv
  <2>2. /\ UNCHANGED <<agent, shown>> /\ controls' \in 0 .. MaxControls
        /\ BeatsInv' /\ \A h \in Heartbeats : SameWork(beat[h], beat'[h])
    BY <1>1 DEF routineVars, RoutineInv, BeatsInv, SameWork
  <2> QED BY <2>1, <2>2, NoHeartbeatMoves
<1>2. ASSUME NEW h \in Heartbeats, Finds(h) PROVE RoutineStep
  BY <1>2, StartStep, ClaimDueSchedulesStep, ListRunsStep, SkipExpiredStep,
     StartAdmissionAttemptStep DEF Finds
<1>3. ASSUME NEW h \in Heartbeats, Executes(h) PROVE RoutineStep
  <2>1. PICK r \in Runs :
          \/ PrepareRoutine(h, r) \/ PrepareAgentDispatch(h, r)
          \/ FailUnsettledRun(h, r) \/ DispatchAgent(h, r) \/ RecordAgentReceipt(h, r)
          \/ ReadAgent(h, r) \/ RecordAgentSettlement(h, r) \/ Finalize(h, r)
          \/ ClaimDelivery(h, r) \/ PostMessage(h, r) \/ RecordDeliveryOutcome(h, r)
          \/ Close(h, r)
    BY <1>3 DEF Executes
  <2> QED BY <2>1, PrepareStep, PrepareAgentDispatchStep, FailUnsettledRunStep,
             DispatchStep, RecordAgentReceiptStep, ReadStep, RecordAgentSettlementStep,
             FinalizeStep, ClaimDeliveryStep, PostMessageStep,
             RecordDeliveryOutcomeStep, CloseStep
<1>4. CASE Controls
  BY <1>4, PauseStep, DisableStep, ResumeStep, EditStep, DeleteStep, RunNowStep
     DEF Controls
<1>5. CASE Tick
  BY <1>5, TickStep
<1>6. ASSUME NEW h \in Heartbeats, BeatCrashes(h) PROVE RoutineStep
  BY <1>6, CrashStep
<1>7. ASSUME NEW r \in Runs, AgentEnds(r) PROVE RoutineStep
  BY <1>7, AgentEndsStep
<1> QED BY <1>1, <1>2, <1>3, <1>4, <1>5, <1>6, <1>7 DEF RoutineNext

LEMMA RoutineInvHolds == RoutineSpec => []RoutineInv
<1>1. RoutineInv /\ [RoutineNext]_routineVars => RoutineInv'
  BY RoutineStuttersOrSteps DEF RoutineStep
<1> QED BY <1>1, RoutineInitInv, PTL DEF RoutineSpec

(* Every row, heartbeat and counter keeps its shape and its bounds,        *)
(* whatever is late, lost or overtaken.                                    *)
THEOREM RoutineTypes == RoutineSpec => []RoutineTypeOK
<1>1. RoutineInv => RoutineTypeOK
  <2> SUFFICES ASSUME RoutineInv PROVE RoutineTypeOK
    OBVIOUS
  <2>1. agent \in [Runs -> [work : {None, "working", "failed", "succeeded", "no_op"},
                             envelope : {None} \cup Prompts]]
    BY DEF RoutineInv, AgentInv, Submission
  <2> QED BY <2>1, RoutineFacts DEF RoutineTypeOK, RoutineInv, BeatsInv, DeliveryInv
<1> QED BY <1>1, RoutineInvHolds, PTL

(* However many heartbeats execute one occurrence, wherever they are cut   *)
(* off and whatever Slack leaves unanswered, the channel sees one message  *)
(* of it at most, and 'succeeded' is said of a result that was delivered.  *)
THEOREM OneMessagePerOccurrence == RoutineSpec => []OnePostAsRecorded
<1>1. RoutineInv => OnePostAsRecorded
  BY DEF RoutineInv, DeliveryInv
<1> QED BY <1>1, RoutineInvHolds, PTL

(* No heartbeat rewrites what another saved, and the agent is given what   *)
(* was frozen.                                                             *)
THEOREM CheckpointsAreKept == RoutineSpec => CheckpointsStay
<1> DEFINE Kept1 == \A r \in Runs :
         /\ SetOnce(r, "envelope") /\ SetOnce(r, "receipt")
         /\ SetOnce(r, "settlement")
         /\ occ[r].delivery \notin {None, "leased"} =>
              occ'[r].delivery = occ[r].delivery
         /\ occ[r].status \in Terminal => occ'[r].status = occ[r].status
         /\ agent'[r].work # None => agent'[r].envelope = occ'[r].envelope
<1>1. RoutineInv /\ [RoutineNext]_routineVars => Kept1
  <2> SUFFICES ASSUME RoutineInv, [RoutineNext]_routineVars, NEW r \in Runs
               PROVE  /\ SetOnce(r, "envelope") /\ SetOnce(r, "receipt")
                      /\ SetOnce(r, "settlement")
                      /\ occ[r].delivery \notin {None, "leased"} =>
                            occ'[r].delivery = occ[r].delivery
                      /\ occ[r].status \in Terminal => occ'[r].status = occ[r].status
                      /\ agent'[r].work # None => agent'[r].envelope = occ'[r].envelope
    OBVIOUS
  <2>1. RowStep(occ[r], occ'[r]) /\ RoutineInv'
    BY RoutineStuttersOrSteps DEF RoutineStep, RowsStep
  <2>2. agent'[r].work # None => agent'[r].envelope = occ'[r].envelope
    BY <2>1 DEF RoutineInv, AgentInv
  <2> QED BY <2>1, <2>2 DEF RowStep, SetOnce
<1>2. RoutineInv /\ [RoutineNext]_routineVars => [Kept1]_routineVars
  BY <1>1
<1> HIDE DEF Kept1
<1>3. RoutineSpec => [][Kept1]_routineVars
  BY <1>2, RoutineInvHolds, PTL DEF RoutineSpec
<1> QED BY <1>3 DEF CheckpointsStay, Kept1

(* What a member stopped, deleted or replaced begins nothing more, however *)
(* late the heartbeat that admitted it.                                    *)
THEOREM StoppedScheduleRests == RoutineSpec => StoppedStartsNothing
<1> DEFINE Rests == \A r \in Runs :
         (occ[r].status # "running" /\ occ'[r].status = "running"
            /\ occ[r].source # "run_now") =>
           routine.state = "active" /\ ~routine.deleted
<1>1. RoutineInv /\ [RoutineNext]_routineVars => [Rests]_routineVars
  BY RoutineStuttersOrSteps DEF RoutineStep, StartsActive, RoutineStops
<1> HIDE DEF Rests
<1>2. RoutineSpec => [][Rests]_routineVars
  BY <1>1, RoutineInvHolds, PTL DEF RoutineSpec
<1> QED BY <1>2 DEF StoppedStartsNothing, Rests

(* A full streak of failures, an occurrence whose effects nobody knows, or *)
(* a delivery nobody answered for, leaves no schedule that goes on by      *)
(* itself.                                                                 *)
THEOREM FailuresStop == RoutineSpec => FailureStopsSchedule
<1> DEFINE Stops ==
         (\/ routine'.failures = MaxFailures
          \/ \E r \in Runs : occ[r].class # "unknown" /\ occ'[r].class = "unknown"
          \/ \E r \in Runs, h \in Heartbeats :
                Start(h) /\ occ[r].delivery # "unknown" /\ occ'[r].delivery = "unknown")
           => RoutineStops(routine')
<1>1. RoutineInv /\ [RoutineNext]_routineVars => [Stops]_routineVars
  <2> SUFFICES ASSUME RoutineInv, [RoutineNext]_routineVars PROVE Stops
    OBVIOUS
  <2>1. UnknownStops /\ StreakInv(routine')
    BY RoutineStuttersOrSteps DEF RoutineStep, RoutineInv, DbInv, Tables
  <2>2. ASSUME NEW h \in Heartbeats, Start(h), NEW r \in Runs,
               occ[r].delivery # "unknown", occ'[r].delivery = "unknown"
        PROVE  RoutineStops(routine')
    <3> DEFINE new == CleanupRetention(Tables)
    <3>1. Write(new) /\ LapsesStop(Tables, new)
      BY <2>2, CleanupReconciles DEF RoutineInv, Start, Reconciled
    <3> HIDE DEF new
    <3> QED BY <2>2, <3>1 DEF Write, LapsesStop, Tables
  <2> QED BY <2>1, <2>2 DEF UnknownStops, StreakInv, RoutineStops
<1> HIDE DEF Stops
<1>2. RoutineSpec => [][Stops]_routineVars
  BY <1>1, RoutineInvHolds, PTL DEF RoutineSpec
<1> QED BY <1>2 DEF FailureStopsSchedule, Stops
=============================================================================
