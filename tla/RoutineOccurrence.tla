--------------------------- MODULE RoutineOccurrence ---------------------------
(***************************************************************************)
(* One scheduled routine, from a due slot to its terminal occurrence: the  *)
(* definition, its occurrences, the heartbeats that claim, admit and       *)
(* execute them, the agent, and the channel's messages.                    *)
(*                                                                         *)
(* A heartbeat starts every minute whether or not the last one has ended,  *)
(* so several execute one occurrence.  Each store method is one step; the  *)
(* Slack and agent calls between them are steps of their own, and a        *)
(* heartbeat may stop between any two.                                     *)
(*                                                                         *)
(* Times are distances from now, negative once past: a Tick lowers all.    *)
(***************************************************************************)
EXTENDS Integers

CONSTANTS
    Heartbeats,      \* heartbeats that overlap
    MaxRuns,         \* bound: occurrences that are not skipped
    MaxControls,     \* bound: member actions on the definition
    Prompts,         \* what a prompt may say, with the memory and history of then
    Faults,          \* what may go wrong in this instance
    Period,          \* distance between two slots
    Ahead,           \* distances at which a new schedule may begin
    Grace,           \* ROUTINE_LIMITS.admissionGraceMs
    AdmissionLease,  \* ROUTINE_LIMITS.admissionLeaseMs
    DeliveryLease,   \* ROUTINE_LIMITS.deliveryLeaseMs
    MaxLag,          \* bound: how late a heartbeat gets to its candidate
    MaxFailures      \* attributable failures that pause a routine

ASSUME RoutineBounds ==
    /\ {MaxRuns, Period, Grace, AdmissionLease, DeliveryLease, MaxFailures}
         \subseteq Nat \ {0}
    /\ {MaxControls, MaxLag} \subseteq Nat
ASSUME RoutineSaturation ==
    MaxLag <= Period /\ MaxLag <= Grace /\ DeliveryLease <= Grace
ASSUME RoutineAhead == Ahead \subseteq 1 .. Period /\ Ahead # {}
ASSUME RoutineFaults ==
    Faults \subseteq {"crash", "access", "agent", "slack", "schedule"}

VARIABLES
    routine,    \* the routines row
    occ,        \* the routine_runs rows, with their one admission
    beat,       \* [Heartbeats -> what a heartbeat is doing]
    agent,      \* [Runs -> the submission under the occurrence's key]
    shown,      \* [Runs -> what Slack shows of it]
    controls    \* member actions so far

routineVars == <<routine, occ, beat, agent, shown, controls>>

Runs == 1 .. MaxRuns
None == "none"
NotDue == Period + 1     \* next_run_at IS NULL

Active == {"queued", "admitting", "running"}
Terminal == {"succeeded", "no_op", "failed", "skipped", "cancelled",
             "superseded"}
Sources == {"schedule", "once", "run_now"}

(* Failure classes, by what applyRoutineOutcome does with them.            *)
Classes == {"access", "attributable", "unknown", "other"}

(* A settlement is the outcome of the agent's work or a failure class.     *)
Outcomes == {"succeeded", "no_op"} \cup Classes

Row == [status : {"absent"} \cup Active \cup Terminal, source : Sources,
        left : -(Grace + 1) .. Grace,
        lease : -MaxLag .. AdmissionLease,
        envelope : {None} \cup Prompts,
        receipt : {None, "accepted", "deduplicated"},
        settlement : {None} \cup Outcomes, class : {None} \cup Classes,
        delivery : {None, "leased", "delivered", "unknown", "failed"},
        hold : 0 .. DeliveryLease]

NewRow == [status |-> "absent", source |-> "schedule", left |-> 0, lease |-> 0,
           envelope |-> None, receipt |-> None, settlement |-> None,
           class |-> None, delivery |-> None, hold |-> 0]

Routine == [kind : {"schedule", "once"},
            state : {"active", "paused", "disabled", "completed"},
            next : -(Period + Grace + MaxLag) .. NotDue, failures : 0 .. MaxFailures,
            deleted : BOOLEAN]

(* A heartbeat: its step, how far its own clock is behind, the occurrence  *)
(* it works on, and what it has read, made or got so far.                  *)
Beat == [pc : {"idle", "claim", "list", "queued", "load", "freeze",
               "fail", "dispatch", "receipt", "read", "settle", "finalize",
               "deliver", "notice", "post_result", "post_notice",
               "record_result", "record_notice", "close"},
         lag : 0 .. MaxLag, of : 0 .. MaxRuns,
         envelope : {None} \cup Prompts, prompt : {None} \cup Prompts,
         receipt : {None, "accepted", "deduplicated"},
         outcome : {None} \cup Outcomes \cup {"delivered", "unknown", "failed"}]

Idle == [pc |-> "idle", lag |-> 0, of |-> 0, envelope |-> None,
         prompt |-> None, receipt |-> None, outcome |-> None]

(* The database: what one store method reads and writes.                   *)
Tables == [routine |-> routine, run |-> occ]
Write(db) == routine' = db.routine /\ occ' = db.run

ActiveIn(db) == {r \in Runs : db.run[r].status \in Active}

-----------------------------------------------------------------------------
(* What a terminal occurrence does to its routine                          *)

Complete(db) ==
    IF db.routine.deleted \/ db.routine.kind # "once" THEN db
    ELSE [db EXCEPT !.routine.state = "completed", !.routine.next = NotDue]

(* Mutant: the streak pauses one failure late.                             *)
CountFailureLate(db) ==
    LET n == db.routine.failures + 1 IN
    [db EXCEPT !.routine.failures = IF n < MaxFailures THEN n ELSE MaxFailures,
               !.routine.state = IF n > MaxFailures THEN "paused" ELSE @]

CountFailure(db) ==
    LET n == db.routine.failures + 1 IN
    [db EXCEPT !.routine.failures = IF n < MaxFailures THEN n ELSE MaxFailures,
               !.routine.state = IF n >= MaxFailures THEN "paused" ELSE @]

(* Mutant: an unknown outcome is one more failure.                         *)
PauseForUnknownOutcomeOnStreak(db) == IF db.routine.deleted THEN db ELSE CountFailure(db)

PauseForUnknownOutcome(db) ==
    IF db.routine.deleted \/ db.routine.state = "disabled" THEN db
    ELSE [db EXCEPT !.routine.state = "paused"]

ApplyRoutineOutcome(db, r, status, class) ==
    CASE db.routine.deleted -> db
      [] ~db.routine.deleted /\ db.run[r].source = "once"
           /\ db.routine.kind = "once" -> Complete(db)
      [] OTHER ->
           CASE status \in {"succeeded", "no_op"} ->
                  [db EXCEPT !.routine.failures = 0]
             [] status = "failed" /\ class = "access" ->
                  [db EXCEPT !.routine.state = "disabled"]
             [] status = "failed" /\ class = "unknown" ->
                  PauseForUnknownOutcome(db)
             [] status = "failed" /\ class = "attributable" -> CountFailure(db)
             [] OTHER -> db

ValidTransition(from, to) ==
    \/ from = "queued" /\ to \in {"admitting", "skipped", "cancelled"}
    \/ from = "admitting" /\ to \in {"running", "failed", "superseded", "cancelled"}
    \/ from = "running" /\ to \in {"succeeded", "no_op", "failed"}

(* transitionRun throws unless the row is in `from` or already in `to`.    *)
MayTransition(db, r, from, to) ==
    \/ db.run[r].status = to
    \/ db.run[r].status \in from /\ ValidTransition(db.run[r].status, to)

(* Nobody asks for the deadline of a row that has ended.                   *)
Ended(row, status) ==
    [row EXCEPT !.status = status, !.lease = 0, !.left = 0]

(* Mutant: the status is written where the failure class goes.             *)
TransitionRunSwapped(db, r, from, to, class) ==
    IF db.run[r].status = to \/ ~MayTransition(db, r, from, to) THEN db
    ELSE ApplyRoutineOutcome(
           [db EXCEPT !.run[r] = [Ended(@, to) EXCEPT !.class = to]],
           r, to, class)

TransitionRun(db, r, from, to, class) ==
    IF db.run[r].status = to \/ ~MayTransition(db, r, from, to) THEN db
    ELSE ApplyRoutineOutcome(
           [db EXCEPT !.run[r] = [Ended(@, to) EXCEPT !.class = class]],
           r, to, class)

(* recordDelivery throws unless the delivery is leased.                    *)
DeliveryIsHeld(db, r) ==
    db.run[r].status \in {"running", "failed"} /\ db.run[r].delivery = "leased"

RecordDelivery(db, r, outcome) ==
    [db EXCEPT !.run[r].delivery = outcome, !.run[r].hold = 0]

-----------------------------------------------------------------------------
(* cleanupRetention: delivery leases, then deadlines                       *)

ReconcileDelivery(db, r) ==
    IF ~(db.run[r].delivery = "leased" /\ db.run[r].hold = 0) THEN db
    ELSE LET recorded == RecordDelivery(db, r, "unknown") IN
         IF db.run[r].status = "running"
         THEN TransitionRun(recorded, r, {"running"}, "failed", "unknown")
         ELSE PauseForUnknownOutcome(recorded)

(* Mutant: running occurrences are left to the heartbeats.                 *)
ReconcileDeadlineUnlessRunning(db, r) ==
    LET row == db.run[r] IN
    CASE row.status = "queued" /\ row.left < 0 ->
           TransitionRun(db, r, {"queued"}, "skipped", "other")
      [] row.status = "admitting" /\ row.left + Grace < 0 /\ row.lease <= 0 ->
           TransitionRun(db, r, {"admitting"}, "failed", "other")
      [] OTHER -> db

ReconcileDeadline(db, r) ==
    LET row == db.run[r] IN
    CASE row.status = "queued" /\ row.left < 0 ->
           TransitionRun(db, r, {"queued"}, "skipped", "other")
      [] row.status = "admitting" /\ row.left + Grace < 0 /\ row.lease <= 0 ->
           TransitionRun(db, r, {"admitting"}, "failed", "other")
      [] row.status = "running" /\ row.left + DeliveryLease < 0 ->
           TransitionRun(db, r, {"running"}, "failed", "unknown")
      [] OTHER -> db

(* One after the other: every delivery lease, then every deadline.         *)
Reconcile(db, n) ==
    IF n <= MaxRuns THEN ReconcileDelivery(db, n)
                    ELSE ReconcileDeadline(db, n - MaxRuns)

CleanupRetention(db) ==
    LET done[n \in 0 .. 2 * MaxRuns] ==
            IF n = 0 THEN db ELSE Reconcile(done[n - 1], n)
    IN  done[2 * MaxRuns]

-----------------------------------------------------------------------------
(* The definition                                                          *)

RoutineInit ==
    /\ \E kind \in {"schedule", "once"}, next \in Ahead :
         routine = [kind |-> kind, state |-> "active", next |-> next,
                    failures |-> 0, deleted |-> FALSE]
    /\ occ = [r \in Runs |-> NewRow]
    /\ beat = [h \in Heartbeats |-> Idle]
    /\ agent = [r \in Runs |-> [work |-> None, envelope |-> None]]
    /\ shown = [r \in Runs |-> [results |-> 0, notices |-> 0]]
    /\ controls = 0

Control ==
    /\ ~routine.deleted /\ controls < MaxControls
    /\ controls' = controls + 1
    /\ UNCHANGED <<beat, agent, shown>>

CancelQueuedScheduledOccurrences(rows) ==
    [r \in Runs |->
        IF rows[r].status = "queued" /\ rows[r].source \in {"schedule", "once"}
        THEN Ended(rows[r], "cancelled") ELSE rows[r]]

Pause ==
    /\ Control /\ routine.state = "active"
    /\ routine' = [routine EXCEPT !.state = "paused"]
    /\ occ' = CancelQueuedScheduledOccurrences(occ)

Disable ==
    /\ Control /\ routine.state \in {"active", "paused"}
    /\ routine' = [routine EXCEPT !.state = "disabled"]
    /\ occ' = CancelQueuedScheduledOccurrences(occ)

Resume ==
    /\ Control /\ routine.state # "active"
    /\ \/ /\ routine.kind = "once" /\ routine.next \in 1 .. Period
          /\ routine' = [routine EXCEPT !.state = "active", !.failures = 0]
       \/ /\ routine.kind = "schedule"
          /\ \E next \in Ahead :
               routine' = [routine EXCEPT !.state = "active", !.failures = 0,
                                          !.next = next]
    /\ UNCHANGED occ

Edit ==
    /\ Control
    /\ routine.kind = "once" => ActiveIn(Tables) = {}
    /\ \E kind \in {"schedule", "once"}, next \in Ahead :
         routine' = [routine EXCEPT
                       !.kind = kind, !.next = next,
                       !.state = IF @ = "completed" THEN "active" ELSE @]
    /\ UNCHANGED occ

Delete ==
    /\ Control
    /\ routine' = [routine EXCEPT !.deleted = TRUE, !.next = NotDue]
    /\ UNCHANGED occ

(* The row of an occurrence that is not skipped.                           *)
MayInsert(db) ==
    ActiveIn(db) = {} /\ \E r \in Runs : db.run[r].status = "absent"

Insert(db, source, left) ==
    LET r == CHOOSE r \in Runs : /\ db.run[r].status = "absent"
                                 /\ \A q \in 1 .. r - 1 : db.run[q].status # "absent"
    IN  [db EXCEPT !.run[r] = [NewRow EXCEPT !.status = "queued",
                                             !.source = source, !.left = left]]

RunNow ==
    /\ ~routine.deleted /\ routine.kind = "schedule"
    /\ routine.state \notin {"disabled", "completed"}
    /\ MayInsert(Tables)
    /\ Write(Insert(Tables, "run_now", Grace))
    /\ UNCHANGED <<beat, agent, shown, controls>>

-----------------------------------------------------------------------------
(* A heartbeat finds work                                                  *)

BeatAt(h, pc) == beat[h].pc = pc
BeatGoesTo(h, b) == beat' = [beat EXCEPT ![h] = b]
Proceed(h, pc) == BeatGoesTo(h, [beat[h] EXCEPT !.pc = pc])
Stop(h) == BeatGoesTo(h, Idle)

Start(h) ==
    /\ BeatAt(h, "idle")
    /\ Write(CleanupRetention(Tables))
    /\ BeatGoesTo(h, [Idle EXCEPT !.pc = "claim"])
    /\ UNCHANGED <<agent, shown, controls>>

(* Due by the heartbeat's clock, which is `lag` behind.                    *)
Due(lag) ==
    /\ routine.state = "active" /\ ~routine.deleted
    /\ routine.next # NotDue /\ routine.next <= -lag

(* How long the first unclaimed slot has been due.                         *)
Overdue(lag) == -routine.next - lag

DueSlots(lag) ==
    IF routine.kind = "once"
    THEN [count |-> 1, age |-> Overdue(lag), next |-> NotDue]
    ELSE [count |-> 1 + Overdue(lag) \div Period,
          age |-> Overdue(lag) % Period,
          next |-> Period - (Overdue(lag) % Period) - lag]

IsSkipped(due) ==
    due.count > 1 \/ ActiveIn(Tables) # {} \/ due.age > Grace

ClaimDueSchedules(h) ==
    LET lag == beat[h].lag
        due == DueSlots(lag)
        moved == [Tables EXCEPT !.routine.next = due.next]
    IN
    /\ BeatAt(h, "claim")
    /\ \/ ~Due(lag) /\ UNCHANGED <<routine, occ>>
       \/ /\ Due(lag) /\ "schedule" \in Faults /\ routine.kind = "schedule"
          /\ routine' = [routine EXCEPT !.state = "paused"]
          /\ UNCHANGED occ
       \/ Due(lag) /\ IsSkipped(due) /\ Write(Complete(moved))
       \/ Due(lag) /\ ~IsSkipped(due) /\ UNCHANGED <<routine, occ>>  \* deferred
       \/ /\ Due(lag) /\ ~IsSkipped(due) /\ MayInsert(Tables)
          /\ Write(Insert(moved, routine.kind, Grace - due.age - lag))
    /\ Proceed(h, "list")
    /\ UNCHANGED <<agent, shown, controls>>

(* process(): the row as listed, by the heartbeat's clock.  A row that is   *)
(* being admitted by another, under its lease, is left to it.               *)
IsDeferred(r, lag) ==
    /\ occ[r].status = "admitting" /\ occ[r].envelope = None
    /\ occ[r].lease + lag > 0

ListRuns(h) ==
    /\ BeatAt(h, "list")
    /\ \/ ActiveIn(Tables) = {} /\ Stop(h)
       \/ \E r \in ActiveIn(Tables) :
            \/ occ[r].status = "queued"
               /\ BeatGoesTo(h, [beat[h] EXCEPT !.pc = "queued", !.of = r])
            \/ IsDeferred(r, beat[h].lag) /\ Stop(h)
            \/ occ[r].status # "queued" /\ ~IsDeferred(r, beat[h].lag)
               /\ BeatGoesTo(h, [Idle EXCEPT !.pc = "load", !.of = r])
    /\ UNCHANGED <<routine, occ, agent, shown, controls>>

On(h, r, pc) == BeatAt(h, pc) /\ beat[h].of = r

SkipExpired(h, r) ==
    /\ On(h, r, "queued") /\ occ[r].left + beat[h].lag < 0
    /\ Write(TransitionRun(Tables, r, {"queued"}, "skipped", "other"))
    /\ Stop(h)
    /\ UNCHANGED <<agent, shown, controls>>

MayBeAdmitted(h, r) ==
    \/ occ[r].status = "queued"
    \/ occ[r].status = "admitting" /\ occ[r].lease + beat[h].lag <= 0

StartAdmissionAttempt(h, r) ==
    /\ On(h, r, "queued") /\ occ[r].left + beat[h].lag >= 0
    /\ \/ /\ MayBeAdmitted(h, r)
          /\ occ' = [occ EXCEPT ![r].status = "admitting",
                                ![r].lease = AdmissionLease - beat[h].lag]
          /\ BeatGoesTo(h, [Idle EXCEPT !.pc = "load", !.of = r])
       \/ ~MayBeAdmitted(h, r) /\ Stop(h) /\ UNCHANGED occ
    /\ UNCHANGED <<routine, agent, shown, controls>>

-----------------------------------------------------------------------------
(* executeRoutineOccurrence: preparation                                   *)

ThrowWith(h, pc, class) ==
    BeatGoesTo(h, [Idle EXCEPT !.pc = pc, !.of = beat[h].of, !.outcome = class])

(* The row is read, its deadline looked at, access resolved and the prompt *)
(* assembled, by every execution anew; only the first one's prompt becomes *)
(* the envelope.  What was read here is as old as this step from here on.  *)
PrepareRoutine(h, r) ==
    LET row == occ[r]
        expired == row.left <= 0 /\ row.settlement = None
    IN
    /\ On(h, r, "load")
    /\ \/ row.status \notin {"admitting", "running"} /\ Stop(h)
       \/ /\ row.status \in {"admitting", "running"}
          /\ routine.deleted \/ expired
          /\ ThrowWith(h, "fail", "attributable")
       \/ /\ row.status \in {"admitting", "running"} /\ ~routine.deleted
          /\ ~expired
          /\ \/ /\ "access" \in Faults
                /\ \E class \in {"access", "attributable"} :
                     ThrowWith(h, "fail", class)
             \/ \E p \in Prompts :
                  BeatGoesTo(h, [Idle EXCEPT
                                   !.pc = "freeze", !.of = r, !.prompt = p,
                                   !.receipt = row.receipt,
                                   !.envelope = IF row.envelope = None
                                                THEN p ELSE row.envelope])
    /\ UNCHANGED <<routine, occ, agent, shown, controls>>

(* Mutant: whatever was admitted may begin.                                *)
MayBeginOnceAdmitted(r) == ~routine.deleted

MayBegin(r) ==
    occ[r].source = "run_now" \/ (routine.state = "active" /\ ~routine.deleted)

(* finalizeSettlement begins with the row's end, unless there is a result  *)
(* to deliver first.                                                       *)
FinalizeNext(outcome) == IF outcome = "succeeded" THEN "deliver" ELSE "finalize"

(* After a 'started' the row is read again: a settlement saved meanwhile   *)
(* goes straight to delivery.                                              *)
Started(h, r) ==
    \/ BeatGoesTo(h, IF occ[r].settlement # None
                     THEN [Idle EXCEPT !.pc = FinalizeNext(occ[r].settlement),
                               !.of = r, !.outcome = occ[r].settlement]
                     ELSE [beat[h] EXCEPT !.pc = IF @ = "freeze" /\ beat[h].receipt # None
                                                 THEN "read" ELSE "dispatch"])
    \/ "agent" \in Faults /\ ThrowWith(h, "fail", "attributable")

(* Mutant: the saved envelope is not compared.                             *)
SameEnvelopeAssumed(h, r) == occ[r].envelope # None

SameEnvelope(h, r) == occ[r].envelope = beat[h].envelope

PrepareAgentDispatch(h, r) ==
    /\ On(h, r, "freeze")
    /\ \/ /\ occ[r].status = "running" /\ SameEnvelope(h, r)
          /\ Started(h, r) /\ UNCHANGED occ
       \/ /\ occ[r].status = "running" /\ ~SameEnvelope(h, r)
          /\ ThrowWith(h, "fail", "attributable") /\ UNCHANGED occ
       \/ /\ occ[r].status \notin {"admitting", "running"}
          /\ Stop(h) /\ UNCHANGED occ
       \/ /\ occ[r].status = "admitting" /\ ~MayBegin(r)
          /\ occ' = [occ EXCEPT ![r] = Ended(@, "superseded")]
          /\ Stop(h)
       \/ /\ occ[r].status = "admitting" /\ MayBegin(r)
          /\ occ' = [occ EXCEPT ![r].status = "running", ![r].lease = 0,
                                ![r].envelope = beat[h].envelope]
          /\ Started(h, r)
    /\ UNCHANGED <<routine, agent, shown, controls>>

FailUnsettledRun(h, r) ==
    /\ On(h, r, "fail")
    /\ Write(TransitionRun(Tables, r, {"admitting", "running"}, "failed",
                           beat[h].outcome))
    /\ Stop(h)
    /\ UNCHANGED <<agent, shown, controls>>

-----------------------------------------------------------------------------
(* executeRoutineOccurrence: the agent                                     *)

DispatchAgent(h, r) ==
    /\ On(h, r, "dispatch")
    /\ \/ /\ agent[r].work = None
          /\ agent' = [agent EXCEPT ![r] = [work |-> "working",
                                            envelope |-> beat[h].envelope]]
          /\ BeatGoesTo(h, [beat[h] EXCEPT !.pc = "receipt", !.receipt = "accepted"])
       \/ /\ agent[r].work # None
          /\ BeatGoesTo(h, [beat[h] EXCEPT !.pc = "receipt", !.receipt = "deduplicated"])
          /\ UNCHANGED agent
       \/ /\ "agent" \in Faults  \* thrown, before or after it was accepted
          /\ \/ UNCHANGED agent
             \/ /\ agent[r].work = None
                /\ agent' = [agent EXCEPT ![r] = [work |-> "working",
                                                  envelope |-> beat[h].envelope]]
          /\ IF occ[r].left > 0 THEN Stop(h)
             ELSE ThrowWith(h, "settle", "attributable")
    /\ UNCHANGED <<routine, occ, shown, controls>>

(* Mutant: the receipt of a second dispatch replaces that of the first.    *)
SameReceiptAssumed(h, r) == beat[h].receipt # None

SameReceipt(h, r) == occ[r].receipt \in {None, beat[h].receipt}

RecordAgentReceipt(h, r) ==
    /\ On(h, r, "receipt")
    /\ \/ /\ occ[r].status = "running" /\ SameReceipt(h, r)
          /\ occ' = [occ EXCEPT ![r].receipt = beat[h].receipt]
          /\ Proceed(h, "read")
       \/ /\ ~(occ[r].status = "running" /\ SameReceipt(h, r))
          /\ ThrowWith(h, "settle", "attributable") /\ UNCHANGED occ
    /\ UNCHANGED <<routine, agent, shown, controls>>

(* An answer that nobody can read any more is left out.                    *)
AgentEnds(r) ==
    /\ agent[r].work = "working"
    /\ occ[r].status = "running" \/ \E h \in Heartbeats : beat[h].of = r
    /\ \E work \in {"succeeded", "no_op"}
                   \cup (IF "agent" \in Faults THEN {"failed"} ELSE {}) :
         agent' = [agent EXCEPT ![r].work = work]
    /\ UNCHANGED <<routine, occ, beat, shown, controls>>

(* An error after a tool call becomes "unknown".                           *)
ThrowAfterTools(h, class) ==
    \E seen \in {class, "unknown"} : ThrowWith(h, "settle", seen)

ReadAgent(h, r) ==
    /\ On(h, r, "read")
    /\ \/ occ[r].left <= 0 /\ ThrowAfterTools(h, "attributable")
       \/ occ[r].left > 0 /\ "crash" \in Faults /\ Stop(h)  \* resumable
       \/ agent[r].work = "failed" /\ ThrowAfterTools(h, "attributable")
       \/ /\ agent[r].work \in {"succeeded", "no_op"}
          /\ \/ /\ beat[h].prompt = beat[h].envelope
                /\ ThrowWith(h, "settle", agent[r].work)
             \/ /\ beat[h].prompt # beat[h].envelope \/ "access" \in Faults
                /\ ThrowAfterTools(h, "access")
    /\ UNCHANGED <<routine, occ, agent, shown, controls>>

(* Settlements carry their instant: only two made in one millisecond with  *)
(* one outcome are the same.  A refused one ends the execution, whose      *)
(* error path is refused in turn.                                          *)
RecordAgentSettlement(h, r) ==
    /\ On(h, r, "settle")
    /\ \/ /\ occ[r].status = "running" /\ occ[r].settlement = None
          /\ occ' = [occ EXCEPT ![r].settlement = beat[h].outcome]
          /\ Proceed(h, FinalizeNext(beat[h].outcome))
       \/ /\ occ[r].settlement = beat[h].outcome
          /\ Proceed(h, FinalizeNext(beat[h].outcome)) /\ UNCHANGED occ
       \/ /\ occ[r].status # "running" \/ occ[r].settlement # None
          /\ Stop(h) /\ UNCHANGED occ
    /\ UNCHANGED <<routine, agent, shown, controls>>

-----------------------------------------------------------------------------
(* finalizeSettlement and delivery                                         *)

Finalize(h, r) ==
    /\ On(h, r, "finalize")
    /\ \/ /\ beat[h].outcome = "no_op"
          /\ Write(TransitionRun(Tables, r, {"running"}, "no_op", None))
          /\ Stop(h)
       \/ /\ beat[h].outcome # "no_op"
          /\ Write(TransitionRun(Tables, r, {"running"}, "failed",
                                 beat[h].outcome))
          /\ IF MayTransition(Tables, r, {"running"}, "failed")
             THEN ThrowWith(h, "notice", None) ELSE Stop(h)
    /\ UNCHANGED <<agent, shown, controls>>

(* Mutant: a lease that has lapsed may be claimed again.                   *)
MayClaimDeliveryAgain(r) ==
    /\ occ[r].status \in {"running", "failed"}
    /\ \/ occ[r].delivery = None
       \/ occ[r].delivery = "leased" /\ occ[r].hold = 0

MayClaimDelivery(r) ==
    occ[r].status \in {"running", "failed"} /\ occ[r].delivery = None

ClaimDelivery(h, r) ==
    /\ On(h, r, "deliver") \/ On(h, r, "notice")
    /\ \/ /\ MayClaimDelivery(r) /\ (BeatAt(h, "notice") => occ[r].status = "failed")
          /\ occ' = [occ EXCEPT ![r].delivery = "leased", ![r].hold = DeliveryLease]
          /\ BeatGoesTo(h, [Idle EXCEPT !.of = r,
                              !.pc = IF BeatAt(h, "deliver") THEN "post_result"
                                                             ELSE "post_notice"])
       \/ /\ ~(MayClaimDelivery(r) /\ (BeatAt(h, "notice") => occ[r].status = "failed"))
          /\ Stop(h) /\ UNCHANGED occ
    /\ UNCHANGED <<routine, agent, shown, controls>>

Appears(h, r) ==
    shown' = IF BeatAt(h, "post_result") THEN [shown EXCEPT ![r].results = @ + 1]
                                         ELSE [shown EXCEPT ![r].notices = @ + 1]

PostMessage(h, r) ==
    /\ On(h, r, "post_result") \/ On(h, r, "post_notice")
    /\ \E outcome \in {"delivered"} \cup
          (IF "slack" \in Faults THEN {"unknown", "failed"} ELSE {}) :
         /\ \/ outcome \in {"delivered", "unknown"} /\ Appears(h, r)
            \/ outcome \in {"unknown", "failed"} /\ UNCHANGED shown
         /\ BeatGoesTo(h, [beat[h] EXCEPT
                             !.pc = IF @ = "post_result" THEN "record_result"
                                                         ELSE "record_notice",
                             !.outcome = outcome])
    /\ UNCHANGED <<routine, occ, agent, controls>>

(* Mutant: only a rejected post keeps the occurrence from succeeding.      *)
RecordDeliveryOutcomeUnlessRejected(h, r) ==
    /\ On(h, r, "record_result") \/ On(h, r, "record_notice")
    /\ IF DeliveryIsHeld(Tables, r)
       THEN Write(RecordDelivery(Tables, r, beat[h].outcome))
       ELSE UNCHANGED <<routine, occ>>
    /\ IF /\ DeliveryIsHeld(Tables, r)
          /\ beat[h].outcome # "failed" /\ BeatAt(h, "record_result")
       THEN Proceed(h, "close") ELSE Stop(h)
    /\ UNCHANGED <<agent, shown, controls>>

RecordDeliveryOutcome(h, r) ==
    /\ On(h, r, "record_result") \/ On(h, r, "record_notice")
    /\ IF DeliveryIsHeld(Tables, r)
       THEN Write(RecordDelivery(Tables, r, beat[h].outcome))
       ELSE UNCHANGED <<routine, occ>>
    /\ IF /\ DeliveryIsHeld(Tables, r)
          /\ beat[h].outcome = "delivered" /\ BeatAt(h, "record_result")
       THEN Proceed(h, "close") ELSE Stop(h)
    /\ UNCHANGED <<agent, shown, controls>>

Close(h, r) ==
    /\ On(h, r, "close")
    /\ Write(TransitionRun(Tables, r, {"running"}, "succeeded", None))
    /\ Stop(h)
    /\ UNCHANGED <<agent, shown, controls>>

-----------------------------------------------------------------------------
(* Time, and the end of a heartbeat's isolate                              *)

Lower(n, floor) == IF n > floor THEN n - 1 ELSE floor

Later(row) ==
    [row EXCEPT !.left = IF row.status \in Active THEN Lower(@, -(Grace + 1))
                                                  ELSE @,
                !.lease = Lower(@, -MaxLag), !.hold = Lower(@, 0)]

Waiting(h) == beat[h].pc \in {"claim", "list", "queued"}

(* A stopped schedule resumes from a slot computed then: its own rests.     *)
Nearer(next) ==
    CASE next = NotDue -> NotDue
      [] next # NotDue /\ routine.kind = "once" -> Lower(next, -(Grace + MaxLag + 1))
      [] next # NotDue /\ routine.kind = "schedule" ->
           IF routine.state = "active" THEN Lower(next, -(Period + MaxLag)) ELSE Period

Tick ==
    /\ \A h \in Heartbeats : Waiting(h) => beat[h].lag < MaxLag
    /\ routine' = [routine EXCEPT !.next = Nearer(@)]
    /\ occ' = [r \in Runs |-> IF occ[r].status = "absent" THEN occ[r]
                              ELSE Later(occ[r])]
    /\ beat' = [h \in Heartbeats |->
                  IF Waiting(h) THEN [beat[h] EXCEPT !.lag = @ + 1] ELSE beat[h]]
    /\ UNCHANGED <<agent, shown, controls>>

BeatCrashes(h) ==
    /\ "crash" \in Faults /\ ~BeatAt(h, "idle")
    /\ Stop(h)
    /\ UNCHANGED <<routine, occ, agent, shown, controls>>

Finds(h) ==
    \/ Start(h) \/ ClaimDueSchedules(h) \/ ListRuns(h)
    \/ \E r \in Runs :
         SkipExpired(h, r) \/ StartAdmissionAttempt(h, r)

Executes(h) ==
    \E r \in Runs :
      \/ PrepareRoutine(h, r) \/ PrepareAgentDispatch(h, r)
      \/ FailUnsettledRun(h, r) \/ DispatchAgent(h, r) \/ RecordAgentReceipt(h, r)
      \/ ReadAgent(h, r) \/ RecordAgentSettlement(h, r) \/ Finalize(h, r)
      \/ ClaimDelivery(h, r) \/ PostMessage(h, r) \/ RecordDeliveryOutcome(h, r)
      \/ Close(h, r)

Controls == Pause \/ Disable \/ Resume \/ Edit \/ Delete \/ RunNow

RoutineNext ==
    \/ \E h \in Heartbeats : Finds(h) \/ Executes(h) \/ BeatCrashes(h)
    \/ \E r \in Runs : AgentEnds(r)
    \/ Controls
    \/ Tick

(* Cron starts a heartbeat every minute, an isolate runs its code or is    *)
(* ended, and the clock goes on.  Nobody owes the agent's answer.          *)
RoutineFairness ==
    /\ SF_routineVars(Tick)
    /\ \A h \in Heartbeats :
          /\ WF_routineVars(Finds(h))
          /\ WF_routineVars(Executes(h) \/ BeatCrashes(h))

RoutineSpec == RoutineInit /\ [][RoutineNext]_routineVars /\ RoutineFairness

-----------------------------------------------------------------------------
(* Properties                                                              *)

(* Every row, heartbeat and counter keeps its shape and its bounds.        *)
RoutineTypeOK ==
    /\ routine \in Routine
    /\ occ \in [Runs -> Row]
    /\ beat \in [Heartbeats -> Beat]
    /\ agent \in [Runs -> [work : {None, "working", "failed", "succeeded", "no_op"},
                           envelope : {None} \cup Prompts]]
    /\ shown \in [Runs -> [results : Nat, notices : Nat]]
    /\ controls \in 0 .. MaxControls

(* Two heartbeats, a crash or an unknown answer of Slack never show the    *)
(* channel two messages of one occurrence, be they results or failure      *)
(* notices, and an occurrence is 'succeeded' only if the one is its result *)
(* and its delivery is recorded.                                           *)
OnePostAsRecorded ==
    \A r \in Runs :
        /\ shown[r].results + shown[r].notices <= 1
        /\ occ[r].status = "succeeded" =>
              occ[r].delivery = "delivered" /\ shown[r].results = 1

(* A heartbeat that is late, retried or overtaken rewrites no checkpoint:  *)
(* envelope, receipt, settlement, delivery verdict and terminal status are *)
(* set once, and the agent works on the envelope that was frozen, whatever *)
(* the prompt of the heartbeat that dispatched it.                         *)
SetOnce(r, field) == occ[r][field] # None => occ'[r][field] = occ[r][field]
CheckpointsStay ==
    [][\A r \in Runs :
         /\ SetOnce(r, "envelope") /\ SetOnce(r, "receipt")
         /\ SetOnce(r, "settlement")
         /\ occ[r].delivery \notin {None, "leased"} =>
              occ'[r].delivery = occ[r].delivery
         /\ occ[r].status \in Terminal => occ'[r].status = occ[r].status
         /\ agent'[r].work # None => agent'[r].envelope = occ'[r].envelope]_routineVars

(* A schedule that was paused, disabled, finished or deleted begins no     *)
(* occurrence, even one claimed and admitted before.                       *)
StoppedStartsNothing ==
    [][\A r \in Runs :
         (occ[r].status # "running" /\ occ'[r].status = "running"
            /\ occ[r].source # "run_now") =>
           routine.state = "active" /\ ~routine.deleted]_routineVars

(* The schedule does not go on by itself after a streak of MaxFailures     *)
(* failures, nor when an occurrence ends with its effects unknown, nor     *)
(* when the cleanup finds a delivery, be it of a result or of a failure    *)
(* notice, whose heartbeat never said what became of it.  An outcome that  *)
(* a heartbeat itself records as unknown is the next property's.           *)
RoutineStops(rt) == rt.state # "active" \/ rt.deleted

FailureStopsSchedule ==
    [][(\/ routine'.failures = MaxFailures
        \/ \E r \in Runs : occ[r].class # "unknown" /\ occ'[r].class = "unknown"
        \/ \E r \in Runs, h \in Heartbeats :
              Start(h) /\ occ[r].delivery # "unknown" /\ occ'[r].delivery = "unknown")
         => RoutineStops(routine')]_routineVars

(* "A delivery or tool outcome that may have succeeded but cannot be proven *)
(* pauses the routine immediately for inspection": when the database holds *)
(* that a delivery's outcome is unknown, the routine no longer runs.  The  *)
(* heartbeat that records it does nothing more for the occurrence.         *)
UnprovenPausesAtOnce ==
    [][\A r \in Runs :
         occ[r].delivery # "unknown" /\ occ'[r].delivery = "unknown" =>
           RoutineStops(routine')]_routineVars

(* Whatever is lost, an occurrence ends: it does not stay active for ever,  *)
(* and it leaves an active status only for a terminal one.                 *)
EveryOccurrenceEnds == \A r \in Runs : []<>(occ[r].status \notin Active)

(* A second heartbeat that reattaches to an occurrence does it no harm: of *)
(* an occurrence nothing went wrong with, and nothing is being posted of,  *)
(* only its deadline makes a failure.                                      *)
OverlapIsHarmless ==
    [][\A r \in Runs :
         (/\ occ[r].status = "running" /\ occ'[r].status = "failed"
          /\ occ[r].delivery = None) => occ[r].left <= 0]_routineVars

=============================================================================
