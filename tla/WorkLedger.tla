------------------------------ MODULE WorkLedger ------------------------------
(***************************************************************************)
(* The channel-neutral Work ledger: the Run and RunExecution rows, and the *)
(* transactions WorkStoreLogic offers on them.                             *)
(*                                                                         *)
(* Every public method of the store is one database transaction, so each   *)
(* is one action here.  Nothing is assumed of a caller beyond what the     *)
(* store itself checks: any fencing token may be presented at any time, in *)
(* any order, by a worker that is alive, late, or long replaced.  Module   *)
(* LedgerTurn restricts the callers to the real driver and turn handler.   *)
(***************************************************************************)
EXTENDS Naturals

CONSTANTS
    Runs,            \* run ids, as their rank in the order (created_at, id)
    OrderingKey,     \* [Runs -> keys]: ordering_key of the run's Binding
    Legacy,          \* runs admitted with execution_authority = 'legacy'
    Answers,         \* bodies a worker may approve as the response
    Renders,         \* adapter renders of an answer (stream, post, ...)
    LeaseDuration,   \* leaseDurationMs, in ticks of the clock
    AdmitInCreationOrder, \* FALSE: created_at is stamped before the commit
    MaxFence,        \* bound: claims of one run
    MaxTime          \* bound: clock

ASSUME RunsAssumption == Runs \subseteq Nat
ASSUME LegacyAssumption == Legacy \subseteq Runs
ASSUME LeaseAssumption == LeaseDuration \in Nat \ {0}
ASSUME FenceAssumption == MaxFence \in Nat \ {0}
ASSUME TimeAssumption == MaxTime \in Nat
ASSUME AdmitAssumption == AdmitInCreationOrder \in BOOLEAN

VARIABLES
    now,   \* the stores' and the workers' clock
    run,   \* [Runs -> Row], the table runs
    exec   \* [Runs -> [Fences -> Execution]], the table run_executions

vars == <<now, run, exec>>

-----------------------------------------------------------------------------
(* Values                                                                  *)

Fences == 1 .. MaxFence

(* A row is "absent" until it is admitted.                                 *)
Statuses == {"absent", "admitted", "queued", "preparing_input", "input_ready",
             "executing", "response_ready", "settled", "recovery_required"}
(* 'no_op', 'cancelled' and 'superseded' are handled as 'skipped' is.      *)
Dispositions == {"none", "succeeded", "failed", "skipped", "quarantined"}
Deliveries == {"not_ready", "pending", "delivered", "failed", "unknown",
               "not_applicable"}

NoLease == 0       \* lease_owner and lease_until are NULL
NoAttempt == 0     \* delivery_attempt_id is NULL
NoResponse == <<>> \* policy_approved_output_ref, rendered_payload_ref NULL

Responses == (Answers \X Renders) \cup {NoResponse}

(* attempt: the fencing token under which the delivery attempt started;    *)
(* resolved: recovery_resolution_kind = 'quarantine'.                      *)
Row == [status : Statuses, disposition : Dispositions, delivery : Deliveries,
        attempt : Nat, prepared : BOOLEAN, response : Responses,
        lease : Nat, fence : Nat, sequence : Nat, resolved : BOOLEAN]

NewRow == [status |-> "absent", disposition |-> "none",
           delivery |-> "not_ready", attempt |-> NoAttempt,
           prepared |-> FALSE, response |-> NoResponse, lease |-> NoLease,
           fence |-> 0, sequence |-> 0, resolved |-> FALSE]

(* An execution id is a digest of (run, attempt number), and the attempt   *)
(* number of a ledger run is the fencing token of its claim: one slot per  *)
(* (run, fence).  auth: provider_auth_route is not NULL.                   *)
Invocations == {"not_invoked", "ready", "invoked", "settled"}
Outcomes == {"pending", "not_submitted", "succeeded", "failed", "ambiguous"}
Attempted == [model : Invocations, outcome : Outcomes, auth : BOOLEAN]
NoExecution == [model |-> "none", outcome |-> "none", auth |-> FALSE]
Execution == Attempted \cup {NoExecution}

(* (outcome, modelInvocationStatus) pairs that ShadowWorkLifecycle sends.  *)
Settlements ==
    {<<"not_submitted", "not_invoked">>, <<"succeeded", "not_invoked">>}
    \cup ({"succeeded", "failed", "ambiguous"} \X {"settled"})

-----------------------------------------------------------------------------
(* The CHECK constraints of the two tables: a statement that would break   *)
(* one aborts its transaction.                                             *)

RowChecks(row) ==
    /\ (row.status = "settled") <=> (row.disposition # "none")
    /\ row.status = "response_ready" => row.response # NoResponse
    /\ row.status \in {"input_ready", "executing", "response_ready"}
         => row.prepared
    /\ (row.disposition = "quarantined") <=> row.resolved
    /\ (row.delivery \in {"not_ready", "not_applicable"})
         <=> (row.attempt = NoAttempt)

ExecutionChecks(e) ==
    /\ e.model = "not_invoked" => ~e.auth
    /\ e.outcome = "not_submitted" => e.model = "not_invoked"

Commit(r, row) == RowChecks(row) /\ run' = [run EXCEPT ![r] = row]
CommitExecution(r, f, e) ==
    ExecutionChecks(e) /\ exec' = [exec EXCEPT ![r][f] = e]

-----------------------------------------------------------------------------
(* Fences and leases                                                       *)

Fenced(r, f) == run[r].fence = f

HasExecution(r, f) == exec[r][f] # NoExecution

CurrentExecution(r, f) == Fenced(r, f) /\ HasExecution(r, f)

OwnsLease(r, f) ==
    /\ Fenced(r, f)
    /\ run[r].lease # NoLease
    /\ ~ (run[r].lease < now)
    /\ run[r].status \notin {"settled", "recovery_required"}

(* Where a run goes back to when its worker gives it up or is given up.    *)
RequeueStatus(row) ==
    CASE row.status = "response_ready" -> "response_ready"
      [] row.status # "response_ready" /\ row.prepared -> "input_ready"
      [] OTHER -> "queued"

(* Was the newest execution of r submitted, or finished with any outcome?  *)
MayHaveBeenSubmitted(r) ==
    \E f \in Fences :
        /\ HasExecution(r, f)
        /\ \A g \in Fences : g > f => ~HasExecution(r, g)
        /\ \/ exec[r][f].model \in {"invoked", "settled"}
           \/ exec[r][f].outcome # "pending"

(* Mutant: a lease is taken for expired at its last valid instant.         *)
ExpiredTooEarly(r) ==
    /\ r \notin Legacy
    /\ run[r].lease # NoLease
    /\ run[r].lease <= now
    /\ run[r].status \in {"preparing_input", "input_ready", "executing",
                          "response_ready"}

(* Mutant: a worker that died before it prepared its input is overlooked.  *)
ExpiredOncePrepared(r) ==
    /\ r \notin Legacy
    /\ run[r].lease # NoLease
    /\ run[r].lease < now
    /\ run[r].status \in {"input_ready", "executing", "response_ready"}

Expired(r) ==
    /\ r \notin Legacy
    /\ run[r].lease # NoLease
    /\ run[r].lease < now
    /\ run[r].status \in {"preparing_input", "input_ready", "executing",
                          "response_ready"}

Reconciled(r) ==
    IF ~Expired(r) THEN run[r]
    ELSE [run[r] EXCEPT
            !.lease = NoLease,
            !.status = IF @ = "executing" /\ MayHaveBeenSubmitted(r)
                       THEN "recovery_required" ELSE RequeueStatus(run[r])]

(* The table after reconcileExpiredInteractiveLeases(now).                 *)
ReconciledRuns == [r \in Runs |-> Reconciled(r)]

(* Mutant: an older run that waits for an operator lets the next one pass. *)
ClaimablePastParked(rows, r) ==
    /\ r \notin Legacy
    /\ rows[r].status \in {"admitted", "queued", "input_ready",
                           "response_ready"}
    /\ rows[r].lease = NoLease
    /\ \A q \in Runs \ Legacy :
          (/\ q < r
           /\ OrderingKey[q] = OrderingKey[r]
           /\ rows[q].status # "absent")
            => rows[q].status \in {"settled", "recovery_required"}

Claimable(rows, r) ==
    /\ r \notin Legacy
    /\ rows[r].status \in {"admitted", "queued", "input_ready",
                           "response_ready"}
    /\ rows[r].lease = NoLease
    /\ \A q \in Runs \ Legacy :
          (/\ q < r
           /\ OrderingKey[q] = OrderingKey[r]
           /\ rows[q].status # "absent") => rows[q].status = "settled"

-----------------------------------------------------------------------------
(* Admission and the lease protocol                                        *)

(* The newest admission of the run's Binding, whose ordering key it is;    *)
(* sequence 0 while there is none.                                         *)
NewestOfBinding(r, q) ==
    /\ OrderingKey[q] = OrderingKey[r]
    /\ \A p \in Runs : OrderingKey[p] = OrderingKey[r]
                         => run[p].sequence <= run[q].sequence

(* A replay of an admitted run changes nothing.                            *)
AdmitShadowRun(r) ==
    /\ run[r].status = "absent"
    /\ AdmitInCreationOrder =>
          \A q \in Runs : q < r => run[q].status # "absent"
    /\ \E q \in Runs :
          /\ NewestOfBinding(r, q)
          /\ Commit(r, [run[r] EXCEPT !.status = "admitted",
                                      !.sequence = run[q].sequence + 1])
    /\ UNCHANGED <<now, exec>>

(* Expired leases are reconciled first; the oldest claimable run, if there *)
(* is one, is then leased under the next fencing token.                    *)
ClaimNextInteractiveRun(r) ==
    /\ Claimable(ReconciledRuns, r)
    /\ \A q \in Runs : Claimable(ReconciledRuns, q) => r <= q
    /\ run[r].fence < MaxFence
    /\ run' = [ReconciledRuns EXCEPT
                 ![r].status = IF @ \in {"admitted", "queued"}
                               THEN "preparing_input" ELSE @,
                 ![r].lease = now + LeaseDuration,
                 ![r].fence = @ + 1]
    /\ UNCHANGED <<now, exec>>

ClaimFindsNothing ==
    /\ \A q \in Runs : ~Claimable(ReconciledRuns, q)
    /\ run' = ReconciledRuns
    /\ UNCHANGED <<now, exec>>

RenewRunLease(r, f) ==
    /\ OwnsLease(r, f)
    /\ Commit(r, [run[r] EXCEPT !.lease = now + LeaseDuration])
    /\ UNCHANGED <<now, exec>>

ReleaseSettled(r, f) ==
    /\ OwnsLease(r, f)
    /\ Commit(r, [run[r] EXCEPT
                    !.status = "settled", !.disposition = "skipped",
                    !.delivery = IF @ = "not_ready" THEN "not_applicable"
                                 ELSE @,
                    !.lease = NoLease])
    /\ UNCHANGED <<now, exec>>

ReleaseForRecovery(r, f) ==
    /\ OwnsLease(r, f)
    /\ Commit(r, [run[r] EXCEPT !.status = "recovery_required",
                                !.lease = NoLease])
    /\ UNCHANGED <<now, exec>>

(* Mutant: the outcome of the release is written as the status.            *)
ReleaseRequeueVerbatim(r, f) ==
    /\ OwnsLease(r, f)
    /\ Commit(r, [run[r] EXCEPT !.status = "requeue", !.lease = NoLease])
    /\ UNCHANGED <<now, exec>>

ReleaseRequeue(r, f) ==
    /\ OwnsLease(r, f)
    /\ Commit(r, [run[r] EXCEPT !.status = RequeueStatus(run[r]),
                                !.lease = NoLease])
    /\ UNCHANGED <<now, exec>>

-----------------------------------------------------------------------------
(* Execution                                                               *)

(* prepareRunInput takes no fencing token.  A body already prepared is     *)
(* kept; a confirmed delivery failure is reopened for a new execution.     *)
PrepareRunInput(r) ==
    /\ \/ /\ ~run[r].prepared
          /\ run[r].status \in {"admitted", "queued", "preparing_input"}
          /\ Commit(r, [run[r] EXCEPT !.prepared = TRUE,
                                      !.status = "input_ready"])
       \/ /\ run[r].prepared
          /\ run[r].status = "response_ready"
          /\ run[r].delivery = "failed"
          /\ Commit(r, [run[r] EXCEPT
                          !.status = "input_ready", !.response = NoResponse,
                          !.delivery = "not_ready", !.attempt = NoAttempt])
    /\ UNCHANGED <<now, exec>>

(* Mutant: any fencing token but the run's own opens a legacy execution.   *)
CreateRunExecutionAnyToken(r, f) ==
    /\ ~HasExecution(r, f)
    /\ run[r].status = "input_ready"
    /\ run[r].prepared
    /\ IF r \in Legacy THEN f # run[r].fence ELSE Fenced(r, f)
    /\ CommitExecution(r, f, [model |-> "not_invoked", outcome |-> "pending",
                              auth |-> FALSE])
    /\ Commit(r, [run[r] EXCEPT !.status = "executing", !.fence = f])
    /\ UNCHANGED now

(* A ledger execution runs under its claim's token; a legacy one brings a  *)
(* newer token of its own.                                                 *)
CreateRunExecution(r, f) ==
    /\ ~HasExecution(r, f)
    /\ run[r].status = "input_ready"
    /\ run[r].prepared
    /\ IF r \in Legacy THEN f > run[r].fence ELSE Fenced(r, f)
    /\ CommitExecution(r, f, [model |-> "not_invoked", outcome |-> "pending",
                              auth |-> FALSE])
    /\ Commit(r, [run[r] EXCEPT !.status = "executing", !.fence = f])
    /\ UNCHANGED now

(* recordRunExecutionRoute takes no fencing token either.                  *)
RecordRunExecutionRoute(r, f, auth) ==
    /\ HasExecution(r, f)
    /\ exec[r][f].model = "not_invoked"
    /\ CommitExecution(r, f, [exec[r][f] EXCEPT !.model = "ready",
                                                !.auth = auth])
    /\ UNCHANGED <<now, run>>

MarkRunExecutionInvoked(r, f) ==
    /\ CurrentExecution(r, f)
    /\ exec[r][f].model = "ready"
    /\ CommitExecution(r, f, [exec[r][f] EXCEPT !.model = "invoked"])
    /\ UNCHANGED <<now, run>>

(* Mutant: an invoked execution may be settled as never invoked.           *)
SettleRunExecutionUnchecked(r, f, outcome, model) ==
    /\ CurrentExecution(r, f)
    /\ exec[r][f].outcome = "pending"
    /\ model = "settled" => exec[r][f].model \in {"ready", "invoked"}
    /\ CommitExecution(r, f, [exec[r][f] EXCEPT !.model = model,
                                                !.outcome = outcome])
    /\ UNCHANGED <<now, run>>

MaySettle(r, f, outcome, model) ==
    /\ CurrentExecution(r, f)
    /\ exec[r][f].outcome = "pending"
    /\ model = "not_invoked" => exec[r][f].model \in {"not_invoked", "ready"}
    /\ model = "settled" => exec[r][f].model \in {"ready", "invoked"}
    /\ ExecutionChecks([exec[r][f] EXCEPT !.model = model, !.outcome = outcome])

SettleRunExecution(r, f, outcome, model) ==
    /\ MaySettle(r, f, outcome, model)
    /\ CommitExecution(r, f, [exec[r][f] EXCEPT !.model = model,
                                                !.outcome = outcome])
    /\ UNCHANGED <<now, run>>

-----------------------------------------------------------------------------
(* Response and delivery                                                   *)

(* Mutant: the render may be replaced whatever became of the delivery.     *)
RecordRunResponseAnytime(r, f, response) ==
    /\ Fenced(r, f)
    /\ \/ /\ run[r].response = NoResponse
          /\ run[r].status \in {"executing", "input_ready"}
          /\ CurrentExecution(r, f)
          /\ Commit(r, [run[r] EXCEPT
                          !.response = response, !.status = "response_ready",
                          !.delivery = "not_ready"])
       \/ /\ run[r].response # NoResponse
          /\ run[r].response # response
          /\ run[r].response[1] = response[1]
          /\ run[r].delivery # "delivered"
          /\ Commit(r, [run[r] EXCEPT
                          !.response = response, !.delivery = "not_ready",
                          !.attempt = NoAttempt])
    /\ UNCHANGED <<now, exec>>

(* The same response again changes nothing.  The execution is named, and   *)
(* then it has to be the current one: the lifecycle always names it.       *)
RecordRunResponse(r, f, response) ==
    /\ Fenced(r, f)
    /\ \/ /\ run[r].response = NoResponse
          /\ run[r].status \in {"executing", "input_ready"}
          /\ CurrentExecution(r, f)
          /\ Commit(r, [run[r] EXCEPT
                          !.response = response, !.status = "response_ready",
                          !.delivery = "not_ready"])
       \/ /\ run[r].response # NoResponse
          /\ run[r].response # response
          /\ run[r].response[1] = response[1]
          /\ run[r].delivery = "failed"
          /\ Commit(r, [run[r] EXCEPT
                          !.response = response, !.delivery = "not_ready",
                          !.attempt = NoAttempt])
    /\ UNCHANGED <<now, exec>>

(* Mutant: the run's status is not asked for.                              *)
StartRunDeliveryAnyStatus(r, f) ==
    /\ Fenced(r, f)
    /\ run[r].delivery \in {"not_ready", "failed"}
    /\ Commit(r, [run[r] EXCEPT !.delivery = "pending", !.attempt = f])
    /\ UNCHANGED <<now, exec>>

(* The attempt pending already, started again, changes nothing.            *)
StartRunDelivery(r, f) ==
    /\ Fenced(r, f)
    /\ run[r].status = "response_ready"
    /\ run[r].delivery \in {"not_ready", "failed"}
    /\ Commit(r, [run[r] EXCEPT !.delivery = "pending", !.attempt = f])
    /\ UNCHANGED <<now, exec>>

(* Mutant: a verdict is accepted for an attempt that already has one.      *)
NamedAttempt(r, f, a) ==
    /\ Fenced(r, f)
    /\ run[r].attempt = a

(* The caller names the attempt it finalizes, usually its own (a = f); a   *)
(* recovered worker may name the one it read from the row.                 *)
PendingAttempt(r, f, a) ==
    /\ Fenced(r, f)
    /\ run[r].attempt = a
    /\ run[r].delivery = "pending"

FinalizeDelivered(r, f, a, disposition) ==
    /\ PendingAttempt(r, f, a)
    /\ Commit(r, [run[r] EXCEPT !.delivery = "delivered",
                                !.status = "settled",
                                !.disposition = disposition,
                                !.lease = NoLease])
    /\ UNCHANGED <<now, exec>>

(* Mutant: parking the run leaves its lease behind.                        *)
FinalizeUnknownKeepingLease(r, f, a) ==
    /\ PendingAttempt(r, f, a)
    /\ Commit(r, [run[r] EXCEPT !.delivery = "unknown",
                                !.status = "recovery_required"])
    /\ UNCHANGED <<now, exec>>

FinalizeUnknown(r, f, a) ==
    /\ PendingAttempt(r, f, a)
    /\ Commit(r, [run[r] EXCEPT !.delivery = "unknown",
                                !.status = "recovery_required",
                                !.lease = NoLease])
    /\ UNCHANGED <<now, exec>>

FinalizeFailed(r, f, a) ==
    /\ PendingAttempt(r, f, a)
    /\ Commit(r, [run[r] EXCEPT !.delivery = "failed"])
    /\ UNCHANGED <<now, exec>>

SettleRunWithoutDelivery(r, f, disposition) ==
    /\ Fenced(r, f)
    /\ run[r].status \in {"input_ready", "executing", "response_ready"}
    /\ Commit(r, [run[r] EXCEPT !.status = "settled",
                                !.disposition = disposition,
                                !.delivery = "not_applicable",
                                !.attempt = NoAttempt, !.lease = NoLease])
    /\ UNCHANGED <<now, exec>>

-----------------------------------------------------------------------------
(* Recovery                                                                *)

(* Only the 'unknown' receipt of recordWorkAction touches the run.         *)
RecordUnknownAction(r, f) ==
    /\ CurrentExecution(r, f)
    /\ run[r].status # "settled"
    /\ Commit(r, [run[r] EXCEPT !.status = "recovery_required",
                                !.lease = NoLease])
    /\ UNCHANGED <<now, exec>>

(* The operator's retirement of a stale run; no fencing token.             *)
RequireRecovery(r) ==
    /\ run[r].status \notin {"absent", "settled"}
    /\ Commit(r, [run[r] EXCEPT !.status = "recovery_required",
                                !.lease = NoLease])
    /\ UNCHANGED <<now, exec>>

QuarantineRun(r) ==
    /\ run[r].status = "recovery_required"
    /\ Commit(r, [run[r] EXCEPT !.status = "settled",
                                !.disposition = "quarantined",
                                !.resolved = TRUE, !.lease = NoLease])
    /\ UNCHANGED <<now, exec>>

-----------------------------------------------------------------------------
Tick ==
    /\ now < MaxTime
    /\ now' = now + 1
    /\ UNCHANGED <<run, exec>>

Init ==
    /\ now = 0
    /\ run = [r \in Runs |-> NewRow]
    /\ exec = [r \in Runs |-> [f \in Fences |-> NoExecution]]

(* Steps that present a fencing token, current or stale.                   *)
WorkerStep(r, f) ==
    \/ RenewRunLease(r, f)
    \/ ReleaseSettled(r, f)
    \/ ReleaseForRecovery(r, f)
    \/ ReleaseRequeue(r, f)
    \/ CreateRunExecution(r, f)
    \/ \E auth \in BOOLEAN : RecordRunExecutionRoute(r, f, auth)
    \/ MarkRunExecutionInvoked(r, f)
    \/ \E s \in Settlements : SettleRunExecution(r, f, s[1], s[2])
    \/ \E response \in Answers \X Renders : RecordRunResponse(r, f, response)
    \/ StartRunDelivery(r, f)
    \/ \E a \in Fences, d \in {"succeeded", "failed"} :
          FinalizeDelivered(r, f, a, d)
    \/ \E a \in Fences : FinalizeUnknown(r, f, a) \/ FinalizeFailed(r, f, a)
    \/ \E d \in {"failed", "skipped"} : SettleRunWithoutDelivery(r, f, d)
    \/ RecordUnknownAction(r, f)

StoreStep(r) ==
    \/ AdmitShadowRun(r)
    \/ ClaimNextInteractiveRun(r)
    \/ PrepareRunInput(r)
    \/ RequireRecovery(r)
    \/ QuarantineRun(r)

Next ==
    \/ Tick
    \/ ClaimFindsNothing
    \/ \E r \in Runs : StoreStep(r) \/ \E f \in Fences : WorkerStep(r, f)

Spec == Init /\ [][Next]_vars

-----------------------------------------------------------------------------
(* Properties                                                              *)

(* Every column holds a value of its declared domain.                      *)
TypeOK ==
    /\ now \in Nat
    /\ run \in [Runs -> Row]
    /\ exec \in [Runs -> [Fences -> Execution]]

Known == {r \in Runs : run[r].status # "absent"}

(* Two runs a worker could confuse the order of: both of one conversation, *)
(* both owned by the ledger.                                               *)
Competing(q, r) ==
    /\ q # r
    /\ {q, r} \subseteq Known \ Legacy
    /\ OrderingKey[q] = OrderingKey[r]

(* A run no worker ever gets before an older run of its conversation is    *)
(* over: if q was created and admitted before r, r has been claimed only   *)
(* if q is settled.  About claimNextInteractiveRun's NOT EXISTS, against   *)
(* every other transaction that moves either run.                          *)
AdmissionOrderRespected ==
    \A q, r \in Runs :
        (/\ Competing(q, r)
         /\ q < r
         /\ run[q].sequence < run[r].sequence
         /\ run[r].fence > 0) => run[q].status = "settled"

(* driver.ts:62 calls it "ordering exclusion": one conversation's messages *)
(* are worked on one at a time.  It depends on created_at, stamped by the  *)
(* webhook before its admission commits, agreeing with the commit order.   *)
OneLeasePerOrderingKey ==
    \A q, r \in Runs :
        Competing(q, r) => NoLease \in {run[q].lease, run[r].lease}

(* A leased run can always be reclaimed: its status is one the expiry      *)
(* reconciliation looks for, so no step leaves a lease behind on a run     *)
(* that is over, parked or waiting.                                        *)
LeaseIsReclaimable ==
    \A r \in Runs : run[r].lease # NoLease =>
        /\ r \notin Legacy
        /\ run[r].status \in {"preparing_input", "input_ready", "executing",
                               "response_ready"}

(* Evidence never leads the fence: an execution exists only under a token  *)
(* that was handed out, and a delivery attempt only beside an execution    *)
(* and a response.                                                         *)
EvidenceIsFenced ==
    \A r \in Runs :
        /\ \A f \in Fences : HasExecution(r, f) => f <= run[r].fence
        /\ run[r].attempt # NoAttempt =>
              /\ run[r].attempt <= run[r].fence
              /\ run[r].response # NoResponse
              /\ \E f \in Fences : HasExecution(r, f)

(* A fencing token replaces another only when nobody holds the lease any   *)
(* more: a worker that keeps renewing in time is never replaced.           *)
NoLiveLeaseTaken ==
    [][\A r \in Runs \ Legacy : run'[r].fence # run[r].fence =>
          run[r].lease = NoLease \/ run[r].lease < now]_vars

(* A run set aside for an operator is never worked on again: it moves only *)
(* to settled, and never gets a new execution or a new delivery attempt;   *)
(* and no worker that answers late rewrites an operator's quarantine.      *)
ParkedIsNotRevived ==
    [][\A r \in Runs :
          /\ run[r].status = "recovery_required" =>
                /\ run'[r].status \in {"recovery_required", "settled"}
                /\ run'[r].fence = run[r].fence
                /\ run'[r].delivery = "pending" => run[r].delivery = "pending"
                /\ \A f \in Fences :
                      HasExecution(r, f)' => HasExecution(r, f)
          /\ run[r].resolved => run'[r].disposition = "quarantined"]_vars

(* What was approved is what is sent: a response changes only after a      *)
(* confirmed delivery failure; before that neither its answer nor its      *)
(* render may be replaced, by this worker or by the next one, and a        *)
(* message that may be on its way keeps the attempt it went out under.     *)
ApprovedAnswerStable ==
    [][\A r \in Runs :
          /\ (run[r].response # NoResponse /\ run'[r].response # run[r].response)
                => run[r].delivery = "failed"
          /\ (run[r].delivery = "pending" /\ run'[r].delivery # "not_applicable")
                => run'[r].attempt = run[r].attempt]_vars

(* The evidence that a model was called survives: a settled execution is   *)
(* frozen, and an invoked one can be settled but not made uninvoked.       *)
InvocationEvidenceKept ==
    [][\A r \in Runs, f \in Fences : HasExecution(r, f) =>
          /\ exec[r][f].outcome # "pending" => exec'[r][f].outcome = exec[r][f].outcome
          /\ exec[r][f].model \in {"invoked", "settled"}
               => exec'[r][f].model \in {"invoked", "settled"}]_vars

-----------------------------------------------------------------------------
(* What a run's row amounts to, for a reader who knows nothing of workers. *)

PhaseOf(row) ==
    CASE row.status = "absent" -> "absent"
      [] row.status = "settled" -> "closed"
      [] row.status = "recovery_required" -> "parked"
      [] OTHER -> "open"

AnswerOf(row) ==
    CASE row.delivery = "pending" -> "offered"
      [] row.delivery = "delivered" -> "given"
      [] row.delivery = "failed" -> "refused"
      [] row.delivery = "unknown" -> "lost"
      [] OTHER -> "none"

Promise == INSTANCE RunPromise
             WITH phase <- [r \in Runs |-> PhaseOf(run[r])],
                  answer <- [r \in Runs |-> AnswerOf(run[r])]

(* The ledger keeps its promise, whatever its callers do: no message is    *)
(* offered while another may still arrive, and none after one was given or *)
(* lost track of.                                                          *)
KeepsPromise == Promise!Spec

=============================================================================
