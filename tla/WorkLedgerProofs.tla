--------------------------- MODULE WorkLedgerProofs ---------------------------
(***************************************************************************)
(* Theorems about WorkLedger, for every set of runs, every assignment of   *)
(* conversations and authorities, and every bound.                         *)
(*                                                                         *)
(* The inductive invariant is LedgerInv.  Besides the types it says, row   *)
(* by row, what the transactions rely on without reading it: the table's   *)
(* CHECKs hold, a row not yet admitted is blank, a lease is only on a row  *)
(* that can be reclaimed, and nothing was sent before a response.          *)
(***************************************************************************)
EXTENDS WorkLedger, TLAPS

BeforeResponse == {"absent", "admitted", "queued", "preparing_input",
                   "input_ready", "executing"}
Reclaimable == {"preparing_input", "input_ready", "executing",
                "response_ready"}

RowInv(r, row) ==
    /\ row \in Row
    /\ RowChecks(row)
    /\ row.status = "absent" => row = NewRow
    /\ row.lease # NoLease =>
          r \notin Legacy /\ row.status \in Reclaimable /\ row.fence > 0
    /\ row.status \in BeforeResponse => row.delivery = "not_ready"

ExecTypeOK == exec \in [Runs -> [Fences -> Execution]]

RowsInv ==
    /\ run \in [Runs -> Row]
    /\ \A r \in Runs : RowInv(r, run[r])

LedgerInv == now \in Nat /\ RowsInv /\ ExecTypeOK

-----------------------------------------------------------------------------
(* One row changes, the others stay.                                       *)

LEMMA OneRowChanges ==
    ASSUME RowsInv, NEW r \in Runs, NEW row, RowInv(r, row),
           run' = [run EXCEPT ![r] = row]
    PROVE  RowsInv'
BY DEF RowsInv, RowInv, RowChecks

LEMMA OneExecutionChanges ==
    ASSUME ExecTypeOK, NEW r \in Runs, NEW f \in Fences, NEW e \in Execution,
           exec' = [exec EXCEPT ![r][f] = e]
    PROVE  ExecTypeOK'
BY DEF ExecTypeOK

LEMMA InitLedgerInv == Init => LedgerInv
<1>1. NewRow \in Row /\ \A r \in Runs : RowInv(r, NewRow)
  BY DEF NewRow, Row, RowInv, RowChecks, Statuses, Dispositions, Deliveries,
         Responses, NoResponse, NoLease, NoAttempt, BeforeResponse
<1>2. NoExecution \in Execution
  BY DEF Execution
<1> QED
  BY <1>1, <1>2 DEF Init, LedgerInv, RowsInv, ExecTypeOK

LEMMA FencesAreNumbers == Fences \subseteq Nat \ {0}
BY FenceAssumption DEF Fences

(* Reconciliation changes only the lease and the status of a row.          *)
LEMMA ReconciledRow ==
    ASSUME RowsInv, NEW r \in Runs
    PROVE  /\ RowInv(r, Reconciled(r))
           /\ Reconciled(r).fence = run[r].fence
           /\ Reconciled(r).sequence = run[r].sequence
           /\ Reconciled(r).delivery = run[r].delivery
           /\ \/ Reconciled(r) = run[r]
              \/ /\ run[r].status \in Reclaimable
                 /\ Reconciled(r).status
                      \in {"recovery_required", "response_ready",
                           "input_ready", "queued"}
<1>1. CASE ~Expired(r)
  BY <1>1 DEF Reconciled, RowsInv
<1>2. CASE Expired(r)
  <2>1. /\ run[r] \in Row /\ RowInv(r, run[r]) /\ run[r].status \in Reclaimable
        /\ r \notin Legacy
    BY <1>2 DEF RowsInv, Expired, Reclaimable
  <2>2. PICK s \in {"recovery_required", "response_ready", "input_ready",
                    "queued"} :
          /\ Reconciled(r) = [run[r] EXCEPT !.lease = NoLease, !.status = s]
          /\ s = "response_ready" => run[r].status = "response_ready"
          /\ s = "input_ready" => run[r].prepared
          /\ s \in {"input_ready", "queued"}
               => run[r].status # "response_ready"
    BY <1>2, <2>1 DEF Reconciled, RequeueStatus, Row, Reclaimable
  <2>3. Reconciled(r) \in Row
    <3>1. s \in Statuses /\ NoLease \in Nat
      BY DEF Statuses, NoLease
    <3> QED BY <2>1, <2>2, <3>1 DEF Row
  <2>4. RowInv(r, Reconciled(r))
    BY <2>1, <2>2, <2>3 DEF RowInv, RowChecks, Row, Reclaimable,
       BeforeResponse, NoLease
  <2> QED
    BY <2>1, <2>2, <2>4 DEF Row
<1> QED BY <1>1, <1>2

-----------------------------------------------------------------------------
(* Every transaction keeps LedgerInv.                                      *)

(* What the constants and the tokens give each of the proofs below.        *)
LEMMA SmallValues ==
    /\ NoLease \in Nat /\ NoAttempt \in Nat /\ NoResponse \in Responses
    /\ Answers \X Renders \subseteq Responses
    /\ \A x \in Answers \X Renders : x # NoResponse
BY DEF NoLease, NoAttempt, NoResponse, Responses

(* A row of the table that is committed with its CHECKs satisfied.         *)
LEMMA CommitKeepsRows ==
    ASSUME RowsInv, NEW r \in Runs, NEW row \in Row, Commit(r, row),
           row.status = "absent" => row = NewRow,
           row.lease # NoLease =>
             r \notin Legacy /\ row.status \in Reclaimable /\ row.fence > 0,
           row.status \in BeforeResponse => row.delivery = "not_ready"
    PROVE  RowsInv'
<1>1. RowInv(r, row) /\ run' = [run EXCEPT ![r] = row]
  BY DEF Commit, RowInv
<1> QED BY <1>1, OneRowChanges

LEMMA AdmissionAndLeases ==
    ASSUME LedgerInv, NEW r \in Runs, NEW f \in Fences
    PROVE  /\ AdmitShadowRun(r) => RowsInv'
           /\ RenewRunLease(r, f) => RowsInv'
           /\ ReleaseSettled(r, f) => RowsInv'
           /\ ReleaseForRecovery(r, f) => RowsInv'
           /\ ReleaseRequeue(r, f) => RowsInv'
<1> DEFINE row == run[r]
<1>1. /\ RowsInv /\ row \in Row /\ RowInv(r, row) /\ now \in Nat
      /\ LeaseDuration \in Nat /\ now + LeaseDuration \in Nat
      /\ \A q \in Runs : run[q].sequence + 1 \in Nat
  BY LeaseAssumption DEF LedgerInv, RowsInv, Row
<1> USE SmallValues
<1>2. ASSUME AdmitShadowRun(r) PROVE RowsInv'
  <2>1. PICK q \in Runs :
          Commit(r, [row EXCEPT !.status = "admitted",
                                !.sequence = run[q].sequence + 1])
    BY <1>2 DEF AdmitShadowRun
  <2>2. row = NewRow
    BY <1>1, <1>2 DEF AdmitShadowRun, RowInv
  <2> DEFINE new == [row EXCEPT !.status = "admitted",
                                !.sequence = run[q].sequence + 1]
  <2>3. row.lease = NoLease /\ row.delivery = "not_ready"
    BY <2>2 DEF NewRow
  <2>4. new \in Row /\ new.status = "admitted" /\ new.lease = NoLease
        /\ new.delivery = "not_ready"
    BY <1>1, <2>3 DEF Row, Statuses
  <2> QED BY <1>1, <2>1, <2>4, CommitKeepsRows
<1>3. ASSUME RenewRunLease(r, f) PROVE RowsInv'
  <2> DEFINE new == [row EXCEPT !.lease = now + LeaseDuration]
  <2>1. /\ new \in Row /\ new.status = row.status
        /\ new.delivery = row.delivery /\ new.fence = row.fence
    BY <1>1 DEF Row
  <2>2. row.status \in Reclaimable /\ r \notin Legacy /\ row.fence > 0
    BY <1>1, <1>3 DEF RenewRunLease, OwnsLease, RowInv
  <2>3. Commit(r, new)
    BY <1>3 DEF RenewRunLease
  <2> QED BY <1>1, <2>1, <2>2, <2>3, CommitKeepsRows DEF RowInv, Reclaimable
<1>4. ASSUME ReleaseSettled(r, f) PROVE RowsInv'
  <2> DEFINE new == [row EXCEPT
                       !.status = "settled", !.disposition = "skipped",
                       !.delivery = IF @ = "not_ready" THEN "not_applicable"
                                    ELSE @,
                       !.lease = NoLease]
  <2>1. new \in Row /\ new.status = "settled" /\ new.lease = NoLease
    BY <1>1 DEF Row, Statuses, Dispositions, Deliveries
  <2>2. Commit(r, new)
    BY <1>4 DEF ReleaseSettled
  <2> QED BY <1>1, <2>1, <2>2, CommitKeepsRows DEF BeforeResponse
<1>5. ASSUME ReleaseForRecovery(r, f) PROVE RowsInv'
  <2> DEFINE new == [row EXCEPT !.status = "recovery_required",
                                !.lease = NoLease]
  <2>1. new \in Row /\ new.status = "recovery_required"
        /\ new.lease = NoLease
    BY <1>1 DEF Row, Statuses
  <2>2. Commit(r, new)
    BY <1>5 DEF ReleaseForRecovery
  <2> QED BY <1>1, <2>1, <2>2, CommitKeepsRows DEF BeforeResponse
<1>6. ASSUME ReleaseRequeue(r, f) PROVE RowsInv'
  <2> DEFINE new == [row EXCEPT !.status = RequeueStatus(row),
                                !.lease = NoLease]
  <2>1. row.status \in Reclaimable
    BY <1>1, <1>6 DEF ReleaseRequeue, OwnsLease, RowInv
  <2>2. RequeueStatus(row) \in {"response_ready", "input_ready", "queued"}
        /\ (RequeueStatus(row) = "response_ready" <=>
               row.status = "response_ready")
    BY DEF RequeueStatus
  <2>3. new \in Row /\ new.status = RequeueStatus(row)
        /\ new.lease = NoLease /\ new.delivery = row.delivery
    BY <1>1, <2>2 DEF Row, Statuses
  <2>4. Commit(r, new)
    BY <1>6 DEF ReleaseRequeue
  <2> QED BY <1>1, <2>1, <2>2, <2>3, <2>4, CommitKeepsRows
          DEF BeforeResponse, Reclaimable, RowInv
<1> QED BY <1>2, <1>3, <1>4, <1>5, <1>6

LEMMA ExecutionKeepsRows ==
    ASSUME LedgerInv, NEW r \in Runs, NEW f \in Fences
    PROVE  /\ PrepareRunInput(r) => RowsInv'
           /\ CreateRunExecution(r, f) => RowsInv'
           /\ \A x \in Answers \X Renders : RecordRunResponse(r, f, x) => RowsInv'
<1> DEFINE row == run[r]
<1>1. RowsInv /\ row \in Row /\ RowInv(r, row) /\ f \in Nat
  BY FencesAreNumbers DEF LedgerInv, RowsInv
<1> USE SmallValues
<1>2. ASSUME PrepareRunInput(r) PROVE RowsInv'
  <2>1. CASE ~row.prepared
    <3> DEFINE new == [row EXCEPT !.prepared = TRUE, !.status = "input_ready"]
    <3>1. Commit(r, new) /\ row.status \in {"admitted", "queued",
                                            "preparing_input"}
      BY <1>2, <2>1 DEF PrepareRunInput
    <3>2. new \in Row /\ new.status = "input_ready"
          /\ new.lease = row.lease /\ new.delivery = row.delivery
          /\ new.fence = row.fence
      BY <1>1 DEF Row, Statuses
    <3> QED BY <1>1, <3>1, <3>2, CommitKeepsRows
            DEF RowInv, BeforeResponse, Reclaimable
  <2>2. CASE row.prepared
    <3> DEFINE new == [row EXCEPT
                         !.status = "input_ready", !.response = NoResponse,
                         !.delivery = "not_ready", !.attempt = NoAttempt]
    <3>1. Commit(r, new)
      BY <1>2, <2>2 DEF PrepareRunInput
    <3>2. new \in Row /\ new.status = "input_ready"
          /\ new.lease = row.lease /\ new.delivery = "not_ready"
          /\ new.fence = row.fence
      BY <1>1 DEF Row, Statuses, Deliveries
    <3> QED BY <1>1, <3>1, <3>2, CommitKeepsRows DEF RowInv, Reclaimable
  <2> QED BY <2>1, <2>2
<1>3. ASSUME CreateRunExecution(r, f) PROVE RowsInv'
  <2> DEFINE new == [row EXCEPT !.status = "executing", !.fence = f]
  <2>1. Commit(r, new) /\ row.status = "input_ready"
    BY <1>3 DEF CreateRunExecution
  <2>2. new \in Row /\ new.status = "executing"
        /\ new.lease = row.lease /\ new.delivery = row.delivery
        /\ new.fence = f
    BY <1>1 DEF Row, Statuses
  <2>3. f > 0
    BY FencesAreNumbers
  <2> QED BY <1>1, <2>1, <2>2, <2>3, CommitKeepsRows
          DEF RowInv, BeforeResponse, Reclaimable
<1>4. ASSUME NEW x \in Answers \X Renders, RecordRunResponse(r, f, x)
      PROVE  RowsInv'
  <2>1. CASE row.response = NoResponse
    <3> DEFINE new == [row EXCEPT !.response = x, !.status = "response_ready",
                                  !.delivery = "not_ready"]
    <3>1. Commit(r, new)
      BY <1>4, <2>1 DEF RecordRunResponse
    <3>2. new \in Row /\ new.status = "response_ready"
          /\ new.lease = row.lease /\ new.fence = row.fence
      BY <1>1 DEF Row, Statuses, Deliveries
    <3> QED BY <1>1, <3>1, <3>2, CommitKeepsRows, <1>4, <2>1
            DEF RowInv, BeforeResponse, Reclaimable, RecordRunResponse
  <2>2. CASE row.response # NoResponse
    <3> DEFINE new == [row EXCEPT !.response = x, !.delivery = "not_ready",
                                  !.attempt = NoAttempt]
    <3>1. Commit(r, new) /\ row.delivery = "failed"
      BY <1>4, <2>2 DEF RecordRunResponse
    <3>2. new \in Row /\ new.status = row.status /\ new.lease = row.lease
          /\ new.fence = row.fence
      BY <1>1 DEF Row, Deliveries
    <3> QED BY <1>1, <3>1, <3>2, CommitKeepsRows
            DEF RowInv, BeforeResponse, Reclaimable
  <2> QED BY <2>1, <2>2
<1> QED BY <1>2, <1>3, <1>4

LEMMA DeliveryKeepsRows ==
    ASSUME LedgerInv, NEW r \in Runs, NEW f \in Fences, NEW a \in Fences
    PROVE  /\ StartRunDelivery(r, f) => RowsInv'
           /\ \A d \in {"succeeded", "failed"} :
                FinalizeDelivered(r, f, a, d) => RowsInv'
           /\ FinalizeUnknown(r, f, a) => RowsInv'
           /\ FinalizeFailed(r, f, a) => RowsInv'
           /\ \A d \in {"failed", "skipped"} :
                SettleRunWithoutDelivery(r, f, d) => RowsInv'
<1> DEFINE row == run[r]
<1>1. RowsInv /\ row \in Row /\ RowInv(r, row) /\ f \in Nat
  BY FencesAreNumbers DEF LedgerInv, RowsInv
<1> USE SmallValues
<1>2. ASSUME StartRunDelivery(r, f) PROVE RowsInv'
  <2> DEFINE new == [row EXCEPT !.delivery = "pending", !.attempt = f]
  <2>1. Commit(r, new) /\ row.status = "response_ready"
    BY <1>2 DEF StartRunDelivery
  <2>2. new \in Row /\ new.status = row.status /\ new.lease = row.lease
        /\ new.fence = row.fence
    BY <1>1 DEF Row, Deliveries
  <2> QED BY <1>1, <2>1, <2>2, CommitKeepsRows
          DEF RowInv, BeforeResponse, Reclaimable
<1>3. ASSUME NEW d \in {"succeeded", "failed"}, FinalizeDelivered(r, f, a, d)
      PROVE  RowsInv'
  <2> DEFINE new == [row EXCEPT !.delivery = "delivered",
                                !.status = "settled", !.disposition = d,
                                !.lease = NoLease]
  <2>1. Commit(r, new)
    BY <1>3 DEF FinalizeDelivered
  <2>2. new \in Row /\ new.status = "settled" /\ new.lease = NoLease
    BY <1>1 DEF Row, Statuses, Deliveries, Dispositions
  <2> QED BY <1>1, <2>1, <2>2, CommitKeepsRows DEF BeforeResponse
<1>4. ASSUME FinalizeUnknown(r, f, a) PROVE RowsInv'
  <2> DEFINE new == [row EXCEPT !.delivery = "unknown",
                                !.status = "recovery_required",
                                !.lease = NoLease]
  <2>1. Commit(r, new)
    BY <1>4 DEF FinalizeUnknown
  <2>2. new \in Row /\ new.status = "recovery_required"
        /\ new.lease = NoLease
    BY <1>1 DEF Row, Statuses, Deliveries
  <2> QED BY <1>1, <2>1, <2>2, CommitKeepsRows DEF BeforeResponse
<1>5. ASSUME FinalizeFailed(r, f, a) PROVE RowsInv'
  <2> DEFINE new == [row EXCEPT !.delivery = "failed"]
  <2>1. Commit(r, new) /\ row.delivery = "pending"
    BY <1>5 DEF FinalizeFailed, PendingAttempt
  <2>2. new \in Row /\ new.status = row.status /\ new.lease = row.lease
        /\ new.fence = row.fence
    BY <1>1 DEF Row, Deliveries
  <2> QED BY <1>1, <2>1, <2>2, CommitKeepsRows
          DEF RowInv, BeforeResponse, Reclaimable
<1>6. ASSUME NEW d \in {"failed", "skipped"},
             SettleRunWithoutDelivery(r, f, d)
      PROVE  RowsInv'
  <2> DEFINE new == [row EXCEPT !.status = "settled", !.disposition = d,
                                !.delivery = "not_applicable",
                                !.attempt = NoAttempt, !.lease = NoLease]
  <2>1. Commit(r, new)
    BY <1>6 DEF SettleRunWithoutDelivery
  <2>2. new \in Row /\ new.status = "settled" /\ new.lease = NoLease
    BY <1>1 DEF Row, Statuses, Deliveries, Dispositions
  <2> QED BY <1>1, <2>1, <2>2, CommitKeepsRows DEF BeforeResponse
<1> QED BY <1>2, <1>3, <1>4, <1>5, <1>6

LEMMA RecoveryKeepsRows ==
    ASSUME LedgerInv, NEW r \in Runs, NEW f \in Fences
    PROVE  /\ RecordUnknownAction(r, f) => RowsInv'
           /\ RequireRecovery(r) => RowsInv'
           /\ QuarantineRun(r) => RowsInv'
<1> DEFINE row == run[r]
           parked == [row EXCEPT !.status = "recovery_required",
                                 !.lease = NoLease]
           closed == [row EXCEPT !.status = "settled",
                                 !.disposition = "quarantined",
                                 !.resolved = TRUE, !.lease = NoLease]
<1>1. RowsInv /\ row \in Row
  BY DEF LedgerInv, RowsInv
<1>2. /\ parked \in Row /\ parked.status = "recovery_required"
      /\ parked.lease = NoLease
  BY <1>1, SmallValues DEF Row, Statuses
<1>3. /\ closed \in Row /\ closed.status = "settled"
      /\ closed.lease = NoLease
  BY <1>1, SmallValues DEF Row, Statuses, Dispositions
<1>4. Commit(r, parked) => RowsInv'
  BY <1>1, <1>2, CommitKeepsRows DEF BeforeResponse
<1>5. Commit(r, closed) => RowsInv'
  BY <1>1, <1>3, CommitKeepsRows DEF BeforeResponse
<1> QED BY <1>4, <1>5 DEF RecordUnknownAction, RequireRecovery, QuarantineRun

LEMMA ClaimsKeepRows ==
    ASSUME LedgerInv, NEW r \in Runs
    PROVE  /\ ClaimNextInteractiveRun(r) => RowsInv'
           /\ ClaimFindsNothing => RowsInv'
<1> DEFINE row == Reconciled(r)
           new == [row EXCEPT
                     !.status = IF @ \in {"admitted", "queued"}
                                THEN "preparing_input" ELSE @,
                     !.lease = now + LeaseDuration,
                     !.fence = @ + 1]
<1>1. /\ \A q \in Runs : RowInv(q, Reconciled(q))
      /\ now + LeaseDuration \in Nat
  BY ReconciledRow, LeaseAssumption DEF LedgerInv
<1>2. ReconciledRuns \in [Runs -> Row]
      /\ \A q \in Runs : ReconciledRuns[q] = Reconciled(q)
  BY <1>1 DEF ReconciledRuns, RowInv
<1>3. ASSUME ClaimNextInteractiveRun(r) PROVE RowsInv'
  <2>1. /\ run' = [ReconciledRuns EXCEPT ![r] = new]
        /\ r \notin Legacy
        /\ row.status \in {"admitted", "queued", "input_ready",
                           "response_ready"}
    BY <1>2, <1>3 DEF ClaimNextInteractiveRun, Claimable
  <2>2. new \in Row
    <3> DEFINE s == IF row.status \in {"admitted", "queued"}
                    THEN "preparing_input" ELSE row.status
    <3>1. row \in Row /\ row.fence + 1 \in Nat /\ s \in Statuses
      BY <1>1 DEF Row, Statuses, RowInv
    <3>2. new = [row EXCEPT !.status = s, !.lease = now + LeaseDuration,
                            !.fence = row.fence + 1]
      BY <3>1 DEF Row
    <3> HIDE DEF s
    <3> QED BY <1>1, <3>1, <3>2 DEF Row
  <2>3. /\ new.status \in Reclaimable
        /\ new.status = "response_ready" <=> row.status = "response_ready"
        /\ new.status # "absent" /\ new.status # "settled"
        /\ new.fence = row.fence + 1 /\ new.fence > 0
        /\ new.status \in {"preparing_input", row.status}
        /\ new.delivery = row.delivery /\ new.response = row.response
        /\ new.attempt = row.attempt /\ new.prepared = row.prepared
        /\ new.disposition = row.disposition /\ new.resolved = row.resolved
    BY <1>1, <2>1 DEF Row, RowInv, Reclaimable
  <2>4. RowInv(r, new)
    BY <1>1, <2>1, <2>2, <2>3 DEF RowInv, RowChecks, BeforeResponse
  <2> QED BY <1>1, <1>2, <2>1, <2>2, <2>4 DEF RowsInv
<1>4. ASSUME ClaimFindsNothing PROVE RowsInv'
  BY <1>1, <1>2, <1>4 DEF ClaimFindsNothing, RowsInv
<1> QED BY <1>3, <1>4

(* What an execution may become: every transaction that writes one writes  *)
(* a value of its domain.                                                  *)
LEMMA ExecutionsKeepTypes ==
    ASSUME LedgerInv, NEW r \in Runs, NEW f \in Fences
    PROVE  /\ CreateRunExecution(r, f) => ExecTypeOK'
           /\ \A auth \in BOOLEAN :
                RecordRunExecutionRoute(r, f, auth) => ExecTypeOK'
           /\ MarkRunExecutionInvoked(r, f) => ExecTypeOK'
           /\ \A x \in Settlements :
                SettleRunExecution(r, f, x[1], x[2]) => ExecTypeOK'
<1> DEFINE e == exec[r][f]
<1>1. ExecTypeOK /\ e \in Execution
  BY DEF LedgerInv, ExecTypeOK
<1>2. HasExecution(r, f) => e \in Attempted
  BY <1>1 DEF HasExecution, Execution
<1>3. ASSUME NEW new \in Attempted, CommitExecution(r, f, new)
      PROVE  ExecTypeOK'
  BY <1>1, <1>3, OneExecutionChanges DEF CommitExecution, Execution
<1>4. CreateRunExecution(r, f) => ExecTypeOK'
  <2> DEFINE new == [model |-> "not_invoked", outcome |-> "pending",
                     auth |-> FALSE]
  <2>1. new \in Attempted
    BY DEF Attempted, Invocations, Outcomes
  <2> QED BY <1>3, <2>1 DEF CreateRunExecution
<1>5. ASSUME NEW auth \in BOOLEAN, RecordRunExecutionRoute(r, f, auth)
      PROVE  ExecTypeOK'
  <2> DEFINE new == [e EXCEPT !.model = "ready", !.auth = auth]
  <2>1. new \in Attempted /\ CommitExecution(r, f, new)
    BY <1>2, <1>5 DEF RecordRunExecutionRoute, Attempted, Invocations
  <2> QED BY <1>3, <2>1
<1>6. ASSUME MarkRunExecutionInvoked(r, f) PROVE ExecTypeOK'
  <2> DEFINE new == [e EXCEPT !.model = "invoked"]
  <2>1. new \in Attempted /\ CommitExecution(r, f, new)
    BY <1>2, <1>6 DEF MarkRunExecutionInvoked, CurrentExecution, Attempted,
                      Invocations
  <2> QED BY <1>3, <2>1
<1>7. ASSUME NEW x \in Settlements, SettleRunExecution(r, f, x[1], x[2])
      PROVE  ExecTypeOK'
  <2> DEFINE new == [e EXCEPT !.model = x[2], !.outcome = x[1]]
  <2>1. x[1] \in Outcomes /\ x[2] \in Invocations
    BY DEF Settlements, Outcomes, Invocations
  <2>2. new \in Attempted /\ CommitExecution(r, f, new)
    BY <1>2, <1>7, <2>1 DEF SettleRunExecution, MaySettle, CurrentExecution, Attempted
  <2> QED BY <1>3, <2>2
<1> QED BY <1>4, <1>5, <1>6, <1>7

LEMMA WorkerStepKeepsLedgerInv ==
    ASSUME LedgerInv, NEW r \in Runs, NEW f \in Fences, WorkerStep(r, f)
    PROVE  LedgerInv'
<1>1. CASE \/ RenewRunLease(r, f) \/ ReleaseSettled(r, f)
           \/ ReleaseForRecovery(r, f) \/ ReleaseRequeue(r, f)
  BY <1>1, AdmissionAndLeases
     DEF LedgerInv, ExecTypeOK, RenewRunLease, ReleaseSettled,
         ReleaseForRecovery, ReleaseRequeue
<1>2. CASE CreateRunExecution(r, f)
  BY <1>2, ExecutionKeepsRows, ExecutionsKeepTypes
     DEF LedgerInv, CreateRunExecution
<1>3. CASE \E auth \in BOOLEAN : RecordRunExecutionRoute(r, f, auth)
  BY <1>3, ExecutionsKeepTypes
     DEF LedgerInv, RowsInv, RecordRunExecutionRoute
<1>4. CASE MarkRunExecutionInvoked(r, f)
  BY <1>4, ExecutionsKeepTypes
     DEF LedgerInv, RowsInv, MarkRunExecutionInvoked
<1>5. CASE \E x \in Settlements : SettleRunExecution(r, f, x[1], x[2])
  BY <1>5, ExecutionsKeepTypes DEF LedgerInv, RowsInv, SettleRunExecution, MaySettle
<1>6. CASE \E x \in Answers \X Renders : RecordRunResponse(r, f, x)
  BY <1>6, ExecutionKeepsRows DEF LedgerInv, ExecTypeOK, RecordRunResponse
<1>7. CASE \/ StartRunDelivery(r, f)
           \/ \E a \in Fences, d \in {"succeeded", "failed"} :
                 FinalizeDelivered(r, f, a, d)
           \/ \E a \in Fences : FinalizeUnknown(r, f, a)
                                  \/ FinalizeFailed(r, f, a)
           \/ \E d \in {"failed", "skipped"} :
                 SettleRunWithoutDelivery(r, f, d)
  BY <1>7, DeliveryKeepsRows
     DEF LedgerInv, ExecTypeOK, StartRunDelivery, FinalizeDelivered,
         FinalizeUnknown, FinalizeFailed, SettleRunWithoutDelivery
<1>8. CASE RecordUnknownAction(r, f)
  BY <1>8, RecoveryKeepsRows DEF LedgerInv, ExecTypeOK, RecordUnknownAction
<1> QED
  BY <1>1, <1>2, <1>3, <1>4, <1>5, <1>6, <1>7, <1>8 DEF WorkerStep

LEMMA StoreStepKeepsLedgerInv ==
    ASSUME LedgerInv, NEW r \in Runs, StoreStep(r)
    PROVE  LedgerInv'
<1>1. PICK f \in Fences : TRUE
  BY FenceAssumption DEF Fences
<1>2. CASE AdmitShadowRun(r)
  BY <1>1, <1>2, AdmissionAndLeases DEF LedgerInv, ExecTypeOK, AdmitShadowRun
<1>3. CASE ClaimNextInteractiveRun(r)
  BY <1>3, ClaimsKeepRows DEF LedgerInv, ExecTypeOK, ClaimNextInteractiveRun
<1>4. CASE PrepareRunInput(r)
  BY <1>1, <1>4, ExecutionKeepsRows DEF LedgerInv, ExecTypeOK, PrepareRunInput
<1>5. CASE RequireRecovery(r)
  BY <1>1, <1>5, RecoveryKeepsRows DEF LedgerInv, ExecTypeOK, RequireRecovery
<1>6. CASE QuarantineRun(r)
  BY <1>1, <1>6, RecoveryKeepsRows DEF LedgerInv, ExecTypeOK, QuarantineRun
<1> QED BY <1>2, <1>3, <1>4, <1>5, <1>6 DEF StoreStep

LEMMA NextKeepsLedgerInv == LedgerInv /\ [Next]_vars => LedgerInv'
<1> SUFFICES ASSUME LedgerInv, [Next]_vars PROVE LedgerInv'
  OBVIOUS
<1>1. CASE Tick
  BY <1>1 DEF Tick, LedgerInv, RowsInv, ExecTypeOK
<1>2. CASE ClaimFindsNothing
  <2>1. RowsInv'
    <3>1. CASE Runs = {}
      BY <1>2, <3>1 DEF ClaimFindsNothing, ReconciledRuns, LedgerInv, RowsInv
    <3>2. CASE Runs # {}
      BY <1>2, <3>2, ClaimsKeepRows
    <3> QED BY <3>1, <3>2
  <2> QED BY <1>2, <2>1 DEF ClaimFindsNothing, LedgerInv, ExecTypeOK
<1>3. CASE \E r \in Runs : StoreStep(r)
  BY <1>3, StoreStepKeepsLedgerInv
<1>4. CASE \E r \in Runs, f \in Fences : WorkerStep(r, f)
  BY <1>4, WorkerStepKeepsLedgerInv
<1>5. CASE UNCHANGED vars
  BY <1>5 DEF vars, LedgerInv, RowsInv, ExecTypeOK
<1> QED BY <1>1, <1>2, <1>3, <1>4, <1>5 DEF Next

THEOREM LedgerInvariant == Spec => []LedgerInv
BY InitLedgerInv, NextKeepsLedgerInv, PTL DEF Spec

(* Every column of both tables keeps its type.                             *)
THEOREM TypeCorrectness == Spec => []TypeOK
<1>1. LedgerInv => TypeOK
  BY DEF LedgerInv, RowsInv, ExecTypeOK, TypeOK
<1> QED BY <1>1, LedgerInvariant, PTL

(* No step leaves a lease behind on a run the expiry reconciliation would  *)
(* not look at.                                                            *)
THEOREM LeasesAreReclaimable == Spec => []LeaseIsReclaimable
<1>1. LedgerInv => LeaseIsReclaimable
  BY DEF LedgerInv, RowsInv, RowInv, LeaseIsReclaimable, Reclaimable
<1> QED BY <1>1, LedgerInvariant, PTL

-----------------------------------------------------------------------------
(* What a step does to a row, as far as the promise and the order of       *)
(* admission are concerned.                                                *)

(* The per-run actions of RunPromise, and setting one run aside.           *)
PromiseMove(p, a, p2, a2) ==
    \/ p2 = p /\ a2 = a
    \/ p = "absent" /\ p2 = "open" /\ a2 = "none"
    \/ p = "open" /\ a \in {"none", "refused"} /\ p2 = "open" /\ a2 = "offered"
    \/ p # "absent" /\ a = "offered" /\ p2 = "closed" /\ a2 = "given"
    \/ p # "absent" /\ a = "offered" /\ p2 = p /\ a2 = "refused"
    \/ p \in {"open", "parked"} /\ a = "offered" /\ p2 = "parked" /\ a2 = "lost"
    \/ a = "refused" /\ p2 = p /\ a2 = "none"
    \/ p = "open" /\ p2 = "parked" /\ a2 = a
    \/ p \in {"open", "parked"} /\ p2 = "closed" /\ a2 = a
    \/ p = "open" /\ p2 = "closed" /\ a2 = "none"

RowMove(r, old, new) ==
    /\ PromiseMove(PhaseOf(old), AnswerOf(old), PhaseOf(new), AnswerOf(new))
    /\ old.status # "absent" => new.sequence = old.sequence
    /\ r \notin Legacy => new.fence = old.fence

MovesRow(r) == \E new \in Row : /\ run' = [run EXCEPT ![r] = new]
                               /\ RowMove(r, run[r], new)

LEMMA NoMove ==
    ASSUME LedgerInv, NEW r \in Runs, run' = run
    PROVE  MovesRow(r)
<1>1. run[r] \in Row /\ run' = [run EXCEPT ![r] = run[r]]
  BY DEF LedgerInv, RowsInv
<1> QED BY <1>1 DEF MovesRow, RowMove, PromiseMove

(* Only four columns matter to RowMove.                                    *)
LEMMA CommitMoves ==
    ASSUME NEW r \in Runs, NEW new \in Row, Commit(r, new),
           RowMove(r, run[r], new)
    PROVE  MovesRow(r)
BY DEF MovesRow, Commit

LEMMA LeaseMoves ==
    ASSUME LedgerInv, NEW r \in Runs, NEW f \in Fences,
           \/ RenewRunLease(r, f) \/ ReleaseSettled(r, f)
           \/ ReleaseForRecovery(r, f) \/ ReleaseRequeue(r, f)
    PROVE  MovesRow(r)
<1> DEFINE row == run[r]
<1>1. /\ row \in Row /\ RowInv(r, row) /\ now + LeaseDuration \in Nat
      /\ row.status \in Reclaimable
  BY LeaseAssumption
     DEF LedgerInv, RowsInv, RowInv, RenewRunLease, ReleaseSettled,
         ReleaseForRecovery, ReleaseRequeue, OwnsLease
<1>2. PhaseOf(row) = "open"
  BY <1>1 DEF PhaseOf, Reclaimable
<1> USE SmallValues
<1>3. CASE RenewRunLease(r, f)
  <2> DEFINE new == [row EXCEPT !.lease = now + LeaseDuration]
  <2>1. /\ Commit(r, new) /\ new \in Row /\ new.status = row.status
        /\ new.delivery = row.delivery /\ new.fence = row.fence
        /\ new.sequence = row.sequence
    BY <1>1, <1>3 DEF RenewRunLease, Row
  <2>2. RowMove(r, row, new)
    BY <2>1 DEF RowMove, PromiseMove, PhaseOf, AnswerOf
  <2> QED BY <2>1, <2>2, CommitMoves
<1>4. CASE ReleaseSettled(r, f)
  <2> DEFINE new == [row EXCEPT
                       !.status = "settled", !.disposition = "skipped",
                       !.delivery = IF @ = "not_ready" THEN "not_applicable"
                                    ELSE @,
                       !.lease = NoLease]
  <2>1. Commit(r, new)
    BY <1>4 DEF ReleaseSettled
  <2>2. /\ new \in Row /\ new.status = "settled"
        /\ new.delivery = IF row.delivery = "not_ready"
                          THEN "not_applicable" ELSE row.delivery
        /\ new.fence = row.fence /\ new.sequence = row.sequence
    BY <1>1 DEF Row, Statuses, Dispositions, Deliveries
  <2>3. PhaseOf(new) = "closed" /\ AnswerOf(new) = AnswerOf(row)
    BY <2>2 DEF PhaseOf, AnswerOf
  <2> QED BY <1>2, <2>1, <2>2, <2>3, CommitMoves DEF RowMove, PromiseMove
<1>5. CASE ReleaseForRecovery(r, f)
  <2> DEFINE new == [row EXCEPT !.status = "recovery_required",
                                !.lease = NoLease]
  <2>1. Commit(r, new)
    BY <1>5 DEF ReleaseForRecovery
  <2>2. /\ new \in Row /\ new.status = "recovery_required"
        /\ new.delivery = row.delivery
        /\ new.fence = row.fence /\ new.sequence = row.sequence
    BY <1>1 DEF Row, Statuses
  <2>3. PhaseOf(new) = "parked" /\ AnswerOf(new) = AnswerOf(row)
    BY <2>2 DEF PhaseOf, AnswerOf
  <2> QED BY <1>2, <2>1, <2>2, <2>3, CommitMoves DEF RowMove, PromiseMove
<1>6. CASE ReleaseRequeue(r, f)
  <2> DEFINE new == [row EXCEPT !.status = RequeueStatus(row),
                                !.lease = NoLease]
  <2>1. Commit(r, new)
    BY <1>6 DEF ReleaseRequeue
  <2>2. RequeueStatus(row) \in {"response_ready", "input_ready", "queued"}
    BY DEF RequeueStatus
  <2>3. /\ new \in Row /\ new.status = RequeueStatus(row)
        /\ new.delivery = row.delivery
        /\ new.fence = row.fence /\ new.sequence = row.sequence
    BY <1>1, <2>2 DEF Row, Statuses
  <2>4. PhaseOf(new) = "open" /\ AnswerOf(new) = AnswerOf(row)
    BY <2>2, <2>3 DEF PhaseOf, AnswerOf
  <2> QED BY <1>2, <2>1, <2>3, <2>4, CommitMoves DEF RowMove, PromiseMove
<1> QED BY <1>3, <1>4, <1>5, <1>6

LEMMA ExecutionMoves ==
    ASSUME LedgerInv, NEW r \in Runs, NEW f \in Fences,
           \/ PrepareRunInput(r)
           \/ CreateRunExecution(r, f)
           \/ \E x \in Answers \X Renders : RecordRunResponse(r, f, x)
    PROVE  MovesRow(r)
<1> DEFINE row == run[r]
<1>1. row \in Row /\ RowInv(r, row) /\ f \in Nat
  BY FencesAreNumbers DEF LedgerInv, RowsInv
<1> USE SmallValues
<1>2. CASE PrepareRunInput(r)
  <2>1. CASE ~row.prepared
    <3> DEFINE new == [row EXCEPT !.prepared = TRUE, !.status = "input_ready"]
    <3>1. Commit(r, new) /\ row.status \in {"admitted", "queued",
                                            "preparing_input"}
      BY <1>2, <2>1 DEF PrepareRunInput
    <3>2. /\ new \in Row /\ new.status = "input_ready"
          /\ new.delivery = row.delivery
          /\ new.fence = row.fence /\ new.sequence = row.sequence
      BY <1>1 DEF Row, Statuses
    <3>3. /\ PhaseOf(row) = "open" /\ PhaseOf(new) = "open"
          /\ AnswerOf(new) = AnswerOf(row)
      BY <3>1, <3>2 DEF PhaseOf, AnswerOf
    <3> QED BY <3>1, <3>2, <3>3, CommitMoves DEF RowMove, PromiseMove
  <2>2. CASE row.prepared
    <3> DEFINE new == [row EXCEPT
                         !.status = "input_ready", !.response = NoResponse,
                         !.delivery = "not_ready", !.attempt = NoAttempt]
    <3>1. Commit(r, new) /\ row.status = "response_ready"
          /\ row.delivery = "failed"
      BY <1>2, <2>2 DEF PrepareRunInput
    <3>2. /\ new \in Row /\ new.status = "input_ready"
          /\ new.delivery = "not_ready"
          /\ new.fence = row.fence /\ new.sequence = row.sequence
      BY <1>1 DEF Row, Statuses, Deliveries
    <3>3. /\ PhaseOf(row) = "open" /\ PhaseOf(new) = "open"
          /\ AnswerOf(row) = "refused" /\ AnswerOf(new) = "none"
      BY <3>1, <3>2 DEF PhaseOf, AnswerOf
    <3> QED BY <3>1, <3>2, <3>3, CommitMoves DEF RowMove, PromiseMove
  <2> QED BY <2>1, <2>2
<1>3. CASE CreateRunExecution(r, f)
  <2> DEFINE new == [row EXCEPT !.status = "executing", !.fence = f]
  <2>1. /\ Commit(r, new) /\ row.status = "input_ready"
        /\ r \notin Legacy => f = row.fence
    BY <1>3 DEF CreateRunExecution, Fenced
  <2>2. /\ new \in Row /\ new.status = "executing"
        /\ new.delivery = row.delivery
        /\ new.fence = f /\ new.sequence = row.sequence
    BY <1>1 DEF Row, Statuses
  <2>3. /\ PhaseOf(row) = "open" /\ PhaseOf(new) = "open"
        /\ AnswerOf(new) = AnswerOf(row)
    BY <2>1, <2>2 DEF PhaseOf, AnswerOf
  <2> QED BY <2>1, <2>2, <2>3, CommitMoves DEF RowMove, PromiseMove
<1>4. ASSUME NEW x \in Answers \X Renders, RecordRunResponse(r, f, x)
      PROVE  MovesRow(r)
  <2>1. CASE row.response = NoResponse
    <3> DEFINE new == [row EXCEPT !.response = x, !.status = "response_ready",
                                  !.delivery = "not_ready"]
    <3>1. Commit(r, new) /\ row.status \in {"executing", "input_ready"}
      BY <1>4, <2>1 DEF RecordRunResponse
    <3>2. row.delivery = "not_ready"
      BY <1>1, <3>1 DEF RowInv, BeforeResponse
    <3>3. /\ new \in Row /\ new.status = "response_ready"
          /\ new.delivery = "not_ready"
          /\ new.fence = row.fence /\ new.sequence = row.sequence
      BY <1>1 DEF Row, Statuses, Deliveries
    <3>4. /\ PhaseOf(row) = "open" /\ PhaseOf(new) = "open"
          /\ AnswerOf(row) = "none" /\ AnswerOf(new) = "none"
      BY <3>1, <3>2, <3>3 DEF PhaseOf, AnswerOf
    <3> QED BY <3>1, <3>3, <3>4, CommitMoves DEF RowMove, PromiseMove
  <2>2. CASE row.response # NoResponse
    <3> DEFINE new == [row EXCEPT !.response = x, !.delivery = "not_ready",
                                  !.attempt = NoAttempt]
    <3>1. Commit(r, new) /\ row.delivery = "failed"
      BY <1>4, <2>2 DEF RecordRunResponse
    <3>2. /\ new \in Row /\ new.status = row.status
          /\ new.delivery = "not_ready"
          /\ new.fence = row.fence /\ new.sequence = row.sequence
      BY <1>1 DEF Row, Deliveries
    <3>3. /\ PhaseOf(new) = PhaseOf(row)
          /\ AnswerOf(row) = "refused" /\ AnswerOf(new) = "none"
      BY <3>1, <3>2 DEF PhaseOf, AnswerOf
    <3> QED BY <3>1, <3>2, <3>3, CommitMoves DEF RowMove, PromiseMove
  <2> QED BY <2>1, <2>2
<1> QED BY <1>2, <1>3, <1>4

LEMMA DeliveryMoves ==
    ASSUME LedgerInv, NEW r \in Runs, NEW f \in Fences,
           \/ StartRunDelivery(r, f)
           \/ \E a \in Fences, d \in {"succeeded", "failed"} :
                 FinalizeDelivered(r, f, a, d)
           \/ \E a \in Fences : FinalizeUnknown(r, f, a)
                                  \/ FinalizeFailed(r, f, a)
           \/ \E d \in {"failed", "skipped"} :
                 SettleRunWithoutDelivery(r, f, d)
    PROVE  MovesRow(r)
<1> DEFINE row == run[r]
<1>1. row \in Row /\ RowInv(r, row) /\ f \in Nat
  BY FencesAreNumbers DEF LedgerInv, RowsInv
<1> USE SmallValues
<1>2. row.delivery = "pending"
        => /\ PhaseOf(row) \in {"open", "parked", "closed"}
           /\ AnswerOf(row) = "offered"
  BY <1>1 DEF RowInv, Row, Statuses, BeforeResponse, PhaseOf, AnswerOf
<1>3. CASE StartRunDelivery(r, f)
  <2> DEFINE new == [row EXCEPT !.delivery = "pending", !.attempt = f]
  <2>1. /\ Commit(r, new) /\ row.status = "response_ready"
        /\ row.delivery \in {"not_ready", "failed"}
    BY <1>3 DEF StartRunDelivery
  <2>2. /\ new \in Row /\ new.status = row.status
        /\ new.delivery = "pending"
        /\ new.fence = row.fence /\ new.sequence = row.sequence
    BY <1>1 DEF Row, Deliveries
  <2>3. /\ PhaseOf(row) = "open" /\ PhaseOf(new) = "open"
        /\ AnswerOf(row) \in {"none", "refused"} /\ AnswerOf(new) = "offered"
    BY <2>1, <2>2 DEF PhaseOf, AnswerOf
  <2> QED BY <2>1, <2>2, <2>3, CommitMoves DEF RowMove, PromiseMove
<1>4. ASSUME NEW a \in Fences, NEW d \in {"succeeded", "failed"},
             FinalizeDelivered(r, f, a, d)
      PROVE  MovesRow(r)
  <2> DEFINE new == [row EXCEPT !.delivery = "delivered",
                                !.status = "settled", !.disposition = d,
                                !.lease = NoLease]
  <2>1. Commit(r, new) /\ row.delivery = "pending"
    BY <1>4 DEF FinalizeDelivered, PendingAttempt
  <2>2. /\ new \in Row /\ new.status = "settled"
        /\ new.delivery = "delivered"
        /\ new.fence = row.fence /\ new.sequence = row.sequence
    BY <1>1 DEF Row, Statuses, Deliveries, Dispositions
  <2>3. PhaseOf(new) = "closed" /\ AnswerOf(new) = "given"
    BY <2>2 DEF PhaseOf, AnswerOf
  <2> QED BY <1>2, <2>1, <2>2, <2>3, CommitMoves DEF RowMove, PromiseMove
<1>5. ASSUME NEW a \in Fences, FinalizeUnknown(r, f, a) PROVE MovesRow(r)
  <2> DEFINE new == [row EXCEPT !.delivery = "unknown",
                                !.status = "recovery_required",
                                !.lease = NoLease]
  <2>1. Commit(r, new) /\ row.delivery = "pending"
    BY <1>5 DEF FinalizeUnknown, PendingAttempt
  <2>2. /\ new \in Row /\ new.status = "recovery_required"
        /\ new.delivery = "unknown" /\ new.disposition = row.disposition
        /\ new.fence = row.fence /\ new.sequence = row.sequence
    BY <1>1 DEF Row, Statuses, Deliveries
  <2>3. row.status # "settled"
    BY <1>1, <2>1, <2>2 DEF Commit, RowChecks, RowInv
  <2>4. /\ PhaseOf(row) \in {"open", "parked"} /\ PhaseOf(new) = "parked"
        /\ AnswerOf(new) = "lost"
    BY <1>2, <2>1, <2>2, <2>3 DEF PhaseOf, AnswerOf
  <2> QED BY <1>2, <2>1, <2>2, <2>4, CommitMoves DEF RowMove, PromiseMove
<1>6. ASSUME NEW a \in Fences, FinalizeFailed(r, f, a) PROVE MovesRow(r)
  <2> DEFINE new == [row EXCEPT !.delivery = "failed"]
  <2>1. Commit(r, new) /\ row.delivery = "pending"
    BY <1>6 DEF FinalizeFailed, PendingAttempt
  <2>2. /\ new \in Row /\ new.status = row.status
        /\ new.delivery = "failed"
        /\ new.fence = row.fence /\ new.sequence = row.sequence
    BY <1>1 DEF Row, Deliveries
  <2>3. PhaseOf(new) = PhaseOf(row) /\ AnswerOf(new) = "refused"
    BY <2>2 DEF PhaseOf, AnswerOf
  <2> QED BY <1>2, <2>1, <2>2, <2>3, CommitMoves DEF RowMove, PromiseMove
<1>7. ASSUME NEW d \in {"failed", "skipped"},
             SettleRunWithoutDelivery(r, f, d)
      PROVE  MovesRow(r)
  <2> DEFINE new == [row EXCEPT !.status = "settled", !.disposition = d,
                                !.delivery = "not_applicable",
                                !.attempt = NoAttempt, !.lease = NoLease]
  <2>1. /\ Commit(r, new)
        /\ row.status \in {"input_ready", "executing", "response_ready"}
    BY <1>7 DEF SettleRunWithoutDelivery
  <2>2. /\ new \in Row /\ new.status = "settled"
        /\ new.delivery = "not_applicable"
        /\ new.fence = row.fence /\ new.sequence = row.sequence
    BY <1>1 DEF Row, Statuses, Deliveries, Dispositions
  <2>3. /\ PhaseOf(row) = "open" /\ PhaseOf(new) = "closed"
        /\ AnswerOf(new) = "none"
    BY <2>1, <2>2 DEF PhaseOf, AnswerOf
  <2> QED BY <2>1, <2>2, <2>3, CommitMoves DEF RowMove, PromiseMove
<1> QED BY <1>3, <1>4, <1>5, <1>6, <1>7

LEMMA RecoveryMoves ==
    ASSUME LedgerInv, NEW r \in Runs, NEW f \in Fences,
           RecordUnknownAction(r, f) \/ RequireRecovery(r) \/ QuarantineRun(r)
    PROVE  MovesRow(r)
<1> DEFINE row == run[r]
           parked == [row EXCEPT !.status = "recovery_required",
                                 !.lease = NoLease]
           closed == [row EXCEPT !.status = "settled",
                                 !.disposition = "quarantined",
                                 !.resolved = TRUE, !.lease = NoLease]
<1>1. row \in Row /\ RowInv(r, row) /\ NoLease \in Nat
  BY SmallValues DEF LedgerInv, RowsInv
<1>2. /\ parked \in Row /\ parked.status = "recovery_required"
      /\ parked.delivery = row.delivery
      /\ parked.fence = row.fence /\ parked.sequence = row.sequence
  BY <1>1 DEF Row, Statuses
<1>3. /\ closed \in Row /\ closed.status = "settled"
      /\ closed.delivery = row.delivery
      /\ closed.fence = row.fence /\ closed.sequence = row.sequence
  BY <1>1 DEF Row, Statuses, Dispositions
<1>4. CASE RecordUnknownAction(r, f) \/ RequireRecovery(r)
  <2>1. Commit(r, parked) /\ row.status \notin {"absent", "settled"}
    <3>1. row.fence # 0 => row.status # "absent"
      BY <1>1 DEF RowInv, NewRow
    <3> QED BY <1>4, <3>1, FencesAreNumbers
            DEF RecordUnknownAction, RequireRecovery, CurrentExecution, Fenced
  <2>2. /\ PhaseOf(row) \in {"open", "parked"} /\ PhaseOf(parked) = "parked"
        /\ AnswerOf(parked) = AnswerOf(row)
    BY <1>2, <2>1 DEF PhaseOf, AnswerOf
  <2> QED BY <1>2, <2>1, <2>2, CommitMoves DEF RowMove, PromiseMove
<1>5. CASE QuarantineRun(r)
  <2>1. Commit(r, closed) /\ row.status = "recovery_required"
    BY <1>5 DEF QuarantineRun
  <2>2. /\ PhaseOf(row) = "parked" /\ PhaseOf(closed) = "closed"
        /\ AnswerOf(closed) = AnswerOf(row)
    BY <1>3, <2>1 DEF PhaseOf, AnswerOf
  <2> QED BY <1>3, <2>1, <2>2, CommitMoves DEF RowMove, PromiseMove
<1> QED BY <1>4, <1>5

LEMMA AdmissionMoves ==
    ASSUME LedgerInv, NEW r \in Runs, AdmitShadowRun(r)
    PROVE  /\ MovesRow(r) /\ run[r].status = "absent"
           /\ \A q \in Runs : OrderingKey[q] = OrderingKey[r]
                                => run'[r].sequence > run'[q].sequence \/ q = r
<1> DEFINE row == run[r]
<1>1. PICK n \in Runs :
        /\ NewestOfBinding(r, n)
        /\ Commit(r, [row EXCEPT !.status = "admitted",
                                  !.sequence = run[n].sequence + 1])
  BY DEF AdmitShadowRun
<1> DEFINE new == [row EXCEPT !.status = "admitted",
                              !.sequence = run[n].sequence + 1]
<1>2. row \in Row /\ RowInv(r, row) /\ run \in [Runs -> Row]
      /\ \A q \in Runs : run[q].sequence \in Nat
  BY DEF LedgerInv, RowsInv, Row
<1>3. row.status = "absent" /\ row.delivery = "not_ready"
  BY <1>2 DEF AdmitShadowRun, RowInv, BeforeResponse
<1>4. /\ new \in Row /\ new.status = "admitted"
      /\ new.delivery = row.delivery /\ new.fence = row.fence
      /\ new.sequence = run[n].sequence + 1
  <2>1. run[n].sequence + 1 \in Nat /\ "admitted" \in Statuses
    BY <1>2 DEF Statuses
  <2> QED BY <1>2, <2>1 DEF Row
<1>5. /\ PhaseOf(row) = "absent" /\ PhaseOf(new) = "open"
      /\ AnswerOf(new) = "none"
  BY <1>3, <1>4 DEF PhaseOf, AnswerOf
<1>6. MovesRow(r)
  BY <1>1, <1>3, <1>4, <1>5, CommitMoves DEF RowMove, PromiseMove
<1>7. ASSUME NEW q \in Runs, OrderingKey[q] = OrderingKey[r], q # r
      PROVE  run'[r].sequence > run'[q].sequence
  <2>1. run'[q] = run[q] /\ run'[r] = new
    BY <1>1, <1>2, <1>7 DEF Commit
  <2>2. run[q].sequence <= run[n].sequence
    BY <1>1, <1>7 DEF NewestOfBinding
  <2> QED BY <1>2, <1>4, <2>1, <2>2
<1> QED BY <1>3, <1>6, <1>7

(* Only admission touches a row that is absent.                            *)
LEMMA AbsentRowsWait ==
    ASSUME LedgerInv, NEW r \in Runs, NEW f \in Fences,
           \/ WorkerStep(r, f) \/ PrepareRunInput(r) \/ RequireRecovery(r)
           \/ QuarantineRun(r),
           run[r].status = "absent"
    PROVE  run' = run
<1>1. run[r].fence = 0 /\ f # 0 /\ ~Fenced(r, f)
  BY FencesAreNumbers DEF LedgerInv, RowsInv, RowInv, NewRow, Fenced
<1>2. ~PrepareRunInput(r) /\ ~RequireRecovery(r) /\ ~QuarantineRun(r)
  <2>1. ~run[r].prepared
    BY DEF LedgerInv, RowsInv, RowInv, NewRow
  <2> QED BY <2>1 DEF PrepareRunInput, RequireRecovery, QuarantineRun
<1>3. /\ ~RenewRunLease(r, f) /\ ~ReleaseSettled(r, f)
      /\ ~ReleaseForRecovery(r, f) /\ ~ReleaseRequeue(r, f)
  BY <1>1 DEF RenewRunLease, ReleaseSettled, ReleaseForRecovery,
              ReleaseRequeue, OwnsLease
<1>4. /\ ~CreateRunExecution(r, f) /\ ~StartRunDelivery(r, f)
      /\ ~RecordUnknownAction(r, f)
      /\ \A x \in Answers \X Renders : ~RecordRunResponse(r, f, x)
      /\ \A d \in {"failed", "skipped"} : ~SettleRunWithoutDelivery(r, f, d)
  BY <1>1 DEF CreateRunExecution, StartRunDelivery, RecordUnknownAction,
              RecordRunResponse, SettleRunWithoutDelivery, CurrentExecution
<1>5. \A a \in Fences :
        /\ ~FinalizeUnknown(r, f, a) /\ ~FinalizeFailed(r, f, a)
        /\ \A d \in {"succeeded", "failed"} : ~FinalizeDelivered(r, f, a, d)
  BY <1>1 DEF FinalizeUnknown, FinalizeFailed, FinalizeDelivered,
              PendingAttempt
<1> QED
  BY <1>2, <1>3, <1>4, <1>5
     DEF WorkerStep, RecordRunExecutionRoute, MarkRunExecutionInvoked,
         SettleRunExecution, MaySettle

LEMMA WorkerMoves ==
    ASSUME LedgerInv, NEW r \in Runs, NEW f \in Fences, WorkerStep(r, f)
    PROVE  MovesRow(r)
<1>1. CASE run' = run
  BY <1>1, NoMove
<1>2. CASE \/ RenewRunLease(r, f) \/ ReleaseSettled(r, f)
           \/ ReleaseForRecovery(r, f) \/ ReleaseRequeue(r, f)
  BY <1>2, LeaseMoves
<1>3. CASE \/ CreateRunExecution(r, f)
           \/ \E x \in Answers \X Renders : RecordRunResponse(r, f, x)
  BY <1>3, ExecutionMoves
<1>4. CASE \/ StartRunDelivery(r, f)
           \/ \E a \in Fences, d \in {"succeeded", "failed"} :
                 FinalizeDelivered(r, f, a, d)
           \/ \E a \in Fences : FinalizeUnknown(r, f, a)
                                  \/ FinalizeFailed(r, f, a)
           \/ \E d \in {"failed", "skipped"} :
                 SettleRunWithoutDelivery(r, f, d)
  BY <1>4, DeliveryMoves
<1>5. CASE RecordUnknownAction(r, f)
  BY <1>5, RecoveryMoves
<1> QED
  BY <1>1, <1>2, <1>3, <1>4, <1>5
     DEF WorkerStep, RecordRunExecutionRoute, MarkRunExecutionInvoked,
         SettleRunExecution, MaySettle

(* Reconciliation and claims move no run except to set it aside.           *)
SetsAside(S) ==
    /\ S \subseteq Runs
    /\ \A q \in S : PhaseOf(run[q]) = "open"
    /\ \A q \in Runs :
          /\ PhaseOf(run'[q]) = IF q \in S THEN "parked" ELSE PhaseOf(run[q])
          /\ AnswerOf(run'[q]) = AnswerOf(run[q])
          /\ run'[q].sequence = run[q].sequence

LEMMA ReconciliationSetsAside ==
    ASSUME LedgerInv, NEW rows, rows = ReconciledRuns
    PROVE  \E S \in SUBSET Runs :
             \A q \in Runs :
               /\ q \in S => PhaseOf(run[q]) = "open"
               /\ PhaseOf(rows[q]) = IF q \in S THEN "parked"
                                     ELSE PhaseOf(run[q])
               /\ AnswerOf(rows[q]) = AnswerOf(run[q])
               /\ rows[q].sequence = run[q].sequence
               /\ rows[q].fence = run[q].fence
<1> DEFINE S == {q \in Runs : /\ PhaseOf(run[q]) = "open"
                              /\ PhaseOf(Reconciled(q)) = "parked"}
<1>1. SUFFICES ASSUME NEW q \in Runs
               PROVE  /\ q \in S => PhaseOf(run[q]) = "open"
                      /\ PhaseOf(Reconciled(q)) = IF q \in S THEN "parked"
                                                  ELSE PhaseOf(run[q])
                      /\ AnswerOf(Reconciled(q)) = AnswerOf(run[q])
                      /\ Reconciled(q).sequence = run[q].sequence
                      /\ Reconciled(q).fence = run[q].fence
  <2>1. \A q \in Runs : rows[q] = Reconciled(q)
    BY DEF ReconciledRuns
  <2>2. S \in SUBSET Runs
    OBVIOUS
  <2> HIDE DEF S
  <2> QED BY <1>1, <2>1, <2>2
<1>2. /\ Reconciled(q).sequence = run[q].sequence
      /\ Reconciled(q).fence = run[q].fence
      /\ Reconciled(q).delivery = run[q].delivery
  BY ReconciledRow DEF LedgerInv
<1>3. AnswerOf(Reconciled(q)) = AnswerOf(run[q])
  BY <1>2 DEF AnswerOf
<1>4. \/ PhaseOf(Reconciled(q)) = PhaseOf(run[q])
      \/ /\ PhaseOf(run[q]) = "open"
         /\ PhaseOf(Reconciled(q)) = "parked"
  <2>1. CASE Reconciled(q) = run[q]
    BY <2>1
  <2>2. CASE /\ run[q].status \in Reclaimable
             /\ Reconciled(q).status
                   \in {"recovery_required", "response_ready",
                        "input_ready", "queued"}
    BY <2>2 DEF PhaseOf, Reclaimable
  <2> QED BY <2>1, <2>2, ReconciledRow DEF LedgerInv
<1> QED BY <1>2, <1>3, <1>4

LEMMA ClaimsSetAside ==
    ASSUME LedgerInv
    PROVE  /\ ClaimFindsNothing =>
                /\ \E S \in SUBSET Runs : SetsAside(S)
                /\ \A q \in Runs : run'[q].fence = run[q].fence
           /\ \A r \in Runs : ClaimNextInteractiveRun(r) =>
                /\ \E S \in SUBSET Runs : SetsAside(S)
                /\ \A q \in Runs \ {r} : run'[q].fence = run[q].fence
                /\ \A q \in Runs \ Legacy :
                      (/\ q < r /\ OrderingKey[q] = OrderingKey[r]
                       /\ run[q].status # "absent")
                        => run[q].status = "settled"
<1> DEFINE rows == ReconciledRuns
<1>1. PICK S \in SUBSET Runs :
        \A q \in Runs :
          /\ q \in S => PhaseOf(run[q]) = "open"
          /\ PhaseOf(rows[q]) = IF q \in S THEN "parked" ELSE PhaseOf(run[q])
          /\ AnswerOf(rows[q]) = AnswerOf(run[q])
          /\ rows[q].sequence = run[q].sequence
          /\ rows[q].fence = run[q].fence
  BY ReconciliationSetsAside
<1>2. rows \in [Runs -> Row] /\ \A q \in Runs : rows[q] = Reconciled(q)
  BY ReconciledRow DEF ReconciledRuns, RowInv, LedgerInv
<1> HIDE DEF rows
<1>3. ASSUME ClaimFindsNothing
      PROVE  SetsAside(S) /\ \A q \in Runs : run'[q].fence = run[q].fence
  BY <1>1, <1>3 DEF ClaimFindsNothing, SetsAside, rows
<1>4. ASSUME NEW r \in Runs, ClaimNextInteractiveRun(r)
      PROVE  /\ SetsAside(S)
             /\ \A q \in Runs \ {r} : run'[q].fence = run[q].fence
             /\ \A q \in Runs \ Legacy :
                   (/\ q < r /\ OrderingKey[q] = OrderingKey[r]
                    /\ run[q].status # "absent")
                     => run[q].status = "settled"
  <2> DEFINE new == [rows[r] EXCEPT
                       !.status = IF @ \in {"admitted", "queued"}
                                  THEN "preparing_input" ELSE @,
                       !.lease = now + LeaseDuration,
                       !.fence = @ + 1]
  <2>1. run' = [rows EXCEPT ![r] = new] /\ Claimable(rows, r)
    BY <1>2, <1>4 DEF ClaimNextInteractiveRun, rows
  <2>2. /\ rows[r].status \in {"admitted", "queued", "input_ready",
                               "response_ready"}
        /\ new.status = IF rows[r].status \in {"admitted", "queued"}
                        THEN "preparing_input" ELSE rows[r].status
        /\ new.delivery = rows[r].delivery
        /\ new.sequence = rows[r].sequence
    BY <1>2, <2>1 DEF Claimable, Row
  <2>3. /\ PhaseOf(new) = PhaseOf(rows[r])
        /\ AnswerOf(new) = AnswerOf(rows[r])
    BY <2>2 DEF PhaseOf, AnswerOf
  <2>4. /\ run'[r] = new /\ \A q \in Runs \ {r} : run'[q] = rows[q]
    BY <1>2, <2>1
  <2> HIDE DEF new
  <2>5. SetsAside(S)
    BY <1>1, <2>2, <2>3, <2>4 DEF SetsAside
  <2>6. ASSUME NEW q \in Runs \ Legacy, q < r,
               OrderingKey[q] = OrderingKey[r], run[q].status # "absent"
        PROVE  run[q].status = "settled"
    <3>1. \/ rows[q] = run[q]
          \/ rows[q].status \in {"recovery_required", "response_ready",
                                 "input_ready", "queued"}
      BY <1>2, ReconciledRow DEF LedgerInv
    <3>2. rows[q].status # "absent" => rows[q].status = "settled"
      BY <2>1, <2>6 DEF Claimable
    <3> QED BY <2>6, <3>1, <3>2
  <2> QED BY <1>1, <2>4, <2>5, <2>6
<1> QED BY <1>3, <1>4

(* A step is: nothing, a move of one row that was known, an admission, or  *)
(* a claim (which may find nothing).                                       *)
LEMMA StepKinds ==
    ASSUME LedgerInv, [Next]_vars
    PROVE  \/ run' = run
           \/ \E r \in Runs : MovesRow(r) /\ run[r].status # "absent"
           \/ \E r \in Runs : AdmitShadowRun(r)
           \/ ClaimFindsNothing
           \/ \E r \in Runs : ClaimNextInteractiveRun(r)
<1>1. CASE Tick \/ UNCHANGED vars
  BY <1>1 DEF Tick, vars
<1>2. ASSUME NEW r \in Runs, NEW f \in Fences, WorkerStep(r, f)
      PROVE  run' = run \/ (MovesRow(r) /\ run[r].status # "absent")
  BY <1>2, WorkerMoves, AbsentRowsWait
<1>3. ASSUME NEW r \in Runs,
             PrepareRunInput(r) \/ RequireRecovery(r) \/ QuarantineRun(r)
      PROVE  run' = run \/ (MovesRow(r) /\ run[r].status # "absent")
  <2>1. PICK f \in Fences : TRUE
    BY FenceAssumption DEF Fences
  <2> QED BY <1>3, <2>1, ExecutionMoves, RecoveryMoves, AbsentRowsWait
<1> QED BY <1>1, <1>2, <1>3 DEF Next, StoreStep

(* -- Order of admission ------------------------------------------------- *)

LEMMA AdmissionOrderStep ==
    ASSUME LedgerInv, AdmissionOrderRespected, [Next]_vars
    PROVE  AdmissionOrderRespected'
<1>1. SUFFICES ASSUME NEW q \in Runs, NEW r \in Runs, Competing(q, r)', q < r,
                      run'[q].sequence < run'[r].sequence, run'[r].fence > 0
               PROVE  run'[q].status = "settled"
  BY DEF AdmissionOrderRespected
<1>2. /\ q # r /\ q \notin Legacy /\ r \notin Legacy
      /\ OrderingKey[q] = OrderingKey[r]
      /\ run'[q].status # "absent" /\ run'[r].status # "absent"
  BY <1>1 DEF Competing, Known
<1>3. (/\ run[q].status # "absent" /\ run[r].status # "absent"
       /\ run[q].sequence < run[r].sequence /\ run[r].fence > 0)
        => run[q].status = "settled"
  BY <1>1, <1>2 DEF AdmissionOrderRespected, Competing, Known
<1>4. \A n \in Runs : (run[n].status = "settled") <=> PhaseOf(run[n]) = "closed"
  BY DEF PhaseOf
<1>5. \A n \in Runs : (run'[n].status = "settled") <=> PhaseOf(run'[n]) = "closed"
  BY DEF PhaseOf
<1>6. \A n \in Runs : (run[n].status = "absent") <=> PhaseOf(run[n]) = "absent"
  BY DEF PhaseOf
<1>7. \A n \in Runs : (run'[n].status = "absent") <=> PhaseOf(run'[n]) = "absent"
  BY DEF PhaseOf
<1>8. run \in [Runs -> Row]
  BY DEF LedgerInv, RowsInv
<1>9. CASE run' = run
  BY <1>1, <1>2, <1>3, <1>9
<1>10. ASSUME NEW n \in Runs, MovesRow(n), run[n].status # "absent"
       PROVE  run'[q].status = "settled"
  <2>1. PICK new \in Row : /\ run' = [run EXCEPT ![n] = new]
                           /\ RowMove(n, run[n], new)
    BY <1>10 DEF MovesRow
  <2>2. \A m \in Runs : run'[m] = IF m = n THEN new ELSE run[m]
    BY <1>8, <2>1
  <2>3. \A m \in Runs \ Legacy :
          run'[m].status # "absent" =>
            /\ run[m].status # "absent"
            /\ run'[m].sequence = run[m].sequence
            /\ run'[m].fence = run[m].fence
    BY <1>10, <2>1, <2>2 DEF RowMove
  <2>4. PhaseOf(run[q]) = "closed" => PhaseOf(run'[q]) = "closed"
    BY <2>1, <2>2 DEF RowMove, PromiseMove
  <2> QED BY <1>1, <1>2, <1>3, <1>4, <1>5, <2>3, <2>4
<1>11. ASSUME NEW n \in Runs, AdmitShadowRun(n)
       PROVE  run'[q].status = "settled"
  <2>1. /\ MovesRow(n) /\ run[n].status = "absent"
        /\ \A m \in Runs : OrderingKey[m] = OrderingKey[n]
                             => run'[n].sequence > run'[m].sequence \/ m = n
    BY <1>11, AdmissionMoves
  <2>2. PICK new \in Row : /\ run' = [run EXCEPT ![n] = new]
                           /\ RowMove(n, run[n], new)
    BY <2>1 DEF MovesRow
  <2>3. run[n].fence = 0
    BY <2>1 DEF LedgerInv, RowsInv, RowInv, NewRow
  <2>4. CASE r = n
    BY <1>1, <1>2, <1>8, <2>2, <2>3, <2>4 DEF RowMove
  <2>5. CASE q = n
    <3>1. run'[q].sequence > run'[r].sequence
      BY <1>2, <2>1, <2>5
    <3>2. run'[q].sequence \in Nat /\ run'[r].sequence \in Nat
      BY <1>8, <2>2 DEF Row
    <3> QED BY <1>1, <3>1, <3>2
  <2>6. CASE r # n /\ q # n
    BY <1>1, <1>2, <1>3, <1>8, <2>2, <2>6
  <2> QED BY <2>4, <2>5, <2>6
<1>12. ASSUME NEW S \in SUBSET Runs, SetsAside(S),
              \/ run'[r].fence = run[r].fence
              \/ (q < r /\ run[q].status # "absent")
                    => run[q].status = "settled"
       PROVE  run'[q].status = "settled"
  <2>1. \A m \in {q, r} : /\ run[m].status # "absent"
                          /\ run'[m].sequence = run[m].sequence
    BY <1>2, <1>6, <1>7, <1>12 DEF SetsAside
  <2>2. PhaseOf(run[q]) = "closed" => PhaseOf(run'[q]) = "closed"
    BY <1>12 DEF SetsAside
  <2> QED BY <1>1, <1>3, <1>4, <1>5, <1>12, <2>1, <2>2
<1>13. CASE ClaimFindsNothing
  BY <1>12, <1>13, ClaimsSetAside
<1>14. ASSUME NEW n \in Runs, ClaimNextInteractiveRun(n)
       PROVE  run'[q].status = "settled"
  BY <1>2, <1>12, <1>14, ClaimsSetAside
<1> QED BY <1>9, <1>10, <1>11, <1>13, <1>14, StepKinds

(* No run is ever handed to a worker before an older run of the same       *)
(* conversation, admitted before it, is over: for any number of runs,      *)
(* conversations and workers, and whatever tokens they present.            *)
THEOREM AdmissionOrder == Spec => []AdmissionOrderRespected
<1>1. Init => AdmissionOrderRespected
  BY DEF Init, AdmissionOrderRespected, Competing, Known, NewRow
<1>2. LedgerInv /\ AdmissionOrderRespected /\ [Next]_vars
        => AdmissionOrderRespected'
  BY AdmissionOrderStep
<1> QED BY <1>1, <1>2, LedgerInvariant, PTL DEF Spec

(* -- Order of creation -------------------------------------------------- *)

(* When the runs are admitted in the order of their creation, the known    *)
(* runs are a prefix of them, and of two runs of one conversation the      *)
(* older has the lower sequence.                                           *)
CreationInv ==
    \A q, r \in Runs : q < r /\ run[r].status # "absent" =>
       /\ run[q].status # "absent"
       /\ OrderingKey[q] = OrderingKey[r]
            => run[q].sequence < run[r].sequence

LEMMA CreationStep ==
    ASSUME AdmitInCreationOrder, LedgerInv, CreationInv, [Next]_vars
    PROVE  CreationInv'
<1>1. SUFFICES ASSUME NEW q \in Runs, NEW r \in Runs, q < r,
                      run'[r].status # "absent"
               PROVE  /\ run'[q].status # "absent"
                      /\ OrderingKey[q] = OrderingKey[r]
                           => run'[q].sequence < run'[r].sequence
  BY DEF CreationInv
<1>2. run[r].status # "absent" =>
        /\ run[q].status # "absent"
        /\ OrderingKey[q] = OrderingKey[r]
             => run[q].sequence < run[r].sequence
  BY <1>1 DEF CreationInv
<1>3. /\ run \in [Runs -> Row] /\ Runs \subseteq Nat
      /\ run' \in [Runs -> Row]
  BY NextKeepsLedgerInv, RunsAssumption DEF LedgerInv, RowsInv
<1>4. \A n \in Runs : (run[n].status = "absent") <=> PhaseOf(run[n]) = "absent"
  BY DEF PhaseOf
<1>5. \A n \in Runs : (run'[n].status = "absent") <=> PhaseOf(run'[n]) = "absent"
  BY DEF PhaseOf
<1>6. ASSUME \A m \in {q, r} :
               /\ run'[m].status = "absent" <=> run[m].status = "absent"
               /\ run[m].status # "absent"
                    => run'[m].sequence = run[m].sequence
      PROVE  /\ run'[q].status # "absent"
             /\ OrderingKey[q] = OrderingKey[r]
                  => run'[q].sequence < run'[r].sequence
  BY <1>1, <1>2, <1>6
<1>7. CASE run' = run
  BY <1>6, <1>7
<1>8. ASSUME NEW n \in Runs, MovesRow(n), run[n].status # "absent",
             NEW m \in {q, r}
      PROVE  /\ run'[m].status = "absent" <=> run[m].status = "absent"
             /\ run[m].status # "absent" => run'[m].sequence = run[m].sequence
  <2>1. PICK new \in Row : /\ run' = [run EXCEPT ![n] = new]
                           /\ RowMove(n, run[n], new)
    BY <1>8 DEF MovesRow
  <2>2. CASE m # n
    BY <1>3, <2>1, <2>2
  <2>3. CASE m = n
    <3>1. run'[m] = new
      BY <1>3, <2>1, <2>3
    <3>2. PhaseOf(new) # "absent"
      BY <1>4, <1>8, <2>1 DEF RowMove, PromiseMove
    <3> QED BY <1>5, <1>8, <2>1, <2>3, <3>1, <3>2 DEF RowMove
  <2> QED BY <2>2, <2>3
<1>9. ASSUME NEW n \in Runs, AdmitShadowRun(n)
      PROVE  /\ run'[q].status # "absent"
             /\ OrderingKey[q] = OrderingKey[r]
                  => run'[q].sequence < run'[r].sequence
  <2>1. /\ MovesRow(n) /\ run[n].status = "absent"
        /\ \A m \in Runs : OrderingKey[m] = OrderingKey[n]
                             => run'[n].sequence > run'[m].sequence \/ m = n
        /\ \A m \in Runs : m < n => run[m].status # "absent"
    BY <1>9, AdmissionMoves DEF AdmitShadowRun
  <2>2. \A m \in Runs \ {n} : run'[m] = run[m]
    BY <1>3, <2>1 DEF MovesRow
  <2>3. /\ q # r /\ run'[q].sequence \in Nat /\ run'[r].sequence \in Nat
    BY <1>1, <1>3 DEF Row
  <2>4. CASE r = n
    BY <1>1, <2>1, <2>2, <2>3, <2>4
  <2>5. CASE q = n
    <3>1. run[r].status # "absent"
      BY <1>1, <2>2, <2>3, <2>5
    <3> QED BY <1>2, <2>1, <2>5, <3>1
  <2>6. CASE r # n /\ q # n
    BY <1>1, <1>2, <2>2, <2>6
  <2> QED BY <2>4, <2>5, <2>6
<1>10. ASSUME NEW S \in SUBSET Runs, SetsAside(S), NEW m \in {q, r}
       PROVE  /\ run'[m].status = "absent" <=> run[m].status = "absent"
              /\ run[m].status # "absent" => run'[m].sequence = run[m].sequence
  BY <1>4, <1>5, <1>10 DEF SetsAside
<1>11. (ClaimFindsNothing \/ \E n \in Runs : ClaimNextInteractiveRun(n))
         => \E S \in SUBSET Runs : SetsAside(S)
  BY ClaimsSetAside
<1> QED BY <1>6, <1>7, <1>8, <1>9, <1>10, <1>11, StepKinds

(* One conversation's messages are worked on one at a time, for any number *)
(* of runs, conversations and workers, if admissions commit in the order   *)
(* of created_at: the exclusion that driver.ts names is only ever lost to  *)
(* an admission that is overtaken by a later one.                          *)
THEOREM OneLeaseInCreationOrder ==
    ASSUME AdmitInCreationOrder
    PROVE  Spec => []OneLeasePerOrderingKey
<1>1. Init => CreationInv
  BY DEF Init, CreationInv, NewRow
<1>2. LedgerInv /\ CreationInv /\ [Next]_vars => CreationInv'
  BY CreationStep
<1>3. LedgerInv /\ CreationInv /\ AdmissionOrderRespected
        => OneLeasePerOrderingKey
  <2> SUFFICES ASSUME LedgerInv, CreationInv, AdmissionOrderRespected,
                      NEW q \in Runs, NEW r \in Runs, Competing(q, r), q < r,
                      run[q].lease # NoLease, run[r].lease # NoLease
               PROVE  FALSE
    <3>1. \A q, r \in Runs : Competing(q, r) => (q < r \/ r < q) /\ Competing(r, q)
      BY RunsAssumption DEF Competing
    <3> QED BY <3>1 DEF OneLeasePerOrderingKey
  <2>1. run[q].status \in Reclaimable /\ run[r].fence > 0
    BY DEF LedgerInv, RowsInv, RowInv
  <2>2. run[q].sequence < run[r].sequence
    BY DEF CreationInv, Competing, Known
  <2>3. run[q].status = "settled"
    BY <2>1, <2>2 DEF AdmissionOrderRespected
  <2> QED BY <2>1, <2>3 DEF Reclaimable
<1> QED BY <1>1, <1>2, <1>3, LedgerInvariant, AdmissionOrder, PTL DEF Spec

(* -- The promise -------------------------------------------------------- *)

LEMMA PromiseStep ==
    ASSUME LedgerInv, [Next]_vars
    PROVE  [Promise!Next]_(Promise!promiseVars)
<1> DEFINE phase == [r \in Runs |-> PhaseOf(run[r])]
           answer == [r \in Runs |-> AnswerOf(run[r])]
<1>0. run \in [Runs -> Row]
  BY DEF LedgerInv, RowsInv
<1>1. CASE run' = run
  BY <1>1 DEF Promise!promiseVars
<1>2. ASSUME NEW r \in Runs, MovesRow(r)
      PROVE  [Promise!Next]_(Promise!promiseVars)
  <2>1. PICK new \in Row : /\ run' = [run EXCEPT ![r] = new]
                           /\ RowMove(r, run[r], new)
    BY <1>2 DEF MovesRow
  <2> DEFINE p == PhaseOf(run[r])
             a == AnswerOf(run[r])
             p2 == PhaseOf(new)
             a2 == AnswerOf(new)
  <2>2. PromiseMove(p, a, p2, a2) /\ phase[r] = p /\ answer[r] = a
    BY <2>1 DEF RowMove
  <2>3. phase' = [phase EXCEPT ![r] = p2] /\ answer' = [answer EXCEPT ![r] = a2]
    BY <1>0, <2>1
  <2> HIDE DEF p, a, p2, a2, phase, answer
  <2>4. CASE p2 = p /\ a2 = a
    <3>1. phase' = phase /\ answer' = answer
      BY <2>2, <2>3, <2>4 DEF phase, answer
    <3> QED BY <3>1 DEF Promise!promiseVars, phase, answer
  <2>5. CASE p = "open" /\ p2 = "parked" /\ a2 = a
    <3>1. Promise!Park({r})
      BY <2>2, <2>3, <2>5 DEF Promise!Park, phase, answer
    <3> QED BY <3>1 DEF Promise!Next
  <2>6. CASE /\ ~(p2 = p /\ a2 = a)
             /\ ~(p = "open" /\ p2 = "parked" /\ a2 = a)
    <3>1. Promise!RunStep(r)
      BY <2>2, <2>3, <2>6
         DEF Promise!RunStep, Promise!Admit, Promise!Offer, Promise!Arrives,
             Promise!Refused, Promise!GetsLost, Promise!Reword,
             Promise!Close, Promise!CloseUnanswered, Promise!Becomes,
             PromiseMove, phase, answer
    <3> QED BY <3>1 DEF Promise!Next
  <2> QED BY <2>4, <2>5, <2>6
<1>3. ASSUME NEW S \in SUBSET Runs, SetsAside(S)
      PROVE  [Promise!Next]_(Promise!promiseVars)
  <2>1. Promise!Park(S)
    BY <1>3 DEF Promise!Park, SetsAside
  <2> QED BY <2>1 DEF Promise!Next
<1> QED BY <1>1, <1>2, <1>3, StepKinds, AdmissionMoves, ClaimsSetAside

(* The ledger implements RunPromise: nothing any worker, operator or       *)
(* clock does makes it offer a message while an earlier one may still      *)
(* arrive, or offer again what was given or lost track of.                 *)
THEOREM LedgerKeepsPromise == Spec => KeepsPromise
<1>1. Init => Promise!Init
  BY DEF Init, Promise!Init, NewRow, PhaseOf, AnswerOf
<1>2. LedgerInv /\ [Next]_vars => [Promise!Next]_(Promise!promiseVars)
  BY PromiseStep
<1> QED
  BY <1>1, <1>2, LedgerInvariant, PTL DEF Spec, KeepsPromise, Promise!Spec

-----------------------------------------------------------------------------
(* What a step keeps of a row and of the evidence, whatever token it is    *)
(* made under.                                                             *)

(* A delivery attempt went out under a token of the run, with a response.  *)
Backed(row) ==
    row.attempt # NoAttempt =>
       row.attempt <= row.fence /\ row.response # NoResponse

RowKeeps(r, old, new) ==
    /\ old.status = "recovery_required" =>
          /\ new.status \in {"recovery_required", "settled"}
          /\ new.fence = old.fence
          /\ new.delivery = "pending" => old.delivery = "pending"
    /\ old.resolved => new.disposition = "quarantined"
    /\ old.response # NoResponse /\ new.response # old.response
          => old.delivery = "failed"
    /\ old.delivery = "pending" /\ new.delivery # "not_applicable"
          => new.attempt = old.attempt
    /\ old.fence <= new.fence
    /\ Backed(old) => Backed(new)
    /\ new.response # NoResponse
          => \/ old.response # NoResponse
             \/ \E f \in Fences : HasExecution(r, f)

KeepsRow(r) ==
    /\ \A q \in Runs \ {r} : run'[q] = run[q]
    /\ RowKeeps(r, run[r], run'[r])

LEMMA UntouchedRowKeeps ==
    ASSUME NEW r \in Runs, NEW row \in Row, RowInv(r, row)
    PROVE  RowKeeps(r, row, row)
BY DEF RowKeeps, Row, RowInv, RowChecks

LEMMA LeaseKeepsRow ==
    ASSUME LedgerInv, NEW r \in Runs, NEW f \in Fences,
           \/ RenewRunLease(r, f) \/ ReleaseSettled(r, f)
           \/ ReleaseForRecovery(r, f) \/ ReleaseRequeue(r, f)
    PROVE  KeepsRow(r)
<1>1. /\ run \in [Runs -> Row] /\ run[r] \in Row /\ RowInv(r, run[r])
      /\ run[r].status \in Reclaimable
  BY DEF LedgerInv, RowsInv, RowInv, RenewRunLease, ReleaseSettled,
         ReleaseForRecovery, ReleaseRequeue, OwnsLease
<1>2. ~run[r].resolved /\ run[r].status # "recovery_required"
  BY <1>1 DEF RowInv, RowChecks, Reclaimable
<1>3. CASE RenewRunLease(r, f)
  BY <1>1, <1>2, <1>3 DEF RenewRunLease, Commit, KeepsRow, RowKeeps, Row, Backed
<1>4. CASE ReleaseSettled(r, f)
  BY <1>1, <1>2, <1>4 DEF ReleaseSettled, Commit, KeepsRow, RowKeeps, Row, Backed
<1>5. CASE ReleaseForRecovery(r, f)
  BY <1>1, <1>2, <1>5
     DEF ReleaseForRecovery, Commit, KeepsRow, RowKeeps, Row, Backed
<1>6. CASE ReleaseRequeue(r, f)
  BY <1>1, <1>2, <1>6
     DEF ReleaseRequeue, Commit, KeepsRow, RowKeeps, Row, Backed
<1> QED BY <1>3, <1>4, <1>5, <1>6

LEMMA ExecutionKeepsRow ==
    ASSUME LedgerInv, NEW r \in Runs, NEW f \in Fences,
           \/ PrepareRunInput(r)
           \/ CreateRunExecution(r, f)
           \/ \E x \in Answers \X Renders : RecordRunResponse(r, f, x)
    PROVE  KeepsRow(r)
<1>1. /\ run \in [Runs -> Row] /\ run[r] \in Row /\ RowInv(r, run[r])
      /\ f \in Nat
  BY FencesAreNumbers DEF LedgerInv, RowsInv
<1>2. run[r].resolved => run[r].status = "settled"
  BY <1>1 DEF RowInv, RowChecks
<1>3. CASE PrepareRunInput(r)
  <2>1. CASE ~run[r].prepared
    <3> DEFINE new == [run[r] EXCEPT !.prepared = TRUE,
                                     !.status = "input_ready"]
    <3>1. /\ Commit(r, new)
          /\ run[r].status \in {"admitted", "queued", "preparing_input"}
      BY <1>3, <2>1 DEF PrepareRunInput
    <3>2. /\ new.fence = run[r].fence /\ new.attempt = run[r].attempt
          /\ new.response = run[r].response
      BY <1>1 DEF Row
    <3>3. run' = [run EXCEPT ![r] = new]
      BY <3>1 DEF Commit
    <3> HIDE DEF new
    <3> QED BY <1>1, <1>2, <3>1, <3>2, <3>3
            DEF KeepsRow, RowKeeps, Row, Backed
  <2>2. CASE run[r].prepared
    <3> DEFINE new == [run[r] EXCEPT
                         !.status = "input_ready", !.response = NoResponse,
                         !.delivery = "not_ready", !.attempt = NoAttempt]
    <3>1. /\ Commit(r, new) /\ run[r].status = "response_ready"
          /\ run[r].delivery = "failed"
      BY <1>3, <2>2 DEF PrepareRunInput
    <3>2. /\ new.fence = run[r].fence /\ new.attempt = NoAttempt
          /\ new.response = NoResponse
      BY <1>1 DEF Row
    <3>3. run' = [run EXCEPT ![r] = new]
      BY <3>1 DEF Commit
    <3> HIDE DEF new
    <3> QED BY <1>1, <1>2, <3>1, <3>2, <3>3
            DEF KeepsRow, RowKeeps, Row, Backed
  <2> QED BY <2>1, <2>2
<1>4. CASE CreateRunExecution(r, f)
  BY <1>1, <1>2, <1>4
     DEF CreateRunExecution, Fenced, Commit, KeepsRow, RowKeeps, Row, Backed
<1>5. ASSUME NEW x \in Answers \X Renders, RecordRunResponse(r, f, x)
      PROVE  KeepsRow(r)
  <2>1. CASE run[r].response = NoResponse
    <3> DEFINE new == [run[r] EXCEPT
                         !.response = x, !.status = "response_ready",
                         !.delivery = "not_ready"]
    <3>1. /\ Commit(r, new) /\ HasExecution(r, f)
          /\ run[r].status \in {"executing", "input_ready"}
      BY <1>5, <2>1 DEF RecordRunResponse, CurrentExecution
    <3>2. run[r].delivery = "not_ready"
      BY <1>1, <3>1 DEF RowInv, BeforeResponse
    <3>3. /\ new.fence = run[r].fence /\ new.attempt = run[r].attempt
          /\ new.status = "response_ready"
          /\ new.resolved = run[r].resolved /\ new.delivery = "not_ready"
          /\ new.disposition = run[r].disposition
      BY <1>1 DEF Row
    <3>4. new.attempt = NoAttempt
      BY <3>1, <3>3 DEF Commit, RowChecks
    <3>5. run' = [run EXCEPT ![r] = new]
      BY <3>1 DEF Commit
    <3> HIDE DEF new
    <3> QED BY <1>1, <1>2, <2>1, <3>1, <3>2, <3>3, <3>4, <3>5
            DEF KeepsRow, RowKeeps, Row, Backed
  <2>2. CASE run[r].response # NoResponse
    <3> DEFINE new == [run[r] EXCEPT
                         !.response = x, !.delivery = "not_ready",
                         !.attempt = NoAttempt]
    <3>1. Commit(r, new) /\ run[r].delivery = "failed"
      BY <1>5, <2>2 DEF RecordRunResponse
    <3>2. /\ new.fence = run[r].fence /\ new.attempt = NoAttempt
          /\ new.status = run[r].status
          /\ new.resolved = run[r].resolved /\ new.delivery = "not_ready"
          /\ new.disposition = run[r].disposition
      BY <1>1 DEF Row
    <3>3. run' = [run EXCEPT ![r] = new]
      BY <3>1 DEF Commit
    <3>4. run[r].resolved => run[r].disposition = "quarantined"
      BY <1>1 DEF RowInv, RowChecks
    <3> HIDE DEF new
    <3> QED BY <1>1, <2>2, <3>1, <3>2, <3>3, <3>4
            DEF KeepsRow, RowKeeps, Row, Backed
  <2> QED BY <2>1, <2>2
<1> QED BY <1>3, <1>4, <1>5

LEMMA DeliveryKeepsRow ==
    ASSUME LedgerInv, NEW r \in Runs, NEW f \in Fences,
           \/ StartRunDelivery(r, f)
           \/ \E a \in Fences, d \in {"succeeded", "failed"} :
                 FinalizeDelivered(r, f, a, d)
           \/ \E a \in Fences : FinalizeUnknown(r, f, a)
                                  \/ FinalizeFailed(r, f, a)
           \/ \E d \in {"failed", "skipped"} :
                 SettleRunWithoutDelivery(r, f, d)
    PROVE  KeepsRow(r)
<1>1. /\ run \in [Runs -> Row] /\ run[r] \in Row /\ RowInv(r, run[r])
      /\ f \in Nat
  BY FencesAreNumbers DEF LedgerInv, RowsInv
<1>2. run[r].resolved => run[r].status = "settled"
                         /\ run[r].disposition = "quarantined"
  BY <1>1 DEF RowInv, RowChecks
<1>3. CASE StartRunDelivery(r, f)
  BY <1>1, <1>2, <1>3
     DEF StartRunDelivery, Fenced, Commit, KeepsRow, RowKeeps, Row, Backed,
         RowInv, RowChecks
<1>4. ASSUME NEW a \in Fences, NEW d \in {"succeeded", "failed"},
             FinalizeDelivered(r, f, a, d)
      PROVE  KeepsRow(r)
  <2> DEFINE new == [run[r] EXCEPT !.delivery = "delivered",
                                   !.status = "settled", !.disposition = d,
                                   !.lease = NoLease]
  <2>1. Commit(r, new)
    BY <1>4 DEF FinalizeDelivered
  <2>2. /\ new.fence = run[r].fence /\ new.attempt = run[r].attempt
        /\ new.status = "settled" /\ new.response = run[r].response
        /\ new.resolved = run[r].resolved /\ new.delivery = "delivered"
        /\ new.disposition = d
    BY <1>1 DEF Row
  <2>3. ~new.resolved /\ run' = [run EXCEPT ![r] = new]
    BY <2>1, <2>2 DEF Commit, RowChecks
  <2> HIDE DEF new
  <2> QED BY <1>1, <2>2, <2>3 DEF KeepsRow, RowKeeps, Row, Backed
<1>5. ASSUME NEW a \in Fences, FinalizeUnknown(r, f, a) PROVE KeepsRow(r)
  BY <1>1, <1>2, <1>5
     DEF FinalizeUnknown, Commit, KeepsRow, RowKeeps, Row, Backed, RowChecks
<1>6. ASSUME NEW a \in Fences, FinalizeFailed(r, f, a) PROVE KeepsRow(r)
  BY <1>1, <1>2, <1>6
     DEF FinalizeFailed, Commit, KeepsRow, RowKeeps, Row, Backed
<1>7. ASSUME NEW d \in {"failed", "skipped"},
             SettleRunWithoutDelivery(r, f, d)
      PROVE  KeepsRow(r)
  BY <1>1, <1>2, <1>7
     DEF SettleRunWithoutDelivery, Commit, KeepsRow, RowKeeps, Row, Backed
<1> QED BY <1>3, <1>4, <1>5, <1>6, <1>7

LEMMA RecoveryKeepsRow ==
    ASSUME LedgerInv, NEW r \in Runs, NEW f \in Fences,
           RecordUnknownAction(r, f) \/ RequireRecovery(r) \/ QuarantineRun(r)
    PROVE  KeepsRow(r)
<1>1. /\ run \in [Runs -> Row] /\ run[r] \in Row /\ RowInv(r, run[r])
  BY DEF LedgerInv, RowsInv
<1>2. run[r].resolved => run[r].status = "settled"
  BY <1>1 DEF RowInv, RowChecks
<1>3. CASE RecordUnknownAction(r, f)
  BY <1>1, <1>2, <1>3
     DEF RecordUnknownAction, Commit, KeepsRow, RowKeeps, Row, Backed
<1>4. CASE RequireRecovery(r)
  BY <1>1, <1>2, <1>4
     DEF RequireRecovery, Commit, KeepsRow, RowKeeps, Row, Backed
<1>5. CASE QuarantineRun(r)
  BY <1>1, <1>2, <1>5
     DEF QuarantineRun, Commit, KeepsRow, RowKeeps, Row, Backed
<1> QED BY <1>3, <1>4, <1>5

LEMMA AdmissionKeepsRow ==
    ASSUME LedgerInv, NEW r \in Runs, AdmitShadowRun(r)
    PROVE  KeepsRow(r) /\ run'[r].fence = run[r].fence
<1>1. PICK n \in Runs :
        Commit(r, [run[r] EXCEPT !.status = "admitted",
                                 !.sequence = run[n].sequence + 1])
  BY DEF AdmitShadowRun
<1>2. /\ run \in [Runs -> Row] /\ run[r] \in Row /\ RowInv(r, run[r])
      /\ run[r].status = "absent"
  BY DEF LedgerInv, RowsInv, AdmitShadowRun
<1>3. ~run[r].resolved
  BY <1>2 DEF RowInv, RowChecks
<1> QED BY <1>1, <1>2, <1>3 DEF Commit, KeepsRow, RowKeeps, Row, Backed

(* What a reconciled row has in common with the row, and why it let go of  *)
(* its lease.                                                              *)
LEMMA ReconciledKeeps ==
    ASSUME RowsInv, now \in Nat, NEW r \in Runs
    PROVE  /\ RowKeeps(r, run[r], Reconciled(r))
           /\ Reconciled(r).lease = NoLease
                 => run[r].lease = NoLease \/ run[r].lease < now
<1>1. run[r] \in Row /\ RowInv(r, run[r])
  BY DEF RowsInv
<1>2. CASE ~Expired(r)
  BY <1>1, <1>2, UntouchedRowKeeps DEF Reconciled
<1>3. CASE Expired(r)
  <2>1. PICK s : Reconciled(r) = [run[r] EXCEPT !.lease = NoLease,
                                                !.status = s]
    BY <1>1, <1>3 DEF Reconciled
  <2>2. ~run[r].resolved /\ run[r].status # "recovery_required"
    BY <1>1, <1>3 DEF Expired, RowInv, RowChecks
  <2>3. RowKeeps(r, run[r], Reconciled(r))
    BY <1>1, <2>1, <2>2 DEF RowKeeps, Row, Backed
  <2> QED BY <1>3, <2>3 DEF Expired
<1> QED BY <1>2, <1>3

LEMMA ClaimsKeepRow ==
    ASSUME LedgerInv, NEW q \in Runs
    PROVE  /\ ClaimFindsNothing => RowKeeps(q, run[q], run'[q])
           /\ \A r \in Runs : ClaimNextInteractiveRun(r) =>
                /\ RowKeeps(q, run[q], run'[q])
                /\ run[r].lease = NoLease \/ run[r].lease < now
<1> DEFINE rows == ReconciledRuns
<1>1. /\ rows \in [Runs -> Row] /\ RowsInv /\ now \in Nat
      /\ \A p \in Runs : rows[p] = Reconciled(p) /\ rows[p] \in Row
                          /\ RowInv(p, rows[p])
  BY ReconciledRow DEF ReconciledRuns, RowInv, LedgerInv
<1>2. /\ RowKeeps(q, run[q], rows[q])
      /\ \A p \in Runs : rows[p].lease = NoLease
                            => run[p].lease = NoLease \/ run[p].lease < now
  BY <1>1, ReconciledKeeps
<1> HIDE DEF rows
<1>3. ASSUME ClaimFindsNothing PROVE RowKeeps(q, run[q], run'[q])
  BY <1>2, <1>3 DEF ClaimFindsNothing, rows
<1>4. ASSUME NEW r \in Runs, ClaimNextInteractiveRun(r)
      PROVE  /\ RowKeeps(q, run[q], run'[q])
             /\ run[r].lease = NoLease \/ run[r].lease < now
  <2> DEFINE new == [rows[r] EXCEPT
                       !.status = IF @ \in {"admitted", "queued"}
                                  THEN "preparing_input" ELSE @,
                       !.lease = now + LeaseDuration,
                       !.fence = @ + 1]
  <2>1. run' = [rows EXCEPT ![r] = new] /\ Claimable(rows, r)
    BY <1>1, <1>4 DEF ClaimNextInteractiveRun, rows
  <2>2. run[r].lease = NoLease \/ run[r].lease < now
    BY <1>2, <2>1 DEF Claimable
  <2>3. CASE q # r
    BY <1>1, <1>2, <2>1, <2>2, <2>3
  <2>4. CASE q = r
    <3>1. /\ new.fence = rows[r].fence + 1
          /\ new.attempt = rows[r].attempt /\ new.response = rows[r].response
          /\ new.delivery = rows[r].delivery
          /\ new.disposition = rows[r].disposition
          /\ new.resolved = rows[r].resolved
      BY <1>1 DEF Row
    <3>2. run[r].status # "recovery_required"
      BY <1>2, <2>1, <2>4 DEF Claimable, RowKeeps
    <3>3. /\ rows[r].fence \in Nat /\ rows[r].attempt \in Nat
          /\ run[r].fence \in Nat /\ run[r].attempt \in Nat
      BY <1>1 DEF Row, RowsInv
    <3>4. run'[r] = new
      BY <1>1, <2>1
    <3> HIDE DEF new
    <3>5. Backed(rows[r]) => Backed(new)
      BY <3>1, <3>3 DEF Backed
    <3>6. RowKeeps(r, run[r], new)
      BY <1>2, <2>4, <3>1, <3>2, <3>3, <3>5 DEF RowKeeps
    <3> QED BY <2>2, <2>4, <3>4, <3>6
  <2> QED BY <2>3, <2>4
<1> QED BY <1>3, <1>4

(* The rows of the other runs stay as they are, too.                       *)
LEMMA OneRowKept ==
    ASSUME LedgerInv, NEW r \in Runs, KeepsRow(r), NEW q \in Runs
    PROVE  RowKeeps(q, run[q], run'[q])
<1>1. run[q] \in Row /\ RowInv(q, run[q])
  BY DEF LedgerInv, RowsInv
<1>2. CASE q = r
  BY <1>2 DEF KeepsRow
<1>3. CASE q # r
  BY <1>1, <1>3, UntouchedRowKeeps DEF KeepsRow
<1> QED BY <1>2, <1>3

LEMMA StepKeepsRows ==
    ASSUME LedgerInv, [Next]_vars, NEW q \in Runs
    PROVE  RowKeeps(q, run[q], run'[q])
<1>1. run[q] \in Row /\ RowInv(q, run[q])
  BY DEF LedgerInv, RowsInv
<1>2. CASE run' = run
  BY <1>1, <1>2, UntouchedRowKeeps
<1>3. ASSUME NEW r \in Runs, NEW f \in Fences, WorkerStep(r, f)
      PROVE  run' = run \/ KeepsRow(r)
  BY <1>3, LeaseKeepsRow, ExecutionKeepsRow, DeliveryKeepsRow,
     RecoveryKeepsRow
     DEF WorkerStep, RecordRunExecutionRoute, MarkRunExecutionInvoked,
         SettleRunExecution, MaySettle
<1>4. ASSUME NEW r \in Runs, StoreStep(r)
      PROVE  KeepsRow(r) \/ ClaimNextInteractiveRun(r)
  <2>1. PICK f \in Fences : TRUE
    BY FenceAssumption DEF Fences
  <2> QED BY <1>4, <2>1, ExecutionKeepsRow, RecoveryKeepsRow,
             AdmissionKeepsRow DEF StoreStep
<1>5. CASE Tick \/ UNCHANGED vars
  BY <1>2, <1>5 DEF Tick, vars
<1> QED BY <1>2, <1>3, <1>4, <1>5, OneRowKept, ClaimsKeepRow DEF Next

(* What a step keeps of an execution, and where a new one comes from.      *)
ExecutionKept(r, f) ==
    /\ HasExecution(r, f) =>
          /\ HasExecution(r, f)'
          /\ exec[r][f].outcome # "pending"
               => exec'[r][f].outcome = exec[r][f].outcome
          /\ exec[r][f].model \in {"invoked", "settled"}
               => exec'[r][f].model \in {"invoked", "settled"}
    /\ HasExecution(r, f)' /\ ~HasExecution(r, f) =>
          run[r].status = "input_ready" /\ run'[r].fence = f

LEMMA CommittedExecutionKept ==
    ASSUME ExecTypeOK, NEW r \in Runs, NEW f \in Fences, NEW e \in Attempted,
           exec' = [exec EXCEPT ![r][f] = e],
           HasExecution(r, f) =>
             /\ exec[r][f].outcome # "pending" => e.outcome = exec[r][f].outcome
             /\ exec[r][f].model \in {"invoked", "settled"}
                  => e.model \in {"invoked", "settled"},
           ~HasExecution(r, f) =>
             run[r].status = "input_ready" /\ run'[r].fence = f
    PROVE  \A q \in Runs, g \in Fences : ExecutionKept(q, g)
<1>1. e # NoExecution
  BY DEF Attempted, Invocations, NoExecution
<1>2. SUFFICES ASSUME NEW q \in Runs, NEW g \in Fences
               PROVE  ExecutionKept(q, g)
  OBVIOUS
<1>3. CASE q = r /\ g = f
  <2>1. exec'[q][g] = e
    BY <1>3 DEF ExecTypeOK
  <2> QED BY <1>1, <1>3, <2>1 DEF ExecutionKept, HasExecution
<1>4. CASE ~(q = r /\ g = f)
  <2>1. exec'[q][g] = exec[q][g]
    BY <1>4 DEF ExecTypeOK
  <2> QED BY <2>1 DEF ExecutionKept, HasExecution
<1> QED BY <1>3, <1>4

LEMMA WorkerKeepsExecutions ==
    ASSUME LedgerInv, NEW r \in Runs, NEW f \in Fences,
           \/ CreateRunExecution(r, f)
           \/ \E auth \in BOOLEAN : RecordRunExecutionRoute(r, f, auth)
           \/ MarkRunExecutionInvoked(r, f)
           \/ \E x \in Settlements : SettleRunExecution(r, f, x[1], x[2])
    PROVE  \A q \in Runs, g \in Fences : ExecutionKept(q, g)
<1> DEFINE e == exec[r][f]
<1>1. ExecTypeOK /\ e \in Execution
  BY DEF LedgerInv, ExecTypeOK
<1>2. HasExecution(r, f) => e \in Attempted
  BY <1>1 DEF HasExecution, Execution
<1>3. CASE CreateRunExecution(r, f)
  <2> DEFINE new == [model |-> "not_invoked", outcome |-> "pending",
                     auth |-> FALSE]
  <2>1. new \in Attempted
    BY DEF Attempted, Invocations, Outcomes
  <2>2. run'[r].fence = f
    BY <1>3 DEF CreateRunExecution, Commit, LedgerInv, RowsInv, Row
  <2>3. /\ exec' = [exec EXCEPT ![r][f] = new] /\ ~HasExecution(r, f)
        /\ run[r].status = "input_ready"
    BY <1>3 DEF CreateRunExecution, CommitExecution
  <2> HIDE DEF new
  <2> QED BY <1>1, <2>1, <2>2, <2>3, CommittedExecutionKept
<1>4. ASSUME NEW auth \in BOOLEAN, RecordRunExecutionRoute(r, f, auth)
      PROVE  \A q \in Runs, g \in Fences : ExecutionKept(q, g)
  <2> DEFINE new == [e EXCEPT !.model = "ready", !.auth = auth]
  <2>1. /\ exec' = [exec EXCEPT ![r][f] = new] /\ HasExecution(r, f)
        /\ e.model = "not_invoked"
    BY <1>4 DEF RecordRunExecutionRoute, CommitExecution
  <2>2. new \in Attempted /\ new.outcome = e.outcome
    BY <1>2, <2>1 DEF Attempted, Invocations
  <2> HIDE DEF new
  <2> QED BY <1>1, <2>1, <2>2, CommittedExecutionKept
<1>5. CASE MarkRunExecutionInvoked(r, f)
  <2> DEFINE new == [e EXCEPT !.model = "invoked"]
  <2>1. /\ exec' = [exec EXCEPT ![r][f] = new] /\ HasExecution(r, f)
    BY <1>5 DEF MarkRunExecutionInvoked, CommitExecution, CurrentExecution
  <2>2. /\ new \in Attempted /\ new.outcome = e.outcome
        /\ new.model = "invoked"
    BY <1>2, <2>1 DEF Attempted, Invocations
  <2> HIDE DEF new
  <2> QED BY <1>1, <2>1, <2>2, CommittedExecutionKept
<1>6. ASSUME NEW x \in Settlements, SettleRunExecution(r, f, x[1], x[2])
      PROVE  \A q \in Runs, g \in Fences : ExecutionKept(q, g)
  <2> DEFINE new == [e EXCEPT !.model = x[2], !.outcome = x[1]]
  <2>1. /\ x[1] \in Outcomes /\ x[2] \in {"not_invoked", "settled"}
        /\ x[2] \in Invocations
    BY DEF Settlements, Outcomes, Invocations
  <2>2. /\ exec' = [exec EXCEPT ![r][f] = new] /\ HasExecution(r, f)
        /\ e.outcome = "pending"
        /\ x[2] = "not_invoked" => e.model \in {"not_invoked", "ready"}
    BY <1>6 DEF SettleRunExecution, MaySettle, CommitExecution, CurrentExecution
  <2>3. new \in Attempted /\ new.model = x[2]
    BY <1>2, <2>1, <2>2 DEF Attempted
  <2> HIDE DEF new
  <2> QED BY <1>1, <2>1, <2>2, <2>3, CommittedExecutionKept
<1> QED BY <1>3, <1>4, <1>5, <1>6

LEMMA StepKeepsExecutions ==
    ASSUME LedgerInv, [Next]_vars
    PROVE  \A q \in Runs, g \in Fences : ExecutionKept(q, g)
<1>1. CASE exec' = exec
  BY <1>1 DEF ExecutionKept, HasExecution
<1>2. CASE Tick \/ ClaimFindsNothing \/ UNCHANGED vars
  BY <1>1, <1>2 DEF Tick, ClaimFindsNothing, vars
<1>3. ASSUME NEW r \in Runs, StoreStep(r) PROVE exec' = exec
  BY <1>3 DEF StoreStep, AdmitShadowRun, ClaimNextInteractiveRun,
              PrepareRunInput, RequireRecovery, QuarantineRun
<1>4. ASSUME NEW r \in Runs, NEW f \in Fences, WorkerStep(r, f)
      PROVE  \/ exec' = exec
             \/ \A q \in Runs, g \in Fences : ExecutionKept(q, g)
  BY <1>4, WorkerKeepsExecutions
     DEF WorkerStep, RenewRunLease, ReleaseSettled, ReleaseForRecovery,
         ReleaseRequeue, RecordRunResponse, StartRunDelivery,
         FinalizeDelivered, FinalizeUnknown, FinalizeFailed,
         SettleRunWithoutDelivery, RecordUnknownAction
<1> QED BY <1>1, <1>2, <1>3, <1>4 DEF Next

(* The fence of a ledger run moves only when it is claimed.                *)
LEMMA FenceMovesWithClaim ==
    ASSUME LedgerInv, [Next]_vars, NEW q \in Runs \ Legacy,
           run'[q].fence # run[q].fence
    PROVE  run[q].lease = NoLease \/ run[q].lease < now
<1>1. run \in [Runs -> Row]
  BY DEF LedgerInv, RowsInv
<1>2. ~ (run' = run) /\ ~ ClaimFindsNothing
  BY ClaimsSetAside
<1>3. ASSUME NEW r \in Runs, MovesRow(r), run[r].status # "absent"
      PROVE  FALSE
  <2>1. PICK new \in Row : /\ run' = [run EXCEPT ![r] = new]
                           /\ RowMove(r, run[r], new)
    BY <1>3 DEF MovesRow
  <2> QED BY <1>1, <2>1 DEF RowMove
<1>4. ASSUME NEW r \in Runs, AdmitShadowRun(r) PROVE FALSE
  BY <1>4, AdmissionKeepsRow DEF KeepsRow
<1>5. ASSUME NEW r \in Runs, ClaimNextInteractiveRun(r)
      PROVE  run[q].lease = NoLease \/ run[q].lease < now
  BY <1>5, ClaimsSetAside, ClaimsKeepRow
<1> QED BY <1>2, <1>3, <1>4, <1>5, StepKinds

(* A worker that renews in time is never replaced: for every number of     *)
(* runs and workers, a fencing token gives way to another only when the    *)
(* claim found no lease, or one that had run out.                          *)
THEOREM LiveLeasesStand == Spec => NoLiveLeaseTaken
<1>1. LedgerInv /\ [Next]_vars =>
        [\A r \in Runs \ Legacy : run'[r].fence # run[r].fence =>
            run[r].lease = NoLease \/ run[r].lease < now]_vars
  BY FenceMovesWithClaim
<1> QED BY <1>1, LedgerInvariant, PTL DEF Spec, NoLiveLeaseTaken

(* A run set aside for an operator is never worked on again, and a         *)
(* quarantine stands, whatever late workers present to the ledger.         *)
THEOREM ParkedRunsStayParked == Spec => ParkedIsNotRevived
<1>1. ASSUME LedgerInv, [Next]_vars, NEW r \in Runs
      PROVE  /\ run[r].status = "recovery_required" =>
                  /\ run'[r].status \in {"recovery_required", "settled"}
                  /\ run'[r].fence = run[r].fence
                  /\ run'[r].delivery = "pending"
                       => run[r].delivery = "pending"
                  /\ \A f \in Fences :
                        HasExecution(r, f)' => HasExecution(r, f)
             /\ run[r].resolved => run'[r].disposition = "quarantined"
  <2>1. RowKeeps(r, run[r], run'[r])
    BY <1>1, StepKeepsRows
  <2>2. \A f \in Fences : ExecutionKept(r, f)
    BY <1>1, StepKeepsExecutions
  <2> QED BY <2>1, <2>2 DEF RowKeeps, ExecutionKept
<1>2. LedgerInv /\ [Next]_vars =>
        [\A r \in Runs :
          /\ run[r].status = "recovery_required" =>
                /\ run'[r].status \in {"recovery_required", "settled"}
                /\ run'[r].fence = run[r].fence
                /\ run'[r].delivery = "pending" => run[r].delivery = "pending"
                /\ \A f \in Fences :
                      HasExecution(r, f)' => HasExecution(r, f)
          /\ run[r].resolved => run'[r].disposition = "quarantined"]_vars
  BY <1>1
<1> QED BY <1>2, LedgerInvariant, PTL DEF Spec, ParkedIsNotRevived

(* What was approved is what is sent: no worker, retry or operator         *)
(* replaces a response before its delivery failed for certain, or the      *)
(* attempt of a message that may be on its way.                            *)
THEOREM ApprovedAnswersStand == Spec => ApprovedAnswerStable
<1>1. LedgerInv /\ [Next]_vars =>
        [\A r \in Runs :
          /\ (run[r].response # NoResponse /\ run'[r].response # run[r].response)
                => run[r].delivery = "failed"
          /\ (run[r].delivery = "pending" /\ run'[r].delivery # "not_applicable")
                => run'[r].attempt = run[r].attempt]_vars
  BY StepKeepsRows DEF RowKeeps
<1> QED BY <1>1, LedgerInvariant, PTL DEF Spec, ApprovedAnswerStable

(* The record that a model was called is never taken back: a settled       *)
(* execution is frozen and an invoked one never becomes uninvoked.         *)
THEOREM InvocationsStayOnRecord == Spec => InvocationEvidenceKept
<1>1. LedgerInv /\ [Next]_vars =>
        [\A r \in Runs, f \in Fences : HasExecution(r, f) =>
          /\ exec[r][f].outcome # "pending" => exec'[r][f].outcome = exec[r][f].outcome
          /\ exec[r][f].model \in {"invoked", "settled"}
               => exec'[r][f].model \in {"invoked", "settled"}]_vars
  BY StepKeepsExecutions DEF ExecutionKept
<1> QED BY <1>1, LedgerInvariant, PTL DEF Spec, InvocationEvidenceKept

(* -- Evidence ----------------------------------------------------------- *)

(* EvidenceIsFenced does not carry itself over a step: a delivery starts   *)
(* on the strength of a response alone, so every response, sent or not,    *)
(* must have an execution behind it.                                       *)
EvidenceInv ==
    /\ EvidenceIsFenced
    /\ \A r \in Runs : run[r].response # NoResponse
                         => \E f \in Fences : HasExecution(r, f)

LEMMA EvidenceStep ==
    ASSUME LedgerInv, EvidenceInv, [Next]_vars
    PROVE  EvidenceInv'
<1> SUFFICES ASSUME NEW r \in Runs
             PROVE  /\ \A f \in Fences : HasExecution(r, f)'
                                           => f <= run'[r].fence
                    /\ Backed(run'[r])
                    /\ run'[r].response # NoResponse
                         => \E f \in Fences : HasExecution(r, f)'
  BY DEF EvidenceInv, EvidenceIsFenced, Backed
<1>1. RowKeeps(r, run[r], run'[r])
  BY StepKeepsRows
<1>2. \A f \in Fences : ExecutionKept(r, f)
  BY StepKeepsExecutions
<1>3. LedgerInv'
  BY NextKeepsLedgerInv
<1>4. run[r].fence \in Nat /\ run'[r].fence \in Nat /\ Fences \subseteq Nat
  BY <1>3, FencesAreNumbers DEF LedgerInv, RowsInv, Row
<1>5. Backed(run[r])
  BY DEF EvidenceInv, EvidenceIsFenced, Backed
<1>6. ASSUME NEW f \in Fences, HasExecution(r, f)'
      PROVE  f <= run'[r].fence
  <2>1. CASE HasExecution(r, f)
    <3>1. f <= run[r].fence /\ run[r].fence <= run'[r].fence
      BY <1>1, <2>1 DEF EvidenceInv, EvidenceIsFenced, RowKeeps
    <3> QED BY <1>4, <3>1
  <2>2. CASE ~HasExecution(r, f)
    BY <1>2, <1>4, <1>6, <2>2 DEF ExecutionKept
  <2> QED BY <2>1, <2>2
<1>7. ASSUME run'[r].response # NoResponse
      PROVE  \E f \in Fences : HasExecution(r, f)'
  <2>1. PICK f \in Fences : HasExecution(r, f)
    BY <1>1, <1>7 DEF RowKeeps, EvidenceInv
  <2> QED BY <1>2, <2>1 DEF ExecutionKept
<1> QED BY <1>1, <1>5, <1>6, <1>7 DEF RowKeeps

(* Evidence never leads the fence: an execution exists only under a token  *)
(* that was handed out, a delivery attempt only beside a response and an   *)
(* execution, although preparation and route recording take no token.      *)
THEOREM EvidenceFollowsFence == Spec => []EvidenceIsFenced
<1>1. Init => EvidenceInv
  BY DEF Init, EvidenceInv, EvidenceIsFenced, HasExecution, NewRow
<1>2. LedgerInv /\ EvidenceInv /\ [Next]_vars => EvidenceInv'
  BY EvidenceStep
<1>3. EvidenceInv => EvidenceIsFenced
  BY DEF EvidenceInv
<1> QED BY <1>1, <1>2, <1>3, LedgerInvariant, PTL DEF Spec

=============================================================================
