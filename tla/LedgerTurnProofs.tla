-------------------------- MODULE LedgerTurnProofs --------------------------
(***************************************************************************)
(* What holds of a turn for any number of claims, attempts and faults.     *)
(***************************************************************************)
EXTENDS LedgerTurn, TLAPS

(* The run is settled, or waits for an operator.                          *)
Over(o) == o.status \in {"settled", "recovery_required"}

(***************************************************************************)
(* What the messages rest on                                               *)
(***************************************************************************)

(* Where a handler stands before the message it is about to send.          *)
Unsent(h) ==
    \/ h.pc \in {"none", "load", "identity", "attempt", "prepare", "create",
                 "route", "react", "dispatch", "send", "receipt", "relay",
                 "read", "checkpoint", "result", "final", "intend", "record",
                 "offer", "slack", "rejected", "fallback", "persisted",
                 "p_offer", "p_slack", "p_rejected"}
    \/ h.pc \in {"close", "finalizing", "stop"} /\ h.render = "resume"

(* The ledger was asked, and the next call shows the message.              *)
Sending(h) ==
    /\ h.offered
    /\ \/ h.pc \in {"slack", "p_slack"}
       \/ h.pc \in {"close", "finalizing", "stop"} /\ h.render = "resume"

(* Where something has been shown, by whomever.                            *)
Later == {"started", "accepted", "stopped", "posted", "verdict", "delivered",
          "tidy", "adopt", "p_close", "p_verdict"}

(* An asked-for message is of the attempt the row names, with its text.    *)
PostsInv ==
    \A p \in posts : p.offered =>
        /\ row.attempt = p.by
        /\ row.delivery \in {"pending", "delivered", "unknown"}
        /\ row.response # <<>>
        /\ row.response[1] = p.text
        /\ ~Unsent(handler[p.by])

UniqueInv == \A p, q \in posts : p.offered /\ q.offered => p = q

ShownInv ==
    \/ posts # {}
    \/ row.delivery # "delivered" /\ view.stream \notin {"delivered", "finalized"}

HandlerInv(f) ==
    LET h == handler[f]
    IN  /\ h.pc = "none" <=> row.fence < f
        /\ Sending(h) => /\ row.attempt = f
                         /\ row.delivery \in {"pending", "delivered"}
                         /\ row.response = <<h.text, h.render>>
        /\ (/\ h.pc \in {"offer", "p_offer"}
            /\ row.fence = f
            /\ row.status = "response_ready") => row.response = <<h.text, h.render>>
        /\ h.pc = "abandon" /\ row.fence = f =>
              row.delivery \in {"failed", "not_ready"}
        /\ h.pc \in Later => posts # {}
        /\ h.pc = "started" => h.render = "stream"
        /\ h.pc \in {"close", "finalizing", "stop"} =>
              /\ h.render \in {"stream", "resume"}
              /\ h.render = "stream" => posts # {}

FinalsInv ==
    /\ PostsInv
    /\ UniqueInv
    /\ ShownInv
    /\ \A f \in Claims : HandlerInv(f)

-----------------------------------------------------------------------------
(* Types                                                                   *)

LEMMA ClaimsAreNumbers == Claims \subseteq Nat \ {0}
BY BoundAssumption DEF Claims

LEMMA RowTyped ==
  ASSUME Ledger!TypeOK
  PROVE  row \in Ledger!Row
BY DEF Ledger!TypeOK, row, Turn

(* What a transaction leaves of the tables.                                *)
Writes(new) == run' = [run EXCEPT ![Turn] = new] /\ exec' = exec

LEMMA WritesRow ==
  ASSUME Ledger!TypeOK, NEW new \in Ledger!Row, Writes(new)
  PROVE  Ledger!TypeOK' /\ row' = new
BY DEF Ledger!TypeOK, Writes, row, Turn

LEMMA PreparesRow ==
  ASSUME Ledger!TypeOK, Ledger!PrepareRunInput(Turn)
  PROVE  /\ Ledger!TypeOK'
         /\ exec' = exec
         /\ \/ /\ ~row.prepared
               /\ row.status \in {"admitted", "queued", "preparing_input"}
               /\ row' = [row EXCEPT !.prepared = TRUE, !.status = "input_ready"]
            \/ /\ row.prepared
               /\ row.status = "response_ready"
               /\ row.delivery = "failed"
               /\ row' = [row EXCEPT !.status = "input_ready", !.response = <<>>,
                                     !.delivery = "not_ready", !.attempt = 0]
<1>1. row \in Ledger!Row
  BY RowTyped
<1>2. CASE /\ ~row.prepared
           /\ row.status \in {"admitted", "queued", "preparing_input"}
           /\ Writes([row EXCEPT !.prepared = TRUE, !.status = "input_ready"])
  <2>1. [row EXCEPT !.prepared = TRUE, !.status = "input_ready"] \in Ledger!Row
    BY <1>1 DEF Ledger!Row, Ledger!Statuses
  <2> QED
    BY <1>2, <2>1, WritesRow DEF Writes
<1>3. CASE /\ row.prepared
           /\ row.status = "response_ready"
           /\ row.delivery = "failed"
           /\ Writes([row EXCEPT !.status = "input_ready", !.response = <<>>,
                                 !.delivery = "not_ready", !.attempt = 0])
  <2>1. [row EXCEPT !.status = "input_ready", !.response = <<>>,
                    !.delivery = "not_ready", !.attempt = 0] \in Ledger!Row
    BY <1>1 DEF Ledger!Row, Ledger!Statuses, Ledger!Responses, Ledger!Deliveries, Ledger!NoResponse
  <2> QED
    BY <1>3, <2>1, WritesRow DEF Writes
<1> QED
  BY <1>2, <1>3 DEF Ledger!PrepareRunInput, Ledger!Commit, Writes, row,
     Ledger!NoResponse, Ledger!NoAttempt

LEMMA CreatesRow ==
  ASSUME Ledger!TypeOK, NEW f \in Claims, Ledger!CreateRunExecution(Turn, f)
  PROVE  /\ Ledger!TypeOK'
         /\ row.fence = f
         /\ row.status = "input_ready"
         /\ row' = [row EXCEPT !.status = "executing"]
         /\ exec'[Turn][f] = [model |-> "not_invoked", outcome |-> "pending",
                              auth |-> FALSE]
<1>1. row \in Ledger!Row
  BY RowTyped
<1>2. /\ row.fence = f
      /\ row.status = "input_ready"
      /\ run' = [run EXCEPT ![Turn] = [row EXCEPT !.status = "executing", !.fence = f]]
      /\ exec' = [exec EXCEPT ![Turn][f] =
                    [model |-> "not_invoked", outcome |-> "pending", auth |-> FALSE]]
  BY DEF Ledger!CreateRunExecution, Ledger!Commit, Ledger!CommitExecution,
         Ledger!Fenced, row
<1>3. [row EXCEPT !.status = "executing", !.fence = f]
        = [row EXCEPT !.status = "executing"]
  BY <1>1, <1>2 DEF Ledger!Row
<1>4. [row EXCEPT !.status = "executing"] \in Ledger!Row
  BY <1>1 DEF Ledger!Row, Ledger!Statuses
<1>5. run' \in [{Turn} -> Ledger!Row] /\ row' = [row EXCEPT !.status = "executing"]
  BY <1>2, <1>3, <1>4 DEF Ledger!TypeOK, row, Turn
<1>6. /\ exec' \in [{Turn} -> [Ledger!Fences -> Ledger!Execution]]
      /\ exec'[Turn][f] = [model |-> "not_invoked", outcome |-> "pending",
                           auth |-> FALSE]
  BY <1>2 DEF Ledger!TypeOK, Turn, Ledger!Execution, Ledger!Attempted,
              Ledger!Invocations, Ledger!Outcomes, Ledger!Fences, Claims
<1> QED
  BY <1>2, <1>5, <1>6 DEF Ledger!TypeOK

(* The steps that write an execution leave the run, and the others.        *)
ExecutionTo(f, e) ==
    /\ Ledger!HasExecution(Turn, f)
    /\ run' = run
    /\ exec' = [exec EXCEPT ![Turn][f] = e]

LEMMA ExecutionTyped ==
  ASSUME Ledger!TypeOK, NEW f, NEW e \in Ledger!Attempted, ExecutionTo(f, e)
  PROVE  /\ Ledger!TypeOK'
         /\ row' = row
         /\ \A g \in Claims : exec'[Turn][g] = IF g = f THEN e ELSE exec[Turn][g]
BY DEF Ledger!TypeOK, ExecutionTo, row, Turn, Ledger!Execution,
       Ledger!Fences, Claims

LEMMA ExecutionOfClaim ==
  ASSUME Ledger!TypeOK, NEW f \in Claims, Ledger!HasExecution(Turn, f)
  PROVE  exec[Turn][f] \in Ledger!Attempted
BY DEF Ledger!TypeOK, Ledger!HasExecution, Ledger!Execution, Ledger!Fences,
       Claims, Turn

LEMMA RoutesExecution ==
  ASSUME Ledger!TypeOK, NEW f \in Claims, NEW auth \in BOOLEAN,
         Ledger!RecordRunExecutionRoute(Turn, f, auth)
  PROVE  /\ Ledger!TypeOK'
         /\ row' = row
         /\ Ledger!HasExecution(Turn, f)
         /\ exec[Turn][f].model = "not_invoked"
         /\ \A g \in Claims : exec'[Turn][g] =
               IF g = f THEN [exec[Turn][f] EXCEPT !.model = "ready", !.auth = auth]
               ELSE exec[Turn][g]
<1>1. /\ ExecutionTo(f, [exec[Turn][f] EXCEPT !.model = "ready", !.auth = auth])
      /\ exec[Turn][f].model = "not_invoked"
      /\ Ledger!HasExecution(Turn, f)
  BY DEF Ledger!RecordRunExecutionRoute, Ledger!CommitExecution, ExecutionTo
<1>2. [exec[Turn][f] EXCEPT !.model = "ready", !.auth = auth] \in Ledger!Attempted
  BY <1>1, ExecutionOfClaim DEF Ledger!Attempted, Ledger!Invocations
<1> QED
  BY <1>1, <1>2, ExecutionTyped

LEMMA InvokesExecution ==
  ASSUME Ledger!TypeOK, NEW f \in {0} \cup Claims,
         Ledger!MarkRunExecutionInvoked(Turn, f)
  PROVE  /\ Ledger!TypeOK'
         /\ row' = row
         /\ \A g \in Claims : exec'[Turn][g] =
               IF g = f THEN [exec[Turn][f] EXCEPT !.model = "invoked"]
               ELSE exec[Turn][g]
         /\ f \in Claims => /\ Ledger!HasExecution(Turn, f)
                            /\ exec[Turn][f].model = "ready"
<1>1. CASE f \in Claims
  <2>1. /\ ExecutionTo(f, [exec[Turn][f] EXCEPT !.model = "invoked"])
        /\ exec[Turn][f].model = "ready"
        /\ Ledger!HasExecution(Turn, f)
    BY DEF Ledger!MarkRunExecutionInvoked, Ledger!CommitExecution, ExecutionTo,
           Ledger!CurrentExecution
  <2>2. [exec[Turn][f] EXCEPT !.model = "invoked"] \in Ledger!Attempted
    BY <1>1, <2>1, ExecutionOfClaim DEF Ledger!Attempted, Ledger!Invocations
  <2> QED
    BY <1>1, <2>1, <2>2, ExecutionTyped
<1>2. CASE f \notin Claims
  <2>1. /\ run' = run
        /\ exec' = [exec EXCEPT ![Turn][f] = [exec[Turn][f] EXCEPT !.model = "invoked"]]
    BY DEF Ledger!MarkRunExecutionInvoked, Ledger!CommitExecution
  <2>2. [exec[Turn] EXCEPT ![f] = [exec[Turn][f] EXCEPT !.model = "invoked"]]
          = exec[Turn]
    BY <1>2 DEF Ledger!TypeOK, Ledger!Fences, Claims, Turn
  <2>3. exec' = exec
    BY <2>1, <2>2 DEF Ledger!TypeOK, Turn
  <2> QED
    BY <1>2, <2>1, <2>3 DEF Ledger!TypeOK, row
<1> QED
  BY <1>1, <1>2

LEMMA SettlesExecution ==
  ASSUME Ledger!TypeOK, NEW f \in Claims, NEW outcome \in Ledger!Outcomes,
         NEW model \in Ledger!Invocations,
         Ledger!SettleRunExecution(Turn, f, outcome, model)
  PROVE  /\ Ledger!TypeOK'
         /\ row' = row
         /\ \A g \in Claims : exec'[Turn][g] =
               IF g = f
               THEN [exec[Turn][f] EXCEPT !.model = model, !.outcome = outcome]
               ELSE exec[Turn][g]
<1>1. /\ ExecutionTo(f, [exec[Turn][f] EXCEPT !.model = model, !.outcome = outcome])
      /\ Ledger!HasExecution(Turn, f)
  BY DEF Ledger!SettleRunExecution, Ledger!MaySettle, Ledger!CommitExecution,
         ExecutionTo, Ledger!CurrentExecution
<1>2. [exec[Turn][f] EXCEPT !.model = model, !.outcome = outcome] \in Ledger!Attempted
  BY <1>1, ExecutionOfClaim DEF Ledger!Attempted
<1> QED
  BY <1>1, <1>2, ExecutionTyped

Response == {"answer", "apology"} \X {"stream", "resume", "post", "reaction"}

LEMMA RecordsResponse ==
  ASSUME Ledger!TypeOK, NEW f \in Claims, NEW response \in Response,
         Ledger!RecordRunResponse(Turn, f, response)
  PROVE  /\ Ledger!TypeOK'
         /\ exec' = exec
         /\ row.fence = f
         /\ \/ /\ row.status \in {"executing", "input_ready"}
               /\ row.response = <<>>
               /\ row' = [row EXCEPT !.response = response,
                                     !.status = "response_ready",
                                     !.delivery = "not_ready"]
            \/ /\ row.delivery = "failed"
               /\ row' = [row EXCEPT !.response = response,
                                     !.delivery = "not_ready", !.attempt = 0]
<1>1. row \in Ledger!Row /\ response \in Ledger!Responses
  BY RowTyped DEF Ledger!Responses, Response
<1>2. /\ row.fence = f
      /\ \/ /\ row.status \in {"executing", "input_ready"}
            /\ row.response = <<>>
            /\ Writes([row EXCEPT !.response = response,
                                  !.status = "response_ready",
                                  !.delivery = "not_ready"])
         \/ /\ row.delivery = "failed"
            /\ Writes([row EXCEPT !.response = response,
                                  !.delivery = "not_ready", !.attempt = 0])
  BY DEF Ledger!RecordRunResponse, Ledger!Commit, Ledger!Fenced, Writes, row,
         Ledger!NoResponse, Ledger!NoAttempt
<1>3. /\ [row EXCEPT !.response = response, !.status = "response_ready",
                     !.delivery = "not_ready"] \in Ledger!Row
      /\ [row EXCEPT !.response = response, !.delivery = "not_ready",
                     !.attempt = 0] \in Ledger!Row
  BY <1>1 DEF Ledger!Row, Ledger!Statuses, Ledger!Deliveries
<1>4. CASE /\ row.status \in {"executing", "input_ready"}
           /\ row.response = <<>>
           /\ Writes([row EXCEPT !.response = response,
                                 !.status = "response_ready",
                                 !.delivery = "not_ready"])
  BY <1>2, <1>3, <1>4, WritesRow DEF Writes
<1>5. CASE /\ row.delivery = "failed"
           /\ Writes([row EXCEPT !.response = response,
                                 !.delivery = "not_ready", !.attempt = 0])
  BY <1>2, <1>3, <1>5, WritesRow DEF Writes
<1> QED
  BY <1>2, <1>4, <1>5

LEMMA StartsDelivery ==
  ASSUME Ledger!TypeOK, NEW f \in Claims, Ledger!StartRunDelivery(Turn, f)
  PROVE  /\ Ledger!TypeOK'
         /\ exec' = exec
         /\ row.fence = f
         /\ row.status = "response_ready"
         /\ row.delivery \in {"not_ready", "failed"}
         /\ row' = [row EXCEPT !.delivery = "pending", !.attempt = f]
<1>1. row \in Ledger!Row
  BY RowTyped
<1>2. /\ row.fence = f
      /\ row.status = "response_ready"
      /\ row.delivery \in {"not_ready", "failed"}
      /\ Writes([row EXCEPT !.delivery = "pending", !.attempt = f])
  BY DEF Ledger!StartRunDelivery, Ledger!Commit, Ledger!Fenced, Writes, row
<1>3. [row EXCEPT !.delivery = "pending", !.attempt = f] \in Ledger!Row
  BY <1>1, ClaimsAreNumbers DEF Ledger!Row, Ledger!Deliveries
<1> QED
  BY <1>2, <1>3, WritesRow DEF Writes

LEMMA Delivers ==
  ASSUME Ledger!TypeOK, NEW f \in Claims, NEW a,
         NEW disposition \in {"succeeded", "failed"},
         Ledger!FinalizeDelivered(Turn, f, a, disposition)
  PROVE  /\ Ledger!TypeOK'
         /\ exec' = exec
         /\ row.fence = f
         /\ row.attempt = a
         /\ row.delivery = "pending"
         /\ row' = [row EXCEPT !.delivery = "delivered", !.status = "settled",
                               !.disposition = disposition, !.lease = 0]
<1>1. row \in Ledger!Row
  BY RowTyped
<1>2. /\ row.fence = f
      /\ row.attempt = a
      /\ row.delivery = "pending"
      /\ Writes([row EXCEPT !.delivery = "delivered", !.status = "settled",
                            !.disposition = disposition, !.lease = 0])
  BY DEF Ledger!FinalizeDelivered, Ledger!PendingAttempt, Ledger!Commit,
         Ledger!Fenced, Writes, row, Ledger!NoLease
<1>3. [row EXCEPT !.delivery = "delivered", !.status = "settled",
                  !.disposition = disposition, !.lease = 0] \in Ledger!Row
  BY <1>1 DEF Ledger!Row, Ledger!Deliveries, Ledger!Statuses, Ledger!Dispositions
<1> QED
  BY <1>2, <1>3, WritesRow DEF Writes

(* The run settles as a delivery of f's has it.                            *)
SettlesFor(f) ==
    /\ row.fence = f
    /\ row.delivery = "pending"
    /\ \E d \in {"succeeded", "failed"} :
          row' = [row EXCEPT !.delivery = "delivered", !.status = "settled",
                             !.disposition = d, !.lease = 0]

LEMMA DeliversFor ==
  ASSUME Ledger!TypeOK, NEW f \in Claims, NEW a,
         NEW disposition \in {"succeeded", "failed"},
         Ledger!FinalizeDelivered(Turn, f, a, disposition)
  PROVE  SettlesFor(f)
BY Delivers DEF SettlesFor

LEMMA LosesTrack ==
  ASSUME Ledger!TypeOK, NEW f \in Claims, Ledger!FinalizeUnknown(Turn, f, f)
  PROVE  /\ Ledger!TypeOK'
         /\ exec' = exec
         /\ row.fence = f
         /\ row.attempt = f
         /\ row.delivery = "pending"
         /\ row' = [row EXCEPT !.delivery = "unknown",
                               !.status = "recovery_required", !.lease = 0]
<1>1. row \in Ledger!Row
  BY RowTyped
<1>2. /\ row.fence = f
      /\ row.attempt = f
      /\ row.delivery = "pending"
      /\ Writes([row EXCEPT !.delivery = "unknown",
                            !.status = "recovery_required", !.lease = 0])
  BY DEF Ledger!FinalizeUnknown, Ledger!PendingAttempt, Ledger!Commit,
         Ledger!Fenced, Writes, row, Ledger!NoLease
<1>3. [row EXCEPT !.delivery = "unknown", !.status = "recovery_required",
                  !.lease = 0] \in Ledger!Row
  BY <1>1 DEF Ledger!Row, Ledger!Deliveries, Ledger!Statuses
<1> QED
  BY <1>2, <1>3, WritesRow DEF Writes

LEMMA Fails ==
  ASSUME Ledger!TypeOK, NEW f \in Claims, Ledger!FinalizeFailed(Turn, f, f)
  PROVE  /\ Ledger!TypeOK'
         /\ exec' = exec
         /\ row.fence = f
         /\ row.attempt = f
         /\ row.delivery = "pending"
         /\ row' = [row EXCEPT !.delivery = "failed"]
<1>1. row \in Ledger!Row
  BY RowTyped
<1>2. /\ row.fence = f
      /\ row.attempt = f
      /\ row.delivery = "pending"
      /\ Writes([row EXCEPT !.delivery = "failed"])
  BY DEF Ledger!FinalizeFailed, Ledger!PendingAttempt, Ledger!Commit,
         Ledger!Fenced, Writes, row
<1>3. [row EXCEPT !.delivery = "failed"] \in Ledger!Row
  BY <1>1 DEF Ledger!Row, Ledger!Deliveries
<1> QED
  BY <1>2, <1>3, WritesRow DEF Writes

LEMMA GivesUp ==
  ASSUME Ledger!TypeOK, NEW f \in Claims,
         Ledger!SettleRunWithoutDelivery(Turn, f, "failed")
  PROVE  /\ Ledger!TypeOK'
         /\ exec' = exec
         /\ row.fence = f
         /\ row.status \in {"input_ready", "executing", "response_ready"}
         /\ row' = [row EXCEPT !.status = "settled", !.disposition = "failed",
                               !.delivery = "not_applicable", !.attempt = 0,
                               !.lease = 0]
<1>1. row \in Ledger!Row
  BY RowTyped
<1>2. /\ row.fence = f
      /\ row.status \in {"input_ready", "executing", "response_ready"}
      /\ Writes([row EXCEPT !.status = "settled", !.disposition = "failed",
                            !.delivery = "not_applicable", !.attempt = 0,
                            !.lease = 0])
  BY DEF Ledger!SettleRunWithoutDelivery, Ledger!Commit, Ledger!Fenced, Writes,
         row, Ledger!NoLease, Ledger!NoAttempt
<1>3. [row EXCEPT !.status = "settled", !.disposition = "failed",
                  !.delivery = "not_applicable", !.attempt = 0, !.lease = 0]
        \in Ledger!Row
  BY <1>1 DEF Ledger!Row, Ledger!Deliveries, Ledger!Statuses, Ledger!Dispositions
<1> QED
  BY <1>2, <1>3, WritesRow DEF Writes

(* A run that is given back keeps its answer, and says so in its status.   *)
BackTo == {"response_ready", "recovery_required", "input_ready", "queued"}

GivenBack ==
    \E s \in BackTo :
        /\ row' = [row EXCEPT !.status = s, !.lease = 0]
        /\ s = "response_ready" => row.status = "response_ready"
        /\ row.status = "response_ready" =>
              s \in {"response_ready", "recovery_required"}

LEMMA RequeueStatuses ==
  ASSUME NEW o \in Ledger!Row
  PROVE  /\ Ledger!RequeueStatus(o) \in {"response_ready", "input_ready", "queued"}
         /\ Ledger!RequeueStatus(o) = "response_ready" <=> o.status = "response_ready"
BY DEF Ledger!Row, Ledger!RequeueStatus

LEMMA Releases ==
  ASSUME Ledger!TypeOK, NEW f \in Claims,
         Ledger!ReleaseRequeue(Turn, f) \/ Ledger!ReleaseForRecovery(Turn, f)
  PROVE  /\ Ledger!TypeOK'
         /\ exec' = exec
         /\ row.fence = f
         /\ ~Over(row)
         /\ GivenBack
<1>1. row \in Ledger!Row
  BY RowTyped
<1>2. PICK s \in BackTo :
         /\ Writes([row EXCEPT !.status = s, !.lease = 0])
         /\ s = "response_ready" => row.status = "response_ready"
         /\ row.status = "response_ready" =>
               s \in {"response_ready", "recovery_required"}
  <2>1. CASE Ledger!ReleaseRequeue(Turn, f)
    <3>1. Writes([row EXCEPT !.status = Ledger!RequeueStatus(row), !.lease = 0])
      BY <2>1 DEF Ledger!ReleaseRequeue, Ledger!Commit, Writes, row, Ledger!NoLease
    <3> QED
      BY <1>1, <3>1, RequeueStatuses DEF BackTo
  <2>2. CASE Ledger!ReleaseForRecovery(Turn, f)
    <3>1. Writes([row EXCEPT !.status = "recovery_required", !.lease = 0])
      BY <2>2 DEF Ledger!ReleaseForRecovery, Ledger!Commit, Writes, row, Ledger!NoLease
    <3> QED
      BY <3>1 DEF BackTo
  <2> QED
    BY <2>1, <2>2
<1>3. [row EXCEPT !.status = s, !.lease = 0] \in Ledger!Row
  BY <1>1 DEF Ledger!Row, Ledger!Statuses, BackTo
<1>4. row.fence = f /\ ~Over(row)
  BY DEF Ledger!ReleaseRequeue, Ledger!ReleaseForRecovery, Ledger!OwnsLease,
         Ledger!Fenced, row, Over
<1>5. Ledger!TypeOK' /\ row' = [row EXCEPT !.status = s, !.lease = 0] /\ exec' = exec
  BY <1>2, <1>3, WritesRow DEF Writes
<1> QED
  BY <1>2, <1>4, <1>5 DEF GivenBack

(* The row as the reconciliation of expired leases leaves it.              *)
ReconciledTo(n) ==
    \/ n = row
    \/ /\ ~Over(row)
       /\ row.lease < 2
       /\ \E s \in BackTo :
             /\ n = [row EXCEPT !.status = s, !.lease = 0]
             /\ s = "response_ready" => row.status = "response_ready"
             /\ row.status = "response_ready" =>
                   s \in {"response_ready", "recovery_required"}

LEMMA ReconciledRow ==
  ASSUME Ledger!TypeOK
  PROVE  /\ Ledger!Reconciled(Turn) \in Ledger!Row
         /\ ReconciledTo(Ledger!Reconciled(Turn))
<1>1. row \in Ledger!Row
  BY RowTyped
<1>2. CASE ~Ledger!Expired(Turn)
  BY <1>1, <1>2 DEF Ledger!Reconciled, ReconciledTo, row
<1>3. CASE Ledger!Expired(Turn)
  <2>1. /\ row.lease < 2
        /\ row.status \in {"preparing_input", "input_ready", "executing",
                           "response_ready"}
    BY <1>3 DEF Ledger!Expired, row
  <2>2. PICK s \in BackTo :
           /\ Ledger!Reconciled(Turn) = [row EXCEPT !.status = s, !.lease = 0]
           /\ s = "response_ready" => row.status = "response_ready"
           /\ row.status = "response_ready" =>
                 s \in {"response_ready", "recovery_required"}
    <3> DEFINE s == IF row.status = "executing" /\ Ledger!MayHaveBeenSubmitted(Turn)
                    THEN "recovery_required" ELSE Ledger!RequeueStatus(row)
    <3>1. Ledger!Reconciled(Turn) = [row EXCEPT !.status = s, !.lease = 0]
      BY <1>1, <1>3 DEF Ledger!Reconciled, Ledger!NoLease, row, Ledger!Row
    <3>2. /\ s \in BackTo
          /\ s = "response_ready" => row.status = "response_ready"
          /\ row.status = "response_ready" =>
                s \in {"response_ready", "recovery_required"}
      BY <1>1, RequeueStatuses DEF BackTo
    <3> HIDE DEF s
    <3> QED
      BY <3>1, <3>2
  <2>3. [row EXCEPT !.status = s, !.lease = 0] \in Ledger!Row
    BY <1>1 DEF Ledger!Row, Ledger!Statuses, BackTo
  <2> QED
    BY <2>1, <2>2, <2>3 DEF ReconciledTo, Over
<1> QED
  BY <1>2, <1>3

LEMMA Reconciles ==
  ASSUME Ledger!TypeOK, run' = Ledger!ReconciledRuns, exec' = exec
  PROVE  Ledger!TypeOK' /\ ReconciledTo(row')
<1>1. row' = Ledger!Reconciled(Turn) /\ run' \in [{Turn} -> Ledger!Row]
  BY ReconciledRow DEF Ledger!ReconciledRuns, row
<1> QED
  BY <1>1, ReconciledRow DEF Ledger!TypeOK

(* A claim takes the run under the next token, with its answer as it is.   *)
Claimed ==
    /\ row'.fence = row.fence + 1
    /\ row'.lease = 3
    /\ row'.status \in {"preparing_input", "input_ready", "response_ready"}
    /\ row'.status = "response_ready" <=> row.status = "response_ready"
    /\ row'.delivery = row.delivery
    /\ row'.attempt = row.attempt
    /\ row'.response = row.response
    /\ ~Over(row)
    /\ row.lease < 2

LEMMA LeasedRow ==
  ASSUME NEW o \in Ledger!Row
  PROVE  [o EXCEPT !.status = IF o.status \in {"admitted", "queued"}
                              THEN "preparing_input" ELSE o.status,
                   !.lease = 3, !.fence = o.fence + 1] \in Ledger!Row
<1>1. (IF o.status \in {"admitted", "queued"} THEN "preparing_input" ELSE o.status)
        \in Ledger!Statuses
  BY DEF Ledger!Row, Ledger!Statuses
<1>2. o.fence + 1 \in Nat /\ 3 \in Nat
  BY DEF Ledger!Row
<1> QED
  BY <1>1, <1>2 DEF Ledger!Row

LEMMA ClaimsRow ==
  ASSUME Ledger!TypeOK, Ledger!ClaimNextInteractiveRun(Turn)
  PROVE  Ledger!TypeOK' /\ exec' = exec /\ Claimed
<1> DEFINE o == Ledger!Reconciled(Turn)
<1>1. row \in Ledger!Row /\ o \in Ledger!Row /\ ReconciledTo(o)
  BY RowTyped, ReconciledRow
<1>2. /\ o.status \in {"admitted", "queued", "input_ready", "response_ready"}
      /\ o.lease = 0
      /\ exec' = exec
      /\ run' = [Ledger!ReconciledRuns EXCEPT
                   ![Turn].status = IF @ \in {"admitted", "queued"}
                                    THEN "preparing_input" ELSE @,
                   ![Turn].lease = 2 + 1,
                   ![Turn].fence = @ + 1]
  BY DEF Ledger!ClaimNextInteractiveRun, Ledger!Claimable,
         Ledger!ReconciledRuns, Ledger!NoLease
<1>3. Ledger!ReconciledRuns = [r \in {Turn} |-> Ledger!Reconciled(r)]
  BY DEF Ledger!ReconciledRuns
<1>4. row' = [o EXCEPT !.status = IF o.status \in {"admitted", "queued"}
                                  THEN "preparing_input" ELSE o.status,
                       !.lease = 3, !.fence = o.fence + 1]
  BY <1>2, <1>3 DEF row
<1>5. row' \in Ledger!Row
  BY <1>1, <1>4, LeasedRow
<1>6. run' \in [{Turn} -> Ledger!Row]
  BY <1>2, <1>3, <1>5 DEF row
<1>7. Ledger!TypeOK'
  BY <1>2, <1>6 DEF Ledger!TypeOK
<1>8. /\ o.fence = row.fence /\ o.delivery = row.delivery
      /\ o.attempt = row.attempt /\ o.response = row.response
      /\ ~Over(row) /\ row.lease < 2
      /\ o.status = "response_ready" <=> row.status = "response_ready"
  <2>1. CASE o = row
    BY <1>1, <1>2, <2>1 DEF Over
  <2>2. CASE o # row
    BY <1>1, <1>2, <2>2 DEF ReconciledTo, Ledger!Row, BackTo
  <2> QED
    BY <2>1, <2>2
<1>9. Claimed
  BY <1>1, <1>2, <1>4, <1>8 DEF Claimed, Ledger!Row
<1> QED
  BY <1>2, <1>7, <1>9

LEMMA LeaseRunsOut ==
  ASSUME Ledger!TypeOK, run' = [run EXCEPT ![Turn].lease = 1], exec' = exec
  PROVE  Ledger!TypeOK' /\ row' = [row EXCEPT !.lease = 1]
<1>1. [row EXCEPT !.lease = 1] \in Ledger!Row
  BY RowTyped DEF Ledger!Row
<1>2. Writes([row EXCEPT !.lease = 1])
  BY DEF Writes, row
<1> QED
  BY <1>1, <1>2, WritesRow

(***************************************************************************)
(* What a handler's step does to the tables                                *)
(***************************************************************************)

LEMMA HandlerTyped ==
  ASSUME TypeOK, NEW f \in Claims
  PROVE  /\ handler[f] \in Handler
         /\ <<handler[f].text, handler[f].render>> \in Response
         /\ Disposition(f) \in {"succeeded", "failed"}
         /\ job.authed \in BOOLEAN
         /\ job.observed \in {0} \cup Claims
BY DEF TypeOK, Handler, Response, Disposition, Job

LEMMA LedgerKeepsTypes ==
  ASSUME TypeOK, NEW f \in Claims, Handle(f)
  PROVE  Ledger!TypeOK'
<1> USE DEF TypeOK, Commits, Throws, ledger
<1>1. CASE UNCHANGED <<run, exec>>
  BY <1>1 DEF Ledger!TypeOK
<1>2. CASE PrepareInput(f)
  BY <1>1, <1>2, PreparesRow DEF PrepareInput
<1>3. CASE CreateExecution(f)
  BY <1>1, <1>3, CreatesRow DEF CreateExecution
<1>4. CASE RecordRoute(f)
  BY <1>4, HandlerTyped, RoutesExecution DEF RecordRoute
<1>5. CASE SettleReaction(f) \/ SettleResult(f)
  <2> DEFINE Settles(o, m) == Ledger!SettleRunExecution(Turn, f, o, m)
  <2>1. \/ UNCHANGED <<run, exec>>
        \/ Settles("succeeded", "not_invoked") \/ Settles("succeeded", "settled")
        \/ Settles("not_submitted", "not_invoked") \/ Settles("failed", "settled")
    BY <1>5 DEF SettleReaction, SettleResult
  <2>2. \A o \in Ledger!Outcomes, m \in Ledger!Invocations :
           Settles(o, m) => Ledger!TypeOK'
    BY SettlesExecution
  <2> HIDE DEF Settles
  <2> QED
    BY <1>1, <2>1, <2>2 DEF Ledger!Outcomes, Ledger!Invocations
<1>6. CASE RecordResponse(f)
  BY <1>1, <1>6, HandlerTyped, RecordsResponse DEF RecordResponse
<1>7. CASE StartDelivery(f) \/ StartPersisted(f)
  BY <1>1, <1>7, StartsDelivery DEF StartDelivery, StartPersisted
<1>8. CASE FinalizeDelivery(f) \/ AdoptDelivery(f) \/ FinalizePersisted(f)
  BY <1>1, <1>8, HandlerTyped, Delivers
     DEF FinalizeDelivery, AdoptDelivery, FinalizePersisted
<1>9. CASE FinalizeRejected(f) \/ PersistedRejected(f)
  BY <1>1, <1>9, Fails DEF FinalizeRejected, PersistedRejected
<1>10. CASE FinalizeLost(f) \/ PersistedLost(f)
  BY <1>1, <1>10, LosesTrack DEF FinalizeLost, PersistedLost
<1>11. CASE Abandon(f)
  BY <1>1, <1>11, GivesUp DEF Abandon
<1>12. CASE Release(f)
  BY <1>1, <1>12, Releases DEF Release
<1> QED
  BY <1>1, <1>2, <1>3, <1>4, <1>5, <1>6, <1>7, <1>8, <1>9, <1>10, <1>11, <1>12
     DEF Handle, Prepare, AskAgent, Deliver, DeliverPersisted,
         LoadJob, ResolveIdentity, RecordAttempt, PrepareDispatch, Dispatch,
         RecordReceipt, PrepareRelay, Read, RecordSettlement, Retry,
         ChooseDelivery, IntendStream, CallSlack, StreamStarted, CloseStream,
         MarkFinalizing, StopStream, StreamDelivered, PostAccepted,
         PostDelivered, MarkUnknown, FallBack, MarkDelivered,
         MarkViewFinalized, ReadPersisted, SendPersisted, ClosePersisted,
         PersistedDelivered, PersistedFinalized, Classify, Mark

(***************************************************************************)
(* Types of what is beside the tables                                      *)
(***************************************************************************)
Marks == {"none", "done", "error", "recovery"}
Outcomes == {"completed", "requeue", "recover"}
Answers == {"answer", "apology"}
Renders == {"stream", "resume", "post", "reaction"}
Results == {"none", "completed", "failed", "early", "broken"}

LEMMA HandlerAt ==
  ASSUME NEW h \in Handler, NEW pc \in Points
  PROVE  /\ [h EXCEPT !.pc = pc] \in Handler
         /\ [h EXCEPT !.renewing = FALSE] \in Handler
         /\ [h EXCEPT !.pc = pc, !.offered = TRUE] \in Handler
         /\ [h EXCEPT !.pc = pc, !.offered = FALSE] \in Handler
BY DEF Handler

LEMMA HandlerConcluding ==
  ASSUME NEW h \in Handler, NEW pc \in Points, NEW mark \in Marks,
         NEW outcome \in Outcomes
  PROVE  [h EXCEPT !.pc = pc, !.mark = mark, !.outcome = outcome] \in Handler
BY DEF Handler, Marks, Outcomes

LEMMA HandlerSeeing ==
  ASSUME NEW h \in Handler, NEW pc \in Points, NEW seen \in View,
         NEW render \in Renders
  PROVE  /\ [h EXCEPT !.pc = pc, !.seen = seen] \in Handler
         /\ [h EXCEPT !.pc = pc, !.seen = seen, !.render = render] \in Handler
BY DEF Handler, Renders

LEMMA HandlerAnswering ==
  ASSUME NEW h \in Handler, NEW pc \in Points, NEW text \in Answers,
         NEW render \in Renders
  PROVE  /\ [h EXCEPT !.pc = pc, !.text = text] \in Handler
         /\ [h EXCEPT !.pc = pc, !.text = text, !.usable = FALSE] \in Handler
         /\ [h EXCEPT !.pc = pc, !.render = render] \in Handler
         /\ [h EXCEPT !.pc = pc, !.text = text, !.render = render] \in Handler
BY DEF Handler, Answers, Renders

LEMMA HandlerReading ==
  ASSUME NEW h \in Handler, NEW pc \in Points, NEW snapshot \in Job,
         NEW receipt \in {"none", "first", "repeat"}, NEW result \in Results
  PROVE  /\ [h EXCEPT !.pc = pc, !.snapshot = snapshot] \in Handler
         /\ [h EXCEPT !.pc = pc, !.snapshot.receipt = receipt] \in Handler
         /\ [h EXCEPT !.pc = pc, !.result = result] \in Handler
<1>1. h.snapshot \in Job
  BY DEF Handler
<1>2. [h.snapshot EXCEPT !.receipt = receipt] \in Job
  BY <1>1 DEF Job
<1>3. [h EXCEPT !.pc = pc, !.snapshot = [h.snapshot EXCEPT !.receipt = receipt]]
        \in Handler
  BY <1>2 DEF Handler
<1> QED
  BY <1>3 DEF Handler, Results

LEMMA BecomeTyped ==
  ASSUME TypeOK, NEW f \in Claims, NEW h \in Handler, Become(f, h)
  PROVE  handler' \in [Claims -> Handler]
BY DEF Become, TypeOK

LEMMA GotoTyped ==
  ASSUME TypeOK, NEW f \in Claims, NEW pc \in Points, Goto(f, pc)
  PROVE  handler' \in [Claims -> Handler]
<1>1. handler[f] \in Handler
  BY DEF TypeOK
<1>2. [handler[f] EXCEPT !.pc = pc] \in Handler
  BY <1>1, HandlerAt
<1> QED
  BY <1>2 DEF Goto, TypeOK

LEMMA ConcludeTyped ==
  ASSUME TypeOK, NEW f \in Claims, NEW mark \in Marks,
         NEW outcome \in Outcomes, Conclude(f, mark, outcome)
  PROVE  handler' \in [Claims -> Handler]
<1>1. handler[f] \in Handler /\ "mark" \in Points
  BY DEF TypeOK, Points
<1>2. [handler[f] EXCEPT !.pc = "mark", !.mark = mark, !.outcome = outcome] \in Handler
  BY <1>1, HandlerConcluding
<1> QED
  BY <1>2 DEF Conclude, TypeOK

LEMMA JobMarkedTyped ==
  ASSUME TypeOK, NEW mark \in Marks
  PROVE  JobMarked(mark) \in Job
<1>1. job \in Job
  BY DEF TypeOK
<1>2. mark # "none" => [job EXCEPT !.state = mark] \in Job
  BY <1>1 DEF Job, Marks
<1> QED
  BY <1>1, <1>2 DEF JobMarked

LEMMA FaultTyped ==
  ASSUME TypeOK, NEW kind, Fault(kind) \/ NoFault
  PROVE  faults' \in 0 .. MaxFaults
BY FaultAssumption DEF TypeOK, Fault, NoFault

(* Steps that move a handler on, or let it conclude.                       *)
Moves(f) ==
    \/ \E pc \in Points : Goto(f, pc)
    \/ \E mark \in Marks, outcome \in Outcomes : Conclude(f, mark, outcome)
    \/ \E h \in Handler : Become(f, h)

LEMMA MovesTyped ==
  ASSUME TypeOK, NEW f \in Claims, Moves(f)
  PROVE  handler' \in [Claims -> Handler]
BY BecomeTyped, GotoTyped, ConcludeTyped DEF Moves

LEMMA PrepareMoves ==
  ASSUME TypeOK, NEW f \in Claims, Prepare(f)
  PROVE  Moves(f)
<1>1. handler[f] \in Handler /\ job \in Job
  BY DEF TypeOK
<1>2. CASE LoadJob(f)
  <2>1. [handler[f] EXCEPT !.pc = "identity", !.snapshot = job] \in Handler
    BY <1>1, HandlerReading DEF Points, Results
  <2> QED
    BY <1>2, <2>1 DEF LoadJob, Moves, Marks, Outcomes
<1>3. CASE SettleReaction(f)
  <2>1. [handler[f] EXCEPT !.pc = "record", !.render = "reaction"] \in Handler
    BY <1>1, HandlerAnswering DEF Points, Answers, Renders
  <2> QED
    BY <1>3, <2>1 DEF SettleReaction, Moves, Points
<1>4. CASE ResolveIdentity(f)
  BY <1>4 DEF ResolveIdentity, Moves, Points, Marks, Outcomes
<1>5. CASE RecordAttempt(f) \/ PrepareInput(f) \/ CreateExecution(f) \/ RecordRoute(f)
  BY <1>5 DEF RecordAttempt, PrepareInput, CreateExecution, RecordRoute, Moves, Points
<1> QED
  BY <1>2, <1>3, <1>4, <1>5 DEF Prepare

LEMMA AskAgentMoves ==
  ASSUME TypeOK, NEW f \in Claims, AskAgent(f)
  PROVE  Moves(f)
<1> DEFINE h == handler[f]
<1>1. h \in Handler /\ h.snapshot \in Job /\ h.snapshot.settlement \in Results
  BY DEF TypeOK, Handler, Job, Results
<1>0. /\ {"result", "receipt", "checkpoint"} \subseteq Points
      /\ {"completed", "failed", "early", "broken"} \subseteq Results
  BY DEF Points, Results
<1>2. CASE PrepareDispatch(f)
  <2>1. /\ [h EXCEPT !.pc = "result", !.result = h.snapshot.settlement] \in Handler
        /\ [h EXCEPT !.pc = "result", !.result = "early"] \in Handler
    BY <1>0, <1>1, HandlerReading
  <2> QED
    BY <1>2, <2>1 DEF PrepareDispatch, Moves, Points
<1>3. CASE Dispatch(f)
  <2>1. \A receipt \in {"first", "repeat"} :
           [h EXCEPT !.pc = "receipt", !.snapshot.receipt = receipt] \in Handler
    BY <1>0, <1>1, HandlerReading
  <2> QED
    BY <1>3, <2>1 DEF Dispatch, Moves, Points
<1>4. CASE RecordReceipt(f) \/ RecordSettlement(f)
  <2>1. [h EXCEPT !.pc = "result", !.result = "broken"] \in Handler
    BY <1>0, <1>1, HandlerReading
  <2> QED
    BY <1>4, <2>1 DEF RecordReceipt, RecordSettlement, Moves, Points
<1>5. CASE Read(f)
  <2>1. flue \in {"completed", "failed", "early"} =>
           [h EXCEPT !.pc = "checkpoint", !.result = flue] \in Handler
    BY <1>0, <1>1, HandlerReading
  <2> QED
    BY <1>5, <2>1 DEF Read, Moves, Points
<1>6. CASE SettleResult(f)
  <2>1. \A text \in Answers : [h EXCEPT !.pc = "final", !.text = text] \in Handler
    BY <1>1, HandlerAnswering DEF Points, Renders
  <2>2. [h EXCEPT !.pc = "final", !.text = "apology", !.usable = FALSE] \in Handler
    BY <1>1, HandlerAnswering DEF Points, Answers, Renders
  <2>3. \/ \E text \in Answers :
              Become(f, [h EXCEPT !.pc = "final", !.text = text])
        \/ Become(f, [h EXCEPT !.pc = "final", !.text = "apology", !.usable = FALSE])
        \/ Goto(f, "classify")
    BY <1>6 DEF SettleResult, Answers
  <2> QED
    BY <2>1, <2>2, <2>3 DEF Moves, Points
<1>7. CASE PrepareRelay(f) \/ Retry(f)
  BY <1>7 DEF PrepareRelay, Retry, Moves, Points, Marks, Outcomes
<1> QED
  BY <1>2, <1>3, <1>4, <1>5, <1>6, <1>7 DEF AskAgent

LEMMA DeliverMoves ==
  ASSUME TypeOK, NEW f \in Claims, Deliver(f)
  PROVE  Moves(f)
<1> DEFINE h == handler[f]
<1>1. h \in Handler /\ view \in View
  BY DEF TypeOK
<1>2. CASE ChooseDelivery(f)
  <2>1. \A pc \in Points, render \in Renders :
           [h EXCEPT !.pc = pc, !.seen = view, !.render = render] \in Handler
    BY <1>1, HandlerSeeing
  <2> QED
    BY <1>2, <2>1 DEF ChooseDelivery, Moves, Points, Renders
<1>3. CASE \E from, to, then, stale :
              /\ to \in Streams /\ {then, stale} \subseteq Points
              /\ AdvanceOr(f, from, to, then, stale)
  <2>1. PICK from, to, then, stale :
              /\ to \in Streams /\ {then, stale} \subseteq Points
              /\ AdvanceOr(f, from, to, then, stale)
    BY <1>3
  <2>2. [view EXCEPT !.stream = to] \in View
    BY <1>1, <2>1 DEF View
  <2>3. [h EXCEPT !.pc = then, !.seen = [view EXCEPT !.stream = to]] \in Handler
    BY <1>1, <2>1, <2>2, HandlerSeeing DEF Renders
  <2> QED
    BY <2>1, <2>3 DEF AdvanceOr, Moves
<1>4. CASE IntendStream(f) \/ StreamStarted(f) \/ CloseStream(f)
           \/ MarkFinalizing(f) \/ StreamDelivered(f) \/ PostDelivered(f)
  BY <1>3, <1>4 DEF IntendStream, StreamStarted, CloseStream, MarkFinalizing,
     StreamDelivered, PostDelivered, Advance, Points, Streams
<1>5. CASE RecordResponse(f) \/ StartDelivery(f)
  <2>1. Sent(f) \in Points
    BY DEF Sent, Points
  <2>2. /\ [h EXCEPT !.pc = Sent(f), !.offered = TRUE] \in Handler
        /\ [h EXCEPT !.pc = Sent(f), !.offered = FALSE] \in Handler
    BY <1>1, <2>1, HandlerAt
  <2> QED
    BY <1>5, <2>2 DEF RecordResponse, StartDelivery, Moves, Points
<1>6. CASE PostAccepted(f)
  <2>1. [h EXCEPT !.pc = "posted", !.seen = view] \in Handler
    BY <1>1, HandlerSeeing DEF Points, Renders
  <2> QED
    BY <1>6, <2>1 DEF PostAccepted, Moves, Points
<1>7. CASE FallBack(f)
  <2>1. [h EXCEPT !.pc = "record", !.render = "post"] \in Handler
    BY <1>1, HandlerAnswering DEF Points, Renders, Answers
  <2> QED
    BY <1>7, <2>1 DEF FallBack, Moves, Points
<1>8. CASE CallSlack(f) \/ StopStream(f) \/ MarkUnknown(f) \/ FinalizeDelivery(f)
           \/ FinalizeRejected(f) \/ FinalizeLost(f) \/ MarkDelivered(f)
           \/ MarkViewFinalized(f)
  BY <1>8 DEF CallSlack, StopStream, MarkUnknown, FinalizeDelivery,
     FinalizeRejected, FinalizeLost, MarkDelivered, MarkViewFinalized, Moves, Points
<1> QED
  BY <1>2, <1>4, <1>5, <1>6, <1>7, <1>8 DEF Deliver

LEMMA DeliverPersistedMoves ==
  ASSUME TypeOK, NEW f \in Claims, DeliverPersisted(f)
  PROVE  Moves(f)
<1> DEFINE h == handler[f]
<1>1. h \in Handler /\ row \in Ledger!Row
  BY RowTyped DEF TypeOK
<1>2. CASE ReadPersisted(f)
  <2>1. row.response # <<>> =>
           row.response[1] \in Answers /\ row.response[2] \in Renders
    BY <1>1 DEF Ledger!Row, Ledger!Responses, Ledger!NoResponse, Answers, Renders
  <2>2. row.response # <<>> => \A pc \in Points :
           [h EXCEPT !.pc = pc, !.text = row.response[1],
                     !.render = row.response[2]] \in Handler
    BY <1>1, <2>1, HandlerAnswering
  <2> QED
    BY <1>2, <2>2 DEF ReadPersisted, Ledger!NoResponse, Moves, Points, Marks, Outcomes
<1>3. CASE StartPersisted(f)
  <2>1. [h EXCEPT !.pc = "p_slack", !.offered = TRUE] \in Handler
    BY <1>1, HandlerAt DEF Points
  <2> QED
    BY <1>3, <2>1 DEF StartPersisted, Moves, Points
<1>4. CASE AdoptDelivery(f) \/ SendPersisted(f) \/ ClosePersisted(f)
           \/ FinalizePersisted(f) \/ PersistedDelivered(f)
           \/ PersistedFinalized(f) \/ PersistedRejected(f) \/ PersistedLost(f)
  BY <1>4 DEF AdoptDelivery, SendPersisted, ClosePersisted, FinalizePersisted,
     PersistedDelivered, PersistedFinalized, PersistedRejected, PersistedLost,
     Moves, Points, Marks, Outcomes
<1> QED
  BY <1>2, <1>3, <1>4 DEF DeliverPersisted

LEMMA OthersStay ==
  ASSUME TypeOK, NEW f \in Claims, Moves(f)
  PROVE  \A g \in Claims \ {f} : handler'[g] = handler[g]
BY DEF TypeOK, Moves, Goto, Conclude, Become

LEMMA EndsMove ==
  ASSUME TypeOK, NEW f \in Claims, Abandon(f) \/ Classify(f) \/ Mark(f) \/ Release(f)
  PROVE  Moves(f)
BY DEF Abandon, Classify, Mark, Release, Moves, Points, Marks, Outcomes

LEMMA HandleMoves ==
  ASSUME TypeOK, NEW f \in Claims, Handle(f)
  PROVE  /\ handler' \in [Claims -> Handler]
         /\ \A g \in Claims \ {f} : handler'[g] = handler[g]
<1>1. Moves(f)
  BY PrepareMoves, AskAgentMoves, DeliverMoves, DeliverPersistedMoves, EndsMove
     DEF Handle
<1> QED
  BY <1>1, MovesTyped, OthersStay

(* Only what was read as the submission's end is checkpointed.             *)
ReadsInv == \A f \in Claims : At(f, "checkpoint") => handler[f].result # "broken"

LEMMA JobTyped ==
  ASSUME TypeOK, ReadsInv, NEW f \in Claims, Handle(f)
  PROVE  job' \in Job
<1>1. /\ job \in Job /\ handler[f] \in Handler
      /\ handler[f].snapshot \in Job
      /\ handler[f].mark \in Marks
      /\ handler[f].result \in Results
  BY DEF TypeOK, Handler, Marks, Results
<1>2. CASE UNCHANGED job
  BY <1>1, <1>2
<1>3. CASE Mark(f) \/ MarkDelivered(f) \/ PersistedDelivered(f)
  <2>1. \E mark \in Marks : job' = JobMarked(mark)
    BY <1>1, <1>3 DEF Mark, MarkDelivered, PersistedDelivered, Marks
  <2> QED
    BY <2>1, JobMarkedTyped
<1>4. CASE RecordAttempt(f)
  <2>1. Attempt(f) \in Nat
    BY <1>1 DEF Attempt, Job
  <2> QED
    BY <1>1, <1>4, <2>1 DEF RecordAttempt, Job
<1>5. CASE PrepareDispatch(f)
  <2>1. (IF job.observed = 0 THEN f ELSE job.observed) \in {0} \cup Claims
    BY <1>1 DEF Job
  <2>2. [job EXCEPT !.observed = IF job.observed = 0 THEN f ELSE job.observed] \in Job
    BY <1>1, <2>1 DEF Job
  <2> QED
    BY <1>1, <1>5, <2>2 DEF PrepareDispatch
<1>6. CASE RecordReceipt(f)
  <2>1. handler[f].snapshot.receipt \in {"none", "first", "repeat"}
    BY <1>1 DEF Job
  <2>2. [job EXCEPT !.receipt = handler[f].snapshot.receipt] \in Job
    BY <1>1, <2>1 DEF Job
  <2>3. JobMarked("recovery") \in Job
    BY JobMarkedTyped DEF Marks
  <2> QED
    BY <1>6, <2>2, <2>3 DEF RecordReceipt
<1>7. CASE RecordSettlement(f)
  <2>1. JobMarked("recovery") \in Job
    BY JobMarkedTyped DEF Marks
  <2>2. handler[f].result # "broken" =>
           [job EXCEPT !.settlement = handler[f].result] \in Job
    BY <1>1 DEF Job, Results
  <2>3. handler[f].result # "broken"
    BY <1>7 DEF RecordSettlement, ReadsInv
  <2> QED
    BY <1>7, <2>1, <2>2, <2>3 DEF RecordSettlement
<1> QED
  BY <1>2, <1>3, <1>4, <1>5, <1>6, <1>7
     DEF Handle, Prepare, AskAgent, Deliver, DeliverPersisted,
         LoadJob, ResolveIdentity, PrepareInput, CreateExecution, RecordRoute,
         SettleReaction, Dispatch, PrepareRelay, Read, SettleResult, Retry,
         ChooseDelivery, IntendStream, RecordResponse, StartDelivery, CallSlack,
         StreamStarted, CloseStream, MarkFinalizing, StopStream, StreamDelivered,
         PostAccepted, PostDelivered, MarkUnknown, FinalizeDelivery,
         FinalizeRejected, FallBack, FinalizeLost, MarkViewFinalized,
         ReadPersisted, AdoptDelivery, StartPersisted, SendPersisted,
         ClosePersisted, FinalizePersisted, PersistedFinalized,
         PersistedRejected, PersistedLost, Abandon, Classify, Release

(* What a move leaves of the handler's record.                             *)
GoneTo(f, pc) ==
    LET h == handler[f]
        n == handler'[f]
    IN  /\ n.pc = pc
        /\ n.phase = h.phase /\ n.snapshot = h.snapshot /\ n.seen = h.seen
        /\ n.usable = h.usable /\ n.offered = h.offered
        /\ n.renewing = h.renewing /\ n.result = h.result
        /\ n.text = h.text /\ n.render = h.render

LEMMA GoesTo ==
  ASSUME TypeOK, NEW f \in Claims, NEW pc, Goto(f, pc)
  PROVE  GoneTo(f, pc) /\ handler'[f].mark = handler[f].mark
<1>1. handler[f] \in Handler
  BY DEF TypeOK
<1>2. handler'[f] = [handler[f] EXCEPT !.pc = pc]
  BY DEF TypeOK, Goto
<1> QED
  BY <1>1, <1>2 DEF Handler, GoneTo

LEMMA ConcludesAt ==
  ASSUME TypeOK, NEW f \in Claims, NEW mark, NEW outcome, Conclude(f, mark, outcome)
  PROVE  GoneTo(f, "mark") /\ handler'[f].mark = mark
<1>1. handler[f] \in Handler
  BY DEF TypeOK
<1>2. handler'[f] = [handler[f] EXCEPT !.pc = "mark", !.mark = mark, !.outcome = outcome]
  BY DEF TypeOK, Conclude
<1> QED
  BY <1>1, <1>2 DEF Handler, GoneTo

LEMMA Becomes ==
  ASSUME TypeOK, NEW f \in Claims, NEW h, Become(f, h)
  PROVE  handler'[f] = h
BY DEF TypeOK, Become

(***************************************************************************)
(* The messages the ledger was asked about                                 *)
(***************************************************************************)

(* What a step of f leaves to the messages and to the other handlers.      *)
Spares(f) ==
    /\ row'.fence = row.fence
    /\ (\/ \E p \in posts : p.offered
        \/ \E g \in Claims \ {f} : Sending(handler[g])) =>
          /\ row'.attempt = row.attempt
          /\ row'.response = row.response
          /\ row'.delivery \in {row.delivery, "delivered", "unknown"}
    /\ (\E g \in Claims \ {f} : Sending(handler[g])) =>
          row'.delivery \in {row.delivery, "delivered"}
    /\ row.fence # f =>
          /\ row'.status = "response_ready" =>
                row.status = "response_ready" /\ row'.response = row.response
          /\ row.delivery \in {"failed", "not_ready"} =>
                row'.delivery \in {"failed", "not_ready"}

LEMMA SparingKeepsFinals ==
  ASSUME TypeOK, FinalsInv, NEW f \in Claims, Spares(f), posts' = posts,
         \A g \in Claims \ {f} : handler'[g] = handler[g],
         HandlerInv(f)', Unsent(handler'[f]) => Unsent(handler[f]), ShownInv'
  PROVE  FinalsInv'
<1>1. ASSUME NEW p \in posts, p.offered
      PROVE  /\ row'.attempt = p.by
             /\ row'.delivery \in {"pending", "delivered", "unknown"}
             /\ row'.response # <<>>
             /\ row'.response[1] = p.text
             /\ ~Unsent(handler'[p.by])
  <2>1. p.by \in Claims
    BY DEF TypeOK
  <2>2. /\ row.attempt = p.by
        /\ row.delivery \in {"pending", "delivered", "unknown"}
        /\ row.response # <<>>
        /\ row.response[1] = p.text
        /\ ~Unsent(handler[p.by])
    BY <1>1 DEF FinalsInv, PostsInv
  <2>3. ~Unsent(handler'[p.by])
    BY <2>1, <2>2
  <2> QED
    BY <1>1, <2>2, <2>3 DEF Spares
<1>2. UniqueInv'
  BY DEF FinalsInv, UniqueInv
<1>3. ASSUME NEW g \in Claims
      PROVE  HandlerInv(g)'
  <2>1. CASE g # f
    <3>1. HandlerInv(g) /\ handler'[g] = handler[g]
      BY <2>1 DEF FinalsInv
    <3> QED
      BY <2>1, <3>1 DEF HandlerInv, Spares, Sending
  <2> QED
    BY <2>1
<1> QED
  BY <1>1, <1>2, <1>3 DEF FinalsInv, PostsInv

(* A message is sent once, by a handler that has sent none yet.            *)
LEMMA PostingKeepsFinals ==
  ASSUME TypeOK, FinalsInv, NEW f \in Claims, row' = row, view' = view,
         posts' = posts \cup {Message(f)},
         \A g \in Claims \ {f} : handler'[g] = handler[g],
         Unsent(handler[f]), ~Unsent(handler'[f]),
         handler[f].offered => Sending(handler[f]),
         HandlerInv(f)'
  PROVE  FinalsInv'
<1>1. Message(f).by = f /\ Message(f).text = handler[f].text
      /\ Message(f).offered = handler[f].offered
  BY DEF Message
<1>2. handler[f].offered =>
         /\ row.attempt = f /\ row.delivery \in {"pending", "delivered"}
         /\ row.response = <<handler[f].text, handler[f].render>>
  BY DEF FinalsInv, HandlerInv
<1>3. \A p \in posts : p.offered => p.by # f
  BY DEF FinalsInv, PostsInv
<1>4. ASSUME NEW p \in posts', p.offered
      PROVE  /\ row'.attempt = p.by
             /\ row'.delivery \in {"pending", "delivered", "unknown"}
             /\ row'.response # <<>>
             /\ row'.response[1] = p.text
             /\ ~Unsent(handler'[p.by])
  <2>1. CASE p \in posts
    <3>1. p.by \in Claims \ {f}
      BY <1>3, <1>4, <2>1 DEF TypeOK
    <3> QED
      BY <1>4, <2>1, <3>1 DEF FinalsInv, PostsInv
  <2>2. CASE p = Message(f)
    BY <1>1, <1>2, <1>4, <2>2
  <2> QED
    BY <2>1, <2>2
<1>5. UniqueInv'
  BY <1>1, <1>2, <1>3 DEF FinalsInv, PostsInv, UniqueInv
<1>6. ShownInv'
  BY DEF ShownInv
<1>7. ASSUME NEW g \in Claims
      PROVE  HandlerInv(g)'
  BY DEF FinalsInv, HandlerInv, Sending
<1> QED
  BY <1>4, <1>5, <1>6, <1>7 DEF FinalsInv, PostsInv

(* Where a handler stands that is about to send nothing, and needs nothing *)
(* to have been sent; and of these, where it has sent nothing yet.         *)
Calm == {"load", "identity", "attempt", "prepare", "create", "route", "react",
         "dispatch", "send", "receipt", "relay", "read", "checkpoint", "result",
         "retry", "final", "intend", "record", "unsure", "rejected", "fallback",
         "lost", "persisted", "p_rejected", "p_lost", "p_delivered", "p_tidy",
         "classify", "mark", "release", "gone"}

Early == {"load", "identity", "attempt", "prepare", "create", "route", "react",
          "dispatch", "send", "receipt", "relay", "read", "checkpoint", "result",
          "final", "intend", "record", "rejected", "fallback", "persisted",
          "p_rejected"}

Rests(f) ==
    \/ handler'[f].pc \in Calm
    \/ handler'[f].pc \in Later \ {"started"} /\ posts # {}

ViewKept ==
    view'.stream \in {"delivered", "finalized"} =>
        view.stream \in {"delivered", "finalized"} \/ posts # {}

(* A step of f that asks nobody and shows nothing.                         *)
Quiet(f) ==
    /\ row' = row /\ posts' = posts
    /\ ViewKept
    /\ handler[f].pc # "none"
    /\ \A g \in Claims \ {f} : handler'[g] = handler[g]

LEMMA QuietKeepsFinals ==
  ASSUME TypeOK, FinalsInv, NEW f \in Claims, Quiet(f),
         HandlerInv(f)', Unsent(handler'[f]) => Unsent(handler[f])
  PROVE  FinalsInv'
<1>1. row' = row /\ Spares(f)
  BY DEF Quiet, Spares
<1>2. ShownInv'
  BY <1>1 DEF Quiet, ViewKept, ShownInv, FinalsInv
<1> QED
  BY <1>1, <1>2, SparingKeepsFinals DEF Quiet

LEMMA CalmHandler ==
  ASSUME FinalsInv, NEW f \in Claims, handler[f].pc # "none",
         Rests(f), posts' = posts, row'.fence = row.fence
  PROVE  HandlerInv(f)'
BY DEF Rests, FinalsInv, HandlerInv, Calm, Sending, Later

LEMMA CalmKeepsFinals ==
  ASSUME TypeOK, FinalsInv, NEW f \in Claims, Quiet(f), Rests(f),
         handler'[f].pc \in Early => handler[f].pc \in Early
  PROVE  FinalsInv'
<1>1. HandlerInv(f)'
  BY CalmHandler DEF Quiet
<1>2. Unsent(handler'[f]) => Unsent(handler[f])
  BY DEF Rests, Unsent, Calm, Early, Later
<1> QED
  BY <1>1, <1>2, QuietKeepsFinals

(* Steps of f that write to the ledger.                                    *)
LEMMA CalmWriteKeepsFinals ==
  ASSUME TypeOK, FinalsInv, NEW f \in Claims, Spares(f),
         UNCHANGED <<posts, view>>, handler[f].pc # "none",
         \A g \in Claims \ {f} : handler'[g] = handler[g],
         Rests(f),
         handler'[f].pc \in Early => handler[f].pc \in Early,
         row'.delivery = "delivered" => row.delivery = "delivered" \/ posts # {}
  PROVE  FinalsInv'
<1>1. HandlerInv(f)'
  BY CalmHandler DEF Spares
<1>2. Unsent(handler'[f]) => Unsent(handler[f])
  BY DEF Rests, Unsent, Calm, Early, Later
<1>3. ShownInv'
  BY DEF ShownInv, FinalsInv
<1> QED
  BY <1>1, <1>2, <1>3, SparingKeepsFinals

(* An asked-for message rules out that the delivery may be asked for.      *)
LEMMA NothingOffered ==
  ASSUME FinalsInv,
         row.delivery \notin {"pending", "delivered", "unknown"}
            \/ row.response = <<>>
  PROVE  /\ \A p \in posts : ~p.offered
         /\ \A g \in Claims : ~Sending(handler[g])
BY DEF FinalsInv, PostsInv, HandlerInv

LEMMA PrepareKeepsFinals ==
  ASSUME TypeOK, FinalsInv, NEW f \in Claims, Prepare(f)
  PROVE  FinalsInv'
<1> DEFINE h == handler[f]
<1>1. /\ handler[f] \in Handler
      /\ Ledger!TypeOK
      /\ \A g \in Claims \ {f} : handler'[g] = handler[g]
  BY PrepareMoves, OthersStay DEF TypeOK
<1>2. UNCHANGED <<posts, view>>
  BY DEF Prepare, LoadJob, ResolveIdentity, RecordAttempt, PrepareInput,
         CreateExecution, RecordRoute, SettleReaction
<1>3. h.pc \in Early \ {"record"} /\ h.pc # "none"
  BY DEF Prepare, LoadJob, ResolveIdentity, RecordAttempt, PrepareInput,
         CreateExecution, RecordRoute, SettleReaction, At, Early
<1>4. handler'[f].pc \in Calm
  <2>1. CASE LoadJob(f)
    <3>1. [h EXCEPT !.pc = "identity", !.snapshot = job].pc = "identity"
      BY <1>1 DEF Handler
    <3> QED
      BY <2>1, <3>1, Becomes, ConcludesAt DEF LoadJob, GoneTo, Calm
  <2>2. CASE SettleReaction(f)
    <3>1. [h EXCEPT !.pc = "record", !.render = "reaction"].pc = "record"
      BY <1>1 DEF Handler
    <3> QED
      BY <2>2, <3>1, Becomes, GoesTo DEF SettleReaction, GoneTo, Calm
  <2>3. CASE \/ ResolveIdentity(f) \/ RecordAttempt(f) \/ PrepareInput(f)
             \/ CreateExecution(f) \/ RecordRoute(f)
    BY <2>3, GoesTo, ConcludesAt DEF ResolveIdentity, RecordAttempt,
       PrepareInput, CreateExecution, RecordRoute, GoneTo, Calm
  <2> QED
    BY <2>1, <2>2, <2>3 DEF Prepare
<1>5. CASE row' = row
  BY <1>1, <1>2, <1>3, <1>4, <1>5, CalmKeepsFinals DEF Quiet, ViewKept, Rests
<1>6. CASE LoadJob(f) \/ ResolveIdentity(f) \/ RecordAttempt(f)
  BY <1>5, <1>6 DEF LoadJob, ResolveIdentity, RecordAttempt, row
<1>7. CASE PrepareInput(f) /\ row' # row
  <2>1. \/ /\ ~row.prepared
           /\ row.status \in {"admitted", "queued", "preparing_input"}
           /\ row' = [row EXCEPT !.prepared = TRUE, !.status = "input_ready"]
        \/ /\ row.delivery = "failed"
           /\ row' = [row EXCEPT !.status = "input_ready", !.response = <<>>,
                                 !.delivery = "not_ready", !.attempt = 0]
    BY <1>1, <1>7, PreparesRow DEF PrepareInput, Commits, Throws, ledger, row
  <2>2. Spares(f) /\ (row'.delivery = "delivered" => row.delivery = "delivered")
    BY <1>1, <2>1, RowTyped, NothingOffered DEF Spares, Ledger!Row
  <2> QED
    BY <1>1, <1>2, <1>3, <1>4, <2>2, CalmWriteKeepsFinals DEF Rests
<1>8. CASE CreateExecution(f) /\ row' # row
  <2>1. row' = [row EXCEPT !.status = "executing"]
    BY <1>1, <1>8, CreatesRow DEF CreateExecution, Commits, Throws, ledger, row
  <2>2. Spares(f) /\ (row'.delivery = "delivered" => row.delivery = "delivered")
    BY <1>1, <2>1, RowTyped DEF Spares, Ledger!Row
  <2> QED
    BY <1>1, <1>2, <1>3, <1>4, <2>2, CalmWriteKeepsFinals DEF Rests
<1>9. CASE RecordRoute(f)
  BY <1>1, <1>5, <1>9, HandlerTyped, RoutesExecution DEF RecordRoute
<1>10. CASE SettleReaction(f)
  <2>1. row' = row
    BY <1>1, <1>10, SettlesExecution DEF SettleReaction, Commits, Throws, ledger,
       row, Ledger!Outcomes, Ledger!Invocations
  <2> QED
    BY <1>5, <2>1
<1> QED
  BY <1>5, <1>6, <1>7, <1>8, <1>9, <1>10 DEF Prepare

LEMMA AskAgentKeepsFinals ==
  ASSUME TypeOK, FinalsInv, NEW f \in Claims, AskAgent(f)
  PROVE  FinalsInv'
<1> DEFINE h == handler[f]
<1>1. /\ handler[f] \in Handler
      /\ Ledger!TypeOK
      /\ view \in View
      /\ \A g \in Claims \ {f} : handler'[g] = handler[g]
  BY AskAgentMoves, OthersStay DEF TypeOK
<1>2. posts' = posts /\ ViewKept
  <2>1. posts' = posts /\ (view' = view \/ PrepareRelay(f))
    BY DEF AskAgent, PrepareDispatch, Dispatch, RecordReceipt, PrepareRelay,
           Read, RecordSettlement, SettleResult, Retry
  <2>2. CASE PrepareRelay(f)
    BY <1>1, <2>1, <2>2 DEF PrepareRelay, ViewKept, View
  <2> QED
    BY <2>1, <2>2 DEF ViewKept
<1>3. h.pc # "none" /\ (h.pc \in Early \/ Retry(f))
  BY DEF AskAgent, PrepareDispatch, Dispatch, RecordReceipt, PrepareRelay,
         Read, RecordSettlement, SettleResult, Retry, At, Early
<1>4. handler'[f].pc \in Calm /\ (Retry(f) => handler'[f].pc \notin Early)
  <2>1. CASE PrepareDispatch(f)
    <3>1. /\ [h EXCEPT !.pc = "result", !.result = h.snapshot.settlement].pc = "result"
          /\ [h EXCEPT !.pc = "result", !.result = "early"].pc = "result"
      BY <1>1 DEF Handler
    <3>2. handler'[f].pc \in {"result", "send", "relay"}
      BY <2>1, <3>1, Becomes, GoesTo DEF PrepareDispatch, GoneTo
    <3> QED
      BY <2>1, <3>2 DEF PrepareDispatch, Calm, Retry, At
  <2>2. CASE Dispatch(f)
    <3> DEFINE receipt == IF flue = "none" THEN "first" ELSE "repeat"
    <3>1. [h EXCEPT !.pc = "receipt", !.snapshot.receipt = receipt].pc = "receipt"
      BY <1>1 DEF Handler
    <3> QED
      BY <2>2, <3>1, Becomes, GoesTo DEF Dispatch, GoneTo, Calm, Retry, At
  <2>3. CASE RecordReceipt(f) \/ RecordSettlement(f)
    <3>1. [h EXCEPT !.pc = "result", !.result = "broken"].pc = "result"
      BY <1>1 DEF Handler
    <3> QED
      BY <2>3, <3>1, Becomes, GoesTo DEF RecordReceipt, RecordSettlement, GoneTo,
         Calm, Retry, At
  <2>4. CASE Read(f)
    <3>1. [h EXCEPT !.pc = "checkpoint", !.result = flue].pc = "checkpoint"
      BY <1>1 DEF Handler
    <3> QED
      BY <2>4, <3>1, Becomes, GoesTo DEF Read, GoneTo, Calm, Retry, At
  <2>5. CASE SettleResult(f)
    <3> DEFINE text == IF h.result = "completed" THEN "answer" ELSE "apology"
    <3>1. /\ [h EXCEPT !.pc = "final", !.text = text].pc = "final"
          /\ [h EXCEPT !.pc = "final", !.text = "apology", !.usable = FALSE].pc = "final"
      BY <1>1 DEF Handler
    <3> QED
      BY <2>5, <3>1, Becomes, GoesTo DEF SettleResult, GoneTo, Calm, Retry, At
  <2>6. CASE PrepareRelay(f)
    BY <2>6, GoesTo DEF PrepareRelay, GoneTo, Calm, Retry, At
  <2>7. CASE Retry(f)
    BY <2>7, ConcludesAt DEF Retry, GoneTo, Calm, Early
  <2> QED
    BY <2>1, <2>2, <2>3, <2>4, <2>5, <2>6, <2>7 DEF AskAgent
<1>5. row' = row
  <2>1. CASE SettleResult(f)
    <3> DEFINE Settles(o, m) == Ledger!SettleRunExecution(Turn, f, o, m)
    <3>1. \/ UNCHANGED <<run, exec>>
          \/ Settles("succeeded", "settled") \/ Settles("failed", "settled")
          \/ Settles("not_submitted", "not_invoked")
      BY <2>1 DEF SettleResult, Commits, Throws, ledger
    <3>2. \A o \in Ledger!Outcomes, m \in Ledger!Invocations :
             Settles(o, m) => row' = row
      BY <1>1, SettlesExecution
    <3> HIDE DEF Settles
    <3> QED
      BY <3>1, <3>2 DEF Ledger!Outcomes, Ledger!Invocations, row
  <2> QED
    BY <2>1 DEF AskAgent, PrepareDispatch, Dispatch, RecordReceipt,
       PrepareRelay, Read, RecordSettlement, Retry, row
<1> QED
  BY <1>1, <1>2, <1>3, <1>4, <1>5, CalmKeepsFinals DEF Quiet, Rests

(* The message a handler has in hand stays as it is.                       *)
Carries(f, pc) ==
    LET h == handler[f]
        n == handler'[f]
    IN  n.pc = pc /\ n.offered = h.offered /\ n.text = h.text /\ n.render = h.render

LEMMA GoesCarrying ==
  ASSUME TypeOK, NEW f \in Claims, NEW pc, Goto(f, pc)
  PROVE  Carries(f, pc)
BY GoesTo DEF GoneTo, Carries

LEMMA Advances ==
  ASSUME TypeOK, NEW f \in Claims, NEW from, NEW to \in Streams,
         NEW then, NEW stale, AdvanceOr(f, from, to, then, stale)
  PROVE  \/ Carries(f, then) /\ view'.stream = to
         \/ Carries(f, stale) /\ view' = view
<1>1. handler[f] \in Handler /\ view \in View
  BY DEF TypeOK
<1>2. CASE view = handler[f].seen /\ view.stream = from
  <2>1. /\ view' = [view EXCEPT !.stream = to]
        /\ Become(f, [handler[f] EXCEPT !.pc = then, !.seen = view'])
    BY <1>2 DEF AdvanceOr
  <2>2. handler'[f] = [handler[f] EXCEPT !.pc = then, !.seen = view']
    BY <2>1, Becomes
  <2>3. Carries(f, then)
    BY <1>1, <2>2 DEF Handler, Carries
  <2> QED
    BY <1>1, <2>1, <2>3 DEF View
<1>3. CASE ~(view = handler[f].seen /\ view.stream = from)
  BY <1>3, GoesCarrying DEF AdvanceOr
<1> QED
  BY <1>2, <1>3

(* Steps along the stream of a fresh answer.                               *)
Streaming(f) ==
    \/ IntendStream(f) \/ StreamStarted(f) \/ CloseStream(f)
    \/ MarkFinalizing(f) \/ StreamDelivered(f) \/ PostDelivered(f)

LEMMA StreamingKeepsFinals ==
  ASSUME TypeOK, FinalsInv, NEW f \in Claims, Streaming(f)
  PROVE  FinalsInv'
<1> DEFINE h == handler[f]
<1>1. /\ row' = row /\ posts' = posts
      /\ \A g \in Claims \ {f} : handler'[g] = handler[g]
  BY DeliverMoves, OthersStay DEF Deliver, Streaming, IntendStream, StreamStarted,
     CloseStream, MarkFinalizing, StreamDelivered, PostDelivered, row
<1>2. CASE IntendStream(f)
  <2>1. h.pc = "intend" /\ AdvanceOr(f, "absent", "starting", "record", "classify")
    BY <1>2 DEF IntendStream, Advance, At
  <2>2. \/ Carries(f, "record") /\ view'.stream = "starting"
        \/ Carries(f, "classify") /\ view' = view
    BY <2>1, Advances DEF Streams
  <2> QED
    BY <1>1, <2>1, <2>2, CalmKeepsFinals DEF Quiet, ViewKept, Rests, Carries, Calm, Early
<1>3. CASE StreamDelivered(f) \/ PostDelivered(f)
  <2>1. \/ /\ h.pc = "stopped"
           /\ AdvanceOr(f, "finalizing", "delivered", "verdict", "classify")
        \/ /\ h.pc = "posted"
           /\ AdvanceOr(f, "fallback", "delivered", "verdict", "lost")
    BY <1>3 DEF StreamDelivered, PostDelivered, Advance, At
  <2>2. \/ Carries(f, "verdict") /\ view'.stream = "delivered"
        \/ Carries(f, "classify") /\ view' = view
        \/ Carries(f, "lost") /\ view' = view
    BY <2>1, Advances DEF Streams
  <2>3. posts # {}
    BY <2>1 DEF FinalsInv, HandlerInv, Later
  <2> QED
    BY <1>1, <2>1, <2>2, <2>3, CalmKeepsFinals
       DEF Quiet, ViewKept, Rests, Carries, Calm, Early, Later
<1>4. CASE StreamStarted(f) \/ CloseStream(f) \/ MarkFinalizing(f)
  <2>1. \/ h.pc = "started" /\ AdvanceOr(f, "starting", "streaming", "close", "classify")
        \/ h.pc = "close" /\ AdvanceOr(f, "streaming", "reconciling", "finalizing", "classify")
        \/ h.pc = "finalizing" /\ AdvanceOr(f, "reconciling", "finalizing", "stop", "classify")
    BY <1>4 DEF StreamStarted, CloseStream, MarkFinalizing, Advance, At
  <2>2. \/ h.pc = "started" /\ Carries(f, "close") /\ view'.stream = "streaming"
        \/ h.pc = "close" /\ Carries(f, "finalizing") /\ view'.stream = "reconciling"
        \/ h.pc = "finalizing" /\ Carries(f, "stop") /\ view'.stream = "finalizing"
        \/ Carries(f, "classify") /\ view' = view
    BY <2>1, Advances DEF Streams
  <2>3. Quiet(f)
    BY <1>1, <2>1, <2>2 DEF Quiet, ViewKept
  <2>4. HandlerInv(f)
    BY DEF FinalsInv
  <2>5. Unsent(handler'[f]) => Unsent(h)
    BY <2>1, <2>2, <2>4 DEF Unsent, Carries, HandlerInv
  <2>6. HandlerInv(f)'
    BY <1>1, <2>1, <2>2, <2>4 DEF HandlerInv, Sending, Carries, Later
  <2> QED
    BY <2>3, <2>5, <2>6, QuietKeepsFinals
<1> QED
  BY <1>2, <1>3, <1>4 DEF Streaming

(* The other steps of a delivery that leave ledger and messages alone.     *)
Between(f) ==
    \/ ChooseDelivery(f) \/ PostAccepted(f) \/ MarkUnknown(f) \/ FallBack(f)
    \/ MarkDelivered(f) \/ MarkViewFinalized(f)

LEMMA BetweenKeepsFinals ==
  ASSUME TypeOK, FinalsInv, NEW f \in Claims, Between(f)
  PROVE  FinalsInv'
<1> DEFINE h == handler[f]
<1>1. /\ h \in Handler /\ view \in View
      /\ row' = row /\ posts' = posts
      /\ \A g \in Claims \ {f} : handler'[g] = handler[g]
      /\ h.pc \in Later => posts # {}
  BY DeliverMoves, OthersStay DEF TypeOK, Deliver, Between, ChooseDelivery,
     PostAccepted, MarkUnknown, FallBack, MarkDelivered, MarkViewFinalized, row,
     FinalsInv, HandlerInv
<1>2. CASE ChooseDelivery(f)
  <2>1. /\ [h EXCEPT !.pc = "intend", !.seen = view, !.render = "stream"].pc = "intend"
        /\ [h EXCEPT !.pc = "record", !.seen = view, !.render = "resume"].pc = "record"
        /\ [h EXCEPT !.pc = "record", !.seen = view, !.render = "post"].pc = "record"
    BY <1>1 DEF Handler
  <2>2. /\ h.pc = "final" /\ view' = view
        /\ \/ handler'[f].pc \in {"intend", "record", "classify"}
           \/ handler'[f].pc = "delivered" /\ view.stream \in {"delivered", "finalized"}
    BY <1>2, <2>1, Becomes, GoesTo DEF ChooseDelivery, GoneTo, At
  <2>3. view.stream \in {"delivered", "finalized"} => posts # {}
    BY DEF FinalsInv, ShownInv
  <2> QED
    BY <1>1, <2>2, <2>3, CalmKeepsFinals
       DEF Quiet, ViewKept, Rests, Calm, Early, Later
<1>3. CASE PostAccepted(f)
  <2>1. [h EXCEPT !.pc = "posted", !.seen = view].pc = "posted"
    BY <1>1 DEF Handler
  <2>2. h.pc = "accepted" /\ view' = view /\ handler'[f].pc \in {"posted", "verdict"}
    BY <1>3, <2>1, Becomes, GoesTo DEF PostAccepted, GoneTo, At
  <2> QED
    BY <1>1, <2>2, CalmKeepsFinals DEF Quiet, ViewKept, Rests, Calm, Early, Later
<1>4. CASE MarkUnknown(f)
  <2>1. /\ h.pc = "unsure" /\ handler'[f].pc = "lost"
        /\ view' = view \/ view'.stream = "unknown"
    BY <1>1, <1>4, GoesTo DEF MarkUnknown, GoneTo, At, View
  <2> QED
    BY <1>1, <2>1, CalmKeepsFinals DEF Quiet, ViewKept, Rests, Calm, Early
<1>5. CASE FallBack(f)
  <2>1. /\ [h EXCEPT !.pc = "record", !.render = "post"].pc = "record"
        /\ [view EXCEPT !.stream = "fallback"].stream = "fallback"
    BY <1>1 DEF Handler, View
  <2>2. /\ h.pc = "fallback" /\ handler'[f].pc \in {"record", "classify"}
        /\ view' = view \/ view'.stream = "fallback"
    BY <1>1, <1>5, <2>1, Becomes, GoesTo DEF FallBack, GoneTo, At
  <2> QED
    BY <1>1, <2>2, CalmKeepsFinals DEF Quiet, ViewKept, Rests, Calm, Early
<1>6. CASE MarkDelivered(f) \/ MarkViewFinalized(f)
  <2>1. /\ h.pc \in {"delivered", "tidy"}
        /\ handler'[f].pc \in {"tidy", "classify"}
    BY <1>6, GoesTo DEF MarkDelivered, MarkViewFinalized, GoneTo, At
  <2> QED
    BY <1>1, <2>1, CalmKeepsFinals DEF Quiet, ViewKept, Rests, Calm, Early, Later
<1> QED
  BY <1>2, <1>3, <1>4, <1>5, <1>6 DEF Between

(* Slack takes the message of f, or may have; or it does not.              *)
Shows(f) ==
    LET h == handler[f]
    IN  /\ posts' = posts \cup {Message(f)}
        /\ \/ h.pc = "slack" /\ h.render = "stream" /\ Carries(f, "started")
           \/ h.pc = "slack" /\ (Carries(f, "unsure") \/ Carries(f, "lost"))
           \/ h.pc = "slack" /\ Carries(f, "accepted")
           \/ /\ h.pc = "stop" /\ h.render = "resume"
              /\ Carries(f, "stopped") \/ Carries(f, "unsure")
           \/ h.pc = "p_slack" /\ (Carries(f, "p_close") \/ Carries(f, "p_lost"))

ShowsNothing(f) ==
    LET h == handler[f]
    IN  /\ posts' = posts
        /\ \/ /\ h.pc = "slack"
              /\ Carries(f, "rejected") \/ Carries(f, "unsure") \/ Carries(f, "lost")
           \/ /\ h.pc = "stop" /\ h.render # "resume"
              /\ Carries(f, "stopped") \/ Carries(f, "unsure")
           \/ h.pc = "p_slack" /\ (Carries(f, "p_rejected") \/ Carries(f, "p_lost"))

(* What was sent, or may have been, is not sent again.                     *)
LEMMA SendingKeepsFinals ==
  ASSUME TypeOK, FinalsInv, NEW f \in Claims,
         CallSlack(f) \/ StopStream(f) \/ SendPersisted(f)
  PROVE  FinalsInv'
<1> DEFINE h == handler[f]
<1>1. /\ row' = row /\ view' = view /\ HandlerInv(f)
      /\ \A g \in Claims \ {f} : handler'[g] = handler[g]
  BY DeliverMoves, DeliverPersistedMoves, OthersStay DEF Deliver, DeliverPersisted,
     CallSlack, StopStream, SendPersisted, row, FinalsInv
<1>2. Shows(f) \/ ShowsNothing(f)
  BY GoesCarrying DEF Shows, ShowsNothing, CallSlack,
     StopStream, SendPersisted, At
<1>3. CASE Shows(f)
  <2>1. Unsent(h) /\ ~Unsent(handler'[f]) /\ (h.offered => Sending(h))
    BY <1>3 DEF Shows, Unsent, Sending, Carries
  <2>2. posts' # {}
    BY <1>3 DEF Shows
  <2>3. HandlerInv(f)'
    BY <1>1, <1>3, <2>2 DEF Shows, HandlerInv, Sending, Carries, Later
  <2> QED
    BY <1>1, <1>3, <2>1, <2>3, PostingKeepsFinals DEF Shows
<1>4. CASE ShowsNothing(f)
  <2>1. Quiet(f)
    BY <1>1, <1>4 DEF ShowsNothing, Quiet, ViewKept
  <2>2. HandlerInv(f)'
    BY <1>1, <1>4 DEF ShowsNothing, HandlerInv, Sending, Carries, Later
  <2>3. Unsent(handler'[f]) => Unsent(h)
    BY <1>4 DEF ShowsNothing, Unsent, Carries
  <2> QED
    BY <2>1, <2>2, <2>3, QuietKeepsFinals
<1> QED
  BY <1>2, <1>3, <1>4

(* The verdicts on a delivery.                                             *)
LEMMA VerdictsKeepFinals ==
  ASSUME TypeOK, FinalsInv, NEW f \in Claims,
         \/ FinalizeDelivery(f) \/ AdoptDelivery(f) \/ FinalizePersisted(f)
         \/ FinalizeRejected(f) \/ PersistedRejected(f)
         \/ FinalizeLost(f) \/ PersistedLost(f)
  PROVE  FinalsInv'
<1> DEFINE h == handler[f]
<1> USE DEF Commits, Throws, ledger, row
<1>1. /\ Ledger!TypeOK /\ row \in Ledger!Row
      /\ posts' = posts /\ view' = view
      /\ \A g \in Claims \ {f} : handler'[g] = handler[g]
      /\ h.pc \in Later => posts # {}
  BY RowTyped, DeliverMoves, DeliverPersistedMoves, OthersStay
     DEF TypeOK, Deliver, DeliverPersisted, FinalizeDelivery, AdoptDelivery,
         FinalizePersisted, FinalizeRejected, PersistedRejected, FinalizeLost,
         PersistedLost, FinalsInv, HandlerInv
<1>2. CASE FinalizeDelivery(f) \/ AdoptDelivery(f) \/ FinalizePersisted(f)
  <2>1. /\ h.pc \in {"verdict", "adopt", "p_verdict"}
        /\ handler'[f].pc \in {"delivered", "classify", "p_delivered", "mark", "p_lost"}
        /\ posts # {}
    BY <1>1, <1>2, GoesTo, ConcludesAt DEF FinalizeDelivery, AdoptDelivery,
       FinalizePersisted, GoneTo, At, Later
  <2>2. row' = row \/ SettlesFor(f)
    BY <1>1, <1>2, HandlerTyped, DeliversFor
       DEF FinalizeDelivery, AdoptDelivery, FinalizePersisted
  <2>3. Spares(f)
    BY <1>1, <2>2 DEF SettlesFor, Spares, Ledger!Row
  <2> QED
    BY <1>1, <2>1, <2>3, CalmWriteKeepsFinals DEF Rests, Calm, Early, Later
<1>3. CASE FinalizeRejected(f)
  <2>1. /\ h.pc = "rejected"
        /\ handler'[f].pc \in {"fallback", "classify"}
    BY <1>3, GoesTo DEF FinalizeRejected, GoneTo, At
  <2>2. \/ row' = row
        \/ /\ row.fence = f /\ row.attempt = f
           /\ row' = [row EXCEPT !.delivery = "failed"]
    BY <1>1, <1>3, Fails DEF FinalizeRejected
  <2>3. \A p \in posts : p.offered => row.attempt # f
    BY <2>1 DEF FinalsInv, PostsInv, Unsent
  <2>4. \A g \in Claims \ {f} : Sending(handler[g]) => row.attempt # f
    BY DEF FinalsInv, HandlerInv
  <2>5. Spares(f) /\ (row'.delivery = "delivered" => row.delivery = "delivered")
    BY <1>1, <2>2, <2>3, <2>4 DEF Spares, Ledger!Row
  <2> QED
    BY <1>1, <2>1, <2>5, CalmWriteKeepsFinals DEF Rests, Calm, Early
<1>4. CASE PersistedRejected(f)
  <2>1. /\ h.pc = "p_rejected"
        /\ \/ handler'[f].pc = "mark"
           \/ handler'[f].pc = "abandon" /\ Ledger!FinalizeFailed(Turn, f, f)
    BY <1>4, GoesTo, ConcludesAt DEF PersistedRejected, GoneTo, At
  <2>2. \/ row' = row /\ ~Ledger!FinalizeFailed(Turn, f, f)
        \/ /\ row.fence = f /\ row.attempt = f
           /\ row' = [row EXCEPT !.delivery = "failed"]
    BY <1>1, <1>4, Fails DEF PersistedRejected
  <2>3. \A p \in posts : p.offered => row.attempt # f
    BY <2>1 DEF FinalsInv, PostsInv, Unsent
  <2>4. \A g \in Claims \ {f} : Sending(handler[g]) => row.attempt # f
    BY DEF FinalsInv, HandlerInv
  <2>5. Spares(f) /\ (row'.delivery = "delivered" => row.delivery = "delivered")
    BY <1>1, <2>2, <2>3, <2>4 DEF Spares, Ledger!Row
  <2>6. HandlerInv(f)'
    BY <1>1, <2>1, <2>2, <2>5 DEF HandlerInv, Sending, Later, FinalsInv, Spares,
       Ledger!Row
  <2>7. ShownInv'
    BY <1>1, <2>5 DEF ShownInv, FinalsInv
  <2> QED
    BY <1>1, <2>1, <2>5, <2>6, <2>7, SparingKeepsFinals DEF Unsent
<1>5. CASE FinalizeLost(f) \/ PersistedLost(f)
  <2>1. /\ h.pc \in {"lost", "p_lost"}
        /\ handler'[f].pc \in {"classify", "mark"}
    BY <1>5, GoesTo, ConcludesAt DEF FinalizeLost, PersistedLost, GoneTo, At
  <2>2. \/ row' = row
        \/ /\ row.fence = f /\ row.attempt = f
           /\ row' = [row EXCEPT !.delivery = "unknown",
                                 !.status = "recovery_required", !.lease = 0]
    BY <1>1, <1>5, LosesTrack DEF FinalizeLost, PersistedLost
  <2>3. \A g \in Claims \ {f} : Sending(handler[g]) => row.attempt # f
    BY DEF FinalsInv, HandlerInv
  <2>4. Spares(f) /\ (row'.delivery = "delivered" => row.delivery = "delivered")
    BY <1>1, <2>2, <2>3 DEF Spares, Ledger!Row
  <2> QED
    BY <1>1, <2>1, <2>4, CalmWriteKeepsFinals DEF Rests, Calm, Early
<1> QED
  BY <1>2, <1>3, <1>4, <1>5

LEMMA RecordingKeepsFinals ==
  ASSUME TypeOK, FinalsInv, NEW f \in Claims, RecordResponse(f)
  PROVE  FinalsInv'
<1> DEFINE h == handler[f]
<1>1. /\ Ledger!TypeOK /\ row \in Ledger!Row /\ h \in Handler
      /\ posts' = posts /\ view' = view
      /\ \A g \in Claims \ {f} : handler'[g] = handler[g]
      /\ h.pc = "record"
  BY RowTyped, DeliverMoves, OthersStay DEF TypeOK, Deliver, RecordResponse, At
<1>2. CASE Goto(f, "offer") /\ Ledger!RecordRunResponse(Turn, f, <<h.text, h.render>>)
  <2>1. Carries(f, "offer")
    BY <1>2, GoesCarrying
  <2>2. /\ row.fence = f
        /\ \/ row.response = <<>> 
              /\ row' = [row EXCEPT !.response = <<h.text, h.render>>,
                                    !.status = "response_ready",
                                    !.delivery = "not_ready"]
           \/ row.delivery = "failed"
              /\ row' = [row EXCEPT !.response = <<h.text, h.render>>,
                                    !.delivery = "not_ready", !.attempt = 0]
    BY <1>1, <1>2, HandlerTyped, RecordsResponse
  <2>3. /\ row'.fence = f /\ row'.delivery = "not_ready"
        /\ row'.response = <<h.text, h.render>>
    BY <1>1, <2>2 DEF Ledger!Row
  <2>4. Spares(f)
    BY <2>2, <2>3, NothingOffered DEF Spares
  <2>5. HandlerInv(f)'
    BY <2>1, <2>2, <2>3, <1>1 DEF HandlerInv, FinalsInv, Sending, Carries, Later
  <2>6. ShownInv'
    BY <1>1, <2>3 DEF ShownInv, FinalsInv
  <2> QED
    BY <1>1, <2>4, <2>5, <2>6, SparingKeepsFinals DEF Unsent
<1>3. CASE /\ Become(f, [h EXCEPT !.pc = Sent(f), !.offered = FALSE])
           /\ UNCHANGED ledger
  <2>1. handler'[f] = [h EXCEPT !.pc = Sent(f), !.offered = FALSE]
    BY <1>3, Becomes
  <2>2. /\ handler'[f].pc = Sent(f) /\ ~handler'[f].offered
        /\ handler'[f].render = h.render
    BY <1>1, <2>1 DEF Handler
  <2>3. Quiet(f)
    BY <1>1, <1>3 DEF Quiet, ViewKept, ledger, row
  <2>4. HandlerInv(f)'
    BY <1>1, <2>2, <2>3 DEF HandlerInv, FinalsInv, Sending, Quiet, Sent, Later
  <2> QED
    BY <1>1, <2>3, <2>4, QuietKeepsFinals DEF Unsent
<1>4. CASE Goto(f, "classify") /\ UNCHANGED ledger
  <2>1. Carries(f, "classify") /\ row' = row
    BY <1>4, GoesCarrying DEF ledger, row
  <2> QED
    BY <1>1, <2>1, CalmKeepsFinals DEF Quiet, ViewKept, Rests, Carries, Calm, Early
<1> QED
  BY <1>2, <1>3, <1>4 DEF RecordResponse, Commits, Throws

LEMMA StartingKeepsFinals ==
  ASSUME TypeOK, FinalsInv, NEW f \in Claims, StartDelivery(f) \/ StartPersisted(f)
  PROVE  FinalsInv'
<1> DEFINE h == handler[f]
<1>1. /\ Ledger!TypeOK /\ row \in Ledger!Row /\ h \in Handler
      /\ posts' = posts /\ view' = view
      /\ \A g \in Claims \ {f} : handler'[g] = handler[g]
      /\ h.pc \in {"offer", "p_offer"}
  BY RowTyped, DeliverMoves, DeliverPersistedMoves, OthersStay
     DEF TypeOK, Deliver, DeliverPersisted, StartDelivery, StartPersisted, At
<1>2. CASE /\ Ledger!StartRunDelivery(Turn, f)
           /\ \E pc \in {Sent(f), "p_slack"} :
                 Become(f, [h EXCEPT !.pc = pc, !.offered = TRUE])
  <2>1. PICK pc \in {Sent(f), "p_slack"} :
           Become(f, [h EXCEPT !.pc = pc, !.offered = TRUE])
    BY <1>2
  <2>2. handler'[f] = [h EXCEPT !.pc = pc, !.offered = TRUE]
    BY <2>1, Becomes
  <2>3. /\ handler'[f].pc = pc /\ handler'[f].render = h.render
        /\ handler'[f].text = h.text
    BY <1>1, <2>2 DEF Handler
  <2>4. /\ row.fence = f /\ row.status = "response_ready"
        /\ row.delivery \in {"not_ready", "failed"}
        /\ row' = [row EXCEPT !.delivery = "pending", !.attempt = f]
    BY <1>1, <1>2, StartsDelivery
  <2>5. /\ row'.fence = f /\ row'.delivery = "pending" /\ row'.attempt = f
        /\ row'.response = row.response
    BY <1>1, <2>4 DEF Ledger!Row
  <2>6. row.response = <<h.text, h.render>>
    BY <1>1, <2>4 DEF FinalsInv, HandlerInv
  <2>7. Spares(f)
    BY <2>4, <2>5, NothingOffered DEF Spares
  <2>8. HandlerInv(f)'
    BY <1>1, <2>1, <2>3, <2>4, <2>5, <2>6
       DEF HandlerInv, FinalsInv, Sending, Sent, Later
  <2>9. ShownInv'
    BY <1>1, <2>5 DEF ShownInv, FinalsInv
  <2> QED
    BY <1>1, <2>7, <2>8, <2>9, SparingKeepsFinals DEF Unsent
<1>3. CASE /\ Goto(f, "classify") \/ Goto(f, "p_lost")
           /\ UNCHANGED ledger
  <2>1. (Carries(f, "classify") \/ Carries(f, "p_lost")) /\ row' = row
    BY <1>3, GoesCarrying DEF ledger, row
  <2> QED
    BY <1>1, <2>1, CalmKeepsFinals DEF Quiet, ViewKept, Rests, Carries, Calm, Early
<1> QED
  BY <1>2, <1>3 DEF StartDelivery, StartPersisted, Commits, Throws

LEMMA PersistedKeepsFinals ==
  ASSUME TypeOK, FinalsInv, NEW f \in Claims,
         \/ ReadPersisted(f) \/ ClosePersisted(f) \/ PersistedDelivered(f)
         \/ PersistedFinalized(f)
  PROVE  FinalsInv'
<1> DEFINE h == handler[f]
<1>1. /\ h \in Handler /\ view \in View /\ row \in Ledger!Row
      /\ row' = row /\ posts' = posts
      /\ \A g \in Claims \ {f} : handler'[g] = handler[g]
      /\ h.pc \in Later => posts # {}
  BY RowTyped, DeliverPersistedMoves, OthersStay DEF TypeOK, DeliverPersisted,
     ReadPersisted, ClosePersisted, PersistedDelivered, PersistedFinalized, row,
     FinalsInv, HandlerInv
<1>2. CASE ReadPersisted(f)
  <2>1. h.pc = "persisted" /\ view' = view
    BY <1>2 DEF ReadPersisted, At
  <2>2. CASE \E mark, outcome : Conclude(f, mark, outcome)
    BY <1>1, <2>1, <2>2, ConcludesAt, CalmKeepsFinals
       DEF Quiet, ViewKept, Rests, GoneTo, Calm, Early
  <2>3. CASE /\ row.response # <<>>
             /\ Become(f, [h EXCEPT !.pc = IF DeliveryProven THEN "adopt" ELSE "p_offer",
                                    !.text = row.response[1],
                                    !.render = row.response[2]])
    <3>1. handler'[f] = [h EXCEPT !.pc = IF DeliveryProven THEN "adopt" ELSE "p_offer",
                                  !.text = row.response[1],
                                  !.render = row.response[2]]
      BY <2>3, Becomes
    <3>2. /\ handler'[f].pc = IF DeliveryProven THEN "adopt" ELSE "p_offer"
          /\ handler'[f].text = row.response[1]
          /\ handler'[f].render = row.response[2]
      BY <1>1, <3>1 DEF Handler
    <3>3. row.response = <<row.response[1], row.response[2]>>
      BY <1>1, <2>3 DEF Ledger!Row, Ledger!Responses, Ledger!NoResponse
    <3>4. DeliveryProven => posts # {}
      BY DEF DeliveryProven, FinalsInv, ShownInv
    <3>5. HandlerInv(f)'
      BY <1>1, <2>1, <3>2, <3>3, <3>4 DEF HandlerInv, FinalsInv, Sending, Later
    <3> QED
      BY <1>1, <2>1, <3>2, <3>5, QuietKeepsFinals DEF Quiet, ViewKept, Unsent
  <2> QED
    BY <1>2, <2>2, <2>3 DEF ReadPersisted, Ledger!NoResponse
<1>3. CASE ClosePersisted(f)
  <2>1. h.pc = "p_close" /\ handler'[f].pc = "p_verdict"
    BY <1>3, GoesTo DEF ClosePersisted, GoneTo, At
  <2> QED
    BY <1>1, <2>1, CalmKeepsFinals DEF Quiet, ViewKept, Rests, Calm, Early, Later
<1>4. CASE PersistedDelivered(f)
  <2>1. h.pc = "p_delivered" /\ handler'[f].pc = "p_tidy" /\ view' = view
    BY <1>4, GoesTo DEF PersistedDelivered, GoneTo, At
  <2> QED
    BY <1>1, <2>1, CalmKeepsFinals DEF Quiet, ViewKept, Rests, Calm, Early
<1>5. CASE PersistedFinalized(f)
  <2>1. h.pc = "p_tidy" /\ handler'[f].pc = "mark"
    BY <1>5, ConcludesAt DEF PersistedFinalized, GoneTo, At
  <2>2. ViewKept
    BY <1>1, <1>5 DEF PersistedFinalized, ViewKept
  <2> QED
    BY <1>1, <2>1, <2>2, CalmKeepsFinals DEF Quiet, Rests, Calm, Early
<1> QED
  BY <1>2, <1>3, <1>4, <1>5

LEMMA EndingKeepsFinals ==
  ASSUME TypeOK, FinalsInv, NEW f \in Claims,
         Abandon(f) \/ Classify(f) \/ Mark(f) \/ Release(f)
  PROVE  FinalsInv'
<1> DEFINE h == handler[f]
<1>1. /\ Ledger!TypeOK /\ row \in Ledger!Row
      /\ posts' = posts /\ view' = view
      /\ \A g \in Claims \ {f} : handler'[g] = handler[g]
  BY EndsMove, RowTyped, OthersStay DEF TypeOK, Abandon, Classify, Mark, Release
<1>2. CASE Abandon(f)
  <2>1. h.pc = "abandon" /\ handler'[f].pc = "mark"
    BY <1>2, ConcludesAt DEF Abandon, GoneTo, At
  <2>2. \/ row' = row
        \/ /\ row.fence = f
           /\ row' = [row EXCEPT !.status = "settled", !.disposition = "failed",
                                 !.delivery = "not_applicable", !.attempt = 0,
                                 !.lease = 0]
    BY <1>1, <1>2, GivesUp DEF Abandon, Commits, Throws, ledger, row
  <2>3. row.fence = f => row.delivery \in {"failed", "not_ready"}
    BY <2>1 DEF FinalsInv, HandlerInv
  <2>4. Spares(f) /\ (row'.delivery = "delivered" => row.delivery = "delivered")
    BY <1>1, <2>2, <2>3, NothingOffered DEF Spares, Ledger!Row
  <2> QED
    BY <1>1, <2>1, <2>4, CalmWriteKeepsFinals DEF Rests, Calm, Early
<1>3. CASE Classify(f)
  <2>1. /\ h.pc = "classify" /\ row' = row
        /\ \/ handler'[f].pc = "mark"
           \/ handler'[f].pc = "abandon" /\ row.delivery = "failed"
    BY <1>3, GoesTo, ConcludesAt DEF Classify, GoneTo, At, row
  <2>2. Quiet(f)
    BY <1>1, <2>1 DEF Quiet, ViewKept
  <2>3. HandlerInv(f)'
    BY <1>1, <2>1 DEF HandlerInv, FinalsInv, Sending, Later
  <2> QED
    BY <2>1, <2>2, <2>3, QuietKeepsFinals DEF Unsent
<1>4. CASE Mark(f)
  <2>1. h.pc = "mark" /\ handler'[f].pc = "release" /\ row' = row
    BY <1>4, GoesTo DEF Mark, GoneTo, At, row
  <2> QED
    BY <1>1, <2>1, CalmKeepsFinals DEF Quiet, ViewKept, Rests, Calm, Early
<1>5. CASE Release(f)
  <2>1. h.pc = "release" /\ handler'[f].pc = "gone"
    BY <1>5, GoesTo DEF Release, GoneTo, At
  <2>2. row' = row \/ GivenBack
    BY <1>1, <1>5, Releases DEF Release, Commits, Throws, ledger, row
  <2>3. Spares(f) /\ row'.delivery = row.delivery
    BY <1>1, <2>2 DEF Spares, GivenBack, Ledger!Row
  <2> QED
    BY <1>1, <2>1, <2>3, CalmWriteKeepsFinals DEF Rests, Calm, Early
<1> QED
  BY <1>2, <1>3, <1>4, <1>5

LEMMA HandleKeepsFinals ==
  ASSUME TypeOK, FinalsInv, NEW f \in Claims, Handle(f)
  PROVE  FinalsInv'
BY PrepareKeepsFinals, AskAgentKeepsFinals, StreamingKeepsFinals,
   BetweenKeepsFinals, SendingKeepsFinals, VerdictsKeepFinals,
   RecordingKeepsFinals, StartingKeepsFinals, PersistedKeepsFinals,
   EndingKeepsFinals
   DEF Handle, Deliver, DeliverPersisted, Streaming, Between

(* What happens to a handler from outside: nothing, or its end.            *)
Spared(g) ==
    \/ Carries(g, handler[g].pc)
    \/ handler[g].pc # "none" /\ handler'[g].pc = "gone"

LEMMA OutsideKeepsFinals ==
  ASSUME TypeOK, FinalsInv, UNCHANGED <<posts, view>>,
         row'.fence = row.fence, row'.attempt = row.attempt,
         row'.response = row.response, row'.delivery = row.delivery,
         row'.status = "response_ready" => row.status = "response_ready",
         \A g \in Claims : Spared(g)
  PROVE  FinalsInv'
<1>1. ASSUME NEW g \in Claims
      PROVE  HandlerInv(g)' /\ (Unsent(handler'[g]) => Unsent(handler[g]))
  <2>1. HandlerInv(g) /\ Spared(g)
    BY DEF FinalsInv
  <2>2. CASE Carries(g, handler[g].pc)
    BY <2>1, <2>2 DEF HandlerInv, Carries, Sending, Unsent
  <2>3. CASE handler[g].pc # "none" /\ handler'[g].pc = "gone"
    BY <2>1, <2>3 DEF HandlerInv, Sending, Unsent, Later
  <2> QED
    BY <2>1, <2>2, <2>3 DEF Spared
<1>2. \A p \in posts : p.by \in Claims
  BY DEF TypeOK
<1>3. PostsInv'
  BY <1>1, <1>2 DEF FinalsInv, PostsInv
<1>4. UniqueInv' /\ ShownInv'
  BY DEF FinalsInv, UniqueInv, ShownInv
<1> QED
  BY <1>1, <1>3, <1>4 DEF FinalsInv

LEMMA ClaimingKeepsFinals ==
  ASSUME TypeOK, FinalsInv, NEW f \in Claims, Claim(f)
  PROVE  FinalsInv'
<1>1. /\ Ledger!TypeOK /\ row \in Ledger!Row
      /\ posts' = posts /\ view' = view
      /\ f = row.fence + 1
      /\ \A g \in Claims \ {f} : handler'[g] = handler[g]
  BY RowTyped DEF TypeOK, Claim, Become
<1>2. /\ row'.fence = f /\ row'.delivery = row.delivery
      /\ row'.attempt = row.attempt /\ row'.response = row.response
  BY <1>1, ClaimsRow DEF Claim, Claimed
<1>3. handler'[f].pc = "load"
  <2> DEFINE phase == IF row'.status = "response_ready" THEN "delivery" ELSE "execution"
  <2>1. handler'[f] = [NoHandler EXCEPT !.pc = "load", !.phase = phase]
    BY DEF Claim, Become, TypeOK
  <2> QED
    BY <2>1 DEF NoHandler
<1>4. handler[f].pc = "none"
  BY <1>1, ClaimsAreNumbers DEF FinalsInv, HandlerInv, Ledger!Row
<1>5. ASSUME NEW g \in Claims
      PROVE  HandlerInv(g)' /\ (Unsent(handler'[g]) => Unsent(handler[g]))
  <2>1. HandlerInv(g) /\ row.fence \in Nat /\ g \in Nat /\ f \in Nat
    BY <1>1, ClaimsAreNumbers DEF FinalsInv, Ledger!Row
  <2>2. CASE g = f
    BY <1>1, <1>2, <1>3, <1>4, <2>1, <2>2 DEF HandlerInv, Sending, Unsent, Later
  <2>3. CASE g # f
    <3>1. handler'[g] = handler[g] /\ (row'.fence < g <=> row.fence < g)
      BY <1>1, <1>2, <2>1, <2>3
    <3> QED
      BY <1>1, <1>2, <2>1, <2>3, <3>1 DEF HandlerInv, Sending
  <2> QED
    BY <2>2, <2>3
<1>6. \A p \in posts : p.by \in Claims
  BY DEF TypeOK
<1>7. PostsInv'
  BY <1>1, <1>2, <1>5, <1>6 DEF FinalsInv, PostsInv
<1>8. UniqueInv' /\ ShownInv'
  BY <1>1, <1>2 DEF FinalsInv, UniqueInv, ShownInv
<1> QED
  BY <1>5, <1>7, <1>8 DEF FinalsInv

(* The steps nobody's claim takes.                                         *)
Outside ==
    \/ \E f \in Claims : RenewalFails(f)
    \/ Submission \/ LeaseExpires \/ Stall \/ ClaimNothing \/ ClaimOthers
    \/ PartnerReleaseFails \/ Crash

LEMMA OutsideRow ==
  ASSUME TypeOK, Outside
  PROVE  /\ Ledger!TypeOK'
         /\ \/ row' = row
            \/ row' = [row EXCEPT !.lease = 1]
            \/ ReconciledTo(row')
<1>1. Ledger!TypeOK /\ job.observed \in {0} \cup Claims
  BY DEF TypeOK, Job
<1>2. CASE UNCHANGED <<run, exec>>
  BY <1>1, <1>2 DEF Ledger!TypeOK, row
<1>3. CASE PassModelGate
  <2>1. \/ UNCHANGED <<run, exec>>
        \/ Ledger!MarkRunExecutionInvoked(Turn, job.observed)
    BY <1>3 DEF PassModelGate, Commits, Throws, ledger
  <2> QED
    BY <1>1, <1>2, <2>1, InvokesExecution
<1>4. CASE LeaseExpires \/ Stall
  BY <1>1, <1>4, LeaseRunsOut DEF LeaseExpires, Stall
<1>5. CASE ClaimNothing \/ ClaimOthers
  <2>1. run' = Ledger!ReconciledRuns /\ exec' = exec
    BY <1>5 DEF ClaimNothing, ClaimOthers, Ledger!ClaimFindsNothing
  <2> QED
    BY <1>1, <2>1, Reconciles
<1> QED
  BY <1>2, <1>3, <1>4, <1>5 DEF Outside, RenewalFails, Submission, SubmissionEnds,
     PartnerReleaseFails, Crash

LEMMA OutsideSpares ==
  ASSUME TypeOK, Outside, NEW g \in Claims
  PROVE  Spared(g)
<1>1. handler \in [Claims -> Handler] /\ handler[g] \in Handler
  BY DEF TypeOK
<1>2. CASE handler' = handler
  BY <1>2 DEF Spared, Carries
<1>3. CASE \E f \in Claims : RenewalFails(f)
  <2>1. PICK f \in Claims : RenewalFails(f)
    BY <1>3
  <2>2. handler'[g] = handler[g] \/ handler'[g] = [handler[g] EXCEPT !.renewing = FALSE]
    BY <1>1, <2>1 DEF RenewalFails
  <2> QED
    BY <1>1, <2>2 DEF Spared, Carries, Handler
<1>4. CASE Crash
  <2>1. \/ handler'[g] = handler[g]
        \/ Live(g) /\ handler'[g] = [handler[g] EXCEPT !.pc = "gone"]
    BY <1>1, <1>4 DEF Crash
  <2> QED
    BY <1>1, <2>1 DEF Spared, Carries, Handler, Live
<1> QED
  BY <1>2, <1>3, <1>4 DEF Outside, Submission, PassModelGate, SubmissionEnds,
     LeaseExpires, Stall, ClaimNothing, ClaimOthers, PartnerReleaseFails

LEMMA OutsideStepKeepsFinals ==
  ASSUME TypeOK, FinalsInv, Outside
  PROVE  FinalsInv'
<1>1. row \in Ledger!Row
  BY RowTyped DEF TypeOK
<1>2. /\ row'.fence = row.fence /\ row'.attempt = row.attempt
      /\ row'.response = row.response /\ row'.delivery = row.delivery
      /\ row'.status = "response_ready" => row.status = "response_ready"
  BY <1>1, OutsideRow DEF ReconciledTo, Ledger!Row
<1>3. UNCHANGED <<posts, view>>
  BY DEF Outside, RenewalFails, Submission, PassModelGate, SubmissionEnds,
     LeaseExpires, Stall, ClaimNothing, ClaimOthers, PartnerReleaseFails, Crash
<1> QED
  BY <1>2, <1>3, OutsideSpares, OutsideKeepsFinals

(* The rest of the types.                                                  *)
LEMMA ViewTyped ==
  ASSUME TypeOK, NEW f \in Claims, Handle(f)
  PROVE  view' \in View
<1>1. view \in View
  BY DEF TypeOK
<1>2. CASE Streaming(f)
  <2>1. \E from, to, then, stale :
           to \in Streams /\ AdvanceOr(f, from, to, then, stale)
    BY <1>2 DEF Streaming, IntendStream, StreamStarted, CloseStream,
       MarkFinalizing, StreamDelivered, PostDelivered, Advance, Streams
  <2>2. PICK to \in Streams : view' \in {view, [view EXCEPT !.stream = to]}
    BY <2>1 DEF AdvanceOr
  <2> QED
    BY <1>1, <2>2 DEF View
<1>3. CASE PrepareRelay(f)
  BY <1>1, <1>3 DEF PrepareRelay, View
<1>4. CASE MarkUnknown(f) \/ FallBack(f) \/ MarkViewFinalized(f)
           \/ ClosePersisted(f) \/ PersistedFinalized(f)
  <2>1. \E to \in Streams : view' \in {view, [view EXCEPT !.stream = to]}
    BY <1>4 DEF MarkUnknown, FallBack, MarkViewFinalized, ClosePersisted,
       PersistedFinalized, Streams
  <2> QED
    BY <1>1, <2>1 DEF View
<1> QED
  BY <1>1, <1>2, <1>3, <1>4
     DEF Handle, Prepare, AskAgent, Deliver, DeliverPersisted, Streaming,
         LoadJob, ResolveIdentity, RecordAttempt, PrepareInput, CreateExecution,
         RecordRoute, SettleReaction, PrepareDispatch, Dispatch, RecordReceipt,
         Read, RecordSettlement, SettleResult, Retry, ChooseDelivery,
         RecordResponse, StartDelivery, CallSlack, StopStream, PostAccepted,
         FinalizeDelivery, FinalizeRejected, FinalizeLost, MarkDelivered,
         ReadPersisted, AdoptDelivery, StartPersisted, SendPersisted,
         FinalizePersisted, PersistedDelivered, PersistedRejected,
         PersistedLost, Abandon, Classify, Mark, Release

Drain == [due : BOOLEAN, awaited : SUBSET Claims]

LEMMA DrainsTyped ==
  ASSUME NEW d \in Drain
  PROVE  /\ Settled(d) \in Drain
         /\ Rejected \in Drain
         /\ \A f \in Claims : /\ [d EXCEPT !.awaited = @ \cup {f}] \in Drain
                              /\ [d EXCEPT !.awaited = @ \ {f}] \in Drain
BY ShapeAssumption DEF Settled, Rejected, Drain

LEMMA RestTyped ==
  ASSUME TypeOK, NEW f \in Claims, Handle(f)
  PROVE  /\ drain' \in Drain
         /\ flue' \in {"none", "queued", "running", "completed", "failed", "early"}
         /\ faults' \in 0 .. MaxFaults
<1>1. /\ drain \in Drain
      /\ flue \in {"none", "queued", "running", "completed", "failed", "early"}
      /\ faults \in 0 .. MaxFaults
  BY DEF TypeOK, Drain
<1>2. CASE Release(f)
  BY <1>1, <1>2, DrainsTyped DEF Release
<1>3. CASE Dispatch(f)
  BY <1>1, <1>3, FaultTyped DEF Dispatch
<1>4. CASE \/ ResolveIdentity(f) \/ PrepareDispatch(f) \/ Read(f) \/ CallSlack(f)
           \/ StopStream(f) \/ SendPersisted(f)
  BY <1>1, <1>4, FaultTyped DEF ResolveIdentity, PrepareDispatch, Read, CallSlack,
     StopStream, SendPersisted
<1> QED
  BY <1>1, <1>2, <1>3, <1>4
     DEF Handle, Prepare, AskAgent, Deliver, DeliverPersisted,
         LoadJob, RecordAttempt, PrepareInput, CreateExecution, RecordRoute,
         SettleReaction, RecordReceipt, PrepareRelay, RecordSettlement,
         SettleResult, Retry, ChooseDelivery, IntendStream, RecordResponse,
         StartDelivery, StreamStarted, CloseStream, MarkFinalizing,
         StreamDelivered, PostAccepted, PostDelivered, MarkUnknown,
         FinalizeDelivery, FinalizeRejected, FallBack, FinalizeLost,
         MarkDelivered, MarkViewFinalized, ReadPersisted, AdoptDelivery,
         StartPersisted, ClosePersisted, FinalizePersisted, PersistedDelivered,
         PersistedFinalized, PersistedRejected, PersistedLost, Abandon,
         Classify, Mark

Posts == SUBSET [by : Claims, text : {"answer", "apology"},
                 render : {"stream", "resume", "post", "reaction"},
                 offered : BOOLEAN]

LEMMA PostsTyped ==
  ASSUME TypeOK, NEW f \in Claims, Handle(f)
  PROVE  posts' \in Posts
<1>1. posts \in Posts /\ handler[f] \in Handler
  BY DEF TypeOK, Posts
<1>2. posts \cup {Message(f)} \in Posts
  BY <1>1 DEF Posts, Message, Handler
<1>3. CASE CallSlack(f) \/ StopStream(f) \/ SendPersisted(f)
  BY <1>1, <1>2, <1>3 DEF CallSlack, StopStream, SendPersisted
<1> QED
  BY <1>1, <1>3
     DEF Handle, Prepare, AskAgent, Deliver, DeliverPersisted,
         LoadJob, ResolveIdentity, RecordAttempt, PrepareInput, CreateExecution,
         RecordRoute, SettleReaction, PrepareDispatch, Dispatch, RecordReceipt,
         PrepareRelay, Read, RecordSettlement, SettleResult, Retry,
         ChooseDelivery, IntendStream, RecordResponse, StartDelivery,
         StreamStarted, CloseStream, MarkFinalizing, StreamDelivered,
         PostAccepted, PostDelivered, MarkUnknown, FinalizeDelivery,
         FinalizeRejected, FallBack, FinalizeLost, MarkDelivered,
         MarkViewFinalized, ReadPersisted, AdoptDelivery, StartPersisted,
         ClosePersisted, FinalizePersisted, PersistedDelivered,
         PersistedFinalized, PersistedRejected, PersistedLost, Abandon,
         Classify, Mark, Release

(***************************************************************************)
(* A step of a handler, field by field                                     *)
(***************************************************************************)
Base(f, pc) ==
    LET h == handler[f]
        n == handler'[f]
    IN  /\ n.pc = pc
        /\ n.usable = h.usable
        /\ n.renewing = h.renewing

LEMMA BecomesLoaded ==
  ASSUME TypeOK, NEW f \in Claims, NEW pc, NEW snapshot,
         Become(f, [handler[f] EXCEPT !.pc = pc, !.snapshot = snapshot])
  PROVE  /\ Base(f, pc)
         /\ handler'[f].offered = handler[f].offered
         /\ handler'[f].text = handler[f].text
         /\ handler'[f].snapshot = snapshot
         /\ handler'[f].result = handler[f].result
<1>1. handler[f] \in Handler
  BY DEF TypeOK
<1>2. handler'[f] = [handler[f] EXCEPT !.pc = pc, !.snapshot = snapshot]
  BY Becomes
<1> QED
  BY <1>1, <1>2 DEF Handler, Base

LEMMA BecomesDispatched ==
  ASSUME TypeOK, NEW f \in Claims, NEW pc, NEW receipt,
         Become(f, [handler[f] EXCEPT !.pc = pc, !.snapshot.receipt = receipt])
  PROVE  /\ Base(f, pc)
         /\ handler'[f].offered = handler[f].offered
         /\ handler'[f].text = handler[f].text
         /\ handler'[f].snapshot = [handler[f].snapshot EXCEPT !.receipt = receipt]
         /\ handler'[f].result = handler[f].result
<1>1. handler[f] \in Handler
  BY DEF TypeOK
<1>2. handler'[f] = [handler[f] EXCEPT !.pc = pc, !.snapshot.receipt = receipt]
  BY Becomes
<1> QED
  BY <1>1, <1>2 DEF Handler, Base

LEMMA BecomesRead ==
  ASSUME TypeOK, NEW f \in Claims, NEW pc, NEW result,
         Become(f, [handler[f] EXCEPT !.pc = pc, !.result = result])
  PROVE  /\ Base(f, pc)
         /\ handler'[f].offered = handler[f].offered
         /\ handler'[f].text = handler[f].text
         /\ handler'[f].snapshot = handler[f].snapshot
         /\ handler'[f].result = result
<1>1. handler[f] \in Handler
  BY DEF TypeOK
<1>2. handler'[f] = [handler[f] EXCEPT !.pc = pc, !.result = result]
  BY Becomes
<1> QED
  BY <1>1, <1>2 DEF Handler, Base

LEMMA BecomesAnswered ==
  ASSUME TypeOK, NEW f \in Claims, NEW pc, NEW text,
         Become(f, [handler[f] EXCEPT !.pc = pc, !.text = text])
  PROVE  /\ Base(f, pc)
         /\ handler'[f].offered = handler[f].offered
         /\ handler'[f].text = text
         /\ handler'[f].snapshot = handler[f].snapshot
         /\ handler'[f].result = handler[f].result
<1>1. handler[f] \in Handler
  BY DEF TypeOK
<1>2. handler'[f] = [handler[f] EXCEPT !.pc = pc, !.text = text]
  BY Becomes
<1> QED
  BY <1>1, <1>2 DEF Handler, Base

LEMMA BecomesSilent ==
  ASSUME TypeOK, NEW f \in Claims, NEW pc, NEW text,
         Become(f, [handler[f] EXCEPT !.pc = pc, !.text = text, !.usable = FALSE])
  PROVE  /\ handler'[f].pc = pc
<1>1. handler[f] \in Handler
  BY DEF TypeOK
<1>2. handler'[f] = [handler[f] EXCEPT !.pc = pc, !.text = text, !.usable = FALSE]
  BY Becomes
<1> QED
  BY <1>1, <1>2 DEF Handler, Base

LEMMA BecomesRendered ==
  ASSUME TypeOK, NEW f \in Claims, NEW pc, NEW render,
         Become(f, [handler[f] EXCEPT !.pc = pc, !.render = render])
  PROVE  /\ Base(f, pc)
         /\ handler'[f].offered = handler[f].offered
         /\ handler'[f].text = handler[f].text
         /\ handler'[f].snapshot = handler[f].snapshot
         /\ handler'[f].result = handler[f].result
<1>1. handler[f] \in Handler
  BY DEF TypeOK
<1>2. handler'[f] = [handler[f] EXCEPT !.pc = pc, !.render = render]
  BY Becomes
<1> QED
  BY <1>1, <1>2 DEF Handler, Base

LEMMA BecomesSeeing ==
  ASSUME TypeOK, NEW f \in Claims, NEW pc, NEW seen,
         Become(f, [handler[f] EXCEPT !.pc = pc, !.seen = seen])
  PROVE  /\ Base(f, pc)
         /\ handler'[f].offered = handler[f].offered
         /\ handler'[f].text = handler[f].text
         /\ handler'[f].snapshot = handler[f].snapshot
         /\ handler'[f].result = handler[f].result
<1>1. handler[f] \in Handler
  BY DEF TypeOK
<1>2. handler'[f] = [handler[f] EXCEPT !.pc = pc, !.seen = seen]
  BY Becomes
<1> QED
  BY <1>1, <1>2 DEF Handler, Base

LEMMA BecomesChosen ==
  ASSUME TypeOK, NEW f \in Claims, NEW pc, NEW seen, NEW render,
         Become(f, [handler[f] EXCEPT !.pc = pc, !.seen = seen, !.render = render])
  PROVE  /\ Base(f, pc)
         /\ handler'[f].offered = handler[f].offered
         /\ handler'[f].text = handler[f].text
         /\ handler'[f].snapshot = handler[f].snapshot
         /\ handler'[f].result = handler[f].result
<1>1. handler[f] \in Handler
  BY DEF TypeOK
<1>2. handler'[f] = [handler[f] EXCEPT !.pc = pc, !.seen = seen, !.render = render]
  BY Becomes
<1> QED
  BY <1>1, <1>2 DEF Handler, Base

LEMMA BecomesOffered ==
  ASSUME TypeOK, NEW f \in Claims, NEW pc, NEW offered,
         Become(f, [handler[f] EXCEPT !.pc = pc, !.offered = offered])
  PROVE  /\ Base(f, pc)
         /\ handler'[f].offered = offered
         /\ handler'[f].text = handler[f].text
         /\ handler'[f].snapshot = handler[f].snapshot
         /\ handler'[f].result = handler[f].result
<1>1. handler[f] \in Handler
  BY DEF TypeOK
<1>2. handler'[f] = [handler[f] EXCEPT !.pc = pc, !.offered = offered]
  BY Becomes
<1> QED
  BY <1>1, <1>2 DEF Handler, Base

LEMMA BecomesPersisted ==
  ASSUME TypeOK, NEW f \in Claims, NEW pc, NEW text, NEW render,
         Become(f, [handler[f] EXCEPT !.pc = pc, !.text = text,
                              !.render = render])
  PROVE  /\ Base(f, pc)
         /\ handler'[f].offered = handler[f].offered
         /\ handler'[f].text = text
         /\ handler'[f].snapshot = handler[f].snapshot
         /\ handler'[f].result = handler[f].result
<1>1. handler[f] \in Handler
  BY DEF TypeOK
<1>2. handler'[f] = [handler[f] EXCEPT !.pc = pc, !.text = text,
                              !.render = render]
  BY Becomes
<1> QED
  BY <1>1, <1>2 DEF Handler, Base

LEMMA GoesPc ==
  ASSUME TypeOK, NEW f \in Claims, NEW pc, Goto(f, pc)
  PROVE  handler'[f].pc = pc
BY GoesTo DEF GoneTo

LEMMA ConcludesPc ==
  ASSUME TypeOK, NEW f \in Claims, NEW mark, NEW outcome, Conclude(f, mark, outcome)
  PROVE  handler'[f].pc = "mark"
BY ConcludesAt DEF GoneTo

(* Where the job's receipt and settlement have been read, or asked for.    *)
Querying == {"identity", "attempt", "prepare", "create", "route", "dispatch",
             "send", "receipt", "relay", "read", "checkpoint", "result"}

(* Only a handler that has no answer yet goes on there.                    *)
LEMMA OnlyQueriesGoOn ==
  ASSUME TypeOK, NEW f \in Claims, Handle(f), handler'[f].pc \in Querying
  PROVE  \/ LoadJob(f) \/ ResolveIdentity(f) \/ RecordAttempt(f)
         \/ PrepareInput(f) \/ CreateExecution(f) \/ RecordRoute(f)
         \/ PrepareDispatch(f) \/ Dispatch(f) \/ RecordReceipt(f)
         \/ PrepareRelay(f) \/ Read(f) \/ RecordSettlement(f)
<1> USE DEF Base, Querying
<1>1. ChooseDelivery(f) => handler'[f].pc \in {"intend", "record",
        "delivered", "classify"}
  BY BecomesChosen, GoesPc DEF ChooseDelivery
<1>2. PostAccepted(f) => handler'[f].pc \in {"posted", "verdict"}
  BY BecomesSeeing, GoesPc DEF PostAccepted
<1>3. FallBack(f) => handler'[f].pc \in {"record", "classify"}
  BY BecomesRendered, GoesPc DEF FallBack
<1>4. MarkUnknown(f) \/ MarkDelivered(f) \/ MarkViewFinalized(f) =>
        handler'[f].pc \in {"lost", "tidy", "classify"}
  BY GoesPc DEF MarkUnknown, MarkDelivered, MarkViewFinalized
<1>5. RecordResponse(f) \/ StartDelivery(f) \/ StartPersisted(f) =>
        handler'[f].pc \in {"slack", "close", "offer", "p_slack",
        "classify", "p_lost"}
  BY BecomesOffered, GoesPc DEF RecordResponse, StartDelivery,
     StartPersisted, Sent
<1>6. CallSlack(f) \/ StopStream(f) \/ SendPersisted(f) => handler'[f].pc
        \in {"started", "accepted", "rejected", "unsure", "lost", "stopped",
        "p_close", "p_rejected", "p_lost"}
  BY GoesPc DEF CallSlack, StopStream, SendPersisted
<1>7. FinalizeDelivery(f) \/ FinalizeRejected(f) \/ FinalizeLost(f) =>
        handler'[f].pc \in {"delivered", "classify", "fallback"}
  BY GoesPc DEF FinalizeDelivery, FinalizeRejected, FinalizeLost
<1>8. AdoptDelivery(f) \/ FinalizePersisted(f) \/ PersistedRejected(f) \/
        PersistedLost(f) => handler'[f].pc \in {"p_delivered", "mark",
        "p_lost", "abandon"}
  BY GoesPc, ConcludesPc DEF AdoptDelivery, FinalizePersisted,
     PersistedRejected, PersistedLost
<1>9. ReadPersisted(f) => handler'[f].pc \in {"mark", "adopt", "p_offer"}
  BY BecomesPersisted, ConcludesPc DEF ReadPersisted
<1>10. ClosePersisted(f) \/ PersistedDelivered(f) \/ PersistedFinalized(f)
        => handler'[f].pc \in {"p_verdict", "p_tidy", "mark"}
  BY GoesPc, ConcludesPc DEF ClosePersisted, PersistedDelivered,
     PersistedFinalized
<1>11. Abandon(f) \/ Classify(f) \/ Mark(f) \/ Release(f) => handler'[f].pc
        \in {"mark", "abandon", "release", "gone"}
  BY GoesPc, ConcludesPc DEF Abandon, Classify, Mark, Release
<1>12. CASE Streaming(f)
  <2>1. \/ AdvanceOr(f, "absent", "starting", "record", "classify")
        \/ AdvanceOr(f, "starting", "streaming", "close", "classify")
        \/ AdvanceOr(f, "streaming", "reconciling", "finalizing", "classify")
        \/ AdvanceOr(f, "reconciling", "finalizing", "stop", "classify")
        \/ AdvanceOr(f, "finalizing", "delivered", "verdict", "classify")
        \/ AdvanceOr(f, "fallback", "delivered", "verdict", "lost")
    BY <1>12 DEF Streaming, IntendStream, StreamStarted, CloseStream,
       MarkFinalizing, StreamDelivered, PostDelivered, Advance
  <2>2. \E pc \in {"record", "close", "finalizing", "stop", "verdict", "classify",
                   "lost"} : Carries(f, pc)
    BY <2>1, Advances DEF Streams
  <2> QED
    BY <2>2 DEF Carries
<1>13. SettleReaction(f) => handler'[f].pc \in {"record", "classify"}
  BY BecomesRendered, GoesPc DEF SettleReaction
<1>14. SettleResult(f) => handler'[f].pc \in {"final", "classify"}
  BY BecomesAnswered, BecomesSilent, GoesPc DEF SettleResult
<1>15. Retry(f) => handler'[f].pc = "mark"
  BY ConcludesPc DEF Retry
<1> QED
  BY <1>1, <1>2, <1>3, <1>4, <1>5, <1>6, <1>7, <1>8, <1>9, <1>10, <1>11, <1>12,
     <1>13, <1>14, <1>15
     DEF Handle, Prepare, AskAgent, Deliver, DeliverPersisted, Streaming

(* Only a read leaves a handler with a settlement to be checkpointed.      *)
LEMMA OnlyReadsCheck ==
  ASSUME TypeOK, NEW f \in Claims, Handle(f), handler'[f].pc = "checkpoint"
  PROVE  handler'[f].result # "broken"
<1> USE DEF Base
<1>1. LoadJob(f) => handler'[f].pc \in {"identity", "mark"}
  BY BecomesLoaded, ConcludesPc DEF LoadJob
<1>2. ResolveIdentity(f) => handler'[f].pc \in {"attempt", "mark"}
  BY GoesPc, ConcludesPc DEF ResolveIdentity
<1>3. RecordAttempt(f) \/ PrepareInput(f) \/ CreateExecution(f) \/
        RecordRoute(f) => handler'[f].pc \in {"persisted", "prepare",
        "create", "classify", "route", "react", "dispatch"}
  BY GoesPc DEF RecordAttempt, PrepareInput, CreateExecution, RecordRoute
<1>4. PrepareDispatch(f) \/ RecordReceipt(f) \/ RecordSettlement(f) =>
        handler'[f].pc \in {"result", "send", "relay"}
  BY BecomesRead, GoesPc DEF PrepareDispatch, RecordReceipt,
     RecordSettlement
<1>5. Dispatch(f) => handler'[f].pc \in {"receipt", "retry"}
  BY BecomesDispatched, GoesPc DEF Dispatch
<1>6. PrepareRelay(f) => handler'[f].pc \in {"read", "retry"}
  BY GoesPc DEF PrepareRelay
<1>7. CASE Read(f)
  <2>1. CASE flue \in {"completed", "failed", "early"}
             /\ Become(f, [handler[f] EXCEPT !.pc = "checkpoint", !.result = flue])
    <3>1. handler[f] \in Handler
      BY DEF TypeOK
    <3>2. handler'[f] = [handler[f] EXCEPT !.pc = "checkpoint", !.result = flue]
      BY <2>1, Becomes
    <3>3. handler'[f].result = flue
      BY <3>1, <3>2 DEF Handler
    <3> QED
      BY <2>1, <3>3
  <2>2. CASE Goto(f, "retry")
    BY <2>2, GoesPc
  <2> QED
    BY <1>7, <2>1, <2>2 DEF Read
<1> QED
  BY <1>1, <1>2, <1>3, <1>4, <1>5, <1>6, <1>7, OnlyQueriesGoOn DEF Querying

(***************************************************************************)
(* The types, for every claim and fault                                    *)
(***************************************************************************)
TypeInv == TypeOK /\ ReadsInv

LEMMA HandleKeepsTypes ==
  ASSUME TypeInv, NEW f \in Claims, Handle(f)
  PROVE  TypeInv'
<1>1. TypeOK /\ ReadsInv
  BY DEF TypeInv
<1>2. TypeOK'
  BY <1>1, LedgerKeepsTypes, JobTyped, ViewTyped, HandleMoves, RestTyped, PostsTyped
     DEF TypeOK, Drain, Posts
<1>3. \A g \in Claims \ {f} : handler'[g] = handler[g]
  BY <1>1, HandleMoves
<1>4. ReadsInv'
  BY <1>1, <1>3, OnlyReadsCheck DEF ReadsInv, At
<1> QED
  BY <1>2, <1>4 DEF TypeInv

LEMMA ClaimKeepsTypes ==
  ASSUME TypeInv, NEW f \in Claims, Claim(f)
  PROVE  TypeInv'
<1>1. TypeOK /\ ReadsInv /\ drain \in Drain
  BY DEF TypeInv, TypeOK, Drain
<1> DEFINE phase == IF row'.status = "response_ready" THEN "delivery" ELSE "execution"
           n == [NoHandler EXCEPT !.pc = "load", !.phase = phase]
<1>2. n \in Handler /\ n.pc = "load"
  <2>1. NewJob \in Job /\ NewView \in View /\ "load" \in Points
    BY ShapeAssumption DEF NewJob, Job, NewView, View, Streams, Points
  <2>2. [NoHandler EXCEPT !.pc = "load"] \in Handler
    BY <2>1 DEF NoHandler, Handler
  <2> QED
    BY <2>1, <2>2 DEF NoHandler, Handler
<1>3. handler' = [handler EXCEPT ![f] = n]
  BY DEF Claim, Become
<1>4. Ledger!TypeOK'
  BY <1>1, ClaimsRow DEF Claim, TypeOK
<1>5. drain' \in Drain
  BY <1>1, DrainsTyped DEF Claim
<1>6. TypeOK'
  <2> HIDE DEF n
  <2> QED
    BY <1>1, <1>2, <1>3, <1>4, <1>5 DEF TypeOK, Claim, Drain
<1>7. ReadsInv'
  <2> HIDE DEF n
  <2> QED
    BY <1>1, <1>2, <1>3 DEF ReadsInv, At, TypeOK
<1> QED
  BY <1>6, <1>7 DEF TypeInv

LEMMA OutsideKeepsTypes ==
  ASSUME TypeInv, Outside
  PROVE  TypeInv'
<1>1. TypeOK /\ ReadsInv /\ drain \in Drain
  BY DEF TypeInv, TypeOK, Drain
<1>2. Ledger!TypeOK'
  BY <1>1, OutsideRow
<1>3. UNCHANGED <<job, view, posts>>
  BY DEF Outside, RenewalFails, Submission, PassModelGate, SubmissionEnds,
     LeaseExpires, Stall, ClaimNothing, ClaimOthers, PartnerReleaseFails, Crash
<1>4. /\ drain' \in Drain
      /\ faults' \in 0 .. MaxFaults
      /\ flue' \in {"none", "queued", "running", "completed", "failed", "early"}
  BY <1>1, DrainsTyped, FaultTyped DEF TypeOK, Outside, RenewalFails, Submission,
     PassModelGate, SubmissionEnds, LeaseExpires, Stall, ClaimNothing,
     ClaimOthers, PartnerReleaseFails, Crash
<1>5. /\ handler' \in [Claims -> Handler]
      /\ \A g \in Claims : /\ handler'[g].result = handler[g].result
                           /\ handler'[g].pc \in {handler[g].pc, "gone"}
  <2>1. \A g \in Claims : handler[g] \in Handler
    BY <1>1 DEF TypeOK
  <2>2. \A g \in Claims : /\ [handler[g] EXCEPT !.renewing = FALSE] \in Handler
                          /\ [handler[g] EXCEPT !.pc = "gone"] \in Handler
    BY <2>1, HandlerAt DEF Points
  <2>3. \A g \in Claims :
           \/ handler'[g] = handler[g]
           \/ handler'[g] = [handler[g] EXCEPT !.renewing = FALSE]
           \/ handler'[g] = [handler[g] EXCEPT !.pc = "gone"]
    BY <1>1 DEF TypeOK, Outside, RenewalFails, Submission, PassModelGate,
       SubmissionEnds, LeaseExpires, Stall, ClaimNothing, ClaimOthers,
       PartnerReleaseFails, Crash
  <2>4. \E s : handler' = [g \in Claims |-> s[g]]
    BY <1>1 DEF TypeOK, Outside, RenewalFails, Submission, PassModelGate,
       SubmissionEnds, LeaseExpires, Stall, ClaimNothing, ClaimOthers,
       PartnerReleaseFails, Crash
  <2>5. handler' \in [Claims -> Handler]
    BY <2>1, <2>2, <2>3, <2>4
  <2>6. \A g \in Claims : /\ handler'[g].result = handler[g].result
                          /\ handler'[g].pc \in {handler[g].pc, "gone"}
    <3>1. ASSUME NEW h \in Handler
          PROVE  /\ [h EXCEPT !.renewing = FALSE].result = h.result
                 /\ [h EXCEPT !.renewing = FALSE].pc = h.pc
                 /\ [h EXCEPT !.pc = "gone"].result = h.result
                 /\ [h EXCEPT !.pc = "gone"].pc = "gone"
      BY DEF Handler
    <3> QED
      BY <2>1, <2>3, <3>1
  <2> QED
    BY <2>5, <2>6
<1>6. TypeOK'
  BY <1>1, <1>2, <1>3, <1>4, <1>5 DEF TypeOK, Drain
<1>7. ReadsInv'
  BY <1>1, <1>5 DEF ReadsInv, At
<1> QED
  BY <1>6, <1>7 DEF TypeInv

-----------------------------------------------------------------------------
(* The theorems                                                            *)

LEMMA TurnBegins ==
  ASSUME Init
  PROVE  TypeInv /\ FinalsInv
<1>1. /\ NewJob \in Job /\ NewView \in View
      /\ \A react \in BOOLEAN, authed \in BOOLEAN :
            [NewJob EXCEPT !.react = react, !.authed = authed] \in Job
  BY DEF NewJob, NewView, Job, View, Streams
<1>2. NoHandler \in Handler /\ NoHandler.pc = "none"
  BY <1>1 DEF NoHandler, Handler, Points
<1>3. /\ Ledger!NewRow \in Ledger!Row
      /\ Ledger!NoExecution \in Ledger!Execution
  BY DEF Ledger!NewRow, Ledger!Row, Ledger!Statuses, Ledger!Dispositions,
     Ledger!Responses, Ledger!Deliveries, Ledger!NoResponse, Ledger!NoAttempt,
     Ledger!NoLease, Ledger!Execution
<1>4. /\ row = [Ledger!NewRow EXCEPT !.status = "admitted", !.sequence = 1]
      /\ row \in Ledger!Row
  <2>1. row = [Ledger!NewRow EXCEPT !.status = "admitted", !.sequence = 1]
    BY DEF Init, row, Turn
  <2> QED
    BY <1>3, <2>1 DEF Ledger!Row, Ledger!Statuses
<1>12. Ledger!TypeOK
  <2>1. \A r \in {Turn} : run[r] \in Ledger!Row
    BY <1>4 DEF row
  <2>2. run \in [{Turn} -> Ledger!Row]
    BY <2>1 DEF Init
  <2>3. exec \in [{Turn} -> [Ledger!Fences -> Ledger!Execution]]
    BY <1>3 DEF Init, Ledger!Fences, Claims
  <2> QED
    BY <2>2, <2>3 DEF Ledger!TypeOK
<1>5. job \in Job
  BY <1>1, ShapeAssumption DEF Init
<1>6. handler \in [Claims -> Handler] /\ \A f \in Claims : handler[f] = NoHandler
  BY <1>2 DEF Init
<1>7. TypeOK
  <2>1. drain = [due |-> TRUE, awaited |-> {}] /\ flue = "none" /\ posts = {}
        /\ faults = 0 /\ view = NewView
    BY DEF Init
  <2>2. 0 \in 0 .. MaxFaults
    BY FaultAssumption
  <2> QED
    BY <1>1, <1>12, <1>5, <1>6, <2>1, <2>2 DEF TypeOK
<1>8. /\ posts = {} /\ view.stream = "absent"
      /\ row.fence = 0 /\ row.delivery = "not_ready"
  BY <1>3, <1>4 DEF Init, NewView, Ledger!NewRow
<1>9. ASSUME NEW f \in Claims
      PROVE  HandlerInv(f)
  <2>1. handler[f].pc = "none" /\ f > 0
    BY <1>2, <1>6, ClaimsAreNumbers
  <2> QED
    BY <1>8, <2>1 DEF HandlerInv, Sending, Later
<1>10. FinalsInv
  BY <1>8, <1>9 DEF FinalsInv, PostsInv, UniqueInv, ShownInv
<1>11. ReadsInv
  BY <1>2, <1>6 DEF ReadsInv, At
<1> QED
  BY <1>7, <1>10, <1>11 DEF TypeInv

LEMMA TurnStutters ==
  ASSUME TypeInv, FinalsInv, UNCHANGED vars
  PROVE  TypeInv' /\ FinalsInv'
<1>1. /\ run' = run /\ exec' = exec /\ job' = job /\ view' = view
      /\ handler' = handler /\ drain' = drain /\ flue' = flue
      /\ posts' = posts /\ faults' = faults
  BY DEF vars
<1>2. row' = row
  BY <1>1 DEF row
<1>3. TypeInv'
  BY <1>1 DEF TypeInv, TypeOK, ReadsInv, Ledger!TypeOK, At
<1>4. \A f \in Claims : HandlerInv(f)'
  BY <1>1, <1>2 DEF FinalsInv, HandlerInv, Sending
<1> QED
  BY <1>1, <1>2, <1>3, <1>4 DEF FinalsInv, PostsInv, UniqueInv, ShownInv, Unsent

LEMMA TurnSteps ==
  ASSUME TypeInv, FinalsInv, [Next]_vars
  PROVE  TypeInv' /\ FinalsInv'
<1>1. TypeOK
  BY DEF TypeInv
<1>2. ASSUME NEW f \in Claims, Claim(f)
      PROVE  TypeInv' /\ FinalsInv'
  BY <1>1, <1>2, ClaimKeepsTypes, ClaimingKeepsFinals
<1>3. ASSUME NEW f \in Claims, Handle(f)
      PROVE  TypeInv' /\ FinalsInv'
  BY <1>1, <1>3, HandleKeepsTypes, HandleKeepsFinals
<1>4. CASE Outside
  BY <1>1, <1>4, OutsideKeepsTypes, OutsideStepKeepsFinals
<1>5. CASE UNCHANGED vars
  BY <1>5, TurnStutters
<1> QED
  BY <1>2, <1>3, <1>4, <1>5 DEF Next, Outside

LEMMA TurnInvariant == Spec => [](TypeInv /\ FinalsInv)
<1>1. Init => TypeInv /\ FinalsInv
  BY TurnBegins
<1>2. TypeInv /\ FinalsInv /\ [Next]_vars => (TypeInv /\ FinalsInv)'
  BY TurnSteps
<1> QED
  BY <1>1, <1>2, PTL DEF Spec

(* Every row, record and message keeps its shape.                          *)
THEOREM TypeCorrectness == Spec => []TypeOK
<1>1. TypeInv /\ FinalsInv => TypeOK
  BY DEF TypeInv
<1> QED
  BY <1>1, TurnInvariant, PTL

(* However often a turn is claimed, whatever fails and however long a      *)
(* handler outlives its lease: of the finals the ledger was asked about    *)
(* Slack shows one at most, and the row is right about them.               *)
THEOREM RecordedFinals == Spec => []RecordedFinalsStand
<1>1. ASSUME TypeInv, FinalsInv
      PROVE  RecordedFinalsStand
  <2>1. NothingIsShown
    BY <1>1 DEF FinalsInv, PostsInv, NothingIsShown
  <2>2. ASSUME row.delivery = "delivered", \A p \in posts : p.offered
        PROVE  DeliveredIsShown
    BY <1>1, <2>2 DEF FinalsInv, PostsInv, ShownInv, DeliveredIsShown
  <2> QED
    BY <1>1, <2>1, <2>2
       DEF RecordedFinalsStand, DeliveredIsShown, FinalsInv, UniqueInv
<1>2. TypeInv /\ FinalsInv => RecordedFinalsStand
  BY <1>1
<1> QED
  BY <1>2, TurnInvariant, PTL

(***************************************************************************)
(* One handler at a time                                                   *)
(***************************************************************************)

(* Nothing that makes a handler outlive its lease or its drain may happen. *)
OneAtATime == {"stall", "orphan"} \cap FaultKinds = {}

(* What a status says of the delivery.                                     *)
RowInv ==
    /\ row.delivery \in {"pending", "failed"} =>
          row.status \in {"response_ready", "recovery_required"}
    /\ row.delivery = "unknown" => row.status = "recovery_required"
    /\ row.status = "settled" <=> row.delivery \in {"delivered", "not_applicable"}

Alive == {f \in Claims : Live(f)}

(* The claim is the row's own, and holds its lease until the run is over.  *)
Fit(f) ==
    /\ row.fence = f
    /\ handler[f].usable
    /\ Over(row) \/ (row.lease = 3 /\ handler[f].renewing)

(* Where an execution is at work, may be settled, may have called a model; *)
(* where the ledger has been asked, where Slack has been, where it ended.  *)
Executing == {"route", "react", "dispatch", "send", "receipt", "relay", "read",
              "checkpoint", "result", "final", "intend"}
Unsettled == Executing \ {"final", "intend"}
Asking == Unsettled \ {"route", "react"}
Offering == {"slack", "started", "close", "finalizing", "stop", "p_slack"}
Shown == {"accepted", "stopped", "posted", "verdict"}
Finished == {"delivered", "tidy", "p_delivered", "p_tidy"}

Works(f) ==
    LET h == handler[f]
    IN  /\ h.pc \in Executing => row.status = "executing"
        /\ h.pc \in Unsettled => /\ Ledger!HasExecution(Turn, f)
                                 /\ exec[Turn][f].outcome = "pending"
        /\ h.pc \in Asking => exec[Turn][f].model \in {"ready", "invoked"}
        /\ h.pc \in Offering =>
              h.offered /\ row.delivery = "pending" /\ row.attempt = f
        /\ h.pc \in Shown => h.offered
        /\ h.pc \in Finished => row.status = "settled"
        /\ h.pc = "mark" /\ h.mark = "done" => row.status = "settled"

AloneInv ==
    /\ \A f \in Alive : Fit(f) /\ Works(f)
    /\ \A p \in posts : p.offered
    /\ job.state = "done" => row.status = "settled"

(* What a step leaves of the row that a handler relies on.                 *)
RowGoesOn ==
    /\ RowInv'
    /\ row'.fence = row.fence
    /\ Over(row) => Over(row')
    /\ row.status = "settled" => row'.status = "settled"

LeaseGoesOn == Over(row') \/ row'.lease = row.lease

LEMMA HandleRow ==
  ASSUME TypeOK, RowInv, NEW f \in Claims, Handle(f)
  PROVE  RowGoesOn /\ (LeaseGoesOn \/ Release(f))
<1> USE DEF Commits, Throws, ledger
<1>1. row \in Ledger!Row /\ Ledger!TypeOK
  BY RowTyped DEF TypeOK
<1>2. ASSUME row' = row
      PROVE  RowGoesOn /\ LeaseGoesOn
  BY <1>2 DEF RowGoesOn, LeaseGoesOn, RowInv, Over
<1>3. ASSUME UNCHANGED <<run, exec>>
      PROVE  RowGoesOn /\ LeaseGoesOn
  BY <1>2, <1>3 DEF row
<1>4. CASE PrepareInput(f)
  <2>1. CASE Ledger!PrepareRunInput(Turn)
    BY <1>1, <2>1, PreparesRow DEF RowGoesOn, LeaseGoesOn, RowInv, Over, Ledger!Row
  <2> QED
    BY <1>3, <1>4, <2>1 DEF PrepareInput
<1>5. CASE CreateExecution(f)
  <2>1. CASE Ledger!CreateRunExecution(Turn, f)
    BY <1>1, <2>1, CreatesRow DEF RowGoesOn, LeaseGoesOn, RowInv, Over, Ledger!Row
  <2> QED
    BY <1>3, <1>5, <2>1 DEF CreateExecution
<1>6. CASE RecordRoute(f) \/ SettleReaction(f) \/ SettleResult(f)
  <2>1. row' = row
    BY <1>6 DEF RecordRoute, SettleReaction, SettleResult, row,
       Ledger!RecordRunExecutionRoute, Ledger!SettleRunExecution
  <2> QED
    BY <1>2, <2>1
<1>7. CASE RecordResponse(f)
  <2>1. <<handler[f].text, handler[f].render>> \in Response
    BY HandlerTyped
  <2>2. CASE Ledger!RecordRunResponse(Turn, f, <<handler[f].text, handler[f].render>>)
    <3>1. \/ /\ row.status \in {"executing", "input_ready"}
             /\ row' = [row EXCEPT !.response = <<handler[f].text, handler[f].render>>,
                                   !.status = "response_ready",
                                   !.delivery = "not_ready"]
          \/ /\ row.delivery = "failed"
             /\ row' = [row EXCEPT !.response = <<handler[f].text, handler[f].render>>,
                                   !.delivery = "not_ready", !.attempt = 0]
      BY <1>1, <2>1, <2>2, RecordsResponse
    <3>2. /\ row'.delivery = "not_ready"
          /\ row'.fence = row.fence /\ row'.lease = row.lease
          /\ \/ row'.status = "response_ready" /\ ~Over(row)
             \/ row'.status = row.status /\ row.delivery = "failed"
      BY <1>1, <3>1 DEF Ledger!Row, Over
    <3> QED
      BY <3>2 DEF RowGoesOn, LeaseGoesOn, RowInv, Over
  <2> QED
    BY <1>3, <1>7, <2>2 DEF RecordResponse
<1>8. CASE StartDelivery(f) \/ StartPersisted(f)
  <2>1. CASE Ledger!StartRunDelivery(Turn, f)
    <3>1. /\ row.status = "response_ready"
          /\ row' = [row EXCEPT !.delivery = "pending", !.attempt = f]
      BY <1>1, <2>1, StartsDelivery
    <3>2. /\ row'.status = "response_ready" /\ row'.delivery = "pending"
          /\ row'.fence = row.fence /\ row'.lease = row.lease
      BY <1>1, <3>1 DEF Ledger!Row
    <3> QED
      BY <3>1, <3>2 DEF RowGoesOn, LeaseGoesOn, RowInv, Over
  <2> QED
    BY <1>3, <1>8, <2>1 DEF StartDelivery, StartPersisted
<1>9. CASE FinalizeDelivery(f) \/ AdoptDelivery(f) \/ FinalizePersisted(f)
  <2>1. UNCHANGED <<run, exec>> \/ SettlesFor(f)
    BY <1>1, <1>9, HandlerTyped, DeliversFor
       DEF FinalizeDelivery, AdoptDelivery, FinalizePersisted
  <2>2. ASSUME SettlesFor(f)
        PROVE  RowGoesOn /\ LeaseGoesOn
    <3>1. /\ row'.status = "settled" /\ row'.delivery = "delivered"
          /\ row'.fence = row.fence
      BY <1>1, <2>2 DEF SettlesFor, Ledger!Row
    <3> QED
      BY <3>1 DEF RowGoesOn, LeaseGoesOn, RowInv, Over
  <2> QED
    BY <1>3, <2>1, <2>2
<1>10. CASE FinalizeRejected(f) \/ PersistedRejected(f)
  <2>1. CASE Ledger!FinalizeFailed(Turn, f, f)
    BY <1>1, <2>1, Fails DEF RowGoesOn, LeaseGoesOn, RowInv, Over, Ledger!Row
  <2> QED
    BY <1>3, <1>10, <2>1 DEF FinalizeRejected, PersistedRejected
<1>11. CASE FinalizeLost(f) \/ PersistedLost(f)
  <2>1. CASE Ledger!FinalizeUnknown(Turn, f, f)
    BY <1>1, <2>1, LosesTrack DEF RowGoesOn, LeaseGoesOn, RowInv, Over, Ledger!Row
  <2> QED
    BY <1>3, <1>11, <2>1 DEF FinalizeLost, PersistedLost
<1>12. CASE Abandon(f)
  <2>1. CASE Ledger!SettleRunWithoutDelivery(Turn, f, "failed")
    BY <1>1, <2>1, GivesUp DEF RowGoesOn, LeaseGoesOn, RowInv, Over, Ledger!Row
  <2> QED
    BY <1>3, <1>12, <2>1 DEF Abandon
<1>13. CASE Release(f)
  <2>1. CASE Ledger!ReleaseRequeue(Turn, f) \/ Ledger!ReleaseForRecovery(Turn, f)
    <3>1. ~Over(row) /\ GivenBack
      BY <1>1, <2>1, Releases
    <3>2. PICK s \in BackTo :
             /\ row' = [row EXCEPT !.status = s, !.lease = 0]
             /\ row.status = "response_ready" =>
                   s \in {"response_ready", "recovery_required"}
      BY <3>1 DEF GivenBack
    <3>3. /\ row'.status # "settled"
          /\ row.status = "response_ready" =>
                row'.status \in {"response_ready", "recovery_required"}
          /\ row'.delivery = row.delivery /\ row'.fence = row.fence
      BY <1>1, <3>2 DEF Ledger!Row, BackTo
    <3> QED
      BY <1>13, <3>1, <3>3 DEF RowGoesOn, RowInv, Over
  <2> QED
    BY <1>3, <1>13, <2>1 DEF Release
<1> QED
  BY <1>3, <1>4, <1>5, <1>6, <1>7, <1>8, <1>9, <1>10, <1>11, <1>12, <1>13
     DEF Handle, Prepare, AskAgent, Deliver, DeliverPersisted,
         LoadJob, ResolveIdentity, RecordAttempt, PrepareDispatch, Dispatch,
         RecordReceipt, PrepareRelay, Read, RecordSettlement, Retry,
         ChooseDelivery, IntendStream, CallSlack, StreamStarted, CloseStream,
         MarkFinalizing, StopStream, StreamDelivered, PostAccepted,
         PostDelivered, MarkUnknown, FallBack, MarkDelivered,
         MarkViewFinalized, ReadPersisted, SendPersisted, ClosePersisted,
         PersistedDelivered, PersistedFinalized, Classify, Mark

(* A lifecycle is silenced by a refused success only, and the renewal      *)
(* timer is ended from outside.                                            *)
Stays(f) ==
    /\ handler'[f].usable = handler[f].usable
    /\ handler'[f].renewing = handler[f].renewing

LEMMA GoesStaying ==
  ASSUME TypeOK, NEW f \in Claims, NEW pc, Goto(f, pc)
  PROVE  Stays(f)
BY GoesTo DEF GoneTo, Stays

LEMMA ConcludesStaying ==
  ASSUME TypeOK, NEW f \in Claims, NEW mark, NEW outcome, Conclude(f, mark, outcome)
  PROVE  Stays(f)
BY ConcludesAt DEF GoneTo, Stays

Silenced(f) ==
    /\ At(f, "result")
    /\ handler[f].result = "completed"
    /\ ~Ledger!MaySettle(Turn, f, "succeeded", "settled")

LEMMA AdvancesStaying ==
  ASSUME TypeOK, NEW f \in Claims, NEW from, NEW to, NEW then, NEW stale,
         AdvanceOr(f, from, to, then, stale)
  PROVE  Stays(f)
<1>1. handler[f] \in Handler
  BY DEF TypeOK
<1>2. CASE Become(f, [handler[f] EXCEPT !.pc = then, !.seen = view'])
  <2>1. handler'[f] = [handler[f] EXCEPT !.pc = then, !.seen = view']
    BY <1>2, Becomes
  <2> QED
    BY <1>1, <2>1 DEF Handler, Stays
<1> QED
  BY <1>2, GoesStaying DEF AdvanceOr

LEMMA HandleStays ==
  ASSUME TypeOK, NEW f \in Claims, Handle(f)
  PROVE  Stays(f) \/ Silenced(f)
<1> USE GoesStaying, ConcludesStaying
<1>1. LoadJob(f) \/ ResolveIdentity(f) \/ RecordAttempt(f) => Stays(f)
  BY BecomesLoaded DEF LoadJob, ResolveIdentity, RecordAttempt, Base, Stays
<1>2. PrepareInput(f) \/ CreateExecution(f) \/ RecordRoute(f) => Stays(f)
  BY DEF PrepareInput, CreateExecution, RecordRoute
<1>3. SettleReaction(f) \/ FallBack(f) => Stays(f)
  BY BecomesRendered DEF SettleReaction, FallBack, Base, Stays
<1>4. PrepareDispatch(f) \/ RecordReceipt(f) \/ RecordSettlement(f) => Stays(f)
  BY BecomesRead DEF PrepareDispatch, RecordReceipt, RecordSettlement, Base, Stays
<1>5. Dispatch(f) => Stays(f)
  BY BecomesDispatched DEF Dispatch, Base, Stays
<1>6. PrepareRelay(f) \/ Retry(f) \/ MarkUnknown(f) \/ MarkDelivered(f)
      \/ MarkViewFinalized(f) => Stays(f)
  BY DEF PrepareRelay, Retry, MarkUnknown, MarkDelivered, MarkViewFinalized
<1>7. Read(f) => Stays(f)
  BY BecomesRead DEF Read, Base, Stays
<1>8. SettleResult(f) => Stays(f) \/ Silenced(f)
  BY BecomesAnswered DEF SettleResult, Silenced, Base, Stays
<1>9. ChooseDelivery(f) => Stays(f)
  BY BecomesChosen DEF ChooseDelivery, Base, Stays
<1>10. PostAccepted(f) => Stays(f)
  BY BecomesSeeing DEF PostAccepted, Base, Stays
<1>11. RecordResponse(f) \/ StartDelivery(f) \/ StartPersisted(f) => Stays(f)
  BY BecomesOffered DEF RecordResponse, StartDelivery, StartPersisted, Base, Stays
<1>12. CallSlack(f) \/ StopStream(f) \/ SendPersisted(f) => Stays(f)
  BY DEF CallSlack, StopStream, SendPersisted
<1>13. FinalizeDelivery(f) \/ FinalizeRejected(f) \/ FinalizeLost(f) => Stays(f)
  BY DEF FinalizeDelivery, FinalizeRejected, FinalizeLost
<1>14. AdoptDelivery(f) \/ FinalizePersisted(f) \/ PersistedRejected(f)
       \/ PersistedLost(f) => Stays(f)
  BY DEF AdoptDelivery, FinalizePersisted, PersistedRejected, PersistedLost
<1>15. ReadPersisted(f) => Stays(f)
  BY BecomesPersisted DEF ReadPersisted, Base, Stays
<1>16. ClosePersisted(f) \/ PersistedDelivered(f) \/ PersistedFinalized(f) => Stays(f)
  BY DEF ClosePersisted, PersistedDelivered, PersistedFinalized
<1>17. Abandon(f) \/ Classify(f) \/ Mark(f) \/ Release(f) => Stays(f)
  BY DEF Abandon, Classify, Mark, Release
<1>18. (\/ IntendStream(f) \/ StreamStarted(f) \/ CloseStream(f)
        \/ MarkFinalizing(f) \/ StreamDelivered(f) \/ PostDelivered(f)) => Stays(f)
  BY AdvancesStaying DEF IntendStream, StreamStarted, CloseStream, MarkFinalizing,
     StreamDelivered, PostDelivered, Advance
<1> HIDE GoesStaying, ConcludesStaying
<1>19. Prepare(f) => Stays(f)
  BY <1>1, <1>2, <1>3 DEF Prepare
<1>20. AskAgent(f) => Stays(f) \/ Silenced(f)
  BY <1>4, <1>5, <1>6, <1>7, <1>8 DEF AskAgent
<1>21. Deliver(f) => Stays(f)
  BY <1>3, <1>6, <1>9, <1>10, <1>11, <1>12, <1>13, <1>18 DEF Deliver
<1>22. DeliverPersisted(f) => Stays(f)
  BY <1>11, <1>12, <1>14, <1>15, <1>16 DEF DeliverPersisted
<1> QED
  BY <1>17, <1>19, <1>20, <1>21, <1>22 DEF Handle

(* Where nothing is asked of a handler.                                    *)
Free == {"load", "identity", "attempt", "prepare", "create", "retry", "record",
         "offer", "unsure", "rejected", "fallback", "lost", "persisted", "adopt",
         "p_offer", "p_close", "p_verdict", "p_rejected", "p_lost", "abandon",
         "classify", "release", "gone"}

(* A handler that goes where nothing is asked, or ends without a mark that *)
(* says it is done.                                                        *)
Frees(f) ==
    \/ handler'[f].pc \in Free
    \/ handler'[f].pc = "mark" /\ handler'[f].mark # "done"

LEMMA FreeWorks ==
  ASSUME NEW f \in Claims, Frees(f)
  PROVE  Works(f)'
BY DEF Frees, Free, Works, Executing, Unsettled, Asking, Offering, Shown, Finished

LEMMA GoesFree ==
  ASSUME TypeOK, NEW f \in Claims, NEW pc \in Free, Goto(f, pc)
  PROVE  Frees(f)
BY GoesPc DEF Frees

LEMMA BaseFree ==
  ASSUME NEW f \in Claims, NEW pc \in Free, Base(f, pc)
  PROVE  Frees(f)
BY DEF Base, Frees

LEMMA ConcludesFree ==
  ASSUME TypeOK, NEW f \in Claims, NEW mark \in {"none", "error", "recovery"},
         NEW outcome, Conclude(f, mark, outcome)
  PROVE  Frees(f)
<1>1. handler'[f].pc = "mark" /\ handler'[f].mark = mark
  BY ConcludesAt DEF GoneTo
<1> QED
  BY <1>1 DEF Frees

LEMMA MostStepsFree ==
  ASSUME TypeOK, NEW f \in Claims,
         \/ LoadJob(f) \/ ResolveIdentity(f) \/ RecordAttempt(f)
         \/ PrepareInput(f) \/ SettleReaction(f) \/ Retry(f) \/ FallBack(f)
         \/ FinalizeRejected(f) \/ FinalizeLost(f) \/ MarkUnknown(f)
         \/ MarkViewFinalized(f) \/ ReadPersisted(f) \/ ClosePersisted(f)
         \/ PersistedFinalized(f) \/ PersistedRejected(f) \/ PersistedLost(f)
         \/ SendPersisted(f) \/ Abandon(f) \/ Mark(f) \/ Release(f)
  PROVE  Frees(f)
<1>1. /\ {"identity", "attempt", "persisted", "prepare", "create", "classify",
          "record", "fallback", "lost", "adopt", "p_offer", "p_verdict",
          "abandon", "p_close", "p_rejected", "p_lost", "release", "gone"}
             \subseteq Free
  BY DEF Free
<1> USE <1>1, GoesFree, ConcludesFree
<1>2. LoadJob(f) \/ ResolveIdentity(f) \/ RecordAttempt(f) => Frees(f)
  BY BecomesLoaded, BaseFree DEF LoadJob, ResolveIdentity, RecordAttempt
<1>3. PrepareInput(f) \/ Retry(f) => Frees(f)
  BY DEF PrepareInput, Retry
<1>4. SettleReaction(f) \/ FallBack(f) => Frees(f)
  BY BecomesRendered, BaseFree DEF SettleReaction, FallBack
<1>5. FinalizeRejected(f) \/ FinalizeLost(f) => Frees(f)
  BY DEF FinalizeRejected, FinalizeLost
<1>6. MarkUnknown(f) \/ MarkViewFinalized(f) => Frees(f)
  BY DEF MarkUnknown, MarkViewFinalized
<1>7. ReadPersisted(f) => Frees(f)
  <2>1. SUFFICES ASSUME ReadPersisted(f)
                 PROVE  Frees(f)
    OBVIOUS
  <2>2. CASE \E mark \in {"error", "recovery"} : Conclude(f, mark, "recover")
    BY <2>2
  <2>3. CASE \E pc \in {"adopt", "p_offer"} : \E text, render :
               Become(f, [handler[f] EXCEPT !.pc = pc, !.text = text,
                                            !.render = render])
    BY <2>3, BecomesPersisted, BaseFree
  <2> QED
    BY <2>1, <2>2, <2>3 DEF ReadPersisted
<1>8. ClosePersisted(f) \/ PersistedFinalized(f) => Frees(f)
  BY DEF ClosePersisted, PersistedFinalized
<1>9. PersistedRejected(f) \/ PersistedLost(f) => Frees(f)
  BY DEF PersistedRejected, PersistedLost
<1>10. SendPersisted(f) => Frees(f)
  BY DEF SendPersisted
<1>11. Abandon(f) \/ Mark(f) \/ Release(f) => Frees(f)
  BY DEF Abandon, Mark, Release
<1> QED
  BY <1>2, <1>3, <1>4, <1>5, <1>6, <1>7, <1>8, <1>9, <1>10, <1>11

(* From the claim of an execution to its settlement.                       *)
LEMMA ExecutingWorks ==
  ASSUME TypeOK, NEW f \in Claims, Works(f),
         \/ CreateExecution(f) \/ RecordRoute(f) \/ PrepareDispatch(f)
         \/ Dispatch(f) \/ RecordReceipt(f) \/ PrepareRelay(f) \/ Read(f)
         \/ RecordSettlement(f)
  PROVE  Works(f)'
<1>1. /\ Ledger!TypeOK /\ handler[f] \in Handler /\ job.authed \in BOOLEAN
      /\ {"classify", "retry"} \subseteq Free
  BY HandlerTyped DEF TypeOK, Free
<1>2. CASE CreateExecution(f)
  <2>1. CASE Ledger!CreateRunExecution(Turn, f) /\ Goto(f, "route")
    <3>1. handler'[f].pc = "route"
      BY <2>1, GoesPc
    <3>2. /\ row.status = "input_ready" /\ row \in Ledger!Row
          /\ row' = [row EXCEPT !.status = "executing"]
          /\ exec'[Turn][f] = [model |-> "not_invoked", outcome |-> "pending",
                               auth |-> FALSE]
      BY <1>1, <2>1, CreatesRow, RowTyped
    <3>3. row'.status = "executing"
      BY <3>2 DEF Ledger!Row
    <3> QED
      BY <3>1, <3>2, <3>3 DEF Works, Executing, Unsettled, Asking, Offering, Shown,
         Finished, Ledger!HasExecution, Ledger!NoExecution
  <2>2. CASE Goto(f, "classify")
    BY <1>1, <2>2, GoesFree, FreeWorks
  <2> QED
    BY <1>2, <2>1, <2>2 DEF CreateExecution, Commits
<1>3. CASE RecordRoute(f)
  <2>1. /\ row' = row
        /\ Ledger!HasExecution(Turn, f)
        /\ exec[Turn][f] \in Ledger!Attempted
        /\ exec'[Turn][f] = [exec[Turn][f] EXCEPT !.model = "ready",
                                                  !.auth = job.authed]
    BY <1>1, <1>3, RoutesExecution, ExecutionOfClaim DEF RecordRoute
  <2>2. /\ exec'[Turn][f].model = "ready"
        /\ exec'[Turn][f].outcome = exec[Turn][f].outcome
    BY <2>1 DEF Ledger!Attempted
  <2>3. handler[f].pc = "route"
    BY <1>3 DEF RecordRoute, At
  <2>4. handler'[f].pc \in {"react", "dispatch"}
    BY <1>3, GoesPc DEF RecordRoute
  <2>5. row.status = "executing" /\ exec[Turn][f].outcome = "pending"
    BY <2>3 DEF Works, Executing, Unsettled
  <2>6. Ledger!HasExecution(Turn, f)'
    BY <2>2 DEF Ledger!HasExecution, Ledger!NoExecution
  <2> QED
    BY <2>1, <2>2, <2>4, <2>5, <2>6 DEF Works, Executing, Unsettled, Asking,
       Offering, Shown, Finished
<1>4. ASSUME UNCHANGED <<run, exec>>, handler[f].pc \in Asking,
             handler'[f].pc \in Asking
      PROVE  Works(f)'
  BY <1>4 DEF Works, Executing, Unsettled, Asking, Offering, Shown, Finished,
     Ledger!HasExecution, row
<1>5. CASE PrepareDispatch(f) \/ RecordReceipt(f) \/ RecordSettlement(f)
  <2>1. handler'[f].pc \in {"result", "send", "relay"}
    <3>1. PrepareDispatch(f) => handler'[f].pc \in {"result", "send", "relay"}
      <4>1. PrepareDispatch(f) =>
               \/ \E result : Become(f, [handler[f] EXCEPT !.pc = "result",
                                                           !.result = result])
               \/ Goto(f, "send") \/ Goto(f, "relay")
        BY DEF PrepareDispatch
      <4>2. ASSUME NEW result, Become(f, [handler[f] EXCEPT !.pc = "result",
                                                            !.result = result])
            PROVE  handler'[f].pc = "result"
        BY <4>2, BecomesRead DEF Base
      <4> QED
        BY <4>1, <4>2, GoesPc
    <3>2. RecordReceipt(f) => handler'[f].pc \in {"result", "relay"}
      BY BecomesRead, GoesPc DEF RecordReceipt, Base
    <3>3. RecordSettlement(f) => handler'[f].pc = "result"
      BY BecomesRead, GoesPc DEF RecordSettlement, Base
    <3> QED
      BY <1>5, <3>1, <3>2, <3>3
  <2>2. UNCHANGED <<run, exec>> /\ handler[f].pc \in Asking
    BY <1>5 DEF PrepareDispatch, RecordReceipt, RecordSettlement, At, Asking,
       Unsettled, Executing
  <2> QED
    BY <1>4, <2>1, <2>2 DEF Asking, Unsettled, Executing
<1>6. CASE Dispatch(f) \/ PrepareRelay(f) \/ Read(f)
  <2>1. Dispatch(f) => handler'[f].pc \in {"receipt", "retry"}
    BY BecomesDispatched, GoesPc DEF Dispatch, Base
  <2>2. PrepareRelay(f) => handler'[f].pc \in {"read", "retry"}
    BY GoesPc DEF PrepareRelay
  <2>3. Read(f) => handler'[f].pc \in {"checkpoint", "retry"}
    BY BecomesRead, GoesPc DEF Read, Base
  <2>4. UNCHANGED <<run, exec>> /\ handler[f].pc \in Asking
    BY <1>6 DEF Dispatch, PrepareRelay, Read, At, Asking, Unsettled, Executing
  <2>5. CASE handler'[f].pc = "retry"
    BY <1>1, <2>5, FreeWorks DEF Frees
  <2> QED
    BY <1>4, <1>6, <2>1, <2>2, <2>3, <2>4, <2>5 DEF Asking, Unsettled, Executing
<1> QED
  BY <1>2, <1>3, <1>5, <1>6

(* Nothing was sent for a run that is still executing.                     *)
LEMMA NothingSentYet ==
  ASSUME TypeOK, FinalsInv, RowInv, AloneInv, row.status = "executing"
  PROVE  posts = {} /\ view.stream \notin {"delivered", "finalized"}
<1>1. row.delivery \notin {"pending", "delivered", "unknown"}
  BY DEF RowInv
<1>2. posts = {}
  BY <1>1 DEF FinalsInv, PostsInv, AloneInv
<1> QED
  BY <1>1, <1>2 DEF FinalsInv, ShownInv

(* While it works, no success of its execution can be refused.             *)
LEMMA NeverSilenced ==
  ASSUME TypeOK, NEW f \in Claims, Fit(f), Works(f)
  PROVE  ~Silenced(f)
<1>1. SUFFICES ASSUME At(f, "result")
               PROVE  Ledger!MaySettle(Turn, f, "succeeded", "settled")
  BY DEF Silenced
<1>2. /\ row.fence = f
      /\ Ledger!HasExecution(Turn, f)
      /\ exec[Turn][f].outcome = "pending"
      /\ exec[Turn][f].model \in {"ready", "invoked"}
  BY <1>1 DEF Fit, Works, At, Asking, Unsettled, Executing
<1>3. exec[Turn][f] \in Ledger!Attempted
  BY <1>2, ExecutionOfClaim DEF TypeOK
<1>4. Ledger!ExecutionChecks([exec[Turn][f] EXCEPT !.model = "settled",
                                                   !.outcome = "succeeded"])
  BY <1>3 DEF Ledger!ExecutionChecks, Ledger!Attempted
<1> QED
  BY <1>2, <1>4 DEF Ledger!MaySettle, Ledger!CurrentExecution, Ledger!Fenced, row

LEMMA AnsweringWorks ==
  ASSUME TypeOK, FinalsInv, RowInv, AloneInv, NEW f \in Claims, Fit(f), Works(f),
         SettleResult(f) \/ ChooseDelivery(f) \/ IntendStream(f) \/ RecordResponse(f)
  PROVE  Works(f)'
<1>1. {"classify", "offer", "record"} \subseteq Free
  BY DEF Free
<1>2. ASSUME row' = row, handler[f].pc \in {"result", "final"},
             handler'[f].pc \in {"final", "intend"}
      PROVE  Works(f)'
  BY <1>2 DEF Works, Executing, Unsettled, Asking, Offering, Shown, Finished
<1>3. CASE SettleResult(f)
  <2>1. ~Silenced(f)
    BY NeverSilenced
  <2>2. \/ \E text : Become(f, [handler[f] EXCEPT !.pc = "final", !.text = text])
        \/ Goto(f, "classify")
    BY <1>3, <2>1 DEF SettleResult, Silenced
  <2>3. handler'[f].pc = "final" \/ Frees(f)
    BY <1>1, <2>2, BecomesAnswered, GoesFree DEF Base
  <2>4. row' = row /\ handler[f].pc = "result"
    BY <1>3 DEF SettleResult, Commits, Throws, ledger, row, At,
       Ledger!SettleRunExecution
  <2> QED
    BY <1>2, <2>3, <2>4, FreeWorks
<1>4. CASE ChooseDelivery(f)
  <2>1. row.status = "executing" /\ row' = row /\ handler[f].pc = "final"
    BY <1>4 DEF ChooseDelivery, At, Works, Executing, row
  <2>2. view.stream \notin {"delivered", "finalized"}
    BY <2>1, NothingSentYet
  <2>3. handler'[f].pc = "intend" \/ Frees(f)
    BY <1>1, <1>4, <2>2, BecomesChosen, BaseFree, GoesFree DEF ChooseDelivery, Base
  <2> QED
    BY <1>2, <2>1, <2>3, FreeWorks
<1>5. CASE IntendStream(f)
  <2>1. Carries(f, "record") \/ Carries(f, "classify")
    BY <1>5, Advances DEF IntendStream, Advance, Streams
  <2> QED
    BY <1>1, <2>1, FreeWorks DEF Carries, Frees
<1>6. CASE RecordResponse(f)
  BY <1>1, <1>6, GoesFree, FreeWorks DEF RecordResponse, Fit
<1> QED
  BY <1>3, <1>4, <1>5, <1>6

(* From the start of a delivery to its verdict.                            *)
LEMMA OfferingWorks ==
  ASSUME TypeOK, NEW f \in Claims, Works(f), StartDelivery(f) \/ StartPersisted(f)
  PROVE  Works(f)'
<1>1. Ledger!TypeOK /\ row \in Ledger!Row /\ {"classify", "p_lost"} \subseteq Free
  BY RowTyped DEF TypeOK, Free
<1>2. CASE Ledger!StartRunDelivery(Turn, f)
           /\ \E pc \in {"slack", "close", "p_slack"} :
                 Become(f, [handler[f] EXCEPT !.pc = pc, !.offered = TRUE])
  <2>1. PICK pc \in {"slack", "close", "p_slack"} :
           Become(f, [handler[f] EXCEPT !.pc = pc, !.offered = TRUE])
    BY <1>2
  <2>2. handler'[f].pc = pc /\ handler'[f].offered = TRUE
    <3>1. handler'[f] = [handler[f] EXCEPT !.pc = pc, !.offered = TRUE]
      BY <2>1, Becomes
    <3> QED
      BY <3>1, HandlerTyped DEF Handler
  <2>3. row' = [row EXCEPT !.delivery = "pending", !.attempt = f]
    BY <1>1, <1>2, StartsDelivery
  <2>4. row'.delivery = "pending" /\ row'.attempt = f
    BY <1>1, <2>3 DEF Ledger!Row
  <2> QED
    BY <2>2, <2>4 DEF Works, Executing, Unsettled, Asking, Offering, Shown, Finished
<1>3. CASE Goto(f, "classify") \/ Goto(f, "p_lost")
  BY <1>1, <1>3, GoesFree, FreeWorks
<1> QED
  BY <1>2, <1>3 DEF StartDelivery, StartPersisted, Commits, Sent

LEMMA SlackWorks ==
  ASSUME TypeOK, NEW f \in Claims, Works(f),
         \/ CallSlack(f) \/ StreamStarted(f) \/ CloseStream(f) \/ MarkFinalizing(f)
         \/ StopStream(f) \/ StreamDelivered(f) \/ PostAccepted(f) \/ PostDelivered(f)
  PROVE  Works(f)'
<1>1. {"classify", "rejected", "unsure", "lost"} \subseteq Free
  BY DEF Free
<1>2. \/ Frees(f)
      \/ /\ handler'[f].offered = handler[f].offered
         /\ \/ handler[f].pc \in Offering /\ handler'[f].pc \in Offering \cup Shown
            \/ handler[f].pc \in Shown /\ handler'[f].pc \in Shown
  <2> USE DEF Offering, Shown, At
  <2>1. CASE CallSlack(f) \/ StopStream(f)
    <3>1. \E pc \in {"started", "accepted", "stopped", "rejected", "unsure", "lost"} :
             Goto(f, pc)
      BY <2>1 DEF CallSlack, StopStream
    <3>2. PICK pc \in {"started", "accepted", "stopped", "rejected", "unsure", "lost"} :
             Carries(f, pc)
      BY <3>1, GoesCarrying
    <3> QED
      BY <1>1, <2>1, <3>2 DEF CallSlack, StopStream, Carries, Frees
  <2>2. CASE StreamStarted(f) \/ CloseStream(f) \/ MarkFinalizing(f)
    <3>1. \/ Carries(f, "close") \/ Carries(f, "finalizing") \/ Carries(f, "stop")
          \/ Carries(f, "classify")
      BY <2>2, Advances DEF StreamStarted, CloseStream, MarkFinalizing, Advance, Streams
    <3> QED
      BY <1>1, <2>2, <3>1 DEF StreamStarted, CloseStream, MarkFinalizing, Carries, Frees
  <2>3. CASE StreamDelivered(f) \/ PostDelivered(f)
    <3>1. Carries(f, "verdict") \/ Carries(f, "classify") \/ Carries(f, "lost")
      BY <2>3, Advances DEF StreamDelivered, PostDelivered, Advance, Streams
    <3> QED
      BY <1>1, <2>3, <3>1 DEF StreamDelivered, PostDelivered, Carries, Frees
  <2>4. CASE PostAccepted(f)
    <3>1. /\ handler'[f].pc \in {"posted", "verdict"}
          /\ handler'[f].offered = handler[f].offered
      BY <2>4, BecomesSeeing, GoesCarrying DEF PostAccepted, Carries, Base
    <3> QED
      BY <2>4, <3>1 DEF PostAccepted
  <2> QED
    BY <2>1, <2>2, <2>3, <2>4
<1>3. row' = row
  BY DEF CallSlack, StreamStarted, CloseStream, MarkFinalizing, StopStream,
     StreamDelivered, PostAccepted, PostDelivered, row
<1>4. CASE ~Frees(f)
  BY <1>2, <1>3, <1>4 DEF Works, Executing, Unsettled, Asking, Offering, Shown, Finished
<1> QED
  BY <1>4, FreeWorks

(* From the verdict on.                                                    *)
LEMMA FinishingWorks ==
  ASSUME TypeOK, NEW f \in Claims, Works(f),
         \/ FinalizeDelivery(f) \/ AdoptDelivery(f) \/ FinalizePersisted(f)
         \/ MarkDelivered(f) \/ PersistedDelivered(f) \/ Classify(f)
  PROVE  Works(f)'
<1>1. /\ Ledger!TypeOK /\ row \in Ledger!Row
      /\ {"classify", "p_lost", "abandon"} \subseteq Free
  BY RowTyped DEF TypeOK, Free
<1>2. ASSUME row'.status = "settled",
             handler'[f].pc \in {"delivered", "p_delivered", "tidy", "p_tidy", "mark"}
      PROVE  Works(f)'
  BY <1>2 DEF Works, Executing, Unsettled, Asking, Offering, Shown, Finished
<1>3. ASSUME SettlesFor(f)
      PROVE  row'.status = "settled"
  BY <1>1, <1>3 DEF SettlesFor, Ledger!Row
<1>4. CASE FinalizeDelivery(f) \/ AdoptDelivery(f) \/ FinalizePersisted(f)
  <2>1. FinalizeDelivery(f) => handler[f].offered
    BY DEF FinalizeDelivery, At, Works, Shown
  <2>2. SettlesFor(f) \/ Frees(f)
    BY <1>1, <1>4, <2>1, HandlerTyped, DeliversFor, GoesFree, ConcludesFree
       DEF FinalizeDelivery, AdoptDelivery, FinalizePersisted, Commits
  <2>3. Frees(f) \/ handler'[f].pc \in {"delivered", "p_delivered"}
    BY <1>1, <1>4, GoesPc, GoesFree, ConcludesFree
       DEF FinalizeDelivery, AdoptDelivery, FinalizePersisted
  <2> QED
    BY <1>2, <1>3, <2>2, <2>3, FreeWorks
<1>5. CASE MarkDelivered(f) \/ PersistedDelivered(f)
  <2>1. row' = row /\ row.status = "settled"
    BY <1>5 DEF MarkDelivered, PersistedDelivered, At, Works, Finished, row
  <2>2. handler'[f].pc \in {"tidy", "p_tidy"}
    BY <1>5, GoesPc DEF MarkDelivered, PersistedDelivered
  <2> QED
    BY <1>2, <2>1, <2>2
<1>6. CASE Classify(f)
  <2>1. row' = row
    BY <1>6 DEF Classify, row
  <2>2. Frees(f) \/ (row.status = "settled" /\ Conclude(f, "done", "completed"))
    BY <1>1, <1>6, GoesFree, ConcludesFree DEF Classify
  <2> QED
    BY <1>2, <2>1, <2>2, ConcludesPc, FreeWorks
<1> QED
  BY <1>4, <1>5, <1>6

LEMMA HandleWorks ==
  ASSUME TypeOK, FinalsInv, RowInv, AloneInv, NEW f \in Claims, Handle(f),
         Fit(f), Works(f)
  PROVE  Works(f)'
BY MostStepsFree, FreeWorks, ExecutingWorks, AnsweringWorks, OfferingWorks,
   SlackWorks, FinishingWorks
   DEF Handle, Prepare, AskAgent, Deliver, DeliverPersisted

(* What a step of a handler shows, and what it says of the job.            *)
LEMMA PostsGrow ==
  ASSUME NEW f \in Claims, Handle(f)
  PROVE  \/ posts' = posts
         \/ handler[f].pc \in Offering /\ posts' \subseteq posts \cup {Message(f)}
<1>1. CASE CallSlack(f) \/ StopStream(f) \/ SendPersisted(f)
  BY <1>1 DEF CallSlack, StopStream, SendPersisted, At, Offering
<1> QED
  BY <1>1
     DEF Handle, Prepare, AskAgent, Deliver, DeliverPersisted,
         LoadJob, ResolveIdentity, RecordAttempt, PrepareInput, CreateExecution,
         RecordRoute, SettleReaction, PrepareDispatch, Dispatch, RecordReceipt,
         PrepareRelay, Read, RecordSettlement, SettleResult, Retry,
         ChooseDelivery, IntendStream, RecordResponse, StartDelivery,
         StreamStarted, CloseStream, MarkFinalizing, StreamDelivered,
         PostAccepted, PostDelivered, MarkUnknown, FinalizeDelivery,
         FinalizeRejected, FallBack, FinalizeLost, MarkDelivered,
         MarkViewFinalized, ReadPersisted, AdoptDelivery, StartPersisted,
         ClosePersisted, FinalizePersisted, PersistedDelivered,
         PersistedFinalized, PersistedRejected, PersistedLost, Abandon,
         Classify, Mark, Release

LEMMA JobsAreDone ==
  ASSUME TypeOK, NEW f \in Claims, Handle(f), job'.state = "done"
  PROVE  \/ job.state = "done"
         \/ handler[f].pc \in Finished
         \/ handler[f].pc = "mark" /\ handler[f].mark = "done"
<1>1. job \in Job /\ handler[f] \in Handler
  BY DEF TypeOK
<1>2. \A mark \in Marks : JobMarked(mark).state = "done" =>
                             job.state = "done" \/ mark = "done"
  BY <1>1 DEF JobMarked, Job, Marks
<1>3. handler[f].mark \in Marks
  BY <1>1 DEF Handler, Marks
<1>4. CASE RecordAttempt(f)
  BY <1>1, <1>4 DEF RecordAttempt, Job
<1>5. CASE PrepareDispatch(f)
  BY <1>1, <1>5 DEF PrepareDispatch, Job
<1>6. CASE RecordReceipt(f) \/ RecordSettlement(f)
  <2>1. \/ job' = JobMarked("recovery")
        \/ job'.state = job.state
    BY <1>1, <1>6 DEF RecordReceipt, RecordSettlement, Job
  <2> QED
    BY <1>2, <2>1 DEF Marks
<1>7. CASE MarkDelivered(f) \/ PersistedDelivered(f)
  BY <1>7 DEF MarkDelivered, PersistedDelivered, At, Finished
<1>8. CASE Mark(f)
  BY <1>2, <1>3, <1>8 DEF Mark, At
<1>9. CASE job' = job
  BY <1>9
<1> QED
  BY <1>4, <1>5, <1>6, <1>7, <1>8, <1>9
     DEF Handle, Prepare, AskAgent, Deliver, DeliverPersisted,
         LoadJob, ResolveIdentity, PrepareInput, CreateExecution,
         RecordRoute, SettleReaction, Dispatch, PrepareRelay, Read,
         SettleResult, Retry, ChooseDelivery, IntendStream, RecordResponse,
         StartDelivery, CallSlack, StreamStarted, CloseStream, MarkFinalizing,
         StopStream, StreamDelivered, PostAccepted, PostDelivered, MarkUnknown,
         FinalizeDelivery, FinalizeRejected, FallBack, FinalizeLost,
         MarkViewFinalized, ReadPersisted, AdoptDelivery, StartPersisted,
         SendPersisted, ClosePersisted, FinalizePersisted, PersistedFinalized,
         PersistedRejected, PersistedLost, Abandon, Classify, Release

LEMMA HandlesOnlyWhenAlive ==
  ASSUME NEW f \in Claims, Handle(f)
  PROVE  Live(f)
BY DEF Live, At,
       Handle, Prepare, AskAgent, Deliver, DeliverPersisted,
       LoadJob, ResolveIdentity, RecordAttempt, PrepareInput, CreateExecution,
       RecordRoute, SettleReaction, PrepareDispatch, Dispatch, RecordReceipt,
       PrepareRelay, Read, RecordSettlement, SettleResult, Retry,
       ChooseDelivery, IntendStream, RecordResponse, StartDelivery, CallSlack,
       StreamStarted, CloseStream, MarkFinalizing, StopStream, StreamDelivered,
       PostAccepted, PostDelivered, MarkUnknown, FinalizeDelivery,
       FinalizeRejected, FallBack, FinalizeLost, MarkDelivered,
       MarkViewFinalized, ReadPersisted, AdoptDelivery, StartPersisted,
       SendPersisted, ClosePersisted, FinalizePersisted, PersistedDelivered,
       PersistedFinalized, PersistedRejected, PersistedLost, Abandon,
       Classify, Mark, Release

LEMMA HandleKeepsAlone ==
  ASSUME TypeOK, FinalsInv, RowInv, AloneInv, NEW f \in Claims, Handle(f)
  PROVE  RowInv' /\ AloneInv'
<1>1. Live(f) /\ Fit(f) /\ Works(f)
  BY HandlesOnlyWhenAlive DEF AloneInv, Alive
<1>2. RowGoesOn /\ (LeaseGoesOn \/ Release(f))
  BY HandleRow
<1>3. \A g \in Claims \ {f} : ~Live(g)'
  <2>1. \A g \in Claims \ {f} : handler'[g] = handler[g] /\ ~Live(g)
    BY <1>1, HandleMoves DEF AloneInv, Alive, Fit
  <2> QED
    BY <2>1 DEF Live
<1>4. Live(f)' => Fit(f)'
  <2>1. Stays(f)
    BY <1>1, HandleStays, NeverSilenced
  <2>2. CASE LeaseGoesOn
    BY <1>1, <1>2, <2>1, <2>2 DEF Fit, RowGoesOn, LeaseGoesOn, Stays
  <2>3. CASE Release(f)
    BY <2>3, GoesPc DEF Release, Live
  <2> QED
    BY <1>2, <2>2, <2>3
<1>5. Works(f)'
  BY <1>1, HandleWorks
<1>6. \A p \in posts' : p.offered
  <2>1. handler[f].pc \in Offering => Message(f).offered
    BY <1>1 DEF Works, Message
  <2> QED
    BY <2>1, PostsGrow DEF AloneInv
<1>7. job'.state = "done" => row'.status = "settled"
  BY <1>1, <1>2, JobsAreDone DEF AloneInv, Works, RowGoesOn
<1> QED
  BY <1>2, <1>3, <1>4, <1>5, <1>6, <1>7 DEF AloneInv, Alive, RowGoesOn

(* A run is claimed only when nobody works on it any more.                 *)
LEMMA ClaimKeepsAlone ==
  ASSUME TypeOK, RowInv, AloneInv, NEW f \in Claims, Claim(f)
  PROVE  RowInv' /\ AloneInv'
<1>1. /\ Claimed
      /\ f = row.fence + 1
      /\ UNCHANGED <<job, posts>>
      /\ \A g \in Claims \ {f} : handler'[g] = handler[g]
  BY ClaimsRow DEF Claim, TypeOK, Become
<1>2. /\ handler'[f].pc = "load"
      /\ handler'[f].usable = TRUE
      /\ handler'[f].renewing = TRUE
  <2> DEFINE phase == IF row'.status = "response_ready" THEN "delivery" ELSE "execution"
  <2>1. handler'[f] = [NoHandler EXCEPT !.pc = "load", !.phase = phase]
    BY DEF Claim, Become, TypeOK
  <2> QED
    BY <2>1 DEF NoHandler
<1>3. RowInv'
  BY <1>1 DEF Claimed, RowInv, Over
<1>4. \A g \in Claims : ~Live(g)
  BY <1>1 DEF AloneInv, Alive, Fit, Claimed
<1>5. \A g \in Claims \ {f} : ~Live(g)'
  BY <1>1, <1>4 DEF Live
<1>6. Fit(f)'
  BY <1>1, <1>2 DEF Fit, Claimed
<1>7. Works(f)'
  BY <1>2, FreeWorks DEF Frees, Free
<1>8. job.state # "done"
  BY <1>1 DEF AloneInv, Claimed, Over
<1> QED
  BY <1>1, <1>3, <1>5, <1>6, <1>7, <1>8 DEF AloneInv, Alive

(* What happens to the row behind the back of a handler: at most the end   *)
(* of a lease it needs no longer.                                          *)
RowHolds ==
    /\ \/ row' = row
       \/ row' = [row EXCEPT !.lease = 1] /\ Over(row)

LEMMA OutsideHoldsRow ==
  ASSUME OneAtATime, TypeOK, AloneInv, Outside, NEW f \in Alive
  PROVE  RowHolds
<1>1. Ledger!TypeOK /\ job.observed \in {0} \cup Claims
  BY DEF TypeOK, Job
<1>2. Live(f) /\ Fit(f) /\ f \in Claims
  BY DEF AloneInv, Alive
<1>3. CASE UNCHANGED run
  BY <1>3 DEF RowHolds, row
<1>4. CASE LeaseExpires
  <2>1. row' = [row EXCEPT !.lease = 1]
    BY <1>1, <1>4, LeaseRunsOut DEF LeaseExpires
  <2>2. Over(row)
    BY <1>2, <1>4 DEF LeaseExpires, Fit
  <2> QED
    BY <2>1, <2>2 DEF RowHolds
<1>5. ~Stall
  BY DEF OneAtATime, Stall, Fault
<1>6. CASE ClaimNothing \/ ClaimOthers
  <2>1. ReconciledTo(row')
    BY <1>1, <1>6, Reconciles DEF ClaimNothing, ClaimOthers, Ledger!ClaimFindsNothing
  <2>2. Over(row) \/ ~(row.lease < 2)
    BY <1>2 DEF Fit
  <2> QED
    BY <2>1, <2>2 DEF ReconciledTo, RowHolds
<1> QED
  BY <1>3, <1>4, <1>5, <1>6 DEF Outside, RenewalFails, Submission, PassModelGate,
     SubmissionEnds, PartnerReleaseFails, Crash, Ledger!MarkRunExecutionInvoked,
     Commits, Throws, ledger

(* What happens to a handler itself.                                       *)
HandlerHolds(f) ==
    LET h == handler[f]
        n == handler'[f]
    IN  /\ n.pc = h.pc /\ n.mark = h.mark
        /\ n.usable = h.usable /\ n.offered = h.offered
        /\ n.renewing = h.renewing \/ Over(row)

LEMMA OutsideHoldsHandler ==
  ASSUME OneAtATime, TypeOK, AloneInv, Outside, NEW f \in Claims, Live(f)'
  PROVE  Live(f) /\ HandlerHolds(f)
<1>1. handler[f] \in Handler
  BY DEF TypeOK
<1>2. CASE handler'[f] = handler[f]
  BY <1>2 DEF HandlerHolds, Live
<1>3. CASE RenewalFails(f)
  <2>1. handler'[f] = [handler[f] EXCEPT !.renewing = FALSE] /\ Live(f)
    BY <1>3 DEF RenewalFails, TypeOK
  <2>2. ~Ledger!OwnsLease(Turn, f) /\ Fit(f)
    BY <1>3, <2>1 DEF RenewalFails, OneAtATime, Fault, AloneInv, Alive
  <2>3. Over(row)
    BY <2>2 DEF Ledger!OwnsLease, Ledger!Fenced, Ledger!NoLease, Fit, Over, row
  <2> QED
    BY <1>1, <2>1, <2>3 DEF HandlerHolds, Handler
<1>4. CASE Crash
  <2>1. \/ handler'[f] = handler[f]
        \/ handler'[f] = [handler[f] EXCEPT !.pc = "gone"]
    BY <1>4 DEF Crash, TypeOK
  <2>2. handler'[f] # [handler[f] EXCEPT !.pc = "gone"]
    BY <1>1 DEF Live, Handler
  <2> QED
    BY <1>2, <2>1, <2>2
<1>5. ASSUME NEW g \in Claims \ {f}, RenewalFails(g)
      PROVE  handler'[f] = handler[f]
  BY <1>5 DEF RenewalFails, TypeOK
<1> QED
  BY <1>2, <1>3, <1>4, <1>5 DEF Outside, Submission, PassModelGate, SubmissionEnds,
     LeaseExpires, Stall, ClaimNothing, ClaimOthers, PartnerReleaseFails

(* What happens to its execution.                                          *)
LEMMA OutsideHoldsExecution ==
  ASSUME TypeOK, Outside, NEW f \in Claims, Ledger!HasExecution(Turn, f)
  PROVE  /\ Ledger!HasExecution(Turn, f)'
         /\ exec'[Turn][f].outcome = exec[Turn][f].outcome
         /\ exec[Turn][f].model \in {"ready", "invoked"} =>
               exec'[Turn][f].model \in {"ready", "invoked"}
<1>1. Ledger!TypeOK /\ job.observed \in {0} \cup Claims
  BY DEF TypeOK, Job
<1>2. exec[Turn][f] \in Ledger!Attempted
  BY <1>1, ExecutionOfClaim
<1>3. CASE UNCHANGED exec
  BY <1>3 DEF Ledger!HasExecution
<1>4. CASE Ledger!MarkRunExecutionInvoked(Turn, job.observed)
  <2>1. \/ exec'[Turn][f] = [exec[Turn][f] EXCEPT !.model = "invoked"]
        \/ exec'[Turn][f] = exec[Turn][f]
    BY <1>1, <1>4, InvokesExecution
  <2>2. CASE exec'[Turn][f] = [exec[Turn][f] EXCEPT !.model = "invoked"]
    <3>1. /\ exec'[Turn][f].model = "invoked"
          /\ exec'[Turn][f].outcome = exec[Turn][f].outcome
      BY <1>2, <2>2 DEF Ledger!Attempted
    <3> QED
      BY <3>1 DEF Ledger!HasExecution, Ledger!NoExecution
  <2> QED
    BY <2>1, <2>2 DEF Ledger!HasExecution
<1> QED
  BY <1>3, <1>4 DEF Outside, RenewalFails, Submission, PassModelGate,
     SubmissionEnds, LeaseExpires, Stall, ClaimNothing, ClaimOthers,
     PartnerReleaseFails, Crash, Ledger!ClaimFindsNothing, Commits, Throws, ledger

LEMMA OutsideKeepsAlone ==
  ASSUME OneAtATime, TypeOK, RowInv, AloneInv, Outside
  PROVE  RowInv' /\ AloneInv'
<1>1. row \in Ledger!Row
  BY RowTyped DEF TypeOK
<1>2. RowInv' /\ (row.status = "settled" => row'.status = "settled")
  <2>1. CASE row' = row
    BY <2>1 DEF RowInv
  <2>2. CASE row' = [row EXCEPT !.lease = 1]
    <3>1. row'.status = row.status /\ row'.delivery = row.delivery
      BY <1>1, <2>2 DEF Ledger!Row
    <3> QED
      BY <3>1 DEF RowInv
  <2>3. CASE ReconciledTo(row') /\ row' # row
    <3>1. PICK s \in BackTo :
             /\ row' = [row EXCEPT !.status = s, !.lease = 0]
             /\ row.status = "response_ready" =>
                   s \in {"response_ready", "recovery_required"}
      BY <2>3 DEF ReconciledTo
    <3>2. /\ row'.status # "settled"
          /\ row.status = "response_ready" =>
                row'.status \in {"response_ready", "recovery_required"}
          /\ row'.delivery = row.delivery
          /\ ~Over(row)
      BY <1>1, <2>3, <3>1 DEF Ledger!Row, BackTo, ReconciledTo
    <3> QED
      BY <3>2 DEF RowInv, Over
  <2> QED
    BY <2>1, <2>2, <2>3, OutsideRow
<1>3. UNCHANGED <<job, posts>>
  BY DEF Outside, RenewalFails, Submission, PassModelGate, SubmissionEnds,
     LeaseExpires, Stall, ClaimNothing, ClaimOthers, PartnerReleaseFails, Crash
<1>4. ASSUME NEW f \in Claims, Live(f)'
      PROVE  Fit(f)' /\ Works(f)'
  <2>1. Live(f) /\ HandlerHolds(f)
    BY <1>4, OutsideHoldsHandler
  <2>2. Fit(f) /\ Works(f)
    BY <2>1 DEF AloneInv, Alive
  <2>3. RowHolds
    BY <2>1, OutsideHoldsRow DEF Alive
  <2>4. /\ row'.fence = row.fence /\ row'.status = row.status
        /\ row'.delivery = row.delivery /\ row'.attempt = row.attempt
        /\ Over(row) \/ row'.lease = row.lease
    BY <1>1, <2>3 DEF RowHolds, Ledger!Row
  <2>5. Fit(f)'
    BY <2>1, <2>2, <2>4 DEF Fit, HandlerHolds, Over
  <2>6. Works(f)'
    BY <2>1, <2>2, <2>4, OutsideHoldsExecution DEF Works, HandlerHolds, Asking, Unsettled
  <2> QED
    BY <2>5, <2>6
<1> QED
  BY <1>2, <1>3, <1>4 DEF AloneInv, Alive

LEMMA TurnAlone ==
  ASSUME OneAtATime
  PROVE  Spec => [](TypeInv /\ FinalsInv /\ RowInv /\ AloneInv)
<1>1. Init => RowInv /\ AloneInv
  <2>1. SUFFICES ASSUME Init
                 PROVE  RowInv /\ AloneInv
    OBVIOUS
  <2>2. row.status = "admitted" /\ row.delivery = "not_ready"
    BY <2>1 DEF Init, row, Turn, Ledger!NewRow
  <2>3. \A f \in Claims : ~Live(f)
    BY <2>1 DEF Init, NoHandler, Live
  <2>4. posts = {} /\ job.state = "pending"
    BY <2>1 DEF Init, NewJob
  <2> QED
    BY <2>2, <2>3, <2>4 DEF RowInv, AloneInv, Alive
<1>2. TypeInv /\ FinalsInv /\ RowInv /\ AloneInv /\ [Next]_vars =>
        (RowInv /\ AloneInv)'
  <2>1. SUFFICES ASSUME TypeInv, FinalsInv, RowInv, AloneInv, [Next]_vars
                 PROVE  RowInv' /\ AloneInv'
    OBVIOUS
  <2>2. TypeOK
    BY <2>1 DEF TypeInv
  <2>3. ASSUME NEW f \in Claims, Claim(f)
        PROVE  RowInv' /\ AloneInv'
    BY <2>1, <2>2, <2>3, ClaimKeepsAlone
  <2>4. ASSUME NEW f \in Claims, Handle(f)
        PROVE  RowInv' /\ AloneInv'
    BY <2>1, <2>2, <2>4, HandleKeepsAlone
  <2>5. CASE Outside
    BY <2>1, <2>2, <2>5, OutsideKeepsAlone
  <2>6. CASE UNCHANGED vars
    <3>1. row' = row /\ handler' = handler /\ posts' = posts /\ job' = job
          /\ exec' = exec
      BY <2>6 DEF vars, row
    <3>2. \A f \in Claims : (Live(f)' => Live(f)) /\ (Works(f) => Works(f)')
                            /\ (Fit(f) => Fit(f)')
      BY <3>1 DEF Live, Works, Fit, Ledger!HasExecution, Over
    <3> QED
      BY <2>1, <3>1, <3>2 DEF RowInv, AloneInv, Alive
  <2> QED
    BY <2>1, <2>3, <2>4, <2>5, <2>6 DEF Next, Outside
<1> QED
  BY <1>1, <1>2, TurnInvariant, PTL DEF Spec

(* While no handler outlives its lease or its drain, Slack shows one final *)
(* of a turn at most: it is not answered twice, however often it is        *)
(* claimed again and whatever fails or loses its answer on the way.        *)
THEOREM OneFinal ==
  ASSUME OneAtATime
  PROVE  Spec => []AtMostOneFinal
<1>1. TypeInv /\ FinalsInv /\ RowInv /\ AloneInv => AtMostOneFinal
  BY DEF FinalsInv, UniqueInv, AloneInv, AtMostOneFinal
<1> QED
  BY <1>1, TurnAlone, PTL

(* Then a row that says delivered names the attempt whose message Slack    *)
(* shows, with the approved text, and one that says nothing went out, or   *)
(* that Slack rejected it, is right.                                       *)
THEOREM TrueVerdict ==
  ASSUME OneAtATime
  PROVE  Spec => []VerdictIsTrue
<1>1. TypeInv /\ FinalsInv /\ RowInv /\ AloneInv => VerdictIsTrue
  <2>1. SUFFICES ASSUME FinalsInv, AloneInv
                 PROVE  NothingIsShown /\ DeliveredIsShown
    BY DEF VerdictIsTrue
  <2>2. NothingIsShown
    BY <2>1 DEF FinalsInv, PostsInv, NothingIsShown
  <2>3. DeliveredIsShown
    BY <2>1 DEF FinalsInv, AloneInv, PostsInv, ShownInv, DeliveredIsShown
  <2> QED
    BY <2>2, <2>3
<1> QED
  BY <1>1, TurnAlone, PTL

(* Then no job is marked done, which keeps every later drain from it,      *)
(* before its run is settled.                                              *)
THEOREM SettledWhenDone ==
  ASSUME OneAtATime
  PROVE  Spec => []DoneJobIsSettled
<1>1. TypeInv /\ FinalsInv /\ RowInv /\ AloneInv => DoneJobIsSettled
  BY DEF AloneInv, DoneJobIsSettled
<1> QED
  BY <1>1, TurnAlone, PTL

(* Then lifecycle.ts keeps its word: no final is sent that the ledger has  *)
(* no attempt of.  It takes a replaced handler, whose failure notice goes  *)
(* out after a refused write, to break it (run "unrecorded").              *)
THEOREM NothingUnrecorded ==
  ASSUME OneAtATime
  PROVE  Spec => []NoUnrecordedFinal
<1>1. TypeInv /\ FinalsInv /\ RowInv /\ AloneInv => NoUnrecordedFinal
  BY DEF AloneInv, NoUnrecordedFinal
<1> QED
  BY <1>1, TurnAlone, PTL

(* Then every final is announced: the row says that the sender's own       *)
(* attempt is pending before Slack may see the message.                    *)
THEOREM AnnouncedFinals ==
  ASSUME OneAtATime
  PROVE  Spec => FinalsAreAnnounced
<1> DEFINE Announced == \A p \in posts' \ posts :
                           /\ p.offered
                           /\ row.delivery = "pending"
                           /\ row.attempt = p.by
<1>1. ASSUME AloneInv, Next
      PROVE  Announced
  <2>1. ASSUME NEW f \in Claims, Handle(f)
        PROVE  Announced
    <3>1. Works(f)
      BY <1>1, <2>1, HandlesOnlyWhenAlive DEF AloneInv, Alive
    <3>2. handler[f].pc \in Offering =>
             /\ Message(f).offered /\ Message(f).by = f
             /\ row.delivery = "pending" /\ row.attempt = f
      BY <3>1 DEF Works, Message
    <3> QED
      BY <2>1, <3>2, PostsGrow
  <2>2. posts' = posts => Announced
    OBVIOUS
  <2> QED
    BY <1>1, <2>1, <2>2 DEF Next, Claim, RenewalFails, Submission, PassModelGate,
       SubmissionEnds, LeaseExpires, Stall, ClaimNothing, ClaimOthers,
       PartnerReleaseFails, Crash
<1>2. AloneInv /\ [Next]_vars =>
        [\A p \in posts' \ posts :
            p.offered /\ row.delivery = "pending" /\ row.attempt = p.by]_vars
  BY <1>1
<1> QED
  BY <1>2, TurnAlone, PTL DEF Spec, FinalsAreAnnounced

(***************************************************************************)
(* The answer of a submission that was completed                           *)
(***************************************************************************)

Ended == {"completed", "failed", "early"}
Refusals == {"failed", "early"}

(* What was read of the job and of the submission still holds.             *)
Reading(f) ==
    LET h == handler[f]
    IN  /\ h.pc \in {"identity", "attempt", "prepare", "create", "route",
                     "dispatch"} =>
              /\ h.snapshot.settlement = job.settlement
              /\ h.snapshot.receipt = job.receipt
        /\ h.pc \in {"send", "receipt"} => job.receipt = "none"
        /\ h.pc \in {"send", "receipt", "relay", "read", "checkpoint"} =>
              job.settlement = "none"
        /\ h.pc \in {"checkpoint", "result"} => h.result = flue /\ flue \in Ended

JobInv == job.settlement # "none" => job.settlement = flue /\ flue \in Ended

(* No failure notice, written or approved or shown, before the submission  *)
(* was refused.                                                            *)
NoticesInv ==
    flue \notin Refusals =>
        /\ \A f \in Claims : handler[f].text # "apology"
        /\ row.response # <<>> => row.response[1] # "apology"
        /\ \A p \in posts : p.text # "apology"

AnswerInv == JobInv /\ NoticesInv /\ \A f \in Alive : Reading(f)

LEMMA HandleKeepsJob ==
  ASSUME TypeOK, NEW f \in Claims, Handle(f), ~RecordReceipt(f), ~RecordSettlement(f)
  PROVE  /\ job'.settlement = job.settlement
         /\ job'.receipt = job.receipt
<1>1. job \in Job
  BY DEF TypeOK
<1>2. \A mark : /\ JobMarked(mark).settlement = job.settlement
                /\ JobMarked(mark).receipt = job.receipt
  BY <1>1 DEF JobMarked, Job
<1>3. CASE job' = job
  BY <1>3
<1>4. CASE RecordAttempt(f)
  BY <1>1, <1>4 DEF RecordAttempt, Job
<1>5. CASE PrepareDispatch(f)
  BY <1>1, <1>5 DEF PrepareDispatch, Job
<1>6. CASE MarkDelivered(f) \/ PersistedDelivered(f) \/ Mark(f)
  BY <1>2, <1>6 DEF MarkDelivered, PersistedDelivered, Mark
<1> QED
  BY <1>3, <1>4, <1>5, <1>6
     DEF Handle, Prepare, AskAgent, Deliver, DeliverPersisted,
         LoadJob, ResolveIdentity, PrepareInput, CreateExecution,
         RecordRoute, SettleReaction, Dispatch, PrepareRelay, Read,
         SettleResult, Retry, ChooseDelivery, IntendStream, RecordResponse,
         StartDelivery, CallSlack, StreamStarted, CloseStream, MarkFinalizing,
         StopStream, StreamDelivered, PostAccepted, PostDelivered, MarkUnknown,
         FinalizeDelivery, FinalizeRejected, FallBack, FinalizeLost,
         MarkViewFinalized, ReadPersisted, AdoptDelivery, StartPersisted,
         SendPersisted, ClosePersisted, FinalizePersisted, PersistedFinalized,
         PersistedRejected, PersistedLost, Abandon, Classify, Release

LEMMA HandleKeepsFlue ==
  ASSUME NEW f \in Claims, Handle(f)
  PROVE  \/ flue' = flue
         \/ Dispatch(f) /\ flue = "none" /\ flue' = "queued"
BY DEF Handle, Prepare, AskAgent, Deliver, DeliverPersisted,
       LoadJob, ResolveIdentity, RecordAttempt, PrepareInput, CreateExecution,
       RecordRoute, SettleReaction, PrepareDispatch, Dispatch, RecordReceipt,
       PrepareRelay, Read, RecordSettlement, SettleResult, Retry,
       ChooseDelivery, IntendStream, RecordResponse, StartDelivery, CallSlack,
       StreamStarted, CloseStream, MarkFinalizing, StopStream, StreamDelivered,
       PostAccepted, PostDelivered, MarkUnknown, FinalizeDelivery,
       FinalizeRejected, FallBack, FinalizeLost, MarkDelivered,
       MarkViewFinalized, ReadPersisted, AdoptDelivery, StartPersisted,
       SendPersisted, ClosePersisted, FinalizePersisted, PersistedDelivered,
       PersistedFinalized, PersistedRejected, PersistedLost, Abandon,
       Classify, Mark, Release

(* From the reading of the job to the checkpoint of its settlement.        *)
LEMMA ReadingGoesOn ==
  ASSUME "sandbox" \notin FaultKinds, TypeOK, JobInv,
         NEW f \in Claims, Handle(f), Reading(f)
  PROVE  Reading(f)' /\ JobInv'
<1>1. handler[f] \in Handler /\ job \in Job /\ handler[f].snapshot \in Job
  BY DEF TypeOK, Handler
<1>2. ASSUME handler'[f].pc \notin Querying
      PROVE  Reading(f)'
  BY <1>2 DEF Reading, Querying
<1>3. flue \in Ended => flue' = flue
  BY HandleKeepsFlue DEF Ended
<1>4. CASE RecordReceipt(f)
  <2>1. /\ job' = [job EXCEPT !.receipt = handler[f].snapshot.receipt]
        /\ handler'[f].pc = "relay"
        /\ job.settlement = "none"
        /\ flue' = flue
    BY <1>4, GoesPc DEF RecordReceipt, At, Reading
  <2>2. job'.settlement = "none"
    BY <1>1, <2>1 DEF Job
  <2> QED
    BY <2>1, <2>2 DEF Reading, JobInv
<1>5. CASE RecordSettlement(f)
  <2>1. /\ job' = [job EXCEPT !.settlement = handler[f].result]
        /\ handler'[f].pc = "result" /\ handler'[f].result = handler[f].result
        /\ handler[f].result = flue /\ flue \in Ended /\ flue' = flue
    BY <1>5, GoesTo DEF GoneTo, RecordSettlement, At, Reading
  <2>2. job'.settlement = flue
    BY <1>1, <2>1 DEF Job
  <2> QED
    BY <2>1, <2>2 DEF Reading, JobInv
<1>6. CASE ~RecordReceipt(f) /\ ~RecordSettlement(f)
  <2>1. /\ job'.settlement = job.settlement
        /\ job'.receipt = job.receipt
    BY <1>6, HandleKeepsJob
  <2>2. JobInv'
    BY <1>3, <2>1 DEF JobInv
  <2>3. CASE LoadJob(f)
    <3>1. \/ Become(f, [handler[f] EXCEPT !.pc = "identity", !.snapshot = job])
          \/ Conclude(f, "none", "recover")
      BY <2>3 DEF LoadJob
    <3>2. CASE Become(f, [handler[f] EXCEPT !.pc = "identity", !.snapshot = job])
      <4>1. handler'[f] = [handler[f] EXCEPT !.pc = "identity", !.snapshot = job]
        BY <3>2, Becomes
      <4>2. handler'[f].pc = "identity" /\ handler'[f].snapshot = job
        BY <1>1, <4>1 DEF Handler
      <4> QED
        BY <2>1, <2>2, <4>2 DEF Reading
    <3>3. CASE handler'[f].pc = "mark"
      BY <2>2, <3>3 DEF Reading
    <3> QED
      BY <3>1, <3>2, <3>3, ConcludesPc
  <2>4. CASE \/ ResolveIdentity(f) \/ RecordAttempt(f) \/ PrepareInput(f)
             \/ CreateExecution(f) \/ RecordRoute(f)
    <3>1. \/ handler'[f].pc = "mark"
          \/ /\ handler'[f].pc \in {"attempt", "persisted", "prepare", "create",
                                    "classify", "route", "react", "dispatch"}
             /\ handler'[f].snapshot = handler[f].snapshot
      BY <2>4, GoesTo, ConcludesPc DEF GoneTo, ResolveIdentity, RecordAttempt,
         PrepareInput, CreateExecution, RecordRoute
    <3>2. handler[f].pc \in {"identity", "attempt", "prepare", "create", "route"}
      BY <2>4 DEF At, ResolveIdentity, RecordAttempt, PrepareInput,
         CreateExecution, RecordRoute
    <3> QED
      BY <2>1, <2>2, <3>1, <3>2 DEF Reading
  <2>5. CASE PrepareDispatch(f)
    <3>1. /\ handler[f].snapshot.settlement = job.settlement
          /\ handler[f].snapshot.receipt = job.receipt
          /\ flue' = flue
      BY <2>5 DEF PrepareDispatch, At, Reading
    <3>2. \/ /\ job.settlement # "none"
             /\ Become(f, [handler[f] EXCEPT !.pc = "result",
                                             !.result = job.settlement])
          \/ job.settlement = "none" /\ job.receipt = "none" /\ Goto(f, "send")
          \/ job.settlement = "none" /\ Goto(f, "relay")
      BY <2>5, <3>1 DEF PrepareDispatch, Fault
    <3>3. \/ /\ job.settlement # "none"
             /\ handler'[f].pc = "result" /\ handler'[f].result = job.settlement
          \/ job.settlement = "none" /\ job.receipt = "none" /\ handler'[f].pc = "send"
          \/ job.settlement = "none" /\ handler'[f].pc = "relay"
      <4>1. CASE Become(f, [handler[f] EXCEPT !.pc = "result",
                                              !.result = job.settlement])
        <5>1. handler'[f] = [handler[f] EXCEPT !.pc = "result",
                                               !.result = job.settlement]
          BY <4>1, Becomes
        <5>2. /\ handler'[f].pc = "result"
              /\ handler'[f].result = job.settlement
          BY <1>1, <5>1 DEF Handler
        <5>3. Goto(f, "send") => handler'[f].pc = "send"
          BY GoesPc
        <5>4. Goto(f, "relay") => handler'[f].pc = "relay"
          BY GoesPc
        <5> QED
          BY <3>2, <5>2, <5>3, <5>4
      <4> QED
        BY <3>2, <4>1, GoesPc
    <3> QED
      BY <2>1, <2>2, <3>1, <3>3 DEF Reading, JobInv
  <2>6. CASE Dispatch(f)
    <3>1. handler'[f].pc \in {"receipt", "retry"}
      BY <2>6, BecomesDispatched, GoesPc DEF Dispatch, Base
    <3>2. job.receipt = "none" /\ job.settlement = "none"
      BY <2>6 DEF Dispatch, At, Reading
    <3> QED
      BY <2>1, <2>2, <3>1, <3>2 DEF Reading
  <2>7. CASE PrepareRelay(f)
    <3>1. handler'[f].pc \in {"read", "retry"} /\ job.settlement = "none"
      BY <2>7, GoesPc DEF PrepareRelay, At, Reading
    <3> QED
      BY <2>1, <2>2, <3>1 DEF Reading
  <2>8. CASE Read(f)
    <3>1. job.settlement = "none" /\ flue' = flue
      BY <2>8 DEF Read, At, Reading
    <3>2. CASE /\ flue \in Ended
               /\ Become(f, [handler[f] EXCEPT !.pc = "checkpoint", !.result = flue])
      <4>1. handler'[f] = [handler[f] EXCEPT !.pc = "checkpoint", !.result = flue]
        BY <3>2, Becomes
      <4>2. handler'[f].pc = "checkpoint" /\ handler'[f].result = flue
        BY <1>1, <4>1 DEF Handler
      <4> QED
        BY <2>1, <2>2, <3>1, <3>2, <4>2 DEF Reading
    <3>3. CASE Goto(f, "retry")
      <4>1. handler'[f].pc = "retry"
        BY <3>3, GoesPc
      <4> QED
        BY <2>2, <4>1 DEF Reading
    <3> QED
      BY <2>8, <3>2, <3>3 DEF Read, Ended
  <2>9. CASE handler'[f].pc \notin Querying
    BY <1>2, <2>2, <2>9
  <2> QED
    BY <1>6, <2>3, <2>4, <2>5, <2>6, <2>7, <2>8, <2>9, OnlyQueriesGoOn
<1> QED
  BY <1>4, <1>5, <1>6

(* Where the text of a handler and the row's response come from.           *)
Answered(f) ==
    \/ handler'[f].text = handler[f].text
    \/ SettleResult(f) /\ handler[f].result = "completed" /\ handler'[f].text = "answer"
    \/ SettleResult(f) /\ handler[f].result # "completed"
    \/ row.response # <<>> /\ handler'[f].text = row.response[1]

LEMMA AdvancesText ==
  ASSUME TypeOK, NEW f \in Claims, Streaming(f)
  PROVE  handler'[f].text = handler[f].text
<1>1. \E from, to, then, stale :
         to \in Streams /\ AdvanceOr(f, from, to, then, stale)
  BY DEF Streaming, IntendStream, StreamStarted, CloseStream,
     MarkFinalizing, StreamDelivered, PostDelivered, Advance, Streams
<1> QED
  BY <1>1, Advances DEF Carries

LEMMA GoesText ==
  ASSUME TypeOK, NEW f \in Claims, NEW pc, Goto(f, pc)
  PROVE  handler'[f].text = handler[f].text
BY GoesTo DEF GoneTo

LEMMA ConcludesText ==
  ASSUME TypeOK, NEW f \in Claims, NEW mark, NEW outcome, Conclude(f, mark, outcome)
  PROVE  handler'[f].text = handler[f].text
BY ConcludesAt DEF GoneTo

LEMMA HandleAnswers ==
  ASSUME TypeOK, NEW f \in Claims, Handle(f), ~Silenced(f)
  PROVE  Answered(f)
<1> USE GoesText, ConcludesText DEF Answered
<1>1. LoadJob(f) \/ ResolveIdentity(f) \/ RecordAttempt(f) => Answered(f)
  BY BecomesLoaded DEF LoadJob, ResolveIdentity, RecordAttempt
<1>2. PrepareInput(f) \/ CreateExecution(f) \/ RecordRoute(f) => Answered(f)
  BY DEF PrepareInput, CreateExecution, RecordRoute
<1>3. SettleReaction(f) \/ FallBack(f) => Answered(f)
  BY BecomesRendered DEF SettleReaction, FallBack
<1>4. PrepareDispatch(f) \/ RecordReceipt(f) \/ RecordSettlement(f) => Answered(f)
  BY BecomesRead DEF PrepareDispatch, RecordReceipt, RecordSettlement
<1>5. Dispatch(f) => Answered(f)
  BY BecomesDispatched DEF Dispatch
<1>6. PrepareRelay(f) \/ Retry(f) \/ MarkUnknown(f) \/ MarkDelivered(f)
      \/ MarkViewFinalized(f) => Answered(f)
  BY DEF PrepareRelay, Retry, MarkUnknown, MarkDelivered, MarkViewFinalized
<1>7. Read(f) => Answered(f)
  BY BecomesRead DEF Read
<1>8. SettleResult(f) => Answered(f)
  <2>1. SUFFICES ASSUME SettleResult(f), handler[f].result = "completed"
                 PROVE  Answered(f)
    BY DEF Answered
  <2>2. \/ Become(f, [handler[f] EXCEPT !.pc = "final", !.text = "answer"])
        \/ Goto(f, "classify")
    BY <2>1 DEF SettleResult, Silenced
  <2>3. CASE Become(f, [handler[f] EXCEPT !.pc = "final", !.text = "answer"])
    <3>1. handler'[f] = [handler[f] EXCEPT !.pc = "final", !.text = "answer"]
      BY <2>3, Becomes
    <3>2. handler'[f].text = "answer"
      BY <3>1, HandlerTyped DEF Handler
    <3> QED
      BY <2>1, <3>2 DEF Answered
  <2> QED
    BY <2>2, <2>3
<1>9. ChooseDelivery(f) => Answered(f)
  BY BecomesChosen DEF ChooseDelivery
<1>10. PostAccepted(f) => Answered(f)
  BY BecomesSeeing DEF PostAccepted
<1>11. RecordResponse(f) \/ StartDelivery(f) \/ StartPersisted(f) => Answered(f)
  BY BecomesOffered DEF RecordResponse, StartDelivery, StartPersisted
<1>12. CallSlack(f) \/ StopStream(f) \/ SendPersisted(f) => Answered(f)
  BY DEF CallSlack, StopStream, SendPersisted
<1>13. FinalizeDelivery(f) \/ FinalizeRejected(f) \/ FinalizeLost(f) => Answered(f)
  BY DEF FinalizeDelivery, FinalizeRejected, FinalizeLost
<1>14. AdoptDelivery(f) \/ FinalizePersisted(f) \/ PersistedRejected(f)
       \/ PersistedLost(f) => Answered(f)
  BY DEF AdoptDelivery, FinalizePersisted, PersistedRejected, PersistedLost
<1>15. ReadPersisted(f) => Answered(f)
  <2>1. SUFFICES ASSUME ReadPersisted(f)
                 PROVE  Answered(f)
    OBVIOUS
  <2>2. CASE \E mark \in {"error", "recovery"} : Conclude(f, mark, "recover")
    BY <2>2
  <2>3. CASE /\ row.response # <<>>
             /\ \E pc : Become(f, [handler[f] EXCEPT !.pc = pc,
                              !.text = row.response[1], !.render = row.response[2]])
    <3>1. PICK pc : handler'[f] =
             [handler[f] EXCEPT !.pc = pc, !.text = row.response[1],
                                !.render = row.response[2]]
      BY <2>3, Becomes
    <3>2. handler'[f].text = row.response[1]
      BY <3>1, HandlerTyped DEF Handler
    <3> QED
      BY <2>3, <3>2 DEF Answered
  <2> QED
    BY <2>1, <2>2, <2>3 DEF ReadPersisted, Ledger!NoResponse
<1>16. ClosePersisted(f) \/ PersistedDelivered(f) \/ PersistedFinalized(f) => Answered(f)
  BY DEF ClosePersisted, PersistedDelivered, PersistedFinalized
<1>17. Abandon(f) \/ Classify(f) \/ Mark(f) \/ Release(f) => Answered(f)
  BY DEF Abandon, Classify, Mark, Release
<1>18. Streaming(f) => Answered(f)
  BY AdvancesText
<1> HIDE GoesText, ConcludesText DEF Answered
<1>19. Prepare(f) => Answered(f)
  BY <1>1, <1>2, <1>3 DEF Prepare
<1>20. AskAgent(f) => Answered(f)
  BY <1>4, <1>5, <1>6, <1>7, <1>8 DEF AskAgent
<1>21. Deliver(f) => Answered(f)
  BY <1>3, <1>6, <1>9, <1>10, <1>11, <1>12, <1>13, <1>18 DEF Deliver, Streaming
<1>22. DeliverPersisted(f) => Answered(f)
  BY <1>11, <1>12, <1>14, <1>15, <1>16 DEF DeliverPersisted
<1> QED
  BY <1>17, <1>19, <1>20, <1>21, <1>22 DEF Handle

(* A response is recorded with the text of its handler, or withdrawn.      *)
LEMMA HandleKeepsResponses ==
  ASSUME TypeOK, NEW f \in Claims, Handle(f)
  PROVE  row'.response \in {row.response, <<>>,
                            <<handler[f].text, handler[f].render>>}
<1> USE DEF Commits, Throws, ledger
<1> DEFINE said == <<handler[f].text, handler[f].render>>
           Said == row'.response \in {row.response, <<>>, said}
<1>1. row \in Ledger!Row /\ Ledger!TypeOK
  BY RowTyped DEF TypeOK
<1>2. UNCHANGED run => Said
  BY DEF row
<1>3. PrepareInput(f) => Said
  BY <1>1, <1>2, PreparesRow DEF PrepareInput, Ledger!Row
<1>4. CreateExecution(f) => Said
  BY <1>1, <1>2, CreatesRow DEF CreateExecution, Ledger!Row
<1>5. RecordRoute(f) \/ SettleReaction(f) \/ SettleResult(f) => Said
  BY <1>2 DEF RecordRoute, SettleReaction, SettleResult,
     Ledger!RecordRunExecutionRoute, Ledger!SettleRunExecution
<1>6. RecordResponse(f) => Said
  <2>1. ASSUME Ledger!RecordRunResponse(Turn, f, said)
        PROVE  row'.response = said
    <3>1. said \in Response
      BY HandlerTyped
    <3>2. \/ row' = [row EXCEPT !.response = said, !.status = "response_ready",
                                !.delivery = "not_ready"]
          \/ row' = [row EXCEPT !.response = said, !.delivery = "not_ready",
                                !.attempt = 0]
      BY <1>1, <2>1, <3>1, RecordsResponse
    <3> QED
      BY <1>1, <3>2 DEF Ledger!Row
  <2> QED
    BY <1>2, <2>1 DEF RecordResponse
<1>7. StartDelivery(f) \/ StartPersisted(f) => Said
  BY <1>1, <1>2, StartsDelivery DEF StartDelivery, StartPersisted, Ledger!Row
<1>8. FinalizeDelivery(f) \/ AdoptDelivery(f) \/ FinalizePersisted(f) => Said
  <2>1. SUFFICES ASSUME FinalizeDelivery(f) \/ AdoptDelivery(f) \/ FinalizePersisted(f)
                 PROVE  Said
    OBVIOUS
  <2>2. UNCHANGED <<run, exec>> \/ SettlesFor(f)
    BY <1>1, <2>1, HandlerTyped, DeliversFor
       DEF FinalizeDelivery, AdoptDelivery, FinalizePersisted
  <2>3. SettlesFor(f) => row'.response = row.response
    BY <1>1 DEF SettlesFor, Ledger!Row
  <2> QED
    BY <1>2, <2>2, <2>3
<1>9. FinalizeRejected(f) \/ PersistedRejected(f) => Said
  BY <1>1, <1>2, Fails DEF FinalizeRejected, PersistedRejected, Ledger!Row
<1>10. FinalizeLost(f) \/ PersistedLost(f) => Said
  BY <1>1, <1>2, LosesTrack DEF FinalizeLost, PersistedLost, Ledger!Row
<1>11. Abandon(f) => Said
  BY <1>1, <1>2, GivesUp DEF Abandon, Ledger!Row
<1>12. Release(f) => Said
  <2>1. GivenBack => row'.response = row.response
    BY <1>1 DEF GivenBack, Ledger!Row
  <2>2. Ledger!ReleaseRequeue(Turn, f) \/ Ledger!ReleaseForRecovery(Turn, f)
          => GivenBack
    BY <1>1, Releases
  <2> QED
    BY <1>2, <2>1, <2>2 DEF Release
<1>13. UNCHANGED <<run, exec>> => Said
  BY <1>2
<1> HIDE DEF Said
<1> QED
  <2>1. Said
    BY <1>3, <1>4, <1>5, <1>6, <1>7, <1>8, <1>9, <1>10, <1>11, <1>12, <1>13
       DEF Handle, Prepare, AskAgent, Deliver, DeliverPersisted,
           LoadJob, ResolveIdentity, RecordAttempt, PrepareDispatch, Dispatch,
           RecordReceipt, PrepareRelay, Read, RecordSettlement, Retry,
           ChooseDelivery, IntendStream, CallSlack, StreamStarted, CloseStream,
           MarkFinalizing, StopStream, StreamDelivered, PostAccepted,
           PostDelivered, MarkUnknown, FallBack, MarkDelivered,
           MarkViewFinalized, ReadPersisted, SendPersisted, ClosePersisted,
           PersistedDelivered, PersistedFinalized, Classify, Mark
  <2> QED
    BY <2>1 DEF Said

LEMMA HandleKeepsAnswers ==
  ASSUME "sandbox" \notin FaultKinds, TypeOK, AloneInv, AnswerInv,
         NEW f \in Claims, Handle(f)
  PROVE  AnswerInv'
<1>1. Live(f) /\ Fit(f) /\ Works(f) /\ Reading(f) /\ JobInv
  BY HandlesOnlyWhenAlive DEF AloneInv, AnswerInv, Alive
<1>2. Reading(f)' /\ JobInv'
  BY <1>1, ReadingGoesOn
<1>3. \A g \in Claims \ {f} : handler'[g] = handler[g] /\ ~Live(g)'
  <2>1. \A g \in Claims \ {f} : handler'[g] = handler[g] /\ ~Live(g)
    BY <1>1, HandleMoves DEF AloneInv, Alive, Fit
  <2> QED
    BY <2>1 DEF Live
<1>4. ASSUME flue' \notin Refusals
      PROVE  /\ \A g \in Claims : handler'[g].text # "apology"
             /\ row'.response # <<>> => row'.response[1] # "apology"
             /\ \A p \in posts' : p.text # "apology"
  <2>1. flue \notin Refusals
    BY <1>4, HandleKeepsFlue DEF Refusals
  <2>2. /\ \A g \in Claims : handler[g].text # "apology"
        /\ row.response # <<>> => row.response[1] # "apology"
        /\ \A p \in posts : p.text # "apology"
    BY <2>1 DEF AnswerInv, NoticesInv
  <2>3. handler'[f].text # "apology"
    <3>1. Answered(f)
      BY <1>1, HandleAnswers, NeverSilenced
    <3>2. ~(SettleResult(f) /\ handler[f].result # "completed")
      BY <1>1, <2>1 DEF SettleResult, At, Reading, Ended, Refusals
    <3> QED
      BY <2>2, <3>1, <3>2 DEF Answered
  <2>4. row'.response # <<>> => row'.response[1] # "apology"
    BY <2>2, HandleKeepsResponses
  <2>5. Message(f).text # "apology"
    BY <2>2 DEF Message
  <2> QED
    BY <1>3, <2>2, <2>3, <2>4, <2>5, PostsGrow
<1> QED
  BY <1>2, <1>3, <1>4 DEF AnswerInv, NoticesInv, Alive

LEMMA ClaimKeepsAnswers ==
  ASSUME TypeOK, AloneInv, AnswerInv, NEW f \in Claims, Claim(f)
  PROVE  AnswerInv'
<1>1. /\ Claimed
      /\ UNCHANGED <<job, flue, posts>>
      /\ \A g \in Claims \ {f} : handler'[g] = handler[g]
  BY ClaimsRow DEF Claim, TypeOK, Become
<1>2. handler'[f].pc = "load" /\ handler'[f].text = "answer"
  <2> DEFINE phase == IF row'.status = "response_ready" THEN "delivery" ELSE "execution"
  <2>1. handler'[f] = [NoHandler EXCEPT !.pc = "load", !.phase = phase]
    BY DEF Claim, Become, TypeOK
  <2> QED
    BY <2>1 DEF NoHandler
<1>3. \A g \in Claims \ {f} : ~Live(g)'
  <2>1. \A g \in Claims : ~Live(g)
    BY <1>1 DEF AloneInv, Alive, Fit, Claimed
  <2> QED
    BY <1>1, <2>1 DEF Live
<1>4. JobInv' /\ NoticesInv'
  BY <1>1, <1>2 DEF AnswerInv, JobInv, NoticesInv, Claimed
<1>5. Reading(f)'
  BY <1>2 DEF Reading
<1> QED
  BY <1>3, <1>4, <1>5 DEF AnswerInv, Alive

(* What a handler has read and written nobody else changes.                *)
LEMMA OutsideHoldsReading ==
  ASSUME TypeOK, Outside, NEW f \in Claims
  PROVE  /\ handler'[f].snapshot = handler[f].snapshot
         /\ handler'[f].result = handler[f].result
         /\ handler'[f].text = handler[f].text
<1>1. handler[f] \in Handler
  BY DEF TypeOK
<1>2. \/ handler'[f] = handler[f]
      \/ handler'[f] = [handler[f] EXCEPT !.renewing = FALSE]
      \/ handler'[f] = [handler[f] EXCEPT !.pc = "gone"]
  BY DEF TypeOK, Outside, RenewalFails, Submission, PassModelGate,
     SubmissionEnds, LeaseExpires, Stall, ClaimNothing, ClaimOthers,
     PartnerReleaseFails, Crash
<1> QED
  BY <1>1, <1>2 DEF Handler

LEMMA OutsideKeepsAnswers ==
  ASSUME OneAtATime, TypeOK, AloneInv, AnswerInv, Outside
  PROVE  AnswerInv'
<1>1. UNCHANGED <<job, posts>>
  BY DEF Outside, RenewalFails, Submission, PassModelGate, SubmissionEnds,
     LeaseExpires, Stall, ClaimNothing, ClaimOthers, PartnerReleaseFails, Crash
<1>2. \/ flue' = flue
      \/ flue = "queued" /\ flue' \in {"running", "failed"}
      \/ flue = "running" /\ flue' \in Ended
  BY DEF Ended, Outside, RenewalFails, Submission, PassModelGate, SubmissionEnds,
     LeaseExpires, Stall, ClaimNothing, ClaimOthers, PartnerReleaseFails, Crash
<1>3. /\ flue \in Ended => flue' = flue
      /\ flue \in Refusals => flue' \in Refusals
  BY <1>2 DEF Ended, Refusals
<1>4. JobInv'
  BY <1>1, <1>3 DEF AnswerInv, JobInv
<1>5. row'.response = row.response
  <2>1. row \in Ledger!Row
    BY RowTyped DEF TypeOK
  <2>2. CASE row' = [row EXCEPT !.lease = 1]
    BY <2>1, <2>2 DEF Ledger!Row
  <2>3. CASE ReconciledTo(row') /\ row' # row
    <3>1. PICK s : row' = [row EXCEPT !.status = s, !.lease = 0]
      BY <2>3 DEF ReconciledTo
    <3> QED
      BY <2>1, <3>1 DEF Ledger!Row
  <2> QED
    BY <2>2, <2>3, OutsideRow
<1>6. NoticesInv'
  BY <1>1, <1>3, <1>5, OutsideHoldsReading DEF AnswerInv, NoticesInv
<1>7. ASSUME NEW f \in Claims, Live(f)'
      PROVE  Reading(f)'
  <2>1. Reading(f) /\ handler'[f].pc = handler[f].pc
    BY <1>7, OutsideHoldsHandler DEF AnswerInv, Alive, HandlerHolds
  <2>2. /\ handler'[f].snapshot = handler[f].snapshot
        /\ handler'[f].result = handler[f].result
    BY OutsideHoldsReading
  <2> QED
    BY <1>1, <1>3, <2>1, <2>2 DEF Reading
<1> QED
  BY <1>4, <1>6, <1>7 DEF AnswerInv, Alive

(* While no handler outlives its lease or its drain, and the sandbox of    *)
(* the turn can be prepared, a submission that was completed is not        *)
(* answered with a failure notice: what was read of the job is still true  *)
(* when it is acted on, and an interrupted read keeps the receipt.         *)
THEOREM KeptAnswers ==
  ASSUME OneAtATime, "sandbox" \notin FaultKinds
  PROVE  Spec => []CompletedAnswerIsKept
<1>1. Init => AnswerInv
  <2>1. SUFFICES ASSUME Init
                 PROVE  AnswerInv
    OBVIOUS
  <2>2. job.settlement = "none" /\ posts = {} /\ flue = "none"
    BY <2>1 DEF Init, NewJob
  <2>3. \A f \in Claims : handler[f].pc = "none" /\ handler[f].text = "answer"
    BY <2>1 DEF Init, NoHandler
  <2>4. row.response = <<>>
    BY <2>1 DEF Init, row, Turn, Ledger!NewRow, Ledger!NoResponse
  <2> QED
    BY <2>2, <2>3, <2>4 DEF AnswerInv, JobInv, NoticesInv, Alive, Live
<1>2. TypeInv /\ AloneInv /\ AnswerInv /\ [Next]_vars => AnswerInv'
  <2>1. SUFFICES ASSUME TypeInv, AloneInv, AnswerInv, [Next]_vars
                 PROVE  AnswerInv'
    OBVIOUS
  <2>2. TypeOK
    BY <2>1 DEF TypeInv
  <2>3. ASSUME NEW f \in Claims, Claim(f)
        PROVE  AnswerInv'
    BY <2>1, <2>2, <2>3, ClaimKeepsAnswers
  <2>4. ASSUME NEW f \in Claims, Handle(f)
        PROVE  AnswerInv'
    BY <2>1, <2>2, <2>4, HandleKeepsAnswers
  <2>5. CASE Outside
    BY <2>1, <2>2, <2>5, OutsideKeepsAnswers
  <2>6. CASE UNCHANGED vars
    <3>1. row' = row /\ handler' = handler /\ posts' = posts /\ job' = job
          /\ flue' = flue
      BY <2>6 DEF vars, row
    <3>2. \A f \in Claims : (Live(f)' => Live(f)) /\ (Reading(f) => Reading(f)')
      BY <3>1 DEF Live, Reading
    <3> QED
      BY <2>1, <3>1, <3>2 DEF AnswerInv, JobInv, NoticesInv, Alive
  <2> QED
    BY <2>1, <2>3, <2>4, <2>5, <2>6 DEF Next, Outside
<1>3. AnswerInv => CompletedAnswerIsKept
  BY DEF AnswerInv, NoticesInv, CompletedAnswerIsKept, Refusals
<1> QED
  BY <1>1, <1>2, <1>3, TurnAlone, PTL DEF Spec

(***************************************************************************)
(* The promise                                                             *)
(***************************************************************************)

(* RunPromise, of the turn's own run.                                      *)
Promise == INSTANCE RunPromise
             WITH Runs <- {Turn},
                  phase <- [r \in {Turn} |-> Ledger!PhaseOf(row)],
                  answer <- [r \in {Turn} |-> Ledger!AnswerOf(row)]

(* The actions of RunPromise on an admitted run.                           *)
PromiseMove(p, a, p2, a2) ==
    \/ p2 = p /\ a2 = a
    \/ p = "open" /\ a \in {"none", "refused"} /\ p2 = "open" /\ a2 = "offered"
    \/ a = "offered" /\ p2 = "closed" /\ a2 = "given"
    \/ a = "offered" /\ p2 = p /\ a2 = "refused"
    \/ p \in {"open", "parked"} /\ a = "offered" /\ p2 = "parked" /\ a2 = "lost"
    \/ a = "refused" /\ p2 = p /\ a2 = "none"
    \/ p = "open" /\ p2 = "parked" /\ a2 = a
    \/ p = "open" /\ p2 = "closed" /\ a2 = "none"

Admitted(o) == o.status # "absent"

RowMoves ==
    /\ Admitted(row)'
    /\ PromiseMove(Ledger!PhaseOf(row), Ledger!AnswerOf(row),
                   Ledger!PhaseOf(row)', Ledger!AnswerOf(row)')

(* A step that leaves the status and the delivery alone, and one that      *)
(* gives the run back, or parks it.                                        *)
LEMMA RowStays ==
  ASSUME Admitted(row), row'.status = row.status, row'.delivery = row.delivery
  PROVE  RowMoves
BY DEF RowMoves, PromiseMove, Admitted, Ledger!PhaseOf, Ledger!AnswerOf

LEMMA RowGoesBack ==
  ASSUME Admitted(row), ~Over(row), row'.status \in BackTo,
         row'.delivery = row.delivery
  PROVE  RowMoves
BY DEF RowMoves, PromiseMove, Admitted, Over, BackTo, Ledger!PhaseOf, Ledger!AnswerOf

LEMMA HandleKeepsPromise ==
  ASSUME TypeOK, RowInv, Admitted(row), NEW f \in Claims, Handle(f)
  PROVE  RowMoves
<1> USE DEF Commits, Throws, ledger
<1>1. row \in Ledger!Row /\ Ledger!TypeOK
  BY RowTyped DEF TypeOK
<1>2. ASSUME row' = row
      PROVE  RowMoves
  BY <1>2, RowStays
<1>3. ASSUME UNCHANGED <<run, exec>>
      PROVE  RowMoves
  BY <1>2, <1>3 DEF row
<1>4. CASE PrepareInput(f)
  <2>1. CASE Ledger!PrepareRunInput(Turn)
    <3>1. /\ row'.status = "input_ready"
          /\ \/ /\ row.status \in {"admitted", "queued", "preparing_input"}
                /\ row'.delivery = row.delivery
             \/ /\ row.status = "response_ready" /\ row.delivery = "failed"
                /\ row'.delivery = "not_ready"
      BY <1>1, <2>1, PreparesRow DEF Ledger!Row
    <3> QED
      BY <3>1 DEF RowMoves, PromiseMove, Admitted, Ledger!PhaseOf, Ledger!AnswerOf
  <2> QED
    BY <1>3, <1>4, <2>1 DEF PrepareInput
<1>5. CASE CreateExecution(f)
  <2>1. CASE Ledger!CreateRunExecution(Turn, f)
    <3>1. /\ row.status = "input_ready" /\ row'.status = "executing"
          /\ row'.delivery = row.delivery
      BY <1>1, <2>1, CreatesRow DEF Ledger!Row
    <3> QED
      BY <3>1 DEF RowMoves, PromiseMove, Admitted, Ledger!PhaseOf, Ledger!AnswerOf
  <2> QED
    BY <1>3, <1>5, <2>1 DEF CreateExecution
<1>6. CASE RecordRoute(f) \/ SettleReaction(f) \/ SettleResult(f)
  <2>1. row' = row
    BY <1>6 DEF RecordRoute, SettleReaction, SettleResult, row,
       Ledger!RecordRunExecutionRoute, Ledger!SettleRunExecution
  <2> QED
    BY <1>2, <2>1
<1>7. CASE RecordResponse(f)
  <2>1. <<handler[f].text, handler[f].render>> \in Response
    BY HandlerTyped
  <2>2. CASE Ledger!RecordRunResponse(Turn, f, <<handler[f].text, handler[f].render>>)
    <3>1. \/ /\ row.status \in {"executing", "input_ready"}
             /\ row' = [row EXCEPT !.response = <<handler[f].text, handler[f].render>>,
                                   !.status = "response_ready",
                                   !.delivery = "not_ready"]
          \/ /\ row.delivery = "failed"
             /\ row' = [row EXCEPT !.response = <<handler[f].text, handler[f].render>>,
                                   !.delivery = "not_ready", !.attempt = 0]
      BY <1>1, <2>1, <2>2, RecordsResponse
    <3>2. /\ row'.delivery = "not_ready"
          /\ \/ /\ row'.status = "response_ready"
                /\ row.status \in {"executing", "input_ready"}
             \/ row'.status = row.status /\ row.delivery = "failed"
      BY <1>1, <3>1 DEF Ledger!Row
    <3>3. row.status \in {"executing", "input_ready"} => row.delivery = "not_ready"
      BY <1>1 DEF RowInv, Ledger!Row, Ledger!Deliveries
    <3> QED
      BY <3>2, <3>3 DEF RowMoves, PromiseMove, Admitted, Ledger!PhaseOf, Ledger!AnswerOf
  <2> QED
    BY <1>3, <1>7, <2>2 DEF RecordResponse
<1>8. CASE StartDelivery(f) \/ StartPersisted(f)
  <2>1. CASE Ledger!StartRunDelivery(Turn, f)
    <3>1. /\ row.status = "response_ready" /\ row.delivery \in {"not_ready", "failed"}
          /\ row' = [row EXCEPT !.delivery = "pending", !.attempt = f]
      BY <1>1, <2>1, StartsDelivery
    <3>2. row'.status = "response_ready" /\ row'.delivery = "pending"
      BY <1>1, <3>1 DEF Ledger!Row
    <3> QED
      BY <3>1, <3>2 DEF RowMoves, PromiseMove, Admitted, Ledger!PhaseOf, Ledger!AnswerOf
  <2> QED
    BY <1>3, <1>8, <2>1 DEF StartDelivery, StartPersisted
<1>9. CASE FinalizeDelivery(f) \/ AdoptDelivery(f) \/ FinalizePersisted(f)
  <2>1. UNCHANGED <<run, exec>> \/ SettlesFor(f)
    BY <1>1, <1>9, HandlerTyped, DeliversFor
       DEF FinalizeDelivery, AdoptDelivery, FinalizePersisted
  <2>2. ASSUME SettlesFor(f)
        PROVE  RowMoves
    <3>1. /\ row.delivery = "pending"
          /\ row'.status = "settled" /\ row'.delivery = "delivered"
      BY <1>1, <2>2 DEF SettlesFor, Ledger!Row
    <3> QED
      BY <3>1 DEF RowMoves, PromiseMove, Admitted, Ledger!PhaseOf, Ledger!AnswerOf
  <2> QED
    BY <1>3, <2>1, <2>2
<1>10. CASE FinalizeRejected(f) \/ PersistedRejected(f)
  <2>1. CASE Ledger!FinalizeFailed(Turn, f, f)
    <3>1. /\ row.delivery = "pending"
          /\ row'.status = row.status /\ row'.delivery = "failed"
      BY <1>1, <2>1, Fails DEF Ledger!Row
    <3> QED
      BY <3>1 DEF RowMoves, PromiseMove, Admitted, Ledger!PhaseOf, Ledger!AnswerOf
  <2> QED
    BY <1>3, <1>10, <2>1 DEF FinalizeRejected, PersistedRejected
<1>11. CASE FinalizeLost(f) \/ PersistedLost(f)
  <2>1. CASE Ledger!FinalizeUnknown(Turn, f, f)
    <3>1. /\ row.delivery = "pending"
          /\ row'.status = "recovery_required" /\ row'.delivery = "unknown"
      BY <1>1, <2>1, LosesTrack DEF Ledger!Row
    <3>2. row.status \in {"response_ready", "recovery_required"}
      BY <3>1 DEF RowInv
    <3> QED
      BY <3>1, <3>2 DEF RowMoves, PromiseMove, Admitted, Ledger!PhaseOf, Ledger!AnswerOf
  <2> QED
    BY <1>3, <1>11, <2>1 DEF FinalizeLost, PersistedLost
<1>12. CASE Abandon(f)
  <2>1. CASE Ledger!SettleRunWithoutDelivery(Turn, f, "failed")
    <3>1. /\ row.status \in {"input_ready", "executing", "response_ready"}
          /\ row'.status = "settled" /\ row'.delivery = "not_applicable"
      BY <1>1, <2>1, GivesUp DEF Ledger!Row
    <3> QED
      BY <3>1 DEF RowMoves, PromiseMove, Admitted, Ledger!PhaseOf, Ledger!AnswerOf
  <2> QED
    BY <1>3, <1>12, <2>1 DEF Abandon
<1>13. CASE Release(f)
  <2>1. CASE Ledger!ReleaseRequeue(Turn, f) \/ Ledger!ReleaseForRecovery(Turn, f)
    <3>1. ~Over(row) /\ GivenBack
      BY <1>1, <2>1, Releases
    <3>2. PICK s \in BackTo : row' = [row EXCEPT !.status = s, !.lease = 0]
      BY <3>1 DEF GivenBack
    <3>3. row'.status \in BackTo /\ row'.delivery = row.delivery
      BY <1>1, <3>2 DEF Ledger!Row
    <3> QED
      BY <3>1, <3>3, RowGoesBack
  <2> QED
    BY <1>3, <1>13, <2>1 DEF Release
<1> QED
  BY <1>3, <1>4, <1>5, <1>6, <1>7, <1>8, <1>9, <1>10, <1>11, <1>12, <1>13
     DEF Handle, Prepare, AskAgent, Deliver, DeliverPersisted,
         LoadJob, ResolveIdentity, RecordAttempt, PrepareDispatch, Dispatch,
         RecordReceipt, PrepareRelay, Read, RecordSettlement, Retry,
         ChooseDelivery, IntendStream, CallSlack, StreamStarted, CloseStream,
         MarkFinalizing, StopStream, StreamDelivered, PostAccepted,
         PostDelivered, MarkUnknown, FallBack, MarkDelivered,
         MarkViewFinalized, ReadPersisted, SendPersisted, ClosePersisted,
         PersistedDelivered, PersistedFinalized, Classify, Mark

(* The claims, and what happens behind the back of the handlers.           *)
LEMMA OthersKeepPromise ==
  ASSUME TypeOK, RowInv, Admitted(row),
         (\E f \in Claims : Claim(f)) \/ Outside
  PROVE  RowInv' /\ RowMoves
<1>1. row \in Ledger!Row /\ Ledger!TypeOK
  BY RowTyped DEF TypeOK
<1>2. ASSUME NEW f \in Claims, Claim(f)
      PROVE  RowInv' /\ RowMoves
  <2>1. Claimed
    BY <1>1, <1>2, ClaimsRow DEF Claim
  <2>2. /\ RowInv'
        /\ row'.delivery = row.delivery /\ ~Over(row)
        /\ row'.status \in {"preparing_input", "input_ready", "response_ready"}
    BY <2>1 DEF Claimed, RowInv, Over
  <2> QED
    BY <2>2 DEF RowMoves, PromiseMove, Admitted, Over, Ledger!PhaseOf, Ledger!AnswerOf
<1>3. CASE Outside
  <2>1. CASE row' = row
    BY <2>1, RowStays DEF RowInv
  <2>2. CASE row' = [row EXCEPT !.lease = 1]
    <3>1. row'.status = row.status /\ row'.delivery = row.delivery
      BY <1>1, <2>2 DEF Ledger!Row
    <3> QED
      BY <3>1, RowStays DEF RowInv
  <2>3. CASE ReconciledTo(row') /\ row' # row
    <3>1. PICK s \in BackTo :
             /\ row' = [row EXCEPT !.status = s, !.lease = 0]
             /\ row.status = "response_ready" =>
                   s \in {"response_ready", "recovery_required"}
      BY <2>3 DEF ReconciledTo
    <3>2. /\ row'.status \in BackTo
          /\ row.status = "response_ready" =>
                row'.status \in {"response_ready", "recovery_required"}
          /\ row'.delivery = row.delivery
          /\ ~Over(row)
      BY <1>1, <2>3, <3>1 DEF Ledger!Row, ReconciledTo
    <3>3. RowInv'
      BY <3>2 DEF RowInv, Over, BackTo
    <3> QED
      BY <3>2, <3>3, RowGoesBack
  <2> QED
    BY <1>3, <2>1, <2>2, <2>3, OutsideRow
<1> QED
  BY <1>2, <1>3

LEMMA RowMovesAreKept ==
  ASSUME Admitted(row), RowMoves
  PROVE  [Promise!Next]_(Promise!promiseVars)
<1> DEFINE phase == [r \in {Turn} |-> Ledger!PhaseOf(row)]
           answer == [r \in {Turn} |-> Ledger!AnswerOf(row)]
<1>1. CASE UNCHANGED <<phase, answer>>
  BY <1>1 DEF Promise!promiseVars
<1>2. CASE /\ Ledger!PhaseOf(row) = "open" /\ Ledger!PhaseOf(row)' = "parked"
           /\ Ledger!AnswerOf(row)' = Ledger!AnswerOf(row)
  <2>1. Promise!Park({Turn})
    BY <1>2 DEF Promise!Park
  <2> QED
    BY <2>1 DEF Promise!Next
<1>3. ASSUME ~UNCHANGED <<phase, answer>>,
             ~ (/\ Ledger!PhaseOf(row) = "open" /\ Ledger!PhaseOf(row)' = "parked"
                /\ Ledger!AnswerOf(row)' = Ledger!AnswerOf(row))
      PROVE  Promise!RunStep(Turn)
  <2>1. Ledger!PhaseOf(row) # "absent"
    BY DEF Admitted, Ledger!PhaseOf
  <2> QED
    BY <1>3, <2>1
       DEF RowMoves, PromiseMove, Promise!RunStep, Promise!Offer,
           Promise!Arrives, Promise!Refused, Promise!GetsLost, Promise!Reword,
           Promise!CloseUnanswered, Promise!Becomes
<1> QED
  BY <1>1, <1>2, <1>3 DEF Promise!Next

(* The turn keeps the promise of the ledger to whoever reads its run: no   *)
(* handler, however late it is, brings about that a message is offered     *)
(* while another one may still arrive, or after one was given or lost      *)
(* track of.  The run is admitted when the turn begins.                    *)
THEOREM TurnKeepsPromise ==
    Spec => /\ Ledger!PhaseOf(row) = "open" /\ Ledger!AnswerOf(row) = "none"
            /\ [][Promise!Next]_(Promise!promiseVars)
<1>1. Init => /\ RowInv /\ Admitted(row)
              /\ Ledger!PhaseOf(row) = "open" /\ Ledger!AnswerOf(row) = "none"
  <2>1. SUFFICES ASSUME Init
                 PROVE  /\ RowInv /\ Admitted(row)
                        /\ Ledger!PhaseOf(row) = "open"
                        /\ Ledger!AnswerOf(row) = "none"
    OBVIOUS
  <2>2. row.status = "admitted" /\ row.delivery = "not_ready"
    BY <2>1 DEF Init, row, Turn, Ledger!NewRow
  <2> QED
    BY <2>2 DEF RowInv, Admitted, Ledger!PhaseOf, Ledger!AnswerOf
<1>2. TypeInv /\ FinalsInv /\ RowInv /\ Admitted(row) /\ [Next]_vars =>
        /\ (RowInv /\ Admitted(row))'
        /\ [Promise!Next]_(Promise!promiseVars)
  <2>1. SUFFICES ASSUME TypeInv, RowInv, Admitted(row), [Next]_vars
                 PROVE  RowInv' /\ RowMoves
    BY RowMovesAreKept DEF RowMoves
  <2>2. TypeOK
    BY <2>1 DEF TypeInv
  <2>3. ASSUME NEW f \in Claims, Handle(f)
        PROVE  RowInv' /\ RowMoves
    BY <2>1, <2>2, <2>3, HandleRow, HandleKeepsPromise DEF RowGoesOn
  <2>4. CASE (\E f \in Claims : Claim(f)) \/ Outside
    BY <2>1, <2>2, <2>4, OthersKeepPromise
  <2>5. CASE UNCHANGED vars
    <3>1. row' = row
      BY <2>5 DEF vars, row
    <3> QED
      BY <2>1, <3>1, RowStays DEF RowInv
  <2> QED
    BY <2>1, <2>3, <2>4, <2>5 DEF Next, Outside
<1> QED
  BY <1>1, <1>2, TurnInvariant, PTL DEF Spec
=============================================================================
