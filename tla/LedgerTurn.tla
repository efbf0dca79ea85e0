------------------------------ MODULE LedgerTurn ------------------------------
(***************************************************************************)
(* One Slack turn of the ledger lane, from its admission to its end: the   *)
(* driver that claims its run, the handlers that work on it, the turn job, *)
(* the dispatched agent, the presentation row and what Slack shows.        *)
(*                                                                         *)
(* The ledger is WorkLedger with this run as its only row; a handler is    *)
(* named by the fencing token of its claim.  One process runs the driver;  *)
(* a handler survives its drain when another run of the batch rejects it.  *)
(* Time is relative: a lease is fresh until LeaseExpires.  Streaming as    *)
(* the answer grows and native tasks are off, their default.               *)
(***************************************************************************)
EXTENDS Naturals

CONSTANTS
    Reactions,       \* may the turn be a reaction, which calls no agent?
    Routes,          \* may the model's route carry a credential route?
    Timer,           \* drains are started by a timer, as on Node
    FaultKinds,      \* what may go wrong in this instance
    MaxFaults,       \* bound: faults of one behaviour
    MaxFence,        \* bound: claims
    MaxTurnAttempts,         \* MAX_TURN_ATTEMPTS
    MaxPostDispatchAttempts  \* MAX_POST_DISPATCH_ATTEMPTS

ASSUME ShapeAssumption ==
    Reactions \subseteq BOOLEAN /\ Routes \subseteq BOOLEAN /\ Timer \in BOOLEAN
ASSUME FaultAssumption ==
    /\ FaultKinds \subseteq {"crash", "stall", "orphan", "others", "identity",
                             "slack", "transport", "sandbox"}
    /\ MaxFaults \in Nat
ASSUME BoundAssumption ==
    {MaxFence, MaxTurnAttempts, MaxPostDispatchAttempts} \subseteq Nat \ {0}

VARIABLES
    run, exec,  \* WorkLedger's tables
    job,        \* the turn_jobs row
    view,       \* the slack_run_presentations row
    handler,    \* [Claims -> Handler]
    drain,      \* is a drain due or under way, the claims it waits for
    flue,       \* the submission dispatched under the job's idempotency key
    posts,      \* the final messages Slack shows
    faults      \* faults so far

ledger == <<run, exec>>
vars == <<run, exec, job, view, handler, drain, flue, posts, faults>>

Turn == 1
Claims == 1 .. MaxFence

(* Clock 2: a lease of 3 is fresh, one of 1 has expired.                   *)
Ledger == INSTANCE WorkLedger
            WITH Runs <- {Turn}, OrderingKey <- [r \in {Turn} |-> Turn],
                 Legacy <- {}, Answers <- {"answer", "apology"},
                 Renders <- {"stream", "resume", "post", "reaction"},
                 LeaseDuration <- 1, AdmitInCreationOrder <- TRUE,
                 MaxTime <- 2, now <- 2

row == run[Turn]

-----------------------------------------------------------------------------
(* State                                                                   *)

(* react, authed: the turn's intent, its model's route; observed: the claim *)
(* whose execution the frozen observation names, 0 before the envelope;    *)
(* receipt "repeat": marked deduplicated.                                  *)
Job == [react : BOOLEAN, authed : BOOLEAN,
        state : {"pending", "done", "error", "recovery"}, attempts : Nat,
        observed : {0} \cup Claims, receipt : {"none", "first", "repeat"},
        settlement : {"none", "completed", "failed", "early"}]

NewJob == [react |-> FALSE, authed |-> FALSE, state |-> "pending",
           attempts |-> 0, observed |-> 0, receipt |-> "none",
           settlement |-> "none"]

(* "delivered" is 'artifact_delivered'.                                    *)
Streams == {"absent", "starting", "streaming", "reconciling", "finalizing",
            "delivered", "finalized", "fallback", "unknown"}

(* The pair stands for projection_version: each transition modelled here   *)
(* changes the fence or the stream and none leads back.  The version also  *)
(* counts title intents and progressive eligibility, which are left out.   *)
View == [fence : {0} \cup Claims, stream : Streams]
NewView == [fence |-> 0, stream |-> "absent"]

(* Where a handler stands, "p_" when it delivers a persisted answer.       *)
Points == {"none", "load", "identity", "attempt", "prepare", "create", "route",
           "react", "dispatch", "send", "receipt", "relay", "read",
           "checkpoint", "result", "retry", "final", "intend", "record",
           "offer", "slack", "started", "close", "finalizing", "stop",
           "stopped", "accepted", "posted", "unsure", "verdict", "rejected",
           "fallback", "lost", "delivered", "tidy", "persisted", "adopt",
           "p_offer", "p_slack", "p_close", "p_verdict", "p_delivered",
           "p_tidy", "p_rejected", "p_lost", "abandon", "classify", "mark",
           "release", "gone"}

(* usable, offered: the lifecycle is not silenced, its attempt id is set;  *)
(* snapshot, seen: job and presentation as last read; mark, outcome: what  *)
(* is to be done with the job, and what the driver is told.                *)
Handler == [pc : Points, phase : {"execution", "delivery"}, snapshot : Job,
            seen : View, usable : BOOLEAN, offered : BOOLEAN, renewing : BOOLEAN,
            result : {"none", "completed", "failed", "early", "broken"},
            text : {"answer", "apology"},
            render : {"stream", "resume", "post", "reaction"},
            mark : {"none", "done", "error", "recovery"},
            outcome : {"completed", "requeue", "recover"}]

NoHandler == [pc |-> "none", phase |-> "execution", snapshot |-> NewJob,
              seen |-> NewView, usable |-> TRUE, offered |-> FALSE, renewing |-> TRUE,
              result |-> "none", text |-> "answer", render |-> "stream",
              mark |-> "none", outcome |-> "completed"]

At(f, pc) == handler[f].pc = pc
Live(f) == handler[f].pc \notin {"none", "gone"}

Become(f, h) == handler' = [handler EXCEPT ![f] = h]
Goto(f, pc) == handler' = [handler EXCEPT ![f].pc = pc]

(* The turn is over for the handler: mark the job, then tell the driver.   *)
Conclude(f, mark, outcome) ==
    handler' = [handler EXCEPT ![f].pc = "mark", ![f].mark = mark,
                               ![f].outcome = outcome]

Fault(kind) ==
    /\ kind \in FaultKinds
    /\ faults < MaxFaults
    /\ faults' = faults + 1

NoFault == UNCHANGED faults

(* A ledger call: it commits, or it throws and changes nothing.            *)
Commits(A) == A
Refused(A) == ~ENABLED A
Throws(A) == Refused(A) /\ UNCHANGED ledger

Attempt(f) == handler[f].snapshot.attempts + 1

JobMarked(mark) ==
    IF \/ mark = "none"
       \/ mark = "recovery" /\ job.state \in {"done", "error"}
    THEN job
    ELSE [job EXCEPT !.state = mark]

-----------------------------------------------------------------------------
(* The driver                                                              *)

(* A drain claims its whole batch before it starts a handler of it.        *)
MayClaim ==
    /\ drain.due
    /\ \A g \in drain.awaited : At(g, "load")

(* After a drain Node's timer starts the next; Cloudflare's alarm is set   *)
(* again for a pending job only, and repeated when the drain failed.       *)
Settled(d) ==
    IF d.awaited # {} THEN d
    ELSE [d EXCEPT !.due = Timer \/ job.state = "pending"]

Rejected == [due |-> TRUE, awaited |-> {}]

Claim(f) ==
    /\ MayClaim
    /\ f = row.fence + 1
    /\ Ledger!ClaimNextInteractiveRun(Turn)
    /\ drain' = [drain EXCEPT !.awaited = @ \cup {f}]
    /\ Become(f, [NoHandler EXCEPT
                    !.pc = "load",
                    !.phase = IF row'.status = "response_ready"
                              THEN "delivery" ELSE "execution"])
    /\ UNCHANGED <<job, view, flue, posts, faults>>

(* What has expired is reconciled, also when no run can be claimed.        *)
ClaimNothing ==
    /\ MayClaim
    /\ Ledger!ClaimFindsNothing
    /\ drain' = Settled(drain)
    /\ UNCHANGED <<job, view, handler, flue, posts, faults>>

(* A drain whose batch is filled by older runs of other conversations      *)
(* reconciles this one without claiming it.                                *)
ClaimOthers ==
    /\ drain.due
    /\ drain.awaited = {}
    /\ Ledger!Expired(Turn)
    /\ Fault("others")
    /\ run' = Ledger!ReconciledRuns
    /\ UNCHANGED <<exec, job, view, handler, drain, flue, posts>>

(* The renewal timer of a handler: one refusal or failure ends it.         *)
RenewalFails(f) ==
    /\ Live(f)
    /\ ~At(f, "release")
    /\ handler[f].renewing
    /\ \/ ~Ledger!OwnsLease(Turn, f) /\ NoFault
       \/ Fault("stall")
    /\ handler' = [handler EXCEPT ![f].renewing = FALSE]
    /\ UNCHANGED <<run, exec, job, view, drain, flue, posts>>

(* Time passes a lease that nobody renews.                                 *)
LeaseExpires ==
    /\ row.lease = 3
    /\ ~ (Live(row.fence) /\ handler[row.fence].renewing)
    /\ run' = [run EXCEPT ![Turn].lease = 1]
    /\ UNCHANGED <<exec, job, view, handler, drain, flue, posts, faults>>

(* The process is held up for longer than the lease lasts.                 *)
Stall ==
    /\ row.lease = 3
    /\ Fault("stall")
    /\ run' = [run EXCEPT ![Turn].lease = 1]
    /\ UNCHANGED <<exec, job, view, handler, drain, flue, posts>>

Mark(f) ==
    /\ At(f, "mark")
    /\ job' = JobMarked(handler[f].mark)
    /\ Goto(f, "release")
    /\ UNCHANGED <<run, exec, view, drain, flue, posts, faults>>

(* A completed run, or one whose renewal failed, is not released; a        *)
(* release that is refused rejects the drain, and orphans its batch.       *)
Release(f) ==
    LET h == handler[f]
        release == IF h.outcome = "requeue"
                   THEN Ledger!ReleaseRequeue(Turn, f)
                   ELSE Ledger!ReleaseForRecovery(Turn, f)
        ended == Settled([drain EXCEPT !.awaited = @ \ {f}])
    IN  /\ At(f, "release")
        /\ Goto(f, "gone")
        /\ \/ /\ h.outcome = "completed" \/ ~h.renewing
              /\ drain' = ended
              /\ UNCHANGED ledger
           \/ /\ h.outcome # "completed" /\ h.renewing
              /\ Commits(release)
              /\ drain' = ended
           \/ /\ h.outcome # "completed" /\ h.renewing
              /\ Throws(release)
              /\ drain' = IF f \in drain.awaited THEN Rejected ELSE drain
        /\ UNCHANGED <<job, view, flue, posts, faults>>

(* The release of another run of the batch is refused.                     *)
PartnerReleaseFails ==
    /\ drain.awaited # {}
    /\ Fault("orphan")
    /\ drain' = Rejected
    /\ UNCHANGED <<run, exec, job, view, handler, flue, posts>>

(* A drain that was under way is started again.                            *)
Crash ==
    /\ Fault("crash")
    /\ \E f \in Claims : Live(f)
    /\ handler' = [f \in Claims |->
                     IF Live(f) THEN [handler[f] EXCEPT !.pc = "gone"]
                     ELSE handler[f]]
    /\ drain' = IF drain.awaited = {} THEN drain ELSE Rejected
    /\ UNCHANGED <<run, exec, job, view, flue, posts>>

-----------------------------------------------------------------------------
(* The handler, up to the execution                                        *)

LoadJob(f) ==
    /\ At(f, "load")
    /\ IF job.state = "pending"
       THEN Become(f, [handler[f] EXCEPT !.pc = "identity", !.snapshot = job])
       ELSE Conclude(f, "none", "recover")
    /\ UNCHANGED <<run, exec, job, view, drain, flue, posts, faults>>

(* A temporary failure is retried without being counted as an attempt.     *)
ResolveIdentity(f) ==
    /\ At(f, "identity")
    /\ \/ Goto(f, "attempt") /\ NoFault
       \/ Conclude(f, "none", "requeue") /\ Fault("identity")
       \/ Conclude(f, "recovery", "recover") /\ Fault("identity")
    /\ UNCHANGED <<run, exec, job, view, drain, flue, posts>>

RecordAttempt(f) ==
    /\ At(f, "attempt")
    /\ job' = [job EXCEPT !.attempts = Attempt(f)]
    /\ Goto(f, IF handler[f].phase = "delivery" THEN "persisted" ELSE "prepare")
    /\ UNCHANGED <<run, exec, view, drain, flue, posts, faults>>

(* The prepared body is there already, and the run still takes it.         *)
AlreadyPrepared ==
    /\ row.prepared
    /\ row.status \in {"input_ready", "executing"}

PrepareInput(f) ==
    LET prepare == Ledger!PrepareRunInput(Turn)
    IN  /\ At(f, "prepare")
        /\ \/ Commits(prepare) /\ Goto(f, "create")
           \/ AlreadyPrepared /\ UNCHANGED ledger /\ Goto(f, "create")
           \/ ~AlreadyPrepared /\ Throws(prepare) /\ Goto(f, "classify")
        /\ UNCHANGED <<job, view, drain, flue, posts, faults>>

CreateExecution(f) ==
    LET create == Ledger!CreateRunExecution(Turn, f)
    IN  /\ At(f, "create")
        /\ \/ Commits(create) /\ Goto(f, "route")
           \/ Throws(create) /\ Goto(f, "classify")
        /\ UNCHANGED <<job, view, drain, flue, posts, faults>>

RecordRoute(f) ==
    /\ At(f, "route")
    /\ Ledger!RecordRunExecutionRoute(Turn, f, job.authed)
    /\ Goto(f, IF job.react THEN "react" ELSE "dispatch")
    /\ UNCHANGED <<job, view, drain, flue, posts, faults>>

(* A reaction is settled as an answer no model was called for.             *)
SettleReaction(f) ==
    LET settle == Ledger!SettleRunExecution(Turn, f, "succeeded", "not_invoked")
    IN  /\ At(f, "react")
        /\ \/ /\ Commits(settle)
              /\ Become(f, [handler[f] EXCEPT !.pc = "record",
                                              !.render = "reaction"])
           \/ Throws(settle) /\ Goto(f, "classify")
        /\ UNCHANGED <<job, view, drain, flue, posts, faults>>

-----------------------------------------------------------------------------
(* The dispatched agent                                                    *)

(* A settlement in the snapshot is used as it is; the sandbox of a turn    *)
(* that has none is prepared before anything is dispatched.                *)
PrepareDispatch(f) ==
    LET h == handler[f]
        observed == IF job.observed = 0 THEN f ELSE job.observed
    IN  /\ At(f, "dispatch")
        /\ \/ /\ h.snapshot.settlement # "none"
              /\ Become(f, [h EXCEPT !.pc = "result",
                                     !.result = h.snapshot.settlement])
              /\ NoFault /\ UNCHANGED job
           \/ /\ h.snapshot.settlement = "none"
              /\ Fault("sandbox")
              /\ Become(f, [h EXCEPT !.pc = "result", !.result = "early"])
              /\ UNCHANGED job
           \/ /\ h.snapshot.settlement = "none"
              /\ NoFault
              /\ IF h.snapshot.observed # 0 THEN UNCHANGED job
                 ELSE job' = [job EXCEPT !.observed = observed]
              /\ Goto(f, IF h.snapshot.receipt = "none" THEN "send" ELSE "relay")
        /\ UNCHANGED <<run, exec, view, drain, flue, posts>>

(* The idempotency key admits one submission; its answer may be lost.      *)
Dispatch(f) ==
    /\ At(f, "send")
    /\ \/ /\ NoFault
          /\ flue' = IF flue = "none" THEN "queued" ELSE flue
          /\ Become(f, [handler[f] EXCEPT
                          !.pc = "receipt",
                          !.snapshot.receipt =
                             IF flue = "none" THEN "first" ELSE "repeat"])
       \/ /\ Fault("transport")
          /\ flue' \in {flue, IF flue = "none" THEN "queued" ELSE flue}
          /\ Goto(f, "retry")
    /\ UNCHANGED <<run, exec, job, view, drain, posts>>

(* Another handler's receipt of the same submission is a conflict when     *)
(* only one of the two is marked deduplicated: an ordinary Error.          *)
RecordReceipt(f) ==
    LET receipt == handler[f].snapshot.receipt
    IN  /\ At(f, "receipt")
        /\ IF job.receipt \in {"none", receipt}
           THEN /\ job' = [job EXCEPT !.receipt = receipt]
                /\ Goto(f, "relay")
           ELSE /\ job' = JobMarked("recovery")
                /\ Become(f, [handler[f] EXCEPT !.pc = "result",
                                                !.result = "broken"])
        /\ UNCHANGED <<run, exec, view, drain, flue, posts, faults>>

(* prepareReceipt brings the presentation's fence up to the claim's.       *)
PrepareRelay(f) ==
    LET matched == job.state \in {"pending", "recovery"}
        advances == /\ view.fence < f
                    /\ view.stream \in {"absent", "reconciling", "unknown"}
    IN  /\ At(f, "relay")
        /\ IF matched /\ advances THEN view' = [view EXCEPT !.fence = f]
           ELSE UNCHANGED view
        /\ Goto(f, IF ~matched \/ view.fence = f \/ advances
                   THEN "read" ELSE "retry")
        /\ UNCHANGED <<run, exec, job, drain, flue, posts, faults>>

(* Mutant: an interrupted read is taken for a failed submission.           *)
ReadInterruptedIsFailed(f) ==
    /\ At(f, "read")
    /\ \/ /\ flue \in {"completed", "failed", "early"}
          /\ Become(f, [handler[f] EXCEPT !.pc = "checkpoint", !.result = flue])
          /\ NoFault
       \/ /\ Fault("transport")
          /\ Become(f, [handler[f] EXCEPT !.pc = "checkpoint",
                                          !.result = "failed"])
    /\ UNCHANGED <<run, exec, job, view, drain, flue, posts>>

Read(f) ==
    /\ At(f, "read")
    /\ \/ /\ flue \in {"completed", "failed", "early"}
          /\ Become(f, [handler[f] EXCEPT !.pc = "checkpoint", !.result = flue])
          /\ NoFault
       \/ Fault("transport") /\ Goto(f, "retry")
    /\ UNCHANGED <<run, exec, job, view, drain, flue, posts>>

(* Two settlements of one submission differ in their time: a conflict, and *)
(* an ordinary Error again.                                                *)
RecordSettlement(f) ==
    /\ At(f, "checkpoint")
    /\ IF job.settlement = "none"
       THEN /\ job' = [job EXCEPT !.settlement = handler[f].result]
            /\ Goto(f, "result")
       ELSE /\ job' = JobMarked("recovery")
            /\ Become(f, [handler[f] EXCEPT !.pc = "result",
                                            !.result = "broken"])
    /\ UNCHANGED <<run, exec, view, drain, flue, posts, faults>>

(* How the outcome of the agent is settled on the execution. A success the *)
(* ledger refuses silences the lifecycle and is answered like a failure;   *)
(* a failure it refuses ends the turn.                                     *)
SettleResult(f) ==
    LET h == handler[f]
        settle ==
            CASE h.result = "completed" ->
                   Ledger!SettleRunExecution(Turn, f, "succeeded", "settled")
              [] h.result = "early" ->
                   Ledger!SettleRunExecution(Turn, f, "not_submitted",
                                             "not_invoked")
              [] OTHER -> Ledger!SettleRunExecution(Turn, f, "failed", "settled")
    IN  /\ At(f, "result")
        /\ \/ /\ Commits(settle)
              /\ Become(f, [h EXCEPT !.pc = "final",
                                     !.text = IF h.result = "completed"
                                              THEN "answer" ELSE "apology"])
           \/ /\ ~Ledger!MaySettle(Turn, f, "succeeded", "settled")
              /\ UNCHANGED ledger
              /\ h.result = "completed"
              /\ Become(f, [h EXCEPT !.pc = "final", !.text = "apology",
                                     !.usable = FALSE])
           \/ /\ Throws(settle)
              /\ h.result # "completed"
              /\ Goto(f, "classify")
        /\ UNCHANGED <<job, view, drain, flue, posts, faults>>

(* An interrupted dispatch or read keeps the receipt for the next claim.   *)
Retry(f) ==
    /\ At(f, "retry")
    /\ IF Attempt(f) >= MaxPostDispatchAttempts
       THEN Conclude(f, "recovery", "recover")
       ELSE Conclude(f, "none", "requeue")
    /\ UNCHANGED <<run, exec, job, view, drain, flue, posts, faults>>

(* The submission, before its first model call: it marks the execution     *)
(* the frozen observation names, and fails if it may not. One submission   *)
(* is all there is, so that execution is never invoked already.            *)
PassModelGate ==
    LET matched == job.state \in {"pending", "recovery"}
        mark == Ledger!MarkRunExecutionInvoked(Turn, job.observed)
    IN  /\ flue = "queued"
        /\ \/ matched /\ Commits(mark) /\ flue' = "running"
           \/ matched /\ Throws(mark) /\ flue' = "failed"
           \/ ~matched /\ UNCHANGED ledger /\ flue' = "failed"
        /\ UNCHANGED <<job, view, handler, drain, posts, faults>>

(* "early": the provider turned the call down (reconnect, policy).         *)
SubmissionEnds ==
    /\ flue = "running"
    /\ flue' \in {"completed", "failed", "early"}
    /\ UNCHANGED <<run, exec, job, view, handler, drain, posts, faults>>

-----------------------------------------------------------------------------
(* Delivery of a fresh answer                                              *)

(* A compare-and-set on the presentation as it was read; stale, it throws. *)
AdvanceOr(f, from, to, then, stale) ==
    IF view = handler[f].seen /\ view.stream = from
    THEN /\ view' = [view EXCEPT !.stream = to]
         /\ Become(f, [handler[f] EXCEPT !.pc = then, !.seen = view'])
    ELSE UNCHANGED view /\ Goto(f, stale)

Advance(f, from, to, then) == AdvanceOr(f, from, to, then, "classify")

(* SlackAgentViewPresentation.finalize: what the row says decides whether  *)
(* to stream, to post, to leave it, or to give up.                         *)
ChooseDelivery(f) ==
    LET as(pc, render) == Become(f, [handler[f] EXCEPT !.pc = pc, !.seen = view,
                                                       !.render = render])
    IN  /\ At(f, "final")
        /\ \/ view.stream = "absent" /\ as("intend", "stream")
           \/ view.stream = "streaming" /\ as("record", "resume")
           \/ view.stream = "fallback" /\ as("record", "post")
           \/ view.stream \in {"delivered", "finalized"} /\ Goto(f, "delivered")
           \/ /\ view.stream \in {"starting", "reconciling", "finalizing",
                                  "unknown"}
              /\ Goto(f, "classify")
        /\ UNCHANGED <<run, exec, job, view, drain, flue, posts, faults>>

IntendStream(f) ==
    /\ At(f, "intend")
    /\ Advance(f, "absent", "starting", "record")
    /\ UNCHANGED <<run, exec, job, drain, flue, posts, faults>>

Sent(f) == IF handler[f].render = "resume" THEN "close" ELSE "slack"

(* A silenced lifecycle records nothing, and does not say so. No handler   *)
(* records one render twice, so the ledger's replay branch is not reached. *)
RecordResponse(f) ==
    LET h == handler[f]
        response == <<h.text, h.render>>
        record == Ledger!RecordRunResponse(Turn, f, response)
    IN  /\ At(f, "record")
        /\ \/ /\ ~h.usable
              /\ Become(f, [h EXCEPT !.pc = Sent(f), !.offered = FALSE])
              /\ UNCHANGED ledger
           \/ h.usable /\ Commits(record) /\ Goto(f, "offer")
           \/ h.usable /\ Throws(record) /\ Goto(f, "classify")
        /\ UNCHANGED <<job, view, drain, flue, posts, faults>>

StartDelivery(f) ==
    LET start == Ledger!StartRunDelivery(Turn, f)
    IN  /\ At(f, "offer")
        /\ \/ /\ Commits(start)
              /\ Become(f, [handler[f] EXCEPT !.pc = Sent(f), !.offered = TRUE])
           \/ Throws(start) /\ Goto(f, "classify")
        /\ UNCHANGED <<job, view, drain, flue, posts, faults>>

Message(f) == [by |-> f, render |-> handler[f].render,
               text |-> handler[f].text, offered |-> handler[f].offered]

(* Mutant: a lost answer of Slack is taken for a rejection.                *)
CallSlackLostIsRejected(f) ==
    LET streams == handler[f].render = "stream"
    IN  /\ At(f, "slack")
        /\ \/ /\ posts' = posts \cup {Message(f)}
              /\ Goto(f, IF streams THEN "started" ELSE "accepted")
              /\ NoFault
           \/ /\ Fault("slack")
              /\ posts' \in {posts, posts \cup {Message(f)}}
              /\ Goto(f, "rejected")
        /\ UNCHANGED <<run, exec, job, view, drain, flue>>

(* Mutant: a lost answer of Slack is taken for its consent.                *)
CallSlackLostIsTaken(f) ==
    LET streams == handler[f].render = "stream"
    IN  /\ At(f, "slack")
        /\ \/ /\ posts' = posts \cup {Message(f)}
              /\ Goto(f, IF streams THEN "started" ELSE "accepted")
              /\ NoFault
           \/ /\ Fault("slack")
              /\ Goto(f, "rejected")
              /\ UNCHANGED posts
           \/ /\ Fault("slack")
              /\ posts' \in {posts, posts \cup {Message(f)}}
              /\ Goto(f, IF streams THEN "started" ELSE "accepted")
        /\ UNCHANGED <<run, exec, job, view, drain, flue>>

(* Slack takes the message, rejects it, or its answer is lost.             *)
CallSlack(f) ==
    LET streams == handler[f].render = "stream"
    IN  /\ At(f, "slack")
        /\ \/ /\ posts' = posts \cup {Message(f)}
              /\ Goto(f, IF streams THEN "started" ELSE "accepted")
              /\ NoFault
           \/ /\ Fault("slack")
              /\ Goto(f, "rejected")
              /\ UNCHANGED posts
           \/ /\ Fault("slack")
              /\ posts' \in {posts, posts \cup {Message(f)}}
              /\ Goto(f, IF streams THEN "unsure" ELSE "lost")
        /\ UNCHANGED <<run, exec, job, view, drain, flue>>

StreamStarted(f) ==
    /\ At(f, "started")
    /\ Advance(f, "starting", "streaming", "close")
    /\ UNCHANGED <<run, exec, job, drain, flue, posts, faults>>

CloseStream(f) ==
    /\ At(f, "close")
    /\ Advance(f, "streaming", "reconciling", "finalizing")
    /\ UNCHANGED <<run, exec, job, drain, flue, posts, faults>>

MarkFinalizing(f) ==
    /\ At(f, "finalizing")
    /\ Advance(f, "reconciling", "finalizing", "stop")
    /\ UNCHANGED <<run, exec, job, drain, flue, posts, faults>>

(* Stopping a stream somebody else started adds the text of the caller.    *)
StopStream(f) ==
    /\ At(f, "stop")
    /\ \/ Goto(f, "stopped") /\ NoFault
       \/ Fault("slack") /\ Goto(f, "unsure")
    /\ posts' = IF handler[f].render = "resume" THEN posts \cup {Message(f)}
                ELSE posts
    /\ UNCHANGED <<run, exec, job, view, drain, flue>>

StreamDelivered(f) ==
    /\ At(f, "stopped")
    /\ Advance(f, "finalizing", "delivered", "verdict")
    /\ UNCHANGED <<run, exec, job, drain, flue, posts, faults>>

(* A post replaces a rejected stream; a reaction has no presentation.      *)
PostAccepted(f) ==
    /\ At(f, "accepted")
    /\ IF handler[f].render = "post" /\ view.stream = "fallback"
       THEN Become(f, [handler[f] EXCEPT !.pc = "posted", !.seen = view])
       ELSE Goto(f, "verdict")
    /\ UNCHANGED <<run, exec, job, view, drain, flue, posts, faults>>

(* Stale, it is caught like a lost answer of the post.                     *)
PostDelivered(f) ==
    /\ At(f, "posted")
    /\ AdvanceOr(f, "fallback", "delivered", "verdict", "lost")
    /\ UNCHANGED <<run, exec, job, drain, flue, posts, faults>>

(* Stale, it is given up in silence.                                       *)
MarkUnknown(f) ==
    /\ At(f, "unsure")
    /\ view' = IF view = handler[f].seen THEN [view EXCEPT !.stream = "unknown"]
               ELSE view
    /\ Goto(f, "lost")
    /\ UNCHANGED <<run, exec, job, drain, flue, posts, faults>>

(* The answer of what was approved decides how the run counts.             *)
Disposition(f) == IF handler[f].text = "answer" THEN "succeeded" ELSE "failed"

FinalizeDelivery(f) ==
    LET delivered == Ledger!FinalizeDelivered(Turn, f, f, Disposition(f))
    IN  /\ At(f, "verdict")
        /\ \/ ~handler[f].offered /\ UNCHANGED ledger /\ Goto(f, "delivered")
           \/ handler[f].offered /\ Commits(delivered) /\ Goto(f, "delivered")
           \/ handler[f].offered /\ Throws(delivered) /\ Goto(f, "classify")
        /\ UNCHANGED <<job, view, drain, flue, posts, faults>>

(* Only a rejected stream has something to fall back to.                   *)
FinalizeRejected(f) ==
    LET failed == Ledger!FinalizeFailed(Turn, f, f)
        next == IF handler[f].render = "stream" THEN "fallback" ELSE "classify"
    IN  /\ At(f, "rejected")
        /\ \/ ~handler[f].offered /\ UNCHANGED ledger /\ Goto(f, next)
           \/ handler[f].offered /\ Commits(failed) /\ Goto(f, next)
           \/ handler[f].offered /\ Throws(failed) /\ Goto(f, "classify")
        /\ UNCHANGED <<job, view, drain, flue, posts, faults>>

(* Mutant: the post that replaces a rejected stream is not recorded.       *)
FallBackUnrecorded(f) ==
    /\ At(f, "fallback")
    /\ IF view = handler[f].seen
       THEN /\ view' = [view EXCEPT !.stream = "fallback"]
            /\ Become(f, [handler[f] EXCEPT !.pc = "slack", !.render = "post"])
       ELSE UNCHANGED view /\ Goto(f, "classify")
    /\ UNCHANGED <<run, exec, job, drain, flue, posts, faults>>

FallBack(f) ==
    /\ At(f, "fallback")
    /\ IF view = handler[f].seen
       THEN /\ view' = [view EXCEPT !.stream = "fallback"]
            /\ Become(f, [handler[f] EXCEPT !.pc = "record", !.render = "post"])
       ELSE UNCHANGED view /\ Goto(f, "classify")
    /\ UNCHANGED <<run, exec, job, drain, flue, posts, faults>>

FinalizeLost(f) ==
    LET unknown == Ledger!FinalizeUnknown(Turn, f, f)
    IN  /\ At(f, "lost")
        /\ \/ handler[f].offered /\ Commits(unknown)
           \/ handler[f].offered /\ Throws(unknown)
           \/ ~handler[f].offered /\ UNCHANGED ledger
        /\ Goto(f, "classify")
        /\ UNCHANGED <<job, view, drain, flue, posts, faults>>

(* finishDelivery: the job's tombstone first, then the presentation.       *)
MarkDelivered(f) ==
    /\ At(f, "delivered")
    /\ job' = JobMarked("done")
    /\ Goto(f, "tidy")
    /\ UNCHANGED <<run, exec, view, drain, flue, posts, faults>>

MarkViewFinalized(f) ==
    /\ At(f, "tidy")
    /\ view' = IF view.stream \in {"absent", "delivered"}
               THEN [view EXCEPT !.stream = "finalized"] ELSE view
    /\ Goto(f, "classify")
    /\ UNCHANGED <<run, exec, job, drain, flue, posts, faults>>

-----------------------------------------------------------------------------
(* Delivery of a persisted answer: a claim whose run was response_ready    *)

(* A Slack effect nobody can prove either way is not repeated.             *)
EffectUnresolved ==
    CASE view.stream = "fallback" ->
           row.response[2] # "post" \/ row.delivery # "failed"
      [] view.stream \in {"starting", "unknown"} -> TRUE
      [] view.stream \in {"streaming", "reconciling", "finalizing"} ->
           row.response[2] # "resume"
      [] OTHER -> FALSE

(* Mutant: a delivery that is pending is taken for one that was made.      *)
DeliveryAssumed == row.delivery = "pending"

(* The presentation proves a delivery whose verdict is missing.            *)
DeliveryProven ==
    view.stream \in {"delivered", "finalized"} /\ row.delivery = "pending"

ReadPersisted(f) ==
    /\ At(f, "persisted")
    /\ \/ row.response = Ledger!NoResponse /\ Conclude(f, "error", "recover")
       \/ /\ row.response # Ledger!NoResponse
          /\ EffectUnresolved
          /\ Conclude(f, "recovery", "recover")
       \/ /\ row.response # Ledger!NoResponse
          /\ ~EffectUnresolved
          /\ Become(f, [handler[f] EXCEPT
                          !.pc = IF DeliveryProven THEN "adopt" ELSE "p_offer",
                          !.text = row.response[1], !.render = row.response[2]])
    /\ UNCHANGED <<run, exec, job, view, drain, flue, posts, faults>>

(* Refused, it throws out of the handler.                                  *)
AdoptDelivery(f) ==
    LET adopt == Ledger!FinalizeDelivered(Turn, f, row.attempt, "succeeded")
    IN  /\ At(f, "adopt")
        /\ \/ Commits(adopt) /\ Goto(f, "p_delivered")
           \/ Throws(adopt) /\ Conclude(f, "none", "recover")
        /\ UNCHANGED <<job, view, drain, flue, posts, faults>>

(* Mutant: a start the ledger refuses is ignored, as for a legacy run.     *)
StartPersistedRegardless(f) ==
    LET start == Ledger!StartRunDelivery(Turn, f)
    IN  /\ At(f, "p_offer")
        /\ Commits(start) \/ Throws(start)
        /\ Become(f, [handler[f] EXCEPT !.pc = "p_slack", !.offered = TRUE])
        /\ UNCHANGED <<job, view, drain, flue, posts, faults>>

StartPersisted(f) ==
    LET start == Ledger!StartRunDelivery(Turn, f)
    IN  /\ At(f, "p_offer")
        /\ \/ /\ Commits(start)
              /\ Become(f, [handler[f] EXCEPT !.pc = "p_slack",
                                              !.offered = TRUE])
           \/ Throws(start) /\ Goto(f, "p_lost")
        /\ UNCHANGED <<job, view, drain, flue, posts, faults>>

SendPersisted(f) ==
    /\ At(f, "p_slack")
    /\ \/ posts' = posts \cup {Message(f)} /\ Goto(f, "p_close") /\ NoFault
       \/ Fault("slack") /\ Goto(f, "p_rejected") /\ UNCHANGED posts
       \/ /\ Fault("slack")
          /\ posts' \in {posts, posts \cup {Message(f)}}
          /\ Goto(f, "p_lost")
    /\ UNCHANGED <<run, exec, job, view, drain, flue>>

(* A stream the message closed is recorded as delivered, best effort.      *)
ClosePersisted(f) ==
    /\ At(f, "p_close")
    /\ view' = IF view.stream \in {"streaming", "reconciling", "finalizing"}
               THEN [view EXCEPT !.stream = "delivered"] ELSE view
    /\ Goto(f, "p_verdict")
    /\ UNCHANGED <<run, exec, job, drain, flue, posts, faults>>

FinalizePersisted(f) ==
    LET delivered == Ledger!FinalizeDelivered(Turn, f, f, "succeeded")
    IN  /\ At(f, "p_verdict")
        /\ \/ Commits(delivered) /\ Goto(f, "p_delivered")
           \/ Throws(delivered) /\ Goto(f, "p_lost")
        /\ UNCHANGED <<job, view, drain, flue, posts, faults>>

PersistedDelivered(f) ==
    /\ At(f, "p_delivered")
    /\ job' = JobMarked("done")
    /\ Goto(f, "p_tidy")
    /\ UNCHANGED <<run, exec, view, drain, flue, posts, faults>>

PersistedFinalized(f) ==
    /\ At(f, "p_tidy")
    /\ view' = IF view.stream = "delivered"
               THEN [view EXCEPT !.stream = "finalized"] ELSE view
    /\ Conclude(f, "none", "completed")
    /\ UNCHANGED <<run, exec, job, drain, flue, posts, faults>>

PersistedRejected(f) ==
    LET failed == Ledger!FinalizeFailed(Turn, f, f)
    IN  /\ At(f, "p_rejected")
        /\ \/ /\ Commits(failed)
              /\ IF Attempt(f) >= MaxTurnAttempts THEN Goto(f, "abandon")
                 ELSE Conclude(f, "none", "requeue")
           \/ Throws(failed) /\ Conclude(f, "error", "recover")
        /\ UNCHANGED <<job, view, drain, flue, posts, faults>>

PersistedLost(f) ==
    LET unknown == Ledger!FinalizeUnknown(Turn, f, f)
    IN  /\ At(f, "p_lost")
        /\ \/ Commits(unknown) /\ Conclude(f, "error", "completed")
           \/ Throws(unknown) /\ Conclude(f, "error", "recover")
        /\ UNCHANGED <<job, view, drain, flue, posts, faults>>

(* Out of attempts after a confirmed rejection; refused, it throws.        *)
Abandon(f) ==
    LET settle == Ledger!SettleRunWithoutDelivery(Turn, f, "failed")
    IN  /\ At(f, "abandon")
        /\ \/ Commits(settle) /\ Conclude(f, "error", "completed")
           \/ Throws(settle) /\ Conclude(f, "none", "recover")
        /\ UNCHANGED <<job, view, drain, flue, posts, faults>>

-----------------------------------------------------------------------------
(* How a turn that ended, or threw, is classified from the run's row       *)

Newest(f) ==
    /\ exec[Turn][f] # Ledger!NoExecution
    /\ \A g \in Claims : g > f => exec[Turn][g] = Ledger!NoExecution

NotSubmitted ==
    \A f \in Claims : Newest(f) =>
        \/ exec[Turn][f].model \in {"ready", "not_invoked"}
        \/ exec[Turn][f].outcome = "not_submitted"

(* Mutant: a run that waits for an operator is a turn that is done.        *)
ClassifyParkedAsDone(f) ==
    LET exhausted == Attempt(f) >= MaxTurnAttempts
        parked == row.status = "recovery_required" \/ row.delivery = "unknown"
        rejected == row.status = "response_ready" /\ row.delivery = "failed"
        fresh == /\ row.status \in {"preparing_input", "input_ready",
                                    "executing"}
                 /\ NotSubmitted
    IN  /\ At(f, "classify")
        /\ CASE row.status = "settled" \/ parked ->
                  Conclude(f, "done", "completed")
             [] rejected /\ exhausted -> Goto(f, "abandon")
             [] (rejected \/ fresh) /\ ~parked /\ ~exhausted ->
                  Conclude(f, "none", "requeue")
             [] OTHER -> Conclude(f, "error", "recover")
        /\ UNCHANGED <<run, exec, job, view, drain, flue, posts, faults>>

Classify(f) ==
    LET exhausted == Attempt(f) >= MaxTurnAttempts
        parked == row.status = "recovery_required" \/ row.delivery = "unknown"
        rejected == row.status = "response_ready" /\ row.delivery = "failed"
        fresh == /\ row.status \in {"preparing_input", "input_ready",
                                    "executing"}
                 /\ NotSubmitted
    IN  /\ At(f, "classify")
        /\ CASE row.status = "settled" -> Conclude(f, "done", "completed")
             [] row.status # "settled" /\ parked ->
                  Conclude(f, "error", "completed")
             [] rejected /\ exhausted -> Goto(f, "abandon")
             [] (rejected \/ fresh) /\ ~parked /\ ~exhausted ->
                  Conclude(f, "none", "requeue")
             [] OTHER -> Conclude(f, "error", "recover")
        /\ UNCHANGED <<run, exec, job, view, drain, flue, posts, faults>>

-----------------------------------------------------------------------------
Prepare(f) ==
    \/ LoadJob(f) \/ ResolveIdentity(f) \/ RecordAttempt(f)
    \/ PrepareInput(f) \/ CreateExecution(f) \/ RecordRoute(f)
    \/ SettleReaction(f)

AskAgent(f) ==
    \/ PrepareDispatch(f) \/ Dispatch(f) \/ RecordReceipt(f) \/ PrepareRelay(f)
    \/ Read(f) \/ RecordSettlement(f) \/ SettleResult(f) \/ Retry(f)

Deliver(f) ==
    \/ ChooseDelivery(f) \/ IntendStream(f) \/ RecordResponse(f)
    \/ StartDelivery(f) \/ CallSlack(f) \/ StreamStarted(f) \/ CloseStream(f)
    \/ MarkFinalizing(f) \/ StopStream(f) \/ StreamDelivered(f)
    \/ PostAccepted(f) \/ PostDelivered(f) \/ MarkUnknown(f)
    \/ FinalizeDelivery(f) \/ FinalizeRejected(f) \/ FallBack(f)
    \/ FinalizeLost(f) \/ MarkDelivered(f) \/ MarkViewFinalized(f)

DeliverPersisted(f) ==
    \/ ReadPersisted(f) \/ AdoptDelivery(f) \/ StartPersisted(f)
    \/ SendPersisted(f) \/ ClosePersisted(f) \/ FinalizePersisted(f)
    \/ PersistedDelivered(f) \/ PersistedFinalized(f)
    \/ PersistedRejected(f) \/ PersistedLost(f)

Handle(f) ==
    \/ Prepare(f) \/ AskAgent(f) \/ Deliver(f) \/ DeliverPersisted(f)
    \/ Abandon(f) \/ Classify(f) \/ Mark(f) \/ Release(f)

Submission == PassModelGate \/ SubmissionEnds

Next ==
    \/ \E f \in Claims : Claim(f) \/ Handle(f) \/ RenewalFails(f)
    \/ Submission
    \/ LeaseExpires
    \/ Stall \/ ClaimNothing \/ ClaimOthers \/ PartnerReleaseFails \/ Crash

Init ==
    /\ run = [r \in {Turn} |-> [Ledger!NewRow EXCEPT !.status = "admitted",
                                                     !.sequence = 1]]
    /\ exec = [r \in {Turn} |-> [f \in Claims |-> Ledger!NoExecution]]
    /\ \E react \in Reactions, authed \in Routes :
          job = [NewJob EXCEPT !.react = react, !.authed = authed]
    /\ view = NewView
    /\ handler = [f \in Claims |-> NoHandler]
    /\ drain = [due |-> TRUE, awaited |-> {}]
    /\ flue = "none"
    /\ posts = {}
    /\ faults = 0

Spec == Init /\ [][Next]_vars

(* Drains are started for as long as one is due, and a handler, the        *)
(* submission and the clock do not stand still.                            *)
Fairness ==
    /\ \A f \in Claims : WF_vars(Claim(f)) /\ WF_vars(Handle(f))
    /\ WF_vars(ClaimNothing)
    /\ WF_vars(Submission)
    /\ WF_vars(LeaseExpires)

FairSpec == Spec /\ Fairness

-----------------------------------------------------------------------------
(* Properties                                                              *)

(* Every variable keeps the shape of the rows and values it stands for.    *)
TypeOK ==
    /\ Ledger!TypeOK
    /\ job \in Job
    /\ view \in View
    /\ handler \in [Claims -> Handler]
    /\ drain \in [due : BOOLEAN, awaited : SUBSET Claims]
    /\ flue \in {"none", "queued", "running", "completed", "failed", "early"}
    /\ posts \subseteq [by : Claims, text : {"answer", "apology"},
                        render : {"stream", "resume", "post", "reaction"},
                        offered : BOOLEAN]
    /\ faults \in 0 .. MaxFaults

(* Slack shows at most one final message of a turn, however often it is    *)
(* claimed and whatever calls fail or lose their answer.                   *)
AtMostOneFinal == \A p, q \in posts : p = q

(* lifecycle.ts: ledger-owned Runs fail closed before crossing an          *)
(* unrecorded boundary, so no final is sent the ledger has no attempt of.  *)
NoUnrecordedFinal == \A p \in posts : p.offered

(* A final is sent only while the ledger shows the sender's own attempt    *)
(* pending: the row says "pending" before Slack may see a message.         *)
FinalsAreAnnounced ==
    [][\A p \in posts' \ posts :
          p.offered /\ row.delivery = "pending" /\ row.attempt = p.by]_vars

DeliveredIsShown ==
    row.delivery = "delivered" =>
        \E p \in posts : /\ p.offered
                         /\ p.by = row.attempt
                         /\ p.text = row.response[1]

NothingIsShown ==
    row.delivery \in {"not_ready", "failed", "not_applicable"} =>
        \A p \in posts : ~p.offered

(* A row that says delivered names the attempt whose message Slack shows,  *)
(* with the approved text; one that says nothing went out is right.        *)
VerdictIsTrue == DeliveredIsShown /\ NothingIsShown

(* The finals the ledger was asked about are one at most, and what the     *)
(* rows say of them is true, even when a handler outlives its lease and    *)
(* its drain and works beside its successors.  Only a message nobody asked *)
(* about (NoUnrecordedFinal) can pass for the one the row speaks of.       *)
RecordedFinalsStand ==
    /\ \A p, q \in posts : p.offered /\ q.offered => p = q
    /\ NothingIsShown
    /\ DeliveredIsShown \/ \E p \in posts : ~p.offered

(* A job marked delivered is of a run that is settled: the tombstone that  *)
(* keeps every later drain from the turn never hides an unfinished run,    *)
(* while no handler outlives its drain: a replaced one may hide it.        *)
DoneJobIsSettled == job.state = "done" => row.status = "settled"

(* flue-dispatch.ts: an interruption keeps the receipt, the retry          *)
(* reattaches to the same paid submission; a completed one is not answered *)
(* with a failure notice.                                                  *)
CompletedAnswerIsKept ==
    \A p \in posts : p.text = "apology" => flue # "completed"

(* The run is settled or waits for an operator, and nobody works on it:    *)
(* MCTurnOrRoutine checks that every turn comes to this and stays so.      *)
IsDecided ==
    /\ row.status \in {"settled", "recovery_required"}
    /\ \A f \in Claims : ~Live(f)

(* driver.ts: a run whose lease could not be renewed is not released, its  *)
(* durable expiry reconciliation will classify it.                         *)
LostLeaseIsReconciled ==
    \A f \in Claims :
        (At(f, "gone") /\ ~handler[f].renewing /\ row.fence = f)
          ~> (row.fence # f \/ row.lease = Ledger!NoLease)
=============================================================================
