--------------------------- MODULE SlackAdmission ---------------------------
(* How one Slack message becomes one turn.  Slack delivers the same message *)
(* more than once: as two events, app_mention and message, and each of them *)
(* again when it missed the answer.  Every delivery runs processSlackEvent  *)
(* by itself, detached from the answer to Slack.  They meet in three stores *)
(* of one database: the claims of slack/claim-store.ts, a row of turn_jobs  *)
(* keyed by the message, and its run.  A relay works on the row meanwhile   *)
(* and, when a turn fails early, gives the message back.                    *)
EXTENDS Naturals

CONSTANTS
    Arrivals,         \* what Slack delivers of the message, numbered
    Siblings,           \* those of its second event
    MaxTurnAttempts,
    AdmissionFaults,    \* of "store", "throws", "crash"
    MaxMishaps          \* bound: how many of those a behaviour has

ASSUME ArrivalsAssumption == Siblings \subseteq Arrivals /\ Arrivals \subseteq Nat
ASSUME AttemptsAssumption == MaxTurnAttempts \in Nat /\ MaxMishaps \in Nat

VARIABLES
    target,        \* "node" or "cloudflare", for good
    candidate,     \* is it an ambient message, to be classified first, for good
    claims,        \* slack_claims
    job,           \* the row of turn_jobs
    runLane,       \* the message's run: the lane that owns it
    intake,        \* one processSlackEvent per delivery
    relay,         \* where the relay stands with this row
    twoHours,          \* have two hours passed
    mishaps,       \* how many faults there were
    submissions,   \* ghost: how often a turn of the message was dispatched
    forgotten,     \* ghost: its tombstone was purged
    excuse         \* ghost: what first may have left the message unanswered

admissionVars == <<target, candidate, claims, job, runLane, intake, relay, twoHours,
                   mishaps, submissions, forgotten, excuse>>

rows == <<claims, job, runLane>>
ghosts == <<submissions, forgotten, excuse>>
fixed == <<target, candidate>>

EventKeys == {"first", "second"}
Keys == EventKeys \cup {"msg", "decision"}
Lanes == {"none", "legacy", "ledger"}
NotTerminal == {"pending", "recovery"}
JobStatuses == NotTerminal \cup {"none", "done", "error"}

EventOf(d) == IF d \in Siblings THEN "second" ELSE "first"

NoJob == [status |-> "none", evt |-> "first", dispatched |-> FALSE,
          lane |-> "legacy", attempts |-> 0, old |-> FALSE]

IntakeSteps ==
    {"unseen", "truth", "decline evt", "decline msg", "decide", "classify",
     "admit", "claim evt", "claim msg", "unclaim evt", "enqueue", "free evt",
     "free msg", "free decision", "gone"}

RelaySteps ==
    {"idle", "runs", "free evt", "free msg", "free decision", "discard"}

AdmissionTypeOK ==
    /\ target \in {"node", "cloudflare"} /\ candidate \in BOOLEAN
    /\ claims \in [Keys -> {"free", "held", "old"}]
    /\ job \in [status : JobStatuses, evt : EventKeys, dispatched : BOOLEAN,
                lane : {"legacy", "ledger"}, attempts : 0..MaxTurnAttempts,
                old : BOOLEAN]
    /\ runLane \in Lanes
    /\ intake \in [Arrivals -> [at : IntakeSteps, lane : Lanes, promoted : BOOLEAN]]
    /\ relay \in RelaySteps
    /\ twoHours \in BOOLEAN /\ mishaps \in 0..MaxMishaps
    /\ submissions \in Nat /\ forgotten \in BOOLEAN
    /\ excuse \in {"none", "crash", "thrown", "declined", "raced", "slow"}

-----------------------------------------------------------------------------
(* The claims.                                                             *)

(* The keys of a message whose job is not terminal.                        *)
Protected ==
    IF job.status \in NotTerminal THEN {job.evt, "msg", "decision"} ELSE {}

(* Every claim first deletes what is older than two hours.                 *)
Purged ==
    [k \in Keys |->
        IF claims[k] = "old" /\ k \notin Protected THEN "free" ELSE claims[k]]

Free(k) == Purged[k] = "free"

(* INSERT OR IGNORE of one key, a transaction of its own.                  *)
Claim(k) == claims' = IF Free(k) THEN [Purged EXCEPT ![k] = "held"] ELSE Purged

ReleaseClaim(k) == claims' = [claims EXCEPT ![k] = "free"]

-----------------------------------------------------------------------------
(* The turn job.                                                           *)

Excuses(reason) == excuse' = IF excuse = "none" THEN reason ELSE excuse

(* Terminal rows are kept as long as claims are.                           *)
Outlived == job.status \in {"done", "error"} /\ job.old

NewJob(d, lane) ==
    [status |-> "pending", evt |-> EventOf(d), dispatched |-> FALSE,
     lane |-> lane, attempts |-> 0, old |-> FALSE]

(* Mutant: INSERT OR REPLACE.                                              *)
InsertJobReplacing(d, lane) ==
    /\ forgotten' = (forgotten \/ Outlived)
    /\ job' = NewJob(d, lane)
    /\ UNCHANGED excuse

(* Enqueueing purges, and inserts the row unless the message has one.  One *)
(* that the relay is about to discard is taken for a row, too.             *)
InsertJob(d, lane) ==
    /\ forgotten' = (forgotten \/ Outlived)
    /\ job' = IF job.status = "none" \/ Outlived THEN NewJob(d, lane) ELSE job
    /\ IF job.status # "none" /\ relay \notin {"idle", "runs"}
       THEN Excuses("raced") ELSE UNCHANGED excuse

-----------------------------------------------------------------------------
(* One delivery.                                                           *)

Gone == [at |-> "gone", lane |-> "none", promoted |-> FALSE]

Becomes(d, step, lane, promoted) ==
    intake' = [intake EXCEPT ![d] = [at |-> step, lane |-> lane, promoted |-> promoted]]

GoesTo(d, step) ==
    IF step = "gone" THEN intake' = [intake EXCEPT ![d] = Gone]
    ELSE Becomes(d, step, intake[d].lane, intake[d].promoted)

Mishap(kind) ==
    /\ kind \in AdmissionFaults /\ mishaps < MaxMishaps
    /\ mishaps' = mishaps + 1

(* Slack delivers an event, or delivers it again.  An ambient message has  *)
(* one event only.                                                         *)
Receive(d) ==
    /\ intake[d].at = "unseen"
    /\ candidate => d \notin Siblings
    /\ \A e \in Arrivals :
          e < d /\ EventOf(e) = EventOf(d) => intake[e].at # "unseen"
    /\ GoesTo(d, "truth")
    /\ UNCHANGED <<rows, ghosts, fixed, relay, twoHours, mishaps>>

(* Who asks, and where: Slack is asked, and may not answer.  Without that  *)
(* truth, or with ambient messages switched off, a candidate is declined,  *)
(* and a message addressed to the agent takes the older path.  Settings    *)
(* and assignment choose the lane.  Or the message is not for this agent.  *)
(* A candidate that is a memory command is not classified: left out, it    *)
(* goes the way of a message addressed to the agent.                       *)
LearnTruth(d) ==
    /\ intake[d].at = "truth"
    /\ \/ GoesTo(d, "gone")
       \/ \E lane \in Lanes :
             Becomes(d,
                     IF candidate THEN IF lane = "none" THEN "decline evt" ELSE "decide"
                     ELSE IF lane = "none" THEN "claim evt" ELSE "admit",
                     lane, intake[d].promoted)
    /\ UNCHANGED <<rows, ghosts, fixed, relay, twoHours, mishaps>>

(* What is declined is claimed all the same, so that nobody looks again.   *)
Decline(d) ==
    /\ \/ /\ intake[d].at = "decline evt"
          /\ Claim(EventOf(d)) /\ GoesTo(d, "decline msg")
          /\ UNCHANGED excuse
       \/ /\ intake[d].at = "decline msg"
          /\ Claim("msg") /\ GoesTo(d, "gone")
          /\ Excuses("declined")
    /\ UNCHANGED <<job, runLane, submissions, forgotten, fixed, relay, twoHours, mishaps>>

(* Only one delivery of a candidate may pay for its classification.        *)
ClaimDecision(d) ==
    /\ intake[d].at = "decide"
    /\ Claim("decision")
    /\ GoesTo(d, IF Free("decision") THEN "classify" ELSE "gone")
    /\ UNCHANGED <<job, runLane, ghosts, fixed, relay, twoHours, mishaps>>

(* The classifier promotes the message, or it is ignored, also when too    *)
(* many are being classified; or the channel was meanwhile given to        *)
(* another identity.                                                       *)
Classify(d) ==
    /\ intake[d].at = "classify"
    /\ \E next \in {"admit", "decline evt", "free decision"} :
          Becomes(d, next, intake[d].lane, next # "decline evt")
    /\ UNCHANGED <<rows, ghosts, fixed, relay, twoHours, mishaps>>

(* A classification or a snapshot that throws ends the delivery, with its  *)
(* claim on the decision.                                                  *)
ClassifyThrows(d) ==
    /\ intake[d].at = "classify"
    /\ Mishap("throws")
    /\ GoesTo(d, "gone")
    /\ Excuses("thrown")
    /\ UNCHANGED <<rows, submissions, forgotten, fixed, relay, twoHours>>

(* A run of another lane than the job's aborts the admission.              *)
LanesAgree(d) == runLane \in {"none", intake[d].lane}

(* Both claims, run, thread and job in one transaction, which on Node is   *)
(* the end of the delivery.                                                *)
AdmitCanonical(d) ==
    /\ intake[d].at = "admit"
    /\ \/ /\ Free(EventOf(d)) /\ Free("msg") /\ LanesAgree(d)
          /\ claims' = [Purged EXCEPT ![EventOf(d)] = "held", !["msg"] = "held"]
          /\ runLane' = intake[d].lane
          /\ InsertJob(d, intake[d].lane)
          /\ GoesTo(d, IF target = "node" THEN "gone" ELSE "enqueue")
       \/ /\ ~(Free(EventOf(d)) /\ Free("msg"))
          /\ claims' = Purged
          /\ GoesTo(d, "gone")
          /\ UNCHANGED <<job, runLane, forgotten, excuse>>
    /\ UNCHANGED <<submissions, fixed, relay, twoHours, mishaps>>

(* What the transaction did is undone.  The ledger lane gives up then, the *)
(* legacy lane goes on without a run.                                      *)
AfterAbort(d) ==
    IF intake[d].lane = "legacy" THEN "claim evt"
    ELSE IF intake[d].promoted THEN "free decision" ELSE "gone"

AdmissionAborts(d) ==
    /\ intake[d].at = "admit"
    /\ GoesTo(d, AfterAbort(d))
    /\ \/ /\ Free(EventOf(d)) /\ Free("msg") /\ ~LanesAgree(d)
          /\ UNCHANGED mishaps
       \/ Mishap("store")
    /\ UNCHANGED <<rows, ghosts, fixed, relay, twoHours>>

(* Without a canonical admission, the claims one after the other.          *)
ClaimSeparately(d) ==
    /\ \/ /\ intake[d].at = "claim evt"
          /\ Claim(EventOf(d))
          /\ GoesTo(d, IF Free(EventOf(d)) THEN "claim msg" ELSE "gone")
       \/ /\ intake[d].at = "claim msg"
          /\ Claim("msg")
          /\ Becomes(d, IF Free("msg") THEN "enqueue" ELSE "unclaim evt",
                     "none", intake[d].promoted)
       \/ /\ intake[d].at = "unclaim evt"
          /\ ReleaseClaim(EventOf(d)) /\ GoesTo(d, "gone")
    /\ UNCHANGED <<job, runLane, ghosts, fixed, relay, twoHours, mishaps>>

(* Persisting the job: on Cloudflare a second time after a canonical       *)
(* admission, to set the alarm.                                            *)
Enqueue(d) ==
    /\ intake[d].at = "enqueue"
    /\ InsertJob(d, IF intake[d].lane = "ledger" THEN "ledger" ELSE "legacy")
    /\ GoesTo(d, "gone")
    /\ UNCHANGED <<claims, runLane, submissions, fixed, relay, twoHours, mishaps>>

(* Mutant: nothing is given back.                                          *)
EnqueueFailsHolding(d) ==
    /\ intake[d].at = "enqueue"
    /\ Mishap("store")
    /\ GoesTo(d, "gone")
    /\ UNCHANGED <<rows, ghosts, fixed, relay, twoHours>>

EnqueueFails(d) ==
    /\ intake[d].at = "enqueue"
    /\ Mishap("store")
    /\ GoesTo(d, "free evt")
    /\ UNCHANGED <<rows, ghosts, fixed, relay, twoHours>>

(* A delivery that gives up releases its claims, one by one.               *)
GiveUp(d) ==
    /\ \/ /\ intake[d].at = "free evt"
          /\ ReleaseClaim(EventOf(d)) /\ GoesTo(d, "free msg")
       \/ /\ intake[d].at = "free msg"
          /\ ReleaseClaim("msg")
          /\ GoesTo(d, IF intake[d].promoted THEN "free decision" ELSE "gone")
       \/ /\ intake[d].at = "free decision"
          /\ ReleaseClaim("decision") /\ GoesTo(d, "gone")
    /\ UNCHANGED <<job, runLane, ghosts, fixed, relay, twoHours, mishaps>>

-----------------------------------------------------------------------------
(* The relay: Node's drain, or the alarm of the state object.  There is    *)
(* one of it.                                                              *)

(* It begins an attempt at a pending row of the legacy lane.               *)
BeginAttempt ==
    /\ relay = "idle" /\ relay' = "runs"
    /\ job.status = "pending" /\ job.lane = "legacy"
    /\ job' = [job EXCEPT !.attempts =
                  IF @ < MaxTurnAttempts THEN @ + 1 ELSE @]
    /\ UNCHANGED <<claims, runLane, intake, fixed, ghosts, twoHours, mishaps>>

(* The turn freezes its envelope, once for its row, and dispatches it.     *)
Dispatch ==
    /\ relay = "runs" \/ (job.lane = "ledger" /\ job.status = "pending")
    /\ ~job.dispatched
    /\ job' = [job EXCEPT !.dispatched = TRUE]
    /\ submissions' = submissions + 1
    /\ UNCHANGED <<claims, runLane, intake, relay, fixed, forgotten, excuse, twoHours, mishaps>>

(* The attempt ends well, with or without an agent; or the row is set      *)
(* aside: its identity is gone, or dispatched work cannot be reattached;   *)
(* or it is left for a later attempt.                                      *)
EndAttempt ==
    /\ relay = "runs" /\ relay' = "idle"
    /\ \E status \in {"done", "recovery", "pending"} :
          job' = [job EXCEPT !.status = status]
    /\ UNCHANGED <<claims, runLane, intake, fixed, ghosts, twoHours, mishaps>>

(* Node: a turn that failed before it was dispatched is given back at once.*)
NodeGivesBack ==
    /\ target = "node" /\ relay = "runs" /\ relay' = "free evt"
    /\ ~job.dispatched
    /\ UNCHANGED <<rows, intake, fixed, ghosts, twoHours, mishaps>>

NodeFrees ==
    /\ \/ relay = "free evt" /\ ReleaseClaim(job.evt) /\ relay' = "free msg"
       \/ relay = "free msg" /\ ReleaseClaim("msg") /\ relay' = "free decision"
       \/ relay = "free decision" /\ ReleaseClaim("decision") /\ relay' = "discard"
    /\ UNCHANGED <<job, runLane, intake, fixed, ghosts, twoHours, mishaps>>

(* Only a row that was never dispatched may go.                            *)
NodeDiscards ==
    /\ relay = "discard" /\ relay' = "idle"
    /\ job' = IF job.dispatched THEN [job EXCEPT !.status = "recovery"] ELSE NoJob
    /\ UNCHANGED <<claims, runLane, intake, fixed, ghosts, twoHours, mishaps>>

(* Cloudflare: after its last attempt, or when its profile was disabled,   *)
(* the message is given back and the row closed, with nothing in between.  *)
CloudflareGivesBack ==
    /\ target = "cloudflare" /\ relay = "runs" /\ relay' = "idle"
    /\ \/ /\ ~job.dispatched /\ job.attempts = MaxTurnAttempts
          /\ job' = [job EXCEPT !.status = "error"]
       \/ job' = [job EXCEPT !.status = "done"]
    /\ claims' = [k \in Keys |->
                    IF k \in {job.evt, "msg", "decision"} THEN "free" ELSE claims[k]]
    /\ UNCHANGED <<runLane, intake, fixed, ghosts, twoHours, mishaps>>

(* A row of the ledger lane is closed or set aside by its handler.         *)
LedgerCloses ==
    /\ job.lane = "ledger" /\ job.status = "pending"
    /\ \E status \in {"done", "error", "recovery"} :
          job' = [job EXCEPT !.status = status]
    /\ UNCHANGED <<claims, runLane, intake, relay, fixed, ghosts, twoHours, mishaps>>

(* An operator closes a row that was set aside.                            *)
ResolveRecoveryRequired ==
    /\ job.status = "recovery" /\ relay = "idle"
    /\ job' = [job EXCEPT !.status = "error"]
    /\ UNCHANGED <<claims, runLane, intake, relay, fixed, ghosts, twoHours, mishaps>>

-----------------------------------------------------------------------------
(* A delivery that has, or had, the claim on the decision.                 *)
Deciding(d) == intake[d].at = "classify" \/ intake[d].promoted

(* Two hours pass, once: what is there now is old.                         *)
TwoHoursPass ==
    /\ ~twoHours /\ twoHours' = TRUE
    /\ IF \E d \in Arrivals : Deciding(d) THEN Excuses("slow") ELSE UNCHANGED excuse
    /\ claims' = [k \in Keys |-> IF claims[k] = "held" THEN "old" ELSE claims[k]]
    /\ job' = [job EXCEPT !.old = job.status # "none"]
    /\ UNCHANGED <<runLane, intake, relay, fixed, submissions, forgotten, mishaps>>

(* A delivery or the relay ends where it stands, because a call of its     *)
(* store threw, or the process does with all that runs in it.              *)
StopShort ==
    /\ Mishap("crash")
    /\ \E stopped \in {{d} : d \in Arrivals} \cup {{}, Arrivals} :
          /\ intake' = [d \in Arrivals |->
                          IF d \in stopped /\ intake[d].at # "unseen"
                          THEN Gone ELSE intake[d]]
          /\ relay' = IF stopped \in {{}, Arrivals} THEN "idle" ELSE relay
    /\ Excuses("crash")
    /\ UNCHANGED <<rows, fixed, submissions, forgotten, twoHours>>

AdmissionInit ==
    /\ target \in {"node", "cloudflare"}
    /\ candidate \in BOOLEAN
    /\ claims = [k \in Keys |-> "free"]
    /\ job = NoJob
    /\ runLane = "none"
    /\ intake = [d \in Arrivals |-> [Gone EXCEPT !.at = "unseen"]]
    /\ relay = "idle"
    /\ twoHours = FALSE /\ mishaps = 0
    /\ submissions = 0 /\ forgotten = FALSE /\ excuse = "none"

DeliveryStep(d) ==
    \/ Receive(d) \/ LearnTruth(d) \/ Decline(d) \/ ClaimDecision(d) \/ Classify(d)
    \/ ClassifyThrows(d) \/ AdmitCanonical(d) \/ AdmissionAborts(d)
    \/ ClaimSeparately(d) \/ Enqueue(d) \/ EnqueueFails(d) \/ GiveUp(d)

RelayStep ==
    \/ BeginAttempt \/ Dispatch \/ EndAttempt \/ NodeGivesBack \/ NodeFrees
    \/ NodeDiscards \/ CloudflareGivesBack \/ LedgerCloses \/ ResolveRecoveryRequired

AdmissionNext ==
    \/ \E d \in Arrivals : DeliveryStep(d)
    \/ RelayStep \/ TwoHoursPass \/ StopShort

AdmissionSpec == AdmissionInit /\ [][AdmissionNext]_admissionVars

-----------------------------------------------------------------------------
(* However often Slack delivers a message, and whatever is released and    *)
(* claimed again meanwhile, one turn of it is dispatched, as long as its   *)
(* tombstone is kept.                                                      *)
OneTurnPerMessage == submissions > 1 => forgotten

(* A message whose claims keep every other delivery away has somebody who  *)
(* answers it or has set it aside: a delivery at work, or a row.  Not so   *)
(* after a crash, after a candidate was declined, after its classification *)
(* threw, after a redelivery met a row that the relay was discarding, and  *)
(* after a delivery outlived the claim under which it classified.          *)
NoMessageIsStranded ==
    \/ "held" \notin {claims["msg"], claims["decision"]}
    \/ job.status # "none" \/ relay # "idle"
    \/ \E d \in Arrivals : intake[d].at \notin {"unseen", "gone"}
    \/ excuse # "none" \/ forgotten
=============================================================================
