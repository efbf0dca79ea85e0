------------------------- MODULE SlackAdmissionProofs -------------------------
(***************************************************************************)
(* Theorems about SlackAdmission, for any number of deliveries of the two  *)
(* events, attempts and mishaps.                                           *)
(*                                                                         *)
(* A message may be admitted more than once: its claims are released when  *)
(* a turn fails early.  What keeps it to one turn is the row: it is        *)
(* inserted under the message's name, it remembers that its turn was       *)
(* dispatched, and it is discarded only before.  The inductive invariant   *)
(* AdmissionInv says so: the row, as long as its tombstone is kept, counts *)
(* the dispatches, and the relay works on a pending row of its own lane.   *)
(* The second half, WatchInv, is about claims: whoever they keep away is   *)
(* answered for by a delivery at work or by a row.                         *)
(***************************************************************************)
EXTENDS SlackAdmission, TLAPS

(* What the relay works on stays what it is until it is through with it.   *)
RelayInv ==
    relay # "idle" => job.status = "pending" /\ job.lane = "legacy"

(* The row knows of every dispatch.                                        *)
CountInv ==
    /\ job.status = "none" => ~job.dispatched
    /\ ~forgotten => submissions = IF job.dispatched THEN 1 ELSE 0

(* A delivery that asks for the canonical admission has chosen a lane.     *)
LaneChosen ==
    \A d \in Arrivals :
        intake[d].at \in {"decide", "classify", "admit"} => intake[d].lane # "none"

AdmissionInv == AdmissionTypeOK /\ RelayInv /\ CountInv /\ LaneChosen

IntakeType == [Arrivals -> [at : IntakeSteps, lane : Lanes, promoted : BOOLEAN]]
ClaimsType == [Keys -> {"free", "held", "old"}]
JobType ==
    [status : JobStatuses, evt : EventKeys, dispatched : BOOLEAN,
     lane : {"legacy", "ledger"}, attempts : 0..MaxTurnAttempts, old : BOOLEAN]

-----------------------------------------------------------------------------
(* A delivery goes on, the others stay where they are.                     *)
LEMMA OneDeliveryMoves ==
    ASSUME intake \in IntakeType, LaneChosen, NEW d \in Arrivals, NEW at \in IntakeSteps,
           NEW lane \in Lanes, NEW promoted \in BOOLEAN,
           at \in {"decide", "classify", "admit"} => lane # "none",
           Becomes(d, at, lane, promoted)
    PROVE  intake' \in IntakeType /\ LaneChosen'
BY DEF Becomes, IntakeType, LaneChosen

LEMMA IntakeStays ==
    ASSUME intake \in IntakeType, LaneChosen,
           NEW d \in Arrivals, NEW step \in IntakeSteps, GoesTo(d, step),
           step \in {"decide", "classify", "admit"} => intake[d].lane # "none"
    PROVE  intake' \in IntakeType /\ LaneChosen'
<1>1. intake[d] \in [at : IntakeSteps, lane : Lanes, promoted : BOOLEAN]
  BY DEF IntakeType
<1>2. CASE step = "gone"
  <2>1. Becomes(d, "gone", "none", FALSE)
    BY <1>2 DEF GoesTo, Gone, Becomes
  <2> QED
    BY <1>2, <2>1, OneDeliveryMoves DEF Lanes
<1>3. CASE step # "gone"
  <2>1. Becomes(d, step, intake[d].lane, intake[d].promoted)
    BY <1>3 DEF GoesTo
  <2> QED
    BY <1>1, <2>1, OneDeliveryMoves
<1> QED
  BY <1>2, <1>3

LEMMA PurgedIsTyped ==
    ASSUME claims \in ClaimsType
    PROVE  Purged \in ClaimsType
BY DEF ClaimsType, Purged

LEMMA ClaimStays ==
    ASSUME claims \in ClaimsType, NEW k \in Keys, Claim(k) \/ ReleaseClaim(k)
    PROVE  claims' \in ClaimsType
BY PurgedIsTyped DEF ClaimsType, Claim, ReleaseClaim

LEMMA KeysAreKeys ==
    /\ "msg" \in Keys /\ "decision" \in Keys
    /\ \A d \in Arrivals : EventOf(d) \in Keys /\ EventOf(d) \in EventKeys
    /\ EventKeys \subseteq Keys
BY DEF Keys, EventKeys, EventOf

(* Inserting the row counts no dispatch, and touches no row at work.       *)
LEMMA InsertKeepsCount ==
    ASSUME AdmissionInv, NEW d \in Arrivals, NEW lane \in {"legacy", "ledger"},
           InsertJob(d, lane), UNCHANGED <<relay, submissions>>
    PROVE  /\ job' \in JobType /\ RelayInv' /\ CountInv'
           /\ forgotten' \in BOOLEAN
           /\ excuse' \in {"none", "crash", "thrown", "declined", "raced", "slow"}
<1>1. NewJob(d, lane) \in JobType
  <2>1. "pending" \in JobStatuses /\ EventOf(d) \in EventKeys /\ 0 \in 0..MaxTurnAttempts
    BY KeysAreKeys, AttemptsAssumption DEF JobStatuses, NotTerminal
  <2> QED
    BY <2>1 DEF NewJob, JobType
<1>2. job \in JobType
  BY DEF AdmissionInv, AdmissionTypeOK, JobType
<1>3. job' \in JobType
  BY <1>1, <1>2 DEF InsertJob
<1>4. forgotten \in BOOLEAN /\ excuse \in {"none", "crash", "thrown", "declined", "raced", "slow"}
  BY DEF AdmissionInv, AdmissionTypeOK
<1>5. forgotten' \in BOOLEAN
  BY <1>2, <1>4 DEF InsertJob, Outlived, JobType
<1>6. excuse' \in {"none", "crash", "thrown", "declined", "raced", "slow"}
  BY <1>4 DEF InsertJob, Excuses
<1>7. CASE job.status = "none" \/ Outlived
  <2>1. job' = NewJob(d, lane)
    BY <1>7 DEF InsertJob
  <2>2. job'.status = "pending" /\ ~job'.dispatched
    BY <2>1 DEF NewJob, NoJob
  <2>3. relay = "idle"
    BY <1>7 DEF AdmissionInv, RelayInv, Outlived
  <2>4. forgotten' \/ (~forgotten /\ ~job.dispatched)
    BY <1>7 DEF InsertJob, AdmissionInv, CountInv, Outlived
  <2>5. ~forgotten' => submissions = 0
    BY <2>4 DEF InsertJob, AdmissionInv, CountInv
  <2> QED
    BY <1>3, <1>5, <1>6, <2>2, <2>3, <2>5 DEF RelayInv, CountInv
<1>8. CASE ~(job.status = "none" \/ Outlived)
  <2>1. job' = job /\ forgotten' = forgotten
    BY <1>4, <1>8 DEF InsertJob
  <2> QED
    BY <1>3, <1>5, <1>6, <2>1 DEF AdmissionInv, RelayInv, CountInv
<1> QED
  BY <1>7, <1>8

-----------------------------------------------------------------------------
(* The steps of a delivery.                                                *)
LEMMA DeliveryKeepsInv ==
    ASSUME AdmissionInv, NEW d \in Arrivals, DeliveryStep(d)
    PROVE  AdmissionInv'
<1> USE DEF AdmissionInv
<1>1. /\ intake \in IntakeType /\ claims \in ClaimsType /\ job \in JobType
      /\ Purged \in ClaimsType
  BY PurgedIsTyped DEF AdmissionTypeOK, IntakeType, ClaimsType, JobType
<1>a. ASSUME NEW kind, Mishap(kind)
      PROVE  mishaps' \in 0..MaxMishaps
  BY <1>a, AttemptsAssumption DEF Mishap, AdmissionTypeOK
<1>b. ASSUME NEW reason \in {"crash", "thrown", "declined", "raced", "slow"}, Excuses(reason)
      PROVE  excuse' \in {"none", "crash", "thrown", "declined", "raced", "slow"}
  BY <1>b DEF Excuses, AdmissionTypeOK
(* Steps that leave the row and the ghosts of its dispatch alone.          *)
<1>c. ASSUME intake' \in IntakeType, LaneChosen', claims' \in ClaimsType,
             excuse' \in {"none", "crash", "thrown", "declined", "raced", "slow"},
             mishaps' \in 0..MaxMishaps,
             UNCHANGED <<job, runLane, submissions, forgotten, fixed, relay, twoHours>>
      PROVE  AdmissionInv'
  BY <1>c DEF AdmissionTypeOK, RelayInv, CountInv, IntakeType, ClaimsType, JobType, fixed
<1>2. CASE Receive(d)
  <2>1. intake' \in IntakeType /\ LaneChosen'
    BY <1>1, <1>2, IntakeStays DEF Receive, IntakeSteps
  <2> QED
    BY <1>1, <1>2, <1>c, <2>1
       DEF Receive, rows, ghosts, fixed, AdmissionTypeOK
<1>3. CASE LearnTruth(d)
  <2>1. intake' \in IntakeType /\ LaneChosen'
    <3>1. CASE GoesTo(d, "gone")
      BY <1>1, <3>1, IntakeStays DEF IntakeSteps
    <3>2. CASE ~GoesTo(d, "gone")
      <4>1. PICK lane \in Lanes :
              Becomes(d,
                      IF candidate THEN IF lane = "none" THEN "decline evt" ELSE "decide"
                      ELSE IF lane = "none" THEN "claim evt" ELSE "admit",
                      lane, intake[d].promoted)
        BY <1>3, <3>2 DEF LearnTruth
      <4>2. PICK at \in {"decline evt", "decide", "claim evt", "admit"} :
              /\ at \in {"decide", "admit"} => lane # "none"
              /\ Becomes(d, at, lane, intake[d].promoted)
        BY <4>1
      <4>3. intake[d].promoted \in BOOLEAN
        BY <1>1 DEF IntakeType
      <4> QED
        BY <1>1, <4>2, <4>3, OneDeliveryMoves DEF IntakeSteps
    <3> QED
      BY <3>1, <3>2
  <2> QED
    BY <1>1, <1>3, <1>c, <2>1
       DEF LearnTruth, rows, ghosts, fixed, AdmissionTypeOK
<1>4. CASE Decline(d)
  <2>1. intake' \in IntakeType /\ LaneChosen'
    BY <1>1, <1>4, IntakeStays DEF Decline, IntakeSteps
  <2>2. claims' \in ClaimsType
    BY <1>1, <1>4, ClaimStays, KeysAreKeys DEF Decline
  <2>3. excuse' \in {"none", "crash", "thrown", "declined", "raced", "slow"}
    BY <1>4, <1>b DEF Decline, AdmissionTypeOK
  <2> QED
    BY <1>1, <1>4, <1>c, <2>1, <2>2, <2>3 DEF Decline, AdmissionTypeOK
<1>5. CASE ClaimDecision(d)
  <2>1. intake' \in IntakeType /\ LaneChosen'
    <3>1. intake[d].lane # "none"
      BY <1>5 DEF ClaimDecision, LaneChosen
    <3>2. CASE Free("decision")
      BY <1>1, <1>5, <3>1, <3>2, IntakeStays DEF ClaimDecision, IntakeSteps
    <3>3. CASE ~Free("decision")
      BY <1>1, <1>5, <3>1, <3>3, IntakeStays DEF ClaimDecision, IntakeSteps
    <3> QED
      BY <3>2, <3>3
  <2>2. claims' \in ClaimsType
    BY <1>1, <1>5, ClaimStays, KeysAreKeys DEF ClaimDecision
  <2> QED
    BY <1>1, <1>5, <1>c, <2>1, <2>2 DEF ClaimDecision, ghosts, AdmissionTypeOK
<1>6. CASE Classify(d)
  <2>1. intake' \in IntakeType /\ LaneChosen'
    <3>1. PICK at \in {"admit", "decline evt", "free decision"} :
            Becomes(d, at, intake[d].lane, at # "decline evt")
      BY <1>6 DEF Classify
    <3>2. intake[d].lane \in Lanes /\ intake[d].lane # "none"
      BY <1>1, <1>6 DEF Classify, IntakeType, LaneChosen
    <3>3. PICK promoted \in BOOLEAN : promoted = (at # "decline evt")
      OBVIOUS
    <3> QED
      BY <1>1, <3>1, <3>2, <3>3, OneDeliveryMoves DEF IntakeSteps
  <2> QED
    BY <1>1, <1>6, <1>c, <2>1 DEF Classify, rows, ghosts, fixed, AdmissionTypeOK
<1>7. CASE ClassifyThrows(d)
  <2>1. intake' \in IntakeType /\ LaneChosen'
    BY <1>1, <1>7, IntakeStays DEF ClassifyThrows, IntakeSteps
  <2>2. /\ mishaps' \in 0..MaxMishaps
        /\ excuse' \in {"none", "crash", "thrown", "declined", "raced", "slow"}
    BY <1>7, <1>a, <1>b DEF ClassifyThrows
  <2> QED
    BY <1>1, <1>7, <1>c, <2>1, <2>2 DEF ClassifyThrows, rows, fixed, AdmissionTypeOK
<1>8. CASE AdmitCanonical(d)
  <2>1. CASE Free(EventOf(d)) /\ Free("msg")
    <3>1. InsertJob(d, intake[d].lane) /\ UNCHANGED <<relay, submissions>>
      BY <1>8, <2>1 DEF AdmitCanonical
    <3>2. CASE intake[d].lane \in {"legacy", "ledger"}
      <4>1. /\ job' \in JobType /\ RelayInv' /\ CountInv' /\ forgotten' \in BOOLEAN
            /\ excuse' \in {"none", "crash", "thrown", "declined", "raced", "slow"}
        BY <3>1, <3>2, InsertKeepsCount
      <4>2. intake' \in IntakeType /\ LaneChosen'
        BY <1>1, <1>8, <2>1, IntakeStays DEF AdmitCanonical, IntakeSteps
      <4>3. claims' \in ClaimsType
        BY <1>1, <1>8, <2>1, KeysAreKeys DEF AdmitCanonical, ClaimsType
      <4>4. runLane' \in Lanes
        BY <1>8, <2>1, <3>2 DEF AdmitCanonical, Lanes
      <4> QED
        BY <1>8, <4>1, <4>2, <4>3, <4>4
           DEF AdmitCanonical, AdmissionTypeOK, IntakeType, ClaimsType, JobType, fixed
    <3>3. intake[d].lane \in {"legacy", "ledger"}
      BY <1>1, <1>8 DEF AdmitCanonical, LaneChosen, IntakeType, Lanes
    <3> QED
      BY <3>2, <3>3
  <2>2. CASE ~(Free(EventOf(d)) /\ Free("msg"))
    <3>1. intake' \in IntakeType /\ LaneChosen'
      BY <1>1, <1>8, <2>2, IntakeStays DEF AdmitCanonical, IntakeSteps
    <3> QED
      BY <1>1, <1>8, <1>c, <2>2, <3>1 DEF AdmitCanonical, AdmissionTypeOK
  <2> QED
    BY <2>1, <2>2
<1>9. CASE AdmissionAborts(d)
  <2>1. AfterAbort(d) \in IntakeSteps
    BY DEF AfterAbort, IntakeSteps
  <2>2. intake' \in IntakeType /\ LaneChosen'
    <3>1. AfterAbort(d) \notin {"decide", "classify", "admit"}
      BY DEF AfterAbort
    <3> QED
      BY <1>1, <1>9, <2>1, <3>1, IntakeStays DEF AdmissionAborts
  <2>3. mishaps' \in 0..MaxMishaps
    BY <1>9, <1>a DEF AdmissionAborts, AdmissionTypeOK
  <2> QED
    BY <1>1, <1>9, <1>c, <2>2, <2>3
       DEF AdmissionAborts, rows, ghosts, fixed, AdmissionTypeOK
<1>10. CASE ClaimSeparately(d)
  <2>1. claims' \in ClaimsType
    BY <1>1, <1>10, ClaimStays, KeysAreKeys DEF ClaimSeparately
  <2>2. intake' \in IntakeType /\ LaneChosen'
    <3>1. CASE intake[d].at = "claim msg"
      <4>1. PICK at \in {"enqueue", "unclaim evt"} :
              Becomes(d, at, "none", intake[d].promoted)
        BY <1>10, <3>1 DEF ClaimSeparately
      <4>2. intake[d].promoted \in BOOLEAN
        BY <1>1 DEF IntakeType
      <4> QED
        BY <1>1, <4>1, <4>2, OneDeliveryMoves DEF IntakeSteps, Lanes
    <3>2. CASE intake[d].at # "claim msg"
      BY <1>1, <1>10, <3>2, IntakeStays DEF ClaimSeparately, IntakeSteps
    <3> QED
      BY <3>1, <3>2
  <2> QED
    BY <1>1, <1>10, <1>c, <2>1, <2>2 DEF ClaimSeparately, ghosts, AdmissionTypeOK
<1>11. CASE Enqueue(d)
  <2>1. /\ job' \in JobType /\ RelayInv' /\ CountInv' /\ forgotten' \in BOOLEAN
        /\ excuse' \in {"none", "crash", "thrown", "declined", "raced", "slow"}
    BY <1>11, InsertKeepsCount DEF Enqueue
  <2>2. intake' \in IntakeType /\ LaneChosen'
    BY <1>1, <1>11, IntakeStays DEF Enqueue, IntakeSteps
  <2> QED
    BY <1>11, <2>1, <2>2
       DEF Enqueue, AdmissionTypeOK, IntakeType, ClaimsType, JobType, fixed
<1>12. CASE EnqueueFails(d)
  <2>1. intake' \in IntakeType /\ LaneChosen'
    BY <1>1, <1>12, IntakeStays DEF EnqueueFails, IntakeSteps
  <2>2. mishaps' \in 0..MaxMishaps
    BY <1>12, <1>a DEF EnqueueFails
  <2> QED
    BY <1>1, <1>12, <1>c, <2>1, <2>2
       DEF EnqueueFails, rows, ghosts, fixed, AdmissionTypeOK
<1>13. CASE GiveUp(d)
  <2>1. claims' \in ClaimsType
    BY <1>1, <1>13, ClaimStays, KeysAreKeys DEF GiveUp
  <2>2. intake' \in IntakeType /\ LaneChosen'
    BY <1>1, <1>13, IntakeStays DEF GiveUp, IntakeSteps
  <2> QED
    BY <1>1, <1>13, <1>c, <2>1, <2>2 DEF GiveUp, ghosts, AdmissionTypeOK
<1> QED
  BY <1>2, <1>3, <1>4, <1>5, <1>6, <1>7, <1>8, <1>9, <1>10, <1>11, <1>12, <1>13
     DEF DeliveryStep

-----------------------------------------------------------------------------
(* The steps of the relay: it begins only at a pending row of its lane, and *)
(* gives a row up only while nothing of it was dispatched.                 *)
LEMMA RelayKeepsInv ==
    ASSUME AdmissionInv, RelayStep
    PROVE  AdmissionInv'
<1> USE DEF AdmissionInv
<1>1. /\ intake \in IntakeType /\ claims \in ClaimsType /\ job \in JobType
      /\ relay \in RelaySteps
  BY DEF AdmissionTypeOK, IntakeType, ClaimsType, JobType
<1>2. job.evt \in Keys /\ "msg" \in Keys /\ "decision" \in Keys
  BY <1>1, KeysAreKeys DEF JobType
(* Steps that leave the count alone.                                       *)
<1>c. ASSUME claims' \in ClaimsType, job' \in JobType, relay' \in RelaySteps,
             RelayInv', job'.dispatched = job.dispatched,
             job'.status = "none" => ~job.dispatched,
             UNCHANGED <<runLane, intake, fixed, ghosts, twoHours, mishaps>>
      PROVE  AdmissionInv'
  BY <1>c DEF AdmissionTypeOK, CountInv, LaneChosen, IntakeType, ClaimsType, JobType,
              fixed, ghosts
<1>3. CASE BeginAttempt
  <2>1. job' \in JobType
    BY <1>1, <1>3, AttemptsAssumption DEF BeginAttempt, JobType
  <2> QED
    BY <1>1, <1>3, <1>c, <2>1 DEF BeginAttempt, JobType, RelaySteps, RelayInv
<1>4. CASE Dispatch
  <2>1. job' = [job EXCEPT !.dispatched = TRUE] /\ ~job.dispatched
    BY <1>4 DEF Dispatch
  <2>2. job' \in JobType /\ job'.dispatched /\ job'.status = job.status
        /\ job'.lane = job.lane
    BY <1>1, <2>1 DEF JobType
  <2>3. job.status = "pending"
    BY <1>4 DEF Dispatch, RelayInv
  <2>4. RelayInv'
    BY <1>4, <2>2 DEF Dispatch, RelayInv
  <2>5. CountInv' /\ submissions' \in Nat
    BY <1>4, <2>1, <2>2, <2>3 DEF Dispatch, CountInv, AdmissionTypeOK
  <2> QED
    BY <1>1, <1>4, <2>2, <2>4, <2>5
       DEF Dispatch, AdmissionTypeOK, LaneChosen, IntakeType, ClaimsType, JobType, fixed
<1>5. CASE EndAttempt
  <2>1. PICK status \in {"done", "recovery", "pending"} :
          job' = [job EXCEPT !.status = status]
    BY <1>5 DEF EndAttempt
  <2>2. job' \in JobType /\ job'.dispatched = job.dispatched /\ job'.status # "none"
    BY <1>1, <2>1 DEF JobType, JobStatuses, NotTerminal
  <2> QED
    BY <1>1, <1>5, <1>c, <2>2 DEF EndAttempt, RelaySteps, RelayInv
<1>6. CASE NodeGivesBack
  BY <1>1, <1>6, <1>c DEF NodeGivesBack, rows, RelaySteps, RelayInv, CountInv
<1>7. CASE NodeFrees
  <2>1. claims' \in ClaimsType
    BY <1>1, <1>2, <1>7, ClaimStays DEF NodeFrees
  <2>2. relay' \in RelaySteps /\ RelayInv'
    BY <1>7 DEF NodeFrees, RelaySteps, RelayInv
  <2> QED
    BY <1>1, <1>7, <1>c, <2>1, <2>2 DEF NodeFrees, CountInv
<1>8. CASE NodeDiscards
  <2>1. CASE job.dispatched
    <3>1. job' = [job EXCEPT !.status = "recovery"]
      BY <1>8, <2>1 DEF NodeDiscards
    <3>2. job' \in JobType /\ job'.dispatched = job.dispatched /\ job'.status # "none"
      BY <1>1, <3>1 DEF JobType, JobStatuses, NotTerminal
    <3> QED
      BY <1>1, <1>8, <1>c, <3>2 DEF NodeDiscards, RelaySteps, RelayInv
  <2>2. CASE ~job.dispatched
    <3>1. job' = NoJob
      BY <1>8, <2>2 DEF NodeDiscards
    <3>2. job' \in JobType /\ job'.dispatched = FALSE
      BY <3>1, AttemptsAssumption DEF NoJob, JobType, JobStatuses, EventKeys
    <3>3. job.dispatched = FALSE
      BY <1>1, <2>2 DEF JobType
    <3> QED
      BY <1>1, <1>8, <1>c, <2>2, <3>2, <3>3 DEF NodeDiscards, RelaySteps, RelayInv
  <2> QED
    BY <2>1, <2>2
<1>9. CASE CloudflareGivesBack
  <2>1. claims' \in ClaimsType
    BY <1>1, <1>9 DEF CloudflareGivesBack, ClaimsType
  <2>2. PICK status \in {"error", "done"} : job' = [job EXCEPT !.status = status]
    BY <1>9 DEF CloudflareGivesBack
  <2>3. job' \in JobType /\ job'.dispatched = job.dispatched /\ job'.status # "none"
    BY <1>1, <2>2 DEF JobType, JobStatuses, NotTerminal
  <2> QED
    BY <1>1, <1>9, <1>c, <2>1, <2>3 DEF CloudflareGivesBack, RelaySteps, RelayInv
<1>10. CASE LedgerCloses
  <2>1. PICK status \in {"done", "error", "recovery"} : job' = [job EXCEPT !.status = status]
    BY <1>10 DEF LedgerCloses
  <2>2. job' \in JobType /\ job'.dispatched = job.dispatched /\ job'.status # "none"
    BY <1>1, <2>1 DEF JobType, JobStatuses, NotTerminal
  <2>3. relay = "idle"
    BY <1>10 DEF LedgerCloses, RelayInv
  <2> QED
    BY <1>1, <1>10, <1>c, <2>2, <2>3 DEF LedgerCloses, RelayInv
<1>11. CASE ResolveRecoveryRequired
  <2>1. job' \in JobType /\ job'.dispatched = job.dispatched /\ job'.status # "none"
    BY <1>1, <1>11 DEF ResolveRecoveryRequired, JobType, JobStatuses, NotTerminal
  <2> QED
    BY <1>1, <1>11, <1>c, <2>1 DEF ResolveRecoveryRequired, RelayInv
<1> QED
  BY <1>3, <1>4, <1>5, <1>6, <1>7, <1>8, <1>9, <1>10, <1>11 DEF RelayStep

-----------------------------------------------------------------------------
(* Time and mishaps touch neither what a row knows nor who works on it.    *)
LEMMA TimeKeepsInv ==
    ASSUME AdmissionInv, TwoHoursPass
    PROVE  AdmissionInv'
<1>1. claims \in [Keys -> {"free", "held", "old"}] /\ job \in JobType
  BY DEF AdmissionInv, AdmissionTypeOK, JobType
<1>2. claims' \in [Keys -> {"free", "held", "old"}]
  BY <1>1 DEF TwoHoursPass
<1>3. PICK old \in BOOLEAN : job' = [job EXCEPT !.old = old]
  BY DEF TwoHoursPass
<1>4. /\ job' \in JobType /\ job'.dispatched = job.dispatched
      /\ job'.status = job.status /\ job'.lane = job.lane
  BY <1>1, <1>3 DEF JobType
<1>5. excuse' \in {"none", "crash", "thrown", "declined", "raced", "slow"}
  BY DEF TwoHoursPass, Excuses, AdmissionInv, AdmissionTypeOK
<1> QED
  BY <1>2, <1>4, <1>5 DEF TwoHoursPass, AdmissionInv, AdmissionTypeOK, RelayInv, CountInv,
                    LaneChosen, JobType, fixed, ghosts

LEMMA MishapsKeepInv ==
    ASSUME AdmissionInv, StopShort
    PROVE  AdmissionInv'
<1> USE DEF AdmissionInv
<1>1. PICK stopped \in {{d} : d \in Arrivals} \cup {{}, Arrivals} :
        /\ intake' = [d \in Arrivals |->
                        IF d \in stopped /\ intake[d].at # "unseen"
                        THEN Gone ELSE intake[d]]
        /\ relay' = IF stopped \in {{}, Arrivals} THEN "idle" ELSE relay
  BY DEF StopShort
<1>2. intake \in IntakeType
  BY DEF AdmissionTypeOK, IntakeType
<1>3. Gone \in [at : IntakeSteps, lane : Lanes, promoted : BOOLEAN] /\ Gone.at = "gone"
  BY DEF Gone, IntakeSteps, Lanes
<1>4. intake' \in IntakeType /\ LaneChosen'
  BY <1>1, <1>2, <1>3 DEF IntakeType, LaneChosen
<1>5. relay' \in RelaySteps /\ RelayInv'
  BY <1>1 DEF StopShort, rows, AdmissionTypeOK, RelaySteps, RelayInv
<1>6. mishaps' \in 0..MaxMishaps
  BY AttemptsAssumption DEF StopShort, Mishap, AdmissionTypeOK
<1>7. excuse' \in {"none", "crash", "thrown", "declined", "raced", "slow"}
  BY DEF StopShort, Excuses, AdmissionTypeOK
<1> QED
  BY <1>4, <1>5, <1>6, <1>7
     DEF StopShort, rows, fixed, AdmissionTypeOK, CountInv, IntakeType

LEMMA AdmissionStarts ==
    ASSUME AdmissionInit
    PROVE  AdmissionInv
<1>1. NoJob \in JobType /\ NoJob.status = "none" /\ ~NoJob.dispatched
  BY AttemptsAssumption DEF NoJob, JobType, JobStatuses, EventKeys
<1>2. /\ [Gone EXCEPT !.at = "unseen"] \in [at : IntakeSteps, lane : Lanes, promoted : BOOLEAN]
      /\ [Gone EXCEPT !.at = "unseen"].at = "unseen"
  BY DEF Gone, IntakeSteps, Lanes
<1>3. intake \in IntakeType /\ LaneChosen
  BY <1>2 DEF AdmissionInit, IntakeType, LaneChosen
<1>4. claims \in [Keys -> {"free", "held", "old"}]
  BY DEF AdmissionInit
<1>5. job \in JobType /\ RelayInv /\ CountInv
  BY <1>1 DEF AdmissionInit, RelayInv, CountInv
<1>6. runLane \in Lanes /\ relay \in RelaySteps
  BY DEF AdmissionInit, Lanes, RelaySteps
<1>7. mishaps \in 0..MaxMishaps /\ submissions \in Nat
  BY AttemptsAssumption DEF AdmissionInit
<1>8. AdmissionTypeOK
  BY <1>3, <1>4, <1>5, <1>6, <1>7 DEF AdmissionInit, AdmissionTypeOK, IntakeType, JobType
<1> QED
  BY <1>3, <1>5, <1>8 DEF AdmissionInv

LEMMA AdmissionInvStep ==
    ASSUME AdmissionInv, [AdmissionNext]_admissionVars
    PROVE  AdmissionInv'
<1>1. CASE AdmissionNext
  BY <1>1, DeliveryKeepsInv, RelayKeepsInv, TimeKeepsInv, MishapsKeepInv DEF AdmissionNext
<1>2. CASE UNCHANGED admissionVars
  BY <1>2 DEF admissionVars, AdmissionInv, AdmissionTypeOK, RelayInv, CountInv, LaneChosen
<1> QED
  BY <1>1, <1>2

-----------------------------------------------------------------------------
(* One message, one turn: however its deliveries, releases, mishaps and the *)
(* relay interleave, a turn of it is dispatched once, as long as the       *)
(* tombstone of its row is kept; and the state is well typed.              *)
THEOREM OneTurnForEachMessage == AdmissionSpec => [](AdmissionTypeOK /\ OneTurnPerMessage)
<1>1. AdmissionInit => AdmissionInv
  BY AdmissionStarts
<1>2. AdmissionInv /\ [AdmissionNext]_admissionVars => AdmissionInv'
  BY AdmissionInvStep
<1>3. AdmissionInv => AdmissionTypeOK /\ OneTurnPerMessage
  BY DEF AdmissionInv, CountInv, OneTurnPerMessage, AdmissionTypeOK
<1> QED
  BY <1>1, <1>2, <1>3, PTL DEF AdmissionSpec

-----------------------------------------------------------------------------
(* Nobody waits for ever.  What a claim keeps away is answered for by a    *)
(* row that stands, that is, one the relay is not about to discard, or by  *)
(* a delivery that holds the claim.  The claim on a decision is the last   *)
(* one released, so it takes all of WatchInv to say who holds it: while no *)
(* row stands at most one delivery does, and a redelivery that finds the   *)
(* other two claims taken finds them taken by somebody at work.            *)

GivingBack == {"free evt", "free msg", "free decision", "discard"}
Decided == {"admit", "claim evt", "claim msg", "unclaim evt", "enqueue",
            "free evt", "free msg", "free decision"}
HoldsMessage == {"enqueue", "free evt", "free msg"}
HoldsEvent == {"decline msg", "claim msg", "unclaim evt", "enqueue", "free evt"}
Declining == {"decline evt", "decline msg"}

At(d, steps) == intake[d].at \in steps
NoExcuse == excuse = "none" /\ ~forgotten
RowStands == job.status # "none" /\ relay # "discard"

GiveBackInv == relay \in GivingBack => ~job.dispatched /\ target = "node"

(* What an ambient message, with its one event, goes through.              *)
ShapeInv ==
    /\ \A d \in Arrivals : intake[d].promoted => At(d, Decided)
    /\ candidate =>
          /\ \A d \in Siblings : At(d, {"unseen"})
          /\ job.evt = "first"
          /\ \A d \in Arrivals : At(d, Decided) => intake[d].promoted
    /\ ~candidate =>
          /\ claims["decision"] = "free"
          /\ \A d \in Arrivals : ~Deciding(d) /\ ~At(d, {"decide"})

MessageIsWatched ==
    (/\ NoExcuse
     /\ \/ claims["msg"] = "held" /\ job.status = "none"
        \/ claims["msg"] # "free" /\ relay \in {"free decision", "discard"})
    => \E d \in Arrivals : At(d, HoldsMessage)

EventIsWatched ==
    (/\ candidate /\ NoExcuse
     /\ \/ claims["first"] = "held" /\ job.status = "none"
        \/ /\ claims["first"] # "free"
           /\ relay \in {"free msg", "free decision", "discard"})
    => \E d \in Arrivals : At(d, HoldsEvent)

DecisionIsWatched ==
    (candidate /\ NoExcuse /\ ~RowStands) =>
       /\ \A d, e \in Arrivals : Deciding(d) /\ Deciding(e) => d = e
       /\ \A d \in Arrivals : Deciding(d) => claims["decision"] = "held"
       /\ claims["decision"] = "held"
            => \E d \in Arrivals : Deciding(d) \/ At(d, Declining)
       /\ \A d \in Arrivals : ~At(d, {"unclaim evt"})

PendingIsAlone ==
    (/\ candidate /\ NoExcuse /\ target = "node"
     /\ RowStands /\ job.status \in NotTerminal) =>
       /\ \A d \in Arrivals : ~Deciding(d)
       /\ claims["decision"] # "free"

WatchInv ==
    /\ GiveBackInv /\ ShapeInv /\ MessageIsWatched /\ EventIsWatched
    /\ DecisionIsWatched /\ PendingIsAlone

LEMMA WatchStarts ==
    ASSUME AdmissionInit
    PROVE  WatchInv
<1>1. \A d \in Arrivals : intake[d].at = "unseen" /\ intake[d].promoted = FALSE
  BY DEF AdmissionInit, Gone
<1>2. job.status = "none" /\ job.evt = "first" /\ ~job.dispatched
  BY DEF AdmissionInit, NoJob
<1>3. /\ claims["msg"] = "free" /\ claims["decision"] = "free"
      /\ claims["first"] = "free" /\ relay = "idle"
  BY DEF AdmissionInit, Keys, EventKeys
<1> QED
  BY <1>1, <1>2, <1>3, ArrivalsAssumption
     DEF WatchInv, GiveBackInv, ShapeInv, MessageIsWatched, EventIsWatched,
         DecisionIsWatched, PendingIsAlone, At, Deciding, GivingBack, Decided,
         RowStands

(* One delivery moves, the others stay.                                    *)
Moves(d, at, promoted) ==
    /\ intake'[d].at = at /\ intake'[d].promoted = promoted
    /\ \A e \in Arrivals \ {d} : intake'[e] = intake[e]

LEMMA MovesOn ==
    ASSUME intake \in IntakeType, NEW d \in Arrivals, NEW step \in IntakeSteps,
           GoesTo(d, step)
    PROVE  Moves(d, step, IF step = "gone" THEN FALSE ELSE intake[d].promoted)
<1>1. CASE step = "gone"
  <2>1. intake' = [intake EXCEPT ![d] = Gone]
    BY <1>1 DEF GoesTo
  <2> QED BY <1>1, <2>1 DEF IntakeType, Gone, Moves
<1>2. CASE step # "gone"
  BY <1>2 DEF IntakeType, GoesTo, Becomes, Moves
<1> QED BY <1>1, <1>2

LEMMA BecomesMoves ==
    ASSUME intake \in IntakeType, NEW d \in Arrivals, NEW at, NEW lane,
           NEW promoted, Becomes(d, at, lane, promoted)
    PROVE  Moves(d, at, promoted)
BY DEF IntakeType, Becomes, Moves

(* What a purge, and with it every claim, does to a key.                   *)
Kept(k) ==
    \/ claims'[k] = claims[k]
    \/ claims[k] = "old" /\ claims'[k] = "free" /\ k \notin Protected

LEMMA PurgeKeeps ==
    ASSUME claims \in ClaimsType, NEW k \in Keys
    PROVE  /\ \/ Purged[k] = claims[k]
              \/ claims[k] = "old" /\ Purged[k] = "free" /\ k \notin Protected
           /\ ~Free(k) => /\ Purged[k] = claims[k] /\ claims[k] # "free"
                          /\ claims[k] = "held" \/ job.status \in NotTerminal
<1>1. Purged[k] = IF claims[k] = "old" /\ k \notin Protected THEN "free"
                  ELSE claims[k]
  BY DEF Purged
<1>2. claims[k] \in {"free", "held", "old"}
  BY DEF ClaimsType
<1>3. k \in Protected => job.status \in NotTerminal
  BY DEF Protected
<1> QED BY <1>1, <1>2, <1>3 DEF Free

LEMMA ClaimKeeps ==
    ASSUME claims \in ClaimsType, NEW k \in Keys, Claim(k)
    PROVE  /\ \A j \in Keys \ {k} : Kept(j)
           /\ Free(k) => claims'[k] = "held"
           /\ ~Free(k) => /\ claims'[k] = claims[k] /\ claims[k] # "free"
                          /\ claims[k] = "held" \/ job.status \in NotTerminal
<1>1. Purged \in ClaimsType
  BY PurgedIsTyped
<1>2. CASE Free(k)
  <2> DEFINE purged == Purged
  <2>1. purged \in ClaimsType /\ claims' = [purged EXCEPT ![k] = "held"]
    BY <1>1, <1>2 DEF Claim
  <2>2. \A j \in Keys :
           \/ purged[j] = claims[j]
           \/ claims[j] = "old" /\ purged[j] = "free" /\ j \notin Protected
    BY PurgeKeeps
  <2> HIDE DEF purged
  <2>3. claims'[k] = "held" /\ \A j \in Keys \ {k} : claims'[j] = purged[j]
    BY <2>1 DEF ClaimsType
  <2> QED BY <1>2, <2>2, <2>3 DEF Kept
<1>3. CASE ~Free(k)
  BY <1>3, PurgeKeeps DEF Claim, Kept
<1> QED BY <1>2, <1>3

LEMMA ReleaseKeeps ==
    ASSUME claims \in ClaimsType, NEW k \in Keys, ReleaseClaim(k)
    PROVE  claims'[k] = "free" /\ \A j \in Keys \ {k} : claims'[j] = claims[j]
BY DEF ReleaseClaim, ClaimsType

LEMMA MoveKeepsShape ==
    ASSUME WatchInv, NEW d \in Arrivals, NEW at, NEW promoted \in BOOLEAN,
           Moves(d, at, promoted), UNCHANGED fixed,
           candidate => job'.evt = "first",
           ~candidate => claims'["decision"] = "free",
           promoted => at \in Decided,
           candidate => d \notin Siblings /\ (at \in Decided => promoted),
           ~candidate => ~promoted /\ at \notin {"classify", "decide"}
    PROVE  ShapeInv'
<1> USE DEF At
<1>1. UNCHANGED <<candidate, target>>
  BY DEF fixed
<1>2. /\ intake'[d].at = at /\ intake'[d].promoted = promoted
      /\ \A e \in Arrivals \ {d} : intake'[e] = intake[e]
  BY DEF Moves
<1>3. \A e \in Arrivals : intake'[e].promoted => intake'[e].at \in Decided
  BY <1>2 DEF WatchInv, ShapeInv
<1>4. ASSUME candidate
      PROVE  /\ \A e \in Siblings : intake'[e].at = "unseen"
             /\ \A e \in Arrivals : intake'[e].at \in Decided => intake'[e].promoted
  BY <1>2, <1>4, ArrivalsAssumption DEF WatchInv, ShapeInv
<1>5. ASSUME ~candidate
      PROVE  \A e \in Arrivals : /\ ~Deciding(e)'
                                 /\ intake'[e].at # "decide"
  BY <1>2, <1>5 DEF WatchInv, ShapeInv, Deciding
<1> QED BY <1>1, <1>3, <1>4, <1>5 DEF ShapeInv

(* A delivery moves, and the row and the ghosts stay.  A key it wrote is   *)
(* free, or is one the delivery itself now answers for.                    *)
LEMMA MoveKeepsWatch ==
    ASSUME AdmissionInv, WatchInv, NEW d \in Arrivals, NEW at, NEW promoted \in BOOLEAN,
           Moves(d, at, promoted), UNCHANGED <<job, ghosts, fixed, relay>>,
           promoted => at \in Decided,
           candidate => d \notin Siblings /\ (at \in Decided => promoted),
           ~candidate => ~promoted /\ at \notin {"classify", "decide"},
           \/ claims'["msg"] = "free"
           \/ at \in HoldsMessage
           \/ Kept("msg") /\ ~At(d, HoldsMessage),
           candidate =>
             \/ claims'["first"] = "free"
             \/ at \in HoldsEvent
             \/ Kept("first") /\ ~At(d, HoldsEvent),
           \/ Kept("decision")
           \/ /\ claims'["decision"] = "free"
              /\ candidate => Deciding(d) /\ at # "classify" /\ ~promoted,
           candidate => (at = "classify" \/ promoted => Deciding(d)),
           (candidate /\ NoExcuse /\ ~RowStands) =>
             /\ at # "unclaim evt"
             /\ At(d, Declining) => at \in Declining
             /\ Deciding(d) =>
                  \/ at = "classify" \/ promoted \/ at \in Declining
                  \/ claims'["decision"] = "free"
                  \/ \E e \in Arrivals \ {d} : At(e, Declining)
    PROVE  WatchInv'
<1> USE DEF At
<1>1. UNCHANGED <<job, relay, candidate, target, excuse, forgotten>>
  BY DEF fixed, ghosts
<1>2. /\ intake'[d].at = at /\ intake'[d].promoted = promoted
      /\ \A e \in Arrivals \ {d} : intake'[e] = intake[e]
  BY DEF Moves
<1>3. GiveBackInv'
  BY <1>1 DEF WatchInv, GiveBackInv
<1>4. ShapeInv'
  BY <1>1, MoveKeepsShape DEF WatchInv, ShapeInv, Kept
<1>5. MessageIsWatched'
  BY <1>1, <1>2 DEF WatchInv, MessageIsWatched, NoExcuse, Kept
<1>6. EventIsWatched'
  <2>1. UNCHANGED NoExcuse /\ EventIsWatched
    BY <1>1 DEF WatchInv, NoExcuse
  <2>2. ASSUME Kept("first")
        PROVE  (claims'["first"] = "held" => claims["first"] = "held")
               /\ (claims'["first"] # "free" => claims["first"] # "free")
    BY <2>2 DEF Kept
  <2>3. ASSUME NEW e \in Arrivals, At(e, HoldsEvent), e # d \/ at \in HoldsEvent
        PROVE  At(e, HoldsEvent)'
    BY <1>2, <2>3
  <2>4. at \in HoldsEvent => At(d, HoldsEvent)'
    BY <1>2
  <2>5. SUFFICES ASSUME candidate, NoExcuse,
                        \/ claims'["first"] = "held" /\ job.status = "none"
                        \/ /\ claims'["first"] # "free"
                           /\ relay \in {"free msg", "free decision", "discard"}
                 PROVE  \E e \in Arrivals : At(e, HoldsEvent)'
    BY <1>1, <2>1 DEF EventIsWatched
  <2>6. CASE at \in HoldsEvent
    BY <2>4, <2>6
  <2>7. CASE Kept("first") /\ ~At(d, HoldsEvent)
    <3>1. PICK e \in Arrivals : At(e, HoldsEvent)
      BY <2>1, <2>2, <2>5, <2>7 DEF EventIsWatched
    <3> QED BY <2>3, <2>7, <3>1
  <2> QED BY <2>5, <2>6, <2>7
<1>7. DecisionIsWatched'
  BY <1>1, <1>2
     DEF WatchInv, DecisionIsWatched, NoExcuse, RowStands, Deciding, Kept
<1>8. PendingIsAlone'
  <2>1. job.status \in NotTerminal => "decision" \in Protected
    BY DEF Protected
  <2> QED
    BY <1>1, <1>2, <2>1
       DEF WatchInv, PendingIsAlone, NoExcuse, RowStands, Deciding, Kept
<1> QED BY <1>3, <1>4, <1>5, <1>6, <1>7, <1>8 DEF WatchInv

(* Once there is an excuse, only the shape has to stay.                    *)
LEMMA ExcusedKeepsWatch ==
    ASSUME WatchInv, excuse' # "none" \/ forgotten', GiveBackInv', ShapeInv'
    PROVE  WatchInv'
BY DEF WatchInv, MessageIsWatched, EventIsWatched, DecisionIsWatched,
       PendingIsAlone, NoExcuse

LEMMA FirstIsAKey == "first" \in Keys /\ \A d \in Arrivals \ Siblings : EventOf(d) = "first"
BY DEF Keys, EventKeys, EventOf

(* Which events and decisions a delivery may be at work on.                *)
LEMMA DeliveryShape ==
    ASSUME AdmissionInv, WatchInv, NEW d \in Arrivals, intake[d].at # "unseen"
    PROVE  /\ intake[d].promoted \in BOOLEAN
           /\ intake[d].promoted => At(d, Decided)
           /\ candidate => /\ d \notin Siblings /\ EventOf(d) = "first"
                           /\ At(d, Decided) => intake[d].promoted
           /\ ~candidate => ~Deciding(d) /\ ~intake[d].promoted
                            /\ intake[d].at \notin {"classify", "decide"}
<1>1. intake \in IntakeType
  BY DEF AdmissionInv, AdmissionTypeOK, IntakeType
<1> QED BY <1>1, FirstIsAKey DEF IntakeType, WatchInv, ShapeInv, At, Deciding

(* While no row stands, a delivery that finds a key of its own taken, finds *)
(* somebody who answers for it.                                            *)
LEMMA TakenIsWatched ==
    ASSUME AdmissionInv, WatchInv, candidate, NoExcuse, ~RowStands,
           NEW d \in Arrivals, Deciding(d), intake[d].at # "unseen"
    PROVE  /\ (~Free("msg") /\ ~At(d, HoldsMessage)) => FALSE
           /\ (~Free("first") /\ ~At(d, HoldsEvent)) =>
                 \E e \in Arrivals \ {d} : At(e, Declining)
<1> USE DEF At
<1>1. claims \in ClaimsType /\ RelayInv
  BY DEF AdmissionInv, AdmissionTypeOK, ClaimsType
<1>2. \A e \in Arrivals : e # d => intake[e].at \notin Decided
  <2>1. \A e \in Arrivals : intake[e].at \in Decided => Deciding(e)
    BY DEF WatchInv, ShapeInv, Deciding
  <2> QED BY <2>1 DEF WatchInv, DecisionIsWatched
<1>3. \A k \in Keys : ~Free(k) =>
         \/ claims[k] = "held" /\ job.status = "none"
         \/ claims[k] # "free" /\ relay = "discard"
  BY <1>1, PurgeKeeps DEF RowStands, NotTerminal
<1>4. ASSUME ~Free("msg"), ~At(d, HoldsMessage) PROVE FALSE
  <2>1. PICK e \in Arrivals : intake[e].at \in HoldsMessage
    BY <1>3, <1>4, KeysAreKeys DEF WatchInv, MessageIsWatched
  <2> QED BY <1>2, <1>4, <2>1 DEF HoldsMessage, Decided
<1>5. ASSUME ~Free("first"), ~At(d, HoldsEvent)
      PROVE  \E e \in Arrivals \ {d} : At(e, Declining)
  <2>1. PICK e \in Arrivals : intake[e].at \in HoldsEvent
    BY <1>3, <1>5, FirstIsAKey DEF WatchInv, EventIsWatched
  <2> QED BY <1>2, <1>5, <2>1 DEF HoldsEvent, Decided, Declining
<1> QED BY <1>4, <1>5

LEMMA LooksKeepWatch ==
    ASSUME AdmissionInv, WatchInv, NEW d \in Arrivals,
           Receive(d) \/ LearnTruth(d) \/ Classify(d) \/ EnqueueFails(d)
    PROVE  WatchInv'
<1>1. intake \in IntakeType /\ Kept("msg") /\ Kept("first") /\ Kept("decision")
      /\ UNCHANGED <<job, ghosts, fixed, relay>>
  BY DEF Receive, LearnTruth, Classify, EnqueueFails, rows, Kept,
         AdmissionInv, AdmissionTypeOK, IntakeType
<1>2. CASE Receive(d)
  <2>1. Moves(d, "truth", intake[d].promoted) /\ intake[d].at = "unseen"
        /\ (candidate => d \notin Siblings)
    BY <1>1, <1>2, MovesOn DEF Receive, IntakeSteps
  <2>2. intake[d].promoted = FALSE
    BY <1>1, <2>1 DEF WatchInv, ShapeInv, Decided, At, IntakeType
  <2> QED
    BY <1>1, <2>1, <2>2, MoveKeepsWatch
       DEF At, Deciding, HoldsMessage, HoldsEvent, Declining, Decided
<1>3. CASE LearnTruth(d)
  <2>1. intake[d].at = "truth" /\ intake[d].promoted = FALSE
    BY <1>1, <1>3 DEF LearnTruth, WatchInv, ShapeInv, Decided, At, IntakeType
  <2>2. PICK at \in {"gone", "decline evt", "decide", "claim evt", "admit"} :
          /\ Moves(d, at, FALSE)
          /\ candidate => at \in {"gone", "decline evt", "decide"}
          /\ ~candidate => at \in {"gone", "claim evt", "admit"}
    <3>1. CASE GoesTo(d, "gone")
      BY <1>1, <3>1, MovesOn DEF IntakeSteps
    <3>2. CASE ~GoesTo(d, "gone")
      BY <1>1, <1>3, <2>1, <3>2, BecomesMoves DEF LearnTruth
    <3> QED BY <3>1, <3>2
  <2>3. candidate => d \notin Siblings
    BY <2>1, DeliveryShape
  <2> QED
    BY <1>1, <2>1, <2>2, <2>3, MoveKeepsWatch
       DEF At, Deciding, HoldsMessage, HoldsEvent, Declining, Decided
<1>4. CASE Classify(d)
  <2>1. intake[d].at = "classify" /\ candidate /\ d \notin Siblings
    BY <1>4, DeliveryShape DEF Classify
  <2>2. PICK at \in {"admit", "decline evt", "free decision"} :
          Moves(d, at, at # "decline evt")
    BY <1>1, <1>4, BecomesMoves DEF Classify
  <2>3. PICK promoted \in BOOLEAN : promoted = (at # "decline evt")
    OBVIOUS
  <2> QED
    BY <1>1, <2>1, <2>2, <2>3, MoveKeepsWatch
       DEF At, Deciding, HoldsMessage, HoldsEvent, Declining, Decided
<1>5. CASE EnqueueFails(d)
  <2>1. intake[d].at = "enqueue" /\ Moves(d, "free evt", intake[d].promoted)
    BY <1>1, <1>5, MovesOn DEF EnqueueFails, IntakeSteps
  <2> QED
    BY <1>1, <2>1, DeliveryShape, MoveKeepsWatch
       DEF At, Deciding, HoldsMessage, HoldsEvent, Declining, Decided
<1> QED BY <1>2, <1>3, <1>4, <1>5

LEMMA ClaimsKeepWatch ==
    ASSUME AdmissionInv, WatchInv, NEW d \in Arrivals,
           ClaimDecision(d) \/ AdmissionAborts(d) \/ ClaimSeparately(d) \/ GiveUp(d)
    PROVE  WatchInv'
<1> USE DEF At, Deciding, HoldsMessage, HoldsEvent, Declining, Decided
<1>1. /\ intake \in IntakeType /\ claims \in ClaimsType
      /\ UNCHANGED <<job, ghosts, fixed, relay>> /\ intake[d].at # "unseen"
  BY DEF ClaimDecision, AdmissionAborts, ClaimSeparately, GiveUp, rows,
         AdmissionInv, AdmissionTypeOK, IntakeType, ClaimsType
<1>2. /\ intake[d].promoted \in BOOLEAN
      /\ intake[d].promoted => At(d, Decided)
      /\ candidate => /\ d \notin Siblings /\ EventOf(d) = "first"
                      /\ At(d, Decided) => intake[d].promoted
      /\ ~candidate => ~Deciding(d) /\ ~intake[d].promoted
                       /\ intake[d].at \notin {"classify", "decide"}
  BY <1>1, DeliveryShape
<1>3. /\ "msg" \in Keys /\ "decision" \in Keys /\ EventOf(d) \in Keys
      /\ "first" \in Keys /\ EventOf(d) \notin {"msg", "decision"}
      /\ "msg" # "first" /\ "decision" # "first"
  BY KeysAreKeys, FirstIsAKey DEF EventOf
<1>4. CASE AdmissionAborts(d)
  <2>1. /\ intake[d].at = "admit"
        /\ Kept("msg") /\ Kept("first") /\ Kept("decision")
    BY <1>4 DEF AdmissionAborts, rows, Kept
  <2>2. PICK at \in {"claim evt", "free decision", "gone"} :
          /\ Moves(d, at, IF at = "gone" THEN FALSE ELSE intake[d].promoted)
          /\ at = "gone" => ~intake[d].promoted
          /\ at = "free decision" => intake[d].promoted
    BY <1>1, <1>4, MovesOn DEF AdmissionAborts, AfterAbort, IntakeSteps
  <2> QED BY <1>1, <1>2, <2>1, <2>2, MoveKeepsWatch
<1>5. CASE GiveUp(d)
  <2>1. CASE intake[d].at = "free evt"
    <3>1. /\ claims'[EventOf(d)] = "free" /\ Kept("msg") /\ Kept("decision")
          /\ Moves(d, "free msg", intake[d].promoted)
      <4>1. ReleaseClaim(EventOf(d)) /\ GoesTo(d, "free msg")
        BY <1>5, <2>1 DEF GiveUp
      <4>2. "free msg" \in IntakeSteps
        BY DEF IntakeSteps
      <4> QED BY <1>1, <1>3, <4>1, <4>2, ReleaseKeeps, MovesOn DEF Kept
    <3> QED BY <1>1, <1>2, <2>1, <3>1, MoveKeepsWatch
  <2>2. CASE intake[d].at = "free msg"
    <3>1. /\ claims'["msg"] = "free" /\ Kept("first") /\ Kept("decision")
      BY <1>1, <1>3, <1>5, <2>2, ReleaseKeeps DEF GiveUp, Kept
    <3>2. CASE intake[d].promoted
      <4>1. Moves(d, "free decision", intake[d].promoted)
        BY <1>1, <1>5, <2>2, <3>2, MovesOn DEF GiveUp, IntakeSteps
      <4> QED BY <1>1, <1>2, <2>2, <3>1, <3>2, <4>1, MoveKeepsWatch
    <3>3. CASE ~intake[d].promoted
      <4>1. Moves(d, "gone", FALSE) /\ ~candidate
        BY <1>1, <1>2, <1>5, <2>2, <3>3, MovesOn DEF GiveUp, IntakeSteps
      <4> QED BY <1>1, <1>2, <2>2, <3>1, <4>1, MoveKeepsWatch
    <3> QED BY <3>2, <3>3
  <2>3. CASE intake[d].at = "free decision"
    <3>1. /\ claims'["decision"] = "free" /\ Kept("first") /\ Kept("msg")
          /\ Moves(d, "gone", FALSE)
      <4>1. ReleaseClaim("decision") /\ GoesTo(d, "gone")
        BY <1>5, <2>3 DEF GiveUp
      <4>2. "gone" \in IntakeSteps
        BY DEF IntakeSteps
      <4> QED BY <1>1, <1>3, <4>1, <4>2, ReleaseKeeps, MovesOn DEF Kept
    <3> QED BY <1>1, <1>2, <2>3, <3>1, MoveKeepsWatch
  <2> QED BY <1>5, <2>1, <2>2, <2>3 DEF GiveUp
<1>6. CASE ClaimSeparately(d)
  <2>1. CASE intake[d].at = "claim evt"
    <3>1. /\ Claim(EventOf(d))
          /\ GoesTo(d, IF Free(EventOf(d)) THEN "claim msg" ELSE "gone")
      BY <1>6, <2>1 DEF ClaimSeparately
    <3>2. Kept("msg") /\ Kept("decision")
      BY <1>1, <1>3, <3>1, ClaimKeeps
    <3>3. CASE Free(EventOf(d))
      <4>1. Moves(d, "claim msg", intake[d].promoted)
        BY <1>1, <3>1, <3>3, MovesOn DEF IntakeSteps
      <4> QED BY <1>1, <1>2, <2>1, <3>2, <4>1, MoveKeepsWatch
    <3>4. CASE ~Free(EventOf(d))
      <4>1. Moves(d, "gone", FALSE)
        BY <1>1, <3>1, <3>4, MovesOn DEF IntakeSteps
      <4>2. candidate => Kept("first")
        BY <1>1, <1>2, <1>3, <3>1, <3>4, ClaimKeeps DEF Kept
      <4>3. candidate /\ NoExcuse /\ ~RowStands =>
              \E e \in Arrivals \ {d} : At(e, Declining)
        BY <1>1, <1>2, <2>1, <3>4, TakenIsWatched
      <4> QED BY <1>1, <1>2, <2>1, <3>2, <4>1, <4>2, <4>3, MoveKeepsWatch
    <3> QED BY <3>3, <3>4
  <2>2. CASE intake[d].at = "claim msg"
    <3>1. /\ Claim("msg")
          /\ Becomes(d, IF Free("msg") THEN "enqueue" ELSE "unclaim evt",
                      "none", intake[d].promoted)
      BY <1>6, <2>2 DEF ClaimSeparately
    <3>2. Kept("first") /\ Kept("decision")
      BY <1>1, <1>3, <3>1, ClaimKeeps
    <3>3. CASE Free("msg")
      <4>1. Moves(d, "enqueue", intake[d].promoted)
        BY <1>1, <3>1, <3>3, BecomesMoves
      <4> QED BY <1>1, <1>2, <2>2, <3>2, <4>1, MoveKeepsWatch
    <3>4. CASE ~Free("msg")
      <4>1. Moves(d, "unclaim evt", intake[d].promoted)
        BY <1>1, <3>1, <3>4, BecomesMoves
      <4>2. Kept("msg")
        BY <1>1, <1>3, <3>1, <3>4, ClaimKeeps DEF Kept
      <4>3. ~(candidate /\ NoExcuse /\ ~RowStands)
        BY <1>1, <1>2, <2>2, <3>4, TakenIsWatched
      <4> QED BY <1>1, <1>2, <2>2, <3>2, <4>1, <4>2, <4>3, MoveKeepsWatch
    <3> QED BY <3>3, <3>4
  <2>3. CASE intake[d].at = "unclaim evt"
    <3>1. /\ claims'[EventOf(d)] = "free" /\ Kept("msg") /\ Kept("decision")
          /\ Moves(d, "gone", FALSE)
      <4>1. ReleaseClaim(EventOf(d)) /\ GoesTo(d, "gone")
        BY <1>6, <2>3 DEF ClaimSeparately
      <4>2. "gone" \in IntakeSteps
        BY DEF IntakeSteps
      <4> QED BY <1>1, <1>3, <4>1, <4>2, ReleaseKeeps, MovesOn DEF Kept
    <3>2. ~(candidate /\ NoExcuse /\ ~RowStands)
      BY <2>3 DEF WatchInv, DecisionIsWatched
    <3> QED BY <1>1, <1>2, <2>3, <3>1, <3>2, MoveKeepsWatch
  <2> QED BY <1>6, <2>1, <2>2, <2>3 DEF ClaimSeparately
<1>7. CASE ClaimDecision(d)
  <2>1. /\ intake[d].at = "decide" /\ candidate /\ ~intake[d].promoted
        /\ Claim("decision")
        /\ GoesTo(d, IF Free("decision") THEN "classify" ELSE "gone")
    BY <1>2, <1>7 DEF ClaimDecision
  <2>2. Kept("msg") /\ Kept("first")
    BY <1>1, <1>3, <2>1, ClaimKeeps
  <2>3. CASE ~Free("decision")
    <3>1. Moves(d, "gone", FALSE) /\ Kept("decision")
      BY <1>1, <1>3, <2>1, <2>3, MovesOn, ClaimKeeps DEF Kept, IntakeSteps
    <3> QED BY <1>1, <1>2, <2>1, <2>2, <3>1, MoveKeepsWatch
  <2>4. CASE Free("decision")
    <3>1. Moves(d, "classify", FALSE) /\ claims'["decision"] = "held"
      BY <1>1, <1>2, <1>3, <2>1, <2>4, MovesOn, ClaimKeeps DEF IntakeSteps
    <3>2. claims["decision"] # "held" /\ ("decision" \in Protected => claims["decision"] = "free")
      BY <1>1, <1>3, <2>4, PurgeKeeps DEF Free, ClaimsType
    <3>3. UNCHANGED <<job, relay, candidate, target, excuse, forgotten>>
      BY <1>1 DEF fixed, ghosts
    <3>4. /\ intake'[d].at = "classify" /\ intake'[d].promoted = FALSE
          /\ \A e \in Arrivals \ {d} : intake'[e] = intake[e]
      BY <3>1 DEF Moves
    <3>5. ShapeInv' /\ GiveBackInv'
      <4>1. ShapeInv'
        BY <1>1, <1>2, <2>1, <3>1, <3>3, MoveKeepsShape DEF WatchInv, ShapeInv
      <4> QED BY <3>3, <4>1 DEF WatchInv, GiveBackInv
    <3>6. MessageIsWatched'
      BY <2>1, <2>2, <3>3, <3>4 DEF WatchInv, MessageIsWatched, NoExcuse, Kept
    <3>7. EventIsWatched'
      BY <2>1, <2>2, <3>3, <3>4 DEF WatchInv, EventIsWatched, NoExcuse, Kept
    <3>8. DecisionIsWatched'
      BY <2>1, <3>1, <3>2, <3>3, <3>4
         DEF WatchInv, DecisionIsWatched, NoExcuse, RowStands
    <3>9. PendingIsAlone'
      <4>1. job.status \in NotTerminal => "decision" \in Protected
        BY DEF Protected
      <4> QED BY <3>2, <3>3, <4>1 DEF WatchInv, PendingIsAlone, NoExcuse, RowStands
    <3> QED BY <3>5, <3>6, <3>7, <3>8, <3>9 DEF WatchInv
  <2> QED BY <2>3, <2>4
<1> QED BY <1>4, <1>5, <1>6, <1>7

(* A delivery that inserts its row, or finds one, leaves a row that stands *)
(* behind, or an excuse.                                                   *)
LEMMA InsertKeepsWatch ==
    ASSUME AdmissionInv, WatchInv, NEW d \in Arrivals, NEW lane, InsertJob(d, lane),
           NEW at, NEW promoted \in BOOLEAN, Moves(d, at, promoted),
           UNCHANGED <<relay, fixed>>, Kept("decision"),
           intake[d].at \in {"admit", "enqueue"},
           \/ at = "gone" /\ promoted = FALSE
           \/ at = "enqueue" /\ promoted = intake[d].promoted /\ target = "cloudflare"
    PROVE  WatchInv'
<1> USE DEF At, Deciding, Decided
<1>1. /\ intake[d].promoted \in BOOLEAN
      /\ candidate => d \notin Siblings /\ EventOf(d) = "first" /\ Deciding(d)
      /\ ~candidate => ~Deciding(d) /\ ~intake[d].promoted
  BY DeliveryShape
<1>2. /\ job'.status # "none" /\ (~job.dispatched => ~job'.dispatched)
      /\ candidate => job'.evt = "first"
  BY <1>1 DEF InsertJob, NewJob, WatchInv, ShapeInv
<1>3. UNCHANGED <<candidate, target>>
  BY DEF fixed
<1>4. ShapeInv'
  <2>1. ~candidate => claims'["decision"] = "free"
    BY DEF WatchInv, ShapeInv, Kept
  <2> QED BY <1>1, <1>2, <2>1, MoveKeepsShape
<1>5. GiveBackInv'
  BY <1>2, <1>3 DEF WatchInv, GiveBackInv
<1>6. CASE ~NoExcuse'
  BY <1>4, <1>5, <1>6, ExcusedKeepsWatch DEF NoExcuse
<1>7. CASE NoExcuse'
  <2>1. /\ NoExcuse /\ ~Outlived
        /\ job.status # "none" => relay \in {"idle", "runs"} /\ job' = job
    BY <1>7 DEF InsertJob, Excuses, NoExcuse
  <2>2. relay \in {"idle", "runs"}
    BY <2>1 DEF AdmissionInv, RelayInv
  <2>3. MessageIsWatched' /\ EventIsWatched' /\ DecisionIsWatched'
    BY <1>2, <2>2 DEF MessageIsWatched, EventIsWatched, DecisionIsWatched, RowStands
  <2>4. PendingIsAlone'
    <3>1. SUFFICES ASSUME candidate, target = "node", job'.status \in NotTerminal
                   PROVE  /\ \A e \in Arrivals : ~Deciding(e)'
                          /\ claims'["decision"] # "free"
      BY <1>3 DEF PendingIsAlone
    <3>2. job.status = "none"
      BY <1>1, <2>1, <2>2, <3>1 DEF WatchInv, PendingIsAlone, RowStands
    <3>3. /\ \A e \in Arrivals : Deciding(e) => e = d
          /\ claims["decision"] = "held"
      BY <1>1, <2>1, <3>1, <3>2 DEF WatchInv, DecisionIsWatched, RowStands
    <3>4. at = "gone" /\ promoted = FALSE
      BY <3>1
    <3> QED BY <3>3, <3>4 DEF Moves, Kept
  <2> QED BY <1>4, <1>5, <2>3, <2>4 DEF WatchInv
<1> QED BY <1>6, <1>7

LEMMA AnswersKeepWatch ==
    ASSUME AdmissionInv, WatchInv, NEW d \in Arrivals,
           Decline(d) \/ ClassifyThrows(d) \/ AdmitCanonical(d) \/ Enqueue(d)
    PROVE  WatchInv'
<1> USE DEF At, Deciding, HoldsMessage, HoldsEvent, Declining, Decided
<1>1. /\ intake \in IntakeType /\ claims \in ClaimsType
      /\ UNCHANGED <<fixed, relay>> /\ intake[d].at # "unseen"
  BY DEF Decline, ClassifyThrows, AdmitCanonical, Enqueue,
         AdmissionInv, AdmissionTypeOK, IntakeType, ClaimsType
<1>2. /\ intake[d].promoted \in BOOLEAN
      /\ intake[d].promoted => At(d, Decided)
      /\ candidate => /\ d \notin Siblings /\ EventOf(d) = "first"
                      /\ At(d, Decided) => intake[d].promoted
      /\ ~candidate => ~Deciding(d) /\ ~intake[d].promoted
                       /\ intake[d].at \notin {"classify", "decide"}
  BY <1>1, DeliveryShape
<1>3. /\ "msg" \in Keys /\ "decision" \in Keys /\ EventOf(d) \in Keys
      /\ "first" \in Keys /\ EventOf(d) \notin {"msg", "decision"}
      /\ "msg" # "first" /\ "decision" # "first"
  BY KeysAreKeys, FirstIsAKey DEF EventOf
(* A delivery that ends with an excuse.                                    *)
<1>4. ASSUME Moves(d, "gone", FALSE), UNCHANGED job, Kept("decision"), excuse' # "none"
      PROVE  WatchInv'
  <2>1. GiveBackInv'
    BY <1>1, <1>4 DEF WatchInv, GiveBackInv, fixed
  <2>2. ShapeInv'
    BY <1>1, <1>2, <1>4, MoveKeepsShape DEF WatchInv, ShapeInv, Kept
  <2> QED BY <1>4, <2>1, <2>2, ExcusedKeepsWatch
<1>5. CASE Decline(d)
  <2>1. CASE intake[d].at = "decline evt"
    <3>1. /\ Claim(EventOf(d)) /\ Moves(d, "decline msg", intake[d].promoted)
          /\ UNCHANGED <<job, ghosts>>
      BY <1>1, <1>5, <2>1, MovesOn DEF Decline, ghosts, IntakeSteps
    <3>2. Kept("msg") /\ Kept("decision")
      BY <1>1, <1>3, <3>1, ClaimKeeps
    <3> QED BY <1>1, <1>2, <2>1, <3>1, <3>2, MoveKeepsWatch
  <2>2. CASE intake[d].at # "decline evt"
    <3>1. Claim("msg") /\ Moves(d, "gone", FALSE) /\ UNCHANGED job
      BY <1>1, <1>5, <2>2, MovesOn DEF Decline, IntakeSteps
    <3>2. Kept("decision")
      BY <1>1, <1>3, <3>1, ClaimKeeps
    <3>3. excuse' # "none"
      BY <1>5, <2>2 DEF Decline, Excuses
    <3> QED BY <1>4, <3>1, <3>2, <3>3
  <2> QED BY <2>1, <2>2
<1>6. CASE ClassifyThrows(d)
  <2>1. Moves(d, "gone", FALSE) /\ UNCHANGED job /\ Kept("decision")
    BY <1>1, <1>6, MovesOn DEF ClassifyThrows, rows, Kept, IntakeSteps
  <2>2. excuse' # "none"
    BY <1>6 DEF ClassifyThrows, Excuses
  <2> QED BY <1>4, <2>1, <2>2
<1>7. CASE Enqueue(d)
  <2>1. /\ InsertJob(d, IF intake[d].lane = "ledger" THEN "ledger" ELSE "legacy")
        /\ Moves(d, "gone", FALSE) /\ Kept("decision")
        /\ intake[d].at = "enqueue"
    BY <1>1, <1>7, MovesOn DEF Enqueue, Kept, IntakeSteps
  <2> QED BY <1>1, <2>1, InsertKeepsWatch
<1>8. CASE AdmitCanonical(d)
  <2>1. CASE Free(EventOf(d)) /\ Free("msg")
    <3> DEFINE purged == Purged
    <3>1. /\ InsertJob(d, intake[d].lane) /\ intake[d].at = "admit"
          /\ claims' = [purged EXCEPT ![EventOf(d)] = "held", !["msg"] = "held"]
          /\ GoesTo(d, IF target = "node" THEN "gone" ELSE "enqueue")
      BY <1>8, <2>1 DEF AdmitCanonical
    <3>2. /\ purged \in ClaimsType
          /\ \/ purged["decision"] = claims["decision"]
             \/ /\ claims["decision"] = "old" /\ purged["decision"] = "free"
                /\ "decision" \notin Protected
      BY <1>1, <1>3, PurgedIsTyped, PurgeKeeps
    <3> HIDE DEF purged
    <3>3. Kept("decision")
      BY <1>3, <3>1, <3>2 DEF Kept, ClaimsType
    <3>4. CASE target = "node"
      <4>1. Moves(d, "gone", FALSE)
        BY <1>1, <3>1, <3>4, MovesOn DEF IntakeSteps
      <4> QED BY <1>1, <3>1, <3>3, <4>1, InsertKeepsWatch
    <3>5. CASE target # "node"
      <4>1. target = "cloudflare"
        BY <3>5 DEF AdmissionInv, AdmissionTypeOK
      <4>2. Moves(d, "enqueue", intake[d].promoted)
        BY <1>1, <3>1, <3>5, MovesOn DEF IntakeSteps
      <4> QED BY <1>1, <1>2, <3>1, <3>3, <4>1, <4>2, InsertKeepsWatch
    <3> QED BY <3>4, <3>5
  <2>2. CASE ~(Free(EventOf(d)) /\ Free("msg"))
    <3>1. /\ claims' = Purged /\ intake[d].at = "admit" /\ Moves(d, "gone", FALSE)
          /\ UNCHANGED <<job, ghosts>>
      BY <1>1, <1>8, <2>2, MovesOn DEF AdmitCanonical, ghosts, IntakeSteps
    <3>2. Kept("msg") /\ Kept("first") /\ Kept("decision")
      BY <1>1, <1>3, <3>1, PurgeKeeps DEF Kept
    <3>3. candidate /\ NoExcuse /\ ~RowStands =>
            \E e \in Arrivals \ {d} : At(e, Declining)
      BY <1>1, <1>2, <2>2, <3>1, TakenIsWatched
    <3> QED BY <1>1, <1>2, <3>1, <3>2, <3>3, MoveKeepsWatch
  <2> QED BY <2>1, <2>2
<1> QED BY <1>5, <1>6, <1>7, <1>8

LEMMA RelayKeepsWatch ==
    ASSUME AdmissionInv, WatchInv, RelayStep
    PROVE  WatchInv'
<1> USE DEF At, Deciding
<1>1. /\ claims \in ClaimsType /\ job \in JobType /\ RelayInv
      /\ relay \in RelaySteps /\ target \in {"node", "cloudflare"}
  BY DEF AdmissionInv, AdmissionTypeOK, ClaimsType, JobType
<1>2. /\ UNCHANGED <<intake, candidate, target, excuse, forgotten>>
  BY DEF RelayStep, BeginAttempt, Dispatch, EndAttempt, NodeGivesBack, NodeFrees,
         NodeDiscards, CloudflareGivesBack, LedgerCloses, ResolveRecoveryRequired,
         fixed, ghosts
(* A row stands before and after, and no claim is released.                *)
<1>3. ASSUME UNCHANGED claims, job.status # "none", job'.status # "none",
             relay \in {"idle", "runs"}, relay' \in {"idle", "runs"},
             job'.status \in NotTerminal => job.status \in NotTerminal,
             job'.evt = job.evt
      PROVE  WatchInv'
  BY <1>2, <1>3
     DEF WatchInv, GiveBackInv, ShapeInv, MessageIsWatched, EventIsWatched,
         DecisionIsWatched, PendingIsAlone, RowStands, NoExcuse, GivingBack
<1>4. CASE BeginAttempt
  <2>1. job'.status = job.status /\ job'.evt = job.evt
    BY <1>1, <1>4 DEF BeginAttempt, JobType
  <2> QED BY <1>3, <1>4, <2>1 DEF BeginAttempt
<1>5. CASE Dispatch
  <2>1. job'.status = job.status /\ job'.evt = job.evt /\ job.status = "pending"
    BY <1>1, <1>5 DEF Dispatch, JobType, RelayInv
  <2>2. relay \in {"idle", "runs"}
    BY <1>1, <1>5 DEF Dispatch, RelayInv
  <2> QED BY <1>3, <1>5, <2>1, <2>2 DEF Dispatch
<1>6. CASE EndAttempt
  <2>1. /\ job.status = "pending" /\ job'.status \in {"done", "recovery", "pending"}
        /\ job'.evt = job.evt
    BY <1>1, <1>6 DEF EndAttempt, JobType, RelayInv
  <2> QED BY <1>3, <1>6, <2>1 DEF EndAttempt, NotTerminal
<1>7. CASE LedgerCloses
  <2>1. /\ job.status = "pending" /\ job'.status \in {"done", "error", "recovery"}
        /\ job'.evt = job.evt /\ relay = "idle"
    BY <1>1, <1>7 DEF LedgerCloses, JobType, RelayInv
  <2> QED BY <1>3, <1>7, <2>1 DEF LedgerCloses, NotTerminal
<1>8. CASE ResolveRecoveryRequired
  <2>1. job'.status = "error" /\ job'.evt = job.evt
    BY <1>1, <1>8 DEF ResolveRecoveryRequired, JobType
  <2> QED BY <1>3, <1>8, <2>1 DEF ResolveRecoveryRequired, NotTerminal
<1>9. CASE NodeGivesBack
  <2>1. UNCHANGED <<claims, job>> /\ relay = "runs" /\ relay' = "free evt"
        /\ ~job.dispatched /\ target = "node" /\ job.status = "pending"
    BY <1>1, <1>9 DEF NodeGivesBack, rows, RelayInv
  <2> QED
    BY <1>2, <2>1
       DEF WatchInv, GiveBackInv, ShapeInv, MessageIsWatched, EventIsWatched,
           DecisionIsWatched, PendingIsAlone, RowStands, NoExcuse, GivingBack
<1>10. CASE NodeFrees
  <2>1. /\ UNCHANGED job /\ job.status = "pending" /\ job.evt \in Keys
        /\ job.evt \notin {"msg", "decision"}
        /\ "msg" \in Keys /\ "decision" \in Keys /\ "first" \in Keys
    BY <1>1, <1>10, KeysAreKeys, FirstIsAKey
       DEF NodeFrees, RelayInv, JobType, EventKeys, Keys
  <2>2. ShapeInv'
    <3>1. ~candidate => claims'["decision"] = "free"
      BY <1>1, <1>10, <2>1, ReleaseKeeps DEF NodeFrees, WatchInv, ShapeInv
    <3> QED BY <1>2, <2>1, <3>1 DEF WatchInv, ShapeInv
  <2>3. GiveBackInv'
    BY <1>2, <1>10, <2>1 DEF NodeFrees, WatchInv, GiveBackInv, GivingBack
  <2>4. CASE relay = "free evt"
    <3>1. /\ claims'[job.evt] = "free" /\ relay' = "free msg"
          /\ \A j \in Keys \ {job.evt} : claims'[j] = claims[j]
      BY <1>1, <1>10, <2>1, <2>4, ReleaseKeeps DEF NodeFrees
    <3>2. MessageIsWatched'
      BY <1>2, <2>1, <3>1 DEF WatchInv, MessageIsWatched, NoExcuse
    <3>3. EventIsWatched'
      BY <1>2, <2>1, <3>1 DEF WatchInv, ShapeInv, EventIsWatched, NoExcuse
    <3>4. DecisionIsWatched' /\ PendingIsAlone'
      BY <1>2, <2>1, <2>4, <3>1
         DEF WatchInv, DecisionIsWatched, PendingIsAlone, NoExcuse, RowStands
    <3> QED BY <2>2, <2>3, <3>2, <3>3, <3>4 DEF WatchInv
  <2>5. CASE relay = "free msg"
    <3>1. /\ claims'["msg"] = "free" /\ relay' = "free decision"
          /\ \A j \in Keys \ {"msg"} : claims'[j] = claims[j]
      BY <1>1, <1>10, <2>1, <2>5, ReleaseKeeps DEF NodeFrees
    <3>2. MessageIsWatched'
      BY <3>1 DEF MessageIsWatched
    <3>3. EventIsWatched'
      BY <1>2, <2>1, <2>5, <3>1 DEF WatchInv, EventIsWatched, NoExcuse
    <3>4. DecisionIsWatched' /\ PendingIsAlone'
      BY <1>2, <2>1, <2>5, <3>1
         DEF WatchInv, DecisionIsWatched, PendingIsAlone, NoExcuse, RowStands
    <3> QED BY <2>2, <2>3, <3>2, <3>3, <3>4 DEF WatchInv
  <2>6. CASE relay = "free decision"
    <3>1. /\ claims'["decision"] = "free" /\ relay' = "discard"
          /\ \A j \in Keys \ {"decision"} : claims'[j] = claims[j]
      BY <1>1, <1>10, <2>1, <2>6, ReleaseKeeps DEF NodeFrees
    <3>2. MessageIsWatched'
      BY <1>2, <2>1, <2>6, <3>1 DEF WatchInv, MessageIsWatched, NoExcuse
    <3>3. EventIsWatched'
      BY <1>2, <2>1, <2>6, <3>1 DEF WatchInv, EventIsWatched, NoExcuse
    <3>4. candidate /\ NoExcuse => \A d \in Arrivals : ~Deciding(d)
      <4>1. target = "node"
        BY <2>6 DEF WatchInv, GiveBackInv, GivingBack
      <4> QED BY <2>1, <2>6, <4>1
              DEF WatchInv, PendingIsAlone, RowStands, NotTerminal
    <3>5. DecisionIsWatched'
      <4>1. candidate => \A d \in Arrivals : At(d, {"unclaim evt"}) => Deciding(d)
        BY DEF WatchInv, ShapeInv, Decided
      <4> QED BY <1>2, <3>1, <3>4, <4>1 DEF DecisionIsWatched, NoExcuse
    <3>6. PendingIsAlone'
      BY <3>1 DEF PendingIsAlone, RowStands
    <3> QED BY <2>2, <2>3, <3>2, <3>3, <3>5, <3>6 DEF WatchInv
  <2> QED BY <1>10, <2>4, <2>5, <2>6 DEF NodeFrees
<1>11. CASE NodeDiscards
  <2>1. /\ UNCHANGED claims /\ relay = "discard" /\ relay' = "idle"
        /\ ~job.dispatched
    BY <1>11 DEF NodeDiscards, WatchInv, GiveBackInv, GivingBack
  <2>2. job'.status = "none" /\ job'.evt = "first"
    BY <1>11, <2>1 DEF NodeDiscards, NoJob
  <2>3. GiveBackInv' /\ ShapeInv'
    BY <1>2, <2>1, <2>2 DEF WatchInv, GiveBackInv, ShapeInv, GivingBack
  <2>4. MessageIsWatched' /\ EventIsWatched'
    BY <1>2, <2>1, <2>2 DEF WatchInv, MessageIsWatched, EventIsWatched, NoExcuse
  <2>5. DecisionIsWatched' /\ PendingIsAlone'
    BY <1>2, <2>1, <2>2
       DEF WatchInv, DecisionIsWatched, PendingIsAlone, RowStands, NoExcuse
  <2> QED BY <2>3, <2>4, <2>5 DEF WatchInv
<1>12. CASE CloudflareGivesBack
  <2>1. /\ relay = "runs" /\ relay' = "idle" /\ target = "cloudflare"
        /\ job'.status \in {"error", "done"} /\ job'.evt = job.evt
    BY <1>1, <1>12 DEF CloudflareGivesBack, JobType
  <2>2. "decision" \in Keys /\ claims'["decision"] = "free"
    BY <1>12, KeysAreKeys DEF CloudflareGivesBack
  <2>3. GiveBackInv' /\ ShapeInv'
    BY <1>2, <2>1, <2>2 DEF WatchInv, GiveBackInv, ShapeInv, GivingBack
  <2>4. MessageIsWatched' /\ EventIsWatched' /\ DecisionIsWatched' /\ PendingIsAlone'
    BY <1>2, <2>1
       DEF MessageIsWatched, EventIsWatched, DecisionIsWatched, PendingIsAlone,
           RowStands, NotTerminal
  <2> QED BY <2>3, <2>4 DEF WatchInv
<1> QED
  BY <1>4, <1>5, <1>6, <1>7, <1>8, <1>9, <1>10, <1>11, <1>12 DEF RelayStep

LEMMA TimeKeepsWatch ==
    ASSUME AdmissionInv, WatchInv, TwoHoursPass
    PROVE  WatchInv'
<1>1. /\ UNCHANGED <<intake, relay, candidate, target, forgotten>>
      /\ claims' = [k \in Keys |-> IF claims[k] = "held" THEN "old" ELSE claims[k]]
  BY DEF TwoHoursPass, fixed
<1>2. job'.status = job.status /\ job'.evt = job.evt /\ job'.dispatched = job.dispatched
  BY DEF TwoHoursPass, AdmissionInv, AdmissionTypeOK
<1>3. /\ "msg" \in Keys /\ "decision" \in Keys /\ "first" \in Keys
      /\ claims \in ClaimsType
  BY KeysAreKeys, FirstIsAKey DEF AdmissionInv, AdmissionTypeOK, ClaimsType
<1>4. \A k \in {"msg", "decision", "first"} :
         claims'[k] # "held" /\ (claims'[k] = "free" <=> claims[k] = "free")
  BY <1>1, <1>3 DEF ClaimsType
<1>5. GiveBackInv'
  BY <1>1, <1>2 DEF WatchInv, GiveBackInv
<1>6. ShapeInv'
  BY <1>1, <1>2, <1>4 DEF WatchInv, ShapeInv, At, Deciding
<1>7. CASE \E d \in Arrivals : Deciding(d)
  <2>1. excuse' # "none"
    BY <1>7 DEF TwoHoursPass, Excuses
  <2> QED BY <1>5, <1>6, <2>1, ExcusedKeepsWatch
<1>8. CASE ~\E d \in Arrivals : Deciding(d)
  <2>1. UNCHANGED excuse /\ \A d \in Arrivals : ~Deciding(d)'
    BY <1>1, <1>8 DEF TwoHoursPass, Deciding
  <2>2. MessageIsWatched'
    BY <1>1, <1>2, <1>4, <2>1 DEF WatchInv, MessageIsWatched, NoExcuse, At
  <2>3. EventIsWatched'
    BY <1>1, <1>2, <1>4, <2>1 DEF WatchInv, EventIsWatched, NoExcuse, At
  <2>4. DecisionIsWatched'
    BY <1>1, <1>2, <1>4, <2>1
       DEF WatchInv, DecisionIsWatched, NoExcuse, RowStands, At
  <2>5. PendingIsAlone'
    BY <1>1, <1>2, <1>4, <2>1 DEF WatchInv, PendingIsAlone, NoExcuse, RowStands
  <2> QED BY <1>5, <1>6, <2>2, <2>3, <2>4, <2>5 DEF WatchInv
<1> QED BY <1>7, <1>8

LEMMA MishapsKeepWatch ==
    ASSUME AdmissionInv, WatchInv, StopShort
    PROVE  WatchInv'
<1>1. PICK stopped \in {{d} : d \in Arrivals} \cup {{}, Arrivals} :
        /\ intake' = [d \in Arrivals |->
                        IF d \in stopped /\ intake[d].at # "unseen"
                        THEN Gone ELSE intake[d]]
        /\ relay' = IF stopped \in {{}, Arrivals} THEN "idle" ELSE relay
  BY DEF StopShort
<1>2. UNCHANGED <<claims, job, candidate, target>> /\ excuse' # "none"
  BY DEF StopShort, Excuses, rows, fixed
<1>3. Gone.at = "gone" /\ Gone.promoted = FALSE
  BY DEF Gone
<1>4. \A d \in Arrivals :
         \/ intake'[d] = intake[d]
         \/ intake'[d] = Gone /\ intake[d].at # "unseen"
  BY <1>1
<1>5. relay' = "idle" \/ relay' = relay
  BY <1>1
<1>6. GiveBackInv'
  BY <1>2, <1>5 DEF WatchInv, GiveBackInv, GivingBack
<1>7. ShapeInv'
  <2>1. \A d \in Arrivals : intake'[d].promoted => At(d, Decided)'
    BY <1>3, <1>4 DEF WatchInv, ShapeInv, At
  <2>2. ASSUME candidate
        PROVE  /\ \A d \in Siblings : At(d, {"unseen"})'
               /\ \A d \in Arrivals : At(d, Decided)' => intake'[d].promoted
    BY <1>3, <1>4, <2>2, ArrivalsAssumption DEF WatchInv, ShapeInv, At, Decided
  <2>3. ASSUME ~candidate
        PROVE  \A d \in Arrivals : ~Deciding(d)' /\ ~At(d, {"decide"})'
    BY <1>3, <1>4, <2>3 DEF WatchInv, ShapeInv, At, Deciding
  <2> QED BY <1>2, <2>1, <2>2, <2>3 DEF WatchInv, ShapeInv
<1> QED BY <1>2, <1>6, <1>7, ExcusedKeepsWatch

LEMMA WatchStep ==
    ASSUME AdmissionInv, WatchInv, [AdmissionNext]_admissionVars
    PROVE  WatchInv'
<1>1. ASSUME NEW d \in Arrivals, DeliveryStep(d)
      PROVE  WatchInv'
  BY <1>1, LooksKeepWatch, ClaimsKeepWatch, AnswersKeepWatch DEF DeliveryStep
<1>2. CASE UNCHANGED admissionVars
  BY <1>2 DEF admissionVars, WatchInv, GiveBackInv, ShapeInv, MessageIsWatched,
              EventIsWatched, DecisionIsWatched, PendingIsAlone, At, Deciding,
              NoExcuse, RowStands
<1> QED
  BY <1>1, <1>2, RelayKeepsWatch, TimeKeepsWatch, MishapsKeepWatch DEF AdmissionNext

LEMMA WatchedIsNotStranded ==
    ASSUME AdmissionInv, WatchInv
    PROVE  NoMessageIsStranded
<1> SUFFICES ASSUME job.status = "none", relay = "idle", NoExcuse,
                    "held" \in {claims["msg"], claims["decision"]}
             PROVE  \E d \in Arrivals : intake[d].at \notin {"unseen", "gone"}
  BY DEF NoMessageIsStranded, NoExcuse
<1>1. CASE claims["msg"] = "held"
  BY <1>1 DEF WatchInv, MessageIsWatched, At, HoldsMessage
<1>2. CASE claims["decision"] = "held"
  <2>1. candidate
    BY <1>2 DEF WatchInv, ShapeInv
  <2>2. PICK d \in Arrivals : Deciding(d) \/ At(d, Declining)
    BY <1>2, <2>1 DEF WatchInv, DecisionIsWatched, RowStands
  <2>3. Deciding(d) => intake[d].at \in Decided \cup {"classify"}
    BY DEF WatchInv, ShapeInv, Deciding, At
  <2> QED BY <2>2, <2>3 DEF At, Decided, Declining
<1> QED BY <1>1, <1>2

(* A message whose claims keep every other delivery away has somebody who  *)
(* answers it or has set it aside, however many deliveries, store errors,  *)
(* releases and redeliveries there are: only what is named in excuse, and  *)
(* the loss of its tombstone, can leave it with nobody.                    *)
THEOREM EveryMessageHasSomebody == AdmissionSpec => []NoMessageIsStranded
<1>1. AdmissionInit => AdmissionInv /\ WatchInv
  BY AdmissionStarts, WatchStarts
<1>2. AdmissionInv /\ WatchInv /\ [AdmissionNext]_admissionVars
        => AdmissionInv' /\ WatchInv'
  BY AdmissionInvStep, WatchStep
<1>3. AdmissionInv /\ WatchInv => NoMessageIsStranded
  BY WatchedIsNotStranded
<1> QED
  BY <1>1, <1>2, <1>3, PTL DEF AdmissionSpec
=============================================================================
