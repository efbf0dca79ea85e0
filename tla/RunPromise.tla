------------------------------ MODULE RunPromise ------------------------------
(***************************************************************************)
(* What the Work ledger promises about a run, to whoever reads it: a run   *)
(* is admitted once and closes once; at most one message of it is          *)
(* outstanding at a time; a new one is offered only after the previous one *)
(* is known not to have arrived; and an answer that was given, or lost     *)
(* track of, is never offered again.  How workers, leases and fences bring *)
(* this about is WorkLedger's business.                                    *)
(***************************************************************************)
CONSTANT Runs

VARIABLES
    phase,   \* [Runs -> Phases]
    answer   \* [Runs -> AnswerStates]

promiseVars == <<phase, answer>>

Phases == {"absent", "open", "parked", "closed"}
AnswerStates == {"none", "offered", "refused", "given", "lost"}

PromiseTypeOK ==
    /\ phase \in [Runs -> Phases]
    /\ answer \in [Runs -> AnswerStates]

Becomes(r, p, a) ==
    /\ phase' = [phase EXCEPT ![r] = p]
    /\ answer' = [answer EXCEPT ![r] = a]

Admit(r) ==
    /\ phase[r] = "absent"
    /\ Becomes(r, "open", "none")

(* A message goes out only from an open run, and only when no earlier one  *)
(* can still arrive.                                                       *)
Offer(r) ==
    /\ phase[r] = "open"
    /\ answer[r] \in {"none", "refused"}
    /\ Becomes(r, "open", "offered")

Arrives(r) ==
    /\ phase[r] # "absent"
    /\ answer[r] = "offered"
    /\ Becomes(r, "closed", "given")

Refused(r) ==
    /\ phase[r] # "absent"
    /\ answer[r] = "offered"
    /\ Becomes(r, phase[r], "refused")

GetsLost(r) ==
    /\ phase[r] \in {"open", "parked"}
    /\ answer[r] = "offered"
    /\ Becomes(r, "parked", "lost")

Reword(r) ==
    /\ answer[r] = "refused"
    /\ Becomes(r, phase[r], "none")

(* Several runs whose workers are gone may be set aside at once.           *)
Park(abandoned) ==
    /\ \A r \in abandoned : phase[r] = "open"
    /\ phase' = [r \in Runs |-> IF r \in abandoned THEN "parked" ELSE phase[r]]
    /\ UNCHANGED answer

Close(r) ==
    /\ phase[r] \in {"open", "parked"}
    /\ Becomes(r, "closed", answer[r])

CloseUnanswered(r) ==
    /\ phase[r] = "open"
    /\ Becomes(r, "closed", "none")

Init ==
    /\ phase = [r \in Runs |-> "absent"]
    /\ answer = [r \in Runs |-> "none"]

RunStep(r) ==
    \/ Admit(r) \/ Offer(r) \/ Arrives(r) \/ Refused(r) \/ GetsLost(r)
    \/ Reword(r) \/ Close(r) \/ CloseUnanswered(r)

Next ==
    \/ \E abandoned \in SUBSET Runs : Park(abandoned)
    \/ \E r \in Runs : RunStep(r)

Spec == Init /\ [][Next]_promiseVars
=============================================================================
