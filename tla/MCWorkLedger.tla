---------------------------- MODULE MCWorkLedger ----------------------------
(* Instances for TLC of SlackAdmission, which admits a message's run, and   *)
(* of WorkLedger, which keeps it.  A behaviour is about one of the two, the *)
(* other one stands still: the instances are added up and not multiplied.   *)
EXTENDS WorkLedger, SlackAdmission, TLC

CONSTANTS k1, k2, a1, a2, x1, x2

VARIABLE subject    \* what this behaviour is about

(* One conversation, two runs.                                             *)
OneKey == [r \in Runs |-> k1]

LedgerInit ==
    /\ Init /\ AdmissionInit
    /\ subject \in {"ledger", "admission"}
    /\ subject = "admission" \/ (target = "node" /\ ~candidate)

LedgerNext ==
    /\ UNCHANGED subject
    /\ \/ subject = "ledger" /\ Next /\ UNCHANGED admissionVars
       \/ subject = "admission" /\ AdmissionNext /\ UNCHANGED vars

LedgerSpec == LedgerInit /\ [][LedgerNext]_<<vars, admissionVars, subject>>

(* A bound: a leased run (1) or a legacy one (3) by itself goes on for as   *)
(* long as the constants let it, and two leased runs (1 and 2) beside each  *)
(* other for a claim each and two ticks.                                    *)
AloneOrBriefly ==
    \/ Known \subseteq {1} \/ Known \subseteq {3}
    \/ /\ Known \subseteq {1, 2}
       /\ now <= 2
       /\ \A r \in Known : run[r].fence <= 1
       /\ \A q, r \in Known : NoResponse \in {run[q].response, run[r].response}

(* A bound: a message is followed until its tombstone is gone.              *)
WithinHorizon == ~forgotten

ContentSymmetry == Permutations({a1, a2}) \cup Permutations({x1, x2})

=============================================================================
