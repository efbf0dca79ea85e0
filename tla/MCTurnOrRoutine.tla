--------------------------- MODULE MCTurnOrRoutine ---------------------------
(* Instances for TLC of LedgerTurn and RoutineOccurrence.  A behaviour is  *)
(* about a Slack turn or about a routine, the other stands still: the      *)
(* instances are added up and not multiplied.                              *)
EXTENDS MCLedgerTurn, RoutineOccurrence, TLC

CONSTANTS h1, h2, p1, p2

VARIABLE subject    \* what this behaviour is about

OfTurn == subject = "turn"
OfRoutine == subject = "routine"

EitherInit ==
    /\ Init /\ RoutineInit
    /\ subject \in {"turn", "routine"}
    /\ OfTurn \/ (~job.react /\ ~job.authed)
    /\ OfRoutine \/ routine.kind = "once"

(* A turn may come to rest, a routine goes on: nothing else may deadlock.  *)
TurnRests == IsDecided /\ UNCHANGED vars

EitherNext ==
    /\ UNCHANGED subject
    /\ \/ OfTurn /\ (Next \/ TurnRests) /\ UNCHANGED routineVars
       \/ OfRoutine /\ RoutineNext /\ UNCHANGED vars

EitherSpec == EitherInit /\ [][EitherNext]_<<vars, routineVars, subject>>

-----------------------------------------------------------------------------
(* Handlers or heartbeats beside each other                                *)

AnyFault == {"crash", "access", "agent", "slack", "schedule"}

(* Heartbeats and prompts are interchangeable.                             *)
Symmetry == Permutations({h1, h2}) \cup Permutations({p1, p2})

(* A bound: a second occurrence is followed only if nothing was prepared   *)
(* of the first, and one heartbeat at a time works on it.                  *)
SecondIsPlain ==
    \A r \in Runs \ {1} : occ[r].status # "absent" =>
        occ[1].envelope = None /\ \E h \in Heartbeats : BeatAt(h, "idle")

-----------------------------------------------------------------------------
(* What comes to an end                                                    *)

(* The fairness of LedgerTurn and of RoutineOccurrence, each for the       *)
(* behaviours about it.                                                    *)
EitherFairness ==
    /\ \A f \in Claims : WF_vars(OfTurn /\ Claim(f)) /\ WF_vars(OfTurn /\ Handle(f))
    /\ WF_vars(OfTurn /\ ClaimNothing)
    /\ WF_vars(OfTurn /\ Submission)
    /\ WF_vars(OfTurn /\ LeaseExpires)
    /\ SF_routineVars(OfRoutine /\ Tick)
    /\ \A h \in Heartbeats :
          /\ WF_routineVars(OfRoutine /\ Finds(h))
          /\ WF_routineVars(OfRoutine /\ (Executes(h) \/ BeatCrashes(h)))

FairEitherSpec == EitherSpec /\ EitherFairness

(* A bound: the second heartbeat only finds work, and beside the first one *)
(* only until an occurrence is admitted.                                   *)
OverlapIsEarly ==
    /\ BeatAt(h1, "idle") \/ BeatAt(h2, "idle")
          \/ \A r \in Runs : occ[r].status \in {"absent", "queued", "skipped"}
    /\ beat[h2].pc \in {"idle", "claim", "list", "queued"}

(* Every turn comes to rest: the run is settled or waits for an operator,  *)
(* stays so, and nobody works on it any more.                              *)
TurnIsDecided == <>[](OfTurn => IsDecided)
=============================================================================
