-------------------------- MODULE SandboxSessions ---------------------------
(* The monthly cap on sandbox sessions (sandbox/session-cap.ts).  A turn    *)
(* reserves a session before the first operation of its sandbox.  Turns of  *)
(* many conversations, and attempts of the same turn, meet in one setting   *)
(* per month, which changes only by compare-and-set.                        *)
EXTENDS Naturals, Sequences, FiniteSets, Functions

CONSTANTS
    Turns,
    Sandboxes,          \* one per attempt of a turn that uses a sandbox
    TurnOf,             \* [Sandboxes -> Turns]
    Caps,               \* caps an operator may have set; 0 is none
    MaxReservationIds,
    MaxCasAttempts,
    MaxMonths,          \* bound
    MaxCount            \* bound: sessions of a month

ASSUME SandboxesAssumption ==
    /\ TurnOf \in [Sandboxes -> Turns]
    /\ Caps \subseteq Nat
    /\ MaxReservationIds \in Nat \ {0}
    /\ MaxCasAttempts \in Nat \ {0}
    /\ MaxMonths \in Nat \ {0}
    /\ MaxCount \in Nat

VARIABLES
    cap,           \* for good
    month,         \* the clock
    usage,         \* the setting of each month
    activation,    \* the activation of each sandbox, and what it has read
    counted,       \* ghost: turns that were added to a month's count
    started        \* ghost: turns whose sandbox went to work

sessionVars == <<cap, month, usage, activation, counted, started>>

Months == 1..MaxMonths
NoUsage == [count |-> 0, reservationIds |-> <<>>]

ActivationSteps == {"idle", "read", "patch", "probe", "active"}

SessionsTypeOK ==
    /\ cap \in Caps /\ month \in Months
    /\ \A m \in Months :
          /\ usage[m].count \in 0..MaxCount
          /\ usage[m].reservationIds \in Seq(Turns)
          /\ Len(usage[m].reservationIds) <= MaxReservationIds
          /\ counted[m] \subseteq Turns
    /\ \A s \in Sandboxes :
          /\ activation[s].at \in ActivationSteps
          /\ activation[s].month \in Months
          /\ activation[s].tries \in 0..MaxCasAttempts
    /\ started \subseteq Turns

-----------------------------------------------------------------------------
Reserved(use, t) == t \in Range(use.reservationIds)

(* The ids are the last ones only.                                         *)
LastIds(ids) ==
    SubSeq(ids, IF Len(ids) > MaxReservationIds
                THEN Len(ids) - MaxReservationIds + 1 ELSE 1, Len(ids))

OneMore(use, t) ==
    [count |-> use.count + 1, reservationIds |-> LastIds(Append(use.reservationIds, t))]

Inactive == [at |-> "idle", month |-> 1, tries |-> 0, seen |-> NoUsage]

(* What was read is of no use any more.                                    *)
Sets(s, step) == activation' = [activation EXCEPT ![s] = [Inactive EXCEPT !.at = step]]

(* The first operation of a sandbox activates it; others wait for that.    *)
Activate(s) ==
    /\ activation[s].at = "idle"
    /\ activation' = [activation EXCEPT ![s] =
                         [Inactive EXCEPT !.at = "read", !.month = month]]
    /\ UNCHANGED <<cap, month, usage, counted, started>>

(* A turn that has its reservation goes on; at the cap it is refused, and  *)
(* its next operation asks again.                                          *)
ReadUsage(s) ==
    /\ activation[s].at = "read"
    /\ LET use == usage[activation[s].month] IN
          IF Reserved(use, TurnOf[s]) THEN Sets(s, "probe")
          ELSE IF cap > 0 /\ use.count >= cap THEN Sets(s, "idle")
          ELSE activation' = [activation EXCEPT ![s].at = "patch", ![s].seen = use]
    /\ UNCHANGED <<cap, month, usage, counted, started>>

(* Mutant: the setting is written over whatever it has become.             *)
UnchangedSinceAssumed(s) == TRUE

UnchangedSince(s) == usage[activation[s].month] = activation[s].seen

(* The patch applies when the setting is what was read.  Its answer may be *)
(* lost; the activation has failed then, as it has after too many tries.   *)
PatchUsage(s) ==
    /\ activation[s].at = "patch"
    /\ LET m == activation[s].month IN
          \/ /\ UnchangedSince(s) /\ activation[s].seen.count < MaxCount
             /\ usage' = [usage EXCEPT ![m] = OneMore(activation[s].seen, TurnOf[s])]
             /\ counted' = [counted EXCEPT ![m] = @ \cup {TurnOf[s]}]
             /\ \E step \in {"probe", "idle"} : Sets(s, step)
          \/ /\ ~UnchangedSince(s)
             /\ IF activation[s].tries + 1 < MaxCasAttempts
                THEN activation' = [activation EXCEPT
                        ![s].tries = @ + 1, ![s].at = "read", ![s].seen = NoUsage]
                ELSE Sets(s, "idle")
             /\ UNCHANGED <<usage, counted>>
    /\ UNCHANGED <<cap, month, started>>

(* The container answers, or not: the next operation activates it again.   *)
Probe(s) ==
    /\ activation[s].at = "probe"
    /\ \/ Sets(s, "active") /\ started' = started \cup {TurnOf[s]}
       \/ Sets(s, "idle") /\ UNCHANGED started
    /\ UNCHANGED <<cap, month, usage, counted>>

MonthEnds ==
    /\ month < MaxMonths
    /\ month' = month + 1
    /\ UNCHANGED <<cap, usage, activation, counted, started>>

SessionsInit ==
    /\ cap \in Caps
    /\ month = 1
    /\ usage = [m \in Months |-> NoUsage]
    /\ activation = [s \in Sandboxes |-> Inactive]
    /\ counted = [m \in Months |-> {}]
    /\ started = {}

SessionsNext ==
    \/ \E s \in Sandboxes : Activate(s) \/ ReadUsage(s) \/ PatchUsage(s) \/ Probe(s)
    \/ MonthEnds

SessionsSpec == SessionsInit /\ [][SessionsNext]_sessionVars

-----------------------------------------------------------------------------
(* No month counts more sessions than its cap, nobody works in a sandbox    *)
(* without being counted, and no attempt of a turn is counted again: as     *)
(* long as the list of reservations holds them all, the count is the number *)
(* of turns.                                                                *)
CapIsSpentOnce ==
    /\ \A m \in Months :
          /\ cap > 0 => usage[m].count <= cap
          /\ usage[m].count <= MaxReservationIds =>
                usage[m].count = Cardinality(counted[m])
    /\ started \subseteq UNION {counted[m] : m \in Months}
=============================================================================
