--------------------------- MODULE OwnerReservation ---------------------------
(***************************************************************************)
(* Changes to the members of a team.  Who is an owner stands in Better     *)
(* Auth, who is suspended in the identity store, and no transaction spans  *)
(* both: a request that takes an active owner away first suspends it in    *)
(* the identity store, as a reservation that other requests can see, and   *)
(* lifts the suspension when Better Auth has answered.                     *)
(*                                                                         *)
(* A step is one call to either store.  A request may stop at any point.   *)
(***************************************************************************)
EXTENDS Integers

CONSTANTS
    Members,    \* memberships of the organization
    Changes     \* requests to change one of them

VARIABLES
    role,       \* [Members -> Better Auth's record]: external
    access,     \* [Members -> access overlay of the identity store]
    change      \* [Changes -> progress of the request]

ownerVars == <<role, access, change>>

NoMember == "nobody"
(* "admin" stands for every role that is not the owner's.                  *)
Roles == {"owner", "admin", "gone"}
Access == [status : {"active", "suspended"}, version : Nat]

(* The team page sends one field: a role, or a status.                     *)
Wishes == {"owner", "admin", "active", "suspended", "removed"}

(* role, status: the target as the request was given it; owners: the       *)
(* owners it listed; version: of the overlay, as read last; held: version  *)
(* of its reservation.                                                     *)
ChangeRecord ==
    [pc : {"new", "list", "check", "look", "reserve", "call", "set", "release", "done"},
     target : Members \cup {NoMember}, wish : Wishes,
     role : Roles, status : {"active", "suspended"},
     owners : SUBSET Members, version : Nat, held : Nat]

NewChange == [pc |-> "new", target |-> NoMember, wish |-> "active",
              role |-> "admin", status |-> "active", owners |-> {},
              version |-> 0, held |-> 0]

-----------------------------------------------------------------------------
Stands(q, pc) == change[q].pc = pc
Goes(q, pc) == change' = [change EXCEPT ![q].pc = pc]

RemovesActiveOwner(c) ==
    /\ c.role = "owner" /\ c.status = "active"
    /\ c.wish \in {"admin", "suspended", "removed"}

(* A status is written to the overlay alone; the rest is Better Auth's, if *)
(* it changes anything.                                                    *)
Outcome(c) ==
    IF c.wish \in {"active", "suspended"} THEN "look"
    ELSE IF c.wish # c.role THEN "call" ELSE "done"

-----------------------------------------------------------------------------
Given(m, w) ==
    [pc |-> "new", target |-> m, wish |-> w, role |-> role[m],
     status |-> access[m].status, owners |-> {}, version |-> 0, held |-> 0]

(* The route's handler reads the target.                                   *)
Begin(q) ==
    /\ Stands(q, "new")
    /\ \E m \in {n \in Members : role[n] # "gone"}, w \in Wishes :
          LET c == Given(m, w)
          IN change' = [change EXCEPT ![q] =
                 [c EXCEPT !.pc = IF RemovesActiveOwner(c) THEN "list" ELSE Outcome(c)]]
    /\ UNCHANGED <<role, access>>

(* activeOwnerMembershipIds: the owners, and then, whether another of them *)
(* is active.                                                              *)
ListOwners(q) ==
    /\ Stands(q, "list")
    /\ change' = [change EXCEPT ![q].owners = {m \in Members : role[m] = "owner"},
                                ![q].pc = "check"]
    /\ UNCHANGED <<role, access>>

OtherActiveOwner(m, owners) ==
    \E o \in owners \ {m} : access[o].status = "active"

CheckOwners(q) ==
    /\ Stands(q, "check")
    /\ Goes(q, IF OtherActiveOwner(change[q].target, change[q].owners)
               THEN "look" ELSE "done")
    /\ UNCHANGED <<role, access>>

(* getMembershipAccessOverlay, for the version.                            *)
ReadOverlay(q) ==
    /\ Stands(q, "look")
    /\ change' = [change EXCEPT
           ![q].version = access[change[q].target].version,
           ![q].pc = IF Outcome(change[q]) = "call" THEN "reserve" ELSE "set"]
    /\ UNCHANGED <<role, access>>

(* Mutant: the store trusts the caller's look at the owners.               *)
KeepsAnOwnerAssumed(m, status, owners) == TRUE

KeepsAnOwner(m, status, owners) ==
    status = "suspended" /\ m \in owners => OtherActiveOwner(m, owners)

(* setMembershipAccessOverlay.                                             *)
MaySet(m, status, version, owners) ==
    /\ KeepsAnOwner(m, status, owners)
    /\ access[m].version = version

SetAccess(m, status) ==
    access' = [access EXCEPT ![m] = [status |-> status, version |-> @.version + 1]]

(* A demotion or a removal reserves: from here on others see no active     *)
(* owner in the target.                                                    *)
Reserve(q) ==
    LET c == change[q] IN
    /\ Stands(q, "reserve")
    /\ IF MaySet(c.target, "suspended", c.version, c.owners)
       THEN /\ SetAccess(c.target, "suspended")
            /\ change' = [change EXCEPT ![q].held = c.version + 1, ![q].pc = "call"]
       ELSE Goes(q, "done") /\ UNCHANGED access
    /\ UNCHANGED role

(* updateMemberRole or removeMember, which Better Auth may refuse.  Only a *)
(* removed member's reservation stays.                                     *)
CallBetterAuth(q) ==
    LET c == change[q] IN
    /\ Stands(q, "call")
    /\ \/ /\ role[c.target] # "gone"
          /\ role' = [role EXCEPT ![c.target] = IF c.wish = "removed" THEN "gone" ELSE c.wish]
          /\ Goes(q, IF c.wish # "removed" /\ c.held > 0 THEN "release" ELSE "done")
       \/ Goes(q, IF c.held > 0 THEN "release" ELSE "done") /\ UNCHANGED role
    /\ UNCHANGED access

SetStatus(q) ==
    LET c == change[q] IN
    /\ Stands(q, "set")
    /\ IF MaySet(c.target, c.wish, c.version, c.owners)
       THEN SetAccess(c.target, c.wish) ELSE UNCHANGED access
    /\ Goes(q, "done")
    /\ UNCHANGED role

(* releaseOwnerReservation: only the reservation as it was made.           *)
ReleaseReservation(q) ==
    /\ Stands(q, "release")
    /\ IF access[change[q].target].version = change[q].held
       THEN SetAccess(change[q].target, "active") ELSE UNCHANGED access
    /\ Goes(q, "done")
    /\ UNCHANGED role

RequestStops(q) ==
    /\ ~Stands(q, "new") /\ ~Stands(q, "done")
    /\ Goes(q, "done")
    /\ UNCHANGED <<role, access>>

-----------------------------------------------------------------------------
OwnerRemains == \E m \in Members : role[m] = "owner" /\ access[m].status = "active"

(* A team with an owner who can act.                                       *)
OwnerInit ==
    /\ role \in [Members -> {"owner", "admin"}]
    /\ access \in [Members -> [status : {"active", "suspended"}, version : {0}]]
    /\ OwnerRemains
    /\ change = [q \in Changes |-> NewChange]

OwnerNext ==
    \E q \in Changes :
        \/ Begin(q) \/ ListOwners(q) \/ CheckOwners(q) \/ ReadOverlay(q)
        \/ Reserve(q) \/ CallBetterAuth(q) \/ SetStatus(q)
        \/ ReleaseReservation(q) \/ RequestStops(q)

OwnerSpec == OwnerInit /\ [][OwnerNext]_ownerVars

-----------------------------------------------------------------------------
(* Both records of the members and the requests are well formed.           *)
OwnerTypeOK ==
    /\ role \in [Members -> Roles]
    /\ access \in [Members -> Access]
    /\ change \in [Changes -> ChangeRecord]

(* "At least one active owner is required": requests that suspend, demote  *)
(* or remove owners at the same time leave one who is an owner in Better   *)
(* Auth and not suspended in the identity store, whatever Better Auth      *)
(* takes or refuses and wherever a request stops.                          *)
ActiveOwnerRemains == OwnerRemains

(* What the request was given or has listed is no longer so in one of the  *)
(* stores, or somebody has lifted its reservation.                         *)
Outdated(q) ==
    LET c == change[q] IN
    \/ role[c.target] # c.role
    \/ access[c.target].status # (IF c.held > 0 THEN "suspended" ELSE c.status)
    \/ \E m \in c.owners : role[m] # "owner"
    \/ c.owners # {} /\ c.target \notin c.owners

(* What the reservations do achieve: a step that leaves the team without an *)
(* active owner is one of a request whose own view is outdated when it     *)
(* takes that step.  Two requests that both see the members as they are    *)
(* never take the last two owners away between them.                       *)
CurrentViewsKeepAnOwner ==
    [][OwnerRemains /\ ~OwnerRemains' =>
         \E q \in Changes : change'[q] # change[q] /\ Outdated(q)]_ownerVars
=============================================================================
