------------------------------ MODULE TeamProofs ------------------------------
(***************************************************************************)
(* Theorems about what a team shares: its owners, its invitations and its  *)
(* sandbox sessions.  For any number of members, of requests, invitations  *)
(* and errands, of turns and sandboxes, and for any cap.                   *)
(***************************************************************************)
EXTENDS OwnerReservation, Invitations, SandboxSessions, FiniteSetTheorems, TLAPS

-----------------------------------------------------------------------------
(* Owners                                                                  *)
(*                                                                         *)
(* The inductive invariant OwnerInv says what a request has established at *)
(* each point of its way: whoever reserves has listed owners, and whoever  *)
(* asks Better Auth to take an active owner away holds a reservation.      *)

(* What holds of a request where it stands.                                *)
RequestInv(c) ==
    /\ c.pc # "new" => c.target \in Members
    /\ c.pc \in {"list", "check", "reserve"} => RemovesActiveOwner(c)
    /\ c.pc = "reserve" => Outcome(c) = "call" /\ c.owners # {}
    /\ c.pc \in {"look", "set"} /\ RemovesActiveOwner(c) => c.owners # {}
    /\ c.pc = "look" => Outcome(c) # "done"
    /\ c.pc = "look" /\ ~RemovesActiveOwner(c) => Outcome(c) = "look"
    /\ c.pc = "set" => Outcome(c) = "look"
    /\ c.pc = "call" => Outcome(c) = "call"
    /\ c.pc = "call" /\ RemovesActiveOwner(c) => c.held > 0
    /\ c.held > 0 => c.pc \in {"call", "release", "done"}

RequestsInv == \A q \in Changes : RequestInv(change[q])

OwnerInv == OwnerTypeOK /\ RequestsInv

-----------------------------------------------------------------------------
(* One request moves, the others stay where they are.                      *)
LEMMA OneRequestMoves ==
    ASSUME OwnerTypeOK, RequestsInv, NEW q \in Changes,
           NEW c \in ChangeRecord, RequestInv(c),
           change' = [change EXCEPT ![q] = c]
    PROVE  change' \in [Changes -> ChangeRecord] /\ RequestsInv'
<1>1. change \in [Changes -> ChangeRecord]
  BY DEF OwnerTypeOK
<1>2. change' \in [Changes -> ChangeRecord]
  BY <1>1
<1>3. ASSUME NEW r \in Changes PROVE RequestInv(change'[r])
  <2>1. CASE r = q BY <1>1, <2>1
  <2>2. CASE r # q BY <1>1, <2>2 DEF RequestsInv
  <2> QED BY <2>1, <2>2
<1> QED BY <1>2, <1>3 DEF RequestsInv

LEMMA OneAccessChanges ==
    ASSUME access \in [Members -> Access], NEW m \in Members,
           NEW s \in {"active", "suspended"}, SetAccess(m, s)
    PROVE  /\ access' \in [Members -> Access]
           /\ access'[m].status = s
           /\ \A n \in Members \ {m} : access'[n] = access[n]
BY DEF SetAccess, Access

LEMMA InitOwnerInv == OwnerInit => OwnerInv
<1> SUFFICES ASSUME OwnerInit PROVE OwnerInv
  OBVIOUS
<1>1. NewChange \in ChangeRecord /\ RequestInv(NewChange)
  BY DEF NewChange, ChangeRecord, Wishes, Roles, RequestInv, RemovesActiveOwner
<1>2. role \in [Members -> Roles]
  BY DEF OwnerInit, Roles
<1>3. access \in [Members -> Access]
  BY DEF OwnerInit, Access
<1>4. change \in [Changes -> ChangeRecord] /\ RequestsInv
  BY <1>1 DEF OwnerInit, RequestsInv
<1> QED
  BY <1>2, <1>3, <1>4 DEF OwnerInv, OwnerTypeOK

-----------------------------------------------------------------------------
(* Types, and what a request has established.                              *)
LEMMA RequestsKeepTheirWay ==
    ASSUME OwnerTypeOK, RequestsInv, NEW q \in Changes,
           \/ Begin(q) \/ ListOwners(q) \/ CheckOwners(q) \/ ReadOverlay(q)
           \/ Reserve(q) \/ CallBetterAuth(q) \/ SetStatus(q)
           \/ ReleaseReservation(q) \/ RequestStops(q)
    PROVE  OwnerTypeOK' /\ RequestsInv'
<1> DEFINE c == change[q]
<1>0. /\ c \in ChangeRecord /\ RequestInv(c) /\ change \in [Changes -> ChangeRecord]
      /\ role \in [Members -> Roles] /\ access \in [Members -> Access]
  BY DEF OwnerTypeOK, RequestsInv
<1>1. CASE Begin(q)
  <2>1. PICK m \in Members, w \in Wishes :
            change' = [change EXCEPT ![q] =
                [Given(m, w) EXCEPT !.pc = IF RemovesActiveOwner(Given(m, w))
                                           THEN "list" ELSE Outcome(Given(m, w))]]
    BY <1>1 DEF Begin
  <2> DEFINE d == Given(m, w)
             pc == IF RemovesActiveOwner(d) THEN "list" ELSE Outcome(d)
             n == [d EXCEPT !.pc = pc]
  <2>2. role[m] \in Roles /\ access[m].status \in {"active", "suspended"}
    BY <1>0 DEF Access
  <2>3. n = [pc |-> pc, target |-> m, wish |-> w, role |-> role[m],
             status |-> access[m].status, owners |-> {}, version |-> 0, held |-> 0]
    BY DEF Given
  <2>4. /\ Outcome(d) \in {"look", "call", "done"}
        /\ RemovesActiveOwner(d) => pc = "list"
        /\ ~RemovesActiveOwner(d) => pc = Outcome(d)
    BY DEF Outcome
  <2>5. RemovesActiveOwner(n) = RemovesActiveOwner(d) /\ Outcome(n) = Outcome(d)
    BY DEF RemovesActiveOwner, Outcome, Given
  <2>6. change' = [change EXCEPT ![q] = n]
    BY <2>1
  <2> HIDE DEF d, pc, n
  <2>7. n \in ChangeRecord
    BY <2>2, <2>3, <2>4 DEF ChangeRecord
  <2>8. RequestInv(n)
    BY <2>3, <2>4, <2>5 DEF RequestInv
  <2>9. change' \in [Changes -> ChangeRecord] /\ RequestsInv'
    BY <2>6, <2>7, <2>8, OneRequestMoves
  <2> QED BY <1>0, <1>1, <2>9 DEF OwnerTypeOK, Begin
<1>2. CASE ListOwners(q)
  <2> DEFINE n == [c EXCEPT !.owners = {m \in Members : role[m] = "owner"}, !.pc = "check"]
  <2>1. change' = [change EXCEPT ![q] = n]
    BY <1>0, <1>2 DEF ListOwners
  <2>2. n \in ChangeRecord /\ RequestInv(n)
    BY <1>0, <1>2 DEF ListOwners, Stands, ChangeRecord, RequestInv, RemovesActiveOwner
  <2>3. change' \in [Changes -> ChangeRecord] /\ RequestsInv'
    BY <2>1, <2>2, OneRequestMoves
  <2> QED BY <1>0, <1>2, <2>3 DEF OwnerTypeOK, ListOwners
<1>3. CASE CheckOwners(q)
  <2> DEFINE n == [c EXCEPT !.pc = IF OtherActiveOwner(c.target, c.owners)
                                   THEN "look" ELSE "done"]
  <2>1. change' = [change EXCEPT ![q] = n]
    BY <1>0, <1>3 DEF CheckOwners, Goes
  <2>2. n \in ChangeRecord /\ RequestInv(n)
    BY <1>0, <1>3 DEF CheckOwners, Stands, ChangeRecord, RequestInv,
                      RemovesActiveOwner, OtherActiveOwner, Outcome
  <2>3. change' \in [Changes -> ChangeRecord] /\ RequestsInv'
    BY <2>1, <2>2, OneRequestMoves
  <2> QED BY <1>0, <1>3, <2>3 DEF OwnerTypeOK, CheckOwners
<1>4. CASE ReadOverlay(q)
  <2> DEFINE n == [c EXCEPT !.version = access[c.target].version,
                            !.pc = IF Outcome(c) = "call" THEN "reserve" ELSE "set"]
  <2>1. change' = [change EXCEPT ![q] = n]
    BY <1>0, <1>4 DEF ReadOverlay
  <2>2. n \in ChangeRecord /\ RequestInv(n)
    BY <1>0, <1>4 DEF ReadOverlay, Stands, ChangeRecord, RequestInv,
                      RemovesActiveOwner, Outcome, Access
  <2>3. change' \in [Changes -> ChangeRecord] /\ RequestsInv'
    BY <2>1, <2>2, OneRequestMoves
  <2> QED BY <1>0, <1>4, <2>3 DEF OwnerTypeOK, ReadOverlay
<1>5. CASE Reserve(q)
  <2>1. Stands(q, "reserve") /\ c.target \in Members /\ RemovesActiveOwner(c)
        /\ Outcome(c) = "call"
    BY <1>0, <1>5 DEF Reserve, RequestInv, Stands
  <2>2. CASE MaySet(c.target, "suspended", c.version, c.owners)
    <3> DEFINE n == [c EXCEPT !.held = c.version + 1, !.pc = "call"]
    <3>1. change' = [change EXCEPT ![q] = n]
      BY <1>0, <1>5, <2>2 DEF Reserve
    <3>2. n \in ChangeRecord
      <4>1. c.version + 1 \in Nat
        BY <1>0 DEF ChangeRecord
      <4>2. [c EXCEPT !.held = c.version + 1] \in ChangeRecord
        BY <1>0, <4>1 DEF ChangeRecord
      <4> QED BY <4>2 DEF ChangeRecord
    <3>3. n.pc = "call" /\ n.held > 0 /\ n.target \in Members /\ Outcome(n) = Outcome(c)
      BY <1>0, <2>1 DEF ChangeRecord, Outcome
    <3>4. RequestInv(n)
      BY <2>1, <3>3 DEF RequestInv
    <3>5. change' \in [Changes -> ChangeRecord] /\ RequestsInv'
      BY <3>1, <3>2, <3>4, OneRequestMoves
    <3>6. SetAccess(c.target, "suspended") /\ role' = role
      BY <1>5, <2>2 DEF Reserve
    <3> QED BY <1>0, <2>1, <3>5, <3>6, OneAccessChanges DEF OwnerTypeOK
  <2>3. CASE ~MaySet(c.target, "suspended", c.version, c.owners)
    <3> DEFINE n == [c EXCEPT !.pc = "done"]
    <3>1. change' = [change EXCEPT ![q] = n]
      BY <1>0, <1>5, <2>3 DEF Reserve, Goes
    <3>2. n \in ChangeRecord /\ RequestInv(n)
      BY <1>0, <2>1 DEF ChangeRecord, RequestInv
    <3>3. change' \in [Changes -> ChangeRecord] /\ RequestsInv'
      BY <3>1, <3>2, OneRequestMoves
    <3> QED BY <1>0, <1>5, <2>3, <3>3 DEF OwnerTypeOK, Reserve
  <2> QED BY <2>2, <2>3
<1>6. CASE CallBetterAuth(q)
  <2>1. c.target \in Members
    BY <1>0, <1>6 DEF CallBetterAuth, RequestInv, Stands
  <2>2. PICK p \in {"release", "done"} : change' = [change EXCEPT ![q] = [c EXCEPT !.pc = p]]
    BY <1>0, <1>6 DEF CallBetterAuth, Goes
  <2>3. [c EXCEPT !.pc = p] \in ChangeRecord /\ RequestInv([c EXCEPT !.pc = p])
    BY <1>0, <2>1 DEF ChangeRecord, RequestInv
  <2>4. change' \in [Changes -> ChangeRecord] /\ RequestsInv'
    BY <2>2, <2>3, OneRequestMoves
  <2>5. role' \in [Members -> Roles] /\ access' = access
    <3>1. c.pc = "call" => c.wish \in {"owner", "admin", "removed"}
      BY <1>0 DEF RequestInv, Outcome, ChangeRecord, Wishes
    <3> QED BY <1>0, <1>6, <3>1 DEF CallBetterAuth, Roles, Stands
  <2> QED BY <1>0, <2>4, <2>5 DEF OwnerTypeOK
<1>7. CASE SetStatus(q)
  <2>1. c.target \in Members /\ c.wish \in {"active", "suspended"}
    BY <1>0, <1>7 DEF SetStatus, RequestInv, Stands, Outcome, ChangeRecord, Wishes
  <2>2. change' = [change EXCEPT ![q] = [c EXCEPT !.pc = "done"]]
    BY <1>0, <1>7 DEF SetStatus, Goes
  <2>3. [c EXCEPT !.pc = "done"] \in ChangeRecord /\ RequestInv([c EXCEPT !.pc = "done"])
    BY <1>0, <2>1 DEF ChangeRecord, RequestInv
  <2>4. change' \in [Changes -> ChangeRecord] /\ RequestsInv'
    BY <2>2, <2>3, OneRequestMoves
  <2>5. access' \in [Members -> Access] /\ role' = role
    BY <1>0, <1>7, <2>1, OneAccessChanges DEF SetStatus
  <2> QED BY <1>0, <2>4, <2>5 DEF OwnerTypeOK
<1>8. CASE ReleaseReservation(q)
  <2>1. c.target \in Members
    BY <1>0, <1>8 DEF ReleaseReservation, RequestInv, Stands
  <2>2. change' = [change EXCEPT ![q] = [c EXCEPT !.pc = "done"]]
    BY <1>0, <1>8 DEF ReleaseReservation, Goes
  <2>3. [c EXCEPT !.pc = "done"] \in ChangeRecord /\ RequestInv([c EXCEPT !.pc = "done"])
    BY <1>0, <2>1 DEF ChangeRecord, RequestInv
  <2>4. change' \in [Changes -> ChangeRecord] /\ RequestsInv'
    BY <2>2, <2>3, OneRequestMoves
  <2>5. access' \in [Members -> Access] /\ role' = role
    BY <1>0, <1>8, <2>1, OneAccessChanges DEF ReleaseReservation
  <2> QED BY <1>0, <2>4, <2>5 DEF OwnerTypeOK
<1>9. CASE RequestStops(q)
  <2>1. c.target \in Members
    BY <1>0, <1>9 DEF RequestStops, RequestInv, Stands
  <2>2. change' = [change EXCEPT ![q] = [c EXCEPT !.pc = "done"]]
    BY <1>0, <1>9 DEF RequestStops, Goes
  <2>3. [c EXCEPT !.pc = "done"] \in ChangeRecord /\ RequestInv([c EXCEPT !.pc = "done"])
    BY <1>0, <2>1 DEF ChangeRecord, RequestInv
  <2>4. change' \in [Changes -> ChangeRecord] /\ RequestsInv'
    BY <2>2, <2>3, OneRequestMoves
  <2> QED BY <1>0, <1>9, <2>4 DEF OwnerTypeOK, RequestStops
<1> QED BY <1>1, <1>2, <1>3, <1>4, <1>5, <1>6, <1>7, <1>8, <1>9

-----------------------------------------------------------------------------
(* The owners.                                                             *)

(* A write that suspends a member which was no active owner takes no owner *)
(* away, and neither does one that activates.                              *)
LEMMA ActivationKeepsOwners ==
    ASSUME OwnerTypeOK, OwnerRemains, NEW m \in Members, SetAccess(m, "active"),
           role' = role
    PROVE  OwnerRemains'
<1>1. PICK o \in Members : role[o] = "owner" /\ access[o].status = "active"
  BY DEF OwnerRemains
<1>2. access'[o].status = "active"
  BY <1>1, OneAccessChanges DEF OwnerTypeOK
<1> QED BY <1>1, <1>2 DEF OwnerRemains

(* The store suspends an owner of the given list only beside an active one.*)
LEMMA SuspensionKeepsAnOwner ==
    ASSUME OwnerTypeOK, OwnerRemains, NEW q \in Changes, RequestInv(change[q]),
           \/ change[q].pc = "reserve"
           \/ change[q].pc = "set" /\ change[q].wish = "suspended",
           ~Outdated(q),
           KeepsAnOwner(change[q].target, "suspended", change[q].owners),
           SetAccess(change[q].target, "suspended"), role' = role
    PROVE  OwnerRemains'
<1> DEFINE c == change[q]
<1>0. c \in ChangeRecord /\ c.target \in Members
      /\ role \in [Members -> Roles] /\ access \in [Members -> Access]
  BY DEF OwnerTypeOK, RequestInv
<1>1. /\ access'[c.target].status = "suspended"
      /\ \A n \in Members \ {c.target} : access'[n] = access[n]
  BY <1>0, OneAccessChanges
<1>2. CASE RemovesActiveOwner(c)
  <2>1. c.owners # {} /\ c.target \in c.owners
    BY <1>2 DEF RequestInv, Outdated
  <2>2. PICK o \in c.owners \ {c.target} : access[o].status = "active"
    BY <2>1 DEF KeepsAnOwner, OtherActiveOwner
  <2>3. role[o] = "owner" /\ o \in Members
    BY <1>0, <2>2 DEF Outdated, ChangeRecord
  <2> QED BY <1>1, <2>2, <2>3 DEF OwnerRemains
<1>3. CASE ~RemovesActiveOwner(c)
  <2>1. c.pc = "set" /\ c.wish = "suspended" /\ ~(c.held > 0)
    BY <1>3 DEF RequestInv
  <2>2. role[c.target] = c.role /\ access[c.target].status = c.status
    BY <2>1 DEF Outdated
  <2>3. role[c.target] # "owner" \/ access[c.target].status # "active"
    BY <1>3, <2>1, <2>2 DEF RemovesActiveOwner
  <2>4. PICK o \in Members : role[o] = "owner" /\ access[o].status = "active"
    BY DEF OwnerRemains
  <2> QED BY <1>1, <2>3, <2>4 DEF OwnerRemains
<1> QED BY <1>2, <1>3

(* Better Auth is asked to take an owner away only while the reservation,  *)
(* or an earlier suspension, shows it as inactive.                         *)
LEMMA BetterAuthKeepsAnOwner ==
    ASSUME OwnerTypeOK, OwnerRemains, NEW q \in Changes, RequestInv(change[q]),
           change[q].pc = "call", ~Outdated(q), access' = access,
           role' = [role EXCEPT ![change[q].target] =
                       IF change[q].wish = "removed" THEN "gone" ELSE change[q].wish]
    PROVE  OwnerRemains'
<1> DEFINE c == change[q]
<1>0. c \in ChangeRecord /\ c.target \in Members /\ role \in [Members -> Roles]
  BY DEF OwnerTypeOK, RequestInv
<1>1. PICK o \in Members : role[o] = "owner" /\ access[o].status = "active"
  BY DEF OwnerRemains
<1>2. CASE c.wish = "owner"
  BY <1>0, <1>1, <1>2 DEF OwnerRemains
<1>3. CASE c.wish # "owner"
  <2>1. c.wish \in {"admin", "removed"}
    BY <1>0, <1>3 DEF RequestInv, Outcome, ChangeRecord, Wishes
  <2>2. role[c.target] # "owner" \/ access[c.target].status # "active"
    <3>1. CASE c.held > 0
      BY <3>1 DEF Outdated
    <3>2. CASE ~(c.held > 0)
      BY <2>1, <3>2 DEF Outdated, RequestInv, RemovesActiveOwner
    <3> QED BY <3>1, <3>2
  <2>3. o # c.target
    BY <1>1, <2>2
  <2> QED BY <1>0, <1>1, <2>3 DEF OwnerRemains
<1> QED BY <1>2, <1>3

(* A request moves on whenever it writes to one of the stores.             *)
LEMMA WritersMove ==
    ASSUME OwnerTypeOK, NEW q \in Changes,
           Reserve(q) \/ CallBetterAuth(q) \/ SetStatus(q)
    PROVE  change'[q] # change[q]
<1>1. change[q].pc \in {"reserve", "call", "set"}
  BY DEF Reserve, CallBetterAuth, SetStatus, Stands
<1>2. change'[q].pc # change[q].pc
  BY <1>1 DEF Reserve, CallBetterAuth, SetStatus, Stands, Goes, OwnerTypeOK, ChangeRecord
<1> QED BY <1>2

LEMMA OwnersStep ==
    ASSUME OwnerInv, OwnerRemains, NEW q \in Changes,
           \/ Begin(q) \/ ListOwners(q) \/ CheckOwners(q) \/ ReadOverlay(q)
           \/ Reserve(q) \/ CallBetterAuth(q) \/ SetStatus(q)
           \/ ReleaseReservation(q) \/ RequestStops(q)
    PROVE  OwnerRemains' \/ (change'[q] # change[q] /\ Outdated(q))
<1> DEFINE c == change[q]
<1>0. OwnerTypeOK /\ RequestInv(c) /\ c \in ChangeRecord
  BY DEF OwnerInv, RequestsInv, OwnerTypeOK
<1>1. CASE UNCHANGED <<role, access>>
  BY <1>1 DEF OwnerRemains
<1>2. CASE Outdated(q) /\ (Reserve(q) \/ CallBetterAuth(q) \/ SetStatus(q))
  BY <1>0, <1>2, WritersMove
<1>3. CASE ~Outdated(q) /\ ~UNCHANGED <<role, access>> /\ Reserve(q)
  <2>1. /\ MaySet(c.target, "suspended", c.version, c.owners)
        /\ SetAccess(c.target, "suspended") /\ role' = role /\ c.pc = "reserve"
    BY <1>3 DEF Reserve, Stands
  <2> QED BY <1>0, <1>3, <2>1, SuspensionKeepsAnOwner DEF MaySet
<1>4. CASE ~Outdated(q) /\ ~UNCHANGED <<role, access>> /\ CallBetterAuth(q)
  <2>1. /\ role' = [role EXCEPT ![c.target] =
                       IF c.wish = "removed" THEN "gone" ELSE c.wish]
        /\ access' = access /\ c.pc = "call"
    BY <1>4 DEF CallBetterAuth, Stands
  <2> QED BY <1>0, <1>4, <2>1, BetterAuthKeepsAnOwner
<1>5. CASE ~Outdated(q) /\ ~UNCHANGED <<role, access>> /\ SetStatus(q)
  <2>1. /\ MaySet(c.target, c.wish, c.version, c.owners)
        /\ SetAccess(c.target, c.wish) /\ role' = role /\ c.pc = "set"
    BY <1>5 DEF SetStatus, Stands
  <2>2. c.target \in Members /\ c.wish \in {"active", "suspended"}
    BY <1>0, <2>1 DEF RequestInv, Outcome, ChangeRecord, Wishes
  <2>3. CASE c.wish = "suspended"
    BY <1>0, <1>5, <2>1, <2>3, SuspensionKeepsAnOwner DEF MaySet
  <2>4. CASE c.wish = "active"
    BY <1>0, <2>1, <2>2, <2>4, ActivationKeepsOwners
  <2> QED BY <2>2, <2>3, <2>4
<1>6. CASE ~UNCHANGED <<role, access>> /\ ReleaseReservation(q)
  <2>1. SetAccess(c.target, "active") /\ role' = role /\ c.target \in Members
    BY <1>0, <1>6 DEF ReleaseReservation, RequestInv, Stands
  <2> QED BY <1>0, <2>1, ActivationKeepsOwners
<1>7. CASE Begin(q) \/ ListOwners(q) \/ CheckOwners(q) \/ ReadOverlay(q) \/ RequestStops(q)
  <2>1. UNCHANGED <<role, access>>
    BY <1>7 DEF Begin, ListOwners, CheckOwners, ReadOverlay, RequestStops
  <2> QED BY <1>1, <2>1
<1> QED BY <1>1, <1>2, <1>3, <1>4, <1>5, <1>6, <1>7

-----------------------------------------------------------------------------
LEMMA OwnersStayInvariant == OwnerSpec => []OwnerInv
<1>1. OwnerInit => OwnerInv
  BY InitOwnerInv
<1>2. OwnerInv /\ [OwnerNext]_ownerVars => OwnerInv'
  <2> SUFFICES ASSUME OwnerInv, [OwnerNext]_ownerVars PROVE OwnerInv'
    OBVIOUS
  <2>1. CASE UNCHANGED ownerVars
    BY <2>1 DEF OwnerInv, ownerVars, OwnerTypeOK, RequestsInv
  <2>2. CASE OwnerNext
    BY <2>2, RequestsKeepTheirWay DEF OwnerNext, OwnerInv
  <2> QED BY <2>1, <2>2
<1> QED BY <1>1, <1>2, PTL DEF OwnerSpec

(* However many requests change however many members at once, and wherever *)
(* each of them stops: no step of a request that sees the members as they  *)
(* are leaves the team without an owner who can act.  That is what the     *)
(* reservations of updateMembership do; a request with an outdated view    *)
(* may take the last owner away.                                           *)
THEOREM ReservationsKeepAnOwner == OwnerSpec => CurrentViewsKeepAnOwner
<1>1. OwnerInv /\ [OwnerNext]_ownerVars =>
        [OwnerRemains /\ ~OwnerRemains' =>
           \E q \in Changes : change'[q] # change[q] /\ Outdated(q)]_ownerVars
  <2> SUFFICES ASSUME OwnerInv, OwnerNext, OwnerRemains, ~OwnerRemains'
               PROVE  \E q \in Changes : change'[q] # change[q] /\ Outdated(q)
    OBVIOUS
  <2> QED BY OwnersStep DEF OwnerNext
<1> QED BY <1>1, OwnersStayInvariant, PTL DEF OwnerSpec, CurrentViewsKeepAnOwner

-----------------------------------------------------------------------------
(* Invitations                                                             *)
(*                                                                         *)
(* The properties hold because at most one operation is open, and because  *)
(* the request that is about to invite is alone with it: inviting an       *)
(* address again cancels only invitations of operations that are over, and *)
(* revives none that an admin revokes.                                     *)

Statuses == {"none", "pending", "accepted", "cancelled"}

BaseInv ==
    /\ operation \in [Invitations -> Operation]
    /\ invitation \in [Invitations -> Statuses]
    /\ errand \in [Clerks -> Errand]
    /\ handed \subseteq Invitations /\ cancelled \subseteq Invitations
    /\ withdrawn \subseteq Invitations

(* Who has begun to serve an operation.                                    *)
ServesInv ==
    \A r \in Clerks :
        /\ errand[r].pc \notin {"idle", "list", "reserve"} => errand[r].on \in Invitations
        /\ errand[r].on \in Invitations => operation[errand[r].on].status # "none"

FreshInv ==
    \A i \in Invitations :
        operation[i].status = "none" => operation[i].step = 0 /\ ~operation[i].overdue

OneOpenInv == \A i, j \in Invitations : Open(i) /\ Open(j) => i = j

InviterInv ==
    \A r \in Clerks : Busy(r, "invite") =>
        /\ Open(errand[r].on) /\ operation[errand[r].on].step = 0
        /\ \A q \in Clerks \ {r} : errand[q].on = errand[r].on => Busy(q, "wait")

IsLinked(i) ==
    operation[i].step > 0 \/ \E r \in Clerks : Busy(r, "link") /\ errand[r].on = i

LinkInv ==
    \A i \in Invitations : Open(i) /\ IsLinked(i) =>
        invitation[i] \in {"pending", "accepted"} \/ i \in cancelled

HandedInv == \A i \in handed : operation[i].step > 0

RevokeInv ==
    \A r \in Clerks : Busy(r, "revoke") => invitation[errand[r].on] # "pending"

WithdrawnInv ==
    \A i \in withdrawn : operation[i].status = "revoked" /\ invitation[i] # "pending"

(* Who joins follows a link.                                               *)
Joins(e) ==
    e.pc \in {"account", "enter", "session", "member", "accept", "record", "consume"}

JoinerInv ==
    \A r \in Clerks : Joins(errand[r]) => operation[errand[r].on].step > 0

InvitationInv ==
    /\ BaseInv /\ ServesInv /\ FreshInv /\ OneOpenInv /\ InviterInv
    /\ LinkInv /\ HandedInv /\ JoinerInv /\ RevokeInv /\ WithdrawnInv

-----------------------------------------------------------------------------
(* Most steps create no operation, invite nobody and link nothing: they    *)
(* only bring an operation, an invitation or a request further.            *)

MovesOn(i) ==
    /\ operation'[i].status # operation[i].status =>
          operation[i].status = "pending" /\ operation'[i].status \notin {"none", "pending"}
    /\ operation[i].overdue => operation'[i].overdue
    /\ operation[i].status = "none" => operation'[i] = operation[i]
    /\ operation'[i].step > 0 <=> operation[i].step > 0
    /\ \A q \in Clerks : Busy(q, "invite") /\ errand[q].on = i =>
          operation'[i] = operation[i]

EntersRightly(r) ==
    LET e == errand'[r] IN
    /\ e.pc \notin {"invite", "link"}
    /\ e.pc \notin {"idle", "list", "reserve"} => e.on \in Invitations
    /\ e.on \in Invitations =>
          /\ operation[e.on].status # "none"
          /\ e.pc # "wait" => \A q \in Clerks \ {r} : errand[q].on = e.on => ~Busy(q, "invite")
    /\ Joins(e) => operation[e.on].step > 0
    /\ e.pc = "revoke" => invitation'[e.on] # "pending"

BringsFurther ==
    /\ operation' \in [Invitations -> Operation]
    /\ \A i \in Invitations : MovesOn(i)
    /\ invitation' \in [Invitations -> Statuses]
    /\ \A i \in Invitations :
          \/ invitation'[i] = invitation[i]
          \/ invitation'[i] = "accepted"
          \/ invitation'[i] = "cancelled" /\ i \in cancelled'
    /\ errand' \in [Clerks -> Errand]
    /\ \A r \in Clerks : errand'[r] = errand[r] \/ EntersRightly(r)
    /\ cancelled \subseteq cancelled' /\ cancelled' \subseteq Invitations
    /\ handed' \subseteq Invitations
    /\ \A i \in handed' : i \in handed \/ operation[i].step > 0
    /\ withdrawn' \subseteq Invitations
    /\ \A i \in withdrawn' :
          i \in withdrawn \/ (operation'[i].status = "revoked" /\ invitation'[i] # "pending")

LEMMA FurtherKeepsInv ==
    ASSUME InvitationInv, BringsFurther
    PROVE  InvitationInv'
<1> USE DEF InvitationInv
<1>1. ASSUME NEW i \in Invitations PROVE Open(i)' => Open(i)
  BY DEF BringsFurther, MovesOn, Open, Operation
<1>2. BaseInv'
  BY DEF BringsFurther, BaseInv
<1>3. ServesInv'
  <2> SUFFICES ASSUME NEW r \in Clerks
               PROVE  /\ errand'[r].pc \notin {"idle", "list", "reserve"} =>
                            errand'[r].on \in Invitations
                      /\ errand'[r].on \in Invitations =>
                            operation'[errand'[r].on].status # "none"
    BY DEF ServesInv
  <2>1. CASE errand'[r] = errand[r]
    BY <2>1 DEF BringsFurther, MovesOn, ServesInv
  <2>2. CASE EntersRightly(r)
    BY <2>2 DEF BringsFurther, EntersRightly, MovesOn
  <2> QED BY <2>1, <2>2 DEF BringsFurther
<1>4. FreshInv'
  BY DEF BringsFurther, MovesOn, FreshInv
<1>5. OneOpenInv'
  BY <1>1 DEF OneOpenInv
<1>6. InviterInv'
  <2> SUFFICES ASSUME NEW r \in Clerks, errand'[r].pc = "invite"
               PROVE  /\ Open(errand[r].on)'
                      /\ operation'[errand'[r].on].step = 0
                      /\ \A q \in Clerks \ {r} :
                            errand'[q].on = errand'[r].on => errand'[q].pc = "wait"
    BY DEF InviterInv, Busy
  <2>1. errand'[r] = errand[r]
    BY DEF BringsFurther, EntersRightly
  <2>2. /\ Open(errand[r].on) /\ operation[errand[r].on].step = 0
        /\ errand[r].on \in Invitations
        /\ \A q \in Clerks \ {r} : errand[q].on = errand[r].on => errand[q].pc = "wait"
    BY <2>1 DEF InviterInv, ServesInv, Busy
  <2>3. operation'[errand[r].on] = operation[errand[r].on]
    BY <2>1, <2>2 DEF BringsFurther, MovesOn, Busy
  <2>4. ASSUME NEW q \in Clerks \ {r}, errand'[q].on = errand'[r].on
        PROVE  errand'[q].pc = "wait"
    <3>1. CASE errand'[q] = errand[q]
      BY <2>1, <2>2, <2>4, <3>1
    <3>2. CASE EntersRightly(q)
      BY <2>1, <2>2, <2>4, <3>2 DEF EntersRightly, Busy
    <3> QED BY <3>1, <3>2 DEF BringsFurther
  <2> QED BY <2>1, <2>2, <2>3, <2>4 DEF Open
<1>7. LinkInv'
  <2> SUFFICES ASSUME NEW i \in Invitations, Open(i)', IsLinked(i)'
               PROVE  invitation'[i] \in {"pending", "accepted"} \/ i \in cancelled'
    BY DEF LinkInv
  <2>1. Open(i)
    BY <1>1
  <2>2. IsLinked(i)
    BY DEF BringsFurther, MovesOn, EntersRightly, IsLinked, Busy
  <2>3. invitation[i] \in {"pending", "accepted"} \/ i \in cancelled
    BY <2>1, <2>2 DEF LinkInv
  <2> QED BY <2>3 DEF BringsFurther
<1>8. HandedInv'
  BY DEF BringsFurther, MovesOn, HandedInv, BaseInv
<1>9. JoinerInv'
  <2> SUFFICES ASSUME NEW r \in Clerks, Joins(errand'[r])
               PROVE  operation'[errand'[r].on].step > 0
    BY DEF JoinerInv
  <2>1. operation[errand'[r].on].step > 0
    BY DEF BringsFurther, EntersRightly, JoinerInv
  <2>2. errand'[r].on \in Invitations
    BY <1>3 DEF ServesInv, Joins
  <2> QED BY <2>1, <2>2 DEF BringsFurther, MovesOn
<1>10. RevokeInv'
  <2> SUFFICES ASSUME NEW r \in Clerks, errand'[r].pc = "revoke"
               PROVE  invitation'[errand'[r].on] # "pending"
    BY DEF RevokeInv, Busy
  <2>1. CASE errand'[r] = errand[r]
    <3>1. errand[r].on \in Invitations /\ invitation[errand[r].on] # "pending"
      BY <2>1 DEF RevokeInv, ServesInv, Busy
    <3> QED BY <2>1, <3>1 DEF BringsFurther
  <2>2. CASE EntersRightly(r)
    BY <2>2 DEF EntersRightly
  <2> QED BY <2>1, <2>2 DEF BringsFurther
<1>11. WithdrawnInv'
  BY DEF BringsFurther, MovesOn, WithdrawnInv, BaseInv
<1> QED
  BY <1>2, <1>3, <1>4, <1>5, <1>6, <1>7, <1>8, <1>9, <1>10, <1>11

-----------------------------------------------------------------------------
(* The steps, one group after the other.                                   *)

LEMMA OneErrandMoves ==
    ASSUME errand \in [Clerks -> Errand], NEW r \in Clerks, NEW e \in Errand,
           errand' = [errand EXCEPT ![r] = e], EntersRightly(r)
    PROVE  /\ errand' \in [Clerks -> Errand]
           /\ \A q \in Clerks : errand'[q] = errand[q] \/ EntersRightly(q)
OBVIOUS

LEMMA NothingMoves ==
    ASSUME BaseInv, operation' = operation
    PROVE  /\ operation' \in [Invitations -> Operation]
           /\ \A i \in Invitations : MovesOn(i)
BY DEF BaseInv, MovesOn

LEMMA Leaves ==
    ASSUME InvitationInv, NEW r \in Clerks, Quits(r)
    PROVE  /\ errand' \in [Clerks -> Errand]
           /\ \A q \in Clerks : errand'[q] = errand[q] \/ EntersRightly(q)
<1>1. NoErrand \in Errand /\ NoErrand.pc = "idle" /\ NoErrand.on \notin Invitations
  BY InvitationAssumption DEF NoErrand, NoOperation, Errand, Operation, Invitations
<1>2. errand \in [Clerks -> Errand] /\ errand'[r] = NoErrand
  BY DEF InvitationInv, BaseInv, Quits
<1>3. EntersRightly(r)
  BY <1>1, <1>2 DEF EntersRightly, Joins
<1> QED BY <1>1, <1>2, <1>3, OneErrandMoves DEF Quits

(* A request that serves an operation, and does not wait or invite for it, *)
(* shares it with none that is about to invite.                            *)
Serves(r) == ~(errand[r].pc \in {"idle", "list", "reserve", "wait", "invite"})

LEMMA ServesQuietly ==
    ASSUME InvitationInv, NEW r \in Clerks, Serves(r)
    PROVE  /\ errand[r].on \in Invitations
           /\ operation[errand[r].on].status # "none"
           /\ \A q \in Clerks : Busy(q, "invite") => errand[q].on # errand[r].on
BY DEF InvitationInv, ServesInv, InviterInv, Serves, Busy

LEMMA GoesOn ==
    ASSUME InvitationInv, NEW r \in Clerks, Serves(r),
           errand' \in [Clerks -> Errand],
           \A q \in Clerks \ {r} : errand'[q] = errand[q],
           errand'[r].on = errand[r].on, errand'[r].pc \notin {"invite", "link"},
           Joins(errand'[r]) => operation[errand[r].on].step > 0,
           errand'[r].pc = "revoke" => invitation'[errand[r].on] # "pending"
    PROVE  \A q \in Clerks : errand'[q] = errand[q] \/ EntersRightly(q)
<1>1. EntersRightly(r)
  BY ServesQuietly DEF EntersRightly, Busy
<1> QED BY <1>1

LEMMA ProceedsRightly ==
    ASSUME InvitationInv, NEW r \in Clerks, Serves(r),
           NEW pc \in {"undo", "cancel", "revoke", "enter", "session", "member", "accept",
                       "record", "consume"},
           Proceeds(r, pc),
           Joins(errand[r]) \/ pc \in {"undo", "cancel", "revoke"},
           pc = "revoke" => invitation'[errand[r].on] # "pending"
    PROVE  /\ errand' \in [Clerks -> Errand]
           /\ \A q \in Clerks : errand'[q] = errand[q] \/ EntersRightly(q)
<1>1. errand \in [Clerks -> Errand] /\ errand[r] \in Errand
  BY DEF InvitationInv, BaseInv
<1>2. /\ errand' \in [Clerks -> Errand]
      /\ errand'[r].pc = pc /\ errand'[r].on = errand[r].on
      /\ \A q \in Clerks \ {r} : errand'[q] = errand[q]
  BY <1>1 DEF Proceeds, Errand
<1>3. Joins(errand'[r]) => operation[errand[r].on].step > 0
  BY <1>2 DEF InvitationInv, JoinerInv, Joins
<1> QED BY <1>2, <1>3, GoesOn

(* An operation expires, or is revoked, unless a request is about to       *)
(* invite for it.                                                          *)
LEMMA OperationEnds ==
    ASSUME InvitationInv, NEW i \in Invitations,
           operation' = Lapsed(i) \/
              (operation' = Revoked(i) /\
               \A q \in Clerks : Busy(q, "invite") => errand[q].on # i)
    PROVE  /\ operation' \in [Invitations -> Operation]
           /\ \A j \in Invitations : MovesOn(j)
<1>1. operation \in [Invitations -> Operation]
  BY DEF InvitationInv, BaseInv
<1>2. \A q \in Clerks : Busy(q, "invite") => Open(errand[q].on)
  BY DEF InvitationInv, InviterInv
<1>3. operation' \in [Invitations -> Operation]
  BY <1>1 DEF Lapsed, Revoked, Operation
<1>4. ASSUME NEW j \in Invitations PROVE MovesOn(j)
  BY <1>1, <1>2 DEF Lapsed, Revoked, Operation, Open, MovesOn
<1> QED BY <1>3, <1>4

-----------------------------------------------------------------------------
LEMMA InvitingMovesOn ==
    ASSUME InvitationInv, NEW r \in Clerks,
           BeginInvite(r) \/ ListInvitations(r) \/ WaitForLink(r)
    PROVE  BringsFurther
<1>1. BaseInv /\ ServesInv /\ errand \in [Clerks -> Errand] /\ errand[r] \in Errand
  BY DEF InvitationInv, BaseInv
<1>2. operation' = operation /\ invitation' = invitation /\ UNCHANGED <<cancelled, withdrawn>>
  BY DEF BeginInvite, ListInvitations, WaitForLink, betterAuth, HandOver, SetsOut
<1>3. handed' \subseteq Invitations /\ \A i \in handed' : i \in handed \/ operation[i].step > 0
  <2>1. errand[r].pc = "wait" => errand[r].on \in Invitations
    BY <1>1 DEF ServesInv
  <2> QED BY <1>1, <2>1 DEF BaseInv, BeginInvite, ListInvitations, WaitForLink, HandOver, IsListed,
                            Busy, SetsOut
<1>4. /\ errand' \in [Clerks -> Errand]
      /\ \A q \in Clerks : errand'[q] = errand[q] \/ EntersRightly(q)
  <2>1. CASE Quits(r)
    BY <2>1, Leaves
  <2>2. CASE BeginInvite(r)
    <3> DEFINE e == [pc |-> "list", on |-> 0, read |-> NoOperation]
    <3>1. e \in Errand /\ e.pc = "list" /\ e.on \notin Invitations
      BY InvitationAssumption DEF Errand, NoOperation, Operation, Invitations
    <3>2. errand' = [errand EXCEPT ![r] = e]
      BY <2>2 DEF BeginInvite, SetsOut
    <3> HIDE DEF e
    <3>3. EntersRightly(r)
      BY <1>1, <3>1, <3>2 DEF EntersRightly, Joins
    <3> QED BY <1>1, <3>1, <3>2, <3>3, OneErrandMoves
  <2>3. CASE Busy(r, "list") /\ Proceeds(r, "reserve")
    <3> DEFINE e == [errand[r] EXCEPT !.pc = "reserve"]
    <3>1. e \in Errand /\ e.pc = "reserve" /\ e.on = errand[r].on
      BY <1>1 DEF Errand
    <3>2. errand' = [errand EXCEPT ![r] = e]
      BY <1>1, <2>3 DEF Proceeds
    <3> HIDE DEF e
    <3>3. e.on \in Invitations =>
             /\ operation[e.on].status # "none"
             /\ \A q \in Clerks \ {r} : errand[q].on = e.on => ~Busy(q, "invite")
      BY <2>3, <3>1 DEF InvitationInv, ServesInv, InviterInv, Busy
    <3>4. EntersRightly(r)
      BY <1>1, <3>1, <3>2, <3>3 DEF EntersRightly, Joins
    <3> QED BY <1>1, <3>1, <3>2, <3>4, OneErrandMoves
  <2> QED BY <2>1, <2>2, <2>3 DEF ListInvitations, WaitForLink, HandOver
<1> QED BY <1>1, <1>2, <1>3, <1>4, NothingMoves DEF BringsFurther, BaseInv

LEMMA RequestsMoveOn ==
    ASSUME InvitationInv, NEW r \in Clerks,
           \/ BeginRevoke(r) \/ LookAtInvitation(r) \/ BeginJoin(r) \/ FindAccount(r)
           \/ OpenSession(r) \/ FindMembership(r) \/ StopErrand(r)
    PROVE  BringsFurther
<1>1. BaseInv /\ errand \in [Clerks -> Errand] /\ operation \in [Invitations -> Operation]
  BY DEF InvitationInv, BaseInv
<1>2. operation' = operation /\ invitation' = invitation /\ UNCHANGED <<handed, cancelled, withdrawn>>
  BY DEF BeginRevoke, LookAtInvitation, BeginJoin, FindAccount, OpenSession, FindMembership,
         StopErrand, betterAuth, history, SetsOut
<1>3. /\ errand' \in [Clerks -> Errand]
      /\ \A q \in Clerks : errand'[q] = errand[q] \/ EntersRightly(q)
  <2>1. CASE Quits(r)
    BY <2>1, Leaves
  <2>2. ASSUME NEW pc \in {"look", "account"}, NEW i \in Invitations,
               SetsOut(r, pc, i), Open(i), operation[i].step > 0
        PROVE  <1>3!:
    <3> DEFINE e == [pc |-> pc, on |-> i, read |-> IF i = 0 THEN NoOperation ELSE operation[i]]
    <3>1. e \in Errand /\ e.pc = pc /\ e.on = i
      BY <1>1, InvitationAssumption DEF Errand, NoOperation, Operation, Invitations
    <3>2. errand' = [errand EXCEPT ![r] = e]
      BY <2>2 DEF SetsOut
    <3> HIDE DEF e
    <3>3. /\ operation[i].status # "none"
          /\ \A q \in Clerks \ {r} : errand[q].on = i => ~Busy(q, "invite")
      BY <2>2 DEF Open, InvitationInv, InviterInv
    <3>4. EntersRightly(r)
      BY <1>1, <2>2, <3>1, <3>2, <3>3 DEF EntersRightly
    <3> QED BY <1>1, <3>1, <3>2, <3>4, OneErrandMoves
  <2>3. CASE BeginRevoke(r) \/ BeginJoin(r)
    BY <2>2, <2>3 DEF BeginRevoke, BeginJoin, InvitationInv, BaseInv
  <2>4. CASE LookAtInvitation(r)
    <3>1. Serves(r)
      BY <2>4 DEF LookAtInvitation, Busy, Serves
    <3>2. CASE LooksPending(errand[r].on)
      BY <2>4, <3>1, <3>2, ProceedsRightly DEF LookAtInvitation
    <3>3. CASE ~LooksPending(errand[r].on)
      BY <1>2, <2>4, <3>1, <3>3, ProceedsRightly DEF LookAtInvitation, LooksPending
    <3> QED BY <3>2, <3>3
  <2>5. CASE FindAccount(r) \/ OpenSession(r) \/ FindMembership(r)
    <3>1. Serves(r) /\ Joins(errand[r])
      BY <2>5 DEF FindAccount, OpenSession, FindMembership, Busy, Serves, Joins
    <3>2. Quits(r) \/ \E pc \in {"enter", "member", "record", "accept"} : Proceeds(r, pc)
      BY <2>5 DEF FindAccount, OpenSession, FindMembership
    <3> QED BY <2>1, <3>1, <3>2, ProceedsRightly
  <2> QED BY <2>1, <2>3, <2>4, <2>5 DEF StopErrand
<1> QED BY <1>1, <1>2, <1>3, NothingMoves DEF BringsFurther, BaseInv

(* Operations that end, and invitations that are cancelled.                *)
LEMMA EndingMovesOn ==
    ASSUME InvitationInv, NEW r \in Clerks,
           Undo(r) \/ CancelInvitation(r) \/ RevokeOperation(r) \/ Consume(r)
    PROVE  BringsFurther
<1>1. BaseInv /\ Serves(r)
  BY DEF InvitationInv, Undo, CancelInvitation, RevokeOperation, Consume, Serves, Busy
<1>2. errand[r].on \in Invitations
  BY <1>1, ServesQuietly
<1>3. CASE Undo(r)
  <2>1. operation' \in [Invitations -> Operation] /\ \A j \in Invitations : MovesOn(j)
    BY <1>1, <1>2, <1>3, ServesQuietly, OperationEnds DEF Undo
  <2> QED BY <1>1, <1>3, <2>1, Leaves DEF Undo, betterAuth, history, BringsFurther, BaseInv
<1>4. CASE Consume(r)
  <2>1. CASE Open(errand[r].on)
    <3>1. operation' = [operation EXCEPT ![errand[r].on].status = "consumed"]
      BY <1>4, <2>1 DEF Consume
    <3>2. operation' \in [Invitations -> Operation]
      BY <1>1, <3>1 DEF BaseInv, Operation
    <3>3. ASSUME NEW j \in Invitations PROVE MovesOn(j)
      BY <1>1, <1>2, <2>1, <3>1, ServesQuietly DEF BaseInv, Operation, Open, MovesOn
    <3> QED BY <1>1, <1>4, <3>2, <3>3, Leaves DEF Consume, betterAuth, history, BringsFurther, BaseInv
  <2>2. CASE ~Open(errand[r].on)
    <3>1. operation' \in [Invitations -> Operation] /\ \A j \in Invitations : MovesOn(j)
      BY <1>2, <1>4, <2>2, OperationEnds DEF Consume
    <3> QED BY <1>1, <1>4, <3>1, Leaves DEF Consume, betterAuth, history, BringsFurther, BaseInv
  <2> QED BY <2>1, <2>2
<1>5. CASE CancelInvitation(r)
  <2>1. invitation'[errand[r].on] # "pending" /\ Proceeds(r, "revoke")
    BY <1>1, <1>2, <1>5 DEF CancelInvitation, BaseInv
  <2>2. /\ errand' \in [Clerks -> Errand]
        /\ \A q \in Clerks : errand'[q] = errand[q] \/ EntersRightly(q)
    BY <1>1, <2>1, ProceedsRightly
  <2>3. /\ operation' \in [Invitations -> Operation]
        /\ \A j \in Invitations : MovesOn(j)
    BY <1>1, <1>5, NothingMoves DEF CancelInvitation
  <2>4. /\ invitation' \in [Invitations -> Statuses]
        /\ cancelled' = cancelled \cup {errand[r].on}
        /\ \A i \in Invitations :
              invitation'[i] = IF i = errand[r].on THEN "cancelled" ELSE invitation[i]
    BY <1>1, <1>2, <1>5 DEF CancelInvitation, BaseInv, Statuses
  <2> QED BY <1>1, <1>2, <1>5, <2>2, <2>3, <2>4 DEF CancelInvitation, BringsFurther, BaseInv
<1>6. CASE RevokeOperation(r)
  <2>1. operation' \in [Invitations -> Operation] /\ \A j \in Invitations : MovesOn(j)
    BY <1>1, <1>2, <1>6, ServesQuietly, OperationEnds DEF RevokeOperation
  <2>2. invitation' = invitation /\ invitation[errand[r].on] # "pending"
    BY <1>6 DEF RevokeOperation, betterAuth, InvitationInv, RevokeInv
  <2>3. \A i \in withdrawn' : i \in withdrawn \/ (i = errand[r].on /\ operation'[i].status = "revoked")
    BY <1>6 DEF RevokeOperation
  <2>4. withdrawn' \subseteq Invitations
    BY <1>1, <1>2, <1>6 DEF RevokeOperation, BaseInv
  <2> QED BY <1>1, <1>6, <2>1, <2>2, <2>3, <2>4, Leaves DEF RevokeOperation, BringsFurther, BaseInv
<1> QED BY <1>3, <1>4, <1>5, <1>6

(* The steps of who joins that change an operation or the invitation.      *)
LEMMA JoiningMovesOn ==
    ASSUME InvitationInv, NEW r \in Clerks,
           RecordAccount(r) \/ AcceptInvitation(r) \/ RecordMembership(r)
    PROVE  BringsFurther
<1> DEFINE i == errand[r].on
<1>1. BaseInv /\ Serves(r) /\ Joins(errand[r]) /\ errand[r] \in Errand
  BY DEF InvitationInv, BaseInv, RecordAccount, AcceptInvitation, RecordMembership, Serves, Busy, Joins
<1>2. i \in Invitations /\ operation[i].step > 0
  BY <1>1, ServesQuietly DEF InvitationInv, JoinerInv
<1>3. UNCHANGED <<handed, cancelled, withdrawn>>
  BY DEF RecordAccount, AcceptInvitation, RecordMembership, history
<1>4. ASSUME NEW n \in {2, 3}, NEW known \in BOOLEAN, Open(i),
             operation' = [operation EXCEPT ![i].step = n, ![i].known = known]
      PROVE  operation' \in [Invitations -> Operation] /\ \A j \in Invitations : MovesOn(j)
  <2>1. operation' \in [Invitations -> Operation]
    BY <1>1, <1>2, <1>4 DEF BaseInv, Operation
  <2>2. ASSUME NEW j \in Invitations PROVE MovesOn(j)
    BY <1>1, <1>2, <1>4, ServesQuietly DEF BaseInv, Operation, Open, MovesOn
  <2> QED BY <2>1, <2>2
<1>5. CASE AcceptInvitation(r)
  <2>1. operation' \in [Invitations -> Operation] /\ \A j \in Invitations : MovesOn(j)
    BY <1>1, <1>5, NothingMoves DEF AcceptInvitation
  <2>2. /\ errand' \in [Clerks -> Errand]
        /\ \A q \in Clerks : errand'[q] = errand[q] \/ EntersRightly(q)
    BY <1>1, <1>5, ProceedsRightly, Leaves DEF AcceptInvitation
  <2>3. /\ invitation' \in [Invitations -> Statuses]
        /\ \A j \in Invitations : invitation'[j] = invitation[j] \/ invitation'[j] = "accepted"
    BY <1>1, <1>2, <1>5 DEF AcceptInvitation, BaseInv, Statuses
  <2> QED BY <1>1, <1>3, <2>1, <2>2, <2>3 DEF BringsFurther, BaseInv
<1>6. CASE RecordAccount(r)
  <2>0. invitation' = invitation
    BY <1>6 DEF RecordAccount, betterAuth
  <2>1. CASE Proceeds(r, "session") /\ UNCHANGED operation
    BY <1>1, <1>3, <2>0, <2>1, NothingMoves, ProceedsRightly DEF BringsFurther, BaseInv
  <2>2. CASE operation' = Lapsed(i) /\ Quits(r)
    <3>1. operation' \in [Invitations -> Operation] /\ \A j \in Invitations : MovesOn(j)
      BY <1>2, <2>2, OperationEnds
    <3> QED BY <1>1, <1>3, <2>0, <2>2, <3>1, Leaves DEF BringsFurther, BaseInv
  <2>3. CASE /\ Open(i) /\ operation' = [operation EXCEPT ![i].step = 2, ![i].known = TRUE]
             /\ errand' = [errand EXCEPT ![r].read = [@ EXCEPT !.step = 2], ![r].pc = "session"]
    <3> DEFINE read == [errand[r].read EXCEPT !.step = 2]
    <3>0. read \in Operation /\ errand' = [errand EXCEPT ![r].read = read, ![r].pc = "session"]
      BY <1>1, <2>3 DEF Errand, Operation
    <3> HIDE DEF read
    <3>1. errand' \in [Clerks -> Errand]
      BY <1>1, <3>0 DEF BaseInv, Errand
    <3>2. /\ errand'[r].on = i /\ errand'[r].pc = "session"
          /\ \A q \in Clerks \ {r} : errand'[q] = errand[q]
      BY <1>1, <3>0 DEF BaseInv, Errand
    <3>3. \A q \in Clerks : errand'[q] = errand[q] \/ EntersRightly(q)
      BY <1>1, <1>2, <3>1, <3>2, GoesOn
    <3>4. operation' \in [Invitations -> Operation] /\ \A j \in Invitations : MovesOn(j)
      BY <1>4, <2>3
    <3> QED BY <1>1, <1>3, <2>0, <3>1, <3>3, <3>4 DEF BringsFurther, BaseInv
  <2> QED BY <1>6, <2>1, <2>2, <2>3 DEF RecordAccount
<1>7. CASE RecordMembership(r)
  <2>0. invitation' = invitation
    BY <1>7 DEF RecordMembership, betterAuth
  <2>1. CASE Proceeds(r, "consume") /\ UNCHANGED operation
    BY <1>1, <1>3, <2>0, <2>1, NothingMoves, ProceedsRightly DEF BringsFurther, BaseInv
  <2>2. CASE operation' = Lapsed(i) /\ Quits(r)
    <3>1. operation' \in [Invitations -> Operation] /\ \A j \in Invitations : MovesOn(j)
      BY <1>2, <2>2, OperationEnds
    <3> QED BY <1>1, <1>3, <2>0, <2>2, <3>1, Leaves DEF BringsFurther, BaseInv
  <2>3. CASE /\ Open(i) /\ operation' = [operation EXCEPT ![i].step = 3]
             /\ Proceeds(r, "consume")
    <3>1. operation' = [operation EXCEPT ![i].step = 3, ![i].known = operation[i].known]
      BY <1>1, <1>2, <2>3 DEF BaseInv, Operation
    <3>2. operation[i].known \in BOOLEAN
      BY <1>1, <1>2 DEF BaseInv, Operation
    <3>3. operation' \in [Invitations -> Operation] /\ \A j \in Invitations : MovesOn(j)
      BY <1>4, <2>3, <3>1, <3>2
    <3> QED BY <1>1, <1>3, <2>0, <2>3, <3>3, ProceedsRightly DEF BringsFurther, BaseInv
  <2> QED BY <1>7, <2>1, <2>2, <2>3 DEF RecordMembership
<1> QED BY <1>5, <1>6, <1>7

(* Time passes, or the member is removed.                                  *)
LEMMA OthersMoveOn ==
    ASSUME InvitationInv, SevenDaysPass \/ RemoveMember
    PROVE  BringsFurther
<1>1. BaseInv /\ UNCHANGED <<invitation, errand, handed, cancelled, withdrawn>>
  BY DEF InvitationInv, SevenDaysPass, RemoveMember, betterAuth, history
<1>2. CASE RemoveMember
  BY <1>1, <1>2, NothingMoves DEF RemoveMember, BringsFurther, BaseInv
<1>3. CASE SevenDaysPass
  <2>1. PICK i \in Invitations :
           /\ Open(i) /\ \A r \in Clerks : errand[r].on # i
           /\ operation' = [operation EXCEPT ![i].overdue = TRUE]
    BY <1>3 DEF SevenDaysPass
  <2>2. operation' \in [Invitations -> Operation]
    BY <1>1, <2>1 DEF BaseInv, Operation
  <2>3. ASSUME NEW j \in Invitations PROVE MovesOn(j)
    BY <1>1, <2>1 DEF BaseInv, Operation, Open, MovesOn
  <2> QED BY <1>1, <2>2, <2>3 DEF BringsFurther, BaseInv
<1> QED BY <1>2, <1>3

-----------------------------------------------------------------------------
(* The three steps that bring a link into being.                           *)

LEMMA ReservingKeepsInv ==
    ASSUME InvitationInv, NEW r \in Clerks, ReservePending(r)
    PROVE  InvitationInv'
<1> DEFINE lapsed == [i \in Invitations |-> Lapsed(i)[i]]
<1>1. /\ BaseInv /\ ServesInv /\ errand[r] \in Errand
      /\ UNCHANGED <<invitation, handed, cancelled, withdrawn>>
  BY DEF InvitationInv, BaseInv, ReservePending, betterAuth, history
<1>2. /\ lapsed \in [Invitations -> Operation]
      /\ \A j \in Invitations :
            /\ lapsed[j].status # operation[j].status =>
                  operation[j].status = "pending" /\ lapsed[j].status = "expired"
            /\ lapsed[j].overdue = operation[j].overdue /\ lapsed[j].step = operation[j].step
            /\ Open(j) \/ operation[j].status = "none" => lapsed[j] = operation[j]
  BY <1>1 DEF Lapsed, Operation, Open, BaseInv
<1>3. ASSUME NEW i \in Invitations, IsReserved(i), operation' = lapsed,
             errand' = [errand EXCEPT ![r].pc = "wait", ![r].on = i]
      PROVE  BringsFurther
  <2>0. i \in 0 .. MaxInvitations /\ errand \in [Clerks -> Errand]
    BY <1>1, InvitationAssumption DEF BaseInv, Invitations
  <2>1. /\ errand' \in [Clerks -> Errand]
        /\ errand'[r].pc = "wait" /\ errand'[r].on = i
        /\ \A q \in Clerks \ {r} : errand'[q] = errand[q]
    <3>1. errand' \in [Clerks -> Errand]
      BY <1>3, <2>0 DEF Errand
    <3> QED BY <1>3, <2>0, <3>1 DEF Errand
  <2>2. EntersRightly(r)
    BY <1>3, <2>1 DEF EntersRightly, IsReserved, Open, Joins
  <2>3. \A q \in Clerks : Busy(q, "invite") => Open(errand[q].on)
    BY DEF InvitationInv, InviterInv
  <2>4. ASSUME NEW j \in Invitations PROVE MovesOn(j)
    <3>1. operation'[j] = lapsed[j]
      BY <1>3
    <3> HIDE DEF lapsed
    <3> QED BY <1>2, <2>3, <3>1 DEF MovesOn
  <2> QED BY <1>1, <1>2, <1>3, <2>1, <2>2, <2>4 DEF BringsFurther, BaseInv
<1>4. ASSUME NEW i \in Invitations, operation[i].status = "none",
             \A j \in Invitations : ~Open(j),
             operation' = [lapsed EXCEPT ![i].status = "pending"],
             errand' = [errand EXCEPT ![r].pc = "invite", ![r].on = i]
      PROVE  InvitationInv'
  <2> HIDE DEF lapsed
  <2>0. i \in 0 .. MaxInvitations /\ errand \in [Clerks -> Errand]
    BY <1>1, InvitationAssumption DEF BaseInv, Invitations
  <2>1. /\ errand' \in [Clerks -> Errand]
        /\ errand'[r].pc = "invite" /\ errand'[r].on = i
        /\ \A q \in Clerks \ {r} : errand'[q] = errand[q]
    <3>1. errand' \in [Clerks -> Errand]
      BY <1>4, <2>0 DEF Errand
    <3> QED BY <1>4, <2>0, <3>1 DEF Errand
  <2>2. \A q \in Clerks : errand[q].on # i
    BY <1>1, <1>4 DEF ServesInv
  <2>3. operation[i].step = 0 /\ ~operation[i].overdue
    BY <1>4 DEF InvitationInv, FreshInv
  <2>4. /\ operation' \in [Invitations -> Operation]
        /\ operation'[i].status = "pending" /\ operation'[i].step = 0 /\ ~operation'[i].overdue
        /\ \A j \in Invitations \ {i} : operation'[j] = lapsed[j]
    BY <1>2, <1>4, <2>3 DEF Operation
  <2>5. \A j \in Invitations : operation'[j].step = operation[j].step
    BY <1>2, <2>3, <2>4
  <2>6. \A j \in Invitations \ {i} : ~(operation'[j].status = "pending" /\ ~operation'[j].overdue)
    BY <1>2, <1>4, <2>4 DEF Open
  <2>7. BaseInv'
    BY <1>1, <2>1, <2>4 DEF BaseInv
  <2>8. ServesInv'
    BY <1>1, <1>2, <2>1, <2>2, <2>4 DEF ServesInv
  <2>9. FreshInv'
    BY <1>2, <2>4 DEF InvitationInv, FreshInv
  <2>10. OneOpenInv'
    BY <2>6 DEF OneOpenInv, Open
  <2>11. InviterInv'
    <3>1. \A q \in Clerks : ~Busy(q, "invite")
      BY <1>1, <1>4 DEF InvitationInv, InviterInv, ServesInv, Busy
    <3> QED BY <2>1, <2>2, <2>4, <3>1 DEF InviterInv, Busy, Open
  <2>12. LinkInv'
    <3>1. ~IsLinked(i)'
      BY <2>1, <2>2, <2>4 DEF IsLinked, Busy
    <3> QED BY <2>6, <3>1 DEF LinkInv, Open
  <2>13. HandedInv'
    BY <1>1, <2>5 DEF InvitationInv, HandedInv, BaseInv
  <2>14. JoinerInv'
    BY <1>1, <2>1, <2>5 DEF InvitationInv, JoinerInv, ServesInv, Joins
  <2>15. RevokeInv'
    BY <1>1, <2>1 DEF InvitationInv, RevokeInv, Busy
  <2>16. WithdrawnInv'
    BY <1>1, <1>2, <1>4, <2>4 DEF InvitationInv, WithdrawnInv, BaseInv
  <2> QED BY <2>7, <2>8, <2>9, <2>10, <2>11, <2>12, <2>13, <2>14, <2>15, <2>16 DEF InvitationInv
<1>5. CASE \E i \in Invitations : IsReserved(i)
  BY <1>3, <1>5, FurtherKeepsInv DEF ReservePending
<1>6. CASE ~\E i \in Invitations : IsReserved(i)
  <2>1. PICK i \in Invitations :
           /\ operation[i].status = "none"
           /\ operation' = [lapsed EXCEPT ![i].status = "pending"]
           /\ errand' = [errand EXCEPT ![r].pc = "invite", ![r].on = i]
    BY <1>6 DEF ReservePending
  <2> QED BY <1>4, <1>6, <2>1 DEF IsReserved
<1> QED BY <1>5, <1>6

LEMMA InvitingKeepsInv ==
    ASSUME InvitationInv, NEW r \in Clerks, Invite(r)
    PROVE  InvitationInv'
<1> DEFINE i == errand[r].on
<1>1. /\ BaseInv /\ ServesInv /\ errand[r] \in Errand
      /\ UNCHANGED <<operation, handed, cancelled, withdrawn>>
      /\ errand[r].pc = "invite"
  BY DEF InvitationInv, BaseInv, Invite, history, Busy
<1>2. /\ i \in Invitations /\ Open(i) /\ operation[i].step = 0
      /\ \A q \in Clerks \ {r} : errand[q].on = i => errand[q].pc = "wait"
  BY <1>1 DEF ServesInv, InvitationInv, InviterInv, Busy
<1>3. ASSUME NEW pc \in {"link", "undo"}, Proceeds(r, pc)
      PROVE  /\ errand' \in [Clerks -> Errand]
             /\ errand'[r].pc = pc /\ errand'[r].on = i
             /\ \A q \in Clerks \ {r} : errand'[q] = errand[q]
  BY <1>1, <1>3 DEF Proceeds, Errand, BaseInv
<1>4. CASE UNCHANGED invitation /\ Proceeds(r, "undo")
  <2>1. EntersRightly(r)
    BY <1>2, <1>3, <1>4 DEF EntersRightly, Joins, Busy, Open
  <2>2. BringsFurther
    BY <1>1, <1>3, <1>4, <2>1, NothingMoves DEF BringsFurther, BaseInv
  <2> QED BY <2>2, FurtherKeepsInv
<1>5. ASSUME NEW pc \in {"link", "undo"}, Proceeds(r, pc),
             invitation' = [j \in Invitations |->
                 CASE j = i -> "pending"
                   [] j # i /\ invitation[j] = "pending" -> "cancelled"
                   [] OTHER -> invitation[j]]
      PROVE  InvitationInv'
  <2>1. /\ errand' \in [Clerks -> Errand] /\ errand'[r].pc = pc /\ errand'[r].on = i
        /\ \A q \in Clerks \ {r} : errand'[q] = errand[q]
    BY <1>3, <1>5
  <2>2. /\ invitation' \in [Invitations -> Statuses]
        /\ invitation'[i] = "pending"
        /\ \A j \in Invitations \ {i} : invitation'[j] # "pending"
    <3>1. \A j \in Invitations :
             invitation'[j] = IF j = i THEN "pending"
                              ELSE IF invitation[j] = "pending" THEN "cancelled" ELSE invitation[j]
      BY <1>5
    <3>2. invitation' \in [Invitations -> Statuses]
      BY <1>1, <1>5, <3>1 DEF BaseInv, Statuses
    <3> QED BY <1>2, <3>1, <3>2
  <2>3. BaseInv'
    BY <1>1, <2>1, <2>2 DEF BaseInv
  <2>4. ServesInv'
    BY <1>1, <1>2, <2>1 DEF ServesInv
  <2>5. FreshInv' /\ OneOpenInv' /\ HandedInv'
    BY <1>1 DEF InvitationInv, FreshInv, OneOpenInv, HandedInv, Open
  <2>6. InviterInv'
    <3> SUFFICES ASSUME NEW q \in Clerks, errand'[q].pc = "invite"
                 PROVE  /\ Open(errand[q].on)' /\ operation'[errand'[q].on].step = 0
                        /\ \A p \in Clerks \ {q} :
                              errand'[p].on = errand'[q].on => errand'[p].pc = "wait"
      BY DEF InviterInv, Busy
    <3>1. q # r /\ errand'[q] = errand[q]
      BY <2>1
    <3>2. /\ Open(errand[q].on) /\ operation[errand[q].on].step = 0
          /\ \A p \in Clerks \ {q} : errand[p].on = errand[q].on => errand[p].pc = "wait"
      BY <3>1 DEF InvitationInv, InviterInv, Busy
    <3>3. errand[q].on # i
      BY <1>1, <3>1, <3>2
    <3> QED BY <1>1, <2>1, <3>1, <3>2, <3>3 DEF Open
  <2>7. LinkInv'
    BY <1>1, <1>2, <2>2 DEF InvitationInv, OneOpenInv, LinkInv, Open
  <2>8. JoinerInv'
    BY <1>1, <2>1 DEF InvitationInv, JoinerInv, Joins
  <2>9. RevokeInv'
    <3> SUFFICES ASSUME NEW q \in Clerks, errand'[q].pc = "revoke"
                 PROVE  invitation'[errand'[q].on] # "pending"
      BY DEF RevokeInv, Busy
    <3>1. q # r /\ errand'[q] = errand[q] /\ errand[q].on \in Invitations
      BY <1>1, <2>1 DEF ServesInv
    <3> QED BY <1>2, <2>2, <3>1
  <2>10. WithdrawnInv'
    BY <1>1, <1>2, <2>2 DEF InvitationInv, WithdrawnInv, BaseInv, Open
  <2> QED BY <2>3, <2>4, <2>5, <2>6, <2>7, <2>8, <2>9, <2>10 DEF InvitationInv
<1> QED BY <1>4, <1>5 DEF Invite

LEMMA LinkingKeepsInv ==
    ASSUME InvitationInv, NEW r \in Clerks, Link(r)
    PROVE  InvitationInv'
<1> DEFINE i == errand[r].on
<1>1. /\ BaseInv /\ ServesInv /\ errand[r] \in Errand
      /\ UNCHANGED <<invitation, cancelled, withdrawn>>
      /\ errand[r].pc = "link"
  BY DEF InvitationInv, BaseInv, Link, betterAuth, Busy
<1>2. /\ i \in Invitations /\ Serves(r)
      /\ \A q \in Clerks : Busy(q, "invite") => errand[q].on # i
  BY <1>1, ServesQuietly DEF Serves
<1>3. /\ errand' \in [Clerks -> Errand]
      /\ \A q \in Clerks : errand'[q] = errand[q] \/ EntersRightly(q)
  BY <1>2, Leaves, ProceedsRightly DEF Link, HandOver
<1>4. CASE ~Open(i)
  <2>1. operation' \in [Invitations -> Operation] /\ \A j \in Invitations : MovesOn(j)
    BY <1>2, <1>4, OperationEnds DEF Link
  <2>2. BringsFurther
    BY <1>1, <1>3, <1>4, <2>1 DEF Link, BringsFurther, BaseInv
  <2> QED BY <2>2, FurtherKeepsInv
<1>5. CASE Open(i)
  <2>1. operation' = [operation EXCEPT ![i].step = 1]
    BY <1>5 DEF Link
  <2>2. /\ operation' \in [Invitations -> Operation]
        /\ operation'[i].status = "pending" /\ operation'[i].step = 1
        /\ \A j \in Invitations \ {i} : operation'[j] = operation[j]
        /\ \A j \in Invitations : /\ Open(j)' <=> Open(j)
                                  /\ operation'[j].status = operation[j].status
                                  /\ operation'[j].overdue = operation[j].overdue
    BY <1>1, <1>2, <1>5, <2>1 DEF BaseInv, Operation, Open
  <2>3. handed' \subseteq handed \cup {i}
    BY DEF Link, HandOver
  <2>4. BaseInv'
    BY <1>1, <1>2, <1>3, <2>2, <2>3 DEF BaseInv
  <2>5. ServesInv'
    BY <1>1, <1>3, <2>2 DEF ServesInv, EntersRightly
  <2>6. FreshInv' /\ OneOpenInv'
    BY <2>2 DEF InvitationInv, FreshInv, OneOpenInv
  <2>7. InviterInv'
    <3> SUFFICES ASSUME NEW q \in Clerks, errand'[q].pc = "invite"
                 PROVE  /\ Open(errand[q].on)' /\ operation'[errand'[q].on].step = 0
                        /\ \A p \in Clerks \ {q} :
                              errand'[p].on = errand'[q].on => errand'[p].pc = "wait"
      BY DEF InviterInv, Busy
    <3>1. errand'[q] = errand[q] /\ errand[q].on \in Invitations
      BY <1>1, <1>3 DEF EntersRightly, ServesInv
    <3>2. /\ Open(errand[q].on) /\ operation[errand[q].on].step = 0
          /\ \A p \in Clerks \ {q} : errand[p].on = errand[q].on => errand[p].pc = "wait"
          /\ errand[q].on # i
      BY <1>2, <3>1 DEF InvitationInv, InviterInv, Busy
    <3>3. ASSUME NEW p \in Clerks \ {q}, errand'[p].on = errand'[q].on
          PROVE  errand'[p].pc = "wait"
      BY <1>3, <3>1, <3>2, <3>3 DEF EntersRightly, Busy
    <3> QED BY <2>2, <3>1, <3>2, <3>3 DEF Open
  <2>8. LinkInv'
    <3> SUFFICES ASSUME NEW j \in Invitations, Open(j)', IsLinked(j)'
                 PROVE  invitation'[j] \in {"pending", "accepted"} \/ j \in cancelled'
      BY DEF LinkInv
    <3>1. IsLinked(j)
      BY <1>1, <1>3, <2>2 DEF IsLinked, Busy, EntersRightly
    <3> QED BY <1>1, <2>2, <3>1 DEF InvitationInv, LinkInv
  <2>9. HandedInv'
    BY <1>1, <2>2, <2>3 DEF InvitationInv, HandedInv, BaseInv
  <2>10. JoinerInv'
    BY <1>1, <1>3, <2>2, <2>5 DEF InvitationInv, JoinerInv, EntersRightly, ServesInv, Joins
  <2>11. RevokeInv'
    BY <1>1, <1>3 DEF InvitationInv, RevokeInv, EntersRightly, Busy
  <2>12. WithdrawnInv'
    BY <1>1, <2>2 DEF InvitationInv, WithdrawnInv, BaseInv
  <2> QED BY <2>4, <2>5, <2>6, <2>7, <2>8, <2>9, <2>10, <2>11, <2>12 DEF InvitationInv
<1> QED BY <1>4, <1>5

-----------------------------------------------------------------------------
LEMMA InvitationInvInductive ==
    ASSUME InvitationInv, [InvitationNext]_invitationVars
    PROVE  InvitationInv'
<1>1. CASE UNCHANGED invitationVars
  BY <1>1 DEF invitationVars, InvitationInv, BaseInv, ServesInv, FreshInv, OneOpenInv, InviterInv,
              LinkInv, IsLinked, HandedInv, JoinerInv, Joins, RevokeInv, WithdrawnInv, Open, Busy
<1>2. CASE SevenDaysPass \/ RemoveMember
  BY <1>2, OthersMoveOn, FurtherKeepsInv
<1>3. ASSUME NEW r \in Clerks, ErrandNext(r)
      PROVE  InvitationInv'
  BY <1>3, InvitingMovesOn, RequestsMoveOn, EndingMovesOn, JoiningMovesOn, FurtherKeepsInv,
     ReservingKeepsInv, InvitingKeepsInv, LinkingKeepsInv DEF ErrandNext
<1> QED BY <1>1, <1>2, <1>3 DEF InvitationNext

LEMMA InvitationInvInitially ==
    ASSUME InvitationInit
    PROVE  InvitationInv
BY InvitationAssumption DEF InvitationInit, InvitationInv, BaseInv, ServesInv, FreshInv, OneOpenInv,
   InviterInv, LinkInv, IsLinked, HandedInv, JoinerInv, Joins, RevokeInv, WithdrawnInv, Open, Busy,
   NoErrand, NoOperation, Errand, Operation, Statuses, Invitations

THEOREM InvitationInvariant == InvitationSpec => []InvitationInv
<1>1. InvitationInit => InvitationInv
  BY InvitationInvInitially
<1>2. InvitationInv /\ [InvitationNext]_invitationVars => InvitationInv'
  BY InvitationInvInductive
<1> QED BY <1>1, <1>2, PTL DEF InvitationSpec

(* The link an admin was given works until it is used, revoked or overdue: *)
(* createInvitation of admins that invite at once.                         *)
THEOREM HandedLinksWork == InvitationSpec => []HandedLinkWorks
<1>1. InvitationInv => HandedLinkWorks
  BY DEF InvitationInv, BaseInv, LinkInv, HandedInv, IsLinked, HandedLinkWorks
<1> QED BY <1>1, InvitationInvariant, PTL

(* Nobody becomes a member with an invitation an admin has revoked:        *)
(* completeInvitation while revokeInvitation goes on.                      *)
THEOREM RevokedLinksAdmitNobody == InvitationSpec => RevokedAdmitsNobody
<1> DEFINE Admits(i) == invitation'[i] = "accepted" => invitation[i] = "accepted"
<1>1. ASSUME InvitationInv, [InvitationNext]_invitationVars, NEW i \in withdrawn
      PROVE  Admits(i)
  <2>1. i \in Invitations /\ invitation[i] # "pending" /\ invitation \in [Invitations -> Statuses]
    BY <1>1 DEF InvitationInv, BaseInv, WithdrawnInv
  <2>2. CASE invitation' = invitation
    BY <2>2
  <2>3. ASSUME NEW r \in Clerks, Invite(r)
        PROVE  Admits(i)
    BY <2>1, <2>3 DEF Invite
  <2>4. ASSUME NEW r \in Clerks, CancelInvitation(r) \/ AcceptInvitation(r)
        PROVE  Admits(i)
    BY <2>1, <2>4 DEF CancelInvitation, AcceptInvitation
  <2>5. ASSUME NEW r \in Clerks, ErrandNext(r),
               ~(Invite(r) \/ CancelInvitation(r) \/ AcceptInvitation(r))
        PROVE  invitation' = invitation
    BY <2>5 DEF ErrandNext, BeginInvite, ListInvitations, ReservePending, Link, Undo, WaitForLink,
         BeginRevoke, LookAtInvitation, RevokeOperation, BeginJoin, FindAccount, RecordAccount,
         OpenSession, FindMembership, RecordMembership, Consume, StopErrand, betterAuth
  <2>6. CASE SevenDaysPass \/ RemoveMember \/ UNCHANGED invitationVars
    BY <2>2, <2>6 DEF SevenDaysPass, RemoveMember, invitationVars, betterAuth
  <2> QED BY <1>1, <2>2, <2>3, <2>4, <2>5, <2>6 DEF InvitationNext
<1>2. InvitationInv /\ [InvitationNext]_invitationVars =>
          [\A i \in withdrawn : Admits(i)]_invitationVars
  BY <1>1
<1> QED BY <1>2, InvitationInvariant, PTL DEF InvitationSpec, RevokedAdmitsNobody

-----------------------------------------------------------------------------
(* Sandbox sessions                                                        *)
(*                                                                         *)
(* A month's setting and the turns counted in it grow together, for the    *)
(* patch applies only to what was read.  While the list is not full it     *)
(* holds the counted turns, so a turn that does not find itself there is   *)
(* not counted yet.                                                        *)

(* A month's setting: the last of its reservations, all as long as they    *)
(* fit; and the turns that were counted in it.                             *)
Usage == [count : Nat, reservationIds : Seq(Turns)]

MonthOK(use, turns) ==
    /\ use.count <= MaxCount
    /\ cap > 0 => use.count <= cap
    /\ Len(use.reservationIds) <= MaxReservationIds
    /\ IsFiniteSet(turns)
    /\ Range(use.reservationIds) \subseteq turns
    /\ use.count <= MaxReservationIds =>
          /\ Len(use.reservationIds) = use.count
          /\ Range(use.reservationIds) = turns
          /\ use.count = Cardinality(turns)

(* What an activation has established where it stands: there was room when *)
(* it read, or its turn is counted in its month.                           *)
ActivationOK(s) ==
    /\ activation[s].at = "patch" =>
          /\ activation[s].seen \in Usage
          /\ cap > 0 => activation[s].seen.count < cap
          /\ TurnOf[s] \notin Range(activation[s].seen.reservationIds)
    /\ activation[s].at = "probe" => \E m \in Months : TurnOf[s] \in counted[m]

SessionsInv ==
    /\ cap \in Nat /\ cap \in Caps /\ month \in Months
    /\ usage \in [Months -> Usage]
    /\ counted \in [Months -> SUBSET Turns]
    /\ \A m \in Months : MonthOK(usage[m], counted[m])
    /\ activation \in [Sandboxes -> [at : ActivationSteps, month : Months,
                                     tries : 0..MaxCasAttempts, seen : Usage]]
    /\ \A s \in Sandboxes : ActivationOK(s)
    /\ started \subseteq Turns
    /\ \A t \in started : \E m \in Months : t \in counted[m]

LEMMA ReservationIdsGrow ==
    ASSUME NEW ids \in Seq(Turns), NEW t \in Turns, Len(ids) <= MaxReservationIds
    PROVE  /\ LastIds(Append(ids, t)) \in Seq(Turns)
           /\ Len(LastIds(Append(ids, t))) <= MaxReservationIds
           /\ Range(LastIds(Append(ids, t))) \subseteq Range(ids) \cup {t}
           /\ Len(ids) < MaxReservationIds =>
                 /\ LastIds(Append(ids, t)) = Append(ids, t)
                 /\ Range(Append(ids, t)) = Range(ids) \cup {t}
<1> DEFINE all == Append(ids, t)
<1>0. MaxReservationIds \in Nat \ {0}
  BY SandboxesAssumption
<1>1. /\ all \in Seq(Turns) /\ Len(all) = Len(ids) + 1
      /\ \A n \in 1..Len(ids) : all[n] = ids[n]
      /\ all[Len(ids) + 1] = t
      /\ DOMAIN all = 1..Len(ids) + 1 /\ DOMAIN ids = 1..Len(ids) /\ Len(ids) \in Nat
  OBVIOUS
<1>2. Range(all) = Range(ids) \cup {t}
  BY <1>1 DEF Range
<1> HIDE DEF all
<1>3. CASE Len(ids) < MaxReservationIds
  <2>0. Len(all) \in Nat /\ ~(Len(all) > MaxReservationIds)
    BY <1>0, <1>1, <1>3
  <2>1. LastIds(all) = SubSeq(all, 1, Len(all))
    BY <2>0 DEF LastIds
  <2>2. SubSeq(all, 1, Len(all)) = all
    BY <1>1
  <2>3. LastIds(all) = all
    BY <2>1, <2>2
  <2>4. Len(all) <= MaxReservationIds
    BY <1>0, <1>1, <1>3
  <2>5. Range(all) \subseteq Range(ids) \cup {t}
    BY <1>2
  <2>6. all \in Seq(Turns)
    BY <1>1
  <2> QED
    BY <1>2, <2>3, <2>4, <2>5, <2>6, Zenon DEF all
<1>4. CASE Len(ids) = MaxReservationIds
  <2> DEFINE last == LastIds(all)
  <2>0. Len(all) > MaxReservationIds /\ Len(all) - MaxReservationIds + 1 = 2
    BY <1>0, <1>1, <1>4
  <2>1. last = SubSeq(all, 2, Len(all))
    BY <2>0 DEF LastIds
  <2>2. /\ last \in Seq(Turns) /\ Len(last) = MaxReservationIds
        /\ DOMAIN last = 1..MaxReservationIds
        /\ \A n \in 1..MaxReservationIds : last[n] = all[n + 1]
    BY <1>0, <1>1, <1>4, <2>1
  <2> HIDE DEF last
  <2>3. Range(last) \subseteq Range(all)
    <3> SUFFICES ASSUME NEW x \in Range(last) PROVE x \in Range(all)
      OBVIOUS
    <3>1. PICK n \in 1..MaxReservationIds : x = last[n]
      BY <2>2 DEF Range
    <3>2. x = all[n + 1] /\ n + 1 \in DOMAIN all
      BY <1>0, <1>1, <1>4, <2>2, <3>1
    <3> QED
      BY <3>2 DEF Range
  <2>4. /\ last \in Seq(Turns) /\ Len(last) <= MaxReservationIds
        /\ Range(last) \subseteq Range(ids) \cup {t} /\ ~(Len(ids) < MaxReservationIds)
    BY <1>0, <1>1, <1>2, <1>4, <2>2, <2>3
  <2> QED
    BY <2>4, Zenon DEF all, last
<1>5. Len(ids) < MaxReservationIds \/ Len(ids) = MaxReservationIds
  <2>1. Len(ids) \in Nat
    OBVIOUS
  <2> QED
    BY <1>0, <2>1
<1> QED
  BY <1>3, <1>4, <1>5, Zenon

LEMMA SessionsStart == SessionsInit => SessionsInv
<1> SUFFICES ASSUME SessionsInit PROVE SessionsInv
  OBVIOUS
<1> USE SandboxesAssumption
<1>1. NoUsage \in Usage /\ Range(NoUsage.reservationIds) = {}
  BY DEF NoUsage, Usage, Range
<1>2. \A m \in Months : MonthOK(NoUsage, {})
  BY <1>1, FS_EmptySet DEF MonthOK, NoUsage, SessionsInit
<1> QED
  BY <1>1, <1>2 DEF SessionsInit, SessionsInv, ActivationOK, Inactive, ActivationSteps, Months

LEMMA CountsOneMore ==
    ASSUME SessionsInv, NEW use \in Usage, NEW turns \in SUBSET Turns, NEW t \in Turns,
           MonthOK(use, turns), use.count < MaxCount, cap > 0 => use.count < cap,
           t \notin Range(use.reservationIds)
    PROVE  OneMore(use, t) \in Usage /\ MonthOK(OneMore(use, t), turns \cup {t})
<1> USE SandboxesAssumption
<1>1. OneMore(use, t) = [count |-> use.count + 1,
                         reservationIds |-> LastIds(Append(use.reservationIds, t))]
  BY DEF OneMore
<1>2. use.reservationIds \in Seq(Turns) /\ use.count \in Nat
      /\ Len(use.reservationIds) <= MaxReservationIds
  BY DEF Usage, MonthOK
<1>3. OneMore(use, t) \in Usage
  BY <1>1, <1>2, ReservationIdsGrow DEF Usage
<1>4. /\ IsFiniteSet(turns \cup {t})
      /\ t \notin turns => Cardinality(turns \cup {t}) = Cardinality(turns) + 1
  BY FS_AddElement DEF MonthOK
<1>5. ASSUME use.count + 1 <= MaxReservationIds
      PROVE  /\ Len(LastIds(Append(use.reservationIds, t))) = use.count + 1
             /\ Range(LastIds(Append(use.reservationIds, t))) = turns \cup {t}
             /\ t \notin turns /\ use.count = Cardinality(turns)
  <2>1. /\ Len(use.reservationIds) = use.count /\ Range(use.reservationIds) = turns
        /\ use.count = Cardinality(turns)
    BY <1>2, <1>5 DEF MonthOK
  <2>2. Len(use.reservationIds) < MaxReservationIds
    BY <1>2, <1>5, <2>1
  <2>3. Len(Append(use.reservationIds, t)) = use.count + 1
    BY <1>2, <2>1
  <2>4. /\ LastIds(Append(use.reservationIds, t)) = Append(use.reservationIds, t)
        /\ Range(Append(use.reservationIds, t)) = Range(use.reservationIds) \cup {t}
    BY <1>2, <2>2, ReservationIdsGrow
  <2> QED
    BY <2>1, <2>3, <2>4
<1>6. /\ Len(LastIds(Append(use.reservationIds, t))) <= MaxReservationIds
      /\ Range(LastIds(Append(use.reservationIds, t))) \subseteq turns \cup {t}
  BY <1>2, ReservationIdsGrow DEF MonthOK
<1>7. /\ use.count + 1 <= MaxCount
      /\ cap > 0 => use.count + 1 <= cap
  BY <1>2 DEF SessionsInv
<1>8. MonthOK(OneMore(use, t), turns \cup {t})
  <2> DEFINE ids == LastIds(Append(use.reservationIds, t))
  <2>1. OneMore(use, t).count = use.count + 1 /\ OneMore(use, t).reservationIds = ids
    BY <1>1
  <2>2. use.count + 1 <= MaxReservationIds =>
           /\ Len(ids) = use.count + 1 /\ Range(ids) = turns \cup {t}
           /\ use.count + 1 = Cardinality(turns \cup {t})
    <3> SUFFICES ASSUME use.count + 1 <= MaxReservationIds
                 PROVE  /\ Len(ids) = use.count + 1 /\ Range(ids) = turns \cup {t}
                        /\ use.count + 1 = Cardinality(turns \cup {t})
      OBVIOUS
    <3>1. t \notin turns /\ use.count = Cardinality(turns)
      BY <1>5
    <3>2. Cardinality(turns \cup {t}) = use.count + 1
      BY <1>4, <3>1
    <3> QED
      BY <1>5, <3>2, Zenon
  <2> HIDE DEF ids
  <2>3. Len(ids) <= MaxReservationIds /\ Range(ids) \subseteq turns \cup {t}
    BY <1>6 DEF ids
  <2> QED
    BY <1>4, <1>7, <2>1, <2>2, <2>3 DEF MonthOK
<1> QED
  BY <1>3, <1>8

(* An activation that moves leaves the others as they are.                 *)
LEMMA ActivationMoves ==
    ASSUME SessionsInv, NEW s \in Sandboxes, NEW new,
           new \in [at : ActivationSteps, month : Months,
                    tries : 0..MaxCasAttempts, seen : Usage],
           activation' = [activation EXCEPT ![s] = new],
           cap' = cap, \A m \in Months : counted[m] \subseteq counted'[m],
           new.at = "patch" =>
              /\ cap > 0 => new.seen.count < cap
              /\ TurnOf[s] \notin Range(new.seen.reservationIds),
           new.at = "probe" => \E m \in Months : TurnOf[s] \in counted'[m]
    PROVE  /\ activation' \in [Sandboxes -> [at : ActivationSteps, month : Months,
                                             tries : 0..MaxCasAttempts, seen : Usage]]
           /\ \A q \in Sandboxes : ActivationOK(q)'
<1>1. activation' \in [Sandboxes -> [at : ActivationSteps, month : Months,
                                     tries : 0..MaxCasAttempts, seen : Usage]]
  BY DEF SessionsInv
<1>2. activation'[s] = new /\ \A q \in Sandboxes \ {s} : activation'[q] = activation[q]
  BY DEF SessionsInv
<1>3. \A q \in Sandboxes : ActivationOK(q)
  BY DEF SessionsInv
<1>4. ActivationOK(s)'
  BY <1>2 DEF ActivationOK
<1>5. ASSUME NEW q \in Sandboxes \ {s} PROVE ActivationOK(q)'
  BY <1>2, <1>3, <1>5 DEF ActivationOK
<1> QED
  BY <1>1, <1>4, <1>5

LEMMA SessionsStep == SessionsInv /\ [SessionsNext]_sessionVars => SessionsInv'
<1> SUFFICES ASSUME SessionsInv, [SessionsNext]_sessionVars PROVE SessionsInv'
  OBVIOUS
<1> USE SandboxesAssumption
<1>0. ASSUME NEW s \in Sandboxes, NEW step \in ActivationSteps
      PROVE  /\ [Inactive EXCEPT !.at = step] \in
                  [at : ActivationSteps, month : Months,
                   tries : 0..MaxCasAttempts, seen : Usage]
             /\ [Inactive EXCEPT !.at = step].at = step
             /\ TurnOf[s] \in Turns /\ activation[s].month \in Months
             /\ activation[s] \in [at : ActivationSteps, month : Months,
                                   tries : 0..MaxCasAttempts, seen : Usage]
  <2>1. NoUsage \in Usage /\ 1 \in Months /\ 0 \in 0..MaxCasAttempts
    BY DEF NoUsage, Usage, Months
  <2> QED
    BY <1>0, <2>1 DEF Inactive, SessionsInv
<1>1. ASSUME NEW s \in Sandboxes, Activate(s) PROVE SessionsInv'
  <2>1. [Inactive EXCEPT !.at = "read", !.month = month] \in
             [at : ActivationSteps, month : Months, tries : 0..MaxCasAttempts, seen : Usage]
    <3>1. NoUsage \in Usage /\ 0 \in 0..MaxCasAttempts
      BY DEF NoUsage, Usage
    <3> QED
      BY <3>1 DEF Inactive, ActivationSteps, SessionsInv
  <2>2. [Inactive EXCEPT !.at = "read", !.month = month].at = "read"
    BY DEF Inactive
  <2> QED
    BY <1>1, <2>1, <2>2, ActivationMoves DEF Activate, SessionsInv, MonthOK
<1>2. ASSUME NEW s \in Sandboxes, ReadUsage(s) PROVE SessionsInv'
  <2> DEFINE m == activation[s].month
  <2>1. m \in Months /\ usage[m] \in Usage /\ counted[m] \subseteq Turns
        /\ MonthOK(usage[m], counted[m])
    BY <1>0 DEF SessionsInv, ActivationSteps
  <2>2. CASE Reserved(usage[m], TurnOf[s]) /\ Sets(s, "probe")
    <3>1. TurnOf[s] \in counted[m]
      BY <2>1, <2>2 DEF Reserved, MonthOK
    <3> QED
      BY <1>0, <1>2, <2>1, <2>2, <3>1, ActivationMoves
         DEF ReadUsage, Sets, SessionsInv, MonthOK, ActivationSteps
  <2>3. CASE Sets(s, "idle")
    BY <1>0, <1>2, <2>3, ActivationMoves
       DEF ReadUsage, Sets, SessionsInv, MonthOK, ActivationSteps
  <2>4. CASE /\ ~Reserved(usage[m], TurnOf[s]) /\ ~(cap > 0 /\ usage[m].count >= cap)
             /\ activation' = [activation EXCEPT ![s].at = "patch", ![s].seen = usage[m]]
    <3> DEFINE new == [activation[s] EXCEPT !.at = "patch", !.seen = usage[m]]
    <3>1. new \in [at : ActivationSteps, month : Months, tries : 0..MaxCasAttempts,
                   seen : Usage]
      BY <1>0, <2>1 DEF ActivationSteps
    <3>2. new.at = "patch" /\ new.seen = usage[m]
      BY <1>0 DEF ActivationSteps
    <3>3. activation' = [activation EXCEPT ![s] = new]
      BY <2>4
    <3> HIDE DEF new
    <3>4. cap > 0 => usage[m].count < cap
      BY <2>1, <2>4 DEF Usage, SessionsInv
    <3>5. TurnOf[s] \notin Range(usage[m].reservationIds)
      BY <2>4 DEF Reserved
    <3> QED
      BY <1>2, <3>1, <3>2, <3>3, <3>4, <3>5, ActivationMoves
         DEF ReadUsage, SessionsInv, MonthOK
  <2> QED
    BY <1>2, <2>2, <2>3, <2>4 DEF ReadUsage
<1>3. ASSUME NEW s \in Sandboxes, PatchUsage(s) PROVE SessionsInv'
  <2>0. PICK m \in Months : m = activation[s].month
    BY <1>0 DEF ActivationSteps
  <2>1. usage[m] \in Usage /\ counted[m] \subseteq Turns
        /\ MonthOK(usage[m], counted[m]) /\ TurnOf[s] \in Turns
        /\ ActivationOK(s) /\ activation[s].at = "patch"
    BY <1>0, <1>3, <2>0 DEF SessionsInv, ActivationSteps, PatchUsage
  <2>2. CASE /\ UnchangedSince(s) /\ activation[s].seen.count < MaxCount
             /\ usage' = [usage EXCEPT ![m] = OneMore(activation[s].seen, TurnOf[s])]
             /\ counted' = [counted EXCEPT ![m] = @ \cup {TurnOf[s]}]
             /\ \E step \in {"probe", "idle"} : Sets(s, step)
    <3>1. activation[s].seen = usage[m]
      BY <2>0, <2>2 DEF UnchangedSince
    <3>2. /\ OneMore(usage[m], TurnOf[s]) \in Usage
          /\ MonthOK(OneMore(usage[m], TurnOf[s]), counted[m] \cup {TurnOf[s]})
      BY <2>1, <2>2, <3>1, CountsOneMore DEF ActivationOK
    <3>3. /\ usage' \in [Months -> Usage] /\ counted' \in [Months -> SUBSET Turns]
          /\ usage'[m] = OneMore(usage[m], TurnOf[s])
          /\ counted'[m] = counted[m] \cup {TurnOf[s]}
          /\ \A n \in Months \ {m} : usage'[n] = usage[n] /\ counted'[n] = counted[n]
      BY <2>1, <2>2, <3>1, <3>2 DEF SessionsInv
    <3>4. cap' = cap /\ month' = month /\ started' = started
      BY <1>3 DEF PatchUsage
    <3>5. \A n \in Months : MonthOK(usage[n], counted[n])'
      <4>1. MonthOK(usage[m], counted[m])'
        BY <3>2, <3>3, <3>4 DEF MonthOK
      <4>2. ASSUME NEW n \in Months \ {m} PROVE MonthOK(usage[n], counted[n])'
        BY <3>3, <3>4, <4>2 DEF MonthOK, SessionsInv
      <4> QED
        BY <2>1, <4>1, <4>2
    <3>6. \A n \in Months : counted[n] \subseteq counted'[n]
      BY <3>3
    <3>7. PICK step \in {"probe", "idle"} : Sets(s, step)
      BY <2>2
    <3>8. /\ activation' \in [Sandboxes -> [at : ActivationSteps, month : Months,
                                            tries : 0..MaxCasAttempts, seen : Usage]]
          /\ \A q \in Sandboxes : ActivationOK(q)'
      BY <1>0, <2>1, <3>3, <3>4, <3>6, <3>7, ActivationMoves DEF Sets, ActivationSteps
    <3>9. /\ started' \subseteq Turns
          /\ \A t \in started' : \E n \in Months : t \in counted'[n]
      BY <3>4, <3>6 DEF SessionsInv
    <3>10. cap' \in Nat /\ cap' \in Caps /\ month' \in Months
      BY <3>4 DEF SessionsInv
    <3> QED
      BY <3>3, <3>5, <3>8, <3>9, <3>10 DEF SessionsInv
  <2>3. CASE UNCHANGED <<usage, counted>>
    <3>1. CASE Sets(s, "idle")
      BY <1>0, <1>3, <2>3, <3>1, ActivationMoves
         DEF PatchUsage, Sets, SessionsInv, MonthOK, ActivationSteps
    <3>2. CASE /\ activation[s].tries + 1 < MaxCasAttempts
               /\ activation' = [activation EXCEPT
                     ![s].tries = @ + 1, ![s].at = "read", ![s].seen = NoUsage]
      <4> DEFINE new == [activation[s] EXCEPT !.tries = @ + 1, !.at = "read", !.seen = NoUsage]
      <4>1. new \in [at : ActivationSteps, month : Months, tries : 0..MaxCasAttempts,
                     seen : Usage]
        <5>0. activation[s].tries \in 0..MaxCasAttempts
          BY <1>0 DEF ActivationSteps
        <5>1. activation[s].tries + 1 \in 0..MaxCasAttempts
          BY <3>2, <5>0
        <5>2. NoUsage \in Usage
          BY DEF NoUsage, Usage
        <5> QED
          BY <1>0, <5>1, <5>2 DEF ActivationSteps
      <4>2. new.at = "read"
        BY <1>0 DEF ActivationSteps
      <4>3. activation' = [activation EXCEPT ![s] = new]
        BY <3>2
      <4> HIDE DEF new
      <4> QED
        BY <1>3, <2>3, <4>1, <4>2, <4>3, ActivationMoves DEF PatchUsage, SessionsInv, MonthOK
    <3> QED
      BY <1>3, <2>0, <2>2, <2>3, <3>1, <3>2 DEF PatchUsage
  <2> QED
    BY <1>3, <2>0, <2>2, <2>3 DEF PatchUsage
<1>4. ASSUME NEW s \in Sandboxes, Probe(s) PROVE SessionsInv'
  <2>1. \E m \in Months : TurnOf[s] \in counted[m]
    BY <1>4 DEF Probe, SessionsInv, ActivationOK
  <2>2. PICK step \in {"active", "idle"} : Sets(s, step)
    BY <1>4 DEF Probe
  <2>3. /\ activation' \in [Sandboxes -> [at : ActivationSteps, month : Months,
                                          tries : 0..MaxCasAttempts, seen : Usage]]
        /\ \A q \in Sandboxes : ActivationOK(q)'
    BY <1>0, <1>4, <2>2, ActivationMoves DEF Probe, Sets, ActivationSteps
  <2>4. started' \in {started, started \cup {TurnOf[s]}} /\ TurnOf[s] \in Turns
    BY <1>0, <1>4 DEF Probe, ActivationSteps
  <2> QED
    BY <1>4, <2>1, <2>3, <2>4 DEF Probe, SessionsInv, MonthOK
<1>5. CASE MonthEnds
  BY <1>5 DEF MonthEnds, SessionsInv, MonthOK, ActivationOK, Months
<1>6. CASE UNCHANGED sessionVars
  BY <1>6 DEF sessionVars, SessionsInv, MonthOK, ActivationOK
<1> QED
  BY <1>1, <1>2, <1>3, <1>4, <1>5, <1>6 DEF SessionsNext

(* The cap of session-cap.ts: however many sandboxes reserve at once, lose *)
(* the answer to a patch or try again, no month exceeds its cap, no turn   *)
(* is counted twice while the list of reservations holds all of them, and  *)
(* no sandbox works for a turn that was not counted.                       *)
THEOREM CapIsKept == SessionsSpec => [](SessionsTypeOK /\ CapIsSpentOnce)
<1>1. SessionsInv => SessionsTypeOK /\ CapIsSpentOnce
  <2> SUFFICES ASSUME SessionsInv PROVE SessionsTypeOK /\ CapIsSpentOnce
    OBVIOUS
  <2>1. ASSUME NEW m \in Months
        PROVE  /\ usage[m] \in Usage /\ usage[m].count \in 0..MaxCount
               /\ usage[m].reservationIds \in Seq(Turns) /\ counted[m] \subseteq Turns
               /\ Len(usage[m].reservationIds) <= MaxReservationIds
               /\ cap > 0 => usage[m].count <= cap
               /\ usage[m].count <= MaxReservationIds =>
                     usage[m].count = Cardinality(counted[m])
    BY <2>1, SandboxesAssumption DEF SessionsInv, MonthOK, Usage
  <2>2. SessionsTypeOK
    BY <2>1 DEF SessionsTypeOK, SessionsInv
  <2>3. CapIsSpentOnce
    BY <2>1 DEF CapIsSpentOnce, SessionsInv
  <2> QED
    BY <2>2, <2>3
<1> QED
  BY <1>1, SessionsStart, SessionsStep, PTL DEF SessionsSpec
=============================================================================
