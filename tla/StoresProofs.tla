---------------------------- MODULE StoresProofs ----------------------------
(***************************************************************************)
(* What holds of one of the stores on its own holds of all of them beside  *)
(* one another, as MCStores runs them: the theorems of ChannelMemoryProofs, *)
(* TokenProofs and TeamProofs are about the behaviours TLC explores.  And  *)
(* every store stays well formed, the bounds of the instances included.    *)
(***************************************************************************)
EXTENDS MCStores, ChannelMemoryProofs, TokenProofs, TeamProofs

(* Each store begins as it does on its own, and a step of another one does *)
(* not touch it: none of them relies on a table, a lease or a lock of      *)
(* another.                                                                *)
THEOREM StoresKeepToThemselves ==
    StoresSpec =>
        /\ MemorySpec /\ CredentialSpec /\ OwnerSpec
        /\ SessionsSpec /\ ConnectionSpec /\ InvitationSpec
<1>1. StoresInit =>
        /\ MemoryInit /\ CredentialInit /\ OwnerInit
        /\ SessionsInit /\ ConnectionInit /\ InvitationInit
  BY DEF StoresInit
<1> DEFINE all == <<memoryVars, credentialVars, ownerVars, sessionVars,
                    connectionVars, invitationVars, subject>>
<1>2. [StoresNext]_all =>
        /\ [MemoryNext]_memoryVars /\ [CredentialNext]_credentialVars
        /\ [OwnerNext]_ownerVars /\ [SessionsNext]_sessionVars
        /\ [ConnectionNext]_connectionVars /\ [InvitationNext]_invitationVars
  BY DEF StoresNext, Unless
<1> QED
  BY <1>1, <1>2, PTL DEF StoresSpec, MemorySpec, CredentialSpec, OwnerSpec,
                        SessionsSpec, ConnectionSpec, InvitationSpec

-----------------------------------------------------------------------------
(* The counters that bound a behaviour                                     *)

MemoryBounds == shocks \in 0 .. MaxShocks /\ resumed \in BOOLEAN

LEMMA MemoryBoundsStep ==
    ASSUME MemoryInv, MemoryBounds, [MemoryNext]_memoryVars
    PROVE  MemoryBounds'
<1> USE MemoryAssumption
<1>1. CASE UNCHANGED memoryVars
  BY <1>1 DEF memoryVars, MemoryBounds
<1>2. ASSUME NEW e \in Events, ReadSlack(e) \/ CheckSlack(e) PROVE MemoryBounds'
  <2>1. Actual # "unknown"
    BY DEF Actual, MemoryInv, RowsInv, Privacies
  <2>2. ASSUME NEW f \in LookUps(Actual), Counted(f) PROVE shocks' \in 0 .. MaxShocks
    BY <2>1, <2>2 DEF LookUps, Counted, MemoryBounds
  <2> QED
    BY <1>2, <2>2 DEF ReadSlack, CheckSlack, MemoryBounds
<1>3. ASSUME NEW e \in Events, AgentFails(e) \/ Crash(e) PROVE MemoryBounds'
  <2>1. shocks < MaxShocks /\ shocks' = shocks + 1
    BY <1>3 DEF AgentFails, Crash, Shock
  <2>2. shocks' \in 0 .. MaxShocks
    BY <2>1 DEF MemoryBounds
  <2>3. resumed' = resumed \/ resumed' = (resumed \/ event[e].plan # 0)
    BY <1>3 DEF AgentFails, Crash
  <2>4. resumed' \in BOOLEAN
    BY <2>3 DEF MemoryBounds
  <2> QED
    BY <2>2, <2>4 DEF MemoryBounds
<1>4. CASE OperatorUpdates \/ OperatorForgets \/ ChannelChanges
  BY <1>4 DEF OperatorUpdates, OperatorForgets, ChannelChanges, Shock, MemoryBounds
<1>5. ASSUME NEW e \in Events,
             \/ Observe(e) \/ List(e) \/ ResolveContext(e) \/ FreezePlan(e)
             \/ DispatchPrompt(e) \/ ConfirmInjection(e) \/ CheckScope(e)
             \/ CheckEntries(e) \/ Look(e) \/ Change(e)
      PROVE  MemoryBounds'
  BY <1>5 DEF Observe, List, ResolveContext, FreezePlan, DispatchPrompt,
              ConfirmInjection, CheckScope, CheckEntries, Look, Change, MemoryBounds
<1> QED
  BY <1>1, <1>2, <1>3, <1>4, <1>5 DEF MemoryNext, Turn

ConnectionBounds == begun \in 0 .. MaxFlows /\ mishaps \in 0 .. MaxMishaps

LEMMA ConnectionBoundsStep ==
    ASSUME ConnectionBounds, [ConnectionNext]_connectionVars
    PROVE  ConnectionBounds'
<1> USE ConnectionAssumption DEF ConnectionBounds
<1>1. CASE UNCHANGED connectionVars
  BY <1>1 DEF connectionVars
<1>2. ASSUME NEW f \in Flows, FlowNext(f) PROVE ConnectionBounds'
  <2>1. CASE \/ Stage(f) \/ BeginStart(f) \/ BeginCallback(f) \/ BeginResolve(f)
             \/ BeginPut(f) \/ BeginClear(f) \/ BeginDelete(f)
    BY <2>1 DEF Stage, BeginStart, BeginCallback, BeginResolve, BeginPut,
                BeginClear, BeginDelete, Enter, world
  <2>2. CASE RefreshTokens(f) \/ StopFlow(f)
    BY <2>2 DEF RefreshTokens, StopFlow, Mishap
  <2>3. CASE \/ LookBefore(f) \/ RegisterClient(f) \/ Propose(f)
             \/ LookAtCallback(f) \/ ExchangeCode(f) \/ KeepTokens(f)
             \/ Verify(f) \/ ReadLatest(f) \/ Amend(f) \/ Find(f)
             \/ AcquireLease(f) \/ ReadAgain(f) \/ StillCurrent(f)
    BY <2>3 DEF LookBefore, RegisterClient, Propose, LookAtCallback,
                ExchangeCode, KeepTokens, Verify, ReadLatest, Amend, Find,
                AcquireLease, ReadAgain, StillCurrent, world
  <2>4. CASE \/ StoreRefreshed(f) \/ DropRefused(f) \/ ReadWinner(f)
             \/ Notify(f) \/ ReleaseLease(f) \/ Recheck(f) \/ Clear(f)
             \/ SaveSecrets(f) \/ ClearSecrets(f) \/ DeleteRow(f)
             \/ ReadMarker(f) \/ DeleteNamed(f)
    BY <2>4 DEF StoreRefreshed, DropRefused, ReadWinner, Notify, ReleaseLease,
                Recheck, Clear, SaveSecrets, ClearSecrets, DeleteRow,
                ReadMarker, DeleteNamed, world
  <2> QED
    BY <1>2, <2>1, <2>2, <2>3, <2>4 DEF FlowNext
<1>3. CASE EditProfile \/ CreateProfile \/ TokensComeDue
  BY <1>3 DEF EditProfile, CreateProfile, TokensComeDue, world
<1>4. CASE LeaseTimeIsOver \/ ServerEnds
  BY <1>4 DEF LeaseTimeIsOver, ServerEnds, Mishap
<1> QED
  BY <1>1, <1>2, <1>3, <1>4 DEF ConnectionNext

(* No sign-up counts more operations than there can be.                    *)
LEMMA CountIsBounded == Count \in 0 .. MaxInvitations
<1> DEFINE created == {i \in Invitations : operation[i].status # "none"}
<1>1. IsFiniteSet(Invitations) /\ Cardinality(Invitations) = MaxInvitations
  BY FS_Interval, InvitationAssumption DEF Invitations
<1>2. IsFiniteSet(created) /\ Cardinality(created) <= MaxInvitations
  BY <1>1, FS_Subset
<1>3. Cardinality(created) \in Nat
  BY <1>2, FS_CardinalityType
<1> QED
  BY <1>2, <1>3, InvitationAssumption DEF Count

InvitationBounds ==
    /\ account \in NoAccount .. MaxInvitations /\ member \in BOOLEAN
    /\ errands \in 0 .. MaxErrands

LEMMA InvitationBoundsStep ==
    ASSUME InvitationBounds, [InvitationNext]_invitationVars
    PROVE  InvitationBounds'
<1> USE InvitationAssumption DEF InvitationBounds, NoAccount
<1>1. CASE UNCHANGED invitationVars
  BY <1>1 DEF invitationVars
<1>2. ASSUME NEW r \in Clerks, ErrandNext(r) PROVE InvitationBounds'
  <2>1. CASE BeginInvite(r) \/ BeginRevoke(r) \/ BeginJoin(r)
    BY <2>1 DEF BeginInvite, BeginRevoke, BeginJoin, SetsOut, betterAuth
  <2>2. CASE FindAccount(r)
    BY <2>2, CountIsBounded DEF FindAccount, history
  <2>3. CASE AcceptInvitation(r)
    BY <2>3 DEF AcceptInvitation, history
  <2>4. CASE \/ ListInvitations(r) \/ ReservePending(r) \/ Invite(r) \/ Link(r)
             \/ Undo(r) \/ WaitForLink(r) \/ LookAtInvitation(r)
             \/ CancelInvitation(r) \/ RevokeOperation(r)
    BY <2>4 DEF ListInvitations, ReservePending, Invite, Link, Undo, WaitForLink,
                LookAtInvitation, CancelInvitation, RevokeOperation, betterAuth,
                history
  <2>5. CASE \/ RecordAccount(r) \/ OpenSession(r) \/ FindMembership(r)
             \/ RecordMembership(r) \/ Consume(r) \/ StopErrand(r)
    BY <2>5 DEF RecordAccount, OpenSession, FindMembership, RecordMembership,
                Consume, StopErrand, betterAuth, history
  <2> QED
    BY <1>2, <2>1, <2>2, <2>3, <2>4, <2>5 DEF ErrandNext
<1>3. CASE SevenDaysPass \/ RemoveMember
  BY <1>3 DEF SevenDaysPass, RemoveMember, betterAuth, history
<1> QED
  BY <1>1, <1>2, <1>3 DEF InvitationNext

-----------------------------------------------------------------------------
LEMMA MemoryStaysWellFormed == MemorySpec => []MemoryTypeOK
<1>1. MemoryInit => MemoryInv /\ MemoryBounds
  <2>1. MemoryInit => resumed = FALSE /\ shocks = 0
    BY DEF MemoryInit
  <2>2. 0 \in 0 .. MaxShocks
    BY MemoryAssumption
  <2> QED
    BY <2>1, <2>2, MemoryBegins DEF MemoryBounds
<1>2. MemoryInv /\ MemoryBounds /\ [MemoryNext]_memoryVars
        => MemoryInv' /\ MemoryBounds'
  BY MemoryStep, MemoryBoundsStep
<1>3. MemoryInv /\ MemoryBounds => MemoryTypeOK
  <2> SUFFICES ASSUME MemoryInv, MemoryBounds PROVE MemoryTypeOK
    OBVIOUS
  <2>1. sealed \subseteq Generations
    BY DEF MemoryInv, ScopeInv, RowsInv, Generations
  <2>2. challenge \in [Events -> Challenge]
    BY DEF MemoryInv, ChallengesInv
  <2>3. event \in [Events -> Event]
    BY DEF MemoryInv, EventsInv
  <2> QED
    BY <2>1, <2>2, <2>3 DEF MemoryInv, RowsInv, ContextInv, MemoryBounds, MemoryTypeOK
<1> QED
  BY <1>1, <1>2, <1>3, PTL DEF MemorySpec

LEMMA OwnersStayWellFormed == OwnerSpec => []OwnerTypeOK
<1>1. OwnerInv => OwnerTypeOK
  BY DEF OwnerInv
<1> QED
  BY <1>1, OwnersStayInvariant, PTL

LEMMA ConnectionsStayWellFormed == ConnectionSpec => []ConnectionTypeOK
<1>1. ConnectionInit => ShapeInv /\ ConnectionBounds
  BY ShapeInit, ConnectionAssumption DEF ConnectionInit, ConnectionBounds
<1>2. ShapeInv /\ ConnectionBounds /\ [ConnectionNext]_connectionVars
        => ShapeInv' /\ ConnectionBounds'
  BY ShapeStep, ConnectionBoundsStep
<1>3. ShapeInv /\ ConnectionBounds => ConnectionTypeOK
  BY DEF ShapeInv, FlowsInv, SecretsInv, RowInv, ConnectionBounds, ConnectionTypeOK
<1> QED
  BY <1>1, <1>2, <1>3, PTL DEF ConnectionSpec

LEMMA InvitationsStayWellFormed == InvitationSpec => []InvitationTypeOK
<1>1. InvitationInit => InvitationBounds
  <2>1. InvitationInit => account \in {-1, 0} /\ member = FALSE /\ errands = 0
    BY DEF InvitationInit, NoAccount
  <2>2. {-1, 0} \subseteq -1 .. MaxInvitations /\ 0 \in 0 .. MaxErrands
    BY InvitationAssumption
  <2> QED
    BY <2>1, <2>2 DEF InvitationBounds, NoAccount
<1>2. InvitationBounds /\ [InvitationNext]_invitationVars => InvitationBounds'
  BY InvitationBoundsStep
<1>3. InvitationInv /\ InvitationBounds => InvitationTypeOK
  BY DEF InvitationInv, BaseInv, Statuses, InvitationBounds, InvitationTypeOK
<1> QED
  BY <1>1, <1>2, <1>3, InvitationInvariant, PTL DEF InvitationSpec

(* Every row, every request under way and every counter of the six stores  *)
(* stays within its type: no method writes a row another cannot read, and  *)
(* no request goes past the bounds the instances give it.                  *)
THEOREM StoresStayWellFormed == StoresSpec => []StoresTypeOK
<1>1. MemoryTypeOK /\ (CredentialTypeOK /\ DisconnectedStaysAway) /\ OwnerTypeOK
        /\ (SessionsTypeOK /\ CapIsSpentOnce) /\ ConnectionTypeOK /\ InvitationTypeOK
        => StoresTypeOK
  BY DEF StoresTypeOK
<1> QED
  BY <1>1, StoresKeepToThemselves, MemoryStaysWellFormed,
     DisconnectedGrantsStayAway, OwnersStayWellFormed, CapIsKept,
     ConnectionsStayWellFormed, InvitationsStayWellFormed, PTL
=============================================================================
