------------------------------ MODULE MCStores ------------------------------
(* Instances of ChannelMemory, CredentialRefresh, OwnerReservation,         *)
(* SandboxSessions, McpConnections and Invitations for TLC.  They share     *)
(* nothing, so a behaviour is about one of them and the others stand still  *)
(* in one of their initial states: the instances are added up and not       *)
(* multiplied.                                                              *)
EXTENDS ChannelMemory, CredentialRefresh, OwnerReservation, SandboxSessions,
        McpConnections, Invitations, TLC

CONSTANTS e1, e2, x1, x2, i1, i2, m1, m2, m3, q1, q2, s1, s2, s3,
          t1, t2, f1, f2, u1, r1, r2

VARIABLE subject    \* what this behaviour is about

(* Two attempts of one turn, and another turn.                              *)
TwiceTheFirst == s1 :> t1 @@ s2 :> t1 @@ s3 :> t2

MemoryStands ==
    /\ channel.privacy = "public"
    /\ scope.lifecycle = "unseen"
    /\ \A e \in Events : event[e].request = "ask"

CredentialsStand == tokens = NoTokens

OwnersStand ==
    \A m \in Members : role[m] = "owner" /\ access[m].status = "active"

SessionsStand == cap = 0

ConnectionsStand == profile.server = u1 /\ named = {}

InvitationsStand == account = NoAccount

StoresInit ==
    /\ MemoryInit /\ CredentialInit /\ OwnerInit /\ SessionsInit
    /\ ConnectionInit /\ InvitationInit
    /\ subject \in {"memory", "credentials", "owners", "sessions",
                    "connections", "invitations"}
    /\ subject = "memory" \/ MemoryStands
    /\ subject = "credentials" \/ CredentialsStand
    /\ subject = "owners" \/ OwnersStand
    /\ subject = "sessions" \/ SessionsStand
    /\ subject = "connections" \/ ConnectionsStand
    /\ subject = "invitations" \/ InvitationsStand

Unless(s, vars) == subject = s \/ UNCHANGED vars

StoresNext ==
    /\ UNCHANGED subject
    /\ Unless("memory", memoryVars) /\ Unless("credentials", credentialVars)
    /\ Unless("owners", ownerVars) /\ Unless("sessions", sessionVars)
    /\ Unless("connections", connectionVars)
    /\ Unless("invitations", invitationVars)
    /\ \/ subject = "memory" /\ MemoryNext
       \/ subject = "credentials" /\ CredentialNext
       \/ subject = "owners" /\ OwnerNext
       \/ subject = "sessions" /\ SessionsNext
       \/ subject = "connections" /\ ConnectionNext
       \/ subject = "invitations" /\ InvitationNext

StoresSpec ==
    StoresInit /\ [][StoresNext]_<<memoryVars, credentialVars, ownerVars,
                                   sessionVars, connectionVars, invitationVars,
                                   subject>>

(* The second actor of every instance for the first, all at once: only one  *)
(* instance moves, so nothing is lost by not swapping them one by one.      *)
SwapActors ==
    e1 :> e2 @@ e2 :> e1 @@ i1 :> i2 @@ i2 :> i1
        @@ f1 :> f2 @@ f2 :> f1 @@ r1 :> r2 @@ r2 :> r1

StoresSymmetry == {SwapActors} \cup Permutations(Entries)

(* All of them, and what is under way in them, are well formed.             *)
StoresTypeOK ==
    /\ MemoryTypeOK /\ CredentialTypeOK /\ OwnerTypeOK /\ SessionsTypeOK
    /\ ConnectionTypeOK /\ InvitationTypeOK
=============================================================================
