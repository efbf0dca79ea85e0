----------------------------- MODULE Invitations -----------------------------
(***************************************************************************)
(* Invitations to one e-mail address.  The operation behind a join link    *)
(* stands in the identity store, the invitation it stands for, the account *)
(* and the membership stand in Better Auth, and no transaction spans both. *)
(* Admins invite and revoke, the teammate joins, each in several steps of  *)
(* one call to either store; any of them may stop on the way.  Operations  *)
(* from before links could be shown again are left out.                    *)
(***************************************************************************)
EXTENDS Integers, FiniteSets

CONSTANTS
    Clerks,           \* requests that run at the same time
    MaxInvitations,   \* bound: operations created
    MaxErrands        \* bound: requests begun

ASSUME InvitationAssumption ==
    MaxInvitations \in Nat \ {0} /\ MaxErrands \in Nat

VARIABLES
    operation,    \* [invitations -> auth operation of the identity store]
    invitation,   \* [invitations -> Better Auth's status of it]: external
    account,      \* operations there were when the account was created: external
    member,       \* the account is a member of the organization: external
    errand,       \* [Clerks -> progress of a request]
    errands,      \* requests begun so far
    handed,       \* invitations whose link an admin was given
    cancelled,    \* invitations an admin has begun to revoke
    withdrawn     \* invitations an admin has revoked

invitationVars == <<operation, invitation, account, member, errand, errands,
                    handed, cancelled, withdrawn>>
betterAuth == <<invitation, account, member>>
history == <<errands, handed, cancelled, withdrawn>>

Invitations == 1 .. MaxInvitations

(* overdue: seven days have passed; step: 1 the invitation is known, 2 the *)
(* account, 3 the membership; known: the account is the operation's.       *)
Operation == [status : {"none", "pending", "consumed", "revoked", "expired"},
              overdue : BOOLEAN, step : 0 .. 3, known : BOOLEAN]
NoOperation == [status |-> "none", overdue |-> FALSE, step |-> 0, known |-> FALSE]

NoAccount == -1

(* on: the operation served, 0: none; read: that operation as it was read  *)
(* last.                                                                   *)
Errand == [pc : {"idle", "list", "reserve", "invite", "link", "undo", "wait",
                 "look", "cancel", "revoke",
                 "account", "enter", "session", "member", "accept", "record", "consume"},
           on : 0 .. MaxInvitations, read : Operation]
NoErrand == [pc |-> "idle", on |-> 0, read |-> NoOperation]

-----------------------------------------------------------------------------
Busy(r, pc) == errand[r].pc = pc
Proceeds(r, pc) == errand' = [errand EXCEPT ![r].pc = pc]
Quits(r) == errand' = [errand EXCEPT ![r] = NoErrand]

SetsOut(r, pc, i) ==
    /\ Busy(r, "idle") /\ errands < MaxErrands
    /\ errands' = errands + 1
    /\ errand' = [errand EXCEPT ![r] = [pc |-> pc, on |-> i,
                      read |-> IF i = 0 THEN NoOperation ELSE operation[i]]]
    /\ UNCHANGED <<handed, cancelled, withdrawn>>

Open(i) == operation[i].status = "pending" /\ ~operation[i].overdue

(* pendingInvitationSummaries.                                             *)
IsListed(i) == Open(i) /\ operation[i].step > 0 /\ invitation[i] = "pending"

HandOver(r, i) == handed' = handed \cup {i} /\ Quits(r)

(* requiredPendingAuthOperation: an operation that is found to be overdue  *)
(* has expired with that.                                                  *)
Lapsed(i) ==
    IF operation[i].status = "pending" /\ operation[i].overdue
    THEN [operation EXCEPT ![i].status = "expired"] ELSE operation

-----------------------------------------------------------------------------
(* createInvitation                                                        *)

BeginInvite(r) ==
    /\ ~member
    /\ SetsOut(r, "list", 0)
    /\ UNCHANGED <<operation, betterAuth>>

(* An invitation that is already there is given once more.                 *)
ListInvitations(r) ==
    /\ Busy(r, "list")
    /\ \/ \E i \in Invitations : IsListed(i) /\ HandOver(r, i)
       \/ /\ ~\E i \in Invitations : IsListed(i)
          /\ Proceeds(r, "reserve") /\ UNCHANGED handed
    /\ UNCHANGED <<operation, betterAuth, errands, cancelled, withdrawn>>

(* Mutant: who finds an operation reserved by another goes on regardless.  *)
NobodyReserved(i) == FALSE

IsReserved(i) == Open(i)

(* reservePendingAuthOperation: one transaction.                           *)
ReservePending(r) ==
    LET lapsed == [i \in Invitations |-> Lapsed(i)[i]] IN
    /\ Busy(r, "reserve")
    /\ \/ /\ \E i \in Invitations :
                IsReserved(i) /\ errand' = [errand EXCEPT ![r].pc = "wait", ![r].on = i]
          /\ operation' = lapsed
       \/ /\ ~\E i \in Invitations : IsReserved(i)
          /\ \E i \in Invitations :
                /\ operation[i].status = "none"
                /\ \A j \in Invitations : j < i => operation[j].status # "none"
                /\ operation' = [lapsed EXCEPT ![i].status = "pending"]
                /\ errand' = [errand EXCEPT ![r].pc = "invite", ![r].on = i]
    /\ UNCHANGED <<betterAuth, history>>

(* Better Auth cancels what was pending for the address; it refuses to     *)
(* invite a member.  Its answer may be lost.                               *)
Invite(r) ==
    LET i == errand[r].on IN
    /\ Busy(r, "invite")
    /\ \/ /\ ~member
          /\ invitation' = [j \in Invitations |->
                 CASE j = i -> "pending"
                   [] j # i /\ invitation[j] = "pending" -> "cancelled"
                   [] OTHER -> invitation[j]]
          /\ \/ Proceeds(r, "link") \/ Proceeds(r, "undo")
       \/ Proceeds(r, "undo") /\ UNCHANGED invitation
    /\ UNCHANGED <<operation, account, member, history>>

(* advanceAuthOperation: from here on the link works.                      *)
Link(r) ==
    LET i == errand[r].on IN
    /\ Busy(r, "link")
    /\ operation' = IF Open(i) THEN [operation EXCEPT ![i].step = 1] ELSE Lapsed(i)
    /\ \/ Open(i) /\ HandOver(r, i)
       \/ Proceeds(r, "undo") /\ UNCHANGED handed
    /\ UNCHANGED <<betterAuth, errands, cancelled, withdrawn>>

Revoked(i) ==
    IF operation[i].status = "pending"
    THEN [operation EXCEPT ![i].status = "revoked"] ELSE operation

Undo(r) ==
    /\ Busy(r, "undo")
    /\ operation' = Revoked(errand[r].on)
    /\ Quits(r)
    /\ UNCHANGED <<betterAuth, history>>

(* waitForReservedInvitation.                                              *)
WaitForLink(r) ==
    /\ Busy(r, "wait")
    /\ \/ IsListed(errand[r].on) /\ HandOver(r, errand[r].on)
       \/ Quits(r) /\ UNCHANGED handed
    /\ UNCHANGED <<operation, betterAuth, errands, cancelled, withdrawn>>

-----------------------------------------------------------------------------
(* revokeInvitation                                                        *)

BeginRevoke(r) ==
    /\ \E i \in Invitations : Open(i) /\ operation[i].step > 0 /\ SetsOut(r, "look", i)
    /\ UNCHANGED <<operation, betterAuth>>

(* Mutant: the operation alone is revoked.                                 *)
LooksSettled(i) == FALSE

LooksPending(i) == invitation[i] = "pending"

LookAtInvitation(r) ==
    /\ Busy(r, "look")
    /\ Proceeds(r, IF LooksPending(errand[r].on) THEN "cancel" ELSE "revoke")
    /\ UNCHANGED <<operation, betterAuth, history>>

(* Better Auth cancels whatever the status is by now.                      *)
CancelInvitation(r) ==
    LET i == errand[r].on IN
    /\ Busy(r, "cancel")
    /\ invitation' = [invitation EXCEPT ![i] = "cancelled"]
    /\ cancelled' = cancelled \cup {i}
    /\ Proceeds(r, "revoke")
    /\ UNCHANGED <<operation, account, member, errands, handed, withdrawn>>

(* revokeAuthOperation; of one that was used meanwhile nothing changes.    *)
RevokeOperation(r) ==
    LET i == errand[r].on IN
    /\ Busy(r, "revoke")
    /\ operation' = Revoked(i)
    /\ withdrawn' = IF Revoked(i)[i].status = "revoked" THEN withdrawn \cup {i}
                    ELSE withdrawn
    /\ Quits(r)
    /\ UNCHANGED <<betterAuth, errands, handed, cancelled>>

-----------------------------------------------------------------------------
(* completeInvitation                                                      *)

BeginJoin(r) ==
    /\ \E i \in handed : Open(i) /\ operation[i].step > 0 /\ SetsOut(r, "account", i)
    /\ UNCHANGED <<operation, betterAuth>>

Count == Cardinality({i \in Invitations : operation[i].status # "none"})

(* The account is found, or created; another sign-up may come first.       *)
FindAccount(r) ==
    /\ Busy(r, "account")
    /\ \/ account # NoAccount /\ UNCHANGED account
       \/ account = NoAccount /\ account' = Count
    /\ Proceeds(r, "enter")
    /\ UNCHANGED <<operation, invitation, member, history>>

(* The operation's own account, or one created since: it may choose a new  *)
(* session with its password.  Any other needs a session of its own.       *)
Resumable(r) == errand[r].read.known \/ account >= errand[r].on

RecordAccount(r) ==
    LET i == errand[r].on IN
    /\ Busy(r, "enter")
    /\ \/ errand[r].read.step # 1 /\ Proceeds(r, "session") /\ UNCHANGED operation
       \/ /\ errand[r].read.step = 1 /\ Open(i) /\ operation[i].step <= 2
          /\ operation' = [operation EXCEPT ![i].step = 2, ![i].known = TRUE]
          /\ errand' = [errand EXCEPT ![r].read = [@ EXCEPT !.step = 2], ![r].pc = "session"]
       \/ /\ errand[r].read.step = 1 /\ ~(Open(i) /\ operation[i].step <= 2)
          /\ operation' = Lapsed(i) /\ Quits(r)
    /\ UNCHANGED <<betterAuth, history>>

OpenSession(r) ==
    /\ Busy(r, "session")
    /\ \/ Proceeds(r, "member")
       \/ ~Resumable(r) /\ Quits(r)
    /\ UNCHANGED <<operation, betterAuth, history>>

FindMembership(r) ==
    /\ Busy(r, "member")
    /\ Proceeds(r, IF member THEN "record" ELSE "accept")
    /\ UNCHANGED <<operation, betterAuth, history>>

AcceptInvitation(r) ==
    LET i == errand[r].on IN
    /\ Busy(r, "accept")
    /\ \/ /\ invitation[i] = "pending" /\ ~operation[i].overdue
          /\ invitation' = [invitation EXCEPT ![i] = "accepted"]
          /\ member' = TRUE
          /\ Proceeds(r, "record")
       \/ /\ invitation[i] # "pending" \/ operation[i].overdue
          /\ Quits(r) /\ UNCHANGED <<invitation, member>>
    /\ UNCHANGED <<operation, account, history>>

RecordMembership(r) ==
    LET i == errand[r].on IN
    /\ Busy(r, "record")
    /\ \/ errand[r].read.step = 3 /\ Proceeds(r, "consume") /\ UNCHANGED operation
       \/ /\ errand[r].read.step = 2 /\ Open(i)
          /\ operation' = [operation EXCEPT ![i].step = 3]
          /\ Proceeds(r, "consume")
       \/ errand[r].read.step = 2 /\ ~Open(i) /\ operation' = Lapsed(i) /\ Quits(r)
    /\ UNCHANGED <<betterAuth, history>>

(* consumeAuthOperation.                                                   *)
Consume(r) ==
    LET i == errand[r].on IN
    /\ Busy(r, "consume")
    /\ operation' = IF Open(i) THEN [operation EXCEPT ![i].status = "consumed"]
                    ELSE Lapsed(i)
    /\ Quits(r)
    /\ UNCHANGED <<betterAuth, history>>

-----------------------------------------------------------------------------
(* Seven days pass: longer than a request takes.                           *)
SevenDaysPass ==
    /\ \E i \in Invitations :
          /\ Open(i)
          /\ \A r \in Clerks : errand[r].on # i
          /\ operation' = [operation EXCEPT ![i].overdue = TRUE]
    /\ UNCHANGED <<betterAuth, errand, history>>

(* An owner removes the member; the account stays.                         *)
RemoveMember ==
    /\ member /\ member' = FALSE
    /\ UNCHANGED <<operation, invitation, account, errand, history>>

StopErrand(r) ==
    /\ ~Busy(r, "idle")
    /\ Quits(r)
    /\ UNCHANGED <<operation, betterAuth, history>>

-----------------------------------------------------------------------------
(* The address may have had an account before.                             *)
InvitationInit ==
    /\ operation = [i \in Invitations |-> NoOperation]
    /\ invitation = [i \in Invitations |-> "none"]
    /\ account \in {NoAccount, 0} /\ member = FALSE
    /\ errand = [r \in Clerks |-> NoErrand] /\ errands = 0
    /\ handed = {} /\ cancelled = {} /\ withdrawn = {}

ErrandNext(r) ==
    \/ BeginInvite(r) \/ ListInvitations(r) \/ ReservePending(r) \/ Invite(r)
    \/ Link(r) \/ Undo(r) \/ WaitForLink(r)
    \/ BeginRevoke(r) \/ LookAtInvitation(r) \/ CancelInvitation(r) \/ RevokeOperation(r)
    \/ BeginJoin(r) \/ FindAccount(r) \/ RecordAccount(r) \/ OpenSession(r) \/ FindMembership(r)
    \/ AcceptInvitation(r) \/ RecordMembership(r) \/ Consume(r) \/ StopErrand(r)

InvitationNext ==
    \/ \E r \in Clerks : ErrandNext(r)
    \/ SevenDaysPass \/ RemoveMember

InvitationSpec == InvitationInit /\ [][InvitationNext]_invitationVars

-----------------------------------------------------------------------------
(* Both stores and the requests are well formed.                           *)
InvitationTypeOK ==
    /\ operation \in [Invitations -> Operation]
    /\ invitation \in [Invitations -> {"none", "pending", "accepted", "cancelled"}]
    /\ account \in NoAccount .. MaxInvitations /\ member \in BOOLEAN
    /\ errand \in [Clerks -> Errand] /\ errands \in 0 .. MaxErrands
    /\ handed \subseteq Invitations /\ cancelled \subseteq Invitations
    /\ withdrawn \subseteq Invitations

(* README.md: "one exact-email, seven-day join link per pending teammate   *)
(* ... an administrator copies the same private link whenever needed".     *)
(* The link an admin was given works until it is used or revoked or seven  *)
(* days are over: admins who invite the same address at once do not cancel *)
(* each other's invitations.                                               *)
HandedLinkWorks ==
    \A i \in handed : Open(i) /\ invitation[i] # "accepted" =>
        invitation[i] = "pending" \/ i \in cancelled

(* "Use, revoke, expiry, mismatch, and replay fail closed": once an admin  *)
(* has been told that a link is revoked, it makes nobody a member any      *)
(* more, a teammate who was half way through joining included.             *)
RevokedAdmitsNobody ==
    [][\A i \in withdrawn :
           invitation'[i] = "accepted" => invitation[i] = "accepted"]_invitationVars
=============================================================================
