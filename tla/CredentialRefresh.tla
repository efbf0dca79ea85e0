--------------------------- MODULE CredentialRefresh ---------------------------
(***************************************************************************)
(* The installation's one OpenAI subscription: the settings that hold its  *)
(* tokens, the isolates that refresh and use them, and the operator who    *)
(* connects, cancels and disconnects.                                      *)
(*                                                                         *)
(* A settings read and a settings patch are one step each; a patch is a    *)
(* compare-and-set on one key.  Between them lie the calls to OpenAI, whose *)
(* refresh tokens rotate: each can be used once.                           *)
(***************************************************************************)
EXTENDS Integers

CONSTANTS
    Isolates,          \* isolates with a model runtime
    CredentialFaults,  \* what may go wrong in this instance
    MaxUpsets,         \* bound: things that go wrong
    MaxGrants,         \* bound: device authorizations approved
    MaxRotations       \* bound: rotations of one grant's refresh token

ASSUME CredentialAssumption ==
    /\ CredentialFaults \subseteq {"crash", "slow", "lost", "account", "late", "revoked"}
    /\ MaxUpsets \in Nat
    /\ MaxGrants \in Nat \ {0}
    /\ MaxRotations \in Nat \ {0}

VARIABLES
    tokens,    \* setting tokens
    status,    \* setting status
    rewritten, \* isolates whose view of it a later write has overtaken
    lease,     \* setting refresh-lease
    pending,   \* setting pending: a device authorization
    aged,      \* tokens whose access token is about to expire
    live,      \* [grants -> refresh token OpenAI takes next]: external
    isolate,   \* [Isolates -> its request: a resolution, or a 401 to record]
    bound,     \* [Isolates -> tokens its transport sends]
    starting,  \* an authorization asked of OpenAI, not stored yet
    polling,   \* an authorization approved, not committed yet
    revoked,   \* grants an operator has disconnected
    upsets,    \* things that went wrong so far
    troubled   \* a rotation was lost, a lease outlived, a 401 came late

credentialVars == <<tokens, status, rewritten, lease, pending, aged, live, isolate,
                    bound, starting, polling, revoked, upsets, troubled>>

Grants == 1 .. MaxGrants

(* A token bundle is known by its grant and the rotation it came from;     *)
(* grant 0: there is none.                                                 *)
Tokens == [grant : 0 .. MaxGrants, rotation : 0 .. MaxRotations]
NoTokens == [grant |-> 0, rotation |-> 0]

(* What OpenAI takes of a grant: its next refresh token, or nothing ever   *)
(* again, or nothing yet.                                                  *)
Spent == 0
Unapproved == -1

(* revision: the credentials the status speaks of, where it says so.       *)
Status == [state : {"disconnected", "authorizing", "connected", "confirming",
                    "reconnect_required"},
           revision : Tokens, failures : 0 .. 1]
Plain(state) == [state |-> state, revision |-> NoTokens, failures |-> 0]

Nobody == "nobody"
Lease == [owner : Isolates \cup {Nobody}, expired : BOOLEAN]
NoLease == [owner |-> Nobody, expired |-> TRUE]

(* polls: how often it was claimed for a poll; another: the account found  *)
(* is not the one connected before, which the operator has to confirm.     *)
Pending == [grant : 0 .. MaxGrants, polls : 0 .. 2, another : BOOLEAN,
            previous : {"disconnected", "connected", "confirming", "authorizing",
                        "reconnect_required"}]
NoPending == [grant |-> 0, polls |-> 0, another |-> FALSE, previous |-> "disconnected"]
NotStarting == [over |-> NoPending, as |-> NoPending]

(* read: the tokens the isolate began from, or was refused with; got: what *)
(* it holds now.                                                           *)
Isolate == [pc : {"idle", "acquire", "fetch", "store", "mark", "winner",
                  "release", "bind", "rejected", "count"},
            read : Tokens, lease : Lease, got : Tokens]
Idle == [pc |-> "idle", read |-> NoTokens, lease |-> NoLease, got |-> NoTokens]

Upset(kind) ==
    kind \in CredentialFaults /\ upsets < MaxUpsets /\ upsets' = upsets + 1
Smooth == UNCHANGED <<upsets, troubled>>

-----------------------------------------------------------------------------
(* resolveOpenAiSubscriptionCredentials                                    *)

In(i, pc) == isolate[i].pc = pc
Goto(i, pc) == isolate' = [isolate EXCEPT ![i].pc = pc]
Ends(i) == isolate' = [isolate EXCEPT ![i] = Idle]

(* Every write of the status bears its time: no later one is the same.     *)
StatusIs(s) == status' = s /\ rewritten' = {j \in Isolates : In(j, "count")}
StatusStays == UNCHANGED <<status, rewritten>>

(* One read of tokens and lease; tokens that are good for another minute   *)
(* are taken as they are.                                                  *)
ReadSnapshot(i) ==
    /\ In(i, "idle") /\ tokens # NoTokens
    /\ isolate' = [isolate EXCEPT ![i] =
           IF tokens \in aged
           THEN [Idle EXCEPT !.pc = "acquire", !.read = tokens, !.lease = lease]
           ELSE [Idle EXCEPT !.pc = "bind", !.got = tokens]]
    /\ UNCHANGED <<tokens, status, rewritten, lease, pending, aged, live, bound,
                   starting, polling, revoked, upsets, troubled>>

(* Mutant: the lease is not looked at.                                     *)
MayAcquireAnyway(i) == lease = isolate[i].lease

(* No lease, or one that has expired, and still the one that was read.     *)
MayAcquire(i) == isolate[i].lease.expired /\ lease = isolate[i].lease

(* An isolate that must wait reads again, or at last gives up.             *)
Acquire(i) ==
    /\ In(i, "acquire")
    /\ \/ /\ MayAcquire(i)
          /\ lease' = [owner |-> i, expired |-> FALSE]
          /\ isolate' = [isolate EXCEPT ![i].lease = NoLease, ![i].pc = "fetch"]
       \/ /\ ~MayAcquire(i)
          /\ Ends(i)
          /\ UNCHANGED lease
    /\ UNCHANGED <<tokens, status, rewritten, pending, aged, live, bound, starting,
                   polling, revoked, upsets, troubled>>

Rotated(t) == [t EXCEPT !.rotation = @ + 1]

(* refreshOpenAiSubscriptionToken: OpenAI rotates the token or refuses it; *)
(* its answer may be lost after that, or name another account.             *)
Fetch(i) ==
    LET t == isolate[i].read IN
    /\ In(i, "fetch")
    /\ \/ /\ live[t.grant] = t.rotation /\ t.rotation < MaxRotations
          /\ live' = [live EXCEPT ![t.grant] = t.rotation + 1]
          /\ \/ /\ isolate' = [isolate EXCEPT ![i].got = Rotated(t), ![i].pc = "store"]
                /\ Smooth
             \/ Upset("lost") /\ Goto(i, "release") /\ troubled' = TRUE
             \/ Upset("account") /\ Goto(i, "mark") /\ troubled' = TRUE
       \/ /\ live[t.grant] # t.rotation
          /\ Goto(i, "mark")
          /\ Smooth /\ UNCHANGED live
       \/ Goto(i, "release") /\ Smooth /\ UNCHANGED live
    /\ UNCHANGED <<tokens, status, rewritten, lease, pending, aged, bound, starting,
                   polling, revoked>>

(* Mutant: the refreshed tokens replace whatever is stored.                *)
StillReadAnyway(i) == TRUE

StillRead(i) == tokens = isolate[i].read

(* What a refresh won is stored if the tokens are those it began from.     *)
Store(i) ==
    /\ In(i, "store")
    /\ IF StillRead(i)
       THEN /\ tokens' = isolate[i].got
            /\ StatusIs([Plain("connected") EXCEPT !.revision = isolate[i].got])
            /\ lease' = NoLease
            /\ bound' = [bound EXCEPT ![i] = NoTokens]
            /\ Goto(i, "release")
       ELSE Goto(i, "winner") /\ UNCHANGED <<tokens, status, rewritten, lease, bound>>
    /\ UNCHANGED <<pending, aged, live, starting, polling, revoked, upsets, troubled>>

(* markReconnectRequired: the refused tokens go, if they are still there,  *)
(* and with them an authorization that is under way.                       *)
Mark(i) ==
    /\ In(i, "mark")
    /\ IF tokens = isolate[i].read
       THEN /\ tokens' = NoTokens /\ pending' = NoPending /\ lease' = NoLease
            /\ StatusIs([Plain("reconnect_required") EXCEPT !.revision = isolate[i].read])
            /\ bound' = [bound EXCEPT ![i] = NoTokens]
            /\ isolate' = [isolate EXCEPT ![i].got = NoTokens, ![i].pc = "release"]
       ELSE /\ Goto(i, "winner")
            /\ UNCHANGED <<tokens, status, rewritten, lease, pending, bound>>
    /\ UNCHANGED <<aged, live, starting, polling, revoked, upsets, troubled>>

ReadRefreshWinner(i) ==
    /\ In(i, "winner")
    /\ isolate' = [isolate EXCEPT ![i].got = tokens, ![i].pc = "release"]
    /\ UNCHANGED <<tokens, status, rewritten, lease, pending, aged, live, bound,
                   starting, polling, revoked, upsets, troubled>>

(* releaseRefreshLease, on every way out: only a lease of one's own.  The  *)
(* resolution has failed if it brings no tokens but those it began from.   *)
Release(i) ==
    /\ In(i, "release")
    /\ lease' = IF lease.owner = i THEN NoLease ELSE lease
    /\ IF isolate[i].got \in {NoTokens, isolate[i].read} THEN Ends(i) ELSE Goto(i, "bind")
    /\ UNCHANGED <<tokens, status, rewritten, pending, aged, live, bound, starting,
                   polling, revoked, upsets, troubled>>

(* bindOpenAiSubscriptionProvider: tokens replaced meanwhile are not bound. *)
Bind(i) ==
    /\ In(i, "bind")
    /\ bound' = IF tokens = isolate[i].got
                THEN [bound EXCEPT ![i] = isolate[i].got] ELSE bound
    /\ Ends(i)
    /\ UNCHANGED <<tokens, status, rewritten, lease, pending, aged, live, starting,
                   polling, revoked, upsets, troubled>>

-----------------------------------------------------------------------------
(* A model call is answered 401                                            *)

(* The grant is dead; or a turn has outlived its access token.             *)
Rejected(i) ==
    /\ In(i, "idle") /\ bound[i] # NoTokens
    /\ \/ live[bound[i].grant] = Spent /\ Smooth
       \/ /\ Upset("late") /\ bound[i] \in aged /\ live[bound[i].grant] # Spent
          /\ troubled' = TRUE
    /\ isolate' = [isolate EXCEPT ![i].read = bound[i], ![i].pc = "rejected"]
    /\ UNCHANGED <<tokens, status, rewritten, lease, pending, aged, live, bound,
                   starting, polling, revoked>>

(* Mutant: the failure counts against whatever is connected now.           *)
SpeaksOfAny(i) == TRUE

(* The status, or for want of a revision in it the stored tokens.          *)
SpeaksOf(i) ==
    isolate[i].read = IF status.revision = NoTokens THEN tokens ELSE status.revision

(* recordOpenAiSubscriptionAuthenticationFailure reads status and tokens.  *)
ReadStatus(i) ==
    /\ In(i, "rejected")
    /\ IF SpeaksOf(i) /\ status.state # "reconnect_required"
       THEN Goto(i, "count") ELSE Ends(i)
    /\ UNCHANGED <<tokens, status, rewritten, lease, pending, aged, live, bound,
                   starting, polling, revoked, upsets, troubled>>

(* Mutant: the credentials are given one chance more.                      *)
IsLastFailureLate(s) == s.failures = 2

IsLastFailure(s) == s.failures = 1

(* The second failure in a row takes the credentials away; a status that   *)
(* was rewritten meanwhile is read again.                                  *)
CountFailure(i) ==
    /\ In(i, "count")
    /\ IF i \in rewritten
       THEN /\ Goto(i, "rejected")
            /\ rewritten' = rewritten \ {i}
            /\ UNCHANGED <<tokens, status, lease, pending, bound>>
       ELSE /\ Ends(i)
            /\ rewritten' = {j \in Isolates \ {i} : In(j, "count")}
            /\ IF IsLastFailure(status)
               THEN /\ tokens' = NoTokens /\ pending' = NoPending /\ lease' = NoLease
                    /\ status' = [Plain("reconnect_required")
                                     EXCEPT !.revision = isolate[i].read]
                    /\ bound' = [bound EXCEPT ![i] = NoTokens]
               ELSE /\ status' = [status EXCEPT !.failures = @ + 1,
                                                !.revision = isolate[i].read]
                    /\ UNCHANGED <<tokens, lease, pending, bound>>
    /\ UNCHANGED <<aged, live, starting, polling, revoked, upsets, troubled>>

-----------------------------------------------------------------------------
(* The operator                                                            *)

Unasked(g) == live[g] = -2 /\ \A h \in Grants : h < g => live[h] # -2

(* startOpenAiSubscriptionAuthorization reads what is there, asks OpenAI    *)
(* for a code ...                                                          *)
StartAuthorization ==
    /\ starting = NotStarting
    /\ \E g \in Grants :
           /\ Unasked(g)
           /\ live' = [live EXCEPT ![g] = Unapproved]
           /\ starting' = [over |-> pending, as |-> [NoPending EXCEPT
                  !.grant = g,
                  !.previous = IF pending = NoPending THEN status.state
                               ELSE pending.previous]]
    /\ UNCHANGED <<tokens, status, rewritten, lease, pending, aged, isolate, bound,
                   polling, revoked, upsets, troubled>>

(* ... and stores the attempt in place of none or of an expired one, unless *)
(* another was stored meanwhile.                                           *)
StoreAuthorization ==
    /\ starting # NotStarting
    /\ starting' = NotStarting
    /\ IF pending = starting.over
       THEN pending' = starting.as /\ StatusIs(Plain("authorizing"))
       ELSE UNCHANGED pending /\ StatusStays
    /\ UNCHANGED <<tokens, lease, aged, live, isolate, bound, polling,
                   revoked, upsets, troubled>>

(* pollOpenAiSubscriptionAuthorization claims the attempt, and finds it    *)
(* approved: OpenAI has issued its first tokens.  An earlier poll of the   *)
(* same attempt that is still under way has lost its claim.                *)
Poll ==
    /\ pending # NoPending /\ ~pending.another
    /\ pending.polls < 2
    /\ live[pending.grant] = Unapproved
    /\ pending' = [pending EXCEPT !.polls = @ + 1]
    /\ \/ /\ polling' = pending'
          /\ live' = [live EXCEPT ![pending.grant] = 1]
       \/ UNCHANGED <<polling, live>>
    /\ UNCHANGED <<tokens, status, rewritten, lease, aged, isolate, bound, starting,
                   revoked, upsets, troubled>>

(* Mutant: the approved tokens are stored without their attempt.           *)
StillPendingAnyway(p) == TRUE

StillPending(p) == pending = p

(* commitOpenAiSubscriptionCredentials.                                    *)
CommitTokens(grant) ==
    /\ tokens' = [grant |-> grant, rotation |-> 1]
    /\ StatusIs([Plain("connected") EXCEPT !.revision = tokens'])
    /\ pending' = NoPending /\ lease' = NoLease

FinishPoll ==
    /\ polling # NoPending
    /\ polling' = NoPending
    /\ \/ StillPending(polling) /\ CommitTokens(polling.grant)
       \/ /\ StillPending(polling) /\ polling.previous = "connected"
          /\ pending' = [polling EXCEPT !.another = TRUE]
          /\ StatusIs(Plain("confirming"))
          /\ UNCHANGED <<tokens, lease>>
       \/ /\ ~StillPending(polling)
          /\ UNCHANGED <<tokens, status, rewritten, pending, lease>>
    /\ UNCHANGED <<aged, live, isolate, bound, starting, revoked, upsets, troubled>>

(* confirmOpenAiSubscriptionAccountChange.                                 *)
ConfirmAccount ==
    /\ pending # NoPending /\ pending.another
    /\ CommitTokens(pending.grant)
    /\ UNCHANGED <<aged, live, isolate, bound, starting, polling, revoked, upsets,
                   troubled>>

(* Cancelled: the status before it is written again.  An attempt that has  *)
(* expired ends disconnected, unless it was connected before.              *)
EndAuthorization ==
    /\ pending # NoPending
    /\ pending' = NoPending
    /\ \E state \in {pending.previous,
                     IF pending.previous = "connected" THEN "connected"
                     ELSE "disconnected"} :
          StatusIs(Plain(state))
    /\ UNCHANGED <<tokens, lease, aged, live, isolate, bound, starting,
                   polling, revoked, upsets, troubled>>

Disconnect ==
    /\ status.state # "disconnected" \/ tokens # NoTokens
    /\ revoked' = revoked \cup ({tokens.grant, pending.grant} \ {0})
    /\ tokens' = NoTokens /\ pending' = NoPending /\ lease' = NoLease
    /\ StatusIs(Plain("disconnected"))
    /\ UNCHANGED <<aged, live, isolate, bound, starting, polling, upsets, troubled>>

-----------------------------------------------------------------------------
(* Time, OpenAI, and an isolate that goes away                             *)

Age ==
    /\ tokens # NoTokens /\ tokens.rotation < MaxRotations
    /\ tokens \notin aged
    /\ aged' = aged \cup {tokens}
    /\ UNCHANGED <<tokens, status, rewritten, lease, pending, live, isolate, bound,
                   starting, polling, revoked, upsets, troubled>>

Holds(i) == lease.owner = i /\ ~(isolate[i].pc \in {"idle", "acquire", "bind"})

(* Twenty seconds pass: more than a refresh takes, which OpenAI has to      *)
(* answer within fifteen, unless an isolate is slow.                       *)
LeaseExpires ==
    /\ lease.owner # Nobody /\ ~lease.expired
    /\ lease' = [lease EXCEPT !.expired = TRUE]
    /\ \/ (~\E i \in Isolates : Holds(i)) /\ Smooth
       \/ Upset("slow") /\ (\E i \in Isolates : Holds(i)) /\ troubled' = TRUE
    /\ UNCHANGED <<tokens, status, rewritten, pending, aged, live, isolate, bound,
                   starting, polling, revoked>>

ProviderRevokes ==
    /\ Upset("revoked")
    /\ \E g \in Grants : live[g] > 0 /\ live' = [live EXCEPT ![g] = Spent]
    /\ UNCHANGED <<tokens, status, rewritten, lease, pending, aged, isolate, bound,
                   starting, polling, revoked, troubled>>

(* What a crash loses is a rotation that was not stored.                   *)
CrashIsolate(i) ==
    /\ Upset("crash")
    /\ ~In(i, "idle")
    /\ Ends(i)
    /\ bound' = [bound EXCEPT ![i] = NoTokens]
    /\ troubled' = (troubled \/ In(i, "store"))
    /\ rewritten' = rewritten \ {i}
    /\ UNCHANGED <<tokens, status, lease, pending, aged, live, starting, polling,
                   revoked>>

-----------------------------------------------------------------------------
(* Nothing was ever connected, or a grant is in use.                       *)
CredentialInit ==
    /\ tokens \in {NoTokens, [grant |-> 1, rotation |-> 1]}
    /\ status = IF tokens = NoTokens THEN Plain("disconnected")
                ELSE [Plain("connected") EXCEPT !.revision = tokens]
    /\ live = [g \in Grants |-> IF g = tokens.grant THEN 1 ELSE -2]
    /\ lease = NoLease /\ pending = NoPending
    /\ aged = {}
    /\ isolate = [i \in Isolates |-> Idle]
    /\ bound = [i \in Isolates |-> NoTokens]
    /\ starting = NotStarting /\ polling = NoPending
    /\ rewritten = {} /\ revoked = {} /\ upsets = 0 /\ troubled = FALSE

IsolateNext(i) ==
    \/ ReadSnapshot(i) \/ Acquire(i) \/ Fetch(i) \/ Store(i) \/ Mark(i)
    \/ ReadRefreshWinner(i) \/ Release(i) \/ Bind(i)
    \/ Rejected(i) \/ ReadStatus(i) \/ CountFailure(i) \/ CrashIsolate(i)

CredentialNext ==
    \/ \E i \in Isolates : IsolateNext(i)
    \/ StartAuthorization \/ StoreAuthorization \/ Poll \/ FinishPoll
    \/ ConfirmAccount \/ EndAuthorization \/ Disconnect
    \/ Age \/ LeaseExpires \/ ProviderRevokes

CredentialSpec == CredentialInit /\ [][CredentialNext]_credentialVars

-----------------------------------------------------------------------------
(* The settings and the isolates' progress are well formed.                *)
CredentialTypeOK ==
    /\ tokens \in Tokens /\ status \in Status /\ lease \in Lease
    /\ rewritten \subseteq Isolates
    /\ pending \in Pending /\ starting \in [over : Pending, as : Pending] /\ polling \in Pending
    /\ aged \subseteq Tokens
    /\ live \in [Grants -> -2 .. MaxRotations]
    /\ isolate \in [Isolates -> Isolate]
    /\ bound \in [Isolates -> Tokens]
    /\ revoked \subseteq Grants
    /\ upsets \in 0 .. MaxUpsets /\ troubled \in BOOLEAN

(* What an operator has disconnected does not come back: neither a refresh *)
(* nor an approved authorization that was under way then brings tokens of  *)
(* it into the settings again.                                             *)
DisconnectedStaysAway == tokens.grant \notin revoked

(* Two isolates that refresh at once do not cost the installation its      *)
(* connection: a reconnect is asked for only if OpenAI has ended the grant. *)
(* Excepted are the cases the design does not cover: a rotation that was   *)
(* lost, a lease outlived by its holder, a 401 for an access token that    *)
(* aged during a turn.                                                     *)
NoNeedlessReconnect ==
    status.state = "reconnect_required" /\ status.revision # NoTokens =>
        troubled \/ live[status.revision.grant] = Spent

(* tests/openai-subscription-credentials.test.ts: "a stale authentication  *)
(* failure cannot invalidate replacement credentials".  Credentials that a *)
(* step takes away without putting others in their place are those that    *)
(* were refused, or the operator disconnects.                              *)
OnlyRefusedTokensGo ==
    [][tokens # NoTokens /\ tokens' = NoTokens =>
           \/ Disconnect
           \/ \E i \in Isolates :
                  isolate[i].pc \in {"mark", "count"} /\ isolate[i].read = tokens]_credentialVars
=============================================================================
