----------------------------- MODULE TokenProofs -----------------------------
(***************************************************************************)
(* Theorems about the tokens of other services a deployment keeps: those   *)
(* of the OpenAI subscription (CredentialRefresh) and those of a           *)
(* connection to an MCP server (McpConnections).  For any number of        *)
(* isolates, grants and rotations, of requests, servers and                *)
(* authorizations, and whatever goes wrong.                                *)
(***************************************************************************)
EXTENDS CredentialRefresh, McpConnections, TLAPS

-----------------------------------------------------------------------------
(* The subscription: disconnected grants                                   *)
(*                                                                         *)
(* That a disconnected grant stays away is not inductive: the invariant    *)
(* adds that no authorization under way is for such a grant either, that   *)
(* one not stored yet is for a grant nobody else knows, and that a refresh *)
(* brings tokens of the grant it began from.  That no reconnect is         *)
(* needless rests on RefreshInv, the next section: who refreshes the       *)
(* stored tokens holds the lease, so OpenAI takes them.                    *)


SettingsOK ==
    /\ tokens \in Tokens /\ status \in Status /\ lease \in Lease
    /\ pending \in Pending /\ starting \in [over : Pending, as : Pending]
    /\ polling \in Pending
    /\ live \in [Grants -> -2 .. MaxRotations]
    /\ bound \in [Isolates -> Tokens]
    /\ revoked \subseteq Grants

HistoryOK ==
    /\ aged \subseteq Tokens /\ upsets \in 0 .. MaxUpsets /\ troubled \in BOOLEAN

ViewsOK == rewritten \subseteq Isolates

RefreshesItsGrant(c) == c.pc = "store" => c.got.grant = c.read.grant

IsolatesInv ==
    /\ isolate \in [Isolates -> Isolate]
    /\ \A i \in Isolates : RefreshesItsGrant(isolate[i])

NobodyKnows(g) == g \notin revoked \cup {tokens.grant, pending.grant}

GrantsInv ==
    /\ tokens.grant \notin revoked /\ pending.grant \notin revoked
    /\ starting # NotStarting =>
           /\ starting.as.grant \in Grants /\ NobodyKnows(starting.as.grant)
           /\ live[starting.as.grant] # -2
    /\ \A g \in Grants : live[g] = -2 => NobodyKnows(g)

CredentialInv == SettingsOK /\ HistoryOK /\ ViewsOK /\ IsolatesInv /\ GrantsInv

-----------------------------------------------------------------------------
LEMMA BlankValues ==
    /\ NoTokens \in Tokens /\ NoLease \in Lease /\ NoPending \in Pending
    /\ NotStarting \in [over : Pending, as : Pending]
    /\ NoTokens.grant = 0 /\ NoPending.grant = 0 /\ 0 \notin Grants
<1>1. NoTokens \in Tokens /\ NoTokens.grant = 0
  BY CredentialAssumption DEF NoTokens, Tokens
<1>2. NoLease \in Lease
  BY DEF NoLease, Lease
<1>3. NoPending \in Pending /\ NoPending.grant = 0
  BY CredentialAssumption DEF NoPending, Pending
<1> QED BY <1>1, <1>2, <1>3 DEF NotStarting, Grants

LEMMA IdleIsolate == Idle \in Isolate /\ RefreshesItsGrant(Idle)
BY BlankValues DEF Idle, Isolate, RefreshesItsGrant

LEMMA PlainStatus ==
    ASSUME NEW s \in {"disconnected", "authorizing", "connected", "confirming",
                      "reconnect_required"}, NEW t \in Tokens
    PROVE  Plain(s) \in Status /\ [Plain(s) EXCEPT !.revision = t] \in Status
BY BlankValues DEF Plain, Status

LEMMA FailureIsCounted ==
    ASSUME NEW s \in Status, NEW t \in Tokens
    PROVE  [s EXCEPT !.failures = 1, !.revision = t] \in Status
<1>1. [s EXCEPT !.failures = 1] \in Status
  BY DEF Status
<1> QED BY <1>1 DEF Status

LEMMA NewAttempt ==
    ASSUME NEW g \in Grants,
           NEW s \in {"disconnected", "connected", "confirming", "authorizing",
                      "reconnect_required"}
    PROVE  LET n == [NoPending EXCEPT !.grant = g, !.previous = s]
           IN  n \in Pending /\ n.grant = g
<1>1. g \in 0 .. MaxGrants
  BY CredentialAssumption DEF Grants
<1>2. [NoPending EXCEPT !.grant = g] \in Pending
  BY <1>1, BlankValues DEF Pending
<1> QED BY <1>2, BlankValues DEF Pending

LEMMA OneIsolateMoves ==
    ASSUME IsolatesInv, NEW i \in Isolates, NEW c \in Isolate, RefreshesItsGrant(c),
           isolate' = [isolate EXCEPT ![i] = c]
    PROVE  IsolatesInv'
<1>1. isolate' \in [Isolates -> Isolate]
  BY DEF IsolatesInv
<1>2. ASSUME NEW j \in Isolates PROVE RefreshesItsGrant(isolate'[j])
  BY <1>2 DEF IsolatesInv
<1> QED BY <1>1, <1>2 DEF IsolatesInv

(* An isolate that only moves on keeps what it holds.                      *)
LEMMA IsolateGoesOn ==
    ASSUME IsolatesInv, NEW i \in Isolates,
           NEW p \in {"idle", "acquire", "fetch", "mark", "winner", "release",
                      "bind", "rejected", "count"}, Goto(i, p)
    PROVE  IsolatesInv'
<1> DEFINE c == [isolate[i] EXCEPT !.pc = p]
<1>1. isolate' = [isolate EXCEPT ![i] = c]
  BY DEF Goto
<1>2. c \in Isolate /\ RefreshesItsGrant(c)
  BY DEF IsolatesInv, Isolate, RefreshesItsGrant
<1> QED BY <1>1, <1>2, OneIsolateMoves

LEMMA IsolateEnds ==
    ASSUME IsolatesInv, NEW i \in Isolates, Ends(i)
    PROVE  IsolatesInv'
BY IdleIsolate, OneIsolateMoves DEF Ends

LEMMA InitCredentialInv == CredentialInit => CredentialInv
<1> SUFFICES ASSUME CredentialInit PROVE CredentialInv
  OBVIOUS
<1>1. tokens \in Tokens /\ tokens.grant \in {0, 1}
  BY CredentialAssumption DEF CredentialInit, Tokens, NoTokens
<1>2. status \in Status
  BY <1>1, PlainStatus DEF CredentialInit
<1>3. live \in [Grants -> -2 .. MaxRotations]
  <2>1. 1 \in -2 .. MaxRotations /\ -2 \in -2 .. MaxRotations
    BY CredentialAssumption
  <2> QED BY <2>1 DEF CredentialInit
<1>4. SettingsOK
  BY <1>1, <1>2, <1>3, BlankValues DEF CredentialInit, SettingsOK
<1>5. HistoryOK
  <2>1. 0 \in 0 .. MaxUpsets
    BY CredentialAssumption
  <2> QED BY <2>1 DEF CredentialInit, HistoryOK
<1>6. IsolatesInv /\ ViewsOK
  BY IdleIsolate DEF CredentialInit, IsolatesInv, ViewsOK
<1>7. GrantsInv
  BY BlankValues DEF CredentialInit, GrantsInv, NobodyKnows
<1> QED BY <1>4, <1>5, <1>6, <1>7 DEF CredentialInv

-----------------------------------------------------------------------------
(* Where the steps of an isolate take it.                                  *)
LEMMA IsolatesStep ==
    ASSUME CredentialInv, NEW i \in Isolates, IsolateNext(i)
    PROVE  IsolatesInv'
<1> DEFINE c == isolate[i]
<1>0. IsolatesInv /\ c \in Isolate /\ RefreshesItsGrant(c) /\ SettingsOK
  BY DEF CredentialInv, IsolatesInv
<1>1. CASE ReadSnapshot(i)
  <2> DEFINE n == IF tokens \in aged
                  THEN [Idle EXCEPT !.pc = "acquire", !.read = tokens, !.lease = lease]
                  ELSE [Idle EXCEPT !.pc = "bind", !.got = tokens]
  <2>1. isolate' = [isolate EXCEPT ![i] = n]
    BY <1>1 DEF ReadSnapshot
  <2>2. n \in Isolate /\ RefreshesItsGrant(n)
    BY <1>0, IdleIsolate DEF SettingsOK, Isolate, Idle, RefreshesItsGrant
  <2> QED BY <1>0, <2>1, <2>2, OneIsolateMoves
<1>2. CASE Acquire(i)
  <2>1. CASE Ends(i)
    BY <1>0, <2>1, IsolateEnds
  <2>2. CASE ~Ends(i)
    <3> DEFINE n == [c EXCEPT !.lease = NoLease, !.pc = "fetch"]
    <3>1. isolate' = [isolate EXCEPT ![i] = n]
      BY <1>0, <1>2, <2>2 DEF Acquire, IsolatesInv
    <3>2. n \in Isolate /\ RefreshesItsGrant(n)
      BY <1>0, BlankValues DEF Isolate, RefreshesItsGrant
    <3> QED BY <1>0, <3>1, <3>2, OneIsolateMoves
  <2> QED BY <2>1, <2>2
<1>3. CASE Fetch(i)
  <2>1. CASE Goto(i, "release") \/ Goto(i, "mark")
    BY <1>0, <2>1, IsolateGoesOn
  <2>2. CASE ~(Goto(i, "release") \/ Goto(i, "mark"))
    <3> DEFINE n == [c EXCEPT !.got = Rotated(c.read), !.pc = "store"]
    <3>1. isolate' = [isolate EXCEPT ![i] = n] /\ c.read.rotation < MaxRotations
      BY <1>0, <1>3, <2>2 DEF Fetch, IsolatesInv
    <3>2. Rotated(c.read) \in Tokens /\ Rotated(c.read).grant = c.read.grant
      BY <1>0, <3>1, CredentialAssumption DEF Rotated, Tokens, Isolate
    <3>3. n \in Isolate /\ RefreshesItsGrant(n)
      BY <1>0, <3>2 DEF Isolate, RefreshesItsGrant
    <3> QED BY <1>0, <3>1, <3>3, OneIsolateMoves
  <2> QED BY <2>1, <2>2
<1>4. CASE Store(i)
  BY <1>0, <1>4, IsolateGoesOn DEF Store
<1>5. CASE Mark(i)
  <2>1. CASE Goto(i, "winner")
    BY <1>0, <2>1, IsolateGoesOn
  <2>2. CASE ~Goto(i, "winner")
    <3> DEFINE n == [c EXCEPT !.got = NoTokens, !.pc = "release"]
    <3>1. isolate' = [isolate EXCEPT ![i] = n]
      BY <1>0, <1>5, <2>2 DEF Mark, IsolatesInv
    <3>2. n \in Isolate /\ RefreshesItsGrant(n)
      BY <1>0, BlankValues DEF Isolate, RefreshesItsGrant
    <3> QED BY <1>0, <3>1, <3>2, OneIsolateMoves
  <2> QED BY <2>1, <2>2
<1>6. CASE ReadRefreshWinner(i)
  <2> DEFINE n == [c EXCEPT !.got = tokens, !.pc = "release"]
  <2>1. isolate' = [isolate EXCEPT ![i] = n]
    BY <1>0, <1>6 DEF ReadRefreshWinner, IsolatesInv
  <2>2. n \in Isolate /\ RefreshesItsGrant(n)
    BY <1>0 DEF Isolate, RefreshesItsGrant, SettingsOK
  <2> QED BY <1>0, <2>1, <2>2, OneIsolateMoves
<1>7. CASE Release(i)
  BY <1>0, <1>7, IsolateGoesOn, IsolateEnds DEF Release
<1>8. CASE Rejected(i)
  <2> DEFINE n == [c EXCEPT !.read = bound[i], !.pc = "rejected"]
  <2>1. isolate' = [isolate EXCEPT ![i] = n]
    BY <1>0, <1>8 DEF Rejected, IsolatesInv
  <2>2. n \in Isolate /\ RefreshesItsGrant(n)
    BY <1>0 DEF Isolate, RefreshesItsGrant, SettingsOK
  <2> QED BY <1>0, <2>1, <2>2, OneIsolateMoves
<1>9. CASE ReadStatus(i)
  BY <1>0, <1>9, IsolateGoesOn, IsolateEnds DEF ReadStatus
<1>10. CASE CountFailure(i)
  BY <1>0, <1>10, IsolateGoesOn, IsolateEnds DEF CountFailure
<1>11. CASE Bind(i) \/ CrashIsolate(i)
  BY <1>0, <1>11, IsolateEnds DEF Bind, CrashIsolate
<1> QED
  BY <1>1, <1>2, <1>3, <1>4, <1>5, <1>6, <1>7, <1>8, <1>9, <1>10, <1>11
     DEF IsolateNext

-----------------------------------------------------------------------------
(* What the steps do to the grants.                                        *)

(* A step that brings no tokens and no authorization of another grant.     *)
LEMMA NoOtherGrant ==
    ASSUME SettingsOK, GrantsInv,
           tokens'.grant \in {0, tokens.grant}, pending'.grant \in {0, pending.grant},
           UNCHANGED <<starting, revoked>>,
           \A g \in Grants : live'[g] = -2 => live[g] = -2
    PROVE  GrantsInv'
<1>1. 0 \notin revoked /\ 0 \notin Grants
  BY BlankValues DEF SettingsOK
<1>2. ASSUME NEW g \in Grants, NobodyKnows(g) PROVE NobodyKnows(g)'
  BY <1>1, <1>2 DEF NobodyKnows
<1> QED BY <1>1, <1>2 DEF GrantsInv

(* An upset is counted, or nothing is.                                     *)
LEMMA UpsetsCounted ==
    ASSUME HistoryOK, UNCHANGED aged, troubled' \in BOOLEAN,
           UNCHANGED upsets \/ \E kind \in CredentialFaults : Upset(kind)
    PROVE  HistoryOK'
BY CredentialAssumption DEF HistoryOK, Upset

LEMMA GrantIsKept ==
    ASSUME NEW g \in 0 .. MaxGrants
    PROVE  [grant |-> g, rotation |-> 1] \in Tokens
BY CredentialAssumption DEF Tokens

LEMMA IsolateSettings ==
    ASSUME CredentialInv, NEW i \in Isolates, IsolateNext(i)
    PROVE  SettingsOK' /\ HistoryOK' /\ GrantsInv'
<1> DEFINE c == isolate[i]
<1>0. /\ c \in Isolate /\ RefreshesItsGrant(c)
      /\ SettingsOK /\ HistoryOK /\ GrantsInv
  BY DEF CredentialInv, IsolatesInv
<1>1. CASE \/ ReadSnapshot(i) \/ ReadRefreshWinner(i) \/ ReadStatus(i)
  <2>1. UNCHANGED <<tokens, status, lease, pending, aged, live, bound, starting,
                    polling, revoked, upsets, troubled>>
    BY <1>1 DEF ReadSnapshot, ReadRefreshWinner, ReadStatus
  <2> QED BY <1>0, <2>1, NoOtherGrant DEF SettingsOK, HistoryOK
<1>2. CASE Acquire(i) \/ Release(i) \/ Bind(i)
  <2>1. UNCHANGED <<tokens, status, pending, aged, live, starting, polling,
                    revoked, upsets, troubled>>
    BY <1>2 DEF Acquire, Release, Bind
  <2>2. lease' \in Lease
    <3>1. [owner |-> i, expired |-> FALSE] \in Lease /\ lease \in Lease
      BY <1>0 DEF Lease, SettingsOK
    <3>2. lease' \in {lease, NoLease, [owner |-> i, expired |-> FALSE]}
      BY <1>2 DEF Acquire, Release, Bind
    <3> QED BY <3>1, <3>2, BlankValues
  <2>3. bound' \in [Isolates -> Tokens]
    BY <1>0, <1>2 DEF Acquire, Release, Bind, SettingsOK, Isolate
  <2> QED BY <1>0, <2>1, <2>2, <2>3, NoOtherGrant DEF SettingsOK, HistoryOK
<1>3. CASE Fetch(i)
  <2>1. UNCHANGED <<tokens, status, lease, pending, aged, bound, starting, polling, revoked>>
    BY <1>3 DEF Fetch
  <2>2. /\ troubled' \in BOOLEAN
        /\ UNCHANGED upsets \/ \E kind \in CredentialFaults : Upset(kind)
    BY <1>0, <1>3 DEF Fetch, Upset, Smooth, HistoryOK
  <2>3. CASE UNCHANGED live
    BY <1>0, <2>1, <2>2, <2>3, NoOtherGrant, UpsetsCounted DEF SettingsOK
  <2>4. CASE ~UNCHANGED live
    <3>1. /\ live' = [live EXCEPT ![c.read.grant] = c.read.rotation + 1]
          /\ c.read.rotation \in Nat /\ c.read.rotation < MaxRotations
      BY <1>0, <1>3, <2>4 DEF Fetch, Isolate, Tokens
    <3>2. c.read.rotation + 1 \in -2 .. MaxRotations /\ c.read.rotation + 1 # -2
      BY <3>1, CredentialAssumption
    <3>3. /\ live' \in [Grants -> -2 .. MaxRotations]
          /\ \A g \in Grants : live'[g] = -2 => live[g] = -2
      BY <1>0, <3>1, <3>2 DEF SettingsOK
    <3> QED BY <1>0, <2>1, <2>2, <3>3, NoOtherGrant, UpsetsCounted DEF SettingsOK
  <2> QED BY <2>3, <2>4
<1>4. CASE Store(i)
  <2>1. UNCHANGED <<pending, aged, live, starting, polling, revoked, upsets, troubled>>
    BY <1>4 DEF Store
  <2>2. CASE UNCHANGED <<tokens, status, lease, bound>>
    BY <1>0, <2>1, <2>2, NoOtherGrant DEF SettingsOK, HistoryOK
  <2>3. CASE ~UNCHANGED <<tokens, status, lease, bound>>
    <3>1. /\ tokens' = c.got /\ lease' = NoLease
          /\ status' = [Plain("connected") EXCEPT !.revision = c.got]
          /\ bound' = [bound EXCEPT ![i] = NoTokens]
          /\ tokens = c.read /\ c.pc = "store"
      BY <1>4, <2>3 DEF Store, StillRead, In, StatusIs
    <3>2. tokens' \in Tokens /\ tokens'.grant = tokens.grant /\ status' \in Status
      BY <1>0, <3>1, PlainStatus DEF Isolate, RefreshesItsGrant
    <3> QED BY <1>0, <2>1, <3>1, <3>2, BlankValues, NoOtherGrant DEF SettingsOK, HistoryOK
  <2> QED BY <2>2, <2>3
<1>5. CASE Mark(i) \/ CountFailure(i)
  <2>1. UNCHANGED <<aged, live, starting, polling, revoked, upsets, troubled>>
    BY <1>5 DEF Mark, CountFailure
  <2>2. CASE UNCHANGED <<tokens, status, lease, pending, bound>>
    BY <1>0, <2>1, <2>2, NoOtherGrant DEF SettingsOK, HistoryOK
  <2>3. CASE /\ tokens' = NoTokens /\ pending' = NoPending /\ lease' = NoLease
             /\ status' = [Plain("reconnect_required") EXCEPT !.revision = c.read]
             /\ bound' = [bound EXCEPT ![i] = NoTokens]
    <3>1. status' \in Status
      BY <1>0, <2>3, PlainStatus DEF Isolate
    <3> QED BY <1>0, <2>1, <2>3, <3>1, BlankValues, NoOtherGrant DEF SettingsOK, HistoryOK
  <2>4. CASE /\ ~IsLastFailure(status)
             /\ status' = [status EXCEPT !.failures = @ + 1, !.revision = c.read]
             /\ UNCHANGED <<tokens, lease, pending, bound>>
    <3>1. status \in Status /\ c.read \in Tokens /\ status.failures = 0
      BY <1>0, <2>4 DEF Isolate, SettingsOK, Status, IsLastFailure
    <3>2. status' = [status EXCEPT !.failures = 1, !.revision = c.read]
      BY <2>4, <3>1
    <3>3. status' \in Status
      BY <3>1, <3>2, FailureIsCounted
    <3> QED BY <1>0, <2>1, <2>4, <3>3, NoOtherGrant DEF SettingsOK, HistoryOK
  <2> QED BY <1>5, <2>2, <2>3, <2>4 DEF Mark, CountFailure, StatusIs
<1>6. CASE Rejected(i)
  <2>1. UNCHANGED <<tokens, status, lease, pending, aged, live, bound, starting,
                    polling, revoked>>
    BY <1>6 DEF Rejected
  <2>2. /\ troubled' \in BOOLEAN
        /\ UNCHANGED upsets \/ \E kind \in CredentialFaults : Upset(kind)
    BY <1>0, <1>6 DEF Rejected, Upset, Smooth, HistoryOK
  <2> QED BY <1>0, <2>1, <2>2, NoOtherGrant, UpsetsCounted DEF SettingsOK
<1>7. CASE CrashIsolate(i)
  <2>1. UNCHANGED <<tokens, status, lease, pending, aged, live, starting, polling,
                    revoked>>
    BY <1>7 DEF CrashIsolate
  <2>2. /\ troubled' \in BOOLEAN /\ \E kind \in CredentialFaults : Upset(kind)
    BY <1>0, <1>7 DEF CrashIsolate, Upset, HistoryOK
  <2>3. bound' \in [Isolates -> Tokens]
    BY <1>0, <1>7, BlankValues DEF CrashIsolate, SettingsOK
  <2> QED BY <1>0, <2>1, <2>2, <2>3, NoOtherGrant, UpsetsCounted DEF SettingsOK
<1> QED BY <1>1, <1>2, <1>3, <1>4, <1>5, <1>6, <1>7 DEF IsolateNext

LEMMA ViewsStep ==
    ASSUME CredentialInv, CredentialNext
    PROVE  ViewsOK'
<1>1. ASSUME NEW i \in Isolates, IsolateNext(i)
      PROVE  rewritten' \subseteq Isolates
  BY <1>1 DEF CredentialInv, ViewsOK, IsolateNext, ReadSnapshot, Acquire, Fetch, Store,
              Mark, ReadRefreshWinner, Release, Bind, Rejected, ReadStatus,
              CountFailure, CrashIsolate, StatusIs
<1>2. ASSUME CredentialNext, ~\E i \in Isolates : IsolateNext(i)
      PROVE  rewritten' \subseteq Isolates
  BY <1>2 DEF CredentialInv, ViewsOK, CredentialNext, StartAuthorization,
              StoreAuthorization, Poll, FinishPoll, CommitTokens, ConfirmAccount,
              EndAuthorization, Disconnect, Age, LeaseExpires, ProviderRevokes,
              StatusIs, StatusStays
<1> QED BY <1>1, <1>2 DEF ViewsOK

LEMMA OperatorStep ==
    ASSUME CredentialInv,
           \/ StartAuthorization \/ StoreAuthorization \/ Poll \/ FinishPoll
           \/ ConfirmAccount \/ EndAuthorization \/ Disconnect
    PROVE  CredentialInv'
<1>0. SettingsOK /\ HistoryOK /\ GrantsInv /\ IsolatesInv
  BY DEF CredentialInv
<1>1. UNCHANGED <<aged, isolate, bound, upsets, troubled>>
  BY DEF StartAuthorization, StoreAuthorization, Poll, FinishPoll, ConfirmAccount,
         EndAuthorization, Disconnect
<1>2. HistoryOK' /\ IsolatesInv' /\ ViewsOK'
  BY <1>0, <1>1, ViewsStep DEF HistoryOK, IsolatesInv, CredentialNext
<1>3. CASE StartAuthorization
  <2>1. PICK g \in Grants :
            /\ Unasked(g)
            /\ live' = [live EXCEPT ![g] = Unapproved]
            /\ starting' = [over |-> pending, as |-> [NoPending EXCEPT
                   !.grant = g,
                   !.previous = IF pending = NoPending THEN status.state
                                ELSE pending.previous]]
    BY <1>3 DEF StartAuthorization
  <2>2. UNCHANGED <<tokens, status, lease, pending, bound, polling, revoked>>
    BY <1>3 DEF StartAuthorization
  <2>3. Unapproved \in -2 .. MaxRotations /\ Unapproved # -2
    BY CredentialAssumption DEF Unapproved
  <2>4. live' \in [Grants -> -2 .. MaxRotations] /\ live'[g] # -2
        /\ \A h \in Grants : live'[h] = -2 => live[h] = -2
    BY <1>0, <2>1, <2>3 DEF SettingsOK
  <2>5. starting' \in [over : Pending, as : Pending] /\ starting'.as.grant = g
    <3> DEFINE s == IF pending = NoPending THEN status.state ELSE pending.previous
               n == [NoPending EXCEPT !.grant = g, !.previous = s]
    <3>1. starting' = [over |-> pending, as |-> n] /\ pending \in Pending
      BY <1>0, <2>1 DEF SettingsOK
    <3>2. s \in {"disconnected", "connected", "confirming", "authorizing",
                 "reconnect_required"}
      BY <1>0 DEF SettingsOK, Pending, Status
    <3> HIDE DEF s
    <3>3. n \in Pending /\ n.grant = g
      BY <3>2, NewAttempt
    <3> QED BY <3>1, <3>3
  <2>6. NobodyKnows(g) /\ NobodyKnows(g)'
    BY <1>0, <2>1, <2>2 DEF Unasked, GrantsInv, NobodyKnows
  <2>7. SettingsOK'
    BY <1>0, <2>2, <2>4, <2>5 DEF SettingsOK
  <2>8. GrantsInv'
    BY <1>0, <2>2, <2>4, <2>5, <2>6 DEF GrantsInv, NobodyKnows
  <2> QED BY <1>2, <2>7, <2>8 DEF CredentialInv
<1>4. CASE StoreAuthorization
  <2>1. UNCHANGED <<tokens, lease, live, bound, polling, revoked>>
        /\ starting # NotStarting /\ starting' = NotStarting
    BY <1>4 DEF StoreAuthorization
  <2>2. CASE pending' = starting.as /\ status' = Plain("authorizing")
    <3>1. SettingsOK'
      BY <1>0, <2>1, <2>2, BlankValues, PlainStatus DEF SettingsOK
    <3>2. GrantsInv'
      BY <1>0, <2>1, <2>2 DEF GrantsInv, NobodyKnows
    <3> QED BY <1>2, <3>1, <3>2 DEF CredentialInv
  <2>3. CASE UNCHANGED <<pending, status>>
    <3>1. SettingsOK'
      BY <1>0, <2>1, <2>3, <1>1, BlankValues DEF SettingsOK
    <3>2. GrantsInv'
      BY <1>0, <2>1, <2>3 DEF GrantsInv, NobodyKnows
    <3> QED BY <1>2, <3>1, <3>2 DEF CredentialInv
  <2> QED BY <1>4, <2>2, <2>3 DEF StoreAuthorization, StatusIs, StatusStays
<1>5. CASE Poll
  <2>1. UNCHANGED <<tokens, status, lease, starting, bound, revoked>>
    BY <1>5 DEF Poll
  <2>2. pending' \in Pending /\ pending'.grant = pending.grant
    <3>1. pending \in Pending /\ pending.polls < 2
          /\ pending' = [pending EXCEPT !.polls = pending.polls + 1]
      BY <1>0, <1>5 DEF Poll, SettingsOK
    <3> QED BY <3>1 DEF Pending
  <2>3. polling' \in Pending
    BY <1>0, <1>5, <2>2 DEF Poll, SettingsOK
  <2>4. /\ live' \in [Grants -> -2 .. MaxRotations]
        /\ \A g \in Grants : live'[g] = -2 => live[g] = -2
    <3>1. 1 \in -2 .. MaxRotations
      BY CredentialAssumption
    <3>2. UNCHANGED live \/ live' = [live EXCEPT ![pending.grant] = 1]
      BY <1>5 DEF Poll
    <3> QED BY <1>0, <3>1, <3>2 DEF SettingsOK
  <2>5. SettingsOK'
    BY <1>0, <2>1, <2>2, <2>3, <2>4 DEF SettingsOK
  <2>6. GrantsInv'
    BY <1>0, <2>1, <2>2, <2>4, NoOtherGrant
  <2> QED BY <1>2, <2>5, <2>6 DEF CredentialInv
<1>6. CASE FinishPoll \/ ConfirmAccount
  <2>1. UNCHANGED <<live, bound, starting, revoked>> /\ polling' \in {NoPending, polling}
    BY <1>6 DEF FinishPoll, ConfirmAccount
  <2>2. CASE CommitTokens(pending.grant)
    <3>1. pending.grant \in 0 .. MaxGrants
      BY <1>0 DEF SettingsOK, Pending
    <3>2. tokens' = [grant |-> pending.grant, rotation |-> 1]
          /\ status' = [Plain("connected") EXCEPT !.revision = tokens']
          /\ pending' = NoPending /\ lease' = NoLease
      BY <2>2 DEF CommitTokens, StatusIs
    <3>3. tokens' \in Tokens /\ tokens'.grant = pending.grant
      BY <3>1, <3>2, GrantIsKept
    <3>4. status' \in Status
      BY <3>2, <3>3, PlainStatus
    <3>5. SettingsOK'
      BY <1>0, <2>1, <3>2, <3>3, <3>4, BlankValues DEF SettingsOK
    <3>6. 0 \notin revoked /\ pending'.grant = 0
      BY <1>0, <3>2, BlankValues DEF SettingsOK
    <3>7. ASSUME NEW g \in Grants, NobodyKnows(g) PROVE NobodyKnows(g)'
      BY <2>1, <3>3, <3>6, <3>7, BlankValues DEF NobodyKnows
    <3>8. GrantsInv'
      BY <1>0, <2>1, <3>3, <3>6, <3>7 DEF GrantsInv
    <3> QED BY <1>2, <3>5, <3>8 DEF CredentialInv
  <2>3. CASE /\ pending' = [pending EXCEPT !.another = TRUE]
             /\ status' = Plain("confirming")
             /\ UNCHANGED <<tokens, lease>>
    <3>1. pending' \in Pending /\ pending'.grant = pending.grant
      BY <1>0, <2>3 DEF SettingsOK, Pending
    <3>2. SettingsOK'
      BY <1>0, <2>1, <2>3, <3>1, BlankValues, PlainStatus DEF SettingsOK
    <3>3. GrantsInv'
      BY <1>0, <2>1, <2>3, <3>1, NoOtherGrant
    <3> QED BY <1>2, <3>2, <3>3 DEF CredentialInv
  <2>4. CASE UNCHANGED <<tokens, status, pending, lease>>
    <3>1. SettingsOK'
      BY <1>0, <2>1, <2>4, BlankValues DEF SettingsOK
    <3>2. GrantsInv'
      BY <1>0, <2>1, <2>4, NoOtherGrant
    <3> QED BY <1>2, <3>1, <3>2 DEF CredentialInv
  <2> QED BY <1>6, <2>2, <2>3, <2>4 DEF FinishPoll, ConfirmAccount, StillPending, StatusIs
<1>7. CASE EndAuthorization
  <2>1. UNCHANGED <<tokens, lease, live, bound, starting, polling, revoked>>
        /\ pending' = NoPending
    BY <1>7 DEF EndAuthorization
  <2>2. status' \in Status
    <3> DEFINE s == IF pending.previous = "connected" THEN "connected" ELSE "disconnected"
    <3>1. status' \in {Plain(pending.previous), Plain(s)}
      BY <1>7 DEF EndAuthorization, StatusIs
    <3>2. pending.previous \in {"disconnected", "connected", "confirming",
                                "authorizing", "reconnect_required"}
      BY <1>0 DEF SettingsOK, Pending
    <3>3. s \in {"disconnected", "connected"}
      OBVIOUS
    <3> HIDE DEF s
    <3>4. Plain(pending.previous) \in Status /\ Plain(s) \in Status
      BY <3>2, <3>3, BlankValues, PlainStatus
    <3> QED BY <3>1, <3>4
  <2>3. SettingsOK'
    BY <1>0, <2>1, <2>2, BlankValues DEF SettingsOK
  <2>4. GrantsInv'
    BY <1>0, <2>1, BlankValues, NoOtherGrant
  <2> QED BY <1>2, <2>3, <2>4 DEF CredentialInv
<1>8. CASE Disconnect
  <2>1. /\ UNCHANGED <<live, bound, starting, polling>>
        /\ revoked' = revoked \cup ({tokens.grant, pending.grant} \ {0})
        /\ tokens' = NoTokens /\ pending' = NoPending /\ lease' = NoLease
        /\ status' = Plain("disconnected")
    BY <1>8 DEF Disconnect, StatusIs
  <2>2. revoked' \subseteq Grants
    <3>1. tokens.grant \in 0 .. MaxGrants /\ pending.grant \in 0 .. MaxGrants
      BY <1>0 DEF SettingsOK, Tokens, Pending
    <3>2. ASSUME NEW g \in 0 .. MaxGrants, g # 0 PROVE g \in Grants
      BY <3>2, CredentialAssumption DEF Grants
    <3>3. revoked \subseteq Grants
      BY <1>0 DEF SettingsOK
    <3> QED BY <2>1, <3>1, <3>2, <3>3
  <2>3. SettingsOK'
    BY <1>0, <2>1, <2>2, BlankValues, PlainStatus DEF SettingsOK
  <2>4. 0 \notin revoked' /\ tokens'.grant = 0 /\ pending'.grant = 0
    BY <2>1, <2>2, BlankValues
  <2>5. ASSUME NEW g \in Grants, NobodyKnows(g) PROVE NobodyKnows(g)'
    BY <2>1, <2>4, <2>5, BlankValues DEF NobodyKnows
  <2>6. GrantsInv'
    BY <1>0, <2>1, <2>4, <2>5 DEF GrantsInv
  <2> QED BY <1>2, <2>3, <2>6 DEF CredentialInv
<1> QED BY <1>3, <1>4, <1>5, <1>6, <1>7, <1>8

LEMMA WorldStep ==
    ASSUME CredentialInv, Age \/ LeaseExpires \/ ProviderRevokes
    PROVE  CredentialInv'
<1>0. SettingsOK /\ HistoryOK /\ GrantsInv /\ IsolatesInv
  BY DEF CredentialInv
<1>1. UNCHANGED <<tokens, status, pending, isolate, bound, starting, polling, revoked>>
  BY DEF Age, LeaseExpires, ProviderRevokes
<1>2. IsolatesInv' /\ ViewsOK'
  BY <1>0, <1>1, ViewsStep DEF IsolatesInv, CredentialNext
<1>3. lease' \in Lease
  BY <1>0 DEF Age, LeaseExpires, ProviderRevokes, SettingsOK, Lease
<1>4. HistoryOK'
  <2>1. CASE Age
    BY <1>0, <2>1 DEF Age, HistoryOK, SettingsOK
  <2>2. CASE LeaseExpires
    <3>1. /\ UNCHANGED aged /\ troubled' \in BOOLEAN
          /\ UNCHANGED upsets \/ \E kind \in CredentialFaults : Upset(kind)
      BY <1>0, <2>2 DEF LeaseExpires, Upset, Smooth, HistoryOK
    <3> QED BY <1>0, <3>1, UpsetsCounted
  <2>3. CASE ProviderRevokes
    <3>1. /\ UNCHANGED aged /\ troubled' \in BOOLEAN
          /\ \E kind \in CredentialFaults : Upset(kind)
      BY <1>0, <2>3 DEF ProviderRevokes, Upset, HistoryOK
    <3> QED BY <1>0, <3>1, UpsetsCounted
  <2> QED BY <2>1, <2>2, <2>3
<1>5. /\ live' \in [Grants -> -2 .. MaxRotations]
      /\ \A g \in Grants : live'[g] = -2 => live[g] = -2
  <2>1. Spent \in -2 .. MaxRotations /\ Spent # -2
    BY CredentialAssumption DEF Spent
  <2>2. UNCHANGED live \/ \E g \in Grants : live' = [live EXCEPT ![g] = Spent]
    BY DEF Age, LeaseExpires, ProviderRevokes
  <2> QED BY <1>0, <2>1, <2>2 DEF SettingsOK
<1>6. SettingsOK'
  BY <1>0, <1>1, <1>3, <1>5 DEF SettingsOK
<1>7. GrantsInv'
  BY <1>0, <1>1, <1>5, NoOtherGrant
<1> QED BY <1>2, <1>4, <1>6, <1>7 DEF CredentialInv

-----------------------------------------------------------------------------
LEMMA CredentialsStayInvariant == CredentialSpec => []CredentialInv
<1>1. CredentialInit => CredentialInv
  BY InitCredentialInv
<1>2. CredentialInv /\ [CredentialNext]_credentialVars => CredentialInv'
  <2> SUFFICES ASSUME CredentialInv, [CredentialNext]_credentialVars PROVE CredentialInv'
    OBVIOUS
  <2>1. CASE UNCHANGED credentialVars
    BY <2>1 DEF CredentialInv, credentialVars, SettingsOK, HistoryOK, ViewsOK, IsolatesInv,
                GrantsInv, NobodyKnows
  <2>2. CASE \E i \in Isolates : IsolateNext(i)
    BY <2>2, IsolatesStep, IsolateSettings, ViewsStep DEF CredentialInv, CredentialNext
  <2>3. CASE CredentialNext /\ ~\E i \in Isolates : IsolateNext(i)
    BY <2>3, OperatorStep, WorldStep DEF CredentialNext
  <2> QED BY <2>1, <2>2, <2>3
<1> QED BY <1>1, <1>2, PTL DEF CredentialSpec

(* In every run, with any number of isolates refreshing at once, neither   *)
(* commitRefreshedTokens nor an approved poll brings a grant back that     *)
(* disconnectOpenAiSubscription has taken away, and the settings stay well *)
(* formed.                                                                 *)
THEOREM DisconnectedGrantsStayAway ==
    CredentialSpec => [](CredentialTypeOK /\ DisconnectedStaysAway)
<1>1. CredentialInv => CredentialTypeOK /\ DisconnectedStaysAway
  BY DEF CredentialInv, SettingsOK, HistoryOK, ViewsOK, IsolatesInv, GrantsInv,
         CredentialTypeOK, DisconnectedStaysAway
<1> QED BY <1>1, CredentialsStayInvariant, PTL

-----------------------------------------------------------------------------
(* A reconnect is asked for because OpenAI refused the stored tokens.  That *)
(* a refusal is the grant's end takes the lease: while it is respected, one *)
(* isolate at a time refreshes the stored tokens, and OpenAI takes these,  *)
(* or the ones that isolate is about to store.  And it takes that tokens,  *)
(* once replaced, never come back: a rotation goes up, and an approved     *)
(* authorization brings a grant nobody has tokens of.                      *)

Working == {"acquire", "fetch", "store", "mark"}

Issued(t) == t.grant \in Grants /\ t.rotation >= 1
IsBundle(t) == t = NoTokens \/ Issued(t)

(* Tokens, wherever they are, are tokens OpenAI has issued.                *)
BundlesInv ==
    /\ IsBundle(tokens) /\ IsBundle(status.revision)
    /\ \A i \in Isolates :
          /\ IsBundle(isolate[i].read) /\ IsBundle(isolate[i].got) /\ IsBundle(bound[i])
          /\ isolate[i].pc \in Working \cup {"rejected", "count"}
                => isolate[i].read # NoTokens

(* Somebody has tokens of the grant.                                       *)
Known(g) ==
    \/ tokens.grant = g
    \/ \E i \in Isolates : isolate[i].pc \in Working /\ isolate[i].read.grant = g

ReadsInv ==
    \A i \in Isolates :
       /\ isolate[i].pc \in Working /\ isolate[i].read.grant = tokens.grant
             => isolate[i].read.rotation <= tokens.rotation
       /\ isolate[i].pc = "store" => isolate[i].got = Rotated(isolate[i].read)

NewInv ==
    /\ pending # NoPending => pending.grant \in Grants /\ ~Known(pending.grant)
    /\ pending.another =>
          live[pending.grant] \in {1, Spent} /\ polling.grant # pending.grant
    /\ starting # NotStarting =>
          /\ ~Known(starting.as.grant) /\ ~starting.as.another
          /\ live[starting.as.grant] = Unapproved
    /\ polling # NoPending =>
          /\ polling.grant \in Grants /\ ~Known(polling.grant)
          /\ live[polling.grant] \in {1, Spent}
    /\ \A g \in Grants : live[g] = -2 => ~Known(g)

Refreshes(i) == isolate[i].pc \in {"fetch", "store"} /\ isolate[i].read = tokens
Won(i) == isolate[i].pc = "store" /\ isolate[i].read = tokens
HeldBy(i) == [owner |-> i, expired |-> FALSE]

LeaseInv == ~troubled => \A i \in Isolates : Refreshes(i) => lease = HeldBy(i)

LiveInv ==
    (~troubled /\ tokens # NoTokens /\ live[tokens.grant] # Spent) =>
       /\ (\E i \in Isolates : Won(i)) => live[tokens.grant] = tokens.rotation + 1
       /\ (~\E i \in Isolates : Won(i)) => live[tokens.grant] = tokens.rotation

(* A refusal under way is the grant's end, or comes too late to matter.    *)
RefusalInv ==
    ~troubled => \A i \in Isolates :
       /\ isolate[i].pc = "mark" =>
             isolate[i].read # tokens \/ live[isolate[i].read.grant] = Spent
       /\ isolate[i].pc \in {"rejected", "count"} => live[isolate[i].read.grant] = Spent

(* The status speaks of the stored tokens, and a failure to be counted is  *)
(* one of those, unless the status has been rewritten.                     *)
StatusInv ==
    /\ tokens # NoTokens /\ status.revision # NoTokens => status.revision = tokens
    /\ \A i \in Isolates :
          isolate[i].pc = "count" /\ i \notin rewritten => SpeaksOf(i)

RefreshInv ==
    /\ BundlesInv /\ ReadsInv /\ NewInv /\ LeaseInv /\ LiveInv /\ RefusalInv /\ StatusInv
    /\ NoNeedlessReconnect
LEMMA RefreshStarts == CredentialInit => RefreshInv
<1> SUFFICES ASSUME CredentialInit PROVE RefreshInv
  OBVIOUS
<1>1. tokens \in {NoTokens, [grant |-> 1, rotation |-> 1]} /\ 1 \in Grants
  BY CredentialAssumption DEF CredentialInit, Grants
<1>2. /\ \A i \in Isolates : isolate[i] = Idle /\ bound[i] = NoTokens
      /\ Idle.pc = "idle" /\ Idle.read = NoTokens /\ Idle.got = NoTokens
  BY DEF CredentialInit, Idle
<1>3. status.revision = tokens /\ status.state \in {"connected", "disconnected"}
  BY <1>1 DEF CredentialInit, Plain
<1>4. BundlesInv
  BY <1>1, <1>2, <1>3 DEF BundlesInv, IsBundle, Issued, Working
<1>5. ReadsInv
  BY <1>2 DEF ReadsInv, Working
<1>6. NewInv
  <2>1. \A g \in Grants : Known(g) <=> tokens.grant = g
    BY <1>2 DEF Known, Working
  <2>2. ~NoPending.another
    BY DEF NoPending
  <2> QED BY <2>1, <2>2 DEF CredentialInit, NewInv
<1>7. LeaseInv /\ RefusalInv
  BY <1>2 DEF LeaseInv, Refreshes, RefusalInv
<1>8. LiveInv
  BY <1>1, <1>2 DEF CredentialInit, LiveInv, Won
<1>9. StatusInv /\ NoNeedlessReconnect
  BY <1>2, <1>3 DEF StatusInv, NoNeedlessReconnect
<1> QED BY <1>4, <1>5, <1>6, <1>7, <1>8, <1>9 DEF RefreshInv

(* An isolate goes on, and neither the stored tokens nor what OpenAI takes *)
(* of them change.                                                         *)
LEMMA TurnKeepsRefresh ==
    ASSUME CredentialInv, CredentialInv', RefreshInv, NEW i \in Isolates,
           UNCHANGED <<tokens, status, live, pending, starting, polling>>,
           troubled => troubled',
           \A j \in Isolates \ {i} : isolate'[j] = isolate[j] /\ bound'[j] = bound[j],
           bound'[i] \in {bound[i], NoTokens, isolate[i].got},
           IsBundle(isolate'[i].read), IsBundle(isolate'[i].got),
           isolate'[i].pc \in Working =>
              \/ isolate[i].pc \in Working /\ isolate'[i].read = isolate[i].read
              \/ /\ isolate'[i].pc = "acquire"
                 /\ isolate'[i].read = tokens /\ tokens # NoTokens,
           isolate'[i].pc \in {"rejected", "count"} =>
              \/ /\ isolate[i].pc \in {"rejected", "count"}
                 /\ isolate'[i].read = isolate[i].read
              \/ /\ isolate'[i].read # NoTokens
                 /\ troubled' \/ live[isolate'[i].read.grant] = Spent,
           isolate'[i].pc # "store", Won(i) => troubled',
           isolate'[i].pc = "fetch" => lease' = HeldBy(i),
           isolate'[i].pc = "mark" =>
              \/ isolate'[i].read # tokens \/ troubled'
              \/ live[isolate'[i].read.grant] = Spent,
           troubled' \/ \A j \in Isolates \ {i} : Refreshes(j) => lease' = lease,
           isolate'[i].pc = "count" => SpeaksOf(i)',
           \A j \in Isolates \ {i} : j \in rewritten' <=> j \in rewritten
    PROVE  RefreshInv'
<1> USE DEF RefreshInv
<1>1. BundlesInv'
  BY DEF BundlesInv, IsBundle, Issued, Working
<1>2. ReadsInv'
  BY DEF ReadsInv, Working, CredentialInv, SettingsOK, Tokens
<1>3. \A g \in Grants : Known(g)' => Known(g)
  BY DEF Known
<1>4. NewInv'
  BY <1>3, CredentialInv' DEF NewInv, CredentialInv, GrantsInv
<1>5. LeaseInv'
  BY DEF LeaseInv, Refreshes, Working
<1>6. LiveInv'
  <2>1. ~troubled' => \A j \in Isolates : Won(j)' <=> Won(j)
    BY DEF Won
  <2> QED BY <2>1 DEF LiveInv
<1>7. RefusalInv'
  BY DEF RefusalInv
<1>8. StatusInv'
  BY DEF StatusInv, SpeaksOf
<1>9. NoNeedlessReconnect'
  BY DEF NoNeedlessReconnect
<1> QED BY <1>1, <1>2, <1>4, <1>5, <1>6, <1>7, <1>8, <1>9
LEMMA IsolatesKeepTheirs ==
    ASSUME CredentialInv, NEW i \in Isolates, IsolateNext(i)
    PROVE  /\ \A j \in Isolates \ {i} : isolate'[j] = isolate[j] /\ bound'[j] = bound[j]
           /\ UNCHANGED <<starting, polling>> /\ (troubled => troubled')
           /\ \A p \in {"winner", "release", "bind", "mark", "rejected", "count"} : Goto(i, p) =>
                 /\ isolate'[i].pc = p /\ isolate'[i].read = isolate[i].read
                 /\ isolate'[i].got = isolate[i].got
           /\ Ends(i) => /\ isolate'[i].pc = "idle" /\ isolate'[i].read = NoTokens
                         /\ isolate'[i].got = NoTokens
<1>0. /\ isolate \in [Isolates -> Isolate] /\ bound \in [Isolates -> Tokens]
      /\ troubled \in BOOLEAN
  BY DEF CredentialInv, IsolatesInv, SettingsOK, HistoryOK
<1>1. \A j \in Isolates \ {i} : isolate'[j] = isolate[j] /\ bound'[j] = bound[j]
  BY <1>0 DEF IsolateNext, ReadSnapshot, Acquire, Fetch, Store, Mark, ReadRefreshWinner,
              Release, Bind, Rejected, ReadStatus, CountFailure, CrashIsolate, Goto, Ends
<1>2. UNCHANGED <<starting, polling>> /\ (troubled => troubled')
  <2>1. CASE Fetch(i) \/ Rejected(i) \/ CrashIsolate(i)
    BY <1>0, <2>1 DEF Fetch, Rejected, CrashIsolate, Smooth
  <2>2. CASE ~(Fetch(i) \/ Rejected(i) \/ CrashIsolate(i))
    BY <2>2 DEF IsolateNext, ReadSnapshot, Acquire, Store, Mark, ReadRefreshWinner,
                Release, Bind, ReadStatus, CountFailure
  <2> QED BY <2>1, <2>2
<1>3. \A p \in {"winner", "release", "bind", "mark", "rejected", "count"} : Goto(i, p) =>
         /\ isolate'[i].pc = p /\ isolate'[i].read = isolate[i].read
         /\ isolate'[i].got = isolate[i].got
  BY <1>0 DEF Goto, Isolate
<1>4. Ends(i) => /\ isolate'[i].pc = "idle" /\ isolate'[i].read = NoTokens
                 /\ isolate'[i].got = NoTokens
  BY <1>0 DEF Ends, Idle
<1> QED BY <1>1, <1>2, <1>3, <1>4

(* The turns of an isolate that change neither tokens nor grants.          *)
LEMMA TurnsKeepRefresh ==
    ASSUME CredentialInv, CredentialInv', RefreshInv, NEW i \in Isolates, IsolateNext(i),
           UNCHANGED <<tokens, status, live, pending>>,
           CountFailure(i) => i \in rewritten
    PROVE  RefreshInv'
<1> DEFINE c == isolate[i]
<1>0. /\ c \in Isolate /\ isolate \in [Isolates -> Isolate]
      /\ IsBundle(tokens) /\ IsBundle(NoTokens) /\ IsBundle(c.read) /\ IsBundle(c.got)
      /\ IsBundle(bound[i]) /\ bound \in [Isolates -> Tokens]
      /\ \A j \in Isolates : ~troubled /\ Refreshes(j) => lease = HeldBy(j)
      /\ c.pc \in Working \cup {"rejected", "count"} => c.read # NoTokens
  BY DEF CredentialInv, IsolatesInv, SettingsOK, RefreshInv, BundlesInv, IsBundle, LeaseInv
<1>1. /\ \A j \in Isolates \ {i} : isolate'[j] = isolate[j] /\ bound'[j] = bound[j]
      /\ UNCHANGED <<starting, polling>> /\ (troubled => troubled')
      /\ \A p \in {"winner", "release", "bind", "mark", "rejected", "count"} : Goto(i, p) =>
            /\ isolate'[i].pc = p /\ isolate'[i].read = isolate[i].read
            /\ isolate'[i].got = isolate[i].got
      /\ Ends(i) => /\ isolate'[i].pc = "idle" /\ isolate'[i].read = NoTokens
                    /\ isolate'[i].got = NoTokens
  BY IsolatesKeepTheirs
(* A turn that ends, or goes on to something else than a refresh.          *)
<1>2. ASSUME UNCHANGED rewritten, Ends(i) \/ Goto(i, "winner") \/ Goto(i, "release"),
             bound'[i] \in {bound[i], NoTokens, c.got},
             troubled' \/ lease' = lease \/ lease.owner = i, Won(i) => troubled'
      PROVE  RefreshInv'
  <2>1. isolate'[i].pc \in {"idle", "winner", "release"}
        /\ IsBundle(isolate'[i].read) /\ IsBundle(isolate'[i].got)
    BY <1>0, <1>1, <1>2
  <2>2. troubled' \/ \A j \in Isolates \ {i} : Refreshes(j) => lease' = lease
    BY <1>0, <1>1, <1>2 DEF HeldBy
  <2> QED BY <1>1, <1>2, <2>1, <2>2, TurnKeepsRefresh DEF Working
<1>3. CASE ReadSnapshot(i)
  <2>1. /\ UNCHANGED <<lease, bound, rewritten, troubled>> /\ tokens # NoTokens
        /\ \/ /\ isolate'[i].pc = "acquire" /\ isolate'[i].read = tokens
              /\ isolate'[i].got = NoTokens
           \/ /\ isolate'[i].pc = "bind" /\ isolate'[i].read = NoTokens
              /\ isolate'[i].got = tokens
        /\ c.pc = "idle"
    BY <1>0, <1>3 DEF ReadSnapshot, Idle, In
  <2> QED BY <1>0, <1>1, <2>1, TurnKeepsRefresh DEF Working, Won
<1>4. CASE Acquire(i)
  <2>1. UNCHANGED <<bound, rewritten, troubled>> /\ c.pc = "acquire"
    BY <1>4 DEF Acquire, In
  <2>2. CASE MayAcquire(i)
    <3>1. /\ lease' = HeldBy(i) /\ isolate'[i].pc = "fetch"
          /\ isolate'[i].read = c.read /\ isolate'[i].got = c.got
          /\ lease.expired
      BY <1>0, <1>4, <2>2 DEF Acquire, MayAcquire, HeldBy, Isolate
    <3>2. troubled' \/ \A j \in Isolates \ {i} : ~Refreshes(j)
      BY <1>0, <2>1, <3>1 DEF HeldBy
    <3> QED BY <1>0, <1>1, <2>1, <3>1, <3>2, TurnKeepsRefresh DEF Working, Won
  <2>3. CASE ~MayAcquire(i)
    BY <1>2, <1>4, <2>1, <2>3 DEF Acquire, Won
  <2> QED BY <2>2, <2>3
<1>5. CASE Fetch(i)
  <2>1. UNCHANGED <<lease, bound, rewritten>> /\ c.pc = "fetch"
    BY <1>5 DEF Fetch, In
  <2>2. CASE Goto(i, "release")
    BY <1>1, <1>2, <2>1, <2>2 DEF Won
  <2>3. CASE Goto(i, "mark") /\ live[c.read.grant] # c.read.rotation
    <3>1. isolate'[i].pc = "mark" /\ isolate'[i].read = c.read /\ isolate'[i].got = c.got
      BY <1>1, <2>3
    <3>2. ~troubled /\ c.read = tokens => live[tokens.grant] = Spent
      <4>1. SUFFICES ASSUME ~troubled, c.read = tokens, live[tokens.grant] # Spent
                     PROVE  FALSE
        OBVIOUS
      <4>2. tokens # NoTokens /\ live[tokens.grant] # tokens.rotation
        BY <1>0, <2>1, <2>3, <4>1 DEF Working
      <4>3. PICK j \in Isolates : Won(j)
        BY <4>1, <4>2 DEF RefreshInv, LiveInv
      <4>4. lease = HeldBy(i) /\ lease = HeldBy(j)
        BY <1>0, <2>1, <4>1, <4>3 DEF Refreshes, Won
      <4>5. i = j
        BY <4>4 DEF HeldBy
      <4> QED BY <2>1, <4>3, <4>5 DEF Won
    <3> QED BY <1>0, <1>1, <2>1, <3>1, <3>2, TurnKeepsRefresh DEF Working, Won
  <2>4. CASE Goto(i, "mark") /\ troubled'
    <3>1. isolate'[i].pc = "mark" /\ isolate'[i].read = c.read /\ isolate'[i].got = c.got
      BY <1>1, <2>4
    <3> QED BY <1>0, <1>1, <2>1, <2>4, <3>1, TurnKeepsRefresh DEF Working, Won
  <2>5. c.read.rotation + 1 # c.read.rotation /\ live \in [Grants -> -2 .. MaxRotations]
        /\ c.read.grant \in Grants
    BY <1>0, <2>1 DEF CredentialInv, SettingsOK, Isolate, Tokens, IsBundle, Issued, Working
  <2>6. live' # [live EXCEPT ![c.read.grant] = c.read.rotation + 1]
        \/ live[c.read.grant] # c.read.rotation
    BY <2>5
  <2> QED BY <1>5, <2>2, <2>3, <2>4, <2>6 DEF Fetch
<1>6. CASE Store(i) \/ Mark(i)
  <2>1. c.pc \in {"store", "mark"} /\ UNCHANGED troubled
    BY <1>6 DEF Store, Mark, In
  <2>2. CASE tokens # c.read
    <3>1. Goto(i, "winner") /\ UNCHANGED <<lease, bound, rewritten>> /\ ~Won(i)
      BY <1>6, <2>2 DEF Store, StillRead, Mark, Won
    <3> QED BY <1>1, <1>2, <3>1
  <2>3. CASE tokens = c.read
    <3>1. tokens # NoTokens /\ tokens \in Tokens
      BY <1>0, <2>1, <2>3 DEF Working, CredentialInv, SettingsOK
    <3>2. tokens' \in {c.got, NoTokens} /\ (tokens' # NoTokens => c.pc = "store")
      BY <1>6, <2>3 DEF Store, StillRead, Mark, In
    <3>3. tokens' # NoTokens => tokens' = Rotated(tokens)
      BY <2>3, <3>2 DEF RefreshInv, ReadsInv
    <3>4. Rotated(tokens) # tokens
      BY <3>1 DEF Rotated, Tokens
    <3> QED BY <3>1, <3>3, <3>4
  <2> QED BY <2>2, <2>3
<1>7. CASE ReadRefreshWinner(i)
  <2>1. /\ UNCHANGED <<lease, bound, rewritten, troubled>>
        /\ isolate'[i].pc = "release" /\ isolate'[i].read = c.read
        /\ isolate'[i].got = tokens /\ c.pc = "winner"
    BY <1>0, <1>7 DEF ReadRefreshWinner, In, Isolate
  <2> QED BY <1>0, <1>1, <2>1, TurnKeepsRefresh DEF Working, Won
<1>8. CASE Release(i)
  <2>1. /\ UNCHANGED <<bound, rewritten, troubled>> /\ c.pc = "release"
        /\ lease' = lease \/ lease.owner = i
    BY <1>8 DEF Release, In
  <2>2. CASE Ends(i)
    BY <1>2, <2>1, <2>2 DEF Won
  <2>3. CASE Goto(i, "bind")
    <3>1. isolate'[i].pc = "bind" /\ isolate'[i].read = c.read /\ isolate'[i].got = c.got
      BY <1>1, <2>3
    <3>2. troubled' \/ \A j \in Isolates \ {i} : Refreshes(j) => lease' = lease
      BY <1>0, <2>1 DEF HeldBy
    <3> QED BY <1>0, <1>1, <2>1, <3>1, <3>2, TurnKeepsRefresh DEF Working, Won
  <2> QED BY <1>8, <2>2, <2>3 DEF Release
<1>9. CASE Bind(i)
  <2>1. /\ UNCHANGED <<lease, rewritten, troubled>> /\ c.pc = "bind" /\ Ends(i)
        /\ bound'[i] \in {bound[i], c.got}
    BY <1>0, <1>9 DEF Bind, In
  <2> QED BY <1>2, <2>1 DEF Won
<1>10. CASE Rejected(i)
  <2>1. /\ UNCHANGED <<lease, bound, rewritten>> /\ c.pc = "idle"
        /\ isolate'[i].pc = "rejected" /\ isolate'[i].read = bound[i]
        /\ isolate'[i].got = c.got /\ bound[i] # NoTokens
        /\ troubled' \/ live[bound[i].grant] = Spent
    BY <1>0, <1>10 DEF Rejected, In, Isolate
  <2> QED BY <1>0, <1>1, <2>1, TurnKeepsRefresh DEF Working, Won
<1>11. CASE ReadStatus(i)
  <2>1. UNCHANGED <<lease, bound, rewritten, troubled>> /\ c.pc = "rejected"
    BY <1>11 DEF ReadStatus, In
  <2>2. CASE Ends(i)
    BY <1>2, <2>1, <2>2 DEF Won
  <2>3. CASE SpeaksOf(i) /\ Goto(i, "count")
    <3>1. isolate'[i].pc = "count" /\ isolate'[i].read = c.read /\ isolate'[i].got = c.got
      BY <1>1, <2>3
    <3>2. SpeaksOf(i)'
      BY <2>3, <3>1 DEF SpeaksOf
    <3> QED BY <1>0, <1>1, <2>1, <3>1, <3>2, TurnKeepsRefresh DEF Working, Won
  <2> QED BY <1>11, <2>2, <2>3 DEF ReadStatus
<1>12. CASE CountFailure(i) /\ i \in rewritten
  <2>1. /\ UNCHANGED <<lease, bound, troubled>> /\ c.pc = "count"
        /\ rewritten' = rewritten \ {i} /\ Goto(i, "rejected")
    BY <1>12 DEF CountFailure, In
  <2>2. isolate'[i].pc = "rejected" /\ isolate'[i].read = c.read /\ isolate'[i].got = c.got
    BY <1>1, <2>1
  <2> QED BY <1>0, <1>1, <2>1, <2>2, TurnKeepsRefresh DEF Working, Won
<1>13. CASE CrashIsolate(i)
  <2>1. /\ UNCHANGED lease /\ rewritten' = rewritten \ {i} /\ Ends(i)
        /\ bound'[i] = NoTokens /\ (Won(i) => troubled')
    BY <1>0, <1>13 DEF CrashIsolate, In, Won
  <2>2. isolate'[i].pc = "idle" /\ isolate'[i].read = NoTokens /\ isolate'[i].got = NoTokens
    BY <1>1, <2>1
  <2> QED BY <1>0, <1>1, <2>1, <2>2, TurnKeepsRefresh DEF Working
<1> QED
  BY <1>3, <1>4, <1>5, <1>6, <1>7, <1>8, <1>9, <1>10, <1>11, <1>12, <1>13
     DEF IsolateNext

(* Authorizations stay unknown while nobody gets tokens of another grant.  *)
LEMMA NewFollows ==
    ASSUME CredentialInv, CredentialInv', NewInv,
           pending' \in {pending, NoPending}, polling' \in {polling, NoPending},
           UNCHANGED starting,
           \A g \in Grants : Known(g)' => Known(g),
           \A g \in Grants : \/ live'[g] = live[g]
                             \/ Known(g) /\ live'[g] # -2
                             \/ live[g] > 0 /\ live'[g] = Spent
    PROVE  NewInv'
<1>1. live \in [Grants -> -2 .. MaxRotations] /\ Spent = 0 /\ Unapproved = -1
      /\ NoPending.another = FALSE /\ NoPending.grant = 0 /\ 0 \notin Grants
      /\ (starting # NotStarting => starting.as.grant \in Grants)
  BY BlankValues DEF CredentialInv, SettingsOK, GrantsInv, Spent, Unapproved, NoPending
<1>2. pending' # NoPending => pending'.grant \in Grants /\ ~Known(pending.grant)'
  BY DEF NewInv
<1>3. pending'.another =>
        live'[pending'.grant] \in {1, Spent} /\ polling'.grant # pending'.grant
  <2>1. SUFFICES ASSUME pending'.another
                 PROVE  live'[pending'.grant] \in {1, Spent}
                        /\ polling'.grant # pending'.grant
    OBVIOUS
  <2>2. pending' = pending /\ pending # NoPending
    BY <1>1, <2>1
  <2> QED BY <1>1, <2>1, <2>2 DEF NewInv
<1>4. starting # NotStarting =>
        /\ ~Known(starting.as.grant)' /\ ~starting.as.another
        /\ live'[starting.as.grant] = Unapproved
  BY <1>1 DEF NewInv
<1>5. polling' # NoPending =>
        /\ polling'.grant \in Grants /\ ~Known(polling.grant)'
        /\ live'[polling'.grant] \in {1, Spent}
  BY <1>1 DEF NewInv
<1>6. \A g \in Grants : live'[g] = -2 => ~Known(g)'
  BY <1>1 DEF NewInv
<1> QED BY <1>2, <1>3, <1>4, <1>5, <1>6 DEF NewInv

(* Once the stored tokens are replaced, or gone, nobody's refresh is of     *)
(* what is stored.                                                         *)
LEMMA SupersededForGood ==
    ASSUME CredentialInv, CredentialInv', RefreshInv,
           \A j \in Isolates : isolate'[j].pc \in Working \cup {"rejected", "count"} =>
                                  isolate'[j] = isolate[j],
           troubled => troubled',
           \A g \in Grants : live[g] = Spent => live'[g] = Spent,
           \/ tokens' = NoTokens
           \/ tokens # NoTokens /\ tokens' = Rotated(tokens)
           \/ Issued(tokens') /\ ~Known(tokens'.grant),
           tokens' # NoTokens => troubled' \/ live'[tokens'.grant] \in {Spent, tokens'.rotation}
    PROVE  ReadsInv' /\ LeaseInv' /\ LiveInv' /\ RefusalInv'
<1>1. \A j \in Isolates : isolate[j].pc \in Working \cup {"rejected", "count"} =>
        isolate[j].read \in Tokens /\ Issued(isolate[j].read)
  BY DEF RefreshInv, BundlesInv, IsBundle, CredentialInv, IsolatesInv, Isolate
<1>2. tokens \in Tokens /\ (tokens # NoTokens => Issued(tokens)) /\ ~Issued(NoTokens)
  BY BlankValues DEF RefreshInv, BundlesInv, IsBundle, CredentialInv, SettingsOK, Issued
<1>3. tokens # NoTokens =>
        Rotated(tokens).grant = tokens.grant /\ Rotated(tokens).rotation = tokens.rotation + 1
  BY <1>2 DEF Rotated, Tokens
<1>4. \A j \in Isolates : isolate'[j].pc \in Working =>
        /\ isolate'[j] = isolate[j] /\ isolate[j].read # tokens'
        /\ isolate[j].read.grant = tokens'.grant =>
              isolate[j].read.rotation <= tokens'.rotation
  <2>1. SUFFICES ASSUME NEW j \in Isolates, isolate'[j].pc \in Working
                 PROVE  /\ isolate[j].read # tokens'
                        /\ isolate[j].read.grant = tokens'.grant =>
                              isolate[j].read.rotation <= tokens'.rotation
    OBVIOUS
  <2>2. /\ isolate[j].pc \in Working /\ isolate[j].read \in Tokens
        /\ Issued(isolate[j].read)
    BY <1>1, <2>1
  <2>3. CASE tokens' = NoTokens
    BY <1>2, <2>2, <2>3, BlankValues DEF Issued
  <2>4. CASE tokens # NoTokens /\ tokens' = Rotated(tokens)
    <3>1. isolate[j].read.grant = tokens.grant =>
            isolate[j].read.rotation <= tokens.rotation
      BY <2>2 DEF RefreshInv, ReadsInv
    <3> QED BY <1>2, <1>3, <2>2, <2>4, <3>1 DEF Tokens
  <2>5. CASE Issued(tokens') /\ ~Known(tokens'.grant)
    BY <2>2, <2>5 DEF Known
  <2> QED BY <2>3, <2>4, <2>5
<1>5. ReadsInv'
  BY <1>4 DEF RefreshInv, ReadsInv, Working
<1>6. \A j \in Isolates : ~Refreshes(j)' /\ ~Won(j)'
  BY <1>4 DEF Refreshes, Won, Working
<1>7. LeaseInv' /\ LiveInv'
  BY <1>6 DEF LeaseInv, LiveInv
<1>8. RefusalInv'
  BY <1>1, <1>4 DEF RefreshInv, RefusalInv, Issued, Working
<1> QED BY <1>5, <1>7, <1>8

(* OpenAI rotates the tokens an isolate refreshes.                         *)
LEMMA RotationKeepsRefresh ==
    ASSUME CredentialInv, CredentialInv', RefreshInv, NEW i \in Isolates, Fetch(i),
           ~UNCHANGED live
    PROVE  RefreshInv'
<1> USE DEF RefreshInv
<1> DEFINE t == isolate[i].read
<1>1. /\ isolate[i].pc = "fetch" /\ live[t.grant] = t.rotation
      /\ live' = [live EXCEPT ![t.grant] = t.rotation + 1]
      /\ UNCHANGED <<tokens, status, rewritten, lease, pending, bound, starting, polling>>
  BY DEF Fetch, In
<1>2. /\ t \in Tokens /\ Issued(t) /\ isolate[i] \in Isolate
      /\ isolate \in [Isolates -> Isolate] /\ live \in [Grants -> -2 .. MaxRotations]
  BY <1>1 DEF BundlesInv, IsBundle, Working, CredentialInv, SettingsOK, IsolatesInv, Isolate
<1>3. /\ live'[t.grant] = t.rotation + 1 /\ live[t.grant] # Spent /\ t.rotation + 1 # -2
      /\ \A g \in Grants \ {t.grant} : live'[g] = live[g]
  BY <1>1, <1>2 DEF Issued, Tokens, Spent
<1>4. \A j \in Isolates \ {i} : isolate'[j] = isolate[j]
  BY IsolatesKeepTheirs DEF IsolateNext
<1>5. /\ isolate'[i].read = t /\ (troubled => troubled')
      /\ \/ isolate'[i].pc = "store" /\ isolate'[i].got = Rotated(t)
         \/ /\ isolate'[i].pc \in {"mark", "release"} /\ troubled'
            /\ isolate'[i].got = isolate[i].got
  <2>1. CASE isolate' = [isolate EXCEPT ![i].got = Rotated(t), ![i].pc = "store"] /\ Smooth
    BY <1>2, <2>1 DEF Isolate, Smooth
  <2>2. CASE (Goto(i, "mark") \/ Goto(i, "release")) /\ troubled'
    BY <1>2, <2>2 DEF Goto, Isolate
  <2> QED BY <1>1, <2>1, <2>2 DEF Fetch
<1>6. BundlesInv'
  <2>1. Issued(Rotated(t))
    BY <1>2 DEF Issued, Rotated, Tokens
  <2> QED BY <1>1, <1>2, <1>4, <1>5, <2>1 DEF BundlesInv, IsBundle, Issued, Working
<1>7. ReadsInv'
  BY <1>1, <1>4, <1>5 DEF ReadsInv, Working
<1>8. \A g \in Grants : Known(g)' => Known(g)
  BY <1>1, <1>4, <1>5 DEF Known, Working
<1>9. NewInv'
  <2>1. Known(t.grant)
    BY <1>1 DEF Known, Working
  <2> QED BY <1>1, <1>3, <1>8, <2>1, NewFollows
<1>10. LeaseInv'
  BY <1>1, <1>4, <1>5 DEF LeaseInv, Refreshes
<1>11. LiveInv'
  <2>1. SUFFICES ASSUME ~troubled', tokens # NoTokens, live'[tokens.grant] # Spent
                 PROVE  /\ (\E j \in Isolates : Won(j)') => live'[tokens.grant] = tokens.rotation + 1
                        /\ (~\E j \in Isolates : Won(j)') => live'[tokens.grant] = tokens.rotation
    BY <1>1 DEF LiveInv
  <2>2. ~troubled /\ isolate'[i].pc = "store"
    BY <1>5, <2>1
  <2>3. tokens \in Tokens /\ Issued(tokens)
    BY <2>1 DEF BundlesInv, IsBundle, CredentialInv, SettingsOK
  <2>4. CASE t = tokens
    <3>1. Won(i)'
      BY <1>1, <1>5, <2>2, <2>4 DEF Won
    <3> QED BY <1>3, <2>4, <3>1
  <2>5. CASE t # tokens /\ t.grant # tokens.grant
    <3>1. live'[tokens.grant] = live[tokens.grant]
      BY <1>3, <2>3, <2>5 DEF Issued
    <3>2. \A j \in Isolates : Won(j)' <=> Won(j)
      BY <1>1, <1>4, <1>5, <2>5 DEF Won
    <3> QED BY <2>1, <2>2, <3>1, <3>2 DEF LiveInv
  <2>6. CASE t # tokens /\ t.grant = tokens.grant
    <3>1. t.rotation < tokens.rotation
      BY <1>1, <1>2, <2>3, <2>6 DEF ReadsInv, Tokens, Working
    <3>2. live[tokens.grant] \in {tokens.rotation, tokens.rotation + 1}
      BY <1>3, <2>1, <2>2, <2>6 DEF LiveInv
    <3> QED BY <1>1, <1>2, <2>3, <2>6, <3>1, <3>2 DEF Tokens
  <2> QED BY <2>4, <2>5, <2>6
<1>12. RefusalInv'
  <2>1. \A g \in Grants : live[g] = Spent => live'[g] = Spent
    BY <1>3
  <2>2. \A j \in Isolates \ {i} : isolate[j].pc \in {"mark", "rejected", "count"} =>
           isolate[j].read.grant \in Grants
    BY DEF BundlesInv, IsBundle, Issued, Working
  <2> QED BY <1>1, <1>4, <1>5, <2>1, <2>2 DEF RefusalInv
<1>13. StatusInv'
  BY <1>1, <1>4, <1>5 DEF StatusInv, SpeaksOf
<1>14. NoNeedlessReconnect'
  BY <1>1, <1>3, <1>5 DEF NoNeedlessReconnect, BundlesInv, IsBundle, Issued
<1> QED BY <1>6, <1>7, <1>9, <1>10, <1>11, <1>12, <1>13, <1>14

(* A status written anew speaks of the stored tokens, and a failure that   *)
(* is being counted finds it rewritten.                                    *)
LEMMA StatusFollows ==
    ASSUME \A j \in Isolates : isolate'[j].pc = "count" => j \in rewritten',
           tokens' = NoTokens \/ status'.revision \in {NoTokens, tokens'},
           status'.state = "reconnect_required" /\ status'.revision # NoTokens =>
               troubled' \/ live'[status'.revision.grant] = Spent
    PROVE  StatusInv' /\ NoNeedlessReconnect'
BY DEF StatusInv, NoNeedlessReconnect

(* An isolate stores what it won, or a refusal takes the tokens away.      *)
LEMMA SettlingKeepsRefresh ==
    ASSUME CredentialInv, CredentialInv', RefreshInv, NEW i \in Isolates,
           \/ Store(i) /\ tokens = isolate[i].read
           \/ Mark(i) /\ tokens = isolate[i].read
           \/ CountFailure(i) /\ i \notin rewritten
    PROVE  RefreshInv'
<1> USE DEF RefreshInv
<1> DEFINE c == isolate[i]
<1>0. /\ c \in Isolate /\ isolate \in [Isolates -> Isolate]
      /\ bound \in [Isolates -> Tokens] /\ status \in Status /\ tokens \in Tokens
      /\ IsBundle(tokens) /\ IsBundle(NoTokens) /\ IsBundle(c.read) /\ IsBundle(c.got)
      /\ IsBundle(status.revision)
      /\ c.pc \in Working \cup {"rejected", "count"} => c.read # NoTokens
      /\ live \in [Grants -> -2 .. MaxRotations]
  BY DEF CredentialInv, IsolatesInv, SettingsOK, BundlesInv, IsBundle
<1>1. /\ \A j \in Isolates \ {i} : isolate'[j] = isolate[j] /\ bound'[j] = bound[j]
      /\ UNCHANGED <<live, starting, polling, troubled>>
      /\ pending' \in {pending, NoPending}
      /\ c.pc \in {"store", "mark", "count"} /\ c.read # NoTokens
  BY <1>0, IsolatesKeepTheirs
     DEF IsolateNext, Store, Mark, CountFailure, In, CommitTokens, Working
<1>2. /\ bound'[i] \in {bound[i], NoTokens}
      /\ isolate'[i].pc \in {"idle", "release"}
      /\ isolate'[i].read \in {c.read, NoTokens} /\ isolate'[i].got \in {c.got, NoTokens}
  BY <1>0 DEF Store, StillRead, Mark, CountFailure, Goto, Ends, Idle, Isolate
<1>3. \A j \in Isolates : isolate'[j].pc = "count" => j \in rewritten'
  BY <1>1, <1>2 DEF Store, StillRead, Mark, CountFailure, StatusIs, In
<1>4. ASSUME IsBundle(tokens'), IsBundle(status'.revision)
      PROVE  BundlesInv'
  BY <1>1, <1>2, <1>4 DEF BundlesInv, IsBundle, Issued, Working
<1>5. ASSUME tokens'.grant \in {tokens.grant, 0}
      PROVE  NewInv'
  <2>1. \A g \in Grants : Known(g)' => Known(g)
    BY <1>1, <1>2, <1>5, BlankValues DEF Known, Working
  <2> QED BY <1>1, <2>1, NewFollows
<1>6. ASSUME tokens' = NoTokens, status'.revision = c.read,
             troubled \/ live[c.read.grant] = Spent
      PROVE  RefreshInv'
  <2>1. ReadsInv' /\ LeaseInv' /\ LiveInv' /\ RefusalInv'
    BY <1>1, <1>2, <1>6, SupersededForGood DEF Working
  <2>2. StatusInv' /\ NoNeedlessReconnect'
    BY <1>1, <1>3, <1>6, StatusFollows
  <2> QED BY <1>0, <1>4, <1>5, <1>6, <2>1, <2>2, BlankValues
<1>7. [Plain("reconnect_required") EXCEPT !.revision = c.read].revision = c.read
      /\ [Plain("connected") EXCEPT !.revision = c.got].revision = c.got
      /\ [Plain("connected") EXCEPT !.revision = c.got].state = "connected"
  BY DEF Plain
<1>8. CASE Store(i) /\ tokens = c.read
  <2>1. /\ c.pc = "store" /\ tokens' = c.got
        /\ status' = [Plain("connected") EXCEPT !.revision = c.got]
    BY <1>8 DEF Store, StillRead, In, StatusIs
  <2>2. /\ tokens' = Rotated(tokens) /\ tokens # NoTokens /\ Won(i)
        /\ tokens'.grant = tokens.grant /\ tokens'.rotation = tokens.rotation + 1
    BY <1>0, <1>1, <1>8, <2>1 DEF ReadsInv, Rotated, Tokens, Won
  <2>3. troubled' \/ live'[tokens'.grant] \in {Spent, tokens'.rotation}
    BY <1>1, <2>2 DEF LiveInv
  <2>4. ReadsInv' /\ LeaseInv' /\ LiveInv' /\ RefusalInv'
    BY <1>1, <1>2, <2>2, <2>3, SupersededForGood DEF Working
  <2>5. StatusInv' /\ NoNeedlessReconnect'
    BY <1>3, <1>7, <2>1, StatusFollows
  <2> QED BY <1>0, <1>4, <1>5, <1>7, <2>1, <2>2, <2>4, <2>5
<1>9. CASE Mark(i) /\ tokens = c.read
  <2>1. /\ c.pc = "mark" /\ tokens' = NoTokens /\ status'.revision = c.read
    BY <1>7, <1>9 DEF Mark, In, StatusIs
  <2>2. troubled \/ live[c.read.grant] = Spent
    BY <1>9, <2>1 DEF RefusalInv
  <2> QED BY <1>6, <2>1, <2>2
<1>10. CASE CountFailure(i) /\ i \notin rewritten
  <2>1. c.pc = "count" /\ SpeaksOf(i) /\ (troubled \/ live[c.read.grant] = Spent)
    BY <1>10 DEF CountFailure, In, StatusInv, RefusalInv
  <2>2. CASE IsLastFailure(status)
    BY <1>6, <1>7, <1>10, <2>1, <2>2 DEF CountFailure
  <2>3. CASE ~IsLastFailure(status)
    <3>1. /\ status' = [status EXCEPT !.failures = @ + 1, !.revision = c.read]
          /\ UNCHANGED <<tokens, lease, pending, bound>> /\ Ends(i)
      BY <1>10, <2>3 DEF CountFailure
    <3>2. status'.revision = c.read /\ status'.state = status.state
      BY <1>0, <3>1 DEF Status
    <3>3. tokens # NoTokens => c.read = tokens
      BY <2>1 DEF SpeaksOf, StatusInv
    <3>4. BundlesInv' /\ NewInv'
      BY <1>0, <1>4, <1>5, <3>1, <3>2
    <3>5. isolate'[i].pc = "idle"
      BY <1>0, <3>1 DEF Ends, Idle
    <3>6. ReadsInv'
      BY <1>1, <3>1, <3>5 DEF ReadsInv, Working
    <3>7. LeaseInv'
      BY <1>1, <3>1, <3>5 DEF LeaseInv, Refreshes
    <3>8. LiveInv'
      <4>1. \A j \in Isolates : Won(j)' <=> Won(j)
        BY <1>1, <2>1, <3>1, <3>5 DEF Won
      <4> QED BY <1>1, <3>1, <4>1 DEF LiveInv
    <3>9. RefusalInv'
      BY <1>1, <3>1, <3>5 DEF RefusalInv
    <3>10. StatusInv' /\ NoNeedlessReconnect'
      BY <1>1, <1>3, <2>1, <3>1, <3>2, <3>3, StatusFollows
    <3> QED BY <3>4, <3>6, <3>7, <3>8, <3>9, <3>10
  <2> QED BY <2>2, <2>3
<1> QED BY <1>8, <1>9, <1>10

LEMMA IsolateKeepsRefresh ==
    ASSUME CredentialInv, CredentialInv', RefreshInv, NEW i \in Isolates, IsolateNext(i)
    PROVE  RefreshInv'
<1>1. CASE Fetch(i) /\ ~UNCHANGED live
  BY <1>1, RotationKeepsRefresh
<1>2. CASE \/ Store(i) /\ tokens = isolate[i].read
           \/ Mark(i) /\ tokens = isolate[i].read
           \/ CountFailure(i) /\ i \notin rewritten
  BY <1>2, SettlingKeepsRefresh
<1>3. CASE /\ UNCHANGED <<tokens, status, live, pending>>
           /\ CountFailure(i) => i \in rewritten
  BY <1>3, TurnsKeepRefresh
<1>4. \/ Fetch(i) /\ ~UNCHANGED live
      \/ Store(i) /\ tokens = isolate[i].read
      \/ Mark(i) /\ tokens = isolate[i].read
      \/ CountFailure(i) /\ i \notin rewritten
      \/ /\ UNCHANGED <<tokens, status, live, pending>>
         /\ CountFailure(i) => i \in rewritten
  <2>1. CASE Store(i) \/ Mark(i) \/ CountFailure(i)
    <3>1. CountFailure(i) => isolate[i].pc = "count"
      BY DEF CountFailure, In
    <3>2. Store(i) \/ Mark(i) => isolate[i].pc \in {"store", "mark"}
      BY DEF Store, Mark, In
    <3> QED BY <2>1, <3>1, <3>2 DEF Store, StillRead, Mark, CountFailure
  <2>2. CASE Fetch(i)
    <3>1. UNCHANGED <<tokens, status, pending>> /\ isolate[i].pc = "fetch"
      BY <2>2 DEF Fetch, In
    <3> QED BY <2>2, <3>1 DEF CountFailure, In
  <2>3. CASE ~(Store(i) \/ Mark(i) \/ CountFailure(i) \/ Fetch(i))
    BY <2>3 DEF IsolateNext, ReadSnapshot, Acquire, ReadRefreshWinner, Release, Bind,
                Rejected, ReadStatus, CrashIsolate
  <2> QED BY <2>1, <2>2, <2>3
<1> QED BY <1>1, <1>2, <1>3, <1>4

(* The isolates stand still, and so do the stored tokens.                  *)
LEMMA StandsKeepRefresh ==
    ASSUME CredentialInv, RefreshInv, UNCHANGED <<tokens, isolate, bound>>, NewInv',
           troubled => troubled',
           \A g \in Grants : Known(g) => live'[g] \in {live[g], Spent},
           \A g \in Grants : live[g] = Spent => live'[g] = Spent,
           troubled' \/ lease' = lease \/ (\A j \in Isolates : ~Refreshes(j)),
           \/ UNCHANGED <<status, rewritten>>
           \/ /\ status'.revision = NoTokens
              /\ \A j \in Isolates : isolate[j].pc = "count" => j \in rewritten'
    PROVE  RefreshInv'
<1> USE DEF RefreshInv
<1>1. BundlesInv'
  BY DEF BundlesInv, IsBundle, Issued, Working
<1>2. ReadsInv' /\ LeaseInv'
  BY DEF ReadsInv, LeaseInv, Refreshes, Working
<1>3. LiveInv'
  <2>1. tokens # NoTokens => tokens.grant \in Grants /\ Known(tokens.grant)
    BY DEF BundlesInv, IsBundle, Issued, Known
  <2>2. \A j \in Isolates : Won(j)' <=> Won(j)
    BY DEF Won
  <2> QED BY <2>1, <2>2 DEF LiveInv
<1>4. RefusalInv'
  <2>1. \A j \in Isolates : isolate[j].pc \in {"mark", "rejected", "count"} =>
           isolate[j].read.grant \in Grants
    BY DEF BundlesInv, IsBundle, Issued, Working
  <2> QED BY <2>1 DEF RefusalInv
<1>5. CASE UNCHANGED <<status, rewritten>>
  <2>1. StatusInv'
    BY <1>5 DEF StatusInv, SpeaksOf
  <2>2. NoNeedlessReconnect'
    BY <1>5 DEF NoNeedlessReconnect, BundlesInv, IsBundle, Issued
  <2> QED BY <1>1, <1>2, <1>3, <1>4, <2>1, <2>2
<1>6. CASE /\ status'.revision = NoTokens
           /\ \A j \in Isolates : isolate[j].pc = "count" => j \in rewritten'
  <2>1. StatusInv' /\ NoNeedlessReconnect'
    BY <1>6, StatusFollows
  <2> QED BY <1>1, <1>2, <1>3, <1>4, <2>1
<1> QED BY <1>5, <1>6

(* An approved authorization brings tokens of a grant nobody knows.        *)
LEMMA CommitKeepsRefresh ==
    ASSUME CredentialInv, CredentialInv', RefreshInv, CommitTokens(pending.grant),
           pending # NoPending, live[pending.grant] \in {1, Spent},
           polling' = NoPending \/ (polling' = polling /\ polling.grant # pending.grant),
           UNCHANGED <<aged, live, isolate, bound, starting, troubled>>
    PROVE  RefreshInv'
<1> USE DEF RefreshInv
<1>1. /\ tokens' = [grant |-> pending.grant, rotation |-> 1]
      /\ status' = [Plain("connected") EXCEPT !.revision = tokens']
      /\ rewritten' = {j \in Isolates : In(j, "count")} /\ pending' = NoPending
  BY DEF CommitTokens, StatusIs
<1>2. status'.revision = tokens' /\ status'.state = "connected"
  BY <1>1 DEF Plain
<1>3. /\ tokens'.grant = pending.grant /\ tokens'.rotation = 1 /\ Issued(tokens')
      /\ ~Known(tokens'.grant)
  BY <1>1 DEF NewInv, Issued
<1>4. BundlesInv'
  BY <1>2, <1>3 DEF BundlesInv, IsBundle, Issued, Working
<1>5. \A g \in Grants : Known(g)' => Known(g) \/ g = pending.grant
  BY <1>3 DEF Known
<1>6. NewInv'
  <2>1. /\ live[pending.grant] \notin {-2, Unapproved} /\ ~NoPending.another
        /\ (starting # NotStarting =>
              starting.as.grant \in Grants /\ starting.as.grant # pending.grant)
    BY DEF Spent, Unapproved, NoPending, CredentialInv, GrantsInv, NobodyKnows
  <2> QED BY <1>1, <1>5, <2>1 DEF NewInv
<1>7. ReadsInv' /\ LeaseInv' /\ LiveInv' /\ RefusalInv'
  BY <1>3, SupersededForGood
<1>8. StatusInv' /\ NoNeedlessReconnect'
  BY <1>1, <1>2, StatusFollows DEF In
<1> QED BY <1>4, <1>6, <1>7, <1>8

LEMMA OperatorKeepsRefresh ==
    ASSUME CredentialInv, CredentialInv', RefreshInv,
           \/ StartAuthorization \/ StoreAuthorization \/ Poll \/ FinishPoll
           \/ ConfirmAccount \/ EndAuthorization \/ Disconnect
    PROVE  RefreshInv'
<1>1. UNCHANGED <<aged, isolate, bound, troubled>>
  BY DEF StartAuthorization, StoreAuthorization, Poll, FinishPoll, ConfirmAccount,
         EndAuthorization, Disconnect
<1>2. /\ live \in [Grants -> -2 .. MaxRotations] /\ NewInv
      /\ pending \in Pending /\ polling \in Pending
      /\ starting # NotStarting =>
            starting.as.grant \in Grants /\ starting.as.grant # pending.grant
      /\ NoPending.another = FALSE /\ NoPending.grant = 0 /\ 0 \notin Grants
      /\ Spent = 0 /\ Unapproved = -1
  BY BlankValues DEF CredentialInv, SettingsOK, GrantsInv, NobodyKnows, RefreshInv,
                     NoPending, Spent, Unapproved
<1>3. \A s : Plain(s).revision = NoTokens
  BY DEF Plain
<1>4. CASE StartAuthorization
  <2>1. PICK g \in Grants :
            /\ Unasked(g)
            /\ live' = [live EXCEPT ![g] = Unapproved]
            /\ starting' = [over |-> pending, as |-> [NoPending EXCEPT
                   !.grant = g,
                   !.previous = IF pending = NoPending THEN status.state
                                ELSE pending.previous]]
    BY <1>4 DEF StartAuthorization
  <2>2. UNCHANGED <<tokens, status, rewritten, lease, pending, polling>>
    BY <1>4 DEF StartAuthorization
  <2>3. live[g] = -2 /\ pending.grant # g /\ ~Known(g)
    BY <1>2, <2>1 DEF Unasked, CredentialInv, GrantsInv, NobodyKnows, NewInv
  <2>4. starting'.as.grant = g /\ ~starting'.as.another
    BY <2>1 DEF NoPending
  <2>5. live'[g] = Unapproved /\ \A h \in Grants \ {g} : live'[h] = live[h]
    BY <1>2, <2>1
  <2>6. \A h : Known(h)' <=> Known(h)
    BY <1>1, <2>2 DEF Known
  <2>7. NewInv'
    BY <1>2, <2>2, <2>3, <2>4, <2>5, <2>6 DEF NewInv
  <2> QED BY <1>1, <1>2, <2>2, <2>3, <2>5, <2>7, StandsKeepRefresh
<1>5. CASE StoreAuthorization
  <2>1. UNCHANGED <<tokens, lease, live, polling>>
        /\ starting # NotStarting /\ starting' = NotStarting
    BY <1>5 DEF StoreAuthorization
  <2>2. \A h : Known(h)' <=> Known(h)
    BY <1>1, <2>1 DEF Known
  <2>3. CASE pending' = starting.as /\ StatusIs(Plain("authorizing"))
    <3>1. NewInv'
      BY <1>2, <2>1, <2>2, <2>3 DEF NewInv
    <3> QED BY <1>1, <1>3, <2>1, <2>3, <3>1, StandsKeepRefresh DEF StatusIs, In
  <2>4. CASE UNCHANGED pending /\ StatusStays
    <3>1. NewInv'
      BY <1>2, <2>1, <2>2, <2>4 DEF NewInv
    <3> QED BY <1>1, <2>1, <2>4, <3>1, StandsKeepRefresh DEF StatusStays
  <2> QED BY <1>5, <2>3, <2>4 DEF StoreAuthorization
<1>6. CASE Poll
  <2>1. /\ UNCHANGED <<tokens, status, rewritten, lease, starting>>
        /\ pending # NoPending /\ ~pending.another /\ live[pending.grant] = Unapproved
        /\ pending' = [pending EXCEPT !.polls = @ + 1]
        /\ \/ polling' = pending' /\ live' = [live EXCEPT ![pending.grant] = 1]
           \/ UNCHANGED <<polling, live>>
    BY <1>6 DEF Poll
  <2>2. /\ pending'.grant = pending.grant /\ ~pending'.another
        /\ pending.grant \in Grants /\ ~Known(pending.grant)
    BY <1>2, <2>1 DEF Pending, NewInv
  <2>3. \A h : Known(h)' <=> Known(h)
    BY <1>1, <2>1 DEF Known
  <2>4. CASE polling' = pending' /\ live' = [live EXCEPT ![pending.grant] = 1]
    <3>1. live'[pending.grant] = 1 /\ \A h \in Grants \ {pending.grant} : live'[h] = live[h]
      BY <1>2, <2>2, <2>4
    <3>2. NewInv'
      BY <1>2, <2>1, <2>2, <2>3, <2>4, <3>1 DEF NewInv
    <3> QED BY <1>1, <1>2, <2>1, <2>2, <3>1, <3>2, StandsKeepRefresh
  <2>5. CASE UNCHANGED <<polling, live>>
    <3>1. NewInv'
      BY <1>2, <2>1, <2>2, <2>3, <2>5 DEF NewInv
    <3> QED BY <1>1, <2>1, <2>5, <3>1, StandsKeepRefresh
  <2> QED BY <2>1, <2>4, <2>5
<1>7. CASE FinishPoll
  <2>1. UNCHANGED <<live, starting>> /\ polling' = NoPending /\ polling # NoPending
    BY <1>7 DEF FinishPoll
  <2>2. CASE pending = polling /\ CommitTokens(polling.grant)
    BY <1>1, <1>2, <2>1, <2>2, CommitKeepsRefresh DEF NewInv
  <2>3. CASE /\ pending = polling /\ pending' = [polling EXCEPT !.another = TRUE]
             /\ StatusIs(Plain("confirming")) /\ UNCHANGED <<tokens, lease>>
    <3>1. pending'.grant = pending.grant /\ pending.grant \in Grants
      BY <1>2, <2>1, <2>3 DEF Pending, NewInv
    <3>2. \A h : Known(h)' <=> Known(h)
      BY <1>1, <2>3 DEF Known
    <3>3. NewInv'
      BY <1>2, <2>1, <2>3, <3>1, <3>2 DEF NewInv
    <3> QED BY <1>1, <1>3, <2>1, <2>3, <3>3, StandsKeepRefresh DEF StatusIs, In
  <2>4. CASE UNCHANGED <<tokens, status, rewritten, pending, lease>>
    <3>1. NewInv'
      <4>1. \A h : Known(h)' <=> Known(h)
        BY <1>1, <2>4 DEF Known
      <4> QED BY <1>2, <2>1, <2>4, <4>1 DEF NewInv
    <3> QED BY <1>1, <2>1, <2>4, <3>1, StandsKeepRefresh
  <2> QED BY <1>7, <2>2, <2>3, <2>4 DEF FinishPoll, StillPending
<1>8. CASE ConfirmAccount
  <2>1. /\ UNCHANGED <<live, starting, polling>> /\ pending # NoPending
        /\ pending.another /\ CommitTokens(pending.grant)
    BY <1>8 DEF ConfirmAccount
  <2> QED BY <1>1, <1>2, <2>1, CommitKeepsRefresh DEF NewInv
<1>9. CASE EndAuthorization
  <2>1. /\ UNCHANGED <<tokens, lease, live, starting, polling>> /\ pending' = NoPending
        /\ \E s : StatusIs(Plain(s))
    BY <1>9 DEF EndAuthorization
  <2>2. NewInv'
    <3>1. \A g \in Grants : Known(g)' => Known(g)
      BY <1>1, <2>1 DEF Known
    <3> QED BY <1>2, <2>1, <3>1, NewFollows
  <2> QED BY <1>1, <1>3, <2>1, <2>2, StandsKeepRefresh DEF StatusIs, In
<1>10. CASE Disconnect
  <2>1. /\ UNCHANGED <<live, starting, polling>> /\ tokens' = NoTokens
        /\ pending' = NoPending /\ StatusIs(Plain("disconnected"))
    BY <1>10 DEF Disconnect
  <2>2. NewInv'
    <3>1. \A g \in Grants : Known(g)' => Known(g)
      BY <1>1, <2>1, BlankValues DEF Known
    <3> QED BY <1>2, <2>1, <3>1, NewFollows
  <2>3. ReadsInv' /\ LeaseInv' /\ LiveInv' /\ RefusalInv'
    BY <1>1, <2>1, SupersededForGood
  <2>4. status'.revision = NoTokens
    BY <1>3, <2>1 DEF StatusIs
  <2>5. StatusInv' /\ NoNeedlessReconnect'
    BY <1>1, <2>1, <2>4, StatusFollows DEF StatusIs, In
  <2>6. BundlesInv'
    BY <1>1, <2>1, <2>4 DEF RefreshInv, BundlesInv, IsBundle, Issued, Working
  <2> QED BY <2>2, <2>3, <2>5, <2>6 DEF RefreshInv
<1> QED BY <1>4, <1>5, <1>6, <1>7, <1>8, <1>9, <1>10

LEMMA WorldKeepsRefresh ==
    ASSUME CredentialInv, CredentialInv', RefreshInv, Age \/ LeaseExpires \/ ProviderRevokes
    PROVE  RefreshInv'
<1>1. UNCHANGED <<tokens, status, rewritten, pending, isolate, bound, starting, polling>>
  BY DEF Age, LeaseExpires, ProviderRevokes
<1>2. /\ troubled => troubled'
      /\ live \in [Grants -> -2 .. MaxRotations] /\ troubled \in BOOLEAN
  BY DEF Age, LeaseExpires, ProviderRevokes, Smooth, CredentialInv, SettingsOK, HistoryOK
<1>3. \A g \in Grants : live'[g] = live[g] \/ (live[g] > 0 /\ live'[g] = Spent)
  BY <1>2 DEF Age, LeaseExpires, ProviderRevokes
<1>4. NewInv'
  <2>1. \A g \in Grants : Known(g)' => Known(g)
    BY <1>1 DEF Known
  <2> QED BY <1>1, <1>3, <2>1, NewFollows DEF RefreshInv
<1>5. troubled' \/ lease' = lease \/ (\A j \in Isolates : ~Refreshes(j))
  <2>1. CASE LeaseExpires
    <3>1. SUFFICES ASSUME ~troubled', NEW j \in Isolates, Refreshes(j)
                   PROVE  FALSE
      OBVIOUS
    <3>2. lease = HeldBy(j)
      BY <1>2, <3>1 DEF RefreshInv, LeaseInv
    <3>3. Holds(j)
      BY <3>1, <3>2 DEF Holds, HeldBy, Refreshes
    <3> QED BY <2>1, <3>1, <3>3 DEF LeaseExpires
  <2>2. CASE Age \/ ProviderRevokes
    BY <2>2 DEF Age, ProviderRevokes
  <2> QED BY <2>1, <2>2
<1> QED BY <1>1, <1>2, <1>3, <1>4, <1>5, StandsKeepRefresh DEF Spent

LEMMA RefreshStep ==
    ASSUME CredentialInv, CredentialInv', RefreshInv, [CredentialNext]_credentialVars
    PROVE  RefreshInv'
<1>1. CASE UNCHANGED credentialVars
  BY <1>1 DEF credentialVars, RefreshInv, BundlesInv, IsBundle, Issued, Known, ReadsInv,
              NewInv, Refreshes, Won, LeaseInv, LiveInv, RefusalInv, StatusInv, SpeaksOf,
              NoNeedlessReconnect
<1>2. CASE CredentialNext
  BY <1>2, IsolateKeepsRefresh, OperatorKeepsRefresh, WorldKeepsRefresh DEF CredentialNext
<1> QED BY <1>1, <1>2

LEMMA CredentialStep ==
    ASSUME CredentialInv, [CredentialNext]_credentialVars
    PROVE  CredentialInv'
<1>1. CASE UNCHANGED credentialVars
  BY <1>1 DEF CredentialInv, credentialVars, SettingsOK, HistoryOK, ViewsOK, IsolatesInv,
              GrantsInv, NobodyKnows
<1>2. CASE \E i \in Isolates : IsolateNext(i)
  BY <1>2, IsolatesStep, IsolateSettings, ViewsStep DEF CredentialInv, CredentialNext
<1>3. CASE CredentialNext /\ ~\E i \in Isolates : IsolateNext(i)
  BY <1>3, OperatorStep, WorldStep DEF CredentialNext
<1> QED BY <1>1, <1>2, <1>3

(* What takes the stored tokens away is what was refused them.             *)
LEMMA OnlyRefusedGo ==
    ASSUME CredentialInv, RefreshInv, CredentialNext,
           tokens # NoTokens, tokens' = NoTokens, ~Disconnect
    PROVE  \E i \in Isolates :
              isolate[i].pc \in {"mark", "count"} /\ isolate[i].read = tokens
<1>1. ASSUME CommitTokens(pending.grant) \/ CommitTokens(polling.grant)
      PROVE  FALSE
  BY <1>1 DEF CommitTokens, NoTokens
<1>2. PICK i \in Isolates : Store(i) \/ Mark(i) \/ CountFailure(i)
  BY <1>1 DEF CredentialNext, IsolateNext, ReadSnapshot, Acquire, Fetch,
              ReadRefreshWinner, Release, Bind, Rejected, ReadStatus, CrashIsolate,
              StartAuthorization, StoreAuthorization, Poll, FinishPoll, ConfirmAccount,
              EndAuthorization, Age, LeaseExpires, ProviderRevokes
<1>3. CASE Store(i)
  <2>1. isolate[i].pc = "store" /\ tokens = isolate[i].read /\ tokens' = isolate[i].got
    BY <1>3 DEF Store, StillRead, In
  <2>2. tokens' = Rotated(tokens) /\ tokens \in Tokens
    BY <2>1 DEF RefreshInv, ReadsInv, CredentialInv, SettingsOK
  <2>3. tokens'.rotation = tokens.rotation + 1 /\ tokens.rotation \in Nat
    BY <2>2, CredentialAssumption DEF Rotated, Tokens
  <2>4. NoTokens.rotation = 0
    BY DEF NoTokens
  <2> QED BY <2>3, <2>4
<1>4. CASE Mark(i)
  BY <1>4 DEF Mark, In
<1>5. CASE CountFailure(i)
  <2>1. isolate[i].pc = "count" /\ i \notin rewritten
    BY <1>5 DEF CountFailure, In
  <2>2. isolate[i].read = tokens
    BY <2>1 DEF RefreshInv, StatusInv, SpeaksOf
  <2> QED BY <2>1, <2>2
<1> QED BY <1>2, <1>3, <1>4, <1>5

(* Any number of isolates may refresh at once, and OpenAI takes a refresh  *)
(* token once: refreshCredentials and recordOpenAiSubscriptionAuthentica-  *)
(* tionFailure ask for a reconnect only when the grant is over, or one of  *)
(* the named troubles has happened.                                        *)
THEOREM ReconnectsAreNeeded == CredentialSpec => []NoNeedlessReconnect
<1>1. CredentialInit => CredentialInv /\ RefreshInv
  BY InitCredentialInv, RefreshStarts
<1>2. CredentialInv /\ RefreshInv /\ [CredentialNext]_credentialVars
        => CredentialInv' /\ RefreshInv'
  BY CredentialStep, RefreshStep
<1>3. RefreshInv => NoNeedlessReconnect
  BY DEF RefreshInv
<1> QED BY <1>1, <1>2, <1>3, PTL DEF CredentialSpec

(* No step takes the stored tokens away on account of others: a refusal or *)
(* a 401 that is late finds them replaced, and leaves them alone.          *)
THEOREM ReplacedTokensAreSafe == CredentialSpec => OnlyRefusedTokensGo
<1>1. CredentialInit => CredentialInv /\ RefreshInv
  BY InitCredentialInv, RefreshStarts
<1>2. CredentialInv /\ RefreshInv /\ [CredentialNext]_credentialVars
        => CredentialInv' /\ RefreshInv'
  BY CredentialStep, RefreshStep
<1>3. CredentialInv /\ RefreshInv /\ [CredentialNext]_credentialVars =>
        [tokens # NoTokens /\ tokens' = NoTokens =>
           \/ Disconnect
           \/ \E i \in Isolates :
                  isolate[i].pc \in {"mark", "count"} /\ isolate[i].read = tokens]_credentialVars
  BY OnlyRefusedGo
<1> QED BY <1>1, <1>2, <1>3, PTL DEF CredentialSpec, OnlyRefusedTokensGo

-----------------------------------------------------------------------------
(* Connections: what a request may be doing                                *)
(*                                                                         *)
(* No secret of a connection is left without a name or a request that will *)
(* remove it, and tokens are refused only if the server has ended their    *)
(* authorization.  NamesInv says it of the secrets, in two halves: while   *)
(* there is a profile the marker names all there is, and afterwards what   *)
(* it does not name is minded by a request that is going to look at the    *)
(* row again.  RotationInv says it of the tokens: what a request has read  *)
(* is what is stored or older, and only the holder of the lease presents   *)
(* what is stored, so that the server still takes it.                      *)

(* The tokens of an authorization.                                         *)
Real(b) == b.server \in Servers /\ b.from \in Authorizations /\ b.refresh > 0

OfOAuth == {"start", "callback", "resolve"}
Resolving == {"find", "lease", "reread", "still", "refresh", "store",
              "refused", "winner", "notify", "release"}

(* What a request is that stands at pc.                                    *)
FitsAt(r, pc) ==
    /\ pc \in {"look", "register", "propose"} => r.kind = "start"
    /\ pc \in {"present", "exchange", "keep", "verify", "report", "amend"}
          => r.kind = "callback"
    /\ pc \in Resolving => r.kind = "resolve"
    /\ pc \in {"save", "clearAll"} => r.kind = "put"
    /\ pc \in {"recheck", "clear"} => r.kind \in OfOAuth \cup {"put"}
    /\ pc = "stage" =>
          \/ r.kind = "start" /\ r.keys = OAuthKeys
          \/ r.kind = "put" /\ r.keys = {"bearer"}
          \/ r.kind = "delete" /\ r.keys \in {Keys, {}}
    /\ pc # "idle" /\ r.kind \in OfOAuth => r.server \in Servers
    /\ pc # "idle" /\ r.kind = "callback" => r.from \in Authorizations
    /\ r.has = NoBundle \/ Real(r.has)
    /\ pc \in {"still", "refresh", "store", "refused", "winner"} => Real(r.has)
    /\ pc \in {"refresh", "store"} => r.has.refresh <= MaxRefreshes
    /\ pc = "keep" => Real(r.has) /\ r.has.refresh = 1

WellFormed(r) == r \in Flow /\ FitsAt(r, r.pc)

FlowsInv == flow \in [Flows -> Flow] /\ \A f \in Flows : WellFormed(flow[f])

SecretsInv ==
    /\ oauth \in Secrets /\ named \subseteq Keys
    /\ oauth.tokens = NoBundle \/ Real(oauth.tokens)
    /\ \/ oauth.pending = NotPending
       \/ oauth.pending.server \in Servers /\ oauth.pending.from \in Authorizations

RowInv ==
    /\ profile \in Profile
    /\ authorized \in [Authorizations -> Unstarted .. MaxRefreshes + 1]
    /\ due \subseteq {b \in Bundle : b.refresh <= MaxRefreshes}
    /\ abandoned \in BOOLEAN /\ excused \in BOOLEAN

ShapeInv == FlowsInv /\ SecretsInv /\ RowInv

-----------------------------------------------------------------------------
(* How a request moves                                                     *)

Moved(f, r) ==
    /\ flow'[f] = r
    /\ \A g \in Flows : g # f => flow'[g] = flow[g]

Onto(r, pc) == [r EXCEPT !.pc = pc]

(* One request moves and stays well formed: then all are.                  *)
LEMMA OneMoves ==
    ASSUME FlowsInv, NEW f \in Flows, NEW r, WellFormed(r),
           flow' = [flow EXCEPT ![f] = r]
    PROVE FlowsInv' /\ Moved(f, r)
<1>1. r \in Flow
  BY DEF WellFormed
<1>2. Moved(f, r) /\ flow' \in [Flows -> Flow]
  BY <1>1 DEF FlowsInv, Moved
<1>3. \A g \in Flows : WellFormed(flow'[g])
  BY <1>2 DEF FlowsInv, Moved
<1>. QED
  BY <1>2, <1>3 DEF FlowsInv

(* A request that goes to another step keeps the rest.                     *)
LEMMA ToFits ==
    ASSUME NEW r \in Flow, NEW pc \in FlowSteps, FitsAt(r, pc)
    PROVE /\ WellFormed(Onto(r, pc))
          /\ Onto(r, pc).pc = pc /\ Onto(r, pc).kind = r.kind
          /\ Onto(r, pc).server = r.server /\ Onto(r, pc).from = r.from
          /\ Onto(r, pc).has = r.has /\ Onto(r, pc).keys = r.keys
BY DEF WellFormed, Onto, Flow, FitsAt, Real

LEMMA Continues ==
    ASSUME FlowsInv, NEW f \in Flows, NEW pc \in FlowSteps,
           FitsAt(flow[f], pc), Continue(f, pc)
    PROVE /\ FlowsInv' /\ Moved(f, Onto(flow[f], pc))
          /\ Onto(flow[f], pc).pc = pc /\ Onto(flow[f], pc).kind = flow[f].kind
          /\ Onto(flow[f], pc).server = flow[f].server
          /\ Onto(flow[f], pc).from = flow[f].from
          /\ Onto(flow[f], pc).has = flow[f].has /\ Onto(flow[f], pc).keys = flow[f].keys
<1>1. flow[f] \in Flow
  BY DEF FlowsInv
<1>2. flow' = [flow EXCEPT ![f] = Onto(flow[f], pc)]
  BY <1>1 DEF FlowsInv, Continue, Onto
<1>. QED
  BY <1>1, <1>2, ToFits, OneMoves

LEMMA AtRestFits == WellFormed(AtRest)
<1>1. NoBundle \in Bundle
  BY ConnectionAssumption DEF Bundle, NoBundle
<1>2. AtRest \in Flow
  BY <1>1, ConnectionAssumption DEF AtRest, Flow, FlowSteps
<1>3. FitsAt(AtRest, "idle")
  BY DEF FitsAt, AtRest, Resolving
<1>. QED
  BY <1>2, <1>3 DEF WellFormed, AtRest

LEMMA FlowLeaves ==
    ASSUME FlowsInv, NEW f \in Flows, Leave(f)
    PROVE FlowsInv' /\ Moved(f, AtRest)
BY AtRestFits, OneMoves DEF Leave

-----------------------------------------------------------------------------
(* The steps a request may always go on with.                              *)
Hops(from, to) ==
    \/ from = "look" /\ to = "register"
    \/ from = "register" /\ to = "propose"
    \/ from = "propose" /\ to = "recheck"
    \/ from = "present" /\ to = "exchange"
    \/ from = "keep" /\ to = "recheck"
    \/ from = "report" /\ to = "amend"
    \/ from = "find" /\ to = "lease"
    \/ from = "lease" /\ to = "reread"
    \/ from \in Resolving /\ to = "release"
    \/ from = "refresh" /\ to \in {"store", "refused"}
    \/ from = "store" /\ to = "recheck"
    \/ from = "refused" /\ to \in {"notify", "winner"}
    \/ from = "winner" /\ to = "notify"
    \/ from = "save" /\ to = "recheck"
    \/ from = "bearer" /\ to = "oauth"
    \/ from = "row" /\ to = "marker"
    \/ from = "recheck" /\ to = "clear"
    \/ from = "clearAll" /\ to = "marker"

LEMMA FlowGoesOn ==
    ASSUME FlowsInv, NEW f \in Flows, NEW pc, Hops(flow[f].pc, pc)
    PROVE pc \in FlowSteps /\ FitsAt(flow[f], pc)
<1>1. FitsAt(flow[f], flow[f].pc)
  BY DEF FlowsInv, WellFormed
<1>2. pc \in FlowSteps
  BY DEF Hops, FlowSteps
<1>. QED
  BY <1>1, <1>2 DEF Hops, FitsAt, Resolving, OfOAuth

(* A request enters as somebody who holds no tokens.                       *)
LEMMA Enters ==
    ASSUME FlowsInv, NEW f \in Flows, NEW pc \in FlowSteps, NEW keys \in SUBSET Keys,
           NEW kind \in {"start", "callback", "resolve", "put", "clear", "delete"},
           NEW server \in Servers \cup {Unconnected},
           \A r : r.kind = kind /\ r.server = server /\ r.keys = keys
                     /\ r.has = NoBundle => FitsAt(r, pc),
           Enter(f, kind, pc, server, keys)
    PROVE /\ FlowsInv'
          /\ \E r : /\ Moved(f, r)
                    /\ r.pc = pc /\ r.kind = kind /\ r.keys = keys /\ r.has = NoBundle
<1>. DEFINE r == [AtRest EXCEPT !.kind = kind, !.pc = pc, !.server = server,
                                !.keys = keys]
<1>1. AtRest \in Flow /\ AtRest.has = NoBundle
  BY AtRestFits DEF WellFormed, AtRest
<1>2. /\ r \in Flow /\ r.pc = pc /\ r.kind = kind /\ r.keys = keys
      /\ r.has = NoBundle /\ r.server = server
  BY <1>1 DEF Flow
<1>3. flow' = [flow EXCEPT ![f] = r]
  BY DEF Enter
<1>. HIDE DEF r
<1>. QED
  BY <1>2, <1>3, OneMoves DEF WellFormed

LEMMA FlowsSimple ==
    ASSUME FlowsInv, NEW f \in Flows,
           \/ LookBefore(f) \/ RegisterClient(f) \/ Propose(f) \/ LookAtCallback(f)
           \/ KeepTokens(f) \/ ReadLatest(f) \/ Amend(f)
           \/ Find(f) \/ AcquireLease(f) \/ RefreshTokens(f) \/ StoreRefreshed(f)
           \/ DropRefused(f) \/ ReadWinner(f) \/ Notify(f) \/ ReleaseLease(f)
           \/ SaveSecrets(f) \/ ClearSecrets(f) \/ DeleteRow(f) \/ StopFlow(f)
    PROVE FlowsInv'
<1>1. CASE \/ LookBefore(f) \/ RegisterClient(f) \/ Propose(f) \/ LookAtCallback(f)
          \/ KeepTokens(f) \/ ReadLatest(f) \/ Amend(f)
  BY <1>1, FlowGoesOn, Continues, FlowLeaves
     DEF LookBefore, RegisterClient, Propose, LookAtCallback, KeepTokens,
         ReadLatest, Amend, Hops, Doing
<1>2. CASE \/ Find(f) \/ AcquireLease(f) \/ RefreshTokens(f) \/ StoreRefreshed(f)
          \/ DropRefused(f) \/ ReadWinner(f) \/ Notify(f) \/ ReleaseLease(f)
  BY <1>2, FlowGoesOn, Continues, FlowLeaves
     DEF Find, AcquireLease, RefreshTokens, StoreRefreshed, DropRefused, ReadWinner,
         Notify, ReleaseLease, Hops, Doing, Resolving
<1>3. CASE SaveSecrets(f) \/ ClearSecrets(f) \/ DeleteRow(f) \/ StopFlow(f)
  BY <1>3, FlowGoesOn, Continues, FlowLeaves
     DEF SaveSecrets, ClearSecrets, DeleteRow, StopFlow, Hops, Doing
<1>. QED
  BY <1>1, <1>2, <1>3

LEMMA FlowsEnter ==
    ASSUME ShapeInv, NEW f \in Flows,
           \/ BeginStart(f) \/ BeginCallback(f) \/ BeginResolve(f)
           \/ BeginPut(f) \/ BeginClear(f) \/ BeginDelete(f)
    PROVE FlowsInv'
<1>. USE DEF ShapeInv
<1>1. CASE BeginStart(f)
  <2>1. \A r : r.kind = "start" /\ r.server = profile.server /\ r.keys = OAuthKeys
                  /\ r.has = NoBundle => FitsAt(r, "stage")
    BY <1>1 DEF BeginStart, Connected, FitsAt, Resolving
  <2>. QED
    BY <1>1, <2>1, Enters DEF BeginStart, Connected, FlowSteps, Keys
<1>2. CASE BeginResolve(f)
  <2>1. \A r : r.kind = "resolve" /\ r.server = profile.server /\ r.keys = {}
                  /\ r.has = NoBundle => FitsAt(r, "find")
    BY <1>2 DEF BeginResolve, Connected, FitsAt, Resolving
  <2>2. /\ profile.server \in Servers \cup {Unconnected} /\ "find" \in FlowSteps
        /\ Enter(f, "resolve", "find", profile.server, {})
    BY <1>2 DEF BeginResolve, Connected, FlowSteps
  <2>. QED
    BY <2>1, <2>2, Enters
<1>3. CASE BeginPut(f)
  <2>1. \A r : r.kind = "put" /\ r.server = profile.server /\ r.keys = {"bearer"}
                  /\ r.has = NoBundle => FitsAt(r, "stage")
    BY <1>3 DEF BeginPut, Connected, FitsAt, Resolving, OfOAuth
  <2>2. /\ profile.server \in Servers \cup {Unconnected} /\ "stage" \in FlowSteps
        /\ Enter(f, "put", "stage", profile.server, {"bearer"}) /\ {"bearer"} \in SUBSET Keys
    BY <1>3 DEF BeginPut, Connected, FlowSteps, Keys
  <2>. QED
    BY <2>1, <2>2, Enters
<1>4. CASE BeginClear(f)
  <2>1. \A r : r.kind = "clear" /\ r.server = Unconnected /\ r.keys = {}
                  /\ r.has = NoBundle => FitsAt(r, "bearer")
    BY DEF FitsAt, Resolving, OfOAuth
  <2>. QED
    BY <1>4, <2>1, Enters DEF BeginClear, FlowSteps
<1>5. CASE BeginDelete(f)
  <2>1. \A r, pc, keys :
           r.kind = "delete" /\ r.server = Unconnected /\ r.keys = keys
              /\ r.has = NoBundle /\ (pc = "marker" \/ (pc = "stage" /\ keys \in {Keys, {}}))
           => FitsAt(r, pc)
    BY DEF FitsAt, Resolving, OfOAuth
  <2>2. CASE profile.server = Gone
    <3>1. Enter(f, "delete", "marker", Unconnected, {})
      BY <1>5, <2>2 DEF BeginDelete
    <3>2. \A r : r.kind = "delete" /\ r.server = Unconnected /\ r.keys = {}
                    /\ r.has = NoBundle => FitsAt(r, "marker")
      BY <2>1
    <3>. QED
      BY <3>1, <3>2, Enters DEF FlowSteps
  <2>3. CASE profile.server # Gone
    <3>1. PICK keys \in {Keys, {}} : Enter(f, "delete", "stage", Unconnected, keys)
      BY <1>5, <2>3 DEF BeginDelete
    <3>2. \A r : r.kind = "delete" /\ r.server = Unconnected /\ r.keys = keys
                    /\ r.has = NoBundle => FitsAt(r, "stage")
      BY <2>1
    <3>. QED
      BY <3>1, <3>2, Enters DEF FlowSteps
  <2>. QED
    BY <2>2, <2>3
<1>6. CASE BeginCallback(f)
  <2>. DEFINE r == [AtRest EXCEPT !.kind = "callback", !.pc = "present",
                                  !.server = oauth.pending.server,
                                  !.from = oauth.pending.from]
  <2>1. AtRest \in Flow /\ AtRest.has = NoBundle
    BY AtRestFits DEF WellFormed, AtRest
  <2>2. oauth.pending.server \in Servers /\ oauth.pending.from \in Authorizations
    BY <1>6 DEF BeginCallback, SecretsInv
  <2>0. oauth.pending.from \in 0 .. MaxAuthorizations
    BY <2>2, ConnectionAssumption DEF Authorizations
  <2>3. /\ r \in Flow /\ r.pc = "present" /\ r.kind = "callback"
        /\ r.has = NoBundle /\ r.server \in Servers /\ r.from \in Authorizations
    BY <2>0, <2>1, <2>2 DEF Flow, FlowSteps
  <2>4. UNCHANGED flow \/ flow' = [flow EXCEPT ![f] = r]
    BY <1>6 DEF BeginCallback
  <2>. HIDE DEF r
  <2>5. FitsAt(r, "present")
    BY <2>3 DEF FitsAt, Resolving
  <2>. QED
    BY <2>3, <2>4, <2>5, OneMoves DEF WellFormed, FlowsInv
<1>. QED
  BY <1>1, <1>2, <1>3, <1>4, <1>5, <1>6

LEMMA FlowsOther ==
    ASSUME ShapeInv, NEW f \in Flows,
           \/ Stage(f) \/ ExchangeCode(f) \/ Verify(f) \/ ReadAgain(f) \/ StillCurrent(f)
           \/ Recheck(f) \/ Clear(f) \/ ReadMarker(f) \/ DeleteNamed(f)
    PROVE FlowsInv'
<1>0. /\ FlowsInv /\ flow[f] \in Flow /\ flow \in [Flows -> Flow]
      /\ FitsAt(flow[f], flow[f].pc)
  BY DEF ShapeInv, FlowsInv, WellFormed
<1>1. CASE Stage(f)
  <2>. DEFINE pc == CASE flow[f].kind = "start" -> "look"
                      [] flow[f].kind = "put" -> "save"
                      [] flow[f].kind = "delete" -> "row"
  <2>1. FitsAt(flow[f], pc)
    BY <1>0, <1>1 DEF Stage, Doing, FitsAt, Resolving, OfOAuth
  <2>2. pc \in FlowSteps
    BY <1>0, <1>1 DEF Stage, FlowSteps, Doing, FitsAt
  <2>3. Continue(f, pc)
    BY <1>1 DEF Stage
  <2>. HIDE DEF pc
  <2>. QED
    BY <1>0, <2>1, <2>2, <2>3, Continues
<1>2. CASE ExchangeCode(f)
  <2>1. CASE Leave(f)
    BY <1>0, <2>1, FlowLeaves
  <2>2. CASE ~Leave(f)
    <3>. DEFINE b == [server |-> flow[f].server, from |-> flow[f].from, refresh |-> 1]
                r == [flow[f] EXCEPT !.pc = "keep", !.has = b]
    <3>1. flow' = [flow EXCEPT ![f] = r]
      BY <1>0, <1>2, <2>2 DEF ExchangeCode
    <3>2. /\ flow[f].kind = "callback" /\ flow[f].server \in Servers
          /\ flow[f].from \in Authorizations /\ flow[f].from \in 0 .. MaxAuthorizations
      BY <1>0, <1>2 DEF ExchangeCode, FitsAt, Doing, OfOAuth, Flow
    <3>3. 1 \in 0 .. MaxRefreshes + 1
      BY ConnectionAssumption
    <3>4. Real(b) /\ b \in Bundle /\ b.refresh = 1
      BY <3>2, <3>3 DEF Real, Bundle
    <3>. HIDE DEF b
    <3>5. /\ r \in Flow /\ r.pc = "keep" /\ r.has = b /\ r.kind = "callback"
          /\ r.server = flow[f].server /\ r.from = flow[f].from
      BY <1>0, <3>2, <3>4 DEF Flow, FlowSteps
    <3>. HIDE DEF r
    <3>6. FitsAt(r, "keep")
      BY <3>2, <3>4, <3>5 DEF FitsAt, Resolving
    <3>. QED
      BY <1>0, <3>1, <3>5, <3>6, OneMoves DEF WellFormed
  <2>. QED
    BY <2>1, <2>2
<1>3. CASE Verify(f)
  <2>1. CASE Leave(f)
    BY <1>0, <2>1, FlowLeaves
  <2>2. CASE ~Leave(f)
    <3>. DEFINE r == [flow[f] EXCEPT !.server = profile.server, !.pc = "report"]
    <3>1. flow' = [flow EXCEPT ![f] = r] /\ profile.server \in Servers
      BY <1>0, <1>3, <2>2 DEF Verify, Connected
    <3>2. /\ r \in Flow /\ r.pc = "report" /\ r.has = flow[f].has
          /\ r.kind = flow[f].kind /\ r.server \in Servers /\ r.from = flow[f].from
      BY <1>0, <3>1 DEF Flow, FlowSteps
    <3>. HIDE DEF r
    <3>3. FitsAt(r, "report")
      BY <1>0, <1>3, <3>2 DEF FitsAt, Resolving, Verify, Doing
    <3>. QED
      BY <1>0, <3>1, <3>2, <3>3, OneMoves DEF WellFormed
  <2>. QED
    BY <2>1, <2>2
<1>4. CASE ReadAgain(f)
  <2>0. Hops(flow[f].pc, "release") /\ flow[f].kind = "resolve"
    BY <1>0, <1>4 DEF ReadAgain, Doing, Hops, FitsAt, Resolving
  <2>1. CASE Continue(f, "release")
    BY <1>0, <2>0, <2>1, FlowGoesOn, Continues
  <2>2. CASE ~Continue(f, "release")
    <3>. DEFINE r == [flow[f] EXCEPT !.has = oauth.tokens, !.pc = "still"]
    <3>1. flow' = [flow EXCEPT ![f] = r] /\ oauth.tokens.server = flow[f].server
      BY <1>0, <1>4, <2>2 DEF ReadAgain
    <3>2. flow[f].server \in Servers
      BY <1>0, <1>4, <2>0 DEF FitsAt, OfOAuth, ReadAgain, Doing
    <3>3. Real(oauth.tokens) /\ oauth.tokens \in Bundle
      BY <3>1, <3>2, ConnectionAssumption
         DEF ShapeInv, SecretsInv, Secrets, NoBundle, Unconnected
    <3>4. /\ r \in Flow /\ r.pc = "still" /\ r.has = oauth.tokens
          /\ r.kind = "resolve" /\ r.server \in Servers
      BY <1>0, <2>0, <3>2, <3>3 DEF Flow, FlowSteps
    <3>. HIDE DEF r
    <3>5. FitsAt(r, "still")
      BY <3>3, <3>4 DEF FitsAt, Resolving
    <3>. QED
      BY <1>0, <3>1, <3>4, <3>5, OneMoves DEF WellFormed
  <2>. QED
    BY <2>1, <2>2
<1>5. CASE StillCurrent(f)
  <2>1. flow[f].has \in due => FitsAt(flow[f], "refresh")
    BY <1>0, <1>5 DEF StillCurrent, Doing, FitsAt, Resolving, ShapeInv, RowInv
  <2>2. FitsAt(flow[f], "release")
    BY <1>0, <1>5 DEF StillCurrent, Doing, FitsAt, Resolving
  <2>. QED
    BY <1>0, <1>5, <2>1, <2>2, Continues DEF StillCurrent, FlowSteps
<1>6. CASE Recheck(f)
  <2>1. /\ flow[f].kind = "callback" => FitsAt(flow[f], "verify")
        /\ flow[f].kind = "resolve" => FitsAt(flow[f], "release")
        /\ flow[f].kind = "put" => FitsAt(flow[f], "clearAll")
        /\ FitsAt(flow[f], "clear")
    BY <1>0, <1>6 DEF Recheck, Doing, FitsAt, Resolving, OfOAuth
  <2>. QED
    BY <1>0, <1>6, <2>1, Continues, FlowLeaves DEF Recheck, FlowSteps
<1>7. CASE Clear(f)
  <2>1. /\ flow[f].kind = "resolve" => FitsAt(flow[f], "release")
        /\ flow[f].pc = "clearAll" => FitsAt(flow[f], "marker")
    BY <1>0, <1>7 DEF Clear, Doing, FitsAt, Resolving, OfOAuth
  <2>. QED
    BY <1>0, <1>7, <2>1, Continues, FlowLeaves DEF Clear, FlowSteps, Doing
<1>8. CASE ReadMarker(f) \/ DeleteNamed(f)
  <2>1. CASE Leave(f)
    BY <1>0, <2>1, FlowLeaves
  <2>2. CASE ~Leave(f)
    <3>1. PICK keys \in SUBSET Keys :
             flow' = [flow EXCEPT ![f] = [flow[f] EXCEPT !.keys = keys, !.pc = "delete"]]
      <4>1. CASE ReadMarker(f)
        BY <1>0, <2>2, <4>1 DEF ReadMarker, ShapeInv, SecretsInv
      <4>2. CASE DeleteNamed(f)
        <5>1. PICK k \in flow[f].keys : flow' = [flow EXCEPT ![f].keys = @ \ {k}]
          BY <2>2, <4>2 DEF DeleteNamed
        <5>2. flow[f].pc = "delete" /\ flow[f].keys \ {k} \in SUBSET Keys
          BY <1>0, <4>2 DEF DeleteNamed, Doing, Flow
        <5>3. flow' = [flow EXCEPT ![f] = [flow[f] EXCEPT !.keys = flow[f].keys \ {k},
                                                         !.pc = "delete"]]
          BY <1>0, <5>1, <5>2 DEF Flow
        <5>. QED
          BY <5>2, <5>3
      <4>. QED
        BY <1>8, <4>1, <4>2
    <3>. DEFINE r == [flow[f] EXCEPT !.keys = keys, !.pc = "delete"]
    <3>2. /\ r \in Flow /\ r.pc = "delete" /\ r.has = flow[f].has
          /\ r.kind = flow[f].kind /\ r.server = flow[f].server /\ r.from = flow[f].from
      BY <1>0 DEF Flow, FlowSteps
    <3>3. flow[f].pc \in {"marker", "delete"}
      BY <1>8 DEF ReadMarker, DeleteNamed, Doing
    <3>4. flow' = [flow EXCEPT ![f] = r]
      BY <3>1
    <3>. HIDE DEF r
    <3>5. FitsAt(r, "delete")
      BY <1>0, <3>2, <3>3 DEF FitsAt, Resolving, OfOAuth
    <3>. QED
      BY <1>0, <3>2, <3>4, <3>5, OneMoves DEF WellFormed
  <2>. QED
    BY <2>1, <2>2
<1>. QED
  BY <1>1, <1>2, <1>3, <1>4, <1>5, <1>6, <1>7, <1>8

-----------------------------------------------------------------------------
(* The settings and the row stay well formed                               *)

LEMMA NothingIsSecret == NoSecrets \in Secrets
<1>1. 0 \in 0 .. MaxAuthorizations /\ 0 \in 0 .. MaxRefreshes + 1
  BY ConnectionAssumption
<1>2. NoBundle \in Bundle /\ NotPending \in PendingState
  BY <1>1 DEF Bundle, NoBundle, PendingState, NotPending
<1>. QED
  BY <1>2 DEF NoSecrets, Secrets, Vacant

(* Taking secrets away does no harm.                                       *)
LEMMA WithoutIsFine ==
    ASSUME SecretsInv, NEW keys \in SUBSET Keys, NEW rest, rest = Without(keys)
    PROVE /\ rest \in Secrets
          /\ rest.tokens \in {oauth.tokens, NoBundle}
          /\ rest.pending \in {oauth.pending, NotPending}
          /\ rest.lease \in {oauth.lease, Vacant}
          /\ "tokens" \in keys => rest.tokens = NoBundle
          /\ "tokens" \notin keys => rest.tokens = oauth.tokens
          /\ "lease" \in keys => rest.lease = Vacant
          /\ "lease" \notin keys => rest.lease = oauth.lease
<1>0. oauth \in Secrets
  BY DEF SecretsInv
<1>1. NoSecrets \in Secrets
  BY NothingIsSecret
<1>. DEFINE c == IF "client" \in keys THEN FALSE ELSE oauth.client
            p == IF "pending" \in keys THEN NotPending ELSE oauth.pending
            t == IF "tokens" \in keys THEN NoBundle ELSE oauth.tokens
            l == IF "lease" \in keys THEN Vacant ELSE oauth.lease
            b == IF "bearer" \in keys THEN FALSE ELSE oauth.bearer
<1>2. rest = [client |-> c, pending |-> p, tokens |-> t, lease |-> l, bearer |-> b]
  BY <1>0 DEF Without, Secrets, NoSecrets, Keys, OAuthKeys
<1>3. NotPending \in PendingState /\ NoBundle \in Bundle
  BY <1>1 DEF Secrets, NoSecrets
<1>4. c \in BOOLEAN /\ b \in BOOLEAN
  BY <1>0 DEF Secrets
<1>5. /\ p \in PendingState /\ t \in Bundle
      /\ l \in [by : Flows \cup {NoFlow}, over : BOOLEAN]
  BY <1>0, <1>3 DEF Secrets, Vacant
<1>6. /\ rest.tokens = t /\ rest.pending = p /\ rest.lease = l
  BY <1>2
<1>7. rest \in Secrets
  <2>. HIDE DEF c, p, t, l, b
  <2>. QED
    BY <1>2, <1>4, <1>5 DEF Secrets
<1>. QED
  BY <1>6, <1>7

(* What a step does to the settings: takes secrets away, or writes one.    *)
LEMMA SecretsKept ==
    ASSUME ShapeInv, oauth' \in Secrets, named' \subseteq Keys,
           oauth'.tokens \in {oauth.tokens, NoBundle} \/ Real(oauth'.tokens),
           \/ oauth'.pending \in {oauth.pending, NotPending}
           \/ oauth'.pending.server \in Servers /\ oauth'.pending.from \in Authorizations
    PROVE SecretsInv'
<1>1. oauth'.tokens = NoBundle \/ Real(oauth'.tokens)
  BY DEF ShapeInv, SecretsInv
<1>2. \/ oauth'.pending = NotPending
      \/ oauth'.pending.server \in Servers /\ oauth'.pending.from \in Authorizations
  BY DEF ShapeInv, SecretsInv
<1>. QED
  BY <1>1, <1>2 DEF SecretsInv

LEMMA SecretsTaken ==
    ASSUME ShapeInv, NEW f \in Flows,
           DropRefused(f) \/ ReleaseLease(f) \/ Clear(f) \/ SaveSecrets(f)
              \/ ClearSecrets(f) \/ DeleteNamed(f) \/ BeginCallback(f)
    PROVE SecretsInv'
<1>. USE DEF ShapeInv
<1>0. /\ OAuthKeys \in SUBSET Keys /\ {"bearer"} \in SUBSET Keys
      /\ {"tokens"} \in SUBSET Keys /\ {"lease"} \in SUBSET Keys
      /\ flow[f].keys \in SUBSET Keys
  BY DEF Keys, OAuthKeys, FlowsInv, Flow
<1>1. CASE UNCHANGED oauth
  BY <1>1, SecretsKept
     DEF SecretsInv, DropRefused, ReleaseLease, Clear, SaveSecrets, ClearSecrets,
         DeleteNamed, BeginCallback
<1>2. ASSUME NEW keys \in SUBSET Keys, oauth' = Without(keys), named' \subseteq Keys
      PROVE SecretsInv'
  BY <1>2, WithoutIsFine, SecretsKept
<1>3. CASE DropRefused(f)
  BY <1>0, <1>1, <1>2, <1>3 DEF DropRefused, SecretsInv
<1>4. CASE ReleaseLease(f)
  BY <1>0, <1>1, <1>2, <1>4 DEF ReleaseLease, SecretsInv
<1>5. CASE Clear(f)
  BY <1>0, <1>2, <1>5 DEF Clear, SecretsInv
<1>6. CASE ClearSecrets(f)
  BY <1>0, <1>2, <1>6 DEF ClearSecrets, SecretsInv
<1>7. CASE DeleteNamed(f)
  <2>1. CASE UNCHANGED oauth
    BY <1>7, <2>1, SecretsKept DEF SecretsInv, DeleteNamed
  <2>2. CASE ~UNCHANGED oauth
    <3>1. PICK k \in flow[f].keys : oauth' = Without({k}) /\ UNCHANGED named
      BY <1>7, <2>2 DEF DeleteNamed
    <3>. QED
      BY <1>0, <1>2, <3>1 DEF SecretsInv
  <2>. QED
    BY <2>1, <2>2
<1>8. CASE SaveSecrets(f)
  <2>1. PICK saved \in BOOLEAN, clearOAuth \in BOOLEAN :
           oauth' = [(IF clearOAuth THEN Without(OAuthKeys) ELSE oauth) EXCEPT !.bearer = saved]
    BY <1>8 DEF SaveSecrets
  <2>. DEFINE kept == IF clearOAuth THEN Without(OAuthKeys) ELSE oauth
  <2>2. /\ kept \in Secrets /\ kept.tokens \in {oauth.tokens, NoBundle}
        /\ kept.pending \in {oauth.pending, NotPending}
    BY <1>0, WithoutIsFine DEF SecretsInv
  <2>. HIDE DEF kept
  <2>3. oauth' \in Secrets /\ oauth'.tokens = kept.tokens /\ oauth'.pending = kept.pending
    <3>1. oauth' = [kept EXCEPT !.bearer = saved]
      BY <2>1 DEF kept
    <3>. QED
      BY <2>2, <3>1 DEF Secrets
  <2>. QED
    BY <1>8, <2>2, <2>3, SecretsKept DEF SaveSecrets, SecretsInv
<1>9. CASE BeginCallback(f)
  <2>1. oauth \in Secrets /\ NotPending \in PendingState
    BY NothingIsSecret DEF SecretsInv, Secrets, NoSecrets
  <2>2. oauth' \in Secrets /\ oauth'.tokens = oauth.tokens /\ oauth'.pending = NotPending
    BY <1>9, <2>1 DEF BeginCallback, Secrets
  <2>. QED
    BY <1>9, <2>2, SecretsKept DEF BeginCallback, SecretsInv
<1>. QED
  BY <1>3, <1>4, <1>5, <1>6, <1>7, <1>8, <1>9

LEMMA SecretsWritten ==
    ASSUME ShapeInv, NEW f \in Flows,
           RegisterClient(f) \/ Propose(f) \/ KeepTokens(f) \/ AcquireLease(f)
              \/ StoreRefreshed(f) \/ LeaseTimeIsOver \/ Stage(f)
    PROVE SecretsInv'
<1>0. /\ oauth \in Secrets /\ named \subseteq Keys /\ SecretsInv
      /\ flow[f] \in Flow /\ FitsAt(flow[f], flow[f].pc)
  BY DEF ShapeInv, SecretsInv, FlowsInv, WellFormed
<1>1. CASE UNCHANGED oauth /\ named' \subseteq Keys
  BY <1>1, SecretsKept DEF ShapeInv, SecretsInv
<1>2. CASE RegisterClient(f) /\ ~UNCHANGED oauth
  <2>1. oauth' \in Secrets /\ oauth'.tokens = oauth.tokens /\ oauth'.pending = oauth.pending
    BY <1>0, <1>2 DEF RegisterClient, Secrets
  <2>. QED
    BY <1>0, <1>2, <2>1, SecretsKept DEF RegisterClient
<1>3. CASE Propose(f)
  <2>1. flow[f].server \in Servers
    BY <1>0, <1>3 DEF Propose, Doing, FitsAt, OfOAuth
  <2>2. PICK a \in Authorizations :
           oauth' = [oauth EXCEPT !.pending = [server |-> flow[f].server, from |-> a]]
    BY <1>3 DEF Propose
  <2>3. a \in 0 .. MaxAuthorizations
    BY ConnectionAssumption DEF Authorizations
  <2>. DEFINE p == [server |-> flow[f].server, from |-> a]
  <2>4. p \in PendingState /\ p.server \in Servers /\ p.from \in Authorizations
    BY <2>1, <2>3 DEF PendingState
  <2>. HIDE DEF p
  <2>5. oauth' \in Secrets /\ oauth'.tokens = oauth.tokens /\ oauth'.pending = p
    <3>1. oauth' = [oauth EXCEPT !.pending = p]
      BY <2>2 DEF p
    <3>. QED
      BY <1>0, <2>4, <3>1 DEF Secrets
  <2>. QED
    BY <1>0, <1>3, <2>4, <2>5, SecretsKept DEF Propose
<1>4. CASE KeepTokens(f)
  <2>1. Real(flow[f].has) /\ flow[f].has \in Bundle
    BY <1>0, <1>4 DEF KeepTokens, Doing, FitsAt, Flow
  <2>2. oauth' \in Secrets /\ oauth'.tokens = flow[f].has /\ oauth'.pending = oauth.pending
    BY <1>0, <1>4, <2>1 DEF KeepTokens, Secrets
  <2>. QED
    BY <1>0, <1>4, <2>1, <2>2, SecretsKept DEF KeepTokens
<1>5. CASE AcquireLease(f) /\ ~UNCHANGED oauth
  <2>. DEFINE l == [by |-> f, over |-> FALSE]
  <2>1. l \in [by : Flows \cup {NoFlow}, over : BOOLEAN]
    OBVIOUS
  <2>2. oauth' = [oauth EXCEPT !.lease = l]
    BY <1>5 DEF AcquireLease
  <2>. HIDE DEF l
  <2>3. oauth' \in Secrets /\ oauth'.tokens = oauth.tokens /\ oauth'.pending = oauth.pending
    BY <1>0, <2>1, <2>2 DEF Secrets
  <2>. QED
    BY <1>0, <1>5, <2>3, SecretsKept DEF AcquireLease
<1>6. CASE LeaseTimeIsOver
  <2>1. oauth' \in Secrets /\ oauth'.tokens = oauth.tokens /\ oauth'.pending = oauth.pending
    BY <1>0, <1>6 DEF LeaseTimeIsOver, Secrets
  <2>. QED
    BY <1>0, <1>6, <2>1, SecretsKept DEF LeaseTimeIsOver
<1>7. CASE StoreRefreshed(f) /\ ~UNCHANGED oauth
  <2>. DEFINE b == flow[f].has
              c == Refreshed(b)
  <2>1. Real(b) /\ b \in Bundle /\ b.refresh <= MaxRefreshes
    BY <1>0, <1>7 DEF StoreRefreshed, Doing, FitsAt, Flow
  <2>2. b.refresh + 1 \in 0 .. MaxRefreshes + 1 /\ b.refresh + 1 > 0
    BY <2>1, ConnectionAssumption DEF Bundle, Real
  <2>3. c \in Bundle /\ c.server = b.server /\ c.from = b.from /\ c.refresh = b.refresh + 1
    BY <2>1, <2>2 DEF Refreshed, Bundle
  <2>4. oauth' = [oauth EXCEPT !.tokens = c]
    BY <1>7 DEF StoreRefreshed
  <2>. HIDE DEF b, c
  <2>5. oauth' \in Secrets /\ oauth'.tokens = c /\ oauth'.pending = oauth.pending
    BY <1>0, <2>3, <2>4 DEF Secrets
  <2>6. Real(c)
    BY <2>1, <2>2, <2>3 DEF Real
  <2>. QED
    BY <1>0, <1>7, <2>5, <2>6, SecretsKept DEF StoreRefreshed
<1>8. CASE Stage(f)
  BY <1>0, <1>1, <1>8 DEF Stage, Flow
<1>. QED
  BY <1>0, <1>1, <1>2, <1>3, <1>4, <1>5, <1>6, <1>7, <1>8
     DEF RegisterClient, AcquireLease, StoreRefreshed

LEMMA RowStep ==
    ASSUME ShapeInv, ConnectionNext
    PROVE RowInv'
<1>0. RowInv /\ SecretsInv /\ FlowsInv
  BY DEF ShapeInv
<1>1. profile' \in Profile
  <2>1. CASE UNCHANGED profile
    BY <1>0, <2>1 DEF RowInv
  <2>2. ASSUME NEW s \in Servers \cup {Unconnected, Gone},
               NEW l \in {"pending", "ready", "failed"},
               profile' = [server |-> s, lifecycle |-> l]
        PROVE profile' \in Profile
    BY <2>2 DEF Profile
  <2>3. CASE EditProfile
    <3>1. PICK s \in Servers \cup {Unconnected} :
             profile' = [server |-> s, lifecycle |-> "pending"]
      BY <2>3 DEF EditProfile
    <3>. QED
      BY <2>2, <3>1
  <2>4. CASE CreateProfile
    <3>1. PICK s \in Servers \cup {Unconnected} :
             profile' = [server |-> s, lifecycle |-> "pending"]
      BY <2>4 DEF CreateProfile
    <3>. QED
      BY <2>2, <3>1
  <2>5. ASSUME NEW f \in Flows, Amend(f), ~UNCHANGED profile
        PROVE profile' \in Profile
    <3>1. PICK l \in {"ready", "failed"} :
             profile' = [server |-> flow[f].server, lifecycle |-> l]
      BY <2>5 DEF Amend
    <3>2. flow[f].server \in Servers \cup {Unconnected}
      BY <1>0 DEF FlowsInv, Flow
    <3>. QED
      BY <2>2, <3>1, <3>2
  <2>6. ASSUME NEW f \in Flows, Notify(f)
        PROVE profile' \in Profile
    BY <1>0, <2>6 DEF Notify, RowInv, Profile
  <2>7. ASSUME NEW f \in Flows, DeleteRow(f)
        PROVE profile' \in Profile
    BY <1>0, <2>7, <2>2 DEF DeleteRow, RowInv, NoProfile
  <2>8. ASSUME NEW f \in Flows, FlowNext(f), ~Amend(f), ~Notify(f), ~DeleteRow(f)
        PROVE UNCHANGED profile
    BY <2>8 DEF FlowNext, Stage, BeginStart, LookBefore, RegisterClient, Propose,
         BeginCallback, LookAtCallback, ExchangeCode, KeepTokens, Verify, ReadLatest,
         BeginResolve, Find, AcquireLease, ReadAgain, StillCurrent, RefreshTokens,
         StoreRefreshed, DropRefused, ReadWinner, ReleaseLease, Recheck, Clear,
         BeginPut, SaveSecrets, BeginClear, ClearSecrets, BeginDelete, ReadMarker,
         DeleteNamed, StopFlow, rowAndSecrets
  <2>9. CASE TokensComeDue \/ LeaseTimeIsOver \/ ServerEnds
    BY <2>1, <2>9 DEF TokensComeDue, LeaseTimeIsOver, ServerEnds, rowAndSecrets
  <2>. QED
    BY <2>1, <2>3, <2>4, <2>5, <2>6, <2>7, <2>8, <2>9 DEF ConnectionNext
<1>2. authorized' \in [Authorizations -> Unstarted .. MaxRefreshes + 1]
  <2>1. CASE UNCHANGED authorized
    BY <1>0, <2>1 DEF RowInv
  <2>2. ASSUME NEW a, NEW n \in Unstarted .. MaxRefreshes + 1,
               authorized' = [authorized EXCEPT ![a] = n]
        PROVE authorized' \in [Authorizations -> Unstarted .. MaxRefreshes + 1]
    BY <1>0, <2>2 DEF RowInv
  <2>3. /\ Asked \in Unstarted .. MaxRefreshes + 1 /\ Ended \in Unstarted .. MaxRefreshes + 1
        /\ 1 \in Unstarted .. MaxRefreshes + 1
    BY ConnectionAssumption DEF Asked, Ended, Unstarted
  <2>4. ASSUME NEW f \in Flows, Propose(f) \/ ExchangeCode(f)
        PROVE authorized' \in [Authorizations -> Unstarted .. MaxRefreshes + 1]
    BY <2>1, <2>2, <2>3, <2>4 DEF Propose, ExchangeCode
  <2>5. ASSUME NEW f \in Flows, RefreshTokens(f)
        PROVE authorized' \in [Authorizations -> Unstarted .. MaxRefreshes + 1]
    <3>1. flow[f].has \in Bundle /\ flow[f].has.refresh <= MaxRefreshes
      BY <1>0, <2>5 DEF RefreshTokens, Doing, FlowsInv, WellFormed, FitsAt, Flow
    <3>2. flow[f].has.refresh + 1 \in Unstarted .. MaxRefreshes + 1
      BY <3>1, ConnectionAssumption DEF Bundle, Unstarted
    <3>3. UNCHANGED authorized
             \/ authorized' = [authorized EXCEPT ![flow[f].has.from] = flow[f].has.refresh + 1]
      BY <2>5 DEF RefreshTokens
    <3>. QED
      BY <2>1, <2>2, <3>2, <3>3
  <2>6. CASE ServerEnds
    BY <2>2, <2>3, <2>6 DEF ServerEnds
  <2>7. ASSUME NEW f \in Flows, FlowNext(f), ~Propose(f), ~ExchangeCode(f), ~RefreshTokens(f)
        PROVE UNCHANGED authorized
    BY <2>7 DEF FlowNext, Stage, BeginStart, LookBefore, RegisterClient, Enter,
         BeginCallback, LookAtCallback, KeepTokens, Verify, ReadLatest, Amend,
         BeginResolve, Find, AcquireLease, ReadAgain, StillCurrent, Notify, DeleteRow,
         StoreRefreshed, DropRefused, ReadWinner, ReleaseLease, Recheck, Clear,
         BeginPut, SaveSecrets, BeginClear, ClearSecrets, BeginDelete, ReadMarker,
         DeleteNamed, StopFlow, world
  <2>8. CASE EditProfile \/ CreateProfile \/ TokensComeDue \/ LeaseTimeIsOver
    BY <2>1, <2>8 DEF EditProfile, CreateProfile, TokensComeDue, LeaseTimeIsOver, world
  <2>. QED
    BY <2>1, <2>4, <2>5, <2>6, <2>7, <2>8 DEF ConnectionNext
<1>3. due' \subseteq {b \in Bundle : b.refresh <= MaxRefreshes}
  <2>1. CASE TokensComeDue
    BY <1>0, <2>1 DEF TokensComeDue, RowInv, SecretsInv, Secrets
  <2>2. CASE ~TokensComeDue
    <3>1. ASSUME NEW f \in Flows, FlowNext(f)
          PROVE UNCHANGED due
      BY <3>1 DEF FlowNext, Stage, BeginStart, LookBefore,
         RegisterClient, Propose, Enter, BeginCallback, LookAtCallback, ExchangeCode,
         KeepTokens, Verify, ReadLatest, Amend, BeginResolve, Find, AcquireLease,
         ReadAgain, StillCurrent, RefreshTokens, StoreRefreshed, DropRefused,
         ReadWinner, Notify, ReleaseLease, Recheck, Clear, BeginPut, SaveSecrets,
         BeginClear, ClearSecrets, BeginDelete, DeleteRow, ReadMarker, DeleteNamed,
         StopFlow, world
    <3>2. ASSUME EditProfile \/ CreateProfile \/ LeaseTimeIsOver \/ ServerEnds
          PROVE UNCHANGED due
      BY <3>2 DEF EditProfile, CreateProfile, LeaseTimeIsOver, ServerEnds, world
    <3>3. UNCHANGED due
      BY <2>2, <3>1, <3>2 DEF ConnectionNext
    <3>. QED
      BY <1>0, <3>3 DEF RowInv
  <2>. QED
    BY <2>1, <2>2
<1>4. abandoned' \in BOOLEAN
  <2>1. ASSUME NEW f \in Flows, FlowNext(f)
        PROVE UNCHANGED abandoned \/ StopFlow(f)
    BY <2>1 DEF FlowNext, Stage, BeginStart, LookBefore,
         RegisterClient, Propose, Enter, BeginCallback, LookAtCallback, ExchangeCode,
         KeepTokens, Verify, ReadLatest, Amend, BeginResolve, Find, AcquireLease,
         ReadAgain, StillCurrent, RefreshTokens, StoreRefreshed, DropRefused,
         ReadWinner, Notify, ReleaseLease, Recheck, Clear, BeginPut, SaveSecrets,
         BeginClear, ClearSecrets, BeginDelete, DeleteRow, ReadMarker, DeleteNamed,
         world
  <2>2. ASSUME EditProfile \/ TokensComeDue \/ LeaseTimeIsOver \/ ServerEnds
        PROVE UNCHANGED abandoned
    BY <2>2 DEF EditProfile, TokensComeDue, LeaseTimeIsOver, ServerEnds, world
  <2>3. UNCHANGED abandoned \/ CreateProfile \/ \E f \in Flows : StopFlow(f)
    BY <2>1, <2>2 DEF ConnectionNext
  <2>4. CASE CreateProfile \/ \E f \in Flows : StopFlow(f)
    BY <2>4, Zenon DEF CreateProfile, StopFlow
  <2>. QED
    BY <1>0, <2>3, <2>4 DEF RowInv
<1>5. excused' \in BOOLEAN
  <2>5. ASSUME NEW f \in Flows, FlowNext(f)
        PROVE UNCHANGED excused \/ StopFlow(f) \/ ReadAgain(f) \/ RefreshTokens(f)
    BY <2>5 DEF FlowNext, Stage, BeginStart, LookBefore,
         RegisterClient, Propose, Enter, BeginCallback, LookAtCallback, ExchangeCode,
         KeepTokens, Verify, ReadLatest, Amend, BeginResolve, Find, AcquireLease,
         StillCurrent, StoreRefreshed, DropRefused,
         ReadWinner, Notify, ReleaseLease, Recheck, Clear, BeginPut, SaveSecrets,
         BeginClear, ClearSecrets, BeginDelete, DeleteRow, ReadMarker, DeleteNamed,
         world
  <2>6. ASSUME EditProfile \/ TokensComeDue \/ ServerEnds \/ CreateProfile
        PROVE UNCHANGED excused
    BY <2>6 DEF EditProfile, TokensComeDue, ServerEnds, CreateProfile, world
  <2>1. \/ UNCHANGED excused \/ LeaseTimeIsOver
        \/ \E f \in Flows : StopFlow(f) \/ ReadAgain(f) \/ RefreshTokens(f)
    BY <2>5, <2>6 DEF ConnectionNext
  <2>2. CASE \E f \in Flows : StopFlow(f) \/ ReadAgain(f)
    BY <2>2, Zenon DEF StopFlow, ReadAgain
  <2>3. excused' = TRUE => excused' \in BOOLEAN
    OBVIOUS
  <2>4. CASE LeaseTimeIsOver \/ \E f \in Flows : RefreshTokens(f)
    BY <1>0, <2>3, <2>4 DEF LeaseTimeIsOver, RefreshTokens, RowInv
  <2>. QED
    BY <1>0, <2>1, <2>2, <2>4 DEF RowInv
<1>. QED
  BY <1>1, <1>2, <1>3, <1>4, <1>5 DEF RowInv

LEMMA ShapeStep == ShapeInv /\ [ConnectionNext]_connectionVars => ShapeInv'
<1>. SUFFICES ASSUME ShapeInv, [ConnectionNext]_connectionVars
              PROVE ShapeInv'
  OBVIOUS
<1>1. CASE UNCHANGED connectionVars
  BY <1>1 DEF connectionVars, ShapeInv, FlowsInv, SecretsInv, RowInv
<1>2. CASE ConnectionNext
  <2>1. RowInv'
    BY <1>2, RowStep
  <2>2. UNCHANGED flow => FlowsInv'
    BY DEF ShapeInv, FlowsInv
  <2>3. UNCHANGED <<oauth, named>> => SecretsInv'
    BY DEF ShapeInv, SecretsInv
  <2>4. ASSUME NEW f \in Flows, FlowNext(f)
        PROVE FlowsInv'
    BY <2>4, FlowsSimple, FlowsEnter, FlowsOther DEF FlowNext, ShapeInv
  <2>5. ASSUME NEW f \in Flows, FlowNext(f)
        PROVE SecretsInv'
    <3>1. CASE DropRefused(f) \/ ReleaseLease(f) \/ Clear(f) \/ SaveSecrets(f)
                 \/ ClearSecrets(f) \/ DeleteNamed(f) \/ BeginCallback(f)
      BY <3>1, SecretsTaken
    <3>2. CASE RegisterClient(f) \/ Propose(f) \/ KeepTokens(f) \/ AcquireLease(f)
                 \/ StoreRefreshed(f) \/ Stage(f)
      BY <3>2, SecretsWritten
    <3>3. CASE BeginStart(f) \/ LookBefore(f) \/ LookAtCallback(f) \/ ExchangeCode(f)
                 \/ Verify(f) \/ ReadLatest(f) \/ Amend(f) \/ BeginResolve(f) \/ Find(f)
      BY <2>3, <3>3 DEF BeginStart, LookBefore, LookAtCallback, ExchangeCode, Verify,
         ReadLatest, Amend, BeginResolve, Find, rowAndSecrets
    <3>4. CASE ReadAgain(f) \/ StillCurrent(f) \/ RefreshTokens(f) \/ ReadWinner(f)
                 \/ Notify(f) \/ Recheck(f) \/ BeginPut(f) \/ BeginClear(f)
                 \/ BeginDelete(f) \/ DeleteRow(f) \/ ReadMarker(f) \/ StopFlow(f)
      BY <2>3, <3>4 DEF ReadAgain, StillCurrent, RefreshTokens, ReadWinner, Notify,
         Recheck, BeginPut, BeginClear, BeginDelete, DeleteRow, ReadMarker, StopFlow,
         rowAndSecrets
    <3>. QED
      BY <2>5, <3>1, <3>2, <3>3, <3>4 DEF FlowNext
  <2>6. CASE EditProfile \/ CreateProfile \/ TokensComeDue \/ ServerEnds
    BY <2>1, <2>2, <2>3, <2>6
       DEF EditProfile, CreateProfile, TokensComeDue, ServerEnds, rowAndSecrets, ShapeInv
  <2>7. CASE LeaseTimeIsOver
    <3>1. FlowsInv'
      BY <2>2, <2>7 DEF LeaseTimeIsOver
    <3>2. SecretsInv'
      <4>1. oauth \in Secrets
        BY DEF ShapeInv, SecretsInv
      <4>2. /\ oauth' \in Secrets /\ oauth'.tokens = oauth.tokens
            /\ oauth'.pending = oauth.pending
        BY <2>7, <4>1 DEF LeaseTimeIsOver, Secrets
      <4>. QED
        BY <2>7, <4>2, SecretsKept DEF LeaseTimeIsOver, ShapeInv, SecretsInv
    <3>. QED
      BY <2>1, <3>1, <3>2 DEF ShapeInv
  <2>. QED
    BY <1>2, <2>1, <2>4, <2>5, <2>6, <2>7 DEF ConnectionNext, ShapeInv
<1>. QED
  BY <1>1, <1>2

LEMMA ShapeInit == ConnectionInit => ShapeInv
<1>. SUFFICES ASSUME ConnectionInit
              PROVE ShapeInv
  OBVIOUS
<1>1. PICK first \in 0 .. MaxAuthorizations :
         /\ profile \in [server : Servers,
                         lifecycle : {IF first = 0 THEN "pending" ELSE "ready"}]
         /\ oauth = AuthorizedFrom(first)
         /\ named = IF first = 0 THEN {} ELSE OAuthKeys
         /\ flow = [f \in Flows |-> AtRest]
         /\ authorized = [a \in Authorizations |-> IF a <= first THEN 1 ELSE Unstarted]
         /\ due = {} /\ abandoned = FALSE /\ excused = FALSE
  BY DEF ConnectionInit
<1>2. FlowsInv
  BY <1>1, AtRestFits DEF FlowsInv, WellFormed
<1>3. SecretsInv
  <2>1. CASE first = 0
    BY <1>1, <2>1, NothingIsSecret DEF AuthorizedFrom, SecretsInv, NoSecrets
  <2>2. CASE first # 0
    <3>. DEFINE b == [server |-> profile.server, from |-> first, refresh |-> 1]
    <3>1. first \in Authorizations /\ 1 \in 0 .. MaxRefreshes + 1
      BY <2>2, ConnectionAssumption DEF Authorizations
    <3>2. Real(b) /\ b \in Bundle
      BY <1>1, <3>1 DEF Real, Bundle
    <3>3. oauth = [NoSecrets EXCEPT !.client = TRUE, !.tokens = b]
      BY <1>1, <2>2 DEF AuthorizedFrom
    <3>. HIDE DEF b
    <3>4. /\ oauth \in Secrets /\ oauth.tokens = b /\ oauth.pending = NoSecrets.pending
      BY <3>2, <3>3, NothingIsSecret DEF Secrets
    <3>5. named \subseteq Keys /\ oauth.pending = NotPending
      BY <1>1, <3>4 DEF Keys, NoSecrets
    <3>. QED
      BY <3>2, <3>4, <3>5 DEF SecretsInv
  <2>. QED
    BY <2>1, <2>2
<1>4. RowInv
  <2>1. profile \in Profile
    BY <1>1 DEF Profile
  <2>2. \A a \in Authorizations :
           (IF a <= first THEN 1 ELSE Unstarted) \in Unstarted .. MaxRefreshes + 1
    BY ConnectionAssumption DEF Unstarted
  <2>. QED
    BY <1>1, <2>1, <2>2 DEF RowInv
<1>. QED
  BY <1>2, <1>3, <1>4 DEF ShapeInv

-----------------------------------------------------------------------------
(* The names of the secrets                                                *)

(* Secrets a request has named before it goes on.                          *)
Provided(r) ==
    IF r.pc \in {"idle", "stage"} THEN {}
    ELSE IF r.kind \in {"start", "callback"} THEN OAuthKeys
    ELSE IF r.kind = "put" THEN {"bearer"} ELSE {}

(* Secrets a writer is still to look at the row for.                       *)
Minds(r) ==
    IF r.pc \in {"propose", "recheck", "clear", "clearAll"}
    THEN IF r.kind = "put" THEN {"bearer"} ELSE OAuthKeys
    ELSE {}

Deletes(r) == r.pc \in {"marker", "delete", "clearAll"}

IsStored(k) == k # "lease" /\ oauth[k] # NoSecrets[k]
Minded(k) == \E f \in Flows : k \in Minds(flow[f])

NamedTogether == OAuthKeys \subseteq named \/ OAuthKeys \cap named = {}

(* While there is a profile, every secret is named, and nobody deletes.    *)
NamedWhileThere ==
    /\ \A k \in Keys : IsStored(k) => k \in named
    /\ \A f \in Flows : Provided(flow[f]) \subseteq named /\ ~Deletes(flow[f])

(* Afterwards, every secret is named or minded; and what a request deletes *)
(* before it takes the names away has all that nobody minds.               *)
NamedAfterwards ==
    /\ \A k \in Keys : IsStored(k) => k \in named \/ Minded(k)
    /\ \A f \in Flows : flow[f].pc = "delete" =>
          \A k \in Keys : IsStored(k) => k \in flow[f].keys \/ Minded(k)

NamesInv ==
    /\ NamedTogether
    /\ ~abandoned => IF profile.server = Gone THEN NamedAfterwards ELSE NamedWhileThere

(* A request that is no deleter moves, names what it needs, and what it    *)
(* writes it minds; what it has minded is looked after if it leaves.       *)
LEMMA OrderlyMoves ==
    ASSUME NamesInv, NEW f \in Flows, NEW r, Moved(f, r),
           named \subseteq named', NamedTogether',
           (profile'.server = Gone) <=> (profile.server = Gone),
           ~abandoned' => ~abandoned,
           r.pc # "delete",
           profile.server # Gone => ~Deletes(r),
           profile.server # Gone => Provided(r) \subseteq Provided(flow[f]) \cup named',
           \A k \in Keys : IsStored(k)' =>
               IsStored(k) \/ (k \in Minds(r) /\ k \in Provided(r)),
           ~abandoned' /\ profile.server = Gone =>
               \A k \in Keys : IsStored(k)' /\ k \in Minds(flow[f]) => k \in Minds(r)
    PROVE NamesInv'
<1>1. CASE abandoned'
  BY <1>1 DEF NamesInv
<1>2. CASE ~abandoned' /\ profile.server = Gone
  <2>1. NamedAfterwards
    BY <1>2 DEF NamesInv
  <2>2. \A k \in Keys : IsStored(k)' /\ Minded(k) => Minded(k)'
    BY <1>2 DEF Minded, Moved
  <2>3. \A k \in Keys : IsStored(k)' /\ k \in Minds(r) => Minded(k)'
    BY DEF Minded, Moved
  <2>4. NamedAfterwards'
    BY <2>1, <2>2, <2>3 DEF NamedAfterwards, Moved
  <2>. QED
    BY <1>2, <2>4 DEF NamesInv
<1>3. CASE ~abandoned' /\ profile.server # Gone
  <2>1. NamedWhileThere
    BY <1>3 DEF NamesInv
  <2>2. Provided(r) \subseteq named'
    BY <1>3, <2>1 DEF NamedWhileThere
  <2>3. NamedWhileThere'
    BY <1>3, <2>1, <2>2 DEF NamedWhileThere, Moved
  <2>. QED
    BY <1>3, <2>3 DEF NamesInv
<1>. QED
  BY <1>1, <1>2, <1>3

(* A step that moves no request, names nothing and writes no secret.       *)
LEMMA NobodyMoves ==
    ASSUME NamesInv, UNCHANGED <<flow, named>>, ~abandoned' => ~abandoned,
           \A k \in Keys : IsStored(k)' => IsStored(k),
           (profile'.server = Gone) <=> (profile.server = Gone)
    PROVE NamesInv'
BY DEF NamesInv, NamedTogether, NamedWhileThere, NamedAfterwards, Minded

LEMMA ContinueMoves ==
    ASSUME FlowsInv, NEW f \in Flows, NEW pc, Continue(f, pc)
    PROVE /\ Moved(f, Onto(flow[f], pc))
          /\ Onto(flow[f], pc).pc = pc /\ Onto(flow[f], pc).kind = flow[f].kind
          /\ Onto(flow[f], pc).has = flow[f].has /\ Onto(flow[f], pc).keys = flow[f].keys
<1>1. flow[f] \in Flow
  BY DEF FlowsInv
<1>2. flow' = [flow EXCEPT ![f] = Onto(flow[f], pc)]
  BY <1>1 DEF FlowsInv, Continue, Onto
<1>3. Moved(f, Onto(flow[f], pc))
  BY <1>2 DEF FlowsInv, Moved
<1>. QED
  BY <1>1, <1>3 DEF Onto, Flow

LEMMA LeaveMoves ==
    ASSUME FlowsInv, NEW f \in Flows, Leave(f)
    PROVE /\ Moved(f, AtRest)
          /\ AtRest.pc = "idle" /\ AtRest.kind = "start" /\ AtRest.has = NoBundle
          /\ Provided(AtRest) = {} /\ Minds(AtRest) = {} /\ ~Deletes(AtRest)
BY FlowLeaves DEF AtRest, Provided, Minds, Deletes

(* A request goes on, or away, that has written nothing it minds.          *)
LEMMA QuietMoves ==
    ASSUME NamesInv, FlowsInv, NEW f \in Flows, NEW pc, Continue(f, pc) \/ Leave(f),
           UNCHANGED named, ~abandoned' => ~abandoned,
           \A k \in Keys : IsStored(k)' => IsStored(k),
           (profile'.server = Gone) <=> (profile.server = Gone),
           \/ Minds(flow[f]) = {} \/ abandoned' \/ profile.server # Gone
           \/ \A k \in Minds(flow[f]) : ~IsStored(k)',
           flow[f].pc \notin {"idle", "stage"} \/ Leave(f),
           pc # "delete", profile.server # Gone => pc \notin {"marker", "clearAll"}
    PROVE NamesInv'
<1>1. NamedTogether'
  BY DEF NamesInv, NamedTogether
<1>2. CASE Leave(f)
  BY <1>1, <1>2, LeaveMoves, OrderlyMoves
<1>3. CASE Continue(f, pc) /\ ~Leave(f)
  <2>1. /\ Moved(f, Onto(flow[f], pc)) /\ Onto(flow[f], pc).pc = pc
        /\ Onto(flow[f], pc).kind = flow[f].kind
    BY <1>3, ContinueMoves
  <2>2. /\ Provided(Onto(flow[f], pc)) \subseteq Provided(flow[f])
        /\ profile.server # Gone => ~Deletes(Onto(flow[f], pc))
    BY <1>3, <2>1 DEF Provided, Deletes
  <2>. QED
    BY <1>1, <2>1, <2>2, OrderlyMoves
<1>. QED
  BY <1>2, <1>3

(* Secrets that are taken away do not stand, and nothing else changes.     *)
LEMMA TakenAway ==
    ASSUME NEW keys \in SUBSET Keys, oauth' = Without(keys)
    PROVE \A k \in Keys : IsStored(k)' => IsStored(k) /\ k \notin keys
BY DEF Without, IsStored

LEMMA QuietSteps ==
    ASSUME ShapeInv, NamesInv, NEW f \in Flows,
           \/ LookBefore(f) \/ LookAtCallback(f) \/ ReadLatest(f) \/ Amend(f)
           \/ Find(f) \/ StillCurrent(f) \/ RefreshTokens(f) \/ ReadWinner(f)
           \/ Notify(f) \/ DropRefused(f) \/ ReleaseLease(f) \/ Clear(f)
           \/ ClearSecrets(f) \/ StopFlow(f)
    PROVE NamesInv'
<1>0. FlowsInv /\ flow[f] \in Flow /\ FitsAt(flow[f], flow[f].pc)
  BY DEF ShapeInv, FlowsInv, WellFormed
<1>1. CASE \/ LookBefore(f) \/ LookAtCallback(f) \/ ReadLatest(f)
           \/ Find(f) \/ StillCurrent(f) \/ RefreshTokens(f) \/ ReadWinner(f)
  <2>1. PICK pc : /\ Continue(f, pc) \/ Leave(f)
                  /\ pc \notin {"delete", "marker", "clearAll"}
    BY <1>1 DEF LookBefore, LookAtCallback, ReadLatest, Find, StillCurrent,
                RefreshTokens, ReadWinner
  <2>2. /\ UNCHANGED <<profile, oauth, named, abandoned>>
        /\ flow[f].pc \in {"look", "present", "report", "find", "still", "refresh", "winner"}
    BY <1>1 DEF LookBefore, LookAtCallback, ReadLatest, Find, StillCurrent,
                RefreshTokens, ReadWinner, Doing, rowAndSecrets, world
  <2>3. Minds(flow[f]) = {} /\ \A k \in Keys : IsStored(k)' => IsStored(k)
    BY <2>2 DEF Minds, IsStored
  <2>. QED
    BY <1>0, <2>1, <2>2, <2>3, QuietMoves
<1>2. CASE Amend(f) \/ Notify(f)
  <2>1. flow[f].server # Gone
    BY <1>0, ConnectionAssumption DEF Flow, Gone, Unconnected
  <2>2. (profile'.server = Gone) <=> (profile.server = Gone)
    BY <1>2, <2>1 DEF Amend, Notify, ShapeInv, RowInv, Profile
  <2>3. /\ UNCHANGED <<oauth, named, abandoned>> /\ flow[f].pc \in {"amend", "notify"}
        /\ Continue(f, "release") \/ Leave(f)
    BY <1>2 DEF Amend, Notify, Doing, world
  <2>4. Minds(flow[f]) = {} /\ \A k \in Keys : IsStored(k)' => IsStored(k)
    BY <2>3 DEF Minds, IsStored
  <2>. QED
    BY <1>0, <2>2, <2>3, <2>4, QuietMoves
<1>3. CASE DropRefused(f) \/ ReleaseLease(f)
  <2>1. PICK pc \in {"notify", "winner"} :
           /\ Continue(f, pc) \/ Leave(f)
           /\ UNCHANGED <<profile, named, abandoned>> /\ flow[f].pc \in {"refused", "release"}
    BY <1>3 DEF DropRefused, ReleaseLease, Doing, world
  <2>2. \A k \in Keys : IsStored(k)' => IsStored(k)
    <3>1. UNCHANGED oauth \/ oauth' = Without({"tokens"}) \/ oauth' = Without({"lease"})
      BY <1>3 DEF DropRefused, ReleaseLease
    <3>2. {"tokens"} \in SUBSET Keys /\ {"lease"} \in SUBSET Keys
      BY DEF Keys, OAuthKeys
    <3>3. UNCHANGED oauth => \A k \in Keys : IsStored(k)' => IsStored(k)
      BY DEF IsStored
    <3>. QED
      BY <3>1, <3>2, <3>3, TakenAway
  <2>3. Minds(flow[f]) = {}
    BY <2>1 DEF Minds
  <2>. QED
    BY <1>0, <2>1, <2>2, <2>3, QuietMoves
<1>4. CASE Clear(f)
  <2>. DEFINE keys == IF flow[f].kind = "put" THEN {"bearer"} ELSE OAuthKeys
  <2>1. keys \in SUBSET Keys /\ Minds(flow[f]) = keys
    BY <1>4 DEF Clear, Minds, Keys, OAuthKeys
  <2>2. \A k \in Keys : IsStored(k)' => IsStored(k) /\ k \notin keys
    BY <1>4, <2>1, TakenAway DEF Clear
  <2>. HIDE DEF keys
  <2>3. /\ UNCHANGED <<profile, named, abandoned>> /\ flow[f].pc \in {"clear", "clearAll"}
        /\ \/ Continue(f, "release") \/ Leave(f)
           \/ Continue(f, "marker") /\ flow[f].pc = "clearAll"
    BY <1>4 DEF Clear, Doing, world
  <2>4. profile.server # Gone /\ ~abandoned => flow[f].pc # "clearAll"
    BY DEF NamesInv, NamedWhileThere, Deletes
  <2>5. CASE abandoned
    BY <2>3, <2>5 DEF NamesInv, NamedTogether
  <2>6. CASE ~abandoned
    BY <1>0, <2>1, <2>2, <2>3, <2>4, <2>6, QuietMoves
  <2>. QED
    BY <2>5, <2>6
<1>5. CASE ClearSecrets(f)
  <2>1. {"bearer"} \in SUBSET Keys /\ OAuthKeys \in SUBSET Keys
    BY DEF Keys
  <2>2. \A k \in Keys : IsStored(k)' => IsStored(k)
    BY <1>5, <2>1, TakenAway DEF ClearSecrets
  <2>3. /\ UNCHANGED <<profile, named, abandoned>> /\ flow[f].pc \in {"bearer", "oauth"}
        /\ Continue(f, "oauth") \/ Leave(f)
    BY <1>5 DEF ClearSecrets, Doing, world
  <2>4. Minds(flow[f]) = {}
    BY <2>3 DEF Minds
  <2>. QED
    BY <1>0, <2>2, <2>3, <2>4, QuietMoves
<1>6. CASE StopFlow(f)
  <2>1. /\ UNCHANGED <<profile, oauth, named>> /\ Leave(f)
        /\ abandoned' = (abandoned \/ (LookedAfter(f) # {} /\ ~Doing(f, "delete")))
    BY <1>6 DEF StopFlow, rowAndSecrets
  <2>2. \A k \in Keys : IsStored(k)' => IsStored(k)
    BY <2>1 DEF IsStored
  <2>3. Minds(flow[f]) = {} \/ abandoned'
    BY <2>1 DEF Minds, LookedAfter, Doing
  <2>4. ~abandoned' => ~abandoned
    BY <2>1
  <2>. QED
    BY <1>0, <2>1, <2>2, <2>3, <2>4, QuietMoves
<1>. QED
  BY <1>1, <1>2, <1>3, <1>4, <1>5, <1>6

(* Steps that write secrets, begin a request or name what it needs.        *)
LEMMA WritingSteps ==
    ASSUME ShapeInv, NamesInv, NEW f \in Flows,
           \/ RegisterClient(f) \/ Propose(f) \/ KeepTokens(f) \/ StoreRefreshed(f)
           \/ SaveSecrets(f) \/ AcquireLease(f)
    PROVE NamesInv'
<1>0. /\ FlowsInv /\ flow[f] \in Flow /\ FitsAt(flow[f], flow[f].pc)
      /\ oauth \in Secrets /\ SecretsInv /\ NamedTogether
  BY DEF ShapeInv, FlowsInv, WellFormed, SecretsInv, NamesInv
<1>1. /\ UNCHANGED <<profile, named, abandoned>> /\ NamedTogether'
      /\ flow[f].pc \in {"register", "propose", "keep", "store", "save", "lease"}
  BY <1>0 DEF RegisterClient, Propose, KeepTokens, StoreRefreshed, SaveSecrets,
     AcquireLease, Doing, world, NamedTogether
<1>2. CASE (RegisterClient(f) \/ AcquireLease(f)) /\ Leave(f) /\ UNCHANGED oauth
  <2>1. \A k \in Keys : IsStored(k)' => IsStored(k)
    BY <1>2 DEF IsStored
  <2>2. Minds(flow[f]) = {}
    BY <1>2 DEF Minds, RegisterClient, AcquireLease, Doing
  <2>. QED
    BY <1>0, <1>1, <1>2, <2>1, <2>2, QuietMoves
<1>3. ASSUME NEW pc \in {"propose", "recheck"}, Continue(f, pc),
             \A k \in Keys : IsStored(k)' => IsStored(k) \/ k \in Minds(Onto(flow[f], pc)),
             flow[f].kind # "resolve"
      PROVE NamesInv'
  <2>. DEFINE r == Onto(flow[f], pc)
  <2>1. Moved(f, r) /\ r.pc = pc /\ r.kind = flow[f].kind
    BY <1>0, <1>3, ContinueMoves
  <2>2. flow[f].kind \in {"start", "callback", "put"}
    BY <1>0, <1>1, <1>3 DEF FitsAt, Resolving
  <2>3. /\ r.pc # "delete" /\ ~Deletes(r)
        /\ Provided(r) = Minds(r) /\ Provided(r) \subseteq Provided(flow[f])
        /\ Minds(flow[f]) \subseteq Minds(r)
    BY <1>1, <2>1, <2>2 DEF Deletes, Provided, Minds
  <2>. HIDE DEF r
  <2>4. \A k \in Keys : IsStored(k)' => IsStored(k) \/ (k \in Minds(r) /\ k \in Provided(r))
    BY <1>3, <2>3 DEF r
  <2>. QED
    BY <1>1, <2>1, <2>3, <2>4, OrderlyMoves
<1>4. CASE RegisterClient(f) /\ Continue(f, "propose") /\ oauth' = [oauth EXCEPT !.client = TRUE]
  <2>1. Continue(f, "propose") /\ oauth' = [oauth EXCEPT !.client = TRUE] /\ flow[f].kind = "start"
    BY <1>0, <1>4 DEF RegisterClient, FitsAt, Doing
  <2>2. \A k \in Keys : IsStored(k)' => IsStored(k) \/ k \in OAuthKeys
    BY <1>0, <2>1 DEF IsStored, Secrets, Keys, OAuthKeys
  <2>3. Minds(Onto(flow[f], "propose")) = OAuthKeys
    BY <1>0, <2>1, ContinueMoves DEF Minds
  <2>. QED
    BY <1>3, <2>1, <2>2, <2>3
<1>5. CASE Propose(f)
  <2>1. PICK p : /\ Continue(f, "recheck") /\ oauth' = [oauth EXCEPT !.pending = p]
                 /\ flow[f].kind = "start"
    BY <1>0, <1>5 DEF Propose, FitsAt, Doing
  <2>2. \A k \in Keys : IsStored(k)' => IsStored(k) \/ k \in OAuthKeys
    BY <1>0, <2>1 DEF IsStored, Secrets, Keys, OAuthKeys
  <2>3. Minds(Onto(flow[f], "recheck")) = OAuthKeys
    BY <1>0, <2>1, ContinueMoves DEF Minds
  <2>. QED
    BY <1>3, <2>1, <2>2, <2>3
<1>6. CASE KeepTokens(f)
  <2>1. /\ Continue(f, "recheck") /\ oauth' = [oauth EXCEPT !.tokens = flow[f].has]
        /\ flow[f].kind = "callback"
    BY <1>0, <1>6 DEF KeepTokens, FitsAt, Doing
  <2>2. \A k \in Keys : IsStored(k)' => IsStored(k) \/ k \in OAuthKeys
    BY <1>0, <2>1 DEF IsStored, Secrets, Keys, OAuthKeys
  <2>3. Minds(Onto(flow[f], "recheck")) = OAuthKeys
    BY <1>0, <2>1, ContinueMoves DEF Minds
  <2>. QED
    BY <1>3, <2>1, <2>2, <2>3
<1>7. CASE SaveSecrets(f)
  <2>1. PICK saved \in BOOLEAN, clearOAuth \in BOOLEAN :
           oauth' = [(IF clearOAuth THEN Without(OAuthKeys) ELSE oauth) EXCEPT !.bearer = saved]
    BY <1>7 DEF SaveSecrets
  <2>2. Continue(f, "recheck") /\ flow[f].kind = "put"
    BY <1>0, <1>7 DEF SaveSecrets, FitsAt, Doing
  <2>. DEFINE kept == IF clearOAuth THEN Without(OAuthKeys) ELSE oauth
  <2>3. /\ kept \in Secrets
        /\ \A k \in Keys : k # "lease" /\ kept[k] # NoSecrets[k] => IsStored(k)
    <3>1. OAuthKeys \in SUBSET Keys
      BY DEF Keys
    <3>2. CASE clearOAuth
      BY <1>0, <3>1, <3>2, WithoutIsFine DEF Without, IsStored
    <3>3. CASE ~clearOAuth
      BY <1>0, <3>3 DEF IsStored
    <3>. QED
      BY <3>2, <3>3
  <2>4. oauth' = [kept EXCEPT !.bearer = saved]
    BY <2>1
  <2>. HIDE DEF kept
  <2>5. \A k \in Keys : IsStored(k)' => IsStored(k) \/ k \in {"bearer"}
    BY <2>3, <2>4 DEF IsStored, Secrets, Keys, OAuthKeys
  <2>6. Minds(Onto(flow[f], "recheck")) = {"bearer"}
    BY <1>0, <2>2, ContinueMoves DEF Minds
  <2>. QED
    BY <1>3, <2>2, <2>5, <2>6
<1>8. CASE StoreRefreshed(f) \/ (AcquireLease(f) /\ Continue(f, "reread"))
  <2>1. PICK pc \in {"reread", "recheck", "release"} : Continue(f, pc)
    BY <1>8 DEF StoreRefreshed, AcquireLease
  <2>2. \A k \in Keys : IsStored(k)' => IsStored(k)
    <3>1. CASE UNCHANGED oauth
      BY <3>1 DEF IsStored
    <3>2. CASE StoreRefreshed(f) /\ ~UNCHANGED oauth
      <4>1. Real(oauth.tokens) /\ oauth' = [oauth EXCEPT !.tokens = Refreshed(flow[f].has)]
        BY <1>0, <3>2 DEF StoreRefreshed, Doing, FitsAt
      <4>2. oauth.tokens # NoBundle
        BY <4>1, ConnectionAssumption DEF Real, NoBundle, Unconnected
      <4>3. IsStored("tokens")
        BY <4>2 DEF IsStored, NoSecrets
      <4>4. \A k \in Keys \ {"tokens"} : IsStored(k)' => IsStored(k)
        BY <1>0, <4>1 DEF IsStored, Secrets, Keys, OAuthKeys
      <4>. QED
        BY <4>3, <4>4
    <3>3. CASE AcquireLease(f) /\ ~UNCHANGED oauth
      BY <1>0, <3>3 DEF AcquireLease, IsStored, Secrets, Keys, OAuthKeys
    <3>. QED
      BY <1>8, <3>1, <3>2, <3>3
  <2>3. Minds(flow[f]) = {}
    BY <1>1, <1>8 DEF Minds, StoreRefreshed, AcquireLease, Doing
  <2>. QED
    BY <1>0, <1>1, <2>1, <2>2, <2>3, QuietMoves
<1>. QED
  BY <1>2, <1>4, <1>5, <1>6, <1>7, <1>8 DEF RegisterClient, AcquireLease, StoreRefreshed

(* A request enters.                                                       *)
LEMMA EnteringSteps ==
    ASSUME ShapeInv, NamesInv, NEW f \in Flows,
           \/ BeginStart(f) \/ BeginCallback(f) \/ BeginResolve(f)
           \/ BeginPut(f) \/ BeginClear(f) \/ BeginDelete(f)
    PROVE NamesInv'
<1>0. FlowsInv /\ SecretsInv /\ oauth \in Secrets /\ flow \in [Flows -> Flow]
  BY DEF ShapeInv, SecretsInv, FlowsInv
<1>1. /\ UNCHANGED <<profile, named, abandoned>> /\ NamedTogether /\ NamedTogether'
      /\ \A k \in Keys : IsStored(k)' => IsStored(k)
  <2>1. UNCHANGED oauth \/ oauth' = [oauth EXCEPT !.pending = NotPending]
    BY DEF BeginStart, BeginCallback, BeginResolve, BeginPut, BeginClear, BeginDelete,
           rowAndSecrets
  <2>2. \A k \in Keys : IsStored(k)' => IsStored(k)
    <3>1. CASE UNCHANGED oauth
      BY <3>1 DEF IsStored
    <3>2. CASE oauth' = [oauth EXCEPT !.pending = NotPending]
      BY <1>0, <3>2 DEF IsStored, NoSecrets, Secrets, Keys, OAuthKeys
    <3>. QED
      BY <2>1, <3>1, <3>2
  <2>3. UNCHANGED <<profile, named, abandoned>>
    BY DEF BeginStart, BeginCallback, BeginResolve, BeginPut, BeginClear, BeginDelete,
           rowAndSecrets, Enter
  <2>. QED
    BY <2>2, <2>3 DEF NamesInv, NamedTogether
<1>2. CASE BeginCallback(f) /\ UNCHANGED flow
  BY <1>1, <1>2, NobodyMoves
<1>3. CASE \/ BeginStart(f) \/ BeginResolve(f) \/ BeginPut(f) \/ BeginClear(f)
           \/ BeginDelete(f)
  <2>1. PICK kind, pc, server, keys :
           /\ Enter(f, kind, pc, server, keys)
           /\ \/ pc = "stage" \/ (kind = "resolve" /\ pc = "find")
              \/ (kind = "clear" /\ pc = "bearer")
              \/ (kind = "delete" /\ pc = "marker" /\ profile.server = Gone)
    BY <1>3 DEF BeginStart, BeginResolve, BeginPut, BeginClear, BeginDelete
  <2>. DEFINE r == [AtRest EXCEPT !.kind = kind, !.pc = pc, !.server = server,
                                  !.keys = keys]
  <2>2. r.pc = pc /\ r.kind = kind
    BY DEF AtRest
  <2>3. flow' = [flow EXCEPT ![f] = r] /\ flow[f].pc = "idle"
    BY <2>1 DEF Enter, Doing
  <2>. HIDE DEF r
  <2>4. Moved(f, r)
    BY <1>0, <2>3 DEF Moved
  <2>5. /\ r.pc # "delete" /\ Provided(r) = {} /\ Minds(flow[f]) = {}
        /\ profile.server # Gone => ~Deletes(r)
    BY <2>1, <2>2, <2>3 DEF Provided, Minds, Deletes
  <2>. QED
    BY <1>1, <2>4, <2>5, OrderlyMoves
<1>4. CASE BeginCallback(f) /\ ~UNCHANGED flow
  <2>. DEFINE r == [AtRest EXCEPT !.kind = "callback", !.pc = "present",
                                  !.server = oauth.pending.server,
                                  !.from = oauth.pending.from]
  <2>1. r.pc = "present" /\ r.kind = "callback"
    BY DEF AtRest
  <2>2. flow' = [flow EXCEPT ![f] = r] /\ flow[f].pc = "idle" /\ oauth.pending # NotPending
    BY <1>4 DEF BeginCallback, Doing
  <2>. HIDE DEF r
  <2>3. Moved(f, r)
    BY <1>0, <2>2 DEF Moved
  <2>4. IsStored("pending")
    BY <2>2 DEF IsStored, NoSecrets
  <2>5. profile.server # Gone /\ ~abandoned => OAuthKeys \subseteq named
    BY <1>1, <2>4 DEF NamesInv, NamedWhileThere, NamedTogether, Keys, OAuthKeys
  <2>6. /\ r.pc # "delete" /\ Provided(r) = OAuthKeys /\ Minds(flow[f]) = {} /\ ~Deletes(r)
    BY <2>1, <2>2 DEF Provided, Minds, Deletes
  <2>7. CASE abandoned
    BY <1>1, <2>7 DEF NamesInv
  <2>8. CASE ~abandoned
    BY <1>1, <2>3, <2>5, <2>6, <2>8, OrderlyMoves
  <2>. QED
    BY <2>7, <2>8
<1>. QED
  BY <1>2, <1>3, <1>4

(* A request names its secrets, or learns something, or looks at the row.  *)
LEMMA LookingSteps ==
    ASSUME ShapeInv, NamesInv, NEW f \in Flows,
           \/ Stage(f) \/ ExchangeCode(f) \/ Verify(f) \/ ReadAgain(f) \/ Recheck(f)
    PROVE NamesInv'
<1>0. /\ FlowsInv /\ flow[f] \in Flow /\ FitsAt(flow[f], flow[f].pc)
      /\ flow \in [Flows -> Flow] /\ NamedTogether
  BY DEF ShapeInv, FlowsInv, WellFormed, NamesInv
<1>1. /\ UNCHANGED <<profile, oauth, abandoned>>
      /\ \A k \in Keys : IsStored(k)' => IsStored(k)
  BY DEF Stage, ExchangeCode, Verify, ReadAgain, Recheck, world, rowAndSecrets, IsStored
<1>2. CASE Stage(f)
  <2>. DEFINE r == Onto(flow[f], CASE flow[f].kind = "start" -> "look"
                                 [] flow[f].kind = "put" -> "save"
                                 [] flow[f].kind = "delete" -> "row")
  <2>1. Moved(f, r) /\ r.kind = flow[f].kind /\ r.pc \in {"look", "save", "row"}
    BY <1>0, <1>2, ContinueMoves DEF Stage, FitsAt, Doing
  <2>. HIDE DEF r
  <2>2. named' = named \cup flow[f].keys /\ flow[f].pc = "stage"
    BY <1>2 DEF Stage, Doing
  <2>3. /\ flow[f].keys \in {OAuthKeys, {"bearer"}, Keys, {}}
        /\ flow[f].kind = "start" => flow[f].keys = OAuthKeys
        /\ flow[f].kind = "put" => flow[f].keys = {"bearer"}
        /\ flow[f].kind \in {"start", "put", "delete"}
    BY <1>0, <2>2 DEF FitsAt
  <2>4. NamedTogether' /\ named \subseteq named'
    BY <1>0, <2>2, <2>3 DEF NamedTogether, Keys, OAuthKeys
  <2>5. /\ r.pc # "delete" /\ Provided(r) \subseteq named' /\ Minds(flow[f]) = {}
        /\ ~Deletes(r)
    BY <2>1, <2>2, <2>3 DEF Provided, Minds, Deletes
  <2>. QED
    BY <1>1, <2>1, <2>4, <2>5, OrderlyMoves
<1>3. CASE ExchangeCode(f) \/ Verify(f) \/ ReadAgain(f)
  <2>0. /\ UNCHANGED named /\ NamedTogether' /\ Minds(flow[f]) = {}
        /\ flow[f].pc \in {"exchange", "verify", "reread"}
    BY <1>0, <1>3 DEF ExchangeCode, Verify, ReadAgain, rowAndSecrets, Doing, Minds,
                      NamedTogether
  <2>1. CASE Continue(f, "release") \/ Leave(f)
    BY <1>0, <1>1, <2>0, <2>1, QuietMoves
  <2>2. CASE ~(Continue(f, "release") \/ Leave(f))
    <3>1. /\ Moved(f, flow'[f]) /\ flow'[f].kind = flow[f].kind
          /\ flow'[f].pc \in {"keep", "report", "still"}
      BY <1>0, <1>3, <2>2 DEF ExchangeCode, Verify, ReadAgain, Moved, Flow
    <3>2. /\ flow'[f].pc # "delete" /\ Provided(flow'[f]) = Provided(flow[f])
          /\ ~Deletes(flow'[f])
      BY <2>0, <3>1 DEF Provided, Deletes
    <3>. QED
      BY <1>1, <2>0, <3>1, <3>2, OrderlyMoves
  <2>. QED
    BY <2>1, <2>2
<1>4. CASE Recheck(f)
  <2>0. UNCHANGED named /\ NamedTogether' /\ flow[f].pc = "recheck"
    BY <1>0, <1>4 DEF Recheck, rowAndSecrets, Doing, NamedTogether
  <2>1. CASE Stays(f)
    <3>1. profile.server # Gone
      BY <1>0, <2>1, ConnectionAssumption DEF Stays, Connected, IsCurrent, Flow, Gone, Unconnected
    <3>2. PICK pc \in {"verify", "release"} : Continue(f, pc) \/ Leave(f)
      BY <1>4, <2>1 DEF Recheck
    <3>. QED
      BY <1>0, <1>1, <2>0, <3>1, <3>2, QuietMoves
  <2>2. CASE ~Stays(f)
    <3>. DEFINE pc == IF flow[f].kind = "put" /\ profile.server = Gone
                      THEN "clearAll" ELSE "clear"
                r == Onto(flow[f], pc)
    <3>1. Moved(f, r) /\ r.pc = pc /\ r.kind = flow[f].kind
      BY <1>0, <1>4, <2>2, ContinueMoves DEF Recheck
    <3>. HIDE DEF r
    <3>2. /\ r.pc # "delete" /\ Provided(r) = Provided(flow[f]) /\ Minds(r) = Minds(flow[f])
          /\ profile.server # Gone => ~Deletes(r)
      BY <2>0, <3>1 DEF Provided, Minds, Deletes
    <3>. QED
      BY <1>1, <2>0, <3>1, <3>2, OrderlyMoves
  <2>. QED
    BY <2>1, <2>2
<1>. QED
  BY <1>2, <1>3, <1>4

(* The profile is deleted, and its secrets are.                            *)
LEMMA DeletingSteps ==
    ASSUME ShapeInv, NamesInv, NEW f \in Flows,
           DeleteRow(f) \/ ReadMarker(f) \/ DeleteNamed(f)
    PROVE NamesInv'
<1>0. /\ FlowsInv /\ flow[f] \in Flow /\ flow \in [Flows -> Flow] /\ NamedTogether
      /\ named \subseteq Keys
  BY DEF ShapeInv, FlowsInv, SecretsInv, NamesInv
<1>1. UNCHANGED abandoned
  BY DEF DeleteRow, ReadMarker, DeleteNamed, world
<1>2. CASE abandoned
  <2>1. NamedTogether'
    BY <1>0, <1>2 DEF NamedTogether, DeleteRow, ReadMarker, DeleteNamed, rowAndSecrets
  <2>. QED
    BY <1>1, <1>2, <2>1 DEF NamesInv
<1>3. CASE ~abandoned /\ DeleteRow(f)
  <2>0. UNCHANGED <<oauth, named>> /\ flow[f].pc = "row" /\ NamedTogether'
    BY <1>0, <1>3 DEF DeleteRow, Doing, NamedTogether
  <2>1. \A k \in Keys : IsStored(k)' => IsStored(k)
    BY <2>0 DEF IsStored
  <2>2. Minds(flow[f]) = {}
    BY <2>0 DEF Minds
  <2>3. CASE Leave(f) /\ UNCHANGED profile
    BY <1>0, <1>1, <2>0, <2>1, <2>2, <2>3, QuietMoves
  <2>4. CASE ~(Leave(f) /\ UNCHANGED profile) /\ profile.server = Gone
    <3>1. profile'.server = Gone /\ Continue(f, "marker")
      BY <1>3, <2>4 DEF DeleteRow, NoProfile
    <3>. QED
      BY <1>0, <1>1, <2>0, <2>1, <2>2, <2>4, <3>1, QuietMoves
  <2>5. CASE ~(Leave(f) /\ UNCHANGED profile) /\ profile.server # Gone
    <3>1. profile'.server = Gone /\ Continue(f, "marker")
      BY <1>3, <2>5 DEF DeleteRow, NoProfile
    <3>2. NamedWhileThere
      BY <1>3, <2>5 DEF NamesInv
    <3>3. \A g \in Flows : flow'[g].pc # "delete"
      BY <1>0, <3>1, <3>2, ContinueMoves DEF NamedWhileThere, Deletes, Moved
    <3>4. NamedAfterwards'
      BY <2>0, <2>1, <3>2, <3>3 DEF NamedWhileThere, NamedAfterwards
    <3>. QED
      BY <1>3, <2>0, <3>1, <3>4 DEF NamesInv
  <2>. QED
    BY <2>3, <2>4, <2>5
<1>4. CASE ~abandoned /\ ~DeleteRow(f)
  <2>0. /\ UNCHANGED profile /\ flow[f].pc \in {"marker", "delete"} /\ Minds(flow[f]) = {}
    BY <1>4 DEF ReadMarker, DeleteNamed, Doing, rowAndSecrets, Minds
  <2>1. profile.server = Gone /\ NamedAfterwards
    BY <1>4, <2>0 DEF NamesInv, NamedWhileThere, Deletes
  <2>2. CASE Leave(f) /\ UNCHANGED <<oauth, named>>
    <3>1. \A k \in Keys : IsStored(k)' => IsStored(k)
      BY <2>2 DEF IsStored
    <3>. QED
      BY <1>0, <1>1, <2>0, <2>2, <3>1, QuietMoves
  <2>3. ASSUME flow'[f].pc = "delete" \/ Leave(f),
               \A g \in Flows : g # f => flow'[g] = flow[g],
               \A k \in Keys : IsStored(k)' => IsStored(k),
               \A k \in Keys : IsStored(k)' => k \in named' \/ Minded(k),
               \A k \in Keys : IsStored(k)' /\ ~Leave(f) => k \in flow'[f].keys \/ Minded(k),
               NamedTogether'
        PROVE NamesInv'
    <3>1. Minds(flow'[f]) = {} /\ (Leave(f) => flow'[f].pc = "idle")
      BY <1>0, <2>3, LeaveMoves DEF Minds, Moved
    <3>2. \A k : Minded(k)' <=> Minded(k)
      BY <2>0, <2>3, <3>1 DEF Minded
    <3>3. NamedAfterwards'
      BY <2>1, <2>3, <3>1, <3>2 DEF NamedAfterwards
    <3>. QED
      BY <1>1, <1>4, <2>0, <2>1, <2>3, <3>3 DEF NamesInv
  <2>4. CASE ReadMarker(f) /\ ~Leave(f)
    <3>1. /\ UNCHANGED <<oauth, named>> /\ flow'[f].pc = "delete" /\ flow'[f].keys = named
          /\ \A g \in Flows : g # f => flow'[g] = flow[g]
      BY <1>0, <2>4 DEF ReadMarker, rowAndSecrets, Flow
    <3>2. (\A k \in Keys : IsStored(k)' <=> IsStored(k)) /\ NamedTogether'
      BY <1>0, <3>1 DEF IsStored, NamedTogether
    <3>. QED
      BY <2>1, <2>3, <3>1, <3>2 DEF NamedAfterwards
  <2>5. ASSUME DeleteNamed(f), UNCHANGED named, NEW k \in flow[f].keys,
               oauth' = Without({k}), flow' = [flow EXCEPT ![f].keys = @ \ {k}]
        PROVE NamesInv'
    <3>1. oauth' = Without({k}) /\ flow' = [flow EXCEPT ![f].keys = @ \ {k}]
      BY <2>5
    <3>2. /\ flow[f].pc = "delete" /\ flow'[f].pc = "delete"
          /\ flow'[f].keys = flow[f].keys \ {k}
          /\ \A g \in Flows : g # f => flow'[g] = flow[g]
      BY <1>0, <2>5, <3>1 DEF DeleteNamed, Doing, Flow
    <3>3. \A j \in Keys : IsStored(j)' => IsStored(j) /\ j # k
      <4>1. {k} \in SUBSET Keys
        BY <1>0, <3>1 DEF Flow
      <4>. QED
        BY <3>1, <4>1, TakenAway
    <3>4. NamedTogether'
      BY <1>0, <2>5 DEF NamedTogether
    <3>. QED
      BY <2>1, <2>3, <2>5, <3>2, <3>3, <3>4 DEF NamedAfterwards
  <2>6. CASE DeleteNamed(f) /\ flow[f].keys = {} /\ named' = {} /\ Leave(f) /\ UNCHANGED oauth
    <3>1. /\ \A g \in Flows : g # f => flow'[g] = flow[g]
          /\ flow[f].pc = "delete"
      BY <1>0, <2>6, LeaveMoves DEF Moved, DeleteNamed, Doing
    <3>2. (\A k \in Keys : IsStored(k)' <=> IsStored(k)) /\ NamedTogether'
      BY <2>6 DEF IsStored, NamedTogether
    <3>. QED
      BY <2>1, <2>3, <2>6, <3>1, <3>2 DEF NamedAfterwards
  <2>. QED
    BY <1>4, <2>2, <2>4, <2>5, <2>6 DEF ReadMarker, DeleteNamed, rowAndSecrets
<1>. QED
  BY <1>2, <1>3, <1>4

LEMMA NamesStep == ShapeInv /\ NamesInv /\ [ConnectionNext]_connectionVars => NamesInv'
<1>. SUFFICES ASSUME ShapeInv, NamesInv, [ConnectionNext]_connectionVars
              PROVE NamesInv'
  OBVIOUS
<1>0. oauth \in Secrets /\ profile \in Profile /\ flow \in [Flows -> Flow]
  BY DEF ShapeInv, SecretsInv, RowInv, FlowsInv
<1>1. CASE UNCHANGED connectionVars
  <2>1. \A k \in Keys : IsStored(k)' => IsStored(k)
    BY <1>1 DEF connectionVars, IsStored
  <2>. QED
    BY <1>1, <2>1, NobodyMoves DEF connectionVars
<1>2. ASSUME NEW f \in Flows, FlowNext(f)
      PROVE NamesInv'
  BY <1>2, QuietSteps, WritingSteps, EnteringSteps, LookingSteps, DeletingSteps
     DEF FlowNext
<1>3. CASE EditProfile
  <2>1. profile.server # Gone /\ profile'.server # Gone /\ UNCHANGED <<flow, oauth, named, abandoned>>
    BY <1>3, ConnectionAssumption DEF EditProfile, Gone, Unconnected, world
  <2>2. \A k \in Keys : IsStored(k)' => IsStored(k)
    BY <2>1 DEF IsStored
  <2>. QED
    BY <2>1, <2>2, NobodyMoves
<1>4. CASE CreateProfile
  <2>1. /\ profile.server = Gone /\ profile'.server # Gone /\ UNCHANGED <<flow, oauth, named>>
        /\ abandoned' = (abandoned \/ \E f \in Flows : ~Doing(f, "idle"))
    BY <1>4, ConnectionAssumption DEF CreateProfile, Gone, Unconnected
  <2>2. (\A k \in Keys : IsStored(k)' => IsStored(k)) /\ NamedTogether'
    BY <2>1 DEF IsStored, NamesInv, NamedTogether
  <2>3. CASE abandoned'
    BY <2>2, <2>3 DEF NamesInv
  <2>4. CASE ~abandoned'
    <3>1. NamedAfterwards /\ \A f \in Flows : flow[f].pc = "idle"
      BY <2>1, <2>4 DEF NamesInv, Doing
    <3>2. /\ \A k : ~Minded(k)
          /\ \A f \in Flows : Provided(flow[f]) = {} /\ ~Deletes(flow[f])
      BY <3>1 DEF Minded, Minds, Provided, Deletes
    <3>3. NamedWhileThere'
      BY <2>1, <2>2, <3>1, <3>2 DEF NamedAfterwards, NamedWhileThere
    <3>. QED
      BY <2>1, <2>2, <3>3 DEF NamesInv
  <2>. QED
    BY <2>3, <2>4
<1>5. CASE TokensComeDue \/ LeaseTimeIsOver \/ ServerEnds
  <2>1. UNCHANGED <<profile, flow, named, abandoned>>
    BY <1>5 DEF TokensComeDue, LeaseTimeIsOver, ServerEnds, rowAndSecrets
  <2>2. UNCHANGED oauth \/ oauth' = [oauth EXCEPT !.lease.over = TRUE]
    BY <1>5 DEF TokensComeDue, LeaseTimeIsOver, ServerEnds, rowAndSecrets
  <2>3. \A k \in Keys : IsStored(k)' => IsStored(k)
    BY <1>0, <2>2 DEF IsStored, Secrets, Keys, OAuthKeys
  <2>. QED
    BY <2>1, <2>3, NobodyMoves
<1>. QED
  BY <1>1, <1>2, <1>3, <1>4, <1>5 DEF ConnectionNext

LEMMA NamesInit == ConnectionInit => NamesInv
<1>. SUFFICES ASSUME ConnectionInit
              PROVE NamesInv
  OBVIOUS
<1>1. PICK first \in 0 .. MaxAuthorizations :
         /\ profile.server \in Servers
         /\ oauth = AuthorizedFrom(first)
         /\ named = IF first = 0 THEN {} ELSE OAuthKeys
         /\ flow = [f \in Flows |-> AtRest]
  BY DEF ConnectionInit
<1>2. NamedTogether /\ profile.server # Gone
  BY <1>1, ConnectionAssumption DEF NamedTogether, Gone
<1>3. \A f \in Flows : Provided(flow[f]) = {} /\ ~Deletes(flow[f])
  BY <1>1 DEF Provided, Deletes, AtRest
<1>4. \A k \in Keys : IsStored(k) => k \in named
  <2>1. CASE first = 0
    BY <1>1, <2>1 DEF AuthorizedFrom, IsStored
  <2>2. CASE first # 0
    BY <1>1, <2>2 DEF AuthorizedFrom, IsStored, NoSecrets, Keys, OAuthKeys
  <2>. QED
    BY <2>1, <2>2
<1>. QED
  BY <1>2, <1>3, <1>4 DEF NamesInv, NamedWhileThere

(* LeftoversAreNamed, which mcp-secrets.ts promises of the marker: however *)
(* many requests write, look and delete at once, what outlives its         *)
(* connection is in the marker, or somebody is about to remove it.         *)
THEOREM LeftoversCanBeFound == ConnectionSpec => []LeftoversAreNamed
<1>1. ConnectionInit => ShapeInv /\ NamesInv
  BY ShapeInit, NamesInit
<1>2. ShapeInv /\ NamesInv /\ [ConnectionNext]_connectionVars => (ShapeInv /\ NamesInv)'
  BY ShapeStep, NamesStep
<1>3. ShapeInv /\ NamesInv => LeftoversAreNamed
  <2>. SUFFICES ASSUME ShapeInv, NamesInv, ~Connected, ~abandoned,
                       NEW k \in Keys \ {"lease"}, oauth[k] # NoSecrets[k]
                PROVE k \in named \/ \E f \in Flows : k \in LookedAfter(f)
    BY DEF LeftoversAreNamed
  <2>1. IsStored(k)
    BY DEF IsStored
  <2>2. Minded(k) => \E f \in Flows : k \in LookedAfter(f)
    BY DEF Minded, Minds, LookedAfter, Doing
  <2>. QED
    BY <2>1, <2>2 DEF NamesInv, NamedWhileThere, NamedAfterwards
<1>. QED
  BY <1>1, <1>2, <1>3, PTL DEF ConnectionSpec

-----------------------------------------------------------------------------
(* The rotation of the tokens                                              *)

(* Tokens that are new are nobody else's; tokens a request has read are    *)
(* those in the settings, or older, or of another authorization.           *)
NewTokens ==
    \A f \in Flows : flow[f].pc = "keep" =>
        /\ authorized[flow[f].has.from] \in {1, Ended}
        /\ oauth.tokens.from # flow[f].has.from
        /\ \A g \in Flows : g # f /\ (flow[g].kind = "resolve" \/ flow[g].pc = "keep") =>
               flow[g].has.from # flow[f].has.from
OldTokens ==
    \A f \in Flows : flow[f].kind = "resolve" /\ flow[f].has.from = oauth.tokens.from =>
        flow[f].has = oauth.tokens \/ flow[f].has.refresh < oauth.tokens.refresh
NoTokensYet ==
    \A a \in Authorizations : authorized[a] \in {Unstarted, Asked} =>
        oauth.tokens.from # a /\ \A f \in Flows : flow[f].has.from # a

TokensInv == NewTokens /\ OldTokens /\ NoTokensYet

(* Of the tokens in the settings: one request at a time refreshes them,    *)
(* under its lease while there is a profile, and the server takes their    *)
(* refresh token unless that request has used it or the server has ended   *)
(* the authorization.                                                      *)
Presents(r) == r.pc \in {"refresh", "store"}
UnderLease ==
    /\ \A f \in Flows : flow[f].pc = "reread" /\ oauth.lease.by = f => ~oauth.lease.over
    /\ profile.server # Gone =>
          \A f \in Flows :
              (flow[f].pc = "still" \/ Presents(flow[f])) /\ flow[f].has = oauth.tokens =>
                  oauth.lease.by = f /\ ~oauth.lease.over
    /\ \A f, g \in Flows :
          Presents(flow[f]) /\ Presents(flow[g])
              /\ flow[f].has = oauth.tokens /\ flow[g].has = oauth.tokens => f = g
StillTaken ==
    /\ oauth.tokens # NoBundle =>
          \/ authorized[oauth.tokens.from] \in {oauth.tokens.refresh, Ended}
          \/ \E f \in Flows : flow[f].pc = "store" /\ flow[f].has = oauth.tokens
    /\ \A f \in Flows : flow[f].pc = "store" /\ flow[f].has = oauth.tokens =>
          authorized[oauth.tokens.from] \in {oauth.tokens.refresh + 1, Ended}
    /\ \A f \in Flows : flow[f].pc = "refused" /\ flow[f].has = oauth.tokens =>
          authorized[oauth.tokens.from] = Ended

RotationInv ==
    /\ TokensInv
    /\ ~excused /\ ~abandoned => UnderLease /\ StillTaken

(* Tokens that are tokens have an authorization, and no tokens have none.  *)
LEMMA TokensHaveOrigin ==
    ASSUME ShapeInv
    PROVE /\ oauth.tokens = NoBundle \/ Real(oauth.tokens)
          /\ oauth.tokens \in Bundle
          /\ ~Real(NoBundle) /\ NoBundle.from = 0 /\ NoBundle.refresh = 0
          /\ \A b : Real(b) => b.from > 0 /\ b.from \in Int
          /\ \A f \in Flows : /\ flow[f].has = NoBundle \/ Real(flow[f].has)
                              /\ flow[f].has \in Bundle
                              /\ Presents(flow[f]) \/ flow[f].pc \in {"still", "refused", "keep"}
                                    => Real(flow[f].has)
<1>1. /\ oauth.tokens = NoBundle \/ Real(oauth.tokens)
      /\ oauth.tokens \in Bundle
  BY DEF ShapeInv, SecretsInv, Secrets
<1>2. ~Real(NoBundle) /\ NoBundle.from = 0 /\ NoBundle.refresh = 0
  BY DEF Real, NoBundle
<1>3. \A b : Real(b) => b.from > 0 /\ b.from \in Int
  BY ConnectionAssumption DEF Real, Authorizations
<1>4. ASSUME NEW f \in Flows
      PROVE /\ flow[f].has = NoBundle \/ Real(flow[f].has)
            /\ flow[f].has \in Bundle
            /\ Presents(flow[f]) \/ flow[f].pc \in {"still", "refused", "keep"}
                  => Real(flow[f].has)
  BY DEF ShapeInv, FlowsInv, WellFormed, FitsAt, Flow, Presents
<1>. QED
  BY <1>1, <1>2, <1>3, <1>4

(* The server's answers stand, tokens go at most, and the request that     *)
(* moves has forgotten its tokens, or has them as before, or those of the  *)
(* settings.                                                               *)
LEMMA TokensStand ==
    ASSUME ShapeInv, TokensInv, UNCHANGED authorized,
           oauth'.tokens \in {oauth.tokens, NoBundle},
           NEW f \in Flows, NEW r, Moved(f, r), r.pc # "keep",
           \/ r.has = NoBundle
           \/ r.has = flow[f].has /\ (r.kind = "resolve" => flow[f].kind = "resolve")
           \/ r.has = oauth.tokens /\ oauth'.tokens = oauth.tokens
    PROVE TokensInv'
<1>. USE TokensHaveOrigin
<1>1. NewTokens'
  BY DEF TokensInv, NewTokens, Moved
<1>2. OldTokens'
  BY DEF TokensInv, OldTokens, Moved, Bundle
<1>3. NoTokensYet'
  BY DEF TokensInv, NoTokensYet, Moved, Authorizations
<1>. QED
  BY <1>1, <1>2, <1>3 DEF TokensInv

LEMMA TokensStay ==
    ASSUME ShapeInv, TokensInv, UNCHANGED <<flow, authorized>>,
           oauth'.tokens \in {oauth.tokens, NoBundle}
    PROVE TokensInv'
<1>. USE TokensHaveOrigin
<1>1. NewTokens'
  BY DEF TokensInv, NewTokens
<1>2. OldTokens'
  BY DEF TokensInv, OldTokens, Bundle
<1>3. NoTokensYet'
  BY DEF TokensInv, NoTokensYet, Authorizations
<1>. QED
  BY <1>1, <1>2, <1>3 DEF TokensInv

(* What is not a refresh leaves the tokens or takes them away, and leaves  *)
(* the lease unless it takes the tokens too, or there is no profile, or    *)
(* the lease is its own.                                                   *)
Milder(f) ==
    /\ oauth'.tokens \in {oauth.tokens, NoBundle}
    /\ \/ oauth'.lease = oauth.lease
       \/ /\ oauth'.lease = Vacant
          /\ oauth'.tokens = NoBundle \/ oauth.lease.by = f \/ profile.server = Gone
             \/ abandoned'

LEMMA LeaseStands ==
    ASSUME ShapeInv, RotationInv, UNCHANGED authorized,
           NEW f \in Flows, NEW r, Moved(f, r), Milder(f),
           r.pc \notin {"reread", "still", "refresh", "store", "refused"},
           ~excused' => ~excused /\ (flow[f].pc = "store" => flow[f].has # oauth.tokens),
           ~abandoned' => ~abandoned,
           profile.server = Gone => profile'.server = Gone
    PROVE ~excused' /\ ~abandoned' => UnderLease' /\ StillTaken'
<1>. SUFFICES ASSUME ~excused', ~abandoned'
              PROVE UnderLease' /\ StillTaken'
  OBVIOUS
<1>. USE TokensHaveOrigin
<1>1. UnderLease /\ StillTaken
  BY DEF RotationInv
<1>3. \A g \in Flows : oauth'.lease.by = g => oauth'.lease = oauth.lease
  BY ConnectionAssumption DEF Milder, Vacant, NoFlow
<1>4. oauth'.tokens \in {oauth.tokens, NoBundle}
  BY DEF Milder
<1>5. UnderLease'
  <2>1. ASSUME NEW g \in Flows, flow'[g].pc = "reread", oauth'.lease.by = g
        PROVE ~oauth'.lease.over
    BY <1>1, <1>3, <2>1 DEF UnderLease, Moved
  <2>2. ASSUME NEW g \in Flows, flow'[g].pc = "still" \/ Presents(flow'[g]),
               flow'[g].has = oauth'.tokens, profile'.server # Gone
        PROVE oauth'.lease.by = g /\ ~oauth'.lease.over
    <3>1. g # f /\ flow'[g] = flow[g]
      BY <2>2 DEF Moved, Presents
    <3>2. oauth'.tokens = oauth.tokens /\ oauth'.tokens # NoBundle
      BY <1>4, <2>2, <3>1
    <3>3. oauth.lease.by = g /\ ~oauth.lease.over
      BY <1>1, <2>2, <3>1, <3>2 DEF UnderLease
    <3>. QED
      BY <2>2, <3>1, <3>2, <3>3 DEF Milder
  <2>3. ASSUME NEW g \in Flows, NEW h \in Flows, Presents(flow'[g]), Presents(flow'[h]),
               flow'[g].has = oauth'.tokens, flow'[h].has = oauth'.tokens
        PROVE g = h
    <3>1. flow'[g] = flow[g] /\ flow'[h] = flow[h]
      BY <2>3 DEF Moved, Presents
    <3>2. oauth'.tokens = oauth.tokens
      BY <1>4, <2>3, <3>1
    <3>. QED
      BY <1>1, <2>3, <3>1, <3>2 DEF UnderLease
  <2>. QED
    BY <2>1, <2>2, <2>3 DEF UnderLease, Presents
<1>6. StillTaken'
  BY <1>1, <1>4 DEF StillTaken, Moved, Presents
<1>. QED
  BY <1>5, <1>6

LEMMA LeaseStays ==
    ASSUME ShapeInv, RotationInv, UNCHANGED <<flow, oauth, authorized>>,
           ~excused' => ~excused, ~abandoned' => ~abandoned,
           profile.server = Gone => profile'.server = Gone
    PROVE ~excused' /\ ~abandoned' => UnderLease' /\ StillTaken'
BY DEF RotationInv, UnderLease, StillTaken

(* The quiet steps, once for the tokens and once for the lease.            *)
LEMMA QuietRotation ==
    ASSUME ShapeInv, RotationInv, UNCHANGED authorized,
           NEW f \in Flows, NEW r, Moved(f, r), Milder(f),
           r.pc \notin {"keep", "reread", "still", "refresh", "store", "refused"},
           r.has = NoBundle
              \/ (r.has = flow[f].has /\ (r.kind = "resolve" => flow[f].kind = "resolve")),
           ~excused' => ~excused /\ (flow[f].pc = "store" => flow[f].has # oauth.tokens),
           ~abandoned' => ~abandoned,
           profile.server = Gone => profile'.server = Gone
    PROVE RotationInv'
<1>1. TokensInv'
  BY TokensStand DEF Milder, RotationInv
<1>2. ~excused' /\ ~abandoned' => UnderLease' /\ StillTaken'
  BY LeaseStands
<1>. QED
  BY <1>1, <1>2 DEF RotationInv

(* The quiet steps of the requests: all that neither ask the server nor    *)
(* write tokens or a lease.                                                *)
LEMMA QuietEffects ==
    ASSUME ShapeInv, NamesInv, NEW f \in Flows,
           \/ Stage(f) \/ LookBefore(f) \/ RegisterClient(f) \/ LookAtCallback(f)
           \/ Verify(f) \/ ReadLatest(f) \/ Amend(f) \/ Find(f) \/ ReadWinner(f)
           \/ Notify(f) \/ DropRefused(f) \/ ReleaseLease(f) \/ Recheck(f) \/ Clear(f)
           \/ SaveSecrets(f) \/ ClearSecrets(f) \/ DeleteRow(f) \/ ReadMarker(f)
           \/ DeleteNamed(f) \/ StopFlow(f)
    PROVE /\ Milder(f) /\ UNCHANGED authorized
          /\ profile.server = Gone => profile'.server = Gone
          /\ ~abandoned' => ~abandoned
          /\ ~excused' => ~excused /\ flow[f].pc # "store"
<1>0. /\ SecretsInv /\ oauth \in Secrets /\ FlowsInv /\ flow[f] \in Flow
      /\ profile \in Profile
  BY DEF ShapeInv, SecretsInv, FlowsInv, RowInv
<1>1. UNCHANGED oauth => Milder(f)
  BY DEF Milder
<1>2. ASSUME NEW keys \in SUBSET Keys, oauth' = Without(keys),
             "lease" \in keys => \/ "tokens" \in keys \/ oauth.lease.by = f
                                 \/ profile.server = Gone \/ abandoned'
      PROVE Milder(f)
  BY <1>0, <1>2, WithoutIsFine DEF Milder
<1>3. /\ OAuthKeys \in SUBSET Keys /\ {"bearer"} \in SUBSET Keys /\ {"tokens"} \in SUBSET Keys
      /\ {"lease"} \in SUBSET Keys /\ "tokens" \in OAuthKeys
  BY DEF Keys, OAuthKeys
<1>4. UNCHANGED authorized /\ (~abandoned' => ~abandoned)
  <2>1. UNCHANGED authorized /\ (UNCHANGED abandoned \/ StopFlow(f))
    BY DEF Stage, LookBefore, RegisterClient, LookAtCallback, Verify, ReadLatest, Amend,
       Find, ReadWinner, Notify, DropRefused, ReleaseLease, Recheck, Clear, SaveSecrets,
       ClearSecrets, DeleteRow, ReadMarker, DeleteNamed, StopFlow, world
  <2>2. StopFlow(f) => (~abandoned' => ~abandoned)
    BY Zenon DEF StopFlow
  <2>. QED
    BY <2>1, <2>2
<1>5. profile.server = Gone => profile'.server = Gone
  BY <1>0 DEF Stage, LookBefore, RegisterClient, LookAtCallback, Verify, ReadLatest,
     Amend, Find, ReadWinner, Notify, DropRefused, ReleaseLease, Recheck, Clear,
     SaveSecrets, ClearSecrets, DeleteRow, ReadMarker, DeleteNamed, StopFlow,
     rowAndSecrets, NoProfile, Profile
<1>6. ~excused' => ~excused /\ flow[f].pc # "store"
  BY DEF Stage, LookBefore, RegisterClient, LookAtCallback, Verify, ReadLatest, Amend,
     Find, ReadWinner, Notify, DropRefused, ReleaseLease, Recheck, Clear, SaveSecrets,
     ClearSecrets, DeleteRow, ReadMarker, DeleteNamed, StopFlow, world, Doing
<1>7. CASE \/ Stage(f) \/ LookBefore(f) \/ LookAtCallback(f)
           \/ Verify(f) \/ ReadLatest(f) \/ Amend(f) \/ Find(f) \/ ReadWinner(f)
           \/ Notify(f) \/ Recheck(f) \/ DeleteRow(f) \/ ReadMarker(f) \/ StopFlow(f)
  BY <1>1, <1>4, <1>5, <1>6, <1>7
     DEF Stage, LookBefore, LookAtCallback, Verify, ReadLatest, Amend, Find, ReadWinner,
         Notify, Recheck, DeleteRow, ReadMarker, StopFlow, rowAndSecrets
<1>8. CASE RegisterClient(f)
  <2>1. Milder(f)
    BY <1>0, <1>1, <1>8 DEF RegisterClient, Milder, Secrets
  <2>. QED
    BY <1>4, <1>5, <1>6, <2>1
<1>9. CASE DropRefused(f) \/ ReleaseLease(f) \/ Clear(f) \/ ClearSecrets(f)
  <2>1. UNCHANGED oauth \/ \E keys \in {OAuthKeys, {"bearer"}, {"tokens"}, {"lease"}} :
                              /\ oauth' = Without(keys)
                              /\ keys = {"lease"} => oauth.lease.by = f
    BY <1>9 DEF DropRefused, ReleaseLease, Clear, ClearSecrets, OAuthKeys
  <2>2. Milder(f)
    BY <1>1, <1>2, <1>3, <2>1
  <2>. QED
    BY <1>4, <1>5, <1>6, <2>2
<1>10. CASE DeleteNamed(f)
  <2>1. profile.server = Gone \/ abandoned
    BY <1>10 DEF NamesInv, NamedWhileThere, Deletes, DeleteNamed, Doing
  <2>2. UNCHANGED abandoned
    BY <1>10 DEF DeleteNamed, world
  <2>3. CASE UNCHANGED oauth
    BY <1>1, <1>4, <1>5, <1>6, <2>3
  <2>4. ASSUME NEW k \in flow[f].keys, oauth' = Without({k})
        PROVE Milder(f)
    <3>1. {k} \in SUBSET Keys
      BY <1>0 DEF Flow
    <3>. QED
      BY <1>2, <2>1, <2>2, <2>4, <3>1
  <2>. QED
    BY <1>4, <1>5, <1>6, <1>10, <2>3, <2>4 DEF DeleteNamed
<1>11. CASE SaveSecrets(f)
  <2>1. PICK saved \in BOOLEAN, clearOAuth \in BOOLEAN :
           oauth' = [(IF clearOAuth THEN Without(OAuthKeys) ELSE oauth) EXCEPT !.bearer = saved]
    BY <1>11 DEF SaveSecrets
  <2>. DEFINE kept == IF clearOAuth THEN Without(OAuthKeys) ELSE oauth
  <2>2. /\ kept \in Secrets
        /\ (kept.tokens = oauth.tokens /\ kept.lease = oauth.lease)
           \/ (kept.tokens = NoBundle /\ kept.lease = Vacant)
    BY <1>0, <1>3, WithoutIsFine DEF OAuthKeys
  <2>3. oauth' = [kept EXCEPT !.bearer = saved]
    BY <2>1
  <2>. HIDE DEF kept
  <2>4. oauth'.tokens = kept.tokens /\ oauth'.lease = kept.lease
    BY <2>2, <2>3 DEF Secrets
  <2>5. Milder(f)
    BY <2>2, <2>4 DEF Milder
  <2>. QED
    BY <1>4, <1>5, <1>6, <2>5
<1>. QED
  BY <1>7, <1>8, <1>9, <1>10, <1>11

LEMMA QuietRotationSteps ==
    ASSUME ShapeInv, NamesInv, RotationInv, NEW f \in Flows,
           \/ Stage(f) \/ LookBefore(f) \/ RegisterClient(f) \/ LookAtCallback(f)
           \/ Verify(f) \/ ReadLatest(f) \/ Amend(f) \/ Find(f) \/ ReadWinner(f)
           \/ Notify(f) \/ DropRefused(f) \/ ReleaseLease(f) \/ Recheck(f) \/ Clear(f)
           \/ SaveSecrets(f) \/ ClearSecrets(f) \/ DeleteRow(f) \/ ReadMarker(f)
           \/ DeleteNamed(f) \/ StopFlow(f)
    PROVE RotationInv'
<1>0. /\ FlowsInv /\ flow[f] \in Flow /\ flow \in [Flows -> Flow]
      /\ FitsAt(flow[f], flow[f].pc)
  BY DEF ShapeInv, FlowsInv, WellFormed
<1>1. /\ Milder(f) /\ UNCHANGED authorized
      /\ profile.server = Gone => profile'.server = Gone
      /\ ~abandoned' => ~abandoned
      /\ ~excused' => ~excused /\ flow[f].pc # "store"
  BY QuietEffects
<1>2. CASE Leave(f)
  BY <1>0, <1>1, <1>2, LeaveMoves, QuietRotation
<1>3. ASSUME NEW pc, Continue(f, pc),
             pc \notin {"keep", "reread", "still", "refresh", "store", "refused"}
      PROVE RotationInv'
  BY <1>0, <1>1, <1>3, ContinueMoves, QuietRotation
<1>4. CASE Stage(f)
  <2>1. PICK pc \in {"look", "save", "row"} : Continue(f, pc)
    BY <1>0, <1>4 DEF Stage, FitsAt, Doing
  <2>. QED
    BY <1>3, <2>1
<1>5. CASE \/ LookBefore(f) \/ RegisterClient(f) \/ LookAtCallback(f) \/ ReadLatest(f)
           \/ Amend(f) \/ Find(f) \/ ReadWinner(f) \/ Notify(f) \/ StopFlow(f)
  <2>1. Leave(f) \/ \E pc \in {"register", "propose", "exchange", "amend", "lease",
                               "notify", "release"} : Continue(f, pc)
    BY <1>5 DEF LookBefore, RegisterClient, LookAtCallback, ReadLatest, Amend, Find,
       ReadWinner, Notify, StopFlow
  <2>. QED
    BY <1>2, <1>3, <2>1
<1>6. CASE \/ DropRefused(f) \/ ReleaseLease(f) \/ Recheck(f) \/ Clear(f)
           \/ SaveSecrets(f) \/ ClearSecrets(f) \/ DeleteRow(f)
  <2>1. Leave(f) \/ \E pc \in {"notify", "winner", "verify", "release", "clearAll", "clear",
                               "marker", "recheck", "oauth"} : Continue(f, pc)
    BY <1>6 DEF DropRefused, ReleaseLease, Recheck, Clear, SaveSecrets, ClearSecrets,
       DeleteRow
  <2>. QED
    BY <1>2, <1>3, <2>1
<1>7. CASE (Verify(f) \/ ReadMarker(f) \/ DeleteNamed(f)) /\ ~Leave(f)
  <2>1. /\ Moved(f, flow'[f]) /\ flow'[f].has = flow[f].has
        /\ flow'[f].kind = flow[f].kind /\ flow'[f].pc \in {"report", "delete"}
    <3>1. CASE Verify(f)
      BY <1>0, <1>7, <3>1 DEF Verify, Moved, Flow
    <3>2. CASE ReadMarker(f)
      BY <1>0, <1>7, <3>2 DEF ReadMarker, Moved, Flow
    <3>3. CASE DeleteNamed(f)
      <4>1. PICK k \in flow[f].keys : flow' = [flow EXCEPT ![f].keys = @ \ {k}]
        BY <1>7, <3>3 DEF DeleteNamed
      <4>2. flow[f].pc = "delete"
        BY <3>3 DEF DeleteNamed, Doing
      <4>. QED
        BY <1>0, <4>1, <4>2 DEF Moved, Flow
    <3>. QED
      BY <1>7, <3>1, <3>2, <3>3
  <2>. QED
    BY <1>1, <2>1, QuietRotation
<1>. QED
  BY <1>2, <1>4, <1>5, <1>6, <1>7

LEMMA EnteringRotation ==
    ASSUME ShapeInv, RotationInv, NEW f \in Flows,
           \/ BeginStart(f) \/ BeginCallback(f) \/ BeginResolve(f)
           \/ BeginPut(f) \/ BeginClear(f) \/ BeginDelete(f)
    PROVE RotationInv'
<1>0. /\ FlowsInv /\ oauth \in Secrets /\ flow \in [Flows -> Flow]
  BY DEF ShapeInv, SecretsInv, FlowsInv
<1>1. /\ UNCHANGED <<profile, authorized, abandoned, excused>>
      /\ UNCHANGED oauth \/ oauth' = [oauth EXCEPT !.pending = NotPending]
  BY DEF BeginStart, BeginCallback, BeginResolve, BeginPut, BeginClear, BeginDelete,
         rowAndSecrets, Enter
<1>2. oauth'.tokens = oauth.tokens /\ oauth'.lease = oauth.lease
  BY <1>0, <1>1 DEF Secrets
<1>3. CASE UNCHANGED flow
  <2>1. TokensInv'
    BY <1>1, <1>2, <1>3, TokensStay DEF RotationInv
  <2>2. ~excused' /\ ~abandoned' => UnderLease' /\ StillTaken'
    BY <1>1, <1>2, <1>3 DEF RotationInv, UnderLease, StillTaken
  <2>. QED
    BY <2>1, <2>2 DEF RotationInv
<1>4. CASE ~UNCHANGED flow
  <2>1. PICK r : /\ flow' = [flow EXCEPT ![f] = r] /\ r.has = NoBundle
                 /\ r.pc \in {"stage", "present", "find", "bearer", "marker"}
                 /\ flow[f].pc = "idle"
    <3>1. CASE BeginCallback(f)
      <4>. DEFINE r == [AtRest EXCEPT !.kind = "callback", !.pc = "present",
                                      !.server = oauth.pending.server,
                                      !.from = oauth.pending.from]
      <4>1. flow' = [flow EXCEPT ![f] = r] /\ flow[f].pc = "idle"
        BY <1>4, <3>1 DEF BeginCallback, Doing
      <4>2. r.pc = "present" /\ r.has = NoBundle
        BY DEF AtRest
      <4>. HIDE DEF r
      <4>. QED
        BY <4>1, <4>2
    <3>2. CASE ~BeginCallback(f)
      <4>1. PICK kind, pc, server, keys :
               /\ Enter(f, kind, pc, server, keys)
               /\ pc \in {"stage", "present", "find", "bearer", "marker"}
        BY <3>2 DEF BeginStart, BeginResolve, BeginPut, BeginClear, BeginDelete
      <4>. DEFINE r == [AtRest EXCEPT !.kind = kind, !.pc = pc, !.server = server,
                                      !.keys = keys]
      <4>2. flow' = [flow EXCEPT ![f] = r] /\ flow[f].pc = "idle"
        BY <4>1 DEF Enter, Doing
      <4>3. r.pc = pc /\ r.has = NoBundle
        BY DEF AtRest
      <4>. HIDE DEF r
      <4>. QED
        BY <4>1, <4>2, <4>3
    <3>. QED
      BY <3>1, <3>2
  <2>4. Moved(f, r) /\ Milder(f)
    BY <1>0, <1>2, <2>1 DEF Moved, Milder
  <2>. QED
    BY <1>1, <2>1, <2>4, QuietRotation
<1>. QED
  BY <1>3, <1>4

(* The server's answer on one authorization changes, and the tokens in the *)
(* settings are not of that one.                                           *)
LEMMA OtherAuthorization ==
    ASSUME ShapeInv, RotationInv, NEW a, NEW n,
           authorized' = [authorized EXCEPT ![a] = n], a # oauth.tokens.from,
           oauth'.tokens = oauth.tokens, oauth'.lease = oauth.lease,
           UNCHANGED <<excused, abandoned>>, profile'.server = profile.server,
           NEW f \in Flows, NEW r, Moved(f, r), flow[f].pc # "store",
           r.pc \notin {"reread", "still", "refresh", "store", "refused"}
    PROVE ~excused' /\ ~abandoned' => UnderLease' /\ StillTaken'
<1>1. authorized'[oauth.tokens.from] = authorized[oauth.tokens.from]
         \/ oauth.tokens = NoBundle
  BY TokensHaveOrigin DEF ShapeInv, RowInv, Real
<1>2. \A g \in Flows : flow'[g].pc \in {"reread", "still", "refresh", "store", "refused"} =>
                          flow'[g] = flow[g]
  BY DEF Moved
<1>3. \A g \in Flows : flow[g].pc = "store" => flow'[g] = flow[g]
  BY DEF Moved
<1>4. UnderLease => UnderLease'
  BY <1>2 DEF UnderLease, Presents
<1>5. ASSUME StillTaken
      PROVE StillTaken'
  <2>1. \A g \in Flows : flow[g].pc \in {"store", "refused"} /\ flow[g].has = oauth.tokens =>
                            oauth.tokens # NoBundle
    BY TokensHaveOrigin DEF Presents
  <2>. QED
    BY <1>1, <1>2, <1>3, <1>5, <2>1 DEF StillTaken
<1>. QED
  BY <1>4, <1>5 DEF RotationInv

(* An authorization is asked for, and its code exchanged.                  *)
LEMMA AuthorizingRotation ==
    ASSUME ShapeInv, RotationInv, NEW f \in Flows, Propose(f) \/ ExchangeCode(f)
    PROVE RotationInv'
<1>. USE TokensHaveOrigin
<1>0. /\ FlowsInv /\ flow[f] \in Flow /\ flow \in [Flows -> Flow]
      /\ FitsAt(flow[f], flow[f].pc) /\ oauth \in Secrets
      /\ authorized \in [Authorizations -> Unstarted .. MaxRefreshes + 1]
  BY DEF ShapeInv, FlowsInv, WellFormed, SecretsInv, RowInv
<1>1. CASE Propose(f)
  <2>1. PICK a \in Authorizations :
           /\ authorized[a] = Unstarted
           /\ authorized' = [authorized EXCEPT ![a] = Asked]
           /\ oauth' = [oauth EXCEPT !.pending = oauth'.pending]
    BY <1>1 DEF Propose
  <2>2. oauth'.tokens = oauth.tokens /\ oauth'.lease = oauth.lease
    BY <1>0, <2>1 DEF Secrets
  <2>3. /\ Moved(f, Onto(flow[f], "recheck")) /\ Onto(flow[f], "recheck").pc = "recheck"
        /\ Onto(flow[f], "recheck").has = flow[f].has
        /\ Onto(flow[f], "recheck").kind = "start" /\ flow[f].pc = "propose"
    BY <1>0, <1>1, ContinueMoves DEF Propose, Doing, FitsAt
  <2>4. oauth.tokens.from # a /\ \A g \in Flows : flow[g].has.from # a
    BY <2>1 DEF RotationInv, TokensInv, NoTokensYet
  <2>5. TokensInv'
    <3>0. TokensInv /\ \A g \in Flows : flow'[g].has = flow[g].has
      BY <2>3 DEF RotationInv, Moved
    <3>1. \A g \in Flows : /\ flow'[g].pc = "keep" => flow'[g] = flow[g]
                           /\ flow'[g].kind = "resolve" => flow'[g] = flow[g]
      BY <2>3 DEF Moved
    <3>2. NewTokens'
      BY <1>0, <2>1, <2>2, <2>4, <3>0, <3>1 DEF TokensInv, NewTokens, Real
    <3>3. OldTokens'
      BY <2>2, <3>0, <3>1 DEF TokensInv, OldTokens
    <3>4. NoTokensYet'
      BY <1>0, <2>1, <2>2, <2>4, <3>0 DEF TokensInv, NoTokensYet
    <3>. QED
      BY <3>2, <3>3, <3>4 DEF TokensInv
  <2>6. ~excused' /\ ~abandoned' => UnderLease' /\ StillTaken'
    BY <1>1, <2>1, <2>2, <2>3, <2>4, OtherAuthorization DEF Propose
  <2>. QED
    BY <2>5, <2>6 DEF RotationInv
<1>2. CASE ExchangeCode(f) /\ Leave(f) /\ UNCHANGED authorized
  <2>1. Milder(f)
    BY <1>2 DEF Milder, ExchangeCode, rowAndSecrets
  <2>. QED
    BY <1>0, <1>2, <2>1, LeaveMoves, QuietRotation DEF ExchangeCode, rowAndSecrets, Doing
<1>3. CASE ExchangeCode(f) /\ ~(Leave(f) /\ UNCHANGED authorized)
  <2>. DEFINE a == flow[f].from
              b == [server |-> flow[f].server, from |-> a, refresh |-> 1]
              r == [flow[f] EXCEPT !.pc = "keep", !.has = b]
  <2>1. /\ authorized[a] = Asked /\ authorized' = [authorized EXCEPT ![a] = 1]
        /\ flow' = [flow EXCEPT ![f].pc = "keep", ![f].has = b]
        /\ flow[f].pc = "exchange" /\ flow[f].kind = "callback" /\ a \in Authorizations
        /\ UNCHANGED <<profile, oauth, abandoned, excused>>
    BY <1>0, <1>3 DEF ExchangeCode, Doing, FitsAt, rowAndSecrets
  <2>2. /\ Moved(f, r) /\ r.pc = "keep" /\ r.kind = "callback" /\ r.has = b
        /\ b.from = a
    BY <1>0, <2>1 DEF Moved, Flow
  <2>. HIDE DEF r, b
  <2>3. oauth.tokens.from # a /\ \A g \in Flows : flow[g].has.from # a
    BY <2>1 DEF RotationInv, TokensInv, NoTokensYet
  <2>4. TokensInv'
    <3>0. TokensInv
      BY DEF RotationInv
    <3>1. \A g \in Flows : g # f => flow'[g] = flow[g]
      BY <2>2 DEF Moved
    <3>2. flow'[f] = r
      BY <2>2 DEF Moved
    <3>3. NewTokens'
      <4>1. ASSUME NEW h \in Flows, flow'[h].pc = "keep", h # f
            PROVE /\ authorized'[flow'[h].has.from] \in {1, Ended}
                  /\ oauth'.tokens.from # flow'[h].has.from
                  /\ \A g \in Flows : g # h /\ (flow'[g].kind = "resolve" \/ flow'[g].pc = "keep") =>
                         flow'[g].has.from # flow'[h].has.from
        BY <1>0, <2>1, <2>2, <2>3, <3>0, <3>1, <3>2, <4>1 DEF TokensInv, NewTokens
      <4>2. /\ authorized'[r.has.from] \in {1, Ended}
            /\ oauth'.tokens.from # r.has.from
            /\ \A g \in Flows : g # f => flow'[g].has.from # r.has.from
        BY <1>0, <2>1, <2>2, <2>3, <3>1
      <4>. QED
        BY <3>2, <4>1, <4>2 DEF NewTokens
    <3>4. OldTokens'
      BY <2>1, <2>2, <3>0, <3>1, <3>2 DEF TokensInv, OldTokens
    <3>5. NoTokensYet'
      BY <1>0, <2>1, <2>2, <3>0, <3>1, <3>2 DEF TokensInv, NoTokensYet, Asked, Unstarted
    <3>. QED
      BY <3>3, <3>4, <3>5 DEF TokensInv
  <2>5. ~excused' /\ ~abandoned' => UnderLease' /\ StillTaken'
    BY <2>1, <2>2, <2>3, OtherAuthorization
  <2>. QED
    BY <2>4, <2>5 DEF RotationInv
<1>. QED
  BY <1>1, <1>2, <1>3

(* New tokens are stored: nobody has them, and the server takes them.      *)
LEMMA KeepingRotation ==
    ASSUME ShapeInv, RotationInv, NEW f \in Flows, KeepTokens(f)
    PROVE RotationInv'
<1>. USE TokensHaveOrigin
<1>0. /\ FlowsInv /\ oauth \in Secrets /\ TokensInv
  BY DEF ShapeInv, SecretsInv, RotationInv
<1>. DEFINE b == flow[f].has
            r == Onto(flow[f], "recheck")
<1>1. /\ flow[f].pc = "keep" /\ oauth' = [oauth EXCEPT !.tokens = b] /\ Continue(f, "recheck")
      /\ UNCHANGED <<profile, authorized, abandoned, excused>>
  BY DEF KeepTokens, Doing, world
<1>2. Moved(f, r) /\ r.pc = "recheck" /\ r.has = b /\ r.kind = "callback"
  BY <1>0, <1>1, ContinueMoves DEF FlowsInv, WellFormed, FitsAt
<1>3. oauth'.tokens = b /\ oauth'.lease = oauth.lease
  BY <1>0, <1>1 DEF Secrets
<1>4. /\ authorized[b.from] \in {1, Ended} /\ Real(b) /\ b.refresh = 1
      /\ b \in Bundle
      /\ \A g \in Flows : g # f /\ (flow[g].kind = "resolve" \/ flow[g].pc = "keep") =>
            flow[g].has.from # b.from
  BY <1>0, <1>1 DEF TokensInv, NewTokens, FlowsInv, WellFormed, FitsAt, Flow
<1>. HIDE DEF b, r
<1>5. flow'[f] = r /\ \A g \in Flows : g # f => flow'[g] = flow[g]
  BY <1>2 DEF Moved
<1>6. NewTokens'
  <2>1. ASSUME NEW h \in Flows, flow'[h].pc = "keep"
        PROVE /\ authorized'[flow'[h].has.from] \in {1, Ended}
              /\ oauth'.tokens.from # flow'[h].has.from
              /\ \A g \in Flows : g # h /\ (flow'[g].kind = "resolve" \/ flow'[g].pc = "keep") =>
                     flow'[g].has.from # flow'[h].has.from
    <3>1. h # f /\ flow'[h] = flow[h]
      BY <1>2, <1>5, <2>1
    <3>. QED
      BY <1>0, <1>1, <1>2, <1>3, <1>4, <1>5, <2>1, <3>1 DEF TokensInv, NewTokens
  <2>. QED
    BY <2>1 DEF NewTokens
<1>7. OldTokens'
  BY <1>2, <1>3, <1>4, <1>5 DEF OldTokens
<1>8. NoTokensYet'
  BY <1>0, <1>1, <1>2, <1>3, <1>4, <1>5 DEF TokensInv, NoTokensYet, Unstarted, Asked, Ended
<1>9. ASSUME ~excused', ~abandoned'
      PROVE UnderLease' /\ StillTaken'
  <2>0. UnderLease /\ StillTaken
    BY <1>1, <1>9 DEF RotationInv
  <2>1. ASSUME NEW g \in Flows, flow'[g].pc \in {"still", "refresh", "store", "refused"}
        PROVE flow'[g].has # oauth'.tokens
    <3>1. g # f /\ flow'[g] = flow[g]
      BY <1>2, <1>5, <2>1
    <3>2. flow[g].kind = "resolve"
      BY <1>0, <2>1, <3>1 DEF FlowsInv, WellFormed, FitsAt, Resolving
    <3>. QED
      BY <1>3, <1>4, <3>1, <3>2
  <2>2. UnderLease'
    BY <1>1, <1>2, <1>3, <1>5, <2>0, <2>1 DEF UnderLease, Presents
  <2>3. StillTaken'
    BY <1>1, <1>3, <1>4, <2>1 DEF StillTaken
  <2>. QED
    BY <2>2, <2>3
<1>. QED
  BY <1>6, <1>7, <1>8, <1>9 DEF RotationInv, TokensInv

(* A lease is taken, the tokens are read under it, and looked at again.    *)
LEMMA LeasingRotation ==
    ASSUME ShapeInv, RotationInv, NEW f \in Flows,
           AcquireLease(f) \/ ReadAgain(f) \/ StillCurrent(f)
    PROVE RotationInv'
<1>. USE TokensHaveOrigin
<1>0. /\ FlowsInv /\ oauth \in Secrets /\ TokensInv /\ flow \in [Flows -> Flow]
      /\ flow[f] \in Flow /\ FitsAt(flow[f], flow[f].pc)
  BY DEF ShapeInv, SecretsInv, RotationInv, FlowsInv, WellFormed
<1>6. ~excused' => ~excused
  <2>1. UNCHANGED excused \/ ReadAgain(f)
    BY DEF AcquireLease, StillCurrent, world
  <2>2. ReadAgain(f) => (~excused' => ~excused)
    BY Zenon DEF ReadAgain
  <2>. QED
    BY <2>1, <2>2
<1>1. CASE Leave(f) /\ UNCHANGED oauth
  <2>1. /\ Milder(f) /\ UNCHANGED <<profile, authorized, abandoned>>
        /\ flow[f].pc # "store"
    BY <1>1 DEF Milder, AcquireLease, ReadAgain, StillCurrent, rowAndSecrets, world, Doing
  <2>. QED
    BY <1>0, <1>1, <1>6, <2>1, LeaveMoves, QuietRotation
<1>2. CASE Continue(f, "release") /\ UNCHANGED oauth
  <2>1. /\ Milder(f) /\ UNCHANGED <<profile, authorized, abandoned>>
        /\ flow[f].pc # "store"
    BY <1>2 DEF Milder, AcquireLease, ReadAgain, StillCurrent, rowAndSecrets, world, Doing
  <2>. QED
    BY <1>0, <1>2, <1>6, <2>1, ContinueMoves, QuietRotation
<1>3. CASE AcquireLease(f) /\ Continue(f, "reread")
           /\ oauth' = [oauth EXCEPT !.lease = [by |-> f, over |-> FALSE]]
  <2>. DEFINE r == Onto(flow[f], "reread")
  <2>1. /\ Moved(f, r) /\ r.pc = "reread" /\ r.has = flow[f].has /\ r.kind = flow[f].kind
        /\ flow[f].pc = "lease"
    BY <1>0, <1>3, ContinueMoves DEF AcquireLease, Doing
  <2>. HIDE DEF r
  <2>2. /\ oauth'.tokens = oauth.tokens /\ oauth'.lease.by = f /\ ~oauth'.lease.over
        /\ UNCHANGED <<profile, authorized, abandoned, excused>>
    BY <1>0, <1>3 DEF AcquireLease, Secrets, world
  <2>3. oauth.lease.over \/ (oauth' = oauth /\ Leave(f))
    BY <1>3 DEF AcquireLease, LeaseIsFree
  <2>4. CASE oauth.lease.over
    <3>1. TokensInv'
      BY <1>0, <2>1, <2>2, TokensStand
    <3>2. ASSUME ~excused', ~abandoned'
          PROVE UnderLease' /\ StillTaken'
      <4>1. UnderLease /\ StillTaken
        BY <2>2, <3>2 DEF RotationInv
      <4>2. UnderLease'
        BY <2>1, <2>2, <2>4, <4>1 DEF UnderLease, Presents, Moved
      <4>3. StillTaken'
        BY <2>1, <2>2, <4>1 DEF StillTaken, Moved
      <4>. QED
        BY <4>2, <4>3
    <3>. QED
      BY <3>1, <3>2 DEF RotationInv
  <2>. QED
    BY <1>1, <2>3, <2>4
<1>4. CASE ReadAgain(f) /\ ~Continue(f, "release")
  <2>1. /\ Moved(f, flow'[f]) /\ flow'[f].pc = "still" /\ flow'[f].has = oauth.tokens
        /\ flow[f].pc = "reread" /\ flow'[f].kind = flow[f].kind
        /\ UNCHANGED <<profile, oauth, authorized, abandoned>>
    BY <1>0, <1>4 DEF ReadAgain, Moved, Flow, Doing, rowAndSecrets
  <2>2. ~excused' => ~excused /\ oauth.lease.by = f
    BY <1>4, Zenon DEF ReadAgain
  <2>3. TokensInv'
    BY <1>0, <2>1, TokensStand
  <2>4. ASSUME ~excused', ~abandoned'
        PROVE UnderLease' /\ StillTaken'
    <3>1. UnderLease /\ StillTaken
      BY <2>1, <2>2, <2>4 DEF RotationInv
    <3>2. UnderLease'
      BY <2>1, <2>2, <2>4, <3>1 DEF UnderLease, Presents, Moved
    <3>3. StillTaken'
      BY <2>1, <3>1 DEF StillTaken, Moved
    <3>. QED
      BY <3>2, <3>3
  <2>. QED
    BY <2>3, <2>4 DEF RotationInv
<1>5. CASE StillCurrent(f) /\ ~Continue(f, "release")
  <2>. DEFINE r == Onto(flow[f], "refresh")
  <2>1. /\ Continue(f, "refresh") /\ IsCurrent(f) /\ flow[f].pc = "still"
        /\ UNCHANGED <<profile, oauth, authorized, abandoned, excused>>
    BY <1>5 DEF StillCurrent, Doing, rowAndSecrets, world
  <2>2. Moved(f, r) /\ r.pc = "refresh" /\ r.has = flow[f].has /\ r.kind = flow[f].kind
    BY <1>0, <2>1, ContinueMoves
  <2>. HIDE DEF r
  <2>3. profile.server # Gone
    BY <1>0, <2>1, ConnectionAssumption DEF IsCurrent, Flow, Gone, Unconnected
  <2>4. TokensInv'
    BY <1>0, <2>1, <2>2, TokensStand
  <2>5. ASSUME ~excused', ~abandoned'
        PROVE UnderLease' /\ StillTaken'
    <3>1. UnderLease /\ StillTaken
      BY <2>1, <2>5 DEF RotationInv
    <3>2. UnderLease'
      <4>1. \A g \in Flows : (flow'[g].pc = "still" \/ Presents(flow'[g]))
                                 /\ flow'[g].has = oauth.tokens =>
               (flow[g].pc = "still" \/ Presents(flow[g])) /\ flow[g].has = oauth.tokens
        BY <2>1, <2>2 DEF Moved, Presents
      <4>2. \A g \in Flows : (flow'[g].pc = "still" \/ Presents(flow'[g]))
                                 /\ flow'[g].has = oauth.tokens =>
               oauth.lease.by = g /\ ~oauth.lease.over
        BY <2>3, <3>1, <4>1 DEF UnderLease
      <4>3. \A g \in Flows : flow'[g].pc = "reread" => flow[g].pc = "reread"
        BY <2>2 DEF Moved
      <4>. QED
        BY <2>1, <3>1, <4>2, <4>3 DEF UnderLease
    <3>3. StillTaken'
      BY <2>1, <2>2, <3>1 DEF StillTaken, Moved
    <3>. QED
      BY <3>2, <3>3
  <2>. QED
    BY <2>4, <2>5 DEF RotationInv
<1>. QED
  BY <1>1, <1>2, <1>3, <1>4, <1>5 DEF AcquireLease, ReadAgain, StillCurrent, rowAndSecrets

(* The server rotates a refresh token, or refuses it.                      *)
LEMMA RefreshingRotation ==
    ASSUME ShapeInv, RotationInv, NEW f \in Flows, RefreshTokens(f)
    PROVE RotationInv'
<1>. USE TokensHaveOrigin
<1>. DEFINE b == flow[f].has
<1>0. /\ FlowsInv /\ TokensInv /\ flow[f].pc = "refresh" /\ flow[f].kind = "resolve"
      /\ authorized \in [Authorizations -> Unstarted .. MaxRefreshes + 1]
      /\ UNCHANGED <<profile, oauth, abandoned>> /\ Real(b) /\ b \in Bundle
  BY DEF ShapeInv, FlowsInv, WellFormed, FitsAt, Resolving, RowInv, RotationInv,
         RefreshTokens, Doing, rowAndSecrets, Presents
<1>1. ASSUME NEW pc, Continue(f, pc), pc # "keep",
             authorized' = [authorized EXCEPT ![b.from] = b.refresh + 1],
             authorized[b.from] = b.refresh
      PROVE TokensInv'
  <2>. DEFINE r == Onto(flow[f], pc)
  <2>1. Moved(f, r) /\ r.pc = pc /\ r.has = b /\ r.kind = "resolve"
    BY <1>0, <1>1, ContinueMoves
  <2>. HIDE DEF r
  <2>2. /\ \A g \in Flows : flow'[g].has = flow[g].has /\ flow'[g].kind = flow[g].kind
        /\ \A g \in Flows : flow'[g].pc = "keep" => flow[g].pc = "keep" /\ g # f
    BY <1>0, <1>1, <2>1 DEF Moved
  <2>3. b.refresh + 1 > 1 /\ b.from \in Authorizations
    BY <1>0 DEF Real, Bundle
  <2>4. NewTokens'
    BY <1>0, <1>1, <2>2 DEF TokensInv, NewTokens
  <2>5. OldTokens'
    BY <1>0, <2>2 DEF TokensInv, OldTokens
  <2>6. NoTokensYet'
    BY <1>0, <1>1, <2>2, <2>3 DEF TokensInv, NoTokensYet, Unstarted, Asked
  <2>. QED
    BY <2>4, <2>5, <2>6 DEF TokensInv
<1>2. CASE Continue(f, "release") /\ UNCHANGED <<authorized, excused>>
  <2>1. Milder(f)
    BY <1>0 DEF Milder
  <2>. QED
    BY <1>0, <1>2, <2>1, ContinueMoves, QuietRotation
<1>3. CASE /\ Continue(f, "refused") /\ authorized[b.from] # b.refresh
           /\ UNCHANGED <<authorized, excused>>
  <2>. DEFINE r == Onto(flow[f], "refused")
  <2>1. Moved(f, r) /\ r.pc = "refused" /\ r.has = b /\ r.kind = "resolve"
    BY <1>0, <1>3, ContinueMoves
  <2>. HIDE DEF r
  <2>2. TokensInv'
    BY <1>0, <1>3, <2>1, TokensStand
  <2>3. ASSUME ~excused', ~abandoned'
        PROVE UnderLease' /\ StillTaken'
    <3>1. UnderLease /\ StillTaken
      BY <1>0, <1>3, <2>3 DEF RotationInv
    <3>2. UnderLease'
      BY <1>0, <2>1, <3>1 DEF UnderLease, Presents, Moved
    <3>3. b = oauth.tokens => authorized[b.from] = Ended
      <4>1. ASSUME b = oauth.tokens, NEW g \in Flows, flow[g].pc = "store",
                   flow[g].has = oauth.tokens
            PROVE FALSE
        BY <1>0, <3>1, <4>1 DEF UnderLease, Presents
      <4>. QED
        BY <1>0, <1>3, <3>1, <4>1 DEF StillTaken
    <3>4. StillTaken'
      BY <1>0, <1>3, <2>1, <3>1, <3>3 DEF StillTaken, Moved
    <3>. QED
      BY <3>2, <3>4
  <2>. QED
    BY <2>2, <2>3 DEF RotationInv
<1>4. CASE /\ Continue(f, "store") /\ authorized[b.from] = b.refresh
           /\ authorized' = [authorized EXCEPT ![b.from] = b.refresh + 1]
           /\ UNCHANGED excused
  <2>. DEFINE r == Onto(flow[f], "store")
  <2>1. Moved(f, r) /\ r.pc = "store" /\ r.has = b /\ r.kind = "resolve"
    BY <1>0, <1>4, ContinueMoves
  <2>. HIDE DEF r
  <2>2. TokensInv'
    BY <1>1, <1>4
  <2>3. ASSUME ~excused', ~abandoned'
        PROVE UnderLease' /\ StillTaken'
    <3>1. UnderLease /\ StillTaken
      BY <1>0, <1>4, <2>3 DEF RotationInv
    <3>2. UnderLease'
      <4>1. \A g \in Flows : /\ flow'[g].has = flow[g].has
                             /\ Presents(flow'[g]) => Presents(flow[g])
                             /\ flow'[g].pc \in {"still", "reread"} => flow'[g] = flow[g]
        BY <1>0, <2>1 DEF Moved, Presents
      <4>. QED
        BY <1>0, <3>1, <4>1 DEF UnderLease
    <3>3. b.from \in Authorizations /\ b.refresh \in Nat /\ b.refresh > 0
      BY <1>0 DEF Real, Bundle
    <3>4. CASE b = oauth.tokens
      <4>1. authorized'[oauth.tokens.from] = oauth.tokens.refresh + 1
        BY <1>0, <1>4, <3>3, <3>4
      <4>2. \A g \in Flows : flow'[g].pc = "refused" => flow'[g].has # oauth.tokens
        BY <1>4, <2>1, <3>1, <3>3, <3>4 DEF StillTaken, Moved, Ended
      <4>3. flow'[f].pc = "store" /\ flow'[f].has = oauth.tokens
        BY <2>1, <3>4 DEF Moved
      <4>. QED
        BY <1>0, <3>2, <4>1, <4>2, <4>3 DEF StillTaken
    <3>5. CASE b # oauth.tokens
      <4>1. oauth.tokens # NoBundle => b.from # oauth.tokens.from
        <5>. SUFFICES ASSUME oauth.tokens # NoBundle, b.from = oauth.tokens.from
                      PROVE FALSE
          OBVIOUS
        <5>1. b.refresh < oauth.tokens.refresh /\ oauth.tokens.refresh \in Nat
          BY <1>0, <3>5 DEF TokensInv, OldTokens, Bundle
        <5>2. authorized[oauth.tokens.from]
                 \in {oauth.tokens.refresh, oauth.tokens.refresh + 1, Ended}
          BY <3>1 DEF StillTaken
        <5>. QED
          BY <1>4, <3>3, <5>1, <5>2 DEF Ended
      <4>2. oauth.tokens # NoBundle =>
               authorized'[oauth.tokens.from] = authorized[oauth.tokens.from]
        BY <1>0, <1>4, <4>1 DEF Real
      <4>3. \A g \in Flows : /\ flow'[g].has = flow[g].has
                             /\ flow'[g].has = oauth.tokens => flow'[g] = flow[g]
                             /\ flow'[g].pc \in {"store", "refused"} => Real(flow'[g].has)
        BY <1>0, <2>1, <3>5 DEF Moved, Presents
      <4>4. \A g \in Flows : flow[g].has = oauth.tokens => flow'[g] = flow[g]
        BY <2>1, <3>5 DEF Moved
      <4>. QED
        BY <1>0, <3>1, <3>2, <4>2, <4>3, <4>4 DEF StillTaken
    <3>. QED
      BY <3>4, <3>5
  <2>. QED
    BY <2>2, <2>3 DEF RotationInv
<1>5. CASE /\ Continue(f, "release") /\ authorized[b.from] = b.refresh
           /\ authorized' = [authorized EXCEPT ![b.from] = b.refresh + 1]
           /\ excused' = TRUE
  BY <1>1, <1>5 DEF RotationInv
<1>. QED
  BY <1>2, <1>3, <1>4, <1>5 DEF RefreshTokens

(* Rotated tokens are stored: everybody else's are older now.              *)
LEMMA StoringRotation ==
    ASSUME ShapeInv, RotationInv, NEW f \in Flows, StoreRefreshed(f)
    PROVE RotationInv'
<1>. USE TokensHaveOrigin
<1>. DEFINE b == flow[f].has
            c == Refreshed(b)
<1>0. /\ FlowsInv /\ TokensInv /\ flow[f].pc = "store" /\ flow[f].kind = "resolve"
      /\ oauth \in Secrets /\ b \in Bundle /\ Real(b)
      /\ UNCHANGED <<profile, authorized, abandoned, excused>>
  BY DEF ShapeInv, FlowsInv, WellFormed, FitsAt, Resolving, SecretsInv, RotationInv,
         StoreRefreshed, Doing, world, Presents
<1>1. CASE oauth.tokens # b
  <2>1. Milder(f) /\ Continue(f, "release")
    BY <1>1 DEF StoreRefreshed, Milder
  <2>. QED
    BY <1>0, <1>1, <2>1, ContinueMoves, QuietRotation
<1>2. CASE oauth.tokens = b
  <2>. DEFINE r == Onto(flow[f], "recheck")
  <2>1. oauth' = [oauth EXCEPT !.tokens = c] /\ Continue(f, "recheck")
    BY <1>2 DEF StoreRefreshed
  <2>2. Moved(f, r) /\ r.pc = "recheck" /\ r.has = b /\ r.kind = "resolve"
    BY <1>0, <2>1, ContinueMoves
  <2>3. /\ b.refresh \in Nat /\ c.from = b.from /\ c.refresh = b.refresh + 1
    BY <1>0 DEF Refreshed, Bundle
  <2>. HIDE DEF r, c
  <2>4. oauth'.tokens = c /\ oauth'.lease = oauth.lease
    BY <1>0, <2>1 DEF Secrets
  <2>5. /\ \A g \in Flows : flow'[g].has = flow[g].has /\ flow'[g].kind = flow[g].kind
        /\ \A g \in Flows : g # f => flow'[g] = flow[g]
        /\ flow'[f].pc = "recheck"
    BY <1>0, <2>2 DEF Moved
  <2>6. \A g \in Flows : flow[g].kind = "resolve" /\ flow[g].has.from = c.from =>
                            flow[g].has.refresh < c.refresh
    <3>. SUFFICES ASSUME NEW g \in Flows, flow[g].kind = "resolve", flow[g].has.from = c.from
                  PROVE flow[g].has.refresh < c.refresh
      OBVIOUS
    <3>1. flow[g].has = b \/ flow[g].has.refresh < b.refresh
      BY <1>0, <1>2, <2>3 DEF TokensInv, OldTokens
    <3>2. flow[g].has.refresh \in Nat
      BY DEF Bundle
    <3>. QED
      BY <2>3, <3>1, <3>2
  <2>7. TokensInv'
    <3>1. NewTokens'
      BY <1>0, <1>2, <2>3, <2>4, <2>5 DEF TokensInv, NewTokens
    <3>2. OldTokens'
      BY <2>4, <2>5, <2>6 DEF OldTokens
    <3>3. NoTokensYet'
      BY <1>0, <1>2, <2>3, <2>4, <2>5 DEF TokensInv, NoTokensYet
    <3>. QED
      BY <3>1, <3>2, <3>3 DEF TokensInv
  <2>8. ASSUME ~excused', ~abandoned'
        PROVE UnderLease' /\ StillTaken'
    <3>1. UnderLease /\ StillTaken
      BY <1>0, <2>8 DEF RotationInv
    <3>2. ASSUME NEW g \in Flows, flow'[g].pc \in {"still", "refresh", "store", "refused"}
          PROVE flow'[g].has # c
      <4>1. g # f /\ flow[g].kind = "resolve"
        BY <1>0, <2>5, <3>2 DEF FlowsInv, WellFormed, FitsAt, Resolving
      <4>2. flow[g].has.refresh \in Nat
        BY DEF Bundle
      <4>. QED
        BY <2>3, <2>5, <2>6, <4>1, <4>2
    <3>3. UnderLease'
      BY <1>0, <2>4, <2>5, <3>1, <3>2 DEF UnderLease, Presents
    <3>4. authorized[c.from] \in {c.refresh, Ended}
      BY <1>0, <1>2, <2>3, <3>1 DEF StillTaken
    <3>5. StillTaken'
      BY <1>0, <2>4, <3>2, <3>4 DEF StillTaken
    <3>. QED
      BY <3>3, <3>5
  <2>. QED
    BY <2>7, <2>8 DEF RotationInv
<1>. QED
  BY <1>1, <1>2

LEMMA RotationStep ==
    ShapeInv /\ NamesInv /\ RotationInv /\ [ConnectionNext]_connectionVars => RotationInv'
<1>. SUFFICES ASSUME ShapeInv, NamesInv, RotationInv, [ConnectionNext]_connectionVars
              PROVE RotationInv'
  OBVIOUS
<1>. USE TokensHaveOrigin
<1>0. /\ TokensInv /\ oauth \in Secrets /\ flow \in [Flows -> Flow]
      /\ authorized \in [Authorizations -> Unstarted .. MaxRefreshes + 1]
  BY DEF RotationInv, ShapeInv, SecretsInv, FlowsInv, RowInv
<1>1. ASSUME UNCHANGED <<flow, oauth, authorized>>,
             ~excused' => ~excused, ~abandoned' => ~abandoned,
             profile.server = Gone => profile'.server = Gone
      PROVE RotationInv'
  BY <1>0, <1>1, TokensStay, LeaseStays DEF RotationInv
<1>2. CASE UNCHANGED connectionVars
  BY <1>1, <1>2 DEF connectionVars
<1>3. ASSUME NEW f \in Flows, FlowNext(f)
      PROVE RotationInv'
  BY <1>3, QuietRotationSteps, EnteringRotation, AuthorizingRotation, KeepingRotation,
     LeasingRotation, RefreshingRotation, StoringRotation
     DEF FlowNext
<1>4. CASE EditProfile \/ TokensComeDue
  BY <1>1, <1>4 DEF EditProfile, TokensComeDue, rowAndSecrets, world
<1>5. CASE CreateProfile
  <2>1. /\ UNCHANGED <<flow, oauth, authorized, excused>>
        /\ abandoned' = (abandoned \/ \E f \in Flows : ~Doing(f, "idle"))
    BY <1>5 DEF CreateProfile
  <2>2. TokensInv'
    BY <1>0, <2>1, TokensStay
  <2>3. ASSUME ~excused', ~abandoned'
        PROVE UnderLease' /\ StillTaken'
    <3>1. UnderLease /\ StillTaken /\ \A f \in Flows : flow[f].pc = "idle"
      BY <2>1, <2>3 DEF RotationInv, Doing
    <3>. QED
      BY <2>1, <3>1 DEF UnderLease, StillTaken, Presents
  <2>. QED
    BY <2>2, <2>3 DEF RotationInv
<1>6. CASE LeaseTimeIsOver
  <2>1. /\ oauth'.tokens = oauth.tokens /\ oauth'.lease.by = oauth.lease.by
        /\ UNCHANGED <<profile, flow, authorized, abandoned>>
    BY <1>0, <1>6 DEF LeaseTimeIsOver, Secrets
  <2>2. ~excused' => ~excused /\ \A f \in Flows : ~WorksUnderLease(f)
    BY <1>6 DEF LeaseTimeIsOver
  <2>3. TokensInv'
    BY <1>0, <2>1, TokensStay
  <2>4. ASSUME ~excused', ~abandoned'
        PROVE UnderLease' /\ StillTaken'
    <3>1. UnderLease /\ StillTaken
      BY <2>1, <2>2, <2>4 DEF RotationInv
    <3>2. \A f \in Flows : flow[f].pc \in {"reread", "still", "refresh", "store"} =>
                              oauth.lease.by # f
      BY <2>2, <2>4 DEF WorksUnderLease, ShapeInv, FlowsInv, WellFormed, FitsAt, Resolving
    <3>3. UnderLease'
      BY <2>1, <3>1, <3>2 DEF UnderLease, Presents
    <3>4. StillTaken'
      BY <2>1, <3>1 DEF StillTaken
    <3>. QED
      BY <3>3, <3>4
  <2>. QED
    BY <2>3, <2>4 DEF RotationInv
<1>7. CASE ServerEnds
  <2>1. PICK a \in Authorizations :
           authorized[a] > 0 /\ authorized' = [authorized EXCEPT ![a] = Ended]
    BY <1>7 DEF ServerEnds
  <2>2. UNCHANGED <<profile, flow, oauth, excused, abandoned>>
    BY <1>7 DEF ServerEnds, rowAndSecrets
  <2>3. \A d \in Authorizations : authorized'[d] \in {authorized[d], Ended}
    BY <1>0, <2>1
  <2>4. \A f \in Flows : flow[f].pc \in {"keep", "store", "refused"} =>
                            flow[f].has.from \in Authorizations
    BY DEF Presents, Real
  <2>5. NewTokens'
    BY <1>0, <2>2, <2>3, <2>4 DEF TokensInv, NewTokens
  <2>6. OldTokens'
    BY <1>0, <2>2 DEF TokensInv, OldTokens
  <2>7. NoTokensYet'
    BY <1>0, <2>1, <2>2 DEF TokensInv, NoTokensYet, Unstarted, Asked, Ended
  <2>8. ASSUME ~excused', ~abandoned'
        PROVE UnderLease' /\ StillTaken'
    <3>1. UnderLease /\ StillTaken
      BY <2>2, <2>8 DEF RotationInv
    <3>2. UnderLease'
      BY <2>2, <3>1 DEF UnderLease
    <3>3. oauth.tokens # NoBundle => oauth.tokens.from \in Authorizations
      BY DEF Real
    <3>4. StillTaken'
      BY <2>2, <2>3, <2>4, <3>1, <3>3 DEF StillTaken
    <3>. QED
      BY <3>2, <3>4
  <2>. QED
    BY <2>5, <2>6, <2>7, <2>8 DEF RotationInv, TokensInv
<1>. QED
  BY <1>2, <1>3, <1>4, <1>5, <1>6, <1>7 DEF ConnectionNext

LEMMA RotationInit == ConnectionInit => RotationInv
<1>. SUFFICES ASSUME ConnectionInit
              PROVE RotationInv
  OBVIOUS
<1>1. PICK first \in 0 .. MaxAuthorizations :
         /\ oauth = AuthorizedFrom(first)
         /\ flow = [f \in Flows |-> AtRest]
         /\ authorized = [a \in Authorizations |-> IF a <= first THEN 1 ELSE Unstarted]
  BY DEF ConnectionInit
<1>2. \A f \in Flows : flow[f].pc = "idle" /\ flow[f].kind = "start" /\ flow[f].has.from = 0
  BY <1>1 DEF AtRest, NoBundle
<1>3. /\ oauth.tokens.from = first /\ (first # 0 => oauth.tokens.refresh = 1)
      /\ first = 0 => oauth.tokens = NoBundle
  <2>1. CASE first = 0
    BY <1>1, <2>1 DEF AuthorizedFrom, NoSecrets, NoBundle
  <2>2. CASE first # 0
    BY <1>1, <2>2 DEF AuthorizedFrom, NoSecrets
  <2>. QED
    BY <2>1, <2>2
<1>4. first \in Nat /\ first <= MaxAuthorizations
  BY ConnectionAssumption
<1>5. NewTokens /\ OldTokens
  BY <1>2 DEF NewTokens, OldTokens
<1>6. NoTokensYet
  BY <1>1, <1>2, <1>3, <1>4 DEF NoTokensYet, Authorizations, Unstarted, Asked
<1>7. UnderLease
  BY <1>2 DEF UnderLease, Presents
<1>8. StillTaken
  BY <1>1, <1>2, <1>3, <1>4 DEF StillTaken, Authorizations
<1>. QED
  BY <1>5, <1>6, <1>7, <1>8 DEF RotationInv, TokensInv

(* RefusedHasEnded, the test "expired tokens refresh once across           *)
(* concurrent callers and preserve rotation": whoever is refused tokens    *)
(* that still stand is refused because the server has ended them, not      *)
(* because another request has used them up.                               *)
THEOREM OnlyEndedAreRefused == ConnectionSpec => []RefusedHasEnded
<1>1. ConnectionInit => ShapeInv /\ NamesInv /\ RotationInv
  BY ShapeInit, NamesInit, RotationInit
<1>2. ShapeInv /\ NamesInv /\ RotationInv /\ [ConnectionNext]_connectionVars
         => (ShapeInv /\ NamesInv /\ RotationInv)'
  BY ShapeStep, NamesStep, RotationStep
<1>3. RotationInv => RefusedHasEnded
  BY DEF RotationInv, StillTaken, RefusedHasEnded, Doing
<1>. QED
  BY <1>1, <1>2, <1>3, PTL DEF ConnectionSpec
==============================================================================
