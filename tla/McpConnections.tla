---------------------------- MODULE McpConnections ----------------------------
(***************************************************************************)
(* One connection of one profile to an MCP server that asks for OAuth.     *)
(* The connection stands in the profile's row, its secrets stand in the    *)
(* settings, and no transaction spans both: who writes secrets looks at    *)
(* the row again afterwards, and who deletes the profile leaves a marker   *)
(* with the names of its secrets until they are gone.                      *)
(*                                                                         *)
(* A flow is one request, or one resolution of the access token.  A step   *)
(* is one call to a store or to the authorization server; a read and the   *)
(* compare-and-set of what it read are one step where the value read is    *)
(* unique (a state, a lease).                                              *)
(***************************************************************************)
EXTENDS Integers

CONSTANTS
    Flows,               \* requests that run at the same time
    Servers,             \* URLs the connection may have
    ConnectionFaults,    \* what may go wrong in this instance
    MaxFlows,            \* bound: requests begun
    MaxMishaps,          \* bound: things that go wrong
    MaxAuthorizations,   \* bound: authorizations started
    MaxRefreshes         \* bound: rotations of one refresh token

ASSUME ConnectionAssumption ==
    /\ ConnectionFaults \subseteq {"stop", "stall", "lose", "end"}
    /\ MaxFlows \in Nat /\ MaxMishaps \in Nat
    /\ MaxAuthorizations \in Nat /\ MaxRefreshes \in Nat
    /\ MaxAuthorizations <= MaxFlows    \* a request begins every one
    /\ "gone" \notin Servers /\ "unconnected" \notin Servers
    /\ "nobody" \notin Flows

VARIABLES
    profile,      \* the row: its connection and that one's lifecycle status
    oauth,        \* the secrets of the connection in the settings
    named,        \* cleanup marker: names of secrets, {} if there is none
    flow,         \* [Flows -> progress of a request]
    begun,        \* requests begun so far
    authorized,   \* [authorizations -> refresh token taken next]: external
    due,          \* tokens that need a refresh
    mishaps,      \* things that went wrong so far
    abandoned,    \* secrets have lost the request that would look after them
    excused       \* a lease was outlived or cleared, or a rotation lost

connectionVars == <<profile, oauth, named, flow, begun, authorized, due,
                    mishaps, abandoned, excused>>
rowAndSecrets == <<profile, oauth, named>>
world == <<begun, authorized, due, mishaps, abandoned, excused>>

(* The connection is known by the URL of its server.                       *)
Gone == "gone"                \* no such profile
Unconnected == "unconnected"  \* a profile without the connection
Profile == [server : Servers \cup {Gone, Unconnected},
            lifecycle : {"pending", "ready", "failed"}]
NoProfile == [server |-> Gone, lifecycle |-> "pending"]

Authorizations == 1 .. MaxAuthorizations

(* A token bundle, by the authorization it came from (0: there is none).   *)
Bundle == [server : Servers \cup {Unconnected}, from : 0 .. MaxAuthorizations,
           refresh : 0 .. MaxRefreshes + 1]
NoBundle == [server |-> Unconnected, from |-> 0, refresh |-> 0]

(* What the server takes of an authorization: nothing, as it was not asked *)
(* for, or has ended, or waits for its code; or its next refresh token.    *)
Unstarted == -2
Ended == -1
Asked == 0

(* The lease of a refresh: whose, and whether its time is over.            *)
NoFlow == "nobody"
Vacant == [by |-> NoFlow, over |-> TRUE]

(* bearer: the token of a connection that has one instead.                 *)
OAuthKeys == {"client", "pending", "tokens", "lease"}
Keys == OAuthKeys \cup {"bearer"}
PendingState == [server : Servers \cup {Unconnected}, from : 0 .. MaxAuthorizations]
Secrets == [client : BOOLEAN, pending : PendingState, tokens : Bundle,
            lease : [by : Flows \cup {NoFlow}, over : BOOLEAN], bearer : BOOLEAN]
NotPending == [server |-> Unconnected, from |-> 0]
NoSecrets == [client |-> FALSE, pending |-> NotPending, tokens |-> NoBundle,
              lease |-> Vacant, bearer |-> FALSE]

Without(keys) == [k \in Keys |-> IF k \in keys THEN NoSecrets[k] ELSE oauth[k]]

(* Where a request stands: the store or the server it calls next.          *)
FlowSteps ==
    {"idle", "stage", "look", "register", "propose", "present", "exchange",
     "keep", "verify", "report", "amend", "find", "lease", "reread", "still",
     "refresh", "store", "refused", "winner", "notify", "release", "save",
     "bearer", "oauth", "row", "marker", "delete", "recheck", "clear", "clearAll"}

(* server: of the connection, as the request found it; from: the           *)
(* authorization it serves; has: the tokens it read or was given; keys:    *)
(* the secrets it stages or deletes.                                       *)
Flow == [pc : FlowSteps,
         kind : {"start", "callback", "resolve", "put", "clear", "delete"},
         server : Servers \cup {Unconnected}, from : 0 .. MaxAuthorizations,
         has : Bundle, keys : SUBSET Keys]
AtRest == [pc |-> "idle", kind |-> "start", server |-> Unconnected,
           from |-> 0, has |-> NoBundle, keys |-> {}]

-----------------------------------------------------------------------------
Doing(f, pc) == flow[f].pc = pc
Continue(f, pc) == flow' = [flow EXCEPT ![f].pc = pc]
Leave(f) == flow' = [flow EXCEPT ![f] = AtRest]

Mishap(kind) ==
    kind \in ConnectionFaults /\ mishaps < MaxMishaps /\ mishaps' = mishaps + 1

Enter(f, kind, pc, server, keys) ==
    /\ Doing(f, "idle") /\ begun < MaxFlows
    /\ begun' = begun + 1
    /\ flow' = [flow EXCEPT ![f] = [AtRest EXCEPT !.kind = kind, !.pc = pc,
                                        !.server = server, !.keys = keys]]
    /\ UNCHANGED <<authorized, due, mishaps, abandoned, excused>>

Connected == profile.server \in Servers

(* requireCurrentConnection.                                               *)
IsCurrent(f) == profile.server = flow[f].server

(* stageMcpSecretCleanup: the marker is there before the secrets are.      *)
Stage(f) ==
    /\ Doing(f, "stage")
    /\ named' = named \cup flow[f].keys
    /\ Continue(f, CASE flow[f].kind = "start" -> "look"
                     [] flow[f].kind = "put" -> "save"
                     [] flow[f].kind = "delete" -> "row")
    /\ UNCHANGED <<profile, oauth, world>>

-----------------------------------------------------------------------------
(* startMcpOAuthAuthorization                                              *)

BeginStart(f) ==
    /\ Connected
    /\ Enter(f, "start", "stage", profile.server, OAuthKeys)
    /\ UNCHANGED rowAndSecrets

LookBefore(f) ==
    /\ Doing(f, "look")
    /\ IF IsCurrent(f) THEN Continue(f, "register") ELSE Leave(f)
    /\ UNCHANGED <<rowAndSecrets, world>>

(* Discovery, and resolveClientInformation: a client is found or           *)
(* registered.  Either may fail.                                           *)
RegisterClient(f) ==
    /\ Doing(f, "register")
    /\ \/ oauth' = [oauth EXCEPT !.client = TRUE] /\ Continue(f, "propose")
       \/ Leave(f) /\ UNCHANGED oauth
    /\ UNCHANGED <<profile, named, world>>

Propose(f) ==
    /\ Doing(f, "propose")
    /\ \E a \in Authorizations :
          /\ authorized[a] = Unstarted
          /\ \A b \in Authorizations : b < a => authorized[b] # Unstarted
          /\ authorized' = [authorized EXCEPT ![a] = Asked]
          /\ oauth' = [oauth EXCEPT !.pending = [server |-> flow[f].server, from |-> a]]
    /\ Continue(f, "recheck")
    /\ UNCHANGED <<profile, named, begun, due, mishaps, abandoned, excused>>

-----------------------------------------------------------------------------
(* The callback: consumePendingAuthorization, completeMcpOAuthAuthorization,*)
(* cancelMcpOAuthAuthorization, verifyAndStoreMcpOAuthConnection           *)

(* The state is consumed at once; then the callback goes on with a code,   *)
(* or with nothing, if the user refused or the state is too old.           *)
BeginCallback(f) ==
    /\ oauth.pending # NotPending
    /\ oauth' = [oauth EXCEPT !.pending = NotPending]
    /\ \/ /\ Doing(f, "idle") /\ begun < MaxFlows
          /\ begun' = begun + 1
          /\ flow' = [flow EXCEPT ![f] =
                 [AtRest EXCEPT !.kind = "callback", !.pc = "present",
                                !.server = oauth.pending.server,
                                !.from = oauth.pending.from]]
       \/ UNCHANGED <<flow, begun>>
    /\ UNCHANGED <<profile, named, authorized, due, mishaps, abandoned, excused>>

LookAtCallback(f) ==
    /\ Doing(f, "present")
    /\ IF IsCurrent(f) THEN Continue(f, "exchange") ELSE Leave(f)
    /\ UNCHANGED <<rowAndSecrets, world>>

ExchangeCode(f) ==
    LET a == flow[f].from IN
    /\ Doing(f, "exchange")
    /\ \/ /\ authorized[a] = Asked
          /\ authorized' = [authorized EXCEPT ![a] = 1]
          /\ flow' = [flow EXCEPT ![f].pc = "keep",
                 ![f].has = [server |-> flow[f].server, from |-> a, refresh |-> 1]]
       \/ Leave(f) /\ UNCHANGED authorized
    /\ UNCHANGED <<rowAndSecrets, begun, due, mishaps, abandoned, excused>>

KeepTokens(f) ==
    /\ Doing(f, "keep")
    /\ oauth' = [oauth EXCEPT !.tokens = flow[f].has]
    /\ Continue(f, "recheck")
    /\ UNCHANGED <<profile, named, world>>

(* The connection as it is now, and its access token, which is new.        *)
Verify(f) ==
    /\ Doing(f, "verify")
    /\ IF Connected /\ oauth.tokens.server = profile.server
       THEN flow' = [flow EXCEPT ![f].server = profile.server, ![f].pc = "report"]
       ELSE Leave(f)
    /\ UNCHANGED <<rowAndSecrets, world>>

(* replaceVerifiedMcpConnection, after the tools were listed: the profile  *)
(* is read once more, and its list of connections written back.            *)
ReadLatest(f) ==
    /\ Doing(f, "report")
    /\ IF IsCurrent(f) THEN Continue(f, "amend") ELSE Leave(f)
    /\ UNCHANGED <<rowAndSecrets, world>>

Amend(f) ==
    /\ Doing(f, "amend")
    /\ \/ /\ profile.server # Gone
          /\ \E l \in {"ready", "failed"} :
                profile' = [server |-> flow[f].server, lifecycle |-> l]
       \/ profile.server = Gone /\ UNCHANGED profile
    /\ Leave(f)
    /\ UNCHANGED <<oauth, named, world>>

-----------------------------------------------------------------------------
(* resolveMcpOAuthAccessToken, withLease                                   *)

BeginResolve(f) ==
    /\ Connected
    /\ Enter(f, "resolve", "find", profile.server, {})
    /\ UNCHANGED rowAndSecrets

(* There are no tokens, or good ones, or they will do while another        *)
(* refreshes them.                                                         *)
Find(f) ==
    /\ Doing(f, "find")
    /\ \/ /\ oauth.tokens.server = flow[f].server /\ oauth.tokens \in due
          /\ Continue(f, "lease")
       \/ /\ oauth.tokens.server # flow[f].server \/ oauth.tokens \notin due
             \/ ~oauth.lease.over
          /\ Leave(f)
    /\ UNCHANGED <<rowAndSecrets, world>>

(* Mutant: the lease is taken over whoever has it.                         *)
LeaseIsTaken == TRUE

LeaseIsFree == oauth.lease.over

(* Who does not get it tries again, and at last gives up.                  *)
AcquireLease(f) ==
    /\ Doing(f, "lease")
    /\ \/ /\ LeaseIsFree
          /\ oauth' = [oauth EXCEPT !.lease = [by |-> f, over |-> FALSE]]
          /\ Continue(f, "reread")
       \/ ~LeaseIsFree /\ Leave(f) /\ UNCHANGED oauth
    /\ UNCHANGED <<profile, named, world>>

(* The lease is not looked at again, which may have gone with the secrets. *)
ReadAgain(f) ==
    /\ Doing(f, "reread")
    /\ IF oauth.tokens.server = flow[f].server
       THEN flow' = [flow EXCEPT ![f].has = oauth.tokens, ![f].pc = "still"]
       ELSE Continue(f, "release")
    /\ excused' = (excused \/ oauth.lease.by # f)
    /\ UNCHANGED <<rowAndSecrets, begun, authorized, due, mishaps, abandoned>>

StillCurrent(f) ==
    /\ Doing(f, "still")
    /\ Continue(f, IF IsCurrent(f) /\ flow[f].has \in due THEN "refresh" ELSE "release")
    /\ UNCHANGED <<rowAndSecrets, world>>

Refreshed(b) == [b EXCEPT !.refresh = @ + 1]

(* The server rotates the token, or refuses it, or cannot be reached: and  *)
(* then it may have rotated it.                                            *)
RefreshTokens(f) ==
    LET b == flow[f].has
        Rotates == authorized' = [authorized EXCEPT ![b.from] = b.refresh + 1]
    IN
    /\ Doing(f, "refresh")
    /\ \/ /\ authorized[b.from] = b.refresh
          /\ Rotates /\ Continue(f, "store")
          /\ UNCHANGED <<mishaps, excused>>
       \/ /\ authorized[b.from] # b.refresh
          /\ Continue(f, "refused")
          /\ UNCHANGED <<authorized, mishaps, excused>>
       \/ Continue(f, "release") /\ UNCHANGED <<authorized, mishaps, excused>>
       \/ /\ Mishap("lose")
          /\ authorized[b.from] = b.refresh
          /\ Rotates /\ Continue(f, "release")
          /\ excused' = TRUE
    /\ UNCHANGED <<rowAndSecrets, begun, due, abandoned>>

(* A refresher that has lost takes the winner's tokens.                    *)
StoreRefreshed(f) ==
    /\ Doing(f, "store")
    /\ IF oauth.tokens = flow[f].has
       THEN /\ oauth' = [oauth EXCEPT !.tokens = Refreshed(flow[f].has)]
            /\ Continue(f, "recheck")
       ELSE Continue(f, "release") /\ UNCHANGED oauth
    /\ UNCHANGED <<profile, named, world>>

DropRefused(f) ==
    /\ Doing(f, "refused")
    /\ IF oauth.tokens = flow[f].has
       THEN oauth' = Without({"tokens"}) /\ Continue(f, "notify")
       ELSE Continue(f, "winner") /\ UNCHANGED oauth
    /\ UNCHANGED <<profile, named, world>>

ReadWinner(f) ==
    /\ Doing(f, "winner")
    /\ Continue(f, IF oauth.tokens = NoBundle THEN "notify" ELSE "release")
    /\ UNCHANGED <<rowAndSecrets, world>>

(* markOAuthReauthorizationRequired.                                       *)
Notify(f) ==
    /\ Doing(f, "notify")
    /\ profile' = IF IsCurrent(f) THEN [profile EXCEPT !.lifecycle = "pending"]
                  ELSE profile
    /\ Continue(f, "release")
    /\ UNCHANGED <<oauth, named, world>>

ReleaseLease(f) ==
    /\ Doing(f, "release")
    /\ oauth' = IF oauth.lease.by = f THEN Without({"lease"}) ELSE oauth
    /\ Leave(f)
    /\ UNCHANGED <<profile, named, world>>

-----------------------------------------------------------------------------
(* Who has written looks at the row again                                  *)

(* Mutant: a connection that has gone in the meantime is not noticed.      *)
StaysAssumed(f) == TRUE

(* A bearer belongs to the connection whatever its URL.                    *)
Stays(f) == IF flow[f].kind = "put" THEN Connected ELSE IsCurrent(f)

Recheck(f) ==
    /\ Doing(f, "recheck")
    /\ \/ /\ Stays(f)
          /\ CASE flow[f].kind = "callback" -> Continue(f, "verify")
               [] flow[f].kind = "resolve" -> Continue(f, "release")
               [] OTHER -> Leave(f)
       \/ /\ ~Stays(f)
          /\ Continue(f, IF flow[f].kind = "put" /\ profile.server = Gone
                         THEN "clearAll" ELSE "clear")
    /\ UNCHANGED <<rowAndSecrets, world>>

(* deleteMcpOAuthSettings, deleteMcpSecrets.                               *)
Clear(f) ==
    /\ flow[f].pc \in {"clear", "clearAll"}
    /\ oauth' = Without(IF flow[f].kind = "put" THEN {"bearer"} ELSE OAuthKeys)
    /\ CASE flow[f].kind = "resolve" -> Continue(f, "release")
         [] Doing(f, "clearAll") -> Continue(f, "marker")
         [] OTHER -> Leave(f)
    /\ UNCHANGED <<profile, named, world>>

-----------------------------------------------------------------------------
(* The admin's secrets and profiles                                        *)

(* PUT secrets.                                                            *)
BeginPut(f) ==
    /\ Connected
    /\ Enter(f, "put", "stage", profile.server, {"bearer"})
    /\ UNCHANGED rowAndSecrets

(* A bearer is saved, or cleared; the tokens of OAuth may go with that.    *)
SaveSecrets(f) ==
    /\ Doing(f, "save")
    /\ \E saved, clearOAuth \in BOOLEAN :
          oauth' = [(IF clearOAuth THEN Without(OAuthKeys) ELSE oauth)
                        EXCEPT !.bearer = saved]
    /\ Continue(f, "recheck")
    /\ UNCHANGED <<profile, named, world>>

(* DELETE secrets, which the page sends after it has removed a connection. *)
BeginClear(f) ==
    /\ Enter(f, "clear", "bearer", Unconnected, {})
    /\ UNCHANGED rowAndSecrets

ClearSecrets(f) ==
    /\ \/ Doing(f, "bearer") /\ oauth' = Without({"bearer"}) /\ Continue(f, "oauth")
       \/ Doing(f, "oauth") /\ oauth' = Without(OAuthKeys) /\ Leave(f)
    /\ UNCHANGED <<profile, named, world>>

(* DELETE of the profile; of one that is gone, it finishes what is left.   *)
BeginDelete(f) ==
    /\ IF profile.server = Gone
       THEN Enter(f, "delete", "marker", Unconnected, {})
       ELSE Enter(f, "delete", "stage", Unconnected, IF Connected THEN Keys ELSE {})
    /\ UNCHANGED rowAndSecrets

(* A profile that is still assigned stays.                                 *)
DeleteRow(f) ==
    /\ Doing(f, "row")
    /\ \/ profile' = NoProfile /\ Continue(f, "marker")
       \/ profile.server # Gone /\ Leave(f) /\ UNCHANGED profile
    /\ UNCHANGED <<oauth, named, world>>

(* finishMcpSecretCleanup: one secret after the other, the marker last.    *)
ReadMarker(f) ==
    /\ Doing(f, "marker")
    /\ IF named = {} THEN Leave(f)
       ELSE flow' = [flow EXCEPT ![f].keys = named, ![f].pc = "delete"]
    /\ UNCHANGED <<rowAndSecrets, world>>

DeleteNamed(f) ==
    /\ Doing(f, "delete")
    /\ \/ \E k \in flow[f].keys :
             /\ oauth' = Without({k})
             /\ flow' = [flow EXCEPT ![f].keys = @ \ {k}]
             /\ UNCHANGED named
       \/ flow[f].keys = {} /\ named' = {} /\ Leave(f) /\ UNCHANGED oauth
    /\ UNCHANGED <<profile, world>>

(* PATCH of the profile: the connection is added, removed, or gets another *)
(* URL.                                                                    *)
EditProfile ==
    /\ profile.server # Gone
    /\ \E s \in (Servers \cup {Unconnected}) \ {profile.server} :
          profile' = [server |-> s, lifecycle |-> "pending"]
    /\ UNCHANGED <<oauth, named, flow, world>>

(* A profile may get the name of one that was deleted: requests of that    *)
(* one that are still under way take it for their own.                     *)
CreateProfile ==
    /\ profile.server = Gone
    /\ \E s \in Servers \cup {Unconnected} :
          profile' = [server |-> s, lifecycle |-> "pending"]
    /\ abandoned' = (abandoned \/ \E f \in Flows : ~Doing(f, "idle"))
    /\ UNCHANGED <<oauth, named, flow, begun, authorized, due, mishaps, excused>>

-----------------------------------------------------------------------------
(* Time, the server, and requests that go away                             *)

TokensComeDue ==
    /\ oauth.tokens # NoBundle /\ oauth.tokens.refresh <= MaxRefreshes
    /\ oauth.tokens \notin due
    /\ due' = due \cup {oauth.tokens}
    /\ UNCHANGED <<rowAndSecrets, flow, begun, authorized, mishaps, abandoned, excused>>

WorksUnderLease(f) ==
    /\ oauth.lease.by = f /\ flow[f].kind = "resolve"
    /\ ~(flow[f].pc \in {"idle", "find", "lease"})

(* Twenty seconds pass: more than the server may take to answer, unless    *)
(* the request is held up.                                                 *)
LeaseTimeIsOver ==
    /\ ~oauth.lease.over
    /\ oauth' = [oauth EXCEPT !.lease.over = TRUE]
    /\ IF \E f \in Flows : WorksUnderLease(f)
       THEN Mishap("stall") /\ excused' = TRUE
       ELSE UNCHANGED <<mishaps, excused>>
    /\ UNCHANGED <<profile, named, flow, begun, authorized, due, abandoned>>

ServerEnds ==
    /\ Mishap("end")
    /\ \E a \in Authorizations :
          authorized[a] > 0 /\ authorized' = [authorized EXCEPT ![a] = Ended]
    /\ UNCHANGED <<rowAndSecrets, flow, begun, due, abandoned, excused>>

(* Secrets a request is going to remove, or to look at the row for.        *)
LookedAfter(f) ==
    CASE flow[f].pc \in {"propose", "recheck", "clear", "clearAll"} ->
            IF flow[f].kind = "put" THEN {"bearer"} ELSE OAuthKeys
      [] Doing(f, "delete") -> flow[f].keys
      [] OTHER -> {}

(* A request stops: killed, or by a store that fails it.                   *)
StopFlow(f) ==
    /\ Mishap("stop")
    /\ ~Doing(f, "idle")
    /\ Leave(f)
    /\ abandoned' = (abandoned \/ (LookedAfter(f) # {} /\ ~Doing(f, "delete")))
    /\ excused' = (excused \/ Doing(f, "store"))
    /\ UNCHANGED <<rowAndSecrets, begun, authorized, due>>

-----------------------------------------------------------------------------
(* A profile with the connection, and the tokens of authorization a, or of *)
(* none; an authorization counts as one request.                           *)
AuthorizedFrom(a) ==
    IF a = 0 THEN NoSecrets
    ELSE [NoSecrets EXCEPT !.client = TRUE,
              !.tokens = [server |-> profile.server, from |-> a, refresh |-> 1]]

ConnectionInit ==
    \E first \in 0 .. MaxAuthorizations :
       /\ profile \in [server : Servers,
                       lifecycle : {IF first = 0 THEN "pending" ELSE "ready"}]
       /\ oauth = AuthorizedFrom(first)
       /\ named = IF first = 0 THEN {} ELSE OAuthKeys
       /\ flow = [f \in Flows |-> AtRest] /\ begun = first
       /\ authorized = [a \in Authorizations |-> IF a <= first THEN 1 ELSE Unstarted]
       /\ due = {} /\ mishaps = 0 /\ abandoned = FALSE /\ excused = FALSE

FlowNext(f) ==
    \/ Stage(f)
    \/ BeginStart(f) \/ LookBefore(f) \/ RegisterClient(f) \/ Propose(f)
    \/ BeginCallback(f) \/ LookAtCallback(f) \/ ExchangeCode(f) \/ KeepTokens(f)
    \/ Verify(f) \/ ReadLatest(f) \/ Amend(f)
    \/ BeginResolve(f) \/ Find(f) \/ AcquireLease(f) \/ ReadAgain(f)
    \/ StillCurrent(f) \/ RefreshTokens(f) \/ StoreRefreshed(f) \/ DropRefused(f)
    \/ ReadWinner(f) \/ Notify(f) \/ ReleaseLease(f)
    \/ Recheck(f) \/ Clear(f)
    \/ BeginPut(f) \/ SaveSecrets(f) \/ BeginClear(f) \/ ClearSecrets(f)
    \/ BeginDelete(f) \/ DeleteRow(f) \/ ReadMarker(f) \/ DeleteNamed(f)
    \/ StopFlow(f)

ConnectionNext ==
    \/ \E f \in Flows : FlowNext(f)
    \/ EditProfile \/ CreateProfile
    \/ TokensComeDue \/ LeaseTimeIsOver \/ ServerEnds

ConnectionSpec == ConnectionInit /\ [][ConnectionNext]_connectionVars

-----------------------------------------------------------------------------
(* The row, the settings and the requests are well formed.                 *)
ConnectionTypeOK ==
    /\ profile \in Profile /\ oauth \in Secrets /\ named \subseteq Keys
    /\ flow \in [Flows -> Flow] /\ begun \in 0 .. MaxFlows
    /\ authorized \in [Authorizations -> Unstarted .. MaxRefreshes + 1]
    /\ due \subseteq Bundle
    /\ mishaps \in 0 .. MaxMishaps
    /\ abandoned \in BOOLEAN /\ excused \in BOOLEAN

(* "Keeping the key list in settings makes cleanup idempotent and          *)
(* retryable even after the profile row ... no longer exists": no secret   *)
(* outlives its connection unless the marker names it, for the next DELETE *)
(* of the profile, or a request under way is going to remove it.  Excepted *)
(* are a writer that stops before it has looked at the row again, and      *)
(* requests that outlive their profile into a new one of the same name.    *)
LeftoversAreNamed ==
    ~Connected /\ ~abandoned =>
        \A k \in Keys \ {"lease"} :
            oauth[k] # NoSecrets[k] =>
                k \in named \/ \E f \in Flows : k \in LookedAfter(f)

(* tests/mcp-oauth.test.ts: "expired tokens refresh once across concurrent *)
(* callers and preserve rotation".  Tokens that are dropped because the    *)
(* server refused to refresh them are not victims of another refresh: the  *)
(* server has ended the authorization.  Excepted are a rotation that was   *)
(* lost, a lease its holder has outlived, a lease that was cleared with    *)
(* the secrets before its holder read the tokens (a new authorization may  *)
(* have stored others by then, which have a lease of their own), and the   *)
(* deletion of one profile that goes on in the next of its name and takes  *)
(* the lease away.                                                         *)
RefusedHasEnded ==
    \A f \in Flows :
        Doing(f, "refused") /\ oauth.tokens = flow[f].has =>
            excused \/ abandoned \/ authorized[flow[f].has.from] = Ended
=============================================================================
