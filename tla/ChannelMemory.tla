----------------------------- MODULE ChannelMemory -----------------------------
(***************************************************************************)
(* The memory of one channel, as one thread of it uses it: the public      *)
(* store, the private generations, the entries, and the Slack events that  *)
(* read them into a prompt or change them.                                 *)
(*                                                                         *)
(* Each method of the memory store is one step; the Slack calls and the    *)
(* agent between them are steps of their own.  Events overlap, Slack may   *)
(* change the channel and an operator the entries at any point, and a      *)
(* durable turn may stop anywhere and begin again.                         *)
(***************************************************************************)
EXTENDS Integers, FiniteSets

CONSTANTS
    Events,        \* Slack events of the thread
    Entries,       \* entry ids
    Requests,      \* what an event may ask for
    MemoryFaults,  \* what may go wrong in this instance
    MaxShocks      \* bound: changes from outside, and faults

ASSUME MemoryAssumption ==
    /\ Requests \subseteq {"ask", "remember", "update", "merge", "forget", "confirm"}
    /\ MemoryFaults \subseteq {"slack", "agent", "crash", "channel"}
    /\ MaxShocks \in Nat
    /\ Events \cap Nat = {}
    /\ "nothing" \notin Entries

VARIABLES
    channel,     \* what Slack says of the channel
    scope,       \* its memory_scope_state row
    sealed,      \* generations whose private store is sealed
    memory,      \* [Entries -> memory_entries row]
    challenge,   \* [Events -> forget challenge it was given]
    context,     \* the thread's memory_conversation_contexts row
    given,       \* what the agent's transcripts were given: external
    event,       \* [Events -> what became of it]
    resumed,     \* a turn went on under a plan it had frozen before
    shocks       \* changes from outside and faults so far

memoryVars == <<channel, scope, sealed, memory, challenge, context, given,
                event, resumed, shocks>>

Nothing == "nothing"
PublicStore == 0

(* The epoch of the turns without memory, Number.MAX_SAFE_INTEGER: one     *)
(* that counting does not reach.                                           *)
Quarantine == -1

(* The stores of the channel: the workspace's public one and its private   *)
(* generations.                                                            *)
Generations == Nat \ {0}
Stores == {PublicStore} \cup Generations

Privacies == {"public", "private"}
Readings == Privacies \cup {"archived", "unknown"}

Entry == [status : {"absent", "active", "superseded", "forgotten"},
          store : Stores, version : Nat]

(* A pending or consumed forget request; an event without one has nothing  *)
(* left to consume.                                                        *)
Challenge == [entry : Entries \cup {Nothing}, version : Nat, consumed : BOOLEAN]
NoChallenge == [entry |-> Nothing, version |-> 0, consumed |-> TRUE]

(* A selection: entries with the versions that were read.                  *)
Selections == SUBSET (Entries \X Nat)

(* What an event knows of the channel: EnabledMemoryScope.                 *)
Scopes == [privacy : Privacies, generation : Nat, version : Nat]
NoScope == [privacy |-> "public", generation |-> 0, version |-> 0]

NewEvent(k) ==
    [request |-> k, pc |-> "new", facts |-> "unknown", seen |-> NoScope,
     picked |-> {}, epoch |-> 0, inject |-> FALSE, plan |-> 0,
     sent |-> FALSE, used |-> {}, sound |-> TRUE, answer |-> Nothing,
     from |-> Nothing]

Event == [request : Requests,
          pc : {"new", "observe", "list", "resolve", "freeze", "dispatch",
                "confirm", "check_slack", "check_scope", "check_entries",
                "look", "change", "done"},
          facts : Readings, seen : Scopes,
          picked : Selections, epoch : Nat \cup {Quarantine}, inject : BOOLEAN,
          plan : Nat \cup {Quarantine},
          sent : BOOLEAN, used : Selections,
          sound : BOOLEAN, answer : {Nothing, "draft", "withheld"},
          from : Events \cup {Nothing}]

-----------------------------------------------------------------------------
(* Scope                                                                   *)

(* Mutant: a returning private channel goes on with its generation.        *)
NextGenerationKept(p) ==
    IF p = "private" /\ scope.lifecycle # "retained" /\ scope.privacy # "private"
    THEN scope.generation + 1 ELSE scope.generation

NextGeneration(p) ==
    IF p = "private" /\ (scope.lifecycle # "active" \/ scope.privacy # "private")
    THEN scope.generation + 1 ELSE scope.generation

(* observeChannelScope(p).                                                 *)
ObserveScope(p) ==
    LET moved == scope.lifecycle # "active" \/ scope.privacy # p IN
    /\ scope' = [privacy |-> p, lifecycle |-> "active",
                 generation |-> NextGeneration(p),
                 version |-> scope.version + IF moved THEN 1 ELSE 0]
    /\ sealed' = IF /\ scope.lifecycle = "active"
                    /\ scope.privacy = "private" /\ p = "public"
                 THEN sealed \cup {scope.generation} ELSE sealed

(* retainChannelScope.                                                     *)
RetainScope ==
    IF scope.lifecycle = "active"
    THEN /\ scope' = [scope EXCEPT !.lifecycle = "retained", !.version = @ + 1]
         /\ sealed' = IF scope.privacy = "private"
                      THEN sealed \cup {scope.generation} ELSE sealed
    ELSE UNCHANGED <<scope, sealed>>

WriteStore(s) == IF s.privacy = "private" THEN s.generation ELSE PublicStore
ReadStores(s) == {PublicStore, WriteStore(s)}

(* listEntries of the stores an event may read.                            *)
Listed(stores) ==
    {<<x, memory[x].version>> :
        x \in {y \in Entries : memory[y].status = "active" /\ memory[y].store \in stores}}

(* Mutant: the channel is asked, and not the store.                        *)
UnsealedByScope(store) == store = PublicStore \/ scope.lifecycle # "retained"

Unsealed(store) == store \notin sealed

(* Mutant: a version that moved on is good enough.                         *)
MutableAnyVersion(x, version) ==
    memory[x].status = "active" /\ Unsealed(memory[x].store)

(* assertMutableVersion.                                                   *)
Mutable(x, version) ==
    /\ memory[x].version = version
    /\ memory[x].status = "active"
    /\ Unsealed(memory[x].store)

-----------------------------------------------------------------------------
(* The beginning of every event                                            *)

To(e, pc) == event' = [event EXCEPT ![e].pc = pc]
At(e, pc) == event[e].pc = pc

LookUps(actual) ==
    {actual} \cup IF "slack" \in MemoryFaults /\ shocks < MaxShocks
                  THEN {"unknown"} ELSE {}

(* A failed look-up is one of the counted faults.                          *)
Counted(reading) == shocks' = shocks + IF reading = "unknown" THEN 1 ELSE 0

Actual == IF channel.archived THEN "archived" ELSE channel.privacy

(* resolveMemoryScope asks Slack for the channel, its members and the      *)
(* author ...                                                              *)
ReadSlack(e) ==
    /\ At(e, "new")
    /\ \E f \in LookUps(Actual) :
           /\ event' = [event EXCEPT ![e].facts = f, ![e].pc = "observe"]
           /\ Counted(f)
    /\ UNCHANGED <<channel, scope, sealed, memory, challenge, context, given, resumed>>

(* Without a scope a command is refused and a turn goes on free of memory, *)
(* in a transcript of its own.                                             *)
Unscoped(e) ==
    event' = IF event[e].request = "ask"
             THEN [event EXCEPT ![e].epoch = Quarantine, ![e].pc = "freeze"]
             ELSE [event EXCEPT ![e].pc = "done"]

(* ... and records what it was told.                                       *)
Observe(e) ==
    /\ At(e, "observe")
    /\ LET f == event[e].facts IN
       \/ /\ f = "unknown"
          /\ Unscoped(e)
          /\ UNCHANGED <<scope, sealed>>
       \/ /\ f = "archived"
          /\ RetainScope
          /\ Unscoped(e)
       \/ /\ f \in Privacies
          /\ ObserveScope(f)
          /\ event' = [event EXCEPT
                 ![e].seen = [privacy |-> f, generation |-> scope'.generation,
                              version |-> scope'.version],
                 ![e].pc = IF event[e].request = "ask" THEN "list" ELSE "look"]
    /\ UNCHANGED <<channel, memory, challenge, context, given, resumed, shocks>>

-----------------------------------------------------------------------------
(* A turn with memory                                                      *)

(* The entries are few enough for the prompt, so all of them are selected. *)
List(e) ==
    /\ At(e, "list")
    /\ event' = [event EXCEPT ![e].picked = Listed(ReadStores(event[e].seen)),
                              ![e].pc = "resolve"]
    /\ UNCHANGED <<channel, scope, sealed, memory, challenge, context, given,
                   resumed, shocks>>

SameContext(e) ==
    /\ context.epoch > 0
    /\ context.scope = event[e].seen
    /\ context.selection = event[e].picked

(* resolveConversationContext: another selection or scope starts another   *)
(* epoch, and with it another transcript.                                  *)
ResolveContext(e) ==
    /\ At(e, "resolve")
    /\ context' =
           IF SameContext(e) THEN context
           ELSE [epoch |-> context.epoch + 1, scope |-> event[e].seen,
                 selection |-> event[e].picked, confirmed |-> FALSE]
    /\ event' = [event EXCEPT ![e].epoch = context'.epoch,
                              ![e].inject = ~context'.confirmed,
                              ![e].pc = "freeze"]
    /\ UNCHANGED <<channel, scope, sealed, memory, challenge, given, resumed, shocks>>

(* freezeRuntimePlanForTurn: the first plan stays.                         *)
FreezePlan(e) ==
    /\ At(e, "freeze")
    /\ event' = [event EXCEPT ![e].plan = IF @ = 0 THEN event[e].epoch ELSE @,
                              ![e].pc = "dispatch"]
    /\ UNCHANGED <<channel, scope, sealed, memory, challenge, context, given,
                   resumed, shocks>>

Block(e) == IF event[e].inject THEN event[e].picked ELSE {}

(* A turn without memory has a transcript no other event shares.           *)
Transcript(e) == IF event[e].plan = Quarantine THEN e ELSE event[e].plan

(* The prompt goes to the transcript of the frozen plan; a prompt saved    *)
(* before is not composed again.  The answer rests on all the transcript   *)
(* has been given.                                                         *)
DispatchPrompt(e) ==
    /\ At(e, "dispatch")
    /\ IF ~event[e].sent
       THEN /\ given' = given \cup {<<Transcript(e), x>> : x \in Block(e)}
            /\ event' = [event EXCEPT
                   ![e].sent = TRUE,
                   ![e].used = {g[2] : g \in {h \in given' : h[1] = Transcript(e)}},
                   ![e].pc = "confirm"]
       ELSE To(e, "confirm") /\ UNCHANGED given
    /\ UNCHANGED <<channel, scope, sealed, memory, challenge, context, resumed, shocks>>

(* The model fails: a notice free of memory is posted, nothing confirmed.  *)
AgentFails(e) ==
    /\ "agent" \in MemoryFaults /\ shocks < MaxShocks
    /\ At(e, "confirm")
    /\ To(e, "done")
    /\ shocks' = shocks + 1
    /\ UNCHANGED <<channel, scope, sealed, memory, challenge, context, given, resumed>>

(* Mutant: whatever the context is now, it is confirmed.                   *)
ConfirmsAnyEpoch(e) == event[e].inject

(* confirmConversationContext confirms the epoch and the selection asked   *)
(* for, or nothing.                                                        *)
Confirms(e) ==
    /\ event[e].inject
    /\ context.epoch = event[e].epoch
    /\ context.selection = event[e].picked

(* What the answer rests on is what the event may read from the stores now.*)
Current(e) ==
    \/ event[e].used = {}
    \/ /\ event[e].used \subseteq Listed(ReadStores(event[e].seen))
       /\ scope.version = event[e].seen.version

(* An empty selection has a lease that is always valid.                    *)
ConfirmInjection(e) ==
    /\ At(e, "confirm")
    /\ context' = IF Confirms(e) THEN [context EXCEPT !.confirmed = TRUE] ELSE context
    /\ event' = [event EXCEPT
           ![e].sound = Current(e),
           ![e].answer = IF event[e].picked = {} THEN "draft" ELSE @,
           ![e].pc = IF event[e].picked = {} THEN "done" ELSE "check_slack"]
    /\ UNCHANGED <<channel, scope, sealed, memory, challenge, given, resumed, shocks>>

Decide(e, answer) ==
    event' = [event EXCEPT ![e].answer = answer, ![e].pc = "done"]

(* validateMemoryLease: Slack, then the scope's row, then the entries.     *)
CheckSlack(e) ==
    /\ At(e, "check_slack")
    /\ \E f \in LookUps(Actual) :
           /\ IF f = event[e].seen.privacy
              THEN To(e, "check_scope") ELSE Decide(e, "withheld")
           /\ Counted(f)
    /\ UNCHANGED <<channel, scope, sealed, memory, challenge, context, given, resumed>>

CheckScope(e) ==
    /\ At(e, "check_scope")
    /\ IF scope.version = event[e].seen.version
       THEN To(e, "check_entries") ELSE Decide(e, "withheld")
    /\ UNCHANGED <<channel, scope, sealed, memory, challenge, context, given,
                   resumed, shocks>>

(* Mutant: an entry that can still be read is good enough.                 *)
StillSuppliedAnyVersion(e) ==
    \A p \in event[e].picked : memory[p[1]].status = "active"

StillSupplied(e) == event[e].picked \subseteq Listed(ReadStores(event[e].seen))

CheckEntries(e) ==
    /\ At(e, "check_entries")
    /\ Decide(e, IF StillSupplied(e) THEN "draft" ELSE "withheld")
    /\ UNCHANGED <<channel, scope, sealed, memory, challenge, context, given,
                   resumed, shocks>>

-----------------------------------------------------------------------------
(* Commands                                                                *)

Writable(e) == Listed({WriteStore(event[e].seen)})

(* A private channel may also forget what it left in the public store.     *)
Forgettable(e) == Listed(ReadStores(event[e].seen))

ChallengeFor(e, c) ==
    /\ ~challenge[c].consumed
    /\ memory[challenge[c].entry].store \in ReadStores(event[e].seen)

Targets(e) ==
    LET r == event[e].request IN
    CASE r = "remember" -> {{}}
      [] r = "update" -> {{p} : p \in Writable(e)}
      [] r = "forget" -> {{p} : p \in Forgettable(e)}
      [] r = "merge" -> {S \in SUBSET Writable(e) : Cardinality(S) = 2}
      [] OTHER -> {}

(* The command's target, with the version it has now.                      *)
Look(e) ==
    /\ At(e, "look")
    /\ \/ \E S \in Targets(e) :
              event' = [event EXCEPT ![e].picked = S, ![e].pc = "change"]
       \/ /\ event[e].request = "confirm"
          /\ \E c \in Events :
                 /\ ChallengeFor(e, c)
                 /\ event' = [event EXCEPT
                        ![e].picked = {<<challenge[c].entry, challenge[c].version>>},
                        ![e].from = c, ![e].pc = "change"]
       \/ /\ Targets(e) = {} /\ ~\E c \in Events : ChallengeFor(e, c)
          /\ To(e, "done")
    /\ UNCHANGED <<channel, scope, sealed, memory, challenge, context, given,
                   resumed, shocks>>

Unused == {x \in Entries : memory[x].status = "absent"}

NewEntry(store) == [status |-> "active", store |-> store, version |-> 1]

Bump(S, status) ==
    [x \in Entries |-> IF x \in S THEN [memory[x] EXCEPT !.status = status, !.version = @ + 1]
                       ELSE memory[x]]

Changeable(e) == \A p \in event[e].picked : Mutable(p[1], p[2])

Names(e) == {p[1] : p \in event[e].picked}

(* createEntry: an entry id of its own, in the store the scope writes to.  *)
Remember(e) ==
    /\ event[e].request = "remember"
    /\ Unsealed(WriteStore(event[e].seen))
    /\ \E x \in Unused :
           memory' = [memory EXCEPT ![x] = NewEntry(WriteStore(event[e].seen))]
    /\ UNCHANGED challenge

UpdateEntry(e) ==
    /\ event[e].request = "update"
    /\ Changeable(e)
    /\ memory' = Bump(Names(e), "active")
    /\ UNCHANGED challenge

(* mergeEntries: the sources are superseded by one new entry.              *)
MergeEntries(e) ==
    /\ event[e].request = "merge"
    /\ Unsealed(WriteStore(event[e].seen)) /\ Changeable(e)
    /\ \E x \in Unused :
           memory' = [Bump(Names(e), "superseded")
                         EXCEPT ![x] = NewEntry(WriteStore(event[e].seen))]
    /\ UNCHANGED challenge

(* createForgetChallenge: nothing is forgotten yet.                        *)
RequestForget(e) ==
    /\ event[e].request = "forget"
    /\ Changeable(e)
    /\ \E p \in event[e].picked :
           challenge' = [challenge EXCEPT ![e] =
               [entry |-> p[1], version |-> p[2], consumed |-> FALSE]]
    /\ UNCHANGED memory

ForgetEntry(e) ==
    /\ event[e].request = "confirm"
    /\ Changeable(e)
    /\ ~challenge[event[e].from].consumed
    /\ challenge' = [challenge EXCEPT ![event[e].from].consumed = TRUE]
    /\ memory' = Bump(Names(e), "forgotten")

Applies(e) ==
    \/ Remember(e) \/ UpdateEntry(e) \/ MergeEntries(e) \/ RequestForget(e) \/ ForgetEntry(e)

CanApply(e) ==
    CASE event[e].request \in {"remember", "merge"} ->
             /\ Unsealed(WriteStore(event[e].seen)) /\ Unused # {}
             /\ Changeable(e)
      [] event[e].request = "confirm" ->
             Changeable(e) /\ ~challenge[event[e].from].consumed
      [] OTHER -> Changeable(e)

(* One transaction applies the command or refuses it.                      *)
Change(e) ==
    /\ At(e, "change")
    /\ \/ Applies(e)
       \/ ~CanApply(e) /\ UNCHANGED <<memory, challenge>>
    /\ To(e, "done")
    /\ UNCHANGED <<channel, scope, sealed, context, given, resumed, shocks>>

-----------------------------------------------------------------------------
(* From outside                                                            *)

Shock == shocks < MaxShocks /\ shocks' = shocks + 1

(* An operator's edit or import: several entries of a store, all or none.  *)
OperatorUpdates ==
    /\ Shock
    /\ \E S \in SUBSET Entries \ {{}} :
           /\ \A x \in S : Mutable(x, memory[x].version)
           /\ \A x, y \in S : memory[x].store = memory[y].store
           /\ memory' = Bump(S, "active")
    /\ UNCHANGED <<channel, scope, sealed, challenge, context, given, event, resumed>>

(* An operator's deletion asks for no confirmation.                        *)
OperatorForgets ==
    /\ Shock
    /\ \E x \in Entries : Mutable(x, memory[x].version) /\ memory' = Bump({x}, "forgotten")
    /\ UNCHANGED <<channel, scope, sealed, challenge, context, given, event, resumed>>

ChannelChanges ==
    /\ "channel" \in MemoryFaults /\ Shock
    /\ \/ channel' = [channel EXCEPT !.privacy = IF @ = "public" THEN "private" ELSE "public"]
       \/ channel' = [channel EXCEPT !.archived = ~@]
    /\ UNCHANGED <<scope, sealed, memory, challenge, context, given, event, resumed>>

(* A turn stops and begins again with its plan and its prompt.             *)
Crash(e) ==
    /\ "crash" \in MemoryFaults /\ Shock
    /\ event[e].request = "ask" /\ ~At(e, "new") /\ ~At(e, "done")
    /\ event' = [event EXCEPT ![e] = [NewEvent("ask") EXCEPT
           !.plan = event[e].plan, !.sent = event[e].sent, !.used = event[e].used]]
    /\ resumed' = (resumed \/ event[e].plan # 0)
    /\ UNCHANGED <<channel, scope, sealed, memory, challenge, context, given>>

NoContext == [epoch |-> 0, scope |-> NoScope, selection |-> {}, confirmed |-> FALSE]

-----------------------------------------------------------------------------
(* A channel nobody has asked about yet, or an observed one with entries   *)
(* in the store its scope writes to.                                       *)
MemoryInit ==
    /\ \E p \in Privacies, known \in BOOLEAN :
          /\ channel = [privacy |-> p, archived |-> FALSE]
          /\ scope = IF known
                     THEN [privacy |-> p, lifecycle |-> "active",
                           generation |-> IF p = "private" THEN 1 ELSE 0, version |-> 1]
                     ELSE [privacy |-> p, lifecycle |-> "unseen", generation |-> 0,
                           version |-> 0]
          /\ \E S \in SUBSET Entries :
                /\ known \/ S = {}
                /\ memory = [x \in Entries |->
                      IF x \in S
                      THEN NewEntry(IF p = "private" THEN 1 ELSE PublicStore)
                      ELSE [status |-> "absent", store |-> PublicStore, version |-> 0]]
    /\ sealed = {}
    /\ challenge = [e \in Events |-> NoChallenge]
    /\ context = NoContext
    /\ given = {}
    /\ event \in [Events -> {NewEvent(r) : r \in Requests}]
    /\ resumed = FALSE
    /\ shocks = 0

Turn(e) ==
    \/ List(e) \/ ResolveContext(e) \/ FreezePlan(e) \/ DispatchPrompt(e)
    \/ AgentFails(e) \/ ConfirmInjection(e)
    \/ CheckSlack(e) \/ CheckScope(e) \/ CheckEntries(e) \/ Crash(e)

MemoryNext ==
    \/ \E e \in Events : ReadSlack(e) \/ Observe(e) \/ Turn(e) \/ Look(e) \/ Change(e)
    \/ OperatorUpdates \/ OperatorForgets \/ ChannelChanges

MemorySpec == MemoryInit /\ [][MemoryNext]_memoryVars

-----------------------------------------------------------------------------
(* The state of the memory store and of its events is well formed.         *)
MemoryTypeOK ==
    /\ channel \in [privacy : Privacies, archived : BOOLEAN]
    /\ scope \in [privacy : Privacies, lifecycle : {"unseen", "active", "retained"},
                  generation : Nat, version : Nat]
    /\ sealed \subseteq Generations
    /\ memory \in [Entries -> Entry]
    /\ challenge \in [Events -> Challenge]
    /\ context \in [epoch : Nat, scope : Scopes, selection : Selections,
                    confirmed : BOOLEAN]
    /\ event \in [Events -> Event]
    /\ resumed \in BOOLEAN /\ shocks \in 0 .. MaxShocks

(* Of the private generations only the one the scope row names is open,    *)
(* and only while the channel is known as private and not archived: a      *)
(* conversion or an archive seals for good what was written before it,     *)
(* whatever stale observations are recorded beside it.                     *)
OnlyCurrentGenerationOpen ==
    \A g \in 1 .. scope.generation :
        g \notin sealed <=> /\ g = scope.generation
                            /\ scope.privacy = "private"
                            /\ scope.lifecycle = "active"

(* No step writes an entry into a sealed store or changes one there: a     *)
(* command that resolved its scope before the sealing is refused.          *)
SealedIsFrozen ==
    [][\A x \in Entries : memory'[x] # memory[x] =>
           memory[x].store \notin sealed /\ memory'[x].store \notin sealed]_memoryVars

(* An answer that was made from an entry is not posted once the entry, or  *)
(* the channel's scope, had changed before the lease was checked, unless a *)
(* turn was resumed under a plan it had frozen before (run "resumed").     *)
StaleTextIsWithheld ==
    resumed \/ \A e \in Events : event[e].answer = "draft" => event[e].sound

(* The same without the exception: README, "A changed scope or selected    *)
(* entry invalidates the delivery lease so stale model text is not         *)
(* posted."                                                                *)
StaleTextIsNotPosted ==
    \A e \in Events : event[e].answer = "draft" => event[e].sound

(* Memory is confirmed, and from then on left out of the prompt, only for  *)
(* a transcript that was given it.                                         *)
ConfirmedWasSupplied ==
    resumed \/ (context.confirmed =>
        \A p \in context.selection : <<context.epoch, p>> \in given)

(* What a member confirms is what the member was shown: an entry is        *)
(* forgotten by an operator, or in the version a challenge was given for,  *)
(* and by that challenge once.                                             *)
ForgetWasConfirmed ==
    [][\A x \in Entries :
           memory[x].status # "forgotten" /\ memory'[x].status = "forgotten" =>
               \/ OperatorForgets
               \/ \E c \in Events :
                      /\ challenge[c] = [entry |-> x, version |-> memory[x].version,
                                         consumed |-> FALSE]
                      /\ challenge'[c].consumed]_memoryVars
=============================================================================
