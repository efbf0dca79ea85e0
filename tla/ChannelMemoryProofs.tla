-------------------------- MODULE ChannelMemoryProofs --------------------------
(***************************************************************************)
(* Theorems about ChannelMemory, for any number of events and entries, and *)
(* however often Slack, an operator or a crash interferes.                 *)
(*                                                                         *)
(* What an answer rests on is seen in no single state: the invariant says  *)
(* that the events of one epoch have all selected what the context row     *)
(* selected when it opened the epoch, that a transcript was given nothing  *)
(* else, and that an entry in the version an event has selected is as it   *)
(* was then.  A lease that still holds therefore held all the time since.  *)
(* That nothing moves in a sealed generation, and that what is forgotten   *)
(* was confirmed, follow from the first half of it, MemoryInv.             *)
(***************************************************************************)
EXTENDS ChannelMemory, TLAPS

(* The channel, and the store's rows.                                      *)
RowsInv ==
    /\ channel \in [privacy : Privacies, archived : BOOLEAN]
    /\ scope \in [privacy : Privacies, lifecycle : {"unseen", "active", "retained"},
                  generation : Nat, version : Nat]
    /\ memory \in [Entries -> Entry]
    /\ \A x \in Entries : memory[x].status = "absent" =>
           memory[x].store = PublicStore /\ memory[x].version = 0

(* The generation of a private channel is its own, and only those that     *)
(* there were are sealed.                                                  *)
ScopeInv ==
    /\ sealed \subseteq 1 .. scope.generation
    /\ scope.privacy = "private" /\ scope.lifecycle # "unseen" => scope.generation # 0
    /\ OnlyCurrentGenerationOpen

(* What changes, changes to another version.                               *)
Newer(p) == memory[p[1]].version > p[2]
Fresh(p, s) ==
    /\ memory[p[1]].version = p[2]
    /\ memory[p[1]].status = "active" /\ memory[p[1]].store \in ReadStores(s)

Early == {"new", "observe", "list", "resolve"}
Late == {"freeze", "dispatch", "confirm", "check_slack", "check_scope", "check_entries",
         "done"}
Checks == {"check_slack", "check_scope", "check_entries"}

(* An event by itself: what it asks for decides which steps it takes, and  *)
(* what it has selected is older than what is there, or still there.       *)
EventOK(e) ==
    /\ event[e].seen.version <= scope.version
    /\ event[e].pc \in {"new", "observe", "list"} => event[e].picked = {}
    /\ event[e].request = "ask" =>
          /\ event[e].pc \in Early \cup Late
          /\ \A p \in event[e].picked : Newer(p) \/ Fresh(p, event[e].seen)
    /\ event[e].request # "ask" =>
          /\ event[e].pc \in {"new", "observe", "look", "change", "done"}
          /\ event[e].epoch = 0 /\ event[e].answer # "draft"

EventsInv == event \in [Events -> Event] /\ \A e \in Events : EventOK(e)

(* A challenge is given once, and who confirms it means that one.          *)
ChallengesInv ==
    /\ challenge \in [Events -> Challenge]
    /\ \A c \in Events :
          \/ challenge[c] = NoChallenge
          \/ /\ challenge[c].entry \in Entries
             /\ event[c].request = "forget" /\ event[c].pc = "done"
    /\ \A e \in Events :
          event[e].request = "confirm" /\ event[e].pc = "change" =>
             \E c \in Events :
                /\ event[e].from = c /\ challenge[c].entry \in Entries
                /\ event[e].picked = {<<challenge[c].entry, challenge[c].version>>}

(* The context row, and what the transcripts were given.                   *)
ContextInv ==
    /\ context \in [epoch : Nat, scope : Scopes, selection : Selections,
                    confirmed : BOOLEAN]
    /\ \A g \in given : g[2] \in Entries \X Nat

MemoryInv == RowsInv /\ ScopeInv /\ EventsInv /\ ChallengesInv /\ ContextInv

-----------------------------------------------------------------------------
(* The rest is about turns that were not resumed.                          *)

(* What a turn has come to.                                                *)
PhaseOK(e) ==
    event[e].request = "ask" =>
       /\ event[e].pc \in Early =>
             /\ event[e].epoch = 0 /\ event[e].plan = 0 /\ event[e].used = {}
             /\ ~event[e].inject
       /\ event[e].pc \in Early \cup {"freeze", "dispatch"} => ~event[e].sent
       /\ event[e].pc = "freeze" => event[e].plan = 0 /\ event[e].used = {}
       /\ event[e].pc = "dispatch" => event[e].used = {}
       /\ event[e].pc \in Late => event[e].epoch \in {Quarantine} \cup 1 .. context.epoch
       /\ event[e].pc \in Late \ {"freeze"} => event[e].plan = event[e].epoch
       /\ event[e].epoch = Quarantine => event[e].picked = {} /\ ~event[e].inject
       /\ event[e].used \subseteq event[e].picked
PhaseInv == \A e \in Events : PhaseOK(e)

(* An epoch stands for one selection, and its transcript was given that.   *)
EpochsInv ==
    \A e \in Events : event[e].epoch > 0 =>
       /\ event[e].epoch = context.epoch => event[e].picked = context.selection
       /\ \A f \in Events :
             event[f].epoch = event[e].epoch => event[f].picked = event[e].picked

GivenInv ==
    /\ \A g \in given :
          /\ g = <<g[1], g[2]>> /\ g[1] \in 1 .. context.epoch
          /\ g[1] = context.epoch => g[2] \in context.selection
          /\ \A e \in Events : event[e].epoch = g[1] => g[2] \in event[e].picked
    /\ \A e \in Events : event[e].pc = "confirm" /\ event[e].inject =>
          \A p \in event[e].picked : <<event[e].epoch, p>> \in given
    /\ context.confirmed => \A p \in context.selection : <<context.epoch, p>> \in given

(* What was stale when the answer was there stays stale.                   *)
AnswerOK(e) ==
    /\ event[e].answer = "draft" => event[e].sound /\ event[e].pc = "done"
    /\ event[e].pc \in Checks /\ ~event[e].sound =>
          \/ event[e].pc # "check_entries" /\ scope.version > event[e].seen.version
          \/ \E p \in event[e].picked : Newer(p)
AnswersInv == \A e \in Events : AnswerOK(e)

TurnsInv == resumed \/ (PhaseInv /\ EpochsInv /\ GivenInv /\ AnswersInv)

-----------------------------------------------------------------------------
(* The store                                                               *)

(* What one step does to the rows at most.                                 *)
Grows ==
    /\ scope'.version >= scope.version
    /\ \A x \in Entries : memory'[x] = memory[x] \/ memory'[x].version > memory[x].version

LEMMA StoresAreNumbers ==
    /\ Stores = Nat /\ PublicStore \in Stores
    /\ \A s \in Scopes : WriteStore(s) \in Stores /\ s.version \in Nat /\ s.generation \in Nat
BY DEF Stores, PublicStore, Generations, Scopes, WriteStore

LEMMA BumpedRows ==
    ASSUME RowsInv, NEW S \in SUBSET Entries,
           NEW to \in {"active", "superseded", "forgotten"}
    PROVE  /\ Bump(S, to) \in [Entries -> Entry]
           /\ \A x \in Entries \ S : Bump(S, to)[x] = memory[x]
           /\ \A x \in S : /\ Bump(S, to)[x].version > memory[x].version
                           /\ Bump(S, to)[x].status = to
                           /\ Bump(S, to)[x].store = memory[x].store
<1>1. \A x \in Entries : memory[x] \in Entry
  BY DEF RowsInv
<1>2. \A x \in S : /\ Bump(S, to)[x] \in Entry
                   /\ Bump(S, to)[x].version > memory[x].version
                   /\ Bump(S, to)[x].status = to
                   /\ Bump(S, to)[x].store = memory[x].store
  <2> TAKE x \in S
  <2> DEFINE row == memory[x]
             next == Bump(S, to)[x]
  <2>1. next = [row EXCEPT !.status = to, !.version = @ + 1]
    BY DEF Bump
  <2>2. row \in Entry
    BY <1>1
  <2> HIDE DEF row, next
  <2>3. row.version \in Nat /\ row.version + 1 \in Nat
    BY <2>2 DEF Entry
  <2>4. next \in Entry
    BY <2>1, <2>2, <2>3 DEF Entry
  <2>5. next.version = row.version + 1 /\ next.status = to /\ next.store = row.store
    BY <2>1, <2>2 DEF Entry
  <2> QED BY <2>3, <2>4, <2>5 DEF row, next
<1>3. \A x \in Entries \ S : Bump(S, to)[x] = memory[x]
  BY DEF Bump
<1>4. \A x \in Entries : Bump(S, to)[x] \in Entry
  BY <1>1, <1>2, <1>3
<1> QED BY <1>2, <1>3, <1>4 DEF Bump

LEMMA RowsBumped ==
    ASSUME RowsInv, NEW S \in SUBSET Entries,
           NEW to \in {"active", "superseded", "forgotten"},
           \A x \in S : memory[x].status = "active",
           memory' = Bump(S, to), UNCHANGED <<channel, scope>>
    PROVE  RowsInv' /\ Grows
BY BumpedRows DEF RowsInv, Grows

LEMMA RowsGained ==
    ASSUME RowsInv, NEW S \in SUBSET Entries, NEW x \in Unused, NEW store \in Stores,
           \A y \in S : memory[y].status = "active",
           memory' = [Bump(S, "superseded") EXCEPT ![x] = NewEntry(store)],
           UNCHANGED <<channel, scope>>
    PROVE  /\ RowsInv' /\ Grows
           /\ \A y \in Entries : memory'[y].status = "forgotten" => memory[y].status = "forgotten"
<1>1. x \in Entries \ S /\ memory[x].version = 0
  BY DEF Unused, RowsInv
<1>2. NewEntry(store) \in Entry /\ NewEntry(store).version = 1
      /\ NewEntry(store).status = "active"
  BY DEF NewEntry, Entry
<1>3. /\ memory' \in [Entries -> Entry] /\ memory'[x] = NewEntry(store)
      /\ \A y \in Entries \ {x} : memory'[y] = Bump(S, "superseded")[y]
  BY <1>1, <1>2, BumpedRows
<1> QED BY <1>1, <1>2, <1>3, BumpedRows DEF RowsInv, Grows

(* What Mutable lets through is active and unsealed.                       *)
LEMMA NamedRows ==
    ASSUME MemoryInv, NEW e \in Events, Changeable(e)
    PROVE  /\ Names(e) \in SUBSET Entries
           /\ \A x \in Names(e) : /\ memory[x].status = "active"
                                  /\ memory[x].store \notin sealed
           /\ \A p \in event[e].picked : memory[p[1]].version = p[2]
<1>1. event[e].picked \subseteq Entries \X Nat
  BY DEF MemoryInv, EventsInv, Event, Selections
<1> QED BY <1>1 DEF Names, Changeable, Mutable, Unsealed

(* A command changes rows that are unsealed, and forgets only when one     *)
(* confirms.                                                               *)
LEMMA CommandRows ==
    ASSUME MemoryInv, NEW e \in Events, Change(e)
    PROVE  /\ RowsInv' /\ Grows
           /\ \A x \in Entries : memory'[x] # memory[x] =>
                  memory[x].store \notin sealed /\ memory'[x].store \notin sealed
           /\ ForgetEntry(e) \/ \A x \in Entries :
                  memory'[x].status = "forgotten" => memory[x].status = "forgotten"
<1> DEFINE W == WriteStore(event[e].seen)
<1>1. RowsInv /\ UNCHANGED <<channel, scope, sealed>> /\ W \in Stores
  BY StoresAreNumbers DEF MemoryInv, EventsInv, Event, Change
<1>2. \A x \in Unused : memory[x].store \notin sealed
  BY DEF Unused, MemoryInv, RowsInv, ScopeInv, PublicStore
<1> HIDE DEF W
<1>3. CASE Remember(e)
  <2>1. PICK x \in Unused : memory' = [memory EXCEPT ![x] = NewEntry(W)]
    BY <1>3 DEF Remember, W
  <2>2. W \notin sealed /\ Bump({}, "superseded") = memory
    BY <1>1, <1>3 DEF Remember, W, Unsealed, Bump, RowsInv
  <2>3. \A y \in Entries : memory'[y] = IF y = x THEN NewEntry(W) ELSE memory[y]
    BY <1>1, <2>1 DEF RowsInv, Unused
  <2>4. RowsInv' /\ Grows
        /\ \A y \in Entries : memory'[y].status = "forgotten" => memory[y].status = "forgotten"
    <3>1. memory' = [Bump({}, "superseded") EXCEPT ![x] = NewEntry(W)]
      BY <2>1, <2>2
    <3>2. PICK S \in SUBSET Entries : S = {}
      OBVIOUS
    <3>3. /\ memory' = [Bump(S, "superseded") EXCEPT ![x] = NewEntry(W)]
          /\ \A y \in S : memory[y].status = "active"
      BY <3>1, <3>2
    <3>4. UNCHANGED <<channel, scope>>
      BY <1>1
    <3> QED BY <1>1, <2>1, <3>3, <3>4, RowsGained
  <2> QED BY <1>2, <2>1, <2>2, <2>3, <2>4 DEF NewEntry
<1>4. CASE UpdateEntry(e)
  <2>1. memory' = Bump(Names(e), "active") /\ Changeable(e)
    BY <1>4 DEF UpdateEntry
  <2>2. \A x \in Entries : memory'[x].store = memory[x].store
    BY <1>1, <2>1, NamedRows, BumpedRows
  <2> QED BY <1>1, <2>1, <2>2, NamedRows, BumpedRows, RowsBumped
<1>5. CASE MergeEntries(e)
  <2>1. PICK x \in Unused :
            memory' = [Bump(Names(e), "superseded") EXCEPT ![x] = NewEntry(W)]
    BY <1>5 DEF MergeEntries, W
  <2>2. W \notin sealed /\ Changeable(e) /\ x \in Entries
    BY <1>5, <2>1 DEF MergeEntries, W, Unsealed, Unused
  <2>3. \A y \in Entries : /\ y = x => memory'[y] = NewEntry(W)
                           /\ y # x => memory'[y] = Bump(Names(e), "superseded")[y]
    BY <1>1, <2>1, <2>2, NamedRows, BumpedRows
  <2>4. \A y \in Entries \ {x} : memory'[y].store = memory[y].store
    BY <1>1, <2>2, <2>3, NamedRows, BumpedRows
  <2> QED BY <1>1, <1>2, <2>1, <2>2, <2>3, <2>4, NamedRows, BumpedRows, RowsGained DEF NewEntry
<1>6. CASE ForgetEntry(e)
  <2>1. memory' = Bump(Names(e), "forgotten") /\ Changeable(e)
    BY <1>6 DEF ForgetEntry
  <2>2. \A x \in Entries : memory'[x].store = memory[x].store
    BY <1>1, <2>1, NamedRows, BumpedRows
  <2> QED BY <1>1, <1>6, <2>1, <2>2, NamedRows, BumpedRows, RowsBumped
<1>7. CASE UNCHANGED memory
  BY <1>1, <1>7 DEF RowsInv, Grows
<1> QED BY <1>3, <1>4, <1>5, <1>6, <1>7 DEF Change, Applies, RequestForget
(* A private generation ends with its store sealed, and a new one begins   *)
(* with a store of its own.                                                *)
LEMMA GenerationEnds ==
    ASSUME RowsInv, RowsInv', ScopeInv, scope'.generation = scope.generation,
           scope'.privacy # "private" \/ scope'.lifecycle # "active",
           scope'.privacy = "private" => scope.privacy = "private" /\ scope.lifecycle # "unseen",
           sealed' = IF scope.lifecycle = "active" /\ scope.privacy = "private"
                     THEN sealed \cup {scope.generation} ELSE sealed
    PROVE  ScopeInv'
<1> DEFINE last == scope.generation
<1>1. last \in Nat
  BY DEF RowsInv
<1>2. /\ sealed \subseteq 1 .. last
      /\ scope.privacy = "private" /\ scope.lifecycle # "unseen" => last # 0
      /\ \A g \in 1 .. last : g \notin sealed <=> /\ g = last
                                                 /\ scope.privacy = "private"
                                                 /\ scope.lifecycle = "active"
  BY DEF ScopeInv, OnlyCurrentGenerationOpen
<1> HIDE DEF last
<1>3. sealed' = IF scope.lifecycle = "active" /\ scope.privacy = "private"
                THEN sealed \cup {last} ELSE sealed
  BY DEF last
<1>4. sealed' \subseteq 1 .. last
  <2>1. scope.lifecycle = "active" /\ scope.privacy = "private" => last \in 1 .. last
    BY <1>1, <1>2
  <2> QED BY <1>2, <1>3, <2>1
<1>5. \A g \in 1 .. last : g \in sealed'
  BY <1>1, <1>2, <1>3
<1>6. scope'.generation = last
  BY DEF last
<1> QED BY <1>2, <1>4, <1>5, <1>6 DEF ScopeInv, OnlyCurrentGenerationOpen

LEMMA GenerationBegins ==
    ASSUME RowsInv, ScopeInv, scope'.generation = scope.generation + 1,
           ~(scope.privacy = "private" /\ scope.lifecycle = "active"),
           scope'.privacy = "private", scope'.lifecycle = "active",
           sealed' = sealed
    PROVE  ScopeInv'
<1>1. scope.generation \in Nat
  BY DEF RowsInv
<1> QED BY <1>1 DEF ScopeInv, OnlyCurrentGenerationOpen

LEMMA GenerationStays ==
    ASSUME RowsInv, ScopeInv, scope'.generation = scope.generation,
           scope.privacy = "private", scope.lifecycle = "active",
           scope'.privacy = "private", scope'.lifecycle = "active",
           sealed' = sealed
    PROVE  ScopeInv'
BY DEF ScopeInv, OnlyCurrentGenerationOpen

(* What is observed or retained of the channel.                            *)
LEMMA ScopeMoves ==
    ASSUME MemoryInv, UNCHANGED <<channel, memory>>,
           \/ \E p \in Privacies : ObserveScope(p)
           \/ RetainScope
           \/ UNCHANGED <<scope, sealed>>
    PROVE  RowsInv' /\ ScopeInv' /\ Grows
<1> USE DEF MemoryInv, RowsInv, ScopeInv, OnlyCurrentGenerationOpen
<1>1. ASSUME NEW p \in Privacies, ObserveScope(p)
      PROVE  RowsInv' /\ ScopeInv' /\ Grows
  <2>1. /\ scope'.privacy = p /\ scope'.lifecycle = "active"
        /\ scope'.generation = NextGeneration(p)
        /\ scope'.version \in {scope.version, scope.version + 1}
        /\ scope' = [privacy |-> scope'.privacy, lifecycle |-> "active",
                     generation |-> scope'.generation, version |-> scope'.version]
    BY <1>1 DEF ObserveScope
  <2>2. NextGeneration(p) \in Nat
    BY DEF NextGeneration
  <2>3. RowsInv' /\ Grows
    BY <2>1, <2>2 DEF Grows, Privacies
  <2>4. CASE p = "private"
    <3>1. sealed' = sealed
      BY <1>1, <2>4 DEF ObserveScope
    <3>2. \/ /\ scope.lifecycle = "active" /\ scope.privacy = "private"
             /\ scope'.generation = scope.generation
          \/ /\ ~(scope.lifecycle = "active" /\ scope.privacy = "private")
             /\ scope'.generation = scope.generation + 1
      BY <2>1, <2>4 DEF NextGeneration
    <3> QED BY <2>1, <2>3, <2>4, <3>1, <3>2, GenerationStays, GenerationBegins
  <2>5. CASE p = "public"
    <3>1. /\ scope'.generation = scope.generation
          /\ sealed' = IF scope.lifecycle = "active" /\ scope.privacy = "private"
                       THEN sealed \cup {scope.generation} ELSE sealed
      BY <1>1, <2>1, <2>5 DEF ObserveScope, NextGeneration
    <3> QED BY <2>1, <2>3, <2>5, <3>1, GenerationEnds
  <2> QED BY <2>3, <2>4, <2>5 DEF Privacies
<1>2. CASE RetainScope
  <2>1. CASE scope.lifecycle = "active"
    <3>1. scope' = [scope EXCEPT !.lifecycle = "retained", !.version = @ + 1]
      BY <1>2, <2>1 DEF RetainScope
    <3>2. scope.version \in Nat /\ scope.version + 1 \in Nat
      OBVIOUS
    <3>3. /\ scope'.privacy = scope.privacy /\ scope'.lifecycle = "retained"
          /\ scope'.generation = scope.generation /\ scope'.version = scope.version + 1
      BY <3>1
    <3>4. scope' \in [privacy : Privacies, lifecycle : {"unseen", "active", "retained"},
                      generation : Nat, version : Nat]
      BY <3>1, <3>2
    <3>5. sealed' = IF scope.lifecycle = "active" /\ scope.privacy = "private"
                    THEN sealed \cup {scope.generation} ELSE sealed
      BY <1>2, <2>1 DEF RetainScope
    <3>6. RowsInv' /\ Grows
      BY <3>2, <3>3, <3>4 DEF Grows
    <3> QED BY <2>1, <3>3, <3>5, <3>6, GenerationEnds
  <2>2. CASE scope.lifecycle # "active"
    BY <1>2, <2>2 DEF RetainScope, Grows
  <2> QED BY <2>1, <2>2
<1>3. CASE UNCHANGED <<scope, sealed>>
  BY <1>3 DEF Grows
<1> QED BY <1>1, <1>2, <1>3

LEMMA RowsStep ==
    ASSUME MemoryInv, [MemoryNext]_memoryVars
    PROVE  RowsInv' /\ ScopeInv' /\ Grows
<1>1. ASSUME UNCHANGED <<scope, sealed>>, RowsInv', Grows
      PROVE  RowsInv' /\ ScopeInv' /\ Grows
  BY <1>1 DEF MemoryInv, ScopeInv, OnlyCurrentGenerationOpen
<1>2. ASSUME NEW e \in Events, Observe(e)
      PROVE  RowsInv' /\ ScopeInv' /\ Grows
  BY <1>2, ScopeMoves DEF Observe
<1>3. ASSUME NEW e \in Events, Change(e)
      PROVE  RowsInv' /\ ScopeInv' /\ Grows
  BY <1>1, <1>3, CommandRows DEF Change
<1>4. CASE OperatorUpdates
  <2>1. PICK S \in SUBSET Entries \ {{}} :
            /\ \A x \in S : Mutable(x, memory[x].version)
            /\ memory' = Bump(S, "active")
    BY <1>4 DEF OperatorUpdates
  <2>2. RowsInv' /\ Grows
    BY <1>4, <2>1, RowsBumped DEF OperatorUpdates, Mutable, MemoryInv
  <2> QED BY <1>1, <1>4, <2>2 DEF OperatorUpdates
<1>5. CASE OperatorForgets
  <2>1. PICK x \in Entries : Mutable(x, memory[x].version) /\ memory' = Bump({x}, "forgotten")
    BY <1>5 DEF OperatorForgets
  <2>2. {x} \in SUBSET Entries /\ \A y \in {x} : memory[y].status = "active"
    BY <2>1 DEF Mutable
  <2>3. RowsInv' /\ Grows
    BY <1>5, <2>1, <2>2, RowsBumped DEF OperatorForgets, MemoryInv
  <2> QED BY <1>1, <1>5, <2>3 DEF OperatorForgets
<1>6. CASE ChannelChanges
  <2>1. channel' \in [privacy : Privacies, archived : BOOLEAN]
    BY <1>6 DEF ChannelChanges, MemoryInv, RowsInv, Privacies
  <2> QED BY <1>1, <1>6, <2>1 DEF ChannelChanges, MemoryInv, RowsInv, Grows
<1>7. CASE UNCHANGED <<channel, scope, sealed, memory>>
  BY <1>7, ScopeMoves
<1>8. ASSUME NEW e \in Events, ReadSlack(e) \/ Turn(e) \/ Look(e)
      PROVE  UNCHANGED <<channel, scope, sealed, memory>>
  BY <1>8 DEF ReadSlack, Turn, Look, List, ResolveContext, FreezePlan, DispatchPrompt,
              AgentFails, ConfirmInjection, CheckSlack, CheckScope, CheckEntries, Crash
<1> QED BY <1>2, <1>3, <1>4, <1>5, <1>6, <1>7, <1>8 DEF MemoryNext, memoryVars
-----------------------------------------------------------------------------
(* The events                                                              *)

LEMMA ListedSelections == ASSUME RowsInv, NEW stores PROVE Listed(stores) \in Selections
BY DEF Listed, Selections, RowsInv, Entry

LEMMA BlankScope == NoScope \in Scopes /\ NoScope.version = 0
BY DEF NoScope, Scopes, Privacies

LEMMA BlankEvent ==
    ASSUME NEW r \in Requests
    PROVE  /\ NewEvent(r) \in Event /\ NewEvent(r).request = r /\ NewEvent(r).pc = "new"
           /\ NewEvent(r).seen = NoScope /\ NewEvent(r).picked = {}
           /\ NewEvent(r).epoch = 0 /\ NewEvent(r).plan = 0 /\ NewEvent(r).used = {}
           /\ NewEvent(r).inject = FALSE /\ NewEvent(r).sent = FALSE
           /\ NewEvent(r).sound = TRUE /\ NewEvent(r).answer = Nothing
BY BlankScope DEF NewEvent, Event, Readings, Selections, Nothing

LEMMA EventMoves ==
    ASSUME EventsInv, NEW e \in Events, NEW next \in Event,
           event' = [event EXCEPT ![e] = next]
    PROVE  /\ event' \in [Events -> Event] /\ event'[e] = next
           /\ \A f \in Events \ {e} : event'[f] = event[f]
BY DEF EventsInv

(* The store only moves on, and so what an event has selected is as it     *)
(* was, or newer.                                                          *)
LEMMA SelectionAges ==
    ASSUME MemoryInv, RowsInv', Grows, NEW e \in Events,
           event'[e].seen = event[e].seen
    PROVE  /\ event[e].seen.version <= scope'.version
           /\ event[e].request = "ask" => \A p \in event[e].picked :
                  /\ Newer(p) => Newer(p)'
                  /\ Newer(p)' \/ Fresh(p, event[e].seen)'
<1>1. event[e].seen.version \in Nat /\ scope.version \in Nat /\ scope'.version \in Nat
  BY StoresAreNumbers DEF MemoryInv, EventsInv, Event, RowsInv
<1>2. \A p \in event[e].picked : p[1] \in Entries /\ p[2] \in Nat
  BY DEF MemoryInv, EventsInv, Event, Selections
<1>3. \A x \in Entries : memory[x].version \in Nat /\ memory'[x].version \in Nat
  BY DEF MemoryInv, RowsInv, Entry
<1>4. event[e].seen.version <= scope'.version
  <2>1. event[e].seen.version <= scope.version /\ scope.version <= scope'.version
    BY DEF MemoryInv, EventsInv, EventOK, Grows
  <2> QED BY <1>1, <2>1
<1>5. ASSUME event[e].request = "ask", NEW p \in event[e].picked
      PROVE  (Newer(p) => Newer(p)') /\ (Newer(p)' \/ Fresh(p, event[e].seen)')
  <2>1. memory'[p[1]] = memory[p[1]] \/ memory'[p[1]].version > memory[p[1]].version
    BY <1>2 DEF Grows
  <2>2. Newer(p) \/ Fresh(p, event[e].seen)
    BY <1>5 DEF MemoryInv, EventsInv, EventOK
  <2> QED BY <1>2, <1>3, <2>1, <2>2 DEF Newer, Fresh
<1> QED BY <1>4, <1>5
LEMMA EventGoesOn ==
    ASSUME MemoryInv, RowsInv', Grows, NEW e \in Events,
           event'[e].request = event[e].request, event'[e].seen = event[e].seen,
           event'[e].picked = event[e].picked,
           event'[e].pc \in {"new", "observe", "list"} => event[e].picked = {},
           event[e].request = "ask" => event'[e].pc \in Early \cup Late,
           event[e].request # "ask" =>
               /\ event'[e].pc \in {"new", "observe", "look", "change", "done"}
               /\ event'[e].epoch = 0 /\ event'[e].answer # "draft"
    PROVE  EventOK(e)'
BY SelectionAges DEF EventOK

LEMMA EventTo ==
    ASSUME EventsInv, NEW e \in Events,
           NEW to \in {"observe", "list", "resolve", "freeze", "dispatch", "confirm",
                      "check_slack", "check_scope", "check_entries", "look", "change",
                      "done"},
           To(e, to)
    PROVE  /\ event' \in [Events -> Event] /\ event'[e].pc = to
           /\ \A f \in Events \ {e} : event'[f] = event[f]
           /\ event'[e].request = event[e].request /\ event'[e].seen = event[e].seen
           /\ event'[e].picked = event[e].picked /\ event'[e].epoch = event[e].epoch
           /\ event'[e].inject = event[e].inject /\ event'[e].plan = event[e].plan
           /\ event'[e].sent = event[e].sent /\ event'[e].used = event[e].used
           /\ event'[e].sound = event[e].sound /\ event'[e].answer = event[e].answer
           /\ event'[e].from = event[e].from
<1>1. event[e] \in Event
  BY DEF EventsInv
<1>2. [event[e] EXCEPT !.pc = to] \in Event
  BY <1>1 DEF Event
<1>3. event' = [event EXCEPT ![e] = [event[e] EXCEPT !.pc = to]]
  BY DEF To
<1>4. event' \in [Events -> Event] /\ event'[e] = [event[e] EXCEPT !.pc = to]
      /\ \A f \in Events \ {e} : event'[f] = event[f]
  BY <1>2, <1>3, EventMoves
<1> QED BY <1>1, <1>4 DEF Event

Moves(e) ==
    /\ event' \in [Events -> Event] /\ EventOK(e)'
    /\ \A f \in Events \ {e} : event'[f] = event[f]

LEMMA TurnMoves ==
    ASSUME MemoryInv, RowsInv', Grows, NEW e \in Events,
           ReadSlack(e) \/ Observe(e) \/ Turn(e)
    PROVE  Moves(e)
<1>0. event \in [Events -> Event] /\ EventsInv /\ EventOK(e) /\ event[e] \in Event
  BY DEF MemoryInv, EventsInv
<1>1. CASE ReadSlack(e)
  <2>1. PICK f \in LookUps(Actual) :
            event' = [event EXCEPT ![e] = [event[e] EXCEPT !.facts = f, !.pc = "observe"]]
    BY <1>0, <1>1 DEF ReadSlack
  <2>2. f \in Readings
    BY DEF LookUps, Actual, Readings, MemoryInv, RowsInv
  <2>3. [event[e] EXCEPT !.facts = f, !.pc = "observe"] \in Event
    BY <1>0, <2>2 DEF Event
  <2>4. /\ event' \in [Events -> Event] /\ \A g \in Events \ {e} : event'[g] = event[g]
        /\ event'[e] = [event[e] EXCEPT !.facts = f, !.pc = "observe"]
    BY <1>0, <2>1, <2>3, EventMoves
  <2>5. EventOK(e)'
    BY <1>0, <1>1, <2>4, EventGoesOn DEF Event, ReadSlack, At, EventOK, Early
  <2> QED BY <2>4, <2>5 DEF Moves
<1>2. CASE List(e)
  <2> DEFINE next == [event[e] EXCEPT !.picked = Listed(ReadStores(event[e].seen)),
                                      !.pc = "resolve"]
  <2>1. event' = [event EXCEPT ![e] = next] /\ UNCHANGED <<memory, scope>>
    BY <1>0, <1>2 DEF List
  <2>2. next \in Event
    BY <1>0, ListedSelections DEF Event, MemoryInv
  <2>3. /\ next.request = event[e].request /\ next.seen = event[e].seen
        /\ next.picked = Listed(ReadStores(event[e].seen)) /\ next.pc = "resolve"
        /\ next.epoch = event[e].epoch /\ next.answer = event[e].answer
    BY <1>0 DEF Event
  <2> HIDE DEF next
  <2>4. event' \in [Events -> Event] /\ event'[e] = next
        /\ \A g \in Events \ {e} : event'[g] = event[g]
    BY <1>0, <2>1, <2>2, EventMoves
  <2>5. \A p \in next.picked : Fresh(p, event[e].seen)'
    BY <2>1, <2>3, <2>4 DEF Listed, Fresh, ReadStores, WriteStore
  <2>6. event[e].request = "ask"
    BY <1>0, <1>2 DEF List, At, EventOK
  <2>7. EventOK(e)'
    BY <1>0, <2>1, <2>3, <2>4, <2>5, <2>6 DEF EventOK, Early
  <2> QED BY <2>4, <2>7 DEF Moves
<1>3. ASSUME NEW next \in Event, event' = [event EXCEPT ![e] = next],
             event[e].request = "ask", next.request = "ask", next.pc \in Late,
             next.picked = event[e].picked, next.seen = event[e].seen
      PROVE  Moves(e)
  <2>1. event' \in [Events -> Event] /\ event'[e] = next
        /\ \A g \in Events \ {e} : event'[g] = event[g]
    BY <1>0, <1>3, EventMoves
  <2>2. EventOK(e)'
    BY <1>3, <2>1, EventGoesOn DEF Late
  <2> QED BY <2>1, <2>2 DEF Moves
<1>4. ASSUME NEW to \in Late \cup {"list", "resolve"}, To(e, to),
             event[e].request = "ask", to = "list" => event[e].picked = {}
      PROVE  Moves(e)
  <2> to \in {"observe", "list", "resolve", "freeze", "dispatch", "confirm",
              "check_slack", "check_scope", "check_entries", "look", "change", "done"}
    BY DEF Late
  <2>1. EventOK(e)'
    BY <1>0, <1>4, EventTo, EventGoesOn DEF Late, Early
  <2> QED BY <1>0, <1>4, <2>1, EventTo DEF Moves
<1>5. ASSUME event[e].pc \in {"list", "resolve", "freeze", "dispatch", "confirm",
                             "check_slack", "check_scope", "check_entries"}
      PROVE  event[e].request = "ask"
  BY <1>0, <1>5 DEF EventOK
<1>6. CASE ResolveContext(e)
  <2>0. context.epoch \in Nat /\ context.confirmed \in BOOLEAN
    BY DEF MemoryInv, ContextInv
  <2>1. context'.epoch \in Nat /\ context'.confirmed \in BOOLEAN
    <3>1. CASE SameContext(e)
      BY <1>6, <2>0, <3>1 DEF ResolveContext
    <3>2. CASE ~SameContext(e)
      <4>1. context' = [epoch |-> context.epoch + 1, scope |-> event[e].seen,
                        selection |-> event[e].picked, confirmed |-> FALSE]
        BY <1>6, <3>2 DEF ResolveContext
      <4> QED BY <2>0, <4>1
    <3> QED BY <3>1, <3>2
  <2> DEFINE next == [event[e] EXCEPT !.epoch = context'.epoch,
                                      !.inject = ~context'.confirmed, !.pc = "freeze"]
  <2>2. event' = [event EXCEPT ![e] = next]
    BY <1>0, <1>6 DEF ResolveContext
  <2>3. next \in Event
    BY <1>0, <2>1 DEF Event
  <2>4. /\ next.request = event[e].request /\ next.pc = "freeze"
        /\ next.picked = event[e].picked /\ next.seen = event[e].seen
    BY <1>0 DEF Event
  <2> HIDE DEF next
  <2> QED BY <1>3, <1>5, <1>6, <2>2, <2>3, <2>4 DEF ResolveContext, At, Late
<1>7. CASE FreezePlan(e)
  <2> DEFINE plan == IF event[e].plan = 0 THEN event[e].epoch ELSE event[e].plan
             next == [event[e] EXCEPT !.plan = plan, !.pc = "dispatch"]
  <2>1. event' = [event EXCEPT ![e] = next] /\ plan \in Nat \cup {Quarantine}
    BY <1>0, <1>7 DEF FreezePlan, Event
  <2> HIDE DEF plan
  <2>2. /\ next \in Event /\ next.request = event[e].request /\ next.pc = "dispatch"
        /\ next.picked = event[e].picked /\ next.seen = event[e].seen
    BY <1>0, <2>1 DEF Event
  <2> HIDE DEF next
  <2> QED BY <1>3, <1>5, <1>7, <2>1, <2>2 DEF FreezePlan, At, Late
<1>8. CASE DispatchPrompt(e)
  <2>1. CASE event[e].sent
    BY <1>4, <1>5, <1>8, <2>1 DEF DispatchPrompt, At, Late
  <2>2. CASE ~event[e].sent
    <3> DEFINE used == {g[2] : g \in {h \in given' : h[1] = Transcript(e)}}
               next == [event[e] EXCEPT !.sent = TRUE, !.used = used, !.pc = "confirm"]
    <3>1. event' = [event EXCEPT ![e] = next]
      BY <1>0, <1>8, <2>2 DEF DispatchPrompt
    <3>2. given' = given \cup {<<Transcript(e), x>> : x \in Block(e)}
      BY <1>8, <2>2 DEF DispatchPrompt
    <3>3. Block(e) \subseteq Entries \X Nat
      BY <1>0 DEF Block, Event, Selections
    <3>4. \A g \in given' : g[2] \in Entries \X Nat
      BY <3>2, <3>3 DEF MemoryInv, ContextInv
    <3>5. used \in Selections
      BY <3>4 DEF Selections
    <3> HIDE DEF used
    <3>6. /\ next \in Event /\ next.request = event[e].request /\ next.pc = "confirm"
          /\ next.picked = event[e].picked /\ next.seen = event[e].seen
      BY <1>0, <3>5 DEF Event
    <3> HIDE DEF next
    <3> QED BY <1>3, <1>5, <1>8, <3>1, <3>6 DEF DispatchPrompt, At, Late
  <2> QED BY <2>1, <2>2
<1>9. CASE AgentFails(e)
  BY <1>4, <1>5, <1>9 DEF AgentFails, At, Late
<1>10. CASE ConfirmInjection(e)
  <2> DEFINE answer == IF event[e].picked = {} THEN "draft" ELSE event[e].answer
             to == IF event[e].picked = {} THEN "done" ELSE "check_slack"
             next == [event[e] EXCEPT !.sound = Current(e), !.answer = answer, !.pc = to]
  <2>1. event' = [event EXCEPT ![e] = next]
    BY <1>0, <1>10 DEF ConfirmInjection
  <2>2. Current(e) \in BOOLEAN /\ to \in {"done", "check_slack"}
        /\ answer \in {Nothing, "draft", "withheld"}
    BY <1>0 DEF Current, Event
  <2> HIDE DEF answer, to
  <2>3. next \in Event
    BY <1>0, <2>2 DEF Event
  <2>4. /\ next.request = event[e].request
        /\ next.pc = to
        /\ next.picked = event[e].picked /\ next.seen = event[e].seen
    BY <1>0 DEF Event
  <2> HIDE DEF next
  <2> QED BY <1>3, <1>5, <1>10, <2>1, <2>2, <2>3, <2>4 DEF ConfirmInjection, At, Late
<1>11. ASSUME NEW answer \in {"draft", "withheld"}, Decide(e, answer), event[e].request = "ask"
       PROVE  Moves(e)
  <2> DEFINE next == [event[e] EXCEPT !.answer = answer, !.pc = "done"]
  <2>1. event' = [event EXCEPT ![e] = next]
    BY <1>0, <1>11 DEF Decide
  <2>2. /\ next \in Event /\ next.request = event[e].request /\ next.pc = "done"
        /\ next.picked = event[e].picked /\ next.seen = event[e].seen
    BY <1>0 DEF Event
  <2> HIDE DEF next
  <2> QED BY <1>3, <1>11, <2>1, <2>2 DEF Late
<1>12. CASE CheckSlack(e)
  BY <1>4, <1>5, <1>11, <1>12 DEF CheckSlack, At, Late
<1>13. CASE CheckScope(e)
  BY <1>4, <1>5, <1>11, <1>13 DEF CheckScope, At, Late
<1>14. CASE CheckEntries(e)
  BY <1>5, <1>11, <1>14 DEF CheckEntries, At
<1>15. CASE Crash(e)
  <2> DEFINE fresh == NewEvent("ask")
             next == [fresh EXCEPT !.plan = event[e].plan, !.sent = event[e].sent,
                                   !.used = event[e].used]
  <2>1. event' = [event EXCEPT ![e] = next] /\ event[e].request = "ask"
    BY <1>0, <1>15 DEF Crash
  <2>2. /\ fresh \in Event /\ fresh.request = "ask" /\ fresh.pc = "new"
        /\ fresh.picked = {} /\ fresh.seen = NoScope
    <3>1. event[e].request \in Requests
      BY <1>0 DEF Event
    <3>2. "ask" \in Requests
      BY <2>1, <3>1
    <3> HIDE DEF fresh
    <3> QED BY <3>2, BlankEvent DEF fresh
  <2> HIDE DEF fresh
  <2>3. /\ next \in Event /\ next.request = "ask" /\ next.pc = "new"
        /\ next.picked = {} /\ next.seen = NoScope
    BY <1>0, <2>2 DEF Event
  <2> HIDE DEF next
  <2>4. event' \in [Events -> Event] /\ event'[e] = next
        /\ \A g \in Events \ {e} : event'[g] = event[g]
    BY <1>0, <2>1, <2>3, EventMoves
  <2>5. EventOK(e)'
    BY <2>3, <2>4, BlankScope DEF EventOK, Early, RowsInv
  <2> QED BY <2>4, <2>5 DEF Moves
<1>16. CASE Observe(e)
  <2> DEFINE f == event[e].facts
  <2>0. event[e].picked = {} /\ event[e].pc = "observe" /\ event[e].request \in Requests
        /\ event[e].pc \notin Late
    BY <1>0, <1>16 DEF Observe, At, EventOK, Event, Late
  <2>1. CASE Unscoped(e) /\ event[e].request = "ask"
    <3> DEFINE next == [event[e] EXCEPT !.epoch = Quarantine, !.pc = "freeze"]
    <3>1. event' = [event EXCEPT ![e] = next]
      BY <1>0, <2>1 DEF Unscoped
    <3>2. /\ next \in Event /\ next.request = event[e].request /\ next.pc = "freeze"
          /\ next.picked = event[e].picked /\ next.seen = event[e].seen
      BY <1>0 DEF Event
    <3> HIDE DEF next
    <3> QED BY <1>3, <2>1, <3>1, <3>2 DEF Late
  <2>2. CASE Unscoped(e) /\ event[e].request # "ask"
    <3>1. To(e, "done")
      BY <2>2 DEF Unscoped, To
    <3>2. EventOK(e)'
      BY <1>0, <2>0, <2>2, <3>1, EventTo, EventGoesOn DEF EventOK
    <3> QED BY <1>0, <3>1, <3>2, EventTo DEF Moves
  <2>3. CASE f \in Privacies /\ ~Unscoped(e)
    <3> DEFINE view == [privacy |-> f, generation |-> scope'.generation,
                        version |-> scope'.version]
               to == IF event[e].request = "ask" THEN "list" ELSE "look"
               next == [event[e] EXCEPT !.seen = view, !.pc = to]
    <3>1. event' = [event EXCEPT ![e] = next]
      BY <1>0, <1>16, <2>3 DEF Observe, Privacies
    <3>2. view \in Scopes /\ to \in {"list", "look"}
      BY <2>3 DEF Scopes, RowsInv
    <3>3. view.version = scope'.version /\ scope'.version \in Nat
      BY DEF RowsInv
    <3>4. to = IF event[e].request = "ask" THEN "list" ELSE "look"
      OBVIOUS
    <3> HIDE DEF view, to
    <3>5. /\ next \in Event /\ next.request = event[e].request /\ next.pc = to
          /\ next.picked = event[e].picked /\ next.seen = view
          /\ next.epoch = event[e].epoch /\ next.answer = event[e].answer
      BY <1>0, <3>2 DEF Event
    <3> HIDE DEF next
    <3>6. event' \in [Events -> Event] /\ event'[e] = next
          /\ \A g \in Events \ {e} : event'[g] = event[g]
      BY <1>0, <3>1, <3>5, EventMoves
    <3>7. EventOK(e)'
      BY <1>0, <2>0, <3>2, <3>3, <3>4, <3>5, <3>6 DEF EventOK, Early
    <3> QED BY <3>6, <3>7 DEF Moves
  <2> QED BY <1>16, <2>1, <2>2, <2>3 DEF Observe
<1> QED BY <1>1, <1>2, <1>6, <1>7, <1>8, <1>9, <1>10, <1>12, <1>13, <1>14, <1>15, <1>16
     DEF Turn
(* What a command looks up is a selection too.                             *)
LEMMA TargetsAreSelections ==
    ASSUME MemoryInv, NEW e \in Events, NEW S \in Targets(e)
    PROVE  S \in Selections
<1>1. Writable(e) \in Selections /\ Forgettable(e) \in Selections
  BY ListedSelections DEF Writable, Forgettable, MemoryInv
<1>2. \/ S = {}
      \/ \E p \in Writable(e) : S = {p}
      \/ \E p \in Forgettable(e) : S = {p}
      \/ S \in SUBSET Writable(e)
  <2>1. event[e].request \in {"ask", "remember", "update", "merge", "forget", "confirm"}
    BY MemoryAssumption DEF MemoryInv, EventsInv, Event
  <2>2. CASE event[e].request = "remember"
    BY <2>2 DEF Targets
  <2>3. CASE event[e].request = "update"
    BY <2>3 DEF Targets
  <2>4. CASE event[e].request = "forget"
    BY <2>4 DEF Targets
  <2>5. CASE event[e].request = "merge"
    BY <2>5 DEF Targets
  <2>6. CASE event[e].request \in {"ask", "confirm"}
    BY <2>6 DEF Targets
  <2> QED BY <2>1, <2>2, <2>3, <2>4, <2>5, <2>6
<1> QED BY <1>1, <1>2 DEF Selections

(* Which challenge a member confirms is settled when it is looked up.      *)
LEMMA LookMoves ==
    ASSUME MemoryInv, RowsInv', Grows, NEW e \in Events, Look(e)
    PROVE  /\ Moves(e) /\ event'[e].request = event[e].request
           /\ event[e].pc = "look" /\ event'[e].epoch = event[e].epoch
           /\ event'[e].sound = event[e].sound /\ event'[e].answer = event[e].answer
           /\ event'[e].request = "confirm" /\ event'[e].pc = "change" =>
                 \E c \in Events :
                    /\ event'[e].from = c /\ challenge[c].entry \in Entries
                    /\ event'[e].picked = {<<challenge[c].entry, challenge[c].version>>}
           /\ event'[e].pc \in {"change", "done"}
<1>0. event \in [Events -> Event] /\ EventsInv /\ EventOK(e) /\ event[e] \in Event
  BY DEF MemoryInv, EventsInv
<1>1. event[e].pc = "look" /\ event[e].request # "ask" /\ UNCHANGED scope
      /\ event[e].epoch = 0 /\ event[e].answer # "draft"
  BY <1>0 DEF Look, At, EventOK, Early, Late
<1>2. ASSUME NEW S \in Selections, NEW c \in Events \cup {Nothing},
             event' = [event EXCEPT ![e] = [event[e] EXCEPT !.picked = S, !.from = c,
                                                            !.pc = "change"]]
      PROVE  /\ Moves(e) /\ event'[e].request = event[e].request
             /\ event'[e].epoch = event[e].epoch /\ event'[e].sound = event[e].sound
             /\ event'[e].answer = event[e].answer
             /\ event'[e].picked = S /\ event'[e].from = c /\ event'[e].pc = "change"
  <2> DEFINE next == [event[e] EXCEPT !.picked = S, !.from = c, !.pc = "change"]
  <2>1. /\ next \in Event /\ next.request = event[e].request /\ next.seen = event[e].seen
        /\ next.epoch = event[e].epoch /\ next.sound = event[e].sound
        /\ next.answer = event[e].answer
        /\ next.picked = S /\ next.from = c /\ next.pc = "change"
    BY <1>0 DEF Event
  <2>2. event' = [event EXCEPT ![e] = next]
    BY <1>2
  <2> HIDE DEF next
  <2>3. event' \in [Events -> Event] /\ event'[e] = next
        /\ \A g \in Events \ {e} : event'[g] = event[g]
    BY <1>0, <2>1, <2>2, EventMoves
  <2>4. EventOK(e)'
    BY <1>0, <1>1, <2>1, <2>3 DEF EventOK
  <2> QED BY <2>1, <2>3, <2>4 DEF Moves
<1>3. ASSUME To(e, "done")
      PROVE  /\ Moves(e) /\ event'[e].request = event[e].request
             /\ event'[e].epoch = event[e].epoch /\ event'[e].sound = event[e].sound
             /\ event'[e].answer = event[e].answer /\ event'[e].pc = "done"
  <2>1. EventOK(e)'
    BY <1>0, <1>1, <1>3, EventTo, EventGoesOn
  <2> QED BY <1>0, <1>3, <2>1, EventTo DEF Moves
<1>4. ASSUME NEW S \in Targets(e),
             event' = [event EXCEPT ![e].picked = S, ![e].pc = "change"]
      PROVE  /\ Moves(e) /\ event'[e].request = event[e].request
             /\ event'[e].epoch = event[e].epoch /\ event'[e].sound = event[e].sound
             /\ event'[e].answer = event[e].answer
             /\ event'[e].pc = "change" /\ event[e].request # "confirm"
  <2>1. event[e].request # "confirm"
    BY DEF Targets
  <2>2. S \in Selections /\ event[e].from \in Events \cup {Nothing}
    BY <1>0, TargetsAreSelections DEF Event
  <2>3. [event[e] EXCEPT !.picked = S, !.pc = "change"]
            = [event[e] EXCEPT !.picked = S, !.from = event[e].from, !.pc = "change"]
    BY <1>0 DEF Event
  <2>4. event' = [event EXCEPT ![e] = [event[e] EXCEPT !.picked = S, !.from = event[e].from,
                                                       !.pc = "change"]]
    BY <1>0, <1>4, <2>3
  <2> QED BY <1>2, <2>1, <2>2, <2>4
<1>5. ASSUME NEW c \in Events, ChallengeFor(e, c),
             event' = [event EXCEPT
                 ![e].picked = {<<challenge[c].entry, challenge[c].version>>},
                 ![e].from = c, ![e].pc = "change"]
      PROVE  /\ Moves(e) /\ event'[e].request = event[e].request
             /\ event'[e].epoch = event[e].epoch /\ event'[e].sound = event[e].sound
             /\ event'[e].answer = event[e].answer
             /\ event'[e].from = c /\ challenge[c].entry \in Entries
             /\ event'[e].picked = {<<challenge[c].entry, challenge[c].version>>}
             /\ event'[e].pc = "change"
  <2>1. challenge[c].entry \in Entries /\ challenge[c].version \in Nat
    BY <1>5 DEF ChallengeFor, NoChallenge, MemoryInv, ChallengesInv, Challenge
  <2>2. {<<challenge[c].entry, challenge[c].version>>} \in Selections
    BY <2>1 DEF Selections
  <2>3. event' = [event EXCEPT ![e] = [event[e] EXCEPT
                     !.picked = {<<challenge[c].entry, challenge[c].version>>},
                     !.from = c, !.pc = "change"]]
    BY <1>0, <1>5
  <2> QED BY <1>2, <2>1, <2>2, <2>3
<1>6. \/ \E S \in Targets(e) : event' = [event EXCEPT ![e].picked = S, ![e].pc = "change"]
      \/ \E c \in Events : ChallengeFor(e, c) /\ event' = [event EXCEPT
                 ![e].picked = {<<challenge[c].entry, challenge[c].version>>},
                 ![e].from = c, ![e].pc = "change"]
      \/ To(e, "done")
  BY DEF Look
<1> QED BY <1>1, <1>3, <1>4, <1>5, <1>6

LEMMA RequestsStay ==
    ASSUME MemoryInv, NEW e \in Events, ReadSlack(e) \/ Observe(e) \/ Turn(e) \/ Change(e)
    PROVE  /\ event'[e].request = event[e].request
           /\ event[e].pc # "done" /\ event'[e].pc # "change"
<1>0. event \in [Events -> Event] /\ event[e] \in Event
  BY DEF MemoryInv, EventsInv
<1>1. CASE ReadSlack(e)
  <2>1. /\ event[e].pc = "new"
        /\ \E f : event' = [event EXCEPT ![e].facts = f, ![e].pc = "observe"]
    BY <1>1 DEF ReadSlack, At
  <2> QED BY <1>0, <2>1 DEF Event
<1>2. CASE Observe(e)
  BY <1>0, <1>2 DEF Observe, Unscoped, At, Event
<1>3. CASE List(e) \/ ResolveContext(e) \/ FreezePlan(e)
  <2>1. CASE List(e)
    BY <1>0, <2>1 DEF List, At, Event
  <2>2. CASE ResolveContext(e)
    BY <1>0, <2>2 DEF ResolveContext, At, Event
  <2>3. CASE FreezePlan(e)
    BY <1>0, <2>3 DEF FreezePlan, At, Event
  <2> QED BY <1>3, <2>1, <2>2, <2>3
<1>4. CASE DispatchPrompt(e) \/ AgentFails(e) \/ ConfirmInjection(e) \/ Change(e)
  <2>1. CASE DispatchPrompt(e)
    <3> DEFINE used == {g[2] : g \in {h \in given' : h[1] = Transcript(e)}}
    <3>1. /\ event[e].pc = "dispatch"
          /\ \/ event' = [event EXCEPT ![e].sent = TRUE, ![e].used = used, ![e].pc = "confirm"]
             \/ To(e, "confirm")
      BY <2>1 DEF DispatchPrompt, At
    <3> HIDE DEF used
    <3> QED BY <1>0, <3>1 DEF To, Event
  <2>2. CASE AgentFails(e)
    BY <1>0, <2>2 DEF AgentFails, To, At, Event
  <2>3. CASE ConfirmInjection(e)
    BY <1>0, <2>3 DEF ConfirmInjection, At, Event
  <2>4. CASE Change(e)
    BY <1>0, <2>4 DEF Change, To, At, Event
  <2> QED BY <1>4, <2>1, <2>2, <2>3, <2>4
<1>5. CASE CheckSlack(e) \/ CheckScope(e) \/ CheckEntries(e)
  BY <1>0, <1>5 DEF CheckSlack, CheckScope, CheckEntries, Decide, To, At, Event
<1>6. CASE Crash(e)
  BY <1>0, <1>6 DEF Crash, At, NewEvent
<1> QED BY <1>1, <1>2, <1>3, <1>4, <1>5, <1>6 DEF Turn

LEMMA ChangeMoves ==
    ASSUME MemoryInv, RowsInv', Grows, NEW e \in Events, Change(e)
    PROVE  /\ Moves(e) /\ event'[e].pc = "done" /\ event[e].pc = "change"
           /\ event[e].request # "ask" /\ event'[e].epoch = event[e].epoch
           /\ event'[e].sound = event[e].sound /\ event'[e].answer = event[e].answer
<1>0. EventsInv /\ EventOK(e) /\ To(e, "done") /\ event[e].pc = "change"
  BY DEF MemoryInv, EventsInv, Change, At
<1>1. event[e].request # "ask"
  BY <1>0 DEF EventOK, Early, Late
<1>2. EventOK(e)'
  BY <1>0, <1>1, EventTo, EventGoesOn DEF EventOK
<1> QED BY <1>0, <1>1, <1>2, EventTo DEF Moves

LEMMA ChallengesStep ==
    ASSUME MemoryInv, [MemoryNext]_memoryVars
    PROVE  ChallengesInv'
<1>0. RowsInv' /\ Grows /\ challenge \in [Events -> Challenge]
  BY RowsStep DEF MemoryInv, ChallengesInv
<1>1. ASSUME NEW e \in Events, Moves(e), event'[e].request = event[e].request,
             event[e].pc # "done", event'[e].pc # "change", UNCHANGED challenge
      PROVE  ChallengesInv'
  BY <1>1 DEF Moves, MemoryInv, ChallengesInv
<1>2. ASSUME NEW e \in Events, ReadSlack(e) \/ Observe(e) \/ Turn(e)
      PROVE  ChallengesInv'
  <2>1. UNCHANGED challenge
    BY <1>2 DEF ReadSlack, Observe, Turn, List, ResolveContext, FreezePlan, DispatchPrompt,
                AgentFails, ConfirmInjection, CheckSlack, CheckScope, CheckEntries, Crash
  <2> QED BY <1>0, <1>1, <1>2, <2>1, TurnMoves, RequestsStay
<1>3. ASSUME NEW e \in Events, Look(e)
      PROVE  ChallengesInv'
  <2>1. UNCHANGED challenge
    BY <1>3 DEF Look
  <2> QED BY <1>0, <1>3, <2>1, LookMoves DEF Moves, MemoryInv, ChallengesInv
<1>4. ASSUME NEW e \in Events, Change(e)
      PROVE  ChallengesInv'
  <2>1. CASE RequestForget(e)
    <3>1. PICK p \in event[e].picked : challenge' = [challenge EXCEPT ![e] =
              [entry |-> p[1], version |-> p[2], consumed |-> FALSE]]
      BY <2>1 DEF RequestForget
    <3>2. p[1] \in Entries /\ p[2] \in Nat
      BY DEF MemoryInv, EventsInv, Event, Selections
    <3>3. [entry |-> p[1], version |-> p[2], consumed |-> FALSE] \in Challenge
      BY <3>2 DEF Challenge
    <3>4. /\ challenge' \in [Events -> Challenge] /\ challenge'[e].entry \in Entries
          /\ \A c \in Events \ {e} : challenge'[c] = challenge[c]
      BY <1>0, <3>1, <3>2, <3>3
    <3>5. challenge[e] = NoChallenge /\ NoChallenge.entry \notin Entries
      BY <1>0, <1>4, ChangeMoves, MemoryAssumption
         DEF MemoryInv, ChallengesInv, NoChallenge, Nothing
    <3>6. event'[e].request = "forget" /\ event'[e].pc = "done"
      BY <1>0, <1>4, <2>1, ChangeMoves, RequestsStay DEF RequestForget
    <3> QED BY <1>0, <1>4, <3>4, <3>5, <3>6, ChangeMoves DEF Moves, MemoryInv, ChallengesInv
  <2>2. CASE ForgetEntry(e)
    <3>1. PICK c \in Events : event[e].from = c /\ challenge[c].entry \in Entries
      BY <1>4, <2>2 DEF ForgetEntry, Change, At, MemoryInv, ChallengesInv
    <3>2. challenge' = [challenge EXCEPT ![c] = [challenge[c] EXCEPT !.consumed = TRUE]]
      BY <1>0, <2>2, <3>1 DEF ForgetEntry
    <3>3. /\ [challenge[c] EXCEPT !.consumed = TRUE] \in Challenge
          /\ [challenge[c] EXCEPT !.consumed = TRUE].entry = challenge[c].entry
          /\ [challenge[c] EXCEPT !.consumed = TRUE].version = challenge[c].version
      BY <1>0 DEF Challenge
    <3>4. /\ challenge' \in [Events -> Challenge]
          /\ \A d \in Events : /\ challenge'[d].entry = challenge[d].entry
                               /\ challenge'[d].version = challenge[d].version
                               /\ d # c => challenge'[d] = challenge[d]
      BY <1>0, <3>2, <3>3
    <3>5. challenge[c] # NoChallenge
      BY <3>1, MemoryAssumption DEF NoChallenge, Nothing
    <3>6. \A d \in Events : event'[d].request = event[d].request
                           /\ (event[d].pc = "done" => event'[d].pc = "done")
                           /\ (event'[d].pc = "change" => event'[d] = event[d])
      BY <1>0, <1>4, ChangeMoves, RequestsStay DEF Moves
    <3> QED BY <3>1, <3>4, <3>5, <3>6 DEF MemoryInv, ChallengesInv
  <2>3. CASE UNCHANGED challenge
    <3>1. Moves(e) /\ event'[e].request = event[e].request
          /\ event[e].pc # "done" /\ event'[e].pc # "change"
      BY <1>0, <1>4, ChangeMoves, RequestsStay
    <3> QED BY <1>1, <2>3, <3>1
  <2> QED BY <1>4, <2>1, <2>2, <2>3 DEF Change, Applies, Remember, UpdateEntry, MergeEntries
<1>5. CASE UNCHANGED <<event, challenge>>
  BY <1>5 DEF MemoryInv, ChallengesInv
<1> QED BY <1>2, <1>3, <1>4, <1>5
     DEF MemoryNext, memoryVars, OperatorUpdates, OperatorForgets, ChannelChanges

LEMMA MemoryStep ==
    ASSUME MemoryInv, [MemoryNext]_memoryVars
    PROVE  MemoryInv'
<1>1. RowsInv' /\ ScopeInv' /\ Grows /\ ChallengesInv'
  BY RowsStep, ChallengesStep
<1>2. EventsInv'
  <2>1. \A f \in Events : event'[f] = event[f] => EventOK(f)'
    BY <1>1, EventGoesOn DEF MemoryInv, EventsInv, EventOK
  <2>2. ASSUME NEW e \in Events, Moves(e)
        PROVE  EventsInv'
    BY <2>1, <2>2 DEF Moves, EventsInv
  <2>3. CASE UNCHANGED event
    BY <2>1, <2>3 DEF MemoryInv, EventsInv
  <2> QED BY <1>1, <2>2, <2>3, TurnMoves, LookMoves, ChangeMoves
       DEF MemoryNext, memoryVars, OperatorUpdates, OperatorForgets, ChannelChanges
<1>3. ContextInv'
  <2>1. ASSUME NEW e \in Events, ResolveContext(e)
        PROVE  ContextInv'
    <3>1. event[e].seen \in Scopes /\ event[e].picked \in Selections
          /\ context.epoch \in Nat /\ UNCHANGED given
      BY <2>1 DEF MemoryInv, EventsInv, Event, ContextInv, ResolveContext
    <3>2. CASE context' = context
      BY <3>1, <3>2 DEF MemoryInv, ContextInv
    <3>3. CASE context' = [epoch |-> context.epoch + 1, scope |-> event[e].seen,
                           selection |-> event[e].picked, confirmed |-> FALSE]
      BY <3>1, <3>3 DEF MemoryInv, ContextInv
    <3> QED BY <2>1, <3>2, <3>3 DEF ResolveContext
  <2>2. ASSUME NEW e \in Events, ConfirmInjection(e)
        PROVE  ContextInv'
    BY <2>2 DEF ConfirmInjection, MemoryInv, ContextInv
  <2>3. ASSUME NEW e \in Events, DispatchPrompt(e)
        PROVE  ContextInv'
    <3>1. Block(e) \subseteq Entries \X Nat
      BY DEF Block, MemoryInv, EventsInv, Event, Selections
    <3>2. /\ UNCHANGED context
          /\ \/ UNCHANGED given
             \/ given' = given \cup {<<Transcript(e), x>> : x \in Block(e)}
      BY <2>3 DEF DispatchPrompt
    <3>3. \A g \in given' : g \in given \/ \E x \in Block(e) : g = <<Transcript(e), x>>
      BY <3>2
    <3>4. \A g \in given' : g[2] \in Entries \X Nat
      BY <3>1, <3>3 DEF MemoryInv, ContextInv
    <3> QED BY <3>2, <3>4 DEF MemoryInv, ContextInv
  <2>4. CASE UNCHANGED <<context, given>>
    BY <2>4 DEF MemoryInv, ContextInv
  <2>5. ASSUME NEW e \in Events, ReadSlack(e) \/ Observe(e) \/ Look(e) \/ Change(e)
        PROVE  UNCHANGED <<context, given>>
    BY <2>5 DEF ReadSlack, Observe, Look, Change
  <2>6. ASSUME NEW e \in Events, Turn(e),
               ~(ResolveContext(e) \/ ConfirmInjection(e) \/ DispatchPrompt(e))
        PROVE  UNCHANGED <<context, given>>
    BY <2>6 DEF Turn, List, FreezePlan, AgentFails, CheckSlack, CheckScope, CheckEntries, Crash
  <2> QED BY <2>1, <2>2, <2>3, <2>4, <2>5, <2>6
       DEF MemoryNext, memoryVars, OperatorUpdates, OperatorForgets, ChannelChanges
<1> QED BY <1>1, <1>2, <1>3 DEF MemoryInv
LEMMA MemoryBegins == MemoryInit => MemoryInv /\ TurnsInv
<1> SUFFICES ASSUME MemoryInit PROVE MemoryInv /\ TurnsInv
  OBVIOUS
<1>1. PICK p \in Privacies, known \in BOOLEAN :
          /\ channel = [privacy |-> p, archived |-> FALSE]
          /\ scope = IF known
                     THEN [privacy |-> p, lifecycle |-> "active",
                           generation |-> IF p = "private" THEN 1 ELSE 0, version |-> 1]
                     ELSE [privacy |-> p, lifecycle |-> "unseen", generation |-> 0,
                           version |-> 0]
          /\ \E S \in SUBSET Entries :
                memory = [x \in Entries |->
                      IF x \in S
                      THEN NewEntry(IF p = "private" THEN 1 ELSE PublicStore)
                      ELSE [status |-> "absent", store |-> PublicStore, version |-> 0]]
  BY DEF MemoryInit
<1>2. PICK S \in SUBSET Entries :
          memory = [x \in Entries |->
              IF x \in S THEN NewEntry(IF p = "private" THEN 1 ELSE PublicStore)
              ELSE [status |-> "absent", store |-> PublicStore, version |-> 0]]
  BY <1>1
<1>3. channel \in [privacy : Privacies, archived : BOOLEAN]
      /\ scope \in [privacy : Privacies, lifecycle : {"unseen", "active", "retained"},
                    generation : Nat, version : Nat]
  BY <1>1
<1>4. /\ NewEntry(IF p = "private" THEN 1 ELSE PublicStore) \in Entry
      /\ NewEntry(IF p = "private" THEN 1 ELSE PublicStore).status = "active"
      /\ [status |-> "absent", store |-> PublicStore, version |-> 0] \in Entry
  BY StoresAreNumbers DEF NewEntry, Entry, PublicStore
<1>5. RowsInv
  BY <1>2, <1>3, <1>4 DEF RowsInv
<1>6. sealed = {} /\ given = {} /\ context = NoContext
      /\ challenge = [e \in Events |-> NoChallenge]
      /\ event \in [Events -> {NewEvent(r) : r \in Requests}]
  BY DEF MemoryInit
<1>7. ScopeInv
  <2>1. CASE known /\ p = "private"
    BY <1>1, <1>6, <2>1 DEF ScopeInv, OnlyCurrentGenerationOpen
  <2>2. CASE ~(known /\ p = "private")
    BY <1>1, <1>6, <2>2 DEF ScopeInv, OnlyCurrentGenerationOpen
  <2> QED BY <2>1, <2>2
<1>8. \A e \in Events : \E r \in Requests : event[e] = NewEvent(r)
  BY <1>6
<1>9. \A e \in Events :
          /\ event[e] \in Event /\ event[e].pc = "new"
          /\ event[e].seen = NoScope /\ event[e].picked = {} /\ event[e].epoch = 0
          /\ event[e].plan = 0 /\ event[e].used = {} /\ ~event[e].inject
          /\ ~event[e].sent /\ event[e].answer = Nothing
  <2> TAKE e \in Events
  <2>1. PICK r \in Requests : event[e] = NewEvent(r)
    BY <1>8
  <2> QED BY <2>1, BlankEvent
<1>10. EventsInv
  <2>1. scope.version \in Nat
    BY <1>3
  <2> QED BY <1>6, <1>9, <2>1, BlankScope DEF EventsInv, EventOK, Early, Nothing
<1>11. ChallengesInv
  <2>1. NoChallenge \in Challenge
    BY DEF NoChallenge, Challenge
  <2> QED BY <1>6, <1>9, <2>1 DEF ChallengesInv
<1>12. ContextInv
  BY <1>6, BlankScope DEF ContextInv, NoContext, Selections
<1>13. PhaseInv
  BY <1>9 DEF PhaseInv, PhaseOK, Early, Late, Quarantine
<1>14. EpochsInv /\ GivenInv /\ AnswersInv
  BY <1>6, <1>9 DEF EpochsInv, GivenInv, AnswersInv, AnswerOK, Checks, NoContext, Nothing
<1> QED BY <1>5, <1>7, <1>10, <1>11, <1>12, <1>13, <1>14 DEF MemoryInv, TurnsInv

(* Only Change and the operator touch a row.                               *)
LEMMA FrozenStep ==
    ASSUME MemoryInv, MemoryNext, NEW x \in Entries, memory'[x] # memory[x]
    PROVE  memory[x].store \notin sealed /\ memory'[x].store \notin sealed
<1>1. ASSUME NEW S \in SUBSET Entries, NEW to \in {"active", "superseded", "forgotten"},
             memory' = Bump(S, to), \A y \in S : Mutable(y, memory[y].version)
      PROVE  memory[x].store \notin sealed /\ memory'[x].store \notin sealed
  BY <1>1, BumpedRows DEF Mutable, Unsealed, MemoryInv
<1>2. CASE OperatorUpdates
  BY <1>1, <1>2 DEF OperatorUpdates
<1>3. CASE OperatorForgets
  <2>1. PICK y \in Entries : Mutable(y, memory[y].version) /\ memory' = Bump({y}, "forgotten")
    BY <1>3 DEF OperatorForgets
  <2>2. {y} \in SUBSET Entries /\ \A z \in {y} : Mutable(z, memory[z].version)
    BY <2>1
  <2> QED BY <1>1, <2>1, <2>2
<1>4. ASSUME NEW e \in Events, Change(e)
      PROVE  memory[x].store \notin sealed /\ memory'[x].store \notin sealed
  BY <1>4, CommandRows
<1>5. ASSUME NEW e \in Events, ReadSlack(e) \/ Observe(e) \/ Turn(e) \/ Look(e)
      PROVE  UNCHANGED memory
  BY <1>5 DEF ReadSlack, Observe, Turn, Look, List, ResolveContext, FreezePlan, DispatchPrompt,
              AgentFails, ConfirmInjection, CheckSlack, CheckScope, CheckEntries, Crash
<1> QED BY <1>2, <1>3, <1>4, <1>5 DEF MemoryNext, ChannelChanges

LEMMA ForgetStep ==
    ASSUME MemoryInv, MemoryNext, NEW x \in Entries,
           memory[x].status # "forgotten", memory'[x].status = "forgotten"
    PROVE  \/ OperatorForgets
           \/ \E c \in Events :
                  /\ challenge[c] = [entry |-> x, version |-> memory[x].version,
                                     consumed |-> FALSE]
                  /\ challenge'[c].consumed
<1>1. CASE OperatorUpdates
  <2>1. PICK S \in SUBSET Entries \ {{}} : memory' = Bump(S, "active")
    BY <1>1 DEF OperatorUpdates
  <2> QED BY <2>1, BumpedRows DEF MemoryInv
<1>2. ASSUME NEW e \in Events, Change(e)
      PROVE  \E c \in Events :
                  /\ challenge[c] = [entry |-> x, version |-> memory[x].version,
                                     consumed |-> FALSE]
                  /\ challenge'[c].consumed
  <2>1. ForgetEntry(e)
    BY <1>2, CommandRows
  <2>2. memory' = Bump(Names(e), "forgotten") /\ Changeable(e)
        /\ event[e].request = "confirm" /\ event[e].pc = "change"
    BY <1>2, <2>1 DEF ForgetEntry, Change, At
  <2>3. PICK c \in Events :
            /\ event[e].from = c /\ challenge[c].entry \in Entries
            /\ event[e].picked = {<<challenge[c].entry, challenge[c].version>>}
    BY <2>2 DEF MemoryInv, ChallengesInv
  <2>4. Names(e) \in SUBSET Entries
        /\ \A p \in event[e].picked : memory[p[1]].version = p[2]
    BY <2>2, NamedRows
  <2>5. x \in Names(e)
    BY <2>2, <2>4, BumpedRows DEF MemoryInv
  <2>6. x = challenge[c].entry /\ memory[x].version = challenge[c].version
    BY <2>3, <2>4, <2>5 DEF Names
  <2>7. challenge[c] \in Challenge /\ ~challenge[c].consumed
        /\ challenge' = [challenge EXCEPT ![c].consumed = TRUE]
    BY <2>1, <2>3 DEF ForgetEntry, MemoryInv, ChallengesInv
  <2>8. challenge[c] = [entry |-> x, version |-> memory[x].version, consumed |-> FALSE]
    BY <2>6, <2>7 DEF Challenge
  <2>9. challenge'[c].consumed
    BY <2>7 DEF MemoryInv, ChallengesInv, Challenge
  <2> QED BY <2>8, <2>9
<1>3. ASSUME NEW e \in Events, ReadSlack(e) \/ Observe(e) \/ Turn(e) \/ Look(e)
      PROVE  UNCHANGED memory
  BY <1>3 DEF ReadSlack, Observe, Turn, Look, List, ResolveContext, FreezePlan, DispatchPrompt,
              AgentFails, ConfirmInjection, CheckSlack, CheckScope, CheckEntries, Crash
<1> QED BY <1>1, <1>2, <1>3 DEF MemoryNext, ChannelChanges

(* observeChannelScope and retainChannelScope seal a generation whenever   *)
(* they leave it, in whatever order what was read of Slack is recorded.    *)
THEOREM ClosedGenerationsAreSealed == MemorySpec => []OnlyCurrentGenerationOpen
<1>1. MemoryInit => MemoryInv
  BY MemoryBegins
<1>2. MemoryInv /\ [MemoryNext]_memoryVars => MemoryInv'
  BY MemoryStep
<1>3. MemoryInv => OnlyCurrentGenerationOpen
  BY DEF MemoryInv, ScopeInv
<1> QED BY <1>1, <1>2, <1>3, PTL DEF MemorySpec

(* Whatever a command or an operator has looked up, the transaction that   *)
(* applies it looks at the seal again.                                     *)
THEOREM SealedStoresStandStill == MemorySpec => SealedIsFrozen
<1>1. MemoryInit => MemoryInv
  BY MemoryBegins
<1>2. MemoryInv /\ [MemoryNext]_memoryVars => MemoryInv'
  BY MemoryStep
<1>3. MemoryInv /\ [MemoryNext]_memoryVars =>
        [\A x \in Entries : memory'[x] # memory[x] =>
           memory[x].store \notin sealed /\ memory'[x].store \notin sealed]_memoryVars
  BY FrozenStep
<1> QED BY <1>1, <1>2, <1>3, PTL DEF MemorySpec, SealedIsFrozen

(* forgetEntry takes the version and the challenge that were confirmed.    *)
THEOREM ForgettingIsConfirmed == MemorySpec => ForgetWasConfirmed
<1>1. MemoryInit => MemoryInv
  BY MemoryBegins
<1>2. MemoryInv /\ [MemoryNext]_memoryVars => MemoryInv'
  BY MemoryStep
<1>3. MemoryInv /\ [MemoryNext]_memoryVars =>
        [\A x \in Entries :
           memory[x].status # "forgotten" /\ memory'[x].status = "forgotten" =>
               \/ OperatorForgets
               \/ \E c \in Events :
                      /\ challenge[c] = [entry |-> x, version |-> memory[x].version,
                                         consumed |-> FALSE]
                      /\ challenge'[c].consumed]_memoryVars
  BY ForgetStep
<1> QED BY <1>1, <1>2, <1>3, PTL DEF MemorySpec, ForgetWasConfirmed

-----------------------------------------------------------------------------
(* Turns that were not resumed                                             *)

TurnsOK == PhaseInv /\ EpochsInv /\ GivenInv /\ AnswersInv

LEMMA TurnStands ==
    ASSUME MemoryInv, MemoryInv', Grows, NEW e \in Events, event'[e] = event[e],
           PhaseOK(e), AnswerOK(e), context'.epoch >= context.epoch
    PROVE  PhaseOK(e)' /\ AnswerOK(e)'
<1>1. context.epoch \in Nat /\ context'.epoch \in Nat
  BY DEF MemoryInv, ContextInv
<1>2. PhaseOK(e)'
  BY <1>1 DEF PhaseOK
<1>3. scope.version \in Nat /\ scope'.version \in Nat /\ event[e].seen.version \in Nat
  BY StoresAreNumbers DEF MemoryInv, EventsInv, Event, RowsInv
<1>4. event[e].pc \in Checks => event[e].request = "ask"
  BY DEF MemoryInv, EventsInv, EventOK, Checks
<1>5. event[e].request = "ask" => \A p \in event[e].picked : Newer(p) => Newer(p)'
  BY SelectionAges DEF MemoryInv
<1>6. scope.version > event[e].seen.version => scope'.version > event[e].seen.version
  BY <1>3 DEF Grows
<1>7. AnswerOK(e)'
  BY <1>4, <1>5, <1>6 DEF AnswerOK
<1> QED BY <1>2, <1>7

(* A move of one turn by itself: it leaves its epoch, or stays in it with  *)
(* what it has selected.                                                   *)
LEMMA MoveKeepsTurns ==
    ASSUME MemoryInv, MemoryInv', Grows, TurnsOK, NEW e \in Events,
           \A f \in Events \ {e} : event'[f] = event[f],
           UNCHANGED <<context, given>>,
           \/ event'[e].epoch = event[e].epoch /\ event'[e].picked = event[e].picked
           \/ event'[e].epoch \in {0, Quarantine},
           event'[e].pc = "confirm" => event'[e] = event[e],
           PhaseOK(e)', AnswerOK(e)'
    PROVE  TurnsOK'
<1> USE DEF TurnsOK
<1>1. context.epoch \in Nat
  BY DEF MemoryInv, ContextInv
<1>2. \A f \in Events : PhaseOK(f)' /\ AnswerOK(f)'
  BY <1>1, TurnStands DEF PhaseInv, AnswersInv
<1>3. EpochsInv'
  BY DEF EpochsInv, Quarantine
<1>4. GivenInv'
  <2>1. \A g \in given : g[1] # 0 /\ g[1] # Quarantine
    BY <1>1 DEF GivenInv, Quarantine
  <2>2. \A f \in Events, g \in given : event'[f].epoch = g[1] => g[2] \in event'[f].picked
    BY <2>1 DEF GivenInv
  <2>3. \A f \in Events : event'[f].pc = "confirm" => event'[f] = event[f]
    OBVIOUS
  <2> QED BY <2>2, <2>3 DEF GivenInv
<1> QED BY <1>2, <1>3, <1>4 DEF PhaseInv, AnswersInv

LEMMA EventsStandKeepTurns ==
    ASSUME MemoryInv, MemoryInv', Grows, TurnsOK, UNCHANGED <<event, context, given>>
    PROVE  TurnsOK'
<1>1. context.epoch \in Nat
  BY DEF MemoryInv, ContextInv
<1>2. \A f \in Events : PhaseOK(f)' /\ AnswerOK(f)'
  BY <1>1, TurnStands DEF TurnsOK, PhaseInv, AnswersInv
<1> QED BY <1>2 DEF TurnsOK, PhaseInv, AnswersInv, EpochsInv, GivenInv

(* Commands have no epoch.                                                 *)
LEMMA CommandsKeepTurns ==
    ASSUME MemoryInv, MemoryInv', Grows, TurnsOK, NEW e \in Events, Look(e) \/ Change(e)
    PROVE  TurnsOK'
<1>1. /\ Moves(e) /\ event'[e].request = event[e].request
      /\ event'[e].epoch = event[e].epoch /\ event'[e].answer = event[e].answer
      /\ event'[e].pc \in {"change", "done"} /\ UNCHANGED <<context, given>>
      /\ event[e].pc \in {"look", "change"}
  BY LookMoves, ChangeMoves, RequestsStay DEF MemoryInv, Look, Change
<1>2. event[e].request # "ask" /\ event[e].epoch = 0 /\ event[e].answer # "draft"
  BY <1>1 DEF MemoryInv, EventsInv, EventOK, Early, Late
<1>3. PhaseOK(e)' /\ AnswerOK(e)'
  BY <1>1, <1>2 DEF PhaseOK, AnswerOK, Checks
<1> QED BY <1>1, <1>2, <1>3, MoveKeepsTurns DEF Moves

(* The steps of a turn that change nothing but the turn and the scope.     *)
LEMMA QuietStepsKeepTurns ==
    ASSUME MemoryInv, MemoryInv', Grows, TurnsOK, NEW e \in Events, ~resumed',
           \/ ReadSlack(e) \/ Observe(e) \/ List(e) \/ FreezePlan(e) \/ AgentFails(e)
           \/ CheckSlack(e) \/ CheckScope(e) \/ CheckEntries(e) \/ Crash(e)
    PROVE  TurnsOK'
<1>0. /\ event \in [Events -> Event] /\ EventsInv /\ EventOK(e) /\ event[e] \in Event
      /\ PhaseOK(e) /\ AnswerOK(e)
  BY DEF MemoryInv, EventsInv, TurnsOK, PhaseInv, AnswersInv
<1>1. Moves(e) /\ UNCHANGED <<context, given>>
  <2>1. Moves(e)
    BY TurnMoves DEF Turn, MemoryInv
  <2> QED BY <2>1 DEF ReadSlack, Observe, List, FreezePlan, AgentFails, CheckSlack, CheckScope,
              CheckEntries, Crash
<1>2. ASSUME \/ event'[e].epoch = event[e].epoch /\ event'[e].picked = event[e].picked
             \/ event'[e].epoch \in {0, Quarantine},
             event'[e].pc # "confirm", PhaseOK(e)', AnswerOK(e)'
      PROVE  TurnsOK'
  BY <1>1, <1>2, MoveKeepsTurns DEF Moves
<1>3. CASE ReadSlack(e)
  <2>1. /\ event[e].pc = "new" /\ event'[e].pc = "observe"
        /\ event'[e].request = event[e].request /\ event'[e].picked = event[e].picked
        /\ event'[e].epoch = event[e].epoch /\ event'[e].plan = event[e].plan
        /\ event'[e].used = event[e].used /\ event'[e].inject = event[e].inject
        /\ event'[e].sent = event[e].sent /\ event'[e].answer = event[e].answer
    <3>1. PICK f : event' = [event EXCEPT ![e].facts = f, ![e].pc = "observe"]
      BY <1>3 DEF ReadSlack
    <3> QED BY <1>0, <1>3, <3>1 DEF ReadSlack, At, Event
  <2>2. PhaseOK(e)' /\ AnswerOK(e)'
    BY <1>0, <2>1 DEF PhaseOK, AnswerOK, Early, Late, Checks, Quarantine
  <2> QED BY <1>2, <2>1, <2>2
<1>4. CASE Observe(e)
  <2>1. /\ event[e].pc = "observe"
        /\ event'[e].request = event[e].request /\ event'[e].picked = event[e].picked
        /\ event'[e].plan = event[e].plan
        /\ event'[e].used = event[e].used /\ event'[e].inject = event[e].inject
        /\ event'[e].sent = event[e].sent /\ event'[e].answer = event[e].answer
        /\ \/ event'[e].epoch = event[e].epoch /\ event'[e].pc \in {"list", "look", "done"}
              /\ (event[e].request = "ask" => event'[e].pc = "list")
           \/ event'[e].epoch = Quarantine /\ event'[e].pc = "freeze"
    BY <1>0, <1>4 DEF Observe, Unscoped, At, Event
  <2>2. event[e].picked = {} /\ (event[e].request = "ask" => ~event[e].inject)
    BY <1>0, <2>1 DEF EventOK, PhaseOK, Early
  <2>3. PhaseOK(e)' /\ AnswerOK(e)'
    BY <1>0, <2>1, <2>2 DEF PhaseOK, AnswerOK, Early, Late, Checks, Quarantine
  <2> QED BY <1>2, <2>1, <2>3
<1>5. CASE List(e)
  <2>1. /\ event[e].pc = "list" /\ event'[e].pc = "resolve"
        /\ event'[e].request = event[e].request
        /\ event'[e].epoch = event[e].epoch /\ event'[e].plan = event[e].plan
        /\ event'[e].used = event[e].used /\ event'[e].inject = event[e].inject
        /\ event'[e].sent = event[e].sent /\ event'[e].answer = event[e].answer
    BY <1>0, <1>5 DEF List, At, Event
  <2>2. event[e].epoch = 0 /\ event[e].used = {}
    BY <1>0, <2>1 DEF EventOK, PhaseOK, Early
  <2>3. PhaseOK(e)' /\ AnswerOK(e)'
    BY <1>0, <2>1, <2>2 DEF PhaseOK, AnswerOK, Early, Late, Checks, Quarantine
  <2> QED BY <1>2, <2>1, <2>2, <2>3
<1>6. CASE FreezePlan(e)
  <2>1. /\ event[e].pc = "freeze" /\ event'[e].pc = "dispatch"
        /\ event'[e].request = event[e].request /\ event'[e].picked = event[e].picked
        /\ event'[e].epoch = event[e].epoch
        /\ event'[e].plan = IF event[e].plan = 0 THEN event[e].epoch ELSE event[e].plan
        /\ event'[e].used = event[e].used /\ event'[e].inject = event[e].inject
        /\ event'[e].sent = event[e].sent /\ event'[e].answer = event[e].answer
    BY <1>0, <1>6 DEF FreezePlan, At, Event
  <2>2. PhaseOK(e)' /\ AnswerOK(e)'
    BY <1>0, <1>1, <2>1 DEF PhaseOK, AnswerOK, EventOK, Early, Late, Checks, Quarantine
  <2> QED BY <1>2, <2>1, <2>2
<1>7. CASE AgentFails(e)
  <2>1. To(e, "done") /\ event[e].pc = "confirm"
    BY <1>7 DEF AgentFails, At
  <2>2. PhaseOK(e)' /\ AnswerOK(e)'
    BY <1>0, <1>1, <2>1, EventTo DEF PhaseOK, AnswerOK, EventOK, Early, Late, Checks, Quarantine
  <2> QED BY <1>0, <1>2, <2>1, <2>2, EventTo
<1>8. event[e].pc \in Checks => event[e].request = "ask" /\ event[e].epoch \in {Quarantine} \cup Nat
  BY <1>0 DEF EventOK, Checks, Event
<1>9. ASSUME event[e].pc \in Checks, event[e].request = "ask", NEW answer \in {"draft", "withheld"},
             Decide(e, answer), answer = "draft" => event[e].sound
      PROVE  TurnsOK'
  <2>1. /\ event'[e].request = event[e].request /\ event'[e].picked = event[e].picked
        /\ event'[e].epoch = event[e].epoch /\ event'[e].plan = event[e].plan
        /\ event'[e].used = event[e].used /\ event'[e].inject = event[e].inject
        /\ event'[e].sound = event[e].sound
        /\ event'[e].answer = answer /\ event'[e].pc = "done"
    BY <1>0, <1>9 DEF Decide, Event
  <2>2. PhaseOK(e)' /\ AnswerOK(e)'
    BY <1>0, <1>1, <1>9, <2>1 DEF PhaseOK, AnswerOK, Early, Late, Checks, Quarantine
  <2> QED BY <1>2, <2>1, <2>2
<1>10. CASE CheckSlack(e)
  <2>1. event[e].pc = "check_slack"
    BY <1>10 DEF CheckSlack, At
  <2>2. CASE To(e, "check_scope")
    <3>1. UNCHANGED <<memory, scope>>
      BY <1>10 DEF CheckSlack
    <3>2. PhaseOK(e)' /\ AnswerOK(e)'
      BY <1>0, <1>1, <1>8, <2>1, <2>2, <3>1, EventTo
         DEF PhaseOK, AnswerOK, Early, Late, Checks, Quarantine, Newer
    <3> QED BY <1>0, <1>2, <2>2, <3>2, EventTo
  <2>3. CASE Decide(e, "withheld")
    BY <1>8, <1>9, <2>1, <2>3 DEF Checks
  <2> QED BY <1>10, <2>2, <2>3 DEF CheckSlack
<1>11. CASE CheckScope(e)
  <2>1. event[e].pc = "check_scope" /\ UNCHANGED <<memory, scope>>
    BY <1>11 DEF CheckScope, At
  <2>2. CASE scope.version = event[e].seen.version
    <3>1. To(e, "check_entries")
      BY <1>11, <2>2 DEF CheckScope
    <3>2. ~(scope.version > event[e].seen.version)
      BY <2>2 DEF MemoryInv, RowsInv
    <3>3. PhaseOK(e)' /\ AnswerOK(e)'
      BY <1>0, <1>1, <1>8, <2>1, <3>1, <3>2, EventTo
         DEF PhaseOK, AnswerOK, Early, Late, Checks, Quarantine, Newer
    <3> QED BY <1>0, <1>2, <3>1, <3>3, EventTo
  <2>3. CASE scope.version # event[e].seen.version
    BY <1>8, <1>9, <1>11, <2>1, <2>3 DEF CheckScope, Checks
  <2> QED BY <2>2, <2>3
<1>12. CASE CheckEntries(e)
  <2>1. event[e].pc = "check_entries"
    BY <1>12 DEF CheckEntries, At
  <2>2. CASE StillSupplied(e)
    <3>1. \A p \in event[e].picked : memory[p[1]].version = p[2]
      BY <2>2 DEF StillSupplied, Listed
    <3>2. \A p \in event[e].picked : p[2] \in Nat
      BY <1>0 DEF Event, Selections
    <3>3. event[e].sound
      BY <1>0, <2>1, <3>1, <3>2 DEF AnswerOK, Checks, Newer
    <3> QED BY <1>8, <1>9, <1>12, <2>1, <2>2, <3>3 DEF CheckEntries, Checks
  <2>3. CASE ~StillSupplied(e)
    BY <1>8, <1>9, <1>12, <2>1, <2>3 DEF CheckEntries, Checks
  <2> QED BY <2>2, <2>3
<1>13. CASE Crash(e)
  <2>1. event[e].request = "ask" /\ event[e].plan = 0 /\ event[e].pc # "done"
    BY <1>13 DEF Crash, At
  <2>2. event[e].pc \in Early \cup {"freeze"}
    BY <1>0, <1>1, <2>1 DEF PhaseOK, EventOK, Early, Late, Quarantine
  <2>3. ~event[e].sent /\ event[e].used = {}
    BY <1>0, <2>1, <2>2 DEF PhaseOK
  <2> DEFINE fresh == NewEvent("ask")
  <2>4. event'[e] = [fresh EXCEPT !.plan = event[e].plan, !.sent = event[e].sent,
                                  !.used = event[e].used]
    BY <1>0, <1>13 DEF Crash
  <2>5. /\ fresh \in Event /\ fresh.request = "ask" /\ fresh.pc = "new"
        /\ fresh.picked = {} /\ fresh.epoch = 0 /\ fresh.inject = FALSE
        /\ fresh.answer = Nothing
    <3>1. "ask" \in Requests
      BY <1>0, <2>1 DEF Event
    <3> QED BY <3>1, BlankEvent
  <2> HIDE DEF fresh
  <2>6. /\ event'[e].request = "ask" /\ event'[e].pc = "new" /\ event'[e].picked = {}
        /\ event'[e].epoch = 0 /\ ~event'[e].inject /\ event'[e].answer = Nothing
        /\ event'[e].plan = event[e].plan /\ event'[e].sent = event[e].sent
        /\ event'[e].used = event[e].used
    BY <2>4, <2>5 DEF Event
  <2>7. PhaseOK(e)' /\ AnswerOK(e)'
    BY <2>1, <2>3, <2>6
       DEF PhaseOK, AnswerOK, Early, Late, Checks, Quarantine, Nothing
  <2> QED BY <1>2, <2>6, <2>7
<1> QED BY <1>3, <1>4, <1>5, <1>6, <1>7, <1>10, <1>11, <1>12, <1>13

LEMMA EpochsAreCounted ==
    ASSUME MemoryInv, TurnsOK, NEW e \in Events
    PROVE  event[e].epoch \in {Quarantine, 0} \cup 1 .. context.epoch
BY DEF MemoryInv, EventsInv, EventOK, TurnsOK, PhaseInv, PhaseOK

(* A turn joins the epoch of its selection, or opens one nobody is in.     *)
LEMMA ResolvingKeepsTurns ==
    ASSUME MemoryInv, MemoryInv', Grows, TurnsOK, NEW e \in Events, ResolveContext(e)
    PROVE  TurnsOK'
<1>0. /\ event \in [Events -> Event] /\ EventOK(e) /\ event[e] \in Event
      /\ PhaseOK(e) /\ AnswerOK(e) /\ context.epoch \in Nat
      /\ context'.epoch \in Nat /\ Moves(e) /\ UNCHANGED given
  <2>1. Moves(e) /\ UNCHANGED given
    BY TurnMoves DEF Turn, MemoryInv, ResolveContext
  <2> QED BY <2>1 DEF MemoryInv, EventsInv, TurnsOK, PhaseInv, AnswersInv, ContextInv
<1>1. /\ event[e].pc = "resolve" /\ event'[e].pc = "freeze"
      /\ event'[e].epoch = context'.epoch /\ event'[e].inject = ~context'.confirmed
      /\ event'[e].request = event[e].request /\ event'[e].picked = event[e].picked
      /\ event'[e].plan = event[e].plan /\ event'[e].used = event[e].used
      /\ event'[e].sent = event[e].sent /\ event'[e].answer = event[e].answer
  <2> DEFINE k == context'.epoch
             b == context'.confirmed
  <2>1. event[e].pc = "resolve" /\ event' = [event EXCEPT ![e].epoch = k, ![e].inject = ~b,
                                                         ![e].pc = "freeze"]
    BY DEF ResolveContext, At
  <2> HIDE DEF k, b
  <2>2. /\ event[e].pc = "resolve" /\ event'[e].pc = "freeze"
        /\ event'[e].epoch = k /\ event'[e].inject = ~b
        /\ event'[e].request = event[e].request /\ event'[e].picked = event[e].picked
        /\ event'[e].plan = event[e].plan /\ event'[e].used = event[e].used
        /\ event'[e].sent = event[e].sent /\ event'[e].answer = event[e].answer
    BY <1>0, <2>1 DEF Event
  <2> QED BY <2>2 DEF k, b
<1>2. \A f \in Events \ {e} : event'[f] = event[f]
  BY <1>0 DEF Moves
<1>3. \/ context' = context /\ context.epoch > 0 /\ context.selection = event[e].picked
      \/ /\ context'.epoch = context.epoch + 1 /\ context'.selection = event[e].picked
         /\ context'.confirmed = FALSE
  <2>1. CASE SameContext(e)
    BY <2>1 DEF ResolveContext, SameContext
  <2>2. CASE ~SameContext(e)
    <3>1. context' = [epoch |-> context.epoch + 1, scope |-> event[e].seen,
                      selection |-> event[e].picked, confirmed |-> FALSE]
      BY <2>2 DEF ResolveContext
    <3> QED BY <3>1
  <2> QED BY <2>1, <2>2
<1>4. context'.epoch >= context.epoch /\ context'.epoch \in 1 .. context'.epoch
  BY <1>0, <1>3
<1>5. PhaseOK(e)' /\ AnswerOK(e)'
  <2>1. context'.epoch # 0 /\ context'.epoch # Quarantine
    BY <1>4 DEF Quarantine
  <2> QED BY <1>0, <1>1, <1>4, <2>1 DEF PhaseOK, AnswerOK, Early, Late, Checks
<1>6. \A f \in Events : PhaseOK(f)' /\ AnswerOK(f)'
  BY <1>2, <1>4, <1>5, TurnStands DEF TurnsOK, PhaseInv, AnswersInv
<1>7. \A f \in Events \ {e} :
          /\ event[f].epoch \in {Quarantine, 0} \cup 1 .. context.epoch
          /\ event[f].epoch = context'.epoch => event[f].picked = event[e].picked
  <2> TAKE f \in Events \ {e}
  <2>1. event[f].epoch \in {Quarantine, 0} \cup 1 .. context.epoch
    BY EpochsAreCounted
  <2>2. CASE context' = context /\ context.epoch > 0 /\ context.selection = event[e].picked
    BY <2>1, <2>2 DEF TurnsOK, EpochsInv
  <2>3. CASE context'.epoch = context.epoch + 1
    BY <1>0, <2>1, <2>3 DEF Quarantine
  <2> QED BY <1>3, <2>1, <2>2, <2>3
<1>8. EpochsInv'
  <2>1. \A f \in Events : event'[f].picked = event[f].picked
    BY <1>1, <1>2
  <2>2. \A f \in Events : event'[f].epoch = context'.epoch => event[f].picked = event[e].picked
    BY <1>2, <1>7
  <2>3. context'.selection = event[e].picked
    BY <1>3
  <2>4. \A f, h \in Events \ {e} : event[h].epoch > 0 /\ event[f].epoch = event[h].epoch =>
            event[f].picked = event[h].picked
    BY DEF TurnsOK, EpochsInv
  <2>5. \A f, h \in Events : event'[h].epoch > 0 /\ event'[f].epoch = event'[h].epoch =>
            event[f].picked = event[h].picked
    BY <1>1, <1>2, <2>2, <2>4
  <2> QED BY <2>1, <2>2, <2>3, <2>5 DEF EpochsInv
<1>9. GivenInv'
  <2>1. ASSUME NEW g \in given
        PROVE  /\ g = <<g[1], g[2]>> /\ g[1] \in 1 .. context'.epoch
               /\ g[1] = context'.epoch => g[2] \in context'.selection
               /\ \A f \in Events : event'[f].epoch = g[1] => g[2] \in event'[f].picked
    <3>1. /\ g = <<g[1], g[2]>> /\ g[1] \in 1 .. context.epoch
          /\ g[1] = context.epoch => g[2] \in context.selection
          /\ \A f \in Events : event[f].epoch = g[1] => g[2] \in event[f].picked
      BY DEF TurnsOK, GivenInv
    <3>2. g[1] = context'.epoch => context' = context /\ g[2] \in event[e].picked
      BY <1>0, <1>3, <3>1
    <3>3. g[1] \in 1 .. context'.epoch
      BY <1>0, <1>3, <3>1
    <3> QED BY <1>1, <1>2, <3>1, <3>2, <3>3
  <2>2. \A f \in Events : event'[f].pc = "confirm" => event'[f] = event[f]
    BY <1>1, <1>2
  <2>3. context'.confirmed => context' = context
    BY <1>3
  <2> QED BY <1>0, <2>1, <2>2, <2>3 DEF TurnsOK, GivenInv
<1> QED BY <1>6, <1>8, <1>9 DEF TurnsOK, PhaseInv, AnswersInv

(* A transcript is given what its epoch has selected.                      *)
LEMMA DispatchKeepsTurns ==
    ASSUME MemoryInv, MemoryInv', Grows, TurnsOK, NEW e \in Events, DispatchPrompt(e)
    PROVE  TurnsOK'
<1>0. /\ event \in [Events -> Event] /\ EventOK(e) /\ event[e] \in Event
      /\ PhaseOK(e) /\ AnswerOK(e) /\ context.epoch \in Nat
      /\ Moves(e) /\ UNCHANGED context
  <2>1. Moves(e) /\ UNCHANGED context
    BY TurnMoves DEF Turn, MemoryInv, DispatchPrompt
  <2> QED BY <2>1 DEF MemoryInv, EventsInv, TurnsOK, PhaseInv, AnswersInv, ContextInv
<1>1. event[e].pc = "dispatch" /\ event[e].request = "ask"
  BY <1>0 DEF DispatchPrompt, At, EventOK
<1>2. /\ ~event[e].sent /\ event[e].plan = event[e].epoch
      /\ event[e].epoch \in {Quarantine} \cup 1 .. context.epoch
      /\ event[e].epoch = Quarantine => event[e].picked = {} /\ ~event[e].inject
  BY <1>0, <1>1 DEF PhaseOK, Late
<1>3. Block(e) \subseteq event[e].picked
  BY DEF Block
<1>4. given' = given \cup {<<Transcript(e), x>> : x \in Block(e)}
  BY <1>2 DEF DispatchPrompt
<1>5. \A g \in given' :
          g \in given \/ \E x \in Block(e) : g = <<Transcript(e), x>>
  BY <1>4
<1>6. /\ event'[e].pc = "confirm" /\ event'[e].picked = event[e].picked
      /\ event'[e].request = event[e].request /\ event'[e].epoch = event[e].epoch
      /\ event'[e].plan = event[e].plan /\ event'[e].inject = event[e].inject
      /\ event'[e].answer = event[e].answer
      /\ event'[e].used = {g[2] : g \in {h \in given' : h[1] = Transcript(e)}}
  <2> DEFINE used == {g[2] : g \in {h \in given' : h[1] = Transcript(e)}}
  <2>1. event' = [event EXCEPT ![e].sent = TRUE, ![e].used = used, ![e].pc = "confirm"]
    BY <1>2 DEF DispatchPrompt
  <2> HIDE DEF used
  <2>2. /\ event'[e].pc = "confirm" /\ event'[e].picked = event[e].picked
        /\ event'[e].request = event[e].request /\ event'[e].epoch = event[e].epoch
        /\ event'[e].plan = event[e].plan /\ event'[e].inject = event[e].inject
        /\ event'[e].answer = event[e].answer /\ event'[e].used = used
    BY <1>0, <2>1 DEF Event
  <2> QED BY <2>2 DEF used
<1>7. \A f \in Events \ {e} : event'[f] = event[f]
  BY <1>0 DEF Moves
<1>8. \A g \in given' :
          /\ g = <<g[1], g[2]>> /\ g[1] \in 1 .. context.epoch
          /\ g[1] = context.epoch => g[2] \in context.selection
          /\ \A f \in Events : event[f].epoch = g[1] => g[2] \in event[f].picked
  <2> TAKE g \in given'
  <2>1. CASE g \in given
    BY <2>1 DEF TurnsOK, GivenInv
  <2>2. ASSUME NEW x \in Block(e), g = <<Transcript(e), x>>
        PROVE  /\ g = <<g[1], g[2]>> /\ g[1] \in 1 .. context.epoch
               /\ g[1] = context.epoch => g[2] \in context.selection
               /\ \A f \in Events : event[f].epoch = g[1] => g[2] \in event[f].picked
    <3>1. event[e].epoch # Quarantine
      BY <1>2, <1>3
    <3>2. g[1] = event[e].epoch /\ g[2] = x /\ x \in event[e].picked
      BY <1>2, <1>3, <2>2, <3>1 DEF Transcript
    <3>3. event[e].epoch > 0
      BY <1>0, <1>2, <3>1
    <3> QED BY <1>2, <2>2, <3>1, <3>2, <3>3 DEF TurnsOK, EpochsInv
  <2> QED BY <1>5, <2>1, <2>2
<1>9. event'[e].used \subseteq event[e].picked
  <2>1. CASE event[e].epoch = Quarantine
    <3>1. Transcript(e) = e /\ e \notin Nat
      BY <1>2, <2>1, MemoryAssumption DEF Transcript
    <3>2. \A g \in given' : g[1] # e
      BY <1>0, <1>8, <3>1
    <3> QED BY <1>6, <3>1, <3>2
  <2>2. CASE event[e].epoch # Quarantine
    <3>1. Transcript(e) = event[e].epoch
      BY <1>2, <2>2 DEF Transcript
    <3> QED BY <1>6, <1>8, <3>1
  <2> QED BY <2>1, <2>2
<1>10. PhaseOK(e)' /\ AnswerOK(e)'
  BY <1>0, <1>1, <1>2, <1>6, <1>9 DEF PhaseOK, AnswerOK, Early, Late, Checks
<1>11. \A f \in Events : PhaseOK(f)' /\ AnswerOK(f)'
  BY <1>0, <1>7, <1>10, TurnStands DEF TurnsOK, PhaseInv, AnswersInv
<1>12. \A f \in Events : event'[f].epoch = event[f].epoch /\ event'[f].picked = event[f].picked
  BY <1>6, <1>7
<1>13. EpochsInv'
  BY <1>0, <1>12 DEF TurnsOK, EpochsInv
<1>14. ASSUME event'[e].inject, NEW p \in event'[e].picked
       PROVE  <<event'[e].epoch, p>> \in given'
  <2>1. event[e].inject /\ p \in Block(e) /\ event[e].epoch # Quarantine
    BY <1>2, <1>6, <1>14 DEF Block
  <2>2. Transcript(e) = event[e].epoch
    BY <1>2, <2>1 DEF Transcript
  <2> QED BY <1>4, <1>6, <2>1, <2>2
<1>15. given \subseteq given'
  BY <1>4
<1>16. GivenInv'
  <2>1. \A f \in Events : event'[f].pc = "confirm" /\ event'[f].inject =>
            \A p \in event'[f].picked : <<event'[f].epoch, p>> \in given'
    BY <1>7, <1>14, <1>15 DEF TurnsOK, GivenInv
  <2>2. context.confirmed => \A p \in context.selection : <<context.epoch, p>> \in given'
    BY <1>15 DEF TurnsOK, GivenInv
  <2> QED BY <1>0, <1>8, <1>12, <2>1, <2>2 DEF GivenInv
<1> QED BY <1>11, <1>13, <1>16 DEF TurnsOK, PhaseInv, AnswersInv

(* What the answer rests on is current, or something of it is newer now.   *)
LEMMA ConfirmingKeepsTurns ==
    ASSUME MemoryInv, MemoryInv', Grows, TurnsOK, NEW e \in Events, ConfirmInjection(e)
    PROVE  TurnsOK'
<1>0. /\ event \in [Events -> Event] /\ EventOK(e) /\ event[e] \in Event
      /\ PhaseOK(e) /\ AnswerOK(e) /\ context.epoch \in Nat
      /\ Moves(e) /\ UNCHANGED <<given, memory, scope>>
  <2>1. Moves(e) /\ UNCHANGED <<given, memory, scope>>
    BY TurnMoves DEF Turn, MemoryInv, ConfirmInjection
  <2> QED BY <2>1 DEF MemoryInv, EventsInv, TurnsOK, PhaseInv, AnswersInv, ContextInv
<1>1. event[e].pc = "confirm" /\ event[e].request = "ask" /\ event[e].answer # "draft"
  BY <1>0 DEF ConfirmInjection, At, EventOK, AnswerOK
<1>2. \A f \in Events \ {e} : event'[f] = event[f]
  BY <1>0 DEF Moves
<1>3. /\ event'[e].request = event[e].request /\ event'[e].picked = event[e].picked
      /\ event'[e].epoch = event[e].epoch /\ event'[e].plan = event[e].plan
      /\ event'[e].used = event[e].used /\ event'[e].inject = event[e].inject
      /\ event'[e].sound = Current(e) /\ event'[e].seen = event[e].seen
      /\ event[e].picked = {} => event'[e].answer = "draft" /\ event'[e].pc = "done"
      /\ event[e].picked # {} =>
             event'[e].answer = event[e].answer /\ event'[e].pc = "check_slack"
  <2> DEFINE sound == Current(e)
  <2>1. event' = [event EXCEPT
           ![e].sound = sound,
           ![e].answer = IF event[e].picked = {} THEN "draft" ELSE @,
           ![e].pc = IF event[e].picked = {} THEN "done" ELSE "check_slack"]
    BY DEF ConfirmInjection
  <2> HIDE DEF sound
  <2>2. /\ event'[e].request = event[e].request /\ event'[e].picked = event[e].picked
        /\ event'[e].epoch = event[e].epoch /\ event'[e].plan = event[e].plan
        /\ event'[e].used = event[e].used /\ event'[e].inject = event[e].inject
        /\ event'[e].sound = sound /\ event'[e].seen = event[e].seen
        /\ event[e].picked = {} => event'[e].answer = "draft" /\ event'[e].pc = "done"
        /\ event[e].picked # {} =>
               event'[e].answer = event[e].answer /\ event'[e].pc = "check_slack"
    BY <1>0, <2>1 DEF Event
  <2> QED BY <2>2 DEF sound
<1>4. /\ event[e].plan = event[e].epoch /\ event[e].used \subseteq event[e].picked
      /\ event[e].epoch \in {Quarantine} \cup 1 .. context.epoch
  BY <1>0, <1>1 DEF PhaseOK, Late
<1>5. /\ context'.epoch = context.epoch /\ context'.selection = context.selection
      /\ context'.confirmed => context.confirmed \/ Confirms(e)
  BY DEF ConfirmInjection, MemoryInv, ContextInv
<1>6. ASSUME ~Current(e)
      PROVE  scope.version > event[e].seen.version \/ \E p \in event[e].picked : Newer(p)
  <2>1. event[e].seen.version <= scope.version
        /\ event[e].seen.version \in Nat /\ scope.version \in Nat
    BY <1>0, StoresAreNumbers DEF EventOK, Event, MemoryInv, RowsInv
  <2>2. CASE scope.version # event[e].seen.version
    BY <2>1, <2>2
  <2>3. CASE scope.version = event[e].seen.version
    <3>1. PICK p \in event[e].used : p \notin Listed(ReadStores(event[e].seen))
      BY <1>6, <2>3 DEF Current
    <3>2. p \in event[e].picked /\ p \in Entries \X Nat
      BY <1>0, <1>4 DEF Event, Selections
    <3>3. ~Fresh(p, event[e].seen)
      BY <3>1, <3>2 DEF Listed, Fresh
    <3> QED BY <1>0, <1>1, <3>2, <3>3 DEF EventOK
  <2> QED BY <2>2, <2>3
<1>7. AnswerOK(e)'
  <2>1. \A p : Newer(p)' <=> Newer(p)
    BY <1>0 DEF Newer
  <2>2. CASE event[e].picked = {}
    <3>1. Current(e)
      BY <1>4, <2>2 DEF Current
    <3> QED BY <1>3, <2>2, <3>1 DEF AnswerOK, Checks
  <2>3. CASE event[e].picked # {}
    BY <1>0, <1>1, <1>3, <1>6, <2>1, <2>3 DEF AnswerOK, Checks
  <2> QED BY <2>2, <2>3
<1>8. PhaseOK(e)'
  BY <1>0, <1>1, <1>3, <1>4, <1>5 DEF PhaseOK, Early, Late
<1>9. \A f \in Events : PhaseOK(f)' /\ AnswerOK(f)'
  BY <1>0, <1>2, <1>5, <1>7, <1>8, TurnStands DEF TurnsOK, PhaseInv, AnswersInv
<1>10. \A f \in Events : event'[f].epoch = event[f].epoch /\ event'[f].picked = event[f].picked
  BY <1>2, <1>3
<1>11. EpochsInv'
  BY <1>5, <1>10 DEF TurnsOK, EpochsInv
<1>12. Confirms(e) => \A p \in context.selection : <<context.epoch, p>> \in given
  BY <1>1 DEF Confirms, TurnsOK, GivenInv
<1>13. GivenInv'
  <2>1. \A f \in Events : event'[f].pc = "confirm" => event'[f] = event[f]
    BY <1>2, <1>3
  <2>2. context'.confirmed => \A p \in context.selection : <<context.epoch, p>> \in given
    BY <1>5, <1>12 DEF TurnsOK, GivenInv
  <2> QED BY <1>0, <1>5, <1>10, <2>1, <2>2 DEF TurnsOK, GivenInv
<1> QED BY <1>9, <1>11, <1>13 DEF TurnsOK, PhaseInv, AnswersInv

LEMMA OnlyCrashResumes ==
    ASSUME [MemoryNext]_memoryVars
    PROVE  resumed' = resumed \/ \E e \in Events : Crash(e)
<1>1. ASSUME NEW e \in Events, Turn(e)
      PROVE  resumed' = resumed \/ Crash(e)
  <2>1. CASE List(e) \/ ResolveContext(e) \/ FreezePlan(e) \/ DispatchPrompt(e)
    BY <2>1 DEF List, ResolveContext, FreezePlan, DispatchPrompt
  <2>2. CASE AgentFails(e) \/ ConfirmInjection(e) \/ CheckSlack(e) \/ CheckScope(e)
             \/ CheckEntries(e)
    BY <2>2 DEF AgentFails, ConfirmInjection, CheckSlack, CheckScope, CheckEntries
  <2> QED BY <1>1, <2>1, <2>2 DEF Turn
<1>2. ASSUME NEW e \in Events, ReadSlack(e) \/ Observe(e) \/ Look(e) \/ Change(e)
      PROVE  resumed' = resumed
  BY <1>2 DEF ReadSlack, Observe, Look, Change
<1>3. CASE OperatorUpdates \/ OperatorForgets \/ ChannelChanges \/ UNCHANGED memoryVars
  BY <1>3 DEF OperatorUpdates, OperatorForgets, ChannelChanges, memoryVars
<1> QED BY <1>1, <1>2, <1>3 DEF MemoryNext

LEMMA TurnsStep ==
    ASSUME MemoryInv, TurnsInv, [MemoryNext]_memoryVars
    PROVE  TurnsInv'
<1>1. SUFFICES ASSUME ~resumed'
      PROVE  TurnsOK'
  BY DEF TurnsInv, TurnsOK
<1>2. MemoryInv' /\ Grows
  BY MemoryStep, RowsStep
<1>3. ~resumed
  BY <1>1, OnlyCrashResumes DEF Crash
<1>4. TurnsOK
  BY <1>3 DEF TurnsInv, TurnsOK
<1>5. ASSUME NEW e \in Events, ReadSlack(e) \/ Observe(e) \/ Turn(e) \/ Look(e) \/ Change(e)
      PROVE  TurnsOK'
  BY <1>1, <1>2, <1>4, <1>5, QuietStepsKeepTurns, ResolvingKeepsTurns, DispatchKeepsTurns,
     ConfirmingKeepsTurns, CommandsKeepTurns DEF Turn
<1>6. CASE UNCHANGED <<event, context, given>>
  BY <1>2, <1>4, <1>6, EventsStandKeepTurns
<1> QED BY <1>5, <1>6
     DEF MemoryNext, memoryVars, OperatorUpdates, OperatorForgets, ChannelChanges

(* validateMemoryLease looks at Slack, at the scope and at the entries one *)
(* after the other, while all of them may change: what it lets through was *)
(* current when the agent had answered.                                    *)
THEOREM StaleAnswersAreWithheld == MemorySpec => []StaleTextIsWithheld
<1>1. MemoryInit => MemoryInv /\ TurnsInv
  BY MemoryBegins
<1>2. MemoryInv /\ TurnsInv /\ [MemoryNext]_memoryVars => MemoryInv' /\ TurnsInv'
  BY MemoryStep, TurnsStep
<1>3. MemoryInv /\ TurnsInv => StaleTextIsWithheld
  BY DEF TurnsInv, AnswersInv, AnswerOK, StaleTextIsWithheld
<1> QED BY <1>1, <1>2, <1>3, PTL DEF MemorySpec

(* Then README.md keeps its word as it stands, where no turn is stopped    *)
(* and begun again: a resumed turn is all that run "resumed" refutes it    *)
(* with, whatever Slack, the channel or the agent do meanwhile.            *)
THEOREM StaleAnswersNeedARestart ==
    ASSUME "crash" \notin MemoryFaults
    PROVE  MemorySpec => []StaleTextIsNotPosted
<1>1. MemoryInit => ~resumed
  BY DEF MemoryInit
<1>2. ~resumed /\ [MemoryNext]_memoryVars => ~resumed'
  BY OnlyCrashResumes DEF Crash
<1>3. ~resumed /\ StaleTextIsWithheld => StaleTextIsNotPosted
  BY DEF StaleTextIsWithheld, StaleTextIsNotPosted
<1> QED BY <1>1, <1>2, <1>3, StaleAnswersAreWithheld, PTL DEF MemorySpec

(* Turns of one thread overlap, and the row says no more than its last     *)
(* epoch: memory that is left out of a prompt as confirmed was in an       *)
(* earlier one.                                                            *)
THEOREM ConfirmedMemoryWasGiven == MemorySpec => []ConfirmedWasSupplied
<1>1. MemoryInit => MemoryInv /\ TurnsInv
  BY MemoryBegins
<1>2. MemoryInv /\ TurnsInv /\ [MemoryNext]_memoryVars => MemoryInv' /\ TurnsInv'
  BY MemoryStep, TurnsStep
<1>3. MemoryInv /\ TurnsInv => ConfirmedWasSupplied
  BY DEF TurnsInv, GivenInv, ConfirmedWasSupplied
<1> QED BY <1>1, <1>2, <1>3, PTL DEF MemorySpec
=============================================================================
