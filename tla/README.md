# A formal model of Chickpea

Chickpea is a self-hosted Slack agent: a message arrives by webhook, becomes a
durable *run*, is worked on by a driver that may crash, stall or be retried, is
answered by a dispatched agent (Flue), and ends in one final Slack message.
This directory models the parts of it that have to be right under all of that:
how a message is admitted, the ledger of runs and the handler of a turn, and
beside them what a turn reads and what works without a message: channel memory,
scheduled routines, the subscription's tokens, the connections to MCP servers,
the sandbox cap, the owners of a team and its invitations.  Paths are relative to the repository; its sources are under `src/src/`.

| module | what it is | checked by | proved in |
|---|---|---|---|
| `RunPromise` | what a reader of a run may rely on (abstract) | | |
| `WorkLedger` | the ledger's two tables and every transaction on a run | `MCWorkLedger` | `WorkLedgerProofs` |
| `SlackAdmission` | how the deliveries of one Slack message become one turn | `MCWorkLedger` | `SlackAdmissionProofs` |
| `LedgerTurn` | driver, handlers, turn job, agent, presentation and Slack of one turn; uses `WorkLedger` as its ledger | `MCTurnOrRoutine`, `MCLedgerTurn` | `LedgerTurnProofs` |
| `RoutineOccurrence` | a scheduled routine and its occurrences under overlapping heartbeats | `MCTurnOrRoutine`, `MCRoutineOccurrence` | `RoutineOccurrenceProofs` |
| `ChannelMemory` | the memory of a channel, and the turns that are prompted with it | `MCStores` | `ChannelMemoryProofs` |
| `CredentialRefresh` | the rotating tokens of the OpenAI subscription | `MCStores` | `TokenProofs` |
| `McpConnections` | one connection to an MCP server: its profile's row, its secrets and their clean-up | `MCStores` | `TokenProofs` |
| `OwnerReservation` | changes to the members of a team, over two stores | `MCStores` | `TeamProofs` |
| `Invitations` | the join links of one address, over two stores | `MCStores` | `TeamProofs` |
| `SandboxSessions` | the monthly cap on sandbox sessions | `MCStores` | `TeamProofs` |
| `MCStores` | the six above in one specification | itself | `StoresProofs` |

Some configurations have more than one subject: a variable `subject` says
which one a behaviour is about, and the others stand still, so that instances are
added up and not multiplied.  `MCStores` has six stores, `MCWorkLedger` the ledger
and the admission of a message, `MCTurnOrRoutine` a turn and a routine: what comes
to an end (`ends`), and workers beside each other (`beside`).

`tlc -config MCWorkLedger_ledger.cfg MCWorkLedger` runs one instance,
`tlapm WorkLedgerProofs.tla` checks the proofs of one module.

## 1. Inventory of the system

**Modelled, all or in part**

* **Work ledger** (`work/store.ts`, `migrations.ts`, `types.ts`).  State: `runs`
  (status, disposition, delivery, response, lease, fencing token) and
  `run_executions` (model invocation, outcome, route), with CHECK constraints.
  Operations: admit, claim (with expiry reconciliation), renew, release,
  prepare input, create/route/invoke/settle execution, record response,
  start/finalize delivery, settle without delivery, require recovery,
  quarantine.  Hard: any worker may present any token at any time.  Right when:
  a live lease is never taken, a conversation is worked on in order, no message
  is offered while another may still arrive, what is over stays over.
* **Durable run driver** (`work/driver.ts`).  Claims a batch, runs one handler
  per run under a renewal timer, translates outcomes into releases.  Hard: one
  failed renewal ends the timer but not the handler; a throwing release rejects
  the whole batch while its other handlers go on.
* **Work lifecycle and model gate** (`work/lifecycle.ts`,
  `work/model-invocation.ts`).  The handler's writes to the ledger, in *enforce*
  mode for ledger runs; after a failed write it is silent.  The gate runs in
  the agent, before its first model call.
* **Ledger turn handler** (`slack/ledger-turn-driver.ts`, `slack/run-turn.ts`).
  One claim's work: load the job, resolve the identity, ask the agent or react,
  deliver, or redeliver what is persisted; and how a turn that threw is
  classified.  Right when: one final, true verdicts, an end.
* **Turn jobs and Flue dispatch** (`slack/turn-jobs.ts`, `flue-dispatch.ts`).
  Envelope, receipt and settlement of the submission, attempts, tombstones.
  Right when: a submission paid for is read, not repeated or thrown away.
* **Run presentations** (`slack/run-presentations.ts`,
  `agent-view-presentation.ts`, `web-client-presenter.ts`).  A compare-and-set
  row per run that remembers how far its Slack stream got.
* **Relay and deployment targets** (`slack/node-turn-relay.ts`,
  `cloudflare.ts`).  When a drain happens: Node's 30 s timer, or the alarm of
  a Durable Object that is set again under conditions.
* **Run submission and authority** (`work/submit-run.ts`, `authority.ts`):
  which lane owns a run, as a constant.

* **Slack ingress and claims** (`channels/slack.ts`, `slack/claim-store.ts`).
  State: claims of event, message and decision with a TTL, and the turn job.
  Hard: duplicate and fanned-out deliveries, detached from the answer to Slack;
  a release racing a redelivery.  Right when: one message, one turn; and no
  message is held by claims nobody works for.
* **Routines** (`routines/store.ts`, `execution.ts`, `delivery.ts`,
  `admission.ts`, `scheduler.ts`).  State: the routine, its occurrences, each
  with admission lease, envelope, receipt, settlement and delivery.  Hard:
  heartbeats overlap and stop anywhere, a member pauses or edits meanwhile,
  Slack's answer is lost.  Right when: one message per occurrence, checkpoints
  stay, a stopped schedule starts nothing, every occurrence ends.
* **Channel memory** (`memory/store.ts`, `service.ts`, `scope.ts`,
  `runtime.ts`).  State: entries with versions, generations of a channel that
  was private, forget challenges, what a thread's transcript was given.  Hard: an
  entry forgotten, or the channel converted, between prompt and delivery.
  Right when: what was sealed stays sealed, no answer is posted whose memory
  changed.
* **OpenAI subscription credentials** (`openai-subscription/`).  State: token
  bundle, status, refresh lease, pending authorization, one setting each.  Hard:
  two isolates rotate one refresh token; a 401 for a token replaced meanwhile.
  Right when: no token that is needed is lost, what was disconnected stays away.
* **MCP OAuth and the configuration store** (`config/mcp-oauth.ts`,
  `mcp-secrets.ts`, `store.ts`, `profile-mcp.ts`, the admin's routes for
  them), of which one connection of one profile.  State: the profile's row; in
  the settings client, pending authorization, tokens, refresh lease, bearer, and
  a marker with the names of what is to be deleted.  Hard: row and settings are
  changed one after the other; authorizations, refreshes, edits and deletions
  run at once.  Right when: no secret outlives its connection unnoticed, tokens
  are dropped only when their authorization has ended.
* **Identity** (`identity/store.ts`, `auth/password-team.ts`,
  `admin/team-api.ts`), of which changes to members, and invitations.  State:
  accounts, roles, memberships and invitations in Better Auth, suspensions and
  auth operations in the identity store.  Hard: no transaction spans both; two
  admins invite one address, a link is revoked while it is used.  Right when: an
  active owner remains, a link that was handed out works until it is used,
  revoked or overdue, and a revoked one admits nobody.
* **Sandbox** (`sandbox/session-cap.ts`, `lifecycle.ts`), of which only the
  cap.  Right when: the cap holds, and a turn is counted once.

**Not modelled**

* **Routine schedules** (`routines/schedule.ts`), **memory text handling**:
  calendar arithmetic on the host's `Intl`, parsing, ranking and formatting.
* **Model catalog** (`model-catalog/`), **API OAuth** (`config/api-oauth.ts`,
  which repeats what `mcp-oauth.ts` does), the rest of the **configuration
  store**, **owner setup, password resets, legacy invitations and sessions**
  (`auth/`, `identity/store.ts`): rows changed by compare-and-set.
* **Assistant status** (`slack/status-registry.ts`): best-effort status lines.
* **Usage**, **admin pages and APIs**: accounting rows, rendering, parsing.
* **State backends** (`state/`): taken to be what they are, one serial
  transaction at a time.

Most of the repository's lines are of the last kinds: `admin/page.ts` and
`admin/routes.ts` render pages and parse requests, the common-password list and
other tables are data, and provider, presentation and artifact code formats what
no property here tells apart.

**How they interact.**  Ingress admits a run, its turn job and its presentation
in one transaction and wakes the relay.  The relay drains: the driver claims
runs from the ledger and starts handlers; a handler writes to the ledger through
its lifecycle, to the job, and to the presentation, each a transaction of its
own; it dispatches to Flue under the job's idempotency key.  The dispatched agent
calls back into the ledger through the model gate.  Slack is reached only by
handlers.  Nothing is atomic across these stores, which is the whole problem.

A heartbeat of the scheduler plays for a routine the part that ingress and
relay play for a message, with tables of its own.  Channel memory is read into
the prompt of a turn and looked at again before its answer is delivered; the
subscription's tokens are read by whatever calls a model, those of an MCP
connection by whatever uses its tools; a sandbox reserves its session at its
first operation; owners and invitations are changed by admins.  These share no state with one another, which is
why their models are separate.

## 2. Plan

1. *Done*: `RunPromise`, `WorkLedger`, `SlackAdmission`, `LedgerTurn`,
   `RoutineOccurrence`, `ChannelMemory`, `CredentialRefresh`, `McpConnections`,
   `OwnerReservation`, `Invitations`, `SandboxSessions`, with proofs about all
   of them.
2. *Left*: `RunPresentation` (appends, corrections, cooldown, repair), then
   `LedgerTurn` with progressive streaming on; owner setup and password resets,
   which are operations like those of `Invitations`; the model catalog's lease.
3. *Theorems left*: that every call `LedgerTurn` makes is a step of `WorkLedger` (its
   `Throws` is stated with ENABLED, which the provers do not handle; what a turn
   does to its row is shown to keep `RunPromise` instead), and that heartbeats
   which do not overlap never refuse a receipt (finding 5).

## 3. WorkLedger

`run[r]` is a row of `runs`, `exec[r][f]` the execution created under fencing
token `f`, `now` the clock.  Every public method of the store is one database
transaction, hence one action of the same name; a method that throws changes
nothing and is no step.  The store is checked against *any* caller: every
action takes an arbitrary token, so a worker replaced long ago takes part in every
behaviour.  The CHECK constraints are part of the actions (`Commit`,
`CommitExecution`): a statement that breaks one is rolled back.

* `Runs` are numbered by (`created_at`, `id`), the order of the claim's
  `NOT EXISTS`.  `AdmitInCreationOrder = FALSE` lets admissions commit in
  another order, as they can: the webhook stamps `created_at` before it awaits.
* A delivery attempt id is a digest of run, token and method, so an attempt is
  named by its token; the number of an execution is its token.
* Responses are pairs of an answer and a render; bodies are model values.
* Left out: works, bindings, contents, revisions (insert-once), retention, and
  the dispositions handled like `skipped`.

**Runs** (over `MCWorkLedger`, whose behaviours are either about the ledger or
about `SlackAdmission` of section 4)

| run | instance | shows |
|---|---|---|
| `ledger` | ledger run 1 alone with 2 claims, or legacy run 3 alone with tokens up to 2, both with a clock to 4 and 2 answers × 2 renders (symmetric); or runs 1 and 2 of one conversation, any commit order, one claim each and two ticks | what is parked is not revived, what was approved is what is sent and a pending delivery keeps its attempt (`ApprovedAnswerStable`), evidence stays and belongs to its fence, no live lease is taken, a lease can be reclaimed, a younger run waits; and the refinement `KeepsPromise` |
| `reordered` | the same | `OneLeasePerOrderingKey` is **violated** (finding 1) |

The three instances are one run: the constraint `AloneOrBriefly` keeps to them.
Two claims are what a stale and a current worker need; a third adds workers that
are stale in the same way.  Four ticks and a lease of one tick let a lease
be renewed, expire, and be taken and expire again.  For two runs one claim each is
enough, for the order is about the first.  `AdmissionOrderRespected` and
`LeaseIsReclaimable` together give exclusion for runs admitted in order: the
older one must be settled, and a settled run has no lease.

### What is proved

`WorkLedgerProofs` holds for every set of runs, ordering of keys, lease length,
answer and render, and for every `MaxFence` and `MaxTime` (so for any number of
claims and any time).

* `TypeCorrectness`, `LeasesAreReclaimable`: from the inductive invariant
  `LedgerInv`.  Neither is inductive by itself.  `RowInv` adds the CHECK
  constraints, that an unadmitted row is the initial one, and that nothing has
  been delivered before a response exists; without the last, `prepareRunInput`
  could leave a lease on a run with a verdict.
* `AdmissionOrder`: `[]AdmissionOrderRespected`.  Needs that admission numbers
  of a conversation are distinct and grow, that fences and settled runs do not
  go back, and that a claim looks at the table *after* reconciliation, which
  settles nothing.
* `OneLeaseInCreationOrder`: with `AdmitInCreationOrder`, no two runs of a
  conversation are leased at once, so the race of finding 1 is the only way to it.
  `CreationInv` says that admission numbers follow creation; `RowInv`, that a lease
  is only on a reclaimable row that has been claimed.  The younger of two leased runs
  was claimed when the older one was settled, and a settled run has no lease.
* `LedgerKeepsPromise`: `Spec => Promise!Spec`, so one run's row, read through
  `PhaseOf` and `AnswerOf`, behaves as `RunPromise` says.  Each action moves at
  most one row, by one move of the promise; only reconciliation moves several,
  all of them to "parked", which is `RunPromise!Park`.

* `LiveLeasesStand`, `ParkedRunsStayParked`, `ApprovedAnswersStand`,
  `InvocationsStayOnRecord`: the action properties of the run `ledger`, each by
  the actions that touch what it speaks of.  A response is looked at through
  `RowKeeps`, one relation between a row and its successor; executions through
  `ExecutionKept`.
* `EvidenceFollowsFence`: a delivery starts on the strength of a response alone, so
  `EvidenceInv` adds that every response, sent or not, has an execution behind it.

The assumptions are the named ASSUMEs of `WorkLedger` (runs are numbers, legacy
runs are runs, lease, bounds); TLC evaluates them in every run.  The argument
is one lemma per group of actions on rows, one on executions, and per action one
leaf that names what it needs.  With these every property of the run `ledger`
that is about the ledger is a theorem.

## 4. SlackAdmission

One message, the deliveries Slack makes of it, and the relay that works on its
row.  A step is one call to the store, or what the code decides between two.

| variable | stands for |
|---|---|
| `target`, `candidate` | Node or Cloudflare; is it an ambient message that is classified first |
| `claims` | `slack_claims`: the two events, the message, its decision; *old* past two hours |
| `job`, `runLane` | the row of `turn_jobs`, and the lane of its run |
| `intake[d]` | one `processSlackEvent`: `Receive`, `LearnTruth`, `ClaimDecision`, `Classify`, `AdmitCanonical` or `ClaimSeparately`, `Enqueue`, and each way to give up |
| `relay` | the drain or the alarm: `BeginAttempt`, `Dispatch`, `EndAttempt`, and each target's way to give a message back |

*Instance* (in the run `ledger`): three deliveries of two events, on either
target, one mishap (a store that fails, a classifier that throws, a crash of a
delivery or of the process), two hours that pass once, at any moment.  Three
deliveries are an original, its sibling and a redelivery; a fourth repeats one
of them.  `WithinHorizon` stops when the tombstone of a row has been purged:
Slack retries for about an hour (`slack/state-limits.ts:1`), a tombstone stays
for two.

* `OneTurnPerMessage`: claims alone do not give it, for they are released when a
  turn fails early.  It rests on the row, which is inserted under the message's
  name, remembers its dispatch, and is discarded only before it.
* `NoMessageIsStranded`: while the claims keep other deliveries away, a delivery
  is at work or a row exists.  `excuse` names the five exceptions, which are
  observations in section 8.

*Proved*: `OneTurnForEachMessage`, for any number of deliveries, attempts and
mishaps.  `AdmissionInv` adds that the row counts the dispatches (`CountInv`),
that what the relay works on stays pending and of its lane while it works
(`RelayInv`), and that who asks for the canonical admission has chosen a lane.
`EveryMessageHasSomebody`: each claim that is held is watched (`WatchInv`) by a
delivery that will release it or make a row, or by a row that stands; a row
about to be discarded has somebody who gives its claims back first.  The proof
did not go through for a delivery that outlives its own claim on the decision; TLC
then showed the way there with more deliveries, and `slow` names it.

*Left out*: thread starts, participation, active work, acknowledgement, rows
with pending cleanup, the 30-day backstop, backoff of the relay.  On Cloudflare
the alarm is not modelled: a pending row is looked at sooner or later.

## 5. LedgerTurn

One turn of the ledger lane, with everything that works on it.  The ledger is
`INSTANCE WorkLedger` over the same `run` and `exec`, so a handler's ledger call
*is* the transaction of section 3: `Commits(A)` when its guard holds, `Throws(A)`
when it does not (`Refused`), and what the code does after the throw is the rest
of the action.

| variable | stands for |
|---|---|
| `run`, `exec` | the ledger's tables, this run only |
| `job` | the row of `turn_jobs`: intent, attempts, observation, receipt, settlement, status |
| `view` | the presentation: fence and stream state.  The pair serves as `projection_version`: of the transitions modelled each changes one of the two and none leads back.  The version also counts title intents and progressive eligibility, which are left out |
| `handler[f]` | the handler of the claim with token `f`: where it stands, what it read (`snapshot`, `seen`), whether its lifecycle is silent (`usable`) and its renewal timer alive (`renewing`) |
| `drain` | whether a drain is due, and the claims the current one awaits |
| `flue` | the one submission the idempotency key admits |
| `posts` | the final messages Slack shows |
| `faults` | how many faults have happened |

A step of a handler is what the code does between two awaits that others can get
between: one store call or one Slack call and the branch on its result.
Groups: `Prepare` (load, identity, attempt, `prepareExecution`), `AskAgent`
(`promptSlackThreadAgent`), `Deliver` (`SlackAgentViewPresentation.finalize` or
the post and reaction of the presenter, with the lifecycle's `beforeDelivery`
and `afterDelivery`), `DeliverPersisted` (a claim whose run was
`response_ready`), `Classify`, then `Mark` (the job) and `Release` (the
driver).  `PassModelGate` and `SubmissionEnds` are the agent.

*Faults* are in `FaultKinds`, each counted against `MaxFaults`: `crash` of the
process at any step; `stall`, a process held up beyond its lease, or a renewal
that fails; `orphan`, another run's release rejecting the drain; `others`,
other runs filling the batch; `identity`; `slack`, a call rejected or its answer
lost, with or without effect; `transport`, a dispatch or read interrupted;
`sandbox`.  Time is relative: a lease is fresh until `LeaseExpires`, which waits
while its handler renews; `Stall` does not.

**Simplified, and why it does not matter here.**  Slack titles, checklists,
acknowledgments, usage, the memory lease and active-work flags change none of
the variables.  The emoji fallbacks of a reaction and its text fallback are one
call with three results.  Reading run and presentation in
`deliverPersistedResponse`, and the best-effort transitions after it, are one
step each.  A plain ordinary error of a store counts as a crash.  **Left out,
and it may matter**: progressive streaming and native tasks
(off unless switched on, `slack/behavior-settings.ts:73`), the continuity notice
and instance conflicts of a conversation's first dispatch, operators' actions on
the job, the legacy relay (of which `SlackAdmission` has what concerns a row).

### Runs

| run | faults | fence | shows |
|---|---|---|---|
| `ends` (`MCTurnOrRoutine`; its other subject is in section 6) | 2 of crash, identity, slack, transport, others | 4 | on Node, with agent or reaction, with or without a credential route: `AtMostOneFinal`, `FinalsAreAnnounced`, `VerdictIsTrue`, `DoneJobIsSettled`, `CompletedAnswerIsKept`, `TurnIsDecided` |
| `beside` (likewise) | 3 of stall, orphan, others, slack | 2 | two handlers of one turn at work together: `RecordedFinalsStand`, as it is stated and proved |
| `unrecorded` (this and the next two: `MCLedgerTurn`) | 2 of the same | 2 | `NoUnrecordedFinal` is **violated** (finding 2) |
| `unattended` | 2 of stall, identity | 4 | on Cloudflare, `LostLeaseIsReconciled` is **violated** (finding 3) |
| `sandbox` | 2 of the first row and sandbox | 4 | `CompletedAnswerIsKept` is **violated** (finding 4) |

*Bounds.*  A fault costs at most one claim, so `MaxFence = MaxFaults + 2` never
binds where there are no orphans (`ends` would fail `TurnIsDecided` if it did: a
run that cannot be claimed is not decided).  Two faults are what the classical
accidents need: a lost answer and a crash, a rejection and a crash, two crashes.
The real `MAX_TURN_ATTEMPTS` is reached with two attempts instead,
`MAX_POST_DISPATCH_ATTEMPTS` is not reached.  The turn of `beside` is truly bounded: one
takeover, three faults: a stall and an orphan to put two handlers beside each
other, and one for Slack.  That is too little to see a third claim adopt what an
outdated handler posted (an observation in section 8), which takes four faults;
the proof met it, and is for any number of claims and faults.  In `ends` nothing
may deadlock but a decided turn (`TurnRests`); the other runs do not look.

*Fairness* (`FairSpec`), and where the code earns it: a handler's next step is
taken (`Handle(f)`: awaits return, Slack and Flue calls have timeouts); a drain
that is due claims or finds nothing (`Claim`, `ClaimNothing`: on Node
`setInterval` every 30 s, `node-turn-relay.ts:70`; on Cloudflare only while
`drain.due`, which follows the alarm's own conditions, `cloudflare.ts:1171` and
`1471`, and its repetition when it threw); the submission passes its gate and
ends (Flue, external); the clock advances past an abandoned lease.  No fairness is
assumed of faults, and each action group is weakly fair only.  Handlers that
a rejected drain has left behind are covered like others: the process lives.

### What the properties mean

* `AtMostOneFinal` / `RecordedFinalsStand`: Slack shows one final message.  With
  one handler at a time it holds outright.  With orphans it holds for the messages
  the ledger was asked about, and so does `NothingIsShown`; finding 2 is about the
  others.  `DeliveredIsShown` holds unless one of those others is there: it may pass
  for the one the row speaks of.
* `FinalsAreAnnounced`: at the moment Slack may first see a message, the row
  says "pending" under the sender's own attempt.  This is what makes a crash
  between Slack and ledger recoverable.
* `VerdictIsTrue`: "delivered" names an attempt Slack shows with the approved
  text; "failed", "not ready" and "not applicable" mean nothing recorded is
  visible.  "unknown" and "pending" promise nothing.
* `DoneJobIsSettled`: a job is closed after its run.  It is checked where no handler
  outlives its drain, and is false beyond that: the tombstone is keyed by the job,
  not by the claim, so a replaced handler closes the job its successor works on
  (an observation in section 8).  Neither it nor `VerdictIsTrue` speaks of
  overlapping handlers; what the rows say then is `RecordedFinalsStand`.
* `CompletedAnswerIsKept`: no failure notice for a submission that completed.
* `TurnIsDecided` (over `IsDecided`): for ever settled or parked for an operator, and nobody at work.

### What is proved

`LedgerTurnProofs` holds for any number of claims, attempts and faults.  The first
two theorems are for every kind of fault, orphans included.

* `TypeCorrectness`.
* `RecordedFinals`: `[]RecordedFinalsStand`.  `FinalsInv` says what a message that
  was asked for rests on: the row names its sender's attempt, which is pending,
  delivered or unknown, with the text that is shown, and that sender stands behind
  its message (`PostsInv`); who is about to send one has the row's attempt and its
  response (`HandlerInv`); and nothing reads delivered, in the row or the
  presentation, while Slack shows nothing (`ShownInv`).  So a second message
  would be of the attempt that has sent one, and its sender is past it.  The ledger
  does the rest: a response may be replaced and an attempt start only where
  nothing can have been sent.

The others suppose `OneAtATime`: among the faults are neither "stall" nor "orphan",
so no handler outlives its lease or its drain.  It is an assumption on the constant
`FaultKinds`, and the run `turn` meets it.  It is needed: `unrecorded`, where the
two may happen, violates `NoUnrecordedFinal`, and with it two finals of one turn
can be seen.

* `OneFinal`, `TrueVerdict`, `SettledWhenDone`, `AnnouncedFinals`: the properties of
  the run `turn`, for all bounds.  The invariant is `AloneInv`: every handler at
  work holds the row's own fence and, until the run is over, a lease that does not
  run out (`Fit`); and where it stands tells what the row and its execution say of
  it (`Works`): its execution is pending until the result is settled, its attempt
  is pending from the start of a delivery until the verdict, a job is marked done
  only when the run is settled.  So no call of its own is refused on the way,
  no lifecycle is silenced (`NeverSilenced`), every message is offered, and a run is
  claimed only when nobody works on it (`ClaimKeepsAlone`).
* `KeptAnswers`: if besides "sandbox" is no fault that happens, a completed
  submission is not answered with an apology.  `Reading` says that what a
  handler read of the job is still true while it acts on it, and that the result it
  is to settle is the submission's; `NoticesInv` that before a submission was
  refused no handler, row or message has the text of an apology.  The assumption is
  needed: see finding 4 and the run `sandbox`.
* `NothingUnrecorded`: `[]NoUnrecordedFinal`, which the run `unrecorded` refutes
  without the assumption.  So finding 2 takes a handler that outlived its lease or
  its drain, and nothing less.

`TurnKeepsPromise` is for every kind of fault again: the turn's row, read as in
`WorkLedger`, starts open and moves only as `RunPromise` allows, or not at all.  A
handler's step is a transaction of the ledger, or the same row (`RowMoves`), and
each transaction is a move of the promise (`HandleKeepsPromise`); what happens from
outside is a claim, a reconciliation or no business of the row's
(`OthersKeepPromise`).  So whatever `LedgerTurn` says a handler does, a reader of the
run sees what section 3 promises.

What a handler does to the ledger is looked at through one lemma per transaction;
how it moves, through one lemma per form of step (`Goto`, `Conclude`, `Become`).
Steps from which no message and no verdict follow are covered together
(`CalmKeepsFinals`), and so are those from outside (`OutsideKeepsFinals`).  That a call
is refused (`Refused`) is never used, for ENABLED is beyond the provers: the
proof holds if any call may throw at any time.

## 6. RoutineOccurrence

One routine and its occurrences.  Times are distances from now, which a `Tick`
lowers; a heartbeat's own clock stands still while it looks for work (`lag`).

| variable | stands for |
|---|---|
| `routine` | its row: kind, state, next slot, failures in a row, deleted |
| `occ[r]` | an occurrence and its one admission: status, deadline, lease, envelope, receipt, settlement, delivery |
| `beat[h]` | a heartbeat: cleanup, claim, list, then `execute` from the prompt to the end, with what it read |
| `agent`, `shown` | the submission under the occurrence's key, and the messages in the channel |

The store's methods are one action each; what one does to the routine at the
end of an occurrence (`Complete`, `CountFailure`, `PauseForUnknownOutcome`) is
part of it.  Faults: a crash of a heartbeat at any step, lost access, an agent
that fails, a Slack call rejected or unanswered, a schedule that cannot be read.

| run | instance | shows |
|---|---|---|
| `beside` (`MCTurnOrRoutine`; its other subject is in section 5) | two heartbeats, two occurrences, every fault, two prompts | one post per occurrence, which is as recorded (`OnePostAsRecorded`), `CheckpointsStay` (what was submitted included), and that a full streak, an end with unknown effects or an abandoned delivery stops the schedule (`FailureStopsSchedule`) |
| `ends` (likewise) | one occurrence, one action of a member, heartbeats that come late | `StoppedStartsNothing`, `EveryOccurrenceEnds` |
| `overlap` (this and the next: `MCRoutineOccurrence`) | two heartbeats, no faults | `OverlapIsHarmless` is **violated** (finding 5) |
| `unproven` | one heartbeat, Slack calls that fail | `UnprovenPausesAtOnce` is **violated** (finding 7) |

`FailureStopsSchedule` is what the store does, `UnprovenPausesAtOnce` what the
README promises: the first asks for the pause when the *occurrence* ends as
unknown, or the cleanup settles a delivery nobody reported on; the second also
when a heartbeat itself reports that it does not know.

*Bounds.*  Two heartbeats are the one that outlived its lease and the one that
replaced it.  In `beside` the second occurrence is followed only if nothing was
prepared of the first, and by one heartbeat (`SecondIsPlain`): what it adds is the
streak, which two failures complete instead of three.  In `ends` the second heartbeat only
finds work, and beside the first only until an occurrence is admitted
(`OverlapIsEarly`); a slot, a grace and a lease last a tick or two.  *Fairness*: the
clock goes on (strongly fair, for heartbeats hold it up while they look), cron
starts heartbeats every minute, and an isolate goes on or is ended.  Nobody owes
the agent's answer; `EveryOccurrenceEnds` rests on deadlines.

*Proved*, for any number of heartbeats, occurrences, slots and edits, any grace,
lease and streak, every fault (a heartbeat's clock lags behind by no more than
the grace, `RoutineSaturation`): `RoutineTypes`, `OneMessagePerOccurrence`,
`CheckpointsAreKept`, `StoppedScheduleRests`, `FailuresStop`.  One invariant,
`RoutineInv`, carries them all; TLC checked it on the instances before.

* What the tables hold (`DbInv`): an occurrence that has not begun has no
  checkpoint (`Tidy`), one at most is begun, an active routine's streak is not
  full (`StreakInv`).  For the last, `OnceInv` is needed: what completes a
  routine, or edits it, could otherwise bring "active" back beside a full streak.
* What a heartbeat read is still so (`BeatsInv`, `Carries`): envelope, receipt
  and settlement in its hands are those of the row, for none of them is rewritten.
  The agent's prompt is the frozen envelope (`AgentInv`).
* Who posts holds the delivery (`DeliveryInv`, `Holds`, `HolderInv`): a delivery
  is claimed once, its holder is one heartbeat, and a message appears only
  between claim and verdict.

Every action moves the rows by `RowStep`, one relation that keeps what is kept,
so most actions are proved by showing that relation.  `CleanupRetention` runs over
the occurrences one after the other, a recursive function (`Reconcile`); that it
keeps the invariant is shown by the least row at which it would not (`NatMin`,
`ReconcilesFully`), which needs no induction principle.  `EveryOccurrenceEnds`
stays with TLC.

*Left out*: revisions, provenance and confirmations, the canonical run, skipped
rows but for their effect, other routines (capacity is a deferral that may
happen), 365-day retention.

## 7. The stores: memory, credentials, connections, owners, invitations, sessions

Six modules that share nothing; a behaviour of `MCStores` is about one of them
and their instances are added up.  The run `stores` checks all their properties,
`resumed` the one that is **violated** (finding 6).  Requests are symmetric: the
symmetry swaps the two actors of every module at once, and the memory's entries.

**ChannelMemory.**  Two events of a thread, two entries, two changes or
faults from outside (Slack converts or archives the channel, a lookup fails, the
agent fails, a crash).  `ReadSlack` and `Observe` are two steps, so what was heard
is stored late or in another order.  A turn selects, resolves its context,
freezes, dispatches, confirms and checks its lease in three reads, with other
events between any two.
`OnlyCurrentGenerationOpen`, `SealedIsFrozen`: sealing is for good, also against
a command that resolved its scope before.  `StaleTextIsWithheld`,
`ConfirmedWasSupplied`: what is posted rests on memory that was valid at the
check, what is left out of a prompt was given before; both except a turn that
was `resumed`.  `ForgetWasConfirmed`: a confirmation is for the version that was
shown.  *Proved*, for any number of events, entries and interferences, all five:
`ClosedGenerationsAreSealed`, `SealedStoresStandStill`, `ForgettingIsConfirmed`,
`StaleAnswersAreWithheld`, `ConfirmedMemoryWasGiven`.  `StaleAnswersNeedARestart` is
the other side of finding 6: where no turn crashes, none is `resumed`, and what is
posted never rests on memory that has changed.  The last two of the five are seen in no
single state.  `TurnsInv` says that the events of one epoch have selected
what the context row selected when it opened it (`EpochsInv`), that a
transcript was given nothing else (`GivenInv`), and that an entry in the version
an event has selected is as it was then, for a change makes a newer version
(`Newer`, `Fresh`): a lease that still holds has held all the time.  A turn without a
scope (`Quarantine`) is a number of its own among epochs and plans, so that it
can be compared with them.  *Left out*: visibility times, actors, other channels, expiry and restore,
quotas, challenge expiry, replays of one request, import reports, audit, DMs.

**CredentialRefresh.**  Two isolates, two grants with two rotations, one upset (a
crash, a slow or lost call, another account, a late 401, a revocation).  A patch of
a setting is a compare-and-set; of the status, `rewritten` keeps whose view a
later write has overtaken (`updatedAt` and the rest of the text make every write
another one).  `NoNeedlessReconnect`, `OnlyRefusedTokensGo`,
`DisconnectedStaysAway`.  *Proved*: `DisconnectedGrantsStayAway`, from an
invariant by which no authorization under way is for a disconnected grant, one
not stored yet is for a grant nobody else knows and OpenAI was asked for, and a
refresh brings tokens of the grant it began from; `ReconnectsAreNeeded` and
`ReplacedTokensAreSafe`, from `RefreshInv`: unless something troubled it, who
refreshes the stored tokens holds the lease (`LeaseInv`), OpenAI takes the
tokens stored, or those a winner is about to store (`LiveInv`), and a refusal is
of tokens that are gone or of a grant that is over (`RefusalInv`).
*Left out*: encryption and the wire protocol.

**OwnerReservation.**  Three members, two requests.  A request that takes an active
owner away lists owners, checks them, reserves (suspends the target), asks
Better Auth and lifts the suspension.  `ActiveOwnerRemains`, what a test and the store's
own error promise, is **violated** in the run `ownerless` (two members, finding 8).
What the reservations do achieve is `CurrentViewsKeepAnOwner`: the step that takes
the last active owner away is one of a request which, at that step, sees a member
otherwise than the stores do (`Outdated`), so two requests with current views never
do it between them.  That is checked in `stores` and *proved*, for any team
(`ReservationsKeepAnOwner`): at
every point of its way a request has established what the next call relies on
(`RequestInv`).  *Left out*: permissions, sessions and their revocation, requests
that set role and status together (the page sends one, `admin/page.ts:3187`).

**McpConnections.**  One connection to one server, two requests at a time and three in
all (an authorization the connection begins with counts as one), one authorization
and one rotation beside it, one mishap: a request stops, is held up beyond its
lease, loses an answer, or the server ends an authorization.  A request is the
start of an authorization, its callback, a resolution of the access token, or
what an admin does to secrets, connection and profile; each read, each setting
and each call to the server is a step of its own.
`LeftoversAreNamed`: when the connection is gone, each of its secrets is named in the
marker, for the next deletion to finish, or in the hands of a request that will
remove it; except what `abandoned` says: a writer stopped before it looked at
the row again, or outlived its profile into a new one of the same name.
`RefusedHasEnded`: tokens dropped after a refusal are of an authorization the
server has ended, not the victims of another refresh; except when `excused`: a
rotation's answer was lost, a lease outlived, or a lease cleared with the secrets
before its holder had read them (an observation in section 8).
*Proved*, for any number of requests, servers, authorizations, rotations and
mishaps: `LeftoversCanBeFound`, `OnlyEndedAreRefused`.  `NamesInv`: while the
profile stands the marker names every secret that is there, and nobody deletes
what a marker names (`NamedWhileThere`); when it is gone each secret is named,
or minded by a request at one of the steps from which it looks at the row again
(`NamedAfterwards`).  `RotationInv`: tokens just issued are nobody else's
(`NewTokens`), those that were read are the stored ones or older (`OldTokens`), who presents the stored ones has the lease
(`UnderLease`), and so the server still takes them (`StillTaken`).
*Left out*: discovery, the lease of a client's registration, servers that do not
rotate, custom headers, the tools of a connection, API OAuth.

**Invitations.**  Two requests at a time, two operations for one address, five
requests in all, seven days that pass.  An admin lists, reserves an operation, lets
Better Auth invite (which cancels what was pending for the address), and
links the two; or looks, cancels and revokes; a teammate follows a link to an account,
a session, a membership and the end of the operation.  Any request may stop
between two steps.  Reading both stores is one step (`invitationState` reads
them at once).
`HandedLinkWorks`: two admins who invite the same address do not cancel each
other's invitation.  `RevokedAdmitsNobody`: not even who was half way through.
*Proved*, for any number of requests, invitations and errands:
`HandedLinksWork`, `RevokedLinksAdmitNobody`.  `InvitationInv` adds that at most one
operation is open, that the request about to invite has it for itself (so what
Better Auth cancels is over, and no revocation under way is undone), and that an
open operation with a link has its invitation, unless it was used or an admin
began to revoke it.  Most steps bring things further without creating, inviting
or linking; one lemma (`FurtherKeepsInv`) covers them, and three lemmas the others.
*Left out*: operations from before links could be shown again, owner setup,
password resets, the contents of sessions.

**SandboxSessions.**  Three sandboxes of two turns, a cap of one or none, a list
of one reservation, two months.  `CapIsSpentOnce`: no month exceeds its cap, nobody
works uncounted, and while the list holds all reservations a turn is counted once.
*Proved*, for any cap, list, sandboxes and months: `CapIsKept`.  The patch applies only to
what was read, so what an activation concluded from its reading (there is room, its
turn is not on the list) holds when it counts; and while the list is not full it
is the set of counted turns (`MonthOK`, `ActivationOK`).
*Left out*: malformed settings, an operator who changes the cap.

**All of them.**  `MCStores` starts with one store in any state it may begin in and
lets that store's actions alone happen.  `StoresKeepToThemselves` shows that, seen through the
variables of any one store, a behaviour of `MCStores` is one of that store's own
specification: the theorems above are therefore about what TLC explores.
`StoresStayWellFormed` proves `StoresTypeOK`, for it the parts of the six invariants and
the counters' bounds.  The attempt found that the type of `begun` in `McpConnections` holds only
if no more authorizations are offered than flows, which is now assumed
(`MaxAuthorizations <= MaxFlows`).

## 8. Findings

Each is a run that TLC refutes and a line of the repository it contradicts.

1. `reordered`: `driver.ts:62` and a test speak of ordering exclusion; two runs
   of a conversation are leased together when the younger one's admission
   commits first.  Not among the reasons: leases or fences, which work.
2. `unrecorded`: `lifecycle.ts:50` says an enforced lifecycle fails closed.
   After a *refused success settlement* it is silenced, and `runTurn` treats the
   throw like an agent's failure and posts an apology through the silent
   lifecycle.  Needs a handler that survived its lease and its drain.
3. `unattended`: `driver.ts:126` leaves a run whose renewal failed to the
   expiry reconciliation, which on Cloudflare nobody may ever run: the alarm
   returns for pending jobs, and this job is not.  A later turn of anybody
   repairs it; `TurnIsDecided` is therefore checked on Node.
4. `sandbox`: `flue-dispatch.ts:232` says a retry reattaches to the paid
   submission; it first prepares the sandbox again, and answers a failure of
   that with a failure notice.

5. `overlap`: `routines/admission.ts:26` and `README.md:131` say that a later
   heartbeat reattaches to a saved receipt.  One that loaded the occurrence
   before the receipt was saved dispatches again, gets a receipt marked
   `deduplicated`, which is refused as a conflict, and fails the occurrence
   while its agent works.
6. `resumed`: `README.md:98` says that a changed selection invalidates the
   delivery lease.  A turn tried again after a crash selects anew, and its lease
   is of the new selection while its answer is the old submission's.
7. `unproven`: `README.md:131` says that an outcome which cannot be proven pauses
   the routine immediately.  When Slack's answer to a post is lost, the heartbeat
   records the delivery as unknown, and that touches the delivery only; the
   settlement it then asks for is refused, for there is one.  The routine stays
   active until the deadline of its occurrence is reconciled.
8. `ownerless`: `tests/admin-password-team-routes.test.ts:211` says concurrent
   demotions and removals retain one active owner, `identity/store.ts:472` that at
   least one is required.  A request that listed the owners before another one
   demotes an owner and takes its reservation back (`password-team.ts:267`) counts
   that member still, for the store looks at overlays only, and suspends the last
   owner.

For five of them a theorem says what they take, by proving the refuted property
where that is excluded: `OneLeaseInCreationOrder` for 1, `NothingUnrecorded` for 2,
`KeptAnswers` for 4, `StaleAnswersNeedARestart` for 6, and for 8
`ReservationsKeepAnOwner`, by which it takes an outdated view.  Finding 3 is about liveness.
That 5 takes two heartbeats is what TLC says of one without faults; it is not proved.

**Observations** (no text we know of contradicts them, so no run does either).

* A turn job can stay pending for ever: when reconciliation parks the run, or a
  crash falls between verdict and tombstone of a settled run, only a claim could
  close the job, and such a run is not claimed.  The retention backstop
  (`turn-jobs.ts:950`) sets it aside in the end.
* A reaction-only turn with a credential route cannot be settled as never
  invoked (`migrations.ts:186-191`): it is retried and parked, without reaction.
  `ends` includes it.
* A handler that outlived its drain finds the presentation delivered by its successor,
  or posts a message of its own, and marks the job done (`turn-jobs.ts:934`) while
  the run is still `response_ready`; TLC refutes
  `DoneJobIsSettled` with such handlers.
* An apology whose delivery is recovered by a later claim is recorded as
  `succeeded` (`ledger-turn-driver.ts:339` and `371`), one delivered at once as
  `failed`.
* The apology of finding 2 closes the presentation as delivered.  If its successor
  has a delivery pending and fails before it sends, the next claim reads
  both and adopts (`ledger-turn-driver.ts:324-346`): the row says the successor's
  answer was delivered, and Slack shows the apology only.

* *Admission.*  Node's relay releases three claims and then discards the row: a
  redelivery admitted in between finds the row, its enqueue is ignored, and the
  message is held until its claims are two hours old.  Cloudflare closes the row
  instead, so a redelivery is claimed and swallowed.  A classification or
  snapshot that throws keeps the claim on the decision
  (`channels/slack.ts:913-970`).  A declined redelivery of a candidate, whose
  truth could not be looked up, claims what the first delivery was about to, and
  the promoted message is lost.  When a delivery outlives its claim on the
  decision, another one takes it anew: two decide on one message, their releases
  cross, and a claim may stay held that nobody works for.
* *Routines.*  After a rate-limited post too, `recordAgentSettlement` conflicts, and
  the occurrence waits for its deadline.  A crash between a delivery's verdict and the occurrence's end makes a failure of
  a message that was posted.  `failUnsettledRun` overlooks a saved settlement.  A
  third failure turns a *disabled* routine into a *paused* one.
* *Memory.*  A plan frozen with one epoch before a crash may be confirmed under
  another.  A stale "public" observation seals the current generation, for
  `observedAt` is not compared.
* *Credentials.*  An authorization begun while connected and stored after a
  disconnection brings back "connected", without tokens, when it is cancelled
  or expires (`device-auth.ts:76`).  A turn that outlives its access token gets
  two 401s, and tokens that could be refreshed are deleted.  A holder that
  outlives its lease loses the race and deletes the tokens too.
* *Owners.*  An activation by a third lifts a reservation.  A request
  that stops between reservation and Better Auth leaves its target suspended.
* *Connections.*  A callback or an admin's edit writes back the list of connections
  it read, and can bring back one that was removed meanwhile
  (`admin/routes.ts`, `replaceVerifiedMcpConnection`).  A late report that tokens
  were refused marks a connection that was authorized anew as failed, and its
  tools are dropped (`profile-mcp.ts:82`) until it is authorized once more.  A
  writer that stops after the deletion of its profile consumed the marker leaves
  secrets nothing names.  A profile created under the name of a deleted one
  does not finish the clean-up, and a deletion still under way takes away its
  marker and its lease.  The holder of a lease does not look at it again
  (`mcp-oauth.ts:424-492`, under `withLease`, 662-697): one that has the lease while
  an admin clears the secrets reads the tokens of the next authorization, and may
  refresh them beside the holder of the next lease.
* *Invitations.*  An invite that stops between reserving and linking blocks the
  address for seven days with an operation that is neither listed nor revocable;
  a revocation that stops between its two calls leaves a link that is listed no
  more.  A revocation between acceptance and the operation's end is
  recorded as "revoked" although the teammate is a member.
* *Sessions.*  A retry across the end of a month is counted in both; beyond 1000
  reservations a retry may be counted again, or refused.

## 9. What is only checked, and what is out of reach

The theorems are for all values of the constants: `WorkLedgerProofs`,
`SlackAdmissionProofs`, `LedgerTurnProofs`, `RoutineOccurrenceProofs`,
`ChannelMemoryProofs`, `TokenProofs`, `TeamProofs`, `StoresProofs`.  They cover every
invariant and every action property that the passing runs check.  Those of a turn in
the run `ends` are proved for one handler at a time (`OneAtATime`; `CompletedAnswerIsKept` also
without "sandbox"), which is how that instance is configured; `TypeOK` and
`RecordedFinalsStand` need neither.  Only checked by TLC, on its instances, are
the liveness properties `TurnIsDecided` and `EveryOccurrenceEnds`.
Liveness, fairness and ENABLED are beyond the prover
and stay with TLC.  The composition of several conversations in one driver is
represented by its effects (`others`, `orphan`), not by other turns; that of a
turn with its channel's memory or its sandbox by the modules of section 7, each
with a turn reduced to the calls that concern it.
