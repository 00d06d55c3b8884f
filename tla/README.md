# Verification of ai-assist-orchestration-service

TLA+ models of the orchestration service, TLC runs that check them on small
instances, and TLAPS proofs for instances of every size. Paths such as
`action_service.py` are under `src/ai_assist_orchestration/`; the documents
and tests are named from the root of the repository.

```
tlc -workers 2 -config service.cfg MCActionService.tla    # one run
tlapm ActionServiceProofs.tla                             # one proof module
```

## 1. Inventory

The service turns an assistant command into proposed document changes
("actions"), lets the user approve or reject them, and applies an approved one
to the document through a connector. Everything outside (policy, context,
prompt, provider, vault, consent, token, connector, event publisher) is
injected.

| Part | State | Operations | Talks to |
|---|---|---|---|
| `ActionService` (`action_service.py`) | the action store; an event counter | create, list, get, approve, reject, apply | store, vault, consent, token, connector, publisher |
| `InMemoryActionStore` (`action_store.py`) | a dictionary under an `RLock` | create, get, list, update, transition, reserve_apply, complete_apply | |
| `JsonFileActionStore` (`runtime_dependencies.py`) | one JSON file; an `RLock` per object | the same | file system |
| `CommandService` (`command_service.py`) | an event counter | run_assistant_command | policy, context, prompt, provider, publisher, `ActionService` |
| proposal batch validation (`command_service.py`) | none | normalize_provider_proposal_batch | |
| package-level app (`http_app.py`) | `_runtime` | handle_http_request, configure_* | HTTP runtime |
| HTTP runtime, boundary (`http_runtime.py`, `http_adapter.py`) | none; a thread per request | routing, identity, mismatches, keys, request ids | both services |
| default dependencies (`runtime_dependencies.py`, `http_app.py`) | none | constant answers | |
| errors, validation, time, async helpers | none | | |

**Interaction.** `ThreadingHTTPServer` gives each request a thread, and the
runtime an `asyncio.run`, so requests interleave between any two calls of a
store, the clock or a dependency. A handler reads an action, decides, and
changes it later by a compare-and-set operation of the store. Only the store
has a lock; nothing is held across an `await` but the `applyLock` field of the
action, which is data. Events are published after the change, outside any lock.

**What is hard.** Requests that race to one action; the reservation that has to
be completed on each of some ten ways out; expiry, which ignores the
reservation; a mutation of the document whose outcome is unknown; crashes and
uncaught exceptions with a reservation held; publications that fail; the
read-change-replace cycle of the file; a provider that streams what it likes; a
batch that is stored action by action; clients that repeat requests whose answers
were lost or came too late; requests that name a user, session or action in three
places. `PROJECT.json` lists each at its line
with the properties that would notice it going wrong.

**What makes each part correct.** The action service: one mutation at most, a
stored outcome that agrees with the document, final outcomes, no access across
owners, every change announced, every reservation released. The file store: it
is an atomic store. The command service: no generation without policy, context
and access; success only if everything proposed was stored, where there is an
action service to store it; failures end the session's events with an error. The
batch validation: no character replaced twice, and little that was accepted here
refused later: what, is stated exactly. The HTTP boundary: the
service is asked only in the name of the trusted headers about what the path
says, and what a client was told stays true however often it asks.

## 2. Modules

| Module | Role |
|---|---|
| `ActionStore` | statuses, records and the store operations as functions of one record |
| `ActionService` | the lifecycle of actions, one step per store call or await |
| `ActionLifecycle` | the abstract specification `ActionService` implements |
| `ActionServiceProofs` | its proofs: the reservation, the outcome, the refinement |
| `ActionHistoryProofs` | its proofs: whose actions, true answers, events |
| `HttpBoundary` | what the HTTP runtime and boundary make of a request, as operators; extends `ActionService` |
| `HttpService` | `ActionService` behind its HTTP server, composed with clients that repeat requests |
| `HttpServiceProofs` | its proofs, and that it implements `ActionService` |
| `AtomicActionStore` | a store whose every call is one step |
| `JsonFileActionStore` | lock, read, replace; the runtimes the stores belong to; implements `AtomicActionStore` |
| `JsonFileActionStoreProofs` | its proofs |
| `ProposalBatch` | the two validations of a proposal batch as operators |
| `ProposalBatchProofs` | the sort and the neighbour comparison, for any batch |
| `BatchValidationProofs` | from there the properties of `MCProposalBatch` |
| `CommandService` | one command from policy to the stored actions; extends `ProposalBatch` |
| `CommandStream` | the abstract specification `CommandService` implements |
| `CommandServiceProofs` | its proofs |
| `MC*` | instances for TLC |

Operators whose comment begins "Mutated form" are wrong on purpose: they stand
before the definition they are a wrong form of, nothing uses them, and putting
one in place of that definition violates the property that
`PROJECT.json` names with it.

### ActionService

`pc[t]` is where thread `t`'s handler is: `idle`, one label per point at which
another thread may run, `publish`, `reply`. `seen[t]` is the handler's local
`action`, the record it read at the start, which may be stale; `store[a]` is the
stored record. `ApproveAction`, `RejectAction` and `ApplyAction` are the
handlers up to the expiry check, each with `_get_authorized_action`;
`Refuse` is the way out of that check. `Expiry`/`NotExpired` are
`_expire_action_if_needed`: between the clock read and the transition another
thread may run, but as the clock does not go back and `expiresAt` is never
changed, a check that said "expired" earlier says so at the transition as well,
and one step is enough. `Reserve` is `reserve_apply`; `ValidateConsent`,
`ValidateToken`, `ValidateTarget` and `DecryptPayload` are the awaits under the
reservation, each with its answers (go on, complete as conflicted or failed);
`ConnectorApply` the mutation, which may have been made even if it raises;
`CompleteApplied` and `CompleteWriteFailed` the completions. `Publish` delivers
the event, fails, or fails having delivered. `Abort` is an exception the
handler does not catch, at any step: a store that cannot read its file, or a
dependency's answer of another shape than the code indexes outside its `try`.
`Crash` drops every request; the store stays, as the file does. `writes` (how
often the document was mutated), `announced` and `lost` record what happened
outside.

Abstracted: target, summary, payload and bookkeeping timestamps (no guard reads
them), `applyResult` to its status, request validation by type. `create` may fail in
the vault (`ENCRYPTION_FAILED`), and the identifier generator may repeat itself.

`RefuseCreate` is a creation that lacks a field: it is refused after the payload
was encrypted (`action_service.py:69-94`), so the vault's failure may come first.

### HttpBoundary and HttpService

`HttpBoundary` follows a request through `_route_request` and the boundary.
`RouteError` is the order in which the runtime turns requests down: identity
(`trusted_header_identity`), body (`parse_json_body`), route, mismatch
(`boundary_request`). `Refusal` adds what the boundary refuses before a service
with state is asked: a missing idempotency key or action id, and services nobody
configured (`MissingDependencyService`, the constant `Missing`). `ServiceRequest` is
what reaches `ActionService`: the user of the headers, the session of the path,
the action of the path or, for apply, of the body. A command reaches it as the
creation of one action, standing for the batch that `CommandService` models, about
the resource its context names or else its body (`ResourcesOf`); that its key is not
passed on is what the code does. `GET /providers` is not compared with its body.

`HttpService` puts this in front of `ActionService`. `call[t]` is the HTTP request
thread `t` serves and when it came. `PassOn` is `handle_request` up to the
service's first await, `Proceed` any later step of the handler, `Deliver` and
`LoseAnswer` are `write_json_response` with and without success. An answer that
needs no action is one step (`AnswerPlainly`). Anonymous clients send anything
(`SendAnonymously`). A watched client chooses one request and repeats it (`Send`), also
while an attempt it gave up on (`GiveUp`) still runs; it keeps what it was told
(`told`), but for answers that announce nothing lasting (`Provisional`). `origin` is a
history variable: who stored an action, and with which key. Clients are not part of
the repository; they do what HTTP clients may do.

### File store

`GetRuntime`, `ConstructRuntime` and `ReturnRuntime` are `_get_runtime`'s test,
assignment and return, which reads `_runtime` again: by then it may be another
thread's, or none after a reset, and then the request fails. `Stores` are the store
objects; a new runtime has one that nobody uses (`Unused`). `ConfigureRuntime` is
`configure_http_runtime`, directly or through `configure_http_dependencies`, with any
runtime or with `None`, any number of times: requests that were given the old runtime
keep it. With `Quiet`, a runtime is made by one request alone, and configured or reset
only while none is being made and no request has been given one, as at a
start-up with one first request. Then a call takes the
object's lock, reads the file and decides on its copy (`ReadActions`), and
replaces the file (`ReplaceFile`, `os.replace`) if anything changed. `FileFails` is an
exception of either, `Crash` the end of the process. The initial file may hold proposed
actions of an earlier process.

### CommandService and ProposalBatch

What policy, context, prompt builder and access answer a command is fixed in
its `input`; the stream, the publications and the creations are decided step by step.
Publishing is two steps, `CountEvent` (`_event_sequence += 1`, which CPython
3.11 does without switching threads) and `PublishEvent`, which reads the counter again. The
steps of the provider's stream are any sequence of deltas and finals, ended by
the provider, an error event or an exception. A final event replaces the batch
of an earlier one. An error of the stream, or of a creation, has any code; with that of
a failed publication it is not published, as one of `_publish_event` is not.
`actionService` says whether the service was built with an action service: without one,
the constructor's default, a final response's proposals are dropped and the command
succeeds (`command_service.py:227`).

`ProposalBatch` keeps of a text whether it is absent, blank or proper, and of a range or
an anchor whether it is a plain `dict` or another mapping. `ProposalError` and
`AdjacentOverlap` are `normalize_provider_proposal` and
`reject_overlapping_replace_ranges`, `ActionError` the checks of
`create_proposed_action`. Each has its own notion of a target: `IsValidTargetRange` and
`IsValidTargetAnchor` take any mapping, `HasActionTarget` demands a `dict`.

## 3. Runs

| Run | Instance | States | Shows |
|---|---|---|---|
| `service` | 2 threads, 1 action, 2 keys, lifetimes 0 and 1, reads and an incomplete creation, clock 0..1, 1 fault | 690 thousand | the action service's safety, and that it implements `ActionLifecycle` |
| `http` | 2 threads, 21 HTTP requests of 2 users, 2 sessions, 2 resources, one watched client, 1 lost answer, 1 fault | 1.1 million | nobody leaves their scope, answers stay true, a late apply never writes |
| `http_liveness` | 2 threads, one client repeating its apply, others creating, approving, rejecting, 1 lost answer, no fault, fair | 135 thousand | calls are answered, reservations released, a repeated apply concludes |
| `retried_command` | 2 threads, 2 generated ids, one client repeating its command | violated | a command repeated with its key is stored twice |
| `expired_mutation` | as `service` | violated | an EXPIRED action whose document was mutated |
| `silent_expiry` | as `service` | violated | a lost expiry event that nobody is told of |
| `repeated_approval` | as `service` | violated | a repeated approval answered as a conflict |
| `batch` | up to 4 proposals, offsets 0..3, every defect of a proposal | 293 thousand | the two validations against a character-by-character reference |
| `command` | with and without an action service, 2 commands: one of 13 inputs, 6 batches, 3 stream events; one that fails after its first event | 3.3 million | the command service's safety, event numbers that increase per command, and that it implements `CommandStream` |
| `partial_batch` | as `command` | violated | a refused batch whose first action is stored |
| `file_store` | 2 threads, 2 actions, 2 keys, 2 store objects, 1 fault, runtimes made, configured and reset, quiet, fair | 745 thousand | the file store implements the atomic one; its locks are released |
| `two_stores` | 2 threads, 2 actions, 3 store objects, runtimes made, configured and reset | violated | an acknowledged change is overwritten |

**Bounds.** Two threads are what every race in this code takes: the
compare-and-set operations involve one winner and one loser, and a third thread
meets the same guards; the proofs cover any number. Threads serve request after
request, so the number of requests is not bounded. One action is enough where
actions share no state (the store operations touch one record); the file store,
where they do share the file, has two. Two keys give the same-key and
the different-key cases. Two instants and lifetimes of 0 and 1 let an action expire before,
between and after any two steps, or be born expired. One fault is one crash or one uncaught
exception at any point. Four proposals over three characters contain every order of
overlapping, touching, nested and equal ranges, non-neighbours included. Three
stream events give two finals and a delta in any order.
One lost answer, or attempt given up on, is enough for two attempts of one client to
overlap; the anonymous requests repeat it without bound. The 21 requests of `http` are one
of each kind that is served, and one of each way to be refused. `http` and
`http_liveness` look at states through `Visible`, which leaves out the events and
their fates: no guard reads them, and no property of these runs is about them (the
events are what `service` checks). A lock is released in `file_store` without symmetry,
because of the liveness property; `Symmetry` of the others permutes threads and
keys, which no property tells apart.
The second command of `command` is there to count events between the first one's steps.
Deadlock is checked except where a system ends: a command runs once, a batch stops growing.

**Fairness.** `http_liveness` and the file store: a thread that has a step takes it
eventually (`WF` of its steps), which the operating system's scheduling of the
request threads, and dependencies that answer or raise, justify. `PersistentSpec`
also assumes of a watched client that it keeps repeating (`SF` of `Send`: the server
starts a thread for every connection, so an attempt gets one although the two
threads of the instance are often taken). Nothing is assumed of the anonymous
clients, of the clock, of losses, of faults, or of how a lock chooses among waiters.
With a fault a reservation may stay for ever: nothing reads `applyLock.startedAt`.
That is why `LocksAreReleased` and `RetriedApplyConcludes` allow it after one.

**Findings** (quoted in `PROJECT.json`).

1. Expiry does not look at the apply lock (`action_service.py:459`): an action
   can be EXPIRED after its mutation was made, until the completion makes it APPLIED.
2. The publication failure of an expiry is dropped (`action_service.py:471`).
3. The loser of two concurrent approvals is told that the approved action
   cannot be approved (`action_service.py:143`).
4. A blank `originalTextHash` of an insertion, a blank `resourceRevision`
   (`command_service.py:478-481`), or a target that is a mapping but no `dict`
   (`command_service.py:513-522`, `action_service.py:592-601`) passes the batch
   validation and is refused after earlier actions were stored.
5. Concurrent first requests to the package-level handler make two stores on
   one file without a common lock (`http_app.py:99`), and so does configuring a
   runtime while requests run (`http_app.py:53`). This takes a server that calls
   the handler from several threads at that time.
6. The idempotency key of a command is required (`http_adapter.py:38`) and read by
   nobody: a repeated command stores its actions again.

The properties of the passing runs are stated so that they hold with these:
`TerminalIsFinal`, `OutcomeMatchesDocument` and `ActionLifecycle` allow for finding 1,
`FailuresReported` leaves out the expiry, `LateRejectionIsExplained` names the
proposals of finding 4, and `file_store` is quiet.

## 4. Proofs

| Theorem | States | Module |
|---|---|---|
| `TypeCorrect` | `Spec => []TypeOK` | `ActionServiceProofs` |
| `WritesAtMostOnce` | `Spec => []AtMostOneWrite` | |
| `LockOwnership` | `Spec => []LockHasOneOwner` | |
| `OutcomeIsTruthful` | `Spec => []OutcomeMatchesDocument` | |
| `ReplaysAreFinal` | `Spec => []ReplayIsFinal` | |
| `TerminalStatusIsFinal` | `Spec => TerminalIsFinal` | |
| `ServiceImplementsLifecycle` | `Spec => ImplementsLifecycle` | |
| `FileStoreTypeCorrect` | `Spec => []TypeOK` | `JsonFileActionStoreProofs` |
| `ReservationExclusive` | `Spec => []ReservationIsExclusive`, `Quiet` | |
| `ChangesDurable` | `Spec => []ChangesAreDurable`, `Quiet` | |
| `FileStoreIsAtomic` | `Spec => ImplementsAtomicStore`, `Quiet` | |
| `ProposalsAreKept` | `Spec => ProposalIsKept` | `ActionHistoryProofs` |
| `OnlyOwnActions` | `Spec => []OwnActionsOnly` | |
| `SuccessIsTrue` | `Spec => []NoFalseSuccess` | |
| `NoSilentChange` | `Spec => []EveryChangeAnnounced` | |
| `EventsAreUnique` | `Spec => []NoDuplicateEvents` | |
| `PreviousIsHistory` | `Spec => []PreviousStatusWasTrue` | |
| `LostEventsAreReported` | `Spec => []FailuresReported` | |
| `CallsAreServed` | `HttpSpec => []HttpTypeOK` | `HttpServiceProofs` |
| `CallsReachNoFurther` | `HttpSpec => []CallsStayInScope` | |
| `LateAppliesNeverWrite` | `HttpSpec => []LateApplyNeverWrites` | |
| `AnswersHoldForGood` | `HttpSpec => []AnswersStayTrue` | |
| `HttpImplementsService` | `HttpSpec => Spec` | |
| `HttpKeepsTheService` | what the service promises holds behind HTTP | |
| `CommandTypes` | `Spec => []TypeOK` | `CommandServiceProofs` |
| `NoUnauthorizedGeneration` | `Spec => []GenerationIsAuthorized` | |
| `CommandSuccess` | `Spec => []SuccessIsComplete` | |
| `CommandFailure` | `Spec => []FailureIsPublished` | |
| `CommandBatches` | `Spec => []OnlySafeBatchesAreStored` | |
| `CommandSequence` | `Spec => []SequenceIncreases` | |
| `CommandRefinement` | `Spec => ImplementsCommandStream` | |
| `NeighboursSuffice` | sorted neighbours find every overlap | `ProposalBatchProofs` |
| `OverlapCheckIsExact` | so does the check of a batch, which sorts them | |
| `AcceptedBatchIsSafe` | what an accepted batch may contain | |
| `AcceptedBatchesAreDisjoint` | `Spec => []AcceptedIsDisjoint` | `BatchValidationProofs` |
| `OverlapsAreReal` | `Spec => []OverlapIsReal` | |
| `LateRejectionsAreExplained` | `Spec => []LateRejectionIsExplained` | |

**Assumptions.** Those the modules name, which TLC evaluates in the runs: no key is
the absent key; there is at least one user, session and resource; requests are
requests, and one that applies names a key, which the boundary requires
(`ActionStore`, `ActionService`); clocks, lifetimes and bounds are numbers; the
absent runtime is no store (`JsonFileActionStore`); what the boundary makes of the HTTP
requests is among the service's requests, and "nobody" is no client, thread or request
(`HttpService`); the batches of a command's final events are sequences of
proposals (`CommandService`). The last three theorems on the file store also assume
`Quiet`, as the run `file_store` does; `two_stores` shows that without it
`ChangesAreDurable` does not hold. Nothing is assumed finite but
what is so by construction: a batch has a length, its ranges are as many.

**ActionService.** `TypeOK` is not inductive: a step uses the locals the step
before it left. `TypeInv` adds what each label guarantees of them. The safety
theorems follow from `IInv`, which is `TypeInv` and `ReservationInv`:

- `RecordOK`, of each stored record with its number of mutations: at most one;
  an apply lock only on APPROVED or EXPIRED; `applyResult` only with its own
  status and key and no lock; which statuses go with a mutation.
- `OwnerOK`, of each thread under the reservation: the lock carries its key;
  before the connector call nothing was written; at `applied`, exactly one
  mutation.
- `OneOwner`: two threads are not under the reservation of one action.
- `LocksOwned`: without a fault a locked action has its thread.

`AtMostOneWrite` alone is not inductive: `ConnectorApply` adds one to a number
that only `OwnerOK` knows to be zero, and `OwnerOK` stays true under another
thread's steps because `OneOwner` and the store operations respect the lock. The
steps fall into those outside the reservation, the one that takes it, those inside
and those that give it up, with a lemma each, so the proof of an
action says which it is. For `TerminalIsFinal` and the refinement, `StepEffect`
says what a step of the service does to `store` and `writes`: nothing, or one of
the effects of `ActionLifecycle` on one action.

**JsonFileActionStore.** `SharedInv`: a runtime is made by one request, while there is
none, and who has been given a runtime has the current one; who is past
`acquire` holds the one lock; what it copied is what the file holds
(all `SharedOK`); what each unreturned answer promises of the record still holds
(`KeptOK`, a strengthening of `ChangesAreDurable` that each later call
preserves, lemma `KeptStays`); and reservations are exclusive (`ExclusiveOK`,
because `reserve_apply` finds the record free and an answered reservation says
it is not). `ReplaceFile` is then the step of the atomic store and all others stutter.

**ActionService, its history.** The theorems of `ActionHistoryProofs` follow from
`EInv`, which is `IInv` and, of each thread,

- `ScopeOK`: a handler that decides holds a record of its requester's, in whatever
  status it was, with the owner, session, resource and expiry the stored one has;
- `ReplyOK`: what it is about to answer is true now, and will be, as final statuses and
  their mutations do not change (lemma `StepIsStable`, from `StepEffect`);
- `EventOK`, `PreviousOK`: the event it is about to publish is pending, a caller who drops its
  failure is the expiry, and its previous status is one the action has had;

and `NoDuplicateEvents` itself.

"Has had" is `Had(a, status)`: announced, lost, or about to be published by a thread. No
variable records the statuses of an action; these three together do, and that is what
makes the properties of events inductive. `HistoryOK` bounds `Had` from above by what the
current status allows (`MayHaveBeen`: a PROPOSED action has been nothing else, an
APPLIED one may have been APPROVED and EXPIRED), so a status that is entered was not
had before, and its event is new. Two threads cannot both enter it, because the
compare-and-set of the second finds it entered. The proof
does not go through a handler's steps one by one: up to the publication each has one of four
forms (`Takes`, `Works`, `Changes`, `Returns`: it begins, goes on, changes its action's
status, answers). Lemmas say which form each has, and others that the form keeps the invariant;
publication, response and crash have a lemma each.

**HttpService.** `HInv` is `EInv` and `CallsInv`: a busy thread serves a request
the boundary made of its call (`CallOK`), a client waits for a thread with its own request
(`ClientOK`), a handler past the expiry check came in time (`InTime`), and what a client was told
is true (`AnswerOK`). `PassedFacts` says what the boundary passes on: the header's
user, the path's session, the path's action, or for an apply the body's. It connects
the service's notion of scope (the request) with the caller's (headers and path).
`InTime` needs more than the check: it was made on a copy read earlier, whose expiry
equals the stored one by `ScopeOK`, and the expiry stays so while other threads
change the action. That an answer is still true when it arrives is `ReplyOK`, and that
it is about what the client asked is `PassedFacts`. `HttpImplementsService` is the
composition: every step of threads and clients is a step of `ActionService` or a stutter.

**CommandService.** `CommandInv` is of each command on its own but for the counter. A
command that publishes is at `count` or `publish`; `Going` is where it goes on, and
`PendingOK` ties the event to that and to what was said, with `Follows` of
`CommandStream`. `SaidOK` gives the last event at each label, `InputOK` what policy,
context and access answered by then, `FinalOK`, `CreatedOK` and `AnswerOK` what a final
response, a stored action and an answer stand for. `SequenceOK` has the counter at or
above every number, and above those of a command between count and publication, which
other commands' counting only makes truer. The proofs go label by label; a step of
one command leaves the others' parts alone (`OnlyMoves`).

**ProposalBatch.** Python's `sorted` is modelled by rank: the i-th range is the one that
i - 1 others precede. That each rank is taken once (`EveryRankIsTaken`) follows from
cardinalities of finite sets, without induction: ranks are bounded by the number of
ranges, and the map to ranks is an injection between finite sets of one size.
Sorted neighbours suffice (`NeighboursSuffice`) without induction, too: the
neighbour of a range lies between it and any later one that overlaps it.

**Only model-checked.** Liveness: `EveryCallAnswered`, `LocksAreReleased`,
`RetriedApplyConcludes`, `LockIsReleased`; the proof system cannot reason about
fairness and ENABLED here, nor do induction over data, which none of the proofs turned out to
need. The violated properties, of which the run's
counterexample is the evidence. Every other property of a passing run is proved,
for all values of the constants.

## 5. Not modelled

- Of the HTTP runtime and boundary: the filter on provider status payloads, the
  limit on the size of bodies, the spelling of headers, request and correlation
  ids, status codes. They decide nothing the properties are about.
- Of a command behind HTTP, its own steps: `HttpService` has the creation it asks
  for, `CommandService` the rest.
- What an API gateway does with the trusted headers before they get here.
- Default dependencies: one constant answer or exception each, all among those
  the models let a dependency give.
- Errors, validation, time and async helpers: part of the definitions
  that use them.
- The order of events of one action in its session, and uniqueness of event
  numbers: the code promises neither.
- What is read-only in the stores (`list_for_session`) appears as a read in
  `ActionService`; several processes on one file are not considered.

## 6. Plan

Done, in this order, the most important behaviour first:

1. `ActionStore`, `ActionService`, `ActionLifecycle`: lifecycle, proofs of the invariants and of the refinement.
2. `ProposalBatch`, `CommandService`, `CommandStream`.
3. `AtomicActionStore`, `JsonFileActionStore`, refinement and its proof.

4. `HttpBoundary`, `HttpService`: identity, scope, repeated requests, lost answers.
5. Proofs of every safety property of the runs: scope, answers and events of
   `ActionService`; `HttpService`; `CommandService` and its refinement; the batch validation.

To do:

6. Actions served by `JsonFileActionStore` in the place of the atomic store: that every
   change `ActionService` makes is a call of `AtomicActionStore`, so that the two
   refinements meet. The calls of `AtomicActionStore` have one outcome of an apply so far.
7. The two event counters of a session: what a subscriber sees of both services.
