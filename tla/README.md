# pz-workflow in TLA+

pz-workflow is the event service of Piazza: clients define event types, post
events, and register triggers that submit a job whenever a matching event is
posted. This directory holds TLA+ models of its core, the TLC runs that check
them on small instances, and TLAPS proofs for instances of every size.

Line numbers refer to `src/workflow/` unless a path is given; `cron.go` is
`src/vendor/github.com/venicegeo/vegertar-cron/cron.go` and `index.go` is
`src/vendor/github.com/venicegeo/pz-gocommon/elasticsearch/index.go`.

## 1. The system

| part | state | operations | talks to |
|---|---|---|---|
| event types (`Service.PostEventType`, `DeleteEventType`, `EventTypeDB`) | documents of the `eventtypes` index; for each name a mapping of the `events` index | post, delete, read by id, search by name | `EventDB` for the mapping and the in-use check, `TriggerDB` for the in-use check |
| events (`PostEvent`, `DeleteEvent`, `EventDB`) | documents of the `events` index | post (and fan out), delete | percolator, `TriggerDB`, IDAM, RabbitMQ, `AlertDB` |
| triggers (`PostTrigger`, `PutTrigger`, `DeleteTrigger`, `TriggerDB`) | a document of the `triggers` index and a percolation query of the `events` index | post, enable/disable, delete | `EventTypeDB`, service controller, percolator |
| alerts (`PostAlert`, `DeleteAlert`, `AlertDB`) | documents of the `alerts` index | post, delete | - |
| repeating events (`PostRepeatingEvent`, `DeleteEvent`, `InitCron`, `CronDB`) | an entry of the in-memory scheduler, a document of the `crons` index, a document of the `events` index | post, delete, run, reload at start-up | scheduler, `PostEvent` |
| scheduler (vendored `cron`) | entries, keys to remove, running flag | add, remove (lazily), run | the jobs it runs |
| statistics (`Stats`) | five counters | increment, read | - |
| kit and index scripts (`main`, `NewKit`, `Service.Init`, `src/db`) | indices and aliases; the event types of the system | create, switch, compare, post | Elasticsearch, everything above |
| server, client | routes | decode, dispatch, encode | everything above |
| tool (`src/tools`) | pages, batches, wait groups | count, list, delete everything | the service, through the client |

Every request is served by its own goroutine, and `PostEvent` starts one more per
matching trigger. There are no locks that matter (`GetStats` takes one that the
increments do not): handlers meet only in Elasticsearch, in the
scheduler and, inside one `PostEvent`, in the shared `results` map. Nothing is
transactional: an operation is a sequence of calls, any of which can fail or be
the last one before the process dies. That is where the hard behaviours are:

- *two stores that must agree* - trigger document and percolation query; event,
  cron document and scheduler entry; event type and mapping;
- *check, then act* - a name is free, a type is not in use, a document exists;
- *fan-out and join* - goroutines that fail in different ways and one response;
- *crash and restart* - `InitCron` rebuilds the scheduler from what is stored;
- *start-up cut short* - indices, aliases and system types are created one call at
  a time, and the next start, perhaps of another release, finds what is there;
- *conversions* - keys of conditions are rewritten on the way in, out and back;
- *lazy effects* - a removed cron entry, a search that lags behind.

What makes each part correct, in one sentence each: an event answered 201 has
fired everything it had to fire, and a failure is never answered 201; a trigger
is in both of its stores or in none, and stops firing once deleted; a repeating
event runs on its schedule from its 201 to its deletion, across restarts, and not
afterwards; a name belongs to one event type and a type in use is not deleted; an event is
stored if and only if its data has the variables of its type, and a condition means
the same after it was stored; a release serves its own indices and has the event
types of the system; the tool ends and leaves nothing without a reason.

## 2. Modules

| module | models | lines of code |
|---|---|---|
| `TriggerFiring` | `PostEvent` and its goroutines, `PostTrigger`, `PutTrigger`, `DeleteTrigger`, alerts | Service.go 723-854, 1065-1146, 1328-1365; TriggerDB.go 42-136, 206-286; EventDB.go 38-111, 361-380 |
| `FiringContract` | what posting an event promises, abstractly | (specification) |
| `TriggerFiringProofs` | theorems about `TriggerFiring` | |
| `TriggerFiringRefinement` | the proof that `TriggerFiring` implements `FiringContract` | |
| `RepeatingEvents` | `PostRepeatingEvent`, `DeleteEvent`, `InitCron`, the scheduler, crash and restart | Service.go 672-720, 915-963, 1382-1432; CronDB.go; cron.go 105-253 |
| `RepeatingEventsProofs` | theorems about `RepeatingEvents` | |
| `EventTypes` | `PostEventType`, `DeleteEventType`, the triggers and events that refer to a type | Service.go 454-571; EventTypeDB.go; EventDB.go 184-312; TriggerDB.go 226-255 |
| `EventTypesProofs` | theorems about `EventTypes` | |
| `EventData` | the data: variables of mappings and events, validation, the keys of conditions | EventDB.go 38-111, 291-359; TriggerDB.go 115-136, 206-224, 288-379; Service.go 473-504, 967-988, 1084-1115, 1367-1377; `gocommon/util.go` 42-79 |
| `EventDataProofs` | theorems about `EventData` | |
| `Stats` | the counters and `GetStats` | common.go 126-157; Service.go 323-329 |
| `Lifecycle` (extends `Stats`) | start, index scripts, system types, service, crash, deployment | main.go, Kit.go 50-110, 164-283; Service.go 122-204, 454-511, 672-720, 915-963, 1382-1408; `src/db/CreateIndex.sh` |
| `LifecycleProofs` | theorems about `Lifecycle` and `Stats` | |
| `Wipe` | the tool, with the client's and the service's lists and deletions | `src/tools/main.go`; Client.go 62-141; Service.go 521-571, 603-663, 915-941; AlertDB.go |
| `WipeProofs` | theorems about `Wipe` | |
| `SequenceFacts` | lemmas about sequences, and induction, for `EventDataProofs` and `WipeProofs` | |
| `MC*` | constants for TLC | |

`PROJECT.json` maps each definition to its lines.

**Granularity.** Handlers share nothing but external stores, so one step is one
call to a store or service together with the local computation up to the next
call; a read whose result only decides between going on and refusing is merged
with the step that uses it when nothing it reads can change in the module. The
existence check and the read inside `Index.GetByID` (index.go 266-278) are two
steps (`TriggerExists`, `GetTrigger`), because what lies between them matters.

**Failures.** Each call may fail if the constant `Failures` is `TRUE`; a failing
write may or may not have been applied. The failing branch follows the code:
an error return, an ignored error, a panic recovered by `handlePanic`
(Service.go 198-204), or a panic in a goroutine, which nothing recovers and which
kills the process. `Crashes` adds kills from outside. A crash ends
handlers and goroutines and keeps the indexes; in `RepeatingEvents` it also
forgets the scheduler, and `InitCron` is the way back up. In `TriggerFiring` and
`EventTypes` the process is back at once: start-up changes none of their state.

**Data.** Ids are model values, one fresh id per request as `newIdent` gives. The
data of events and the conditions of triggers are only seen through `Matches`;
of a trigger document only `Enabled` is kept (PutTrigger changes nothing else),
of an event type its name. Verification of an event's data against its type is a
free choice between storing and refusing. `EventData` is about what these three
leave open: there keys are sequences of tokens (`.`, `~`, `data`, letters), and a
JSON object is the function from the paths of its leaves to what stands there.

**Unsynchronised writes.** Two goroutines that write `results` at the same time
are a data race on a Go map: the model lets both entries survive
(`WriteResult` twice), one get lost (`LoseResult`), or the runtime abort the
process (`AbortOnConcurrentWrite`).

**History variables** (`armed`, `deletedBefore`, `deletes`, `deleted`, `harmed`,
`stopped`, `before`, `shield`; `posted`, `updates`; `begun`, `done`, `overlapped`,
`cut`, `skipped`, `ran`; `shifted`, `failed`, `refused`) record the past so that properties can talk about
it; no guard reads them. `harmed` collects the objects for which a multi-store
update was cut short by a failed call or a crash: for these the code gives up
consistency (it ignores the error or never comes back to it), and the
properties say so explicitly by excluding exactly them.

**External parts**, modelled from how the code uses them: the percolator (`Matches`),
IDAM, RabbitMQ (`Publish` returned no error, i.e. no confirmation by the
broker), the refresh of Elasticsearch indexes (`RefreshTypes`, `RefreshRefs`).

### TriggerFiring

`trigPc` follows `PostTrigger` (`query` -> `doc` -> `created`, or `rollback`),
`edit` the `PutTrigger` or `DeleteTrigger` an editor is serving, `evPc` the handler
of `PostEvent` and `gor[e][t]` the goroutine of trigger `t` for event `e`:
`exists`, `get`, `auth`, `publish`, `alert`, with `write` for storing a response in
`results` on each error path. `FinishPostEvent` is `waitGroup.Wait` and the loop
over `results`, whose order is random: any entry may become the response.

### RepeatingEvents

`entries[c]` is the entry added with the schedule of `c`; its value is the event
the job posts, which is `c` after `PostRepeatingEvent` but the *last* event loaded
after `InitCron`: all jobs take the address of the one loop variable
(Service.go 1394-1399; `go 1.7` according to the repository's README, so the
variable is shared). The name of the event type is kept by value, so such a job looks
for the data of the last event under the name of its own type: if the two types differ the
data is empty, and `PostEvent` takes it only for a type without variables (`Accepted`, `Bare`).
A read of an event type that fails is a panic (EventTypeDB.go 126): in
`PostRepeatingEvent` it is recovered and nothing is rolled back (`VerifyEvent`), in `InitCron` it is
recovered and the scheduler is not started (`InitCronPanics`). `Tick` is one iteration over a due entry of `Cron.run`,
with its lazy removal; when an entry is due is left open, and an `@now`
entry (`Once`) is dropped after its run. `Pages` is the result of a search without a
size: one page, of unspecified order.

### EventTypes

`typesSeen` and `refSeen` are what searches see; `typeDocs`, `mappings` and `refDoc`
are what reads by id see. `PostRef`, `VerifyRef` and `StoreRef` are what
`PostTrigger` and `PostEvent` do with an event type.

### EventData

One event type, one trigger, one event. Keys are sequences over `Alphabet`, paths
sequences of keys, and no leaf of an object stands below another (`IsObject`): that
is what JSON gives, and all that `EventDataAssumption` asks. `VarsOf` and `GetVars` are
`GetVarsFromStructSkip`, with `SkippedAt` the variables on the way to a leaf that are
kept whole; where two leaves join to one name (`{"a": {"b": ..}}` and
`{"a.b": ..}`), the map keeps either. `VerifyEvent` is `verifyEventReadyToPost`,
which compares the *numbers* of variables and then the arrays. How far this goes
(`StoredConforms`, `ConformingAccepted`, against the definition `Conforms`) is owed to
the strict mapping of the events index (`EsTakes`, external), so the two are
checked together. Of the kinds of values, null, `[]` and an array of objects with declared
fields matter: at the path of an object they count as one variable, and Elasticsearch
takes them (`NoObject`), so they can stand for the one variable in that object (`Hidden`). `AddName`, `EncodeDots`, `DecodeCondition` and `RemoveName` are the
rewritings of the keys of a condition. `decodeCondition` drops the second part of a dotted
key, which is the name of the event type as long as the document was written by
`PostTrigger`; after `PutTrigger`, which writes back the *decoded* condition, it is
the first part of a nested variable. `ReadBack` states exactly that: what
`GetTrigger` returns after `n` updates. The percolation query is not touched by
updates, so the trigger goes on firing as posted (`QueryMeetsData`).

### Stats and Lifecycle

`*counter++` is a read and a write (`ReadCounter`, `WriteCounter`); `GetStats` copies the
fields one by one. `Lifecycle` is one process at a time: `pc` walks through `NewKit`,
one step per request to Elasticsearch. Each request may fail, and a failed write
may have been carried out; `Crash` may strike anywhere; `Deploy` starts another
release, with other index names or schemas. `MaxFaults` and `MaxDeploys` bound them.
`GetIDByName` and `UndoType` follow the code into its panics (`InitPanics`): a failed search, or
a failed deletion, makes it dereference nil, `PostEventType` recovers and returns nil,
`Service.Init` panics in turn, recovers and returns *no* error, and the start goes on
without the system types that were still to be posted.
`crons` is what clients leave for `InitCron` to find: of each repeating event in which
eventtypes index its type is stored, if it still is, and in which events index the event. If
a type is not found the process ends, in this start and in every later one of the release.

### Wipe

`tool[k]` is `deleteAllObjects` for one kind of object, `page[k][id]` its goroutine for one
page. The tool runs alone, so searches (`seen`) lag behind deletions only.
`Hits` is what a search sees, in order, and `Listed` cuts a page out of what is seen
*now*; a population lists each object once, since ids are unique; `Window` is the result window of
Elasticsearch, beyond which a search fails, which `FilterByMatchAll` (index.go 317)
turns into an empty page. An error of the count ends the whole tool, unless another
goroutine of `main` overwrites the `err` they share.

## 3. Runs

| run | shows |
|---|---|
| `fanout` | one event, two triggers, one editor, failing calls: `CreatedMeansFired`, `NothingAfterResponse`, `FailureReported`, `StoresAgree`, and `TriggerFiring` implements `FiringContract` (`HonoursContract`) |
| `edits` | two events of different types, one trigger, two editors, crashes: `AlertsFollowJobs`, `DeletedStaysSilent`, `CreatedStaysArmed` |
| `firing_liveness` | one event, one trigger, two editors, failures and crashes: `EventsAnswered` |
| `missing_trigger` (violation) | a trigger deleted between percolation and read turns the answer into 400, against the comment at Service.go 769 |
| `cron_live` | two repeating events (one `@now` and of a system type), failing calls, no restart: `JobsCanBeStopped`, `StoppedStaysStopped`, `RemovedEntryGoes` |
| `cron_restart` | one repeating event, two deleters, a type deleter, failures, crashes and restarts: `JobsCanBeStopped`, `CreatedIsScheduled`, `CreatedIsPersistent`, `StoppedIsForgotten`, `StoppedStaysStopped` |
| `cron_children` (violation) | after a restart a schedule posts another event's children, against Service.go 669 |
| `cron_page` (violation) | a restart schedules one page of repeating events only, against index.go 328 |
| `types` | two event types of one name, a trigger, an event, a deleter, failures and crashes: `NamesStayTaken`, `RefusedLeavesNothing`, `TypesHaveMapping`, `VisibleRefsProtect` |
| `event_data` | all small mappings, event data, conditions and jobs, two editors: `StoredConforms`, `ConformingAccepted`, `ReadBack`, `QueryMeetsData` |
| `lifecycle` | four releases, two system types, two faults, two deployments, a repeating event, two workers and `GetStats` on a counter: `ServesOwnIndices`, `SystemTypesComplete`, `CountsBounded`, `Converges` |
| `wipe` | four populations, pages of two, batches of three: `NothingDangles`, `LeftForAReason`, `EndsIfPagesFit` |

Every passing run with a `TypeOK` checks the module's type invariant too.

**Bounds.** Two triggers are the least for a race on `results` and for a mixture
of outcomes in one event; goroutines of different events share nothing but the
stores, and two events are needed only for the comparison of types and for
"deleted before". Two editors give every race of an update with a deletion and
of two deletions. Two repeating events are the least that tell the shared
loop variable and the page apart (`PageSize` 1 stands for Elasticsearch's 10);
`cron_restart` has one, because with two the defect shown by `cron_children`
breaks `CreatedIsScheduled`, and `StoppedStaysStopped` too: all entries then have the
key of the last event loaded, its deletion marks that key once, and the entries
beyond the first go on running it (cron.go 222-223). Two types of one name are
the least for a clash. In these three modules everything is finite without
artificial caps: each id is posted once, and stores are sets.

`event_data` takes every mapping over the paths `a.b` and `b` and all data over `a`,
`a.b` and `b` with every kind of value, which includes one missing and one extra variable, geo objects and
keys that join to one name; a variable of three parts (`a.b.c`) and two updates show
the loss of parts, two editors the lost update. `lifecycle` has two faults, the
least for a fault within the repair of another, and four releases: from the first,
`r2` moves both indices of event types, `r3` only the events, and `r4` shares its
events with `r2` alone and has another schema for the crons index that is there. `r3`
and `r4` make the order of deployments matter: which release ran before decides
whether the two indices agree, not only which one ran last. All share the crons index, so `r2`
finds a repeating event without its type. Two workers are the least for a lost update, and two
increments for one that is lost and one that is not; one counter is enough, as counters
share nothing. `wipe` has batches of three, the
least for which some numbers of pages do not fit (with two all do), nine alerts
for two batches and a page beyond the window, and populations with events, triggers
and types at once; in the largest no call fails.

**Symmetry** is used in `fanout` (triggers), `edits` and `event_data` (editors), where no
liveness is checked. **Deadlock** is checked in `lifecycle`; elsewhere it is not: when
every id has been used, clients have nothing left to ask, and the tool ends or
waits for ever (tools/main.go 109).

**Fairness.** Weak fairness of each handler, goroutine and scheduler step once it
has begun: the Go scheduler runs them, and every call returns, with an error if
need be (`Failures` is on in `firing_liveness`, `cron_live`). Clients' requests, crashes and
start-up have no fairness. An entry of the scheduler is due again and again.
In `lifecycle` the start has weak fairness, the restart by the platform included, and
faults are finitely many; requests have none. In `wipe` each of the four loops of
the tool, with its goroutines, has weak fairness; refreshes have none.

**Limits that the properties state.** Some properties hold with exceptions, and the
exceptions are behaviours of the code that a maintainer should know:

- `NamesStayTaken` says when a name is protected; two *concurrent* requests can
  still create two event types of one name (Service.go 457-492), although EventTypeDB.go 151 says that this should not happen.
- `VisibleRefsProtect` protects a type from deletion once a search sees an event or
  trigger of it. A request that has read the type and stores later is not seen
  (Service.go 538-558), and then an event or trigger is left without its type.
- `Converges`: a repeating event whose event type is gone (`Orphaned`) ends every start to come,
  whether the type was deleted in that race or stayed in the eventtypes index of an
  earlier release while the crons index is the same. So does an index of another schema.
- `JobsCanBeStopped`: a job stays that no request can stop if a call failed or a crash came
  half-way, a failed read of the event type in `verifyEventReadyToPost` included
  (EventDB.go 56); and a repeating event of a system type is accepted, but cannot be
  deleted (Service.go 925).
- `StoredConforms`, `QueryMeetsData`: null, `[]` or an array of objects passes for an object that
  holds one variable; the variable is missing from the stored event and a trigger on it
  has no field to match, although the error text at EventDB.go 84 names missing variables.
- `CreatedIsScheduled` speaks of a scheduler that runs: if `InitCron` fails to read an event type
  it panics, recovers and returns no error, and the service runs with a scheduler that was
  never started (Service.go 1383).
- `ReadBack`: each `PutTrigger` takes one part off a nested variable in the stored
  condition, and a dot in a key of the job is turned into a tilde for good.
- `SystemTypesComplete`: a start cut short between document and mapping of a system type
  is never repaired, and a panic there leaves the later types out until the next start; and a release does not get its system types if any release started
  before, not only the last one, had one of its two indices and not the other
  (as `events005` next to `eventtypes004` in `src/db` would).
- `EndsIfPagesFit`: with batches of ten the number of pages must be 0 or 9 modulo 10; for
  all others the tool hangs after its work, since its wait group counts goroutines that
  the last batch does not start.
- `LeftForAReason`: pages shift under the tool, so that one run may leave objects.

## 4. Proofs

`TriggerFiringProofs` proves, for any sets of events, triggers and editors, any
`Matches` and event types, with or without failures and crashes (from
`ConstantsAssumption` alone): `TypeCorrect`, `StoresAgreeHolds`,
`CreatedStaysArmedHolds`, `CreatedMeansFiredHolds`, `AlertsFollowJobsHolds`,
`DeletedStaysSilentHolds`, `NothingAfterResponseHolds`, `FailureReportedHolds`.

None of the properties is inductive. The argument has two halves, defined at the
end of `TriggerFiring`:

- `StoreInv` is about the two stores of triggers: how far `PostTrigger` got tells
  what is in them (`TriggerInv`), an editor past its first read works on a
  trigger whose deletion has begun (`EditInv`), and what counts as armed is
  (`ArmedInv`). The point that needs it is a rollback: nobody can have read a
  trigger whose document was never stored (`Unborn`), so no editor resurrects it.
- `FiringInv` says for each event and trigger what the position of the goroutine
  implies about job, alert, `results` and response. Two steps need `StoreInv`:
  percolation (a deleted trigger has no query, an armed one has) and the
  reading of the document (an armed trigger is still enabled).

`StoreInv` is preserved by itself (with `TypeOK`), `FiringInv` relative to it.
Both were checked with TLC before they were proved.

`TriggerFiringRefinement` proves `ContractHonoured`: `TriggerFiring` implements
`FiringContract` under the mapping at the end of `TriggerFiring` (`firingOf`,
`answerOf`), one lemma per kind of step. Besides `FiringInv` it needs
`AnswerInv`, which says of an event alone (so also when there are no triggers)
that it has no response before its handler ends and is stored before it fires.

`LifecycleProofs` proves `TypeOKHolds`, `ServesOwnIndicesHolds`,
`SystemTypesCompleteHolds` and `CountsBoundedHolds` from `LifecycleAssumption` and
`StatsAssumption`, for any aliases, releases, system types, counters and workers.

- `AliasInv`, for the indices: the aliases whose script has run stay as
  they must be while the others are worked on (the creation of an index cannot hit
  one of theirs, because it found none under its name), and the alias at work is what
  the last answer said.
- `SystemInv`, for the system types: for *every* release that shares both indices
  or neither with each release started so far, document and mapping of a type are
  both there or both missing, but for the one at work (`SyncInv`); and the types
  before the one at work are dealt with (`DoneInv`). It must speak of releases that
  do not run, because their indices are what a later start finds.
- `CountInv`, for the counters: a worker about to write has
  read less than the increments begun, and alone on its counter it has read its value;
  `QuietStart` says that nobody increments during a start, when `Service.Init` does.

`EventTypesProofs` proves `TypeOKHolds`, `NamesStayTakenHolds`,
`RefusedLeavesNothingHolds`, `TypesHaveMappingHolds` and `VisibleRefsProtectHolds` from
`EventTypesAssumption`. The invariant is `TypesInv`. What makes names safe
(`NamesInv`) is the mapping, which no deletion removes and which `NameExists` finds
even when the search for the document is stale; what protects a type (`ShieldInv`) is that a
reference seen and stored when the deletion began is seen until it is deleted.

`RepeatingEventsProofs` proves, from `CronAssumption`, `TypeOKHolds`,
`CreatedIsPersistentHolds` and `StoppedIsForgottenHolds` for any repeating events,
deleters, failures, crashes and page sizes. The invariant `DocsInv` follows each
document through the requests that store and delete it: a crons document without its
event belongs to a request at work or to one that was cut short (`PairInv`).
The theorems about the scheduler's jobs - `JobsCanBeStoppedHolds`,
`CreatedIsScheduledHolds`, `StoppedStaysStoppedHolds`,
`ChildrenNameTheirEventHolds` - have the hypothesis `OwnJobs`: no crash, or at
most one repeating event. It cannot be dropped: with two repeating events and a restart
all jobs run the last event loaded, as `cron_children` shows, and the jobs can no longer
be told apart. `JobsInv` is `DocsInv` with: every job is of its own event (`OwnInv`), the
scheduler was told of every stopped one (`ToldInv`), a created event has its
entry (`OnScheduleInv`), and a job has somebody to end it (`StoppableInv`).

`WipeProofs` proves from `WipeAssumption`, for any populations, page sizes, batches and
windows:

- `NothingDanglesHolds`: searches see at least what is stored (`SeenInv`), so a type found
  not to be in use (`CheckedInv`) stays so, since the tool only deletes.
- `TypeOKHolds`: the wait group holds the goroutines at work and those of the batch that
  were never started (`GroupInv`).
- `LeftForAReasonHolds`: while no page was listed after deletions showed and no call
  failed, every object is deleted or refused, or beyond the window, or on a page still
  to be started, or with the goroutine of its page (`LeftInv`). When the tool has ended
  the last two are impossible.

`EventDataProofs` proves `TypeOKHolds`, `StoredConformsHolds`, `ConformingAcceptedHolds`,
`ReadBackHolds` and `QueryMeetsDataHolds` from `EventDataAssumption`: for any alphabet, and
mappings, data, conditions and jobs of any size and depth. The invariant is `DataInv`.

- Events (`EventInv`): behind the strict mapping every leaf that is counted covers a
  variable of the mapping: it stands for it, or in the place of an object around it.
  No two cover the same (distinct paths without dots join to distinct names, and no leaf is
  below another), so this is an injection, and between finite sets of one size an
  injection is onto: every variable is covered, and a leaf in the place of an object covers no
  second one. This is how far comparing numbers goes, and why it needs the strict mapping.
- Conditions (`CondInv`): the document, *and the copy each update under way holds*, are
  what was posted after as many updates as that copy has been through; without the
  copies the property is not inductive, since a late update overwrites a newer document.
- Jobs (`JobInv`) and the query (`StoreInv`) do not change.

Facts about all sequences (what `FlattenSeq` computes, prefixes, how keys
are split and joined) are proved in `SequenceFacts` and at the head of
`EventDataProofs` by induction in the form of sets (`Induction`, `SeqInduction`): a set
that has 0 and with every number the next one has all numbers, since otherwise there
were a least number it lacks (`WFMin` of `WellFoundedInduction`).

Every inductive invariant was checked with TLC before it was proved. With
these theorems every invariant and every action property of the passing runs is
proved. Only model-checked are the liveness properties `EventsAnswered`,
`RemovedEntryGoes`, `Converges` and `EndsIfPagesFit`, because liveness
under fairness is out of the prover's reach; and, by their nature, the three violations.

## 5. Not modelled

- Filters and `Query*` of lists, and the reads by id other than those above: they
  pass a query to Elasticsearch and unmarshal the hits. The HTTP server: it
  decodes, calls the service and encodes. The calls of the client that the tool does
  not make. The TestElasticsearch endpoints, the mock index, `Kit.Stop`, the testing mode of
  `CreateIndex.sh`: tests and diagnostics. Logging and auditing.
- Which words name a mapping type, and the values of fields: `EventData` tells apart
  scalars, arrays, null, `[]`, arrays of objects, empty and geo objects.
- Two leaves of one condition that are rewritten to one key.
- Alerts posted directly by clients (any content, fresh id, met by nothing).
- The time arithmetic of cron schedules.
- Several instances of the service side by side: the platform runs one.

## 6. Plan

1. *(done)* `TriggerFiring` and `FiringContract`; `RepeatingEvents`; `EventTypes`;
   theorems about `TriggerFiring`, the refinement of `FiringContract` among them.
2. *(done)* `EventData`; `Stats` and `Lifecycle`; `Wipe`; theorems about the aliases, the
   counters and the deletion of types.
3. *(done)* Theorems about `RepeatingEvents`, `EventTypes` and `EventData`, and the
   rest of `Lifecycle` and `Wipe`: all invariants and action properties of the runs.
4. A composition of `TriggerFiring` with `RepeatingEvents`: runs of a repeating
   event are `PostEvent`s, racing with its deletion.
5. What of `JobsCanBeStopped` and `StoppedStaysStopped` survives `InitCron` with several
   repeating events: the last one loaded keeps its key.
