# A TLA+ model of proxmops

proxmops keeps a Proxmox VE cluster in the state a Git repository describes. A
single daemon reads manifests on every pass, plans what the cluster lacks, and
applies the actions in the background while it goes on scanning. This directory
models the daemon in TLA+, checks the models with TLC and proves what matters
most with TLAPS. `PROJECT.json` maps every definition to the Go lines it
translates, lists the runs, the hazards of the code and the property that covers
each, and the findings. Paths below are relative to `src/internal/`.

## The system

| Component | State it keeps | Operations | Modelled |
|---|---|---|---|
| Control loop (`app/app.go`) | none between passes but the status store | a pass every interval: effective configuration, new engine, scan; one-off delete | `Engine`, `Guests` |
| Engine (`reconcile/engine.go`) | the previous snapshot, from the status store | `Scan`: plan, record status and history, submit what the policy allows | `Engine` |
| Reconcilers (`reconcile/template.go`, `guest.go`, `iso.go`) | none | `Plan`: diff of manifests and a listing | `Planner` (not ISO) |
| Dispatcher (`reconcile/dispatcher.go`) | semaphore, in-flight registry, wait group | `Submit`, its goroutine, `Wait` | `Dispatcher`, `DispatcherHistory`, `ActionPool` |
| Proxmox client (`proxmox/`) | none; the cluster is the state | list, create, clone, update, reboot, delete: several API calls each | `Guests` |
| Status store (`status/status.go`) | snapshot, subscribers and their channels | set, get, subscribe, cancel | `Streams`; what the snapshot says in `Engine` |
| Settings (`settings/`, `server/settings.go`) | one row whose secrets are sealed | get, save, masked merge | `Settings`; their effect on the loop in `Engine` and `Checkout` |
| Key (`crypt/`) | a key in the environment or in a file | find or generate, seal, open | `Settings` |
| Accounts, sessions (`auth/`, `server/auth.go`) | two tables, the setup token in memory | init, setup, login, authenticate, logout | `Accounts` |
| History (`store/events.go`) | a table of events | record | `DispatcherHistory`, `Engine` |
| Source (`source/`), manifest loader | a working tree on disk, shared by all readers | clone, fetch, resolve, checkout, load | `Checkout`; a read that may fail in `Engine` |
| Log buffer (`logbuf/`, `server/logs.go`) | ring of lines, subscribers and their channels | add, snapshot, subscribe, cancel | `LogBuffer` |
| HTTP server (`server/`) | none of its own | events, logs, settings, delete, refresh | with the components it serves |
| Web UI (`web/ui`) | what each page shows | the status, the log, the settings form | `Streams`, `LogBuffer`, `Settings` |
| CLI, routing, packaging | none | start-up, presentation | not modelled |

How they interact. The loop calls the engine; the engine calls each reconciler,
which calls the client's listing; planned actions go to the dispatcher, whose
goroutines call the client and record `applied` or `failed` in the history; the
engine writes the status store, which the HTTP handlers read and whose broadcast
they forward to the browsers. Handlers save
settings, which the next pass reads, and delete guests on their own goroutine,
without the dispatcher. What survives a restart is the cluster, the database, the
key and the working tree.

Where it is hard. Actions last minutes and outlive the pass that planned them,
so every action is applied to a cluster, a repository and settings that may have
moved on; an action is several API calls, each of which may fail after having
done its work; the registry serialises by kind and name while the cluster goes
by VMID; the pool drops what does not fit; the status is a difference of two
snapshots of which a restart forgets one; and templates are built by one
reconciler, over several passes, for another to clone. The store replaces its
snapshot and sends it under two different locks, to channels that are read
meanwhile; so does the log buffer, for lines that two goroutines write. Requests
run side by side on the database without a transaction around what they read
and then write: two saves of the settings, two setups, a request and the logout
of its session. All sources work on one directory, and nothing keeps a checkout
from a load. Secrets are sealed under a key that may not survive the crash that
the row survives.

What makes each part correct: the dispatcher keeps its bound and one action per
resource and hands over one event per start; the engine never acts against its
options, reports drift whatever the actions do, and converges; the status agrees
with itself and with the history; the plans touch only tagged guests, delete
nothing declared and clone only what is ready; the jobs, failing anywhere, leave
what later passes can complete; a stream ends with the snapshot of the store; a
log page has each goroutine's lines in its order, and logging holds nobody up;
what is stored can be read after a restart, and what cannot be read is not
overwritten; a daemon can always be got into, by those who are let in only; a
load that overlaps no other is of one commit, and the loop reaches the newest.

## Modules

- `ActionPool`: what the dispatcher promises, abstractly: at most `Slots`
  actions, one per resource, one outcome per start, in order.
- `Dispatcher`: `Submit` and the goroutine it starts. `Submit` is one step: it
  runs under the mutex but for the wait group's `Add`, which follows the unlock,
  and only the caller of `Submit` ever waits, so nobody sees the two apart.
  The goroutine's steps are the apply function, the event, the release of the slot
  (outside the mutex, before the key goes) and the deferred unregistration with the wait group's `Done`. `PoolLost` is a
  crash.
- `DispatcherHistory`: the same with a caller that submits and finally waits,
  and with the recorded history. A ticket per start makes the order visible.
  The refinement mapping to `ActionPool` is `running`: the keys of goroutines
  that have not recorded their event.
- `Engine`: the loop and `Scan` on top of `Dispatcher`, whose variables and steps it
  shares. A resource is what its reconciler would say of it now (`World`); a pass is
  `BeginPass` (options are read once), `ScanPlans` or `ScanFails`, then one `RecordEvent`
  for each transition, then one `Submit` or `PassOver` for each action in the order of
  `Rank`, with everything else in between: `ScanPlans` sets the snapshot, which is
  broadcast at once, and the events come after it, each of which may fail to be
  recorded (`lost`), of which the code only logs a line. `last` is what the event table
  says of each resource's state.
- `Planner`: `Plan` of the template and the guest reconciler, as definitions
  over a repository and a listing. The branches of the code are sets of
  actions; the apply closures are lists of API calls.
- `Guests`: passes and jobs at a cluster. A pass lists twice (each reconciler
  calls `ListGuests`), then submits; a job makes its calls one after the other
  (`Call`), is refused (`Refused`) or fails with the call done or not
  (`Failed`). A new VM is made with the fields an update always writes (`Fresh`), the
  rest come after the import of its image (`Initialised`). `Click` is the web UI's
  delete, `Listed` the listings that lack a configuration (`ConfigUnread`) or a name
  (`Unnamed`). `Commit` and `Restart` are what they say; `Tamper` stops or reconfigures a
  guest, `TakeOver` tags, untags, renames, destroys or replaces one. Here the dispatcher
  is the pool it is proved to implement: a map from (kind, name) to the action.
  `astray` is history: the VMIDs of which the registry or the tag in the plan do not
  tell what they are there to tell, see below.
- `Streams`: the status store with the handlers of its streams and the tabs of
  the web UI. `Set` is `Store`, then the broadcast: `Begin` (who is subscribed
  now), `Send` for each subscriber, `MakeRoom` and `Resend` when its channel is
  full, `Done`; the handlers read in between but subscribe and cancel only
  outside, since the broadcast holds `subsMu`. A handler goes through
  `Subscribe`, `Paint` (`Get`), `Emit`, and then `Receive` and `Emit`; `Hangup`
  and `Cancel` end it and the browser may connect again. Snapshots are
  numbers. `Refresh` and `Answered` are the button that asks for the status
  beside the stream.
- `Settings`: the row, the key and the pages. A save is `Save` (the page sends its
  form), `PutReads`, then `PutSaves` or `PutRejected`, with everything else in
  between, since the handler locks nothing; `PutFails` is a query or a
  connection that gives out. `Start` finds a key or generates one, `CutShort`
  dies while writing it, `Rekey` is an operator. A generated key is in its file at once,
  but the file is not synced (`crypt/crypt.go:135`): `Flush` is the operating system
  that writes it, `MachineStops` a machine that goes down before or after. A commit of
  the database is durable. What the loop makes of the settings is not here: that it goes
  by the options it began its pass with is `Engine`, that an existing clone does not
  follow another repository is `Checkout`, and the number of slots is a constant of
  `Dispatcher`, since the code fixes it at the first configured pass
  (`app/app.go:256-259`).
- `Accounts`: handlers, each query of which is a step. `SetupCounts`,
  `SetupChecks`, `SetupCreates` and `SetupRetires` are the four of a setup;
  `Guard...` those of `requireAuth`. `LogoutFails` is a logout whose query fails: the
  handler answers 204 all the same and the session goes on. `late` marks a request that
  came when what it asks for was over. Hashes and passwords are left out.
- `LogBuffer`: `Log` puts a line into the ring under one lock; `Lock`, a `Send` for each
  subscriber and `Unlock` offer it under another (`subsMu`), which is held for all the
  sends and which handlers need to subscribe and to unregister. A page loads the ring
  (`Load`) and opens a stream (`Subscribe`, `Emit`, `Breaks`) that knows nothing of what
  it loaded.
- `Checkout`: the readers of one directory: `Open`, or `CloneBegins` (the directory),
  `CloneNames` (its remote), `CloneFetches` and the files; then `Fetch`, `Resolve`,
  `CheckoutFile` and `LoadFile` file by file. Another reader may open a clone that is
  still being made, a clone that fails is removed under whoever uses it, and one that is
  cut short stays as it is. `alone` marks a reader that no other one has overlapped.
  go-git is external.
- `PoolProofs`: what the steps of the pool keep, for `DispatcherProofs` and
  `EngineProofs`, which both build on `Dispatcher`. `GuestsProofs` (with what is
  proved of `Planner`), `StreamsProofs`, `AccountsProofs`, `SettingsProofs`: theorems
  about the modules they are named after. `SourceAndLogsProofs`: those about
  `Checkout` and `LogBuffer`, two components that have nothing to do with each other
  but that goroutines share them without a common lock (the names of `Checkout` begin
  with `Source` where both have one).
- `MCDispatcher`, `MCEngine`, `MCGuests`, `MCStreams`, `MCSettings`, `MCAccounts`,
  `MCLogBuffer`, `MCCheckout`: the instances for TLC.

Field values, names, user-data and templates are small sets; a disk is there or
not; of the configuration fields one is always written and noticed when pending
(like cores and memory) and one is a cloud-init scalar. Proxmox itself is
external: `May` and `After` say what it accepts and what becomes of a guest, as
far as the code relies on it. Whether a clone carries the tags of its source is
left open. A definition commented "Mutant" is a plausible bug and used by no
other definition.

## Runs

| Run | Instance | Question |
|---|---|---|
| `dispatcher` | 3 resources, 2 slots, 3 goroutines, bounded starts | Every interleaving of Submit, goroutines and Wait: bound, exclusion, history, Wait, refinement of `ActionPool`, a key is forgotten in the end. |
| `engine` | 2 resources, 1 slot, 4 option sets, 1 save, 2 upsets, actions may hang | `Policy`, `SnapshotConsistent`, `OutOfSyncIsExplained`, and `DriftReported` even if every action hangs; `Converges` and `PickedUpIfWorking` when none hangs or fails for ever. |
| `guests` | template on VMID 90, VM on 10; 4 repositories x 3 clusters to start from; 2 slots; 1 upset, 1 request (commit, deletion in the web UI, or listing without a name) | One job per guest, only tagged guests touched, clones wait, nothing declared is lost (where nothing is astray); the cluster settles. |
| `streams` | 2 tabs of which one may stall, channels of 2, 3 snapshots set, 1 stream that breaks or 1 refresh | What waits is the newest, a stream catches up, `Set` never waits for a reader, every snapshot or a newer one is shown. |
| `settings` | 2 pages, 2 keys to generate and 1 for the environment, 3 saves, 3 upsets | What is stored opens after a restart, what does not open is kept, a save changes what its page shows. |
| `accounts` | 3 handlers, 2 names, 2 starts, 2 sessions, 1 failed query (of a logout, too); symmetric in handlers and names | Always an account or a token; no account by who comes after the first; no request on a session that is over. |
| `logs` | 2 goroutines, 3 lines, ring and channels of 2, 2 pages of which one may stall, 2 lines shown, 1 hangup | The lines of a goroutine in their order on every page; logging returns. |
| `checkout` | the loop and a handler with 1 request, 2 files, 2 repositories, 2 commits, 2 upsets | A reader that is alone loads one commit; the loop reaches the head again and again. |
| `starvation` | violation | An action that fails on every pass keeps the next one out of a pool of one for ever: "picked up on a later scan" does not hold of it. |
| `ownership` | violation | The web UI's delete destroys an untagged guest at a declared VMID. |
| `halfbuilt` | violation | A template whose build failed before the image was imported is converted without a disk and reported in sync. |
| `repository` | violation | A repository URL that is saved after the first clone is never loaded: "applied without a restart" does not hold of it, nor would a restart help. |

The `violation` runs check a statement of the repository against what the code
does; `PROJECT.json` quotes the statement under "findings".

Bounds. Two resources and one slot are what it takes for one resource to keep
another out; three resources and two slots for a slot to be freed while a key is
still registered. In `engine` an upset is drift, a failed read or pass, an event that
cannot be recorded, or a crash: two of them are drift that is not recorded, or a crash
after it. In `guests` an upset is a failed call, a crash, a change by somebody else or a
configuration that cannot be read; one of them at any point of any interleaving,
together with one request, already reaches every partial state of every job, since each
job starts over from whatever the cluster holds. One template and one clone cover the
only dependency between resources. Two commits in `guests` make no difference to the
others in kind, but too many states.

What the four safety properties of `guests` except. `NothingLost` and
`WaitsForTheBuild` are about a repository that stays as it is (`spent.commit = 0`): a
template that is declared again while its deletion is under way is still listed, and a
clone planned on it is made of the half-built new one. And all four except a VMID that
is `astray`, which it stays until the daemon starts again. The registry goes by kind and
name and the cluster by VMID, so that a VMID comes to be astray when what is declared,
tagged, planned and under way there does not agree on one name and one kind (`Agree`): after a rename in the repository or at the cluster, after
a listing without the name, when a VM is declared where there is or was a template.
And no call looks at the tag again (`pve.go:581`, `615`, `655`, `cidata.go:123`), so that
a VMID is astray when somebody takes the guest over, or takes it away, while an action for
it or for a clone of it is planned or under way (`Handled`), or when it is being deleted
in the web UI. A restart, which forgets plans and jobs, leaves only the VMIDs that still
disagree. Where a VMID is astray, two jobs may work on one guest, untagged guests
be changed and destroyed and declared ones lost; everywhere else they are not, whatever
fails, crashes, is listed wrongly or reconfigured by others. `ownership` is the case that
the repository's own words exclude.

`Settles` is about the instance, and does not hold of every repository. Three that
would never settle, for good reasons or not, and that it leaves out: a template declared
where a running VM is (its conversion is refused for ever); a VM declared where somebody
else has a template (its creation is); and a VM manifest of the same name as a stray VM at
another VMID, when its creation fails on every pass: the registry drops the deletion
planned after it.

Channels hold 8 snapshots in the code: two are enough for a full one to lose its
oldest and keep a newer one, and three `Set`s overrun it. The proofs are for any
capacity. Two lines in the ring and in the channel, of three that two goroutines
log, are enough for the ring to move on and for a channel to drop a line.
Two pages are what it takes for one to save between the read
and the write of the other, and the third save for a page to go on with what it
showed then; three upsets are a machine that goes down before the key is flushed, a key
that is replaced, and a failed query, in any order. Three
handlers are two setups that overlap and a third that comes late. Two files are
what it takes to see two commits at once, two upsets a clone cut short and the
repository changed before the next.

Deadlock is checked in `engine`, `guests`, `checkout` and the violation runs. The other
systems may really stop: `dispatcher` after its caller has waited, `streams` and `logs` when the last snapshot or line has been shown,
`settings` and `accounts` when the daemon is down and the bounds are used up.

## Fairness

- The loop goes on: weak fairness of the loop's (of the pass's) next step. `Submit` never
  blocks, but this is an assumption and not a guarantee of the code: neither the fetch and
  the clone of the source (`source/git.go:78-87`) nor the requests of the Proxmox client
  (`proxmox/pve.go:43-48`) carry a timeout, so that one request that is never answered
  stops the passes for good.
- Goroutines are scheduled: weak fairness of each one's steps.
- Actions return (`ReturningSpec`): `waitTask` bounds every wait for a task, and the
  requests are assumed to be answered. `HangingSpec` does without.
- No action fails or hangs for ever (`Working`, the hypothesis of `Converges` and of
  `PickedUpIfWorking`): strong fairness of success per resource. This is an assumption on
  Proxmox, not on the code; `starvation` shows what happens without.
- `Guests` needs no strong fairness, because failures are bounded there.
- `Streams`: weak fairness of the broadcast, and of the handler and the browser of
  each tab that is not `Stalled`: a write ends within its deadline, a browser
  reconnects by itself. A stalled tab owes nothing, and `SetReturns` holds all the same.
- `LogBuffer`: weak fairness of the holder of the lock (its sends have a default branch),
  strong fairness of each goroutine that waits for it (`sync.Mutex` does not starve who
  waits), and weak fairness of pages that do not stall.
- `Checkout`: weak fairness of the next pass, and of each reader's next step: what it
  calls of go-git returns or fails, an assumption as above (failures are bounded there).
- `Settings` and `Accounts` state no liveness.
- Nothing is assumed of people, commits, settings, failures or crashes.

## Proofs

`PoolProofs` and `DispatcherProofs`, for any set of resources, any finite set of
goroutines, any bound of starts and any limit given to `NewDispatcher`
(`DispatcherAssumption`, `HistoryAssumption`). The safety properties are not
inductive: nothing in `OneWorkerPerKey` says that a key without a goroutine is
not registered. `PoolInv` adds the accounting: the semaphore holds as many
tokens as there are goroutines before their release, the wait group counts the
goroutines that are not done, and the registry is exactly the set of keys they
work on (`Accounting`); a goroutine works on the last start of its key
(`Carried`). `PoolProofs` shows that each step of the pool keeps it, once for
both modules that are built on the pool. The invariant of `DispatcherHistory`
adds the tickets and that a caller that has waited has no goroutines left
(`Quiet`). `Invariance` proves it, one lemma per action. From it follow `TypeCorrect`,
`MutualExclusion`, `BoundedPool`, `HistoryComplete`, `WaitIsFinal`, each the
property of the same content that run `dispatcher` checks, and `Refinement`: the
steps of a goroutine map to `Finish` when it records its event and to stuttering
otherwise, an accepted submission to `Start`, whose guards follow from the
accounting.

`EngineProofs`, for any resources, any order of their actions, any option sets and
bounds (`EngineAssumption`). The invariant is the types, `PoolInv`, the two
properties of the status, and two more. `Planned`: Scan gets to the actions of a plan
only with AutoSync on, and only to those of resources that the snapshot of the same pass
shows as OutOfSync. `PolicyIsKept` needs it, since `Submit` looks at the
dry run and at Prune but not at AutoSync any more. `EventOfShown`: the event still to be
recorded for a resource that is shown as OutOfSync is `drifted`. `OutOfSyncIsExplained`
goes through three ways to write the status (a pass that worked, one that failed, one
without a configuration), the events recorded or lost after it, and a restart; what
carries it is that a resource that becomes OutOfSync has its event in the list
(`BecomesOutOfSync`), and one that stays so was explained before (`StaysOutOfSync`).
`StatusIsConsistent`, `DriftIsLogged` and `PolicyIsKept` are the properties of run
`engine`. That an event cannot be recorded is part of what they say: from then on the
history does not explain what is shown, and no later pass makes up for it.

`GuestsProofs`, for any guests, names, fields, values, repositories and clusters
to start from, and any bounds, under `GuestsAssumption`, which only gives types: a commit
may declare any names and kinds anywhere, and somebody else may do anything to any guest.
First what is proved of `Planner`, for any repository and listing:
updates and deletes are planned only of tagged guests (`PlansTouchOwned`), creates only
where they take nobody's place, deletes never of what is declared, and a clone
that can succeed only when its template is ready. That what was true of the plan
is still true when a call is made is another matter: the listing may be old, the plan
older, other jobs, crashes and people have come between. `Invariance` has four parts:

- `IInv`: the types, and those of the arguments that the calls of a plan read (`Fitting`).
  `PlanGood` shows it of all plans, `AfterCall` of all calls; `TypeCorrect` follows.
- `HandInv`: which calls there can be, of what. Only a template is converted, only a
  delete destroys, only the creation of a VM clones, and finishes its clone right after.
- `WellInv`: at every VMID that is not astray there is one name and one kind (`Agree`), and
  what a job or a plan is about to change is tagged or gone, and no clone that is not
  tagged yet can take its place (`OursAt`). A VMID comes to be astray only by a commit, by
  somebody else, by a listing without a name or by the web UI; what has to be shown is that
  no other step brings in a second name or kind. Names come into plans from manifests and
  from tagged guests, and onto guests from jobs, and a clone gets its name one call before
  it gets its tag, so that what stands where a job is about to finish a clone must have its
  name already. And the calls of other jobs, which may delete a guest and take its VMID
  again, must be those of the same job: two jobs at one VMID would be of different kinds.
- `SteadyInv`: as long as the repository stays as it is, no delete, planned or under way,
  is of anything it declares, and the source of every clone, planned or under way, is a
  template now, except where it is astray.

`JobsKeepApart` is `OneJobPerNamedGuest`: the registry keeps apart jobs of the same kind
and name, and with one name jobs of the same kind and VMID are that. `KeepToTheirOwn`,
`DeclaredStays` and `ClonesWait` are `ReconcilersKeepToTheirOwn`, `NothingLost` and
`WaitsForTheBuild`. How little `astray` leaves out is the point of the definition: it is what disagrees
when the daemon starts, and is added to by the four events named above and nowhere else. What it leaves out is real. A rename
in the repository while the guest is being updated under its old name lets two jobs at it;
a guest that somebody untags after the listing is changed all the same; a VMID that holds
a tagged template and is declared as a clone of another one may lose the clone to
the deletion of the template. The code has no lock, check or validation against these.
`JobsArePooled` justifies the map of jobs: it is a pool as `ActionPool` describes it,
where the web UI's deletes take no slot.

`StreamsProofs`, for any tabs, capacity and bounds (`StreamsAssumption`).
`CaughtUp` is not inductive: it says nothing of a snapshot that a handler holds
and has not written. `Painted` adds that (what is held and followed by nothing
is the snapshot of the store), `Orderly` that room once made stays until the
second send, so that this send never fails. The rest is arithmetic on runs of
consecutive numbers (`RunTail`, `RunAppend`): the reader and `MakeRoom` both take
from the front, so that they cannot get in each other's way. `NewestKept` and
`NothingMissed` are the properties of run `streams`.

`AccountsProofs`, for any handlers, names and bounds. `SetupCloses` and
`RevokedStaysOut` follow from `LateIsOver`: a setup that came late has not counted
the accounts yet and will find one; a request whose session was over has not read
it yet and will find it so. It speaks of the row: after a logout that failed and was
answered 204 (`LogoutFails`) the session is not over. `NeverLockedOut` is inductive with the types: the
token goes only when the account is there.

`SettingsProofs`, for any pages, keys, edits and bounds. `KeyIsKept` needs
`KeyIsFound` (the running daemon's key is the one a start would find, unless an
operator changed it). It excepts `lost`: a machine that goes down before the key file is
flushed keeps the row, which was committed, and loses the key. The row cannot be read
then, and cannot be replaced from the web UI either, since PUT gives up on it
(`UnreadableIsKept`): the price of that property. `KeptUnread` needs `StaysReadable` (what a save has read
stays readable until it writes: the key does not change while the daemon runs, and what
another page writes meanwhile is sealed under it). `LeavesWhatWasLeft` is
`SavesWhatItShows`; a page shows what is stored until another page saves (`IsShown`), a
save holds what is stored until another one writes (`IsCurrent`), and both have to survive
the saves of everybody else and the loss of the key (`PagesInv`). `SaveMerges` is the
merge itself: what was left masked comes from the row, not from the page.

`SourceAndLogsProofs`. `AloneLoadsOneCommit` is `LoadsOneCommit`, for any readers, files,
repositories, commits and bounds under `CheckoutAssumption` (there is a file and a
repository, and the markers for none are none of the data). A load is of one commit because
the checkout before it was; `WritesOneCommit` says what the checkout has written
so far, file by file, as long as its reader is alone. `LinesInOrder` is `EachInOrder`, for any
goroutines, pages and capacities (`LogBufferAssumption`). A page is put together from
what the ring held and from what the stream brings; `LogOrder` relates the places a
line can be in: what waits in the channel of a live page comes after what the page shows
of the same goroutine, and the line a goroutine has still to offer is its last, so that
it comes after both. `LastOrdered` and `AppendOrdered` are the two things done to such a
sequence. `SourceTypeCorrect` and `LogTypeCorrect` are the types.

Only model-checked: every liveness property (the prover has neither `ENABLED` nor
fairness): `EventuallyForgotten`, `WaitReturns`, `DriftReported`, `Converges`,
`PickedUpIfWorking`, `Settles`, `SetReturns`, `Shown`, `LogReturns`, `CatchesUp`. Every
safety property of the passing runs is a theorem.

## Not modelled

- The ISO reconciler and the storages: it only downloads what a listing lacks, in
  one call; how its actions are dispatched is `Engine`. Image downloads that
  outlive their wait belong to it.
- Two manifests of a kind with the same VMID or name: nothing in the code rejects
  them; `Planner` assumes there are none.
- A task of Proxmox that outlives its wait and takes effect after later passes have listed
  the cluster: a failed call of `Guests` takes effect at once or never. The reads of one
  listing (the nodes, then each configuration) are one step, in which one configuration or
  name may be missing.
- A history that cannot be written to: `Engine` loses transitions, but in
  `DispatcherHistory` the outcome of an action counts as recorded when the sink has been
  handed it. A failing `AppendEvent` is only logged (`app/app.go:42-49`).
- The first clone that is cut short before its remote is named. `Checkout` reaches it:
  every fetch from that directory fails from then on (`NoRemote`), and nothing but an
  operator removes it. `CatchesUp` excepts it. A revision other than the default branch,
  and one that is changed in the settings, are left out.
- Numbers of cores and memory. Cores are read as cores times sockets and written
  as cores; a VM that proxmops made has one socket.
- The user-data a VM has not read yet: what is compared is the seed that is
  attached, so that a reboot that fails after it was replaced is not made up for.
  `Guests` reaches that state and no property forbids it.
- What a restart forgets: the snapshot before it. A resource that was corrected
  while the daemon was down may keep `drifted` as its last event; `Engine` reaches
  that, and states what holds in spite of it.
- Shutdown: `Run` closes the database while actions may still record events. An
  event that is lost so is one the crash of `Dispatcher` (`PoolLost`) loses too.
- SQL, YAML, ciphers, password hashes and cookies; routing, flags, the plan
  command, presentation and packaging.

## Plan

What is left, in the order of what it would add: tasks that end after their wait and
after a later listing; when a VMID is no longer astray without a restart; that the pool
under `Engine` implements `ActionPool` between two crashes, as `JobsArePooled` says of
`Guests`; the storages and the ISO reconciler, with downloads that outlive their wait;
numbers in the drift.
