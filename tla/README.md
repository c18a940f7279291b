# SentinelCore in TLA+

SentinelCore is an automation runtime for a game client.  A Lua kernel
(`src/sentinel/kernel`) decides which plugin may move, cast, face or target, collects what
plugins want to do, and once per tick turns it into effects.  Around it sit the modules that
want things (combat, questing, rotations), a navigation client, and Rust services for paths,
queries and the compilation of quest profiles.

This directory holds TLA+ models of three parts of it: the kernel's authority core (who may drive
the character, what happens when that changes, and what reaches the game), the two servers with
concurrent state (the quest editor and the navigation server), and the quest toolchain that turns
guides and campaigns into what the runtime executes.  The models are translated from the Lua and
Rust source, checked by TLC on small instances and, for the kernel, the navigation adapter, the navigation
server and the files of the campaign editor, proved by TLAPS for every instance.  `PROJECT.json` maps each definition to the lines it translates.

Contents: [the system](#the-system), [modules](#modules), [runs](#runs),
[fairness](#fairness), [proofs](#proofs), [disagreements found](#disagreements-found),
[not modelled](#not-modelled), [plan](#plan).

## The system

### Kernel

| Component | State | Operations | What makes it correct |
|---|---|---|---|
| Priority bands (`bands.lua`) | none | resolve a band and an offset, name a priority, map it to a spell-queue slot | no offset reaches a higher band; an activity can always be preempted by a reaction |
| Control broker (`control_broker.lua`) | `_held`, leases, `_cooling_until`, `_preempted_until`, `_live_caretakers`, the next generation, the tick | acquire, release, caretaker renew and submit, delegate, three sweeps, begin_tick, arbitrate, end_tick | the tables agree; a generation is never valid again once dead; no preemption hands over; expiry is exact; contention ends |
| Movement keys (`movement_release.lua`) | `_held`, `_desired`; the game's keys and the navigation client | release_all, set_desired, reconcile | the body stops when MOVEMENT is lost; belief never runs ahead of the keys |
| Intent queue (`intent_queue.lua`) | `_pending`, `_sequence` | submit, commit (dedupe, order, gates, generation check, execute) | every intent has one outcome; strongest first; nothing acts on dead authority |
| Gates and executors (`intent_executors.lua`, `timing.lua`) | the global-cooldown clock | a gate per condition of the game, an executor per type of intent | one cooldown buys one cast |
| Scheduler (`scheduler.lua`, `runtime/app.lua`) | tick index, handlers, fault streaks, budget | eight stages, from SENSE to ACCOUNT | what is authorised, expires, commits and is reconciled in the right order |
| Activity stack (`activity_stack.lua`) | `_stack`, `_delegations`, evaluators | push, pop, delegate, evaluate | lending ends with the lender; an interrupt takes over at once |
| Fault tracking (`fault_tracker.lua`), plugin and module registries | streaks, plugin states, eligibility, capabilities | fault, success, reinstate; discover, resolve, activate, suspend, unload, tick | only consecutive faults quarantine; a quarantined handler holds nothing |
| Clocks and snapshot (`tick_clock.lua`, `cadence_meter.lua`, `snapshot*.lua`, `truth.lua`, `forecast.lua`) | last time, calibration, frozen values | tick, capture, read | one frozen view of the game per tick |
| Event bus and blackboard (`core/`) | subscriptions; keys and values | subscribe, unsubscribe, publish; get, set, clear | a subscription that changes during delivery; values only, no live handles |

Everything runs in one Lua thread, but control passes between parties at every call: the
injector calls the tick, engine callbacks and event handlers run plugins, plugins call the
broker, the broker calls back (`on_revoke`), and the navigation client answers through
callbacks in later ticks.  A plugin keeps what it was granted across ticks, so each of its
steps may meet a broker that others have changed.  Every call into the game may throw.

A tick is: SENSE (publish the tick index, sense, poll navigation, plugin upkeep), EVENTS,
INTERRUPT (the evaluators of the activity stack), ARBITRATE (expire leases), ACT (modules and
rotations run and submit intents), COMMIT (drain the queue, then reconcile the keys), RENDER
and ACCOUNT (retire caretakers, count faults).

### Around the kernel

| Component | State | Interaction | Hard part |
|---|---|---|---|
| Navigation adapter (`integrations/nav_client/adapter.lua`) | the lease and the request behind it, owner, active command, last dispatch | claims MOVEMENT, commands the navigation client, renews in `poll`, hands back | a lease revoked while a path is in flight, and callers with different names sharing one adapter |
| Combat (`modules/combat`) | engagement state, target, chase, flee | claims navigation, submits casts | chase, flee and questing contend for one client |
| Questing (`modules/questing`) | position in a profile, retries, deadlines, a save file | drives navigation and interactions, queries the query server | resuming from a save, timeouts that race late answers |
| Rotations and behaviour trees (`rotations`, `core/bt`) | running nodes | submit casts | content more than protocol |
| Query and editor clients (`shared/*_client.lua`, `ui/async_slot.lua`) | cache, in-flight requests, poll counters | HTTP with answers in a later tick | late and missing answers |
| Navigation client (`SentinelNavClient`) | hierarchical state machine, path, recovery | commanded by the adapter, requests paths | repathing, recovery, stale paths |
| UI and debug bridge (`ui`, `mcp`) | panels | read the state | none of the system's decisions |

### Servers and tools (Rust)

| Component | State | Operations | Hard part |
|---|---|---|---|
| Quest editor, campaigns (`editor/src/campaign_*.rs`) | sessions with undo and redo under one lock; files | create, load, delete, save; add, change and remove nodes, edges, graphs, conditions; undo, redo | a save is three system calls; creates and deletes work outside the lock; stops of the server |
| Quest editor, projects (`editor/src/{history,server,lib}.rs`) | sessions; a project as one file or as a directory | create, load, save, rename, copy, delete; operations and actions; undo, redo | everything on disk is outside the lock, one file at a time; a stop in the middle of a rename |
| Navigation server (`SentinelNavServer`) | permits, one mesh, query pool and lock per map, the path cache | find, avoid, corridor, multi-leg paths | zones are stamped on a mesh that all requests share |
| Guide importer (`SentinelQuesting/importer`, `import-guides`) | libraries, notes and the last target while a guide is read; a directory of projects | split a bundle, parse, resolve NPCs and quests, enrich waits, write files | answers of the query server that fail at any call; line numbers; names of files |
| Quest compiler, validator (`compiler`, `validator`) | none | a runtime profile, a kernel task graph, findings | gates decide what is left before anything is linked; two targets for one condition language |
| Campaign resolver (`resolver`) | none | flatten imports under their layers, order a graph, lower tasks | splicing out skipped nodes; telling a failed lookup from an empty one |
| Query server (`SentinelQueryServer`) | a read-only database | `POST /resolve` and lookups | none of its own |

The hazards, each at its line with the properties that watch over it, are in
`PROJECT.json`.  Those with no property carry the reason.

## Modules

```
Bands   MovementRelease                    Handover  (abstract)
     \   /                                  |      \
  ControlBroker --- BrokerPromise (refines) +    HandoverRace
   |    |    |
   |    |  ActivityStack
   |  NavAdapter
  KernelTick --- INSTANCE --- IntentQueue

  CommandHistory                              NavServer
   |            |   INSTANCE
  CampaignEditor  ProjectEditor
           \      /
        MCQuestEditor

  GuideGates  Conditions
         \     /
        TaskGraph
         |      \
  GuideParser  QuestCompiler                  CampaignResolver
          \      /                                 |
       ProjectBuilder                          PlanAuthoring
             |                                     |
         QuestTools                            PlanRoutes
```

Theorems about a module `M` are in `MProofs`, but for these: `ControlBrokerProofs` also has those about
BrokerPromise, and `KernelProofs` has those about KernelTick and ActivityStack.  What contains the broker extends `ControlBrokerProofs`.

### The kernel

**Bands** holds the band table and its operators as pure definitions.

**MovementRelease** has the keys: what a `move` asked for (`desired`), what the kernel believes
pressed (`pressed`, the source's `_held`), what is down in the game (`down`), and whether the
navigation client drives (`navigating`).  A call into the injector may throw for the keys
of `KeyFaults`; the outcome is a free choice at each call.

**ControlBroker** is `control_broker.lua` with one action per operation.  `lease` maps a
generation to its lease record; a lease that was revoked is `Dead`, since the code unhooks it
and reads only its `revoked` flag afterwards.  Sweeps and expiry collect leases first and then
revoke them, so they are one step over a set.  `Preempt` reproduces a detail that matters: a lease
is found through its first contested channel, only that channel is charged with a cool-down
and a back-off, and the lease's other channels fall free uncharged.  A request is a set of
channels, not a list; the two places where the order of the list shows are free choices.  The
movement keys are part of the state because every revocation may sweep them.
The order of the operations is left entirely open: callers reach the broker from anywhere in the
tick.  A request that is refused changes no state in the code, and is no step of the model.

**Handover** is the promise of the broker to its callers, without leases, generations or
absolute ticks: who holds a channel, at what rank, and for how many more ticks it is closed to
all or to one owner.  **BrokerPromise** is the refinement mapping (`Promise`): a lease shows as the owner and the
rank of its channels, an absolute tick as the ticks that remain.

**HandoverRace** puts a contender and its rivals on Handover and asks whether the contender
ever gets what it wants.

**IntentQueue** is `submit` and `commit`.  A commit runs without interruption in the code; here
each intent leaves the queue in a step of its own, so that the order of effects can be seen
and the cooldown the first cast starts is met by the second.  An action is the dedupe key of an
intent (type and payload).  The gate of the global cooldown is modelled; any other gate may refuse
anything, because it reads the game or throws.  The `authorised` pairs are what the
generation validator accepts; on its own the module lets them change between commits, and
KernelTick puts the broker there.

**KernelTick** composes broker, queue and keys in the order of the scheduler's stages.  Callers
act in INTERRUPT and in ACT, any number of times, with any operation of the broker, and submit
through their caretakers.

**ActivityStack** is push, pop and delegate over the broker, with the rest of the kernel acting
around them.  Its guards are the code's: only the activity on top lends, and only what it holds.

**NavAdapter** is the adapter with its callers: questing, chase, flee, and plugins that follow
paths.  A Lua call that makes several steps
visible (claim, dispatch, hand back) is several actions with `call` holding what remains; nothing
else runs in between.  The flee is the longest: it stops and releases a chase (`chasing` is the
blackboard's `nav.owner`), moves, and releases again.  `OnRevoke` conjoins the adapter's revocation callback to every step of the
broker that takes its lease.

### The servers

**CommandHistory** is the undo and redo structure, which the source has twice.  `Apply` and
`Reversal` are its parameters; the two editors instantiate it with their commands.

**CampaignEditor** has one action per request that changes a campaign and one per system call of a write.
A request that edits holds the lock from the change to the end of the save; `req` says which call comes next.
Creates and deletes touch the disk without the lock, as in the code.  Two ghosts name the exceptions
of the properties: `unsaved` (the last save failed, which the handler reports) and `overlapped` (a create or
delete met another request on the same file, for which the code promises nothing).

**ProjectEditor** is the same for projects, where the disk is outside the lock altogether: a directory
is cleared, its index written and then its operations, with a stop or another request possible after each.
`met` is the ghost for two requests on one name.

**NavServer** has one record per request with the step it is at: permit, loading lock, parameters, mesh, pool, query,
lock, zones, searches leg by leg, restoring.  A mesh is the area of each of its polygons, a search
reads whether any of them is stamped by another request, and the cache remembers it.  The configuration allows one
to `MaxPermits` requests at once.

### The quest toolchain

These are pure programs; what happens in their runs is an author who writes a draft and has it read.

**GuideGates** resolves a `<<` gate or a directive for one character (archetype.rs).  **Conditions** is the
parser of the condition language, as a recursive descent over tokens, with the sinks it can feed: the runtime
profile's and the kernel artifact's.  **TaskGraph** is the kernel lowering: which steps survive the gates,
the routes and ops they become, and the graph over them.  **QuestCompiler** is the
runtime profile and the validator.  **GuideParser** goes from the lines of a bundle to parsed
guides; a line is a record of what the lexer makes of it.  **ProjectBuilder** makes a project of a parsed guide,
threading its state (calls made, calls that fail, libraries, notes, last target) through the commands, and has the
naming of the files of an import run.

**QuestTools** is the author: four desks (a gate, a condition, a guide, the source of a bundle), to each of which pieces are
added one at a time, and the tools may read the draft at any point.  Its properties do not follow the
tools' steps: conditions are read by splitting at the loosest operator instead of by descent, a guide for a character is
compared with the compilation of a guide from which a person struck out everything else (`Tailored`), an
import with the lines of the source.

**CampaignResolver** holds the operators of the resolver: the database with lookups that may fail, the
schemas and lowerings of the ten task types, import layers, the order of the operations, the plan.  `Then` is the `?` of the
code.  **PlanAuthoring** is the author of a campaign that imports another: edits of the graph, of a task's intent, of
the import's skipped nodes and overrides, and requests to resolve against a database that answers everything or
not.  Its databases are one snapshot of the game's data, some of which cannot do all lookups (`DatabaseAssumption`).
**PlanRoutes** has the properties that read the plan as a route, against walks through the skipped nodes.  They are about an
author whose only import is a campaign of one graph, which may itself import campaigns that are missing or lead back to the
author (`RoutesAssumption`); within that, library, graph, layer and own graphs are arbitrary.

The `MC*` modules give the constants their values; each `.cfg` is one question.

In several modules an operator precedes the definition it resembles and differs from it in one
detail, under a comment that starts with "Mutant".  They are plausible mistakes in
the code at that place, and no specification uses them: substituting one for the
definition makes the corresponding property fail, which is how each property is known to depend on
what the code does.  `PROJECT.json` pairs them.

## Runs

| Run | Instance | What it shows |
|---|---|---|
| `body` | an activity and a safety behaviour, 2 channels, 2 generations, 3 ticks, a key whose calls may fail and a key a plugin presses itself | `BodyStopsWithTheLease` however MOVEMENT leaves a lease, `PressedAreDown` through failing calls, and `KeepsHandoverPromise`: the broker refines Handover |
| `queue` | 4 actions, 2 claimants, up to 3 intents | `EveryIntentLeavesOnce`, `OneCastPerCooldown`, `MostAuthorityWins` while gates refuse, executors fail and leases come and go |
| `race` | one wanted channel out of 4, one rival | `ContenderWins` (liveness) |
| `nav` | questing, combat and a safety behaviour, one destination, 3 generations, 3 ticks | `ClientUnderLease`, `RevocationIsNoticed` |
| `tick` | an activity and a rotation, 2 channels, 2 intents, 2 ticks | `OnlyLiveLeasesAct`, `KeysFollowTheDesire` over whole ticks |
| `stack` | two activities and a service, 2 channels, 3 generations, depth 2 | `HoldingsAgree`, `GenerationsNeverReturn`, `NoDirectHandover` through every order of the broker's operations and the stack's; `LentWhileOnStack`, `InterruptTakesOver` |
| `editor` | two clients on one campaign, or on two projects; one stop | histories replay, files are whole, sessions agree with files, a rename loses nothing |
| `nav_server` | two requests of every kind, one map that is there and one that is not, overlapping zones, one or two permits | `AreasRestored`, `LockedSearchesReadTrueAreas`, and `EveryRequestAnswered` (liveness) |
| `cached_paths` | as `nav_server` | violated: a path found across another request's zones is kept |
| `quest` | drafts of up to 3 arms of a gate, 5 words of a condition, 4 steps of a guide, 4 pieces of a bundle; 2 characters | eleven properties of importer, compilers and validator |
| `subzone` | bundles of 2 pieces | violated: a `.subzone` wait is always true in the runtime profile |
| `resolver` | a route of 4 nodes with up to 3 edges and 3 skipped nodes, or one task of each type with one override; 5 states of the database | skipping, ordering, failed lookups, empty operations |

Bounds.  `MaxGeneration` bounds the leases granted in a behaviour: two let a channel change
hands, three let a preempted owner return or a channel be lent after it changed hands.
`MaxTick` bounds the ticks: with the default cool-down of one tick, tick 1 is closed to everyone,
tick 2 to the loser, and a lease with a time to live of one or two expires within the bound.  Two channels are what it takes for a
lease to be found through one channel and to lose another.  In `queue` three intents allow a pair
of equal ones with a third between them, or three casts on one cooldown.  In `nav`, `NavLeaseTtl`
is 2 as in the code, so that three ticks let a lease run out.
`MaxSubmissions` and `MaxDepth` bound the queue and the stack.

In `editor`, `MaxRequests` is 2 so that two requests meet on the disk, `MaxIds` and `MaxEdits` are 2 and the histories remember 2
commands, so that a third command would fall off the limit only with redo in play and an undo meets an item that
was added after the one it removes; `MaxStops` and `MaxCrashes` are 1, and a stop may fall between any two system calls.  The operation that
is on disk at the start gives a rename something to lose.  The two halves share no state, and a behaviour works on
one of them.  Clients and projects are symmetric: no property and no action tells them apart.
In `nav_server`, two requests suffice for a lock to be wanted while it is held and for a map to be
looked for while it is loaded; zones `{p1,p2}` and `{p2}` overlap; `MaxLegs` is 3 for a
path_multi to come back to the lock.
In `quest`, `MaxSteps` lets a step, its target by label, a step between them and one gated out
meet; `GoalBandEnd` is cut to 35, so that the bands of holding tasks run out within a draft.  `MaxWords` is 5 and a word
may be a whole call, enough for `a || b && c`, and `MaxDepth` is 2, enough for nesting to be refused.  Integers are cut to 255 and
65535 where the code has u8, u32 and i32; `300` is a word that fits one and not the other.  `Outages` are: no call fails, the first, the
second, all but the first.  `MaxFiles` stops imports into a directory that holds two files.
In `resolver`, three edges make a diamond without its last side, a loop with a way in and a chain of four; three
skipped nodes leave one.  `MaxU8` is 5 and `MaxU32` 7, with values above and below each.

Deadlock is checked everywhere except in `tick`, where at the last tick nothing is left to do, and in `editor`, `quest`,
`subzone` and `resolver`, where a session ends when its bounds are used up.

The race needs no bound, since Handover counts its ticks downwards and is finite.  Its cool-down is three
ticks, longer than the default of one, with which it holds too.

The refinement is checked in `body` with two generations and not in `stack` with three, where
its quantifiers make the run long.

## Fairness

HandoverRace has weak fairness of `NextTick`, because the injector calls the
update handler every frame and the scheduler ticks on each, and weak fairness of `ContenderAsks`,
because the contender of `ContenderWins` is by definition one that retries in each tick (the
test of the broker, `src/sentinel/tests/kernel/test_control_broker.lua:679`, calls it "a retrying
preemptor").  Rivals have no fairness: they may do anything or nothing, before or after the contender
in each tick.  Note what the result does not say: with two rivals the contender may be shut out,
because the back-off bars one loser only, and the other may take the channel before the contender asks.

NavServer has weak fairness of each request's own steps, because a request is a future the runtime polls on threads that keep
running and none of its steps waits for another request, except the locks: requests queue for `pathfind_lock` in the order they come, so the first in the queue keeps its
turn and weak fairness is enough;
the loading mutex (`LocksMap`) has no queue in the model and gets strong fairness: a
thread that waits for a mutex that is freed again and again gets it.  A restart, a cancelled request and new requests have none.

The other specifications state safety only.

## Proofs

`ControlBrokerProofs` proves about ControlBroker, for any channels, owners, requests, cool-down,
faults and bounds, from the assumptions `BrokerAssumption` and `KeysAssumption` alone:

| Theorem | Says |
|---|---|
| `BrokerTypes` | `Spec => []TypeOK` |
| `HoldingsAlwaysAgree` | `Spec => []HoldingsAgree` |
| `GenerationsAreForEver` | `Spec => GenerationsNeverReturn` |
| `HandoversGoThroughFree` | `Spec => NoDirectHandover` |
| `BodyAlwaysStops` | `Spec => BodyStopsWithTheLease` |
| `PressedAreAlwaysDown` | `Spec => []PressedAreDown` |
| `DesireNeedsDiscipline` | `Spec /\ MovesAreDisciplined => []DesireIsLeased` |
| `BandsDominate`, `ActivitiesStayBelowCombat`, `InterruptSlotIsForReactions` | facts of the band table |

The other proof modules, each for any values of its module's constants and from the named assumptions on them alone:

| Module | Theorem | Says |
|---|---|---|
| `ControlBrokerProofs` (BrokerPromise) | `PromiseInvariant` | `Spec => []PromiseInv` |
| | `BrokerKeepsPromise` | `Spec => KeepsHandoverPromise` (the refinement) |
| `IntentQueueProofs` | `QueueInvariant` | `Spec => []QueueInv` |
| | `IntentsLeaveOnce`, `OneCast`, `AuthorityWins` | `EveryIntentLeavesOnce`, `OneCastPerCooldown`, `MostAuthorityWins` |
| `KernelProofs` | `TickInvariant` | `TickSpec => []KernelInv` |
| | `AuthorityIsLive`, `KeysEndAsDesired` | `OnlyLiveLeasesAct`, `KeysFollowTheDesire` |
| | `StackInvariant` | `StackSpec => []StackInv` |
| | `LoansEndWithTheLender`, `InterruptsTakeOver` | `LentWhileOnStack`, `InterruptTakesOver` |
| `NavServerProofs` | `NavInvariant` | `NavSpec => []NavInv` |
| | `AreasAreRestored`, `LockedSearchesAreTrue` | `AreasRestored`, `LockedSearchesReadTrueAreas` |
| `NavAdapterProofs` | `AdapterInvariant` | `NavSpec => []AdapterInv` |
| | `ClientDrivesUnderLease`, `AdapterNoticesRevocation` | `ClientUnderLease`, `RevocationIsNoticed` |
| `CampaignEditorProofs` | `DiskInvariant` | `CampaignSpec => []DiskInv` |
| | `CampaignsAreWhole` | `CampaignSpec => []FilesAreWhole` |
| | `AgreementInvariant` | `CampaignSpec => []AgreeInv` |
| | `SessionsAreOnDisk` | `CampaignSpec => []SessionsAgreeWithFiles` |
| | `HistoryInvariant` | `CampaignSpec => []HistInv` |
| | `CampaignsReplay` | `CampaignSpec => []CampaignHistoryReplays` |
| `ProjectEditorProofs` | `ProjectInvariant` | `ProjectSpec => []ProjectInv` |
| | `ProjectsRewind` | `ProjectSpec => []ProjectHistoryRewinds` |
| | `RenamesKeepOperations` | `ProjectSpec => RenameKeepsOperations` |
| `PlanAuthoringProofs` | `AnswerInvariant` | `AuthoringSpec => []AnswerInv` |
| | `PlansAreWhole` | `AuthoringSpec => []BrokenReadsNeverShow` |
| | `EmptyOperationsAreTold` | `AuthoringSpec => []EmptyOperationsAreReported` |
| | `RoutesInvariant` | `AuthoringSpec => []RoutesInv` |
| | `RoutesStayWhole` | `AuthoringSpec => []SkippedNodesLeaveTheRoute` |
| | `OperationsFollow` | `AuthoringSpec => []OperationsFollowTheGraph` |

Those of NavAdapter and of the two editors have hypotheses of their own, stated in the theorems and explained below.

The inductive invariant is `BrokerInv == TypeOK /\ HoldingsAgree /\ FutureIsDead`.
`HoldingsAgree` alone is not inductive: a grant writes the record of the next generation, and
nothing in it says that no channel already points there.  `FutureIsDead` does: a generation that
was not issued is dead, so by `HoldingsAgree` nothing is held under it.  There is one lemma
per operation (`PreemptInv`, `RenewInv`, `GrantInv`, `DelegateInv`, ...), and the revocations share
`UnhookKeeps`, since they all end in `Unhook` of a set.

The action properties do not go through every operation.  `StepKinds` shows that a step of the
broker does one of five things to the leases and the keys: it revokes a set of leases, grants, extends a
lease, detaches a channel, or leaves the tables alone.  Each property is then proved for the five
kinds.

`DesireNeedsDiscipline` is conditional on purpose.  `DesireIsLeased` is false of the code,
because the commit stage does not look at channels; the theorem shows that
this is the only way for a desire to outlive the lease on MOVEMENT.

**BrokerPromise.**  The initial states map to an initial state of Handover and every step to one of its steps or to
a stutter; again one lemma per kind of step.  `BrokerInv` is not enough: Handover speaks of owners and of the ranks
requests can have, so the claim of a live lease must be one that some request made (`ClaimsAreMade`).  It needs saying
because a lease keeps the priority of its first grant through renewals, and a lent channel that of its lender.

**IntentQueueProofs.**  `QueueInv` says how a commit divides its intents: the beaten ones are set aside at once (`Sorted`), the
others are in the queue or in one bucket (`Accounted`, by counting), and a cast on the cooldown that took effect has started it
(`Cooling`).  The order of the commit is total on the intents of a drain, since sequence numbers differ; so
a sorted list of a set has each member once (`OrderedLists`).

**KernelTick.**  `OnlyLiveLeasesAct` is not inductive: the generation check of the commit looks at `live` and not at
`expires`.  What makes it true is the order of the stages (`Unexpired`): arbitration takes every lease that ran out, and
whatever is granted, renewed or lent after it in the same tick has a time to live of at least one.  For the keys,
`Tracked` says that those down are those believed pressed, outside of `DirectKeys` and without failing calls, so the
reconcile at the end of a commit leaves down what is desired.

**ActivityStack.**  `LentWhileOnStack` needs only that the stack's entries are well formed and that a dead lease never comes back to hold a
channel: the leases that hold something grow only by the one a step creates (`Survivors` of `ControlBrokerProofs`).

**NavServerProofs.**  `NavInv` has a part about requests (`Placed`: at each step a request holds what the step asks for, and has
stamped no polygon twice) and one about meshes (`Guarded`: a polygon is stamped exactly if the writer of the lock remembers it; readers and
a writer exclude each other).  Neither is inductive without the other: restoring what a request remembers gives back a whole
mesh only if nobody else stamped it, and nobody did only as long as each stamping request holds the write lock.

**NavAdapterProofs.**  The hypotheses are `NavFaults = FALSE` (the client's `stop` does not throw: where it does, the client
drives on, since the kernel swallows the error) and `OwnersApart` (no request of another plugin names an owner of the adapter).
Both hold in the run `nav`.  `Booked` says that the adapter's generation, owner and flag follow one
lease, and `OneLease` that it has no other.  `Booked` must also say that MOVEMENT is not closed to the holder: the adapter
renews through `acquire`, and a refused renewal would leave the client driving under no generation.

**CampaignEditorProofs.**  `MarksAreApart` says that the marks for a missing and a half-written file, for no session and for no
campaign have no `name`, `id` or `campaign`, which tells them from every campaign and session.  `DiskInv` has three parts beside `FilesAreWhole`:
the sessions, files and requests hold campaigns of their own name (`Tables`; no command, undo or redo renames one), a save has the lock
and two requests on one file have been noticed (`Apart`), and a writer that is alone on its file finds the temporary file as it left it
(`Progress`).  Without `Progress` a rename could put a half-written file in place.

`SessionsAgreeWithFiles` is about moments at which nobody works; `AgreeInv` says what holds on the way there, for a name on
whose file no two requests have met: at rest the session is what the file says, a save writes the session's campaign
and nothing else, and a create or a delete that is underway found no session that a later read could take for the file's.
It assumes `SlugsDiffer`: campaigns whose names have one slug share a file and overwrite each other, as the code lets them.

`CampaignHistoryReplays` needs induction over the history.  An undo may put an item at another place of its
list than it had, so two campaigns are compared by their `View`: the graphs, nodes, edges and conditions they hold, wherever these
stand.  A command takes some items out of the view and puts others in (`Link`); one that leads from a view to another
can be applied to every sound campaign of the first view and makes one of the second (`LinkApplies`), and its inverse leads back.
`HistInv` says that every campaign, in a file, a request or a session, is sound (no id twice in a list), and that the two stacks of a
session are chains of links from its campaign.  `CampaignUnwinds` takes a chain to the result of undoing it whole.  Soundness
depends on new ids being new: the hypothesis `IdsAreFresh` says that no campaign's name is one of the ids the server generates.  The
campaign and the graph of an earlier run of the server have their name for an id in the model; in the code all ids are v4 UUIDs, and that no two are
equal is what the code itself relies on.

**ProjectEditorProofs.**  `MarksHaveNone` says of the marks for an absent or half-written file, no session and no project what
`MarksAreApart` says of those of campaigns.  Here an undo may put an action elsewhere in its operation, and commands go by index,
so what a history can rely on is the `Shape` of a project: which operations it has, in which order, and how many actions each.  Every
command leads from one shape to one other (`Link`), and whether the commands of a stack fit depends on shapes alone (`Trail`).
`ProjectInv` is that files, directories, requests and sessions hold sound projects and that both stacks of a
session are trails; reading a directory back is a recursive function over its index, and `DirectoryReads` is proved by induction on
how many entries are read.

`RenameKeepsOperations` speaks of the one step that unlinks the old form.  `RenameInv` says how a rename came to it: requests
that met nobody have their names to themselves (`Apart`), and for each of its steps up to that one, in both forms on disk, what is already under
the new name and what is still to be written (`OnTheWay`): the index is whole and every operation it lists is a file or in the
list of those to write.

**PlanAuthoringProofs.**  The state is easy (`AnswerInv`: the answer on the table is the resolver's answer about the campaign as it
stands); the work is in the resolver's operators.  A lowering is a chain of lookups, each of which may fail and some of which may
find nothing, and there is one lemma per lowering (`QuestAgrees`, `TravelIsSound`, `LowerIsSound`, ...) that says both
of its result: it is a failure or what the healthy database gives (`Agrees`), and if it has no actions it has an error (`Told`).
`NodeIsSound` adds that the error carries the node's id, `AssembledHas` and `GraphIsSound` go from the nodes to the plan, and
`FirstIsSound` to what the resolver returns.  The assumption is `DatabaseAssumption`: the healthy database can do every lookup, and all
databases have its fingerprint, as they are one file.  A plan carries the fingerprint, so without the
second half two answers could differ in it.

The theorems about routes add `RoutesInv`: what is imported stays one graph with distinct ids under one layer (`RoutesAssumption`
says that it is at the start).  It and `AnswerInv` are inductive by themselves, and `RoutesStayWhole` and `OperationsFollow` follow
from the two; the argument is about the operators, for graphs and layers of any size:

- `FlatteningRuns` unfolds the imports, whatever imports what: the chain of campaigns above grows within a finite set.
  `OneGraphComes` says what is left to resolve: the imported graph under the layer, then the author's own.
- Removing a node replaces its edges by one for each way in and each way out (`Removed`, `EdgesWithout`).  Step by step that
  invents no way (`NoWayIsInvented`: an edge after n removals is a way joined at most n times) and cuts none
  (`WaysContract`: a simple way through a set of nodes is a simple way without any one of them; `NoWayIsCut`).  Where nothing
  branches, the entry moves along (`LeadingContracts`, `EntryFollows`); with branches the code follows the first edge
  out, and nothing is claimed.
- `OrderIsWhole` says that the order has every node once and takes one before it is ready only when none is.  By `NoEdgeBack` an
  edge then leads back exactly if there is a circle or an edge to the start: when a node is taken before it is ready,
  each of those that are left has another of them before it, which is a circle; and of a circle's nodes the one
  that is taken first has an edge back to it.
- `OperationsAre`, `OrderFollows`, `LayerKeeps` and `LayerLeads` carry this to the operations and transitions of the plan, and
  `AnswerIs` to the answer, whichever request asked.

**Induction.**  The induction theorems of the library take an operator as a parameter, which no prover here can instantiate.
The proofs of the editors and of the resolver use the well-foundedness of `<` instead, which gives every non-empty set of naturals
a least element; `NatSetInduction`, `NumberInduction` and `SetInduction` follow, and state induction for a set in place of an
operator.  For the same reason a recursive function has to be shown to exist before its equation may be used: `Repeating`
shows it for a step that is repeated, which most of the resolver's functions do, and `FlatteningRuns` for the imports.

Only model-checked: liveness (`ContenderWins`, `EveryRequestAnswered`), which like ENABLED is out of the provers' reach, and
the properties of QuestTools.  Conditions, TaskGraph, GuideParser, QuestTools and the modules above them declare RECURSIVE
operators (a parser, routes that are linked); tlapm has no SMT backend in such modules, so nothing is proved there.

## Disagreements found

Two runs end in a violation.  Each checks one sentence of the repository against the code; the
quotations are in `PROJECT.json`.

1. `cached_paths`.  find_path searches without the lock and keeps what it finds, while another request's zones
   are on the mesh it searches.
2. `subzone`.  The importer writes a wait that the runtime profile's compiler has no condition for, and puts
   an always-true one in its place.

Others are stated in the modules and can be seen by adding the property to the run's `.cfg`:

- `ContenderWins` with two wanted channels (`Wanted` in `MCHandoverRace.cfg`).  The loser's back-off protects one
  channel per lease (control_broker.lua:350-364).  For a contender that needs two channels its rival holds
  together, the guards of control_broker.lua:32-34 do not converge.
- `DeadDriverLosesMovement` (NavAdapter).  The navigation lease is renewed by the kernel's own poll, so it does not expire
  with its driver (adapter.lua:133-138, 502-506).
- `FleeMoves` (NavAdapter).  Having ended the chase, the flee hands MOVEMENT back in the call that commanded the movement, and
  handing back stops the client (modules/combat/module.lua:889-922).
- `EveryGuardIsCarried` (PlanRoutes).  A guarded edge of an imported graph arrives without its condition, since
  guards are looked up in the importing campaign alone (resolve.rs:275-289, 512-535; resolver/tests/resolve.rs:588-589).

Further ones are recorded as hazards with a note: a claim of a dead lease displaces a live one in
the dedupe; a key whose lift failed is never lifted again; combat in range stops navigation that
questing holds under no name; creates and deletes of one campaign at the same time.  Undoing the removal of an action
puts it at the end of its list (history.rs:225), so the histories are compared up to that order.

## Not modelled

Within the modelled components:

- Which plugin presses a key itself, and when it lifts it: `PluginDrives` moves any of `DirectKeys` at any
  point.  `movement_release.lua:21-25` says that plugins never reach input; the kite controller, the frost
  rotation, the combat module and the action library do.  So the properties of single keys are about the others, but `BodyStopsWithTheLease`
  is about all: a sweep lifts what a plugin pressed.  That somebody lifts it without a sweep is promised nowhere.

- Calls back into the broker from inside `on_revoke`.  The adapter's is the only callback outside
  the tests, and it makes none.
- Lending in HandoverRace: a lent channel changes owner without a closure, so rivals that lend to
  each other are as two rivals.
- Two uses of one Lua table: the queue keeps the caller's table, and the model's intents are values.
- The adapter's fallback for a missing or throwing broker, and callbacks of the navigation client
  that arrive after their command was stopped or replaced.
- The `immediate` flag of an intent, events published, logging, and reports to the user.
- Evaluators of the activity stack: they are their calls of push and pop.
- Fault counting and quarantine in the scheduler.
- The move of an operation and of a project's metadata in the editor, for which there is a command and no request.
- Two names of a campaign with one slug: loading one and editing the other overwrites it, and the run's names have files of
  their own.
- Preloading of maps, and the requests of the navigation server that take no lock (spatial.rs, tactical.rs).
- The characters of a guide, messages, the coverage report, and the content hash of a plan.

Components: see `PROJECT.json`.  Geometry, SQL and drawing have no
protocol to check; the rest is the plan.

## Plan

Done: the kernel's authority core with the broker's proofs, the navigation adapter, both halves of the quest
editor, the navigation server, and the quest toolchain from a guide or a campaign to what is executed.

Next, in this order:

1. **FaultTracker** with the handlers of the scheduler and ModuleRegistry: consecutive faults, quarantine,
   reinstatement, and what a quarantined handler still holds (composed with KernelTick: the kernel's own
   handlers can be quarantined, and leases then stop expiring).
2. **PluginRegistry** with Capabilities: discovery, resolution, eligibility, activation; a late manifest
   against an active plugin; exclusive capabilities.
3. **EventBus**: delivery while subscriptions change.
4. **AsyncSlot over QueryClient**: pending, late and missing answers, timeouts, the cache
   ("a flag may clear only on resolution").
5. **RuntimeProfile**: the profile runner, retries, deadlines, its save file and restart.
6. **NavClient**: state machine and movement service, composed with NavAdapter in place of the flag.
7. **TickClock** and the combat engagement state machine.

Proofs left: the safety properties of QuestTools, which first need their recursive operators written as recursive
functions, as those of the resolver are.
