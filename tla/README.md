# Verification of MASCOTAS-SOS

MASCOTAS-SOS is a Flutter application for lost pets and adoptions. Firebase is
commented out; everything runs over mock services that keep their data in
memory and answer after a `Future.delayed`. The tree also carries the Flutter
engine the application runs on. This directory holds TLA+ specifications of the
application's core logic and of the concurrent core of that engine, model-checked
with TLC and proved with TLAPS.

Application paths below are relative to `src/MASCOTAS-SOS/lib/`, engine paths to
`src/flutter/engine/src/flutter/`.

## Inventory

| Part | State | Operations | Talks to |
|---|---|---|---|
| `MockFirebaseService` (`data/services/mock_services.dart`) | `_adoptions`, `_adoptionRequests`, in memory, a singleton | get, create, update, delete, change status, requests, image upload, each after 0.8, 1 or 2 s | called by `AdoptionService` |
| `AdoptionService` (`data/services/adoption_service.dart`) | none | filters, uploads images before creating, turns exceptions into `null`/`false`/`[]` | the mock |
| `AdoptionProvider` (`providers/adoption_provider.dart`) | `_status`, `_adoptions`, `_selectedAdoption`, `_errorMessage` | load, load by id, create, update, complete, delete, request, decide, move, clear, reset | the service; screens read it and are notified |
| `AdoptionRequestsScreen` (`presentation/screens/adoptions/…`) | `_isLoading`, `_hasError`, `_requests`, `_adoption`, one State per opening | load, retry, reject, approve through a dialog | provider; navigator; frames |
| Adoption list, detail, form screens | spinner and error flags, filter, form fields | load, filter, request dialog, submit | provider; navigator |
| `ReportProvider`, `ReportService` (`providers/report_provider.dart`, `data/services/report_service.dart`) | as the adoption pair, with a store of its own | as above without requests | report screens |
| Report detail and form screens | `_isLoading`, `_report`, form fields | load, resolve, submit | `ReportProvider` |
| Start-up and session (`screens/splash`, `onboarding`, `auth`, `home`) | route stack, `onboarding_completed` preference | timers that navigate, log out | navigator; preferences |
| `ThemeService` (`core/services/theme_service.dart`) | dark-mode flag, preference | load, toggle | preferences |
| Validators, models | none | pure functions | forms, services |

Not part of the program's logic: the Dart framework, the tools, the embedders and
the platform runners in the tree, the legacy screens under `screens/adoption/` (no route), placeholder
screens, `storage_service.dart`, `pet_model.dart`, `user_model.dart`.

The engine's parts that carry its concurrency:

| Part | State | Operations | Talks to |
|---|---|---|---|
| `Pipeline` (`shell/common/pipeline.h`) | two semaphores and a deque | produce, commit, consume | `Animator` puts in, `Rasterizer` takes out |
| `Animator`, `Rasterizer`, `Shell` (`shell/common`) | request flags, layer trees, surface, last trees | request, begin, render, draw, resubmit, redraw, wait for the first frame | task runners of the UI and raster threads |
| `VsyncWaiter`, `SmoothPointerDataDispatcher` | callback, secondary callbacks, packet held back | ask for a vsync, fire, dispatch | platform thread, UI thread |
| `MessageLoopTaskQueues`, `MessageLoopImpl` (`fml`) | heaps, owners, pauses, timers | post, flush, merge, unmerge, pause, terminate | every thread |
| `RasterThreadMerger`, `SharedThreadMerger` (`fml`) | leases by caller, enabled | merge, extend, decrement, enable, disable | the queues above, external view embedder |
| Surfaces on Android (`shell/platform/android`, `shell/common`) | surface, overlay layers, the latch | created, changed, destroyed | platform and raster threads |
| `ConcurrentMessageLoop` (`fml`) | one queue, one list per worker, a condition | post, post to all, terminate | decoders |
| `SyncSwitch`, `ContextMTL` (`fml`, `impeller`) | value, observers, tasks awaiting the GPU | execute, set, store, flush | image decoding and encoding, snapshots |
| `FenceWaiterVK` (`impeller/renderer/backend/vulkan`) | wait set, terminate flag | add, wait, terminate | GPU, submitting threads |
| `CommandPoolRecyclerVK`, `ResourceManagerVK`, `ContextVK` | thread-local pools, recycled pools, reclaimables | get, dispose, reclaim, shut down | fence waiter, recording threads |
| `ReactorGLES` (`impeller/renderer/backend/gles`) | handles, operations per thread, workers | create, collect, add, react | any thread, OpenGL |

### How it executes, and what is hard

Dart runs one event at a time. A method runs up to its first `await` in the
event that calls it. Every mock operation first awaits a timer; when the timer
fires, the body of the mock, the service's continuation, the provider's and the
screen's run one after the other as microtasks of that event. So there are two
atomic steps for each call, *call* and *fire*, and between them any other event
may happen: other calls, other timers, taps, frames, disposal of the screen.

What that makes hard to test in the application:

* several calls overlap on one `_status`, one list and one selection;
* the provider's list is sometimes the store's own list object
  (`mock_services.dart:94`) and sometimes a filtered copy, and every method
  writes its change through it a second time;
* whole records travel from a screen to the store and overwrite what happened
  meanwhile;
* ids are the millisecond of creation and are never checked;
* workflows of several calls go on after their screen is disposed of;
* the buttons are hidden by `_isLoading` only from the next frame on;
* nothing is cancelled, and failures are turned into `null` or `false` that
  callers mostly ignore.

The engine has real threads: platform, UI, raster, IO, workers, the fence waiter,
the resource manager. Each state is behind a mutex, a semaphore or an atomic, and
what goes wrong goes wrong between two critical sections. Its modules make one
step of each critical section and of each access outside one:

* a commit is a push and a later signal; a notification follows the unlock;
* the first frame is announced without the mutex it is waited for under;
* threads are merged under a draw that is going on, or while the platform thread
  waits for a raster task;
* what a switch said is used after the switch was left;
* a set is copied, looked at without the lock, and then written;
* the last reference to a pool, or to a context, may be dropped by any of three
  threads, two of which the context joins;
* the device may be lost, the app may go to the background, a surface may go.

`PROJECT.json` lists each at its line with the properties that watch it. Hazards
of the parts that are not modelled are in the inventory above only: the filter of
the list screen, a death between writing `onboarding_completed` and navigating,
report ids.

### What makes each part correct

* Provider and store: list and selection stay true to the store; a spinner has a
  call that will end it; the latest query wins; together they behave as a board
  of announcements.
* Requests screen: an approval is whole; decisions are final; a screen at rest
  shows the store; spinners end; no `setState` after `dispose`.
* List, detail and form screens: the list catches up with the store; a spinner ends
  whatever the dialog answers (the details' does not); a submission pops its own
  route (it does not).
* Reports: as the adoption pair; the detail screen shows its own report.
* Start-up and session: one live screen decides the route; onboarding is shown
  until completed, also across restarts; logging out leaves nothing below.
* Theme: the preference ends up as the screen shows.
* Frames: at most two are under way, none is lost, none is shown behind a newer one.
* Vsync and pointers: one request at a time; packets in order, none held for ever.
* Loops: no wake-up is lost, tasks of a queue start in order, each pause is undone.
* Merging: merged queues have a lease, and nothing changes while the merger is
  disabled; nobody waits for a thread that waits for him (the platform thread may).
* Worker pool: no worker sleeps through work.
* GPU: untouched in the background; a pool is reset when the GPU has done with it;
  a callback that was accepted runs; an object is deleted once; shutdown returns.

## Modules

| Module | What it is |
|---|---|
| `RecordList` | Dart lists of records: `indexWhere`, `removeWhere`, `add`, … |
| `AdoptionBoard` | abstract specification: announcements and requests, no time, no lists |
| `AdoptionProvider` | provider, service and mock store |
| `AdoptionRequestsScreen` | the requests screen over provider and store |
| `RouteStack` | the Navigator's history: push, pop, replace, and the ends of transitions |
| `AppScreens` | splash to home, the list, details and forms, over that history |
| `Application` | provider, requests screen and screens put together for TLC |
| `MCAdoptionProvider`, `MCAdoptionRequestsScreen` | values for TLC |
| `RecordListProofs` | facts about sequences and record lists |
| `AdoptionProviderProofs`, `AdoptionRequestsScreenProofs`, `AppScreensProofs` | theorems of each |
| `ApplicationProofs` | theorems of the parts put together |
| `Pipeline`, `FramePipeline` | the frame pipeline; the animator, rasterizer and shell over it |
| `FrameFifo` | abstract specification: a bounded queue of frames in order |
| `VsyncWaiter`, `PointerDispatcher` | requests for vsyncs; the pointer packets and frames that make them |
| `TaskQueues` | message loops: queues, merges, pauses, timers |
| `RasterThreadMerger`, `PlatformRaster` | leases; the two threads, their tasks, surfaces and latch |
| `ConcurrentMessageLoop` | the pool of workers |
| `GpuSwitch` | the switch and the jobs that need the GPU (Metal) |
| `FenceWaiter`, `CommandPools` | Vulkan's fences; pools, resource manager and shutdown over them |
| `ReactorGLES` | the reactor of OpenGL ES |
| `UiThread`, `EngineThreads`, `ImpellerBackends` | the parts above put together for TLC |
| `UiThreadProofs`, `EngineThreadsProofs`, `ImpellerBackendsProofs` | theorems |

### AdoptionProvider

`adoptions` and `requests` are the mock's lists; `status`, `selected` are the
provider's fields. `_adoptions` is the operator `Listed`: when `shown` is the
unfiltered query it is the store's list itself, otherwise the list `copy`, which
is empty whenever the two are one. `pending` holds the calls that wait for
their timer. Each public method that changes anything is a `Call…` action, and
its timer a `Fire…` action; `createAdoption` is a chain of three (upload, create,
load). `asked` is a history variable.

`RecordList` represents a list as a function from positions to records, so that
the order and "the first with this id" survive removal and filtering, and so
that duplicate ids are possible, as they are in the code.

Of time only this is kept: a timer started earlier with a delay no longer than
ours fires first (`Due`). That allows every real order and some that are not
real (a chain may overtake more often than the seconds permit), so what holds
in the model holds in the program.

Left out: `_errorMessage`, `notifyListeners` (readers are always in step),
`createdAt`/`updatedAt`, the descriptive fields (one `body`), and the separate id
argument of `updateAdoption` (its one caller passes the record's own id). The
`catch` branches that need the mock to throw are unreachable: the only
exception, an unknown id, is turned into `null` by the service. An edit starts
from a record that is listed or selected when `updateAdoption` is called, and is
written a second later; callers that kept a record for longer are not
modelled (no screen edits an adoption yet: the form's route passes none).

### AdoptionRequestsScreen

`adoption` is the status of the screen's adoption or `Gone`; `requests` the
status of each request for it; `route` and `state` the lifecycle and the fields of
each State object; `frame` the state the widgets were last built from: taps act
on `frame`, not on `state`. `SameFrameTaps` says whether a second tap may arrive
before the first is drawn. `late` collects disposed screens on which `setState` was
called; the call throws, the `catch` calls it again and throws again, and the chain
ends there (`LoadAgain`; in a release build the closure given to `setState` runs before the
call fails, but nothing reads the fields of a disposed State any more), while the calls already sent to the provider have had
their effect. `Close` is the disposal; the transition before it cannot be
tapped. At most one State is open at a time. Other parts of the application
complete or delete the adoption and add requests through the provider. No
screen pushes the route `AppRoutes.adoptionRequests` yet; the model opens it
as that route would.

### AppScreens

`history` is `NavigatorState._history`: each route is pushing, idle, popping or
removing, and its screen is mounted until it is taken out. `views` holds for each
route what its State and its last build come to: the flag of its spinner, what the
buttons were `drawn` with, what the list has `shown` of the adoptions `stored`.
`pending` holds the timers: those of the mock service, the two seconds of login,
registration, recovery and report form, the three of the splash, and the 0.3 s of
each transition. `absorbing` is the Navigator's: after a navigation taps are ignored
until the next frame, but not the system's back button. `onboarded` is the
preference. The events are described one call after the other by operators on a
record of history, views and timers (`Later`, `SetLoading`, `Popped`, `Replaced`),
which `Become` then makes the next state.

`due` is a history variable: how many adoptions were stored when the user last came
back to the list from what it opened. Adoptions are counted, since no screen
deletes or edits one; the list holds the store's own list, and what it shows of it
is what its last build found there. Animations that are interrupted take as long as
those that are not. Left out: the pages of the onboarding, the tabs of home, the
routes to placeholders, the filter, pull to refresh, the retry after errors that the
mock cannot cause, and the fields of the forms.

### Application

Provider, requests screen and screens, as the parts of the engine below: a behaviour
is of one part. The requests screen appears twice, opened again with one tap a
frame, and opened once with several. The session starts on the splash and goes as
far as home and its dialog to log out; the visitor starts on home and goes to the
list, the details and both forms. The parts are instances of the modules with the
proofs, so that what is proved of every instance is a theorem of the part.

### The engine

`UiThread`, `EngineThreads` and `ImpellerBackends` instantiate the parts. The parts
of one of them share no state, so a behaviour is of one part, chosen in `Init`, and
TLC explores the sum of their states instead of the product. (In the program they
do run together; since no step of one reads or writes what another has, a property
of one part holds of the program if it holds of the part.) Components that do
interact are composed properly: `FramePipeline` extends `Pipeline`,
`PointerDispatcher` extends `VsyncWaiter`, `PlatformRaster` extends
`RasterThreadMerger`, `CommandPools` extends `FenceWaiter`.

* `Pipeline`, `FramePipeline`. `empty`, `available`, `queue` are the members of
  `Pipeline`; a commit is `Push` then `SignalAvailable`, a consumption `TryTake`,
  `Pop`, `Release`. `ui` and `raster` say where in their task the two threads are.
  `mayRequest` is `pending_frame_semaphore_`, `regenerate` its namesake; a frame is
  its number and its views. `Draw` is followed through all its outcomes: no surface,
  retry and resubmission in front, success, last trees redrawn. `PromptSignal`
  says that the raster thread does not look between push and signal; where it is
  FALSE it does, and a frame may be left in the queue with nobody told to draw it.
* `VsyncWaiter`, `PointerDispatcher`. A task of the UI thread is a `plan`: the calls
  it has left. The waiter decides under its lock who asks and asks after it.
* `TaskQueues`. One step for each method that holds the mutex; flushing is many.
  `timer` is the timer descriptor. Assumed (`QueuesAssumption`): the queue of Dart
  events is not subsumed, and loops that are joined are not merged; both are so
  in the engine, whose only merger merges raster into platform.
* `RasterThreadMerger`, `PlatformRaster`. `lease` is `lease_term_by_caller_`;
  `aborted` a failed `FML_CHECK`, after which the process takes no step. `call` is
  what is left of the platform's call, `waiting` its latch; `attached` tells which
  shells have a surface the platform has not taken away. The platform loop takes a
  raster task as soon as the queues are merged, while the draw that merged them still
  ends on the raster thread: nothing in the code excludes it
  (`message_loop_task_queues.cc:256` wakes the loop under `external_view_embedder.cc:181`).
  A call may follow another while the surface is still being set up, since creating
  waits for the IO thread only (`shell.cc:907`). Each step under the merger's mutex is
  one step, and what is looked at before it a step of its own (`LookToMerge`, `Preroll`).
  `IsMergedUnSafe` may be read while another merger writes the map, which is undefined
  behaviour with two engines; the model takes the read as atomic.
* `ConcurrentMessageLoop`. Posting and notifying are two steps.
* `GpuSwitch`. `Execute` holds the switch shared: `Inside` says which jobs are in a
  handler. Decoding and snapshots store their task inside the handler, encoding
  outside it.
* `FenceWaiter`. `at`, `snapshot`, `signalled`, `emptying` are the locals of the
  thread. A pass is: copy, wait, read the statuses, erase, run the callbacks.
* `CommandPools`. A pool is referenced by the thread that owns it and by the tracked
  buffers recorded from it; `DropReference` is the destructor. `holders` are the
  strong references to the context. One context; the recorders are quiet while it
  shuts down, because `Shutdown` resets pointers they read without a lock. The map
  from contexts to pools is keyed by a hash, so with several contexts there is one
  more hazard, which is not modelled.
* `ReactorGLES`. `workers` are the threads with a context; `reacting`, `doomed`,
  `batches` where each thread is in a reaction, nested reactions included.

## Runs

| Run | Question | Bounds |
|---|---|---|
| `ProviderRaces` | do list, selection, spinner and query survive any overlap of calls, do copy and store keep the same positions when creations share an id, and does the pair implement `AdoptionBoard`? | 1 seed; 2 bodies and 3 calls in flight, or 2 creations or requests among 2 calls in flight, with decisions |
| `ProviderStaleSelection` | is the selection's status kept up to date, as the comment at `adoption_provider.dart:344` says? No | 1 adoption |
| `RequestsReopened` | do approvals, decisions and what is shown survive leaving and reopening? | 2 screens, 2 requests, 3 calls in flight |
| `Application` | does everybody who waits stop waiting, does an approved adoption leave the offer, is there always a screen, does the list catch up? | provider: 1 creation; requests: 2 screens or 1 with taps of one frame, 1 request; screens: 4 routes, 1 creation; 2 calls or timers when the user does one more thing |
| `FormReturnsElsewhere` | does a form close itself and nothing else? No | 4 routes, 3 timers |
| `RequestsLateSetState` | is `setState` ever called after `dispose`? Yes | 2 screens, 1 request |
| `UiThread` | do frames, vsyncs and packets keep their order and places, and do they come? | depth 2 as in the code; 3 frames of one view or 2 of two; 1 change of surface; 3 packets, 2 animator frames |
| `EngineThreads` | are wake-ups, pauses, order and leases right? | 2 loops, 3 tasks, 2 instants, 2 merges; 2 workers, 1 client, 3 tasks; 2 engines with 1 raster task queued when a draw is posted, or 1 engine with 3, and leases of 2 frames |
| `MergerLeases` | is the lease of a frame that ends on the platform thread positive, as `shared_thread_merger.cc:60` says? No | 2 engines, 2 tasks queued when a draw is posted, leases of 10 frames as in the code |
| `ImpellerBackends` | is the GPU used at the right time, once, and does shutdown return? | 2 fences, 2 recorders, 2 pools, a device that may be lost; 2 threads, 2 handles, 3 operations; 5 jobs and a store of 2 tasks |
| `GpuSwitchStranded` | does an encoding that found no GPU retry when it is back? Not always | 1 decoding, 1 encoding |
| `FirstFrameWakeup` | does `WaitForFirstFrame` return once the frame is there? Not always | 1 view, 2 frames |

Why the bounds are enough to be interesting: the hazards of the provider are
races of two calls with a third, or with a reset, in between, on one id; a
second body tells a stale record from a fresh one; a second creation is what it
takes to share an id. Three calls and two creations together are too many for TLC, so a
behaviour of `MCAdoptionProvider` has one or the other (`scenario`). For the screen, the second State is the reopened one, the
second request tells a decision of one from that of the other, and three calls
are two chains and somebody else's call. In the engine, two threads contend for one
thing and a third entry is what may get lost between them: a third frame fills a
pipeline of depth two, a third task outnumbers two workers, a third packet
overtakes one that is held back, a third operation is added during a reaction; a
lease of two frames can be half spent. On the Navigator, four routes are home, the
list, what it opened and one on its way out. Deadlock is checked in every run but
`Application`, `FormReturnsElsewhere`, `UiThread`, `EngineThreads`, `MergerLeases` and
`ImpellerBackends`: there the system may stop, because the user owes nothing, the
last screen is gone, the bounded work is done, the device is lost, the loops are
terminated, a check has failed or the context is gone.

Fairness. `Spec` of the application's modules has weak fairness on the oldest timer,
`WF(pending # <<>> /\ Fire(1))`: the event loop fires every timer once its delay
is over, so the oldest cannot be overtaken for ever. (Weak fairness on "some
timer" would be too weak: younger calls could overtake a 2 s upload for ever.)
The screens add weak fairness on frames: a marked widget is rebuilt at the next
vsync. Users owe nothing. `Application` asks the same of all its parts but the session, of which only
safety is checked. In the engine, fairness is weak and on threads that have a
task: `UiThread` assumes it of the UI thread and the display (each vsync that was
asked for comes), and `ImpellerBackends` of the fence waiter, the resource manager, the
thread that shuts down, and the GPU on a device that is well. Nobody has to post, draw,
submit, terminate or go to the background. `EngineThreads` states no liveness and needs no
fairness; in particular nothing is said of the latches of the platform thread, from which
it does not always come back (see below).

Six runs are expected to find violations:

* `ProviderStaleSelection`: select an adoption by id before any list is loaded,
  then change its status. The selection keeps the old one, because the update
  sits inside the branch for an adoption found in the list.
* `RequestsLateSetState`: leave the screen before its first answer.
* `FormReturnsElsewhere`: send the report form and leave it within the last 0.3 s of the
  two seconds. It is still in its exit transition, so `mounted` is true, and it pops what
  is on top, which is home: nothing is left. The adoption form does the same.
* `GpuSwitchStranded`: `image_encoding_impeller.cc:93` stores the task after leaving
  the switch; the GPU comes back in between and the flush finds nothing.
* `MergerLeases`: engine A draws platform views, then frames without, until its lease is
  spent and the threads unmerge; its record stays, at zero. Engine B merges them. A's next
  frame without views is drawn on the platform thread, finds the threads merged, by B,
  and decrements its own lease: the `FML_CHECK` of `shared_thread_merger.cc:59` aborts the
  process. `RasterThreadMerger::DecrementLease` (`raster_thread_merger.cc:164`) asks whether
  anybody has merged, the check whether the caller has.
* `FirstFrameWakeup`: `shell.cc:1297` sets the flag and notifies without the mutex,
  between the waiter's look at the flag and its sleep.

What the passing runs say about the code that is worth knowing:

* Decisions are final and a reopened screen is current *only because* timers with
  equal delays fire in the order they were started: the reopened screen needs
  1.8 s to list its requests, the decision in flight 1 s. With a real backend this
  has no reason to hold (that is the mutant `DueAnytime`). And it needs one tap per
  frame: with two, a request may be rejected behind its own approval dialog and
  then approved (`SameFrameTaps`; `DecisionsAreFinal` is not claimed there).
* An approval stays whole *because* `_updateRequestStatus` has no `mounted` check
  between its two calls; adding one in the obvious place would break it (the
  mutant `FireDecideMounted`).
* The list catches up *because* it waits for the route it opened, whoever closes it, and
  not for the form to say that it created something (the mutant `NotAwaited`).
* Approving a request moves the adoption to "en proceso" whatever its status
  was, "adoptado" included. Nothing in the repository says it should not.
* Each frame keeps its place *because* a refused resubmission gives back what it
  reserved (the mutant `RefuseKeeping`).
* A merged loop is woken *because* every re-arming asks for the loop of the owner,
  not of the queue posted to (`OwnLoop`).
* An engine's threads keep their configuration while its merger is disabled *because*
  disabling takes the mutex under which others look at the flag and merge
  (`DisableUnlocked`); and the queues are merged only under a lease *because* every
  decrement that ends the last one unmerges them (`DecrementOnly`).
* A pool is reset in time *because* the tracked objects, not the frame, hold the
  reference that counts (`DisposeAtOnce`), and the context never joins itself
  *because* `Shutdown` joins the waiter before the owner lets go (`JoinNoWaiter`).

What was seen while modelling and is not a run, most of it because nothing promises
otherwise:

* The platform thread can wait for itself at `shell.cc:989`. `OnPlatformViewCreated`
  returns once its raster task is posted (`shell.cc:907`-`:915`), not when it has run. If
  `OnPlatformViewDestroyed` follows, it disables the merger, the task of the creation then
  enables it again (`shell.cc:871`), a draw with platform views merges the threads, and
  the teardown is left in a queue that only the waiting thread would run. The comment at
  `shell.cc:931` means to "Prevent any request to change the thread configuration".
  `PlatformRaster` states what it means as `TeardownIsReached`; with one engine, the calls
  `create` and `destroy`, a `MaxQueue` of 2 and frames of one size TLC finds it false in 20
  states, also with leases of 10 frames. `HeldWhileDisabled` is the half that holds: as long
  as nobody enables the merger again, nobody merges.
* `PostPrerollAction` asks `IsMerged` and then calls `ExtendLeaseTo`, two takings of the
  mutex (`external_view_embedder.cc:171`, `:184`), and a frame may do so on the raster
  thread after the threads were merged under it and while the platform thread draws. If
  the platform thread unmerges between the two, the lease is extended of queues that are
  not merged (a debug build checks, `shared_thread_merger.cc:81`). From then on `IsMerged`
  is true, so every draw on the raster thread yields; a teardown unmerges queues that are
  not merged and the check of `:40` fails. With a lease of two frames TLC reaches this with
  one engine; with the ten of the code the platform thread has to draw that many while the
  other ends one. Two threads are then in one rasterizer, too.
* `NotifyChanged` and `NotifySurfaceWindowChanged`, and a frame of another size, wait
  for a raster task without disabling the merger (`platform_view_android.cc:228`): if
  a draw merges the threads meanwhile, the platform thread waits for itself. With another
  engine that draws, so may `NotifyCreated` and `NotifyDestroyed`.
* A frame committed behind another is announced late if the raster thread finishes
  between its push and its signal. The rasterizer then finds `available_` at zero and
  posts no further draw, and `EndFrame` posts none because the frame was not the first
  (`animator.cc:148`: "Eventually the 'Rasterizer' will consume it"). The frame stays,
  later ones are not first either, and nothing is drawn until somebody posts a draw.
* `inflight_`, reported to traces, drifts: a refused `ProduceIfEmpty` is counted.
* `WaitForFirstFrame` returns `kOk` after a draw that presented nothing.
* Tasks posted to a queue after `DisposeTasks` stay; workers drop theirs at shutdown.
* Observers of the switch are told without its mutex.
* After the loss of the device the destructor of the fence waiter runs the callbacks
  of submissions that never completed, as completed ones.
* Operations added on a thread stay in its own queue while it has no context; handles
  dropped are deleted only by a later reaction that has operations to run.
* Cancelling the request dialog of the details leaves their spinner on for ever
  (`adoption_detail_screen.dart:193`), and sending it sends nothing.
* Login and registration replace whatever is on top when their timer fires: with the
  recovery or registration opened meanwhile, home stands above the login that is still
  there, and home may stand twice.
* A creation whose form was left before its end is not shown by a list at rest until
  the user opens something and comes back.
* Recovery and list call `setState` without asking `mounted`, as the requests screen does.

## Proofs

All theorems are for every value of the constants that satisfies the named
assumptions (seeds form a sequence, bounds are naturals, `NoAdoption` is no
adoption, …).

* `TypeCorrect`, `ScreenTypeCorrect`: inductive as they stand.
* `LoadingAlwaysOwned`: inductive with `TypeOK`. A call that answers leaves
  `loading`; one that sets it leaves itself in the queue.
* `CopyFollowsStore`: `ListAligned` is the inductive form of `ListMirrorsStore`. The
  latter is not inductive, because with shared ids "the first with this id" in a
  filtered copy need not be the first in the store. Aligning *positions* is, and it
  holds because `add` takes a position never used and each method writes the
  same position of both lists when the id is not shared. `ListIsTheStores` follows.
* `SelectionIsReal`: from `ListAligned`, since the selection is written with records
  taken from the list.
* `NewestAnswerStays`: `LatestLoadWins` from the order of the queue (`LatestInv`). All
  loads take the same time, so they answer in the order they were called: the last load
  in the queue carries the query asked last (`NewestStays`, `NewestAppended`), and once
  none is left the list holds its answer or was reset.
* `ProviderIsABoard`: store and provider implement `AdoptionBoard`. An edit brings back a
  whole record, owner included, which the board forbids to change: so an owner must be
  a matter of the id, in store, copy, selection and every edit in flight, also when two
  records share an id (`OwnersInv`). What users see of a list is the first record with
  each id; the `FirstAfter...` lemmas say what each operation does to it. A record
  created with an id in use is behind the first one, hence a stutter.
* `DecidersHave`: drawn buttons, an open dialog and a decision in flight each imply
  that `_adoption` is set; it is never set back to null.
* `ApprovalIsWhole`: from `DecidersHave`; the decision that approves puts the move in
  the queue in the same step, and only its own timer takes it out. Nothing is
  assumed about screens staying open or about taps being drawn.
* `RestIsTrue`, `DecidedOnce`: from `DecisionInv`, over what a step can do to the queue
  (`Moves`). A screen has at most one call; at most one decision is in flight, of a
  pending request; and a decision a closed screen left behind is answered before the
  requests of the screen opened after it, which are asked for later and take as long
  (`Behind`). So what a resting screen lists is the truth and a second decision cannot
  start while one is in flight. Both suppose `~SameFrameTaps`, as their run does: of two
  taps before the next frame each decides.
* `ScreenIsABoard`: the screens implement `AdoptionBoard`, with any taps. It needs that
  only requests that were made are shown and decided and that only new ones are asked
  for (`KnownInv`).
* `TypesAreKept`, `SomeScreenStands`, `ListsCatchUp` (`AppScreensProofs`). What the
  Navigator does is proved once: `OnlyPicks` and its successors say what is left of a
  history when routes are taken out, and `StepOutcome` that every step but a frame leads
  to an `Outcome`: the routes that stand stay, one is put on top, the top one goes, a
  timer puts a screen in place of the top one, or the dialog of home logs out. The rest
  follows from those five shapes.
  * `TypesAreKept` needs room as part of its invariant (`ScreensInv`): for every timer
    that will push there is a free route, so that the splash or a late login always finds
    one (`Roomy`), and what is stored and what is being created keep the bound together;
    and a route that leaves does not stand (`Left`).
  * `SomeScreenStands`, where no form is offered: the lowest route that stands is no
    dialog, and everything else stands above it (`Rooted`). Back does not pop the
    lowest route (the application is left) and a button of a dialog pops the dialog, so
    only what stands above is popped; what a late timer or a logout replaces leaves a
    screen in its place. With a form the
    statement is false: a form pops whatever is on top when its call returns
    (`FormReturnsElsewhere`).
  * `ListsCatchUp`, for a visitor who starts at home and opens no dialog from its menu, so
    that nothing is replaced: every route stands on the one that opened it (`Nested`), so
    the list that a pop uncovers is the one that waited for what was popped, hence
    loads again; and a list at rest shows what it owes (`Paid`). The hypotheses are those of
    the visitor of `Application`. They are not idle: when a late login replaces the top,
    what stands over a list was not opened by it, and nothing is claimed of that.
* `PartsAreTyped`, `FrontStaysRight` (`ApplicationProofs`): each part of `Application` starts
  and steps as its module does (`PartsInit`, `PartsStep`), so the invariants above hold of the
  part at hand, with the types of the provider (`TypeCorrect`) and of both owners
  (`ScreenTypeCorrect`). They suppose `StoreAssumption`, which TLC evaluates in the run.

* `FenceTypes`, `NoCallbackDropped`, `EndsWithEmptySet`, `CompletionIsTrue`
  (`ImpellerBackendsProofs`): from one invariant, `IInv`. What matters is not inductive by
  itself, since between the copy and the erasure the waiter knows more than the set
  shows: its marks exist only between the wait and the erasure, and only on
  signalled entries; what it is calling is out of the set; it leaves only an
  empty set behind, unless the device was lost. `CompletionIsTrue` supposes a device
  that is never lost.
* `NeverDropped`, `PoolsAreOfOne`, `NeverJoinsItself` (the same module): every
  step of the pools is a step of the fence waiter or leaves it alone, so `IInv` is
  kept (`WaiterStepsOnly`). On top of it: a retired pool is in one place and nobody
  refers to it (`RetiredOnce`); a submission between queue and waiter is of one thread
  and keeps its buffer tracked (`SubmittedOnce`), without which the destructor of an
  entry could retire a pool a second time; what executes is tracked; and the owner
  holds the context until both threads are joined with nothing left (`LastToGo`).
* `NeverUsedInBackground`, `NeverDeletedTwice`: of the switch and of the reactor, whose
  invariant says that an object in the map was not deleted, and that one is taken out
  of the map by the thread that deletes it. `BackendsTypes` gathers the types.
* `OperationsHaveObjects`: that an operation finds its object needs two things (`OpsInv`).
  An operation is in one place until it has run (`OpsOnce`: a queue or a batch, of one
  thread, once), so its handle stays unused by nobody and cannot be dropped; and a thread
  takes its queue into a batch only after it has brought every handle that was not
  dropped to life (`OpsHandles`). What batches hold is handled by two lemmas on
  sequences of sequences (`Prepend`, `FirstBatch`).

* `UiThreadTypes`, `PlacesAreAccounted`, `RequestsAreSingle`, `PacketsInOrder`,
  `PipelineIsFifo` (`UiThreadProofs`). What a step of the frames does is proved once, of
  any views `V` and any number `M` of frames, over a parametric instance of
  `FramePipeline` (`FramesInv`), and then used for one view and for two
  (`PartsAreFrames`). The places are counted by who holds them (`PlacesInv`), requests by
  the three places they can be in (`RequestInv`). That the queue is in the order of the
  numbers needs to know of more than the queue: nothing in the pipeline, the frame in
  the raster thread's hands included, is as new as the one being built, and a frame has
  a number as soon as a view of it is rendered (`ItemsInv`, `UiFlags`). `PipelineIsFifo` is
  the refinement, step by step (`FifoStep`); a refused resubmission is a release. For the
  packets, what reached the framework and what is held back are the first `Reached`
  of those sent, and the others are in the queue in their order (`QueueInv`), whatever is
  put between and behind them; a request is about to be made only at the head
  of a plan (`AskInv`).
* `ThreadTypes`, `BothEndsAgree`, `LoopsWakeInTime`, `PausesEnd`, `TasksStartInOrder`,
  `PoolKeepsUp`, `LeasesAndQueues`, `DisabledHolds` (`EngineThreadsProofs`), from `ThreadsInv`. A loop that has
  something to run has a first task, because posting orders are natural numbers; its
  timer or its wake is due no later, which posting, pausing and merging each
  re-establish for the owner's loop. Pauses and wakes of the pool are sums over tasks
  and workers, handled one element at a time (`OneMore`, `OneLess`).
  `LeasesAndQueues` and `DisabledHolds` are of any number of engines and any lease, from
  one invariant for both parts (`MergersInv`, over the engines `S` that share the threads):
  leases, tasks and calls are typed, merged queues have a lease, and of one engine a thread
  that is about to change leases or queues holds the mutex and its merger is enabled
  (`HeldIsEnabled`), because `Disable` waits for the mutex. That the queues are merged only
  under a lease does not need the threads to draw in turn. Nothing is proved, or true, the
  other way round.

Only model-checked: the liveness properties (`SpinnersEnd`, `ApprovalCompletes`,
`FramesCome`, `PacketsArrive`, `ShutdownReturns`), which are beyond the prover. Every invariant
and every action property of a passing run is stated by a theorem.

## Not modelled

The tree is the whole Flutter SDK: hundreds of thousands of lines of C++ of which
geometry, painting, text, shaders, generated headers, embedders for six platforms and
tests are the largest part. They are pure computation, glue or test code, not
protocols, so a model of them would repeat them. What is modelled is the part with
threads, ordering and failure, a small share of the lines. Inside the modelled
components the modules' headers and the notes in `PROJECT.json` name what is left out:
idle notifications and traces, task observers, trimming and descriptor pools, debug
labels, the newer view embedder. Of the application, the reports' provider and detail
screen, theme, validators and restarts are not modelled, and of its screens what
`AppScreens` names as left out; the plan below has them.

## Plan

1. The preference of the onboarding across crashes and restarts; an abstract
   specification of the session that `AppScreens` implements.
2. `ReportProvider`: provider and service of the reports, the detail screen that
   reads the shared selection, the form; "Generar ID único" against the clock.
3. The list's filter, and `AppScreens` over the records of `AdoptionProvider` instead of
   their count.
4. `ThemeService` with its preference; validators over character classes, and
   the round trip of the models through maps.
5. Engine: several Vulkan contexts over one thread-local map; buffers recycled inside
   a pool; the embedder's own task runners and vsync over `TaskQueues`.
6. Proofs: the safety of the runs that stay violations, under the hypothesis that would
   repair each; what a list shows in an application whose late timers replace routes
   over it.
