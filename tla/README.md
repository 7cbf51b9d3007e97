# Petrichor: TLA+ models, checks and proofs

Petrichor plays the mood of a place: a Kotlin/Spring backend composes a *session
manifest* for a course from its assets, and a TypeScript page renders it with a
shader and a Web Audio graph, both driven by one humidity slider. This directory
holds TLA+ modules for the parts of it that are hard to test, the TLC
configurations that check them on small instances, and TLAPS proofs for every
value of the constants. A reference such as `emitter.ts:99`
names a source file and a line of it.

Run, in this directory, `tlc -config X.cfg M` for a run of `PROJECT.json`, and
`tlapm M.tla` for a module that ends in `Proofs`.

## 1. Inventory

| Component | State | Operations | Talks to |
|---|---|---|---|
| **Rate limit filter** `ratelimit/RateLimitFilter.kt` | Caffeine cache address -> Bucket, token level of each bucket | `doFilterInternal` (look up, consume, answer 429), `shouldNotFilter`, `clientIp` | every `/api/v1/` request passes it, on its own thread |
| **Sequencing** `sequencing/SequencingService.kt`, `V1__init.sql` | tables `assets`, `courses`, `course_assets` | `compose(courseId)`; edits of the rows | database |
| **Session cache** `config/CacheConfig.kt`, `@Cacheable` on `compose` | Redis entries with a TTL of 10 min | lookup, put, evict (write path) | Sequencing, Redis, `CourseController.session` |
| **Event ingestion** `events/EventController.kt` | none (phase 1 only logs) | `ingest` | emitter |
| **Event emitter** `events/emitter.ts` | queue, debounce timer, heartbeat timer, pending humidity | `start`, `sliderChange`, timer callbacks, `flush`, `flushBeacon`, `dispose` | page events, humidity controller, ingestion through the rate limit |
| **Autoplay gate and transport** `main.ts`, `audio/graph.ts`, `ui/controls.ts` | `audioStarted`, `started`, once-listeners, AudioContext state, the label | `ensureAudioStarted`, `onToggle`, `start`, `toggle`, `dispose` | user gestures, the audio thread |
| **Manifest loader** `api/manifest.ts` | one abort timer | `loadManifest`, `resolveDefaultCourseId`, `normalizeManifest` | course list and session endpoint |
| **Humidity mapping** `humidity/*.ts` | `current` | `apply`, `computeTargets`, easing curves | GL stage, audio graph, emitter |
| **Render loop** `main.ts`, `gl/renderer.ts` | frame handle `rafId` | `frame`, `pauseLoop`, `resumeLoop`, `resize`, `dispose` | visibility events, GPU |
| **Layer graph** `audio/graph.ts`, `procedural.ts`, `reverb.ts` | audio nodes | built once from the manifest | Web Audio |
| **Course reads** `course/*.kt` | none | `list`, `detail` | database |
| Shaders, security baseline, seed data, configuration | none or static | - | - |

What is hard, and what makes each part correct:

- *Rate limit filter.* Threads interleave between the look-up of a bucket and the
  consume; entries expire and are evicted underneath them. Correct when a client is
  served by one token bucket, pays only for its own requests, and gets a truthful
  `Retry-After`.
- *Sequencing.* The manifest is a function of the rows: licensed assets only, each in the
  list of its kind, in the order (sort order, asset id), no matter in which order
  the rows come back; an edit of one row changes nothing else.
- *Session cache.* Miss, read and put are not atomic, an eviction may fall between
  them or be lost with Redis or the process. Correct when what is served is never out
  of date for longer than the TTL and a load, and is of the course that was asked for.
- *Emitter.* Timers, visibility changes, page exit and restore and a lossy network.
  Correct when an event is sent at most once, in a batch the backend accepts, and
  slider changes are debounced, without losing the value the slider rests at.
- *Autoplay gate.* Gestures, clicks and an audio thread that runs later. Correct when
  sources start once, a start that a gesture has begun is not lost, and the button tells the
  truth.
- *Manifest loader.* Two requests and an abort timer race, each can fail in several ways.
  Correct when the page always gets one manifest, that of the first listed course unless the
  backend fails.
- *Humidity mapping and layer graph.* Controller and graph list the layers on their own and
  meet in indices. Correct when each layer sounds as its own row of the tables says, gains stay
  between their ends, some sound stays direct, and more humidity is never heard or seen as less.
- *Render loop.* Visibility, pagehide, restore and the frame itself write one handle. Correct
  when there is one loop, and the screen comes to show the window as it is.
- *The page.* Loop, stage, audio and emitter are taken apart in one handler, which an
  exception would cut short, at any moment, and again after a restore. Correct when nothing is left behind.

## 2. Modules

| Module | Models | Extends / uses |
|---|---|---|
| `TokenBucket` | abstract: one bucket of credits per client | |
| `RateLimitFilter` | the filter, its cache and its buckets | INSTANCE `TokenBucket` |
| `PoliteClient` | a lone client that waits for `Retry-After` | `RateLimitFilter` |
| `AdmissionRate` | an observer who counts the admitted requests of one address in a window of time | `RateLimitFilter` |
| `RateLimitFilterProofs` | theorems about these three | `PoliteClient`, `AdmissionRate`, TLAPS |
| `Sequencing` | the tables, their edits, `compose` | |
| `SequencingProofs` | what sorting and filtering give, and lemmas about `Compose` | `Sequencing`, TLAPS |
| `SessionCache` | the cached call around `compose` | `Sequencing` |
| `SessionCacheProofs` | theorems about it | `SessionCache`, TLAPS |
| `EventEmitter` | emitter, page life cycle, network, verdict of `ingest` | |
| `EventEmitterProofs` | theorems about it | `EventEmitter`, TLAPS |
| `AudioGate` | gesture gate, toggle, AudioContext | |
| `AudioGateProofs` | theorems about it | `AudioGate`, TLAPS |
| `RenderLoop` | frame handle, stage, window | |
| `Page` | boot, listeners, sources, pagehide, restore | `AudioGate`, `RenderLoop` |
| `PageProofs` | theorems about it | `Page`, `AudioGateProofs`, TLAPS |
| `HumidityCurve` | easings, gains, `computeTargets` | |
| `HumidityController` | the layer graph and what the slider drives; abstract specification `ControlSpec` | `HumidityCurve` |
| `HumidityProofs` | theorems about it | `HumidityController`, TLAPS |
| `ManifestLoader` | `loadManifest` | |
| `Playback` | from the rows of a course to what is heard and seen | `Sequencing`, `ManifestLoader`, `HumidityController` |
| `PlaybackProofs` | theorems about it | `Playback`, `SequencingProofs`, `HumidityProofs`, TLAPS |
| `MC...` | values of constants and symmetry for TLC | the module they name |

A definition whose name ends in `_Something` and is preceded by the word *Mutant* is a
plausible bug of the definition that follows; `PROJECT.json` says which property it breaks.

### 2.1 RateLimitFilter

One request slot per worker thread. `Lookup` is `bucketCache.get(ip) { newBucket() }`
(line 50), atomic in Caffeine: `Hit` or `Create`. `Consume` is
`tryConsumeAndReturnRemaining` with the answer built from it (lines 52-78): `Admit` or
`Reject`. `Respond` frees the thread. `Evict` and `Expires` remove an
entry while a thread may still hold its bucket; `Bypass` is `shouldNotFilter`.
Bucket objects have identities that are reused only when neither the cache nor a
thread can reach them, as by a garbage collector. `Tick` advances time: greedy refill adds
`RefillTokens` credits per tick to each bucket, a token being
`RefillPeriodSeconds * TicksPerSecond` credits, so that fractions of a token are exact
integers. `RetryAfter` divides and truncates as line 60 does, minimum one second.
`MaxStall` bounds how many ticks a thread may pause between look-up and consume: an
assumption on the scheduler, needed where a thread could otherwise sleep past the
ten-minute expiry.

`AdmissionRate` adds two history variables that no step of the filter reads: `Open` resets
them at any moment, `Decide` and `Pass` count admissions and ticks. What the configuration
promises (`RateLimitProperties.kt:7-8`: a burst of `capacity`, a continuous refill) is then an invariant, `RateIsBounded`.

### 2.2 Sequencing and SessionCache

`Sequencing` has the tables as functions, edits of their rows, sort orders and licenses (the deletion of a course takes
its rows along: `ON DELETE CASCADE`) and `Compose`, lines
31-83 of the service. Updates of a gain, a curve or a kind are not modelled, and neither are new or deleted assets. `Sorted` is `sortedWith` without an algorithm: at place `i` stands the asset that `i - 1`
others come before; `Filter` keeps the order of what it keeps. The application has no write path yet; the migrations insert rows, `SequencingIntegrationTest`
deletes one, and the other edits are those an editor will need. `SessionCache` puts
`@Cacheable` around it: `Lookup` (hit, miss, or a 500 when Redis is down: no
`CacheErrorHandler` is configured), `Read`/`ReadNothing`/`ReadFails`, `Put`, `Respond`.
`WriteCourse` commits an edit and leaves the eviction to a later `Evict`, as the test
and the comment on the service describe it; `WriteAsset` evicts nothing, because an asset has no course id to
evict. `RedisFails`, `RedisRecovers` and `Restart` lose what the code would lose. The
ticks for which a stored or answered manifest has been out of date are history
variables. `MaxLoad` bounds the time from a database read to its put (connection and
command timeouts).

### 2.3 EventEmitter

A JavaScript callback runs to its end, so each handler is one action: `Start`,
`Input` (slider event, through `HumidityController.apply` and its `onChange`),
`SliderFires`, `HeartbeatFires`, `Hide`/`Show`, `Leave` (all `pagehide` listeners in the order
of their registration, then the `visibilitychange` that follows), `Restore` (back/forward
cache). `Flush` is
both `flush` and `flushBeacon`: they take the queue and empty it before anything is
awaited. Debounce timers are a function from handles to remaining ticks: more
than one could run if `clearTimeout` were forgotten. A due timer may fire arbitrarily
late, as in a throttled background tab. The network is a set of batches: any
order, each delivered once or lost; the emitter reads no answer, so a 429 of the
rate limit is a loss.

### 2.4 AudioGate

`resume()` and `suspend()` append to a FIFO of control messages; `RunControl` runs the next
one, changes `ctx.state`, and with it everything that awaited its promise (`Resumed`,
`Suspended`). User activation follows the HTML standard (a mouse or key activates when
it goes down, a finger when it goes up, Esc and the shortcuts a browser reserves never; the once-listener of
`keydown` gets all keys); a `resume()` before activation leaves its
promise pending, as the Web Audio standard has it. `PointerDown` and `KeyDown` run the once-listeners,
`Click` runs `onToggle`. `Start`, `EnsureAudioStarted`, `Toggle` and
`OnToggle` are the functions of that name.

A page that comes back from the back/forward cache (`Restore`) has a closed context whose
`resume()` rejects; its listeners still run.

### 2.5 RenderLoop and Page

The browser updates the rendering of a visible page in one task, `UpdateRendering`: resize listener,
media query listener, then the frame callbacks requested before it (`Frames`), each of
which requests the next. `callbacks` is the browser's list and `rafId` the page's
handle: two variables, because the hazard is that they part. `Hide`, `Show` and `PageHide` are
`visibilitychange` and the loop's and stage's part of `pagehide`. `window` is the environment (size
and device pixel ratio as one value, reduced motion), `stage` what `resize` and
`setGrainAnimated` copied from it, `shown` what the last frame drew. `changed` is what of the window has changed since the
update before: only for that an event is fired, also while the page still loads and nobody listens, so that what boot does
not read itself comes too late. A change that is undone before the next update counts as one. A page boots in a tab
that may be hidden, and a frame is requested even then (`main.ts:126`).

`Page` puts the gate and the loop on one life cycle. The steps of `AudioGate` happen in a
page that is booted, and input only in one that is visible. `StartSource` and `StopSource` are the
closures of `procedural.ts`, which guard nodes that can be started once and must not be stopped before.
`LeavePage` is the whole `pagehide` handler in its order: were a node to throw, the
emitter would not be disposed of. The emitter appears only with its
heartbeat timer; its queue and timers are in `EventEmitter`, which shares no state with the others.

### 2.6 HumidityCurve and HumidityController

Fixed-point numbers: a humidity `t` stands for `t/Steps`, gains are in thousandths, an easing is exact in
multiples of `1/Steps^3`, and nothing is rounded, so equalities and orders are those of
the real functions. The quarter cosine is a constant of which only what is assumed in
`CurveAssumption` is used: it starts at 1, ends at 0, and falls.
`Build` is what `boot` constructs in one go (stage, graph, controller with its first
`applyInternal`), `apply` the slider. A gain is the target of its last ramp.

### 2.7 ManifestLoader and Playback

`phase` is the await at which `loadManifest` is. `CoursesListed` and `NoCourse` end the first
(`NoCourse` is the empty page, the failure and the body that does not parse: each means course 1), `SessionComposed`, `SessionNotFound` and
`SessionFails` the second, and `TimeOut` either: an abort during the first makes the second request fail at once,
without a turn of the event loop that could change anything. `trouble` remembers that
the backend gave no usable answer.

`Playback` answers these requests from the tables of `Sequencing`, which are edited meanwhile, and boots from the
result. A layer of the backend has `kind` undefined: its `AudioLayer` has no such field.
`DrivesOnePage` says that all this implements `ControlSpec`, the specification of `HumidityController` alone, for
which `HumidityProofs` has its theorems.

## 3. Runs

| Run | Checks | Result | Bounds |
|---|---|---|---|
| `filter_steady` | `Attached`, `Replenished`, `RateIsBounded`, `ImplementsTokenBucket` | holds | 2 threads, 2 addresses, cache holds both; windows of up to 11 ticks |
| `filter_crowded` | `TypeOK`, `BucketsArePrivate`, `Isolation` | holds | 2 threads, 2 addresses, a cache of 1 entry |
| `polite_default` | `WaitingIsEnough` at 120 tokens / 60 s | holds | |
| `polite_slow` | the same at 3 tokens / 60 s (the rate of the integration test) | **violated** | |
| `playback` | `PlaybackOK`, `ControlOK`, `ManifestIsExact`, `PlaysTheListedCourse`, `GainsFollowTheirLayer`, `DirectSoundRemains`, `DrivesOnePage`, `EditsAreLocal`, `WetterIsNeverDrier`, `LoadEnds` | holds | 1 course, 5 assets of all kinds, ties in the sort order, 7 slider positions |
| `playback_ambient` | `AmbientIsNotAPad` | **violated** | the same |
| `cache_service` | `TypeOK`, `BoundedStaleness`, `ManifestMatchesCourse`, `EventuallyFresh` | holds | 2 requests, 2 courses, 3 edits, an outage or restart |
| `cache_eviction` | `EvictionIsTheGuarantee` | **violated** | 2 requests, 1 course, no failures |
| `emitter_session` | `TypeOK`, `EveryEventOnce`, `BatchesAreAcceptable`, `Debounced`, `SettledIsReported`, `HeartbeatsGoOn` | holds | 2 changes, 2 heartbeats |
| `emitter_left` | `LastValueIsSent` | **violated** | the same |
| `page_session` | `TypeOK`, `PageOK`, `LabelMatchesSound`, `ClickFlips`, `ExactlyOneLoop`, `LeavingReleasesEverything`, `StartIsNotLost`, `ScreenCatchesUp` | holds | mouse, touch, keys with Esc; 2 clicks; 2 windows, any number of restores |
| `audio_click` | `FirstClickPlays` | **violated** | mouse, touch, keys with Esc; 3 clicks |

Why the bounds are enough:

- Two threads and two addresses are the least in which a bucket could be shared
  or doubled; a cache of one entry for two addresses makes eviction under a holder happen in
  almost every behaviour. The filter never compares two clients, so a third adds nothing.
  Ticks per second, TTL and periods are scaled down with their order kept (a bucket
  refills within the TTL). A window of twice the TTL has buckets used up, expired and created anew within it; three
  bucket objects are enough in `filter_steady`, two in use and the new one.
- `playback` loads the page from every reachable content of the tables; ties in the sort order
  need two assets of one kind, five assets give every kind, a tie, and layers with a falling, a rising and no gain range, and with a
  reverb range that is usable, too short and absent. The course is not number 1, so that asking for the
  default instead of the listed one shows; whether course 1 exists as well makes no difference to the loader, which cannot tell it from another. Seven slider
  positions make every pair of neighbours and the two ends; what the positions between them give is the
  theorems' part. A timer of one tick fires before, between and after the answers.
- Two requests race each other and the editor; `CacheTTL` and `MaxLoad` of one to two ticks let
  every order of read, edit, evict, expire and put happen. `MaxEdits` and `MaxFailures`
  are bounds of the guards.
- Two slider changes are the least that make a debounce; `MaxBatch = 1` is the strictest backend and shows that the
  emitter never sends more than one event at a time. Both tick counts exceed one, so that
  hiding, leaving and restoring fall before, between and after the timers.
- Two clicks: the first, and one that races it or reads the state it has left; a gesture before them makes a third actor, and
  the theorems hold for any number. Two
  handles are the most a page can need; a second loop would need a third, and
  `ExactlyOneLoop` then fails on two. Two sizes and two motion settings can each be missed and caught up.

### Fairness

- `SessionCache`: request threads proceed, an editor carries out its eviction, Redis comes
  back, time passes. Requests are not required to come, and edits are not required to stop
  other than by `MaxEdits`: `EventuallyFresh` reads "once the edits are over".
- `EventEmitter`: time passes on a page that is alive, and the event loop runs due timers. Nothing is
  assumed of the user, the network or the page life cycle.
- `Page`: the rendering thread runs its control messages and the browser updates the rendering of a page
  that stays visible. Nothing is assumed of the user.
- `ManifestLoader`: the browser's clock goes on and its timer fires. No server has to answer.

### What the violations show

Each one is a statement of the repository's own that the code does not keep; the
trace is in the run, the quotation in `PROJECT.json`.

1. `polite_slow`: `Retry-After` truncates. At the default rate a token comes every 0.5 s and the minimum
   of 1 s hides it; at slower rates a client that obeys is rejected again.
2. `playback_ambient`: the frontend routes layers by `kind`, which the manifest contract of the work plan has and the backend's `AudioLayer`
   lacks: every layer of a session is a pad, and rain and subway are heard only from the built-in manifest.
3. `cache_eviction`: eviction is called the primary guarantee; a request that read before the edit puts
   its manifest back after the eviction. What does hold is `BoundedStaleness`.
4. `emitter_left`: a change less than 500 ms before leaving is never sent. Every handler that
   enqueues also flushes, so the queue is empty whenever a page is left and `flushBeacon` has never
   anything to send; the last value is in the timer that `dispose` cancels.
5. `audio_click`: a mouse click on the play button is first a gesture that starts the sound, then a click that stops it.

Four more things the models make visible, without a run of their own:

- Two requests may compose one key at the same time (`@Cacheable` is not `sync`), although the work plan
  (`WORKPLAN.md:329`) asks for stampede protection.
- `pagehide` disposes of the emitter without looking at `event.persisted`: after `Restore` the heartbeat stays
  off. `HeartbeatsGoOn` and `SettledIsReported` therefore assume a page that is never frozen; without this premise TLC refutes them.
- The first gesture need not start the sound, although `main.ts:14` promises it for click, key and touch. A finger's `pointerdown` uses up
  the gate before the page is activated, an Esc without activating it, and the `resume()` of either stays pending: TLC refutes
  `audioStarted ~> (Audible \/ clicks > 0 \/ life # "active")` with the finger alone and with Esc alone, and finds it true of mice and other keys. What holds of all of them is
  `StartIsNotLost`: the start that such a gesture began is completed by a click on the button, at the latest. It would not be if a click waited for
  the pending start, the obvious way to mend `audio_click` (the mutant `OnToggle_AwaitsStart`). (Engines that resume waiting contexts on their own at activation hide this.)
- The constructor of `HumidityController` sets all six graded uniforms before the first frame, so what
  `grade_config` holds for a course (read by `GLStage`, `renderer.ts:52-57`) is never seen.

The license gate looks only for null and blank, while the schema comment (`V1__init.sql:12`) also excludes
*unapproved* ones; that is a question of what the column holds, so `ManifestIsExact` states what the gate does.

## 4. Proofs

`RateLimitFilterProofs` (theorems for every number of threads, addresses, tokens, periods and cache sizes):

- `TypeCorrect`, `BucketsStayPrivate`, `ClientsAreIsolated`: from `SizesAssumption` and `NamesAssumption` only. The inductive
  invariant is `TypeOK /\ BucketsArePrivate`; privacy is inductive because `Create` takes a bucket outside
  `InUse`, and `InUse` counts what threads hold besides what the cache holds.
- `ThreadsStayAttached`, `IdleBucketsRefill`, `FilterImplementsTokenBucket`: under
  `CacheFitsClients` (all addresses fit in the cache) and `ExpiryIsInvisible` (an
  idle entry outlives both the longest stall and the time a bucket needs to refill). The inductive invariant adds `Attached` (a thread past its look-up holds
  what the cache shows, and has waited at least as long as the entry has been idle) and `Replenished` (the level of an idle
  bucket grows with its idle time). Refinement maps a client without an entry to a full bucket; expiry is
  then a stutter, which is what `Replenished` is needed for.
- `AdmissionsAreBounded`: under the same two conditions, for windows of any length. The invariant `RateInv` says that what has been
  admitted in the window, plus what the client has left, was in the bucket at the beginning or came since. Each step of the
  filter is followed through the refinement: a lookup costs nothing, a decision costs one token if it admits, and a tick brings
  `RefillTokens` at most, *because* an expiry forgets only a full bucket.
- `WaitingSuffices`: if at least one token a second is refilled (`OneTokenASecond`, which 120 in 60 s satisfies and 3 in 60 s does
  not), no client that obeys `Retry-After` is rejected twice running. `PoliteInv` says that after a rejection the ticks left to wait
  will bring a token to *every* bucket object, so that it does not matter which of them an expiry leaves the client with;
  this is why the two conditions above are not needed. `polite_slow` shows that `OneTokenASecond` is.

`SequencingProofs` shows what sorting and filtering give without an induction over sequences. The place of an asset is the number of those
before it: this is injective on a finite set that `Before` orders strictly and totally, and takes values below the number of elements, hence each place
is taken exactly once (`OneForEachPlace`), and what `Sorted` lists is the set, in order, each once (`SortedIsSorted`), the only such list (`SortedIsUnique`). A filtered
list is sorted again, so it *is* the sorted list of what is kept (`FilterSorted`). `TablesInv`, that the tables are typed and each course has finitely many rows, is kept by every edit.
From it `ManifestsAreExact` and `EditsMoveNothingElse`: what an edit leaves of the untouched assets is, before and after, the sorted list of the same set
under orders that agree on it (`SortedAgrees`).

`SessionCacheProofs`: `TypeCorrect`, `StalenessIsBounded`, `AnswersMatchCourse`, for
every TTL, load time, set of courses, requests, edits and failures, from `TimesAssumption` and the
assumptions of `Sequencing`. The inductive invariant is `TypeOK /\ AgeBudget`: an entry's staleness is at most the ticks that
have gone from its TTL plus `MaxLoad`, and a request's at most its load time, so age can
be read off the clocks.

`AudioGateProofs`: `TypeCorrect`, `LabelTellsTheTruth` and `ClickFlipsSound`, for any devices and any number of
gestures and clicks, from `GateAssumption`; `ClickFlipsSound` from the same invariant and what `wanted` remembers. The label alone is not inductive: a `resume` that runs starts a sound that
was started before, but sets the label only for a caller that waits. `QueueOrder` says that behind a `resume` in the queue of a
suspended context there are only more of them (and the same of `suspend` in a running one),
because every call is made by a handler that saw `ctx.state`; `Flags` says that a started graph with a
queued `resume` has somebody waiting for it. Together with the types (`GraphOK`, `InputOK`) they are inductive.

`PageProofs`: `PageImplementsGate` shows that every step of the page is a step of `AudioGate` or a stutter, so
`PageLabelTellsTheTruth` is `LabelTellsTheTruth` carried over. `PageTypeCorrect`, `OneLoopOnly` and `NothingIsLeftBehind` hold for any
windows, any finite set of at least two handles and any number of restores. Their invariant relates the parts: the source's flag
to the state of its node and to `started`, and the life of the page to context, loop and heartbeat. That a source is never started twice needs
that `started` is never reset, also not on a page that comes back.

`HumidityProofs`, for any number of slider positions, any falling quarter circle and any sequence of layers, from
`CurveAssumption`: `Drives` is the inductive invariant, that layers, reverb and uniforms are a function of manifest and
humidity (an `apply` must depend on nothing that earlier ones left). `TypeCorrect`, `GainsAreTheirLayers`, `DirectSoundStays` and
`WetterStaysWetter` follow by lemmas about that function: each easing stays in its range and never turns back, an
interpolation stays between its ends and goes the way they lie, and the least index that `WetRange` chooses exists.
The theorems are about `ControlSpec`; `PlaybackProofs` shows that `Playback` implements it.

`EventEmitterProofs`: `TypeCorrect`, `EventsAreSentOnce`, `BatchesAreAccepted` and `SliderIsDebounced`, from `EmitterAssumption`. `SentOK` says that
the queue is empty between handlers, so that each batch is of one event, and that an event is in one place and in one batch;
`OneTimer` that only the timer of the last change is armed, and that the slider has rested for the ticks that are gone from it.
`ClockOK` adds that the pending value is the one on the screen: it is what makes the value that a late timer sends the right one.

`PlaybackProofs`, for any courses, assets, curves, edits, any timeout and any fields an answer may lack, from
`PlaybackAssumption`, `MissingAssumption` (a missing value is no manifest) and the assumptions of the modules it joins:

- `ListedCourseIsPlayed`, by the invariant that without trouble the session asked for is that of the listed course.
- `PlaybackTypeCorrect`, `ManifestStaysExact` and `EditsStayLocal`, from `PlaybackInv`: the tables are as `TablesInv` has them, what is loaded is a
  manifest, and from then on, and not before, there is a page. That every answer, also one that lacks fields, is normalised to a manifest with layers
  that the graph can be built from is `AnswerIsManifest`; that the built-in one is such a manifest is `FallbackIsManifest`.
- `LoadingBuildsOnePage`: the refinement `DrivesOnePage`. All four ways in which the loading ends are the step `BuildOnce` of `ControlSpec`
  (`LoadGivesManifest`, `LoadBoots`), the slider is `apply`, the rest stutters.
- `PageIsDriven`: so the theorems of `HumidityProofs` hold of the page that plays what the backend composed.

Every invariant, every action property and every refinement of the passing runs is thus proved, some under the conditions named above. Only model-checked are the liveness
properties, `LoadEnds`, `EventuallyFresh`, `SettledIsReported`, `HeartbeatsGoOn`, `StartIsNotLost` and
`ScreenCatchesUp`: fairness and ENABLED are out of the prover's reach. No module uses RECURSIVE operators.

## 5. Plan

Done: rate limit, sequencing, session cache, emitter, audio gate, page, humidity, loader and their composition.

Left, in this order:

1. `EventIngest`: the full verdict of the endpoint over small batches (unknown type, null element, no array).
2. `Backend`: an emitter behind the rate limit filter, whose 429 is one of its losses.
3. A page restored from the back/forward cache, once the repository says what it shall do.

## 6. Not modelled

Shaders, sound synthesis and the reverb impulse (no control state, and numbers that TLA+ does not have), CSS and page markup, Vite and
Gradle builds, the compose file and CI, `SecurityConfig` (a static list), health endpoints, and the detail of a
course (one stateless read that the page does not make). `AudioGraph.setMuted` has no caller. A failing constructor of the
AudioContext or of WebGL ends boot with an unhandled rejection, and nothing runs that could go wrong after it. System
interruptions of audio and what a restored page shall do are noted as hazards without a property.
