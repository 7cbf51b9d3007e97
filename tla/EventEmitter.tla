---------------------------- MODULE EventEmitter ----------------------------
(***************************************************************************)
(* The analytics emitter of one page (frontend/src/events/emitter.ts), the *)
(* page life cycle that drives it (frontend/src/main.ts) and the endpoint  *)
(* it posts to (backend/.../events/EventController.kt).                    *)
(*                                                                         *)
(* JavaScript runs a callback to its end before the next one, so every     *)
(* handler is one action; what interleaves are handlers, timers, the page  *)
(* life cycle and the network, where each batch travels on its own and may *)
(* be lost.  A timer never fires early, but may fire late.                 *)
(***************************************************************************)
EXTENDS Integers, Sequences

CONSTANTS Humidity,        \* positions of the slider
          Default,         \* manifest.humidity.default
          DebounceTicks,   \* SLIDER_DEBOUNCE_MS, in ticks
          HeartbeatTicks,  \* HEARTBEAT_MS, in ticks
          MaxBatch,        \* MAX_BATCH_SIZE of EventController
          MaxChanges,      \* bound on the slider changes of a behaviour
          MaxBeats         \* bound on the heartbeats sent in a behaviour

ASSUME EmitterAssumption ==
    /\ Default \in Humidity
    /\ DebounceTicks \in Nat \ {0}
    /\ HeartbeatTicks \in Nat \ {0}
    /\ MaxBatch \in Nat \ {0}
    /\ MaxChanges \in Nat
    /\ MaxBeats \in Nat

VARIABLES life,          \* of the page
          hidden,        \* document.hidden
          current,       \* HumidityController.current, what the screen shows
          queue,         \* the fields of EventEmitter, from here ...
          pending,
          sliderTimer,
          heartbeat,     \* ticks until the interval timer fires, or Off ... to here
          timers,        \* ticks until each debounce timer fires, or Off
          net,           \* batches on their way
          log,           \* events the backend has accepted
          lost,          \* events that never arrive
          nextId,        \* clientEventId of the next event
          changes,       \* counters of the bounds
          beats,
          quiet,         \* history: ticks since the last slider change
          unreported     \* history: the last slider change has no event yet

page    == <<life, hidden>>
fields  == <<queue, pending, sliderTimer, heartbeat>>
network == <<net, log, lost>>
history == <<quiet, unreported>>
vars == <<page, current, fields, timers, network, nextId, changes, beats, history>>

Off == -1

Timer == 1..MaxChanges

EventType == {"session_start", "course_play", "slider_change", "heartbeat"}

Init ==
    /\ life = "loading"
    /\ hidden \in BOOLEAN
    /\ current = Default
    /\ queue = <<>>
    /\ pending = Default
    /\ sliderTimer = 0
    /\ heartbeat = Off
    /\ timers = [t \in Timer |-> Off]
    /\ net = {}
    /\ log = {}
    /\ lost = {}
    /\ nextId = 1
    /\ changes = 0
    /\ beats = 0
    /\ quiet = DebounceTicks
    /\ unreported = FALSE

Events(batch) == {batch[i] : i \in 1..Len(batch)}

-----------------------------------------------------------------------------
\* Mutants of Flush: the queue is not replaced; an empty queue is sent too.
Flush_KeepsQueue(q) ==
    /\ net' = IF q = <<>> THEN net ELSE net \cup {q}
    /\ queue' = q
Flush_Unchecked(q) ==
    /\ net' = net \cup {q}
    /\ queue' = <<>>

\* flush and flushBeacon: the whole queue leaves as one batch, and is empty
\* before the request is answered.
Flush(q) ==
    /\ net' = IF q = <<>> THEN net ELSE net \cup {q}
    /\ queue' = <<>>

\* enqueue, then flush: an event takes what is queued along.
Emit(type) ==
    /\ Flush(Append(queue, [id |-> nextId, type |-> type, humidity |-> pending]))
    /\ nextId' = nextId + 1

\* boot: loadManifest has answered, the session starts.
Start ==
    /\ life = "loading"
    /\ life' = "active"
    /\ Emit("session_start")
    /\ heartbeat' = HeartbeatTicks
    /\ UNCHANGED <<hidden, current, pending, sliderTimer, timers, log, lost,
                   changes, beats, history>>

\* Mutant of SliderChange: without the clearTimeout.
SliderChange_NoClear(h) ==
    /\ pending' = h
    /\ sliderTimer' = changes + 1
    /\ timers' = [timers EXCEPT ![changes + 1] = DebounceTicks]

\* sliderChange: the previous debounce timer is cleared, a new one is armed.
SliderChange(h) ==
    /\ pending' = h
    /\ sliderTimer' = changes + 1
    /\ timers' = [t \in Timer |-> CASE t = changes + 1 -> DebounceTicks
                                    [] t = sliderTimer -> Off
                                    [] OTHER           -> timers[t]]

\* The user moves the slider: HumidityController.apply, and its onChange.
Input(h) ==
    /\ life = "active"
    /\ ~hidden
    /\ changes < MaxChanges
    /\ h # current
    /\ current' = h
    /\ SliderChange(h)
    /\ changes' = changes + 1
    /\ quiet' = 0
    /\ unreported' = TRUE
    /\ UNCHANGED <<page, queue, heartbeat, network, nextId, beats>>

SliderFires(t) ==
    /\ life = "active"
    /\ timers[t] = 0
    /\ timers' = [timers EXCEPT ![t] = Off]
    /\ Emit("slider_change")
    /\ unreported' = FALSE
    /\ UNCHANGED <<page, current, pending, sliderTimer, heartbeat, log, lost,
                   changes, beats, quiet>>

\* Mutant of Skip: hidden, the callback returns without arming its timer again.
Skip_NotRepeated ==
    /\ hidden
    /\ heartbeat' = Off
    /\ UNCHANGED <<queue, net, nextId, beats>>

Skip ==
    /\ hidden
    /\ heartbeat' = HeartbeatTicks
    /\ UNCHANGED <<queue, net, nextId, beats>>

Beat ==
    /\ ~hidden
    /\ beats < MaxBeats
    /\ heartbeat' = HeartbeatTicks
    /\ Emit("heartbeat")
    /\ beats' = beats + 1

\* The interval timer: a hidden page skips its heartbeat.
HeartbeatFires ==
    /\ life = "active"
    /\ heartbeat = 0
    /\ Skip \/ Beat
    /\ UNCHANGED <<page, current, pending, sliderTimer, timers, log, lost,
                   changes, history>>

\* Mutant of Hide: the page is disposed of whenever it is hidden.
Hide_Disposes ==
    /\ life \in {"loading", "active"}
    /\ ~hidden
    /\ hidden' = TRUE
    /\ Flush(queue)
    /\ timers' = [t \in Timer |-> IF t = sliderTimer THEN Off ELSE timers[t]]
    /\ UNCHANGED <<life, current, pending, sliderTimer, heartbeat, log, lost,
                   nextId, changes, beats, history>>

\* visibilitychange: hidden, the emitter flushes what it has queued.
Hide ==
    /\ life \in {"loading", "active"}
    /\ ~hidden
    /\ hidden' = TRUE
    /\ Flush(queue)
    /\ UNCHANGED <<life, current, pending, sliderTimer, heartbeat, timers, log,
                   lost, nextId, changes, beats, history>>

Show ==
    /\ life \in {"loading", "active"}
    /\ hidden
    /\ hidden' = FALSE
    /\ UNCHANGED <<life, current, fields, timers, network, nextId, changes,
                   beats, history>>

\* Mutant of Dispose: the heartbeat keeps its timer.
Dispose_KeepsHeartbeat ==
    /\ timers' = [t \in Timer |-> IF t = sliderTimer THEN Off ELSE timers[t]]
    /\ UNCHANGED heartbeat

Dispose ==
    /\ timers' = [t \in Timer |-> IF t = sliderTimer THEN Off ELSE timers[t]]
    /\ heartbeat' = Off

\* pagehide: flushBeacon, then the dispose of main.ts; then visibilitychange,
\* whose second flush finds the queue empty.  The page is frozen or unloaded.
Leave(fate) ==
    /\ life = "active"
    /\ life' = fate
    /\ hidden' = TRUE
    /\ Flush(queue)
    /\ Dispose
    /\ UNCHANGED <<current, pending, sliderTimer, log, lost, nextId, changes,
                   beats, history>>

\* The tab is closed before boot has registered a listener.
Abandon ==
    /\ life = "loading"
    /\ life' = "closed"
    /\ UNCHANGED <<hidden, current, fields, timers, network, nextId, changes,
                   beats, history>>

\* The back/forward cache brings the page back; no code listens to pageshow.
Restore ==
    /\ life = "frozen"
    /\ life' = "active"
    /\ hidden' = FALSE
    /\ UNCHANGED <<current, fields, timers, network, nextId, changes, beats,
                   history>>

-----------------------------------------------------------------------------
\* EventController.ingest answers 202 to such a batch, and 400 to the others.
Acceptable(batch) ==
    /\ batch # <<>>
    /\ Len(batch) =< MaxBatch
    /\ \A e \in Events(batch) : e.type \in EventType

Deliver(batch) ==
    /\ batch \in net
    /\ net' = net \ {batch}
    /\ IF Acceptable(batch) THEN log' = log \cup Events(batch) /\ UNCHANGED lost
                            ELSE lost' = lost \cup Events(batch) /\ UNCHANGED log
    /\ UNCHANGED <<page, current, fields, timers, nextId, changes, beats, history>>

\* No backend, a beacon the browser refuses, or a 429 of the rate limit: the
\* emitter does not look at the answer and never retries.
Lose(batch) ==
    /\ batch \in net
    /\ net' = net \ {batch}
    /\ lost' = lost \cup Events(batch)
    /\ UNCHANGED <<page, current, fields, timers, log, nextId, changes, beats, history>>

Down(ticks) == IF ticks > 0 THEN ticks - 1 ELSE ticks

Tick ==
    /\ life = "active"
    /\ timers' = [t \in Timer |-> Down(timers[t])]
    /\ heartbeat' = Down(heartbeat)
    /\ quiet' = IF quiet < DebounceTicks THEN quiet + 1 ELSE quiet
    /\ UNCHANGED <<page, current, queue, pending, sliderTimer, network, nextId,
                   changes, beats, unreported>>

Next ==
    \/ Start
    \/ \E h \in Humidity : Input(h)
    \/ \E t \in Timer : SliderFires(t)
    \/ HeartbeatFires
    \/ Hide \/ Show
    \/ \E fate \in {"frozen", "closed"} : Leave(fate)
    \/ Abandon
    \/ Restore
    \/ \E batch \in net : Deliver(batch) \/ Lose(batch)
    \/ Tick

Spec == Init /\ [][Next]_vars

\* Time passes while the page is alive, and the event loop runs due timers.
FairSpec ==
    /\ Spec
    /\ WF_vars(Tick)
    /\ \A t \in Timer : WF_vars(SliderFires(t))
    /\ WF_vars(HeartbeatFires)

-----------------------------------------------------------------------------
Event == [id : 1..nextId - 1, type : EventType, humidity : Humidity]

\* Every variable keeps to its range, and a page that is not running has no
\* timer left (emitter.ts:44-50, dispose at emitter.ts:128-131).
TypeOK ==
    /\ life \in {"loading", "active", "frozen", "closed"}
    /\ hidden \in BOOLEAN
    /\ current \in Humidity
    /\ pending \in Humidity
    /\ sliderTimer \in 0..MaxChanges
    /\ heartbeat \in Off..HeartbeatTicks
    /\ timers \in [Timer -> Off..DebounceTicks]
    /\ life # "active" => heartbeat = Off /\ \A t \in Timer : timers[t] = Off
    /\ Events(queue) \subseteq Event
    /\ \A batch \in net : Events(batch) \subseteq Event
    /\ log \subseteq Event
    /\ lost \subseteq Event
    /\ nextId \in Nat \ {0}
    /\ changes \in 0..MaxChanges
    /\ beats \in 0..MaxBeats
    /\ quiet \in 0..DebounceTicks
    /\ unreported \in BOOLEAN

\* At most once: every event is in exactly one place (the queue, one batch on
\* its way, the log of the backend, or lost), whatever is flushed by which of
\* the four handlers (emitter.ts:99-126: the queue is taken before the await).
EveryEventOnce ==
    LET Places == {<<"queue", Events(queue)>>, <<"log", log>>, <<"lost", lost>>}
                    \cup {<<"net", Events(b)>> : b \in net}
        Owners(id) == {p \in Places : \E e \in p[2] : e.id = id}
    IN  \A id \in 1..nextId - 1 : \E p \in Places : Owners(id) = {p}

\* Whatever handlers ran in which order, the backend never answers 400 to a
\* batch of the emitter (EventController.kt:31-36).
BatchesAreAcceptable == \A batch \in net : Acceptable(batch)

\* emitter.ts:10: a slider_change is sent only when the slider has rested for
\* the debounce time, at most once per rest, and with the value on the screen,
\* also when hiding, leaving and coming back fall in between.
Debounced ==
    [][\A batch \in net' \ net : \A e \in Events(batch) :
          e.type = "slider_change" /\ e.id = nextId
             => /\ quiet = DebounceTicks
                /\ unreported
                /\ e.humidity = current]_vars

\* emitter.ts:10: the value at which the slider comes to rest is sent, hidden or
\* not, unless the page is left first.
SettledIsReported ==
    [](life # "frozen") => (unreported ~> (~unreported \/ life = "closed"))

\* emitter.ts:11, "30s heartbeat": however often it was hidden before, a page
\* that stays in front of its user keeps sending heartbeats.  (Not so a page that
\* was left and restored: pagehide has cleared the interval for good.)
HeartbeatsGoOn ==
    [](life # "frozen") /\ <>[](life = "active" /\ ~hidden) => <>(beats = MaxBeats)

\* emitter.ts:10, "on a humidity change a slider_change, the last value": the
\* value at which the user left the slider has been sent when the page is gone.
LastValueIsSent == life = "closed" => ~unreported
=============================================================================
