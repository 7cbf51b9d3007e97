------------------------------ MODULE AudioGate ------------------------------
(***************************************************************************)
(* The autoplay gate and the play button: frontend/src/main.ts,            *)
(* frontend/src/audio/graph.ts and the toggle of frontend/src/ui/controls  *)
(* .ts, on an AudioContext of the Web Audio API.                           *)
(*                                                                         *)
(* resume() and suspend() only queue a control message for the rendering   *)
(* thread; ctx.state changes, and the promises resolve, when the message   *)
(* has run.  A resume() before the page has user activation queues no      *)
(* message, and its promise waits for the next resume() that does.  A      *)
(* handler runs up to its first await in one step; what follows the await  *)
(* runs with the message that resolves the promise.                        *)
(***************************************************************************)
EXTENDS Naturals, Sequences

CONSTANTS Pointers,    \* input devices: a subset of {"mouse", "touch"}
          MaxClicks    \* bound on the clicks on the button

ASSUME GateAssumption ==
    /\ Pointers \subseteq {"mouse", "touch"}
    /\ MaxClicks \in Nat

VARIABLES life,           \* of the page
          ctx,            \* AudioContext.state
          activated,      \* the page may start audio
          control,        \* control messages that have not run yet
          waiting,        \* promises of resume() are pending
          starting,       \* ... among them that of AudioGraph.start
          audioStarted,   \* the flag of boot
          started,        \* the flag of AudioGraph: its sources were started
          playing,        \* what the button shows
          pointerGate,    \* the once-listeners of boot
          keyGate,
          press,          \* the pointer or key that is down
          clicks,         \* counter of the bound
          wanted          \* history: the sound the last click asked for

graph == <<ctx, control, waiting, starting, started, playing>>
gates == <<audioStarted, pointerGate, keyGate>>
vars  == <<life, graph, activated, gates, press, clicks, wanted>>

\* "escape" is Esc, or a shortcut that the browser reserves.
Keys == {"key", "escape"}

Up == [by |-> "nothing", toggle |-> FALSE]

Settled == control = <<>>

Audible == ctx = "running" /\ started

\* Where autoplay is allowed the context starts on its own.
Init ==
    /\ life = "active"
    /\ ctx = "suspended"
    /\ activated \in BOOLEAN
    /\ control = IF activated THEN <<"resume">> ELSE <<>>
    /\ waiting = FALSE
    /\ starting = FALSE
    /\ audioStarted = FALSE
    /\ started = FALSE
    /\ playing = FALSE
    /\ pointerGate = TRUE
    /\ keyGate = TRUE
    /\ press = Up
    /\ clicks = 0
    /\ wanted = "any"

-----------------------------------------------------------------------------
\* ctx.resume()
Resume(allowed) ==
    /\ control' = IF allowed THEN Append(control, "resume") ELSE control
    /\ waiting' = TRUE

\* AudioGraph.start, then the label: after a click it says playing in any case.
Start(allowed, clicked) ==
    \/ /\ ctx = "suspended"
       /\ Resume(allowed)
       /\ starting' = TRUE
       /\ UNCHANGED <<started, playing>>
    \/ /\ ctx # "suspended"
       /\ started' = TRUE
       /\ playing' = (ctx = "running" \/ clicked)
       /\ UNCHANGED <<control, waiting, starting>>

\* Mutant of EnsureAudioStarted: without the check of the flag.
EnsureAudioStarted_Unguarded(allowed, clicked) ==
    /\ audioStarted' = TRUE
    /\ Start(allowed, clicked)

\* The flag is set before the await.
EnsureAudioStarted(allowed, clicked) ==
    \/ /\ audioStarted
       /\ UNCHANGED <<audioStarted, control, waiting, starting, started, playing>>
    \/ /\ ~audioStarted
       /\ audioStarted' = TRUE
       /\ Start(allowed, clicked)

\* Mutant of Toggle: it never looks at the state.
Toggle_Resumes(allowed) ==
    /\ Resume(allowed)
    /\ UNCHANGED <<starting, started, playing>>

\* AudioGraph.toggle reads ctx.state, which lags behind the control messages.
\* resume() on a closed context rejects, and the label is not reached.
Toggle(allowed) ==
    /\ \/ ctx = "running" /\ control' = Append(control, "suspend") /\ UNCHANGED waiting
       \/ ctx = "suspended" /\ Resume(allowed)
       \/ ctx = "closed" /\ UNCHANGED <<control, waiting>>
    /\ UNCHANGED <<starting, started, playing>>

\* Mutant of OnToggle: the click first waits for a start that is pending.
OnToggle_AwaitsStart(allowed) ==
    /\ clicks < MaxClicks
    /\ clicks' = clicks + 1
    /\ wanted' = "any"
    /\ \/ ~audioStarted /\ EnsureAudioStarted(allowed, TRUE)
       \/ audioStarted /\ ~starting /\ Toggle(allowed) /\ UNCHANGED audioStarted
       \/ starting /\ UNCHANGED <<audioStarted, control, waiting, starting, started, playing>>

\* onToggle: the first start is not followed by a toggle.
OnToggle(allowed) ==
    /\ clicks < MaxClicks
    /\ clicks' = clicks + 1
    /\ wanted' = CASE ~Settled -> "any"
                 [] Settled /\ Audible -> "off"
                 [] Settled /\ ~Audible -> "on"
    /\ \/ ~audioStarted /\ EnsureAudioStarted(allowed, TRUE)
       \/ audioStarted /\ Toggle(allowed) /\ UNCHANGED audioStarted

-----------------------------------------------------------------------------
\* A mouse activates the page when it goes down, a finger when it goes up.
PointerDown(device, toggle) ==
    /\ life # "left"
    /\ press = Up
    /\ press' = [by |-> device, toggle |-> toggle]
    /\ activated' = (activated \/ device = "mouse")
    /\ pointerGate' = FALSE
    /\ IF pointerGate THEN EnsureAudioStarted(activated', FALSE)
                      ELSE UNCHANGED <<audioStarted, control, waiting, starting,
                                       started, playing>>
    /\ UNCHANGED <<life, ctx, keyGate, clicks, wanted>>

\* Esc and reserved shortcuts reach the listener, too, and activate nothing.
KeyDown(key, toggle) ==
    /\ life # "left"
    /\ press = Up
    /\ toggle => key = "key"
    /\ press' = [by |-> key, toggle |-> toggle]
    /\ activated' = (activated \/ key = "key")
    /\ keyGate' = FALSE
    /\ IF keyGate THEN EnsureAudioStarted(activated', FALSE)
                  ELSE UNCHANGED <<audioStarted, control, waiting, starting,
                                   started, playing>>
    /\ UNCHANGED <<life, ctx, pointerGate, clicks, wanted>>

\* Press and release on the button make a click.
Click ==
    /\ life # "left"
    /\ press.toggle
    /\ press' = Up
    /\ activated' = TRUE
    /\ OnToggle(TRUE)
    /\ UNCHANGED <<life, ctx, pointerGate, keyGate>>

\* Released elsewhere, or not the button: no click.
LetGo ==
    /\ press # Up
    /\ press' = Up
    /\ activated' = (activated \/ press.by # "escape")
    /\ UNCHANGED <<life, graph, gates, clicks, wanted>>

\* A touch that becomes a scroll is cancelled, and activates nothing.
Cancel ==
    /\ press.by = "touch"
    /\ press' = Up
    /\ UNCHANGED <<life, graph, activated, gates, clicks, wanted>>

\* Assistive technology clicks the button without pointer or key events.
Assist ==
    /\ life # "left"
    /\ press = Up
    /\ activated' = TRUE
    /\ OnToggle(TRUE)
    /\ UNCHANGED <<life, ctx, pointerGate, keyGate, press>>

\* Mutant of Resumed: ensureAudioStarted does not update the button.
Resumed_NoLabel ==
    /\ ctx' = "running"
    /\ started' = (started \/ starting)
    /\ playing' = (playing \/ (waiting /\ ~starting))
    /\ waiting' = FALSE
    /\ starting' = FALSE

\* All pending promises of resume() resolve: the sources start if start is one
\* of them, and each caller sets the button to playing.
Resumed ==
    /\ ctx' = "running"
    /\ started' = (started \/ starting)
    /\ playing' = (playing \/ waiting)
    /\ waiting' = FALSE
    /\ starting' = FALSE

Suspended ==
    /\ ctx' = "suspended"
    /\ playing' = FALSE
    /\ UNCHANGED <<waiting, starting, started>>

RunControl ==
    /\ control # <<>>
    /\ control' = Tail(control)
    /\ \/ Head(control) = "resume" /\ Resumed
       \/ Head(control) = "suspend" /\ Suspended
    /\ UNCHANGED <<life, activated, gates, press, clicks, wanted>>

\* Mutant of Leave: the flags are reset, so that a restored page starts again.
Leave_Resets ==
    /\ life # "left"
    /\ life' = "left"
    /\ ctx' = "closed"
    /\ control' = <<>>
    /\ waiting' = FALSE
    /\ starting' = FALSE
    /\ press' = Up
    /\ audioStarted' = FALSE
    /\ started' = FALSE
    /\ UNCHANGED <<activated, pointerGate, keyGate, playing, clicks, wanted>>

\* pagehide: AudioGraph.dispose closes the context, pending promises reject.
Leave ==
    /\ life # "left"
    /\ life' = "left"
    /\ ctx' = "closed"
    /\ control' = <<>>
    /\ waiting' = FALSE
    /\ starting' = FALSE
    /\ press' = Up
    /\ UNCHANGED <<activated, gates, started, playing, clicks, wanted>>

\* The page comes back from the back/forward cache, its listeners still there.
Restore ==
    /\ life = "left"
    /\ life' = "restored"
    /\ UNCHANGED <<graph, activated, gates, press, clicks, wanted>>

Next ==
    \/ \E device \in Pointers, toggle \in BOOLEAN : PointerDown(device, toggle)
    \/ \E key \in Keys, toggle \in BOOLEAN : KeyDown(key, toggle)
    \/ Click \/ LetGo \/ Cancel \/ Assist
    \/ RunControl
    \/ Leave \/ Restore

Spec == Init /\ [][Next]_vars

\* The rendering thread runs its control messages.
FairSpec == Spec /\ WF_vars(RunControl)

-----------------------------------------------------------------------------
\* Every variable keeps to its range.  AudioGraph.start waits for at most one
\* resume and never starts its sources a second time, however many gestures
\* and clicks race (main.ts:48-52, graph.ts:82-88).
TypeOK ==
    /\ life \in {"active", "left", "restored"}
    /\ ctx \in {"suspended", "running", "closed"}
    /\ control \in Seq({"resume", "suspend"})
    /\ activated \in BOOLEAN /\ pointerGate \in BOOLEAN /\ keyGate \in BOOLEAN
    /\ waiting \in BOOLEAN /\ starting \in BOOLEAN
    /\ audioStarted \in BOOLEAN /\ started \in BOOLEAN /\ playing \in BOOLEAN
    /\ press \in [by : Pointers \cup Keys \cup {"nothing"}, toggle : BOOLEAN]
    /\ clicks \in 0..MaxClicks
    /\ wanted \in {"any", "on", "off"}
    /\ starting => waiting /\ audioStarted /\ ~started
    /\ started => audioStarted

\* The button says what is heard, after gestures, clicks and autoplay in any
\* order, and whatever messages are still to run (main.ts:53, 66, 70;
\* controls.ts:62-65).
LabelMatchesSound ==
    life = "active" => (playing <=> Audible)

\* A click made when nothing is under way turns the sound on if it was off and
\* off if it was on, whatever else has happened before (main.ts:60-72,
\* graph.ts:91-98).
ClickFlips ==
    life = "active" /\ Settled /\ wanted # "any" => (Audible <=> wanted = "on")

\* A gesture uses up the gate for good, also a finger that is only going down
\* or an Esc, whose resume() waits because neither has activated the page.  The
\* start that it began is lost at most for a user who never clicks the button:
\* in every other case the sources come to be started (main.ts:47-79,
\* graph.ts:82-98).
StartIsNotLost ==
    [](starting => activated) \/ <>(clicks > 0)
        => (audioStarted ~> (started \/ life # "active"))

\* main.ts:62, "the first click must always play": after one click there is
\* sound.
FirstClickPlays ==
    clicks = 1 /\ Settled /\ life = "active" => Audible
=============================================================================
