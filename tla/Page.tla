--------------------------------- MODULE Page ---------------------------------
(***************************************************************************)
(* The page as a whole: boot, the listeners that frontend/src/main.ts      *)
(* registers, and pagehide, which takes apart the render loop, the audio   *)
(* graph and the event emitter in this order.  A page in the back/forward  *)
(* cache comes back with its listeners and what pagehide left of the rest, *)
(* and can be left again.                                                  *)
(*                                                                         *)
(* The nodes of the sources (frontend/src/audio/procedural.ts) are started *)
(* and stopped together and are represented by one.  A node can be started *)
(* once, and stop() throws on one that was not started; what follows in    *)
(* the handler is then not reached.                                        *)
(***************************************************************************)
EXTENDS AudioGate, RenderLoop

VARIABLES sourceStarted,   \* the flag in the closure of each source
          node,            \* of the oscillators and buffer sources
          heartbeat        \* the interval timer of EventEmitter

resources == <<sourceStarted, node, heartbeat>>
pageVars  == <<vars, loopVars, resources>>

PageInit ==
    /\ Init
    /\ InitLoop
    /\ sourceStarted = FALSE
    /\ node = "idle"
    /\ heartbeat = FALSE

-----------------------------------------------------------------------------
\* source.start(when)
StartSource ==
    \/ sourceStarted /\ UNCHANGED <<sourceStarted, node>>
    \/ /\ ~sourceStarted
       /\ sourceStarted' = TRUE
       /\ node' = IF node = "idle" THEN "playing" ELSE "error"

\* Mutant of StopSource: without the check of the flag.
StopSource_Unchecked ==
    /\ sourceStarted' = FALSE
    /\ node' = IF node = "idle" THEN "error" ELSE "stopped"

\* source.stop()
StopSource ==
    \/ ~sourceStarted /\ UNCHANGED <<sourceStarted, node>>
    \/ /\ sourceStarted
       /\ sourceStarted' = FALSE
       /\ node' = IF node = "idle" THEN "error" ELSE "stopped"

\* AudioGraph.start starts the sources in the step that sets its flag.
SourcesFollow ==
    IF started' /\ ~started THEN StartSource ELSE UNCHANGED <<sourceStarted, node>>

Boot ==
    /\ BootLoop
    /\ heartbeat' = TRUE
    /\ UNCHANGED <<vars, sourceStarted, node>>

\* There is no input to a page that is not visible.
UserInput ==
    /\ Booted
    /\ \/ /\ ~hidden
          /\ \/ \E device \in Pointers, toggle \in BOOLEAN : PointerDown(device, toggle)
             \/ \E key \in Keys, toggle \in BOOLEAN : KeyDown(key, toggle)
             \/ Click \/ Assist
       \/ LetGo \/ Cancel
    /\ SourcesFollow
    /\ UNCHANGED <<loopVars, heartbeat>>

AudioThread ==
    /\ Booted
    /\ RunControl
    /\ SourcesFollow
    /\ UNCHANGED <<loopVars, heartbeat>>

Environment ==
    /\ life # "left"
    /\ \/ Hide \/ Show
       \/ \E w \in Window : ChangeWindow(w)
    /\ UNCHANGED <<vars, resources>>

Render == UpdateRendering /\ UNCHANGED <<vars, resources>>

\* pagehide
LeavePage ==
    /\ PageHide
    /\ Leave
    /\ StopSource
    /\ heartbeat' = (heartbeat /\ node' = "error")

\* Visible again.
RestorePage ==
    /\ Restore
    /\ Show
    /\ UNCHANGED resources

PageNext ==
    \/ Boot
    \/ UserInput \/ AudioThread
    \/ Environment \/ Render
    \/ LeavePage \/ RestorePage

PageSpec == PageInit /\ [][PageNext]_pageVars

\* The audio thread runs its messages and the browser updates the rendering of
\* a visible page.
PageFairSpec == PageSpec /\ WF_pageVars(AudioThread) /\ WF_pageVars(Render)

-----------------------------------------------------------------------------
\* Every variable keeps to its range, and no node is started twice or stopped
\* before it was started, also in a page that has come back (procedural.ts:57-72).
PageOK ==
    /\ LoopOK
    /\ sourceStarted \in BOOLEAN /\ heartbeat \in BOOLEAN
    /\ node \in {"idle", "playing", "stopped"}

\* Leaving takes everything apart, however far the sound had got, and also when
\* a page that was left and has come back is left again: no frame is requested,
\* no node plays or was used against its protocol, the AudioContext is closed,
\* the GL context lost and the heartbeat off (main.ts:118-124).
LeavingReleasesEverything ==
    life = "left" => /\ callbacks = {} /\ rafId = 0
                     /\ gl = "lost"
                     /\ node \in {"idle", "stopped"}
                     /\ ctx = "closed" /\ control = <<>>
                     /\ ~heartbeat
=============================================================================
