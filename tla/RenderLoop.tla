------------------------------ MODULE RenderLoop ------------------------------
(***************************************************************************)
(* The animation frame loop of frontend/src/main.ts and the state of the   *)
(* GLStage it draws (frontend/src/gl/renderer.ts) that the environment can *)
(* change: the size of the window with its device pixel ratio, and         *)
(* prefers-reduced-motion.  What a frame looks like is left out.           *)
(*                                                                         *)
(* The browser updates the rendering of a visible page in one task: the    *)
(* resize event, the change events of media queries, and then the          *)
(* animation frame callbacks that were requested before.  An event is      *)
(* fired once for what has changed since the update before, also to a page *)
(* that has not booted and does not listen yet.                            *)
(***************************************************************************)
EXTENDS Naturals, FiniteSets

CONSTANTS Size,      \* sizes of the window
          Handle,    \* what requestAnimationFrame returns: reused in the model
                     \* when neither the browser nor the page holds it
          Nothing    \* on the canvas before the first frame

ASSUME LoopAssumption ==
    /\ Handle \subseteq Nat \ {0}
    /\ IsFiniteSet(Handle)
    /\ Cardinality(Handle) >= 2

VARIABLES hidden,      \* document.hidden
          gl,          \* the context of the stage
          rafId,
          callbacks,   \* requested animation frames
          window,      \* the environment: size and reduced motion
          changed,     \* what of it changed since the last update
          stage,       \* uResolution and uGrainAnim
          shown        \* history: the stage in the last frame that was drawn

loopVars == <<hidden, gl, rafId, callbacks, window, changed, stage, shown>>

Window == [size : Size, reduced : BOOLEAN]

Stage(w) == [size |-> w.size, animated |-> ~w.reduced]

Booted == gl # "none"

InitLoop ==
    /\ hidden \in BOOLEAN
    /\ gl = "none"
    /\ rafId = 0
    /\ callbacks = {}
    /\ window \in Window
    /\ changed = {}
    /\ stage = Nothing
    /\ shown = Nothing

-----------------------------------------------------------------------------
\* rafId = requestAnimationFrame(frame)
Request ==
    \E h \in Handle \ (callbacks \cup {rafId}) :
        /\ callbacks' = callbacks \cup {h}
        /\ rafId' = h

pauseLoop ==
    /\ callbacks' = callbacks \ {rafId}
    /\ rafId' = 0

\* Mutant of resumeLoop: without the check of the handle.
resumeLoop_Unchecked == Request

resumeLoop ==
    \/ rafId = 0 /\ Request
    \/ rafId # 0 /\ UNCHANGED <<rafId, callbacks>>

\* Mutant of BootLoop: the motion setting is left to its change event.
BootLoop_MotionLater ==
    /\ ~Booted
    /\ gl' = "live"
    /\ stage' = [Stage(window) EXCEPT !.animated = TRUE]
    /\ Request
    /\ UNCHANGED <<hidden, window, changed, shown>>

\* The stage reads the environment; the loop starts, even in a hidden page.
BootLoop ==
    /\ ~Booted
    /\ gl' = "live"
    /\ stage' = Stage(window)
    /\ Request
    /\ UNCHANGED <<hidden, window, changed, shown>>

Hide ==
    /\ ~hidden
    /\ hidden' = TRUE
    /\ IF Booted THEN pauseLoop ELSE UNCHANGED <<rafId, callbacks>>
    /\ UNCHANGED <<gl, window, changed, stage, shown>>

Show ==
    /\ hidden
    /\ hidden' = FALSE
    /\ IF Booted THEN resumeLoop ELSE UNCHANGED <<rafId, callbacks>>
    /\ UNCHANGED <<gl, window, changed, stage, shown>>

\* pagehide, which a visible page lets follow visibilitychange; dispose loses
\* the context for good.
PageHide ==
    /\ Booted
    /\ pauseLoop
    /\ gl' = "lost"
    /\ hidden' = TRUE
    /\ UNCHANGED <<window, changed, stage, shown>>

ChangeWindow(w) ==
    /\ window' = w
    /\ changed' = changed \cup (IF w.size # window.size THEN {"size"} ELSE {})
                          \cup (IF w.reduced # window.reduced THEN {"motion"} ELSE {})
    /\ UNCHANGED <<hidden, gl, rafId, callbacks, stage, shown>>

OnResize(s) ==
    IF "size" \in changed THEN [s EXCEPT !.size = window.size] ELSE s

OnMotionChange(s) ==
    IF "motion" \in changed THEN [s EXCEPT !.animated = ~window.reduced] ELSE s

\* frame, for every callback: those it requests run in the next update.
Frames ==
    IF callbacks = {}
      THEN UNCHANGED <<shown, rafId, callbacks>>
      ELSE /\ shown' = IF gl = "live" THEN stage' ELSE shown
           /\ callbacks' \in {new \in SUBSET (Handle \ callbacks) :
                                Cardinality(new) = Cardinality(callbacks)}
           /\ rafId' \in callbacks'

UpdateRendering ==
    /\ ~hidden
    /\ changed' = {}
    /\ stage' = IF Booted THEN OnMotionChange(OnResize(stage)) ELSE stage
    /\ Frames
    /\ UNCHANGED <<hidden, gl, window>>

-----------------------------------------------------------------------------
LoopOK ==
    /\ hidden \in BOOLEAN
    /\ gl \in {"none", "live", "lost"}
    /\ rafId \in Handle \cup {0}
    /\ callbacks \subseteq Handle
    /\ window \in Window
    /\ changed \subseteq {"size", "motion"}
    /\ stage \in [size : Size, animated : BOOLEAN] \cup {Nothing}
    /\ shown \in [size : Size, animated : BOOLEAN] \cup {Nothing}

\* At most one frame is requested, the page holds its handle, and there is one
\* whenever the page is visible: no second loop, none that dies, whatever the
\* visibility does before and after boot and around pagehide (main.ts:87-126).
ExactlyOneLoop ==
    Booted => /\ callbacks = {rafId} \ {0}
              /\ hidden \/ rafId # 0

\* The screen of a page that stays visible comes to show the window as it is,
\* at its size and with the motion its user wants, however often these have
\* changed and the page was hidden, and also if the event of a change came
\* before there was a listener (main.ts:32-33, 80-96, renderer.ts:81-97).
ScreenCatchesUp ==
    \A w \in Window :
        LET settled == gl = "live" /\ ~hidden /\ window = w
        IN settled ~> (shown = Stage(w) \/ ~settled)
=============================================================================
