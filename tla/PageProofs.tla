------------------------------ MODULE PageProofs ------------------------------
(***************************************************************************)
(* What the page promises for any windows, devices and number of clicks.   *)
(*                                                                         *)
(* To the gate a step of the page is a step of its own or a stutter, so it *)
(* keeps what AudioGateProofs proves of it.  LeavingReleasesEverything     *)
(* needs to know how far the sources are when the page is left: the flag   *)
(* of AudioGraph, the flag of the source and the node agree (SourcesOK).   *)
(***************************************************************************)
EXTENDS Page, AudioGateProofs, FiniteSetTheorems

SourcesOK ==
    /\ started <=> node # "idle"
    /\ sourceStarted <=> node = "playing"
    /\ node \in {"idle", "playing", "stopped"}
    /\ sourceStarted \in BOOLEAN /\ heartbeat \in BOOLEAN

\* What pagehide leaves, and what cannot come back without boot.
LeftOK ==
    life = "left" => hidden /\ callbacks = {} /\ gl = "lost" /\ ~heartbeat /\ ~sourceStarted

GateInv == GraphOK /\ InputOK /\ QueueOrder /\ Flags

\* A history of one loop: the parts of ExactlyOneLoop, also before boot.
OneLoop ==
    /\ callbacks = {rafId} \ {0}
    /\ Booted /\ ~hidden => rafId # 0
    /\ ~Booted => rafId = 0

-----------------------------------------------------------------------------
\* Every step of the page is one of the gate or leaves it alone.
LEMMA PageStepIsGateStep == [PageNext]_pageVars => [Next]_vars
<1> SUFFICES ASSUME [PageNext]_pageVars PROVE [Next]_vars
  OBVIOUS
<1>1. CASE Boot \/ Environment \/ Render
  BY <1>1 DEF Boot, Environment, Render
<1>2. CASE UserInput
  BY <1>2 DEF UserInput, Next
<1>3. CASE AudioThread
  BY <1>3 DEF AudioThread, Next
<1>4. CASE LeavePage
  BY <1>4 DEF LeavePage, Next
<1>5. CASE RestorePage
  BY <1>5 DEF RestorePage, Next
<1>6. CASE UNCHANGED pageVars
  BY <1>6 DEF pageVars
<1> QED
  BY <1>1, <1>2, <1>3, <1>4, <1>5, <1>6 DEF PageNext

\* The page refines its gate: what holds of every behaviour of AudioGate holds
\* of the page that embeds it (main.ts:47-79).
THEOREM PageImplementsGate == PageSpec => Spec
<1>1. PageInit => Init
  BY DEF PageInit
<1>2. [PageNext]_pageVars => [Next]_vars
  BY PageStepIsGateStep
<1> QED
  BY <1>1, <1>2, PTL DEF PageSpec, Spec

\* The button of the page says what is heard (main.ts:53, 66, 70).
THEOREM PageLabelTellsTheTruth == PageSpec => []LabelMatchesSound
BY PageImplementsGate, LabelTellsTheTruth, PTL

-----------------------------------------------------------------------------
\* A request of a frame where none is requested makes the one loop.
LEMMA RequestMakesOne ==
    ASSUME callbacks = {}, rafId = 0, Request
    PROVE  callbacks' = {rafId'} \ {0} /\ rafId' \in Handle /\ rafId' # 0
<1>1. PICK h \in Handle : callbacks' = {h} /\ rafId' = h
  BY DEF Request
<1>2. h # 0
  BY LoopAssumption
<1> QED
  BY <1>1, <1>2

\* pauseLoop cancels the one loop, resumeLoop leaves one (main.ts:97-108).
LEMMA PauseAndResume ==
    ASSUME OneLoop
    PROVE  /\ pauseLoop => callbacks' = {} /\ rafId' = 0
           /\ resumeLoop => callbacks' = {rafId'} \ {0} /\ rafId' # 0
<1>1. ASSUME pauseLoop PROVE callbacks' = {} /\ rafId' = 0
  BY <1>1 DEF pauseLoop, OneLoop
<1>2. ASSUME resumeLoop PROVE callbacks' = {rafId'} \ {0} /\ rafId' # 0
  <2>1. CASE rafId = 0 /\ Request
    BY <2>1, RequestMakesOne DEF OneLoop
  <2>2. CASE rafId # 0 /\ UNCHANGED <<rafId, callbacks>>
    BY <2>2 DEF OneLoop
  <2> QED
    BY <1>2, <2>1, <2>2 DEF resumeLoop
<1> QED
  BY <1>1, <1>2

\* A rendering update replaces the one frame by the next (main.ts:91-95).
LEMMA FramesKeepOne ==
    ASSUME OneLoop, rafId \in Handle, callbacks \subseteq Handle, Frames
    PROVE  callbacks' = {rafId'} \ {0} /\ rafId' # 0
<1>1. callbacks = {rafId} /\ rafId # 0
  BY LoopAssumption DEF OneLoop
<1>2. callbacks' \in SUBSET Handle /\ Cardinality(callbacks') = Cardinality(callbacks) /\ rafId' \in callbacks'
  BY <1>1 DEF Frames
<1>3. Cardinality(callbacks') = 1
  BY <1>1, <1>2, FS_Singleton
<1>4. PICK h : callbacks' = {h}
  <2>1. IsFiniteSet(callbacks')
    BY <1>2, LoopAssumption, FS_Subset
  <2> QED
    BY <1>3, <2>1, FS_Singleton
<1>5. rafId' = h /\ h # 0
  BY <1>2, <1>4, LoopAssumption
<1> QED
  BY <1>4, <1>5

\* What LoopOK says, with a stage as soon as there is one.
StageOK ==
    /\ LoopOK
    /\ Booted => stage \in [size : Size, animated : BOOLEAN]

\* What the handlers of resize and of the media query make of a stage
\* (main.ts:80-84).
LEMMA HandlersKeepStage ==
    ASSUME window \in Window, NEW s \in [size : Size, animated : BOOLEAN]
    PROVE  OnMotionChange(OnResize(s)) \in [size : Size, animated : BOOLEAN]
<1>1. window.size \in Size /\ window.reduced \in BOOLEAN
  BY DEF Window
<1>2. (~window.reduced) \in BOOLEAN
  OBVIOUS
<1>3. OnResize(s) \in [size : Size, animated : BOOLEAN]
  BY <1>1 DEF OnResize
<1> QED
  BY <1>2, <1>3 DEF OnMotionChange

LoopInv == StageOK /\ OneLoop

\* Each action of the loop keeps one loop and a proper stage.
LEMMA HideKeepsLoop == LoopInv /\ (Hide \/ PageHide) => LoopInv'
<1> SUFFICES ASSUME LoopInv, Hide \/ PageHide PROVE LoopInv'
  OBVIOUS
<1>1. /\ hidden' = TRUE
      /\ UNCHANGED <<window, changed, stage, shown>>
      /\ gl' \in {gl, "lost"}
      /\ Booted' <=> Booted
  BY DEF Hide, PageHide, Booted
<1>2. callbacks' = {rafId'} \ {0} /\ callbacks' \subseteq Handle /\ rafId' \in Handle \cup {0}
      /\ (~Booted => rafId' = 0)
  <2>1. CASE pauseLoop
    BY <2>1, PauseAndResume DEF LoopInv, OneLoop
  <2>2. CASE UNCHANGED <<rafId, callbacks>>
    BY <2>2 DEF LoopInv, StageOK, LoopOK, OneLoop
  <2> QED
    BY <2>1, <2>2 DEF Hide, PageHide
<1>3. StageOK'
  BY <1>1, <1>2 DEF LoopInv, StageOK, LoopOK
<1>4. OneLoop'
  BY <1>1, <1>2 DEF OneLoop
<1> QED
  BY <1>3, <1>4 DEF LoopInv

LEMMA ShowKeepsLoop == LoopInv /\ Show => LoopInv'
<1> SUFFICES ASSUME LoopInv, Show PROVE LoopInv'
  OBVIOUS
<1>1. hidden' = FALSE /\ UNCHANGED <<gl, window, changed, stage, shown>> /\ (Booted' <=> Booted)
  BY DEF Show, Booted
<1>2. callbacks' = {rafId'} \ {0} /\ callbacks' \subseteq Handle /\ rafId' \in Handle \cup {0}
      /\ (~Booted => rafId' = 0) /\ (Booted => rafId' # 0)
  <2>1. CASE Booted /\ resumeLoop
    <3>1. callbacks' = {rafId'} \ {0} /\ rafId' # 0
      BY <2>1, PauseAndResume DEF LoopInv
    <3>2. rafId' \in Handle \cup {0}
      BY <2>1 DEF resumeLoop, Request, LoopInv, StageOK, LoopOK
    <3> QED
      BY <2>1, <3>1, <3>2
  <2>2. CASE ~Booted /\ UNCHANGED <<rafId, callbacks>>
    BY <2>2 DEF LoopInv, StageOK, LoopOK, OneLoop
  <2> QED
    BY <2>1, <2>2 DEF Show
<1>3. StageOK'
  BY <1>1, <1>2 DEF LoopInv, StageOK, LoopOK
<1>4. OneLoop'
  BY <1>1, <1>2 DEF OneLoop
<1> QED
  BY <1>3, <1>4 DEF LoopInv

LEMMA BootKeepsLoop == LoopInv /\ BootLoop => LoopInv' /\ Booted'
<1> SUFFICES ASSUME LoopInv, BootLoop PROVE LoopInv' /\ Booted'
  OBVIOUS
<1>1. /\ gl' = "live" /\ stage' = Stage(window) /\ Request /\ ~Booted
      /\ UNCHANGED <<hidden, window, changed, shown>>
  BY DEF BootLoop
<1>2. callbacks' = {rafId'} \ {0} /\ rafId' \in Handle /\ rafId' # 0
  BY <1>1, RequestMakesOne DEF LoopInv, OneLoop
<1>3. Booted'
  BY <1>1 DEF Booted
<1>4. stage' \in [size : Size, animated : BOOLEAN]
  <2>1. window \in Window
    BY DEF LoopInv, StageOK, LoopOK
  <2>2. window.size \in Size /\ (~window.reduced) \in BOOLEAN
    BY <2>1 DEF Window
  <2> QED
    BY <1>1, <2>2 DEF Stage
<1>5. StageOK'
  BY <1>1, <1>2, <1>4 DEF LoopInv, StageOK, LoopOK
<1>6. OneLoop'
  BY <1>2, <1>3 DEF OneLoop
<1> QED
  BY <1>3, <1>5, <1>6 DEF LoopInv

LEMMA IdleKeepsLoop ==
    ASSUME LoopInv, UNCHANGED <<hidden, gl, rafId, callbacks, stage, shown>>,
           window' \in Window, changed' \subseteq {"size", "motion"}
    PROVE  LoopInv'
<1>1. Booted' <=> Booted
  BY DEF Booted
<1>2. StageOK'
  BY <1>1 DEF LoopInv, StageOK, LoopOK
<1>3. OneLoop'
  BY <1>1 DEF LoopInv, OneLoop
<1> QED
  BY <1>2, <1>3 DEF LoopInv

LEMMA UpdateKeepsLoop == LoopInv /\ UpdateRendering => LoopInv'
<1> SUFFICES ASSUME LoopInv, UpdateRendering PROVE LoopInv'
  OBVIOUS
<1>1. /\ ~hidden /\ Frames /\ changed' = {}
      /\ stage' = IF Booted THEN OnMotionChange(OnResize(stage)) ELSE stage
      /\ UNCHANGED <<hidden, gl, window>>
      /\ Booted' <=> Booted
  BY DEF UpdateRendering, Booted
<1>2. CASE Booted
  <2>1. rafId \in Handle /\ callbacks \subseteq Handle
    BY <1>1, <1>2 DEF LoopInv, StageOK, LoopOK, OneLoop
  <2>2. callbacks' = {rafId'} \ {0} /\ rafId' # 0
    BY <1>1, <2>1, FramesKeepOne DEF LoopInv
  <2>3. callbacks' \subseteq Handle
    BY <1>1, <2>1 DEF Frames
  <2>4. stage' \in [size : Size, animated : BOOLEAN]
    BY <1>1, <1>2, HandlersKeepStage DEF LoopInv, StageOK, LoopOK
  <2>5. shown' \in [size : Size, animated : BOOLEAN] \cup {Nothing}
    <3>1. shown' \in {stage', shown}
      BY <1>1 DEF Frames
    <3> QED
      BY <2>4, <3>1 DEF LoopInv, StageOK, LoopOK
  <2>6. rafId' \in Handle \cup {0}
    BY <2>2, <2>3
  <2>7. StageOK'
    BY <1>1, <2>3, <2>4, <2>5, <2>6 DEF LoopInv, StageOK, LoopOK
  <2>8. OneLoop'
    BY <1>1, <1>2, <2>2 DEF OneLoop
  <2> QED
    BY <2>7, <2>8 DEF LoopInv
\* Nothing is requested of a page that has not booted.
<1>3. CASE ~Booted
  <2>1. callbacks = {}
    BY <1>3 DEF LoopInv, OneLoop
  <2>2. UNCHANGED <<rafId, callbacks, stage, shown>>
    BY <1>1, <1>3, <2>1 DEF Frames
  <2>3. window' \in Window /\ changed' \subseteq {"size", "motion"}
    BY <1>1 DEF LoopInv, StageOK, LoopOK
  <2> QED
    BY <1>1, <2>2, <2>3, IdleKeepsLoop
<1> QED
  BY <1>2, <1>3

-----------------------------------------------------------------------------
\* The loop in the page: a page that was left has stopped it.
PageInv == GateInv /\ LoopInv /\ SourcesOK /\ LeftOK

LEMMA PageInitOK == PageInit => PageInv
<1> SUFFICES ASSUME PageInit PROVE PageInv
  OBVIOUS
<1>1. GateInv
  BY InitOK DEF PageInit, GateInv
<1>2. LoopInv
  BY DEF PageInit, InitLoop, LoopInv, StageOK, LoopOK, OneLoop, Booted
<1>3. started = FALSE /\ life = "active"
  BY DEF PageInit, Init
<1>4. SourcesOK /\ LeftOK
  BY <1>3 DEF PageInit, SourcesOK, LeftOK
<1> QED
  BY <1>1, <1>2, <1>4 DEF PageInv

LEMMA GateKept == GateInv /\ [PageNext]_pageVars => GateInv'
BY NextOK, PageStepIsGateStep DEF GateInv

\* What follows a step of the gate: the sources start with the flag.
LEMMA SourcesFollowGate ==
    ASSUME GraphOK, SourcesOK, SourcesFollow, started => started', UNCHANGED heartbeat,
           started' \in BOOLEAN
    PROVE  SourcesOK'
<1>1. CASE started' /\ ~started
  <2>1. StartSource /\ node = "idle" /\ ~sourceStarted
    BY <1>1 DEF SourcesFollow, SourcesOK
  <2>2. sourceStarted' = TRUE /\ node' = "playing"
    BY <2>1 DEF StartSource
  <2> QED
    BY <1>1, <2>2 DEF SourcesOK
<1>2. CASE ~(started' /\ ~started)
  <2>1. UNCHANGED <<sourceStarted, node>> /\ (started' <=> started)
    BY <1>2 DEF SourcesFollow
  <2> QED
    BY <2>1 DEF SourcesOK
<1> QED
  BY <1>1, <1>2

\* The flag of AudioGraph is never reset, and only pagehide leaves the page.
LEMMA StartedStays ==
    ASSUME GraphOK
    PROVE  /\ UserInput => (started => started') /\ UNCHANGED life
           /\ AudioThread => (started => started') /\ UNCHANGED life
<1>1. ASSUME NEW allowed \in BOOLEAN, NEW clicked \in BOOLEAN, EnsureAudioStarted(allowed, clicked)
      PROVE  started => started'
  BY <1>1 DEF EnsureAudioStarted, Start
<1>2. ASSUME OnToggle(TRUE) PROVE started => started'
  BY <1>1, <1>2 DEF OnToggle, Toggle
<1>3. ASSUME UserInput PROVE (started => started') /\ UNCHANGED life
  <2>1. ASSUME NEW device \in Pointers, NEW toggle \in BOOLEAN, PointerDown(device, toggle)
        PROVE  (started => started') /\ UNCHANGED life
    <3>1. CASE EnsureAudioStarted(activated', FALSE)
      BY <2>1, <3>1 DEF PointerDown, EnsureAudioStarted, Start
    <3>2. CASE UNCHANGED started
      BY <2>1, <3>2 DEF PointerDown
    <3> QED
      BY <2>1, <3>1, <3>2 DEF PointerDown
  <2>2. ASSUME NEW key \in Keys, NEW toggle \in BOOLEAN, KeyDown(key, toggle)
        PROVE  (started => started') /\ UNCHANGED life
    <3>1. CASE EnsureAudioStarted(activated', FALSE)
      BY <2>2, <3>1 DEF KeyDown, EnsureAudioStarted, Start
    <3>2. CASE UNCHANGED started
      BY <2>2, <3>2 DEF KeyDown
    <3> QED
      BY <2>2, <3>1, <3>2 DEF KeyDown
  <2>3. ASSUME Click \/ Assist PROVE (started => started') /\ UNCHANGED life
    BY <1>2, <2>3 DEF Click, Assist
  <2>4. ASSUME LetGo \/ Cancel PROVE (started => started') /\ UNCHANGED life
    BY <2>4 DEF LetGo, Cancel, graph
  <2> QED
    BY <1>3, <2>1, <2>2, <2>3, <2>4 DEF UserInput
<1>4. ASSUME AudioThread PROVE (started => started') /\ UNCHANGED life
  <2>1. UNCHANGED life
    BY <1>4 DEF AudioThread, RunControl
  <2>2. Resumed \/ Suspended
    BY <1>4 DEF AudioThread, RunControl
  <2>3. CASE Resumed
    <3>1. started' = (started \/ starting)
      BY <2>3 DEF Resumed
    <3> QED
      BY <2>1, <3>1
  <2>4. CASE Suspended
    BY <2>1, <2>4 DEF Suspended
  <2> QED
    BY <2>2, <2>3, <2>4
<1> QED
  BY <1>3, <1>4

LEMMA PageNextOK == PageInv /\ [PageNext]_pageVars => PageInv'
<1> SUFFICES ASSUME PageInv, [PageNext]_pageVars PROVE PageInv'
  OBVIOUS
<1>1. GateInv' /\ started' \in BOOLEAN /\ life \in {"active", "left", "restored"}
  BY GateKept DEF PageInv, GateInv, GraphOK
<1>2. CASE Boot
  <2>1. LoopInv'
    BY <1>2, BootKeepsLoop DEF Boot, PageInv
  <2>2. heartbeat' = TRUE /\ UNCHANGED <<started, sourceStarted, node, life>> /\ ~Booted
    BY <1>2 DEF Boot, BootLoop, vars, graph
  <2>3. SourcesOK'
    BY <2>2 DEF PageInv, SourcesOK
  <2>4. LeftOK'
    BY <2>2 DEF PageInv, LeftOK, Booted
  <2> QED
    BY <1>1, <2>1, <2>3, <2>4 DEF PageInv
<1>3. CASE UserInput \/ AudioThread
  <2>1. /\ SourcesFollow
        /\ UNCHANGED <<hidden, gl, rafId, callbacks, window, changed, stage, shown, heartbeat>>
    BY <1>3 DEF UserInput, AudioThread, loopVars
  <2>2. LoopInv'
    BY <2>1, IdleKeepsLoop DEF PageInv, LoopInv, StageOK, LoopOK
  <2>3. (started => started') /\ UNCHANGED life
    BY <1>3, StartedStays DEF PageInv, GateInv
  <2>4. SourcesOK'
    BY <1>1, <2>1, <2>3, SourcesFollowGate DEF PageInv, GateInv
  <2>5. LeftOK'
    <3>1. CASE life = "left"
      <4>1. hidden /\ control = <<>>
        BY <3>1 DEF PageInv, LeftOK, GateInv, Flags
      <4>2. LetGo \/ Cancel
        BY <1>3, <4>1 DEF UserInput, AudioThread, RunControl
      <4>3. UNCHANGED started
        BY <4>2 DEF LetGo, Cancel, graph
      <4> QED
        BY <2>1, <2>3, <3>1, <4>3 DEF SourcesFollow, PageInv, LeftOK
    <3>2. CASE life # "left"
      BY <2>3, <3>2 DEF LeftOK
    <3> QED
      BY <3>1, <3>2
  <2> QED
    BY <1>1, <2>2, <2>4, <2>5 DEF PageInv
<1>4. CASE Environment \/ Render
  <2>1. UNCHANGED <<started, life, sourceStarted, node, heartbeat>>
    BY <1>4 DEF Environment, Render, vars, graph, resources
  <2>2. LoopInv'
    <3>1. CASE Environment
      <4>1. CASE Hide \/ Show
        BY <4>1, HideKeepsLoop, ShowKeepsLoop DEF PageInv
      <4>2. ASSUME NEW w \in Window, ChangeWindow(w) PROVE LoopInv'
        <5>1. changed' \subseteq {"size", "motion"}
          BY <4>2 DEF ChangeWindow, PageInv, LoopInv, StageOK, LoopOK
        <5> QED
          BY <4>2, <5>1, IdleKeepsLoop DEF ChangeWindow, PageInv
      <4> QED
        BY <3>1, <4>1, <4>2 DEF Environment
    <3>2. CASE Render
      BY <3>2, UpdateKeepsLoop DEF Render, PageInv
    <3> QED
      BY <1>4, <3>1, <3>2
  <2>3. life # "left"
    BY <1>4 DEF PageInv, LeftOK, Environment, Render, UpdateRendering
  <2>4. SourcesOK' /\ LeftOK'
    BY <2>1, <2>3 DEF PageInv, SourcesOK, LeftOK
  <2> QED
    BY <1>1, <2>2, <2>4 DEF PageInv
<1>5. CASE LeavePage
  <2>1. LoopInv' /\ callbacks' = {} /\ gl' = "lost" /\ hidden' = TRUE
    BY <1>5, HideKeepsLoop, PauseAndResume DEF LeavePage, PageHide, PageInv, LoopInv
  <2>2. StopSource /\ UNCHANGED started
    BY <1>5 DEF LeavePage, Leave
  <2>3. sourceStarted' = FALSE /\ node' \in {node, "stopped"} /\ (node' = "idle" <=> node = "idle")
        /\ node' # "playing" /\ node' # "error"
    BY <2>2 DEF StopSource, PageInv, SourcesOK
  <2>4. heartbeat' = FALSE
    BY <1>5, <2>3 DEF LeavePage
  <2>5. SourcesOK' /\ LeftOK'
    BY <2>1, <2>2, <2>3, <2>4 DEF PageInv, SourcesOK, LeftOK
  <2> QED
    BY <1>1, <2>1, <2>5 DEF PageInv
<1>6. CASE RestorePage
  <2>1. LoopInv'
    BY <1>6, ShowKeepsLoop DEF RestorePage, PageInv
  <2>2. life' = "restored" /\ UNCHANGED <<started, sourceStarted, node, heartbeat>>
    BY <1>6 DEF RestorePage, Restore, graph, resources
  <2>3. SourcesOK' /\ LeftOK'
    BY <2>2 DEF PageInv, SourcesOK, LeftOK
  <2> QED
    BY <1>1, <2>1, <2>3 DEF PageInv
<1>7. CASE UNCHANGED pageVars
  <2>1. UNCHANGED <<started, life, sourceStarted, node, heartbeat, hidden, gl, rafId, callbacks,
                    window, changed, stage, shown>>
    BY <1>7 DEF pageVars, vars, graph, loopVars, resources
  <2>2. LoopInv'
    BY <2>1, IdleKeepsLoop DEF PageInv, LoopInv, StageOK, LoopOK
  <2>3. SourcesOK' /\ LeftOK'
    BY <2>1 DEF PageInv, SourcesOK, LeftOK
  <2> QED
    BY <1>1, <2>2, <2>3 DEF PageInv
<1> QED
  BY <1>2, <1>3, <1>4, <1>5, <1>6, <1>7 DEF PageNext

LEMMA PageInvHolds == PageSpec => []PageInv
BY PageInitOK, PageNextOK, PTL DEF PageSpec

\* For any windows, devices and number of clicks the variables of the page keep
\* to their ranges, and each source node is started at most once and stopped
\* only after that, also in pages that come back (procedural.ts:57-72).
THEOREM PageTypeCorrect == PageSpec => []PageOK
<1>1. PageInv => PageOK
  BY DEF PageInv, LoopInv, StageOK, SourcesOK, PageOK
<1> QED
  BY <1>1, PageInvHolds, PTL

\* Visibility changes before and after boot, pagehide and restore never leave a
\* second loop or a visible page without one (main.ts:87-126).
THEOREM OneLoopOnly == PageSpec => []ExactlyOneLoop
<1>1. PageInv => ExactlyOneLoop
  BY DEF PageInv, LoopInv, OneLoop, ExactlyOneLoop
<1> QED
  BY <1>1, PageInvHolds, PTL

\* Whenever a page is left, for the first time or again, all that it holds has
\* been released (main.ts:118-124).
THEOREM NothingIsLeftBehind == PageSpec => []LeavingReleasesEverything
<1>1. PageInv => LeavingReleasesEverything
  <2> SUFFICES ASSUME PageInv, life = "left" PROVE LeavingReleasesEverything
    BY DEF LeavingReleasesEverything
  <2>1. hidden /\ callbacks = {} /\ gl = "lost" /\ ~heartbeat /\ ~sourceStarted
    BY DEF PageInv, LeftOK
  <2>2. rafId = 0
    BY <2>1 DEF PageInv, LoopInv, OneLoop
  <2>3. node \in {"idle", "stopped"}
    BY <2>1 DEF PageInv, SourcesOK
  <2>4. ctx = "closed" /\ control = <<>>
    BY DEF PageInv, GateInv, Flags
  <2> QED
    BY <2>1, <2>2, <2>3, <2>4 DEF LeavingReleasesEverything
<1> QED
  BY <1>1, PageInvHolds, PTL
=============================================================================
