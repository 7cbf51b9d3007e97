--------------------------- MODULE AudioGateProofs ---------------------------
(***************************************************************************)
(* What AudioGate promises for any devices and any number of clicks.       *)
(*                                                                         *)
(* LabelMatchesSound is not inductive: a resume message that runs sets the *)
(* label only if somebody waits for it.  QueueOrder says that clicks, who  *)
(* see ctx.state and not the queue, never queue a resume behind a suspend  *)
(* that lies behind a resume; Flags says who waits for a queued resume.    *)
(***************************************************************************)
EXTENDS AudioGate, TLAPS

\* Messages that change the state come after those that confirm it.
QueueOrder ==
    \A i, j \in 1..Len(control) : i < j =>
        /\ ctx = "running" /\ control[i] = "suspend" => control[j] = "suspend"
        /\ ctx = "suspended" /\ control[i] = "resume" => control[j] = "resume"

Resuming == \E i \in 1..Len(control) : control[i] = "resume"

Flags ==
    /\ life = "active" => ctx # "closed"
    /\ life # "active" => ctx = "closed" /\ control = <<>>
    /\ life = "active" /\ audioStarted => started \/ starting
    /\ waiting => audioStarted
    /\ ctx = "running" => ~waiting /\ (started <=> playing)
    /\ ctx = "suspended" => ~playing
    /\ ctx = "suspended" /\ started /\ Resuming => waiting

Message == {"resume", "suspend"}

-----------------------------------------------------------------------------
\* What TypeOK says of the variables that a gesture may change.
GraphOK ==
    /\ life \in {"active", "left", "restored"}
    /\ ctx \in {"suspended", "running", "closed"}
    /\ control \in Seq(Message)
    /\ waiting \in BOOLEAN /\ starting \in BOOLEAN
    /\ audioStarted \in BOOLEAN /\ started \in BOOLEAN /\ playing \in BOOLEAN
    /\ starting => waiting /\ audioStarted /\ ~started
    /\ started => audioStarted

\* A call of resume() by a handler that saw a suspended context keeps the order
\* of the queue (AudioGraph.start, graph.ts:83, and toggle, graph.ts:96).
LEMMA ResumeKeepsOrder ==
    ASSUME control \in Seq(Message), ctx = "suspended", UNCHANGED ctx, QueueOrder,
           NEW allowed \in BOOLEAN, Resume(allowed)
    PROVE  control' \in Seq(Message) /\ QueueOrder'
<1>1. CASE allowed
  <2>1. control' = Append(control, "resume")
    BY <1>1 DEF Resume
  <2>2. control' \in Seq(Message) /\ Len(control') = Len(control) + 1
    BY <2>1 DEF Message
  <2>3. ASSUME NEW i \in 1..Len(control'), NEW j \in 1..Len(control'), i < j,
               control'[i] = "resume"
        PROVE  control'[j] = "resume"
    <3>1. i \in 1..Len(control)
      BY <2>2, <2>3
    <3>2. control[i] = "resume"
      BY <2>1, <2>3, <3>1
    <3>3. CASE j = Len(control) + 1
      BY <2>1, <3>3
    <3>4. CASE j # Len(control) + 1
      <4>1. j \in 1..Len(control)
        BY <2>2, <2>3, <3>4
      <4>2. control[j] = "resume"
        BY <2>3, <3>1, <3>2, <4>1 DEF QueueOrder
      <4> QED
        BY <2>1, <4>1, <4>2
    <3> QED
      BY <3>3, <3>4
  <2> QED
    BY <2>2, <2>3 DEF QueueOrder
<1>2. CASE ~allowed
  BY <1>2 DEF Resume, QueueOrder
<1> QED
  BY <1>1, <1>2

\* So does a call of suspend() by one that saw a running context (graph.ts:93).
LEMMA SuspendKeepsOrder ==
    ASSUME control \in Seq(Message), ctx = "running", UNCHANGED ctx, QueueOrder,
           control' = Append(control, "suspend")
    PROVE  control' \in Seq(Message) /\ QueueOrder'
<1>1. control' \in Seq(Message) /\ Len(control') = Len(control) + 1
  BY DEF Message
<1>2. ASSUME NEW i \in 1..Len(control'), NEW j \in 1..Len(control'), i < j,
             control'[i] = "suspend"
      PROVE  control'[j] = "suspend"
  <2>1. i \in 1..Len(control)
    BY <1>1, <1>2
  <2>2. control[i] = "suspend"
    BY <1>2, <2>1
  <2>3. CASE j = Len(control) + 1
    BY <2>3
  <2>4. CASE j # Len(control) + 1
    <3>1. j \in 1..Len(control)
      BY <1>1, <1>2, <2>4
    <3>2. control[j] = "suspend"
      BY <1>2, <2>1, <2>2, <3>1 DEF QueueOrder
    <3> QED
      BY <3>1, <3>2
  <2> QED
    BY <2>3, <2>4
<1> QED
  BY <1>1, <1>2 DEF QueueOrder

\* The message at the head of the queue decides about those behind it.
LEMMA TailKeepsOrder ==
    ASSUME control \in Seq(Message), control # <<>>, QueueOrder, ctx \in {"suspended", "running"},
           control' = Tail(control),
           \/ Head(control) = "resume" /\ ctx' = "running"
           \/ Head(control) = "suspend" /\ ctx' = "suspended"
    PROVE  /\ control' \in Seq(Message)
           /\ QueueOrder'
           /\ ctx = "running" /\ Head(control) = "suspend" => ~Resuming'
<1>1. /\ control' \in Seq(Message)
      /\ Len(control') = Len(control) - 1
      /\ Len(control) \in Nat \ {0}
      /\ \A i \in 1..Len(control') : i + 1 \in 1..Len(control) /\ control'[i] = control[i + 1]
      /\ Head(control) = control[1]
  OBVIOUS
<1>2. \A i \in 1..Len(control') : 1 < i + 1 /\ 1 \in 1..Len(control)
  BY <1>1
<1>3. \A i, j \in 1..Len(control') : i < j => i + 1 < j + 1
  BY <1>1
<1>4. CASE Head(control) = "resume" /\ ctx' = "running"
  <2>1. CASE ctx = "running"
    BY <1>1, <1>3, <1>4, <2>1 DEF QueueOrder
  <2>2. CASE ctx = "suspended"
    <3>1. \A i \in 1..Len(control') : control'[i] = "resume"
      BY <1>1, <1>2, <1>4, <2>2 DEF QueueOrder
    <3> QED
      BY <1>1, <1>4, <2>2, <3>1 DEF QueueOrder
  <2> QED
    BY <2>1, <2>2
<1>5. CASE Head(control) = "suspend" /\ ctx' = "suspended"
  <2>1. CASE ctx = "suspended"
    BY <1>1, <1>3, <1>5, <2>1 DEF QueueOrder
  <2>2. CASE ctx = "running"
    <3>1. \A i \in 1..Len(control') : control'[i] = "suspend"
      BY <1>1, <1>2, <1>5, <2>2 DEF QueueOrder
    <3> QED
      BY <1>1, <1>5, <2>2, <3>1 DEF QueueOrder, Resuming
  <2> QED
    BY <2>1, <2>2
<1> QED
  BY <1>4, <1>5

-----------------------------------------------------------------------------
\* ensureAudioStarted keeps the invariant, from whichever handler it is called
\* (main.ts:49-54).
LEMMA EnsureKeepsInvariant ==
    ASSUME GraphOK, QueueOrder, Flags, UNCHANGED <<life, ctx>>,
           NEW allowed \in BOOLEAN, NEW clicked \in BOOLEAN,
           EnsureAudioStarted(allowed, clicked)
    PROVE  GraphOK' /\ QueueOrder' /\ Flags'
<1>1. CASE audioStarted
  <2>1. UNCHANGED <<life, ctx, audioStarted, control, waiting, starting, started, playing>>
    BY <1>1 DEF EnsureAudioStarted
  <2> QED
    BY <2>1 DEF GraphOK, QueueOrder, Flags, Resuming
<1>2. CASE ~audioStarted /\ ctx = "suspended"
  <2>1. /\ audioStarted' = TRUE
        /\ Resume(allowed)
        /\ starting' = TRUE
        /\ waiting' = TRUE
        /\ UNCHANGED <<started, playing>>
    BY <1>2 DEF EnsureAudioStarted, Start, Resume
  <2>2. control' \in Seq(Message) /\ QueueOrder'
    BY <1>2, <2>1, ResumeKeepsOrder DEF GraphOK
  <2>3. GraphOK'
    BY <1>2, <2>1, <2>2 DEF GraphOK
  <2>4. Flags'
    BY <1>2, <2>1 DEF GraphOK, Flags, Resuming
  <2> QED
    BY <2>2, <2>3, <2>4
<1>3. CASE ~audioStarted /\ ctx # "suspended"
  <2>1. /\ audioStarted' = TRUE
        /\ started' = TRUE
        /\ playing' = (ctx = "running" \/ clicked)
        /\ UNCHANGED <<control, waiting, starting>>
    BY <1>3 DEF EnsureAudioStarted, Start
  <2>2. ctx' = ctx /\ ctx \in {"running", "closed"}
    BY <1>3 DEF GraphOK
  <2>3. QueueOrder'
    BY <2>1, <2>2 DEF QueueOrder
  <2>4. GraphOK'
    BY <1>3, <2>1, <2>2 DEF GraphOK
  <2>5. Flags'
    <3>1. CASE ctx = "running"
      BY <1>3, <2>1, <2>2, <3>1 DEF GraphOK, Flags
    <3>2. CASE ctx = "closed"
      BY <1>3, <2>1, <2>2, <3>2 DEF GraphOK, Flags
    <3> QED
      BY <2>2, <3>1, <3>2
  <2> QED
    BY <2>3, <2>4, <2>5
<1> QED
  BY <1>1, <1>2, <1>3 DEF GraphOK

\* So does a click on the button (main.ts:60-72).
LEMMA ClickKeepsInvariant ==
    ASSUME GraphOK, QueueOrder, Flags, UNCHANGED <<life, ctx>>,
           OnToggle(TRUE)
    PROVE  GraphOK' /\ QueueOrder' /\ Flags'
<1>1. CASE ~audioStarted /\ EnsureAudioStarted(TRUE, TRUE)
  BY <1>1, EnsureKeepsInvariant
<1>2. CASE audioStarted /\ Toggle(TRUE) /\ UNCHANGED audioStarted
  <2>1. UNCHANGED <<life, ctx, audioStarted, starting, started, playing>>
    BY <1>2 DEF Toggle
  <2>2. CASE ctx = "running" /\ control' = Append(control, "suspend") /\ UNCHANGED waiting
    <3>1. control' \in Seq(Message) /\ QueueOrder'
      BY <2>1, <2>2, SuspendKeepsOrder DEF GraphOK
    <3>2. GraphOK' /\ Flags'
      BY <2>1, <2>2, <3>1 DEF GraphOK, Flags
    <3> QED
      BY <3>1, <3>2
  <2>3. CASE ctx = "suspended" /\ Resume(TRUE)
    <3>1. control' \in Seq(Message) /\ QueueOrder'
      BY <2>1, <2>3, ResumeKeepsOrder DEF GraphOK
    <3>2. waiting' = TRUE
      BY <2>3 DEF Resume
    <3>3. GraphOK' /\ Flags'
      BY <1>2, <2>1, <2>3, <3>1, <3>2 DEF GraphOK, Flags
    <3> QED
      BY <3>1, <3>3
  <2>4. CASE ctx = "closed" /\ UNCHANGED <<control, waiting>>
    <3>1. QueueOrder'
      BY <2>1, <2>4 DEF QueueOrder
    <3>2. GraphOK'
      BY <2>1, <2>4 DEF GraphOK
    <3>3. Flags'
      BY <2>1, <2>4 DEF Flags
    <3> QED
      BY <3>1, <3>2, <3>3
  <2> QED
    BY <1>2, <2>2, <2>3, <2>4 DEF Toggle
<1> QED
  BY <1>1, <1>2 DEF OnToggle

\* So does a control message that runs, and the continuations of those who
\* awaited it (graph.ts:83-97).
LEMMA RunKeepsInvariant ==
    ASSUME GraphOK, QueueOrder, Flags, RunControl
    PROVE  GraphOK' /\ QueueOrder' /\ Flags'
<1>1. /\ control # <<>>
      /\ control' = Tail(control)
      /\ UNCHANGED <<life, audioStarted>>
  BY DEF RunControl, gates
<1>2. life = "active" /\ ctx \in {"suspended", "running"}
  BY <1>1 DEF GraphOK, Flags
<1>3. CASE Head(control) = "resume" /\ Resumed
  <2>1. /\ ctx' = "running"
        /\ started' = (started \/ starting)
        /\ playing' = (playing \/ waiting)
        /\ waiting' = FALSE
        /\ starting' = FALSE
    BY <1>3 DEF Resumed
  <2>2. Resuming
    <3>1. 1 \in 1..Len(control) /\ control[1] = "resume"
      BY <1>1, <1>3 DEF GraphOK
    <3> QED
      BY <3>1 DEF Resuming
  <2>3. control' \in Seq(Message) /\ QueueOrder'
    BY <1>1, <1>2, <1>3, <2>1, TailKeepsOrder DEF GraphOK
  <2>4. GraphOK'
    BY <1>1, <2>1, <2>3 DEF GraphOK
  <2>5. (started \/ starting) <=> (playing \/ waiting)
    BY <1>2, <2>2 DEF GraphOK, Flags
  <2>6. started' <=> playing'
    BY <2>1, <2>5
  <2>7. Flags'
    BY <1>1, <1>2, <2>1, <2>6 DEF GraphOK, Flags
  <2> QED
    BY <2>3, <2>4, <2>7
<1>4. CASE Head(control) = "suspend" /\ Suspended
  <2>1. /\ ctx' = "suspended"
        /\ playing' = FALSE
        /\ UNCHANGED <<waiting, starting, started>>
    BY <1>4 DEF Suspended
  <2>2. /\ control' \in Seq(Message)
        /\ QueueOrder'
        /\ ctx = "running" => ~Resuming'
    BY <1>1, <1>2, <1>4, <2>1, TailKeepsOrder DEF GraphOK
  <2>3. GraphOK'
    BY <1>1, <2>1, <2>2 DEF GraphOK
  <2>4. Resuming' => Resuming
    <3>1. /\ Len(control') = Len(control) - 1
          /\ Len(control) \in Nat
          /\ \A i \in 1..Len(control') : control'[i] = control[i + 1]
      BY <1>1 DEF GraphOK
    <3>2. \A i \in 1..Len(control') : i + 1 \in 1..Len(control)
      BY <3>1
    <3> QED
      BY <3>1, <3>2 DEF Resuming
  <2>5. ctx' = "suspended" /\ started' /\ Resuming' => waiting'
    BY <1>2, <2>1, <2>2, <2>4 DEF Flags
  <2>6. Flags'
    BY <1>1, <1>2, <2>1, <2>5 DEF Flags
  <2> QED
    BY <2>2, <2>3, <2>6
<1> QED
  BY <1>3, <1>4 DEF RunControl

-----------------------------------------------------------------------------
\* The rest of TypeOK: what the browser and the user keep.
InputOK ==
    /\ activated \in BOOLEAN /\ pointerGate \in BOOLEAN /\ keyGate \in BOOLEAN
    /\ press \in [by : Pointers \cup Keys \cup {"nothing"}, toggle : BOOLEAN]
    /\ clicks \in 0..MaxClicks
    /\ wanted \in {"any", "on", "off"}

LEMMA TypeParts == TypeOK <=> GraphOK /\ InputOK
  BY DEF TypeOK, GraphOK, InputOK, Message

LEMMA InitOK == Init => GraphOK /\ InputOK /\ QueueOrder /\ Flags
<1> SUFFICES ASSUME Init PROVE GraphOK /\ InputOK /\ QueueOrder /\ Flags
  OBVIOUS
<1>1. InputOK /\ life = "active"
  <2>1. press \in [by : Pointers \cup Keys \cup {"nothing"}, toggle : BOOLEAN]
    BY DEF Init, Up
  <2>2. activated \in BOOLEAN /\ pointerGate \in BOOLEAN /\ keyGate \in BOOLEAN
    BY DEF Init
  <2>3. clicks \in 0..MaxClicks
    BY GateAssumption DEF Init
  <2>4. wanted \in {"any", "on", "off"} /\ life = "active"
    BY DEF Init
  <2> QED
    BY <2>1, <2>2, <2>3, <2>4 DEF InputOK
<1>2. ASSUME control \in Seq(Message) PROVE GraphOK /\ Flags
  <2>1. GraphOK
    BY <1>2 DEF Init, GraphOK
  <2>2. Flags
    BY DEF Init, Flags
  <2> QED
    BY <2>1, <2>2
<1>3. CASE activated
  <2>1. control = <<"resume">>
    BY <1>3 DEF Init
  <2>2. control \in Seq(Message) /\ Len(control) = 1
    BY <2>1 DEF Message
  <2>3. QueueOrder
    BY <2>2 DEF QueueOrder
  <2> QED
    BY <1>1, <1>2, <2>2, <2>3
<1>4. CASE ~activated
  <2>1. control = <<>>
    BY <1>4 DEF Init
  <2>2. control \in Seq(Message) /\ Len(control) = 0
    BY <2>1
  <2>3. QueueOrder
    BY <2>2 DEF QueueOrder
  <2> QED
    BY <1>1, <1>2, <2>2, <2>3
<1> QED
  BY <1>3, <1>4

LEMMA NextOK ==
    GraphOK /\ InputOK /\ QueueOrder /\ Flags /\ [Next]_vars
        => GraphOK' /\ InputOK' /\ QueueOrder' /\ Flags'
<1> SUFFICES ASSUME GraphOK, InputOK, QueueOrder, Flags, [Next]_vars
             PROVE  GraphOK' /\ InputOK' /\ QueueOrder' /\ Flags'
  OBVIOUS
\* A step that leaves the graph and its flag alone.
<1>0. ASSUME UNCHANGED <<life, ctx, control, waiting, starting, started, playing, audioStarted>>
      PROVE  GraphOK' /\ QueueOrder' /\ Flags'
  BY <1>0 DEF GraphOK, QueueOrder, Flags, Resuming
<1>1. ASSUME NEW device \in Pointers, NEW toggle \in BOOLEAN, PointerDown(device, toggle)
      PROVE  GraphOK' /\ InputOK' /\ QueueOrder' /\ Flags'
  <2>1. InputOK'
    BY <1>1 DEF PointerDown, InputOK
  <2>2. activated' \in BOOLEAN /\ UNCHANGED <<life, ctx>>
    BY <2>1, <1>1 DEF PointerDown, InputOK
  <2>3. CASE EnsureAudioStarted(activated', FALSE)
    BY <2>1, <2>2, <2>3, EnsureKeepsInvariant
  <2>4. CASE UNCHANGED <<audioStarted, control, waiting, starting, started, playing>>
    BY <1>0, <2>1, <2>2, <2>4
  <2> QED
    BY <1>1, <2>3, <2>4 DEF PointerDown
<1>2. ASSUME NEW key \in Keys, NEW toggle \in BOOLEAN, KeyDown(key, toggle)
      PROVE  GraphOK' /\ InputOK' /\ QueueOrder' /\ Flags'
  <2>1. InputOK'
    BY <1>2 DEF KeyDown, InputOK
  <2>2. activated' \in BOOLEAN /\ UNCHANGED <<life, ctx>>
    BY <2>1, <1>2 DEF KeyDown, InputOK
  <2>3. CASE EnsureAudioStarted(activated', FALSE)
    BY <2>1, <2>2, <2>3, EnsureKeepsInvariant
  <2>4. CASE UNCHANGED <<audioStarted, control, waiting, starting, started, playing>>
    BY <1>0, <2>1, <2>2, <2>4
  <2> QED
    BY <1>2, <2>3, <2>4 DEF KeyDown
<1>3. ASSUME OnToggle(TRUE) PROVE clicks' \in 0..MaxClicks /\ wanted' \in {"any", "on", "off"}
  <2>1. clicks' \in 0..MaxClicks
    BY <1>3, GateAssumption DEF OnToggle, InputOK
  <2>2. wanted' = CASE ~Settled -> "any"
                    [] Settled /\ Audible -> "off"
                    [] Settled /\ ~Audible -> "on"
    BY <1>3 DEF OnToggle
  <2> QED
    BY <2>1, <2>2
<1>4. ASSUME Click PROVE GraphOK' /\ InputOK' /\ QueueOrder' /\ Flags'
  <2>1. InputOK'
    BY <1>3, <1>4 DEF Click, InputOK, Up
  <2> QED
    BY <1>4, <2>1, ClickKeepsInvariant DEF Click
<1>5. ASSUME Assist PROVE GraphOK' /\ InputOK' /\ QueueOrder' /\ Flags'
  <2>1. InputOK'
    BY <1>3, <1>5 DEF Assist, InputOK
  <2> QED
    BY <1>5, <2>1, ClickKeepsInvariant DEF Assist
<1>6. ASSUME LetGo \/ Cancel PROVE GraphOK' /\ InputOK' /\ QueueOrder' /\ Flags'
  <2>1. press' \in [by : Pointers \cup Keys \cup {"nothing"}, toggle : BOOLEAN]
    <3>1. press' = Up
      BY <1>6 DEF LetGo, Cancel
    <3> QED
      BY <3>1 DEF Up
  <2>2. activated' \in BOOLEAN /\ UNCHANGED <<pointerGate, keyGate, clicks, wanted>>
    BY <1>6 DEF LetGo, Cancel, InputOK, gates
  <2>3. InputOK'
    BY <2>1, <2>2 DEF InputOK
  <2> QED
    BY <1>0, <1>6, <2>3 DEF LetGo, Cancel, graph, gates
<1>7. ASSUME RunControl PROVE GraphOK' /\ InputOK' /\ QueueOrder' /\ Flags'
  <2>1. InputOK'
    BY <1>7 DEF RunControl, InputOK, gates
  <2> QED
    BY <1>7, <2>1, RunKeepsInvariant
<1>8. ASSUME Leave PROVE GraphOK' /\ InputOK' /\ QueueOrder' /\ Flags'
  <2>1. InputOK'
    BY <1>8 DEF Leave, InputOK, Up, gates
  <2>2. control' \in Seq(Message) /\ Len(control') = 0
    BY <1>8 DEF Leave
  <2>3. QueueOrder'
    BY <2>2 DEF QueueOrder
  <2>4. GraphOK' /\ Flags'
    BY <1>8, <2>2 DEF Leave, GraphOK, Flags, gates
  <2> QED
    BY <2>1, <2>3, <2>4
<1>9. ASSUME Restore PROVE GraphOK' /\ InputOK' /\ QueueOrder' /\ Flags'
  <2>1. life = "left" /\ life' = "restored" /\ UNCHANGED <<graph, activated, gates, press, clicks, wanted>>
    BY <1>9 DEF Restore
  <2>2. InputOK'
    BY <2>1 DEF InputOK, gates
  <2>3. UNCHANGED <<ctx, control, waiting, starting, started, playing, audioStarted>>
    BY <2>1 DEF graph, gates
  <2>4. QueueOrder' /\ GraphOK'
    BY <2>1, <2>3 DEF QueueOrder, GraphOK
  <2>5. Flags'
    BY <2>1, <2>3 DEF Flags, Resuming
  <2> QED
    BY <2>2, <2>4, <2>5
<1>10. CASE UNCHANGED vars
  <2>1. InputOK'
    BY <1>10 DEF vars, gates, InputOK
  <2> QED
    BY <1>0, <1>10, <2>1 DEF vars, graph, gates
<1> QED
  BY <1>1, <1>2, <1>4, <1>5, <1>6, <1>7, <1>8, <1>9, <1>10 DEF Next

\* For any devices and any number of gestures and clicks, every variable keeps
\* to its range, and AudioGraph.start waits for one resume at most and starts
\* its sources once (main.ts:48-52, graph.ts:82-88).
THEOREM TypeCorrect == Spec => []TypeOK
<1>1. Init => GraphOK /\ InputOK /\ QueueOrder /\ Flags
  BY InitOK
<1>2. GraphOK /\ InputOK /\ QueueOrder /\ Flags /\ [Next]_vars
          => GraphOK' /\ InputOK' /\ QueueOrder' /\ Flags'
  BY NextOK
<1>3. GraphOK /\ InputOK => TypeOK
  BY TypeParts
<1> QED
  BY <1>1, <1>2, <1>3, PTL DEF Spec

\* The button says what is heard, in every state of a page that is not left
\* (main.ts:53, 66, 70).
THEOREM LabelTellsTheTruth == Spec => []LabelMatchesSound
<1>1. Init => GraphOK /\ InputOK /\ QueueOrder /\ Flags
  BY InitOK
<1>2. GraphOK /\ InputOK /\ QueueOrder /\ Flags /\ [Next]_vars
          => GraphOK' /\ InputOK' /\ QueueOrder' /\ Flags'
  BY NextOK
<1>3. GraphOK /\ Flags => LabelMatchesSound
  BY DEF GraphOK, Flags, LabelMatchesSound, Audible
<1> QED
  BY <1>1, <1>2, <1>3, PTL DEF Spec

-----------------------------------------------------------------------------
\* What becomes of a click made on a settled page, until the next click.
Promised ==
    life = "active" =>
        /\ wanted = "on" => /\ audioStarted
                            /\ \/ control = <<>> /\ Audible
                               \/ control = <<"resume">> /\ (started \/ starting)
        /\ wanted = "off" => /\ audioStarted
                             /\ \/ control = <<>> /\ ~Audible
                                \/ control = <<"suspend">>

\* A click promises what it wants (main.ts:60-72, graph.ts:91-98).
LEMMA ClickPromises ==
    ASSUME GraphOK, Flags, life = "active", UNCHANGED <<life, ctx>>, OnToggle(TRUE)
    PROVE  Promised'
<1>1. /\ wanted' = CASE ~Settled -> "any"
                      [] Settled /\ Audible -> "off"
                      [] Settled /\ ~Audible -> "on"
      /\ \/ ~audioStarted /\ EnsureAudioStarted(TRUE, TRUE)
         \/ audioStarted /\ Toggle(TRUE) /\ UNCHANGED audioStarted
  BY DEF OnToggle
<1>2. CASE ~Settled
  <2>1. wanted' = "any"
    BY <1>1, <1>2
  <2>2. wanted' # "on" /\ wanted' # "off"
    BY <2>1
  <2> QED
    BY <2>2 DEF Promised
<1>3. CASE Settled /\ Audible
  <2>1. wanted' = "off" /\ control = <<>> /\ ctx = "running" /\ audioStarted
    BY <1>1, <1>3 DEF Settled, Audible, GraphOK
  <2>2. control' = Append(<<>>, "suspend") /\ audioStarted'
    BY <1>1, <2>1 DEF Toggle
  <2>3. control' = <<"suspend">>
    BY <2>2
  <2> QED
    BY <2>1, <2>2, <2>3 DEF Promised
<1>4. CASE Settled /\ ~Audible
  <2>1. wanted' = "on" /\ control = <<>> /\ ctx \in {"suspended", "running"}
    BY <1>1, <1>4 DEF Settled, GraphOK, Flags
  <2>2. Append(<<>>, "resume") = <<"resume">>
    OBVIOUS
  <2>3. CASE ~audioStarted /\ EnsureAudioStarted(TRUE, TRUE)
    <3>1. audioStarted' = TRUE /\ Start(TRUE, TRUE)
      BY <2>3 DEF EnsureAudioStarted
    <3>2. CASE ctx = "suspended"
      <4>1. control' = <<"resume">> /\ starting' = TRUE
        BY <2>1, <2>2, <3>1, <3>2 DEF Start, Resume
      <4> QED
        BY <2>1, <3>1, <4>1 DEF Promised
    <3>3. CASE ctx = "running"
      <4>1. started' = TRUE /\ control' = <<>> /\ ctx' = "running"
        BY <2>1, <3>1, <3>3 DEF Start
      <4> QED
        BY <2>1, <3>1, <4>1 DEF Promised, Audible
    <3> QED
      BY <2>1, <3>2, <3>3
  <2>4. CASE audioStarted /\ Toggle(TRUE) /\ UNCHANGED audioStarted
    <3>1. started \/ starting
      BY <2>4 DEF Flags
    <3>2. ctx = "suspended"
      BY <1>4, <2>1, <3>1 DEF Flags, GraphOK, Audible
    <3>3. control' = <<"resume">> /\ UNCHANGED <<starting, started>>
      BY <2>1, <2>2, <2>4, <3>2 DEF Toggle, Resume
    <3> QED
      BY <2>1, <2>4, <3>1, <3>3 DEF Promised
  <2> QED
    BY <1>1, <2>3, <2>4
<1> QED
  BY <1>2, <1>3, <1>4

\* A gesture breaks no promise: a click has used the gate up (main.ts:49).
LEMMA GesturePromises ==
    ASSUME Promised, UNCHANGED <<life, ctx, wanted>>, NEW allowed \in BOOLEAN,
           \/ EnsureAudioStarted(allowed, FALSE)
           \/ UNCHANGED <<audioStarted, control, waiting, starting, started, playing>>,
           wanted \in {"any", "on", "off"}
    PROVE  Promised'
<1>1. CASE UNCHANGED <<audioStarted, control, starting, started>>
  BY <1>1 DEF Promised, Audible
<1>2. CASE ~audioStarted
  BY <1>2 DEF Promised
<1> QED
  BY <1>1, <1>2 DEF EnsureAudioStarted

\* A control message keeps it (graph.ts:93, 96).
LEMMA RunPromises == GraphOK /\ Promised /\ RunControl => Promised'
<1> SUFFICES ASSUME GraphOK, Promised, RunControl PROVE Promised'
  OBVIOUS
<1>1. /\ control # <<>> /\ control' = Tail(control)
      /\ UNCHANGED <<life, audioStarted, wanted>>
      /\ \/ Head(control) = "resume" /\ Resumed
         \/ Head(control) = "suspend" /\ Suspended
  BY DEF RunControl, gates
<1>2. CASE life = "active" /\ wanted = "on"
  <2>1. control = <<"resume">> /\ (started \/ starting) /\ audioStarted
    BY <1>1, <1>2 DEF Promised
  <2>2. Head(control) = "resume" /\ control' = <<>>
    BY <1>1, <2>1
  <2>3. ctx' = "running" /\ started'
    BY <1>1, <2>1, <2>2 DEF Resumed
  <2> QED
    BY <1>1, <1>2, <2>1, <2>2, <2>3 DEF Promised, Audible
<1>3. CASE life = "active" /\ wanted = "off"
  <2>1. control = <<"suspend">> /\ audioStarted
    BY <1>1, <1>3 DEF Promised
  <2>2. Head(control) = "suspend" /\ control' = <<>>
    BY <1>1, <2>1
  <2>3. ctx' = "suspended"
    BY <1>1, <2>2 DEF Suspended
  <2> QED
    BY <1>1, <1>3, <2>1, <2>2, <2>3 DEF Promised, Audible
<1>4. CASE life # "active" \/ wanted \notin {"on", "off"}
  BY <1>1, <1>4 DEF Promised
<1> QED
  BY <1>2, <1>3, <1>4

LEMMA NextPromises ==
    GraphOK /\ InputOK /\ Flags /\ Promised /\ [Next]_vars => Promised'
<1> SUFFICES ASSUME GraphOK, InputOK, Flags, Promised, [Next]_vars PROVE Promised'
  OBVIOUS
<1>0. ASSUME UNCHANGED <<life, ctx, control, starting, started, audioStarted, wanted>>
      PROVE  Promised'
  BY <1>0 DEF Promised, Audible
<1>1. ASSUME NEW device \in Pointers, NEW toggle \in BOOLEAN, PointerDown(device, toggle)
      PROVE  Promised'
  <2>1. activated' \in BOOLEAN /\ wanted \in {"any", "on", "off"}
    BY <1>1 DEF PointerDown, InputOK
  <2> QED
    BY <1>1, <2>1, GesturePromises DEF PointerDown
<1>2. ASSUME NEW key \in Keys, NEW toggle \in BOOLEAN, KeyDown(key, toggle)
      PROVE  Promised'
  <2>1. activated' \in BOOLEAN /\ wanted \in {"any", "on", "off"}
    BY <1>2 DEF KeyDown, InputOK
  <2> QED
    BY <1>2, <2>1, GesturePromises DEF KeyDown
<1>3. ASSUME Click \/ Assist PROVE Promised'
  <2>1. UNCHANGED <<life, ctx>> /\ OnToggle(TRUE)
    BY <1>3 DEF Click, Assist
  <2>2. CASE life = "active"
    BY <2>1, <2>2, ClickPromises
  <2>3. CASE life # "active"
    BY <2>1, <2>3 DEF Promised
  <2> QED
    BY <2>2, <2>3
<1>4. CASE LetGo \/ Cancel
  BY <1>0, <1>4 DEF LetGo, Cancel, graph, gates
<1>5. CASE RunControl
  BY <1>5, RunPromises
<1>6. CASE Leave \/ Restore
  BY <1>6 DEF Leave, Restore, Promised
<1>7. CASE UNCHANGED vars
  BY <1>0, <1>7 DEF vars, graph, gates
<1> QED
  BY <1>1, <1>2, <1>3, <1>4, <1>5, <1>6, <1>7 DEF Next

\* A click made on a settled page flips the sound, for any history of gestures,
\* clicks and messages before it (main.ts:60-72, graph.ts:91-98).
THEOREM ClickFlipsSound == Spec => []ClickFlips
<1>1. Init => GraphOK /\ InputOK /\ QueueOrder /\ Flags /\ Promised
  <2>1. Init => Promised
    BY DEF Init, Promised
  <2> QED
    BY <2>1, InitOK
<1>2. GraphOK /\ InputOK /\ QueueOrder /\ Flags /\ Promised /\ [Next]_vars
          => GraphOK' /\ InputOK' /\ QueueOrder' /\ Flags' /\ Promised'
  BY NextOK, NextPromises
<1>3. InputOK /\ Promised => ClickFlips
  <2> SUFFICES ASSUME InputOK, Promised, life = "active", Settled, wanted # "any"
               PROVE  Audible <=> wanted = "on"
    BY DEF ClickFlips
  <2>1. control = <<>> /\ wanted \in {"on", "off"}
    BY DEF Settled, InputOK
  <2>2. <<>> # <<"resume">> /\ <<>> # <<"suspend">>
    OBVIOUS
  <2> QED
    BY <2>1, <2>2 DEF Promised
<1> QED
  BY <1>1, <1>2, <1>3, PTL DEF Spec
=============================================================================
