-------------------------- MODULE EventEmitterProofs --------------------------
(***************************************************************************)
(* Theorems about EventEmitter, for any debounce time, heartbeat and batch *)
(* size, and any number of slider changes and heartbeats.                  *)
(*                                                                         *)
(* Two invariants are inductive, one of what was sent and one of the       *)
(* timers.  The first rests on the queue being empty between handlers:     *)
(* all that enqueue also flush, so every batch is of one event.            *)
(***************************************************************************)
EXTENDS EventEmitter, TLAPS

-----------------------------------------------------------------------------
\* What was sent.

OneByOne ==
    /\ queue = <<>>
    /\ \A batch \in net : \E e \in Event : batch = <<e>>

InNet(id)  == \E batch \in net : batch[1].id = id
InLog(id)  == \E e \in log : e.id = id
InLost(id) == \E e \in lost : e.id = id

\* Every event is in one place, and in one batch if it is on its way.
OnePlace ==
    /\ \A id \in 1..nextId - 1 :
          /\ InNet(id) \/ InLog(id) \/ InLost(id)
          /\ ~(InNet(id) /\ InLog(id))
          /\ ~(InNet(id) /\ InLost(id))
          /\ ~(InLog(id) /\ InLost(id))
    /\ \A a, b \in net : a[1].id = b[1].id => a = b

SentOK ==
    /\ nextId \in Nat \ {0}
    /\ log \subseteq Event
    /\ lost \subseteq Event
    /\ OneByOne
    /\ OnePlace

\* The timers, and what the page shows.
ClockOK ==
    /\ life \in {"loading", "active", "frozen", "closed"}
    /\ hidden \in BOOLEAN
    /\ current \in Humidity
    /\ pending = current
    /\ changes \in 0..MaxChanges
    /\ beats \in 0..MaxBeats
    /\ sliderTimer = changes
    /\ heartbeat \in Off..HeartbeatTicks
    /\ timers \in [Timer -> Off..DebounceTicks]
    /\ life # "active" => heartbeat = Off /\ \A t \in Timer : timers[t] = Off
    /\ quiet \in 0..DebounceTicks
    /\ unreported \in BOOLEAN

\* Only the last slider change has a timer, and has rested for the ticks that
\* are gone from it.
OneTimer ==
    \A t \in Timer : timers[t] # Off =>
        /\ t = sliderTimer
        /\ unreported
        /\ quiet + timers[t] >= DebounceTicks

Inv == SentOK /\ ClockOK /\ OneTimer

-----------------------------------------------------------------------------
LEMMA EventsOfOne == \A e : Events(<<e>>) = {e}
BY DEF Events

\* A flush outside of enqueue sends nothing.
LEMMA FlushNothing ==
    ASSUME OneByOne, Flush(queue)
    PROVE  UNCHANGED <<queue, net>>
BY DEF OneByOne, Flush

LEMMA EmitOne ==
    ASSUME OneByOne, NEW type, Emit(type)
    PROVE  /\ queue' = <<>>
           /\ nextId' = nextId + 1
           /\ net' = net \cup {<<[id |-> nextId, type |-> type, humidity |-> pending]>>}
<1> DEFINE e == [id |-> nextId, type |-> type, humidity |-> pending]
<1>1. Append(queue, e) = <<e>>
  BY DEF OneByOne
<1>2. Flush(<<e>>) /\ nextId' = nextId + 1
  BY <1>1 DEF Emit
<1>3. <<e>> # <<>>
  OBVIOUS
<1> QED
  BY <1>2, <1>3 DEF Flush

LEMMA EmitKeeps ==
    ASSUME SentOK, NEW type \in EventType, Emit(type), pending \in Humidity,
           UNCHANGED <<log, lost>>
    PROVE  SentOK'
<1> DEFINE e == [id |-> nextId, type |-> type, humidity |-> pending]
<1>1. /\ queue' = <<>>
      /\ nextId' = nextId + 1
      /\ net' = net \cup {<<e>>}
  BY EmitOne DEF SentOK
<1>2. nextId \in Nat \ {0} /\ nextId' \in Nat \ {0}
  BY <1>1 DEF SentOK
<1>3. Event \subseteq Event' /\ e \in Event'
  BY <1>1, <1>2 DEF Event
<1>4. OneByOne'
  BY <1>1, <1>3 DEF SentOK, OneByOne
<1>5. \A batch \in net : batch[1] \in Event /\ batch[1].id # nextId
  BY <1>2 DEF SentOK, OneByOne, Event
<1>6. \A d \in log \cup lost : d.id # nextId
  BY <1>2 DEF SentOK, Event
<1>7. <<e>>[1].id = nextId
  OBVIOUS
<1> HIDE DEF e
<1>8. \A a, b \in net' : a[1].id = b[1].id => a = b
  BY <1>1, <1>5, <1>7 DEF SentOK, OnePlace
<1>9. ASSUME NEW id \in 1..nextId' - 1
      PROVE  /\ InNet(id)' \/ InLog(id)' \/ InLost(id)'
             /\ ~(InNet(id)' /\ InLog(id)')
             /\ ~(InNet(id)' /\ InLost(id)')
             /\ ~(InLog(id)' /\ InLost(id)')
  <2>1. InLog(id)' = InLog(id) /\ InLost(id)' = InLost(id)
    BY DEF InLog, InLost
  <2>2. CASE id = nextId
    BY <1>1, <1>6, <1>7, <2>1, <2>2 DEF InNet, InLog, InLost
  <2>3. CASE id # nextId
    <3>1. id \in 1..nextId - 1
      BY <1>1, <1>2, <2>3
    <3>2. InNet(id)' = InNet(id)
      BY <1>1, <1>7, <2>3 DEF InNet
    <3> QED
      BY <2>1, <3>1, <3>2 DEF SentOK, OnePlace
  <2> QED
    BY <2>2, <2>3
<1>10. OnePlace'
  BY <1>8, <1>9 DEF OnePlace
<1> QED
  BY <1>2, <1>3, <1>4, <1>10 DEF SentOK

\* Delivered or lost, a batch leaves the network for one of the two sets.
LEMMA MoveKeeps ==
    ASSUME SentOK, NEW batch \in net, net' = net \ {batch}, UNCHANGED <<queue, nextId>>,
           \/ log' = log \cup Events(batch) /\ UNCHANGED lost
           \/ lost' = lost \cup Events(batch) /\ UNCHANGED log
    PROVE  SentOK'
<1>1. PICK e \in Event : batch = <<e>>
  BY DEF SentOK, OneByOne
<1>2. Events(batch) = {e} /\ batch[1] = e
  BY <1>1, EventsOfOne
<1>3. Event' = Event
  BY DEF Event
<1>4. log' \subseteq Event' /\ lost' \subseteq Event'
  BY <1>2, <1>3 DEF SentOK
<1>5. OneByOne'
  BY <1>3 DEF SentOK, OneByOne
<1>6. ASSUME NEW id \in 1..nextId' - 1
      PROVE  /\ InNet(id)' \/ InLog(id)' \/ InLost(id)'
             /\ ~(InNet(id)' /\ InLog(id)')
             /\ ~(InNet(id)' /\ InLost(id)')
             /\ ~(InLog(id)' /\ InLost(id)')
  <2>1. id \in 1..nextId - 1
    OBVIOUS
  <2>2. CASE e.id = id
    <3>1. InNet(id) /\ ~InLog(id) /\ ~InLost(id)
      BY <1>2, <2>1, <2>2 DEF SentOK, OnePlace, InNet
    <3>2. ~InNet(id)'
      BY <1>2, <2>2 DEF SentOK, OnePlace, InNet
    <3>3. CASE log' = log \cup {e} /\ UNCHANGED lost
      BY <2>2, <3>1, <3>2, <3>3 DEF InLog, InLost
    <3>4. CASE lost' = lost \cup {e} /\ UNCHANGED log
      BY <2>2, <3>1, <3>2, <3>4 DEF InLog, InLost
    <3> QED
      BY <1>2, <3>3, <3>4
  <2>3. CASE e.id # id
    <3>1. InNet(id)' = InNet(id)
      BY <1>2, <2>3 DEF InNet
    <3>2. InLog(id)' = InLog(id) /\ InLost(id)' = InLost(id)
      BY <1>2, <2>3 DEF InLog, InLost
    <3> QED
      BY <2>1, <3>1, <3>2 DEF SentOK, OnePlace
  <2> QED
    BY <2>2, <2>3
<1>7. OnePlace'
  BY <1>6 DEF SentOK, OnePlace
<1> QED
  BY <1>4, <1>5, <1>7 DEF SentOK

LEMMA StayKeeps ==
    ASSUME SentOK, UNCHANGED <<queue, net, log, lost, nextId>>
    PROVE  SentOK'
BY DEF SentOK, OneByOne, OnePlace, InNet, InLog, InLost, Event

-----------------------------------------------------------------------------
\* The invariant, action by action.

LEMMA InitInv == Init => Inv
<1> SUFFICES ASSUME Init PROVE Inv
  OBVIOUS
<1>1. SentOK
  BY DEF Init, SentOK, OneByOne, OnePlace
<1>2. ClockOK
  <2>1. /\ life = "loading" /\ hidden \in BOOLEAN /\ unreported \in BOOLEAN
        /\ current \in Humidity /\ pending = current
    BY EmitterAssumption, Zenon DEF Init
  <2>2. /\ changes \in 0..MaxChanges /\ beats \in 0..MaxBeats
        /\ quiet \in 0..DebounceTicks
        /\ sliderTimer = changes
    BY EmitterAssumption DEF Init
  <2>3. heartbeat = Off /\ timers = [t \in Timer |-> Off]
    BY DEF Init
  <2>4. Off \in Off..HeartbeatTicks /\ Off \in Off..DebounceTicks
    BY EmitterAssumption DEF Off
  <2>5. timers \in [Timer -> Off..DebounceTicks] /\ \A t \in Timer : timers[t] = Off
    BY <2>3, <2>4
  <2> QED
    BY <2>1, <2>2, <2>3, <2>4, <2>5 DEF ClockOK
<1>3. OneTimer
  BY DEF Init, OneTimer
<1> QED
  BY <1>1, <1>2, <1>3 DEF Inv

LEMMA StartInv == Inv /\ Start => Inv'
<1> SUFFICES ASSUME Inv, Start PROVE Inv'
  OBVIOUS
<1>1. SentOK'
  BY EmitKeeps DEF Inv, ClockOK, Start, EventType
<1>2. ClockOK'
  BY EmitterAssumption DEF Inv, ClockOK, Start, history, Off
<1>3. OneTimer'
  BY DEF Inv, OneTimer, Start, history
<1> QED
  BY <1>1, <1>2, <1>3 DEF Inv

LEMMA InputInv == ASSUME Inv, NEW h \in Humidity, Input(h) PROVE Inv'
<1> USE DEF Inv
<1>1. SentOK'
  BY StayKeeps DEF Input, network
<1>2. changes' = changes + 1 /\ sliderTimer' = changes + 1 /\ changes' \in 0..MaxChanges
  BY EmitterAssumption DEF Input, SliderChange, ClockOK
<1>3. changes + 1 \in Timer
  BY <1>2, EmitterAssumption DEF ClockOK, Timer
<1>4. /\ timers' \in [Timer -> Off..DebounceTicks]
      /\ timers'[changes + 1] = DebounceTicks
      /\ \A t \in Timer : t # changes + 1 => timers'[t] = Off
  <2>1. timers' = [t \in Timer |-> CASE t = changes + 1 -> DebounceTicks
                                     [] t = sliderTimer -> Off
                                     [] OTHER           -> timers[t]]
    BY DEF Input, SliderChange
  <2>2. \A t \in Timer : t # sliderTimer => timers[t] = Off
    BY DEF OneTimer
  <2>3. DebounceTicks \in Off..DebounceTicks /\ Off \in Off..DebounceTicks
    BY EmitterAssumption DEF Off
  <2>4. sliderTimer # changes + 1
    BY EmitterAssumption DEF ClockOK
  <2>5. \A t \in Timer : timers'[t] = IF t = changes + 1 THEN DebounceTicks ELSE Off
    BY <2>1, <2>2, <2>4
  <2> QED
    BY <1>3, <2>1, <2>3, <2>5
<1>5. ClockOK'
  BY <1>2, <1>4, EmitterAssumption DEF ClockOK, Input, SliderChange, page
<1>6. OneTimer'
  <2>1. unreported' = TRUE /\ quiet' = 0
    BY DEF Input
  <2> QED
    BY <1>2, <1>4, <2>1, EmitterAssumption DEF OneTimer
<1> QED
  BY <1>1, <1>5, <1>6

LEMMA SliderFiresInv == ASSUME Inv, NEW t \in Timer, SliderFires(t) PROVE Inv'
<1> USE DEF Inv
<1>1. SentOK'
  BY EmitKeeps DEF ClockOK, SliderFires, EventType
<1>2. Off \in Off..DebounceTicks
  BY EmitterAssumption DEF Off
<1>3. timers' \in [Timer -> Off..DebounceTicks]
  BY <1>2 DEF ClockOK, SliderFires
<1>4. ClockOK'
  BY <1>3 DEF ClockOK, SliderFires, page
<1>5. \A u \in Timer : timers'[u] = Off
  BY DEF ClockOK, OneTimer, SliderFires, Off
<1>6. OneTimer'
  BY <1>5 DEF OneTimer
<1> QED
  BY <1>1, <1>4, <1>6

LEMMA HeartbeatFiresInv == Inv /\ HeartbeatFires => Inv'
<1> SUFFICES ASSUME Inv, HeartbeatFires PROVE Inv'
  OBVIOUS
<1> USE DEF Inv
<1>1. SentOK'
  <2>1. CASE Skip
    BY <2>1, StayKeeps DEF HeartbeatFires, Skip
  <2>2. CASE Beat
    BY <2>2, EmitKeeps DEF HeartbeatFires, Beat, ClockOK, EventType
  <2> QED
    BY <2>1, <2>2 DEF HeartbeatFires
<1>2. heartbeat' = HeartbeatTicks /\ beats' \in 0..MaxBeats
  BY EmitterAssumption DEF HeartbeatFires, Skip, Beat, ClockOK
<1>3. ClockOK'
  BY <1>2, EmitterAssumption DEF HeartbeatFires, ClockOK, page, history, Off
<1>4. OneTimer'
  BY DEF HeartbeatFires, OneTimer, history
<1> QED
  BY <1>1, <1>3, <1>4

LEMMA HideInv == Inv /\ Hide => Inv'
<1> SUFFICES ASSUME Inv, Hide PROVE Inv'
  OBVIOUS
<1> USE DEF Inv
<1>1. SentOK'
  BY FlushNothing, StayKeeps DEF Hide, SentOK
<1>2. ClockOK'
  BY DEF Hide, ClockOK, history
<1>3. OneTimer'
  BY DEF Hide, OneTimer, history
<1> QED
  BY <1>1, <1>2, <1>3

LEMMA LeaveInv == ASSUME Inv, NEW fate \in {"frozen", "closed"}, Leave(fate) PROVE Inv'
<1> USE DEF Inv
<1>1. SentOK'
  BY FlushNothing, StayKeeps DEF Leave, SentOK
<1>2. \A t \in Timer : timers'[t] = Off
  BY DEF Leave, Dispose, OneTimer
<1>3. Off \in Off..DebounceTicks /\ Off \in Off..HeartbeatTicks
  BY EmitterAssumption DEF Off
<1>4. timers' \in [Timer -> Off..DebounceTicks]
  BY <1>3 DEF ClockOK, Leave, Dispose
<1>5. ClockOK'
  BY <1>2, <1>3, <1>4 DEF ClockOK, Leave, Dispose, history
<1>6. OneTimer'
  BY <1>2 DEF OneTimer
<1> QED
  BY <1>1, <1>5, <1>6

\* Of showing, abandoning and restoring a page the emitter notices nothing.
LEMMA LifeInv == Inv /\ (Show \/ Abandon \/ Restore) => Inv'
<1> SUFFICES ASSUME Inv, Show \/ Abandon \/ Restore PROVE Inv'
  OBVIOUS
<1> USE DEF Inv, fields, network, history
<1>1. SentOK'
  BY StayKeeps DEF Show, Abandon, Restore
<1>2. ClockOK'
  BY DEF ClockOK, Show, Abandon, Restore
<1>3. OneTimer'
  BY DEF OneTimer, Show, Abandon, Restore
<1> QED
  BY <1>1, <1>2, <1>3

LEMMA NetworkInv == ASSUME Inv, NEW batch \in net, Deliver(batch) \/ Lose(batch) PROVE Inv'
<1> USE DEF Inv, fields, page, history
<1>1. SentOK'
  BY MoveKeeps DEF Deliver, Lose
<1>2. ClockOK'
  BY DEF ClockOK, Deliver, Lose
<1>3. OneTimer'
  BY DEF OneTimer, Deliver, Lose
<1> QED
  BY <1>1, <1>2, <1>3

LEMMA TickInv == Inv /\ Tick => Inv'
<1> SUFFICES ASSUME Inv, Tick PROVE Inv'
  OBVIOUS
<1> USE DEF Inv, page
<1>1. SentOK'
  BY StayKeeps DEF Tick, network
<1>2. timers' \in [Timer -> Off..DebounceTicks]
  BY EmitterAssumption DEF ClockOK, Tick, Down, Off
<1>3. heartbeat' \in Off..HeartbeatTicks /\ quiet' \in 0..DebounceTicks
  BY EmitterAssumption DEF ClockOK, Tick, Down, Off
<1>4. ClockOK'
  BY <1>2, <1>3 DEF ClockOK, Tick
<1>5. OneTimer'
  BY EmitterAssumption DEF ClockOK, OneTimer, Tick, Down, Off
<1> QED
  BY <1>1, <1>4, <1>5

\* All that was sent is accounted for, and the timers know what the slider did.
THEOREM Invariant == Spec => []Inv
<1>1. Inv /\ [Next]_vars => Inv'
  <2> SUFFICES ASSUME Inv, [Next]_vars PROVE Inv'
    OBVIOUS
  <2>1. CASE Next
    BY <2>1, StartInv, InputInv, SliderFiresInv, HeartbeatFiresInv, HideInv, LeaveInv,
       LifeInv, NetworkInv, TickInv DEF Next
  <2>2. CASE UNCHANGED vars
    <3> USE <2>2 DEF vars, page, fields, network, history
    <3>1. SentOK'
      BY StayKeeps DEF Inv
    <3>2. ClockOK' /\ OneTimer'
      BY DEF Inv, ClockOK, OneTimer
    <3> QED
      BY <3>1, <3>2 DEF Inv
  <2> QED
    BY <2>1, <2>2
<1> QED
  BY <1>1, InitInv, PTL DEF Spec

-----------------------------------------------------------------------------
\* Every variable keeps to its range, and a page that is not running has no timer.
THEOREM TypeCorrect == Spec => []TypeOK
<1>1. Inv => TypeOK
  <2> SUFFICES ASSUME Inv PROVE TypeOK
    OBVIOUS
  <2>1. Events(queue) \subseteq Event
    BY DEF Inv, SentOK, OneByOne, Events
  <2>2. \A batch \in net : Events(batch) \subseteq Event
    BY EventsOfOne DEF Inv, SentOK, OneByOne
  <2>3. /\ log \subseteq Event /\ lost \subseteq Event
        /\ nextId \in Nat \ {0}
    BY DEF Inv, SentOK
  <2>4. pending \in Humidity /\ sliderTimer \in 0..MaxChanges
    BY DEF Inv, ClockOK
  <2> QED
    BY <2>1, <2>2, <2>3, <2>4 DEF Inv, ClockOK, TypeOK
<1> QED
  BY <1>1, Invariant, PTL

\* However flushes, beacons, deliveries and losses interleave, an event is in one place.
THEOREM EventsAreSentOnce == Spec => []EveryEventOnce
<1>1. Inv => EveryEventOnce
  <2> SUFFICES ASSUME Inv PROVE EveryEventOnce
    OBVIOUS
  <2> DEFINE Q == <<"queue", Events(queue)>>
             L == <<"log", log>>
             X == <<"lost", lost>>
             N(b) == <<"net", Events(b)>>
             Places == {Q, L, X} \cup {N(b) : b \in net}
             Owners(id) == {p \in Places : \E e \in p[2] : e.id = id}
  <2> SUFFICES ASSUME NEW id \in 1..nextId - 1
               PROVE  \E p \in Places : Owners(id) = {p}
    BY DEF EveryEventOnce
  <2>1. ~ \E e \in Q[2] : e.id = id
    BY DEF Inv, SentOK, OneByOne, Events
  <2>2. (\E e \in L[2] : e.id = id) <=> InLog(id)
    BY DEF InLog
  <2>3. (\E e \in X[2] : e.id = id) <=> InLost(id)
    BY DEF InLost
  <2>4. \A b \in net : (\E e \in N(b)[2] : e.id = id) <=> b[1].id = id
    <3>1. TAKE b \in net
    <3>2. PICK e \in Event : b = <<e>>
      BY DEF Inv, SentOK, OneByOne
    <3>3. N(b)[2] = {e} /\ b[1] = e
      BY <3>2, EventsOfOne
    <3> QED
      BY <3>3
  <2>5. /\ InNet(id) \/ InLog(id) \/ InLost(id)
        /\ ~(InNet(id) /\ InLog(id))
        /\ ~(InNet(id) /\ InLost(id))
        /\ ~(InLog(id) /\ InLost(id))
        /\ \A a, b \in net : a[1].id = b[1].id => a = b
    BY DEF Inv, SentOK, OnePlace
  <2> HIDE DEF Q, L, X, N
  <2>6. CASE InLog(id)
    <3>1. Owners(id) = {L}
      BY <2>1, <2>2, <2>3, <2>4, <2>5, <2>6 DEF InNet
    <3> QED
      BY <3>1
  <2>7. CASE InLost(id)
    <3>1. Owners(id) = {X}
      BY <2>1, <2>2, <2>3, <2>4, <2>5, <2>7 DEF InNet
    <3> QED
      BY <3>1
  <2>8. CASE InNet(id)
    <3>1. PICK b \in net : b[1].id = id
      BY <2>8 DEF InNet
    <3>2. Owners(id) = {N(b)}
      BY <2>1, <2>2, <2>3, <2>4, <2>5, <2>8, <3>1
    <3> QED
      BY <3>2
  <2> QED
    BY <2>5, <2>6, <2>7, <2>8
<1> QED
  BY <1>1, Invariant, PTL

\* No batch of the emitter is ever answered with 400.
THEOREM BatchesAreAccepted == Spec => []BatchesAreAcceptable
<1>1. Inv => BatchesAreAcceptable
  <2> SUFFICES ASSUME Inv, NEW batch \in net PROVE Acceptable(batch)
    BY DEF BatchesAreAcceptable
  <2>1. PICK e \in Event : batch = <<e>>
    BY DEF Inv, SentOK, OneByOne
  <2>2. Len(batch) = 1 /\ batch # <<>> /\ Events(batch) = {e}
    BY <2>1, EventsOfOne
  <2>3. e.type \in EventType
    BY DEF Event
  <2> QED
    BY <2>2, <2>3, EmitterAssumption DEF Acceptable
<1> QED
  BY <1>1, Invariant, PTL

\* A slider change is sent once, after a rest, and with the value on the screen.
THEOREM SliderIsDebounced == Spec => Debounced
<1> DEFINE Rested(e) == /\ quiet = DebounceTicks
                        /\ unreported
                        /\ e.humidity = current
           Step == \A batch \in net' \ net : \A e \in Events(batch) :
                      e.type = "slider_change" /\ e.id = nextId => Rested(e)
<1>1. Inv /\ [Next]_vars => [Step]_vars
  <2> SUFFICES ASSUME Inv, Next PROVE Step
    OBVIOUS
  <2>1. OneByOne
    BY DEF Inv, SentOK
  <2>2. ASSUME NEW type, Emit(type), type # "slider_change"
        PROVE  Step
    <3> DEFINE e == [id |-> nextId, type |-> type, humidity |-> pending]
    <3>1. net' = net \cup {<<e>>}
      BY <2>1, <2>2, EmitOne
    <3>2. Events(<<e>>) = {e} /\ e.type # "slider_change"
      BY <2>2, EventsOfOne
    <3> QED
      BY <3>1, <3>2
  <2>3. ASSUME NEW t \in Timer, SliderFires(t)
        PROVE  Step
    <3> DEFINE e == [id |-> nextId, type |-> "slider_change", humidity |-> pending]
    <3>1. net' = net \cup {<<e>>}
      BY <2>1, <2>3, EmitOne DEF SliderFires
    <3>2. Events(<<e>>) = {e} /\ e.humidity = pending
      BY EventsOfOne
    <3>3. unreported /\ quiet = DebounceTicks
      BY <2>3, EmitterAssumption DEF Inv, ClockOK, OneTimer, SliderFires, Off
    <3>4. pending = current
      BY DEF Inv, ClockOK
    <3> QED
      BY <3>1, <3>2, <3>3, <3>4
  <2>4. CASE net' \subseteq net
    BY <2>4
  <2>5. CASE Start
    BY <2>2, <2>5 DEF Start
  <2>6. CASE HeartbeatFires
    BY <2>2, <2>4, <2>6 DEF HeartbeatFires, Skip, Beat
  <2>7. CASE Hide \/ \E fate \in {"frozen", "closed"} : Leave(fate)
    BY <2>1, <2>4, <2>7, FlushNothing DEF Hide, Leave
  <2>8. CASE Show \/ Abandon \/ Restore \/ Tick \/ \E h \in Humidity : Input(h)
    BY <2>4, <2>8 DEF Show, Abandon, Restore, Tick, Input, network
  <2>9. CASE \E batch \in net : Deliver(batch) \/ Lose(batch)
    BY <2>4, <2>9 DEF Deliver, Lose
  <2> QED
    BY <2>3, <2>5, <2>6, <2>7, <2>8, <2>9 DEF Next
<1> QED
  BY <1>1, Invariant, PTL DEF Spec, Debounced
=============================================================================
