---------------------------- MODULE HumidityProofs ----------------------------
(***************************************************************************)
(* Theorems about HumidityController, for any number of slider positions,  *)
(* any quarter circle that falls, and any layers of a manifest.            *)
(*                                                                         *)
(* All that the page shows and plays is a function of the layers it was    *)
(* built from and of the humidity: that is the inductive invariant, and    *)
(* the rest is about that function.                                        *)
(***************************************************************************)
EXTENDS HumidityController, WellFoundedInduction, TLAPS

-----------------------------------------------------------------------------
\* The numbers of the slider (curve.ts).

LEMMA SliderRange ==
    /\ Steps \in Nat /\ Steps > 0
    /\ One \in Nat /\ Unit \in Nat
    /\ Humidity \subseteq Nat
    /\ \A t \in Humidity : Steps - t \in Humidity
BY CurveAssumption, Z3 DEF One, Unit, Humidity

LEMMA ClampStays == \A h \in Humidity : clamp01(h) = h
BY CurveAssumption DEF clamp01, Humidity

\* Each easing runs from 0 to 1 ...
LEMMA EasingRange ==
    ASSUME NEW t \in Humidity
    PROVE  /\ Linear(t) \in 0..One
           /\ EaseInQuad(t) \in 0..One
           /\ EaseOutCubic(t) \in 0..One
           /\ Smoothstep(t) \in 0..One
<1>1. t \in Nat /\ t <= Steps /\ Steps \in Nat
  BY SliderRange, CurveAssumption DEF Humidity
<1>2. Linear(t) \in 0..One
  BY <1>1, Z3 DEF Linear, One
<1>3. EaseInQuad(t) \in 0..One
  BY <1>1, Z3 DEF EaseInQuad, One
<1>4. EaseOutCubic(t) \in 0..One
  BY <1>1, Z3 DEF EaseOutCubic, One
<1>5. Smoothstep(t) \in 0..One
  BY <1>1, Z3 DEF Smoothstep, One
<1> QED
  BY <1>2, <1>3, <1>4, <1>5

\* ... and never turns back.
LEMMA EasingRises ==
    ASSUME NEW s \in Humidity, NEW t \in Humidity, s <= t
    PROVE  /\ Linear(s) <= Linear(t)
           /\ EaseInQuad(s) <= EaseInQuad(t)
           /\ EaseOutCubic(s) <= EaseOutCubic(t)
           /\ Smoothstep(s) <= Smoothstep(t)
<1>1. s \in Nat /\ t \in Nat /\ t <= Steps /\ Steps \in Nat
  BY SliderRange, CurveAssumption DEF Humidity
<1>2. Linear(s) <= Linear(t)
  BY <1>1, Z3 DEF Linear
<1>3. EaseInQuad(s) <= EaseInQuad(t)
  BY <1>1, Z3 DEF EaseInQuad
<1>4. EaseOutCubic(s) <= EaseOutCubic(t)
  BY <1>1, Z3 DEF EaseOutCubic, One
<1>5. Smoothstep(s) <= Smoothstep(t)
  BY <1>1, Z3 DEF Smoothstep
<1> QED
  BY <1>2, <1>3, <1>4, <1>5

\* An interpolation stays between its ends ...
LEMMA LerpBetween ==
    ASSUME NEW a \in Nat, NEW b \in Nat, NEW e \in 0..One
    PROVE  /\ curveLerp(a, b, e) \in Int
           /\ Between(curveLerp(a, b, e), a, b)
<1>1. One \in Nat /\ e \in Nat /\ e <= One
  BY SliderRange
<1>2. a <= b => a * One <= curveLerp(a, b, e) /\ curveLerp(a, b, e) <= b * One
  BY <1>1, Z3 DEF curveLerp
<1>3. b <= a => b * One <= curveLerp(a, b, e) /\ curveLerp(a, b, e) <= a * One
  BY <1>1, Z3 DEF curveLerp
<1>4. curveLerp(a, b, e) \in Int
  BY <1>1, Z3 DEF curveLerp
<1> QED
  BY <1>2, <1>3, <1>4 DEF Between

\* ... and goes the way its ends lie.
LEMMA LerpRises ==
    ASSUME NEW a \in Nat, NEW b \in Nat,
           NEW d \in 0..One, NEW e \in 0..One, d <= e
    PROVE  /\ a <= b => curveLerp(a, b, d) <= curveLerp(a, b, e)
           /\ b <= a => curveLerp(a, b, e) <= curveLerp(a, b, d)
<1>1. One \in Nat /\ d \in Nat /\ e \in Nat
  BY SliderRange
<1> QED
  BY <1>1, Z3 DEF curveLerp

-----------------------------------------------------------------------------
\* The ranges of the layers (controller.ts).

\* A set of numbers has a least one.
LEMMA HasLeast ==
    ASSUME NEW S, S \subseteq Nat, S # {}
    PROVE  \E i \in S : \A j \in S : i <= j
<1> DEFINE Less == {pair \in Nat \X Nat : pair[1] < pair[2]}
<1>1. Less = OpToRel(<, Nat)
  BY DEF OpToRel
<1>2. IsWellFoundedOn(Less, Nat)
  BY <1>1, NatLessThanWellFounded
<1>3. PICK i \in S : \A j \in S : ~(<<j, i>> \in Less)
  <2> HIDE DEF Less
  <2> QED
    BY <1>2, WFMin
<1>4. \A j \in S : i <= j
  <2>1. TAKE j \in S
  <2>2. i \in Nat /\ j \in Nat
    OBVIOUS
  <2>3. ~(j < i)
    BY <1>3, <2>2
  <2> QED
    BY <2>2, <2>3
<1> QED
  BY <1>4

\* The first layer with a range of its own, or the built-in range.
LEMMA WetRangeOK ==
    ASSUME NEW all \in Seq(AudioLayer)
    PROVE  WetRange(all) \in Seq(Nat) /\ Len(WetRange(all)) >= 2
<1> DEFINE wet == {i \in DOMAIN all : HasRange(all[i], "reverbWet")}
<1> DEFINE first == CHOOSE i \in wet : \A j \in wet : i <= j
<1>1. CASE wet = {}
  <2>1. WetRange(all) = <<0, 600>>
    BY <1>1 DEF WetRange
  <2> QED
    BY <2>1
<1>2. CASE wet # {}
  <2>1. wet \subseteq Nat
    OBVIOUS
  <2>2. \E i \in wet : \A j \in wet : i <= j
    BY <1>2, <2>1, HasLeast
  <2>3. first \in wet
    BY <2>2
  <2>4. WetRange(all) = all[first].humidityCurve.reverbWet
    BY <1>2 DEF WetRange
  <2>5. all[first] \in AudioLayer /\ HasRange(all[first], "reverbWet")
    BY <2>3
  <2> QED
    BY <2>4, <2>5 DEF AudioLayer, HasRange
<1> QED
  BY <1>1, <1>2

LEMMA WetRangeEnds ==
    ASSUME NEW all \in Seq(AudioLayer)
    PROVE  WetRange(all)[1] \in Nat /\ WetRange(all)[2] \in Nat
BY WetRangeOK

LEMMA LayerGainOK ==
    ASSUME NEW layer \in AudioLayer, NEW t \in Humidity
    PROVE  LET range == layer.humidityCurve.gain
           IN HasRange(layer, "gain") => Between(LayerGain(layer, t), range[1], range[2])
<1> SUFFICES ASSUME HasRange(layer, "gain")
             PROVE  Between(LayerGain(layer, t), layer.humidityCurve.gain[1],
                                                 layer.humidityCurve.gain[2])
  OBVIOUS
<1>1. /\ layer.humidityCurve.gain[1] \in Nat
      /\ layer.humidityCurve.gain[2] \in Nat
  BY DEF AudioLayer, HasRange
<1>2. LayerGain(layer, t) = curveLerp(layer.humidityCurve.gain[1],
                                      layer.humidityCurve.gain[2], EaseInQuad(t))
  BY DEF LayerGain
<1> QED
  BY <1>1, <1>2, EasingRange, LerpBetween

-----------------------------------------------------------------------------
\* What the listener and the viewer get.

\* The layers of the graph, each at its own loudness.
Sounding(all, t) ==
    [i \in DOMAIN all |->
        [def |-> all[i], source |-> SourceForKind(all[i].kind),
         gain |-> LayerGain(all[i], t)]]

Reverb(all, t) ==
    [dry |-> dryWetGains(t).dry, wet |-> dryWetGains(t).wet * WetAmount(all, t)]

\* The gains by index are those of the layers the graph was built from ...
LEMMA BuiltSounds ==
    ASSUME NEW all \in Seq(AudioLayer), NEW t \in Humidity
    PROVE  setLayerGains(buildLayers(all), computeTargets(t, all).layerGains)
              = Sounding(all, t)
<1>1. computeTargets(t, all).layerGains = [i \in DOMAIN all |-> LayerGain(all[i], t)]
  BY ClampStays DEF computeTargets
<1> QED
  BY <1>1 DEF setLayerGains, buildLayers, Sounding

\* ... and stay so.
LEMMA StillSounds ==
    ASSUME NEW all \in Seq(AudioLayer), NEW s \in Humidity, NEW t \in Humidity
    PROVE  setLayerGains(Sounding(all, s), computeTargets(t, all).layerGains)
              = Sounding(all, t)
<1>1. computeTargets(t, all).layerGains = [i \in DOMAIN all |-> LayerGain(all[i], t)]
  BY ClampStays DEF computeTargets
<1> QED
  BY <1>1 DEF setLayerGains, Sounding

LEMMA Targets ==
    ASSUME NEW all, NEW t \in Humidity
    PROVE  LET targets == computeTargets(t, all)
           IN /\ targets.grade = Grade(t)
              /\ [dry |-> targets.reverbDry, wet |-> targets.reverbWet] = Reverb(all, t)
BY ClampStays DEF computeTargets, Reverb

\* Equal power, with a floor under the direct sound.
LEMMA DryWetRange ==
    ASSUME NEW t \in Humidity
    PROVE  /\ dryWetGains(t).dry \in DRY_FLOOR..Unit
           /\ dryWetGains(t).wet \in 0..Unit
<1>1. Cosine[t] \in 0..Unit /\ Cosine[Steps - t] \in 0..Unit
  BY SliderRange, CurveAssumption
<1> QED
  BY <1>1 DEF dryWetGains, DRY_FLOOR, Unit

LEMMA DryWetTurns ==
    ASSUME NEW s \in Humidity, NEW t \in Humidity, s <= t
    PROVE  /\ dryWetGains(t).dry <= dryWetGains(s).dry
           /\ dryWetGains(s).wet <= dryWetGains(t).wet
<1>1. /\ Cosine[s] \in 0..Unit /\ Cosine[t] \in 0..Unit
      /\ Cosine[Steps - s] \in 0..Unit /\ Cosine[Steps - t] \in 0..Unit
  BY SliderRange, CurveAssumption
<1>2. s \in Nat /\ t \in Nat /\ Steps - t <= Steps - s
  BY SliderRange
<1>3. Cosine[t] <= Cosine[s]
  BY CurveAssumption
<1>4. Cosine[Steps - s] <= Cosine[Steps - t]
  BY <1>2, SliderRange, CurveAssumption
<1>5. \A u \in {s, t} :
        /\ dryWetGains(u).dry = IF Cosine[u] < 300 THEN 300 ELSE Cosine[u]
        /\ dryWetGains(u).wet = Cosine[Steps - u]
  BY DEF dryWetGains, DRY_FLOOR
<1>6. /\ Cosine[s] \in Int /\ Cosine[t] \in Int
      /\ Cosine[Steps - s] \in Int /\ Cosine[Steps - t] \in Int
  BY <1>1, SliderRange
<1>7. dryWetGains(t).dry <= dryWetGains(s).dry
  BY <1>3, <1>5, <1>6
<1>8. dryWetGains(s).wet <= dryWetGains(t).wet
  BY <1>4, <1>5
<1> QED
  BY <1>7, <1>8

LEMMA WetAmountOK ==
    ASSUME NEW all \in Seq(AudioLayer), NEW t \in Humidity
    PROVE  /\ WetAmount(all, t) \in Nat
           /\ WetAmount(all, t) <= Larger(WetRange(all)) * One
<1> DEFINE a == WetRange(all)[1]
           b == WetRange(all)[2]
<1>1. a \in Nat /\ b \in Nat
  BY WetRangeEnds
<1>2. WetAmount(all, t) \in Int /\ Between(WetAmount(all, t), a, b)
  BY <1>1, EasingRange, LerpBetween DEF WetAmount
<1>3. /\ Larger(WetRange(all)) \in Nat
      /\ a <= Larger(WetRange(all)) /\ b <= Larger(WetRange(all))
  BY <1>1 DEF Larger
<1> HIDE DEF a, b
<1>4. /\ a * One \in Nat /\ b * One \in Nat
      /\ a * One <= Larger(WetRange(all)) * One
      /\ b * One <= Larger(WetRange(all)) * One
  BY <1>1, <1>3, SliderRange, Z3
<1>5. Larger(WetRange(all)) * One \in Nat
  BY <1>3, SliderRange, Z3
<1> QED
  BY <1>2, <1>4, <1>5 DEF Between

LEMMA ReverbOK ==
    ASSUME NEW all \in Seq(AudioLayer), NEW t \in Humidity
    PROVE  Reverb(all, t).wet \in 0..(Unit * (Larger(WetRange(all)) * One))
<1> DEFINE w == dryWetGains(t).wet
           x == WetAmount(all, t)
           y == Larger(WetRange(all)) * One
<1>1. w \in Nat /\ w <= Unit
  <2>1. w \in 0..Unit
    BY DryWetRange
  <2> QED
    BY <2>1, SliderRange
<1>2. x \in Nat /\ x <= y
  BY WetAmountOK
<1>3. y \in Nat
  BY WetRangeEnds, SliderRange, Z3 DEF Larger
<1>4. Reverb(all, t).wet = w * x
  BY DEF Reverb
<1> HIDE DEF w, x, y
<1>5. w * x \in Nat /\ w * x <= Unit * y
  BY <1>1, <1>2, <1>3, Z3 DEF Unit
<1>6. Unit * y \in Nat
  BY <1>3, Z3 DEF Unit
<1> QED
  BY <1>4, <1>5, <1>6 DEF y

LEMMA ReverbRises ==
    ASSUME NEW all \in Seq(AudioLayer), WetRange(all)[1] <= WetRange(all)[2],
           NEW s \in Humidity, NEW t \in Humidity, s <= t
    PROVE  /\ Reverb(all, s).wet <= Reverb(all, t).wet
           /\ Reverb(all, t).dry <= Reverb(all, s).dry
<1> DEFINE v == dryWetGains(s).wet
           w == dryWetGains(t).wet
           x == WetAmount(all, s)
           y == WetAmount(all, t)
<1>1. v \in Nat /\ w \in Nat /\ v <= w
  BY DryWetRange, DryWetTurns, SliderRange
<1>2. x \in Nat /\ y \in Nat
  BY WetAmountOK
<1>3. x <= y
  BY WetRangeEnds, EasingRange, EasingRises, LerpRises DEF WetAmount
<1>4. Reverb(all, s).wet = v * x /\ Reverb(all, t).wet = w * y
  BY DEF Reverb
<1>5. Reverb(all, t).dry <= Reverb(all, s).dry
  BY DryWetTurns DEF Reverb
<1> HIDE DEF v, w, x, y
<1>6. v * x <= w * y
  BY <1>1, <1>2, <1>3, Z3
<1> QED
  BY <1>4, <1>5, <1>6

LEMMA GradeRises ==
    ASSUME NEW s \in Humidity, NEW t \in Humidity, s <= t
    PROVE  /\ \A u \in DOMAIN Grade(s) \ {"uContrast"} : Grade(s)[u] <= Grade(t)[u]
           /\ Grade(t).uContrast <= Grade(s).uContrast
<1> USE EasingRange, EasingRises, LerpRises
<1>1. Grade(s).uCyan <= Grade(t).uCyan
  BY DEF Grade
<1>2. Grade(s).uGrain <= Grade(t).uGrain
  BY DEF Grade
<1>3. Grade(s).uChroma <= Grade(t).uChroma
  BY DEF Grade
<1>4. Grade(s).uBloom <= Grade(t).uBloom
  BY DEF Grade
<1>5. Grade(s).uVignette <= Grade(t).uVignette
  BY DEF Grade
<1>6. Grade(t).uContrast <= Grade(s).uContrast
  BY DEF Grade
<1>7. DOMAIN Grade(s) = {"uCyan", "uGrain", "uChroma", "uBloom", "uVignette", "uContrast"}
  BY DEF Grade
<1> QED
  BY <1>1, <1>2, <1>3, <1>4, <1>5, <1>6, <1>7

\* Without humidity the sound is direct; with all of it some still is.
LEMMA DryAtZero ==
    ASSUME NEW all \in Seq(AudioLayer)
    PROVE  0 \in Humidity /\ Reverb(all, 0) = [dry |-> Unit, wet |-> 0]
<1>1. 0 \in Humidity
  BY SliderRange DEF Humidity
<1>2. dryWetGains(0) = [dry |-> Unit, wet |-> 0]
  BY CurveAssumption, SliderRange DEF dryWetGains, DRY_FLOOR, Unit
<1>3. WetAmount(all, 0) \in Nat
  BY <1>1, WetAmountOK
<1> QED
  BY <1>1, <1>2, <1>3 DEF Reverb

-----------------------------------------------------------------------------
(***************************************************************************)
(* The invariant: once built, the page is a function of its layers and of  *)
(* the humidity.                                                           *)
(***************************************************************************)

Driven ==
    /\ built \in BOOLEAN
    /\ current \in Humidity
    /\ ~built => layers = <<>>
    /\ built => /\ played \in Seq(AudioLayer)
                /\ layers = Sounding(played, current)
                /\ reverb = Reverb(played, current)
                /\ uniforms = Grade(current)

\* apply and the constructor leave the page so, given layers that they set.
LEMMA Applied ==
    ASSUME NEW all \in Seq(AudioLayer), NEW t \in Humidity, NEW graph,
           setLayerGains(graph, computeTargets(t, all).layerGains) = Sounding(all, t),
           applyInternal(graph, t, all)
    PROVE  /\ layers' = Sounding(all, t)
           /\ reverb' = Reverb(all, t)
           /\ uniforms' = Grade(t)
BY Targets DEF applyInternal, setGrade, setReverb

LEMMA BuildDrives ==
    ASSUME BuildOnce
    PROVE  Driven'
<1>1. PICK default \in Humidity : Build(played', default)
  BY DEF BuildOnce
<1>2. played' \in Seq(AudioLayer)
  BY DEF BuildOnce
<1>3. built' = TRUE
  BY <1>1 DEF Build
<1>4. current' = default
  BY <1>1, ClampStays DEF Build
<1>5. applyInternal(buildLayers(played'), current', played')
  BY <1>1 DEF Build
<1>6. /\ layers' = Sounding(played', current')
      /\ reverb' = Reverb(played', current')
      /\ uniforms' = Grade(current')
  BY <1>2, <1>4, <1>5, BuiltSounds, Applied
<1> QED
  BY <1>2, <1>3, <1>4, <1>6 DEF Driven

LEMMA ApplyDrives ==
    ASSUME Driven, NEW h \in Humidity, apply(h)
    PROVE  Driven' /\ current' = h /\ played' = played
<1>1. built /\ built' = built /\ played' = played
  BY DEF apply
<1>2. current' = h
  BY ClampStays DEF apply
<1>3. played \in Seq(AudioLayer) /\ layers = Sounding(played, current)
  BY <1>1 DEF Driven
<1>4. setLayerGains(layers, computeTargets(h, played).layerGains) = Sounding(played, h)
  BY <1>3, StillSounds DEF Driven
<1>5. applyInternal(layers, h, played)
  BY <1>2 DEF apply
<1>6. /\ layers' = Sounding(played, h)
      /\ reverb' = Reverb(played, h)
      /\ uniforms' = Grade(h)
  BY <1>3, <1>4, <1>5, Applied
<1> QED
  BY <1>1, <1>2, <1>3, <1>6 DEF Driven

\* Whatever manifest the page is built for, and however the slider is moved.
THEOREM Drives == ControlSpec => []Driven
<1>1. InitControl => Driven
  <2>1. 0 \in Humidity
    BY SliderRange DEF Humidity
  <2> QED
    BY <2>1, Zenon DEF InitControl, Driven
<1>2. Driven /\ [ControlNext]_control => Driven'
  <2> SUFFICES ASSUME Driven, [ControlNext]_control
               PROVE  Driven'
    OBVIOUS
  <2>1. CASE BuildOnce
    BY <2>1, BuildDrives
  <2>2. ASSUME NEW h \in Humidity, apply(h)
        PROVE  Driven'
    BY <2>2, ApplyDrives
  <2>3. CASE UNCHANGED control
    BY <2>3 DEF Driven, control
  <2> QED
    BY <2>1, <2>2, <2>3 DEF ControlNext
<1> QED
  BY <1>1, <1>2, PTL DEF ControlSpec

-----------------------------------------------------------------------------
\* The humidity is on the slider, and gains and reverb stay between the ends
\* that the course gives.
THEOREM TypeCorrect == ControlSpec => []ControlOK
<1>1. Driven => ControlOK
  <2> SUFFICES ASSUME Driven
               PROVE  ControlOK
    OBVIOUS
  <2>1. ASSUME NEW i \in DOMAIN layers, HasRange(layers[i].def, "gain")
        PROVE  Between(layers[i].gain, layers[i].def.humidityCurve.gain[1],
                                       layers[i].def.humidityCurve.gain[2])
    <3>1. built
      BY <2>1 DEF Driven
    <3>2. played \in Seq(AudioLayer) /\ layers = Sounding(played, current)
      BY <3>1 DEF Driven
    <3>3. i \in DOMAIN played
      BY <2>1, <3>2 DEF Sounding
    <3>4. layers[i].def = played[i] /\ layers[i].gain = LayerGain(played[i], current)
      BY <3>2, <3>3 DEF Sounding
    <3>5. played[i] \in AudioLayer
      BY <3>2, <3>3
    <3> QED
      BY <2>1, <3>4, <3>5, LayerGainOK DEF Driven
  <2>2. built => reverb.wet \in 0..(Unit * (Larger(WetRange(played)) * One))
    BY ReverbOK DEF Driven
  <2> QED
    BY <2>1, <2>2 DEF ControlOK, Driven
<1> QED
  BY <1>1, Drives, PTL

\* Every layer of the graph sounds as loud as its layer of the manifest has it.
THEOREM GainsAreTheirLayers == ControlSpec => []GainsFollowTheirLayer
<1>1. Driven => GainsFollowTheirLayer
  <2> SUFFICES ASSUME Driven, built
               PROVE  GainsFollowTheirLayer
    BY DEF GainsFollowTheirLayer
  <2>1. layers = Sounding(played, current)
    BY DEF Driven
  <2>2. DOMAIN layers = DOMAIN played
    BY <2>1 DEF Sounding
  <2>3. ASSUME NEW i \in DOMAIN layers
        PROVE  /\ layers[i].def = played[i]
               /\ layers[i].gain = LayerGain(layers[i].def, current)
    BY <2>1, <2>2, <2>3 DEF Sounding
  <2> QED
    BY <2>2, <2>3 DEF GainsFollowTheirLayer
<1> QED
  BY <1>1, Drives, PTL

\* Some sound is always direct, and all of it is without humidity.
THEOREM DirectSoundStays == ControlSpec => []DirectSoundRemains
<1>1. Driven => DirectSoundRemains
  <2> SUFFICES ASSUME Driven, built
               PROVE  DirectSoundRemains
    BY DEF DirectSoundRemains
  <2>1. /\ played \in Seq(AudioLayer)
        /\ current \in Humidity
        /\ reverb = Reverb(played, current)
    BY DEF Driven
  <2>2. reverb.dry >= DRY_FLOOR
    <3>1. reverb.dry = dryWetGains(current).dry
      BY <2>1 DEF Reverb
    <3> QED
      BY <2>1, <3>1, DryWetRange, SliderRange DEF DRY_FLOOR
  <2>3. current = 0 => reverb = [dry |-> Unit, wet |-> 0]
    BY <2>1, DryAtZero
  <2> QED
    BY <2>2, <2>3 DEF DirectSoundRemains
<1> QED
  BY <1>1, Drives, PTL

\* One input drives shader and audio, and more of it is never less.
THEOREM WetterStaysWetter == ControlSpec => WetterIsNeverDrier
<1>1. Driven /\ [ControlNext]_control => [Wetter]_control
  <2> SUFFICES ASSUME Driven, ControlNext,
                      built, current' >= current,
                      WetRange(played)[1] <= WetRange(played)[2]
               PROVE  /\ reverb'.wet >= reverb.wet
                      /\ reverb'.dry <= reverb.dry
                      /\ \A u \in DOMAIN uniforms \ {"uContrast"} : uniforms'[u] >= uniforms[u]
                      /\ uniforms'.uContrast <= uniforms.uContrast
    BY DEF Wetter
  <2>1. PICK h \in Humidity : apply(h)
    BY DEF ControlNext, BuildOnce
  <2>2. Driven' /\ built' /\ played' = played
    BY <2>1, ApplyDrives DEF apply
  <2>3. /\ played \in Seq(AudioLayer)
        /\ current \in Humidity /\ current' \in Humidity
        /\ current <= current'
    BY <2>2, SliderRange DEF Driven
  <2>4. /\ reverb = Reverb(played, current) /\ reverb' = Reverb(played, current')
        /\ uniforms = Grade(current) /\ uniforms' = Grade(current')
    BY <2>2 DEF Driven
  <2>5. /\ Reverb(played, current).wet <= Reverb(played, current').wet
        /\ Reverb(played, current').dry <= Reverb(played, current).dry
    BY <2>3, ReverbRises
  <2>6. /\ \A u \in DOMAIN Grade(current) \ {"uContrast"} :
              Grade(current)[u] <= Grade(current')[u]
        /\ Grade(current').uContrast <= Grade(current).uContrast
    BY <2>3, GradeRises
  <2> QED
    BY <2>4, <2>5, <2>6
<1> QED
  BY <1>1, Drives, PTL DEF ControlSpec, WetterIsNeverDrier
=============================================================================
