---------------------------- MODULE HumidityCurve ----------------------------
(***************************************************************************)
(* The mathematics of the humidity slider: frontend/src/humidity/curve.ts  *)
(* and computeTargets of frontend/src/humidity/controller.ts.              *)
(*                                                                         *)
(* Numbers are fixed-point.  A humidity t stands for t/Steps; a gain, an   *)
(* end of a range or a uniform is in thousandths; an easing is exact, in   *)
(* multiples of 1/One.  What is interpolated is in thousandths of 1/One,   *)
(* so no division is rounded.  Only the cosine is a table.                 *)
(***************************************************************************)
EXTENDS Integers, Sequences

CONSTANTS Steps,    \* positions of the slider above 0
          Cosine    \* of the quarter circle, in Steps steps, in thousandths

Unit == 1000
Humidity == 0..Steps
One == Steps * Steps * Steps

ASSUME CurveAssumption ==
    /\ Steps \in Nat \ {0}
    /\ Cosine \in [Humidity -> 0..Unit]
    /\ Cosine[0] = Unit
    /\ Cosine[Steps] = 0
    /\ \A s, t \in Humidity : s <= t => Cosine[t] <= Cosine[s]

-----------------------------------------------------------------------------
\* EASINGS
Linear(t)       == t * Steps * Steps
EaseInQuad(t)   == t * t * Steps
EaseOutCubic(t) == One - (Steps - t) * (Steps - t) * (Steps - t)
Smoothstep(t)   == t * t * (3 * Steps - 2 * t)

clamp01(h) == CASE h < 0 -> 0 [] h > Steps -> Steps [] OTHER -> h

\* Mutant of curveLerp: b instead of the distance to it.
curveLerp_Sum(a, b, eased) == a * One + b * eased

\* lerp(a, b, eased)
curveLerp(a, b, eased) == a * One + (b - a) * eased

DRY_FLOOR == 300

\* Mutant of dryWetGains: equal power, without the floor.
dryWetGains_EqualPower(t) == [dry |-> Cosine[t], wet |-> Cosine[Steps - t]]

\* Mutant of dryWetGains: sine and cosine exchanged.
dryWetGains_Swapped(t) ==
    [dry |-> IF Cosine[Steps - t] < DRY_FLOOR THEN DRY_FLOOR ELSE Cosine[Steps - t],
     wet |-> Cosine[t]]

dryWetGains(t) ==
    [dry |-> IF Cosine[t] < DRY_FLOOR THEN DRY_FLOOR ELSE Cosine[t],
     wet |-> Cosine[Steps - t]]

-----------------------------------------------------------------------------
\* extractRange: the curve of a layer maps a key to a sequence, which is empty
\* if the key is missing or its value is not a list of numbers.
HasRange(layer, key) == Len(layer.humidityCurve[key]) >= 2

LayerGain(layer, t) ==
    LET range == layer.humidityCurve.gain
    IN IF HasRange(layer, "gain") THEN curveLerp(range[1], range[2], EaseInQuad(t))
                                  ELSE layer.baseGain * One

\* The first layer with a range decides for all.
WetRange(layers) ==
    LET wet == {i \in DOMAIN layers : HasRange(layers[i], "reverbWet")}
        first == CHOOSE i \in wet : \A j \in wet : i <= j
    IN IF wet = {} THEN <<0, 600>> ELSE layers[first].humidityCurve.reverbWet

WetAmount(layers, t) ==
    LET range == WetRange(layers) IN curveLerp(range[1], range[2], EaseOutCubic(t))

Grade(t) ==
    [uCyan     |-> curveLerp(50, 400, Smoothstep(t)),
     uGrain    |-> curveLerp(200, 700, Linear(t)),
     uChroma   |-> curveLerp(100, 500, Smoothstep(t)),
     uBloom    |-> curveLerp(100, 450, EaseInQuad(t)),
     uVignette |-> curveLerp(350, 600, Linear(t)),
     uContrast |-> curveLerp(950, 700, Smoothstep(t))]

computeTargets(h, layers) ==
    LET t == clamp01(h)
        reverb == dryWetGains(t)
    IN [layerGains |-> [i \in DOMAIN layers |-> LayerGain(layers[i], t)],
        reverbDry  |-> reverb.dry,
        reverbWet  |-> reverb.wet * WetAmount(layers, t),
        grade      |-> Grade(t)]
=============================================================================
