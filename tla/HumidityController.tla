-------------------------- MODULE HumidityController --------------------------
(***************************************************************************)
(* The graph of audio layers (frontend/src/audio/graph.ts, procedural.ts)  *)
(* and HumidityController (frontend/src/humidity/controller.ts), which     *)
(* drives it and the shader from one slider.                               *)
(*                                                                         *)
(* A gain is the target of its last ramp (RAMP, 80 ms).  Before boot has   *)
(* built the graph the variables have no meaning.                          *)
(***************************************************************************)
EXTENDS HumidityCurve

VARIABLES built,     \* boot has built graph and controller
          played,    \* the audio layers of the manifest, music then ambient
          layers,    \* of AudioGraph, in the order they were built
          reverb,    \* targets of dryGain and wetGain
          uniforms,  \* of the shader, as far as setGrade sets them
          current    \* HumidityController.current

control == <<built, played, layers, reverb, uniforms, current>>

\* The kinds that are told apart, any other, and none at all.
LayerKind == {"rain", "subway", "rumble", "pad", "other", "undefined"}

AudioLayer ==
    [assetId : Int, kind : LayerKind, baseGain : Nat,
     humidityCurve : [gain : Seq(Nat), reverbWet : Seq(Nat)]]

-----------------------------------------------------------------------------
\* createSourceForKind
SourceForKind(kind) ==
    IF kind = "rain" THEN "rain"
    ELSE IF kind \in {"subway", "rumble"} THEN "rumble" ELSE "pad"

\* Mutant of buildLayers: the graph is built back to front.
buildLayers_Reversed(all) ==
    [i \in DOMAIN all |->
        LET def == all[Len(all) + 1 - i]
        IN [def |-> def, source |-> SourceForKind(def.kind), gain |-> def.baseGain * One]]

buildLayers(all) ==
    [i \in DOMAIN all |->
        [def |-> all[i], source |-> SourceForKind(all[i].kind),
         gain |-> all[i].baseGain * One]]

setLayerGains(graph, gains) ==
    [i \in DOMAIN graph |->
        [graph[i] EXCEPT !.gain = IF i \in DOMAIN gains THEN gains[i] ELSE @]]

setGrade(u) == uniforms' = u

setReverb(dry, wet) == reverb' = [dry |-> dry, wet |-> wet]

\* applyInternal: the slider sets the uniforms, then every gain.
applyInternal(graph, h, all) ==
    LET targets == computeTargets(h, all)
    IN /\ setGrade(targets.grade)
       /\ layers' = setLayerGains(graph, targets.layerGains)
       /\ setReverb(targets.reverbDry, targets.reverbWet)

-----------------------------------------------------------------------------
InitControl ==
    /\ built = FALSE
    /\ played = <<>>
    /\ layers = <<>>
    /\ reverb = [dry |-> 0, wet |-> 0]
    /\ uniforms = Grade(0)
    /\ current = 0

\* What boot constructs for the audio layers of a manifest, and its default.
Build(all, default) ==
    /\ built' = TRUE
    /\ played' = all
    /\ current' = clamp01(default)
    /\ applyInternal(buildLayers(all), current', all)

\* The input event of the slider, and HumidityController.apply.
apply(h) ==
    /\ built
    /\ current' = clamp01(h)
    /\ applyInternal(layers, current', played)
    /\ UNCHANGED <<built, played>>

\* The page builds them once, for whatever manifest.
BuildOnce ==
    /\ ~built
    /\ played' \in Seq(AudioLayer)
    /\ \E default \in Humidity : Build(played', default)

ControlNext == BuildOnce \/ \E h \in Humidity : apply(h)

ControlSpec == InitControl /\ [][ControlNext]_control

-----------------------------------------------------------------------------
Between(x, a, b) == \/ a * One <= x /\ x <= b * One
                    \/ b * One <= x /\ x <= a * One

Larger(range) == IF range[1] < range[2] THEN range[2] ELSE range[1]

\* The humidity is on the slider; whatever the slider does, a gain that follows
\* a curve stays between its ends, and so does the reverb (controller.ts:48-65:
\* the ends are all that the data of a course gives).
ControlOK ==
    /\ built \in BOOLEAN
    /\ current \in Humidity
    /\ \A i \in DOMAIN layers :
          LET range == layers[i].def.humidityCurve.gain
          IN HasRange(layers[i].def, "gain") => Between(layers[i].gain, range[1], range[2])
    /\ built => reverb.wet \in 0..(Unit * (Larger(WetRange(played)) * One))

\* Each layer of the graph sounds as loud as the manifest's layer that it was
\* built from has it at the present humidity.  The graph and the controller
\* list the layers independently and meet in their indices (graph.ts:68,
\* 120-125; controller.ts:44-51).
GainsFollowTheirLayer ==
    built => /\ DOMAIN layers = DOMAIN played
             /\ \A i \in DOMAIN layers :
                   /\ layers[i].def = played[i]
                   /\ layers[i].gain = LayerGain(layers[i].def, current)

\* The direct sound never falls below the floor, and without humidity there is
\* no reverb: all sound is direct (curve.ts:32-46, "dry floor").
DirectSoundRemains ==
    built => /\ reverb.dry >= DRY_FLOOR
             /\ current = 0 => reverb = [dry |-> Unit, wet |-> 0]

\* More humidity is never heard or seen as less: with a reverb range that rises,
\* the reverb does not fall, the direct sound does not rise, and the screen
\* gets no less blue, grainy or blurred and no richer in contrast (controller.ts:
\* 52-75, "one input drives shader and audio together").
Wetter ==
    built /\ current' >= current /\ WetRange(played)[1] <= WetRange(played)[2]
        => /\ reverb'.wet >= reverb.wet
           /\ reverb'.dry <= reverb.dry
           /\ \A u \in DOMAIN uniforms \ {"uContrast"} : uniforms'[u] >= uniforms[u]
           /\ uniforms'.uContrast <= uniforms.uContrast
WetterIsNeverDrier == [][Wetter]_control
=============================================================================
