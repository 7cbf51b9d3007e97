------------------------------- MODULE Playback -------------------------------
(***************************************************************************)
(* From the rows of a course to what is heard and seen: the page loads the *)
(* manifest that the backend composes (ManifestLoader) and builds from it  *)
(* what the slider drives (HumidityController).                            *)
(*                                                                         *)
(* The manifest is read once: edits of the tables after that cannot reach  *)
(* the page and are left out.  That the session may come out of a cache    *)
(* makes it an earlier Compose (SessionCache).                             *)
(***************************************************************************)
EXTENDS Sequencing, HumidityController, ManifestLoader

CONSTANTS BaseGain,      \* course_assets.base_gain of each asset
          GainCurve,     \* course_assets.humidity_curve of each asset: its
          ReverbCurve,   \* gain and reverbWet, empty if not given
          Omitted        \* sets of fields that an answer may lack

ASSUME PlaybackAssumption ==
    /\ DefaultHumidity \in Humidity
    /\ BaseGain \in [Asset -> Nat]
    /\ GainCurve \in [Asset -> Seq(Nat)]
    /\ ReverbCurve \in [Asset -> Seq(Nat)]
    /\ Omitted \subseteq SUBSET {"video", "audio", "humidity"}

\* SessionManifest, as far as it is used.
Manifest == [courseId : Course \cup {DefaultCourse},
             video : Seq(Int), music : Seq(AudioLayer), ambient : Seq(AudioLayer),
             humidity : Humidity]

ASSUME MissingAssumption == Missing \notin Manifest

vars == <<tables, loader, control>>

-----------------------------------------------------------------------------
\* toAudioLayer: the backend's layers have no kind.
BackendLayer(a) == Layer(a, "undefined", BaseGain[a], GainCurve[a], ReverbCurve[a])

BackendLayers(assets) == [i \in DOMAIN assets |-> BackendLayer(assets[i])]

\* The answer of the session endpoint, without the fields that are omitted.
Answer(c, omitted) ==
    LET m == Compose(c)
        field(name, value) == IF name \in omitted THEN Missing ELSE value
    IN [courseId |-> c,
        video    |-> field("video", m.video),
        music    |-> field("audio", BackendLayers(m.music)),
        ambient  |-> field("audio", BackendLayers(m.ambient)),
        humidity |-> field("humidity", DefaultHumidity)]

\* [...manifest.audio.music, ...manifest.audio.ambient], in two places.
AllLayers(m) == m.music \o m.ambient

-----------------------------------------------------------------------------
Init ==
    /\ InitTables
    /\ InitLoader
    /\ InitControl

\* The list of courses is all that the first request reads, so other edits made
\* during the loading could have been made before it.
EditTables ==
    /\ \/ phase = "courses" /\ timer = FetchTimeout /\ Edit
       \/ phase = "session" /\ \E c \in Course : DeleteCourse(c)
    /\ UNCHANGED <<loader, control>>

\* CourseService.list: the page is not sorted, any course may be the first.
ListCourses ==
    /\ \/ \E c \in DOMAIN rows : CoursesListed(c)
       \/ DOMAIN rows = {} /\ NoCourse
    /\ UNCHANGED <<tables, control>>

ListFails == NoCourse /\ UNCHANGED <<tables, control>>

\* Mutant of Boot: no page without an answer of the backend.
Boot_Answered(m) ==
    IF m = FALLBACK_MANIFEST THEN UNCHANGED control ELSE Build(AllLayers(m), m.humidity)

\* What boot does with the manifest before it returns to the event loop.
Boot(m) == Build(AllLayers(m), m.humidity)

SessionIsComposed ==
    /\ Exists(id)
    /\ \E omitted \in Omitted : SessionComposed(Answer(id, omitted))

Load ==
    /\ \/ SessionIsComposed
       \/ ~Exists(id) /\ SessionNotFound
       \/ SessionFails
       \/ TimeOut
    /\ IF phase' = "done" THEN Boot(manifest') ELSE UNCHANGED control
    /\ UNCHANGED tables

Wait == Tick /\ UNCHANGED <<tables, control>>

Input(h) ==
    /\ h # current
    /\ apply(h)
    /\ UNCHANGED <<tables, loader>>

Next ==
    \/ EditTables
    \/ ListCourses \/ ListFails \/ Load \/ Wait
    \/ \E h \in Humidity : Input(h)

Spec == Init /\ [][Next]_vars

FairSpec == Spec /\ LoaderFairness

-----------------------------------------------------------------------------
\* The tables and the loader keep to their ranges, and the page is built as soon
\* as there is a manifest, also if it is the built-in one (main.ts:27-45).
PlaybackOK == TablesOK /\ LoaderOK /\ (built <=> Loaded)

\* The page is a HumidityController for a manifest that was composed from the
\* tables, or for the built-in one: what it is given are layers, and it is built
\* once, whatever answers late (main.ts:28-45, manifest.ts:115-127).
DrivesOnePage == ControlSpec

\* graph.ts:9: the ambient layers are rain and subway; only music is a pad.
AmbientIsNotAPad ==
    Loaded => \A i \in DOMAIN layers :
                 i > Len(manifest.music) => layers[i].source # "pad"
=============================================================================
