---------------------------- MODULE PlaybackProofs ----------------------------
(***************************************************************************)
(* Theorems about Playback, for any courses, assets and edits, any time-   *)
(* out, and any fields that an answer lacks.                               *)
(***************************************************************************)
EXTENDS Playback, SequencingProofs, HumidityProofs, SequenceTheorems, TLAPS

-----------------------------------------------------------------------------
\* Unless there was trouble, the session that is asked for is that of the first
\* listed course, and so is the one that was loaded.
Listed ==
    /\ phase \in {"courses", "session", "done"}
    /\ trouble \in BOOLEAN
    /\ phase = "session" /\ ~trouble => id = listed
    /\ phase = "done" /\ ~trouble => manifest.courseId = listed

\* Neither what an answer lacks nor what is filled in changes its course.
LEMMA CourseStays ==
    \A c, omitted : normalizeManifest(Answer(c, omitted)).courseId = c
BY DEF normalizeManifest, Answer

LEMMA TroubleIsFine ==
    ASSUME phase' \in {"courses", "session", "done"}, trouble' = TRUE
    PROVE  Listed'
BY DEF Listed

LEMMA LoadListed == Listed /\ Load => Listed'
<1> SUFFICES ASSUME Listed, Load PROVE Listed'
  OBVIOUS
<1>1. CASE SessionIsComposed
  <2>1. PICK omitted \in Omitted : SessionComposed(Answer(id, omitted))
    BY <1>1 DEF SessionIsComposed
  <2>2. phase = "session" /\ phase' = "done" /\ UNCHANGED <<id, listed, trouble>>
    BY <2>1 DEF SessionComposed, Return
  <2>3. manifest'.courseId = id
    BY <2>1, CourseStays DEF SessionComposed, Return
  <2> QED
    BY <2>2, <2>3 DEF Listed
<1>2. CASE SessionNotFound
  <2>1. phase = "session" /\ phase' = "done" /\ trouble' = (trouble \/ id = listed)
    BY <1>2 DEF SessionNotFound, Return
  <2>2. trouble' = TRUE
    BY <2>1 DEF Listed
  <2> QED
    BY <2>1, <2>2, TroubleIsFine
<1>3. CASE SessionFails
  BY <1>3, TroubleIsFine DEF SessionFails, Return
<1>4. CASE TimeOut
  BY <1>4, TroubleIsFine DEF TimeOut, Return
<1> QED
  BY <1>1, <1>2, <1>3, <1>4 DEF Load

LEMMA NoCourseListed == Listed /\ NoCourse => Listed'
BY TroubleIsFine DEF NoCourse, AskSession

\* The page plays the first course of the list, whatever is edited meanwhile,
\* unless the backend fails, is too slow, or lost the course.
THEOREM ListedCourseIsPlayed == Spec => []PlaysTheListedCourse
<1>1. Init => Listed
  BY DEF Init, InitLoader, Listed
<1>2. Listed /\ [Next]_vars => Listed'
  <2> SUFFICES ASSUME Listed, [Next]_vars PROVE Listed'
    OBVIOUS
  <2>1. CASE UNCHANGED loader
    BY <2>1 DEF Listed, loader
  <2>2. CASE EditTables \/ \E h \in Humidity : Input(h)
    BY <2>1, <2>2 DEF EditTables, Input
  <2>3. CASE ListCourses \/ ListFails
    <3>1. ASSUME NEW c, CoursesListed(c) PROVE Listed'
      BY <3>1 DEF CoursesListed, AskSession, Listed
    <3> QED
      BY <2>3, <3>1, NoCourseListed DEF ListCourses, ListFails
  <2>4. CASE Load
    BY <2>4, LoadListed
  <2>5. CASE Wait
    BY <2>5 DEF Wait, Tick, Listed
  <2>6. CASE UNCHANGED vars
    BY <2>1, <2>6 DEF vars
  <2> QED
    BY <2>2, <2>3, <2>4, <2>5, <2>6 DEF Next
<1>3. Listed => PlaysTheListedCourse
  BY DEF Listed, PlaysTheListedCourse, Loaded
<1> QED
  BY <1>1, <1>2, <1>3, PTL DEF Spec

-----------------------------------------------------------------------------
(* What the page is given is a manifest.                                   *)

LEMMA LayersAreAssets ==
    ASSUME TablesInv, NEW c \in DOMAIN rows, NEW kind
    PROVE  Layers(rows[c], kind) \in Seq(Asset)
<1> DEFINE S == Wanted(rows[c], license, kind)
<1>1. Layers(rows[c], kind) = Sorted(S, rows[c]) /\ Sortable(S, rows[c])
  BY LayersAreSorted
<1>2. S \subseteq Asset
  BY DEF Wanted
<1> HIDE DEF S
<1>3. Cardinality(S) \in Nat /\ Sorted(S, rows[c]) \in [1..Cardinality(S) -> S]
  BY <1>1, SortedIsSorted
<1> QED
  BY <1>1, <1>2, <1>3

LEMMA AssetsAreIntegers ==
    ASSUME NEW assets \in Seq(Asset)
    PROVE  assets \in Seq(Int)
<1>1. assets \in [1..Len(assets) -> Asset] /\ Len(assets) \in Nat
  BY LenProperties
<1>2. assets \in [1..Len(assets) -> Int]
  BY <1>1, TablesAssumption
<1> QED
  BY <1>1, <1>2, SeqDef

LEMMA LayerIsAudioLayer ==
    ASSUME NEW asset \in Int, NEW kind \in LayerKind, NEW baseGain \in Nat,
           NEW gain \in Seq(Nat), NEW reverbWet \in Seq(Nat)
    PROVE  Layer(asset, kind, baseGain, gain, reverbWet) \in AudioLayer
<1> DEFINE curve == [gain |-> gain, reverbWet |-> reverbWet]
           Curve == [gain : Seq(Nat), reverbWet : Seq(Nat)]
<1>1. curve \in Curve
  OBVIOUS
<1> HIDE DEF curve, Curve
<1>2. [assetId |-> asset, kind |-> kind, baseGain |-> baseGain, humidityCurve |-> curve]
         \in [assetId : Int, kind : LayerKind, baseGain : Nat, humidityCurve : Curve]
  BY <1>1
<1> QED
  BY <1>2 DEF Layer, AudioLayer, curve, Curve

LEMMA BackendLayersAreLayers ==
    ASSUME NEW assets \in Seq(Asset)
    PROVE  BackendLayers(assets) \in Seq(AudioLayer)
<1>1. ASSUME NEW a \in Asset
      PROVE  BackendLayer(a) \in AudioLayer
  <2>1. /\ a \in Int /\ "undefined" \in LayerKind /\ BaseGain[a] \in Nat
        /\ GainCurve[a] \in Seq(Nat) /\ ReverbCurve[a] \in Seq(Nat)
    BY TablesAssumption, PlaybackAssumption DEF LayerKind
  <2> QED
    BY <2>1, LayerIsAudioLayer DEF BackendLayer
<1>2. Len(assets) \in Nat /\ \A i \in 1..Len(assets) : assets[i] \in Asset
  OBVIOUS
<1>3. BackendLayers(assets) = [i \in 1..Len(assets) |-> BackendLayer(assets[i])]
  BY DEF BackendLayers
<1> QED
  BY <1>1, <1>2, <1>3

\* Whatever fields the answer lacks, the normalized manifest has them.
LEMMA AnswerIsManifest ==
    ASSUME TablesInv, NEW c \in DOMAIN rows, NEW omitted
    PROVE  normalizeManifest(Answer(c, omitted)) \in Manifest
<1> DEFINE video   == Layers(rows[c], "video_loop")
           music   == BackendLayers(Layers(rows[c], "music"))
           ambient == BackendLayers(Layers(rows[c], "ambient"))
           m       == normalizeManifest(Answer(c, omitted))
<1>1. /\ video \in Seq(Int)
      /\ music \in Seq(AudioLayer)
      /\ ambient \in Seq(AudioLayer)
  <2>1. /\ Layers(rows[c], "video_loop") \in Seq(Asset)
        /\ Layers(rows[c], "music") \in Seq(Asset)
        /\ Layers(rows[c], "ambient") \in Seq(Asset)
    BY LayersAreAssets
  <2>2. Layers(rows[c], "video_loop") \in Seq(Int)
    BY <2>1, AssetsAreIntegers
  <2> QED
    BY <2>1, <2>2, BackendLayersAreLayers
<1>2. c \in Course
  BY DEF TablesInv, TablesOK
<1>3. /\ Compose(c).video = Layers(rows[c], "video_loop")
      /\ Compose(c).music = Layers(rows[c], "music")
      /\ Compose(c).ambient = Layers(rows[c], "ambient")
  BY DEF Compose, Exists
<1>4. PICK v, w, x, h :
         /\ Answer(c, omitted) = [courseId |-> c, video |-> v, music |-> w,
                                  ambient |-> x, humidity |-> h]
         /\ v \in {Missing, video} /\ w \in {Missing, music}
         /\ x \in {Missing, ambient} /\ h \in {Missing, DefaultHumidity}
  BY <1>3, Zenon DEF Answer
<1> HIDE DEF video, music, ambient
<1>5. m = [courseId |-> c, video |-> Or(v, <<>>), music |-> Or(w, <<>>),
           ambient |-> Or(x, <<>>), humidity |-> Or(h, DefaultHumidity)]
  BY <1>4 DEF normalizeManifest, FALLBACK_MANIFEST
<1> HIDE DEF m
<1>6. /\ Or(v, <<>>) \in Seq(Int)
      /\ Or(w, <<>>) \in Seq(AudioLayer)
      /\ Or(x, <<>>) \in Seq(AudioLayer)
  <2>1. <<>> \in Seq(Int) /\ <<>> \in Seq(AudioLayer)
    OBVIOUS
  <2> QED
    BY <1>1, <1>4, <2>1 DEF Or
<1>7. Or(h, DefaultHumidity) \in Humidity
  BY <1>4, PlaybackAssumption DEF Or
<1>8. m \in Manifest
  BY <1>2, <1>5, <1>6, <1>7 DEF Manifest
<1> QED
  BY <1>8 DEF m

LEMMA FallbackIsManifest == FALLBACK_MANIFEST \in Manifest
<1>1. /\ Layer(0, "pad", 800, <<>>, <<0, 600>>) \in AudioLayer
      /\ Layer(0, "rain", 300, <<100, 1000>>, <<>>) \in AudioLayer
      /\ Layer(0, "subway", 500, <<400, 700>>, <<>>) \in AudioLayer
  <2> DEFINE none    == <<>>
             rising  == <<0, 600>>
             rainy   == <<100, 1000>>
             rolling == <<400, 700>>
  <2>1. none \in Seq(Nat) /\ rising \in Seq(Nat) /\ rainy \in Seq(Nat) /\ rolling \in Seq(Nat)
    OBVIOUS
  <2>2. "pad" \in LayerKind /\ "rain" \in LayerKind /\ "subway" \in LayerKind
    BY DEF LayerKind
  <2> HIDE DEF none, rising, rainy, rolling
  <2>3. Layer(0, "pad", 800, none, rising) \in AudioLayer
    BY <2>1, <2>2, LayerIsAudioLayer
  <2>4. Layer(0, "rain", 300, rainy, none) \in AudioLayer
    BY <2>1, <2>2, LayerIsAudioLayer
  <2>5. Layer(0, "subway", 500, rolling, none) \in AudioLayer
    BY <2>1, <2>2, LayerIsAudioLayer
  <2> QED
    BY <2>3, <2>4, <2>5 DEF none, rising, rainy, rolling
<1>2. /\ <<0>> \in Seq(Int)
      /\ FALLBACK_MANIFEST.music \in Seq(AudioLayer)
      /\ FALLBACK_MANIFEST.ambient \in Seq(AudioLayer)
  BY <1>1 DEF FALLBACK_MANIFEST
<1> QED
  BY <1>2, PlaybackAssumption DEF FALLBACK_MANIFEST, Manifest, DefaultCourse

LEMMA AllLayersAreLayers ==
    ASSUME NEW m \in Manifest
    PROVE  AllLayers(m) \in Seq(AudioLayer) /\ m.humidity \in Humidity
BY DEF Manifest, AllLayers

-----------------------------------------------------------------------------
(* The tables, the loader and the page together.                           *)

\* The inductive invariant: what is loaded is a manifest, and from then on there
\* is a page.  TablesInv adds to TablesOK that a course has finitely many rows.
PlaybackInv ==
    /\ TablesInv
    /\ LoaderOK
    /\ Loaded => manifest \in Manifest
    /\ built <=> Loaded

LEMMA PlaybackStart == Init => PlaybackInv
<1> SUFFICES ASSUME Init PROVE PlaybackInv
  OBVIOUS
<1>1. TablesInv
  BY TablesInit DEF Init
<1>2. LoaderOK /\ ~Loaded
  <2>1. timer \in 0..FetchTimeout
    BY LoaderAssumption DEF Init, InitLoader
  <2> QED
    BY <2>1, Zenon DEF Init, InitLoader, LoaderOK, Loaded
<1>3. built <=> Loaded
  BY <1>2 DEF Init, InitControl
<1> QED
  BY <1>1, <1>2, <1>3, Zenon DEF PlaybackInv

\* However the loading ends, a manifest was not there before, and is now.
LEMMA LoadGivesManifest ==
    ASSUME PlaybackInv, Load
    PROVE  /\ ~Loaded /\ phase' = "done" /\ timer' = 0
           /\ trouble' \in BOOLEAN
           /\ manifest' \in Manifest
<1>1. CASE SessionIsComposed
  <2>1. PICK omitted \in Omitted : SessionComposed(Answer(id, omitted))
    BY <1>1 DEF SessionIsComposed
  <2>2. normalizeManifest(Answer(id, omitted)) \in Manifest
    BY <1>1, AnswerIsManifest DEF SessionIsComposed, Exists, PlaybackInv
  <2> QED
    BY <2>1, <2>2 DEF SessionComposed, Return, Loaded, PlaybackInv, LoaderOK
<1>2. CASE SessionNotFound
  <2>1. (trouble \/ id = listed) \in BOOLEAN
    OBVIOUS
  <2> QED
    BY <1>2, <2>1, FallbackIsManifest DEF SessionNotFound, Return, Loaded
<1>3. CASE SessionFails
  BY <1>3, FallbackIsManifest DEF SessionFails, Return, Loaded
<1>4. CASE TimeOut
  BY <1>4, FallbackIsManifest DEF TimeOut, Return
<1> QED
  BY <1>1, <1>2, <1>3, <1>4 DEF Load

LEMMA LoadBoots ==
    ASSUME PlaybackInv, Load
    PROVE  Boot(manifest') /\ ~built /\ built' /\ UNCHANGED tables
<1>1. Boot(manifest') /\ UNCHANGED tables
  BY LoadGivesManifest DEF Load
<1> QED
  BY <1>1, LoadGivesManifest DEF Boot, Build, PlaybackInv

LEMMA TablesInvStays ==
    ASSUME TablesInv, EditTables \/ UNCHANGED tables
    PROVE  TablesInv'
<1>1. CASE UNCHANGED tables
  BY <1>1 DEF TablesInv, TablesOK, tables
<1>2. CASE EditTables
  <2>1. Edit
    BY <1>2 DEF EditTables, Edit, EditCourse
  <2> QED
    BY <2>1, EditOfTables
<1> QED
  BY <1>1, <1>2

LEMMA PlaybackStep == PlaybackInv /\ [Next]_vars => PlaybackInv'
<1> SUFFICES ASSUME PlaybackInv, [Next]_vars PROVE PlaybackInv'
  OBVIOUS
<1>1. ASSUME UNCHANGED <<loader, control>>, TablesInv' PROVE PlaybackInv'
  BY <1>1 DEF PlaybackInv, LoaderOK, Loaded, loader, control
<1>2. ASSUME ~Loaded, ~Loaded', LoaderOK', UNCHANGED <<tables, control>>
      PROVE  PlaybackInv'
  BY <1>2, TablesInvStays DEF PlaybackInv, control
<1>3. CASE EditTables
  BY <1>1, <1>3, TablesInvStays DEF EditTables, PlaybackInv
<1>4. CASE ListCourses \/ ListFails
  <2>1. ASSUME NEW course, AskSession(course), trouble' \in BOOLEAN
        PROVE  ~Loaded /\ ~Loaded' /\ LoaderOK'
    BY <2>1 DEF AskSession, Loaded, LoaderOK, PlaybackInv
  <2>2. PICK course : AskSession(course) /\ trouble' \in BOOLEAN
    BY <1>4 DEF ListCourses, ListFails, CoursesListed, NoCourse, PlaybackInv, LoaderOK
  <2>3. UNCHANGED <<tables, control>>
    BY <1>4 DEF ListCourses, ListFails
  <2> QED
    BY <1>2, <2>1, <2>2, <2>3
<1>5. CASE Load
  <2>1. LoaderOK' /\ Loaded'
    BY <1>5, LoadGivesManifest, LoaderAssumption, MissingAssumption DEF LoaderOK, Loaded
  <2> QED
    BY <1>5, <2>1, LoadGivesManifest, LoadBoots, TablesInvStays DEF PlaybackInv
<1>6. CASE Wait
  <2>1. ~Loaded /\ ~Loaded' /\ LoaderOK'
    BY <1>6, LoaderAssumption DEF Wait, Tick, Loaded, LoaderOK, PlaybackInv
  <2> QED
    BY <1>2, <1>6, <2>1 DEF Wait
<1>7. CASE \E h \in Humidity : Input(h)
  <2>1. UNCHANGED <<tables, loader, built>>
    BY <1>7 DEF Input, apply
  <2> QED
    BY <2>1, TablesInvStays DEF PlaybackInv, LoaderOK, Loaded, loader
<1>8. CASE UNCHANGED vars
  BY <1>1, <1>8, TablesInvStays DEF vars, PlaybackInv
<1> QED
  BY <1>3, <1>4, <1>5, <1>6, <1>7, <1>8 DEF Next

THEOREM PlaybackStays == Spec => []PlaybackInv
BY PlaybackStart, PlaybackStep, PTL DEF Spec

\* The page is built as soon as there is a manifest, whichever of the four ways
\* the loading ended in.
THEOREM PlaybackTypeCorrect == Spec => []PlaybackOK
<1>1. PlaybackInv => PlaybackOK
  BY DEF PlaybackInv, PlaybackOK, TablesInv
<1> QED
  BY <1>1, PlaybackStays, PTL

\* For any courses, assets, kinds and edits, the manifest that compose returns
\* holds exactly the licensed assets of the course, each once, in order.
THEOREM ManifestStaysExact == Spec => []ManifestIsExact
<1>1. PlaybackInv => ManifestIsExact
  BY ManifestsAreExact DEF PlaybackInv
<1> QED
  BY <1>1, PlaybackStays, PTL

\* No edit moves the layers of an asset that it does not touch.
THEOREM EditsStayLocal == Spec => EditsAreLocal
<1>1. PlaybackInv /\ PlaybackInv' => [tables' # tables => UntouchedKeepTheirOrder]_tables
  BY EditsMoveNothingElse DEF PlaybackInv
<1> QED
  BY <1>1, PlaybackStays, PTL DEF EditsAreLocal

\* Refinement: what the page does with the manifest is what HumidityController
\* does with some layers.  Boot is its BuildOnce, whose layers are those of the
\* manifest; loading and editing stutter.
THEOREM LoadingBuildsOnePage == Spec => DrivesOnePage
<1>1. Init => InitControl
  BY DEF Init
<1>2. PlaybackInv /\ [Next]_vars => [ControlNext]_control
  <2> SUFFICES ASSUME PlaybackInv, [Next]_vars PROVE [ControlNext]_control
    OBVIOUS
  <2>1. CASE Load
    <3>1. manifest' \in Manifest /\ Boot(manifest') /\ ~built
      BY <2>1, LoadGivesManifest, LoadBoots
    <3>2. AllLayers(manifest') \in Seq(AudioLayer) /\ manifest'.humidity \in Humidity
      BY <3>1, AllLayersAreLayers
    <3>3. Build(AllLayers(manifest'), manifest'.humidity)
      BY <3>1 DEF Boot
    <3>4. played' = AllLayers(manifest')
      BY <3>3 DEF Build
    <3> QED
      BY <3>1, <3>2, <3>3, <3>4 DEF ControlNext, BuildOnce
  <2>2. CASE \E h \in Humidity : Input(h)
    BY <2>2 DEF Input, ControlNext
  <2>3. CASE UNCHANGED control
    BY <2>3
  <2>4. CASE EditTables \/ ListCourses \/ ListFails \/ Wait \/ UNCHANGED vars
    BY <2>4 DEF EditTables, ListCourses, ListFails, Wait, vars
  <2> QED
    BY <2>1, <2>2, <2>3, <2>4 DEF Next
<1> QED
  BY <1>1, <1>2, PlaybackStays, PTL DEF Spec, DrivesOnePage, ControlSpec

\* Hence what is proved of the controller for any layers holds of the page that
\* plays what the backend composed: gains and reverb stay in the ranges of its
\* curves, every gain belongs to its layer, the direct sound does not fall below
\* the floor, and more humidity is never less.
THEOREM PageIsDriven ==
    Spec => /\ []ControlOK
            /\ []GainsFollowTheirLayer
            /\ []DirectSoundRemains
            /\ WetterIsNeverDrier
BY LoadingBuildsOnePage, TypeCorrect, GainsAreTheirLayers, DirectSoundStays,
   WetterStaysWetter, PTL DEF DrivesOnePage

=============================================================================
