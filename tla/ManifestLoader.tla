---------------------------- MODULE ManifestLoader ----------------------------
(***************************************************************************)
(* loadManifest of frontend/src/api/manifest.ts: the course list, then the *)
(* session of its first course, both under one abort timer, and the        *)
(* built-in manifest if anything fails.                                    *)
(*                                                                         *)
(* A layer's url and the loop points of a video are carried along unused,  *)
(* and so is the grade: GLStage starts with it, but the constructor of     *)
(* HumidityController sets all six uniforms before the first frame.        *)
(***************************************************************************)
EXTENDS Integers, Sequences

CONSTANTS FetchTimeout,     \* FETCH_TIMEOUT_MS, in ticks
          DefaultHumidity,  \* 0.5, the default of frontend and backend
          Missing           \* a field that is not in the answer

ASSUME LoaderAssumption == FetchTimeout \in Nat \ {0}

VARIABLES phase,     \* the await at which loadManifest is
          timer,     \* ticks until the abort
          id,        \* the course whose session is asked for
          manifest,  \* what was loaded, Missing until then
          listed,    \* history: the first course of the list
          trouble    \* history: the backend did not answer, or has no course

loader == <<phase, timer, id, manifest, listed, trouble>>

Loaded == phase = "done"

DefaultCourse == 1

Layer(asset, kind, baseGain, gain, reverbWet) ==
    [assetId |-> asset, kind |-> kind, baseGain |-> baseGain,
     humidityCurve |-> [gain |-> gain, reverbWet |-> reverbWet]]

FALLBACK_MANIFEST ==
    [courseId |-> 1,
     video    |-> <<0>>,
     music    |-> <<Layer(0, "pad", 800, <<>>, <<0, 600>>)>>,
     ambient  |-> <<Layer(0, "rain", 300, <<100, 1000>>, <<>>),
                    Layer(0, "subway", 500, <<400, 700>>, <<>>)>>,
     humidity |-> DefaultHumidity]

\* value ?? default
Or(value, default) == IF value = Missing THEN default ELSE value

normalizeManifest(m) ==
    [courseId |-> m.courseId,
     video    |-> Or(m.video, <<>>),
     music    |-> Or(m.music, <<>>),
     ambient  |-> Or(m.ambient, <<>>),
     humidity |-> Or(m.humidity, FALLBACK_MANIFEST.humidity)]

-----------------------------------------------------------------------------
InitLoader ==
    /\ phase = "courses"
    /\ timer = FetchTimeout
    /\ id = DefaultCourse
    /\ manifest = Missing
    /\ listed = Missing
    /\ trouble = FALSE

\* Mutant of AskSession: the list is not looked at.
AskSession_Default(course) ==
    /\ phase = "courses"
    /\ phase' = "session"
    /\ id' = DefaultCourse
    /\ UNCHANGED <<timer, manifest>>

AskSession(course) ==
    /\ phase = "courses"
    /\ phase' = "session"
    /\ id' = course
    /\ UNCHANGED <<timer, manifest>>

CoursesListed(course) ==
    /\ AskSession(course)
    /\ listed' = course
    /\ UNCHANGED trouble

\* page.content[0]?.id ?? 1, or the catch of resolveDefaultCourseId.
NoCourse ==
    /\ AskSession(DefaultCourse)
    /\ trouble' = TRUE
    /\ UNCHANGED listed

\* finally: clearTimeout
Return(m) ==
    /\ phase' = "done"
    /\ timer' = 0
    /\ manifest' = m

SessionComposed(m) ==
    /\ phase = "session"
    /\ Return(normalizeManifest(m))
    /\ UNCHANGED <<id, listed, trouble>>

\* 404: of the listed course only if it was deleted since.
SessionNotFound ==
    /\ phase = "session"
    /\ Return(FALLBACK_MANIFEST)
    /\ trouble' = (trouble \/ id = listed)
    /\ UNCHANGED <<id, listed>>

\* Any other status, a broken connection, or a body that does not parse.
SessionFails ==
    /\ phase = "session"
    /\ Return(FALLBACK_MANIFEST)
    /\ trouble' = TRUE
    /\ UNCHANGED <<id, listed>>

\* Mutant of TimeOut: the signal is passed to the first request only.
TimeOut_ListOnly ==
    /\ phase = "courses"
    /\ timer = 0
    /\ AskSession(DefaultCourse)
    /\ trouble' = TRUE
    /\ UNCHANGED listed

\* Mutant of TimeOut: the timer is not cleared, and its end replaces the manifest.
TimeOut_Later ==
    /\ timer = 0
    /\ Return(FALLBACK_MANIFEST)
    /\ trouble' = TRUE
    /\ UNCHANGED <<id, listed>>

\* Aborting the list makes resolveDefaultCourseId return 1, and the request
\* for its session fails at once: the signal is aborted already.
TimeOut ==
    /\ ~Loaded
    /\ timer = 0
    /\ Return(FALLBACK_MANIFEST)
    /\ trouble' = TRUE
    /\ UNCHANGED <<id, listed>>

Tick ==
    /\ ~Loaded
    /\ timer > 0
    /\ timer' = timer - 1
    /\ UNCHANGED <<phase, id, manifest, listed, trouble>>

\* The browser's clock goes on and its timer fires; no server has to answer.
LoaderFairness == WF_loader(Tick) /\ WF_loader(TimeOut)

-----------------------------------------------------------------------------
LoaderOK ==
    /\ phase \in {"courses", "session", "done"}
    /\ timer \in 0..FetchTimeout
    /\ trouble \in BOOLEAN
    /\ (manifest = Missing) <=> ~Loaded

\* manifest.ts:112: the page gets a manifest whatever the backend does, even if
\* it accepts a request and never answers.
LoadEnds == <>Loaded

\* The page plays the first course of the list; the built-in manifest is for a
\* backend that fails, is too slow, or has no course (manifest.ts:11, 67, 112).
PlaysTheListedCourse == Loaded /\ ~trouble => manifest.courseId = listed
=============================================================================
