------------------------------ MODULE MCPlayback ------------------------------
(* Playback with a course of at most one video, two music tracks, an ambient  *)
(* layer and an asset of a kind that is not used.  The reverb range comes     *)
(* from the first of the two tracks that has one, or is the built-in one.     *)
EXTENDS Playback

MCKind == [a \in Asset |->
             CASE a = 1 -> "video_loop"
               [] a = 4 -> "ambient"
               [] a = 5 -> "other"
               [] OTHER -> "music"]

\* 1000 cos(t * 15 degrees)
MCCosine == [t \in 0..6 |-> <<1000, 966, 866, 707, 500, 259, 0>>[t + 1]]

MCBaseGain == [a \in Asset |-> 200 * a]
MCGainCurve == [a \in Asset |->
                  CASE a = 3 -> <<700, 400>> [] a = 4 -> <<100, 1000>> [] OTHER -> <<>>]
MCReverbCurve == [a \in Asset |->
                    CASE a = 2 -> <<300>> [] a = 3 -> <<200, 500>> [] OTHER -> <<>>]
MCOmitted == {{}, {"video", "audio", "humidity"}}
=============================================================================
