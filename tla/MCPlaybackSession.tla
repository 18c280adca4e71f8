-------------------------- MODULE MCPlaybackSession --------------------------
(* The session over a supervisor with a shortened retry policy.            *)
EXTENDS PlaybackSession

MCAttemptDelays == <<1, 1>>
=============================================================================
