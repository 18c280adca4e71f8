---------------------------- MODULE MCSupervisor ----------------------------
(* The reducer with the five attempts and the two short reopens of the     *)
(* shipped policy; delays, window and budget are scaled down.              *)
EXTENDS SupervisorEpisode

MCAttemptDelays == <<1, 1, 1, 2, 2>>
=============================================================================
