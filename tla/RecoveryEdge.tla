---------------------------- MODULE RecoveryEdge ----------------------------
(***************************************************************************)
(* Recovery-edge telemetry (player/recovery_edge_telemetry.cpp and its     *)
(* calls in player/playback_session.cpp): a reopening of a continuous      *)
(* stream anchors where playback and the cache were, and the samples of    *)
(* the recovered load are compared with it for a while.  A load tells its  *)
(* times from its own start, so two loads compare only in the source's.    *)
(*                                                                         *)
(* Positions here are the source's; what the code reads of a load is the   *)
(* position less the load's start.  The player reads a load's own values;  *)
(* the clock is steady, so no sample is older than the anchor.             *)
(***************************************************************************)
EXTENDS Integers

CONSTANTS
  CaptureWindow,      \* kRecoveryEdgeCaptureWindow
  Places,             \* bound: positions in the source
  MaxEdgeLoads,       \* bound: loads of a channel
  MaxCompared         \* bound: complete reports of a recovery

ASSUME RecoveryEdgeAssumption ==
  /\ {CaptureWindow, MaxEdgeLoads} \subseteq Nat \ {0}
  /\ Places \subseteq Nat /\ MaxCompared \in Nat

VARIABLES
  active,             \* the load that plays: channel (its generation, of
                      \* which two in succession are told apart), load,
                      \* start, and raw, a continuous stream not stopped
  commanded,          \* the newest load a recovery asked for
  anchor,             \* anchor_ and its age, at most one member
  pause_seen,         \* pause_seen_since_anchor_
  readable_samples,   \* readable_samples_
  report,             \* the report of the last step, at most one member
  origin,             \* history: where playback and cache were at the anchor
  pauses,             \* history: a pause was seen at the anchor or since
  compared            \* history: complete reports since the anchor

observerVars == <<anchor, pause_seen, readable_samples>>
edgeHistory  == <<origin, pauses, compared>>
edgeVars     == <<active, commanded, observerVars, report, edgeHistory>>

\* What a sample of the active load finds: positions, a pause, what can be read.
EdgeSamples ==
  {s \in [playback : Places, cache : Places, paused : BOOLEAN, times : BOOLEAN, start : BOOLEAN] :
     s.playback <= s.cache /\ (s.start => s.times)}

EdgeInit ==
  /\ active = [channel |-> 0, load |-> 1, start |-> 0, raw |-> TRUE] /\ commanded = 1
  /\ anchor = {} /\ pause_seen = FALSE /\ readable_samples = 0 /\ report = {}
  /\ origin = [playback |-> 0, cache |-> 0] /\ pauses = FALSE /\ compared = 0

-----------------------------------------------------------------------------
(* The observer.                                                           *)

\* A value that may not be readable.
Readable(can, value) == IF can THEN {value} ELSE {}

Readings(s) ==
  [times |-> Readable(s.times, [playback |-> s.playback - active.start,
                                cache |-> s.cache - active.start]),
   start |-> Readable(s.start, active.start)]

Unread == [times |-> {}, start |-> {}]

ResetObserver == anchor' = {} /\ pause_seen' = FALSE /\ readable_samples' = 0

\* Mutant: the samples of one recovery are counted on in the next.
CountsOn(load, readings, paused) ==
  /\ anchor' = {[channel |-> active.channel, recovered |-> load, age |-> 0,
                 times |-> readings.times, start |-> readings.start]}
  /\ pause_seen' = paused /\ UNCHANGED readable_samples

BeginRecovery(load, readings, paused) ==
  /\ anchor' = {[channel |-> active.channel, recovered |-> load, age |-> 0,
                 times |-> readings.times, start |-> readings.start]}
  /\ pause_seen' = paused /\ readable_samples' = 0

\* Mutant: the times of two loads are compared as they are told.
RebaseForgotten(from, to) == 0
Rebase(from, to) == to - from

\* A report on the load of anchor a; its figures, and the truth about them.
ReportOn(a, status, figures, truth) ==
  [channel |-> a.channel, recovered |-> a.recovered, age |-> a.age, status |-> status,
   pause_seen |-> pause_seen', index |-> readable_samples', figures |-> figures, truth |-> truth]

Residuals(a, s) ==
  LET then  == CHOOSE t \in a.times : TRUE
      now   == CHOOSE t \in Readings(s).times : TRUE
      moved == Rebase(CHOOSE b \in a.start : TRUE, active.start)
  IN  [playback |-> now.playback + moved - then.playback - a.age,
       cache    |-> now.cache + moved - then.cache - a.age]

\* How far the two fell behind the wall clock since the anchor.
FellBehind(a, s) == [playback |-> s.playback - origin.playback - a.age,
                     cache    |-> s.cache - origin.cache - a.age]

\* observe, of the active load.
ObserveEdge(s) ==
  \E a \in anchor :
    IF a.age > CaptureWindow THEN ResetObserver /\ report' = {}
    ELSE IF active.channel # a.channel \/ active.load # a.recovered
    THEN UNCHANGED observerVars /\ report' = {ReportOn(a, "Stale", {}, {})}
    ELSE /\ pause_seen' = (pause_seen \/ s.paused) /\ UNCHANGED anchor
         /\ LET complete == {} \notin {a.times, a.start, Readings(s).times, Readings(s).start}
            IN  /\ readable_samples' = readable_samples + (IF complete THEN 1 ELSE 0)
                /\ report' = {IF complete
                              THEN ReportOn(a, "Complete", {Residuals(a, s)}, {FellBehind(a, s)})
                              ELSE ReportOn(a, "Missing", {}, {})}

-----------------------------------------------------------------------------
(* The session.                                                            *)

\* Mutant: a new channel leaves the observer to its window.
ChannelKeepsAnchor(start, raw) ==
  /\ active' = [channel |-> 1 - active.channel, load |-> 1, start |-> start, raw |-> raw]
  /\ commanded' = 1 /\ report' = {}
  /\ UNCHANGED <<observerVars, edgeHistory>>

\* begin_channel and load_started.
EdgeChannel(start, raw) ==
  /\ active' = [channel |-> 1 - active.channel, load |-> 1, start |-> start, raw |-> raw]
  /\ commanded' = 1 /\ report' = {}
  /\ ResetObserver /\ UNCHANGED edgeHistory

EdgeStop ==
  /\ active' = [active EXCEPT !.raw = FALSE] /\ report' = {}
  /\ ResetObserver /\ UNCHANGED <<commanded, edgeHistory>>

\* The load a recovery asked for is issued, over another transport maybe, or
\* nothing is.
Issued(start) ==
  \/ \E raw \in {active.raw, FALSE} :
       active' = [active EXCEPT !.load = commanded', !.start = start, !.raw = raw]
  \/ UNCHANGED active

\* execute_recovery of a reopening: s is the last sample, of which nothing is
\* read when the active load is not the supervisor's own.
AnchorAt(s, known) ==
  /\ BeginRecovery(commanded', IF known THEN Readings(s) ELSE Unread, known /\ s.paused)
  /\ origin' = [playback |-> s.playback, cache |-> s.cache]
  /\ pauses' = (known /\ s.paused) /\ compared' = 0

EdgeReopen(start) ==
  /\ commanded < MaxEdgeLoads /\ commanded' = commanded + 1 /\ report' = {}
  /\ IF active.raw
     THEN \/ \E s \in EdgeSamples : AnchorAt(s, TRUE)
          \/ AnchorAt([playback |-> 0, cache |-> 0, paused |-> FALSE], FALSE)
     ELSE UNCHANGED <<observerVars, edgeHistory>>
  /\ Issued(start)

\* execute_recovery of a recreation: the observer is reset if it succeeds.
EdgeRecreate(start) ==
  /\ commanded < MaxEdgeLoads /\ commanded' = commanded + 1 /\ report' = {}
  /\ Issued(start)
  /\ IF active' = active THEN UNCHANGED observerVars ELSE ResetObserver
  /\ UNCHANGED edgeHistory

\* observe_recovery_edge, at the first frame or a health sample.
EdgeSample(s) ==
  /\ ObserveEdge(s)       \* nothing without an anchor
  /\ LET ofRecovered == \E r \in report' : r.status # "Stale"
     IN  pauses' = (pauses \/ (ofRecovered /\ s.paused))
  /\ compared' = compared + (IF \E r \in report' : r.status = "Complete" THEN 1 ELSE 0)
  /\ UNCHANGED <<active, commanded, origin>>

EdgeTime ==
  /\ \E a \in anchor : a.age <= CaptureWindow
  /\ anchor' = {[a EXCEPT !.age = @ + 1] : a \in anchor} /\ report' = {}
  /\ UNCHANGED <<active, commanded, pause_seen, readable_samples, edgeHistory>>

EdgeNext ==
  \/ EdgeStop \/ EdgeTime
  \/ \E start \in Places :
       \/ EdgeReopen(start) \/ EdgeRecreate(start)
       \/ \E raw \in BOOLEAN : EdgeChannel(start, raw)
  \/ compared < MaxCompared /\ \E s \in EdgeSamples : EdgeSample(s)

EdgeSpec == EdgeInit /\ [][EdgeNext]_edgeVars

-----------------------------------------------------------------------------
(* Properties.                                                             *)

EdgeTypeOK ==
  /\ active.load \in 1 .. commanded /\ commanded \in 1 .. MaxEdgeLoads
  /\ anchor = {} => readable_samples = 0 /\ ~pause_seen

(* A report is of the channel that plays and of one recovery: its pauses   *)
(* and the count of its readable samples are those since the anchor, of    *)
(* the recovered load alone, and its figures are how far playback and the  *)
(* cache really fell behind the wall clock since then, in the source's     *)
(* coordinates, wherever each load's own times begin.                      *)
ReportIsOfItsRecovery ==
  \A r \in report :
    /\ r.channel = active.channel /\ r.age <= CaptureWindow /\ r.pause_seen = pauses
    /\ r.status # "Stale" => r.recovered = active.load
    /\ r.status = "Complete" => r.index = compared /\ r.figures = r.truth
=============================================================================
