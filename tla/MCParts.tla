------------------------------- MODULE MCParts -------------------------------
(* The parts that share no state with the rest of the application or with  *)
(* each other, checked side by side: a behaviour is one of a single part.  *)
EXTENDS BufferPhase, PlaybackHealth, TimelineRecovery, LiveSync, DeliveryTelemetry,
        RecoveryEdge, SupervisorHost, Viewing, SuperResolution, WindowModes, PlaybackPower,
        Connection, Catalogue, UpdateCheck, FileWrite, Preferences, LogRing, SessionLog

VARIABLE part         \* the part whose behaviour this is

\* How far playback and the cache move in a sample of timeline recovery.
MCMoves      == {-2, 1}
MCCacheMoves == {-2, 1, 2}

\* A settings file cut short, with a line twice, and with values out of range.
MCDamagedFiles ==
  {<< >>, <<Line("volume", Number(3)), Line("volume", Word("loud"))>>,
   <<Line("volume", Number(0)), Line("minimal_mode", Number(0)), Line("theme", Number(1))>>}

\* Lists with a category twice, and with entries that have no id or whose
\* category is not declared.
MCEntry(id, category, hit) == [id |-> id, category |-> category, hit |-> hit]
MCCategory(id, hit)        == MCEntry(id, "", hit)
MCCategoryLists ==
  {<< >>, <<MCCategory("a", FALSE), MCCategory("b", TRUE)>>,
   <<MCCategory("b", FALSE), MCCategory("b", TRUE)>>,
   <<MCCategory("", FALSE), MCCategory("a", FALSE)>>}
MCChannelLists ==
  {<<MCEntry("1", "b", FALSE), MCEntry("2", "a", TRUE)>>,
   <<MCEntry("2", "b", TRUE), MCEntry("3", "c", FALSE)>>,
   <<MCEntry("", "a", TRUE), MCEntry("4", "", FALSE)>>}

\* Every tag of up to four symbols, and a few that are longer.
MCTags ==
  UNION {[1 .. n -> {Vee, Dot, Other, 1, 2}] : n \in 0 .. 4}
  \cup {<<2, Dot, 1, Dot, 1>>, <<1, Dot, 2, Dot, 1>>, <<Vee, 1, Dot, 1, Dot, 2>>,
        <<1, Dot, 3, Dot, 2, Other>>, <<1, Dot, 1, Dot, 1, Dot, 2>>}
MCCurrent == <<1, 2, 1>>

playbackPartVars == <<bufferVars, healthVars, timelineVars, syncVars, deliveryVars, edgeVars>>
shellPartVars    == <<hostVars, viewVars, srVars, modeVars, powerVars>>
networkPartVars  == <<connectVars, catalogueVars, updateVars>>
filePartVars     == <<writeVars, prefVars, ringVars, sessionLogVars>>
allVars      == <<playbackPartVars, shellPartVars, networkPartVars, filePartVars>>

\* What varies at the start of one part is fixed in the others.
Init ==
  /\ part \in {"Buffer", "Health", "Timeline", "LiveSync", "Delivery", "Edge", "Host", "Viewing",
              "SuperResolution", "Modes", "Power", "Connection", "Catalogue", "Update", "File",
              "Preferences", "Ring", "SessionLog"}
  /\ BufferInit /\ HealthInit /\ SyncInit /\ DeliveryInit /\ EdgeInit /\ HostInit
  /\ PowerInit /\ ConnectInit /\ CatalogueInit /\ SessionLogInit
  /\ TimelineInit /\ (part # "Timeline" => gap = 0)
  /\ ViewInit /\ (part # "Viewing" => direct_media = FALSE)
  /\ SrInit /\ (part # "SuperResolution" => vsr.window = 2)
  /\ ModesInit /\ (part # "Modes" => minimal_mode = FALSE)
  /\ UpdateInit /\ (part # "Update" => tag = << >>)
  /\ FileInit /\ (part # "File" => saved = Absent)
  /\ PrefsInit /\ (part # "Preferences" => file = << >>)
  /\ RingInit /\ (part # "Ring" => capacity = 0)

Playback == UNCHANGED <<shellPartVars, networkPartVars, filePartVars>>
Shell    == UNCHANGED <<playbackPartVars, networkPartVars, filePartVars>>
Network  == UNCHANGED <<playbackPartVars, shellPartVars, filePartVars>>
Files    == UNCHANGED <<playbackPartVars, shellPartVars, networkPartVars>>

NotBuffer     == Playback /\ UNCHANGED <<healthVars, timelineVars, syncVars, deliveryVars, edgeVars>>
NotHealth     == Playback /\ UNCHANGED <<bufferVars, timelineVars, syncVars, deliveryVars, edgeVars>>
NotTimeline   == Playback /\ UNCHANGED <<bufferVars, healthVars, syncVars, deliveryVars, edgeVars>>
NotLiveSync   == Playback /\ UNCHANGED <<bufferVars, healthVars, timelineVars, deliveryVars, edgeVars>>
NotDelivery   == Playback /\ UNCHANGED <<bufferVars, healthVars, timelineVars, syncVars, edgeVars>>
NotEdge       == Playback /\ UNCHANGED <<bufferVars, healthVars, timelineVars, syncVars, deliveryVars>>
NotHost       == Shell /\ UNCHANGED <<viewVars, srVars, modeVars, powerVars>>
NotViewing    == Shell /\ UNCHANGED <<hostVars, srVars, modeVars, powerVars>>
NotSr         == Shell /\ UNCHANGED <<hostVars, viewVars, modeVars, powerVars>>
NotModes      == Shell /\ UNCHANGED <<hostVars, viewVars, srVars, powerVars>>
NotPower      == Shell /\ UNCHANGED <<hostVars, viewVars, srVars, modeVars>>
NotConnection == Network /\ UNCHANGED <<catalogueVars, updateVars>>
NotCatalogue  == Network /\ UNCHANGED <<connectVars, updateVars>>
NotUpdate     == Network /\ UNCHANGED <<connectVars, catalogueVars>>
NotFile       == Files /\ UNCHANGED <<prefVars, ringVars, sessionLogVars>>
NotPrefs      == Files /\ UNCHANGED <<writeVars, ringVars, sessionLogVars>>
NotRing       == Files /\ UNCHANGED <<writeVars, prefVars, sessionLogVars>>
NotSessionLog == Files /\ UNCHANGED <<writeVars, prefVars, ringVars>>

InPower(action) == part = "Power" /\ action /\ NotPower /\ UNCHANGED part

Next ==
  \/ part = "Buffer" /\ BufferNext /\ NotBuffer /\ UNCHANGED part
  \/ part = "Health" /\ HealthNext /\ NotHealth /\ UNCHANGED part
  \/ part = "Timeline" /\ TimelineNext /\ NotTimeline /\ UNCHANGED part
  \/ part = "LiveSync" /\ SyncNext /\ NotLiveSync /\ UNCHANGED part
  \/ part = "Delivery" /\ DeliveryNext /\ NotDelivery /\ UNCHANGED part
  \/ part = "Edge" /\ EdgeNext /\ NotEdge /\ UNCHANGED part
  \/ part = "Host" /\ HostNext /\ NotHost /\ UNCHANGED part
  \/ part = "Viewing" /\ ViewNext /\ NotViewing /\ UNCHANGED part
  \/ part = "SuperResolution" /\ SrNext /\ NotSr /\ UNCHANGED part
  \/ part = "Modes" /\ ModesNext /\ NotModes /\ UNCHANGED part
  \/ InPower(PowerNext)
  \/ part = "Connection" /\ ConnectNext /\ NotConnection /\ UNCHANGED part
  \/ part = "Catalogue" /\ CatalogueNext /\ NotCatalogue /\ UNCHANGED part
  \/ part = "Update" /\ UpdateNext /\ NotUpdate /\ UNCHANGED part
  \/ part = "File" /\ FileNext /\ NotFile /\ UNCHANGED part
  \/ part = "Preferences" /\ PrefsNext /\ NotPrefs /\ UNCHANGED part
  \/ part = "Ring" /\ RingNext /\ NotRing /\ UNCHANGED part
  \/ part = "SessionLog" /\ SessionLogNext /\ NotSessionLog /\ UNCHANGED part

\* The fairness of PowerFairSpec.
Spec ==
  /\ Init /\ [][Next]_<<allVars, part>>
  /\ WF_allVars(InPower(PowerTurn)) /\ WF_allVars(InPower(PowerTick))

(* The types of the parts, and what they say beyond: a gate belongs to the *)
(* player's target, one health clock runs at most, a handle holds the      *)
(* power requests, no file handle leaks, a worker runs exactly while the   *)
(* screen says Connecting, a running silence began after the last data     *)
(* that a sample could show, a filter counts as applied only while it is   *)
(* asked for, every entry of the index has its key, the answer about       *)
(* updates is in one place, and a ring has wrapped only when it is full.   *)
PartsTypeOK ==
  /\ BufferTypeOK /\ HealthTypeOK /\ TimelineTypeOK /\ SyncTypeOK /\ DeliveryTypeOK /\ EdgeTypeOK
  /\ HostTypeOK /\ ViewTypeOK /\ SrTypeOK /\ ModesTypeOK /\ PowerTypeOK
  /\ ConnectTypeOK /\ CatalogueTypeOK /\ UpdateTypeOK
  /\ FileTypeOK /\ PrefsTypeOK /\ RingTypeOK /\ SessionLogTypeOK
=============================================================================
