------------------------------- MODULE MCWebview -------------------------------
(* Parts of the webview and the shell, and the rosters of a watch party, one *)
(* at a time: `part` is the one that moves.  They share no state, so what a  *)
(* property of one of them says holds of all of them running together.  The  *)
(* parts with a liveness property are in MCSettles.                          *)
EXTENDS DetailPage, ResumeOffsets, NativePlayer, PlaybackQueue, PlayerGeometry,
        Rosters

CONSTANTS Parts, show, season, e1, e2, e3, movie, s1

MCOnlySeason == show :> season
MCSeasons == <<<<e1, e2>>, <<e3>>>>
MCPlayLists == {<<movie, e2, e1>>, <<movie, movie, e3>>}

VARIABLE part

vars == <<part, detailVars, resumeVars, playerVars, queueVars, geometryVars,
          rosterVars>>

Init ==
  /\ part \in Parts
  /\ DetailInit /\ ResumeInit /\ PlayerInit /\ QueueInit /\ GeometryInit
  /\ RostersInit
  /\ part # "player" => ~linux /\ builder = None
  /\ part # "queue" => autoPlay
  /\ part # "geometry" => winSize = s1
  /\ part # "rosters" => ~watching[Owner]

Next ==
  \/ /\ part = "detail" /\ DetailNext
     /\ UNCHANGED <<part, resumeVars, playerVars, queueVars, geometryVars,
                    rosterVars>>
  \/ /\ part = "resume" /\ ResumeNext
     /\ UNCHANGED <<part, detailVars, playerVars, queueVars, geometryVars,
                    rosterVars>>
  \/ /\ part = "player" /\ PlayerNext
     /\ UNCHANGED <<part, detailVars, resumeVars, queueVars, geometryVars,
                    rosterVars>>
  \/ /\ part = "queue" /\ QueueNext
     /\ UNCHANGED <<part, detailVars, resumeVars, playerVars, geometryVars,
                    rosterVars>>
  \/ /\ part = "geometry" /\ GeometryNext
     /\ UNCHANGED <<part, detailVars, resumeVars, playerVars, queueVars,
                    rosterVars>>
  \/ /\ part = "rosters" /\ RostersNext
     /\ UNCHANGED <<part, detailVars, resumeVars, playerVars, queueVars,
                    geometryVars>>

Spec == Init /\ [][Next]_vars

\* What the part that moves holds is what its module says.
WebviewTypeOK ==
  /\ part = "detail" => DetailTypeOK
  /\ part = "resume" => ResumeTypeOK
  /\ part = "player" => PlayerTypeOK
  /\ part = "queue" => QueueTypeOK
  /\ part = "geometry" => GeometryTypeOK
  /\ part = "rosters" => RostersTypeOK
=============================================================================
