------------------------------- MODULE MCLive -------------------------------
(***************************************************************************)
(* What eventually happens, under the fairness each component states: a    *)
(* download whose peer is honest completes ("session"), two downloads that *)
(* share one permit come to an outcome ("hunt"), and a signal ends the     *)
(* process although a reconcile runs or a client keeps a request open      *)
(* ("agent" when only the port changes, "restart" when only the control    *)
(* endpoint does).  A behaviour plays one scene.                           *)
(***************************************************************************)
EXTENDS DownloadSession, SourceHunt, AgentRuntime, TLC

CONSTANTS Scenes, d1, d2
VARIABLE scene

MCPieces == 0 .. 1
MCPieceLen == 0 :> 3 @@ 1 :> 1
MCWindows == {<<1, 1>>, <<3, 2>>}

MCShSources ==
    {[ep |-> "p", low |-> FALSE, opt |-> "may"], [ep |-> "q", low |-> TRUE, opt |-> "none"],
     [ep |-> "l", low |-> FALSE, opt |-> "must"]}

MCFirst == [ctl |-> 1, port |-> 1]
MCConfigs == {MCFirst, [ctl |-> 1, port |-> 2], [ctl |-> 2, port |-> 1]}

MCInit == scene \in Scenes /\ DInit /\ ShInit /\ ArInit

\* The second download starts with a source and a size: it is there to wait
\* for the permit and to use it.
HuntStep ==
    /\ ShNext
    /\ shTask'["h2"] # "idle" => shHunt'["h2"].given # {} /\ shHunt'["h2"].sized

AgentStep ==
    /\ ArNext /\ arIp' = 1
    /\ scene = "agent" => arConf'.ctl = 1
    /\ scene = "restart" => arConf'.port = 1

MCNext ==
    /\ UNCHANGED scene
    /\ \/ scene = "session" /\ DNext /\ UNCHANGED <<shVars, arVars>>
       \/ scene = "hunt" /\ HuntStep /\ UNCHANGED <<dvars, arVars>>
       \/ scene \in {"agent", "restart"} /\ AgentStep /\ UNCHANGED <<dvars, shVars>>

\* The components' fairness (Fairness, ShFairness, ArFairness), each in the
\* scene in which the component moves.
Session(A) == scene = "session" /\ A
Hunt(A) == scene = "hunt" /\ A
Agent(A) == scene \in {"agent", "restart"} /\ A

MCFairness ==
    /\ WF_dvars(Session(TaskEnsure)) /\ WF_dvars(Session(TaskReclaim))
    /\ WF_dvars(Session(TaskEnd))
    /\ \A s \in Direct : /\ WF_dvars(Session(StartDirect(s) \/ DialFails(s)))
                         /\ WF_dvars(Session(AbortDirect(s)))
    /\ \A s \in Sessions : /\ WF_dvars(Session(SessionStep(s)))
                           /\ WF_dvars(Session(RankLapses(s) \/ TimesOut(s)))
    /\ \A s \in Honest :
          /\ WF_dvars(Session(Startup(s)))
          /\ WF_dvars(Session(\E i \in DOMAIN sess[s].pending : Receive(s, i, "good")))
    /\ \A h \in ShHashes : WF_shVars(Hunt(ShWork(h)))
    /\ WF_arVars(Agent(ArMain))
    /\ \A a \in Actors : WF_arVars(Agent(ArActor(a)))

MCSpec == MCInit /\ [][MCNext]_<<dvars, shVars, arVars, scene>> /\ MCFairness

\* DownloadSession: an honest peer that keeps its connection gets the file
\* completed, beside a session that is not honest, may never end its startup and
\* ends at any point once its peer sends nothing but data.
SessionCompletes == (scene = "session") => DownloadCompletes
=============================================================================
