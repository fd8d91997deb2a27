------------------------ MODULE AgentServicesProofs ------------------------
(***************************************************************************)
(* Proofs about two services of the agent that share no state, for every   *)
(* value of their constants.                                               *)
(*                                                                         *)
(* The runtime slot.  StoredIsAlive is not inductive: a runtime that is    *)
(* built but not yet stored is about to become the stored one, and nobody  *)
(* else may have stored, stopped or built it too.  ArInv says so of every  *)
(* actor that is between build_runtime and the store, for overlapping      *)
(* reconciles too, and that the slot's mutex is held exactly by the actor  *)
(* inside nat.stop().                                                      *)
(*                                                                         *)
(* The reachability checks.  An agreed port rests on what the reporters of *)
(* the discovery said (DiscInv), a verdict on the outcomes the round still *)
(* waits for or has counted (RoundInv), and the recheck slots on the type  *)
(* of the round (RecheckInv).  No variable is changed under two of them,   *)
(* so they are proved one by one.                                          *)
(***************************************************************************)
EXTENDS AgentRuntime, KadFirewall, FiniteSetTheorems, TLAPS

----------------------------------------------------------------------------
\* The runtime slot

ArPlaces == {"new", "rc", "cancel", "take", "nat", "build", "store", "applied", "persist", "restart",
           "failed", "sleep", "done", "bind", "connect", "wait", "halt", "unserve", "gone", "clone",
           "enter", "run"}
Returns == {"bind", "done", "wait", "unserve", "clone"}
Ports == {c.port : c \in ArConfigs} \cup {0}
Cloned == [port : Ports, ip : ArIps \cup {0}]
Generation == [ip : ArIps \cup {0}, port : Ports, up : BOOLEAN, aborted : BOOLEAN]

ActorTypes ==
    /\ arAt \in [Actors -> ArPlaces]
    /\ arRet \in [Actors -> Returns]
    /\ arCfg \in [Actors -> Cloned]
    /\ arConf \in ArConfigs
    /\ arIp \in ArIps

SlotTypes ==
    /\ arGens \in Seq(Generation)
    /\ arRun \in 0 .. Len(arGens)
    /\ arHolds \in [Actors -> 0 .. Len(arGens)]

\* Nobody but the actor that built a runtime knows it until it is stored.
FreshUntilStored ==
    \A a \in Actors : arAt[a] = "store" =>
        /\ arHolds[a] # 0 /\ arHolds[a] # arRun /\ ~arGens[arHolds[a]].aborted
        /\ \A b \in Actors : arAt[b] = "store" /\ b # a => arHolds[b] # arHolds[a]

\* The slot's mutex is held across nat.stop() and nowhere else: whoever is in
\* there holds it, so that at most one actor is.
LockOwned ==
    /\ arLock \in Actors \cup {NoActor}
    /\ \A a \in Actors : arAt[a] = "nat" <=> arLock = a

\* The reconnect task exists only once serve() has failed to connect: main is in
\* its wait, or in the shutdown that follows it.
ReconnectLate ==
    /\ arHalt \in [Actors -> BOOLEAN]
    /\ \/ arAt["reconnect"] = "new"
       \/ arAt["main"] \in {"wait", "halt", "unserve", "gone"}
       \/ arAt["main"] \in {"cancel", "take", "nat"} /\ arHalt["main"] /\ arRet["main"] = "unserve"

ArInv == ActorTypes /\ SlotTypes /\ FreshUntilStored /\ StoredIsAlive /\ LockOwned

-----------------------------------------------------------------------------
LEMMA ArInitInv == ArInit => ArInv
  BY ArAssumption
  DEF ArInit, ArInv, ActorTypes, SlotTypes, FreshUntilStored, StoredIsAlive, LockOwned, ArPlaces, Returns,
      Cloned, Ports, NoCfg

\* A step that neither builds, stores nor stops a runtime.
LEMMA SlotUntouched ==
    ASSUME ArInv, ActorTypes', UNCHANGED <<arGens, arRun>>,
           arHolds' \in [Actors -> 0 .. Len(arGens)],
           \A a \in Actors : arAt'[a] = "store" => arAt[a] = "store" /\ arHolds'[a] = arHolds[a],
           LockOwned'
    PROVE  ArInv'
  BY Zenon DEF ArInv, SlotTypes, FreshUntilStored, StoredIsAlive

\* One generation changes in the list of those built.
LEMMA OneGeneration ==
    ASSUME SlotTypes, NEW g \in DOMAIN arGens, NEW d \in Generation,
           arGens' = [arGens EXCEPT ![g] = d]
    PROVE  /\ arGens' \in Seq(Generation) /\ Len(arGens') = Len(arGens)
           /\ arGens'[g] = d
           /\ \A h \in DOMAIN arGens \ {g} : arGens'[h] = arGens[h]
  BY DEF SlotTypes

\* What a configuration clone is made of.
LEMMA ClonesTyped ==
    /\ NoCfg \in Cloned
    /\ \A c \in ArConfigs, ip \in ArIps : [port |-> c.port, ip |-> ip] \in Cloned
  BY Zenon DEF NoCfg, Cloned, Ports

\* One actor moves on from a place it may be at.
LEMMA OneMoves ==
    ASSUME ArInv, NEW a \in Actors, NEW at \in ArPlaces \ {"store", "nat"}, Go(a, at),
           arLock' = IF arAt[a] = "nat" THEN NoActor ELSE arLock,
           UNCHANGED <<arGens, arRun>>,
           arRet' \in [Actors -> Returns], arCfg' \in [Actors -> Cloned],
           arConf' \in ArConfigs, arIp' \in ArIps,
           arHolds' \in [Actors -> 0 .. Len(arGens)],
           \A b \in Actors \ {a} : arHolds'[b] = arHolds[b]
    PROVE  ArInv'
  <1>1. arAt'[a] = at /\ \A b \in Actors \ {a} : arAt'[b] = arAt[b]
    BY Zenon DEF Go, ArInv, ActorTypes
  <1>2. ActorTypes'
    BY Zenon DEF Go, ArInv, ActorTypes
  <1>3. \A b \in Actors : arAt'[b] = "store" => arAt[b] = "store" /\ arHolds'[b] = arHolds[b]
    BY <1>1, Zenon
  <1>4. LockOwned'
    BY <1>1, ArAssumption, Zenon DEF ArInv, LockOwned
  <1> QED  BY <1>2, <1>3, <1>4, SlotUntouched, Zenon

-----------------------------------------------------------------------------
(* reconcile_runtime and stop_runtime                                      *)

LEMMA ReconcileKeepsInv ==
    ASSUME ArInv, NEW a \in Actors, Reconcile(a)
    PROVE  ArInv'
  <1> USE DEF ArInv
  <1>0. /\ arRet[a] \in Returns /\ arRet[a] \in ArPlaces \ {"store", "nat"}
        /\ AfterStop(a) \in ArPlaces \ {"store", "nat"}
    BY Zenon DEF ActorTypes, Returns, ArPlaces, AfterStop
  <1>1. CASE RcRead(a)
    <2>1. arCfg' \in [Actors -> Cloned]
      BY <1>1, ClonesTyped, Zenon DEF RcRead, ActorTypes
    <2> QED
      BY <1>0, <1>1, <2>1, OneMoves, Zenon DEF RcRead, ActorTypes, SlotTypes, ArPlaces, arWorld
  <1>2. CASE RcCancel(a)
    BY <1>0, <1>2, OneMoves, Zenon DEF RcCancel, ActorTypes, SlotTypes, ArPlaces, arWorld, arLocals
  <1>3. CASE RcTake(a)
    <2>1. CASE arRun = 0
      BY <1>0, <1>3, <2>1, OneMoves, SMTT(40) DEF RcTake, ActorTypes, SlotTypes, arWorld, arLocals
    <2>2. CASE arRun # 0
      <3>1. /\ Go(a, "nat") /\ arLock' = a /\ arRun' = 0 /\ arLock = NoActor
            /\ arGens' = [arGens EXCEPT ![arRun].aborted = TRUE]
            /\ UNCHANGED <<arHolds, arLocals, arConf, arIp>> /\ arAt[a] = "take"
        BY <1>3, <2>2, Zenon DEF RcTake, Taken, TasksAborted, Free, arWorld
      <3>2. arRun \in DOMAIN arGens
        BY <2>2 DEF SlotTypes
      <3>3. /\ arGens' \in Seq(Generation) /\ Len(arGens') = Len(arGens)
            /\ \A g \in DOMAIN arGens \ {arRun} : arGens'[g] = arGens[g]
        <4> DEFINE d == [arGens[arRun] EXCEPT !.aborted = TRUE]
        <4>1. arGens[arRun] \in Generation
          BY <3>2 DEF SlotTypes
        <4>2. d \in Generation
          BY <4>1, Zenon DEF Generation
        <4>3. arGens' = [arGens EXCEPT ![arRun] = d]
          BY <3>1, Zenon
        <4> QED  BY <3>2, <4>2, <4>3, OneGeneration, Zenon
      <3>4. ActorTypes' /\ SlotTypes'
        BY <3>1, <3>3 DEF ActorTypes, SlotTypes, ArPlaces, Go, arLocals
      <3>5. FreshUntilStored'
        BY <3>1, <3>3 DEF FreshUntilStored, SlotTypes, ActorTypes, Go
      <3>6. \A b \in Actors : arAt'[b] = IF b = a THEN "nat" ELSE arAt[b]
        BY <3>1, Zenon DEF Go, ActorTypes
      <3>7. LockOwned'
        BY <3>1, <3>6, ArAssumption, Zenon DEF LockOwned
      <3> QED  BY <3>1, <3>4, <3>5, <3>7, Zenon DEF StoredIsAlive
    <2> QED  BY <2>1, <2>2, Zenon
  <1>4. CASE RcNat(a)
    BY <1>0, <1>4, OneMoves, Zenon DEF RcNat, ActorTypes, SlotTypes, arWorld, arLocals
  <1>5. CASE RcBuild(a)
    <2>0. arCfg' \in [Actors -> Cloned] /\ UNCHANGED <<arRet, arConf, arIp, arRun, arLock>>
      BY <1>5, ClonesTyped, Zenon DEF RcBuild, ActorTypes, arWorld
    <2>1. CASE PortBusy(arCfg[a])
      BY <1>0, <1>5, <2>0, <2>1, OneMoves, Zenon DEF RcBuild, ActorTypes, SlotTypes
    <2>2. CASE ~PortBusy(arCfg[a])
      <3> DEFINE new == [ip |-> arCfg[a].ip, port |-> arCfg[a].port, up |-> TRUE, aborted |-> FALSE]
      <3>1. /\ Go(a, "store") /\ arGens' = Append(arGens, new)
            /\ arHolds' = [arHolds EXCEPT ![a] = Len(arGens) + 1] /\ arAt[a] = "build"
        BY <1>5, <2>2, Zenon DEF RcBuild
      <3>2. new \in Generation /\ new.aborted = FALSE
        BY Zenon DEF ActorTypes, Cloned, Generation
      <3> HIDE DEF new
      <3>3. /\ arGens' \in Seq(Generation) /\ Len(arGens') = Len(arGens) + 1
            /\ arGens'[Len(arGens) + 1] = new
            /\ \A g \in 1 .. Len(arGens) : arGens'[g] = arGens[g]
        BY <3>1, <3>2 DEF SlotTypes
      <3>4. ActorTypes' /\ SlotTypes'
        BY <2>0, <3>1, <3>3 DEF ActorTypes, SlotTypes, ArPlaces, Go
      <3>5. FreshUntilStored'
        BY <2>0, <3>1, <3>2, <3>3 DEF FreshUntilStored, SlotTypes, ActorTypes, Go
      <3>6. StoredIsAlive' /\ LockOwned'
        BY <1>0, <2>0, <3>1, <3>3 DEF StoredIsAlive, LockOwned, SlotTypes, ActorTypes, Go
      <3> QED  BY <3>4, <3>5, <3>6, Zenon
    <2> QED  BY <2>1, <2>2, Zenon
  <1>6. CASE RcStore(a)
    <2>1. /\ arRun' = arHolds[a] /\ arHolds' = [arHolds EXCEPT ![a] = 0] /\ Go(a, "applied")
          /\ UNCHANGED <<arRet, arCfg, arConf, arIp, arLock, arGens>> /\ arAt[a] = "store" /\ arLock = NoActor
      BY <1>6, Zenon DEF RcStore, arLocals, arWorld, Free
    <2>2. ActorTypes' /\ SlotTypes'
      BY <2>1 DEF ActorTypes, SlotTypes, ArPlaces, Go
    <2>3. FreshUntilStored' /\ StoredIsAlive' /\ LockOwned'
      BY <2>1, Zenon DEF FreshUntilStored, StoredIsAlive, LockOwned, SlotTypes, ActorTypes, Go
    <2> QED  BY <2>2, <2>3, Zenon
  <1>7. CASE RcApplied(a)
    BY <1>0, <1>7, OneMoves, Zenon DEF RcApplied, ActorTypes, SlotTypes, arWorld, arLocals
  <1> QED  BY <1>1, <1>2, <1>3, <1>4, <1>5, <1>6, <1>7, Zenon DEF Reconcile

-----------------------------------------------------------------------------
(* The other actors                                                        *)

LEMMA UpdateKeepsInv ==
    ASSUME ArInv, NEW a \in Actors,
           \/ \E ok \in BOOLEAN : ApPersist(a, ok)
           \/ a \in ArUpdates /\ \E c \in ArConfigs : ArUpdate(a, c)
           \/ \E ok \in BOOLEAN, c \in ArConfigs : ArConnect(a, ok, c)
    PROVE  ArInv'
  <1>1. /\ arAt[a] \in {"persist", "new", "connect", "sleep"}
        /\ UNCHANGED <<arGens, arRun, arHolds, arLock, arIp>>
        /\ \E at \in ArPlaces \ {"store", "nat"} : Go(a, at)
        /\ arRet' \in [Actors -> Returns]
        /\ arCfg' \in [Actors -> Cloned]
        /\ arConf' \in ArConfigs
    BY ClonesTyped DEF ApPersist, ArUpdate, ArConnect, Apply, Failed, ArInv, ActorTypes, ArPlaces, Returns, arWorld
  <1> QED  BY <1>1, OneMoves, Zenon DEF ArInv, ActorTypes, SlotTypes

LEMMA JobKeepsInv ==
    ASSUME ArInv, NEW j \in ArJobs, ArJob(j)
    PROVE  ArInv'
  <1>1. j \in Actors
    BY Zenon DEF Actors
  <1>2. CASE ArJobStarts(j)
    <2>1. /\ UNCHANGED <<arGens, arRun, arLock, arIp, arCfg, arConf, arHolds>> /\ arAt[j] = "new"
          /\ Go(j, "rc") \/ Go(j, "clone")
          /\ arRet' \in [Actors -> Returns]
      BY <1>1, <1>2, Zenon DEF ArJobStarts, ArInv, ActorTypes, Returns, arWorld
    <2> QED  BY <1>1, <2>1, OneMoves, Zenon DEF ArInv, ActorTypes, SlotTypes, ArPlaces
  <1>3. CASE ArJobClones(j)
    <2>1. /\ UNCHANGED <<arGens, arRun, arLock, arIp, arCfg, arRet, arConf>> /\ arAt[j] = "clone"
          /\ Go(j, "done") \/ Go(j, "enter") \/ Go(j, "run")
      BY <1>3, Zenon DEF ArJobClones, arWorld, arLocals
    <2>2. /\ arHolds' \in [Actors -> 0 .. Len(arGens)]
          /\ \A b \in Actors \ {j} : arHolds'[b] = arHolds[b]
      BY <1>1, <1>3, Zenon DEF ArJobClones, ArInv, SlotTypes
    <2> QED  BY <1>1, <2>1, <2>2, OneMoves, Zenon DEF ArInv, ActorTypes, ArPlaces
  <1>4. CASE ArJobEnters(j)
    <2>1. /\ UNCHANGED <<arGens, arRun, arLock, arIp, arCfg, arRet, arConf, arHolds>>
          /\ arAt[j] = "enter" /\ Go(j, "run")
      BY <1>4, Zenon DEF ArJobEnters, arWorld, arLocals
    <2> QED  BY <1>1, <2>1, OneMoves, Zenon DEF ArInv, ActorTypes, SlotTypes, ArPlaces
  <1>5. CASE ArJobEnds(j)
    <2>1. /\ UNCHANGED <<arGens, arRun, arLock, arIp, arCfg, arRet, arConf>>
          /\ arAt[j] = "run" /\ Go(j, "done")
      BY <1>5, Zenon DEF ArJobEnds, arWorld, arLocals
    <2>2. /\ arHolds' \in [Actors -> 0 .. Len(arGens)]
          /\ \A b \in Actors \ {j} : arHolds'[b] = arHolds[b]
      BY <1>1, <1>5 DEF ArJobEnds, ArInv, SlotTypes
    <2> QED  BY <1>1, <2>1, <2>2, OneMoves, Zenon DEF ArInv, ActorTypes, ArPlaces
  <1> QED  BY <1>2, <1>3, <1>4, <1>5, Zenon DEF ArJob

LEMMA ServeKeepsInv ==
    ASSUME ArInv, ReconnectLate,
           \/ ArBind \/ ArReconnects \/ ArLeaves \/ ArHalts \/ ArUnserves \/ ArReconnected
           \/ \E a \in Actors : ArRestart(a)
    PROVE  ArInv'
  <1>1. "main" \in Actors /\ "reconnect" \in Actors
    BY Zenon DEF Actors
  <1>2. ASSUME NEW a \in Actors, NEW at \in ArPlaces \ {"store", "nat"}, Go(a, at), arAt[a] # "nat",
               UNCHANGED <<arGens, arRun, arCfg, arRet, arConf, arIp, arHolds, arLock>>
        PROVE  ArInv'
    <2>1. /\ arRet' \in [Actors -> Returns] /\ arCfg' \in [Actors -> Cloned]
          /\ arConf' \in ArConfigs /\ arIp' \in ArIps /\ arHolds' \in [Actors -> 0 .. Len(arGens)]
      BY <1>2, Zenon DEF ArInv, ActorTypes, SlotTypes
    <2> QED  BY <1>2, <2>1, OneMoves, Zenon
  <1> USE <1>1, ArAssumption DEF ArInv, ActorTypes, SlotTypes, LockOwned, arWorld, arLocals
  <1>3. CASE ArBind
    BY <1>2, <1>3, Zenon DEF ArBind, ArPlaces
  <1>4. CASE ArLeaves
    BY <1>2, <1>4, Zenon DEF ArLeaves, ArPlaces
  <1>5. CASE ArUnserves
    BY <1>2, <1>5, Zenon DEF ArUnserves, ArPlaces
  <1>6. CASE ArReconnected
    BY <1>2, <1>6, Zenon DEF ArReconnected, ArPlaces
  <1>7. CASE ArReconnects
    <2>1. /\ arAt' = [arAt EXCEPT !["main"] = "wait", !["reconnect"] = "sleep"] /\ arAt["main"] = "failed"
          /\ UNCHANGED <<arGens, arRun, arCfg, arRet, arConf, arIp, arHolds, arLock>>
      BY <1>7, Zenon DEF ArReconnects
    <2>2. ActorTypes'
      BY <2>1, Zenon DEF ArPlaces
    <2>3. \A a \in Actors : arAt'[a] = "store" => arAt[a] = "store"
      BY <2>1, Zenon
    <2>4. LockOwned'
      <3>1. arAt["reconnect"] = "new"
        BY <2>1, Zenon DEF ReconnectLate
      <3> QED  BY <2>1, <3>1, Zenon
    <2> QED  BY <2>1, <2>2, <2>3, <2>4, SlotUntouched, Zenon
  <1>8. CASE ArHalts
    <2>1. /\ arAt' = [arAt EXCEPT !["main"] = "cancel", !["reconnect"] = "done"]
          /\ arRet' = [arRet EXCEPT !["main"] = "unserve"]
          /\ arLock' = IF arLock = "reconnect" THEN NoActor ELSE arLock
          /\ arHolds' = [arHolds EXCEPT !["reconnect"] = 0]
          /\ arAt["main"] = "halt" /\ UNCHANGED <<arGens, arRun, arCfg, arConf, arIp>>
      BY <1>8, Zenon DEF ArHalts
    <2>2. ActorTypes' /\ arHolds' \in [Actors -> 0 .. Len(arGens)]
      <3>1. 0 \in 0 .. Len(arGens)
        OBVIOUS
      <3> QED  BY <2>1, <3>1, Zenon DEF ArPlaces, Returns
    <2>3. \A a \in Actors : arAt'[a] = "store" => arAt[a] = "store" /\ arHolds'[a] = arHolds[a]
      BY <2>1, Zenon
    <2>4. LockOwned'
      <3>1. \A a \in Actors : arAt'[a] = IF a = "reconnect" THEN "done"
                                         ELSE IF a = "main" THEN "cancel" ELSE arAt[a]
        BY <2>1, Zenon
      <3>2. arAt["main"] # "nat" /\ arLock \in Actors \cup {NoActor}
            /\ \A a \in Actors : arAt[a] = "nat" <=> arLock = a
        BY <2>1, Zenon
      <3>3. CASE arLock = "reconnect"
        BY <2>1, <3>1, <3>2, <3>3, Zenon
      <3>4. CASE arLock # "reconnect"
        BY <2>1, <3>1, <3>2, <3>4, Zenon
      <3> QED  BY <3>3, <3>4, Zenon
    <2> QED  BY <2>1, <2>2, <2>3, <2>4, SlotUntouched, Zenon
  <1>9. ASSUME NEW a \in Actors, ArRestart(a) PROVE ArInv'
    <2>1. /\ arAt' = [b \in Actors |-> IF b = a THEN "done"
                                       ELSE IF b = "main" /\ arAt[b] = "wait" THEN "halt" ELSE arAt[b]]
          /\ arAt[a] = "restart" /\ UNCHANGED <<arGens, arRun, arCfg, arRet, arConf, arIp, arHolds, arLock>>
      BY <1>9, Zenon DEF ArRestart, RestartAsked
    <2>2. ActorTypes'
      BY <2>1, Zenon DEF ArPlaces
    <2>3. LockOwned'
      BY <2>1, Zenon
    <2> QED  BY <2>1, <2>2, <2>3, SlotUntouched, Zenon
  <1> HIDE DEF ArInv, ActorTypes, SlotTypes, LockOwned, arWorld, arLocals
  <1> QED  BY <1>3, <1>4, <1>5, <1>6, <1>7, <1>8, <1>9, Zenon

\* A task of a stopped generation ends.
LEMMA DropKeepsInv ==
    ASSUME ArInv, NEW g \in DOMAIN arGens, ArDrop(g)
    PROVE  ArInv'
  <1>1. /\ arGens' = [arGens EXCEPT ![g].up = FALSE]
        /\ UNCHANGED <<arAt, arRet, arCfg, arConf, arIp, arRun, arLock, arHolds>>
    BY Zenon DEF ArDrop, arLocals, arWorld
  <1>2. /\ arGens' \in Seq(Generation) /\ Len(arGens') = Len(arGens)
        /\ \A h \in DOMAIN arGens : arGens'[h].aborted = arGens[h].aborted
    <2> DEFINE d == [arGens[g] EXCEPT !.up = FALSE]
    <2>1. arGens[g] \in Generation
      BY DEF ArInv, SlotTypes
    <2>2. d \in Generation /\ d.aborted = arGens[g].aborted
      BY <2>1, Zenon DEF Generation
    <2>3. arGens' = [arGens EXCEPT ![g] = d]
      BY <1>1, Zenon
    <2> QED  BY <2>2, <2>3, OneGeneration, Zenon DEF ArInv
  <1> QED
    BY <1>1, <1>2 DEF ArInv, ActorTypes, SlotTypes, FreshUntilStored, StoredIsAlive, LockOwned

\* The reconnect task starts from main alone, and main never goes back.
LEMMA LateKept ==
    ASSUME ArInv, ReconnectLate, [ArNext]_arVars
    PROVE  ReconnectLate'
  <1>0. /\ "main" \in Actors /\ "reconnect" \in Actors /\ ArUpdates \subseteq Actors /\ ArJobs \subseteq Actors
        /\ "main" \notin ArUpdates \cup ArJobs /\ "reconnect" \notin ArUpdates \cup ArJobs
    BY ArAssumption, Zenon DEF Actors
  <1> USE <1>0 DEF ReconnectLate, ArInv, ActorTypes, Go, arWorld, arLocals
  <1>1. CASE ArWorldMoves \/ UNCHANGED arVars \/ \E g \in DOMAIN arGens : ArDrop(g)
    BY <1>1, Zenon DEF ArWorldMoves, arVars, ArDrop
  <1>2. ASSUME NEW a \in Actors, Reconcile(a) PROVE ReconnectLate'
    <2>1. CASE RcRead(a)
      BY <2>1, Zenon DEF RcRead
    <2>2. CASE RcCancel(a)
      BY <2>2, Zenon DEF RcCancel
    <2>3. CASE RcTake(a) \/ RcNat(a)
      <3>1. /\ arAt[a] \in {"take", "nat"}
            /\ Go(a, "nat") \/ Go(a, AfterStop(a))
            /\ UNCHANGED <<arHalt, arRet>>
        BY <2>3, Zenon DEF RcTake, RcNat
      <3>2. AfterStop("main") = IF arHalt["main"] THEN arRet["main"] ELSE "build"
        BY Zenon DEF AfterStop
      <3> QED  BY <3>1, <3>2, Zenon
    <2>4. CASE RcBuild(a)
      BY <2>4, Zenon DEF RcBuild
    <2>5. CASE RcStore(a)
      BY <2>5, Zenon DEF RcStore
    <2>6. CASE RcApplied(a)
      BY <2>6, Zenon DEF RcApplied
    <2> QED  BY <1>2, <2>1, <2>2, <2>3, <2>4, <2>5, <2>6, Zenon DEF Reconcile
  <1>3. ASSUME NEW a \in Actors, NEW ok \in BOOLEAN, ApPersist(a, ok) PROVE ReconnectLate'
    BY <1>3, Zenon DEF ApPersist
  <1>4. ASSUME NEW a \in Actors, ArRestart(a) PROVE ReconnectLate'
    <2>1. /\ arAt[a] = "restart" /\ a # "main" /\ UNCHANGED <<arHalt, arRet>>
          /\ arAt' = [b \in Actors |-> IF b = a THEN "done"
                                       ELSE IF b = "main" /\ arAt[b] = "wait" THEN "halt" ELSE arAt[b]]
      BY <1>4, Zenon DEF ArRestart, RestartAsked
    <2> QED  BY <2>1, Zenon
  <1>5. ASSUME NEW u \in ArUpdates, NEW c \in ArConfigs, ArUpdate(u, c) PROVE ReconnectLate'
    BY <1>5, Zenon DEF ArUpdate, Apply
  <1>6. ASSUME NEW j \in ArJobs, ArJob(j) PROVE ReconnectLate'
    BY <1>6, Zenon DEF ArJob, ArJobStarts, ArJobClones, ArJobEnters, ArJobEnds
  <1>7. ASSUME NEW a \in {"main", "reconnect"}, NEW ok \in BOOLEAN, NEW c \in ArConfigs, ArConnect(a, ok, c)
        PROVE ReconnectLate'
    <2>1. /\ arAt[a] \in {"connect", "sleep"} /\ (a = "main" => arAt[a] = "connect")
          /\ \E at \in ArPlaces : Go(a, at)
          /\ arHalt' \in [Actors -> BOOLEAN] /\ (a = "reconnect" => arHalt'["main"] = arHalt["main"])
          /\ a = "reconnect" => arRet'["main"] = arRet["main"]
      BY <1>7, Zenon DEF ArConnect, Apply, ArPlaces
    <2> QED  BY <2>1, Zenon
  <1>8. CASE ArMain
    <2>1. CASE ArBind \/ ArReconnects \/ ArLeaves \/ ArUnserves
      BY <2>1, Zenon DEF ArBind, ArReconnects, ArLeaves, ArUnserves
    <2>2. CASE ArHalts
      BY <2>2, Zenon DEF ArHalts
    <2> QED  BY <1>7, <1>8, <2>1, <2>2, Zenon DEF ArMain
  <1>9. CASE ArReconnect
    <2>1. CASE ArReconnected
      BY <2>1, Zenon DEF ArReconnected
    <2> QED  BY <1>7, <1>9, <2>1, Zenon DEF ArReconnect
  <1> QED
    BY <1>1, <1>2, <1>3, <1>4, <1>5, <1>6, <1>8, <1>9, Zenon DEF ArNext, ArActor

LEMMA ArInitLate == ArInit => ReconnectLate
  BY DEF ArInit, ReconnectLate, Actors

LEMMA ArStepKeepsInv == ArInv /\ ReconnectLate /\ [ArNext]_arVars => (ArInv /\ ReconnectLate)'
  <1> SUFFICES ASSUME ArInv, ReconnectLate, [ArNext]_arVars PROVE ArInv'
    BY LateKept, Zenon
  <1>1. CASE ArWorldMoves \/ UNCHANGED arVars
    BY <1>1, Zenon DEF ArWorldMoves, arVars, arLocals, ArInv, ActorTypes, SlotTypes, FreshUntilStored,
                StoredIsAlive, LockOwned
  <1>2. "main" \in Actors /\ "reconnect" \in Actors /\ ArUpdates \subseteq Actors
    BY Zenon DEF Actors
  <1> QED
    BY <1>1, <1>2, ReconcileKeepsInv, UpdateKeepsInv, JobKeepsInv, ServeKeepsInv, DropKeepsInv, Zenon
    DEF ArNext, ArActor, ArMain, ArReconnect

\* However reconciles, stops, jobs and the reconnect task interleave, the
\* runtime in the slot has not been told to stop.
THEOREM StoredAlwaysAlive == ArSpec => []StoredIsAlive
  <1>1. ArInv => StoredIsAlive
    BY Zenon DEF ArInv
  <1> QED  BY <1>1, ArInitInv, ArInitLate, ArStepKeepsInv, PTL DEF ArSpec

\* The slot's mutex is held exactly by the actor that is inside nat.stop(): two
\* reconciles never stop a runtime at once, and the mutex is never left behind,
\* also when the reconnect task is aborted there.
THEOREM MutexAlwaysOwned == ArSpec => []LockOwned
  <1>1. ArInv => LockOwned
    BY Zenon DEF ArInv
  <1> QED  BY <1>1, ArInitInv, ArInitLate, ArStepKeepsInv, PTL DEF ArSpec

----------------------------------------------------------------------------
\* The reachability checks

-----------------------------------------------------------------------------
(* External port                                                           *)

\* Every port the discovery knows was said by one of its reporters.
DiscInv ==
    /\ kfPing \in KfContacts \cup {KfNone}
    /\ kfDisc # KfNone =>
          /\ kfDisc.reporters \subseteq KfIps
          /\ \A port \in kfDisc.ports : \E a \in kfDisc.reporters : <<a, port>> \in kfReports
    /\ DiscoveryAgreed

LEMMA DiscInit == KfInit => DiscInv
  BY Zenon DEF KfInit, DiscInv, DiscoveryAgreed

LEMMA PongKeepsDisc ==
    ASSUME DiscInv, NEW port, KfPong(port)
    PROVE  DiscInv'
  <1> DEFINE ip == KfIp(kfPing)
  <1>1. /\ kfDisc' = Candidate(ip, port).disc /\ kfFound' = Candidate(ip, port).found
        /\ kfReports' = kfReports \cup {<<ip, port>>} /\ kfPing' = KfNone
    BY Zenon DEF KfPong
  <1>2. ip \in KfIps
    BY Zenon DEF KfPong, DiscInv, KfIps
  <1> HIDE DEF ip
  <1>3. ASSUME kfFound' = kfFound PROVE DiscoveryAgreed'
    <2>1. kfReports \subseteq kfReports' /\ DiscoveryAgreed
      BY <1>1, Zenon DEF DiscInv
    <2>2. CASE kfFound # 0
      <3>1. PICK a, b \in KfIps : a # b /\ {<<a, kfFound>>, <<b, kfFound>>} \subseteq kfReports
        BY <2>1, <2>2, Zenon DEF DiscoveryAgreed
      <3>2. {<<a, kfFound'>>, <<b, kfFound'>>} \subseteq kfReports'
        BY <1>3, <2>1, <3>1, Zenon
      <3> QED  BY <3>1, <3>2, Zenon DEF DiscoveryAgreed
    <2> QED  BY <1>3, <2>2, Zenon DEF DiscoveryAgreed
  <1>4. CASE kfDisc' = kfDisc /\ kfFound' = kfFound
    BY <1>1, <1>4 DEF DiscInv, DiscoveryAgreed
  <1>5. CASE kfDisc # KfNone /\ ip \notin kfDisc.reporters
    <2> DEFINE reporters == kfDisc.reporters \cup {ip}
               more == [reporters |-> reporters, ports |-> kfDisc.ports \cup {port}]
    <2>1. CASE port \in kfDisc.ports /\ kfDisc' = KfNone /\ kfFound' = port
      <3>1. PICK a \in kfDisc.reporters : <<a, port>> \in kfReports
        BY <1>5, <2>1, Zenon DEF DiscInv
      <3>2. a \in KfIps /\ a # ip
        BY <1>5, <3>1, Zenon DEF DiscInv
      <3> QED  BY <1>1, <1>2, <2>1, <3>1, <3>2 DEF DiscInv, DiscoveryAgreed
    <2>2. CASE kfDisc' = KfNone /\ kfFound' = 0
      BY <1>1, <2>2, Zenon DEF DiscInv, DiscoveryAgreed
    <2>3. CASE kfDisc' = more /\ kfFound' = kfFound
      <3>1. /\ reporters \subseteq KfIps
            /\ \A q \in kfDisc.ports \cup {port} : \E a \in reporters : <<a, q>> \in kfReports'
        BY <1>1, <1>2, <1>5, Zenon DEF DiscInv
      <3>2. DiscoveryAgreed'
        BY <1>3, <2>3, Zenon
      <3>3. kfDisc'.reporters = reporters /\ kfDisc'.ports = kfDisc.ports \cup {port}
        BY <2>3, Zenon
      <3> HIDE DEF more, reporters
      <3>4. /\ kfDisc'.reporters \subseteq KfIps
            /\ \A q \in kfDisc'.ports : \E a \in kfDisc'.reporters : <<a, q>> \in kfReports'
        BY <3>1, <3>3, Zenon
      <3>5. kfPing' \in KfContacts \cup {KfNone}
        BY <1>1, Zenon
      <3> QED  BY <3>2, <3>4, <3>5, Zenon DEF DiscInv
    <2>4. CASE port = 0
      BY <1>1, <1>4, <2>4, Zenon DEF Candidate
    <2>5. CASE port # 0 /\ port \in kfDisc.ports
      <3>1. Candidate(ip, port) = [disc |-> KfNone, found |-> port]
        BY <1>5, <2>5, Zenon DEF Candidate, Repeats
      <3> QED  BY <1>1, <2>1, <2>5, <3>1
    <2>6. CASE port # 0 /\ port \notin kfDisc.ports /\ Cardinality(reporters) >= KfReporters
      <3>1. Candidate(ip, port) = [disc |-> KfNone, found |-> 0]
        BY <1>5, <2>6, Zenon DEF Candidate, Repeats
      <3> QED  BY <1>1, <2>2, <3>1
    <2>7. CASE port # 0 /\ port \notin kfDisc.ports /\ ~(Cardinality(reporters) >= KfReporters)
      <3>1. Candidate(ip, port) = [disc |-> more, found |-> kfFound]
        BY <1>5, <2>7, Zenon DEF Candidate, Repeats
      <3> HIDE DEF more
      <3> QED  BY <1>1, <2>3, <3>1
    <2> QED  BY <2>4, <2>5, <2>6, <2>7, Zenon
  <1>6. CASE kfDisc = KfNone \/ ip \in kfDisc.reporters
    BY <1>1, <1>4, <1>6, Zenon DEF Candidate, Repeats
  <1> QED  BY <1>5, <1>6, Zenon

LEMMA StepKeepsDisc ==
    ASSUME DiscInv, [KfNext]_kfVars
    PROVE  DiscInv'
  <1>1. CASE UNCHANGED kfDiscVars
    BY <1>1, Zenon DEF kfDiscVars, DiscInv, DiscoveryAgreed
  <1>2. CASE KfStart
    <2>1. CASE kfNat # 0
      BY <1>1, <1>2, <2>1, Zenon DEF KfStart
    <2>2. CASE kfNat = 0
      <3>1. /\ kfDisc' = [reporters |-> {}, ports |-> {}] /\ kfFound' = 0
            /\ kfReports' = {} /\ kfPing' = kfPing
        BY <1>2, <2>2, Zenon DEF KfStart
      <3>2. kfDisc'.reporters = {} /\ kfDisc'.ports = {}
        BY <3>1, Zenon
      <3> QED  BY <3>1, <3>2, Zenon DEF DiscInv, DiscoveryAgreed
    <2> QED  BY <2>1, <2>2, Zenon
  <1>3. CASE KfPingFails \/ KfDiscovered \/ \E c \in KfContacts : KfPingSend(c)
    <2>1. /\ kfPing' \in KfContacts \cup {KfNone} /\ (kfDisc' = kfDisc \/ kfDisc' = KfNone)
          /\ UNCHANGED <<kfFound, kfReports>>
      BY <1>3, Zenon DEF KfPingFails, KfDiscovered, KfPingSend, DiscInv
    <2> QED  BY <2>1, Zenon DEF DiscInv, DiscoveryAgreed
  <1>4. CASE \E port \in {0} \cup KfPorts : KfPong(port)
    BY <1>4, PongKeepsDisc, Zenon
  <1>5. CASE \/ KfFinish \/ KfNatMoves \/ KfRecheck
             \/ \E H \in Helpers : KfBegin(H)
             \/ \E h \in KfIps :
                   \/ \E b \in BOOLEAN : KfRequest(h, b) \/ KfRequestEnds(h, b)
                   \/ KfJoin(h)
                   \/ \E b \in BOOLEAN, port \in KfPorts : KfDatagram(h, b, port)
    BY <1>1, <1>5, Zenon DEF KfFinish, KfNatMoves, KfRecheck, KfBegin, KfRequest, KfRequestEnds, KfJoin, KfDatagram,
                      KfServerSays, KfHello, KfReserve, KfAnswer, KfProbeFails
  <1> QED  BY <1>1, <1>2, <1>3, <1>4, <1>5, Zenon DEF KfNext, KfUdp, kfVars

-----------------------------------------------------------------------------
(* The UDP round                                                           *)

\* While the round lasts nothing was confirmed and no verdict given; its
\* outcomes tell whose request ended well and who was heard of.
Collecting ==
    /\ kfRound.ports = ExpectedPorts
    /\ kfRound.out \in [kfHelpers -> {"pending", "failed", "wrong"}]
    /\ kfProof = {} /\ kfGave = FALSE
    /\ \A h \in kfHelpers :
          /\ kfRound.out[h] = "wrong" => h \in kfHeard
          /\ kfRound.out[h] = "pending" /\ kfAsk[h] = "no" => h \in kfServed
          /\ kfRound.out[h] = "failed" => kfAsk[h] = "no" /\ h \notin kfServed

\* A request task belongs to a helper of the round and says whether the
\* request ended well; a round that is over before its task confirmed a port.
Asking ==
    /\ kfAsk \in [KfIps -> {"no", "hello", "sent", "ok", "failed"}]
    /\ kfServed \subseteq kfHelpers /\ kfHelpers \subseteq KfIps
    /\ \A h \in KfIps :
          /\ kfAsk[h] # "no" => h \in kfHelpers /\ kfAt = "ask"
          /\ kfAsk[h] = "ok" => h \in kfServed
          /\ kfAsk[h] \in {"hello", "sent", "failed"} => h \notin kfServed

PortsKnown == {kfNat, kfFound, kfExternal} \subseteq {0} \cup KfPorts

RoundInv ==
    /\ PortsKnown
    /\ kfAt \in {"idle", "discover", "ready", "ask"}
    /\ kfAt = "ask" => kfHelpers # {}
    /\ kfRound # KfNone => Collecting
    /\ kfRound = KfNone /\ kfAt = "ask" => kfGave = TRUE /\ kfOpen = TRUE
    /\ Asking /\ VerdictEarned /\ RoundsEnd

LEMMA RoundInit == KfInit => RoundInv
  <1> SUFFICES ASSUME KfInit PROVE RoundInv
    OBVIOUS
  <1>1. Asking /\ VerdictEarned /\ RoundsEnd
    BY Zenon DEF KfInit, Asking, VerdictEarned, RoundsEnd
  <1>2. PortsKnown
    BY Zenon DEF KfInit, PortsKnown
  <1> QED  BY <1>1, <1>2, Zenon DEF KfInit, RoundInv

LEMMA PortsKept ==
    ASSUME PortsKnown, [KfNext]_kfVars
    PROVE  PortsKnown'
  <1>1. CASE UNCHANGED <<kfNat, kfFound, kfExternal>>
    BY <1>1, Zenon DEF PortsKnown
  <1>2. CASE KfStart \/ KfDiscovered \/ KfFinish \/ KfNatMoves
    BY <1>2, Zenon DEF KfStart, KfDiscovered, KfFinish, KfNatMoves, kfDiscVars, PortsKnown
  <1>3. ASSUME NEW port \in {0} \cup KfPorts, KfPong(port) PROVE PortsKnown'
    <2>1. Candidate(KfIp(kfPing), port).found \in {0, port, kfFound}
      BY DEF Candidate
    <2>2. kfFound' \in {0, port, kfFound} /\ UNCHANGED <<kfNat, kfExternal>>
      BY <1>3, <2>1, Zenon DEF KfPong
    <2> QED  BY <2>2, Zenon DEF PortsKnown
  <1>4. CASE \/ KfRecheck \/ KfPingFails \/ UNCHANGED kfVars
             \/ \E c \in KfContacts : KfPingSend(c)
             \/ \E H \in Helpers : KfBegin(H)
             \/ \E h \in KfIps :
                   \/ \E b \in BOOLEAN : KfRequest(h, b) \/ KfRequestEnds(h, b)
                   \/ KfJoin(h)
                   \/ \E b \in BOOLEAN, port \in KfPorts : KfDatagram(h, b, port)
    BY <1>1, <1>4, Zenon DEF KfRecheck, KfPingFails, KfPingSend, KfBegin, KfRequest, KfRequestEnds, KfJoin, KfDatagram,
                      KfServerSays, KfHello, KfReserve, KfAnswer, KfProbeFails, kfDiscVars, kfVars
  <1> QED  BY <1>2, <1>3, <1>4, Zenon DEF KfNext, KfUdp

\* A round is not the absence of one.
LEMMA OpenRoundIsSome ==
    ASSUME PortsKnown, NEW H \in SUBSET KfIps, NEW out \in [H -> {"pending", "failed", "wrong"}]
    PROVE  [ports |-> ExpectedPorts, out |-> out] # KfNone
  <1>1. ExpectedPorts \in SUBSET KfKnownPorts
    BY Zenon DEF PortsKnown, ExpectedPorts, KfKnownPorts
  <1>2. out \in UNION {[G -> KfOutcomes] : G \in SUBSET KfIps}
    <2>1. out \in [H -> KfOutcomes]
      BY Zenon DEF KfOutcomes
    <2> QED  BY <2>1, Zenon
  <1>3. [ports |-> ExpectedPorts, out |-> out] \in UdpRounds
    BY <1>1, <1>2, Zenon DEF UdpRounds
  <1> QED  BY <1>3, KfAssumption, Zenon

\* The round keeps its helpers and one of them has a new outcome.
LEMMA OneOutcome ==
    ASSUME PortsKnown, Collecting, kfHelpers \subseteq KfIps, NEW h, NEW o \in {"failed", "wrong"},
           kfRound' = [ports |-> kfRound.ports, out |-> [kfRound.out EXCEPT ![h] = o]]
    PROVE  /\ kfRound' # KfNone
           /\ kfRound'.ports = ExpectedPorts
           /\ kfRound'.out \in [kfHelpers -> {"pending", "failed", "wrong"}]
           /\ h \in kfHelpers => kfRound'.out[h] = o
           /\ \A k \in kfHelpers \ {h} : kfRound'.out[k] = kfRound.out[k]
  <1> DEFINE out == [kfRound.out EXCEPT ![h] = o]
  <1>1. kfRound.out \in [kfHelpers -> {"pending", "failed", "wrong"}] /\ kfRound.ports = ExpectedPorts
    BY Zenon DEF Collecting
  <1>2. /\ out \in [kfHelpers -> {"pending", "failed", "wrong"}]
        /\ h \in kfHelpers => out[h] = o
        /\ \A k \in kfHelpers \ {h} : out[k] = kfRound.out[k]
    BY <1>1, Zenon
  <1> HIDE DEF out
  <1>3. kfRound' = [ports |-> ExpectedPorts, out |-> out]
    BY <1>1, Zenon DEF out
  <1>4. kfRound' # KfNone
    BY <1>2, <1>3, OpenRoundIsSome, Zenon
  <1>5. kfRound'.ports = ExpectedPorts /\ kfRound'.out = out
    BY <1>3
  <1> QED  BY <1>2, <1>4, <1>5, Zenon

LEMMA BeginKeepsRound ==
    ASSUME RoundInv, PortsKnown', NEW H \in Helpers, KfBegin(H)
    PROVE  RoundInv'
  <1>1. H \subseteq KfIps /\ H # {}
    BY FS_EmptySet DEF Helpers
  <1>2. /\ kfRound' = [ports |-> ExpectedPorts, out |-> [h \in H |-> "pending"]]
        /\ kfAsk' = [h \in KfIps |-> IF h \in H THEN "hello" ELSE "no"]
        /\ kfAt' = "ask" /\ kfExternal' = kfExternal
        /\ kfHelpers' = H /\ kfServed' = {} /\ kfHeard' = {} /\ kfProof' = {} /\ kfGave' = FALSE
    BY Zenon DEF KfBegin
  <1>3. /\ kfRound'.ports = ExpectedPorts
        /\ kfRound'.out \in [H -> {"pending", "failed", "wrong"}] /\ \A h \in H : kfRound'.out[h] = "pending"
    BY <1>2, Zenon
  <1>4. ExpectedPorts' = ExpectedPorts
    BY <1>2, Zenon DEF ExpectedPorts
  <1>5. \A h \in KfIps : kfAsk'[h] = IF h \in H THEN "hello" ELSE "no"
    BY <1>2, Zenon
  <1>6. Collecting'
    BY <1>1, <1>2, <1>3, <1>4, <1>5, Zenon DEF Collecting
  <1>7. Asking'
    BY <1>1, <1>2, <1>5, Zenon DEF Asking
  <1>8. VerdictEarned' /\ RoundsEnd'
    BY <1>2, Zenon DEF VerdictEarned, RoundsEnd
  <1>9. kfRound' # KfNone
    <2>1. [h \in H |-> "pending"] \in [H -> {"pending", "failed", "wrong"}]
      BY Zenon
    <2> QED  BY <1>1, <1>2, <2>1, OpenRoundIsSome, Zenon DEF RoundInv
  <1> QED  BY <1>1, <1>2, <1>6, <1>7, <1>8, <1>9, Zenon DEF RoundInv

LEMMA RequestKeepsRound ==
    ASSUME RoundInv, PortsKnown', NEW h \in KfIps, NEW b \in BOOLEAN, KfRequest(h, b)
    PROVE  RoundInv'
  <1>1. /\ kfAsk[h] = "hello"
        /\ UNCHANGED <<kfAt, kfRound, kfExternal, kfOpen, kfHelpers, kfServed, kfHeard, kfProof, kfGave>>
        /\ \E st \in {"sent", "failed"} : kfAsk' = [kfAsk EXCEPT ![h] = st]
    BY Zenon DEF KfRequest, kfLog
  <1>2. ExpectedPorts' = ExpectedPorts
    BY <1>1, Zenon DEF ExpectedPorts
  <1>3. Asking'
    BY <1>1, Zenon DEF RoundInv, Asking
  <1>4. ASSUME kfRound # KfNone PROVE Collecting'
    BY <1>1, <1>2, <1>4, Zenon DEF RoundInv, Asking, Collecting
  <1>5. VerdictEarned' /\ RoundsEnd'
    BY <1>1, Zenon DEF RoundInv, VerdictEarned, RoundsEnd
  <1> QED  BY <1>1, <1>3, <1>4, <1>5, Zenon DEF RoundInv

LEMMA RequestEndKeepsRound ==
    ASSUME RoundInv, PortsKnown', NEW h \in KfIps, NEW b \in BOOLEAN, KfRequestEnds(h, b)
    PROVE  RoundInv'
  <1>1. /\ kfAsk[h] = "sent"
        /\ UNCHANGED <<kfAt, kfRound, kfExternal, kfOpen, kfHelpers, kfHeard, kfProof, kfGave>>
        /\ \/ kfAsk' = [kfAsk EXCEPT ![h] = "ok"] /\ kfServed' = kfServed \cup {h}
           \/ kfAsk' = [kfAsk EXCEPT ![h] = "failed"] /\ kfServed' = kfServed
    BY Zenon DEF KfRequestEnds
  <1>2. ExpectedPorts' = ExpectedPorts
    BY <1>1, Zenon DEF ExpectedPorts
  <1>3. h \in kfHelpers /\ kfAt = "ask"
    BY <1>1, Zenon DEF RoundInv, Asking
  <1>4. Asking'
    BY <1>1, <1>3, Zenon DEF RoundInv, Asking
  <1>5. ASSUME kfRound # KfNone PROVE Collecting'
    BY <1>1, <1>2, <1>3, <1>5, Zenon DEF RoundInv, Asking, Collecting
  <1>6. VerdictEarned' /\ RoundsEnd'
    BY <1>1, <1>3, Zenon DEF RoundInv, VerdictEarned, RoundsEnd
  <1> QED  BY <1>1, <1>4, <1>5, <1>6, Zenon DEF RoundInv

LEMMA JoinKeepsRound ==
    ASSUME RoundInv, PortsKnown', NEW h \in KfIps, KfJoin(h)
    PROVE  RoundInv'
  <1>1. /\ kfAsk' = [kfAsk EXCEPT ![h] = "no"] /\ kfAt = "ask" /\ kfAsk[h] \in {"ok", "failed"}
        /\ UNCHANGED <<kfAt, kfExternal, kfOpen, kfHelpers, kfServed, kfHeard, kfProof, kfGave>>
    BY Zenon DEF KfJoin, kfLog
  <1>2. ExpectedPorts' = ExpectedPorts /\ h \in kfHelpers
    BY <1>1, Zenon DEF ExpectedPorts, RoundInv, Asking
  <1>3. Asking'
    BY <1>1, Zenon DEF RoundInv, Asking
  <1>4. VerdictEarned' /\ RoundsEnd'
    BY <1>1, Zenon DEF RoundInv, VerdictEarned, RoundsEnd
  <1>5. CASE kfAsk[h] = "failed" /\ kfRound # KfNone
    <2>1. kfRound' = [ports |-> kfRound.ports, out |-> [kfRound.out EXCEPT ![h] = "failed"]]
      BY <1>5, Zenon DEF KfJoin
    <2>2. Collecting /\ kfHelpers \subseteq KfIps /\ h \notin kfServed
      BY <1>5, Zenon DEF RoundInv, Asking
    <2>3. /\ kfRound' # KfNone /\ kfRound'.ports = ExpectedPorts
          /\ kfRound'.out \in [kfHelpers -> {"pending", "failed", "wrong"}]
          /\ h \in kfHelpers => kfRound'.out[h] = "failed"
          /\ \A k \in kfHelpers \ {h} : kfRound'.out[k] = kfRound.out[k]
      BY <2>1, <2>2, OneOutcome, Zenon DEF RoundInv
    <2>4. kfAsk'[h] = "no" /\ \A k \in KfIps \ {h} : kfAsk'[k] = kfAsk[k]
      BY <1>1, Zenon DEF RoundInv, Asking
    <2>5. Collecting'
      BY <1>1, <1>2, <2>2, <2>3, <2>4, Zenon DEF Collecting
    <2> QED  BY <1>1, <1>3, <1>4, <2>3, <2>5, Zenon DEF RoundInv
  <1>6. CASE ~(kfAsk[h] = "failed" /\ kfRound # KfNone)
    <2>1. kfRound' = kfRound
      BY <1>6, Zenon DEF KfJoin
    <2>2. ASSUME kfRound # KfNone PROVE Collecting'
      BY <1>1, <1>2, <1>6, <2>1, <2>2, Zenon DEF RoundInv, Asking, Collecting
    <2> QED  BY <1>1, <1>3, <1>4, <2>1, <2>2, Zenon DEF RoundInv
  <1> QED  BY <1>5, <1>6, Zenon
LEMMA DatagramKeepsRound ==
    ASSUME RoundInv, PortsKnown', NEW h \in KfIps, NEW b \in BOOLEAN, NEW port, KfDatagram(h, b, port)
    PROVE  RoundInv'
  <1>1. UNCHANGED <<kfAt, kfAsk, kfExternal, kfHelpers, kfServed>> /\ ExpectedPorts' = ExpectedPorts
    BY Zenon DEF KfDatagram, ExpectedPorts
  <1>2. Asking' /\ kfHelpers \subseteq KfIps
    BY <1>1, Zenon DEF RoundInv, Asking
  <1>3. kfHeard \subseteq kfHeard' /\ kfProof \subseteq kfProof'
    BY Zenon DEF KfDatagram
  <1>4. CASE kfRound # KfNone /\ h \in DOMAIN kfRound.out
    <2>1. Collecting /\ h \in kfHelpers /\ kfAt = "ask" /\ Answered(h, b, port)
      BY <1>4, Zenon DEF RoundInv, RoundsEnd, Collecting, KfDatagram
    <2>2. /\ kfRound.ports = ExpectedPorts /\ h \in kfHeard'
          /\ kfProof' = IF b /\ port \in ExpectedPorts THEN {h} ELSE {}
      BY <2>1, Zenon DEF KfDatagram, Collecting
    <2>3. CASE b /\ port \in ExpectedPorts
      <3>1. kfRound' = KfNone /\ kfOpen' = TRUE /\ kfGave' = TRUE /\ kfProof' # {}
        BY <2>1, <2>2, <2>3, Zenon DEF Answered, Confirms, Verdict
      <3>2. VerdictEarned' /\ RoundsEnd'
        BY <3>1, Zenon DEF VerdictEarned, RoundsEnd
      <3> QED  BY <1>1, <1>2, <3>1, <3>2, Zenon DEF RoundInv
    <2>4. CASE ~(b /\ port \in ExpectedPorts)
      <3>1. /\ kfRound' = [ports |-> kfRound.ports, out |-> [kfRound.out EXCEPT ![h] = "wrong"]]
            /\ UNCHANGED <<kfOpen, kfGave>> /\ kfProof' = {}
        BY <2>1, <2>2, <2>4, Zenon DEF Answered, Confirms, NoVerdict
      <3>2. /\ kfRound' # KfNone /\ kfRound'.ports = ExpectedPorts
            /\ kfRound'.out \in [kfHelpers -> {"pending", "failed", "wrong"}]
            /\ h \in kfHelpers => kfRound'.out[h] = "wrong"
            /\ \A k \in kfHelpers \ {h} : kfRound'.out[k] = kfRound.out[k]
        BY <1>2, <2>1, <3>1, OneOutcome, Zenon DEF RoundInv
      <3>3. Collecting'
        BY <1>1, <1>3, <2>1, <2>2, <3>1, <3>2, Zenon DEF Collecting
      <3>4. VerdictEarned' /\ RoundsEnd'
        BY <1>1, <2>1, <3>1, Zenon DEF Collecting, VerdictEarned, RoundsEnd
      <3> QED  BY <1>1, <1>2, <3>2, <3>3, <3>4, Zenon DEF RoundInv
    <2> QED  BY <2>3, <2>4, Zenon
  <1>5. CASE ~(kfRound # KfNone /\ h \in DOMAIN kfRound.out)
    <2>1. UNCHANGED <<kfRound, kfOpen, kfGave>>
      BY <1>5, Zenon DEF KfDatagram, NoVerdict
    <2>2. CASE kfAt = "ask" /\ kfRound = KfNone
      <3>1. kfGave' = TRUE /\ kfOpen' = TRUE /\ kfProof' # {}
        BY <1>3, <2>1, <2>2, Zenon DEF RoundInv, VerdictEarned
      <3>2. VerdictEarned' /\ RoundsEnd'
        BY <2>1, <2>2, <3>1, Zenon DEF VerdictEarned, RoundsEnd
      <3> QED  BY <1>1, <1>2, <2>1, <2>2, <3>1, <3>2, Zenon DEF RoundInv
    <2>3. CASE ~(kfAt = "ask" /\ kfRound = KfNone)
      <3>1. UNCHANGED <<kfHeard, kfProof>>
        <4>1. ~(kfAt = "ask" /\ h \in kfHelpers)
          BY <1>5, <2>3, Zenon DEF RoundInv, Collecting
        <4> QED  BY <4>1, Zenon DEF KfDatagram
      <3>2. VerdictEarned' /\ RoundsEnd'
        BY <1>1, <2>1, <3>1, Zenon DEF RoundInv, VerdictEarned, RoundsEnd
      <3>3. ASSUME kfRound # KfNone PROVE Collecting'
        BY <1>1, <2>1, <3>1, <3>3, Zenon DEF RoundInv, Collecting
      <3> QED  BY <1>1, <1>2, <2>1, <3>2, <3>3, Zenon DEF RoundInv
    <2> QED  BY <2>2, <2>3, Zenon
  <1> QED  BY <1>4, <1>5, Zenon

LEMMA FinishKeepsRound ==
    ASSUME RoundInv, PortsKnown', KfFinish
    PROVE  RoundInv'
  <1>1. /\ kfAt = "ask" /\ kfAt' = "idle" /\ \A h \in KfIps : kfAsk[h] = "no"
        /\ UNCHANGED <<kfAsk, kfHelpers, kfServed, kfHeard, kfProof>>
    BY Zenon DEF KfFinish
  <1>2. Asking' /\ kfHelpers # {} /\ kfHelpers \subseteq KfIps /\ kfServed \subseteq kfHelpers
    BY <1>1, Zenon DEF RoundInv, Asking
  <1>3. CASE kfRound = KfNone
    <2>1. UNCHANGED <<kfRound, kfOpen, kfGave>> /\ kfGave = TRUE
      BY <1>1, <1>3, Zenon DEF KfFinish, NoVerdict, RoundInv
    <2>2. VerdictEarned' /\ RoundsEnd'
      BY <1>1, <1>3, <2>1, Zenon DEF RoundInv, VerdictEarned, RoundsEnd
    <2> QED  BY <1>1, <1>2, <1>3, <2>1, <2>2, Zenon DEF RoundInv
  <1>4. CASE kfRound # KfNone
    <2>1. Collecting /\ Finished /\ DOMAIN kfRound.out = kfHelpers
      BY <1>4, Zenon DEF RoundInv, KfFinish, Collecting
    <2>2. "succeeded" \notin Outcomes
      BY <2>1, Zenon DEF Outcomes, Collecting
    <2>3. CASE Outcomes = {"failed"}
      <3>1. kfRound' = KfNone /\ UNCHANGED <<kfOpen, kfGave>>
        BY <2>1, <2>2, <2>3, Zenon DEF Finished, NoVerdict
      <3>2. kfServed = {}
        BY <1>2, <2>1, <2>3, Zenon DEF Outcomes, Collecting
      <3>3. VerdictEarned' /\ RoundsEnd'
        BY <1>1, <2>1, <3>1, <3>2, Zenon DEF Collecting, VerdictEarned, RoundsEnd
      <3> QED  BY <1>1, <1>2, <3>1, <3>3, Zenon DEF RoundInv
    <2>4. CASE Outcomes # {"failed"}
      <3>1. kfRound' = KfNone /\ kfOpen' = FALSE /\ kfGave' = TRUE /\ kfProof' = {}
        BY <1>1, <2>1, <2>2, <2>4, Zenon DEF Finished, Verdict, Collecting
      <3>2. PICK h \in kfHelpers : kfRound.out[h] # "failed"
        BY <1>2, <2>1, <2>4, Zenon DEF Outcomes
      <3>3. h \in kfServed \cup kfHeard
        BY <1>1, <1>2, <2>1, <3>2, Zenon DEF Collecting
      <3>4. VerdictEarned' /\ RoundsEnd'
        BY <1>1, <3>1, <3>3, Zenon DEF VerdictEarned, RoundsEnd
      <3> QED  BY <1>1, <1>2, <3>1, <3>4, Zenon DEF RoundInv
    <2> QED  BY <2>3, <2>4, Zenon
  <1> QED  BY <1>3, <1>4, Zenon

LEMMA StepKeepsRound ==
    ASSUME RoundInv, [KfNext]_kfVars
    PROVE  RoundInv'
  <1>1. PortsKnown'
    BY PortsKept, Zenon DEF RoundInv
  <1>2. CASE UNCHANGED kfUdpVars /\ (UNCHANGED <<kfAt, kfExternal>> \/ KfStart \/ KfDiscovered)
    <2>1. UNCHANGED <<kfRound, kfAsk, kfOpen, kfHelpers, kfServed, kfHeard, kfProof, kfGave>>
      BY <1>2, Zenon DEF kfUdpVars, kfLog
    <2>2. \/ UNCHANGED <<kfAt, kfExternal>>
          \/ kfAt \in {"idle", "discover"} /\ kfAt' \in {"discover", "ready"}
      BY <1>2, Zenon DEF KfStart, KfDiscovered
    <2>3. kfRound # KfNone => UNCHANGED kfExternal
      BY <2>2, Zenon DEF RoundInv, RoundsEnd
    <2>4. ASSUME kfRound # KfNone PROVE Collecting'
      <3>1. ExpectedPorts' = ExpectedPorts
        BY <2>3, <2>4, Zenon DEF ExpectedPorts
      <3> QED  BY <2>1, <2>4, <3>1, Zenon DEF RoundInv, Collecting
    <2>5. Asking'
      BY <2>1, <2>2, Zenon DEF RoundInv, Asking
    <2>6. VerdictEarned' /\ RoundsEnd'
      BY <2>1, <2>2, Zenon DEF RoundInv, VerdictEarned, RoundsEnd
    <2> QED  BY <1>1, <2>1, <2>2, <2>4, <2>5, <2>6, Zenon DEF RoundInv
  <1>3. CASE \/ KfStart \/ KfPingFails \/ KfDiscovered \/ KfNatMoves \/ KfRecheck \/ UNCHANGED kfVars
             \/ \E c \in KfContacts : KfPingSend(c)
             \/ \E port \in {0} \cup KfPorts : KfPong(port)
    BY <1>2, <1>3, Zenon DEF KfStart, KfPingFails, KfDiscovered, KfNatMoves, KfPingSend, KfPong, KfRecheck, kfVars,
                      KfServerSays, KfHello, KfReserve, KfAnswer, KfProbeFails
  <1> QED
    BY <1>1, <1>3, BeginKeepsRound, RequestKeepsRound, RequestEndKeepsRound, JoinKeepsRound,
       DatagramKeepsRound, FinishKeepsRound, Zenon
    DEF KfNext, KfUdp

-----------------------------------------------------------------------------
(* The TCP recheck                                                         *)

ProbeTasks == [at : {"new", "read", "sent", "done"}, ip : KfIps \cup {KfNone}, fw : BOOLEAN]

RecheckInv ==
    /\ kfTcp \in TcpRounds \cup {KfNone}
    /\ kfProbe \in [KfProbes -> ProbeTasks]
    /\ \A t \in KfProbes : kfProbe[t].at # "new" => kfProbe[t].ip \in KfIps
    /\ kfActive \in BOOLEAN /\ kfServer \in BOOLEAN
    /\ RecheckSlotsOwned

LEMMA RecheckInit == KfInit => RecheckInv
  <1> SUFFICES ASSUME KfInit PROVE RecheckInv
    OBVIOUS
  <1>1. kfProbe \in [KfProbes -> ProbeTasks] /\ \A t \in KfProbes : kfProbe[t].at = "new"
    BY Zenon DEF KfInit, ProbeTasks
  <1> QED  BY <1>1, Zenon DEF KfInit, RecheckInv, RecheckSlotsOwned

\* One recheck task reaches its next stage.
LEMMA OneProbe ==
    ASSUME RecheckInv, NEW t \in KfProbes, NEW st \in {"read", "sent", "done"},
           kfProbe[t].at # "new", kfProbe' = [kfProbe EXCEPT ![t].at = st]
    PROVE  /\ kfProbe' \in [KfProbes -> ProbeTasks]
           /\ kfProbe'[t].at = st /\ kfProbe'[t].ip = kfProbe[t].ip
           /\ \A u \in KfProbes \ {t} : kfProbe'[u] = kfProbe[u]
           /\ \A u \in KfProbes : kfProbe'[u].at # "new" => kfProbe'[u].ip \in KfIps
  <1> DEFINE d == [kfProbe[t] EXCEPT !.at = st]
  <1>1. kfProbe[t] \in ProbeTasks
    BY Zenon DEF RecheckInv
  <1>2. d \in ProbeTasks /\ d.at = st /\ d.ip = kfProbe[t].ip
    BY <1>1, Zenon DEF ProbeTasks
  <1>3. kfProbe' = [kfProbe EXCEPT ![t] = d]
    OBVIOUS
  <1> HIDE DEF d
  <1> QED  BY <1>2, <1>3, Zenon DEF RecheckInv

LEMMA HelloKeepsRecheck ==
    ASSUME RecheckInv, NEW t \in KfProbes, NEW ip \in KfIps, KfHello(t, ip)
    PROVE  RecheckInv'
  <1> DEFINE d == [at |-> "read", ip |-> ip, fw |-> kfServer]
  <1>1. d \in ProbeTasks /\ d.at = "read" /\ d.ip = ip
    BY Zenon DEF ProbeTasks, RecheckInv
  <1>2. /\ kfProbe' = [kfProbe EXCEPT ![t] = d] /\ kfProbe[t].at = "new"
        /\ UNCHANGED <<kfServer, kfTcp, kfActive>>
    BY Zenon DEF KfHello
  <1> HIDE DEF d
  <1>3. kfProbe' \in [KfProbes -> ProbeTasks] /\ kfProbe'[t] = d /\ \A u \in KfProbes \ {t} : kfProbe'[u] = kfProbe[u]
    BY <1>1, <1>2, Zenon DEF RecheckInv
  <1> QED  BY <1>1, <1>2, <1>3, Zenon DEF RecheckInv, RecheckSlotsOwned

\* The round a task finds or starts.
LEMMA RefreshedRound ==
    ASSUME RecheckInv
    PROVE  /\ Refreshed \in TcpRounds
           /\ \A ip \in Refreshed.active : \E t \in KfProbes : kfProbe[t].at = "sent" /\ kfProbe[t].ip = ip
  <1>1. CASE kfTcp = KfNone
    <2>1. Refreshed = [active |-> {}, done |-> 0]
      BY <1>1, Zenon DEF Refreshed
    <2> QED  BY <2>1, Zenon DEF TcpRounds
  <1>2. CASE kfTcp # KfNone
    BY <1>2, Zenon DEF Refreshed, RecheckInv, RecheckSlotsOwned
  <1> QED  BY <1>1, <1>2, Zenon

\* No round equals the value that stands for none.
LEMMA RoundIsSome == KfNone \notin TcpRounds
  BY KfAssumption, Zenon DEF TcpRounds

LEMMA ReserveKeepsRecheck ==
    ASSUME RecheckInv, NEW t \in KfProbes, KfReserve(t)
    PROVE  RecheckInv'
  <1> DEFINE ip == kfProbe[t].ip
  <1>1. kfProbe[t].at = "read" /\ ip \in KfIps /\ kfServer' = kfServer
    BY Zenon DEF KfReserve, RecheckInv
  <1>2. CASE kfTcp' = KfNone /\ kfActive' = FALSE /\ ProbeEnds(t)
    BY <1>1, <1>2, OneProbe, Zenon DEF ProbeEnds, RecheckInv, RecheckSlotsOwned
  <1>3. CASE kfTcp' = Refreshed /\ kfActive' = TRUE /\ ProbeEnds(t)
    BY <1>1, <1>3, OneProbe, RefreshedRound, RoundIsSome, ZenonT(40) DEF ProbeEnds, RecheckInv, RecheckSlotsOwned
  <1>4. CASE /\ kfTcp' = [Refreshed EXCEPT !.active = @ \cup {ip}] /\ kfActive' = TRUE
             /\ kfProbe' = [kfProbe EXCEPT ![t].at = "sent"]
    <2>1. Refreshed \in TcpRounds
      BY RefreshedRound, Zenon
    <2>2. kfTcp' \in TcpRounds /\ kfTcp'.active = Refreshed.active \cup {ip}
      BY <1>1, <1>4, <2>1, Zenon DEF TcpRounds
    <2>3. \A a \in kfTcp'.active : \E u \in KfProbes : kfProbe'[u].at = "sent" /\ kfProbe'[u].ip = a
      <3>1. /\ kfProbe'[t].at = "sent" /\ kfProbe'[t].ip = ip
            /\ \A u \in KfProbes \ {t} : kfProbe'[u] = kfProbe[u]
        BY <1>1, <1>4, OneProbe, Zenon
      <3>2. \A a \in Refreshed.active : \E u \in KfProbes : kfProbe[u].at = "sent" /\ kfProbe[u].ip = a
        BY RefreshedRound, Zenon
      <3>3. \A a \in Refreshed.active : \E u \in KfProbes \ {t} : kfProbe[u].at = "sent" /\ kfProbe[u].ip = a
        BY <1>1, <3>2, Zenon
      <3> QED  BY <2>2, <3>1, <3>3
    <2> QED  BY <1>1, <1>4, <2>2, <2>3, OneProbe, RoundIsSome, Zenon DEF RecheckInv, RecheckSlotsOwned
  <1> QED  BY <1>2, <1>3, <1>4, Zenon DEF KfReserve

\* A task that ends leaves the slots of the other addresses as they are.
LEMMA EndKeepsRecheck ==
    ASSUME RecheckInv, NEW t \in KfProbes, KfAnswer(t) \/ KfProbeFails(t)
    PROVE  RecheckInv'
  <1> DEFINE ip == kfProbe[t].ip
  <1>1. kfProbe[t].at = "sent" /\ kfServer' = kfServer /\ kfProbe' = [kfProbe EXCEPT ![t].at = "done"]
    BY Zenon DEF KfAnswer, KfProbeFails, ProbeEnds
  <1>2. /\ kfProbe' \in [KfProbes -> ProbeTasks] /\ \A u \in KfProbes \ {t} : kfProbe'[u] = kfProbe[u]
        /\ \A u \in KfProbes : kfProbe'[u].at # "new" => kfProbe'[u].ip \in KfIps
    BY <1>1, OneProbe, Zenon
  <1>3. CASE kfTcp' = KfNone /\ kfActive' = FALSE
    BY <1>1, <1>2, <1>3, Zenon DEF RecheckInv, RecheckSlotsOwned
  <1>4. ASSUME NEW d \in Nat, kfTcp # KfNone, kfActive' = TRUE,
               kfTcp' = [active |-> kfTcp.active \ {ip}, done |-> d]
        PROVE  RecheckInv'
    <2>1. kfTcp'.active = kfTcp.active \ {ip} /\ kfTcp' \in TcpRounds
      BY <1>4, Zenon DEF RecheckInv, TcpRounds
    <2>2. \A a \in kfTcp'.active : \E u \in KfProbes : kfProbe'[u].at = "sent" /\ kfProbe'[u].ip = a
      BY <1>2, <1>4, <2>1, Zenon DEF RecheckInv, RecheckSlotsOwned
    <2> QED  BY <1>1, <1>2, <1>4, <2>1, <2>2, RoundIsSome, Zenon DEF RecheckInv, RecheckSlotsOwned
  <1>5. CASE KfAnswer(t)
    <2>1. CASE kfTcp # KfNone /\ ip \in kfTcp.active
      <3>1. kfTcp.done + 1 \in Nat /\ kfTcp.done + 1 \in Int /\ KfLimit \in Int
        BY <2>1, KfAssumption DEF RecheckInv, TcpRounds
      <3>2. /\ kfActive' = (kfTcp.done + 1 < KfLimit)
            /\ kfTcp' = IF kfTcp.done + 1 >= KfLimit THEN KfNone
                        ELSE [active |-> kfTcp.active \ {ip}, done |-> kfTcp.done + 1]
        BY <1>5, <2>1, Zenon DEF KfAnswer
      <3>3. CASE kfTcp.done + 1 >= KfLimit
        <4>1. (kfTcp.done + 1 < KfLimit) = FALSE
          BY <3>1, <3>3
        <4> QED  BY <1>3, <3>2, <3>3, <4>1, Zenon
      <3>4. CASE ~(kfTcp.done + 1 >= KfLimit)
        <4>1. (kfTcp.done + 1 < KfLimit) = TRUE
          BY <3>1, <3>4
        <4> QED  BY <1>4, <2>1, <3>1, <3>2, <3>4, <4>1, Zenon
      <3> QED  BY <3>3, <3>4, Zenon
    <2>2. CASE ~(kfTcp # KfNone /\ ip \in kfTcp.active)
      <3>1. UNCHANGED <<kfTcp, kfActive>>
        BY <1>5, <2>2, Zenon DEF KfAnswer
      <3> QED  BY <1>1, <1>2, <2>2, <3>1 DEF RecheckInv, RecheckSlotsOwned
    <2> QED  BY <2>1, <2>2, Zenon
  <1>6. CASE KfProbeFails(t)
    <2>1. kfActive' = kfActive /\ kfTcp' = Released(ip)
      BY <1>6, Zenon DEF KfProbeFails
    <2>2. CASE kfTcp = KfNone
      BY <1>3, <2>1, <2>2, Zenon DEF Released, RecheckInv, RecheckSlotsOwned
    <2>3. CASE kfTcp # KfNone
      <3>1. kfTcp.done \in Nat /\ kfActive = TRUE
        BY <2>3, Zenon DEF RecheckInv, TcpRounds, RecheckSlotsOwned
      <3> QED  BY <1>4, <2>1, <2>3, <3>1, Zenon DEF Released
    <2> QED  BY <2>2, <2>3, SMTT(40)
  <1> QED  BY <1>5, <1>6, Zenon

LEMMA StepKeepsRecheck ==
    ASSUME RecheckInv, [KfNext]_kfVars
    PROVE  RecheckInv'
  <1>1. CASE UNCHANGED kfTcpVars
    BY <1>1, Zenon DEF kfTcpVars, RecheckInv, RecheckSlotsOwned
  <1>2. CASE KfUdp \/ UNCHANGED kfVars
    BY <1>1, <1>2, Zenon DEF KfUdp, kfVars, KfStart, KfPingFails, KfDiscovered, KfFinish, KfNatMoves, KfPingSend, KfPong,
                      KfBegin, KfRequest, KfRequestEnds, KfJoin, KfDatagram
  <1>3. CASE KfServerSays
    BY <1>3, Zenon DEF KfServerSays, RecheckInv, RecheckSlotsOwned
  <1> QED
    BY <1>2, <1>3, HelloKeepsRecheck, ReserveKeepsRecheck, EndKeepsRecheck, Zenon DEF KfNext, KfRecheck

-----------------------------------------------------------------------------
\* However requests, failures, late and repeated answers, timeouts and changes
\* of the server's verdict interleave: the external port was reported by two
\* addresses, a round gives the verdict its own time earned, no round outlives its
\* task, and every recheck slot has a task that gives it back.
THEOREM ChecksAlwaysSound == KfSpec => []ChecksSound
  <1>1. DiscInv /\ RoundInv /\ RecheckInv => ChecksSound
    BY Zenon DEF DiscInv, RoundInv, RecheckInv, ChecksSound
  <1>2. DiscInv /\ [KfNext]_kfVars => DiscInv'
    BY StepKeepsDisc, Zenon
  <1>3. RoundInv /\ [KfNext]_kfVars => RoundInv'
    BY StepKeepsRound, Zenon
  <1>4. RecheckInv /\ [KfNext]_kfVars => RecheckInv'
    BY StepKeepsRecheck, Zenon
  <1> QED  BY <1>1, <1>2, <1>3, <1>4, DiscInit, RoundInit, RecheckInit, PTL DEF KfSpec
=============================================================================
