-------------------------- MODULE FullscreenProofs --------------------------
(***************************************************************************)
(* Proofs about the fullscreen path: the attachment of the renderer to a   *)
(* game, the frames the overlay hands it through shared memory, and the    *)
(* capture of the player's input.  Each part is about the specification of *)
(* its own module, for every value of that module's constants.             *)
(***************************************************************************)
EXTENDS RendererAttach, FrameBridge, FullscreenInteraction, TLAPS

-----------------------------------------------------------------------------
(* The attachment of the renderer.                                         *)

LEMMA AttachStarts == AttachInit => AttachInv
<1> SUFFICES ASSUME AttachInit PROVE AttachInv
  OBVIOUS
<1> USE DEF AttachInit, Idle, NewControl, AllOut
<1>1. AttachTypeOK
  BY DEF AttachTypeOK, Backends, Places, ProbePlaces, ThreadPlaces
<1>2. InjectorIsAlone /\ ModulesAreCounted
  BY DEF InjectorIsAlone, ModulesAreCounted, Renderer
<1>3. HooksComeFirst /\ DetectionIsOwn
  BY DEF HooksComeFirst, DetectionIsOwn
<1> QED
  BY <1>1, <1>2, <1>3 DEF AttachInv

\* An injector that is down knows nothing.
LEMMA DownFacts ==
  ASSUME InjectorDown
  PROVE  /\ inj' \in [at : Places, target : Nat, attached : BOOLEAN,
                      found : Backends \cup {"none"}]
         /\ inj'.at = "down" /\ inj'.target = 0
         /\ session' = FALSE
<1>1. inj' = [at |-> "down", target |-> 0, attached |-> FALSE, found |-> "none"]
  BY DEF InjectorDown, Idle
<1>2. session' = FALSE
  BY DEF InjectorDown
<1> QED
  BY <1>1, <1>2 DEF Places

\* The game starts, ends, or crashes in a detour that is gone.
LEMMA GameKeeps ==
  ASSUME AttachInv, GameStarts \/ GameExits \/ \E t \in Threads : Crash(t)
  PROVE  AttachInv'
<1> USE DEF AttachInv
<1>1. ASSUME GameStarts PROVE AttachInv'
  <2>1. AttachTypeOK'
    BY <1>1 DEF GameStarts, detour, AttachTypeOK
  <2>2. HooksComeFirst'
    BY <1>1 DEF GameStarts, detour, HooksComeFirst
  <2>3. InjectorIsAlone'
    BY <1>1 DEF GameStarts, AttachTypeOK, InjectorIsAlone, Renderer
  <2>4. ModulesAreCounted'
    BY <1>1 DEF GameStarts, ModulesAreCounted, Renderer
  <2>5. DetectionIsOwn'
    BY <1>1 DEF GameStarts, AttachTypeOK, InjectorIsAlone, DetectionIsOwn, TargetLives
  <2> QED
    BY <2>1, <2>2, <2>3, <2>4, <2>5
<1>2. ASSUME GameExits PROVE AttachInv'
  <2>1. AttachTypeOK'
    BY <1>2 DEF GameExits, GameOver, AllOut, AttachTypeOK, ThreadPlaces, ProbePlaces
  <2>2. InjectorIsAlone'
    BY <1>2 DEF GameExits, GameOver, AllOut, InjectorIsAlone, Renderer
  <2>3. ModulesAreCounted'
    BY <1>2 DEF GameExits, GameOver, AllOut, ModulesAreCounted, Renderer
  <2>4. HooksComeFirst'
    BY <1>2 DEF GameExits, GameOver, AllOut, HooksComeFirst
  <2>5. DetectionIsOwn'
    BY <1>2 DEF GameExits, GameOver, AllOut, DetectionIsOwn, TargetLives
  <2> QED
    BY <2>1, <2>2, <2>3, <2>4, <2>5
<1>3. ASSUME NEW t \in Threads, Crash(t) PROVE AttachInv'
  <2>1. AttachTypeOK'
    BY <1>3 DEF Crash, GameOver, AllOut, AttachTypeOK, ThreadPlaces, ProbePlaces
  <2>2. InjectorIsAlone'
    BY <1>3 DEF Crash, GameOver, AllOut, InjectorIsAlone, Renderer
  <2>3. ModulesAreCounted'
    BY <1>3 DEF Crash, GameOver, AllOut, ModulesAreCounted, Renderer
  <2>4. HooksComeFirst'
    BY <1>3 DEF Crash, GameOver, AllOut, HooksComeFirst
  <2>5. DetectionIsOwn'
    BY <1>3 DEF Crash, GameOver, AllOut, DetectionIsOwn, TargetLives
  <2> QED
    BY <2>1, <2>2, <2>3, <2>4, <2>5
<1> QED
  BY <1>1, <1>2, <1>3

\* The injector.
LEMMA InjectorKeeps ==
  ASSUME AttachInv, InjectorStarts \/ InjectorCrashes \/ InjectorStep
  PROVE  AttachInv'
<1> USE DEF AttachInv
<1>1. ASSUME InjectorStarts PROVE AttachInv'
  <2>1. AttachTypeOK'
    BY <1>1 DEF InjectorStarts, Idle, detour, AttachTypeOK, Places
  <2>2. ModulesAreCounted'
    BY <1>1 DEF InjectorStarts, ModulesAreCounted, Renderer
  <2>3. InjectorIsAlone'
    BY <1>1 DEF InjectorStarts, Idle, AttachTypeOK, InjectorIsAlone
  <2>4. HooksComeFirst'
    BY <1>1 DEF InjectorStarts, Idle, detour, HooksComeFirst
  <2>5. DetectionIsOwn'
    BY <1>1 DEF InjectorStarts, Idle, InjectorIsAlone, DetectionIsOwn
  <2> QED
    BY <2>1, <2>2, <2>3, <2>4, <2>5
<1>2. ASSUME InjectorCrashes PROVE AttachInv'
  <2>1. AttachTypeOK'
    BY <1>2, DownFacts DEF InjectorCrashes, detour, AttachTypeOK
  <2>2. ModulesAreCounted'
    BY <1>2, DownFacts DEF InjectorCrashes, ModulesAreCounted, Renderer
  <2>3. InjectorIsAlone'
    BY <1>2, DownFacts DEF InjectorCrashes, AttachTypeOK, InjectorIsAlone
  <2>4. HooksComeFirst'
    BY <1>2, DownFacts DEF InjectorCrashes, detour, HooksComeFirst
  <2>5. DetectionIsOwn'
    BY <1>2, DownFacts DEF InjectorCrashes, DetectionIsOwn
  <2> QED
    BY <2>1, <2>2, <2>3, <2>4, <2>5
<1>3. ASSUME Track PROVE AttachInv'
  <2>1. AttachTypeOK'
    BY <1>3 DEF Track, Idle, detour, AttachTypeOK, Places
  <2>2. ModulesAreCounted'
    BY <1>3 DEF Track, ModulesAreCounted, Renderer
  <2>3. InjectorIsAlone'
    BY <1>3 DEF Track, Idle, AttachTypeOK, InjectorIsAlone
  <2>4. HooksComeFirst'
    BY <1>3 DEF Track, Idle, detour, HooksComeFirst
  <2>5. DetectionIsOwn'
    BY <1>3 DEF Track, Idle, InjectorIsAlone, DetectionIsOwn
  <2> QED
    BY <2>1, <2>2, <2>3, <2>4, <2>5
<1>4. ASSUME ReadModules PROVE AttachInv'
  <2>1. AttachTypeOK'
    BY <1>4 DEF ReadModules, MayProbe, detour, AttachTypeOK, Places
  <2>2. ModulesAreCounted'
    BY <1>4 DEF ReadModules, ModulesAreCounted, Renderer
  <2>3. InjectorIsAlone'
    BY <1>4 DEF ReadModules, MayProbe, InjectorIsAlone, Renderer
  <2>4. HooksComeFirst'
    BY <1>4 DEF ReadModules, MayProbe, detour, HooksComeFirst
  <2>5. DetectionIsOwn'
    BY <1>4 DEF ReadModules, MayProbe, InjectorIsAlone, DetectionIsOwn
  <2> QED
    BY <2>1, <2>2, <2>3, <2>4, <2>5
<1>5. ASSUME ModulesUnreadable PROVE AttachInv'
  <2>1. AttachTypeOK'
    BY <1>5, DownFacts DEF ModulesUnreadable, detour, AttachTypeOK
  <2>2. ModulesAreCounted'
    BY <1>5, DownFacts DEF ModulesUnreadable, ModulesAreCounted, Renderer
  <2>3. InjectorIsAlone'
    BY <1>5, DownFacts DEF ModulesUnreadable, AttachTypeOK, InjectorIsAlone
  <2>4. HooksComeFirst'
    BY <1>5, DownFacts DEF ModulesUnreadable, detour, HooksComeFirst
  <2>5. DetectionIsOwn'
    BY <1>5, DownFacts DEF ModulesUnreadable, DetectionIsOwn
  <2> QED
    BY <2>1, <2>2, <2>3, <2>4, <2>5
<1>6. ASSUME Recheck PROVE AttachInv'
  <2>1. AttachTypeOK'
    BY <1>6 DEF Recheck, detour, AttachTypeOK
  <2>2. ModulesAreCounted'
    BY <1>6 DEF Recheck, ModulesAreCounted, Renderer
  <2>3. InjectorIsAlone'
    BY <1>6 DEF Recheck, InjectorIsAlone
  <2>4. HooksComeFirst'
    BY <1>6 DEF Recheck, detour, HooksComeFirst
  <2>5. DetectionIsOwn'
    BY <1>6 DEF Recheck, InjectorIsAlone, DetectionIsOwn
  <2> QED
    BY <2>1, <2>2, <2>3, <2>4, <2>5
<1>7. ASSUME CreateSession PROVE AttachInv'
  <2>1. CASE ProbeMaps
    <3>1. inj' = [inj EXCEPT !.at = "poll"] /\ inj.at = "select"
          /\ UNCHANGED <<game, mods, loads, session, ctl, probe, detour>>
      BY <1>7, <2>1 DEF CreateSession
    <3>2. ~session /\ inj'.at = "poll" /\ inj'.target = inj.target
      BY <3>1 DEF InjectorIsAlone
    <3>3. AttachTypeOK'
      BY <3>1 DEF AttachTypeOK, Places, detour
    <3> QED
      BY <3>1, <3>2, <3>3
         DEF InjectorIsAlone, ModulesAreCounted, HooksComeFirst,
             DetectionIsOwn, Renderer, detour
  <2>2. CASE ~ProbeMaps
    <3>1. /\ inj' = [inj EXCEPT !.at = "probe"] /\ inj.at = "select"
          /\ session' = TRUE /\ ctl' = NewControl
          /\ UNCHANGED <<game, mods, loads, probe, detour>>
      BY <1>7, <2>2 DEF CreateSession
    <3>2. /\ inj'.at = "probe" /\ inj'.target = inj.target
          /\ ctl'.state = "initializing" /\ probe = "none" /\ "probe" \notin mods
      BY <3>1 DEF NewControl, InjectorIsAlone, ModulesAreCounted
    <3>3. AttachTypeOK'
      BY <3>1 DEF AttachTypeOK, Places, NewControl, detour
    <3> QED
      BY <3>1, <3>2, <3>3
         DEF InjectorIsAlone, ModulesAreCounted, HooksComeFirst,
             DetectionIsOwn, Renderer, detour
  <2> QED
    BY <2>1, <2>2
<1>8. ASSUME Override PROVE AttachInv'
  <2>1. AttachTypeOK'
    BY <1>8 DEF Override, detour, AttachTypeOK, Places
  <2>2. ModulesAreCounted'
    BY <1>8 DEF Override, ModulesAreCounted, Renderer
  <2>3. InjectorIsAlone'
    BY <1>8 DEF Override, AttachTypeOK, InjectorIsAlone, Renderer
  <2>4. HooksComeFirst'
    BY <1>8 DEF Override, detour, HooksComeFirst
  <2>5. DetectionIsOwn'
    BY <1>8 DEF Override, InjectorIsAlone, DetectionIsOwn
  <2> QED
    BY <2>1, <2>2, <2>3, <2>4, <2>5
<1>9. ASSUME InjectProbe PROVE AttachInv'
  <2>1. AttachTypeOK'
    BY <1>9 DEF InjectProbe, detour, AttachTypeOK, Places, ProbePlaces
  <2>2. InjectorIsAlone'
    BY <1>9 DEF InjectProbe, InjectorIsAlone, Renderer, Backends
  <2>3. ModulesAreCounted'
    BY <1>9
       DEF InjectProbe, InjectorIsAlone, ModulesAreCounted, Renderer,
           TargetLives, Backends
  <2>4. HooksComeFirst'
    BY <1>9 DEF InjectProbe, detour, InjectorIsAlone, ModulesAreCounted, HooksComeFirst
  <2>5. DetectionIsOwn'
    BY <1>9 DEF InjectProbe, detour, DetectionIsOwn
  <2> QED
    BY <2>1, <2>2, <2>3, <2>4, <2>5
<1>10. ASSUME DetectionFails PROVE AttachInv'
  <2>1. AttachTypeOK'
    BY <1>10 DEF DetectionFails, Fault, detour, AttachTypeOK, Places
  <2>2. ModulesAreCounted'
    BY <1>10 DEF DetectionFails, ModulesAreCounted, Renderer
  <2>3. InjectorIsAlone'
    BY <1>10 DEF DetectionFails, Fault, InjectorIsAlone
  <2>4. HooksComeFirst'
    BY <1>10 DEF DetectionFails, Fault, detour, HooksComeFirst
  <2>5. DetectionIsOwn'
    BY <1>10 DEF DetectionFails, Fault, DetectionIsOwn
  <2> QED
    BY <2>1, <2>2, <2>3, <2>4, <2>5
<1>11. ASSUME ReadResult PROVE AttachInv'
  <2>1. AttachTypeOK'
    BY <1>11 DEF ReadResult, detour, AttachTypeOK, Places
  <2>2. ModulesAreCounted'
    BY <1>11 DEF ReadResult, ModulesAreCounted, Renderer
  <2>3. InjectorIsAlone'
    BY <1>11 DEF ReadResult, InjectorIsAlone, Renderer
  <2>4. HooksComeFirst'
    BY <1>11 DEF ReadResult, detour, HooksComeFirst
  <2>5. DetectionIsOwn'
    BY <1>11 DEF ReadResult, detour, DetectionIsOwn, TargetLives
  <2> QED
    BY <2>1, <2>2, <2>3, <2>4, <2>5
<1>12. ASSUME AwaitUnload PROVE AttachInv'
  <2>1. AttachTypeOK'
    BY <1>12 DEF AwaitUnload, Unloaded, detour, AttachTypeOK, Places
  <2>2. ModulesAreCounted'
    BY <1>12 DEF AwaitUnload, ModulesAreCounted, Renderer
  <2>3. InjectorIsAlone'
    BY <1>12 DEF AwaitUnload, Unloaded, AttachTypeOK, InjectorIsAlone, Renderer
  <2>4. HooksComeFirst'
    BY <1>12 DEF AwaitUnload, Unloaded, detour, HooksComeFirst
  <2>5. DetectionIsOwn'
    BY <1>12 DEF AwaitUnload, Unloaded, DetectionIsOwn
  <2> QED
    BY <2>1, <2>2, <2>3, <2>4, <2>5
<1>13. ASSUME LoadRenderer PROVE AttachInv'
  <2>1. /\ inj.at = "load" /\ inj.found \in Backends /\ Renderer = {} /\ "probe" \notin mods
        /\ ~session /\ loads = 0 /\ game.alive
    BY <1>13 DEF LoadRenderer, TargetLives, InjectorIsAlone, ModulesAreCounted
  <2>2. /\ mods' = mods \cup {inj.found} /\ loads' = 1
        /\ UNCHANGED <<game, ctl, probe, hooked, th>>
    BY <1>13, <2>1 DEF LoadRenderer, detour
  <2>3. /\ inj' \in [at : Places, target : Nat, attached : BOOLEAN,
                     found : Backends \cup {"none"}]
        /\ inj'.at \in {"poll", "down"} /\ inj'.target \in {0, inj.target}
        /\ session' = FALSE
    <3>1. CASE inj' = [inj EXCEPT !.at = "poll", !.attached = TRUE] /\ UNCHANGED session
      BY <2>1, <3>1 DEF AttachTypeOK, Places
    <3>2. CASE InjectorDown
      BY <3>2, DownFacts
    <3> QED
      BY <1>13, <3>1, <3>2 DEF LoadRenderer
  <2>4. AttachTypeOK'
    BY <2>1, <2>2, <2>3 DEF AttachTypeOK
  <2>5. InjectorIsAlone'
    BY <2>2, <2>3 DEF InjectorIsAlone, AttachTypeOK
  <2>6. ModulesAreCounted'
    BY <2>1, <2>2, <2>3 DEF ModulesAreCounted, Renderer, Backends
  <2>7. HooksComeFirst' /\ DetectionIsOwn'
    BY <2>2, <2>3 DEF HooksComeFirst, DetectionIsOwn
  <2> QED
    BY <2>4, <2>5, <2>6, <2>7
<1>14. ASSUME LoadFails PROVE AttachInv'
  <2>1. AttachTypeOK'
    BY <1>14, DownFacts DEF LoadFails, detour, AttachTypeOK
  <2>2. ModulesAreCounted'
    BY <1>14, DownFacts DEF LoadFails, ModulesAreCounted, Renderer
  <2>3. InjectorIsAlone'
    BY <1>14, DownFacts DEF LoadFails, AttachTypeOK, InjectorIsAlone
  <2>4. HooksComeFirst'
    BY <1>14, DownFacts DEF LoadFails, detour, HooksComeFirst
  <2>5. DetectionIsOwn'
    BY <1>14, DownFacts DEF LoadFails, DetectionIsOwn
  <2> QED
    BY <2>1, <2>2, <2>3, <2>4, <2>5
<1> QED
  BY <1>1, <1>2, <1>3, <1>4, <1>5, <1>6, <1>7, <1>8, <1>9, <1>10, <1>11, <1>12, <1>13, <1>14
     DEF InjectorStep

\* The probe's thread.
LEMMA ProbeKeeps ==
  ASSUME AttachInv, ProbeStep \/ InstallFails
  PROVE  AttachInv'
<1> USE DEF AttachInv
<1>1. ASSUME OpenMapping PROVE AttachInv'
  <2>1. AttachTypeOK'
    BY <1>1 DEF OpenMapping, AttachTypeOK, ProbePlaces
  <2>2. InjectorIsAlone' /\ DetectionIsOwn'
    BY <1>1 DEF OpenMapping, InjectorIsAlone, DetectionIsOwn, Renderer, TargetLives
  <2>3. ModulesAreCounted'
    BY <1>1 DEF OpenMapping, ModulesAreCounted, Renderer
  <2>4. HooksComeFirst'
    BY <1>1 DEF OpenMapping, HooksComeFirst
  <2> QED
    BY <2>1, <2>2, <2>3, <2>4
<1>2. ASSUME InstallHooks PROVE AttachInv'
  <2>1. AttachTypeOK'
    BY <1>2 DEF InstallHooks, AttachTypeOK, ProbePlaces
  <2>2. InjectorIsAlone' /\ DetectionIsOwn'
    BY <1>2 DEF InstallHooks, InjectorIsAlone, DetectionIsOwn, Renderer, TargetLives
  <2>3. ModulesAreCounted'
    BY <1>2 DEF InstallHooks, ModulesAreCounted, Renderer
  <2>4. HooksComeFirst'
    BY <1>2 DEF InstallHooks, HooksComeFirst
  <2> QED
    BY <2>1, <2>2, <2>3, <2>4
<1>3. ASSUME InstallFails PROVE AttachInv'
  <2>1. AttachTypeOK'
    BY <1>3 DEF InstallFails, Fault, detour, AttachTypeOK, ProbePlaces
  <2>2. InjectorIsAlone'
    BY <1>3 DEF InstallFails, InjectorIsAlone, Renderer
  <2>3. ModulesAreCounted'
    BY <1>3 DEF InstallFails, Fault, ModulesAreCounted, Renderer
  <2>4. HooksComeFirst'
    BY <1>3
       DEF InstallFails, Fault, detour, InjectorIsAlone, ModulesAreCounted,
           HooksComeFirst
  <2>5. DetectionIsOwn'
    BY <1>3 DEF InstallFails, Fault, detour, DetectionIsOwn, TargetLives
  <2> QED
    BY <2>1, <2>2, <2>3, <2>4, <2>5
<1>4. ASSUME Run PROVE AttachInv'
  <2>1. AttachTypeOK'
    BY <1>4 DEF Run, MarkRunning, detour, AttachTypeOK, ProbePlaces
  <2>2. InjectorIsAlone'
    BY <1>4 DEF Run, InjectorIsAlone, Renderer
  <2>3. ModulesAreCounted'
    BY <1>4 DEF Run, MarkRunning, ModulesAreCounted, Renderer
  <2>4. HooksComeFirst'
    BY <1>4 DEF Run, MarkRunning, InjectorIsAlone, ModulesAreCounted, HooksComeFirst
  <2>5. DetectionIsOwn'
    BY <1>4 DEF Run, MarkRunning, detour, DetectionIsOwn, TargetLives
  <2> QED
    BY <2>1, <2>2, <2>3, <2>4, <2>5
<1>5. ASSUME WaitForStop PROVE AttachInv'
  <2>1. AttachTypeOK'
    BY <1>5 DEF WaitForStop, StopDue, detour, AttachTypeOK, ProbePlaces
  <2>2. InjectorIsAlone' /\ DetectionIsOwn'
    BY <1>5
       DEF WaitForStop, detour, InjectorIsAlone, DetectionIsOwn, Renderer,
           TargetLives
  <2>3. ModulesAreCounted'
    BY <1>5 DEF WaitForStop, StopDue, ModulesAreCounted, Renderer
  <2>4. HooksComeFirst'
    BY <1>5 DEF WaitForStop, StopDue, detour, HooksComeFirst
  <2> QED
    BY <2>1, <2>2, <2>3, <2>4
<1>6. ASSUME DisableHooks PROVE AttachInv'
  <2>1. AttachTypeOK'
    BY <1>6 DEF DisableHooks, AttachTypeOK, ProbePlaces
  <2>2. InjectorIsAlone' /\ DetectionIsOwn'
    BY <1>6 DEF DisableHooks, InjectorIsAlone, DetectionIsOwn, Renderer, TargetLives
  <2>3. ModulesAreCounted'
    BY <1>6 DEF DisableHooks, ModulesAreCounted, Renderer
  <2>4. HooksComeFirst'
    BY <1>6 DEF DisableHooks, HooksComeFirst
  <2> QED
    BY <2>1, <2>2, <2>3, <2>4
<1>7. ASSUME Drain PROVE AttachInv'
  <2>1. AttachTypeOK'
    BY <1>7 DEF Drain, AttachTypeOK, ProbePlaces
  <2>2. InjectorIsAlone' /\ DetectionIsOwn'
    BY <1>7 DEF Drain, InjectorIsAlone, DetectionIsOwn, Renderer, TargetLives
  <2>3. ModulesAreCounted'
    BY <1>7 DEF Drain, ModulesAreCounted, Renderer
  <2>4. HooksComeFirst'
    BY <1>7 DEF Drain, HooksComeFirst
  <2> QED
    BY <2>1, <2>2, <2>3, <2>4
<1>8. ASSUME ClearControl PROVE AttachInv'
  <2>1. AttachTypeOK'
    BY <1>8 DEF ClearControl, AttachTypeOK, ProbePlaces
  <2>2. InjectorIsAlone'
    BY <1>8 DEF ClearControl, InjectorIsAlone, Renderer
  <2>3. ModulesAreCounted'
    BY <1>8 DEF ClearControl, ModulesAreCounted, Renderer
  <2>4. HooksComeFirst'
    BY <1>8 DEF ClearControl, InjectorIsAlone, ModulesAreCounted, HooksComeFirst
  <2>5. DetectionIsOwn'
    BY <1>8 DEF ClearControl, DetectionIsOwn, TargetLives
  <2> QED
    BY <2>1, <2>2, <2>3, <2>4, <2>5
<1>9. ASSUME Unload PROVE AttachInv'
  <2>1. AttachTypeOK'
    BY <1>9 DEF Unload, detour, AttachTypeOK, ProbePlaces
  <2>2. InjectorIsAlone'
    BY <1>9 DEF Unload, InjectorIsAlone, Renderer
  <2>3. ModulesAreCounted'
    BY <1>9 DEF Unload, ModulesAreCounted, Renderer
  <2>4. HooksComeFirst'
    BY <1>9 DEF Unload, detour, HooksComeFirst
  <2>5. DetectionIsOwn'
    BY <1>9 DEF Unload, DetectionIsOwn, TargetLives
  <2> QED
    BY <2>1, <2>2, <2>3, <2>4, <2>5
<1> QED
  BY <1>1, <1>2, <1>3, <1>4, <1>5, <1>6, <1>7, <1>8, <1>9 DEF ProbeStep

\* The render threads.
LEMMA ThreadKeeps ==
  ASSUME AttachInv, \E t \in Threads : Enter(t) \/ Guard(t) \/ Inspect(t) \/ Publish(t) \/ CallTrampoline(t) \/ Leave(t)
  PROVE  AttachInv'
<1> USE DEF AttachInv
<1>1. ASSUME NEW t \in Threads, Enter(t) PROVE AttachInv'
  <2>1. AttachTypeOK'
    BY <1>1 DEF Enter, Move, AttachTypeOK, ThreadPlaces
  <2>2. InjectorIsAlone' /\ ModulesAreCounted'
    BY <1>1 DEF Enter, InjectorIsAlone, ModulesAreCounted, Renderer
  <2>3. HooksComeFirst'
    BY <1>1 DEF Enter, Move, HooksComeFirst
  <2>4. DetectionIsOwn'
    BY <1>1 DEF Enter, Move, DetectionIsOwn, TargetLives
  <2> QED
    BY <2>1, <2>2, <2>3, <2>4
<1>2. ASSUME NEW t \in Threads, Guard(t) PROVE AttachInv'
  <2>1. AttachTypeOK'
    BY <1>2 DEF Guard, Move, AttachTypeOK, ThreadPlaces
  <2>2. InjectorIsAlone' /\ ModulesAreCounted'
    BY <1>2 DEF Guard, InjectorIsAlone, ModulesAreCounted, Renderer
  <2>3. HooksComeFirst'
    BY <1>2 DEF Guard, Move, HooksComeFirst
  <2>4. DetectionIsOwn'
    BY <1>2 DEF Guard, Move, DetectionIsOwn, TargetLives
  <2> QED
    BY <2>1, <2>2, <2>3, <2>4
<1>3. ASSUME NEW t \in Threads, Inspect(t) PROVE AttachInv'
  <2>1. AttachTypeOK'
    BY <1>3 DEF Inspect, Move, AttachTypeOK, ThreadPlaces
  <2>2. InjectorIsAlone' /\ ModulesAreCounted'
    BY <1>3 DEF Inspect, InjectorIsAlone, ModulesAreCounted, Renderer
  <2>3. HooksComeFirst'
    BY <1>3 DEF Inspect, Move, HooksComeFirst
  <2>4. DetectionIsOwn'
    BY <1>3 DEF Inspect, Move, AttachTypeOK, DetectionIsOwn, TargetLives
  <2> QED
    BY <2>1, <2>2, <2>3, <2>4
<1>4. ASSUME NEW t \in Threads, Publish(t) PROVE AttachInv'
  <2>1. AttachTypeOK'
    BY <1>4 DEF Publish, PublishDetection, Move, AttachTypeOK, ThreadPlaces
  <2>2. InjectorIsAlone' /\ ModulesAreCounted'
    BY <1>4 DEF Publish, InjectorIsAlone, ModulesAreCounted, Renderer
  <2>3. HooksComeFirst'
    BY <1>4 DEF Publish, PublishDetection, Move, InjectorIsAlone, HooksComeFirst
  <2>4. DetectionIsOwn'
    BY <1>4
       DEF Publish, PublishDetection, Move, AttachTypeOK, DetectionIsOwn,
           TargetLives
  <2> QED
    BY <2>1, <2>2, <2>3, <2>4
<1>5. ASSUME NEW t \in Threads, CallTrampoline(t) PROVE AttachInv'
  <2>1. AttachTypeOK'
    BY <1>5 DEF CallTrampoline, Move, AttachTypeOK, ThreadPlaces
  <2>2. InjectorIsAlone' /\ ModulesAreCounted'
    BY <1>5 DEF CallTrampoline, InjectorIsAlone, ModulesAreCounted, Renderer
  <2>3. HooksComeFirst'
    BY <1>5 DEF CallTrampoline, Move, HooksComeFirst
  <2>4. DetectionIsOwn'
    BY <1>5 DEF CallTrampoline, Move, DetectionIsOwn, TargetLives
  <2> QED
    BY <2>1, <2>2, <2>3, <2>4
<1>6. ASSUME NEW t \in Threads, Leave(t) PROVE AttachInv'
  <2>1. AttachTypeOK'
    BY <1>6 DEF Leave, Move, AttachTypeOK, ThreadPlaces
  <2>2. InjectorIsAlone' /\ ModulesAreCounted'
    BY <1>6 DEF Leave, InjectorIsAlone, ModulesAreCounted, Renderer
  <2>3. HooksComeFirst'
    BY <1>6 DEF Leave, Move, HooksComeFirst
  <2>4. DetectionIsOwn'
    BY <1>6 DEF Leave, Move, DetectionIsOwn, TargetLives
  <2> QED
    BY <2>1, <2>2, <2>3, <2>4
<1> QED
  BY <1>1, <1>2, <1>3, <1>4, <1>5, <1>6

LEMMA AttachStep == AttachInv /\ [AttachNext]_attachVars => AttachInv'
<1> SUFFICES ASSUME AttachInv, [AttachNext]_attachVars PROVE AttachInv'
  OBVIOUS
<1>1. CASE AttachNext
  BY <1>1, GameKeeps, InjectorKeeps, ProbeKeeps, ThreadKeeps DEF AttachNext, ThreadStep
<1>2. CASE UNCHANGED attachVars
  BY <1>2
     DEF attachVars, AttachInv, AttachTypeOK, InjectorIsAlone, ModulesAreCounted,
         HooksComeFirst, DetectionIsOwn, Renderer, TargetLives
<1> QED
  BY <1>1, <1>2

\* What injector, probe and render threads rely on of each other, through
\* crashes of any of them: nobody else loads a library while the injector
\* decides, and no detour runs before its hook is there.
THEOREM AttachInvariant == AttachSpec => []AttachInv
  BY AttachStarts, AttachStep, PTL DEF AttachSpec

\* A game gets at most one renderer, never together with the probe, and a
\* detection the injector can read names the Direct3D of the game it probes, for
\* any number of games, faults and render threads.
THEOREM AttachAlwaysSafe == AttachSpec => []AttachIsSafe
<1>1. AttachInv => AttachIsSafe
  BY DEF AttachInv, ModulesAreCounted, DetectionIsOwn, AttachIsSafe, OneRenderer,
         RendererAfterProbe, DetectionIsComplete
<1> QED
  BY <1>1, AttachInvariant, PTL

\* The only steps that write the state of the control block.
LEMMA DetectionKept ==
  ASSUME AttachInv, [AttachNext]_attachVars, ctl.state = "detected", session
  PROVE  ctl'.state \in {"detected", "stopped"}
<1> USE DEF AttachInv
<1>1. ctl \in [state : {"initializing", "running", "detected", "failed", "stopped"},
               rhi : Backends \cup {"none"}, stop : BOOLEAN]
  BY DEF AttachTypeOK
<1>2. ~CreateSession
  BY DEF CreateSession, InjectorIsAlone
<1>3. ~InstallFails
  BY DEF InstallFails, HooksComeFirst
<1>4. CASE DetectionFails \/ ReadResult
  BY <1>1, <1>4 DEF DetectionFails, ReadResult
<1>5. CASE Run
  BY <1>1, <1>5 DEF Run, MarkRunning
<1>6. CASE ClearControl
  BY <1>1, <1>6 DEF ClearControl
<1>7. ASSUME NEW t \in Threads, Publish(t)
      PROVE  ctl'.state \in {"detected", "stopped"}
  BY <1>1, <1>7 DEF Publish, PublishDetection
<1>8. CASE UNCHANGED ctl
  BY <1>8
<1>9. CASE GameStarts \/ GameExits \/ InjectorStarts \/ InjectorCrashes \/ InjectorStep
  BY <1>2, <1>4, <1>8, <1>9
     DEF GameStarts, GameExits, InjectorStarts, InjectorCrashes, InjectorStep,
         Track, ReadModules, ModulesUnreadable, Recheck, Override, InjectProbe,
         AwaitUnload, LoadRenderer, LoadFails
<1>10. CASE ProbeStep
  BY <1>5, <1>6, <1>8, <1>10
     DEF ProbeStep, OpenMapping, InstallHooks, WaitForStop, DisableHooks, Drain,
         Unload
<1>11. ASSUME NEW t \in Threads, Enter(t) \/ ThreadStep(t)
       PROVE  ctl'.state \in {"detected", "stopped"}
  BY <1>7, <1>8, <1>11
     DEF Enter, ThreadStep, Guard, Inspect, CallTrampoline, Leave, Crash
<1> QED
  BY <1>3, <1>8, <1>9, <1>10, <1>11 DEF AttachNext, attachVars

\* A detection that was published, perhaps before the probe's thread got to its
\* next line, stays until the probe has stopped.
THEOREM DetectionAlwaysSurvives == AttachSpec => [][DetectionSurvives]_attachVars
<1>1. AttachInv /\ [AttachNext]_attachVars => [DetectionSurvives]_attachVars
  BY DetectionKept DEF DetectionSurvives
<1> QED
  BY <1>1, AttachInvariant, PTL DEF AttachSpec

----------------------------------------------------------------------------
(* The frames.  The order of the sequence numbers needs no more than that only  *)
(* the writer stores them; that a frame is whole needs the lock to be odd   *)
(* whenever the payload changes, which a writer that died inside a write    *)
(* and one that starts over it would break.                                 *)

FrameType == [seq: Nat, head: Nat, vis: BOOLEAN, lo: Nat, hi: Nat]

Initialising == writer.pc \in {"initGeometry", "initLease", "initEnd"}
Writing == writer.pc \in {"pubHead", "pubLo", "pubHi", "visStore", "end"}
Reading == reader.pc \in {"head", "lo", "hi", "after"}

FrameTypeOK ==
    /\ mem \in [seq: Nat, head: Nat, vis: BOOLEAN, lo: Nat, hi: Nat,
                heart: {"zero", "fresh", "stale"}, lease: {"zero", "fresh", "stale"},
                ready: BOOLEAN]
    /\ writer \in [pc: {"down", "idle", "initGeometry", "initLease", "initEnd", "pubHead",
                        "pubLo", "pubHi", "visStore", "end"},
                   odd: Nat, head: Nat, vis: BOOLEAN, gen: Nat]
    /\ reader \in [pc: {"closed", "poll", "load", "head", "lo", "hi", "after", "mark", "gone"},
                   before: Nat, copy: FrameType, last: Nat]
    /\ loop \in [alive: BOOLEAN, pending: FrameType, shown: FrameType]
    /\ suppressed \in BOOLEAN
    /\ published \subseteq [seq: Nat, head: Nat, vis: BOOLEAN]
    /\ used \in [frames: Nat, visibility: Nat, uploads: Nat]

\* A writer between two operations leaves the lock even, one that writes holds
\* the odd number it began with.
LockIsHeld ==
    /\ writer.pc = "idle" => Even(mem.seq)
    /\ Writing => mem.seq = writer.odd /\ ~Even(writer.odd)

\* No number that was ever loaded is above the present one, and the frame in
\* the mailbox is not older than the one presented.
NumbersGrow ==
    /\ Reading => reader.before <= mem.seq
    /\ loop.pending.seq <= mem.seq /\ loop.shown.seq <= mem.seq
    /\ loop.pending # NoFrame => loop.shown.seq <= loop.pending.seq

\* A writer that runs was started.
StartsCount == writer.pc # "down" => writer.gen >= 1

OrderInv == FrameTypeOK /\ LockIsHeld /\ NumbersGrow /\ StartsCount

\* No writer starts over a write that another one left unfinished.
NoTornRestart == ~KilledAnywhere \/ MaxStarts <= 1

\* An even lock is a lock nobody writes under.
EvenIsAtRest ==
    /\ Initialising => ~Even(mem.seq)
    /\ writer.pc = "down" => Even(mem.seq) \/ writer.gen >= MaxStarts

\* How far the writer has come
WriteProgress ==
    /\ writer.pc \in {"initLease", "initEnd"} => mem.head = 0
    /\ writer.pc \in {"pubLo", "pubHi", "end"} => mem.head = writer.head /\ mem.vis = writer.vis
    /\ writer.pc = "pubHi" => mem.lo = writer.head
    /\ writer.pc = "visStore" => mem.head = writer.head
    /\ writer.pc \in {"visStore", "end"} /\ mem.head # 0
         => mem.lo = mem.head /\ mem.hi = mem.head

\* What lies under an even lock is the frame published under its number.
PayloadIsWhole ==
    Even(mem.seq) /\ mem.head # 0 =>
      /\ mem.lo = mem.head /\ mem.hi = mem.head
      /\ \E p \in published: p.seq = mem.seq /\ p.head = mem.head /\ p.vis = mem.vis

\* What was copied so far is what is still there, unless the lock has moved on.
CopyIsCurrent ==
    /\ Reading => Even(reader.before)
    /\ reader.pc \in {"lo", "hi", "after"} /\ mem.seq = reader.before =>
         mem.head # 0 /\ reader.copy.head = mem.head /\ reader.copy.vis = mem.vis
    /\ reader.pc \in {"hi", "after"} /\ mem.seq = reader.before => reader.copy.lo = mem.lo
    /\ reader.pc = "after" /\ mem.seq = reader.before => reader.copy.hi = mem.hi

FrameInv ==
    OrderInv /\ EvenIsAtRest /\ WriteProgress /\ PayloadIsWhole /\ CopyIsCurrent /\ WholeFrame

\* What the bit operations of the sequence lock compute.
LEMMA ParityFacts ==
    ASSUME NEW n \in Nat
    PROVE  /\ Even(0)
           /\ Even(n) <=> ~Even(n + 1)
           /\ Even(n) => OddOf(n) = n + 1 /\ NextEven(n) = n
           /\ ~Even(n) => OddOf(n) = n /\ NextEven(n) = n + 1
           /\ NextEven(n) \in Nat /\ Even(NextEven(n)) /\ NextEven(n) >= n
           /\ OddOf(n) \in Nat /\ ~Even(OddOf(n)) /\ OddOf(n) >= n
  BY DEF Even, OddOf, NextEven

\* The types hold in every state: they are part of the two invariants.
LEMMA TypeStep == FrameTypeOK /\ [FrameNext]_frameVars => FrameTypeOK'
  <1> SUFFICES ASSUME FrameTypeOK, [FrameNext]_frameVars PROVE FrameTypeOK'
    OBVIOUS
  <1>p. /\ \A n \in Nat: NextEven(n) \in Nat /\ OddOf(n) \in Nat
        /\ NoFrame \in FrameType
    BY ParityFacts DEF NoFrame, FrameType
  <1> USE DEF FrameTypeOK
  <1>f. /\ mem.seq \in Nat /\ mem.seq + 1 \in Nat /\ mem.head \in Nat /\ mem.vis \in BOOLEAN /\ (~mem.vis) \in BOOLEAN
        /\ mem.lo \in Nat /\ mem.hi \in Nat /\ reader.copy \in FrameType /\ loop.pending \in FrameType
        /\ writer.gen + 1 \in Nat
        /\ used.frames + 1 \in Nat /\ used.visibility + 1 \in Nat /\ used.uploads + 1 \in Nat
    OBVIOUS
  <1>1. CASE Start BY <1>1, <1>p, <1>f DEF Start
  <1>2. CASE InitGeometry BY <1>2, <1>p, <1>f DEF InitGeometry
  <1>3. CASE InitLease BY <1>3, <1>p, <1>f DEF InitLease
  <1>4. CASE InitEnd BY <1>4, <1>p, <1>f DEF InitEnd
  <1>5. CASE PublishBegin
    <2>1. PICK v \in BOOLEAN:
            writer' = [writer EXCEPT !.pc = "pubHead", !.odd = OddOf(mem.seq),
                                     !.head = used.frames + 1, !.vis = v]
      BY <1>5 DEF PublishBegin
    <2>2. writer' \in [pc: {"pubHead"}, odd: Nat, head: Nat, vis: BOOLEAN, gen: Nat]
      BY <1>p, <1>f, <2>1
    <2> QED BY <1>5, <1>f, <2>2 DEF PublishBegin
  <1>6. CASE PublishHead BY <1>6, <1>p, <1>f DEF PublishHead
  <1>7. CASE PublishPixels BY <1>7, <1>p, <1>f DEF PublishPixels
  <1>8. CASE SetVisible
    <2>1. CASE mem' = [mem EXCEPT !.heart = "fresh"] /\ UNCHANGED <<writer, used>>
      BY <1>8, <2>1 DEF SetVisible
    <2>2. CASE /\ mem' = [mem EXCEPT !.seq = @ + 1]
               /\ writer' = [writer EXCEPT !.pc = "visStore", !.odd = OddOf(mem.seq),
                                           !.head = mem.head, !.vis = ~mem.vis]
               /\ used' = [used EXCEPT !.visibility = @ + 1]
      <3>1. writer' \in [pc: {"visStore"}, odd: Nat, head: Nat, vis: BOOLEAN, gen: Nat]
        BY <1>p, <1>f, <2>2
      <3> QED BY <1>8, <1>f, <2>2, <3>1 DEF SetVisible
    <2> QED BY <1>8, <2>1, <2>2 DEF SetVisible
  <1>9. CASE VisibleStore BY <1>9, <1>p, <1>f DEF VisibleStore
  <1>10. CASE PublishEnd BY <1>10, <1>p, <1>f DEF PublishEnd
  <1>11. CASE WriterEnds BY <1>11, <1>p, <1>f DEF WriterEnds
  <1>12. CASE SyncConsumer BY <1>12, <1>p, <1>f DEF SyncConsumer
  <1>13. CASE HeartAges BY <1>13, <1>p, <1>f DEF HeartAges
  <1>14. CASE LeaseAges BY <1>14, <1>p, <1>f DEF LeaseAges
  <1>15. CASE OpenReader BY <1>15, <1>p, <1>f DEF OpenReader
  <1>16. CASE Poll
    <2>1. CASE mem.heart = "fresh" BY <1>16, <2>1 DEF Poll
    <2>2. CASE mem.heart # "fresh"
      <3>1. loop' \in [alive: BOOLEAN, pending: FrameType, shown: FrameType]
        BY <1>16, <1>p, <2>2 DEF Poll
      <3>2. reader' \in [pc: {"poll"}, before: Nat, copy: FrameType, last: Nat]
        BY <1>16, <2>2 DEF Poll
      <3> QED BY <1>16, <2>2, <3>1, <3>2 DEF Poll
    <2> QED BY <2>1, <2>2
  <1>17. CASE LoadSequence
    <2>1. CASE mem.seq = 0 \/ ~Even(mem.seq) \/ mem.seq = reader.last
      BY <1>17, <2>1 DEF LoadSequence
    <2>2. CASE reader' = [reader EXCEPT !.pc = "head", !.before = mem.seq, !.copy = NoFrame]
      BY ZenonT(60), <1>17, <1>p, <1>f, <2>2 DEF LoadSequence
    <2> QED BY <1>17, <2>1, <2>2 DEF LoadSequence
  <1>18. CASE ReadHead
    <2>1. [reader.copy EXCEPT !.head = mem.head, !.vis = mem.vis] \in FrameType
      BY <1>f DEF FrameType
    <2> QED BY ZenonT(60), <1>18, <2>1 DEF ReadHead
  <1>19. CASE CopyPixels
    <2>1. /\ [reader.copy EXCEPT !.lo = mem.lo] \in FrameType
          /\ [reader.copy EXCEPT !.hi = mem.hi] \in FrameType
      BY <1>f DEF FrameType
    <2>2. CASE reader.pc = "lo"
      BY ZenonT(60), <1>19, <2>1, <2>2 DEF CopyPixels
    <2>3. CASE reader.pc = "hi"
      BY ZenonT(60), <1>19, <2>1, <2>3 DEF CopyPixels
    <2> QED BY <1>19, <2>2, <2>3 DEF CopyPixels
  <1>20. CASE Accept
    <2>1. [reader.copy EXCEPT !.seq = mem.seq] \in FrameType
      BY <1>f DEF FrameType
    <2> QED BY ZenonT(60), <1>20, <1>f, <2>1 DEF Accept
  <1>21. CASE MarkAlive BY <1>21, <1>p, <1>f DEF MarkAlive
  <1>22. CASE ReaderEnds BY <1>22, <1>p, <1>f DEF ReaderEnds
  <1>23. CASE BeforeRender
    <2>1. CASE loop' = [loop EXCEPT !.shown = NoFrame] /\ UNCHANGED used
      BY <1>23, <1>p, <2>1 DEF BeforeRender
    <2>2. CASE loop' = [loop EXCEPT !.shown = loop.pending, !.pending = NoFrame] /\ UNCHANGED used
      <3>1. loop' \in [alive: BOOLEAN, pending: FrameType, shown: FrameType]
        BY <1>p, <1>f, <2>2
      <3> QED BY <1>23, <2>2, <3>1 DEF BeforeRender
    <2>3. CASE /\ loop' = [loop EXCEPT !.pending = NoFrame]
               /\ used' = [used EXCEPT !.uploads = @ + 1]
      BY <1>23, <1>p, <1>f, <2>3 DEF BeforeRender
    <2> QED BY <1>23, <2>1, <2>2, <2>3 DEF BeforeRender
  <1>24. CASE UNCHANGED frameVars BY <1>24 DEF frameVars
  <1> QED
    BY <1>1, <1>2, <1>3, <1>4, <1>5, <1>6, <1>7, <1>8, <1>9, <1>10, <1>11, <1>12, <1>13, <1>14,
       <1>15, <1>16, <1>17, <1>18, <1>19, <1>20, <1>21, <1>22, <1>23, <1>24
    DEF FrameNext, WriterStep, ReaderStep
\* The order holds in the first state: nothing has been published.
LEMMA OrderInit == FrameInit => OrderInv
  <1> SUFFICES ASSUME FrameInit PROVE OrderInv
    OBVIOUS
  <1>1. Even(0) /\ NoFrame \in FrameType BY DEF Even, NoFrame, FrameType
  <1>2. FrameTypeOK BY <1>1 DEF FrameInit, FrameTypeOK
  <1>3. LockIsHeld /\ NumbersGrow /\ StartsCount
    BY <1>1 DEF FrameInit, LockIsHeld, NumbersGrow, StartsCount, Writing, Reading, NoFrame
  <1> QED BY <1>2, <1>3 DEF OrderInv

\* What the steps of the order and of the whole frames use of the types
LEMMA FrameFields ==
    ASSUME FrameTypeOK
    PROVE  /\ mem.seq \in Nat /\ mem.head \in Nat /\ writer.odd \in Nat /\ writer.gen \in Nat
           /\ reader.before \in Nat /\ loop.pending.seq \in Nat /\ loop.shown.seq \in Nat
           /\ NoFrame.seq = 0
  BY DEF FrameTypeOK, FrameType, NoFrame

\* Every step keeps it, a kill in the middle of a write and a restart included.
LEMMA OrderStep == OrderInv /\ [FrameNext]_frameVars => OrderInv'
  <1> SUFFICES ASSUME OrderInv, [FrameNext]_frameVars PROVE OrderInv'
    OBVIOUS
  <1>t. FrameTypeOK /\ FrameTypeOK' BY TypeStep DEF OrderInv
  <1>f. /\ mem.seq \in Nat /\ writer.odd \in Nat /\ reader.before \in Nat
        /\ loop.pending.seq \in Nat /\ loop.shown.seq \in Nat /\ NoFrame.seq = 0
    BY <1>t, FrameFields
  <1>s. StartsCount'
    <2>1. CASE Start
      BY <1>t, <2>1 DEF Start, FrameTypeOK, StartsCount
    <2>2. ASSUME ~Start
          PROVE  writer'.gen = writer.gen /\ (writer'.pc # "down" => writer.pc # "down")
      BY <1>t, <2>2
      DEF FrameTypeOK, FrameNext, frameVars, WriterStep, ReaderStep, InitGeometry, InitLease,
          InitEnd, PublishBegin, PublishHead, PublishPixels, SetVisible, VisibleStore, PublishEnd,
          WriterEnds, SyncConsumer, HeartAges, LeaseAges, OpenReader, Poll, LoadSequence, ReadHead,
          CopyPixels, Accept, MarkAlive, ReaderEnds, BeforeRender
    <2> QED BY <2>1, <2>2 DEF OrderInv, StartsCount
  <1> SUFFICES (LockIsHeld /\ NumbersGrow)'
    BY <1>t, <1>s DEF OrderInv
  <1> USE DEF OrderInv, LockIsHeld, NumbersGrow, Writing, Reading
  <1>r. ASSUME UNCHANGED <<writer, loop>>, mem'.seq = mem.seq,
               reader'.pc \in {"head", "lo", "hi", "after"} => reader'.before <= mem.seq
        PROVE  (LockIsHeld /\ NumbersGrow)'
    BY <1>r
  <1>w. ASSUME UNCHANGED <<reader, loop>>, mem'.seq \in Nat, mem'.seq >= mem.seq, LockIsHeld'
        PROVE  (LockIsHeld /\ NumbersGrow)'
    BY <1>f, <1>w DEF LockIsHeld
  <1>1. CASE Start
    BY <1>1, <1>t, <1>f, <1>w DEF Start, FrameTypeOK
  <1>2. CASE InitGeometry \/ InitLease \/ HeartAges \/ LeaseAges
    BY ZenonT(60), <1>2, <1>t, <1>f, <1>w DEF InitGeometry, InitLease, HeartAges, LeaseAges, FrameTypeOK
  <1>3. CASE InitEnd
    <2>1. mem'.seq = NextEven(mem.seq) /\ writer'.pc = "idle" /\ UNCHANGED <<reader, loop>>
      BY <1>3, <1>t DEF InitEnd, FrameTypeOK
    <2> QED BY <1>f, <1>w, <2>1, ParityFacts
  <1>4. CASE PublishBegin
    <2>1. OddOf(mem.seq) = mem.seq + 1 /\ ~Even(mem.seq + 1)
      BY <1>4, <1>f, ParityFacts DEF PublishBegin
    <2>2. /\ mem'.seq = mem.seq + 1 /\ UNCHANGED <<reader, loop>>
          /\ writer'.pc = "pubHead" /\ writer'.odd = OddOf(mem.seq)
      BY <1>4, <1>t DEF PublishBegin, FrameTypeOK
    <2> QED BY <1>f, <1>w, <2>1, <2>2
  <1>5. CASE PublishHead \/ PublishPixels \/ VisibleStore
    <2>1. /\ mem'.seq = mem.seq /\ UNCHANGED <<reader, loop>> /\ writer'.odd = writer.odd
          /\ writer'.pc \in {"pubLo", "pubHi", "end"} /\ Writing
      BY ZenonT(60), <1>5, <1>t DEF PublishHead, PublishPixels, VisibleStore, FrameTypeOK
    <2> QED BY <1>f, <1>w, <2>1
  <1>6. CASE SetVisible
    <2>1. OddOf(mem.seq) = mem.seq + 1 /\ ~Even(mem.seq + 1)
      BY <1>6, <1>f, ParityFacts DEF SetVisible
    <2>2. UNCHANGED <<reader, loop>> BY <1>6 DEF SetVisible
    <2>3. CASE mem' = [mem EXCEPT !.heart = "fresh"] /\ UNCHANGED writer
      BY <1>f, <1>t, <1>w, <2>2, <2>3 DEF FrameTypeOK
    <2>4. CASE /\ mem' = [mem EXCEPT !.seq = @ + 1]
               /\ writer' = [writer EXCEPT !.pc = "visStore", !.odd = OddOf(mem.seq),
                                           !.head = mem.head, !.vis = ~mem.vis]
      <3>1. mem'.seq = mem.seq + 1 /\ writer'.pc = "visStore" /\ writer'.odd = OddOf(mem.seq)
        BY <2>4, <1>t DEF FrameTypeOK
      <3> QED BY <1>f, <1>w, <2>1, <2>2, <3>1
    <2> QED BY <1>6, <2>3, <2>4 DEF SetVisible
  <1>7. CASE PublishEnd
    <2>1. /\ NextEven(writer.odd) \in Nat /\ NextEven(writer.odd) >= mem.seq
          /\ Even(NextEven(writer.odd))
      BY <1>7, <1>f, ParityFacts DEF PublishEnd
    <2>2. mem'.seq = NextEven(writer.odd) /\ writer'.pc = "idle" /\ UNCHANGED <<reader, loop>>
      BY <1>7, <1>t DEF PublishEnd, FrameTypeOK
    <2> QED BY <1>f, <1>w, <2>1, <2>2
  <1>8. CASE WriterEnds
    <2>1. UNCHANGED <<mem, reader, loop>> /\ writer'.pc = "down"
      BY <1>8, <1>t DEF WriterEnds, FrameTypeOK
    <2> QED BY <1>f, <1>w, <2>1
  <1>9. CASE SyncConsumer \/ UNCHANGED frameVars
    BY <1>9, <1>r DEF SyncConsumer, frameVars
  <1>10. CASE OpenReader \/ LoadSequence \/ ReadHead \/ CopyPixels \/ MarkAlive
    <2>1. UNCHANGED <<writer, loop>> /\ mem'.seq = mem.seq
      BY <1>10, <1>t DEF OpenReader, LoadSequence, ReadHead, CopyPixels, MarkAlive, FrameTypeOK
    <2>2. \/ reader'.pc \in {"poll", "mark"}
          \/ reader'.before = mem.seq
          \/ reader'.before = reader.before /\ Reading
      BY <1>10, <1>t DEF OpenReader, LoadSequence, ReadHead, CopyPixels, MarkAlive, FrameTypeOK
    <2> QED BY <1>f, <1>r, <2>1, <2>2
  <1>11. CASE Poll
    <2>1. UNCHANGED writer /\ mem'.seq = mem.seq /\ reader'.pc \in {"poll", "load"}
      BY <1>11, <1>t DEF Poll, FrameTypeOK
    <2>2. loop'.shown = loop.shown /\ loop'.pending \in {loop.pending, NoFrame}
      BY ZenonT(60), <1>11, <1>t DEF Poll, FrameTypeOK
    <2> QED BY <1>f, <2>1, <2>2
  <1>12. CASE Accept
    <2>1. UNCHANGED <<mem, writer>> /\ reader'.pc = "mark"
      BY <1>12, <1>t DEF Accept, FrameTypeOK
    <2>2. /\ loop'.shown = loop.shown
          /\ loop'.pending = loop.pending \/ loop'.pending.seq = mem.seq
      BY <1>12, <1>t DEF Accept, FrameTypeOK, FrameType
    <2> QED BY <1>f, <2>1, <2>2
  <1>13. CASE ReaderEnds
    <2>1. UNCHANGED writer /\ mem'.seq = mem.seq /\ reader'.pc = "gone"
      BY <1>13, <1>t DEF ReaderEnds, FrameTypeOK
    <2>2. loop'.shown = NoFrame /\ loop'.pending = NoFrame
      BY <1>13 DEF ReaderEnds
    <2> QED BY <1>f, <2>1, <2>2
  <1>14. CASE BeforeRender
    <2>1. UNCHANGED <<mem, writer, reader>>
      BY <1>14 DEF BeforeRender
    <2>2. \/ loop'.shown = NoFrame /\ loop'.pending = loop.pending
          \/ loop'.shown = loop.pending /\ loop'.pending = NoFrame
          \/ loop'.shown = loop.shown /\ loop'.pending = NoFrame
      BY <1>14, <1>t DEF BeforeRender, FrameTypeOK
    <2> QED BY <1>f, <2>1, <2>2
  <1> QED
    BY <1>1, <1>2, <1>3, <1>4, <1>5, <1>6, <1>7, <1>8, <1>9, <1>10, <1>11, <1>12, <1>13, <1>14
    DEF FrameNext, WriterStep, ReaderStep

\* The renderer never goes back to an earlier frame (read_latest and
\* before_render), however often the writer is killed and started again over
\* the mapping it left.
THEOREM FramesNeverGoBack == FrameSpec => [][NewestWins]_frameVars
  <1>1. OrderInv /\ [FrameNext]_frameVars => [NewestWins]_frameVars
    <2> SUFFICES ASSUME OrderInv, FrameNext PROVE NewestWins
      BY DEF frameVars, NewestWins
    <2>f. FrameTypeOK /\ loop.shown.seq \in Nat BY FrameFields DEF OrderInv
    <2>1. CASE BeforeRender
      <3>1. \/ loop'.shown \in {NoFrame, loop.shown}
            \/ loop'.shown = loop.pending /\ loop.pending # NoFrame
        BY <2>1, <2>f DEF BeforeRender, FrameTypeOK
      <3> QED BY <2>f, <3>1 DEF NewestWins, OrderInv, NumbersGrow
    <2>2. CASE ReaderEnds BY <2>2 DEF ReaderEnds, NewestWins
    <2>3. CASE Poll \/ Accept
      <3>1. loop'.shown = loop.shown BY <2>3, <2>f DEF Poll, Accept, FrameTypeOK
      <3> QED BY <2>f, <3>1 DEF NewestWins
    <2>4. CASE UNCHANGED loop BY <2>f, <2>4 DEF NewestWins
    <2> QED
      BY <2>1, <2>2, <2>3, <2>4
      DEF FrameNext, WriterStep, ReaderStep, Start, InitGeometry, InitLease, InitEnd,
          PublishBegin, PublishHead, PublishPixels, SetVisible, VisibleStore, PublishEnd,
          WriterEnds, SyncConsumer, HeartAges, LeaseAges, OpenReader, LoadSequence, ReadHead,
          CopyPixels, MarkAlive
  <1> QED BY OrderInit, OrderStep, <1>1, PTL DEF FrameSpec


\* Nothing is torn in the first state.
LEMMA WholeInit == FrameInit => FrameInv
  <1> SUFFICES ASSUME FrameInit PROVE FrameInv
    OBVIOUS
  <1>1. Even(0) BY DEF Even
  <1>2. EvenIsAtRest /\ WriteProgress /\ PayloadIsWhole /\ CopyIsCurrent /\ WholeFrame
    BY <1>1
    DEF FrameInit, EvenIsAtRest, WriteProgress, PayloadIsWhole, CopyIsCurrent, WholeFrame,
        Initialising, Reading
  <1> QED BY OrderInit, <1>2 DEF FrameInv

\* A frame that is whole stays so: what was published stays published.
LEMMA WholeStays ==
    ASSUME FrameInv, published \subseteq published',
           loop'.pending \in {loop.pending, loop.shown, NoFrame},
           loop'.shown \in {loop.pending, loop.shown, NoFrame}
    PROVE  WholeFrame'
  BY DEF FrameInv, WholeFrame, Whole

\* A step of the writer under an odd lock disturbs no reader's copy.
LEMMA WriteUnderLock ==
    ASSUME FrameInv, OrderInv', UNCHANGED <<reader, loop, published>>,
           ~Even(mem.seq), mem'.seq = mem.seq, EvenIsAtRest', WriteProgress'
    PROVE  FrameInv'
  <1>1. WholeFrame' BY WholeStays
  <1>2. PayloadIsWhole' BY DEF PayloadIsWhole
  <1>3. CopyIsCurrent' BY DEF FrameInv, CopyIsCurrent, Reading
  <1> QED BY <1>1, <1>2, <1>3 DEF FrameInv

\* A step that moves the lock makes every copy in progress obsolete.
LEMMA LockMoves ==
    ASSUME FrameInv, OrderInv', UNCHANGED <<reader, loop>>, published \subseteq published',
           mem'.seq > mem.seq, EvenIsAtRest', WriteProgress', PayloadIsWhole'
    PROVE  FrameInv'
  <1>1. WholeFrame' BY WholeStays
  <1>2. CopyIsCurrent'
    <2>1. mem.seq \in Nat /\ mem'.seq \in Nat /\ reader.before \in Nat
      BY FrameFields DEF FrameInv, OrderInv, FrameTypeOK
    <2>2. reader'.pc \in {"lo", "hi", "after"} => mem'.seq # reader'.before
      BY <2>1 DEF FrameInv, OrderInv, NumbersGrow, Reading
    <2> QED BY <2>2 DEF FrameInv, CopyIsCurrent, Reading
  <1> QED BY <1>1, <1>2 DEF FrameInv

\* A step that leaves lock, payload and writer alone concerns only the reader.
LEMMA MemoryStays ==
    ASSUME FrameInv, OrderInv', UNCHANGED <<writer, published>>,
           mem'.seq = mem.seq, mem'.head = mem.head, mem'.vis = mem.vis,
           mem'.lo = mem.lo, mem'.hi = mem.hi, CopyIsCurrent', WholeFrame'
    PROVE  FrameInv'
  BY DEF FrameInv, EvenIsAtRest, Initialising, WriteProgress, PayloadIsWhole

\* Every step keeps the payload, the copy and the frames whole, when no writer
\* starts over an unfinished write.
LEMMA WholeStep ==
    ASSUME NoTornRestart
    PROVE  FrameInv /\ [FrameNext]_frameVars => FrameInv'
  <1> SUFFICES ASSUME FrameInv, [FrameNext]_frameVars PROVE FrameInv'
    OBVIOUS
  <1>o. OrderInv /\ OrderInv' BY OrderStep DEF FrameInv
  <1>t. FrameTypeOK /\ FrameTypeOK' BY <1>o DEF OrderInv
  <1>f. /\ mem.seq \in Nat /\ writer.odd \in Nat /\ writer.gen \in Nat /\ reader.before \in Nat
        /\ MaxStarts \in Nat /\ KilledAnywhere \in BOOLEAN
        /\ Even(mem.seq) <=> ~Even(mem.seq + 1)
    BY <1>t, FrameFields, ParityFacts, FrameAssumption
  <1>1. CASE Start
    <2>1. ~Even(mem.seq + 1)
      BY <1>1, <1>f DEF Start, FrameInv, EvenIsAtRest
    <2>2. /\ UNCHANGED <<reader, loop, published>>
          /\ mem'.seq = mem.seq + 1 /\ writer'.pc = "initGeometry"
      BY <1>1, <1>t DEF Start, FrameTypeOK
    <2>3. EvenIsAtRest' /\ WriteProgress' /\ PayloadIsWhole'
      BY <2>1, <2>2 DEF EvenIsAtRest, Initialising, WriteProgress, PayloadIsWhole
    <2> QED BY <1>o, <1>f, <2>2, <2>3, LockMoves
  <1>2. CASE InitGeometry \/ InitLease
    <2>1. ~Even(mem.seq) BY <1>2 DEF InitGeometry, InitLease, FrameInv, EvenIsAtRest, Initialising
    <2>2. /\ UNCHANGED <<reader, loop, published>> /\ mem'.seq = mem.seq
          /\ writer'.pc \in {"initLease", "initEnd"} /\ mem'.head = 0
      BY <1>2, <1>t DEF InitGeometry, InitLease, FrameTypeOK, FrameInv, WriteProgress
    <2>3. EvenIsAtRest' /\ WriteProgress'
      BY <2>1, <2>2 DEF EvenIsAtRest, Initialising, WriteProgress
    <2> QED BY <1>o, <2>1, <2>2, <2>3, WriteUnderLock
  <1>3. CASE InitEnd
    <2>1. NextEven(mem.seq) = mem.seq + 1
      BY <1>3, <1>f, ParityFacts DEF InitEnd, FrameInv, EvenIsAtRest, Initialising
    <2>2. /\ UNCHANGED <<reader, loop, published>> /\ mem'.seq = mem.seq + 1
          /\ writer'.pc = "idle" /\ mem'.head = 0
      BY <1>3, <1>t, <2>1 DEF InitEnd, FrameTypeOK, FrameInv, WriteProgress
    <2>3. EvenIsAtRest' /\ WriteProgress' /\ PayloadIsWhole'
      BY <2>2 DEF EvenIsAtRest, Initialising, WriteProgress, PayloadIsWhole
    <2> QED BY <1>o, <1>f, <2>2, <2>3, LockMoves
  <1>4. CASE PublishBegin
    <2>1. ~Even(mem.seq + 1)
      BY <1>4, <1>f, <1>o DEF PublishBegin, OrderInv, LockIsHeld
    <2>2. /\ UNCHANGED <<reader, loop, published>>
          /\ mem'.seq = mem.seq + 1 /\ writer'.pc = "pubHead"
      BY <1>4, <1>t DEF PublishBegin, FrameTypeOK
    <2>3. EvenIsAtRest' /\ WriteProgress' /\ PayloadIsWhole'
      BY <2>1, <2>2 DEF EvenIsAtRest, Initialising, WriteProgress, PayloadIsWhole
    <2> QED BY <1>o, <1>f, <2>2, <2>3, LockMoves
  <1>5. CASE PublishHead \/ PublishPixels \/ VisibleStore
    <2>1. ~Even(mem.seq) /\ mem'.seq = mem.seq /\ UNCHANGED <<reader, loop, published>>
      BY <1>5, <1>t, <1>o
      DEF PublishHead, PublishPixels, VisibleStore, FrameTypeOK, OrderInv, LockIsHeld, Writing
    <2>2. writer'.pc \in {"pubLo", "pubHi", "end"}
      BY <1>5, <1>t DEF PublishHead, PublishPixels, VisibleStore, FrameTypeOK
    <2>3. EvenIsAtRest' BY <2>2 DEF EvenIsAtRest, Initialising
    <2>4. WriteProgress'
      <3>1. CASE PublishHead
        BY <1>t, <3>1 DEF PublishHead, WriteProgress, FrameTypeOK
      <3>2. CASE PublishPixels
        BY <1>t, <3>2 DEF PublishPixels, WriteProgress, FrameTypeOK, FrameInv
      <3>3. CASE VisibleStore
        BY <1>t, <3>3 DEF VisibleStore, WriteProgress, FrameTypeOK, FrameInv
      <3> QED BY <1>5, <3>1, <3>2, <3>3
    <2> QED BY <1>o, <2>1, <2>3, <2>4, WriteUnderLock
  <1>6. CASE SetVisible
    <2>1. Even(mem.seq) /\ writer.pc = "idle"
      BY <1>6, <1>o DEF SetVisible, OrderInv, LockIsHeld
    <2>2. CASE mem' = [mem EXCEPT !.heart = "fresh"] /\ UNCHANGED writer
      <3>1. /\ mem'.seq = mem.seq /\ mem'.head = mem.head /\ mem'.vis = mem.vis
            /\ mem'.lo = mem.lo /\ mem'.hi = mem.hi
        BY <1>t, <2>2 DEF FrameTypeOK
      <3>2. UNCHANGED <<reader, loop, published>> BY <1>6 DEF SetVisible
      <3>3. CopyIsCurrent' /\ WholeFrame'
        BY <3>1, <3>2, WholeStays DEF FrameInv, CopyIsCurrent, Reading
      <3> QED BY <1>o, <2>2, <3>1, <3>2, <3>3, MemoryStays
    <2>3. CASE /\ mem' = [mem EXCEPT !.seq = @ + 1]
               /\ writer' = [writer EXCEPT !.pc = "visStore", !.odd = OddOf(mem.seq),
                                           !.head = mem.head, !.vis = ~mem.vis]
      <3>1. /\ UNCHANGED <<reader, loop, published>>
            /\ mem'.seq = mem.seq + 1 /\ writer'.pc = "visStore"
            /\ writer'.head = mem.head /\ mem'.head = mem.head
            /\ mem'.lo = mem.lo /\ mem'.hi = mem.hi
        BY <1>6, <1>t, <2>3 DEF SetVisible, FrameTypeOK
      <3>2. EvenIsAtRest' /\ WriteProgress' /\ PayloadIsWhole'
        BY <1>f, <2>1, <3>1 DEF FrameInv, EvenIsAtRest, Initialising, WriteProgress, PayloadIsWhole
      <3> QED BY <1>o, <1>f, <3>1, <3>2, LockMoves
    <2> QED BY <1>6, <2>2, <2>3 DEF SetVisible
  <1>7. CASE PublishEnd
    <2>1. NextEven(writer.odd) = mem.seq + 1
      BY <1>7, <1>f, <1>o, ParityFacts DEF PublishEnd, OrderInv, LockIsHeld, Writing
    <2>2. /\ UNCHANGED <<reader, loop>> /\ mem'.seq = mem.seq + 1 /\ writer'.pc = "idle"
          /\ mem'.head = mem.head /\ mem'.vis = mem.vis /\ mem'.lo = mem.lo /\ mem'.hi = mem.hi
          /\ mem.head = writer.head /\ mem.vis = writer.vis
          /\ mem.head # 0 => mem.lo = mem.head /\ mem.hi = mem.head
      BY <1>7, <1>t, <2>1 DEF PublishEnd, FrameTypeOK, FrameInv, WriteProgress
    <2>3. published' =
            published \cup {[seq |-> mem'.seq, head |-> mem'.head, vis |-> mem'.vis]}
      BY <1>7, <2>1, <2>2 DEF PublishEnd
    <2>4. EvenIsAtRest' /\ WriteProgress'
      BY <2>2 DEF EvenIsAtRest, Initialising, WriteProgress
    <2>5. PayloadIsWhole'
      <3>1. \E p \in published': p.seq = mem'.seq /\ p.head = mem'.head /\ p.vis = mem'.vis
        <4> DEFINE p == [seq |-> mem'.seq, head |-> mem'.head, vis |-> mem'.vis]
        <4>1. p \in published' BY <2>3
        <4>2. p.seq = mem'.seq /\ p.head = mem'.head /\ p.vis = mem'.vis OBVIOUS
        <4> QED BY <4>1, <4>2
      <3> QED BY <2>2, <3>1 DEF PayloadIsWhole
    <2> QED BY <1>o, <1>f, <2>2, <2>3, <2>4, <2>5, LockMoves
  <1>8. CASE WriterEnds
    <2>1. UNCHANGED <<mem, reader, loop, published>> /\ writer'.pc = "down" /\ writer'.gen = writer.gen
      BY <1>8, <1>t DEF WriterEnds, FrameTypeOK
    <2>2. Even(mem.seq) \/ writer.gen >= MaxStarts
      BY <1>8, <1>f, <1>o DEF WriterEnds, NoTornRestart, OrderInv, LockIsHeld, StartsCount
    <2>3. EvenIsAtRest' /\ WriteProgress' /\ PayloadIsWhole' /\ CopyIsCurrent'
      BY <2>1, <2>2
      DEF FrameInv, EvenIsAtRest, Initialising, WriteProgress, PayloadIsWhole, CopyIsCurrent, Reading
    <2> QED BY <1>o, <2>1, <2>3, WholeStays DEF FrameInv
  <1>9. CASE SyncConsumer \/ HeartAges \/ LeaseAges \/ UNCHANGED frameVars
    <2>1. /\ UNCHANGED <<writer, reader, loop, published>>
          /\ mem'.seq = mem.seq /\ mem'.head = mem.head /\ mem'.vis = mem.vis
          /\ mem'.lo = mem.lo /\ mem'.hi = mem.hi
      BY <1>9, <1>t DEF SyncConsumer, HeartAges, LeaseAges, frameVars, FrameTypeOK
    <2>2. CopyIsCurrent' /\ WholeFrame'
      BY <2>1, WholeStays DEF FrameInv, CopyIsCurrent, Reading
    <2> QED BY <1>o, <2>1, <2>2, MemoryStays
  <1>10. CASE OpenReader \/ MarkAlive \/ Poll \/ ReaderEnds
    <2>1. /\ UNCHANGED <<writer, published>> /\ reader'.pc \in {"poll", "load", "gone"}
          /\ mem'.seq = mem.seq /\ mem'.head = mem.head /\ mem'.vis = mem.vis
          /\ mem'.lo = mem.lo /\ mem'.hi = mem.hi
      BY <1>10, <1>t DEF OpenReader, MarkAlive, Poll, ReaderEnds, FrameTypeOK
    <2>2. loop'.pending \in {loop.pending, NoFrame} /\ loop'.shown \in {loop.shown, NoFrame}
      <3>1. CASE OpenReader \/ MarkAlive BY <3>1 DEF OpenReader, MarkAlive
      <3>2. CASE Poll BY ZenonT(60), <1>t, <3>2 DEF Poll, FrameTypeOK
      <3>3. CASE ReaderEnds BY <3>3 DEF ReaderEnds
      <3> QED BY <1>10, <3>1, <3>2, <3>3
    <2>3. CopyIsCurrent' /\ WholeFrame'
      BY <2>1, <2>2, WholeStays DEF CopyIsCurrent, Reading
    <2> QED BY <1>o, <2>1, <2>3, MemoryStays
  <1>11. CASE LoadSequence
    <2>1. UNCHANGED <<mem, writer, loop, published>>
      BY <1>11 DEF LoadSequence
    <2>2. \/ reader'.pc = "mark"
          \/ reader'.pc = "head" /\ reader'.before = mem.seq /\ Even(mem.seq)
      BY <1>11, <1>t DEF LoadSequence, FrameTypeOK
    <2>3. CopyIsCurrent' /\ WholeFrame'
      BY <2>1, <2>2, WholeStays DEF CopyIsCurrent, Reading
    <2> QED BY <1>o, <2>1, <2>3, MemoryStays
  <1>12. CASE ReadHead \/ CopyPixels
    <2>1. UNCHANGED <<mem, writer, loop, published>> /\ reader'.before = reader.before /\ Reading
      BY <1>12, <1>t DEF ReadHead, CopyPixels, FrameTypeOK, Reading
    <2>2. CopyIsCurrent'
      <3>1. CASE ReadHead
        <4>1. \/ reader'.pc = "mark"
              \/ /\ reader'.pc = "lo" /\ mem.head # 0
                 /\ reader'.copy.head = mem.head /\ reader'.copy.vis = mem.vis
          BY <1>t, <3>1 DEF ReadHead, FrameTypeOK, FrameType
        <4> QED BY <2>1, <4>1 DEF FrameInv, CopyIsCurrent, Reading
      <3>2. CASE CopyPixels
        <4>1. /\ reader'.copy.head = reader.copy.head /\ reader'.copy.vis = reader.copy.vis
              /\ \/ reader.pc = "lo" /\ reader'.pc = "hi" /\ reader'.copy.lo = mem.lo
                 \/ /\ reader.pc = "hi" /\ reader'.pc = "after"
                    /\ reader'.copy.lo = reader.copy.lo /\ reader'.copy.hi = mem.hi
          <5>1. CASE reader.pc = "lo" /\ reader' = [reader EXCEPT !.pc = "hi",
                                                   !.copy = [reader.copy EXCEPT !.lo = mem.lo]]
            BY <1>t, <5>1 DEF FrameTypeOK, FrameType
          <5>2. CASE reader.pc = "hi" /\ reader' = [reader EXCEPT !.pc = "after",
                                                   !.copy = [reader.copy EXCEPT !.hi = mem.hi]]
            BY <1>t, <5>2 DEF FrameTypeOK, FrameType
          <5> QED BY <3>2, <5>1, <5>2 DEF CopyPixels
        <4> QED BY <2>1, <4>1 DEF FrameInv, CopyIsCurrent, Reading
      <3> QED BY <1>12, <3>1, <3>2
    <2>3. WholeFrame' BY <2>1, WholeStays
    <2> QED BY <1>o, <2>1, <2>2, <2>3, MemoryStays
  <1>13. CASE Accept
    <2>1. UNCHANGED <<mem, writer, published>> /\ reader'.pc = "mark"
      BY <1>13, <1>t DEF Accept, FrameTypeOK
    <2>2. WholeFrame'
      <3>1. CASE mem.seq # reader.before
        BY <1>13, <2>1, <3>1, WholeStays DEF Accept
      <3>2. CASE mem.seq = reader.before
        <4> DEFINE f == [reader.copy EXCEPT !.seq = mem.seq]
        <4>1. loop'.pending = f /\ loop'.shown = loop.shown
          BY <1>13, <1>t, <3>2 DEF Accept, FrameTypeOK
        <4>2. /\ f.seq = mem.seq /\ f.head = mem.head /\ f.vis = mem.vis
              /\ f.lo = mem.lo /\ f.hi = mem.hi
          BY <1>13, <1>t, <3>2 DEF Accept, FrameTypeOK, FrameType, FrameInv, CopyIsCurrent
        <4>3. Even(mem.seq) /\ mem.head # 0
          BY <1>13, <3>2 DEF Accept, FrameInv, CopyIsCurrent, Reading
        <4>4. /\ mem.lo = mem.head /\ mem.hi = mem.head
              /\ \E p \in published: p.seq = mem.seq /\ p.head = mem.head /\ p.vis = mem.vis
          BY <4>3 DEF FrameInv, PayloadIsWhole
        <4> HIDE DEF f
        <4>5. Whole(loop.pending)' BY <2>1, <4>1, <4>2, <4>4 DEF Whole
        <4>6. loop.shown # NoFrame => Whole(loop.shown)
          BY DEF FrameInv, WholeFrame
        <4>7. loop'.shown # NoFrame => Whole(loop.shown)'
          BY <2>1, <4>1, <4>6 DEF Whole
        <4> QED BY <4>5, <4>7 DEF WholeFrame
      <3> QED BY <3>1, <3>2
    <2>3. CopyIsCurrent' BY <2>1 DEF CopyIsCurrent, Reading
    <2> QED BY <1>o, <2>1, <2>2, <2>3, MemoryStays
  <1>14. CASE BeforeRender
    <2>1. UNCHANGED <<mem, writer, reader, published>>
      BY <1>14 DEF BeforeRender
    <2>2. /\ loop'.shown \in {loop.pending, loop.shown, NoFrame}
          /\ loop'.pending \in {loop.pending, NoFrame}
      BY <1>14, <1>t DEF BeforeRender, FrameTypeOK
    <2>3. CopyIsCurrent' /\ WholeFrame'
      BY <2>1, <2>2, WholeStays DEF FrameInv, CopyIsCurrent, Reading
    <2> QED BY <1>o, <2>1, <2>3, MemoryStays
  <1> QED
    BY <1>1, <1>2, <1>3, <1>4, <1>5, <1>6, <1>7, <1>8, <1>9, <1>10, <1>11, <1>12, <1>13, <1>14
    DEF FrameNext, WriterStep, ReaderStep

\* For any number of frames, changes of visibility, starts of the writer and
\* failed textures: what the renderer holds or shows is whole, as long as no
\* writer starts over a write that another one left unfinished (the case
\* initialize_header does not handle, lib.rs:281).
THEOREM FramesAlwaysWhole ==
    ASSUME NoTornRestart
    PROVE  FrameSpec => []WholeFrame
  <1>1. FrameInv => WholeFrame BY DEF FrameInv
  <1>2. FrameInv /\ [FrameNext]_frameVars => FrameInv' BY WholeStep
  <1> QED BY WholeInit, <1>1, <1>2, PTL DEF FrameSpec

----------------------------------------------------------------------------
(* The capture.  As long as the player has not asked, nothing that could lead to *)
(* an EnterInteractive is stored anywhere: neither a pending Escape nor a   *)
(* request under way, except while the Escape that gave the input back has  *)
(* still to be processed, and then that one goes first.                     *)

Images == {NoImage} \cup [expanded: BOOLEAN, mode: Modes]
Actions == {None, "lock", "enter"}
SyncType == [hidden: Int, target: Modes \cup {None}, sent: Int, intent: Int]
AuthType == [phase: {"idle", "awaiting", "authorized"}, age: Int, lockSent: Int]

InteractionTypeOK ==
    /\ current \in Images /\ pending \in Images
    /\ sync \in SyncType /\ auth \in AuthType
    /\ cells \in [alive: BOOLEAN, intent: Int, escape: BOOLEAN, mode: Actions]
    /\ cursor \in {"hidden", "visible", "unknown"}
    /\ overlay \in [mode: Modes, expanded: BOOLEAN, mail: Actions]
    /\ hist \in [escapes: Nat, changes: Nat, asked: BOOLEAN, lostSight: BOOLEAN]

\* CursorInteractionSync that cannot ask to enter by itself
Quiet(s) == s.intent = Never /\ s.target # "interactive"

\* No Escape on the locked map since the last one that gave the input back
NothingPending ==
    ~hist.asked =>
      /\ auth.phase = "idle" /\ cells.intent = Never
      /\ cells.escape \/ Quiet(sync)

InteractionInv == InteractionTypeOK /\ NothingPending

\* What one request of a mode does to the sync: nothing but its target and
\* its time.
LEMMA RequestFacts ==
    ASSUME NEW s \in SyncType, NEW mode \in Modes, NEW target \in Modes, NEW action \in Actions
    PROVE  LET r == RequestTransition(s, mode, target, action)
           IN  /\ r.sync \in SyncType /\ r.action \in {None, action}
               /\ r.sync.intent = s.intent /\ r.sync.target \in {None, target}
  <1>1. CASE mode = target
    <2>1. RequestTransition(s, mode, target, action) =
            [sync |-> [s EXCEPT !.target = None], action |-> None]
      BY <1>1 DEF RequestTransition
    <2>2. [s EXCEPT !.target = None] \in SyncType BY DEF SyncType
    <2> QED BY <2>1, <2>2 DEF SyncType
  <1>2. CASE mode # target /\ (s.target # target \/ s.sent >= Retry)
    <2>1. RequestTransition(s, mode, target, action) =
            [sync |-> [s EXCEPT !.target = target, !.sent = 0], action |-> action]
      BY <1>2 DEF RequestTransition
    <2> DEFINE u == [s EXCEPT !.target = target, !.sent = 0]
    <2>2. target \in Modes \cup {None} /\ 0 \in Int OBVIOUS
    <2>3. u \in SyncType /\ u.intent = s.intent /\ u.target = target BY <2>2 DEF SyncType
    <2>4. RequestTransition(s, mode, target, action) = [sync |-> u, action |-> action]
      BY <2>1
    <2> HIDE DEF u
    <2> QED BY <2>3, <2>4
  <1>3. CASE mode # target /\ ~(s.target # target \/ s.sent >= Retry)
    <2>1. RequestTransition(s, mode, target, action) = [sync |-> s, action |-> None]
      BY <1>3 DEF RequestTransition
    <2> QED BY <1>3, <2>1
  <1> QED BY <1>1, <1>2, <1>3

\* CursorInteractionSync::update on an expanded frame: a quiet sync stays so
\* and asks for nothing but a lock, and an Escape makes it quiet.
LEMMA SyncFacts ==
    ASSUME NEW s \in SyncType, NEW frame \in Images, frame.expanded,
           NEW visible \in BOOLEAN, NEW escape \in BOOLEAN
    PROVE  LET r == SyncUpdate(s, frame, visible, escape)
           IN  /\ r.sync \in SyncType /\ r.action \in Actions
               /\ escape \/ Quiet(s) => Quiet(r.sync) /\ r.action # "enter"
  <1> DEFINE t == IF s.target = frame.mode THEN [s EXCEPT !.target = None] ELSE s
  <1>1. frame.mode \in Modes BY DEF Images, NoImage
  <1>2. t \in SyncType /\ t.intent = s.intent /\ (Quiet(s) => Quiet(t))
    BY DEF SyncType, Quiet, None, Never
  <1> HIDE DEF t
  <1>3. CASE escape
    <2> DEFINE u == [t EXCEPT !.hidden = Never, !.intent = Never]
    <2>1. u \in SyncType /\ u.intent = Never
      <3>1. Never \in Int BY DEF Never
      <3> QED BY <1>2, <3>1 DEF SyncType
    <2>2. SyncUpdate(s, frame, visible, escape) = RequestTransition(u, frame.mode, "locked", "lock")
      BY <1>3 DEF SyncUpdate, t
    <2> HIDE DEF u
    <2>3. "locked" \in Modes /\ "lock" \in Actions BY DEF Modes, Actions
    <2> QED BY SMTT(40), <1>1, <2>1, <2>2, <2>3, RequestFacts DEF Quiet, None, Actions
  <1>4. CASE ~escape /\ frame.mode = "locked"
    <2>1. SyncUpdate(s, frame, visible, escape) = SyncLocked(t, visible)
      BY <1>4 DEF SyncUpdate, t
    <2>2. /\ SyncLocked(t, visible).sync \in SyncType
          /\ SyncLocked(t, visible).action \in Actions
          /\ Quiet(t) => Quiet(SyncLocked(t, visible).sync) /\ SyncLocked(t, visible).action # "enter"
      <3> DEFINE recent == t.intent # Never /\ t.intent <= IntentTimeout
                 retrying == t.target = "interactive"
                 v == [t EXCEPT !.hidden = Never, !.intent = IF recent THEN @ ELSE Never]
                 w == [v EXCEPT !.intent = IF retrying THEN @ ELSE Never]
      <3>1. /\ v \in SyncType /\ w \in SyncType
            /\ Quiet(t) => Quiet(v) /\ ~retrying /\ ~recent
        <4>1. Never \in Int BY DEF Never
        <4>2. t.intent \in Int BY <1>2 DEF SyncType
        <4>3. v \in SyncType BY <1>2, <4>1, <4>2 DEF SyncType
        <4>4. v.intent \in Int BY <4>3 DEF SyncType
        <4>5. w \in SyncType BY <4>1, <4>3, <4>4 DEF SyncType
        <4>6. Quiet(t) => v.intent = Never /\ v.target = t.target
          BY <1>2 DEF SyncType, Quiet
        <4> QED BY <4>3, <4>5, <4>6 DEF Quiet
      <3> HIDE DEF v, w
      <3>2. CASE ~visible
        <4>1. SyncLocked(t, visible) =
                [sync |-> [v EXCEPT !.target = IF retrying THEN None ELSE @], action |-> None]
          BY <3>2 DEF SyncLocked, v
        <4>2. [v EXCEPT !.target = IF retrying THEN None ELSE @] \in SyncType
          BY <3>1 DEF SyncType
        <4>3. Quiet(v) => Quiet([v EXCEPT !.target = IF retrying THEN None ELSE @])
          BY <3>1 DEF SyncType, Quiet, None
        <4> QED BY <3>1, <4>1, <4>2, <4>3 DEF Actions, None
      <3>3. CASE visible /\ ~retrying /\ ~recent
        <4>1. SyncLocked(t, visible) = [sync |-> v, action |-> None]
          BY <3>3 DEF SyncLocked, v
        <4> QED BY <3>1, <4>1 DEF Actions, None
      <3>4. CASE visible /\ (retrying \/ recent)
        <4>1. SyncLocked(t, visible) = RequestTransition(w, "locked", "interactive", "enter")
          BY <3>4 DEF SyncLocked, v, w
        <4>2. "locked" \in Modes /\ "interactive" \in Modes /\ "enter" \in Actions
          BY DEF Modes, Actions
        <4>3. ~Quiet(t) BY <3>1, <3>4
        <4>4. /\ SyncLocked(t, visible).sync \in SyncType
              /\ SyncLocked(t, visible).action \in {None, "enter"}
          BY <3>1, <4>1, <4>2, RequestFacts
        <4> QED BY <4>3, <4>4 DEF Actions
      <3> QED BY <3>2, <3>3, <3>4
    <2> QED BY <1>2, <1>4, <2>1, <2>2
  <1>5. CASE ~escape /\ frame.mode = "interactive"
    <2>1. SyncUpdate(s, frame, visible, escape) = SyncInteractive(t, visible)
      BY <1>5 DEF SyncUpdate, t
    <2>2. /\ SyncInteractive(t, visible).sync \in SyncType
          /\ SyncInteractive(t, visible).action \in {None, "lock"}
          /\ Quiet(SyncInteractive(t, visible).sync)
      <3> DEFINE v == [t EXCEPT !.intent = Never,
                                !.hidden = IF visible THEN Never ELSE IF @ = Never THEN 0 ELSE @]
      <3>1. v \in SyncType /\ v.intent = Never
        <4>1. Never \in Int /\ 0 \in Int BY DEF Never
        <4>2. t.hidden \in Int BY <1>2 DEF SyncType
        <4> QED BY <1>2, <4>1, <4>2 DEF SyncType
      <3> HIDE DEF v
      <3>2. CASE visible \/ v.hidden < HideGrace
        <4>1. SyncInteractive(t, visible) = [sync |-> [v EXCEPT !.target = None], action |-> None]
          BY <3>2 DEF SyncInteractive, v
        <4>2. [v EXCEPT !.target = None] \in SyncType BY <3>1 DEF SyncType
        <4>3. Quiet([v EXCEPT !.target = None]) BY <3>1 DEF SyncType, Quiet, None
        <4> QED BY <4>1, <4>2, <4>3
      <3>3. CASE ~(visible \/ v.hidden < HideGrace)
        <4>1. SyncInteractive(t, visible) = RequestTransition(v, "interactive", "locked", "lock")
          BY <3>3 DEF SyncInteractive, v
        <4>2. "locked" \in Modes /\ "interactive" \in Modes /\ "lock" \in Actions
          BY DEF Modes, Actions
        <4> QED BY <3>1, <4>1, <4>2, RequestFacts DEF Quiet, None
      <3> QED BY <3>2, <3>3
    <2> QED BY <2>1, <2>2 DEF Actions, None
  <1> QED BY <1>1, <1>3, <1>4, <1>5 DEF Modes

\* InteractionAuthorization::update: an idle authorization stays idle.
LEMMA AuthFacts ==
    ASSUME NEW a \in AuthType, NEW frame \in Images, frame.expanded, NEW now
    PROVE  LET r == AuthUpdate(a, frame, now)
           IN  /\ r.auth \in AuthType /\ r.lock \in BOOLEAN
               /\ a.phase = "idle" => r.auth.phase = "idle"
  <1> DEFINE b == IF a.phase = "awaiting" /\ a.age > AckTimeout THEN [a EXCEPT !.phase = "idle"] ELSE a
  <1>1. frame.mode \in Modes BY DEF Images, NoImage
  <1>2. b \in AuthType /\ (a.phase = "idle" => b.phase = "idle") BY DEF AuthType
  <1>n. Never \in Int BY DEF Never
  <1> HIDE DEF b
  <1>3. CASE frame.mode = "locked"
    <2>1. AuthUpdate(a, frame, now) =
            [auth |-> [b EXCEPT !.lockSent = Never, !.phase = IF @ = "authorized" THEN "idle" ELSE @],
             lock |-> FALSE]
      BY <1>3 DEF AuthUpdate, b
    <2> DEFINE c == [b EXCEPT !.lockSent = Never, !.phase = IF @ = "authorized" THEN "idle" ELSE @]
    <2>2. c \in AuthType /\ (b.phase = "idle" => c.phase = "idle")
      <3>1. b.phase \in {"idle", "awaiting", "authorized"} BY <1>2 DEF AuthType
      <3> QED BY <1>2, <1>n, <3>1 DEF AuthType
    <2> HIDE DEF c
    <2>3. AuthUpdate(a, frame, now) = [auth |-> c, lock |-> FALSE] BY <2>1 DEF c
    <2> QED BY <1>2, <2>2, <2>3
  <1>4. CASE frame.mode = "interactive" /\ b.phase = "idle"
    <2> DEFINE due == b.lockSent = Never \/ b.lockSent >= Retry
    <2>1. AuthUpdate(a, frame, now) =
            [auth |-> [b EXCEPT !.lockSent = IF due THEN 0 ELSE @], lock |-> due]
      BY <1>4 DEF AuthUpdate, b
    <2>2. due \in BOOLEAN OBVIOUS
    <2> HIDE DEF due
    <2>3. /\ AuthUpdate(a, frame, now).auth \in AuthType
          /\ AuthUpdate(a, frame, now).auth.phase = "idle"
      BY <1>2, <1>4, <2>1 DEF AuthType
    <2> QED BY <2>1, <2>2, <2>3
  <1>5. CASE frame.mode = "interactive" /\ b.phase # "idle"
    <2>1. \/ AuthUpdate(a, frame, now) = [auth |-> b, lock |-> FALSE]
          \/ AuthUpdate(a, frame, now) =
               [auth |-> [phase |-> "authorized", age |-> 0, lockSent |-> Never], lock |-> FALSE]
      BY <1>5 DEF AuthUpdate, b
    <2>2. [phase |-> "authorized", age |-> 0, lockSent |-> Never] \in AuthType
      BY <1>n DEF AuthType
    <2>3. a.phase # "idle" BY <1>2, <1>5
    <2>4. AuthUpdate(a, frame, now).auth \in AuthType /\ AuthUpdate(a, frame, now).lock = FALSE
      BY <1>2, <2>1, <2>2
    <2> QED BY <2>3, <2>4
  <1> QED BY <1>1, <1>3, <1>4, <1>5 DEF Modes

\* Nothing is pending in the first state.
LEMMA InteractionStart == InteractionInit => InteractionInv
  <1> SUFFICES ASSUME InteractionInit PROVE InteractionInv
    OBVIOUS
  <1>1. NoSync \in SyncType /\ NoAuth \in AuthType /\ Quiet(NoSync) /\ NoAuth.phase = "idle"
    BY DEF NoSync, NoAuth, SyncType, AuthType, Quiet, Never, None, Modes
  <1>2. InteractionTypeOK
    BY <1>1 DEF InteractionInit, InteractionTypeOK, Images, Actions, Never, None
  <1>3. NothingPending
    BY <1>1 DEF InteractionInit, NothingPending, Never
  <1> QED BY <1>2, <1>3 DEF InteractionInv

\* before_render of an expanded frame
LEMMA RenderFacts ==
    ASSUME InteractionInv, NEW frame \in Images, frame.expanded, RenderExpanded(frame),
           hist'.asked = hist.asked
    PROVE  /\ sync' \in SyncType /\ auth' \in AuthType
           /\ cells' \in [alive: BOOLEAN, intent: Int, escape: BOOLEAN, mode: Actions]
           /\ NothingPending'
  <1> DEFINE known   == cursor # "unknown"
             visible == cursor = "visible"
             noted   == [sync EXCEPT !.intent = IF cells.intent # Never THEN cells.intent ELSE @]
             step    == IF known THEN SyncUpdate(noted, frame, visible, cells.escape)
                                 ELSE [sync |-> sync, action |-> None]
             before  == CASE step.action = "enter" ->
                               [phase |-> "awaiting", age |-> 0, lockSent |-> Never]
                          [] step.action = "lock" -> NoAuth
                          [] OTHER -> auth
             after   == AuthUpdate(before, frame, cursor)
             cell    == IF step.action # None THEN step.action
                        ELSE IF known /\ step.sync.target = None THEN None ELSE cells.mode
  <1>0. /\ sync' = step.sync /\ auth' = after.auth
        /\ cells' = [cells EXCEPT
                       !.intent = IF known THEN Never ELSE @,
                       !.mode = IF after.lock THEN "lock" ELSE cell,
                       !.escape = @ /\ ~(known /\ frame.mode = "locked" /\ ~visible)]
    BY DEF RenderExpanded
  <1>t. /\ sync \in SyncType /\ auth \in AuthType /\ hist.asked \in BOOLEAN
        /\ cells \in [alive: BOOLEAN, intent: Int, escape: BOOLEAN, mode: Actions]
    BY DEF InteractionInv, InteractionTypeOK
  <1>c. cells.intent \in Int /\ cells.escape \in BOOLEAN /\ cells.mode \in Actions
    BY <1>t
  <1>n. Never \in Int BY DEF Never
  <1>1. noted \in SyncType /\ (cells.intent = Never => noted = sync)
    BY <1>t, <1>c DEF SyncType
  <1>2. /\ step.sync \in SyncType /\ step.action \in Actions
        /\ known /\ (cells.escape \/ Quiet(noted)) => Quiet(step.sync)
        /\ known /\ (cells.escape \/ Quiet(noted)) => step.action # "enter"
        /\ ~known => step.sync = sync /\ step.action = None
    <2> HIDE DEF noted
    <2>1. CASE known BY <1>1, <1>c, <2>1, SyncFacts
    <2>2. CASE ~known BY <1>t, <2>2 DEF Actions
    <2> QED BY <2>1, <2>2
  <1> HIDE DEF step
  <1>3. before \in AuthType /\ (step.action # "enter" /\ auth.phase = "idle" => before.phase = "idle")
    <2>1. NoAuth \in AuthType /\ NoAuth.phase = "idle"
      BY <1>n DEF NoAuth, AuthType
    <2>2. [phase |-> "awaiting", age |-> 0, lockSent |-> Never] \in AuthType
      BY <1>n DEF AuthType
    <2> QED BY <1>t, <2>1, <2>2
  <1> HIDE DEF before
  <1>4. /\ after.auth \in AuthType /\ after.lock \in BOOLEAN
        /\ before.phase = "idle" => after.auth.phase = "idle"
    BY <1>3, AuthFacts
  <1> HIDE DEF after
  <1>5. cells' \in [alive: BOOLEAN, intent: Int, escape: BOOLEAN, mode: Actions]
    <2>1. cell \in Actions BY <1>2, <1>c DEF Actions
    <2>2. "lock" \in Actions BY DEF Actions
    <2> HIDE DEF cell
    <2> QED BY <1>0, <1>t, <1>c, <1>n, <2>1, <2>2
  <1>6. NothingPending'
    <2> SUFFICES ASSUME ~hist.asked
                 PROVE  /\ auth'.phase = "idle" /\ cells'.intent = Never
                        /\ cells'.escape \/ Quiet(sync')
      BY DEF NothingPending, Quiet
    <2>1. auth.phase = "idle" /\ cells.intent = Never /\ (cells.escape \/ Quiet(sync))
      BY DEF InteractionInv, NothingPending
    <2>2. noted = sync BY <1>1, <2>1
    <2>3. step.action # "enter" /\ (known => Quiet(step.sync))
      BY <1>2, <2>1, <2>2 DEF None
    <2>4. auth'.phase = "idle" BY <1>0, <1>3, <1>4, <2>1, <2>3
    <2>5. cells'.intent = Never BY <1>0, <1>t, <2>1
    <2>6. cells'.escape \/ Quiet(sync')
      <3>1. CASE known BY <1>0, <2>3, <3>1
      <3>2. CASE ~known
        <4>1. sync' = sync BY <1>0, <1>2, <3>2
        <4>2. cells'.escape = cells.escape BY <1>0, <1>t, <1>c, <3>2
        <4> QED BY <2>1, <4>1, <4>2
      <3> QED BY <3>1, <3>2
    <2> QED BY <2>4, <2>5, <2>6
  <1> QED BY <1>0, <1>2, <1>4, <1>5, <1>6

\* Every step keeps it.
LEMMA InteractionStep == InteractionInv /\ [InteractionNext]_inputVars => InteractionInv'
  <1> SUFFICES ASSUME InteractionInv, [InteractionNext]_inputVars PROVE InteractionInv'
    OBVIOUS
  <1>t. InteractionTypeOK BY DEF InteractionInv
  <1>p. NothingPending BY DEF InteractionInv
  <1>n. /\ NoSync \in SyncType /\ NoAuth \in AuthType /\ Quiet(NoSync) /\ NoAuth.phase = "idle"
        /\ Never \in Int /\ None \in Actions /\ "lock" \in Actions /\ NoImage \in Images
    BY DEF NoSync, NoAuth, SyncType, AuthType, Quiet, Never, None, Modes, Actions, Images
  <1>c. /\ cells.intent \in Int /\ cells.escape \in BOOLEAN /\ cells.mode \in Actions
        /\ cells.alive \in BOOLEAN
        /\ hist.asked \in BOOLEAN /\ hist.escapes + 1 \in Nat /\ hist.changes + 1 \in Nat
    BY <1>t DEF InteractionTypeOK
  <1>1. CASE BeforeRenderInput
    <2> DEFINE frame == IF pending # NoImage THEN pending ELSE current
    <2>0. frame \in Images BY <1>t DEF InteractionTypeOK
    <2>1. /\ UNCHANGED <<cursor, overlay>> /\ hist'.asked = hist.asked
          /\ hist' \in [escapes: Nat, changes: Nat, asked: BOOLEAN, lostSight: BOOLEAN]
      BY <1>1, <1>t DEF BeforeRenderInput, InteractionTypeOK
    <2>2. current' \in Images /\ pending' \in Images
      BY <1>1, <1>t, <1>n, <2>0 DEF BeforeRenderInput, InteractionTypeOK
    <2>3. /\ sync' \in SyncType /\ auth' \in AuthType
          /\ cells' \in [alive: BOOLEAN, intent: Int, escape: BOOLEAN, mode: Actions]
          /\ NothingPending'
      <3>1. CASE ResetInteraction
        <4>1. sync' = NoSync /\ auth' = NoAuth BY <3>1 DEF ResetInteraction
        <4>2. /\ cells' \in [alive: BOOLEAN, intent: Int, escape: BOOLEAN, mode: Actions]
              /\ cells'.intent = Never
          BY <1>t, <1>n, <3>1 DEF ResetInteraction, InteractionTypeOK
        <4> QED BY <1>n, <4>1, <4>2 DEF NothingPending
      <3>2. CASE frame.expanded /\ RenderExpanded(frame)
        <4> HIDE DEF frame
        <4> QED BY <2>0, <2>1, <3>2, RenderFacts
      <3> QED BY <1>1, <3>1, <3>2 DEF BeforeRenderInput
    <2> QED BY <1>t, <2>1, <2>2, <2>3 DEF InteractionInv, InteractionTypeOK
  <1>2. CASE Escape
    <2>0. /\ UNCHANGED <<current, pending, sync, cursor, overlay>>
          /\ hist' \in [escapes: Nat, changes: Nat, asked: BOOLEAN, lostSight: BOOLEAN]
      BY <1>2, <1>t, <1>c DEF Escape, InteractionTypeOK
    <2>1. CASE current.mode = "interactive"
      <3>1. /\ auth' = NoAuth
            /\ cells' \in [alive: BOOLEAN, intent: Int, escape: BOOLEAN, mode: Actions]
            /\ cells'.intent = Never /\ cells'.escape = TRUE
        BY <1>2, <1>t, <1>n, <2>1 DEF Escape, InteractionTypeOK
      <3> QED BY <1>t, <1>n, <2>0, <3>1 DEF InteractionInv, InteractionTypeOK, NothingPending
    <2>2. CASE current.mode # "interactive"
      <3>1. /\ UNCHANGED auth
            /\ cells' = [cells EXCEPT !.intent = IF cells.escape THEN @ ELSE 0]
            /\ hist'.asked = (hist.asked \/ ~cells.escape)
        BY <1>2, <1>t, <2>2 DEF Escape, InteractionTypeOK
      <3>2. /\ cells' \in [alive: BOOLEAN, intent: Int, escape: BOOLEAN, mode: Actions]
            /\ cells'.escape = cells.escape /\ (cells.escape => cells'.intent = cells.intent)
        BY <1>t, <1>c, <3>1 DEF InteractionTypeOK
      <3>3. NothingPending'
        BY <1>p, <1>c, <2>0, <3>1, <3>2 DEF NothingPending, Quiet
      <3> QED BY <1>t, <2>0, <3>1, <3>2, <3>3 DEF InteractionInv, InteractionTypeOK
    <2> QED BY <2>1, <2>2
  <1>3. CASE BridgePoll
    <2>1. /\ UNCHANGED <<current, sync, auth, cursor>>
          /\ cells' \in [alive: BOOLEAN, intent: Int, escape: BOOLEAN, mode: Actions]
          /\ cells'.intent = cells.intent /\ cells'.escape = cells.escape
      BY <1>3, <1>t, <1>n DEF BridgePoll, InteractionTypeOK
    <2>2. /\ hist' \in [escapes: Nat, changes: Nat, asked: BOOLEAN, lostSight: BOOLEAN]
          /\ hist'.asked = hist.asked
      BY <1>3, <1>t, <1>c DEF BridgePoll, InteractionTypeOK
    <2>3. overlay' \in [mode: Modes, expanded: BOOLEAN, mail: Actions]
      BY <1>3, <1>t, <1>c DEF BridgePoll, InteractionTypeOK
    <2>4. pending' \in Images
      BY <1>3, <1>t, <1>n DEF BridgePoll, InteractionTypeOK, Images
    <2>5. NothingPending' BY <1>p, <2>1, <2>2 DEF NothingPending, Quiet
    <2> QED BY <1>t, <2>1, <2>2, <2>3, <2>4, <2>5 DEF InteractionInv, InteractionTypeOK
  <1>4. CASE OverlayApplies \/ OverlayChanges
    <2>1. UNCHANGED <<current, pending, sync, auth, cells, cursor>>
      BY <1>4 DEF OverlayApplies, OverlayChanges
    <2>2. overlay' \in [mode: Modes, expanded: BOOLEAN, mail: Actions]
      BY <1>4, <1>t, <1>n DEF OverlayApplies, OverlayChanges, InteractionTypeOK, Modes
    <2>3. /\ hist' \in [escapes: Nat, changes: Nat, asked: BOOLEAN, lostSight: BOOLEAN]
          /\ hist'.asked = hist.asked
      BY <1>4, <1>t, <1>c DEF OverlayApplies, OverlayChanges, InteractionTypeOK
    <2>4. NothingPending' BY <1>p, <2>1, <2>3 DEF NothingPending, Quiet
    <2> QED BY <1>t, <2>1, <2>2, <2>3, <2>4 DEF InteractionInv, InteractionTypeOK
  <1>5. CASE CursorChanges
    <2>1. UNCHANGED <<current, pending, sync, auth, cells, overlay, hist>> /\
          cursor' \in {"hidden", "visible", "unknown"}
      BY <1>5 DEF CursorChanges
    <2>2. NothingPending' BY <1>p, <2>1 DEF NothingPending, Quiet
    <2> QED BY <1>t, <2>1, <2>2 DEF InteractionInv, InteractionTypeOK
  <1>6. CASE Tick
    <2>1. \A n \in Int: Older(n) \in Int
      BY InteractionAssumption DEF Older, CapAge
    <2>2. Older(Never) = Never BY DEF Older
    <2>3. sync' \in SyncType /\ sync'.target = sync.target /\ sync'.intent = Older(sync.intent)
      BY <1>6, <1>t, <2>1 DEF Tick, InteractionTypeOK, SyncType
    <2>4. auth' \in AuthType /\ auth'.phase = auth.phase
      BY <1>6, <1>t, <2>1 DEF Tick, InteractionTypeOK, AuthType
    <2>5. /\ cells' \in [alive: BOOLEAN, intent: Int, escape: BOOLEAN, mode: Actions]
          /\ cells'.intent = Older(cells.intent) /\ cells'.escape = cells.escape
      BY <1>6, <1>t, <2>1 DEF Tick, InteractionTypeOK
    <2>6. UNCHANGED <<current, pending, cursor, overlay, hist>>
      BY <1>6 DEF Tick
    <2>7. NothingPending' BY <1>p, <2>2, <2>3, <2>4, <2>5, <2>6 DEF NothingPending, Quiet
    <2> QED BY <1>t, <2>3, <2>4, <2>5, <2>6, <2>7 DEF InteractionInv, InteractionTypeOK
  <1>7. CASE UNCHANGED inputVars
    BY <1>7, <1>t, <1>p DEF inputVars, InteractionInv, InteractionTypeOK, NothingPending, Quiet
  <1> QED BY <1>1, <1>2, <1>3, <1>4, <1>5, <1>6, <1>7 DEF InteractionNext

\* For every length of the time limits, any number of Escapes, of changes the
\* overlay makes by itself and of lost heartbeats: the map takes the player's
\* input (message_filter) only after an Escape on the locked map, and after the
\* Escape that gave the input back only when there was another one.
THEOREM CaptureAlwaysAsked == InteractionSpec => []CaptureNeedsEscape
  <1>1. InteractionInv => CaptureNeedsEscape
    BY DEF InteractionInv, NothingPending, CaptureNeedsEscape, Capturing
  <1> QED BY InteractionStart, InteractionStep, <1>1, PTL DEF InteractionSpec

=============================================================================
