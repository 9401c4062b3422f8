--------------------------- MODULE TeardownProofs ---------------------------
(***************************************************************************)
(* For every number of reactors: a SHUTDOWN that stops one stops all, and  *)
(* what is freed meanwhile is that of threads which have left their loops, *)
(* with those that still run all before the SHUTDOWNs under way.  The      *)
(* invariants of the loop are taken over from ReactorProofs, for main adds *)
(* no step to the loops.                                                   *)
(***************************************************************************)
EXTENDS Teardown, ReactorProofs

(* Until its last bit, a thread in cmd_shutdown has in todo all that run. *)
StopsRest ==
  \A s \in Reactors : pc[s] = "stop" =>
    \A r \in Reactors : running[r] => r \in todo[s]

(* The scans go up, so those that run are always the last ones. *)
LastOnesRun ==
  \A q, s \in Reactors : running[q] /\ q < s => running[s]

(* A thread leaves its loop when it is told to, closes its connections and *)
(* is then joined.                                                         *)
ExitsStopped ==
  /\ \A r \in Reactors : pc[r] = "exit" => ~running[r]
  /\ closed \in [Reactors -> BOOLEAN]
  /\ \A r \in Reactors : closed[r] => pc[r] = "exit"
  /\ joined \in 0 .. N
  /\ \A r \in Reactors : Freed(r) => closed[r]

TInv == StopsRest /\ StopsForAll /\ LastOnesRun /\ ExitsStopped

(* What a step of a thread does to a SHUTDOWN, except for Stop: it starts  *)
(* one, or leaves those that are not finished alone.                       *)
Untouched ==
  /\ running' = running
  /\ \A s \in Reactors :
       /\ pc[s] = "stop" /\ todo[s] # {} => pc'[s] = "stop" /\ todo'[s] = todo[s]
       /\ pc'[s] = "stop" =>
            (pc[s] = "stop" /\ todo'[s] = todo[s]) \/ todo'[s] = Reactors

(* Threads leave their loops from its head, and do not come back. *)
Leaves ==
  \A s \in Reactors :
    /\ pc[s] = "exit" => pc'[s] = "exit"
    /\ pc'[s] = "exit" => pc[s] = "exit" \/ ~running[s]

LEMMA StepTouches ==
  ASSUME TypeOK, NEW r \in Reactors, Step(r) \/ Interrupted(r) \/ ClientSend(r)
  PROVE  Leaves /\ (Stop(r) \/ Untouched)
<1>. USE DEF TypeOK, Goto, shared, local, client, Leaves, Untouched
<1>1. CASE Top(r)
  BY <1>1 DEF Top
<1>2. CASE Exchange(r)
  BY <1>2 DEF Exchange
<1>3. CASE WakeWrite(r)
  BY <1>3 DEF WakeWrite
<1>4. CASE WakeDone(r)
  BY <1>4 DEF WakeDone
<1>5. CASE PollRequest(r)
  BY <1>5 DEF PollRequest, Take
<1>6. CASE PollResponse(r)
  BY <1>6 DEF PollResponse, Take
<1>7. CASE PollNothing(r)
  BY <1>7 DEF PollNothing
<1>8. CASE HandleLocal(r)
  BY <1>8 DEF HandleLocal
<1>9. CASE HandleShutdown(r)
  BY <1>9 DEF HandleShutdown
<1>10. CASE Stop(r)
  BY <1>10 DEF Stop
<1>11. CASE StopDone(r)
  BY <1>11 DEF StopDone
<1>12. CASE HandleDone(r)
  BY <1>12 DEF HandleDone
<1>13. CASE \E q \in Reactors : HandleDispatch(r, q)
  BY <1>13 DEF HandleDispatch
<1>14. CASE Claim(r)
  BY <1>14 DEF Claim
<1>15. CASE Publish(r)
  BY <1>15 DEF Publish
<1>16. CASE Sleep(r)
  BY <1>16 DEF Sleep
<1>17. CASE Check(r)
  BY <1>17 DEF Check
<1>18. CASE Unsleep(r)
  BY <1>18 DEF Unsleep
<1>19. CASE Wait(r)
  BY <1>19 DEF Wait
<1>20. CASE Woken(r)
  BY <1>20 DEF Woken
<1>21. CASE EpollNow(r)
  BY <1>21 DEF EpollNow
<1>22. CASE WakeupEvent(r)
  BY <1>22 DEF WakeupEvent
<1>23. CASE ClientEvent(r)
  BY <1>23 DEF ClientEvent
<1>24. CASE EventsDone(r)
  BY <1>24 DEF EventsDone
<1>25. CASE Interrupted(r)
  BY <1>25 DEF Interrupted
<1>26. CASE ClientSend(r)
  BY <1>26 DEF ClientSend
<1>. QED
  BY <1>1, <1>2, <1>3, <1>4, <1>5, <1>6, <1>7, <1>8, <1>9, <1>10, <1>11, <1>12, <1>13,
     <1>14, <1>15, <1>16, <1>17, <1>18, <1>19, <1>20, <1>21, <1>22, <1>23, <1>24, <1>25, <1>26
  DEF Step, WakeStep, PollStep, HandleStep, SendStep, SleepStep, EventStep

(* The invariants of SHUTDOWN over a step of a loop. *)
LEMMA LoopKeepsStops ==
  ASSUME TypeOK, StopsRest, StopsForAll, LastOnesRun, NEW r \in Reactors,
         Step(r) \/ Interrupted(r) \/ ClientSend(r)
  PROVE  StopsRest' /\ StopsForAll' /\ LastOnesRun'
<1>. USE DEF StopsRest, StopsForAll, BeingStopped, LastOnesRun
<1>1. CASE Untouched
  <2>1. StopsRest'
    BY <1>1 DEF Untouched
  <2>2. \A s \in BeingStopped : s \in BeingStopped'
    BY <1>1 DEF Untouched
  <2>. QED
    BY <1>1, <2>1, <2>2 DEF Untouched
<1>2. CASE Stop(r)
  <2>. DEFINE b == NextBit(r)
  <2>1. b \in Reactors /\ b \in todo[r] /\ \A j \in todo[r] : b <= j
    <3>1. todo[r] # {} /\ todo[r] \in SUBSET Reactors
      BY <1>2 DEF Stop, TypeOK
    <3>. QED
      BY <3>1, LowestMember DEF NextBit
  <2>2. /\ running' = [running EXCEPT ![b] = FALSE]
        /\ todo' = [todo EXCEPT ![r] = todo[r] \ {b}]
        /\ pc' = pc /\ pc[r] = "stop"
    BY <1>2 DEF Stop
  <2>. HIDE DEF b
  <2>3. StopsRest'
    BY <2>1, <2>2 DEF TypeOK
  <2>4. \A s \in Reactors : running'[s] => s \in todo'[r]
    BY <2>1, <2>2 DEF TypeOK
  <2>5. \A s \in Reactors : running'[s] => s \in BeingStopped'
    BY <2>2, <2>4
  <2>6. \A q \in Reactors : running[q] => b <= q
    BY <2>1, <2>2
  <2>7. LastOnesRun'
    BY <2>1, <2>2, <2>6 DEF TypeOK, Reactors
  <2>. QED
    BY <2>3, <2>5, <2>7
<1>. QED
  BY <1>1, <1>2, StepTouches

LEMMA LoopKeepsExits ==
  ASSUME TypeOK, ExitsStopped, NEW r \in Reactors,
         Step(r) \/ Interrupted(r) \/ ClientSend(r), UNCHANGED <<closed, joined>>
  PROVE  ExitsStopped'
<1>1. Leaves
  BY StepTouches
<1>2. \A s \in Reactors : ~running[s] => ~running'[s]
  <2>1. CASE Untouched
    BY <2>1 DEF Untouched
  <2>2. CASE Stop(r)
    <3>1. running' = [running EXCEPT ![NextBit(r)] = FALSE]
      BY <2>2 DEF Stop
    <3>. QED
      BY <3>1 DEF TypeOK
  <2>. QED
    BY <2>1, <2>2, StepTouches
<1>. QED
  BY <1>1, <1>2 DEF Leaves, ExitsStopped, Freed

LEMMA TInvInit == TeardownInit => TInv
BY ReactorAssumption DEF TeardownInit, Init, TInv, StopsRest, StopsForAll, LastOnesRun,
                         ExitsStopped, Freed, Reactors

LEMMA TInvStep == TypeOK /\ TInv /\ [TeardownNext]_teardown_vars => TInv'
<1>. SUFFICES ASSUME TypeOK, TInv, [TeardownNext]_teardown_vars PROVE TInv'
  OBVIOUS
<1>1. ASSUME NEW r \in Reactors, Step(r) \/ Interrupted(r) \/ ClientSend(r),
             UNCHANGED <<closed, joined>>
      PROVE  TInv'
  BY <1>1, LoopKeepsStops, LoopKeepsExits DEF TInv
<1>2. ASSUME UNCHANGED vars PROVE (StopsRest /\ StopsForAll /\ LastOnesRun)'
  BY <1>2 DEF TInv, StopsRest, StopsForAll, BeingStopped, LastOnesRun, vars, shared, local, client
<1>3. ASSUME NEW r \in Reactors, CloseAll(r) PROVE TInv'
  <2>1. ExitsStopped'
    BY <1>3 DEF CloseAll, TInv, ExitsStopped, Freed, vars, shared, local, client
  <2>. QED
    BY <1>2, <1>3, <2>1 DEF CloseAll, TInv
<1>4. CASE JoinAndFree
  <2>1. ExitsStopped'
    BY <1>4, ReactorAssumption DEF JoinAndFree, TInv, ExitsStopped, Freed, Reactors,
                vars, shared, local, client
  <2>. QED
    BY <1>2, <1>4, <2>1 DEF JoinAndFree, TInv
<1>5. ASSUME UNCHANGED <<vars, closed, joined>> PROVE TInv'
  <2>1. ExitsStopped'
    BY <1>5 DEF TInv, ExitsStopped, Freed, vars, shared, local, client
  <2>. QED
    BY <1>2, <1>5, <2>1 DEF TInv
<1>6. ASSUME NEW r \in Reactors, UseFreed(r) PROVE TInv'
  BY <1>5, <1>6 DEF UseFreed
<1>7. CASE UNCHANGED teardown_vars
  BY <1>5, <1>7 DEF teardown_vars, main_vars
<1>. QED
  BY <1>1, <1>3, <1>4, <1>6, <1>7
  DEF TeardownNext, ThreadStep, LoopStep, MainStep, main_vars

(* Main and the ends of the threads add nothing to the loops: what is      *)
(* proved of them holds with both.                                         *)
LEMMA WithMain == TeardownSpec => Spec
<1>1. TeardownInit => Init
  BY DEF TeardownInit
<1>2. [TeardownNext]_teardown_vars => [Next]_vars
  BY DEF TeardownNext, ThreadStep, LoopStep, CloseAll, UseFreed, MainStep, JoinAndFree,
         Next, teardown_vars
<1>. QED
  BY <1>1, <1>2, PTL DEF TeardownSpec, Spec

LEMMA TeardownInvariance == TeardownSpec => []TInv
BY TInvInit, TInvStep, WithMain, TypeCorrect, PTL DEF TeardownSpec

(* A SHUTDOWN that has stopped one reactor stops all. *)
THEOREM StopsAll == TeardownSpec => []StopsForAll
<1>1. TInv => StopsForAll
  BY DEF TInv
<1>. QED
  BY TeardownInvariance, <1>1, PTL

(* What is freed belongs to threads that have left their loops, and those  *)
(* that may begin another iteration come after them and after all that the *)
(* SHUTDOWNs under way have looked at, of which there is one.              *)
THEOREM FreedBehindShutdown == TeardownSpec => []FreedWhileStopping
<1>1. ASSUME TInv, NEW r \in Reactors, closed[r] \/ Freed(r)
      PROVE  /\ pc[r] = "exit"
             /\ \A s \in Reactors : running[s] =>
                  /\ r < s /\ s \in BeingStopped
                  /\ \A t \in Reactors : pc[t] = "stop" => s \in todo[t]
  <2>1. pc[r] = "exit" /\ ~running[r]
    BY <1>1 DEF TInv, ExitsStopped
  <2>2. ASSUME NEW s \in Reactors, running[s] PROVE r < s
    <3>1. ~(s < r) /\ s # r
      BY <1>1, <2>1, <2>2 DEF TInv, LastOnesRun
    <3>. QED
      BY <3>1 DEF Reactors
  <2>. QED
    BY <1>1, <2>1, <2>2 DEF TInv, StopsForAll, StopsRest
<1>2. TInv => FreedWhileStopping
  BY <1>1 DEF FreedWhileStopping
<1>. QED
  BY TeardownInvariance, <1>2, PTL
=============================================================================
