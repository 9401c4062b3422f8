--------------------------- MODULE ReactorProofs ---------------------------
(***************************************************************************)
(* No wakeup is lost between the reactors, for every number of reactors,   *)
(* every capacity of the queues and every number and kind of commands.     *)
(***************************************************************************)
EXTENDS Reactor, TLAPS, WellFoundedInduction

----------------------------------------------------------------------------
(* Callback queues *)

(* The entry reactor_poll_callbacks takes is an entry. *)
LEMMA QueueHead ==
  ASSUME NEW s \in Seq(Entry), s # << >>
  PROVE  Head(s) \in Entry
  OBVIOUS

(* What is left of a queue after it. *)
LEMMA QueueTail ==
  ASSUME NEW s \in Seq(Entry), s # << >>
  PROVE  Tail(s) \in Seq(Entry)
  OBVIOUS

(* A claimed entry makes a queue non-empty. *)
LEMMA QueueAppend ==
  ASSUME NEW s \in Seq(Entry), NEW e \in Entry
  PROVE  Append(s, e) \in Seq(Entry) /\ Append(s, e) # << >>
<1>1. Append(s, e) \in Seq(Entry) /\ Len(Append(s, e)) = Len(s) + 1
  OBVIOUS
<1>2. Len(s) \in Nat /\ Len(<< >>) = 0
  OBVIOUS
<1>. QED
  BY <1>1, <1>2

(* Publishing neither adds nor removes an entry. *)
LEMMA QueuePublish ==
  ASSUME NEW s \in Seq(Entry), NEW r
  PROVE  /\ Published(s, r) \in Seq(Entry)
         /\ Published(s, r) # << >> <=> s # << >>
<1>1. \A i \in 1 .. Len(s) : s[i] \in Entry
  OBVIOUS
<1>2. \A i \in 1 .. Len(s) : [s[i] EXCEPT !.ready = @ \/ s[i].from = r] \in Entry
  BY <1>1 DEF Entry
<1>3. DOMAIN s = 1 .. Len(s) /\ Len(s) \in Nat
  OBVIOUS
<1>4. Published(s, r) \in [1 .. Len(s) -> Entry]
  BY <1>2, <1>3 DEF Published
<1>5. Published(s, r) \in Seq(Entry) /\ Len(Published(s, r)) = Len(s)
  BY <1>3, <1>4
<1>. QED
  BY <1>5

----------------------------------------------------------------------------
(* Types *)

(* reactor_init gives every variable its type. *)
LEMMA TypeInit == Init => TypeOK
  BY DEF Init, TypeOK, Message, Labels

(* The mask of a reactor stays a set of reactors. *)
LEMMA BitsUpdate ==
  ASSUME NEW f \in [Reactors -> SUBSET Reactors], NEW r \in Reactors,
         NEW S \in SUBSET Reactors
  PROVE  [f EXCEPT ![r] = S] \in [Reactors -> SUBSET Reactors]
  OBVIOUS

(* An eventfd stays a counter. *)
LEMMA CountUpdate ==
  ASSUME NEW f \in [Reactors -> Nat], NEW i
  PROVE  [f EXCEPT ![i] = @ + 1] \in [Reactors -> Nat]
<1>1. CASE i \in Reactors
  BY <1>1
<1>2. CASE i \notin Reactors
  BY <1>2
<1>. QED
  BY <1>1, <1>2

(* A thread stays at one of the labels. *)
LEMMA LabelUpdate ==
  ASSUME NEW f \in [Reactors -> Labels], NEW r, NEW l \in Labels
  PROVE  [f EXCEPT ![r] = l] \in [Reactors -> Labels]
  OBVIOUS

(* A mask that is not empty has a lowest bit. *)
LEMMA LowestMember ==
  ASSUME NEW bits \in SUBSET Reactors, bits # {}
  PROVE  Lowest(bits) \in bits /\ \A i \in bits : Lowest(bits) <= i
<1>. DEFINE below == OpToRel(<, Nat)
<1>1. bits \subseteq Nat
  BY DEF Reactors
<1>2. IsWellFoundedOn(below, Nat)
  BY NatLessThanWellFounded
<1>3. \A x, y \in Nat : y < x => <<y, x>> \in below
  BY DEF OpToRel
<1>. HIDE DEF below
<1>4. \E x \in bits : \A y \in bits : ~ (<<y, x>> \in below)
  BY <1>1, <1>2, WFMin
<1>5. \E x \in bits : \A y \in bits : x <= y
  <2>1. PICK x \in bits : \A y \in bits : ~ (<<y, x>> \in below)
    BY <1>4
  <2>2. \A y \in bits : x \in Nat /\ y \in Nat /\ ~ (y < x)
    BY <2>1, <1>1, <1>3
  <2>. QED
    BY <2>2
<1>. QED
  BY <1>5 DEF Lowest

(* Every step keeps the types, one case per action. *)
LEMMA TypeStep ==
  ASSUME TypeOK, NEW r \in Reactors, pc[r] = "handle" => caller[r] # "none",
         Step(r) \/ Interrupted(r) \/ ClientSend(r)
  PROVE  TypeOK'
<1>. USE DEF TypeOK, Goto, shared, local, client
<1>. soft_notify[r] \in SUBSET Reactors /\ todo[r] \in SUBSET Reactors
  OBVIOUS
<1>1. CASE Top(r)
  <2>1. pc' = [pc EXCEPT ![r] = "wake"] \/ pc' = [pc EXCEPT ![r] = "exit"]
    BY <1>1 DEF Top
  <2>2. pc' \in [Reactors -> Labels]
    BY <2>1, LabelUpdate DEF Labels
  <2>3. todo' \in [Reactors -> SUBSET Reactors]
    BY <1>1, BitsUpdate DEF Top
  <2>. QED
    BY <2>2, <2>3, <1>1 DEF Top
<1>2. CASE Exchange(r)
  <2>1. pc' = [pc EXCEPT ![r] = "wake_write"] \/ pc' = pc
    BY <1>2 DEF Exchange
  <2>2. pc' \in [Reactors -> Labels]
    BY <2>1, LabelUpdate DEF Labels
  <2>. DEFINE rest == todo[r] \ {NextBit(r)}
  <2>5. todo' = todo \/ todo' = [todo EXCEPT ![r] = rest]
    BY <1>2 DEF Exchange
  <2>6. rest \in SUBSET Reactors
    OBVIOUS
  <2>3. todo' \in [Reactors -> SUBSET Reactors]
    <3>1. CASE todo' = todo
      BY <3>1
    <3>2. CASE todo' = [todo EXCEPT ![r] = rest]
      BY <3>2, <2>6, BitsUpdate
    <3>. QED
      BY <3>1, <3>2, <2>5
  <2>4. sleeping' \in [Reactors -> BOOLEAN]
    BY <1>2 DEF Exchange
  <2>. QED
    BY <2>2, <2>3, <2>4, <1>2 DEF Exchange
<1>3. CASE WakeWrite(r)
  <2>1. todo' \in [Reactors -> SUBSET Reactors]
    BY <1>3, BitsUpdate DEF WakeWrite
  <2>2. wakeup_fd' \in [Reactors -> Nat]
    BY <1>3, CountUpdate DEF WakeWrite
  <2>. QED
    BY <2>1, <2>2, <1>3 DEF WakeWrite, Labels
<1>4. CASE WakeDone(r)
  <2>1. pc' = [pc EXCEPT ![r] = "poll"] \/ pc' = [pc EXCEPT ![r] = "handle"]
    BY <1>4 DEF WakeDone
  <2>2. pc' \in [Reactors -> Labels]
    BY <2>1, LabelUpdate DEF Labels
  <2>3. soft_notify' \in [Reactors -> SUBSET Reactors]
    BY <1>4, BitsUpdate DEF WakeDone
  <2>4. cb_count' \in [Reactors -> BOOLEAN]
    BY <1>4 DEF WakeDone
  <2>. QED
    BY <2>2, <2>3, <2>4, <1>4 DEF WakeDone
<1>5. CASE PollRequest(r)
  BY <1>5, QueueHead, QueueTail DEF PollRequest, Take, HeadReady, Entry, Message, Labels
<1>6. CASE PollResponse(r)
  BY <1>6, QueueTail DEF PollResponse, Take, HeadReady, Labels
<1>7. CASE PollNothing(r)
  <2>1. pc' = [pc EXCEPT ![r] = "epoll"] \/ pc' = [pc EXCEPT ![r] = "sleep"]
    BY <1>7 DEF PollNothing
  <2>2. pc' \in [Reactors -> Labels]
    BY <2>1, LabelUpdate DEF Labels
  <2>. QED
    BY <2>2, <1>7 DEF PollNothing
<1>8. CASE HandleLocal(r)
  BY <1>8 DEF HandleLocal, Labels
<1>9. CASE HandleShutdown(r)
  BY <1>9 DEF HandleShutdown, Labels
<1>10. CASE Stop(r)
  <2>1. NextBit(r) \in Reactors
    BY <1>10, LowestMember DEF Stop, NextBit
  <2>2. running' \in [Reactors -> BOOLEAN]
    BY <1>10 DEF Stop
  <2>3. todo' \in [Reactors -> SUBSET Reactors]
    BY <1>10, BitsUpdate DEF Stop
  <2>4. soft_notify[r] \cup {NextBit(r)} \in SUBSET Reactors
    BY <2>1
  <2>5. soft_notify' \in [Reactors -> SUBSET Reactors]
    BY <1>10, <2>4, BitsUpdate DEF Stop
  <2>. QED
    BY <2>2, <2>3, <2>5, <1>10 DEF Stop
<1>11. CASE StopDone(r)
  BY <1>11 DEF StopDone, Labels
<1>12. CASE HandleDone(r)
  BY <1>12 DEF HandleDone, Labels
<1>13. CASE \E peer \in Reactors : HandleDispatch(r, peer)
  <2>1. PICK q \in Reactors : HandleDispatch(r, q)
    BY <1>13
  <2>2. [to |-> q, kind |-> "req"] \in Message
    BY DEF Message
  <2>. QED
    BY <2>1, <2>2 DEF HandleDispatch, Labels
<1>14. CASE Claim(r)
  BY <1>14, QueueAppend DEF Claim, Entry, Message, Labels
<1>15. CASE Publish(r)
  <2>1. out[r].to \in Reactors /\ cb_queue[out[r].to] \in Seq(Entry)
    BY DEF Message
  <2>2. soft_notify' \in [Reactors -> SUBSET Reactors]
    BY <1>15, <2>1, BitsUpdate DEF Publish
  <2>3. cb_queue' \in [Reactors -> Seq(Entry)]
    BY <1>15, <2>1, QueuePublish DEF Publish
  <2>4. CASE out[r].kind = "req"
    BY <2>2, <2>3, <2>4, <1>15 DEF Publish, Labels
  <2>5. CASE out[r].kind = "resp"
    BY <2>2, <2>3, <2>5, <1>15 DEF Publish, Labels
  <2>. QED
    BY <2>4, <2>5, <1>15 DEF Publish
<1>16. CASE Sleep(r)
  BY <1>16 DEF Sleep, Labels
<1>17. CASE Check(r)
  <2>1. pc' = [pc EXCEPT ![r] = "unsleep"] \/ pc' = [pc EXCEPT ![r] = "wait"]
    BY <1>17 DEF Check
  <2>2. pc' \in [Reactors -> Labels]
    BY <2>1, LabelUpdate DEF Labels
  <2>. QED
    BY <2>2, <1>17 DEF Check
<1>18. CASE Unsleep(r)
  BY <1>18 DEF Unsleep, Labels
<1>19. CASE Wait(r)
  BY <1>19 DEF Wait, Readable, Labels
<1>20. CASE Woken(r)
  BY <1>20 DEF Woken, Labels
<1>21. CASE EpollNow(r)
  BY <1>21 DEF EpollNow, Readable, Labels
<1>22. CASE WakeupEvent(r)
  BY <1>22 DEF WakeupEvent, Labels
<1>23. CASE ClientEvent(r)
  <2>1. buffered' \in [Reactors -> Nat] /\ unread' \in [Reactors -> Nat]
    BY <1>23 DEF ClientEvent
  <2>2. events' \in [Reactors -> SUBSET {"wakeup", "client"}]
    BY <1>23 DEF ClientEvent
  <2>3. CASE waiting[r]
    BY <2>1, <2>2, <2>3, <1>23 DEF ClientEvent
  <2>4. CASE ~waiting[r]
    BY <2>1, <2>2, <2>4, <1>23 DEF ClientEvent, Labels
  <2>. QED
    BY <2>3, <2>4
<1>24. CASE EventsDone(r)
  BY <1>24 DEF EventsDone, Labels
<1>25. CASE Interrupted(r)
  BY <1>25 DEF Interrupted, Labels
<1>26. CASE ClientSend(r)
  BY <1>26 DEF ClientSend, Labels
<1>. QED
  BY <1>1, <1>2, <1>3, <1>4, <1>5, <1>6, <1>7, <1>8, <1>9, <1>10, <1>11, <1>12, <1>13,
     <1>14, <1>15, <1>16, <1>17, <1>18, <1>19, <1>20, <1>21, <1>22, <1>23, <1>24, <1>25, <1>26
  DEF Step, WakeStep, PollStep, HandleStep, SendStep, SleepStep, EventStep

----------------------------------------------------------------------------
(* No reactor goes to sleep with a bit of soft_notify set. *)

(* Every step keeps the bits of soft_notify away from the sleep. *)
LEMMA DebtStep ==
  ASSUME TypeOK, SleepsWithoutDebt, DebtIsCounted, NEW r \in Reactors,
         Step(r) \/ Interrupted(r) \/ ClientSend(r)
  PROVE  SleepsWithoutDebt' /\ DebtIsCounted'
<1>. USE DEF TypeOK, SleepsWithoutDebt, DebtIsCounted, Goto, shared, local, client
<1>1. CASE Top(r)
  BY <1>1 DEF Top
<1>2. CASE Exchange(r)
  BY <1>2 DEF Exchange
<1>3. CASE WakeWrite(r)
  BY <1>3 DEF WakeWrite
<1>4. CASE WakeDone(r)
  BY <1>4 DEF WakeDone
<1>5. CASE PollRequest(r)
  BY <1>5 DEF PollRequest
<1>6. CASE PollResponse(r)
  BY <1>6 DEF PollResponse
<1>7. CASE PollNothing(r)
  BY <1>7 DEF PollNothing
<1>8. CASE HandleLocal(r)
  BY <1>8 DEF HandleLocal
<1>9. CASE HandleShutdown(r)
  BY <1>9 DEF HandleShutdown
<1>10. CASE Stop(r)
  BY <1>10 DEF Stop
<1>11. CASE StopDone(r)
  BY <1>11 DEF StopDone
<1>12. CASE HandleDone(r)
  BY <1>12 DEF HandleDone
<1>13. CASE \E peer \in Reactors : HandleDispatch(r, peer)
  BY <1>13 DEF HandleDispatch
<1>14. CASE Claim(r)
  BY <1>14 DEF Claim
<1>15. CASE Publish(r)
  BY <1>15 DEF Publish
<1>16. CASE Sleep(r)
  BY <1>16 DEF Sleep
<1>17. CASE Check(r)
  BY <1>17 DEF Check
<1>18. CASE Unsleep(r)
  BY <1>18 DEF Unsleep
<1>19. CASE Wait(r)
  BY <1>19 DEF Wait
<1>20. CASE Woken(r)
  BY <1>20 DEF Woken
<1>21. CASE EpollNow(r)
  BY <1>21 DEF EpollNow
<1>22. CASE WakeupEvent(r)
  BY <1>22 DEF WakeupEvent
<1>23. CASE ClientEvent(r)
  <2>1. CASE waiting[r]
    BY <1>23, <2>1 DEF ClientEvent
  <2>2. CASE ~waiting[r]
    <3>1. /\ pc' = [pc EXCEPT ![r] = "handle"] /\ caller' = [caller EXCEPT ![r] = "events"]
          /\ UNCHANGED <<soft_notify, cb_count, out>>
      BY <1>23, <2>2 DEF ClientEvent
    <3>. QED
      BY <3>1
  <2>. QED
    BY <2>1, <2>2
<1>24. CASE EventsDone(r)
  BY <1>24 DEF EventsDone
<1>25. CASE Interrupted(r)
  BY <1>25 DEF Interrupted
<1>26. CASE ClientSend(r)
  BY <1>26 DEF ClientSend
<1>. QED
  BY <1>1, <1>2, <1>3, <1>4, <1>5, <1>6, <1>7, <1>8, <1>9, <1>10, <1>11, <1>12, <1>13,
     <1>14, <1>15, <1>16, <1>17, <1>18, <1>19, <1>20, <1>21, <1>22, <1>23, <1>24, <1>25, <1>26
  DEF Step, WakeStep, PollStep, HandleStep, SendStep, SleepStep, EventStep

----------------------------------------------------------------------------
(* The flag sleeping and the wakeups in progress *)

(* A thread leaves the variables of the other threads alone. *)
LEMMA Frame ==
  ASSUME TypeOK, NEW r \in Reactors, NEW s \in Reactors \ {r},
         Step(r) \/ Interrupted(r) \/ ClientSend(r)
  PROVE  /\ pc'[s] = pc[s] /\ out'[s] = out[s] /\ todo'[s] = todo[s]
         /\ soft_notify'[s] = soft_notify[s]
<1>. USE DEF TypeOK, Goto, shared, local, client
<1>1. CASE Top(r)
  BY <1>1 DEF Top
<1>2. CASE Exchange(r)
  BY <1>2 DEF Exchange
<1>3. CASE WakeWrite(r)
  BY <1>3 DEF WakeWrite
<1>4. CASE WakeDone(r)
  BY <1>4 DEF WakeDone
<1>5. CASE PollRequest(r)
  BY <1>5 DEF PollRequest
<1>6. CASE PollResponse(r)
  BY <1>6 DEF PollResponse
<1>7. CASE PollNothing(r)
  BY <1>7 DEF PollNothing
<1>8. CASE HandleLocal(r)
  BY <1>8 DEF HandleLocal
<1>9. CASE HandleShutdown(r)
  BY <1>9 DEF HandleShutdown
<1>10. CASE Stop(r)
  BY <1>10 DEF Stop
<1>11. CASE StopDone(r)
  BY <1>11 DEF StopDone
<1>12. CASE HandleDone(r)
  BY <1>12 DEF HandleDone
<1>13. CASE \E peer \in Reactors : HandleDispatch(r, peer)
  BY <1>13 DEF HandleDispatch
<1>14. CASE Claim(r)
  BY <1>14 DEF Claim
<1>15. CASE Publish(r)
  BY <1>15 DEF Publish
<1>16. CASE Sleep(r)
  BY <1>16 DEF Sleep
<1>17. CASE Check(r)
  BY <1>17 DEF Check
<1>18. CASE Unsleep(r)
  BY <1>18 DEF Unsleep
<1>19. CASE Wait(r)
  BY <1>19 DEF Wait
<1>20. CASE Woken(r)
  BY <1>20 DEF Woken
<1>21. CASE EpollNow(r)
  BY <1>21 DEF EpollNow
<1>22. CASE WakeupEvent(r)
  BY <1>22 DEF WakeupEvent
<1>23. CASE ClientEvent(r)
  BY <1>23 DEF ClientEvent
<1>24. CASE EventsDone(r)
  BY <1>24 DEF EventsDone
<1>25. CASE Interrupted(r)
  BY <1>25 DEF Interrupted
<1>26. CASE ClientSend(r)
  BY <1>26 DEF ClientSend
<1>. QED
  BY <1>1, <1>2, <1>3, <1>4, <1>5, <1>6, <1>7, <1>8, <1>9, <1>10, <1>11, <1>12, <1>13,
     <1>14, <1>15, <1>16, <1>17, <1>18, <1>19, <1>20, <1>21, <1>22, <1>23, <1>24, <1>25, <1>26
  DEF Step, WakeStep, PollStep, HandleStep, SendStep, SleepStep, EventStep

(* A thread that is about to write the eventfd of q goes on to do so. *)
LEMMA WakingKept ==
  ASSUME TypeOK, NEW r \in Reactors, NEW q \in Reactors, Waking(r, q),
         Step(r) \/ Interrupted(r) \/ ClientSend(r)
  PROVE  Waking(r, q)' \/ wakeup_fd'[q] > 0
<1>. USE DEF TypeOK, Waking, NextBit, Goto, shared, local, client
<1>1. CASE Top(r)
  BY <1>1 DEF Top
<1>2. CASE Exchange(r)
  BY <1>2 DEF Exchange
<1>3. CASE WakeWrite(r)
  BY <1>3 DEF WakeWrite
<1>4. CASE WakeDone(r)
  BY <1>4 DEF WakeDone
<1>5. CASE PollRequest(r)
  BY <1>5 DEF PollRequest
<1>6. CASE PollResponse(r)
  BY <1>6 DEF PollResponse
<1>7. CASE PollNothing(r)
  BY <1>7 DEF PollNothing
<1>8. CASE HandleLocal(r)
  BY <1>8 DEF HandleLocal
<1>9. CASE HandleShutdown(r)
  BY <1>9 DEF HandleShutdown
<1>10. CASE Stop(r)
  BY <1>10 DEF Stop
<1>11. CASE StopDone(r)
  BY <1>11 DEF StopDone
<1>12. CASE HandleDone(r)
  BY <1>12 DEF HandleDone
<1>13. CASE \E peer \in Reactors : HandleDispatch(r, peer)
  BY <1>13 DEF HandleDispatch
<1>14. CASE Claim(r)
  BY <1>14 DEF Claim
<1>15. CASE Publish(r)
  BY <1>15 DEF Publish
<1>16. CASE Sleep(r)
  BY <1>16 DEF Sleep
<1>17. CASE Check(r)
  BY <1>17 DEF Check
<1>18. CASE Unsleep(r)
  BY <1>18 DEF Unsleep
<1>19. CASE Wait(r)
  BY <1>19 DEF Wait
<1>20. CASE Woken(r)
  BY <1>20 DEF Woken
<1>21. CASE EpollNow(r)
  BY <1>21 DEF EpollNow
<1>22. CASE WakeupEvent(r)
  BY <1>22 DEF WakeupEvent
<1>23. CASE ClientEvent(r)
  BY <1>23 DEF ClientEvent
<1>24. CASE EventsDone(r)
  BY <1>24 DEF EventsDone
<1>25. CASE Interrupted(r)
  BY <1>25 DEF Interrupted
<1>26. CASE ClientSend(r)
  BY <1>26 DEF ClientSend
<1>. QED
  BY <1>1, <1>2, <1>3, <1>4, <1>5, <1>6, <1>7, <1>8, <1>9, <1>10, <1>11, <1>12, <1>13,
     <1>14, <1>15, <1>16, <1>17, <1>18, <1>19, <1>20, <1>21, <1>22, <1>23, <1>24, <1>25, <1>26
  DEF Step, WakeStep, PollStep, HandleStep, SendStep, SleepStep, EventStep

(* Nobody but q itself resets the eventfd of q, and then q is awake. *)
LEMMA SignalKept ==
  ASSUME TypeOK, NEW r \in Reactors, NEW q \in Reactors, wakeup_fd[q] > 0,
         Step(r) \/ Interrupted(r) \/ ClientSend(r)
  PROVE  wakeup_fd'[q] > 0 \/ pc'[q] = "events"
<1>. USE DEF TypeOK, Goto, shared, local, client
<1>1. CASE Top(r)
  BY <1>1 DEF Top
<1>2. CASE Exchange(r)
  BY <1>2 DEF Exchange
<1>3. CASE WakeWrite(r)
  BY <1>3 DEF WakeWrite
<1>4. CASE WakeDone(r)
  BY <1>4 DEF WakeDone
<1>5. CASE PollRequest(r)
  BY <1>5 DEF PollRequest
<1>6. CASE PollResponse(r)
  BY <1>6 DEF PollResponse
<1>7. CASE PollNothing(r)
  BY <1>7 DEF PollNothing
<1>8. CASE HandleLocal(r)
  BY <1>8 DEF HandleLocal
<1>9. CASE HandleShutdown(r)
  BY <1>9 DEF HandleShutdown
<1>10. CASE Stop(r)
  BY <1>10 DEF Stop
<1>11. CASE StopDone(r)
  BY <1>11 DEF StopDone
<1>12. CASE HandleDone(r)
  BY <1>12 DEF HandleDone
<1>13. CASE \E peer \in Reactors : HandleDispatch(r, peer)
  BY <1>13 DEF HandleDispatch
<1>14. CASE Claim(r)
  BY <1>14 DEF Claim
<1>15. CASE Publish(r)
  BY <1>15 DEF Publish
<1>16. CASE Sleep(r)
  BY <1>16 DEF Sleep
<1>17. CASE Check(r)
  BY <1>17 DEF Check
<1>18. CASE Unsleep(r)
  BY <1>18 DEF Unsleep
<1>19. CASE Wait(r)
  BY <1>19 DEF Wait
<1>20. CASE Woken(r)
  BY <1>20 DEF Woken
<1>21. CASE EpollNow(r)
  BY <1>21 DEF EpollNow
<1>22. CASE WakeupEvent(r)
  BY <1>22 DEF WakeupEvent
<1>23. CASE ClientEvent(r)
  BY <1>23 DEF ClientEvent
<1>24. CASE EventsDone(r)
  BY <1>24 DEF EventsDone
<1>25. CASE Interrupted(r)
  BY <1>25 DEF Interrupted
<1>26. CASE ClientSend(r)
  BY <1>26 DEF ClientSend
<1>. QED
  BY <1>1, <1>2, <1>3, <1>4, <1>5, <1>6, <1>7, <1>8, <1>9, <1>10, <1>11, <1>12, <1>13,
     <1>14, <1>15, <1>16, <1>17, <1>18, <1>19, <1>20, <1>21, <1>22, <1>23, <1>24, <1>25, <1>26
  DEF Step, WakeStep, PollStep, HandleStep, SendStep, SleepStep, EventStep

(* A flag found cleared was so before, or is the doing of this step. *)
LEMMA ClearedNow ==
  ASSUME TypeOK, NEW r \in Reactors, NEW q \in Reactors,
         Step(r) \/ Interrupted(r) \/ ClientSend(r),
         pc'[q] \in {"check", "wait"}, ~sleeping'[q]
  PROVE  \/ Waking(r, q)'
         \/ pc[q] \in {"check", "wait"} /\ ~sleeping[q]
<1>. USE DEF TypeOK, Goto, shared, local, client
<1>1. CASE Top(r)
  BY <1>1 DEF Top
<1>2. CASE Exchange(r)
  <2>1. \/ pc'[r] = "wake_write" /\ todo'[r] = todo[r]
        \/ ~sleeping[NextBit(r)]
    BY <1>2 DEF Exchange
  <2>2. sleeping' = [sleeping EXCEPT ![NextBit(r)] = FALSE]
    BY <1>2 DEF Exchange
  <2>3. CASE q = NextBit(r) /\ sleeping[q]
    <3>1. pc'[r] = "wake_write" /\ todo'[r] = todo[r]
      BY <2>1, <2>3
    <3>2. q = Lowest(todo[r])
      BY <2>3 DEF NextBit
    <3>3. Waking(r, q)'
      BY <3>1, <3>2 DEF Waking, NextBit
    <3>. QED
      BY <3>3
  <2>4. CASE q # NextBit(r) \/ ~sleeping[q]
    <3>1. pc[q] \in {"check", "wait"}
      BY <1>2 DEF Exchange
    <3>2. ~sleeping[q]
      BY <2>2, <2>4
    <3>. QED
      BY <3>1, <3>2
  <2>. QED
    BY <2>3, <2>4
<1>3. CASE WakeWrite(r)
  BY <1>3 DEF WakeWrite
<1>4. CASE WakeDone(r)
  BY <1>4 DEF WakeDone
<1>5. CASE PollRequest(r)
  BY <1>5 DEF PollRequest
<1>6. CASE PollResponse(r)
  BY <1>6 DEF PollResponse
<1>7. CASE PollNothing(r)
  BY <1>7 DEF PollNothing
<1>8. CASE HandleLocal(r)
  BY <1>8 DEF HandleLocal
<1>9. CASE HandleShutdown(r)
  BY <1>9 DEF HandleShutdown
<1>10. CASE Stop(r)
  BY <1>10 DEF Stop
<1>11. CASE StopDone(r)
  BY <1>11 DEF StopDone
<1>12. CASE HandleDone(r)
  BY <1>12 DEF HandleDone
<1>13. CASE \E peer \in Reactors : HandleDispatch(r, peer)
  BY <1>13 DEF HandleDispatch
<1>14. CASE Claim(r)
  BY <1>14 DEF Claim
<1>15. CASE Publish(r)
  BY <1>15 DEF Publish
<1>16. CASE Sleep(r)
  BY <1>16 DEF Sleep
<1>17. CASE Check(r)
  BY <1>17 DEF Check
<1>18. CASE Unsleep(r)
  BY <1>18 DEF Unsleep
<1>19. CASE Wait(r)
  BY <1>19 DEF Wait
<1>20. CASE Woken(r)
  BY <1>20 DEF Woken
<1>21. CASE EpollNow(r)
  BY <1>21 DEF EpollNow
<1>22. CASE WakeupEvent(r)
  BY <1>22 DEF WakeupEvent
<1>23. CASE ClientEvent(r)
  BY <1>23 DEF ClientEvent
<1>24. CASE EventsDone(r)
  BY <1>24 DEF EventsDone
<1>25. CASE Interrupted(r)
  BY <1>25 DEF Interrupted
<1>26. CASE ClientSend(r)
  BY <1>26 DEF ClientSend
<1>. QED
  BY <1>1, <1>2, <1>3, <1>4, <1>5, <1>6, <1>7, <1>8, <1>9, <1>10, <1>11, <1>12, <1>13,
     <1>14, <1>15, <1>16, <1>17, <1>18, <1>19, <1>20, <1>21, <1>22, <1>23, <1>24, <1>25, <1>26
  DEF Step, WakeStep, PollStep, HandleStep, SendStep, SleepStep, EventStep

(* Every step keeps a wakeup behind each cleared flag. *)
LEMMA ClearedByWakerStep ==
  ASSUME TypeOK, ClearedByWaker, NEW r \in Reactors,
         Step(r) \/ Interrupted(r) \/ ClientSend(r)
  PROVE  ClearedByWaker'
<1>1. SUFFICES ASSUME NEW q \in Reactors, pc'[q] \in {"check", "wait"}, ~sleeping'[q]
               PROVE  wakeup_fd'[q] > 0 \/ \E s \in Reactors : Waking(s, q)'
  BY DEF ClearedByWaker
<1>2. CASE Waking(r, q)'
  BY <1>2
<1>3. CASE pc[q] \in {"check", "wait"} /\ ~sleeping[q]
  <2>1. CASE wakeup_fd[q] > 0
    BY <2>1, <1>1, SignalKept
  <2>2. CASE \E s \in Reactors : Waking(s, q)
    <3>1. PICK s \in Reactors : Waking(s, q)
      BY <2>2
    <3>2. CASE s = r
      BY <3>1, <3>2, WakingKept
    <3>3. CASE s # r
      BY <3>1, <3>3, Frame DEF Waking, NextBit
    <3>. QED
      BY <3>2, <3>3
  <2>. QED
    BY <2>1, <2>2, <1>3 DEF ClearedByWaker
<1>. QED
  BY <1>1, <1>2, <1>3, ClearedNow

(* A thread that has still to look at sleeping of q goes on to do so, or   *)
(* has cleared it.                                                         *)
LEMMA ObligedKept ==
  ASSUME TypeOK, NEW r \in Reactors, NEW q \in Reactors, Obliged(r, q),
         Step(r) \/ Interrupted(r) \/ ClientSend(r), sleeping'[q]
  PROVE  Obliged(r, q)'
<1>. USE DEF TypeOK, Obliged, NextBit, Goto, shared, local, client
<1>1. CASE Top(r)
  BY <1>1 DEF Top
<1>2. CASE Exchange(r)
  BY <1>2 DEF Exchange
<1>3. CASE WakeWrite(r)
  BY <1>3 DEF WakeWrite
<1>4. CASE WakeDone(r)
  BY <1>4 DEF WakeDone
<1>5. CASE PollRequest(r)
  BY <1>5 DEF PollRequest
<1>6. CASE PollResponse(r)
  BY <1>6 DEF PollResponse
<1>7. CASE PollNothing(r)
  BY <1>7 DEF PollNothing
<1>8. CASE HandleLocal(r)
  BY <1>8 DEF HandleLocal
<1>9. CASE HandleShutdown(r)
  BY <1>9 DEF HandleShutdown
<1>10. CASE Stop(r)
  BY <1>10 DEF Stop
<1>11. CASE StopDone(r)
  BY <1>11 DEF StopDone
<1>12. CASE HandleDone(r)
  BY <1>12 DEF HandleDone
<1>13. CASE \E peer \in Reactors : HandleDispatch(r, peer)
  BY <1>13 DEF HandleDispatch
<1>14. CASE Claim(r)
  BY <1>14 DEF Claim
<1>15. CASE Publish(r)
  BY <1>15 DEF Publish
<1>16. CASE Sleep(r)
  BY <1>16 DEF Sleep
<1>17. CASE Check(r)
  BY <1>17 DEF Check
<1>18. CASE Unsleep(r)
  BY <1>18 DEF Unsleep
<1>19. CASE Wait(r)
  BY <1>19 DEF Wait
<1>20. CASE Woken(r)
  BY <1>20 DEF Woken
<1>21. CASE EpollNow(r)
  BY <1>21 DEF EpollNow
<1>22. CASE WakeupEvent(r)
  BY <1>22 DEF WakeupEvent
<1>23. CASE ClientEvent(r)
  BY <1>23 DEF ClientEvent
<1>24. CASE EventsDone(r)
  BY <1>24 DEF EventsDone
<1>25. CASE Interrupted(r)
  BY <1>25 DEF Interrupted
<1>26. CASE ClientSend(r)
  BY <1>26 DEF ClientSend
<1>. QED
  BY <1>1, <1>2, <1>3, <1>4, <1>5, <1>6, <1>7, <1>8, <1>9, <1>10, <1>11, <1>12, <1>13,
     <1>14, <1>15, <1>16, <1>17, <1>18, <1>19, <1>20, <1>21, <1>22, <1>23, <1>24, <1>25, <1>26
  DEF Step, WakeStep, PollStep, HandleStep, SendStep, SleepStep, EventStep

(* A message found in the queue of a sleeping reactor was there before, or *)
(* this step has put it there.                                             *)
LEMMA LateNow ==
  ASSUME TypeOK, NEW r \in Reactors, NEW q \in Reactors,
         Step(r) \/ Interrupted(r) \/ ClientSend(r),
         pc'[q] = "wait", sleeping'[q], cb_queue'[q] # << >>
  PROVE  \/ Obliged(r, q)'
         \/ pc[q] = "wait" /\ sleeping[q] /\ cb_queue[q] # << >>
<1>. USE DEF TypeOK, Goto, shared, local, client
<1>1. CASE Top(r)
  BY <1>1 DEF Top
<1>2. CASE Exchange(r)
  BY <1>2 DEF Exchange
<1>3. CASE WakeWrite(r)
  BY <1>3 DEF WakeWrite
<1>4. CASE WakeDone(r)
  BY <1>4 DEF WakeDone
<1>5. CASE PollRequest(r)
  BY <1>5 DEF PollRequest, Take
<1>6. CASE PollResponse(r)
  BY <1>6 DEF PollResponse, Take
<1>7. CASE PollNothing(r)
  BY <1>7 DEF PollNothing
<1>8. CASE HandleLocal(r)
  BY <1>8 DEF HandleLocal
<1>9. CASE HandleShutdown(r)
  BY <1>9 DEF HandleShutdown
<1>10. CASE Stop(r)
  BY <1>10 DEF Stop
<1>11. CASE StopDone(r)
  BY <1>11 DEF StopDone
<1>12. CASE HandleDone(r)
  BY <1>12 DEF HandleDone
<1>13. CASE \E peer \in Reactors : HandleDispatch(r, peer)
  BY <1>13 DEF HandleDispatch
<1>14. CASE Claim(r)
  BY <1>14 DEF Claim, Obliged
<1>15. CASE Publish(r)
  BY <1>15, QueuePublish DEF Publish
<1>16. CASE Sleep(r)
  BY <1>16 DEF Sleep
<1>17. CASE Check(r)
  BY <1>17 DEF Check
<1>18. CASE Unsleep(r)
  BY <1>18 DEF Unsleep
<1>19. CASE Wait(r)
  BY <1>19 DEF Wait
<1>20. CASE Woken(r)
  BY <1>20 DEF Woken
<1>21. CASE EpollNow(r)
  BY <1>21 DEF EpollNow
<1>22. CASE WakeupEvent(r)
  BY <1>22 DEF WakeupEvent
<1>23. CASE ClientEvent(r)
  BY <1>23 DEF ClientEvent
<1>24. CASE EventsDone(r)
  BY <1>24 DEF EventsDone
<1>25. CASE Interrupted(r)
  BY <1>25 DEF Interrupted
<1>26. CASE ClientSend(r)
  BY <1>26 DEF ClientSend
<1>. QED
  BY <1>1, <1>2, <1>3, <1>4, <1>5, <1>6, <1>7, <1>8, <1>9, <1>10, <1>11, <1>12, <1>13,
     <1>14, <1>15, <1>16, <1>17, <1>18, <1>19, <1>20, <1>21, <1>22, <1>23, <1>24, <1>25, <1>26
  DEF Step, WakeStep, PollStep, HandleStep, SendStep, SleepStep, EventStep

(* Every step keeps an obliged sender behind each late message. *)
LEMMA LateSenderStep ==
  ASSUME TypeOK, LateSenderObliged, NEW r \in Reactors,
         Step(r) \/ Interrupted(r) \/ ClientSend(r)
  PROVE  LateSenderObliged'
<1>1. SUFFICES ASSUME NEW q \in Reactors,
                      pc'[q] = "wait", sleeping'[q], cb_queue'[q] # << >>
               PROVE  \E s \in Reactors : Obliged(s, q)'
  BY DEF LateSenderObliged
<1>2. CASE Obliged(r, q)'
  BY <1>2
<1>3. CASE pc[q] = "wait" /\ sleeping[q] /\ cb_queue[q] # << >>
  <2>1. PICK s \in Reactors : Obliged(s, q)
    BY <1>3 DEF LateSenderObliged
  <2>2. CASE s = r
    BY <2>1, <2>2, <1>1, ObligedKept
  <2>3. CASE s # r
    BY <2>1, <2>3, Frame DEF Obliged, NextBit
  <2>. QED
    BY <2>2, <2>3
<1>. QED
  BY <1>1, <1>2, <1>3, LateNow


----------------------------------------------------------------------------
(* The theorems *)

(* The invariant holds at the start ... *)
LEMMA InvInit == Init => IInv
<1>. SUFFICES ASSUME Init PROVE IInv
  OBVIOUS
<1>1. TypeOK
  BY TypeInit
<1>. QED
  BY <1>1 DEF Init, IInv, SleepsWithoutDebt, DebtIsCounted, ClearedByWaker, LateSenderObliged

(* ... and every step keeps it. *)
LEMMA InvStep == IInv /\ [Next]_vars => IInv'
<1>. SUFFICES ASSUME IInv, [Next]_vars PROVE IInv'
  OBVIOUS
<1>1. CASE Next
  <2>1. PICK r \in Reactors : Step(r) \/ Interrupted(r) \/ ClientSend(r)
    BY <1>1 DEF Next
  <2>2. pc[r] = "handle" => caller[r] # "none"
    BY DEF IInv, DebtIsCounted
  <2>3. TypeOK'
    BY <2>1, <2>2, TypeStep DEF IInv
  <2>4. SleepsWithoutDebt' /\ DebtIsCounted'
    BY <2>1, DebtStep DEF IInv
  <2>5. ClearedByWaker'
    BY <2>1, ClearedByWakerStep DEF IInv
  <2>6. LateSenderObliged'
    BY <2>1, LateSenderStep DEF IInv
  <2>. QED
    BY <2>3, <2>4, <2>5, <2>6 DEF IInv
<1>2. CASE UNCHANGED vars
  BY <1>2 DEF IInv, TypeOK, SleepsWithoutDebt, DebtIsCounted, ClearedByWaker,
    LateSenderObliged, Waking, Obliged, NextBit, vars, shared, local, client
<1>. QED
  BY <1>1, <1>2

(* IInv holds in every reachable state: it is inductive. *)
THEOREM InductiveInvariant == Spec => []IInv
<1>1. Init => IInv
  BY InvInit
<1>2. IInv /\ [Next]_vars => IInv'
  BY InvStep
<1>. QED
  BY <1>1, <1>2, PTL DEF Spec

(* Every variable of the event loops keeps its type. *)
THEOREM TypeCorrect == Spec => []TypeOK
<1>1. IInv => TypeOK
  BY DEF IInv
<1>. QED
  BY <1>1, InductiveInvariant, PTL

(* A reactor never reaches the store to sleeping of its own loop with a    *)
(* bit of soft_notify it has not acted on (reactor_epoll.c:150-159).       *)
THEOREM NoDebtAsleep == Spec => []SleepsWithoutDebt
<1>1. IInv => SleepsWithoutDebt
  BY DEF IInv
<1>. QED
  BY <1>1, InductiveInvariant, PTL

(* A reactor that blocks in epoll_wait over a message in its callback      *)
(* queue has its eventfd written, or is about to (reactor_epoll.c:158-164, *)
(* 233-252; commands.h:84-93, 115-123).                                    *)
THEOREM WakeupsNotLost == Spec => []NoLostWakeup
<1>1. IInv => NoLostWakeup
  <2>. SUFFICES ASSUME IInv, NEW r \in Reactors, pc[r] = "wait", cb_queue[r] # << >>
                PROVE  \/ wakeup_fd[r] > 0
                       \/ \E s \in Reactors \ {r} : Waking(s, r) \/ Obliged(s, r)
    BY DEF NoLostWakeup
  <2>1. ~Waking(r, r) /\ ~Obliged(r, r)
    BY DEF IInv, SleepsWithoutDebt, Waking, Obliged
  <2>2. CASE sleeping[r]
    BY <2>1, <2>2 DEF IInv, LateSenderObliged
  <2>3. CASE ~sleeping[r]
    BY <2>1, <2>3 DEF IInv, ClearedByWaker
  <2>. QED
    BY <2>2, <2>3
<1>. QED
  BY <1>1, InductiveInvariant, PTL

=============================================================================
