------------------------------ MODULE Teardown ------------------------------
(***************************************************************************)
(* The end of the server.  A thread whose loop has ended frees its         *)
(* connections (reactor_run); main in server.c joins the threads, from the *)
(* first to the last, and frees the callback queue and the maps of a shard *)
(* as soon as its thread is joined.  Others may still be in their loops    *)
(* then, and have messages about the connections, send to the queue or     *)
(* clear the maps.  What the program does from there on is undefined, and  *)
(* nothing is said of it.                                                  *)
(***************************************************************************)
EXTENDS Reactor

VARIABLES
  closed,  \* the thread has left its loop and freed its connections
  joined,  \* how many threads main has joined, and the shards of freed
  process  \* "runs" or "undefined"

main_vars == <<closed, joined, process>>
teardown_vars == <<vars, main_vars>>

TeardownInit ==
  /\ Init
  /\ closed = [r \in Reactors |-> FALSE]
  /\ joined = 0
  /\ process = "runs"

(* the end of reactor_run *)
CloseAll(r) ==
  /\ pc[r] = "exit" /\ ~closed[r]
  /\ closed' = [closed EXCEPT ![r] = TRUE]
  /\ UNCHANGED <<vars, joined, process>>

(* a mistake the runs must notice: a shard freed before its thread is joined *)
JoinAndFreeEarly ==
  /\ joined < N
  /\ \E r \in Reactors : closed[r]
  /\ joined' = joined + 1
  /\ UNCHANGED <<vars, closed, process>>

(* pthread_join and free_context *)
JoinAndFree ==
  /\ joined < N /\ closed[joined]
  /\ joined' = joined + 1
  /\ UNCHANGED <<vars, closed, process>>

Freed(r) == r < joined

----------------------------------------------------------------------------
(* s is in mpmcq_enqueue, on a queue that is freed *)
SendsToFreed(s) == pc[s] \in {"send", "publish"} /\ Freed(out[s].to)

(* s is about to execute a request, or to look at c->shard_id behind one   *)
(* (on_cb), and the connection is freed                                    *)
ReadsFreed(s) ==
  \/ /\ pc[s] = "poll" /\ HeadReady(s) /\ Head(cb_queue[s]).kind = "req"
     /\ closed[Head(cb_queue[s]).from]
  \/ pc[s] \in {"send", "publish"} /\ out[s].kind = "resp" /\ closed[out[s].to]

(* s handles a command which, if it is FLUSHALL, comes to freed maps *)
MayClearFreed(s) ==
  /\ pc[s] = "handle" /\ buffered[s] > 0 /\ "local" \in Kinds
  /\ \E r \in Reactors : Freed(r)

UseFreed(s) ==
  /\ SendsToFreed(s) \/ ReadsFreed(s) \/ MayClearFreed(s)
  /\ process' = "undefined"
  /\ UNCHANGED <<vars, closed, joined>>

LoopStep(r) ==
  /\ ~SendsToFreed(r) /\ ~ReadsFreed(r)
  /\ Step(r)
  /\ UNCHANGED main_vars

ThreadStep(r) ==
  process = "runs" /\ (LoopStep(r) \/ CloseAll(r) \/ UseFreed(r))

MainStep == process = "runs" /\ JoinAndFree

TeardownNext ==
  \/ \E r \in Reactors : ThreadStep(r)
  \/ MainStep
  \/ /\ process = "runs" /\ UNCHANGED main_vars
     /\ \E r \in Reactors : Interrupted(r) \/ ClientSend(r)

TeardownSpec ==
  /\ TeardownInit /\ [][TeardownNext]_teardown_vars
  /\ \A r \in Reactors : WF_teardown_vars(ThreadStep(r))
  /\ WF_teardown_vars(MainStep)

----------------------------------------------------------------------------
(* Properties *)

(* what a SHUTDOWN under way has still to stop *)
BeingStopped == UNION {todo[t] : t \in {u \in Reactors : pc[u] = "stop"}}

(* When one reactor has been told to stop, every other one has been told   *)
(* or is about to be, however many SHUTDOWNs are handled at a time.        *)
StopsForAll ==
  (\E r \in Reactors : ~running[r]) =>
    \A s \in Reactors : ~running[s] \/ s \in BeingStopped

(* What is freed while others still run.  The connections of a reactor and *)
(* its shard are freed when its thread is out of its loop.  A thread that  *)
(* may begin another iteration, and use them in it, comes after this one   *)
(* and after every bit that a SHUTDOWN under way has looked at, and there  *)
(* is such a SHUTDOWN: once none is under way all are in their last        *)
(* iteration.                                                              *)
FreedWhileStopping ==
  \A r \in Reactors : closed[r] \/ Freed(r) =>
    /\ pc[r] = "exit"
    /\ \A s \in Reactors : running[s] =>
         /\ r < s /\ s \in BeingStopped
         /\ \A t \in Reactors : pc[t] = "stop" => s \in todo[t]

(* SHUTDOWN stops every reactor that is blocked in epoll_wait when the     *)
(* SHUTDOWN gets to it.  (A reactor on its way to epoll_wait, past its own *)
(* look at running, goes to sleep all the same.)                           *)
ShutdownStopsSleepers ==
  \A r \in Reactors :
    pc[r] = "wait" /\ (\E s \in Reactors : Stopping(s, r))
      ~> pc[r] = "exit" \/ process = "undefined"

(* Once a SHUTDOWN has begun, main joins every thread and frees all shards *)
(* and the program ends, unless a thread has used what is freed, or has    *)
(* gone to sleep past its look at running, and no client or signal wakes   *)
(* it up.                                                                  *)
ServerEnds ==
  (\E r \in Reactors : ~running[r]) ~>
    \/ joined = N
    \/ process = "undefined"
    \/ \E r \in Reactors : [](~running[r] /\ pc[r] = "wait")
=============================================================================
