------------------------------ MODULE Reactor ------------------------------
(***************************************************************************)
(* The event loops of reactor_epoll.c and reactor.c: N threads, each with  *)
(* its own clients, that send each other requests and responses through    *)
(* their callback queues and wake each other up through an eventfd.        *)
(*                                                                         *)
(* A step is one access to a variable another thread uses (a queue,        *)
(* sleeping, running, an eventfd) with the thread-local work around it.    *)
(* A callback queue is the FIFO that Mpmcq implements; what a reader of    *)
(* the queue can see of an enqueue in progress, a claimed entry without    *)
(* its message, is kept.  Memory is sequentially consistent.               *)
(*                                                                         *)
(* The clients of a reactor are one connection, and a command is known by  *)
(* what its handler does to the loop: nothing ("local"), a request to      *)
(* another reactor ("dispatch") or SHUTDOWN ("shutdown").                  *)
(***************************************************************************)
EXTENDS Integers, Sequences

CONSTANTS N,            \* reactors (NUM_THREADS is 4)
          Capacity,     \* cells of a callback queue (8192 in reactor_init)
          Kinds,        \* the kinds of commands the clients use
          MaxCommands   \* bound: commands the clients of each reactor send

ASSUME ReactorAssumption == N \in Nat \ {0}
ASSUME CapacityAssumption == Capacity \in Nat \ {0}
ASSUME KindAssumption == Kinds \subseteq {"local", "dispatch", "shutdown"}
VARIABLES
  running,      \* reactor->running
  sleeping,     \* reactor->sleeping
  soft_notify,  \* reactor->soft_notify: the reactors to wake up
  wakeup_fd,    \* the counter of the eventfd
  cb_queue,     \* the claimed entries of the callback queue, oldest first
  pc,           \* where the thread is in its loop
  todo,         \* the bits its scan of the reactors has still to look at
  out,          \* the message it is sending
  cb_count,     \* whether reactor_poll_callbacks has taken a message
  events,       \* the events of epoll_wait it has still to handle
  caller,       \* who called on_data_available: "poll", "events" or "none"
  sent,         \* commands its clients have sent so far
  unread,       \* commands in the socket
  buffered,     \* commands in conn->recv_buf
  waiting       \* DISPATCH_WAITING is set in conn->flags

shared == <<running, sleeping, wakeup_fd, cb_queue>>
local == <<soft_notify, todo, out, cb_count, events, caller>>
client == <<sent, unread, buffered, waiting>>
vars == <<shared, local, client, pc>>

Reactors == 0 .. N - 1

ASSUME CommandAssumption == MaxCommands \in [Reactors -> Nat]

Entry == [from : Reactors, kind : {"req", "resp"}, ready : BOOLEAN]
Message == [to : Reactors, kind : {"req", "resp"}]

Goto(r, label) == pc' = [pc EXCEPT ![r] = label]

(* reactor_init *)
Init ==
  /\ running = [r \in Reactors |-> TRUE]
  /\ sleeping = [r \in Reactors |-> TRUE]
  /\ soft_notify = [r \in Reactors |-> {}]
  /\ wakeup_fd = [r \in Reactors |-> 0]
  /\ cb_queue = [r \in Reactors |-> << >>]
  /\ pc = [r \in Reactors |-> "top"]
  /\ todo = [r \in Reactors |-> {}]
  /\ out = [r \in Reactors |-> [to |-> r, kind |-> "resp"]]
  /\ cb_count = [r \in Reactors |-> FALSE]
  /\ events = [r \in Reactors |-> {}]
  /\ caller = [r \in Reactors |-> "none"]
  /\ sent = [r \in Reactors |-> 0]
  /\ unread = [r \in Reactors |-> 0]
  /\ buffered = [r \in Reactors |-> 0]
  /\ waiting = [r \in Reactors |-> FALSE]

----------------------------------------------------------------------------
(* The head of the loop, and reactor_wakeup_pending *)

Top(r) ==
  /\ pc[r] = "top"
  /\ \/ /\ running[r]
        /\ Goto(r, "wake")
        /\ todo' = [todo EXCEPT ![r] = soft_notify[r]]
     \/ /\ ~running[r]
        /\ Goto(r, "exit")
        /\ UNCHANGED todo
  /\ UNCHANGED <<shared, client, soft_notify, out, cb_count, events, caller>>

(* the bits are looked at from the lowest up *)
Lowest(bits) == CHOOSE i \in bits : \A j \in bits : i <= j

NextBit(r) == Lowest(todo[r])

(* atomic_exchange(&r->sleeping, false) *)
Exchange(r) ==
  /\ pc[r] = "wake" /\ todo[r] # {}
  /\ sleeping' = [sleeping EXCEPT ![NextBit(r)] = FALSE]
  /\ \/ /\ sleeping[NextBit(r)]
        /\ Goto(r, "wake_write")
        /\ UNCHANGED todo
     \/ /\ ~sleeping[NextBit(r)]
        /\ todo' = [todo EXCEPT ![r] = @ \ {NextBit(r)}]
        /\ UNCHANGED pc
  /\ UNCHANGED <<running, wakeup_fd, cb_queue, client,
                 soft_notify, out, cb_count, events, caller>>

WakeWrite(r) ==
  /\ pc[r] = "wake_write"
  /\ wakeup_fd' = [wakeup_fd EXCEPT ![NextBit(r)] = @ + 1]
  /\ todo' = [todo EXCEPT ![r] = @ \ {NextBit(r)}]
  /\ Goto(r, "wake")
  /\ UNCHANGED <<running, sleeping, cb_queue, client,
                 soft_notify, out, cb_count, events, caller>>

(* reset the mask; the call returns to the loop or to cmd_shutdown *)
WakeDone(r) ==
  /\ pc[r] = "wake" /\ todo[r] = {}
  /\ soft_notify' = [soft_notify EXCEPT ![r] = {}]
  /\ \/ /\ caller[r] = "none"
        /\ Goto(r, "poll")
        /\ cb_count' = [cb_count EXCEPT ![r] = FALSE]
     \/ /\ caller[r] # "none"
        /\ Goto(r, "handle")
        /\ UNCHANGED cb_count
  /\ UNCHANGED <<shared, client, todo, out, events, caller>>

----------------------------------------------------------------------------
(* reactor_poll_callbacks and on_cb *)

(* mpmcq_dequeue sees no message while the oldest entry is unpublished *)
HeadReady(r) == cb_queue[r] # << >> /\ Head(cb_queue[r]).ready

Take(r) == cb_queue' = [cb_queue EXCEPT ![r] = Tail(@)]

(* __cmd_<name>_req: the command runs here, its response goes back to src *)
PollRequest(r) ==
  /\ pc[r] = "poll" /\ HeadReady(r) /\ Head(cb_queue[r]).kind = "req"
  /\ Take(r)
  /\ cb_count' = [cb_count EXCEPT ![r] = TRUE]
  /\ out' = [out EXCEPT ![r] = [to |-> Head(cb_queue[r]).from, kind |-> "resp"]]
  /\ Goto(r, "send")
  /\ UNCHANGED <<running, sleeping, wakeup_fd, client,
                 soft_notify, todo, events, caller>>

(* a mistake the runs must notice: the rest of the pipeline is not looked at *)
PollResponseAlone(r) ==
  /\ pc[r] = "poll" /\ HeadReady(r) /\ Head(cb_queue[r]).kind = "resp"
  /\ Take(r)
  /\ cb_count' = [cb_count EXCEPT ![r] = TRUE]
  /\ waiting' = [waiting EXCEPT ![r] = FALSE]
  /\ UNCHANGED <<running, sleeping, wakeup_fd, sent, unread, buffered, pc,
                 soft_notify, todo, out, events, caller>>

(* __cmd_<name>_resp: the reply is written, the connection no longer waits *)
(* and on_cb goes on with the rest of its pipeline.                        *)
PollResponse(r) ==
  /\ pc[r] = "poll" /\ HeadReady(r) /\ Head(cb_queue[r]).kind = "resp"
  /\ Take(r)
  /\ cb_count' = [cb_count EXCEPT ![r] = TRUE]
  /\ waiting' = [waiting EXCEPT ![r] = FALSE]
  /\ caller' = [caller EXCEPT ![r] = "poll"]
  /\ Goto(r, "handle")
  /\ UNCHANGED <<running, sleeping, wakeup_fd, sent, unread, buffered,
                 soft_notify, todo, out, events>>

PollNothing(r) ==
  /\ pc[r] = "poll" /\ ~HeadReady(r)
  /\ \/ cb_count[r] /\ Goto(r, "epoll")
     \/ ~cb_count[r] /\ Goto(r, "sleep")
  /\ UNCHANGED <<shared, local, client>>

----------------------------------------------------------------------------
(* on_data_available, once for each command in the buffer *)

HandleLocal(r) ==
  /\ pc[r] = "handle" /\ buffered[r] > 0 /\ "local" \in Kinds
  /\ buffered' = [buffered EXCEPT ![r] = @ - 1]
  /\ UNCHANGED <<shared, local, pc, sent, unread, waiting>>

(* cmd_<name> for a key of another shard *)
HandleDispatch(r, q) ==
  /\ pc[r] = "handle" /\ buffered[r] > 0 /\ "dispatch" \in Kinds
  /\ q # r
  /\ buffered' = [buffered EXCEPT ![r] = @ - 1]
  /\ out' = [out EXCEPT ![r] = [to |-> q, kind |-> "req"]]
  /\ Goto(r, "send")
  /\ UNCHANGED <<shared, sent, unread, waiting,
                 soft_notify, todo, cb_count, events, caller>>

(* cmd_shutdown *)
HandleShutdown(r) ==
  /\ pc[r] = "handle" /\ buffered[r] > 0 /\ "shutdown" \in Kinds
  /\ buffered' = [buffered EXCEPT ![r] = @ - 1]
  /\ todo' = [todo EXCEPT ![r] = Reactors]
  /\ Goto(r, "stop")
  /\ UNCHANGED <<shared, sent, unread, waiting,
                 soft_notify, out, cb_count, events, caller>>

(* a mistake the runs must notice: the reactor that handles SHUTDOWN goes on *)
StopOthers(r) ==
  /\ pc[r] = "stop" /\ todo[r] # {}
  /\ running' = [running EXCEPT ![NextBit(r)] = (NextBit(r) = r)]
  /\ soft_notify' = [soft_notify EXCEPT ![r] = @ \cup {NextBit(r)}]
  /\ todo' = [todo EXCEPT ![r] = @ \ {NextBit(r)}]
  /\ UNCHANGED <<sleeping, wakeup_fd, cb_queue, client, pc,
                 out, cb_count, events, caller>>

Stop(r) ==
  /\ pc[r] = "stop" /\ todo[r] # {}
  /\ running' = [running EXCEPT ![NextBit(r)] = FALSE]
  /\ soft_notify' = [soft_notify EXCEPT ![r] = @ \cup {NextBit(r)}]
  /\ todo' = [todo EXCEPT ![r] = @ \ {NextBit(r)}]
  /\ UNCHANGED <<sleeping, wakeup_fd, cb_queue, client, pc,
                 out, cb_count, events, caller>>

(* a mistake the runs must notice: the wakeup at the end of cmd_shutdown forgotten *)
StopDoneQuietly(r) ==
  /\ pc[r] = "stop" /\ todo[r] = {}
  /\ Goto(r, "handle")
  /\ UNCHANGED <<shared, client, local>>

StopDone(r) ==
  /\ pc[r] = "stop" /\ todo[r] = {}
  /\ todo' = [todo EXCEPT ![r] = soft_notify[r]]
  /\ Goto(r, "wake")
  /\ UNCHANGED <<shared, client, soft_notify, out, cb_count, events, caller>>

HandleDone(r) ==
  /\ pc[r] = "handle" /\ buffered[r] = 0
  /\ Goto(r, caller[r])
  /\ caller' = [caller EXCEPT ![r] = "none"]
  /\ UNCHANGED <<shared, client, soft_notify, todo, out, cb_count, events>>

----------------------------------------------------------------------------
(* reactor_send_message.  On a full queue mpmcq_enqueue spins (see Mpmcq). *)

Claim(r) ==
  /\ pc[r] = "send"
  /\ Len(cb_queue[out[r].to]) < Capacity
  /\ cb_queue' = [cb_queue EXCEPT ![out[r].to] =
       Append(@, [from |-> r, kind |-> out[r].kind, ready |-> FALSE])]
  /\ Goto(r, "publish")
  /\ UNCHANGED <<running, sleeping, wakeup_fd, local, client>>

(* the entry r has claimed and not yet published *)
Published(s, r) ==
  [i \in DOMAIN s |-> [s[i] EXCEPT !.ready = @ \/ s[i].from = r]]

(* a mistake the runs must notice: soft_notify is not set for a response *)
PublishUnnoted(r) ==
  /\ pc[r] = "publish"
  /\ cb_queue' = [cb_queue EXCEPT ![out[r].to] = Published(@, r)]
  /\ \/ /\ out[r].kind = "req"
        /\ Goto(r, "handle")
        /\ waiting' = [waiting EXCEPT ![r] = TRUE]
        /\ soft_notify' = [soft_notify EXCEPT ![r] = @ \cup {out[r].to}]
     \/ /\ out[r].kind = "resp"
        /\ Goto(r, "poll")
        /\ UNCHANGED <<waiting, soft_notify>>
  /\ UNCHANGED <<running, sleeping, wakeup_fd, sent, unread, buffered,
                 todo, out, cb_count, events, caller>>

(* the sender then sets its own flags: DISPATCH_WAITING and soft_notify *)
Publish(r) ==
  /\ pc[r] = "publish"
  /\ cb_queue' = [cb_queue EXCEPT ![out[r].to] = Published(@, r)]
  /\ soft_notify' = [soft_notify EXCEPT ![r] = @ \cup {out[r].to}]
  /\ \/ /\ out[r].kind = "req"
        /\ Goto(r, "handle")
        /\ waiting' = [waiting EXCEPT ![r] = TRUE]
     \/ /\ out[r].kind = "resp"
        /\ Goto(r, "poll")
        /\ UNCHANGED waiting
  /\ UNCHANGED <<running, sleeping, wakeup_fd, sent, unread, buffered,
                 todo, out, cb_count, events, caller>>

----------------------------------------------------------------------------
(* Going to sleep *)

Sleep(r) ==
  /\ pc[r] = "sleep"
  /\ sleeping' = [sleeping EXCEPT ![r] = TRUE]
  /\ Goto(r, "check")
  /\ UNCHANGED <<running, wakeup_fd, cb_queue, local, client>>

(* a mistake the runs must notice: no look at the queue after sleeping is set *)
CheckSkipped(r) ==
  /\ pc[r] = "check"
  /\ Goto(r, "wait")
  /\ UNCHANGED <<shared, local, client>>

(* reactor_has_pending_messages counts claimed entries, published or not *)
Check(r) ==
  /\ pc[r] = "check"
  /\ \/ cb_queue[r] # << >> /\ Goto(r, "unsleep")
     \/ cb_queue[r] = << >> /\ Goto(r, "wait")
  /\ UNCHANGED <<shared, local, client>>

Unsleep(r) ==
  /\ pc[r] = "unsleep"
  /\ sleeping' = [sleeping EXCEPT ![r] = FALSE]
  /\ Goto(r, "top")
  /\ UNCHANGED <<running, wakeup_fd, cb_queue, local, client>>

(* what epoll_wait reports: level-triggered, everything that is readable *)
Readable(r) ==
  {e \in {"wakeup", "client"} : \/ e = "wakeup" /\ wakeup_fd[r] > 0
                                \/ e = "client" /\ unread[r] > 0}

(* epoll_wait with timeout -1 *)
Wait(r) ==
  /\ pc[r] = "wait" /\ Readable(r) # {}
  /\ events' = [events EXCEPT ![r] = Readable(r)]
  /\ Goto(r, "woken")
  /\ UNCHANGED <<shared, client, soft_notify, todo, out, cb_count, caller>>

(* A signal ends a blocking epoll_wait, with EINTR: no event is handled. *)
Interrupted(r) ==
  /\ pc[r] = "wait" /\ Readable(r) = {}
  /\ events' = [events EXCEPT ![r] = {}]
  /\ Goto(r, "woken")
  /\ UNCHANGED <<shared, client, soft_notify, todo, out, cb_count, caller>>

Woken(r) ==
  /\ pc[r] = "woken"
  /\ sleeping' = [sleeping EXCEPT ![r] = FALSE]
  /\ Goto(r, "events")
  /\ UNCHANGED <<running, wakeup_fd, cb_queue, local, client>>

(* epoll_wait with timeout 0, after callbacks *)
EpollNow(r) ==
  /\ pc[r] = "epoll"
  /\ events' = [events EXCEPT ![r] = Readable(r)]
  /\ Goto(r, "events")
  /\ UNCHANGED <<shared, client, soft_notify, todo, out, cb_count, caller>>

----------------------------------------------------------------------------
(* The events *)

(* read(wakeup_fd) resets the counter; on a counter of 0 it would block *)
WakeupEvent(r) ==
  /\ pc[r] = "events" /\ "wakeup" \in events[r]
  /\ wakeup_fd[r] > 0
  /\ wakeup_fd' = [wakeup_fd EXCEPT ![r] = 0]
  /\ events' = [events EXCEPT ![r] = @ \ {"wakeup"}]
  /\ UNCHANGED <<running, sleeping, cb_queue, client, pc,
                 soft_notify, todo, out, cb_count, caller>>

(* reactor_epoll_on_epollin: read, and handle unless a response is awaited *)
ClientEvent(r) ==
  /\ pc[r] = "events" /\ "client" \in events[r]
  /\ buffered' = [buffered EXCEPT ![r] = @ + unread[r]]
  /\ unread' = [unread EXCEPT ![r] = 0]
  /\ events' = [events EXCEPT ![r] = @ \ {"client"}]
  /\ \/ /\ waiting[r]
        /\ UNCHANGED <<pc, caller>>
     \/ /\ ~waiting[r]
        /\ Goto(r, "handle")
        /\ caller' = [caller EXCEPT ![r] = "events"]
  /\ UNCHANGED <<shared, sent, waiting, soft_notify, todo, out, cb_count>>

EventsDone(r) ==
  /\ pc[r] = "events" /\ events[r] = {}
  /\ Goto(r, "top")
  /\ UNCHANGED <<shared, local, client>>

----------------------------------------------------------------------------
ClientSend(r) ==
  /\ sent[r] < MaxCommands[r]
  /\ sent' = [sent EXCEPT ![r] = @ + 1]
  /\ unread' = [unread EXCEPT ![r] = @ + 1]
  /\ UNCHANGED <<shared, local, pc, buffered, waiting>>

WakeStep(r) == Top(r) \/ Exchange(r) \/ WakeWrite(r) \/ WakeDone(r)

PollStep(r) == PollRequest(r) \/ PollResponse(r) \/ PollNothing(r)

HandleStep(r) ==
  \/ HandleLocal(r) \/ HandleShutdown(r) \/ Stop(r) \/ StopDone(r)
  \/ HandleDone(r)
  \/ \E q \in Reactors : HandleDispatch(r, q)

SendStep(r) == Claim(r) \/ Publish(r)

SleepStep(r) ==
  Sleep(r) \/ Check(r) \/ Unsleep(r) \/ Wait(r) \/ Woken(r) \/ EpollNow(r)

EventStep(r) == WakeupEvent(r) \/ ClientEvent(r) \/ EventsDone(r)

(* a step of the thread of r *)
Step(r) ==
  \/ WakeStep(r) \/ PollStep(r) \/ HandleStep(r) \/ SendStep(r)
  \/ SleepStep(r) \/ EventStep(r)

Next == \E r \in Reactors : Step(r) \/ Interrupted(r) \/ ClientSend(r)

Spec == Init /\ [][Next]_vars

(* Threads are scheduled; nothing is assumed of clients and signals. *)
FairSpec == Spec /\ \A r \in Reactors : WF_vars(Step(r))

----------------------------------------------------------------------------
(* Properties *)

Labels == {"top", "wake", "wake_write", "poll", "handle", "stop", "send",
           "publish", "epoll", "sleep", "check", "unsleep", "wait", "woken",
           "events", "exit"}

(* Every variable has its type. *)
TypeOK ==
  /\ running \in [Reactors -> BOOLEAN]
  /\ sleeping \in [Reactors -> BOOLEAN]
  /\ soft_notify \in [Reactors -> SUBSET Reactors]
  /\ wakeup_fd \in [Reactors -> Nat]
  /\ cb_queue \in [Reactors -> Seq(Entry)]
  /\ pc \in [Reactors -> Labels]
  /\ todo \in [Reactors -> SUBSET Reactors]
  /\ out \in [Reactors -> Message]
  /\ cb_count \in [Reactors -> BOOLEAN]
  /\ events \in [Reactors -> SUBSET {"wakeup", "client"}]
  /\ caller \in [Reactors -> {"none", "poll", "events"}]
  /\ sent \in [Reactors -> Nat]
  /\ unread \in [Reactors -> Nat]
  /\ buffered \in [Reactors -> Nat]
  /\ waiting \in [Reactors -> BOOLEAN]

(* s has seen r asleep and is about to write its eventfd *)
Waking(s, r) == pc[s] = "wake_write" /\ NextBit(s) = r

(* s has put a message in the queue of r and has still to look at sleeping *)
(* of r (unless it leaves its loop first, because of a SHUTDOWN)           *)
Obliged(s, r) ==
  \/ pc[s] = "publish" /\ out[s].to = r
  \/ /\ r \in soft_notify[s]
     /\ pc[s] \in {"wake", "wake_write"} => r \in todo[s]
     /\ pc[s] = "wake_write" => r # NextBit(s)

(* A reactor blocked in epoll_wait with something in its callback queue    *)
(* has been woken up, or another reactor is bound to wake it up: the flag  *)
(* sleeping, set before the last look at the queue, loses no message.      *)
NoLostWakeup ==
  \A r \in Reactors :
    pc[r] = "wait" /\ cb_queue[r] # << >> =>
      \/ wakeup_fd[r] > 0
      \/ \E s \in Reactors \ {r} : Waking(s, r) \/ Obliged(s, r)

(* A reactor never goes to sleep owing a wakeup: its soft_notify bits,     *)
(* which it sets while it handles callbacks and events, are acted on       *)
(* before it looks for something to do and finds nothing.                  *)
SleepsWithoutDebt ==
  \A r \in Reactors :
    pc[r] \in {"sleep", "check", "unsleep", "wait", "woken"} =>
      soft_notify[r] = {}

(* Between the store that announces the sleep and the end of epoll_wait,   *)
(* sleeping is cleared only by a thread that then writes the eventfd.      *)
ClearedByWaker ==
  \A r \in Reactors :
    pc[r] \in {"check", "wait"} /\ ~sleeping[r] =>
      wakeup_fd[r] > 0 \/ \E s \in Reactors : Waking(s, r)

(* A message that came after the look at the queue has a sender that has   *)
(* not yet looked at sleeping.                                             *)
LateSenderObliged ==
  \A r \in Reactors :
    pc[r] = "wait" /\ sleeping[r] /\ cb_queue[r] # << >> =>
      \E s \in Reactors : Obliged(s, r)

(* Whoever sets a bit of soft_notify is on its way to the head of the loop *)
(* without passing through a sleep.                                        *)
DebtIsCounted ==
  \A r \in Reactors :
    /\ pc[r] = "poll" /\ ~cb_count[r] => soft_notify[r] = {}
    /\ caller[r] = "poll" => cb_count[r]
    /\ pc[r] \in {"send", "publish"} /\ out[r].kind = "resp" => cb_count[r]
    /\ pc[r] \in {"send", "publish"} /\ out[r].kind = "req" => caller[r] # "none"
    /\ pc[r] \in {"handle", "stop"} => caller[r] # "none"

(* The inductive invariant behind the two properties above. *)
IInv ==
  /\ TypeOK
  /\ SleepsWithoutDebt
  /\ DebtIsCounted
  /\ ClearedByWaker
  /\ LateSenderObliged

(* Every command that has reached a reactor is handled, and every          *)
(* dispatched one is answered, although the reactors sleep in between,     *)
(* until a client sends SHUTDOWN.                                          *)
CommandsAnswered ==
  \A r \in Reactors :
    unread[r] + buffered[r] > 0 \/ waiting[r] ~>
      \/ unread[r] + buffered[r] = 0 /\ ~waiting[r]
      \/ \E q \in Reactors : ~running[q]

(* s has cleared running of r in cmd_shutdown and has not yet come to r in *)
(* the wakeup that follows                                                 *)
Stopping(s, r) ==
  \/ pc[s] = "stop" /\ r \notin todo[s]
  \/ pc[s] \in {"wake", "wake_write"} /\ caller[s] # "none" /\ r \in todo[s]

(* A full queue does not stop its senders: reactor_send_message returns,   *)
(* with an error for the client (commands.h:127) if it must.               *)
SendReturns == \A r \in Reactors : pc[r] = "send" ~> pc[r] # "send"
=============================================================================
