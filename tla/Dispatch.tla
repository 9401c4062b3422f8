------------------------------ MODULE Dispatch ------------------------------
(***************************************************************************)
(* What becomes of the commands of a connection: server.c and commands.c   *)
(* over the event loops.  Every reactor owns a shard of each database and  *)
(* the connections it has accepted.  It handles the pipeline of a          *)
(* connection one command at a time; a command on a key of another shard   *)
(* goes there as a request, is executed there, and its reply comes back in *)
(* a response.                                                             *)
(*                                                                         *)
(* A step is one call of on_data_available, one callback, the clearing of  *)
(* one map by FLUSHALL, or a phase of the loop.  Going to sleep and waking *)
(* up is the matter of Reactor; the callback queues are FIFOs, see Mpmcq,  *)
(* and are not full here.  A map is touched in one step: FLUSHALL, which   *)
(* clears the maps of other threads without a lock, is taken not to        *)
(* overlap with a command on the same map.                                 *)
(*                                                                         *)
(* A connection is closed and freed by QUIT or when its client goes away,  *)
(* whatever the callback queues still hold about it.  What the program     *)
(* does once a thread has used a freed connection is undefined, and        *)
(* nothing is said of it.                                                  *)
(***************************************************************************)
EXTENDS Commands, Sequences, FiniteSets

CONSTANTS N,           \* reactors
          Conns,       \* connections
          Owner,       \* conn->shard_id, the reactor that accepted it
          Keys,
          Home,        \* hash % shard_set->size
          Dbs,         \* 0 .. num_dbs - 1
          DefaultDb,   \* the database of a new connection
          Commandset,  \* the commands the clients use
          MaxAsked,    \* bound: commands of each client
          Leavers,     \* clients that may go away
          Window,      \* commands a client sends ahead of their replies
          NoConn, NoCommand, NoReply

Reactors == 0 .. N - 1

Maps == Reactors \X Dbs  \* the databases of each shard

ASSUME OwnerAssumption == Owner \in [Conns -> Reactors]
ASSUME HomeAssumption == Home \in [Keys -> Reactors]
ASSUME DbAssumption == DefaultDb \in Dbs /\ Dbs \subseteq Nat
ASSUME BoundAssumption ==
  N \in Nat /\ MaxAsked \in [Conns -> Nat] /\ Window \in Nat
ASSUME LeaverAssumption == Leavers \subseteq Conns
ASSUME CommandAssumption ==
  \A cmd \in Commandset :
    /\ cmd.op \in Ops
    /\ cmd.op \in KeyedOps => cmd.key \in Keys
    /\ cmd.op = "set" => cmd.arg \in Int \cup {Text}
    /\ cmd.op = "incr" => cmd.arg \in Int
ASSUME NothingAssumption ==
  NoConn \notin Conns /\ NoCommand \notin Commandset /\ NoReply \notin ReplyValues

VARIABLES
  asked,     \* the commands each client has written to its socket
  read,      \* how many of them are, or have been, in conn->recv_buf
  handled,   \* how many of them on_data_available has consumed
  send,      \* the replies in conn->send_buf
  seen,      \* the replies written to the socket
  waiting,   \* DISPATCH_WAITING in conn->flags
  ended,     \* END in conn->flags
  open,      \* the connection is registered with its reactor, and not freed
  db,        \* conn->db
  store,     \* shard->dbs
  cb_queue,  \* the callback queue of each reactor
  phase,     \* where each thread is in its loop: "flush", "poll" or "events"
  at,        \* the connection whose pipeline it handles
  events,    \* the connections it has still to handle events of
  to_clear,  \* the maps its FLUSHALL has still to clear
  looking,   \* the connection on_cb has still to look at after a request
  gone,      \* the client has closed its socket
  hangup,    \* the event about the connection has EPOLLRDHUP or EPOLLHUP
  process    \* "runs", "undefined" or "killed"

conn_vars == <<read, handled, send, waiting, ended, open, db>>
loop_vars == <<phase, at, events, to_clear, looking>>
fate_vars == <<gone, hangup, process>>
vars == <<asked, seen, conn_vars, store, cb_queue, loop_vars, fate_vars>>

(* on_accept, init_shards and reactor_init *)
Init ==
  /\ asked = [c \in Conns |-> << >>]
  /\ read = [c \in Conns |-> 0]
  /\ handled = [c \in Conns |-> 0]
  /\ send = [c \in Conns |-> << >>]
  /\ seen = [c \in Conns |-> << >>]
  /\ waiting = [c \in Conns |-> FALSE]
  /\ ended = [c \in Conns |-> FALSE]
  /\ open = [c \in Conns |-> TRUE]
  /\ db = [c \in Conns |-> DefaultDb]
  /\ store = [r \in Reactors |-> [d \in Dbs |-> [k \in Keys |-> NoValue]]]
  /\ cb_queue = [r \in Reactors |-> << >>]
  /\ phase = [r \in Reactors |-> "flush"]
  /\ at = [r \in Reactors |-> NoConn]
  /\ events = [r \in Reactors |-> {}]
  /\ to_clear = [r \in Reactors |-> Maps]
  /\ looking = [r \in Reactors |-> NoConn]
  /\ gone = [c \in Conns |-> FALSE]
  /\ hangup = [c \in Conns |-> FALSE]
  /\ process = "runs"

----------------------------------------------------------------------------
(* A client writes a command while at most Window replies are missing *)
Ask(c, cmd) ==
  /\ process = "runs" /\ open[c] /\ ~gone[c]
  /\ Len(asked[c]) < MaxAsked[c]
  /\ Len(asked[c]) - Len(seen[c]) < Window
  /\ asked' = [asked EXCEPT ![c] = Append(@, cmd)]
  /\ UNCHANGED <<seen, conn_vars, store, cb_queue, loop_vars, fate_vars>>

(* The client goes away, and reads no more replies *)
Leave(c) ==
  /\ process = "runs" /\ c \in Leavers /\ open[c] /\ ~gone[c]
  /\ gone' = [gone EXCEPT ![c] = TRUE]
  /\ UNCHANGED <<asked, seen, conn_vars, store, cb_queue, loop_vars, hangup, process>>

----------------------------------------------------------------------------
(* The pipeline: on_data_available for the next command of c *)

NextId(c) == handled[c] + 1
Current(c) == asked[c][NextId(c)]

(* on_data_available is called for c, in the loop of its reactor r *)
Called(r, c) == process = "runs" /\ at[r] = c /\ handled[c] < read[c]

(* a mistake the runs must notice: a QUIT is taken from the buffer as well *)
ProceedConsume(r, c, end) ==
  LET rest == read[c] - handled[c] - 1
      last == end \/ rest = 0
  IN /\ handled' = [handled EXCEPT ![c] = @ + 1]
     /\ at' = [at EXCEPT ![r] = IF last THEN NoConn ELSE c]
     /\ ended' = [ended EXCEPT ![c] = end]
     /\ open' = [open EXCEPT ![c] =
          @ /\ ~(last /\ phase[r] = "events" /\ (end \/ hangup[c]))]
     /\ UNCHANGED <<asked, seen, read, phase, events, looking, fate_vars>>

(* The end of on_data_available.  With END set the command is not taken    *)
(* from the buffer and the pipeline stops; otherwise the loop goes on as   *)
(* long as there are bytes.  In the branch of an event a connection that   *)
(* has ended, or whose client has gone, is then closed.                    *)
Proceed(r, c, end) ==
  LET rest == read[c] - handled[c] - 1
      last == end \/ rest = 0
  IN /\ handled' = [handled EXCEPT ![c] = IF end THEN @ ELSE @ + 1]
     /\ at' = [at EXCEPT ![r] = IF last THEN NoConn ELSE c]
     /\ ended' = [ended EXCEPT ![c] = end]
     /\ open' = [open EXCEPT ![c] =
          @ /\ ~(last /\ phase[r] = "events" /\ (end \/ hangup[c]))]
     /\ UNCHANGED <<asked, seen, read, phase, events, looking, fate_vars>>

Reply(c, value) ==
  send' = [send EXCEPT ![c] = Append(@, [id |-> NextId(c), value |-> value])]

(* PING, ECHO and error replies *)
HandlePing(r, c) ==
  /\ Called(r, c) /\ Current(c).op = "ping"
  /\ Reply(c, Pong)
  /\ Proceed(r, c, ended[c])
  /\ UNCHANGED <<waiting, db, store, cb_queue, to_clear>>

(* cmd_quit; a parse error ends the same way *)
HandleQuit(r, c) ==
  /\ Called(r, c) /\ Current(c).op = "quit"
  /\ Reply(c, Ok)
  /\ Proceed(r, c, TRUE)
  /\ UNCHANGED <<waiting, db, store, cb_queue, to_clear>>

(* cmd_select: the test of errno also sees an error of an earlier call, so *)
(* a valid index may be refused.                                           *)
HandleSelect(r, c) ==
  /\ Called(r, c) /\ Current(c).op = "select"
  /\ \/ /\ Current(c).arg \in Dbs
        /\ db' = [db EXCEPT ![c] = Current(c).arg]
        /\ Reply(c, Ok)
     \/ /\ Reply(c, Err)
        /\ UNCHANGED db
  /\ Proceed(r, c, ended[c])
  /\ UNCHANGED <<waiting, store, cb_queue, to_clear>>

(* cmd_exec on the shard of r: the answer, and the entry it leaves *)
Executed(r, d, cmd) == Answer(cmd, store[r][d][cmd.key], r)

Update(r, d, cmd) ==
  store' = [store EXCEPT ![r][d][cmd.key] = NewEntry(cmd, @)]

(* cmd_<name> for a key of this shard *)
HandleInline(r, c) ==
  /\ Called(r, c) /\ Current(c).op \in KeyedOps
  /\ Home[Current(c).key] = r
  /\ Update(r, db[c], Current(c))
  /\ Reply(c, Executed(r, db[c], Current(c)))
  /\ Proceed(r, c, ended[c])
  /\ UNCHANGED <<waiting, db, cb_queue, to_clear>>

(* a mistake the runs must notice: the request overtakes those before it *)
HandleDispatchLast(r, c) ==
  /\ Called(r, c) /\ Current(c).op \in KeyedOps
  /\ Home[Current(c).key] # r
  /\ cb_queue' = [cb_queue EXCEPT ![Home[Current(c).key]] =
       <<[kind |-> "req", conn |-> c, id |-> NextId(c)]>> \o @]
  /\ waiting' = [waiting EXCEPT ![c] = TRUE]
  /\ Proceed(r, c, ended[c])
  /\ UNCHANGED <<send, db, store, to_clear>>

(* cmd_<name> for a key of another shard *)
HandleDispatch(r, c) ==
  /\ Called(r, c) /\ Current(c).op \in KeyedOps
  /\ Home[Current(c).key] # r
  /\ cb_queue' = [cb_queue EXCEPT ![Home[Current(c).key]] =
       Append(@, [kind |-> "req", conn |-> c, id |-> NextId(c)])]
  /\ waiting' = [waiting EXCEPT ![c] = TRUE]
  /\ Proceed(r, c, ended[c])
  /\ UNCHANGED <<send, db, store, to_clear>>

(* cmd_flushall clears the maps one by one, shard after shard ... *)
Before(m, n) == m[1] < n[1] \/ (m[1] = n[1] /\ m[2] < n[2])

FlushMap(r, c) ==
  /\ Called(r, c) /\ Current(c).op = "flushall"
  /\ \E m \in to_clear[r] :
       /\ \A n \in to_clear[r] : ~Before(n, m)
       /\ store' = [store EXCEPT ![m[1]][m[2]] = [k \in Keys |-> NoValue]]
       /\ to_clear' = [to_clear EXCEPT ![r] = @ \ {m}]
  /\ UNCHANGED <<asked, seen, conn_vars, cb_queue, phase, at, events, looking, fate_vars>>

(* ... and answers. *)
FlushDone(r, c) ==
  /\ Called(r, c) /\ Current(c).op = "flushall"
  /\ to_clear[r] = {}
  /\ to_clear' = [to_clear EXCEPT ![r] = Maps]
  /\ Reply(c, Ok)
  /\ Proceed(r, c, ended[c])
  /\ UNCHANGED <<waiting, db, store, cb_queue>>

HandleStep(r, c) ==
  \/ HandlePing(r, c) \/ HandleQuit(r, c) \/ HandleSelect(r, c)
  \/ HandleInline(r, c) \/ HandleDispatch(r, c)
  \/ FlushMap(r, c) \/ FlushDone(r, c)

----------------------------------------------------------------------------
(* The loop *)

Free(r, label) ==
  process = "runs" /\ phase[r] = label /\ at[r] = NoConn /\ looking[r] = NoConn

Mine(r) == {c \in Conns : Owner[c] = r /\ open[c]}

(* reactor_flush_pending_writes, for the connections of the reactor *)
Flush(r) ==
  /\ Free(r, "flush")
  /\ seen' = [c \in Conns |->
       IF c \in Mine(r) /\ ~gone[c] THEN seen[c] \o send[c] ELSE seen[c]]
  /\ send' = [c \in Conns |-> IF c \in Mine(r) THEN << >> ELSE send[c]]
  /\ phase' = [phase EXCEPT ![r] = "poll"]
  /\ UNCHANGED <<asked, read, handled, waiting, ended, open, db, store, cb_queue,
                 at, events, to_clear, looking, fate_vars>>

(* Nothing handles SIGPIPE: a write to a socket that the client has reset  *)
(* ends the process.                                                       *)
FlushKilled(r) ==
  /\ Free(r, "flush")
  /\ \E c \in Mine(r) : gone[c] /\ send[c] # << >>
  /\ process' = "killed"
  /\ UNCHANGED <<asked, seen, conn_vars, store, cb_queue, loop_vars, gone, hangup>>

First(r) == Head(cb_queue[r])

(* The callback is about a connection that is freed: a request reads       *)
(* conn->db, a response writes to the connection.                          *)
PollDangling(r) ==
  /\ Free(r, "poll") /\ cb_queue[r] # << >> /\ ~open[First(r).conn]
  /\ process' = "undefined"
  /\ UNCHANGED <<asked, seen, conn_vars, store, cb_queue, loop_vars, gone, hangup>>

(* a mistake the runs must notice: the selected database ignored *)
PollRequestDefaultDb(r) ==
  /\ Free(r, "poll") /\ cb_queue[r] # << >> /\ First(r).kind = "req"
  /\ open[First(r).conn]
  /\ LET c == First(r).conn
         cmd == asked[c][First(r).id]
     IN /\ Update(r, DefaultDb, cmd)
        /\ cb_queue' = [cb_queue EXCEPT
             ![r] = Tail(@),
             ![Owner[c]] = Append(@, [kind |-> "resp", conn |-> c, id |-> First(r).id,
                                      value |-> Executed(r, DefaultDb, cmd)])]
  /\ looking' = [looking EXCEPT ![r] = First(r).conn]
  /\ UNCHANGED <<asked, seen, conn_vars, phase, at, events, to_clear, fate_vars>>

(* a mistake the runs must notice: no response sent *)
PollRequestSilent(r) ==
  /\ Free(r, "poll") /\ cb_queue[r] # << >> /\ First(r).kind = "req"
  /\ open[First(r).conn]
  /\ Update(r, db[First(r).conn], asked[First(r).conn][First(r).id])
  /\ cb_queue' = [cb_queue EXCEPT ![r] = Tail(@)]
  /\ looking' = [looking EXCEPT ![r] = First(r).conn]
  /\ UNCHANGED <<asked, seen, conn_vars, phase, at, events, to_clear, fate_vars>>

(* __cmd_<name>_req: the command runs on the database that the connection  *)
(* has selected by now, and its answer goes back to the reactor it is of.  *)
PollRequest(r) ==
  /\ Free(r, "poll") /\ cb_queue[r] # << >> /\ First(r).kind = "req"
  /\ open[First(r).conn]
  /\ LET c == First(r).conn
         cmd == asked[c][First(r).id]
     IN /\ Update(r, db[c], cmd)
        /\ cb_queue' = [cb_queue EXCEPT
             ![r] = Tail(@),
             ![Owner[c]] = Append(@, [kind |-> "resp", conn |-> c, id |-> First(r).id,
                                      value |-> Executed(r, db[c], cmd)])]
  /\ looking' = [looking EXCEPT ![r] = First(r).conn]
  /\ UNCHANGED <<asked, seen, conn_vars, phase, at, events, to_clear, fate_vars>>

(* a mistake the runs must notice: the rest of the pipeline is not looked at *)
PollResponseAlone(r) ==
  /\ Free(r, "poll") /\ cb_queue[r] # << >> /\ First(r).kind = "resp"
  /\ open[First(r).conn]
  /\ LET c == First(r).conn
     IN /\ send' = [send EXCEPT ![c] =
             Append(@, [id |-> First(r).id, value |-> First(r).value])]
        /\ waiting' = [waiting EXCEPT ![c] = FALSE]
  /\ cb_queue' = [cb_queue EXCEPT ![r] = Tail(@)]
  /\ UNCHANGED <<asked, seen, read, handled, ended, open, db, store,
                 loop_vars, fate_vars>>

(* __cmd_<name>_resp, after which on_cb goes on with the pipeline *)
PollResponse(r) ==
  /\ Free(r, "poll") /\ cb_queue[r] # << >> /\ First(r).kind = "resp"
  /\ open[First(r).conn]
  /\ LET c == First(r).conn
     IN /\ send' = [send EXCEPT ![c] =
             Append(@, [id |-> First(r).id, value |-> First(r).value])]
        /\ waiting' = [waiting EXCEPT ![c] = FALSE]
        /\ at' = [at EXCEPT ![r] = IF handled[c] < read[c] THEN c ELSE NoConn]
  /\ cb_queue' = [cb_queue EXCEPT ![r] = Tail(@)]
  /\ UNCHANGED <<asked, seen, read, handled, ended, open, db, store,
                 phase, events, to_clear, looking, fate_vars>>

(* on_cb then compares c->shard_id, to see whether the connection is its   *)
(* own, when its owner may have the response already.                      *)
CallbackDone(r) ==
  /\ process = "runs" /\ looking[r] # NoConn
  /\ looking' = [looking EXCEPT ![r] = NoConn]
  /\ process' = IF open[looking[r]] THEN process ELSE "undefined"
  /\ UNCHANGED <<asked, seen, conn_vars, store, cb_queue, phase, at, events, to_clear,
                 gone, hangup>>

(* a mistake the runs must notice: the end of a stream is no event *)
EpollWaitBytes(r) ==
  /\ Free(r, "poll") /\ cb_queue[r] = << >>
  /\ events' = [events EXCEPT ![r] = {c \in Mine(r) : read[c] < Len(asked[c])}]
  /\ phase' = [phase EXCEPT ![r] = "events"]
  /\ UNCHANGED <<asked, seen, conn_vars, store, cb_queue, at, to_clear, looking,
                 fate_vars>>

(* No callback is left: epoll_wait reports the connections with bytes, or  *)
(* without a client.                                                       *)
EpollWait(r) ==
  /\ Free(r, "poll") /\ cb_queue[r] = << >>
  /\ events' = [events EXCEPT ![r] =
       {c \in Mine(r) : read[c] < Len(asked[c]) \/ gone[c]}]
  /\ hangup' = [c \in Conns |-> IF c \in Mine(r) THEN gone[c] ELSE hangup[c]]
  /\ phase' = [phase EXCEPT ![r] = "events"]
  /\ UNCHANGED <<asked, seen, conn_vars, store, cb_queue, at, to_clear, looking,
                 gone, process>>

(* a mistake the runs must notice: one command more than has come *)
ReceivedOver(c) == Len(asked[c]) + 1

Received(c) == Len(asked[c])

(* a mistake the runs must notice: what waits is taken for what has ended *)
EpollInEnded(r, c) ==
  /\ Free(r, "events") /\ c \in events[r]
  /\ read[c] < Received(c)
  /\ read' = [read EXCEPT ![c] = Received(c)]
  /\ events' = [events EXCEPT ![r] = @ \ {c}]
  /\ \/ /\ waiting[c]
        /\ open' = [open EXCEPT ![c] = FALSE]
        /\ UNCHANGED at
     \/ /\ ~waiting[c]
        /\ at' = [at EXCEPT ![r] = c]
        /\ UNCHANGED open
  /\ UNCHANGED <<asked, seen, handled, send, waiting, ended, db, store, cb_queue,
                 phase, to_clear, looking, fate_vars>>

(* reactor_epoll_on_epollin: the bytes are read; while a response is       *)
(* awaited they are left to on_cb, and a connection that has ended, or     *)
(* whose client has gone, is closed.                                       *)
EpollIn(r, c) ==
  /\ Free(r, "events") /\ c \in events[r]
  /\ read[c] < Received(c)
  /\ read' = [read EXCEPT ![c] = Received(c)]
  /\ events' = [events EXCEPT ![r] = @ \ {c}]
  /\ \/ /\ waiting[c]
        /\ open' = [open EXCEPT ![c] = ~ended[c] /\ ~hangup[c]]
        /\ UNCHANGED at
     \/ /\ ~waiting[c]
        /\ at' = [at EXCEPT ![r] = c]
        /\ UNCHANGED open
  /\ UNCHANGED <<asked, seen, handled, send, waiting, ended, db, store, cb_queue,
                 phase, to_clear, looking, fate_vars>>

(* read returns 0 at the end of the stream, or fails on a reset: END, and  *)
(* the connection is closed, with what it has not read and not sent.       *)
EpollEnd(r, c) ==
  /\ Free(r, "events") /\ c \in events[r]
  /\ gone[c]
  /\ events' = [events EXCEPT ![r] = @ \ {c}]
  /\ ended' = [ended EXCEPT ![c] = TRUE]
  /\ open' = [open EXCEPT ![c] = FALSE]
  /\ UNCHANGED <<asked, seen, read, handled, send, waiting, db, store, cb_queue,
                 phase, at, to_clear, looking, fate_vars>>

EventsDone(r) ==
  /\ Free(r, "events") /\ events[r] = {}
  /\ phase' = [phase EXCEPT ![r] = "flush"]
  /\ UNCHANGED <<asked, seen, conn_vars, store, cb_queue, at, events, to_clear, looking,
                 fate_vars>>

Step(r) ==
  \/ Flush(r) \/ FlushKilled(r)
  \/ PollRequest(r) \/ PollResponse(r) \/ PollDangling(r) \/ CallbackDone(r)
  \/ EpollWait(r) \/ EventsDone(r)
  \/ \E c \in Conns : EpollIn(r, c) \/ EpollEnd(r, c) \/ HandleStep(r, c)

(* Nothing is said of a process that has used freed memory. *)
Broken == process # "runs" /\ UNCHANGED vars

Next ==
  \/ \E r \in Reactors : Step(r)
  \/ \E c \in Conns : Leave(c) \/ \E cmd \in Commandset : Ask(c, cmd)
  \/ Broken

Spec == Init /\ [][Next]_vars

(* The threads run; clients may stop. *)
FairSpec == Spec /\ \A r \in Reactors : WF_vars(Step(r))
----------------------------------------------------------------------------
(* Properties *)

Request == [kind : {"req"}, conn : Conns, id : Nat]
Response == [kind : {"resp"}, conn : Conns, id : Nat, value : ReplyValues]
ReplyMessage == [id : Nat, value : ReplyValues]

(* Every variable has its type, and the counters of a pipeline are in step *)
(* with what the client has sent.                                          *)
TypeOK ==
  /\ asked \in [Conns -> Seq(Commandset)]
  /\ read \in [Conns -> Nat]
  /\ handled \in [Conns -> Nat]
  /\ \A c \in Conns : handled[c] <= read[c] /\ read[c] <= Len(asked[c])
  /\ send \in [Conns -> Seq(ReplyMessage)]
  /\ seen \in [Conns -> Seq(ReplyMessage)]
  /\ waiting \in [Conns -> BOOLEAN]
  /\ ended \in [Conns -> BOOLEAN]
  /\ open \in [Conns -> BOOLEAN]
  /\ db \in [Conns -> Dbs]
  /\ store \in [Reactors -> [Dbs -> [Keys -> Int \cup {Text, NoValue}]]]
  /\ cb_queue \in [Reactors -> Seq(Request \cup Response)]
  /\ phase \in [Reactors -> {"flush", "poll", "events"}]
  /\ at \in [Reactors -> Conns \cup {NoConn}]
  /\ events \in [Reactors -> SUBSET Conns]
  /\ to_clear \in [Reactors -> SUBSET Maps]
  /\ looking \in [Reactors -> Conns \cup {NoConn}]
  /\ gone \in [Conns -> BOOLEAN]
  /\ hangup \in [Conns -> BOOLEAN]
  /\ process \in {"runs", "undefined", "killed"}

(* the messages about c in the callback queues *)
InFlight(c) ==
  UNION {{<<r, i>> : i \in {j \in DOMAIN cb_queue[r] : cb_queue[r][j].conn = c}} :
           r \in Reactors}

Message(m) == cb_queue[m[1]][m[2]]

(* A connection waits only while a response is on its way: the flag, which *)
(* keeps its reactor from reading on, is never left behind.                *)
WaitingHasResponse ==
  \A c \in Conns : waiting[c] => InFlight(c) # {}

(* the replies to command id of c, wherever they are *)
RepliesTo(c, id) ==
  Cardinality({m \in InFlight(c) : Message(m).id = id})
    + Cardinality({i \in DOMAIN send[c] : send[c][i].id = id})
    + Cardinality({i \in DOMAIN seen[c] : seen[c][i].id = id})

QuitAt(c, id) == asked[c][id].op = "quit"

(* Every command taken from the pipeline has exactly one reply, given or   *)
(* on its way, and no other command has one: dispatching loses no command, *)
(* and executes none twice.  A QUIT stays in the buffer and may be         *)
(* answered again, and nothing behind it is executed.                      *)
EachCommandOnce ==
  \A c \in Conns : ~gone[c] =>
    \A id \in 1 .. Len(asked[c]) :
      IF id <= handled[c] THEN RepliesTo(c, id) = 1 /\ ~QuitAt(c, id)
      ELSE RepliesTo(c, id) > 0 => id = handled[c] + 1 /\ QuitAt(c, id) /\ ended[c]

(* the reactor whose thread executes command id of c *)
Executor(c, id) ==
  IF asked[c][id].op \in KeyedOps THEN Home[asked[c][id].key] ELSE Owner[c]

(* The replies to the commands of a connection that are executed by the    *)
(* same reactor come in the order of the commands (all those on one key    *)
(* among them), however many of them are dispatched at a time.             *)
SameShardInOrder ==
  \A c \in Conns :
    LET replies == seen[c] \o send[c]
    IN \A i, j \in DOMAIN replies :
         i < j /\ Executor(c, replies[i].id) = Executor(c, replies[j].id)
           => \/ replies[i].id < replies[j].id
              \/ replies[i].id = replies[j].id /\ QuitAt(c, replies[i].id)

(* A connection is freed with messages about it in the callback queues     *)
(* only if its client has gone away before it had its replies, or has sent *)
(* QUIT without waiting for them.                                          *)
DanglingNeedsClient ==
  \A c \in Conns :
    ~open[c] /\ InFlight(c) # {} =>
      \/ gone[c]
      \/ Window > 1 /\ ended[c] /\ QuitAt(c, NextId(c))

Quits(c) == \E id \in DOMAIN asked[c] : QuitAt(c, id)

(* Every command a client has written is answered, unless this client goes *)
(* away or sends QUIT, or another one has done so and broken the process.  *)
AllAnswered ==
  \A c \in Conns :
    Len(seen[c]) < Len(asked[c]) ~>
      Len(seen[c]) = Len(asked[c]) \/ gone[c] \/ Quits(c) \/ process # "runs"

(* The connection of a client that has gone away is closed, also when a    *)
(* dispatched command keeps it waiting: none is leaked.                    *)
GoneIsClosed == \A c \in Conns : gone[c] ~> ~open[c] \/ process # "runs"

(* the answers to c on their way *)
Answers(c) ==
  {Message(m).value : m \in {n \in InFlight(c) : Message(n).kind = "resp"}}
    \cup {send[c][i].value : i \in DOMAIN send[c]}

(* A client waits for its last reply; what one that has gone away asked    *)
(* for is done with when the server has nothing more about it.             *)
Pending(c) ==
  IF gone[c] THEN handled[c] < Len(asked[c]) \/ InFlight(c) # {} \/ send[c] # << >>
  ELSE Len(seen[c]) < Len(asked[c])

(* The view of such a client: the data, the command it waits for, the      *)
(* answer to it, and what its FLUSHALL has still to remove.                *)
Data == [d \in Dbs |-> [k \in Keys |-> store[Home[k]][d][k]]]

Awaited == [c \in Conns |-> IF Pending(c) THEN asked[c][Len(asked[c])] ELSE NoCommand]

Outcome == [c \in Conns |->
  IF Answers(c) = {} THEN NoReply ELSE CHOOSE v \in Answers(c) : TRUE]

Uncleared == [c \in Conns |->
  IF at[Owner[c]] = c
  THEN {e \in Dbs \X Keys : <<Home[e[2]], e[1]>> \in to_clear[Owner[c]]}
  ELSE Dbs \X Keys]

Service == INSTANCE KvService WITH
  ShardOf <- Home, data <- Data, pending <- Awaited, reply <- Outcome,
  uncleared <- Uncleared

(* To clients that wait for each reply the server is one map: every        *)
(* command takes effect at one instant, in the database the client has     *)
(* selected, wherever its key lives; FLUSHALL removes the entries one map  *)
(* after the other.                                                        *)
ImplementsService == Service!Spec
=============================================================================
