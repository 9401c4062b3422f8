--------------------------- MODULE DispatchProofs ---------------------------
(***************************************************************************)
(* Commands and their replies, for every number of reactors, connections   *)
(* and keys, every command set and every window: each command is executed  *)
(* once, a shard answers a connection in order, no connection waits for a  *)
(* response that does not come, and only a client that leaves or quits can *)
(* leave a message behind about a connection that is freed.                *)
(*                                                                         *)
(* The argument follows the messages.  Those about one connection and one  *)
(* other shard are, from the back: requests in the queue of the shard,     *)
(* responses in the queue of the owner, replies in send_buf, replies on    *)
(* the socket; along this line the numbers of the commands decrease.  So   *)
(* no command is on it twice, and a step moves at most one message on.     *)
(*                                                                         *)
(* For clients that wait for each reply the line is never longer than one, *)
(* and the whole implements KvService.                                     *)
(***************************************************************************)
EXTENDS Dispatch, SequenceTheorems, FiniteSetTheorems, TLAPS

(* the replies to c, those on the socket first *)
Given(c) == seen[c] \o send[c]

(* A message is about a command that was handled and belongs elsewhere; a  *)
(* request goes where the command is executed, a response to the owner.    *)
MessageOk(r, m) ==
  /\ m.id \in 1 .. handled[m.conn]
  /\ Executor(m.conn, m.id) # Owner[m.conn]
  /\ m.kind = "req" => Executor(m.conn, m.id) = r
  /\ m.kind = "resp" => Owner[m.conn] = r

MessagesOk ==
  \A r \in Reactors : \A i \in 1 .. Len(cb_queue[r]) : MessageOk(r, cb_queue[r][i])

(* A reactor handles its own connections only, and none it has freed. *)
LoopOk ==
  /\ \A r \in Reactors : at[r] # NoConn =>
       /\ Owner[at[r]] = r /\ open[at[r]]
       /\ phase[r] = "events" => at[r] \notin events[r]
  /\ \A r \in Reactors : \A c \in events[r] : Owner[c] = r /\ open[c]
  /\ \A c \in Conns : hangup[c] => gone[c]

(* The pipeline of a connection that has ended, and is not closed yet,     *)
(* stands at a QUIT.                                                       *)
EndedOk ==
  \A c \in Conns :
    /\ ended[c] /\ open[c] => handled[c] < read[c] /\ QuitAt(c, NextId(c))
    /\ \A id \in 1 .. handled[c] : ~QuitAt(c, id)

(* Replies are those to commands handled, and to that QUIT. *)
RepliesOk ==
  \A c \in Conns : \A i \in 1 .. Len(Given(c)) :
    \/ Given(c)[i].id \in 1 .. handled[c]
    \/ /\ Given(c)[i].id = NextId(c)
       /\ handled[c] < read[c] /\ ended[c] /\ QuitAt(c, NextId(c))

(* Of two commands that the same reactor executes, the one before the      *)
(* other.                                                                  *)
Precedes(c, id1, id2) == Executor(c, id1) = Executor(c, id2) => id1 < id2

(* The messages in one queue, ... *)
QueueOrder ==
  \A r \in Reactors : \A i, j \in 1 .. Len(cb_queue[r]) :
    i < j /\ cb_queue[r][i].conn = cb_queue[r][j].conn
      => Precedes(cb_queue[r][i].conn, cb_queue[r][i].id, cb_queue[r][j].id)

(* ... responses and requests, ... *)
CrossOrder ==
  \A r, s \in Reactors :
    \A i \in 1 .. Len(cb_queue[r]), j \in 1 .. Len(cb_queue[s]) :
      /\ cb_queue[r][i].kind = "resp" /\ cb_queue[s][j].kind = "req"
      /\ cb_queue[r][i].conn = cb_queue[s][j].conn
      => Precedes(cb_queue[r][i].conn, cb_queue[r][i].id, cb_queue[s][j].id)

(* ... replies and messages, ... *)
RepliesFirst ==
  \A c \in Conns : \A i \in 1 .. Len(Given(c)) :
    \A r \in Reactors : \A j \in 1 .. Len(cb_queue[r]) :
      cb_queue[r][j].conn = c => Precedes(c, Given(c)[i].id, cb_queue[r][j].id)

(* ... and the replies are in the order of the commands. *)
ReplyOrder ==
  \A c \in Conns : \A i, j \in 1 .. Len(Given(c)) :
    i < j =>
      \/ Precedes(c, Given(c)[i].id, Given(c)[j].id)
      \/ Given(c)[i].id = Given(c)[j].id /\ QuitAt(c, Given(c)[i].id)

(* A command that was handled is answered, or its message is on its way. *)
AnsweredOrOnItsWay(c, id) ==
  \/ \E i \in 1 .. Len(Given(c)) : Given(c)[i].id = id
  \/ \E r \in Reactors : \E j \in 1 .. Len(cb_queue[r]) :
       cb_queue[r][j].conn = c /\ cb_queue[r][j].id = id

NoneLost ==
  \A c \in Conns : ~gone[c] => \A id \in 1 .. handled[c] : AnsweredOrOnItsWay(c, id)

(* With a client that waits for each reply there is one command at a time. *)
OneAtATime ==
  \A c \in Conns : Window <= 1 /\ ~gone[c] =>
    /\ ~ended[c] => Len(asked[c]) <= NextId(c) /\ Len(Given(c)) <= handled[c]
    /\ \A r \in Reactors : \A j \in 1 .. Len(cb_queue[r]) :
         cb_queue[r][j].conn = c =>
           /\ ~ended[c] /\ handled[c] = Len(asked[c]) /\ cb_queue[r][j].id = handled[c]
           /\ Len(Given(c)) < Len(asked[c])

(* the variables of TypeOK one by one *)
PipelineType ==
  /\ asked \in [Conns -> Seq(Commandset)]
  /\ read \in [Conns -> Nat]
  /\ handled \in [Conns -> Nat]
  /\ \A c \in Conns : handled[c] <= read[c] /\ read[c] <= Len(asked[c])

ReplyType ==
  /\ send \in [Conns -> Seq(ReplyMessage)]
  /\ seen \in [Conns -> Seq(ReplyMessage)]

ConnType ==
  /\ waiting \in [Conns -> BOOLEAN]
  /\ ended \in [Conns -> BOOLEAN]
  /\ open \in [Conns -> BOOLEAN]
  /\ gone \in [Conns -> BOOLEAN]
  /\ hangup \in [Conns -> BOOLEAN]
  /\ db \in [Conns -> Dbs]

Entries == Int \cup {Text, NoValue}

StoreType == store \in [Reactors -> [Dbs -> [Keys -> Entries]]]

QueueType == cb_queue \in [Reactors -> Seq(Request \cup Response)]

LoopType ==
  /\ phase \in [Reactors -> {"flush", "poll", "events"}]
  /\ at \in [Reactors -> Conns \cup {NoConn}]
  /\ events \in [Reactors -> SUBSET Conns]
  /\ to_clear \in [Reactors -> SUBSET Maps]
  /\ looking \in [Reactors -> Conns \cup {NoConn}]
  /\ process \in {"runs", "undefined", "killed"}

Types ==
  PipelineType /\ ReplyType /\ ConnType /\ StoreType /\ QueueType /\ LoopType

Order == QueueOrder /\ CrossOrder /\ RepliesFirst /\ ReplyOrder

Line == MessagesOk /\ EndedOk /\ RepliesOk /\ Order /\ NoneLost /\ OneAtATime

IInv == Types /\ LoopOk /\ Line

----------------------------------------------------------------------------
(* Commands *)

(* A command leaves a value, or none, and answers with a reply. *)
LEMMA CommandFacts ==
  ASSUME NEW cmd \in Commandset, cmd.op \in KeyedOps,
         NEW old \in Entries, NEW r \in Reactors
  PROVE  /\ cmd.key \in Keys /\ Home[cmd.key] \in Reactors
         /\ NewEntry(cmd, old) \in Entries
         /\ Answer(cmd, old, r) \in ReplyValues
<1>. USE DEF Entries
<1>1. /\ cmd.op \in {"get", "set", "del", "incr", "dping"}
      /\ cmd.key \in Keys
      /\ cmd.op = "set" => cmd.arg \in Entries
      /\ cmd.op = "incr" => cmd.arg \in Int
  BY CommandAssumption DEF KeyedOps
<1>2. Home[cmd.key] \in Reactors
  BY <1>1, HomeAssumption
<1>3. old # Text => Counter(old) \in Int
  BY DEF Counter
<1>4. NewEntry(cmd, old) \in Entries
  BY <1>1, <1>3 DEF NewEntry
<1>5. Answer(cmd, old, r) \in ReplyValues
  <2>1. r \in Int
    BY BoundAssumption DEF Reactors
  <2>. QED
    BY <1>1, <1>3, <2>1 DEF Answer, ReplyValues
<1>. QED
  BY <1>1, <1>2, <1>4, <1>5

LEMMA UpdateFacts ==
  ASSUME StoreType, NEW r \in Reactors, NEW d \in Dbs, NEW cmd \in Commandset,
         cmd.op \in KeyedOps, Update(r, d, cmd)
  PROVE  /\ store' \in [Reactors -> [Dbs -> [Keys -> Entries]]]
         /\ Executed(r, d, cmd) \in ReplyValues
<1>1. store \in [Reactors -> [Dbs -> [Keys -> Entries]]]
  BY DEF StoreType
<1>2. cmd.key \in Keys /\ store[r][d][cmd.key] \in Entries
  BY <1>1, CommandAssumption
<1>3. NewEntry(cmd, store[r][d][cmd.key]) \in Entries
  BY <1>2, CommandFacts
<1>4. store' = [store EXCEPT ![r][d][cmd.key] = NewEntry(cmd, store[r][d][cmd.key])]
  BY DEF Update
<1>5. store' \in [Reactors -> [Dbs -> [Keys -> Entries]]]
  BY <1>1, <1>3, <1>4
<1>. QED
  BY <1>2, <1>5, CommandFacts DEF Executed

----------------------------------------------------------------------------
(* The types *)

LEMMA TypeParts == Types <=> TypeOK
BY DEF TypeOK, Types, PipelineType, ReplyType, ConnType, StoreType, QueueType, LoopType, Entries

LEMMA InitType == Init => Types
<1>. SUFFICES ASSUME Init PROVE Types
  OBVIOUS
<1>1. PipelineType
  BY DEF Init, PipelineType
<1>2. ReplyType
  BY DEF Init, ReplyType
<1>3. ConnType
  BY DbAssumption DEF Init, ConnType
<1>4. StoreType
  BY DEF Init, StoreType, Entries
<1>5. QueueType
  BY DEF Init, QueueType
<1>6. LoopType
  BY BoundAssumption DEF Init, LoopType
<1>. QED
  BY <1>1, <1>2, <1>3, <1>4, <1>5, <1>6 DEF Types

(* The command that on_data_available is called with. *)
LEMMA CalledFacts ==
  ASSUME PipelineType, NEW r \in Reactors, NEW c \in Conns, Called(r, c)
  PROVE  /\ NextId(c) \in 1 .. Len(asked[c]) /\ NextId(c) \in 1 .. read[c]
         /\ handled[c] \in Nat /\ read[c] \in Nat /\ Len(asked[c]) \in Nat
         /\ handled[c] < read[c] /\ read[c] <= Len(asked[c])
         /\ Current(c) \in Commandset /\ Current(c).op \in Ops
<1>1. asked[c] \in Seq(Commandset) /\ Len(asked[c]) \in Nat
      /\ handled[c] \in Nat /\ read[c] \in Nat /\ read[c] <= Len(asked[c])
  BY DEF PipelineType
<1>2. handled[c] < read[c]
  BY DEF Called
<1>3. handled[c] + 1 \in 1 .. Len(asked[c]) /\ handled[c] + 1 \in 1 .. read[c]
  BY <1>1, <1>2
<1>4. asked[c][handled[c] + 1] \in Commandset
  BY <1>1, <1>3
<1>. QED
  BY <1>1, <1>2, <1>3, <1>4, CommandAssumption DEF NextId, Current

LEMMA ProceedType ==
  ASSUME PipelineType, ConnType, LoopType, NEW r \in Reactors, NEW c \in Conns,
         NEW end \in BOOLEAN, Called(r, c), Proceed(r, c, end)
  PROVE  /\ PipelineType'
         /\ ended' \in [Conns -> BOOLEAN] /\ open' \in [Conns -> BOOLEAN]
         /\ UNCHANGED <<gone, hangup, seen>>
         /\ to_clear' \in [Reactors -> SUBSET Maps] => LoopType'
<1>. DEFINE last == end \/ read[c] - handled[c] - 1 = 0
<1>1. /\ handled' = [handled EXCEPT ![c] = IF end THEN @ ELSE @ + 1]
      /\ at' = [at EXCEPT ![r] = IF last THEN NoConn ELSE c]
      /\ ended' = [ended EXCEPT ![c] = end]
      /\ \E b \in BOOLEAN : open' = [open EXCEPT ![c] = b]
      /\ UNCHANGED <<asked, seen, read, phase, events, looking, gone, hangup, process>>
  BY DEF Proceed, ConnType, fate_vars
<1>2. PipelineType'
  <2>1. /\ handled' \in [Conns -> Nat]
        /\ \A k \in Conns : handled'[k] <= read[k]
    BY <1>1, CalledFacts DEF PipelineType
  <2>. QED
    BY <1>1, <2>1 DEF PipelineType
<1>3. ended' \in [Conns -> BOOLEAN] /\ open' \in [Conns -> BOOLEAN]
  BY <1>1 DEF ConnType
<1>4. at' \in [Reactors -> Conns \cup {NoConn}]
  <2>. HIDE DEF last
  <2>. QED
    BY <1>1 DEF LoopType
<1>. QED
  BY <1>1, <1>2, <1>3, <1>4 DEF LoopType

(* A reply to the current command, a request for it, and the steps that    *)
(* handle it.                                                              *)
LEMMA ReplyTypes ==
  ASSUME ReplyType, PipelineType, NEW c \in Conns, NEW v \in ReplyValues,
         Reply(c, v), UNCHANGED seen
  PROVE  ReplyType'
<1>1. NextId(c) \in Nat
  BY DEF NextId, PipelineType
<1>2. [id |-> NextId(c), value |-> v] \in ReplyMessage
  BY <1>1 DEF ReplyMessage
<1>. HIDE DEF ReplyMessage
<1>3. send' = [send EXCEPT ![c] = Append(send[c], [id |-> NextId(c), value |-> v])]
  BY DEF Reply
<1>4. Append(send[c], [id |-> NextId(c), value |-> v]) \in Seq(ReplyMessage)
  BY <1>2, AppendProperties DEF ReplyType
<1>. QED
  BY <1>3, <1>4 DEF ReplyType

LEMMA HandleType ==
  ASSUME Types, NEW r \in Reactors, NEW c \in Conns, HandleStep(r, c)
  PROVE  Types'
<1>0. PipelineType /\ ReplyType /\ ConnType /\ StoreType /\ QueueType /\ LoopType
  BY DEF Types
<1>1. /\ ended[c] \in BOOLEAN /\ db[c] \in Dbs
      /\ Pong \in ReplyValues /\ Ok \in ReplyValues /\ Err \in ReplyValues
      /\ TRUE \in BOOLEAN
  BY <1>0 DEF ConnType, ReplyValues
<1>2. CASE HandlePing(r, c)
  <2>1. /\ Called(r, c) /\ Reply(c, Pong) /\ Proceed(r, c, ended[c])
        /\ UNCHANGED <<waiting, db, store, cb_queue, to_clear>>
    BY <1>2 DEF HandlePing
  <2>2. /\ PipelineType' /\ LoopType' /\ UNCHANGED <<gone, hangup, seen>>
        /\ ended' \in [Conns -> BOOLEAN] /\ open' \in [Conns -> BOOLEAN]
    BY <1>0, <1>1, <2>1, ProceedType DEF LoopType
  <2>3. ReplyType'
    BY <1>0, <1>1, <2>1, <2>2, ReplyTypes
  <2>4. ConnType' /\ StoreType' /\ QueueType'
    BY <1>0, <2>1, <2>2 DEF ConnType, StoreType, QueueType
  <2>. QED
    BY <2>2, <2>3, <2>4 DEF Types
<1>3. CASE HandleQuit(r, c)
  <2>1. /\ Called(r, c) /\ Reply(c, Ok) /\ Proceed(r, c, TRUE)
        /\ UNCHANGED <<waiting, db, store, cb_queue, to_clear>>
    BY <1>3 DEF HandleQuit
  <2>2. /\ PipelineType' /\ LoopType' /\ UNCHANGED <<gone, hangup, seen>>
        /\ ended' \in [Conns -> BOOLEAN] /\ open' \in [Conns -> BOOLEAN]
    BY <1>0, <1>1, <2>1, ProceedType DEF LoopType
  <2>3. ReplyType'
    BY <1>0, <1>1, <2>1, <2>2, ReplyTypes
  <2>4. ConnType' /\ StoreType' /\ QueueType'
    BY <1>0, <2>1, <2>2 DEF ConnType, StoreType, QueueType
  <2>. QED
    BY <2>2, <2>3, <2>4 DEF Types
<1>4. CASE HandleSelect(r, c)
  <2>1. /\ Called(r, c) /\ Proceed(r, c, ended[c])
        /\ \E v \in ReplyValues : Reply(c, v)
        /\ \/ db' = db
           \/ Current(c).arg \in Dbs /\ db' = [db EXCEPT ![c] = Current(c).arg]
        /\ UNCHANGED <<waiting, store, cb_queue, to_clear>>
    BY <1>1, <1>4 DEF HandleSelect
  <2>2. /\ PipelineType' /\ LoopType' /\ UNCHANGED <<gone, hangup, seen>>
        /\ ended' \in [Conns -> BOOLEAN] /\ open' \in [Conns -> BOOLEAN]
    BY <1>0, <1>1, <2>1, ProceedType DEF LoopType
  <2>3. ReplyType'
    BY <1>0, <2>1, <2>2, ReplyTypes
  <2>4. db' \in [Conns -> Dbs]
    BY <1>0, <2>1 DEF ConnType
  <2>5. ConnType' /\ StoreType' /\ QueueType'
    BY <1>0, <2>1, <2>2, <2>4 DEF ConnType, StoreType, QueueType
  <2>. QED
    BY <2>2, <2>3, <2>5 DEF Types
<1>5. CASE HandleInline(r, c)
  <2>1. /\ Called(r, c) /\ Proceed(r, c, ended[c]) /\ Current(c).op \in KeyedOps
        /\ Update(r, db[c], Current(c)) /\ Reply(c, Executed(r, db[c], Current(c)))
        /\ UNCHANGED <<waiting, db, cb_queue, to_clear>>
    BY <1>5 DEF HandleInline
  <2>2. /\ PipelineType' /\ LoopType' /\ UNCHANGED <<gone, hangup, seen>>
        /\ ended' \in [Conns -> BOOLEAN] /\ open' \in [Conns -> BOOLEAN]
    BY <1>0, <1>1, <2>1, ProceedType DEF LoopType
  <2>3. Current(c) \in Commandset
    BY <1>0, <2>1, CalledFacts
  <2>4. StoreType' /\ Executed(r, db[c], Current(c)) \in ReplyValues
    BY <1>0, <1>1, <2>1, <2>3, UpdateFacts DEF StoreType
  <2>5. ReplyType'
    BY <1>0, <2>1, <2>2, <2>4, ReplyTypes
  <2>6. ConnType' /\ QueueType'
    BY <1>0, <2>1, <2>2 DEF ConnType, QueueType
  <2>. QED
    BY <2>2, <2>4, <2>5, <2>6 DEF Types
<1>6. CASE HandleDispatch(r, c)
  <2>. DEFINE h == Home[Current(c).key]
              m == [kind |-> "req", conn |-> c, id |-> NextId(c)]
  <2>1. /\ Called(r, c) /\ Proceed(r, c, ended[c]) /\ Current(c).op \in KeyedOps
        /\ cb_queue' = [cb_queue EXCEPT ![h] = Append(cb_queue[h], m)]
        /\ waiting' = [waiting EXCEPT ![c] = TRUE]
        /\ UNCHANGED <<send, db, store, to_clear>>
    BY <1>6 DEF HandleDispatch
  <2>2. /\ PipelineType' /\ LoopType' /\ UNCHANGED <<gone, hangup, seen>>
        /\ ended' \in [Conns -> BOOLEAN] /\ open' \in [Conns -> BOOLEAN]
    BY <1>0, <1>1, <2>1, ProceedType DEF LoopType
  <2>3. h \in Reactors
    BY <1>0, <2>1, CalledFacts, CommandAssumption, HomeAssumption
  <2>4. m \in Request
    BY <1>0, <2>1, CalledFacts DEF Request
  <2>. HIDE DEF h, m
  <2>5. Append(cb_queue[h], m) \in Seq(Request \cup Response)
    BY <1>0, <2>3, <2>4, AppendProperties DEF QueueType
  <2>6. QueueType'
    BY <1>0, <2>1, <2>3, <2>5 DEF QueueType
  <2>7. ConnType' /\ StoreType' /\ ReplyType'
    BY <1>0, <2>1, <2>2 DEF ConnType, StoreType, ReplyType
  <2>. QED
    BY <2>2, <2>6, <2>7 DEF Types
<1>7. CASE FlushMap(r, c)
  <2>1. Called(r, c)
        /\ UNCHANGED <<asked, seen, conn_vars, cb_queue, phase, at, events, looking, fate_vars>>
    BY <1>7 DEF FlushMap
  <2>2. PICK m \in to_clear[r] :
          /\ store' = [store EXCEPT ![m[1]][m[2]] = [k \in Keys |-> NoValue]]
          /\ to_clear' = [to_clear EXCEPT ![r] = to_clear[r] \ {m}]
    BY <1>7 DEF FlushMap
  <2>3. m[1] \in Reactors /\ m[2] \in Dbs
    BY <1>0, <2>2 DEF LoopType, Maps
  <2>4. [k \in Keys |-> NoValue] \in [Keys -> Entries]
    BY DEF Entries
  <2>5. StoreType'
    BY <1>0, <2>2, <2>3, <2>4 DEF StoreType
  <2>6. LoopType'
    <3>1. to_clear' \in [Reactors -> SUBSET Maps]
      BY <1>0, <2>2 DEF LoopType
    <3>. QED
      BY <1>0, <2>1, <3>1 DEF LoopType, fate_vars
  <2>7. PipelineType' /\ ReplyType' /\ ConnType' /\ QueueType'
    BY <1>0, <2>1 DEF PipelineType, ReplyType, ConnType, QueueType, conn_vars, fate_vars
  <2>. QED
    BY <2>5, <2>6, <2>7 DEF Types
<1>8. CASE FlushDone(r, c)
  <2>1. /\ Called(r, c) /\ Reply(c, Ok) /\ Proceed(r, c, ended[c])
        /\ to_clear' = [to_clear EXCEPT ![r] = Maps]
        /\ UNCHANGED <<waiting, db, store, cb_queue>>
    BY <1>8 DEF FlushDone
  <2>2. to_clear' \in [Reactors -> SUBSET Maps]
    BY <1>0, <2>1, BoundAssumption DEF LoopType
  <2>3. /\ PipelineType' /\ LoopType' /\ UNCHANGED <<gone, hangup, seen>>
        /\ ended' \in [Conns -> BOOLEAN] /\ open' \in [Conns -> BOOLEAN]
    BY <1>0, <1>1, <2>1, <2>2, ProceedType
  <2>4. ReplyType'
    BY <1>0, <1>1, <2>1, <2>3, ReplyTypes
  <2>5. ConnType' /\ StoreType' /\ QueueType'
    BY <1>0, <2>1, <2>3 DEF ConnType, StoreType, QueueType
  <2>. QED
    BY <2>3, <2>4, <2>5 DEF Types
<1>. QED
  BY <1>2, <1>3, <1>4, <1>5, <1>6, <1>7, <1>8 DEF HandleStep

(* The first message of a queue. *)
LEMMA FirstFacts ==
  ASSUME QueueType, PipelineType, MessagesOk, NEW r \in Reactors, cb_queue[r] # << >>
  PROVE  /\ First(r) = cb_queue[r][1] /\ 1 \in 1 .. Len(cb_queue[r])
         /\ Len(cb_queue[r]) \in Nat
         /\ First(r) \in Request \cup Response
         /\ First(r).conn \in Conns /\ First(r).kind \in {"req", "resp"}
         /\ First(r).kind = "resp" => First(r).value \in ReplyValues
         /\ MessageOk(r, First(r))
         /\ First(r).id \in Nat \ {0} /\ First(r).id <= handled[First(r).conn]
         /\ First(r).id \in 1 .. Len(asked[First(r).conn])
         /\ asked[First(r).conn][First(r).id] \in Commandset
         /\ asked[First(r).conn][First(r).id].op \in KeyedOps
         /\ First(r).kind = "req" => r # Owner[First(r).conn]
         /\ Owner[First(r).conn] \in Reactors
         /\ Tail(cb_queue[r]) \in Seq(Request \cup Response)
<1>. DEFINE c == First(r).conn
            id == First(r).id
<1>1. cb_queue[r] \in Seq(Request \cup Response) /\ Len(cb_queue[r]) \in Nat \ {0}
  BY DEF QueueType
<1>2. First(r) = cb_queue[r][1] /\ 1 \in 1 .. Len(cb_queue[r])
  BY <1>1 DEF First
<1>3. First(r) \in Request \cup Response
  BY <1>1, <1>2
<1>4. /\ c \in Conns /\ First(r).kind \in {"req", "resp"}
      /\ First(r).kind = "resp" => First(r).value \in ReplyValues
  BY <1>3 DEF Request, Response
<1>5. MessageOk(r, First(r))
  BY <1>2 DEF MessagesOk
<1>6. /\ id \in 1 .. handled[c] /\ Executor(c, id) # Owner[c]
      /\ First(r).kind = "req" => Executor(c, id) = r
  BY <1>5 DEF MessageOk
<1>. HIDE DEF c, id
<1>7. /\ handled[c] \in Nat /\ read[c] \in Nat /\ Len(asked[c]) \in Nat
      /\ handled[c] <= read[c] /\ read[c] <= Len(asked[c])
      /\ asked[c] \in Seq(Commandset)
  BY <1>4 DEF PipelineType, c
<1>8. id \in 1 .. Len(asked[c]) /\ id \in Nat \ {0} /\ id <= handled[c]
  BY <1>6, <1>7
<1>9. asked[c][id] \in Commandset
  BY <1>7, <1>8
<1>10. asked[c][id].op \in KeyedOps
  BY <1>6 DEF Executor
<1>11. Owner[c] \in Reactors
  BY <1>4, OwnerAssumption DEF c
<1>12. Tail(cb_queue[r]) \in Seq(Request \cup Response)
  BY <1>1
<1>. QED
  BY <1>1, <1>2, <1>3, <1>4, <1>5, <1>6, <1>8, <1>9, <1>10, <1>11, <1>12 DEF c, id

LEMMA StepType ==
  ASSUME Types, MessagesOk, NEW r \in Reactors, Step(r)
  PROVE  Types'
<1>0. PipelineType /\ ReplyType /\ ConnType /\ StoreType /\ QueueType /\ LoopType
  BY DEF Types
<1>1. CASE Flush(r)
  <2>1. /\ seen' = [c \in Conns |->
             IF c \in Mine(r) /\ ~gone[c] THEN seen[c] \o send[c] ELSE seen[c]]
        /\ send' = [c \in Conns |-> IF c \in Mine(r) THEN << >> ELSE send[c]]
        /\ phase' = [phase EXCEPT ![r] = "poll"]
        /\ UNCHANGED <<asked, read, handled, waiting, ended, open, db, store, cb_queue,
                 at, events, to_clear, looking, fate_vars>>
    BY <1>1 DEF Flush
  <2>2. ReplyType'
    <3>. HIDE DEF ReplyMessage
    <3>1. \A c \in Conns : /\ seen[c] \in Seq(ReplyMessage) /\ send[c] \in Seq(ReplyMessage)
                           /\ seen[c] \o send[c] \in Seq(ReplyMessage)
      BY <1>0, ConcatProperties DEF ReplyType
    <3>2. << >> \in Seq(ReplyMessage)
      OBVIOUS
    <3>3. seen' \in [Conns -> Seq(ReplyMessage)]
      BY <2>1, <3>1
    <3>4. send' \in [Conns -> Seq(ReplyMessage)]
      BY <2>1, <3>1, <3>2
    <3>. QED
      BY <3>3, <3>4 DEF ReplyType
  <2>3. LoopType'
    BY <1>0, <2>1 DEF LoopType, fate_vars
  <2>4. PipelineType' /\ ConnType' /\ StoreType' /\ QueueType'
    BY <1>0, <2>1 DEF PipelineType, ConnType, StoreType, QueueType, fate_vars
  <2>. QED
    BY <2>2, <2>3, <2>4 DEF Types
<1>2. CASE FlushKilled(r) \/ PollDangling(r)
  <2>1. /\ process' \in {"killed", "undefined"}
        /\ UNCHANGED <<asked, seen, conn_vars, store, cb_queue, loop_vars, gone, hangup>>
    BY <1>2 DEF FlushKilled, PollDangling
  <2>. QED
    BY <1>0, <2>1 DEF Types, PipelineType, ReplyType, ConnType, StoreType, QueueType,
       LoopType, conn_vars, loop_vars
<1>3. CASE PollRequest(r)
  <2>. DEFINE c == First(r).conn
              cmd == asked[c][First(r).id]
              o == Owner[c]
              m == [kind |-> "resp", conn |-> c, id |-> First(r).id,
                    value |-> Executed(r, db[c], cmd)]
  <2>1. /\ cb_queue[r] # << >> /\ First(r).kind = "req"
        /\ Update(r, db[c], cmd)
        /\ cb_queue' = [cb_queue EXCEPT ![r] = Tail(@), ![o] = Append(@, m)]
        /\ looking' = [looking EXCEPT ![r] = c]
        /\ UNCHANGED <<asked, seen, conn_vars, phase, at, events, to_clear, fate_vars>>
    BY <1>3 DEF PollRequest
  <2>2. /\ c \in Conns /\ cmd \in Commandset /\ cmd.op \in KeyedOps /\ First(r).id \in Nat
        /\ o \in Reactors /\ Tail(cb_queue[r]) \in Seq(Request \cup Response)
        /\ o # r
    BY <1>0, <2>1, FirstFacts
  <2>. HIDE DEF c, cmd, o
  <2>3. StoreType' /\ Executed(r, db[c], cmd) \in ReplyValues
    BY <1>0, <2>1, <2>2, UpdateFacts DEF StoreType, ConnType
  <2>4. m \in Response
    BY <2>2, <2>3 DEF Response
  <2>. HIDE DEF m
  <2>5. Append(cb_queue[o], m) \in Seq(Request \cup Response)
    BY <1>0, <2>2, <2>4, AppendProperties DEF QueueType
  <2>6. QueueType'
    BY <1>0, <2>1, <2>2, <2>5 DEF QueueType
  <2>7. LoopType'
    BY <1>0, <2>1, <2>2 DEF LoopType, fate_vars
  <2>8. PipelineType' /\ ReplyType' /\ ConnType'
    BY <1>0, <2>1 DEF PipelineType, ReplyType, ConnType, conn_vars, fate_vars
  <2>. QED
    BY <2>3, <2>6, <2>7, <2>8 DEF Types
<1>4. CASE PollResponse(r)
  <2>. DEFINE c == First(r).conn
              m == [id |-> First(r).id, value |-> First(r).value]
  <2>1. /\ cb_queue[r] # << >> /\ First(r).kind = "resp"
        /\ send' = [send EXCEPT ![c] = Append(send[c], m)]
        /\ waiting' = [waiting EXCEPT ![c] = FALSE]
        /\ at' = [at EXCEPT ![r] = IF handled[c] < read[c] THEN c ELSE NoConn]
        /\ cb_queue' = [cb_queue EXCEPT ![r] = Tail(cb_queue[r])]
        /\ UNCHANGED <<asked, seen, read, handled, ended, open, db, store,
                       phase, events, to_clear, looking, fate_vars>>
    BY <1>4 DEF PollResponse
  <2>2. /\ c \in Conns /\ First(r).id \in Nat /\ First(r).value \in ReplyValues
        /\ Tail(cb_queue[r]) \in Seq(Request \cup Response)
    BY <1>0, <2>1, FirstFacts
  <2>3. m \in ReplyMessage
    BY <2>2 DEF ReplyMessage
  <2>. HIDE DEF c, m
  <2>4. Append(send[c], m) \in Seq(ReplyMessage)
    BY <1>0, <2>2, <2>3, AppendProperties DEF ReplyType
  <2>5. ReplyType'
    BY <1>0, <2>1, <2>4 DEF ReplyType
  <2>6. QueueType'
    BY <1>0, <2>1, <2>2 DEF QueueType
  <2>7. LoopType'
    BY <1>0, <2>1, <2>2 DEF LoopType, fate_vars
  <2>8. PipelineType' /\ ConnType' /\ StoreType'
    BY <1>0, <2>1, <2>2 DEF PipelineType, ConnType, StoreType, fate_vars
  <2>. QED
    BY <2>5, <2>6, <2>7, <2>8 DEF Types
<1>5. CASE CallbackDone(r)
  <2>1. /\ looking' = [looking EXCEPT ![r] = NoConn]
        /\ process' \in {process, "undefined"}
        /\ UNCHANGED <<asked, seen, conn_vars, store, cb_queue, phase, at, events, to_clear,
                       gone, hangup>>
    BY <1>5 DEF CallbackDone
  <2>. QED
    BY <1>0, <2>1 DEF Types, PipelineType, ReplyType, ConnType, StoreType, QueueType,
       LoopType, conn_vars
<1>6. CASE EpollWait(r)
  <2>1. /\ events' = [events EXCEPT ![r] =
             {c \in Mine(r) : read[c] < Len(asked[c]) \/ gone[c]}]
        /\ hangup' = [c \in Conns |-> IF c \in Mine(r) THEN gone[c] ELSE hangup[c]]
        /\ phase' = [phase EXCEPT ![r] = "events"]
        /\ UNCHANGED <<asked, seen, conn_vars, store, cb_queue, at, to_clear, looking,
                       gone, process>>
    BY <1>6 DEF EpollWait
  <2>2. {c \in Mine(r) : read[c] < Len(asked[c]) \/ gone[c]} \in SUBSET Conns
    BY DEF Mine
  <2>3. LoopType'
    BY <1>0, <2>1, <2>2 DEF LoopType
  <2>4. PipelineType' /\ ReplyType' /\ ConnType' /\ StoreType' /\ QueueType'
    BY <1>0, <2>1 DEF PipelineType, ReplyType, ConnType, StoreType, QueueType, conn_vars
  <2>. QED
    BY <2>3, <2>4 DEF Types
<1>7. CASE EventsDone(r)
  <2>1. /\ phase' = [phase EXCEPT ![r] = "flush"]
        /\ UNCHANGED <<asked, seen, conn_vars, store, cb_queue, at, events, to_clear, looking,
                       fate_vars>>
    BY <1>7 DEF EventsDone
  <2>. QED
    BY <1>0, <2>1 DEF Types, PipelineType, ReplyType, ConnType, StoreType, QueueType,
       LoopType, conn_vars, fate_vars
<1>8. ASSUME NEW c \in Conns, EpollIn(r, c) PROVE Types'
  <2>1. /\ read' = [read EXCEPT ![c] = Len(asked[c])]
        /\ events' = [events EXCEPT ![r] = events[r] \ {c}]
        /\ at' = at \/ at' = [at EXCEPT ![r] = c]
        /\ open' = open \/ open' = [open EXCEPT ![c] = ~ended[c] /\ ~hangup[c]]
        /\ read[c] < Len(asked[c])
        /\ UNCHANGED <<asked, seen, handled, send, waiting, ended, db, store, cb_queue,
                       phase, to_clear, looking, fate_vars>>
    BY <1>8 DEF EpollIn, Received
  <2>2. PipelineType'
    BY <1>0, <2>1 DEF PipelineType
  <2>3. LoopType'
    BY <1>0, <2>1 DEF LoopType, fate_vars
  <2>4. open' \in [Conns -> BOOLEAN]
    BY <1>0, <2>1 DEF ConnType
  <2>5. ReplyType' /\ ConnType' /\ StoreType' /\ QueueType'
    BY <1>0, <2>1, <2>4 DEF ReplyType, ConnType, StoreType, QueueType, fate_vars
  <2>. QED
    BY <2>2, <2>3, <2>5 DEF Types
<1>9. ASSUME NEW c \in Conns, EpollEnd(r, c) PROVE Types'
  <2>1. /\ events' = [events EXCEPT ![r] = events[r] \ {c}]
        /\ ended' = [ended EXCEPT ![c] = TRUE]
        /\ open' = [open EXCEPT ![c] = FALSE]
        /\ UNCHANGED <<asked, seen, read, handled, send, waiting, db, store, cb_queue,
                       phase, at, to_clear, looking, fate_vars>>
    BY <1>9 DEF EpollEnd
  <2>2. ConnType'
    BY <1>0, <2>1 DEF ConnType, fate_vars
  <2>3. LoopType'
    BY <1>0, <2>1 DEF LoopType, fate_vars
  <2>4. PipelineType' /\ ReplyType' /\ StoreType' /\ QueueType'
    BY <1>0, <2>1 DEF PipelineType, ReplyType, StoreType, QueueType
  <2>. QED
    BY <2>2, <2>3, <2>4 DEF Types
<1>10. ASSUME NEW c \in Conns, HandleStep(r, c) PROVE Types'
  BY <1>10, HandleType
<1>. QED
  BY <1>1, <1>2, <1>3, <1>4, <1>5, <1>6, <1>7, <1>8, <1>9, <1>10 DEF Step

LEMMA NextType == Types /\ MessagesOk /\ [Next]_vars => Types'
<1>. SUFFICES ASSUME Types, MessagesOk, [Next]_vars PROVE Types'
  OBVIOUS
<1>0. PipelineType /\ ReplyType /\ ConnType /\ StoreType /\ QueueType /\ LoopType
  BY DEF Types
<1>1. ASSUME NEW r \in Reactors, Step(r) PROVE Types'
  BY <1>1, StepType
<1>2. ASSUME NEW c \in Conns, Leave(c) PROVE Types'
  BY <1>0, <1>2 DEF Types, Leave, PipelineType, ReplyType, ConnType, StoreType, QueueType,
     LoopType, conn_vars, loop_vars
<1>3. ASSUME NEW c \in Conns, NEW cmd \in Commandset, Ask(c, cmd) PROVE Types'
  <2>1. /\ asked' = [asked EXCEPT ![c] = Append(asked[c], cmd)]
        /\ UNCHANGED <<seen, conn_vars, store, cb_queue, loop_vars, fate_vars>>
    BY <1>3 DEF Ask
  <2>2. Append(asked[c], cmd) \in Seq(Commandset)
        /\ Len(Append(asked[c], cmd)) = Len(asked[c]) + 1 /\ Len(asked[c]) \in Nat
    BY <1>0, AppendProperties DEF PipelineType
  <2>3. PipelineType'
    BY <1>0, <2>1, <2>2 DEF PipelineType, conn_vars
  <2>4. ReplyType' /\ ConnType' /\ StoreType' /\ QueueType' /\ LoopType'
    BY <1>0, <2>1 DEF ReplyType, ConnType, StoreType, QueueType, LoopType,
       conn_vars, loop_vars, fate_vars
  <2>. QED
    BY <2>3, <2>4 DEF Types
<1>4. CASE Broken \/ UNCHANGED vars
  BY <1>0, <1>4 DEF Types, Broken, vars, PipelineType, ReplyType, ConnType, StoreType,
     QueueType, LoopType, conn_vars, loop_vars, fate_vars
<1>. QED
  BY <1>1, <1>2, <1>3, <1>4 DEF Next

----------------------------------------------------------------------------
(* What a step does to the loop *)

LEMMA NextLoop == Types /\ MessagesOk /\ LoopOk /\ [Next]_vars => LoopOk'
<1>. SUFFICES ASSUME Types, MessagesOk, LoopOk, [Next]_vars PROVE LoopOk'
  OBVIOUS
<1>0. /\ PipelineType /\ ConnType /\ LoopType /\ QueueType
      /\ NoConn \notin Conns /\ Owner \in [Conns -> Reactors]
  BY NothingAssumption, OwnerAssumption DEF Types
<1>1. ASSUME UNCHANGED <<at, open, phase, events, hangup>>,
             \A c \in Conns : gone[c] => gone'[c]
      PROVE  LoopOk'
  BY <1>1 DEF LoopOk
<1>2. ASSUME NEW r \in Reactors, Step(r) PROVE LoopOk'
  <2>1. CASE Flush(r) \/ FlushKilled(r) \/ PollDangling(r) \/ PollRequest(r) \/ CallbackDone(r)
    <3>1. /\ UNCHANGED <<at, open, events, hangup, gone>>
          /\ phase' = phase \/ phase' = [phase EXCEPT ![r] = "poll"]
      BY <2>1 DEF Flush, FlushKilled, PollDangling, PollRequest, CallbackDone, conn_vars,
         loop_vars, fate_vars
    <3>. QED
      BY <1>0, <3>1 DEF LoopOk, LoopType
  <2>2. CASE PollResponse(r)
    <3>1. /\ at' = at \/ at' = [at EXCEPT ![r] = First(r).conn]
             \/ at' = [at EXCEPT ![r] = NoConn]
          /\ phase[r] = "poll" /\ open[First(r).conn]
          /\ cb_queue[r] # << >> /\ First(r).kind = "resp"
          /\ UNCHANGED <<open, phase, events, hangup, gone>>
      BY <2>2 DEF PollResponse, Free, fate_vars
    <3>2. Owner[First(r).conn] = r
      BY <1>0, <3>1, FirstFacts DEF MessageOk
    <3>. QED
      BY <1>0, <3>1, <3>2 DEF LoopOk, LoopType
  <2>3. CASE EpollWait(r)
    <3>1. /\ events' = [events EXCEPT ![r] =
               {c \in Mine(r) : read[c] < Len(asked[c]) \/ gone[c]}]
          /\ hangup' = [c \in Conns |-> IF c \in Mine(r) THEN gone[c] ELSE hangup[c]]
          /\ phase' = [phase EXCEPT ![r] = "events"]
          /\ at[r] = NoConn
          /\ UNCHANGED <<at, open, gone>>
      BY <2>3 DEF EpollWait, Free, conn_vars
    <3>2. \A c \in events'[r] : Owner[c] = r /\ open[c]
      BY <1>0, <3>1 DEF LoopType, Mine
    <3>. QED
      BY <1>0, <3>1, <3>2 DEF LoopOk, LoopType, ConnType
  <2>4. CASE EventsDone(r)
    <3>1. /\ phase' = [phase EXCEPT ![r] = "flush"]
          /\ UNCHANGED <<at, open, events, hangup, gone>>
      BY <2>4 DEF EventsDone, conn_vars, fate_vars
    <3>. QED
      BY <1>0, <3>1 DEF LoopOk, LoopType
  <2>5. ASSUME NEW c \in Conns, EpollIn(r, c) \/ EpollEnd(r, c) PROVE LoopOk'
    <3>1. /\ events' = [events EXCEPT ![r] = events[r] \ {c}]
          /\ \/ at' = at /\ \E b \in BOOLEAN : open' = [open EXCEPT ![c] = b /\ open[c]]
             \/ at' = [at EXCEPT ![r] = c] /\ open' = open
          /\ at[r] = NoConn /\ phase[r] = "events" /\ c \in events[r]
          /\ UNCHANGED <<phase, hangup, gone>>
      <4>1. c \in events[r] => open[c]
        BY DEF LoopOk
      <4>2. CASE EpollIn(r, c)
        <5>1. (~ended[c] /\ ~hangup[c]) \in BOOLEAN
          OBVIOUS
        <5>. QED
          BY <1>0, <4>1, <4>2, <5>1 DEF EpollIn, Free, fate_vars, ConnType
      <4>3. CASE EpollEnd(r, c)
        BY <1>0, <4>1, <4>3 DEF EpollEnd, Free, fate_vars, ConnType
      <4>. QED
        BY <2>5, <4>2, <4>3
    <3>2. Owner[c] = r /\ open[c]
      BY <3>1 DEF LoopOk
    <3>3. \A s \in Reactors : s # r => at[s] # c /\ c \notin events[s]
      BY <1>0, <3>2 DEF LoopOk
    <3>. QED
      BY <1>0, <3>1, <3>2, <3>3 DEF LoopOk, LoopType, ConnType
  <2>6. ASSUME NEW c \in Conns, HandleStep(r, c) PROVE LoopOk'
    <3>1. CASE FlushMap(r, c)
      BY <1>1, <3>1 DEF FlushMap, conn_vars, fate_vars
    <3>2. CASE ~FlushMap(r, c)
      <4>1. PICK end \in BOOLEAN : Called(r, c) /\ Proceed(r, c, end)
        BY <1>0, <2>6, <3>2 DEF HandleStep, HandlePing, HandleQuit, HandleSelect, HandleInline,
           HandleDispatch, FlushDone, ConnType
      <4>. DEFINE last == end \/ read[c] - handled[c] - 1 = 0
      <4>2. PICK b \in BOOLEAN :
              /\ open' = [open EXCEPT ![c] = b]
              /\ b => open[c]
              /\ ~b => ~open[c] \/ (last /\ phase[r] = "events")
        <5>. DEFINE b == open[c] /\ ~(last /\ phase[r] = "events" /\ (end \/ hangup[c]))
        <5>1. open' = [open EXCEPT ![c] = b]
          BY <4>1 DEF Proceed
        <5>2. b \in BOOLEAN
          OBVIOUS
        <5>3. (b => open[c]) /\ (~b => ~open[c] \/ (last /\ phase[r] = "events"))
          OBVIOUS
        <5>. HIDE DEF b
        <5>. QED
          BY <5>1, <5>2, <5>3
      <4>3. /\ at' = [at EXCEPT ![r] = IF last THEN NoConn ELSE c]
            /\ UNCHANGED <<phase, events, hangup, gone>>
        BY <4>1 DEF Proceed, fate_vars
      <4>. HIDE DEF last
      <4>4. at[r] = c /\ Owner[c] = r /\ open[c] /\ (phase[r] = "events" => c \notin events[r])
        BY <1>0, <4>1 DEF Called, LoopOk
      <4>5. \A s \in Reactors : s # r => at[s] # c /\ c \notin events[s]
        BY <1>0, <4>4 DEF LoopOk
      <4>6. \A s \in Reactors : at'[s] # NoConn =>
              /\ Owner[at'[s]] = s /\ open'[at'[s]]
              /\ phase'[s] = "events" => at'[s] \notin events'[s]
        BY <1>0, <4>2, <4>3, <4>4, <4>5 DEF LoopOk, LoopType, ConnType
      <4>7. \A s \in Reactors : \A k \in events'[s] : Owner[k] = s /\ open'[k]
        <5>. SUFFICES ASSUME NEW s \in Reactors, NEW k \in events[s]
                      PROVE  Owner[k] = s /\ open'[k]
          BY <4>3
        <5>1. Owner[k] = s /\ open[k] /\ k \in Conns
          BY <1>0 DEF LoopOk, LoopType
        <5>. QED
          BY <1>0, <4>2, <4>4, <4>5, <5>1 DEF ConnType
      <4>. QED
        BY <4>3, <4>6, <4>7 DEF LoopOk
    <3>. QED
      BY <3>1, <3>2
  <2>. QED
    BY <1>2, <2>1, <2>2, <2>3, <2>4, <2>5, <2>6 DEF Step
<1>3. ASSUME NEW c \in Conns, Leave(c) PROVE LoopOk'
  <2>1. \A k \in Conns : gone[k] => gone'[k]
    BY <1>0, <1>3 DEF Leave, ConnType
  <2>. QED
    BY <1>1, <1>3, <2>1 DEF Leave, conn_vars, loop_vars
<1>4. ASSUME NEW c \in Conns, NEW cmd \in Commandset, Ask(c, cmd) PROVE LoopOk'
  BY <1>1, <1>4 DEF Ask, conn_vars, loop_vars, fate_vars
<1>5. CASE Broken \/ UNCHANGED vars
  BY <1>1, <1>5 DEF Broken, vars, conn_vars, loop_vars, fate_vars
<1>. QED
  BY <1>2, <1>3, <1>4, <1>5 DEF Next

----------------------------------------------------------------------------
(* What a step does to the replies given *)

LEMMA GivenFacts ==
  ASSUME ReplyType, NEW c \in Conns
  PROVE  /\ Given(c) \in Seq(ReplyMessage) /\ Len(Given(c)) \in Nat
         /\ Len(seen[c]) \in Nat /\ Len(send[c]) \in Nat
         /\ Len(Given(c)) = Len(seen[c]) + Len(send[c])
         /\ \A i \in 1 .. Len(Given(c)) : Given(c)[i].id \in Nat
<1>. HIDE DEF ReplyMessage
<1>1. seen[c] \in Seq(ReplyMessage) /\ send[c] \in Seq(ReplyMessage)
  BY DEF ReplyType
<1>2. Given(c) \in Seq(ReplyMessage)
  BY <1>1, ConcatProperties DEF Given
<1>3. Len(Given(c)) \in Nat /\ Len(seen[c]) \in Nat /\ Len(send[c]) \in Nat
  BY <1>1, <1>2
<1>4. \A i \in 1 .. Len(Given(c)) : Given(c)[i] \in ReplyMessage
  BY <1>2
<1>5. Len(Given(c)) = Len(seen[c]) + Len(send[c])
  BY <1>1, ConcatProperties DEF Given
<1>6. \A i \in 1 .. Len(Given(c)) : Given(c)[i].id \in Nat
  BY <1>4 DEF ReplyMessage
<1>. QED
  BY <1>2, <1>3, <1>5, <1>6

(* To append to a sequence is to append to what ends with it. *)
LEMMA AppendConcat ==
  ASSUME NEW S, NEW s \in Seq(S), NEW t \in Seq(S), NEW x \in S
  PROVE  /\ Len(s \o Append(t, x)) = Len(s \o t) + 1
         /\ \A i \in 1 .. Len(s \o t) : (s \o Append(t, x))[i] = (s \o t)[i]
         /\ (s \o Append(t, x))[Len(s \o t) + 1] = x
<1>. DEFINE u == Append(t, x)
<1>1. /\ u \in Seq(S) /\ Len(u) = Len(t) + 1
      /\ \A i \in 1 .. Len(t) : u[i] = t[i]
      /\ u[Len(t) + 1] = x
  BY AppendProperties
<1>2. Len(s) \in Nat /\ Len(t) \in Nat
  OBVIOUS
<1>. HIDE DEF u
<1>3. /\ Len(s \o t) = Len(s) + Len(t)
      /\ \A i \in 1 .. Len(s) + Len(t) :
           (s \o t)[i] = IF i <= Len(s) THEN s[i] ELSE t[i - Len(s)]
  BY ConcatProperties
<1>4. /\ Len(s \o u) = Len(s) + Len(u)
      /\ \A i \in 1 .. Len(s) + Len(u) :
           (s \o u)[i] = IF i <= Len(s) THEN s[i] ELSE u[i - Len(s)]
  BY <1>1, ConcatProperties
<1>5. Len(s \o u) = Len(s \o t) + 1
  BY <1>1, <1>2, <1>3, <1>4
<1>6. ASSUME NEW i \in 1 .. Len(s \o t) PROVE (s \o u)[i] = (s \o t)[i]
  <2>1. i \in 1 .. Len(s) + Len(t) /\ i \in 1 .. Len(s) + Len(u)
    BY <1>1, <1>2, <1>3
  <2>2. CASE i <= Len(s)
    BY <1>3, <1>4, <2>1, <2>2
  <2>3. CASE ~(i <= Len(s))
    <3>1. i - Len(s) \in 1 .. Len(t)
      BY <1>2, <2>1, <2>3
    <3>2. u[i - Len(s)] = t[i - Len(s)]
      BY <1>1, <3>1
    <3>. QED
      BY <1>3, <1>4, <2>1, <2>3, <3>2
  <2>. QED
    BY <2>2, <2>3
<1>7. (s \o u)[Len(s \o t) + 1] = x
  <2>1. /\ Len(s \o t) + 1 \in 1 .. Len(s) + Len(u)
        /\ ~(Len(s \o t) + 1 <= Len(s))
        /\ (Len(s \o t) + 1) - Len(s) = Len(t) + 1
    BY <1>1, <1>2, <1>3
  <2>. QED
    BY <1>1, <1>4, <2>1
<1>. QED
  BY <1>5, <1>6, <1>7 DEF u

(* A sequence begins what it is the first part of. *)
LEMMA PrefixFacts ==
  ASSUME NEW S, NEW s \in Seq(S), NEW t \in Seq(S)
  PROVE  /\ Len(s) <= Len(s \o t)
         /\ \A i \in 1 .. Len(s) : (s \o t)[i] = s[i]
<1>1. Len(s) \in Nat /\ Len(t) \in Nat
  OBVIOUS
<1>2. /\ Len(s \o t) = Len(s) + Len(t)
      /\ \A i \in 1 .. Len(s) + Len(t) :
           (s \o t)[i] = IF i <= Len(s) THEN s[i] ELSE t[i - Len(s)]
  BY ConcatProperties
<1>3. \A i \in 1 .. Len(s) : i \in 1 .. Len(s) + Len(t) /\ i <= Len(s)
  BY <1>1
<1>. QED
  BY <1>1, <1>2, <1>3

(* A reply to c. *)
LEMMA GivenReply ==
  ASSUME ReplyType, NEW c \in Conns, NEW m \in ReplyMessage,
         send' = [send EXCEPT ![c] = Append(send[c], m)], UNCHANGED seen
  PROVE  /\ Len(Given(c)') = Len(Given(c)) + 1
         /\ \A i \in 1 .. Len(Given(c)) : Given(c)'[i] = Given(c)[i]
         /\ Given(c)'[Len(Given(c)) + 1] = m
         /\ \A k \in Conns \ {c} : Given(k)' = Given(k)
<1>. HIDE DEF ReplyMessage
<1>1. seen[c] \in Seq(ReplyMessage) /\ send[c] \in Seq(ReplyMessage)
  BY DEF ReplyType
<1>2. Given(c)' = seen[c] \o Append(send[c], m)
  BY DEF Given, ReplyType
<1>3. \A k \in Conns \ {c} : Given(k)' = Given(k)
  BY DEF Given, ReplyType
<1>4. Given(c) = seen[c] \o send[c]
  BY DEF Given
<1>. DEFINE s == seen[c]
            t == send[c]
<1>5. /\ Len(s \o Append(t, m)) = Len(s \o t) + 1
      /\ \A i \in 1 .. Len(s \o t) : (s \o Append(t, m))[i] = (s \o t)[i]
      /\ (s \o Append(t, m))[Len(s \o t) + 1] = m
  <2>. HIDE DEF s, t
  <2>1. s \in Seq(ReplyMessage) /\ t \in Seq(ReplyMessage)
    BY <1>1 DEF s, t
  <2>. QED
    BY <2>1, AppendConcat
<1>. QED
  BY <1>2, <1>3, <1>4, <1>5

(* Writing send_buf out changes nothing, unless the client has gone. *)
LEMMA GivenFlush ==
  ASSUME ReplyType, NEW r \in Reactors, NEW c \in Conns, Flush(r)
  PROVE  /\ Len(Given(c)') \in Nat
         /\ Len(Given(c)') <= Len(Given(c))
         /\ ~gone[c] => Len(Given(c)') = Len(Given(c))
         /\ \A i \in 1 .. Len(Given(c)') : Given(c)'[i] = Given(c)[i]
<1>. HIDE DEF ReplyMessage
<1>1. seen[c] \in Seq(ReplyMessage) /\ send[c] \in Seq(ReplyMessage)
      /\ Len(seen[c]) \in Nat /\ Len(send[c]) \in Nat
  BY DEF ReplyType
<1>2. /\ seen'[c] = IF c \in Mine(r) /\ ~gone[c] THEN seen[c] \o send[c] ELSE seen[c]
      /\ send'[c] = IF c \in Mine(r) THEN << >> ELSE send[c]
  BY DEF Flush
<1>3. /\ Given(c) \in Seq(ReplyMessage) /\ Len(Given(c)) \in Nat
      /\ Len(seen[c]) <= Len(Given(c))
      /\ \A i \in 1 .. Len(seen[c]) : Given(c)[i] = seen[c][i]
  <2>1. Given(c) \in Seq(ReplyMessage) /\ Len(Given(c)) \in Nat
    BY GivenFacts
  <2>. QED
    BY <1>1, PrefixFacts, <2>1 DEF Given
<1>4. ASSUME NEW g, g = Given(c) PROVE
        /\ Len(g) \in Nat /\ Len(g) <= Len(Given(c)) /\ Len(g) = Len(Given(c))
        /\ \A i \in 1 .. Len(g) : g[i] = Given(c)[i]
  BY <1>3, <1>4
<1>5. CASE c \in Mine(r) /\ ~gone[c]
  <2>1. Given(c)' = Given(c) \o << >>
    BY <1>2, <1>5 DEF Given
  <2>2. Given(c) \o << >> = Given(c)
    BY <1>3, ConcatEmptySeq
  <2>. QED
    BY <1>4, <2>1, <2>2
<1>6. CASE c \in Mine(r) /\ gone[c]
  <2>1. Given(c)' = seen[c] \o << >>
    BY <1>2, <1>6 DEF Given
  <2>2. seen[c] \o << >> = seen[c]
    BY <1>1, ConcatEmptySeq
  <2>3. Given(c)' = seen[c]
    BY <2>1, <2>2
  <2>. QED
    BY <1>1, <1>3, <1>6, <2>3
<1>7. CASE c \notin Mine(r)
  <2>1. Given(c)' = Given(c)
    BY <1>2, <1>7 DEF Given
  <2>. QED
    BY <1>4, <2>1
<1>. QED
  BY <1>5, <1>6, <1>7

----------------------------------------------------------------------------
(* What a step does to the queues *)

(* Of the queue q the first d messages, none or one, are removed, and a   *)
(* messages, none or one, added: the result is p.                          *)
Follows(q, p, d, a) ==
  /\ Len(q) \in Nat /\ Len(p) \in Nat /\ d <= Len(q)
  /\ Len(p) = Len(q) - d + a
  /\ \A i \in 1 .. Len(q) - d : p[i] = q[i + d]

(* From the queue of each s drop[s] messages are removed, and m is added   *)
(* to that of h, if h is a reactor at all.                                 *)
QueueChange(drop, h, m) ==
  /\ drop \in [Reactors -> {0, 1}]
  /\ \A s \in Reactors :
       Follows(cb_queue[s], cb_queue'[s], drop[s], IF s = h THEN 1 ELSE 0)
  /\ h \in Reactors => cb_queue'[h][Len(cb_queue'[h])] = m

Keep == [s \in Reactors |-> 0]
Take(r) == [s \in Reactors |-> IF s = r THEN 1 ELSE 0]

(* Every message after the change is m, or was there before ... *)
LEMMA QueueBefore ==
  ASSUME NEW drop, NEW h, NEW m, QueueChange(drop, h, m),
         NEW s \in Reactors, NEW i \in 1 .. Len(cb_queue'[s])
  PROVE  \/ s = h /\ i = Len(cb_queue'[s]) /\ cb_queue'[s][i] = m
         \/ /\ i + drop[s] \in 1 .. Len(cb_queue[s])
            /\ i \in 1 .. Len(cb_queue[s]) - drop[s]
            /\ cb_queue'[s][i] = cb_queue[s][i + drop[s]]
            /\ s = h => i < Len(cb_queue'[s])
<1>1. /\ Len(cb_queue[s]) \in Nat /\ Len(cb_queue'[s]) \in Nat /\ drop[s] \in {0, 1}
      /\ Len(cb_queue'[s]) = Len(cb_queue[s]) - drop[s] + (IF s = h THEN 1 ELSE 0)
  BY DEF QueueChange, Follows
<1>2. CASE i \in 1 .. Len(cb_queue[s]) - drop[s]
  BY <1>1, <1>2 DEF QueueChange, Follows
<1>3. CASE i \notin 1 .. Len(cb_queue[s]) - drop[s]
  <2>1. s = h /\ i = Len(cb_queue'[s])
    BY <1>1, <1>3
  <2>. QED
    BY <2>1 DEF QueueChange, Follows
<1>. QED
  BY <1>2, <1>3

(* ... and every message not removed is still there, and m. *)
LEMMA QueueAfter ==
  ASSUME NEW drop, NEW h, NEW m, QueueChange(drop, h, m), NEW s \in Reactors
  PROVE  /\ \A j \in 1 + drop[s] .. Len(cb_queue[s]) :
              /\ j - drop[s] \in 1 .. Len(cb_queue'[s])
              /\ cb_queue'[s][j - drop[s]] = cb_queue[s][j]
         /\ s = h => /\ Len(cb_queue'[s]) \in 1 .. Len(cb_queue'[s])
                     /\ cb_queue'[s][Len(cb_queue'[s])] = m
<1>1. /\ Len(cb_queue[s]) \in Nat /\ Len(cb_queue'[s]) \in Nat /\ drop[s] \in {0, 1}
      /\ drop[s] <= Len(cb_queue[s])
      /\ Len(cb_queue'[s]) = Len(cb_queue[s]) - drop[s] + (IF s = h THEN 1 ELSE 0)
  BY DEF QueueChange, Follows
<1>2. ASSUME NEW j \in 1 + drop[s] .. Len(cb_queue[s])
      PROVE  /\ j - drop[s] \in 1 .. Len(cb_queue'[s])
             /\ cb_queue'[s][j - drop[s]] = cb_queue[s][j]
  <2>1. /\ j - drop[s] \in 1 .. Len(cb_queue[s]) - drop[s] /\ (j - drop[s]) + drop[s] = j
        /\ j - drop[s] \in 1 .. Len(cb_queue'[s])
    BY <1>1
  <2>. QED
    BY <2>1 DEF QueueChange, Follows
<1>3. s = h => /\ Len(cb_queue'[s]) \in 1 .. Len(cb_queue'[s])
               /\ cb_queue'[s][Len(cb_queue'[s])] = m
  BY <1>1 DEF QueueChange
<1>. QED
  BY <1>2, <1>3

LEMMA FollowFacts ==
  ASSUME NEW S, NEW q \in Seq(S), NEW m \in S
  PROVE  /\ Follows(q, q, 0, 0)
         /\ Follows(q, Append(q, m), 0, 1) /\ Append(q, m)[Len(Append(q, m))] = m
         /\ q # << >> => Follows(q, Tail(q), 1, 0)
<1>1. Len(q) \in Nat
  OBVIOUS
<1>2. Follows(q, q, 0, 0)
  BY <1>1 DEF Follows
<1>3. /\ Len(Append(q, m)) = Len(q) + 1
      /\ \A i \in 1 .. Len(q) : Append(q, m)[i] = q[i]
      /\ Append(q, m)[Len(q) + 1] = m
  BY AppendProperties
<1>4. Follows(q, Append(q, m), 0, 1)
  BY <1>1, <1>3 DEF Follows
<1>5. ASSUME q # << >> PROVE Follows(q, Tail(q), 1, 0)
  <2>1. Len(q) \in Nat \ {0}
    BY <1>5
  <2>2. Len(Tail(q)) = Len(q) - 1 /\ \A i \in 1 .. Len(Tail(q)) : Tail(q)[i] = q[i + 1]
    BY <1>5, HeadTailProperties
  <2>. QED
    BY <2>1, <2>2 DEF Follows
<1>. QED
  BY <1>2, <1>3, <1>4, <1>5

LEMMA QueueSame ==
  ASSUME QueueType, UNCHANGED cb_queue
  PROVE  QueueChange(Keep, -1, 0)
<1>. DEFINE M == Request \cup Response \cup {0}
<1>. HIDE DEF M
<1>1. -1 \notin Reactors /\ 0 \in M
  BY BoundAssumption DEF Reactors, M
<1>2. \A s \in Reactors : cb_queue[s] \in Seq(M)
  BY DEF QueueType, M
<1>3. \A s \in Reactors : Follows(cb_queue[s], cb_queue[s], 0, 0)
  BY <1>1, <1>2, FollowFacts
<1>. QED
  BY <1>1, <1>3 DEF QueueChange, Keep

LEMMA QueueAppend ==
  ASSUME QueueType, NEW h \in Reactors, NEW m \in Request \cup Response,
         cb_queue' = [cb_queue EXCEPT ![h] = Append(cb_queue[h], m)]
  PROVE  QueueChange(Keep, h, m)
<1>. DEFINE M == Request \cup Response
<1>1. \A s \in Reactors : cb_queue[s] \in Seq(M)
  BY DEF QueueType
<1>2. m \in M
  OBVIOUS
<1>. HIDE DEF M
<1>3. \A s \in Reactors : Follows(cb_queue[s], cb_queue[s], 0, 0)
  BY <1>1, <1>2, FollowFacts
<1>4. /\ Follows(cb_queue[h], Append(cb_queue[h], m), 0, 1)
      /\ Append(cb_queue[h], m)[Len(Append(cb_queue[h], m))] = m
  BY <1>1, <1>2, FollowFacts
<1>5. \A s \in Reactors :
        cb_queue'[s] = IF s = h THEN Append(cb_queue[h], m) ELSE cb_queue[s]
  BY DEF QueueType
<1>. QED
  BY <1>3, <1>4, <1>5 DEF QueueChange, Keep

LEMMA QueueTail ==
  ASSUME QueueType, NEW r \in Reactors, cb_queue[r] # << >>,
         cb_queue' = [cb_queue EXCEPT ![r] = Tail(cb_queue[r])]
  PROVE  QueueChange(Take(r), -1, 0)
<1>. DEFINE M == Request \cup Response \cup {0}
<1>. HIDE DEF M
<1>1. -1 \notin Reactors /\ 0 \in M
  BY BoundAssumption DEF Reactors, M
<1>2. \A s \in Reactors : cb_queue[s] \in Seq(M)
  BY DEF QueueType, M
<1>3. \A s \in Reactors : Follows(cb_queue[s], cb_queue[s], 0, 0)
  BY <1>1, <1>2, FollowFacts
<1>4. Follows(cb_queue[r], Tail(cb_queue[r]), 1, 0)
  BY <1>1, <1>2, FollowFacts
<1>5. \A s \in Reactors :
        cb_queue'[s] = IF s = r THEN Tail(cb_queue[r]) ELSE cb_queue[s]
  BY DEF QueueType
<1>. QED
  BY <1>1, <1>3, <1>4, <1>5 DEF QueueChange, Take

LEMMA QueueMove ==
  ASSUME QueueType, NEW r \in Reactors, NEW o \in Reactors, o # r, cb_queue[r] # << >>,
         NEW m \in Request \cup Response,
         cb_queue' = [cb_queue EXCEPT ![r] = Tail(@), ![o] = Append(@, m)]
  PROVE  QueueChange(Take(r), o, m)
<1>. DEFINE M == Request \cup Response
<1>1. \A s \in Reactors : cb_queue[s] \in Seq(M)
  BY DEF QueueType
<1>2. m \in M
  OBVIOUS
<1>. HIDE DEF M
<1>3. \A s \in Reactors : Follows(cb_queue[s], cb_queue[s], 0, 0)
  BY <1>1, <1>2, FollowFacts
<1>4. Follows(cb_queue[r], Tail(cb_queue[r]), 1, 0)
  BY <1>1, <1>2, FollowFacts
<1>5. /\ Follows(cb_queue[o], Append(cb_queue[o], m), 0, 1)
      /\ Append(cb_queue[o], m)[Len(Append(cb_queue[o], m))] = m
  BY <1>1, <1>2, FollowFacts
<1>6. \A s \in Reactors :
        cb_queue'[s] = IF s = r THEN Tail(cb_queue[r])
                       ELSE IF s = o THEN Append(cb_queue[o], m) ELSE cb_queue[s]
  BY DEF QueueType
<1>. QED
  BY <1>3, <1>4, <1>5, <1>6 DEF QueueChange, Take

----------------------------------------------------------------------------
(* The order along the line *)

LEMMA AskedSame ==
  ASSUME UNCHANGED asked
  PROVE  /\ \A c, id1, id2 : Precedes(c, id1, id2)' <=> Precedes(c, id1, id2)
         /\ \A c, id : QuitAt(c, id)' <=> QuitAt(c, id)
         /\ \A c, id : Executor(c, id)' = Executor(c, id)
BY DEF Precedes, QuitAt, Executor

LEMMA MessagesNext ==
  ASSUME UNCHANGED asked,
         \A s \in Reactors : \A i \in 1 .. Len(cb_queue'[s]) :
           \A x : x = cb_queue'[s][i] => MessageOk(s, x)'
  PROVE  MessagesOk'
<1>1. \A s \in Reactors : \A i \in 1 .. Len(cb_queue'[s]) :
        \A x : x = cb_queue'[s][i] =>
          /\ x.id \in 1 .. handled'[x.conn]
          /\ Executor(x.conn, x.id) # Owner[x.conn]
          /\ x.kind = "req" => Executor(x.conn, x.id) = s
          /\ x.kind = "resp" => Owner[x.conn] = s
  BY AskedSame DEF MessageOk
<1>2. ASSUME NEW s \in Reactors, NEW i \in 1 .. Len(cb_queue'[s])
      PROVE  MessageOk(s, cb_queue[s][i])'
  <2>1. PICK x : x = cb_queue'[s][i]
    OBVIOUS
  <2>2. /\ x.id \in 1 .. handled'[x.conn]
        /\ Executor(x.conn, x.id)' # Owner[x.conn]
        /\ x.kind = "req" => Executor(x.conn, x.id)' = s
        /\ x.kind = "resp" => Owner[x.conn] = s
    BY <1>1, <2>1, AskedSame
  <2>. QED
    BY <2>1, <2>2 DEF MessageOk, Executor
<1>. QED
  BY <1>2 DEF MessagesOk

LEMMA KeepMessages ==
  ASSUME QueueType, MessagesOk, NEW drop, NEW h, NEW m, QueueChange(drop, h, m),
         UNCHANGED asked, PipelineType, PipelineType',
         \A c \in Conns : handled[c] <= handled'[c],
         h \in Reactors => MessageOk(h, m)'
  PROVE  MessagesOk'
<1>. SUFFICES ASSUME NEW s \in Reactors, NEW i \in 1 .. Len(cb_queue'[s]),
                     NEW x, x = cb_queue'[s][i]
              PROVE  MessageOk(s, x)'
  BY MessagesNext
<1>1. CASE s = h /\ x = m
  BY <1>1
<1>2. CASE i + drop[s] \in 1 .. Len(cb_queue[s]) /\ x = cb_queue[s][i + drop[s]]
  <2>1. MessageOk(s, x)
    BY <1>2 DEF MessagesOk
  <2>2. x.conn \in Conns
    BY <1>2 DEF QueueType, Request, Response
  <2>3. /\ handled[x.conn] \in Nat /\ handled'[x.conn] \in Nat
        /\ handled[x.conn] <= handled'[x.conn]
    BY <2>2 DEF PipelineType
  <2>4. x.id \in 1 .. handled'[x.conn]
    BY <2>1, <2>3 DEF MessageOk
  <2>5. Executor(x.conn, x.id)' = Executor(x.conn, x.id)
    BY AskedSame
  <2>. QED
    BY <2>1, <2>4, <2>5 DEF MessageOk
<1>. QED
  BY <1>1, <1>2, QueueBefore

(* Where the message m may be added: behind those of its line. *)
Fits(drop, h, m) ==
  h \in Reactors =>
    \A s \in Reactors : \A j \in 1 + drop[s] .. Len(cb_queue[s]) :
      cb_queue[s][j].conn = m.conn =>
        /\ s = h \/ (cb_queue[s][j].kind = "resp" /\ m.kind = "req")
             => Precedes(m.conn, cb_queue[s][j].id, m.id)
        /\ cb_queue[s][j].kind = "req" /\ m.kind = "resp"
             => Precedes(m.conn, m.id, cb_queue[s][j].id)

LEMMA KeepQueueOrder ==
  ASSUME QueueOrder, CrossOrder, NEW drop, NEW h, NEW m, QueueChange(drop, h, m),
         UNCHANGED asked, Fits(drop, h, m)
  PROVE  QueueOrder' /\ CrossOrder'
<1>0. \A s \in Reactors : drop[s] \in {0, 1}
  BY DEF QueueChange
<1>1. QueueOrder'
  <2>. SUFFICES ASSUME NEW s \in Reactors, NEW i \in 1 .. Len(cb_queue'[s]),
                       NEW j \in 1 .. Len(cb_queue'[s]), i < j,
                       NEW x, x = cb_queue'[s][i], NEW y, y = cb_queue'[s][j],
                       x.conn = y.conn
                PROVE  Precedes(x.conn, x.id, y.id)'
    BY DEF QueueOrder, Precedes, Executor
  <2>. SUFFICES Precedes(x.conn, x.id, y.id)
    BY AskedSame
  <2>1. /\ i + drop[s] \in 1 .. Len(cb_queue[s]) /\ x = cb_queue[s][i + drop[s]]
        /\ i + drop[s] \in 1 + drop[s] .. Len(cb_queue[s])
    <3>1. ~(s = h /\ i = Len(cb_queue'[s]))
      OBVIOUS
    <3>2. i + drop[s] \in 1 .. Len(cb_queue[s]) /\ x = cb_queue[s][i + drop[s]]
      BY <3>1, QueueBefore
    <3>. QED
      BY <1>0, <3>2
  <2>2. CASE s = h /\ y = m
    BY <2>1, <2>2 DEF Fits
  <2>3. CASE j + drop[s] \in 1 .. Len(cb_queue[s]) /\ y = cb_queue[s][j + drop[s]]
    <3>1. i + drop[s] < j + drop[s]
      BY <1>0
    <3>. QED
      BY <2>1, <2>3, <3>1 DEF QueueOrder
  <2>. QED
    BY <2>2, <2>3, QueueBefore
<1>2. CrossOrder'
  <2>. SUFFICES ASSUME NEW s \in Reactors, NEW t \in Reactors,
                       NEW i \in 1 .. Len(cb_queue'[s]), NEW j \in 1 .. Len(cb_queue'[t]),
                       NEW x, x = cb_queue'[s][i], NEW y, y = cb_queue'[t][j],
                       x.kind = "resp", y.kind = "req", x.conn = y.conn
                PROVE  Precedes(x.conn, x.id, y.id)
    <3>. SUFFICES ASSUME NEW s \in Reactors, NEW t \in Reactors,
                         NEW i \in 1 .. Len(cb_queue'[s]), NEW j \in 1 .. Len(cb_queue'[t]),
                         (/\ cb_queue[s][i].kind = "resp" /\ cb_queue[t][j].kind = "req"
                          /\ cb_queue[s][i].conn = cb_queue[t][j].conn)'
                  PROVE  Precedes(cb_queue[s][i].conn, cb_queue[s][i].id, cb_queue[t][j].id)'
      BY DEF CrossOrder
    <3>1. Precedes(cb_queue'[s][i].conn, cb_queue'[s][i].id, cb_queue'[t][j].id)
      OBVIOUS
    <3>. QED
      BY <3>1 DEF Precedes, Executor
  <2>1. \/ s = h /\ x = m
        \/ /\ i + drop[s] \in 1 .. Len(cb_queue[s]) /\ x = cb_queue[s][i + drop[s]]
           /\ i + drop[s] \in 1 + drop[s] .. Len(cb_queue[s])
    <3>1. \/ s = h /\ x = m
          \/ i + drop[s] \in 1 .. Len(cb_queue[s]) /\ x = cb_queue[s][i + drop[s]]
      BY QueueBefore
    <3>. QED
      BY <1>0, <3>1
  <2>2. \/ t = h /\ y = m
        \/ /\ j + drop[t] \in 1 .. Len(cb_queue[t]) /\ y = cb_queue[t][j + drop[t]]
           /\ j + drop[t] \in 1 + drop[t] .. Len(cb_queue[t])
    <3>1. \/ t = h /\ y = m
          \/ j + drop[t] \in 1 .. Len(cb_queue[t]) /\ y = cb_queue[t][j + drop[t]]
      BY QueueBefore
    <3>. QED
      BY <1>0, <3>1
  <2>3. CASE s = h /\ x = m
    BY <2>2, <2>3 DEF Fits
  <2>4. CASE t = h /\ y = m
    BY <2>1, <2>4 DEF Fits
  <2>5. CASE /\ i + drop[s] \in 1 .. Len(cb_queue[s]) /\ x = cb_queue[s][i + drop[s]]
             /\ j + drop[t] \in 1 .. Len(cb_queue[t]) /\ y = cb_queue[t][j + drop[t]]
    BY <2>5 DEF CrossOrder
  <2>. QED
    BY <2>1, <2>2, <2>3, <2>4, <2>5
<1>. QED
  BY <1>1, <1>2

(* The reply x is given to c, if c is a connection at all; what a client   *)
(* that has gone would have had may be dropped.                            *)
GivenChange(c, x) ==
  \A k \in Conns :
    /\ Len(Given(k)) \in Nat /\ Len(Given(k)') \in Nat
    /\ \A i \in 1 .. Len(Given(k)') :
         \/ i \in 1 .. Len(Given(k)) /\ Given(k)'[i] = Given(k)[i]
         \/ k = c /\ i = Len(Given(k)) + 1 /\ Given(k)'[i] = x
    /\ ~gone[k] => /\ Len(Given(k)') = Len(Given(k)) + (IF k = c THEN 1 ELSE 0)
                   /\ \A i \in 1 .. Len(Given(k)) : Given(k)'[i] = Given(k)[i]
    /\ k = c => /\ Len(Given(k)') = Len(Given(k)) + 1
                /\ Given(k)'[Len(Given(k)) + 1] = x

LEMMA GivenNone ==
  ASSUME ReplyType, UNCHANGED <<seen, send>>
  PROVE  GivenChange(NoConn, 0)
<1>1. \A k \in Conns : Given(k)' = Given(k) /\ Len(Given(k)) \in Nat /\ k # NoConn
  BY NothingAssumption, GivenFacts DEF Given
<1>. QED
  BY <1>1 DEF GivenChange

LEMMA GivenWritten ==
  ASSUME ReplyType, NEW r \in Reactors, Flush(r)
  PROVE  GivenChange(NoConn, 0)
<1>. SUFFICES ASSUME NEW k \in Conns
              PROVE  /\ Len(Given(k)) \in Nat /\ Len(Given(k)') \in Nat /\ k # NoConn
                     /\ \A i \in 1 .. Len(Given(k)') :
                          i \in 1 .. Len(Given(k)) /\ Given(k)'[i] = Given(k)[i]
                     /\ ~gone[k] => /\ Len(Given(k)') = Len(Given(k))
                                    /\ \A i \in 1 .. Len(Given(k)) : Given(k)'[i] = Given(k)[i]
  BY DEF GivenChange
<1>1. Len(Given(k)) \in Nat /\ k # NoConn
  BY NothingAssumption, GivenFacts
<1>2. /\ Len(Given(k)') \in Nat /\ Len(Given(k)') <= Len(Given(k))
      /\ ~gone[k] => Len(Given(k)') = Len(Given(k))
      /\ \A i \in 1 .. Len(Given(k)') : Given(k)'[i] = Given(k)[i]
  BY GivenFlush
<1>. QED
  BY <1>1, <1>2

LEMMA GivenAdded ==
  ASSUME ReplyType, NEW c \in Conns, NEW m \in ReplyMessage,
         send' = [send EXCEPT ![c] = Append(send[c], m)], UNCHANGED seen
  PROVE  GivenChange(c, m)
<1>. HIDE DEF ReplyMessage
<1>1. \A k \in Conns : Len(Given(k)) \in Nat
  BY GivenFacts
<1>2. /\ Len(Given(c)') = Len(Given(c)) + 1
      /\ \A i \in 1 .. Len(Given(c)) : Given(c)'[i] = Given(c)[i]
      /\ Given(c)'[Len(Given(c)) + 1] = m
      /\ \A k \in Conns \ {c} : Given(k)' = Given(k)
  BY GivenReply
<1>. SUFFICES ASSUME NEW k \in Conns
              PROVE  /\ Len(Given(k)) \in Nat /\ Len(Given(k)') \in Nat
                     /\ \A i \in 1 .. Len(Given(k)) : Given(k)'[i] = Given(k)[i]
                     /\ Len(Given(k)') = Len(Given(k)) + (IF k = c THEN 1 ELSE 0)
                     /\ k = c => Given(k)'[Len(Given(k)) + 1] = m
  BY DEF GivenChange
<1>3. CASE k = c
  BY <1>1, <1>2, <1>3
<1>4. CASE k # c
  BY <1>1, <1>2, <1>4
<1>. QED
  BY <1>3, <1>4

(* The replies come before the messages that are left, ... *)
LEMMA KeepRepliesFirst ==
  ASSUME RepliesFirst, NEW drop, NEW h, NEW m, QueueChange(drop, h, m),
         NEW c, NEW x, GivenChange(c, x), UNCHANGED asked,
         h \in Reactors => c \notin Conns,
         h \in Reactors =>
           \A i \in 1 .. Len(Given(m.conn)) : Precedes(m.conn, Given(m.conn)[i].id, m.id),
         c \in Conns =>
           \A s \in Reactors : \A j \in 1 + drop[s] .. Len(cb_queue[s]) :
             cb_queue[s][j].conn = c => Precedes(c, x.id, cb_queue[s][j].id)
  PROVE  RepliesFirst'
<1>. SUFFICES ASSUME NEW k \in Conns, NEW i \in 1 .. Len(Given(k)'),
                     NEW s \in Reactors, NEW j \in 1 .. Len(cb_queue'[s]),
                     NEW y, y = cb_queue'[s][j], y.conn = k,
                     NEW g, g = Given(k)'[i]
              PROVE  Precedes(k, g.id, y.id)
  <2>. SUFFICES ASSUME NEW k \in Conns, NEW i \in 1 .. Len(Given(k)'),
                       NEW s \in Reactors, NEW j \in 1 .. Len(cb_queue'[s]),
                       (cb_queue[s][j].conn = k)'
                PROVE  Precedes(k, Given(k)[i].id, cb_queue[s][j].id)'
    BY DEF RepliesFirst
  <2>1. Precedes(k, Given(k)'[i].id, cb_queue'[s][j].id)
    OBVIOUS
  <2>. QED
    BY <2>1 DEF Precedes, Executor
<1>0. \A t \in Reactors : drop[t] \in {0, 1}
  BY DEF QueueChange
<1>1. \/ i \in 1 .. Len(Given(k)) /\ g = Given(k)[i]
      \/ k = c /\ g = x
  BY DEF GivenChange
<1>2. \/ s = h /\ y = m
      \/ /\ j + drop[s] \in 1 .. Len(cb_queue[s]) /\ y = cb_queue[s][j + drop[s]]
         /\ j + drop[s] \in 1 + drop[s] .. Len(cb_queue[s])
  <2>1. \/ s = h /\ y = m
        \/ j + drop[s] \in 1 .. Len(cb_queue[s]) /\ y = cb_queue[s][j + drop[s]]
    BY QueueBefore
  <2>. QED
    BY <1>0, <2>1
<1>3. CASE k = c /\ g = x
  BY <1>2, <1>3
<1>4. CASE i \in 1 .. Len(Given(k)) /\ g = Given(k)[i]
  BY <1>2, <1>4 DEF RepliesFirst
<1>. QED
  BY <1>1, <1>3, <1>4

(* ... and in their order. *)
LEMMA KeepReplyOrder ==
  ASSUME ReplyOrder, NEW c, NEW x, GivenChange(c, x), UNCHANGED asked,
         c \in Conns =>
           \A i \in 1 .. Len(Given(c)) :
             \/ Precedes(c, Given(c)[i].id, x.id)
             \/ Given(c)[i].id = x.id /\ QuitAt(c, x.id)
  PROVE  ReplyOrder'
<1>. SUFFICES ASSUME NEW k \in Conns, NEW i \in 1 .. Len(Given(k)'),
                     NEW j \in 1 .. Len(Given(k)'), i < j,
                     NEW g, g = Given(k)'[i], NEW y, y = Given(k)'[j]
              PROVE  Precedes(k, g.id, y.id) \/ (g.id = y.id /\ QuitAt(k, g.id))
  <2>. SUFFICES ASSUME NEW k \in Conns, NEW i \in 1 .. Len(Given(k)'),
                       NEW j \in 1 .. Len(Given(k)'), i < j
                PROVE  \/ Precedes(k, Given(k)[i].id, Given(k)[j].id)'
                       \/ (Given(k)[i].id = Given(k)[j].id /\ QuitAt(k, Given(k)[i].id))'
    BY DEF ReplyOrder
  <2>1. \/ Precedes(k, Given(k)'[i].id, Given(k)'[j].id)
        \/ Given(k)'[i].id = Given(k)'[j].id /\ QuitAt(k, Given(k)'[i].id)
    OBVIOUS
  <2>. QED
    BY <2>1 DEF Precedes, Executor, QuitAt
<1>0. Len(Given(k)) \in Nat
  BY DEF GivenChange
<1>1. \/ i \in 1 .. Len(Given(k)) /\ g = Given(k)[i]
      \/ k = c /\ i = Len(Given(k)) + 1
  BY DEF GivenChange
<1>2. \/ j \in 1 .. Len(Given(k)) /\ y = Given(k)[j]
      \/ k = c /\ j = Len(Given(k)) + 1 /\ y = x
  BY DEF GivenChange
<1>3. Len(Given(k)') <= Len(Given(k)) + 1
  BY DEF GivenChange
<1>4. i \in 1 .. Len(Given(k)) /\ g = Given(k)[i]
  <2>1. Len(Given(k)') \in Nat
    BY DEF GivenChange
  <2>2. i # Len(Given(k)) + 1
    BY <1>0, <1>3, <2>1
  <2>. QED
    BY <1>1, <2>2
<1>5. CASE j \in 1 .. Len(Given(k)) /\ y = Given(k)[j]
  BY <1>4, <1>5 DEF ReplyOrder
<1>6. CASE k = c /\ y = x
  BY <1>4, <1>6
<1>. QED
  BY <1>2, <1>5, <1>6

(* The pipeline of k stands at a QUIT that is answered. *)
Stuck(k) == handled[k] < read[k] /\ ended[k] /\ QuitAt(k, NextId(k))

LEMMA KeepReplies ==
  ASSUME RepliesOk, PipelineType, PipelineType', NEW c, NEW x, GivenChange(c, x),
         UNCHANGED asked, \A k \in Conns : handled[k] <= handled'[k],
         \A k \in Conns : Stuck(k) => Stuck(k)' /\ handled'[k] = handled[k],
         c \in Conns => \/ x.id \in 1 .. handled'[c]
                        \/ x.id = NextId(c)' /\ Stuck(c)'
  PROVE  RepliesOk'
<1>. SUFFICES ASSUME NEW k \in Conns, NEW i \in 1 .. Len(Given(k)'),
                     NEW g, g = Given(k)'[i]
              PROVE  g.id \in 1 .. handled'[k] \/ (g.id = NextId(k)' /\ Stuck(k)')
  <2>. SUFFICES ASSUME NEW k \in Conns, NEW i \in 1 .. Len(Given(k)')
                PROVE  \/ Given(k)'[i].id \in 1 .. handled'[k]
                       \/ Given(k)'[i].id = NextId(k)' /\ Stuck(k)'
    BY DEF RepliesOk, Stuck
  <2>. QED
    OBVIOUS
<1>1. CASE k = c /\ g = x
  BY <1>1
<1>2. CASE i \in 1 .. Len(Given(k)) /\ g = Given(k)[i]
  <2>1. g.id \in 1 .. handled[k] \/ (g.id = NextId(k) /\ Stuck(k))
    BY <1>2 DEF RepliesOk, Stuck
  <2>2. CASE g.id \in 1 .. handled[k]
    <3>1. handled[k] \in Nat /\ handled'[k] \in Nat /\ handled[k] <= handled'[k]
      BY DEF PipelineType
    <3>. QED
      BY <2>2, <3>1
  <2>3. CASE g.id = NextId(k) /\ Stuck(k)
    BY <2>3 DEF NextId
  <2>. QED
    BY <2>1, <2>2, <2>3
<1>. QED
  BY <1>1, <1>2 DEF GivenChange

LEMMA KeepNoneLost ==
  ASSUME NoneLost, NEW drop, NEW h, NEW m, QueueChange(drop, h, m),
         NEW c, NEW x, GivenChange(c, x), \A k \in Conns : gone[k] => gone'[k],
         \A k \in Conns : \A id \in 1 .. handled'[k] :
           \/ id \in 1 .. handled[k]
           \/ k = c /\ id = x.id
           \/ h \in Reactors /\ m.conn = k /\ m.id = id,
         \A s \in Reactors : drop[s] = 1 =>
           \/ cb_queue[s][1].conn = c /\ cb_queue[s][1].id = x.id
           \/ h \in Reactors /\ cb_queue[s][1].conn = m.conn /\ cb_queue[s][1].id = m.id
  PROVE  NoneLost'
<1>. SUFFICES ASSUME NEW k \in Conns, ~gone'[k], NEW id \in 1 .. handled'[k]
              PROVE  AnsweredOrOnItsWay(k, id)'
  BY DEF NoneLost
<1>0. ~gone[k] /\ Len(Given(k)) \in Nat
  BY DEF GivenChange
<1>1. ASSUME NEW i \in 1 .. Len(Given(k)'), Given(k)'[i].id = id
      PROVE  AnsweredOrOnItsWay(k, id)'
  BY <1>1 DEF AnsweredOrOnItsWay
<1>2. ASSUME NEW s \in Reactors, NEW j \in 1 .. Len(cb_queue'[s]),
             cb_queue'[s][j].conn = k, cb_queue'[s][j].id = id
      PROVE  AnsweredOrOnItsWay(k, id)'
  BY <1>2 DEF AnsweredOrOnItsWay
<1>3. CASE k = c /\ id = x.id
  <2>1. Len(Given(k)) + 1 \in 1 .. Len(Given(k)') /\ Given(k)'[Len(Given(k)) + 1] = x
    BY <1>0, <1>3 DEF GivenChange
  <2>. QED
    BY <1>1, <1>3, <2>1
<1>4. CASE h \in Reactors /\ m.conn = k /\ m.id = id
  <2>1. Len(cb_queue'[h]) \in 1 .. Len(cb_queue'[h]) /\ cb_queue'[h][Len(cb_queue'[h])] = m
    BY <1>4, QueueAfter
  <2>. QED
    BY <1>2, <1>4, <2>1
<1>5. CASE id \in 1 .. handled[k]
  <2>1. AnsweredOrOnItsWay(k, id)
    BY <1>0, <1>5 DEF NoneLost
  <2>2. ASSUME NEW i \in 1 .. Len(Given(k)), Given(k)[i].id = id
        PROVE  AnsweredOrOnItsWay(k, id)'
    <3>1. i \in 1 .. Len(Given(k)') /\ Given(k)'[i] = Given(k)[i]
      BY <1>0 DEF GivenChange
    <3>. QED
      BY <1>1, <2>2, <3>1
  <2>3. ASSUME NEW s \in Reactors, NEW j \in 1 .. Len(cb_queue[s]),
               cb_queue[s][j].conn = k, cb_queue[s][j].id = id
        PROVE  AnsweredOrOnItsWay(k, id)'
    <3>0. drop[s] \in {0, 1} /\ Len(cb_queue[s]) \in Nat
      BY DEF QueueChange, Follows
    <3>1. CASE j \in 1 + drop[s] .. Len(cb_queue[s])
      <4>1. j - drop[s] \in 1 .. Len(cb_queue'[s]) /\ cb_queue'[s][j - drop[s]] = cb_queue[s][j]
        BY <3>1, QueueAfter
      <4>. QED
        BY <1>2, <2>3, <4>1
    <3>2. CASE j \notin 1 + drop[s] .. Len(cb_queue[s])
      <4>1. j = 1 /\ drop[s] = 1
        BY <3>0, <3>2
      <4>. QED
        BY <1>3, <1>4, <2>3, <4>1
    <3>. QED
      BY <3>1, <3>2
  <2>. QED
    BY <2>1, <2>2, <2>3 DEF AnsweredOrOnItsWay
<1>. QED
  BY <1>3, <1>4, <1>5

LEMMA MessageFacts ==
  ASSUME Types, MessagesOk, NEW s \in Reactors, NEW i \in 1 .. Len(cb_queue[s]),
         NEW y, y = cb_queue[s][i]
  PROVE  /\ y \in Request \cup Response /\ y.conn \in Conns /\ y.id \in Nat
         /\ y.kind \in {"req", "resp"} /\ MessageOk(s, y)
         /\ handled[y.conn] \in Nat /\ y.id <= handled[y.conn]
<1>1. y \in Request \cup Response
  BY DEF Types, QueueType
<1>2. y.conn \in Conns /\ y.id \in Nat /\ y.kind \in {"req", "resp"}
  BY <1>1 DEF Request, Response
<1>3. MessageOk(s, y)
  BY DEF MessagesOk
<1>4. handled[y.conn] \in Nat
  BY <1>2 DEF Types, PipelineType
<1>. QED
  BY <1>1, <1>2, <1>3, <1>4 DEF MessageOk

----------------------------------------------------------------------------
(* The steps that give no reply and move no message *)

LEMMA QuietLine ==
  ASSUME Types, Types', Line, UNCHANGED <<asked, cb_queue>>, GivenChange(NoConn, 0),
         \A k \in Conns :
           /\ handled'[k] = handled[k] /\ read[k] <= read'[k]
           /\ gone[k] => gone'[k]
           /\ open'[k] => open[k]
           /\ ended[k] => ended'[k]
           /\ ended'[k] => ended[k] \/ (gone[k] /\ ~open'[k])
  PROVE  Line'
<1>0. /\ PipelineType /\ PipelineType' /\ QueueType /\ ConnType
      /\ NoConn \notin Conns /\ -1 \notin Reactors
  BY NothingAssumption, BoundAssumption DEF Types, Reactors
<1>1. /\ MessagesOk /\ EndedOk /\ RepliesOk /\ NoneLost /\ OneAtATime
      /\ QueueOrder /\ CrossOrder /\ RepliesFirst /\ ReplyOrder
  BY DEF Line, Order
<1>2. QueueChange(Keep, -1, 0) /\ Fits(Keep, -1, 0)
  BY <1>0, QueueSame DEF Fits
<1>3. \A k \in Conns : handled[k] \in Nat /\ read[k] \in Nat /\ read'[k] \in Nat
  BY <1>0 DEF PipelineType
<1>4. \A k \in Conns : handled[k] <= handled'[k] /\ NextId(k)' = NextId(k)
  BY <1>3 DEF NextId
<1>5. \A k \in Conns : handled[k] < read[k] => handled'[k] < read'[k]
  BY <1>3
<1>6. \A k, id : QuitAt(k, id)' <=> QuitAt(k, id)
  BY AskedSame
<1>7. MessagesOk'
  BY <1>0, <1>1, <1>2, <1>4, KeepMessages
<1>8. QueueOrder' /\ CrossOrder'
  BY <1>1, <1>2, KeepQueueOrder
<1>9. RepliesFirst'
  BY <1>0, <1>1, <1>2, KeepRepliesFirst
<1>10. ReplyOrder'
  BY <1>0, <1>1, KeepReplyOrder
<1>11. RepliesOk'
  <2>1. \A k \in Conns : Stuck(k) => Stuck(k)' /\ handled'[k] = handled[k]
    <3>. SUFFICES ASSUME NEW k \in Conns, Stuck(k) PROVE Stuck(k)'
      OBVIOUS
    <3>1. handled'[k] < read'[k] /\ ended'[k]
      BY <1>5 DEF Stuck
    <3>2. QuitAt(k, handled[k] + 1)'
      BY <1>6 DEF Stuck, NextId
    <3>3. handled'[k] + 1 = handled[k] + 1
      OBVIOUS
    <3>. QED
      BY <3>1, <3>2, <3>3 DEF Stuck, NextId, QuitAt
  <2>. QED
    BY <1>0, <1>1, <1>4, <2>1, KeepReplies
<1>12. NoneLost'
  <2>1. \A s \in Reactors : Keep[s] # 1
    BY DEF Keep
  <2>2. \A k \in Conns : \A id \in 1 .. handled'[k] : id \in 1 .. handled[k]
    OBVIOUS
  <2>. QED
    BY <1>1, <1>2, <2>1, <2>2, KeepNoneLost
<1>13. EndedOk'
  <2>. SUFFICES ASSUME NEW k \in Conns
                PROVE  /\ ended'[k] /\ open'[k] => handled'[k] < read'[k] /\ QuitAt(k, NextId(k))'
                       /\ \A id \in 1 .. handled'[k] : ~QuitAt(k, id)'
    BY DEF EndedOk
  <2>1. ended[k] /\ open[k] => handled[k] < read[k] /\ QuitAt(k, NextId(k))
    BY <1>1 DEF EndedOk
  <2>2. QuitAt(k, NextId(k)) => QuitAt(k, NextId(k))'
    BY <1>4 DEF QuitAt
  <2>3. \A id \in 1 .. handled'[k] : ~QuitAt(k, id)'
    BY <1>1, <1>6 DEF EndedOk
  <2>. QED
    BY <1>5, <2>1, <2>2, <2>3
<1>14. OneAtATime'
  <2>1. \A k \in Conns : ~gone'[k] => ~gone[k] /\ (ended'[k] <=> ended[k])
                                    /\ Len(Given(k)') = Len(Given(k))
    BY <1>0 DEF GivenChange
  <2>. QED
    BY <1>1, <1>4, <2>1 DEF OneAtATime
<1>. QED
  BY <1>7, <1>8, <1>9, <1>10, <1>11, <1>12, <1>13, <1>14 DEF Line, Order

----------------------------------------------------------------------------
(* The steps of the pipeline *)

LEMMA PipelineStep ==
  ASSUME Types, Types', LoopOk, EndedOk, NEW r \in Reactors, NEW c \in Conns,
         NEW end \in BOOLEAN, Called(r, c), Proceed(r, c, end),
         end <=> QuitAt(c, NextId(c))
  PROVE  /\ UNCHANGED <<asked, gone, seen>> /\ Owner[c] = r
         /\ EndedOk'
         /\ \A k \in Conns \ {c} : handled'[k] = handled[k] /\ ended'[k] = ended[k]
         /\ handled'[c] = (IF end THEN handled[c] ELSE NextId(c))
         /\ ended'[c] = end /\ (ended[c] => end)
         /\ \A k \in Conns : handled[k] <= handled'[k]
         /\ \A k \in Conns : Stuck(k) => Stuck(k)' /\ handled'[k] = handled[k]
<1>0. /\ PipelineType /\ PipelineType' /\ ConnType /\ ConnType' /\ NoConn \notin Conns
  BY NothingAssumption DEF Types
<1>1. /\ handled' = [handled EXCEPT ![c] = IF end THEN @ ELSE @ + 1]
      /\ ended' = [ended EXCEPT ![c] = end]
      /\ UNCHANGED <<asked, seen, read, gone>>
      /\ \A k \in Conns : open'[k] => open[k]
  BY <1>0 DEF Proceed, ConnType, fate_vars
<1>2. at[r] = c /\ Owner[c] = r /\ open[c] /\ handled[c] < read[c]
  BY <1>0 DEF Called, LoopOk
<1>3. \A k \in Conns : handled[k] \in Nat /\ read[k] \in Nat
  BY <1>0 DEF PipelineType
<1>4. /\ \A k \in Conns \ {c} : handled'[k] = handled[k] /\ ended'[k] = ended[k]
      /\ handled'[c] = (IF end THEN handled[c] ELSE handled[c] + 1)
      /\ ended'[c] = end
  BY <1>0, <1>1 DEF PipelineType, ConnType
<1>5. \A k, id : QuitAt(k, id)' <=> QuitAt(k, id)
  BY <1>1, AskedSame
<1>6. ended[c] => end
  BY <1>2 DEF EndedOk
<1>7. \A k \in Conns : handled[k] <= handled'[k]
  BY <1>3, <1>4
<1>8. \A k \in Conns : handled'[k] = handled[k] => (QuitAt(k, NextId(k))' <=> QuitAt(k, NextId(k)))
  BY <1>1 DEF QuitAt, NextId
<1>9. \A k \in Conns : Stuck(k) => Stuck(k)' /\ handled'[k] = handled[k]
  <2>. SUFFICES ASSUME NEW k \in Conns, Stuck(k)
                PROVE  Stuck(k)' /\ handled'[k] = handled[k]
    OBVIOUS
  <2>1. handled'[k] = handled[k] /\ ended'[k]
    BY <1>4 DEF Stuck
  <2>. QED
    BY <1>1, <1>8, <2>1 DEF Stuck
<1>10. EndedOk'
  <2>. SUFFICES ASSUME NEW k \in Conns
                PROVE  /\ ended'[k] /\ open'[k] => handled'[k] < read'[k] /\ QuitAt(k, NextId(k))'
                       /\ \A id \in 1 .. handled'[k] : ~QuitAt(k, id)'
    BY DEF EndedOk
  <2>1. /\ ended[k] /\ open[k] => handled[k] < read[k] /\ QuitAt(k, NextId(k))
        /\ \A id \in 1 .. handled[k] : ~QuitAt(k, id)
    BY DEF EndedOk
  <2>2. CASE k # c \/ end
    <3>1. handled'[k] = handled[k]
      BY <1>4, <2>2
    <3>2. ended'[k] /\ open'[k] => handled[k] < read[k] /\ QuitAt(k, NextId(k))
      BY <1>1, <1>2, <1>4, <2>1, <2>2
    <3>. QED
      BY <1>1, <1>5, <1>8, <2>1, <3>1, <3>2
  <2>3. CASE k = c /\ ~end
    <3>1. \A id \in 1 .. handled'[k] : id \in 1 .. handled[k] \/ id = NextId(c)
      BY <1>3, <1>4, <2>3 DEF NextId
    <3>. QED
      BY <1>4, <1>5, <2>1, <2>3, <3>1
  <2>. QED
    BY <2>2, <2>3
<1>. QED
  BY <1>1, <1>2, <1>4, <1>6, <1>7, <1>9, <1>10 DEF NextId

(* While a command is in the pipeline of a client that waits for each      *)
(* reply, nothing else is on its way.                                      *)
LEMMA PipelineAlone ==
  ASSUME Types, OneAtATime, NEW r \in Reactors, NEW c \in Conns, Called(r, c),
         Window <= 1, ~gone[c]
  PROVE  \A s \in Reactors : \A j \in 1 .. Len(cb_queue[s]) : cb_queue[s][j].conn # c
<1>1. handled[c] < Len(asked[c]) /\ handled[c] \in Nat /\ Len(asked[c]) \in Nat
  BY CalledFacts DEF Types
<1>. QED
  BY <1>1 DEF OneAtATime

(* A command is answered in the pipeline. *)
LEMMA ReplyLine ==
  ASSUME Types, Types', LoopOk, Line, NEW r \in Reactors, NEW c \in Conns,
         NEW end \in BOOLEAN, Called(r, c), Proceed(r, c, end),
         end <=> QuitAt(c, NextId(c)), Executor(c, NextId(c)) = r,
         NEW v \in ReplyValues, Reply(c, v), UNCHANGED cb_queue
  PROVE  Line'
<1>0. /\ PipelineType /\ PipelineType' /\ QueueType /\ ReplyType
      /\ NoConn \notin Conns /\ -1 \notin Reactors
  BY NothingAssumption, BoundAssumption DEF Types, Reactors
<1>1. /\ MessagesOk /\ EndedOk /\ RepliesOk /\ NoneLost /\ OneAtATime
      /\ QueueOrder /\ CrossOrder /\ RepliesFirst /\ ReplyOrder
  BY DEF Line, Order
<1>2. QueueChange(Keep, -1, 0) /\ Fits(Keep, -1, 0)
  BY <1>0, QueueSame DEF Fits
<1>3. /\ UNCHANGED <<asked, gone, seen>> /\ Owner[c] = r
      /\ EndedOk'
      /\ \A k \in Conns \ {c} : handled'[k] = handled[k] /\ ended'[k] = ended[k]
      /\ handled'[c] = (IF end THEN handled[c] ELSE NextId(c))
      /\ ended'[c] = end /\ (ended[c] => end)
      /\ \A k \in Conns : handled[k] <= handled'[k]
      /\ \A k \in Conns : Stuck(k) => Stuck(k)' /\ handled'[k] = handled[k]
  BY <1>1, PipelineStep
<1>4. PICK x : x = [id |-> NextId(c), value |-> v]
  OBVIOUS
<1>5. /\ handled[c] \in Nat /\ NextId(c) \in Nat /\ NextId(c) = handled[c] + 1
      /\ handled[c] < read[c] /\ read[c] <= Len(asked[c]) /\ Len(asked[c]) \in Nat
      /\ read[c] \in Nat
  BY <1>0, CalledFacts DEF NextId
<1>6. x \in ReplyMessage /\ x.id = NextId(c)
  BY <1>4, <1>5 DEF ReplyMessage
<1>7. GivenChange(c, x)
  <2>. HIDE DEF ReplyMessage
  <2>1. send' = [send EXCEPT ![c] = Append(send[c], x)]
    BY <1>4 DEF Reply
  <2>. QED
    BY <1>0, <1>3, <1>6, <2>1, GivenAdded
<1>8. MessagesOk'
  BY <1>0, <1>1, <1>2, <1>3, KeepMessages
<1>9. QueueOrder' /\ CrossOrder'
  BY <1>1, <1>2, <1>3, KeepQueueOrder
<1>10. RepliesFirst'
  <2>1. \A s \in Reactors : \A j \in 1 + Keep[s] .. Len(cb_queue[s]) :
          cb_queue[s][j].conn = c => Precedes(c, x.id, cb_queue[s][j].id)
    <3>1. \A s \in Reactors : 1 + Keep[s] = 1
      BY DEF Keep
    <3>2. \A s \in Reactors : \A j \in 1 .. Len(cb_queue[s]) :
            cb_queue[s][j].conn = c => Executor(c, cb_queue[s][j].id) # r
      BY <1>1, <1>3, MessageFacts DEF MessageOk
    <3>. QED
      BY <1>6, <3>1, <3>2 DEF Precedes
  <2>. QED
    BY <1>0, <1>1, <1>2, <1>3, <1>7, <2>1, KeepRepliesFirst
<1>11. ReplyOrder'
  <2>1. \A i \in 1 .. Len(Given(c)) :
          \/ Precedes(c, Given(c)[i].id, x.id)
          \/ Given(c)[i].id = x.id /\ QuitAt(c, x.id)
    BY <1>1, <1>5, <1>6 DEF RepliesOk, Precedes
  <2>. QED
    BY <1>1, <1>3, <1>7, <2>1, KeepReplyOrder
<1>12. RepliesOk'
  <2>1. ASSUME end PROVE x.id = NextId(c)' /\ Stuck(c)'
    <3>1. handled'[c] = handled[c] /\ read'[c] = read[c]
      BY <1>3, <2>1 DEF Proceed
    <3>2. ended'[c] /\ handled'[c] < read'[c] /\ NextId(c)' = NextId(c)
      BY <1>3, <1>5, <2>1, <3>1 DEF NextId
    <3>3. QuitAt(c, NextId(c))'
      BY <1>3, <2>1, <3>2 DEF QuitAt
    <3>. QED
      BY <1>6, <3>2, <3>3 DEF Stuck
  <2>2. ASSUME ~end PROVE x.id \in 1 .. handled'[c]
    BY <1>3, <1>5, <1>6, <2>2
  <2>. QED
    BY <1>0, <1>1, <1>3, <1>7, <2>1, <2>2, KeepReplies
<1>13. NoneLost'
  <2>1. \A s \in Reactors : Keep[s] # 1
    BY DEF Keep
  <2>2. \A k \in Conns : \A id \in 1 .. handled'[k] :
          id \in 1 .. handled[k] \/ (k = c /\ id = x.id)
    <3>1. \A id \in 1 .. handled'[c] : id \in 1 .. handled[c] \/ id = x.id
      BY <1>3, <1>5, <1>6
    <3>. QED
      BY <1>3, <3>1
  <2>3. \A k \in Conns : gone[k] => gone'[k]
    BY <1>3
  <2>. QED
    BY <1>1, <1>2, <1>7, <2>1, <2>2, <2>3, KeepNoneLost
<1>14. OneAtATime'
  <2>. SUFFICES ASSUME NEW k \in Conns, Window <= 1, ~gone[k]
                PROVE  /\ ~ended'[k] => Len(asked[k]) <= NextId(k)' /\ Len(Given(k)') <= handled'[k]
                       /\ \A s \in Reactors : \A j \in 1 .. Len(cb_queue[s]) :
                            cb_queue[s][j].conn = k =>
                              /\ ~ended'[k] /\ handled'[k] = Len(asked[k])
                              /\ cb_queue[s][j].id = handled'[k]
                              /\ Len(Given(k)') < Len(asked[k])
    BY <1>3 DEF OneAtATime
  <2>1. /\ ~ended[k] => Len(asked[k]) <= NextId(k) /\ Len(Given(k)) <= handled[k]
        /\ \A s \in Reactors : \A j \in 1 .. Len(cb_queue[s]) :
             cb_queue[s][j].conn = k =>
               /\ ~ended[k] /\ handled[k] = Len(asked[k]) /\ cb_queue[s][j].id = handled[k]
               /\ Len(Given(k)) < Len(asked[k])
    BY <1>1 DEF OneAtATime
  <2>2. CASE k # c
    <3>1. handled'[k] = handled[k] /\ ended'[k] = ended[k] /\ NextId(k)' = NextId(k)
          /\ Len(Given(k)') = Len(Given(k))
      BY <1>3, <1>7, <2>2 DEF NextId, GivenChange
    <3>. QED
      BY <2>1, <3>1
  <2>3. CASE k = c
    <3>1. \A s \in Reactors : \A j \in 1 .. Len(cb_queue[s]) : cb_queue[s][j].conn # c
      BY <1>1, <2>3, PipelineAlone
    <3>2. ASSUME ~end PROVE Len(asked[c]) <= NextId(c)' /\ Len(Given(c)') <= handled'[c]
      <4>1. ~ended[c]
        BY <1>3, <3>2
      <4>2. Len(Given(c)) <= handled[c] /\ Len(asked[c]) <= NextId(c)
        BY <2>1, <2>3, <4>1
      <4>3. Len(Given(c)') = Len(Given(c)) + 1 /\ Len(Given(c)) \in Nat
        BY <1>7 DEF GivenChange
      <4>4. handled'[c] = handled[c] + 1 /\ NextId(c)' = handled'[c] + 1
        BY <1>3, <1>5, <3>2 DEF NextId
      <4>. QED
        BY <1>5, <4>2, <4>3, <4>4
    <3>. QED
      BY <1>3, <2>3, <3>1, <3>2
  <2>. QED
    BY <2>2, <2>3
<1>. QED
  BY <1>3, <1>8, <1>9, <1>10, <1>11, <1>12, <1>13, <1>14 DEF Line, Order

(* A command goes to the shard of its key. *)
LEMMA DispatchLine ==
  ASSUME Types, Types', LoopOk, Line, NEW r \in Reactors, NEW c \in Conns,
         HandleDispatch(r, c)
  PROVE  Line'
<1>0. /\ PipelineType /\ PipelineType' /\ QueueType /\ ReplyType /\ ConnType
      /\ NoConn \notin Conns
  BY NothingAssumption DEF Types
<1>1. /\ MessagesOk /\ EndedOk /\ RepliesOk /\ NoneLost /\ OneAtATime
      /\ QueueOrder /\ CrossOrder /\ RepliesFirst /\ ReplyOrder
  BY DEF Line, Order
<1>2. /\ Called(r, c) /\ Proceed(r, c, ended[c])
      /\ Current(c).op \in KeyedOps /\ Home[Current(c).key] # r
      /\ UNCHANGED <<send, db, store, to_clear>>
  BY DEF HandleDispatch
<1>3. PICK h \in Reactors : h = Home[Current(c).key]
  BY <1>0, <1>2, CalledFacts, CommandAssumption, HomeAssumption
<1>4. PICK m : m = [kind |-> "req", conn |-> c, id |-> NextId(c)]
  OBVIOUS
<1>5. /\ handled[c] \in Nat /\ NextId(c) \in Nat /\ NextId(c) = handled[c] + 1
      /\ handled[c] < read[c] /\ read[c] <= Len(asked[c]) /\ Len(asked[c]) \in Nat
      /\ read[c] \in Nat
  BY <1>0, <1>2, CalledFacts DEF NextId
<1>6. m \in Request \cup Response /\ m.conn = c /\ m.id = NextId(c) /\ m.kind = "req"
  BY <1>4, <1>5 DEF Request
<1>7. QueueChange(Keep, h, m)
  <2>1. cb_queue' = [cb_queue EXCEPT ![h] = Append(cb_queue[h], m)]
    BY <1>3, <1>4 DEF HandleDispatch
  <2>. QED
    BY <1>0, <1>6, <2>1, QueueAppend
<1>8. ~QuitAt(c, NextId(c))
  BY <1>2 DEF QuitAt, Current, KeyedOps
<1>9. ended[c] = FALSE
  <2>1. open[c]
    BY <1>0, <1>2 DEF LoopOk, Called
  <2>2. ~ended[c]
    BY <1>1, <1>8, <2>1 DEF EndedOk
  <2>. QED
    BY <1>0, <2>2 DEF ConnType
<1>10. /\ UNCHANGED <<asked, gone, seen>> /\ Owner[c] = r
       /\ EndedOk'
       /\ \A k \in Conns \ {c} : handled'[k] = handled[k] /\ ended'[k] = ended[k]
       /\ handled'[c] = NextId(c)
       /\ ended'[c] = FALSE
       /\ \A k \in Conns : handled[k] <= handled'[k]
       /\ \A k \in Conns : Stuck(k) => Stuck(k)' /\ handled'[k] = handled[k]
  <2>1. Proceed(r, c, FALSE) /\ (FALSE <=> QuitAt(c, NextId(c))) /\ FALSE \in BOOLEAN
    BY <1>2, <1>8, <1>9
  <2>. QED
    BY <1>1, <1>2, <2>1, PipelineStep
<1>11. GivenChange(NoConn, 0)
  BY <1>0, <1>2, <1>10, GivenNone
<1>12. Executor(c, NextId(c)) = h
  BY <1>2, <1>3 DEF Executor, Current
<1>13. MessagesOk'
  <2>2. Executor(m.conn, m.id)' = Executor(m.conn, m.id)
    BY <1>10, AskedSame
  <2>3. m.id \in 1 .. handled'[c]
    BY <1>5, <1>6, <1>10
  <2>4. MessageOk(h, m)'
    BY <1>2, <1>3, <1>6, <1>10, <1>12, <2>2, <2>3 DEF MessageOk
  <2>. QED
    BY <1>0, <1>1, <1>7, <1>10, <2>4, KeepMessages
<1>14. QueueOrder' /\ CrossOrder'
  <2>1. \A s \in Reactors : \A j \in 1 + Keep[s] .. Len(cb_queue[s]) :
          cb_queue[s][j].conn = c => Precedes(c, cb_queue[s][j].id, NextId(c))
    <3>. SUFFICES ASSUME NEW s \in Reactors, NEW j \in 1 .. Len(cb_queue[s]),
                         cb_queue[s][j].conn = c
                  PROVE  Precedes(c, cb_queue[s][j].id, NextId(c))
      BY DEF Keep
    <3>1. cb_queue[s][j].id <= handled[c] /\ cb_queue[s][j].id \in Nat
      BY <1>1, MessageFacts
    <3>. QED
      BY <1>5, <3>1 DEF Precedes
  <2>2. Fits(Keep, h, m)
    BY <1>6, <2>1 DEF Fits
  <2>. QED
    BY <1>1, <1>7, <1>10, <2>2, KeepQueueOrder
<1>15. RepliesFirst'
  <2>1. \A i \in 1 .. Len(Given(c)) : Precedes(c, Given(c)[i].id, NextId(c))
    BY <1>1, <1>5, <1>8 DEF RepliesOk, Precedes
  <2>. QED
    BY <1>0, <1>1, <1>6, <1>7, <1>10, <1>11, <2>1, KeepRepliesFirst
<1>16. ReplyOrder'
  BY <1>0, <1>1, <1>10, <1>11, KeepReplyOrder
<1>17. RepliesOk'
  BY <1>0, <1>1, <1>10, <1>11, KeepReplies
<1>18. NoneLost'
  <2>1. \A s \in Reactors : Keep[s] # 1
    BY DEF Keep
  <2>2. \A k \in Conns : \A id \in 1 .. handled'[k] :
          id \in 1 .. handled[k] \/ (m.conn = k /\ m.id = id)
    <3>1. \A id \in 1 .. handled'[c] : id \in 1 .. handled[c] \/ id = NextId(c)
      BY <1>5, <1>10
    <3>. QED
      BY <1>6, <1>10, <3>1
  <2>3. \A k \in Conns : gone[k] => gone'[k]
    BY <1>10
  <2>. QED
    BY <1>1, <1>7, <1>11, <2>1, <2>2, <2>3, KeepNoneLost
<1>19. OneAtATime'
  <2>. SUFFICES ASSUME NEW k \in Conns, Window <= 1, ~gone[k]
                PROVE  /\ ~ended'[k] => Len(asked[k]) <= NextId(k)' /\ Len(Given(k)') <= handled'[k]
                       /\ \A s \in Reactors : \A j \in 1 .. Len(cb_queue'[s]) :
                            cb_queue'[s][j].conn = k =>
                              /\ ~ended'[k] /\ handled'[k] = Len(asked[k])
                              /\ cb_queue'[s][j].id = handled'[k]
                              /\ Len(Given(k)') < Len(asked[k])
    BY <1>10 DEF OneAtATime
  <2>1. /\ ~ended[k] => Len(asked[k]) <= NextId(k) /\ Len(Given(k)) <= handled[k]
        /\ \A s \in Reactors : \A j \in 1 .. Len(cb_queue[s]) :
             cb_queue[s][j].conn = k =>
               /\ ~ended[k] /\ handled[k] = Len(asked[k]) /\ cb_queue[s][j].id = handled[k]
               /\ Len(Given(k)) < Len(asked[k])
    BY <1>1 DEF OneAtATime
  <2>2. Len(Given(k)') = Len(Given(k)) /\ Len(Given(k)) \in Nat
    BY <1>0, <1>11 DEF GivenChange
  <2>3. CASE k # c
    <3>1. handled'[k] = handled[k] /\ ended'[k] = ended[k] /\ NextId(k)' = NextId(k)
      BY <1>10, <2>3 DEF NextId
    <3>2. \A s \in Reactors : \A j \in 1 .. Len(cb_queue'[s]) :
            cb_queue'[s][j].conn = k =>
              \E i \in 1 .. Len(cb_queue[s]) : cb_queue'[s][j] = cb_queue[s][i]
      BY <1>6, <1>7, <2>3, QueueBefore
    <3>. QED
      BY <2>1, <2>2, <3>1, <3>2
  <2>4. CASE k = c
    <3>1. \A s \in Reactors : \A j \in 1 .. Len(cb_queue[s]) : cb_queue[s][j].conn # c
      BY <1>1, <1>2, <2>4, PipelineAlone
    <3>2. \A s \in Reactors : \A j \in 1 .. Len(cb_queue'[s]) :
            cb_queue'[s][j].conn = c => cb_queue'[s][j] = m
      BY <1>7, <3>1, QueueBefore
    <3>3. Len(asked[c]) <= NextId(c) /\ Len(Given(c)) <= handled[c]
      BY <1>9, <2>1, <2>4
    <3>4. NextId(c)' = NextId(c) + 1
      BY <1>10 DEF NextId
    <3>5. /\ handled'[c] = Len(asked[c]) /\ Len(Given(c)') < Len(asked[c])
          /\ Len(asked[c]) <= NextId(c)' /\ Len(Given(c)') <= handled'[c]
      BY <1>5, <1>10, <2>2, <2>4, <3>3, <3>4
    <3>. QED
      BY <1>6, <1>10, <2>4, <3>2, <3>5
  <2>. QED
    BY <2>3, <2>4
<1>. QED
  BY <1>10, <1>13, <1>14, <1>15, <1>16, <1>17, <1>18, <1>19 DEF Line, Order

----------------------------------------------------------------------------
(* The callbacks *)

LEMMA RequestLine ==
  ASSUME Types, Types', Line, NEW r \in Reactors, PollRequest(r)
  PROVE  Line'
<1>0. /\ PipelineType /\ PipelineType' /\ QueueType /\ ReplyType /\ ConnType /\ StoreType
      /\ NoConn \notin Conns
  BY NothingAssumption DEF Types
<1>1. /\ MessagesOk /\ EndedOk /\ RepliesOk /\ NoneLost /\ OneAtATime
      /\ QueueOrder /\ CrossOrder /\ RepliesFirst /\ ReplyOrder
  BY DEF Line, Order
<1>2. /\ cb_queue[r] # << >> /\ First(r).kind = "req"
      /\ UNCHANGED <<asked, seen, send, read, handled, ended, open, gone>>
  BY DEF PollRequest, conn_vars, fate_vars
<1>3. PICK y : y = First(r)
  OBVIOUS
<1>4. 1 \in 1 .. Len(cb_queue[r]) /\ y = cb_queue[r][1]
  BY <1>0, <1>2, <1>3 DEF QueueType, First
<1>5. /\ y \in Request \cup Response /\ y.conn \in Conns /\ y.id \in Nat
      /\ y.kind = "req" /\ MessageOk(r, y)
      /\ handled[y.conn] \in Nat /\ y.id <= handled[y.conn]
  BY <1>1, <1>2, <1>3, <1>4, MessageFacts
<1>6. PICK c \in Conns : c = y.conn
  BY <1>5
<1>7. PICK o \in Reactors : o = Owner[c]
  BY OwnerAssumption
<1>8. /\ Executor(c, y.id) = r /\ o # r /\ y.id \in 1 .. handled[c]
  BY <1>5, <1>6, <1>7 DEF MessageOk
<1>9. PICK m : m = [kind |-> "resp", conn |-> c, id |-> y.id,
                    value |-> Executed(r, db[c], asked[c][y.id])]
  OBVIOUS
<1>10. m \in Request \cup Response /\ m.conn = c /\ m.id = y.id /\ m.kind = "resp"
  <2>1. asked[c][y.id] \in Commandset /\ db[c] \in Dbs
    <3>1. /\ y.id \in 1 .. Len(asked[c]) /\ asked[c] \in Seq(Commandset)
      BY <1>0, <1>8 DEF PipelineType
    <3>. QED
      BY <1>0, <3>1 DEF ConnType
  <2>2. asked[c][y.id].op \in KeyedOps
    BY <1>7, <1>8 DEF Executor
  <2>3. Update(r, db[c], asked[c][y.id])
    BY <1>3, <1>6 DEF PollRequest
  <2>4. Executed(r, db[c], asked[c][y.id]) \in ReplyValues
    BY <1>0, <2>1, <2>2, <2>3, UpdateFacts
  <2>. QED
    BY <1>5, <1>9, <2>4 DEF Response
<1>11. QueueChange(Take(r), o, m)
  <2>1. cb_queue' = [cb_queue EXCEPT ![r] = Tail(@), ![o] = Append(@, m)]
    BY <1>3, <1>6, <1>7, <1>9 DEF PollRequest
  <2>. QED
    BY <1>0, <1>2, <1>8, <1>10, <2>1, QueueMove
<1>12. GivenChange(NoConn, 0)
  BY <1>0, <1>2, GivenNone
<1>13. \A k \in Conns : handled[k] <= handled'[k]
  BY <1>0, <1>2 DEF PipelineType
<1>14. MessagesOk'
  <2>1. Executor(m.conn, m.id)' = Executor(m.conn, m.id)
    BY <1>2, AskedSame
  <2>2. MessageOk(o, m)'
    BY <1>2, <1>7, <1>8, <1>10, <2>1 DEF MessageOk
  <2>. QED
    BY <1>0, <1>1, <1>2, <1>11, <1>13, <2>2, KeepMessages
<1>15. QueueOrder' /\ CrossOrder'
  <2>1. ASSUME NEW s \in Reactors, NEW j \in 1 + Take(r)[s] .. Len(cb_queue[s]),
               NEW z, z = cb_queue[s][j], z.conn = c
        PROVE  /\ s = o => Precedes(c, z.id, y.id)
               /\ z.kind = "req" => Precedes(c, y.id, z.id)
    <3>1. j \in 1 .. Len(cb_queue[s]) /\ (s = r => 1 < j)
      BY DEF Take
    <3>2. MessageOk(s, z) /\ z.kind \in {"req", "resp"}
      BY <1>1, <2>1, <3>1, MessageFacts
    <3>3. ASSUME s = o, z.kind = "resp" PROVE Precedes(c, z.id, y.id)
      BY <1>1, <1>4, <1>5, <1>6, <2>1, <3>1, <3>3 DEF CrossOrder
    <3>4. ASSUME s # r, z.kind = "req"
          PROVE  Precedes(c, z.id, y.id) /\ Precedes(c, y.id, z.id)
      BY <1>8, <2>1, <3>2, <3>4 DEF MessageOk, Precedes
    <3>5. ASSUME s = r PROVE Precedes(c, y.id, z.id)
      BY <1>1, <1>4, <1>6, <2>1, <3>1, <3>5 DEF QueueOrder
    <3>. QED
      BY <1>8, <3>2, <3>3, <3>4, <3>5
  <2>2. Fits(Take(r), o, m)
    BY <1>10, <2>1 DEF Fits
  <2>. QED
    BY <1>1, <1>2, <1>11, <2>2, KeepQueueOrder
<1>16. RepliesFirst'
  <2>1. \A i \in 1 .. Len(Given(c)) : Precedes(c, Given(c)[i].id, y.id)
    BY <1>1, <1>4, <1>6 DEF RepliesFirst
  <2>. QED
    BY <1>0, <1>1, <1>2, <1>10, <1>11, <1>12, <2>1, KeepRepliesFirst
<1>17. ReplyOrder'
  BY <1>0, <1>1, <1>2, <1>12, KeepReplyOrder
<1>18. RepliesOk'
  <2>1. \A k \in Conns : Stuck(k) => Stuck(k)' /\ handled'[k] = handled[k]
    BY <1>2 DEF Stuck, NextId, QuitAt
  <2>. QED
    BY <1>0, <1>1, <1>2, <1>12, <1>13, <2>1, KeepReplies
<1>19. NoneLost'
  <2>1. \A s \in Reactors : Take(r)[s] = 1 =>
          cb_queue[s][1].conn = m.conn /\ cb_queue[s][1].id = m.id
    BY <1>4, <1>6, <1>10 DEF Take
  <2>2. \A k \in Conns : \A id \in 1 .. handled'[k] : id \in 1 .. handled[k]
    BY <1>2
  <2>3. \A k \in Conns : gone[k] => gone'[k]
    BY <1>2
  <2>. QED
    BY <1>1, <1>11, <1>12, <2>1, <2>2, <2>3, KeepNoneLost
<1>20. EndedOk'
  BY <1>1, <1>2 DEF EndedOk, NextId, QuitAt
<1>21. OneAtATime'
  <2>1. \A k \in Conns : Given(k)' = Given(k) /\ NextId(k)' = NextId(k)
    BY <1>2 DEF Given, NextId
  <2>2. \A s \in Reactors : \A j \in 1 .. Len(cb_queue'[s]) :
          \E t \in Reactors : \E i \in 1 .. Len(cb_queue[t]) :
            /\ cb_queue'[s][j].conn = cb_queue[t][i].conn
            /\ cb_queue'[s][j].id = cb_queue[t][i].id
    <3>. SUFFICES ASSUME NEW s \in Reactors, NEW j \in 1 .. Len(cb_queue'[s])
                  PROVE  \E t \in Reactors : \E i \in 1 .. Len(cb_queue[t]) :
                           /\ cb_queue'[s][j].conn = cb_queue[t][i].conn
                           /\ cb_queue'[s][j].id = cb_queue[t][i].id
      OBVIOUS
    <3>1. CASE cb_queue'[s][j] = m
      BY <1>4, <1>6, <1>10, <3>1
    <3>2. CASE /\ j + Take(r)[s] \in 1 .. Len(cb_queue[s])
               /\ cb_queue'[s][j] = cb_queue[s][j + Take(r)[s]]
      BY <3>2
    <3>. QED
      BY <1>11, <3>1, <3>2, QueueBefore
  <2>. QED
    BY <1>1, <1>2, <2>1, <2>2 DEF OneAtATime
<1>. QED
  BY <1>14, <1>15, <1>16, <1>17, <1>18, <1>19, <1>20, <1>21 DEF Line, Order

LEMMA ResponseLine ==
  ASSUME Types, Types', Line, NEW r \in Reactors, PollResponse(r)
  PROVE  Line'
<1>0. /\ PipelineType /\ PipelineType' /\ QueueType /\ ReplyType
      /\ -1 \notin Reactors
  BY BoundAssumption DEF Types, Reactors
<1>1. /\ MessagesOk /\ EndedOk /\ RepliesOk /\ NoneLost /\ OneAtATime
      /\ QueueOrder /\ CrossOrder /\ RepliesFirst /\ ReplyOrder
  BY DEF Line, Order
<1>2. /\ cb_queue[r] # << >> /\ First(r).kind = "resp"
      /\ UNCHANGED <<asked, seen, read, handled, ended, open, gone>>
  BY DEF PollResponse, fate_vars
<1>3. PICK y : y = First(r)
  OBVIOUS
<1>4. 1 \in 1 .. Len(cb_queue[r]) /\ y = cb_queue[r][1]
  BY <1>0, <1>2, <1>3 DEF QueueType, First
<1>5. /\ y \in Request \cup Response /\ y.conn \in Conns /\ y.id \in Nat
      /\ y.kind = "resp" /\ MessageOk(r, y)
      /\ handled[y.conn] \in Nat /\ y.id <= handled[y.conn]
  BY <1>1, <1>2, <1>3, <1>4, MessageFacts
<1>6. PICK c \in Conns : c = y.conn
  BY <1>5
<1>7. Owner[c] = r /\ y.id \in 1 .. handled[c]
  BY <1>5, <1>6 DEF MessageOk
<1>8. PICK x : x = [id |-> y.id, value |-> y.value]
  OBVIOUS
<1>9. x \in ReplyMessage /\ x.id = y.id
  BY <1>5, <1>8 DEF Request, Response, ReplyMessage
<1>10. QueueChange(Take(r), -1, 0) /\ Fits(Take(r), -1, 0)
  <2>1. cb_queue' = [cb_queue EXCEPT ![r] = Tail(cb_queue[r])]
    BY DEF PollResponse
  <2>. QED
    BY <1>0, <1>2, <2>1, QueueTail DEF Fits
<1>11. GivenChange(c, x)
  <2>. HIDE DEF ReplyMessage
  <2>1. send' = [send EXCEPT ![c] = Append(send[c], x)]
    BY <1>3, <1>6, <1>8 DEF PollResponse
  <2>. QED
    BY <1>0, <1>2, <1>9, <2>1, GivenAdded
<1>12. \A k \in Conns : handled[k] <= handled'[k]
  BY <1>0, <1>2 DEF PipelineType
(* the messages behind the response *)
<1>13. ASSUME NEW s \in Reactors, NEW j \in 1 + Take(r)[s] .. Len(cb_queue[s]),
              NEW z, z = cb_queue[s][j], z.conn = c
       PROVE  Precedes(c, y.id, z.id)
  <2>1. j \in 1 .. Len(cb_queue[s]) /\ (s = r => 1 < j)
    BY DEF Take
  <2>2. MessageOk(s, z) /\ z.kind \in {"req", "resp"}
    BY <1>1, <1>13, <2>1, MessageFacts
  <2>3. CASE s = r
    BY <1>1, <1>4, <1>6, <1>13, <2>1, <2>3 DEF QueueOrder
  <2>4. CASE s # r
    <3>1. z.kind = "req"
      BY <1>7, <1>13, <2>2, <2>4 DEF MessageOk
    <3>. QED
      BY <1>1, <1>4, <1>5, <1>6, <1>13, <2>1, <3>1 DEF CrossOrder
  <2>. QED
    BY <2>3, <2>4
<1>14. MessagesOk'
  BY <1>0, <1>1, <1>2, <1>10, <1>12, KeepMessages
<1>15. QueueOrder' /\ CrossOrder'
  BY <1>1, <1>2, <1>10, KeepQueueOrder
<1>16. RepliesFirst'
  <2>1. \A s \in Reactors : \A j \in 1 + Take(r)[s] .. Len(cb_queue[s]) :
          cb_queue[s][j].conn = c => Precedes(c, x.id, cb_queue[s][j].id)
    BY <1>9, <1>13
  <2>. QED
    BY <1>0, <1>1, <1>2, <1>10, <1>11, <2>1, KeepRepliesFirst
<1>17. ReplyOrder'
  <2>1. \A i \in 1 .. Len(Given(c)) : Precedes(c, Given(c)[i].id, x.id)
    BY <1>1, <1>4, <1>6, <1>9 DEF RepliesFirst
  <2>. QED
    BY <1>1, <1>2, <1>11, <2>1, KeepReplyOrder
<1>18. RepliesOk'
  <2>1. \A k \in Conns : Stuck(k) => Stuck(k)' /\ handled'[k] = handled[k]
    BY <1>2 DEF Stuck, NextId, QuitAt
  <2>2. x.id \in 1 .. handled'[c]
    BY <1>2, <1>7, <1>9
  <2>. QED
    BY <1>0, <1>1, <1>2, <1>11, <1>12, <2>1, <2>2, KeepReplies
<1>19. NoneLost'
  <2>1. \A s \in Reactors : Take(r)[s] = 1 =>
          cb_queue[s][1].conn = c /\ cb_queue[s][1].id = x.id
    BY <1>4, <1>6, <1>9 DEF Take
  <2>2. \A k \in Conns : \A id \in 1 .. handled'[k] : id \in 1 .. handled[k]
    BY <1>2
  <2>3. \A k \in Conns : gone[k] => gone'[k]
    BY <1>2
  <2>. QED
    BY <1>1, <1>10, <1>11, <2>1, <2>2, <2>3, KeepNoneLost
<1>20. EndedOk'
  BY <1>1, <1>2 DEF EndedOk, NextId, QuitAt
<1>21. OneAtATime'
  <2>. SUFFICES ASSUME NEW k \in Conns, Window <= 1, ~gone[k]
                PROVE  /\ ~ended[k] => Len(asked[k]) <= NextId(k) /\ Len(Given(k)') <= handled[k]
                       /\ \A s \in Reactors : \A j \in 1 .. Len(cb_queue'[s]) :
                            cb_queue'[s][j].conn = k =>
                              /\ ~ended[k] /\ handled[k] = Len(asked[k])
                              /\ cb_queue'[s][j].id = handled[k]
                              /\ Len(Given(k)') < Len(asked[k])
    BY <1>2 DEF OneAtATime, NextId
  <2>1. /\ ~ended[k] => Len(asked[k]) <= NextId(k) /\ Len(Given(k)) <= handled[k]
        /\ \A s \in Reactors : \A j \in 1 .. Len(cb_queue[s]) :
             cb_queue[s][j].conn = k =>
               /\ ~ended[k] /\ handled[k] = Len(asked[k]) /\ cb_queue[s][j].id = handled[k]
               /\ Len(Given(k)) < Len(asked[k])
    BY <1>1 DEF OneAtATime
  <2>2. \A s \in Reactors : \A j \in 1 .. Len(cb_queue'[s]) :
          \E i \in 1 + Take(r)[s] .. Len(cb_queue[s]) : cb_queue'[s][j] = cb_queue[s][i]
    <3>. SUFFICES ASSUME NEW s \in Reactors, NEW j \in 1 .. Len(cb_queue'[s])
                  PROVE  \E i \in 1 + Take(r)[s] .. Len(cb_queue[s]) :
                           cb_queue'[s][j] = cb_queue[s][i]
      OBVIOUS
    <3>1. /\ j + Take(r)[s] \in 1 .. Len(cb_queue[s])
          /\ cb_queue'[s][j] = cb_queue[s][j + Take(r)[s]]
      BY <1>0, <1>10, QueueBefore
    <3>2. j + Take(r)[s] \in 1 + Take(r)[s] .. Len(cb_queue[s])
      BY <3>1 DEF Take
    <3>. QED
      BY <3>1, <3>2
  <2>3. \A s \in Reactors : 1 + Take(r)[s] .. Len(cb_queue[s]) \subseteq 1 .. Len(cb_queue[s])
    BY DEF Take
  <2>4. CASE k # c
    <3>1. Len(Given(k)') = Len(Given(k))
      BY <1>11, <2>4 DEF GivenChange
    <3>2. \A s \in Reactors : \A j \in 1 .. Len(cb_queue'[s]) :
            \E i \in 1 .. Len(cb_queue[s]) : cb_queue'[s][j] = cb_queue[s][i]
      BY <2>2, <2>3
    <3>. QED
      BY <2>1, <3>1, <3>2
  <2>5. CASE k = c
    <3>1. y.id = handled[c] /\ handled[c] = Len(asked[c]) /\ Len(Given(c)) < Len(asked[c])
      BY <1>4, <1>6, <2>1, <2>5
    <3>2. \A s \in Reactors : \A i \in 1 + Take(r)[s] .. Len(cb_queue[s]) :
            cb_queue[s][i].conn # c
      <4>. SUFFICES ASSUME NEW s \in Reactors, NEW i \in 1 + Take(r)[s] .. Len(cb_queue[s]),
                           NEW z, z = cb_queue[s][i], z.conn = c
                    PROVE  FALSE
        OBVIOUS
      <4>1. z.id = y.id /\ Precedes(c, y.id, z.id)
        BY <1>13, <2>1, <2>3, <2>5, <3>1
      <4>. QED
        BY <1>5, <4>1 DEF Precedes
    <3>3. Len(Given(c)') = Len(Given(c)) + 1 /\ Len(Given(c)) \in Nat /\ handled[c] \in Nat
      BY <1>5, <1>6, <1>11 DEF GivenChange
    <3>4. Len(asked[c]) <= NextId(c) /\ Len(Given(c)') <= handled[c]
      BY <3>1, <3>3 DEF NextId
    <3>. QED
      BY <2>2, <2>5, <3>2, <3>4
  <2>. QED
    BY <2>4, <2>5
<1>. QED
  BY <1>14, <1>15, <1>16, <1>17, <1>18, <1>19, <1>20, <1>21 DEF Line, Order

----------------------------------------------------------------------------
(* A client asks for more; nothing is known of this command yet. *)
LEMMA AskLine ==
  ASSUME Types, Types', Line, NEW c \in Conns, NEW cmd \in Commandset, Ask(c, cmd)
  PROVE  Line'
<1>0. PipelineType /\ PipelineType' /\ QueueType /\ ReplyType
  BY DEF Types
<1>1. /\ MessagesOk /\ EndedOk /\ RepliesOk /\ NoneLost /\ OneAtATime
      /\ QueueOrder /\ CrossOrder /\ RepliesFirst /\ ReplyOrder
  BY DEF Line, Order
<1>2. /\ asked' = [asked EXCEPT ![c] = Append(asked[c], cmd)]
      /\ UNCHANGED <<seen, read, handled, send, ended, open, cb_queue, gone>>
      /\ Len(asked[c]) - Len(seen[c]) < Window /\ ~gone[c]
  BY DEF Ask, conn_vars, fate_vars
<1>3. \A k \in Conns : /\ Len(asked[k]) \in Nat /\ handled[k] \in Nat /\ read[k] \in Nat
                       /\ handled[k] <= read[k] /\ read[k] <= Len(asked[k])
                       /\ Given(k)' = Given(k) /\ NextId(k)' = NextId(k)
                       /\ NextId(k) = handled[k] + 1
                       /\ Len(Given(k)) \in Nat /\ Len(seen[k]) <= Len(Given(k))
                       /\ Len(seen[k]) \in Nat
  <2>. SUFFICES ASSUME NEW k \in Conns
                PROVE  /\ Len(asked[k]) \in Nat /\ handled[k] \in Nat /\ read[k] \in Nat
                       /\ handled[k] <= read[k] /\ read[k] <= Len(asked[k])
                       /\ Given(k)' = Given(k) /\ NextId(k)' = NextId(k)
                       /\ NextId(k) = handled[k] + 1
                       /\ Len(Given(k)) \in Nat /\ Len(seen[k]) <= Len(Given(k))
                       /\ Len(seen[k]) \in Nat
    OBVIOUS
  <2>1. /\ Len(asked[k]) \in Nat /\ handled[k] \in Nat /\ read[k] \in Nat
        /\ handled[k] <= read[k] /\ read[k] <= Len(asked[k])
    BY <1>0 DEF PipelineType
  <2>2. Given(k)' = Given(k) /\ NextId(k)' = NextId(k) /\ NextId(k) = handled[k] + 1
    BY <1>2 DEF Given, NextId
  <2>3. Len(Given(k)) \in Nat /\ Len(seen[k]) \in Nat
    BY <1>0, GivenFacts
  <2>4. Len(seen[k]) <= Len(Given(k))
    <3>. HIDE DEF ReplyMessage
    <3>1. seen[k] \in Seq(ReplyMessage) /\ send[k] \in Seq(ReplyMessage)
      BY <1>0 DEF ReplyType
    <3>. QED
      BY <3>1, PrefixFacts DEF Given
  <2>. QED
    BY <2>1, <2>2, <2>3, <2>4
<1>4. \A k \in Conns : \A id \in 1 .. Len(asked[k]) : asked'[k][id] = asked[k][id]
  BY <1>0, <1>2 DEF PipelineType
<1>5. \A k \in Conns : \A id \in 1 .. Len(asked[k]) :
        Executor(k, id)' = Executor(k, id) /\ (QuitAt(k, id)' <=> QuitAt(k, id))
  BY <1>4 DEF Executor, QuitAt
<1>6. \A k \in Conns : \A id1, id2 \in 1 .. Len(asked[k]) :
        Precedes(k, id1, id2)' <=> Precedes(k, id1, id2)
  BY <1>5 DEF Precedes
<1>7. \A s \in Reactors : \A i \in 1 .. Len(cb_queue[s]) : \A y : y = cb_queue[s][i] =>
        /\ y.conn \in Conns /\ MessageOk(s, y)
        /\ y.id \in 1 .. handled[y.conn] /\ y.id \in 1 .. Len(asked[y.conn])
  <2>. SUFFICES ASSUME NEW s \in Reactors, NEW i \in 1 .. Len(cb_queue[s]),
                       NEW y, y = cb_queue[s][i]
                PROVE  /\ y.conn \in Conns /\ MessageOk(s, y)
                       /\ y.id \in 1 .. handled[y.conn] /\ y.id \in 1 .. Len(asked[y.conn])
    OBVIOUS
  <2>1. y.conn \in Conns /\ MessageOk(s, y)
    BY <1>1, MessageFacts
  <2>2. /\ handled[y.conn] \in Nat /\ read[y.conn] \in Nat /\ Len(asked[y.conn]) \in Nat
        /\ handled[y.conn] <= read[y.conn] /\ read[y.conn] <= Len(asked[y.conn])
    BY <1>3, <2>1
  <2>3. y.id \in 1 .. handled[y.conn]
    BY <2>1 DEF MessageOk
  <2>. QED
    BY <2>1, <2>2, <2>3
<1>8. \A k \in Conns : \A i \in 1 .. Len(Given(k)) : Given(k)[i].id \in 1 .. Len(asked[k])
  <2>. SUFFICES ASSUME NEW k \in Conns, NEW i \in 1 .. Len(Given(k))
                PROVE  Given(k)[i].id \in 1 .. Len(asked[k])
    OBVIOUS
  <2>1. \/ Given(k)[i].id \in 1 .. handled[k]
        \/ Given(k)[i].id = NextId(k) /\ handled[k] < read[k]
    BY <1>1 DEF RepliesOk
  <2>. QED
    BY <1>3, <2>1
<1>9. MessagesOk'
  <2>. SUFFICES ASSUME NEW s \in Reactors, NEW i \in 1 .. Len(cb_queue[s])
                PROVE  MessageOk(s, cb_queue[s][i])'
    BY <1>2 DEF MessagesOk
  <2>1. PICK y : y = cb_queue[s][i]
    OBVIOUS
  <2>2. y.conn \in Conns /\ MessageOk(s, y) /\ y.id \in 1 .. Len(asked[y.conn])
    BY <1>7, <2>1
  <2>3. asked'[y.conn][y.id] = asked[y.conn][y.id]
    BY <1>4, <2>2
  <2>4. cb_queue'[s][i] = y
    BY <1>2, <2>1
  <2>. QED
    BY <1>2, <2>2, <2>3, <2>4 DEF MessageOk, Executor
<1>10. QueueOrder'
  <2>. SUFFICES ASSUME NEW s \in Reactors, NEW i \in 1 .. Len(cb_queue[s]),
                       NEW j \in 1 .. Len(cb_queue[s]), i < j,
                       cb_queue[s][i].conn = cb_queue[s][j].conn
                PROVE  Precedes(cb_queue[s][i].conn, cb_queue[s][i].id, cb_queue[s][j].id)'
    BY <1>2 DEF QueueOrder
  <2>1. PICK y : y = cb_queue[s][i]
    OBVIOUS
  <2>2. PICK z : z = cb_queue[s][j]
    OBVIOUS
  <2>3. Precedes(y.conn, y.id, z.id) /\ y.conn = z.conn
    BY <1>1, <2>1, <2>2 DEF QueueOrder
  <2>4. Precedes(y.conn, y.id, z.id)'
    BY <1>6, <1>7, <2>1, <2>2, <2>3
  <2>. QED
    BY <1>2, <2>1, <2>2, <2>4
<1>11. CrossOrder'
  <2>. SUFFICES ASSUME NEW s \in Reactors, NEW t \in Reactors,
                       NEW i \in 1 .. Len(cb_queue[s]), NEW j \in 1 .. Len(cb_queue[t]),
                       cb_queue[s][i].kind = "resp" /\ cb_queue[t][j].kind = "req",
                       cb_queue[s][i].conn = cb_queue[t][j].conn
                PROVE  Precedes(cb_queue[s][i].conn, cb_queue[s][i].id, cb_queue[t][j].id)'
    BY <1>2 DEF CrossOrder
  <2>1. PICK y : y = cb_queue[s][i]
    OBVIOUS
  <2>2. PICK z : z = cb_queue[t][j]
    OBVIOUS
  <2>3. Precedes(y.conn, y.id, z.id)
    BY <1>1, <2>1, <2>2 DEF CrossOrder
  <2>4. Precedes(y.conn, y.id, z.id)'
    BY <1>6, <1>7, <2>1, <2>2, <2>3
  <2>5. cb_queue'[s][i] = y /\ cb_queue'[t][j] = z
    BY <1>2, <2>1, <2>2
  <2>. QED
    BY <2>4, <2>5 DEF Precedes, Executor
<1>12. RepliesFirst'
  <2>. SUFFICES ASSUME NEW k \in Conns, NEW i \in 1 .. Len(Given(k)),
                       NEW s \in Reactors, NEW j \in 1 .. Len(cb_queue[s]),
                       cb_queue[s][j].conn = k
                PROVE  Precedes(k, Given(k)[i].id, cb_queue[s][j].id)'
    BY <1>2, <1>3 DEF RepliesFirst
  <2>1. PICK y : y = cb_queue[s][j]
    OBVIOUS
  <2>2. PICK g : g = Given(k)[i]
    OBVIOUS
  <2>3. Precedes(k, g.id, y.id)
    BY <1>1, <2>1, <2>2 DEF RepliesFirst
  <2>4. Precedes(k, g.id, y.id)'
    BY <1>6, <1>7, <1>8, <2>1, <2>2, <2>3
  <2>5. Given(k)'[i] = g /\ cb_queue'[s][j] = y
    BY <1>2, <1>3, <2>1, <2>2
  <2>. QED
    BY <2>4, <2>5 DEF Precedes, Executor
<1>13. ReplyOrder'
  <2>. SUFFICES ASSUME NEW k \in Conns, NEW i \in 1 .. Len(Given(k)),
                       NEW j \in 1 .. Len(Given(k)), i < j
                PROVE  \/ Precedes(k, Given(k)[i].id, Given(k)[j].id)'
                       \/ (Given(k)[i].id = Given(k)[j].id /\ QuitAt(k, Given(k)[i].id))'
    BY <1>3 DEF ReplyOrder
  <2>1. PICK g : g = Given(k)[i]
    OBVIOUS
  <2>2. PICK y : y = Given(k)[j]
    OBVIOUS
  <2>3. Precedes(k, g.id, y.id) \/ (g.id = y.id /\ QuitAt(k, g.id))
    BY <1>1, <2>1, <2>2 DEF ReplyOrder
  <2>4. Precedes(k, g.id, y.id)' \/ (g.id = y.id /\ QuitAt(k, g.id)')
    BY <1>5, <1>6, <1>8, <2>1, <2>2, <2>3
  <2>5. Given(k)'[i] = g /\ Given(k)'[j] = y
    BY <1>3, <2>1, <2>2
  <2>. QED
    BY <2>4, <2>5 DEF Precedes, Executor, QuitAt
<1>14. RepliesOk'
  <2>. SUFFICES ASSUME NEW k \in Conns, NEW i \in 1 .. Len(Given(k))
                PROVE  \/ Given(k)[i].id \in 1 .. handled[k]
                       \/ /\ Given(k)[i].id = NextId(k)
                          /\ handled[k] < read[k] /\ ended[k] /\ QuitAt(k, NextId(k))'
    BY <1>2, <1>3 DEF RepliesOk
  <2>1. QuitAt(k, NextId(k)) /\ handled[k] < read[k] => QuitAt(k, NextId(k))'
    BY <1>3, <1>4 DEF QuitAt
  <2>. QED
    BY <1>1, <2>1 DEF RepliesOk
<1>15. EndedOk'
  <2>. SUFFICES ASSUME NEW k \in Conns
                PROVE  /\ ended[k] /\ open[k] => handled[k] < read[k] /\ QuitAt(k, NextId(k))'
                       /\ \A id \in 1 .. handled[k] : ~QuitAt(k, id)'
    BY <1>2 DEF EndedOk
  <2>1. QuitAt(k, NextId(k)) /\ handled[k] < read[k] => QuitAt(k, NextId(k))'
    BY <1>3, <1>4 DEF QuitAt
  <2>2. \A id \in 1 .. handled[k] : ~QuitAt(k, id)'
    <3>1. \A id \in 1 .. handled[k] : id \in 1 .. Len(asked[k])
      BY <1>3
    <3>. QED
      BY <1>1, <1>5, <3>1 DEF EndedOk
  <2>. QED
    BY <1>1, <2>1, <2>2 DEF EndedOk
<1>16. NoneLost'
  <2>. SUFFICES ASSUME NEW k \in Conns, ~gone[k], NEW id \in 1 .. handled[k]
                PROVE  AnsweredOrOnItsWay(k, id)'
    BY <1>2 DEF NoneLost
  <2>1. AnsweredOrOnItsWay(k, id)
    BY <1>1 DEF NoneLost
  <2>2. Given(k)' = Given(k)
    BY <1>3
  <2>. QED
    BY <1>2, <2>1, <2>2 DEF AnsweredOrOnItsWay
<1>17. OneAtATime'
  <2>. SUFFICES ASSUME NEW k \in Conns, Window <= 1, ~gone[k]
                PROVE  /\ ~ended[k] => Len(asked'[k]) <= NextId(k) /\ Len(Given(k)) <= handled[k]
                       /\ \A s \in Reactors : \A j \in 1 .. Len(cb_queue[s]) :
                            cb_queue[s][j].conn = k =>
                              /\ ~ended[k] /\ handled[k] = Len(asked'[k])
                              /\ cb_queue[s][j].id = handled[k]
                              /\ Len(Given(k)) < Len(asked'[k])
    BY <1>2, <1>3 DEF OneAtATime
  <2>1. /\ ~ended[k] => Len(asked[k]) <= NextId(k) /\ Len(Given(k)) <= handled[k]
        /\ \A s \in Reactors : \A j \in 1 .. Len(cb_queue[s]) :
             cb_queue[s][j].conn = k =>
               /\ ~ended[k] /\ handled[k] = Len(asked[k]) /\ cb_queue[s][j].id = handled[k]
               /\ Len(Given(k)) < Len(asked[k])
    BY <1>1 DEF OneAtATime
  <2>2. CASE k # c
    <3>1. asked'[k] = asked[k]
      BY <1>0, <1>2, <2>2 DEF PipelineType
    <3>. QED
      BY <2>1, <3>1
  <2>3. CASE k = c
    <3>1. Len(asked[c]) <= Len(Given(c))
      <4>. DEFINE a == Len(asked[c])
                  b == Len(seen[c])
      <4>1. a - b < Window
        BY <1>2
      <4>2. a \in Nat /\ b \in Nat /\ b <= Len(Given(c)) /\ Len(Given(c)) \in Nat
        BY <1>3
      <4>. HIDE DEF a, b
      <4>3. a <= Len(Given(c))
        BY <4>1, <4>2, BoundAssumption
      <4>. QED
        BY <4>3 DEF a
    <3>2. \A s \in Reactors : \A j \in 1 .. Len(cb_queue[s]) : cb_queue[s][j].conn # c
      BY <1>3, <2>1, <2>3, <3>1
    <3>3. Len(asked'[c]) = Len(asked[c]) + 1
      BY <1>0, <1>2, AppendProperties DEF PipelineType
    <3>4. ~ended[c] => Len(asked'[c]) <= NextId(c) /\ Len(Given(c)) <= handled[c]
      BY <1>3, <2>1, <2>3, <3>1, <3>3
    <3>. QED
      BY <2>3, <3>2, <3>4
  <2>. QED
    BY <2>2, <2>3
<1>. QED
  BY <1>9, <1>10, <1>11, <1>12, <1>13, <1>14, <1>15, <1>16, <1>17 DEF Line, Order

----------------------------------------------------------------------------
(* The invariant *)

LEMMA InitLine == Init => LoopOk /\ Line
<1>. SUFFICES ASSUME Init PROVE LoopOk /\ Line
  OBVIOUS
<1>1. /\ \A c \in Conns : /\ asked[c] = << >> /\ read[c] = 0 /\ handled[c] = 0
                          /\ send[c] = << >> /\ seen[c] = << >>
                          /\ ~ended[c] /\ ~gone[c] /\ ~hangup[c]
      /\ \A r \in Reactors : cb_queue[r] = << >> /\ at[r] = NoConn /\ events[r] = {}
  BY DEF Init
<1>2. \A c \in Conns : Len(Given(c)) = 0 /\ Len(asked[c]) = 0 /\ NextId(c) = 1
  <2>1. \A c \in Conns : Given(c) = << >>
    BY <1>1 DEF Given
  <2>. QED
    BY <1>1, <2>1 DEF NextId
<1>3. \A r \in Reactors : Len(cb_queue[r]) = 0
  BY <1>1
<1>4. LoopOk
  BY <1>1 DEF LoopOk
<1>5. MessagesOk /\ QueueOrder /\ CrossOrder
  BY <1>3 DEF MessagesOk, QueueOrder, CrossOrder
<1>6. RepliesFirst /\ ReplyOrder /\ RepliesOk
  BY <1>2 DEF RepliesFirst, ReplyOrder, RepliesOk
<1>7. EndedOk /\ NoneLost
  BY <1>1 DEF EndedOk, NoneLost
<1>8. OneAtATime
  BY <1>1, <1>2, <1>3 DEF OneAtATime
<1>. QED
  BY <1>4, <1>5, <1>6, <1>7, <1>8 DEF Line, Order

LEMMA HandleLine ==
  ASSUME Types, Types', LoopOk, Line, NEW r \in Reactors, NEW c \in Conns, HandleStep(r, c)
  PROVE  Line'
<1>0. /\ PipelineType /\ ReplyType /\ ConnType /\ StoreType /\ EndedOk
      /\ NoConn \notin Conns
  BY NothingAssumption DEF Types, Line
<1>1. Called(r, c)
  BY DEF HandleStep, HandlePing, HandleQuit, HandleSelect, HandleInline, HandleDispatch,
     FlushMap, FlushDone
<1>2. /\ Owner[c] = r /\ open[c] /\ ended[c] \in BOOLEAN
      /\ Current(c) \in Commandset /\ db[c] \in Dbs
  BY <1>0, <1>1, CalledFacts DEF Called, LoopOk, ConnType
<1>3. /\ QuitAt(c, NextId(c)) <=> Current(c).op = "quit"
      /\ Current(c).op \notin KeyedOps => Executor(c, NextId(c)) = r
      /\ Current(c).op \in KeyedOps => Executor(c, NextId(c)) = Home[Current(c).key]
  BY <1>2 DEF QuitAt, Current, Executor
<1>4. Current(c).op # "quit" => ended[c] = FALSE
  BY <1>0, <1>2, <1>3 DEF EndedOk
<1>5. Pong \in ReplyValues /\ Ok \in ReplyValues /\ Err \in ReplyValues
  BY DEF ReplyValues
<1>6. ASSUME NEW v \in ReplyValues, Reply(c, v), Proceed(r, c, ended[c]), UNCHANGED cb_queue,
             Current(c).op # "quit", Executor(c, NextId(c)) = r
      PROVE  Line'
  <2>1. ended[c] <=> QuitAt(c, NextId(c))
    BY <1>3, <1>4, <1>6
  <2>. QED
    BY <1>1, <1>2, <1>6, <2>1, ReplyLine
<1>7. CASE HandlePing(r, c)
  BY <1>3, <1>5, <1>6, <1>7 DEF HandlePing, KeyedOps
<1>8. CASE HandleQuit(r, c)
  <2>1. /\ Reply(c, Ok) /\ Proceed(r, c, TRUE) /\ UNCHANGED cb_queue
        /\ Current(c).op = "quit"
    BY <1>8 DEF HandleQuit
  <2>2. (TRUE <=> QuitAt(c, NextId(c))) /\ Executor(c, NextId(c)) = r /\ TRUE \in BOOLEAN
    BY <1>3, <2>1 DEF KeyedOps
  <2>. QED
    BY <1>1, <1>5, <2>1, <2>2, ReplyLine
<1>9. CASE HandleSelect(r, c)
  BY <1>3, <1>5, <1>6, <1>9 DEF HandleSelect, KeyedOps
<1>10. CASE HandleInline(r, c)
  <2>1. /\ Current(c).op \in KeyedOps /\ Home[Current(c).key] = r
        /\ Update(r, db[c], Current(c))
        /\ Reply(c, Executed(r, db[c], Current(c)))
        /\ Proceed(r, c, ended[c]) /\ UNCHANGED cb_queue
    BY <1>10 DEF HandleInline
  <2>2. Executed(r, db[c], Current(c)) \in ReplyValues
    BY <1>0, <1>2, <2>1, UpdateFacts
  <2>3. Current(c).op # "quit"
    BY <2>1 DEF KeyedOps
  <2>. QED
    BY <1>3, <1>6, <2>1, <2>2, <2>3
<1>11. CASE HandleDispatch(r, c)
  BY <1>11, DispatchLine
<1>12. CASE FlushMap(r, c)
  <2>1. UNCHANGED <<asked, seen, send, cb_queue, read, handled, ended, open, gone>>
    BY <1>12 DEF FlushMap, conn_vars, fate_vars
  <2>2. GivenChange(NoConn, 0)
    BY <1>0, <2>1, GivenNone
  <2>3. \A k \in Conns : read[k] <= read'[k]
    BY <1>0, <2>1 DEF PipelineType
  <2>. QED
    BY <2>1, <2>2, <2>3, QuietLine
<1>13. CASE FlushDone(r, c)
  BY <1>3, <1>5, <1>6, <1>13 DEF FlushDone, KeyedOps
<1>. QED
  BY <1>7, <1>8, <1>9, <1>10, <1>11, <1>12, <1>13 DEF HandleStep

LEMMA NextLine ==
  ASSUME Types, Types', LoopOk, Line, [Next]_vars
  PROVE  Line'
<1>0. PipelineType /\ PipelineType' /\ ReplyType /\ ConnType /\ LoopType
  BY DEF Types
<1>1. \A k \in Conns : read[k] \in Nat /\ Len(asked[k]) \in Nat
  BY <1>0 DEF PipelineType
<1>2. ASSUME UNCHANGED <<asked, seen, send, cb_queue, read, handled, ended, open>>,
             \A k \in Conns : gone[k] => gone'[k]
      PROVE  Line'
  <2>1. GivenChange(NoConn, 0)
    BY <1>0, <1>2, GivenNone
  <2>2. \A k \in Conns : read[k] <= read'[k]
    BY <1>1, <1>2
  <2>. QED
    BY <1>2, <2>1, <2>2, QuietLine
<1>3. ASSUME NEW r \in Reactors, Flush(r) PROVE Line'
  <2>1. UNCHANGED <<asked, cb_queue, read, handled, ended, open, gone>>
    BY <1>3 DEF Flush, fate_vars
  <2>2. GivenChange(NoConn, 0)
    BY <1>0, <1>3, GivenWritten
  <2>3. \A k \in Conns : read[k] <= read'[k]
    BY <1>1, <2>1
  <2>. QED
    BY <2>1, <2>2, <2>3, QuietLine
<1>4. ASSUME NEW r \in Reactors,
             FlushKilled(r) \/ PollDangling(r) \/ CallbackDone(r) \/ EpollWait(r) \/ EventsDone(r)
      PROVE  Line'
  BY <1>2, <1>4 DEF FlushKilled, PollDangling, CallbackDone, EpollWait, EventsDone, conn_vars,
     fate_vars
<1>5. ASSUME NEW r \in Reactors, NEW c \in Conns, EpollIn(r, c) PROVE Line'
  <2>1. /\ read[c] < Len(asked[c]) /\ read' = [read EXCEPT ![c] = Len(asked[c])]
        /\ c \in events[r]
        /\ open' = open \/ open' = [open EXCEPT ![c] = ~ended[c] /\ ~hangup[c]]
        /\ UNCHANGED <<asked, seen, send, cb_queue, handled, ended, gone>>
    BY <1>5 DEF EpollIn, Received, fate_vars
  <2>2. \A k \in Conns : read[k] <= read'[k]
    BY <1>0, <1>1, <2>1 DEF PipelineType
  <2>3. \A k \in Conns : open'[k] => open[k]
    BY <1>0, <2>1 DEF LoopOk, ConnType
  <2>4. GivenChange(NoConn, 0)
    BY <1>0, <2>1, GivenNone
  <2>. QED
    BY <2>1, <2>2, <2>3, <2>4, QuietLine
<1>6. ASSUME NEW r \in Reactors, NEW c \in Conns, EpollEnd(r, c) PROVE Line'
  <2>1. /\ gone[c] /\ ended' = [ended EXCEPT ![c] = TRUE] /\ open' = [open EXCEPT ![c] = FALSE]
        /\ UNCHANGED <<asked, seen, send, cb_queue, read, handled, gone>>
    BY <1>6 DEF EpollEnd, fate_vars
  <2>2. \A k \in Conns : /\ read[k] <= read'[k] /\ (open'[k] => open[k])
                         /\ ended[k] => ended'[k]
                         /\ ended'[k] => ended[k] \/ (gone[k] /\ ~open'[k])
    BY <1>0, <1>1, <2>1 DEF ConnType
  <2>3. GivenChange(NoConn, 0)
    BY <1>0, <2>1, GivenNone
  <2>. QED
    BY <2>1, <2>2, <2>3, QuietLine
<1>7. ASSUME NEW r \in Reactors, Step(r) PROVE Line'
  BY <1>3, <1>4, <1>5, <1>6, <1>7, RequestLine, ResponseLine, HandleLine DEF Step
<1>8. ASSUME NEW c \in Conns, Leave(c) PROVE Line'
  <2>1. \A k \in Conns : gone[k] => gone'[k]
    BY <1>0, <1>8 DEF Leave, ConnType
  <2>. QED
    BY <1>2, <1>8, <2>1 DEF Leave, conn_vars
<1>9. CASE Broken \/ UNCHANGED vars
  BY <1>2, <1>9 DEF Broken, vars, conn_vars, fate_vars
<1>. QED
  BY <1>7, <1>8, <1>9, AskLine DEF Next

LEMMA Invariance == Spec => []IInv
<1>1. Init => IInv
  BY InitType, InitLine DEF IInv
<1>2. IInv /\ [Next]_vars => IInv'
  <2>. SUFFICES ASSUME IInv, [Next]_vars PROVE IInv'
    OBVIOUS
  <2>1. Types /\ LoopOk /\ Line /\ MessagesOk
    BY DEF IInv, Line
  <2>2. Types' /\ LoopOk'
    BY <2>1, NextType, NextLoop
  <2>3. Line'
    BY <2>1, <2>2, NextLine
  <2>. QED
    BY <2>2, <2>3 DEF IInv
<1>. QED
  BY <1>1, <1>2, PTL DEF Spec

(* The counters of every pipeline are in step: on_data_available never     *)
(* consumes what was not read, and every queue holds requests and          *)
(* responses about connections of the program only.                        *)
THEOREM TypesKept == Spec => []TypeOK
<1>1. IInv => TypeOK
  BY TypeParts DEF IInv
<1>. QED
  BY <1>1, Invariance, PTL

(* A shard answers the commands of one connection in their order,          *)
(* whichever of them are answered in the pipeline by cmd_<name> and which  *)
(* by __cmd_<name>_req: a reply of the one kind never overtakes one of the *)
(* other.                                                                  *)
THEOREM ShardAnswersInOrder == Spec => []SameShardInOrder
<1>1. IInv => SameShardInOrder
  <2>. SUFFICES ASSUME IInv, NEW c \in Conns,
                       NEW i \in DOMAIN Given(c), NEW j \in DOMAIN Given(c), i < j,
                       Executor(c, Given(c)[i].id) = Executor(c, Given(c)[j].id)
                PROVE  \/ Given(c)[i].id < Given(c)[j].id
                       \/ Given(c)[i].id = Given(c)[j].id /\ QuitAt(c, Given(c)[i].id)
    BY DEF SameShardInOrder, Given
  <2>1. ReplyOrder /\ ReplyType
    BY DEF IInv, Types, Line, Order
  <2>2. DOMAIN Given(c) = 1 .. Len(Given(c))
    BY <2>1, GivenFacts
  <2>. QED
    BY <2>1, <2>2 DEF ReplyOrder, Precedes
<1>. QED
  BY <1>1, Invariance, PTL

----------------------------------------------------------------------------
(* Counting the replies to a command *)

(* The places of a number in one of two sequences, and in their            *)
(* concatenation.                                                          *)
Places(s, id) == {i \in 1 .. Len(s) : s[i].id = id}

SomePlace(g, id) == \E i \in 1 .. Len(g) : g[i].id = id

OnePlace(g, id) == \A i, j \in 1 .. Len(g) : g[i].id = id /\ g[j].id = id => i = j

LEMMA CountParts ==
  ASSUME NEW S, NEW s \in Seq(S), NEW t \in Seq(S), NEW id
  PROVE  /\ Places(t, id) # {} \/ Places(s, id) # {} <=> SomePlace(s \o t, id)
         /\ OnePlace(s \o t, id) => /\ Places(t, id) = {} \/ Places(s, id) = {}
                                    /\ \A i, j \in Places(t, id) : i = j
                                    /\ \A i, j \in Places(s, id) : i = j
<1>. DEFINE C == Places(s, id)
            B == Places(t, id)
            g == s \o t
<1>0. Len(s) \in Nat /\ Len(t) \in Nat
  OBVIOUS
<1>1. /\ \A i \in 1 .. Len(s) : i \in 1 .. Len(g) /\ g[i] = s[i]
      /\ \A j \in 1 .. Len(t) : Len(s) + j \in 1 .. Len(g) /\ g[Len(s) + j] = t[j]
      /\ \A i \in 1 .. Len(g) : i \in 1 .. Len(s) \/ \E j \in 1 .. Len(t) : i = Len(s) + j
  <2>1. /\ Len(g) = Len(s) + Len(t)
        /\ \A i \in 1 .. Len(s) + Len(t) :
             g[i] = IF i <= Len(s) THEN s[i] ELSE t[i - Len(s)]
    BY ConcatProperties
  <2>2. ASSUME NEW i \in 1 .. Len(s) PROVE i \in 1 .. Len(g) /\ g[i] = s[i]
    <3>1. i \in 1 .. Len(s) + Len(t) /\ i <= Len(s)
      BY <1>0
    <3>. QED
      BY <2>1, <3>1
  <2>3. ASSUME NEW j \in 1 .. Len(t) PROVE Len(s) + j \in 1 .. Len(g) /\ g[Len(s) + j] = t[j]
    <3>1. /\ Len(s) + j \in 1 .. Len(s) + Len(t) /\ ~(Len(s) + j <= Len(s))
          /\ (Len(s) + j) - Len(s) = j
      BY <1>0
    <3>. QED
      BY <2>1, <3>1
  <2>4. ASSUME NEW i \in 1 .. Len(g), i \notin 1 .. Len(s)
        PROVE  \E j \in 1 .. Len(t) : i = Len(s) + j
    <3>1. i - Len(s) \in 1 .. Len(t) /\ i = Len(s) + (i - Len(s))
      BY <1>0, <2>1, <2>4
    <3>. QED
      BY <3>1
  <2>. QED
    BY <2>2, <2>3, <2>4
<1>. HIDE DEF C, B, g
<1>2. \A i \in C : i \in 1 .. Len(s) /\ i \in 1 .. Len(g) /\ g[i].id = id
  BY <1>1 DEF Places, B, C
<1>3. \A j \in B : j \in 1 .. Len(t) /\ Len(s) + j \in 1 .. Len(g) /\ g[Len(s) + j].id = id
  BY <1>1 DEF Places, B, C
<1>4. ASSUME NEW i \in 1 .. Len(g), g[i].id = id PROVE B # {} \/ C # {}
  <2>1. CASE i \in 1 .. Len(s)
    <3>1. i \in C
      BY <1>1, <1>4, <2>1 DEF Places, B, C
    <3>. QED
      BY <3>1
  <2>2. CASE \E j \in 1 .. Len(t) : i = Len(s) + j
    <3>1. PICK j \in 1 .. Len(t) : i = Len(s) + j
      BY <2>2
    <3>2. j \in B
      BY <1>1, <1>4, <3>1 DEF Places, B, C
    <3>. QED
      BY <3>2
  <2>. QED
    BY <1>1, <2>1, <2>2
<1>5. ASSUME \A i, j \in 1 .. Len(g) : g[i].id = id /\ g[j].id = id => i = j
      PROVE  /\ B = {} \/ C = {}
             /\ \A i, j \in B : i = j
             /\ \A i, j \in C : i = j
  <2>1. ASSUME NEW i \in C, NEW j \in B PROVE FALSE
    <3>1. i = Len(s) + j
      BY <1>2, <1>3, <1>5
    <3>2. i \in 1 .. Len(s) /\ j \in 1 .. Len(t)
      BY <1>2, <1>3
    <3>. QED
      BY <1>0, <3>1, <3>2
  <2>2. ASSUME NEW i \in B, NEW j \in B PROVE i = j
    <3>1. Len(s) + i = Len(s) + j
      BY <1>3, <1>5
    <3>2. i \in 1 .. Len(t) /\ j \in 1 .. Len(t)
      BY <1>3
    <3>. QED
      BY <1>0, <3>1, <3>2
  <2>3. ASSUME NEW i \in C, NEW j \in C PROVE i = j
    BY <1>2, <1>5
  <2>. QED
    BY <2>1, <2>2, <2>3
<1>6. /\ B # {} \/ C # {} <=> SomePlace(g, id)
      /\ OnePlace(g, id) => /\ B = {} \/ C = {}
                            /\ \A i, j \in B : i = j
                            /\ \A i, j \in C : i = j
  BY <1>2, <1>3, <1>4, <1>5 DEF SomePlace, OnePlace
<1>. QED
  BY <1>6 DEF B, C, g

(* A command is on its way in one message, ... *)
LEMMA OneMessage ==
  ASSUME IInv, NEW c \in Conns, NEW id \in Nat,
         NEW r \in Reactors, NEW i \in 1 .. Len(cb_queue[r]),
         NEW s \in Reactors, NEW j \in 1 .. Len(cb_queue[s]),
         cb_queue[r][i].conn = c, cb_queue[r][i].id = id,
         cb_queue[s][j].conn = c, cb_queue[s][j].id = id
  PROVE  r = s /\ i = j
<1>0. Types /\ MessagesOk /\ QueueOrder /\ CrossOrder
  BY DEF IInv, Line, Order
<1>1. ~Precedes(c, id, id)
  BY DEF Precedes
<1>2. PICK y : y = cb_queue[r][i]
  OBVIOUS
<1>3. PICK z : z = cb_queue[s][j]
  OBVIOUS
<1>4. /\ MessageOk(r, y) /\ y.kind \in {"req", "resp"}
      /\ MessageOk(s, z) /\ z.kind \in {"req", "resp"}
  BY <1>0, <1>2, <1>3, MessageFacts
<1>5. r = s
  BY <1>0, <1>1, <1>2, <1>3, <1>4 DEF MessageOk, CrossOrder
<1>6. ~(i < j) /\ ~(j < i)
  BY <1>0, <1>1, <1>5 DEF QueueOrder
<1>. QED
  BY <1>5, <1>6

(* ... or answered once, ... *)
LEMMA OneReply ==
  ASSUME IInv, NEW c \in Conns, NEW id \in 1 .. handled[c]
  PROVE  \A i, j \in 1 .. Len(Given(c)) : Given(c)[i].id = id /\ Given(c)[j].id = id => i = j
<1>. SUFFICES ASSUME NEW i \in 1 .. Len(Given(c)), NEW j \in 1 .. Len(Given(c)),
                     Given(c)[i].id = id, Given(c)[j].id = id
              PROVE  i = j
  OBVIOUS
<1>1. ~Precedes(c, id, id)
  BY DEF Precedes
<1>2. ~QuitAt(c, id)
  BY DEF IInv, Line, EndedOk
<1>3. ~(i < j) /\ ~(j < i)
  BY <1>1, <1>2 DEF IInv, Line, Order, ReplyOrder
<1>. QED
  BY <1>3

(* ... and not both. *)
LEMMA NotBoth ==
  ASSUME IInv, NEW c \in Conns, NEW r \in Reactors, NEW j \in 1 .. Len(cb_queue[r]),
         cb_queue[r][j].conn = c, NEW i \in 1 .. Len(Given(c))
  PROVE  Given(c)[i].id # cb_queue[r][j].id
<1>1. Types /\ MessagesOk /\ RepliesFirst
  BY DEF IInv, Line, Order
<1>2. PICK y : y = cb_queue[r][j]
  OBVIOUS
<1>3. Precedes(c, Given(c)[i].id, y.id) /\ y.id \in Nat
  BY <1>1, <1>2, MessageFacts DEF RepliesFirst
<1>. QED
  BY <1>2, <1>3 DEF Precedes

(* A dispatched command is executed once, and its response is neither lost *)
(* nor applied twice: __cmd_<name>_req and __cmd_<name>_resp pass every    *)
(* command on exactly once, and only a QUIT, which on_data_available       *)
(* leaves in the buffer, may have replies without being consumed.          *)
THEOREM CommandsOnce == Spec => []EachCommandOnce
<1>1. ASSUME IInv PROVE EachCommandOnce
  <2>. SUFFICES ASSUME NEW c \in Conns, ~gone[c], NEW id \in 1 .. Len(asked[c])
                PROVE  IF id <= handled[c] THEN RepliesTo(c, id) = 1 /\ ~QuitAt(c, id)
                       ELSE RepliesTo(c, id) > 0 => id = handled[c] + 1 /\ QuitAt(c, id) /\ ended[c]
    BY DEF EachCommandOnce
  <2>. DEFINE A == {m \in InFlight(c) : Message(m).id = id}
              B == {i \in DOMAIN send[c] : send[c][i].id = id}
              C == {i \in DOMAIN seen[c] : seen[c][i].id = id}
              Unique == \A i, j \in 1 .. Len(Given(c)) :
                          Given(c)[i].id = id /\ Given(c)[j].id = id => i = j
              Answered == \E i \in 1 .. Len(Given(c)) : Given(c)[i].id = id
  <2>0. /\ Types /\ PipelineType /\ ReplyType /\ QueueType
        /\ MessagesOk /\ EndedOk /\ RepliesOk /\ NoneLost
        /\ id \in Nat /\ handled[c] \in Nat
    BY <1>1 DEF IInv, Types, Line, PipelineType
  <2>1. RepliesTo(c, id) = Cardinality(A) + Cardinality(B) + Cardinality(C)
    BY DEF RepliesTo
  <2>2. \A p : p \in A <=>
          \E r \in Reactors : \E i \in 1 .. Len(cb_queue[r]) :
            p = <<r, i>> /\ cb_queue[r][i].conn = c /\ cb_queue[r][i].id = id
    <3>1. \A r \in Reactors : DOMAIN cb_queue[r] = 1 .. Len(cb_queue[r])
      BY <2>0 DEF QueueType
    <3>. QED
      BY <3>1 DEF InFlight, Message
  <2>3. /\ B # {} \/ C # {} <=> Answered
        /\ Unique => /\ B = {} \/ C = {}
                     /\ \A i, j \in B : i = j
                     /\ \A i, j \in C : i = j
    <3>. HIDE DEF ReplyMessage
    <3>1. seen[c] \in Seq(ReplyMessage) /\ send[c] \in Seq(ReplyMessage)
      BY <2>0 DEF ReplyType
    <3>. DEFINE s == seen[c]
                t == send[c]
    <3>2. /\ C = Places(s, id) /\ B = Places(t, id) /\ Given(c) = s \o t
          /\ (Answered <=> SomePlace(Given(c), id)) /\ (Unique <=> OnePlace(Given(c), id))
      BY <3>1 DEF Given, Places, SomePlace, OnePlace
    <3>3. s \in Seq(ReplyMessage) /\ t \in Seq(ReplyMessage)
      BY <3>1
    <3>. HIDE DEF B, C, s, t, Answered, Unique
    <3>. QED
      BY <3>2, <3>3, CountParts
  <2>. HIDE DEF A, B, C
  <2>4. \A p, q \in A : p = q
    <3>. SUFFICES ASSUME NEW p \in A, NEW q \in A PROVE p = q
      OBVIOUS
    <3>1. PICK r \in Reactors : \E i \in 1 .. Len(cb_queue[r]) :
            p = <<r, i>> /\ cb_queue[r][i].conn = c /\ cb_queue[r][i].id = id
      BY <2>2
    <3>2. PICK i \in 1 .. Len(cb_queue[r]) :
            p = <<r, i>> /\ cb_queue[r][i].conn = c /\ cb_queue[r][i].id = id
      BY <3>1
    <3>3. PICK s \in Reactors : \E j \in 1 .. Len(cb_queue[s]) :
            q = <<s, j>> /\ cb_queue[s][j].conn = c /\ cb_queue[s][j].id = id
      BY <2>2
    <3>4. PICK j \in 1 .. Len(cb_queue[s]) :
            q = <<s, j>> /\ cb_queue[s][j].conn = c /\ cb_queue[s][j].id = id
      BY <3>3
    <3>5. r = s /\ i = j
      BY <1>1, <2>0, <3>2, <3>4, OneMessage
    <3>. QED
      BY <3>2, <3>4, <3>5
  <2>5. A # {} => ~Answered
    BY <1>1, <2>2, NotBoth
  <2>6. CASE id <= handled[c]
    <3>1. id \in 1 .. handled[c]
      BY <2>0, <2>6
    <3>2. ~QuitAt(c, id)
      BY <2>0, <3>1 DEF EndedOk
    <3>3. Unique
      BY <1>1, <3>1, OneReply
    <3>4. A # {} \/ Answered
      <4>1. AnsweredOrOnItsWay(c, id)
        BY <2>0, <3>1 DEF NoneLost
      <4>2. ASSUME NEW r \in Reactors, NEW i \in 1 .. Len(cb_queue[r]),
                   cb_queue[r][i].conn = c, cb_queue[r][i].id = id
            PROVE  A # {}
        <5>1. <<r, i>> \in A
          BY <2>2, <4>2
        <5>. QED
          BY <5>1
      <4>. QED
        BY <4>1, <4>2 DEF AnsweredOrOnItsWay
    <3>. HIDE DEF Unique, Answered
    <3>5. \/ \E p : A = {p} /\ B = {} /\ C = {}
          \/ \E p : A = {} /\ B = {p} /\ C = {}
          \/ \E p : A = {} /\ B = {} /\ C = {p}
      <4>1. CASE A # {}
        <5>1. PICK p \in A : TRUE
          BY <4>1
        <5>2. A = {p}
          BY <2>4
        <5>. QED
          BY <2>3, <2>5, <4>1, <5>2
      <4>2. CASE A = {} /\ B # {}
        <5>1. PICK p \in B : TRUE
          BY <4>2
        <5>2. B = {p} /\ C = {}
          BY <2>3, <3>3, <4>2
        <5>. QED
          BY <4>2, <5>2
      <4>3. CASE A = {} /\ B = {}
        <5>1. PICK p \in C : TRUE
          BY <2>3, <3>4, <4>3
        <5>2. C = {p}
          BY <2>3, <3>3
        <5>. QED
          BY <4>3, <5>2
      <4>. QED
        BY <4>1, <4>2, <4>3
    <3>6. RepliesTo(c, id) = 1
      <4>1. Cardinality({}) = 0 /\ \A p : Cardinality({p}) = 1
        BY FS_EmptySet, FS_Singleton
      <4>2. \/ Cardinality(A) = 1 /\ Cardinality(B) = 0 /\ Cardinality(C) = 0
            \/ Cardinality(A) = 0 /\ Cardinality(B) = 1 /\ Cardinality(C) = 0
            \/ Cardinality(A) = 0 /\ Cardinality(B) = 0 /\ Cardinality(C) = 1
        BY <3>5, <4>1
      <4>. QED
        BY <2>1, <4>2
    <3>. QED
      BY <2>6, <3>2, <3>6
  <2>7. CASE ~(id <= handled[c])
    <3>1. A = {}
      <4>. SUFFICES ASSUME NEW p \in A PROVE FALSE
        OBVIOUS
      <4>1. PICK r \in Reactors : \E i \in 1 .. Len(cb_queue[r]) :
              cb_queue[r][i].conn = c /\ cb_queue[r][i].id = id
        BY <2>2
      <4>2. PICK i \in 1 .. Len(cb_queue[r]) :
              cb_queue[r][i].conn = c /\ cb_queue[r][i].id = id
        BY <4>1
      <4>3. id <= handled[c]
        BY <2>0, <4>2, MessageFacts
      <4>. QED
        BY <2>7, <4>3
    <3>2. ASSUME RepliesTo(c, id) > 0
          PROVE  id = handled[c] + 1 /\ QuitAt(c, id) /\ ended[c]
      <4>1. B # {} \/ C # {}
        <5>. SUFFICES ASSUME B = {}, C = {} PROVE FALSE
          OBVIOUS
        <5>1. Cardinality({}) = 0
          BY FS_EmptySet
        <5>2. Cardinality(A) = 0 /\ Cardinality(B) = 0 /\ Cardinality(C) = 0
          BY <3>1, <5>1
        <5>. QED
          BY <2>1, <3>2, <5>2
      <4>2. PICK i \in 1 .. Len(Given(c)) : Given(c)[i].id = id
        BY <2>3, <4>1
      <4>3. id \in 1 .. handled[c] \/ (id = NextId(c) /\ ended[c] /\ QuitAt(c, NextId(c)))
        BY <2>0, <4>2 DEF RepliesOk
      <4>. QED
        BY <2>0, <2>7, <4>3 DEF NextId
    <3>. QED
      BY <2>7, <3>2
  <2>. QED
    BY <2>6, <2>7
<1>. QED
  BY <1>1, Invariance, PTL

----------------------------------------------------------------------------
(* Waiting for a response, and freed connections *)

OnItsWay(c) == \E r \in Reactors : \E i \in 1 .. Len(cb_queue[r]) : cb_queue[r][i].conn = c

Waits == \A c \in Conns : waiting[c] => OnItsWay(c)

(* A connection is freed with a message about it on its way only when its  *)
(* client has gone, or when it stands at a QUIT sent ahead.                *)
Closed ==
  \A c \in Conns : ~open[c] => gone[c] \/ ~OnItsWay(c) \/ (Window > 1 /\ Stuck(c))

LEMMA InFlightFacts ==
  ASSUME QueueType, NEW c \in Conns
  PROVE  InFlight(c) # {} <=> OnItsWay(c)
<1>1. \A r \in Reactors : DOMAIN cb_queue[r] = 1 .. Len(cb_queue[r])
  BY DEF QueueType
<1>2. \A p : p \in InFlight(c) <=>
        \E r \in Reactors : \E i \in 1 .. Len(cb_queue[r]) :
          p = <<r, i>> /\ cb_queue[r][i].conn = c
  BY <1>1 DEF InFlight
<1>3. ASSUME InFlight(c) # {} PROVE OnItsWay(c)
  <2>1. PICK p \in InFlight(c) : TRUE
    BY <1>3
  <2>. QED
    BY <1>2, <2>1 DEF OnItsWay
<1>4. ASSUME NEW r \in Reactors, NEW i \in 1 .. Len(cb_queue[r]), cb_queue[r][i].conn = c
      PROVE  InFlight(c) # {}
  <2>1. <<r, i>> \in InFlight(c)
    BY <1>2, <1>4
  <2>. QED
    BY <2>1
<1>. QED
  BY <1>3, <1>4 DEF OnItsWay

(* What a change of the queues does to the connections on the way. *)
LEMMA OnItsWayAfter ==
  ASSUME NEW drop, NEW h, NEW m, QueueChange(drop, h, m), NEW k
  PROVE  /\ OnItsWay(k)' => OnItsWay(k) \/ (h \in Reactors /\ m.conn = k)
         /\ h \in Reactors /\ m.conn = k => OnItsWay(k)'
         /\ OnItsWay(k) => \/ OnItsWay(k)'
                           \/ \E s \in Reactors : drop[s] = 1 /\ cb_queue[s][1].conn = k
<1>1. ASSUME NEW s \in Reactors, NEW i \in 1 .. Len(cb_queue'[s]), cb_queue'[s][i].conn = k
      PROVE  OnItsWay(k) \/ (h \in Reactors /\ m.conn = k)
  <2>1. \/ s = h /\ cb_queue'[s][i] = m
        \/ i + drop[s] \in 1 .. Len(cb_queue[s]) /\ cb_queue'[s][i] = cb_queue[s][i + drop[s]]
    BY QueueBefore
  <2>. QED
    BY <1>1, <2>1 DEF OnItsWay
<1>2. ASSUME h \in Reactors, m.conn = k PROVE OnItsWay(k)'
  <2>1. Len(cb_queue'[h]) \in 1 .. Len(cb_queue'[h]) /\ cb_queue'[h][Len(cb_queue'[h])] = m
    BY <1>2, QueueAfter
  <2>. QED
    BY <1>2, <2>1 DEF OnItsWay
<1>3. ASSUME NEW s \in Reactors, NEW j \in 1 .. Len(cb_queue[s]), cb_queue[s][j].conn = k,
             ~\E t \in Reactors : drop[t] = 1 /\ cb_queue[t][1].conn = k
      PROVE  OnItsWay(k)'
  <2>1. drop[s] \in {0, 1} /\ Len(cb_queue[s]) \in Nat
    BY DEF QueueChange, Follows
  <2>2. j \in 1 + drop[s] .. Len(cb_queue[s])
    <3>1. ~(drop[s] = 1 /\ j = 1)
      BY <1>3
    <3>. QED
      BY <2>1, <3>1
  <2>3. j - drop[s] \in 1 .. Len(cb_queue'[s]) /\ cb_queue'[s][j - drop[s]] = cb_queue[s][j]
    BY <2>2, QueueAfter
  <2>. QED
    BY <1>3, <2>3 DEF OnItsWay
<1>. QED
  BY <1>1, <1>2, <1>3 DEF OnItsWay

LEMMA OnItsWaySame ==
  ASSUME UNCHANGED cb_queue
  PROVE  \A k : OnItsWay(k)' <=> OnItsWay(k)
BY DEF OnItsWay

(* The two callbacks: whom the message is about that they take. *)
LEMMA CallbackFacts ==
  ASSUME IInv, NEW r \in Reactors, PollRequest(r) \/ PollResponse(r)
  PROVE  /\ \A k : OnItsWay(k)' => OnItsWay(k)
         /\ \A k : OnItsWay(k) => OnItsWay(k)' \/ (PollResponse(r) /\ First(r).conn = k)
         /\ First(r).conn \in Conns
<1>0. /\ Types /\ MessagesOk /\ QueueType /\ -1 \notin Reactors
  BY BoundAssumption DEF IInv, Types, Line, Reactors
<1>1. cb_queue[r] # << >>
  BY DEF PollRequest, PollResponse
<1>2. 1 \in 1 .. Len(cb_queue[r]) /\ First(r) = cb_queue[r][1]
  BY <1>0, <1>1 DEF QueueType, First
<1>3. PICK y : y = First(r)
  OBVIOUS
<1>4. /\ y \in Request \cup Response /\ y.conn \in Conns /\ y.id \in Nat /\ MessageOk(r, y)
  BY <1>0, <1>2, <1>3, MessageFacts
<1>5. CASE PollResponse(r)
  <2>1. cb_queue' = [cb_queue EXCEPT ![r] = Tail(cb_queue[r])]
    BY <1>5 DEF PollResponse
  <2>2. QueueChange(Take(r), -1, 0)
    BY <1>0, <1>1, <2>1, QueueTail
  <2>3. \A s \in Reactors : Take(r)[s] = 1 => s = r
    BY DEF Take
  <2>. QED
    BY <1>0, <1>2, <1>3, <1>4, <1>5, <2>2, <2>3, OnItsWayAfter
<1>6. CASE PollRequest(r)
  <2>1. PICK o \in Reactors : o = Owner[y.conn]
    BY <1>4, OwnerAssumption
  <2>2. PICK m : m = [kind |-> "resp", conn |-> y.conn, id |-> y.id,
                      value |-> Executed(r, db[y.conn], asked[y.conn][y.id])]
    OBVIOUS
  <2>3. y.kind = "req" /\ Executor(y.conn, y.id) = r /\ o # r /\ m.conn = y.conn
    BY <1>3, <1>4, <1>6, <2>1, <2>2 DEF PollRequest, MessageOk
  <2>4. cb_queue' = [cb_queue EXCEPT ![r] = Tail(@), ![o] = Append(@, m)]
    BY <1>3, <1>6, <2>1, <2>2 DEF PollRequest
  <2>5. m \in Request \cup Response
    <3>1. /\ StoreType /\ db[y.conn] \in Dbs /\ asked[y.conn] \in Seq(Commandset)
          /\ y.id \in 1 .. Len(asked[y.conn])
      BY <1>0, <1>4 DEF Types, ConnType, PipelineType, MessageOk
    <3>2. asked[y.conn][y.id] \in Commandset /\ asked[y.conn][y.id].op \in KeyedOps
      BY <2>1, <2>3, <3>1 DEF Executor
    <3>3. Update(r, db[y.conn], asked[y.conn][y.id])
      BY <1>3, <1>6 DEF PollRequest
    <3>4. Executed(r, db[y.conn], asked[y.conn][y.id]) \in ReplyValues
      BY <3>1, <3>2, <3>3, UpdateFacts
    <3>. QED
      BY <1>4, <2>2, <3>4 DEF Response
  <2>6. QueueChange(Take(r), o, m)
    BY <1>0, <1>1, <2>3, <2>4, <2>5, QueueMove
  <2>7. OnItsWay(y.conn) /\ \A s \in Reactors : Take(r)[s] = 1 => s = r
    BY <1>2, <1>3 DEF OnItsWay, Take
  <2>. QED
    BY <1>2, <1>3, <1>4, <2>3, <2>6, <2>7, OnItsWayAfter
<1>. QED
  BY <1>5, <1>6

(* A dispatch: a message about c is added. *)
LEMMA DispatchFacts ==
  ASSUME IInv, NEW r \in Reactors, NEW c \in Conns, HandleDispatch(r, c)
  PROVE  /\ \A k : OnItsWay(k)' => OnItsWay(k) \/ k = c
         /\ \A k : OnItsWay(k) => OnItsWay(k)'
         /\ OnItsWay(c)'
<1>0. Types /\ QueueType /\ PipelineType
  BY DEF IInv, Types
<1>1. Called(r, c) /\ Current(c).op \in KeyedOps
  BY DEF HandleDispatch
<1>2. PICK h \in Reactors : h = Home[Current(c).key]
  BY <1>0, <1>1, CalledFacts, CommandAssumption, HomeAssumption
<1>3. PICK m : m = [kind |-> "req", conn |-> c, id |-> NextId(c)]
  OBVIOUS
<1>4. m \in Request \cup Response /\ m.conn = c
  BY <1>0, <1>1, <1>3, CalledFacts DEF Request, NextId
<1>5. cb_queue' = [cb_queue EXCEPT ![h] = Append(cb_queue[h], m)]
  BY <1>2, <1>3 DEF HandleDispatch
<1>6. QueueChange(Keep, h, m)
  BY <1>0, <1>4, <1>5, QueueAppend
<1>7. \A s \in Reactors : Keep[s] # 1
  BY DEF Keep
<1>. QED
  BY <1>4, <1>6, <1>7, OnItsWayAfter

LEMMA NextWaits ==
  ASSUME IInv, Waits, [Next]_vars
  PROVE  Waits'
<1>0. Types /\ ConnType /\ QueueType
  BY DEF IInv, Types
<1>1. ASSUME UNCHANGED <<waiting, cb_queue>> PROVE Waits'
  BY <1>1, OnItsWaySame DEF Waits
<1>2. ASSUME NEW r \in Reactors, PollRequest(r) PROVE Waits'
  <2>1. UNCHANGED waiting /\ ~PollResponse(r)
    BY <1>2 DEF PollRequest, PollResponse, conn_vars
  <2>. QED
    BY <1>2, <2>1, CallbackFacts DEF Waits
<1>3. ASSUME NEW r \in Reactors, PollResponse(r) PROVE Waits'
  <2>1. waiting' = [waiting EXCEPT ![First(r).conn] = FALSE]
    BY <1>3 DEF PollResponse
  <2>. QED
    BY <1>0, <1>3, <2>1, CallbackFacts DEF Waits, ConnType
<1>4. ASSUME NEW r \in Reactors, NEW c \in Conns, HandleDispatch(r, c) PROVE Waits'
  <2>1. waiting' = [waiting EXCEPT ![c] = TRUE]
    BY <1>4 DEF HandleDispatch
  <2>. QED
    BY <1>0, <1>4, <2>1, DispatchFacts DEF Waits, ConnType
<1>5. ASSUME NEW r \in Reactors, NEW c \in Conns, HandleStep(r, c) PROVE Waits'
  BY <1>1, <1>4, <1>5 DEF HandleStep, HandlePing, HandleQuit, HandleSelect, HandleInline,
     FlushMap, FlushDone, conn_vars
<1>6. ASSUME NEW r \in Reactors, Step(r) PROVE Waits'
  <2>1. ASSUME NEW c \in Conns, EpollIn(r, c) \/ EpollEnd(r, c) PROVE Waits'
    BY <1>1, <2>1 DEF EpollIn, EpollEnd
  <2>2. CASE \/ Flush(r) \/ FlushKilled(r) \/ PollDangling(r) \/ CallbackDone(r)
             \/ EpollWait(r) \/ EventsDone(r)
    BY <1>1, <2>2 DEF Flush, FlushKilled, PollDangling, CallbackDone, EpollWait, EventsDone,
       conn_vars
  <2>. QED
    BY <1>2, <1>3, <1>5, <1>6, <2>1, <2>2 DEF Step
<1>7. ASSUME NEW c \in Conns, Leave(c) \/ \E cmd \in Commandset : Ask(c, cmd) PROVE Waits'
  BY <1>1, <1>7 DEF Leave, Ask, conn_vars
<1>8. CASE Broken \/ UNCHANGED vars
  BY <1>1, <1>8 DEF Broken, vars, conn_vars
<1>. QED
  BY <1>6, <1>7, <1>8 DEF Next

(* DISPATCH_WAITING, for which reactor_epoll_on_epollin leaves what a      *)
(* connection sends unhandled, is never set without a message on its way   *)
(* that leads to __cmd_<name>_resp, which clears it.                       *)
THEOREM WaitingIsAnswered == Spec => []WaitingHasResponse
<1>1. Init => Waits
  BY DEF Init, Waits
<1>2. IInv /\ Waits /\ [Next]_vars => Waits'
  BY NextWaits
<1>3. IInv /\ Waits => WaitingHasResponse
  <2>. SUFFICES ASSUME IInv, Waits PROVE WaitingHasResponse
    OBVIOUS
  <2>1. QueueType
    BY DEF IInv, Types
  <2>. QED
    BY <2>1, InFlightFacts DEF Waits, WaitingHasResponse
<1>. QED
  BY <1>1, <1>2, <1>3, Invariance, PTL DEF Spec

LEMMA NextClosed ==
  ASSUME IInv, Closed, [Next]_vars
  PROVE  Closed'
<1>0. /\ Types /\ ConnType /\ PipelineType /\ QueueType /\ LoopType
      /\ LoopOk /\ EndedOk /\ OneAtATime
      /\ NoConn \notin Conns
  BY NothingAssumption DEF IInv, Types, Line
(* what stays a reason for a closed connection *)
<1>1. ASSUME NEW k \in Conns, ~open[k], gone[k] => gone'[k], OnItsWay(k)' => OnItsWay(k),
             asked'[k] = asked[k], handled'[k] = handled[k], read'[k] = read[k],
             ended[k] => ended'[k]
      PROVE  gone'[k] \/ ~OnItsWay(k)' \/ (Window > 1 /\ Stuck(k)')
  BY <1>1 DEF Closed, Stuck, NextId, QuitAt
<1>2. ASSUME UNCHANGED <<asked, handled, read, ended, open>>,
             \A k \in Conns : gone[k] => gone'[k],
             \A k \in Conns : OnItsWay(k)' => OnItsWay(k)
      PROVE  Closed'
  BY <1>1, <1>2 DEF Closed
<1>3. ASSUME UNCHANGED <<asked, handled, read, ended, open, cb_queue>>,
             \A k \in Conns : gone[k] => gone'[k]
      PROVE  Closed'
  BY <1>2, <1>3, OnItsWaySame
<1>4. ASSUME NEW r \in Reactors, NEW c \in Conns, NEW end \in BOOLEAN,
             Called(r, c), Proceed(r, c, end), end => QuitAt(c, NextId(c)),
             UNCHANGED cb_queue \/ ~end,
             \A k \in Conns : OnItsWay(k)' => OnItsWay(k) \/ k = c
      PROVE  Closed'
  <2>1. /\ handled' = [handled EXCEPT ![c] = IF end THEN @ ELSE @ + 1]
        /\ ended' = [ended EXCEPT ![c] = end]
        /\ open' = [open EXCEPT ![c] = open[c] /\ open'[c]]
        /\ ~open'[c] => ~open[c] \/ end \/ hangup[c]
        /\ UNCHANGED <<asked, read, gone>>
    BY <1>0, <1>4 DEF Proceed, ConnType, fate_vars
  <2>2. open[c] /\ handled[c] < read[c]
    BY <1>0, <1>4 DEF LoopOk, Called
  <2>. SUFFICES ASSUME NEW k \in Conns, ~open'[k]
                PROVE  gone'[k] \/ ~OnItsWay(k)' \/ (Window > 1 /\ Stuck(k)')
    BY DEF Closed
  <2>3. CASE k # c
    <3>1. /\ ~open[k] /\ handled'[k] = handled[k] /\ ended'[k] = ended[k]
          /\ asked'[k] = asked[k] /\ read'[k] = read[k] /\ gone'[k] = gone[k]
      BY <1>0, <2>1, <2>3 DEF PipelineType, ConnType
    <3>. QED
      BY <1>1, <1>4, <2>3, <3>1
  <2>4. CASE k = c
    <3>1. hangup[c] => gone'[c]
      BY <1>0, <2>1 DEF LoopOk
    <3>2. ASSUME end, ~gone[c] PROVE ~OnItsWay(c)' \/ (Window > 1 /\ Stuck(c)')
      <4>1. CASE Window <= 1
        <5>1. ~OnItsWay(c)
          BY <1>0, <1>4, <3>2, <4>1, PipelineAlone DEF OnItsWay
        <5>. QED
          BY <1>4, <3>2, <5>1, OnItsWaySame
      <4>2. CASE ~(Window <= 1)
        <5>1. Window > 1
          BY <4>2, BoundAssumption
        <5>2. handled'[c] = handled[c] /\ ended'[c] /\ read'[c] = read[c] /\ asked'[c] = asked[c]
          BY <1>0, <2>1, <3>2 DEF PipelineType, ConnType
        <5>. QED
          BY <1>4, <2>2, <3>2, <5>1, <5>2 DEF Stuck, NextId, QuitAt
      <4>. QED
        BY <4>1, <4>2
    <3>. QED
      BY <2>1, <2>2, <2>4, <3>1, <3>2
  <2>. QED
    BY <2>3, <2>4
<1>5. ASSUME NEW r \in Reactors, NEW c \in Conns, HandleStep(r, c) PROVE Closed'
  <2>1. CASE HandleQuit(r, c)
    <3>1. /\ Called(r, c) /\ Proceed(r, c, TRUE) /\ UNCHANGED cb_queue /\ QuitAt(c, NextId(c))
          /\ TRUE \in BOOLEAN
      BY <2>1 DEF HandleQuit, Current, QuitAt
    <3>2. \A k \in Conns : OnItsWay(k)' => OnItsWay(k)
      BY <3>1, OnItsWaySame
    <3>. QED
      BY <1>4, <3>1, <3>2
  <2>2. CASE FlushMap(r, c)
    BY <1>3, <2>2 DEF FlushMap, conn_vars, fate_vars
  <2>3. ASSUME Called(r, c), Proceed(r, c, ended[c]), ~QuitAt(c, NextId(c)),
               \A k \in Conns : OnItsWay(k)' => OnItsWay(k) \/ k = c
        PROVE  Closed'
    <3>1. open[c]
      BY <1>0, <2>3 DEF LoopOk, Called
    <3>2. ended[c] = FALSE
      BY <1>0, <2>3, <3>1 DEF EndedOk, ConnType
    <3>3. FALSE \in BOOLEAN
      OBVIOUS
    <3>. QED
      BY <1>4, <2>3, <3>2, <3>3
  <2>4. CASE HandlePing(r, c) \/ HandleSelect(r, c) \/ HandleInline(r, c) \/ FlushDone(r, c)
    <3>1. /\ Called(r, c) /\ Proceed(r, c, ended[c]) /\ UNCHANGED cb_queue
          /\ ~QuitAt(c, NextId(c))
      BY <2>4 DEF HandlePing, HandleSelect, HandleInline, FlushDone, KeyedOps, QuitAt, Current
    <3>. QED
      BY <2>3, <3>1, OnItsWaySame
  <2>5. CASE HandleDispatch(r, c)
    <3>1. Called(r, c) /\ Proceed(r, c, ended[c]) /\ ~QuitAt(c, NextId(c))
      BY <2>5 DEF HandleDispatch, KeyedOps, QuitAt, Current
    <3>. QED
      BY <2>3, <2>5, <3>1, DispatchFacts
  <2>. QED
    BY <1>5, <2>1, <2>2, <2>4, <2>5 DEF HandleStep
<1>6. ASSUME NEW r \in Reactors, PollRequest(r) \/ PollResponse(r) PROVE Closed'
  <2>1. UNCHANGED <<asked, handled, read, ended, open, gone>>
    BY <1>6 DEF PollRequest, PollResponse, conn_vars, fate_vars
  <2>2. \A k \in Conns : OnItsWay(k)' => OnItsWay(k)
    BY <1>6, CallbackFacts
  <2>. QED
    BY <1>2, <2>1, <2>2
<1>7. ASSUME NEW r \in Reactors, NEW c \in Conns, EpollIn(r, c) PROVE Closed'
  <2>1. /\ c \in events[r] /\ read' = [read EXCEPT ![c] = Len(asked[c])]
        /\ read[c] < Len(asked[c])
        /\ open' = open \/ open' = [open EXCEPT ![c] = ~ended[c] /\ ~hangup[c]]
        /\ UNCHANGED <<asked, handled, ended, cb_queue, gone>>
    BY <1>7 DEF EpollIn, Received, fate_vars
  <2>2. open[c]
    BY <1>0, <2>1 DEF LoopOk
  <2>3. \A k \in Conns : OnItsWay(k)' <=> OnItsWay(k)
    BY <2>1, OnItsWaySame
  <2>. SUFFICES ASSUME NEW k \in Conns, ~open'[k]
                PROVE  gone'[k] \/ ~OnItsWay(k)' \/ (Window > 1 /\ Stuck(k)')
    BY DEF Closed
  <2>4. CASE k # c
    <3>1. ~open[k] /\ read'[k] = read[k]
      BY <1>0, <2>1, <2>4 DEF PipelineType, ConnType
    <3>. QED
      BY <1>1, <2>1, <2>3, <3>1
  <2>5. CASE k = c
    <3>1. ended[c] \/ hangup[c]
      BY <1>0, <2>1, <2>2, <2>5 DEF ConnType
    <3>2. hangup[c] => gone'[c]
      BY <1>0, <2>1 DEF LoopOk
    <3>3. ASSUME ended[c], ~gone[c] PROVE ~OnItsWay(c) \/ (Window > 1 /\ Stuck(c)')
      <4>1. handled[c] < read[c] /\ QuitAt(c, NextId(c))
        BY <1>0, <2>2, <3>3 DEF EndedOk
      <4>2. Window <= 1 => ~OnItsWay(c)
        BY <1>0, <3>3 DEF OneAtATime, OnItsWay
      <4>3. handled'[c] < read'[c]
        <5>1. read'[c] = Len(asked[c]) /\ handled'[c] = handled[c]
          BY <1>0, <2>1 DEF PipelineType
        <5>2. /\ handled[c] \in Nat /\ read[c] \in Nat /\ read[c] <= Len(asked[c])
              /\ Len(asked[c]) \in Nat
          BY <1>0 DEF PipelineType
        <5>. QED
          BY <4>1, <5>1, <5>2
      <4>4. Stuck(c)'
        BY <2>1, <3>3, <4>1, <4>3 DEF Stuck, NextId, QuitAt
      <4>. QED
        BY <4>2, <4>4, BoundAssumption
    <3>. QED
      BY <2>1, <2>3, <2>5, <3>1, <3>2, <3>3
  <2>. QED
    BY <2>4, <2>5
<1>8. ASSUME NEW r \in Reactors, NEW c \in Conns, EpollEnd(r, c) PROVE Closed'
  <2>1. /\ gone[c] /\ ended' = [ended EXCEPT ![c] = TRUE] /\ open' = [open EXCEPT ![c] = FALSE]
        /\ UNCHANGED <<asked, handled, read, cb_queue, gone>>
    BY <1>8 DEF EpollEnd, fate_vars
  <2>2. \A k \in Conns : OnItsWay(k)' <=> OnItsWay(k)
    BY <2>1, OnItsWaySame
  <2>. SUFFICES ASSUME NEW k \in Conns, ~open'[k]
                PROVE  gone'[k] \/ ~OnItsWay(k)' \/ (Window > 1 /\ Stuck(k)')
    BY DEF Closed
  <2>3. CASE k # c
    <3>1. ~open[k] /\ (ended[k] => ended'[k])
      BY <1>0, <2>1, <2>3 DEF ConnType
    <3>. QED
      BY <1>1, <2>1, <2>2, <3>1
  <2>. QED
    BY <2>1, <2>3
<1>9. ASSUME NEW r \in Reactors, Step(r) PROVE Closed'
  <2>1. CASE \/ Flush(r) \/ FlushKilled(r) \/ PollDangling(r) \/ CallbackDone(r)
             \/ EpollWait(r) \/ EventsDone(r)
    BY <1>3, <2>1 DEF Flush, FlushKilled, PollDangling, CallbackDone, EpollWait, EventsDone,
       conn_vars, fate_vars
  <2>. QED
    BY <1>5, <1>6, <1>7, <1>8, <1>9, <2>1 DEF Step
<1>10. ASSUME NEW c \in Conns, Leave(c) PROVE Closed'
  <2>1. \A k \in Conns : gone[k] => gone'[k]
    BY <1>0, <1>10 DEF Leave, ConnType
  <2>. QED
    BY <1>3, <1>10, <2>1 DEF Leave, conn_vars
<1>11. ASSUME NEW c \in Conns, NEW cmd \in Commandset, Ask(c, cmd) PROVE Closed'
  <2>1. /\ asked' = [asked EXCEPT ![c] = Append(@, cmd)] /\ open[c]
        /\ UNCHANGED <<handled, read, ended, open, cb_queue, gone>>
    BY <1>11 DEF Ask, conn_vars, fate_vars
  <2>2. \A k \in Conns : ~open[k] => asked'[k] = asked[k]
    BY <1>0, <2>1 DEF PipelineType
  <2>3. \A k \in Conns : OnItsWay(k)' => OnItsWay(k)
    BY <2>1, OnItsWaySame
  <2>. QED
    BY <1>1, <2>1, <2>2, <2>3 DEF Closed
<1>12. CASE Broken \/ UNCHANGED vars
  BY <1>3, <1>12 DEF Broken, vars, conn_vars, fate_vars
<1>. QED
  BY <1>9, <1>10, <1>11, <1>12 DEF Next

(* on_close frees a connection whatever is on its way about it.  With a    *)
(* client that waits for each reply this needs the client to go away; QUIT *)
(* alone leaves a message behind only when it was sent ahead of replies.   *)
THEOREM OnlyClientsDangle == Spec => []DanglingNeedsClient
<1>1. Init => Closed
  BY DEF Init, Closed
<1>2. IInv /\ Closed /\ [Next]_vars => Closed'
  BY NextClosed
<1>3. IInv /\ Closed => DanglingNeedsClient
  <2>. SUFFICES ASSUME IInv, Closed PROVE DanglingNeedsClient
    OBVIOUS
  <2>1. QueueType
    BY DEF IInv, Types
  <2>. QED
    BY <2>1, InFlightFacts DEF Closed, DanglingNeedsClient, Stuck
<1>. QED
  BY <1>1, <1>2, <1>3, Invariance, PTL DEF Spec

----------------------------------------------------------------------------
(* What clients see that wait for each reply: Dispatch implements          *)
(* KvService.  Every connection is in one of four stages, of which each    *)
(* step takes one connection to the next; what a client had seen when it   *)
(* went away is of no account.                                             *)

(* Between two replies such a client has not written its next command, ... *)
Idle(c) ==
  /\ gone[c] \/ Len(seen[c]) = Len(asked[c])
  /\ send[c] = << >>
  /\ handled[c] = Len(asked[c]) /\ ~OnItsWay(c)

(* ... has written it, but on_data_available has not come to it, ... *)
Written(c) ==
  /\ gone[c] \/ Len(seen[c]) + 1 = Len(asked[c])
  /\ send[c] = << >>
  /\ handled[c] + 1 = Len(asked[c]) /\ ~OnItsWay(c)

(* ... waits for another shard, ... *)
Dispatched(c) ==
  /\ gone[c] \/ Len(seen[c]) + 1 = Len(asked[c])
  /\ send[c] = << >>
  /\ handled[c] = Len(asked[c]) /\ OnItsWay(c)

(* ... or its reply is in send_buf; that to a QUIT stays there.  *)
Answered(c) ==
  /\ gone[c] \/ Len(seen[c]) + 1 = Len(asked[c])
  /\ Len(send[c]) = 1
  /\ open[c] => handled[c] = Len(asked[c])
  /\ ~OnItsWay(c)

Stage(c) == Idle(c) \/ Written(c) \/ Dispatched(c) \/ Answered(c)

Stages == \A c \in Conns : Stage(c)

(* A message is about the last command handled of its connection. *)
Alone ==
  \A r \in Reactors : \A i \in 1 .. Len(cb_queue[r]) :
    cb_queue[r][i].id = handled[cb_queue[r][i].conn]

(* Only the branch of an event finds a command in the pipeline. *)
Calm == \A r \in Reactors : at[r] # NoConn => phase[r] = "events"

(* The clearing of the maps is not left half done. *)
Clearing ==
  \A r \in Reactors : to_clear[r] # Maps =>
    /\ at[r] # NoConn /\ handled[at[r]] < read[at[r]]
    /\ Current(at[r]).op = "flushall"

SInv == Stages /\ Alone /\ Calm /\ Clearing

(* A step of the server is one of its promise, or changes nothing there. *)
Simulates == Service!Next \/ UNCHANGED <<Data, db, Awaited, Outcome, Uncleared>>

(* The server has something about c. *)
Busy(c) == handled[c] < Len(asked[c]) \/ OnItsWay(c) \/ send[c] # << >>

(* The messages about c after a step. *)
LEMMA InFlightBecomes ==
  ASSUME QueueType', NEW c \in Conns
  PROVE  InFlight(c)' # {} <=> OnItsWay(c)'
<1>1. \A r \in Reactors : DOMAIN cb_queue'[r] = 1 .. Len(cb_queue'[r])
  BY DEF QueueType
<1>2. \A p : p \in InFlight(c)' <=>
        \E r \in Reactors : \E i \in 1 .. Len(cb_queue'[r]) :
          p = <<r, i>> /\ cb_queue'[r][i].conn = c
  BY <1>1 DEF InFlight
<1>3. ASSUME InFlight(c)' # {} PROVE OnItsWay(c)'
  <2>1. PICK p \in InFlight(c)' : TRUE
    BY <1>3
  <2>. QED
    BY <1>2, <2>1 DEF OnItsWay
<1>4. ASSUME NEW r \in Reactors, NEW i \in 1 .. Len(cb_queue'[r]), cb_queue'[r][i].conn = c
      PROVE  InFlight(c)' # {}
  <2>1. <<r, i>> \in InFlight(c)'
    BY <1>2, <1>4
  <2>. QED
    BY <2>1
<1>. QED
  BY <1>3, <1>4 DEF OnItsWay

(* A client waits exactly while that is so, ... *)
LEMMA PendingIs ==
  ASSUME Types, NEW c \in Conns, Stage(c)
  PROVE  Pending(c) <=> Busy(c)
<1>1. /\ Len(asked[c]) \in Nat /\ Len(seen[c]) \in Nat /\ handled[c] \in Nat
      /\ handled[c] <= Len(asked[c]) /\ send[c] \in Seq(ReplyMessage)
      /\ InFlight(c) # {} <=> OnItsWay(c)
  <2>1. read[c] \in Nat /\ handled[c] <= read[c] /\ read[c] <= Len(asked[c])
    BY DEF Types, PipelineType
  <2>. QED
    BY <2>1, InFlightFacts DEF Types, PipelineType, ReplyType
<1>2. CASE gone[c]
  BY <1>1, <1>2 DEF Pending, Busy
<1>3. CASE ~gone[c]
  <2>1. Pending(c) <=> Len(seen[c]) < Len(asked[c])
    BY <1>3 DEF Pending
  <2>2. CASE Idle(c)
    BY <1>1, <1>3, <2>1, <2>2 DEF Busy, Idle
  <2>3. CASE Written(c)
    BY <1>1, <1>3, <2>1, <2>3 DEF Busy, Written
  <2>4. CASE Dispatched(c)
    BY <1>1, <1>3, <2>1, <2>4 DEF Busy, Dispatched
  <2>5. CASE Answered(c)
    <3>1. send[c] # << >>
      BY <2>5 DEF Answered
    <3>2. Len(seen[c]) < Len(asked[c])
      BY <1>1, <1>3, <2>5 DEF Answered
    <3>. QED
      BY <2>1, <3>1, <3>2 DEF Busy
  <2>. QED
    BY <2>2, <2>3, <2>4, <2>5 DEF Stage
<1>. QED
  BY <1>2, <1>3

(* ... after a step as before, ... *)
LEMMA PendingBecomes ==
  ASSUME Types', NEW c \in Conns, Stage(c)'
  PROVE  Pending(c)' <=> Busy(c)'
<1>1. /\ Len(asked'[c]) \in Nat /\ Len(seen'[c]) \in Nat /\ handled'[c] \in Nat
      /\ handled'[c] <= Len(asked'[c]) /\ send'[c] \in Seq(ReplyMessage)
      /\ InFlight(c)' # {} <=> OnItsWay(c)'
  <2>1. read'[c] \in Nat /\ handled'[c] <= read'[c] /\ read'[c] <= Len(asked'[c])
    BY DEF Types, PipelineType
  <2>2. InFlight(c)' # {} <=> OnItsWay(c)'
    BY InFlightBecomes DEF Types
  <2>. QED
    BY <2>1, <2>2 DEF Types, PipelineType, ReplyType
<1>2. CASE gone'[c]
  BY <1>1, <1>2 DEF Pending, Busy
<1>3. CASE ~gone'[c]
  <2>1. Pending(c)' <=> Len(seen'[c]) < Len(asked'[c])
    BY <1>3 DEF Pending
  <2>2. CASE Idle(c)'
    BY <1>1, <1>3, <2>1, <2>2 DEF Busy, Idle
  <2>3. CASE Written(c)'
    BY <1>1, <1>3, <2>1, <2>3 DEF Busy, Written
  <2>4. CASE Dispatched(c)'
    BY <1>1, <1>3, <2>1, <2>4 DEF Busy, Dispatched
  <2>5. CASE Answered(c)'
    <3>1. send'[c] # << >>
      BY <2>5 DEF Answered
    <3>2. Len(seen'[c]) < Len(asked'[c])
      BY <1>1, <1>3, <2>5 DEF Answered
    <3>. QED
      BY <2>1, <3>1, <3>2 DEF Busy
  <2>. QED
    BY <2>2, <2>3, <2>4, <2>5 DEF Stage
<1>. QED
  BY <1>2, <1>3

(* ... so that what it waits for changes only with it. *)
LEMMA AwaitedKept ==
  ASSUME Types, Types', NEW c \in Conns, Stage(c), Stage(c)', asked'[c] = asked[c],
         Busy(c)' <=> Busy(c)
  PROVE  Awaited'[c] = Awaited[c]
<1>1. Pending(c)' <=> Pending(c)
  BY PendingIs, PendingBecomes
<1>. QED
  BY <1>1 DEF Awaited

(* All of them. *)
LEMMA AwaitedSame ==
  ASSUME Types, Types', Stages, Stages', UNCHANGED asked,
         \A c \in Conns : Busy(c)' <=> Busy(c)
  PROVE  Awaited' = Awaited
<1>1. \A c \in Conns : Awaited'[c] = Awaited[c]
  BY AwaitedKept DEF Stages
<1>2. /\ Awaited' = [c \in Conns |-> Awaited'[c]]
      /\ Awaited = [c \in Conns |-> Awaited[c]]
  BY DEF Awaited
<1>. QED
  BY <1>1, <1>2

(* An answer v to c is on its way. *)
HasAnswer(c, v) ==
  \/ \E r \in Reactors : \E i \in 1 .. Len(cb_queue[r]) :
       cb_queue[r][i].conn = c /\ cb_queue[r][i].kind = "resp" /\ cb_queue[r][i].value = v
  \/ \E i \in 1 .. Len(send[c]) : send[c][i].value = v

(* the places of Answers, in queues q and send_buf s *)
PlacesIn(q, c) ==
  UNION {{<<r, i>> : i \in {j \in DOMAIN q[r] : q[r][j].conn = c}} : r \in Reactors}

AnswersIn(q, s, c) ==
  {q[m[1]][m[2]].value : m \in {n \in PlacesIn(q, c) : q[n[1]][n[2]].kind = "resp"}}
    \cup {s[i].value : i \in DOMAIN s}

(* An answer is the value of a response, or of a reply in send_buf: ... *)
LEMMA AnswersInFacts ==
  ASSUME NEW S, NEW q \in [Reactors -> Seq(S)], NEW T, NEW s \in Seq(T), NEW c, NEW v
  PROVE  v \in AnswersIn(q, s, c) <=>
           \/ \E r \in Reactors : \E i \in 1 .. Len(q[r]) :
                q[r][i].conn = c /\ q[r][i].kind = "resp" /\ q[r][i].value = v
           \/ \E i \in 1 .. Len(s) : s[i].value = v
<1>1. (\A r \in Reactors : DOMAIN q[r] = 1 .. Len(q[r])) /\ DOMAIN s = 1 .. Len(s)
  OBVIOUS
<1>2. \A p : p \in PlacesIn(q, c) <=>
        \E r \in Reactors : \E i \in 1 .. Len(q[r]) : p = <<r, i>> /\ q[r][i].conn = c
  BY <1>1 DEF PlacesIn
<1>3. ASSUME NEW r \in Reactors, NEW i \in 1 .. Len(q[r]),
             q[r][i].conn = c, q[r][i].kind = "resp", q[r][i].value = v
      PROVE  v \in AnswersIn(q, s, c)
  <2>1. PICK p : p = <<r, i>>
    OBVIOUS
  <2>2. p \in PlacesIn(q, c) /\ p[1] = r /\ p[2] = i
    BY <1>2, <1>3, <2>1
  <2>. QED
    BY <1>3, <2>2 DEF AnswersIn
<1>4. ASSUME NEW i \in 1 .. Len(s), s[i].value = v PROVE v \in AnswersIn(q, s, c)
  BY <1>1, <1>4 DEF AnswersIn
<1>5. ASSUME v \in AnswersIn(q, s, c), ~\E i \in 1 .. Len(s) : s[i].value = v
      PROVE  \E r \in Reactors : \E i \in 1 .. Len(q[r]) :
               q[r][i].conn = c /\ q[r][i].kind = "resp" /\ q[r][i].value = v
  <2>1. PICK p \in PlacesIn(q, c) : q[p[1]][p[2]].kind = "resp" /\ q[p[1]][p[2]].value = v
    BY <1>1, <1>5 DEF AnswersIn
  <2>2. PICK r \in Reactors : \E i \in 1 .. Len(q[r]) : p = <<r, i>> /\ q[r][i].conn = c
    BY <1>2
  <2>3. PICK i \in 1 .. Len(q[r]) : p = <<r, i>> /\ q[r][i].conn = c
    BY <2>2
  <2>4. p[1] = r /\ p[2] = i
    BY <2>3
  <2>. QED
    BY <2>1, <2>3, <2>4
<1>. QED
  BY <1>3, <1>4, <1>5

(* ... before a step ... *)
LEMMA AnswersFacts ==
  ASSUME QueueType, ReplyType, NEW c \in Conns, NEW v
  PROVE  v \in Answers(c) <=> HasAnswer(c, v)
<1>1. cb_queue \in [Reactors -> Seq(Request \cup Response)] /\ send[c] \in Seq(ReplyMessage)
  BY DEF QueueType, ReplyType
<1>2. Answers(c) = AnswersIn(cb_queue, send[c], c)
  BY DEF Answers, AnswersIn, InFlight, PlacesIn, Message
<1>. QED
  BY <1>1, <1>2, AnswersInFacts DEF HasAnswer

(* ... and after it. *)
LEMMA AnswersBecome ==
  ASSUME QueueType', ReplyType', NEW c \in Conns, NEW v
  PROVE  v \in Answers(c)' <=> HasAnswer(c, v)'
<1>1. cb_queue' \in [Reactors -> Seq(Request \cup Response)] /\ send'[c] \in Seq(ReplyMessage)
  BY DEF QueueType, ReplyType
<1>2. Answers(c)' = AnswersIn(cb_queue', send'[c], c)
  BY DEF Answers, AnswersIn, InFlight, PlacesIn, Message
<1>. QED
  BY <1>1, <1>2, AnswersInFacts DEF HasAnswer

(* Outcome is the answer, when there is no other, and NoReply without one: *)
(* before a step, ...                                                      *)
LEMMA OutcomeIs ==
  ASSUME Types, NEW c \in Conns
  PROVE  /\ (\A v : ~HasAnswer(c, v)) => Outcome[c] = NoReply
         /\ \A v : HasAnswer(c, v) /\ (\A w : HasAnswer(c, w) => w = v) => Outcome[c] = v
<1>1. \A v : v \in Answers(c) <=> HasAnswer(c, v)
  BY AnswersFacts DEF Types
<1>2. Outcome[c] = IF Answers(c) = {} THEN NoReply ELSE CHOOSE v \in Answers(c) : TRUE
  BY DEF Outcome
<1>3. ASSUME NEW v, HasAnswer(c, v), \A w : HasAnswer(c, w) => w = v
      PROVE  Outcome[c] = v
  <2>1. Answers(c) # {} /\ \A w \in Answers(c) : w = v
    BY <1>1, <1>3
  <2>2. (CHOOSE w \in Answers(c) : TRUE) \in Answers(c)
    BY <2>1
  <2>. QED
    BY <1>2, <2>1, <2>2
<1>. QED
  BY <1>1, <1>2, <1>3

(* ... after it, ... *)
LEMMA OutcomeBecomes ==
  ASSUME Types', NEW c \in Conns
  PROVE  /\ (\A v : ~HasAnswer(c, v)') => Outcome'[c] = NoReply
         /\ \A v : HasAnswer(c, v)' /\ (\A w : HasAnswer(c, w)' => w = v) => Outcome'[c] = v
<1>1. \A v : v \in Answers(c)' <=> HasAnswer(c, v)'
  BY AnswersBecome DEF Types
<1>2. Outcome'[c] = IF Answers(c)' = {} THEN NoReply ELSE CHOOSE v \in Answers(c)' : TRUE
  BY DEF Outcome
<1>3. ASSUME NEW v, HasAnswer(c, v)', \A w : HasAnswer(c, w)' => w = v
      PROVE  Outcome'[c] = v
  <2>1. Answers(c)' # {} /\ \A w \in Answers(c)' : w = v
    BY <1>1, <1>3
  <2>2. (CHOOSE w \in Answers(c)' : TRUE) \in Answers(c)'
    BY <2>1
  <2>. QED
    BY <1>2, <2>1, <2>2
<1>. QED
  BY <1>1, <1>2, <1>3

(* ... and the same when the answers are the same. *)
LEMMA OutcomeKept ==
  ASSUME Types, Types', NEW c \in Conns, \A v : HasAnswer(c, v)' <=> HasAnswer(c, v)
  PROVE  Outcome'[c] = Outcome[c]
<1>1. \A v : v \in Answers(c) <=> HasAnswer(c, v)
  BY AnswersFacts DEF Types
<1>2. \A v : v \in Answers(c)' <=> HasAnswer(c, v)'
  BY AnswersBecome DEF Types
<1>3. Answers(c)' = Answers(c)
  BY <1>1, <1>2
<1>. QED
  BY <1>3 DEF Outcome

(* A change of the queues, for a connection of which no answer is taken or *)
(* added.                                                                  *)
LEMMA AnswersKept ==
  ASSUME NEW drop, NEW h, NEW m, QueueChange(drop, h, m), NEW k \in Conns,
         \A s \in Reactors :
           drop[s] = 1 => cb_queue[s][1].conn # k \/ cb_queue[s][1].kind = "req",
         h \in Reactors => m.conn # k \/ m.kind = "req",
         send'[k] = send[k]
  PROVE  \A v : HasAnswer(k, v)' <=> HasAnswer(k, v)
<1>. SUFFICES ASSUME NEW v PROVE HasAnswer(k, v)' <=> HasAnswer(k, v)
  OBVIOUS
<1>1. ASSUME NEW s \in Reactors, NEW i \in 1 .. Len(cb_queue'[s]),
             cb_queue'[s][i].conn = k, cb_queue'[s][i].kind = "resp", cb_queue'[s][i].value = v
      PROVE  HasAnswer(k, v)
  <2>1. \/ s = h /\ cb_queue'[s][i] = m
        \/ i + drop[s] \in 1 .. Len(cb_queue[s]) /\ cb_queue'[s][i] = cb_queue[s][i + drop[s]]
    BY QueueBefore
  <2>2. i + drop[s] \in 1 .. Len(cb_queue[s]) /\ cb_queue'[s][i] = cb_queue[s][i + drop[s]]
    BY <1>1, <2>1
  <2>. QED
    BY <1>1, <2>2 DEF HasAnswer
<1>2. ASSUME NEW s \in Reactors, NEW j \in 1 .. Len(cb_queue[s]),
             cb_queue[s][j].conn = k, cb_queue[s][j].kind = "resp", cb_queue[s][j].value = v
      PROVE  HasAnswer(k, v)'
  <2>1. drop[s] \in {0, 1} /\ Len(cb_queue[s]) \in Nat
    BY DEF QueueChange, Follows
  <2>2. j \in 1 + drop[s] .. Len(cb_queue[s])
    <3>1. ~(drop[s] = 1 /\ j = 1)
      BY <1>2
    <3>. QED
      BY <2>1, <3>1
  <2>3. j - drop[s] \in 1 .. Len(cb_queue'[s]) /\ cb_queue'[s][j - drop[s]] = cb_queue[s][j]
    BY <2>2, QueueAfter
  <2>. QED
    BY <1>2, <2>3 DEF HasAnswer
<1>. QED
  BY <1>1, <1>2 DEF HasAnswer

(* Likewise for the messages about a connection. *)
LEMMA OnItsWayKept ==
  ASSUME NEW drop, NEW h, NEW m, QueueChange(drop, h, m), NEW k \in Conns,
         \A s \in Reactors : drop[s] = 1 => cb_queue[s][1].conn # k,
         h \in Reactors => m.conn # k
  PROVE  OnItsWay(k)' <=> OnItsWay(k)
BY OnItsWayAfter

(* A connection that a step is not about. *)
LEMMA StageKept ==
  ASSUME NEW k \in Conns, Stage(k), handled'[k] = handled[k], asked'[k] = asked[k],
         seen'[k] = seen[k], send'[k] = send[k], open'[k] => open[k],
         gone[k] => gone'[k], OnItsWay(k)' <=> OnItsWay(k)
  PROVE  Stage(k)'
BY DEF Stage, Idle, Written, Dispatched, Answered

(* Messages stay alone: a connection with one on its way handles nothing,  *)
(* and a new one is about the command just handled.                        *)
LEMMA AloneKept ==
  ASSUME NEW drop, NEW h, NEW m, QueueChange(drop, h, m), Alone,
         \A k : OnItsWay(k) => handled'[k] = handled[k],
         h \in Reactors => m.id = handled'[m.conn]
  PROVE  Alone'
<1>1. ASSUME NEW s \in Reactors, NEW i \in 1 .. Len(cb_queue'[s])
      PROVE  cb_queue'[s][i].id = handled'[cb_queue'[s][i].conn]
  <2>1. CASE s = h /\ cb_queue'[s][i] = m
    BY <2>1
  <2>2. CASE i + drop[s] \in 1 .. Len(cb_queue[s]) /\ cb_queue'[s][i] = cb_queue[s][i + drop[s]]
    <3>1. PICK y : y = cb_queue[s][i + drop[s]]
      OBVIOUS
    <3>2. y.id = handled[y.conn]
      BY <2>2, <3>1 DEF Alone
    <3>3. OnItsWay(y.conn)
      BY <2>2, <3>1 DEF OnItsWay
    <3>. QED
      BY <2>2, <3>1, <3>2, <3>3
  <2>. QED
    BY <2>1, <2>2, QueueBefore
<1>. QED
  BY <1>1 DEF Alone

(* All maps hold the entries of all keys. *)
LEMMA WholeMaps == {e \in Dbs \X Keys : <<Home[e[2]], e[1]>> \in Maps} = Dbs \X Keys
<1>1. ASSUME NEW e \in Dbs \X Keys PROVE <<Home[e[2]], e[1]>> \in Maps
  <2>1. e[1] \in Dbs /\ e[2] \in Keys
    OBVIOUS
  <2>. QED
    BY <2>1, HomeAssumption DEF Maps
<1>. QED
  BY <1>1

(* A FLUSHALL under way is not touched, as to the maps it has cleared ... *)
LEMMA UnclearedKept ==
  ASSUME \A r \in Reactors :
           \/ to_clear[r] = Maps /\ to_clear'[r] = Maps
           \/ at'[r] = at[r] /\ to_clear'[r] = to_clear[r]
  PROVE  Uncleared' = Uncleared
<1>1. ASSUME NEW c \in Conns PROVE Uncleared'[c] = Uncleared[c]
  <2>1. PICK o \in Reactors : o = Owner[c]
    BY OwnerAssumption
  <2>2. CASE to_clear[o] = Maps /\ to_clear'[o] = Maps
    BY <2>1, <2>2, WholeMaps DEF Uncleared
  <2>3. CASE at'[o] = at[o] /\ to_clear'[o] = to_clear[o]
    BY <2>1, <2>3 DEF Uncleared
  <2>. QED
    BY <2>2, <2>3
<1>2. Uncleared' = [c \in Conns |-> Uncleared'[c]] /\ Uncleared = [c \in Conns |-> Uncleared[c]]
  BY DEF Uncleared
<1>. QED
  BY <1>1, <1>2

(* ... and as to its place in the pipeline. *)
LEMMA ClearingKept ==
  ASSUME LoopType, Clearing,
         \A s \in Reactors : to_clear'[s] # Maps =>
           /\ at'[s] = at[s] /\ to_clear'[s] = to_clear[s]
           /\ \A c \in Conns : at[s] = c /\ handled[c] < read[c] =>
                /\ handled'[c] < read'[c]
                /\ asked'[c][handled'[c] + 1] = asked[c][handled[c] + 1]
  PROVE  Clearing'
<1>. SUFFICES ASSUME NEW s \in Reactors, to_clear'[s] # Maps
              PROVE  /\ at'[s] # NoConn /\ handled'[at'[s]] < read'[at'[s]]
                     /\ asked'[at'[s]][handled'[at'[s]] + 1].op = "flushall"
  BY DEF Clearing, Current, NextId
<1>1. to_clear[s] # Maps /\ at'[s] = at[s]
  OBVIOUS
<1>2. /\ at[s] # NoConn /\ handled[at[s]] < read[at[s]]
      /\ asked[at[s]][handled[at[s]] + 1].op = "flushall"
  BY <1>1 DEF Clearing, Current, NextId
<1>3. PICK c \in Conns : c = at[s]
  BY <1>2 DEF LoopType
<1>4. handled'[c] < read'[c] /\ asked'[c][handled'[c] + 1] = asked[c][handled[c] + 1]
  BY <1>1, <1>2, <1>3
<1>. QED
  BY <1>1, <1>2, <1>3, <1>4

(* The data are in the stores. *)
LEMMA DataKept ==
  ASSUME UNCHANGED store
  PROVE  Data' = Data
BY DEF Data

(* A step that gives no answer, moves none, and takes none away. *)
LEMMA QuietSimulates ==
  ASSUME Types, Types', SInv, UNCHANGED <<asked, seen, send, handled, cb_queue, store, db>>,
         \A k \in Conns : (open'[k] => open[k]) /\ (gone[k] => gone'[k]) /\ read[k] <= read'[k],
         \A s \in Reactors : at'[s] # NoConn => phase'[s] = "events",
         \A r \in Reactors :
           \/ to_clear[r] = Maps /\ to_clear'[r] = Maps
           \/ at'[r] = at[r] /\ to_clear'[r] = to_clear[r]
  PROVE  SInv' /\ Simulates
<1>1. \A k : OnItsWay(k)' <=> OnItsWay(k)
  BY OnItsWaySame
<1>2. Stages'
  BY <1>1, StageKept DEF SInv, Stages
<1>3. Calm'
  BY DEF SInv, Calm
<1>4. Alone'
  BY DEF SInv, Alone
<1>5. Awaited' = Awaited
  BY <1>1, <1>2, AwaitedSame DEF SInv, Busy
<1>6. Clearing'
  <2>1. \A c : asked'[c][handled'[c] + 1] = asked[c][handled[c] + 1]
    OBVIOUS
  <2>2. \A c \in Conns : handled[c] \in Nat /\ read[c] \in Nat /\ read'[c] \in Nat
    BY DEF Types, PipelineType
  <2>3. LoopType /\ Clearing
    BY DEF Types, SInv
  <2>. QED
    BY <2>1, <2>2, <2>3, ClearingKept
<1>7. Outcome' = Outcome
  <2>1. \A k, v : HasAnswer(k, v)' <=> HasAnswer(k, v)
    BY DEF HasAnswer
  <2>. QED
    BY <2>1, OutcomeKept DEF Outcome
<1>8. Uncleared' = Uncleared
  BY UnclearedKept
<1>. QED
  BY <1>2, <1>3, <1>4, <1>5, <1>6, <1>7, <1>8, DataKept DEF SInv, Simulates

(* A command in the pipeline is the one its client waits for. *)
LEMMA PipelineFacts ==
  ASSUME IInv, SInv, NEW r \in Reactors, NEW c \in Conns, Called(r, c)
  PROVE  /\ at[r] = c /\ Owner[c] = r /\ open[c] /\ phase[r] = "events"
         /\ Written(c) /\ \A v : ~HasAnswer(c, v)
         /\ Awaited[c] = Current(c) /\ Current(c) \in Commandset /\ Service!InProgress(c)
         /\ Current(c).op \in Ops
         /\ ended[c] => Current(c).op = "quit"
         /\ to_clear[r] # Maps => Current(c).op = "flushall"
         /\ \A s \in Reactors \ {r} : at[s] # c
<1>1. Types /\ PipelineType /\ LoopOk /\ EndedOk /\ Stages /\ Calm /\ Clearing
  BY DEF IInv, Types, Line, SInv
<1>2. /\ Current(c) \in Commandset /\ Current(c).op \in Ops /\ NextId(c) \in 1 .. Len(asked[c])
      /\ handled[c] \in Nat /\ Len(asked[c]) \in Nat /\ handled[c] < Len(asked[c])
  <2>1. read[c] \in Nat
    BY <1>1 DEF PipelineType
  <2>. QED
    BY <1>1, <2>1, CalledFacts
<1>3. at[r] = c /\ c # NoConn
  BY NothingAssumption DEF Called
<1>4. Owner[c] = r /\ open[c] /\ phase[r] = "events"
  BY <1>1, <1>3 DEF LoopOk, Calm
<1>5. Written(c)
  BY <1>1, <1>2, <1>4 DEF Stages, Stage, Idle, Dispatched, Answered
<1>6. \A v : ~HasAnswer(c, v)
  BY <1>5 DEF Written, OnItsWay, HasAnswer
<1>7. Outcome[c] = NoReply
  BY <1>1, <1>6, OutcomeIs
<1>8. Awaited[c] = Current(c)
  <2>1. NextId(c) = Len(asked[c])
    BY <1>5 DEF Written, NextId
  <2>2. Pending(c)
    BY <1>1, <1>2, PendingIs DEF Busy, Stages
  <2>. QED
    BY <2>1, <2>2 DEF Awaited, Current
<1>9. Awaited[c] # NoCommand
  BY <1>2, <1>8, NothingAssumption
<1>10. ended[c] => Current(c).op = "quit"
  BY <1>1, <1>4 DEF EndedOk, QuitAt, Current
<1>11. to_clear[r] # Maps => Current(c).op = "flushall"
  BY <1>1, <1>3 DEF Clearing
<1>12. \A s \in Reactors \ {r} : at[s] # c
  BY <1>1, <1>3, <1>4 DEF LoopOk
<1>. QED
  BY <1>2, <1>3, <1>4, <1>5, <1>6, <1>7, <1>8, <1>9, <1>10, <1>11, <1>12
     DEF Service!InProgress

(* What the end of on_data_available changes, whatever the command is. *)
LEMMA ProceedFacts ==
  ASSUME IInv, SInv, NEW r \in Reactors, NEW c \in Conns, Called(r, c),
         NEW end \in BOOLEAN, Proceed(r, c, end),
         to_clear'[r] = Maps, \A s \in Reactors \ {r} : to_clear'[s] = to_clear[s]
  PROVE  /\ \A k \in Conns \ {c} : handled'[k] = handled[k] /\ (open'[k] => open[k])
         /\ handled'[c] = (IF end THEN handled[c] ELSE handled[c] + 1)
         /\ open'[c] => ~end
         /\ UNCHANGED <<asked, seen, gone>> /\ Calm' /\ Clearing'
         /\ Uncleared' = [Uncleared EXCEPT ![c] = Dbs \X Keys]
         /\ to_clear[r] = Maps => Uncleared' = Uncleared
<1>0. /\ PipelineType /\ ConnType /\ LoopType
      /\ Calm /\ Clearing /\ NoConn \notin Conns
  BY NothingAssumption DEF IInv, Types, SInv
<1>1. /\ at[r] = c /\ Owner[c] = r /\ open[c] /\ phase[r] = "events"
      /\ \A s \in Reactors \ {r} : at[s] # c
  BY PipelineFacts
<1>2. /\ handled' = [handled EXCEPT ![c] = IF end THEN handled[c] ELSE handled[c] + 1]
      /\ \E x \in Conns \cup {NoConn} :
           at' = [at EXCEPT ![r] = x] /\ (x # NoConn => x = c)
      /\ \E b \in BOOLEAN : open' = [open EXCEPT ![c] = b] /\ (end => ~b)
      /\ UNCHANGED <<asked, seen, read, phase, gone>>
  <2>. DEFINE last == end \/ read[c] - handled[c] - 1 = 0
              b == open[c] /\ ~(last /\ phase[r] = "events" /\ (end \/ hangup[c]))
              x == IF last THEN NoConn ELSE c
  <2>1. /\ handled' = [handled EXCEPT ![c] = IF end THEN handled[c] ELSE handled[c] + 1]
        /\ at' = [at EXCEPT ![r] = x]
        /\ open' = [open EXCEPT ![c] = b]
        /\ UNCHANGED <<asked, seen, read, phase, gone>>
    BY DEF Proceed, fate_vars
  <2>2. b \in BOOLEAN /\ (end => ~b)
    BY <1>1
  <2>3. x \in Conns \cup {NoConn} /\ (x # NoConn => x = c)
    OBVIOUS
  <2>. HIDE DEF b, x
  <2>. QED
    BY <2>1, <2>2, <2>3
<1>3. /\ \A k \in Conns \ {c} : handled'[k] = handled[k] /\ (open'[k] => open[k])
      /\ handled'[c] = (IF end THEN handled[c] ELSE handled[c] + 1)
      /\ open'[c] => ~end
  BY <1>0, <1>1, <1>2 DEF PipelineType, ConnType
<1>4. Calm'
  BY <1>0, <1>1, <1>2 DEF Calm, LoopType
<1>5. Clearing'
  <2>1. ASSUME NEW s \in Reactors, to_clear'[s] # Maps
        PROVE  /\ at'[s] = at[s] /\ to_clear'[s] = to_clear[s]
               /\ \A k \in Conns : at[s] = k /\ handled[k] < read[k] =>
                    /\ handled'[k] < read'[k]
                    /\ asked'[k][handled'[k] + 1] = asked[k][handled[k] + 1]
    <3>1. s # r /\ at[s] # c
      BY <1>1, <2>1
    <3>. QED
      BY <1>0, <1>2, <1>3, <3>1 DEF LoopType
  <2>. QED
    BY <1>0, <2>1, ClearingKept
<1>6. to_clear[r] = Maps => Uncleared' = Uncleared
  <2>. SUFFICES ASSUME to_clear[r] = Maps
                PROVE  \A s \in Reactors : \/ to_clear[s] = Maps /\ to_clear'[s] = Maps
                                           \/ at'[s] = at[s] /\ to_clear'[s] = to_clear[s]
    BY UnclearedKept
  <2>. QED
    BY <1>0, <1>2 DEF LoopType
<1>7. Uncleared' = [Uncleared EXCEPT ![c] = Dbs \X Keys]
  <2>1. Uncleared'[c] = Dbs \X Keys
    BY <1>1, WholeMaps DEF Uncleared
  <2>2. ASSUME NEW k \in Conns, k # c PROVE Uncleared'[k] = Uncleared[k]
    <3>1. CASE Owner[k] = r
      <4>1. at[r] # k /\ at'[r] # k
        BY <1>0, <1>1, <1>2, <2>2 DEF LoopType
      <4>. QED
        BY <3>1, <4>1 DEF Uncleared
    <3>2. CASE Owner[k] # r
      <4>1. PICK o \in Reactors : o = Owner[k] /\ o # r
        BY <3>2, OwnerAssumption
      <4>2. at'[o] = at[o] /\ to_clear'[o] = to_clear[o]
        BY <1>0, <1>2, <4>1 DEF LoopType
      <4>. QED
        BY <4>1, <4>2 DEF Uncleared
    <3>. QED
      BY <3>1, <3>2
  <2>3. Uncleared' = [k \in Conns |-> Uncleared'[k]] /\ DOMAIN Uncleared = Conns
        /\ Uncleared = [k \in Conns |-> Uncleared[k]]
    BY DEF Uncleared
  <2>. QED
    BY <2>1, <2>2, <2>3
<1>. QED
  BY <1>2, <1>3, <1>4, <1>5, <1>6, <1>7

(* An answer to c is added, or what is on its way to it is not changed. *)
LEMMA OutcomeAdded ==
  ASSUME Types, Types', NEW c \in Conns, NEW v,
         HasAnswer(c, v)', \A w : HasAnswer(c, w)' => w = v,
         \A k \in Conns \ {c} : \A w : HasAnswer(k, w)' <=> HasAnswer(k, w)
  PROVE  Outcome' = [Outcome EXCEPT ![c] = v]
<1>1. Outcome'[c] = v
  BY OutcomeBecomes
<1>2. \A k \in Conns \ {c} : Outcome'[k] = Outcome[k]
  BY OutcomeKept
<1>3. /\ Outcome' = [k \in Conns |-> Outcome'[k]]
      /\ Outcome = [k \in Conns |-> Outcome[k]]
  BY DEF Outcome
<1>. QED
  BY <1>1, <1>2, <1>3

(* Nor is it changed for any. *)
LEMMA OutcomeSame ==
  ASSUME Types, Types', \A k \in Conns : \A w : HasAnswer(k, w)' <=> HasAnswer(k, w)
  PROVE  Outcome' = Outcome
<1>1. \A k \in Conns : Outcome'[k] = Outcome[k]
  BY OutcomeKept
<1>2. /\ Outcome' = [k \in Conns |-> Outcome'[k]]
      /\ Outcome = [k \in Conns |-> Outcome[k]]
  BY DEF Outcome
<1>. QED
  BY <1>1, <1>2

(* A command is answered in the pipeline. *)
LEMMA ReplySimulates ==
  ASSUME IInv, Types', SInv, NEW r \in Reactors, NEW c \in Conns, Called(r, c),
         NEW end \in BOOLEAN, end <=> Current(c).op = "quit", Proceed(r, c, end),
         NEW v \in ReplyValues, Reply(c, v), UNCHANGED cb_queue,
         to_clear'[r] = Maps, \A s \in Reactors \ {r} : to_clear'[s] = to_clear[s]
  PROVE  /\ SInv' /\ Awaited' = Awaited
         /\ Outcome' = [Outcome EXCEPT ![c] = v]
         /\ Uncleared' = [Uncleared EXCEPT ![c] = Dbs \X Keys]
         /\ to_clear[r] = Maps => Uncleared' = Uncleared
<1>0. Types /\ ReplyType /\ Stages
  BY DEF IInv, Types, SInv
<1>1. Written(c)
  BY PipelineFacts
<1>2. /\ \A k \in Conns \ {c} : handled'[k] = handled[k] /\ (open'[k] => open[k])
      /\ handled'[c] = (IF end THEN handled[c] ELSE handled[c] + 1)
      /\ open'[c] => ~end
      /\ UNCHANGED <<asked, seen, gone>> /\ Calm' /\ Clearing'
      /\ Uncleared' = [Uncleared EXCEPT ![c] = Dbs \X Keys]
      /\ to_clear[r] = Maps => Uncleared' = Uncleared
  BY ProceedFacts
<1>3. /\ send'[c] = Append(send[c], [id |-> NextId(c), value |-> v])
      /\ \A k \in Conns \ {c} : send'[k] = send[k]
  BY <1>0 DEF Reply, ReplyType
<1>4. /\ Len(send'[c]) = 1 /\ send'[c][1].value = v
  BY <1>1, <1>3 DEF Written
<1>5. \A k : OnItsWay(k)' <=> OnItsWay(k)
  BY OnItsWaySame
<1>6. Stages'
  <2>1. ASSUME NEW k \in Conns, k # c PROVE Stage(k)'
    <3>1. Stage(k)
      BY <1>0 DEF Stages
    <3>. QED
      BY <1>2, <1>3, <1>5, <2>1, <3>1, StageKept
  <2>2. Answered(c)'
    <3>1. /\ gone'[c] \/ Len(seen'[c]) + 1 = Len(asked'[c])
          /\ Len(send'[c]) = 1 /\ ~OnItsWay(c)'
      BY <1>1, <1>2, <1>4, <1>5 DEF Written
    <3>2. open'[c] => handled'[c] = Len(asked'[c])
      BY <1>1, <1>2 DEF Written
    <3>. QED
      BY <3>1, <3>2 DEF Answered
  <2>. QED
    BY <2>1, <2>2 DEF Stages, Stage
<1>7. Outcome' = [Outcome EXCEPT ![c] = v]
  <2>1. HasAnswer(c, v)'
    BY <1>4 DEF HasAnswer
  <2>2. ~OnItsWay(c)'
    BY <1>1, <1>5 DEF Written
  <2>3. \A w : HasAnswer(c, w)' => w = v
    BY <1>4, <2>2 DEF HasAnswer, OnItsWay
  <2>4. \A k \in Conns \ {c} : \A w : HasAnswer(k, w)' <=> HasAnswer(k, w)
    BY <1>3 DEF HasAnswer
  <2>. QED
    BY <1>0, <2>1, <2>3, <2>4, OutcomeAdded
<1>8. Alone'
  <2>1. QueueChange(Keep, -1, 0) /\ -1 \notin Reactors /\ Alone
    BY <1>0, QueueSame, BoundAssumption DEF Types, Reactors, SInv
  <2>2. \A k : OnItsWay(k) => handled'[k] = handled[k]
    <3>1. ~OnItsWay(c)
      BY <1>1 DEF Written
    <3>2. \A k : OnItsWay(k) => k \in Conns
      BY <1>0 DEF OnItsWay, Types, QueueType, Request, Response
    <3>. QED
      BY <1>2, <3>1, <3>2
  <2>. QED
    BY <2>1, <2>2, AloneKept
<1>9. Awaited' = Awaited
  <2>1. Busy(c)
    BY <1>0, <1>1 DEF Written, Busy, Types, PipelineType
  <2>2. Busy(c)'
    BY <1>4 DEF Busy
  <2>3. \A k \in Conns : k # c => (Busy(k)' <=> Busy(k))
    BY <1>2, <1>3, <1>5 DEF Busy
  <2>. QED
    BY <1>0, <1>2, <1>6, <2>1, <2>2, <2>3, AwaitedSame
<1>. QED
  BY <1>2, <1>6, <1>7, <1>8, <1>9 DEF SInv

(* The view of a command on the data. *)
LEMMA DataUpdated ==
  ASSUME StoreType, NEW r \in Reactors, NEW d \in Dbs, NEW cmd \in Commandset,
         cmd.op \in KeyedOps, Home[cmd.key] = r, Update(r, d, cmd)
  PROVE  /\ Data' = [Data EXCEPT ![d][cmd.key] = NewEntry(cmd, Data[d][cmd.key])]
         /\ Executed(r, d, cmd) = Answer(cmd, Data[d][cmd.key], Home[cmd.key])
<1>1. cmd.key \in Keys
  BY CommandAssumption
<1>2. Data[d][cmd.key] = store[r][d][cmd.key]
  BY <1>1 DEF Data
<1>3. PICK e : e = NewEntry(cmd, store[r][d][cmd.key])
  OBVIOUS
<1>4. PICK key \in Keys : key = cmd.key
  BY <1>1
<1>5. store' = [store EXCEPT ![r][d][key] = e]
  BY <1>3, <1>4 DEF Update
<1>6. \A x \in Dbs, k \in Keys :
        store'[Home[k]][x][k] = IF x = d /\ k = key THEN e ELSE store[Home[k]][x][k]
  <2>. SUFFICES ASSUME NEW x \in Dbs, NEW k \in Keys
                PROVE  store'[Home[k]][x][k] = IF x = d /\ k = key THEN e
                                               ELSE store[Home[k]][x][k]
    OBVIOUS
  <2>1. PICK h \in Reactors : h = Home[k]
    BY HomeAssumption
  <2>2. k = key => h = r
    BY <1>4, <2>1
  <2>3. store'[h][x][k] = IF h = r /\ x = d /\ k = key THEN e ELSE store[h][x][k]
    BY <1>5 DEF StoreType
  <2>. QED
    BY <2>1, <2>2, <2>3
<1>7. Data' = [Data EXCEPT ![d][key] = e]
  <2>1. Data' = [x \in Dbs |-> [k \in Keys |-> store'[Home[k]][x][k]]]
    BY DEF Data
  <2>2. Data = [x \in Dbs |-> [k \in Keys |-> store[Home[k]][x][k]]]
    BY DEF Data
  <2>3. [Data EXCEPT ![d][key] = e] =
          [x \in Dbs |-> [k \in Keys |-> IF x = d /\ k = key THEN e ELSE store[Home[k]][x][k]]]
    BY <2>2
  <2>4. \A x \in Dbs :
          [k \in Keys |-> store'[Home[k]][x][k]]
            = [k \in Keys |-> IF x = d /\ k = key THEN e ELSE store[Home[k]][x][k]]
    BY <1>6
  <2>5. Data' = [x \in Dbs |->
          [k \in Keys |-> IF x = d /\ k = key THEN e ELSE store[Home[k]][x][k]]]
    BY <2>1, <2>4
  <2>. QED
    BY <2>3, <2>5
<1>. QED
  BY <1>2, <1>3, <1>4, <1>7 DEF Executed

(* The commands are the same to the server and to its promise. *)
LEMMA SameCommands ==
  /\ Service!KeyedOps = KeyedOps
  /\ \A cmd, old : Service!NewEntry(cmd, old) = NewEntry(cmd, old)
  /\ \A cmd, old, shard : Service!Answer(cmd, old, shard) = Answer(cmd, old, shard)
<1>1. Service!KeyedOps = KeyedOps
  BY DEF Service!KeyedOps, KeyedOps
<1>2. \A cmd, old : Service!NewEntry(cmd, old) = NewEntry(cmd, old)
  BY DEF Service!NewEntry, Service!Counter, NewEntry, Counter
<1>3. \A cmd, old, shard : Service!Answer(cmd, old, shard) = Answer(cmd, old, shard)
  BY DEF Service!Answer, Service!Counter, Answer, Counter
<1>. QED
  BY <1>1, <1>2, <1>3

(* A keyed command takes effect. *)
LEMMA AccessSimulates ==
  ASSUME NEW c \in Conns, NEW cmd, cmd = Awaited[c], cmd.op \in KeyedOps,
         NEW d, d = db[c], NEW old, old = Data[d][cmd.key], Service!InProgress(c),
         Data' = [Data EXCEPT ![d][cmd.key] = NewEntry(cmd, old)],
         NEW v, v = Answer(cmd, old, Home[cmd.key]),
         Outcome' = [Outcome EXCEPT ![c] = v], UNCHANGED <<Awaited, Uncleared, db>>
  PROVE  Simulates
<1>1. cmd.op \in Service!KeyedOps
  BY SameCommands
<1>2. Data' = [Data EXCEPT ![d][cmd.key] = Service!NewEntry(cmd, old)]
  <2>1. NewEntry(cmd, old) = Service!NewEntry(cmd, old)
    BY SameCommands
  <2>. QED
    BY <2>1
<1>3. v = Service!Answer(cmd, old, Home[cmd.key])
  BY SameCommands
<1>4. Service!Access(c)
  BY <1>1, <1>2, <1>3 DEF Service!Access, Service!Answered
<1>. QED
  BY <1>4 DEF Simulates, Service!Next

(* A command on the owner's shard, or on none. *)
LEMMA AnsweredSimulates ==
  ASSUME IInv, Types', SInv, NEW r \in Reactors, NEW c \in Conns,
         HandlePing(r, c) \/ HandleQuit(r, c) \/ HandleSelect(r, c) \/ HandleInline(r, c)
  PROVE  SInv' /\ Simulates
<1>0. Types /\ ConnType /\ LoopType /\ StoreType
  BY DEF IInv, Types
<1>1. /\ Called(r, c) /\ to_clear' = to_clear /\ cb_queue' = cb_queue
      /\ Current(c).op \in KeyedOps \cup {"ping", "quit", "select"}
  BY DEF HandlePing, HandleQuit, HandleSelect, HandleInline
<1>2. /\ Awaited[c] = Current(c) /\ Current(c) \in Commandset /\ Service!InProgress(c)
      /\ ended[c] => Current(c).op = "quit"
      /\ to_clear[r] # Maps => Current(c).op = "flushall"
  BY <1>1, PipelineFacts
<1>3. /\ to_clear[r] = Maps /\ to_clear'[r] = Maps
      /\ \A s \in Reactors \ {r} : to_clear'[s] = to_clear[s]
  BY <1>1, <1>2 DEF KeyedOps
<1>4. ended[c] \in BOOLEAN /\ db[c] \in Dbs
      /\ Ok \in ReplyValues /\ Err \in ReplyValues /\ Pong \in ReplyValues
  BY <1>0 DEF ConnType, ReplyValues
<1>5. ASSUME NEW end \in BOOLEAN, end <=> Current(c).op = "quit", Proceed(r, c, end),
             NEW v \in ReplyValues, Reply(c, v)
      PROVE  /\ SInv' /\ UNCHANGED <<Awaited, Uncleared>>
             /\ Outcome' = [Outcome EXCEPT ![c] = v]
  BY <1>1, <1>3, <1>5, ReplySimulates
<1>6. CASE HandlePing(r, c)
  <2>1. /\ Current(c).op = "ping" /\ Reply(c, Pong) /\ Proceed(r, c, ended[c])
        /\ UNCHANGED <<db, store>>
    BY <1>6 DEF HandlePing
  <2>2. /\ SInv' /\ UNCHANGED <<Awaited, Uncleared>>
        /\ Outcome' = [Outcome EXCEPT ![c] = Pong]
    <3>1. ended[c] <=> Current(c).op = "quit"
      BY <1>2, <2>1
    <3>. QED
      BY <1>4, <1>5, <2>1, <3>1
  <2>3. Service!Touch(c)
    BY <1>2, <2>1, <2>2, DataKept DEF Service!Touch, Service!Answered
  <2>. QED
    BY <2>2, <2>3 DEF Simulates, Service!Next
<1>7. CASE HandleQuit(r, c)
  <2>1. /\ Current(c).op = "quit" /\ Reply(c, Ok) /\ Proceed(r, c, TRUE)
        /\ UNCHANGED <<db, store>>
    BY <1>7 DEF HandleQuit
  <2>2. /\ SInv' /\ UNCHANGED <<Awaited, Uncleared>>
        /\ Outcome' = [Outcome EXCEPT ![c] = Ok]
    BY <1>4, <1>5, <2>1
  <2>3. Service!Touch(c)
    BY <1>2, <2>1, <2>2, DataKept DEF Service!Touch, Service!Answered
  <2>. QED
    BY <2>2, <2>3 DEF Simulates, Service!Next
<1>8. CASE HandleSelect(r, c)
  <2>1. PICK v \in {Ok, Err} :
          /\ Current(c).op = "select" /\ Reply(c, v) /\ Proceed(r, c, ended[c])
          /\ \/ /\ v = Ok /\ Current(c).arg \in Dbs
                /\ db' = [db EXCEPT ![c] = Current(c).arg]
             \/ v = Err /\ db' = db
          /\ UNCHANGED store
    BY <1>8 DEF HandleSelect
  <2>2. /\ SInv' /\ UNCHANGED <<Awaited, Uncleared>>
        /\ Outcome' = [Outcome EXCEPT ![c] = v]
    <3>1. ended[c] <=> Current(c).op = "quit"
      BY <1>2, <2>1
    <3>2. v \in ReplyValues
      BY <1>4
    <3>. QED
      BY <1>4, <1>5, <2>1, <3>1, <3>2
  <2>3. Service!Select(c)
    BY <1>2, <2>1, <2>2, DataKept DEF Service!Select, Service!Answered
  <2>. QED
    BY <2>2, <2>3 DEF Simulates, Service!Next
<1>9. CASE HandleInline(r, c)
  <2>1. PICK cmd : cmd = Current(c)
    OBVIOUS
  <2>2. PICK d \in Dbs : d = db[c]
    BY <1>4
  <2>3. /\ cmd \in Commandset /\ cmd.op \in KeyedOps /\ Home[cmd.key] = r
        /\ Update(r, d, cmd) /\ Reply(c, Executed(r, d, cmd)) /\ Proceed(r, c, ended[c])
        /\ db' = db
    BY <1>2, <1>9, <2>1, <2>2 DEF HandleInline
  <2>4. PICK v \in ReplyValues : v = Executed(r, d, cmd)
    BY <1>0, <2>3, UpdateFacts
  <2>5. PICK old : old = Data[d][cmd.key]
    OBVIOUS
  <2>6. /\ Data' = [Data EXCEPT ![d][cmd.key] = NewEntry(cmd, old)]
        /\ v = Answer(cmd, old, Home[cmd.key])
    BY <2>5, <1>0, <2>3, <2>4, DataUpdated
  <2>7. /\ SInv' /\ UNCHANGED <<Awaited, Uncleared>>
        /\ Outcome' = [Outcome EXCEPT ![c] = v]
    <3>1. ended[c] <=> Current(c).op = "quit"
      BY <1>2, <2>1, <2>3 DEF KeyedOps
    <3>. QED
      BY <1>4, <1>5, <2>3, <2>4, <3>1
  <2>8. Simulates
    BY <1>2, <2>1, <2>2, <2>3, <2>5, <2>6, <2>7, AccessSimulates
  <2>. QED
    BY <2>7, <2>8
<1>. QED
  BY <1>6, <1>7, <1>8, <1>9

(* A dispatch is not seen by anyone. *)
LEMMA DispatchSimulates ==
  ASSUME IInv, Types', SInv, NEW r \in Reactors, NEW c \in Conns, HandleDispatch(r, c)
  PROVE  SInv' /\ Simulates
<1>0. Types /\ PipelineType /\ QueueType /\ ConnType /\ Stages
  BY DEF IInv, Types, SInv
<1>1. /\ Called(r, c) /\ Current(c).op \in KeyedOps /\ Proceed(r, c, ended[c])
      /\ UNCHANGED <<send, db, store, to_clear>>
  BY DEF HandleDispatch
<1>2. /\ Written(c) /\ Current(c) \in Commandset
      /\ ended[c] => Current(c).op = "quit"
      /\ to_clear[r] # Maps => Current(c).op = "flushall"
  BY <1>1, PipelineFacts
<1>3. ended[c] = FALSE /\ to_clear[r] = Maps
  BY <1>0, <1>1, <1>2 DEF KeyedOps, ConnType
<1>4. /\ \A k \in Conns \ {c} : handled'[k] = handled[k] /\ (open'[k] => open[k])
      /\ handled'[c] = handled[c] + 1
      /\ UNCHANGED <<asked, seen, gone>> /\ Calm' /\ Clearing'
      /\ Uncleared' = Uncleared
  <2>1. Proceed(r, c, FALSE) /\ to_clear'[r] = Maps
        /\ \A s \in Reactors \ {r} : to_clear'[s] = to_clear[s]
    BY <1>1, <1>3
  <2>. QED
    BY <1>1, <1>3, <2>1, ProceedFacts
<1>5. /\ \A k : OnItsWay(k)' => OnItsWay(k) \/ k = c
      /\ \A k : OnItsWay(k) => OnItsWay(k)'
      /\ OnItsWay(c)'
  BY DispatchFacts
<1>6. Stages'
  <2>1. ASSUME NEW k \in Conns, k # c PROVE Stage(k)'
    <3>1. Stage(k)
      BY <1>0 DEF Stages
    <3>. QED
      BY <1>1, <1>4, <1>5, <2>1, <3>1, StageKept
  <2>2. Dispatched(c)'
    BY <1>1, <1>2, <1>4, <1>5 DEF Dispatched, Written
  <2>. QED
    BY <2>1, <2>2 DEF Stages, Stage
<1>7. PICK h \in Reactors, m \in Request \cup Response :
        QueueChange(Keep, h, m) /\ m.kind = "req" /\ m.conn = c /\ m.id = NextId(c)
  <2>1. PICK h \in Reactors : h = Home[Current(c).key]
    BY <1>1, <1>2, CommandAssumption, HomeAssumption
  <2>2. PICK m : m = [kind |-> "req", conn |-> c, id |-> NextId(c)]
    OBVIOUS
  <2>3. m \in Request \cup Response /\ m.kind = "req" /\ m.conn = c /\ m.id = NextId(c)
    BY <1>0, <2>2 DEF Request, NextId, PipelineType
  <2>4. cb_queue' = [cb_queue EXCEPT ![h] = Append(cb_queue[h], m)]
    BY <2>1, <2>2 DEF HandleDispatch
  <2>5. QueueChange(Keep, h, m)
    BY <1>0, <2>3, <2>4, QueueAppend
  <2>. QED
    BY <2>3, <2>5
<1>8. Outcome' = Outcome
  <2>1. \A s \in Reactors : Keep[s] # 1
    BY DEF Keep
  <2>2. \A k \in Conns : \A w : HasAnswer(k, w)' <=> HasAnswer(k, w)
    BY <1>1, <1>7, <2>1, AnswersKept
  <2>. QED
    BY <1>0, <2>2, OutcomeSame
<1>9. Alone'
  <2>1. \A k : OnItsWay(k) => handled'[k] = handled[k]
    <3>1. ~OnItsWay(c)
      BY <1>2 DEF Written
    <3>2. \A k : OnItsWay(k) => k \in Conns
      BY <1>0 DEF OnItsWay, QueueType, Request, Response
    <3>. QED
      BY <1>4, <3>1, <3>2
  <2>2. m.id = handled'[m.conn]
    BY <1>4, <1>7 DEF NextId
  <2>. QED
    BY <1>7, <2>1, <2>2, AloneKept DEF SInv
<1>10. Awaited' = Awaited
  <2>1. Busy(c)
    BY <1>0, <1>2 DEF Written, Busy, PipelineType
  <2>2. Busy(c)'
    BY <1>5 DEF Busy
  <2>3. \A k \in Conns : k # c => (Busy(k)' <=> Busy(k))
    BY <1>1, <1>4, <1>5 DEF Busy
  <2>. QED
    BY <1>0, <1>4, <1>6, <2>1, <2>2, <2>3, AwaitedSame
<1>. QED
  BY <1>1, <1>4, <1>6, <1>8, <1>9, <1>10, DataKept DEF SInv, Simulates

(* FLUSHALL removes the entries of the next map ... *)
LEMMA FlushMapSimulates ==
  ASSUME IInv, Types', SInv, NEW r \in Reactors, NEW c \in Conns, FlushMap(r, c)
  PROVE  SInv' /\ Simulates
<1>0. Types /\ LoopType /\ PipelineType /\ StoreType
  BY DEF IInv, Types
<1>1. /\ Called(r, c) /\ Current(c).op = "flushall"
      /\ UNCHANGED <<asked, seen, read, handled, send, open, db, cb_queue, phase, at, gone>>
  BY DEF FlushMap, conn_vars, fate_vars
<1>2. /\ at[r] = c /\ Owner[c] = r /\ Awaited[c] = Current(c) /\ Service!InProgress(c)
      /\ \A s \in Reactors \ {r} : at[s] # c
  BY <1>1, PipelineFacts
<1>3. PICK m \in to_clear[r] :
        /\ store' = [store EXCEPT ![m[1]][m[2]] = [k \in Keys |-> NoValue]]
        /\ to_clear' = [to_clear EXCEPT ![r] = to_clear[r] \ {m}]
  BY DEF FlushMap
<1>12. m \in Maps /\ m[1] \in Reactors /\ m[2] \in Dbs /\ m = <<m[1], m[2]>>
  BY <1>0, <1>3 DEF LoopType, Maps
<1>13. /\ to_clear'[r] = to_clear[r] \ {m}
       /\ \A s \in Reactors \ {r} : to_clear'[s] = to_clear[s]
  BY <1>0, <1>3 DEF LoopType
<1>. DEFINE entries == {e \in Dbs \X Keys : <<Home[e[2]], e[1]>> = m}
<1>4. SInv'
  <2>1. Stages'
    <3>1. \A k : OnItsWay(k)' <=> OnItsWay(k)
      BY <1>1, OnItsWaySame
    <3>. QED
      BY <1>1, <3>1, StageKept DEF SInv, Stages
  <2>2. Calm'
    BY <1>1 DEF SInv, Calm
  <2>3. Alone'
    BY <1>1 DEF SInv, Alone
  <2>4. Clearing'
    <3>1. handled[c] < read[c] /\ c # NoConn
      BY <1>1, NothingAssumption DEF Called
    <3>. QED
      BY <1>1, <1>2, <1>13, <3>1 DEF SInv, Clearing, Current, NextId
  <2>. QED
    BY <2>1, <2>2, <2>3, <2>4 DEF SInv
<1>5. Outcome' = Outcome
  <2>1. \A k, v : HasAnswer(k, v)' <=> HasAnswer(k, v)
    BY <1>1 DEF HasAnswer
  <2>. QED
    BY <1>0, <2>1, OutcomeSame
<1>6. entries \subseteq Uncleared[c]
  BY <1>2, <1>3 DEF Uncleared
<1>7. Data' = [d \in Dbs |-> [k \in Keys |->
                IF <<d, k>> \in entries THEN NoValue ELSE Data[d][k]]]
  <2>1. ASSUME NEW d \in Dbs, NEW k \in Keys
        PROVE  store'[Home[k]][d][k] = IF <<d, k>> \in entries THEN NoValue ELSE Data[d][k]
    <3>1. Home[k] \in Reactors /\ Data[d][k] = store[Home[k]][d][k]
      BY HomeAssumption DEF Data
    <3>2. <<d, k>> \in entries <=> Home[k] = m[1] /\ d = m[2]
      BY <1>12
    <3>3. CASE Home[k] = m[1] /\ d = m[2]
      BY <1>0, <1>3, <1>12, <3>2, <3>3 DEF StoreType
    <3>4. CASE Home[k] # m[1] \/ d # m[2]
      BY <1>0, <1>3, <1>12, <3>1, <3>2, <3>4 DEF StoreType
    <3>. QED
      BY <3>3, <3>4
  <2>2. \A d \in Dbs :
          [k \in Keys |-> store'[Home[k]][d][k]]
            = [k \in Keys |-> IF <<d, k>> \in entries THEN NoValue ELSE Data[d][k]]
    BY <2>1
  <2>3. Data' = [d \in Dbs |-> [k \in Keys |-> store'[Home[k]][d][k]]]
    BY DEF Data
  <2>. QED
    BY <2>2, <2>3
<1>8. Uncleared' = [Uncleared EXCEPT ![c] = Uncleared[c] \ entries]
  <2>1. Uncleared'[c] = Uncleared[c] \ entries
    BY <1>1, <1>2, <1>13 DEF Uncleared
  <2>2. ASSUME NEW k \in Conns, k # c PROVE Uncleared'[k] = Uncleared[k]
    <3>1. CASE Owner[k] = r
      <4>1. at[r] # k /\ at'[r] # k
        BY <1>1, <1>2, <2>2
      <4>. QED
        BY <3>1, <4>1 DEF Uncleared
    <3>2. CASE Owner[k] # r
      <4>1. PICK o \in Reactors : o = Owner[k] /\ o # r
        BY <3>2, OwnerAssumption
      <4>. QED
        BY <1>1, <1>13, <4>1 DEF Uncleared
    <3>. QED
      BY <3>1, <3>2
  <2>3. Uncleared' = [k \in Conns |-> Uncleared'[k]] /\ DOMAIN Uncleared = Conns
        /\ Uncleared = [k \in Conns |-> Uncleared[k]]
    BY DEF Uncleared
  <2>. QED
    BY <2>1, <2>2, <2>3
<1>9. Awaited' = Awaited
  <2>1. \A k : OnItsWay(k)' <=> OnItsWay(k)
    BY <1>1, OnItsWaySame
  <2>. QED
    BY <1>0, <1>1, <1>4, <2>1, AwaitedSame DEF SInv, Busy
<1>10. entries \in SUBSET Service!Entries
  BY DEF Service!Entries
<1>. HIDE DEF entries
<1>11. Service!Clear(c, entries)
  BY <1>1, <1>2, <1>5, <1>6, <1>7, <1>8, <1>9 DEF Service!Clear
<1>. QED
  BY <1>4, <1>10, <1>11 DEF Simulates, Service!Next

(* ... and answers when no map is left. *)
LEMMA FlushDoneSimulates ==
  ASSUME IInv, Types', SInv, NEW r \in Reactors, NEW c \in Conns, FlushDone(r, c)
  PROVE  SInv' /\ Simulates
<1>0. Types /\ LoopType /\ ConnType
  BY DEF IInv, Types
<1>1. /\ Called(r, c) /\ Current(c).op = "flushall" /\ to_clear[r] = {}
      /\ to_clear' = [to_clear EXCEPT ![r] = Maps]
      /\ Reply(c, Ok) /\ Proceed(r, c, ended[c])
      /\ UNCHANGED <<db, store, cb_queue>>
  BY DEF FlushDone
<1>2. /\ at[r] = c /\ Owner[c] = r /\ Awaited[c] = Current(c) /\ Service!InProgress(c)
      /\ ended[c] => Current(c).op = "quit"
  BY <1>1, PipelineFacts
<1>3. /\ SInv' /\ Awaited' = Awaited
      /\ Outcome' = [Outcome EXCEPT ![c] = Ok]
      /\ Uncleared' = [Uncleared EXCEPT ![c] = Dbs \X Keys]
  <2>1. ended[c] \in BOOLEAN /\ (ended[c] <=> Current(c).op = "quit") /\ Ok \in ReplyValues
    BY <1>0, <1>1, <1>2 DEF ConnType, ReplyValues
  <2>2. to_clear'[r] = Maps /\ \A s \in Reactors \ {r} : to_clear'[s] = to_clear[s]
    BY <1>0, <1>1 DEF LoopType
  <2>. QED
    BY <1>1, <2>1, <2>2, ReplySimulates
<1>4. Uncleared[c] = {}
  BY <1>1, <1>2 DEF Uncleared
<1>5. Service!ClearDone(c)
  BY <1>1, <1>2, <1>3, <1>4, DataKept DEF Service!ClearDone, Service!Entries, Service!Answered
<1>. QED
  BY <1>3, <1>5 DEF Simulates, Service!Next

(* The replies in send_buf reach their clients. *)
LEMMA FlushSimulates ==
  ASSUME IInv, Types', SInv, NEW r \in Reactors, Flush(r)
  PROVE  SInv' /\ Simulates
<1>0. Types /\ ReplyType /\ PipelineType /\ LoopType /\ Stages /\ Calm
  BY DEF IInv, Types, SInv
<1>1. /\ UNCHANGED <<asked, read, handled, open, db, store, cb_queue, at, to_clear, gone>>
      /\ phase' = [phase EXCEPT ![r] = "poll"] /\ at[r] = NoConn
  BY DEF Flush, Free, fate_vars
<1>2. /\ \A k \in Conns \ Mine(r) : seen'[k] = seen[k] /\ send'[k] = send[k]
      /\ \A k \in Mine(r) : /\ k \in Conns /\ open[k]
                            /\ seen'[k] = IF gone[k] THEN seen[k] ELSE seen[k] \o send[k]
                            /\ send'[k] = << >>
  BY DEF Flush, Mine
<1>. DEFINE cs == {k \in Mine(r) : send[k] # << >>}
<1>3. ASSUME NEW k \in cs PROVE
        /\ k \in Conns /\ Answered(k) /\ handled[k] = Len(asked[k])
        /\ gone[k] \/ Len(seen'[k]) = Len(asked[k])
        /\ send'[k] = << >>
        /\ \E v \in ReplyValues : HasAnswer(k, v) /\ \A w : HasAnswer(k, w) => w = v
  <2>1. k \in Conns /\ Stage(k) /\ send[k] # << >> /\ open[k]
    BY <1>0, <1>2 DEF Stages
  <2>2. Answered(k) /\ handled[k] = Len(asked[k])
    BY <2>1 DEF Stage, Idle, Written, Dispatched, Answered
  <2>3. seen[k] \in Seq(ReplyMessage) /\ send[k] \in Seq(ReplyMessage)
    BY <1>0, <2>1 DEF ReplyType
  <2>4. (gone[k] \/ Len(seen'[k]) = Len(asked[k])) /\ send'[k] = << >>
    <3>1. Len(seen[k] \o send[k]) = Len(seen[k]) + Len(send[k])
      BY <2>3, ConcatProperties
    <3>. QED
      BY <1>2, <2>2, <3>1 DEF Answered
  <2>5. send[k][1] \in ReplyMessage
    BY <2>2, <2>3 DEF Answered
  <2>6. PICK v \in ReplyValues : v = send[k][1].value
    BY <2>5 DEF ReplyMessage
  <2>7. HasAnswer(k, v) /\ \A w : HasAnswer(k, w) => w = v
    BY <2>2, <2>6 DEF Answered, HasAnswer, OnItsWay
  <2>. QED
    BY <2>1, <2>2, <2>4, <2>7
<1>4. ASSUME NEW k \in Conns, k \notin cs
      PROVE  seen'[k] = seen[k] /\ send'[k] = send[k]
  <2>1. CASE k \in Mine(r)
    <3>1. send[k] = << >> /\ seen[k] \in Seq(ReplyMessage)
      BY <1>0, <1>4, <2>1 DEF ReplyType
    <3>2. seen[k] \o << >> = seen[k]
      BY <3>1, ConcatEmptySeq
    <3>. QED
      BY <1>2, <2>1, <3>1, <3>2
  <2>. QED
    BY <1>2, <2>1
<1>. HIDE DEF cs
<1>5. \A k : OnItsWay(k)' <=> OnItsWay(k)
  BY <1>1, OnItsWaySame
<1>6. Stages'
  <2>1. ASSUME NEW k \in Conns, k \notin cs PROVE Stage(k)'
    <3>1. Stage(k)
      BY <1>0 DEF Stages
    <3>. QED
      BY <1>1, <1>4, <1>5, <2>1, <3>1, StageKept
  <2>2. ASSUME NEW k \in cs PROVE Idle(k)'
    BY <1>1, <1>3, <1>5 DEF Idle, Answered
  <2>. QED
    BY <2>1, <2>2 DEF Stages, Stage
<1>7. Calm'
  BY <1>0, <1>1 DEF Calm, LoopType
<1>8. Clearing'
  BY <1>1 DEF SInv, Clearing, Current, NextId
<1>9. \A k \in cs : Outcome[k] # NoReply
  <2>. SUFFICES ASSUME NEW k \in cs PROVE Outcome[k] # NoReply
    OBVIOUS
  <2>1. PICK v \in ReplyValues : HasAnswer(k, v) /\ \A w : HasAnswer(k, w) => w = v
    BY <1>3
  <2>2. Outcome[k] = v
    BY <1>0, <1>3, <2>1, OutcomeIs
  <2>. QED
    BY <2>2, NothingAssumption
<1>10. Outcome' = [k \in Conns |-> IF k \in cs THEN NoReply ELSE Outcome[k]]
  <2>1. ASSUME NEW k \in cs PROVE Outcome'[k] = NoReply
    <3>1. send'[k] = << >> /\ ~OnItsWay(k)' /\ k \in Conns
      BY <1>3, <1>5 DEF Answered
    <3>2. \A v : ~HasAnswer(k, v)'
      BY <3>1 DEF HasAnswer, OnItsWay
    <3>. QED
      BY <3>1, <3>2, OutcomeBecomes
  <2>2. ASSUME NEW k \in Conns, k \notin cs PROVE Outcome'[k] = Outcome[k]
    <3>1. \A v : HasAnswer(k, v)' <=> HasAnswer(k, v)
      BY <1>1, <1>4, <2>2 DEF HasAnswer
    <3>. QED
      BY <1>0, <3>1, OutcomeKept
  <2>3. Outcome' = [k \in Conns |-> Outcome'[k]]
    BY DEF Outcome
  <2>. QED
    BY <2>1, <2>2, <2>3
<1>11. Awaited' = [k \in Conns |-> IF k \in cs THEN NoCommand ELSE Awaited[k]]
  <2>1. ASSUME NEW k \in cs PROVE Awaited'[k] = NoCommand
    <3>1. k \in Conns /\ Stage(k)'
      BY <1>3, <1>6 DEF Stages
    <3>2. ~Busy(k)'
      <4>1. Len(asked[k]) \in Nat
        BY <1>0, <1>3 DEF PipelineType
      <4>. QED
        BY <1>1, <1>3, <1>5, <4>1 DEF Busy, Answered
    <3>. QED
      BY <1>0, <3>1, <3>2, PendingBecomes DEF Awaited
  <2>2. ASSUME NEW k \in Conns, k \notin cs PROVE Awaited'[k] = Awaited[k]
    <3>1. Busy(k)' <=> Busy(k)
      BY <1>1, <1>4, <1>5, <2>2 DEF Busy
    <3>. QED
      BY <1>0, <1>1, <1>6, <3>1, AwaitedKept DEF Stages
  <2>3. Awaited' = [k \in Conns |-> Awaited'[k]]
    BY DEF Awaited
  <2>. QED
    BY <2>1, <2>2, <2>3
<1>12. Uncleared' = Uncleared
  BY <1>1, UnclearedKept
<1>13. Alone'
  BY <1>1 DEF SInv, Alone
<1>14. cs \in SUBSET Conns
  BY <1>3
<1>15. Service!Return(cs)
  BY <1>1, <1>9, <1>10, <1>11, <1>12, DataKept DEF Service!Return
<1>. QED
  BY <1>6, <1>7, <1>8, <1>13, <1>14, <1>15 DEF SInv, Simulates, Service!Next

(* A message of a callback queue is the only one about its connection, and *)
(* about the command that the client waits for.                            *)
LEMMA CallbackAlone ==
  ASSUME IInv, SInv, NEW r \in Reactors, cb_queue[r] # << >>,
         NEW y, y = First(r)
  PROVE  /\ y = cb_queue[r][1] /\ 1 \in 1 .. Len(cb_queue[r])
         /\ y.conn \in Conns /\ Dispatched(y.conn)
         /\ y \in Request \cup Response /\ MessageOk(r, y)
         /\ \A s \in Reactors : \A j \in 1 .. Len(cb_queue[s]) :
              cb_queue[s][j].conn = y.conn => s = r /\ j = 1
         /\ asked[y.conn][y.id] \in Commandset /\ asked[y.conn][y.id].op \in KeyedOps
         /\ Awaited[y.conn] = asked[y.conn][y.id] /\ Awaited[y.conn] # NoCommand
<1>0. /\ Types /\ QueueType /\ PipelineType /\ ReplyType /\ MessagesOk
      /\ Stages /\ Alone
  BY DEF IInv, Types, Line, SInv
<1>1. /\ y = cb_queue[r][1] /\ 1 \in 1 .. Len(cb_queue[r])
      /\ y \in Request \cup Response /\ y.conn \in Conns /\ MessageOk(r, y)
      /\ asked[y.conn][y.id] \in Commandset /\ asked[y.conn][y.id].op \in KeyedOps
      /\ y.id \in Nat
  BY <1>0, FirstFacts
<1>2. PICK c \in Conns : c = y.conn
  BY <1>1
<1>3. Dispatched(c)
  <2>1. OnItsWay(c)
    BY <1>1, <1>2 DEF OnItsWay
  <2>. QED
    BY <1>0, <2>1 DEF Stages, Stage, Idle, Written, Answered
<1>4. \A s \in Reactors : \A j \in 1 .. Len(cb_queue[s]) :
        cb_queue[s][j].conn = c => cb_queue[s][j].id = handled[c]
  BY <1>0 DEF Alone
<1>5. \A s \in Reactors : \A j \in 1 .. Len(cb_queue[s]) :
        cb_queue[s][j].conn = c => s = r /\ j = 1
  <2>. SUFFICES ASSUME NEW s \in Reactors, NEW j \in 1 .. Len(cb_queue[s]),
                       cb_queue[s][j].conn = c
                PROVE  s = r /\ j = 1
    OBVIOUS
  <2>1. handled[c] \in Nat /\ cb_queue[s][j].id = handled[c] /\ cb_queue[r][1].id = handled[c]
    BY <1>0, <1>1, <1>2, <1>4 DEF PipelineType
  <2>. QED
    BY <1>1, <1>2, <2>1, OneMessage
<1>6. y.id = Len(asked[c])
  BY <1>1, <1>2, <1>3, <1>4 DEF Dispatched
<1>7. Awaited[c] = asked[c][y.id]
  <2>1. Pending(c)
    BY <1>0, <1>3, PendingIs DEF Stages, Dispatched, Busy
  <2>. QED
    BY <1>6, <2>1 DEF Awaited
<1>8. Awaited[c] # NoCommand
  BY <1>1, <1>2, <1>7, NothingAssumption
<1>. QED
  BY <1>1, <1>2, <1>3, <1>5, <1>7, <1>8

(* A dispatched command takes effect on its shard. *)
LEMMA RequestSimulates ==
  ASSUME IInv, Types', SInv, NEW r \in Reactors, PollRequest(r)
  PROVE  SInv' /\ Simulates
<1>0. Types /\ QueueType /\ StoreType /\ ConnType /\ Stages
  BY DEF IInv, Types, SInv
<1>1. PICK y : y = First(r)
  OBVIOUS
<1>2. cb_queue[r] # << >> /\ y.kind = "req"
  BY <1>1 DEF PollRequest
<1>3. /\ y = cb_queue[r][1] /\ 1 \in 1 .. Len(cb_queue[r])
      /\ y.conn \in Conns /\ Dispatched(y.conn) /\ y \in Request \cup Response
      /\ MessageOk(r, y)
      /\ \A s \in Reactors : \A j \in 1 .. Len(cb_queue[s]) :
           cb_queue[s][j].conn = y.conn => s = r /\ j = 1
      /\ asked[y.conn][y.id] \in Commandset /\ asked[y.conn][y.id].op \in KeyedOps
      /\ Awaited[y.conn] = asked[y.conn][y.id] /\ Awaited[y.conn] # NoCommand
  BY <1>1, <1>2, CallbackAlone
<1>4. PICK c \in Conns : c = y.conn
  BY <1>3
<1>5. PICK cmd \in Commandset : cmd = asked[c][y.id] /\ cmd.op \in KeyedOps
  BY <1>3, <1>4
<1>6. PICK d \in Dbs : d = db[c]
  BY <1>0 DEF ConnType
<1>7. PICK o \in Reactors : o = Owner[c]
  BY OwnerAssumption
<1>8. Home[cmd.key] = r /\ o # r
  BY <1>2, <1>3, <1>4, <1>5, <1>7 DEF MessageOk, Executor
<1>9. Update(r, d, cmd)
  BY <1>1, <1>4, <1>5, <1>6 DEF PollRequest
<1>10. PICK v \in ReplyValues : v = Executed(r, d, cmd)
  BY <1>0, <1>5, <1>9, UpdateFacts
<1>11. PICK m : m = [kind |-> "resp", conn |-> c, id |-> y.id, value |-> v]
  OBVIOUS
<1>12. m \in Request \cup Response /\ m.conn = c /\ m.kind = "resp" /\ m.value = v
  <2>1. y.id \in Nat
    BY <1>3 DEF Request, Response
  <2>. QED
    BY <1>11, <2>1 DEF Response
<1>13. /\ cb_queue' = [cb_queue EXCEPT ![r] = Tail(@), ![o] = Append(@, m)]
       /\ UNCHANGED <<asked, seen, handled, read, send, open, db, phase, at, to_clear, gone>>
  BY <1>1, <1>4, <1>5, <1>6, <1>7, <1>10, <1>11 DEF PollRequest, conn_vars, fate_vars
<1>14. QueueChange(Take(r), o, m)
  BY <1>0, <1>2, <1>8, <1>12, <1>13, QueueMove
<1>15. \A s \in Reactors : (Take(r)[s] = 1 <=> s = r) /\ Take(r)[s] \in {0, 1}
  BY DEF Take
<1>16. /\ Len(cb_queue'[o]) \in 1 .. Len(cb_queue'[o])
       /\ cb_queue'[o][Len(cb_queue'[o])] = m
  BY <1>14, QueueAfter
<1>17. \A s \in Reactors : \A i \in 1 .. Len(cb_queue'[s]) :
         cb_queue'[s][i].conn = c => cb_queue'[s][i] = m
  <2>. SUFFICES ASSUME NEW s \in Reactors, NEW i \in 1 .. Len(cb_queue'[s]),
                       cb_queue'[s][i].conn = c, cb_queue'[s][i] # m
                PROVE  FALSE
    OBVIOUS
  <2>1. /\ i + Take(r)[s] \in 1 .. Len(cb_queue[s])
        /\ cb_queue'[s][i] = cb_queue[s][i + Take(r)[s]]
    BY <1>14, QueueBefore
  <2>2. s = r /\ i + Take(r)[s] = 1
    BY <1>3, <1>4, <2>1
  <2>. QED
    BY <1>15, <2>2
<1>18. ASSUME NEW k \in Conns, k # c
       PROVE  (OnItsWay(k)' <=> OnItsWay(k)) /\ \A w : HasAnswer(k, w)' <=> HasAnswer(k, w)
  <2>1. \A s \in Reactors : Take(r)[s] = 1 => cb_queue[s][1].conn # k
    BY <1>3, <1>4, <1>15, <1>18
  <2>2. m.conn # k /\ send'[k] = send[k]
    BY <1>12, <1>13, <1>18
  <2>3. OnItsWay(k)' <=> OnItsWay(k)
    BY <1>14, <2>1, <2>2, OnItsWayKept
  <2>4. \A w : HasAnswer(k, w)' <=> HasAnswer(k, w)
    BY <1>14, <2>1, <2>2, AnswersKept
  <2>. QED
    BY <2>3, <2>4
<1>19. Stages'
  <2>1. ASSUME NEW k \in Conns, k # c PROVE Stage(k)'
    <3>1. Stage(k)
      BY <1>0 DEF Stages
    <3>. QED
      BY <1>13, <1>18, <2>1, <3>1, StageKept
  <2>2. OnItsWay(c)'
    BY <1>12, <1>16 DEF OnItsWay
  <2>3. Dispatched(c)'
    BY <1>3, <1>4, <1>13, <2>2 DEF Dispatched
  <2>. QED
    BY <2>1, <2>3 DEF Stages, Stage
<1>20. SInv'
  <2>1. m.id = handled'[m.conn]
    BY <1>1, <1>2, <1>3, <1>4, <1>11, <1>13 DEF SInv, Alone
  <2>2. Alone'
    BY <1>13, <1>14, <2>1, AloneKept DEF SInv
  <2>. QED
    BY <1>13, <1>19, <2>2 DEF SInv, Calm, Clearing, Current, NextId
<1>21. Outcome' = [Outcome EXCEPT ![c] = v]
  <2>1. HasAnswer(c, v)'
    BY <1>12, <1>16 DEF HasAnswer
  <2>2. send'[c] = << >>
    BY <1>3, <1>4, <1>13 DEF Dispatched
  <2>3. \A w : HasAnswer(c, w)' => w = v
    BY <1>12, <1>17, <2>2 DEF HasAnswer
  <2>. QED
    BY <1>0, <1>18, <2>1, <2>3, OutcomeAdded
<1>22. Service!InProgress(c)
  <2>1. \A w : ~HasAnswer(c, w)
    <3>1. send[c] = << >>
      BY <1>3, <1>4 DEF Dispatched
    <3>2. \A s \in Reactors : \A j \in 1 .. Len(cb_queue[s]) :
            cb_queue[s][j].conn = c => cb_queue[s][j].kind = "req"
      BY <1>2, <1>3, <1>4
    <3>. QED
      BY <3>1, <3>2 DEF HasAnswer
  <2>2. Outcome[c] = NoReply
    BY <1>0, <2>1, OutcomeIs
  <2>. QED
    BY <1>3, <1>4, <2>2 DEF Service!InProgress
<1>23. PICK old : old = Data[d][cmd.key]
  OBVIOUS
<1>24. /\ Data' = [Data EXCEPT ![d][cmd.key] = NewEntry(cmd, old)]
       /\ v = Answer(cmd, old, Home[cmd.key])
  BY <1>0, <1>5, <1>8, <1>9, <1>10, <1>23, DataUpdated
<1>25. UNCHANGED <<Awaited, Uncleared, db>>
  <2>1. Busy(c) /\ Busy(c)'
    BY <1>3, <1>4, <1>12, <1>16 DEF Busy, Dispatched, OnItsWay
  <2>2. \A k \in Conns : Busy(k)' <=> Busy(k)
    BY <1>13, <1>18, <2>1 DEF Busy
  <2>3. Awaited' = Awaited
    BY <1>0, <1>13, <1>19, <2>2, AwaitedSame
  <2>. QED
    BY <1>13, <2>3, UnclearedKept
<1>26. cmd = Awaited[c]
  BY <1>3, <1>4, <1>5
<1>27. Simulates
  BY <1>5, <1>6, <1>21, <1>22, <1>23, <1>24, <1>25, <1>26, AccessSimulates
<1>. QED
  BY <1>20, <1>27

(* Its answer comes to send_buf. *)
LEMMA ResponseSimulates ==
  ASSUME IInv, Types', SInv, NEW r \in Reactors, PollResponse(r)
  PROVE  SInv' /\ Simulates
<1>0. Types /\ QueueType /\ ReplyType /\ LoopType /\ PipelineType /\ Stages /\ Calm /\ Clearing
  BY DEF IInv, Types, SInv
<1>1. PICK y : y = First(r)
  OBVIOUS
<1>2. cb_queue[r] # << >> /\ y.kind = "resp" /\ at[r] = NoConn
  BY <1>1 DEF PollResponse, Free
<1>3. /\ y = cb_queue[r][1] /\ 1 \in 1 .. Len(cb_queue[r])
      /\ y.conn \in Conns /\ Dispatched(y.conn)
      /\ \A s \in Reactors : \A j \in 1 .. Len(cb_queue[s]) :
           cb_queue[s][j].conn = y.conn => s = r /\ j = 1
  BY <1>1, <1>2, CallbackAlone
<1>4. PICK c \in Conns : c = y.conn
  BY <1>3
<1>5. ~(handled[c] < read[c])
  <2>1. handled[c] = Len(asked[c]) /\ read[c] <= Len(asked[c]) /\ read[c] \in Nat
        /\ Len(asked[c]) \in Nat
    BY <1>0, <1>3, <1>4 DEF Dispatched, PipelineType
  <2>. QED
    BY <2>1
<1>6. /\ send' = [send EXCEPT ![c] = Append(send[c], [id |-> y.id, value |-> y.value])]
      /\ at' = [at EXCEPT ![r] = NoConn]
      /\ cb_queue' = [cb_queue EXCEPT ![r] = Tail(cb_queue[r])]
      /\ UNCHANGED <<asked, seen, handled, read, open, db, store, phase, to_clear, gone>>
  BY <1>1, <1>4, <1>5 DEF PollResponse, fate_vars
<1>7. at' = at
  BY <1>0, <1>2, <1>6 DEF LoopType
<1>8. /\ Len(send'[c]) = 1 /\ send'[c][1].value = y.value
      /\ \A k \in Conns \ {c} : send'[k] = send[k]
  BY <1>0, <1>3, <1>4, <1>6 DEF ReplyType, Dispatched
<1>9. QueueChange(Take(r), -1, 0)
  BY <1>0, <1>2, <1>6, QueueTail
<1>10. -1 \notin Reactors /\ \A s \in Reactors : Take(r)[s] = IF s = r THEN 1 ELSE 0
  BY BoundAssumption DEF Take, Reactors
<1>11. ~OnItsWay(c)'
  <2>. SUFFICES ASSUME NEW s \in Reactors, NEW i \in 1 .. Len(cb_queue'[s]),
                       cb_queue'[s][i].conn = c
                PROVE  FALSE
    BY DEF OnItsWay
  <2>1. /\ i + Take(r)[s] \in 1 .. Len(cb_queue[s])
        /\ cb_queue'[s][i] = cb_queue[s][i + Take(r)[s]]
    BY <1>9, <1>10, QueueBefore
  <2>2. s = r /\ i + Take(r)[s] = 1
    BY <1>3, <1>4, <2>1
  <2>. QED
    BY <1>10, <2>2
<1>12. ASSUME NEW k \in Conns, k # c
       PROVE  (OnItsWay(k)' <=> OnItsWay(k)) /\ \A w : HasAnswer(k, w)' <=> HasAnswer(k, w)
  <2>1. \A s \in Reactors : Take(r)[s] = 1 => cb_queue[s][1].conn # k
    BY <1>3, <1>4, <1>10, <1>12
  <2>2. OnItsWay(k)' <=> OnItsWay(k)
    BY <1>9, <1>10, <2>1, OnItsWayKept
  <2>3. \A w : HasAnswer(k, w)' <=> HasAnswer(k, w)
    BY <1>8, <1>9, <1>10, <1>12, <2>1, AnswersKept
  <2>. QED
    BY <2>2, <2>3
<1>13. Stages'
  <2>1. ASSUME NEW k \in Conns, k # c PROVE Stage(k)'
    <3>1. Stage(k)
      BY <1>0 DEF Stages
    <3>. QED
      BY <1>6, <1>8, <1>12, <2>1, <3>1, StageKept
  <2>2. Answered(c)'
    BY <1>3, <1>4, <1>6, <1>8, <1>11 DEF Answered, Dispatched
  <2>. QED
    BY <2>1, <2>2 DEF Stages, Stage
<1>14. Calm' /\ Clearing'
  BY <1>0, <1>6, <1>7 DEF Calm, Clearing, Current, NextId
<1>15. Outcome' = Outcome
  <2>1. \A w : HasAnswer(c, w) <=> w = y.value
    <3>1. send[c] = << >>
      BY <1>3, <1>4 DEF Dispatched
    <3>2. \A w : HasAnswer(c, w) => w = y.value
      BY <1>3, <1>4, <3>1 DEF HasAnswer
    <3>3. HasAnswer(c, y.value)
      BY <1>2, <1>3, <1>4 DEF HasAnswer
    <3>. QED
      BY <3>2, <3>3
  <2>2. \A w : HasAnswer(c, w)' <=> w = y.value
    BY <1>8, <1>11 DEF HasAnswer, OnItsWay
  <2>3. \A k \in Conns : \A w : HasAnswer(k, w)' <=> HasAnswer(k, w)
    BY <1>12, <2>1, <2>2
  <2>. QED
    BY <1>0, <2>3, OutcomeSame
<1>16. Uncleared' = Uncleared
  BY <1>6, <1>7, UnclearedKept
<1>17. Awaited' = Awaited
  <2>1. Busy(c)
    BY <1>3, <1>4 DEF Busy, Dispatched
  <2>2. Busy(c)'
    BY <1>8 DEF Busy
  <2>3. \A k \in Conns : k # c => (Busy(k)' <=> Busy(k))
    BY <1>6, <1>8, <1>12 DEF Busy
  <2>. QED
    BY <1>0, <1>6, <1>13, <2>1, <2>2, <2>3, AwaitedSame
<1>18. Alone'
  <2>1. \A k : OnItsWay(k) => handled'[k] = handled[k]
    BY <1>6
  <2>. QED
    BY <1>9, <1>10, <2>1, AloneKept DEF SInv
<1>. QED
  BY <1>6, <1>13, <1>14, <1>15, <1>16, <1>17, <1>18, DataKept DEF SInv, Simulates

(* A client calls. *)
LEMMA AskSimulates ==
  ASSUME IInv, Types', SInv, Window <= 1, NEW c \in Conns, NEW cmd \in Commandset, Ask(c, cmd)
  PROVE  SInv' /\ Simulates
<1>0. Types /\ PipelineType /\ ReplyType /\ LoopType /\ Stages /\ Calm /\ Clearing
  BY DEF IInv, Types, SInv
<1>1. /\ Len(asked[c]) - Len(seen[c]) < Window /\ ~gone[c]
      /\ asked' = [asked EXCEPT ![c] = Append(asked[c], cmd)]
      /\ UNCHANGED <<seen, handled, read, send, open, db, store, cb_queue, phase, at, to_clear,
                     gone>>
  BY DEF Ask, conn_vars, loop_vars, fate_vars
<1>2. /\ Len(asked[c]) \in Nat /\ Len(seen[c]) \in Nat /\ asked[c] \in Seq(Commandset)
      /\ read[c] \in Nat /\ handled[c] \in Nat /\ read[c] <= Len(asked[c])
  BY <1>0, GivenFacts DEF PipelineType
<1>3. Idle(c)
  <2>1. ~(Len(seen[c]) + 1 = Len(asked[c]))
    <3>1. \A a, s \in Nat : a - s < Window => ~(s + 1 = a)
      BY BoundAssumption
    <3>. QED
      BY <1>1, <1>2, <3>1
  <2>. QED
    BY <1>0, <1>1, <2>1 DEF Stages, Stage, Written, Dispatched, Answered
<1>4. /\ Len(asked'[c]) = Len(asked[c]) + 1 /\ asked'[c][Len(asked[c]) + 1] = cmd
      /\ \A k \in Conns \ {c} : asked'[k] = asked[k]
  <2>1. /\ Len(Append(asked[c], cmd)) = Len(asked[c]) + 1
        /\ Append(asked[c], cmd)[Len(asked[c]) + 1] = cmd
    BY <1>2, AppendProperties
  <2>. QED
    BY <1>0, <1>1, <2>1 DEF PipelineType
<1>5. \A k : OnItsWay(k)' <=> OnItsWay(k)
  BY <1>1, OnItsWaySame
<1>6. Stages'
  <2>1. ASSUME NEW k \in Conns, k # c PROVE Stage(k)'
    <3>1. Stage(k)
      BY <1>0 DEF Stages
    <3>. QED
      BY <1>1, <1>4, <1>5, <2>1, <3>1, StageKept
  <2>2. Written(c)'
    BY <1>1, <1>3, <1>4, <1>5 DEF Idle, Written
  <2>. QED
    BY <2>1, <2>2 DEF Stages, Stage
<1>7. Calm'
  BY <1>0, <1>1 DEF Calm
<1>8. Clearing'
  <2>1. ~(handled[c] < read[c])
    BY <1>2, <1>3 DEF Idle
  <2>2. \A k \in Conns : handled[k] < read[k] =>
          asked'[k][handled[k] + 1] = asked[k][handled[k] + 1]
    BY <1>4, <2>1
  <2>. QED
    BY <1>0, <1>1, <2>2, ClearingKept
<1>9. Outcome' = Outcome
  <2>1. \A k, v : HasAnswer(k, v)' <=> HasAnswer(k, v)
    BY <1>1 DEF HasAnswer
  <2>. QED
    BY <1>0, <2>1, OutcomeSame
<1>10. Awaited[c] = NoCommand
  BY <1>1, <1>2, <1>3 DEF Idle, Awaited, Pending
<1>11. Awaited' = [Awaited EXCEPT ![c] = cmd]
  <2>1. Awaited'[c] = cmd
    <3>1. Pending(c)'
      BY <1>1, <1>2, <1>3, <1>4 DEF Idle, Pending
    <3>. QED
      BY <1>4, <3>1 DEF Awaited
  <2>2. ASSUME NEW k \in Conns, k # c PROVE Awaited'[k] = Awaited[k]
    <3>1. Busy(k)' <=> Busy(k)
      BY <1>1, <1>4, <1>5, <2>2 DEF Busy
    <3>. QED
      BY <1>0, <1>4, <1>6, <2>2, <3>1, AwaitedKept DEF Stages
  <2>3. /\ Awaited' = [k \in Conns |-> Awaited'[k]]
        /\ Awaited = [k \in Conns |-> Awaited[k]]
    BY DEF Awaited
  <2>. QED
    BY <2>1, <2>2, <2>3
<1>12. Uncleared' = Uncleared
  BY <1>1, UnclearedKept
<1>13. Service!Call(c, cmd)
  BY <1>1, <1>9, <1>10, <1>11, <1>12, DataKept DEF Service!Call
<1>14. Alone'
  BY <1>1 DEF SInv, Alone
<1>. QED
  BY <1>6, <1>7, <1>8, <1>13, <1>14 DEF SInv, Simulates, Service!Next

(* The steps of the loop that no client sees. *)
LEMMA LoopSimulates ==
  ASSUME IInv, Types', SInv, NEW r \in Reactors,
         \/ FlushKilled(r) \/ PollDangling(r) \/ CallbackDone(r) \/ EpollWait(r) \/ EventsDone(r)
         \/ \E c \in Conns : EpollIn(r, c) \/ EpollEnd(r, c)
  PROVE  SInv' /\ Simulates
<1>0. /\ Types /\ LoopType /\ ConnType /\ PipelineType /\ LoopOk /\ Calm /\ NoConn \notin Conns
  BY NothingAssumption DEF IInv, Types, SInv
<1>1. \A k \in Conns : read[k] \in Nat
  BY <1>0 DEF PipelineType
<1>2. CASE FlushKilled(r) \/ PollDangling(r) \/ CallbackDone(r)
  <2>1. UNCHANGED <<asked, seen, send, handled, cb_queue, store, db, open, gone, read, at,
                    phase, to_clear>>
    BY <1>2 DEF FlushKilled, PollDangling, CallbackDone, conn_vars, loop_vars
  <2>. QED
    BY <1>0, <1>1, <2>1, QuietSimulates DEF Calm
<1>3. CASE EpollWait(r) \/ EventsDone(r)
  <2>1. /\ UNCHANGED <<asked, seen, send, handled, cb_queue, store, db, open, gone, read, at,
                       to_clear>>
        /\ at[r] = NoConn
        /\ \E p \in {"events", "flush"} : phase' = [phase EXCEPT ![r] = p]
    BY <1>3 DEF EpollWait, EventsDone, Free, conn_vars, fate_vars
  <2>2. \A s \in Reactors : at'[s] # NoConn => phase'[s] = "events"
    BY <1>0, <2>1 DEF Calm, LoopType
  <2>. QED
    BY <1>0, <1>1, <2>1, <2>2, QuietSimulates
<1>4. ASSUME NEW c \in Conns, EpollIn(r, c) PROVE SInv' /\ Simulates
  <2>1. /\ UNCHANGED <<asked, seen, send, handled, cb_queue, store, db, gone, phase, to_clear>>
        /\ phase[r] = "events" /\ at[r] = NoConn /\ c \in events[r]
        /\ read[c] < Len(asked[c]) /\ read' = [read EXCEPT ![c] = Len(asked[c])]
        /\ \/ at' = at /\ open' = [open EXCEPT ![c] = ~ended[c] /\ ~hangup[c]]
           \/ at' = [at EXCEPT ![r] = c] /\ open' = open
    BY <1>4 DEF EpollIn, Free, Received, fate_vars
  <2>2. to_clear[r] = Maps
    BY <2>1 DEF SInv, Clearing
  <2>3. \A k \in Conns : (open'[k] => open[k]) /\ read[k] <= read'[k]
    <3>1. open[c]
      BY <2>1 DEF LoopOk, IInv
    <3>2. Len(asked[c]) \in Nat
      BY <1>0 DEF PipelineType
    <3>. QED
      BY <1>0, <1>1, <2>1, <3>1, <3>2 DEF ConnType, PipelineType
  <2>4. \A s \in Reactors : at'[s] # NoConn => phase'[s] = "events"
    BY <1>0, <2>1 DEF Calm, LoopType
  <2>5. \A s \in Reactors : \/ to_clear[s] = Maps /\ to_clear'[s] = Maps
                            \/ at'[s] = at[s] /\ to_clear'[s] = to_clear[s]
    BY <1>0, <2>1, <2>2 DEF LoopType
  <2>. QED
    BY <1>0, <2>1, <2>3, <2>4, <2>5, QuietSimulates
<1>5. ASSUME NEW c \in Conns, EpollEnd(r, c) PROVE SInv' /\ Simulates
  <2>1. /\ UNCHANGED <<asked, seen, send, handled, cb_queue, store, db, gone, read, phase, at,
                       to_clear>>
        /\ open' = [open EXCEPT ![c] = FALSE]
    BY <1>5 DEF EpollEnd, fate_vars
  <2>2. \A k \in Conns : open'[k] => open[k]
    BY <1>0, <2>1 DEF ConnType
  <2>. QED
    BY <1>0, <1>1, <2>1, <2>2, QuietSimulates DEF Calm
<1>. QED
  BY <1>2, <1>3, <1>4, <1>5

(* A client that goes away loses nothing but its replies. *)
LEMMA LeaveSimulates ==
  ASSUME IInv, Types', SInv, NEW c \in Conns, Leave(c)
  PROVE  SInv' /\ Simulates
<1>1. Types /\ ConnType /\ PipelineType /\ Calm
  BY DEF IInv, Types, SInv
<1>2. /\ UNCHANGED <<asked, seen, send, handled, cb_queue, store, db, open, read, phase, at,
                     to_clear>>
      /\ gone' = [gone EXCEPT ![c] = TRUE]
  BY DEF Leave, conn_vars, loop_vars
<1>3. \A k \in Conns : (gone[k] => gone'[k]) /\ read[k] \in Nat
  BY <1>1, <1>2 DEF ConnType, PipelineType
<1>. QED
  BY <1>1, <1>2, <1>3, QuietSimulates DEF Calm

(* In the beginning no client has called. *)
LEMMA InitialService ==
  ASSUME Init
  PROVE  SInv /\ Service!Init
<1>0. Types /\ NoConn \notin Conns
  BY InitType, NothingAssumption
<1>1. /\ asked = [c \in Conns |-> << >>] /\ handled = [c \in Conns |-> 0]
      /\ send = [c \in Conns |-> << >>] /\ seen = [c \in Conns |-> << >>]
      /\ store = [r \in Reactors |-> [d \in Dbs |-> [k \in Keys |-> NoValue]]]
      /\ cb_queue = [r \in Reactors |-> << >>] /\ at = [r \in Reactors |-> NoConn]
      /\ to_clear = [r \in Reactors |-> Maps] /\ gone = [c \in Conns |-> FALSE]
      /\ db = [c \in Conns |-> DefaultDb]
  BY DEF Init
<1>2. SInv
  <2>1. \A c \in Conns : ~OnItsWay(c)
    BY <1>1 DEF OnItsWay
  <2>. QED
    BY <1>1, <2>1 DEF SInv, Stages, Stage, Idle, Alone, Calm, Clearing
<1>3. Data = [d \in Dbs |-> [k \in Keys |-> NoValue]]
  <2>1. \A d \in Dbs, k \in Keys : store[Home[k]][d][k] = NoValue
    BY <1>1, HomeAssumption
  <2>2. \A d \in Dbs : [k \in Keys |-> store[Home[k]][d][k]] = [k \in Keys |-> NoValue]
    BY <2>1
  <2>. QED
    BY <2>2 DEF Data
<1>4. Awaited = [c \in Conns |-> NoCommand]
  <2>1. \A c \in Conns : ~Pending(c)
    BY <1>1 DEF Pending
  <2>. QED
    BY <2>1 DEF Awaited
<1>5. Outcome = [c \in Conns |-> NoReply]
  <2>1. \A c \in Conns : \A v : ~HasAnswer(c, v)
    BY <1>1 DEF HasAnswer
  <2>2. \A c \in Conns : Outcome[c] = NoReply
    BY <1>0, <2>1, OutcomeIs
  <2>3. Outcome = [c \in Conns |-> Outcome[c]]
    BY DEF Outcome
  <2>. QED
    BY <2>2, <2>3
<1>6. Uncleared = [c \in Conns |-> Dbs \X Keys]
  <2>1. \A c \in Conns : at[Owner[c]] # c
    BY <1>0, <1>1, OwnerAssumption
  <2>. QED
    BY <2>1 DEF Uncleared
<1>. QED
  BY <1>1, <1>2, <1>3, <1>4, <1>5, <1>6 DEF Service!Init, Service!Entries

(* Every step of the server is one of its promise, or changes nothing that *)
(* a client could see.                                                     *)
LEMMA EveryStepSimulates ==
  ASSUME Window <= 1, IInv, Types', SInv, [Next]_vars
  PROVE  SInv' /\ Simulates
<1>0. Types /\ PipelineType /\ Calm
  BY DEF IInv, Types, SInv
<1>1. CASE Broken \/ UNCHANGED vars
  <2>1. UNCHANGED <<asked, seen, send, handled, cb_queue, store, db, open, gone, read, at,
                    phase, to_clear>>
    BY <1>1 DEF Broken, vars, conn_vars, loop_vars, fate_vars
  <2>2. \A k \in Conns : read[k] \in Nat
    BY <1>0 DEF PipelineType
  <2>. QED
    BY <1>0, <2>1, <2>2, QuietSimulates DEF Calm
<1>2. ASSUME NEW c \in Conns, Leave(c) PROVE SInv' /\ Simulates
  BY <1>2, LeaveSimulates
<1>3. ASSUME NEW c \in Conns, NEW cmd \in Commandset, Ask(c, cmd) PROVE SInv' /\ Simulates
  BY <1>3, AskSimulates
<1>4. ASSUME NEW r \in Reactors, NEW c \in Conns, HandleStep(r, c) PROVE SInv' /\ Simulates
  BY <1>4, AnsweredSimulates, DispatchSimulates, FlushMapSimulates, FlushDoneSimulates
     DEF HandleStep
<1>5. ASSUME NEW r \in Reactors, Step(r) PROVE SInv' /\ Simulates
  <2>1. CASE Flush(r)
    BY <2>1, FlushSimulates
  <2>2. CASE PollRequest(r)
    BY <2>2, RequestSimulates
  <2>3. CASE PollResponse(r)
    BY <2>3, ResponseSimulates
  <2>4. CASE \/ FlushKilled(r) \/ PollDangling(r) \/ CallbackDone(r) \/ EpollWait(r)
             \/ EventsDone(r) \/ \E c \in Conns : EpollIn(r, c) \/ EpollEnd(r, c)
    BY <2>4, LoopSimulates
  <2>. QED
    BY <1>4, <1>5, <2>1, <2>2, <2>3, <2>4 DEF Step
<1>. QED
  BY <1>1, <1>2, <1>3, <1>5 DEF Next

(* To clients that wait for each reply, the reactors with their shards are *)
(* one map: a command takes effect at one instant between its call and its *)
(* reply, also when __cmd_<name>_req executes it on another thread, and    *)
(* FLUSHALL removes the entries map after map.  Clients may go away at     *)
(* any time: what they asked for takes effect once or not at all.          *)
THEOREM ServerIsOneMap ==
  ASSUME Window <= 1
  PROVE  Spec => ImplementsService
<1>1. Init => SInv /\ Service!Init
  BY InitialService
<1>2. IInv /\ IInv' /\ SInv /\ [Next]_vars => SInv'
  BY EveryStepSimulates DEF IInv
<1>3. IInv /\ IInv' /\ SInv /\ [Next]_vars => [Service!Next]_(Service!vars)
  BY EveryStepSimulates DEF IInv, Simulates, Service!vars
<1>4. Spec => []SInv
  BY <1>1, <1>2, Invariance, PTL DEF Spec
<1>. QED
  BY <1>1, <1>3, <1>4, Invariance, PTL DEF Spec, ImplementsService, Service!Spec
=============================================================================
