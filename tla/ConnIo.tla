------------------------------- MODULE ConnIo -------------------------------
(***************************************************************************)
(* The two buffers of a connection: reactor_epoll_on_epollin fills         *)
(* recv_buf, on_data_available takes requests from it, the replies go to   *)
(* send_buf, and reactor_epoll_flush writes that to the socket.  The       *)
(* system calls move any number of bytes.                                  *)
(*                                                                         *)
(* The bytes of a stream are known by their numbers.  The requests of the  *)
(* client are given: where each begins, how long it is, how long its reply *)
(* is, and whether it is dispatched to another shard.  The parser is taken to recognise a  *)
(* request that is complete in the buffer.  The connection stays open,     *)
(* each request fits into recv_buf and the replies into send_buf.          *)
(***************************************************************************)
EXTENDS Integers, Sequences, SequencesExt

CONSTANTS RecvCap,    \* sizeof(conn->recv_buf), MESSAGE_MAX_LENGTH is 8192
          SizeMod,    \* SIZE_MAX + 1
          MaxRefused, \* bound: how often write fails (EAGAIN, EINTR, an error)
          Requests    \* what the client sends: <<[first, len, reply, remote], ...>>

ASSUME CapAssumption == RecvCap \in Nat \ {0} /\ MaxRefused \in Nat
ASSUME RequestAssumption ==
  /\ Requests \in Seq([first : Nat \ {0}, len : 1 .. RecvCap,
                       reply : Nat \ {0}, remote : BOOLEAN])
  /\ Requests # << >>
  /\ Requests[1].first = 1
  /\ \A n \in 2 .. Len(Requests) :
       Requests[n].first = Requests[n - 1].first + Requests[n - 1].len

VARIABLES
  written,        \* bytes the client has written
  taken,          \* bytes read has taken from the socket
  recv_buf,
  recv_buf_size,
  recv_buf_read,
  waiting,        \* DISPATCH_WAITING in conn->flags
  requested,      \* dispatched requests under way: the lengths of their replies
  cb_queue,       \* their responses, in the callback queue
  send_buf,       \* the first send_buf_size bytes of it
  send_buf_sent,
  made,           \* bytes of replies so far
  got,            \* bytes written to the socket
  refused,        \* how often write has failed
  pc,             \* where the thread is
  cb_count,       \* whether reactor_poll_callbacks has taken a response
  caller          \* the loop that on_data_available returns to

input == <<recv_buf, recv_buf_size, recv_buf_read>>
output == <<send_buf, send_buf_sent, made, got, refused>>
loop == <<pc, cb_count, caller>>
outside == <<written, requested>>
vars == <<outside, taken, input, waiting, cb_queue, output, loop>>

send_buf_size == Len(send_buf)

Slots == 0 .. RecvCap - 1

(* the numbers of the first and the last byte of request n *)
Start(n) == Requests[n].first
End(n) == Start(n) + Requests[n].len - 1
TotalBytes == End(Len(Requests))
TotalReplies == FoldLeft(LAMBDA sum, request : sum + request.reply, 0, Requests)

ASSUME ModAssumption == SizeMod \in Nat /\ SizeMod > TotalReplies

Init ==
  /\ written = 0
  /\ taken = 0
  /\ recv_buf = [i \in Slots |-> 0]
  /\ recv_buf_size = 0
  /\ recv_buf_read = 0
  /\ waiting = FALSE
  /\ requested = << >>
  /\ cb_queue = << >>
  /\ send_buf = << >>
  /\ send_buf_sent = 0
  /\ made = 0
  /\ got = << >>
  /\ refused = 0
  /\ pc = "flush"
  /\ cb_count = FALSE
  /\ caller = "none"

----------------------------------------------------------------------------
(* The client writes the next bytes; another reactor executes a request *)

ClientWrite ==
  /\ written < TotalBytes
  /\ written' \in written + 1 .. TotalBytes
  /\ UNCHANGED <<taken, input, waiting, requested, cb_queue, output, loop>>

Respond ==
  /\ requested # << >>
  /\ cb_queue' = Append(cb_queue, Head(requested))
  /\ requested' = Tail(requested)
  /\ UNCHANGED <<written, taken, input, waiting, output, loop>>

----------------------------------------------------------------------------
(* reactor_flush_pending_writes: reactor_epoll_flush until send_buf is empty *)

Remaining == send_buf_size - send_buf_sent

(* a mistake the runs must notice: a short write taken for a complete one *)
FlushWriteOnce(n) ==
  /\ pc = "flush" /\ send_buf_size > 0 /\ n \in 1 .. Remaining
  /\ got' = got \o SubSeq(send_buf, send_buf_sent + 1, send_buf_sent + n)
  /\ send_buf' = << >>
  /\ send_buf_sent' = 0
  /\ UNCHANGED <<outside, taken, input, waiting, cb_queue, made, refused, loop>>

FlushWrite(n) ==
  /\ pc = "flush" /\ send_buf_size > 0 /\ n \in 1 .. Remaining
  /\ got' = got \o SubSeq(send_buf, send_buf_sent + 1, send_buf_sent + n)
  /\ \/ /\ n = Remaining
        /\ send_buf' = << >>
        /\ send_buf_sent' = 0
     \/ /\ n < Remaining
        /\ send_buf_sent' = send_buf_sent + n
        /\ UNCHANGED send_buf
  /\ UNCHANGED <<outside, taken, input, waiting, cb_queue, made, refused, loop>>

(* write returns -1, which rv, a size_t, holds as SIZE_MAX: the tests of   *)
(* rv < 0 fail, and it is added to send_buf_sent.                          *)
FlushRefused ==
  /\ pc = "flush" /\ send_buf_size > 0
  /\ refused < MaxRefused
  /\ refused' = refused + 1
  /\ send_buf_sent' = (send_buf_sent + SizeMod - 1) % SizeMod
  /\ pc' = IF send_buf_sent' > send_buf_size THEN "abort" ELSE "flush"
  /\ UNCHANGED <<outside, taken, input, waiting, cb_queue, send_buf, made, got, caller, cb_count>>

FlushDone ==
  /\ pc = "flush" /\ send_buf_size = 0
  /\ pc' = "poll"
  /\ cb_count' = FALSE
  /\ UNCHANGED <<outside, taken, input, waiting, cb_queue, output, caller>>

----------------------------------------------------------------------------
(* Callbacks *)

(* the numbers of the next n bytes of replies *)
NextBytes(n) == [i \in 1 .. n |-> made + i]

(* write_simple_string and the like *)
WriteReply(n) ==
  /\ send_buf' = send_buf \o NextBytes(n)
  /\ made' = made + n
  /\ UNCHANGED <<send_buf_sent, got, refused>>

Handle(from) == pc' = "handle" /\ caller' = from

(* a mistake the runs must notice: the rest of the pipeline is not looked at *)
PollResponseAlone ==
  /\ pc = "poll" /\ cb_queue # << >>
  /\ WriteReply(Head(cb_queue))
  /\ cb_queue' = Tail(cb_queue)
  /\ waiting' = FALSE
  /\ cb_count' = TRUE
  /\ UNCHANGED <<written, taken, input, requested, pc, caller>>

(* __cmd_<name>_resp, after which on_cb goes on with the pipeline *)
PollResponse ==
  /\ pc = "poll" /\ cb_queue # << >>
  /\ WriteReply(Head(cb_queue))
  /\ cb_queue' = Tail(cb_queue)
  /\ waiting' = FALSE
  /\ cb_count' = TRUE
  /\ Handle("poll")
  /\ UNCHANGED <<written, taken, input, requested>>

PollNothing ==
  /\ pc = "poll" /\ cb_queue = << >>
  /\ pc' = "event"
  /\ UNCHANGED <<outside, taken, input, waiting, cb_queue, output, caller, cb_count>>

----------------------------------------------------------------------------
(* reactor_epoll_on_epollin *)

Readable == written > taken

(* memmove of the bytes not consumed to the front of the buffer *)
(* a mistake the runs must notice: the unconsumed bytes left where they are *)
MovedNowhere == recv_buf

Moved ==
  [i \in Slots |->
     IF i < recv_buf_size THEN recv_buf[recv_buf_read + i] ELSE recv_buf[i]]

EpollIn(n) ==
  /\ pc = "event" /\ Readable /\ recv_buf_size < RecvCap
  /\ n \in 1 .. written - taken /\ n <= RecvCap - recv_buf_size
  /\ recv_buf' = [i \in Slots |->
       IF i >= recv_buf_size /\ i < recv_buf_size + n
       THEN taken + 1 + (i - recv_buf_size)
       ELSE Moved[i]]
  /\ recv_buf_read' = 0
  /\ recv_buf_size' = recv_buf_size + n
  /\ taken' = taken + n
  /\ \/ waiting /\ pc' = "flush" /\ UNCHANGED caller
     \/ ~waiting /\ Handle("flush")
  /\ UNCHANGED <<written, waiting, requested, cb_queue, output, cb_count>>

(* the assertion at its head *)
EpollInFull ==
  /\ pc = "event" /\ Readable /\ recv_buf_size >= RecvCap
  /\ pc' = "abort"
  /\ UNCHANGED <<outside, taken, input, waiting, cb_queue, output, caller, cb_count>>

(* epoll_wait reports nothing of this connection: it does not block after  *)
(* callbacks, and a response wakes it up (see Reactor)                     *)
EpollNothing ==
  /\ pc = "event" /\ ~Readable /\ (cb_count \/ cb_queue # << >>)
  /\ pc' = "flush"
  /\ UNCHANGED <<outside, taken, input, waiting, cb_queue, output, caller, cb_count>>

----------------------------------------------------------------------------
(* on_data_available *)

(* Request n is at the front of the buffer, from its first byte on. *)
AtFront(n) ==
  recv_buf_size > 0 /\ recv_buf[recv_buf_read] = Start(n)

(* a mistake the runs must notice: a request that ends with the buffer taken for incomplete *)
CompleteAndMore(n) == AtFront(n) /\ Requests[n].len < recv_buf_size

Complete(n) == AtFront(n) /\ Requests[n].len <= recv_buf_size

(* a mistake the runs must notice: recv_buf_size not reduced *)
ConsumeBytes(len) ==
  /\ recv_buf_read' = recv_buf_read + len
  /\ UNCHANGED recv_buf_size

Consume(len) ==
  /\ recv_buf_read' = recv_buf_read + len
  /\ recv_buf_size' = recv_buf_size - len

HandleLocal(n) ==
  /\ pc = "handle" /\ Complete(n) /\ ~Requests[n].remote
  /\ WriteReply(Requests[n].reply)
  /\ Consume(Requests[n].len)
  /\ UNCHANGED <<written, taken, recv_buf, waiting, requested, cb_queue, loop>>

HandleDispatch(n) ==
  /\ pc = "handle" /\ Complete(n) /\ Requests[n].remote
  /\ requested' = Append(requested, Requests[n].reply)
  /\ waiting' = TRUE
  /\ Consume(Requests[n].len)
  /\ UNCHANGED <<written, taken, recv_buf, cb_queue, output, loop>>

(* no bytes, or PARSE_INCOMPLETE *)
HandleDone ==
  /\ pc = "handle" /\ \A n \in DOMAIN Requests : ~Complete(n)
  /\ pc' = caller
  /\ caller' = "none"
  /\ UNCHANGED <<outside, taken, input, waiting, cb_queue, output, cb_count>>

Thread ==
  \/ \E n \in 1 .. TotalReplies : FlushWrite(n)
  \/ FlushRefused \/ FlushDone
  \/ PollResponse \/ PollNothing
  \/ \E n \in Slots : EpollIn(n + 1)
  \/ EpollInFull \/ EpollNothing
  \/ \E n \in DOMAIN Requests : HandleLocal(n) \/ HandleDispatch(n)
  \/ HandleDone

Next == ClientWrite \/ Respond \/ Thread

Spec == Init /\ [][Next]_vars

(* The thread and the other reactors run.  *)
FairSpec == Spec /\ WF_vars(Thread) /\ WF_vars(Respond)
----------------------------------------------------------------------------
(* Properties *)

(* Every variable has its type, and the unconsumed bytes are inside the    *)
(* buffer.                                                                 *)
TypeOK ==
  /\ written \in 0 .. TotalBytes
  /\ taken \in 0 .. written
  /\ recv_buf \in [Slots -> 0 .. TotalBytes]
  /\ recv_buf_size \in 0 .. RecvCap
  /\ recv_buf_read \in 0 .. RecvCap - recv_buf_size
  /\ waiting \in BOOLEAN
  /\ requested \in Seq(Nat) /\ cb_queue \in Seq(Nat)
  /\ send_buf \in Seq(1 .. TotalReplies)
  /\ send_buf_sent \in 0 .. SizeMod - 1
  /\ made \in 0 .. TotalReplies
  /\ refused \in 0 .. MaxRefused
  /\ got \in Seq(1 .. TotalReplies)
  /\ pc \in {"flush", "poll", "event", "handle", "abort"}
  /\ cb_count \in BOOLEAN
  /\ caller \in {"none", "poll", "flush"}

(* The bytes in recv_buf that are not consumed are the last bytes read, in *)
(* order: moving them to the front, reading behind them and consuming from *)
(* the middle of the loops of two callers never loses or repeats one.      *)
BufferHoldsStream ==
  \A i \in 0 .. recv_buf_size - 1 :
    recv_buf[recv_buf_read + i] = taken - recv_buf_size + 1 + i

(* As long as no write has failed, the socket has the bytes of the replies *)
(* in the order in which they went to send_buf, each one once, and the     *)
(* rest of them is still to be sent, whatever parts the writes take.       *)
RepliesIntact ==
  refused = 0 =>
    got \o SubSeq(send_buf, send_buf_sent + 1, send_buf_size) = [i \in 1 .. made |-> i]

(* There is room in recv_buf whenever there is something to read, unless   *)
(* a dispatched request keeps the bytes behind it in the buffer.           *)
RoomUnlessWaiting ==
  pc = "event" /\ Readable /\ ~waiting => recv_buf_size < RecvCap

(* Once the client has written its requests, all replies reach it, unless  *)
(* a write has failed or recv_buf has overflowed.                          *)
RepliesArrive ==
  written = TotalBytes ~> Len(got) = TotalReplies \/ refused > 0 \/ pc = "abort"

(* The assertion of reactor_epoll_on_epollin: there is room in recv_buf    *)
(* whenever there is something to read.                                    *)
ReadHasRoom == pc = "event" /\ Readable => recv_buf_size < RecvCap

(* The assertion of reactor_epoll_flush: no more bytes have been sent than *)
(* there are.                                                              *)
SentWithinSize == send_buf_sent <= send_buf_size
=============================================================================
