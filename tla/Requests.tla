------------------------------ MODULE Requests ------------------------------
(***************************************************************************)
(* One connection, byte by byte: reactor_epoll_on_epollin reads into       *)
(* recv_buf any part of what the client has sent, on_data_available parses *)
(* what is there and handle_command executes it.  The memory of recv_buf   *)
(* is modelled with what earlier requests have left in it, for parse_number*)
(* looks behind the bytes received.                                        *)
(*                                                                         *)
(* The key is one on this reactor, so that no command is dispatched and    *)
(* all commands of the client are about one entry.  A name of a command is *)
(* one byte.  recv_buf has room for all that the client sends.             *)
(***************************************************************************)
EXTENDS Parser, Counter, TLC
LOCAL INSTANCE SequencesExt
LOCAL INSTANCE FiniteSetsExt

CONSTANTS
  RecvCap,    \* sizeof(conn->recv_buf), MESSAGE_MAX_LENGTH is 8192
  CounterBuf, \* what try_modify_counter allocates, 20 for a 64-bit integer
  Streams,    \* what a client may send: sequences of requests [bytes, args],
              \* args is Malformed if the bytes are no request
  Malformed, Text, NoValue, Ok, Pong, Err

VARIABLES
  stream,        \* what the client sends
  taken,         \* bytes of it that read has taken from the socket
  recv_buf,
  recv_buf_size,
  recv_buf_read,
  handled,       \* the arguments of the requests handled so far
  entry,         \* the value of the key
  reply,         \* the reply to the last request
  ended,         \* END in conn->flags
  pc             \* where the thread is

input == <<recv_buf, recv_buf_size, recv_buf_read>>
vars == <<stream, taken, input, handled, entry, reply, ended, pc>>

Abstract == INSTANCE Commands

Bytes(requests) == FlattenSeq([i \in DOMAIN requests |-> requests[i].bytes])

Sent == Bytes(stream)

ASSUME StreamAssumption == \A s \in Streams : Len(Bytes(s)) < RecvCap

NoReply == [kind |-> "none", value |-> 0]

Init ==
  /\ stream \in Streams
  /\ taken = 0
  /\ recv_buf = [i \in 1 .. RecvCap |-> 0]
  /\ recv_buf_size = 0
  /\ recv_buf_read = 0
  /\ handled = << >>
  /\ entry = NoValue
  /\ reply = NoReply
  /\ ended = FALSE
  /\ pc = "read"
----------------------------------------------------------------------------
(* reactor_epoll_on_epollin *)

(* a mistake the runs must notice: the unconsumed bytes left where they are *)
MovedNowhere == recv_buf

(* memmove of the bytes not consumed to the front of the buffer *)
Moved ==
  [i \in 1 .. RecvCap |->
     IF i <= recv_buf_size THEN recv_buf[recv_buf_read + i] ELSE recv_buf[i]]

Read(n) ==
  /\ pc = "read" /\ ~ended
  /\ n <= Len(Sent) - taken
  /\ recv_buf' = [i \in 1 .. RecvCap |->
       IF i > recv_buf_size /\ i <= recv_buf_size + n
       THEN Sent[taken + i - recv_buf_size]
       ELSE Moved[i]]
  /\ recv_buf_read' = 0
  /\ recv_buf_size' = recv_buf_size + n
  /\ taken' = taken + n
  /\ pc' = "handle"
  /\ UNCHANGED <<stream, handled, entry, reply, ended>>
----------------------------------------------------------------------------
(* handle_command *)

Reply(kind, value) == reply' = [kind |-> kind, value |-> value]

SetName == 83    \* SET
IncrName == 73   \* INCRBY
DecrName == 68   \* DECRBY
GetName == 71    \* GET

Arity == (SetName :> 2) @@ (IncrName :> 2) @@ (DecrName :> 2) @@ (GetName :> 1)

(* lookup_command finds the name, and the number of arguments is right *)
Known(args) ==
  /\ Len(args[1]) = 1 /\ args[1][1] \in DOMAIN Arity
  /\ Len(args) - 1 = Arity[args[1][1]]

Is(name, args) == Known(args) /\ args[1][1] = name

(* the command is INCRBY or DECRBY, with an increment it accepts *)
Increment(args) == ParseSigned(args[3], CR)
Counts(args) ==
  /\ Is(IncrName, args) \/ Is(DecrName, args)
  /\ Increment(args).ok /\ Increment(args).value >= 0

Delta(args) ==
  IF Is(DecrName, args) THEN -Increment(args).value ELSE Increment(args).value

(* The counter before, read from the entry.  Behind an empty value is     *)
(* whatever malloc has there.                                              *)
Counters ==
  IF entry = NoValue THEN {[ok |-> TRUE, value |-> 0]}
  ELSE {ParseSigned(entry, behind) : behind \in {0, Minus}}

(* a mistake the runs must notice: a value that is no integer counts as 0 *)
ModifyCounterAnyway(delta) ==
  \E old \in Counters :
    LET val == Wrap(old.value + delta)
    IN entry' = TextOf(val) /\ Reply("integer", val)

(* try_modify_counter, whose failure its caller ignores *)
ModifyCounter(delta) ==
  \E old \in Counters :
    LET val == Wrap(old.value + delta)
    IN \/ old.ok /\ entry' = TextOf(val) /\ Reply("integer", val)
       \/ ~old.ok /\ UNCHANGED entry /\ Reply("integer", 0)

Fits(n) == Len(TextOf(n)) + 1 <= CounterBuf

HandleCommand(args) ==
  \/ /\ Is(SetName, args)
     /\ entry' = args[3]
     /\ Reply("status", Ok)
  \/ /\ Is(GetName, args)
     /\ Reply("bulk", entry)
     /\ UNCHANGED entry
  \/ Counts(args) /\ ModifyCounter(Delta(args))
  \/ /\ ~Counts(args) /\ ~Is(SetName, args) /\ ~Is(GetName, args)
     /\ Reply("error", Err)
     /\ UNCHANGED entry
----------------------------------------------------------------------------
(* on_data_available *)

Received == SubSeq(recv_buf, recv_buf_read + 1, recv_buf_read + recv_buf_size)
Stale == recv_buf[recv_buf_read + recv_buf_size + 1]
Request == Parse(Received, Stale)

(* no bytes, or PARSE_INCOMPLETE: wait for more *)
HandleDone ==
  /\ pc = "handle"
  /\ recv_buf_size < 1 \/ Request.verdict = "incomplete"
  /\ pc' = "read"
  /\ UNCHANGED <<stream, taken, input, handled, entry, reply, ended>>

(* PARSE_ERROR, PARSE_ERROR_INVALID_ARGC *)
HandleError ==
  /\ pc = "handle" /\ recv_buf_size >= 1
  /\ Request.verdict \in {"error", "invalid_argc"}
  /\ Reply("error", Err)
  /\ ended' = TRUE
  /\ pc' = "read"
  /\ UNCHANGED <<stream, taken, input, handled, entry>>

(* a mistake the runs must notice: recv_buf_size not reduced *)
ConsumeBytes(len) ==
  /\ recv_buf_read' = recv_buf_read + len
  /\ UNCHANGED recv_buf_size
  /\ pc' = IF recv_buf_size > len THEN "handle" ELSE "read"

(* a mistake the runs must notice: the rest of the pipeline is not looked at *)
ConsumeAlone(len) ==
  /\ recv_buf_read' = recv_buf_read + len
  /\ recv_buf_size' = recv_buf_size - len
  /\ pc' = "read"

Consume(len) ==
  /\ len <= recv_buf_size
  /\ recv_buf_read' = recv_buf_read + len
  /\ recv_buf_size' = recv_buf_size - len
  /\ pc' = IF recv_buf_size' > 0 THEN "handle" ELSE "read"

HandleRequest ==
  /\ pc = "handle" /\ recv_buf_size >= 1
  /\ Request.verdict = "ok"
  /\ \/ Request.args = << >> /\ UNCHANGED <<handled, entry, reply>>
     \/ /\ Request.args # << >>
        /\ HandleCommand(Request.args)
        /\ handled' = Append(handled, Request.args)
  /\ Consume(Request.len)
  /\ UNCHANGED <<stream, taken, recv_buf, ended>>

(* A counter longer than its buffer: sprintf writes behind it, which the  *)
(* sanitizer of the debug build does not let pass, and the rounding of     *)
(* malloc does.                                                            *)
HandleOverrun ==
  /\ pc = "handle" /\ recv_buf_size >= 1
  /\ Request.verdict = "ok" /\ Request.args # << >> /\ Counts(Request.args)
  /\ \E old \in Counters : old.ok /\ ~Fits(Wrap(old.value + Delta(Request.args)))
  /\ pc' = "abort"
  /\ UNCHANGED <<stream, taken, input, handled, entry, reply, ended>>

Next ==
  \/ \E n \in 1 .. RecvCap : Read(n)
  \/ HandleDone \/ HandleError \/ HandleRequest \/ HandleOverrun

Spec == Init /\ [][Next]_vars
----------------------------------------------------------------------------
(* Properties *)

(* Every variable has its type, the unconsumed bytes are among those read, *)
(* and a counter answered is an integer of the machine.                    *)
TypeOK ==
  /\ stream \in Streams
  /\ taken \in 0 .. Len(Sent)
  /\ recv_buf \in [1 .. RecvCap -> 0 .. 255]
  /\ recv_buf_size \in 0 .. taken
  /\ recv_buf_read \in 0 .. taken - recv_buf_size
  /\ handled \in Seq(Seq(Seq(0 .. 255)))
  /\ entry # NoValue => entry \in Seq(0 .. 255)
  /\ reply.kind \in {"none", "status", "bulk", "integer", "error"}
  /\ reply.kind = "integer" => reply.value \in Integer
  /\ ended \in BOOLEAN
  /\ pc \in {"read", "handle", "abort"}

(* the arguments of the requests the client sends, up to a malformed one *)
Wanted ==
  LET good == {n \in 0 .. Len(stream) : \A i \in 1 .. n : stream[i].args # Malformed}
  IN SelectSeq([i \in 1 .. Max(good) |-> stream[i].args], LAMBDA args : args # << >>)

(* Wherever read cuts the stream, in whichever form the requests are, and  *)
(* whatever is left in the memory behind them: on_data_available handles   *)
(* the requests the client has sent, with their arguments and in order.    *)
HandledAsSent == IsPrefix(handled, Wanted)

(* Nothing that has come in full is left behind: when all bytes are read   *)
(* and the thread waits for more, every request is handled.  Only an array *)
(* of no arguments waits for the two bytes that parse_resp_request wants   *)
(* behind it.                                                              *)
NothingLeft ==
  taken = Len(Sent) /\ pc = "read" /\ ~ended =>
    handled = Wanted /\ Received \in {<< >>, <<Star, 48, CR, LF>>}

(* the first request not consumed, and whether the bytes received end in a number of it *)
AtFront == CHOOSE n \in DOMAIN stream :
             Len(Bytes(SubSeq(stream, 1, n - 1))) = taken - recv_buf_size
InNumber ==
  \E i \in DOMAIN Received :
    /\ Received[i] \in {Star, Dollar}
    /\ \A j \in i + 1 .. Len(Received) : IsDigit(Received[j])

(* A connection is given up for a malformed request only, with one         *)
(* exception: if read stops inside a number, the byte of memory behind it  *)
(* decides, since parse_number takes it for one that was received.         *)
RefusedOnlySplitNumber ==
  ended => stream[AtFront].args = Malformed \/ (InNumber /\ Stale # CR)

(* What a value is to Commands: the number its text stands for, by the    *)
(* places of its digits, or Text.  As the code has it, no digits are 0.    *)
Meaning(text) ==
  LET sign == IF text = << >> THEN CR ELSE text[1]
      digits == IF sign \in {Minus, Plus} THEN Tail(text) ELSE text
      number == MapThenSumSet(LAMBDA i : (digits[i] - 48) * 10 ^ (Len(digits) - i),
                              DOMAIN digits)
  IN CASE text = NoValue -> NoValue
       [] text # NoValue /\ (\E i \in DOMAIN digits : ~IsDigit(digits[i])) -> Text
       [] OTHER -> IF sign = Minus THEN -number ELSE number

(* the command of Commands that a request asks for *)
CommandOf(args) ==
  LET value == Meaning(args[3])
      count(n) == IF n < 0 THEN [op |-> "ping", arg |-> Err] ELSE
                  [op |-> "incr", arg |-> IF args[1][1] = DecrName THEN -n ELSE n]
  IN CASE Is(SetName, args) -> [op |-> "set", arg |-> value]
       [] Is(GetName, args) -> [op |-> "get", arg |-> NoValue]
       [] Is(IncrName, args) \/ Is(DecrName, args) ->
            IF value = Text THEN [op |-> "ping", arg |-> Err] ELSE count(value)
       [] OTHER -> [op |-> "ping", arg |-> Err]

ReplyMeaning(r) == IF r.kind = "bulk" THEN Meaning(r.value) ELSE r.value

(* the machine's integers are wide enough for the command *)
InRange(cmd, old) ==
  cmd.op = "incr" /\ old # Text =>
    Abstract!Counter(old) \in Integer /\ cmd.arg \in Integer /\ Abstract!Counter(old) + cmd.arg \in Integer

(* The bytes of the entry and of the reply are what Commands says of their *)
(* meaning, in whatever way the numbers are written: as long as no integer *)
(* overflows, and the entry is not empty, where the byte behind it decides *)
(* whether it is a number.                                                 *)
AsCommands ==
  [][handled' # handled =>
       LET cmd == CommandOf(Last(handled'))
           old == Meaning(entry)
       IN InRange(cmd, old) /\ entry # << >> =>
            /\ Meaning(entry') = Abstract!NewEntry(cmd, old)
            /\ ReplyMeaning(reply') =
                 IF cmd.op = "ping" THEN Err ELSE Abstract!Answer(cmd, old, 0)]_vars

(* commands.c:349, "20 bytes for int64_t": the buffer of a counter has     *)
(* room for its text and the zero that sprintf writes behind it.  It has   *)
(* not for a negative number with as many digits as an integer can have.   *)
CounterFits == reply.kind = "integer" => Fits(reply.value)
=============================================================================
