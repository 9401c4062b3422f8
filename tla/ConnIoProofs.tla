---------------------------- MODULE ConnIoProofs ----------------------------
(***************************************************************************)
(* The buffers of a connection, for every length of recv_buf and every     *)
(* sequence of requests that fit into it: recv_buf holds the unconsumed    *)
(* stream, it runs full behind a dispatched request only, and the socket   *)
(* gets the replies unchanged until a write fails.                         *)
(*                                                                         *)
(* That the replies made are never more than those asked for, as TypeOK of *)
(* ConnIo has it, is a fact about sums over sequences, and not used here.  *)
(***************************************************************************)
EXTENDS ConnIo, SequenceTheorems, TLAPS

(* What is needed of TypeOK: the unconsumed bytes are inside the buffer. *)
InputType ==
  /\ written \in 0 .. TotalBytes
  /\ taken \in 0 .. written
  /\ recv_buf \in [Slots -> Nat]
  /\ recv_buf_size \in 0 .. RecvCap
  /\ recv_buf_size <= taken
  /\ recv_buf_read \in 0 .. RecvCap - recv_buf_size
  /\ waiting \in BOOLEAN

(* What the thread has consumed is a number of whole requests. *)
Boundary ==
  \/ taken - recv_buf_size = TotalBytes
  \/ \E n \in 1 .. Len(Requests) : taken - recv_buf_size = Start(n) - 1

(* Outside of on_data_available there is a request in the buffer only if   *)
(* the connection waits for a response.                                    *)
Drained ==
  /\ pc \in {"flush", "poll", "event"} /\ ~waiting =>
       \A n \in 1 .. Len(Requests) : ~Complete(n)
  /\ pc = "handle" => caller \in {"poll", "flush"}
  /\ pc \in {"flush", "poll", "event", "handle", "abort"}

InputInv == InputType /\ BufferHoldsStream /\ Boundary /\ Drained

OutputType ==
  /\ requested \in Seq(Nat) /\ cb_queue \in Seq(Nat)
  /\ send_buf \in Seq(Nat)
  /\ made \in Nat
  /\ refused \in Nat

(* As long as no write has failed: the bytes sent and those still to be    *)
(* sent make up the stream of the replies, and there is something to send  *)
(* unless send_buf is empty.                                               *)
StreamIntact ==
  refused = 0 =>
    /\ send_buf_sent \in 0 .. Len(send_buf)
    /\ send_buf # << >> => send_buf_sent < Len(send_buf)
    /\ got \in Seq(Nat)
    /\ Len(got) + (Len(send_buf) - send_buf_sent) = made
    /\ \A i \in 1 .. Len(got) : got[i] = i
    /\ \A j \in send_buf_sent + 1 .. Len(send_buf) :
         send_buf[j] = Len(got) + (j - send_buf_sent)

OutputInv == OutputType /\ StreamIntact

----------------------------------------------------------------------------
(* The requests follow one another, each of them fits into the buffer. *)
LEMMA RequestFacts ==
  /\ Len(Requests) \in Nat \ {0}
  /\ DOMAIN Requests = 1 .. Len(Requests)
  /\ \A n \in 1 .. Len(Requests) :
       /\ Start(n) \in Nat \ {0} /\ End(n) \in Nat
       /\ Requests[n].len \in 1 .. RecvCap
       /\ Requests[n].reply \in Nat \ {0}
       /\ End(n) = Start(n) + Requests[n].len - 1
  /\ Start(1) = 1
  /\ \A n \in 1 .. Len(Requests) - 1 : Start(n + 1) = End(n) + 1
  /\ TotalBytes = End(Len(Requests))
  /\ TotalBytes \in Nat
  /\ RecvCap \in Nat \ {0}
<1>1. Len(Requests) \in Nat \ {0} /\ DOMAIN Requests = 1 .. Len(Requests)
  BY RequestAssumption
<1>2. \A n \in 1 .. Len(Requests) :
        Requests[n] \in [first : Nat \ {0}, len : 1 .. RecvCap,
                         reply : Nat \ {0}, remote : BOOLEAN]
  <2>. DEFINE Records == [first : Nat \ {0}, len : 1 .. RecvCap,
                          reply : Nat \ {0}, remote : BOOLEAN]
  <2>1. Requests \in Seq(Records)
    BY RequestAssumption
  <2>. HIDE DEF Records
  <2>2. \A n \in 1 .. Len(Requests) : Requests[n] \in Records
    BY <2>1
  <2>. QED
    BY <2>2 DEF Records
<1>3. RecvCap \in Nat \ {0}
  BY CapAssumption
<1>4. ASSUME NEW n \in 1 .. Len(Requests)
      PROVE  /\ Start(n) \in Nat \ {0} /\ End(n) \in Nat
             /\ Requests[n].len \in 1 .. RecvCap
             /\ Requests[n].reply \in Nat \ {0}
             /\ End(n) = Start(n) + Requests[n].len - 1
  <2>1. /\ Requests[n].first \in Nat \ {0} /\ Requests[n].len \in 1 .. RecvCap
        /\ Requests[n].reply \in Nat \ {0}
    BY <1>2
  <2>. QED
    BY <1>3, <2>1 DEF Start, End
<1>5. ASSUME NEW n \in 1 .. Len(Requests) - 1
      PROVE  Start(n + 1) = End(n) + 1
  <2>1. n \in 1 .. Len(Requests) /\ n + 1 \in 2 .. Len(Requests) /\ (n + 1) - 1 = n
    BY <1>1
  <2>2. Requests[n + 1].first = Requests[n].first + Requests[n].len
    BY <2>1, RequestAssumption
  <2>3. Requests[n].first \in Nat /\ Requests[n].len \in Nat
    BY <1>2, <1>3, <2>1
  <2>. QED
    BY <2>2, <2>3 DEF Start, End
<1>6. Start(1) = 1
  BY RequestAssumption DEF Start
<1>7. TotalBytes = End(Len(Requests))
  BY DEF TotalBytes
<1>8. TotalBytes \in Nat
  BY <1>1, <1>4, <1>7
<1>. QED
  BY <1>1, <1>3, <1>4, <1>5, <1>6, <1>7, <1>8

(* A complete request begins at the first byte that is not consumed. *)
LEMMA CompleteFacts ==
  ASSUME InputType, BufferHoldsStream, NEW n \in 1 .. Len(Requests)
  PROVE  Complete(n) <=>
           /\ recv_buf_size > 0
           /\ taken - recv_buf_size + 1 = Start(n)
           /\ Requests[n].len <= recv_buf_size
<1>1. recv_buf_size \in Nat /\ recv_buf_read \in Nat /\ taken \in Nat
  BY RequestFacts DEF InputType
<1>2. recv_buf_size > 0 => recv_buf[recv_buf_read] = taken - recv_buf_size + 1
  <2>1. SUFFICES ASSUME recv_buf_size > 0
                 PROVE  recv_buf[recv_buf_read] = taken - recv_buf_size + 1
    OBVIOUS
  <2>2. 0 \in 0 .. recv_buf_size - 1
    BY <1>1, <2>1
  <2>3. recv_buf[recv_buf_read + 0] = taken - recv_buf_size + 1 + 0
    BY <2>2 DEF BufferHoldsStream
  <2>. QED
    BY <1>1, <2>3
<1>. QED
  BY <1>2 DEF Complete, AtFront

----------------------------------------------------------------------------
(* recv_buf *)

LEMMA InputInit == Init => InputInv
<1>. SUFFICES ASSUME Init PROVE InputInv
  OBVIOUS
<1>1. InputType
  <2>1. recv_buf \in [Slots -> Nat]
    BY DEF Init
  <2>2. TotalBytes \in Nat /\ RecvCap \in Nat
    BY RequestFacts
  <2>3. /\ written = 0 /\ taken = 0 /\ waiting = FALSE
        /\ recv_buf_size = 0 /\ recv_buf_read = 0
    BY DEF Init
  <2>4. /\ written \in 0 .. TotalBytes /\ taken \in 0 .. written
        /\ recv_buf_size \in 0 .. RecvCap /\ recv_buf_size <= taken
        /\ recv_buf_read \in 0 .. RecvCap - recv_buf_size
    BY <2>2, <2>3
  <2>. QED
    BY <2>1, <2>3, <2>4 DEF InputType
<1>2. BufferHoldsStream
  BY DEF Init, BufferHoldsStream
<1>3. Boundary
  BY RequestFacts DEF Init, Boundary
<1>4. Drained
  BY DEF Init, Drained, Complete, AtFront
<1>. QED
  BY <1>1, <1>2, <1>3, <1>4 DEF InputInv

(* A step that leaves recv_buf alone, and does not come from the parser. *)
LEMMA InputSame ==
  ASSUME InputInv, UNCHANGED <<taken, input, waiting>>,
         written' \in written .. TotalBytes,
         \/ UNCHANGED loop
         \/ /\ pc \in {"flush", "poll", "event"}
            /\ pc' \in {"flush", "poll", "event", "abort"}
  PROVE  InputInv'
<1>1. InputType'
  BY RequestFacts DEF InputInv, InputType, input, Slots
<1>2. BufferHoldsStream' /\ Boundary'
  BY DEF InputInv, BufferHoldsStream, Boundary, input
<1>3. \A n : Complete(n)' <=> Complete(n)
  BY DEF Complete, AtFront, input
<1>4. Drained'
  BY <1>3 DEF InputInv, Drained, loop
<1>. QED
  BY <1>1, <1>2, <1>4 DEF InputInv

LEMMA InputConsume ==
  ASSUME InputInv, NEW n \in 1 .. Len(Requests), pc = "handle", Complete(n),
         Consume(Requests[n].len), waiting' \in BOOLEAN,
         UNCHANGED <<written, taken, recv_buf, loop>>
  PROVE  InputInv'
<1>. DEFINE len == Requests[n].len
<1>1. /\ taken - recv_buf_size + 1 = Start(n)
      /\ len <= recv_buf_size /\ len \in Nat \ {0}
  BY CompleteFacts, RequestFacts DEF InputInv
<1>2. /\ recv_buf_read' = recv_buf_read + len
      /\ recv_buf_size' = recv_buf_size - len
  BY DEF Consume
<1>3. /\ recv_buf_size \in 0 .. RecvCap /\ recv_buf_read \in 0 .. RecvCap - recv_buf_size
      /\ taken \in Nat /\ recv_buf_size <= taken /\ RecvCap \in Nat
  BY RequestFacts DEF InputInv, InputType
<1>. HIDE DEF len
<1>4. /\ recv_buf_size' \in 0 .. RecvCap /\ recv_buf_size' <= taken
      /\ recv_buf_read' \in 0 .. RecvCap - recv_buf_size'
  BY <1>1, <1>2, <1>3
<1>5. InputType'
  BY <1>4 DEF InputInv, InputType, Slots
<1>6. BufferHoldsStream'
  <2>. SUFFICES ASSUME NEW i \in 0 .. recv_buf_size' - 1
                PROVE  recv_buf[recv_buf_read' + i] = taken - recv_buf_size' + 1 + i
    BY DEF BufferHoldsStream
  <2>1. len + i \in 0 .. recv_buf_size - 1
    BY <1>1, <1>2, <1>3
  <2>2. recv_buf[recv_buf_read + (len + i)] = taken - recv_buf_size + 1 + (len + i)
    BY <2>1 DEF InputInv, BufferHoldsStream
  <2>3. recv_buf_read + (len + i) = recv_buf_read' + i
    BY <1>1, <1>2, <1>3
  <2>4. taken - recv_buf_size + 1 + (len + i) = taken - recv_buf_size' + 1 + i
    BY <1>1, <1>2, <1>3
  <2>. QED
    BY <2>2, <2>3, <2>4
<1>7. Boundary'
  <2>1. taken' - recv_buf_size' = End(n)
    BY <1>1, <1>2, <1>3, RequestFacts DEF len
  <2>2. CASE n = Len(Requests)
    BY <2>1, <2>2, RequestFacts DEF Boundary
  <2>3. CASE n # Len(Requests)
    <3>1. n \in 1 .. Len(Requests) - 1 /\ n + 1 \in 1 .. Len(Requests)
      BY <2>3, RequestFacts
    <3>2. taken' - recv_buf_size' = Start(n + 1) - 1
      BY <2>1, <3>1, RequestFacts
    <3>. QED
      BY <3>1, <3>2 DEF Boundary
  <2>. QED
    BY <2>2, <2>3
<1>8. Drained'
  BY DEF InputInv, Drained, loop
<1>. QED
  BY <1>5, <1>6, <1>7, <1>8 DEF InputInv

LEMMA InputEpollIn ==
  ASSUME InputInv, NEW n \in Nat \ {0}, EpollIn(n)
  PROVE  InputInv'
<1>1. /\ recv_buf_size \in 0 .. RecvCap /\ recv_buf_read \in 0 .. RecvCap - recv_buf_size
      /\ taken \in Nat /\ written \in Nat /\ recv_buf_size <= taken /\ RecvCap \in Nat
      /\ recv_buf \in [Slots -> Nat]
  BY RequestFacts DEF InputInv, InputType
<1>2. /\ n <= written - taken /\ n <= RecvCap - recv_buf_size
      /\ recv_buf_read' = 0 /\ recv_buf_size' = recv_buf_size + n
      /\ taken' = taken + n /\ UNCHANGED <<written, waiting>>
  BY DEF EpollIn
<1>3. /\ DOMAIN recv_buf' = Slots
      /\ \A i \in Slots :
           recv_buf'[i] = IF i >= recv_buf_size /\ i < recv_buf_size + n
                          THEN taken + 1 + (i - recv_buf_size)
                          ELSE Moved[i]
      /\ recv_buf' = [i \in Slots |-> recv_buf'[i]]
  BY DEF EpollIn
<1>4. \A i \in Slots :
        Moved[i] = IF i < recv_buf_size THEN recv_buf[recv_buf_read + i] ELSE recv_buf[i]
  BY DEF Moved
<1>5. \A i \in Slots : recv_buf'[i] \in Nat
  <2>. SUFFICES ASSUME NEW i \in Slots PROVE recv_buf'[i] \in Nat
    OBVIOUS
  <2>1. i \in Nat /\ (i < recv_buf_size => recv_buf_read + i \in Slots)
    BY <1>1 DEF Slots
  <2>2. Moved[i] \in Nat
    BY <1>1, <1>4, <2>1
  <2>. QED
    BY <1>1, <1>3, <2>1, <2>2
<1>6. InputType'
  <2>1. recv_buf' \in [Slots -> Nat]
    BY <1>3, <1>5
  <2>2. /\ recv_buf_size' \in 0 .. RecvCap /\ recv_buf_size' <= taken'
        /\ recv_buf_read' \in 0 .. RecvCap - recv_buf_size'
        /\ taken' \in 0 .. written'
    BY <1>1, <1>2
  <2>. QED
    BY <1>2, <2>1, <2>2 DEF InputInv, InputType, Slots
<1>7. BufferHoldsStream'
  <2>. SUFFICES ASSUME NEW i \in 0 .. recv_buf_size' - 1
                PROVE  recv_buf'[recv_buf_read' + i] = taken' - recv_buf_size' + 1 + i
    BY DEF BufferHoldsStream
  <2>1. i \in Slots /\ i \in Nat /\ i < recv_buf_size + n
        /\ recv_buf_read' + i = i /\ taken' - recv_buf_size' = taken - recv_buf_size
    BY <1>1, <1>2 DEF Slots
  <2>2. CASE i < recv_buf_size
    <3>1. i \in 0 .. recv_buf_size - 1
      BY <1>1, <2>1, <2>2
    <3>2. recv_buf[recv_buf_read + i] = taken - recv_buf_size + 1 + i
      BY <3>1 DEF InputInv, BufferHoldsStream
    <3>3. recv_buf'[i] = recv_buf[recv_buf_read + i]
      BY <1>1, <1>3, <1>4, <2>1, <2>2
    <3>. QED
      BY <2>1, <3>2, <3>3
  <2>3. CASE ~(i < recv_buf_size)
    <3>1. recv_buf'[i] = taken + 1 + (i - recv_buf_size)
      BY <1>1, <1>3, <2>1, <2>3
    <3>. QED
      BY <1>1, <2>1, <3>1
  <2>. QED
    BY <2>2, <2>3
<1>8. Boundary'
  <2>1. taken' - recv_buf_size' = taken - recv_buf_size
    BY <1>1, <1>2
  <2>. QED
    BY <2>1 DEF InputInv, Boundary
<1>9. Drained'
  BY DEF EpollIn, Drained, Handle
<1>. QED
  BY <1>6, <1>7, <1>8, <1>9 DEF InputInv

LEMMA InputStep == InputInv /\ [Next]_vars => InputInv'
<1>. SUFFICES ASSUME InputInv, [Next]_vars PROVE InputInv'
  OBVIOUS
<1>. USE DEF outside, input, loop, output
<1>0. written \in written .. TotalBytes /\ written \in Nat /\ TotalBytes \in Nat
  BY RequestFacts DEF InputInv, InputType
<1>1. CASE ClientWrite
  <2>1. written' \in written .. TotalBytes
    BY <1>0, <1>1 DEF ClientWrite
  <2>. QED
    BY <1>1, <2>1, InputSame DEF ClientWrite
<1>2. CASE Respond
  BY <1>0, <1>2, InputSame DEF Respond
<1>3. ASSUME NEW n \in 1 .. TotalReplies, FlushWrite(n) PROVE InputInv'
  BY <1>0, <1>3, InputSame DEF FlushWrite
<1>4. CASE FlushRefused
  BY <1>0, <1>4, InputSame DEF FlushRefused
<1>5. CASE FlushDone
  BY <1>0, <1>5, InputSame DEF FlushDone
<1>6. CASE PollResponse
  <2>1. UNCHANGED <<written, taken, input>> /\ waiting' = FALSE
        /\ pc' = "handle" /\ caller' = "poll"
    BY <1>6 DEF PollResponse, Handle
  <2>2. InputType' /\ BufferHoldsStream' /\ Boundary'
    BY <2>1 DEF InputInv, InputType, BufferHoldsStream, Boundary, Slots
  <2>3. Drained'
    BY <2>1 DEF Drained
  <2>. QED
    BY <2>2, <2>3 DEF InputInv
<1>7. CASE PollNothing
  BY <1>0, <1>7, InputSame DEF PollNothing
<1>8. ASSUME NEW n \in Slots, EpollIn(n + 1) PROVE InputInv'
  <2>1. n + 1 \in Nat \ {0}
    BY DEF Slots
  <2>. QED
    BY <1>8, <2>1, InputEpollIn
<1>9. CASE EpollInFull
  BY <1>0, <1>9, InputSame DEF EpollInFull
<1>10. CASE EpollNothing
  BY <1>0, <1>10, InputSame DEF EpollNothing
<1>11. ASSUME NEW n \in DOMAIN Requests, HandleLocal(n) \/ HandleDispatch(n)
       PROVE  InputInv'
  <2>1. n \in 1 .. Len(Requests)
    BY RequestFacts
  <2>2. waiting' \in BOOLEAN
    BY <1>11 DEF HandleLocal, HandleDispatch, InputInv, InputType
  <2>3. pc = "handle" /\ Complete(n) /\ Consume(Requests[n].len)
        /\ UNCHANGED <<written, taken, recv_buf, loop>>
    BY <1>11 DEF HandleLocal, HandleDispatch
  <2>. QED
    BY <2>1, <2>2, <2>3, InputConsume
<1>12. CASE HandleDone
  <2>1. UNCHANGED <<written, taken, input, waiting>> /\ pc = "handle" /\ pc' = caller
    BY <1>12 DEF HandleDone
  <2>2. InputType' /\ BufferHoldsStream' /\ Boundary'
    BY <2>1 DEF InputInv, InputType, BufferHoldsStream, Boundary, Slots
  <2>3. \A n \in 1 .. Len(Requests) : ~Complete(n)
    BY <1>12, RequestFacts DEF HandleDone
  <2>4. \A n : Complete(n)' <=> Complete(n)
    BY <2>1 DEF Complete, AtFront
  <2>5. Drained'
    BY <2>1, <2>3, <2>4 DEF InputInv, Drained
  <2>. QED
    BY <2>2, <2>5 DEF InputInv
<1>13. CASE UNCHANGED vars
  BY <1>0, <1>13, InputSame DEF vars
<1>. QED
  BY <1>1, <1>2, <1>3, <1>4, <1>5, <1>6, <1>7, <1>8, <1>9, <1>10, <1>11, <1>12, <1>13
     DEF Next, Thread

LEMMA InputAlways == Spec => []InputInv
BY InputInit, InputStep, PTL DEF Spec

(* The unconsumed bytes of recv_buf are the last ones that read has taken, *)
(* in order: whatever parts the requests arrive in, memmove, read and the  *)
(* consumption of a request keep the stream together.                      *)
THEOREM StreamInBuffer == Spec => []BufferHoldsStream
BY InputAlways, PTL DEF InputInv

(* reactor_epoll_on_epollin finds room in recv_buf whenever there is       *)
(* something to read, unless the connection waits for a response.          *)
THEOREM RoomForBytes == Spec => []RoomUnlessWaiting
<1>1. InputInv => RoomUnlessWaiting
  <2>. SUFFICES ASSUME InputInv, pc = "event", Readable, ~waiting,
                       ~(recv_buf_size < RecvCap)
                PROVE  FALSE
    BY DEF RoomUnlessWaiting
  <2>1. recv_buf_size = RecvCap /\ RecvCap \in Nat \ {0} /\ taken < TotalBytes /\ taken \in Nat
    BY RequestFacts DEF InputInv, InputType, Readable
  <2>2. taken - recv_buf_size # TotalBytes
    BY <2>1, RequestFacts
  <2>3. PICK n \in 1 .. Len(Requests) : taken - recv_buf_size = Start(n) - 1
    BY <2>2 DEF InputInv, Boundary
  <2>4. /\ recv_buf_size > 0 /\ Requests[n].len <= recv_buf_size
        /\ taken - recv_buf_size + 1 = Start(n)
    BY <2>1, <2>3, RequestFacts
  <2>5. Complete(n)
    BY <2>4, CompleteFacts DEF InputInv
  <2>. QED
    BY <2>5 DEF InputInv, Drained
<1>. QED
  BY <1>1, InputAlways, PTL

----------------------------------------------------------------------------
(* send_buf and the socket *)

(* Part of a sequence. *)
LEMMA SliceFacts ==
  ASSUME NEW S, NEW s \in Seq(S), NEW m \in Nat, NEW n \in Nat, m + n <= Len(s)
  PROVE  /\ SubSeq(s, m + 1, m + n) \in Seq(S)
         /\ Len(SubSeq(s, m + 1, m + n)) = n
         /\ \A i \in 1 .. n : SubSeq(s, m + 1, m + n)[i] = s[m + i]
<1>. DEFINE a == m + 1
            b == m + n
<1>1. Len(s) \in Nat
  OBVIOUS
<1>2. a \in 1 .. Len(s) + 1 /\ b \in a - 1 .. Len(s) /\ b - a + 1 = n
      /\ \A i \in 1 .. n : i \in 1 .. b - a + 1 /\ a + i - 1 = m + i
  BY <1>1
<1>. HIDE DEF a, b
<1>3. /\ SubSeq(s, a, b) \in Seq(S) /\ Len(SubSeq(s, a, b)) = b - a + 1
      /\ \A i \in 1 .. b - a + 1 : SubSeq(s, a, b)[i] = s[a + i - 1]
  BY <1>1, <1>2, SubSeqProperties
<1>4. /\ SubSeq(s, a, b) \in Seq(S) /\ Len(SubSeq(s, a, b)) = n
      /\ \A i \in 1 .. n : SubSeq(s, a, b)[i] = s[m + i]
  BY <1>2, <1>3
<1>. QED
  BY <1>4 DEF a, b

LEMMA OutputInit == Init => OutputInv
BY DEF Init, OutputInv, OutputType, StreamIntact

(* A reply goes to the end of send_buf. *)
LEMMA OutputReply ==
  ASSUME OutputInv, NEW n \in Nat, WriteReply(n),
         requested' \in Seq(Nat), cb_queue' \in Seq(Nat)
  PROVE  OutputInv'
<1>. DEFINE more == NextBytes(n)
<1>1. more \in Seq(Nat) /\ Len(more) = n /\ \A i \in 1 .. n : more[i] = made + i
  BY DEF NextBytes, OutputInv, OutputType
<1>2. send_buf \in Seq(Nat) /\ Len(send_buf) \in Nat
  BY DEF OutputInv, OutputType
<1>3. send_buf' = send_buf \o more /\ made' = made + n
      /\ UNCHANGED <<send_buf_sent, got, refused>>
  BY DEF WriteReply
<1>. HIDE DEF more
<1>4. /\ send_buf' \in Seq(Nat) /\ Len(send_buf') = Len(send_buf) + n
      /\ \A i \in 1 .. Len(send_buf) + n :
           send_buf'[i] = IF i <= Len(send_buf) THEN send_buf[i]
                          ELSE more[i - Len(send_buf)]
  BY <1>1, <1>2, <1>3, ConcatProperties
<1>5. OutputType'
  BY <1>3, <1>4 DEF OutputInv, OutputType
<1>6. StreamIntact'
  <2>. SUFFICES ASSUME refused = 0
                PROVE  /\ send_buf_sent \in 0 .. Len(send_buf')
                       /\ send_buf' # << >> => send_buf_sent < Len(send_buf')
                       /\ Len(got) + (Len(send_buf') - send_buf_sent) = made'
                       /\ \A j \in send_buf_sent + 1 .. Len(send_buf') :
                            send_buf'[j] = Len(got) + (j - send_buf_sent)
    BY <1>3 DEF OutputInv, StreamIntact
  <2>1. /\ send_buf_sent \in 0 .. Len(send_buf)
        /\ send_buf # << >> => send_buf_sent < Len(send_buf)
        /\ got \in Seq(Nat) /\ Len(got) \in Nat
        /\ Len(got) + (Len(send_buf) - send_buf_sent) = made
        /\ \A j \in send_buf_sent + 1 .. Len(send_buf) :
             send_buf[j] = Len(got) + (j - send_buf_sent)
    BY DEF OutputInv, StreamIntact
  <2>2. send_buf' # << >> => send_buf_sent < Len(send_buf')
    <3>1. CASE n = 0 /\ send_buf = << >>
      BY <1>2, <1>4, <3>1
    <3>2. CASE n > 0 \/ send_buf # << >>
      BY <1>2, <1>4, <2>1, <3>2
    <3>. QED
      BY <3>1, <3>2
  <2>3. ASSUME NEW j \in send_buf_sent + 1 .. Len(send_buf')
        PROVE  send_buf'[j] = Len(got) + (j - send_buf_sent)
    <3>1. j \in 1 .. Len(send_buf) + n
      BY <1>2, <1>4, <2>1
    <3>2. CASE j <= Len(send_buf)
      <4>1. j \in send_buf_sent + 1 .. Len(send_buf)
        BY <1>2, <2>1, <3>1, <3>2
      <4>2. send_buf[j] = Len(got) + (j - send_buf_sent)
        BY <2>1, <4>1
      <4>. QED
        BY <1>4, <3>1, <3>2, <4>2
    <3>3. CASE ~(j <= Len(send_buf))
      <4>1. j - Len(send_buf) \in 1 .. n
        BY <1>2, <3>1, <3>3
      <4>2. send_buf'[j] = made + (j - Len(send_buf))
        BY <1>1, <1>4, <3>1, <3>3, <4>1
      <4>. QED
        BY <1>2, <2>1, <3>1, <4>2
    <3>. QED
      BY <3>2, <3>3
  <2>. QED
    <3>1. send_buf_sent \in 0 .. Len(send_buf')
          /\ Len(got) + (Len(send_buf') - send_buf_sent) = made'
      BY <1>2, <1>3, <1>4, <2>1
    <3>. QED
      BY <2>2, <2>3, <3>1
<1>. QED
  BY <1>5, <1>6 DEF OutputInv

(* write takes the next n bytes of send_buf. *)
LEMMA OutputWrite ==
  ASSUME OutputInv, NEW n, FlushWrite(n)
  PROVE  OutputInv'
<1>1. /\ n \in 1 .. Remaining
      /\ got' = got \o SubSeq(send_buf, send_buf_sent + 1, send_buf_sent + n)
      /\ \/ n = Remaining /\ send_buf' = << >> /\ send_buf_sent' = 0
         \/ n < Remaining /\ send_buf_sent' = send_buf_sent + n /\ UNCHANGED send_buf
      /\ UNCHANGED <<requested, cb_queue, made, refused>>
  BY DEF FlushWrite, outside
<1>2. OutputType'
  <2>1. send_buf' \in Seq(Nat)
    <3>1. send_buf \in Seq(Nat) /\ << >> \in Seq(Nat)
      BY DEF OutputInv, OutputType
    <3>2. send_buf' = send_buf \/ send_buf' = << >>
      BY <1>1
    <3>. QED
      BY <3>1, <3>2
  <2>. QED
    BY <1>1, <2>1 DEF OutputInv, OutputType
<1>3. ASSUME refused = 0 PROVE StreamIntact'
  <2>1. /\ send_buf_sent \in 0 .. Len(send_buf)
        /\ got \in Seq(Nat) /\ Len(got) \in Nat
        /\ Len(got) + (Len(send_buf) - send_buf_sent) = made
        /\ \A i \in 1 .. Len(got) : got[i] = i
        /\ \A j \in send_buf_sent + 1 .. Len(send_buf) :
             send_buf[j] = Len(got) + (j - send_buf_sent)
    BY <1>3 DEF OutputInv, StreamIntact
  <2>2. send_buf \in Seq(Nat) /\ Len(send_buf) \in Nat
    BY DEF OutputInv, OutputType
  <2>. DEFINE part == SubSeq(send_buf, send_buf_sent + 1, send_buf_sent + n)
  <2>3. n \in Nat \ {0} /\ send_buf_sent + n <= Len(send_buf)
    BY <1>1, <2>1, <2>2 DEF Remaining, send_buf_size
  <2>4. /\ part \in Seq(Nat) /\ Len(part) = n
        /\ \A i \in 1 .. n : part[i] = send_buf[send_buf_sent + i]
    BY <2>1, <2>2, <2>3, SliceFacts
  <2>5. \A i \in 1 .. n : part[i] = Len(got) + i
    BY <2>1, <2>2, <2>3, <2>4
  <2>6. got' = got \o part
    BY <1>1
  <2>. HIDE DEF part
  <2>7. /\ got' \in Seq(Nat) /\ Len(got') = Len(got) + n
        /\ \A i \in 1 .. Len(got) + n :
             got'[i] = IF i <= Len(got) THEN got[i] ELSE part[i - Len(got)]
    BY <2>1, <2>4, <2>6, ConcatProperties
  <2>8. \A i \in 1 .. Len(got') : got'[i] = i
    <3>. SUFFICES ASSUME NEW i \in 1 .. Len(got) + n PROVE got'[i] = i
      BY <2>7
    <3>1. CASE i <= Len(got)
      BY <2>1, <2>7, <3>1
    <3>2. CASE ~(i <= Len(got))
      <4>1. i - Len(got) \in 1 .. n
        BY <2>1, <2>3, <3>2
      <4>2. part[i - Len(got)] = Len(got) + (i - Len(got))
        BY <2>5, <4>1
      <4>3. got'[i] = part[i - Len(got)]
        BY <2>7, <3>2
      <4>. QED
        BY <2>1, <4>2, <4>3
    <3>. QED
      BY <3>1, <3>2
  <2>9. CASE n = Remaining /\ send_buf' = << >> /\ send_buf_sent' = 0
    <3>1. Len(got') + (Len(send_buf') - send_buf_sent') = made'
      BY <1>1, <2>1, <2>2, <2>3, <2>7, <2>9 DEF Remaining, send_buf_size
    <3>. QED
      BY <2>7, <2>8, <2>9, <3>1 DEF StreamIntact
  <2>10. CASE n < Remaining /\ send_buf_sent' = send_buf_sent + n /\ UNCHANGED send_buf
    <3>1. /\ Len(got') + (Len(send_buf') - send_buf_sent') = made'
          /\ send_buf_sent' \in 0 .. Len(send_buf')
          /\ send_buf_sent' < Len(send_buf')
      BY <1>1, <2>1, <2>2, <2>3, <2>7, <2>10 DEF Remaining, send_buf_size
    <3>2. ASSUME NEW j \in send_buf_sent' + 1 .. Len(send_buf')
          PROVE  send_buf'[j] = Len(got') + (j - send_buf_sent')
      <4>1. j \in send_buf_sent + 1 .. Len(send_buf)
        BY <2>1, <2>2, <2>3, <2>10
      <4>2. send_buf[j] = Len(got) + (j - send_buf_sent)
        BY <2>1, <4>1
      <4>. QED
        BY <2>1, <2>2, <2>3, <2>7, <2>10, <4>1, <4>2
    <3>. QED
      BY <2>7, <2>8, <3>1, <3>2 DEF StreamIntact
  <2>. QED
    BY <1>1, <2>9, <2>10
<1>4. refused # 0 => StreamIntact'
  BY <1>1 DEF StreamIntact
<1>. QED
  BY <1>2, <1>3, <1>4 DEF OutputInv

(* A step that writes neither to send_buf nor from it. *)
LEMMA OutputSame ==
  ASSUME OutputInv, UNCHANGED output,
         requested' \in Seq(Nat), cb_queue' \in Seq(Nat)
  PROVE  OutputInv'
BY DEF OutputInv, OutputType, StreamIntact, output

(* The first response of the queue. *)
LEMMA HeadOfQueue ==
  ASSUME OutputInv, cb_queue # << >>
  PROVE  Head(cb_queue) \in Nat /\ Tail(cb_queue) \in Seq(Nat)
BY DEF OutputInv, OutputType

LEMMA OutputStep == OutputInv /\ [Next]_vars => OutputInv'
<1>. SUFFICES ASSUME OutputInv, [Next]_vars PROVE OutputInv'
  OBVIOUS
<1>. USE DEF outside
<1>0. requested \in Seq(Nat) /\ cb_queue \in Seq(Nat) /\ refused \in Nat
  BY DEF OutputInv, OutputType
<1>1. CASE ClientWrite
  BY <1>0, <1>1, OutputSame DEF ClientWrite
<1>2. CASE Respond
  <2>1. Head(requested) \in Nat /\ Tail(requested) \in Seq(Nat)
    BY <1>0, <1>2 DEF Respond
  <2>2. requested' \in Seq(Nat) /\ cb_queue' \in Seq(Nat) /\ UNCHANGED output
    BY <1>0, <1>2, <2>1 DEF Respond
  <2>. QED
    BY <2>2, OutputSame
<1>3. ASSUME NEW n \in 1 .. TotalReplies, FlushWrite(n) PROVE OutputInv'
  BY <1>3, OutputWrite
<1>4. CASE FlushRefused
  <2>1. refused' = refused + 1 /\ refused' # 0 /\ refused' \in Nat
        /\ UNCHANGED <<requested, cb_queue, send_buf, made>>
    BY <1>0, <1>4 DEF FlushRefused
  <2>. QED
    BY <2>1 DEF OutputInv, OutputType, StreamIntact
<1>5. CASE FlushDone
  BY <1>0, <1>5, OutputSame DEF FlushDone
<1>6. CASE PollResponse
  <2>1. WriteReply(Head(cb_queue)) /\ cb_queue' = Tail(cb_queue) /\ UNCHANGED requested
        /\ cb_queue # << >>
    BY <1>6 DEF PollResponse
  <2>2. Head(cb_queue) \in Nat /\ cb_queue' \in Seq(Nat)
    BY <2>1, HeadOfQueue
  <2>. QED
    BY <1>0, <2>1, <2>2, OutputReply
<1>7. CASE PollNothing
  BY <1>0, <1>7, OutputSame DEF PollNothing
<1>8. ASSUME NEW n \in Slots, EpollIn(n + 1) PROVE OutputInv'
  BY <1>0, <1>8, OutputSame DEF EpollIn
<1>9. CASE EpollInFull
  BY <1>0, <1>9, OutputSame DEF EpollInFull
<1>10. CASE EpollNothing
  BY <1>0, <1>10, OutputSame DEF EpollNothing
<1>11. ASSUME NEW n \in DOMAIN Requests, HandleLocal(n) PROVE OutputInv'
  <2>1. Requests[n].reply \in Nat
    BY RequestFacts
  <2>. QED
    BY <1>0, <1>11, <2>1, OutputReply DEF HandleLocal
<1>12. ASSUME NEW n \in DOMAIN Requests, HandleDispatch(n) PROVE OutputInv'
  <2>1. Requests[n].reply \in Nat
    BY RequestFacts
  <2>2. requested' \in Seq(Nat)
    BY <1>0, <1>12, <2>1, AppendProperties DEF HandleDispatch
  <2>. QED
    BY <1>0, <1>12, <2>2, OutputSame DEF HandleDispatch
<1>13. CASE HandleDone
  BY <1>0, <1>13, OutputSame DEF HandleDone
<1>14. CASE UNCHANGED vars
  BY <1>0, <1>14, OutputSame DEF vars
<1>. QED
  BY <1>1, <1>2, <1>3, <1>4, <1>5, <1>6, <1>7, <1>8, <1>9, <1>10, <1>11, <1>12, <1>13, <1>14
     DEF Next, Thread

LEMMA OutputAlways == Spec => []OutputInv
BY OutputInit, OutputStep, PTL DEF Spec

(* As long as no write fails, what the socket has, and behind it the rest  *)
(* of send_buf, is the stream of the replies: reactor_epoll_flush repeats  *)
(* and skips no byte, whatever parts write takes and whatever is appended  *)
(* in between.                                                             *)
THEOREM RepliesInOrder == Spec => []RepliesIntact
<1>1. OutputInv => RepliesIntact
  <2>. SUFFICES ASSUME OutputInv, refused = 0
                PROVE  got \o SubSeq(send_buf, send_buf_sent + 1, Len(send_buf))
                         = [i \in 1 .. made |-> i]
    BY DEF RepliesIntact, send_buf_size
  <2>. DEFINE rest == SubSeq(send_buf, send_buf_sent + 1, Len(send_buf))
              stream == [i \in 1 .. made |-> i]
              all == got \o rest
  <2>1. /\ send_buf_sent \in 0 .. Len(send_buf)
        /\ got \in Seq(Nat) /\ Len(got) \in Nat
        /\ Len(got) + (Len(send_buf) - send_buf_sent) = made
        /\ \A i \in 1 .. Len(got) : got[i] = i
        /\ \A j \in send_buf_sent + 1 .. Len(send_buf) :
             send_buf[j] = Len(got) + (j - send_buf_sent)
        /\ send_buf \in Seq(Nat) /\ Len(send_buf) \in Nat /\ made \in Nat
    BY DEF OutputInv, OutputType, StreamIntact
  <2>2. Len(send_buf) - send_buf_sent \in Nat
        /\ send_buf_sent + (Len(send_buf) - send_buf_sent) = Len(send_buf)
    BY <2>1
  <2>3. rest \in Seq(Nat) /\ Len(rest) = Len(send_buf) - send_buf_sent
        /\ \A i \in 1 .. Len(send_buf) - send_buf_sent : rest[i] = send_buf[send_buf_sent + i]
    <3>. DEFINE k == Len(send_buf) - send_buf_sent
                slice == SubSeq(send_buf, send_buf_sent + 1, send_buf_sent + k)
    <3>1. k \in Nat /\ send_buf_sent \in Nat /\ send_buf_sent + k <= Len(send_buf)
      BY <2>1, <2>2
    <3>2. slice \in Seq(Nat) /\ Len(slice) = k
          /\ \A i \in 1 .. k : slice[i] = send_buf[send_buf_sent + i]
      <4>. HIDE DEF k
      <4>. QED
        BY <2>1, <3>1, SliceFacts
    <3>3. slice = rest
      BY <2>2
    <3>. HIDE DEF slice, rest
    <3>. QED
      BY <3>2, <3>3
  <2>4. \A i \in 1 .. Len(rest) : rest[i] = send_buf[send_buf_sent + i]
    BY <2>3
  <2>5. \A i \in 1 .. Len(rest) : rest[i] = Len(got) + i
    BY <2>1, <2>3, <2>4
  <2>6. stream \in Seq(Nat) /\ Len(stream) = made /\ \A i \in 1 .. made : stream[i] = i
    BY <2>1
  <2>. HIDE DEF rest, stream
  <2>7. /\ all \in Seq(Nat) /\ Len(all) = Len(got) + Len(rest)
        /\ \A i \in 1 .. Len(got) + Len(rest) :
             all[i] = IF i <= Len(got) THEN got[i] ELSE rest[i - Len(got)]
    BY <2>1, <2>3, ConcatProperties
  <2>. HIDE DEF all
  <2>8. Len(all) = Len(stream)
    BY <2>1, <2>3, <2>6, <2>7
  <2>9. ASSUME NEW i \in 1 .. Len(all) PROVE all[i] = stream[i]
    <3>1. stream[i] = i
      BY <2>6, <2>8
    <3>2. CASE i <= Len(got)
      BY <2>1, <2>7, <3>1, <3>2
    <3>3. CASE ~(i <= Len(got))
      <4>1. i - Len(got) \in 1 .. Len(rest)
        BY <2>1, <2>3, <2>7, <3>3
      <4>2. rest[i - Len(got)] = Len(got) + (i - Len(got))
        BY <2>5, <4>1
      <4>3. all[i] = rest[i - Len(got)]
        BY <2>7, <3>3
      <4>. QED
        BY <2>1, <3>1, <4>2, <4>3
    <3>. QED
      BY <3>2, <3>3
  <2>10. all = stream
    BY <2>6, <2>7, <2>8, <2>9, SeqEqual
  <2>. QED
    BY <2>10 DEF all, stream, rest
<1>. QED
  BY <1>1, OutputAlways, PTL
=============================================================================
