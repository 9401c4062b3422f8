----------------------------- MODULE MCRequests -----------------------------
(* Instances of Requests for TLC: what clients send, byte by byte. *)
EXTENDS Requests
LOCAL INSTANCE SequencesExt

Crlf == <<CR, LF>>

InlineRequest(args) ==
  [bytes |-> FoldLeft(LAMBDA line, arg : line \o <<Space>> \o arg, << >>, args) \o Crlf,
   args |-> args]

RespRequest(args) ==
  [bytes |-> FoldLeft(LAMBDA all, arg :
                        all \o <<Dollar>> \o Decimal[Len(arg)] \o Crlf \o arg \o Crlf,
                      <<Star>> \o Decimal[Len(args)] \o Crlf, args),
   args |-> args]

Garbage(bytes) == [bytes |-> bytes, args |-> Malformed]

(* the bytes a, k and so on; commands *)
A == <<97>>
K == <<107>>
Set(value) == <<<<SetName>>, K, value>>
Incrby(value) == <<<<IncrName>>, K, value>>
Decrby(value) == <<<<DecrName>>, K, value>>
Get == <<<<GetName>>, K>>

(* 0, -5, -128, 127, +7, 007, -, a, 1a, 300 *)
Numerals == {<<48>>, <<45, 53>>, <<45, 49, 50, 56>>, <<49, 50, 55>>, <<43, 55>>,
             <<48, 48, 55>>, <<45>>, <<97>>, <<49, 97>>, <<51, 48, 48>>}

(* A value, counted up or down, by increments good and bad. *)
Counting ==
  {<<InlineRequest(Set(v)), InlineRequest(cmd), InlineRequest(Get)>> :
     v \in Numerals, cmd \in {Incrby(d) : d \in Numerals} \cup {Decrby(d) : d \in Numerals}}

(* Pipelines of arrays and lines: empty arguments and requests, CR and LF  *)
(* in an argument, spaces and CR between arguments, unknown commands.      *)
Pipelines ==
  {<<RespRequest(Set(<<49, 50>>)), RespRequest(Get)>>,
   <<RespRequest(Set(<< >>)), RespRequest(Incrby(<<49>>))>>,
   <<RespRequest(Incrby(<< >>)), InlineRequest(Incrby(<<49>>))>>,
   <<RespRequest(Set([i \in 1 .. 12 |-> 97])), RespRequest(Get)>>,
   <<RespRequest(Set(Crlf)), InlineRequest(Get), RespRequest(Get)>>,
   <<InlineRequest(<< >>), RespRequest(<<A>>), InlineRequest(<<A, A>>), InlineRequest(Get)>>,
   <<[bytes |-> A \o <<CR, Space, Space>> \o K \o Crlf, args |-> <<A, K>>], RespRequest(Get)>>,
   <<RespRequest(<< >>), RespRequest(Get)>>,
   <<InlineRequest(Get), RespRequest(<< >>)>>}

(* Behind a good request: too many arguments, a length beyond SizeMax, a   *)
(* line that ends with LF, an argument without its $, a letter for a digit.*)
Refused ==
  {<<good, Garbage(bytes)>> :
     good \in {InlineRequest(Get), RespRequest(Get)},
     bytes \in {A \o <<Space>> \o A \o <<Space>> \o A \o <<Space>> \o A \o Crlf,
               <<Star, 52>> \o Crlf,
               <<Star, 49>> \o Crlf \o <<Dollar, 49, 48, 48, 48>> \o Crlf,
               A \o <<LF>>,
               <<Star, 49>> \o Crlf \o A \o A,
               <<Star>> \o A \o Crlf}}

Sendable == Counting \cup Pipelines \cup Refused
=============================================================================
