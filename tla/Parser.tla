------------------------------- MODULE Parser -------------------------------
(***************************************************************************)
(* The request parser of protocol.c, a function of what is in the receive  *)
(* buffer: the bytes that have come, and the byte of memory behind them,   *)
(* which parse_number looks at (p <= end).  A byte is its ASCII code; a    *)
(* position is the index of a byte, from 1.                                *)
(*                                                                         *)
(* A length so close to 2^64 that cur + arglen leaves the address space is *)
(* outside this module.                                                    *)
(***************************************************************************)
EXTENDS Integers, Sequences
LOCAL INSTANCE SequencesExt

CONSTANTS MaxArgc,   \* MAX_ARGC, 64
          SizeMax    \* SIZE_MAX

ASSUME ArgcAssumption == MaxArgc \in Nat
ASSUME SizeMaxAssumption == SizeMax \in Nat

CR == 13
LF == 10
Space == 32
Star == 42
Dollar == 36
IsDigit(b) == b \in 48 .. 57

Verdicts == {"ok", "error", "invalid_argc", "incomplete"}

(* the number the digits stand for *)
ValueOf(digits) == FoldLeft(LAMBDA n, b : 10 * n + b - 48, 0, digits)

(* The position behind the digits at cur.  The loop stops one byte behind  *)
(* the byte behind the received ones.                                      *)
DigitsEnd(bytes, stale, cur) ==
  LET memory == Append(bytes, stale)
  IN CHOOSE p \in cur .. Len(memory) + 1 :
       /\ p > Len(memory) \/ ~IsDigit(memory[p])
       /\ \A q \in cur .. p - 1 : IsDigit(memory[q])

(* parse_number *)
ParseNumber(bytes, stale, cur) ==
  LET memory == Append(bytes, stale)
      p == DigitsEnd(bytes, stale, cur)
      value == ValueOf(SubSeq(memory, cur, p - 1))
      verdict ==
        CASE value > SizeMax -> "error"
          [] value <= SizeMax /\ p > Len(memory) -> "incomplete"
          [] value <= SizeMax /\ p <= Len(memory) /\ memory[p] # CR -> "error"
          [] OTHER -> IF p + 2 > Len(bytes) + 1 THEN "incomplete" ELSE "ok"
  IN [verdict |-> verdict, value |-> value, cur |-> p + 2]

(* a mistake the runs must notice: an argument is looked for behind the received bytes *)
ParseArgBehind(bytes, stale, state) ==
  LET number == ParseNumber(bytes, stale, state.cur + 1)
      next == number.cur + number.value + 2
  IN CASE state.verdict # "ok" -> state
       [] state.verdict = "ok" /\ Append(bytes, stale)[state.cur] # Dollar ->
            [state EXCEPT !.verdict = "error"]
       [] OTHER ->
            IF number.verdict # "ok" THEN [state EXCEPT !.verdict = number.verdict]
            ELSE IF next > Len(bytes) + 1 THEN [state EXCEPT !.verdict = "incomplete"]
            ELSE [state EXCEPT
                    !.args = Append(@, SubSeq(bytes, number.cur, next - 3)),
                    !.cur = next]

(* One round of the loop over the arguments: $<length>CRLF<bytes>CRLF.     *)
(* The two bytes at the end are skipped, whatever they are.                *)
ParseArg(bytes, stale, state) ==
  LET number == ParseNumber(bytes, stale, state.cur + 1)
      next == number.cur + number.value + 2
  IN CASE state.verdict # "ok" -> state
       [] state.verdict = "ok" /\ state.cur = Len(bytes) + 1 ->
            [state EXCEPT !.verdict = "incomplete"]
       [] state.verdict = "ok" /\ state.cur <= Len(bytes) /\ bytes[state.cur] # Dollar ->
            [state EXCEPT !.verdict = "error"]
       [] OTHER ->
            IF number.verdict # "ok" THEN [state EXCEPT !.verdict = number.verdict]
            ELSE IF next > Len(bytes) + 1 THEN [state EXCEPT !.verdict = "incomplete"]
            ELSE [state EXCEPT
                    !.args = Append(@, SubSeq(bytes, number.cur, next - 3)),
                    !.cur = next]

(* parse_resp_request: *<argc>CRLF and the arguments.  It wants two bytes  *)
(* behind the number of arguments even if there are none.                  *)
ParseResp(bytes, stale) ==
  LET number == ParseNumber(bytes, stale, 2)
      start == [verdict |-> "ok", args |-> << >>, cur |-> number.cur]
      refuse(verdict) == [start EXCEPT !.verdict = verdict]
  IN IF number.verdict # "ok" THEN refuse(number.verdict)
     ELSE IF number.value > MaxArgc THEN refuse("invalid_argc")
     ELSE IF number.cur + 2 > Len(bytes) + 1 THEN refuse("incomplete")
     ELSE FoldLeft(LAMBDA state, i : ParseArg(bytes, stale, state),
                   start, [i \in 1 .. number.value |-> i])

(* What parse_inline_request does with one byte: spaces and CR end an      *)
(* argument, LF ends the request if there was a CR.                        *)
InlineByte(state, b) ==
  LET ended == [state EXCEPT !.args = IF state.in_arg THEN Append(@, state.arg) ELSE @,
                             !.in_arg = FALSE, !.cur = @ + 1]
  IN CASE state.verdict # "incomplete" -> state
       [] state.verdict = "incomplete" /\ b = Space -> ended
       [] state.verdict = "incomplete" /\ b = CR -> [ended EXCEPT !.crlf = TRUE]
       [] state.verdict = "incomplete" /\ b = LF ->
            IF state.crlf THEN [ended EXCEPT !.verdict = "ok"]
            ELSE [state EXCEPT !.verdict = "error"]
       [] OTHER ->
            IF ~state.in_arg /\ Len(state.args) = MaxArgc
            THEN [state EXCEPT !.verdict = "invalid_argc"]
            ELSE [state EXCEPT !.arg = IF state.in_arg THEN Append(@, b) ELSE <<b>>,
                               !.in_arg = TRUE, !.cur = @ + 1]

(* parse_inline_request *)
ParseInline(bytes) ==
  FoldLeft(InlineByte,
           [verdict |-> "incomplete", args |-> << >>, cur |-> 1,
            arg |-> << >>, in_arg |-> FALSE, crlf |-> FALSE],
           bytes)

(* The choice in on_data_available: verdict, arguments, and args->len, the *)
(* bytes of the request.                                                   *)
Parse(bytes, stale) ==
  LET end == IF bytes[1] = Star THEN ParseResp(bytes, stale) ELSE ParseInline(bytes)
  IN [verdict |-> end.verdict, args |-> end.args, len |-> end.cur - 1]
=============================================================================
