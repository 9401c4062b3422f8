------------------------------ MODULE Commands ------------------------------
(***************************************************************************)
(* What the commands of commands.c do to one entry of a database and what  *)
(* they answer.  INCR, DECR, INCRBY and DECRBY are "incr" by some delta;   *)
(* "ping" is every command that is answered at once and touches no entry:  *)
(* PING, ECHO, and the errors of handle_command and of a bad delta.        *)
(***************************************************************************)
EXTENDS Integers

CONSTANTS Text,      \* a value that is not an integer
          NoValue,   \* no entry, and the null bulk string
          Ok, Pong, Err

ReplyValues == Int \cup {Text, NoValue, Ok, Pong, Err}

(* the commands of DEFINE_COMMAND *)
KeyedOps == {"get", "set", "del", "incr", "dping"}

Ops == KeyedOps \cup {"ping", "select", "quit", "flushall"}

(* try_modify_counter: the value of a missing entry is 0 *)
Counter(old) == IF old = NoValue THEN 0 ELSE old

(* the entry after a command *)
NewEntry(cmd, old) ==
  CASE cmd.op = "set" -> cmd.arg
    [] cmd.op = "del" -> NoValue
    [] cmd.op = "incr" /\ old # Text -> Counter(old) + cmd.arg
    [] OTHER -> old

(* The answer.  The caller of try_modify_counter ignores its failure on a  *)
(* value that is not an integer and answers the initial value of res.      *)
Answer(cmd, old, shard) ==
  CASE cmd.op = "get" -> old
    [] cmd.op = "set" -> Ok
    [] cmd.op = "del" -> IF old = NoValue THEN 0 ELSE 1
    [] cmd.op = "incr" -> IF old = Text THEN 0 ELSE Counter(old) + cmd.arg
    [] cmd.op = "dping" -> shard
=============================================================================
