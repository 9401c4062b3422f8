------------------------------ MODULE MCConnIo ------------------------------
(* Instances of ConnIo for TLC. *)
EXTENDS ConnIo

Request(first, len, reply, remote) ==
  [first |-> first, len |-> len, reply |-> reply, remote |-> remote]

(* Requests up to the length of the buffer, and behind the dispatched ones  *)
(* more bytes than the buffer holds, or just as many.                      *)
Mixed ==
  <<Request(1, 2, 2, FALSE), Request(3, 4, 1, FALSE), Request(7, 3, 2, FALSE),
    Request(10, 1, 3, TRUE), Request(11, 1, 1, FALSE), Request(12, 2, 2, TRUE),
    Request(14, 3, 1, FALSE), Request(17, 1, 1, FALSE)>>
=============================================================================
