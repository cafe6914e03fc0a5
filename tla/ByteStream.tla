----------------------------- MODULE ByteStream -----------------------------
(***************************************************************************)
(* What a queue of qio.c promises its users: bytes come out in the order   *)
(* in which they went in, each one once, and none is lost except the rest  *)
(* of a message that a reader's buffer is too small for, and what is in a  *)
(* queue that is emptied.                                                  *)
(***************************************************************************)
EXTENDS Integers, Sequences

VARIABLES
  stream,  \* the bytes that were put in and not taken out
  held,    \* how many of them, the first ones, a reader will put back
  out,     \* what was taken out last, if nothing was put in since
  msg      \* the queue keeps the boundaries of messages

Init == stream = <<>> /\ held = 0 /\ out = <<>> /\ msg \in BOOLEAN

Put ==
  /\ Len(stream') >= Len(stream)
  /\ SubSeq(stream', 1, Len(stream)) = stream
  /\ out' = <<>> /\ held' = held

\* The first n bytes are taken out and the ones after them, up to m, dropped.
\* Nobody takes anything before what a reader will put back is there.
Take(n, m) ==
  /\ held = 0 /\ held' \in 0..Len(stream')
  /\ msg \/ n = m
  /\ out' = SubSeq(stream, 1, n)
  /\ stream' = SubSeq(stream, m + 1, Len(stream))

\* The reader puts back what it holds.
PutBack == held' = 0 /\ UNCHANGED <<stream, out>>

\* The queue is emptied.
Clear ==
  /\ stream' = SubSeq(stream, 1, held) /\ held' = held
  /\ out' = SubSeq(stream, held + 1, Len(stream))

Next ==
  /\ Put \/ PutBack \/ Clear \/ \E m \in 0..Len(stream) : \E n \in 0..m : Take(n, m)
  /\ UNCHANGED msg

Spec == Init /\ [][Next]_<<stream, held, out, msg>>

=============================================================================
