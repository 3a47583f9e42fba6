----------------------------- MODULE PipeStream -----------------------------
(***************************************************************************)
(* What a pipe promises: a queue of bytes.  A write call's bytes enter it  *)
(* in order, possibly in several parts, possibly not all of them; a read   *)
(* call takes bytes from its front, into the reader's buffer.              *)
(***************************************************************************)
EXTENDS Integers, Sequences

CONSTANTS Readers, Writers, Bytes, PIPESIZE, MaxN

VARIABLES q, rest, got

Init ==
  /\ q = <<>>
  /\ rest = [w \in Writers |-> <<>>]
  /\ got = [r \in Readers |-> <<>>]

Offer(w) ==
  /\ rest[w] = <<>>
  /\ \E k \in 1 .. MaxN : \E s \in [1 .. k -> Bytes] : rest' = [rest EXCEPT ![w] = s]
  /\ UNCHANGED <<q, got>>

\* The first k bytes of the call enter; the others stay, or are given up.
Send(w, k) ==
  /\ k <= Len(rest[w]) /\ Len(q) + k <= PIPESIZE
  /\ q' = q \o SubSeq(rest[w], 1, k)
  /\ \/ rest' = [rest EXCEPT ![w] = SubSeq(rest[w], k + 1, Len(rest[w]))]
     \/ rest' = [rest EXCEPT ![w] = <<>>] /\ Len(q) + k = PIPESIZE
  /\ UNCHANGED got

Receive(r, k) ==
  /\ k <= Len(q)
  /\ got' = [got EXCEPT ![r] = SubSeq(q, 1, k)]
  /\ q' = SubSeq(q, k + 1, Len(q))
  /\ UNCHANGED rest

Next ==
  \/ \E w \in Writers : Offer(w) \/ \E k \in 0 .. PIPESIZE : Send(w, k)
  \/ \E r \in Readers, k \in 0 .. PIPESIZE : Receive(r, k)

Spec == Init /\ [][Next]_<<q, rest, got>>
=============================================================================
