---------------------------- MODULE FrameChannel ----------------------------
(***************************************************************************)
(* What encoding, queueing, writing in parts and decoding promise together:*)
(* the frames one end queues are the frames the other end decodes, whole,  *)
(* in order, none lost, repeated or changed.                               *)
(***************************************************************************)
EXTENDS Naturals, Sequences

CONSTANT Batches    \* the sequences of frames that are queued at a time

VARIABLES
    sent,       \* frames queued
    received    \* frames decoded

Init == sent = <<>> /\ received = <<>>

Send(batch) == sent' = sent \o batch /\ UNCHANGED received

Deliver ==
    /\ Len(received) < Len(sent)
    /\ received' = Append(received, sent[Len(received) + 1])
    /\ UNCHANGED sent

Next == (\E batch \in Batches : Send(batch)) \/ Deliver

Spec == Init /\ [][Next]_<<sent, received>>
=============================================================================
