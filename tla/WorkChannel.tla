----------------------------- MODULE WorkChannel -----------------------------
(***************************************************************************)
(* What a user of src/wqueue.h expects of a work queue, without threads,   *)
(* locks or signals: items go in, and come out to the callback one at a    *)
(* time, each at most once, in the order they went in.                     *)
(***************************************************************************)
EXTENDS Naturals, Sequences

CONSTANT Work

VARIABLES sent,      \* items given to wpush, in order
          received   \* items handed to the callback, in order

Init == sent = <<>> /\ received = <<>>

Send(w) == sent' = Append(sent, w) /\ UNCHANGED received

Receive ==
    /\ Len(received) < Len(sent)
    /\ received' = Append(received, sent[Len(received) + 1])
    /\ UNCHANGED sent

Next == (\E w \in Work : Send(w)) \/ Receive

Spec == Init /\ [][Next]_<<sent, received>>
=============================================================================
