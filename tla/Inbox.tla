------------------------------- MODULE Inbox --------------------------------
(***************************************************************************)
(* What a receiver promises its owner: the messages of the peer are handed *)
(* over one at a time, in order and unchanged, until an error, which is    *)
(* reported once and is the end.  It is the counterpart of Outbox.         *)
(***************************************************************************)
EXTENDS Sequences, Naturals

VARIABLES sent,               \* what the peer sent, as the receiver sees it
          received,           \* what was handed to the receive handler
          told                \* the receive handler was told an error

vars == <<sent, received, told>>

Init == sent = <<>> /\ received = <<>> /\ told = FALSE

(* The peer sends one more message. *)
Arrive == /\ Len(sent') = Len(sent) + 1
          /\ SubSeq(sent', 1, Len(sent)) = sent
          /\ UNCHANGED <<received, told>>

(* The oldest message that was not handed over is. *)
HandOver == /\ ~told
            /\ Len(received) < Len(sent)
            /\ received' = Append(received, sent[Len(received) + 1])
            /\ UNCHANGED <<sent, told>>

Fail == /\ ~told
        /\ told' = TRUE
        /\ UNCHANGED <<sent, received>>

Next == Arrive \/ HandOver \/ Fail

Spec == Init /\ [][Next]_vars

=============================================================================
