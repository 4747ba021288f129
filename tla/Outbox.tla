------------------------------- MODULE Outbox -------------------------------
(***************************************************************************)
(* What a sender promises its user, without its buffer, its strand or its  *)
(* write operations: messages are accepted one after the other and the     *)
(* send handler hears of each accepted message once, in the order of       *)
(* acceptance.  An exception, of the send handler or of the encoding of a  *)
(* message, ends the reporting, for good.                                  *)
(***************************************************************************)
EXTENDS Naturals, Sequences

CONSTANT Message              \* the messages that can be accepted

VARIABLES accepted,           \* every message accepted so far, in order
          reported,           \* every message the handler has heard of
          jammed              \* an exception ended the reporting

vars == <<accepted, reported, jammed>>

Init == /\ accepted = <<>>
        /\ reported = <<>>
        /\ jammed = FALSE

Accept == /\ \E m \in Message : accepted' = Append(accepted, m)
          /\ UNCHANGED <<reported, jammed>>

(* The handler hears of the oldest message not reported yet; it may throw, *)
(* and so may the encoding of the next message.                            *)
Report == /\ ~jammed
          /\ Len(reported) < Len(accepted)
          /\ reported' = Append(reported, accepted[Len(reported) + 1])
          /\ jammed' \in BOOLEAN
          /\ UNCHANGED accepted

(* The encoding of a message that is the first one not reported throws. *)
Jam == /\ ~jammed
       /\ Len(reported) < Len(accepted)
       /\ jammed' = TRUE
       /\ UNCHANGED <<accepted, reported>>

Next == Accept \/ Report \/ Jam

Spec == Init /\ [][Next]_vars /\ WF_vars(Report)

=============================================================================
