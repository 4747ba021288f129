------------------------------ MODULE Receiver ------------------------------
(***************************************************************************)
(* treceiver with its tconnection: bytes arrive in pieces, are gathered in *)
(* input_buffer_ until a frame is complete, decoded and handed to the      *)
(* receive handler; then the next message is asked for.  The peer is a     *)
(* tsender, which writes encoded messages, and may go away at any time.    *)
(***************************************************************************)
EXTENDS Codec

CONSTANTS Given,              \* the protocols the connection may start with
          Messages,           \* the messages the peer may send
          MaxSends,           \* bound: the number of messages it sends
          MaxSwitches,        \* bound: the number of calls of set_protocol
          HandlerMayThrow     \* the receive handler may throw

ASSUME ReceiverAssumption ==
  /\ Given \subseteq Protocols
  /\ Messages \subseteq AnyMessage
  /\ MaxSends \in Nat
  /\ MaxSwitches \in Nat
  /\ HandlerMayThrow \in BOOLEAN

VARIABLES
  protocol_,                  \* tconnection::protocol_
  peer,                       \* the protocol the peer encodes with
  switches,                   \* calls of set_protocol, ours and the peer's
  input_buffer_,
  posted,                     \* calls of receive_message on the strand
  reading,                    \* the outstanding read
  sent,                       \* history: the messages of the peer
  wire,                       \* the bytes written and not read yet
  closed,                     \* the peer is gone
  taken,                      \* history: the bytes consumed
  received,                   \* the messages handed to the receive handler
  told,                       \* the receive handler was told an error
  fault                       \* what was thrown, or "none"

settings == <<protocol_, peer, switches>>
peerVars == <<sent, wire, closed>>
vars == <<settings, input_buffer_, posted, reading, peerVars,
          taken, received, told, fault>>

(* No read, one for a terminator, or one of a number of bytes. *)
NoRead == [kind |-> "none", until |-> <<>>, want |-> 0, got |-> 0]
Until(terminator) == [NoRead EXCEPT !.kind = "until", !.until = terminator]
Exactly(kind, bytes) == [NoRead EXCEPT !.kind = kind, !.want = bytes]

Exact == reading.kind \in {"length", "contents"}

Init ==
  /\ protocol_ \in Given
  /\ peer = protocol_
  /\ switches = 0
  /\ input_buffer_ = <<>>
  /\ posted = 1
  /\ reading = NoRead
  /\ sent = <<>> /\ wire = <<>> /\ closed = FALSE
  /\ taken = <<>> /\ received = <<>>
  /\ told = FALSE /\ fault = "none"

-----------------------------------------------------------------------------
(* The peer and the network.                                               *)

PeerSends(m) ==
  /\ ~closed
  /\ Len(sent) < MaxSends
  /\ ~EncodeThrows(peer)
  /\ sent' = Append(sent, m)
  /\ wire' = wire \o Encode(peer, m)
  /\ UNCHANGED <<settings, input_buffer_, posted, reading, closed,
                 taken, received, told, fault>>

(* What is still on its way may be lost with the connection. *)
PeerCloses ==
  /\ ~closed
  /\ closed' = TRUE
  /\ \E n \in 0 .. Len(wire) : wire' = SubSeq(wire, 1, n)
  /\ UNCHANGED <<settings, input_buffer_, posted, reading, sent,
                 taken, received, told, fault>>

SetProtocol ==
  /\ switches < MaxSwitches
  /\ switches' = switches + 1
  /\ protocol_' \in Protocols \ {protocol_}
  /\ UNCHANGED <<peer, input_buffer_, posted, reading, peerVars,
                 taken, received, told, fault>>

PeerSetProtocol ==
  /\ switches < MaxSwitches
  /\ switches' = switches + 1
  /\ peer' \in Protocols \ {peer}
  /\ UNCHANGED <<protocol_, input_buffer_, posted, reading, peerVars,
                 taken, received, told, fault>>

-----------------------------------------------------------------------------
(* receive_message: a read by protocol, or an exception.                   *)

Starts(read) == reading' = read /\ UNCHANGED fault

ReceiveMessage ==
  /\ posted > 0
  /\ reading = NoRead
  /\ posted' = posted - 1
  /\ \/ protocol_ \in {"line", "telnet"} /\ Starts(Until(Terminator(protocol_)))
     \/ protocol_ = "basic" /\ Starts(Exactly("length", WordBytes))
     \/ /\ protocol_ \in {"direct", "compressed"}
        /\ fault' = "not_implemented_yet"
        /\ UNCHANGED reading
  /\ UNCHANGED <<settings, input_buffer_, peerVars, taken, received, told>>

(* The bytes the outstanding read can still use. *)
Found == Ends(input_buffer_, reading.until)

Room == CASE reading.kind = "until" -> IF Found = {} THEN Len(wire) ELSE 0
          [] Exact -> reading.want - reading.got
          [] OTHER -> 0

(* Some bytes arrive.  A read for a terminator takes all it can get, also  *)
(* bytes behind the terminator; one of a number of bytes takes no more.    *)
BytesArrive ==
  \E n \in 1 .. Min({Room, Len(wire)}) :
    /\ input_buffer_' = input_buffer_ \o SubSeq(wire, 1, n)
    /\ wire' = SubSeq(wire, n + 1, Len(wire))
    /\ reading' = [reading EXCEPT !.got = @ + n]
    /\ UNCHANGED <<settings, posted, sent, closed,
                   taken, received, told, fault>>

(* The bytes the completed read hands to its handler. *)
Complete == \/ reading.kind = "until" /\ Found # {}
            \/ Exact /\ reading.got = reading.want

Transferred == IF reading.kind = "until" THEN Min(Found) ELSE reading.want

(* Mutant: one byte more than is handled leaves the buffer. *)
ConsumeMore(n) ==
  /\ taken' = taken \o SubSeq(input_buffer_, 1, n)
  /\ input_buffer_' = SubSeq(input_buffer_, n + 2, Len(input_buffer_))

Consume(n) ==
  /\ taken' = taken \o SubSeq(input_buffer_, 1, n)
  /\ input_buffer_' = SubSeq(input_buffer_, n + 1, Len(input_buffer_))

(* asio_receive_handler_read_length *)
ReceiveLength ==
  /\ Complete
  /\ reading.kind = "length"
  /\ reading' = Exactly("contents", NetworkToHost(SubSeq(input_buffer_, 1, WordBytes)))
  /\ Consume(WordBytes)
  /\ UNCHANGED <<settings, posted, peerVars, received, told, fault>>

(* asio_receive_handler.  The message is decoded by the protocol of now;   *)
(* when that throws the frame stays in the buffer, and when the handler    *)
(* throws it is gone: neither way is receive() called again.               *)
DecodeFails ==
  /\ Complete
  /\ reading.kind # "length"
  /\ LET thrown == DecodeError(protocol_, SubSeq(input_buffer_, 1, Transferred))
     IN thrown # "none" /\ fault' = thrown
  /\ reading' = NoRead
  /\ UNCHANGED <<settings, input_buffer_, posted, peerVars,
                 taken, received, told>>

(* Mutant: the next message is asked for before the handler is called, and *)
(* again after it. *)
ReceiveTwice ==
  /\ Complete
  /\ reading.kind # "length"
  /\ LET frame == SubSeq(input_buffer_, 1, Transferred)
     IN /\ DecodeError(protocol_, frame) = "none"
        /\ received' = Append(received, Decode(protocol_, frame))
  /\ Consume(Transferred)
  /\ reading' = NoRead
  /\ posted' = posted + 2
  /\ UNCHANGED <<settings, peerVars, told, fault>>

(* Mutant: only one message is received. *)
ReceiveOnce ==
  /\ Complete
  /\ reading.kind # "length"
  /\ LET frame == SubSeq(input_buffer_, 1, Transferred)
     IN /\ DecodeError(protocol_, frame) = "none"
        /\ received' = Append(received, Decode(protocol_, frame))
  /\ Consume(Transferred)
  /\ reading' = NoRead
  /\ UNCHANGED <<settings, posted, peerVars, told, fault>>

ReceiveSucceeds ==
  /\ Complete
  /\ reading.kind # "length"
  /\ LET frame == SubSeq(input_buffer_, 1, Transferred)
     IN /\ DecodeError(protocol_, frame) = "none"
        /\ received' = Append(received, Decode(protocol_, frame))
  /\ Consume(Transferred)
  /\ reading' = NoRead
  /\ \/ posted' = posted + 1 /\ UNCHANGED fault
     \/ HandlerMayThrow /\ fault' = "handler" /\ UNCHANGED posted
  /\ UNCHANGED <<settings, peerVars, told>>

(* Mutant: the handler is not told. *)
ReceiveFailsSilently ==
  /\ closed /\ wire = <<>>
  /\ reading.kind # "none" /\ ~Complete
  /\ Consume(IF Exact THEN reading.got ELSE 0)
  /\ reading' = NoRead
  /\ UNCHANGED <<settings, posted, peerVars, received, told, fault>>

(* Either handler with an error: end of file, or the connection was reset. *)
(* A failed read for a terminator has transferred nothing, and a handler   *)
(* that throws leaves what the other has transferred in the buffer.        *)
ReceiveFails ==
  /\ closed /\ wire = <<>>
  /\ reading.kind # "none" /\ ~Complete
  /\ told' = TRUE
  /\ \/ Consume(IF Exact THEN reading.got ELSE 0) /\ UNCHANGED fault
     \/ HandlerMayThrow /\ fault' = "handler" /\ Consume(0)
  /\ reading' = NoRead
  /\ UNCHANGED <<settings, posted, peerVars, received>>

-----------------------------------------------------------------------------

PeerSteps == (\E m \in Messages : PeerSends(m)) \/ PeerCloses
Settings == SetProtocol \/ PeerSetProtocol
Handlers == ReceiveMessage \/ ReceiveLength \/ DecodeFails
            \/ ReceiveSucceeds \/ ReceiveFails
Next == PeerSteps \/ Settings \/ BytesArrive \/ Handlers

Spec == Init /\ [][Next]_vars

(* The network delivers and the io_service runs handlers.  *)
Fairness == WF_vars(BytesArrive) /\ WF_vars(Handlers)

FairSpec == Spec /\ Fairness

-----------------------------------------------------------------------------
(* Properties.                                                             *)

(* The variables have the types of receiver.hpp and connection.hpp. *)
TypeOK ==
  /\ {protocol_, peer} \subseteq Protocols
  /\ switches \in 0 .. MaxSwitches
  /\ input_buffer_ \in Seq(Byte) /\ wire \in Seq(Byte) /\ taken \in Seq(Byte)
  /\ posted \in Nat
  /\ reading.kind \in {"none", "until", "length", "contents"}
  /\ reading.want \in Nat /\ reading.got \in Nat
  /\ Len(sent) <= MaxSends
  /\ {closed, told} \subseteq BOOLEAN
  /\ fault \in {"none", "handler", "protocol_error", "invalid_value",
                "not_implemented_yet"}

(* The chain of reads neither breaks nor forks: until an error that the    *)
(* handler is told or an exception, one read is asked for or outstanding   *)
(* (receiver.hpp: receiving continues), and after it none. Two reads would *)
(* tear the frames of one buffer apart.                                    *)
ReadChain ==
  /\ TypeOK
  /\ posted + (IF reading.kind = "none" THEN 0 ELSE 1)
       = IF told \/ fault # "none" THEN 0 ELSE 1

Bytes(messages) == FlattenSeq([k \in DOMAIN messages |->
                                 Encode(protocol_, messages[k])])

(* A byte of the peer is consumed once and in order, or still in the       *)
(* buffer or on the wire, however reads and frames split the stream; only  *)
(* bytes of a lost connection can be missing, and only at the end. And the *)
(* messages handed over encode to the bytes that were consumed, apart from *)
(* a length whose message is outstanding and what an error discards:       *)
(* nothing is invented, dropped or handed over twice, also when contents   *)
(* hold a terminator and arrive as several messages.                       *)
BytesConserved ==
  switches = 0 =>
    /\ IsPrefix(taken \o input_buffer_ \o wire, Bytes(sent))
    /\ closed \/ taken \o input_buffer_ \o wire = Bytes(sent)
    /\ protocol_ # "direct" /\ ~told /\ fault = "none" =>
         LET pending == IF reading.kind = "contents" THEN WordBytes ELSE 0
         IN Bytes(received) = SubSeq(taken, 1, Len(taken) - pending)

(* What the peer sent up to the first message the protocol cannot carry,   *)
(* as the receiver can see it, and how much of that was handed over.       *)
Carried ==
  LET carried == {n \in 0 .. Len(sent) :
                    \A k \in 1 .. n : Carries(protocol_, sent[k])}
  IN [k \in 1 .. Max(carried) |-> Seen(protocol_, sent[k])]

HandedOver == SubSeq(received, 1, Min({Len(received), Len(Carried)}))

Promise == INSTANCE Inbox WITH sent <- Carried, received <- HandedOver

(* The receiver keeps the promise of Inbox, as long as neither side has    *)
(* changed its protocol: what the protocol can carry is handed over in     *)
(* order and unchanged, whatever came after it, until an error.            *)
ImplementsInbox ==
  Promise!Init /\ [][switches' = 0 => Promise!Next \/ UNCHANGED Promise!vars]_vars

(* Every message the protocol can carry is handed over, unless the peer    *)
(* was lost, the handler threw or a protocol changed before.               *)
Delivered ==
  \A k \in 1 .. MaxSends :
    Len(Carried) >= k ~>
      Len(received) >= k \/ closed \/ fault = "handler" \/ switches > 0

(* The loss of the peer is told, also in the middle of a frame, unless an  *)
(* exception has ended the receiving already.                              *)
LossIsTold == closed ~> told \/ fault # "none"

=============================================================================
