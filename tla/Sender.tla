------------------------------- MODULE Sender -------------------------------
(***************************************************************************)
(* tsender of src/modules/communication/detail, with its strand enabled:   *)
(* messages are numbered by an atomic counter, posted to the strand of the *)
(* connection, queued, encoded into one stream buffer and written by at    *)
(* most one asynchronous write, whose completion reports the front message *)
(* to the send handler.                                                    *)
(*                                                                         *)
(* The contents of a message decide nothing here, so that a message is its *)
(* type and id.  Of its encoding it matters whether it has any bytes.  An  *)
(* encoding counts as being in send_buffer_ as long as one byte of it is,  *)
(* and as being on the wire once all of it is; one without bytes goes with *)
(* the bytes before it.                                                    *)
(***************************************************************************)
EXTENDS Integers, Sequences, FiniteSets

CONSTANTS Callers,            \* the threads that send over this connection
          IdModulus,          \* 2^32 in the code, the width of id_
          ReplyIds,           \* ids the peer used in what is replied to
          Protocols,          \* the protocols the connection is ever given
          MaxSends,           \* bound: the number of messages sent
          HandlerMayThrow     \* whether the user's send handler can throw

ASSUME IdModulusAssumption == IdModulus \in Nat /\ IdModulus >= 2
ASSUME ReplyIdsAssumption == ReplyIds \subseteq 0 .. IdModulus - 1
ASSUME ProtocolsAssumption ==
  /\ Protocols \subseteq {"direct", "line", "telnet", "basic", "compressed"}
  /\ "telnet" \in Protocols

VARIABLES
  id_,                        \* the atomic counter of message ids
  pc,                         \* per caller, the step of its send call
  outgoing,                   \* per caller, the message of that call
  strand,                     \* posted send_message calls, in order
  protocol_,                  \* the protocol of the connection
  messages_,                  \* the queue, its front is being sent
  send_buffer_,               \* the encodings not wholly written
  writing,                    \* the number of outstanding asynchronous writes
  wire,                       \* the encodings the stream took completely
  threw,                      \* what threw: no one, the handler or the encoding
  allocated,                  \* history: the ids given out, in order
  posted,                     \* history: the messages posted, in order
  reported                    \* history: the calls of the send handler

callVars == <<id_, pc, outgoing, allocated>>
queueVars == <<messages_, send_buffer_, writing, wire, threw, reported>>
vars == <<callVars, strand, posted, protocol_, queueVars>>

-----------------------------------------------------------------------------

MessageId == 0 .. IdModulus - 1
Message == [type : {"action", "reply"}, id : MessageId]
Action(i) == [type |-> "action", id |-> i]
Reply(i) == [type |-> "reply", id |-> i]
Blank == Reply(0)             \* a call's message before it has one

Encoding == [message : Message, bytes : BOOLEAN]

(* The messages that a sequence of records, encodings or reports, is of. *)
Messages(records) == [k \in DOMAIN records |-> records[k].message]

Front == messages_[1]

Init ==
  /\ id_ = 0
  /\ pc = [c \in Callers |-> "idle"]
  /\ outgoing = [c \in Callers |-> Blank]
  /\ strand = <<>>
  /\ protocol_ = "telnet"
  /\ messages_ = <<>>
  /\ send_buffer_ = <<>>
  /\ writing = 0
  /\ wire = <<>>
  /\ threw = "none"
  /\ allocated = <<>>
  /\ posted = <<>>
  /\ reported = <<>>

-----------------------------------------------------------------------------
(* The calls, on the threads of the callers.                               *)

Calling == {c \in Callers : pc[c] # "idle"}
MaySend == Len(posted) + Cardinality(Calling) < MaxSends

(* send_action is entered. *)
SendAction(c) ==
  /\ pc[c] = "idle"
  /\ MaySend
  /\ pc' = [pc EXCEPT ![c] = "increment"]
  /\ UNCHANGED <<id_, outgoing, allocated, strand, posted, protocol_, queueVars>>

(* Mutant: the counter is wider than the id. *)
IncrementIdUnbounded(c) ==
  /\ pc[c] = "increment"
  /\ id_' = id_ + 1
  /\ outgoing' = [outgoing EXCEPT ![c] = Action(id_ + 1)]
  /\ allocated' = Append(allocated, id_ + 1)
  /\ pc' = [pc EXCEPT ![c] = "post"]
  /\ UNCHANGED <<strand, posted, protocol_, queueVars>>

(* Mutant: the id 0 is not skipped. *)
IncrementIdOnce(c) ==
  LET next == (id_ + 1) % IdModulus IN
  /\ pc[c] = "increment"
  /\ id_' = next
  /\ outgoing' = [outgoing EXCEPT ![c] = Action(next)]
  /\ allocated' = Append(allocated, next)
  /\ pc' = [pc EXCEPT ![c] = "post"]
  /\ UNCHANGED <<strand, posted, protocol_, queueVars>>

(* The increment in isolation is atomic, the loop around it is not. *)
IncrementId(c) ==
  LET next == (id_ + 1) % IdModulus IN
  /\ pc[c] = "increment"
  /\ id_' = next
  /\ IF next = 0
       THEN UNCHANGED <<pc, outgoing, allocated>>
       ELSE /\ outgoing' = [outgoing EXCEPT ![c] = Action(next)]
            /\ allocated' = Append(allocated, next)
            /\ pc' = [pc EXCEPT ![c] = "post"]
  /\ UNCHANGED <<strand, posted, protocol_, queueVars>>

(* send_reply is entered, with the id of the message replied to. *)
SendReply(c) ==
  /\ pc[c] = "idle"
  /\ MaySend
  /\ \E i \in ReplyIds : outgoing' = [outgoing EXCEPT ![c] = Reply(i)]
  /\ pc' = [pc EXCEPT ![c] = "post"]
  /\ UNCHANGED <<id_, allocated, strand, posted, protocol_, queueVars>>

(* strand_execute posts the call of send_message and the call returns. *)
Post(c) ==
  /\ pc[c] = "post"
  /\ strand' = Append(strand, outgoing[c])
  /\ posted' = Append(posted, outgoing[c])
  /\ pc' = [pc EXCEPT ![c] = "idle"]
  /\ UNCHANGED <<id_, outgoing, allocated, protocol_, queueVars>>

-----------------------------------------------------------------------------
(* The strand.                                                             *)

(* set_protocol, at any time: the messages sent from now on are encoded    *)
(* with this protocol.                                                     *)
SetProtocol ==
  /\ protocol_' \in Protocols
  /\ UNCHANGED <<callVars, strand, posted, queueVars>>

(* encode: the protocol direct has no bytes for a message. *)
Encode(m) == [message |-> m, bytes |-> protocol_ # "direct"]

(* send_queue_message: encode m behind what the buffer still holds and     *)
(* start a write of the whole buffer, on top of n outstanding ones.  The   *)
(* protocol compressed is not implemented, its encode throws.              *)
SendQueueMessage(buffer, m, n) ==
  IF protocol_ = "compressed"
    THEN /\ threw' = "encode"
         /\ send_buffer_' = buffer
         /\ writing' = n
    ELSE /\ send_buffer_' = Append(buffer, Encode(m))
         /\ writing' = n + 1
         /\ UNCHANGED threw

(* Mutant: a write is started for every message. *)
RunSendMessageAlwaysSends ==
  /\ strand # <<>>
  /\ strand' = Tail(strand)
  /\ messages_' = Append(messages_, strand[1])
  /\ SendQueueMessage(send_buffer_, strand[1], writing)
  /\ UNCHANGED <<callVars, posted, protocol_, wire, reported>>

(* send_message, run by the strand: a message found on an idle sender is   *)
(* sent at once, otherwise the completion of the current one will send it. *)
RunSendMessage ==
  /\ strand # <<>>
  /\ strand' = Tail(strand)
  /\ messages_' = Append(messages_, strand[1])
  /\ IF messages_ = <<>>
       THEN SendQueueMessage(send_buffer_, strand[1], writing)
       ELSE UNCHANGED <<send_buffer_, writing, threw>>
  /\ UNCHANGED <<callVars, posted, protocol_, wire, reported>>

(* The stream takes the first n encodings of the buffer. *)
Transfer(n) == wire' = wire \o SubSeq(send_buffer_, 1, n)
(* Mutant: a failed write empties the buffer. *)
RemainderDropped(n) == <<>>

Remainder(n) == SubSeq(send_buffer_, n + 1, Len(send_buffer_))

(* Mutant: the front is not popped before the next one is sent. *)
HandlerReturnsKeepsFront(buffer) ==
  /\ UNCHANGED messages_
  /\ SendQueueMessage(buffer, Front, writing - 1)

(* The send handler returned: the front is done, the next one is sent. *)
HandlerReturns(buffer) ==
  /\ messages_' = Tail(messages_)
  /\ IF Tail(messages_) # <<>>
       THEN SendQueueMessage(buffer, Tail(messages_)[1], writing - 1)
       ELSE /\ send_buffer_' = buffer
            /\ writing' = writing - 1
            /\ UNCHANGED threw

(* The send handler threw: the rest of the completion handler is skipped. *)
HandlerThrows(buffer) ==
  /\ HandlerMayThrow
  /\ threw' = "handler"
  /\ send_buffer_' = buffer
  /\ writing' = writing - 1
  /\ UNCHANGED messages_

(* Mutant: the message that was queued last is the one reported. *)
CompletedBack(ok) ==
  reported' = Append(reported, [message |-> messages_[Len(messages_)], ok |-> ok])

(* Mutant: the error is not handed on. *)
CompletedWell(ok) ==
  reported' = Append(reported, [message |-> Front, ok |-> TRUE])

Completed(ok) == reported' = Append(reported, [message |-> Front, ok |-> ok])

(* send_queue_message_handler without an error: all of the buffer is out. *)
WriteSucceeds ==
  /\ writing > 0
  /\ Transfer(Len(send_buffer_))
  /\ Completed(TRUE)
  /\ HandlerReturns(<<>>) \/ HandlerThrows(<<>>)
  /\ UNCHANGED <<callVars, strand, posted, protocol_>>

(* send_queue_message_handler with an error: what was not written stays in *)
(* the buffer, at least a byte.  A write of no bytes at all does not fail. *)
WriteFails ==
  /\ writing > 0
  /\ \E n \in 0 .. Len(send_buffer_) - 1 :
       /\ send_buffer_[n + 1].bytes
       /\ Transfer(n)
       /\ HandlerReturns(Remainder(n)) \/ HandlerThrows(Remainder(n))
  /\ Completed(FALSE)
  /\ UNCHANGED <<callVars, strand, posted, protocol_>>

-----------------------------------------------------------------------------

Caller(c) == SendAction(c) \/ IncrementId(c) \/ SendReply(c) \/ Post(c)
Strand == RunSendMessage \/ WriteSucceeds \/ WriteFails
Next == (\E c \in Callers : Caller(c)) \/ SetProtocol \/ Strand

Spec == Init /\ [][Next]_vars

(* Threads run, the io_service runs what is ready and a started write ends *)
(* in success or in error, as long as the peer reads or its host answers.  *)
Fairness ==
  /\ \A c \in Callers : WF_vars(IncrementId(c)) /\ WF_vars(Post(c))
  /\ WF_vars(RunSendMessage)
  /\ WF_vars(WriteSucceeds \/ WriteFails)

FairSpec == Spec /\ Fairness

-----------------------------------------------------------------------------
(* Properties.                                                             *)

PcStates == {"idle", "increment", "post"}

(* Every variable has the type its declaration in sender.hpp gives it. *)
TypeOK ==
  /\ id_ \in MessageId
  /\ pc \in [Callers -> PcStates]
  /\ outgoing \in [Callers -> Message]
  /\ strand \in Seq(Message)
  /\ messages_ \in Seq(Message)
  /\ protocol_ \in Protocols
  /\ send_buffer_ \in Seq(Encoding)
  /\ writing \in Nat
  /\ wire \in Seq(Encoding)
  /\ threw \in {"none", "handler", "encode"}
  /\ allocated \in Seq(MessageId)
  /\ posted \in Seq(Message)
  /\ reported \in Seq([message : Message, ok : BOOLEAN])

(* Exactly one write is outstanding while there are messages, none while   *)
(* there are not or after an exception: two writes on one stream would     *)
(* interleave their bytes, none with messages queued would strand them     *)
(* (send_message and send_queue_message_handler each decide alone).  An    *)
(* exception does strand them, for good and whatever the protocol is set   *)
(* to later: that of the send handler, before the pop of the front, and    *)
(* that of encode, after the push or the pop and before the write.         *)
WriteInFlight ==
  writing = IF messages_ = <<>> \/ threw # "none" THEN 0 ELSE 1

(* The messages that are not encoded yet: those behind the front, which is *)
(* in the buffer or out, and the front itself if encode threw for it.      *)
Waiting ==
  IF messages_ = <<>> \/ threw = "encode" THEN messages_ ELSE Tail(messages_)

(* No message is lost, doubled or overtaken between strand_execute and the *)
(* stream, whatever a failed write left in the buffer and whatever threw.  *)
(* With the protocol direct nothing of a message is to be written.         *)
WireConservation ==
  posted = Messages(wire \o send_buffer_) \o Waiting \o strand

(* The messages the send handler heard of, in order. *)
ReportedMessages == Messages(reported)

(* The messages the send handler has yet to hear of, in order. *)
Unreported == IF threw = "handler" THEN Tail(messages_) ELSE messages_

(* The send handler hears of every posted message once, in posting order,  *)
(* and of the message it is called for, never of a neighbour.              *)
ReportConservation ==
  posted = ReportedMessages \o Unreported \o strand

(* A report of success means that the stream took all there was to take of *)
(* the message, and in its place: the completion is that of the write it   *)
(* is reported for.                                                        *)
SuccessIsOnWire ==
  \A k \in DOMAIN reported :
    reported[k].ok => k <= Len(wire) /\ wire[k].message = reported[k].message

(* No action has the id 0, and an id is given out again only after all the *)
(* other ids were, even when callers race around the wrap of the counter.  *)
IdGap ==
  \A j \in DOMAIN allocated :
    /\ allocated[j] # 0
    /\ \A i \in 1 .. j - 1 :
         allocated[i] = allocated[j] => j - i >= IdModulus - 1

Out == INSTANCE Outbox WITH accepted <- posted,
                            reported <- ReportedMessages,
                            jammed <- threw # "none"

(* The sender implements the promise of Outbox, its liveness included: the *)
(* send handler is called for every posted message unless it or encode     *)
(* threw before, for each message is sent by its own send_message or by    *)
(* the completion of the one before it, and without an exception that      *)
(* hand-over never drops the ball.                                         *)
ImplementsOutbox == Out!Spec

=============================================================================
