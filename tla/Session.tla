------------------------------ MODULE Session -------------------------------
(***************************************************************************)
(* One tsession of the server: its status, its socket, the chain of reads  *)
(* of its receiver and its Sender, whose send handler is the session's.    *)
(* All handlers of a session run in the strand of its connection, one at a *)
(* time; only the session reaper runs outside it.                          *)
(*                                                                         *)
(* The lobby's part of the handlers is here only as far as it acts on the  *)
(* session: the accept handler sets the status, sends the welcome and      *)
(* receives, a command is answered with one message or, when it is empty,  *)
(* with none.                                                              *)
(***************************************************************************)
EXTENDS Integers, Sequences, FiniteSets

CONSTANTS IdModulus,          \* 2^32 in the code, see Sender
          MaxSends,           \* bound: the number of messages sent
          MaxCommands         \* bound: the number of commands received

ASSUME IdModulusAssumption == IdModulus \in Nat /\ IdModulus >= 2
ASSUME MaxCommandsAssumption == MaxCommands \in Nat

VARIABLES
  status_,                    \* tsession::status_
  socket_,                    \* "unopened", "open" or "closed"
  running,                    \* the handler that runs, or "none"
  receives,                   \* posted calls of receive_message
  reading,                    \* outstanding asynchronous reads
  commands,                   \* the number of commands received
  erased,                     \* the reaper destroyed the session
  (* The variables of Sender. *)
  id_, pc, outgoing, strand, protocol_, messages_, send_buffer_, writing,
  wire, threw, allocated, posted, reported

Strand == "strand"            \* the one thread that sends

(* The sender of the session's socket. The server never sets its protocol. *)
Sending == INSTANCE Sender
             WITH Callers <- {Strand}, ReplyIds <- {}, HandlerMayThrow <- TRUE,
                  Protocols <- {"telnet"}

callVars == <<id_, pc, outgoing, allocated>>
queueVars == <<messages_, send_buffer_, writing, wire, threw, reported>>
senderVars == <<callVars, strand, posted, protocol_, queueVars>>
readVars == <<receives, reading, commands>>
vars == <<status_, socket_, running, readVars, erased, senderVars>>

-----------------------------------------------------------------------------

Init ==
  /\ status_ = "wait_for_connection"
  /\ socket_ = "unopened"
  /\ running = "none"
  /\ receives = 0
  /\ reading = 0
  /\ commands = 0
  /\ erased = FALSE
  /\ Sending!Init

(* The strand is free to run the next handler. *)
Free == ~erased /\ running = "none"

-----------------------------------------------------------------------------
(* Accepting the connection.                                               *)

(* session_accept_handler without an error calls the lobby's, which sets   *)
(* the status and starts to send the welcome.                              *)
AcceptSucceeds ==
  /\ Free
  /\ status_ = "wait_for_connection"
  /\ status_' = "connected"
  /\ socket_' = "open"
  /\ running' = "accept"
  /\ Sending!SendAction(Strand)
  /\ UNCHANGED <<readVars, erased>>

(* Mutant: a session that was never connected is disconnected. *)
AcceptFailsDisconnects ==
  /\ Free
  /\ status_ = "wait_for_connection"
  /\ status_' = "disconnected"
  /\ UNCHANGED <<socket_, running, readVars, erased, senderVars>>

(* session_accept_handler with an error: the lobby is not told. *)
AcceptFails ==
  /\ Free
  /\ status_ = "wait_for_connection"
  /\ status_' = "reapable"
  /\ UNCHANGED <<socket_, running, readVars, erased, senderVars>>

-----------------------------------------------------------------------------
(* The running handler.                                                    *)

(* The handlers that end with receive(). *)
Calling == {"accept", "command"}

(* It goes on with the send_action it is in. *)
HandlerSends ==
  /\ ~erased
  /\ running \in Calling
  /\ Sending!IncrementId(Strand) \/ Sending!Post(Strand)
  /\ UNCHANGED <<status_, socket_, running, readVars, erased>>

(* Mutant: the handler also asks for a read of its own. *)
HandlerEndsTwice ==
  /\ ~erased
  /\ running \in Calling
  /\ pc[Strand] = "idle"
  /\ running' = "none"
  /\ receives' = receives + 2
  /\ UNCHANGED <<status_, socket_, reading, commands, erased, senderVars>>

(* It ends with receive(): in accept_handler after the welcome, in         *)
(* asio_receive_handler after the command.                                 *)
HandlerEnds ==
  /\ ~erased
  /\ running \in Calling
  /\ pc[Strand] = "idle"
  /\ running' = "none"
  /\ receives' = receives + 1
  /\ UNCHANGED <<status_, socket_, reading, commands, erased, senderVars>>

-----------------------------------------------------------------------------
(* The receive chain.                                                      *)

(* receive_message starts a read. *)
RunReceive ==
  /\ Free
  /\ receives > 0
  /\ receives' = receives - 1
  /\ reading' = reading + 1
  /\ UNCHANGED <<status_, socket_, running, commands, erased, senderVars>>

(* A command arrives and is executed, answered unless it is empty. On a    *)
(* closed socket it is one that the input buffer already held.             *)
ReadSucceeds ==
  /\ Free
  /\ reading > 0
  /\ commands < MaxCommands
  /\ reading' = reading - 1
  /\ commands' = commands + 1
  /\ running' = "command"
  /\ Sending!SendAction(Strand) \/ UNCHANGED senderVars
  /\ UNCHANGED <<status_, socket_, receives, erased>>

(* Mutant: after an error the receiver goes on receiving. *)
ReadFailsGoesOn ==
  /\ Free
  /\ reading > 0
  /\ reading' = reading - 1
  /\ receives' = receives + 1
  /\ status_' = "disconnected"
  /\ UNCHANGED <<socket_, running, commands, erased, senderVars>>

(* asio_receive_handler and session_receive_handler with an error: the     *)
(* peer is gone, or close() aborted the read. Nothing is read again.       *)
ReadFails ==
  /\ Free
  /\ reading > 0
  /\ reading' = reading - 1
  /\ status_' = "disconnected"
  /\ UNCHANGED <<socket_, running, receives, commands, erased, senderVars>>

-----------------------------------------------------------------------------
(* The send chain.                                                         *)

RunSendMessage ==
  /\ Free
  /\ Sending!RunSendMessage
  /\ UNCHANGED <<status_, socket_, running, readVars, erased>>

(* session_send_handler without an error does nothing. *)
WriteSucceeds ==
  /\ Free
  /\ socket_ = "open"
  /\ writing > 0
  /\ Sending!Transfer(Len(send_buffer_))
  /\ Sending!Completed(TRUE)
  /\ Sending!HandlerReturns(<<>>)
  /\ UNCHANGED <<callVars, strand, posted, protocol_>>
  /\ UNCHANGED <<status_, socket_, running, readVars, erased>>

(* ttcp_socket::close: shutdown() throws unless the socket is open and     *)
(* connected, and after a failed write it may not be connected any more.   *)
CloseReturns == socket_ = "open" /\ socket_' = "closed"
CloseThrows == UNCHANGED socket_

(* The failed write has put n encodings on the wire. *)
Failed(n) ==
  /\ send_buffer_[n + 1].bytes
  /\ Sending!Transfer(n)
  /\ Sending!Completed(FALSE)
  /\ UNCHANGED <<callVars, strand, posted, protocol_>>

(* Mutant: the session becomes reapable before its socket is closed.       *)
WriteFailsStatusFirst ==
  /\ Free
  /\ writing > 0
  /\ status_' = "reapable"
  /\ \/ /\ CloseReturns
        /\ running' = "send"
        /\ UNCHANGED senderVars
     \/ /\ CloseThrows
        /\ UNCHANGED running
        /\ \E n \in 0 .. Len(send_buffer_) - 1 :
             Failed(n) /\ Sending!HandlerThrows(Sending!Remainder(n))
  /\ UNCHANGED <<readVars, erased>>

(* session_send_handler with an error: close, then become reapable; when   *)
(* close() throws neither that nor the rest of the completion happens. The *)
(* status is what the reaper sees of it, while the rest of the completion  *)
(* is yet to run.                                                          *)
WriteFails ==
  /\ Free
  /\ writing > 0
  /\ \/ /\ CloseReturns
        /\ status_' = "reapable"
        /\ running' = "send"
        /\ UNCHANGED senderVars
     \/ /\ CloseThrows
        /\ UNCHANGED <<status_, running>>
        /\ \E n \in 0 .. Len(send_buffer_) - 1 :
             Failed(n) /\ Sending!HandlerThrows(Sending!Remainder(n))
  /\ UNCHANGED <<readVars, erased>>

(* send_queue_message_handler goes on: the front is popped and the next    *)
(* message sent.  The variables of the sender are those of the strand      *)
(* alone, so that all the completion does to them is in this step.         *)
CompletionEnds ==
  /\ ~erased
  /\ running = "send"
  /\ running' = "none"
  /\ writing > 0
  /\ \E n \in 0 .. Len(send_buffer_) - 1 :
       Failed(n) /\ Sending!HandlerReturns(Sending!Remainder(n))
  /\ UNCHANGED <<status_, socket_, readVars, erased>>

-----------------------------------------------------------------------------

(* The timer of the reaper expires and it finds the session reapable,      *)
(* whatever the strand is running.  What the handlers of an erased session *)
(* would do is undefined: they stop.                                       *)
Reap ==
  /\ ~erased
  /\ status_ = "reapable"
  /\ erased' = TRUE
  /\ UNCHANGED <<status_, socket_, running, readVars, senderVars>>

Handlers == HandlerSends \/ HandlerEnds
Reads == RunReceive \/ ReadSucceeds \/ ReadFails
Writes == RunSendMessage \/ WriteSucceeds \/ WriteFails \/ CompletionEnds
Next == AcceptSucceeds \/ AcceptFails \/ Handlers \/ Reads \/ Writes \/ Reap

Spec == Init /\ [][Next]_vars

(* The io_service keeps running handlers, a read on a closed socket is     *)
(* completed, a started write ends and the timer of the reaper expires.    *)
Fairness ==
  /\ WF_vars(Handlers)
  /\ WF_vars(RunReceive)
  /\ WF_vars(socket_ = "closed" /\ ReadFails)
  /\ WF_vars(RunSendMessage)
  /\ WF_vars(WriteSucceeds \/ WriteFails)
  /\ WF_vars(CompletionEnds)
  /\ WF_vars(Reap)

FairSpec == Spec /\ Fairness

-----------------------------------------------------------------------------
(* Properties.                                                             *)

Statuses == {"wait_for_connection", "connected", "disconnected", "reapable"}

(* The variables of the session have the types of session.hpp. *)
TypeOK ==
  /\ status_ \in Statuses
  /\ socket_ \in {"unopened", "open", "closed"}
  /\ running \in Calling \union {"none", "send"}
  /\ receives \in Nat
  /\ reading \in Nat
  /\ commands \in 0 .. MaxCommands
  /\ erased \in BOOLEAN

(* Nothing was ever asked of the socket. *)
Untouched ==
  receives + reading = 0 /\ writing = 0 /\ strand = <<>> /\ pc[Strand] = "idle"

(* The reaper, on its own thread, destroys a session only when the server  *)
(* closed its socket, so that what is outstanding is being aborted, or     *)
(* when it never had a connection, and then nothing refers to it.  Were it *)
(* reapable before close() returned, one that throws there would lose its  *)
(* socket under a read that goes on.  A closed session is not safe from    *)
(* it: the code may destroy it under the completion that made it reapable, *)
(* or under a command that was already in its buffer.  Only its accept     *)
(* handler is always over.                                                 *)
ReapedIsShut ==
  /\ TypeOK
  /\ erased => \/ socket_ = "closed" /\ running # "accept"
               \/ socket_ = "unopened" /\ running = "none" /\ Untouched

(* What keeps a session reading: a read that is asked for or outstanding,  *)
(* or a handler that asks for one when it ends.                            *)
Links == receives + reading + (IF running \in Calling THEN 1 ELSE 0)

(* The chain of reads neither breaks nor forks: a connected session has    *)
(* one link of it, and one that waits for its connection or lost it none.  *)
(* Two reads on one socket and one input buffer would tear the commands of *)
(* the client apart; a handler that resumed the chain after an error would *)
(* let a disconnected session take commands; without a link it is deaf.    *)
ChainOfReads ==
  /\ Links <= 1
  /\ status_ = "connected" => Links = 1
  /\ status_ \in {"wait_for_connection", "disconnected"} => Links = 0

(* A session whose socket the server closed is reaped, or it is left       *)
(* disconnected, by the read that close() aborts, and at rest: that read   *)
(* is not followed by another one, the queued messages fail, nothing of    *)
(* the session is left to run, and nothing brings it back to the reaper,   *)
(* for the abort overwrote the status it was to be reaped by.              *)
ClosedComesToRest ==
  socket_ = "closed" ~>
    \/ erased
    \/ [](/\ status_ = "disconnected"
          /\ running = "none" /\ reading + receives = 0
          /\ writing = 0 /\ strand = <<>>)

Peer == INSTANCE Connection
  WITH ears <- IF socket_ = "unopened" \/ running = "accept" THEN "none"
               ELSE IF reading + receives > 0 \/ running = "command"
                    THEN "open" ELSE "shut",
       mouth <- IF threw # "none" THEN "jammed"
                ELSE IF messages_ = <<>> /\ strand = <<>> THEN "quiet"
                     ELSE "busy",
       closed <- socket_ = "closed",
       reaped <- erased

(* The session is what the lobby takes a connection for. *)
ImplementsConnection == Peer!Spec

=============================================================================
