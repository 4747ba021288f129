------------------------------- MODULE Client -------------------------------
(***************************************************************************)
(* tapplication of the text client: lines typed on the terminal are        *)
(* commands for the client or for the server.  The handlers of the         *)
(* terminal run in one strand, those of the socket in another, and four    *)
(* threads beside the main one run both at a time.  The socket connects    *)
(* with the steps of Connector.  How the application ends is in Shutdown.  *)
(***************************************************************************)
EXTENDS Connector, SequencesExt, FiniteSets

CONSTANTS MaxTyped,           \* bound: the number of lines typed
          MaxServed           \* bound: the messages of the server

ASSUME ClientAssumption == {MaxTyped, MaxServed} \subseteq Nat

VARIABLES
  typed,                      \* the number of lines typed
  executed,                   \* the number of lines given to execute()
  pc,                         \* "idle", or "connect" between two tests
  thrown,                     \* what execute() threw, or "none"
  buffering_mode_,
  command_buffer_,
  connected_,
  accepted,                   \* history: the lines meant for the server
  sent,                       \* the messages given to the socket
  strand,                     \* the calls posted to the socket's strand
  reads,                      \* the outstanding reads of the socket
  gone,                       \* the server closed the connection
  served,                     \* the number of messages of the server
  shown                       \* the number of messages given to output_

terminal == <<typed, executed, pc, thrown, buffering_mode_, command_buffer_,
              accepted, sent>>
server == <<gone, served, shown>>
vars == <<terminal, connected_, strand, reads, server, connectorVars>>

NoReads == [waiting |-> 0, failed |-> 0]

Init ==
  /\ typed = 0 /\ executed = 0
  /\ pc = "idle" /\ thrown = "none"
  /\ buffering_mode_ = FALSE /\ command_buffer_ = <<>>
  /\ connected_ = FALSE
  /\ accepted = <<>> /\ sent = <<>>
  /\ strand = <<>>
  /\ reads = NoReads
  /\ gone = FALSE /\ served = 0 /\ shown = 0
  /\ ConnectorInit
  /\ connect_handler_ = TRUE

-----------------------------------------------------------------------------
(* The terminal.  The receiver of input_ calls execute() with a line and   *)
(* receives the next one unless execute() throws.                          *)

Type ==
  /\ typed < MaxTyped
  /\ typed' = typed + 1
  /\ UNCHANGED <<executed, pc, thrown, buffering_mode_, command_buffer_,
                 accepted, sent, connected_, strand, reads, server,
                 connectorVars>>

(* Mutant: no line is asked for after one that was executed. *)
HearsOnce == executed < typed /\ pc = "idle" /\ thrown = "none" /\ executed = 0

Hears == executed < typed /\ pc = "idle" /\ thrown = "none"

Throws(type) == thrown' = type

(* What a line appends to the buffer, its end of line included. *)
EndOfLine == 0
WithEnd(line) == <<line, EndOfLine>>

(* Mutant: the line is buffered without looking for a connection. *)
ServerLineBuffersFirst ==
  /\ \/ /\ buffering_mode_
        /\ command_buffer_' = command_buffer_ \o WithEnd(executed')
        /\ accepted' = Append(accepted, executed')
        /\ UNCHANGED <<sent, thrown>>
     \/ /\ connected_ /\ ~buffering_mode_
        /\ sent' = Append(sent, <<executed'>>)
        /\ accepted' = Append(accepted, executed')
        /\ UNCHANGED <<command_buffer_, thrown>>
     \/ /\ ~connected_ /\ ~buffering_mode_
        /\ Throws("socket_error")
        /\ UNCHANGED <<command_buffer_, accepted, sent>>
  /\ UNCHANGED <<pc, buffering_mode_>>

(* execute_server with a line of the terminal *)
ServerLine ==
  /\ \/ /\ ~connected_
        /\ Throws("socket_error")
        /\ UNCHANGED <<command_buffer_, accepted, sent>>
     \/ /\ connected_ /\ buffering_mode_
        /\ command_buffer_' = command_buffer_ \o WithEnd(executed')
        /\ accepted' = Append(accepted, executed')
        /\ UNCHANGED <<sent, thrown>>
     \/ /\ connected_ /\ ~buffering_mode_
        /\ sent' = Append(sent, <<executed'>>)
        /\ accepted' = Append(accepted, executed')
        /\ UNCHANGED <<command_buffer_, thrown>>
  /\ UNCHANGED <<pc, buffering_mode_>>

Begin ==
  /\ \/ buffering_mode_ /\ Throws("busy") /\ UNCHANGED buffering_mode_
     \/ ~buffering_mode_ /\ buffering_mode_' = TRUE /\ UNCHANGED thrown
  /\ UNCHANGED <<pc, command_buffer_, accepted, sent>>

(* The buffer is taken and given to execute_server, which may throw. *)
End ==
  /\ \/ /\ ~buffering_mode_
        /\ Throws("protocol_error")
        /\ UNCHANGED <<buffering_mode_, command_buffer_, sent>>
     \/ /\ buffering_mode_
        /\ buffering_mode_' = FALSE
        /\ command_buffer_' = <<>>
        /\ \/ /\ connected_
              /\ sent' = Append(sent, command_buffer_)
              /\ UNCHANGED thrown
           \/ ~connected_ /\ Throws("socket_error") /\ UNCHANGED sent
  /\ UNCHANGED <<pc, accepted>>

(* /connect tests connected_, and connect() asserts it once more. *)
ConnectCommand ==
  /\ \/ connected_ /\ Throws("busy") /\ UNCHANGED pc
     \/ /\ ~connected_
        /\ \E c \in Calls : call[c].phase = "idle"      \* bound
        /\ pc' = "connect"
        /\ UNCHANGED thrown
  /\ UNCHANGED <<buffering_mode_, command_buffer_, accepted, sent>>

Unknown ==
  /\ Throws("invalid_value")
  /\ UNCHANGED <<pc, buffering_mode_, command_buffer_, accepted, sent>>

Blank == UNCHANGED <<pc, thrown, buffering_mode_, command_buffer_, accepted, sent>>

Execute ==
  /\ Hears
  /\ executed' = executed + 1
  /\ ServerLine \/ Begin \/ End \/ ConnectCommand \/ Unknown \/ Blank
  /\ UNCHANGED <<typed, connected_, strand, reads, server, connectorVars>>

(* connect() *)
StartConnect ==
  /\ pc = "connect"
  /\ pc' = "idle"
  /\ \/ /\ connected_
        /\ Throws("internal_failure")
        /\ UNCHANGED <<connectorVars, strand>>
     \/ /\ ~connected_
        /\ \E c \in Calls : Connect(c)
        /\ strand' = Append(strand, "resolve")
        /\ UNCHANGED thrown
  /\ UNCHANGED <<typed, executed, buffering_mode_, command_buffer_, accepted,
                 sent, connected_, reads, server>>

-----------------------------------------------------------------------------
(* The connector of socket_ and the connect handler.                       *)

RunResolve ==
  /\ strand # <<>> /\ Head(strand) = "resolve"
  /\ strand' = Tail(strand)
  /\ \E c \in Calls : Resolve(c)
  /\ UNCHANGED <<terminal, connected_, reads, server>>

AttemptSucceeds ==
  /\ \E c \in Calls : AttemptEnds(c)
  /\ socket' = "connected"
  /\ UNCHANGED <<terminal, connected_, strand, reads, server>>

AbortReads ==
  reads' = [reads EXCEPT !.waiting = 0, !.failed = @ + reads.waiting]

(* A read that waits on the socket fails with the attempt to connect. *)
AttemptFails ==
  /\ \E c \in Calls : AttemptEnds(c)
  /\ socket' # "connected"
  /\ AbortReads
  /\ UNCHANGED <<terminal, connected_, strand, server>>

(* The socket is closed and opened for an endpoint; that aborts its reads. *)
Tries ==
  /\ \E c \in Calls : ResolveSucceeds(c) \/ NextEndpoint(c) \/ ConnectFails(c)
  /\ tries' # tries
  /\ AbortReads
  /\ gone' = FALSE
  /\ UNCHANGED <<terminal, connected_, strand, served, shown>>

(* Mutant: the connect handler does not look at the error. *)
ConnectHandlerAlways ==
  /\ \E c \in Calls :
       /\ ResolveFails(c) \/ ConnectSucceeds(c) \/ ConnectFails(c)
       /\ reports' # reports
       /\ connected_' = TRUE
  /\ strand' = Append(strand, "receive")
  /\ UNCHANGED <<terminal, reads, server>>

(* asio_callback_socket_connect receives whatever it is told. *)
ConnectHandler ==
  /\ \E c \in Calls :
       /\ ResolveFails(c) \/ ConnectSucceeds(c) \/ ConnectFails(c)
       /\ reports' # reports
       /\ connected_' = (connected_ \/ reports'[c] = <<"ok">>)
  /\ strand' = Append(strand, "receive")
  /\ UNCHANGED <<terminal, reads, server>>

-----------------------------------------------------------------------------
(* The receiver of socket_ and the server.                                 *)

Alive == socket = "connected" /\ ~gone

(* A read waits on a connection that is up or being made; else it fails.   *)
CanWait ==
  \/ Alive
  \/ \E c \in Calls : call[c].phase = "connecting" /\ call[c].result = "none"

RunReceive ==
  /\ strand # <<>> /\ Head(strand) = "receive"
  /\ strand' = Tail(strand)
  /\ \/ CanWait /\ reads' = [reads EXCEPT !.waiting = @ + 1]
     \/ ~CanWait /\ reads' = [reads EXCEPT !.failed = @ + 1]
  /\ UNCHANGED <<terminal, connected_, server, connectorVars>>

(* asio_callback_socket_receive shows the message; then the receiver asks  *)
(* for the next one. *)
SocketReceive ==
  /\ Alive
  /\ reads.waiting > 0
  /\ served < MaxServed
  /\ served' = served + 1
  /\ shown' = shown + 1
  /\ reads' = [reads EXCEPT !.waiting = @ - 1]
  /\ strand' = Append(strand, "receive")
  /\ UNCHANGED <<terminal, connected_, gone, connectorVars>>

(* The socket stays as it is, and only a read or a write would tell. *)
ServerCloses ==
  /\ Alive
  /\ gone' = TRUE
  /\ AbortReads
  /\ UNCHANGED <<terminal, connected_, strand, served, shown, connectorVars>>

(* ... with an error: nothing is shown, and connected_ stays as it is. *)
SocketReceiveFails ==
  /\ reads.failed > 0
  /\ reads' = [reads EXCEPT !.failed = @ - 1]
  /\ UNCHANGED <<terminal, connected_, strand, server, connectorVars>>

-----------------------------------------------------------------------------

Dialing == RunResolve \/ AttemptSucceeds \/ AttemptFails \/ Tries \/ ConnectHandler
Receiving == RunReceive \/ SocketReceive \/ SocketReceiveFails
Next == Type \/ Execute \/ StartConnect \/ Dialing \/ Receiving \/ ServerCloses

Spec == Init /\ [][Next]_vars

(* The io_service runs the handlers; connecting ends. *)
Fairness ==
  /\ WF_vars(Execute) /\ WF_vars(StartConnect)
  /\ WF_vars(Dialing)
  /\ WF_vars(RunReceive) /\ WF_vars(SocketReceiveFails)

FairSpec == Spec /\ Fairness

-----------------------------------------------------------------------------
(* Properties.                                                             *)

(* The variables have the types of application.hpp. *)
TypeOK ==
  /\ typed \in 0 .. MaxTyped /\ executed \in 0 .. typed
  /\ pc \in {"idle", "connect"}
  /\ {buffering_mode_, connected_, gone} \subseteq BOOLEAN
  /\ command_buffer_ \in Seq(0 .. MaxTyped)
  /\ sent \in Seq(Seq(0 .. MaxTyped))
  /\ strand \in Seq({"resolve", "receive"})
  /\ reads \in [waiting : Nat, failed : Nat]

(* The lines of a text, without what ends them. *)
LinesIn(text) ==
  FlattenSeq([k \in DOMAIN text |->
                IF text[k] = EndOfLine THEN <<>> ELSE <<text[k]>>])

(* The lines for the server are in the messages given to the socket, in    *)
(* the order they were typed, or in the buffer, where they wait for an     *)
(* /end: none is lost or doubled, and no exception can drop a buffered     *)
(* line, because nothing is buffered without a connection and connected_   *)
(* is never reset.                                                         *)
LinesKept ==
  /\ TypeOK
  /\ FlattenSeq([k \in DOMAIN sent |-> LinesIn(sent[k])]) \o LinesIn(command_buffer_)
       = accepted
  /\ command_buffer_ # <<>> => buffering_mode_

(* The chains of reads: one that waits or is asked for. *)
LiveReads == reads.waiting + Cardinality({k \in DOMAIN strand : strand[k] = "receive"})

(* A call of connect() starts one chain of reads, whatever the user does.  *)
(* As long as no request is made before the last one has ended, there is   *)
(* one chain at a time that a message of the server could go to, and       *)
(* unless the server has closed it, a client that takes itself for         *)
(* connected has a connection, and one read that will get what is said on  *)
(* it: only requests that overlap do harm.  A loss is excepted, for what   *)
(* the client makes of one is wrong: connected_ is reset nowhere, so that  *)
(* it goes on taking itself for connected without a connection.            *)
OnlyOverlapHarms ==
  /\ LiveReads + reads.failed <= Cardinality({c \in Calls : reports[c] # <<>>})
  /\ ~overlapped =>
       /\ LiveReads <= 1
       /\ connected_ /\ ~gone => Alive /\ LiveReads = 1

(* Each line that was typed is executed, whatever the socket does, until a *)
(* command is refused: what it throws ends the reading of the terminal.    *)
LinesExecuted ==
  \A k \in 1 .. MaxTyped : typed >= k ~> executed >= k \/ thrown # "none"

=============================================================================
