----------------------------- MODULE Connector ------------------------------
(***************************************************************************)
(* tconnector: a call of connect() resolves the host and tries the         *)
(* endpoints it resolves to on one socket.  asio_connect passes all        *)
(* endpoints from its iterator on to async_connect, which tries them one   *)
(* after the other; asio_connect_handler then starts again one endpoint    *)
(* further on.  All handlers run in the strand of the connection, so that  *)
(* each is one step; the results they are called with arrive before.       *)
(***************************************************************************)
EXTENDS Integers, Sequences

CONSTANTS Calls,              \* the calls of connect() there may be
          Endpoints           \* the number of endpoints of the host

ASSUME ConnectorAssumption == Endpoints \in Nat \ {0}

VARIABLES
  connect_handler_,           \* whether it is set
  call,                       \* how far each call of connect() got
  socket,                     \* "closed", "open" or "connected"
  owner,                      \* the call, if any, that opened the socket
  tries,                      \* history: how often a call tried an endpoint
  reports,                    \* the outcomes told to the connect handler
  undefined,                  \* an iterator was moved past the end
  overlapped                  \* history: the warning of connector.hpp, one
                              \* request at a time, was not heeded

connectorVars == <<connect_handler_, call, socket, owner, tries, reports,
                   undefined, overlapped>>

fixed == <<connect_handler_, overlapped>>

(* A call that was not made; otherwise first is the iterator of            *)
(* asio_connect, at that of async_connect, and result waits for a handler. *)
Idle == [phase |-> "idle", first |-> 0, at |-> 0, result |-> "none"]

Active(c) == call[c].phase \notin {"idle", "done"}

ConnectorInit ==
  /\ connect_handler_ \in BOOLEAN
  /\ call = [c \in Calls |-> Idle]
  /\ socket = "closed"
  /\ owner = {}
  /\ tries = [c \in Calls |-> [k \in 1 .. Endpoints |-> 0]]
  /\ reports = [c \in Calls |-> <<>>]
  /\ undefined = FALSE
  /\ overlapped = FALSE

-----------------------------------------------------------------------------

(* connect(), maybe while another request is under way or connected.       *)
Connect(c) ==
  /\ call[c] = Idle
  /\ call' = [call EXCEPT ![c].phase = "posted"]
  /\ overlapped' =
       (overlapped \/ socket = "connected" \/ \E d \in Calls : Active(d))
  /\ UNCHANGED <<connect_handler_, socket, owner, tries, reports, undefined>>

Resolve(c) ==
  /\ call[c].phase = "posted"
  /\ call' = [call EXCEPT ![c].phase = "resolving"]
  /\ UNCHANGED <<fixed, socket, owner, tries, reports, undefined>>

(* The connect handler is called and the call is over. *)
Report(c, outcome) ==
  /\ call' = [call EXCEPT ![c].phase = "done", ![c].result = "none"]
  /\ reports' = [reports EXCEPT ![c] = Append(@, outcome)]
  /\ UNCHANGED <<fixed, socket, owner, tries, undefined>>

(* async_connect tries an endpoint: it closes the socket, which aborts the *)
(* attempt another call has outstanding on it, and opens it again.         *)
Try(c, first, at) ==
  /\ call' = [d \in Calls |->
       IF d = c THEN [phase |-> "connecting", first |-> first, at |-> at,
                      result |-> "none"]
       ELSE IF call[d].phase = "connecting" /\ call[d].result = "none"
            THEN [call[d] EXCEPT !.result = "error"]
            ELSE call[d]]
  /\ socket' = "open"
  /\ owner' = {c}
  /\ tries' = [tries EXCEPT ![c][at] = @ + 1]
  /\ UNCHANGED <<fixed, reports, undefined>>

(* asio_connect; async_connect finds nothing at the end of the endpoints. *)
AsioConnect(c, first) ==
  \/ first <= Endpoints /\ Try(c, first, first)
  \/ /\ first > Endpoints
     /\ call' = [call EXCEPT ![c] = [phase |-> "connecting", first |-> first,
                                     at |-> first, result |-> "error"]]
     /\ UNCHANGED <<fixed, socket, owner, tries, reports, undefined>>

ResolveSucceeds(c) ==
  /\ call[c].phase = "resolving"
  /\ AsioConnect(c, 1)

(* Mutant: asio_resolve_handler does not tell an error. *)
ResolveFailsSilently(c) ==
  /\ call[c].phase = "resolving"
  /\ call' = [call EXCEPT ![c].phase = "done"]
  /\ UNCHANGED <<fixed, socket, owner, tries, reports, undefined>>

(* asio_resolve_handler with an error only returns if there is a handler. *)
ResolveFails(c) ==
  /\ call[c].phase = "resolving"
  /\ \/ connect_handler_ /\ Report(c, "unresolved")
     \/ ~connect_handler_ /\ AsioConnect(c, Endpoints + 1)

-----------------------------------------------------------------------------

(* The network: the attempt on the socket ends. *)
AttemptEnds(c) ==
  /\ call[c].phase = "connecting"
  /\ call[c].result = "none"
  /\ \/ /\ call' = [call EXCEPT ![c].result = "ok"]
        /\ socket' = "connected"
     \/ /\ call' = [call EXCEPT ![c].result = "error"]
        /\ UNCHANGED socket
  /\ UNCHANGED <<fixed, owner, tries, reports, undefined>>

(* Mutant: the handler hears of a failure while endpoints are left. *)
NextEndpointFirst(c) ==
  /\ call[c].result = "error"
  /\ call[c].at < Endpoints
  /\ Report(c, "failed")

(* async_connect goes on with the next endpoint, also when another call    *)
(* aborted the attempt: the socket that call opened is open.               *)
NextEndpoint(c) ==
  /\ call[c].result = "error"
  /\ call[c].at < Endpoints
  /\ Try(c, call[c].first, call[c].at + 1)

(* asio_connect_handler *)
ConnectSucceeds(c) ==
  /\ call[c].result = "ok"
  /\ Report(c, IF connect_handler_ THEN "ok" ELSE "unheard")

(* Mutant: asio_connect_handler does not advance its iterator. *)
ConnectFailsAgain(c) ==
  /\ call[c].result = "error"
  /\ call[c].at >= Endpoints
  /\ AsioConnect(c, call[c].first)

ConnectFails(c) ==
  /\ call[c].result = "error"
  /\ call[c].at >= Endpoints
  /\ \/ call[c].first < Endpoints /\ AsioConnect(c, call[c].first + 1)
     \/ /\ call[c].first = Endpoints
        /\ Report(c, IF connect_handler_ THEN "failed" ELSE "unheard")
     \/ /\ call[c].first > Endpoints        \* ++iterator at the end
        /\ undefined' = TRUE
        /\ UNCHANGED <<fixed, call, socket, owner, tries, reports>>

-----------------------------------------------------------------------------

Progress(c) ==
  \/ Resolve(c) \/ ResolveSucceeds(c) \/ ResolveFails(c)
  \/ AttemptEnds(c) \/ NextEndpoint(c) \/ ConnectSucceeds(c) \/ ConnectFails(c)

ConnectorNext == ~undefined /\ \E c \in Calls : Connect(c) \/ Progress(c)

ConnectorSpec == ConnectorInit /\ [][ConnectorNext]_connectorVars

(* Resolving and connecting end, by a timeout if need be, and the          *)
(* io_service runs the handlers.                                           *)
ConnectorFairness ==
  \A c \in Calls : WF_connectorVars(~undefined /\ Progress(c))

ConnectorFairSpec == ConnectorSpec /\ ConnectorFairness

-----------------------------------------------------------------------------
(* Properties.                                                             *)

Outcomes == {"ok", "unresolved", "failed", "unheard"}

(* The variables have the types of connector.hpp. *)
ConnectorTypeOK ==
  /\ \A c \in Calls :
       /\ call[c].phase \in {"idle", "posted", "resolving", "connecting", "done"}
       /\ call[c].first \in 0 .. Endpoints + 1
       /\ call[c].at \in 0 .. Endpoints + 1
       /\ call[c].result \in {"none", "ok", "error"}
       /\ \A k \in 1 .. Endpoints : tries[c][k] \in Nat
       /\ reports[c] \in Seq(Outcomes)
  /\ socket \in {"closed", "open", "connected"}
  /\ owner \subseteq Calls
  /\ {connect_handler_, overlapped} \subseteq BOOLEAN

(* The two loops over the endpoints nest: endpoint k is tried up to k      *)
(* times, which bounds a call by the square of the number of endpoints.    *)
(* And an iterator is moved past the end only without a connect handler,   *)
(* by a call that did not resolve and goes on as if it had.                *)
IterationBounded ==
  /\ ConnectorTypeOK
  /\ \A c \in Calls : \A k \in 1 .. Endpoints : tries[c][k] <= k
  /\ undefined =>
       /\ ~connect_handler_
       /\ \E c \in Calls : /\ call[c].phase = "connecting"
                           /\ \A k \in 1 .. Endpoints : tries[c][k] = 0

(* What the handler hears is true when it hears it: the socket is          *)
(* connected by this call, or every endpoint was tried and it is not. And  *)
(* a connection that was made is not torn down. That needs the warning to  *)
(* be heeded: overlapping requests share the socket.                       *)
ReportsAreTrue ==
  [][~overlapped' =>
       /\ socket = "connected" => socket' = "connected"
       /\ \A c \in Calls : reports'[c] # reports[c] =>
            CASE Head(reports'[c]) = "ok" -> socket' = "connected" /\ owner' = {c}
              [] Head(reports'[c]) = "failed" ->
                   /\ socket' # "connected"
                   /\ \A k \in 1 .. Endpoints : tries'[c][k] > 0
              [] OTHER -> connect_handler_ => socket' # "connected"]_connectorVars

(* connector.hpp: once the connector is done it calls its handler, once    *)
(* for each call and at its end, also for calls that abort each other's    *)
(* attempts. Without a handler the call ends or the iterator is lost.      *)
EachCallReports ==
  /\ [](\A c \in Calls :
          Len(reports[c]) = IF call[c].phase = "done" THEN 1 ELSE 0)
  /\ \A c \in Calls :
       call[c].phase = "posted" ~> \/ reports[c] # <<>>
                                   \/ undefined /\ ~connect_handler_

=============================================================================
