----------------------------- MODULE Connection -----------------------------
(***************************************************************************)
(* One client connection of the server as the lobby sees it: how far its   *)
(* session got, whether the server still listens to the client, and what   *)
(* became of what was sent to it.  Session implements this specification,  *)
(* and every session of Lobby behaves like it.                             *)
(***************************************************************************)

VARIABLES status_,            \* tsession::status_
          ears,               \* "none", "open" or "shut": the receive chain
          mouth,              \* "quiet", "busy" or "jammed": the sender
          closed,             \* the server closed the socket
          reaped              \* the session was destroyed

vars == <<status_, ears, mouth, closed, reaped>>

Init == /\ status_ = "wait_for_connection"
        /\ ears = "none"
        /\ mouth = "quiet"
        /\ closed = FALSE
        /\ reaped = FALSE

(* The client connects, or the accept fails. *)
Accept == /\ status_ = "wait_for_connection"
          /\ status_' = "connected"
          /\ UNCHANGED <<ears, mouth, closed, reaped>>

Refuse == /\ status_ = "wait_for_connection"
          /\ status_' = "reapable"
          /\ UNCHANGED <<ears, mouth, closed, reaped>>

(* The server sends; a jammed sender swallows the message. *)
Send == /\ status_ # "wait_for_connection"
        /\ mouth = "quiet"
        /\ mouth' = "busy"
        /\ UNCHANGED <<status_, ears, closed, reaped>>

Sent == /\ mouth = "busy"
        /\ mouth' = "quiet"
        /\ UNCHANGED <<status_, ears, closed, reaped>>

(* A write fails and the socket is closed, before the sender goes on with  *)
(* what it has queued ...                                                  *)
SendError == /\ mouth = "busy"
             /\ ~closed
             /\ closed' = TRUE
             /\ status_' = "reapable"
             /\ UNCHANGED <<ears, mouth, reaped>>

(* ... or closing it throws, which leaves everything behind it undone. *)
Jam == /\ mouth = "busy"
       /\ mouth' = "jammed"
       /\ UNCHANGED <<status_, ears, closed, reaped>>

(* Commands are received until a read fails, which is forever. *)
Receive == /\ status_ = "connected"
           /\ ears = "none"
           /\ ears' = "open"
           /\ UNCHANGED <<status_, mouth, closed, reaped>>

ReceiveError == /\ ears = "open"
                /\ ears' = "shut"
                /\ status_' = "disconnected"
                /\ UNCHANGED <<mouth, closed, reaped>>

Reap == /\ status_ = "reapable"
        /\ reaped' = TRUE
        /\ UNCHANGED <<status_, ears, mouth, closed>>

Next == /\ ~reaped
        /\ \/ Accept \/ Refuse
           \/ Send \/ Sent \/ SendError \/ Jam
           \/ Receive \/ ReceiveError
           \/ Reap

Spec == Init /\ [][Next]_vars

=============================================================================
