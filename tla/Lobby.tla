------------------------------- MODULE Lobby --------------------------------
(***************************************************************************)
(* tlobby, the server: the list of its sessions, the one listening session *)
(* at its back, the commands that log users in and create games, and the   *)
(* session reaper.                                                         *)
(*                                                                         *)
(* Threads threads run the io_service. The handlers of one session run in  *)
(* its strand, one at a time; handlers of different sessions and the       *)
(* reaper run concurrently when there is more than one thread, and nothing *)
(* guards the list of sessions and the list of games against that. A       *)
(* handler is split where another thread can observe or disturb it; a walk *)
(* over the list of sessions and an insertion into it are single steps.    *)
(***************************************************************************)
EXTENDS Integers, Sequences, SequencesExt, FiniteSets

CONSTANTS Sessions,           \* bound: the session objects ever created
          UserIds,            \* the names users log in with
          GameIds,            \* the names of games
          NoName,             \* the empty string, the id before logging in
          Threads,            \* tconfiguration::threads
          Faulty              \* bound: the sessions whose connection can fail

ASSUME SessionsAssumption == IsFiniteSet(Sessions)
ASSUME NoNameAssumption == NoName \notin UserIds
ASSUME FaultyAssumption == Faulty \subseteq Sessions
ASSUME ThreadsAssumption == Threads \in Nat /\ Threads >= 1

VARIABLES
  sessions_,                  \* the list of sessions
  games_,                     \* the list of games, their id and game master
  accepting,                  \* sessions with an outstanding accept
  acceptFailed,               \* history: an accept failed
  reaper,                     \* position of the reaper, 0 when it sleeps
  (* Per session: *)
  pc,                         \* the next step of its running handler
  name,                       \* the argument of its command
  slot,                       \* where its push_back will store the game
  mode_, id_,                 \* its members
  receive_handler_,           \* "lobby" or "game", whose handler it calls
  status_, ears, mouth, closed, freed   \* its connection, see Connection

listVars == <<sessions_, games_, accepting, acceptFailed, reaper>>
runVars == <<pc, name, slot>>
userVars == <<mode_, id_, receive_handler_>>
peerVars == <<status_, ears, mouth, closed, freed>>
vars == <<listVars, runVars, userVars, peerVars>>

-----------------------------------------------------------------------------

Listed == {sessions_[i] : i \in DOMAIN sessions_}
Back == sessions_[Len(sessions_)]
Fresh == Sessions \ (Listed \cup {s \in Sessions : freed[s]})

(* tlobby::run: a first session listens and the reaper waits. *)
Init ==
  /\ \E s \in Sessions : sessions_ = <<s>> /\ accepting = {s}
  /\ games_ = <<>>
  /\ acceptFailed = FALSE
  /\ reaper = 0
  /\ pc = [s \in Sessions |-> "idle"]
  /\ name = [s \in Sessions |-> NoName]
  /\ slot = [s \in Sessions |-> 0]
  /\ mode_ = [s \in Sessions |-> "connected"]
  /\ id_ = [s \in Sessions |-> NoName]
  /\ receive_handler_ = [s \in Sessions |-> "lobby"]
  /\ status_ = [s \in Sessions |-> "wait_for_connection"]
  /\ ears = [s \in Sessions |-> "none"]
  /\ mouth = [s \in Sessions |-> "quiet"]
  /\ closed = [s \in Sessions |-> FALSE]
  /\ freed = [s \in Sessions |-> FALSE]

-----------------------------------------------------------------------------
(* Scheduling.                                                             *)

Running == {s \in Listed : pc[s] # "idle"}
ThreadFree == Cardinality(Running) + (IF reaper = 0 THEN 0 ELSE 1) < Threads

(* The io_service can run a handler of s; the handler of s is at a step. *)
CanRun(s) == s \in Listed /\ pc[s] = "idle" /\ ThreadFree
At(s, step) == s \in Listed /\ pc[s] = step

GoTo(s, step) == pc' = [pc EXCEPT ![s] = step] /\ UNCHANGED <<name, slot>>

(* A handler returns, and its locals are gone. *)
Return(s) ==
  /\ pc' = [pc EXCEPT ![s] = "idle"]
  /\ name' = [name EXCEPT ![s] = NoName]
  /\ slot' = [slot EXCEPT ![s] = 0]

(* A command with an argument is parsed and dispatched. *)
Call(s, step, names) ==
  /\ pc' = [pc EXCEPT ![s] = step]
  /\ \E n \in names : name' = [name EXCEPT ![s] = n]
  /\ UNCHANGED slot

(* session.send: the message is queued, unless nothing is sent any more. *)
Send(s) == mouth' = [mouth EXCEPT ![s] = IF @ = "quiet" THEN "busy" ELSE @]

-----------------------------------------------------------------------------
(* Accepting connections.                                                  *)

(* session_accept_handler without an error calls tlobby::accept_handler.   *)
(* Connections are accepted while there are sessions left to create.       *)
AcceptSucceeds(s) ==
  /\ s \in accepting
  /\ CanRun(s)
  /\ Fresh # {}
  /\ accepting' = accepting \ {s}
  /\ GoTo(s, "set_status")
  /\ UNCHANGED <<sessions_, games_, acceptFailed, reaper, userVars, peerVars>>

(* Mutant: the error is only logged. *)
AcceptFailsIgnored(s) ==
  /\ s \in Faulty
  /\ s \in accepting
  /\ CanRun(s)
  /\ accepting' = accepting \ {s}
  /\ acceptFailed' = TRUE
  /\ UNCHANGED <<sessions_, games_, reaper, runVars, userVars, peerVars>>

(* With an error it makes the session reapable and returns: tlobby's       *)
(* handler, and the listen() at its end, are not reached.                  *)
AcceptFails(s) ==
  /\ s \in Faulty
  /\ s \in accepting
  /\ CanRun(s)
  /\ accepting' = accepting \ {s}
  /\ acceptFailed' = TRUE
  /\ status_' = [status_ EXCEPT ![s] = "reapable"]
  /\ UNCHANGED <<sessions_, games_, reaper, runVars, userVars, ears, mouth,
                 closed, freed>>

(* The lines of accept_handler, each of which takes the back anew. *)
SetStatus(s) ==
  /\ At(s, "set_status")
  /\ status_' = [status_ EXCEPT ![Back] = "connected"]
  /\ GoTo(s, "welcome")
  /\ UNCHANGED <<listVars, userVars, ears, mouth, closed, freed>>

Welcome(s) ==
  /\ At(s, "welcome")
  /\ Send(Back)
  /\ GoTo(s, "receive")
  /\ UNCHANGED <<listVars, userVars, status_, ears, closed, freed>>

Receive(s) ==
  /\ At(s, "receive")
  /\ ears' = [ears EXCEPT ![Back] = "open"]
  /\ GoTo(s, "create_session")
  /\ UNCHANGED <<listVars, userVars, status_, mouth, closed, freed>>

(* Mutant: the new session is inserted at the front. *)
CreateSessionFront(s) ==
  /\ At(s, "create_session")
  /\ \E t \in Fresh : sessions_' = <<t>> \o sessions_
  /\ GoTo(s, "listen")
  /\ UNCHANGED <<games_, accepting, acceptFailed, reaper, userVars, peerVars>>

CreateSession(s) ==
  /\ At(s, "create_session")
  /\ \E t \in Fresh : sessions_' = Append(sessions_, t)
  /\ GoTo(s, "listen")
  /\ UNCHANGED <<games_, accepting, acceptFailed, reaper, userVars, peerVars>>

(* Mutant: the handler returns without listening. *)
ListenDropped(s) ==
  /\ At(s, "listen")
  /\ Return(s)
  /\ UNCHANGED <<listVars, userVars, peerVars>>

Listen(s) ==
  /\ At(s, "listen")
  /\ accepting' = accepting \cup {Back}
  /\ Return(s)
  /\ UNCHANGED <<sessions_, games_, acceptFailed, reaper, userVars, peerVars>>

-----------------------------------------------------------------------------
(* Executing commands.                                                     *)

(* A command other than the two below: it is answered, or empty. *)
Answer(s) ==
  /\ CanRun(s)
  /\ ears[s] = "open"
  /\ Send(s)
  /\ UNCHANGED <<listVars, runVars, userVars, status_, ears, closed, freed>>

(* execute_connected calls user() for `user <id>', the id maybe empty. *)
CommandUser(s) ==
  /\ CanRun(s)
  /\ ears[s] = "open"
  /\ receive_handler_[s] = "lobby" /\ mode_[s] = "connected"
  /\ Call(s, "user_check", UserIds \cup {NoName})
  /\ UNCHANGED <<listVars, userVars, peerVars>>

(* Mutant: only the newest session is asked. *)
UserTakenBack(u) == id_[Back] = u

(* Every session is asked for its id, the one that logs in included. *)
UserTaken(u) == \E t \in Listed : id_[t] = u

UserCheck(s) ==
  /\ At(s, "user_check")
  /\ IF UserTaken(name[s]) THEN Send(s) /\ Return(s)
                           ELSE GoTo(s, "user_set") /\ UNCHANGED mouth
  /\ UNCHANGED <<listVars, userVars, status_, ears, closed, freed>>

UserSet(s) ==
  /\ At(s, "user_set")
  /\ id_' = [id_ EXCEPT ![s] = name[s]]
  /\ mode_' = [mode_ EXCEPT ![s] = "lobby"]
  /\ Send(s)
  /\ Return(s)
  /\ UNCHANGED <<listVars, receive_handler_, status_, ears, closed, freed>>

(* execute_lobby calls game_create() for `game create <id>'. *)
CommandGameCreate(s) ==
  /\ CanRun(s)
  /\ ears[s] = "open"
  /\ receive_handler_[s] = "lobby" /\ mode_[s] = "lobby"
  /\ Call(s, "game_check", GameIds)
  /\ UNCHANGED <<listVars, userVars, peerVars>>

GameTaken(g) == \E i \in DOMAIN games_ : games_[i].id = g

(* Mutant: the session is switched to the game before the check. *)
GameCheckLate(s) ==
  /\ At(s, "game_check")
  /\ IF GameTaken(name[s]) THEN Send(s) /\ Return(s)
                           ELSE GoTo(s, "game_reserve") /\ UNCHANGED mouth
  /\ mode_' = [mode_ EXCEPT ![s] = "creating_game"]
  /\ receive_handler_' = [receive_handler_ EXCEPT ![s] = "game"]
  /\ UNCHANGED <<listVars, id_, status_, ears, closed, freed>>

GameCheck(s) ==
  /\ At(s, "game_check")
  /\ IF GameTaken(name[s]) THEN Send(s) /\ Return(s)
                           ELSE GoTo(s, "game_enter") /\ UNCHANGED mouth
  /\ UNCHANGED <<listVars, userVars, status_, ears, closed, freed>>

(* The constructor of tgame takes the session over ... *)
GameEnter(s) ==
  /\ At(s, "game_enter")
  /\ mode_' = [mode_ EXCEPT ![s] = "creating_game"]
  /\ receive_handler_' = [receive_handler_ EXCEPT ![s] = "game"]
  /\ Send(s)
  /\ GoTo(s, "game_reserve")
  /\ UNCHANGED <<listVars, id_, status_, ears, closed, freed>>

(* ... before games_.push_back(), which finds the end of the vector and    *)
(* stores the game there; two of them at a time can overwrite each other.  *)
(* That can move the end back, and a game stored behind it brings to life  *)
(* whatever is there: undefined, and not explored.                         *)
GameReserve(s) ==
  /\ At(s, "game_reserve")
  /\ pc' = [pc EXCEPT ![s] = "game_store"]
  /\ slot' = [slot EXCEPT ![s] = Len(games_) + 1]
  /\ UNCHANGED <<listVars, name, userVars, peerVars>>

GameStore(s) ==
  /\ At(s, "game_store")
  /\ slot[s] <= Len(games_) + 1
  /\ games_' = Append(SubSeq(games_, 1, slot[s] - 1), [id |-> name[s], gm |-> s])
  /\ Return(s)
  /\ UNCHANGED <<sessions_, accepting, acceptFailed, reaper, userVars, peerVars>>

-----------------------------------------------------------------------------
(* The connection of a session, see Session.                               *)

Sent(s) ==
  /\ CanRun(s)
  /\ mouth[s] = "busy"
  /\ mouth' = [mouth EXCEPT ![s] = "quiet"]
  /\ UNCHANGED <<listVars, runVars, userVars, status_, ears, closed, freed>>

(* Mutant: a closed session gets a status of its own. *)
SendFailsOwnStatus(s) ==
  /\ s \in Faulty
  /\ CanRun(s)
  /\ mouth[s] = "busy"
  /\ ~closed[s]
  /\ closed' = [closed EXCEPT ![s] = TRUE]
  /\ status_' = [status_ EXCEPT ![s] = "closed"]
  /\ GoTo(s, "sending")
  /\ UNCHANGED <<listVars, userVars, ears, mouth, freed>>

(* session_send_handler with an error closes the socket and makes the      *)
(* session reapable, for the reaper to see ...                             *)
SendFails(s) ==
  /\ s \in Faulty
  /\ CanRun(s)
  /\ mouth[s] = "busy"
  /\ ~closed[s]
  /\ closed' = [closed EXCEPT ![s] = TRUE]
  /\ status_' = [status_ EXCEPT ![s] = "reapable"]
  /\ GoTo(s, "sending")
  /\ UNCHANGED <<listVars, userVars, ears, mouth, freed>>

(* ... before it returns to the sender, which goes on with what is queued. *)
(* When the session is erased in between that runs on a dead object:       *)
(* undefined, and not explored.                                            *)
SendGoesOn(s) ==
  /\ At(s, "sending")
  /\ \E m \in {"quiet", "busy"} : mouth' = [mouth EXCEPT ![s] = m]
  /\ Return(s)
  /\ UNCHANGED <<listVars, userVars, status_, ears, closed, freed>>

(* Or it fails to close the socket, and nothing is sent any more. *)
CloseThrows(s) ==
  /\ s \in Faulty
  /\ CanRun(s)
  /\ mouth[s] = "busy"
  /\ mouth' = [mouth EXCEPT ![s] = "jammed"]
  /\ UNCHANGED <<listVars, runVars, userVars, status_, ears, closed, freed>>

(* Mutant: the receiver goes on after an error. *)
ReceiveFailsGoesOn(s) ==
  /\ s \in Faulty
  /\ CanRun(s)
  /\ ears[s] = "open"
  /\ status_' = [status_ EXCEPT ![s] = "disconnected"]
  /\ UNCHANGED <<listVars, runVars, userVars, ears, mouth, closed, freed>>

ReceiveFails(s) ==
  /\ s \in Faulty
  /\ CanRun(s)
  /\ ears[s] = "open"
  /\ ears' = [ears EXCEPT ![s] = "shut"]
  /\ status_' = [status_ EXCEPT ![s] = "disconnected"]
  /\ UNCHANGED <<listVars, runVars, userVars, mouth, closed, freed>>

-----------------------------------------------------------------------------
(* The session reaper.                                                     *)

(* Mutant: the walk starts behind the first session. *)
ReaperWakesBehind ==
  /\ reaper = 0
  /\ ThreadFree
  /\ reaper' = 2
  /\ UNCHANGED <<sessions_, games_, accepting, acceptFailed, runVars, userVars,
                 peerVars>>

(* wait_handler: the timer expired, reap() starts at the begin. *)
ReaperWakes ==
  /\ reaper = 0
  /\ ThreadFree
  /\ reaper' = 1
  /\ UNCHANGED <<sessions_, games_, accepting, acceptFailed, runVars, userVars,
                 peerVars>>

(* A reapable session is erased, the iterator is at its successor. *)
ReaperErases ==
  LET s == sessions_[reaper] IN
  /\ reaper \in DOMAIN sessions_
  /\ status_[s] = "reapable"
  /\ sessions_' = RemoveAt(sessions_, reaper)
  /\ freed' = [freed EXCEPT ![s] = TRUE]
  /\ UNCHANGED <<games_, accepting, acceptFailed, reaper, runVars, userVars,
                 status_, ears, mouth, closed>>

ReaperSkips ==
  /\ reaper \in DOMAIN sessions_
  /\ status_[sessions_[reaper]] # "reapable"
  /\ reaper' = reaper + 1
  /\ UNCHANGED <<sessions_, games_, accepting, acceptFailed, runVars, userVars,
                 peerVars>>

(* At the end the timer is started again. *)
ReaperSleeps ==
  /\ reaper > Len(sessions_)
  /\ reaper' = 0
  /\ UNCHANGED <<sessions_, games_, accepting, acceptFailed, runVars, userVars,
                 peerVars>>

-----------------------------------------------------------------------------

Accepting(s) == AcceptSucceeds(s) \/ AcceptFails(s)
AcceptHandler(s) ==
  SetStatus(s) \/ Welcome(s) \/ Receive(s) \/ CreateSession(s) \/ Listen(s)
Command(s) == Answer(s) \/ CommandUser(s) \/ CommandGameCreate(s)
Executing(s) ==
  UserCheck(s) \/ UserSet(s)
    \/ GameCheck(s) \/ GameEnter(s) \/ GameReserve(s) \/ GameStore(s)
Peer(s) == Sent(s) \/ CloseThrows(s) \/ ReceiveFails(s)
Failing(s) == SendFails(s) \/ SendGoesOn(s)
Reaping == ReaperErases \/ ReaperSkips \/ ReaperSleeps

Next ==
  \/ \E s \in Sessions : \/ Accepting(s) \/ AcceptHandler(s)
                         \/ Command(s) \/ Executing(s)
                         \/ Peer(s) \/ Failing(s)
  \/ ReaperWakes
  \/ Reaping

Spec == Init /\ [][Next]_vars

(* A running handler proceeds; the expired timer gets its turn, for the    *)
(* io_service serves its handlers in order of their arrival.               *)
Fairness ==
  /\ \A s \in Sessions :
       WF_vars(AcceptHandler(s) \/ Executing(s) \/ SendGoesOn(s))
  /\ SF_vars(ReaperWakes)
  /\ WF_vars(Reaping)

FairSpec == Spec /\ Fairness

-----------------------------------------------------------------------------
(* Properties.                                                             *)

AcceptSteps == {"set_status", "welcome", "receive", "create_session"}
PcStates == {"idle", "listen", "user_check", "user_set", "game_check",
             "game_enter", "game_reserve", "game_store", "sending"}
              \cup AcceptSteps
Game == [id : GameIds, gm : Sessions]

(* The variables have the types of lobby.hpp and session.hpp. *)
TypeOK ==
  /\ sessions_ \in Seq(Sessions)
  /\ games_ \in Seq(Game)
  /\ accepting \subseteq Sessions
  /\ acceptFailed \in BOOLEAN
  /\ reaper \in Nat
  /\ pc \in [Sessions -> PcStates]
  /\ name \in [Sessions -> UserIds \cup GameIds \cup {NoName}]
  /\ slot \in [Sessions -> Nat]
  /\ mode_ \in [Sessions -> {"connected", "lobby", "creating_game"}]
  /\ id_ \in [Sessions -> UserIds \cup {NoName}]
  /\ receive_handler_ \in [Sessions -> {"lobby", "game"}]
  /\ status_ \in [Sessions -> {"wait_for_connection", "connected",
                               "disconnected", "reapable"}]
  /\ ears \in [Sessions -> {"none", "open", "shut"}]
  /\ mouth \in [Sessions -> {"quiet", "busy", "jammed"}]
  /\ closed \in [Sessions -> BOOLEAN]
  /\ freed \in [Sessions -> BOOLEAN]

AcceptHandlers == {s \in Listed : pc[s] \in AcceptSteps}
Listeners == {s \in Listed : pc[s] = "listen"}

(* accept_handler is bound to the lobby only and takes sessions_.back() to *)
(* be the session that was accepted, line after line, while the reaper and *)
(* other handlers change the list. So it is: what listens, and what an     *)
(* accept handler runs for, is the back until a new session is appended,   *)
(* which then is one that waits for its connection.                        *)
AcceptsBack ==
  /\ \A s \in accepting \cup AcceptHandlers : s \in Listed /\ s = Back
  /\ Listeners # {} => status_[Back] = "wait_for_connection"
  /\ Cardinality(accepting) + Cardinality(AcceptHandlers \cup Listeners) <= 1

(* The server listens, or is about to, until an accept fails: there is no  *)
(* other way in which it stops to take connections. And no session waits   *)
(* for a connection that will never come: it listens, or the accept        *)
(* handler that will make it listen, or has it, is running.                *)
ListenLoop ==
  /\ accepting = {} => acceptFailed \/ AcceptHandlers \cup Listeners # {}
  /\ \A s \in Listed : status_[s] = "wait_for_connection" =>
       \/ s \in accepting
       \/ pc[s] = "set_status"
       \/ s = Back /\ Listeners # {}

(* Users and games are to have names of their own, but between the check   *)
(* of a name and its use another thread can make the same check: at most   *)
(* as many share a name as there are threads, for all who share it passed  *)
(* the check before the first of them used it. One thread keeps them       *)
(* unique. For games that holds also when one push_back undoes another.    *)
Sharers ==
  /\ \A u \in UserIds : Cardinality({s \in Listed : id_[s] = u}) <= Threads
  /\ \A g \in GameIds :
       Cardinality({i \in DOMAIN games_ : games_[i].id = g}) <= Threads

(* Three members of a session and the list of games tell the same story: a *)
(* session is out of the state connected just when it has an id, its       *)
(* commands go to the game just when it is creating one (so neither        *)
(* handler gets a command for a mode it fails on), and with a single       *)
(* thread one that has become game master has just one game in the list,   *)
(* although this is announced to the client before the game is stored.     *)
ModesMatch ==
  \A s \in Listed :
    /\ mode_[s] = "connected" <=> id_[s] = NoName
    /\ mode_[s] = "creating_game" <=> receive_handler_[s] = "game"
    /\ mode_[s] = "creating_game" /\ pc[s] = "idle" =>
         Cardinality({i \in DOMAIN games_ : games_[i].gm = s}) = 1

(* After each connection the server listens for the next one. *)
ListensAgain == AcceptHandlers # {} ~> accepting # {}

(* A session whose accept failed is destroyed. *)
RefusedIsReaped ==
  \A s \in Sessions :
    status_[s] = "reapable" /\ ears[s] = "none" ~> freed[s]

Conn(s) == INSTANCE Connection
  WITH status_ <- status_[s], ears <- ears[s], mouth <- mouth[s],
       closed <- closed[s], reaped <- freed[s]

(* What the lobby does to the connection of each of its sessions is what   *)
(* Connection allows, and so what Session implements.                      *)
ImplementsConnections ==
  /\ \A s \in Sessions : Conn(s)!Init
  /\ [][\A s \in Sessions : Conn(s)!Next \/ UNCHANGED Conn(s)!vars]_vars

=============================================================================
