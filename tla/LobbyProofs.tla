---------------------------- MODULE LobbyProofs -----------------------------
(***************************************************************************)
(* Theorems about Lobby, for any number of sessions, names and threads.    *)
(***************************************************************************)
EXTENDS Lobby, FiniteSetTheorems, SequenceTheorems, TLAPS

-----------------------------------------------------------------------------
(* The inductive invariants.                                               *)

Waits(s) == status_[s] = "wait_for_connection"

(* No session is listed twice, and none that was erased. *)
ListInv ==
  /\ \A i, j \in DOMAIN sessions_ : sessions_[i] = sessions_[j] => i = j
  /\ \A s \in Listed : ~freed[s]

UserSteps == {"user_check", "user_set"}
GameSteps == {"game_check", "game_enter", "game_reserve", "game_store"}

(* A session by itself: what it is before its connection is there, and     *)
(* what its members are while a handler is at each of its steps.           *)
SessionInv(s) ==
  /\ s \notin Listed /\ ~freed[s] => Waits(s) /\ pc[s] = "idle"
  /\ Waits(s) => /\ ears[s] = "none" /\ mouth[s] = "quiet" /\ ~closed[s]
                 /\ mode_[s] = "connected"
  /\ mode_[s] = "connected" <=> id_[s] = NoName
  /\ mode_[s] = "creating_game" <=> receive_handler_[s] = "game"
  /\ pc[s] \in {"welcome", "receive", "create_session", "listen"} =>
       status_[s] = "connected" /\ mode_[s] = "connected"
  /\ pc[s] \in {"welcome", "receive"} => ears[s] = "none"
  /\ pc[s] \in UserSteps \cup GameSteps => ears[s] # "none"
  /\ pc[s] \in UserSteps => mode_[s] = "connected"
  /\ pc[s] = "user_check" => name[s] \in UserIds \cup {NoName}
  /\ pc[s] = "user_set" => name[s] \in UserIds
  /\ pc[s] \in {"game_check", "game_enter"} => mode_[s] = "lobby"
  /\ pc[s] \in {"game_reserve", "game_store"} => mode_[s] = "creating_game"
  /\ pc[s] \in GameSteps => name[s] \in GameIds
  /\ pc[s] = "game_store" => slot[s] >= 1
  /\ pc[s] = "sending" => mouth[s] = "busy"

(* What accepts, or runs an accept handler. *)
Accepts(s) == s \in Listed /\ pc[s] \in AcceptSteps
Listens(s) == s \in Listed /\ pc[s] = "listen"

(* Either the back of the list listens, or one accept handler runs, which  *)
(* runs for the back until it appends a new session.                       *)
AcceptInv ==
  /\ \A s \in accepting : s \in Listed /\ s = Back /\ Waits(s) /\ pc[s] = "idle"
  /\ \A s \in Sessions : Accepts(s) => s = Back
  /\ \A s \in Sessions : Accepts(s) /\ pc[s] = "set_status" => Waits(s)
  /\ \A s \in Sessions : Listens(s) =>
       Back \in Listed /\ Waits(Back) /\ pc[Back] = "idle"
  /\ \A s, t \in Sessions :
       (Accepts(s) \/ Listens(s)) /\ (Accepts(t) \/ Listens(t)) => s = t
  /\ accepting # {} => \A s \in Sessions : ~Accepts(s) /\ ~Listens(s)
  /\ accepting = {} =>
       acceptFailed \/ \E s \in Sessions : Accepts(s) \/ Listens(s)
  /\ \A s \in Listed : Waits(s) =>
       \/ s \in accepting
       \/ pc[s] = "set_status"
       \/ s = Back /\ \E t \in Sessions : Listens(t)

LobbyInv ==
  /\ TypeOK
  /\ ListInv
  /\ \A s \in Sessions : SessionInv(s)
  /\ AcceptInv

(* No more handlers run than there are threads. *)
ThreadInv == Cardinality(Running) + (IF reaper = 0 THEN 0 ELSE 1) <= Threads

(* Those who have a name, and those who passed its check.                  *)
Claims(u) ==
  {s \in Listed : id_[s] = u \/ (pc[s] = "user_set" /\ name[s] = u)}
Places(g) == {i \in DOMAIN games_ : games_[i].id = g}
Makers(g) ==
  {s \in Listed : /\ pc[s] \in {"game_enter", "game_reserve", "game_store"}
                  /\ name[s] = g}

ShareInv ==
  /\ \A u \in UserIds : Cardinality(Claims(u)) <= Threads
  /\ \A g \in GameIds :
       Cardinality(Places(g)) + Cardinality(Makers(g)) <= Threads

(* With one thread nobody comes between the check and the use, and a game  *)
(* master has one game once the handler that makes it has stored it.       *)
Storing == {"game_reserve", "game_store"}
Mastered(s) == {i \in DOMAIN games_ : games_[i].gm = s}

MasterInv ==
  \A s \in Sessions :
    /\ At(s, "game_store") => slot[s] = Len(games_) + 1
    /\ Mastered(s) = {} \/ \E i \in DOMAIN games_ : Mastered(s) = {i}
    /\ mode_[s] # "creating_game" => Mastered(s) = {}
    /\ pc[s] \in Storing => Mastered(s) = {}
    /\ mode_[s] = "creating_game" /\ pc[s] \notin Storing => Mastered(s) # {}

-----------------------------------------------------------------------------
(* The list of sessions, as a set and a back.                              *)

LEMMA ListKept ==
  ASSUME UNCHANGED sessions_
  PROVE  Listed' = Listed /\ Back' = Back
BY DEF Listed, Back

LEMMA ListedAreSessions ==
  ASSUME sessions_ \in Seq(Sessions)
  PROVE  Listed \subseteq Sessions /\ IsFiniteSet(Listed)
<1>1. Listed \subseteq Sessions
  BY DEF Listed
<1> QED BY <1>1, SessionsAssumption, FS_Subset

LEMMA BackIsListed ==
  ASSUME sessions_ \in Seq(Sessions), NEW s \in Listed
  PROVE  Back \in Listed
<1>1. Len(sessions_) \in DOMAIN sessions_
  BY DEF Listed
<1> QED BY <1>1 DEF Listed, Back

LEMMA ListGrows ==
  ASSUME sessions_ \in Seq(Sessions), ListInv, NEW t \in Fresh,
         sessions_' = Append(sessions_, t)
  PROVE  /\ sessions_' \in Seq(Sessions)
         /\ t \in Sessions /\ t \notin Listed /\ ~freed[t]
         /\ Listed' = Listed \cup {t} /\ Back' = t
         /\ \A i, j \in DOMAIN sessions_' : sessions_'[i] = sessions_'[j] => i = j
<1>1. t \in Sessions /\ t \notin Listed /\ ~freed[t]
  BY DEF Fresh
<1>2. /\ sessions_' \in Seq(Sessions)
      /\ Len(sessions_') = Len(sessions_) + 1
      /\ DOMAIN sessions_' = 1 .. Len(sessions_) + 1
      /\ DOMAIN sessions_ = 1 .. Len(sessions_)
      /\ sessions_'[Len(sessions_) + 1] = t
      /\ \A i \in 1 .. Len(sessions_) : sessions_'[i] = sessions_[i]
  BY <1>1
<1>3. Back' = t
  BY <1>2 DEF Back
<1>4. Listed' = Listed \cup {t}
  BY <1>2 DEF Listed
<1>5. \A i \in 1 .. Len(sessions_) : sessions_[i] # t
  BY <1>1, <1>2 DEF Listed
<1>6. \A i, j \in DOMAIN sessions_' : sessions_'[i] = sessions_'[j] => i = j
  BY <1>2, <1>5 DEF ListInv
<1> QED BY <1>1, <1>2, <1>3, <1>4, <1>6

(* Removing an element moves those behind it one forward.                  *)
LEMMA RemoveAtProperties ==
  ASSUME NEW S, NEW seq \in Seq(S), NEW k \in 1 .. Len(seq)
  PROVE  /\ RemoveAt(seq, k) \in Seq(S)
         /\ Len(RemoveAt(seq, k)) = Len(seq) - 1
         /\ \A i \in 1 .. Len(seq) - 1 : RemoveAt(seq, k)[i] =
              IF i < k THEN seq[i] ELSE seq[i + 1]
<1> DEFINE n == Len(seq)
           before == SubSeq(seq, 1, k - 1)
           behind == SubSeq(seq, k + 1, n)
<1>1. /\ before \in Seq(S) /\ Len(before) = k - 1
      /\ \A i \in 1 .. k - 1 : before[i] = seq[i]
  OBVIOUS
<1>2. /\ behind \in Seq(S) /\ Len(behind) = n - k
      /\ \A i \in 1 .. n - k : behind[i] = seq[k + i]
  OBVIOUS
<1>3. RemoveAt(seq, k) = before \o behind
  BY DEF RemoveAt
<1>4. n \in Nat /\ k \in 1 .. n
  OBVIOUS
<1> HIDE DEF before, behind, n
<1>5. /\ before \o behind \in Seq(S)
      /\ Len(before \o behind) = n - 1
      /\ \A i \in 1 .. n - 1 : (before \o behind)[i] =
           IF i <= k - 1 THEN before[i] ELSE behind[i - (k - 1)]
  <2>1. (k - 1) + (n - k) = n - 1
    BY <1>4
  <2>2. before \in Seq(S) /\ behind \in Seq(S)
    BY <1>1, <1>2
  <2>3. /\ before \o behind \in Seq(S)
        /\ Len(before \o behind) = Len(before) + Len(behind)
        /\ \A i \in 1 .. Len(before) + Len(behind) : (before \o behind)[i] =
             IF i <= Len(before) THEN before[i] ELSE behind[i - Len(before)]
    BY <2>2, ConcatProperties
  <2>4. Len(before) = k - 1 /\ Len(before) + Len(behind) = n - 1
    BY <1>1, <1>2, <2>1
  <2> QED BY <2>3, <2>4
<1>6. ASSUME NEW i \in 1 .. n - 1
      PROVE  (before \o behind)[i] = IF i < k THEN seq[i] ELSE seq[i + 1]
  <2>1. CASE i < k
    <3>1. i \in 1 .. k - 1 /\ i <= k - 1
      BY <1>4, <2>1
    <3> QED BY <1>1, <1>5, <2>1, <3>1
  <2>2. CASE ~(i < k)
    <3>1. /\ i - (k - 1) \in 1 .. n - k /\ ~(i <= k - 1)
          /\ k + (i - (k - 1)) = i + 1
      BY <1>4, <2>2
    <3>2. behind[i - (k - 1)] = seq[k + (i - (k - 1))]
      BY <1>2, <3>1
    <3> QED BY <1>5, <2>2, <3>1, <3>2
  <2> QED BY <2>1, <2>2
<1> QED BY <1>3, <1>5, <1>6 DEF n

LEMMA ListShrinks ==
  ASSUME sessions_ \in Seq(Sessions), ListInv, NEW k \in DOMAIN sessions_,
         sessions_' = RemoveAt(sessions_, k)
  PROVE  /\ sessions_' \in Seq(Sessions)
         /\ sessions_[k] \in Listed
         /\ Listed' = Listed \ {sessions_[k]}
         /\ sessions_[k] # Back => Back' = Back
         /\ \A i, j \in DOMAIN sessions_' : sessions_'[i] = sessions_'[j] => i = j
<1> DEFINE n == Len(sessions_)
           old(i) == IF i < k THEN i ELSE i + 1
<1>1. n \in Nat /\ k \in 1 .. n /\ DOMAIN sessions_ = 1 .. n
  OBVIOUS
<1>2. /\ sessions_' \in Seq(Sessions)
      /\ Len(sessions_') = n - 1
      /\ \A i \in 1 .. n - 1 : sessions_'[i] = sessions_[old(i)]
  BY <1>1, RemoveAtProperties
<1> HIDE DEF n
<1>3. DOMAIN sessions_' = 1 .. n - 1
  BY <1>2
<1>4. \A i \in 1 .. n - 1 : old(i) \in 1 .. n /\ old(i) # k
  BY <1>1
<1>5. \A i, j \in 1 .. n : sessions_[i] = sessions_[j] => i = j
  BY <1>1 DEF ListInv
<1>6. Listed' = Listed \ {sessions_[k]}
  <2>1. ASSUME NEW s \in Listed' PROVE s \in Listed /\ s # sessions_[k]
    <3>1. PICK i \in 1 .. n - 1 : s = sessions_'[i]
      BY <1>3 DEF Listed
    <3>2. s = sessions_[old(i)]
      BY <1>2, <3>1
    <3> QED BY <1>1, <1>4, <1>5, <3>2 DEF Listed
  <2>2. ASSUME NEW s \in Listed, s # sessions_[k] PROVE s \in Listed'
    <3>1. PICK j \in 1 .. n : s = sessions_[j] /\ j # k
      BY <1>1, <2>2 DEF Listed
    <3>2. PICK i \in 1 .. n - 1 : old(i) = j
      <4>1. j < k => j \in 1 .. n - 1 /\ old(j) = j
        BY <1>1, <3>1
      <4>2. j > k => j - 1 \in 1 .. n - 1 /\ old(j - 1) = j
        BY <1>1, <3>1
      <4> QED BY <1>1, <3>1, <4>1, <4>2
    <3>3. s = sessions_'[i]
      BY <1>2, <3>1, <3>2
    <3> QED BY <1>3, <3>3 DEF Listed
  <2> QED BY <2>1, <2>2
<1>7. sessions_[k] # Back => Back' = Back
  <2>1. ASSUME k # n PROVE sessions_'[n - 1] = sessions_[n]
    <3>1. n - 1 \in 1 .. n - 1 /\ old(n - 1) = n
      BY <1>1, <2>1
    <3> QED BY <1>2, <3>1
  <2> QED BY <1>2, <2>1 DEF Back, n
<1>8. ASSUME NEW i \in 1 .. n - 1, NEW j \in 1 .. n - 1,
             sessions_'[i] = sessions_'[j]
      PROVE  i = j
  <2>1. sessions_[old(i)] = sessions_[old(j)]
    BY <1>2, <1>8
  <2>2. old(i) = old(j)
    BY <1>4, <1>5, <2>1
  <2> QED BY <1>1, <2>2
<1>9. sessions_[k] \in Listed
  BY <1>1 DEF Listed
<1> QED BY <1>2, <1>3, <1>6, <1>7, <1>8, <1>9

-----------------------------------------------------------------------------
(* LobbyInv is inductive.                                                  *)

LEMMA LobbyInvInit == Init => LobbyInv
<1> SUFFICES ASSUME Init PROVE LobbyInv
  OBVIOUS
<1>1. PICK b \in Sessions : sessions_ = <<b>> /\ accepting = {b}
  BY DEF Init
<1>2. /\ sessions_ \in Seq(Sessions) /\ Len(sessions_) = 1
      /\ DOMAIN sessions_ = {1} /\ sessions_[1] = b
  BY <1>1
<1>3. Listed = {b} /\ Back = b
  BY <1>2 DEF Listed, Back
<1>4. TypeOK
  <2>1. games_ \in Seq(Game)
    BY DEF Init
  <2>2. accepting \subseteq Sessions
    BY <1>1
  <2>3. pc \in [Sessions -> PcStates]
    BY DEF Init, PcStates
  <2> QED BY <1>2, <2>1, <2>2, <2>3 DEF Init, TypeOK
<1>5. ListInv
  BY <1>2, <1>3 DEF Init, ListInv
<1>6. \A s \in Sessions : SessionInv(s)
  BY DEF Init, SessionInv, Waits, UserSteps, GameSteps
<1>7. AcceptInv
  BY <1>1, <1>3 DEF Init, AcceptInv, Accepts, Listens, Waits, AcceptSteps
<1> QED BY <1>4, <1>5, <1>6, <1>7 DEF LobbyInv

(* A step leaves everything about a session as it is. *)
Same(t) ==
  /\ pc'[t] = pc[t] /\ name'[t] = name[t] /\ slot'[t] = slot[t]
  /\ mode_'[t] = mode_[t] /\ id_'[t] = id_[t]
  /\ receive_handler_'[t] = receive_handler_[t]
  /\ status_'[t] = status_[t] /\ ears'[t] = ears[t] /\ mouth'[t] = mouth[t]
  /\ closed'[t] = closed[t] /\ freed'[t] = freed[t]

(* A step of a session that is connected and runs no accept handler keeps  *)
(* LobbyInv when it keeps what the session itself is like.                 *)
LEMMA LocalStep ==
  ASSUME LobbyInv, TypeOK', NEW s \in Sessions,
         UNCHANGED <<sessions_, accepting, acceptFailed>>, freed'[s] = freed[s],
         \A t \in Sessions \ {s} : Same(t),
         ~Waits(s), ~Waits(s)',
         {pc[s], pc'[s]} \cap (AcceptSteps \cup {"listen"}) = {},
         SessionInv(s)'
  PROVE  LobbyInv'
<1> USE ListKept DEF LobbyInv
<1>1. Listed \subseteq Sessions
  BY ListedAreSessions DEF TypeOK
<1>2. \A t \in Sessions : freed'[t] = freed[t]
  BY DEF Same
<1>3. ListInv'
  BY <1>1, <1>2 DEF ListInv
<1>4. \A t \in Sessions \ {s} : SessionInv(t)'
  BY DEF Same, SessionInv, Waits
<1>5. \A t \in Sessions : /\ Accepts(t)' <=> Accepts(t)
                          /\ Listens(t)' <=> Listens(t)
                          /\ Waits(t)' <=> Waits(t)
                          /\ Waits(t) => pc'[t] = pc[t]
                          /\ pc'[t] = "set_status" <=> pc[t] = "set_status"
  BY DEF Same, Accepts, Listens, Waits, AcceptSteps
<1>6. AcceptInv'
  BY <1>1, <1>5, BackIsListed DEF AcceptInv, Accepts, Listens, TypeOK
<1> QED BY <1>3, <1>4, <1>6

(* The steps of a session that has a client, a handler of which may run.   *)
Local(s) == Command(s) \/ Executing(s) \/ Peer(s) \/ Failing(s)

LEMMA LocalKeeps ==
  ASSUME LobbyInv, NEW s \in Sessions, Local(s)
  PROVE  LobbyInv'
<1>1. TypeOK /\ SessionInv(s)
  BY DEF LobbyInv
<1>2. UNCHANGED <<sessions_, accepting, acceptFailed, reaper, freed>>
  BY DEF Local, Command, Executing, Peer, Failing, Answer, CommandUser,
     CommandGameCreate, UserCheck, UserSet, GameCheck, GameEnter, GameReserve,
     GameStore, Sent, SendFails, SendGoesOn, CloseThrows, ReceiveFails,
     listVars, peerVars
<1>3. s \in Listed
  BY DEF Local, Command, Executing, Peer, Failing, Answer, CommandUser,
     CommandGameCreate, UserCheck, UserSet, GameCheck, GameEnter, GameReserve,
     GameStore, Sent, SendFails, SendGoesOn, CloseThrows, ReceiveFails,
     CanRun, At
<1>4. CASE Command(s)
  <2>1. TypeOK'
    <3>1. CASE Answer(s)
      BY <1>1, <1>2, <3>1 DEF TypeOK, Answer, Send, listVars, runVars, userVars
    <3>2. CASE CommandUser(s)
      BY <1>1, <1>2, <3>2
      DEF TypeOK, CommandUser, Call, listVars, userVars, peerVars, PcStates
    <3>3. CASE CommandGameCreate(s)
      BY <1>1, <1>2, <3>3
      DEF TypeOK, CommandGameCreate, Call, listVars, userVars, peerVars, PcStates
    <3> QED BY <1>4, <3>1, <3>2, <3>3 DEF Command
  <2>2. pc[s] = "idle" /\ ears[s] = "open"
    BY <1>4 DEF Command, Answer, CommandUser, CommandGameCreate, CanRun
  <2>3. pc'[s] \in {"idle", "user_check", "game_check"}
    BY <1>1, <1>4, <2>2 DEF TypeOK, Command, Answer, CommandUser,
       CommandGameCreate, Call, runVars
  <2>4. \A t \in Sessions \ {s} : Same(t)
    BY <1>1, <1>2, <1>4 DEF Same, TypeOK, Command, Answer, CommandUser,
       CommandGameCreate, Call, Send, listVars, userVars, peerVars, runVars
  <2>5. ~Waits(s) /\ ~Waits(s)'
    BY <1>1, <1>4, <2>2 DEF SessionInv, Waits, Command, Answer, CommandUser,
       CommandGameCreate, peerVars
  <2>6. SessionInv(s)'
    BY <1>1, <1>2, <1>3, <1>4, <2>2, <2>5, ListKept
    DEF SessionInv, Waits, TypeOK, Command, Answer, CommandUser,
        CommandGameCreate, Call, Send, listVars, userVars, peerVars, runVars,
        UserSteps, GameSteps
  <2> QED BY <1>2, <2>1, <2>2, <2>3, <2>4, <2>5, <2>6, LocalStep DEF AcceptSteps
<1>5. CASE Peer(s)
  <2>1. TypeOK'
    <3>1. CASE Sent(s) \/ CloseThrows(s)
      <4>1. PICK m \in {"quiet", "jammed"} : mouth' = [mouth EXCEPT ![s] = m]
        BY <3>1 DEF Sent, CloseThrows
      <4>2. UNCHANGED <<listVars, runVars, userVars, status_, ears, closed, freed>>
        BY <3>1 DEF Sent, CloseThrows
      <4> QED BY <1>1, <1>2, <4>1, <4>2 DEF TypeOK, listVars, runVars, userVars
    <3>2. CASE ReceiveFails(s)
      BY <1>1, <1>2, <3>2 DEF TypeOK, ReceiveFails, listVars, runVars, userVars
    <3> QED BY <1>5, <3>1, <3>2 DEF Peer
  <2>2. pc[s] = "idle" /\ pc' = pc /\ ~Waits(s)
    BY <1>1, <1>5 DEF Peer, Sent, CloseThrows, ReceiveFails, CanRun, runVars,
       SessionInv, Waits
  <2>3. \A t \in Sessions \ {s} : Same(t)
    BY <1>1, <1>2, <1>5 DEF Same, TypeOK, Peer, Sent, CloseThrows,
       ReceiveFails, listVars, userVars, peerVars, runVars
  <2>4. ~Waits(s)'
    BY <1>1, <1>5, <2>2 DEF TypeOK, Waits, Peer, Sent, CloseThrows,
       ReceiveFails, peerVars
  <2>5. SessionInv(s)'
    BY <1>1, <1>2, <1>3, <1>5, <2>2, <2>4, ListKept
    DEF SessionInv, Waits, TypeOK, Peer, Sent, CloseThrows, ReceiveFails,
        listVars, userVars, peerVars, runVars, UserSteps, GameSteps
  <2> QED BY <1>2, <2>1, <2>2, <2>3, <2>4, <2>5, LocalStep DEF AcceptSteps
<1>6. CASE Executing(s)
  <2>1. TypeOK'
    <3>1. CASE GameStore(s)
      <4>1. /\ name[s] \in GameIds /\ slot[s] \in Nat /\ slot[s] >= 1
            /\ slot[s] - 1 \in 0 .. Len(games_)
        BY <1>1, <3>1 DEF SessionInv, TypeOK, GameStore, At, GameSteps
      <4>2. games_' \in Seq(Game)
        <5>1. SubSeq(games_, 1, slot[s] - 1) \in Seq(Game)
          BY <1>1, <4>1 DEF TypeOK
        <5>2. [id |-> name[s], gm |-> s] \in Game
          BY <4>1 DEF Game
        <5> QED BY <3>1, <5>1, <5>2, AppendProperties DEF GameStore
      <4> QED BY <1>1, <1>2, <3>1, <4>2
              DEF TypeOK, GameStore, Return, userVars, peerVars, PcStates
    <3>2. CASE UserCheck(s) \/ GameCheck(s)
      <4>1. /\ \/ Send(s) /\ Return(s)
               \/ \E step \in {"user_set", "game_enter"} :
                    GoTo(s, step) /\ UNCHANGED mouth
            /\ UNCHANGED <<games_, userVars, status_, ears, closed>>
        BY <3>2 DEF UserCheck, GameCheck, listVars
      <4>2. /\ pc' \in [Sessions -> PcStates]
            /\ name' \in [Sessions -> UserIds \cup GameIds \cup {NoName}]
            /\ slot' \in [Sessions -> Nat]
            /\ mouth' \in [Sessions -> {"quiet", "busy", "jammed"}]
        <5>1. CASE Send(s) /\ Return(s)
          BY <1>1, <5>1 DEF TypeOK, Send, Return, PcStates
        <5>2. CASE \E step \in {"user_set", "game_enter"} :
                     GoTo(s, step) /\ UNCHANGED mouth
          BY <1>1, <5>2 DEF TypeOK, GoTo, PcStates
        <5> QED BY <4>1, <5>1, <5>2
      <4> QED BY <1>1, <1>2, <4>1, <4>2 DEF TypeOK, userVars
    <3>3. CASE UserSet(s)
      <4>1. name[s] \in UserIds
        BY <1>1, <3>3 DEF UserSet, At, SessionInv
      <4> QED BY <1>1, <1>2, <3>3, <4>1
              DEF TypeOK, UserSet, Return, Send, listVars, PcStates
    <3>4. CASE GameEnter(s)
      BY <1>1, <1>2, <3>4 DEF TypeOK, GameEnter, GoTo, Send, listVars, PcStates
    <3>5. CASE GameReserve(s)
      BY <1>1, <1>2, <3>5
      DEF TypeOK, GameReserve, listVars, userVars, peerVars, PcStates
    <3> QED BY <1>6, <3>1, <3>2, <3>3, <3>4, <3>5 DEF Executing
  <2>2. pc[s] \in UserSteps \cup GameSteps
    BY <1>6 DEF Executing, UserCheck, UserSet, GameCheck, GameEnter,
       GameReserve, GameStore, At, UserSteps, GameSteps
  <2>3. pc'[s] \in {"idle"} \cup UserSteps \cup GameSteps
    BY <1>1, <1>6 DEF TypeOK, Executing, UserCheck, UserSet, GameCheck,
       GameEnter, GameReserve, GameStore, GoTo, Return, UserSteps, GameSteps
  <2>4. \A t \in Sessions \ {s} : Same(t)
    BY <1>1, <1>2, <1>6 DEF Same, TypeOK, Executing, UserCheck, UserSet,
       GameCheck, GameEnter, GameReserve, GameStore, GoTo, Return, Send,
       listVars, userVars, peerVars
  <2>5. ~Waits(s) /\ ~Waits(s)'
    BY <1>1, <1>6, <2>2 DEF SessionInv, Waits, Executing, UserCheck, UserSet,
       GameCheck, GameEnter, GameReserve, GameStore, peerVars
  <2>6. SessionInv(s)'
    <3>1. CASE UserCheck(s)
      <4>1. ~UserTaken(name[s]) => name[s] \in UserIds
        BY <1>1, <1>3, <3>1
        DEF SessionInv, UserTaken, UserCheck, At, UserSteps
      <4> QED BY <1>1, <1>2, <1>3, <2>5, <3>1, <4>1, ListKept
         DEF SessionInv, Waits, TypeOK, UserCheck, At, GoTo, Return,
             Send, userVars, peerVars, UserSteps, GameSteps
    <3>2. CASE UserSet(s) \/ GameCheck(s) \/ GameEnter(s)
      BY <1>1, <1>2, <1>3, <2>5, <3>2, ListKept, NoNameAssumption
         DEF SessionInv, Waits, TypeOK, UserSet, GameCheck, GameEnter, At, GoTo,
             Return, Send, userVars, peerVars, UserSteps, GameSteps
    <3>3. CASE GameReserve(s) \/ GameStore(s)
      BY <1>1, <1>2, <1>3, <2>5, <3>3, ListKept
         DEF SessionInv, Waits, TypeOK, GameReserve, GameStore, At, Return,
             userVars, peerVars, UserSteps, GameSteps
    <3> QED BY <1>6, <3>1, <3>2, <3>3 DEF Executing
  <2> QED BY <1>2, <2>1, <2>2, <2>3, <2>4, <2>5, <2>6, LocalStep
          DEF AcceptSteps, UserSteps, GameSteps
<1>7. CASE Failing(s)
  <2>1. TypeOK'
    <3>1. CASE SendFails(s)
      BY <1>1, <1>2, <3>1 DEF TypeOK, SendFails, GoTo, listVars, userVars, PcStates
    <3>2. CASE SendGoesOn(s)
      BY <1>1, <1>2, <3>2 DEF TypeOK, SendGoesOn, Return, listVars, userVars,
         PcStates
    <3> QED BY <1>7, <3>1, <3>2 DEF Failing
  <2>2. /\ pc[s] \in {"idle", "sending"} /\ pc'[s] \in {"idle", "sending"}
        /\ mouth[s] = "busy"
    BY <1>1, <1>7 DEF Failing, SendFails, SendGoesOn, CanRun, At, GoTo, Return,
       TypeOK, SessionInv
  <2>3. \A t \in Sessions \ {s} : Same(t)
    BY <1>1, <1>2, <1>7 DEF Same, TypeOK, Failing, SendFails, SendGoesOn, GoTo,
       Return, listVars, userVars
  <2>4. ~Waits(s) /\ ~Waits(s)'
    BY <1>1, <1>7, <2>2 DEF SessionInv, Waits, TypeOK, Failing, SendFails,
       SendGoesOn
  <2>5. SessionInv(s)'
    BY <1>1, <1>2, <1>3, <1>7, <2>2, <2>4, ListKept
    DEF SessionInv, Waits, TypeOK, Failing, SendFails, SendGoesOn, At, GoTo,
        Return, listVars, userVars, UserSteps, GameSteps
  <2> QED BY <1>2, <2>1, <2>2, <2>3, <2>4, <2>5, LocalStep DEF AcceptSteps
<1> QED BY <1>4, <1>5, <1>6, <1>7 DEF Local

(* The connection of the session at the back: it is accepted or refused,   *)
(* and its accept handler runs up to the creation of the next session.     *)
LEMMA BackKeeps ==
  ASSUME LobbyInv, NEW s \in Sessions,
         Accepting(s) \/ SetStatus(s) \/ Welcome(s) \/ Receive(s)
  PROVE  LobbyInv'
<1> USE ListKept DEF LobbyInv
<1>1. TypeOK /\ SessionInv(s) /\ Listed \subseteq Sessions
  BY ListedAreSessions DEF TypeOK
<1>2. s \in Listed /\ s = Back
  BY <1>1 DEF Accepting, AcceptSucceeds, AcceptFails, SetStatus, Welcome,
     Receive, At, AcceptInv, Accepts, AcceptSteps
<1>3. UNCHANGED <<sessions_, games_, reaper, name, slot, userVars, closed, freed>>
  BY DEF Accepting, AcceptSucceeds, AcceptFails, SetStatus, Welcome, Receive,
     GoTo, listVars, runVars, peerVars
<1>4. ListInv'
  BY <1>3 DEF ListInv
<1>5. \A t \in Sessions \ {s} : Same(t)
  BY <1>1, <1>2, <1>3 DEF Same, TypeOK, Accepting, AcceptSucceeds, AcceptFails,
     SetStatus, Welcome, Receive, GoTo, Send, userVars, peerVars, runVars
<1>6. \A t \in Sessions \ {s} : SessionInv(t)'
  BY <1>3, <1>5 DEF Same, SessionInv, Waits
<1>7. ASSUME TypeOK', SessionInv(s)', AcceptInv' PROVE LobbyInv'
  BY <1>4, <1>6, <1>7
<1>8. CASE AcceptSucceeds(s)
  <2>1. /\ accepting = {s} /\ accepting' = {} /\ Waits(s)
        /\ pc'[s] = "set_status" /\ status_' = status_
    BY <1>1, <1>2, <1>8
    DEF AcceptSucceeds, AcceptInv, GoTo, TypeOK, peerVars
  <2>2. TypeOK'
    BY <1>1, <1>3, <1>8
    DEF TypeOK, AcceptSucceeds, GoTo, userVars, peerVars, PcStates, AcceptSteps
  <2>3. SessionInv(s)'
    BY <1>1, <1>2, <1>3, <1>8, <2>1 DEF SessionInv, Waits, AcceptSucceeds, userVars,
       peerVars, UserSteps, GameSteps
  <2>4. \A t \in Sessions : ~Accepts(t) /\ ~Listens(t)
    BY <2>1 DEF AcceptInv
  <2>5. AcceptInv'
    BY <1>1, <1>2, <1>3, <1>5, <2>1, <2>4
    DEF AcceptInv, Accepts, Listens, AcceptSteps, Waits, Same
  <2> QED BY <1>7, <2>2, <2>3, <2>5
<1>9. CASE AcceptFails(s)
  <2>1. /\ accepting = {s} /\ accepting' = {} /\ acceptFailed' /\ Waits(s)
        /\ pc' = pc /\ pc[s] = "idle" /\ status_'[s] = "reapable"
        /\ ears' = ears
    BY <1>1, <1>2, <1>9 DEF AcceptFails, AcceptInv, TypeOK, runVars
  <2>2. TypeOK'
    BY <1>1, <1>3, <1>9 DEF TypeOK, AcceptFails, userVars, runVars
  <2>3. SessionInv(s)'
    BY <1>1, <1>2, <1>3, <2>1 DEF SessionInv, Waits, userVars, UserSteps, GameSteps
  <2>4. \A t \in Sessions : ~Accepts(t) /\ ~Listens(t)
    BY <2>1 DEF AcceptInv
  <2>5. AcceptInv'
    BY <1>1, <1>2, <1>3, <1>5, <2>1, <2>4
    DEF AcceptInv, Accepts, Listens, AcceptSteps, Waits, Same
  <2> QED BY <1>7, <2>2, <2>3, <2>5
<1>10. ASSUME SetStatus(s) \/ Welcome(s) \/ Receive(s) PROVE LobbyInv'
  <2>1. /\ pc[s] \in {"set_status", "welcome", "receive"}
        /\ pc'[s] \in {"welcome", "receive", "create_session"}
        /\ status_'[s] = "connected"
        /\ accepting = {} /\ accepting' = {} /\ acceptFailed' = acceptFailed
    <3>1. accepting = {}
      BY <1>2, <1>10 DEF SetStatus, Welcome, Receive, At, AcceptInv, Accepts,
         AcceptSteps
    <3> QED BY <1>1, <1>2, <1>10, <3>1 DEF SetStatus, Welcome, Receive, At, GoTo,
               TypeOK, SessionInv, peerVars, listVars
  <2>2. TypeOK'
    <3>1. CASE SetStatus(s)
      BY <1>1, <1>2, <1>3, <3>1
      DEF TypeOK, SetStatus, GoTo, listVars, userVars, PcStates, AcceptSteps
    <3>2. CASE Welcome(s)
      BY <1>1, <1>2, <1>3, <3>2
      DEF TypeOK, Welcome, Send, GoTo, listVars, userVars, PcStates, AcceptSteps
    <3>3. CASE Receive(s)
      BY <1>1, <1>2, <1>3, <3>3
      DEF TypeOK, Receive, GoTo, listVars, userVars, PcStates, AcceptSteps
    <3> QED BY <1>10, <3>1, <3>2, <3>3
  <2>3. SessionInv(s)'
    BY <1>1, <1>2, <1>3, <1>10, <2>1, NoNameAssumption
    DEF SessionInv, Waits, SetStatus, Welcome, Receive, At, GoTo, TypeOK,
        AcceptInv, Accepts, AcceptSteps, userVars, peerVars, UserSteps, GameSteps
  <2>4. \A t \in Sessions \ {s} : ~Accepts(t) /\ ~Listens(t)
    BY <1>2, <2>1 DEF AcceptInv, Accepts, AcceptSteps
  <2>5. AcceptInv'
    BY <1>1, <1>2, <1>3, <1>5, <2>1, <2>4
    DEF AcceptInv, Accepts, Listens, AcceptSteps, Waits, Same
  <2> QED BY <1>7, <2>2, <2>3, <2>5
<1> QED BY <1>8, <1>9, <1>10 DEF Accepting

(* The next session is created, and listens.                               *)
LEMMA NextListens ==
  ASSUME LobbyInv, NEW s \in Sessions, CreateSession(s) \/ Listen(s)
  PROVE  LobbyInv'
<1> USE DEF LobbyInv
<1>1. TypeOK /\ SessionInv(s) /\ Listed \subseteq Sessions
  BY ListedAreSessions DEF TypeOK
<1>2. CASE CreateSession(s)
  <2>1. PICK t \in Fresh : sessions_' = Append(sessions_, t)
    BY <1>2 DEF CreateSession
  <2>2. /\ sessions_' \in Seq(Sessions)
        /\ t \in Sessions /\ t \notin Listed /\ ~freed[t]
        /\ Listed' = Listed \cup {t} /\ Back' = t
        /\ \A i, j \in DOMAIN sessions_' : sessions_'[i] = sessions_'[j] => i = j
    BY <1>1, <2>1, ListGrows DEF TypeOK
  <2>3. /\ s \in Listed /\ pc[s] = "create_session" /\ pc'[s] = "listen"
        /\ \A r \in Sessions \ {s} : pc'[r] = pc[r]
        /\ UNCHANGED <<games_, accepting, acceptFailed, reaper, userVars,
                       peerVars, name, slot>>
    BY <1>1, <1>2 DEF CreateSession, At, GoTo, TypeOK
  <2>4. s # t
    BY <2>2, <2>3
  <2>5. Waits(t) /\ pc[t] = "idle"
    BY <2>2 DEF SessionInv
  <2>6. TypeOK'
    BY <1>1, <1>2, <2>2, <2>3
    DEF TypeOK, CreateSession, GoTo, userVars, peerVars, PcStates
  <2>7. ListInv'
    BY <2>2, <2>3 DEF ListInv, peerVars
  <2>8. \A r \in Sessions : SessionInv(r)'
    BY <2>2, <2>3, <2>5 DEF SessionInv, Waits, userVars, peerVars, UserSteps,
       GameSteps
  <2>9. /\ accepting = {}
        /\ \A r \in Sessions \ {s} : ~Accepts(r) /\ ~Listens(r)
        /\ \A r \in Listed : ~Waits(r)
    <3>1. Accepts(s)
      BY <2>3 DEF Accepts, AcceptSteps
    <3>2. /\ accepting = {}
          /\ \A r \in Sessions \ {s} : ~Accepts(r) /\ ~Listens(r)
      BY <3>1 DEF AcceptInv
    <3>3. ~Waits(s) /\ ~Listens(s)
      BY <2>3 DEF SessionInv, Waits, Listens
    <3> QED BY <1>1, <3>2, <3>3 DEF AcceptInv, Accepts, AcceptSteps
  <2>10. AcceptInv'
    BY <1>1, <2>2, <2>3, <2>4, <2>5, <2>9
    DEF AcceptInv, Accepts, Listens, AcceptSteps, Waits, peerVars
  <2> QED BY <2>6, <2>7, <2>8, <2>10
<1>3. CASE Listen(s)
  <2>1. /\ s \in Listed /\ pc[s] = "listen" /\ pc'[s] = "idle"
        /\ \A r \in Sessions \ {s} : pc'[r] = pc[r] /\ name'[r] = name[r]
                                     /\ slot'[r] = slot[r]
        /\ accepting' = accepting \cup {Back}
        /\ UNCHANGED <<sessions_, games_, acceptFailed, reaper, userVars,
                       peerVars>>
    BY <1>1, <1>3 DEF Listen, At, Return, TypeOK
  <2>2. /\ Back \in Listed /\ Waits(Back) /\ pc[Back] = "idle"
        /\ accepting = {}
        /\ \A r \in Sessions \ {s} : ~Accepts(r) /\ ~Listens(r)
    BY <1>1, <2>1 DEF AcceptInv, Listens
  <2>3. TypeOK'
    BY <1>1, <1>3, <2>1, <2>2
    DEF TypeOK, Listen, Return, userVars, peerVars, PcStates
  <2>4. ListInv'
    BY <2>1, ListKept DEF ListInv, peerVars
  <2>5. \A r \in Sessions : SessionInv(r)'
    BY <2>1, ListKept DEF SessionInv, Waits, userVars, peerVars, UserSteps,
       GameSteps
  <2>6. AcceptInv'
    BY <1>1, <2>1, <2>2, ListKept
    DEF AcceptInv, Accepts, Listens, AcceptSteps, Waits, peerVars
  <2> QED BY <2>3, <2>4, <2>5, <2>6
<1> QED BY <1>2, <1>3

(* The reaper.                                                             *)
LEMMA ReaperKeeps ==
  ASSUME LobbyInv, ReaperWakes \/ Reaping
  PROVE  LobbyInv'
<1> USE DEF LobbyInv
<1>1. TypeOK /\ Listed \subseteq Sessions
  BY ListedAreSessions DEF TypeOK
<1>2. ASSUME UNCHANGED <<sessions_, accepting, acceptFailed, runVars, userVars,
                         peerVars>>,
             TypeOK'
      PROVE  LobbyInv'
  BY <1>2, ListKept DEF ListInv, SessionInv, AcceptInv, Accepts, Listens, Waits,
     runVars, userVars, peerVars
<1>3. CASE ReaperWakes \/ ReaperSkips \/ ReaperSleeps
  <2>1. TypeOK'
    BY <1>1, <1>3 DEF TypeOK, ReaperWakes, ReaperSkips, ReaperSleeps, runVars,
       userVars, peerVars
  <2> QED BY <1>2, <1>3, <2>1 DEF ReaperWakes, ReaperSkips, ReaperSleeps
<1>4. CASE ReaperErases
  <2> DEFINE s == sessions_[reaper]
  <2>1. /\ sessions_' \in Seq(Sessions)
        /\ s \in Listed
        /\ Listed' = Listed \ {s}
        /\ s # Back => Back' = Back
        /\ \A i, j \in DOMAIN sessions_' : sessions_'[i] = sessions_'[j] => i = j
    BY <1>1, <1>4, ListShrinks DEF ReaperErases, TypeOK
  <2>2. /\ status_[s] = "reapable" /\ freed' = [freed EXCEPT ![s] = TRUE]
        /\ UNCHANGED <<games_, accepting, acceptFailed, reaper, runVars,
                       userVars, status_, ears, mouth, closed>>
    BY <1>4 DEF ReaperErases
  <2> HIDE DEF s
  <2>3. TypeOK'
    BY <1>1, <2>1, <2>2 DEF TypeOK, runVars, userVars
  <2>4. ListInv'
    BY <1>1, <2>1, <2>2 DEF ListInv, TypeOK
  <2>5. \A r \in Sessions : SessionInv(r)'
    BY <1>1, <2>1, <2>2 DEF SessionInv, Waits, runVars, userVars, TypeOK
  <2>6. s \notin accepting
    BY <2>2 DEF AcceptInv, Waits
  <2>7. ASSUME NEW r \in Sessions, Accepts(r) \/ Listens(r)
        PROVE  s # r /\ s # Back
    BY <1>1, <2>2, <2>7 DEF AcceptInv, Accepts, Listens, AcceptSteps, SessionInv, Waits
  <2>8. \A r \in Sessions : /\ Accepts(r)' <=> Accepts(r)
                            /\ Listens(r)' <=> Listens(r)
                            /\ Waits(r)' <=> Waits(r)
    BY <2>1, <2>2, <2>7 DEF Accepts, Listens, Waits, runVars
  <2>9. \A r \in accepting : s # Back
    BY <2>6 DEF AcceptInv
  <2>10. AcceptInv'
    BY <1>1, <2>1, <2>2, <2>6, <2>7, <2>8, <2>9 DEF AcceptInv, runVars
  <2> QED BY <2>3, <2>4, <2>5, <2>10
<1> QED BY <1>3, <1>4 DEF Reaping

LEMMA LobbyInvInductive == LobbyInv /\ [Next]_vars => LobbyInv'
<1> SUFFICES ASSUME LobbyInv, [Next]_vars PROVE LobbyInv'
  OBVIOUS
<1>1. ASSUME NEW s \in Sessions, Accepting(s) \/ AcceptHandler(s) PROVE LobbyInv'
  BY <1>1, BackKeeps, NextListens DEF AcceptHandler
<1>2. ASSUME NEW s \in Sessions,
             Command(s) \/ Executing(s) \/ Peer(s) \/ Failing(s)
      PROVE  LobbyInv'
  BY <1>2, LocalKeeps DEF Local
<1>3. CASE ReaperWakes \/ Reaping
  BY <1>3, ReaperKeeps
<1>4. CASE UNCHANGED vars
  BY <1>4 DEF vars, listVars, runVars, userVars, peerVars, LobbyInv, TypeOK, Listed,
     Back, ListInv, SessionInv, AcceptInv, Accepts, Listens, Waits
<1> QED BY <1>1, <1>2, <1>3, <1>4 DEF Next

LEMMA LobbyInvHolds == Spec => []LobbyInv
BY LobbyInvInit, LobbyInvInductive, PTL DEF Spec

-----------------------------------------------------------------------------
(* The list of sessions and the loop of accepting.                         *)

(* The variables of the lobby and its sessions keep their types, whatever  *)
(* its handlers, its clients and the reaper do, on any number of threads.  *)
THEOREM LobbyTypeCorrect == Spec => []TypeOK
<1>1. LobbyInv => TypeOK
  BY DEF LobbyInv
<1> QED BY <1>1, LobbyInvHolds, PTL

LEMMA AtMostOne ==
  ASSUME NEW S, IsFiniteSet(S), \A x, y \in S : x = y
  PROVE  Cardinality(S) <= 1
<1>1. CASE S = {}
  BY <1>1, FS_EmptySet
<1>2. CASE S # {}
  <2>1. PICK x \in S : S = {x}
    BY <1>2
  <2> QED BY <2>1, FS_Singleton
<1> QED BY <1>1, <1>2

(* What listens, and what an accept handler runs for, is the back of the   *)
(* list, whatever is erased from or appended to it meanwhile.              *)
THEOREM BackIsAccepted == Spec => []AcceptsBack
<1>1. LobbyInv => AcceptsBack
  <2> SUFFICES ASSUME LobbyInv PROVE AcceptsBack
    OBVIOUS
  <2> DEFINE active == AcceptHandlers \cup Listeners
  <2>1. Listed \subseteq Sessions /\ IsFiniteSet(Listed)
    BY ListedAreSessions DEF LobbyInv, TypeOK
  <2>2. active \subseteq Listed /\ accepting \subseteq Listed
    BY DEF AcceptHandlers, Listeners, LobbyInv, AcceptInv
  <2>3. IsFiniteSet(active) /\ IsFiniteSet(accepting)
    BY <2>1, <2>2, FS_Subset
  <2>4. \A s \in accepting \cup AcceptHandlers : s \in Listed /\ s = Back
    BY <2>1 DEF LobbyInv, AcceptInv, AcceptHandlers, Accepts
  <2>5. Listeners # {} => status_[Back] = "wait_for_connection"
    BY <2>1 DEF LobbyInv, AcceptInv, Listeners, Listens, Waits
  <2>6. \A s, t \in accepting : s = t
    BY <2>4
  <2>7. \A s, t \in active : s = t
    BY <2>1 DEF LobbyInv, AcceptInv, AcceptHandlers, Listeners, Accepts, Listens
  <2>8. accepting = {} \/ active = {}
    BY <2>1 DEF LobbyInv, AcceptInv, AcceptHandlers, Listeners, Accepts, Listens
  <2>9. Cardinality(accepting) + Cardinality(active) <= 1
    <3>1. Cardinality(accepting) \in Nat /\ Cardinality(active) \in Nat
      BY <2>3, FS_CardinalityType
    <3>2. Cardinality(accepting) <= 1 /\ Cardinality(active) <= 1
      BY <2>3, <2>6, <2>7, AtMostOne
    <3>3. Cardinality(accepting) = 0 \/ Cardinality(active) = 0
      BY <2>8, FS_EmptySet
    <3> QED BY <3>1, <3>2, <3>3
  <2> QED BY <2>4, <2>5, <2>9 DEF AcceptsBack
<1> QED BY <1>1, LobbyInvHolds, PTL

(* The server listens, or is about to, until an accept fails, and no       *)
(* session waits for a connection that cannot come.                        *)
THEOREM ServerListens == Spec => []ListenLoop
<1>1. LobbyInv => ListenLoop
  <2> SUFFICES ASSUME LobbyInv PROVE ListenLoop
    OBVIOUS
  <2>1. Listed \subseteq Sessions
    BY ListedAreSessions DEF LobbyInv, TypeOK
  <2>2. accepting = {} => acceptFailed \/ AcceptHandlers \cup Listeners # {}
    BY <2>1 DEF LobbyInv, AcceptInv, AcceptHandlers, Listeners, Accepts, Listens
  <2>3. \A s \in Listed : status_[s] = "wait_for_connection" =>
          \/ s \in accepting
          \/ pc[s] = "set_status"
          \/ s = Back /\ Listeners # {}
    BY <2>1 DEF LobbyInv, AcceptInv, Listeners, Listens, Waits
  <2> QED BY <2>2, <2>3 DEF ListenLoop
<1> QED BY <1>1, LobbyInvHolds, PTL

-----------------------------------------------------------------------------
(* The threads.                                                            *)

LEMMA RunningIsFinite ==
  LobbyInv => /\ Running \subseteq Sessions /\ IsFiniteSet(Running)
              /\ Cardinality(Running) \in Nat
BY ListedAreSessions, FS_Subset, FS_CardinalityType DEF Running, LobbyInv, TypeOK

(* The steps that begin a handler, and those that do not.                  *)
Starting(s) ==
  AcceptSucceeds(s) \/ CommandUser(s) \/ CommandGameCreate(s) \/ SendFails(s)

LEMMA OthersStartNothing ==
  ASSUME LobbyInv, [Next]_vars,
         ~ReaperWakes, \A s \in Sessions : ~Starting(s)
  PROVE  Running' \subseteq Running /\ (reaper' = 0 \/ reaper # 0)
<1>1. TypeOK
  BY DEF LobbyInv
<1>2. ASSUME NEW s \in Sessions, AcceptFails(s) \/ Answer(s) \/ Peer(s)
      PROVE  UNCHANGED <<sessions_, pc, reaper>>
  BY <1>2 DEF AcceptFails, Answer, Peer, Sent, CloseThrows, ReceiveFails,
     listVars, runVars
<1>3. ASSUME NEW s \in Sessions, Executing(s) \/ SetStatus(s) \/ Welcome(s)
             \/ Receive(s) \/ Listen(s) \/ SendGoesOn(s)
      PROVE  /\ UNCHANGED <<sessions_, reaper>> /\ pc[s] # "idle"
             /\ \A t \in Sessions \ {s} : pc'[t] = pc[t]
  BY <1>1, <1>3 DEF Executing, UserCheck, UserSet, GameCheck, GameEnter,
     GameReserve, GameStore, SetStatus, Welcome, Receive, Listen, SendGoesOn,
     At, GoTo, Return, listVars, TypeOK
<1>4. ASSUME NEW s \in Sessions, CreateSession(s)
      PROVE  /\ reaper' = reaper /\ pc[s] # "idle"
             /\ \A t \in Sessions \ {s} : pc'[t] = pc[t]
             /\ \A t \in Listed' \ Listed : t \in Sessions /\ t # s /\ pc[t] = "idle"
  <2>1. PICK t \in Fresh : sessions_' = Append(sessions_, t)
    BY <1>4 DEF CreateSession
  <2>2. t \in Sessions /\ t \notin Listed /\ Listed' = Listed \cup {t} /\ ~freed[t]
    BY <1>1, <2>1, ListGrows DEF LobbyInv, TypeOK
  <2>3. pc[t] = "idle"
    BY <2>2 DEF LobbyInv, SessionInv
  <2> QED BY <1>1, <1>4, <2>2, <2>3 DEF CreateSession, At, GoTo, TypeOK
<1>5. CASE Reaping
  <2>1. pc' = pc /\ (reaper' = 0 \/ reaper # 0)
    BY <1>1, <1>5 DEF Reaping, ReaperErases, ReaperSkips, ReaperSleeps, runVars,
       TypeOK
  <2>2. Listed' \subseteq Listed
    BY <1>1, <1>5, ListKept, ListShrinks
    DEF Reaping, ReaperErases, ReaperSkips, ReaperSleeps, LobbyInv, TypeOK
  <2> QED BY <2>1, <2>2 DEF Running
<1>6. CASE UNCHANGED vars
  BY <1>6, ListKept DEF vars, listVars, runVars, Running
<1>7. Listed \subseteq Sessions
  BY <1>1, ListedAreSessions DEF TypeOK
<1>8. ASSUME NEW s \in Sessions,
             \/ AcceptFails(s) \/ AcceptHandler(s) \/ Answer(s) \/ Executing(s)
             \/ Peer(s) \/ SendGoesOn(s)
      PROVE  Running' \subseteq Running /\ (reaper' = 0 \/ reaper # 0)
  <2>1. CASE CreateSession(s)
    <3>1. \A t \in Running' : t \in Running
      BY <1>4, <1>7, <2>1 DEF Running, CreateSession, At
    <3> QED BY <1>4, <2>1, <3>1
  <2>2. CASE ~CreateSession(s)
    BY <1>2, <1>3, <1>7, <1>8, <2>2, ListKept DEF Running, AcceptHandler
  <2> QED BY <2>1, <2>2
<1> QED BY <1>5, <1>6, <1>8 DEF Next, Accepting, Command, Failing, Starting

LEMMA ThreadInvInductive ==
  ASSUME LobbyInv, LobbyInv', ThreadInv, [Next]_vars
  PROVE  ThreadInv'
<1>1. /\ IsFiniteSet(Running) /\ Cardinality(Running) \in Nat
      /\ IsFiniteSet(Running') /\ Cardinality(Running') \in Nat
  <2>1. Running' \subseteq Sessions
    BY DEF Running, Listed, LobbyInv, TypeOK
  <2> QED BY <2>1, RunningIsFinite, SessionsAssumption, FS_Subset,
             FS_CardinalityType
<1>2. CASE ReaperWakes
  <2>1. Running' = Running
    BY <1>2, ListKept DEF ReaperWakes, Running, runVars
  <2> QED BY <1>1, <1>2, <2>1, ThreadsAssumption
          DEF ReaperWakes, ThreadFree, ThreadInv
<1>3. ASSUME NEW s \in Sessions, Starting(s) PROVE ThreadInv'
  <2>1. /\ UNCHANGED <<sessions_, reaper>> /\ ThreadFree
        /\ \A t \in Sessions \ {s} : pc'[t] = pc[t]
    BY <1>3 DEF Starting, AcceptSucceeds, CommandUser, CommandGameCreate,
       SendFails, Call, GoTo, CanRun, listVars, LobbyInv, TypeOK
  <2>2. Running' \subseteq Running \cup {s}
    BY <2>1, ListKept, ListedAreSessions DEF Running, LobbyInv, TypeOK
  <2>3. /\ IsFiniteSet(Running \cup {s})
        /\ Cardinality(Running \cup {s}) <= Cardinality(Running) + 1
    <3>1. /\ IsFiniteSet(Running \cup {s})
          /\ Cardinality(Running \cup {s}) =
               IF s \in Running THEN Cardinality(Running)
                                ELSE Cardinality(Running) + 1
      BY <1>1, FS_AddElement
    <3> QED BY <1>1, <3>1
  <2>4. Cardinality(Running') <= Cardinality(Running \cup {s})
    BY <2>2, <2>3, FS_Subset
  <2>5. Cardinality(Running \cup {s}) \in Nat
    BY <2>3, FS_CardinalityType
  <2> QED BY <1>1, <2>1, <2>3, <2>4, <2>5, ThreadsAssumption
          DEF ThreadFree, ThreadInv
<1>4. CASE ~ReaperWakes /\ \A s \in Sessions : ~Starting(s)
  <2>1. Running' \subseteq Running /\ (reaper' = 0 \/ reaper # 0)
    BY <1>4, OthersStartNothing
  <2>2. Cardinality(Running') <= Cardinality(Running)
    BY <1>1, <2>1, FS_Subset
  <2> QED BY <1>1, <2>1, <2>2, ThreadsAssumption DEF ThreadInv
<1> QED BY <1>2, <1>3, <1>4

LEMMA ThreadInvInit == Init => ThreadInv
<1> SUFFICES ASSUME Init PROVE ThreadInv
  OBVIOUS
<1>1. Running = {}
  BY ListedAreSessions, LobbyInvInit DEF Init, Running, LobbyInv, TypeOK
<1> QED BY <1>1, FS_EmptySet, ThreadsAssumption DEF Init, ThreadInv

-----------------------------------------------------------------------------
(* Names that are shared.                                                  *)

(* What a step does to the names in use and to those that passed a check.  *)
Making == {"game_enter", "game_reserve", "game_store"}

StepNames(x) ==
  /\ pc'[x] = "user_set" =>
       /\ name'[x] = name[x]
       /\ pc[x] = "user_set" \/ (UserCheck(x) /\ ~UserTaken(name[x]))
  /\ pc'[x] \in Making =>
       /\ name'[x] = name[x]
       /\ pc[x] \in Making \/ (GameCheck(x) /\ ~GameTaken(name[x]))
  /\ id_'[x] = id_[x] \/ UserSet(x)
  /\ x \in Listed' => x \in Listed \/ (pc'[x] = "idle" /\ id_'[x] = NoName)
  /\ games_' = games_ \/ \E s \in Sessions : GameStore(s)

LEMMA NamesStep ==
  ASSUME LobbyInv, [Next]_vars, NEW x \in Sessions
  PROVE  StepNames(x)
<1> USE ListKept DEF LobbyInv
<1>1. TypeOK
  OBVIOUS
<1>2. ASSUME UNCHANGED <<sessions_, games_, userVars>>,
             \/ pc'[x] = pc[x] /\ name'[x] = name[x]
             \/ pc'[x] \notin Making \cup {"user_set"}
      PROVE  StepNames(x)
  BY <1>2 DEF StepNames, userVars
<1>3. ASSUME NEW s \in Sessions,
             \/ Accepting(s) \/ SetStatus(s) \/ Welcome(s) \/ Receive(s)
             \/ Listen(s) \/ Command(s) \/ Peer(s) \/ Failing(s)
      PROVE  StepNames(x)
  <2>1. UNCHANGED <<sessions_, games_, userVars>>
    BY <1>3 DEF Accepting, AcceptSucceeds, AcceptFails, SetStatus, Welcome,
       Receive, Listen, Command, Answer, CommandUser, CommandGameCreate, Peer,
       Sent, Failing, SendFails, SendGoesOn, CloseThrows, ReceiveFails, listVars
  <2>2. \/ pc'[x] = pc[x] /\ name'[x] = name[x]
        \/ pc'[x] \notin Making \cup {"user_set"}
    BY <1>1, <1>3 DEF Accepting, AcceptSucceeds, AcceptFails, SetStatus, Welcome,
       Receive, Listen, Command, Answer, CommandUser, CommandGameCreate, Peer,
       Sent, Failing, SendFails, SendGoesOn, CloseThrows, ReceiveFails, Call,
       GoTo, Return, runVars, Making, TypeOK
  <2> QED BY <1>2, <2>1, <2>2
<1>4. ASSUME NEW s \in Sessions, CreateSession(s) PROVE StepNames(x)
  <2>1. PICK t \in Fresh : sessions_' = Append(sessions_, t)
    BY <1>4 DEF CreateSession
  <2>2. t \in Sessions /\ t \notin Listed /\ Listed' = Listed \cup {t} /\ ~freed[t]
    BY <1>1, <2>1, ListGrows DEF TypeOK
  <2>3. pc[t] = "idle" /\ id_[t] = NoName
    BY <2>2 DEF SessionInv, Waits
  <2>4. /\ s \in Listed /\ pc'[s] = "listen" /\ name' = name
        /\ \A r \in Sessions \ {s} : pc'[r] = pc[r]
        /\ UNCHANGED <<games_, userVars>>
    BY <1>1, <1>4 DEF CreateSession, At, GoTo, TypeOK
  <2> QED BY <2>2, <2>3, <2>4 DEF StepNames, userVars, Making
<1>5. ASSUME NEW s \in Sessions, Executing(s) PROVE StepNames(x)
  <2>1. CASE UserCheck(s) \/ GameCheck(s)
    BY <1>1, <1>5, <2>1 DEF UserCheck, GameCheck, GoTo, Return, At,
       StepNames, Making, TypeOK, listVars, userVars
  <2>2. CASE UserSet(s)
    BY <1>1, <2>2 DEF UserSet, Return, StepNames, Making, TypeOK, listVars
  <2>3. CASE GameEnter(s) \/ GameReserve(s)
    BY <1>1, <2>3 DEF GameEnter, GameReserve, GoTo, At, StepNames, Making,
       TypeOK, listVars, userVars
  <2>4. CASE GameStore(s)
    BY <1>1, <2>4 DEF GameStore, Return, At, StepNames, Making, TypeOK, userVars
  <2> QED BY <1>5, <2>1, <2>2, <2>3, <2>4 DEF Executing
<1>6. CASE ReaperWakes \/ Reaping
  <2>1. UNCHANGED <<games_, runVars, userVars>>
    BY <1>6 DEF ReaperWakes, Reaping, ReaperErases, ReaperSkips, ReaperSleeps
  <2>2. Listed' \subseteq Listed
    BY <1>1, <1>6, ListShrinks
    DEF ReaperWakes, Reaping, ReaperErases, ReaperSkips, ReaperSleeps, TypeOK
  <2> QED BY <2>1, <2>2 DEF StepNames, runVars, userVars
<1>7. CASE UNCHANGED vars
  BY <1>2, <1>7 DEF vars, listVars, runVars
<1> QED BY <1>3, <1>4, <1>5, <1>6, <1>7 DEF Next, AcceptHandler

(* Who passes the check of a name shares it with those who passed it and   *)
(* have not used it, all of whom have a thread; nobody else comes to it.   *)
LEMMA ClaimsKept ==
  ASSUME LobbyInv, LobbyInv', ThreadInv', [Next]_vars, NEW u \in UserIds,
         Cardinality(Claims(u)) <= Threads
  PROVE  Cardinality(Claims(u)') <= Threads
<1>1. \A x \in Sessions : StepNames(x)
  BY NamesStep
<1>2. /\ Listed \subseteq Sessions /\ Listed' \subseteq Sessions
      /\ IsFiniteSet(Claims(u)) /\ IsFiniteSet(Running')
  <2>1. Listed \subseteq Sessions /\ Listed' \subseteq Sessions
    BY DEF LobbyInv, TypeOK, Listed
  <2> QED BY <2>1, SessionsAssumption, FS_Subset DEF Claims, Running
<1>3. CASE \E s \in Sessions : UserCheck(s) /\ ~UserTaken(name[s]) /\ name[s] = u
  <2>1. PICK s \in Sessions : UserCheck(s) /\ ~UserTaken(name[s]) /\ name[s] = u
    BY <1>3
  <2>2. UNCHANGED <<sessions_, id_>>
    BY <2>1 DEF UserCheck, listVars, userVars
  <2>3. Claims(u)' \subseteq Running'
    BY <2>1, <2>2, ListKept DEF Claims, UserTaken, Running
  <2>4. Cardinality(Claims(u)') <= Cardinality(Running')
    BY <1>2, <2>3, FS_Subset
  <2>5. Cardinality(Claims(u)') \in Nat /\ Cardinality(Running') \in Nat
    BY <1>2, <2>3, FS_Subset, FS_CardinalityType
  <2>6. Cardinality(Running') <= Threads
    BY <2>5, ThreadsAssumption DEF ThreadInv
  <2> QED BY <2>4, <2>5, <2>6, ThreadsAssumption
<1>4. CASE ~\E s \in Sessions : UserCheck(s) /\ ~UserTaken(name[s]) /\ name[s] = u
  <2>1. ASSUME NEW x \in Claims(u)' PROVE x \in Claims(u)
    <3>1. x \in Sessions /\ x \in Listed'
      BY <1>2 DEF Claims
    <3>2. x \in Listed
      BY <1>1, <2>1, <3>1, NoNameAssumption DEF Claims, StepNames
    <3>3. CASE id_'[x] = u
      <4>1. CASE UserSet(x)
        BY <2>1, <3>1, <3>2, <3>3, <4>1
        DEF Claims, UserSet, At, LobbyInv, TypeOK
      <4>2. CASE ~UserSet(x)
        BY <1>1, <3>1, <3>2, <3>3, <4>2 DEF Claims, StepNames
      <4> QED BY <4>1, <4>2
    <3>4. CASE pc'[x] = "user_set" /\ name'[x] = u
      BY <1>1, <1>4, <3>1, <3>2, <3>4 DEF Claims, StepNames
    <3> QED BY <2>1, <3>3, <3>4 DEF Claims
  <2>2. Cardinality(Claims(u)') <= Cardinality(Claims(u))
    BY <1>2, <2>1, FS_Subset
  <2>3. Cardinality(Claims(u)') \in Nat /\ Cardinality(Claims(u)) \in Nat
    BY <1>2, <2>1, FS_Subset, FS_CardinalityType
  <2> QED BY <2>2, <2>3, ThreadsAssumption
<1> QED BY <1>3, <1>4

LEMMA PlacesKept ==
  ASSUME LobbyInv, LobbyInv', ThreadInv', [Next]_vars, NEW g \in GameIds,
         Cardinality(Places(g)) + Cardinality(Makers(g)) <= Threads
  PROVE  Cardinality(Places(g)') + Cardinality(Makers(g)') <= Threads
<1>1. \A x \in Sessions : StepNames(x)
  BY NamesStep
<1>2. /\ Listed \subseteq Sessions /\ Listed' \subseteq Sessions
      /\ IsFiniteSet(Makers(g)) /\ IsFiniteSet(Makers(g)')
      /\ IsFiniteSet(Running')
  <2>1. Listed \subseteq Sessions /\ Listed' \subseteq Sessions
    BY DEF LobbyInv, TypeOK, Listed
  <2> QED BY <2>1, SessionsAssumption, FS_Subset DEF Makers, Running
<1>3. IsFiniteSet(Places(g)) /\ IsFiniteSet(Places(g)')
  <2>1. /\ Places(g) \subseteq 1 .. Len(games_) /\ Len(games_) \in Int
        /\ Places(g)' \subseteq 1 .. Len(games_') /\ Len(games_') \in Int
    BY DEF Places, LobbyInv, TypeOK
  <2>2. IsFiniteSet(1 .. Len(games_)) /\ IsFiniteSet(1 .. Len(games_'))
    BY <2>1, FS_Interval
  <2> QED BY <2>1, <2>2, FS_Subset
<1>4. /\ Cardinality(Makers(g)) \in Nat /\ Cardinality(Makers(g)') \in Nat
      /\ Cardinality(Places(g)) \in Nat /\ Cardinality(Places(g)') \in Nat
  BY <1>2, <1>3, FS_CardinalityType
<1>5. CASE \E s \in Sessions : GameCheck(s) /\ ~GameTaken(name[s]) /\ name[s] = g
  <2>1. PICK s \in Sessions : GameCheck(s) /\ ~GameTaken(name[s]) /\ name[s] = g
    BY <1>5
  <2>2. Places(g)' = {}
    BY <2>1 DEF Places, GameTaken, GameCheck, listVars
  <2>3. Makers(g)' \subseteq Running'
    BY DEF Makers, Running
  <2>4. Cardinality(Makers(g)') <= Cardinality(Running')
    BY <1>2, <2>3, FS_Subset
  <2>5. Cardinality(Running') \in Nat
    BY <1>2, FS_CardinalityType
  <2>6. Cardinality(Running') <= Threads
    BY <2>5, ThreadsAssumption DEF ThreadInv
  <2>7. Cardinality(Places(g)') = 0
    BY <2>2, FS_EmptySet
  <2> QED BY <1>4, <2>4, <2>5, <2>6, <2>7, ThreadsAssumption
<1>6. CASE \E s \in Sessions : GameStore(s)
  <2>1. PICK s \in Sessions : GameStore(s)
    BY <1>6
  <2>2. /\ s \in Listed /\ Listed' = Listed /\ pc[s] = "game_store"
        /\ pc' = [pc EXCEPT ![s] = "idle"] /\ name' = [name EXCEPT ![s] = NoName]
        /\ LobbyInv
    BY <2>1, ListKept DEF GameStore, Return, At
  <2>3. Makers(g)' = Makers(g) \ {s}
    BY <1>2, <2>2 DEF Makers, LobbyInv, TypeOK
  <2> DEFINE n == slot[s] - 1
             kept == SubSeq(games_, 1, n)
             new == [id |-> name[s], gm |-> s]
  <2>4. n \in Nat /\ n <= Len(games_) /\ Len(games_) \in Nat /\ name[s] \in GameIds
    BY <2>1, <2>2 DEF GameStore, LobbyInv, TypeOK, SessionInv, GameSteps
  <2>5. /\ kept \in Seq(Game) /\ Len(kept) = n
        /\ \A i \in 1 .. n : kept[i] = games_[i]
    BY <2>4 DEF LobbyInv, TypeOK
  <2>6. new \in Game /\ new.id = name[s]
    BY <2>4 DEF Game
  <2>7. games_' = Append(kept, new)
    BY <2>1 DEF GameStore
  <2> HIDE DEF n, kept, new
  <2>8. /\ DOMAIN games_' = 1 .. n + 1
        /\ \A i \in 1 .. n : games_'[i] = games_[i]
        /\ games_'[n + 1] = new
    BY <2>4, <2>5, <2>6, <2>7
  <2>9. DOMAIN games_ = 1 .. Len(games_)
    BY DEF LobbyInv, TypeOK
  <2>10. Places(g)' \subseteq Places(g) \cup {n + 1}
    BY <2>4, <2>8, <2>9 DEF Places
  <2>11. CASE name[s] = g
    <3>1. s \in Makers(g)
      BY <2>2, <2>11 DEF Makers
    <3>2. Cardinality(Makers(g)') = Cardinality(Makers(g)) - 1
      BY <1>2, <2>3, <3>1, FS_RemoveElement
    <3>3. Cardinality(Places(g)') <= Cardinality(Places(g)) + 1
      <4>1. /\ IsFiniteSet(Places(g) \cup {n + 1})
            /\ Cardinality(Places(g) \cup {n + 1}) =
                 IF n + 1 \in Places(g) THEN Cardinality(Places(g))
                                        ELSE Cardinality(Places(g)) + 1
        BY <1>3, FS_AddElement
      <4>2. Cardinality(Places(g)') <= Cardinality(Places(g) \cup {n + 1})
        BY <2>10, <4>1, FS_Subset
      <4> QED BY <1>4, <4>1, <4>2
    <3> QED BY <1>4, <3>2, <3>3, ThreadsAssumption
  <2>12. CASE name[s] # g
    <3>1. Places(g)' \subseteq Places(g)
      BY <2>4, <2>6, <2>8, <2>10, <2>12 DEF Places
    <3>2. /\ Cardinality(Places(g)') <= Cardinality(Places(g))
          /\ Cardinality(Makers(g)') <= Cardinality(Makers(g))
      BY <1>2, <1>3, <2>3, <3>1, FS_Subset
    <3> QED BY <1>4, <3>2, ThreadsAssumption
  <2> QED BY <2>11, <2>12
<1>7. CASE /\ ~\E s \in Sessions : GameCheck(s) /\ ~GameTaken(name[s]) /\ name[s] = g
           /\ ~\E s \in Sessions : GameStore(s)
  <2>1. Places(g)' = Places(g)
    <3>1. CASE Sessions # {}
      BY <1>1, <1>7, <3>1 DEF StepNames, Places
    <3>2. CASE Sessions = {}
      BY <3>2 DEF LobbyInv, TypeOK, Game, Places
    <3> QED BY <3>1, <3>2
  <2>2. ASSUME NEW x \in Makers(g)' PROVE x \in Makers(g)
    <3>1. x \in Sessions /\ x \in Listed' /\ pc'[x] \in Making /\ name'[x] = g
      BY <1>2 DEF Makers, Making
    <3>2. x \in Listed
      BY <1>1, <3>1 DEF StepNames, Making
    <3> QED BY <1>1, <1>7, <3>1, <3>2 DEF StepNames, Makers, Making
  <2>3. Cardinality(Makers(g)') <= Cardinality(Makers(g))
    BY <1>2, <2>2, FS_Subset
  <2> QED BY <1>4, <2>1, <2>3, ThreadsAssumption
<1> QED BY <1>5, <1>6, <1>7

LEMMA ShareInvInit == Init => ShareInv
<1> SUFFICES ASSUME Init PROVE ShareInv
  OBVIOUS
<1>1. Listed \subseteq Sessions
  BY LobbyInvInit, ListedAreSessions DEF LobbyInv, TypeOK
<1>2. \A u \in UserIds : Claims(u) = {}
  BY <1>1, NoNameAssumption DEF Init, Claims
<1>3. \A g \in GameIds : Places(g) = {} /\ Makers(g) = {}
  BY <1>1 DEF Init, Places, Makers
<1> QED BY <1>2, <1>3, FS_EmptySet, ThreadsAssumption DEF ShareInv

(* At most as many users, and as many games, share a name as there are     *)
(* threads, since all who share it were past its check at the same time.   *)
THEOREM AsManyAsThreads == Spec => []Sharers
<1>1. Init => ThreadInv /\ ShareInv
  BY ThreadInvInit, ShareInvInit
<1>2. LobbyInv /\ LobbyInv' /\ ThreadInv /\ ShareInv /\ [Next]_vars
        => ThreadInv' /\ ShareInv'
  BY ThreadInvInductive, ClaimsKept, PlacesKept DEF ShareInv
<1>3. LobbyInv /\ ShareInv => Sharers
  <2> SUFFICES ASSUME LobbyInv, ShareInv PROVE Sharers
    OBVIOUS
  <2>1. Listed \subseteq Sessions
    BY ListedAreSessions DEF LobbyInv, TypeOK
  <2>2. ASSUME NEW u \in UserIds
        PROVE  Cardinality({s \in Listed : id_[s] = u}) <= Threads
    <3>1. {s \in Listed : id_[s] = u} \subseteq Claims(u) /\ IsFiniteSet(Claims(u))
      BY <2>1, SessionsAssumption, FS_Subset DEF Claims
    <3>2. Cardinality({s \in Listed : id_[s] = u}) <= Cardinality(Claims(u))
      BY <3>1, FS_Subset
    <3>3. /\ Cardinality({s \in Listed : id_[s] = u}) \in Nat
          /\ Cardinality(Claims(u)) \in Nat
      BY <3>1, FS_Subset, FS_CardinalityType
    <3> QED BY <3>2, <3>3, ThreadsAssumption DEF ShareInv
  <2>3. ASSUME NEW g \in GameIds
        PROVE  Cardinality({i \in DOMAIN games_ : games_[i].id = g}) <= Threads
    <3>1. Places(g) \subseteq 1 .. Len(games_) /\ Len(games_) \in Int
      BY DEF Places, LobbyInv, TypeOK
    <3>2. IsFiniteSet(Places(g)) /\ IsFiniteSet(Makers(g))
      BY <2>1, <3>1, SessionsAssumption, FS_Interval, FS_Subset DEF Makers
    <3>3. Cardinality(Places(g)) \in Nat /\ Cardinality(Makers(g)) \in Nat
      BY <3>2, FS_CardinalityType
    <3>4. Cardinality(Places(g)) <= Threads
      BY <3>3, ThreadsAssumption DEF ShareInv
    <3> QED BY <3>4 DEF Places
  <2> QED BY <2>2, <2>3 DEF Sharers
<1> QED BY <1>1, <1>2, <1>3, LobbyInvHolds, PTL DEF Spec

-----------------------------------------------------------------------------
(* The modes of a session and the games.                                   *)

LEMMA OneRuns ==
  ASSUME LobbyInv, ThreadInv, Threads = 1, NEW s \in Running, NEW t \in Running
  PROVE  s = t
<1> SUFFICES ASSUME s # t PROVE FALSE
  OBVIOUS
<1>1. IsFiniteSet(Running) /\ Cardinality(Running) \in Nat
  BY RunningIsFinite
<1>2. IsFiniteSet({s}) /\ Cardinality({s}) = 1
  BY FS_Singleton
<1>3. Cardinality({s} \cup {t}) = 2
  <2>1. Cardinality({s} \cup {t}) =
          IF t \in {s} THEN Cardinality({s}) ELSE Cardinality({s}) + 1
    BY <1>2, FS_AddElement
  <2> QED BY <1>2, <2>1
<1>4. Cardinality({s} \cup {t}) <= Cardinality(Running)
  <2>1. {s} \cup {t} \subseteq Running
    OBVIOUS
  <2> QED BY <1>1, <2>1, FS_Subset
<1> QED BY <1>1, <1>3, <1>4 DEF ThreadInv

(* What a step other than a store does to the games of a session. *)
StepModes(x) ==
  /\ mode_[x] = "creating_game" => mode_'[x] = "creating_game"
  /\ pc'[x] \in Storing => pc[x] \in Storing \cup {"game_enter"}
  /\ x \in Listed' /\ pc'[x] = "game_store" =>
       \/ At(x, "game_store") /\ slot'[x] = slot[x]
       \/ slot'[x] = Len(games_) + 1
  /\ mode_'[x] = "creating_game" /\ pc'[x] \notin Storing =>
       mode_[x] = "creating_game" /\ pc[x] \notin Storing

LEMMA ModesStep ==
  ASSUME LobbyInv, [Next]_vars, NEW x \in Sessions, ~GameStore(x)
  PROVE  StepModes(x)
<1> USE ListKept DEF LobbyInv, Storing
<1>1. TypeOK /\ SessionInv(x)
  OBVIOUS
<1>2. ASSUME x \in Listed' => x \in Listed,
             UNCHANGED userVars, pc'[x] = pc[x], slot'[x] = slot[x]
      PROVE  StepModes(x)
  BY <1>2 DEF StepModes, userVars, At
<1>3. ASSUME NEW s \in Sessions, Accepting(s) \/ AcceptHandler(s)
      PROVE  StepModes(x)
  <2>1. /\ UNCHANGED userVars /\ \A r \in Sessions \ {s} : pc'[r] = pc[r] /\ slot'[r] = slot[r]
    BY <1>1, <1>3 DEF Accepting, AcceptSucceeds, AcceptFails, AcceptHandler,
       SetStatus, Welcome, Receive, CreateSession, Listen, GoTo, Return, TypeOK,
       runVars
  <2>2. CASE CreateSession(s)
    <3>1. PICK t \in Fresh : sessions_' = Append(sessions_, t)
      BY <2>2 DEF CreateSession
    <3>2. t \in Sessions /\ t \notin Listed /\ Listed' = Listed \cup {t} /\ ~freed[t]
      BY <1>1, <3>1, ListGrows DEF TypeOK
    <3>3. pc[t] = "idle" /\ s # t
      BY <2>2, <3>2 DEF SessionInv, CreateSession, At
    <3>4. pc[s] = "create_session" /\ pc'[s] = "listen"
      BY <1>1, <2>2 DEF CreateSession, At, GoTo, TypeOK
    <3> QED BY <2>1, <3>2, <3>3, <3>4 DEF StepModes, userVars, At
  <2>3. CASE ~CreateSession(s)
    <3>1. sessions_' = sessions_
      BY <1>3, <2>3 DEF Accepting, AcceptSucceeds, AcceptFails, AcceptHandler,
         SetStatus, Welcome, Receive, Listen, listVars
    <3>2. CASE x = s
      <4>1. CASE AcceptSucceeds(s) \/ SetStatus(s) \/ Welcome(s) \/ Receive(s)
        BY <1>1, <2>1, <3>2, <4>1
        DEF AcceptSucceeds, SetStatus, Welcome, Receive, CanRun, At, GoTo,
            TypeOK, StepModes, userVars
      <4>2. CASE AcceptFails(s)
        BY <1>2, <2>1, <3>1, <3>2, <4>2 DEF AcceptFails, runVars
      <4>3. CASE Listen(s)
        BY <1>1, <2>1, <3>2, <4>3
        DEF Listen, At, Return, TypeOK, StepModes, userVars, SessionInv
      <4> QED BY <1>3, <2>3, <4>1, <4>2, <4>3 DEF Accepting, AcceptHandler
    <3>3. CASE x # s
      BY <1>2, <2>1, <3>1, <3>3
    <3> QED BY <3>2, <3>3
  <2> QED BY <2>2, <2>3
<1>4. ASSUME NEW s \in Sessions, Command(s) \/ Peer(s) \/ Failing(s)
      PROVE  StepModes(x)
  <2>1. CASE Command(s) \/ Peer(s)
    BY <1>1, <2>1 DEF Command, Answer, CommandUser, CommandGameCreate, Peer, Sent,
       CloseThrows, ReceiveFails, Call, CanRun, StepModes, At, TypeOK, listVars,
       runVars, userVars
  <2>2. CASE SendFails(s)
    BY <1>1, <2>2 DEF SendFails, CanRun, GoTo, StepModes, At, TypeOK, listVars,
       userVars
  <2>3. CASE SendGoesOn(s)
    BY <1>1, <2>3 DEF SendGoesOn, Return, StepModes, At, TypeOK, listVars, userVars
  <2> QED BY <1>4, <2>1, <2>2, <2>3 DEF Failing
<1>5. ASSUME NEW s \in Sessions, Executing(s) PROVE StepModes(x)
  <2>1. /\ sessions_' = sessions_
        /\ \A r \in Sessions \ {s} :
             /\ pc'[r] = pc[r] /\ slot'[r] = slot[r] /\ mode_'[r] = mode_[r]
    BY <1>1, <1>5 DEF Executing, UserCheck, UserSet, GameCheck, GameEnter,
       GameReserve, GameStore, GoTo, Return, TypeOK, listVars, userVars
  <2>2. CASE x # s
    BY <2>1, <2>2 DEF StepModes, At
  <2>3. CASE x = s
    <3>1. CASE UserCheck(s) \/ GameCheck(s)
      BY <1>1, <2>3, <3>1 DEF UserCheck, GameCheck, GoTo, Return, At, StepModes,
         SessionInv, TypeOK, userVars, UserSteps
    <3>2. CASE UserSet(s)
      BY <1>1, <2>3, <3>2 DEF UserSet, Return, At, StepModes, SessionInv, TypeOK,
         UserSteps
    <3>3. CASE GameEnter(s) \/ GameReserve(s)
      BY <1>1, <2>3, <3>3 DEF GameEnter, GameReserve, GoTo, At, StepModes, TypeOK,
         userVars
    <3> QED BY <1>5, <2>3, <3>1, <3>2, <3>3 DEF Executing
  <2> QED BY <2>2, <2>3
<1>6. CASE ReaperWakes \/ Reaping
  <2>1. UNCHANGED <<runVars, userVars>>
    BY <1>6 DEF ReaperWakes, Reaping, ReaperErases, ReaperSkips, ReaperSleeps
  <2>2. Listed' \subseteq Listed
    BY <1>1, <1>6, ListShrinks
    DEF ReaperWakes, Reaping, ReaperErases, ReaperSkips, ReaperSleeps, TypeOK
  <2> QED BY <1>2, <2>1, <2>2 DEF runVars
<1>7. CASE UNCHANGED vars
  BY <1>2, <1>7 DEF vars, listVars, runVars
<1> QED BY <1>3, <1>4, <1>5, <1>6, <1>7 DEF Next

(* With a single thread a store appends the game, and its master has none  *)
(* before and no other afterwards.                                         *)
LEMMA MasterInvInductive ==
  ASSUME Threads = 1, LobbyInv, LobbyInv', ThreadInv, MasterInv, [Next]_vars
  PROVE  MasterInv'
<1>1. \A x \in Sessions : SessionInv(x) /\ SessionInv(x)'
  BY DEF LobbyInv
<1>2. CASE \E s \in Sessions : GameStore(s)
  <2>1. PICK s \in Sessions : GameStore(s)
    BY <1>2
  <2>2. /\ s \in Listed /\ Listed' = Listed /\ pc[s] = "game_store"
        /\ pc' = [pc EXCEPT ![s] = "idle"] /\ UNCHANGED mode_
        /\ slot[s] = Len(games_) + 1 /\ name[s] \in GameIds /\ TypeOK
    BY <1>1, <2>1, ListKept DEF GameStore, Return, At, MasterInv, userVars,
       SessionInv, GameSteps, LobbyInv
  <2> DEFINE new == [id |-> name[s], gm |-> s]
  <2>3. new \in Game /\ new.gm = s
    BY <2>2 DEF Game
  <2>4. games_' = Append(games_, new)
    <3>1. SubSeq(games_, 1, (Len(games_) + 1) - 1) = games_
      BY <2>2 DEF TypeOK
    <3> QED BY <2>1, <2>2, <3>1 DEF GameStore
  <2> HIDE DEF new
  <2>5. /\ Len(games_) \in Nat /\ DOMAIN games_ = 1 .. Len(games_)
        /\ DOMAIN games_' = 1 .. Len(games_) + 1
        /\ \A i \in 1 .. Len(games_) : games_'[i] = games_[i]
        /\ games_'[Len(games_) + 1] = new
    BY <2>2, <2>3, <2>4 DEF TypeOK
  <2>6. \A x \in Sessions \ {s} : Mastered(x)' = Mastered(x)
    BY <2>3, <2>5 DEF Mastered
  <2>7. Mastered(s)' = {Len(games_) + 1}
    <3>1. Mastered(s) = {}
      BY <2>2 DEF MasterInv, Storing
    <3> QED BY <2>3, <2>5, <3>1 DEF Mastered
  <2>8. \A x \in Sessions \ {s} : x \in Listed => pc[x] = "idle"
    BY <2>2, OneRuns DEF Running
  <2>9. \A x \in Sessions : pc'[x] = IF x = s THEN "idle" ELSE pc[x]
    BY <2>2 DEF TypeOK
  <2>10. mode_[s] = "creating_game"
    BY <1>1, <2>2 DEF SessionInv
  <2>11. Len(games_) + 1 \in DOMAIN games_'
    BY <2>5
  <2>12. ASSUME NEW x \in Sessions \ {s}
         PROVE  /\ ~At(x, "game_store")'
                /\ Mastered(x)' = {} \/ \E i \in DOMAIN games_' : Mastered(x)' = {i}
                /\ mode_'[x] # "creating_game" => Mastered(x)' = {}
                /\ pc'[x] \in Storing => Mastered(x)' = {}
                /\ mode_'[x] = "creating_game" /\ pc'[x] \notin Storing => Mastered(x)' # {}
    <3>1. ~At(x, "game_store")'
      BY <2>2, <2>8, <2>9 DEF At
    <3>2. Mastered(x)' = {} \/ \E i \in DOMAIN games_' : Mastered(x)' = {i}
      <4>1. Mastered(x) = {} \/ \E i \in DOMAIN games_ : Mastered(x) = {i}
        BY DEF MasterInv
      <4> QED BY <2>5, <2>6, <4>1
    <3> QED BY <2>2, <2>6, <2>9, <3>1, <3>2 DEF MasterInv, Storing
  <2> QED BY <2>2, <2>7, <2>9, <2>10, <2>11, <2>12 DEF MasterInv, At, Storing
<1>3. CASE ~\E s \in Sessions : GameStore(s)
  <2>1. \A x \in Sessions : StepModes(x)
    BY <1>3, ModesStep
  <2>2. Sessions # {} => games_' = games_
    BY <1>3, NamesStep DEF StepNames
  <2>3. ASSUME NEW x \in Sessions
        PROVE  /\ At(x, "game_store")' => slot'[x] = Len(games_') + 1
               /\ Mastered(x)' = Mastered(x)
               /\ mode_'[x] # "creating_game" => Mastered(x) = {}
               /\ pc'[x] \in Storing => Mastered(x) = {}
               /\ mode_'[x] = "creating_game" /\ pc'[x] \notin Storing => Mastered(x) # {}
    <3>1. games_' = games_ /\ Mastered(x)' = Mastered(x)
      BY <2>2 DEF Mastered
    <3>2. At(x, "game_store")' => slot'[x] = Len(games_') + 1
      BY <2>1, <3>1 DEF StepModes, At, MasterInv
    <3>3. mode_'[x] # "creating_game" => Mastered(x) = {}
      BY <2>1 DEF StepModes, MasterInv
    <3>4. pc'[x] \in Storing => Mastered(x) = {}
      <4>1. pc[x] = "game_enter" => mode_[x] # "creating_game"
        BY <1>1 DEF SessionInv
      <4> QED BY <2>1, <4>1 DEF StepModes, MasterInv, Storing
    <3>5. mode_'[x] = "creating_game" /\ pc'[x] \notin Storing => Mastered(x) # {}
      BY <2>1 DEF StepModes, MasterInv
    <3> QED BY <3>1, <3>2, <3>3, <3>4, <3>5
  <2> QED BY <2>2, <2>3 DEF MasterInv, Storing
<1> QED BY <1>2, <1>3

LEMMA MasterInvInit == Init => MasterInv
BY DEF Init, MasterInv, Mastered, At, Storing

(* The mode of a session says whether it has an id, and whether its game   *)
(* gets its commands, for any number of threads.                           *)
ModesAgree ==
  \A s \in Listed :
    /\ mode_[s] = "connected" <=> id_[s] = NoName
    /\ mode_[s] = "creating_game" <=> receive_handler_[s] = "game"

THEOREM ModesAlwaysAgree == Spec => []ModesAgree
<1>1. LobbyInv => ModesAgree
  BY ListedAreSessions DEF LobbyInv, TypeOK, SessionInv, ModesAgree
<1> QED BY <1>1, LobbyInvHolds, PTL

(* With a single thread, when that is what is configured or detected, a    *)
(* game master moreover has one game in the list.                          *)
THEOREM ModesMatchWithOneThread ==
  ASSUME Threads = 1
  PROVE  Spec => []ModesMatch
<1>1. Init => ThreadInv /\ MasterInv
  BY ThreadInvInit, MasterInvInit
<1>2. LobbyInv /\ LobbyInv' /\ ThreadInv /\ MasterInv /\ [Next]_vars
        => ThreadInv' /\ MasterInv'
  BY ThreadInvInductive, MasterInvInductive
<1>3. LobbyInv /\ MasterInv => ModesMatch
  <2> SUFFICES ASSUME LobbyInv, MasterInv, NEW s \in Listed
               PROVE  /\ mode_[s] = "connected" <=> id_[s] = NoName
                      /\ mode_[s] = "creating_game" <=> receive_handler_[s] = "game"
                      /\ mode_[s] = "creating_game" /\ pc[s] = "idle" =>
                           Cardinality(Mastered(s)) = 1
    BY DEF ModesMatch, Mastered
  <2>1. s \in Sessions
    BY ListedAreSessions DEF LobbyInv, TypeOK
  <2>2. ASSUME mode_[s] = "creating_game", pc[s] = "idle"
        PROVE  Cardinality(Mastered(s)) = 1
    <3>1. PICK i \in DOMAIN games_ : Mastered(s) = {i}
      BY <2>1, <2>2 DEF MasterInv, Storing
    <3> QED BY <3>1, FS_Singleton
  <2> QED BY <2>1, <2>2 DEF LobbyInv, SessionInv
<1> QED BY <1>1, <1>2, <1>3, LobbyInvHolds, PTL DEF Spec

-----------------------------------------------------------------------------
(* Every session of the lobby has a connection.                            *)

ConnectionStep(t) == Conn(t)!Next \/ UNCHANGED Conn(t)!vars

(* A message is sent, or swallowed, on a connection that is there. *)
LEMMA SendIsConnectionStep ==
  ASSUME TypeOK, NEW s \in Sessions, Send(s), ~freed[s], ~Waits(s),
         UNCHANGED <<status_, ears, closed, freed>>, NEW t \in Sessions
  PROVE  ConnectionStep(t)
<1>1. CASE t = s /\ mouth[s] = "quiet"
  BY <1>1 DEF Send, Waits, TypeOK, ConnectionStep, Conn!Next, Conn!Send
<1>2. CASE ~(t = s /\ mouth[s] = "quiet")
  BY <1>2 DEF Send, TypeOK, ConnectionStep, Conn!vars
<1> QED BY <1>1, <1>2

LEMMA KeptIsConnectionStep ==
  ASSUME UNCHANGED peerVars, NEW t \in Sessions
  PROVE  ConnectionStep(t)
BY DEF peerVars, ConnectionStep, Conn!vars

LEMMA StepIsConnectionStep ==
  ASSUME LobbyInv, [Next]_vars, NEW t \in Sessions
  PROVE  ConnectionStep(t)
<1>1. TypeOK /\ Listed \subseteq Sessions
  BY ListedAreSessions DEF LobbyInv, TypeOK
<1>2. \A s \in Listed : ~freed[s]
  BY DEF LobbyInv, ListInv
<1>3. ASSUME NEW s \in Sessions, Accepting(s) PROVE ConnectionStep(t)
  <2>1. CASE AcceptSucceeds(s)
    BY <2>1, KeptIsConnectionStep DEF AcceptSucceeds
  <2>2. CASE AcceptFails(s)
    <3>1. s \in Listed /\ Waits(s)
      BY <2>2 DEF AcceptFails, LobbyInv, AcceptInv
    <3> QED BY <1>1, <1>2, <2>2, <3>1
            DEF AcceptFails, Waits, TypeOK, ConnectionStep, Conn!Next,
                Conn!Refuse, Conn!vars
  <2> QED BY <1>3, <2>1, <2>2 DEF Accepting
<1>4. ASSUME NEW s \in Sessions, AcceptHandler(s) PROVE ConnectionStep(t)
  <2>1. CASE CreateSession(s) \/ Listen(s)
    BY <2>1, KeptIsConnectionStep DEF CreateSession, Listen
  <2>2. ASSUME SetStatus(s) \/ Welcome(s) \/ Receive(s)
        PROVE  s = Back /\ s \in Listed /\ ~freed[s] /\ SessionInv(s)
    BY <1>2, <2>2 DEF SetStatus, Welcome, Receive, At, LobbyInv, AcceptInv,
       Accepts, AcceptSteps
  <2>3. CASE SetStatus(s)
    <3>1. Waits(s)
      BY <2>2, <2>3 DEF SetStatus, At, LobbyInv, AcceptInv, Accepts, AcceptSteps
    <3> QED BY <1>1, <2>2, <2>3, <3>1
            DEF SetStatus, Waits, TypeOK, ConnectionStep, Conn!Next,
                Conn!Accept, Conn!vars
  <2>4. CASE Welcome(s)
    BY <1>1, <2>2, <2>4, SendIsConnectionStep DEF Welcome, At, SessionInv, Waits
  <2>5. CASE Receive(s)
    BY <1>1, <2>2, <2>5
    DEF Receive, At, SessionInv, TypeOK, ConnectionStep, Conn!Next,
        Conn!Receive, Conn!vars
  <2> QED BY <1>4, <2>1, <2>3, <2>4, <2>5 DEF AcceptHandler
<1>5. ASSUME NEW s \in Sessions, Command(s) \/ Executing(s)
      PROVE  ConnectionStep(t)
  <2>1. s \in Listed /\ ~freed[s] /\ ~Waits(s)
    <3>1. s \in Listed /\ ears[s] # "none"
      BY <1>5 DEF Command, Answer, CommandUser, CommandGameCreate, CanRun,
         Executing, UserCheck, UserSet, GameCheck, GameEnter, GameReserve,
         GameStore, At, LobbyInv, SessionInv, UserSteps, GameSteps
    <3> QED BY <1>2, <3>1 DEF LobbyInv, SessionInv
  <2>2. \/ Send(s) /\ UNCHANGED <<status_, ears, closed, freed>>
        \/ UNCHANGED peerVars
    BY <1>5 DEF Command, Answer, CommandUser, CommandGameCreate,
       Executing, UserCheck, UserSet, GameCheck, GameEnter, GameReserve,
       GameStore, peerVars
  <2> QED BY <1>1, <2>1, <2>2, SendIsConnectionStep, KeptIsConnectionStep
<1>6. ASSUME NEW s \in Sessions, Peer(s) PROVE ConnectionStep(t)
  <2>1. s \in Listed /\ ~freed[s]
    BY <1>2, <1>6 DEF Peer, Sent, CloseThrows, ReceiveFails, CanRun
  <2>2. CASE Sent(s)
    BY <1>1, <2>1, <2>2 DEF Sent, TypeOK, ConnectionStep, Conn!Next, Conn!Sent,
       Conn!vars
  <2>3. CASE CloseThrows(s)
    BY <1>1, <2>1, <2>3 DEF CloseThrows, TypeOK, ConnectionStep, Conn!Next,
       Conn!Jam, Conn!vars
  <2>4. CASE ReceiveFails(s)
    BY <1>1, <2>1, <2>4 DEF ReceiveFails, TypeOK, ConnectionStep, Conn!Next,
       Conn!ReceiveError, Conn!vars
  <2> QED BY <1>6, <2>2, <2>3, <2>4 DEF Peer
<1>7. ASSUME NEW s \in Sessions, Failing(s) PROVE ConnectionStep(t)
  <2>1. s \in Listed /\ ~freed[s] /\ mouth[s] = "busy"
    BY <1>2, <1>7 DEF Failing, SendFails, SendGoesOn, CanRun, At, LobbyInv,
       SessionInv
  <2>2. CASE SendFails(s)
    <3>1. CASE t = s
      BY <1>1, <2>1, <2>2, <3>1 DEF SendFails, TypeOK, ConnectionStep, Conn!Next,
         Conn!SendError
    <3>2. CASE t # s
      BY <1>1, <2>2, <3>2 DEF SendFails, TypeOK, ConnectionStep, Conn!vars
    <3> QED BY <3>1, <3>2
  <2>3. CASE SendGoesOn(s)
    <3>1. CASE t = s /\ mouth'[s] = "quiet"
      BY <1>1, <2>1, <2>3, <3>1 DEF SendGoesOn, TypeOK, ConnectionStep, Conn!Next,
         Conn!Sent
    <3>2. CASE ~(t = s /\ mouth'[s] = "quiet")
      BY <1>1, <2>1, <2>3, <3>2 DEF SendGoesOn, TypeOK, ConnectionStep, Conn!vars
    <3> QED BY <3>1, <3>2
  <2> QED BY <1>7, <2>2, <2>3 DEF Failing
<1>8. CASE ReaperErases
  <2>1. sessions_[reaper] \in Listed
    BY <1>8 DEF ReaperErases, Listed
  <2> QED BY <1>1, <1>2, <1>8, <2>1
          DEF ReaperErases, TypeOK, ConnectionStep, Conn!Next, Conn!Reap, Conn!vars
<1>9. CASE ReaperWakes \/ ReaperSkips \/ ReaperSleeps \/ UNCHANGED vars
  BY <1>9, KeptIsConnectionStep DEF ReaperWakes, ReaperSkips, ReaperSleeps, vars
<1> QED BY <1>3, <1>4, <1>5, <1>6, <1>7, <1>8, <1>9 DEF Next, Reaping

(* Whatever the lobby does to the connection of a session is what          *)
(* Connection allows, so the lobby may be understood without the sessions  *)
(* that implement it.                                                      *)
THEOREM LobbyUsesConnections == Spec => ImplementsConnections
<1>1. Init => \A s \in Sessions : Conn(s)!Init
  BY DEF Init, Conn!Init
<1>2. LobbyInv /\ [Next]_vars
        => [\A s \in Sessions : Conn(s)!Next \/ UNCHANGED Conn(s)!vars]_vars
  BY StepIsConnectionStep DEF ConnectionStep
<1> QED BY <1>1, <1>2, LobbyInvHolds, PTL DEF Spec, ImplementsConnections

=============================================================================
