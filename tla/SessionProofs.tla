---------------------------- MODULE SessionProofs ---------------------------
(***************************************************************************)
(* Theorems about Session, for any number of messages and commands: its    *)
(* chain of reads, that its sending is that of Sender, so that what is     *)
(* proved there holds of it, and that it is the Connection the lobby takes *)
(* it for.                                                                 *)
(***************************************************************************)
EXTENDS Session, TLAPS

(* The theorems about the sender of the session's socket. *)
Proven == INSTANCE SenderProofs
            WITH Callers <- {Strand}, ReplyIds <- {}, HandlerMayThrow <- TRUE,
                 Protocols <- {"telnet"}

-----------------------------------------------------------------------------
(* The sender of Session and the one of the theorems are the same.         *)

(* The steps of a call. *)
LEMMA SameCall ==
  ASSUME NEW c
  PROVE  Sending!Caller(c) => Proven!Caller(c)
<1>1. Sending!SendAction(c) => Proven!SendAction(c)
  <2>1. Proven!Calling = Sending!Calling
    BY DEF Proven!Calling, Sending!Calling
  <2>2. \A S : Proven!Cardinality(S) = Sending!Cardinality(S)
    BY DEF Proven!Cardinality, Sending!Cardinality
  <2>3. Proven!MaySend <=> Sending!MaySend
    BY <2>1, <2>2 DEF Proven!MaySend, Sending!MaySend
  <2> QED BY <2>3 DEF Proven!SendAction, Sending!SendAction, Proven!queueVars,
              Sending!queueVars
<1>2. Sending!IncrementId(c) => Proven!IncrementId(c)
  BY DEF Proven!IncrementId, Sending!IncrementId, Proven!Action,
         Sending!Action, Proven!queueVars, Sending!queueVars
<1>3. ~ Sending!SendReply(c)
  BY DEF Sending!SendReply
<1>4. Sending!Post(c) => Proven!Post(c)
  BY DEF Proven!Post, Sending!Post, Proven!queueVars, Sending!queueVars
<1> QED BY <1>1, <1>2, <1>3, <1>4 DEF Proven!Caller, Sending!Caller

(* The ends of a completion. *)
LEMMA SameCompletion ==
  ASSUME NEW buffer
  PROVE  /\ Sending!HandlerReturns(buffer) <=> Proven!HandlerReturns(buffer)
         /\ Sending!HandlerThrows(buffer) <=> Proven!HandlerThrows(buffer)
BY DEF Proven!HandlerReturns, Sending!HandlerReturns, Proven!HandlerThrows,
       Sending!HandlerThrows, Proven!SendQueueMessage,
       Sending!SendQueueMessage, Proven!Encode, Sending!Encode

(* The parts of a completion. *)
LEMMA SameTransfer ==
  ASSUME NEW n
  PROVE  /\ Sending!Transfer(n) <=> Proven!Transfer(n)
         /\ Sending!Remainder(n) = Proven!Remainder(n)
         /\ Sending!Completed(n) <=> Proven!Completed(n)
BY DEF Proven!Transfer, Sending!Transfer, Proven!Remainder, Sending!Remainder,
       Proven!Completed, Sending!Completed, Proven!Front, Sending!Front

(* The steps of the strand. *)
LEMMA SameStrand == Sending!Strand => Proven!Strand
<1>1. Sending!RunSendMessage => Proven!RunSendMessage
  BY DEF Proven!RunSendMessage, Sending!RunSendMessage,
         Proven!SendQueueMessage, Sending!SendQueueMessage, Proven!Encode,
         Sending!Encode, Proven!callVars, Sending!callVars
<1>2. Sending!WriteSucceeds => Proven!WriteSucceeds
  <2> SUFFICES ASSUME Sending!WriteSucceeds PROVE Proven!WriteSucceeds
    OBVIOUS
  <2>1. Proven!Completed(TRUE) /\ Proven!Transfer(Len(send_buffer_))
    BY SameTransfer DEF Sending!WriteSucceeds
  <2>2. Proven!HandlerReturns(<<>>) \/ Proven!HandlerThrows(<<>>)
    BY SameCompletion DEF Sending!WriteSucceeds
  <2> QED BY <2>1, <2>2 DEF Proven!WriteSucceeds, Sending!WriteSucceeds,
                            Proven!callVars, Sending!callVars
<1>3. Sending!WriteFails => Proven!WriteFails
  <2> SUFFICES ASSUME Sending!WriteFails PROVE Proven!WriteFails
    OBVIOUS
  <2>1. PICK n \in 0 .. Len(send_buffer_) - 1 :
          /\ send_buffer_[n + 1].bytes
          /\ Sending!Transfer(n)
          /\ \/ Sending!HandlerReturns(Sending!Remainder(n))
             \/ Sending!HandlerThrows(Sending!Remainder(n))
    BY DEF Sending!WriteFails
  <2>2. Proven!Transfer(n) /\ Proven!Remainder(n) = Sending!Remainder(n)
    BY <2>1, SameTransfer
  <2>3. \/ Proven!HandlerReturns(Proven!Remainder(n))
        \/ Proven!HandlerThrows(Proven!Remainder(n))
    BY <2>1, <2>2, SameCompletion
  <2>4. Proven!Completed(FALSE)
    BY SameTransfer DEF Sending!WriteFails
  <2> QED BY <2>1, <2>2, <2>3, <2>4
          DEF Proven!WriteFails, Sending!WriteFails, Proven!callVars,
              Sending!callVars
<1> QED BY <1>1, <1>2, <1>3 DEF Proven!Strand, Sending!Strand

LEMMA SameStep == [Sending!Next]_(Sending!vars) => [Proven!Next]_(Proven!vars)
<1>1. ASSUME Sending!Next PROVE Proven!Next
  <2>1. CASE Sending!Strand
    BY <2>1, SameStrand DEF Proven!Next
  <2>2. ASSUME NEW c \in {Strand}, Sending!Caller(c) PROVE Proven!Next
    BY <2>2, SameCall DEF Proven!Next
  <2>3. CASE Sending!SetProtocol
    BY <2>3 DEF Sending!SetProtocol, Proven!SetProtocol, Proven!Next,
                Sending!queueVars, Proven!queueVars, Sending!callVars,
                Proven!callVars
  <2> QED BY <1>1, <2>1, <2>2, <2>3 DEF Sending!Next
<1>2. UNCHANGED Sending!vars => UNCHANGED Proven!vars
  BY DEF Proven!vars, Sending!vars, Proven!queueVars, Sending!queueVars,
         Proven!callVars, Sending!callVars
<1> QED BY <1>1, <1>2
-----------------------------------------------------------------------------
(* A step of the session is one of its sender, or leaves it alone.         *)

LEMMA StepIsSenderStep == [Next]_vars => [Sending!Next]_(Sending!vars)
<1> SUFFICES ASSUME [Next]_vars
             PROVE  Sending!Next \/ UNCHANGED senderVars
  BY DEF senderVars, callVars, queueVars,
         Sending!vars, Sending!callVars, Sending!queueVars
<1>1. ASSUME Sending!Caller(Strand) PROVE Sending!Next
  BY <1>1 DEF Sending!Next
<1>2. ASSUME Sending!Strand PROVE Sending!Next
  BY <1>2 DEF Sending!Next
<1>3. CASE AcceptSucceeds
  BY <1>1, <1>3 DEF AcceptSucceeds, Sending!Caller
<1>4. CASE HandlerSends
  BY <1>1, <1>4 DEF HandlerSends, Sending!Caller
<1>5. CASE ReadSucceeds
  BY <1>1, <1>5 DEF ReadSucceeds, Sending!Caller
<1>6. CASE RunSendMessage
  BY <1>2, <1>6 DEF RunSendMessage, Sending!Strand
<1>7. CASE WriteSucceeds
  BY <1>2, <1>7 DEF WriteSucceeds, Sending!WriteSucceeds, Sending!Strand,
                    callVars, Sending!callVars
<1>8. ASSUME NEW n \in 0 .. Len(send_buffer_) - 1, writing > 0, Failed(n),
             \/ Sending!HandlerReturns(Sending!Remainder(n))
             \/ Sending!HandlerThrows(Sending!Remainder(n))
      PROVE  Sending!Next
  <2>1. Sending!WriteFails
    BY <1>8 DEF Failed, Sending!WriteFails, callVars, Sending!callVars
  <2> QED BY <1>2, <2>1 DEF Sending!Strand
<1>9. CASE WriteFails
  <2>1. CASE UNCHANGED senderVars
    BY <2>1
  <2>2. CASE ~ UNCHANGED senderVars
    <3>1. PICK n \in 0 .. Len(send_buffer_) - 1 :
            Failed(n) /\ Sending!HandlerThrows(Sending!Remainder(n))
      BY <1>9, <2>2 DEF WriteFails
    <3> QED BY <1>8, <1>9, <3>1 DEF WriteFails
  <2> QED BY <2>1, <2>2
<1>10. CASE CompletionEnds
  <2>1. PICK n \in 0 .. Len(send_buffer_) - 1 :
          Failed(n) /\ Sending!HandlerReturns(Sending!Remainder(n))
    BY <1>10 DEF CompletionEnds
  <2> QED BY <1>8, <1>10, <2>1 DEF CompletionEnds
<1>11. CASE AcceptFails \/ HandlerEnds \/ RunReceive \/ ReadFails \/ Reap
  BY <1>11 DEF AcceptFails, HandlerEnds, RunReceive, ReadFails, Reap
<1>12. CASE UNCHANGED vars
  BY <1>12 DEF vars
<1> QED BY <1>3, <1>4, <1>5, <1>6, <1>7, <1>9, <1>10, <1>11, <1>12
        DEF Next, Handlers, Reads, Writes

(* A session sends the way a sender does, with the one strand as caller:   *)
(* no handler of the session gets between the steps of its sender, and the *)
(* step in which it closes its socket is none of the sender's.             *)
THEOREM SendsAsSender == Spec => Sending!Spec
<1>1. Init => Sending!Init
  BY DEF Init
<1> QED BY <1>1, StepIsSenderStep, PTL DEF Spec, Sending!Spec

-----------------------------------------------------------------------------
(* What is proved of every sender holds of the session's.                  *)

LEMMA SendingHolds ==
  /\ Init => Proven!SuccessInv
  /\ Proven!SuccessInv /\ [Next]_vars => Proven!SuccessInv'
<1>1. Init => Proven!Init
  BY DEF Init, Sending!Init, Proven!Init, Sending!Blank, Proven!Blank,
         Sending!Reply, Proven!Reply
<1>2. Proven!Init => Proven!ReportInv /\ Proven!WireInv
  BY Proven!ReportInvInit, Proven!WireInvInit, IdModulusAssumption
<1>3. Proven!Init => Proven!SuccessIsOnWire
  BY DEF Proven!Init, Proven!SuccessIsOnWire
<1>4. Proven!SuccessInv /\ [Proven!Next]_(Proven!vars) => Proven!SuccessInv'
  BY Proven!SuccessInvInductive, IdModulusAssumption
<1>5. [Next]_vars => [Proven!Next]_(Proven!vars)
  BY StepIsSenderStep, SameStep
<1> QED BY <1>1, <1>2, <1>3, <1>4, <1>5
        DEF Proven!SuccessInv, Proven!WireInv

(* What the send handler of a session is told is true: each message of the *)
(* session is reported at most once and in order, and a report of success  *)
(* is one of a message that reached the stream, although the handler       *)
(* closes the socket in the middle of a completion, and may throw there.   *)
THEOREM SessionIsToldTheTruth ==
  Spec => [](Sending!ReportConservation /\ Sending!SuccessIsOnWire)
<1>1. Sending!ReportedMessages = Proven!ReportedMessages
  BY DEF Sending!ReportedMessages, Proven!ReportedMessages,
         Sending!Messages, Proven!Messages
<1>2. Sending!Unreported = Proven!Unreported
  BY DEF Sending!Unreported, Proven!Unreported
<1>3. Proven!SuccessInv => Sending!ReportConservation
  BY <1>1, <1>2 DEF Proven!SuccessInv, Proven!ReportInv,
                    Proven!ReportConservation, Sending!ReportConservation
<1>4. Proven!SuccessInv => Sending!SuccessIsOnWire
  BY DEF Proven!SuccessInv, Proven!SuccessIsOnWire, Sending!SuccessIsOnWire
<1> QED BY <1>3, <1>4, SendingHolds, PTL DEF Spec

-----------------------------------------------------------------------------
(* The chain of reads.                                                     *)

(* Nothing is read or handled before the connection is accepted.           *)
OpenedFirst ==
  /\ status_ = "wait_for_connection" => socket_ = "unopened"
  /\ Links > 0 => socket_ # "unopened"
  /\ running = "accept" => status_ = "connected"
  /\ running = "send" => socket_ = "closed"
  /\ socket_ = "unopened" => Untouched

(* What the reaper may find.                                               *)
ReapableIsShut ==
  /\ status_ = "reapable" => socket_ # "open"
  /\ erased => status_ = "reapable"

SessionInv == TypeOK /\ ChainOfReads /\ OpenedFirst /\ ReapableIsShut

LEMMA SessionInvInit == Init => SessionInv
<1> SUFFICES ASSUME Init PROVE SessionInv
  OBVIOUS
<1>1. TypeOK
  <2>1. 0 \in 0 .. MaxCommands
    BY MaxCommandsAssumption
  <2> QED BY <2>1 DEF Init, TypeOK, Statuses
<1>2. Links = 0
  BY DEF Init, Links, Calling
<1>3. Untouched
  BY DEF Init, Sending!Init, Untouched
<1> QED BY <1>1, <1>2, <1>3
        DEF Init, SessionInv, ChainOfReads, OpenedFirst, ReapableIsShut

LEMMA SessionInvInductive == SessionInv /\ [Next]_vars => SessionInv'
<1> SUFFICES ASSUME SessionInv, [Next]_vars PROVE SessionInv'
  OBVIOUS
<1> USE MaxCommandsAssumption
    DEF SessionInv, TypeOK, Statuses, Calling, ChainOfReads, Links,
        OpenedFirst, ReapableIsShut
<1>1. CASE AcceptSucceeds
  BY <1>1 DEF AcceptSucceeds, Free, readVars
<1>2. CASE AcceptFails
  BY <1>2 DEF AcceptFails, Free, Untouched, readVars, senderVars, callVars,
              queueVars
<1>3. CASE HandlerSends
  BY <1>3 DEF HandlerSends, readVars
<1>4. CASE HandlerEnds
  BY <1>4 DEF HandlerEnds
<1>5. CASE RunReceive
  BY <1>5 DEF RunReceive, Free
<1>6. CASE ReadSucceeds
  BY <1>6 DEF ReadSucceeds, Free
<1>7. CASE ReadFails
  BY <1>7 DEF ReadFails, Free
<1>8. CASE RunSendMessage
  <2>1. socket_ # "unopened"
    BY <1>8 DEF RunSendMessage, Sending!RunSendMessage, Untouched
  <2> QED BY <1>8, <2>1 DEF RunSendMessage, readVars
<1>9. CASE WriteSucceeds
  BY <1>9 DEF WriteSucceeds, readVars
<1>10. CASE WriteFails
  <2>1. socket_ # "unopened"
    BY <1>10 DEF WriteFails, Untouched
  <2> QED BY <1>10, <2>1
          DEF WriteFails, CloseReturns, CloseThrows, Free, readVars
<1>11. CASE CompletionEnds
  BY <1>11 DEF CompletionEnds, readVars
<1>12. CASE Reap
  BY <1>12 DEF Reap, Untouched, readVars, senderVars, callVars, queueVars
<1>13. CASE UNCHANGED vars
  BY <1>13 DEF vars, Untouched, readVars, senderVars, callVars, queueVars
<1> QED BY <1>1, <1>2, <1>3, <1>4, <1>5, <1>6, <1>7, <1>8, <1>9, <1>10,
           <1>11, <1>12, <1>13 DEF Next, Handlers, Reads, Writes

(* The variables keep the types of session.hpp, and what the reaper        *)
(* destroys is shut: its socket was closed before it became reapable and   *)
(* its accept handler is over, or it never had a socket and nothing of it  *)
(* is outstanding.  The reaper may come at any moment of the completion    *)
(* that closes the socket, also before the rest of it has run.             *)
THEOREM OnlyShutIsReaped == Spec => []ReapedIsShut
<1>1. SessionInv => ReapedIsShut
  BY DEF SessionInv, TypeOK, OpenedFirst, ReapableIsShut, ReapedIsShut, Links,
         Calling
<1> QED BY <1>1, SessionInvInit, SessionInvInductive, PTL DEF Spec

(* The chain of reads has one link as long as the session is connected and *)
(* never two, whatever order reads, answers and the closing come in.       *)
THEOREM OneChainOfReads == Spec => []ChainOfReads
<1>1. SessionInv => ChainOfReads
  BY DEF SessionInv
<1> QED BY <1>1, SessionInvInit, SessionInvInductive, PTL DEF Spec

-----------------------------------------------------------------------------
(* The connection the lobby sees.                                          *)

Ears == IF socket_ = "unopened" \/ running = "accept" THEN "none"
        ELSE IF reading + receives > 0 \/ running = "command"
             THEN "open" ELSE "shut"
Mouth == IF threw # "none" THEN "jammed"
         ELSE IF messages_ = <<>> /\ strand = <<>> THEN "quiet" ELSE "busy"

(* What the sender of a session in that state is like. *)
LEMMA SenderState ==
  ASSUME Proven!SuccessInv
  PROVE  /\ messages_ \in Seq(Proven!Message) /\ strand \in Seq(Proven!Message)
         /\ threw \in {"none", "handler", "encode"} /\ protocol_ = "telnet"
         /\ writing > 0 => messages_ # <<>> /\ threw = "none"
BY DEF Proven!SuccessInv, Proven!ReportInv, Proven!TypeInv, Proven!TypeOK,
       Proven!WriteInFlight

(* A handler that sends makes a quiet sender busy, unless it is still      *)
(* looking for an id.                                                      *)
LEMMA SendingIsHeard ==
  ASSUME Proven!SuccessInv,
         Sending!IncrementId(Strand) \/ Sending!Post(Strand)
  PROVE  \/ Mouth' = Mouth
         \/ Mouth = "quiet" /\ Mouth' = "busy"
<1>1. CASE Sending!IncrementId(Strand)
  BY <1>1 DEF Sending!IncrementId, Sending!queueVars, Mouth
<1>2. CASE Sending!Post(Strand)
  <2>1. strand' = Append(strand, outgoing[Strand])
        /\ messages_' = messages_ /\ threw' = threw
    BY <1>2 DEF Sending!Post, Sending!queueVars
  <2>2. Append(strand, outgoing[Strand]) # <<>>
    BY SenderState
  <2> QED BY <2>1, <2>2 DEF Mouth
<1> QED BY <1>1, <1>2

(* Queueing is not heard: the message was posted before. *)
LEMMA QueueingIsQuiet ==
  ASSUME Proven!SuccessInv, Sending!RunSendMessage
  PROVE  Mouth' = Mouth
<1>1. /\ strand # <<>> /\ threw' = threw
      /\ messages_' = Append(messages_, strand[1])
  BY SenderState DEF Sending!RunSendMessage, Sending!SendQueueMessage
<1>2. Append(messages_, strand[1]) # <<>>
  BY SenderState
<1> QED BY <1>1, <1>2 DEF Mouth

(* Each step of the session is one of the connection or changes nothing    *)
(* that the lobby sees.                                                    *)
LEMMA StepIsConnectionStep ==
  SessionInv /\ Proven!SuccessInv /\ [Next]_vars => [Peer!Next]_(Peer!vars)
<1> SUFFICES ASSUME SessionInv, Proven!SuccessInv, [Next]_vars
             PROVE  Peer!Next \/ UNCHANGED Peer!vars
  OBVIOUS
<1> DEFINE Same == /\ status_' = status_ /\ Ears' = Ears /\ Mouth' = Mouth
                   /\ (socket_ = "closed")' = (socket_ = "closed")
                   /\ erased' = erased
<1>0. Same => UNCHANGED Peer!vars
  BY DEF Peer!vars, Ears, Mouth
<1>1. CASE AcceptSucceeds
  <2>1. Mouth' = Mouth
    BY <1>1 DEF AcceptSucceeds, Sending!SendAction, Sending!queueVars, Mouth
  <2>2. Ears = "none" /\ Ears' = "none"
    BY <1>1 DEF AcceptSucceeds, SessionInv, OpenedFirst, Ears
  <2>3. ~erased /\ erased' = erased /\ socket_ = "unopened"
    BY <1>1 DEF AcceptSucceeds, Free, SessionInv, OpenedFirst
  <2>4. Peer!Accept
    BY <1>1, <2>1, <2>2, <2>3 DEF AcceptSucceeds, Peer!Accept, Ears, Mouth
  <2> QED BY <2>3, <2>4 DEF Peer!Next
<1>2. CASE AcceptFails
  <2>1. Peer!Refuse
    BY <1>2 DEF AcceptFails, Peer!Refuse, senderVars, queueVars, readVars
  <2> QED BY <1>2, <2>1 DEF Peer!Next, AcceptFails, Free
<1>3. CASE HandlerSends
  <2>1. Ears' = Ears
    BY <1>3 DEF HandlerSends, readVars, Ears
  <2>2. status_ # "wait_for_connection"
    BY <1>3 DEF HandlerSends, SessionInv, ChainOfReads, Links, TypeOK, Calling
  <2>3. CASE Mouth' = Mouth
    BY <1>0, <1>3, <2>1, <2>3 DEF HandlerSends
  <2>4. CASE Mouth = "quiet" /\ Mouth' = "busy"
    <3>1. Peer!Send
      BY <1>3, <2>1, <2>2, <2>4 DEF HandlerSends, Peer!Send, Ears, Mouth
    <3> QED BY <1>3, <3>1 DEF Peer!Next, HandlerSends
  <2> QED BY <1>3, <2>3, <2>4, SendingIsHeard DEF HandlerSends
<1>4. CASE HandlerEnds
  <2>1. /\ ~erased /\ running \in Calling /\ running' = "none"
        /\ receives' = receives + 1
        /\ UNCHANGED <<status_, socket_, reading, erased, senderVars>>
    BY <1>4 DEF HandlerEnds
  <2>2. Mouth' = Mouth
    BY <2>1 DEF senderVars, queueVars, Mouth
  <2>3. socket_ # "unopened" /\ Ears' = "open"
    BY <2>1 DEF SessionInv, TypeOK, OpenedFirst, Links, Calling, Ears
  <2>4. CASE running = "accept"
    <3>1. Ears = "none" /\ status_ = "connected"
      BY <2>4 DEF SessionInv, OpenedFirst, Ears
    <3>2. Peer!Receive
      BY <2>1, <2>2, <2>3, <3>1 DEF Peer!Receive, Ears, Mouth
    <3> QED BY <2>1, <3>2 DEF Peer!Next
  <2>5. CASE running = "command"
    <3>1. Ears = "open"
      BY <2>3, <2>5 DEF Ears
    <3> QED BY <1>0, <2>1, <2>2, <2>3, <3>1
  <2> QED BY <2>1, <2>4, <2>5 DEF Calling
<1>5. CASE RunReceive
  <2>1. Ears' = Ears
    BY <1>5 DEF RunReceive, SessionInv, TypeOK, Ears
  <2> QED BY <1>0, <1>5, <2>1 DEF RunReceive, senderVars, queueVars, Mouth
<1>6. CASE ReadSucceeds
  <2>1. Mouth' = Mouth
    BY <1>6 DEF ReadSucceeds, Sending!SendAction, Sending!queueVars,
                senderVars, queueVars, Mouth
  <2>2. Ears' = Ears
    BY <1>6 DEF ReadSucceeds, Free, SessionInv, TypeOK, Ears
  <2> QED BY <1>0, <1>6, <2>1, <2>2 DEF ReadSucceeds
<1>7. CASE ReadFails
  <2>1. ~erased /\ running = "none" /\ reading > 0
    BY <1>7 DEF ReadFails, Free
  <2>2. Ears = "open" /\ Ears' = "shut"
    BY <1>7, <2>1 DEF ReadFails, SessionInv, TypeOK, ChainOfReads,
                      OpenedFirst, Links, Ears
  <2>3. Peer!ReceiveError
    BY <1>7, <2>2 DEF ReadFails, Peer!ReceiveError, senderVars, queueVars,
                      Ears, Mouth
  <2> QED BY <2>1, <2>3 DEF Peer!Next
<1>8. CASE RunSendMessage
  <2>1. Mouth' = Mouth
    BY <1>8, QueueingIsQuiet DEF RunSendMessage
  <2> QED BY <1>0, <1>8, <2>1 DEF RunSendMessage, readVars, Ears
<1>9. ASSUME ~erased, writing > 0,
             UNCHANGED <<status_, socket_, erased, strand, Ears>>,
             NEW buffer, Sending!HandlerReturns(buffer)
      PROVE  Peer!Next \/ UNCHANGED Peer!vars
  <2>1. threw = "none" /\ threw' = "none"
    BY <1>9, SenderState DEF Sending!HandlerReturns, Sending!SendQueueMessage
  <2>2. Mouth = "busy" /\ Mouth' \in {"quiet", "busy"}
    BY <1>9, <2>1, SenderState DEF Mouth
  <2>3. CASE Mouth' = "quiet"
    <3>1. Peer!Sent
      BY <1>9, <2>2, <2>3 DEF Peer!Sent, Ears, Mouth
    <3> QED BY <1>9, <3>1 DEF Peer!Next
  <2>4. CASE Mouth' = "busy"
    BY <1>0, <1>9, <2>2, <2>4
  <2> QED BY <2>2, <2>3, <2>4
<1>10. CASE WriteSucceeds
  BY <1>9, <1>10 DEF WriteSucceeds, Free, readVars, Ears
<1>11. CASE CompletionEnds
  <2>1. PICK n \in 0 .. Len(send_buffer_) - 1 :
          Failed(n) /\ Sending!HandlerReturns(Sending!Remainder(n))
    BY <1>11 DEF CompletionEnds
  <2>2. /\ ~erased /\ writing > 0
        /\ UNCHANGED <<status_, socket_, erased, strand, Ears>>
    BY <1>11, <2>1 DEF CompletionEnds, Failed, readVars, Ears
  <2> QED BY <1>9, <2>1, <2>2
<1>12. CASE WriteFails
  <2>1. /\ ~erased /\ running = "none" /\ writing > 0
        /\ UNCHANGED <<receives, reading, erased>>
    BY <1>12 DEF WriteFails, Free, readVars
  <2>2. Mouth = "busy"
    BY <2>1, SenderState DEF Mouth
  <2>3. CASE CloseReturns /\ status_' = "reapable" /\ running' = "send"
             /\ UNCHANGED senderVars
    <3>1. socket_ = "open" /\ socket_' = "closed"
      BY <2>3 DEF CloseReturns
    <3>2. Ears' = Ears /\ Mouth' = Mouth
      BY <2>1, <2>3, <3>1 DEF Ears, Mouth, senderVars, queueVars
    <3>3. Peer!SendError
      BY <2>1, <2>2, <2>3, <3>1, <3>2 DEF Peer!SendError, Ears, Mouth
    <3> QED BY <2>1, <3>3 DEF Peer!Next
  <2>4. ASSUME NEW n \in 0 .. Len(send_buffer_) - 1, CloseThrows,
               UNCHANGED <<status_, running>>, Failed(n),
               Sending!HandlerThrows(Sending!Remainder(n))
        PROVE  Peer!Next
    <3>1. socket_' = socket_ /\ threw' = "handler"
      BY <2>4 DEF CloseThrows, Sending!HandlerThrows
    <3>2. Ears' = Ears /\ Mouth' = "jammed"
      BY <2>1, <2>4, <3>1 DEF Ears, Mouth
    <3>3. Peer!Jam
      BY <2>1, <2>2, <2>4, <3>1, <3>2 DEF Peer!Jam, Ears, Mouth
    <3> QED BY <2>1, <3>3 DEF Peer!Next
  <2> QED BY <1>12, <2>3, <2>4 DEF WriteFails
<1>13. CASE Reap
  <2>1. Peer!Reap
    BY <1>13 DEF Reap, Peer!Reap, senderVars, queueVars, readVars
  <2> QED BY <1>13, <2>1 DEF Peer!Next, Reap
<1>14. CASE UNCHANGED vars
  BY <1>0, <1>14 DEF vars, senderVars, queueVars, readVars, Ears, Mouth
<1> QED BY <1>1, <1>2, <1>3, <1>4, <1>5, <1>6, <1>7, <1>8, <1>10, <1>11,
           <1>12, <1>13, <1>14 DEF Next, Handlers, Reads, Writes

(* What Lobby takes for a connection is what a session does: whatever the  *)
(* sender, the reads, the closing of the socket and the reaper do to each  *)
(* other, the lobby sees one of the steps of Connection.                   *)
THEOREM SessionIsConnection == Spec => ImplementsConnection
<1>1. Init => Peer!Init
  BY DEF Init, Sending!Init, Peer!Init
<1> QED BY <1>1, SessionInvInit, SessionInvInductive, SendingHolds,
           StepIsConnectionStep, PTL
        DEF Spec, ImplementsConnection, Peer!Spec

=============================================================================
