---------------------------- MODULE SenderProofs ----------------------------
(***************************************************************************)
(* Theorems about Sender, for every set of callers, every width of the id, *)
(* any number of messages, send handlers that throw or do not and every    *)
(* choice of protocols, those that have no bytes or throw included.        *)
(***************************************************************************)
EXTENDS Sender, SequenceTheorems, TLAPS

-----------------------------------------------------------------------------
(* Type correctness, together with the number of outstanding writes: that  *)
(* a completion finds a message at the front needs that there is one.      *)

(* The message for which the handler or encode threw stays at the front    *)
(* for good.                                                               *)
FrontStays == threw # "none" => messages_ # <<>>

TypeInv == TypeOK /\ WriteInFlight /\ FrontStays

(* Counting up stays within the ids. *)
LEMMA NextId ==
  ASSUME NEW n \in MessageId
  PROVE  /\ (n + 1) % IdModulus \in MessageId
         /\ (n + 1) % IdModulus = IF n = IdModulus - 1 THEN 0 ELSE n + 1
<1>1. CASE n = IdModulus - 1
  <2>1. IdModulus % IdModulus = 0
    BY IdModulusAssumption
  <2>2. n + 1 = IdModulus
    BY <1>1, IdModulusAssumption DEF MessageId
  <2> QED BY <1>1, <2>1, <2>2, IdModulusAssumption DEF MessageId
<1>2. CASE n # IdModulus - 1
  <2>1. n + 1 \in 0 .. IdModulus - 1
    BY <1>2, IdModulusAssumption DEF MessageId
  <2>2. (n + 1) % IdModulus = n + 1
    BY <2>1, IdModulusAssumption
  <2> QED BY <1>2, <2>1, <2>2 DEF MessageId
<1> QED BY <1>1, <1>2

(* The messages have the type of messages. *)
LEMMA MessageTypes ==
  /\ \A i \in MessageId : Action(i) \in Message /\ Reply(i) \in Message
  /\ Blank \in Message
  /\ ReplyIds \subseteq MessageId
BY IdModulusAssumption, ReplyIdsAssumption
   DEF Action, Reply, Blank, Message, MessageId

(* An encoding has the type of one. *)
LEMMA EncodingTyped ==
  ASSUME NEW m \in Message
  PROVE  Encode(m) \in Encoding /\ Encode(m).message = m
BY DEF Encode, Encoding

(* Sending a message from an idle stream: one write is started, or encode  *)
(* threw and nothing changed but that.                                     *)
LEMMA SendTyped ==
  ASSUME NEW buffer \in Seq(Encoding), NEW m \in Message, threw = "none",
         SendQueueMessage(buffer, m, 0)
  PROVE  /\ send_buffer_' \in Seq(Encoding)
         /\ \/ /\ threw' = "none" /\ writing' = 1
               /\ send_buffer_' = Append(buffer, Encode(m))
            \/ threw' = "encode" /\ writing' = 0 /\ send_buffer_' = buffer
<1>1. CASE protocol_ = "compressed"
  BY <1>1 DEF SendQueueMessage
<1>2. CASE protocol_ # "compressed"
  <2>1. Append(buffer, Encode(m)) \in Seq(Encoding)
    BY EncodingTyped, AppendProperties
  <2> QED BY <1>2, <2>1 DEF SendQueueMessage
<1> QED BY <1>1, <1>2

(* The handler of a completed write, however it ends. *)
LEMMA CompletionTyped ==
  ASSUME TypeInv, writing > 0, NEW buffer \in Seq(Encoding),
         HandlerReturns(buffer) \/ HandlerThrows(buffer)
  PROVE  /\ messages_ # <<>> /\ threw = "none" /\ writing = 1
         /\ messages_' \in Seq(Message)
         /\ send_buffer_' \in Seq(Encoding)
         /\ writing' \in Nat
         /\ threw' \in {"none", "handler", "encode"}
         /\ WriteInFlight' /\ FrontStays'
<1> USE DEF TypeInv, TypeOK, WriteInFlight, FrontStays
<1>1. messages_ # <<>> /\ threw = "none" /\ writing = 1
  OBVIOUS
<1>2. messages_ \in Seq(Message) /\ Tail(messages_) \in Seq(Message)
  BY <1>1
<1>3. CASE HandlerReturns(buffer)
  <2>1. CASE Tail(messages_) = <<>>
    BY <1>1, <1>2, <1>3, <2>1 DEF HandlerReturns
  <2>2. CASE Tail(messages_) # <<>>
    <3>1. Tail(messages_)[1] \in Message
      BY <1>2, <2>2
    <3>2. messages_' = Tail(messages_) /\ messages_' # <<>>
      BY <1>3, <2>2 DEF HandlerReturns
    <3>3. SendQueueMessage(buffer, Tail(messages_)[1], 0)
      BY <1>1, <1>3, <2>2 DEF HandlerReturns
    <3>4. /\ send_buffer_' \in Seq(Encoding)
          /\ \/ threw' = "none" /\ writing' = 1
             \/ threw' = "encode" /\ writing' = 0
      BY <1>1, <3>1, <3>3, SendTyped
    <3> QED BY <1>1, <1>2, <3>2, <3>4
  <2> QED BY <2>1, <2>2
<1>4. CASE HandlerThrows(buffer)
  BY <1>1, <1>2, <1>4 DEF HandlerThrows
<1> QED BY <1>1, <1>3, <1>4

(* Taking a part of the buffer leaves sequences of encodings. *)
LEMMA TransferTyped ==
  ASSUME TypeInv, NEW n \in 0 .. Len(send_buffer_), Transfer(n)
  PROVE  wire' \in Seq(Encoding) /\ Remainder(n) \in Seq(Encoding)
<1>1. send_buffer_ \in Seq(Encoding) /\ wire \in Seq(Encoding)
  BY DEF TypeInv, TypeOK
<1>2. SubSeq(send_buffer_, 1, n) \in Seq(Encoding)
  BY <1>1
<1>3. SubSeq(send_buffer_, n + 1, Len(send_buffer_)) \in Seq(Encoding)
  BY <1>1
<1> QED BY <1>1, <1>2, <1>3 DEF Transfer, Remainder

(* A report has its type when there is a front to report. *)
LEMMA ReportTyped ==
  ASSUME TypeInv, messages_ # <<>>, NEW ok \in BOOLEAN, Completed(ok)
  PROVE  reported' \in Seq([message : Message, ok : BOOLEAN])
<1>1. Front \in Message
  BY DEF TypeInv, TypeOK, Front
<1>2. [message |-> Front, ok |-> ok] \in [message : Message, ok : BOOLEAN]
  BY <1>1
<1> QED BY <1>2 DEF TypeInv, TypeOK, Completed

LEMMA TypeInvInductive == TypeInv /\ [Next]_vars => TypeInv'
<1> SUFFICES ASSUME TypeInv, [Next]_vars PROVE TypeInv'
  OBVIOUS
<1> USE DEF TypeInv
<1>1. ASSUME NEW c \in Callers, SendAction(c) PROVE TypeInv'
  BY <1>1 DEF SendAction, TypeOK, WriteInFlight, FrontStays, PcStates, queueVars
<1>2. ASSUME NEW c \in Callers, IncrementId(c) PROVE TypeInv'
  <2> DEFINE next == (id_ + 1) % IdModulus
  <2>1. next \in MessageId
    BY NextId DEF TypeOK
  <2>2. Action(next) \in Message
    BY <2>1, MessageTypes
  <2>3. WriteInFlight' /\ FrontStays'
    BY <1>2 DEF IncrementId, WriteInFlight, FrontStays, queueVars
  <2>4. TypeOK'
    <3>1. CASE next = 0
      BY <1>2, <2>1, <3>1 DEF IncrementId, TypeOK, queueVars
    <3>2. CASE next # 0
      <4> HIDE DEF next
      <4>1. id_' = next /\ outgoing' = [outgoing EXCEPT ![c] = Action(next)]
              /\ allocated' = Append(allocated, next)
              /\ pc' = [pc EXCEPT ![c] = "post"]
              /\ UNCHANGED <<strand, posted, protocol_, queueVars>>
        BY <1>2, <3>2 DEF IncrementId, next
      <4> QED BY <2>1, <2>2, <4>1 DEF TypeOK, PcStates, queueVars
    <3> QED BY <3>1, <3>2
  <2> QED BY <2>3, <2>4
<1>3. ASSUME NEW c \in Callers, SendReply(c) PROVE TypeInv'
  <2>1. PICK i \in ReplyIds : outgoing' = [outgoing EXCEPT ![c] = Reply(i)]
    BY <1>3 DEF SendReply
  <2>2. Reply(i) \in Message
    BY MessageTypes
  <2> QED BY <1>3, <2>1, <2>2 DEF SendReply, TypeOK, WriteInFlight, FrontStays, PcStates, queueVars
<1>4. ASSUME NEW c \in Callers, Post(c) PROVE TypeInv'
  BY <1>4 DEF Post, TypeOK, WriteInFlight, FrontStays, PcStates, queueVars
<1>5. ASSUME RunSendMessage PROVE TypeInv'
  <2>1. strand[1] \in Message /\ Tail(strand) \in Seq(Message)
    BY <1>5 DEF RunSendMessage, TypeOK
  <2>2. messages_' = Append(messages_, strand[1]) /\ strand' = Tail(strand)
    BY <1>5 DEF RunSendMessage
  <2>3. messages_' \in Seq(Message) /\ messages_' # <<>>
    <3>1. messages_ \in Seq(Message)
      BY DEF TypeOK
    <3> QED BY <2>1, <2>2, <3>1, AppendProperties
  <2>4. UNCHANGED <<id_, pc, outgoing, allocated, posted, protocol_, wire, reported>>
    BY <1>5 DEF RunSendMessage, callVars
  <2>5. CASE messages_ = <<>>
    <3>1. SendQueueMessage(send_buffer_, strand[1], 0) /\ threw = "none"
      BY <1>5, <2>5 DEF RunSendMessage, WriteInFlight, FrontStays
    <3>2. /\ send_buffer_' \in Seq(Encoding)
          /\ \/ threw' = "none" /\ writing' = 1
             \/ threw' = "encode" /\ writing' = 0
      BY <2>1, <3>1, SendTyped DEF TypeOK
    <3>3. WriteInFlight' /\ FrontStays'
      BY <2>3, <3>2 DEF WriteInFlight, FrontStays
    <3> QED BY <2>1, <2>2, <2>3, <2>4, <3>2, <3>3 DEF TypeOK
  <2>6. CASE messages_ # <<>>
    <3>1. UNCHANGED <<send_buffer_, writing, threw>>
      BY <1>5, <2>6 DEF RunSendMessage
    <3>2. WriteInFlight' /\ FrontStays'
      BY <2>3, <2>6, <3>1 DEF WriteInFlight, FrontStays
    <3> QED BY <2>1, <2>2, <2>3, <2>4, <3>1, <3>2 DEF TypeOK
  <2> QED BY <2>5, <2>6
<1>6. ASSUME WriteSucceeds PROVE TypeInv'
  <2>1. <<>> \in Seq(Encoding)
    OBVIOUS
  <2>2. /\ messages_ # <<>>
        /\ messages_' \in Seq(Message) /\ send_buffer_' \in Seq(Encoding)
        /\ writing' \in Nat /\ threw' \in {"none", "handler", "encode"}
        /\ WriteInFlight' /\ FrontStays'
    BY <1>6, <2>1, CompletionTyped DEF WriteSucceeds
  <2>3. wire' \in Seq(Encoding)
    <3>1. Len(send_buffer_) \in 0 .. Len(send_buffer_)
      BY DEF TypeOK
    <3> QED BY <1>6, <3>1, TransferTyped DEF WriteSucceeds
  <2>4. reported' \in Seq([message : Message, ok : BOOLEAN])
    BY <1>6, <2>2, ReportTyped DEF WriteSucceeds
  <2> QED BY <1>6, <2>2, <2>3, <2>4 DEF WriteSucceeds, TypeOK, callVars
<1>7. ASSUME WriteFails PROVE TypeInv'
  <2>1. PICK n \in 0 .. Len(send_buffer_) - 1 :
          /\ Transfer(n)
          /\ HandlerReturns(Remainder(n)) \/ HandlerThrows(Remainder(n))
    BY <1>7 DEF WriteFails
  <2>2. n \in 0 .. Len(send_buffer_)
    BY DEF TypeOK
  <2>3. wire' \in Seq(Encoding) /\ Remainder(n) \in Seq(Encoding)
    BY <2>1, <2>2, TransferTyped
  <2>4. /\ messages_ # <<>>
        /\ messages_' \in Seq(Message) /\ send_buffer_' \in Seq(Encoding)
        /\ writing' \in Nat /\ threw' \in {"none", "handler", "encode"}
        /\ WriteInFlight' /\ FrontStays'
    BY <1>7, <2>1, <2>3, CompletionTyped DEF WriteFails
  <2>5. reported' \in Seq([message : Message, ok : BOOLEAN])
    BY <1>7, <2>4, ReportTyped DEF WriteFails
  <2> QED BY <1>7, <2>3, <2>4, <2>5 DEF WriteFails, TypeOK, callVars
<1>8. ASSUME SetProtocol PROVE TypeInv'
  BY <1>8 DEF SetProtocol, callVars, queueVars, TypeOK, WriteInFlight, FrontStays
<1>9. CASE UNCHANGED vars
  BY <1>9 DEF vars, callVars, queueVars, TypeOK, WriteInFlight, FrontStays
<1> QED
  BY <1>1, <1>2, <1>3, <1>4, <1>5, <1>6, <1>7, <1>8, <1>9
     DEF Next, Caller, Strand

LEMMA TypeInvInit == Init => TypeInv
<1> SUFFICES ASSUME Init PROVE TypeInv
  OBVIOUS
<1>1. 0 \in MessageId
  BY IdModulusAssumption DEF MessageId
<1>2. <<>> \in Seq(Message) /\ <<>> \in Seq(MessageId) /\ <<>> \in Seq(Encoding)
        /\ <<>> \in Seq([message : Message, ok : BOOLEAN])
  OBVIOUS
<1>3. [c \in Callers |-> "idle"] \in [Callers -> PcStates]
  BY DEF PcStates
<1>4. [c \in Callers |-> Blank] \in [Callers -> Message]
  BY MessageTypes
<1>5. "telnet" \in Protocols
  BY ProtocolsAssumption
<1> QED
  BY <1>1, <1>2, <1>3, <1>4, <1>5
     DEF Init, TypeInv, TypeOK, WriteInFlight, FrontStays

(* Type correctness: every variable keeps the type sender.hpp declares. *)
THEOREM TypeCorrect == Spec => []TypeOK
<1>1. TypeInv => TypeOK
  BY DEF TypeInv
<1> QED BY <1>1, TypeInvInit, TypeInvInductive, PTL DEF Spec

(* There is one outstanding write while there is a message to send and     *)
(* neither a send handler nor encode threw, and never a second one:        *)
(* send_message and the completion handler of a write never both start     *)
(* one, and never both leave it to the other.  After either exception      *)
(* there is none any more.                                                 *)
THEOREM OneWriteAtATime == Spec => []WriteInFlight
<1>1. TypeInv => WriteInFlight
  BY DEF TypeInv
<1> QED BY <1>1, TypeInvInit, TypeInvInductive, PTL DEF Spec

-----------------------------------------------------------------------------
(* Sequences: what the queues of the sender do to each other.              *)

(* Appending to the second of two sequences appends to both. *)
LEMMA AppendToConcat ==
  \A p, q \in Seq(Message), e \in Message :
    Append(p \o q, e) = p \o Append(q, e)
<1> TAKE p, q \in Seq(Message), e \in Message
<1>1. p \o q \in Seq(Message) /\ <<e>> \in Seq(Message)
  BY ConcatProperties
<1>2. Append(p \o q, e) = (p \o q) \o <<e>>
  BY <1>1, AppendIsConcat
<1>3. Append(q, e) = q \o <<e>>
  BY AppendIsConcat
<1> QED BY <1>1, <1>2, <1>3, ConcatAssociative

(* A sequence that is not empty is its first element and its tail. *)
LEMMA FirstAndTail ==
  ASSUME NEW S, NEW q \in Seq(S), q # <<>>
  PROVE  q[1] \in S /\ Tail(q) \in Seq(S) /\ q = <<q[1]>> \o Tail(q)
<1>1. Len(q) \in Nat \ {0}
  BY EmptySeq
<1>2. 1 \in 1 .. Len(q) /\ Len(q) \in 1 .. Len(q)
  BY <1>1
<1>3. SubSeq(q, 1, Len(q)) = <<q[1]>> \o SubSeq(q, 1 + 1, Len(q))
  BY <1>2, SubSeqRecursiveFirst
<1>4. SubSeq(q, 1, Len(q)) = q
  BY SubSeqFull
<1>5. Tail(q) = SubSeq(q, 2, Len(q))
  BY TailIsSubSeq
<1>6. q[1] \in S
  BY <1>2, ElementOfSeq
<1>7. Tail(q) \in Seq(S)
  BY HeadTailProperties
<1> QED BY <1>3, <1>4, <1>5, <1>6, <1>7

(* The front of one sequence may move to the end of the one before it. *)
LEMMA MoveFront ==
  ASSUME NEW S, NEW p \in Seq(S), NEW q \in Seq(S), q # <<>>
  PROVE  p \o q = Append(p, q[1]) \o Tail(q)
<1>1. q[1] \in S /\ Tail(q) \in Seq(S) /\ q = <<q[1]>> \o Tail(q)
  BY FirstAndTail
<1>2. <<q[1]>> \in Seq(S)
  BY <1>1
<1>3. p \o (<<q[1]>> \o Tail(q)) = (p \o <<q[1]>>) \o Tail(q)
  BY <1>1, <1>2, ConcatAssociative
<1>4. Append(p, q[1]) = p \o <<q[1]>>
  BY <1>1, AppendIsConcat
<1> QED BY <1>1, <1>3, <1>4

-----------------------------------------------------------------------------
(* The messages of a sequence of encodings or of reports.                  *)

(* They are as many, and each is that of its record. *)
LEMMA MessagesTyped ==
  ASSUME NEW R, \A r \in R : r.message \in Message, NEW q \in Seq(R)
  PROVE  /\ Messages(q) \in Seq(Message)
         /\ Len(Messages(q)) = Len(q)
         /\ \A k \in 1 .. Len(q) : Messages(q)[k] = q[k].message
<1>1. DOMAIN q = 1 .. Len(q) /\ Len(q) \in Nat
  BY LenProperties
<1>2. \A k \in 1 .. Len(q) : q[k].message \in Message
  BY ElementOfSeq
<1>3. Messages(q) = [k \in 1 .. Len(q) |-> q[k].message]
  BY <1>1 DEF Messages
<1>4. Messages(q) \in [1 .. Len(q) -> Message]
  BY <1>2, <1>3
<1>5. Messages(q) \in Seq(Message)
  BY <1>1, <1>4, SeqDef
<1>6. DOMAIN Messages(q) = 1 .. Len(q)
  BY <1>3
<1>7. Len(Messages(q)) = Len(q)
  BY <1>1, <1>5, <1>6, LenProperties
<1> QED BY <1>3, <1>5, <1>7

(* A record more is a message more. *)
LEMMA MessagesAppend ==
  ASSUME NEW R, \A r \in R : r.message \in Message, NEW q \in Seq(R), NEW r \in R
  PROVE  Messages(Append(q, r)) = Append(Messages(q), r.message)
<1> DEFINE e == Append(q, r)
           M == Append(Messages(q), r.message)
<1>1. /\ e \in Seq(R) /\ Len(e) = Len(q) + 1
      /\ \A k \in 1 .. Len(q) : e[k] = q[k]
      /\ e[Len(q) + 1] = r
  BY AppendProperties
<1>2. /\ Messages(q) \in Seq(Message) /\ Len(Messages(q)) = Len(q)
      /\ \A k \in 1 .. Len(q) : Messages(q)[k] = q[k].message
  BY MessagesTyped
<1>3. r.message \in Message
  OBVIOUS
<1>4. /\ M \in Seq(Message) /\ Len(M) = Len(q) + 1
      /\ \A k \in 1 .. Len(q) : M[k] = q[k].message
      /\ M[Len(q) + 1] = r.message
  BY <1>2, <1>3, AppendProperties
<1> HIDE DEF e, M
<1>5. /\ Messages(e) \in Seq(Message) /\ Len(Messages(e)) = Len(q) + 1
      /\ \A k \in 1 .. Len(q) + 1 : Messages(e)[k] = e[k].message
  BY <1>1, MessagesTyped
<1>6. Len(q) \in Nat
  BY LenProperties
<1>7. \A k \in 1 .. Len(q) + 1 : Messages(e)[k] = M[k]
  <2> TAKE k \in 1 .. Len(q) + 1
  <2>1. CASE k \in 1 .. Len(q)
    BY <1>1, <1>4, <1>5, <2>1
  <2>2. CASE k = Len(q) + 1
    BY <1>1, <1>4, <1>5, <2>2
  <2> QED BY <1>6, <2>1, <2>2
<1>8. Messages(e) = M
  BY <1>4, <1>5, <1>7, SeqEqual
<1> QED BY <1>8 DEF e, M

(* The messages of two sequences, one behind the other. *)
LEMMA MessagesConcat ==
  ASSUME NEW p \in Seq(Encoding), NEW q \in Seq(Encoding)
  PROVE  Messages(p \o q) = Messages(p) \o Messages(q)
<1> DEFINE e == p \o q
           M == Messages(p) \o Messages(q)
<1>1. \A r \in Encoding : r.message \in Message
  BY DEF Encoding
<1>2. /\ Len(p) \in Nat /\ Len(q) \in Nat
      /\ Messages(p) \in Seq(Message) /\ Len(Messages(p)) = Len(p)
      /\ \A k \in 1 .. Len(p) : Messages(p)[k] = p[k].message
      /\ Messages(q) \in Seq(Message) /\ Len(Messages(q)) = Len(q)
      /\ \A k \in 1 .. Len(q) : Messages(q)[k] = q[k].message
  BY <1>1, MessagesTyped, LenProperties
<1>3. /\ e \in Seq(Encoding) /\ Len(e) = Len(p) + Len(q)
      /\ \A k \in 1 .. Len(p) + Len(q) :
           e[k] = IF k <= Len(p) THEN p[k] ELSE q[k - Len(p)]
  BY ConcatProperties
<1>4. /\ M \in Seq(Message) /\ Len(M) = Len(p) + Len(q)
      /\ \A k \in 1 .. Len(p) + Len(q) :
           M[k] = IF k <= Len(p) THEN Messages(p)[k] ELSE Messages(q)[k - Len(p)]
  <2> DEFINE mp == Messages(p)
             mq == Messages(q)
  <2>1. mp \in Seq(Message) /\ mq \in Seq(Message)
          /\ Len(mp) = Len(p) /\ Len(mq) = Len(q)
    BY <1>2
  <2> HIDE DEF mp, mq
  <2>2. /\ mp \o mq \in Seq(Message)
        /\ Len(mp \o mq) = Len(p) + Len(q)
        /\ \A k \in 1 .. Len(p) + Len(q) :
             (mp \o mq)[k] = IF k <= Len(p) THEN mp[k] ELSE mq[k - Len(p)]
    <3>1. /\ mp \o mq \in Seq(Message)
          /\ Len(mp \o mq) = Len(mp) + Len(mq)
          /\ \A k \in 1 .. Len(mp) + Len(mq) :
               (mp \o mq)[k] = IF k <= Len(mp) THEN mp[k] ELSE mq[k - Len(mp)]
      BY ONLY <2>1, ConcatProperties
    <3> QED BY ONLY <2>1, <3>1
  <2> QED BY <2>2 DEF mp, mq
<1> HIDE DEF e, M
<1>5. /\ Messages(e) \in Seq(Message) /\ Len(Messages(e)) = Len(p) + Len(q)
      /\ \A k \in 1 .. Len(p) + Len(q) : Messages(e)[k] = e[k].message
  BY <1>1, <1>3, MessagesTyped
<1>6. \A k \in 1 .. Len(p) + Len(q) : Messages(e)[k] = M[k]
  <2> TAKE k \in 1 .. Len(p) + Len(q)
  <2>1. CASE k <= Len(p)
    <3>1. k \in 1 .. Len(p)
      BY <1>2, <2>1
    <3> QED BY <1>2, <1>3, <1>4, <1>5, <2>1, <3>1
  <2>2. CASE ~(k <= Len(p))
    <3>1. k - Len(p) \in 1 .. Len(q)
      BY <1>2, <2>2
    <3> QED BY <1>2, <1>3, <1>4, <1>5, <2>2, <3>1
  <2> QED BY <2>1, <2>2
<1>7. Messages(e) = M
  BY <1>4, <1>5, <1>6, SeqEqual
<1> QED BY <1>7 DEF e, M

-----------------------------------------------------------------------------
(* The send handler hears of every message once and in order.              *)

ReportInv == TypeInv /\ ReportConservation

LEMMA ReportedTyped ==
  ASSUME TypeInv
  PROVE  ReportedMessages \in Seq(Message) /\ Len(ReportedMessages) = Len(reported)
<1> DEFINE R == [message : Message, ok : BOOLEAN]
<1>1. reported \in Seq(R) /\ \A r \in R : r.message \in Message
  BY DEF TypeInv, TypeOK
<1> HIDE DEF R
<1> QED BY <1>1, MessagesTyped DEF ReportedMessages

LEMMA UnreportedTyped == TypeInv => Unreported \in Seq(Message)
<1> SUFFICES ASSUME TypeInv PROVE Unreported \in Seq(Message)
  OBVIOUS
<1>1. messages_ \in Seq(Message) /\ (threw = "handler" => messages_ # <<>>)
  BY DEF TypeInv, TypeOK, FrontStays
<1>2. messages_ # <<>> => Tail(messages_) \in Seq(Message)
  BY <1>1, HeadTailProperties
<1> QED BY <1>1, <1>2 DEF Unreported

(* A report appends its message to the reported ones. *)
LEMMA ReportAppends ==
  ASSUME TypeInv, messages_ # <<>>, NEW ok \in BOOLEAN, Completed(ok)
  PROVE  ReportedMessages' = Append(ReportedMessages, Front)
<1> DEFINE r == [message |-> Front, ok |-> ok]
           R == [message : Message, ok : BOOLEAN]
<1>1. reported \in Seq(R) /\ reported' = Append(reported, r)
  BY DEF TypeInv, TypeOK, Completed
<1>2. Front \in Message
  BY ElementOfSeq, EmptySeq DEF TypeInv, TypeOK, Front
<1>3. r \in R /\ r.message = Front /\ \A x \in R : x.message \in Message
  BY <1>2
<1> HIDE DEF r, R
<1>4. Messages(Append(reported, r)) = Append(Messages(reported), r.message)
  BY <1>1, <1>3, MessagesAppend
<1> QED BY <1>1, <1>3, <1>4 DEF ReportedMessages

(* What a completion reports is the oldest message not reported yet. *)
LEMMA CompletionReports ==
  ASSUME ReportInv, writing > 0, NEW ok \in BOOLEAN, Completed(ok),
         NEW buffer \in Seq(Encoding),
         HandlerReturns(buffer) \/ HandlerThrows(buffer)
  PROVE  ReportedMessages' \o Unreported' = ReportedMessages \o Unreported
<1>1. messages_ # <<>> /\ threw = "none"
  BY CompletionTyped DEF ReportInv
<1>2. messages_ \in Seq(Message) /\ ReportedMessages \in Seq(Message)
  BY ReportedTyped DEF ReportInv, TypeInv, TypeOK
<1>3. ReportedMessages' = Append(ReportedMessages, Front)
  BY <1>1, ReportAppends DEF ReportInv
<1>4. Unreported = messages_
  BY <1>1 DEF Unreported
<1>5. Unreported' = Tail(messages_)
  BY <1>1 DEF Unreported, HandlerReturns, HandlerThrows, SendQueueMessage
<1> QED BY <1>1, <1>2, <1>3, <1>4, <1>5, MoveFront DEF Front

LEMMA ReportInvInductive == ReportInv /\ [Next]_vars => ReportInv'
<1> SUFFICES ASSUME ReportInv, [Next]_vars PROVE ReportInv'
  OBVIOUS
<1>1. TypeInv /\ TypeInv'
  BY TypeInvInductive DEF ReportInv
<1>2. ReportedMessages \in Seq(Message) /\ Unreported \in Seq(Message)
        /\ strand \in Seq(Message)
  BY <1>1, ReportedTyped, UnreportedTyped DEF TypeInv, TypeOK
<1>3. ReportedMessages \o Unreported \in Seq(Message)
  BY <1>2, ConcatProperties
<1>4. posted = (ReportedMessages \o Unreported) \o strand
  BY DEF ReportInv, ReportConservation
<1> SUFFICES ReportConservation'
  BY <1>1 DEF ReportInv
<1>5. CASE UNCHANGED <<reported, threw, messages_, posted, strand>>
  BY <1>4, <1>5 DEF ReportConservation, ReportedMessages, Unreported
<1>6. ASSUME NEW c \in Callers, SendAction(c) \/ IncrementId(c) \/ SendReply(c)
      PROVE  ReportConservation'
  BY <1>5, <1>6 DEF SendAction, IncrementId, SendReply, queueVars
<1>7. ASSUME NEW c \in Callers, Post(c) PROVE ReportConservation'
  <2>1. outgoing[c] \in Message
    BY <1>1 DEF TypeInv, TypeOK
  <2>2. /\ posted' = Append(posted, outgoing[c])
        /\ strand' = Append(strand, outgoing[c])
        /\ UNCHANGED <<reported, threw, messages_>>
    BY <1>7 DEF Post, queueVars
  <2>3. Append((ReportedMessages \o Unreported) \o strand, outgoing[c])
          = (ReportedMessages \o Unreported) \o Append(strand, outgoing[c])
    BY <1>2, <1>3, <2>1, AppendToConcat, Zenon
  <2>4. posted' = (ReportedMessages \o Unreported) \o strand'
    BY <1>4, <2>2, <2>3, Zenon
  <2> QED BY <2>2, <2>4 DEF ReportConservation, ReportedMessages, Unreported
<1>8. ASSUME RunSendMessage PROVE ReportConservation'
  <2>1. /\ strand # <<>> /\ strand' = Tail(strand)
        /\ messages_' = Append(messages_, strand[1])
        /\ UNCHANGED <<posted, reported>>
    BY <1>8 DEF RunSendMessage
  <2>2. strand[1] \in Message
    BY <1>2, <2>1, FirstAndTail
  <2>3. Unreported' = Append(Unreported, strand[1])
    <3>1. messages_ \in Seq(Message) /\ (threw # "none" => messages_ # <<>>)
      BY <1>1 DEF TypeInv, TypeOK, FrontStays
    <3>2. CASE messages_ = <<>>
      <4>1. threw # "handler" /\ threw' # "handler"
        BY <1>8, <3>1, <3>2 DEF RunSendMessage, SendQueueMessage
      <4> QED BY <2>1, <4>1 DEF Unreported
    <3>3. CASE messages_ # <<>>
      <4>1. threw' = threw
        BY <1>8, <3>3 DEF RunSendMessage
      <4>2. Tail(Append(messages_, strand[1])) = Append(Tail(messages_), strand[1])
        BY <2>2, <3>1, <3>3, HeadTailAppend
      <4> QED BY <2>1, <4>1, <4>2 DEF Unreported
    <3> QED BY <3>2, <3>3
  <2>4. posted = Append(ReportedMessages \o Unreported, strand[1]) \o Tail(strand)
    BY <1>2, <1>3, <1>4, <2>1, MoveFront
  <2>5. Append(ReportedMessages \o Unreported, strand[1])
          = ReportedMessages \o Append(Unreported, strand[1])
    BY <1>2, <2>2, AppendToConcat, Zenon
  <2>6. ReportedMessages' = ReportedMessages
    BY <2>1 DEF ReportedMessages
  <2> QED BY <2>1, <2>3, <2>4, <2>5, <2>6 DEF ReportConservation
<1>9. ASSUME WriteSucceeds PROVE ReportConservation'
  <2>1. <<>> \in Seq(Encoding)
    BY EmptySeq
  <2>2. ReportedMessages' \o Unreported' = ReportedMessages \o Unreported
    BY <1>9, <2>1, CompletionReports DEF WriteSucceeds
  <2> QED BY <1>4, <1>9, <2>2 DEF WriteSucceeds, ReportConservation
<1>10. ASSUME WriteFails PROVE ReportConservation'
  <2>1. PICK n \in 0 .. Len(send_buffer_) - 1 :
          /\ Transfer(n)
          /\ HandlerReturns(Remainder(n)) \/ HandlerThrows(Remainder(n))
    BY <1>10 DEF WriteFails
  <2>2. n \in 0 .. Len(send_buffer_)
    BY <1>1 DEF TypeInv, TypeOK
  <2>3. Remainder(n) \in Seq(Encoding)
    BY <1>1, <2>1, <2>2, TransferTyped
  <2>4. ReportedMessages' \o Unreported' = ReportedMessages \o Unreported
    BY <1>10, <2>1, <2>3, CompletionReports DEF WriteFails
  <2> QED BY <1>4, <1>10, <2>4 DEF WriteFails, ReportConservation
<1>11. CASE SetProtocol
  BY <1>5, <1>11 DEF SetProtocol, queueVars
<1>12. CASE UNCHANGED vars
  BY <1>5, <1>12 DEF vars, queueVars
<1> QED
  BY <1>6, <1>7, <1>8, <1>9, <1>10, <1>11, <1>12 DEF Next, Caller, Strand

LEMMA ReportInvInit == Init => ReportInv
<1> SUFFICES ASSUME Init PROVE ReportInv
  OBVIOUS
<1>1. ReportedMessages \in Seq(Message) /\ Len(ReportedMessages) = 0
  BY TypeInvInit, ReportedTyped DEF Init
<1>2. ReportedMessages = <<>>
  BY <1>1, EmptySeq
<1>3. Unreported = <<>> /\ strand = <<>> /\ posted = <<>>
  BY DEF Init, Unreported
<1>4. <<>> \o <<>> = <<>>
  BY EmptySeq, ConcatEmptySeq
<1> QED BY <1>2, <1>3, <1>4, TypeInvInit DEF ReportInv, ReportConservation

(* Every posted message is reported to the send handler at most once, in   *)
(* the order of posting, and those not reported yet are still queued.      *)
THEOREM ReportsInOrder == Spec => []ReportConservation
<1>1. ReportInv => ReportConservation
  BY DEF ReportInv
<1> QED BY <1>1, ReportInvInit, ReportInvInductive, PTL DEF Spec

-----------------------------------------------------------------------------
(* No message is lost, doubled or overtaken on its way to the stream.      *)

WireInv == TypeInv /\ WireConservation

(* The messages on the wire and in the buffer. *)
Wired == Messages(wire)
Buffered == Messages(send_buffer_)

LEMMA BuffersTyped ==
  ASSUME TypeInv
  PROVE  /\ \A r \in Encoding : r.message \in Message
         /\ wire \in Seq(Encoding) /\ send_buffer_ \in Seq(Encoding)
         /\ Wired \in Seq(Message) /\ Buffered \in Seq(Message)
         /\ Messages(wire \o send_buffer_) = Wired \o Buffered
<1>1. \A r \in Encoding : r.message \in Message
  BY DEF Encoding
<1>2. wire \in Seq(Encoding) /\ send_buffer_ \in Seq(Encoding)
  BY DEF TypeInv, TypeOK
<1>3. Messages(wire) \in Seq(Message) /\ Messages(send_buffer_) \in Seq(Message)
  BY <1>1, <1>2, MessagesTyped
<1>4. Messages(wire \o send_buffer_) = Messages(wire) \o Messages(send_buffer_)
  BY <1>2, MessagesConcat
<1> QED BY <1>1, <1>2, <1>3, <1>4 DEF Wired, Buffered

LEMMA WaitingTyped ==
  TypeInv =>
    /\ Waiting \in Seq(Message)
    /\ threw = "none" /\ messages_ # <<>> => Waiting = Tail(messages_)
<1> SUFFICES ASSUME TypeInv
             PROVE  /\ Waiting \in Seq(Message)
                    /\ threw = "none" /\ messages_ # <<>> => Waiting = Tail(messages_)
  OBVIOUS
<1>1. messages_ \in Seq(Message)
  BY DEF TypeInv, TypeOK
<1>2. messages_ # <<>> => Tail(messages_) \in Seq(Message)
  BY <1>1, HeadTailProperties
<1> QED BY <1>1, <1>2 DEF Waiting

(* An encoding more is its message more, in the buffer as on the wire. *)
LEMMA BufferGrows ==
  ASSUME NEW q \in Seq(Encoding), NEW m \in Message
  PROVE  Messages(Append(q, Encode(m))) = Append(Messages(q), m)
<1>1. Encode(m) \in Encoding /\ Encode(m).message = m
  BY EncodingTyped
<1>2. \A r \in Encoding : r.message \in Message
  BY DEF Encoding
<1> QED BY <1>1, <1>2, MessagesAppend

(* What the stream takes of the buffer leaves the remainder behind. *)
LEMMA TransferKeeps ==
  ASSUME TypeInv, NEW n \in 0 .. Len(send_buffer_), Transfer(n)
  PROVE  Wired' \o Messages(Remainder(n)) = Wired \o Buffered
<1> DEFINE taken == SubSeq(send_buffer_, 1, n)
<1>1. send_buffer_ \in Seq(Encoding) /\ wire \in Seq(Encoding)
  BY DEF TypeInv, TypeOK
<1>2. taken \in Seq(Encoding) /\ Remainder(n) \in Seq(Encoding)
  BY <1>1 DEF Remainder
<1>3. send_buffer_ = taken \o Remainder(n)
  <2>1. Len(send_buffer_) \in Nat
    BY <1>1
  <2>2. SubSeq(send_buffer_, 1, Len(send_buffer_)) = send_buffer_
    BY <1>1, SubSeqFull
  <2>3. SubSeq(send_buffer_, 1, Len(send_buffer_))
          = SubSeq(send_buffer_, 1, n)
              \o SubSeq(send_buffer_, n + 1, Len(send_buffer_))
    <3>1. /\ 1 \in 1 .. Len(send_buffer_) + 1
          /\ n \in 1 - 1 .. Len(send_buffer_)
          /\ Len(send_buffer_) \in n .. Len(send_buffer_)
      BY <2>1
    <3> QED BY ONLY <1>1, <3>1, ConcatAdjacentSubSeq
  <2> QED BY <2>2, <2>3 DEF Remainder
<1>4. wire' = wire \o taken
  BY DEF Transfer
<1> HIDE DEF taken
<1>5. wire \o (taken \o Remainder(n)) = (wire \o taken) \o Remainder(n)
  BY <1>1, <1>2, ConcatAssociative
<1>6. wire' \in Seq(Encoding)
  BY TransferTyped
<1>7. Messages(wire' \o Remainder(n)) = Messages(wire') \o Messages(Remainder(n))
  BY <1>2, <1>6, MessagesConcat
<1>8. Messages(wire \o send_buffer_) = Wired \o Buffered
  BY BuffersTyped
<1> QED BY <1>3, <1>4, <1>5, <1>7, <1>8 DEF Wired

(* A write moves what it took, and its handler the next message behind the *)
(* remainder unless encode throws for it, so that what is written,         *)
(* buffered and waiting is the same.                                       *)
LEMMA CompletionMoves ==
  ASSUME TypeInv, writing > 0, NEW n \in 0 .. Len(send_buffer_), Transfer(n),
         HandlerReturns(Remainder(n)) \/ HandlerThrows(Remainder(n))
  PROVE  Wired' \o Buffered' \o Waiting' = Wired \o Buffered \o Waiting
<1> DEFINE rest == Remainder(n)
           kept == Messages(Remainder(n))
<1>1. messages_ # <<>> /\ messages_ \in Seq(Message) /\ threw = "none"
  BY DEF TypeInv, TypeOK, WriteInFlight
<1>2. /\ Wired' \in Seq(Message) /\ rest \in Seq(Encoding)
      /\ kept \in Seq(Message)
  <2>1. \A r \in Encoding : r.message \in Message
    BY BuffersTyped
  <2>2. wire' \in Seq(Encoding) /\ rest \in Seq(Encoding)
    BY TransferTyped
  <2> QED BY <2>1, <2>2, MessagesTyped DEF Wired
<1>3. Wired' \o kept = Wired \o Buffered
  BY TransferKeeps
<1>4. Waiting = Tail(messages_) /\ Tail(messages_) \in Seq(Message)
  BY <1>1, HeadTailProperties, WaitingTyped
<1>5. CASE Buffered' = kept /\ Waiting' = Waiting
  BY <1>3, <1>5
<1>6. CASE HandlerThrows(rest)
  <2>1. send_buffer_' = rest /\ messages_' = messages_ /\ threw' = "handler"
    BY <1>6 DEF HandlerThrows
  <2> QED BY <1>1, <1>4, <1>5, <2>1 DEF Waiting, Buffered
<1>7. CASE HandlerReturns(rest) /\ Tail(messages_) = <<>>
  <2>1. send_buffer_' = rest /\ messages_' = <<>>
    BY <1>7 DEF HandlerReturns
  <2> QED BY <1>4, <1>5, <1>7, <2>1 DEF Waiting, Buffered
<1>8. CASE HandlerReturns(rest) /\ Tail(messages_) # <<>>
  <2> DEFINE next == Tail(messages_)[1]
  <2>1. messages_' = Tail(messages_) /\ SendQueueMessage(rest, next, writing - 1)
    BY <1>8 DEF HandlerReturns
  <2>2. next \in Message
    BY <1>4, <1>8, FirstAndTail
  <2>3. CASE protocol_ = "compressed"
    <3>1. send_buffer_' = rest /\ threw' = "encode"
      BY <2>1, <2>3 DEF SendQueueMessage
    <3> QED BY <1>4, <1>5, <2>1, <3>1 DEF Waiting, Buffered
  <2>4. CASE protocol_ # "compressed"
    <3> HIDE DEF rest
    <3>1. send_buffer_' = Append(rest, Encode(next)) /\ threw' = "none"
      BY <1>1, <2>1, <2>4 DEF SendQueueMessage
    <3>2. Waiting' = Tail(Tail(messages_))
      BY <1>8, <2>1, <3>1 DEF Waiting
    <3> HIDE DEF next
    <3>3. Buffered' = Append(Messages(rest), next)
      BY <1>2, <2>2, <3>1, BufferGrows DEF Buffered
    <3>4. Messages(rest) = kept
      BY DEF rest
    <3> HIDE DEF kept
    <3>5. Append(Wired' \o kept, next) = Wired' \o Append(kept, next)
      BY <1>2, <2>2, AppendToConcat
    <3>6. Wired' \o kept \in Seq(Message)
      BY <1>2, ConcatProperties
    <3>7. (Wired' \o kept) \o Tail(messages_)
            = Append(Wired' \o kept, next) \o Tail(Tail(messages_))
      BY <1>4, <1>8, <3>6, MoveFront DEF next
    <3> QED BY <1>3, <1>4, <3>2, <3>3, <3>4, <3>5, <3>7
  <2> QED BY <2>3, <2>4
<1> QED BY <1>6, <1>7, <1>8

LEMMA WireInvInductive == WireInv /\ [Next]_vars => WireInv'
<1> SUFFICES ASSUME WireInv, [Next]_vars PROVE WireInv'
  OBVIOUS
<1>1. TypeInv /\ TypeInv'
  BY TypeInvInductive DEF WireInv
<1>2. /\ Wired \in Seq(Message) /\ Buffered \in Seq(Message)
      /\ Waiting \in Seq(Message) /\ strand \in Seq(Message)
      /\ send_buffer_ \in Seq(Encoding)
  BY <1>1, BuffersTyped, WaitingTyped DEF TypeInv, TypeOK
<1>3. posted = Wired \o Buffered \o Waiting \o strand
  BY <1>1, BuffersTyped DEF WireInv, WireConservation
<1>4. /\ Wired \o Buffered \in Seq(Message)
      /\ Wired \o Buffered \o Waiting \in Seq(Message)
  BY <1>2, ConcatProperties
<1> SUFFICES posted' = Wired' \o Buffered' \o Waiting' \o strand'
  <2>1. wire' \in Seq(Encoding) /\ send_buffer_' \in Seq(Encoding)
    BY <1>1 DEF TypeInv, TypeOK
  <2>2. Messages(wire' \o send_buffer_') = Wired' \o Buffered'
    BY <2>1, MessagesConcat DEF Wired, Buffered
  <2> QED BY <1>1, <2>2 DEF WireInv, WireConservation
<1> DEFINE Goal == posted' = Wired' \o Buffered' \o Waiting' \o strand'
<1>5. CASE UNCHANGED <<wire, send_buffer_, messages_, threw, posted, strand>>
  BY <1>3, <1>5 DEF Wired, Buffered, Waiting
<1>6. ASSUME NEW c \in Callers, SendAction(c) \/ IncrementId(c) \/ SendReply(c)
      PROVE  Goal
  BY <1>5, <1>6 DEF SendAction, IncrementId, SendReply, queueVars
<1>7. ASSUME NEW c \in Callers, Post(c) PROVE Goal
  <2>1. outgoing[c] \in Message
    BY <1>1 DEF TypeInv, TypeOK
  <2>2. /\ posted' = Append(posted, outgoing[c])
        /\ strand' = Append(strand, outgoing[c])
        /\ UNCHANGED <<wire, send_buffer_, messages_, threw>>
    BY <1>7 DEF Post, queueVars
  <2>3. Append((Wired \o Buffered \o Waiting) \o strand, outgoing[c])
          = (Wired \o Buffered \o Waiting) \o Append(strand, outgoing[c])
    BY <1>2, <1>4, <2>1, AppendToConcat
  <2>4. UNCHANGED <<Wired, Buffered, Waiting>>
    BY <2>2 DEF Wired, Buffered, Waiting
  <2> QED BY <1>3, <2>2, <2>3, <2>4
<1>8. ASSUME RunSendMessage PROVE Goal
  <2> DEFINE m == strand[1]
  <2>1. /\ strand # <<>> /\ strand' = Tail(strand)
        /\ messages_' = Append(messages_, m)
        /\ UNCHANGED <<posted, wire>>
    BY <1>8 DEF RunSendMessage
  <2>2. m \in Message
    BY <1>2, <2>1, FirstAndTail
  <2>3. messages_ \in Seq(Message)
    BY <1>1 DEF TypeInv, TypeOK
  <2>4. posted = Append(Wired \o Buffered \o Waiting, m) \o Tail(strand)
    BY <1>2, <1>3, <1>4, <2>1, MoveFront
  <2>5. messages_' # <<>> /\ Tail(messages_')
          = IF messages_ = <<>> THEN <<>> ELSE Append(Tail(messages_), m)
    BY <2>1, <2>2, <2>3, HeadTailAppend, AppendProperties
  <2>6. Wired' = Wired
    BY <2>1 DEF Wired
  <2>7. CASE /\ Buffered' = Buffered /\ Waiting' = Append(Waiting, m)
    <3> HIDE DEF m
    <3>1. Append((Wired \o Buffered) \o Waiting, m)
            = (Wired \o Buffered) \o Append(Waiting, m)
      BY <1>2, <1>4, <2>2, AppendToConcat
    <3> QED BY <2>1, <2>4, <2>6, <2>7, <3>1
  <2>8. CASE messages_ # <<>>
    <3>1. UNCHANGED <<send_buffer_, threw>>
      BY <1>8, <2>8 DEF RunSendMessage
    <3>2. Waiting' = Append(Waiting, m)
      BY <2>1, <2>5, <2>8, <3>1 DEF Waiting
    <3> QED BY <2>7, <3>1, <3>2 DEF Buffered
  <2>9. CASE messages_ = <<>>
    <3>1. Waiting = <<>> /\ threw = "none"
      BY <1>1, <2>9 DEF Waiting, TypeInv, FrontStays
    <3>2. SendQueueMessage(send_buffer_, m, writing)
      BY <1>8, <2>9 DEF RunSendMessage
    <3>3. CASE protocol_ = "compressed"
      <4>1. send_buffer_' = send_buffer_ /\ threw' = "encode"
        BY <3>2, <3>3 DEF SendQueueMessage
      <4>2. Waiting' = Append(Waiting, m)
        BY <2>1, <2>9, <3>1, <4>1 DEF Waiting
      <4> QED BY <2>7, <4>1, <4>2 DEF Buffered
    <3>4. CASE protocol_ # "compressed"
      <4>1. send_buffer_' = Append(send_buffer_, Encode(m)) /\ threw' = "none"
        BY <3>1, <3>2, <3>4 DEF SendQueueMessage
      <4>2. Waiting' = <<>>
        BY <2>5, <2>9, <4>1 DEF Waiting
      <4>3. Buffered' = Append(Buffered, m)
        BY <1>2, <2>2, <4>1, BufferGrows DEF Buffered
      <4> HIDE DEF m
      <4>4. Append(Wired \o Buffered, m) = Wired \o Append(Buffered, m)
        BY <1>2, <2>2, AppendToConcat
      <4>5. Wired \o Buffered \o <<>> = Wired \o Buffered
        BY <1>4, ConcatEmptySeq
      <4>6. Append(Buffered, m) \in Seq(Message)
        BY <1>2, <2>2, AppendProperties
      <4>7. (Wired \o Append(Buffered, m)) \o <<>> = Wired \o Append(Buffered, m)
        BY <1>2, <4>6, ConcatProperties, ConcatEmptySeq
      <4> QED BY <2>1, <2>4, <2>6, <3>1, <4>2, <4>3, <4>4, <4>5, <4>7
    <3> QED BY <3>3, <3>4
  <2> QED BY <2>8, <2>9
<1>9. ASSUME NEW n \in 0 .. Len(send_buffer_), writing > 0, Transfer(n),
             HandlerReturns(Remainder(n)) \/ HandlerThrows(Remainder(n)),
             UNCHANGED <<strand, posted>>
      PROVE  Goal
  BY <1>1, <1>3, <1>9, CompletionMoves
<1>10. ASSUME WriteSucceeds PROVE Goal
  <2>1. Len(send_buffer_) \in 0 .. Len(send_buffer_)
    BY <1>2
  <2>2. Remainder(Len(send_buffer_)) = <<>>
    BY <1>2, SubSeqEmpty DEF Remainder
  <2> QED BY <1>9, <1>10, <2>1, <2>2 DEF WriteSucceeds
<1>11. ASSUME WriteFails PROVE Goal
  <2>1. PICK n \in 0 .. Len(send_buffer_) - 1 :
          /\ Transfer(n)
          /\ HandlerReturns(Remainder(n)) \/ HandlerThrows(Remainder(n))
    BY <1>11 DEF WriteFails
  <2>2. n \in 0 .. Len(send_buffer_)
    BY <1>2
  <2> QED BY <1>9, <1>11, <2>1, <2>2 DEF WriteFails
<1>12. CASE SetProtocol
  BY <1>5, <1>12 DEF SetProtocol, queueVars
<1>13. CASE UNCHANGED vars
  BY <1>5, <1>13 DEF vars, queueVars
<1> QED
  BY <1>6, <1>7, <1>8, <1>10, <1>11, <1>12, <1>13 DEF Next, Caller, Strand

LEMMA WireInvInit == Init => WireInv
<1> SUFFICES ASSUME Init PROVE WireInv
  OBVIOUS
<1>1. /\ wire = <<>> /\ send_buffer_ = <<>> /\ Waiting = <<>>
      /\ strand = <<>> /\ posted = <<>>
  BY DEF Init, Waiting
<1>2. <<>> \o <<>> = <<>>
  BY EmptySeq, ConcatEmptySeq
<1>3. TypeInv
  BY TypeInvInit
<1>4. Wired \in Seq(Message) /\ Len(Wired) = 0 /\ Buffered = Wired
  BY <1>1, <1>3, BuffersTyped, MessagesTyped DEF Wired, Buffered
<1>5. Wired = <<>>
  BY <1>4, EmptySeq
<1>6. Messages(wire \o send_buffer_) = <<>>
  BY <1>2, <1>3, <1>4, <1>5, BuffersTyped
<1> QED BY <1>1, <1>2, <1>3, <1>6 DEF WireInv, WireConservation

(* Whatever writes fail, and whatever they leave in the buffer: the stream *)
(* gets the posted messages in their order, each once, and those it has    *)
(* not got are still in the buffer, in the queue or posted.  It holds also *)
(* when the send handler throws, which leaves its message on the wire and  *)
(* in the queue, and when encode does, which leaves its in the queue only. *)
THEOREM NothingLost == Spec => []WireConservation
<1>1. WireInv => WireConservation
  BY DEF WireInv
<1> QED BY <1>1, WireInvInit, WireInvInductive, PTL DEF Spec

-----------------------------------------------------------------------------
(* A message reported as sent is on the wire, in its place.                *)

SuccessInv == ReportInv /\ WireConservation /\ SuccessIsOnWire

(* A completed write has put the message it is reported for on the wire:   *)
(* the reported and the written messages are beginnings of the posted ones *)
(* and the buffer is all that lies between them, but for the front.        *)
LEMMA WrittenIsFront ==
  ASSUME SuccessInv, writing > 0, Transfer(Len(send_buffer_))
  PROVE  /\ Len(wire') = Len(reported) + 1
         /\ wire'[Len(reported) + 1].message = Front
<1>1. TypeInv
  BY DEF SuccessInv, ReportInv
<1>2. messages_ # <<>> /\ threw = "none"
  BY <1>1 DEF TypeInv, TypeOK, WriteInFlight
<1>3. /\ wire \in Seq(Encoding) /\ send_buffer_ \in Seq(Encoding)
      /\ messages_ \in Seq(Message) /\ strand \in Seq(Message)
      /\ ReportedMessages \in Seq(Message)
      /\ Len(ReportedMessages) = Len(reported)
  BY <1>1, ReportedTyped DEF TypeInv, TypeOK
<1>4. Waiting = Tail(messages_)
  BY <1>1, <1>2, WaitingTyped
<1>5. Tail(messages_) \in Seq(Message) /\ Len(Tail(messages_)) = Len(messages_) - 1
  BY <1>2, <1>3, HeadTailProperties
<1>6. wire' = wire \o send_buffer_
  <2>1. SubSeq(send_buffer_, 1, Len(send_buffer_)) = send_buffer_
    BY <1>3, SubSeqFull
  <2> QED BY <2>1 DEF Transfer
<1> DEFINE written == Messages(wire')
<1>7. /\ written \in Seq(Message) /\ Len(written) = Len(wire')
      /\ \A k \in 1 .. Len(wire') : written[k] = wire'[k].message
  <2>1. wire' \in Seq(Encoding)
    BY <1>3, <1>6, ConcatProperties
  <2>2. \A r \in Encoding : r.message \in Message
    BY DEF Encoding
  <2> QED BY <2>1, <2>2, MessagesTyped
<1>8. posted = (ReportedMessages \o messages_) \o strand
  BY <1>2 DEF SuccessInv, ReportInv, ReportConservation, Unreported
<1>9. posted = (written \o Tail(messages_)) \o strand
  BY <1>4, <1>6 DEF SuccessInv, WireConservation
<1> HIDE DEF written
<1>10. /\ ReportedMessages \o messages_ \in Seq(Message)
       /\ written \o Tail(messages_) \in Seq(Message)
       /\ Len(ReportedMessages \o messages_) = Len(reported) + Len(messages_)
       /\ Len(written \o Tail(messages_)) = Len(written) + (Len(messages_) - 1)
  <2>1. /\ ReportedMessages \o messages_ \in Seq(Message)
        /\ Len(ReportedMessages \o messages_)
             = Len(ReportedMessages) + Len(messages_)
    BY <1>3, ConcatProperties
  <2>2. /\ written \o Tail(messages_) \in Seq(Message)
        /\ Len(written \o Tail(messages_)) = Len(written) + Len(Tail(messages_))
    BY <1>5, <1>7, ConcatProperties
  <2> QED BY <1>3, <1>5, <2>1, <2>2
<1>11. /\ Len(written) \in Nat /\ Len(reported) \in Nat
       /\ Len(messages_) \in Nat \ {0} /\ Len(strand) \in Nat
  BY <1>2, <1>3, <1>7, EmptySeq, LenProperties
<1>12. Len(written) = Len(reported) + 1
  <2>1. Len(posted) = (Len(reported) + Len(messages_)) + Len(strand)
    <3>1. Len(posted) = Len(ReportedMessages \o messages_) + Len(strand)
      BY ONLY <1>3, <1>8, <1>10, ConcatProperties
    <3> QED BY <1>10, <3>1
  <2>2. Len(posted) = (Len(written) + (Len(messages_) - 1)) + Len(strand)
    BY <1>3, <1>9, <1>10, ConcatProperties
  <2> QED BY <1>11, <2>1, <2>2
<1> DEFINE k == Len(reported) + 1
<1>13. posted[k] = messages_[1]
  <2>1. (ReportedMessages \o messages_)[k] = messages_[1]
    BY <1>3, <1>11, ConcatProperties
  <2> QED BY <1>3, <1>8, <1>10, <1>11, <2>1, ConcatProperties
<1>14. posted[k] = written[k]
  <2>1. (written \o Tail(messages_))[k] = written[k]
    BY <1>5, <1>7, <1>11, <1>12, ConcatProperties
  <2> QED BY <1>3, <1>9, <1>10, <1>11, <1>12, <2>1, ConcatProperties
<1>15. written[k] = wire'[k].message
  BY <1>7, <1>11, <1>12
<1> QED BY <1>7, <1>12, <1>13, <1>14, <1>15 DEF Front

(* The wire only grows, and what is on it stays where it is. *)
LEMMA WireGrows ==
  ASSUME TypeInv, NEW n \in 0 .. Len(send_buffer_), Transfer(n)
  PROVE  /\ Len(wire) \in Nat /\ Len(wire') \in Nat
         /\ Len(wire) <= Len(wire')
         /\ \A k \in 1 .. Len(wire) : wire'[k] = wire[k]
<1> DEFINE taken == SubSeq(send_buffer_, 1, n)
<1>1. wire \in Seq(Encoding) /\ taken \in Seq(Encoding)
  <2>1. wire \in Seq(Encoding) /\ send_buffer_ \in Seq(Encoding)
    BY DEF TypeInv, TypeOK
  <2> QED BY <2>1
<1>2. wire' = wire \o taken
  BY DEF Transfer
<1> HIDE DEF taken
<1> QED BY <1>1, <1>2, ConcatProperties, LenProperties

(* What was reported before stays true when a completion reports one more. *)
LEMMA ReportStays ==
  ASSUME SuccessInv, messages_ # <<>>, NEW ok \in BOOLEAN, Completed(ok),
         Len(wire) \in Nat, Len(wire') \in Nat, Len(wire) <= Len(wire'),
         \A k \in 1 .. Len(wire) : wire'[k] = wire[k],
         ok => /\ Len(reported) + 1 <= Len(wire')
               /\ wire'[Len(reported) + 1].message = Front
  PROVE  SuccessIsOnWire'
<1> DEFINE r == [message |-> Front, ok |-> ok]
           R == [message : Message, ok : BOOLEAN]
<1>1. reported \in Seq(R) /\ reported' = Append(reported, r)
  BY DEF SuccessInv, ReportInv, TypeInv, TypeOK, Completed
<1>2. Front \in Message
  BY ElementOfSeq, EmptySeq DEF SuccessInv, ReportInv, TypeInv, TypeOK, Front
<1>3. r \in R /\ r.message = Front /\ r.ok = ok
  BY <1>2
<1> HIDE DEF r, R
<1>4. /\ Len(reported) \in Nat
      /\ DOMAIN reported = 1 .. Len(reported)
      /\ DOMAIN (reported') = 1 .. Len(reported) + 1
      /\ \A k \in 1 .. Len(reported) : reported'[k] = reported[k]
      /\ reported'[Len(reported) + 1] = r
  BY <1>1, <1>3, AppendProperties, LenProperties
<1> SUFFICES ASSUME NEW k \in DOMAIN (reported'), reported'[k].ok
             PROVE  /\ k <= Len(wire')
                    /\ wire'[k].message = reported'[k].message
  BY DEF SuccessIsOnWire
<1>5. CASE k \in 1 .. Len(reported)
  <2>1. k <= Len(wire) /\ wire[k].message = reported[k].message
    BY <1>4, <1>5 DEF SuccessInv, SuccessIsOnWire
  <2> QED BY <1>4, <1>5, <2>1
<1>6. CASE k = Len(reported) + 1
  BY <1>3, <1>4, <1>6
<1> QED BY <1>4, <1>5, <1>6

LEMMA SuccessInvInductive == SuccessInv /\ [Next]_vars => SuccessInv'
<1> SUFFICES ASSUME SuccessInv, [Next]_vars PROVE SuccessInv'
  OBVIOUS
<1>1. TypeInv
  BY DEF SuccessInv, ReportInv
<1>2. ReportInv' /\ WireConservation'
  BY ReportInvInductive, WireInvInductive DEF SuccessInv, ReportInv, WireInv
<1> SUFFICES SuccessIsOnWire'
  BY <1>2 DEF SuccessInv
<1>3. CASE UNCHANGED <<wire, reported>>
  BY <1>3 DEF SuccessInv, SuccessIsOnWire
<1>4. ASSUME NEW c \in Callers, Caller(c) PROVE UNCHANGED <<wire, reported>>
  BY <1>4 DEF Caller, SendAction, IncrementId, SendReply, Post, queueVars
<1>5. ASSUME RunSendMessage PROVE UNCHANGED <<wire, reported>>
  BY <1>5 DEF RunSendMessage
<1>6. writing > 0 => messages_ # <<>>
  BY <1>1 DEF TypeInv, WriteInFlight
<1>7. send_buffer_ \in Seq(Encoding) /\ Len(send_buffer_) \in Nat
  BY <1>1, LenProperties DEF TypeInv, TypeOK
<1>8. ASSUME WriteSucceeds PROVE SuccessIsOnWire'
  <2>1. writing > 0 /\ Transfer(Len(send_buffer_)) /\ Completed(TRUE)
    BY <1>8 DEF WriteSucceeds
  <2>2. Len(send_buffer_) \in 0 .. Len(send_buffer_)
    BY <1>7
  <2>3. /\ Len(wire) \in Nat /\ Len(wire') \in Nat /\ Len(wire) <= Len(wire')
        /\ \A k \in 1 .. Len(wire) : wire'[k] = wire[k]
    BY <1>1, <2>1, <2>2, WireGrows
  <2>4. Len(reported) + 1 <= Len(wire') /\ wire'[Len(reported) + 1].message = Front
    BY <2>1, <2>3, WrittenIsFront
  <2> QED BY <1>6, <2>1, <2>3, <2>4, ReportStays
<1>9. ASSUME WriteFails PROVE SuccessIsOnWire'
  <2>1. PICK n \in 0 .. Len(send_buffer_) - 1 : Transfer(n)
    BY <1>9 DEF WriteFails
  <2>2. n \in 0 .. Len(send_buffer_)
    BY <1>7
  <2>3. /\ Len(wire) \in Nat /\ Len(wire') \in Nat /\ Len(wire) <= Len(wire')
        /\ \A k \in 1 .. Len(wire) : wire'[k] = wire[k]
    BY <1>1, <2>1, <2>2, WireGrows
  <2>4. writing > 0 /\ Completed(FALSE)
    BY <1>9 DEF WriteFails
  <2> QED BY <1>6, <2>3, <2>4, ReportStays
<1>10. CASE SetProtocol \/ UNCHANGED vars
  BY <1>3, <1>10 DEF SetProtocol, vars, queueVars
<1> QED BY <1>3, <1>4, <1>5, <1>8, <1>9, <1>10 DEF Next, Strand

(* The send handler is told of success only for a message of which the     *)
(* stream took all its protocol has to write, at the position it was       *)
(* posted: the report of one write is never that of another, also after a  *)
(* write that failed half way.                                             *)
THEOREM SuccessMeansWritten == Spec => []SuccessIsOnWire
<1>1. Init => SuccessInv
  <2> SUFFICES ASSUME Init PROVE SuccessIsOnWire
    BY ReportInvInit, WireInvInit DEF SuccessInv, WireInv
  <2>1. reported = <<>>
    BY DEF Init
  <2> QED BY <2>1 DEF SuccessIsOnWire
<1>2. SuccessInv => SuccessIsOnWire
  BY DEF SuccessInv
<1> QED BY <1>1, <1>2, SuccessInvInductive, PTL DEF Spec

-----------------------------------------------------------------------------
(* The ids of actions.                                                     *)

Ids == IdModulus - 1          \* how many ids there are, without 0

(* The ids given out count up, from the last one back to the first: two of *)
(* them that are less than a round apart differ by their distance or by    *)
(* that less one round.  The counter is at the id given out last, or has   *)
(* passed 0 and nobody has taken the next one.                             *)
Cyclic ==
  /\ \A j \in DOMAIN allocated : allocated[j] \in 1 .. Ids
  /\ \A i, j \in DOMAIN allocated :
       i < j /\ j - i < Ids =>
         \/ allocated[j] - allocated[i] = j - i
         \/ allocated[j] - allocated[i] = j - i - Ids
  /\ IF id_ # 0
       THEN allocated # <<>> /\ allocated[Len(allocated)] = id_
       ELSE allocated # <<>> => allocated[Len(allocated)] = Ids

IdInv == TypeInv /\ Cyclic

(* Counting up to an id that is not 0 and giving it out keeps the cycle. *)
LEMMA GiveOut ==
  ASSUME IdInv, NEW next \in 1 .. Ids, next = id_ + 1,
         allocated' = Append(allocated, next), id_' = next
  PROVE  Cyclic'
<1> DEFINE L == Len(allocated)
<1>1. allocated \in Seq(MessageId) /\ id_ \in MessageId /\ next \in MessageId
  BY IdModulusAssumption DEF IdInv, TypeInv, TypeOK, MessageId, Ids
<1>2. /\ L \in Nat /\ Ids \in Nat /\ Ids >= 1
      /\ DOMAIN allocated = 1 .. L
      /\ allocated # <<>> <=> L # 0
  BY <1>1, IdModulusAssumption, EmptySeq, LenProperties DEF Ids
<1>3. /\ allocated' # <<>> /\ Len(allocated') = L + 1
      /\ DOMAIN (allocated') = 1 .. L + 1
      /\ \A j \in 1 .. L : allocated'[j] = allocated[j]
      /\ allocated'[L + 1] = next
  BY <1>1, <1>2, AppendProperties, LenProperties
<1>4. /\ \A j \in 1 .. L : allocated[j] \in 1 .. Ids
      /\ \A i, j \in 1 .. L : i < j /\ j - i < Ids =>
           \/ allocated[j] - allocated[i] = j - i
           \/ allocated[j] - allocated[i] = j - i - Ids
      /\ id_ # 0 => L # 0 /\ allocated[L] = id_
      /\ id_ = 0 /\ L # 0 => allocated[L] = Ids
  BY <1>2 DEF IdInv, Cyclic
<1> HIDE DEF L
<1>5. ASSUME NEW i \in 1 .. L, L + 1 - i < Ids
      PROVE  \/ next - allocated[i] = L + 1 - i
             \/ next - allocated[i] = L + 1 - i - Ids
  <2>1. allocated[i] \in 1 .. Ids /\ allocated[L] \in 1 .. Ids
    BY <1>2, <1>4, <1>5
  <2>2. \/ allocated[L] - allocated[i] = L - i
        \/ allocated[L] - allocated[i] = L - i - Ids
    <3>1. CASE i = L
      BY <2>1, <3>1, <1>2
    <3>2. CASE i # L
      <4>1. i \in 1 .. L /\ L \in 1 .. L /\ i < L /\ L - i < Ids
        BY <1>2, <1>5, <3>2
      <4> QED BY <1>4, <4>1
    <3> QED BY <3>1, <3>2
  <2>3. CASE id_ # 0
    <3>1. next = allocated[L] + 1
      BY <1>4, <2>3
    <3> QED BY <1>2, <2>1, <2>2, <3>1
  <2>4. CASE id_ = 0
    <3>1. next = 1 /\ allocated[L] = Ids
      BY <1>2, <1>4, <2>4, <1>5
    <3> QED BY <1>2, <1>5, <2>1, <2>2, <3>1
  <2> QED BY <2>3, <2>4
<1>6. \A j \in 1 .. L + 1 : allocated'[j] \in 1 .. Ids
  <2> TAKE j \in 1 .. L + 1
  <2>1. j \in 1 .. L \/ j = L + 1
    BY <1>2
  <2> QED BY <1>3, <1>4, <2>1
<1>7. ASSUME NEW i \in 1 .. L + 1, NEW j \in 1 .. L + 1, i < j, j - i < Ids
      PROVE  \/ allocated'[j] - allocated'[i] = j - i
             \/ allocated'[j] - allocated'[i] = j - i - Ids
  <2>1. i \in 1 .. L /\ allocated'[i] = allocated[i]
    BY <1>2, <1>3, <1>7
  <2>2. CASE j \in 1 .. L
    BY <1>3, <1>4, <1>7, <2>1, <2>2
  <2>3. CASE j = L + 1
    <3>1. L + 1 - i < Ids /\ allocated'[j] = next
      BY <1>2, <1>3, <1>7, <2>3
    <3>2. \/ next - allocated[i] = L + 1 - i
          \/ next - allocated[i] = L + 1 - i - Ids
      BY <1>5, <2>1, <3>1
    <3> QED BY <1>2, <2>1, <2>3, <3>1, <3>2
  <2> QED BY <1>2, <1>7, <2>2, <2>3
<1>8. id_' # 0 /\ allocated'[Len(allocated')] = id_'
  BY <1>2, <1>3
<1> QED BY <1>3, <1>6, <1>7, <1>8 DEF Cyclic

LEMMA IdInvInductive == IdInv /\ [Next]_vars => IdInv'
<1> SUFFICES ASSUME IdInv, [Next]_vars PROVE IdInv'
  OBVIOUS
<1>1. TypeInv /\ TypeInv' /\ id_ \in MessageId
  BY TypeInvInductive DEF IdInv, TypeInv, TypeOK
<1> SUFFICES Cyclic'
  BY <1>1 DEF IdInv
<1>2. CASE UNCHANGED <<id_, allocated>>
  BY <1>2 DEF IdInv, Cyclic
<1>3. ASSUME NEW c \in Callers, SendAction(c) \/ SendReply(c) \/ Post(c)
      PROVE  UNCHANGED <<id_, allocated>>
  BY <1>3 DEF SendAction, SendReply, Post
<1>4. ASSUME NEW c \in Callers, IncrementId(c) PROVE Cyclic'
  <2> DEFINE next == (id_ + 1) % IdModulus
  <2>1. next = IF id_ = IdModulus - 1 THEN 0 ELSE id_ + 1
    BY <1>1, NextId
  <2>2. CASE next = 0
    <3>1. id_ = Ids /\ id_ # 0
      BY <1>1, <2>1, <2>2, IdModulusAssumption DEF MessageId, Ids
    <3>2. id_' = 0 /\ allocated' = allocated
      BY <1>4, <2>2 DEF IncrementId
    <3> QED BY <3>1, <3>2 DEF IdInv, Cyclic
  <2>3. CASE next # 0
    <3>1. next = id_ + 1 /\ next \in 1 .. Ids
      BY <1>1, <2>1, <2>3, IdModulusAssumption DEF MessageId, Ids
    <3>2. id_' = next /\ allocated' = Append(allocated, next)
      BY <1>4, <2>3 DEF IncrementId
    <3> HIDE DEF next
    <3> QED BY <3>1, <3>2, GiveOut
  <2> QED BY <2>2, <2>3
<1>5. ASSUME Strand PROVE UNCHANGED <<id_, allocated>>
  BY <1>5 DEF Strand, RunSendMessage, WriteSucceeds, WriteFails, callVars
<1>6. CASE SetProtocol \/ UNCHANGED vars
  BY <1>2, <1>6 DEF SetProtocol, vars, callVars
<1> QED BY <1>2, <1>3, <1>4, <1>5, <1>6 DEF Next, Caller

(* However many threads race on the counter, no action gets the id 0 and   *)
(* an id comes back only after all the others: the calls that find the     *)
(* counter at its wrap neither skip an id of the new round nor repeat one. *)
THEOREM IdsComeRound == Spec => []IdGap
<1>1. Init => IdInv
  <2> SUFFICES ASSUME Init PROVE Cyclic
    BY TypeInvInit DEF IdInv
  <2>1. allocated = <<>> /\ id_ = 0
    BY DEF Init
  <2> QED BY <2>1 DEF Cyclic
<1>2. IdInv => IdGap
  <2> SUFFICES ASSUME IdInv, NEW j \in DOMAIN allocated
               PROVE  /\ allocated[j] # 0
                      /\ \A i \in 1 .. j - 1 :
                           allocated[i] = allocated[j] => j - i >= IdModulus - 1
    BY DEF IdGap
  <2>1. allocated[j] \in 1 .. Ids /\ Ids \in Nat
    BY IdModulusAssumption DEF IdInv, Cyclic, Ids
  <2>2. DOMAIN allocated = 1 .. Len(allocated) /\ Len(allocated) \in Nat
    BY LenProperties DEF IdInv, TypeInv, TypeOK
  <2>3. ASSUME NEW i \in 1 .. j - 1, allocated[i] = allocated[j], j - i < Ids
        PROVE  FALSE
    <3>1. i \in DOMAIN allocated /\ i < j /\ j \in Nat /\ i \in Nat
      BY <2>2
    <3>2. \/ allocated[j] - allocated[i] = j - i
          \/ allocated[j] - allocated[i] = j - i - Ids
      BY <2>3, <3>1 DEF IdInv, Cyclic
    <3> QED BY <2>1, <2>3, <3>1, <3>2
  <2>4. \A i \in 1 .. j - 1 : i \in Int /\ j \in Int
    BY <2>2
  <2> QED BY <2>1, <2>3, <2>4, IdModulusAssumption DEF Ids
<1> QED BY <1>1, <1>2, IdInvInductive, PTL DEF Spec

-----------------------------------------------------------------------------
(* The sender implements the safety of Outbox.                             *)

(* What a completion reports is the next message that was accepted. *)
LEMMA CompletionIsReport ==
  ASSUME ReportInv, writing > 0, NEW ok \in BOOLEAN, Completed(ok),
         NEW buffer \in Seq(Encoding),
         HandlerReturns(buffer) \/ HandlerThrows(buffer), UNCHANGED posted
  PROVE  Out!Report
<1>1. messages_ # <<>> /\ threw = "none"
  BY CompletionTyped DEF ReportInv
<1>2. /\ messages_ \in Seq(Message) /\ strand \in Seq(Message)
      /\ ReportedMessages \in Seq(Message)
  BY ReportedTyped DEF ReportInv, TypeInv, TypeOK
<1>3. ReportedMessages' = Append(ReportedMessages, Front)
  BY <1>1, ReportAppends DEF ReportInv
<1>4. posted = (ReportedMessages \o messages_) \o strand
  BY <1>1 DEF ReportInv, ReportConservation, Unreported
<1> DEFINE k == Len(ReportedMessages) + 1
<1>5. /\ ReportedMessages \o messages_ \in Seq(Message)
      /\ Len(ReportedMessages \o messages_)
           = Len(ReportedMessages) + Len(messages_)
      /\ Len(ReportedMessages) \in Nat
      /\ Len(messages_) \in Nat \ {0}
      /\ Len(strand) \in Nat
  BY <1>1, <1>2, ConcatProperties, EmptySeq, LenProperties
<1>6. (ReportedMessages \o messages_)[k] = messages_[1]
  BY <1>2, <1>5, ConcatProperties
<1>7. posted[k] = messages_[1] /\ k <= Len(posted)
  BY <1>2, <1>4, <1>5, <1>6, ConcatProperties
<1>8. Len(ReportedMessages) < Len(posted)
  <2>1. Len(posted) = Len(ReportedMessages \o messages_) + Len(strand)
    BY <1>2, <1>4, <1>5, ConcatProperties
  <2> QED BY <1>5, <2>1
<1> QED BY <1>1, <1>3, <1>7, <1>8 DEF Out!Report, Front

LEMMA StepIsOutboxStep ==
  ReportInv /\ [Next]_vars => [Out!Next]_(Out!vars)
<1> SUFFICES ASSUME ReportInv, [Next]_vars
             PROVE  Out!Next \/ UNCHANGED Out!vars
  OBVIOUS
<1>1. TypeInv
  BY DEF ReportInv
<1>2. CASE UNCHANGED <<posted, reported, threw>>
  BY <1>2 DEF Out!vars, ReportedMessages
<1>3. ASSUME NEW c \in Callers, SendAction(c) \/ IncrementId(c) \/ SendReply(c)
      PROVE  UNCHANGED <<posted, reported, threw>>
  BY <1>3 DEF SendAction, IncrementId, SendReply, queueVars
<1>4. ASSUME NEW c \in Callers, Post(c) PROVE Out!Next
  <2>1. outgoing[c] \in Message
    BY <1>1 DEF TypeInv, TypeOK
  <2>2. posted' = Append(posted, outgoing[c]) /\ UNCHANGED <<reported, threw>>
    BY <1>4 DEF Post, queueVars
  <2>3. ReportedMessages' = ReportedMessages
    BY <2>2 DEF ReportedMessages
  <2> QED BY <2>1, <2>2, <2>3 DEF Out!Next, Out!Accept
<1>5. ASSUME RunSendMessage PROVE Out!Next \/ UNCHANGED Out!vars
  <2>1. UNCHANGED <<posted, reported>>
    BY <1>5 DEF RunSendMessage
  <2>2. CASE threw' = threw
    BY <1>2, <2>1, <2>2
  <2>3. CASE threw' # threw
    <3>1. messages_ = <<>> /\ threw = "none" /\ threw' = "encode"
      BY <1>1, <1>5, <2>3
         DEF RunSendMessage, SendQueueMessage, TypeInv, FrontStays
    <3>2. strand # <<>> /\ strand \in Seq(Message)
      BY <1>1, <1>5 DEF RunSendMessage, TypeInv, TypeOK
    <3>3. posted = (ReportedMessages \o <<>>) \o strand
      BY <3>1 DEF ReportInv, ReportConservation, Unreported
    <3>4. ReportedMessages \in Seq(Message)
      BY <1>1, ReportedTyped
    <3>5. posted = ReportedMessages \o strand
      BY <3>3, <3>4, ConcatEmptySeq
    <3>6. /\ Len(ReportedMessages) \in Nat /\ Len(strand) \in Nat \ {0}
          /\ Len(posted) = Len(ReportedMessages) + Len(strand)
      BY <3>2, <3>4, <3>5, ConcatProperties, EmptySeq, LenProperties
    <3>7. Len(ReportedMessages) < Len(posted)
      BY <3>6
    <3>8. ReportedMessages' = ReportedMessages
      BY <2>1 DEF ReportedMessages
    <3> QED BY <2>1, <3>1, <3>7, <3>8 DEF Out!Next, Out!Jam
  <2> QED BY <2>2, <2>3
<1>6. ASSUME WriteSucceeds PROVE Out!Next
  <2>1. <<>> \in Seq(Encoding)
    BY EmptySeq
  <2> QED BY <1>6, <2>1, CompletionIsReport DEF WriteSucceeds, Out!Next
<1>7. ASSUME WriteFails PROVE Out!Next
  <2>1. PICK n \in 0 .. Len(send_buffer_) - 1 :
          /\ Transfer(n)
          /\ HandlerReturns(Remainder(n)) \/ HandlerThrows(Remainder(n))
    BY <1>7 DEF WriteFails
  <2>2. n \in 0 .. Len(send_buffer_)
    BY <1>1 DEF TypeInv, TypeOK
  <2>3. Remainder(n) \in Seq(Encoding)
    BY <1>1, <2>1, <2>2, TransferTyped
  <2> QED BY <1>7, <2>1, <2>3, CompletionIsReport DEF WriteFails, Out!Next
<1>8. CASE SetProtocol \/ UNCHANGED vars
  BY <1>2, <1>8 DEF SetProtocol, vars, queueVars
<1> QED
  BY <1>2, <1>3, <1>4, <1>5, <1>6, <1>7, <1>8 DEF Next, Caller, Strand

(* The safety part of Outbox: the sender accepts messages and reports them *)
(* the way the abstract sender does, in steps of it or stuttering.         *)
THEOREM ImplementsOutboxSafety == Spec => Out!Init /\ [][Out!Next]_(Out!vars)
<1>1. Init => Out!Init
  <2> SUFFICES ASSUME Init PROVE Out!Init
    OBVIOUS
  <2>1. ReportedMessages \in Seq(Message) /\ Len(ReportedMessages) = 0
    BY TypeInvInit, ReportedTyped DEF Init
  <2>2. ReportedMessages = <<>>
    BY <2>1, EmptySeq
  <2> QED BY <2>2 DEF Init, Out!Init
<1> QED BY <1>1, ReportInvInit, ReportInvInductive, StepIsOutboxStep, PTL DEF Spec

(* The sender only comes to rest when it is done: with no call on its      *)
(* strand and no write outstanding the send handler has heard of every     *)
(* message posted, unless it or encode threw, and what failed writes left  *)
(* behind is all that is missing on the stream.  After an exception it     *)
(* rests all the same, on a queue that nothing sends any more.  It is the  *)
(* part of the promise of Outbox to report that needs no fairness.         *)
THEOREM RestsWhenDone ==
  Spec =>
    [](strand = <<>> /\ writing = 0 =>
         IF threw = "none"
           THEN /\ posted = ReportedMessages
                /\ posted = Messages(wire \o send_buffer_)
           ELSE messages_ # <<>>)
<1> DEFINE Rest ==
      strand = <<>> /\ writing = 0 =>
        IF threw = "none"
          THEN /\ posted = ReportedMessages
               /\ posted = Messages(wire \o send_buffer_)
          ELSE messages_ # <<>>
<1>1. ReportInv /\ WireConservation => Rest
  <2> SUFFICES ASSUME ReportInv, WireConservation, strand = <<>>, writing = 0
               PROVE  Rest
    OBVIOUS
  <2>1. TypeInv
    BY DEF ReportInv
  <2>2. CASE threw # "none"
    BY <2>1, <2>2 DEF TypeInv, FrontStays
  <2>3. CASE threw = "none"
    <3>1. messages_ = <<>>
      BY <2>1, <2>3 DEF TypeInv, WriteInFlight
    <3>2. posted = (ReportedMessages \o <<>>) \o <<>>
      BY <2>3, <3>1 DEF ReportInv, ReportConservation, Unreported
    <3>3. posted = (Messages(wire \o send_buffer_) \o <<>>) \o <<>>
      BY <3>1 DEF WireConservation, Waiting
    <3> DEFINE out == Messages(wire \o send_buffer_)
               told == ReportedMessages
    <3>4. out \in Seq(Message) /\ told \in Seq(Message)
      <4>1. Wired \o Buffered \in Seq(Message)
        BY <2>1, BuffersTyped, ConcatProperties
      <4> QED BY <2>1, <4>1, BuffersTyped, ReportedTyped
    <3> HIDE DEF out, told
    <3>5. out \o <<>> = out /\ told \o <<>> = told
      BY <3>4, ConcatEmptySeq
    <3>6. posted = told /\ posted = out
      BY <3>2, <3>3, <3>5 DEF out, told
    <3> QED BY <2>3, <3>6 DEF out, told
  <2> QED BY <2>2, <2>3
<1>2. Spec => []ReportInv
  BY ReportInvInit, ReportInvInductive, PTL DEF Spec
<1> QED BY <1>1, <1>2, NothingLost, PTL

=============================================================================
