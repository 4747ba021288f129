------------------------------- MODULE Codec --------------------------------
(***************************************************************************)
(* tmessage: how a message is turned into the bytes of a frame and back,   *)
(* for each protocol.  A byte is a number below Base; the four letters     *)
(* that mean something to a protocol are constants.                        *)
(***************************************************************************)
EXTENDS Integers, Sequences, SequencesExt, FiniteSets, FiniteSetsExt

CONSTANTS Base,               \* values of a byte: 256 in the code
          WordBytes,          \* bytes of an id and of a length: 4
          LF, CR,             \* the end of line characters
          LetterA, LetterR    \* the types of the basic protocol

ASSUME CodecAssumption ==
  /\ Base \in Nat \ {0, 1}
  /\ WordBytes \in Nat \ {0}
  /\ {LF, CR, LetterA, LetterR} \subseteq 0 .. Base - 1
  /\ LF # CR
  /\ LetterA # LetterR

Byte == 0 .. Base - 1

Protocols == {"direct", "line", "telnet", "basic", "compressed"}

(* tmessage, and the two values of its type. *)
Message(type, id, contents) ==
  [type |-> type, id |-> id, contents |-> contents]

TypeLetter(type) == IF type = "action" THEN LetterA ELSE LetterR

Terminator(protocol) == IF protocol = "line" THEN <<LF>> ELSE <<CR, LF>>

-----------------------------------------------------------------------------
(* Unsigned values of 32 bits in network byte order.                       *)

(* What the byte counts for that has k bytes behind it. *)
Place[k \in 0 .. WordBytes] == IF k = 0 THEN 1 ELSE Base * Place[k - 1]

Word == Place[WordBytes]

(* What a tmessage can hold. *)
AnyMessage ==
  [type : {"action", "reply"}, id : 0 .. Word - 1, contents : Seq(Byte)]

HostToNetwork(value) ==
  [k \in 1 .. WordBytes |-> (value \div Place[WordBytes - k]) % Base]

NetworkToHost(bytes) ==
  LET value[n \in 0 .. Len(bytes)] ==
        IF n = 0 THEN 0 ELSE value[n - 1] * Base + bytes[n]
  IN value[Len(bytes)]

-----------------------------------------------------------------------------
(* encode().  The direct protocol encodes everything as nothing, and the   *)
(* length of a basic frame is cut to 32 bits.                              *)

BasicFrame(m) == <<TypeLetter(m.type)>> \o HostToNetwork(m.id) \o m.contents

EncodeThrows(protocol) == protocol = "compressed"

Encode(protocol, m) ==
  CASE protocol = "direct" -> <<>>
    [] protocol \in {"line", "telnet"} -> m.contents \o Terminator(protocol)
    [] protocol = "basic" ->
         HostToNetwork(Len(BasicFrame(m)) % Word) \o BasicFrame(m)

-----------------------------------------------------------------------------
(* The decoding constructor: what it throws, and the message otherwise.    *)

DecodeError(protocol, frame) ==
  CASE protocol = "basic" /\ Len(frame) < 1 + WordBytes -> "protocol_error"
    [] protocol = "basic" /\ Len(frame) > WordBytes
       /\ frame[1] \notin {LetterA, LetterR} -> "invalid_value"
    [] protocol = "compressed" -> "not_implemented_yet"
    [] OTHER -> "none"

(* Mutant: one character too many is taken for the terminator. *)
ChopMore(frame, n) == SubSeq(frame, 1, Len(frame) - n - 1)

(* substr(0, size() - n); below n the length wraps and all is kept. *)
Chop(frame, n) ==
  IF Len(frame) < n THEN frame ELSE SubSeq(frame, 1, Len(frame) - n)

DecodeBasic(frame) ==
  Message(IF frame[1] = LetterA THEN "action" ELSE "reply",
          NetworkToHost(SubSeq(frame, 2, 1 + WordBytes)),
          SubSeq(frame, 2 + WordBytes, Len(frame)))

Decode(protocol, frame) ==
  CASE protocol = "direct" -> Message("reply", 0, frame)
    [] protocol \in {"line", "telnet"} ->
         Message("reply", 0, Chop(frame, Len(Terminator(protocol))))
    [] protocol = "basic" -> DecodeBasic(frame)

-----------------------------------------------------------------------------

(* Where a frame may end: behind each occurrence of the terminator. *)
Ends(bytes, terminator) ==
  {n \in Len(terminator) .. Len(bytes) :
     SubSeq(bytes, n - Len(terminator) + 1, n) = terminator}

(* The messages a protocol can carry: contents without a terminator in     *)
(* them, or a frame whose length fits into a word.                         *)
Carries(protocol, m) ==
  CASE protocol \in {"line", "telnet"} ->
         Ends(m.contents, Terminator(protocol)) = {}
    [] protocol = "basic" -> Len(BasicFrame(m)) < Word
    [] OTHER -> FALSE

(* What the receiver can know of a message: a line has no type and no id. *)
Seen(protocol, m) ==
  IF protocol = "basic" THEN m ELSE Message("reply", 0, m.contents)

=============================================================================
