----------------------------- MODULE MCReceiver -----------------------------
(***************************************************************************)
(* Receiver for TLC: bytes below 3 and words of two of them, so that 8 is  *)
(* the longest frame that fits, and messages at the edges of the protocols.*)
(***************************************************************************)
EXTENDS Receiver

(* Contents of half terminators, for a basic frame of a given size.        *)
HalfEnds(size) ==
  Message("action", Word - 1, [k \in 1 .. size - 1 - WordBytes |-> CR])

(* What every protocol can carry: nothing, and the most that fits.         *)
Empty == Message("reply", 1, <<>>)
Longest == HalfEnds(Word - 1)

(* Contents with a terminator of their own, and a byte too many.           *)
Torn == Message("action", 1, <<CR, LF, CR>>)
TooLong == HalfEnds(Word)

EdgeMessages == {Empty, Longest, Torn, TooLong}

=============================================================================
