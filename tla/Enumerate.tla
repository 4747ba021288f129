----------------------------- MODULE Enumerate -----------------------------
(***************************************************************************)
(* The stream operators that lib/string/enumerate.tpp defines for an enum, *)
(* and what the macros of lib/exception/validate.tpp throw.                *)
(*                                                                         *)
(* An enum is its ENUM_LIST: the members in order, each with its string.   *)
(* An operator returns what it leaves in its right or left operand and the *)
(* type of the exception it threw.  A stream is the sequence of the texts  *)
(* written to it; nothing in the program writes the '\0' that would end a  *)
(* text before the stream ends.                                            *)
(***************************************************************************)
EXTENDS Naturals, Sequences

(* The levels of logging, which are read, and the types of texception,     *)
(* which are written.                                                      *)
Levels == << <<"trace", "trace">>, <<"debug", "debug">>,
             <<"information", "information">>, <<"warning", "warning">>,
             <<"error", "error">>, <<"fatal", "fatal">> >>

Exceptions == << <<"invalid_value", "E_INVALID_VALUE">>, <<"busy", "E_BUSY">>,
                 <<"no_access", "E_NO_ACCESS">>,
                 <<"protocol_error", "E_PROTOCOL_ERROR">>,
                 <<"socket_error", "E_SOCKET_ERROR">>,
                 <<"not_implemented_yet", "E_NOT_IMPLEMENTED">>,
                 <<"internal_failure", "E_INTERNAL_FAILURE">> >>

Members(list) == {list[i][1] : i \in DOMAIN list}

Outside == "outside"        \* a value that is no member
Empty   == ""
Other   == "other"          \* a text that is in no list
None    == "none"

(* A member's text, from the switch over the list. *)
Strings(list, v) == {list[i][2] : i \in {j \in DOMAIN list : list[j][1] = v}}

(* The member a text stands for: the first of the list it equals. *)
Enumerators(list, text) ==
  LET hits == {i \in DOMAIN list : list[i][2] = text}
  IN  {list[i][1] : i \in {j \in hits : \A k \in hits : j <= k}}

(* ENUM_FAIL_OUTPUT, ENUM_FAIL_INPUT and VALIDATE of a false condition. *)
FailOutput == "invalid_value"
FailInput  == "invalid_value"
Validated(condition) == IF condition THEN None ELSE "internal_failure"

-----------------------------------------------------------------------------
(* The operators.                                                          *)

OutputString(list, v, str) ==
  IF Strings(list, v) = {} THEN [str |-> str, thrown |-> FailOutput]
  ELSE [str |-> CHOOSE s \in Strings(list, v) : TRUE, thrown |-> None]

OutputStream(list, v, stream) ==
  LET out == OutputString(list, v, Empty)
  IN  [stream |-> IF out.thrown = None THEN Append(stream, out.str) ELSE stream,
       thrown |-> out.thrown]

(* Mutant: a text that is not in the list stands for the first member. *)
InputStringDefaults(list, text, v) ==
  [value |-> IF Enumerators(list, text) = {} THEN list[1][1]
             ELSE CHOOSE e \in Enumerators(list, text) : TRUE,
   thrown |-> None]

InputString(list, text, v) ==
  IF Enumerators(list, text) = {} THEN [value |-> v, thrown |-> FailInput]
  ELSE [value |-> CHOOSE e \in Enumerators(list, text) : TRUE, thrown |-> None]

(* What getline() takes: all there is. *)
Line(stream) == CASE stream = <<>>    -> Empty
                  [] Len(stream) = 1  -> stream[1]
                  [] OTHER            -> Other

InputStream(list, stream, v) == InputString(list, Line(stream), v)

=============================================================================
