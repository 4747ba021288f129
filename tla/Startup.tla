------------------------------- MODULE Startup -------------------------------
(***************************************************************************)
(* How the server starts: main() parses the command line, reads and        *)
(* validates the configuration and starts the lobby, or ends with a        *)
(* status.  Both singletons, the level of logging and what was logged are  *)
(* state, one step stands for each thing that can fail.  The file is what  *)
(* it is when it is read.                                                  *)
(***************************************************************************)
EXTENDS Integers, Sequences, FiniteSets, SequencesExt, Enumerate

CONSTANTS MaxArguments,       \* bound: the arguments on the command line
          Numbers,            \* bound: the numbers in the file
          UnsignedMax,        \* the largest unsigned, 2^32 - 1 in the code
          ShortMax,           \* the largest unsigned short, 2^16 - 1
          DefaultPort,        \* 2048
          DefaultReap,        \* 30
          Cores               \* what hardware_concurrency() can return

ASSUME StartupAssumption ==
  /\ {MaxArguments, UnsignedMax, ShortMax} \subseteq Nat
  /\ Numbers \subseteq Int /\ Cores \subseteq 0 .. UnsignedMax
  /\ DefaultPort \in 1 .. ShortMax /\ DefaultReap \in 1 .. UnsignedMax

VARIABLES
  arguments,                  \* argv, without the program
  file,                       \* the configuration file that was read
  cores,                      \* what hardware_concurrency() returns
  pc,                         \* where main() is
  next,                       \* the argument parse() looks at
  help,
  initialized,                \* of toptions::singleton
  options,                    \* toptions
  configuration,              \* tconfiguration
  threshold,                  \* the level set for all modules, by its name
  log,                        \* the levels of the messages logged, in order
  told,                       \* the exception type main() wrote to the log
  cerr,                       \* something was written to std::cerr
  thrown,                     \* the kind of exception, or "none"
  status                      \* the exit status, or "none"

given == <<arguments, cores>>
output == <<log, told, cerr>>
settings == <<options, configuration, threshold>>
vars == <<given, file, pc, next, help, initialized, settings, output, thrown, status>>

Level == [trace |-> 0, debug |-> 1, information |-> 2, warning |-> 3,
          error |-> 4, fatal |-> 5]

(* The value of a key: absent, a text that is no number, or a number; of   *)
(* the level its text, None when it is absent.                             *)
Absent == [kind |-> "absent"]
Junk == [kind |-> "junk"]
Number(n) == [kind |-> "number", n |-> n]
Numerals == {Absent, Junk} \union {Number(n) : n \in Numbers}

FileLevels == {Levels[i][2] : i \in DOMAIN Levels}

Files ==
  {[kind |-> "missing"], [kind |-> "broken"]} \union
  [kind : {"read"}, threads : Numerals, port : Numerals, reap_interval : Numerals,
   level : {None, Empty, Other} \union FileLevels]

Arguments == {"-h", "-f", "one", "two"}

Init ==
  /\ arguments \in BoundedSeq(Arguments, MaxArguments)
  /\ file = [kind |-> "unread"]
  /\ cores \in Cores
  /\ pc = "parse" /\ next = 1 /\ help = FALSE
  /\ initialized = FALSE
  /\ options = [foreground |-> FALSE, configuration_file |-> "none"]
  /\ configuration = [threads |-> 0, port |-> DefaultPort,
                      reap_interval |-> DefaultReap]
  /\ threshold = "trace"
  /\ log = <<Level.information>>
  /\ told = <<>> /\ cerr = FALSE /\ thrown = None /\ status = "none"

(* What the log has after a message of this level. *)
Logged(messages, level) ==
  IF level >= Level[threshold] THEN Append(messages, level) ELSE messages
Logs(level) == log' = Logged(log, level)

(* LOG_W logs at the level information. *)
LogW == Level.information

-----------------------------------------------------------------------------
(* toptions                                                                *)

(* singleton(), called by parse() once, on the first use; VALIDATE holds.   *)
Singleton(is_initialized) ==
  /\ initialized = is_initialized
  /\ initialized' = TRUE

Throws(what) == pc' = "caught" /\ thrown' = what

(* Mutant: a second file replaces the first one. *)
ParseLastFile ==
  /\ pc = "parse"
  /\ next \in DOMAIN arguments
  /\ next = 1 => Singleton(FALSE)
  /\ next > 1 => UNCHANGED initialized
  /\ LET option == arguments[next] IN
     /\ help' = (help \/ option = "-h")
     /\ options' = CASE option = "-h" -> options
                     [] option = "-f" -> [options EXCEPT !.foreground = TRUE]
                     [] OTHER -> [options EXCEPT !.configuration_file = option]
  /\ next' = next + 1
  /\ UNCHANGED <<given, file, pc, configuration, threshold, output, thrown, status>>

(* One turn of the loop of parse(). *)
Parse ==
  /\ pc = "parse"
  /\ next \in DOMAIN arguments
  /\ IF next = 1 THEN Singleton(FALSE) ELSE UNCHANGED initialized
  /\ LET option == arguments[next] IN
     \/ /\ option = "-h"
        /\ help' = TRUE /\ next' = next + 1
        /\ UNCHANGED <<options, pc, thrown, status, log>>
     \/ /\ option = "-f"
        /\ options' = [options EXCEPT !.foreground = TRUE]
        /\ next' = next + 1
        /\ UNCHANGED <<help, pc, thrown, status, log>>
     \/ /\ option \notin {"-h", "-f"} /\ options.configuration_file = "none"
        /\ options' = [options EXCEPT !.configuration_file = option]
        /\ next' = next + 1
        /\ UNCHANGED <<help, pc, thrown, status, log>>
     \/ /\ option \notin {"-h", "-f"} /\ options.configuration_file # "none"
        /\ Logs(Level.fatal)
        /\ Throws("exit failure")
        /\ UNCHANGED <<options, help, next, status>>
  /\ UNCHANGED <<given, file, configuration, threshold, told, cerr>>

(* The end of parse(). *)
Parsed ==
  /\ pc = "parse"
  /\ next \notin DOMAIN arguments
  /\ IF arguments = <<>> THEN Singleton(FALSE) ELSE UNCHANGED initialized
  /\ \/ /\ help
        /\ IF Len(arguments) > 1 THEN Logs(LogW) ELSE UNCHANGED log
        /\ Throws("exit success")
     \/ /\ ~help
        /\ IF options.foreground THEN UNCHANGED log ELSE Logs(LogW)
        /\ pc' = "create" /\ UNCHANGED thrown
  /\ UNCHANGED <<given, file, next, help, settings, told, cerr, status>>

-----------------------------------------------------------------------------
(* tconfiguration                                                          *)

(* A stream reads n into an unsigned number: a negative one wraps around.  *)
Fits(value, max) ==
  value.kind = "number" /\ value.n <= max /\ -value.n <= max

(* ini.get with a default, which a text that does not convert gets too.    *)
Get(value, max, default) ==
  IF Fits(value, max) THEN value.n % (max + 1) ELSE default

(* The conversion of the text of a level, tlog_level_convertor. *)
GetLevel(text) ==
  IF text = None THEN [value |-> "trace", thrown |-> None]
  ELSE InputString(Levels, text, Outside)

(* create() as far as the file: options() must be initialized. The keys    *)
(* are read in order, and an unknown level throws after the others.        *)
Create ==
  /\ pc = "create"
  /\ IF ~initialized
     THEN /\ Throws(Validated(initialized))
          /\ UNCHANGED <<file, configuration, threshold, log>>
     ELSE /\ file' \in Files
          /\ \/ /\ file'.kind = "missing"
                /\ Logs(LogW)
                /\ pc' = "validate"
                /\ UNCHANGED <<configuration, threshold, thrown>>
             \/ /\ file'.kind = "broken"
                /\ Throws("invalid_value")
                /\ UNCHANGED <<configuration, threshold, log>>
             \/ /\ file'.kind = "read"
                /\ configuration' =
                     [threads |-> Get(file'.threads, UnsignedMax, 0),
                      port |-> Get(file'.port, ShortMax, DefaultPort),
                      reap_interval |->
                        Get(file'.reap_interval, UnsignedMax, DefaultReap)]
                /\ LET level == GetLevel(file'.level) IN
                   \/ /\ level.thrown # None
                      /\ Throws(level.thrown)
                      /\ UNCHANGED threshold
                   \/ /\ level.thrown = None
                      /\ threshold' = level.value
                      /\ pc' = "validate" /\ UNCHANGED thrown
                /\ UNCHANGED log
  /\ UNCHANGED <<given, next, help, initialized, options, told, cerr, status>>

(* Mutant: hardware_concurrency() is taken to be positive. *)
ThreadsOfHardware(n) == IF n = 0 THEN cores ELSE n

Threads(n) ==
  IF n # 0 THEN n ELSE IF cores = 0 THEN 1 ELSE cores

PortIsValid == configuration.port # 0

(* What is logged when the threads are counted. *)
Counted ==
  LET counting == Logged(log, Level.information) IN
  IF configuration.threads # 0 THEN log
  ELSE IF cores # 0 THEN counting ELSE Logged(counting, LogW)

Validate ==
  LET cfg == configuration IN
  /\ pc = "validate"
  /\ \/ /\ ~PortIsValid
        /\ configuration' = [cfg EXCEPT !.threads = Threads(@)]
        /\ log' = Counted
        /\ Throws("invalid_value")
     \/ /\ PortIsValid
        /\ configuration' =
             [cfg EXCEPT !.threads = Threads(@),
                         !.reap_interval = IF @ = 0 THEN 1 ELSE @]
        /\ log' = IF cfg.reap_interval = 0 THEN Logged(Counted, LogW) ELSE Counted
        /\ pc' = "lobby" /\ UNCHANGED thrown
  /\ UNCHANGED <<given, file, next, help, initialized, options, threshold, told,
                 cerr, status>>

-----------------------------------------------------------------------------
(* main()                                                                  *)

(* The constructor of tlobby serves for good, unless the port is not free. *)
Lobby ==
  /\ pc = "lobby"
  /\ \/ pc' = "serving" /\ UNCHANGED thrown
     \/ Throws("runtime_error")
  /\ UNCHANGED <<given, file, next, help, initialized, settings, output, status>>

(* What LOG_F writes of the type of the exception; formatting it must not  *)
(* throw, for nothing would catch that.                                    *)
Told(kind) == OutputStream(Exceptions, kind, <<>>)

Catch ==
  /\ pc = "caught"
  /\ pc' = "ended"
  /\ \/ /\ thrown \in Members(Exceptions)
        /\ Told(thrown).thrown = None
        /\ told' = Told(thrown).stream
        /\ Logs(Level.fatal)
        /\ status' = "failure" /\ UNCHANGED cerr
     \/ /\ thrown = "runtime_error"
        /\ cerr' = TRUE /\ status' = "failure" /\ UNCHANGED <<log, told>>
     \/ thrown = "exit failure" /\ status' = "failure" /\ UNCHANGED output
     \/ thrown = "exit success" /\ status' = "success" /\ UNCHANGED output
  /\ UNCHANGED <<given, file, next, help, initialized, settings, thrown>>

Next == Parse \/ Parsed \/ Create \/ Validate \/ Lobby \/ Catch

Spec == Init /\ [][Next]_vars /\ WF_vars(Next)

-----------------------------------------------------------------------------
(* Properties.                                                             *)

(* The variables have the types of options.hpp and configuration.hpp. *)
TypeOK ==
  /\ options \in [foreground : BOOLEAN,
                  configuration_file : Arguments \union {"none"}]
  /\ configuration \in [threads : 0 .. UnsignedMax, port : 0 .. ShortMax,
                        reap_interval : 0 .. UnsignedMax]
  /\ threshold \in Members(Levels)
  /\ {help, initialized, cerr} \subseteq BOOLEAN

(* What a valid number in the file says is what the lobby gets; a number   *)
(* that is too large is no number.                                         *)
Configured(value, n, default, max) ==
  /\ value.kind = "number" /\ value.n \in 1 .. max => n = value.n
  /\ (value.kind # "number" \/ value.n > max) => n = default

(* The lobby runs at least one thread, listens to a port and never reaps   *)
(* without a pause, whatever the file says, is missing or cannot be read   *)
(* as, and whatever is known of the hardware; and it gets the numbers the  *)
(* file gives where they can be had, and the defaults where they cannot.   *)
ServesAsAsked ==
  /\ TypeOK
  /\ pc \in {"lobby", "serving"} =>
       /\ configuration.threads > 0
       /\ configuration.port > 0
       /\ configuration.reap_interval > 0
  /\ pc = "serving" /\ file.kind = "read" =>
       /\ Configured(file.port, configuration.port, DefaultPort, ShortMax)
       /\ Configured(file.reap_interval, configuration.reap_interval,
                     DefaultReap, UnsignedMax)
       /\ Configured(file.threads, configuration.threads, Threads(0),
                     UnsignedMax)

Positional == {i \in DOMAIN arguments : arguments[i] \notin {"-h", "-f"}}

(* What the command line decides, without a loop: two files are one too    *)
(* many, also with -h; -h wins over everything else; else the options are  *)
(* those given, in whatever order.                                         *)
ArgumentsDecide ==
  LET excess == \E i, j \in Positional : i # j
      wantsHelp == Contains(arguments, "-h") IN
  /\ excess /\ pc = "ended" => status = "failure"
  /\ ~excess /\ wantsHelp /\ pc = "ended" => status = "success"
  /\ pc \notin {"parse", "caught", "ended"} =>
       /\ ~excess /\ ~wantsHelp
       /\ options.foreground <=> Contains(arguments, "-f")
       /\ \A i \in Positional : options.configuration_file = arguments[i]
       /\ Positional = {} => options.configuration_file = "none"

(* The program ends, or not, as its arguments ask for; when it fails it    *)
(* has told why at a level nobody can disable, or on std::cerr; and the    *)
(* singletons are used in order on every path: no assertion of theirs is   *)
(* what fails.                                                             *)
EndsAsAsked ==
  /\ ArgumentsDecide
  /\ status = "failure" => cerr \/ Last(log) = Level.fatal
  /\ thrown # "internal_failure"

(* The lists of the enums are used in both directions, by the switch of    *)
(* the output and by the comparisons of the input. The server starts with  *)
(* the level whose text the file has, and with no text that is none; and   *)
(* what the log calls the exception that ended it reads back as its type.  *)
ReadsBack ==
  /\ file.kind = "read" /\ pc \in {"validate", "lobby", "serving"} =>
       \/ file.level \in Strings(Levels, threshold)
       \/ file.level = None /\ threshold = "trace"
  /\ pc = "ended" =>
       IF thrown \in Members(Exceptions)
       THEN InputStream(Exceptions, told, Outside) = [value |-> thrown, thrown |-> None]
       ELSE told = <<>>

=============================================================================
