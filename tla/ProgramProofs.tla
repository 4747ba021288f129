---------------------------- MODULE ProgramProofs ---------------------------
(***************************************************************************)
(* How the two programs begin and how one of them ends: what the server    *)
(* starts with, for any bounds of the types, numbers in the file, defaults *)
(* and hardware (Startup, main() of czar.cpp); and how the text client     *)
(* stops, for any size of its pool of threads (Shutdown, run(), loop() and *)
(* the signal handler of application.cpp).                                 *)
(***************************************************************************)
EXTENDS Startup, Shutdown, FiniteSetTheorems, TLAPS

(* A number of the file is an integer. *)
LEMMA NumeralIsInteger ==
  ASSUME NEW value \in Numerals, value.kind = "number"
  PROVE  value.n \in Int
BY StartupAssumption DEF Numerals, Absent, Junk, Number

(* Reading a number gives one of its type, the very number when it is in   *)
(* the range of the type, and the default when it is no number.            *)
LEMMA GetConfigures ==
  ASSUME NEW value \in Numerals, NEW max \in Nat, NEW default \in 0 .. max
  PROVE  /\ Get(value, max, default) \in 0 .. max
         /\ Configured(value, Get(value, max, default), default, max)
<1>1. CASE Fits(value, max)
  <2>1. value.n \in Int /\ value.n <= max /\ value.kind = "number"
    BY <1>1, NumeralIsInteger DEF Fits
  <2>2. value.n % (max + 1) \in 0 .. max
    BY <2>1
  <2>3. value.n \in 1 .. max => value.n % (max + 1) = value.n
    BY <2>1
  <2> QED BY <1>1, <2>1, <2>2, <2>3 DEF Get, Configured
<1>2. CASE ~Fits(value, max)
  <2>1. Get(value, max, default) = default
    BY <1>2 DEF Get
  <2>2. value.kind = "number" => value.n \notin 1 .. max
    BY <1>2, NumeralIsInteger DEF Fits
  <2> QED BY <2>1, <2>2 DEF Configured
<1> QED BY <1>1, <1>2

(* The level of a text is a level. *)
LEMMA LevelIsLevel ==
  ASSUME NEW text, GetLevel(text).thrown = None
  PROVE  GetLevel(text).value \in Members(Levels)
<1>1. "trace" \in Members(Levels)
  BY DEF Members, Levels
<1>2. CASE text = None
  BY <1>1, <1>2 DEF GetLevel
<1>3. CASE text # None
  <2>1. Enumerators(Levels, text) # {}
    BY <1>3 DEF GetLevel, InputString, FailInput, None
  <2>2. GetLevel(text).value \in Enumerators(Levels, text)
    BY <1>3, <2>1 DEF GetLevel, InputString
  <2> QED BY <2>2 DEF Enumerators, Members
<1> QED BY <1>2, <1>3

-----------------------------------------------------------------------------
(* What is known of the settings at each stage.                            *)

Stages == {"parse", "create", "validate", "lobby", "serving", "caught", "ended"}

(* The numbers of the file, before and after they are validated. *)
NumbersConfigured(threads) ==
  file.kind = "read" =>
    /\ Configured(file.port, configuration.port, DefaultPort, ShortMax)
    /\ Configured(file.reap_interval, configuration.reap_interval,
                  DefaultReap, UnsignedMax)
    /\ Configured(file.threads, configuration.threads, threads, UnsignedMax)

Serviceable ==
  /\ configuration.threads > 0
  /\ configuration.port > 0
  /\ configuration.reap_interval > 0

StartInv ==
  /\ TypeOK
  /\ arguments \in Seq(Arguments) /\ cores \in Cores /\ next \in Nat
  /\ pc \in Stages
  /\ pc = "validate" => NumbersConfigured(0)
  /\ pc \in {"lobby", "serving"} => NumbersConfigured(Threads(0)) /\ Serviceable

LEMMA StartInvInit == Init => StartInv
<1> SUFFICES ASSUME Init PROVE StartInv
  OBVIOUS
<1>1. arguments \in Seq(Arguments)
  <2>1. PICK n \in 0 .. MaxArguments : arguments \in [1 .. n -> Arguments]
    BY DEF Init, BoundedSeq, SeqOf
  <2>2. n \in Nat
    BY StartupAssumption
  <2> QED BY <2>1, <2>2
<1>2. TypeOK
  <2>1. /\ 0 \in 0 .. UnsignedMax /\ DefaultPort \in 0 .. ShortMax
        /\ DefaultReap \in 0 .. UnsignedMax
    BY StartupAssumption
  <2>2. threshold \in Members(Levels)
    BY DEF Init, Members, Levels
  <2> QED BY <2>1, <2>2 DEF Init, TypeOK
<1> QED BY <1>1, <1>2 DEF Init, StartInv, Stages

(* The threads the lobby gets when the file gives n. *)
LEMMA ThreadsAreThere ==
  ASSUME cores \in Cores, NEW n \in 0 .. UnsignedMax
  PROVE  /\ Threads(n) \in 1 .. UnsignedMax
         /\ n # 0 => Threads(n) = n
         /\ n = 0 => Threads(n) = Threads(0)
BY StartupAssumption DEF Threads

LEMMA ParseKeeps ==
  ASSUME StartInv, Parse \/ Parsed
  PROVE  StartInv'
<1>1. /\ UNCHANGED <<arguments, cores, file, configuration, threshold, cerr>>
      /\ initialized' \in BOOLEAN /\ help' \in BOOLEAN /\ next' \in Nat
      /\ pc' \in {"parse", "create", "caught"}
  <2>1. CASE Parse
    <3>1. UNCHANGED <<arguments, cores, file, configuration, threshold, cerr>>
      BY <2>1 DEF Parse, given
    <3>2. initialized' \in BOOLEAN
      BY <2>1 DEF Parse, Singleton, StartInv, TypeOK
    <3>3. help \in BOOLEAN /\ next \in Nat /\ pc = "parse"
      BY <2>1 DEF Parse, StartInv, TypeOK
    <3>4. /\ help' = TRUE \/ help' = help
          /\ next' = next + 1 \/ next' = next
          /\ pc' = pc \/ pc' = "caught"
      BY <2>1 DEF Parse, Throws
    <3>5. next' \in Nat
      BY <3>3, <3>4
    <3>6. help' \in BOOLEAN /\ pc' \in {"parse", "create", "caught"}
      BY <3>3, <3>4, Zenon
    <3> QED BY <3>1, <3>2, <3>5, <3>6
  <2>2. CASE Parsed
    <3>1. UNCHANGED <<arguments, cores, file, configuration, threshold, cerr,
                      next, help>>
      BY <2>2 DEF Parsed, given, settings
    <3>2. initialized' \in BOOLEAN
      BY <2>2 DEF Parsed, Singleton, StartInv, TypeOK
    <3>3. pc' \in {"parse", "create", "caught"}
      BY <2>2 DEF Parsed, Throws
    <3> QED BY <3>1, <3>2, <3>3 DEF StartInv, TypeOK
  <2> QED BY <2>1, <2>2
<1>2. options' \in [foreground : BOOLEAN,
                   configuration_file : Arguments \union {"none"}]
  <2>1. CASE Parsed
    BY <2>1 DEF StartInv, TypeOK, Parsed, settings
  <2>2. CASE Parse
    <3>1. arguments[next] \in Arguments
      <4>1. next \in DOMAIN arguments /\ arguments \in Seq(Arguments)
        BY <2>2 DEF StartInv, Parse
      <4> QED BY <4>1
    <3> QED BY <2>2, <3>1 DEF StartInv, TypeOK, Parse
  <2> QED BY <2>1, <2>2
<1> QED BY <1>1, <1>2 DEF StartInv, TypeOK, Stages

LEMMA CreateKeeps ==
  ASSUME StartInv, Create
  PROVE  StartInv'
<1>1. /\ UNCHANGED <<arguments, cores, next, help, initialized, options, cerr>>
      /\ pc' \in {"validate", "caught"}
  BY DEF Create, Throws, given
<1>2. CASE UNCHANGED <<configuration, threshold>> /\ file'.kind # "read"
  BY <1>1, <1>2 DEF StartInv, TypeOK, Stages, NumbersConfigured
<1>3. CASE UNCHANGED <<configuration, threshold>> /\ pc' = "caught"
  BY <1>1, <1>3 DEF StartInv, TypeOK, Stages
<1>4. CASE ~(UNCHANGED <<configuration, threshold>> /\ file'.kind # "read")
           /\ ~(UNCHANGED <<configuration, threshold>> /\ pc' = "caught")
  <2>1. /\ file' \in Files /\ file'.kind = "read"
        /\ configuration' =
             [threads |-> Get(file'.threads, UnsignedMax, 0),
              port |-> Get(file'.port, ShortMax, DefaultPort),
              reap_interval |-> Get(file'.reap_interval, UnsignedMax, DefaultReap)]
        /\ \/ threshold' = threshold
           \/ /\ GetLevel(file'.level).thrown = None
              /\ threshold' = GetLevel(file'.level).value
    BY <1>4 DEF Create, Throws
  <2>2. {file'.threads, file'.port, file'.reap_interval} \subseteq Numerals
    BY <2>1 DEF Files
  <2>3. /\ 0 \in 0 .. UnsignedMax /\ DefaultPort \in 0 .. ShortMax
        /\ DefaultReap \in 0 .. UnsignedMax
        /\ UnsignedMax \in Nat /\ ShortMax \in Nat
    BY StartupAssumption
  <2>4. /\ configuration'.threads \in 0 .. UnsignedMax
        /\ Configured(file'.threads, configuration'.threads, 0, UnsignedMax)
    BY <2>1, <2>2, <2>3, GetConfigures
  <2>5. /\ configuration'.port \in 0 .. ShortMax
        /\ Configured(file'.port, configuration'.port, DefaultPort, ShortMax)
    BY <2>1, <2>2, <2>3, GetConfigures
  <2>6. /\ configuration'.reap_interval \in 0 .. UnsignedMax
        /\ Configured(file'.reap_interval, configuration'.reap_interval,
                      DefaultReap, UnsignedMax)
    BY <2>1, <2>2, <2>3, GetConfigures
  <2>7. configuration' \in [threads : 0 .. UnsignedMax, port : 0 .. ShortMax,
                            reap_interval : 0 .. UnsignedMax]
    BY <2>1, <2>4, <2>5, <2>6
  <2>8. threshold' \in Members(Levels)
    BY <2>1, LevelIsLevel DEF StartInv, TypeOK
  <2>9. NumbersConfigured(0)'
    BY <2>4, <2>5, <2>6 DEF NumbersConfigured
  <2>10. TypeOK'
    BY <1>1, <2>7, <2>8 DEF StartInv, TypeOK
  <2> QED BY <1>1, <2>9, <2>10 DEF StartInv, Stages
<1> QED BY <1>2, <1>3, <1>4

LEMMA ValidateKeeps ==
  ASSUME StartInv, Validate
  PROVE  StartInv'
<1> DEFINE cfg == configuration
<1>1. /\ cfg \in [threads : 0 .. UnsignedMax, port : 0 .. ShortMax,
                  reap_interval : 0 .. UnsignedMax]
      /\ cores \in Cores /\ pc = "validate" /\ NumbersConfigured(0)
  BY DEF StartInv, TypeOK, Validate
<1>2. /\ UNCHANGED <<arguments, cores, file, next, help, initialized, options,
                     threshold, cerr>>
      /\ pc' \in {"lobby", "caught"}
  BY DEF Validate, Throws, given
<1>3. /\ Threads(cfg.threads) \in 1 .. UnsignedMax
      /\ cfg.threads # 0 => Threads(cfg.threads) = cfg.threads
      /\ cfg.threads = 0 => Threads(cfg.threads) = Threads(0)
  BY <1>1, ThreadsAreThere
<1>4. CASE ~PortIsValid
  <2>1. /\ pc' = "caught"
        /\ configuration' = [cfg EXCEPT !.threads = Threads(cfg.threads)]
    BY <1>4 DEF Validate, Throws
  <2>2. configuration' \in [threads : 0 .. UnsignedMax, port : 0 .. ShortMax,
                            reap_interval : 0 .. UnsignedMax]
    <3>1. configuration' = [threads |-> Threads(cfg.threads), port |-> cfg.port,
                            reap_interval |-> cfg.reap_interval]
      BY <1>1, <2>1
    <3>2. Threads(cfg.threads) \in 0 .. UnsignedMax
      BY <1>3, StartupAssumption
    <3> QED BY <1>1, <3>1, <3>2
  <2> QED BY <1>2, <2>1, <2>2 DEF StartInv, TypeOK, Stages
<1>5. CASE PortIsValid
  <2>1. configuration' =
          [cfg EXCEPT !.threads = Threads(cfg.threads),
                      !.reap_interval = IF cfg.reap_interval = 0 THEN 1
                                        ELSE cfg.reap_interval]
    BY <1>5 DEF Validate
  <2>2. /\ configuration'.threads = Threads(cfg.threads)
        /\ configuration'.port = cfg.port
        /\ configuration'.reap_interval =
             IF cfg.reap_interval = 0 THEN 1 ELSE cfg.reap_interval
    BY <1>1, <2>1
  <2>3. configuration' \in [threads : 0 .. UnsignedMax, port : 0 .. ShortMax,
                            reap_interval : 0 .. UnsignedMax]
    <3>1. configuration' =
            [threads |-> Threads(cfg.threads), port |-> cfg.port,
             reap_interval |-> IF cfg.reap_interval = 0 THEN 1
                               ELSE cfg.reap_interval]
      BY <1>1, <2>1
    <3>2. Threads(cfg.threads) \in 0 .. UnsignedMax /\ 1 \in 0 .. UnsignedMax
      BY <1>3, StartupAssumption
    <3> QED BY <1>1, <3>1, <3>2
  <2>4. Serviceable'
    BY <1>1, <1>3, <1>5, <2>2, StartupAssumption DEF Serviceable, PortIsValid
  <2>5. NumbersConfigured(Threads(0))'
    <3>1. Threads(0)' = Threads(0)
      BY <1>2 DEF Threads
    <3>2. UNCHANGED file
      BY <1>2
    <3> SUFFICES ASSUME file.kind = "read"
                 PROVE  NumbersConfigured(Threads(0))'
      BY <3>2 DEF NumbersConfigured
    <3>3. Configured(file.port, configuration'.port, DefaultPort, ShortMax)
      BY <1>1, <2>2 DEF NumbersConfigured
    <3>4. Configured(file.reap_interval, configuration'.reap_interval,
                     DefaultReap, UnsignedMax)
      BY <1>1, <2>2, StartupAssumption DEF NumbersConfigured, Configured
    <3>5. Configured(file.threads, configuration'.threads, Threads(0),
                     UnsignedMax)
      BY <1>1, <1>3, <2>2, StartupAssumption DEF NumbersConfigured, Configured
    <3> QED BY <3>1, <3>2, <3>3, <3>4, <3>5 DEF NumbersConfigured
  <2> QED BY <1>2, <2>3, <2>4, <2>5 DEF StartInv, TypeOK, Stages
<1> QED BY <1>4, <1>5

LEMMA StartInvInductive == StartInv /\ [Next]_vars => StartInv'
<1> SUFFICES ASSUME StartInv, [Next]_vars PROVE StartInv'
  OBVIOUS
<1>1. CASE Lobby
  <2>1. UNCHANGED <<arguments, cores, file, next, help, initialized, options,
                    configuration, threshold, cerr>>
    BY <1>1 DEF Lobby, given, settings, output
  <2>2. pc = "lobby" /\ pc' \in {"serving", "caught"}
    BY <1>1 DEF Lobby, Throws
  <2> QED BY <2>1, <2>2
          DEF StartInv, TypeOK, Stages, NumbersConfigured, Serviceable, Threads
<1>2. CASE Catch
  BY <1>2 DEF Catch, StartInv, TypeOK, Stages, given, settings, output
<1>3. CASE UNCHANGED vars
  BY <1>3 DEF vars, given, settings, output, StartInv, TypeOK,
              NumbersConfigured, Serviceable, Threads
<1> QED BY <1>1, <1>2, <1>3, ParseKeeps, CreateKeeps, ValidateKeeps DEF Next

(* The server serves with at least one thread, a port and a pause between  *)
(* two reapings, and with the numbers of the file where it has them, for   *)
(* every file, every hardware and every width of the types.                *)
THEOREM ServerServesAsAsked == Spec => []ServesAsAsked
<1>1. StartInv => ServesAsAsked
  BY DEF StartInv, ServesAsAsked, NumbersConfigured, Serviceable
<1> QED BY <1>1, StartInvInit, StartInvInductive, PTL DEF Spec

-----------------------------------------------------------------------------
(* The lists of the enums.                                                 *)

(* A text stands for a member only when it is the text of that member. *)
LEMMA LevelHasText ==
  ASSUME NEW text, GetLevel(text).thrown = None
  PROVE  \/ text \in Strings(Levels, GetLevel(text).value)
         \/ text = None /\ GetLevel(text).value = "trace"
<1>1. CASE text = None
  BY <1>1 DEF GetLevel
<1>2. CASE text # None
  <2>1. Enumerators(Levels, text) # {}
    BY <1>2 DEF GetLevel, InputString, FailInput, None
  <2>2. GetLevel(text).value \in Enumerators(Levels, text)
    BY <1>2, <2>1 DEF GetLevel, InputString
  <2>3. PICK i \in DOMAIN Levels : /\ Levels[i][2] = text
                                  /\ Levels[i][1] = GetLevel(text).value
    BY <2>2 DEF Enumerators
  <2> QED BY <2>3 DEF Strings
<1> QED BY <1>1, <1>2

(* No two exception types have one name or one text, and what else main()  *)
(* catches is none of them.                                                *)
LEMMA ExceptionsDiffer ==
  /\ DOMAIN Exceptions = 1 .. 7
  /\ \A i, j \in 1 .. 7 :
       Exceptions[i][1] = Exceptions[j][1] \/ Exceptions[i][2] = Exceptions[j][2]
         => i = j
  /\ \A k \in {"runtime_error", "exit failure", "exit success"} :
       k \notin Members(Exceptions)
<1>1. DOMAIN Exceptions = 1 .. 7
  BY DEF Exceptions
<1>2. \A i, j \in 1 .. 7 :
       Exceptions[i][1] = Exceptions[j][1] \/ Exceptions[i][2] = Exceptions[j][2]
         => i = j
  BY DEF Exceptions
<1>3. \A i \in 1 .. 7 :
        Exceptions[i][1] \in {"invalid_value", "busy", "no_access",
                              "protocol_error", "socket_error",
                              "not_implemented_yet", "internal_failure"}
  BY DEF Exceptions
<1> QED BY <1>1, <1>2, <1>3 DEF Members

(* What the log calls an exception reads back as its type. *)
LEMMA ToldReadsBack ==
  ASSUME NEW kind \in Members(Exceptions)
  PROVE  InputStream(Exceptions, Told(kind).stream, Outside)
           = [value |-> kind, thrown |-> None]
<1>1. PICK i \in DOMAIN Exceptions : Exceptions[i][1] = kind
  BY DEF Members
<1> DEFINE str == Exceptions[i][2]
<1>2. Strings(Exceptions, kind) = {str}
  BY <1>1, ExceptionsDiffer DEF Strings
<1>3. OutputString(Exceptions, kind, Empty) = [str |-> str, thrown |-> None]
  BY <1>2 DEF OutputString
<1>4. Told(kind).stream = <<str>>
  BY <1>3 DEF Told, OutputStream
<1>5. Line(<<str>>) = str
  BY DEF Line
<1>6. Enumerators(Exceptions, str) = {kind}
  <2>1. {j \in DOMAIN Exceptions : Exceptions[j][2] = str} = {i}
    BY ExceptionsDiffer
  <2>2. i \in 1 .. 7
    BY ExceptionsDiffer
  <2>3. i <= i
    BY <2>2
  <2> QED BY <1>1, <2>1, <2>3 DEF Enumerators
<1> QED BY <1>4, <1>5, <1>6 DEF InputStream, InputString

ReadInv ==
  /\ ReadsBack
  /\ pc # "ended" => told = <<>>

LEMMA ReadInvInductive == ReadInv /\ [Next]_vars => ReadInv'
<1> SUFFICES ASSUME ReadInv, [Next]_vars PROVE ReadInv'
  OBVIOUS
<1> USE DEF ReadInv, ReadsBack
<1>1. CASE Parse
  BY <1>1 DEF Parse, Throws
<1>2. CASE Parsed
  BY <1>2 DEF Parsed, Throws
<1>3. CASE Create
  <2>1. pc = "create" /\ told' = told /\ pc' \in {"validate", "caught"}
    BY <1>3 DEF Create, Throws
  <2>2. CASE file'.kind = "read" /\ pc' = "validate"
    <3>1. \/ /\ GetLevel(file'.level).thrown = None
             /\ threshold' = GetLevel(file'.level).value
      BY <1>3, <2>2 DEF Create, Throws
    <3> QED BY <2>1, <2>2, <3>1, LevelHasText
  <2> QED BY <2>1, <2>2
<1>4. CASE Validate
  BY <1>4 DEF Validate, Throws
<1>5. CASE Lobby
  BY <1>5 DEF Lobby, Throws, settings, output
<1>6. CASE Catch
  <2>1. pc = "caught" /\ pc' = "ended" /\ thrown' = thrown /\ told = <<>>
    BY <1>6 DEF Catch
  <2>2. CASE thrown \in Members(Exceptions)
    <3>1. told' = Told(thrown).stream
      BY <1>6, <2>2, ExceptionsDiffer DEF Catch
    <3> QED BY <2>1, <2>2, <3>1, ToldReadsBack
  <2>3. CASE thrown \notin Members(Exceptions)
    <3>1. told' = told
      BY <1>6, <2>3 DEF Catch, output
    <3> QED BY <2>1, <2>3, <3>1
  <2> QED BY <2>2, <2>3
<1>7. CASE UNCHANGED vars
  BY <1>7 DEF vars, settings, output
<1> QED BY <1>1, <1>2, <1>3, <1>4, <1>5, <1>6, <1>7 DEF Next

(* The level that logging starts with is the one whose text the file has,  *)
(* and the exception that ended the program can be recognised in the log.  *)
THEOREM EnumsReadBack == Spec => []ReadsBack
<1>1. Init => ReadInv
  BY DEF Init, ReadInv, ReadsBack
<1>2. ReadInv => ReadsBack
  BY DEF ReadInv
<1> QED BY <1>1, <1>2, ReadInvInductive, PTL DEF Spec

-----------------------------------------------------------------------------
(* How the program ends.                                                   *)

Seen(i) == i \in DOMAIN arguments /\ i < next

(* What the loop of parse() has made of the arguments it has seen. *)
ParseInv ==
  /\ next \in 1 .. Len(arguments) + 1
  /\ help <=> \E i \in DOMAIN arguments : Seen(i) /\ arguments[i] = "-h"
  /\ options.foreground <=> \E i \in DOMAIN arguments : Seen(i) /\ arguments[i] = "-f"
  /\ \A i \in Positional : Seen(i) => options.configuration_file = arguments[i]
  /\ (\A i \in Positional : ~Seen(i)) => options.configuration_file = "none"
  /\ \A i, j \in Positional : Seen(i) /\ Seen(j) => i = j
  /\ pc = "parse" => (initialized <=> next > 1)

Excess == \E i, j \in Positional : i # j

(* Why main() is where it is. *)
ThrownInv ==
  /\ pc # "parse" => initialized
  /\ pc \notin {"caught", "ended"} => thrown = None
  /\ pc \in {"caught", "ended"} =>
       thrown \in {"exit failure", "exit success", "invalid_value", "runtime_error"}
  /\ thrown = "exit failure" => Excess /\ Last(log) = Level.fatal
  /\ pc # "parse" /\ thrown # "exit failure" =>
       /\ next = Len(arguments) + 1
       /\ help <=> thrown = "exit success"

(* What is left when it ends. *)
EndedInv ==
  /\ log \in Seq(Int)
  /\ pc # "ended" => status = "none"
  /\ pc = "ended" =>
       /\ status = IF thrown = "exit success" THEN "success" ELSE "failure"
       /\ thrown = "invalid_value" => Last(log) = Level.fatal
       /\ thrown = "runtime_error" => cerr

EndInv == StartInv /\ ParseInv /\ ThrownInv /\ EndedInv

LEMMA EndInvInit == Init => EndInv
<1> SUFFICES ASSUME Init PROVE EndInv
  OBVIOUS
<1>1. StartInv
  BY StartInvInit
<1>2. next = 1 /\ arguments \in Seq(Arguments) /\ Len(arguments) \in Nat
  BY <1>1 DEF Init, StartInv
<1>3. \A i \in DOMAIN arguments : ~Seen(i)
  BY <1>2 DEF Seen
<1>4. ParseInv
  BY <1>2, <1>3 DEF Init, ParseInv, Positional
<1>5. ThrownInv /\ EndedInv
  BY DEF Init, ThrownInv, EndedInv, None, Level
<1> QED BY <1>1, <1>4, <1>5 DEF EndInv

(* Messages at the level fatal are always logged. *)
LEMMA FatalIsLogged ==
  ASSUME threshold \in Members(Levels), log \in Seq(Int)
  PROVE  /\ Logged(log, Level.fatal) \in Seq(Int)
         /\ Last(Logged(log, Level.fatal)) = Level.fatal
<1>1. threshold \in {"trace", "debug", "information", "warning", "error", "fatal"}
  BY DEF Members, Levels
<1>2. Level.fatal >= Level[threshold] /\ Level.fatal \in Int
  BY <1>1 DEF Level
<1>3. Logged(log, Level.fatal) = Append(log, Level.fatal)
  BY <1>2 DEF Logged
<1> QED BY <1>2, <1>3 DEF Last

LEMMA LogOfLevels ==
  ASSUME NEW messages \in Seq(Int), NEW level \in Int
  PROVE  Logged(messages, level) \in Seq(Int)
BY DEF Logged

LEMMA LevelsAreNumbers == LogW \in Int /\ Level.information \in Int /\ Level.fatal \in Int
BY DEF LogW, Level

(* A turn of the loop. *)
LEMMA ParseEnds ==
  ASSUME EndInv, Parse
  PROVE  ParseInv' /\ ThrownInv' /\ EndedInv'
<1> DEFINE option == arguments[next]
<1>1. /\ pc = "parse" /\ next \in DOMAIN arguments
      /\ UNCHANGED <<arguments, threshold, status, told, cerr>>
  BY DEF Parse, given
<1>2. /\ arguments \in Seq(Arguments) /\ Len(arguments) \in Nat
      /\ DOMAIN arguments = 1 .. Len(arguments) /\ option \in Arguments
      /\ next \in Nat /\ initialized' = TRUE
  <2>1. arguments \in Seq(Arguments) /\ initialized \in BOOLEAN
    BY DEF EndInv, StartInv, TypeOK
  <2>2. /\ Len(arguments) \in Nat /\ DOMAIN arguments = 1 .. Len(arguments)
        /\ option \in Arguments
    BY <1>1, <2>1
  <2>3. next \in Nat /\ (next = 1 \/ next > 1)
    BY <1>1, <2>2
  <2>4. IF next = 1 THEN Singleton(FALSE) ELSE UNCHANGED initialized
    BY DEF Parse
  <2>5. ASSUME next > 1 PROVE initialized = TRUE
    <3>1. initialized <=> next > 1
      BY <1>1 DEF EndInv, ParseInv
    <3> QED BY <2>1, <2>5, <3>1
  <2>6. initialized' = TRUE
    <3>1. CASE next = 1
      BY <2>4, <3>1 DEF Singleton
    <3>2. CASE next > 1
      <4>1. next # 1
        BY <2>3, <3>2
      <4> QED BY <2>4, <2>5, <3>2, <4>1
    <3> QED BY <2>3, <3>1, <3>2
  <2> QED BY <2>1, <2>2, <2>3, <2>6
<1>3. /\ options \in [foreground : BOOLEAN, configuration_file : Arguments \union {"none"}]
      /\ help \in BOOLEAN /\ threshold \in Members(Levels) /\ log \in Seq(Int)
      /\ thrown = None /\ status = "none"
  BY <1>1 DEF EndInv, StartInv, TypeOK, ThrownInv, EndedInv
<1>4. Positional' = Positional
  BY <1>1 DEF Positional
<1>5. CASE next' = next + 1
  <2>1. /\ pc' = "parse" /\ UNCHANGED <<thrown, log>>
        /\ \/ option = "-h" /\ help' = TRUE /\ options' = options
           \/ /\ option = "-f" /\ help' = help
              /\ options' = [options EXCEPT !.foreground = TRUE]
           \/ /\ option \notin {"-h", "-f"} /\ options.configuration_file = "none"
              /\ options' = [options EXCEPT !.configuration_file = option]
              /\ help' = help
    <3>1. next \in Nat /\ next' # next
      BY <1>1, <1>2, <1>5
    <3> QED BY <1>1, <3>1 DEF Parse
  <2>2. \A i \in DOMAIN arguments : Seen(i)' <=> Seen(i) \/ i = next
    BY <1>1, <1>2, <1>5 DEF Seen
  <2>3. ~Seen(next) /\ next' \in 1 .. Len(arguments) + 1 /\ next' > 1
    BY <1>1, <1>2, <1>5 DEF Seen
  <2>4. help' <=> \E i \in DOMAIN arguments : Seen(i)' /\ arguments[i] = "-h"
    BY <1>1, <2>1, <2>2 DEF EndInv, ParseInv
  <2>5. options'.foreground <=>
          \E i \in DOMAIN arguments : Seen(i)' /\ arguments[i] = "-f"
    BY <1>1, <1>3, <2>1, <2>2 DEF EndInv, ParseInv
  <2>6. CASE option \in {"-h", "-f"}
    <3>1. /\ options'.configuration_file = options.configuration_file
          /\ next \notin Positional
      BY <1>3, <2>1, <2>6 DEF Positional
    <3>2. \A i \in Positional : Seen(i)' <=> Seen(i)
      BY <2>2, <3>1 DEF Positional
    <3>3. /\ \A i \in Positional : Seen(i)' => options'.configuration_file = arguments[i]
          /\ (\A i \in Positional : ~Seen(i)') => options'.configuration_file = "none"
          /\ \A i, j \in Positional : Seen(i)' /\ Seen(j)' => i = j
      BY <3>1, <3>2 DEF EndInv, ParseInv
    <3>4. ParseInv'
      BY <1>1, <1>2, <1>4, <2>1, <2>3, <2>4, <2>5, <3>3 DEF ParseInv
    <3> QED BY <1>1, <1>2, <1>3, <2>1, <3>4 DEF ThrownInv, EndedInv, None
  <2>7. CASE option \notin {"-h", "-f"}
    <3>1. /\ options'.configuration_file = option /\ options.configuration_file = "none"
          /\ next \in Positional
      BY <1>1, <1>3, <2>1, <2>7 DEF Positional
    <3>2. \A i \in Positional : ~Seen(i)
      BY <1>2, <3>1 DEF EndInv, ParseInv, Positional, Arguments
    <3>3. \A i \in Positional : Seen(i)' <=> i = next
      BY <2>2, <3>1, <3>2 DEF Positional
    <3>4. ParseInv'
      BY <1>1, <1>2, <1>4, <2>1, <2>3, <2>4, <2>5, <3>1, <3>3 DEF ParseInv
    <3> QED BY <1>1, <1>2, <1>3, <2>1, <3>4 DEF ThrownInv, EndedInv, None
  <2> QED BY <2>6, <2>7
<1>6. CASE next' # next + 1
  <2>1. /\ option \notin {"-h", "-f"} /\ options.configuration_file # "none"
        /\ Logs(Level.fatal) /\ pc' = "caught" /\ thrown' = "exit failure"
        /\ UNCHANGED <<options, help, next>>
    BY <1>6 DEF Parse, Throws
  <2>2. next \in Positional /\ ~Seen(next)
    <3>1. next \in Positional
      BY <1>1, <2>1 DEF Positional
    <3>2. ~(next < next)
      BY <1>2
    <3> QED BY <3>1, <3>2 DEF Seen
  <2>3. Excess
    BY <2>1, <2>2 DEF EndInv, ParseInv, Excess
  <2>4. log' \in Seq(Int) /\ Last(log') = Level.fatal
    BY <1>3, <2>1, FatalIsLogged DEF Logs
  <2>5. \A i : Seen(i)' <=> Seen(i)
    BY <1>1, <2>1 DEF Seen
  <2>6. ParseInv'
    BY <1>1, <1>4, <2>1, <2>5 DEF EndInv, ParseInv
  <2>7. Excess' /\ Level' = Level
    BY <1>4, <2>3 DEF Excess, Level
  <2> QED BY <1>1, <1>2, <1>3, <2>1, <2>4, <2>6, <2>7 DEF ThrownInv, EndedInv, None
<1> QED BY <1>5, <1>6

(* Once the arguments are parsed they stay what they are. *)
LEMMA ParsedStays ==
  ASSUME ParseInv, UNCHANGED <<arguments, next, help, options>>, pc' # "parse"
  PROVE  ParseInv' /\ Excess' = Excess
<1>1. Positional' = Positional /\ \A i : Seen(i)' <=> Seen(i)
  BY DEF Positional, Seen
<1> QED BY <1>1 DEF ParseInv, Excess

LEMMA ParsedEnds ==
  ASSUME EndInv, Parsed
  PROVE  ParseInv' /\ ThrownInv' /\ EndedInv'
<1>1. /\ pc = "parse" /\ next \notin DOMAIN arguments
      /\ UNCHANGED <<arguments, next, help, options, status, cerr>>
      /\ \/ help /\ pc' = "caught" /\ thrown' = "exit success"
         \/ ~help /\ pc' = "create" /\ thrown' = thrown
      /\ log' \in {log, Logged(log, LogW)}
  BY DEF Parsed, given, settings, Throws, Logs
<1>2. arguments \in Seq(Arguments) /\ next \in 1 .. Len(arguments) + 1 /\ Len(arguments) \in Nat
  BY DEF EndInv, StartInv, ParseInv
<1>3. next = Len(arguments) + 1 /\ (arguments = <<>> <=> next = 1)
  <2>1. DOMAIN arguments = 1 .. Len(arguments)
    BY <1>2
  <2>2. next = Len(arguments) + 1
    <3>1. next \notin 1 .. Len(arguments)
      BY <1>1, <2>1
    <3>2. Len(arguments) \in Nat /\ next \in 1 .. Len(arguments) + 1
      BY <1>2
    <3> QED BY <3>1, <3>2
  <2>3. arguments = <<>> <=> Len(arguments) = 0
    BY <1>2
  <2> QED BY <1>2, <2>2, <2>3
<1>4. initialized' = TRUE
  <2>1. CASE arguments = <<>>
    BY <2>1 DEF Parsed, Singleton
  <2>2. CASE arguments # <<>>
    <3>1. next > 1
      BY <1>2, <1>3, <2>2
    <3>2. initialized = TRUE
      BY <1>1, <3>1 DEF EndInv, ParseInv, StartInv, TypeOK
    <3> QED BY <2>2, <3>2 DEF Parsed
  <2> QED BY <2>1, <2>2
<1>5. log' \in Seq(Int)
  BY <1>1, LogOfLevels, LevelsAreNumbers DEF EndInv, EndedInv
<1>6. ParseInv'
  BY <1>1, ParsedStays DEF EndInv
<1>7. thrown = None /\ status = "none"
  BY <1>1 DEF EndInv, ThrownInv, EndedInv
<1> QED BY <1>1, <1>3, <1>4, <1>5, <1>6, <1>7 DEF ThrownInv, EndedInv, None

(* Reading the file, checking it and starting the lobby fail with one of   *)
(* two exceptions.                                                         *)
LEMMA SettingUpEnds ==
  ASSUME EndInv, Create \/ Validate \/ Lobby
  PROVE  ParseInv' /\ ThrownInv' /\ EndedInv'
<1>1. /\ pc \in {"create", "validate", "lobby"} /\ initialized
      /\ UNCHANGED <<arguments, next, help, options, initialized, status, cerr>>
  BY DEF Create, Validate, Lobby, given, settings, output, EndInv, ThrownInv
<1>2. log' \in Seq(Int)
  <2>1. log \in Seq(Int)
    BY DEF EndInv, EndedInv
  <2>2. Counted \in Seq(Int)
    BY <2>1, LogOfLevels, LevelsAreNumbers DEF Counted
  <2>3. log' \in {log, Logged(log, LogW), Counted, Logged(Counted, LogW)}
    BY DEF Create, Validate, Lobby, output, Logs
  <2> QED BY <2>1, <2>2, <2>3, LogOfLevels, LevelsAreNumbers
<1>3. \/ pc' \in {"validate", "lobby", "serving"} /\ thrown' = thrown
      \/ pc' = "caught" /\ thrown' \in {"invalid_value", "runtime_error"}
  <2>1. \A text : GetLevel(text).thrown \in {None, "invalid_value"}
    BY DEF GetLevel, InputString, FailInput
  <2>2. CASE Create
    BY <1>1, <2>1, <2>2 DEF Create, Throws
  <2>3. CASE Validate \/ Lobby
    BY <2>3 DEF Validate, Lobby, Throws
  <2> QED BY <2>2, <2>3
<1>4. thrown = None /\ status = "none" /\ next = Len(arguments) + 1 /\ ~help
  BY <1>1 DEF EndInv, ThrownInv, EndedInv, None
<1>5. ParseInv'
  BY <1>1, <1>3, ParsedStays DEF EndInv
<1> QED BY <1>1, <1>2, <1>3, <1>4, <1>5 DEF ThrownInv, EndedInv, None

LEMMA CatchEnds ==
  ASSUME EndInv, Catch
  PROVE  ParseInv' /\ ThrownInv' /\ EndedInv'
<1>1. /\ pc = "caught" /\ pc' = "ended"
      /\ UNCHANGED <<arguments, next, help, options, initialized, thrown>>
  BY DEF Catch, given, settings
<1>2. /\ log \in Seq(Int) /\ threshold \in Members(Levels)
      /\ thrown \in {"exit failure", "exit success", "invalid_value", "runtime_error"}
  BY <1>1 DEF EndInv, EndedInv, ThrownInv, StartInv, TypeOK
<1>3. /\ thrown = "invalid_value" => Logs(Level.fatal) /\ status' = "failure"
      /\ thrown = "runtime_error" => cerr' = TRUE /\ status' = "failure" /\ log' = log
      /\ thrown = "exit failure" => status' = "failure" /\ log' = log
      /\ thrown = "exit success" => status' = "success" /\ log' = log
  BY ExceptionsDiffer DEF Catch, output
<1>4. log' \in Seq(Int) /\ (thrown = "invalid_value" => Last(log') = Level.fatal)
  BY <1>2, <1>3, FatalIsLogged DEF Logs
<1>5. ParseInv' /\ Excess' = Excess
  BY <1>1, ParsedStays DEF EndInv
<1>6. ThrownInv'
  BY <1>1, <1>2, <1>3, <1>5 DEF EndInv, ThrownInv, Level, None
<1>7. EndedInv'
  BY <1>1, <1>2, <1>3, <1>4 DEF EndedInv, Level
<1> QED BY <1>5, <1>6, <1>7

LEMMA EndInvStep == EndInv /\ [Next]_vars => EndInv'
<1> SUFFICES ASSUME EndInv, [Next]_vars PROVE EndInv'
  OBVIOUS
<1>1. StartInv'
  BY StartInvInductive DEF EndInv
<1>2. CASE UNCHANGED vars
  <2>1. Positional' = Positional /\ \A i : Seen(i)' <=> Seen(i)
    BY <1>2 DEF Positional, Seen, vars, given
  <2>2. ParseInv' /\ Excess' = Excess
    BY <1>2, <2>1 DEF EndInv, ParseInv, Excess, vars, given, settings
  <2>3. ThrownInv' /\ EndedInv'
    BY <1>2, <2>2 DEF EndInv, ThrownInv, EndedInv, vars, given, settings, output, Level
  <2> QED BY <1>1, <2>2, <2>3 DEF EndInv
<1>3. CASE Next
  BY <1>1, <1>3, ParseEnds, ParsedEnds, SettingUpEnds, CatchEnds DEF Next, EndInv
<1> QED BY <1>2, <1>3

LEMMA EndInvImplies == EndInv => EndsAsAsked
<1> SUFFICES ASSUME EndInv PROVE EndsAsAsked
  OBVIOUS
<1>1. arguments \in Seq(Arguments) /\ pc \in Stages /\ Len(arguments) \in Nat
  BY DEF EndInv, StartInv
<1>2. ASSUME next = Len(arguments) + 1
      PROVE  \A i \in DOMAIN arguments : Seen(i)
  BY <1>1, <1>2 DEF Seen
<1>3. ASSUME next = Len(arguments) + 1
      PROVE  /\ ~Excess
             /\ help <=> Contains(arguments, "-h")
             /\ options.foreground <=> Contains(arguments, "-f")
             /\ \A i \in Positional : options.configuration_file = arguments[i]
             /\ Positional = {} => options.configuration_file = "none"
  <2>1. \A e : Contains(arguments, e) <=> \E i \in DOMAIN arguments : arguments[i] = e
    BY <1>1 DEF Contains
  <2>2. \A i \in Positional : Seen(i)
    BY <1>2, <1>3 DEF Positional
  <2> QED BY <1>2, <1>3, <2>1, <2>2 DEF EndInv, ParseInv, Excess
<1>4. ASSUME pc = "ended", Excess PROVE status = "failure"
  BY <1>3, <1>4 DEF EndInv, ThrownInv, EndedInv
<1>5. ASSUME pc = "ended", ~Excess, Contains(arguments, "-h") PROVE status = "success"
  BY <1>3, <1>5 DEF EndInv, ThrownInv, EndedInv
<1>6. ASSUME pc \notin {"parse", "caught", "ended"}
      PROVE  next = Len(arguments) + 1 /\ ~help
  BY <1>6 DEF EndInv, ThrownInv, None
<1>7. ArgumentsDecide
  BY <1>3, <1>4, <1>5, <1>6 DEF ArgumentsDecide, Excess
<1>8. status = "failure" => cerr \/ Last(log) = Level.fatal
  BY <1>1 DEF EndInv, ThrownInv, EndedInv, Stages
<1>9. thrown # "internal_failure"
  BY <1>1 DEF EndInv, ThrownInv, Stages, None
<1> QED BY <1>7, <1>8, <1>9 DEF EndsAsAsked

(* The command line alone decides whether the program serves, helps or     *)
(* refuses, for any number of arguments in any order; whatever fails is    *)
(* told where nobody can have disabled it; and no assertion of the         *)
(* singletons is what fails.                                               *)
THEOREM ProgramEndsAsAsked == Spec => []EndsAsAsked
<1>1. Spec => []EndInv
  BY EndInvInit, EndInvStep, PTL DEF Spec
<1> QED BY <1>1, EndInvImplies, PTL

-----------------------------------------------------------------------------
(* How the client ends: Shutdown, for any size of the pool.                *)

(* One thread at most ever handles the signal; only it can stop the        *)
(* io_service or wait for another thread.                                  *)
SignalInv ==
  /\ handler = {} \/ \E t \in AllThreads : handler = {t}
  /\ signal = "handled" <=> handler # {}
  /\ stopped => handler # {}
  /\ handler = {} /\ at[Main] # "run" => strand_ = "live"
  /\ \A t \in AllThreads :
       /\ at[t] \in {"sync", "stop", "join"} => handler = {t}
       /\ at[t] \in {"join", "done"} => stopped

(* The threads of the pool are started in their order and work from then   *)
(* on; they are in threads_ until the main thread has joined them all.     *)
PoolInv ==
  /\ \A k \in Pool : at[k] \notin {"run", "spawn"}
  /\ at[Main] = "run" => \A k \in Pool : at[k] = "unborn"
  /\ at[Main] \in {"run", "spawn"} => \E n \in Nat : threads_ = 1 .. n
  /\ \A k \in threads_ : at[k] # "unborn"
  /\ \A k \in Pool : at[k] # "unborn" => k \in threads_ \/ handler = {Main}

(* A thread of the pool that handles the signal never gets past itself; so *)
(* threads_ is joined in the end just when the main thread handles it.     *)
JoinInv ==
  /\ \A k \in joined : at[k] = "done"
  /\ handler = {} => joined = {}
  /\ \A k \in Pool : handler = {k} => k \in threads_ \ joined
  /\ handler = {Main} =>
       /\ at[Main] \notin {"run", "spawn"}
       /\ at[Main] \notin {"sync", "stop", "join"} => threads_ = joined
  /\ outcome # "running" =>
       at[Main] = "done" /\ (outcome = "clean" <=> handler = {Main})

Types ==
  /\ at \in [AllThreads -> Places]
  /\ threads_ \subseteq Pool /\ joined \subseteq threads_
  /\ signal \in {"none", "awaited", "raised", "handled"}
  /\ outcome \in {"running", "clean", "terminated"}

ShutdownInv == Types /\ SignalInv /\ PoolInv /\ JoinInv

LEMMA MainIsNotInPool == Main \notin Pool /\ Main \in AllThreads /\ Pool \subseteq AllThreads
BY ShutdownAssumption DEF Main, Pool, AllThreads

LEMMA ShutdownInvInit == ShutdownInit => ShutdownInv
<1> SUFFICES ASSUME ShutdownInit PROVE ShutdownInv
  OBVIOUS
<1>1. 1 .. 0 = {} /\ 0 \in Nat
  OBVIOUS
<1>2. ~stopped
  BY DEF ShutdownInit, Log!Init
<1> QED BY <1>1, <1>2, MainIsNotInPool
        DEF ShutdownInit, ShutdownInv, Types, SignalInv, PoolInv, JoinInv, Places

(* What is logged changes neither the mode of logging nor the io_service. *)
LEMMA LoggingKeeps ==
  ASSUME NEW t, NEW level,
         \/ Log!Log(t, level) \/ Log!Dispatch(t) \/ Log!Post(t)
         \/ Log!RunQueued(t) \/ Log!WriteEnds(t)
  PROVE  UNCHANGED <<strand_, stopped>>
BY DEF Log!Log, Log!Dispatch, Log!Post, Log!RunQueued, Log!WriteEnds,
       Log!setup, Log!history

(* A thread that works goes on to work, or leaves the loop. *)
LEMMA WorkKeeps ==
  ASSUME ShutdownInv, NEW t \in AllThreads, NEW place \in {"loop", "handler", "done"},
         at[t] \in {"loop", "handler"}, Go(t, place), place = "done" => stopped,
         outcome = "running",
         UNCHANGED <<threads_, joined, signal, handler, outcome, strand_, stopped>>
  PROVE  ShutdownInv'
<1>1. /\ at \in [AllThreads -> Places] /\ at' = [at EXCEPT ![t] = place]
      /\ place \in Places
  BY DEF ShutdownInv, Types, Go, Places
<1>2. at'[t] = place /\ \A u \in AllThreads \ {t} : at'[u] = at[u]
  BY <1>1
<1>3. Types'
  BY <1>1 DEF ShutdownInv, Types
<1>4. SignalInv'
  BY <1>2, MainIsNotInPool DEF ShutdownInv, SignalInv
<1>5. PoolInv'
  BY <1>2, MainIsNotInPool DEF ShutdownInv, PoolInv, Types
<1>6. JoinInv'
  BY <1>2, MainIsNotInPool DEF ShutdownInv, JoinInv, Types
<1> QED BY <1>3, <1>4, <1>5, <1>6 DEF ShutdownInv

LEMMA ShutdownInvInductive == ShutdownInv /\ [ShutdownNext]_shutdownVars => ShutdownInv'
<1> SUFFICES ASSUME ShutdownInv, [ShutdownNext]_shutdownVars PROVE ShutdownInv'
  OBVIOUS
<1> USE MainIsNotInPool
<1>1. /\ at \in [AllThreads -> Places] /\ threads_ \subseteq Pool
      /\ joined \subseteq threads_
  BY DEF ShutdownInv, Types
<1>2. CASE UNCHANGED <<appVars, strand_, stopped>>
  BY <1>2 DEF appVars, ShutdownInv, Types, SignalInv, PoolInv, JoinInv
<1>3. CASE UNCHANGED shutdownVars
  BY <1>2, <1>3 DEF shutdownVars, logVars
<1>4. CASE StartUp
  <2>1. /\ at[Main] = "run" /\ at' = [at EXCEPT ![Main] = "spawn"]
        /\ outcome = "running" /\ signal' = "awaited" /\ strand_' = "live"
        /\ UNCHANGED <<threads_, joined, handler, outcome, stopped>>
    BY <1>4 DEF StartUp, Is, Go, Log!SetAsyncMode
  <2>2. /\ at'[Main] = "spawn" /\ \A u \in AllThreads \ {Main} : at'[u] = at[u]
        /\ at' \in [AllThreads -> Places]
    BY <1>1, <2>1 DEF Places
  <2>3. handler = {}
    BY <1>1, <2>1 DEF ShutdownInv, SignalInv, PoolInv, JoinInv, AllThreads
  <2> QED BY <1>1, <2>1, <2>2, <2>3
          DEF ShutdownInv, Types, SignalInv, PoolInv, JoinInv
<1>5. CASE Spawn
  <2>1. /\ at[Main] = "spawn" /\ outcome = "running"
        /\ UNCHANGED <<joined, signal, handler, outcome, strand_, stopped>>
    BY <1>5 DEF Spawn, Is, logVars
  <2>2. PICK n \in Nat : threads_ = 1 .. n
    BY <2>1 DEF ShutdownInv, PoolInv
  <2>3. Cardinality(threads_) = n
    BY <2>2, FS_Interval
  <2>4. CASE Go(Main, "loop") /\ UNCHANGED threads_
    <3>1. /\ at'[Main] = "loop" /\ \A u \in AllThreads \ {Main} : at'[u] = at[u]
          /\ at' \in [AllThreads -> Places]
      BY <1>1, <2>4 DEF Go, Places
    <3> QED BY <1>1, <2>1, <2>4, <3>1
            DEF ShutdownInv, Types, SignalInv, PoolInv, JoinInv
  <2>5. CASE /\ n + 1 \in Pool /\ threads_' = threads_ \union {n + 1}
             /\ Go(n + 1, "loop")
    <3>1. /\ at'[n + 1] = "loop" /\ \A u \in AllThreads \ {n + 1} : at'[u] = at[u]
          /\ at' \in [AllThreads -> Places] /\ n + 1 # Main
      BY <1>1, <2>5 DEF Go, Places
    <3>2. n + 1 \notin threads_ /\ threads_' = 1 .. n + 1 /\ n + 1 \in Nat
      BY <2>2, <2>5
    <3>3. handler # {Main} /\ handler # {n + 1} /\ n + 1 \notin joined
      BY <1>1, <2>1, <2>5, <3>2 DEF ShutdownInv, JoinInv
    <3>4. at[n + 1] = "unborn"
      BY <2>5, <3>2, <3>3 DEF ShutdownInv, PoolInv
    <3>5. Types' /\ SignalInv'
      BY <1>1, <2>1, <2>5, <3>1, <3>4 DEF ShutdownInv, Types, SignalInv
    <3>6. PoolInv'
      BY <1>1, <2>1, <2>5, <3>1, <3>2 DEF ShutdownInv, PoolInv
    <3>7. JoinInv'
      BY <1>1, <2>1, <2>5, <3>1, <3>3 DEF ShutdownInv, JoinInv
    <3> QED BY <3>5, <3>6, <3>7 DEF ShutdownInv
  <2> QED BY <1>5, <2>3, <2>4, <2>5 DEF Spawn
<1>6. CASE Raise
  <2>1. /\ signal = "awaited" /\ signal' = "raised"
        /\ UNCHANGED <<at, threads_, joined, handler, outcome, strand_, stopped>>
    BY <1>6 DEF Raise, logVars
  <2> QED BY <2>1 DEF ShutdownInv, Types, SignalInv, PoolInv, JoinInv
<1>7. CASE Finish
  <2>1. /\ at[Main] = "done" /\ outcome = "running"
        /\ outcome' = IF threads_ = joined THEN "clean" ELSE "terminated"
        /\ UNCHANGED <<at, threads_, joined, signal, handler, strand_, stopped>>
    BY <1>7 DEF Finish, Is, logVars
  <2>2. PICK t \in AllThreads : handler = {t}
    BY <2>1 DEF ShutdownInv, SignalInv
  <2>3. threads_ = joined <=> handler = {Main}
    BY <1>1, <2>1, <2>2 DEF ShutdownInv, JoinInv, AllThreads
  <2> QED BY <2>1, <2>3 DEF ShutdownInv, Types, SignalInv, PoolInv, JoinInv
<1>8. ASSUME NEW t \in AllThreads, Application(t) PROVE ShutdownInv'
  <2>1. CASE Handler(t)
    <3>1. /\ at[t] \in {"loop", "handler"} /\ Go(t, "handler") /\ outcome = "running"
          /\ UNCHANGED <<threads_, joined, signal, handler, outcome>>
      BY <2>1 DEF Handler, Is
    <3>2. UNCHANGED <<strand_, stopped>>
      BY <2>1, LoggingKeeps DEF Handler
    <3> QED BY <3>1, <3>2, WorkKeeps
  <2>2. CASE HandlerEnds(t)
    BY <2>2, WorkKeeps DEF HandlerEnds, Is, logVars
  <2>3. CASE LoopEnds(t)
    BY <2>3, WorkKeeps DEF LoopEnds, Is, logVars
  <2> QED BY <1>8, <2>1, <2>2, <2>3 DEF Application
<1>9. ASSUME NEW t \in AllThreads, RunQueued(t) \/ Logging(t) PROVE ShutdownInv'
  <2>1. UNCHANGED <<strand_, stopped>>
    BY <1>9, LoggingKeeps DEF RunQueued, Logging
  <2> QED BY <1>2, <1>9, <2>1 DEF RunQueued, Logging
<1>10. ASSUME NEW t \in AllThreads, Signalled(t) PROVE ShutdownInv'
  <2>1. /\ at[t] = "loop" /\ outcome = "running" /\ ~stopped
        /\ signal = "raised" /\ signal' = "handled" /\ handler' = {t}
        /\ at' = [at EXCEPT ![t] = "sync"]
        /\ UNCHANGED <<threads_, joined, outcome, strand_, stopped>>
    BY <1>10 DEF Signalled, Is, Go, logVars
  <2>2. /\ at'[t] = "sync" /\ \A u \in AllThreads \ {t} : at'[u] = at[u]
        /\ at' \in [AllThreads -> Places]
    BY <1>1, <2>1 DEF Places
  <2>3. handler = {} /\ joined = {}
    BY <2>1 DEF ShutdownInv, SignalInv, JoinInv
  <2>4. t \in Pool => t \in threads_
    BY <2>1, <2>3 DEF ShutdownInv, PoolInv
  <2>5. \A u \in AllThreads : at[u] \notin {"sync", "stop", "join", "done"}
    BY <2>1, <2>3 DEF ShutdownInv, SignalInv
  <2>6. Types' /\ SignalInv'
    BY <1>1, <2>1, <2>2, <2>5 DEF ShutdownInv, Types, SignalInv
  <2>7. PoolInv'
    BY <1>1, <2>1, <2>2, <2>3 DEF ShutdownInv, PoolInv
  <2>8. JoinInv'
    BY <1>1, <2>1, <2>2, <2>3, <2>4 DEF ShutdownInv, JoinInv
  <2> QED BY <2>6, <2>7, <2>8 DEF ShutdownInv
<1>11. ASSUME NEW t \in AllThreads, SetSyncMode(t) \/ StopService(t) PROVE ShutdownInv'
  <2>1. CASE SetSyncMode(t)
    <3>1. /\ at[t] = "sync" /\ outcome = "running"
          /\ UNCHANGED at \/ at' = [at EXCEPT ![t] = "stop"]
          /\ UNCHANGED <<threads_, joined, signal, handler, outcome, stopped>>
      BY <2>1 DEF SetSyncMode, Is, Go, Log!DeleteStrand, Log!ResetStrand
    <3>2. handler = {t}
      BY <3>1 DEF ShutdownInv, SignalInv
    <3>3. CASE UNCHANGED at
      BY <3>1, <3>2, <3>3 DEF ShutdownInv, Types, SignalInv, PoolInv, JoinInv
    <3>4. CASE at' = [at EXCEPT ![t] = "stop"]
      <4>1. /\ at'[t] = "stop" /\ \A u \in AllThreads \ {t} : at'[u] = at[u]
            /\ at' \in [AllThreads -> Places]
        BY <1>1, <3>4 DEF Places
      <4> QED BY <1>1, <3>1, <3>2, <4>1
              DEF ShutdownInv, Types, SignalInv, PoolInv, JoinInv
    <3> QED BY <3>1, <3>3, <3>4
  <2>2. CASE StopService(t)
    <3>1. /\ at[t] = "stop" /\ outcome = "running" /\ stopped' = TRUE
          /\ at' = [at EXCEPT ![t] = "join"]
          /\ UNCHANGED <<threads_, joined, signal, handler, outcome>>
      BY <2>2 DEF StopService, Is, Go, Log!Stop
    <3>2. /\ at'[t] = "join" /\ \A u \in AllThreads \ {t} : at'[u] = at[u]
          /\ at' \in [AllThreads -> Places]
      BY <1>1, <3>1 DEF Places
    <3>3. handler = {t}
      BY <3>1 DEF ShutdownInv, SignalInv
    <3> QED BY <1>1, <3>1, <3>2, <3>3
            DEF ShutdownInv, Types, SignalInv, PoolInv, JoinInv
  <2> QED BY <1>11, <2>1, <2>2
<1>12. ASSUME NEW t \in AllThreads, Join(t) PROVE ShutdownInv'
  <2>1. /\ at[t] = "join" /\ outcome = "running"
        /\ UNCHANGED <<signal, handler, outcome, strand_, stopped>>
    BY <1>12 DEF Join, Is, logVars
  <2>2. handler = {t} /\ stopped
    BY <2>1 DEF ShutdownInv, SignalInv
  <2>3. CASE \E k \in threads_ \ joined :
               /\ k # t /\ at[k] = "done" /\ joined' = joined \union {k}
               /\ UNCHANGED <<at, threads_>>
    <3>1. PICK k \in threads_ \ joined :
               /\ k # t /\ at[k] = "done" /\ joined' = joined \union {k}
               /\ UNCHANGED <<at, threads_>>
      BY <2>3
    <3>2. Types' /\ SignalInv' /\ PoolInv'
      BY <1>1, <2>1, <3>1 DEF ShutdownInv, Types, SignalInv, PoolInv
    <3>3. JoinInv'
      BY <1>1, <2>1, <2>2, <3>1 DEF ShutdownInv, JoinInv
    <3> QED BY <3>2, <3>3 DEF ShutdownInv
  <2>4. CASE /\ t \in threads_ \ joined /\ at' = [at EXCEPT ![t] = "handler"]
             /\ UNCHANGED <<threads_, joined>>
    <3>1. /\ at'[t] = "handler" /\ \A u \in AllThreads \ {t} : at'[u] = at[u]
          /\ at' \in [AllThreads -> Places] /\ t # Main
      BY <1>1, <2>4 DEF Places
    <3> QED BY <1>1, <2>1, <2>2, <2>4, <3>1
            DEF ShutdownInv, Types, SignalInv, PoolInv, JoinInv
  <2>5. CASE /\ threads_ = joined /\ threads_' = {} /\ joined' = {}
             /\ at' = [at EXCEPT ![t] = "loop"]
    <3>1. t = Main
      BY <2>2, <2>5 DEF ShutdownInv, JoinInv, AllThreads
    <3>2. /\ at'[t] = "loop" /\ \A u \in AllThreads \ {t} : at'[u] = at[u]
          /\ at' \in [AllThreads -> Places]
      BY <1>1, <2>5 DEF Places
    <3>3. Types' /\ SignalInv'
      BY <2>1, <2>2, <2>5, <3>1, <3>2 DEF ShutdownInv, Types, SignalInv
    <3>4. PoolInv' /\ JoinInv'
      BY <2>1, <2>2, <2>5, <3>1, <3>2 DEF ShutdownInv, PoolInv, JoinInv
    <3> QED BY <3>3, <3>4 DEF ShutdownInv
  <2> QED BY <1>12, <2>3, <2>4, <2>5 DEF Join, Go
<1> QED BY <1>3, <1>4, <1>5, <1>6, <1>7, <1>8, <1>9, <1>10, <1>11, <1>12
        DEF ShutdownNext, Signal

LEMMA ShutdownInvHolds == ShutdownSpec => []ShutdownInv
BY ShutdownInvInit, ShutdownInvInductive, PTL DEF ShutdownSpec

(* Whichever thread gets the signal, logging is asynchronous until then    *)
(* while more than one thread works, and the application is destroyed with *)
(* threads_ joined when it was the main thread (application.cpp), for any  *)
(* size of the pool.                                                       *)
THEOREM EndsOrderlyOnMain == ShutdownSpec => []OrderlyOnMain
<1>1. ASSUME ShutdownInv PROVE OrderlyOnMain
  <2>1. Cardinality(handler) <= 1
    <3>1. PICK t : handler \in {{}, {t}}
      BY <1>1 DEF ShutdownInv, SignalInv
    <3>2. Cardinality(handler) \in {0, 1}
      BY <3>1, FS_EmptySet, FS_Singleton
    <3> QED BY <3>2
  <2>2. ShutdownTypeOK
    BY <1>1, <2>1 DEF ShutdownInv, Types, ShutdownTypeOK
  <2>3. ASSUME handler = {}, Cardinality(Working) > 1 PROVE strand_ = "live"
    <3>1. CASE at[Main] = "run"
      <4>1. Working = {}
        BY <1>1, <3>1 DEF ShutdownInv, PoolInv, Working, AllThreads
      <4> QED BY <2>3, <4>1, FS_EmptySet
    <3> QED BY <1>1, <2>3, <3>1 DEF ShutdownInv, SignalInv
  <2>4. Main \in handler => outcome # "terminated"
    BY <1>1 DEF ShutdownInv, Types, SignalInv, JoinInv
  <2> QED BY <2>2, <2>3, <2>4 DEF OrderlyOnMain
<1> QED BY <1>1, ShutdownInvHolds, PTL

(* And only then: on a thread of the pool that thread joins itself, which  *)
(* ends the joining, and the destructor of threads_ terminates the program *)
(* because that thread and those after it were not joined.                 *)
THEOREM CleanJustOnMain ==
  ShutdownSpec => [](outcome # "running" => (outcome = "clean" <=> handler = {Main}))
<1>1. ShutdownInv => (outcome # "running" => (outcome = "clean" <=> handler = {Main}))
  BY DEF ShutdownInv, JoinInv
<1> QED BY <1>1, ShutdownInvHolds, PTL

(* While a thread joins the others nobody waits for a thread that waits:   *)
(* the io_service is stopped, no other thread is in the signal handler,    *)
(* and those not joined yet are in a handler or in their loop, or done.    *)
THEOREM NobodyWaitsForAWaiter ==
  ShutdownSpec =>
    [](\A t \in AllThreads : at[t] = "join" =>
         /\ stopped
         /\ \A u \in AllThreads \ {t} : at[u] \notin {"sync", "stop", "join"}
         /\ \A k \in threads_ \ {t} : at[k] \in {"loop", "handler", "done"})
<1> DEFINE Free(t) ==
      /\ stopped
      /\ \A u \in AllThreads \ {t} : at[u] \notin {"sync", "stop", "join"}
      /\ \A k \in threads_ \ {t} : at[k] \in {"loop", "handler", "done"}
<1>1. ASSUME ShutdownInv, NEW t \in AllThreads, at[t] = "join"
      PROVE  Free(t)
  <2>1. stopped /\ \A u \in AllThreads \ {t} : at[u] \notin {"sync", "stop", "join"}
    BY <1>1 DEF ShutdownInv, SignalInv
  <2>2. ASSUME NEW k \in threads_ \ {t} PROVE at[k] \in {"loop", "handler", "done"}
    <3>1. /\ k \in Pool /\ k \in AllThreads /\ at[k] \in Places
      BY <1>1, MainIsNotInPool DEF ShutdownInv, Types
    <3>2. at[k] \notin {"unborn", "run", "spawn", "sync", "stop", "join"}
      BY <1>1, <2>1, <2>2, <3>1 DEF ShutdownInv, PoolInv
    <3> QED BY <3>1, <3>2 DEF Places
  <2> QED BY <2>1, <2>2
<1>2. ShutdownInv => \A t \in AllThreads : at[t] = "join" => Free(t)
  BY <1>1
<1> QED BY <1>2, ShutdownInvHolds, PTL
=============================================================================
