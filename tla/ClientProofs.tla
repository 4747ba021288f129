---------------------------- MODULE ClientProofs ----------------------------
(***************************************************************************)
(* Theorems about Connector, and about Client, which extends it: for any   *)
(* number of calls of connect(), which may overlap, and of endpoints, and  *)
(* whatever is typed, sent by the server and lost.                         *)
(***************************************************************************)
EXTENDS Client, SequenceTheorems, FiniteSetTheorems, FunctionTheorems,
        WellFoundedInduction, TLAPS

-----------------------------------------------------------------------------
(* Induction and recursion over numbers.                                   *)

(* A set of numbers has a smallest element. *)
LEMMA Smallest ==
  ASSUME NEW T, T \subseteq Nat, T # {}
  PROVE  \E x \in T : \A y \in T : x <= y
<1>1. PICK x \in T : \A y \in T : <<y, x>> \notin OpToRel(<, Nat)
  BY NatLessThanWellFounded, WFMin
<1>2. \A y \in T : y < x => <<y, x>> \in OpToRel(<, Nat)
  BY DEF OpToRel
<1>3. \A y \in T : ~ (y < x)
  BY <1>1, <1>2
<1>4. \A y \in T : x <= y
  BY <1>3
<1> QED BY <1>4

(* A set with zero and the successor of each of its elements has all. *)
LEMMA SetInduction ==
  ASSUME NEW S, 0 \in S, \A n \in Nat : n \in S => n + 1 \in S
  PROVE  Nat \subseteq S
<1> SUFFICES ASSUME Nat \ S # {} PROVE FALSE
  OBVIOUS
<1>1. PICK x \in Nat \ S : \A y \in Nat \ S : x <= y
  BY Smallest
<1>2. x # 0 /\ x - 1 \in Nat
  BY <1>1
<1>3. x - 1 \in S
  BY <1>1, <1>2
<1> QED BY <1>1, <1>2, <1>3

(* A function from 0 .. n to V can be defined by a start and a step. *)
Recurs(f, V, a, step, n) ==
  /\ f \in [0 .. n -> V]
  /\ f[0] = a
  /\ \A i \in 1 .. n : f[i] = step[i][f[i - 1]]

LEMMA Recursion ==
  ASSUME NEW V, NEW a \in V, NEW step \in [Nat -> [V -> V]], NEW n \in Nat
  PROVE  \E f : Recurs(f, V, a, step, n)
<1> USE DEF Recurs
<1> DEFINE Defined(m, f) == Recurs(f, V, a, step, m)
           S == {m \in Nat : \E f : Defined(m, f)}
<1>1. 0 \in S
  <2>1. Defined(0, [i \in 0 .. 0 |-> a])
    OBVIOUS
  <2> QED BY <2>1
<1>2. ASSUME NEW m \in Nat, m \in S PROVE m + 1 \in S
  <2>1. PICK f : Defined(m, f)
    BY <1>2
  <2> DEFINE g == [i \in 0 .. m + 1 |->
                     IF i = m + 1 THEN step[m + 1][f[m]] ELSE f[i]]
  <2>2. g \in [0 .. m + 1 -> V]
    BY <2>1
  <2>3. Defined(m + 1, g)
    <3>1. g[0] = a
      BY <2>1
    <3>2. ASSUME NEW i \in 1 .. m + 1
          PROVE  g[i] = step[i][g[i - 1]]
      <4>1. CASE i = m + 1
        BY <4>1, <2>1
      <4>2. CASE i \in 1 .. m
        BY <4>2, <2>1
      <4> QED BY <4>1, <4>2
    <3> QED BY <2>2, <3>1, <3>2
  <2> HIDE DEF g, Defined
  <2> QED BY <2>3
<1>3. n \in S
  <2> HIDE DEF S
  <2> QED BY <1>1, <1>2, SetInduction
<1> QED BY <1>3

-----------------------------------------------------------------------------
(* Flattening, as a recursion that starts with nothing.                    *)

LEMMA FlattenFacts ==
  ASSUME NEW A, NEW seqs \in Seq(Seq(A))
  PROVE  \E f : /\ f \in [0 .. Len(seqs) -> Seq(A)]
                /\ f[0] = <<>>
                /\ \A i \in 1 .. Len(seqs) : f[i] = f[i - 1] \o seqs[i]
                /\ FlattenSeq(seqs) = f[Len(seqs)]
<1> DEFINE L == Len(seqs)
           item(i) == IF i \in 1 .. L THEN seqs[i] ELSE <<>>
           step == [i \in Nat |-> [x \in Seq(A) |-> x \o item(i)]]
           Equation(f) == f = [i \in 1 .. L |->
             IF i = 1 THEN seqs[i] ELSE f[i - 1] \o seqs[i]]
<1>0. /\ L \in Nat
      /\ <<>> \in Seq(A)
      /\ \A i \in 1 .. L : seqs[i] \in Seq(A)
      /\ \A i \in Nat : item(i) \in Seq(A)
  OBVIOUS
<1>1. /\ step \in [Nat -> [Seq(A) -> Seq(A)]]
      /\ \A i \in Nat, x \in Seq(A) : step[i][x] = x \o item(i)
  <2> HIDE DEF item
  <2>1. ASSUME NEW i \in Nat, NEW x \in Seq(A) PROVE x \o item(i) \in Seq(A)
    BY <1>0, ConcatProperties
  <2> QED BY <2>1
<1>2. PICK g : Recurs(g, Seq(A), <<>>, step, L)
  <2> HIDE DEF step, L
  <2> QED BY <1>0, <1>1, Recursion, Zenon
<1>3. /\ g \in [0 .. L -> Seq(A)]
      /\ g[0] = <<>>
      /\ \A i \in 1 .. L : g[i] = g[i - 1] \o seqs[i]
  <2>1. ASSUME NEW i \in 1 .. L PROVE g[i] = g[i - 1] \o seqs[i]
    <3>1. i \in Nat /\ i - 1 \in 0 .. L /\ item(i) = seqs[i]
      BY <1>0
    <3> HIDE DEF item, step
    <3>2. g[i - 1] \in Seq(A) /\ g[i] = step[i][g[i - 1]]
      BY <1>2, <3>1 DEF Recurs
    <3>3. step[i][g[i - 1]] = g[i - 1] \o item(i)
      BY <1>1, <3>1, <3>2, Zenon
    <3> QED BY <3>1, <3>2, <3>3
  <2> HIDE DEF step
  <2> QED BY <1>2, <2>1 DEF Recurs
<1> HIDE DEF step, item
<1> DEFINE f == [i \in 1 .. L |-> g[i]]
<1>4. Equation(f)
  <2>1. ASSUME NEW i \in 1 .. L
        PROVE  g[i] = IF i = 1 THEN seqs[i] ELSE f[i - 1] \o seqs[i]
    <3>1. CASE i = 1
      <4>1. i - 1 = 0
        BY <3>1
      <4>2. g[i] = <<>> \o seqs[i] /\ seqs[i] \in Seq(A)
        BY <1>0, <1>3, <4>1
      <4> QED BY <3>1, <4>2, ConcatEmptySeq
    <3>2. CASE i # 1
      <4>1. i - 1 \in 1 .. L
        BY <1>0, <3>2
      <4> QED BY <1>3, <3>2, <4>1
    <3> QED BY <3>1, <3>2
  <2> QED BY <2>1
<1> DEFINE flatten == CHOOSE h : Equation(h)
<1>5. Equation(flatten)
  BY <1>4
<1>6. FlattenSeq(seqs) = IF L = 0 THEN seqs ELSE flatten[L]
  BY DEF FlattenSeq
<1> HIDE DEF flatten
<1> DEFINE S == {i \in Nat : i \in 1 .. L => flatten[i] = g[i]}
<1>7. 0 \in S
  OBVIOUS
<1>8. ASSUME NEW i \in Nat, i \in S PROVE i + 1 \in S
  <2>1. SUFFICES ASSUME i + 1 \in 1 .. L PROVE flatten[i + 1] = g[i + 1]
    OBVIOUS
  <2>2. (i + 1) - 1 = i
    OBVIOUS
  <2>3. flatten[i + 1] = IF i = 0 THEN seqs[i + 1]
                         ELSE flatten[i] \o seqs[i + 1]
    <3>1. \A j \in 1 .. L : flatten[j] = IF j = 1 THEN seqs[j]
                                      ELSE flatten[j - 1] \o seqs[j]
      BY <1>5
    <3>2. i + 1 = 1 <=> i = 0
      OBVIOUS
    <3> QED BY <2>1, <2>2, <3>1, <3>2
  <2>4. g[i + 1] = g[i] \o seqs[i + 1]
    BY <1>3, <2>1, <2>2
  <2>5. CASE i = 0
    <3>1. g[i] = <<>> /\ seqs[i + 1] \in Seq(A)
      BY <1>0, <1>3, <2>1, <2>5
    <3> QED BY <2>3, <2>4, <2>5, <3>1, ConcatEmptySeq
  <2>6. CASE i # 0
    <3>1. i \in 1 .. L
      BY <1>0, <2>1, <2>6
    <3> QED BY <1>8, <2>3, <2>4, <2>6, <3>1
  <2> QED BY <2>5, <2>6
<1>9. Nat \subseteq S
  <2> HIDE DEF S
  <2> QED BY <1>7, <1>8, SetInduction
<1>10. FlattenSeq(seqs) = g[L]
  <2>1. CASE L = 0
    BY <1>3, <1>6, <2>1
  <2>2. CASE L # 0
    BY <1>0, <1>6, <1>9, <2>2
  <2> QED BY <2>1, <2>2
<1> HIDE DEF Equation
<1> QED BY <1>3, <1>10

LEMMA FlattenAppend ==
  ASSUME NEW A, NEW seqs \in Seq(Seq(A)), NEW e \in Seq(A)
  PROVE  /\ FlattenSeq(seqs) \in Seq(A)
         /\ FlattenSeq(Append(seqs, e)) = FlattenSeq(seqs) \o e
<1> DEFINE L == Len(seqs)
           more == Append(seqs, e)
<1>0. /\ L \in Nat
      /\ more \in Seq(Seq(A)) /\ Len(more) = L + 1 /\ more[L + 1] = e
      /\ \A i \in 1 .. L : more[i] = seqs[i]
  OBVIOUS
<1>1. PICK f : /\ f \in [0 .. Len(seqs) -> Seq(A)]
               /\ f[0] = <<>>
               /\ \A i \in 1 .. Len(seqs) : f[i] = f[i - 1] \o seqs[i]
               /\ FlattenSeq(seqs) = f[Len(seqs)]
  BY FlattenFacts
<1>2. PICK g : /\ g \in [0 .. Len(more) -> Seq(A)]
               /\ g[0] = <<>>
               /\ \A i \in 1 .. Len(more) : g[i] = g[i - 1] \o more[i]
               /\ FlattenSeq(more) = g[Len(more)]
  <2> HIDE DEF more
  <2> QED BY <1>0, FlattenFacts
<1> HIDE DEF more
<1> DEFINE S == {i \in Nat : i <= L => f[i] = g[i]}
<1>3. 0 \in S
  BY <1>1, <1>2
<1>4. ASSUME NEW i \in Nat, i \in S PROVE i + 1 \in S
  <2>1. SUFFICES ASSUME i + 1 <= L PROVE f[i + 1] = g[i + 1]
    OBVIOUS
  <2>2. /\ (i + 1) - 1 = i /\ i <= L
        /\ i + 1 \in 1 .. Len(seqs) /\ i + 1 \in 1 .. Len(more)
    BY <1>0, <2>1
  <2>3. f[i + 1] = f[(i + 1) - 1] \o seqs[i + 1]
    BY <1>1, <2>2
  <2>4. g[i + 1] = g[(i + 1) - 1] \o more[i + 1] /\ more[i + 1] = seqs[i + 1]
    BY <1>0, <1>2, <2>2
  <2> QED BY <1>4, <2>2, <2>3, <2>4
<1>5. Nat \subseteq S
  <2> HIDE DEF S
  <2> QED BY <1>3, <1>4, SetInduction
<1>6. f[L] = g[L]
  BY <1>0, <1>5
<1>7. g[L + 1] = g[L] \o e
  <2>1. L + 1 \in 1 .. Len(more) /\ (L + 1) - 1 = L
    BY <1>0
  <2> QED BY <1>0, <1>2, <2>1
<1> QED BY <1>0, <1>1, <1>2, <1>6, <1>7 DEF more

-----------------------------------------------------------------------------
(* How often an endpoint was tried follows from the two iterators.         *)

Phases == {"idle", "posted", "resolving", "connecting", "done"}
CallState == [phase : Phases, first : 0 .. Endpoints + 1,
              at : 0 .. Endpoints + 1, result : {"none", "ok", "error"}]

TypeInv ==
  /\ call \in [Calls -> CallState]
  /\ tries \in [Calls -> [1 .. Endpoints -> Nat]]
  /\ reports \in [Calls -> Seq(Outcomes)]
  /\ socket \in {"closed", "open", "connected"}
  /\ owner \subseteq Calls
  /\ connect_handler_ \in BOOLEAN /\ overlapped \in BOOLEAN

(* The tries of endpoint k, when the outer iterator is at first and the    *)
(* inner one at at: each turn of the outer loop begins one further on.     *)
Passed(first, at, k) ==
  IF k < first THEN k ELSE IF k <= at THEN first ELSE first - 1

Untried(c) == \A k \in 1 .. Endpoints : tries[c][k] = 0

(* A call that is in both loops, and one that did not resolve.             *)
Looping(c) ==
  /\ call[c].first \in 1 .. Endpoints
  /\ call[c].at \in call[c].first .. Endpoints
  /\ \A k \in 1 .. Endpoints :
       tries[c][k] = Passed(call[c].first, call[c].at, k)

Lost(c) ==
  /\ ~connect_handler_
  /\ call[c].first = Endpoints + 1 /\ call[c].at = Endpoints + 1
  /\ call[c].result = "error"
  /\ Untried(c)

CallInv(c) ==
  /\ call[c].phase \in {"idle", "posted", "resolving"} => Untried(c)
  /\ call[c].phase # "connecting" => call[c].result = "none"
  /\ call[c].phase = "connecting" => Looping(c) \/ Lost(c)
  /\ \A k \in 1 .. Endpoints : tries[c][k] <= k
  /\ Len(reports[c]) = IF call[c].phase = "done" THEN 1 ELSE 0

ConnectorInv ==
  /\ TypeInv
  /\ \A c \in Calls : CallInv(c)
  /\ undefined => \E c \in Calls : call[c].phase = "connecting" /\ Lost(c)

(* No endpoint is tried more often than its place among them.              *)
LEMMA PassedIsBounded ==
  ASSUME NEW first \in 1 .. Endpoints, NEW at \in first .. Endpoints,
         NEW k \in 1 .. Endpoints
  PROVE  Passed(first, at, k) \in Nat /\ Passed(first, at, k) <= k
BY ConnectorAssumption DEF Passed

LEMMA ConnectorInvInit == ConnectorInit => ConnectorInv
<1> SUFFICES ASSUME ConnectorInit PROVE ConnectorInv
  OBVIOUS
<1>1. TypeInv
  <2>1. Idle \in CallState
    BY ConnectorAssumption DEF Idle, CallState, Phases
  <2>2. \A c \in Calls : reports[c] = <<>>
    BY DEF ConnectorInit
  <2>3. reports \in [Calls -> Seq(Outcomes)]
    BY DEF ConnectorInit
  <2>4. tries \in [Calls -> [1 .. Endpoints -> Nat]]
    BY DEF ConnectorInit
  <2>5. connect_handler_ \in BOOLEAN /\ overlapped \in BOOLEAN
    BY DEF ConnectorInit
  <2> QED BY <2>1, <2>3, <2>4, <2>5 DEF ConnectorInit, TypeInv
<1>2. ASSUME NEW c \in Calls PROVE CallInv(c)
  <2>1. call[c] = Idle /\ reports[c] = <<>>
    BY DEF ConnectorInit
  <2>2. \A k \in 1 .. Endpoints : tries[c][k] = 0
    BY DEF ConnectorInit
  <2> QED BY <2>1, <2>2, EmptySeq, ConnectorAssumption
          DEF CallInv, Untried, Idle
<1> QED BY <1>1, <1>2 DEF ConnectorInit, ConnectorInv

(* What a call that a step leaves alone is like.                           *)
LEMMA OthersKeep ==
  ASSUME NEW d \in Calls, CallInv(d), connect_handler_' = connect_handler_,
         call'[d] = call[d], tries'[d] = tries[d], reports'[d] = reports[d]
  PROVE  CallInv(d)'
BY DEF CallInv, Looping, Lost, Untried

(* A try, by either loop, of the endpoint that is next.                    *)
LEMMA TryKeeps ==
  ASSUME ConnectorInv, ~undefined, NEW c \in Calls, call[c].phase # "done",
         NEW first \in 1 .. Endpoints, NEW at \in first .. Endpoints,
         \A k \in 1 .. Endpoints :
           Passed(first, at, k) = IF k = at THEN tries[c][k] + 1 ELSE tries[c][k],
         Try(c, first, at)
  PROVE  ConnectorInv'
<1> USE DEF ConnectorInv
<1>1. /\ tries' = [tries EXCEPT ![c][at] = @ + 1]
      /\ UNCHANGED <<connect_handler_, overlapped, reports, undefined>>
      /\ socket' = "open" /\ owner' = {c}
  BY DEF Try, fixed
<1>2. at \in 1 .. Endpoints
  BY ConnectorAssumption
<1>3. /\ call'[c] = [phase |-> "connecting", first |-> first, at |-> at,
                     result |-> "none"]
      /\ \A d \in Calls \ {c} :
           \/ call'[d] = call[d]
           \/ /\ call[d].phase = "connecting" /\ call[d].result = "none"
              /\ call'[d] = [call[d] EXCEPT !.result = "error"]
  BY DEF Try
<1>4. call' \in [Calls -> CallState]
  <2>1. call'[c] \in CallState
    BY <1>2, <1>3, ConnectorAssumption DEF CallState, Phases
  <2>2. ASSUME NEW d \in Calls \ {c} PROVE call'[d] \in CallState
    <3>1. call[d] \in CallState
      BY DEF TypeInv
    <3>2. CASE call'[d] = [call[d] EXCEPT !.result = "error"]
      <4>1. call'[d] = [phase |-> call[d].phase, first |-> call[d].first,
                        at |-> call[d].at, result |-> "error"]
        BY <3>1, <3>2 DEF CallState
      <4> QED BY <3>1, <4>1 DEF CallState
    <3> QED BY <1>3, <3>1, <3>2
  <2>3. call' = [d \in Calls |-> call'[d]]
    BY DEF Try
  <2> QED BY <2>1, <2>2, <2>3
<1>5. /\ tries' \in [Calls -> [1 .. Endpoints -> Nat]]
      /\ \A d \in Calls \ {c} : tries'[d] = tries[d]
      /\ \A k \in 1 .. Endpoints : tries'[c][k] = Passed(first, at, k)
  <2>1. /\ tries \in [Calls -> [1 .. Endpoints -> Nat]]
        /\ tries[c] \in [1 .. Endpoints -> Nat] /\ tries[c][at] + 1 \in Nat
    <3>1. tries \in [Calls -> [1 .. Endpoints -> Nat]]
      BY DEF TypeInv
    <3>2. tries[c] \in [1 .. Endpoints -> Nat]
      BY <3>1
    <3>3. tries[c][at] \in Nat
      BY <1>2, <3>2
    <3> QED BY <3>1, <3>2, <3>3
  <2>2. tries'[c] = [tries[c] EXCEPT ![at] = @ + 1]
    BY <1>1, <2>1
  <2>3. /\ tries'[c] \in [1 .. Endpoints -> Nat]
        /\ \A k \in 1 .. Endpoints :
             tries'[c][k] = IF k = at THEN tries[c][k] + 1 ELSE tries[c][k]
    BY <1>2, <2>1, <2>2
  <2>4. \A d \in Calls \ {c} : tries'[d] = tries[d]
    BY <1>1, <2>1
  <2>5. tries' \in [Calls -> [1 .. Endpoints -> Nat]]
    <3>1. tries' = [d \in Calls |-> tries'[d]]
      BY <1>1, <2>1
    <3> QED BY <2>1, <2>3, <2>4, <3>1
  <2> QED BY <2>3, <2>4, <2>5
<1>6. TypeInv'
  BY <1>1, <1>4, <1>5 DEF TypeInv
<1>7. CallInv(c)'
  <2>1. Looping(c)'
    BY <1>3, <1>5 DEF Looping
  <2>2. \A k \in 1 .. Endpoints : tries'[c][k] <= k
    BY <1>5, PassedIsBounded
  <2>3. Len(reports'[c]) = 0
    BY <1>1 DEF CallInv
  <2> QED BY <1>3, <2>1, <2>2, <2>3 DEF CallInv
<1>8. ASSUME NEW d \in Calls \ {c} PROVE CallInv(d)'
  <2>1. CASE call'[d] = call[d]
    BY <1>1, <1>5, <2>1, OthersKeep
  <2>2. CASE /\ call[d].phase = "connecting" /\ call[d].result = "none"
             /\ call'[d] = [call[d] EXCEPT !.result = "error"]
    <3>1. /\ call'[d].phase = "connecting" /\ call'[d].result = "error"
          /\ call'[d].first = call[d].first /\ call'[d].at = call[d].at
      BY <2>2 DEF TypeInv, CallState
    <3>2. Looping(d)
      BY <2>2 DEF CallInv, Lost
    <3>3. Looping(d)'
      BY <1>5, <3>1, <3>2 DEF Looping
    <3> QED BY <1>1, <1>5, <2>2, <3>1, <3>3 DEF CallInv
  <2> QED BY <1>3, <2>1, <2>2
<1> QED BY <1>1, <1>6, <1>7, <1>8

(* The end of a call.                                                      *)
LEMMA ReportKeeps ==
  ASSUME ConnectorInv, ~undefined, NEW c \in Calls, call[c].phase # "done",
         NEW outcome \in Outcomes, Report(c, outcome)
  PROVE  ConnectorInv'
<1> USE DEF ConnectorInv
<1>1. /\ call' = [call EXCEPT ![c].phase = "done", ![c].result = "none"]
      /\ reports' = [reports EXCEPT ![c] = Append(@, outcome)]
      /\ UNCHANGED <<connect_handler_, overlapped, socket, owner, tries, undefined>>
  BY DEF Report, fixed
<1>2. /\ call' \in [Calls -> CallState]
      /\ call'[c].phase = "done" /\ call'[c].result = "none"
      /\ \A d \in Calls \ {c} : call'[d] = call[d]
  BY <1>1 DEF TypeInv, CallState, Phases
<1>3. /\ reports' \in [Calls -> Seq(Outcomes)]
      /\ Len(reports'[c]) = Len(reports[c]) + 1
      /\ \A d \in Calls \ {c} : reports'[d] = reports[d]
  BY <1>1, AppendProperties DEF TypeInv
<1>4. TypeInv'
  BY <1>1, <1>2, <1>3 DEF TypeInv
<1>5. CallInv(c)'
  BY <1>1, <1>2, <1>3 DEF CallInv
<1>6. ASSUME NEW d \in Calls \ {c} PROVE CallInv(d)'
  BY <1>1, <1>2, <1>3, OthersKeep
<1> QED BY <1>1, <1>4, <1>5, <1>6

(* asio_connect with no endpoint left, which only a call that did not      *)
(* resolve makes.                                                          *)
LEMMA LosingKeeps ==
  ASSUME ConnectorInv, ~undefined, NEW c \in Calls,
         call[c].phase = "resolving", ~connect_handler_,
         call' = [call EXCEPT ![c] =
                   [phase |-> "connecting", first |-> Endpoints + 1,
                    at |-> Endpoints + 1, result |-> "error"]],
         UNCHANGED <<fixed, socket, owner, tries, reports, undefined>>
  PROVE  ConnectorInv'
<1> USE DEF ConnectorInv
<1>1. /\ call'[c] = [phase |-> "connecting", first |-> Endpoints + 1,
                     at |-> Endpoints + 1, result |-> "error"]
      /\ \A d \in Calls \ {c} : call'[d] = call[d]
  BY DEF TypeInv
<1>2. call'[c] \in CallState
  BY <1>1, ConnectorAssumption DEF CallState, Phases
<1>3. TypeInv'
  BY <1>2 DEF TypeInv, fixed
<1>4. CallInv(c)'
  BY <1>1 DEF CallInv, Lost, Untried, fixed
<1>5. ASSUME NEW d \in Calls \ {c} PROVE CallInv(d)'
  BY <1>1, OthersKeep DEF fixed
<1> QED BY <1>3, <1>4, <1>5

LEMMA ConnectorInvInductive == ConnectorInv /\ [ConnectorNext]_connectorVars => ConnectorInv'
<1> SUFFICES ASSUME ConnectorInv, [ConnectorNext]_connectorVars PROVE ConnectorInv'
  OBVIOUS
<1>1. CASE UNCHANGED connectorVars
  BY <1>1 DEF connectorVars, ConnectorInv, TypeInv, CallInv, Looping, Lost, Untried
<1>2. ASSUME ~undefined, NEW c \in Calls, Connect(c) \/ Progress(c)
      PROVE  ConnectorInv'
  <2>1. call[c] \in CallState /\ TypeInv /\ CallInv(c)
    BY DEF ConnectorInv, TypeInv
  <2>2. CASE Connect(c)
    <3>1. /\ call' = [call EXCEPT ![c].phase = "posted"]
          /\ UNCHANGED <<connect_handler_, socket, owner, tries, reports,
                         undefined>>
          /\ overlapped' \in BOOLEAN
          /\ call[c].phase = "idle"
      BY <2>1, <2>2 DEF Connect, Idle, TypeInv
    <3>2. /\ call' \in [Calls -> CallState]
          /\ call'[c].phase = "posted" /\ call'[c].result = call[c].result
          /\ \A d \in Calls \ {c} : call'[d] = call[d]
      BY <2>1, <3>1 DEF TypeInv, CallState, Phases
    <3>3. TypeInv'
      BY <2>1, <3>1, <3>2 DEF TypeInv
    <3>4. CallInv(c)'
      BY <2>1, <3>1, <3>2 DEF CallInv, Untried
    <3>5. ASSUME NEW d \in Calls \ {c} PROVE CallInv(d)'
      BY <3>1, <3>2, OthersKeep DEF ConnectorInv
    <3> QED BY <1>2, <3>1, <3>3, <3>4, <3>5 DEF ConnectorInv
  <2>3. CASE Resolve(c)
    <3>1. /\ call' = [call EXCEPT ![c].phase = "resolving"]
          /\ UNCHANGED <<connect_handler_, overlapped, socket, owner, tries,
                         reports, undefined>>
          /\ call[c].phase = "posted"
      BY <2>3 DEF Resolve, fixed
    <3>2. /\ call' \in [Calls -> CallState]
          /\ call'[c].phase = "resolving" /\ call'[c].result = call[c].result
          /\ \A d \in Calls \ {c} : call'[d] = call[d]
      BY <2>1, <3>1 DEF TypeInv, CallState, Phases
    <3>3. TypeInv'
      BY <2>1, <3>1, <3>2 DEF TypeInv
    <3>4. CallInv(c)'
      BY <2>1, <3>1, <3>2 DEF CallInv, Untried
    <3>5. ASSUME NEW d \in Calls \ {c} PROVE CallInv(d)'
      BY <3>1, <3>2, OthersKeep DEF ConnectorInv
    <3> QED BY <1>2, <3>1, <3>3, <3>4, <3>5 DEF ConnectorInv
  <2>4. CASE ResolveSucceeds(c)
    <3>1. call[c].phase = "resolving" /\ Try(c, 1, 1)
      BY <2>4, ConnectorAssumption DEF ResolveSucceeds, AsioConnect
    <3>2. \A k \in 1 .. Endpoints :
            Passed(1, 1, k) = IF k = 1 THEN tries[c][k] + 1 ELSE tries[c][k]
      BY <2>1, <3>1 DEF CallInv, Untried, Passed
    <3>3. 1 \in 1 .. Endpoints
      BY ConnectorAssumption
    <3> QED BY <1>2, <3>1, <3>2, <3>3, TryKeeps
  <2>5. CASE ResolveFails(c)
    <3>1. CASE connect_handler_ /\ Report(c, "unresolved")
      BY <1>2, <2>5, <3>1, ReportKeeps DEF ResolveFails, Outcomes
    <3>2. CASE ~connect_handler_ /\ AsioConnect(c, Endpoints + 1)
      BY <1>2, <2>5, <3>2, LosingKeeps, ConnectorAssumption
      DEF ResolveFails, AsioConnect
    <3> QED BY <2>5, <3>1, <3>2 DEF ResolveFails
  <2>6. CASE AttemptEnds(c)
    <3>1. PICK r \in {"ok", "error"} : call' = [call EXCEPT ![c].result = r]
      BY <2>6 DEF AttemptEnds
    <3>2. /\ UNCHANGED <<connect_handler_, overlapped, owner, tries, reports,
                         undefined>>
          /\ socket' \in {"closed", "open", "connected"}
          /\ call[c].phase = "connecting" /\ call[c].result = "none"
      BY <2>1, <2>6 DEF AttemptEnds, TypeInv, fixed
    <3>3. /\ call' \in [Calls -> CallState]
          /\ call'[c].phase = "connecting"
          /\ call'[c].first = call[c].first /\ call'[c].at = call[c].at
          /\ \A d \in Calls \ {c} : call'[d] = call[d]
      BY <2>1, <3>1, <3>2 DEF TypeInv, CallState
    <3>4. TypeInv'
      BY <2>1, <3>2, <3>3 DEF TypeInv
    <3>5. Looping(c)'
      BY <2>1, <3>2, <3>3 DEF CallInv, Looping, Lost
    <3>6. CallInv(c)'
      BY <2>1, <3>2, <3>3, <3>5 DEF CallInv
    <3>7. ASSUME NEW d \in Calls \ {c} PROVE CallInv(d)'
      BY <3>2, <3>3, OthersKeep DEF ConnectorInv
    <3> QED BY <1>2, <3>2, <3>4, <3>6, <3>7 DEF ConnectorInv
  <2>7. CASE NextEndpoint(c)
    <3>1. /\ call[c].phase = "connecting" /\ call[c].at < Endpoints
          /\ Try(c, call[c].first, call[c].at + 1)
      BY <2>1, <2>7 DEF NextEndpoint, CallInv
    <3>2. Looping(c)
      BY <2>1, <3>1, ConnectorAssumption DEF CallInv, Lost
    <3>3. \A k \in 1 .. Endpoints :
            Passed(call[c].first, call[c].at + 1, k) =
              IF k = call[c].at + 1 THEN tries[c][k] + 1 ELSE tries[c][k]
      BY <3>1, <3>2, ConnectorAssumption DEF Looping, Passed
    <3>4. /\ call[c].first \in 1 .. Endpoints
          /\ call[c].at + 1 \in call[c].first .. Endpoints
      BY <3>1, <3>2, ConnectorAssumption DEF Looping
    <3> QED BY <1>2, <3>1, <3>3, <3>4, TryKeeps
  <2>8. CASE ConnectSucceeds(c)
    <3>1. call[c].phase # "done"
      BY <2>1, <2>8 DEF ConnectSucceeds, CallInv
    <3>2. PICK outcome \in Outcomes : Report(c, outcome)
      BY <2>8 DEF ConnectSucceeds, Outcomes
    <3> QED BY <1>2, <3>1, <3>2, ReportKeeps
  <2>9. CASE ConnectFails(c)
    <3>1. /\ call[c].phase = "connecting" /\ call[c].at >= Endpoints
          /\ call[c].first \in Int /\ call[c].at \in Int
      BY <2>1, <2>9, ConnectorAssumption DEF ConnectFails, CallInv, CallState
    <3>2. CASE call[c].first < Endpoints /\ AsioConnect(c, call[c].first + 1)
      <4>1. Try(c, call[c].first + 1, call[c].first + 1)
        BY <3>1, <3>2, ConnectorAssumption DEF AsioConnect
      <4>2. Looping(c)
        BY <2>1, <3>1, <3>2, ConnectorAssumption DEF CallInv, Lost
      <4>3. \A k \in 1 .. Endpoints :
              Passed(call[c].first + 1, call[c].first + 1, k) =
                IF k = call[c].first + 1 THEN tries[c][k] + 1 ELSE tries[c][k]
        BY <3>1, <3>2, <4>2, ConnectorAssumption DEF Looping, Passed
      <4>4. /\ call[c].first + 1 \in 1 .. Endpoints
            /\ call[c].first + 1 \in call[c].first + 1 .. Endpoints
        BY <3>1, <3>2, <4>2, ConnectorAssumption DEF Looping
      <4> QED BY <1>2, <3>1, <4>1, <4>3, <4>4, TryKeeps
    <3>3. CASE /\ call[c].first = Endpoints
               /\ Report(c, IF connect_handler_ THEN "failed" ELSE "unheard")
      BY <1>2, <3>1, <3>3, ReportKeeps DEF Outcomes
    <3>4. CASE /\ call[c].first > Endpoints /\ undefined' = TRUE
               /\ UNCHANGED <<fixed, call, socket, owner, tries, reports>>
      <4>1. Lost(c)
        BY <2>1, <3>1, <3>4, ConnectorAssumption DEF CallInv, Looping
      <4>2. TypeInv'
        BY <2>1, <3>4 DEF TypeInv, fixed
      <4>3. \A d \in Calls : CallInv(d)'
        BY <3>4, OthersKeep DEF ConnectorInv, fixed
      <4>4. call'[c].phase = "connecting" /\ Lost(c)'
        BY <3>1, <3>4, <4>1 DEF Lost, Untried, fixed
      <4> QED BY <4>2, <4>3, <4>4 DEF ConnectorInv
    <3> QED BY <2>9, <3>2, <3>3, <3>4 DEF ConnectFails
  <2> QED BY <1>2, <2>2, <2>3, <2>4, <2>5, <2>6, <2>7, <2>8, <2>9 DEF Progress
<1> QED BY <1>1, <1>2 DEF ConnectorNext

LEMMA ConnectorInvHolds == ConnectorSpec => []ConnectorInv
BY ConnectorInvInit, ConnectorInvInductive, PTL DEF ConnectorSpec

(* The two loops of asio_connect_handler and async_connect nest: endpoint  *)
(* k is tried up to k times in a call, however many calls there are and    *)
(* however they abort each other's attempts, and an iterator is moved past *)
(* the end only without a connect handler, by a call that did not resolve. *)
THEOREM IterationIsBounded == ConnectorSpec => []IterationBounded
<1>1. ConnectorInv => IterationBounded
  <2> SUFFICES ASSUME ConnectorInv PROVE IterationBounded
    OBVIOUS
  <2>1. ConnectorTypeOK
    BY DEF ConnectorInv, TypeInv, ConnectorTypeOK, CallState, Phases
  <2>2. \A c \in Calls : \A k \in 1 .. Endpoints : tries[c][k] <= k
    BY DEF ConnectorInv, CallInv
  <2>3. undefined =>
          /\ ~connect_handler_
          /\ \E c \in Calls : /\ call[c].phase = "connecting"
                              /\ \A k \in 1 .. Endpoints : tries[c][k] = 0
    BY DEF ConnectorInv, Lost, Untried
  <2> QED BY <2>1, <2>2, <2>3 DEF IterationBounded
<1> QED BY <1>1, ConnectorInvHolds, PTL

(* The connect handler hears of a call when it is done, and not again:     *)
(* also of a call whose attempts another one aborted.                      *)
THEOREM OneReport ==
  ConnectorSpec => [](\A c \in Calls :
               Len(reports[c]) = IF call[c].phase = "done" THEN 1 ELSE 0)
<1>1. ConnectorInv => \A c \in Calls :
        Len(reports[c]) = IF call[c].phase = "done" THEN 1 ELSE 0
  BY DEF ConnectorInv, CallInv
<1> QED BY <1>1, ConnectorInvHolds, PTL

-----------------------------------------------------------------------------
(* The socket without overlapping requests.                                *)

(* As long as requests do not overlap one call is active, the socket is    *)
(* connected just when that call was told so, and it is the call's own     *)
(* from the first try on.                                                  *)
SocketOf(c) ==
  /\ socket = "connected" <=> call[c].result = "ok"
  /\ call[c].phase = "connecting" /\ ~Lost(c) => owner = {c}

OneActive == \A c, d \in Calls : Active(c) /\ Active(d) => c = d

OwnerInv == ~overlapped => OneActive /\ \A c \in Calls : Active(c) => SocketOf(c)

LEMMA OwnerInvInit == ConnectorInit => OwnerInv
BY DEF ConnectorInit, OwnerInv, OneActive, Active, Idle

(* The active call tries an endpoint: it is the only one, and it was told  *)
(* of no connection.                                                       *)
LEMMA TryIsAlone ==
  ASSUME ConnectorInv, OwnerInv, ~overlapped, NEW c \in Calls,
         Active(c), call[c].result # "ok",
         NEW first \in 1 .. Endpoints, NEW at, Try(c, first, at)
  PROVE  /\ OwnerInv' /\ socket # "connected"
         /\ UNCHANGED reports
<1>1. socket # "connected" /\ OneActive
  BY DEF OwnerInv, SocketOf
<1>2. /\ call'[c].phase = "connecting" /\ call'[c].result = "none"
      /\ socket' = "open" /\ owner' = {c} /\ UNCHANGED reports
  BY DEF Try
<1>3. \A d \in Calls \ {c} : call'[d] = call[d]
  BY <1>1 DEF Try, OneActive, Active
<1>4. \A d \in Calls : Active(d)' => d = c
  BY <1>1, <1>3 DEF OneActive, Active
<1>5. SocketOf(c)'
  BY <1>2 DEF SocketOf
<1> QED BY <1>1, <1>2, <1>4, <1>5 DEF OwnerInv, OneActive

(* The active call ends, and no other one is.                              *)
LEMMA ReportIsAlone ==
  ASSUME ConnectorInv, OwnerInv, ~overlapped, NEW c \in Calls,
         Active(c), NEW outcome \in Outcomes, Report(c, outcome)
  PROVE  /\ OwnerInv'
         /\ reports'[c] = <<outcome>>
         /\ \A d \in Calls \ {c} : reports'[d] = reports[d]
         /\ UNCHANGED <<socket, owner, tries, connect_handler_>>
<1>1. /\ call' = [call EXCEPT ![c].phase = "done", ![c].result = "none"]
      /\ reports' = [reports EXCEPT ![c] = Append(@, outcome)]
      /\ UNCHANGED <<socket, owner, tries, connect_handler_>>
  BY DEF Report, fixed
<1>2. /\ call \in [Calls -> CallState] /\ reports \in [Calls -> Seq(Outcomes)]
      /\ reports[c] \in Seq(Outcomes) /\ Len(reports[c]) = 0
  BY DEF ConnectorInv, TypeInv, CallInv, Active
<1>3. reports[c] = <<>>
  BY <1>2, EmptySeq
<1>4. reports'[c] = <<outcome>>
  BY <1>1, <1>2, <1>3
<1>5. /\ call'[c].phase = "done"
      /\ \A d \in Calls \ {c} : call'[d] = call[d]
  BY <1>1, <1>2 DEF CallState
<1>6. \A d \in Calls : ~Active(d)'
  BY <1>5 DEF OwnerInv, OneActive, Active
<1>7. OwnerInv'
  BY <1>6 DEF OwnerInv, OneActive
<1> QED BY <1>1, <1>2, <1>4, <1>7

(* What a step tells is true, and no step tears a connection down.         *)
Truthful(c) ==
  CASE Head(reports'[c]) = "ok" -> socket' = "connected" /\ owner' = {c}
    [] Head(reports'[c]) = "failed" ->
         /\ socket' # "connected"
         /\ \A k \in 1 .. Endpoints : tries'[c][k] > 0
    [] OTHER -> connect_handler_ => socket' # "connected"

TrueStep ==
  /\ socket = "connected" => socket' = "connected"
  /\ \A c \in Calls : reports'[c] # reports[c] => Truthful(c)

LEMMA OneTrueReport ==
  ASSUME NEW c \in Calls, NEW outcome \in Outcomes,
         reports'[c] = <<outcome>>,
         \A d \in Calls \ {c} : reports'[d] = reports[d],
         UNCHANGED <<socket, owner, tries, connect_handler_>>,
         outcome = "ok" => socket = "connected" /\ owner = {c},
         outcome = "failed" => /\ socket # "connected"
                               /\ \A k \in 1 .. Endpoints : tries[c][k] > 0,
         outcome \in {"unresolved", "unheard"} =>
           (connect_handler_ => socket # "connected")
  PROVE  TrueStep
<1>1. Head(reports'[c]) = outcome
  OBVIOUS
<1>2. Truthful(c)
  BY <1>1 DEF Truthful, Outcomes
<1> QED BY <1>2 DEF TrueStep

LEMMA OwnerStep ==
  ConnectorInv /\ OwnerInv /\ [ConnectorNext]_connectorVars
    => OwnerInv' /\ (~overlapped' => TrueStep)
<1> SUFFICES ASSUME ConnectorInv, OwnerInv, [ConnectorNext]_connectorVars, ~overlapped'
             PROVE  OwnerInv' /\ TrueStep
  BY DEF OwnerInv
<1>1. CASE UNCHANGED connectorVars
  BY <1>1 DEF connectorVars, OwnerInv, OneActive, Active, SocketOf, Lost, Untried,
              TrueStep
<1>2. ASSUME NEW c \in Calls, Connect(c)
      PROVE  OwnerInv' /\ TrueStep
  <2>1. /\ socket # "connected" /\ \A d \in Calls : ~Active(d)
        /\ call' = [call EXCEPT ![c].phase = "posted"]
        /\ UNCHANGED <<socket, reports>> /\ call[c] = Idle
    BY <1>2 DEF Connect
  <2>2. /\ call \in [Calls -> CallState]
        /\ call'[c].phase = "posted" /\ call'[c].result = "none"
        /\ \A d \in Calls \ {c} : call'[d] = call[d]
    BY <2>1 DEF ConnectorInv, TypeInv, CallState, Idle
  <2>3. \A d \in Calls : Active(d)' => d = c
    BY <2>1, <2>2 DEF Active
  <2>4. SocketOf(c)'
    BY <2>1, <2>2 DEF SocketOf
  <2> QED BY <2>1, <2>3, <2>4 DEF OwnerInv, OneActive, TrueStep
<1>3. ASSUME NEW c \in Calls, Progress(c)
      PROVE  OwnerInv' /\ TrueStep
  <2>1. ~overlapped
    BY <1>3 DEF Progress, Resolve, ResolveSucceeds,
                ResolveFails, AttemptEnds, NextEndpoint,
                ConnectSucceeds, ConnectFails, AsioConnect, Try,
                Report, fixed
  <2>2. /\ call \in [Calls -> CallState] /\ call[c] \in CallState
        /\ CallInv(c)
    BY DEF ConnectorInv, TypeInv
  <2>3. Active(c)
    BY <1>3, <2>2 DEF Progress, Resolve, ResolveSucceeds,
                ResolveFails, AttemptEnds, NextEndpoint,
                ConnectSucceeds, ConnectFails, CallInv, Active
  <2>4. OneActive /\ SocketOf(c) /\ \A d \in Calls : Active(d) => d = c
    BY <2>1, <2>3 DEF OwnerInv, OneActive
  <2>5. ASSUME NEW first \in 1 .. Endpoints, NEW at, Try(c, first, at),
               call[c].result # "ok"
        PROVE  OwnerInv' /\ TrueStep
    BY <2>1, <2>3, <2>5, TryIsAlone DEF TrueStep
  <2>6. ASSUME NEW outcome \in Outcomes, Report(c, outcome)
        PROVE  /\ OwnerInv' /\ reports'[c] = <<outcome>>
               /\ \A d \in Calls \ {c} : reports'[d] = reports[d]
               /\ UNCHANGED <<socket, owner, tries, connect_handler_>>
    BY <2>1, <2>3, <2>6, ReportIsAlone
  <2>7. CASE Resolve(c)
    <3>1. /\ call' = [call EXCEPT ![c].phase = "resolving"]
          /\ UNCHANGED <<socket, reports>> /\ call[c].phase = "posted"
      BY <2>7 DEF Resolve, fixed
    <3>2. /\ call'[c].phase = "resolving" /\ call'[c].result = call[c].result
          /\ \A d \in Calls \ {c} : call'[d] = call[d]
      BY <2>2, <3>1 DEF CallState
    <3>3. \A d \in Calls : Active(d)' => d = c
      BY <2>4, <3>2 DEF Active
    <3>4. SocketOf(c)'
      BY <2>4, <3>1, <3>2 DEF SocketOf
    <3> QED BY <3>1, <3>3, <3>4 DEF OwnerInv, OneActive, TrueStep
  <2>8. CASE ResolveSucceeds(c)
    <3>1. Try(c, 1, 1) /\ 1 \in 1 .. Endpoints
      BY <2>8, ConnectorAssumption DEF ResolveSucceeds, AsioConnect
    <3>2. call[c].result # "ok"
      BY <2>2, <2>8 DEF ResolveSucceeds, CallInv
    <3> QED BY <2>5, <3>1, <3>2
  <2>9. CASE ResolveFails(c)
    <3>1. /\ call[c].phase = "resolving" /\ call[c].result = "none"
          /\ socket # "connected"
      BY <2>2, <2>4, <2>9 DEF ResolveFails, CallInv, SocketOf
    <3>2. CASE connect_handler_ /\ Report(c, "unresolved")
      <4>1. "unresolved" \in Outcomes
        BY DEF Outcomes
      <4> QED BY <2>6, <3>1, <3>2, <4>1, OneTrueReport
    <3>3. CASE ~connect_handler_ /\ AsioConnect(c, Endpoints + 1)
      <4>1. /\ call' = [call EXCEPT ![c] =
                   [phase |-> "connecting", first |-> Endpoints + 1,
                    at |-> Endpoints + 1, result |-> "error"]]
            /\ UNCHANGED <<connect_handler_, socket, owner, tries, reports>>
        BY <3>3, ConnectorAssumption DEF AsioConnect, fixed
      <4>2. /\ call'[c] = [phase |-> "connecting", first |-> Endpoints + 1,
                           at |-> Endpoints + 1, result |-> "error"]
            /\ \A d \in Calls \ {c} : call'[d] = call[d]
        BY <2>2, <4>1
      <4>3. Lost(c)'
        BY <2>2, <3>1, <3>3, <4>1, <4>2 DEF Lost, Untried, CallInv
      <4>4. SocketOf(c)'
        BY <3>1, <4>1, <4>2, <4>3 DEF SocketOf
      <4>5. \A d \in Calls : Active(d)' => d = c
        BY <2>4, <4>2 DEF Active
      <4> QED BY <4>1, <4>4, <4>5 DEF OwnerInv, OneActive, TrueStep
    <3> QED BY <2>9, <3>2, <3>3 DEF ResolveFails
  <2>10. CASE AttemptEnds(c)
    <3>1. PICK r \in {"ok", "error"} :
            /\ call' = [call EXCEPT ![c].result = r]
            /\ socket' = IF r = "ok" THEN "connected" ELSE socket
      BY <2>10 DEF AttemptEnds
    <3>2. /\ call[c].phase = "connecting" /\ call[c].result = "none"
          /\ UNCHANGED <<owner, reports>>
      BY <2>10 DEF AttemptEnds
    <3>3. socket # "connected" /\ owner = {c}
      BY <2>4, <3>2 DEF SocketOf, Lost
    <3>4. /\ call'[c].result = r
          /\ \A d \in Calls \ {c} : call'[d] = call[d]
      BY <2>2, <3>1 DEF CallState
    <3>5. SocketOf(c)'
      BY <3>1, <3>2, <3>3, <3>4 DEF SocketOf
    <3>6. \A d \in Calls : Active(d)' => d = c
      BY <2>4, <3>4 DEF Active
    <3> QED BY <3>2, <3>3, <3>5, <3>6 DEF OwnerInv, OneActive, TrueStep
  <2>11. CASE NextEndpoint(c)
    <3>1. /\ Try(c, call[c].first, call[c].at + 1)
          /\ call[c].result = "error" /\ call[c].at < Endpoints
          /\ call[c].phase = "connecting"
      BY <2>2, <2>11 DEF NextEndpoint, CallInv
    <3>2. call[c].first \in 1 .. Endpoints
      BY <2>2, <3>1, ConnectorAssumption DEF CallInv, Lost, Looping
    <3> QED BY <2>5, <3>1, <3>2
  <2>12. CASE ConnectSucceeds(c)
    <3>1. call[c].result = "ok" /\ call[c].phase = "connecting"
      BY <2>2, <2>12 DEF ConnectSucceeds, CallInv
    <3>2. socket = "connected" /\ owner = {c}
      BY <2>4, <3>1 DEF SocketOf, Lost
    <3>3. PICK outcome \in {"ok", "unheard"} :
            Report(c, outcome) /\ (outcome = "unheard" => ~connect_handler_)
      BY <2>12 DEF ConnectSucceeds
    <3>4. outcome \in Outcomes
      BY DEF Outcomes
    <3> QED BY <2>6, <3>2, <3>3, <3>4, OneTrueReport
  <2>13. CASE ConnectFails(c)
    <3>1. /\ call[c].result = "error" /\ call[c].phase = "connecting"
          /\ call[c].at >= Endpoints /\ call[c].first \in Int /\ call[c].at \in Int
      BY <2>2, <2>13, ConnectorAssumption DEF ConnectFails, CallInv, CallState
    <3>2. CASE call[c].first < Endpoints /\ AsioConnect(c, call[c].first + 1)
      <4>1. Try(c, call[c].first + 1, call[c].first + 1)
        BY <3>1, <3>2, ConnectorAssumption DEF AsioConnect
      <4>2. call[c].first + 1 \in 1 .. Endpoints
        BY <2>2, <3>1, <3>2, ConnectorAssumption DEF CallInv, Lost, Looping
      <4> QED BY <2>5, <3>1, <4>1, <4>2
    <3>3. CASE /\ call[c].first = Endpoints
               /\ Report(c, IF connect_handler_ THEN "failed" ELSE "unheard")
      <4>1. socket # "connected"
        BY <2>4, <3>1 DEF SocketOf
      <4>2. \A k \in 1 .. Endpoints : tries[c][k] > 0
        BY <2>2, <3>1, <3>3, ConnectorAssumption DEF CallInv, Lost, Looping, Passed
      <4>3. PICK outcome \in {"failed", "unheard"} : Report(c, outcome)
        BY <3>3
      <4>4. outcome \in Outcomes
        BY DEF Outcomes
      <4> QED BY <2>6, <4>1, <4>2, <4>3, <4>4, OneTrueReport
    <3>4. CASE /\ call[c].first > Endpoints /\ undefined' = TRUE
               /\ UNCHANGED <<fixed, call, socket, owner, tries, reports>>
      BY <2>1, <3>4 DEF OwnerInv, OneActive, Active, SocketOf, Lost, Untried,
                        TrueStep, fixed
    <3> QED BY <2>13, <3>2, <3>3, <3>4 DEF ConnectFails
  <2> QED BY <1>3, <2>7, <2>8, <2>9, <2>10, <2>11, <2>12, <2>13 DEF Progress
<1> QED BY <1>1, <1>2, <1>3 DEF ConnectorNext

(* What the connect handler hears is true when it hears it, and a          *)
(* connection that was made is not torn down, as long as requests do not   *)
(* overlap: "ok" means that this call connected the socket, "failed" that  *)
(* it tried every endpoint and the socket is not connected.                *)
THEOREM HandlerHearsTheTruth == ConnectorSpec => ReportsAreTrue
<1>1. ConnectorInit => ConnectorInv /\ OwnerInv
  BY ConnectorInvInit, OwnerInvInit
<1>2. ConnectorInv /\ OwnerInv /\ [ConnectorNext]_connectorVars => (ConnectorInv /\ OwnerInv)'
  BY ConnectorInvInductive, OwnerStep
<1>3. ConnectorInv /\ OwnerInv /\ [ConnectorNext]_connectorVars =>
        [~overlapped' =>
           /\ socket = "connected" => socket' = "connected"
           /\ \A c \in Calls : reports'[c] # reports[c] =>
                CASE Head(reports'[c]) = "ok" -> socket' = "connected" /\ owner' = {c}
                  [] Head(reports'[c]) = "failed" ->
                       /\ socket' # "connected"
                       /\ \A k \in 1 .. Endpoints : tries'[c][k] > 0
                  [] OTHER -> connect_handler_ => socket' # "connected"]_connectorVars
  BY OwnerStep DEF TrueStep, Truthful
<1> QED BY <1>1, <1>2, <1>3, PTL DEF ConnectorSpec, ReportsAreTrue

-----------------------------------------------------------------------------
(* The lines of the terminal.                                              *)

Token == 0 .. MaxTyped

(* What one token adds to the lines. *)
Piece(token) == IF token = EndOfLine THEN <<>> ELSE <<token>>

LEMMA LinesOfNothing == LinesIn(<<>>) = <<>>
<1>1. [k \in DOMAIN <<>> |-> Piece(<<>>[k])] = <<>>
  OBVIOUS
<1> QED BY <1>1 DEF LinesIn, Piece, FlattenSeq

(* The lines of a text with one more token. *)
LEMMA LinesOfAppend ==
  ASSUME NEW text \in Seq(Token), NEW token \in Token
  PROVE  /\ LinesIn(text) \in Seq(Token)
         /\ LinesIn(Append(text, token)) = LinesIn(text) \o Piece(token)
<1> DEFINE pieces == [k \in DOMAIN text |-> Piece(text[k])]
           more == Append(text, token)
<1>1. \A t \in Token : Piece(t) \in Seq(Token)
  BY DEF Piece
<1>2. \A k \in DOMAIN text : text[k] \in Token
  OBVIOUS
<1>3. pieces \in Seq(Seq(Token))
  <2>1. pieces \in [1 .. Len(text) -> Seq(Token)] /\ Len(text) \in Nat
    <3> HIDE DEF Piece
    <3> QED BY <1>1, <1>2
  <2> HIDE DEF pieces
  <2> QED BY ONLY <2>1, SeqDef
<1>4. [k \in DOMAIN more |-> Piece(more[k])] = Append(pieces, Piece(token))
  <2> HIDE DEF Piece
  <2> QED BY <1>3
<1>5. /\ LinesIn(text) = FlattenSeq(pieces)
      /\ LinesIn(more) = FlattenSeq([k \in DOMAIN more |-> Piece(more[k])])
  BY DEF LinesIn, Piece
<1>6. Piece(token) \in Seq(Token)
  BY <1>1
<1> HIDE DEF pieces
<1> QED BY <1>3, <1>4, <1>5, <1>6, FlattenAppend

LEMMA LinesOfOne ==
  ASSUME NEW line \in Token \ {EndOfLine}
  PROVE  LinesIn(<<line>>) = <<line>>
<1>1. <<line>> = Append(<<>>, line) /\ <<>> \in Seq(Token)
  OBVIOUS
<1>2. LinesIn(Append(<<>>, line)) = LinesIn(<<>>) \o Piece(line)
  BY <1>1, LinesOfAppend
<1> QED BY <1>1, <1>2, LinesOfNothing DEF Piece

(* A line that is buffered is put at the end of the lines of the buffer. *)
LEMMA LinesOfBuffer ==
  ASSUME NEW text \in Seq(Token), NEW line \in Token \ {EndOfLine}
  PROVE  /\ text \o WithEnd(line) \in Seq(Token)
         /\ LinesIn(text \o WithEnd(line)) = Append(LinesIn(text), line)
<1>1. 0 \in Token /\ EndOfLine = 0
  BY ClientAssumption DEF Token, EndOfLine
<1> DEFINE one == Append(text, line)
<1>2. one \in Seq(Token) /\ text \o WithEnd(line) = Append(one, 0)
  BY <1>1 DEF WithEnd
<1>3. LinesIn(one) = LinesIn(text) \o <<line>> /\ LinesIn(text) \in Seq(Token)
  BY LinesOfAppend DEF Piece
<1>4. LinesIn(Append(one, 0)) = LinesIn(one) \o <<>>
  <2> HIDE DEF one
  <2> QED BY <1>1, <1>2, LinesOfAppend DEF Piece
<1>5. LinesIn(one) \in Seq(Token) /\ LinesIn(one) = Append(LinesIn(text), line)
  BY <1>3
<1> HIDE DEF one
<1> QED BY <1>1, <1>2, <1>4, <1>5, ConcatEmptySeq

(* The lines in the messages that were given to the socket. *)
Delivered == FlattenSeq([k \in DOMAIN sent |-> LinesIn(sent[k])])

LEMMA LinesTyped ==
  ASSUME sent \in Seq(Seq(Token))
  PROVE  [k \in DOMAIN sent |-> LinesIn(sent[k])] \in Seq(Seq(Token))
<1> DEFINE lines == [k \in DOMAIN sent |-> LinesIn(sent[k])]
<1>1. \A m \in Seq(Token) : LinesIn(m) \in Seq(Token)
  <2>1. 0 \in Token
    BY ClientAssumption DEF Token
  <2> QED BY <2>1, LinesOfAppend
<1>2. lines \in [1 .. Len(sent) -> Seq(Token)] /\ Len(sent) \in Nat
  BY <1>1
<1> HIDE DEF lines
<1>3. \E n \in Nat : lines \in [1 .. n -> Seq(Token)]
  BY <1>2
<1>4. lines \in Seq(Seq(Token))
  BY ONLY <1>3, SeqDef
<1> QED BY <1>4 DEF lines

LEMMA DeliveredTyped == sent \in Seq(Seq(Token)) => Delivered \in Seq(Token)
<1>1. <<>> \in Seq(Token)
  OBVIOUS
<1> QED BY <1>1, LinesTyped, FlattenAppend DEF Delivered

LEMMA DeliveredGrows ==
  ASSUME sent \in Seq(Seq(Token)), NEW message \in Seq(Token),
         sent' = Append(sent, message)
  PROVE  Delivered' = Delivered \o LinesIn(message)
<1> DEFINE lines == [k \in DOMAIN sent |-> LinesIn(sent[k])]
<1>1. LinesIn(message) \in Seq(Token)
  <2>1. 0 \in Token
    BY ClientAssumption DEF Token
  <2> QED BY <2>1, LinesOfAppend
<1>2. lines \in Seq(Seq(Token)) /\ Len(lines) = Len(sent)
  BY LinesTyped
<1>3. [k \in DOMAIN sent' |-> LinesIn(sent'[k])] = Append(lines, LinesIn(message))
  <2>1. /\ DOMAIN sent' = 1 .. Len(sent) + 1 /\ Len(sent) \in Nat
        /\ \A k \in 1 .. Len(sent) : sent'[k] = sent[k]
        /\ sent'[Len(sent) + 1] = message
    OBVIOUS
  <2> HIDE DEF LinesIn
  <2> QED BY <1>1, <1>2, <2>1
<1>4. /\ Delivered = FlattenSeq(lines)
      /\ Delivered' = FlattenSeq([k \in DOMAIN sent' |-> LinesIn(sent'[k])])
  BY DEF Delivered
<1> HIDE DEF lines
<1> QED BY <1>1, <1>2, <1>3, <1>4, FlattenAppend

(* Nothing is buffered without a connection. *)
LinesInv ==
  /\ TypeOK
  /\ Delivered \o LinesIn(command_buffer_) = accepted
  /\ command_buffer_ # <<>> => buffering_mode_ /\ connected_

LEMMA LinesInvInit == Init => LinesInv
<1> SUFFICES ASSUME Init PROVE LinesInv
  OBVIOUS
<1>1. TypeOK
  <2>1. /\ typed = 0 /\ executed = 0 /\ pc = "idle" /\ buffering_mode_ = FALSE
        /\ connected_ = FALSE /\ gone = FALSE /\ command_buffer_ = <<>>
        /\ sent = <<>> /\ strand = <<>> /\ reads = NoReads
    BY DEF Init
  <2>2. MaxTyped \in Nat
    BY ClientAssumption
  <2>3. sent \in Seq(Seq(0 .. MaxTyped))
    BY <2>1
  <2>4. command_buffer_ \in Seq(0 .. MaxTyped) /\ strand \in Seq({"resolve", "receive"})
    BY <2>1
  <2>5. reads \in [waiting : Nat, failed : Nat]
    BY <2>1 DEF NoReads
  <2>6. typed \in 0 .. MaxTyped /\ executed \in 0 .. typed /\ pc \in {"idle", "connect"}
    BY <2>1, <2>2
  <2>7. {buffering_mode_, connected_, gone} \subseteq BOOLEAN
    BY <2>1
  <2> QED BY <2>3, <2>4, <2>5, <2>6, <2>7 DEF TypeOK
<1>2. Delivered = <<>>
  <2>1. [k \in DOMAIN sent |-> LinesIn(sent[k])] = <<>>
    BY DEF Init
  <2> QED BY <2>1 DEF Delivered, FlattenSeq
<1> QED BY <1>1, <1>2, LinesOfNothing DEF Init, LinesInv

(* What a step does to the reads of the socket. *)
ReadsAre(w, f) == reads' = [waiting |-> w, failed |-> f]

LEMMA ReadsMove ==
  ASSUME reads \in [waiting : Nat, failed : Nat]
  PROVE  /\ reads.waiting \in Nat /\ reads.failed \in Nat
         /\ UNCHANGED reads => ReadsAre(reads.waiting, reads.failed)
         /\ AbortReads => ReadsAre(0, reads.failed + reads.waiting)
         /\ RunReceive => \/ CanWait /\ ReadsAre(reads.waiting + 1, reads.failed)
                          \/ ~CanWait /\ ReadsAre(reads.waiting, reads.failed + 1)
         /\ SocketReceive => /\ reads.waiting > 0
                             /\ ReadsAre(reads.waiting - 1, reads.failed)
         /\ SocketReceiveFails => /\ reads.failed > 0
                                  /\ ReadsAre(reads.waiting, reads.failed - 1)
<1>1. /\ reads.waiting \in Nat /\ reads.failed \in Nat
      /\ reads = [waiting |-> reads.waiting, failed |-> reads.failed]
  OBVIOUS
<1>2. AbortReads => ReadsAre(0, reads.failed + reads.waiting)
  BY <1>1 DEF AbortReads, ReadsAre
<1>3. RunReceive => \/ CanWait /\ ReadsAre(reads.waiting + 1, reads.failed)
                    \/ ~CanWait /\ ReadsAre(reads.waiting, reads.failed + 1)
  BY <1>1 DEF RunReceive, ReadsAre
<1>4. SocketReceive => /\ reads.waiting > 0
                       /\ ReadsAre(reads.waiting - 1, reads.failed)
  BY <1>1 DEF SocketReceive, ReadsAre
<1>5. SocketReceiveFails => /\ reads.failed > 0
                            /\ ReadsAre(reads.waiting, reads.failed - 1)
  BY <1>1 DEF SocketReceiveFails, ReadsAre
<1> QED BY <1>1, <1>2, <1>3, <1>4, <1>5 DEF ReadsAre

LEMMA ReadsTyped ==
  ASSUME reads \in [waiting : Nat, failed : Nat],
         Dialing \/ Receiving \/ ServerCloses
  PROVE  reads' \in [waiting : Nat, failed : Nat]
<1>1. \E w, f \in Nat : ReadsAre(w, f)
  <2>1. reads.waiting \in Nat /\ reads.failed \in Nat
    BY ReadsMove
  <2>2. CASE UNCHANGED reads
    BY <2>1, <2>2, ReadsMove
  <2>3. CASE AbortReads
    <3>1. reads.failed + reads.waiting \in Nat /\ 0 \in Nat
      BY <2>1
    <3> QED BY <2>3, <3>1, ReadsMove
  <2>4. CASE RunReceive
    <3>1. reads.waiting + 1 \in Nat /\ reads.failed + 1 \in Nat
      BY <2>1
    <3> QED BY <2>1, <2>4, <3>1, ReadsMove
  <2>5. CASE SocketReceive
    <3>1. reads.waiting > 0 /\ ReadsAre(reads.waiting - 1, reads.failed)
      BY <2>5, ReadsMove
    <3>2. reads.waiting - 1 \in Nat
      BY <2>1, <3>1
    <3> QED BY <2>1, <3>1, <3>2
  <2>6. CASE SocketReceiveFails
    <3>1. reads.failed > 0 /\ ReadsAre(reads.waiting, reads.failed - 1)
      BY <2>6, ReadsMove
    <3>2. reads.failed - 1 \in Nat
      BY <2>1, <3>1
    <3> QED BY <2>1, <3>1, <3>2
  <2> QED BY <2>2, <2>3, <2>4, <2>5, <2>6
          DEF Dialing, Receiving, RunResolve, AttemptSucceeds, AttemptFails, Tries,
              ConnectHandler, ServerCloses
<1> QED BY <1>1 DEF ReadsAre

(* What the steps that leave the terminal alone may do. *)
LEMMA LinesKeptByOthers ==
  ASSUME LinesInv, TypeOK', UNCHANGED terminal, connected_ => connected_'
  PROVE  LinesInv'
<1>1. /\ UNCHANGED <<sent, command_buffer_, accepted, buffering_mode_>>
      /\ Delivered' = Delivered
  BY DEF terminal, Delivered
<1> QED BY <1>1 DEF LinesInv

(* What a line that is executed does to the lines.                         *)
LinesMove ==
  /\ command_buffer_' \in Seq(Token) /\ sent' \in Seq(Seq(Token))
  /\ buffering_mode_' \in BOOLEAN /\ pc' \in {"idle", "connect"}
  /\ Delivered' \o LinesIn(command_buffer_)' = accepted'
  /\ command_buffer_' # <<>> => buffering_mode_' /\ connected_

LEMMA ServerLineKeeps ==
  ASSUME LinesInv, executed < typed, executed' = executed + 1, ServerLine
  PROVE  LinesMove
<1> DEFINE line == executed'
<1>1. line \in Token \ {EndOfLine}
  BY ClientAssumption DEF LinesInv, TypeOK, Token, EndOfLine
<1>2. /\ command_buffer_ \in Seq(Token) /\ sent \in Seq(Seq(Token))
      /\ Delivered \o LinesIn(command_buffer_) = accepted
      /\ command_buffer_ # <<>> => buffering_mode_ /\ connected_
      /\ UNCHANGED <<pc, buffering_mode_>> /\ buffering_mode_ \in BOOLEAN
      /\ pc \in {"idle", "connect"}
  BY DEF LinesInv, TypeOK, Token, ServerLine
<1>3. /\ LinesIn(command_buffer_) \in Seq(Token) /\ Delivered \in Seq(Token)
      /\ <<line>> \in Seq(Token)
  BY <1>1, <1>2, LinesOfAppend, DeliveredTyped
<1> HIDE DEF line
<1>4. CASE /\ UNCHANGED <<command_buffer_, accepted, sent>>
  BY <1>2, <1>4 DEF LinesMove, Delivered
<1>5. CASE /\ connected_ /\ buffering_mode_
           /\ command_buffer_' = command_buffer_ \o WithEnd(line)
           /\ accepted' = Append(accepted, line)
           /\ UNCHANGED sent
  <2>1. /\ command_buffer_' \in Seq(Token)
        /\ LinesIn(command_buffer_)' = Append(LinesIn(command_buffer_), line)
    BY <1>1, <1>2, <1>5, LinesOfBuffer
  <2>2. Delivered' = Delivered
    BY <1>5 DEF Delivered
  <2> DEFINE d == Delivered
             l == LinesIn(command_buffer_)
  <2>3. d \o Append(l, line) = Append(d \o l, line)
    <3>1. d \in Seq(Token) /\ l \in Seq(Token) /\ line \in Token
      BY <1>1, <1>3
    <3> HIDE DEF d, l
    <3> QED BY <3>1
  <2> QED BY <1>2, <1>5, <2>1, <2>2, <2>3 DEF LinesMove
<1>6. CASE /\ connected_ /\ ~buffering_mode_
           /\ sent' = Append(sent, <<line>>)
           /\ accepted' = Append(accepted, line)
           /\ UNCHANGED command_buffer_
  <2>1. Delivered' = Delivered \o <<line>>
    BY <1>1, <1>2, <1>3, <1>6, DeliveredGrows, LinesOfOne
  <2>2. command_buffer_ = <<>> /\ LinesIn(command_buffer_) = <<>>
    BY <1>2, <1>6, LinesOfNothing
  <2>3. accepted = Delivered
    BY <1>2, <1>3, <2>2, ConcatEmptySeq
  <2>4. accepted' = Delivered' \o <<>> /\ Delivered' \in Seq(Token)
    <3>1. Delivered \o <<line>> = Append(Delivered, line)
          /\ Delivered \o <<line>> \in Seq(Token)
      BY <1>1, <1>3, AppendIsConcat, ConcatProperties
    <3> QED BY <1>6, <2>1, <2>3, <3>1, ConcatEmptySeq
  <2>5. sent' \in Seq(Seq(Token))
    BY <1>2, <1>3, <1>6
  <2> QED BY <1>2, <1>6, <2>2, <2>4, <2>5 DEF LinesMove
<1> QED BY <1>4, <1>5, <1>6 DEF ServerLine, line

LEMMA EndKeeps ==
  ASSUME LinesInv, End
  PROVE  LinesMove
<1>1. /\ command_buffer_ \in Seq(Token) /\ sent \in Seq(Seq(Token))
      /\ Delivered \o LinesIn(command_buffer_) = accepted
      /\ command_buffer_ # <<>> => buffering_mode_ /\ connected_
      /\ UNCHANGED <<pc, accepted>> /\ buffering_mode_ \in BOOLEAN
      /\ pc \in {"idle", "connect"}
  BY DEF LinesInv, TypeOK, Token, End
<1>2. LinesIn(command_buffer_) \in Seq(Token) /\ Delivered \in Seq(Token)
  <2>1. 0 \in Token
    BY ClientAssumption DEF Token
  <2> QED BY <1>1, <2>1, LinesOfAppend, DeliveredTyped
<1>3. CASE UNCHANGED <<buffering_mode_, command_buffer_, sent>>
  BY <1>1, <1>3 DEF LinesMove, Delivered
<1>4. CASE /\ buffering_mode_' = FALSE /\ command_buffer_' = <<>>
           /\ connected_ /\ sent' = Append(sent, command_buffer_)
  <2>1. Delivered' = accepted /\ accepted \in Seq(Token)
    BY <1>1, <1>2, <1>4, DeliveredGrows, ConcatProperties
  <2>2. sent' \in Seq(Seq(Token)) /\ <<>> \in Seq(Token)
    BY <1>1, <1>4
  <2>3. accepted \o <<>> = accepted
    BY <2>1, ConcatEmptySeq
  <2> QED BY <1>1, <1>4, <2>1, <2>2, <2>3, LinesOfNothing DEF LinesMove
<1>5. CASE /\ buffering_mode_' = FALSE /\ command_buffer_' = <<>>
           /\ ~connected_ /\ UNCHANGED sent
  <2>1. command_buffer_ = <<>> /\ Delivered' = Delivered
    BY <1>1, <1>5 DEF Delivered
  <2> QED BY <1>1, <1>5, <2>1 DEF LinesMove
<1> QED BY <1>3, <1>4, <1>5 DEF End

LEMMA ExecuteKeeps == LinesInv /\ Execute => LinesInv'
<1> SUFFICES ASSUME LinesInv, Execute PROVE LinesInv'
  OBVIOUS
<1>1. /\ executed < typed /\ executed' = executed + 1
      /\ UNCHANGED <<typed, connected_, strand, gone, reads>>
  BY DEF Execute, Hears, server
<1>2. LinesMove
  <2>1. CASE ServerLine
    BY <1>1, <2>1, ServerLineKeeps
  <2>2. CASE End
    BY <2>2, EndKeeps
  <2>3. CASE Begin \/ ConnectCommand \/ Unknown \/ Blank
    <3>1. /\ UNCHANGED <<command_buffer_, accepted, sent>>
          /\ buffering_mode_ => buffering_mode_'
          /\ buffering_mode_' \in BOOLEAN /\ pc' \in {"idle", "connect"}
      BY <2>3 DEF Begin, ConnectCommand, Unknown, Blank, LinesInv, TypeOK
    <3> QED BY <3>1 DEF LinesMove, LinesInv, TypeOK, Delivered, Token
  <2> QED BY <2>1, <2>2, <2>3 DEF Execute
<1>3. TypeOK'
  <2>1. executed' \in 0 .. typed'
    BY <1>1, ClientAssumption DEF LinesInv, TypeOK
  <2> QED BY <1>1, <1>2, <2>1 DEF LinesInv, LinesMove, TypeOK, Token
<1> QED BY <1>1, <1>2, <1>3 DEF LinesInv, LinesMove

LEMMA LinesInvInductive == LinesInv /\ [Next]_vars => LinesInv'
<1> SUFFICES ASSUME LinesInv, [Next]_vars PROVE LinesInv'
  OBVIOUS
<1>0. TypeOK
  BY DEF LinesInv
<1>1. CASE Execute
  BY <1>1, ExecuteKeeps
<1>2. CASE Type
  <2>1. /\ typed' = typed + 1 /\ typed < MaxTyped
        /\ UNCHANGED <<executed, pc, buffering_mode_, command_buffer_, accepted,
                       sent, connected_, strand, reads, gone>>
    BY <1>2 DEF Type, server
  <2>2. TypeOK' /\ Delivered' = Delivered
    BY <1>0, <2>1, ClientAssumption DEF TypeOK, Delivered
  <2> QED BY <2>1, <2>2 DEF LinesInv
<1>3. CASE StartConnect
  <2>1. /\ pc' = "idle" /\ (strand' = strand \/ strand' = Append(strand, "resolve"))
        /\ UNCHANGED <<typed, executed, buffering_mode_, command_buffer_, accepted,
                       sent, connected_, reads, gone>>
    BY <1>3 DEF StartConnect, server
  <2>2. strand' \in Seq({"resolve", "receive"})
    <3>1. strand \in Seq({"resolve", "receive"})
      BY <1>0 DEF TypeOK
    <3>2. strand' = strand \/ strand' = Append(strand, "resolve")
      BY <2>1
    <3> QED BY ONLY <3>1, <3>2
  <2>3. TypeOK' /\ Delivered' = Delivered
    BY <1>0, <2>1, <2>2 DEF TypeOK, Delivered
  <2> QED BY <2>1, <2>3 DEF LinesInv
<1>4. CASE Dialing \/ Receiving \/ ServerCloses
  <2>1. UNCHANGED terminal
    BY <1>4 DEF Dialing, Receiving, RunResolve, AttemptSucceeds, AttemptFails, Tries,
                ConnectHandler, RunReceive, SocketReceive, SocketReceiveFails,
                ServerCloses
  <2>2. connected_' \in BOOLEAN /\ (connected_ => connected_')
    <3>1. \/ UNCHANGED connected_
          \/ \E c \in Calls : connected_' = (connected_ \/ reports'[c] = <<"ok">>)
      BY <1>4 DEF Dialing, Receiving, RunResolve, AttemptSucceeds, AttemptFails,
                  Tries, ConnectHandler, RunReceive, SocketReceive,
                  SocketReceiveFails, ServerCloses
    <3>2. connected_ \in BOOLEAN
      BY <1>0 DEF TypeOK
    <3>3. CASE UNCHANGED connected_
      BY ONLY <3>2, <3>3
    <3>4. ASSUME NEW c \in Calls, connected_' = (connected_ \/ reports'[c] = <<"ok">>)
          PROVE  connected_' \in BOOLEAN /\ (connected_ => connected_')
      <4>1. CASE reports'[c] = <<"ok">>
        BY ONLY <3>4, <4>1
      <4>2. CASE reports'[c] # <<"ok">>
        BY ONLY <3>2, <3>4, <4>2
      <4> QED BY <4>1, <4>2
    <3> QED BY <3>1, <3>3, <3>4
  <2>3. gone' \in BOOLEAN
    BY <1>0, <1>4 DEF Dialing, Receiving, RunResolve, AttemptSucceeds, AttemptFails,
                Tries, ConnectHandler, RunReceive, SocketReceive, SocketReceiveFails,
                ServerCloses, TypeOK, server
  <2>4. strand' \in Seq({"resolve", "receive"})
    <3>1. \/ UNCHANGED strand
          \/ strand # <<>> /\ strand' = Tail(strand)
          \/ strand' = Append(strand, "receive")
      BY <1>4 DEF Dialing, Receiving, RunResolve, AttemptSucceeds, AttemptFails,
                Tries, ConnectHandler, RunReceive, SocketReceive, SocketReceiveFails,
                ServerCloses
    <3>2. strand \in Seq({"resolve", "receive"})
      BY <1>0 DEF TypeOK
    <3> QED BY ONLY <3>1, <3>2
  <2>5. reads' \in [waiting : Nat, failed : Nat]
    <3>1. reads \in [waiting : Nat, failed : Nat]
      BY <1>0 DEF TypeOK
    <3> QED BY <1>4, <3>1, ReadsTyped
  <2>6. TypeOK'
    BY <1>0, <2>1, <2>2, <2>3, <2>4, <2>5 DEF TypeOK, terminal
  <2> QED BY <2>1, <2>2, <2>6, LinesKeptByOthers
<1>5. CASE UNCHANGED vars
  BY <1>0, <1>5, LinesKeptByOthers DEF vars, TypeOK, terminal, server
<1> QED BY <1>1, <1>2, <1>3, <1>4, <1>5 DEF Next

(* No line that the user meant for the server is lost or doubled, and they *)
(* are given to the socket in the order they were typed, however many are  *)
(* typed, whatever commands are between them and whatever the connection   *)
(* does: what application.cpp:140-157 buffers or sends.                    *)
THEOREM NoLineIsLost == Spec => []LinesKept
<1>1. LinesInv => LinesKept
  BY DEF LinesInv, LinesKept, Delivered
<1> QED BY <1>1, LinesInvInit, LinesInvInductive, PTL DEF Spec

-----------------------------------------------------------------------------
(* The client connects as a connector does.                                *)

(* The handler is set from the start, so that no iterator is lost.         *)
DialInv == ConnectorInv /\ OwnerInv /\ connect_handler_ = TRUE

LEMMA DialInvInit == Init => DialInv
BY ConnectorInvInit, OwnerInvInit DEF Init, DialInv

(* With a handler the connector never leaves the path of defined behaviour. *)
LEMMA IteratorsInRange == DialInv => ~undefined
BY DEF DialInv, ConnectorInv, Lost

LEMMA StepIsDialStep == DialInv /\ [Next]_vars => [ConnectorNext]_connectorVars
<1> SUFFICES ASSUME DialInv, [Next]_vars
             PROVE  ConnectorNext \/ UNCHANGED connectorVars
  BY DEF connectorVars
<1>1. ASSUME NEW c \in Calls, Connect(c) \/ Progress(c)
      PROVE  ConnectorNext
  BY <1>1, IteratorsInRange DEF ConnectorNext
<1>2. CASE RunResolve \/ AttemptSucceeds \/ AttemptFails \/ Tries \/ ConnectHandler
  BY <1>1, <1>2 DEF RunResolve, AttemptSucceeds, AttemptFails, Tries, ConnectHandler,
                    Progress
<1>3. CASE StartConnect
  BY <1>1, <1>3 DEF StartConnect
<1>4. CASE Type \/ Execute \/ Receiving \/ ServerCloses \/ UNCHANGED vars
  BY <1>4 DEF Type, Execute, Receiving, RunReceive, SocketReceive,
              SocketReceiveFails, ServerCloses, vars
<1> QED BY <1>2, <1>3, <1>4 DEF Next, Dialing

LEMMA DialInvInductive == DialInv /\ [Next]_vars => DialInv'
<1> SUFFICES ASSUME DialInv, [Next]_vars PROVE DialInv'
  OBVIOUS
<1>1. [ConnectorNext]_connectorVars
  BY StepIsDialStep
<1>2. ConnectorInv' /\ OwnerInv'
  BY <1>1, ConnectorInvInductive, OwnerStep DEF DialInv
<1>3. connect_handler_' = connect_handler_
  BY <1>1 DEF ConnectorNext, Connect, Progress, Resolve,
              ResolveSucceeds, ResolveFails, AttemptEnds,
              NextEndpoint, ConnectSucceeds, ConnectFails,
              AsioConnect, Try, Report, fixed, connectorVars
<1> QED BY <1>2, <1>3 DEF DialInv

(* Whatever the user and the server do, the connector in the client goes   *)
(* through the steps of Connector and no others, so that what is proved    *)
(* above holds of each /connect: application.cpp:205-210 uses it as its    *)
(* interface says, apart from requests that overlap.                       *)
THEOREM ClientIsConnector == Spec => ConnectorSpec
<1>1. Init => ConnectorInit
  BY DEF Init
<1> QED BY <1>1, DialInvInit, DialInvInductive, StepIsDialStep, PTL
        DEF Spec, ConnectorSpec

-----------------------------------------------------------------------------
(* The chains of reads.                                                    *)

Receives(calls) == {k \in DOMAIN calls : calls[k] = "receive"}

Reported == {c \in Calls : reports[c] # <<>>}

StrandCalls == {"resolve", "receive"}

LEMMA ReceivesOfAppend ==
  ASSUME NEW q \in Seq(StrandCalls), NEW p \in StrandCalls
  PROVE  /\ IsFiniteSet(Receives(q)) /\ Cardinality(Receives(q)) \in Nat
         /\ Cardinality(Receives(Append(q, p))) =
              Cardinality(Receives(q)) + (IF p = "receive" THEN 1 ELSE 0)
<1>1. IsFiniteSet(Receives(q))
  <2>1. Receives(q) \in SUBSET (1 .. Len(q)) /\ 1 \in Int /\ Len(q) \in Int
    BY DEF Receives
  <2>2. IsFiniteSet(1 .. Len(q))
    BY ONLY <2>1, FS_Interval
  <2> QED BY ONLY <2>1, <2>2, FS_Subset
<1>2. Len(q) + 1 \notin Receives(q)
  BY DEF Receives
<1>3. CASE p = "receive"
  <2>1. Receives(Append(q, p)) = Receives(q) \union {Len(q) + 1}
    BY <1>3 DEF Receives
  <2> QED BY <1>1, <1>2, <1>3, <2>1, FS_AddElement, FS_CardinalityType
<1>4. CASE p # "receive"
  <2>1. Receives(Append(q, p)) = Receives(q)
    BY <1>4 DEF Receives
  <2> QED BY <1>1, <1>4, <2>1, FS_CardinalityType
<1> QED BY <1>3, <1>4

LEMMA ReceivesOfTail ==
  ASSUME NEW q \in Seq(StrandCalls), q # <<>>
  PROVE  Cardinality(Receives(q)) =
           Cardinality(Receives(Tail(q))) + (IF Head(q) = "receive" THEN 1 ELSE 0)
<1>1. /\ Len(q) \in Nat \ {0} /\ Tail(q) \in Seq(StrandCalls)
      /\ Len(Tail(q)) = Len(q) - 1 /\ Head(q) = q[1]
      /\ \A k \in 1 .. Len(q) - 1 : Tail(q)[k] = q[k + 1]
  BY EmptySeq
<1> DEFINE Later == Receives(q) \ {1}
           f == [k \in Receives(Tail(q)) |-> k + 1]
<1>2. /\ \A k \in Receives(Tail(q)) : k \in 1 .. Len(q) - 1 /\ k + 1 \in Later
      /\ \A k \in Later : k - 1 \in Receives(Tail(q)) /\ (k - 1) + 1 = k
  BY <1>1 DEF Receives
<1>3. f \in Bijection(Receives(Tail(q)), Later)
  <2>1. f \in Injection(Receives(Tail(q)), Later)
    BY <1>2, Fun_IsInj
  <2>2. f \in Surjection(Receives(Tail(q)), Later)
    BY <1>2, Fun_IsSurj
  <2> QED BY <2>1, <2>2 DEF Bijection
<1>4. IsFiniteSet(Receives(Tail(q))) /\ IsFiniteSet(Receives(q))
  BY <1>1, ReceivesOfAppend DEF StrandCalls
<1>5. Cardinality(Later) = Cardinality(Receives(Tail(q)))
  BY <1>3, <1>4, FS_Bijection DEF ExistsBijection
<1>6. 1 \in Receives(q) <=> Head(q) = "receive"
  BY <1>1 DEF Receives
<1>7. /\ Cardinality(Later) = IF 1 \in Receives(q) THEN Cardinality(Receives(q)) - 1
                             ELSE Cardinality(Receives(q))
      /\ Cardinality(Receives(q)) \in Nat
  BY ONLY <1>4, FS_RemoveElement, FS_CardinalityType
<1> HIDE DEF Later
<1> QED BY <1>5, <1>6, <1>7

(* Each call that has reported started one chain, and each chain has one   *)
(* link: a read that is asked for, waits, or failed and is not heard of.   *)
ChainsInv ==
  /\ IsFiniteSet(Reported)
  /\ LiveReads + reads.failed <= Cardinality(Reported)

(* The steps of the connector, by what they tell and what they try. *)
LEMMA HandlerReports ==
  ASSUME DialInv, ConnectHandler
  PROVE  \E c \in Calls, outcome \in Outcomes :
           /\ Report(c, outcome)
           /\ call[c].phase \in {"resolving", "connecting"}
           /\ reports[c] = <<>> /\ reports'[c] = <<outcome>>
           /\ \A d \in Calls \ {c} : reports'[d] = reports[d]
           /\ connected_' = (connected_ \/ reports'[c] = <<"ok">>)
<1>1. PICK c \in Calls :
        /\ ResolveFails(c) \/ ConnectSucceeds(c) \/ ConnectFails(c)
        /\ reports' # reports
        /\ connected_' = (connected_ \/ reports'[c] = <<"ok">>)
  BY DEF ConnectHandler
<1>2. PICK outcome \in Outcomes : Report(c, outcome)
  BY <1>1 DEF ResolveFails, ConnectSucceeds, ConnectFails,
              AsioConnect, Try, Outcomes
<1>3. CallInv(c) /\ call[c] \in CallState
  BY DEF DialInv, ConnectorInv, TypeInv
<1>4. call[c].phase \in {"resolving", "connecting"}
  BY <1>1, <1>3 DEF ResolveFails, ConnectSucceeds, ConnectFails, CallInv
<1>5. reports \in [Calls -> Seq(Outcomes)] /\ reports[c] = <<>>
  <2>1. reports \in [Calls -> Seq(Outcomes)] /\ Len(reports[c]) = 0
    BY <1>3, <1>4 DEF DialInv, ConnectorInv, TypeInv, CallInv
  <2> QED BY <2>1, EmptySeq
<1>6. /\ reports'[c] = <<outcome>>
      /\ \A d \in Calls \ {c} : reports'[d] = reports[d]
  <2>1. reports' = [reports EXCEPT ![c] = Append(@, outcome)]
    BY <1>2 DEF Report
  <2> QED BY <1>5, <2>1
<1> QED BY <1>1, <1>2, <1>4, <1>5, <1>6

LEMMA TriesTry ==
  ASSUME DialInv, Tries
  PROVE  \E c \in Calls, first, at \in Nat :
           /\ Try(c, first, at)
           /\ call[c].phase \in {"resolving", "connecting"}
<1>1. PICK c \in Calls :
        /\ ResolveSucceeds(c) \/ NextEndpoint(c) \/ ConnectFails(c)
        /\ tries' # tries
  BY DEF Tries
<1>2. CallInv(c) /\ call[c] \in CallState
  BY DEF DialInv, ConnectorInv, TypeInv
<1>3. call[c].phase \in {"resolving", "connecting"}
  BY <1>1, <1>2 DEF ResolveSucceeds, NextEndpoint, ConnectFails, CallInv
<1>4. call[c].first \in Nat /\ call[c].at \in Nat
  BY <1>2, ConnectorAssumption DEF CallState
<1>5. \E first, at \in Nat : Try(c, first, at)
  <2>1. CASE ResolveSucceeds(c)
    BY <1>1, <2>1, ConnectorAssumption DEF ResolveSucceeds, AsioConnect
  <2>2. CASE NextEndpoint(c)
    BY <1>4, <2>2 DEF NextEndpoint
  <2>3. CASE ConnectFails(c)
    <3>1. AsioConnect(c, call[c].first + 1) /\ call[c].first + 1 \in Nat
      BY <1>1, <1>4, <2>3 DEF ConnectFails, Report
    <3> QED BY <1>1, <3>1 DEF AsioConnect
  <2> QED BY <1>1, <2>1, <2>2, <2>3
<1> QED BY <1>3, <1>5

(* Nothing else is told. *)
LEMMA OthersTellNothing ==
  ASSUME DialInv, [Next]_vars, ~ConnectHandler
  PROVE  reports' = reports
<1>1. CASE Tries
  BY <1>1, TriesTry DEF Try
<1>2. CASE AttemptSucceeds \/ AttemptFails \/ RunResolve \/ StartConnect
  BY <1>2 DEF AttemptSucceeds, AttemptFails, RunResolve, StartConnect,
              AttemptEnds, Resolve, Connect, connectorVars
<1>3. CASE Type \/ Execute \/ Receiving \/ ServerCloses \/ UNCHANGED vars
  BY <1>3 DEF Type, Execute, Receiving, RunReceive, SocketReceive,
              SocketReceiveFails, ServerCloses, vars, connectorVars
<1> QED BY <1>1, <1>2, <1>3 DEF Next, Dialing

LEMMA ChainsInvInit == Init => ChainsInv
<1> SUFFICES ASSUME Init PROVE ChainsInv
  OBVIOUS
<1>1. Reported = {}
  BY DEF Init, ConnectorInit, Reported
<1>2. {k \in DOMAIN strand : strand[k] = "receive"} = {}
  BY DEF Init
<1>3. LiveReads = 0 /\ reads.failed = 0
  BY <1>2, FS_EmptySet DEF Init, NoReads, LiveReads
<1> QED BY <1>1, <1>3, FS_EmptySet DEF ChainsInv

(* The chains, as numbers: what a step does to them. *)
LEMMA ChainsInvInductive == LinesInv /\ DialInv /\ ChainsInv /\ [Next]_vars => ChainsInv'
<1> SUFFICES ASSUME LinesInv, DialInv, ChainsInv, [Next]_vars PROVE ChainsInv'
  OBVIOUS
<1> DEFINE asked == Cardinality(Receives(strand))
           chains == Cardinality(Reported)
<1>1. /\ strand \in Seq(StrandCalls)
      /\ reads \in [waiting : Nat, failed : Nat]
  BY DEF LinesInv, TypeOK, StrandCalls
<1>2. reads.waiting \in Nat /\ reads.failed \in Nat /\ asked \in Nat
  BY <1>1, ReceivesOfAppend DEF StrandCalls
<1>3. /\ LiveReads = reads.waiting + asked
      /\ LiveReads' = reads'.waiting + Cardinality(Receives(strand'))
  BY DEF LiveReads, Receives
<1>4. /\ IsFiniteSet(Reported) /\ chains \in Nat
      /\ reads.waiting + asked + reads.failed <= chains
  BY <1>3, FS_CardinalityType DEF ChainsInv
<1>5. CASE ConnectHandler
  <2>1. PICK c \in Calls, outcome \in Outcomes :
          /\ reports[c] = <<>> /\ reports'[c] = <<outcome>>
          /\ \A d \in Calls \ {c} : reports'[d] = reports[d]
    BY <1>5, HandlerReports
  <2>2. c \notin Reported /\ Reported' = Reported \union {c}
    BY <2>1 DEF Reported
  <2>3. IsFiniteSet(Reported') /\ Cardinality(Reported') = chains + 1
    BY <1>4, <2>2, FS_AddElement
  <2>4. strand' = Append(strand, "receive") /\ reads' = reads
    BY <1>5 DEF ConnectHandler
  <2>5. Cardinality(Receives(strand')) = asked + 1
    BY <1>1, <2>4, ReceivesOfAppend DEF StrandCalls
  <2> HIDE DEF asked, chains
  <2> QED BY <1>2, <1>3, <1>4, <2>3, <2>4, <2>5 DEF ChainsInv
<1>6. ASSUME ~ConnectHandler, reads'.waiting \in Nat, reads'.failed \in Nat,
             Cardinality(Receives(strand')) \in Nat,
             reads'.waiting + Cardinality(Receives(strand')) + reads'.failed
               <= reads.waiting + asked + reads.failed
      PROVE  ChainsInv'
  <2>1. Reported' = Reported
    BY <1>6, OthersTellNothing DEF Reported
  <2> HIDE DEF asked
  <2> QED BY <1>2, <1>3, <1>4, <1>6, <2>1 DEF ChainsInv
<1>7. CASE /\ ~ConnectHandler
           /\ UNCHANGED reads
           /\ strand' = strand \/ strand' = Append(strand, "resolve")
  <2>1. Cardinality(Receives(strand')) = asked
    <3>1. CASE strand' = Append(strand, "resolve")
      <4>1. "resolve" \in StrandCalls
        BY DEF StrandCalls
      <4>2. Cardinality(Receives(Append(strand, "resolve"))) = asked + 0
        BY <1>1, <4>1, ReceivesOfAppend
      <4> QED BY <1>2, <3>1, <4>2
    <3>2. CASE strand' = strand
      BY <3>2
    <3> QED BY <1>7, <3>1, <3>2
  <2> HIDE DEF asked
  <2> QED BY <1>1, <1>2, <1>6, <1>7, <2>1, ReadsMove DEF ReadsAre
<1>8. CASE ~ConnectHandler /\ AbortReads /\ UNCHANGED strand
  <2> HIDE DEF asked
  <2>1. Cardinality(Receives(strand')) = asked
    BY <1>8 DEF asked
  <2>2. ReadsAre(0, reads.failed + reads.waiting) /\ reads.failed + reads.waiting \in Nat
    BY <1>1, <1>2, <1>8, ReadsMove
  <2> QED BY <1>2, <1>6, <1>8, <2>1, <2>2 DEF ReadsAre
<1>9. CASE RunReceive \/ RunResolve
  <2>1. /\ strand # <<>> /\ strand' = Tail(strand) /\ ~ConnectHandler
        /\ RunReceive => Head(strand) = "receive"
        /\ RunResolve => Head(strand) = "resolve" /\ UNCHANGED reads
    <3>1. RunReceive \/ RunResolve => ~ConnectHandler
      <4>1. RunReceive => UNCHANGED connectorVars
        BY DEF RunReceive
      <4>2. RunResolve => UNCHANGED reports
        BY DEF RunResolve, Resolve
      <4>3. ConnectHandler => reports' # reports
        BY DEF ConnectHandler
      <4> QED BY <4>1, <4>2, <4>3 DEF connectorVars
    <3> QED BY <1>9, <3>1 DEF RunReceive, RunResolve
  <2>2. Cardinality(Receives(strand')) \in Nat
    <3>1. Tail(strand) \in Seq(StrandCalls)
      BY <1>1, <2>1
    <3> QED BY <2>1, <3>1, ReceivesOfAppend DEF StrandCalls
  <2>3. asked = Cardinality(Receives(strand')) +
                (IF Head(strand) = "receive" THEN 1 ELSE 0)
    BY <1>1, <2>1, ReceivesOfTail
  <2> HIDE DEF asked
  <2>4. CASE RunReceive
    <3>1. \/ ReadsAre(reads.waiting + 1, reads.failed)
          \/ ReadsAre(reads.waiting, reads.failed + 1)
      BY <1>1, <2>4, ReadsMove
    <3>2. reads.waiting + 1 \in Nat /\ reads.failed + 1 \in Nat
      BY <1>2
    <3>3. asked = Cardinality(Receives(strand')) + 1
      BY <2>1, <2>3, <2>4
    <3>4. /\ reads'.waiting \in Nat /\ reads'.failed \in Nat
          /\ reads'.waiting + reads'.failed = reads.waiting + reads.failed + 1
      BY <1>2, <3>1, <3>2 DEF ReadsAre
    <3> QED BY <1>2, <1>6, <2>1, <2>2, <3>3, <3>4
  <2>5. CASE RunResolve
    <3>1. ReadsAre(reads.waiting, reads.failed)
      BY <1>1, <2>1, <2>5, ReadsMove
    <3>2. asked = Cardinality(Receives(strand'))
      BY <2>1, <2>2, <2>3, <2>5
    <3> QED BY <1>2, <1>6, <2>1, <2>2, <3>1, <3>2 DEF ReadsAre
  <2> QED BY <1>9, <2>4, <2>5
<1>10. CASE SocketReceive
  <2>1. /\ strand' = Append(strand, "receive") /\ ~ConnectHandler
        /\ reads.waiting > 0 /\ ReadsAre(reads.waiting - 1, reads.failed)
    BY <1>1, <1>10, ReadsMove DEF SocketReceive, ConnectHandler, connectorVars
  <2>2. Cardinality(Receives(strand')) = asked + 1
    BY <1>1, <2>1, ReceivesOfAppend DEF StrandCalls
  <2> HIDE DEF asked
  <2>3. reads.waiting - 1 \in Nat /\ asked + 1 \in Nat
    BY <1>2, <2>1
  <2>4. (reads.waiting - 1) + (asked + 1) + reads.failed
          = reads.waiting + asked + reads.failed
    BY <1>2
  <2> QED BY <1>2, <1>6, <2>1, <2>2, <2>3, <2>4 DEF ReadsAre
<1>11. CASE SocketReceiveFails
  <2>1. /\ UNCHANGED strand /\ ~ConnectHandler
        /\ reads.failed > 0 /\ ReadsAre(reads.waiting, reads.failed - 1)
    BY <1>1, <1>11, ReadsMove DEF SocketReceiveFails, ConnectHandler, connectorVars
  <2> HIDE DEF asked
  <2>2. Cardinality(Receives(strand')) = asked
    BY <2>1 DEF asked
  <2> QED BY <1>2, <1>6, <2>1, <2>2 DEF ReadsAre
<1>12. CASE ~ConnectHandler /\ (Type \/ Execute \/ StartConnect \/ AttemptSucceeds
                                \/ UNCHANGED vars)
  BY <1>7, <1>12 DEF Type, Execute, StartConnect, AttemptSucceeds, vars
<1>13. CASE ~ConnectHandler /\ (AttemptFails \/ Tries \/ ServerCloses)
  BY <1>8, <1>13 DEF AttemptFails, Tries, ServerCloses
<1> QED BY <1>5, <1>9, <1>10, <1>11, <1>12, <1>13 DEF Next, Dialing, Receiving

-----------------------------------------------------------------------------
(* Requests that do not overlap.                                           *)

(* As long as a request is made after the last one ended, there is one     *)
(* link at most, and where it is follows from how far the request got: the *)
(* strand runs the read that the last one asked for before it resolves.    *)
(* Who is connected asks for no other connection, and hears the server.    *)
CallsOf(c) ==
  IF call[c].phase = "posted" THEN {<<"resolve">>, <<"receive", "resolve">>} ELSE {<<>>}

Heeded ==
  /\ connected_ => socket = "connected" /\ \A c \in Calls : ~Active(c)
  /\ connected_ /\ ~gone => reads.waiting > 0 \/ strand = <<"receive">>
  /\ reads.waiting > 0 =>
       reads.waiting = 1 /\ strand = <<>> /\ socket = "connected"
  /\ \A c \in Calls : Active(c) => reads.waiting = 0 /\ strand \in CallsOf(c)
  /\ (\A c \in Calls : ~Active(c)) => strand \in {<<>>, <<"receive">>}

AloneInv == ~overlapped => Heeded

LEMMA AloneInvInit == Init => AloneInv
BY DEF Init, ConnectorInit, Idle, Active, NoReads, AloneInv, Heeded

(* A step that leaves the active call where it is. *)
LEMMA HeededKept ==
  ASSUME Heeded, UNCHANGED <<strand, reads, connected_, gone, socket, call>>
  PROVE  Heeded'
BY DEF Heeded, CallsOf, Active

(* The phases after a step of the active call. *)
LEMMA PhasesAfter ==
  ASSUME DialInv, NEW c \in Calls
  PROVE  /\ call[c] \in CallState
         /\ Connect(c) => /\ call'[c].phase = "posted"
                               /\ \A d \in Calls \ {c} : call'[d] = call[d]
         /\ Resolve(c) => /\ call[c].phase = "posted"
                               /\ call'[c].phase = "resolving"
                               /\ \A d \in Calls \ {c} : call'[d] = call[d]
         /\ AttemptEnds(c) => /\ call[c].phase = "connecting"
                                   /\ \A d \in Calls : call'[d].phase = call[d].phase
         /\ \A outcome : Report(c, outcome) =>
              /\ call'[c].phase = "done"
              /\ \A d \in Calls \ {c} : call'[d] = call[d]
         /\ \A first, at : Try(c, first, at) =>
              /\ call'[c].phase = "connecting"
              /\ \A d \in Calls \ {c} : call'[d].phase = call[d].phase
<1>1. call \in [Calls -> CallState] /\ \A d \in Calls : call[d] \in CallState
  BY DEF DialInv, ConnectorInv, TypeInv
<1>2. Connect(c) => /\ call'[c].phase = "posted"
                         /\ \A d \in Calls \ {c} : call'[d] = call[d]
  BY <1>1 DEF Connect, CallState
<1>3. Resolve(c) => /\ call[c].phase = "posted"
                         /\ call'[c].phase = "resolving"
                         /\ \A d \in Calls \ {c} : call'[d] = call[d]
  BY <1>1 DEF Resolve, CallState
<1>4. AttemptEnds(c) => /\ call[c].phase = "connecting"
                             /\ \A d \in Calls : call'[d].phase = call[d].phase
  BY <1>1 DEF AttemptEnds, CallState
<1>5. ASSUME NEW outcome, Report(c, outcome)
      PROVE  /\ call'[c].phase = "done"
             /\ \A d \in Calls \ {c} : call'[d] = call[d]
  BY <1>1, <1>5 DEF Report, CallState
<1>6. ASSUME NEW first, NEW at, Try(c, first, at)
      PROVE  /\ call'[c].phase = "connecting"
             /\ \A d \in Calls \ {c} : call'[d].phase = call[d].phase
  BY <1>1, <1>6 DEF Try, CallState
<1> QED BY <1>1, <1>2, <1>3, <1>4, <1>5, <1>6

LEMMA AloneInvInductive ==
  LinesInv /\ DialInv /\ AloneInv /\ [Next]_vars => AloneInv'
<1> SUFFICES ASSUME LinesInv, DialInv, AloneInv, [Next]_vars, ~overlapped'
             PROVE  Heeded'
  BY DEF AloneInv
<1>1. [ConnectorNext]_connectorVars
  BY StepIsDialStep
<1>2. ~overlapped
  BY <1>1 DEF ConnectorNext, Connect, Progress, Resolve,
              ResolveSucceeds, ResolveFails, AttemptEnds,
              NextEndpoint, ConnectSucceeds, ConnectFails,
              AsioConnect, Try, Report, fixed, connectorVars
<1>3. Heeded /\ OneActive /\ \A c \in Calls : Active(c) => SocketOf(c)
  BY <1>2 DEF AloneInv, DialInv, OwnerInv
<1>4. TrueStep
  BY <1>1, OwnerStep DEF DialInv
<1>5. /\ reads \in [waiting : Nat, failed : Nat]
      /\ reads.waiting \in Nat /\ reads.failed \in Nat
  BY ReadsMove DEF LinesInv, TypeOK
<1>6. CASE Type \/ Execute \/ UNCHANGED vars
  <2>1. UNCHANGED <<strand, reads, connected_, gone, socket, call>>
    BY <1>6 DEF Type, Execute, vars, server, connectorVars
  <2> QED BY <1>3, <2>1, HeededKept
<1>7. CASE StartConnect
  <2>1. CASE UNCHANGED <<connectorVars, strand>>
    <3>1. UNCHANGED <<strand, reads, connected_, gone, socket, call>>
      BY <1>7, <2>1 DEF StartConnect, server, connectorVars
    <3> QED BY <1>3, <3>1, HeededKept
  <2>2. CASE /\ ~connected_ /\ \E c \in Calls : Connect(c)
             /\ strand' = Append(strand, "resolve")
    <3>1. PICK c \in Calls : Connect(c)
      BY <2>2
    <3>2. /\ socket # "connected" /\ (\A d \in Calls : ~Active(d))
          /\ UNCHANGED socket
      BY <3>1 DEF Connect
    <3>3. UNCHANGED <<reads, connected_>>
      BY <1>7 DEF StartConnect
    <3>4. ~connected_ /\ reads.waiting = 0
      BY <1>3, <1>5, <3>2 DEF Heeded
    <3>5. strand' \in {<<"resolve">>, <<"receive", "resolve">>}
      <4>1. strand = <<>> \/ strand = <<"receive">>
        BY <1>3, <3>2 DEF Heeded
      <4>2. CASE strand = <<>>
        BY <2>2, <4>2
      <4>3. CASE strand = <<"receive">>
        <5>1. /\ <<"receive">> \in Seq({"receive", "resolve"})
              /\ <<"receive", "resolve">> = <<"receive">> \o <<"resolve">>
          OBVIOUS
        <5>2. Append(<<"receive">>, "resolve") = <<"receive">> \o <<"resolve">>
          BY <5>1, AppendIsConcat
        <5> QED BY <2>2, <4>3, <5>1, <5>2
      <4> QED BY <4>1, <4>2, <4>3
    <3>6. /\ call'[c].phase = "posted"
          /\ \A d \in Calls \ {c} : call'[d] = call[d]
      BY <3>1, PhasesAfter
    <3>7. Active(c)' /\ \A d \in Calls : Active(d)' => d = c
      BY <3>2, <3>6 DEF Active
    <3> QED BY <3>3, <3>4, <3>5, <3>6, <3>7 DEF Heeded, CallsOf
  <2> QED BY <1>7, <2>1, <2>2 DEF StartConnect
<1>8. CASE RunResolve
  <2>1. PICK c \in Calls : Resolve(c)
    BY <1>8 DEF RunResolve
  <2>2. /\ strand # <<>> /\ Head(strand) = "resolve" /\ strand' = Tail(strand)
        /\ UNCHANGED <<reads, connected_>>
    BY <1>8 DEF RunResolve
  <2>3. /\ call[c].phase = "posted" /\ call'[c].phase = "resolving"
        /\ \A d \in Calls \ {c} : call'[d] = call[d]
        /\ UNCHANGED socket
    BY <2>1, PhasesAfter DEF Resolve
  <2>4. reads.waiting = 0 /\ strand = <<"resolve">>
    BY <1>3, <2>2, <2>3 DEF Heeded, CallsOf, Active
  <2>5. strand' = <<>>
    BY <2>2, <2>4
  <2>6. Active(c)' /\ \A d \in Calls : Active(d)' => d = c
    BY <1>3, <2>3 DEF OneActive, Active
  <2> QED BY <1>3, <2>2, <2>3, <2>4, <2>5, <2>6 DEF Heeded, CallsOf
<1>9. CASE AttemptSucceeds \/ AttemptFails
  <2>1. PICK c \in Calls : AttemptEnds(c)
    BY <1>9 DEF AttemptSucceeds, AttemptFails
  <2>2. /\ call[c].phase = "connecting"
        /\ \A d \in Calls : call'[d].phase = call[d].phase
    BY <2>1, PhasesAfter
  <2>3. /\ UNCHANGED <<strand, connected_>>
        /\ reads' = reads \/ AbortReads
    BY <1>9 DEF AttemptSucceeds, AttemptFails
  <2>4. reads.waiting = 0
    BY <1>3, <2>2 DEF Heeded, Active
  <2>5. reads'.waiting = 0
    BY <1>5, <2>3, <2>4, ReadsMove DEF ReadsAre
  <2>6. ~connected_'
    BY <1>3, <2>2, <2>3 DEF Heeded, Active
  <2> QED BY <1>3, <2>2, <2>3, <2>5, <2>6 DEF Heeded, CallsOf, Active
<1>10. CASE Tries
  <2>1. PICK c \in Calls, first, at \in Nat :
          Try(c, first, at) /\ call[c].phase \in {"resolving", "connecting"}
    BY <1>10, TriesTry
  <2>2. /\ call'[c].phase = "connecting"
        /\ \A d \in Calls \ {c} : call'[d].phase = call[d].phase
    BY <2>1, PhasesAfter
  <2>3. /\ UNCHANGED <<strand, connected_>> /\ AbortReads
    BY <1>10 DEF Tries
  <2>4. reads'.waiting = 0
    BY <1>5, <2>3, ReadsMove DEF ReadsAre
  <2>5. strand = <<>> /\ \A d \in Calls : Active(d) => d = c
    BY <1>3, <2>1 DEF Heeded, CallsOf, OneActive, Active
  <2>6. Active(c)' /\ \A d \in Calls : Active(d)' => d = c
    BY <2>2, <2>5 DEF Active
  <2>7. ~connected_'
    BY <1>3, <2>1, <2>3 DEF Heeded, Active
  <2> QED BY <2>2, <2>3, <2>4, <2>5, <2>6, <2>7 DEF Heeded, CallsOf
<1>11. CASE ConnectHandler
  <2>1. PICK c \in Calls, outcome \in Outcomes :
          /\ Report(c, outcome)
          /\ call[c].phase \in {"resolving", "connecting"}
          /\ reports[c] = <<>> /\ reports'[c] = <<outcome>>
          /\ connected_' = (connected_ \/ reports'[c] = <<"ok">>)
    BY <1>11, HandlerReports
  <2>2. /\ call'[c].phase = "done" /\ \A d \in Calls \ {c} : call'[d] = call[d]
    BY <2>1, PhasesAfter
  <2>3. strand' = Append(strand, "receive") /\ UNCHANGED reads
    BY <1>11 DEF ConnectHandler
  <2>4. /\ strand = <<>> /\ reads.waiting = 0
        /\ \A d \in Calls : Active(d) => d = c
    BY <1>3, <2>1 DEF Heeded, CallsOf, OneActive, Active
  <2>5. strand' = <<"receive">> /\ reads'.waiting = 0
    BY <2>3, <2>4
  <2>6. \A d \in Calls : ~Active(d)'
    BY <2>2, <2>4 DEF Active
  <2>7. connected_' => socket' = "connected"
    <3>1. ~connected_
      BY <1>3, <2>1 DEF Heeded, Active
    <3>2. connected_' => reports'[c] = <<"ok">>
      BY <2>1, <3>1
    <3>3. connected_' => reports'[c] # reports[c] /\ Head(reports'[c]) = "ok"
      BY <2>1, <3>2
    <3> QED BY <1>4, <3>3 DEF TrueStep, Truthful
  <2> QED BY <2>5, <2>6, <2>7 DEF Heeded
<1>12. CASE RunReceive
  <2>1. /\ strand # <<>> /\ Head(strand) = "receive" /\ strand' = Tail(strand)
        /\ UNCHANGED <<connected_, gone, socket, call>>
    BY <1>12 DEF RunReceive, server, connectorVars
  <2>2. \A d \in Calls : Active(d)' <=> Active(d)
    BY <2>1 DEF Active
  <2>3. reads.waiting = 0
    BY <1>3, <1>5, <2>1 DEF Heeded
  <2>4. \/ CanWait /\ ReadsAre(1, reads.failed)
        \/ ~CanWait /\ ReadsAre(0, reads.failed + 1)
    BY <1>5, <1>12, <2>3, ReadsMove
  <2>5. CASE \E c \in Calls : Active(c)
    <3>1. PICK c \in Calls : Active(c)
      BY <2>5
    <3>2. /\ call[c].phase = "posted" /\ strand = <<"receive", "resolve">>
          /\ call[c].result = "none"
      <4>1. call[c].phase = "posted" /\ strand = <<"receive", "resolve">>
        BY <1>3, <2>1, <3>1 DEF Heeded, CallsOf
      <4> QED BY <4>1 DEF DialInv, ConnectorInv, CallInv
    <3>3. strand' = <<"resolve">>
      BY <2>1, <3>2
    <3>4. \A d \in Calls : Active(d) => d = c
      BY <1>3, <3>1 DEF OneActive
    <3>5. ~CanWait
      <4>1. socket # "connected"
        BY <1>3, <3>1, <3>2 DEF SocketOf
      <4>2. \A d \in Calls : call[d].phase # "connecting"
        BY <3>2, <3>4 DEF Active
      <4> QED BY <4>1, <4>2 DEF CanWait, Alive
    <3>6. reads'.waiting = 0
      BY <2>4, <3>5 DEF ReadsAre
    <3> QED BY <1>3, <2>1, <2>2, <3>1, <3>2, <3>3, <3>4, <3>6 DEF Heeded, CallsOf
  <2>6. CASE \A c \in Calls : ~Active(c)
    <3>1. strand = <<"receive">>
      BY <1>3, <2>1, <2>6 DEF Heeded
    <3>2. strand' = <<>>
      BY <2>1, <3>1
    <3>3. CanWait <=> Alive
      BY <2>6 DEF CanWait, Active
    <3>4. /\ reads'.waiting \in {0, 1}
          /\ reads'.waiting = 1 <=> Alive
      BY <2>4, <3>3 DEF ReadsAre
    <3>5. \A c \in Calls : ~Active(c)'
      BY <2>2, <2>6
    <3>6. connected_' => socket' = "connected"
      BY <1>3, <2>1 DEF Heeded
    <3>7. /\ connected_' /\ ~gone' => reads'.waiting = 1
          /\ reads'.waiting = 1 => socket' = "connected"
      BY <2>1, <3>4, <3>6 DEF Alive
    <3>8. reads'.waiting > 0 <=> reads'.waiting = 1
      BY <3>4
    <3> QED BY <3>2, <3>5, <3>6, <3>7, <3>8 DEF Heeded
  <2> QED BY <2>5, <2>6
<1>13. CASE SocketReceive
  <2>1. /\ reads.waiting > 0 /\ ReadsAre(reads.waiting - 1, reads.failed)
        /\ strand' = Append(strand, "receive")
        /\ UNCHANGED <<connected_, socket, call>>
    BY <1>5, <1>13, ReadsMove DEF SocketReceive, connectorVars
  <2>2. reads.waiting = 1 /\ strand = <<>> /\ \A c \in Calls : ~Active(c)
    BY <1>3, <1>5, <2>1 DEF Heeded
  <2>3. strand' = <<"receive">> /\ reads'.waiting = 0
    BY <2>1, <2>2 DEF ReadsAre
  <2>4. \A c \in Calls : ~Active(c)'
    BY <2>1, <2>2 DEF Active
  <2>5. connected_' => socket' = "connected"
    BY <1>3, <2>1 DEF Heeded
  <2>6. strand' \in {<<>>, <<"receive">>} /\ ~(reads'.waiting > 0)
    BY <2>3
  <2> QED BY <2>3, <2>4, <2>5, <2>6 DEF Heeded
<1>14. CASE SocketReceiveFails \/ ServerCloses
  <2>1. UNCHANGED <<connected_, strand, socket, call>>
    BY <1>14 DEF SocketReceiveFails, ServerCloses, connectorVars
  <2>2. \/ reads'.waiting = reads.waiting /\ gone' = gone
        \/ reads'.waiting = 0 /\ gone'
    BY <1>5, <1>14, ReadsMove DEF SocketReceiveFails, ServerCloses, ReadsAre, server
  <2> QED BY <1>3, <2>1, <2>2 DEF Heeded, CallsOf, Active
<1> QED BY <1>6, <1>7, <1>8, <1>9, <1>10, <1>11, <1>12, <1>13, <1>14
        DEF Next, Dialing, Receiving

ClientInv == LinesInv /\ DialInv /\ ChainsInv /\ AloneInv

LEMMA ClientInvHolds == Spec => []ClientInv
<1>1. Init => ClientInv
  BY LinesInvInit, DialInvInit, ChainsInvInit, AloneInvInit DEF ClientInv
<1>2. ClientInv /\ [Next]_vars => ClientInv'
  BY LinesInvInductive, DialInvInductive, ChainsInvInductive, AloneInvInductive
     DEF ClientInv
<1> QED BY <1>1, <1>2, PTL DEF Spec

(* Without overlapping requests one link at most is there, and one for a   *)
(* client that is connected.                                               *)
LEMMA OneLink ==
  ASSUME LinesInv, Heeded
  PROVE  LiveReads <= 1 /\ (connected_ /\ ~gone => Alive /\ LiveReads = 1)
<1>1. reads.waiting \in Nat /\ LiveReads = reads.waiting + Cardinality(Receives(strand))
  BY DEF LinesInv, TypeOK, LiveReads, Receives
<1>2. /\ Receives(<<>>) = {} /\ Receives(<<"resolve">>) = {}
      /\ Receives(<<"receive">>) = {1} /\ Receives(<<"receive", "resolve">>) = {1}
  BY DEF Receives
<1>3. CASE reads.waiting > 0
  <2>1. reads.waiting = 1 /\ strand = <<>> /\ socket = "connected"
    BY <1>3 DEF Heeded
  <2>2. Cardinality(Receives(strand)) = 0
    BY <1>2, <2>1, FS_EmptySet
  <2>3. LiveReads = 1
    BY <1>1, <2>1, <2>2
  <2> QED BY <2>1, <2>3 DEF Alive
<1>4. CASE reads.waiting = 0
  <2>1. Receives(strand) \in {{}, {1}}
    BY <1>2 DEF Heeded, CallsOf
  <2>2. Cardinality(Receives(strand)) \in {0, 1}
    BY <2>1, FS_EmptySet, FS_Singleton
  <2>3. connected_ /\ ~gone => Alive /\ Cardinality(Receives(strand)) = 1
    <3>1. connected_ /\ ~gone => Alive /\ Receives(strand) = {1}
      BY <1>2, <1>4 DEF Heeded, Alive
    <3> QED BY <3>1, FS_Singleton
  <2> QED BY <1>1, <1>4, <2>2, <2>3
<1> QED BY <1>1, <1>3, <1>4

(* However requests, messages and losses overlap, a call of connect()      *)
(* starts one chain of reads (application.cpp:229, receiver.cpp:217). And  *)
(* as long as no request is made before the last one has ended, one read   *)
(* at a time could get a message of the server, and a client that takes    *)
(* itself for connected has a connection with such a read, unless the      *)
(* server has closed it: that it does not notice.                          *)
THEOREM OnlyOverlappingHarms == Spec => []OnlyOverlapHarms
<1>1. ClientInv => OnlyOverlapHarms
  BY OneLink DEF ClientInv, ChainsInv, AloneInv, Reported, OnlyOverlapHarms
<1> QED BY <1>1, ClientInvHolds, PTL

=============================================================================
