------------------------------ MODULE WM_proofs ------------------------------
(***************************************************************************)
(* The wireless manager for any children, any number of command buffers    *)
(* and any bounds: commands are answered once and in their order, buffers  *)
(* are not reused early, and MP's flag is up only in the states of MP.     *)
(***************************************************************************)
EXTENDS WM, SequenceTheorems, FiniteSetTheorems, TLAPS

Everybody == Aids \cup {0}
Internals == {"AUTO_DEAUTH", "AUTO_DISCONNECT"}
MpStates == {"MP_PARENT", "MP_CHILD"}

Kinds == {"answer", "started", "connected", "disconnected", "late"}
Results == {"SUCCESS", "FAILED", "INVALID_PARAM", "ILLEGAL_STATE"}
Callbacks == [api : Apis \cup Internals \cup {"none"}, kind : Kinds,
              result : Results, aid : Everybody]

\* The stages at which MP has been stopped, whatever it was before.
Stopped == {"starting", "reset", "idle", "leave", "connecting", "associated",
            "captured", "station"}
\* The stages at which the command served has not been answered.
OpenStages == {"start", "children", "deauth"} \cup Stopped

Statuses == [state : States, children : SUBSET Everybody, mp : BOOLEAN, entry : BOOLEAN]
QueuedRequests == [api : Apis \cup Internals, aids : SUBSET Everybody, entry : BOOLEAN,
                   buf : 0 .. NumBufs]
RequestRecords == [api : Apis \cup Internals \cup {"none"}, aids : SUBSET Everybody,
                   entry : BOOLEAN, buf : 0 .. NumBufs,
                   stage : OpenStages \cup {"rest", "done", "mpstarted"},
                   calls : Seq(Callbacks), masked : BOOLEAN]

Typed ==
    /\ TypeOK
    /\ status \in Statuses
    /\ requestQ \in Seq(QueuedRequests) /\ request \in RequestRecords
    /\ indicate \in Seq(Callbacks) /\ fifo7to9 \in Callbacks
    /\ word \in BOOLEAN /\ callbackFlag \in BOOLEAN
    /\ outstanding \in Seq(Apis)

\* The internal requests are those without a buffer.
Numbered ==
    /\ \A i \in DOMAIN requestQ : requestQ[i].buf # 0 <=> requestQ[i].api \in Apis
    /\ request.buf # 0 <=> request.api \in Apis

\* No two requests use the same buffer.
OneEach ==
    /\ \A i, j \in DOMAIN requestQ :
           i # j => requestQ[i].buf # requestQ[j].buf \/ requestQ[i].buf = 0
    /\ \A i \in DOMAIN requestQ : requestQ[i].buf # request.buf \/ requestQ[i].buf = 0

NoFinal(calls) == \A i \in DOMAIN calls : ~IsFinal(calls[i])

\* The answer is the last of the callbacks a request sends, and the handler's
\* last act but one.
AnswerLast(r) ==
    /\ r.stage = "rest" => r.calls = <<>> /\ r.buf = 0
    /\ \A i \in DOMAIN r.calls :
           IsFinal(r.calls[i]) => /\ i = Len(r.calls) /\ r.calls[i].api = r.api
                                  /\ r.stage \in {"done", "mpstarted"}

\* Where the handlers and MP's flag are.
MpStopped(s, r) ==
    /\ s.mp => s.state \in MpStates
    /\ r.stage \in Stopped => ~s.mp
    /\ r.stage \in {"children", "deauth"} =>
           /\ r.api \in {"END_PARENT", "DISCONNECT", "AUTO_DISCONNECT"}
           /\ r.api = "END_PARENT" => ~s.mp
    /\ r.stage \in {"connecting", "associated"} => r.api = "START_CONNECT"
    /\ r.stage = "mpstarted" => r.masked /\ s.state \in MpStates /\ r.api = "START_MP"
    /\ \A i \in DOMAIN r.calls : r.calls[i] = Answer("START_PARENT", "SUCCESS") => ~s.mp

OneBuffer ==
    /\ word => callbackFlag
    /\ NoFinal(indicate)

InOrder ==
    \E cs \in Seq(Apis) :
        /\ outstanding = (InFlight \o Unanswered) \o cs
        /\ AreCommandsOf(cs, requestQ)

Inv ==
    /\ Typed /\ Numbered /\ OneEach /\ BuffersInUse
    /\ AnswerLast(request) /\ MpStopped(status, request) /\ OneBuffer /\ InOrder

USE WMAssumption

(***************************************************************************)
(* Sequences of commands.                                                  *)
(***************************************************************************)
\* A callback that says whether its command is over.
LEMMA FinalAnswers ==
    ASSUME NEW api, NEW result, NEW aid
    PROVE  /\ IsFinal(Answer(api, result))
           /\ ~IsFinal(Gone(aid))
           /\ ~IsFinal(Cb("START_CONNECT", "started", result, 0))
           /\ ~IsFinal(Cb("START_MP", "late", result, 0))
           /\ IsFinal(Cb("START_CONNECT", "connected", result, 0))
           /\ aid # 0 => ~IsFinal(Cb("START_PARENT", "connected", result, aid))
BY DEF IsFinal, Answer, Gone, Cb

\* What a function makes of its domain.
LEMMA ImageIs ==
    ASSUME NEW D, NEW T, NEW f,
           \A i \in D : f[i] \in T, \A j \in T : \E i \in D : f[i] = j
    PROVE  {f[i] : i \in D} = T
OBVIOUS

\* A command that is queued comes behind those that are.
LEMMA QueueCommand ==
    ASSUME NEW q \in Seq(QueuedRequests), NEW cs \in Seq(Apis), AreCommandsOf(cs, q),
           NEW r \in QueuedRequests, NEW api \in Apis, r.api = api, r.buf # 0
    PROVE  AreCommandsOf(Append(cs, api), Append(q, r))
<1> DEFINE m == Len(cs)
           n == Len(q)
<1>1. /\ m \in Nat /\ n \in Nat /\ DOMAIN cs = 1 .. m /\ DOMAIN q = 1 .. n
      /\ DOMAIN Append(cs, api) = 1 .. m + 1 /\ DOMAIN Append(q, r) = 1 .. n + 1
  BY AppendProperties, LenProperties
<1>2. /\ \A i \in 1 .. m : Append(cs, api)[i] = cs[i]
      /\ Append(cs, api)[m + 1] = api
      /\ \A j \in 1 .. n : Append(q, r)[j] = q[j]
      /\ Append(q, r)[n + 1] = r
  BY AppendProperties, LenProperties
<1>3. PICK at \in [1 .. m -> 1 .. n] :
          /\ {at[i] : i \in 1 .. m} = {j \in 1 .. n : q[j].buf # 0}
          /\ \A i, k \in 1 .. m : i < k => at[i] < at[k]
          /\ \A i \in 1 .. m : cs[i] = q[at[i]].api
  BY <1>1 DEF AreCommandsOf
<1> DEFINE to == [i \in 1 .. m + 1 |-> IF i = m + 1 THEN n + 1 ELSE at[i]]
<1> HIDE DEF m, n
<1>4. to \in [1 .. m + 1 -> 1 .. n + 1]
  BY <1>1, <1>3
<1>5. \A i, k \in 1 .. m + 1 : i < k => to[i] < to[k]
  BY <1>1, <1>3
<1>6. \A i \in 1 .. m + 1 : Append(cs, api)[i] = Append(q, r)[to[i]].api
  BY <1>1, <1>2, <1>3
<1>7. {to[i] : i \in 1 .. m + 1} = {j \in 1 .. n + 1 : Append(q, r)[j].buf # 0}
  <2>1. ASSUME NEW i \in 1 .. m + 1
        PROVE  to[i] \in 1 .. n + 1 /\ Append(q, r)[to[i]].buf # 0
    <3>1. CASE i = m + 1
      BY <3>1, <1>1, <1>2
    <3>2. CASE i \in 1 .. m
      <4>1. at[i] \in {j \in 1 .. n : q[j].buf # 0}
        BY <3>2, <1>3
      <4> QED BY <4>1, <3>2, <1>1, <1>2
    <3> QED BY <3>1, <3>2, <1>1
  <2>2. ASSUME NEW j \in 1 .. n + 1, Append(q, r)[j].buf # 0
        PROVE  \E i \in 1 .. m + 1 : to[i] = j
    <3>1. CASE j = n + 1
      BY <3>1, <1>1
    <3>2. CASE j \in 1 .. n
      <4>1. j \in {at[i] : i \in 1 .. m}
        BY <3>2, <2>2, <1>2, <1>3
      <4>2. PICK i \in 1 .. m : at[i] = j
        BY <4>1
      <4>3. i \in 1 .. m + 1 /\ to[i] = at[i]
        BY <1>1
      <4> QED BY <4>2, <4>3
    <3> QED BY <3>1, <3>2, <1>1
  <2> DEFINE T == {j \in 1 .. n + 1 : Append(q, r)[j].buf # 0}
  <2>3. \A i \in 1 .. m + 1 : to[i] \in T
    BY <2>1
  <2>4. \A j \in T : \E i \in 1 .. m + 1 : to[i] = j
    BY <2>2
  <2> HIDE DEF to, T
  <2>5. {to[i] : i \in 1 .. m + 1} = T
    BY <2>3, <2>4, ImageIs
  <2> QED BY <2>5 DEF T
<1> HIDE DEF to
<1> QED BY ZenonT(30), <1>1, <1>4, <1>5, <1>6, <1>7 DEF AreCommandsOf

\* A request of the ARM7's own is none of the ARM9's.
LEMMA QueueInternal ==
    ASSUME NEW q \in Seq(QueuedRequests), NEW cs \in Seq(Apis), AreCommandsOf(cs, q),
           NEW r \in QueuedRequests, r.buf = 0
    PROVE  AreCommandsOf(cs, Append(q, r))
<1> DEFINE m == Len(cs)
           n == Len(q)
<1>1. /\ m \in Nat /\ n \in Nat /\ DOMAIN cs = 1 .. m /\ DOMAIN q = 1 .. n
      /\ DOMAIN Append(q, r) = 1 .. n + 1
  BY AppendProperties, LenProperties
<1>2. /\ \A j \in 1 .. n : Append(q, r)[j] = q[j]
      /\ Append(q, r)[n + 1] = r
  BY AppendProperties, LenProperties
<1>3. PICK at \in [1 .. m -> 1 .. n] :
          /\ {at[i] : i \in 1 .. m} = {j \in 1 .. n : q[j].buf # 0}
          /\ \A i, k \in 1 .. m : i < k => at[i] < at[k]
          /\ \A i \in 1 .. m : cs[i] = q[at[i]].api
  BY <1>1 DEF AreCommandsOf
<1> HIDE DEF m, n
<1>4. at \in [1 .. m -> 1 .. n + 1]
  BY <1>1, <1>3
<1>5. {j \in 1 .. n + 1 : Append(q, r)[j].buf # 0} = {j \in 1 .. n : q[j].buf # 0}
  <2>1. \A j \in 1 .. n + 1 : j \in 1 .. n \/ j = n + 1
    BY <1>1
  <2> QED BY <2>1, <1>1, <1>2
<1>6. \A i \in 1 .. m : cs[i] = Append(q, r)[at[i]].api
  BY <1>2, <1>3
<1> QED BY <1>1, <1>3, <1>4, <1>5, <1>6 DEF AreCommandsOf

\* The request thread takes the oldest request.
LEMMA TakeRequest ==
    ASSUME NEW q \in Seq(QueuedRequests), q # <<>>, NEW cs \in Seq(Apis),
           AreCommandsOf(cs, q)
    PROVE  /\ Head(q).buf = 0 => AreCommandsOf(cs, Tail(q))
           /\ Head(q).buf # 0 =>
                 /\ cs # <<>> /\ Head(cs) = Head(q).api
                 /\ AreCommandsOf(Tail(cs), Tail(q))
<1> DEFINE m == Len(cs)
           n == Len(q)
<1>1. /\ m \in Nat /\ n \in Nat \ {0} /\ DOMAIN cs = 1 .. m /\ DOMAIN q = 1 .. n
      /\ Head(q) = q[1]
  BY EmptySeq, LenProperties, HeadTailProperties
<1>2. /\ Len(Tail(q)) = n - 1 /\ DOMAIN Tail(q) = 1 .. n - 1
      /\ \A j \in 1 .. n - 1 : Tail(q)[j] = q[j + 1]
  BY HeadTailProperties, LenProperties
<1>3. PICK at \in [1 .. m -> 1 .. n] :
          /\ {at[i] : i \in 1 .. m} = {j \in 1 .. n : q[j].buf # 0}
          /\ \A i, k \in 1 .. m : i < k => at[i] < at[k]
          /\ \A i \in 1 .. m : cs[i] = q[at[i]].api
  BY <1>1 DEF AreCommandsOf
<1>4. m # 0 => /\ cs # <<>> /\ Head(cs) = cs[1]
               /\ Len(Tail(cs)) = m - 1 /\ DOMAIN Tail(cs) = 1 .. m - 1
               /\ \A i \in 1 .. m - 1 : Tail(cs)[i] = cs[i + 1]
  BY EmptySeq, LenProperties, HeadTailProperties
<1> HIDE DEF m, n
<1>5. CASE q[1].buf = 0
  <2> DEFINE to == [i \in 1 .. m |-> at[i] - 1]
  <2>1. \A i \in 1 .. m : at[i] \in 2 .. n
    <3>1. \A i \in 1 .. m : at[i] \in {j \in 1 .. n : q[j].buf # 0}
      BY <1>3
    <3> QED BY <3>1, <1>5, <1>1
  <2>2. to \in [1 .. m -> 1 .. n - 1]
    BY <2>1, <1>1
  <2>3. \A i, k \in 1 .. m : i < k => to[i] < to[k]
    BY <2>1, <1>1, <1>3
  <2>4. \A i \in 1 .. m : cs[i] = Tail(q)[to[i]].api
    <3> TAKE i \in 1 .. m
    <3>1. to[i] = at[i] - 1 /\ to[i] \in 1 .. n - 1
      BY <2>2
    <3>2. to[i] + 1 = at[i]
      BY <2>1, <3>1, <1>1
    <3> HIDE DEF to
    <3>3. Tail(q)[to[i]] = q[at[i]]
      BY <1>2, <3>1, <3>2
    <3> QED BY <1>3, <3>3
  <2>5. {to[i] : i \in 1 .. m} = {j \in 1 .. n - 1 : Tail(q)[j].buf # 0}
    <3>1. ASSUME NEW i \in 1 .. m
          PROVE  to[i] \in 1 .. n - 1 /\ Tail(q)[to[i]].buf # 0
      <4>1. at[i] \in {j \in 1 .. n : q[j].buf # 0}
        BY <1>3
      <4> QED BY <4>1, <2>1, <1>1, <1>2
    <3>2. ASSUME NEW j \in 1 .. n - 1, Tail(q)[j].buf # 0
          PROVE  \E i \in 1 .. m : to[i] = j
      <4>1. j + 1 \in {at[i] : i \in 1 .. m}
        BY <3>2, <1>1, <1>2, <1>3
      <4>2. PICK i \in 1 .. m : at[i] = j + 1
        BY <4>1
      <4>3. to[i] = j
        BY <4>2, <1>1
      <4> QED BY <4>3
    <3> DEFINE T == {j \in 1 .. n - 1 : Tail(q)[j].buf # 0}
    <3>3. \A i \in 1 .. m : to[i] \in T
      BY <3>1
    <3>4. \A j \in T : \E i \in 1 .. m : to[i] = j
      BY <3>2
    <3> HIDE DEF to, T
    <3>5. {to[i] : i \in 1 .. m} = T
      BY <3>3, <3>4, ImageIs
    <3> QED BY <3>5 DEF T
  <2> HIDE DEF to
  <2>6. AreCommandsOf(cs, Tail(q))
    BY <2>2, <2>3, <2>4, <2>5, <1>1, <1>2 DEF AreCommandsOf
  <2> QED BY <2>6, <1>5, <1>1
<1>6. CASE q[1].buf # 0
  <2>1. m # 0 /\ at[1] = 1
    <3>1. 1 \in {at[i] : i \in 1 .. m}
      BY <1>6, <1>1, <1>3
    <3>2. PICK i \in 1 .. m : at[i] = 1
      BY <3>1
    <3>3. i > 1 => at[1] < at[i]
      BY <1>1, <1>3
    <3> QED BY <3>2, <3>3, <1>1, <1>3
  <2> DEFINE to == [i \in 1 .. m - 1 |-> at[i + 1] - 1]
  <2>2. \A i \in 1 .. m - 1 : i + 1 \in 1 .. m /\ at[i + 1] \in 2 .. n
    <3>1. ASSUME NEW i \in 1 .. m - 1 PROVE i + 1 \in 1 .. m /\ at[i + 1] \in 2 .. n
      <4>1. i + 1 \in 1 .. m /\ 1 < i + 1 /\ 1 \in 1 .. m
        BY <1>1
      <4>2. at[1] < at[i + 1]
        BY <4>1, <1>3
      <4> QED BY <4>1, <4>2, <2>1, <1>1, <1>3
    <3> QED BY <3>1
  <2>3. to \in [1 .. m - 1 -> 1 .. n - 1]
    BY <2>2, <1>1
  <2>9. \A i \in 1 .. m - 1 : at[i + 1] \in Int /\ to[i] = at[i + 1] - 1 /\ to[i] + 1 = at[i + 1]
    BY <2>2, <1>1
  <2>4. \A i, k \in 1 .. m - 1 : i < k => to[i] < to[k]
    <3>1. ASSUME NEW i \in 1 .. m - 1, NEW k \in 1 .. m - 1, i < k
          PROVE  at[i + 1] < at[k + 1]
      BY <3>1, <2>2, <1>1, <1>3
    <3> HIDE DEF to
    <3>2. ASSUME NEW i \in 1 .. m - 1, NEW k \in 1 .. m - 1, i < k
          PROVE  to[i] < to[k]
      BY <3>1, <3>2, <2>9
    <3> QED BY <3>2
  <2>5. \A i \in 1 .. m - 1 : Tail(cs)[i] = Tail(q)[to[i]].api
    BY <2>1, <2>2, <2>3, <1>1, <1>2, <1>3, <1>4
  <2>6. {to[i] : i \in 1 .. m - 1} = {j \in 1 .. n - 1 : Tail(q)[j].buf # 0}
    <3>1. ASSUME NEW i \in 1 .. m - 1
          PROVE  to[i] \in 1 .. n - 1 /\ Tail(q)[to[i]].buf # 0
      <4>1. at[i + 1] \in {j \in 1 .. n : q[j].buf # 0}
        BY <2>2, <1>3
      <4> HIDE DEF to
      <4>2. to[i] \in 1 .. n - 1 /\ Tail(q)[to[i]] = q[at[i + 1]]
        BY <2>3, <2>9, <1>2
      <4> QED BY <4>1, <4>2
    <3>2. ASSUME NEW j \in 1 .. n - 1, Tail(q)[j].buf # 0
          PROVE  \E i \in 1 .. m - 1 : to[i] = j
      <4>1. j + 1 \in {at[i] : i \in 1 .. m}
        BY <3>2, <1>1, <1>2, <1>3
      <4>2. PICK k \in 1 .. m : at[k] = j + 1
        BY <4>1
      <4>3. k - 1 \in 1 .. m - 1
        <5>1. k # 1
          BY <4>2, <2>1, <1>1
        <5> QED BY <5>1, <1>1
      <4>4. to[k - 1] = j
        BY <4>2, <4>3, <1>1
      <4> QED BY <4>3, <4>4
    <3> DEFINE T == {j \in 1 .. n - 1 : Tail(q)[j].buf # 0}
    <3>3. \A i \in 1 .. m - 1 : to[i] \in T
      BY <3>1
    <3>4. \A j \in T : \E i \in 1 .. m - 1 : to[i] = j
      BY <3>2
    <3> HIDE DEF to, T
    <3>5. {to[i] : i \in 1 .. m - 1} = T
      BY <3>3, <3>4, ImageIs
    <3> QED BY <3>5 DEF T
  <2>7. cs[1] = q[1].api
    BY <2>1, <1>1, <1>3
  <2> HIDE DEF to
  <2>8. AreCommandsOf(Tail(cs), Tail(q))
    BY ZenonT(30), <2>1, <2>3, <2>4, <2>5, <2>6, <1>1, <1>2, <1>4 DEF AreCommandsOf
  <2> QED BY <2>1, <2>7, <2>8, <1>6, <1>1, <1>4
<1> QED BY <1>1, <1>5, <1>6

\* The callbacks for a set of children that have gone, in whatever order.
LEMMA GoneCalls ==
    ASSUME NEW aids \in SUBSET Everybody
    PROVE  /\ SetToSeq({Gone(a) : a \in aids}) \in Seq(Callbacks)
           /\ NoFinal(SetToSeq({Gone(a) : a \in aids}))
           /\ \A i \in DOMAIN SetToSeq({Gone(a) : a \in aids}) :
                 SetToSeq({Gone(a) : a \in aids})[i] # Answer("START_PARENT", "SUCCESS")
<1> DEFINE S == {Gone(a) : a \in aids}
<1>1. IsFiniteSet(aids)
  <2>1. 0 \in Int /\ 15 \in Int
    OBVIOUS
  <2>2. IsFiniteSet(0 .. 15)
    BY <2>1, FS_Interval
  <2>3. aids \subseteq 0 .. 15
    BY DEF Everybody
  <2> QED BY <2>2, <2>3, FS_Subset
<1>2. IsFiniteSet(S)
  <2> DEFINE f == [a \in aids |-> Gone(a)]
  <2>1. f \in Surjection(aids, S)
    BY DEF Surjection
  <2> HIDE DEF f, S
  <2> QED BY <2>1, <1>1, FS_Surjection
<1>3. /\ Cardinality(S) \in Nat
      /\ \E f \in [1 .. Cardinality(S) -> S] : IsInjective(f)
  <2>1. /\ Cardinality(S) \in Nat
        /\ ExistsBijection(1 .. Cardinality(S), S)
    BY <1>2, FS_CardinalityType
  <2> HIDE DEF S
  <2>2. PICK f : f \in Bijection(1 .. Cardinality(S), S)
    BY <2>1 DEF ExistsBijection
  <2>3. f \in [1 .. Cardinality(S) -> S] /\ IsInjective(f)
    BY <2>2 DEF Bijection, Injection, IsInjective
  <2> QED BY <2>1, <2>3
<1> DEFINE s == SetToSeq(S)
<1>4. s \in [1 .. Cardinality(S) -> S]
  BY <1>3 DEF SetToSeq
<1>5. S \subseteq Callbacks
  BY DEF Gone, Cb, Callbacks, Everybody, Kinds, Results, Apis, AllowedIn
<1>6. \A x \in S : ~IsFinal(x) /\ x # Answer("START_PARENT", "SUCCESS")
  BY DEF Gone, Cb, IsFinal, Answer
<1> HIDE DEF S, s
<1>7. s \in Seq(Callbacks) /\ DOMAIN s = 1 .. Cardinality(S)
  BY <1>3, <1>4, <1>5, IsASeq
<1> QED BY <1>3, <1>4, <1>6, <1>7 DEF NoFinal, s, S

(***************************************************************************)
(* The handlers of the request thread.                                     *)
(***************************************************************************)
\* What a step of a handler leaves.
Handled ==
    /\ status' \in Statuses /\ wl' \in {"idle", "class1", "parent", "child"}
    /\ request' \in RequestRecords
    /\ request'.api = request.api /\ request'.buf = request.buf
    /\ AnswerLast(request') /\ MpStopped(status', request')
    /\ Unanswered' = Unanswered

\* The command is being served and nothing is left to be sent.
Working ==
    /\ Typed /\ Numbered /\ AnswerLast(request) /\ MpStopped(status, request)
    /\ request.stage \in OpenStages /\ request.calls = <<>>

LEMMA WorkingFacts ==
    ASSUME Inv, NEW stage \in OpenStages, At(stage)
    PROVE  Working /\ request.stage = stage
BY DEF Inv, Working, At

\* A handler that goes on, with callbacks that answer nothing, or that ends a
\* request the ARM9 does not know of.
LEMMA GoesOn ==
    ASSUME Working, request' \in RequestRecords, NoFinal(request'.calls),
           request'.api = request.api, request'.buf = request.buf,
           \/ request'.stage \in OpenStages
           \/ request.api \notin Apis /\ request'.stage = "done"
    PROVE  AnswerLast(request') /\ Unanswered' = Unanswered
<1>1. AnswerLast(request')
  BY DEF Working, AnswerLast, NoFinal, OpenStages, Stopped
<1>2. request.buf # 0 => request.api \in Apis
  BY DEF Working, Numbered
<1>3. CASE request.buf = 0
  BY <1>1, <1>3 DEF Unanswered
<1>4. CASE request.buf # 0
  <2>1. request'.stage \in OpenStages
    BY <1>2, <1>4
  <2>2. /\ request.stage \notin {"done", "mpstarted", "rest"}
        /\ request'.stage \notin {"done", "mpstarted", "rest"}
    BY <2>1 DEF Working, OpenStages, Stopped
  <2> QED BY <2>2, <1>1, <1>4 DEF Unanswered
<1> QED BY <1>1, <1>3, <1>4

\* A handler that ends with an answer, the last of what it sends.
LEMMA Answers ==
    ASSUME Working, request' \in RequestRecords,
           request'.api = request.api, request'.buf = request.buf,
           request'.stage \in {"done", "mpstarted"},
           NEW n \in Nat \ {0}, DOMAIN request'.calls = 1 .. n, Len(request'.calls) = n,
           IsFinal(request'.calls[n]), request'.calls[n].api = request.api,
           \A i \in 1 .. n : i # n => ~IsFinal(request'.calls[i])
    PROVE  AnswerLast(request') /\ Unanswered' = Unanswered
<1>1. AnswerLast(request')
  BY DEF AnswerLast
<1>2. /\ request.stage \notin {"done", "mpstarted", "rest"}
      /\ request'.stage # "rest"
      /\ \E i \in DOMAIN request'.calls : IsFinal(request'.calls[i])
  BY DEF Working, OpenStages, Stopped
<1> QED BY <1>1, <1>2 DEF Unanswered

LEMMA EndsWell ==
    ASSUME Working, NEW result \in Results, Ends(result)
    PROVE  /\ request' \in RequestRecords /\ request'.stage = "done"
           /\ request'.api = request.api /\ request'.buf = request.buf
           /\ AnswerLast(request') /\ Unanswered' = Unanswered
           /\ \A s : /\ s.mp => s.state \in MpStates
                     /\ request.api = "START_PARENT" /\ result = "SUCCESS" => ~s.mp
                     => MpStopped(s, request')
<1> DEFINE a == Answer(request.api, result)
<1>1. a \in Callbacks
  BY DEF Working, Typed, RequestRecords, Callbacks, Answer, Cb, Kinds, Everybody
<1>2. /\ request' = [request EXCEPT !.stage = "done", !.calls = <<a>>]
      /\ request \in RequestRecords
  BY DEF Ends, GoTo, Working, Typed
<1>3. IsFinal(a) /\ a.api = request.api
      /\ (a = Answer("START_PARENT", "SUCCESS")
          => request.api = "START_PARENT" /\ result = "SUCCESS")
  BY DEF Answer, Cb, IsFinal
<1> HIDE DEF a
<1>4. <<a>> \in Seq(Callbacks) /\ Len(<<a>>) = 1 /\ DOMAIN <<a>> = 1 .. 1 /\ <<a>>[1] = a
  BY <1>1
<1>5. /\ request' \in RequestRecords /\ request'.stage = "done" /\ request'.calls = <<a>>
      /\ request'.api = request.api /\ request'.buf = request.buf
  BY <1>2, <1>4 DEF RequestRecords
<1>6. AnswerLast(request') /\ Unanswered' = Unanswered
  BY <1>3, <1>4, <1>5, Answers
<1>7. ASSUME NEW s, s.mp => s.state \in MpStates,
             request.api = "START_PARENT" /\ result = "SUCCESS" => ~s.mp
      PROVE  MpStopped(s, request')
  BY <1>3, <1>4, <1>5, <1>7 DEF MpStopped, Stopped
<1> QED BY <1>5, <1>6, <1>7

LEMMA GoesOnWell ==
    ASSUME Working, NEW stage \in OpenStages, NEW calls \in Seq(Callbacks),
           NoFinal(calls), GoTo(stage, calls)
    PROVE  /\ request' \in RequestRecords
           /\ request'.stage = stage /\ request'.calls = calls
           /\ request'.api = request.api /\ request'.buf = request.buf
           /\ AnswerLast(request') /\ Unanswered' = Unanswered
<1>1. /\ request' = [request EXCEPT !.stage = stage, !.calls = calls]
      /\ request \in RequestRecords
  BY DEF GoTo, Working, Typed
<1>2. /\ request' \in RequestRecords /\ request'.stage = stage /\ request'.calls = calls
      /\ request'.api = request.api /\ request'.buf = request.buf
  BY <1>1 DEF RequestRecords
<1> QED BY <1>2, GoesOn

\* What the ARM7 has asked of itself ends without an answer.
LEMMA EndsSilently ==
    ASSUME Working, Automatic, NEW calls \in Seq(Callbacks), NoFinal(calls),
           GoTo("done", calls)
    PROVE  /\ request' \in RequestRecords
           /\ request'.stage = "done" /\ request'.calls = calls
           /\ request'.api = request.api /\ request'.buf = request.buf
           /\ AnswerLast(request') /\ Unanswered' = Unanswered
<1>1. /\ request' = [request EXCEPT !.stage = "done", !.calls = calls]
      /\ request \in RequestRecords
  BY DEF GoTo, Working, Typed
<1>2. /\ request' \in RequestRecords /\ request'.stage = "done" /\ request'.calls = calls
      /\ request'.api = request.api /\ request'.buf = request.buf
  BY <1>1 DEF RequestRecords
<1>3. request.api \notin Apis
  BY DEF Automatic, Apis, AllowedIn
<1> QED BY <1>2, <1>3, GoesOn

LEMMA NoCalls == <<>> \in Seq(Callbacks) /\ NoFinal(<<>>)
BY EmptySeq DEF NoFinal

\* The steps that end with an answer and change no more than the state.
LEMMA StepEnds ==
    ASSUME Working, NEW result \in Results, Ends(result), status' \in Statuses,
           wl' \in {"idle", "class1", "parent", "child"},
           status'.mp => status'.state \in MpStates,
           request.api = "START_PARENT" /\ result = "SUCCESS" => ~status'.mp
    PROVE  Handled
BY EndsWell DEF Handled

\* The commands that are served at once.
LEMMA AtOnce ==
    ASSUME Inv,
           \/ IllegalState \/ WMSP_Enable \/ WMSP_Disable \/ WMSP_PowerOn \/ WMSP_PowerOff
           \/ WMSP_SetParentParam \/ WMSP_SetEntry \/ WMSP_EndMP \/ WMSP_AutoDeAuth
    PROVE  Handled /\ UNCHANGED HandlerVars
<1> DEFINE Drivers == {"idle", "class1", "parent", "child"}
<1>1. Working /\ request.stage = "start"
  <2>1. At("start")
    BY DEF IllegalState, WMSP_Enable, WMSP_Disable, WMSP_PowerOn, WMSP_PowerOff,
           WMSP_SetParentParam, WMSP_SetEntry, WMSP_EndMP, WMSP_AutoDeAuth, Serves
  <2> QED BY <2>1, WorkingFacts DEF OpenStages
<1>2. /\ status \in Statuses /\ wl \in Drivers /\ request.entry \in BOOLEAN
      /\ status.mp => status.state \in MpStates
  BY <1>1 DEF Working, Typed, TypeOK, RequestRecords, MpStopped
<1>3. {"SUCCESS", "FAILED", "ILLEGAL_STATE"} \subseteq Results
  BY DEF Results
<1>4. UNCHANGED HandlerVars
  BY DEF IllegalState, WMSP_Enable, WMSP_Disable, WMSP_PowerOn, WMSP_PowerOff,
         WMSP_SetParentParam, WMSP_SetEntry, WMSP_EndMP, WMSP_AutoDeAuth
<1>5. CASE IllegalState
  <2>1. UNCHANGED <<status, wl>>
    BY <1>5 DEF IllegalState
  <2>2. CASE Automatic
    <3>1. GoTo("done", <<>>)
      BY <1>5, <2>2 DEF IllegalState
    <3>2. /\ request' \in RequestRecords
          /\ request'.stage = "done" /\ request'.calls = <<>>
          /\ request'.api = request.api /\ request'.buf = request.buf
          /\ AnswerLast(request') /\ Unanswered' = Unanswered
      BY <1>1, <2>2, <3>1, NoCalls, EndsSilently
    <3>3. MpStopped(status', request')
      BY <1>2, <2>1, <3>2 DEF MpStopped, Stopped
    <3> QED BY <1>2, <1>4, <2>1, <3>2, <3>3 DEF Handled
  <2>3. CASE ~Automatic
    <3>1. Ends("ILLEGAL_STATE")
      BY <1>5, <2>3 DEF IllegalState
    <3> QED BY <1>1, <1>2, <1>3, <1>4, <2>1, <3>1, StepEnds
  <2> QED BY <2>2, <2>3
<1>6. CASE WMSP_Enable
  <2>1. /\ Ends("SUCCESS") /\ wl' = wl /\ request.api = "ENABLE"
        /\ status' = [status EXCEPT !.mp = FALSE, !.children = {}, !.state = "STOP"]
    BY <1>6 DEF WMSP_Enable, Serves
  <2>2. status' \in Statuses /\ ~status'.mp
    BY <1>2, <2>1 DEF Statuses, States
  <2> QED BY <1>1, <1>2, <1>3, <1>4, <2>1, <2>2, StepEnds
<1>7. CASE WMSP_Disable
  <2>1. /\ Ends("SUCCESS") /\ wl' = wl /\ request.api = "DISABLE" /\ status.state = "STOP"
        /\ status' = [status EXCEPT !.state = "READY"]
    BY <1>7 DEF WMSP_Disable, Serves, Legal, ServedIn
  <2>2. status' \in Statuses /\ ~status'.mp
    BY <1>2, <2>1 DEF Statuses, States, MpStates
  <2> QED BY <1>1, <1>2, <1>3, <1>4, <2>1, <2>2, StepEnds
<1>8. CASE WMSP_PowerOn
  <2>1. /\ request.api = "POWER_ON" /\ status.state = "STOP"
        /\ \/ Ends("SUCCESS") /\ status' = [status EXCEPT !.state = "IDLE"] /\ wl' = "idle"
           \/ Ends("FAILED") /\ UNCHANGED <<status, wl>>
    BY <1>8 DEF WMSP_PowerOn, Serves, Legal, ServedIn
  <2>2. status' \in Statuses /\ ~status'.mp /\ wl' \in Drivers
    BY <1>2, <2>1 DEF Statuses, States, MpStates
  <2> QED BY <1>1, <1>3, <1>4, <2>1, <2>2, StepEnds
<1>9. CASE WMSP_PowerOff
  <2>1. /\ request.api = "POWER_OFF" /\ status.state = "IDLE" /\ wl' = wl
        /\ \/ Ends("SUCCESS") /\ status' = [status EXCEPT !.state = "STOP"]
           \/ Ends("FAILED") /\ UNCHANGED status
    BY <1>9 DEF WMSP_PowerOff, Serves, Legal, ServedIn
  <2>2. status' \in Statuses /\ ~status'.mp
    BY <1>2, <2>1 DEF Statuses, States, MpStates
  <2> QED BY <1>1, <1>2, <1>3, <1>4, <2>1, <2>2, StepEnds
<1>10. CASE WMSP_SetParentParam \/ WMSP_SetEntry
  <2>1. /\ request.api # "START_PARENT" /\ wl' = wl
        /\ Ends("SUCCESS") \/ Ends("FAILED")
        /\ status' = [status EXCEPT !.entry = request.entry]
    BY <1>10 DEF WMSP_SetParentParam, WMSP_SetEntry, Serves
  <2>2. status' \in Statuses /\ (status'.mp => status'.state \in MpStates)
    BY <1>2, <2>1 DEF Statuses
  <2> QED BY <1>1, <1>2, <1>3, <1>4, <2>1, <2>2, StepEnds
<1>11. CASE WMSP_EndMP
  <2>1. /\ request.api = "END_MP" /\ wl' = wl
        /\ Ends("SUCCESS") \/ Ends("FAILED")
        /\ status' = [status EXCEPT !.mp = FALSE, !.state = Unstarted(@)]
    BY <1>11 DEF WMSP_EndMP, Serves
  <2>2. status' \in Statuses /\ ~status'.mp
    BY <1>2, <2>1 DEF Statuses, States, Unstarted, Parents, Children
  <2> QED BY <1>1, <1>2, <1>3, <1>4, <2>1, <2>2, StepEnds
<1>12. CASE WMSP_AutoDeAuth
  <2>1. /\ request.api = "AUTO_DEAUTH" /\ UNCHANGED <<status, wl>> /\ Ends("SUCCESS")
    BY <1>12 DEF WMSP_AutoDeAuth, Serves
  <2> QED BY <1>1, <1>2, <1>3, <1>4, <2>1, StepEnds
<1> QED BY <1>5, <1>6, <1>7, <1>8, <1>9, <1>10, <1>11, <1>12

\* The steps after which a handler goes on.
LEMMA StepGoesOn ==
    ASSUME Working, status' \in Statuses, wl' \in {"idle", "class1", "parent", "child"},
           request' \in RequestRecords,
           request'.api = request.api, request'.buf = request.buf,
           request'.stage \in OpenStages, NoFinal(request'.calls),
           status'.mp => status'.state \in MpStates,
           request'.stage \in Stopped => ~status'.mp,
           request'.stage \in {"children", "deauth"} =>
               /\ request.api \in {"END_PARENT", "DISCONNECT", "AUTO_DISCONNECT"}
               /\ request.api = "END_PARENT" => ~status'.mp,
           request'.stage \in {"connecting", "associated"} => request.api = "START_CONNECT"
    PROVE  Handled
<1>1. AnswerLast(request') /\ Unanswered' = Unanswered
  BY GoesOn
<1>2. \A i \in DOMAIN request'.calls : request'.calls[i] # Answer("START_PARENT", "SUCCESS")
  BY FinalAnswers DEF NoFinal
<1>3. MpStopped(status', request')
  BY <1>2 DEF MpStopped, OpenStages, Stopped
<1> QED BY <1>1, <1>3 DEF Handled

\* The handlers that start and end the driver's work.
LEMMA InStages ==
    ASSUME Inv,
           \/ WMSP_StartParent \/ StartParentInDriver \/ WMSP_EndParent
           \/ ResetDriver \/ LeaveParent \/ WMSP_StartScan \/ WMSP_EndScan
           \/ WMSP_StartConnectEx \/ ConnectInDriver \/ ResetStation
    PROVE  Handled /\ UNCHANGED HandlerVars
<1> DEFINE Drivers == {"idle", "class1", "parent", "child"}
<1>1. Working /\ request.stage \in OpenStages
  <2>1. \/ At("start") \/ At("starting") \/ At("reset") \/ At("leave")
        \/ At("connecting") \/ At("station")
    BY DEF WMSP_StartParent, StartParentInDriver, WMSP_EndParent, ResetDriver, LeaveParent,
           WMSP_StartScan, WMSP_EndScan, WMSP_StartConnectEx, ConnectInDriver, ResetStation,
           Serves
  <2> QED BY <2>1, WorkingFacts DEF OpenStages, Stopped
<1>2. /\ status \in Statuses /\ wl \in Drivers /\ request \in RequestRecords
      /\ status.mp => status.state \in MpStates
      /\ request.stage \in Stopped => ~status.mp
  BY <1>1 DEF Working, Typed, TypeOK, MpStopped
<1>3. {"SUCCESS", "FAILED", "INVALID_PARAM"} \subseteq Results
  BY DEF Results
<1>4. UNCHANGED HandlerVars
  BY DEF WMSP_StartParent, StartParentInDriver, WMSP_EndParent, ResetDriver, LeaveParent,
         WMSP_StartScan, WMSP_EndScan, WMSP_StartConnectEx, ConnectInDriver, ResetStation
<1>5. ASSUME NEW stage \in Stopped, GoTo(stage, <<>>), status' \in Statuses, wl' \in Drivers,
             ~status'.mp,
             stage \in {"connecting", "associated"} => request.api = "START_CONNECT"
      PROVE  Handled
  <2>1. stage \in OpenStages /\ stage \notin {"children", "deauth"}
    BY DEF OpenStages, Stopped
  <2>2. /\ request' \in RequestRecords /\ request'.stage = stage /\ request'.calls = <<>>
        /\ request'.api = request.api /\ request'.buf = request.buf
    BY <1>1, <1>5, <2>1, NoCalls, GoesOnWell
  <2> QED BY <1>1, <1>5, <2>1, <2>2, NoCalls, StepGoesOn
<1>6. CASE WMSP_StartParent
  <2>1. /\ wl' = wl /\ request.api = "START_PARENT" /\ status.state = "IDLE"
        /\ \/ Ends("INVALID_PARAM") /\ UNCHANGED status
           \/ GoTo("starting", <<>>) /\ status' = [status EXCEPT !.children = {}]
    BY <1>6 DEF WMSP_StartParent, Serves, Legal, ServedIn
  <2>2. status' \in Statuses /\ ~status'.mp /\ "starting" \in Stopped
    BY <1>2, <2>1 DEF Statuses, MpStates, Stopped
  <2> QED BY <1>1, <1>2, <1>3, <1>4, <1>5, <2>1, <2>2, StepEnds
<1>7. CASE StartParentInDriver
  <2>1. /\ UNCHANGED status /\ request.stage = "starting"
        /\ wl' \in Drivers
        /\ Ends("SUCCESS") \/ Ends("FAILED")
    BY <1>2, <1>7 DEF StartParentInDriver, At
  <2>2. status' \in Statuses /\ ~status'.mp
    BY <1>2, <2>1 DEF Stopped
  <2> QED BY <1>1, <1>3, <1>4, <2>1, <2>2, StepEnds
<1>8. CASE WMSP_EndParent
  <2>1. /\ wl' = wl /\ request.api = "END_PARENT" /\ status.state = "PARENT"
        /\ status' = [status EXCEPT !.entry = FALSE]
        /\ request' = [request EXCEPT !.stage = "children", !.aids = Aids]
        /\ request.calls = <<>>
    BY <1>8 DEF WMSP_EndParent, Serves, At, Legal, ServedIn
  <2>2. status' \in Statuses /\ ~status'.mp
    BY <1>2, <2>1 DEF Statuses, MpStates
  <2>3. /\ request' \in RequestRecords /\ request'.stage = "children" /\ request'.calls = <<>>
        /\ request'.api = request.api /\ request'.buf = request.buf
    BY <1>2, <2>1 DEF RequestRecords, OpenStages, Everybody
  <2>4. "children" \in OpenStages /\ "children" \notin Stopped
    BY DEF OpenStages, Stopped
  <2> QED BY <1>1, <1>2, <1>4, <2>1, <2>2, <2>3, <2>4, NoCalls, StepGoesOn
<1>9. CASE ResetDriver
  <2>1. /\ request.stage = "reset"
        /\ \/ GoTo("idle", <<>>) /\ status' = [status EXCEPT !.state = "CLASS1"] /\ wl' = "class1"
           \/ Ends("FAILED") /\ UNCHANGED <<status, wl>>
    BY <1>9 DEF ResetDriver, At
  <2>2. status' \in Statuses /\ ~status'.mp /\ wl' \in Drivers /\ "idle" \in Stopped
    BY <1>2, <2>1 DEF Statuses, States, Stopped
  <2> QED BY <1>1, <1>3, <1>4, <1>5, <2>1, <2>2, StepEnds
<1>10. CASE LeaveParent
  <2>1. /\ request.stage = "leave" /\ wl' = wl
        /\ \/ GoTo("reset", <<>>) /\ status' = [status EXCEPT !.state = "CLASS1"]
           \/ Ends("FAILED") /\ UNCHANGED status
    BY <1>10 DEF LeaveParent, At
  <2>2. status' \in Statuses /\ ~status'.mp /\ "reset" \in Stopped
    BY <1>2, <2>1 DEF Statuses, States, Stopped
  <2> QED BY <1>1, <1>2, <1>3, <1>4, <1>5, <2>1, <2>2, StepEnds
<1>11. CASE WMSP_StartScan
  <2>1. /\ request.api = "START_SCAN" /\ status.state \in {"IDLE", "CLASS1", "SCAN"}
        /\ wl' \in Drivers
        /\ \E result \in {"SUCCESS", "FAILED", "INVALID_PARAM"} : Ends(result)
        /\ \/ UNCHANGED status
           \/ status' = [status EXCEPT !.state = "CLASS1"]
           \/ status' = [status EXCEPT !.state = "SCAN"]
    BY <1>2, <1>11 DEF WMSP_StartScan, Serves, Legal, ServedIn
  <2>2. status' \in Statuses /\ ~status'.mp
    BY <1>2, <2>1 DEF Statuses, States, MpStates
  <2> QED BY <1>1, <1>3, <1>4, <2>1, <2>2, StepEnds
<1>12. CASE WMSP_EndScan
  <2>1. /\ request.api = "END_SCAN" /\ status.state = "SCAN" /\ wl' \in Drivers
        /\ Ends("SUCCESS") \/ Ends("FAILED")
        /\ status' = [status EXCEPT !.state = "IDLE"] \/ UNCHANGED status
    BY <1>2, <1>12 DEF WMSP_EndScan, Serves, Legal, ServedIn
  <2>2. status' \in Statuses /\ ~status'.mp
    BY <1>2, <2>1 DEF Statuses, States, MpStates
  <2> QED BY <1>1, <1>3, <1>4, <2>1, <2>2, StepEnds
<1>13. CASE WMSP_StartConnectEx
  <2> DEFINE started == Cb("START_CONNECT", "started", "SUCCESS", 0)
  <2>1. /\ request.api = "START_CONNECT" /\ status.state = "IDLE" /\ UNCHANGED <<status, wl>>
        /\ Ends("FAILED") \/ GoTo("connecting", <<started>>)
    BY <1>13 DEF WMSP_StartConnectEx, Serves, Legal, ServedIn
  <2>2. status' \in Statuses /\ ~status'.mp
    BY <1>2, <2>1 DEF Statuses, MpStates
  <2>3. CASE GoTo("connecting", <<started>>)
    <3>1. /\ <<started>> \in Seq(Callbacks) /\ NoFinal(<<started>>)
      <4>1. started \in Callbacks
        BY DEF Cb, Callbacks, Kinds, Results, Everybody, Apis, AllowedIn
      <4>2. ~IsFinal(started)
        BY FinalAnswers
      <4> HIDE DEF started
      <4> QED BY <4>1, <4>2 DEF NoFinal
    <3>2. "connecting" \in OpenStages /\ "connecting" \in Stopped
      BY DEF OpenStages, Stopped
    <3> HIDE DEF started
    <3>3. /\ request' \in RequestRecords /\ request'.stage = "connecting"
          /\ request'.calls = <<started>>
          /\ request'.api = request.api /\ request'.buf = request.buf
      BY <1>1, <2>3, <3>1, <3>2, GoesOnWell
    <3> QED BY <1>1, <1>2, <1>4, <2>1, <2>2, <3>1, <3>2, <3>3, StepGoesOn
  <2> QED BY <1>1, <1>2, <1>3, <1>4, <2>1, <2>2, <2>3, StepEnds
<1>14. CASE ConnectInDriver
  <2>1. /\ request.stage = "connecting" /\ wl' \in Drivers
        /\ Ends("FAILED") \/ GoTo("associated", <<>>)
        /\ status' = [status EXCEPT !.state = "CLASS1"] \/ UNCHANGED status
    BY <1>2, <1>14 DEF ConnectInDriver, At
  <2>2. status' \in Statuses /\ ~status'.mp /\ "associated" \in Stopped
    BY <1>2, <2>1 DEF Statuses, States, Stopped
  <2>3. request.api = "START_CONNECT"
    BY <1>1, <2>1 DEF Working, MpStopped
  <2> QED BY <1>1, <1>3, <1>4, <1>5, <2>1, <2>2, <2>3, StepEnds
<1>15. CASE ResetStation
  <2>1. /\ request.stage = "station" /\ wl' \in Drivers
        /\ Ends("SUCCESS") \/ Ends("FAILED")
        /\ \/ UNCHANGED status
           \/ status' = [status EXCEPT !.state = "CLASS1"]
           \/ status' = [status EXCEPT !.state = "IDLE"]
    BY <1>2, <1>15 DEF ResetStation, At
  <2>2. status' \in Statuses /\ ~status'.mp
    BY <1>2, <2>1 DEF Statuses, States, Stopped
  <2> QED BY <1>1, <1>3, <1>4, <2>1, <2>2, StepEnds
<1> QED BY <1>6, <1>7, <1>8, <1>9, <1>10, <1>11, <1>12, <1>13, <1>14, <1>15

\* The callback for a child that has gone.
LEMMA GoneCallback ==
    ASSUME NEW aid \in Everybody
    PROVE  Gone(aid) \in Callbacks
BY DEF Gone, Cb, Callbacks, Kinds, Results, Apis, AllowedIn

\* The handlers that send children away.
LEMMA WithChildren ==
    ASSUME Inv,
           \/ WMSP_Disconnect \/ NextChild \/ ChildDeauthenticated \/ IdleDriver
    PROVE  Handled /\ UNCHANGED HandlerVars
<1> DEFINE Drivers == {"idle", "class1", "parent", "child"}
           Leaving == {"END_PARENT", "DISCONNECT", "AUTO_DISCONNECT"}
<1>1. Working /\ request.stage \in OpenStages
  <2>1. At("start") \/ At("children") \/ At("deauth") \/ At("idle")
    BY DEF WMSP_Disconnect, NextChild, ChildDeauthenticated, IdleDriver
  <2> QED BY <2>1, WorkingFacts DEF OpenStages, Stopped
<1>2. /\ status \in Statuses /\ wl \in Drivers /\ request \in RequestRecords
      /\ status.mp => status.state \in MpStates
      /\ request.stage \in Stopped => ~status.mp
      /\ request.stage \in {"children", "deauth"} =>
             /\ request.api \in Leaving
             /\ request.api = "END_PARENT" => ~status.mp
      /\ request.calls = <<>>
  BY <1>1 DEF Working, Typed, TypeOK, MpStopped
<1>3. {"SUCCESS", "FAILED", "ILLEGAL_STATE"} \subseteq Results
  BY DEF Results
<1>4. UNCHANGED HandlerVars
  BY DEF WMSP_Disconnect, NextChild, ChildDeauthenticated, IdleDriver
<1>5. /\ {"children", "deauth", "reset", "leave"} \subseteq OpenStages
      /\ "children" \notin Stopped /\ "deauth" \notin Stopped
      /\ {"reset", "leave", "idle"} \subseteq Stopped
  BY DEF OpenStages, Stopped
<1>6. ASSUME Automatic, GoTo("done", <<>>), UNCHANGED <<status, wl>>
      PROVE  Handled
  <2>1. /\ request' \in RequestRecords
        /\ request'.stage = "done" /\ request'.calls = <<>>
        /\ request'.api = request.api /\ request'.buf = request.buf
        /\ AnswerLast(request') /\ Unanswered' = Unanswered
    BY <1>1, <1>6, NoCalls, EndsSilently
  <2>2. MpStopped(status', request')
    BY <1>2, <1>6, <2>1 DEF MpStopped, Stopped
  <2> QED BY <1>2, <1>6, <2>1, <2>2 DEF Handled
<1>7. CASE WMSP_Disconnect
  <2>1. /\ wl' = wl /\ request.api \in {"DISCONNECT", "AUTO_DISCONNECT"}
        /\ \/ GoTo("children", <<>>) /\ UNCHANGED status
           \/ Automatic /\ GoTo("done", <<>>) /\ UNCHANGED status
           \/ Ends("ILLEGAL_STATE") /\ UNCHANGED status
           \/ /\ GoTo("leave", <<>>)
              /\ status' = [status EXCEPT !.children = {}, !.mp = FALSE,
                     !.state = IF status.mp THEN "CHILD" ELSE @]
    BY <1>7 DEF WMSP_Disconnect, Automatic
  <2>2. CASE GoTo("children", <<>>) /\ UNCHANGED status
    <3>1. /\ request' \in RequestRecords
          /\ request'.stage = "children" /\ request'.calls = <<>>
          /\ request'.api = request.api /\ request'.buf = request.buf
      BY <1>1, <1>5, <2>2, NoCalls, GoesOnWell
    <3> QED BY <1>1, <1>2, <1>4, <1>5, <2>1, <2>2, <3>1, NoCalls, StepGoesOn
  <2>3. CASE Automatic /\ GoTo("done", <<>>) /\ UNCHANGED status
    BY <1>4, <1>6, <2>1, <2>3
  <2>4. CASE Ends("ILLEGAL_STATE") /\ UNCHANGED status
    BY <1>1, <1>2, <1>3, <1>4, <2>1, <2>4, StepEnds
  <2>5. CASE /\ GoTo("leave", <<>>)
             /\ status' = [status EXCEPT !.children = {}, !.mp = FALSE,
                    !.state = IF status.mp THEN "CHILD" ELSE @]
    <3>1. /\ request' \in RequestRecords
          /\ request'.stage = "leave" /\ request'.calls = <<>>
          /\ request'.api = request.api /\ request'.buf = request.buf
      BY <1>1, <1>5, <2>5, NoCalls, GoesOnWell
    <3>2. status' \in Statuses /\ ~status'.mp
      BY <1>2, <2>5 DEF Statuses, States, Children
    <3> QED BY <1>1, <1>2, <1>4, <1>5, <2>1, <3>1, <3>2, NoCalls, StepGoesOn
  <2> QED BY <2>1, <2>2, <2>3, <2>4, <2>5
<1>8. CASE NextChild
  <2> DEFINE there == request.aids \cap status.children
  <2>1. /\ UNCHANGED <<status, wl>> /\ request.stage = "children" /\ request.api \in Leaving
        /\ \/ request.api = "END_PARENT" /\ GoTo("reset", <<>>)
           \/ Automatic /\ GoTo("done", <<>>)
           \/ request.api # "END_PARENT" /\ Ends("SUCCESS")
           \/ request' = [request EXCEPT !.stage = "deauth",
                              !.aids = {a \in @ : a >= Min(there)}]
    BY <1>2, <1>8 DEF NextChild, At, Automatic
  <2>2. CASE request.api = "END_PARENT" /\ GoTo("reset", <<>>)
    <3>1. /\ request' \in RequestRecords
          /\ request'.stage = "reset" /\ request'.calls = <<>>
          /\ request'.api = request.api /\ request'.buf = request.buf
      BY <1>1, <1>5, <2>2, NoCalls, GoesOnWell
    <3> QED BY <1>1, <1>2, <1>4, <1>5, <2>1, <2>2, <3>1, NoCalls, StepGoesOn
  <2>3. CASE Automatic /\ GoTo("done", <<>>)
    BY <1>4, <1>6, <2>1, <2>3
  <2>4. CASE request.api # "END_PARENT" /\ Ends("SUCCESS")
    <3>1. request.api # "START_PARENT"
      BY <2>1
    <3> QED BY <1>1, <1>2, <1>3, <1>4, <2>1, <2>4, <3>1, StepEnds
  <2>5. CASE request' = [request EXCEPT !.stage = "deauth",
                             !.aids = {a \in @ : a >= Min(there)}]
    <3>1. /\ request' \in RequestRecords
          /\ request'.stage = "deauth" /\ request'.calls = <<>>
          /\ request'.api = request.api /\ request'.buf = request.buf
      <4>1. {a \in request.aids : a >= Min(there)} \in SUBSET Everybody
        BY <1>2 DEF RequestRecords
      <4> HIDE DEF there
      <4> QED BY <1>2, <1>5, <2>5, <4>1 DEF RequestRecords
    <3> QED BY <1>1, <1>2, <1>4, <1>5, <2>1, <3>1, NoCalls, StepGoesOn
  <2> QED BY <2>1, <2>2, <2>3, <2>4, <2>5
<1>9. CASE ChildDeauthenticated
  <2> DEFINE aid == Min(request.aids)
             calls == IF aid \in status.children THEN <<Gone(aid)>> ELSE <<>>
  <2>1. /\ wl' = wl /\ request.stage = "deauth" /\ request.api \in Leaving
        /\ \/ /\ request' = [request EXCEPT !.stage = "children", !.aids = @ \ {aid},
                                 !.calls = calls]
              /\ status' = [status EXCEPT !.children = @ \ {aid}]
           \/ Ends("FAILED") /\ UNCHANGED status
    BY <1>2, <1>9 DEF ChildDeauthenticated, At
  <2>2. calls \in Seq(Callbacks) /\ NoFinal(calls)
    <3>1. CASE aid \in status.children
      <4>1. aid \in Everybody
        BY <3>1, <1>2 DEF Statuses
      <4>2. Gone(aid) \in Callbacks /\ ~IsFinal(Gone(aid))
        BY <4>1, GoneCallback, FinalAnswers
      <4> HIDE DEF aid
      <4>3. calls = <<Gone(aid)>>
        BY <3>1
      <4> HIDE DEF calls
      <4> QED BY <4>2, <4>3 DEF NoFinal
    <3>2. CASE aid \notin status.children
      BY <3>2, NoCalls
    <3> QED BY <3>1, <3>2
  <2> HIDE DEF calls
  <2>3. CASE /\ request' = [request EXCEPT !.stage = "children", !.aids = @ \ {aid},
                                !.calls = calls]
             /\ status' = [status EXCEPT !.children = @ \ {aid}]
    <3> HIDE DEF aid
    <3>1. /\ request' \in RequestRecords
          /\ request'.stage = "children" /\ request'.calls = calls
          /\ request'.api = request.api /\ request'.buf = request.buf
      BY <1>2, <1>5, <2>2, <2>3 DEF RequestRecords
    <3>2. /\ status' \in Statuses
          /\ status'.mp = status.mp /\ status'.state = status.state
      BY <1>2, <2>3 DEF Statuses
    <3> QED BY <1>1, <1>2, <1>4, <1>5, <2>1, <2>2, <3>1, <3>2, StepGoesOn
  <2>4. CASE Ends("FAILED") /\ UNCHANGED status
    BY <1>1, <1>2, <1>3, <1>4, <2>1, <2>4, StepEnds
  <2> QED BY <2>1, <2>3, <2>4
<1>10. CASE IdleDriver
  <2> DEFINE answer == Answer(request.api, "SUCCESS")
  <2>1. /\ request.stage = "idle" /\ wl' \in Drivers
        /\ status' = [status EXCEPT !.state = "IDLE"] \/ UNCHANGED status
        /\ \/ Ends("SUCCESS") \/ Ends("FAILED")
           \/ Automatic /\ GoTo("done", <<Gone(0)>>)
           \/ GoTo("done", <<Gone(0), answer>>)
    BY <1>2, <1>10 DEF IdleDriver, At
  <2>2. status' \in Statuses /\ ~status'.mp
    BY <1>2, <1>5, <2>1 DEF Statuses, States
  <2>3. Gone(0) \in Callbacks /\ ~IsFinal(Gone(0))
    BY GoneCallback, FinalAnswers DEF Everybody
  <2>4. CASE Ends("SUCCESS") \/ Ends("FAILED")
    BY <1>1, <1>3, <1>4, <2>1, <2>2, <2>4, StepEnds
  <2>5. CASE Automatic /\ GoTo("done", <<Gone(0)>>)
    <3>1. <<Gone(0)>> \in Seq(Callbacks) /\ NoFinal(<<Gone(0)>>)
      BY <2>3 DEF NoFinal
    <3>2. /\ request' \in RequestRecords
          /\ request'.stage = "done" /\ request'.calls = <<Gone(0)>>
          /\ request'.api = request.api /\ request'.buf = request.buf
          /\ AnswerLast(request') /\ Unanswered' = Unanswered
      BY <1>1, <2>5, <3>1, EndsSilently
    <3>3. MpStopped(status', request')
      BY <2>2, <3>2 DEF MpStopped, Stopped
    <3> QED BY <1>4, <2>1, <2>2, <3>2, <3>3 DEF Handled
  <2>6. CASE GoTo("done", <<Gone(0), answer>>)
    <3>1. /\ answer \in Callbacks /\ IsFinal(answer) /\ answer.api = request.api
      BY <1>2, FinalAnswers
         DEF RequestRecords, Callbacks, Answer, Cb, Kinds, Results, Everybody
    <3> HIDE DEF answer
    <3> DEFINE calls == <<Gone(0), answer>>
    <3>2. /\ calls \in Seq(Callbacks) /\ Len(calls) = 2 /\ DOMAIN calls = 1 .. 2
          /\ calls[1] = Gone(0) /\ calls[2] = answer
      BY <2>3, <3>1
    <3>3. request' = [request EXCEPT !.stage = "done", !.calls = calls]
      BY <2>6 DEF GoTo
    <3> HIDE DEF calls
    <3>4. /\ request' \in RequestRecords
          /\ request'.stage = "done" /\ request'.calls = calls
          /\ request'.api = request.api /\ request'.buf = request.buf
      BY <1>2, <3>2, <3>3 DEF RequestRecords
    <3>5. \A i \in 1 .. 2 : i # 2 => i = 1
      OBVIOUS
    <3>6. AnswerLast(request') /\ Unanswered' = Unanswered
      BY <1>1, <2>3, <3>1, <3>2, <3>4, <3>5, Answers
    <3>7. MpStopped(status', request')
      BY <2>2, <3>4 DEF MpStopped, Stopped
    <3> QED BY <1>4, <2>1, <2>2, <3>4, <3>6, <3>7 DEF Handled
  <2> QED BY <2>1, <2>4, <2>5, <2>6
<1> QED BY <1>7, <1>8, <1>9, <1>10

\* The handlers that keep the reports of the driver away.
LEMMA WithInterruptsOff ==
    ASSUME Inv, Connected \/ WMSP_StartMP \/ WMSP_Reset \/ ResetReports
    PROVE  Handled /\ UNCHANGED HandlerVars
<1>1. Working
  <2>1. At("start") \/ At("associated") \/ At("captured")
    BY DEF Connected, WMSP_StartMP, WMSP_Reset, ResetReports, Serves
  <2> QED BY <2>1, WorkingFacts DEF OpenStages, Stopped
<1>2. /\ status \in Statuses /\ wl \in {"idle", "class1", "parent", "child"}
      /\ request \in RequestRecords
      /\ status.mp => status.state \in MpStates
      /\ request.stage \in Stopped => ~status.mp
      /\ request.calls = <<>>
  BY <1>1 DEF Working, Typed, TypeOK, MpStopped
<1>3. UNCHANGED HandlerVars /\ wl' = wl
  BY DEF Connected, WMSP_StartMP, WMSP_Reset, ResetReports
<1>4. CASE Connected
  <2> DEFINE told == Cb("START_CONNECT", "connected", "SUCCESS", 0)
  <2>1. /\ request.stage = "associated"
        /\ status' = [status EXCEPT !.children = {0}, !.state = "CHILD"]
        /\ request' = [request EXCEPT !.stage = "done", !.masked = TRUE, !.calls = <<told>>]
    BY <1>4 DEF Connected, At
  <2>2. request.api = "START_CONNECT" /\ ~status.mp
    BY <1>1, <2>1 DEF Working, MpStopped, Stopped
  <2>3. /\ told \in Callbacks /\ IsFinal(told) /\ told.api = "START_CONNECT"
        /\ told # Answer("START_PARENT", "SUCCESS")
    BY DEF Cb, Answer, Callbacks, Kinds, Results, Everybody, Apis, AllowedIn, IsFinal
  <2> HIDE DEF told
  <2>4. /\ <<told>> \in Seq(Callbacks) /\ Len(<<told>>) = 1 /\ DOMAIN <<told>> = 1 .. 1
        /\ <<told>>[1] = told
    BY <2>3
  <2>5. /\ request' \in RequestRecords
        /\ request'.stage = "done" /\ request'.calls = <<told>>
        /\ request'.api = request.api /\ request'.buf = request.buf
    BY <1>2, <2>1, <2>4 DEF RequestRecords
  <2>6. AnswerLast(request') /\ Unanswered' = Unanswered
    BY <1>1, <2>2, <2>3, <2>4, <2>5, Answers
  <2>7. status' \in Statuses /\ ~status'.mp
    BY <1>2, <2>1, <2>2 DEF Statuses, States, Children, Everybody
  <2>8. MpStopped(status', request')
    BY <2>5, <2>7 DEF MpStopped, Stopped
  <2> QED BY <1>2, <1>3, <2>5, <2>6, <2>7, <2>8 DEF Handled
<1>5. CASE WMSP_StartMP
  <2> DEFINE told == Answer("START_MP", "SUCCESS")
  <2>1. /\ request.api = "START_MP"
        /\ \/ Ends("INVALID_PARAM") /\ UNCHANGED status
           \/ Ends("ILLEGAL_STATE") /\ status' = [status EXCEPT !.mp = FALSE]
           \/ /\ status.state \in {"PARENT", "CHILD"}
              /\ status' = [status EXCEPT !.mp = FALSE,
                     !.state = IF @ = "PARENT" THEN "MP_PARENT" ELSE "MP_CHILD"]
              /\ request' = [request EXCEPT !.stage = "mpstarted", !.masked = TRUE,
                                 !.calls = <<told>>]
    BY <1>5 DEF WMSP_StartMP, Serves
  <2>2. {"INVALID_PARAM", "ILLEGAL_STATE"} \subseteq Results
    BY DEF Results
  <2>3. CASE Ends("INVALID_PARAM") /\ UNCHANGED status
    BY <1>1, <1>2, <1>3, <2>1, <2>2, <2>3, StepEnds
  <2>4. CASE Ends("ILLEGAL_STATE") /\ status' = [status EXCEPT !.mp = FALSE]
    <3>1. status' \in Statuses /\ ~status'.mp
      BY <1>2, <2>4 DEF Statuses
    <3> QED BY <1>1, <1>2, <1>3, <2>1, <2>2, <2>4, <3>1, StepEnds
  <2>5. CASE /\ status.state \in {"PARENT", "CHILD"}
             /\ status' = [status EXCEPT !.mp = FALSE,
                    !.state = IF @ = "PARENT" THEN "MP_PARENT" ELSE "MP_CHILD"]
             /\ request' = [request EXCEPT !.stage = "mpstarted", !.masked = TRUE,
                                !.calls = <<told>>]
    <3>1. /\ told \in Callbacks /\ IsFinal(told) /\ told.api = "START_MP"
          /\ told # Answer("START_PARENT", "SUCCESS")
      BY DEF Cb, Answer, Callbacks, Kinds, Results, Everybody, Apis, AllowedIn, IsFinal
    <3> HIDE DEF told
    <3>2. /\ <<told>> \in Seq(Callbacks) /\ Len(<<told>>) = 1 /\ DOMAIN <<told>> = 1 .. 1
          /\ <<told>>[1] = told
      BY <3>1
    <3>3. /\ request' \in RequestRecords /\ request'.masked
          /\ request'.stage = "mpstarted" /\ request'.calls = <<told>>
          /\ request'.api = request.api /\ request'.buf = request.buf
      BY <1>2, <2>5, <3>2 DEF RequestRecords
    <3>4. AnswerLast(request') /\ Unanswered' = Unanswered
      BY <1>1, <2>1, <3>1, <3>2, <3>3, Answers
    <3>5. status' \in Statuses /\ ~status'.mp /\ status'.state \in MpStates
      BY <1>2, <2>5 DEF Statuses, States, Parents, Children, MpStates
    <3>6. MpStopped(status', request')
      BY <2>1, <3>3, <3>5 DEF MpStopped, Stopped
    <3> QED BY <1>2, <1>3, <3>3, <3>4, <3>5, <3>6 DEF Handled
  <2> QED BY <2>1, <2>3, <2>4, <2>5
<1>6. CASE WMSP_Reset
  <2> DEFINE state == IF status.mp THEN Unstarted(status.state) ELSE status.state
             aids == IF state \in {"PARENT", "CHILD"} THEN status.children ELSE {}
  <2>1. /\ status' = [status EXCEPT !.mp = FALSE, !.state = state, !.children = {}]
        /\ \E fparent \in BOOLEAN :
               request' = [request EXCEPT !.stage = "captured", !.entry = fparent,
                               !.aids = aids]
    BY <1>6 DEF WMSP_Reset
  <2>2. state \in States /\ aids \in SUBSET Everybody
    BY <1>2 DEF Statuses, States, Unstarted, Parents, Children
  <2> HIDE DEF state, aids
  <2>3. status' \in Statuses /\ ~status'.mp
    BY <1>2, <2>1, <2>2 DEF Statuses
  <2>4. "captured" \in OpenStages /\ "captured" \in Stopped
    BY DEF OpenStages, Stopped
  <2>5. /\ request' \in RequestRecords
        /\ request'.stage = "captured" /\ request'.calls = <<>>
        /\ request'.api = request.api /\ request'.buf = request.buf
    BY <1>2, <2>1, <2>2, <2>4 DEF RequestRecords
  <2> QED BY <1>1, <1>2, <1>3, <2>3, <2>4, <2>5, NoCalls, StepGoesOn
<1>7. CASE ResetReports
  <2> DEFINE calls == SetToSeq({Gone(a) : a \in request.aids})
  <2>1. /\ request.stage = "captured"
        /\ status' = [status EXCEPT !.entry = IF request.entry THEN FALSE ELSE @]
        /\ GoTo("station", calls)
    BY <1>7 DEF ResetReports, At
  <2>2. calls \in Seq(Callbacks) /\ NoFinal(calls)
    <3>1. request.aids \in SUBSET Everybody
      BY <1>2 DEF RequestRecords
    <3> QED BY <3>1, GoneCalls
  <2> HIDE DEF calls
  <2>3. "station" \in OpenStages /\ "station" \in Stopped
    BY DEF OpenStages, Stopped
  <2>4. status' \in Statuses /\ ~status'.mp
    BY <1>2, <2>1 DEF Statuses, Stopped
  <2>5. /\ request' \in RequestRecords
        /\ request'.stage = "station" /\ request'.calls = calls
        /\ request'.api = request.api /\ request'.buf = request.buf
    BY <1>1, <2>1, <2>2, <2>3, GoesOnWell
  <2> QED BY <1>1, <1>2, <1>3, <2>2, <2>3, <2>4, <2>5, StepGoesOn
<1> QED BY <1>4, <1>5, <1>6, <1>7

\* MP's flag goes up after the answer, before the reports are let in again.
LEMMA AfterMpStarted ==
    ASSUME Inv, MpStarted
    PROVE  Handled /\ UNCHANGED HandlerVars
<1>1. /\ status \in Statuses /\ wl \in {"idle", "class1", "parent", "child"}
      /\ request \in RequestRecords /\ request.stage = "mpstarted" /\ request.calls = <<>>
      /\ status.state \in MpStates
  BY DEF Inv, Typed, TypeOK, MpStopped, MpStarted, At
<1>2. UNCHANGED HandlerVars /\ wl' = wl /\ status' = [status EXCEPT !.mp = TRUE]
  BY DEF MpStarted
<1> DEFINE late == Cb("START_MP", "late", "FAILED", 0)
<1>3. late \in Callbacks /\ ~IsFinal(late) /\ late # Answer("START_PARENT", "SUCCESS")
  BY DEF Cb, Answer, Callbacks, Kinds, Results, Everybody, Apis, AllowedIn, IsFinal
<1>4. PICK calls \in {<<>>, <<late>>} :
          request' = [request EXCEPT !.stage = "done", !.masked = FALSE, !.calls = calls]
  BY DEF MpStarted
<1> HIDE DEF late
<1>5. calls \in Seq(Callbacks) /\ NoFinal(calls)
      /\ \A i \in DOMAIN calls : calls[i] # Answer("START_PARENT", "SUCCESS")
  <2>1. CASE calls = <<>>
    BY <2>1, NoCalls
  <2>2. CASE calls = <<late>>
    BY <1>3, <2>2 DEF NoFinal
  <2> QED BY <2>1, <2>2
<1>6. /\ request' \in RequestRecords
      /\ request'.stage = "done" /\ request'.calls = calls
      /\ request'.api = request.api /\ request'.buf = request.buf
  BY <1>1, <1>4, <1>5 DEF RequestRecords
<1>7. status' \in Statuses /\ status'.state \in MpStates
  BY <1>1, <1>2 DEF Statuses
<1>8. AnswerLast(request')
  BY <1>5, <1>6 DEF AnswerLast, NoFinal
<1>9. MpStopped(status', request')
  BY <1>5, <1>6, <1>7 DEF MpStopped, Stopped
<1>10. Unanswered' = Unanswered
  <2>1. Unanswered = <<>>
    BY <1>1 DEF Unanswered
  <2>2. ~\E i \in DOMAIN request'.calls : IsFinal(request'.calls[i])
    BY <1>5, <1>6 DEF NoFinal
  <2>3. Unanswered' = <<>>
    BY <1>6, <2>2 DEF Unanswered
  <2> QED BY <2>1, <2>3
<1> QED BY <1>1, <1>2, <1>6, <1>7, <1>8, <1>9, <1>10 DEF Handled

(***************************************************************************)
(* The steps.                                                              *)
(***************************************************************************)
LEMMA HandledKeepsInv ==
    ASSUME Inv, Handled, UNCHANGED HandlerVars
    PROVE  Inv'
<1>1. /\ connectedAids' = connectedAids /\ head' = head /\ accepted' = accepted
      /\ outstanding' = outstanding /\ requestQ' = requestQ /\ indicate' = indicate
      /\ exclusive' = exclusive /\ callbackFlag' = callbackFlag
      /\ fifo7to9' = fifo7to9 /\ word' = word
  BY DEF HandlerVars, cmdVars, cbVars
<1>2. /\ status' \in Statuses /\ wl' \in {"idle", "class1", "parent", "child"}
      /\ request' \in RequestRecords
      /\ request'.api = request.api /\ request'.buf = request.buf
      /\ AnswerLast(request') /\ MpStopped(status', request')
      /\ Unanswered' = Unanswered
  BY DEF Handled
<1>3. Typed'
  <2>1. status'.state \in States /\ status'.children \subseteq Everybody
    BY <1>2 DEF Statuses
  <2> QED BY <1>1, <1>2, <2>1 DEF Inv, Typed, TypeOK, Everybody
<1>4. Numbered' /\ OneEach' /\ BuffersInUse'
  BY <1>1, <1>2 DEF Inv, Numbered, OneEach, BuffersInUse
<1>5. OneBuffer'
  BY <1>1 DEF Inv, OneBuffer
<1>6. InFlight' = InFlight
  BY <1>1 DEF InFlight
<1>7. InOrder'
  BY <1>1, <1>2, <1>6 DEF Inv, InOrder
<1> QED BY <1>2, <1>3, <1>4, <1>5, <1>7 DEF Inv

\* A step that leaves the queue, the request and what has been sent alone.
LEMMA KeepsInOrder ==
    ASSUME Inv, requestQ' = requestQ, outstanding' = outstanding, request' = request,
           word' = word, fifo7to9' = fifo7to9
    PROVE  InOrder' /\ Numbered' /\ OneEach'
<1>1. InFlight' = InFlight
  BY DEF InFlight
<1>2. Unanswered' = Unanswered
  BY DEF Unanswered
<1>3. InOrder'
  BY <1>1, <1>2 DEF Inv, InOrder
<1>4. Numbered' /\ OneEach'
  BY DEF Inv, Numbered, OneEach
<1> QED BY <1>3, <1>4

\* The request thread takes a request.
LEMMA TakeStep ==
    ASSUME Inv, WMSP_RequestThread
    PROVE  Inv'
<1> DEFINE r == Head(requestQ)
<1>1. /\ request.stage = "rest" /\ requestQ # <<>> /\ requestQ' = Tail(requestQ)
      /\ request' = [Resting EXCEPT !.api = r.api, !.aids = r.aids, !.entry = r.entry,
                                    !.buf = r.buf, !.stage = "start"]
      /\ UNCHANGED <<status, wl, connectedAids, head, accepted, outstanding, indicate,
                     exclusive, callbackFlag, fifo7to9, word>>
  BY DEF WMSP_RequestThread, cmdVars, cbVars
<1>2. /\ requestQ \in Seq(QueuedRequests)
      /\ Len(requestQ) \in Nat \ {0} /\ r = requestQ[1] /\ r \in QueuedRequests
      /\ Tail(requestQ) \in Seq(QueuedRequests)
      /\ DOMAIN requestQ = 1 .. Len(requestQ)
      /\ DOMAIN Tail(requestQ) = 1 .. Len(requestQ) - 1
      /\ \A i \in 1 .. Len(requestQ) - 1 : Tail(requestQ)[i] = requestQ[i + 1]
  <2>1. requestQ \in Seq(QueuedRequests)
    BY DEF Inv, Typed
  <2> QED BY <1>1, <2>1, EmptySeq, LenProperties, HeadTailProperties
<1> HIDE DEF r
<1>3. /\ request' \in RequestRecords /\ request'.stage = "start" /\ request'.calls = <<>>
      /\ request'.api = r.api /\ request'.buf = r.buf
  BY <1>1, <1>2, NoCalls DEF Resting, QueuedRequests, RequestRecords, OpenStages
<1>4. Typed'
  BY <1>1, <1>2, <1>3 DEF Inv, Typed, TypeOK
<1>5. Numbered' /\ OneEach' /\ BuffersInUse'
  <2>1. \A i \in DOMAIN requestQ' : i + 1 \in DOMAIN requestQ /\ requestQ'[i] = requestQ[i + 1]
    BY <1>1, <1>2
  <2>2. 1 \in DOMAIN requestQ /\ \A i \in DOMAIN requestQ' : i + 1 # 1 /\ i \in Int
    BY <1>1, <1>2
  <2>3. Numbered'
    BY <1>2, <1>3, <2>1, <2>2 DEF Inv, Numbered
  <2>4. OneEach'
    <3>1. \A i, j \in DOMAIN requestQ' :
              i # j => requestQ'[i].buf # requestQ'[j].buf \/ requestQ'[i].buf = 0
      <4>1. ASSUME NEW i \in DOMAIN requestQ', NEW j \in DOMAIN requestQ', i # j
            PROVE  requestQ'[i].buf # requestQ'[j].buf \/ requestQ'[i].buf = 0
        <5>1. i + 1 # j + 1
          BY <4>1, <2>2
        <5> QED BY <5>1, <2>1 DEF Inv, OneEach
      <4> QED BY <4>1
    <3>2. \A i \in DOMAIN requestQ' :
              requestQ'[i].buf # request'.buf \/ requestQ'[i].buf = 0
      BY <1>2, <1>3, <2>1, <2>2 DEF Inv, OneEach
    <3> QED BY <3>1, <3>2 DEF OneEach
  <2>5. BuffersInUse'
    BY <1>1, <1>2, <1>3, <2>1, <2>2 DEF Inv, BuffersInUse
  <2> QED BY <2>3, <2>4, <2>5
<1>6. AnswerLast(request') /\ MpStopped(status', request')
  <2>1. status' = status /\ "start" \notin Stopped
    BY <1>1 DEF Stopped
  <2> QED BY <1>3, <2>1 DEF Inv, AnswerLast, MpStopped
<1>7. OneBuffer'
  BY <1>1 DEF Inv, OneBuffer
<1>8. InOrder'
  <2>1. PICK cs \in Seq(Apis) :
            outstanding = (InFlight \o Unanswered) \o cs /\ AreCommandsOf(cs, requestQ)
    BY DEF Inv, InOrder
  <2>2. InFlight' = InFlight /\ outstanding' = outstanding
    BY <1>1 DEF InFlight
  <2>3. Unanswered = <<>>
    BY <1>1 DEF Inv, AnswerLast, Unanswered
  <2>4. Unanswered' = IF r.buf # 0 THEN <<r.api>> ELSE <<>>
    BY <1>3 DEF Unanswered
  <2>5. InFlight \in Seq(Apis) /\ outstanding = InFlight \o cs
    <3>1. InFlight \in Seq(Apis)
      BY DEF InFlight
    <3> QED BY <2>1, <2>3, <3>1, ConcatEmptySeq
  <2>6. CASE r.buf = 0
    BY <1>1, <1>2, <2>1, <2>2, <2>3, <2>4, <2>6, TakeRequest DEF InOrder, r
  <2>7. CASE r.buf # 0
    <3>1. cs # <<>> /\ Head(cs) = r.api /\ AreCommandsOf(Tail(cs), Tail(requestQ))
      BY <1>1, <1>2, <2>1, <2>7, TakeRequest DEF r
    <3>2. /\ Tail(cs) \in Seq(Apis) /\ r.api \in Apis /\ <<r.api>> \in Seq(Apis)
          /\ cs = <<r.api>> \o Tail(cs)
      <4>1. r.api \in Apis /\ Tail(cs) \in Seq(Apis)
        BY <2>1, <3>1, HeadTailProperties
      <4> QED BY <2>1, <3>1, <4>1
    <3>3. outstanding = (InFlight \o <<r.api>>) \o Tail(cs)
      <4>1. (InFlight \o <<r.api>>) \o Tail(cs) = InFlight \o (<<r.api>> \o Tail(cs))
        BY ONLY <2>5, <3>2, ConcatAssociative
      <4> QED BY <2>5, <3>2, <4>1
    <3>4. outstanding' = (InFlight' \o Unanswered') \o Tail(cs)
      BY <2>2, <2>4, <2>7, <3>3
    <3> QED BY <1>1, <3>1, <3>2, <3>4 DEF InOrder
  <2> QED BY <2>6, <2>7
<1> QED BY <1>4, <1>5, <1>6, <1>7, <1>8 DEF Inv

\* The buffer of a request is given back.
LEMMA DoneStep ==
    ASSUME Inv, RequestDone
    PROVE  Inv'
<1>1. /\ request.stage = "done" /\ request.calls = <<>> /\ request' = Resting
      /\ accepted' = accepted \cup ({request.buf} \ {0})
      /\ UNCHANGED <<status, wl, connectedAids, head, outstanding, requestQ, indicate,
                     exclusive, callbackFlag, fifo7to9, word>>
  BY DEF RequestDone, cbVars
<1>2. /\ request' \in RequestRecords /\ request'.stage = "rest" /\ request'.calls = <<>>
      /\ request'.api = "none" /\ request'.buf = 0
  <2>1. 0 \in 0 .. NumBufs
    OBVIOUS
  <2> QED BY <1>1, <2>1, NoCalls DEF Resting, RequestRecords
<1>3. request.buf \in 0 .. NumBufs
  BY DEF Inv, Typed, RequestRecords
<1>4. Typed'
  <2>1. accepted' \subseteq 1 .. NumBufs
    <3>1. accepted \subseteq 1 .. NumBufs /\ {request.buf} \ {0} \subseteq 1 .. NumBufs
      BY <1>3 DEF Inv, Typed, TypeOK
    <3> QED BY <1>1, <3>1
  <2> QED BY <1>1, <1>2, <2>1 DEF Inv, Typed, TypeOK
<1>5. Numbered' /\ OneEach'
  BY <1>1, <1>2 DEF Inv, Numbered, OneEach, Apis, AllowedIn
<1>6. BuffersInUse'
  <2>1. 0 \notin accepted'
    BY <1>4 DEF Typed, TypeOK
  <2> QED BY <1>1, <1>2, <2>1 DEF Inv, BuffersInUse, OneEach
<1>7. AnswerLast(request') /\ MpStopped(status', request')
  BY <1>1, <1>2 DEF Inv, AnswerLast, MpStopped, Stopped
<1>8. OneBuffer'
  BY <1>1 DEF Inv, OneBuffer
<1>9. InOrder'
  <2>1. InFlight' = InFlight
    BY <1>1 DEF InFlight
  <2>2. Unanswered = <<>> /\ Unanswered' = <<>>
    BY <1>1, <1>2 DEF Unanswered
  <2> QED BY <1>1, <2>1, <2>2 DEF Inv, InOrder
<1> QED BY <1>4, <1>5, <1>6, <1>7, <1>8, <1>9 DEF Inv

LEMMA GetsBufferStep ==
    ASSUME Inv, RequestGetsBuffer \/ IndicateGetsBuffer
    PROVE  Inv'
<1>1. /\ exclusive' \in {"none", "request", "indicate"}
      /\ UNCHANGED <<status, wl, connectedAids, head, accepted, outstanding, requestQ, request,
                     indicate, callbackFlag, fifo7to9, word>>
  BY DEF RequestGetsBuffer, IndicateGetsBuffer, GetBuffer, cmdVars
<1>2. Typed'
  BY <1>1 DEF Inv, Typed, TypeOK
<1>3. InOrder' /\ Numbered' /\ OneEach'
  BY <1>1, KeepsInOrder
<1>4. BuffersInUse' /\ OneBuffer'
  BY <1>1 DEF Inv, BuffersInUse, OneBuffer
<1>5. AnswerLast(request') /\ MpStopped(status', request')
  BY <1>1 DEF Inv
<1> QED BY <1>2, <1>3, <1>4, <1>5 DEF Inv

\* A callback of the request thread goes into the shared buffer.
LEMMA RequestReturnsStep ==
    ASSUME Inv, RequestReturns
    PROVE  Inv'
<1> DEFINE c == Head(request.calls)
<1>1. /\ request.calls # <<>> /\ ~callbackFlag /\ callbackFlag' = TRUE
      /\ fifo7to9' = c /\ word' = TRUE /\ exclusive' = "none"
      /\ request' = [request EXCEPT !.calls = Tail(@),
                         !.masked = IF request.stage = "done" THEN FALSE ELSE @]
      /\ UNCHANGED <<wl, connectedAids, head, accepted, outstanding, requestQ, indicate>>
  BY DEF RequestReturns, ReturnResult, cmdVars
<1>2. /\ status' = status \/ (/\ status' = [status EXCEPT !.state = "PARENT"]
                              /\ request.stage = "done"
                              /\ c = Answer("START_PARENT", "SUCCESS"))
  BY DEF RequestReturns
<1>3. /\ request \in RequestRecords /\ request.calls \in Seq(Callbacks)
      /\ Len(request.calls) \in Nat \ {0} /\ c = request.calls[1] /\ c \in Callbacks
      /\ Tail(request.calls) \in Seq(Callbacks)
      /\ DOMAIN request.calls = 1 .. Len(request.calls)
      /\ Len(Tail(request.calls)) = Len(request.calls) - 1
      /\ DOMAIN Tail(request.calls) = 1 .. Len(request.calls) - 1
      /\ \A i \in 1 .. Len(request.calls) - 1 :
             Tail(request.calls)[i] = request.calls[i + 1]
  <2>1. request \in RequestRecords /\ request.calls \in Seq(Callbacks)
    BY DEF Inv, Typed, RequestRecords
  <2> QED BY <1>1, <2>1, EmptySeq, LenProperties, HeadTailProperties
<1> HIDE DEF c
<1>4. /\ request' \in RequestRecords /\ request'.calls = Tail(request.calls)
      /\ request'.stage = request.stage /\ request'.api = request.api
      /\ request'.buf = request.buf
      /\ request.stage # "done" => request'.masked = request.masked
  BY <1>1, <1>3 DEF RequestRecords
<1>5. \A i \in DOMAIN request'.calls :
          i + 1 \in DOMAIN request.calls /\ request'.calls[i] = request.calls[i + 1]
  BY <1>3, <1>4
<1>6. /\ status' \in Statuses /\ (status'.mp => status.mp)
      /\ status'.mp => status'.state = status.state
  <2>1. status \in Statuses /\ MpStopped(status, request) /\ 1 \in DOMAIN request.calls
    BY <1>3 DEF Inv, Typed
  <2>2. c = Answer("START_PARENT", "SUCCESS") => ~status.mp
    BY <1>3, <2>1 DEF MpStopped
  <2> QED BY <1>2, <2>1, <2>2 DEF Statuses, States, Parents
<1>7. Typed'
  <2>1. status'.state \in States /\ status'.children \subseteq Everybody
    BY <1>6 DEF Statuses
  <2> QED BY <1>1, <1>3, <1>4, <1>6, <2>1 DEF Inv, Typed, TypeOK, Everybody
<1>8. Numbered' /\ OneEach' /\ BuffersInUse'
  BY <1>1, <1>4 DEF Inv, Numbered, OneEach, BuffersInUse
<1>9. AnswerLast(request')
  <2>1. AnswerLast(request)
    BY DEF Inv
  <2>2. ASSUME NEW i \in DOMAIN request'.calls, IsFinal(request'.calls[i])
        PROVE  /\ i = Len(request'.calls) /\ request'.calls[i].api = request'.api
               /\ request'.stage \in {"done", "mpstarted"}
    <3>1. i + 1 = Len(request.calls) /\ request.calls[i + 1].api = request.api
          /\ request.stage \in {"done", "mpstarted"}
      BY <1>5, <2>1, <2>2 DEF AnswerLast
    <3> QED BY <1>3, <1>4, <1>5, <3>1
  <2>3. request.stage # "rest"
    BY <1>1, <2>1 DEF AnswerLast
  <2> QED BY <1>4, <2>2, <2>3 DEF AnswerLast
<1>10. MpStopped(status', request')
  <2>1. MpStopped(status, request)
    BY DEF Inv
  <2>2. request.stage = "mpstarted" => status'.state = status.state
    BY <1>2
  <2>3. \A i \in DOMAIN request'.calls :
            request'.calls[i] = Answer("START_PARENT", "SUCCESS") => ~status'.mp
    BY <1>5, <1>6, <2>1 DEF MpStopped
  <2>4. status'.mp => status'.state \in MpStates
    BY <1>6, <2>1 DEF MpStopped
  <2> QED BY <1>4, <1>6, <2>1, <2>2, <2>3, <2>4 DEF MpStopped
<1>11. OneBuffer'
  BY <1>1 DEF Inv, OneBuffer
<1>12. InOrder'
  <2>1. AnswerLast(request) /\ Numbered /\ 1 \in DOMAIN request.calls
    BY <1>3 DEF Inv
  <2>2. InFlight = <<>>
    BY <1>1 DEF Inv, OneBuffer, InFlight
  <2>3. InFlight' = IF IsFinal(c) /\ c.api \in Apis THEN <<c.api>> ELSE <<>>
    BY <1>1 DEF InFlight
  <2>4. InFlight' \o Unanswered' = InFlight \o Unanswered
    <3>1. CASE IsFinal(c)
      <4>1. /\ c.api = request.api /\ Len(request.calls) = 1
            /\ request.stage \in {"done", "mpstarted"}
        BY <1>3, <2>1, <3>1 DEF AnswerLast
      <4>2. ~\E i \in DOMAIN request'.calls : IsFinal(request'.calls[i])
        BY <1>3, <1>4, <4>1
      <4>3. Unanswered' = <<>>
        BY <1>4, <4>1, <4>2 DEF Unanswered
      <4>4. \E i \in DOMAIN request.calls : IsFinal(request.calls[i])
        BY <1>3, <2>1, <3>1
      <4>5. Unanswered = IF request.buf # 0 THEN <<request.api>> ELSE <<>>
        BY <4>1, <4>4 DEF Unanswered
      <4>6. request.buf # 0 <=> request.api \in Apis
        BY <2>1 DEF Numbered
      <4>7. InFlight' = Unanswered
        BY <2>3, <3>1, <4>1, <4>5, <4>6
      <4>8. Unanswered \in Seq({request.api})
        <5>1. <<request.api>> \in Seq({request.api}) /\ <<>> \in Seq({request.api})
          OBVIOUS
        <5> QED BY <4>5, <5>1
      <4>9. InFlight' \o Unanswered' = Unanswered
        BY ONLY <4>3, <4>7, <4>8, ConcatEmptySeq
      <4>10. InFlight \o Unanswered = Unanswered
        BY ONLY <2>2, <4>8, ConcatEmptySeq
      <4> QED BY <4>9, <4>10
    <3>2. CASE ~IsFinal(c)
      <4>1. (\E i \in DOMAIN request'.calls : IsFinal(request'.calls[i]))
            <=> (\E i \in DOMAIN request.calls : IsFinal(request.calls[i]))
        <5>1. ASSUME NEW i \in DOMAIN request'.calls, IsFinal(request'.calls[i])
              PROVE  \E k \in DOMAIN request.calls : IsFinal(request.calls[k])
          BY <1>5, <5>1
        <5>2. ASSUME NEW k \in DOMAIN request.calls, IsFinal(request.calls[k])
              PROVE  \E i \in DOMAIN request'.calls : IsFinal(request'.calls[i])
          <6>1. k # 1
            BY <1>3, <3>2, <5>2
          <6>2. k - 1 \in DOMAIN request'.calls /\ (k - 1) + 1 = k
            BY <1>3, <1>4, <6>1
          <6>3. request'.calls[k - 1] = request.calls[k]
            BY <1>5, <6>2
          <6> QED BY <5>2, <6>2, <6>3
        <5> QED BY <5>1, <5>2
      <4>2. Unanswered' = Unanswered
        BY <1>4, <4>1 DEF Unanswered
      <4> QED BY <2>2, <2>3, <3>2, <4>2
    <3> QED BY <3>1, <3>2
  <2> QED BY <1>1, <2>4 DEF Inv, InOrder
<1> QED BY <1>7, <1>8, <1>9, <1>10, <1>11, <1>12 DEF Inv

\* A callback of the indicate thread goes into the shared buffer.
LEMMA IndicateReturnsStep ==
    ASSUME Inv, IndicateReturns
    PROVE  Inv'
<1>1. /\ indicate # <<>> /\ ~callbackFlag /\ callbackFlag' = TRUE
      /\ fifo7to9' = Head(indicate) /\ word' = TRUE /\ exclusive' = "none"
      /\ indicate' = Tail(indicate)
      /\ UNCHANGED <<status, wl, connectedAids, head, accepted, outstanding, requestQ, request>>
  BY DEF IndicateReturns, ReturnResult, cmdVars
<1>2. indicate \in Seq(Callbacks)
  BY DEF Inv, Typed
<1>3. /\ Head(indicate) = indicate[1] /\ Head(indicate) \in Callbacks
      /\ 1 \in DOMAIN indicate /\ Tail(indicate) \in Seq(Callbacks)
      /\ \A i \in DOMAIN Tail(indicate) :
             i + 1 \in DOMAIN indicate /\ Tail(indicate)[i] = indicate[i + 1]
  BY <1>1, <1>2, EmptySeq, LenProperties, HeadTailProperties
<1>4. Typed'
  BY <1>1, <1>3 DEF Inv, Typed, TypeOK
<1>5. Numbered' /\ OneEach' /\ BuffersInUse'
  BY <1>1 DEF Inv, Numbered, OneEach, BuffersInUse
<1>6. AnswerLast(request') /\ MpStopped(status', request')
  BY <1>1 DEF Inv
<1>7. OneBuffer'
  BY <1>1, <1>3 DEF Inv, OneBuffer, NoFinal
<1>8. InOrder'
  <2>1. ~IsFinal(Head(indicate))
    BY <1>3 DEF Inv, OneBuffer, NoFinal
  <2>2. InFlight = <<>> /\ InFlight' = <<>>
    BY <1>1, <2>1 DEF Inv, OneBuffer, InFlight
  <2>3. Unanswered' = Unanswered
    BY <1>1 DEF Unanswered
  <2> QED BY <1>1, <2>2, <2>3 DEF Inv, InOrder
<1> QED BY <1>4, <1>5, <1>6, <1>7, <1>8 DEF Inv

\* The ARM9 handles the callback in the shared buffer.
LEMMA ReceiveStep ==
    ASSUME Inv, WmReceiveFifo
    PROVE  Inv'
<1> DEFINE cb == fifo7to9
           over == /\ outstanding # <<>> /\ cb.kind \in {"answer", "connected"}
                   /\ cb.api = Head(outstanding) /\ (cb.kind = "connected" => cb.aid = 0)
<1>1. /\ word /\ word' = FALSE /\ callbackFlag' = FALSE /\ fifo7to9' = NoCb
      /\ outstanding' = IF over THEN Tail(outstanding) ELSE outstanding
      /\ UNCHANGED <<status, wl, head, accepted, requestQ, request, indicate, exclusive>>
  BY DEF WmReceiveFifo, ClearFlag
<1>2. connectedAids' \subseteq Everybody
  <2>1. connectedAids \subseteq Everybody /\ cb.aid \in Everybody
    BY DEF Inv, Typed, TypeOK, Callbacks, Everybody
  <2> QED BY <2>1 DEF WmReceiveFifo
<1>3. NoCb \in Callbacks
  BY DEF NoCb, Answer, Cb, Callbacks, Kinds, Results, Everybody
<1>4. outstanding \in Seq(Apis)
  BY DEF Inv, Typed
<1>5. Typed'
  <2>1. outstanding' \in Seq(Apis)
    BY <1>1, <1>4, HeadTailProperties
  <2> QED BY <1>1, <1>2, <1>3, <2>1 DEF Inv, Typed, TypeOK, Everybody
<1>6. Numbered' /\ OneEach' /\ BuffersInUse'
  BY <1>1 DEF Inv, Numbered, OneEach, BuffersInUse
<1>7. AnswerLast(request') /\ MpStopped(status', request')
  BY <1>1 DEF Inv
<1>8. OneBuffer'
  BY <1>1 DEF Inv, OneBuffer
<1>9. InOrder'
  <2>1. PICK cs \in Seq(Apis) :
            outstanding = (InFlight \o Unanswered) \o cs /\ AreCommandsOf(cs, requestQ)
    BY DEF Inv, InOrder
  <2>2. InFlight' = <<>> /\ Unanswered' = Unanswered
    BY <1>1 DEF InFlight, Unanswered
  <2>3. Unanswered \in Seq(Apis)
    BY DEF Inv, Numbered, Unanswered
  <2> DEFINE rest == Unanswered \o cs
  <2>4. /\ rest \in Seq(Apis)
        /\ InFlight' \o Unanswered' = Unanswered
    BY <2>2, <2>3, ConcatProperties, ConcatEmptySeq
  <2>5. outstanding' = rest
    <3>1. CASE IsFinal(cb) /\ cb.api \in Apis
      <4>1. InFlight = <<cb.api>>
        BY <1>1, <3>1 DEF InFlight
      <4>2. outstanding = <<cb.api>> \o rest
        <5>1. <<cb.api>> \in Seq(Apis)
          BY <3>1
        <5>2. (<<cb.api>> \o Unanswered) \o cs = <<cb.api>> \o (Unanswered \o cs)
          BY ONLY <5>1, <2>1, <2>3, ConcatAssociative
        <5> QED BY <2>1, <4>1, <5>2
      <4> HIDE DEF rest
      <4>3. outstanding # <<>> /\ Head(outstanding) = cb.api /\ Tail(outstanding) = rest
        BY <2>4, <3>1, <4>2
      <4>4. over
        BY <3>1, <4>3 DEF IsFinal
      <4> QED BY <1>1, <4>3, <4>4
    <3>2. CASE ~(IsFinal(cb) /\ cb.api \in Apis)
      <4>1. InFlight = <<>>
        BY <3>2 DEF InFlight
      <4>2. outstanding = rest
        BY <2>1, <2>3, <4>1, ConcatEmptySeq
      <4>3. ~over
        <5>1. outstanding # <<>> => Head(outstanding) \in Apis
          BY <1>4, HeadTailProperties
        <5> QED BY <3>2, <5>1 DEF IsFinal
      <4> QED BY <1>1, <4>2, <4>3
    <3> QED BY <3>1, <3>2
  <2>6. outstanding' = (InFlight' \o Unanswered') \o cs
    BY <2>4, <2>5
  <2> QED BY <1>1, <2>1, <2>6 DEF InOrder
<1> QED BY <1>5, <1>6, <1>7, <1>8, <1>9 DEF Inv

LEMMA NextBuffer ==
    ASSUME NEW b \in 1 .. NumBufs
    PROVE  Next9(b) \in 1 .. NumBufs
<1>1. NumBufs \in Nat \ {0} /\ b \in Nat
  OBVIOUS
<1>2. b % NumBufs \in 0 .. NumBufs - 1
  BY <1>1
<1> QED BY <1>1, <1>2 DEF Next9

\* Facts on a request that is queued.
LEMMA QueueFacts ==
    ASSUME NEW q \in Seq(QueuedRequests), NEW r \in QueuedRequests
    PROVE  /\ Append(q, r) \in Seq(QueuedRequests)
           /\ DOMAIN q = 1 .. Len(q) /\ Len(q) \in Nat
           /\ DOMAIN Append(q, r) = 1 .. Len(q) + 1
           /\ \A i \in DOMAIN Append(q, r) :
                 \/ i \in DOMAIN q /\ Append(q, r)[i] = q[i]
                 \/ i = Len(q) + 1 /\ i \notin DOMAIN q /\ Append(q, r)[i] = r
<1>1. /\ Append(q, r) \in Seq(QueuedRequests) /\ Len(q) \in Nat
      /\ Len(Append(q, r)) = Len(q) + 1
      /\ \A i \in 1 .. Len(q) : Append(q, r)[i] = q[i]
      /\ Append(q, r)[Len(q) + 1] = r
  BY AppendProperties, LenProperties
<1>2. DOMAIN q = 1 .. Len(q) /\ DOMAIN Append(q, r) = 1 .. Len(q) + 1
  BY <1>1, LenProperties
<1> QED BY <1>1, <1>2

\* A command is sent, or dropped.
LEMMA SendStep ==
    ASSUME Inv, NEW api \in Apis, NEW entry \in BOOLEAN, NEW full \in BOOLEAN,
           NEW aids \in Arguments(api), WMi_SendCommand(api, aids, entry, full)
    PROVE  Inv'
<1> DEFINE r == [api |-> api, aids |-> aids, entry |-> entry, buf |-> head]
<1>1. /\ connectedAids' \subseteq connectedAids
      /\ \/ UNCHANGED <<accepted, head, outstanding, requestQ>>
         \/ /\ head \in accepted /\ accepted' = accepted \ {head} /\ head' = Next9(head)
            /\ UNCHANGED <<outstanding, requestQ>>
         \/ /\ head \in accepted /\ accepted' = accepted \ {head} /\ head' = Next9(head)
            /\ outstanding' = Append(outstanding, api)
            /\ requestQ' = Append(requestQ, r)
      /\ UNCHANGED <<status, wl, request, indicate, exclusive, callbackFlag, fifo7to9, word>>
  BY DEF WMi_SendCommand, cmdVars, cbVars
<1>2. /\ requestQ \in Seq(QueuedRequests) /\ outstanding \in Seq(Apis)
      /\ head \in 1 .. NumBufs /\ accepted \subseteq 1 .. NumBufs
  BY DEF Inv, Typed, TypeOK
<1>3. r \in QueuedRequests /\ r.api = api /\ r.buf = head /\ r.buf # 0
  <2>1. aids \in SUBSET Everybody
    BY DEF Arguments, Everybody
  <2>2. head \in 0 .. NumBufs /\ head # 0
    BY <1>2
  <2> QED BY <2>1, <2>2 DEF QueuedRequests
<1> HIDE DEF r
<1>4. /\ head' \in 1 .. NumBufs /\ accepted' \subseteq accepted
      /\ outstanding' \in Seq(Apis) /\ requestQ' \in Seq(QueuedRequests)
  <2>1. Next9(head) \in 1 .. NumBufs
    BY <1>2, NextBuffer
  <2>2. Append(outstanding, api) \in Seq(Apis)
    BY <1>2, AppendProperties
  <2>3. Append(requestQ, r) \in Seq(QueuedRequests)
    BY <1>2, <1>3, AppendProperties
  <2> QED BY <1>1, <1>2, <2>1, <2>2, <2>3
<1>5. Typed'
  BY <1>1, <1>4 DEF Inv, Typed, TypeOK
<1>6. AnswerLast(request') /\ MpStopped(status', request') /\ OneBuffer'
  BY <1>1 DEF Inv, OneBuffer
<1>7. InFlight' = InFlight /\ Unanswered' = Unanswered
  BY <1>1 DEF InFlight, Unanswered
<1>8. CASE UNCHANGED <<outstanding, requestQ>>
  <2>1. Numbered' /\ OneEach' /\ BuffersInUse'
    BY <1>1, <1>4, <1>8 DEF Inv, Numbered, OneEach, BuffersInUse
  <2>2. InOrder'
    BY <1>7, <1>8 DEF Inv, InOrder
  <2> QED BY <1>5, <1>6, <2>1, <2>2 DEF Inv
<1>9. CASE /\ head \in accepted /\ accepted' = accepted \ {head}
           /\ outstanding' = Append(outstanding, api) /\ requestQ' = Append(requestQ, r)
  <2>1. \A i \in DOMAIN requestQ' :
            \/ i \in DOMAIN requestQ /\ requestQ'[i] = requestQ[i]
            \/ i = Len(requestQ) + 1 /\ i \notin DOMAIN requestQ /\ requestQ'[i] = r
    BY <1>2, <1>3, <1>9, QueueFacts
  <2>2. Numbered'
    BY <1>1, <1>3, <2>1 DEF Inv, Numbered
  <2>3. /\ head # request.buf
        /\ \A i \in DOMAIN requestQ : requestQ[i].buf # head
    BY <1>9 DEF Inv, BuffersInUse
  <2>4. OneEach'
    <3>1. ASSUME NEW i \in DOMAIN requestQ', NEW j \in DOMAIN requestQ', i # j
          PROVE  requestQ'[i].buf # requestQ'[j].buf \/ requestQ'[i].buf = 0
      BY <1>3, <2>1, <2>3, <3>1 DEF Inv, OneEach
    <3>2. ASSUME NEW i \in DOMAIN requestQ'
          PROVE  requestQ'[i].buf # request'.buf \/ requestQ'[i].buf = 0
      BY <1>1, <1>3, <2>1, <2>3 DEF Inv, OneEach
    <3> QED BY <3>1, <3>2 DEF OneEach
  <2>5. BuffersInUse'
    BY <1>1, <1>3, <1>9, <2>1 DEF Inv, BuffersInUse
  <2>6. InOrder'
    <3>1. PICK cs \in Seq(Apis) :
              outstanding = (InFlight \o Unanswered) \o cs /\ AreCommandsOf(cs, requestQ)
      BY DEF Inv, InOrder
    <3>2. AreCommandsOf(Append(cs, api), requestQ') /\ Append(cs, api) \in Seq(Apis)
      BY <1>2, <1>3, <1>9, <3>1, QueueCommand, AppendProperties
    <3>3. outstanding' = (InFlight' \o Unanswered') \o Append(cs, api)
      <4> DEFINE begun == InFlight \o Unanswered
      <4>1. begun \in Seq(Apis)
        <5>1. InFlight \in Seq(Apis)
          BY DEF InFlight
        <5>2. Unanswered \in Seq(Apis)
          BY DEF Inv, Numbered, Unanswered
        <5> QED BY <5>1, <5>2, ConcatProperties
      <4> HIDE DEF begun
      <4>2. <<api>> \in Seq(Apis)
        OBVIOUS
      <4>3. begun \o cs \in Seq(Apis)
        BY <3>1, <4>1, ConcatProperties
      <4>4. Append(begun \o cs, api) = (begun \o cs) \o <<api>>
        BY ONLY <4>3, api \in Apis, AppendIsConcat
      <4>5. Append(cs, api) = cs \o <<api>>
        BY ONLY <3>1, api \in Apis, AppendIsConcat
      <4>6. (begun \o cs) \o <<api>> = begun \o (cs \o <<api>>)
        BY ONLY <3>1, <4>1, <4>2, ConcatAssociative
      <4>7. Append(begun \o cs, api) = begun \o Append(cs, api)
        BY ONLY <4>4, <4>5, <4>6
      <4>8. outstanding = begun \o cs /\ InFlight' \o Unanswered' = begun
        BY <1>7, <3>1 DEF begun
      <4> QED BY <1>9, <4>7, <4>8
    <3> QED BY <3>2, <3>3 DEF InOrder
  <2> QED BY <1>5, <1>6, <2>2, <2>4, <2>5, <2>6 DEF Inv
<1> QED BY <1>1, <1>8, <1>9

\* A request the indicate thread queues itself.
LEMMA InternalStep ==
    ASSUME Inv, NEW api \in Internals, NEW aids \in SUBSET Everybody, Internal(api, aids),
           UNCHANGED <<status, wl, connectedAids, cmdVars, request, indicate, cbVars>>
    PROVE  Inv'
<1> DEFINE r == [api |-> api, aids |-> aids, entry |-> FALSE, buf |-> 0]
<1>1. /\ requestQ' = Append(requestQ, r)
      /\ UNCHANGED <<status, wl, connectedAids, head, accepted, outstanding, request, indicate,
                     exclusive, callbackFlag, fifo7to9, word>>
  BY DEF Internal, cmdVars, cbVars
<1>2. requestQ \in Seq(QueuedRequests)
  BY DEF Inv, Typed
<1>3. r \in QueuedRequests /\ r.api = api /\ r.buf = 0 /\ api \notin Apis
  <2>1. 0 \in 0 .. NumBufs
    OBVIOUS
  <2> QED BY <2>1 DEF QueuedRequests, Internals, Apis, AllowedIn
<1> HIDE DEF r
<1>4. Typed'
  BY <1>1, <1>2, <1>3, QueueFacts DEF Inv, Typed, TypeOK
<1>5. \A i \in DOMAIN requestQ' :
          \/ i \in DOMAIN requestQ /\ requestQ'[i] = requestQ[i]
          \/ requestQ'[i] = r
  BY <1>1, <1>2, <1>3, QueueFacts
<1>6. Numbered'
  BY <1>1, <1>3, <1>5 DEF Inv, Numbered
<1>7. OneEach'
  <2>1. ASSUME NEW i \in DOMAIN requestQ', NEW j \in DOMAIN requestQ', i # j
        PROVE  requestQ'[i].buf # requestQ'[j].buf \/ requestQ'[i].buf = 0
    BY <1>3, <1>5, <2>1 DEF Inv, OneEach
  <2>2. ASSUME NEW i \in DOMAIN requestQ'
        PROVE  requestQ'[i].buf # request'.buf \/ requestQ'[i].buf = 0
    BY <1>1, <1>3, <1>5 DEF Inv, OneEach
  <2> QED BY <2>1, <2>2 DEF OneEach
<1>8. BuffersInUse'
  <2>1. 0 \notin accepted
    BY DEF Inv, Typed, TypeOK
  <2> QED BY <1>1, <1>3, <1>5, <2>1 DEF Inv, BuffersInUse
<1>9. AnswerLast(request') /\ MpStopped(status', request') /\ OneBuffer'
  BY <1>1 DEF Inv, OneBuffer
<1>10. InOrder'
  <2>1. PICK cs \in Seq(Apis) :
            outstanding = (InFlight \o Unanswered) \o cs /\ AreCommandsOf(cs, requestQ)
    BY DEF Inv, InOrder
  <2>2. AreCommandsOf(cs, requestQ')
    BY <1>1, <1>2, <1>3, <2>1, QueueInternal
  <2>3. InFlight' = InFlight /\ Unanswered' = Unanswered
    BY <1>1 DEF InFlight, Unanswered
  <2> QED BY <1>1, <2>1, <2>2, <2>3 DEF InOrder
<1> QED BY <1>4, <1>6, <1>7, <1>8, <1>9, <1>10 DEF Inv

\* A report that changes the station's state and is to be told to the ARM9.
LEMMA ReportStep ==
    ASSUME Inv, ~request.masked, status' \in Statuses,
           wl' \in {"idle", "class1", "parent", "child"},
           status'.mp => status.mp /\ status'.state = status.state,
           indicate' \in Seq(Callbacks), NoFinal(indicate'),
           UNCHANGED <<connectedAids, cmdVars, requestQ, request, cbVars>>
    PROVE  Inv'
<1>1. UNCHANGED <<connectedAids, head, accepted, outstanding, requestQ, request, exclusive,
                  callbackFlag, fifo7to9, word>>
  BY DEF cmdVars, cbVars
<1>2. Typed'
  <2>1. status'.state \in States /\ status'.children \subseteq Everybody
    BY DEF Statuses
  <2> QED BY <1>1, <2>1 DEF Inv, Typed, TypeOK, Everybody
<1>3. InOrder' /\ Numbered' /\ OneEach'
  BY <1>1, KeepsInOrder
<1>4. BuffersInUse' /\ OneBuffer' /\ AnswerLast(request')
  BY <1>1 DEF Inv, BuffersInUse, OneBuffer
<1>5. MpStopped(status', request')
  BY <1>1 DEF Inv, MpStopped
<1> QED BY <1>2, <1>3, <1>4, <1>5 DEF Inv

LEMMA IndicateSteps ==
    ASSUME Inv,
           \/ \E aid \in Aids : IndicateMlmeAssociate(aid)
           \/ \E aid \in Aids \cup {0} : IndicateMlmeDeAuthenticate(aid)
           \/ \E aids \in {Aids, {0}} \cup {{a} : a \in Aids} : IndicateLinkFailure(aids)
    PROVE  Inv'
<1>1. /\ status \in Statuses /\ wl \in {"idle", "class1", "parent", "child"}
      /\ indicate \in Seq(Callbacks) /\ NoFinal(indicate)
  BY DEF Inv, Typed, TypeOK, OneBuffer
<1>2. ASSUME NEW cb \in Callbacks, ~IsFinal(cb)
      PROVE  <<cb>> \in Seq(Callbacks) /\ NoFinal(<<cb>>)
  BY <1>2 DEF NoFinal
<1>3. ASSUME NEW aid \in Aids, IndicateMlmeAssociate(aid)
      PROVE  Inv'
  <2> DEFINE cb == Cb("START_PARENT", "connected", "SUCCESS", aid)
  <2>1. ~request.masked /\ aid \in Everybody /\ aid # 0
    BY SMTT(30), <1>3 DEF IndicateMlmeAssociate, Reported, Everybody
  <2>2. CASE ~status.entry
    <3>1. /\ Internal("AUTO_DEAUTH", {aid})
          /\ UNCHANGED <<status, wl, connectedAids, cmdVars, request, indicate, cbVars>>
      BY <1>3, <2>2 DEF IndicateMlmeAssociate
    <3>2. "AUTO_DEAUTH" \in Internals /\ {aid} \in SUBSET Everybody
      BY <2>1 DEF Internals
    <3> QED BY <3>1, <3>2, InternalStep
  <2>3. CASE status.entry
    <3>1. /\ status' = [status EXCEPT !.children = @ \cup {aid}] /\ indicate' = <<cb>>
          /\ wl' = wl
          /\ UNCHANGED <<connectedAids, cmdVars, requestQ, request, cbVars>>
      BY <1>3, <2>3 DEF IndicateMlmeAssociate
    <3>2. cb \in Callbacks /\ ~IsFinal(cb)
      BY <2>1, FinalAnswers
         DEF Cb, Callbacks, Kinds, Results, Everybody, Apis, AllowedIn
    <3> HIDE DEF cb
    <3>3. /\ status' \in Statuses
          /\ status'.mp = status.mp /\ status'.state = status.state
      BY <1>1, <2>1, <3>1 DEF Statuses
    <3>4. indicate' \in Seq(Callbacks) /\ NoFinal(indicate')
      BY <1>2, <3>1, <3>2
    <3> QED BY <1>1, <2>1, <3>1, <3>3, <3>4, ReportStep
  <2> QED BY <2>2, <2>3
<1>4. ASSUME NEW aid \in Aids \cup {0}, IndicateMlmeDeAuthenticate(aid)
      PROVE  Inv'
  <2>1. /\ ~request.masked /\ wl' \in {"idle", "class1", "parent", "child"}
        /\ UNCHANGED <<connectedAids, cmdVars, requestQ, request, cbVars>>
        /\ \/ /\ status' = [status EXCEPT !.children = @ \ {aid}]
              /\ indicate' = <<Gone(aid)>>
           \/ UNCHANGED <<status, indicate>>
           \/ status' = Left /\ indicate' = <<Gone(0)>>
    BY <1>1, <1>4 DEF IndicateMlmeDeAuthenticate, Reported
  <2>2. /\ status' \in Statuses
        /\ status'.mp => status.mp /\ status'.state = status.state
    BY <1>1, <2>1 DEF Left, Statuses, States
  <2>3. indicate' \in Seq(Callbacks) /\ NoFinal(indicate')
    <3>1. /\ Gone(aid) \in Callbacks /\ ~IsFinal(Gone(aid))
          /\ Gone(0) \in Callbacks /\ ~IsFinal(Gone(0))
      BY GoneCallback, FinalAnswers DEF Everybody
    <3> QED BY <1>1, <1>2, <2>1, <3>1
  <2> QED BY <2>1, <2>2, <2>3, ReportStep
<1>5. ASSUME NEW aids \in {Aids, {0}} \cup {{a} : a \in Aids}, IndicateLinkFailure(aids)
      PROVE  Inv'
  <2>1. "AUTO_DISCONNECT" \in Internals /\ aids \in SUBSET Everybody
    BY DEF Internals, Everybody
  <2>2. /\ Internal("AUTO_DISCONNECT", aids)
        /\ UNCHANGED <<status, wl, connectedAids, cmdVars, request, indicate, cbVars>>
    BY <1>5 DEF IndicateLinkFailure
  <2> QED BY <2>1, <2>2, InternalStep
<1> QED BY <1>3, <1>4, <1>5

LEMMA RequestSteps ==
    ASSUME Inv, RequestStep
    PROVE  Inv'
<1>1. CASE WMSP_RequestThread
  BY <1>1, TakeStep
<1>2. CASE RequestDone
  BY <1>2, DoneStep
<1>3. CASE RequestGetsBuffer
  BY <1>3, GetsBufferStep
<1>4. CASE RequestReturns
  BY <1>4, RequestReturnsStep
<1>5. CASE \/ IllegalState \/ WMSP_Enable \/ WMSP_Disable \/ WMSP_PowerOn \/ WMSP_PowerOff
           \/ WMSP_SetParentParam \/ WMSP_SetEntry \/ WMSP_EndMP \/ WMSP_AutoDeAuth
  BY <1>5, AtOnce, HandledKeepsInv
<1>6. CASE \/ WMSP_StartParent \/ StartParentInDriver \/ WMSP_EndParent
           \/ ResetDriver \/ LeaveParent \/ WMSP_StartScan \/ WMSP_EndScan
           \/ WMSP_StartConnectEx \/ ConnectInDriver \/ ResetStation
  BY <1>6, InStages, HandledKeepsInv
<1>7. CASE WMSP_Disconnect \/ NextChild \/ ChildDeauthenticated \/ IdleDriver
  BY <1>7, WithChildren, HandledKeepsInv
<1>8. CASE Connected \/ WMSP_StartMP \/ WMSP_Reset \/ ResetReports
  BY <1>8, WithInterruptsOff, HandledKeepsInv
<1>9. CASE MpStarted
  BY <1>9, AfterMpStarted, HandledKeepsInv
<1> QED BY <1>1, <1>2, <1>3, <1>4, <1>5, <1>6, <1>7, <1>8, <1>9 DEF RequestStep

LEMMA InvInit ==
    ASSUME Init
    PROVE  Inv
<1>1. /\ request = Resting /\ requestQ = <<>> /\ indicate = <<>> /\ outstanding = <<>>
      /\ word = FALSE /\ callbackFlag = FALSE /\ fifo7to9 = NoCb
      /\ accepted = 1 .. NumBufs /\ head = 1 /\ exclusive = "none" /\ wl = "idle"
      /\ connectedAids = {}
      /\ status = [state |-> "READY", children |-> {}, mp |-> FALSE, entry |-> FALSE]
  BY DEF Init
<1>2. Resting \in RequestRecords /\ NoCb \in Callbacks
  <2>1. 0 \in 0 .. NumBufs
    OBVIOUS
  <2> QED BY <2>1, NoCalls
          DEF Resting, RequestRecords, NoCb, Answer, Cb, Callbacks, Kinds, Results, Everybody
<1>3. Typed
  <2>1. /\ status \in Statuses /\ status.state \in States /\ status.children = {}
    BY <1>1 DEF Statuses, States
  <2>2. 1 \in 1 .. NumBufs
    OBVIOUS
  <2>3. <<>> \in Seq(QueuedRequests) /\ <<>> \in Seq(Callbacks) /\ <<>> \in Seq(Apis)
    OBVIOUS
  <2>4. TypeOK
    BY <1>1, <2>1, <2>2 DEF TypeOK
  <2> QED BY <1>1, <1>2, <2>1, <2>3, <2>4 DEF Typed
<1>4. Numbered /\ OneEach /\ BuffersInUse
  BY <1>1 DEF Numbered, OneEach, BuffersInUse, Resting, Apis, AllowedIn
<1>5. AnswerLast(request) /\ MpStopped(status, request) /\ OneBuffer
  BY <1>1 DEF AnswerLast, MpStopped, OneBuffer, NoFinal, Resting, Stopped
<1>6. InOrder
  <2>1. InFlight = <<>> /\ Unanswered = <<>>
    BY <1>1 DEF InFlight, Unanswered, Resting
  <2>2. <<>> \in Seq(Apis) /\ outstanding = (InFlight \o Unanswered) \o <<>>
    BY <1>1, <2>1
  <2>3. AreCommandsOf(<<>>, requestQ)
    <3>1. DOMAIN requestQ = {} /\ DOMAIN (<<>>) = {}
      BY <1>1
    <3> DEFINE at == [i \in {} |-> i]
    <3>2. at \in [{} -> {}] /\ {at[i] : i \in {}} = {}
      OBVIOUS
    <3> HIDE DEF at
    <3> QED BY <3>1, <3>2 DEF AreCommandsOf
  <2> QED BY <2>2, <2>3 DEF InOrder
<1> QED BY <1>3, <1>4, <1>5, <1>6 DEF Inv

LEMMA InvNext ==
    ASSUME Inv, [Next]_vars
    PROVE  Inv'
<1>1. CASE Command
  BY <1>1, SendStep DEF Command
<1>2. CASE WmReceiveFifo
  BY <1>2, ReceiveStep
<1>3. CASE \/ \E aid \in Aids : IndicateMlmeAssociate(aid)
           \/ \E aid \in Aids \cup {0} : IndicateMlmeDeAuthenticate(aid)
           \/ \E aids \in {Aids, {0}} \cup {{a} : a \in Aids} : IndicateLinkFailure(aids)
  BY <1>3, IndicateSteps
<1>4. CASE IndicateStep
  BY <1>4, GetsBufferStep, IndicateReturnsStep DEF IndicateStep
<1>5. CASE RequestStep
  BY <1>5, RequestSteps
<1>6. CASE UNCHANGED vars
  <2>1. UNCHANGED <<status, wl, connectedAids, head, accepted, outstanding, requestQ, request,
                    indicate, exclusive, callbackFlag, fifo7to9, word>>
    BY <1>6 DEF vars
  <2>2. InOrder' /\ Numbered' /\ OneEach'
    BY <2>1, KeepsInOrder
  <2>3. Typed' /\ BuffersInUse' /\ OneBuffer'
    BY <2>1 DEF Inv, Typed, TypeOK, BuffersInUse, OneBuffer
  <2>4. AnswerLast(request') /\ MpStopped(status', request')
    BY <2>1 DEF Inv
  <2> QED BY <2>2, <2>3, <2>4 DEF Inv
<1> QED BY <1>1, <1>2, <1>3, <1>4, <1>5, <1>6 DEF Next

(***************************************************************************)
(* Theorems.                                                               *)
(***************************************************************************)
\* The inductive invariant of the commands, the request thread's handlers and
\* the buffer the ARM7's threads answer through.
THEOREM ManagerInvariant == Spec => []Inv
<1>1. Init => Inv
  BY InvInit
<1>2. Inv /\ [Next]_vars => Inv'
  BY InvNext
<1> QED BY <1>1, <1>2, PTL DEF Spec

\* Every command the ARM7 has taken is answered once and in the order of the
\* calls, and its buffer is not free while anything refers to it, for any
\* number of children and buffers, whatever the driver reports and refuses.
THEOREM EveryCommandIsAnswered == Spec => []CommandsAnswered
<1>1. Inv => CommandsAnswered
  <2> SUFFICES ASSUME Inv PROVE CommandsAnswered
    OBVIOUS
  <2>1. TypeOK /\ BuffersInUse
    BY DEF Inv, Typed
  <2>2. AnswersInOrder
    <3> DEFINE begun == InFlight \o Unanswered
    <3>1. PICK cs \in Seq(Apis) : outstanding = begun \o cs /\ AreCommandsOf(cs, requestQ)
      BY DEF Inv, InOrder
    <3>2. begun \in Seq(Apis)
      <4>1. InFlight \in Seq(Apis)
        BY DEF InFlight
      <4>2. Unanswered \in Seq(Apis)
        BY DEF Inv, Numbered, Unanswered
      <4> QED BY <4>1, <4>2, ConcatProperties
    <3> HIDE DEF begun
    <3>3. /\ Len(begun) \in Nat /\ Len(cs) \in Nat
          /\ Len(begun \o cs) = Len(begun) + Len(cs)
          /\ \A i \in 1 .. Len(begun) : (begun \o cs)[i] = begun[i]
          /\ \A i \in 1 .. Len(cs) : (begun \o cs)[Len(begun) + i] = cs[i]
      BY <3>1, <3>2, ConcatProperties, LenProperties
    <3>4. IsPrefix(begun, outstanding)
      BY <3>1, <3>2, <3>3 DEF IsPrefix
    <3>5. SubSeq(outstanding, Len(begun) + 1, Len(outstanding)) = cs
      BY <3>1, <3>2, <3>3
    <3> QED BY <3>1, <3>4, <3>5 DEF AnswersInOrder, begun
  <2> QED BY <2>1, <2>2 DEF CommandsAnswered
<1> QED BY <1>1, ManagerInvariant, PTL

\* MP's flag is up only in the states that say so, whoever ends MP: the
\* command, a disconnection, a reset or the parent that goes, and also while
\* WMSP_StartMP sets state and flag apart.
THEOREM MpIsStopped == Spec => []MpOnlyWhileStarted
<1>1. Inv => MpOnlyWhileStarted
  BY DEF Inv, MpStopped, MpStates, MpOnlyWhileStarted
<1> QED BY <1>1, ManagerInvariant, PTL
=============================================================================
