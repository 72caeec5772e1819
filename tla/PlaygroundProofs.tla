-------------------------- MODULE PlaygroundProofs --------------------------
(***************************************************************************)
(* Proofs about Playground and what it writes to its clients, for every    *)
(* number of streams, rounds, calls, frames and heartbeats.                *)
(***************************************************************************)
EXTENDS Playground, AILimitProofs

USE PlaygroundAssumption DEF PlaygroundAssumption

-----------------------------------------------------------------------------
(* The inductive invariant: each stream is in a good state by itself *)

State == [at : {"idle", "returned"} \cup Running,
          ctx : {"live", "over"}, conn : {"up", "left", "broken"},
          round : 0..MaxRounds, left : 0..MaxCalls + MaxChunks,
          messages : Seq(0..MaxCalls),
          beat : {"waiting", "due", "half", "gone"}, beats : 0..MaxBeats,
          stopped : BOOLEAN, executed : Nat, foreign : BOOLEAN]

\* Where RunAgent works through the calls of an answer.
Calling == {"call", "announced", "result"}

\* The assistant message at i is followed by its tool messages and then by the
\* next assistant message, except that the last one still waits for `left'.
Followed(m, i, left) ==
    /\ i + m[i] <= Len(m) + left
    /\ \A j \in 1..Len(m) : i < j /\ j <= i + m[i] => m[j] = 0
    /\ \A j \in 1..Len(m) : j = i + m[i] + 1 => m[j] > 0
    /\ left > 0 /\ i + m[i] >= Len(m) => i + m[i] = Len(m) + left

Owes(m, left) == \A i \in 1..Len(m) : m[i] > 0 => Followed(m, i, left)

Good(a) ==
    /\ a \in State
    /\ a.at \in Running /\ a.beat = "gone" => a.ctx = "over" \/ a.stopped
    /\ a.at \in Calling => /\ a.left \in 1..MaxCalls /\ a.round < MaxRounds
                           /\ Owes(a.messages, a.left)
    /\ a.at \in {"round", "chat"} => Owes(a.messages, 0)
    /\ a.at = "chat" => a.round < MaxRounds
    /\ a.at = "idle" => a.messages = <<>> /\ a.left = 0
    /\ a.at = "streaming" => a.left <= MaxChunks

IInv == streams \in [Streams -> State] /\ \A s \in Streams : Good(streams[s])

LEMMA InitIInv == Init => IInv
<1> SUFFICES ASSUME Init PROVE IInv
  OBVIOUS
<1>1. Idle \in State
  BY DEF State, Idle, Running
<1>2. Good(Idle)
  BY <1>1 DEF Good, Idle, Running, Calling
<1>3. QED
  BY <1>1, <1>2 DEF Init, IInv

-----------------------------------------------------------------------------
(* The conversation *)

LEMMA Appended ==
    ASSUME NEW m \in Seq(0..MaxCalls), NEW x \in 0..MaxCalls
    PROVE  LET n == Append(m, x) IN
           /\ n \in Seq(0..MaxCalls) /\ Len(m) \in Nat /\ Len(n) = Len(m) + 1
           /\ n[Len(m) + 1] = x
           /\ \A i \in 1..Len(m) : n[i] = m[i] /\ m[i] \in Nat
OBVIOUS

\* The answer to a call is one it still owes.
LEMMA OwesLess ==
    ASSUME NEW m \in Seq(0..MaxCalls), NEW left \in Nat \ {0}, Owes(m, left)
    PROVE  Owes(Append(m, 0), left - 1)
<1> DEFINE n == Append(m, 0)
<1>1. /\ n \in Seq(0..MaxCalls) /\ Len(m) \in Nat /\ Len(n) = Len(m) + 1
      /\ n[Len(m) + 1] = 0
      /\ \A i \in 1..Len(m) : n[i] = m[i] /\ m[i] \in Nat
  BY Appended
<1> HIDE DEF n
<1>2. ASSUME NEW i \in 1..Len(n), n[i] > 0 PROVE Followed(n, i, left - 1)
  <2>1. i \in 1..Len(m) /\ n[i] = m[i] /\ m[i] \in Nat
    BY <1>1, <1>2
  <2>2. Followed(m, i, left)
    BY <1>2, <2>1 DEF Owes
  <2>3. i + n[i] <= Len(n) + (left - 1)
    BY <1>1, <2>1, <2>2 DEF Followed
  <2>4. ASSUME NEW j \in 1..Len(n), i < j, j <= i + n[i] PROVE n[j] = 0
    <3>1. CASE j = Len(m) + 1
      BY <1>1, <3>1
    <3>2. CASE j \in 1..Len(m)
      <4>1. j <= i + m[i]
        BY <2>1, <2>4
      <4>2. m[j] = 0
        BY <2>2, <2>4, <3>2, <4>1 DEF Followed
      <4>3. QED
        BY <1>1, <3>2, <4>2
    <3>3. QED
      BY <1>1, <3>1, <3>2
  <2>5. ASSUME NEW j \in 1..Len(n), j = i + n[i] + 1 PROVE n[j] > 0
    <3>1. j = i + m[i] + 1
      BY <2>1, <2>5
    <3>2. i + m[i] >= Len(m) => i + m[i] = Len(m) + left
      BY <2>2 DEF Followed
    <3>3. i + m[i] \in Nat /\ Len(m) \in Nat
      BY <1>1, <2>1, SMTT(30)
    <3>4. j # Len(m) + 1
      <4>1. \A x, y \in Nat : (x >= y => x = y + left) => x + 1 # y + 1
        OBVIOUS
      <4>2. QED
        BY <3>1, <3>2, <3>3, <4>1
    <3>5. j \in 1..Len(m)
      BY <1>1, <3>4
    <3>6. m[j] > 0
      BY <2>2, <3>1, <3>5 DEF Followed
    <3>7. QED
      BY <1>1, <3>5, <3>6
  <2>6. left - 1 > 0 /\ i + n[i] >= Len(n) => i + n[i] = Len(n) + (left - 1)
    BY <1>1, <2>1, <2>2, SMTT(30) DEF Followed
  <2>7. QED
    BY <2>3, <2>4, <2>5, <2>6 DEF Followed
<1>3. QED
  BY <1>2 DEF Owes, n

\* An answer with calls owes a tool message for each.
LEMMA OwesAll ==
    ASSUME NEW m \in Seq(0..MaxCalls), NEW calls \in 1..MaxCalls, Owes(m, 0)
    PROVE  Owes(Append(m, calls), calls)
<1> DEFINE n == Append(m, calls)
<1>1. /\ n \in Seq(0..MaxCalls) /\ Len(m) \in Nat /\ Len(n) = Len(m) + 1
      /\ n[Len(m) + 1] = calls
      /\ \A i \in 1..Len(m) : n[i] = m[i] /\ m[i] \in Nat
  BY Appended
<1> HIDE DEF n
<1>2. ASSUME NEW i \in 1..Len(n), n[i] > 0 PROVE Followed(n, i, calls)
  <2>1. CASE i = Len(m) + 1
    <3>1. n[i] = calls
      BY <1>1, <2>1
    <3>2. \A j \in 1..Len(n) : j <= i
      BY <1>1, <2>1
    <3>3. i + n[i] = Len(n) + calls
      BY <1>1, <2>1, <3>1
    <3>4. QED
      BY <1>1, <2>1, <3>1, <3>2, <3>3 DEF Followed
  <2>2. CASE i \in 1..Len(m)
    <3>1. n[i] = m[i] /\ m[i] \in Nat /\ Followed(m, i, 0)
      BY <1>1, <1>2, <2>2 DEF Owes
    <3>2. i + n[i] <= Len(m)
      BY <1>1, <2>2, <3>1 DEF Followed
    <3>3. ASSUME NEW j \in 1..Len(n), i < j, j <= i + n[i] PROVE n[j] = 0
      <4>1. j \in 1..Len(m) /\ j <= i + m[i]
        BY <1>1, <2>2, <3>1, <3>2, <3>3, SMTT(30)
      <4>2. m[j] = 0
        BY <3>1, <3>3, <4>1 DEF Followed
      <4>3. QED
        BY <1>1, <4>1, <4>2
    <3>4. ASSUME NEW j \in 1..Len(n), j = i + n[i] + 1 PROVE n[j] > 0
      <4>1. CASE j = Len(m) + 1
        BY <1>1, <4>1
      <4>2. CASE j \in 1..Len(m)
        <5>1. m[j] > 0
          BY <3>1, <3>4, <4>2 DEF Followed
        <5>2. QED
          BY <1>1, <4>2, <5>1
      <4>3. QED
        BY <1>1, <4>1, <4>2
    <3>5. i + n[i] <= Len(n) + calls /\ i + n[i] < Len(n)
      BY <1>1, <2>2, <3>1, <3>2, SMTT(30)
    <3>6. ~(i + n[i] >= Len(n))
      <4>1. i + n[i] \in Nat /\ Len(n) \in Nat
        BY <1>1, <2>2, <3>1, SMTT(30)
      <4>2. QED
        BY <3>5, <4>1
    <3>7. QED
      BY <3>3, <3>4, <3>5, <3>6 DEF Followed
  <2>3. QED
    BY <1>1, <2>1, <2>2
<1>3. QED
  BY <1>2 DEF Owes, n

-----------------------------------------------------------------------------
(* A step gives one stream a new state, which is good *)

LEMMA BecomeKeeps ==
    ASSUME IInv, NEW s \in Streams, NEW a, Good(a), Become(s, a)
    PROVE  IInv'
<1>1. a \in State
  BY DEF Good
<1>2. streams' \in [Streams -> State]
  BY <1>1 DEF Become, IInv
<1>3. \A t \in Streams : Good(streams'[t])
  BY DEF Become, IInv
<1>4. \A t \in Streams : Good(streams[t])'
  BY <1>3 DEF Good, Owes, Followed, State, Running, Calling
<1>5. QED
  BY <1>2, <1>4 DEF IInv, State, Running, Streams

\* Any stage in which nothing is promised may follow.
LEMMA GoOn ==
    ASSUME IInv, NEW s \in Streams, At(s, Running),
           NEW stage \in {"failed", "finished", "leaving", "done", "ending", "returned"}
    PROVE  Good(GoTo(s, stage))
<1> DEFINE a == streams[s]
           b == GoTo(s, stage)
<1>1. Good(a) /\ a \in State /\ a.at \in Running
  BY DEF IInv, At
<1>2. /\ b \in State /\ b.at = stage
      /\ b.beat = a.beat /\ b.ctx = a.ctx /\ b.stopped = a.stopped
  <2>1. stage \in {"idle", "returned"} \cup Running
    BY DEF Running
  <2>2. b = [a EXCEPT !.at = stage]
    BY DEF GoTo
  <2> HIDE DEF a, b
  <2>3. QED
    BY <1>1, <2>1, <2>2, SMTT(30) DEF State
<1> HIDE DEF b
<1>3. Good(b)
  BY <1>1, <1>2, SMTT(30) DEF Good, Running, Calling
<1>4. QED
  BY <1>3 DEF b

LEMMA PassKeeps ==
    ASSUME IInv, NEW s \in Streams, NEW a, Good(a), Pass(s, a)
    PROVE  IInv'
BY BecomeKeeps DEF Pass

\* A state is as good when a write has failed.
LEMMA BrokenGood ==
    ASSUME NEW a, Good(a)
    PROVE  Good([a EXCEPT !.conn = "broken"])
<1> DEFINE b == [a EXCEPT !.conn = "broken"]
<1>1. a \in State
  BY DEF Good
<1>2. /\ b \in State /\ b.at = a.at /\ b.left = a.left /\ b.round = a.round
      /\ b.messages = a.messages /\ b.beat = a.beat /\ b.ctx = a.ctx /\ b.stopped = a.stopped
  BY <1>1 DEF State
<1> HIDE DEF b
<1>3. Good(b)
  BY <1>2 DEF Good
<1>4. QED
  BY <1>3 DEF b

LEMMA WriteKeeps ==
    ASSUME IInv, NEW s \in Streams, NEW kind, NEW a, NEW b, Good(a), Good(b),
           Write(s, kind, a, b)
    PROVE  IInv'
BY BecomeKeeps, BrokenGood DEF Write

LEMMA EmitKeeps ==
    ASSUME IInv, NEW s \in Streams, At(s, Running), NEW kind, NEW a, Good(a), Emit(s, kind, a)
    PROVE  IInv'
BY GoOn, WriteKeeps DEF Emit

LEMMA ReportKeeps ==
    ASSUME IInv, NEW s \in Streams, At(s, Running), NEW a, Good(a), Report(s, a)
    PROVE  IInv'
BY GoOn, BrokenGood, PassKeeps DEF Report

-----------------------------------------------------------------------------
(* RunAgent *)

LEMMA AgentKeeps ==
    ASSUME IInv, NEW s \in Streams,
           \/ \E calls \in 0..MaxCalls, chunks \in 0..MaxChunks : ModelAnswers(s, calls, chunks)
           \/ StartRound(s) \/ AnnounceCall(s) \/ ExecuteTool(s) \/ SendResult(s)
    PROVE  IInv'
<1> DEFINE a == streams[s]
<1>0. Good(a) /\ a \in State
  BY DEF IInv
<1>1. ASSUME NEW calls \in 0..MaxCalls, NEW chunks \in 0..MaxChunks,
             ModelAnswers(s, calls, chunks)
      PROVE  IInv'
  <2>1. a.at = "chat"
    BY <1>1 DEF ModelAnswers, At
  <2>2. CASE calls = 0
    <3> DEFINE b == [GoTo(s, "deltas") EXCEPT !.left = chunks]
    <3>1. b \in State /\ b.at = "deltas" /\ b.beat = a.beat /\ b.ctx = a.ctx
          /\ b.stopped = a.stopped
      <4>1. chunks \in 0..MaxCalls + MaxChunks
        OBVIOUS
      <4>2. QED
        BY <1>0, <4>1 DEF GoTo, State, Running
    <3>2. Good(b)
      BY <1>0, <2>1, <3>1 DEF Good, Running, Calling
    <3>3. QED
      BY <1>1, <2>2, <3>2, PassKeeps DEF ModelAnswers
  <2>3. CASE calls # 0
    <3> DEFINE m == Append(a.messages, calls)
               b == [GoTo(s, "call") EXCEPT !.left = calls, !.messages = Append(@, calls)]
    <3>1. a.messages \in Seq(0..MaxCalls) /\ m \in Seq(0..MaxCalls)
      BY <1>0 DEF State
    <3>2. calls \in 1..MaxCalls /\ Owes(a.messages, 0)
      BY <1>0, <2>1, <2>3 DEF Good
    <3>3. Owes(m, calls)
      BY <3>1, <3>2, OwesAll
    <3>4. b = [a EXCEPT !.at = "call", !.left = calls, !.messages = m]
      BY <1>0 DEF GoTo, State
    <3>5. b \in State /\ b.at = "call" /\ b.left = calls /\ b.messages = m
          /\ b.round = a.round /\ b.beat = a.beat /\ b.ctx = a.ctx /\ b.stopped = a.stopped
      <4>1. calls \in 0..MaxCalls + MaxChunks
        OBVIOUS
      <4> HIDE DEF m, b
      <4>2. QED
        BY <1>0, <3>1, <3>4, <4>1 DEF State, Running
    <3> HIDE DEF b
    <3>6. Good(b)
      BY <1>0, <2>1, <3>2, <3>3, <3>5 DEF Good, Running, Calling
    <3>7. QED
      BY <1>1, <2>3, <3>6, PassKeeps DEF ModelAnswers, b
  <2>4. QED
    BY <2>2, <2>3
<1>2. CASE StartRound(s)
  <2>1. a.at = "round"
    BY <1>2 DEF StartRound, At
  <2>2. Good(GoTo(s, "failed"))
    BY <2>1, GoOn DEF At, Running
  <2>3. a.round < MaxRounds => Good(GoTo(s, "chat"))
    BY <1>0, <2>1 DEF Good, GoTo, State, Running, Calling
  <2>4. QED
    BY <1>2, <2>1, <2>2, <2>3, PassKeeps, ReportKeeps DEF StartRound, At, Running
<1>3. CASE AnnounceCall(s)
  <2>1. a.at = "call"
    BY <1>3 DEF AnnounceCall, At
  <2>2. Good(GoTo(s, "announced"))
    BY <1>0, <2>1 DEF Good, GoTo, State, Running, Calling
  <2>3. QED
    BY <1>3, <2>1, <2>2, EmitKeeps DEF AnnounceCall, At, Running
<1>4. CASE ExecuteTool(s)
  <2> DEFINE b == [GoTo(s, "result") EXCEPT !.executed = @ + 1]
  <2>1. a.at = "announced"
    BY <1>4 DEF ExecuteTool, At
  <2>2. a.executed + 1 \in Nat
    BY <1>0 DEF State
  <2>3. b = [a EXCEPT !.at = "result", !.executed = a.executed + 1]
    BY <1>0 DEF GoTo, State
  <2>4. b \in State
    <3>1. [a EXCEPT !.at = "result"] \in State
      BY <1>0 DEF State, Running
    <3>2. QED
      BY <2>2, <2>3, <3>1 DEF State
  <2>5. b.at = "result" /\ b.left = a.left /\ b.messages = a.messages
        /\ b.round = a.round /\ b.beat = a.beat /\ b.ctx = a.ctx /\ b.stopped = a.stopped
    BY <1>0, <2>3 DEF State
  <2>6. Good(b)
    BY <1>0, <2>1, <2>4, <2>5 DEF Good, Running, Calling
  <2>7. QED
    BY <1>4, <2>1, <2>6, ReportKeeps DEF ExecuteTool, At, Running
<1>6. CASE SendResult(s)
  <2> DEFINE m == Append(a.messages, 0)
  <2>1. a.at = "result"
    BY <1>6 DEF SendResult, At
  <2>2. a.left \in 1..MaxCalls /\ a.round < MaxRounds /\ a.round \in Nat
        /\ a.messages \in Seq(0..MaxCalls) /\ Owes(a.messages, a.left)
    BY <1>0, <2>1 DEF Good, State, Calling
  <2>3. m \in Seq(0..MaxCalls) /\ Owes(m, a.left - 1)
    BY <2>2, OwesLess
  <2>4. CASE a.left = 1
    <3>1. AfterResult(a) = [a EXCEPT !.at = "round", !.round = a.round + 1, !.left = 0,
                                     !.messages = m]
      BY <1>0, <2>4 DEF AfterResult, State
    <3>2. a.round + 1 \in 0..MaxRounds /\ 0 \in 0..MaxCalls + MaxChunks
      BY <2>2
    <3> DEFINE b == AfterResult(a)
    <3> HIDE DEF b, m
    <3>3. b \in State /\ b.at = "round" /\ b.messages = m /\ b.beat = a.beat
          /\ b.ctx = a.ctx /\ b.stopped = a.stopped
      BY <1>0, <2>3, <3>1, <3>2 DEF State, Running, b
    <3>4. Good(b)
      BY <1>0, <2>1, <2>3, <2>4, <3>3 DEF Good, Running, Calling
    <3>5. QED
      BY <1>6, <2>1, <3>4, EmitKeeps DEF SendResult, At, Running, b
  <2>5. CASE a.left # 1
    <3>1. AfterResult(a) = [a EXCEPT !.at = "call", !.left = a.left - 1, !.messages = m]
      BY <1>0, <2>5 DEF AfterResult, State
    <3>2. a.left - 1 \in 1..MaxCalls
      BY <2>2, <2>5
    <3>3. a.left - 1 \in 0..MaxCalls + MaxChunks
      BY <3>2
    <3> DEFINE b == AfterResult(a)
    <3> HIDE DEF b, m
    <3>4. b \in State /\ b.at = "call" /\ b.left = a.left - 1 /\ b.messages = m
          /\ b.round = a.round /\ b.beat = a.beat /\ b.ctx = a.ctx /\ b.stopped = a.stopped
      BY <1>0, <2>3, <3>1, <3>3 DEF State, Running, b
    <3>5. Good(b)
      BY <1>0, <2>1, <2>2, <2>3, <3>2, <3>4 DEF Good, Running, Calling
    <3>6. QED
      BY <1>6, <2>1, <3>5, EmitKeeps DEF SendResult, At, Running, b
  <2>6. QED
    BY <2>4, <2>5
<1>7. QED
  BY <1>1, <1>2, <1>3, <1>4, <1>6

-----------------------------------------------------------------------------
(* The rest of the writer function *)

LEMMA WriterKeeps ==
    ASSUME IInv, NEW s \in Streams,
           \/ \E tools \in BOOLEAN : Open(s, tools)
           \/ ModelFails(s) \/ StreamDelta(s) \/ StreamOver(s)
           \/ SendDelta(s) \/ AnswerSent(s)
           \/ StopKeepalive(s) \/ SendError(s) \/ SendDone(s) \/ Return(s)
    PROVE  IInv'
<1> DEFINE a == streams[s]
<1>0. Good(a) /\ a \in State
  BY DEF IInv
<1>1. ASSUME NEW tools \in BOOLEAN, Open(s, tools) PROVE IInv'
  <2> DEFINE b == [GoTo(s, IF tools THEN "round" ELSE "streaming") EXCEPT !.beat = "waiting"]
  <2>1. a.at = "idle" /\ a.messages = <<>> /\ a.left = 0
    BY <1>0, <1>1 DEF Open, At, Good
  <2>2. Owes(<<>>, 0)
    BY DEF Owes
  <2>3. b \in State /\ b.at \in {"round", "streaming"} /\ b.messages = <<>> /\ b.left = 0
        /\ b.beat = "waiting"
    BY <1>0, <2>1 DEF GoTo, State, Running
  <2>4. Good(b)
    BY <2>2, <2>3 DEF Good, Running, Calling
  <2>5. QED
    BY <1>1, <2>4, PassKeeps DEF Open
<1>2. CASE ModelFails(s)
  BY <1>2, GoOn, PassKeeps DEF ModelFails, At, Running
<1>3. CASE StreamDelta(s)
  <2> DEFINE b == [streams[s] EXCEPT !.left = @ + 1]
  <2>1. a.at = "streaming" /\ a.left < MaxChunks
    BY <1>3 DEF StreamDelta, At
  <2>2. a.left + 1 \in 0..MaxCalls + MaxChunks /\ a.left + 1 <= MaxChunks
    BY <1>0, <2>1 DEF State
  <2>3. b \in State /\ b.at = "streaming" /\ b.left = a.left + 1 /\ b.beat = a.beat
        /\ b.ctx = a.ctx /\ b.stopped = a.stopped
    BY <1>0, <2>1, <2>2 DEF State
  <2>4. Good(b)
    BY <1>0, <2>1, <2>2, <2>3 DEF Good, Running, Calling
  <2>5. QED
    BY <1>3, <2>1, <2>4, EmitKeeps DEF StreamDelta, At, Running
<1>4. CASE StreamOver(s)
  BY <1>4, GoOn, PassKeeps DEF StreamOver, At, Running
<1>5. CASE SendDelta(s)
  <2> DEFINE b == [streams[s] EXCEPT !.left = @ - 1]
  <2>1. a.at = "deltas" /\ a.left > 0
    BY <1>5 DEF SendDelta, At
  <2>2. a.left - 1 \in 0..MaxCalls + MaxChunks
    BY <1>0, <2>1 DEF State
  <2>3. b \in State /\ b.at = "deltas" /\ b.beat = a.beat /\ b.ctx = a.ctx
        /\ b.stopped = a.stopped
    BY <1>0, <2>1, <2>2 DEF State
  <2>4. Good(b)
    BY <1>0, <2>1, <2>3 DEF Good, Running, Calling
  <2>5. QED
    BY <1>5, <2>1, <2>4, EmitKeeps DEF SendDelta, At, Running
<1>6. CASE AnswerSent(s)
  BY <1>6, GoOn, PassKeeps DEF AnswerSent, At, Running
<1>7. CASE StopKeepalive(s)
  <2> DEFINE b == [GoTo(s, IF At(s, {"failed"}) THEN "ending" ELSE "done")
                   EXCEPT !.stopped = TRUE]
  <2>1. Good(b)
    BY <1>0 DEF Good, GoTo, State, Running, Calling
  <2>2. QED
    BY <1>7, <2>1, PassKeeps DEF StopKeepalive
<1>8. CASE SendError(s)
  BY <1>8, GoOn, WriteKeeps DEF SendError, At, Running
<1>9. CASE SendDone(s)
  BY <1>9, GoOn, WriteKeeps DEF SendDone, At, Running
<1>10. CASE Return(s)
  <2> DEFINE b == [GoTo(s, "returned") EXCEPT !.ctx = "over"]
  <2>1. Good(b)
    BY <1>0 DEF Good, GoTo, State, Running, Calling
  <2>2. QED
    BY <1>10, <2>1, PassKeeps DEF Return
<1>11. QED
  BY <1>1, <1>2, <1>3, <1>4, <1>5, <1>6, <1>7, <1>8, <1>9, <1>10

-----------------------------------------------------------------------------
(* The keepalive goroutine, the context, the client *)

\* Neither touches what RunAgent holds.
LEMMA BesideGood ==
    ASSUME IInv, NEW s \in Streams, NEW b \in State,
           b.at = streams[s].at, b.left = streams[s].left, b.round = streams[s].round,
           b.messages = streams[s].messages,
           b.at \in Running /\ b.beat = "gone" => b.ctx = "over" \/ b.stopped
    PROVE  Good(b)
BY DEF IInv, Good

LEMMA Beside ==
    ASSUME IInv, NEW s \in Streams, NEW b \in State, Pass(s, b),
           b.at = streams[s].at, b.left = streams[s].left, b.round = streams[s].round,
           b.messages = streams[s].messages,
           b.at \in Running /\ b.beat = "gone" => b.ctx = "over" \/ b.stopped
    PROVE  IInv'
<1>1. Good(b)
  BY BesideGood
<1>2. QED
  BY <1>1, PassKeeps

\* One of the frames of a heartbeat, wherever it lands.
LEMMA BeatKeeps ==
    ASSUME IInv, NEW s \in Streams, NEW next \in {"half", "waiting"}, Beat(s, next)
    PROVE  IInv'
<1> DEFINE a == streams[s]
           b == [a EXCEPT !.beat = next]
<1>1. a \in State
  BY DEF IInv
<1>2. b \in State /\ b.at = a.at /\ b.left = a.left /\ b.round = a.round
      /\ b.messages = a.messages /\ b.beat = next
  BY <1>1 DEF State
<1>3. Good(b)
  <2> HIDE DEF b
  <2>1. b.beat # "gone"
    BY <1>2
  <2>2. QED
    BY <1>2, <2>1, BesideGood
<1>4. CASE Write(s, "heartbeat", b, b)
  BY <1>3, <1>4, WriteKeeps
<1>5. CASE Pass(s, b)
  BY <1>3, <1>5, PassKeeps
<1>6. ASSUME NEW t \in Streams \ {s}, streams' = [streams EXCEPT ![s] = b, ![t].foreign = TRUE]
      PROVE  IInv'
  <2> DEFINE c == [streams[t] EXCEPT !.foreign = TRUE]
  <2>1. streams[t] \in State
    BY DEF IInv
  <2>2. c \in State /\ c.at = streams[t].at /\ c.left = streams[t].left
        /\ c.round = streams[t].round /\ c.messages = streams[t].messages
        /\ c.beat = streams[t].beat /\ c.ctx = streams[t].ctx /\ c.stopped = streams[t].stopped
    BY <2>1 DEF State
  <2>3. Good(c)
    <3> HIDE DEF c
    <3>1. Good(streams[t])
      BY DEF IInv
    <3>2. QED
      BY <2>2, <3>1, BesideGood DEF Good
  <2> HIDE DEF b
  <2>4. streams' = [streams EXCEPT ![s] = b, ![t] = c]
    BY <1>6
  <2> HIDE DEF c
  <2>5. streams' \in [Streams -> State] /\ \A u \in Streams : Good(streams'[u])
    BY <1>2, <1>3, <2>2, <2>3, <2>4 DEF IInv
  <2>6. \A u \in Streams : Good(streams[u])'
    BY <2>5 DEF Good, Owes, Followed, State, Running, Calling
  <2>7. QED
    BY <2>5, <2>6 DEF IInv, State, Running, Streams
<1>7. QED
  BY <1>4, <1>5, <1>6 DEF Beat

LEMMA OthersKeep ==
    ASSUME IInv, NEW s \in Streams,
           \/ BeatDue(s) \/ BeatComment(s) \/ BeatStatus(s) \/ BeatEnds(s)
           \/ Timeout(s) \/ Disconnect(s)
    PROVE  IInv'
<1> DEFINE a == streams[s]
<1>0. a \in State /\ (a.at \in Running /\ a.beat = "gone" => a.ctx = "over" \/ a.stopped)
  BY DEF IInv, Good
<1>1. CASE BeatDue(s)
  <2> DEFINE b == [a EXCEPT !.beat = "due", !.beats = @ + 1]
  <2>1. a.beats + 1 \in 0..MaxBeats
    BY <1>0, <1>1, SMTT(30) DEF BeatDue, State
  <2>2. b \in State
    BY <1>0, <2>1 DEF State
  <2>3. QED
    BY <1>0, <1>1, <2>2, Beside DEF BeatDue, State
<1>2. CASE BeatComment(s) \/ BeatStatus(s)
  BY <1>2, BeatKeeps DEF BeatComment, BeatStatus
<1>3. CASE BeatEnds(s)
  <2> DEFINE b == [a EXCEPT !.beat = "gone"]
  <2>1. b \in State
    BY <1>0 DEF State
  <2>2. QED
    BY <1>0, <1>3, <2>1, Beside DEF BeatEnds, State
<1>4. CASE Timeout(s)
  <2> DEFINE b == [a EXCEPT !.ctx = "over"]
  <2>1. b \in State
    BY <1>0 DEF State
  <2>2. QED
    BY <1>0, <1>4, <2>1, Beside DEF Timeout, State
<1>5. CASE Disconnect(s)
  <2> DEFINE b == [a EXCEPT !.conn = "left"]
  <2>1. b \in State
    BY <1>0 DEF State
  <2>2. QED
    BY <1>0, <1>5, <2>1, Beside DEF Disconnect, State
<1>6. QED
  BY <1>1, <1>2, <1>3, <1>4, <1>5

-----------------------------------------------------------------------------

LEMMA NextIInv == IInv /\ [Next]_vars => IInv'
<1> SUFFICES ASSUME IInv, [Next]_vars PROVE IInv'
  OBVIOUS
<1>1. ASSUME UNCHANGED streams PROVE IInv'
  <2>1. streams' \in [Streams -> State] /\ \A s \in Streams : Good(streams'[s])
    BY <1>1 DEF IInv
  <2>2. \A s \in Streams : Good(streams[s])'
    BY <2>1 DEF Good, Owes, Followed, State, Running, Calling
  <2>3. QED
    BY <2>1, <2>2 DEF IInv, State, Running, Streams
<1>2. CASE StreamNext
  <2>1. ASSUME NEW s \in Streams, HandlerStep(s) PROVE IInv'
    BY <2>1, AgentKeeps, WriterKeeps DEF HandlerStep
  <2>2. QED
    BY <1>2, <2>1, WriterKeeps, OthersKeep DEF StreamNext
<1>3. QED
  BY <1>1, <1>2 DEF Next, vars, playgroundVars

\* The invariant holds in every behaviour, whatever fails and whenever.
THEOREM Inductive == Spec => []IInv
BY InitIInv, NextIInv, PTL DEF Spec

\* Types and bounds hold, and while the writer function runs so does its
\* keepalive goroutine, unless it was told to stop (Stream).
THEOREM TypeCorrect == Spec => []TypeOK
<1>1. IInv => TypeOK
  BY DEF IInv, Good, State, TypeOK, At
<1>2. QED
  BY <1>1, Inductive, PTL

\* Whatever the model answers, in any number of rounds and calls, each
\* conversation it is sent has one tool message for each call (RunAgent).
THEOREM ConversationCorrect == Spec => []ConversationOK
<1>1. IInv => ConversationOK
  <2> SUFFICES ASSUME IInv, NEW s \in Streams, At(s, {"chat"}),
                      NEW i \in DOMAIN streams[s].messages, streams[s].messages[i] > 0
               PROVE  LET m == streams[s].messages
                          last == i + m[i] IN
                      /\ last <= Len(m) /\ \A j \in i + 1..last : m[j] = 0
                      /\ last = Len(m) \/ m[last + 1] > 0
    BY DEF ConversationOK
  <2> DEFINE m == streams[s].messages
             last == i + m[i]
  <2>1. m \in Seq(0..MaxCalls) /\ Owes(m, 0)
    BY DEF IInv, Good, State, At
  <2>2. i \in 1..Len(m) /\ m[i] \in Nat /\ Len(m) \in Nat
    BY <2>1
  <2>3. Followed(m, i, 0)
    BY <2>1, <2>2 DEF Owes
  <2> HIDE DEF m
  <2>4. last \in Nat /\ last <= Len(m)
    BY <2>2, <2>3 DEF Followed
  <2>5. ASSUME NEW j \in i + 1..last PROVE m[j] = 0
    <3>1. j \in 1..Len(m) /\ i < j /\ j <= i + m[i]
      BY <2>2, <2>4, <2>5
    <3>2. QED
      BY <2>3, <3>1 DEF Followed
  <2>6. last = Len(m) \/ m[last + 1] > 0
    <3>1. CASE last < Len(m)
      <4>1. last + 1 \in 1..Len(m) /\ last + 1 = i + m[i] + 1
        BY <2>2, <2>4, <3>1
      <4>2. QED
        BY <2>3, <4>1 DEF Followed
    <3>2. QED
      BY <2>2, <2>4, <3>1
  <2>7. QED
    BY <2>4, <2>5, <2>6 DEF m
<1>2. QED
  BY <1>1, Inductive, PTL

-----------------------------------------------------------------------------
(* The limiter in front: what is proved of it alone holds with the streams *)

\* No stream touches the limiter.
LEMMA LimitPart == Spec => LimitSpec
<1>1. Init => LimitInit
  BY DEF Init
<1>2. [Next]_vars => [LimitNext]_limitVars
  BY DEF Next, vars, limitVars
<1>3. QED
  BY <1>1, <1>2, PTL DEF Spec, LimitSpec

\* With any number of streams behind it, at most Max calls are admitted that
\* carry times less than a window, less the longest wait, apart (AISEO.allow).
THEOREM RateKept == Spec => []RateBounded
BY LimitPart, RateCorrect, PTL

\* With any number of streams behind it, nobody is refused unless Max were
\* admitted since a window before its own time (AISEO.allow).
THEOREM RefusalKept == Spec => RefusedRightly
BY LimitPart, RefusalCorrect, PTL

-----------------------------------------------------------------------------
(* What the clients are told: the frames of each stream *)

KindNames == {"heartbeat", "delta", "tool_call", "tool_result", "error", "done", "torn"}

Frame == [by : Streams, kind : KindNames]

-----------------------------------------------------------------------------
(* One more frame at the end of a transcript *)

\* The last frame the handler wrote, if any, has one of these kinds.
EndsWith(o, kinds) ==
    \A i \in Own(o) : (\A k \in Own(o) : k <= i) => o[i].kind \in kinds

Count(o, kind) == Cardinality(Kinds(o, kind))

LEMMA FrameAppended ==
    ASSUME NEW o \in Seq(Frame), NEW f \in Frame
    PROVE  LET n == Append(o, f) IN
           /\ n \in Seq(Frame) /\ Len(o) \in Nat
           /\ DOMAIN o = 1..Len(o) /\ DOMAIN n = 1..(Len(o) + 1)
           /\ n[Len(o) + 1] = f
           /\ \A i \in 1..Len(o) : n[i] = o[i]
OBVIOUS

LEMMA OwnAppended ==
    ASSUME NEW o \in Seq(Frame), NEW f \in Frame
    PROVE  LET n == Append(o, f) IN
           /\ Own(n) = IF f.kind = "heartbeat" THEN Own(o) ELSE Own(o) \cup {Len(o) + 1}
           /\ \A i \in Own(o) : i \in 1..Len(o) /\ n[i] = o[i]
BY FrameAppended DEF Own

LEMMA KindsAppended ==
    ASSUME NEW o \in Seq(Frame), NEW f \in Frame, NEW kind
    PROVE  Kinds(Append(o, f), kind) = IF f.kind = kind THEN Kinds(o, kind) \cup {Len(o) + 1}
                                       ELSE Kinds(o, kind)
BY FrameAppended DEF Kinds

LEMMA CountType ==
    ASSUME NEW o \in Seq(Frame), NEW kind
    PROVE  IsFiniteSet(Kinds(o, kind)) /\ Count(o, kind) \in Nat
<1>1. Kinds(o, kind) \in SUBSET (1..Len(o)) /\ Len(o) \in Nat
  BY DEF Kinds
<1>2. IsFiniteSet(1..Len(o))
  BY <1>1, FS_Interval
<1>3. IsFiniteSet(Kinds(o, kind))
  BY <1>1, <1>2, FS_Subset
<1>4. QED
  BY <1>3, FS_CardinalityType DEF Count

LEMMA CountAppended ==
    ASSUME NEW o \in Seq(Frame), NEW f \in Frame, NEW kind
    PROVE  Count(Append(o, f), kind) = IF f.kind = kind THEN Count(o, kind) + 1 ELSE Count(o, kind)
<1>1. Len(o) + 1 \notin Kinds(o, kind)
  BY FrameAppended DEF Kinds
<1>2. IsFiniteSet(Kinds(o, kind))
  BY CountType
<1>3. Cardinality(Kinds(o, kind) \cup {Len(o) + 1}) = Cardinality(Kinds(o, kind)) + 1
  BY <1>1, <1>2, FS_AddElement
<1>4. Kinds(Append(o, f), kind) = IF f.kind = kind THEN Kinds(o, kind) \cup {Len(o) + 1}
                                  ELSE Kinds(o, kind)
  BY KindsAppended
<1>5. QED
  BY <1>3, <1>4 DEF Count

\* A heartbeat changes nothing of what a transcript tells.
LEMMA Heartbeat ==
    ASSUME NEW o \in Seq(Frame), NEW s \in Streams
    PROVE  LET n == Append(o, [by |-> s, kind |-> "heartbeat"]) IN
           /\ n \in Seq(Frame) /\ Own(n) = Own(o) /\ \A i \in Own(o) : n[i] = o[i]
           /\ \A kind \in KindNames \ {"heartbeat"} : Kinds(n, kind) = Kinds(o, kind)
<1>1. [by |-> s, kind |-> "heartbeat"] \in Frame
  BY DEF Frame, KindNames
<1>2. QED
  BY <1>1, FrameAppended, OwnAppended, KindsAppended

\* A frame of the handler's may follow those of kinds.
Fits(kinds, kind) ==
    \A k \in kinds : /\ k = "tool_call" <=> kind = "tool_result"
                     /\ k = "delta" => kind \in {"delta", "error", "done"}
                     /\ k = "error" => kind = "done"
                     /\ k # "done"

\* A frame that fits the last one keeps a transcript well told.
LEMMA OneMore ==
    ASSUME NEW o \in Seq(Frame), NEW s \in Streams, NEW kind \in KindNames \ {"heartbeat"},
           NEW kinds, WellTold(o), EndsWith(o, kinds), Fits(kinds, kind),
           kind = "tool_result" => Own(o) # {}
    PROVE  LET n == Append(o, [by |-> s, kind |-> kind]) IN
           WellTold(n) /\ EndsWith(n, {kind}) /\ Own(n) # {}
<1> DEFINE f == [by |-> s, kind |-> kind]
           n == Append(o, f)
           last == Len(o) + 1
<1>1. f \in Frame /\ f.kind = kind /\ f.kind # "heartbeat"
  BY DEF Frame
<1>2. /\ Own(n) = Own(o) \cup {last} /\ n[last].kind = kind
      /\ \A i \in Own(o) : i \in 1..Len(o) /\ n[i] = o[i]
      /\ Kinds(n, "tool_result") = IF kind = "tool_result" THEN Kinds(o, "tool_result") \cup {last}
                                   ELSE Kinds(o, "tool_result")
      /\ Len(o) \in Nat
  <2> HIDE DEF f
  <2>1. Len(o) \in Nat /\ n[last] = f
    BY <1>1, FrameAppended
  <2>2. Own(n) = Own(o) \cup {last} /\ \A i \in Own(o) : i \in 1..Len(o) /\ n[i] = o[i]
    BY <1>1, OwnAppended
  <2>3. Kinds(n, "tool_result") = IF kind = "tool_result" THEN Kinds(o, "tool_result") \cup {last}
                                  ELSE Kinds(o, "tool_result")
    BY <1>1, KindsAppended
  <2>4. QED
    BY <1>1, <2>1, <2>2, <2>3
<1>3. \A i \in Own(n) : i \in 1..last
  BY <1>2
<1> HIDE DEF n
<1>4. ASSUME NEW i \in Own(n), NEW j \in Own(n), Following(n, i, j)
      PROVE  /\ n[i].kind = "tool_call" <=> n[j].kind = "tool_result"
             /\ n[i].kind = "delta" => n[j].kind \in {"delta", "error", "done"}
             /\ n[i].kind = "error" => n[j].kind = "done"
             /\ n[i].kind # "done"
  <2>1. i < j /\ i \in Own(o)
    BY <1>2, <1>3, <1>4 DEF Following
  <2>2. CASE j = last
    <3>1. \A k \in Own(o) : k <= i
      <4>1. \A k \in Own(o) : k \in Own(n) /\ k \in 1..Len(o)
        BY <1>2
      <4>2. \A k \in Own(o) : ~(j <= k)
        BY <1>2, <2>2, <4>1
      <4>3. QED
        BY <1>4, <4>1, <4>2 DEF Following
    <3>2. o[i].kind \in kinds
      BY <2>1, <3>1 DEF EndsWith
    <3>3. QED
      BY <1>2, <2>1, <2>2, <3>2 DEF Fits
  <2>3. CASE j # last
    <3>1. j \in Own(o) /\ Following(o, i, j)
      BY <1>2, <1>4, <2>3 DEF Following
    <3>2. QED
      BY <1>2, <2>1, <3>1 DEF WellTold
  <2>4. QED
    BY <2>2, <2>3
<1>5. ASSUME NEW j \in Kinds(n, "tool_result")
      PROVE  \E i \in Own(n) : i < j
  <2>1. CASE j \in Kinds(o, "tool_result")
    BY <1>2, <2>1 DEF WellTold
  <2>2. CASE kind = "tool_result" /\ j = last
    <3>1. PICK i \in Own(o) : TRUE
      BY <2>2
    <3>2. i < last
      BY <1>2
    <3>3. QED
      BY <1>2, <2>2, <3>2
  <2>3. QED
    BY <1>2, <1>5, <2>1, <2>2
<1>6. EndsWith(n, {kind})
  <2>1. ASSUME NEW i \in Own(n), \A k \in Own(n) : k <= i
        PROVE  n[i].kind = kind
    BY <1>2, <1>3, <2>1
  <2>2. QED
    BY <2>1 DEF EndsWith
<1>7. QED
  BY <1>2, <1>4, <1>5, <1>6 DEF WellTold, n

-----------------------------------------------------------------------------
(* The inductive invariant: each stream has told what its stage says *)

\* The kinds of frame that may be the last one before a stage; a transcript
\* that ends in a call takes no more frames once the call has failed.
Latest(at) ==
    CASE at \in {"idle", "round", "chat", "call"} -> {"tool_result"}
      [] at \in {"announced", "result"} -> {"tool_call"}
      [] at \in {"deltas", "streaming", "finished", "failed", "ending"} -> {"tool_result", "delta"}
      [] at = "done" -> {"tool_result", "delta", "error"}
      [] OTHER -> KindNames

\* What a stream has told that still takes frames.
Current(a, o) ==
    /\ EndsWith(o, Latest(a.at))
    /\ a.at \in {"announced", "result"} =>
         Own(o) # {} /\ Count(o, "tool_call") = Count(o, "tool_result") + 1
    /\ a.at \notin {"announced", "result"} => Count(o, "tool_call") = Count(o, "tool_result")
    /\ a.executed = IF a.at = "result" THEN Count(o, "tool_result") + 1
                    ELSE Count(o, "tool_result")
    /\ a.at \notin {"leaving", "returned"} => Kinds(o, "done") = {}

Told(a, o) ==
    /\ WellTold(o)
    /\ a.executed <= Count(o, "tool_call")
    /\ Kinds(o, "done") # {} => a.executed = Count(o, "tool_result")
    /\ \A i \in Kinds(o, "done") : \A j \in Own(o) : j <= i
    /\ a.conn # "broken" => Current(a, o)

ToldInv ==
    /\ streams \in [Streams -> State]
    /\ out \in [Streams -> Seq(Frame)]
    /\ \A s \in Streams : ~streams[s].foreign => Told(streams[s], out[s])

LEMMA InitTold == Init => ToldInv
<1> SUFFICES ASSUME Init PROVE ToldInv
  OBVIOUS
<1>1. <<>> \in Seq(Frame) /\ Own(<<>>) = {} /\ \A kind \in KindNames : Kinds(<<>>, kind) = {}
  BY DEF Own, Kinds
<1>2. Count(<<>>, "tool_call") = 0 /\ Count(<<>>, "tool_result") = 0
  BY <1>1, FS_EmptySet DEF Count, KindNames
<1>3. WellTold(<<>>) /\ EndsWith(<<>>, Latest("idle"))
  BY <1>1 DEF WellTold, EndsWith, KindNames
<1>4. Told(Idle, <<>>)
  BY <1>1, <1>2, <1>3 DEF Told, Current, Idle, KindNames, Own
<1>5. Idle \in State
  BY DEF State, Idle, Running
<1>6. QED
  BY <1>1, <1>4, <1>5 DEF Init, ToldInv

-----------------------------------------------------------------------------
(* A step gives one stream a new state and its client at most one more frame *)

LEMMA Tells ==
    ASSUME ToldInv, streams' \in [Streams -> State], NEW s \in Streams, NEW b,
           NEW o \in Seq(Frame), Become(s, b), out' = [out EXCEPT ![s] = o],
           ~b.foreign => Told(b, o)
    PROVE  ToldInv'
<1>1. out' \in [Streams -> Seq(Frame)]
  BY DEF ToldInv
<1>2. \A t \in Streams : ~streams'[t].foreign => Told(streams'[t], out'[t])
  BY DEF ToldInv, Become
<1>3. QED
  BY <1>1, <1>2 DEF ToldInv, Told

\* Nothing is written, and what was told suits the next stage.
LEMMA PassTells ==
    ASSUME ToldInv, streams' \in [Streams -> State], NEW s \in Streams, NEW b, Pass(s, b),
           b.conn \in {streams[s].conn, "broken"}, b.executed = streams[s].executed,
           b.foreign = streams[s].foreign,
           b.conn # "broken" /\ Current(streams[s], out[s]) => Current(b, out[s])
    PROVE  ToldInv'
<1>1. ~b.foreign => Told(b, out[s])
  BY DEF ToldInv, Told
<1>2. out' = [out EXCEPT ![s] = out[s]] /\ out[s] \in Seq(Frame)
  BY DEF Pass, ToldInv
<1>3. QED
  BY <1>1, <1>2, Tells DEF Pass

\* The stream takes a frame, or the write fails without one.
LEMMA WriteTells ==
    ASSUME ToldInv, streams' \in [Streams -> State], NEW s \in Streams,
           NEW kind \in KindNames, NEW b, NEW c \in State, Write(s, kind, b, c),
           b.foreign = streams[s].foreign, c.foreign = streams[s].foreign,
           c.executed = streams[s].executed,
           streams[s].conn # "broken" /\ Told(streams[s], out[s])
             => Told(b, Append(out[s], [by |-> s, kind |-> kind]))
    PROVE  ToldInv'
<1>1. CASE streams[s].conn # "broken" /\ Become(s, b)
           /\ out' = [out EXCEPT ![s] = Append(@, [by |-> s, kind |-> kind])]
  <2> DEFINE f == [by |-> s, kind |-> kind]
  <2>1. out[s] \in Seq(Frame) /\ out' = [out EXCEPT ![s] = Append(out[s], f)]
    BY <1>1 DEF ToldInv
  <2>2. f \in Frame
    BY DEF Frame
  <2>3. Append(out[s], f) \in Seq(Frame)
    BY <2>1, <2>2
  <2>4. ~b.foreign => Told(b, Append(out[s], f))
    BY <1>1 DEF ToldInv
  <2> HIDE DEF f
  <2>5. QED
    BY <1>1, <2>1, <2>3, <2>4, Tells
<1>2. CASE Pass(s, [c EXCEPT !.conn = "broken"])
  <2> DEFINE d == [c EXCEPT !.conn = "broken"]
  <2>1. d.conn = "broken" /\ d.executed = c.executed /\ d.foreign = c.foreign
    BY DEF State
  <2> HIDE DEF d
  <2>2. Pass(s, d)
    BY <1>2 DEF d
  <2>3. QED
    BY <2>1, <2>2, PassTells
<1>3. QED
  BY <1>1, <1>2 DEF Write, Pass

LEMMA EmitTells ==
    ASSUME ToldInv, streams' \in [Streams -> State], NEW s \in Streams,
           NEW kind \in KindNames, NEW b, Emit(s, kind, b), At(s, Running),
           b.foreign = streams[s].foreign,
           streams[s].conn # "broken" /\ Told(streams[s], out[s])
             => Told(b, Append(out[s], [by |-> s, kind |-> kind]))
    PROVE  ToldInv'
<1> DEFINE c == GoTo(s, "failed")
<1>1. streams[s] \in State
  BY DEF ToldInv
<1>2. c \in State /\ c.foreign = streams[s].foreign /\ c.executed = streams[s].executed
  BY <1>1 DEF GoTo, State, Running
<1> HIDE DEF c
<1>3. QED
  BY <1>2, WriteTells DEF Emit, c

\* A status frame is not told, and when it fails nothing is told any more.
LEMMA ReportTells ==
    ASSUME ToldInv, streams' \in [Streams -> State], NEW s \in Streams, NEW b, Report(s, b),
           Pass(s, b) => ToldInv'
    PROVE  ToldInv'
<1> DEFINE c == [GoTo(s, "failed") EXCEPT !.conn = "broken"]
<1>1. streams[s] \in State
  BY DEF ToldInv
<1>2. c.conn = "broken" /\ c.foreign = streams[s].foreign /\ c.executed = streams[s].executed
  BY <1>1 DEF GoTo, State
<1> HIDE DEF c
<1>3. CASE Pass(s, c)
  BY <1>2, <1>3, PassTells
<1>4. QED
  BY <1>3 DEF Report, c

\* A stage with nothing pending may be followed by one that expects no less.
LEMMA MovesOn ==
    ASSUME NEW a, NEW o, NEW b, Current(a, o), b.executed = a.executed,
           Latest(a.at) \subseteq Latest(b.at),
           a.at \notin {"announced", "result"}, b.at \notin {"announced", "result"},
           a.at \in {"leaving", "returned"} => b.at \in {"leaving", "returned"}
    PROVE  Current(b, o)
BY DEF Current, EndsWith

\* The next frame of the handler's, and the stage it leads to.
LEMMA Speaks ==
    ASSUME NEW a \in State, NEW o \in Seq(Frame), Told(a, o), a.conn # "broken",
           NEW s \in Streams, NEW b, b.executed = a.executed,
           NEW kind \in KindNames \ {"heartbeat"},
           \/ kind = "delta" /\ a.at \in {"deltas", "streaming"} /\ b.at = a.at
           \/ kind = "tool_call" /\ a.at = "call" /\ b.at = "announced"
           \/ kind = "tool_result" /\ a.at = "result" /\ b.at \in {"call", "round"}
           \/ kind = "error" /\ a.at = "ending" /\ b.at = "done"
           \/ kind = "done" /\ a.at = "done" /\ b.at = "leaving"
    PROVE  Told(b, Append(o, [by |-> s, kind |-> kind]))
<1> DEFINE f == [by |-> s, kind |-> kind]
           n == Append(o, f)
<1>1. f \in Frame /\ f.kind = kind
  BY DEF Frame
<1> HIDE DEF f
<1>2. n \in Seq(Frame) /\ WellTold(o) /\ Current(a, o)
  BY <1>1, FrameAppended DEF Told
<1>3. EndsWith(o, Latest(a.at)) /\ Fits(Latest(a.at), kind) /\ {kind} \subseteq Latest(b.at)
  BY <1>2 DEF Current, Latest, Fits, KindNames
<1>4. kind = "tool_result" => Own(o) # {}
  BY <1>2 DEF Current
<1>5. WellTold(n) /\ EndsWith(n, {kind}) /\ Own(n) # {}
  BY <1>2, <1>3, <1>4, OneMore DEF f
<1>6. EndsWith(n, Latest(b.at))
  BY <1>3, <1>5 DEF EndsWith
<1>7. \A k \in KindNames : /\ Count(n, k) = IF kind = k THEN Count(o, k) + 1 ELSE Count(o, k)
                           /\ Count(o, k) \in Nat
  BY <1>1, <1>2, CountAppended, CountType
<1>8. /\ Kinds(n, "done") = IF kind = "done" THEN {Len(o) + 1} ELSE {}
      /\ Own(n) \subseteq Own(o) \cup {Len(o) + 1} /\ \A i \in Own(o) : i <= Len(o) + 1
      /\ Len(o) \in Nat
  <2>1. Kinds(o, "done") = {}
    BY <1>2 DEF Current
  <2>2. Kinds(n, "done") = IF kind = "done" THEN Kinds(o, "done") \cup {Len(o) + 1}
                           ELSE Kinds(o, "done")
    BY <1>1, KindsAppended
  <2>3. Own(n) = (IF kind = "heartbeat" THEN Own(o) ELSE Own(o) \cup {Len(o) + 1})
        /\ \A i \in Own(o) : i \in 1..Len(o)
    BY <1>1, OwnAppended
  <2>4. Len(o) \in Nat
    BY <1>1, FrameAppended
  <2> HIDE DEF n
  <2>5. QED
    BY <2>1, <2>2, <2>3, <2>4
<1> HIDE DEF n
<1>9. /\ Count(n, "tool_call") = IF kind = "tool_call" THEN Count(o, "tool_call") + 1
                                 ELSE Count(o, "tool_call")
      /\ Count(n, "tool_result") = IF kind = "tool_result" THEN Count(o, "tool_result") + 1
                                   ELSE Count(o, "tool_result")
      /\ Count(o, "tool_call") \in Nat /\ Count(o, "tool_result") \in Nat
  BY <1>7 DEF KindNames
<1>10. Current(b, n)
  BY <1>2, <1>5, <1>6, <1>8, <1>9 DEF Current
<1>11. Kinds(n, "done") # {} => b.executed = Count(n, "tool_result")
  BY <1>2, <1>8, <1>9, <1>10 DEF Current
<1>12. b.executed <= Count(n, "tool_call")
  BY <1>2, <1>9, <1>10 DEF Current
<1>13. \A i \in Kinds(n, "done") : \A j \in Own(n) : j <= i
  BY <1>8
<1>14. QED
  BY <1>2, <1>5, <1>10, <1>11, <1>12, <1>13 DEF Told, n, f

-----------------------------------------------------------------------------
(* The steps of a stream *)

LEMMA Passing ==
    ASSUME ToldInv, streams' \in [Streams -> State], NEW s \in Streams,
           \/ \E tools \in BOOLEAN : Open(s, tools)
           \/ \E calls \in 0..MaxCalls, chunks \in 0..MaxChunks : ModelAnswers(s, calls, chunks)
           \/ StartRound(s) \/ ModelFails(s) \/ StreamOver(s) \/ AnswerSent(s)
           \/ StopKeepalive(s) \/ Return(s)
    PROVE  ToldInv'
<1> DEFINE a == streams[s]
           o == out[s]
<1>0. a \in State
  BY DEF ToldInv
<1>1. ASSUME NEW b, Pass(s, b), b.conn = a.conn, b.executed = a.executed,
             b.foreign = a.foreign, Latest(a.at) \subseteq Latest(b.at),
             a.at \notin {"announced", "result"}, b.at \notin {"announced", "result"},
             a.at \in {"leaving", "returned"} => b.at \in {"leaving", "returned"}
      PROVE  ToldInv'
  BY <1>1, MovesOn, PassTells
<1>2. ASSUME NEW tools \in BOOLEAN, Open(s, tools) PROVE ToldInv'
  <2> DEFINE b == [GoTo(s, IF tools THEN "round" ELSE "streaming") EXCEPT !.beat = "waiting"]
  <2>1. a.at = "idle" /\ Pass(s, b)
    BY <1>2 DEF Open, At
  <2>2. b.conn = a.conn /\ b.executed = a.executed /\ b.foreign = a.foreign
        /\ b.at \in {"round", "streaming"}
    BY <1>0 DEF GoTo, State
  <2> HIDE DEF b
  <2>3. Latest(a.at) \subseteq Latest(b.at)
    BY <2>1, <2>2 DEF Latest
  <2>4. QED
    BY <1>1, <2>1, <2>2, <2>3
<1>3. ASSUME NEW calls \in 0..MaxCalls, NEW chunks \in 0..MaxChunks, ModelAnswers(s, calls, chunks)
      PROVE  ToldInv'
  <2> DEFINE b == IF calls = 0 THEN [GoTo(s, "deltas") EXCEPT !.left = chunks]
                  ELSE [GoTo(s, "call") EXCEPT !.left = calls, !.messages = Append(@, calls)]
  <2>1. a.at = "chat" /\ Pass(s, b)
    BY <1>3 DEF ModelAnswers, At
  <2>2. b.conn = a.conn /\ b.executed = a.executed /\ b.foreign = a.foreign
        /\ b.at \in {"call", "deltas"}
    BY <1>0 DEF GoTo, State
  <2> HIDE DEF b
  <2>3. Latest(a.at) \subseteq Latest(b.at)
    BY <2>1, <2>2 DEF Latest
  <2>4. QED
    BY <1>1, <2>1, <2>2, <2>3
<1>4. ASSUME NEW stage \in Running, Pass(s, GoTo(s, stage)),
             \/ a.at = "round" /\ stage \in {"chat", "failed"}
             \/ a.at \in {"chat", "streaming"} /\ stage = "failed"
             \/ a.at \in {"streaming", "deltas"} /\ stage = "finished"
      PROVE  ToldInv'
  <2> DEFINE b == GoTo(s, stage)
  <2>1. b.conn = a.conn /\ b.executed = a.executed /\ b.foreign = a.foreign /\ b.at = stage
    BY <1>0 DEF GoTo, State
  <2> HIDE DEF b
  <2>2. Latest(a.at) \subseteq Latest(b.at)
    BY <1>4, <2>1 DEF Latest
  <2>3. QED
    BY <1>1, <1>4, <2>1, <2>2 DEF b
<1>5. CASE StartRound(s)
  <2>1. a.at = "round"
    BY <1>5 DEF StartRound, At
  <2>2. Pass(s, GoTo(s, "chat")) => ToldInv'
    BY <1>4, <2>1 DEF Running
  <2>3. Pass(s, GoTo(s, "failed")) => ToldInv'
    BY <1>4, <2>1 DEF Running
  <2>4. Report(s, GoTo(s, "chat")) => ToldInv'
    BY <2>2, ReportTells
  <2>5. QED
    BY <1>5, <2>3, <2>4 DEF StartRound
<1>6. CASE ModelFails(s)
  BY <1>4, <1>6 DEF ModelFails, At, Running
<1>7. CASE StreamOver(s)
  BY <1>4, <1>7 DEF StreamOver, At, Running
<1>8. CASE AnswerSent(s)
  BY <1>4, <1>8 DEF AnswerSent, At, Running
<1>9. CASE StopKeepalive(s)
  <2> DEFINE stage == IF At(s, {"failed"}) THEN "ending" ELSE "done"
             b == [GoTo(s, stage) EXCEPT !.stopped = TRUE]
  <2>1. a.at \in {"failed", "finished"} /\ Pass(s, b)
    BY <1>9 DEF StopKeepalive, At
  <2>2. b.conn = a.conn /\ b.executed = a.executed /\ b.foreign = a.foreign
        /\ b.at \in {"ending", "done"}
    BY <1>0 DEF GoTo, State
  <2> HIDE DEF b
  <2>3. Latest(a.at) \subseteq Latest(b.at)
    BY <2>1, <2>2 DEF Latest
  <2>4. QED
    BY <1>1, <2>1, <2>2, <2>3
<1>10. CASE Return(s)
  <2> DEFINE b == [GoTo(s, "returned") EXCEPT !.ctx = "over"]
  <2>1. a.at = "leaving" /\ Pass(s, b)
    BY <1>10 DEF Return, At
  <2>2. b.conn = a.conn /\ b.executed = a.executed /\ b.foreign = a.foreign /\ b.at = "returned"
    BY <1>0 DEF GoTo, State
  <2> HIDE DEF b
  <2>3. Latest(a.at) \subseteq Latest(b.at)
    BY <2>1, <2>2 DEF Latest
  <2>4. QED
    BY <1>1, <2>1, <2>2, <2>3
<1>11. QED
  BY <1>2, <1>3, <1>5, <1>6, <1>7, <1>8, <1>9, <1>10

\* The steps of RunAgent that announce a tool, run it and give its result.
LEMMA Tools ==
    ASSUME ToldInv, streams' \in [Streams -> State], NEW s \in Streams,
           AnnounceCall(s) \/ ExecuteTool(s) \/ SendResult(s)
    PROVE  ToldInv'
<1> DEFINE a == streams[s]
           o == out[s]
<1>0. a \in State /\ o \in Seq(Frame)
  BY DEF ToldInv
<1>1. CASE AnnounceCall(s)
  <2> DEFINE b == GoTo(s, "announced")
  <2>1. a.at = "call" /\ Emit(s, "tool_call", b)
    BY <1>1 DEF AnnounceCall, At
  <2>2. b.foreign = a.foreign /\ b.executed = a.executed /\ b.at = "announced"
    BY <1>0 DEF GoTo, State
  <2> HIDE DEF b
  <2>3. a.conn # "broken" /\ Told(a, o) => Told(b, Append(o, [by |-> s, kind |-> "tool_call"]))
    BY <1>0, <2>1, <2>2, Speaks DEF KindNames
  <2>4. QED
    BY <2>1, <2>2, <2>3, EmitTells DEF At, Running, KindNames
<1>2. CASE ExecuteTool(s)
  <2> DEFINE b == [GoTo(s, "result") EXCEPT !.executed = @ + 1]
  <2>1. a.at = "announced" /\ Report(s, b)
    BY <1>2 DEF ExecuteTool, At
  <2>2. b.conn = a.conn /\ b.executed = a.executed + 1 /\ b.at = "result" /\ b.foreign = a.foreign
    BY <1>0 DEF GoTo, State
  <2> HIDE DEF b
  <2>3. ASSUME a.conn # "broken", Told(a, o), Pass(s, b) PROVE Told(b, o)
    <3>1. Current(b, o)
      BY <2>1, <2>2, <2>3 DEF Told, Current, Latest
    <3>2. Count(o, "tool_result") \in Nat
      BY <1>0, CountType
    <3>3. b.executed = Count(o, "tool_result") + 1 /\ Count(o, "tool_call") = b.executed
      BY <2>2, <3>1 DEF Current
    <3>4. Kinds(o, "done") = {}
      BY <2>2, <3>1 DEF Current
    <3>5. QED
      BY <2>3, <3>1, <3>2, <3>3, <3>4 DEF Told
  <2>4. CASE streams[s].conn # "broken" /\ Pass(s, b)
    <3>1. out' = [out EXCEPT ![s] = o] /\ Become(s, b)
      BY <2>4 DEF Pass, ToldInv
    <3>2. ~b.foreign => Told(b, o)
      BY <2>2, <2>3, <2>4 DEF ToldInv
    <3>3. QED
      BY <1>0, <3>1, <3>2, Tells
  <2>5. CASE ~(streams[s].conn # "broken" /\ Pass(s, b))
    <3> DEFINE c == [GoTo(s, "failed") EXCEPT !.conn = "broken"]
    <3>1. c.conn = "broken" /\ c.foreign = a.foreign /\ c.executed = a.executed
      BY <1>0 DEF GoTo, State
    <3> HIDE DEF c
    <3>2. Pass(s, c)
      BY <2>1, <2>5 DEF Report, c
    <3>3. QED
      BY <3>1, <3>2, PassTells
  <2>6. QED
    BY <2>4, <2>5
<1>3. CASE SendResult(s)
  <2> DEFINE b == AfterResult(a)
  <2>1. a.at = "result" /\ Emit(s, "tool_result", b)
    BY <1>3 DEF SendResult, At
  <2>2. b.foreign = a.foreign /\ b.executed = a.executed /\ b.at \in {"call", "round"}
    BY <1>0 DEF AfterResult, State
  <2> HIDE DEF b
  <2>3. a.conn # "broken" /\ Told(a, o) => Told(b, Append(o, [by |-> s, kind |-> "tool_result"]))
    BY <1>0, <2>1, <2>2, Speaks DEF KindNames
  <2>4. QED
    BY <2>1, <2>2, <2>3, EmitTells DEF At, Running, KindNames
<1>4. QED
  BY <1>1, <1>2, <1>3

\* Text, and the end of the stream.
LEMMA TextAndEnd ==
    ASSUME ToldInv, streams' \in [Streams -> State], NEW s \in Streams,
           StreamDelta(s) \/ SendDelta(s) \/ SendError(s) \/ SendDone(s)
    PROVE  ToldInv'
<1> DEFINE a == streams[s]
           o == out[s]
<1>0. a \in State /\ o \in Seq(Frame)
  BY DEF ToldInv
<1>1. ASSUME NEW left, a.at \in {"deltas", "streaming"}, Emit(s, "delta", [a EXCEPT !.left = left])
      PROVE  ToldInv'
  <2> DEFINE b == [a EXCEPT !.left = left]
  <2>2. b.foreign = a.foreign /\ b.executed = a.executed /\ b.at = a.at
    BY <1>0 DEF State
  <2> HIDE DEF b
  <2>3. a.conn # "broken" /\ Told(a, o) => Told(b, Append(o, [by |-> s, kind |-> "delta"]))
    BY <1>0, <1>1, <2>2, Speaks DEF KindNames
  <2>4. Emit(s, "delta", b) /\ At(s, Running) /\ "delta" \in KindNames
    BY <1>1 DEF b, At, Running, KindNames
  <2>5. QED
    BY <2>2, <2>3, <2>4, EmitTells
<1>2. ASSUME NEW kind \in {"error", "done"}, NEW stage \in {"done", "leaving"},
             \/ kind = "error" /\ a.at = "ending" /\ stage = "done"
             \/ kind = "done" /\ a.at = "done" /\ stage = "leaving",
             Write(s, kind, GoTo(s, stage), GoTo(s, stage))
      PROVE  ToldInv'
  <2> DEFINE b == GoTo(s, stage)
  <2>1. b \in State /\ b.foreign = a.foreign /\ b.executed = a.executed /\ b.at = stage
    BY <1>0 DEF GoTo, State, Running
  <2> HIDE DEF b
  <2>2. a.conn # "broken" /\ Told(a, o) => Told(b, Append(o, [by |-> s, kind |-> kind]))
    BY <1>0, <1>2, <2>1, Speaks DEF KindNames
  <2>3. Write(s, kind, b, b) /\ kind \in KindNames
    BY <1>2 DEF b, KindNames
  <2>4. QED
    BY <2>1, <2>2, <2>3, WriteTells
<1>3. CASE SendError(s)
  BY <1>2, <1>3 DEF SendError, At
<1>4. CASE SendDone(s)
  BY <1>2, <1>4 DEF SendDone, At
<1>5. CASE StreamDelta(s)
  BY <1>1, <1>5 DEF StreamDelta, At
<1>6. CASE SendDelta(s)
  BY <1>1, <1>6 DEF SendDelta, At
<1>7. QED
  BY <1>3, <1>4, <1>5, <1>6

-----------------------------------------------------------------------------
(* The keepalive goroutine, the context, the client *)

\* A heartbeat in its own stream tells nothing.
LEMMA HeartbeatTold ==
    ASSUME NEW a, NEW b, NEW o \in Seq(Frame), NEW s \in Streams, Told(a, o),
           b.at = a.at, b.conn = a.conn, b.executed = a.executed
    PROVE  Told(b, Append(o, [by |-> s, kind |-> "heartbeat"]))
<1> DEFINE n == Append(o, [by |-> s, kind |-> "heartbeat"])
<1>1. /\ Own(n) = Own(o) /\ \A i \in Own(o) : n[i] = o[i]
      /\ \A kind \in KindNames \ {"heartbeat"} : Kinds(n, kind) = Kinds(o, kind)
  BY Heartbeat
<1> HIDE DEF n
<1>2. /\ Kinds(n, "done") = Kinds(o, "done") /\ Kinds(n, "tool_result") = Kinds(o, "tool_result")
      /\ Kinds(n, "tool_call") = Kinds(o, "tool_call")
      /\ Count(n, "tool_call") = Count(o, "tool_call")
      /\ Count(n, "tool_result") = Count(o, "tool_result")
  BY <1>1 DEF Count, KindNames
<1>3. WellTold(n)
  BY <1>1, <1>2 DEF Told, WellTold, Following
<1>4. \A kinds : EndsWith(o, kinds) => EndsWith(n, kinds)
  BY <1>1 DEF EndsWith
<1>5. Current(a, o) => Current(b, n)
  BY <1>1, <1>2, <1>4 DEF Current
<1>6. Told(b, n)
  BY <1>1, <1>2, <1>3, <1>5 DEF Told
<1>7. QED
  BY <1>6 DEF n

\* What a frame of another stream leaves behind.
LEMMA EnteredType ==
    ASSUME NEW o \in Seq(Frame), NEW s \in Streams,
           NEW n \in Entered(o, [by |-> s, kind |-> "heartbeat"])
    PROVE  n \in Seq(Frame)
<1>1. [by |-> s, kind |-> "heartbeat"] \in Frame
  BY DEF Frame, KindNames
<1>2. ASSUME NEW i \in DOMAIN o PROVE [o EXCEPT ![i].kind = "torn"] \in Seq(Frame)
  <2>1. o[i] \in Frame
    BY <1>2
  <2>2. PICK f : f = [o[i] EXCEPT !.kind = "torn"]
    OBVIOUS
  <2>3. f \in Frame
    BY <2>1, <2>2 DEF Frame, KindNames
  <2>4. [o EXCEPT ![i] = f] \in Seq(Frame)
    BY <1>2, <2>3
  <2>5. QED
    BY <2>2, <2>4
<1>3. Append(o, [by |-> s, kind |-> "heartbeat"]) \in Seq(Frame)
  BY <1>1
<1>4. \/ n = o \/ n = Append(o, [by |-> s, kind |-> "heartbeat"])
      \/ \E i \in DOMAIN o : n = [o EXCEPT ![i].kind = "torn"]
  BY DEF Entered
<1>5. QED
  BY <1>2, <1>3, <1>4

LEMMA BeatTells ==
    ASSUME ToldInv, streams' \in [Streams -> State], NEW s \in Streams, NEW next, Beat(s, next),
           next \in {"half", "waiting"}
    PROVE  ToldInv'
<1> DEFINE a == streams[s]
           b == [a EXCEPT !.beat = next]
<1>1. a \in State /\ out[s] \in Seq(Frame)
  BY DEF ToldInv
<1>2. b \in State /\ b.at = a.at /\ b.conn = a.conn /\ b.executed = a.executed
      /\ b.foreign = a.foreign
  BY <1>1 DEF State
<1>3. CASE Write(s, "heartbeat", b, b)
  <2> HIDE DEF b
  <2>1. Told(a, out[s]) => Told(b, Append(out[s], [by |-> s, kind |-> "heartbeat"]))
    BY <1>1, <1>2, HeartbeatTold
  <2>2. QED
    BY <1>2, <1>3, <2>1, WriteTells DEF KindNames
<1>4. CASE Pass(s, b)
  <2> HIDE DEF b
  <2>1. Current(a, out[s]) => Current(b, out[s])
    BY <1>2 DEF Current
  <2>2. QED
    BY <1>2, <1>4, <2>1, PassTells
<1>5. ASSUME NEW t \in Streams \ {s},
             streams' = [streams EXCEPT ![s] = b, ![t].foreign = TRUE],
             NEW o \in Entered(out[t], [by |-> s, kind |-> "heartbeat"]),
             out' = [out EXCEPT ![t] = o]
      PROVE  ToldInv'
  <2>1. o \in Seq(Frame)
    BY EnteredType DEF ToldInv
  <2>2. out' \in [Streams -> Seq(Frame)]
    BY <1>5, <2>1 DEF ToldInv
  <2>3. streams[t] \in State
    BY DEF ToldInv
  <2>4. streams'[t].foreign
    BY <1>5, <2>3 DEF ToldInv, State
  <2>5. Told(a, out[s]) => Told(b, out[s])
    <3> HIDE DEF b
    <3>1. QED
      BY <1>2 DEF Told, Current
  <2> HIDE DEF b
  <2>6. \A u \in Streams \ {t} : out'[u] = out[u] /\ streams'[u] = IF u = s THEN b ELSE streams[u]
    BY <1>5 DEF ToldInv
  <2>7. \A u \in Streams : ~streams'[u].foreign => Told(streams'[u], out'[u])
    BY <1>2, <2>4, <2>5, <2>6 DEF ToldInv
  <2>8. QED
    BY <2>2, <2>7 DEF ToldInv, Told
<1>6. QED
  BY <1>3, <1>4, <1>5 DEF Beat

LEMMA OthersTell ==
    ASSUME ToldInv, streams' \in [Streams -> State], NEW s \in Streams,
           \/ BeatDue(s) \/ BeatComment(s) \/ BeatStatus(s) \/ BeatEnds(s)
           \/ Timeout(s) \/ Disconnect(s)
    PROVE  ToldInv'
<1> DEFINE a == streams[s]
           o == out[s]
<1>0. a \in State
  BY DEF ToldInv
<1>1. ASSUME NEW b, Pass(s, b), b.at = a.at, b.conn = a.conn, b.executed = a.executed,
             b.foreign = a.foreign
      PROVE  ToldInv'
  <2>1. Current(a, o) => Current(b, o)
    BY <1>1 DEF Current
  <2>2. QED
    BY <1>1, <2>1, PassTells
<1>2. CASE BeatDue(s)
  <2>1. Pass(s, [a EXCEPT !.beat = "due", !.beats = @ + 1])
    BY <1>2 DEF BeatDue
  <2>2. QED
    BY <1>0, <1>1, <2>1 DEF State
<1>3. CASE BeatEnds(s)
  <2>1. Pass(s, [a EXCEPT !.beat = "gone"])
    BY <1>3 DEF BeatEnds
  <2>2. QED
    BY <1>0, <1>1, <2>1 DEF State
<1>4. CASE Timeout(s)
  <2>1. Pass(s, [a EXCEPT !.ctx = "over"])
    BY <1>4 DEF Timeout
  <2>2. QED
    BY <1>0, <1>1, <2>1 DEF State
<1>5. CASE Disconnect(s)
  <2> DEFINE b == [a EXCEPT !.conn = "left"]
  <2>1. Pass(s, b) /\ a.conn = "up"
    BY <1>5 DEF Disconnect, Up
  <2>2. b.at = a.at /\ b.executed = a.executed /\ b.foreign = a.foreign
    BY <1>0 DEF State
  <2> HIDE DEF b
  <2>3. ~b.foreign => Told(b, o)
    <3>1. ~b.foreign => Told(a, o) /\ Current(a, o)
      BY <2>1, <2>2 DEF ToldInv, Told
    <3>2. Current(a, o) => Current(b, o)
      BY <2>2 DEF Current
    <3>3. QED
      BY <2>2, <3>1, <3>2 DEF Told
  <2>4. out' = [out EXCEPT ![s] = o] /\ o \in Seq(Frame)
    BY <2>1 DEF Pass, ToldInv
  <2>5. QED
    BY <2>1, <2>3, <2>4, Tells DEF Pass
<1>6. CASE BeatComment(s) \/ BeatStatus(s)
  BY <1>6, BeatTells DEF BeatComment, BeatStatus
<1>7. QED
  BY <1>2, <1>3, <1>4, <1>5, <1>6

-----------------------------------------------------------------------------
(* The results *)

LEMMA NextTold == ToldInv /\ IInv /\ [Next]_vars => ToldInv'
<1> SUFFICES ASSUME ToldInv, IInv, [Next]_vars PROVE ToldInv'
  OBVIOUS
<1>1. streams' \in [Streams -> State]
  <2>1. IInv'
    BY NextIInv
  <2>2. QED
    BY <2>1 DEF IInv, State, Running, Streams
<1>2. CASE UNCHANGED playgroundVars
  BY <1>2 DEF ToldInv, playgroundVars, Told
<1>3. CASE StreamNext
  BY <1>1, <1>3, Passing, Tools, TextAndEnd, OthersTell DEF StreamNext, HandlerStep
<1>4. QED
  BY <1>2, <1>3 DEF Next, vars, playgroundVars

LEMMA ToldInvariant == Spec => []ToldInv
<1>1. QED
  BY InitTold, NextTold, Inductive, PTL DEF Spec

\* The first n frames tell what the whole transcript tells of them.
LEMMA FirstFrames ==
    ASSUME NEW o \in Seq(Frame), NEW n \in 0..Len(o)
    PROVE  LET p == SubSeq(o, 1, n) IN
           /\ Own(p) = {i \in Own(o) : i <= n}
           /\ \A kind : Kinds(p, kind) = {i \in Kinds(o, kind) : i <= n}
           /\ \A i \in Own(o) : i <= n => p[i] = o[i]
           /\ \A i \in Own(o) : i \in Nat
<1> DEFINE p == SubSeq(o, 1, n)
<1>1. DOMAIN p = 1..n /\ \A i \in 1..n : p[i] = o[i]
  OBVIOUS
<1>2. DOMAIN o = 1..Len(o) /\ Len(o) \in Nat
  OBVIOUS
<1> HIDE DEF p
<1>3. QED
  BY <1>1, <1>2 DEF Own, Kinds, p

\* A client that has received only some of a transcript is told no less well.
LEMMA ReceivedTold ==
    ASSUME NEW o \in Seq(Frame), WellTold(o), NEW p \in Received(o)
    PROVE  WellTold(p)
<1>1. PICK n \in 0..Len(o) : p = SubSeq(o, 1, n)
  BY DEF Received
<1>2. /\ Own(p) = {i \in Own(o) : i <= n}
      /\ Kinds(p, "tool_result") = {i \in Kinds(o, "tool_result") : i <= n}
      /\ \A i \in Own(o) : i <= n => p[i] = o[i]
      /\ \A i \in Own(o) : i \in Nat
  BY <1>1, FirstFrames
<1>3. ASSUME NEW i \in Own(p), NEW j \in Own(p), Following(p, i, j)
      PROVE  i \in Own(o) /\ j \in Own(o) /\ Following(o, i, j) /\ p[i] = o[i] /\ p[j] = o[j]
  <2>1. ASSUME NEW k \in Own(o), k > n PROVE j <= k
    BY <1>2, <2>1
  <2>2. \A k \in Own(o) : k <= n => k \in Own(p)
    BY <1>2
  <2>3. \A k \in Own(o) : k <= i \/ j <= k
    BY <1>2, <1>3, <2>1, <2>2 DEF Following
  <2>4. QED
    BY <1>2, <1>3, <2>3 DEF Following
<1>4. ASSUME NEW j \in Kinds(p, "tool_result") PROVE \E i \in Own(p) : i < j
  <2>1. j \in Kinds(o, "tool_result") /\ j <= n /\ j \in Own(o)
    BY <1>2, <1>4 DEF Kinds, Own
  <2>2. PICK i \in Own(o) : i < j
    BY <2>1 DEF WellTold
  <2>3. i <= n
    BY <1>2, <2>1, <2>2
  <2>4. QED
    BY <1>2, <2>2, <2>3
<1>5. QED
  BY <1>3, <1>4 DEF WellTold

\* However many streams, rounds, calls, failures and heartbeats, whatever fails and
\* whenever the client leaves: what it has received of a stream that no late
\* heartbeat of another came into reads as calls each with its result, then text,
\* then at most one error, then [DONE] (Stream, RunAgent).
THEOREM TranscriptCorrect == Spec => []TranscriptOK
<1>1. ToldInv => TranscriptOK
  BY ReceivedTold DEF ToldInv, Told, TranscriptOK
<1>2. QED
  BY <1>1, ToldInvariant, PTL

\* No tool runs before its stream took the announcement, and a client that reads
\* as far as [DONE] has read the result of every tool that ran (RunAgent).
THEOREM ReportsCorrect == Spec => []ToolsReported
<1>1. ASSUME ToldInv, NEW s \in Streams, ~streams[s].foreign, NEW p \in Received(out[s]),
             Kinds(p, "done") # {}
      PROVE  streams[s].executed = Cardinality(Kinds(p, "tool_result"))
  <2> DEFINE o == out[s]
  <2>1. o \in Seq(Frame) /\ Told(streams[s], o)
    BY <1>1 DEF ToldInv
  <2>2. PICK n \in 0..Len(o) : p = SubSeq(o, 1, n)
    BY DEF Received
  <2>3. /\ \A kind : Kinds(p, kind) = {i \in Kinds(o, kind) : i <= n}
        /\ \A i \in Own(o) : i \in Nat
    BY <2>1, <2>2, FirstFrames
  <2>4. PICK i \in Kinds(o, "done") : i <= n
    BY <1>1, <2>3
  <2>5. ASSUME NEW j \in Kinds(o, "tool_result") PROVE j <= n
    <3>1. j \in Own(o) /\ i \in Own(o)
      BY DEF Kinds, Own
    <3>2. j <= i
      BY <2>1, <3>1 DEF Told
    <3>3. QED
      BY <2>3, <2>4, <3>1, <3>2
  <2>6. Kinds(p, "tool_result") = Kinds(o, "tool_result")
    BY <2>3, <2>5
  <2>7. QED
    BY <2>1, <2>4, <2>6 DEF Told, Count
<1>2. ToldInv => ToolsReported
  BY <1>1 DEF ToldInv, Told, ToolsReported, Count
<1>3. QED
  BY <1>2, ToldInvariant, PTL
=============================================================================
