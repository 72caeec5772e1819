----------------------------- MODULE Playground -----------------------------
(***************************************************************************)
(* The playground's event stream: Stream (handler/playground.go) and the   *)
(* agent loop it runs (RunAgent, llm/agent.go; StreamChat, llm/stream.go). *)
(* Two goroutines write a stream, one frame at a time under a mutex: the   *)
(* handler's, and one that writes heartbeats while the model is silent and *)
(* is told to stop but not waited for.  The frames go through a buffered   *)
(* writer and a pipe to the client, so a write that succeeds has reached   *)
(* nobody yet.  The requests of AILimit ask for streams.                   *)
(***************************************************************************)
EXTENDS AILimit, Sequences

CONSTANTS
    MaxRounds,   \* MaxToolRounds
    MaxCalls,    \* bound: tool calls in one answer of the model
    MaxChunks,   \* bound: delta frames of one answer
    MaxBeats     \* bound: heartbeats of one stream

ASSUME PlaygroundAssumption ==
    /\ MaxRounds \in Nat \ {0}
    /\ MaxCalls \in Nat /\ MaxChunks \in Nat /\ MaxBeats \in Nat

VARIABLES
    streams,  \* the state of each stream, see Idle
    out       \* the frames each stream has taken; its client has the first few

Streams == Requests

playgroundVars == <<streams, out>>

vars == <<streams, out, clock, requests, times>>

\* Where the writer function is; agentCtx; the client's connection, up until the
\* client has left, broken once a write has failed for it; what RunAgent or
\* StreamChat holds (the messages after the user's: an assistant message is the
\* number of its tool calls, a tool message 0); where the keepalive goroutine is,
\* how often its ticker fired, whether stopKA is closed; history: the number of
\* tools executed, and whether a late heartbeat of another stream came in.
Idle == [at |-> "idle", ctx |-> "live", conn |-> "up",
         round |-> 0, left |-> 0, messages |-> <<>>,
         beat |-> "gone", beats |-> 0, stopped |-> FALSE, executed |-> 0,
         foreign |-> FALSE]

\* Stages in which the writer function runs.
Running == {"round", "chat", "call", "announced", "result", "deltas", "streaming",
            "failed", "finished", "ending", "done", "leaving"}

At(s, stages) == streams[s].at \in stages

Up(s) == streams[s].conn = "up"

Become(s, state) == streams' = [streams EXCEPT ![s] = state]

\* writeRaw: the stream takes a frame as long as it has not noticed that its
\* client is gone; a bufio.Writer that has failed once fails for ever.
Write(s, kind, state, failed) ==
    \/ /\ streams[s].conn # "broken"
       /\ out' = [out EXCEPT ![s] = Append(@, [by |-> s, kind |-> kind])]
       /\ Become(s, state)
    \/ /\ ~Up(s)
       /\ UNCHANGED out
       /\ Become(s, [failed EXCEPT !.conn = "broken"])

\* A step without a frame.
Pass(s, state) == Become(s, state) /\ UNCHANGED out

GoTo(s, stage) == [streams[s] EXCEPT !.at = stage]

\* A frame of the agent's, which then goes on as state; a failed write ends it.
Emit(s, kind, state) == Write(s, kind, state, GoTo(s, "failed"))

\* A status frame, which is not recorded.
Report(s, state) ==
    \/ streams[s].conn # "broken" /\ Pass(s, state)
    \/ ~Up(s) /\ Pass(s, [GoTo(s, "failed") EXCEPT !.conn = "broken"])

----------------------------------------------------------------------------
\* The handler is past allow(): the writer function starts its keepalive goroutine.
Open(s, tools) ==
    /\ At(s, {"idle"}) /\ s \in Admitted
    /\ Pass(s, [GoTo(s, IF tools THEN "round" ELSE "streaming") EXCEPT !.beat = "waiting"])

\* Mutant: one round too many.
StartRound_OneMore(s) ==
    /\ At(s, {"round"})
    /\ IF streams[s].round <= MaxRounds THEN Report(s, GoTo(s, "chat"))
       ELSE Pass(s, GoTo(s, "failed"))

\* The head of the loop in RunAgent; its status frame may fail.
StartRound(s) ==
    /\ At(s, {"round"})
    /\ IF streams[s].round < MaxRounds THEN Report(s, GoTo(s, "chat"))
       ELSE Pass(s, GoTo(s, "failed"))

\* Mutant: the text beside tool calls is sent as well.
ModelAnswers_WithText(s, calls, chunks) ==
    /\ At(s, {"chat"}) /\ streams[s].ctx = "live"
    /\ Emit(s, "delta",
            IF calls = 0
            THEN [GoTo(s, "deltas") EXCEPT !.left = chunks]
            ELSE [GoTo(s, "call") EXCEPT !.left = calls, !.messages = Append(@, calls)])

\* Chat answers with tool calls or, with none, with a text of some chunks.
ModelAnswers(s, calls, chunks) ==
    /\ At(s, {"chat"}) /\ streams[s].ctx = "live"
    /\ Pass(s, IF calls = 0
               THEN [GoTo(s, "deltas") EXCEPT !.left = chunks]
               ELSE [GoTo(s, "call") EXCEPT !.left = calls, !.messages = Append(@, calls)])

\* Mutant: the request to the provider does not end with the context.
ModelFails_NoContext(s) ==
    /\ At(s, {"chat", "streaming"}) /\ streams[s].ctx = "live"
    /\ Pass(s, GoTo(s, "failed"))

\* The provider fails, takes too long, or the context is over.
ModelFails(s) ==
    /\ At(s, {"chat", "streaming"})
    /\ Pass(s, GoTo(s, "failed"))

AnnounceCall(s) ==
    /\ At(s, {"call"})
    /\ Emit(s, "tool_call", GoTo(s, "announced"))

\* Mutant: the tool runs before the client is told.
ExecuteTool_First(s) ==
    /\ At(s, {"call", "announced"})
    /\ Report(s, [GoTo(s, "result") EXCEPT !.executed = @ + 1])

\* The status frame is written and the tool runs, unless the frame fails; a tool
\* always has a result, if only an error.
ExecuteTool(s) ==
    /\ At(s, {"announced"})
    /\ Report(s, [GoTo(s, "result") EXCEPT !.executed = @ + 1])

\* Mutant: the next round starts after the first result.
AfterResult_FirstOnly(a) ==
    [a EXCEPT !.at = "round", !.round = @ + 1, !.left = 0, !.messages = Append(@, 0)]

\* The next call of the answer, or the next round after the last.
AfterResult(a) ==
    [a EXCEPT !.at = IF a.left = 1 THEN "round" ELSE "call",
              !.round = IF a.left = 1 THEN @ + 1 ELSE @,
              !.left = @ - 1, !.messages = Append(@, 0)]

SendResult(s) ==
    /\ At(s, {"result"})
    /\ Emit(s, "tool_result", AfterResult(streams[s]))

\* emitContentDeltas
SendDelta(s) ==
    /\ At(s, {"deltas"}) /\ streams[s].left > 0
    /\ Emit(s, "delta", [streams[s] EXCEPT !.left = @ - 1])

AnswerSent(s) ==
    /\ At(s, {"deltas"}) /\ streams[s].left = 0
    /\ Pass(s, GoTo(s, "finished"))

\* StreamChat, without tools: a delta arrives, or the provider's stream ends.
StreamDelta(s) ==
    /\ At(s, {"streaming"}) /\ streams[s].left < MaxChunks /\ streams[s].ctx = "live"
    /\ Emit(s, "delta", [streams[s] EXCEPT !.left = @ + 1])

StreamOver(s) ==
    /\ At(s, {"streaming"})
    /\ Pass(s, GoTo(s, "finished"))

----------------------------------------------------------------------------
\* The end of the writer function

StopKeepalive(s) ==
    /\ At(s, {"failed", "finished"})
    /\ Pass(s, [GoTo(s, IF At(s, {"failed"}) THEN "ending" ELSE "done") EXCEPT !.stopped = TRUE])

SendError(s) ==
    /\ At(s, {"ending"})
    /\ Write(s, "error", GoTo(s, "done"), GoTo(s, "done"))

SendDone(s) ==
    /\ At(s, {"done"})
    /\ Write(s, "done", GoTo(s, "leaving"), GoTo(s, "leaving"))

\* cancel(); the server ends the response and pools its bufio.Writer.
Return(s) ==
    /\ At(s, {"leaving"})
    /\ Pass(s, [GoTo(s, "returned") EXCEPT !.ctx = "over"])

----------------------------------------------------------------------------
\* The keepalive goroutine, the context, the client

\* The ticker fires; select may take it although it should stop as well.
BeatDue(s) ==
    /\ streams[s].beat = "waiting" /\ streams[s].beats < MaxBeats
    /\ Pass(s, [streams[s] EXCEPT !.beat = "due", !.beats = @ + 1])

\* What a frame of another stream does to the frames o: the mutex is that of its
\* own stream, so writing is a race, which it may lose, win, or tear a frame in.
Entered(o, frame) ==
    {o, Append(o, frame)} \cup
    {[o EXCEPT ![i].kind = "torn"] : i \in {Len(o)} \cap DOMAIN o}

\* One of the two frames of a heartbeat: into its own stream or, when that has
\* returned, nowhere or into one that was given the same bufio.Writer.
Beat(s, next) ==
    LET mine == [streams[s] EXCEPT !.beat = next] IN
    \/ At(s, Running) /\ Write(s, "heartbeat", mine, mine)
    \/ ~At(s, Running) /\ Pass(s, mine)
    \/ /\ ~At(s, Running)
       /\ \E t \in Streams \ {s} :
            /\ At(t, Running)
            /\ streams' = [streams EXCEPT ![s] = mine, ![t].foreign = TRUE]
            /\ \E o \in Entered(out[t], [by |-> s, kind |-> "heartbeat"]) :
                 out' = [out EXCEPT ![t] = o]

\* The comment, and then the status frame, for a client that shows no comments.
BeatComment(s) == streams[s].beat = "due" /\ Beat(s, "half")

BeatStatus(s) == streams[s].beat = "half" /\ Beat(s, "waiting")

BeatEnds(s) ==
    /\ streams[s].beat = "waiting"
    /\ streams[s].stopped \/ streams[s].ctx = "over"
    /\ Pass(s, [streams[s] EXCEPT !.beat = "gone"])

\* PlaygroundAgentTimeout
Timeout(s) ==
    /\ At(s, Running) /\ streams[s].ctx = "live"
    /\ Pass(s, [streams[s] EXCEPT !.ctx = "over"])

Disconnect(s) ==
    /\ At(s, Running) /\ Up(s)
    /\ Pass(s, [streams[s] EXCEPT !.conn = "left"])

----------------------------------------------------------------------------
Init ==
    /\ LimitInit
    /\ streams = [s \in Streams |-> Idle]
    /\ out = [s \in Streams |-> <<>>]

\* The steps of the goroutine that writes the stream, the provider's included.
HandlerStep(s) ==
    \/ \E calls \in 0..MaxCalls, chunks \in 0..MaxChunks : ModelAnswers(s, calls, chunks)
    \/ ModelFails(s) \/ StreamDelta(s) \/ StreamOver(s)
    \/ StartRound(s) \/ AnnounceCall(s) \/ ExecuteTool(s)
    \/ SendResult(s) \/ SendDelta(s) \/ AnswerSent(s)
    \/ StopKeepalive(s) \/ SendError(s) \/ SendDone(s) \/ Return(s)

StreamNext ==
    \E s \in Streams :
      \/ \E tools \in BOOLEAN : Open(s, tools)
      \/ HandlerStep(s)
      \/ BeatDue(s) \/ BeatComment(s) \/ BeatStatus(s) \/ BeatEnds(s)
      \/ Timeout(s) \/ Disconnect(s)

Next ==
    \/ StreamNext /\ UNCHANGED limitVars
    \/ LimitNext /\ UNCHANGED playgroundVars

Spec == Init /\ [][Next]_vars

\* The handler runs on: each call of the provider ends, with an answer, an error
\* or its timeout, and each write ends, which nothing in the code sees to when a
\* client stays and reads no more.  The keepalive goroutine writes what is due and
\* sees that it should stop.
Fairness ==
    \A s \in Streams : /\ WF_playgroundVars(HandlerStep(s))
                       /\ WF_playgroundVars(BeatComment(s)) /\ WF_playgroundVars(BeatStatus(s))
                       /\ WF_playgroundVars(BeatEnds(s))

FairSpec == Spec /\ Fairness

----------------------------------------------------------------------------
\* Types; while the writer function runs so does its keepalive goroutine, unless
\* it was told to stop (Stream).
TypeOK ==
    \A s \in Streams :
      LET a == streams[s] IN
      /\ a.at \in {"idle", "returned"} \cup Running
      /\ a.ctx \in {"live", "over"} /\ a.conn \in {"up", "left", "broken"}
      /\ a.round \in 0..MaxRounds /\ a.messages \in Seq(0..MaxCalls)
      /\ a.left \in 0..MaxCalls + MaxChunks
      /\ a.beat \in {"waiting", "due", "half", "gone"} /\ a.beats \in 0..MaxBeats
      /\ At(s, Running) /\ a.beat = "gone" => a.ctx = "over" \/ a.stopped

\* The frames of a transcript that are the handler's own, not heartbeats, those
\* of one kind, and which one comes next after which.
Own(o) == {i \in DOMAIN o : o[i].kind # "heartbeat"}

Kinds(o, kind) == {i \in DOMAIN o : o[i].kind = kind}

Following(o, i, j) == i < j /\ \A k \in Own(o) : k <= i \/ j <= k

\* Each call is followed by its result, text by nothing but text or the end.
WellTold(o) ==
    /\ \A i, j \in Own(o) : Following(o, i, j) =>
         /\ o[i].kind = "tool_call" <=> o[j].kind = "tool_result"
         /\ o[i].kind = "delta" => o[j].kind \in {"delta", "error", "done"}
         /\ o[i].kind = "error" => o[j].kind = "done"
         /\ o[i].kind # "done"
    /\ \A j \in Kinds(o, "tool_result") : \E i \in Own(o) : i < j

\* What a client may have received: the stream as far as it got.
Received(o) == {SubSeq(o, 1, n) : n \in 0..Len(o)}

\* Whatever fails and whenever the client leaves, what it has received reads as
\* calls each with its result, then text, then at most one error, then [DONE], if
\* no late heartbeat of another stream came in (Stream, RunAgent).
TranscriptOK ==
    \A s \in Streams : ~streams[s].foreign => \A o \in Received(out[s]) : WellTold(o)

\* No tool runs before the stream took its announcement, whether or not the client
\* is still there to read it, and a client that reads as far as [DONE] has read the
\* result of every tool that ran (RunAgent).
ToolsReported ==
    \A s \in Streams : ~streams[s].foreign =>
      /\ streams[s].executed <= Cardinality(Kinds(out[s], "tool_call"))
      /\ \A o \in Received(out[s]) : Kinds(o, "done") # {} =>
           streams[s].executed = Cardinality(Kinds(o, "tool_result"))

\* The conversation sent to the model has, after each assistant message, exactly
\* one tool message for each of its calls, as the provider's API demands
\* (RunAgent).
ConversationOK ==
    \A s \in Streams : At(s, {"chat"}) =>
      LET m == streams[s].messages IN
      \A i \in DOMAIN m : m[i] > 0 =>
        LET last == i + m[i] IN
        /\ last <= Len(m) /\ \A j \in i + 1..last : m[j] = 0
        /\ last = Len(m) \/ m[last + 1] > 0

\* Every stream ends, and its keepalive goroutine with it (Stream).
StreamsEnd ==
    \A s \in Streams :
      At(s, Running) ~> At(s, {"returned"}) /\ streams[s].beat = "gone"
=============================================================================
