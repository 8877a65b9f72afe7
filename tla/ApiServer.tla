------------------------------- MODULE ApiServer -------------------------------
(***************************************************************************)
(* The request handlers of the HTTP server that share the loaded model     *)
(* (ApiServer::Impl, src/server_runtime.cpp:24-39): chat, chat/stream,     *)
(* load, unload and stop.  Every accepted connection is one detached       *)
(* thread that handles one request and closes.                             *)
(*                                                                         *)
(* Granularity.  mu guards rt, loaded and the transition of generating to  *)
(* TRUE.  A critical section that does no I/O is one action; load, unload  *)
(* and a refused chat write their reply while they hold mu, so there mu is *)
(* held over several actions.  generating and the runtime's stop flag are  *)
(* atomics that are read and written without the lock, one action each.    *)
(*                                                                         *)
(* Inside a generation the actions are the points of generate_ids          *)
(* (src/inference_v2.cpp:34) at which it looks at or resets the stop flag, *)
(* and the callback; module LlamaRuntime opens the steps of the network.   *)
(***************************************************************************)
EXTENDS Integers

CONSTANTS Conns,        \* connections, each with its thread and one request
          Runtimes,     \* identities of LlamaRuntime objects
          None,         \* a null pointer; the unlocked mutex
          MaxTokens,    \* min(max_tokens, 2048)
          SlowClients   \* connections whose client may stop reading a stream

ASSUME ServerAssumption == /\ None \notin Conns /\ None \notin Runtimes
                           /\ MaxTokens \in Nat
                           /\ SlowClients \subseteq Conns

VARIABLES mu,           \* the thread that holds mu over more than one action
          rt,           \* the loaded runtime
          loaded,       \* the runtime whose file name the server shows
          generating,   \* generating
          tokens,       \* tokens: the counter that status reports
          life,         \* the heap: unborn, live, destroyed (twice) runtimes
          flagged,      \* the runtimes whose stop_requested_ is true
          pc,           \* where each connection's handler is
          op,           \* the request of each connection
          mine,         \* handler-local: the runtime it points to
          sent,         \* handler-local: tokens passed to the callback
          ended,        \* handler-local: how generate_ids ended
          stopped,      \* handler-local: who read a raised flag at the end
          answer,       \* the reply
          before,       \* history: the stops that had signalled a runtime
                        \* when the last generation began
          late          \* history: its tokens after that

shared == <<mu, rt, loaded, generating, tokens>>
heap   == <<life, flagged>>
local  == <<op, mine, sent, ended, stopped, answer>>
ghost  == <<before, late>>
vars   == <<mu, rt, loaded, generating, tokens, life, flagged, pc, op, mine,
            sent, ended, stopped, answer, before, late>>

Ops == {"chat", "stream", "load", "unload", "stop"}
ChatOps == {"chat", "stream"}

\* From begin_generation to the call of finish_generation.
Using == {"header", "reset", "prefill", "decide", "callback", "emitted",
          "step", "returned", "finish"}
PCs == Using \cup {"idle", "start", "refuse", "answer", "install", "name",
                   "signal", "reply", "done"}
Answers == {"none", "ok", "stopped", "failed", "conflict", "bad"}

Init == /\ mu = None /\ rt = None /\ loaded = None
        /\ generating = FALSE /\ tokens = 0
        /\ life = [r \in Runtimes |-> "unborn"]
        /\ flagged = {}
        /\ pc = [c \in Conns |-> "idle"]
        /\ op = [c \in Conns |-> "chat"]
        /\ mine = [c \in Conns |-> None]
        /\ sent = [c \in Conns |-> 0]
        /\ ended = [c \in Conns |-> "no"]
        /\ stopped = {}
        /\ answer = [c \in Conns |-> "none"]
        /\ before = {} /\ late = 0

Goto(c, from, to) == pc[c] = from /\ pc' = [pc EXCEPT ![c] = to]
Say(c, a) == answer' = [answer EXCEPT ![c] = a]
At(c, from, o) == pc[c] = from /\ op[c] = o

\* The stop request d has raised the flag of the runtime it found.
Signalled(d) == /\ op[d] = "stop" /\ mine[d] # None
                /\ pc[d] \in {"reply", "done"}
-----------------------------------------------------------------------------
(* run() and the head and tail of handle() *)

\* accept, and recv until the request is complete.
Arrive(c, o) == /\ Goto(c, "idle", "start")
                /\ op' = [op EXCEPT ![c] = o]
                /\ UNCHANGED <<shared, heap, mine, sent, ended, stopped,
                               answer, ghost>>

\* writeall of the reply, release of mu where the handler holds it, and close.
\* A client that has gone makes writeall return early: the same transition.
MuAfterReply_Kept(c) == mu
MuAfterReply(c) == IF mu = c THEN None ELSE mu

Reply(c) == /\ Goto(c, "reply", "done")
            /\ mu' = MuAfterReply(c)
            /\ UNCHANGED <<rt, loaded, generating, tokens, heap, local, ghost>>
-----------------------------------------------------------------------------
(* chat and chat/stream: begin_generation and finish_generation *)

MayBegin_AnyTime == rt # None
MayBegin == rt # None /\ ~generating

TokensAtBegin_Kept == tokens
TokensAtBegin == 0

BeginGeneration(c) ==
    /\ op[c] \in ChatOps
    /\ mu = None
    /\ MayBegin
    /\ Goto(c, "start", IF op[c] = "stream" THEN "header" ELSE "reset")
    /\ mine' = [mine EXCEPT ![c] = rt]
    /\ generating' = TRUE
    /\ tokens' = TokensAtBegin
    /\ before' = {d \in Conns : Signalled(d)} /\ late' = 0
    /\ UNCHANGED <<mu, rt, loaded, heap, op, sent, ended, stopped, answer>>

RefuseGeneration(c) ==
    /\ op[c] \in ChatOps
    /\ mu = None
    /\ ~MayBegin
    /\ Goto(c, "start", "refuse")
    /\ UNCHANGED <<shared, heap, local, ghost>>

\* The refusal locks mu a second time to choose its message, and keeps it
\* while it writes.
ExplainRefusal(c) ==
    /\ Goto(c, "refuse", "reply")
    /\ mu = None
    /\ mu' = c
    /\ Say(c, "conflict")
    /\ UNCHANGED <<rt, loaded, generating, tokens, heap, op, mine, sent,
                   ended, stopped, ghost>>

\* The event stream's header.
SendHeader(c) == /\ Goto(c, "header", "reset")
                 /\ UNCHANGED <<shared, heap, local, ghost>>
-----------------------------------------------------------------------------
(* generate_ids, as far as the stop flag reaches *)

StopSeen_Ignored(c) == FALSE
StopSeen(c) == mine[c] \in flagged

End(c, how) == ended' = [ended EXCEPT ![c] = how]

FlagsAtReset_Kept(c) == flagged
FlagsAtReset(c) == flagged \ {mine[c]}

ResetStop(c) == /\ Goto(c, "reset", "prefill")
                /\ flagged' = FlagsAtReset(c)
                /\ UNCHANGED <<shared, life, local, ghost>>

\* Steps of the network throw when they see the flag.  A step that does not
\* see it computes, or fails: an empty prompt, a context that is full, a
\* tensor of the wrong shape.
Compute(c, from) == /\ Goto(c, from, "decide")
                    /\ ~StopSeen(c)
                    /\ UNCHANGED <<shared, heap, local, ghost>>

Abort(c, from) == /\ Goto(c, from, "returned")
                  /\ StopSeen(c)
                  /\ End(c, "aborted")
                  /\ UNCHANGED <<shared, heap, op, mine, sent, stopped,
                                 answer, ghost>>

Fail(c, from) == /\ Goto(c, from, "returned")
                 /\ End(c, "failed")
                 /\ UNCHANGED <<shared, heap, op, mine, sent, stopped,
                                answer, ghost>>

Network(c) == \E from \in {"prefill", "step"} :
                  Compute(c, from) \/ Abort(c, from) \/ Fail(c, from)

\* The head of the token loop: the bound, the flag, the end-of-text token.
Complete(c) == /\ Goto(c, "decide", "returned")
               /\ sent[c] = MaxTokens \/ ~StopSeen(c)
               /\ End(c, "complete")
               /\ UNCHANGED <<shared, heap, op, mine, sent, stopped, answer,
                              ghost>>

Break(c) == /\ Goto(c, "decide", "returned")
            /\ sent[c] < MaxTokens /\ StopSeen(c)
            /\ End(c, "cut")
            /\ UNCHANGED <<shared, heap, op, mine, sent, stopped, answer,
                           ghost>>

Sample(c) == /\ Goto(c, "decide", "callback")
             /\ sent[c] < MaxTokens /\ ~StopSeen(c)
             /\ UNCHANGED <<shared, heap, local, ghost>>

\* The callback appends the piece and counts it, writes the event of a stream
\* (Emitted waits for that write), and then looks at the flag.
Callback(c) == /\ Goto(c, "callback", "emitted")
               /\ sent' = [sent EXCEPT ![c] = @ + 1]
               /\ tokens' = tokens + 1
               /\ late' = IF mine[c] \in flagged THEN late + 1 ELSE late
               /\ UNCHANGED <<mu, rt, loaded, generating, heap, op, mine,
                              ended, stopped, answer, before>>

Emitted(c) == /\ Goto(c, "emitted", IF StopSeen(c) THEN "returned" ELSE "step")
              /\ End(c, IF StopSeen(c) THEN "cut" ELSE "no")
              /\ UNCHANGED <<shared, heap, op, mine, sent, stopped, answer,
                             ghost>>
-----------------------------------------------------------------------------
(* The end of a chat: the flag, finish_generation, the reply *)

StoppedToReport_NotIfThrown(c) == StopSeen(c) /\ ended[c] # "aborted"
StoppedToReport(c) == StopSeen(c)

ReadStopped(c) == /\ Goto(c, "returned", "finish")
                  /\ stopped' = IF StoppedToReport(c) THEN stopped \cup {c}
                                                   ELSE stopped
                  /\ UNCHANGED <<shared, heap, op, mine, sent, ended, answer,
                                 ghost>>

FinishGeneration(c) == /\ Goto(c, "finish", "answer")
                       /\ generating' = FALSE
                       /\ UNCHANGED <<mu, rt, loaded, tokens, heap, local,
                                      ghost>>

Answer(c) == /\ Goto(c, "answer", "reply")
             /\ Say(c, IF c \in stopped THEN "stopped"
                       ELSE IF ended[c] \in {"aborted", "failed"} THEN "failed"
                       ELSE "ok")
             /\ UNCHANGED <<shared, heap, op, mine, sent, ended, stopped,
                            ghost>>
-----------------------------------------------------------------------------
(* load *)

\* Construction and LlamaRuntime::load, outside the lock.
LoadRuntime(c, r) == /\ At(c, "start", "load")
                     /\ Goto(c, "start", "install")
                     /\ life[r] = "unborn"
                     /\ life' = [life EXCEPT ![r] = "live"]
                     /\ mine' = [mine EXCEPT ![c] = r]
                     /\ UNCHANGED <<shared, flagged, op, sent, ended, stopped,
                                    answer, ghost>>

\* No such file, a file that does not parse, or not a llama model.
LoadFails(c) == /\ At(c, "start", "load")
                /\ Goto(c, "start", "reply")
                /\ Say(c, "bad")
                /\ UNCHANGED <<shared, heap, op, mine, sent, ended, stopped,
                               ghost>>

Destroyed_Leaked(r) == life
Destroyed(r) == IF r = None THEN life
                ELSE [life EXCEPT ![r] = IF @ = "live" THEN "dead" ELSE "twice"]

Busy_Never == FALSE
Busy == generating

\* Under mu: refuse, which destroys the new runtime, ...
InstallRefused(c) == /\ Goto(c, "install", "reply")
                     /\ mu = None
                     /\ Busy
                     /\ life' = Destroyed(mine[c])
                     /\ Say(c, "bad")
                     /\ UNCHANGED <<shared, flagged, op, mine, sent, ended,
                                    stopped, ghost>>

\* ... or move it into rt, which destroys the old one.  mu stays locked.
Install(c) == /\ Goto(c, "install", "name")
              /\ mu = None
              /\ ~Busy
              /\ mu' = c
              /\ rt' = mine[c]
              /\ life' = Destroyed(rt)
              /\ UNCHANGED <<loaded, generating, tokens, flagged, local,
                             ghost>>

\* The second assignment of load and unload under mu.
Name(c) == /\ Goto(c, "name", "reply")
           /\ loaded' = rt
           /\ Say(c, "ok")
           /\ UNCHANGED <<mu, rt, generating, tokens, heap, op, mine, sent,
                          ended, stopped, ghost>>
-----------------------------------------------------------------------------
(* unload *)

RtAfterReset_Kept == rt
RtAfterReset == None

UnloadRefused(c) == /\ At(c, "start", "unload")
                    /\ Goto(c, "start", "reply")
                    /\ mu = None
                    /\ Busy
                    /\ mu' = c
                    /\ Say(c, "conflict")
                    /\ UNCHANGED <<rt, loaded, generating, tokens, heap, op,
                                   mine, sent, ended, stopped, ghost>>

Unload(c) == /\ At(c, "start", "unload")
             /\ Goto(c, "start", "name")
             /\ mu = None
             /\ ~Busy
             /\ mu' = c
             /\ rt' = RtAfterReset
             /\ life' = Destroyed(rt)
             /\ UNCHANGED <<loaded, generating, tokens, flagged, local, ghost>>
-----------------------------------------------------------------------------
(* stop *)

\* The pointer is read under mu and used after mu is released.
FindRuntime(c) == /\ At(c, "start", "stop")
                  /\ mu = None
                  /\ Goto(c, "start", IF rt = None THEN "reply" ELSE "signal")
                  /\ mine' = [mine EXCEPT ![c] = rt]
                  /\ Say(c, "ok")
                  /\ UNCHANGED <<shared, heap, op, sent, ended, stopped, ghost>>

Raise(r) == flagged' = flagged \cup {r}

RequestStop(c) == /\ Goto(c, "signal", "reply")
                  /\ life[mine[c]] = "live"
                  /\ Raise(mine[c])
                  /\ UNCHANGED <<shared, life, local, ghost>>

\* The runtime was destroyed in between: the store goes to freed memory, which
\* nobody reads or which a younger runtime occupies by now.
RequestStopDangling(c) ==
    /\ Goto(c, "signal", "reply")
    /\ life[mine[c]] = "dead"
    /\ \/ UNCHANGED flagged
       \/ \E r \in Runtimes : life[r] = "live" /\ Raise(r)
    /\ UNCHANGED <<shared, life, local, ghost>>
-----------------------------------------------------------------------------
Generate(c) == \/ ResetStop(c) \/ Network(c) \/ Complete(c) \/ Break(c)
               \/ Sample(c) \/ Callback(c)
               \/ op[c] = "chat" /\ Emitted(c)

Chat(c) == \/ BeginGeneration(c) \/ RefuseGeneration(c) \/ ExplainRefusal(c)
           \/ ReadStopped(c) \/ FinishGeneration(c) \/ Answer(c)

Load(c) == \/ \E r \in Runtimes : LoadRuntime(c, r)
           \/ LoadFails(c) \/ InstallRefused(c) \/ Install(c)

Stop(c) == FindRuntime(c) \/ RequestStop(c) \/ RequestStopDangling(c)

\* What the thread of c does without waiting for its client ...
Handle(c) == \/ Chat(c) \/ Generate(c) \/ Load(c) \/ Name(c)
             \/ UnloadRefused(c) \/ Unload(c) \/ Stop(c) \/ Reply(c)

\* ... and what it does only when the client reads the stream.
StreamWrite(c) == SendHeader(c) \/ (op[c] = "stream" /\ Emitted(c))

Next == \E c \in Conns : \/ \E o \in Ops : Arrive(c, o)
                         \/ Handle(c) \/ StreamWrite(c)

\* Threads run and short replies fit the socket's buffer; the write of a
\* stream completes only if its client reads.
Fairness == /\ \A c \in Conns : WF_vars(Handle(c))
            /\ \A c \in Conns \ SlowClients : WF_vars(StreamWrite(c))

SafeSpec == Init /\ [][Next]_vars
Spec == SafeSpec /\ Fairness
-----------------------------------------------------------------------------
(* Properties *)

\* The values of the variables; no runtime object is destroyed twice.
TypeOK == /\ mu \in Conns \cup {None}
          /\ rt \in Runtimes \cup {None} /\ loaded \in Runtimes \cup {None}
          /\ generating \in BOOLEAN /\ before \subseteq Conns
          /\ tokens \in Nat /\ late \in Nat
          /\ life \in [Runtimes -> {"unborn", "live", "dead"}]
          /\ flagged \subseteq Runtimes
          /\ pc \in [Conns -> PCs] /\ op \in [Conns -> Ops]
          /\ mine \in [Conns -> Runtimes \cup {None}]
          /\ sent \in [Conns -> Nat]
          /\ ended \in [Conns -> {"no", "complete", "cut", "aborted", "failed"}]
          /\ stopped \subseteq Conns
          /\ answer \in [Conns -> Answers]

Generating(c) == pc[c] \in Using

\* While a request generates, its runtime is the loaded one and exists: no
\* load, unload or second chat pulls it away (server_runtime.cpp:35-38).
GenerationOwnsLiveRuntime == \A c \in Conns :
    Generating(c) => mine[c] = rt /\ rt # None /\ life[rt] = "live"

\* At most one request is inside generate_ids, so that the KV cache, pos_ and
\* the worker pool have one user; and generating says whether there is one.
ExclusiveGeneration ==
    /\ \A c, d \in Conns : Generating(c) /\ Generating(d) => c = d
    /\ generating <=> \E c \in Conns : Generating(c)

\* No model is forgotten in memory: a runtime that exists is the loaded one or
\* in the hands of a load that has not installed it yet.
NoLeak == \A r \in Runtimes : life[r] = "live" =>
    r = rt \/ \E c \in Conns : pc[c] = "install" /\ mine[c] = r

\* The counter that status and the events report is the running generation's.
CounterIsOwn == \A c \in Conns : Generating(c) => tokens = sent[c]

\* Once a stop has reached a generation that has reset its flag, the client
\* gets at most the token that is being delivered.
LateTokens == late <= 1

\* A generation that was cut short by a stop is never answered as a complete
\* one or as a failure (the epilogues of chat, server_runtime.cpp:38).
TruncationReported == \A c \in Conns : op[c] \in ChatOps =>
    /\ answer[c] = "ok" => ended[c] = "complete"
    /\ answer[c] = "failed" => ended[c] = "failed"

\* A generation reports "stopped" only if a stop signalled its runtime (or freed
\* memory that the runtime may occupy by now) after the generation had begun: a
\* flag that was raised before, for an earlier generation or for none, does not
\* count (the reset in generate_ids, inference_v2.cpp:34).  That is the time of
\* the store, not of the request: a stop that took its pointer for an earlier
\* generation (server_runtime.cpp:37) and stores now is reported by this one.
StopReached(c) == \E d \in Conns \ before :
    Signalled(d) /\ (mine[d] = mine[c] \/ life[mine[d]] = "dead")
NoSpuriousStop == \A c \in Conns :
    pc[c] = "finish" /\ c \in stopped => StopReached(c)

\* The handlers implement the one-model session.
Session == INSTANCE ModelSession WITH
    Models <- Runtimes, Users <- Conns, model <- rt,
    user <- IF \E c \in Conns : Generating(c)
            THEN CHOOSE c \in Conns : Generating(c) ELSE None
ImplementsModelSession == Session!Spec

\* Every request of a chat calls generate_ids once and gets the stream of tokens
\* that module Generation promises, whatever the other requests do meanwhile:
\* the stop flag, which all of them share through the runtime, is only ever raised
\* by the others from the reset until it has been read for the reply.
InCall(c) == pc[c] \in {"prefill", "decide", "callback", "emitted", "step"}
Call(c) == INSTANCE Generation WITH
    MaxTokensSet <- {MaxTokens},
    phase <- IF ~InCall(c) THEN "idle"
             ELSE IF pc[c] \in {"prefill", "step"} THEN "network" ELSE pc[c],
    max   <- IF InCall(c) \/ ended[c] # "no" THEN MaxTokens ELSE 0,
    sent  <- sent[c],
    stop  <- IF InCall(c) \/ pc[c] = "returned" THEN StopSeen(c)
             ELSE c \in stopped,
    ended <- ended[c]
EachImplementsGeneration ==
    /\ \A c \in Conns : Call(c)!Init
    /\ [][\A c \in Conns : [Call(c)!Next]_(Call(c)!vars)]_vars

\* Every request is answered, even if the clients of streams stop reading:
\* only the streams of those clients may hang.
Answered == \A c \in Conns :
    pc[c] = "start" ~> \/ pc[c] = "done"
                       \/ c \in SlowClients /\ op[c] = "stream"

\* stop answers "stopping":true (server_runtime.cpp:37): a stop that signalled
\* the runtime while it was generating remains in force until the generation
\* has ended.
StopSticks == \A c \in Conns :
    Generating(c) /\ (\E d \in Conns \ before : Signalled(d) /\ mine[d] = mine[c])
        => StopSeen(c)

\* stop answers "ok":true (server_runtime.cpp:37): the runtime it is about to
\* signal exists.
StopSignalsLive == \A c \in Conns :
    pc[c] = "signal" => life[mine[c]] = "live"
=============================================================================
