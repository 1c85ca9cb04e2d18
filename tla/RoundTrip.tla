----------------------------- MODULE RoundTrip -----------------------------
(***************************************************************************)
(* Calls from the sidecar to the plugin over a link that comes and goes    *)
(* (bridge/src/Ipc/IpcClient.cs, PendingCallRegistry.cs).                  *)
(*                                                                         *)
(* The run loop dials, presents its token, waits for the ack and serves    *)
(* the link until it drops; its `finally` closes the connection and then   *)
(* fails every pending call.  RoundTripAsync runs on the callers' threads: *)
(* it checks the gate, registers the call, arms the cancellation, sends    *)
(* the request through the one write lock and waits, with a backstop.  The *)
(* three registries (tools, prompts, resources) are one: they share all    *)
(* the code and only differ in the type of the response.                   *)
(*                                                                         *)
(* Bounds: the calls in Calls, MaxDials connections.                       *)
(***************************************************************************)
EXTENDS Naturals, Sequences, FiniteSets

CONSTANTS Calls, MaxDials

ASSUME CallsAssumption == IsFiniteSet(Calls)
ASSUME MaxDialsAssumption == MaxDials \in Nat

VARIABLES
    loop,         \* where RunAsync is
    dials,        \* connections dialled; the current one's number
    stream,       \* _stream: the number of its connection, 0 when null
    open,         \* that connection's socket is open on this side
    ackAccepted,  \* _ackAccepted
    waiters,      \* writes waiting for _writeLock
    writer,       \* the write holding it, NoWrite when free
    wire,         \* written to the current connection, not read by the plugin
    authed,       \* the plugin's gate for that connection
    serving,      \* calls the plugin has accepted, whose answer has not been read
    pc,           \* where each RoundTripAsync is
    task,         \* the task its TaskCompletionSource completes: "none", "open" or "ended"
    pending,      \* the registry
    cancelled,    \* the caller's token has been cancelled
    calledBack    \* the registered callback has run

loopVars == <<loop, dials, stream, open, ackAccepted>>
writeVars == <<waiters, writer>>
pluginVars == <<wire, authed, serving>>
callVars == <<pc, task, pending, cancelled, calledBack>>
vars == <<loopVars, writeVars, pluginVars, callVars>>

Handshake == [kind |-> "handshake"]
Request(c) == [kind |-> "request", call |-> c]
ToolCancel(c) == [kind |-> "cancel", call |-> c]
Messages == {Handshake} \cup {Request(c) : c \in Calls} \cup {ToolCancel(c) : c \in Calls}

Writes == [message : Messages, stream : 1..MaxDials]
NoWrite == [message |-> Handshake, stream |-> 0]

Init ==
    /\ loop = "backoff" /\ dials = 0 /\ stream = 0 /\ open = FALSE /\ ackAccepted = FALSE
    /\ waiters = {} /\ writer = NoWrite
    /\ wire = <<>> /\ authed = FALSE /\ serving = {}
    /\ pc = [c \in Calls |-> "idle"] /\ task = [c \in Calls |-> "none"]
    /\ pending = {}
    /\ cancelled = [c \in Calls |-> FALSE] /\ calledBack = [c \in Calls |-> FALSE]

----------------------------------------------------------------------------
(* The registry and the writer, as the actions use them.                   *)

\* TryComplete, TryFail and FailAll: only what is pending can be completed, with
\* a response or with an exception.
Complete(cs) ==
    /\ task' = [c \in Calls |-> IF c \in cs \cap pending THEN "ended" ELSE task[c]]
    /\ pending' = pending \ cs

Return(c) == pc' = [pc EXCEPT ![c] = "done"]

\* SendAsync up to the lock: the stream is captured before the wait.
Enqueue(m) == waiters' = waiters \cup {[message |-> m, stream |-> stream]}

\* A tool-cancel nobody waits for; on a link that is down it fails unobserved.
SendCancel(c) == IF stream = 0 THEN UNCHANGED waiters ELSE Enqueue(ToolCancel(c))

----------------------------------------------------------------------------
(* The run loop.                                                           *)

\* The dial fails: the `finally` runs all the same.
DialFails ==
    /\ loop = "backoff" /\ dials < MaxDials
    /\ dials' = dials + 1 /\ loop' = "close"
    /\ UNCHANGED <<stream, open, ackAccepted, writeVars, pluginVars, callVars>>

\* The stream is published as soon as the socket is connected.
Dial ==
    /\ loop = "backoff" /\ dials < MaxDials
    /\ dials' = dials + 1 /\ loop' = "handshake"
    /\ stream' = dials' /\ open' = TRUE
    /\ wire' = <<>> /\ authed' = FALSE /\ serving' = {}
    /\ UNCHANGED <<ackAccepted, writeVars, callVars>>

SendHandshake ==
    /\ loop = "handshake"
    /\ loop' = "sending"
    /\ Enqueue(Handshake)
    /\ UNCHANGED <<dials, stream, open, ackAccepted, writer, pluginVars, callVars>>

\* The ack has been read: the gate opens.
AcceptAck ==
    /\ loop = "awaitAck" /\ authed
    /\ loop' = "serve" /\ ackAccepted' = TRUE
    /\ UNCHANGED <<dials, stream, open, writeVars, pluginVars, callVars>>

\* No ack in 10 s, the peer closed, an I/O error, 15 s of silence.
LinkDrops ==
    /\ loop \in {"handshake", "awaitAck", "serve"}
    /\ loop' = "close"
    /\ UNCHANGED <<dials, stream, open, ackAccepted, writeVars, pluginVars, callVars>>

CloseConnection ==
    /\ ackAccepted' = FALSE /\ stream' = 0 /\ open' = FALSE

FailAll == Complete(pending)

FailAllFirst ==
    \/ loop = "close" /\ loop' = "failAll" /\ FailAll /\ UNCHANGED <<stream, open, ackAccepted>>
    \/ loop = "failAll" /\ loop' = "backoff" /\ CloseConnection /\ UNCHANGED <<task, pending>>

\* The `finally`: the connection first, the pending calls after it.
Finally ==
    \/ loop = "close" /\ loop' = "failAll" /\ CloseConnection /\ UNCHANGED <<task, pending>>
    \/ loop = "failAll" /\ loop' = "backoff" /\ FailAll /\ UNCHANGED <<stream, open, ackAccepted>>

CleanUp ==
    /\ Finally
    /\ UNCHANGED <<dials, writeVars, pluginVars, pc, cancelled, calledBack>>

\* A shutdown message, or the process is told to stop.
ExitLoop ==
    /\ loop = "backoff" /\ loop' = "exited"
    /\ UNCHANGED <<dials, stream, open, ackAccepted, writeVars, pluginVars, callVars>>

RunLoop == DialFails \/ Dial \/ SendHandshake \/ AcceptAck \/ LinkDrops \/ CleanUp \/ ExitLoop

----------------------------------------------------------------------------
(* RoundTripAsync.                                                         *)

\* The gate; a socket known to be closed is refused too.
Gate(c) ==
    /\ pc[c] = "idle"
    /\ \/ /\ stream # 0 /\ ackAccepted
          /\ pc' = [pc EXCEPT ![c] = "gated"]
       \/ /\ stream = 0 \/ ~ackAccepted \/ loop = "close"
          /\ Return(c)
    /\ UNCHANGED <<loopVars, writeVars, pluginVars, task, pending, cancelled, calledBack>>

Register(c) ==
    /\ pc[c] = "gated"
    /\ pc' = [pc EXCEPT ![c] = "registered"]
    /\ pending' = pending \cup {c} /\ task' = [task EXCEPT ![c] = "open"]
    /\ UNCHANGED <<loopVars, writeVars, pluginVars, cancelled, calledBack>>

CancelAndFail(c) ==
    /\ calledBack' = [calledBack EXCEPT ![c] = TRUE]
    /\ SendCancel(c)
    /\ Complete({c})

\* A token already cancelled runs the callback on the spot.
ArmCancellation(c) ==
    /\ pc[c] = "registered"
    /\ pc' = [pc EXCEPT ![c] = "armed"]
    /\ IF cancelled[c] THEN CancelAndFail(c) ELSE UNCHANGED <<calledBack, waiters, task, pending>>
    /\ UNCHANGED <<loopVars, writer, pluginVars, cancelled>>

CallerCancels(c) ==
    /\ ~cancelled[c] /\ pc[c] # "done"
    /\ cancelled' = [cancelled EXCEPT ![c] = TRUE]
    /\ UNCHANGED <<loopVars, writeVars, pluginVars, pc, task, pending, calledBack>>

\* The callback, on the cancelling thread; leaving RoundTripAsync disarms it.
CancelCallback(c) ==
    /\ cancelled[c] /\ ~calledBack[c] /\ pc[c] \in {"armed", "sending", "waiting"}
    /\ CancelAndFail(c)
    /\ UNCHANGED <<loopVars, writer, pluginVars, pc, cancelled>>

\* A token cancelled by now is not even put in the queue.
Send(c) ==
    /\ pc[c] = "armed"
    /\ \/ /\ stream = 0
          /\ Complete({c}) /\ Return(c)
          /\ UNCHANGED waiters
       \/ /\ stream # 0 /\ cancelled[c]
          /\ Return(c)
          /\ UNCHANGED <<waiters, task, pending>>
       \/ /\ stream # 0 /\ ~cancelled[c]
          /\ Enqueue(Request(c))
          /\ pc' = [pc EXCEPT ![c] = "sending"]
          /\ UNCHANGED <<task, pending>>
    /\ UNCHANGED <<loopVars, writer, pluginVars, cancelled, calledBack>>

\* The wait for the lock is cancelled; OperationCanceledException leaves at once.
SendCancelled(c) ==
    /\ cancelled[c]
    /\ \E w \in waiters :
         /\ w.message = Request(c)
         /\ waiters' = waiters \ {w}
    /\ Return(c)
    /\ UNCHANGED <<loopVars, writer, pluginVars, task, pending, cancelled, calledBack>>

TaskEnds(c) ==
    /\ pc[c] = "waiting" /\ task[c] # "open"
    /\ Return(c)
    /\ UNCHANGED <<loopVars, writeVars, pluginVars, task, pending, cancelled, calledBack>>

NoBackstop(c) == FALSE

\* Mutant of Backstop: the request is sent again.
RetryBackstop(c) ==
    /\ pc[c] = "waiting" /\ task[c] = "open" /\ ~cancelled[c]
    /\ IF stream = 0
         THEN Complete({c}) /\ Return(c) /\ UNCHANGED waiters
         ELSE Enqueue(Request(c)) /\ pc' = [pc EXCEPT ![c] = "sending"] /\ UNCHANGED <<task, pending>>
    /\ UNCHANGED <<loopVars, writer, pluginVars, cancelled, calledBack>>

\* The call's own timeout, plus a grace, with no response from the plugin.
\* Every caller passes a positive timeout, so the guard on it at line 539 always holds.
Backstop(c) ==
    /\ pc[c] = "waiting" /\ task[c] = "open" /\ ~cancelled[c]
    /\ SendCancel(c)
    /\ Complete({c}) /\ Return(c)
    /\ UNCHANGED <<loopVars, writer, pluginVars, cancelled, calledBack>>

Caller(c) ==
    \/ Gate(c) \/ Register(c) \/ ArmCancellation(c) \/ CancelCallback(c) \/ Send(c)
    \/ SendCancelled(c) \/ TaskEnds(c) \/ Backstop(c)

----------------------------------------------------------------------------
(* SendAsync: one write at a time, to the stream captured before the wait. *)

AnyMayWrite(w) == TRUE

\* A request whose wait was cancelled has left the queue before its callback runs:
\* the wait registered with the token later, and a token runs its registrations
\* last in, first out.
MayWrite(w) == w.message.kind = "request" => ~calledBack[w.message.call]

AcquireLock(w) ==
    /\ writer = NoWrite /\ MayWrite(w)
    /\ writer' = w /\ waiters' = waiters \ {w}
    /\ UNCHANGED <<loopVars, pluginVars, callVars>>

\* What the sender does when its write returns or throws.
Resume(written) ==
    LET message == writer.message IN
    /\ loop' = IF message # Handshake THEN loop ELSE IF written THEN "awaitAck" ELSE "close"
    /\ \/ /\ message.kind = "request" /\ written
          /\ pc' = [pc EXCEPT ![message.call] = "waiting"] /\ UNCHANGED <<task, pending>>
       \/ /\ message.kind = "request" /\ ~written
          /\ Complete({message.call}) /\ Return(message.call)
       \/ message.kind # "request" /\ UNCHANGED <<pc, task, pending>>

Frame(whole) == [message |-> writer.message, whole |-> whole]

WriteFrame ==
    /\ writer # NoWrite /\ open /\ stream = writer.stream
    /\ wire' = Append(wire, Frame(TRUE))
    /\ writer' = NoWrite /\ Resume(TRUE)
    /\ UNCHANGED <<dials, stream, open, ackAccepted, waiters, authed, serving, cancelled, calledBack>>

\* The stream was disposed, or the peer reset the connection.
WriteFails ==
    /\ writer # NoWrite
    /\ writer' = NoWrite /\ Resume(FALSE)
    /\ UNCHANGED <<dials, stream, open, ackAccepted, waiters, pluginVars, cancelled, calledBack>>

\* A request's write takes the caller's token: cancelled in the middle, it
\* leaves what the socket has already taken.
WriteCancelled ==
    /\ writer # NoWrite /\ writer.message.kind = "request" /\ cancelled[writer.message.call]
    /\ open /\ stream = writer.stream
    /\ wire' \in {wire, Append(wire, Frame(FALSE))}
    /\ writer' = NoWrite
    /\ Return(writer.message.call)
    /\ UNCHANGED <<loopVars, waiters, authed, serving, task, pending, cancelled, calledBack>>

Write == WriteFrame \/ WriteFails \/ WriteCancelled \/ \E w \in waiters : AcquireLock(w)

----------------------------------------------------------------------------
(* The plugin, and the reader loop that brings its answers back.           *)

\* A line ends where a whole frame ends; anything before it in the line is
\* the front of an abandoned frame, and the line does not parse.
LineEnd(n) == wire[n].whole /\ \A j \in 1..n-1 : ~wire[j].whole

PluginReads ==
    /\ open
    /\ \E n \in DOMAIN wire :
         /\ LineEnd(n)
         /\ wire' = SubSeq(wire, n + 1, Len(wire))
         /\ LET message == wire[n].message
                parses == n = 1
            IN  /\ authed' = (authed \/ (parses /\ message = Handshake))
                /\ serving' = IF parses /\ authed /\ message.kind = "request"
                                THEN serving \cup {message.call} ELSE serving
    /\ UNCHANGED <<loopVars, writeVars, callVars>>

\* The plugin has answered and the reader loop completes the call, or drops the
\* answer to one that is over.  An answer lost with the link was never read.
ReadResponse(c) ==
    /\ loop \in {"awaitAck", "serve"} /\ c \in serving
    /\ serving' = serving \ {c}
    /\ Complete({c})
    /\ UNCHANGED <<loopVars, writeVars, wire, authed, pc, cancelled, calledBack>>

----------------------------------------------------------------------------
Next ==
    \/ RunLoop \/ Write \/ PluginReads
    \/ \E c \in Calls : Caller(c) \/ CallerCancels(c) \/ ReadResponse(c)

Spec == Init /\ [][Next]_vars

\* Threads of the pool run, a `finally` ends, a write returns or throws, and
\* timers fire.  Nothing is assumed of the plugin or of the network.
FairSpec ==
    /\ Spec
    /\ WF_vars(CleanUp)
    /\ WF_vars(Write)
    /\ \A c \in Calls : WF_vars(Caller(c))

----------------------------------------------------------------------------
(* Properties.                                                             *)

Waiting(c) == pc[c] = "waiting" /\ task[c] = "open"

\* Every variable keeps to its type; only a cancelled call can be over and
\* still sit in the registry.
TypeOK ==
    /\ loop \in {"backoff", "handshake", "sending", "awaitAck", "serve", "close", "failAll", "exited"}
    /\ dials \in 0..MaxDials /\ stream \in 0..MaxDials
    /\ open = (stream # 0) /\ ackAccepted \in BOOLEAN
    /\ waiters \subseteq Writes /\ writer \in Writes \cup {NoWrite}
    /\ wire \in Seq([message : Messages, whole : BOOLEAN]) /\ authed \in BOOLEAN
    /\ serving \subseteq Calls
    /\ pc \in [Calls -> {"idle", "gated", "registered", "armed", "sending", "waiting", "done"}]
    /\ task \in [Calls -> {"none", "open", "ended"}]
    /\ pending = {c \in Calls : task[c] = "open"}
    /\ \A c \in pending : pc[c] = "done" => cancelled[c]
    /\ cancelled \in [Calls -> BOOLEAN] /\ calledBack \in [Calls -> BOOLEAN]

\* A call is failed when its link drops, not left to its timeout: while the
\* loop backs off, or after it has exited, nobody waits for an answer.
NoOrphanedCall == loop \in {"backoff", "exited"} => \A c \in Calls : ~Waiting(c)

\* The plugin never hears of a cancel before the call it cancels, which it
\* would then run with nobody waiting.
CancelFollowsRequest ==
    \A i, j \in DOMAIN wire : \A c \in Calls :
        wire[i].message = ToolCancel(c) /\ wire[j].message = Request(c) => j < i

\* What the gate refused is reported as not sent, and nothing of it has been: not
\* even the front of a frame.
NotSentIsUnheard ==
    \A c \in Calls : pc[c] = "done" /\ task[c] = "none" =>
        c \notin serving /\ \A n \in DOMAIN wire : wire[n].message # Request(c)

\* Every call ends, whatever the plugin and the network do.
EveryCallEnds == \A c \in Calls : pc[c] = "gated" ~> pc[c] = "done"

----------------------------------------------------------------------------
(* What it implements.                                                     *)

\* A request of c that is whole on the wire.
Asks(n, c) == wire[n].whole /\ wire[n].message = Request(c)

\* How far a call at p, with a task that is t, is for its caller.
CallerAt(p, t) ==
    CASE p = "idle" -> "idle"
      [] p \in {"gated", "registered", "armed", "sending"} -> "asking"
      [] p = "waiting" /\ t = "open" -> "waiting"
      [] p = "done" /\ t = "none" -> "notSent"
      [] OTHER -> "over"

CallerOf(c) == CallerAt(pc[c], task[c])

PluginOf(c) ==
    IF c \in serving THEN "serving"
    ELSE IF \E n \in DOMAIN wire : Asks(n, c) THEN "coming"
    ELSE "none"

Promise == INSTANCE SidecarCalls
    WITH link   <- IF stream = 0 THEN "down" ELSE "up",
         caller <- [c \in Calls |-> CallerOf(c)],
         plugin <- [c \in Calls |-> PluginOf(c)]

\* Each call is put on one link at most once and never waits across two; its
\* answer is that link's; and what is reported as not sent was not, so that
\* sending it again cannot run it twice.
KeepsPromise == Promise!Spec

============================================================================
