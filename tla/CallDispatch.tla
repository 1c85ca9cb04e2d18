---------------------------- MODULE CallDispatch ----------------------------
(***************************************************************************)
(* A tool call, a prompt-get or a resource-read on the plugin's side, from *)
(* the reader thread that accepts it to the response that leaves: the      *)
(* three handlers of UnrealMcpBridgeServer.cpp, which are alike, and       *)
(* UnrealMcpGameThreadDispatcher.cpp.  Four threads meet:                  *)
(*   - the reader, which registers, dispatches and cancels calls;          *)
(*   - the game thread, which runs bodies at the end of a frame and also   *)
(*     runs Shutdown, after which the server is freed;                     *)
(*   - the watchdog, which times calls out;                                *)
(*   - whichever of them completes a call also runs its continuation.      *)
(* Dispatch is only ever called off the game thread, so its inline branch  *)
(* is left out.                                                            *)
(***************************************************************************)
EXTENDS Integers, Sequences, FiniteSets

CONSTANTS
  Calls,     (* the messages that ask for work                             *)
  Ids,       (* the request ids they may carry                             *)
  None,      (* no call                                                    *)
  NoId       (* the empty request id                                       *)

ASSUME CallsAssumption == IsFiniteSet(Calls) /\ None \notin Calls /\ NoId \notin Ids

VARIABLES
  arrived,   (* the calls the reader has taken, in order                   *)
  id,        (* their request ids                                          *)
  tracked,   (* bTrackCancel: the calls that own a CancelFlags entry       *)
  flags,     (* CancelFlags: the call whose flag each id names, or None    *)
  cancelled, (* the calls whose cancel flag is set                         *)
  inFlight,  (* InFlightCalls                                              *)
  outcome,   (* FDispatchState: "open", or what the promise was set to     *)
  stage,     (* the continuation of each call: where it is                 *)
  answers,   (* history: how many responses each call was given            *)
  rpc, rcall,          (* the reader, and the call it is handling          *)
  watch, expired,      (* the watchdog's Entries, and its Expired batch    *)
  wpc, wcall,          (* the watchdog, and the call it is expiring        *)
  queue, delayed, due, (* Pending, its entries not due yet, and Due        *)
  retried,   (* history: the calls whose body has asked for a retry        *)
  gpc, gcall,          (* the game thread, and the call it is running      *)
  preExit,   (* OnEnginePreExit has been broadcast                         *)
  sd,        (* Shutdown's progress; not "up" is bStopRequested            *)
  dangling   (* some thread used the server or its registry after the free *)

ids      == <<arrived, id, tracked, flags>>
promise  == <<outcome, stage>>
reader   == <<rpc, rcall>>
watchdog == <<watch, expired, wpc, wcall>>
frames   == <<queue, delayed, due, retried>>
game     == <<gpc, gcall>>
server   == <<preExit, sd>>
vars     == <<ids, cancelled, inFlight, promise, answers, reader, watchdog, frames, game,
              server, dangling>>

Elements(s) == {s[i] : i \in 1..Len(s)}

Init ==
  /\ arrived = <<>> /\ id = [c \in Calls |-> NoId]
  /\ tracked = {} /\ flags = [i \in Ids |-> None]
  /\ cancelled = {} /\ inFlight = 0
  /\ outcome = [c \in Calls |-> "open"] /\ stage = [c \in Calls |-> "none"]
  /\ answers = [c \in Calls |-> 0]
  /\ rpc = "idle" /\ rcall = None
  /\ watch = {} /\ expired = {} /\ wpc = "scan" /\ wcall = None
  /\ queue = <<>> /\ delayed = {} /\ retried = {} /\ due = <<>>
  /\ gpc = "idle" /\ gcall = None
  /\ preExit = FALSE /\ sd = "up" /\ dangling = FALSE

-----------------------------------------------------------------------------
(* The promise and its continuation.                                       *)

(* FDispatchState::Complete: the first to set bCompleted sets the promise, *)
(* and runs the continuation if it is attached already.                    *)
Wins(c) == outcome[c] = "open"
(* Mutant: the completions are not guarded by the exchange.                *)
RunsUnguarded(c) == stage[c] # "none"

RunsContinuation(c) == Wins(c) /\ stage[c] = "attached"

Complete(c, o) ==
  /\ outcome' = IF Wins(c) THEN [outcome EXCEPT ![c] = o] ELSE outcome
  /\ stage' = IF RunsContinuation(c) THEN [stage EXCEPT ![c] = "respond"] ELSE stage

(* The continuation: send the response, drop the flag's entry, count the   *)
(* call out.  Each step uses the server.                                   *)
SendResponse(c) ==
  /\ stage[c] = "respond"
  /\ answers' = [answers EXCEPT ![c] = @ + 1]
  /\ stage' = [stage EXCEPT ![c] = "untrack"]
  /\ UNCHANGED <<flags, inFlight>>

(* Mutant: a duplicate drops the entry too.                                *)
RemoveAnyFlag(c) ==
  /\ stage[c] = "untrack"
  /\ flags' = IF id[c] \in Ids THEN [flags EXCEPT ![id[c]] = None] ELSE flags
  /\ stage' = [stage EXCEPT ![c] = "retire"]
  /\ UNCHANGED <<answers, inFlight>>

RemoveFlag(c) ==
  /\ stage[c] = "untrack"
  /\ flags' = IF c \in tracked THEN [flags EXCEPT ![id[c]] = None] ELSE flags
  /\ stage' = [stage EXCEPT ![c] = "retire"]
  /\ UNCHANGED <<answers, inFlight>>

(* Mutant: only tracked calls are counted out.                             *)
CountOutTracked(c) ==
  /\ stage[c] = "retire"
  /\ inFlight' = IF c \in tracked THEN inFlight - 1 ELSE inFlight
  /\ stage' = [stage EXCEPT ![c] = "done"]
  /\ UNCHANGED <<answers, flags>>

CountOut(c) ==
  /\ stage[c] = "retire"
  /\ inFlight' = inFlight - 1
  /\ stage' = [stage EXCEPT ![c] = "done"]
  /\ UNCHANGED <<answers, flags>>

Continue(c) ==
  /\ sd # "freed"
  /\ SendResponse(c) \/ RemoveFlag(c) \/ CountOut(c)
  /\ UNCHANGED <<arrived, id, tracked, cancelled, outcome, watch, expired, frames, server,
                 dangling>>

-----------------------------------------------------------------------------
(* The reader thread: HandleToolCall, HandlePromptGet, HandleResourceRead. *)

(* Nothing new once teardown has begun.  Only a non-empty id that no live  *)
(* call holds is tracked for cancellation.                                 *)
ReceiveCall(c, i) ==
  /\ rpc = "idle" /\ sd = "up"
  /\ c \notin Elements(arrived)
  /\ arrived' = Append(arrived, c)
  /\ id' = [id EXCEPT ![c] = i]
  /\ IF i \in Ids /\ flags[i] = None
       THEN flags' = [flags EXCEPT ![i] = c] /\ tracked' = tracked \cup {c}
       ELSE UNCHANGED <<flags, tracked>>
  /\ inFlight' = inFlight + 1
  /\ rpc' = "watch" /\ rcall' = c
  /\ UNCHANGED <<cancelled, promise, answers, watchdog, frames, game, server, dangling>>

Watch ==
  /\ rpc = "watch"
  /\ watch' = watch \cup {rcall}
  /\ rpc' = "schedule"
  /\ UNCHANGED <<ids, cancelled, inFlight, promise, answers, rcall, expired, wpc, wcall,
                 frames, game, server, dangling>>

Schedule ==
  /\ rpc = "schedule"
  /\ queue' = Append(queue, rcall)
  /\ rpc' = "attach"
  /\ UNCHANGED <<ids, cancelled, inFlight, promise, answers, rcall, watchdog, delayed, due,
                 retried, game, server, dangling>>

(* Mutant: a continuation attached late is never run.                      *)
AttachOnly ==
  /\ rpc = "attach"
  /\ stage' = [stage EXCEPT ![rcall] = "attached"]
  /\ rpc' = "idle" /\ rcall' = None
  /\ UNCHANGED <<ids, cancelled, inFlight, outcome, answers, watchdog, frames, game, server,
                 dangling>>

(* .Next on the returned future: the call may have been completed already, *)
(* and then the continuation runs here.                                    *)
AttachContinuation ==
  /\ rpc = "attach"
  /\ \/ /\ outcome[rcall] = "open"
        /\ stage' = [stage EXCEPT ![rcall] = "attached"]
        /\ rpc' = "idle" /\ rcall' = None
     \/ /\ outcome[rcall] # "open"
        /\ stage' = [stage EXCEPT ![rcall] = "respond"]
        /\ rpc' = "deliver" /\ UNCHANGED rcall
  /\ UNCHANGED <<ids, cancelled, inFlight, outcome, answers, watchdog, frames, game,
                 server, dangling>>

ReaderDelivers ==
  /\ rpc = "deliver"
  /\ Continue(rcall)
  /\ IF stage[rcall] = "retire" THEN rpc' = "idle" /\ rcall' = None ELSE UNCHANGED reader
  /\ UNCHANGED <<wpc, wcall, game>>

HandleToolCancel(i) ==
  /\ rpc = "idle" /\ flags[i] # None
  /\ cancelled' = cancelled \cup {flags[i]}
  /\ UNCHANGED <<ids, inFlight, promise, answers, reader, watchdog, frames, game, server,
                 dangling>>

-----------------------------------------------------------------------------
(* The watchdog thread.                                                    *)

(* Under its lock, take what is overdue.  Entries that are complete are    *)
(* never looked at again; that the loop also prunes them is left out.      *)
ScanEntries ==
  /\ wpc = "scan" /\ ~preExit
  /\ \E S \in SUBSET {c \in watch : outcome[c] = "open"} \ {{}} :
       expired' = S /\ watch' = watch \ S
  /\ wpc' = "expire"
  /\ UNCHANGED <<ids, cancelled, inFlight, promise, answers, reader, wcall, frames, game,
                 server, dangling>>

(* Cancel first, so that a body still queued is skipped ...                *)
ExpireEntry(c) ==
  /\ wpc = "expire" /\ c \in expired
  /\ expired' = expired \ {c}
  /\ cancelled' = cancelled \cup {c}
  /\ wpc' = "complete" /\ wcall' = c
  /\ UNCHANGED <<ids, inFlight, promise, answers, reader, watch, frames, game, server,
                 dangling>>

(* ... then complete, unless the call was completed since the scan.        *)
CompleteExpired ==
  /\ wpc = "complete"
  /\ Complete(wcall, "timeout")
  /\ IF RunsContinuation(wcall)
       THEN wpc' = "deliver" /\ UNCHANGED wcall
       ELSE wpc' = "expire" /\ wcall' = None
  /\ UNCHANGED <<ids, cancelled, inFlight, answers, reader, watch, expired, frames, game,
                 server, dangling>>

WatchdogDelivers ==
  /\ wpc = "deliver"
  /\ Continue(wcall)
  /\ IF stage[wcall] = "retire" THEN wpc' = "expire" /\ wcall' = None
       ELSE UNCHANGED <<wpc, wcall>>
  /\ UNCHANGED <<reader, game>>

(* Engine pre-exit sets bStop, which the loop reads between batches.       *)
EndBatch ==
  /\ \/ wpc = "expire" /\ expired = {} /\ wpc' = "scan"
     \/ wpc = "scan" /\ preExit /\ wpc' = "stopped"
  /\ UNCHANGED <<ids, cancelled, inFlight, promise, answers, reader, watch, expired, wcall,
                 frames, game, server, dangling>>

-----------------------------------------------------------------------------
(* The game thread at the end of a frame.                                  *)

BetweenFrames == gpc = "idle" /\ due = <<>> /\ sd \in {"up", "freed"}

(* The positions in I, in their order, as a sequence: the only element.    *)
InOrder(I) ==
  {f \in [1..Cardinality(I) -> I] : \A i, j \in DOMAIN f : i < j => f[i] < f[j]}

Ready == {i \in DOMAIN queue : queue[i] \notin delayed}

(* Mutant: the loop runs backwards, as the watchdog's does.                *)
DrainBackwards ==
  /\ BetweenFrames /\ ~preExit
  /\ Ready # {}
  /\ \E take \in InOrder(Ready), leave \in InOrder(DOMAIN queue \ Ready) :
       /\ due' = [i \in DOMAIN take |-> queue[take[Cardinality(Ready) + 1 - i]]]
       /\ queue' = [i \in DOMAIN leave |-> queue[leave[i]]]
  /\ UNCHANGED <<ids, cancelled, inFlight, promise, answers, reader, watchdog, delayed,
                 retried, game, server, dangling>>

(* Take what is due, in arrival order.                                     *)
Drain ==
  /\ BetweenFrames /\ ~preExit
  /\ Ready # {}
  /\ \E take \in InOrder(Ready), leave \in InOrder(DOMAIN queue \ Ready) :
       /\ due' = [i \in DOMAIN take |-> queue[take[i]]]
       /\ queue' = [i \in DOMAIN leave |-> queue[leave[i]]]
  /\ UNCHANGED <<ids, cancelled, inFlight, promise, answers, reader, watchdog, delayed,
                 retried, game, server, dangling>>

(* Mutant: the cancel flag is left to the body.                            *)
SkipsCompleted(c) == outcome[c] # "open"

Skips(c) == outcome[c] # "open" \/ c \in cancelled

(* The caller already timed out or cancelled: never run it late.           *)
SkipJob ==
  /\ gpc = "idle" /\ due # <<>>
  /\ LET c == Head(due) IN
       /\ Skips(c)
       /\ Complete(c, "notRun")
       /\ IF RunsContinuation(c) THEN gpc' = "deliver" /\ gcall' = c ELSE UNCHANGED game
  /\ due' = Tail(due)
  /\ UNCHANGED <<ids, cancelled, inFlight, answers, reader, watchdog, queue, delayed,
                 retried, server, dangling>>

RunBody ==
  /\ gpc = "idle" /\ due # <<>>
  /\ ~Skips(Head(due)) /\ sd # "freed"
  /\ gpc' = "body" /\ gcall' = Head(due) /\ due' = Tail(due)
  /\ UNCHANGED <<ids, cancelled, inFlight, promise, answers, reader, watchdog, queue,
                 delayed, retried, server, dangling>>

BodyReturns ==
  /\ gpc = "body"
  /\ Complete(gcall, "result")
  /\ IF RunsContinuation(gcall)
       THEN gpc' = "deliver" /\ UNCHANGED gcall
       ELSE gpc' = "idle" /\ gcall' = None
  /\ UNCHANGED <<ids, cancelled, inFlight, answers, reader, watchdog, frames, server,
                 dangling>>

(* bRetryLater: queued again, not before a tenth of a second has passed.   *)
BodyRetries ==
  /\ gpc = "body"
  /\ gpc' = "idle" /\ gcall' = None
  /\ queue' = Append(queue, gcall)
  /\ delayed' = delayed \cup {gcall} /\ retried' = retried \cup {gcall}
  /\ UNCHANGED <<ids, cancelled, inFlight, promise, answers, reader, watchdog, due, server,
                 dangling>>

RetryDelayElapses(c) ==
  /\ c \in delayed
  /\ delayed' = delayed \ {c}
  /\ UNCHANGED <<ids, cancelled, inFlight, promise, answers, reader, watchdog, queue, due,
                 retried, game, server, dangling>>

GameDelivers ==
  /\ gpc = "deliver"
  /\ Continue(gcall)
  /\ IF stage[gcall] = "retire" THEN gpc' = "idle" /\ gcall' = None ELSE UNCHANGED game
  /\ UNCHANGED <<reader, wpc, wcall>>

-----------------------------------------------------------------------------
(* The game thread, shutting down.                                         *)

(* The end-of-frame delegate is removed and the watchdog told to stop.     *)
EnginePreExit ==
  /\ BetweenFrames /\ ~preExit
  /\ preExit' = TRUE
  /\ UNCHANGED <<ids, cancelled, inFlight, promise, answers, reader, watchdog, frames, game,
                 sd, dangling>>

ShutdownStep(from, to) ==
  /\ sd = from
  /\ sd' = to
  /\ UNCHANGED <<ids, inFlight, promise, answers, rcall, watchdog, frames, game, preExit,
                 dangling>>

BeginShutdown ==
  /\ BetweenFrames
  /\ ShutdownStep("up", "join")
  /\ UNCHANGED <<cancelled, rpc>>

JoinReader ==
  /\ rpc = "idle" /\ rpc' = "exited"
  /\ ShutdownStep("join", "cancel")
  /\ UNCHANGED cancelled

CancelAllInFlight ==
  /\ ShutdownStep("cancel", "drain")
  /\ cancelled' = cancelled \cup ({flags[i] : i \in Ids} \ {None})
  /\ UNCHANGED rpc

(* DrainInFlightCalls sleeps on the game thread until the count is zero or *)
(* five seconds are over; its caller then frees the server.                *)
DrainInFlightCalls ==
  /\ ShutdownStep("drain", "freed")
  /\ inFlight = 0
  /\ UNCHANGED <<cancelled, rpc>>

GraceExpires ==
  /\ ShutdownStep("drain", "freed")
  /\ inFlight > 0
  /\ UNCHANGED <<cancelled, rpc>>

(* What is left of the calls after the free: the continuation captured     *)
(* `this`, the body the registry.  Either use is undefined behaviour; the  *)
(* model records it, and the thread takes no further step.                 *)
UseFreedServer ==
  /\ sd = "freed" /\ ~dangling
  /\ \/ gpc = "deliver" \/ wpc = "deliver"
     \/ gpc = "idle" /\ due # <<>> /\ ~Skips(Head(due))
  /\ dangling' = TRUE
  /\ UNCHANGED <<ids, cancelled, inFlight, promise, answers, reader, watchdog, frames, game,
                 server>>

-----------------------------------------------------------------------------
Reader ==
  Watch \/ Schedule \/ AttachContinuation \/ ReaderDelivers

Watchdog ==
  \/ ScanEntries \/ CompleteExpired \/ WatchdogDelivers \/ EndBatch
  \/ \E c \in Calls : ExpireEntry(c)

Game ==
  Drain \/ SkipJob \/ RunBody \/ BodyReturns \/ BodyRetries \/ GameDelivers

Shutdown == JoinReader \/ CancelAllInFlight \/ DrainInFlightCalls \/ GraceExpires

Next ==
  \/ \E c \in Calls, i \in Ids \cup {NoId} : ReceiveCall(c, i)
  \/ \E i \in Ids : HandleToolCancel(i)
  \/ \E c \in Calls : RetryDelayElapses(c)
  \/ Reader \/ Watchdog \/ Game \/ EnginePreExit \/ BeginShutdown \/ Shutdown
  \/ UseFreedServer

Spec == Init /\ [][Next]_vars

(* Threads keep running, bodies return and every deadline comes.           *)
Fairness ==
  /\ WF_vars(Reader) /\ WF_vars(Game) /\ WF_vars(Watchdog)
  /\ \A c \in Calls : SF_vars(ScanEntries /\ c \in expired')

LiveSpec == Spec /\ Fairness

-----------------------------------------------------------------------------
(* Properties.                                                             *)

Stages == {"none", "attached", "respond", "untrack", "retire", "done"}

TypeOK ==
  /\ arrived \in Seq(Calls) /\ id \in [Calls -> Ids \cup {NoId}]
  /\ tracked \subseteq Calls /\ flags \in [Ids -> Calls \cup {None}]
  /\ cancelled \subseteq Calls /\ inFlight \in Nat
  /\ outcome \in [Calls -> {"open", "result", "notRun", "timeout"}]
  /\ stage \in [Calls -> Stages] /\ answers \in [Calls -> Nat]
  /\ rpc \in {"idle", "watch", "schedule", "attach", "deliver", "exited"}
  /\ rcall \in Calls \cup {None}
  /\ watch \subseteq Calls /\ expired \subseteq Calls
  /\ wpc \in {"scan", "expire", "complete", "deliver", "stopped"}
  /\ wcall \in Calls \cup {None}
  /\ queue \in Seq(Calls) /\ delayed \subseteq retried /\ retried \subseteq Calls
  /\ due \in Seq(Calls)
  /\ gpc \in {"idle", "body", "deliver"} /\ gcall \in Calls \cup {None}
  /\ preExit \in BOOLEAN /\ dangling \in BOOLEAN
  /\ sd \in {"up", "join", "cancel", "drain", "freed"}

(* The dispatcher keeps its contract: bodies run one at a time, none of a  *)
(* call that was decided or cancelled before, and no call is decided twice *)
(* (UnrealMcpGameThreadDispatcher.h:22).                                   *)
Contract == INSTANCE CallContract WITH
  accepted <- Elements(arrived),
  running  <- IF gpc = "body" THEN {gcall} ELSE {}

KeepsContract == Contract!Spec

(* However body, watchdog and late attachment of the continuation race, a  *)
(* call gets one response, and it is counted out only after it.            *)
OneAnswer ==
  \A c \in Calls :
    /\ answers[c] <= 1
    /\ stage[c] = "done" => answers[c] = 1
    /\ stage[c] \in {"respond", "untrack", "retire", "done"} => outcome[c] # "open"

(* A cancel by request id can only hit the live call that owns the id: a   *)
(* duplicate neither takes the entry over nor removes it when it finishes, *)
(* and no entry outlives its call (CancelFlags).                           *)
CancelHitsItsOwner ==
  /\ \A i \in Ids : flags[i] # None =>
       flags[i] \in tracked /\ id[flags[i]] = i /\ stage[flags[i]] \notin {"retire", "done"}
  /\ \A c \in tracked : stage[c] \notin {"retire", "done"} => flags[id[c]] = c

(* InFlightCalls counts the calls that still may touch the server, so that *)
(* a drain that reaches zero is safe to free after.                        *)
InFlightIsExact ==
  inFlight = Cardinality({c \in Elements(arrived) : stage[c] # "done"})

(* First attempts run in the order the reader took the calls: a call that  *)
(* is not a retry is never overtaken (Drain keeps arrival order).          *)
Position(c) == CHOOSE i \in 1..Len(arrived) : arrived[i] = c

ArrivalOrder ==
  LET waiting == due \o queue IN
  \A i, j \in 1..Len(waiting) :
    (i < j /\ Position(waiting[j]) < Position(waiting[i])) => waiting[j] \in retried

(* Every call the server takes is answered, unless the engine or the       *)
(* server is going down.                                                   *)
EveryCallAnswered ==
  \A c \in Calls :
    (c \in Elements(arrived)) ~> (answers[c] > 0 \/ preExit \/ sd # "up")

(* What the comments promise and the code does not keep.                   *)

(* UnrealMcpBridgeServer.cpp:1310: in-flight calls are drained because one *)
(* "still in flight would fire on freed objects".                          *)
NoUseAfterFree == ~dangling
=============================================================================
