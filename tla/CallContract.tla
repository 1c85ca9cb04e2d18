---------------------------- MODULE CallContract ----------------------------
(***************************************************************************)
(* What the game-thread dispatcher promises its callers (the class comment *)
(* of UnrealMcpGameThreadDispatcher.h): bodies run one at a time, none     *)
(* begins after its call was cancelled or decided, and a call is decided   *)
(* once, by its body's result, by a skip or by its timeout.                *)
(***************************************************************************)
CONSTANT Calls

VARIABLES
  accepted,   (* the calls handed to the dispatcher                        *)
  cancelled,  (* the calls whose cancel flag is set                        *)
  running,    (* the call whose body is running, as a set                  *)
  outcome     (* how each call was decided, or "open"                      *)

contractVars == <<accepted, cancelled, running, outcome>>

Init ==
  /\ accepted = {} /\ cancelled = {} /\ running = {}
  /\ outcome = [c \in Calls |-> "open"]

Accept(c) ==
  /\ c \notin accepted
  /\ accepted' = accepted \cup {c}
  /\ UNCHANGED <<cancelled, running, outcome>>

(* Cancelling is cooperative: it decides nothing.                          *)
Cancel(S) ==
  /\ S \subseteq accepted
  /\ cancelled' = cancelled \cup S
  /\ UNCHANGED <<accepted, running, outcome>>

Begin(c) ==
  /\ running = {}
  /\ c \in accepted \ cancelled /\ outcome[c] = "open"
  /\ running' = {c}
  /\ UNCHANGED <<accepted, cancelled, outcome>>

(* The body returns.  Its result decides the call unless the timeout did;  *)
(* a body that asks to be retried decides nothing.                         *)
Return ==
  /\ running # {}
  /\ running' = {}
  /\ \/ UNCHANGED outcome
     \/ \E c \in running :
          outcome[c] = "open" /\ outcome' = [outcome EXCEPT ![c] = "result"]
  /\ UNCHANGED <<accepted, cancelled>>

(* A call that was cancelled is skipped; any call may time out.            *)
Decide(c) ==
  /\ c \in accepted \cap cancelled /\ outcome[c] = "open"
  /\ \/ c \notin running /\ outcome' = [outcome EXCEPT ![c] = "notRun"]
     \/ outcome' = [outcome EXCEPT ![c] = "timeout"]
  /\ UNCHANGED <<accepted, cancelled, running>>

Next ==
  \/ \E c \in Calls : Accept(c) \/ Begin(c) \/ Decide(c)
  \/ \E S \in SUBSET Calls : Cancel(S)
  \/ Return

Spec == Init /\ [][Next]_contractVars
=============================================================================
