----------------------------- MODULE SidecarCalls -----------------------------
(***************************************************************************)
(* What the sidecar promises of a call to the plugin (IToolCallChannel and *)
(* IpcDisconnectedException in ToolCallChannel.cs, PendingCallRegistry.cs): *)
(* it is put on one link at most once, it waits for its own answer from    *)
(* that link, it never waits across two, and a call reported as not sent   *)
(* has not been and will not be heard of by the plugin.                    *)
(***************************************************************************)
CONSTANT Calls

VARIABLES
  link,    \* "up" or "down"
  caller,  \* how far each call is for its caller
  plugin   \* what the plugin's end of the link has of it

sidecarVars == <<link, caller, plugin>>

Init ==
  /\ link = "down"
  /\ caller = [c \in Calls |-> "idle"]
  /\ plugin = [c \in Calls |-> "none"]

\* A new link begins with nobody waiting on the one before.
Connect ==
  /\ link = "down" /\ \A c \in Calls : caller[c] # "waiting"
  /\ link' = "up"
  /\ plugin' = [c \in Calls |-> "none"]
  /\ UNCHANGED caller

Drop ==
  /\ link = "up" /\ link' = "down"
  /\ UNCHANGED <<caller, plugin>>

Begin(c) ==
  /\ caller[c] = "idle" /\ link = "up"
  /\ caller' = [caller EXCEPT ![c] = "asking"]
  /\ UNCHANGED <<link, plugin>>

\* NotSent: it is safe to send again.
Refuse(c) ==
  /\ caller[c] = "idle"
  /\ caller' = [caller EXCEPT ![c] = "notSent"]
  /\ UNCHANGED <<link, plugin>>

\* One that was cancelled meanwhile does not wait.
Ask(c) ==
  /\ caller[c] = "asking" /\ link = "up" /\ plugin[c] = "none"
  /\ \E s \in {"waiting", "over"} : caller' = [caller EXCEPT ![c] = s]
  /\ plugin' = [plugin EXCEPT ![c] = "coming"]
  /\ UNCHANGED link

\* Cancelled, timed out, or it could not be written.
GiveUp(c) ==
  /\ caller[c] \in {"asking", "waiting"}
  /\ caller' = [caller EXCEPT ![c] = "over"]
  /\ UNCHANGED <<link, plugin>>

\* Every call on a link that is down fails at once.
FailAll ==
  /\ link = "down"
  /\ caller' = [c \in Calls |-> IF caller[c] = "waiting" THEN "over" ELSE caller[c]]
  /\ UNCHANGED <<link, plugin>>

\* Behind the pieces of an abandoned line, or before the gate, it is not understood.
Hear(c) ==
  /\ link = "up" /\ plugin[c] = "coming"
  /\ \E s \in {"serving", "none"} : plugin' = [plugin EXCEPT ![c] = s]
  /\ UNCHANGED <<link, caller>>

\* The answer ends the call, or is dropped when the call is over.
Answer(c) ==
  /\ link = "up" /\ plugin[c] = "serving"
  /\ caller' = [caller EXCEPT ![c] = "over"]
  /\ plugin' = [plugin EXCEPT ![c] = "none"]
  /\ UNCHANGED link

Next ==
  \/ Connect \/ Drop \/ FailAll
  \/ \E c \in Calls :
       Begin(c) \/ Refuse(c) \/ Ask(c) \/ GiveUp(c) \/ Hear(c) \/ Answer(c)

Spec == Init /\ [][Next]_sidecarVars
===============================================================================
