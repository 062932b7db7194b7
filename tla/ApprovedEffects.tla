--------------------------- MODULE ApprovedEffects ---------------------------
(***************************************************************************)
(* What approvals promise, whatever the daemon does and however often it   *)
(* ends: an effect happens only for a call somebody explicitly approved,   *)
(* for exactly the input that was shown, and at most once.                 *)
(***************************************************************************)
EXTENDS Sequences

CONSTANTS Calls, Digests, None

VARIABLES phase,     \* how far each call has got
          shown,     \* the digest the approval is about
          effects    \* the digests acted upon, in order

vars == <<phase, shown, effects>>

Phases == {"new", "asked", "granted", "closed", "spent", "ended"}

Init ==
    /\ phase = [c \in Calls |-> "new"]
    /\ shown = [c \in Calls |-> None]
    /\ effects = [c \in Calls |-> <<>>]

Move(c, from, to) == phase[c] = from /\ phase' = [phase EXCEPT ![c] = to]

Ask(c) ==
    /\ Move(c, "new", "asked")
    /\ \E d \in Digests : shown' = [shown EXCEPT ![c] = d]
    /\ UNCHANGED effects

Grant(c) == Move(c, "asked", "granted") /\ UNCHANGED <<shown, effects>>

\* Denied, cancelled or expired.
Close(c) ==
    /\ Move(c, "asked", "closed") \/ Move(c, "granted", "closed")
    /\ UNCHANGED <<shown, effects>>

\* The approval is used up before anything happens.
Spend(c) == Move(c, "granted", "spent") /\ UNCHANGED <<shown, effects>>

Act(c) ==
    /\ phase[c] = "spent" /\ effects[c] = <<>>
    /\ effects' = [effects EXCEPT ![c] = <<shown[c]>>]
    /\ UNCHANGED <<phase, shown>>

\* Calls end with a result, or interrupted when the process has ended.
End ==
    /\ phase' \in [Calls -> Phases]
    /\ \A c \in Calls : phase'[c] = phase[c] \/ (phase[c] = "spent" /\ phase'[c] = "ended")
    /\ UNCHANGED <<shown, effects>>

Next == End \/ \E c \in Calls : Ask(c) \/ Grant(c) \/ Close(c) \/ Spend(c) \/ Act(c)

Spec == Init /\ [][Next]_vars
=============================================================================
