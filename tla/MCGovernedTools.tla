--------------------------- MODULE MCGovernedTools ---------------------------
EXTENDS GovernedTools, TLC

CONSTANTS i1, c0, d1, o1, o2

Binding(name, digest, principal, level) ==
    [name |-> name, digest |-> digest, principal |-> principal, scope |-> "s", level |-> level,
     origin |-> None, originBinding |-> "-"]

\* A call that needs an approval, one that does not, and what compensates the intent i1.
Free == Binding("b1", d1, o1, "A0")
SomeBindings ==
    {Binding("b0", d1, o1, "A1"), Free,
     [Free EXCEPT !.name = "b2", !.origin = i1, !.originBinding = "b1"]}

\* A store whose only intent, i1 of the call c0, was admitted without an approval and failed.
AfterFailure ==
    /\ clock = 0
    /\ approval = [c \in Calls |-> NoApproval] /\ approvalLog = [c \in Calls |-> <<>>]
    /\ execution = [c \in Calls |-> NoExecution] /\ executionLog = [c \in Calls |-> <<>>]
    /\ previews = [c \in Calls |-> None]
    /\ intents = [[i \in Ids |-> NoIntent] EXCEPT ![i1] =
                     [state |-> "failed", call |-> c0, binding |-> Free, exact |-> None,
                      outcome |-> "failed", started |-> 0]]
    /\ local = [c \in Calls |-> NoLocal]
    /\ outcomes = [i \in Ids |-> IF i = i1 THEN <<"prepared", "failed">> ELSE <<>>]
    /\ admits = [i \in Ids |-> IF i = i1 THEN 1 ELSE 0] /\ posts = [i \in Ids |-> {}]
    /\ events = 1 /\ refusals = 0
    /\ tokens = {i1} /\ phase = "up" /\ faults = 0
    /\ released = [c \in Calls |-> IF c = c0 THEN 1 ELSE 0] /\ consent = {}

SpecAfterFailure == AfterFailure /\ [][Next]_vars

\* Identifiers that no binding names are interchangeable, and so are the other calls.
Symmetry == Permutations(Ids \ {i1}) \cup Permutations(Calls \ {c0})
=============================================================================
