----------------------------- MODULE Supervisor -----------------------------
(***************************************************************************)
(* One supervised child process (src/runtime/supervisor.rs and             *)
(* src/runtime/supervisor/unix.rs).                                        *)
(*                                                                         *)
(* Three parties interleave: the supervising thread, which polls; one      *)
(* reader thread per captured stream, which ends with one message; and the *)
(* operating system, where the child leads a process group, forks, writes, *)
(* and exits when it likes. Time is abstract: the deadline passes at some  *)
(* moment, and a grace period may be over whenever its loop looks, so a    *)
(* wait loop is left either because it saw what it waits for or because    *)
(* time is up. SIGTERM obliges nobody, SIGKILL ends a process after a      *)
(* while. waitpid on the supervisor's own unreaped child does not fail.    *)
(***************************************************************************)
EXTENDS Integers

CONSTANTS Kids,        \* processes that the child may fork
          Cap,         \* stdout_bytes and stderr_bytes
          MaxFaults    \* bound: reader errors, refused signals, failing spawns

Leader  == "leader"
Procs   == Kids \cup {Leader}
Streams == {"stdout", "stderr"}
None    == "none"

\* SupervisorLimits::validate: a stream limit is never zero.
ASSUME SupervisorAssumption == Cap \in Nat \ {0} /\ MaxFaults \in Nat /\ Leader \notin Kids

VARIABLES
    proc,        \* none, alive, dying (killed, still there), zombie, gone
    group,       \* members of the process group of the leader
    holds,       \* who holds the write ends of the two pipes
    written,     \* bytes written into each pipe, up to one more than the limit
    got,         \* bytes each reader has read
    reader,      \* off, reading, or its message: eof, over, error
    cancelled,   \* what the checkpoint answers
    late,        \* whether the deadline has passed
    inTime,      \* history: the leader ended by itself before the deadline
    denied,      \* history: the SIGKILL of Drop was refused
    faults,
    pc, back,    \* the supervising thread, and where terminate returns to
    status, taken, control,    \* locals of supervise; taken is Captures
    reaped, disarmed,          \* ChildGuard
    result                     \* of run_with_checkpoint

os    == <<proc, group, holds, written, got, reader>>
env   == <<cancelled, late, inTime, denied, faults>>
frame == <<back, status, taken, control>>
vars  == <<os, env, pc, frame, reaped, disarmed, result>>

Limits   == [stdout |-> "StdoutLimit", stderr |-> "StderrLimit"]
Outcomes == {"Exited", "Cancelled", "TimedOut", "StdoutLimit", "StderrLimit"}
Errors   == {"Invalid", "Spawn", "Reader", "Teardown"}
Returned == pc = "done" /\ result # None

-----------------------------------------------------------------------------
(* Processes and pipes (not code of the repository).                       *)

Ended(p, how) ==
    /\ proc[p] = how
    /\ proc' = [proc EXCEPT ![p] = "zombie"]
    /\ holds' = holds \ {p}

Exit(p) ==
    /\ Ended(p, "alive")
    /\ inTime' = (inTime \/ (p = Leader /\ ~late))
    /\ UNCHANGED <<group, written, got, reader, cancelled, late, denied, faults>>

Die(p) ==
    /\ Ended(p, "dying")
    /\ UNCHANGED <<group, written, got, reader, env>>

\* Somebody else, its parent or init, waits for a descendant.
KidReaped(k) ==
    /\ proc[k] = "zombie"
    /\ proc' = [proc EXCEPT ![k] = "gone"]
    /\ UNCHANGED <<group, holds, written, got, reader, env>>

Fork(p, k) ==
    /\ proc[p] = "alive" /\ proc[k] = None
    /\ proc' = [proc EXCEPT ![k] = "alive"]
    /\ group' = IF p \in group THEN group \cup {k} ELSE group
    /\ holds' = IF p \in holds THEN holds \cup {k} ELSE holds
    /\ UNCHANGED <<written, got, reader, env>>

\* A process leaves the group, by setsid or setpgid, and keeps what it holds. The child may
\* too: process_group(0) makes it the leader of a group and not of a session. Nobody who
\* left comes back.
Leave(p) ==
    /\ proc[p] = "alive" /\ p \in group
    /\ group' = group \ {p}
    /\ UNCHANGED <<proc, holds, written, got, reader, env>>

\* A process redirects its output, as a daemon does.
Redirect(p) ==
    /\ proc[p] = "alive" /\ p \in holds
    /\ holds' = holds \ {p}
    /\ UNCHANGED <<proc, group, written, got, reader, env>>

Write(p, s) ==
    /\ proc[p] = "alive" /\ p \in holds
    /\ written[s] <= Cap
    /\ written' = [written EXCEPT ![s] = @ + 1]
    /\ UNCHANGED <<proc, group, holds, got, reader, env>>

Cancel ==
    /\ ~cancelled /\ cancelled' = TRUE
    /\ UNCHANGED <<os, late, inTime, denied, faults>>

\* The deadline runs from the first pass of the loop and is looked at only there.
Expire ==
    /\ ~late /\ late' = TRUE
    /\ pc \in {"drain", "overflow", "poll", "decide"}
    /\ UNCHANGED <<os, cancelled, inTime, denied, faults>>

-----------------------------------------------------------------------------
(* Reader threads.                                                         *)

\* Mutant: the limit is forgotten, so a reader keeps what comes.
ReadUnbounded(s) ==
    /\ reader[s] = "reading" /\ got[s] < written[s]
    /\ got' = [got EXCEPT ![s] = @ + 1]
    /\ UNCHANGED <<proc, group, holds, written, reader, env>>

\* read_tapped and read_bounded: one byte more than the limit ends the capture.
Read(s) ==
    /\ reader[s] = "reading" /\ got[s] < written[s]
    /\ got' = [got EXCEPT ![s] = @ + 1]
    /\ reader' = [reader EXCEPT ![s] = IF got[s] = Cap THEN "over" ELSE "reading"]
    /\ UNCHANGED <<proc, group, holds, written, env>>

\* End of file: the pipe is empty and nobody holds its write end.
ReadEnd(s) ==
    /\ reader[s] = "reading" /\ got[s] = written[s] /\ holds = {}
    /\ reader' = [reader EXCEPT ![s] = "eof"]
    /\ UNCHANGED <<proc, group, holds, written, got, env>>

ReadError(s) ==
    /\ reader[s] = "reading" /\ faults < MaxFaults
    /\ reader' = [reader EXCEPT ![s] = "error"]
    /\ faults' = faults + 1
    /\ UNCHANGED <<proc, group, holds, written, got, cancelled, late, inTime, denied>>

\* Streams whose message is in the channel.
Sent == {s \in Streams : reader[s] \in {"eof", "over", "error"}} \ taken

-----------------------------------------------------------------------------
(* ChildGuard.                                                             *)

Members == {p \in group : proc[p] \in {"alive", "dying", "zombie"}}

\* group_exists: a zombie nobody waited for counts.
GroupExists == Members # {}

\* try_wait and, where the leader is known to have ended, wait.
Waitable == ~reaped /\ proc[Leader] = "zombie"
AfterWait == IF Waitable THEN [proc EXCEPT ![Leader] = "gone"] ELSE proc
TryWait   == reaped' = (reaped \/ Waitable)

Killed(procs, ps) == [p \in Procs |-> IF p \in ps /\ procs[p] = "alive" THEN "dying" ELSE procs[p]]

\* An error leaves run_with_checkpoint through the Drop of the guard, if there is one.
Raise(kind) ==
    /\ result' = kind
    /\ pc' = IF disarmed THEN "done" ELSE "drop"

Terminate(to) == pc' = "term" /\ back' = to

files == <<group, holds, written, got, reader>>

\* signal_group_until(SIGTERM).
SignalTerm ==
    /\ pc = "term" /\ pc' = "term_wait"
    /\ proc' = AfterWait /\ TryWait
    /\ UNCHANGED <<files, env, frame, disarmed, result>>

\* EPERM is tried again until the deadline of the signal.
SignalDenied ==
    /\ pc \in {"term", "kill"} /\ faults < MaxFaults
    /\ proc' = AfterWait /\ TryWait
    /\ \E p \in group : proc'[p] \in {"alive", "dying", "zombie"}
    /\ faults' = faults + 1
    /\ \/ pc' = pc /\ UNCHANGED result
       \/ Raise("Teardown")
    /\ UNCHANGED <<files, cancelled, late, inTime, denied, frame, disarmed>>

\* The loop between the signals waits for the leader too.
PollTerm ==
    /\ pc = "term_wait" /\ Waitable
    /\ proc' = AfterWait /\ TryWait
    /\ UNCHANGED <<files, env, pc, frame, disarmed, result>>

\* Mutant: no SIGKILL follows the SIGTERM.
GraceEndsGently ==
    /\ pc = "term_wait" /\ pc' = "reap"
    /\ UNCHANGED <<os, env, frame, reaped, disarmed, result>>

\* No member is left, or the grace is over.
GraceEnds ==
    /\ pc = "term_wait" /\ pc' = IF GroupExists THEN "kill" ELSE "reap"
    /\ UNCHANGED <<os, env, frame, reaped, disarmed, result>>

\* signal_group_until(SIGKILL).
SignalKill ==
    /\ pc = "kill" /\ pc' = "reap"
    /\ proc' = Killed(AfterWait, group) /\ TryWait
    /\ UNCHANGED <<files, env, frame, disarmed, result>>

\* reap_leader blocks.
ReapLeader ==
    /\ pc = "reap" /\ pc' = "gone_wait"
    /\ reaped \/ Waitable
    /\ proc' = AfterWait /\ reaped' = TRUE
    /\ UNCHANGED <<files, env, frame, disarmed, result>>

GroupGone ==
    /\ pc = "gone_wait" /\ ~GroupExists
    /\ disarmed' = TRUE /\ pc' = back
    /\ UNCHANGED <<os, env, frame, reaped, result>>

GroupSurvives ==
    /\ pc = "gone_wait" /\ GroupExists
    /\ Raise("Teardown")
    /\ UNCHANGED <<os, env, frame, reaped, disarmed>>

\* Mutant: what the exited leader left behind is not looked for.
FinishTrusting ==
    /\ pc = "finish" /\ pc' = "collect"
    /\ disarmed' = TRUE
    /\ UNCHANGED <<os, env, frame, reaped, result>>

\* finish_after_exit.
Finish ==
    /\ pc = "finish"
    /\ \/ GroupExists /\ Terminate("collect") /\ UNCHANGED disarmed
       \/ ~GroupExists /\ disarmed' = TRUE /\ pc' = "collect" /\ UNCHANGED back
    /\ UNCHANGED <<os, env, status, taken, control, reaped, result>>

\* Mutant: only the child is killed.
DropKillChild ==
    /\ pc = "drop" /\ pc' = "drop_wait"
    /\ proc' = Killed(proc, {Leader})
    /\ UNCHANGED <<files, env, frame, reaped, disarmed, result>>

\* Drop: what it sends may be refused, and nobody is told; the child itself is killed.
DropKill ==
    /\ pc = "drop" /\ pc' = "drop_wait"
    /\ \/ proc' = Killed(proc, group \cup {Leader}) /\ UNCHANGED <<denied, faults>>
       \/ /\ faults < MaxFaults /\ faults' = faults + 1 /\ denied' = TRUE
          /\ proc' = Killed(proc, {Leader})
    /\ UNCHANGED <<files, cancelled, late, inTime, frame, reaped, disarmed, result>>

DropReap ==
    /\ pc = "drop_wait" /\ pc' = "done"
    /\ reaped \/ Waitable
    /\ proc' = AfterWait /\ reaped' = TRUE
    /\ UNCHANGED <<files, env, frame, disarmed, result>>

-----------------------------------------------------------------------------
(* run_with_checkpoint.                                                    *)

\* ProcessSpec::validate and SupervisorLimits::validate, then the first checkpoint.
Refuse ==
    /\ pc = "begin" /\ pc' = "done"
    /\ result' \in {"Invalid"} \cup (IF cancelled THEN {"Cancelled"} ELSE {})
    /\ UNCHANGED <<os, env, frame, reaped, disarmed>>

Accept ==
    /\ pc = "begin" /\ ~cancelled /\ pc' = "spawn"
    /\ UNCHANGED <<os, env, frame, reaped, disarmed, result>>

Spawn ==
    /\ pc = "spawn" /\ pc' = "readers"
    /\ proc' = [proc EXCEPT ![Leader] = "alive"]
    /\ group' = {Leader}
    /\ holds' = {Leader}
    /\ UNCHANGED <<written, got, reader, env, frame, reaped, disarmed, result>>

SpawnFails ==
    /\ pc = "spawn" /\ pc' = "done" /\ result' = "Spawn"
    /\ faults < MaxFaults /\ faults' = faults + 1
    /\ UNCHANGED <<os, cancelled, late, inTime, denied, frame, reaped, disarmed>>

StartReaders ==
    /\ pc = "readers" /\ pc' = "drain"
    /\ reader' = [s \in Streams |-> "reading"]
    /\ UNCHANGED <<proc, group, holds, written, got, env, frame, reaped, disarmed, result>>

StartReadersFails ==
    /\ pc = "readers" /\ Raise("Spawn")
    /\ faults < MaxFaults /\ faults' = faults + 1
    /\ UNCHANGED <<os, cancelled, late, inTime, denied, frame, reaped, disarmed>>

\* Captures::overflow: stdout first.
Over(s) == s \in taken /\ reader[s] = "over"
Overflow == IF Over("stdout") THEN Limits.stdout
            ELSE IF Over("stderr") THEN Limits.stderr ELSE None

Complete == taken = Streams

MessageError == \E s \in Sent : reader[s] = "error"

\* drain_reader_messages at the head of the loop.
Drain ==
    /\ pc = "drain" /\ ~MessageError
    /\ taken' = taken \cup Sent /\ pc' = "overflow"
    /\ UNCHANGED <<os, env, back, status, control, reaped, disarmed, result>>

DrainFails ==
    /\ pc = "drain" /\ MessageError /\ Raise("Reader")
    /\ UNCHANGED <<os, env, frame, reaped, disarmed>>

\* A limit, then the checkpoint.
Interrupted ==
    /\ pc = "overflow" /\ (Overflow # None \/ cancelled)
    /\ control' = IF Overflow # None THEN Overflow ELSE "Cancelled"
    /\ Terminate("collect")
    /\ UNCHANGED <<os, env, status, taken, reaped, disarmed, result>>

Undisturbed ==
    /\ pc = "overflow" /\ Overflow = None /\ ~cancelled /\ pc' = "poll"
    /\ UNCHANGED <<os, env, frame, reaped, disarmed, result>>

\* guard.try_wait() before the deadline is looked at.
Poll ==
    /\ pc = "poll" /\ pc' = "decide"
    /\ status' = (status \/ Waitable)
    /\ proc' = AfterWait /\ TryWait
    /\ UNCHANGED <<files, env, back, taken, control, disarmed, result>>

DecideLate ==
    /\ pc = "decide" /\ late
    /\ control' = "TimedOut" /\ Terminate("collect")
    /\ UNCHANGED <<os, env, status, taken, reaped, disarmed, result>>

\* The leader has exited. If descendants still hold its pipes they are terminated.
DecideExited ==
    /\ pc = "decide" /\ ~late /\ status
    /\ IF Complete THEN pc' = "finish" /\ UNCHANGED back ELSE Terminate("finish")
    /\ UNCHANGED <<os, env, status, taken, control, reaped, disarmed, result>>

DecideAgain ==
    /\ pc = "decide" /\ ~late /\ ~status /\ pc' = "drain"
    /\ UNCHANGED <<os, env, frame, reaped, disarmed, result>>

\* collect_readers takes the messages one by one, each within the same deadline.
Collect(s) ==
    /\ pc = "collect" /\ s \in Sent
    /\ IF reader[s] = "error"
       THEN Raise("Reader") /\ UNCHANGED taken
       ELSE taken' = taken \cup {s} /\ UNCHANGED <<pc, result>>
    /\ UNCHANGED <<os, env, back, status, control, reaped, disarmed>>

\* Mutant: when time is up, what was read so far is the capture.
CollectPartial ==
    /\ pc = "collect" /\ ~Complete /\ taken' = Streams
    /\ UNCHANGED <<os, env, pc, back, status, control, reaped, disarmed, result>>

CollectExpires ==
    /\ pc = "collect" /\ ~Complete /\ Raise("Teardown")
    /\ UNCHANGED <<os, env, frame, reaped, disarmed>>

\* Mutant: the reason of the teardown is told before the captures are looked at again.
ReturnControl ==
    /\ pc = "collect" /\ Complete /\ pc' = "done"
    /\ result' = IF control # None THEN control
                 ELSE IF Overflow # None THEN Overflow
                 ELSE IF status THEN "Exited" ELSE "Teardown"
    /\ UNCHANGED <<os, env, frame, reaped, disarmed>>

\* The end of supervise. The guard is disarmed, so its Drop does nothing.
Return ==
    /\ pc = "collect" /\ Complete /\ pc' = "done"
    /\ result' = IF Overflow # None THEN Overflow
                 ELSE IF control # None THEN control
                 ELSE IF status THEN "Exited" ELSE "Teardown"
    /\ UNCHANGED <<os, env, frame, reaped, disarmed>>

-----------------------------------------------------------------------------
Init ==
    /\ proc = [p \in Procs |-> None] /\ group = {} /\ holds = {}
    /\ written = [s \in Streams |-> 0] /\ got = [s \in Streams |-> 0]
    /\ reader = [s \in Streams |-> "off"]
    /\ cancelled = FALSE /\ late = FALSE /\ inTime = FALSE /\ denied = FALSE /\ faults = 0
    /\ pc = "begin" /\ back = "collect" /\ status = FALSE /\ taken = {} /\ control = None
    /\ reaped = FALSE /\ disarmed = FALSE /\ result = None

Supervise ==
    \/ Refuse \/ Accept \/ Spawn \/ SpawnFails \/ StartReaders \/ StartReadersFails
    \/ Drain \/ DrainFails \/ Interrupted \/ Undisturbed
    \/ Poll \/ DecideLate \/ DecideExited \/ DecideAgain
    \/ SignalTerm \/ SignalDenied \/ PollTerm \/ GraceEnds \/ SignalKill
    \/ ReapLeader \/ GroupGone \/ GroupSurvives \/ Finish
    \/ \E s \in Streams : Collect(s)
    \/ CollectExpires \/ Return \/ DropKill \/ DropReap

\* Whatever happens elsewhere leaves the supervising thread where it is.
Elsewhere(A) == A /\ pc # "done" /\ UNCHANGED <<pc, frame, reaped, disarmed, result>>

Outside ==
    \/ \E p \in Procs : Elsewhere(Exit(p)) \/ Elsewhere(Die(p))
                      \/ Elsewhere(Redirect(p)) \/ Elsewhere(Leave(p))
    \/ \E k \in Kids : Elsewhere(KidReaped(k))
    \/ \E p \in Procs, k \in Kids : Elsewhere(Fork(p, k))
    \/ \E p \in Procs, s \in Streams : Elsewhere(Write(p, s))
    \/ \E s \in Streams : Elsewhere(Read(s)) \/ Elsewhere(ReadEnd(s)) \/ Elsewhere(ReadError(s))
    \/ Elsewhere(Cancel) \/ Elsewhere(Expire)

Next == Supervise \/ Outside

Spec == Init /\ [][Next]_vars

\* The supervising thread is scheduled, the deadline comes, and SIGKILL works. The readers
\* and the processes are obliged to nothing.
FairSpec == /\ Spec
            /\ WF_vars(Supervise)
            /\ WF_vars(Elsewhere(Expire))
            /\ \A p \in Procs : WF_vars(Elsewhere(Die(p)))

-----------------------------------------------------------------------------
TypeOK ==
    /\ proc \in [Procs -> {None, "alive", "dying", "zombie", "gone"}]
    /\ group \subseteq Procs /\ holds \subseteq Procs
    /\ written \in [Streams -> 0 .. Cap + 1] /\ got \in [Streams -> 0 .. Cap + 1]
    /\ reader \in [Streams -> {"off", "reading", "eof", "over", "error"}]
    /\ \A s \in Streams : got[s] <= written[s] /\ (reader[s] = "over" <=> got[s] > Cap)
    /\ {cancelled, late, inTime, denied, status, reaped, disarmed} \subseteq BOOLEAN
    /\ faults \in 0 .. MaxFaults
    /\ pc \in {"begin", "spawn", "readers", "drain", "overflow", "poll", "decide", "finish", "term",
               "term_wait", "kill", "reap", "gone_wait", "collect", "drop", "drop_wait", "done"}
    /\ back \in {"finish", "collect"} /\ taken \subseteq Streams
    /\ control \in Outcomes \cup {None} /\ result \in Outcomes \cup Errors \cup {None}

\* docs/runtime.md: "descendant teardown, direct-child reaping, and a drop guard".  When an
\* outcome is returned, whatever it is, the leader has been waited for and its group has
\* no member left, not even a zombie.
GroupEnded == Returned /\ result \in Outcomes => proc[Leader] \in {None, "gone"} /\ Members = {}

\* An early return of an error goes through Drop: the leader has been waited for, and
\* whoever is still in the group is already killed, unless the system refused the signal of
\* Drop, which ignores the answer.
DropEnds ==
    Returned /\ result \in Errors =>
        /\ proc[Leader] \in {None, "gone"}
        /\ denied \/ \A p \in group : proc[p] # "alive"

\* Exited is said only of a leader that ended by itself before the deadline, and then with
\* everything that it and its descendants wrote: nobody can write any more, and what was
\* written was read and fits the limits.
CaptureWhole ==
    result = "Exited" =>
        /\ inTime
        /\ holds = {}
        /\ \A s \in Streams : got[s] = written[s] /\ written[s] <= Cap

\* A run that wrote more than it may is told as such even when it is cancelled or late at
\* the same time, stdout before stderr, and no other run is.
LimitsTold ==
    /\ result \in {"Exited", "Cancelled", "TimedOut"} => \A s \in Streams : got[s] <= Cap
    /\ result = "StdoutLimit" => got["stdout"] > Cap
    /\ result = "StderrLimit" => got["stderr"] > Cap /\ got["stdout"] <= Cap

Escaped == proc[Leader] = "alive" /\ Leader \notin group

\* run_with_checkpoint returns, whatever descendants and readers do or omit, as long as the
\* child itself stays in its process group: reap_leader waits for it without a limit, and
\* terminate signals the group only.
Returns == <>(pc = "done") \/ <>[]Escaped

\* supervisor/tests.rs: "`terminate` spends up to `3 * TEARDOWN_GRACE` (SIGTERM, SIGKILL,
\* gone)", and it "returns the instant the group disappears".
TeardownEnds == pc = "term" ~> pc \notin {"term", "term_wait", "kill", "reap", "gone_wait"}

\* unix.rs: "A child that exited just before the deadline but has not been polled yet would
\* otherwise be killed and reported as a timeout, which misclassifies a completion as a
\* deadline."
ExitBeatsDeadline == result = "TimedOut" => ~inTime
=============================================================================
