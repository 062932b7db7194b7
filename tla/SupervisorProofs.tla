-------------------------- MODULE SupervisorProofs --------------------------
(***************************************************************************)
(* For any number of descendants, any limit and any number of faults: an   *)
(* outcome leaves nobody of the process group behind, and an error leaves  *)
(* nobody of it unkilled. The argument is about what the guard knows:      *)
(* disarmed is set only after the leader was waited for and the group was  *)
(* seen empty, and an empty group stays empty, because only its members    *)
(* can fork into it.                                                       *)
(***************************************************************************)
EXTENDS Supervisor, TLAPS

\* Nothing was ever started.
Unstarted == group = {} /\ \A p \in Procs : proc[p] = None

\* The group has no member that was not killed.
NoneAlive == \A p \in group : proc[p] # "alive"

Types ==
    /\ proc \in [Procs -> {None, "alive", "dying", "zombie", "gone"}]
    /\ group \subseteq Procs
    /\ reaped \in BOOLEAN /\ disarmed \in BOOLEAN /\ status \in BOOLEAN /\ denied \in BOOLEAN
    /\ control \in Outcomes \cup {None}
    /\ back \in {"finish", "collect"}

\* What the guard knows of the processes.
Guarded ==
    /\ \A p \in group : proc[p] # None
    /\ reaped <=> proc[Leader] = "gone"
    /\ disarmed => reaped /\ Members = {}

\* Where the supervising thread is, it has established this.
Placed ==
    /\ pc \in {"begin", "spawn"} => Unstarted /\ ~disarmed
    /\ status => reaped
    /\ pc = "finish" \/ back = "finish" => status
    /\ pc = "gone_wait" => reaped
    /\ pc = "collect" => disarmed
    /\ pc = "drop_wait" => denied \/ NoneAlive

\* What a result says.
Told ==
    /\ result = None <=> pc \notin {"drop", "drop_wait", "done"}
    /\ result \in Outcomes => pc = "done" /\ (disarmed \/ Unstarted)
    /\ pc = "done" => Unstarted \/ (reaped /\ (denied \/ NoneAlive))

IInv == Types /\ Guarded /\ Placed /\ Told

-----------------------------------------------------------------------------
\* Nothing is started and nothing is told at first.
LEMMA InitIInv == Init => IInv
BY DEF Init, IInv, Types, Guarded, Placed, Told, Unstarted, Members, Outcomes, None, Procs, Leader

\* The steps of the supervising thread.
LEMMA SuperviseIInv == IInv /\ Supervise => IInv'
<1> SUFFICES ASSUME IInv, Supervise PROVE IInv'
    OBVIOUS
<1> USE DEF IInv, Types, Guarded, Placed, Told, Unstarted, NoneAlive, Members, None,
            Procs, os, env, frame, files
<1>1. CASE Refuse
    BY <1>1 DEF Refuse, Outcomes, Errors
<1>2. CASE Accept
    BY <1>2 DEF Accept
<1>3. CASE Spawn
    BY <1>3 DEF Spawn
<1>4. CASE SpawnFails
    BY <1>4 DEF SpawnFails, Outcomes
<1>5. CASE StartReaders
    BY <1>5 DEF StartReaders
<1>6. CASE StartReadersFails
    BY <1>6 DEF StartReadersFails, Raise, Outcomes
<1>7. CASE Drain
    BY <1>7 DEF Drain
<1>8. CASE DrainFails
    BY <1>8 DEF DrainFails, Raise, Outcomes
<1>9. CASE Interrupted
    BY <1>9 DEF Interrupted, Terminate, Outcomes, Overflow, Limits
<1>10. CASE Undisturbed
    BY <1>10 DEF Undisturbed
<1>11. CASE Poll
    BY <1>11 DEF Poll, Waitable, AfterWait, TryWait
<1>12. CASE DecideLate
    BY <1>12 DEF DecideLate, Terminate, Outcomes
<1>13. CASE DecideExited
    BY <1>13 DEF DecideExited, Terminate
<1>14. CASE DecideAgain
    BY <1>14 DEF DecideAgain
<1>15. CASE SignalTerm
    BY <1>15 DEF SignalTerm, Waitable, AfterWait, TryWait
<1>16. CASE SignalDenied
    BY <1>16 DEF SignalDenied, Waitable, AfterWait, TryWait, Raise, Outcomes
<1>17. CASE PollTerm
    BY <1>17 DEF PollTerm, Waitable, AfterWait, TryWait
<1>18. CASE GraceEnds
    BY <1>18 DEF GraceEnds, GroupExists
<1>19. CASE SignalKill
    BY <1>19 DEF SignalKill, Waitable, AfterWait, TryWait, Killed
<1>20. CASE ReapLeader
    BY <1>20 DEF ReapLeader, Waitable, AfterWait
<1>21. CASE GroupGone
    BY <1>21 DEF GroupGone, GroupExists
<1>22. CASE GroupSurvives
    BY <1>22 DEF GroupSurvives, GroupExists, Raise, Outcomes
<1>23. CASE Finish
  <2>0. UNCHANGED <<proc, group, reaped, status, denied, control, result>> /\ pc = "finish"
    BY <1>23 DEF Finish
  <2>1. CASE GroupExists /\ Terminate("collect") /\ UNCHANGED disarmed
    BY <2>0, <2>1 DEF Terminate
  <2>2. CASE Members = {} /\ disarmed' = TRUE /\ pc' = "collect" /\ UNCHANGED back
    <3>1. reaped
      BY <2>0
    <3>2. Types' /\ Guarded'
      BY <2>0, <2>2, <3>1
    <3>3. Placed' /\ Told'
      BY <2>0, <2>2, <3>1
    <3> QED
      BY <3>2, <3>3
  <2> QED
    BY <1>23, <2>1, <2>2 DEF Finish, GroupExists
<1>24. CASE \E s \in Streams : Collect(s)
    BY <1>24 DEF Collect, Raise, Outcomes
<1>25. CASE CollectExpires
    BY <1>25 DEF CollectExpires, Raise, Outcomes
<1>26. CASE Return
    BY <1>26 DEF Return, Outcomes, Overflow, Limits
<1>27. CASE DropKill
    BY <1>27 DEF DropKill, Killed
<1>28. CASE DropReap
    BY <1>28 DEF DropReap, Waitable, AfterWait
<1> QED
    BY <1>1, <1>2, <1>3, <1>4, <1>5, <1>6, <1>7, <1>8, <1>9, <1>10, <1>11, <1>12, <1>13,
       <1>14, <1>15, <1>16, <1>17, <1>18, <1>19, <1>20, <1>21, <1>22, <1>23, <1>24,
       <1>25, <1>26, <1>27, <1>28 DEF Supervise

\* The steps of the processes, of the readers and of time leave the guard alone.
LEMMA OutsideIInv == IInv /\ Outside => IInv'
<1> SUFFICES ASSUME IInv, Outside PROVE IInv'
    OBVIOUS
<1> USE DEF IInv, Types, Guarded, Placed, Told, Unstarted, NoneAlive, Members, None,
            Procs, os, env, frame, Elsewhere
<1>1. ASSUME NEW p \in Procs, Elsewhere(Exit(p)) PROVE IInv'
    BY <1>1 DEF Exit, Ended
<1>2. ASSUME NEW p \in Procs, Elsewhere(Die(p)) PROVE IInv'
    BY <1>2 DEF Die, Ended
<1>3. ASSUME NEW p \in Procs, Elsewhere(Redirect(p)) PROVE IInv'
    BY <1>3 DEF Redirect
<1>4. ASSUME NEW k \in Kids, Elsewhere(KidReaped(k)) PROVE IInv'
    BY <1>4, SupervisorAssumption DEF KidReaped
<1>5. ASSUME NEW p \in Procs, Elsewhere(Leave(p)) PROVE IInv'
    BY <1>5 DEF Leave
<1>6. ASSUME NEW p \in Procs, NEW k \in Kids, Elsewhere(Fork(p, k)) PROVE IInv'
    BY <1>6, SupervisorAssumption DEF Fork
<1>7. ASSUME NEW p \in Procs, NEW s \in Streams, Elsewhere(Write(p, s)) PROVE IInv'
    BY <1>7 DEF Write
<1>8. ASSUME NEW s \in Streams, Elsewhere(Read(s)) \/ Elsewhere(ReadEnd(s)) \/ Elsewhere(ReadError(s))
      PROVE  IInv'
    BY <1>8 DEF Read, ReadEnd, ReadError
<1>9. CASE Elsewhere(Cancel) \/ Elsewhere(Expire)
    BY <1>9 DEF Cancel, Expire
<1> QED
    BY <1>1, <1>2, <1>3, <1>4, <1>5, <1>6, <1>7, <1>8, <1>9 DEF Outside

\* IInv is an invariant of every behaviour.
THEOREM SupervisorInductive == Spec => []IInv
<1>1. IInv /\ [Next]_vars => IInv'
  <2> SUFFICES ASSUME IInv, [Next]_vars PROVE IInv'
    OBVIOUS
  <2>1. CASE UNCHANGED vars
    BY <2>1 DEF vars, os, env, frame, IInv, Types, Guarded, Placed, Told, Unstarted,
                NoneAlive, Members
  <2> QED
    BY <2>1, SuperviseIInv, OutsideIInv DEF Next
<1> QED
    BY <1>1, InitIInv, PTL DEF Spec

\* Whatever outcome run_with_checkpoint returns, the child has been waited for and nobody
\* of its process group is left, for any number of descendants and of faults.
THEOREM GroupEndedAlways == Spec => []GroupEnded
<1>1. IInv => GroupEnded
    BY DEF IInv, Types, Guarded, Placed, Told, Unstarted, Members, GroupEnded, Returned, Procs
<1> QED
    BY <1>1, SupervisorInductive, PTL

\* Whatever error it returns, the child has been waited for and whoever of its group is
\* left has been killed, unless the system refused the signal of Drop.
THEOREM DropEndsAlways == Spec => []DropEnds
<1>1. IInv => DropEnds
    BY DEF IInv, Types, Guarded, Placed, Told, Unstarted, NoneAlive, DropEnds, Returned, Procs
<1> QED
    BY <1>1, SupervisorInductive, PTL

-----------------------------------------------------------------------------
(* What was captured.                                                      *)

CaptureTypes ==
    /\ proc \in [Procs -> {None, "alive", "dying", "zombie", "gone"}]
    /\ written \in [Streams -> Nat] /\ got \in [Streams -> Nat]
    /\ reader \in [Streams -> {"off", "reading", "eof", "over", "error"}]
    /\ taken \subseteq Streams
    /\ back \in {"finish", "collect"}
    /\ inTime \in BOOLEAN /\ late \in BOOLEAN /\ status \in BOOLEAN /\ reaped \in BOOLEAN

\* What the end of a reader says of its pipe. At the end of file nobody holds the pipe,
\* and nobody can get hold of it again.
Readers ==
    /\ \A s \in Streams :
          /\ reader[s] = "off" => got[s] = 0
          /\ reader[s] = "over" <=> got[s] > Cap
          /\ reader[s] = "eof" => got[s] = written[s] /\ holds = {}
    /\ \A s \in taken : reader[s] \in {"eof", "over"}
    /\ pc \in {"begin", "spawn", "readers"} => \A s \in Streams : reader[s] = "off"

Polling == {"readers", "drain", "overflow", "poll", "decide"}

\* While the loop runs nobody is killed, so an end of the leader before the deadline is its
\* own; the loop is left without a reason only on such an end.
Timely ==
    /\ pc \in {"begin", "spawn"} => proc[Leader] = None /\ control = None /\ ~status
    /\ pc \in Polling => proc[Leader] # "dying" /\ control = None
    /\ pc \in Polling /\ proc[Leader] \in {"zombie", "gone"} => inTime \/ late
    /\ pc \in Polling /\ status => proc[Leader] = "gone"
    /\ pc \in {"finish", "term", "term_wait", "kill", "reap", "gone_wait", "collect"} /\ control = None
          => inTime

\* A limit is a reason only when it was seen.
Reasons ==
    /\ control = "StdoutLimit" => Over("stdout")
    /\ control = "StderrLimit" => Over("stderr")
    /\ control # "Exited"
    /\ result \in Outcomes => pc = "done"

CInv == CaptureTypes /\ Readers /\ Timely /\ Reasons /\ CaptureWhole /\ LimitsTold

\* Nothing is read at first.
LEMMA InitCInv == Init => CInv
<1> SUFFICES ASSUME Init PROVE CInv
    OBVIOUS
<1> USE SupervisorAssumption DEF Init, None, Streams
<1>1. CaptureTypes
    BY DEF CaptureTypes, Procs, Leader
<1>2. Readers
    BY DEF Readers
<1>3. Timely
    BY DEF Timely, Polling, Procs
<1>4. Reasons /\ CaptureWhole /\ LimitsTold
    BY DEF Reasons, CaptureWhole, LimitsTold, Outcomes
<1> QED
    BY <1>1, <1>2, <1>3, <1>4 DEF CInv

\* The steps of the supervising thread.
LEMMA SuperviseCInv == CInv /\ Supervise => CInv'
<1> SUFFICES ASSUME CInv, Supervise PROVE CInv'
    OBVIOUS
<1> USE SupervisorAssumption DEF CInv, CaptureTypes, Readers, Timely, Reasons, CaptureWhole, LimitsTold,
        Over, Polling, Outcomes, None, Procs, Leader, Streams, os, env, frame, files
<1>1. CASE Refuse
    BY <1>1 DEF Refuse
<1>2. CASE Accept
    BY <1>2 DEF Accept
<1>3. CASE Spawn
  <2>1. CaptureTypes'
    BY <1>3 DEF Spawn
  <2>2. Readers'
    BY <1>3 DEF Spawn
  <2>3. Timely'
    BY <1>3 DEF Spawn
  <2>4. Reasons'
    BY <1>3 DEF Spawn
  <2>5. CaptureWhole' /\ LimitsTold'
    BY <1>3 DEF Spawn
  <2> QED
    BY <2>1, <2>2, <2>3, <2>4, <2>5
<1>4. CASE SpawnFails
    BY <1>4 DEF SpawnFails
<1>5. CASE StartReaders
    BY <1>5 DEF StartReaders
<1>6. CASE StartReadersFails
    BY <1>6 DEF StartReadersFails, Raise
<1>7. CASE Drain
    BY <1>7 DEF Drain, Sent, MessageError, Over
<1>8. CASE DrainFails
    BY <1>8 DEF DrainFails, Raise
<1>9. CASE Interrupted
    BY <1>9 DEF Interrupted, Terminate, Overflow, Limits, Over
<1>10. CASE Undisturbed
    BY <1>10 DEF Undisturbed
<1>11. CASE Poll
    BY <1>11 DEF Poll, Waitable, AfterWait, TryWait
<1>12. CASE DecideLate
    BY <1>12 DEF DecideLate, Terminate
<1>13. CASE DecideExited
    BY <1>13 DEF DecideExited, Terminate
<1>14. CASE DecideAgain
    BY <1>14 DEF DecideAgain
<1>15. CASE SignalTerm
    BY <1>15 DEF SignalTerm, Waitable, AfterWait, TryWait
<1>16. CASE SignalDenied
    BY <1>16 DEF SignalDenied, Waitable, AfterWait, TryWait, Raise
<1>17. CASE PollTerm
    BY <1>17 DEF PollTerm, Waitable, AfterWait, TryWait
<1>18. CASE GraceEnds
    BY <1>18 DEF GraceEnds
<1>19. CASE SignalKill
    BY <1>19 DEF SignalKill, Waitable, AfterWait, TryWait, Killed
<1>20. CASE ReapLeader
    BY <1>20 DEF ReapLeader, Waitable, AfterWait
<1>21. CASE GroupGone
    BY <1>21 DEF GroupGone
<1>22. CASE GroupSurvives
    BY <1>22 DEF GroupSurvives, Raise
<1>23. CASE Finish
    BY <1>23 DEF Finish, Terminate
<1>24. ASSUME NEW s \in Streams, Collect(s) PROVE CInv'
  <2>0. UNCHANGED <<proc, written, got, reader, holds, back, control, status, inTime, late, reaped>>
    BY <1>24 DEF Collect
  <2>1. CASE reader[s] = "error"
    <3>1. taken' = taken /\ result' = "Reader" /\ pc' \in {"done", "drop"}
      BY <1>24, <2>1 DEF Collect, Raise
    <3> QED
      BY <2>0, <3>1
  <2>2. CASE reader[s] # "error"
    <3>1. /\ taken' = taken \cup {s} /\ pc' = pc /\ result' = result /\ pc = "collect"
          /\ reader[s] \in {"eof", "over"}
      BY <1>24, <2>2 DEF Collect, Sent
    <3>2. CaptureTypes'
      BY <2>0, <3>1
    <3>3. Readers'
      BY <2>0, <3>1
    <3>4. Timely' /\ Reasons' /\ CaptureWhole' /\ LimitsTold'
      BY <2>0, <3>1
    <3> QED
      BY <3>2, <3>3, <3>4
  <2> QED
    BY <2>1, <2>2
<1>25. CASE CollectExpires
    BY <1>25 DEF CollectExpires, Raise
<1>26. CASE Return
    BY <1>26 DEF Return, Overflow, Limits, Complete
<1>27. CASE DropKill
    BY <1>27 DEF DropKill, Killed
<1>28. CASE DropReap
    BY <1>28 DEF DropReap, Waitable, AfterWait
<1> QED
    BY <1>1, <1>2, <1>3, <1>4, <1>5, <1>6, <1>7, <1>8, <1>9, <1>10, <1>11, <1>12, <1>13,
       <1>14, <1>15, <1>16, <1>17, <1>18, <1>19, <1>20, <1>21, <1>22, <1>23, <1>24,
       <1>25, <1>26, <1>27, <1>28 DEF Supervise

\* The steps of the processes, of the readers and of time.
LEMMA OutsideCInv == CInv /\ Outside => CInv'
<1> SUFFICES ASSUME CInv, Outside PROVE CInv'
    OBVIOUS
<1> USE SupervisorAssumption DEF CInv, CaptureTypes, Readers, Timely, Reasons, CaptureWhole, LimitsTold,
        Over, Polling, Outcomes, None, Procs, Leader, Streams, os, env, frame, Elsewhere
<1>1. ASSUME NEW p \in Procs, Elsewhere(Exit(p)) PROVE CInv'
  <2>1. CaptureTypes'
    BY <1>1 DEF Exit, Ended
  <2>2. Readers'
    BY <1>1 DEF Exit, Ended
  <2>3. Timely'
    BY <1>1 DEF Exit, Ended
  <2>4. Reasons'
    BY <1>1 DEF Exit, Ended
  <2>5. CaptureWhole' /\ LimitsTold'
    BY <1>1 DEF Exit, Ended
  <2> QED
    BY <2>1, <2>2, <2>3, <2>4, <2>5
<1>2. ASSUME NEW p \in Procs, Elsewhere(Die(p)) PROVE CInv'
    BY <1>2 DEF Die, Ended
<1>3. ASSUME NEW p \in Procs, Elsewhere(Redirect(p)) PROVE CInv'
    BY <1>3 DEF Redirect
<1>4. ASSUME NEW k \in Kids, Elsewhere(KidReaped(k)) PROVE CInv'
    BY <1>4 DEF KidReaped
<1>5. ASSUME NEW p \in Procs, Elsewhere(Leave(p)) PROVE CInv'
    BY <1>5 DEF Leave
<1>6. ASSUME NEW p \in Procs, NEW k \in Kids, Elsewhere(Fork(p, k)) PROVE CInv'
    BY <1>6 DEF Fork
<1>7. ASSUME NEW p \in Procs, NEW s \in Streams, Elsewhere(Write(p, s)) PROVE CInv'
    BY <1>7 DEF Write
<1>8. ASSUME NEW s \in Streams, Elsewhere(Read(s)) PROVE CInv'
  <2>1. CaptureTypes'
    BY <1>8 DEF Read
  <2>2. Readers'
    BY <1>8 DEF Read
  <2>3. Timely'
    BY <1>8 DEF Read
  <2>4. Reasons'
    BY <1>8 DEF Read
  <2>5. CaptureWhole' /\ LimitsTold'
    BY <1>8 DEF Read
  <2> QED
    BY <2>1, <2>2, <2>3, <2>4, <2>5
<1>9. ASSUME NEW s \in Streams, Elsewhere(ReadEnd(s)) PROVE CInv'
    BY <1>9 DEF ReadEnd
<1>10. ASSUME NEW s \in Streams, Elsewhere(ReadError(s)) PROVE CInv'
    BY <1>10 DEF ReadError
<1>11. CASE Elsewhere(Cancel) \/ Elsewhere(Expire)
  <2>1. CaptureTypes'
    BY <1>11 DEF Cancel, Expire
  <2>2. Readers'
    BY <1>11 DEF Cancel, Expire
  <2>3. Timely'
    BY <1>11 DEF Cancel, Expire
  <2>4. Reasons'
    BY <1>11 DEF Cancel, Expire
  <2>5. CaptureWhole' /\ LimitsTold'
    BY <1>11 DEF Cancel, Expire
  <2> QED
    BY <2>1, <2>2, <2>3, <2>4, <2>5
<1> QED
    BY <1>1, <1>2, <1>3, <1>4, <1>5, <1>6, <1>7, <1>8, <1>9, <1>10, <1>11 DEF Outside

\* CInv is an invariant of every behaviour.
THEOREM CaptureInductive == Spec => []CInv
<1>1. CInv /\ [Next]_vars => CInv'
  <2> SUFFICES ASSUME CInv, [Next]_vars PROVE CInv'
    OBVIOUS
  <2>1. CASE UNCHANGED vars
    BY <2>1 DEF vars, os, env, frame, CInv, CaptureTypes, Readers, Timely, Reasons,
                CaptureWhole, LimitsTold, Over, Outcomes
  <2> QED
    BY <2>1, SuperviseCInv, OutsideCInv DEF Next
<1> QED
    BY <1>1, InitCInv, PTL DEF Spec

\* Exited comes with the whole output of a leader that ended in time.
THEOREM CaptureWholeAlways == Spec => []CaptureWhole
<1>1. CInv => CaptureWhole
    BY DEF CInv
<1> QED
    BY <1>1, CaptureInductive, PTL

\* Outcomes and limits agree.
THEOREM LimitsToldAlways == Spec => []LimitsTold
<1>1. CInv => LimitsTold
    BY DEF CInv
<1> QED
    BY <1>1, CaptureInductive, PTL

=============================================================================
