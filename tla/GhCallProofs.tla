---------------------------- MODULE GhCallProofs ----------------------------
(***************************************************************************)
(* Proofs about GhCall for any number of calls and process ids.            *)
(***************************************************************************)
EXTENDS GhCall, TLAPS

------------------------------------------------------------------------------
(* The inductive invariant.                                                 *)

\* No two children that are there share a process id.
PidInv == \A c, d \in Unreaped : pid[c] = pid[d] => c = d

\* A call that has not begun has no worker, one that is not over no reaper.
CallerInv ==
  \A c \in Calls :
    /\ caller[c] = "idle" => worker[c] = "idle"
    /\ reaper[c] # "none" => caller[c] = "timed_out"

\* What the worker's place says of its child.
ChildInv ==
  \A c \in Calls :
    /\ worker[c] \in {"idle", "check", "popen"} => child[c] = "none"
    /\ worker[c] \in {"forked", "publish", "read", "kill", "wait", "waiting"} => child[c] # "none"
    /\ worker[c] \in {"end", "done"} => child[c] \in {"none", "reaped"}
    /\ c \in removed => worker[c] = "done"

\* A published handle has a child; a reaper exists only for a call that was
\* cancelled after its worker had published one.
ReaperInv ==
  \A c \in Calls :
    /\ c \in handle => child[c] # "none"
    /\ worker[c] = "read" => c \in handle
    /\ reaper[c] # "none" => c \in cancelled /\ child[c] # "none"

GhInv == PidInv /\ ChildInv /\ ReaperInv /\ OnlyOwnChild /\ NoReaderLeftBehind

------------------------------------------------------------------------------
(* Types                                                                    *)

LEMMA InitTypeOK == Init => TypeOK
  BY DEF Init, TypeOK, WorkerPc, Unreaped

LEMMA InitCallerInv == Init => CallerInv
  BY DEF Init, CallerInv

\* A killer's step, seen from the worker and from the reaper.
LEMMA MoveFacts ==
  ASSUME TypeOK, NEW c \in Calls, NEW who \in {"worker", "reaper"},
         NEW pc \in {"wait", "waiting", "end"}, Move(c, who, pc)
  PROVE  /\ who = "worker" => worker' = [worker EXCEPT ![c] = pc] /\ reaper' = reaper
         /\ who = "reaper" => reaper' = [reaper EXCEPT ![c] = pc] /\ worker' = worker
         /\ worker' \in [Calls -> WorkerPc]
         /\ reaper' \in [Calls -> {"none", "kill", "wait", "waiting", "end"}]
  BY DEF Move, TypeOK, WorkerPc

LEMMA NextCallerInv == TypeOK /\ CallerInv /\ [Next]_vars => CallerInv'
<1> SUFFICES ASSUME TypeOK, CallerInv, [Next]_vars, NEW c \in Calls
             PROVE  /\ caller'[c] = "idle" => worker'[c] = "idle"
                    /\ reaper'[c] # "none" => caller'[c] = "timed_out"
  BY DEF CallerInv
<1>1. ASSUME NEW d \in Calls, Start(d) \/ CallerStep(d)
      PROVE  /\ caller'[c] = "idle" => worker'[c] = "idle"
             /\ reaper'[c] # "none" => caller'[c] = "timed_out"
  BY <1>1 DEF CallerInv, Start, CallerStep, Answer, Deadline, Cancel, TypeOK
<1>2. ASSUME NEW d \in Calls, NEW who \in {"worker", "reaper"}, Killing(d, who)
      PROVE  /\ caller'[c] = "idle" => worker'[c] = "idle"
             /\ reaper'[c] # "none" => caller'[c] = "timed_out"
  BY <1>2 DEF CallerInv, Killing, Kill, Wait, Reap, AlreadyReaped, At, Move, TypeOK
<1>3. ASSUME ~(\E d \in Calls : Start(d) \/ CallerStep(d)),
             ~(\E d \in Calls, who \in {"worker", "reaper"} : Killing(d, who))
      PROVE  UNCHANGED <<caller, reaper>> /\ (worker[c] = "idle" => worker'[c] = "idle")
  BY <1>3
  DEF Next, vars, WorkerStep, CheckCancelled, Publish, Read, ReadTimeout, Finish, Fork,
      PopenFails, PopenReturns, Exit, Goto, TypeOK
<1>4. QED
  BY <1>1, <1>2, <1>3 DEF CallerInv

LEMMA NextTypeOK == TypeOK /\ CallerInv /\ [Next]_vars => TypeOK'
<1> SUFFICES ASSUME TypeOK, CallerInv, [Next]_vars PROVE TypeOK'
  OBVIOUS
<1>1. CASE UNCHANGED vars
  BY <1>1 DEF vars, TypeOK, Unreaped
<1>2. ASSUME NEW c \in Calls, Start(c) \/ CallerStep(c) PROVE TypeOK'
  <2>1. CASE Start(c)
    <3>1. worker[c] # "waiting"
      BY <2>1 DEF Start, CallerInv
    <3>2. QED
      BY <2>1, <3>1 DEF Start, TypeOK, WorkerPc, Unreaped
  <2>2. CASE Answer(c) \/ Deadline(c)
    BY <2>2 DEF Answer, Deadline, TypeOK, Unreaped
  <2>3. CASE Cancel(c)
    <3>1. reaper[c] # "waiting"
      BY <2>3 DEF Cancel, CallerInv
    <3>2. QED
      BY <2>3, <3>1 DEF Cancel, TypeOK, Unreaped
  <2>4. QED
    BY <1>2, <2>1, <2>2, <2>3 DEF CallerStep
<1>3. ASSUME NEW c \in Calls,
             CheckCancelled(c) \/ PopenFails(c) \/ PopenReturns(c) \/ ReadTimeout(c)
             \/ Publish(c) \/ Finish(c)
      PROVE  TypeOK'
  BY <1>3 DEF CheckCancelled, PopenFails, PopenReturns, ReadTimeout, Publish, Finish, Goto,
              TypeOK, WorkerPc, Unreaped
<1>4. ASSUME NEW c \in Calls, Fork(c) PROVE TypeOK'
  BY <1>4, PidAssumption DEF Fork, Goto, TypeOK, WorkerPc, Unreaped
<1>5. ASSUME NEW c \in Calls, Read(c) PROVE TypeOK'
  BY <1>5 DEF Read, Goto, TypeOK, WorkerPc, Unreaped
<1>6. ASSUME NEW c \in Calls, NEW who \in {"worker", "reaper"}, Killing(c, who) PROVE TypeOK'
  <2>1. CASE Kill(c, who)
    BY <2>1, MoveFacts DEF Kill, At, Group, TypeOK, Unreaped
  <2>2. CASE Wait(c, who)
    BY <2>2, MoveFacts DEF Wait, At, TypeOK, Unreaped
  <2>3. CASE Reap(c, who)
    BY <2>3, MoveFacts DEF Reap, At, TypeOK, Unreaped
  <2>4. CASE AlreadyReaped(c, who)
    BY <2>4, MoveFacts DEF AlreadyReaped, At, TypeOK, Unreaped
  <2>5. QED
    BY <1>6, <2>1, <2>2, <2>3, <2>4 DEF Killing
<1>7. ASSUME NEW c \in Calls, Exit(c) PROVE TypeOK'
  BY <1>7 DEF Exit, TypeOK, Unreaped
<1>8. QED
  BY <1>1, <1>2, <1>3, <1>4, <1>5, <1>6, <1>7 DEF Next, WorkerStep

\* Every variable keeps its type, and the lock of a child is held between two
\* steps only by the thread that waits for it.
THEOREM TypeCorrect == Spec => []TypeOK
<1>1. QED
  BY InitTypeOK, NextTypeOK, InitCallerInv, NextCallerInv, PTL DEF Spec

------------------------------------------------------------------------------
(* Children, their handles and their reapers.                               *)

LEMMA InitGhInv == Init => GhInv
  BY DEF Init, GhInv, PidInv, ChildInv, ReaperInv, OnlyOwnChild, NoReaderLeftBehind, Unreaped

\* A signal to the group of a child that is there reaches that child alone.
LEMMA GroupIsOwn ==
  ASSUME PidInv, NEW c \in Calls, child[c] # "none", MaySignal(c), TypeOK
  PROVE  Group(c) \subseteq {c}
<1>1. c \in Unreaped
  BY DEF MaySignal, Unreaped, TypeOK
<1>2. QED
  BY <1>1 DEF Group, PidInv, Unreaped

LEMMA NextGhInv == TypeOK /\ CallerInv /\ GhInv /\ [Next]_vars => GhInv'
<1> SUFFICES ASSUME TypeOK, CallerInv, GhInv, [Next]_vars PROVE GhInv'
  OBVIOUS
<1> USE DEF GhInv
<1>1. CASE UNCHANGED vars
  BY <1>1 DEF vars, PidInv, ChildInv, ReaperInv, OnlyOwnChild, NoReaderLeftBehind, Unreaped
<1>2. ASSUME NEW c \in Calls, Start(c) \/ CallerStep(c) PROVE GhInv'
  <2>1. child' = child /\ pid' = pid /\ handle' = handle /\ removed' = removed
        /\ signalled' = signalled
    BY <1>2 DEF Start, CallerStep, Answer, Deadline, Cancel
  <2>2. CASE Start(c)
    BY <2>1, <2>2 DEF Start, CallerInv, PidInv, ChildInv, ReaperInv, OnlyOwnChild,
                      NoReaderLeftBehind, Unreaped, TypeOK
  <2>3. CASE CallerStep(c)
    BY <2>1, <2>3 DEF CallerStep, Answer, Deadline, Cancel, PidInv, ChildInv, ReaperInv,
                      OnlyOwnChild, NoReaderLeftBehind, Unreaped, TypeOK
  <2>4. QED
    BY <1>2, <2>2, <2>3
<1>3. ASSUME NEW c \in Calls,
             CheckCancelled(c) \/ PopenFails(c) \/ PopenReturns(c) \/ ReadTimeout(c)
             \/ Publish(c) \/ Finish(c)
      PROVE  GhInv'
  <2>1. CASE CheckCancelled(c) \/ PopenFails(c)
    BY <2>1 DEF CheckCancelled, PopenFails, Goto, PidInv, ChildInv, ReaperInv, OnlyOwnChild,
                NoReaderLeftBehind, Unreaped, TypeOK
  <2>2. CASE PopenReturns(c)
    BY <2>2 DEF PopenReturns, Goto, PidInv, ChildInv, ReaperInv, OnlyOwnChild,
                NoReaderLeftBehind, Unreaped, TypeOK
  <2>3. CASE ReadTimeout(c)
    BY <2>3 DEF ReadTimeout, Goto, PidInv, ChildInv, ReaperInv, OnlyOwnChild,
                NoReaderLeftBehind, Unreaped, TypeOK
  <2>4. CASE Publish(c)
    BY <2>4 DEF Publish, Goto, PidInv, ChildInv, ReaperInv, OnlyOwnChild,
                NoReaderLeftBehind, Unreaped, TypeOK
  <2>5. CASE Finish(c)
    BY <2>5 DEF Finish, Goto, PidInv, ChildInv, ReaperInv, OnlyOwnChild,
                NoReaderLeftBehind, Unreaped, TypeOK
  <2>6. QED
    BY <1>3, <2>1, <2>2, <2>3, <2>4, <2>5
<1>4. ASSUME NEW c \in Calls, Fork(c) PROVE GhInv'
  <2>1. PICK p \in Pids \ {pid[d] : d \in Unreaped} :
          pid' = [pid EXCEPT ![c] = p] /\ child' = [child EXCEPT ![c] = "alive"]
    BY <1>4 DEF Fork
  <2>2. PidInv'
    BY <2>1 DEF PidInv, Unreaped, TypeOK
  <2>3. QED
    BY <1>4, <2>1, <2>2 DEF Fork, Goto, ChildInv, ReaperInv, OnlyOwnChild, NoReaderLeftBehind,
                            TypeOK
<1>5. ASSUME NEW c \in Calls, Read(c) PROVE GhInv'
  BY <1>5 DEF Read, Goto, PidInv, ChildInv, ReaperInv, OnlyOwnChild, NoReaderLeftBehind,
              Unreaped, TypeOK
<1>6. ASSUME NEW c \in Calls, NEW who \in {"worker", "reaper"}, Killing(c, who) PROVE GhInv'
  <2>1. At(c, who) \in {"kill", "wait", "waiting"} => child[c] # "none"
    BY DEF At, ChildInv, ReaperInv
  <2>2. CASE Kill(c, who)
    <3>1. signalled' \subseteq signalled \cup {c}
      BY <2>1, <2>2, GroupIsOwn DEF Kill
    <3>2. QED
      BY <2>1, <2>2, <3>1, MoveFacts
      DEF Kill, At, PidInv, ChildInv, ReaperInv, OnlyOwnChild, NoReaderLeftBehind, Unreaped, TypeOK
  <2>3. CASE Wait(c, who)
    BY <2>1, <2>3, MoveFacts
    DEF Wait, At, PidInv, ChildInv, ReaperInv, OnlyOwnChild, NoReaderLeftBehind, Unreaped, TypeOK
  <2>4. CASE Reap(c, who)
    BY <2>1, <2>4, MoveFacts
    DEF Reap, At, PidInv, ChildInv, ReaperInv, OnlyOwnChild, NoReaderLeftBehind, Unreaped, TypeOK
  <2>5. CASE AlreadyReaped(c, who)
    BY <2>1, <2>5, MoveFacts
    DEF AlreadyReaped, At, PidInv, ChildInv, ReaperInv, OnlyOwnChild, NoReaderLeftBehind,
        Unreaped, TypeOK
  <2>6. QED
    BY <1>6, <2>2, <2>3, <2>4, <2>5 DEF Killing
<1>7. ASSUME NEW c \in Calls, Exit(c) PROVE GhInv'
  BY <1>7 DEF Exit, PidInv, ChildInv, ReaperInv, OnlyOwnChild, NoReaderLeftBehind, Unreaped,
              TypeOK
<1>8. QED
  BY <1>1, <1>2, <1>3, <1>4, <1>5, <1>6, <1>7 DEF Next, WorkerStep

\* A signal reaches only the child of the call that it was meant for, also
\* when process ids are used again.
THEOREM SignalsStayOwn == Spec => []OnlyOwnChild
<1>1. QED
  BY InitTypeOK, NextTypeOK, InitCallerInv, NextCallerInv, InitGhInv, NextGhInv, PTL DEF Spec, GhInv

\* A worker that reads the child of a cancelled call has a reaper after it.
THEOREM CancelReachesReader == Spec => []NoReaderLeftBehind
<1>1. QED
  BY InitTypeOK, NextTypeOK, InitCallerInv, NextCallerInv, InitGhInv, NextGhInv, PTL DEF Spec, GhInv

\* The directory of a call is removed only when its child has been reaped.
THEOREM DirectoryIsSafe == Spec => []DirectoryOutlivesChild
<1>1. TypeOK /\ GhInv => DirectoryOutlivesChild
  BY DEF TypeOK, GhInv, ChildInv, DirectoryOutlivesChild
<1>2. QED
  BY <1>1, InitTypeOK, NextTypeOK, InitCallerInv, NextCallerInv, InitGhInv, NextGhInv, PTL DEF Spec

=============================================================================
