------------------------------- MODULE GhCall -------------------------------
(***************************************************************************)
(* The gh calls of a look.  The looking thread starts a worker per call    *)
(* and joins it up to a deadline; the worker spawns gh, reads it and reaps *)
(* it.  When the deadline passes, the call is cancelled: a reaper kills    *)
(* the child that the worker has published, and a worker that is still     *)
(* inside Popen kills its own as soon as it has the handle.  Calls follow  *)
(* each other, so a worker left behind runs beside the next call, whose    *)
(* child may get the process id of an earlier one.                         *)
(***************************************************************************)
EXTENDS FiniteSets

CONSTANTS
  Calls,     \* gh calls of the look
  Pids,      \* process ids, which double as process group ids
  NoPid

ASSUME PidAssumption == NoPid \notin Pids

VARIABLES
  caller,     \* [Calls -> where the looking thread is in the call]
  worker,     \* [Calls -> where the worker is]
  reaper,     \* [Calls -> where the thread that cancel starts is]
  cancelled,  \* calls whose GhCancellation is cancelled
  handle,     \* calls whose child is published in GhCancellation._child
  child,      \* [Calls -> life of the gh process]
  pid,        \* [Calls -> its process id]
  wlock,      \* [Calls -> holder of the child's _waitpid_lock]
  signalled,  \* calls whose child has been sent SIGKILL
  removed     \* calls whose temporary directory is gone

vars == <<caller, worker, reaper, cancelled, handle, child, pid, wlock, signalled, removed>>

------------------------------------------------------------------------------
(* A name with a suffix is a faulty variant of the definition after it.     *)

Unreaped == {c \in Calls : child[c] \in {"alive", "zombie"}}

Init ==
  /\ caller = [c \in Calls |-> "idle"]
  /\ worker = [c \in Calls |-> "idle"]
  /\ reaper = [c \in Calls |-> "none"]
  /\ cancelled = {} /\ handle = {}
  /\ child = [c \in Calls |-> "none"]
  /\ pid = [c \in Calls |-> NoPid]
  /\ wlock = [c \in Calls |-> "free"]
  /\ signalled = {} /\ removed = {}

------------------------------------------------------------------------------
(* The looking thread: look_hard_gh.                                        *)

\* worker.start() and join(deadline); one call at a time.
Start(c) ==
  /\ caller[c] = "idle"
  /\ \A d \in Calls : caller[d] \notin {"joining", "late"}
  /\ caller' = [caller EXCEPT ![c] = "joining"]
  /\ worker' = [worker EXCEPT ![c] = "check"]
  /\ UNCHANGED <<reaper, cancelled, handle, child, pid, wlock, signalled, removed>>

Answer(c) ==
  /\ caller[c] = "joining" /\ worker[c] = "done"
  /\ caller' = [caller EXCEPT ![c] = "answered"]
  /\ UNCHANGED <<worker, reaper, cancelled, handle, child, pid, wlock, signalled, removed>>

Deadline(c) ==
  /\ caller[c] = "joining" /\ worker[c] # "done"
  /\ caller' = [caller EXCEPT ![c] = "late"]
  /\ UNCHANGED <<worker, reaper, cancelled, handle, child, pid, wlock, signalled, removed>>

\* Where a worker that does not move holds the state lock of GhCancellation:
\* nowhere, Popen runs outside it.
HoldsStateLock_Popen == {"popen", "forked"}
HoldsStateLock == {}

\* cancel, and the return of a timeout.
Cancel(c) ==
  /\ caller[c] = "late" /\ worker[c] \notin HoldsStateLock
  /\ cancelled' = cancelled \cup {c}
  /\ reaper' = IF c \in handle THEN [reaper EXCEPT ![c] = "kill"] ELSE reaper
  /\ caller' = [caller EXCEPT ![c] = "timed_out"]
  /\ UNCHANGED <<worker, handle, child, pid, wlock, signalled, removed>>

------------------------------------------------------------------------------
(* The worker: run_gh and GhCancellation.spawn.                             *)

Goto(c, pc) == worker' = [worker EXCEPT ![c] = pc]

CheckCancelled(c) ==
  /\ worker[c] = "check"
  /\ Goto(c, IF c \in cancelled THEN "end" ELSE "popen")
  /\ UNCHANGED <<caller, reaper, cancelled, handle, child, pid, wlock, signalled, removed>>

\* Popen starts the child, or raises.
Fork(c) ==
  /\ worker[c] = "popen"
  /\ \E p \in Pids \ {pid[d] : d \in Unreaped} :
       /\ pid' = [pid EXCEPT ![c] = p]
       /\ child' = [child EXCEPT ![c] = "alive"]
  /\ Goto(c, "forked")
  /\ UNCHANGED <<caller, reaper, cancelled, handle, wlock, signalled, removed>>

PopenFails(c) ==
  /\ worker[c] = "popen"
  /\ Goto(c, "end")
  /\ UNCHANGED <<caller, reaper, cancelled, handle, child, pid, wlock, signalled, removed>>

PopenReturns(c) ==
  /\ worker[c] = "forked"
  /\ Goto(c, "publish")
  /\ UNCHANGED <<caller, reaper, cancelled, handle, child, pid, wlock, signalled, removed>>

\* A call that was cancelled meanwhile kills its child itself.
Publish_Unchecked(c) ==
  /\ worker[c] = "publish"
  /\ handle' = handle \cup {c} /\ Goto(c, "read")
  /\ UNCHANGED <<caller, reaper, cancelled, child, pid, wlock, signalled, removed>>
Publish(c) ==
  /\ worker[c] = "publish"
  /\ IF c \in cancelled
       THEN Goto(c, "kill") /\ UNCHANGED handle
       ELSE Goto(c, "read") /\ handle' = handle \cup {c}
  /\ UNCHANGED <<caller, reaper, cancelled, child, pid, wlock, signalled, removed>>

\* communicate reads to the end and polls the child under its lock; somebody
\* else may have reaped it.
Read(c) ==
  /\ worker[c] = "read"
  /\ \/ child[c] = "zombie" /\ wlock[c] = "free"
     \/ child[c] = "reaped"
  /\ child' = [child EXCEPT ![c] = "reaped"]
  /\ Goto(c, "end")
  /\ UNCHANGED <<caller, reaper, cancelled, handle, pid, wlock, signalled, removed>>

ReadTimeout_GivesUp(c) ==
  /\ worker[c] = "read"
  /\ Goto(c, "end")
  /\ UNCHANGED <<caller, reaper, cancelled, handle, child, pid, wlock, signalled, removed>>
ReadTimeout(c) ==
  /\ worker[c] = "read"
  /\ Goto(c, "kill")
  /\ UNCHANGED <<caller, reaper, cancelled, handle, child, pid, wlock, signalled, removed>>

\* clear, and the end of run_gh.
Finish(c) ==
  /\ worker[c] = "end"
  /\ handle' = handle \ {c}
  /\ removed' = removed \cup {c}
  /\ Goto(c, "done")
  /\ UNCHANGED <<caller, reaper, cancelled, child, pid, wlock, signalled>>

------------------------------------------------------------------------------
(* _kill_gh_child, by the worker or by the reaper.                          *)

At(c, who) == IF who = "worker" THEN worker[c] ELSE reaper[c]
Move(c, who, pc) ==
  IF who = "worker"
    THEN worker' = [worker EXCEPT ![c] = pc] /\ UNCHANGED reaper
    ELSE reaper' = [reaper EXCEPT ![c] = pc] /\ UNCHANGED worker

\* The processes that a signal to the group of c reaches.
Group(c) == {d \in Calls : child[d] = "alive" /\ pid[d] = pid[c]}

\* The lock makes the check of returncode and the signal one step.
MaySignal_Unchecked(c) == TRUE
MaySignal(c) == child[c] # "reaped"

Kill_WaitInside(c, who) ==
  /\ At(c, who) = "kill" /\ wlock[c] = "free"
  /\ signalled' = IF MaySignal(c) THEN signalled \cup Group(c) ELSE signalled
  /\ wlock' = [wlock EXCEPT ![c] = who]
  /\ Move(c, who, "wait")
  /\ UNCHANGED <<caller, cancelled, handle, child, pid, removed>>
Kill(c, who) ==
  /\ At(c, who) = "kill" /\ wlock[c] = "free"
  /\ signalled' = IF MaySignal(c) THEN signalled \cup Group(c) ELSE signalled
  /\ Move(c, who, "wait")
  /\ UNCHANGED <<caller, cancelled, handle, child, pid, wlock, removed>>

\* wait() blocks in waitpid with the lock held.
Wait(c, who) ==
  /\ At(c, who) = "wait" /\ child[c] # "reaped" /\ wlock[c] = "free"
  /\ wlock' = [wlock EXCEPT ![c] = who]
  /\ Move(c, who, "waiting")
  /\ UNCHANGED <<caller, cancelled, handle, child, pid, signalled, removed>>

Reap(c, who) ==
  /\ At(c, who) = "waiting" /\ child[c] = "zombie"
  /\ child' = [child EXCEPT ![c] = "reaped"]
  /\ wlock' = [wlock EXCEPT ![c] = "free"]
  /\ Move(c, who, "end")
  /\ UNCHANGED <<caller, cancelled, handle, pid, signalled, removed>>

AlreadyReaped(c, who) ==
  /\ At(c, who) = "wait" /\ child[c] = "reaped"
  /\ Move(c, who, "end")
  /\ UNCHANGED <<caller, cancelled, handle, child, pid, wlock, signalled, removed>>

------------------------------------------------------------------------------
(* The operating system.                                                    *)

Exit(c) ==
  /\ child[c] = "alive"
  /\ child' = [child EXCEPT ![c] = "zombie"]
  /\ UNCHANGED <<caller, worker, reaper, cancelled, handle, pid, wlock, signalled, removed>>

------------------------------------------------------------------------------
Killing(c, who) == Kill(c, who) \/ Wait(c, who) \/ Reap(c, who) \/ AlreadyReaped(c, who)

CallerStep(c) == Answer(c) \/ Deadline(c) \/ Cancel(c)
WorkerStep(c) ==
  \/ CheckCancelled(c) \/ Publish(c) \/ Read(c) \/ ReadTimeout(c) \/ Finish(c)
  \/ Killing(c, "worker")

Next ==
  \E c \in Calls :
    \/ Start(c) \/ CallerStep(c)
    \/ WorkerStep(c) \/ Fork(c) \/ PopenFails(c) \/ PopenReturns(c)
    \/ Killing(c, "reaper")
    \/ Exit(c)

Spec == Init /\ [][Next]_vars

\* Threads run, communicate has a timeout and SIGKILL kills.  Popen promises
\* nothing, and a child that is left alone may run for ever.
FairSpec ==
  /\ Spec
  /\ \A c \in Calls :
       /\ WF_vars(CallerStep(c)) /\ WF_vars(WorkerStep(c)) /\ WF_vars(Killing(c, "reaper"))
       /\ WF_vars(c \in signalled /\ Exit(c))

------------------------------------------------------------------------------
\* Every variable has its type, a child that is there has a process id, and
\* its lock is held between two steps only by a thread that waits for it.
WorkerPc == {"idle", "check", "popen", "forked", "publish", "read",
             "kill", "wait", "waiting", "end", "done"}
TypeOK ==
  /\ caller \in [Calls -> {"idle", "joining", "late", "answered", "timed_out"}]
  /\ worker \in [Calls -> WorkerPc]
  /\ reaper \in [Calls -> {"none", "kill", "wait", "waiting", "end"}]
  /\ cancelled \subseteq Calls /\ handle \subseteq Calls
  /\ child \in [Calls -> {"none", "alive", "zombie", "reaped"}]
  /\ pid \in [Calls -> Pids \cup {NoPid}]
  /\ \A c \in Unreaped : pid[c] # NoPid
  /\ wlock \in [Calls -> {"free", "worker", "reaper"}]
  /\ \A c \in Calls : /\ wlock[c] = "worker" <=> worker[c] = "waiting"
                      /\ wlock[c] = "reaper" <=> reaper[c] = "waiting"
  /\ signalled \subseteq Calls /\ removed \subseteq Calls

\* "One look call owns only its children" (gh.py:387): a child is killed only
\* when its own call is late or its own worker has given it up, never by the
\* reaper of an earlier call whose process id it has got.
OnlyOwnChild ==
  \A c \in signalled : c \in cancelled \/ worker[c] \in {"wait", "waiting", "end", "done"}

\* "including a spawn racing timeout" (gh.py:387): no worker settles down to
\* read the child of a call that was cancelled, unless a reaper is after it.
NoReaderLeftBehind ==
  \A c \in cancelled : worker[c] = "read" => reaper[c] # "none"

\* The temporary directory that gh runs in outlives the process, on every path
\* through timeouts, failures and cancellation.
DirectoryOutlivesChild == \A c \in removed : child[c] \in {"none", "reaped"}

\* "the deadline must still be able to win" (gh.py:399): a call returns even
\* if Popen never does.
DeadlineWins == \A c \in Calls : caller[c] = "joining" ~> caller[c] \in {"answered", "timed_out"}

\* A child that Popen has handed over is reaped, however the deadline, the
\* worker's own timeout and the two killers race for its lock.
ChildIsReaped ==
  \A c \in Calls : (child[c] # "none" /\ worker[c] # "forked") ~> child[c] = "reaped"

=============================================================================
