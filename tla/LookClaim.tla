------------------------------ MODULE LookClaim ------------------------------
(***************************************************************************)
(* The Monday look at one GitHub repository.  A run (hom-pass under        *)
(* tick.lock, or scan-due with no lock) reads the look events, claims the  *)
(* look by compare-and-set, surveys through gh, admits at most one brief   *)
(* and records the look.  A run may die at any step; the next one resumes  *)
(* a look that is in progress.                                             *)
(*                                                                         *)
(* Times are numbers; the first MondayHours of every WeekHours are Monday. *)
(* StoryLock is seen through one bit: whether a story is open.             *)
(***************************************************************************)
EXTENDS Integers, Sequences, FiniteSets

CONSTANTS
  Runs,         \* processes that call scan_github_if_due
  Passes,       \* those that hold tick.lock while they do
  Loops,        \* passes that a supervisor starts again and again
  Project,      \* [Runs -> project of the run]
  NoOne,        \* no project, no run
  WeekHours, MondayHours,
  MaxClock,     \* bound on the clock
  MaxBriefs,    \* bound on the briefs that surveys find
  MaxCrashes    \* bound on crashes

ASSUME RunAssumption ==
  /\ Loops \subseteq Passes /\ Passes \subseteq Runs
  /\ NoOne \notin Runs /\ \A r \in Runs : Project[r] # NoOne
ASSUME WeekAssumption ==
  /\ WeekHours \in Nat \ {0} /\ MondayHours \in 1..WeekHours
  /\ MaxClock \in Nat /\ MaxBriefs \in Nat /\ MaxCrashes \in Nat

VARIABLES
  clock,
  latest,   \* newest github.looking / github.scanned event of the repository
  scans,    \* scanned_at of the github.scanned events
  briefs,   \* created_at of the github-scan briefs, in the order of admission
  story,    \* a story is open on the machine
  lock,     \* holder of tick.lock
  run,      \* [Runs -> program counter and captured clock]
  crashes

vars == <<clock, latest, scans, briefs, story, lock, run, crashes>>

NoLook == [state |-> "none", owner |-> NoOne, stamp |-> 0]
Idle == [pc |-> "idle", now |-> 0]

------------------------------------------------------------------------------
(* What the events say.  A name with a suffix is a faulty variant of the    *)
(* definition after it; no behaviour uses it.                               *)

Created == {briefs[i] : i \in DOMAIN briefs}

\* current_look_state: a look that has its brief is done, recorded or not.
LookState_Raw == latest.state
LookState ==
  IF latest.state = "in_progress" /\ \E at \in Created : at >= latest.stamp
    THEN "done"
    ELSE latest.state

Monday(now) == now - (now % WeekHours)
IsMonday(now) == now % WeekHours < MondayHours

\* window_elapsed of last_scan_at: no look since this Monday began, nor later
\* than now.
WindowElapsed_Rolling(now) == \A at \in scans \cup Created : now - at >= MondayHours
WindowElapsed(now) == IsMonday(now) /\ \A at \in scans \cup Created : at < Monday(now)

\* scan_due_reason: a look in progress is due on any day.
Due_MondayOnly(now) == ~story /\ WindowElapsed(now)
Due(now) == ~story /\ (LookState = "in_progress" \/ WindowElapsed(now))

------------------------------------------------------------------------------
Init ==
  /\ clock = 0
  /\ latest = NoLook
  /\ scans = {}
  /\ briefs = <<>>
  /\ story = FALSE
  /\ lock = NoOne
  /\ run = [r \in Runs |-> Idle]
  /\ crashes = 0

Goto(r, pc) == run' = [run EXCEPT ![r].pc = pc]
End(r) ==
  /\ run' = [run EXCEPT ![r] = Idle]
  /\ lock' = IF lock = r THEN NoOne ELSE lock

\* The clock of the whole run is read once.
Begin_Unlocked(r) ==
  /\ run[r].pc = "idle"
  /\ lock' = IF r \in Passes THEN r ELSE lock
  /\ run' = [run EXCEPT ![r] = [pc |-> "owner", now |-> clock]]
  /\ UNCHANGED <<clock, latest, scans, briefs, story, crashes>>
Begin(r) ==
  /\ run[r].pc = "idle"
  /\ IF r \in Passes THEN lock = NoOne /\ lock' = r ELSE UNCHANGED lock
  /\ run' = [run EXCEPT ![r] = [pc |-> "owner", now |-> clock]]
  /\ UNCHANGED <<clock, latest, scans, briefs, story, crashes>>

\* Another project's look in progress is a half-open look: an error.
CheckOwner(r) ==
  /\ run[r].pc = "owner"
  /\ IF LookState = "in_progress" /\ latest.owner # Project[r]
       THEN End(r)
       ELSE Goto(r, "due") /\ UNCHANGED lock
  /\ UNCHANGED <<clock, latest, scans, briefs, story, crashes>>

CheckDue(r) ==
  /\ run[r].pc = "due"
  /\ IF Due(run[r].now) THEN Goto(r, "raw") /\ UNCHANGED lock ELSE End(r)
  /\ UNCHANGED <<clock, latest, scans, briefs, story, crashes>>

\* look_state again: a look in progress is resumed without a claim.
ReadLook(r) ==
  /\ run[r].pc = "raw"
  /\ Goto(r, IF latest.state = "in_progress" THEN "scan" ELSE "claim")
  /\ UNCHANGED <<clock, latest, scans, briefs, story, lock, crashes>>

\* claim_github_look, one transaction.
Claim(r) ==
  /\ run[r].pc = "claim"
  /\ IF Due(run[r].now) /\ latest.state # "in_progress"
       THEN /\ latest' = [state |-> "in_progress", owner |-> Project[r], stamp |-> run[r].now]
            /\ Goto(r, "scan") /\ UNCHANGED lock
       ELSE UNCHANGED latest /\ End(r)
  /\ UNCHANGED <<clock, scans, briefs, story, crashes>>

\* scan_github reads the story lock once more before gh is called.
StartScan(r) ==
  /\ run[r].pc = "scan"
  /\ Goto(r, IF story THEN "record" ELSE "gh")
  /\ UNCHANGED <<clock, latest, scans, briefs, story, lock, crashes>>

\* The survey is over: it found a story that admit_pack lets in, or nothing.
Admit(r) ==
  /\ run[r].pc = "gh"
  /\ \/ /\ ~story /\ Len(briefs) < MaxBriefs
        /\ briefs' = Append(briefs, run[r].now)
        /\ story' = TRUE
     \/ UNCHANGED <<briefs, story>>
  /\ Goto(r, "record")
  /\ UNCHANGED <<clock, latest, scans, lock, crashes>>

Record(r) ==
  /\ run[r].pc = "record"
  /\ latest' = [state |-> "done", owner |-> Project[r], stamp |-> run[r].now]
  /\ scans' = scans \cup {run[r].now}
  /\ End(r)
  /\ UNCHANGED <<clock, briefs, story, crashes>>

Crash(r) ==
  /\ run[r].pc # "idle" /\ crashes < MaxCrashes
  /\ End(r)
  /\ crashes' = crashes + 1
  /\ UNCHANGED <<clock, latest, scans, briefs, story>>

\* The rest of the machine: feedback, ingest, scoring and verdicts open and
\* close stories, and time passes.
StoryChanges ==
  /\ story' = ~story
  /\ UNCHANGED <<clock, latest, scans, briefs, lock, run, crashes>>

Advance ==
  /\ clock < MaxClock
  /\ clock' = clock + 1
  /\ UNCHANGED <<latest, scans, briefs, story, lock, run, crashes>>

RunStep(r) ==
  \/ CheckOwner(r) \/ CheckDue(r) \/ ReadLook(r) \/ Claim(r)
  \/ StartScan(r) \/ Admit(r) \/ Record(r)

Next ==
  \/ \E r \in Runs : Begin(r) \/ RunStep(r) \/ Crash(r)
  \/ StoryChanges
  \/ Advance

Spec == Init /\ [][Next]_vars

\* A run that is alive goes on (gh has a hard timeout).  The supervisor of a
\* loop asks for tick.lock again and again, and passes hold it briefly.
FairSpec == /\ Spec
            /\ \A r \in Runs : WF_vars(RunStep(r))
            /\ \A r \in Loops : SF_vars(Begin(r))

------------------------------------------------------------------------------
\* Every variable has its type, and tick.lock is held exactly while a pass runs.
Stamps == 0..MaxClock
TypeOK ==
  /\ clock \in Stamps
  /\ latest.state \in {"none", "in_progress", "done"} /\ latest.stamp \in Stamps
  /\ latest.owner \in {Project[r] : r \in Runs} \cup {NoOne}
  /\ scans \subseteq Stamps
  /\ briefs \in Seq(Stamps) /\ Len(briefs) <= MaxBriefs
  /\ story \in BOOLEAN
  /\ lock \in Passes \cup {NoOne}
  /\ \A r \in Passes : lock = r <=> run[r].pc # "idle"
  /\ run \in [Runs -> [pc : {"idle", "owner", "due", "raw", "claim", "scan", "gh", "record"},
                       now : Stamps]]
  /\ crashes \in 0..MaxCrashes

\* "Two ticks the same Monday are one look" (scan_due.py:30): no Monday gets a
\* second brief, whichever passes ran and wherever they died, although the
\* brief and the github.scanned event are written by two transactions.
OneBriefPerMonday ==
  \A i, j \in DOMAIN briefs :
    IsMonday(briefs[i]) /\ IsMonday(briefs[j]) /\ Monday(briefs[i]) = Monday(briefs[j]) => i = j

\* A Monday that has been recorded is not surveyed again: gh is never called
\* by a run of the same Monday once the look is done.
DoneLookStaysDone ==
  [][\A r \in Runs : run[r].pc = "scan" /\ run'[r].pc = "gh" =>
       \A at \in scans : Monday(at) # Monday(run[r].now) \/ ~IsMonday(at)]_vars

\* A look that a crash left open is not left open for ever: once the machine
\* has no story the loop of its project resumes and ends it, on any day.
LookFinishes ==
  \A r \in Loops :
    <>[]~story => ((LookState = "in_progress" /\ latest.owner = Project[r])
                     ~> LookState # "in_progress")

\* "A race on the look is silence, no second gh" (storage.py:377,
\* scan_due.py:31): at most one run talks to gh about the repository.
OneSurveyAtATime == \A r, s \in Runs : run[r].pc = "gh" /\ run[s].pc = "gh" => r = s

=============================================================================
