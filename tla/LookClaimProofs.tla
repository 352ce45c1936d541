---------------------------- MODULE LookClaimProofs ----------------------------
(***************************************************************************)
(* Proofs about LookClaim for any runs and projects, any length of the     *)
(* week and of its Monday, and any bounds.                                 *)
(***************************************************************************)
EXTENDS LookClaim, TLAPS

USE RunAssumption, WeekAssumption

------------------------------------------------------------------------------
(* The calendar *)

LEMMA MondayBefore ==
  ASSUME NEW n \in Nat
  PROVE  Monday(n) \in Nat /\ Monday(n) <= n
  BY DEF Monday

LEMMA MondayGrows ==
  ASSUME NEW s \in Nat, NEW n \in Nat, s <= n
  PROVE  Monday(s) <= Monday(n)
<1> DEFINE q == s \div WeekHours
           p == n \div WeekHours
<1>1. /\ q \in Nat /\ p \in Nat
      /\ Monday(s) = WeekHours * q /\ Monday(n) = WeekHours * p
      /\ Monday(s) <= s /\ n < Monday(n) + WeekHours
  BY DEF Monday
<1> QED
  BY <1>1

------------------------------------------------------------------------------
(* Types *)

RunState == [pc : {"idle", "owner", "due", "raw", "claim", "scan", "gh", "record"},
             now : Stamps]

LEMMA InitTypeOK == Init => TypeOK
<1> SUFFICES ASSUME Init PROVE TypeOK
  OBVIOUS
<1>1. briefs \in Seq(Stamps) /\ Len(briefs) <= MaxBriefs
  BY DEF Init
<1>2. \A r \in Passes : lock = r <=> run[r].pc # "idle"
  BY DEF Init, Idle
<1>3. run \in [Runs -> RunState]
  BY DEF Init, Idle, RunState, Stamps
<1>4. /\ clock \in Stamps /\ crashes \in 0..MaxCrashes
      /\ scans \subseteq Stamps /\ lock \in Passes \cup {NoOne}
  BY DEF Init, Stamps
<1>5. story \in BOOLEAN
  BY DEF Init
<1>6. /\ latest.state \in {"none", "in_progress", "done"} /\ latest.stamp \in Stamps
      /\ latest.owner \in {Project[r] : r \in Runs} \cup {NoOne}
  BY DEF Init, NoLook, Stamps
<1> QED
  BY <1>1, <1>2, <1>3, <1>4, <1>5, <1>6 DEF TypeOK, RunState

\* A step of a run writes its own place; it keeps tick.lock or, when it ends,
\* gives it back.
LEMMA StepOfRun ==
  ASSUME TypeOK, NEW r \in Runs, RunStep(r) \/ Crash(r)
  PROVE  /\ run[r].pc # "idle" /\ clock' = clock
         /\ run' \in [Runs -> RunState]
         /\ \A s \in Runs \ {r} : run'[s] = run[s]
         /\ \/ run'[r].pc # "idle" /\ run'[r].now = run[r].now /\ lock' = lock
            \/ run'[r].pc = "idle" /\ lock' = IF lock = r THEN NoOne ELSE lock
<1>1. run \in [Runs -> RunState]
  BY DEF TypeOK, RunState
<1>2. ASSUME NEW pc \in {"due", "raw", "claim", "scan", "gh", "record"}, Goto(r, pc)
      PROVE  /\ run' \in [Runs -> RunState] /\ \A s \in Runs \ {r} : run'[s] = run[s]
             /\ run'[r].pc = pc /\ run'[r].now = run[r].now
  BY <1>1, <1>2 DEF Goto, RunState
<1>3. ASSUME End(r)
      PROVE  /\ run' \in [Runs -> RunState] /\ \A s \in Runs \ {r} : run'[s] = run[s]
             /\ run'[r].pc = "idle" /\ lock' = IF lock = r THEN NoOne ELSE lock
  BY <1>1, <1>3 DEF End, Idle, RunState, Stamps
<1>4. CASE CheckOwner(r)
  BY <1>2, <1>3, <1>4 DEF CheckOwner
<1>5. CASE CheckDue(r)
  BY <1>2, <1>3, <1>5 DEF CheckDue
<1>6. CASE ReadLook(r)
  BY <1>2, <1>6 DEF ReadLook
<1>7. CASE Claim(r)
  BY <1>2, <1>3, <1>7 DEF Claim
<1>8. CASE StartScan(r)
  BY <1>2, <1>8 DEF StartScan
<1>9. CASE Admit(r)
  BY <1>2, <1>9 DEF Admit
<1>10. CASE Record(r)
  BY <1>3, <1>10 DEF Record
<1>11. CASE Crash(r)
  BY <1>3, <1>11 DEF Crash
<1> QED
  BY <1>4, <1>5, <1>6, <1>7, <1>8, <1>9, <1>10, <1>11 DEF RunStep

\* What a step of a run makes of the look events, the briefs and the story.
LEMMA TablesOfStep ==
  ASSUME TypeOK, NEW r \in Runs, RunStep(r) \/ Crash(r)
  PROVE  /\ latest'.state \in {"none", "in_progress", "done"} /\ latest'.stamp \in Stamps
         /\ latest'.owner \in {Project[s] : s \in Runs} \cup {NoOne}
         /\ scans' \subseteq Stamps
         /\ briefs' \in Seq(Stamps) /\ Len(briefs') <= MaxBriefs
         /\ story' \in BOOLEAN /\ crashes' \in 0..MaxCrashes
<1>1. run[r].now \in Stamps
  BY DEF TypeOK
<1>2. CASE Admit(r)
  <2>1. Len(briefs) < MaxBriefs => /\ Append(briefs, run[r].now) \in Seq(Stamps)
                                   /\ Len(Append(briefs, run[r].now)) <= MaxBriefs
    BY <1>1 DEF TypeOK
  <2> QED
    BY <1>2, <2>1 DEF Admit, TypeOK
<1>3. CASE Claim(r) \/ Record(r)
  BY <1>1, <1>3 DEF Claim, Record, TypeOK
<1>4. CASE Crash(r)
  BY <1>4 DEF Crash, TypeOK
<1>5. CASE CheckOwner(r) \/ CheckDue(r) \/ ReadLook(r) \/ StartScan(r)
  BY <1>5 DEF CheckOwner, CheckDue, ReadLook, StartScan, TypeOK
<1> QED
  BY <1>2, <1>3, <1>4, <1>5 DEF RunStep

LEMMA BeginRun ==
  ASSUME TypeOK, NEW r \in Runs, Begin(r)
  PROVE  /\ run[r].pc = "idle" /\ run' \in [Runs -> RunState]
         /\ run'[r] = [pc |-> "owner", now |-> clock]
         /\ \A s \in Runs \ {r} : run'[s] = run[s]
         /\ r \in Passes => lock = NoOne /\ lock' = r
         /\ r \notin Passes => lock' = lock
  BY DEF Begin, TypeOK, RunState

LEMMA StepTypeOK == TypeOK /\ [Next]_vars => TypeOK'
<1> SUFFICES ASSUME TypeOK, [Next]_vars PROVE TypeOK'
  OBVIOUS
<1>1. ASSUME NEW r \in Runs, Begin(r) PROVE TypeOK'
  <2>1. UNCHANGED <<clock, latest, scans, briefs, story, crashes>>
    BY <1>1 DEF Begin
  <2> QED
    BY <1>1, <2>1, BeginRun DEF TypeOK, RunState
<1>2. ASSUME NEW r \in Runs, RunStep(r) \/ Crash(r) PROVE TypeOK'
  <2>1. clock' \in Stamps /\ lock' \in Passes \cup {NoOne}
    BY <1>2, StepOfRun DEF TypeOK
  <2>2. run' \in [Runs -> RunState]
    BY <1>2, StepOfRun
  <2>3. \A s \in Passes : lock' = s <=> run'[s].pc # "idle"
    BY <1>2, StepOfRun DEF TypeOK
  <2> QED
    BY <1>2, <2>1, <2>2, <2>3, TablesOfStep DEF TypeOK, RunState
<1>3. CASE StoryChanges
  BY <1>3 DEF StoryChanges, TypeOK
<1>4. CASE Advance
  BY <1>4 DEF Advance, TypeOK, Stamps
<1>5. CASE UNCHANGED vars
  BY <1>5 DEF vars, TypeOK
<1> QED
  BY <1>1, <1>2, <1>3, <1>4, <1>5 DEF Next

\* Type correctness, and tick.lock is held exactly while a pass runs: for any
\* mix of passes and unlocked runs and any crashes.
THEOREM TypeCorrect == Spec => []TypeOK
  BY InitTypeOK, StepTypeOK, PTL DEF Spec

------------------------------------------------------------------------------
(* Passes look one after the other: a run knows the Monday it looks at.     *)

AllPass == Passes = Runs

\* A run that has found a look to be due, and has not recorded it yet.
Looking(r) == run[r].pc \in {"raw", "claim", "scan", "gh"}
ClockInv ==
  /\ latest.stamp <= clock
  /\ \A r \in Runs : run[r].now <= clock /\ (run[r].pc # "idle" => latest.stamp <= run[r].now)
OpenInv ==
  latest.state = "in_progress" =>
    /\ \A at \in scans : at < Monday(latest.stamp)
    /\ \A at \in Created : at < Monday(latest.stamp) \/ at >= latest.stamp
FreshInv == \A r \in Runs : Looking(r) => \A at \in scans \cup Created : at < Monday(run[r].now)
LookInv == ClockInv /\ OpenInv /\ FreshInv /\ OneBriefPerMonday

LEMMA Alone ==
  ASSUME AllPass, TypeOK, NEW r \in Runs, run[r].pc # "idle"
  PROVE  \A s \in Runs \ {r} : run[s].pc = "idle"
  BY DEF AllPass, TypeOK

LEMMA Numbers ==
  ASSUME TypeOK
  PROVE  /\ clock \in Nat /\ latest.stamp \in Nat /\ scans \subseteq Nat /\ Created \subseteq Nat
         /\ DOMAIN briefs = 1..Len(briefs) /\ Len(briefs) \in Nat
         /\ \A i \in DOMAIN briefs : briefs[i] \in Created
         /\ \A r \in Runs : run[r].now \in Nat
  BY DEF TypeOK, Stamps, Created

LEMMA InitLookInv == Init => LookInv
  BY DEF Init, LookInv, ClockInv, OpenInv, FreshInv, OneBriefPerMonday, Looking, NoLook, Idle

\* A look that is due has seen no look and no brief since its Monday began.
LEMMA DueIsFresh ==
  ASSUME TypeOK, ClockInv, OpenInv, NEW r \in Runs, run[r].pc # "idle", Due(run[r].now)
  PROVE  \A at \in scans \cup Created : at < Monday(run[r].now)
<1>1. CASE WindowElapsed(run[r].now)
  BY <1>1 DEF WindowElapsed
<1>2. CASE LookState = "in_progress"
  <2>1. /\ latest.state = "in_progress"
        /\ \A at \in Created : ~(at >= latest.stamp)
    BY <1>2 DEF LookState
  <2>2. \A at \in scans \cup Created : at < Monday(latest.stamp)
    BY <2>1 DEF OpenInv
  <2>3. Monday(latest.stamp) <= Monday(run[r].now)
    BY Numbers, MondayGrows DEF ClockInv
  <2>4. Monday(latest.stamp) \in Nat /\ Monday(run[r].now) \in Nat /\ scans \cup Created \subseteq Nat
    BY Numbers, MondayBefore
  <2> QED
    BY <2>2, <2>3, <2>4
<1> QED
  BY <1>1, <1>2 DEF Due

\* Before a Monday began is not that Monday.
LEMMA OtherMonday ==
  ASSUME NEW at \in Nat, NEW now \in Nat, at < Monday(now)
  PROVE  Monday(at) # Monday(now)
  BY MondayBefore

LEMMA StepLookInv == AllPass /\ TypeOK /\ LookInv /\ [Next]_vars => LookInv'
<1> SUFFICES ASSUME AllPass, TypeOK, LookInv, [Next]_vars PROVE LookInv'
  OBVIOUS
<1> USE DEF LookInv
<1>1. ASSUME NEW r \in Runs, Begin(r) PROVE LookInv'
  <2>1. UNCHANGED <<clock, latest, scans, briefs>>
    BY <1>1 DEF Begin
  <2>2. ClockInv'
    BY <1>1, <2>1, BeginRun, Numbers DEF ClockInv
  <2>3. FreshInv'
    BY <1>1, <2>1, BeginRun DEF FreshInv, Looking, Created
  <2> QED
    BY <2>1, <2>2, <2>3 DEF OpenInv, OneBriefPerMonday, Created
<1>2. ASSUME NEW r \in Runs, RunStep(r) \/ Crash(r) PROVE LookInv'
  <2>1. /\ run[r].pc # "idle" /\ clock' = clock
        /\ run'[r].pc # "idle" => run'[r].now = run[r].now
        /\ \A s \in Runs \ {r} : run'[s] = run[s] /\ run[s].pc = "idle"
        /\ run'[r].now \in {run[r].now, 0}
    <3>1. run'[r].now \in {run[r].now, 0}
      BY <1>2 DEF RunStep, CheckOwner, CheckDue, ReadLook, Claim, StartScan, Admit, Record, Crash, Goto, End,
              Idle, TypeOK
    <3> QED
      BY <1>2, <3>1, StepOfRun, Alone
  <2>2. CASE UNCHANGED <<latest, scans, briefs>> /\ (Looking(r)' => Looking(r))
    <3>1. ClockInv'
      BY <2>1, <2>2, Numbers DEF ClockInv
    <3>2. FreshInv'
      BY <2>1, <2>2 DEF FreshInv, Looking, Created
    <3> QED
      BY <2>2, <3>1, <3>2 DEF OpenInv, OneBriefPerMonday, Created
  <2>3. CASE CheckDue(r)
    <3>1. UNCHANGED <<latest, scans, briefs>>
      BY <2>3 DEF CheckDue
    <3>2. Looking(r)' => Due(run[r].now)
      BY <2>3 DEF CheckDue, End, Idle, Looking, TypeOK
    <3>3. FreshInv'
      BY <2>1, <3>1, <3>2, DueIsFresh DEF FreshInv, Looking, Created
    <3>4. ClockInv'
      BY <2>1, <3>1, Numbers DEF ClockInv
    <3> QED
      BY <3>1, <3>3, <3>4 DEF OpenInv, OneBriefPerMonday, Created
  <2>4. CASE Claim(r) /\ ~UNCHANGED latest
    <3>1. /\ latest'.state = "in_progress" /\ latest'.stamp = run[r].now
          /\ UNCHANGED <<scans, briefs>> /\ Looking(r)
      BY <2>4 DEF Claim, Looking
    <3>2. ClockInv'
      BY <2>1, <3>1, Numbers DEF ClockInv
    <3>3. OpenInv'
      BY <3>1 DEF OpenInv, FreshInv, Created
    <3>4. FreshInv'
      BY <2>1, <3>1 DEF FreshInv, Looking, Created
    <3> QED
      BY <3>1, <3>2, <3>3, <3>4 DEF OneBriefPerMonday
  <2>5. CASE Admit(r) /\ ~UNCHANGED briefs
    <3>1. /\ briefs' = Append(briefs, run[r].now) /\ UNCHANGED <<latest, scans>>
          /\ run'[r].pc = "record" /\ Looking(r)
      BY <2>5 DEF Admit, Goto, Looking, TypeOK
    <3>2. Created' = Created \cup {run[r].now}
      BY <3>1 DEF Created, TypeOK
    <3>3. ClockInv' /\ FreshInv'
      BY <2>1, <3>1, Numbers DEF ClockInv, FreshInv, Looking
    <3>4. OpenInv'
      BY <2>1, <3>1, <3>2, Numbers DEF OpenInv, ClockInv
    <3>5. \A at \in Created : Monday(at) # Monday(run[r].now)
      BY <3>1, Numbers, OtherMonday DEF FreshInv
    <3>6. OneBriefPerMonday'
      <4>1. /\ DOMAIN briefs' = DOMAIN briefs \cup {Len(briefs) + 1}
            /\ \A i \in DOMAIN briefs : briefs'[i] = briefs[i] /\ briefs[i] \in Created
            /\ briefs'[Len(briefs) + 1] = run[r].now
        BY <3>1, Numbers DEF TypeOK
      <4> QED
        BY <3>5, <4>1 DEF OneBriefPerMonday
    <3> QED
      BY <3>3, <3>4, <3>6
  <2>6. CASE Record(r)
    <3>1. /\ latest'.state = "done" /\ latest'.stamp = run[r].now
          /\ UNCHANGED briefs /\ run'[r].pc = "idle"
      BY <2>6 DEF Record, End, Idle, TypeOK
    <3> QED
      BY <2>1, <3>1, Numbers DEF ClockInv, OpenInv, FreshInv, Looking, OneBriefPerMonday
  <2>7. \/ UNCHANGED <<latest, scans, briefs>> /\ (Looking(r)' => Looking(r))
        \/ CheckDue(r) \/ (Claim(r) /\ ~UNCHANGED latest) \/ (Admit(r) /\ ~UNCHANGED briefs) \/ Record(r)
    BY <1>2 DEF RunStep, CheckOwner, ReadLook, Claim, StartScan, Admit, Crash, Goto, End, Idle, Looking, TypeOK
  <2> QED
    BY <2>2, <2>3, <2>4, <2>5, <2>6, <2>7
<1>3. CASE Advance
  BY <1>3, Numbers DEF Advance, ClockInv, OpenInv, FreshInv, OneBriefPerMonday, Looking, Created
<1>4. CASE StoryChanges \/ UNCHANGED vars
  BY <1>4 DEF StoryChanges, vars, ClockInv, OpenInv, FreshInv, OneBriefPerMonday, Looking, Created
<1> QED
  BY <1>1, <1>2, <1>3, <1>4 DEF Next

LEMMA LookInvAlways == ASSUME AllPass PROVE Spec => []LookInv
  BY InitLookInv, StepLookInv, TypeCorrect, PTL DEF Spec

\* No Monday gets a second brief of the repository, whatever passes ran for
\* whichever projects and wherever they died.
THEOREM OneBriefAMonday == ASSUME AllPass PROVE Spec => []OneBriefPerMonday
<1>1. LookInv => OneBriefPerMonday
  BY DEF LookInv
<1> QED
  BY <1>1, LookInvAlways, PTL

\* gh is never called for a Monday whose look is recorded.
THEOREM RecordedIsNotSurveyed == ASSUME AllPass PROVE Spec => DoneLookStaysDone
<1>1. TypeOK /\ LookInv =>
        [\A r \in Runs : run[r].pc = "scan" /\ run'[r].pc = "gh" =>
           \A at \in scans : Monday(at) # Monday(run[r].now) \/ ~IsMonday(at)]_vars
  BY Numbers, OtherMonday DEF LookInv, FreshInv, Looking
<1> QED
  BY <1>1, LookInvAlways, TypeCorrect, PTL DEF DoneLookStaysDone

=============================================================================
