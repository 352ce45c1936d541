--------------------------- MODULE PublishPlanProofs ---------------------------
(***************************************************************************)
(* Proofs about PublishPlan for every set of plans, ticks and operators    *)
(* and any number of crashes.                                              *)
(***************************************************************************)
EXTENDS PublishPlan, TLAPS

------------------------------------------------------------------------------
(* The inductive invariant: an unclaimed plan has no attempt and no post; a *)
(* claimed one belongs to at most one tick, whose program counter says what *)
(* the attempt and the platform have seen; an ended one claims no more than *)
(* its handler did, and one that nobody could tell of is never ended.       *)

Busy(w) == worker[w].pc \in {"reserved", "running", "answered", "settled"}

Unclaimed == {"absent", "approved", "scheduled", "handoff_ready", "handoff_opened",
              "published_confirmed"}

Truth(p, outcome) == /\ outcome = "succeeded" => creates[p] = 1
                     /\ p \in ambiguous => outcome = "unknown"

UnclaimedInv == \A p \in Plans : plan[p] \in Unclaimed => attempt[p] = "none" /\ creates[p] = 0
PostsInv == \A p \in Plans : creates[p] <= 1
EndedInv == \A p \in Plans : plan[p] \in Outcome =>
              attempt[p] = plan[p] /\ Truth(p, plan[p])
Open(p) == plan[p] \in {"executing", "unknown"} /\ attempt[p] \in {"running", "unknown"}
AmbiguousInv == \A p \in ambiguous : Open(p)

Owns(w) ==
    /\ worker[w].plan \in Plans
    /\ plan[worker[w].plan] = "executing"
    /\ worker[w].pc = "reserved" => attempt[worker[w].plan] = "pending"
    /\ worker[w].pc \in {"running", "answered"} => attempt[worker[w].plan] = "running"
    /\ worker[w].pc \in {"reserved", "running"} =>
         creates[worker[w].plan] = 0 /\ worker[w].plan \notin ambiguous
    /\ worker[w].pc \in {"answered", "settled"} =>
         /\ worker[w].outcome \in Outcome
         /\ Truth(worker[w].plan, worker[w].outcome)
    /\ worker[w].pc = "settled" => attempt[worker[w].plan] = worker[w].outcome

BusyInv == \A w \in Workers : Busy(w) => Owns(w)

AloneInv ==
  \A v, w \in Workers : Busy(v) /\ Busy(w) /\ worker[v].plan = worker[w].plan => v = w

\* A confirmation under way has read a prepared handoff.
ClerkInv == \A c \in Clerks :
              clerk[c].pc = "confirm" => clerk[c].seen \in {"handoff_ready", "handoff_opened"}

PlanInv == UnclaimedInv /\ PostsInv /\ EndedInv /\ AmbiguousInv /\ BusyInv /\ AloneInv

------------------------------------------------------------------------------
(* Types                                                                    *)

LEMMA InitTypeOK == Init => TypeOK
  BY CrashAssumption DEF Init, TypeOK, WorkerState, ClerkState, AtRest, Away

\* The states of a tick and of a command, field by field.
LEMMA WorkerTyped ==
  ASSUME TypeOK, NEW w \in Workers
  PROVE  /\ worker[w] \in WorkerState
         /\ worker[w].due \in SUBSET Plans
         /\ worker[w].plan \in Plans \cup {NoPlan}
         /\ worker[w].outcome \in Outcome \cup {"none"}
  BY DEF TypeOK, WorkerState

LEMMA AtRestTyped == AtRest \in WorkerState /\ Away \in ClerkState
  BY DEF AtRest, Away, WorkerState, ClerkState

LEMMA TransitionTyped ==
  ASSUME TypeOK, NEW p, NEW expected, NEW to \in PlanStatus,
         NEW r \in {"ready", "opened", "confirmation"}, Transition(p, expected, to, r)
  PROVE  /\ plan' \in [Plans -> PlanStatus \cup {"absent"}]
         /\ receipts' \in [Plans -> SUBSET {"ready", "opened", "confirmation"}]
<1>1. /\ plan \in [Plans -> PlanStatus \cup {"absent"}]
      /\ receipts \in [Plans -> SUBSET {"ready", "opened", "confirmation"}]
  BY DEF TypeOK
<1>2. CASE StatusIs(p, expected, r)
  <2>1. plan' = [plan EXCEPT ![p] = to] /\ receipts' = [receipts EXCEPT ![p] = @ \cup {r}]
    BY <1>2 DEF Transition
  <2>2. plan' \in [Plans -> PlanStatus \cup {"absent"}]
    BY <1>1, <2>1
  <2>3. receipts' \in [Plans -> SUBSET {"ready", "opened", "confirmation"}]
    BY <1>1, <2>1
  <2>4. QED  BY <2>2, <2>3
<1>3. CASE ~StatusIs(p, expected, r)
  BY <1>1, <1>3 DEF Transition
<1>4. QED  BY <1>2, <1>3

LEMMA StepTypeOK == TypeOK /\ BusyInv /\ [Next]_vars => TypeOK'
<1> SUFFICES ASSUME TypeOK, BusyInv, [Next]_vars PROVE TypeOK'
  OBVIOUS
<1> USE AtRestTyped
<1>1. ASSUME NEW p \in Plans, NEW s \in {"scheduled", "approved"}, SavePlan(p, s) PROVE TypeOK'
  BY <1>1 DEF TypeOK, SavePlan, PlanStatus
<1>2. ASSUME NEW w \in Workers, NEW due \in SUBSET Plans, StartTick(w, due) PROVE TypeOK'
  <2>1. [worker[w] EXCEPT !.pc = "next", !.due = due] \in WorkerState
    BY WorkerTyped DEF WorkerState
  <2>2. QED  BY <1>2, <2>1 DEF TypeOK, StartTick
<1>3. ASSUME NEW w \in Workers, NEW p \in Plans, Deny(w, p) PROVE TypeOK'
  <2>1. [worker[w] EXCEPT !.due = @ \ {p}] \in WorkerState
    BY WorkerTyped DEF WorkerState
  <2>2. worker' \in [Workers -> WorkerState]
    BY <1>3, <2>1 DEF TypeOK, Deny
  <2>3. QED  BY <1>3, <2>2 DEF TypeOK, Deny
<1>4. ASSUME NEW w \in Workers, NEW p \in Plans, Reserve(w, p) PROVE TypeOK'
  <2>1. [pc |-> "reserved", due |-> worker[w].due \ {p}, plan |-> p, outcome |-> "none"]
          \in WorkerState
    BY WorkerTyped DEF WorkerState
  <2>2. worker' \in [Workers -> WorkerState]
    BY <1>4, <2>1 DEF TypeOK, Reserve
  <2>3. QED  BY <1>4, <2>2 DEF TypeOK, Reserve, PlanStatus, AttemptStatus
<1>5. ASSUME NEW w \in Workers, Run(w) PROVE TypeOK'
  <2>1. [worker[w] EXCEPT !.pc = "running"] \in WorkerState
    BY WorkerTyped DEF WorkerState
  <2>2. worker' \in [Workers -> WorkerState]
    BY <1>5, <2>1 DEF TypeOK, Run
  <2>3. QED  BY <1>5, <2>2 DEF TypeOK, Run, AttemptStatus
<1>6. ASSUME NEW w \in Workers, NEW answer \in Answers,
             NEW posted \in {0, 1}, Dispatch(w, answer, posted)
      PROVE TypeOK'
  <2>1. [worker[w] EXCEPT !.pc = "answered", !.outcome = Verdict(RunAdapter(answer))]
          \in WorkerState
    BY WorkerTyped DEF WorkerState, Verdict, Outcome
  <2>2. worker' \in [Workers -> WorkerState]
    BY <1>6, <2>1 DEF TypeOK, Dispatch
  <2>3. worker[w].plan \in Plans
    BY <1>6 DEF Dispatch, BusyInv, Busy, Owns
  <2>4. creates' \in [Plans -> Nat]
    BY <1>6, <2>3 DEF TypeOK, Dispatch
  <2>5. ambiguous' \subseteq Plans
    BY <1>6, <2>3 DEF TypeOK, Dispatch
  <2>6. QED  BY <1>6, <2>2, <2>4, <2>5 DEF TypeOK, Dispatch
<1>7. ASSUME NEW w \in Workers, NEW posted \in {0, 1}, DispatchRaises(w, posted) PROVE TypeOK'
  <2>1. worker[w].plan \in Plans
    BY <1>7 DEF DispatchRaises, BusyInv, Busy, Owns
  <2>2. creates' \in [Plans -> Nat]
    BY <1>7, <2>1 DEF TypeOK, DispatchRaises
  <2>3. QED  BY <1>7, <2>2 DEF TypeOK, DispatchRaises
<1>8. ASSUME NEW w \in Workers, SettleAttempt(w) PROVE TypeOK'
  <2>1. [worker[w] EXCEPT !.pc = "settled"] \in WorkerState
    BY WorkerTyped DEF WorkerState
  <2>2. worker' \in [Workers -> WorkerState]
    BY <1>8, <2>1 DEF TypeOK, SettleAttempt
  <2>3. attempt' \in [Plans -> AttemptStatus \cup {"none"}]
    BY <1>8 DEF TypeOK, SettleAttempt, AttemptStatus, BusyInv, Busy, Owns
  <2>4. QED  BY <1>8, <2>2, <2>3 DEF TypeOK, SettleAttempt
<1>9. ASSUME NEW w \in Workers, SettlePlan(w) PROVE TypeOK'
  <2>1. [AtRest EXCEPT !.pc = "next", !.due = worker[w].due] \in WorkerState
    BY WorkerTyped DEF WorkerState, AtRest
  <2>2. worker' \in [Workers -> WorkerState]
    BY <1>9, <2>1 DEF TypeOK, SettlePlan
  <2>3. worker[w].outcome \in Outcome
    BY <1>9 DEF SettlePlan, BusyInv, Busy, Owns
  <2>4. plan' \in [Plans -> PlanStatus \cup {"absent"}]
    BY <1>9, <2>3 DEF TypeOK, SettlePlan, PlanStatus
  <2>5. QED  BY <1>9, <2>2, <2>4 DEF TypeOK, SettlePlan
<1>10. ASSUME NEW w \in Workers, EndTick(w) \/ CrashWorker(w) PROVE TypeOK'
  BY <1>10, CrashAssumption DEF TypeOK, EndTick, CrashWorker
<1>11. ASSUME NEW c \in Clerks, NEW p \in Plans, BeginHandoff(c, p) \/ BeginConfirm(c, p)
       PROVE TypeOK'
  <2>1. \A pc \in {"prepare", "open", "confirm"} :
          [pc |-> pc, plan |-> p, seen |-> plan[p]] \in ClerkState
    BY DEF TypeOK, ClerkState
  <2>2. clerk' \in [Clerks -> ClerkState]
    BY <1>11, <2>1 DEF TypeOK, BeginHandoff, BeginConfirm
  <2>3. QED  BY <1>11, <2>2 DEF TypeOK, BeginHandoff, BeginConfirm
<1>12. ASSUME NEW c \in Clerks, Prepare(c) PROVE TypeOK'
  <2>1. clerk[c] \in ClerkState
    BY DEF TypeOK
  <2>2. [clerk[c] EXCEPT !.pc = "open", !.seen = "handoff_ready"] \in ClerkState
    BY <2>1 DEF ClerkState, PlanStatus
  <2>3. clerk' \in [Clerks -> ClerkState]
    BY <1>12, <2>2 DEF TypeOK, Prepare
  <2>4. Transition(clerk[c].plan, "approved", "handoff_ready", "ready")
    BY <1>12 DEF Prepare
  <2>5. /\ plan' \in [Plans -> PlanStatus \cup {"absent"}]
        /\ receipts' \in [Plans -> SUBSET {"ready", "opened", "confirmation"}]
    BY <2>4, TransitionTyped DEF PlanStatus
  <2>6. QED  BY <1>12, <2>3, <2>5 DEF TypeOK, Prepare
<1>13. ASSUME NEW c \in Clerks, OpenIntent(c) \/ CrashClerk(c) PROVE TypeOK'
  <2>1. clerk[c] \in ClerkState
    BY DEF TypeOK
  <2>2. [clerk[c] EXCEPT !.pc = "opened"] \in ClerkState
    BY <2>1 DEF ClerkState
  <2>3. clerk' \in [Clerks -> ClerkState]
    BY <1>13, <2>2 DEF TypeOK, OpenIntent, CrashClerk
  <2>4. QED  BY <1>13, <2>3, CrashAssumption DEF TypeOK, OpenIntent, CrashClerk
<1>14. ASSUME NEW c \in Clerks, FinishHandoff(c) PROVE TypeOK'
  <2>1. Transition(clerk[c].plan, "handoff_ready", "handoff_opened", "opened")
    BY <1>14 DEF FinishHandoff
  <2>2. /\ plan' \in [Plans -> PlanStatus \cup {"absent"}]
        /\ receipts' \in [Plans -> SUBSET {"ready", "opened", "confirmation"}]
    BY <2>1, TransitionTyped DEF PlanStatus
  <2>3. QED  BY <1>14, <2>2 DEF TypeOK, FinishHandoff
<1>15. ASSUME NEW c \in Clerks, Confirm(c) PROVE TypeOK'
  <2>1. Transition(clerk[c].plan, clerk[c].seen, "published_confirmed", "confirmation")
    BY <1>15 DEF Confirm
  <2>2. /\ plan' \in [Plans -> PlanStatus \cup {"absent"}]
        /\ receipts' \in [Plans -> SUBSET {"ready", "opened", "confirmation"}]
    BY <2>1, TransitionTyped DEF PlanStatus
  <2>3. QED  BY <1>15, <2>2 DEF TypeOK, Confirm
<1>16. CASE UNCHANGED vars
  BY <1>16 DEF TypeOK, vars
<1>17. QED
  BY <1>1, <1>2, <1>3, <1>4, <1>5, <1>6, <1>7, <1>8, <1>9, <1>10, <1>11, <1>12, <1>13, <1>14,
     <1>15, <1>16 DEF Next, WorkerStep

------------------------------------------------------------------------------
(* The invariant                                                            *)

LEMMA InitPlanInv == Init => PlanInv
  BY DEF Init, PlanInv, UnclaimedInv, PostsInv, EndedInv, AmbiguousInv, BusyInv, AloneInv, Busy,
         Owns, Outcome, AtRest

\* A step that leaves the rows and the ticks alone, or sends a tick to rest.
LEMMA RestStep ==
  ASSUME TypeOK, PlanInv, UNCHANGED <<plan, attempt, creates, ambiguous>>,
         \A w \in Workers : worker'[w] = worker[w] \/ ~Busy(w)'
  PROVE  PlanInv'
<1>1. \A w \in Workers : Busy(w)' => Busy(w) /\ worker'[w] = worker[w]
  BY DEF Busy
<1>2. UnclaimedInv' /\ PostsInv' /\ EndedInv' /\ AmbiguousInv'
  BY DEF PlanInv, UnclaimedInv, PostsInv, EndedInv, AmbiguousInv, Open, Truth
<1>3. BusyInv' /\ AloneInv'
  BY <1>1 DEF PlanInv, BusyInv, AloneInv, Busy, Owns, Truth
<1>4. QED  BY <1>2, <1>3 DEF PlanInv

\* A step of the plans outside the tick: none of them has been claimed.
LEMMA UnclaimedStep ==
  ASSUME TypeOK, PlanInv, NEW p \in Plans, NEW s \in Unclaimed, plan[p] \in Unclaimed,
         plan' = [plan EXCEPT ![p] = s], UNCHANGED <<attempt, creates, ambiguous, worker>>
  PROVE  PlanInv'
<1>1. \A w \in Workers : Busy(w) => worker[w].plan # p /\ worker[w].plan \in Plans
  BY DEF PlanInv, BusyInv, Owns, Unclaimed
<1>2. /\ \A q \in Plans \ {p} : plan'[q] = plan[q]
      /\ plan'[p] = s
  BY DEF TypeOK
<1>3. UnclaimedInv' /\ PostsInv'
  BY <1>2 DEF PlanInv, UnclaimedInv, PostsInv
<1>4. EndedInv' /\ AmbiguousInv'
  <2>1. EndedInv'
    BY <1>2 DEF PlanInv, EndedInv, Unclaimed, Outcome, Truth
  <2>2. p \notin ambiguous
    BY DEF PlanInv, AmbiguousInv, Open, Unclaimed
  <2>3. QED  BY <1>2, <2>1, <2>2 DEF TypeOK, PlanInv, AmbiguousInv, Open
<1>5. BusyInv' /\ AloneInv'
  BY <1>1, <1>2 DEF PlanInv, BusyInv, AloneInv, Busy, Owns, Truth
<1>6. QED  BY <1>3, <1>4, <1>5 DEF PlanInv

LEMMA TransitionStep ==
  ASSUME TypeOK, PlanInv, NEW p, NEW from \in Unclaimed \ {"absent"}, NEW to \in Unclaimed, NEW r,
         Transition(p, from, to, r), UNCHANGED <<attempt, creates, ambiguous, worker>>
  PROVE  PlanInv'
<1>1. CASE StatusIs(p, from, r) /\ p \in Plans
  <2>1. plan[p] = from /\ plan' = [plan EXCEPT ![p] = to]
    BY <1>1 DEF Transition, StatusIs
  <2>2. QED  BY <1>1, <2>1, UnclaimedStep
<1>2. CASE p \notin Plans \/ ~StatusIs(p, from, r)
  <2>1. plan' = plan
    BY <1>2 DEF Transition, TypeOK
  <2>2. QED  BY <2>1, RestStep DEF Busy
<1>3. QED  BY <1>1, <1>2

\* The rows, the posts and the answers of one plan stay as they are.
KeepsRows(q) == /\ plan'[q] = plan[q] /\ attempt'[q] = attempt[q] /\ creates'[q] = creates[q]
                /\ q \in ambiguous' <=> q \in ambiguous

\* A step of one tick w at one plan p that nobody else works on.
LEMMA OwnerStep ==
  ASSUME TypeOK, PlanInv, NEW w \in Workers, NEW p \in Plans,
         \A q \in Plans \ {p} : KeepsRows(q), ambiguous' \subseteq Plans,
         \A v \in Workers \ {w} : worker'[v] = worker[v],
         \A v \in Workers \ {w} : Busy(v) => worker[v].plan # p,
         Busy(w)' => worker'[w].plan = p /\ Owns(w)',
         plan'[p] \in Outcome \cup {"executing"},
         creates'[p] <= 1,
         p \in ambiguous' => Open(p)',
         plan'[p] \in Outcome => attempt'[p] = plan'[p] /\ Truth(p, plan[p])'
  PROVE  PlanInv'
<1>1. UnclaimedInv'
  BY DEF PlanInv, UnclaimedInv, Unclaimed, Outcome, KeepsRows
<1>2. PostsInv' /\ AmbiguousInv'
  BY DEF PlanInv, PostsInv, AmbiguousInv, Open, KeepsRows
<1>3. EndedInv'
  BY DEF PlanInv, EndedInv, KeepsRows, Truth
<1>4. ASSUME NEW v \in Workers, Busy(v)' PROVE Owns(v)'
  <2>1. CASE v = w
    BY <1>4, <2>1
  <2>2. CASE v # w
    <3>1. Busy(v) /\ worker'[v] = worker[v]
      BY <1>4, <2>2 DEF Busy
    <3>2. Owns(v) /\ worker[v].plan \in Plans \ {p}
      BY <2>2, <3>1 DEF PlanInv, BusyInv, Owns
    <3>3. QED  BY <3>1, <3>2 DEF Owns, KeepsRows, Truth
  <2>3. QED  BY <2>1, <2>2
<1>5. AloneInv'
  <2>1. \A v \in Workers \ {w} : Busy(v)' => Busy(v) /\ worker'[v].plan # p
    BY DEF Busy
  <2>2. QED  BY <2>1 DEF PlanInv, AloneInv
<1>6. QED  BY <1>1, <1>2, <1>3, <1>4, <1>5 DEF PlanInv, BusyInv

\* What a busy tick knows.
LEMMA OwnerAlone ==
  ASSUME TypeOK, PlanInv, NEW w \in Workers, Busy(w)
  PROVE  /\ Owns(w)
         /\ \A v \in Workers \ {w} : Busy(v) => worker[v].plan # worker[w].plan
  BY DEF PlanInv, BusyInv, AloneInv

LEMMA StepClerkInv == TypeOK /\ ClerkInv /\ [Next]_vars => ClerkInv'
<1> SUFFICES ASSUME TypeOK, ClerkInv, [Next]_vars PROVE ClerkInv'
  OBVIOUS
<1>1. ASSUME NEW c \in Clerks, NEW p \in Plans, BeginHandoff(c, p) \/ BeginConfirm(c, p)
      PROVE ClerkInv'
  BY <1>1 DEF BeginHandoff, BeginConfirm, ClerkInv, TypeOK
<1>2. ASSUME NEW c \in Clerks, Prepare(c) PROVE ClerkInv'
  <2>1. clerk[c] \in ClerkState
    BY DEF TypeOK
  <2>2. \A d \in Clerks : clerk'[d].pc = "confirm" => clerk'[d] = clerk[d]
    BY <1>2, <2>1 DEF Prepare, TypeOK, ClerkState, Away
  <2>3. QED  BY <2>2 DEF ClerkInv
<1>3. ASSUME NEW c \in Clerks, OpenIntent(c) \/ FinishHandoff(c) \/ Confirm(c) \/ CrashClerk(c)
      PROVE ClerkInv'
  <2>1. clerk[c] \in ClerkState
    BY DEF TypeOK
  <2>2. \A d \in Clerks : clerk'[d].pc = "confirm" => clerk'[d] = clerk[d]
    BY <1>3, <2>1 DEF OpenIntent, FinishHandoff, Confirm, CrashClerk, TypeOK, ClerkState, Away
  <2>3. QED  BY <2>2 DEF ClerkInv
<1>4. ASSUME clerk' = clerk PROVE ClerkInv'
  BY <1>4 DEF ClerkInv
<1>5. QED
  BY <1>1, <1>2, <1>3, <1>4
     DEF Next, WorkerStep, vars, SavePlan, StartTick, Deny, Reserve, Run, Dispatch, DispatchRaises,
         SettleAttempt, SettlePlan, EndTick, CrashWorker

LEMMA StepPlanInv == TypeOK /\ PlanInv /\ ClerkInv /\ [Next]_vars => PlanInv'
<1> SUFFICES ASSUME TypeOK, PlanInv, ClerkInv, [Next]_vars PROVE PlanInv'
  OBVIOUS
<1>1. ASSUME NEW p \in Plans, NEW s \in {"scheduled", "approved"}, SavePlan(p, s) PROVE PlanInv'
  BY <1>1, UnclaimedStep DEF SavePlan, Unclaimed
<1>2. ASSUME NEW w \in Workers, NEW due \in SUBSET Plans, StartTick(w, due) PROVE PlanInv'
  <2>1. \A v \in Workers : worker'[v] = worker[v] \/ worker'[v].pc = "next"
    BY <1>2, WorkerTyped DEF StartTick, TypeOK, WorkerState
  <2>2. QED  BY <1>2, <2>1, RestStep DEF StartTick, Busy
<1>3. ASSUME NEW w \in Workers, NEW p \in Plans, Deny(w, p) PROVE PlanInv'
  <2>1. \A v \in Workers : worker'[v] = worker[v] \/ worker'[v].pc = "next"
    BY <1>3, WorkerTyped DEF Deny, TypeOK, WorkerState
  <2>2. QED  BY <1>3, <2>1, RestStep DEF Deny, Busy
<1>4. ASSUME NEW w \in Workers, NEW p \in Plans, Reserve(w, p) PROVE PlanInv'
  <2>1. CASE MayReserve(p)
    <3>1. /\ plan[p] = "scheduled" /\ attempt[p] = "none" /\ creates[p] = 0
          /\ p \notin ambiguous
      BY <2>1 DEF MayReserve, PlanInv, UnclaimedInv, AmbiguousInv, Open, Unclaimed
    <3>2. \A v \in Workers : Busy(v) => worker[v].plan # p
      BY <3>1 DEF PlanInv, BusyInv, Owns
    <3>3. /\ plan' = [plan EXCEPT ![p] = "executing"]
          /\ attempt' = [attempt EXCEPT ![p] = "pending"]
          /\ creates' = creates /\ ambiguous' = ambiguous
          /\ worker' = [worker EXCEPT ![w] = [pc |-> "reserved", due |-> worker[w].due \ {p},
                                              plan |-> p, outcome |-> "none"]]
      BY <1>4, <2>1 DEF Reserve
    <3>4. /\ plan'[p] = "executing" /\ attempt'[p] = "pending" /\ creates'[p] = 0
          /\ p \notin ambiguous' /\ worker'[w].plan = p /\ worker'[w].pc = "reserved"
      BY <3>1, <3>3 DEF TypeOK
    <3>5. Owns(w)'
      BY <3>4 DEF Owns
    <3>6. /\ ambiguous' \subseteq Plans /\ \A q \in Plans \ {p} : KeepsRows(q)
          /\ \A v \in Workers \ {w} : worker'[v] = worker[v]
      BY <3>3 DEF TypeOK, KeepsRows
    <3>7. QED  BY <3>2, <3>4, <3>5, <3>6, OwnerStep DEF Outcome
  <2>2. CASE ~MayReserve(p)
    BY <1>4, <2>2, RestStep DEF Reserve, Busy, TypeOK, AtRest
  <2>3. QED  BY <2>1, <2>2
<1>5. ASSUME NEW w \in Workers, Run(w) PROVE PlanInv'
  <2>1. Busy(w)
    BY <1>5 DEF Run, Busy
  <2> DEFINE p == worker[w].plan
  <2>2. /\ p \in Plans /\ plan[p] = "executing" /\ attempt[p] = "pending" /\ creates[p] = 0
        /\ p \notin ambiguous
    BY <1>5, <2>1, OwnerAlone DEF Run, Owns
  <2>3. /\ attempt' = [attempt EXCEPT ![p] = "running"]
        /\ worker' = [worker EXCEPT ![w].pc = "running"]
        /\ UNCHANGED <<plan, creates, ambiguous>>
    BY <1>5, <2>2 DEF Run
  <2>4. /\ attempt'[p] = "running" /\ worker'[w].plan = p /\ worker'[w].pc = "running"
    BY <2>2, <2>3, WorkerTyped DEF TypeOK, WorkerState
  <2>5. Owns(w)'
    BY <2>2, <2>3, <2>4 DEF Owns
  <2>6. /\ ambiguous' \subseteq Plans /\ \A q \in Plans \ {p} : KeepsRows(q)
        /\ \A v \in Workers \ {w} : worker'[v] = worker[v]
    BY <2>3 DEF TypeOK, KeepsRows
  <2>7. QED  BY <2>1, <2>2, <2>3, <2>4, <2>5, <2>6, OwnerAlone, OwnerStep DEF Outcome
<1>6. ASSUME NEW w \in Workers, NEW answer \in Answers,
             NEW posted \in {0, 1}, Dispatch(w, answer, posted)
      PROVE PlanInv'
  <2>1. Busy(w)
    BY <1>6 DEF Dispatch, Busy
  <2> DEFINE p == worker[w].plan
  <2>2. /\ p \in Plans /\ plan[p] = "executing" /\ attempt[p] = "running" /\ creates[p] = 0
        /\ p \notin ambiguous
    BY <1>6, <2>1, OwnerAlone DEF Dispatch, Owns
  <2>3. /\ creates' = [creates EXCEPT ![p] = @ + posted]
        /\ worker' = [worker EXCEPT ![w] = [@ EXCEPT !.pc = "answered",
                                                     !.outcome = Verdict(RunAdapter(answer))]]
        /\ ambiguous' = IF Unclear(answer) THEN ambiguous \cup {p} ELSE ambiguous
        /\ UNCHANGED <<plan, attempt>>
    BY <1>6 DEF Dispatch
  <2>4. /\ creates'[p] = posted /\ worker'[w].plan = p /\ worker'[w].pc = "answered"
        /\ worker'[w].outcome = Verdict(RunAdapter(answer))
    BY <2>2, <2>3, WorkerTyped DEF TypeOK, WorkerState
  <2>5. /\ Verdict(RunAdapter(answer)) \in Outcome
        /\ Verdict(RunAdapter(answer)) = "succeeded" => posted = 1
        /\ Unclear(answer) => Verdict(RunAdapter(answer)) = "unknown"
    BY <1>6 DEF Dispatch, Verdict, RunAdapter, Failed, Claims, Unclear, Outcome
  <2>6. Owns(w)'
    <3>1. p \in ambiguous' => Unclear(answer)
      BY <2>2, <2>3
    <3>2. Truth(p, worker[w].outcome)'
      BY <2>4, <2>5, <3>1 DEF Truth
    <3>3. worker'[w].outcome \in Outcome /\ plan'[p] = "executing" /\ attempt'[p] = "running"
      BY <2>2, <2>3, <2>4, <2>5
    <3>4. QED  BY <2>2, <2>4, <3>2, <3>3 DEF Owns
  <2>7. /\ ambiguous' \subseteq Plans /\ \A q \in Plans \ {p} : KeepsRows(q)
        /\ \A v \in Workers \ {w} : worker'[v] = worker[v]
    BY <2>2, <2>3 DEF TypeOK, KeepsRows
  <2>8. plan'[p] = "executing" /\ creates'[p] <= 1 /\ Open(p)'
    BY <2>2, <2>3, <2>4 DEF Open
  <2>9. QED  BY <2>1, <2>2, <2>4, <2>6, <2>7, <2>8, OwnerAlone, OwnerStep DEF Outcome
<1>7. ASSUME NEW w \in Workers, NEW posted \in {0, 1}, DispatchRaises(w, posted) PROVE PlanInv'
  <2>1. Busy(w)
    BY <1>7 DEF DispatchRaises, Busy
  <2> DEFINE p == worker[w].plan
  <2>2. /\ p \in Plans /\ plan[p] = "executing" /\ creates[p] = 0 /\ p \notin ambiguous
    BY <1>7, <2>1, OwnerAlone DEF DispatchRaises, Owns
  <2>3. /\ creates' = [creates EXCEPT ![p] = @ + posted]
        /\ worker' = [worker EXCEPT ![w] = AtRest]
        /\ UNCHANGED <<plan, attempt, ambiguous>>
    BY <1>7 DEF DispatchRaises
  <2>4. plan'[p] = "executing" /\ creates'[p] <= 1 /\ ~Busy(w)' /\ p \notin ambiguous'
    BY <2>2, <2>3 DEF TypeOK, Busy, AtRest
  <2>5. /\ ambiguous' \subseteq Plans /\ \A q \in Plans \ {p} : KeepsRows(q)
        /\ \A v \in Workers \ {w} : worker'[v] = worker[v]
    BY <2>3 DEF TypeOK, KeepsRows
  <2>6. QED  BY <2>1, <2>2, <2>4, <2>5, OwnerAlone, OwnerStep DEF Outcome
<1>8. ASSUME NEW w \in Workers, SettleAttempt(w) PROVE PlanInv'
  <2>1. Busy(w)
    BY <1>8 DEF SettleAttempt, Busy
  <2> DEFINE p == worker[w].plan
  <2>2. /\ p \in Plans /\ plan[p] = "executing" /\ attempt[p] = "running"
        /\ worker[w].outcome \in Outcome /\ Truth(p, worker[w].outcome)
    BY <1>8, <2>1, OwnerAlone DEF SettleAttempt, Owns
  <2>3. /\ attempt' = [attempt EXCEPT ![p] = worker[w].outcome]
        /\ worker' = [worker EXCEPT ![w].pc = "settled"]
        /\ UNCHANGED <<plan, creates, ambiguous>>
    BY <1>8, <2>2 DEF SettleAttempt
  <2>4. /\ attempt'[p] = worker[w].outcome /\ worker'[w].plan = p /\ worker'[w].pc = "settled"
        /\ worker'[w].outcome = worker[w].outcome
    BY <2>2, <2>3, WorkerTyped DEF TypeOK, WorkerState
  <2>5. Owns(w)'
    <3>1. Truth(p, worker[w].outcome)'
      BY <2>2, <2>3, <2>4 DEF Truth
    <3>2. QED  BY <2>2, <2>3, <2>4, <3>1 DEF Owns
  <2>6. /\ ambiguous' \subseteq Plans /\ \A q \in Plans \ {p} : KeepsRows(q)
        /\ \A v \in Workers \ {w} : worker'[v] = worker[v]
    BY <2>3 DEF TypeOK, KeepsRows
  <2>7. plan'[p] = "executing" /\ creates'[p] <= 1 /\ (p \in ambiguous' => Open(p)')
    BY <2>2, <2>3, <2>4 DEF PlanInv, PostsInv, Truth, Open
  <2>8. QED  BY <2>1, <2>2, <2>4, <2>5, <2>6, <2>7, OwnerAlone, OwnerStep DEF Outcome
<1>9. ASSUME NEW w \in Workers, SettlePlan(w) PROVE PlanInv'
  <2>1. Busy(w)
    BY <1>9 DEF SettlePlan, Busy
  <2>0. PICK p \in Plans : worker[w].plan = p
    BY <2>1, OwnerAlone DEF Owns
  <2>2. /\ plan[p] = "executing" /\ attempt[p] = worker[w].outcome
        /\ worker[w].outcome \in Outcome /\ Truth(p, worker[w].outcome)
    BY <1>9, <2>1, <2>0, OwnerAlone DEF SettlePlan, Owns
  <2>3. /\ plan' = [plan EXCEPT ![p] = worker[w].outcome]
        /\ worker' = [worker EXCEPT ![w] = [AtRest EXCEPT !.pc = "next", !.due = worker[w].due]]
        /\ UNCHANGED <<attempt, creates, ambiguous>>
    BY <1>9, <2>2, <2>0 DEF SettlePlan
  <2>4. plan'[p] = worker[w].outcome /\ worker'[w].pc = "next"
    BY <2>2, <2>3 DEF TypeOK, AtRest
  <2>5. ~Busy(w)'
    BY <2>4 DEF Busy
  <2>6. /\ ambiguous' \subseteq Plans /\ \A q \in Plans \ {p} : KeepsRows(q)
        /\ \A v \in Workers \ {w} : worker'[v] = worker[v]
    BY <2>3 DEF TypeOK, KeepsRows
  <2>7. /\ creates'[p] <= 1 /\ plan'[p] \in Outcome /\ attempt'[p] = plan'[p]
        /\ Truth(p, plan[p])' /\ (p \in ambiguous' => Open(p)')
    <3>1. plan'[p] \in Outcome /\ attempt'[p] = plan'[p] /\ creates'[p] <= 1
      BY <2>2, <2>3, <2>4 DEF PlanInv, PostsInv
    <3>2. /\ plan'[p] = "succeeded" => creates'[p] = 1
          /\ p \in ambiguous' => plan'[p] = "unknown"
      BY <2>2, <2>3, <2>4 DEF Truth
    <3>3. p \in ambiguous' => plan'[p] = "unknown" /\ attempt'[p] = "unknown"
      BY <3>1, <3>2
    <3>4. QED  BY <3>1, <3>2, <3>3 DEF Truth, Open
  <2>8. QED  BY <2>1, <2>2, <2>0, <2>4, <2>5, <2>6, <2>7, OwnerAlone, OwnerStep DEF Outcome
<1>10. ASSUME NEW w \in Workers, EndTick(w) \/ CrashWorker(w) PROVE PlanInv'
  BY <1>10, RestStep DEF EndTick, CrashWorker, Busy, TypeOK, AtRest
<1>11. ASSUME NEW c \in Clerks, NEW p \in Plans, BeginHandoff(c, p) \/ BeginConfirm(c, p)
       PROVE PlanInv'
  BY <1>11, RestStep DEF BeginHandoff, BeginConfirm
<1>12. ASSUME NEW c \in Clerks, Prepare(c) PROVE PlanInv'
  BY <1>12, TransitionStep DEF Prepare, Unclaimed
<1>13. ASSUME NEW c \in Clerks, OpenIntent(c) \/ CrashClerk(c) PROVE PlanInv'
  BY <1>13, RestStep DEF OpenIntent, CrashClerk
<1>14. ASSUME NEW c \in Clerks, FinishHandoff(c) PROVE PlanInv'
  BY <1>14, TransitionStep DEF FinishHandoff, Unclaimed
<1>15. ASSUME NEW c \in Clerks, Confirm(c) PROVE PlanInv'
  <2>1. /\ clerk[c].seen \in Unclaimed \ {"absent"}
        /\ Transition(clerk[c].plan, clerk[c].seen, "published_confirmed", "confirmation")
        /\ UNCHANGED <<attempt, creates, ambiguous, worker>>
    BY <1>15 DEF Confirm, ClerkInv, Unclaimed
  <2>2. QED  BY <2>1, TransitionStep DEF Unclaimed
<1>16. CASE UNCHANGED vars
  BY <1>16, RestStep DEF vars
<1>17. QED
  BY <1>1, <1>2, <1>3, <1>4, <1>5, <1>6, <1>7, <1>8, <1>9, <1>10, <1>11, <1>12, <1>13, <1>14,
     <1>15, <1>16 DEF Next, WorkerStep

\* Each of the three needs the others, so they are proved together.
LEMMA Always == Spec => [](TypeOK /\ PlanInv /\ ClerkInv)
<1>1. Init => TypeOK /\ PlanInv /\ ClerkInv
  BY InitTypeOK, InitPlanInv DEF Init, ClerkInv, Away
<1>2. TypeOK /\ PlanInv /\ ClerkInv /\ [Next]_vars => (TypeOK /\ PlanInv /\ ClerkInv)'
  BY StepTypeOK, StepPlanInv, StepClerkInv DEF PlanInv
<1>3. QED  BY <1>1, <1>2, PTL DEF Spec

------------------------------------------------------------------------------
(* The theorems                                                             *)

\* The tables and what every process holds in memory are well typed.
THEOREM TypeCorrect == Spec => []TypeOK
  BY Always, PTL

\* The platform gets at most one post for an operation key, whatever ticks
\* race over the plan, die or see the adapter raise.
THEOREM NoBlindRetry == Spec => []CreatedOnce
<1>1. PlanInv => CreatedOnce
  BY DEF PlanInv, PostsInv, CreatedOnce
<1>2. QED  BY <1>1, Always, PTL

\* An ended plan has the outcome of its attempt, although two transactions
\* store them.
THEOREM PlanAgrees == Spec => []PlanFollowsAttempt
<1>1. PlanInv => PlanFollowsAttempt
  BY DEF PlanInv, EndedInv, PlanFollowsAttempt
<1>2. QED  BY <1>1, Always, PTL

\* A succeeded plan was posted, and the plan of an answer that could not tell
\* never ends as anything but unknown, whatever a failing handler had done.
THEOREM PlanIsTrue == Spec => []OutcomeIsTrue
<1>1. PlanInv => OutcomeIsTrue
  BY DEF PlanInv, EndedInv, AmbiguousInv, Open, Truth, Outcome, OutcomeIsTrue
<1>2. QED  BY <1>1, Always, PTL

\* No command and no tick moves a plan whose publication was confirmed.
THEOREM ConfirmationIsFinal == Spec => ConfirmedIsFinal
<1> DEFINE Final == \A p \in Plans : plan[p] = "published_confirmed"
                                    => plan'[p] = "published_confirmed"
<1>1. ASSUME TypeOK, PlanInv, ClerkInv, [Next]_vars PROVE Final
  <2> SUFFICES ASSUME NEW p \in Plans, plan[p] = "published_confirmed"
               PROVE  plan'[p] = "published_confirmed"
    OBVIOUS
  <2>1. ASSUME NEW q, NEW from \in Unclaimed \ {"published_confirmed"}, NEW to, NEW r,
               Transition(q, from, to, r)
        PROVE  plan'[p] = "published_confirmed"
    BY <1>1, <2>1 DEF Transition, StatusIs, TypeOK
  <2>2. ASSUME NEW c \in Clerks, Prepare(c) \/ FinishHandoff(c) \/ Confirm(c)
        PROVE  plan'[p] = "published_confirmed"
    <3>1. CASE Prepare(c)
      BY <2>1, <3>1 DEF Prepare, Unclaimed
    <3>2. CASE FinishHandoff(c)
      BY <2>1, <3>2 DEF FinishHandoff, Unclaimed
    <3>3. CASE Confirm(c)
      <4>1. clerk[c].seen \in {"handoff_ready", "handoff_opened"}
        BY <1>1, <3>3 DEF Confirm, ClerkInv
      <4>2. QED  BY <2>1, <3>3, <4>1 DEF Confirm, Unclaimed
    <3>4. QED  BY <2>2, <3>1, <3>2, <3>3
  <2>3. ASSUME NEW w \in Workers, WorkerStep(w) PROVE plan'[p] = "published_confirmed"
    BY <1>1, <2>3 DEF WorkerStep, Deny, Reserve, MayReserve, Run, Dispatch, SettleAttempt,
                      SettlePlan, EndTick, TypeOK
  <2>4. ASSUME NEW q \in Plans, NEW s, SavePlan(q, s) PROVE plan'[p] = "published_confirmed"
    BY <1>1, <2>4 DEF SavePlan, TypeOK
  <2>5. ASSUME plan' = plan PROVE plan'[p] = "published_confirmed"
    BY <2>5
  <2>6. QED
    BY <1>1, <2>2, <2>3, <2>4, <2>5
       DEF Next, vars, StartTick, DispatchRaises, CrashWorker, BeginHandoff, BeginConfirm,
           OpenIntent, CrashClerk
<1>2. TypeOK /\ PlanInv /\ ClerkInv /\ [Next]_vars => [Final]_vars
  BY <1>1
<1>3. QED  BY <1>2, Always, PTL DEF Spec, ConfirmedIsFinal

=============================================================================
