------------------------------ MODULE PublishPlan ------------------------------
(***************************************************************************)
(* A publish plan, from SCHEDULED or APPROVED to its end.  A tick that is  *)
(* given due plans claims each one with its only attempt, calls the        *)
(* platform adapter and stores the outcome, the attempt first and the plan *)
(* in a second transaction.  By hand, `publish handoff` opens an approved  *)
(* plan in the browser and `publish confirm` records the post.  Every      *)
(* storage call is one transaction and one action; the plan that a process *)
(* read before is in its local record.                                     *)
(***************************************************************************)
EXTENDS Naturals

CONSTANTS
  Plans,       \* plan ids; operation_key is unique, so they name it too
  Workers,     \* processes that call tick with due plans
  Clerks,      \* operators at the publish command
  NoPlan,
  MaxCrashes   \* bound on crashes

ASSUME PlanAssumption == NoPlan \notin Plans
ASSUME CrashAssumption == MaxCrashes \in Nat

VARIABLES
  plan,      \* [Plans -> status of the publish_plans row or "absent"]
  attempt,   \* [Plans -> status of its publication_attempts row or "none"]
  receipts,  \* [Plans -> kinds of receipts stored]
  creates,   \* [Plans -> posts that the platform made for the operation key]
  ambiguous, \* history: plans whose handler answered that it cannot tell
  worker,    \* [Workers -> where tick is, and what it holds in memory]
  clerk,     \* [Clerks -> where the command is, and the status it read]
  crashes

vars == <<plan, attempt, receipts, creates, ambiguous, worker, clerk, crashes>>

Outcome == {"succeeded", "failed", "unknown"}
AtRest == [pc |-> "idle", due |-> {}, plan |-> NoPlan, outcome |-> "none"]
Away == [pc |-> "idle", plan |-> NoPlan, seen |-> "absent"]

------------------------------------------------------------------------------
(* A name with a suffix is a faulty variant of the definition after it.     *)

Init ==
  /\ plan = [p \in Plans |-> "absent"]
  /\ attempt = [p \in Plans |-> "none"]
  /\ receipts = [p \in Plans |-> {}]
  /\ creates = [p \in Plans |-> 0]
  /\ ambiguous = {}
  /\ worker = [w \in Workers |-> AtRest]
  /\ clerk = [c \in Clerks |-> Away]
  /\ crashes = 0

SavePlan(p, status) ==
  /\ plan[p] = "absent"
  /\ plan' = [plan EXCEPT ![p] = status]
  /\ UNCHANGED <<attempt, receipts, creates, ambiguous, worker, clerk, crashes>>

------------------------------------------------------------------------------
(* tick                                                                     *)

\* The caller hands over plans that it read as SCHEDULED.
StartTick(w, due) ==
  /\ worker[w].pc = "idle" /\ due # {}
  /\ \A p \in due : plan[p] = "scheduled"
  /\ worker' = [worker EXCEPT ![w] = [@ EXCEPT !.pc = "next", !.due = due]]
  /\ UNCHANGED <<plan, attempt, receipts, creates, ambiguous, clerk, crashes>>

\* Dry run, or evaluate_policy denies: the plan is left alone.
Deny(w, p) ==
  /\ worker[w].pc = "next" /\ p \in worker[w].due
  /\ worker' = [worker EXCEPT ![w].due = @ \ {p}]
  /\ UNCHANGED <<plan, attempt, receipts, creates, ambiguous, clerk, crashes>>

\* reserve_attempt: SCHEDULED to EXECUTING, and the one attempt of the
\* operation key.  A plan that is no longer SCHEDULED ends the whole tick.
MayReserve_Stale(p) == TRUE
MayReserve(p) == plan[p] = "scheduled" /\ attempt[p] = "none"

Reserve(w, p) ==
  /\ worker[w].pc = "next" /\ p \in worker[w].due
  /\ IF MayReserve(p)
       THEN /\ plan' = [plan EXCEPT ![p] = "executing"]
            /\ attempt' = [attempt EXCEPT ![p] = "pending"]
            /\ worker' = [worker EXCEPT ![w] = [pc |-> "reserved", due |-> @.due \ {p},
                                                plan |-> p, outcome |-> "none"]]
       ELSE /\ worker' = [worker EXCEPT ![w] = AtRest]
            /\ UNCHANGED <<plan, attempt>>
  /\ UNCHANGED <<receipts, creates, ambiguous, clerk, crashes>>

Run(w) ==
  LET p == worker[w].plan IN
  /\ worker[w].pc = "reserved"
  /\ IF attempt[p] = "pending"
       THEN /\ attempt' = [attempt EXCEPT ![p] = "running"]
            /\ worker' = [worker EXCEPT ![w].pc = "running"]
       ELSE /\ worker' = [worker EXCEPT ![w] = AtRest]
            /\ UNCHANGED attempt
  /\ UNCHANGED <<plan, receipts, creates, ambiguous, clerk, crashes>>

\* What a handler may return: whole if it is an object with the fields status,
\* ok and mutated.  Of the statuses only unknown is told apart.
Answers == [whole : BOOLEAN, ok : BOOLEAN, mutated : BOOLEAN, status : {"unknown", "other"}]
Claims(answer) == answer.whole /\ answer.ok /\ answer.mutated
Unclear(answer) == answer.whole /\ answer.status = "unknown" /\ ~Claims(answer)

\* run_adapter makes a failure of an answer that is not whole, whatever its
\* status was and whatever the handler had done by then.
Failed == [whole |-> TRUE, ok |-> FALSE, mutated |-> FALSE, status |-> "other"]
RunAdapter(answer) == IF answer.whole THEN answer ELSE Failed

\* What the tick takes the envelope for: ok and mutated is a success, the
\* status unknown is unknown, everything else has failed.
Verdict_AsIs(envelope) == envelope.status
Verdict_OkOnly(envelope) == IF envelope.ok THEN "succeeded" ELSE "failed"
Verdict(envelope) ==
  IF envelope.ok /\ envelope.mutated THEN "succeeded"
  ELSE IF envelope.status = "unknown" THEN "unknown" ELSE "failed"

\* The handler answers.  It claims a post only if it made one; whatever else it
\* says, a failure included, may follow a post or none.
Dispatch(w, answer, posted) ==
  LET p == worker[w].plan IN
  /\ worker[w].pc = "running"
  /\ Claims(answer) => posted = 1
  /\ creates' = [creates EXCEPT ![p] = @ + posted]
  /\ ambiguous' = IF Unclear(answer) THEN ambiguous \cup {p} ELSE ambiguous
  /\ worker' = [worker EXCEPT ![w] = [@ EXCEPT !.pc = "answered",
                                               !.outcome = Verdict(RunAdapter(answer))]]
  /\ UNCHANGED <<plan, attempt, receipts, clerk, crashes>>

\* The adapter raises, before the post or after it: nothing catches it.
DispatchRaises(w, posted) ==
  /\ worker[w].pc = "running"
  /\ creates' = [creates EXCEPT ![worker[w].plan] = @ + posted]
  /\ worker' = [worker EXCEPT ![w] = AtRest]
  /\ UNCHANGED <<plan, attempt, receipts, ambiguous, clerk, crashes>>

SettleAttempt_Forgotten(w) ==
  /\ worker[w].pc = "answered"
  /\ worker' = [worker EXCEPT ![w].pc = "settled"]
  /\ UNCHANGED <<plan, attempt, receipts, creates, ambiguous, clerk, crashes>>
SettleAttempt(w) ==
  LET p == worker[w].plan IN
  /\ worker[w].pc = "answered"
  /\ IF attempt[p] = "running"
       THEN /\ attempt' = [attempt EXCEPT ![p] = worker[w].outcome]
            /\ worker' = [worker EXCEPT ![w].pc = "settled"]
       ELSE /\ worker' = [worker EXCEPT ![w] = AtRest]
            /\ UNCHANGED attempt
  /\ UNCHANGED <<plan, receipts, creates, ambiguous, clerk, crashes>>

SettlePlan(w) ==
  LET p == worker[w].plan IN
  /\ worker[w].pc = "settled"
  /\ IF plan[p] = "executing"
       THEN /\ plan' = [plan EXCEPT ![p] = worker[w].outcome]
            /\ worker' = [worker EXCEPT ![w] = [AtRest EXCEPT !.pc = "next",
                                                               !.due = worker[w].due]]
       ELSE /\ worker' = [worker EXCEPT ![w] = AtRest]
            /\ UNCHANGED plan
  /\ UNCHANGED <<attempt, receipts, creates, ambiguous, clerk, crashes>>

EndTick(w) ==
  /\ worker[w].pc = "next" /\ worker[w].due = {}
  /\ worker' = [worker EXCEPT ![w] = AtRest]
  /\ UNCHANGED <<plan, attempt, receipts, creates, ambiguous, clerk, crashes>>

CrashWorker(w) ==
  /\ worker[w].pc # "idle" /\ crashes < MaxCrashes
  /\ worker' = [worker EXCEPT ![w] = AtRest]
  /\ crashes' = crashes + 1
  /\ UNCHANGED <<plan, attempt, receipts, creates, ambiguous, clerk>>

------------------------------------------------------------------------------
(* publish handoff, publish confirm                                         *)

\* update_plan_status_with_receipt: compare-and-set and receipt, or neither.
StatusIs_Unchecked(p, expected, receipt) == TRUE
StatusIs(p, expected, receipt) == plan[p] = expected /\ receipt \notin receipts[p]

Transition(p, expected, to, receipt) ==
  IF StatusIs(p, expected, receipt)
    THEN /\ plan' = [plan EXCEPT ![p] = to]
         /\ receipts' = [receipts EXCEPT ![p] = @ \cup {receipt}]
    ELSE UNCHANGED <<plan, receipts>>

BeginHandoff(c, p) ==
  /\ clerk[c].pc = "idle"
  /\ plan[p] \in {"approved", "handoff_ready"}
  /\ clerk' = [clerk EXCEPT ![c] = [pc |-> IF plan[p] = "approved" THEN "prepare" ELSE "open",
                                    plan |-> p, seen |-> plan[p]]]
  /\ UNCHANGED <<plan, attempt, receipts, creates, ambiguous, worker, crashes>>

Prepare(c) ==
  LET p == clerk[c].plan IN
  /\ clerk[c].pc = "prepare"
  /\ Transition(p, "approved", "handoff_ready", "ready")
  /\ clerk' = [clerk EXCEPT ![c] =
                 IF StatusIs(p, "approved", "ready")
                   THEN [@ EXCEPT !.pc = "open", !.seen = "handoff_ready"] ELSE Away]
  /\ UNCHANGED <<attempt, creates, ambiguous, worker, crashes>>

\* The browser opens, or it does not and the command ends.
OpenIntent(c) ==
  /\ clerk[c].pc = "open"
  /\ \/ clerk' = [clerk EXCEPT ![c].pc = "opened"]
     \/ clerk' = [clerk EXCEPT ![c] = Away]
  /\ UNCHANGED <<plan, attempt, receipts, creates, ambiguous, worker, crashes>>

FinishHandoff(c) ==
  /\ clerk[c].pc = "opened"
  /\ Transition(clerk[c].plan, "handoff_ready", "handoff_opened", "opened")
  /\ clerk' = [clerk EXCEPT ![c] = Away]
  /\ UNCHANGED <<attempt, creates, ambiguous, worker, crashes>>

BeginConfirm(c, p) ==
  /\ clerk[c].pc = "idle"
  /\ plan[p] \in {"handoff_ready", "handoff_opened"}
  /\ clerk' = [clerk EXCEPT ![c] = [pc |-> "confirm", plan |-> p, seen |-> plan[p]]]
  /\ UNCHANGED <<plan, attempt, receipts, creates, ambiguous, worker, crashes>>

Confirm(c) ==
  /\ clerk[c].pc = "confirm"
  /\ Transition(clerk[c].plan, clerk[c].seen, "published_confirmed", "confirmation")
  /\ clerk' = [clerk EXCEPT ![c] = Away]
  /\ UNCHANGED <<attempt, creates, ambiguous, worker, crashes>>

CrashClerk(c) ==
  /\ clerk[c].pc # "idle" /\ crashes < MaxCrashes
  /\ clerk' = [clerk EXCEPT ![c] = Away]
  /\ crashes' = crashes + 1
  /\ UNCHANGED <<plan, attempt, receipts, creates, ambiguous, worker>>

------------------------------------------------------------------------------
WorkerStep(w) ==
  \/ \E p \in Plans : Deny(w, p) \/ Reserve(w, p)
  \/ Run(w)
  \/ \E answer \in Answers, posted \in {0, 1} : Dispatch(w, answer, posted)
  \/ SettleAttempt(w) \/ SettlePlan(w) \/ EndTick(w)

Next ==
  \/ \E p \in Plans, s \in {"scheduled", "approved"} : SavePlan(p, s)
  \/ \E w \in Workers :
       \/ \E due \in SUBSET Plans : StartTick(w, due)
       \/ WorkerStep(w)
       \/ \E posted \in {0, 1} : DispatchRaises(w, posted)
       \/ CrashWorker(w)
  \/ \E c \in Clerks :
       \/ \E p \in Plans : BeginHandoff(c, p) \/ BeginConfirm(c, p)
       \/ Prepare(c) \/ OpenIntent(c) \/ FinishHandoff(c) \/ Confirm(c) \/ CrashClerk(c)

Spec == Init /\ [][Next]_vars

------------------------------------------------------------------------------
\* Every variable has its type.
PlanStatus == {"approved", "handoff_ready", "handoff_opened", "scheduled", "executing",
               "published_confirmed"} \cup Outcome
AttemptStatus == {"pending", "running"} \cup Outcome
WorkerState == [pc : {"idle", "next", "reserved", "running", "answered", "settled"},
                due : SUBSET Plans, plan : Plans \cup {NoPlan}, outcome : Outcome \cup {"none"}]
ClerkState == [pc : {"idle", "prepare", "open", "opened", "confirm"},
               plan : Plans \cup {NoPlan}, seen : PlanStatus \cup {"absent"}]
TypeOK ==
  /\ plan \in [Plans -> PlanStatus \cup {"absent"}]
  /\ attempt \in [Plans -> AttemptStatus \cup {"none"}]
  /\ receipts \in [Plans -> SUBSET {"ready", "opened", "confirmation"}]
  /\ creates \in [Plans -> Nat]
  /\ ambiguous \subseteq Plans
  /\ worker \in [Workers -> WorkerState]
  /\ clerk \in [Clerks -> ClerkState]
  /\ crashes \in 0..MaxCrashes

\* "No blind retry after ambiguous create" (README.md:207): whatever ticks race
\* over the same due plans, die or see their adapter raise, the platform gets
\* at most one post for an operation key.
CreatedOnce == \A p \in Plans : creates[p] <= 1

\* The two transactions of an outcome leave no lie behind: a plan that has
\* ended says what its attempt says, and never ends before it.
PlanFollowsAttempt ==
  \A p \in Plans : plan[p] \in Outcome => attempt[p] = plan[p]

\* The rows never say more than the handler knew: a plan is stored as succeeded
\* only after its post, and once a handler has answered that it cannot tell
\* ("use unknown + reconcile", README.md:207), plan and attempt become unknown
\* or, after a crash, stay where they were: no race, crash or raise makes an
\* end or a new try of it.  A failed plan may have been posted: run_adapter and
\* the last branch of the tick see to that, so that nothing is said of it.
OutcomeIsTrue ==
  \A p \in Plans : /\ plan[p] = "succeeded" => creates[p] = 1
                   /\ p \in ambiguous => /\ plan[p] \in {"executing", "unknown"}
                                         /\ attempt[p] \in {"running", "unknown"}

\* A confirmed publication is final: neither a handoff that was still opening
\* its browser nor a second confirmation moves the plan again.
ConfirmedIsFinal ==
  [][\A p \in Plans : plan[p] = "published_confirmed" => plan'[p] = "published_confirmed"]_vars

=============================================================================
