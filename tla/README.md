# influenzer: verification project

TLA+ modules, TLC configurations and TLAPS proofs for influenzer, an offline-first
operator that looks at public GitHub repositories, keeps at most one story at a
time in `state.db`, dresses it as one draft, and leaves publishing to a human or
to a policy-gated scheduler. Paths below are relative to the repository.

Run a configuration with `tlc -config admit.cfg MC_StoryLock`, check a proof with
`tlapm StoryLockProofs.tla`.

## 1. Inventory

| Part | State | Operations | Interacts with |
|---|---|---|---|
| Story lock (`influenzer/storage.py`, `brief_admit.py`, `hom_feedback.py`, `hom_verdict.py`) | tables `briefs`, `operator_scores`, `operator_drafts` | `admit_brief`, `save_brief`, `persist_operator_decision`, `record_draft_verdict` | every process that opens `state.db` |
| Operator tick (`scheduler.py`, `tick.py`, `tick_all.py`) | `tick.lock` (flock), the list of pending briefs in memory | `guarded_tick`, `run_operator_tick` | story lock; supervised by launchd or systemd |
| Monday look (`scan_due.py`, `brief_scan.py`, `hom_pass.py`, `hom_watch.py`) | `github.looking` and `github.scanned` rows of `domain_events`, the watch | `scan_github_if_due`, `claim_github_look`, `scan_github`, `record_github_scan`, `run_pass` | gh, story lock, `tick.lock` |
| Publish plans (`scheduler.tick`, `storage.py`, `domain.py`) | `publish_plans`, `publication_attempts`, `receipts` | `reserve_attempt`, `update_attempt_status`, `update_plan_status` | adapters, policy |
| Manual handoff (`cli.py`) | the same tables | `publish handoff`, `publish confirm` | browser, operator |
| gh child (`github_survey/gh.py`, `brief_scan.look_hard_gh`) | `GhCancellation`: flag, child handle, two locks | spawn, cancel, clear, kill, reap | one thread per call, one per reaper |
| Migrations (`migrations.py`) | schema version, tables, columns | `migrate` | every `StateRepository` that opens |
| Scoring pipeline (`hom.py`, `playbook.py`) | none | `score_brief`, `choose_arena`, `drop_repeat_*` | reads of the story lock |
| Text gates and dressing (`hom_draft.py`, `playbook.py`) | none | regular expressions over prose | scoring |
| Survey, pack, feedback collection (`github_survey`, `github_pack`, `github_feedback`) | none | pure functions of gh's answers | looks |
| Policy (`policy.py`) | none | `evaluate_policy` | scheduler |
| Adapters (`adapters/`) | fake provider's idempotency table | `run_adapter` | scheduler |
| Artifact store, accounts, campaigns, metrics, brands (`storage.py`) | one row or file each | saves | CLI |
| Security, config, effectors, envelope, Fala result, plugin entry | none that persists | validation and printing | CLI |

What is hard about it:

* **Many processes, one file.** Looks, tick processes, `brief ingest` and the gate
  are separate commands on one SQLite file. Only tick, tick-all and pass take
  `tick.lock`; `brief scan`, `scan-due`, feedback, ingest, verdict and publish do
  not. Each reads outside a transaction and writes in one
  `BEGIN IMMEDIATE` transaction later, which repeats some of its reads.
* **Crashes between transactions.** A look writes a claim, a brief and a record;
  a dispatch writes a reservation, a running attempt, an outcome of the attempt
  and one of the plan. A process can die between any two.
* **Ambiguous answers.** A platform may have created the post whose creation failed.
* **Threads around one child.** The worker that owns a gh process, the deadline that
  gives it up and the reaper that kills it race for the same handle and process id.
* **Time.** A launch window of 48 hours from the oldest open draft, and a look
  per calendar Monday.
* **Silence by many lists.** About a hundred patterns may end a story, asked by hand in the survey,
  the pack, admission, scoring, the gate of the arena, dressing and the body. A pattern that is
  missing in one list lets something through, or burns a story: an admitted brief that is not
  drafted is told for good, since admission never takes its URLs again.
* **gh that fails.** Each flag of a repository is a call of its own, and a call that fails says no.

The properties that make each part correct are in section 3, the complete list
of hazards with their lines is in `PROJECT.json`.

## 2. Modules

| Module | What it is |
|---|---|
| `StoryLock` | the tables of the story lock, looks, tickers, ingestion and the gate |
| `OneStory` | what the lock promises: one story on the floor at a time |
| `MC_StoryLock` | small instances of `StoryLock` |
| `StoryLockProofs` | theorems about `StoryLock` |
| `LookClaim`, `MC_LookClaim` | the Monday look at one repository |
| `LookClaimProofs` | theorems about `LookClaim` |
| `PublishPlan`, `MC_PublishPlan` | a publish plan from SCHEDULED or APPROVED to its end |
| `PublishPlanProofs` | theorems about `PublishPlan` |
| `GhCall`, `MC_GhCall` | the gh calls of a look: deadline, worker, reaper, child |
| `GhCallProofs` | theorems about `GhCall` |
| `Migration`, `MC_Migration` | opening `state.db`: migration beside other openers and writers |
| `MigrationProofs` | theorems about `Migration` |
| `Playbook` | arenas, URL kinds, marks of a text, what each arena asks, the choice of the arena |
| `Score` | `score_brief`: the chain of signs, the gates of an arena |
| `Dress` | `dress_brief`, the dressers, the gates of the body, `apply_brief` |
| `Angle`, `MC_Angle` | one brief at a time through scoring and dressing, by the round or by `hom-draft` |
| `CopyProofs` | lemmas about the operators of scoring and dressing: what is worn, what a costume leaves in it, what a draft has passed, what one place more in a list changes |
| `AngleProofs` | theorems about `Angle` |
| `Survey` | what a look makes of a repository: survey, pack, comments, what admission asks |
| `Monday`, `MC_Monday` | the weekly rhythm: the site, the passes, the operator |
| `MondayProofs` | theorems about `Monday` |

`Score`, `Dress` and `Survey` are operators only; each extends the one before (`Playbook`, `Score`,
`Dress`). `Angle` and `Monday` are the two machines over them. `StoryLock` does not use them: there
what a brief scores is any outcome that the tables allow, and `Monday` has the lock with one process.

Definitions whose name has a suffix after an underscore (`MayAdmit_Unlocked`) are
faulty variants of the definition they stand before: what the code would be with
a dropped check, a stale read or a wrong bound. No behaviour uses them. Putting
one in the place of the original makes TLC find the property that guards it
violated, which is how we know that each property says something about the code.

### StoryLock

A brief is the record of the keys the code compares: project, artifact URL,
release, HN submission URL and body hash. These are constants of a brief, because
the code computes them from facts that never change after admission.

| Model | Code |
|---|---|
| `status`, `draft` | rows of `briefs` and `operator_drafts`; `silent` stands for kill, changelog and undressable, `same_release` is kept apart for run `release` |
| `lock`, `AcquireTickLock`, `ReleaseTickLock` | `try_acquire_tick_lock`, `TickLock.close`; a process that finds the lock taken does nothing |
| `Pack`, then `Admit` | the reads of `admit_pack` / `admit_feedback`, then the transaction of `admit_brief` |
| `Ingest` | `brief ingest`, which saves without asking the lock |
| `StartRound`, `ListPending`, `ScoreBrief`, `Persist`, `EndRound` | one round of `run_operator_tick` |
| `Crash` | the process dies, or an exception leaves the command; the kernel drops the flock |
| `PickDraft`, `RecordVerdict` | the two halves of `apply_verdict` |

Abstractions. The text of a brief decides in the code whether it is killed and
which arena it gets; in the model any outcome is possible that the tables allow,
so the model has more behaviours than the code. The queue of pending briefs is a
set, since an ingested brief carries any `created_at`. The reads before a
transaction (`Pack`, `ScoreBrief`) are one step: what they read about told briefs, URLs and
releases only grows, the story and stack reads of a look are made again in the
transaction, and the stack that a scorer reads can otherwise only shrink by a
hold. With `--draft-id` any open draft can be the one at the gate. A look that
dies is a look that never takes its `Admit` step.

### LookClaim

| Model | Code |
|---|---|
| `latest`, `scans` | newest `github.looking`/`github.scanned` event of the repository; all `scanned_at` |
| `briefs` | `created_at` of the github-scan briefs of the repository |
| `Begin` .. `Record` | `scan_github_if_due`, one action per read or write that another process can come between: owner check, due check, second read of the state, claim, story check of `scan_github`, admission, record |
| `Passes`, `Loops` | runs that hold `tick.lock` (hom-pass, tick); those a supervisor restarts |
| `StoryChanges` | everything else that opens or closes the story lock |

A week has `WeekHours` hours of which the first `MondayHours` are Monday. Europe/Warsaw
and its clock changes are abstracted; only "same Monday" and "is Monday" matter.

### PublishPlan

| Model | Code |
|---|---|
| `StartTick`, `Deny`, `Reserve`, `Run`, `Dispatch`, `DispatchRaises`, `SettleAttempt`, `SettlePlan`, `EndTick` | the loop of `scheduler.tick` |
| `RunAdapter`, `Verdict` | what `run_adapter` makes of a handler's answer; the three branches of the tick on the envelope |
| `BeginHandoff`, `Prepare`, `OpenIntent`, `FinishHandoff`, `BeginConfirm`, `Confirm` | `publish handoff`, `publish confirm` |
| `Transition` | `update_plan_status_with_receipt`: compare-and-set with a receipt that must be new |
| `creates` | posts on the platform (outside the program) |

A handler may return anything: an envelope that is whole or not, with any `ok`, `mutated` and status,
before or after a post, or raise. Two things are assumed of it: a whole answer with `ok` and `mutated` follows a
post, and a call posts at most once. A failure follows a post or none: `run_adapter` fails
whatever is not an object or lacks a field (adapters/base.py:62-66), and the last branch of the tick takes a whole
answer with `mutated` and without `ok`. `ambiguous` remembers the plans whose handler gave a whole answer
that it cannot tell; the code keeps no such list. The refusal of an undisclosed paid body in `run_adapter` is part of `Deny`: `evaluate_policy`
asks the same of the same body before. No shipped command hands due
plans to `tick` today (`tick-all` supplies none) and the live adapters that ship reject; the
module models what the function does for a caller that supplies plans and
handlers, as the tests do. A claimed plan that another tick took first raises
out of `reserve_attempt` and ends the whole tick: `Reserve` goes to rest.

### GhCall

| Model | Code |
|---|---|
| `caller`: `Start`, `Answer`, `Deadline`, `Cancel` | the looking thread in `look_hard_gh`; `GhCancellation.cancel` |
| `worker`: `CheckCancelled`, `Fork`, `PopenFails`, `PopenReturns`, `Publish` | `GhCancellation.spawn`; `Publish` is its second block under `_lock` |
| `worker`: `Read`, `ReadTimeout`, `Finish` | `communicate` in `_run_gh_child`, `clear`, end of the temporary directory of `run_gh` |
| `reaper` | the thread that `cancel` starts when a child is published |
| `Kill`, `Wait`, `Reap`, `AlreadyReaped` | `_kill_gh_child`, by the worker or the reaper |
| `wlock` | `_waitpid_lock` of `Popen`, which the code takes to check `returncode` and signal in one step |
| `HoldsStateLock` | where a stalled worker holds `_lock`: nowhere, since `Popen` is called outside it |

Left out: the allowlists of arguments and environment, the decoding of the answer, and
a `killpg` that is refused (a `PermissionError` would leave the child to its own exit). A
grandchild that keeps the pipes open is covered by `ReadTimeout`, which may come at any time.
Process ids are reused as soon as a child is reaped, and never before.

### Migration

| Model | Code |
|---|---|
| `version`, `schema` | the stamp in `schema_meta`; what the five scripts create |
| `profile`, `pillars`, `events` | one row of `brand_profiles`, named by its hash; its `pillars_json`; the profiles that `project.created` and `brand_profile.saved` events hold whole |
| `Connect`, `RunScript`, `LookForColumn`, `AddColumn`, `FindLost`, `Recover`, `Stamp` | `migrate`, `_migrate_v5` and `_recover_v5_pillars`, statement after statement |
| `Save`, `Repair`, `Close` | `save_project` and `save_brand_profile`, `repair_brand_pillars`, `close` of a process that is through |
| `Crash` | a process that dies while it migrates |

A script of `CREATE ... IF NOT EXISTS` statements is one step, since a process that dies inside
it leaves only what the next run of it finds and skips. One profile is enough: recovery goes row by
row and its `UPDATE` names the row. A newer schema and a pillars column of a foreign
type are refused without any change and left out, as is a lock wait over 30 seconds.

### Playbook, Score, Dress, Angle

A regular expression of the playbook is one *mark*, and a text is the set of the marks it shows:
`{}` is plain copy of ordinary length, `"short"` less than a line of substance, `"bare"` a text that is
nothing but the phrase of its other marks, so that nothing is left when that phrase is cut out. A
URL is one of the kinds that the host tables tell apart. What a pattern matches is left out; which
text is asked for which mark, by whom and in what order, is what the modules are about.

| Model | Code |
|---|---|
| `Lines`, `Shows`, `TextShows` | the blob of `_facts_blob` (text, kind and URL of each fact), the patterns that also read URLs, those that read texts |
| `Chain`, `Verdict`, `Derived` | the `if` chain of `score_brief` in its order; which signs are a changelog line and when |
| `GateOrder`, `GateSigns`, `Gate` | `_gate_violation`, `ARENA_GATES` |
| `ChooseArena`, `StackMismatch`, `HnCamp` | `choose_arena`, `stack_costume_reason`, `hn_camp_reason` |
| `Worn`, `Copy`, `Slot` | `_copy_bits` |
| `Undressable`, `BodyRefused`, `LastStrip` | the refusals of `dress_brief` before and after the costume, its last strip |
| `DressGithub` ... `Costume` | the eleven dressers |
| `Apply` | `apply_brief` in a round of the operator, under the brand of the project and the living stack |
| `DressPayload` | `hom-draft`: a score that comes as JSON and may name any arena |

The subsequences that the code filters out of a list (`Wearable`, `WornFacts`, `Copy`) are written with
`Picked(seq, places)`, a function from the new places to the chosen ones in their order: the provers can
reason about it, and not about `SelectSeq`, which takes an operator. `(UNION A) \cap B` always
carries its parentheses: the model checker and the prover give that expression different
precedences without them.

Left out: canon links, wave checklists, wording of templates, hashes, and every length beyond too
long or not.

### Survey, Monday

A site has flags, posts in the order of their publication, a README and a description. A post
carries the Mondays in whose window it falls (`seen`): the survey looks back seven times 24 hours
(two times 24 for an open issue) and the look comes on a calendar Monday at any hour, so that a post
may be seen twice or never. `deaf` is the set of the gh calls of a look that fail.

| Model | Code |
|---|---|
| `Probed`, `SurveySilent` | the five `repo_is_*` probes, `collect_survey`, `survey_public_repo`, the `_payload_*` checks of `scan_github` |
| `PackedFacts`, `PackSilent`, `PackedBrief` | `facts_from_survey`, `pack_survey`, `choose_brief_id` |
| `CommentFacts`, `FeedbackSilent`, `FeedbackBrief` | `collect_comments`, `pack_comments`, `admit_feedback` |
| `Inbound` | `strip_inbound_instructions` and `sanitize_inbound_facts`: an order to the reader is cut out |
| `AlreadyTold`, `Repeats`, `Admissible` | `already_told`, the HN and release keys, the checks of `admit_pack` |
| `Listen`, `Look`, `NotDue`, `ScoreNext`, `EmitAngle` | `run_pass`: `collect_and_admit`, `scan_github_if_due`, `run_operator_tick`, `emit_angle` |
| `Repeated`, `BodyIsOpen` | `drop_repeat_angle`, `drop_repeat_release`, `drop_repeat_hn_url`; the body check of `persist_operator_decision` |
| `Hold`, `Ingest` | `verdict hold`, `brief ingest` |
| `Post`, `EditReadme`, `SetFlags` | GitHub, outside the program |

Abstractions. The clock is the number of the Monday. A launch window is over by the next Monday. One
comment of a thread is enough, since `pack_comments` takes one. A failed call is one that gives
nothing; a rate limit on the tags or the README, which ends the look in the code, is covered by the
failure of a required call. Between the steps of a pass nobody else admits but `brief ingest`; two
looks that race are `LookClaim` and `StoryLock`. The site does not change while a round scores, which
reads nothing of it. The fields isTemplate and templateRepository that `survey.py` checks are never
asked of gh (`REPO_JSON_FIELDS`), so that only the probe knows a template.

## 3. Runs

| Run | Instance | Shows |
|---|---|---|
| `admit` | 3 briefs of 2 projects, one packed by both looks, 2 looks, 1 ticker, 1 gate, window of 2 of 3 instants, 1 crash | `OneOpenStory`, `ArtifactToldOnce`, `HeldStaysHeld`, `OneStoryAtATime` (refinement of `OneStory`), `PendingIsScored` (liveness) |
| `score` | 4 briefs of one project, 3 ingested, 2 tickers, 1 gate, 1 crash | `OneHnPerUrl`, `OneDraftPerRelease`, `NoBodyTwiceOpen`, `WindowOfTheFirst` |
| `look` | 2 projects, 2 passes, 1 in a loop, 8 hours of 3-hour weeks, 2 crashes | `OneBriefPerMonday`, `DoneLookStaysDone`, `LookFinishes` (liveness) |
| `publish` | 3 plans, 2 ticks, 2 clerks, 2 crashes | `CreatedOnce`, `PlanFollowsAttempt`, `OutcomeIsTrue`, `ConfirmedIsFinal` |
| `migrate` | 3 openers, any version, 2 profiles with pillars and 1 without, 1 crash | `StampIsTrue`, `PillarsFitProfile`, `EvidenceIsUsed`, `StrandedByCrashOnly`, `EveryoneOpens` (liveness) |
| `gh` | 2 calls that follow each other, 2 process ids | `OnlyOwnChild`, `NoReaderLeftBehind`, `DirectoryOutlivesChild`, `DeadlineWins` and `ChildIsReaped` (liveness) |

| `angle` | some 36,000 briefs: every header with nine shapes of facts, every mark and every URL in each place of a shape, pairs of marks that excuse each other; three brands; every stack | `OnlyCleanCopySpeaks`, `ShipClaimShowsShip`, `DraftIsWorn`, `EvidenceStays`, `PlainShipSpeaks` |
| `monday` | three Mondays; three plain sites with three changes (post, edit, flag, outage, hold, ingest) in any order and a fourth with two; a thousand sites with one mark in one text, or two marks that end a brief together, and no change | `ReleaseDraftedOnce`, `OnlyBlindLooksAdmit`, `StageWasSeen`, `ScannedSpeaks` |

Every concurrent module has one type invariant, checked in its first run. The keys of the
briefs in `MC_StoryLock` overlap pairwise (same artifact, same release, same URL
and body), so that each duplicate check has a pair to catch. Three briefs are enough for a
story, its rival and the one after; two of every actor are enough for a race, since every
check-then-write pair involves two processes. The clocks are long enough for a
window to close, and for a second Monday to begin, with drafts and looks of before. Two
calls are enough for a worker of the first to run beside the second, whose child may get the
process id that the first has just given back. Three openers let one be through and write while
two others race; two profiles with different pillars let a recovery hit the wrong one.

The properties of `angle` are about every brief apart, so that two facts, or three with a linked host,
are enough for each rule: no rule reads more than a fact and the rest, and the pairs cover the marks
that excuse another one. The torn briefs put what scoring reads anywhere (a label, a seed, a reason) into
a place that dressing does not wear. `KnownGap` names what `DraftIsWorn` lets pass: briefs that are
scored as a draft and then not dressed, whose story is told and never written. `DraftsAreWorn`
(section 5) proves that the list is complete. It was not when it held only what TLC had met on
small briefs: the proof asked for the stub that only dressing weighs, the labelled slot whose text
does not show the phrase, the toot and the letter whose gift sits in a stub, and the better idea that a
costume cuts off. Proof attempts also found what small briefs had not shown of the other two: a plain ship
under a reply to somebody else is silent (`PlainShipSpeaks` now excepts it), and one more line of evidence makes
a costume that cuts copy cut something else, the better idea of a clone, the package beside a mislabelled one,
or the only line of a toot that is no clip (`EvidenceStays` excepts these three). `Beside` in
`MC_Angle` holds such briefs. In `monday` `MaxFacts` is 3
where the code has 8, so that the cap cuts the README off a pack, which takes eight posts in the code.
Three Mondays are a release, its window, and one past it; three changes suffice for a tag,
its promotion to a release and a hold, or for a failed probe beside a flag. `Burns` of `ScannedSpeaks`
names what is admitted and then silenced: the patterns that scoring asks and the looks do not, and
the window that a hold uncovers. `ScannedStoriesSpeak` (section 5) proves the list complete; it was not while it
held only what TLC had met: the proof asked for the open-source claim whose licence stands in another
text, for the pack that noise fills up to the last place so that the README is cut off, for the bump or the stars that the
description shows when dressing weighs it alone, and for the hold between a look and its round. `Together`
and `Later` in `MC_Monday` hold such sites.
`monday` may rest when the last Monday is over; its cfg says so.

`migrate` shows a fault of the code that no text of the repository denies: the column of version 3
is added without `IF NOT EXISTS`, so a process that dies between that `ALTER` and the stamp makes
every later open fail (`Stranded`). `StrandedByCrashOnly` says that nothing else does, however
many processes open the database at once, and `EveryoneOpens` that otherwise whoever tries again
gets in.

Four runs show where the code and what is written about it part:

* `verdict_race` (`OneOpenStory`): two operators stamp the same draft. The
  `pass` that was picked before the `hold` is recorded after it, when another story
  is already open. `record_draft_verdict` asks only that the row exists.
* `release` (`FirstOfReleaseSpeaks`): `release_story_keys` counts every other
  brief, so two briefs of a release that wait together silence each other. The
  comment says only an earlier story can.
* `second_gh` (`OneSurveyAtATime`): a look claimed between the owner check and
  the second read of its state is mistaken for a look to resume; two projects survey one
  repository at once. Under `tick.lock` this cannot happen; `scan-due` does not take it.
* `second_release` (`AlreadyToldWasTold`): each pack of a repository ends with the URL of its
  README, and `already_told` compares every URL. After the first scanned brief no later release is
  ever admitted, unless the README moves or eight facts come before it.

Met while modelling, and not stated by a run:

* `living_stack_arena` starts the one window at the oldest open github/hn draft. When that one stays
  open past its 48 hours, later drafts have no window at all and two may be written in a row
  (playbook.py:230-231 promises one angle in a window). `WindowOfTheFirst` states what does hold.
* The same rule silences a scanned story for good: a look asks for a living window and finds none, because the
  oldest open draft is past its own; somebody holds that draft before the round, the window of the next one
  (written in the same week) comes to light, and the round ends the brief as `living_stack` (storage.py:1183-1206,
  playbook.py:287). Its URLs never come back. `StackUncovered` names exactly this.
* README.md asks for `unknown` and reconciliation after an ambiguous create; an adapter that raises
  leaves the plan EXECUTING for ever. The blind retry is prevented (`CreatedOnce`), the
  reconciliation too.
* A plan may be FAILED and posted. `run_adapter` makes a terminal failure of an answer that lacks
  `ok` or `mutated`, even with the status `unknown` (adapters/base.py:62-66), and the tick stores a failure for `ok`
  false with `mutated` true (scheduler.py:222-256). FAILED has no way out in `transition_plan`, so that such a post is
  neither repeated nor reconciled. `OutcomeIsTrue` therefore says nothing of failed plans.
* Probes fail open: a fork, an empty tree or a template is admitted when its own probe failed
  (`OnlyBlindLooksAdmit` says that it takes exactly that), and comments are never asked for a template.
* Tags know no window, and a headline merge without a release never becomes a brief: the pack of
  merges alone is a merge log. The brief ids that `choose_brief_id` makes of a pull request are hardly ever used.
* `costume_language_reason` and, in scoring, `looks_like_template` have no caller.
* The comment above `NEWS_HOSTS` lets news stand beside a repository as evidence; `unquotable_reason`
  ends any brief that links one. `EvidenceStays` therefore excepts news.
* A kind of twelve letters or more (`issue_comment`, `release_asset`) is a line of the blob that counts as the
  insight of a court and the gift of a letter.
* A github draft made of comments keeps the survey of the same Monday out, and a release of that
  week may be in no later window.

## 4. Fairness

`FairSpec` of `StoryLock` asks weak fairness of each ticker's steps: the loop is
supervised (`guarded_tick` keeps it alive, launchd or systemd restart it) and tries
`tick.lock` again. Looks and operators promise nothing; crashes are bounded by
`MaxCrashes`, without which a ticker that dies in every round scores nothing.
`FairSpec` of `LookClaim` asks weak fairness of the steps of a live run (gh has a
hard timeout) and strong fairness of `Begin` for supervised loops, because the lock may
be taken and released by others between two attempts. `PublishPlan` asks for none
and promises no progress: the code has no recovery that would justify it.
`FairSpec` of `GhCall` asks weak fairness of the three threads (`join` and `communicate` have
timeouts), and that a child that was sent SIGKILL exits. It asks nothing of `Popen`, which
may stall or start a child and never return, nor of a child that is left alone.
`FairSpec` of `Migration` asks weak fairness of every opener: a command or a supervised loop that
failed to open the database is started again, and every statement returns.

## 5. Proofs

All theorems hold for any values of the constants that satisfy the assumptions in
the modules (`BriefAssumption` and its neighbours say only that sets and functions have the right
domains).

`StoryLockProofs`. Type correctness comes first. `ReleaseSpeaksOnce` and
`ArtifactOnce` need one inductive invariant each: a brief that is drafted, or scored and
about to be, excludes every other brief of its release that is drafted; an admitted
artifact stays told. `HnOncePerUrl` rests on `LockInv`: a process that
is scoring holds `tick.lock`, so that what it read of the HN drafts is still true when it
persists. `OneStoryOnTheMachine`, `HoldIsFinal`, `BodyOnce` and
`ImplementsOneStory` assume `OneGate` (one operator stamps at a time), which `verdict_race`
shows to be necessary; `OneStoryOnTheMachine` and the refinement also assume that nothing is ingested past
the lock, which the code allows by design. Under `OneGate` a picked draft is still open when it is stamped.

`PublishPlanProofs`. The inductive invariant `PlanInv` says who owns a plan: a
plan that is EXECUTING with an attempt under way belongs to at most one tick
(`AloneInv`), a plan nobody claimed has no attempt and no post (`UnclaimedInv`), the number
of posts agrees with the stage of the attempt (`PostsInv`), an ended attempt claims no more than its handler
(`EndedInv`), and an answer that could not tell keeps plan and attempt open (`AmbiguousInv`). `CreatedOnce`,
`PlanFollowsAttempt` and `OutcomeIsTrue` follow. `ConfirmationIsFinal` needs that a clerk never
expects the status PUBLISHED_CONFIRMED (`ClerkInv`).

`GhCallProofs`. `SignalsStayOwn` needs `PidInv` (children that are not reaped have different
process ids, because an id is given out again only after the reap) and `ReaperInv` (a reaper
exists only for a cancelled call whose child was published); `MaySignal` then confines a signal
to its own child. `DirectoryIsSafe` follows from `ChildInv`, which ties the child's life to the
worker's place.

`MigrationProofs`. `StampInv` says which scripts the stamp and the place of each opener promise;
because the schema only grows, one opener cannot break what another relies on (`SchemaGrows`).
`PillarsInv` says that a profile about to be recovered has not changed unless the database was
stamped meanwhile, and then there is nothing left to recover. `OnlyCrashStrands` rests on
`PastGateStays`: a process past the script of version 3 stays past it until it stamps or dies.

`WindowIsKept` (`WindowOfTheFirst`) needs `WindowInv`: hours only grow, so that a round stands after
every draft that was written before it (`HourInv`), and a score that will be drafted has seen the
window of the first github/hn draft closed (`ClearInv`). Together with `LockInv` this outlives the
gap between the read of the stack and the transaction. It assumes `OneGate`, and nothing about
ingestion or the number of tickers.

`LookClaimProofs`. The inductive invariant `LookInv` says that the newest look event and the runs never
lie in the future (`ClockInv`), that an open look was claimed on a Monday without any record or
brief before it (`OpenInv`), and that a run that has found a look to be due knows a Monday on which
nothing was recorded or admitted (`FreshInv`). The last part outlives the steps between the check and the
record only while no other run looks, so `OneBriefAMonday` and `RecordedIsNotSurveyed` assume `AllPass`: every
look runs under `tick.lock`, as `hom-pass` and the loops do. Two `scan-due` commands may both
survey, which is run `second_gh`. `TypeCorrect` holds for any runs, and includes that the lock is
held exactly while a pass runs.

`CopyProofs` and `AngleProofs`. What is worn was said: `DraftWears` goes through the eleven costumes and
bounds the marks and the URL of a body by those of the brief's facts. `ScoreSpeaks` says what a
scored draft has passed: no sign of the chain, no sign of its arena's gate. `CleanCopy` and `ShipShown`
put the two together, for any list of facts; the lists are arbitrary, so that neither the order
nor the number of facts matters. `DraftsAreWorn` is the converse. From `Scored` (all that a draft has
passed) and no gap it shows that none of the refusals of `dress_brief` holds
(`DressesWhatIsScored`), that each costume finds what it must show (`BodyFits`, with one lemma for each
costume), and that the gates of the body, which read the body where scoring read the brief, give the
same answer (`BodyPasses`). So a brief is told and not written on the kinds of
`KnownGap` only. `PlainShips` proves the other half of what a silent brief may mean: each sign of the chain
and of the gate, each refusal and both costumes are gone through for a list of any number of plain facts.

`EvidenceIsKept` compares two briefs: one that speaks, and the same with one plain linked fact more
at any place (`OneMore`). Its relation asks what the rules read of a list: the same facts beside the
new one, and the first and the last fact that a rule picks is the new one or the one picked before
(`Beside`, `Behind`). `TakenOut` shows that removing a place gives such a pair, and a few lemmas of
`CopyProofs` carry the relation through filters, `Fills` and what is said of a fact; no induction
over the list is needed. Three steps follow. The longer brief raises no sign of the chain or of a gate that the
shorter one does not, and so has its score and its arena. Each of the eleven costumes keeps of the
longer list what it kept of the shorter one, or words of the same marks, and still finds what it
must show. The gates of the body then see no new mark and no new URL that they refuse. The three
exceptions of `EvidenceStays` are where a cut list lets the new line take the place of another: the costumes
need them there and nowhere else.

The only assumption of the module about briefs is that each is the record of its five fields, with known
kinds, URLs and marks.

`MondayProofs`. `LookInv` has three parts. The site keeps its four fields and its flags. A row of an
admitted brief keeps what its look saw: a survey that was not silent had a no from every probe of a
flag that is nevertheless set, and a README with its install line, demo and start; a row from
comments claims no demo and prefers no stage. A draft names a row of the list, and is worn in the
workshop if that row came from comments. This last part is where the two halves meet: a brief
that is not tryable and prefers nothing has no stage in `choose_arena` (`WorkshopScore`), and
`dress_brief` wears the arena of the score or nothing (`WorkshopDraft`). `OnlyBlindLooksAdmit` and
`StageWasSeen` follow, for every set of offers, outages, homes and ingested briefs and any number
of Mondays; the only assumption about the start is that a site has its four fields
and knows no other flags than `Flags`.

`ReleaseOnce` needs `KeyInv`: a brief that tells of a release by its URL or by its tag carries the key of it
(`ReleaseKeys`), since a pack speaks of one repository only, and two drafts have no key in common, since
`drop_repeat_release` compares with every drafted brief before it drafts the next. It
assumes `IngestsKeyed` of what comes past the looks: `release_story_keys` reads a
tag only beside links to one repository, so an ingested brief that links two can
repeat a tag.

`ScannedStoriesSpeak` says of a pack what `PlainShips` says of a plain brief, and both rest on
one lemma of `CopyProofs`: `SoundSpeaks` goes through every sign of the chain and of the gate, every refusal and
the two free costumes for a brief that is a `SoundShip`. `LookPacks` shows what an admitted pack is past
(`Packed`: the lists of survey, pack and admission, a head that no cut takes away), `PackedIsSound` that
nothing of `Unsound` is left once `Burns` is excluded. The rest is about order. The inductive invariant `VoiceInv`
says that a scanned brief shares no URL and no release with a brief before it (`ApartInv`), that briefs are scored in
the order of their admission and what is written belongs to a scored brief (`OrderInv`), that a draft carries the key
of its brief (`KeyedInv`), and that a scanned brief which waits is the first in the line of its own
Monday, with no window alive unless a hold has uncovered one (`StackInv`). From these follows that neither the body, nor a
release, nor an HN URL of an earlier draft is in its way (`ScannedIsNew`). `Grown` is why a brief that burns goes on
burning: rows and drafts are only added, and a held draft stays held. TLC has checked the parts of
`VoiceInv` on the instance of `monday`. Assumed of the site (`WordAssumption`): a name is no phrase
of the playbook, and stands before the words of a release, a tag or a merge, as `facts_from_survey` writes it,
so that no cut of an order or a sticker leaves an empty text.

Only model-checked: the liveness properties `PendingIsScored`, `LookFinishes`, `DeadlineWins`,
`ChildIsReaped` and `EveryoneOpens` (fairness is outside what the prover handles), and the four
violations. Every invariant and every action property of the passing runs is a theorem.

## 6. Not modelled

What a regular expression matches, decoding, byte and page limits, allowlists and validation of strings:
pure functions whose properties are tables of examples. Prereleases and drafts of releases, which
the survey drops. Security helpers, effectors, envelopes, configuration and printing keep no state
that the properties are about. Accounts, campaigns, content and metrics are single-row saves without
interplay. The RECONCILED and CANCELLED transitions of
`domain.py` have no caller. A plain `brief scan` neither claims nor records a
look; a clock that is set back is outside `LookClaim`. The watch is one project and one repository.
Collisions of ids (a brief whose revision id is taken ends every round) are outside `StoryLock`.

## 7. Plan

1. Done: all modules, and a proof of every safety property of the passing runs.
2. `evaluate_policy` with its counter of posts; the artifact store; a watch that moves.
