------------------------------ MODULE StoryLock ------------------------------
(***************************************************************************)
(* The one-story lock of a state.db.  Looks (brief scan, brief admit,      *)
(* feedback) bring briefs in through the compare-and-set of admit_brief,   *)
(* the CLI ingests briefs past it, one ticker at a time (tick.lock) scores *)
(* the pending briefs into drafts or silence, and the operator stamps      *)
(* drafts pass or hold.  Every write is one BEGIN IMMEDIATE transaction    *)
(* and one action; what a process has read and not yet used is in its      *)
(* local record.                                                           *)
(*                                                                         *)
(* A brief is known by the keys that the code compares: its project, the   *)
(* artifact URL it tells, the release it names, the URL it would submit to *)
(* HN and the hash of the body it would be dressed in.                     *)
(***************************************************************************)
EXTENDS Naturals, FiniteSets

CONSTANTS
  Briefs,        \* brief ids, positive numbers
  Scanned,       \* briefs that a GitHub look packs
  Collected,     \* briefs that the feedback collector packs
  Ingested,      \* briefs that the CLI saves without the lock
  Project,       \* [Briefs -> project]
  Artifact,      \* [Briefs -> artifact URL]
  Release,       \* [Briefs -> release key or NoKey]
  Url,           \* [Briefs -> HN submission URL or NoKey]
  Body,          \* [Briefs -> body hash]
  NoKey,
  Wardrobe,      \* arenas that scoring may choose
  Tickers,       \* processes that take tick.lock
  NoOne,         \* tick.lock is free
  Looks,         \* processes that admit a brief
  Gates,         \* operators that run `influenzer verdict`
  StackHours,    \* length of the launch window
  MaxClock,      \* bound on the clock
  MaxCrashes     \* bound on ticker crashes

ArenaId == {"x", "linkedin", "youtube", "shorts", "github", "hn", "reddit",
            "newsletter", "discord", "bluesky", "mastodon"}
StackArenas == {"github", "hn"}
SocialArenas == {"x", "linkedin", "youtube", "shorts", "hn", "reddit",
                 "bluesky", "mastodon"}

ASSUME BriefAssumption ==
  /\ Briefs \subseteq Nat \ {0}
  /\ Scanned \subseteq Briefs /\ Collected \subseteq Briefs /\ Ingested \subseteq Briefs
  /\ DOMAIN Project = Briefs /\ DOMAIN Artifact = Briefs /\ DOMAIN Release = Briefs
  /\ DOMAIN Url = Briefs /\ DOMAIN Body = Briefs
ASSUME WardrobeAssumption == Wardrobe \subseteq ArenaId
ASSUME ActorAssumption == NoOne \notin Tickers
ASSUME BoundAssumption == StackHours \in Nat /\ MaxClock \in Nat /\ MaxCrashes \in Nat

VARIABLES
  clock,    \* wall clock
  status,   \* [Briefs -> status of the row, "absent" when there is none]
  draft,    \* [Briefs -> operator_drafts row, arena "none" when there is none]
  lock,     \* holder of tick.lock
  ticker,   \* [Tickers -> what run_operator_tick has read]
  look,     \* [Looks -> the pack about to be admitted]
  gate,     \* [Gates -> the draft about to be stamped]
  crashes   \* ticker crashes so far

vars == <<clock, status, draft, lock, ticker, look, gate, crashes>>

NoBrief == 0
NoDraft == [arena |-> "none", at |-> 0, gate |-> "none"]
Out == [pc |-> "out", now |-> 0, todo |-> {}, brief |-> NoBrief, fate |-> "none"]
Listed(now, todo) == [Out EXCEPT !.pc = "scoring", !.now = now, !.todo = todo]
NoLook == [pc |-> "idle", now |-> 0, brief |-> NoBrief]
NoPick == [pc |-> "idle", brief |-> NoBrief, verdict |-> "none"]

------------------------------------------------------------------------------
(* What the tables say.  A definition whose name has a suffix after an      *)
(* underscore is a faulty variant of the one that follows it: no behaviour  *)
(* uses it, and the properties must tell it from the code.                  *)

Told == {b \in Briefs : status[b] # "absent"}
Pending == {b \in Briefs : status[b] = "pending"}
Drafted == {b \in Briefs : draft[b].arena # "none"}
Open_WithHeld == Drafted
Open_AnyRow == {b \in Briefs : draft[b].gate # "hold"}
Open == {b \in Drafted : draft[b].gate # "hold"}
SocialOpen == {b \in Open : draft[b].arena \in SocialArenas}
Stacked == {b \in Open : draft[b].arena \in StackArenas}

\* The window starts at the oldest open github/hn draft; a clock set back
\* before it is still inside.
LivingStack_Short(now) ==
  \E o \in Stacked : /\ \A s \in Stacked : draft[o].at <= draft[s].at
                     /\ now + 1 < draft[o].at + StackHours
LivingStack(now) ==
  \E o \in Stacked : /\ \A s \in Stacked : draft[o].at <= draft[s].at
                     /\ now < draft[o].at + StackHours

OpenStory_NoDraft(now) == Pending # {} \/ LivingStack(now)
OpenStory(now) == Pending # {} \/ SocialOpen # {} \/ LivingStack(now)

ArtifactTold(b) == \E c \in Told : Artifact[c] = Artifact[b]
UrlSubmitted(b) == /\ Url[b] # NoKey
                   /\ \E c \in Drafted : draft[c].arena = "hn" /\ Url[c] = Url[b]
ReleaseTold_Waiting(b) == /\ Release[b] # NoKey
                          /\ \E c \in Pending \ {b} : Release[c] = Release[b]
ReleaseTold(b) == /\ Release[b] # NoKey
                  /\ \E c \in Told \ {b} : Release[c] = Release[b]

\* Body of the newest draft of the project, held or not.
RepeatsLastAngle(b) ==
  \E l \in Drafted :
    /\ Project[l] = Project[b] /\ Body[l] = Body[b]
    /\ \A d \in Drafted : Project[d] = Project[b] =>
         \/ draft[d].at < draft[l].at
         \/ draft[d].at = draft[l].at /\ d <= l

SameBodyOpen(b) == \E c \in Open : Project[c] = Project[b] /\ Body[c] = Body[b]

------------------------------------------------------------------------------
Init ==
  /\ clock = 0
  /\ status = [b \in Briefs |-> "absent"]
  /\ draft = [b \in Briefs |-> NoDraft]
  /\ lock = NoOne
  /\ ticker = [t \in Tickers |-> Out]
  /\ look = [l \in Looks |-> NoLook]
  /\ gate = [g \in Gates |-> NoPick]
  /\ crashes = 0

Advance ==
  /\ clock < MaxClock
  /\ clock' = clock + 1
  /\ UNCHANGED <<status, draft, lock, ticker, look, gate, crashes>>

------------------------------------------------------------------------------
(* Looks.  The gates of admit_pack and admit_feedback that read the pack    *)
(* alone decide which briefs are in Scanned and Collected.                  *)

ScanAllows(b) == ~UrlSubmitted(b) /\ ~ReleaseTold(b)
FeedbackAllows(b) == \A d \in Open : Project[d] # Project[b]

\* The reads before the transaction; a refusal is silence and changes nothing.
Pack(l, b) ==
  /\ look[l].pc = "idle"
  /\ ~OpenStory(clock)
  /\ b \notin Told /\ ~ArtifactTold(b)
  /\ \/ b \in Scanned /\ ScanAllows(b)
     \/ b \in Collected /\ FeedbackAllows(b)
  /\ look' = [look EXCEPT ![l] = [pc |-> "packed", now |-> clock, brief |-> b]]
  /\ UNCHANGED <<clock, status, draft, lock, ticker, gate, crashes>>

\* What admit_brief checks again under BEGIN IMMEDIATE.
MayAdmit_Unlocked(b, now) == b \notin Told /\ ~ArtifactTold(b) /\ ~UrlSubmitted(b)
MayAdmit_ByIdAlone(b, now) == ~OpenStory(now) /\ b \notin Told /\ ~UrlSubmitted(b)
MayAdmit(b, now) ==
  /\ ~OpenStory(now)
  /\ b \notin Told /\ ~ArtifactTold(b)
  /\ ~UrlSubmitted(b)

Admit(l) ==
  /\ look[l].pc = "packed"
  /\ status' = IF MayAdmit(look[l].brief, look[l].now)
                 THEN [status EXCEPT ![look[l].brief] = "pending"]
                 ELSE status
  /\ look' = [look EXCEPT ![l] = NoLook]
  /\ UNCHANGED <<clock, draft, lock, ticker, gate, crashes>>

\* brief ingest: save_brief asks the primary key alone.
Ingest(b) ==
  /\ b \in Ingested \ Told
  /\ status' = [status EXCEPT ![b] = "pending"]
  /\ UNCHANGED <<clock, draft, lock, ticker, look, gate, crashes>>

------------------------------------------------------------------------------
(* Tickers: tick, tick-all and pass.                                        *)

AcquireTickLock_Shared(t) ==
  /\ ticker[t].pc = "out"
  /\ lock' = t
  /\ ticker' = [ticker EXCEPT ![t].pc = "held"]
  /\ UNCHANGED <<clock, status, draft, look, gate, crashes>>
AcquireTickLock(t) ==
  /\ ticker[t].pc = "out" /\ lock = NoOne
  /\ lock' = t
  /\ ticker' = [ticker EXCEPT ![t].pc = "held"]
  /\ UNCHANGED <<clock, status, draft, look, gate, crashes>>

\* A tick process runs at least one round.
ReleaseTickLock(t) ==
  /\ ticker[t].pc = "idle"
  /\ lock' = NoOne
  /\ ticker' = [ticker EXCEPT ![t] = Out]
  /\ UNCHANGED <<clock, status, draft, look, gate, crashes>>

StartRound(t) ==
  /\ ticker[t].pc \in {"held", "idle"}
  /\ ticker' = [ticker EXCEPT ![t] = [@ EXCEPT !.pc = "round", !.now = clock]]
  /\ UNCHANGED <<clock, status, draft, lock, look, gate, crashes>>

ListPending(t) ==
  /\ ticker[t].pc = "round"
  /\ ticker' = [ticker EXCEPT ![t] = Listed(@.now, Pending)]
  /\ UNCHANGED <<clock, status, draft, lock, look, gate, crashes>>

\* Outcomes of scoring and dressing b: silence (kill, changelog, undressable)
\* is always possible.  A score is a draft only where no stack lives; the
\* draft is dropped when it repeats the last angle, a release or an HN URL.
Dressable(b, now) == ~LivingStack(now) /\ ~RepeatsLastAngle(b)
Fates(b, now) ==
  {"silent"}
  \cup {f \in {"same_release"} : Dressable(b, now) /\ ReleaseTold(b)}
  \cup {a \in Wardrobe : /\ Dressable(b, now)
                         /\ ~ReleaseTold(b)
                         /\ a = "hn" => ~UrlSubmitted(b)}

ScoreBrief(t, b, fate) ==
  /\ ticker[t].pc = "scoring" /\ b \in ticker[t].todo
  /\ fate \in Fates(b, ticker[t].now)
  /\ ticker' = [ticker EXCEPT ![t] = [@ EXCEPT !.pc = "scored", !.brief = b, !.fate = fate]]
  /\ UNCHANGED <<clock, status, draft, lock, look, gate, crashes>>

\* What the transaction of persist_operator_decision stores: a body that is
\* already open in the project is silence.
Stored_Unchecked(b, fate) == fate
Stored(b, fate) == IF fate \in ArenaId /\ SameBodyOpen(b) THEN "silent" ELSE fate

\* Score, draft and processed in one transaction.  A brief that is no longer
\* pending is a StorageError: the round is over.
Persist(t) ==
  LET b == ticker[t].brief
      fate == Stored(b, ticker[t].fate)
  IN
  /\ ticker[t].pc = "scored"
  /\ IF status[b] = "pending"
       THEN /\ status' = [status EXCEPT ![b] = IF fate \in ArenaId THEN "drafted" ELSE fate]
            /\ draft' = IF fate \in ArenaId
                          THEN [draft EXCEPT ![b] = [arena |-> fate,
                                                     at |-> ticker[t].now,
                                                     gate |-> "none"]]
                          ELSE draft
            /\ ticker' = [ticker EXCEPT ![t] = Listed(@.now, @.todo \ {b})]
       ELSE /\ ticker' = [ticker EXCEPT ![t] = [Out EXCEPT !.pc = "idle"]]
            /\ UNCHANGED <<status, draft>>
  /\ UNCHANGED <<clock, lock, look, gate, crashes>>

EndRound(t) ==
  /\ ticker[t].pc = "scoring" /\ ticker[t].todo = {}
  /\ ticker' = [ticker EXCEPT ![t] = [Out EXCEPT !.pc = "idle"]]
  /\ UNCHANGED <<clock, status, draft, lock, look, gate, crashes>>

\* The kernel drops the flock of a process that dies.
Crash_KeepsLock(t) ==
  /\ ticker[t].pc # "out" /\ crashes < MaxCrashes
  /\ ticker' = [ticker EXCEPT ![t] = Out]
  /\ crashes' = crashes + 1
  /\ UNCHANGED <<clock, status, draft, lock, look, gate>>
Crash(t) ==
  /\ ticker[t].pc # "out" /\ crashes < MaxCrashes
  /\ lock' = NoOne
  /\ ticker' = [ticker EXCEPT ![t] = Out]
  /\ crashes' = crashes + 1
  /\ UNCHANGED <<clock, status, draft, look, gate>>

------------------------------------------------------------------------------
(* Operators.  With --draft-id any open draft can be the current one.       *)

PickDraft(g, b, verdict) ==
  /\ gate[g].pc = "idle" /\ b \in Open
  /\ gate' = [gate EXCEPT ![g] = [pc |-> "picked", brief |-> b, verdict |-> verdict]]
  /\ UNCHANGED <<clock, status, draft, lock, ticker, look, crashes>>

\* record_draft_verdict asks only that the row exists.
RecordVerdict(g) ==
  /\ gate[g].pc = "picked"
  /\ draft' = [draft EXCEPT ![gate[g].brief].gate = gate[g].verdict]
  /\ gate' = [gate EXCEPT ![g] = NoPick]
  /\ UNCHANGED <<clock, status, lock, ticker, look, crashes>>

------------------------------------------------------------------------------
Score(t) == \E b \in Briefs, fate \in Wardrobe \cup {"silent", "same_release"} : ScoreBrief(t, b, fate)

Next ==
  \/ Advance
  \/ \E l \in Looks, b \in Briefs : Pack(l, b)
  \/ \E l \in Looks : Admit(l)
  \/ \E b \in Briefs : Ingest(b)
  \/ \E t \in Tickers :
       \/ AcquireTickLock(t) \/ ReleaseTickLock(t) \/ StartRound(t)
       \/ ListPending(t) \/ Score(t) \/ Persist(t) \/ EndRound(t) \/ Crash(t)
  \/ \E g \in Gates, b \in Briefs, v \in {"pass", "hold"} : PickDraft(g, b, v)
  \/ \E g \in Gates : RecordVerdict(g)

\* The supervised loop (launchd, systemd) keeps asking for the lock, and a
\* running tick goes on.  Looks and operators promise nothing.
TickerStep(t) ==
  AcquireTickLock(t) \/ StartRound(t) \/ ListPending(t) \/ Score(t) \/ Persist(t) \/ EndRound(t)
Fairness == \A t \in Tickers : WF_vars(TickerStep(t))

Spec == Init /\ [][Next]_vars
FairSpec == Spec /\ Fairness

------------------------------------------------------------------------------
(* What the lock promises.                                                  *)

\* Every variable has its type, and a row of operator_drafts is complete: no
\* verdict is stamped on a draft that does not exist.
DraftRow == [arena : ArenaId, at : 0..MaxClock, gate : {"none", "pass", "hold"}]
Outcome == ArenaId \cup {"silent", "same_release"}
TickerState == [pc : {"out", "held", "idle", "round", "scoring", "scored"},
                now : 0..MaxClock, todo : SUBSET Briefs,
                brief : Briefs \cup {NoBrief}, fate : Outcome \cup {"none"}]
LookState == [pc : {"idle", "packed"}, now : 0..MaxClock, brief : Briefs \cup {NoBrief}]
GateState == [pc : {"idle", "picked"}, brief : Briefs \cup {NoBrief},
              verdict : {"none", "pass", "hold"}]
TypeOK ==
  /\ clock \in 0..MaxClock
  /\ status \in [Briefs -> {"absent", "pending", "silent", "same_release", "drafted"}]
  /\ draft \in [Briefs -> DraftRow \cup {NoDraft}]
  /\ lock \in Tickers \cup {NoOne}
  /\ ticker \in [Tickers -> TickerState]
  /\ look \in [Looks -> LookState]
  /\ gate \in [Gates -> GateState]
  /\ crashes \in 0..MaxCrashes

Floor == Pending \cup SocialOpen

\* One story at a time for the whole machine (brief_admit.py:3): as long as
\* nothing is ingested past the lock and one operator stamps at a time, at most
\* one brief is pending or dressed in an open social draft, however looks,
\* ticks, crashes and the gate interleave.
OneOpenStory == \A b, c \in Floor : b = c

\* A hold is final: no later verdict of the one operator brings a dismissed
\* draft back to the open set, although record_draft_verdict would overwrite
\* the stamp of any row (two operators can: OneOpenStory in run verdict_race).
HeldStaysHeld == [][\A b \in Briefs : draft[b].gate = "hold" => draft'[b].gate = "hold"]_vars

\* Two briefs that came in through admit_brief never tell the same artifact,
\* whichever look packed them and however long ago the first one ended.
Admitted == (Told \cap (Scanned \cup Collected)) \ Ingested
ArtifactToldOnce == \A b, c \in Admitted : Artifact[b] = Artifact[c] => b = c

\* A URL goes to HN once in the life of a state.db: not in two projects, not
\* after a hold, not from two tick processes (drop_repeat_hn_url reads the
\* drafts long before persist_operator_decision writes one).
HnDrafts == {b \in Drafted : draft[b].arena = "hn"}
OneHnPerUrl == \A b, c \in HnDrafts : Url[b] # NoKey /\ Url[b] = Url[c] => b = c

\* A tag or release never gets a second draft, even from a brief that was
\* ingested while the first one was being scored (drop_repeat_release).
OneDraftPerRelease ==
  \A b, c \in Drafted : Release[b] # NoKey /\ Release[b] = Release[c] => b = c

\* Two open drafts of a project never carry the same body, in any two arenas
\* (the duplicate check of persist_operator_decision).
NoBodyTwiceOpen ==
  \A b, c \in Open : Project[b] = Project[c] /\ Body[b] = Body[c] => b = c

\* The launch window belongs to the first angle: while the first github/hn
\* draft of the machine is open, no draft at all is written between its hour
\* and the end of its window.
StackHistory == {b \in Drafted : draft[b].arena \in StackArenas}
WindowOfTheFirst ==
  \A o \in Stacked :
    (\A s \in StackHistory : draft[o].at <= draft[s].at) =>
      \A e \in Drafted \ {o} : \/ draft[e].at <= draft[o].at
                               \/ draft[e].at >= draft[o].at + StackHours

\* "only an earlier admitted story can silence this release"
\* (scheduler.py:66-67): the first story of a release is never dropped as a
\* repeat of it, so not every story of a release is.
FirstOfReleaseSpeaks ==
  \A b \in Told : status[b] = "same_release" =>
    \E c \in Told : Release[c] = Release[b] /\ status[c] # "same_release"

\* No pending brief is lost: a tick process, or the next one after a crash in
\* the middle of a round, turns it into a draft or silence.
PendingIsScored == \A b \in Briefs : status[b] = "pending" ~> status[b] # "pending"

\* The lock implements the one-story promise (OneStory): admission opens a
\* story, silence, a draft outside the social arenas or a hold closes it.
Promise == INSTANCE OneStory WITH Stories <- Briefs, floor <- Floor, told <- Told
OneStoryAtATime == Promise!Spec

=============================================================================
