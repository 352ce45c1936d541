-------------------------------- MODULE Monday --------------------------------
(***************************************************************************)
(* The Monday rhythm of one project and its repository: hom-pass listens,  *)
(* looks if due, scores what is pending and rests; the site changes under  *)
(* it, gh fails now and then, an operator holds drafts and may ingest a    *)
(* brief.  The pass holds no lock over its first two steps; looks that     *)
(* race are LookClaim, admissions that race are StoryLock.                 *)
(*                                                                         *)
(* The clock is the number of the Monday.  The launch window of a draft    *)
(* (48 hours) is over by the next Monday.                                  *)
(***************************************************************************)
EXTENDS Survey

CONSTANTS
  Offers,      \* posts that may appear, as [what, of, words]
  Homes,       \* READMEs that may be put in place, as [at, marks]
  FlagSets,    \* what the repository may be flagged as
  Outages,     \* sets of calls that may fail together
  Ingests,     \* briefs that the operator may ingest, as [id, b]
  Profile,     \* the brand of the project
  Starts,      \* where a behaviour begins, as [site, changes]: it may change so often
  MaxWeeks

ASSUME ClockAssumption == MaxWeeks \in Nat \ {0} /\ \A s \in Starts : s.changes \in Nat
ASSUME SiteAssumption ==
  /\ \A o \in Offers : o.what \in {"release", "tag", "pull", "revert"} \cup DOMAIN CommentKind
  /\ \A flags \in FlagSets : flags \subseteq Flags
  /\ \A calls \in Outages : calls \subseteq SurveyCalls \cup FeedbackCalls
  /\ \A s \in Starts : /\ DOMAIN s.site = {"flags", "posts", "readme", "about"}
                       /\ s.site.flags \subseteq Flags
                       /\ s.site.posts \in Seq(FactsOf(s.site.posts))
  /\ \A brief \in Ingests : brief.b.facts \in Seq(FactsOf(brief.b.facts))
\* A name is no phrase.  It stands before the words of what is published, so
\* that no cut leaves nothing of them.
Copybook == Marks \cup {"order", "noise", "maintenance", "template_repo", "no_ship"}
Worded(p) ==
  /\ p.words \subseteq Copybook /\ p.of \notin Copybook \cup Links
  /\ p.what \in {"release", "tag", "pull"} /\ "bare" \in p.words
       => p.words \cap {"order", "mention", "oss_claim"} = {}
ASSUME WordAssumption ==
  /\ \A o \in Offers : Worded(o)
  /\ \A s \in Starts : /\ \A p \in FactsOf(s.site.posts) : Worded(p)
                       /\ s.site.about \subseteq Copybook

VARIABLES
  week,       \* the Monday that was last
  looked,     \* its look is recorded
  step,       \* of the pass: "idle", "listened", "looked"
  site,
  briefs,     \* in order of admission: [id, source, b, pending, at, flags, readme, deaf]
  drafts,     \* in order of writing: [brief, draft, at, held, key]
  outcome,    \* of the last look: [reason, id, facts]
  changes     \* posts, edits, outages, ingestions and holds that are left

vars == <<week, looked, step, site, briefs, drafts, outcome, changes>>

NoOutcome == [reason |-> "none", id |-> <<"none", "none">>, facts |-> <<>>]

Init ==
  /\ week = 1 /\ looked = FALSE /\ step = "idle"
  /\ \E start \in Starts : site = start.site /\ changes = start.changes
  /\ briefs = <<>> /\ drafts = <<>>
  /\ outcome = NoOutcome

------------------------------------------------------------------------------
(* The site *)

Change == changes > 0 /\ changes' = changes - 1
\* The tick at the end of a pass does not read the site.
SiteChange == Change /\ step # "looked"

\* A window is seven times 24 hours, a Monday any hour of the day: what comes
\* before the look may be in the window of the next one too, and what comes
\* after it may be in none.  The window of an open issue is two times 24 hours.
Windows(what) ==
  IF looked THEN {{week + 1}, {}}
  ELSE {{week}} \cup (IF what = "issue" THEN {} ELSE {{week, week + 1}})
Post(offer) ==
  /\ SiteChange
  /\ \A i \in DOMAIN site.posts : <<site.posts[i].what, site.posts[i].of>> # <<offer.what, offer.of>>
  /\ \E seen \in Windows(offer.what) :
       site' = [site EXCEPT !.posts =
                  Append(@, [what |-> offer.what, of |-> offer.of, words |-> offer.words, seen |-> seen])]
  /\ UNCHANGED <<week, looked, step, briefs, drafts, outcome>>

EditReadme(home) ==
  /\ SiteChange
  /\ home # site.readme
  /\ site' = [site EXCEPT !.readme = home]
  /\ UNCHANGED <<week, looked, step, briefs, drafts, outcome>>

SetFlags(flags) ==
  /\ SiteChange
  /\ flags # site.flags
  /\ site' = [site EXCEPT !.flags = flags]
  /\ UNCHANGED <<week, looked, step, briefs, drafts, outcome>>

------------------------------------------------------------------------------
(* The pass *)

IsOpen(d) == ~d.held
Pending == {i \in DOMAIN briefs : briefs[i].pending}

\* Arena of the oldest open github/hn draft, while its 48 hours last.
LivingStack ==
  LET Stacked(d) == IsOpen(d) /\ d.draft.arena \in StackArenas
      i == FirstWhere(drafts, Stacked)
  IN  IF i # 0 /\ drafts[i].at = week THEN drafts[i].draft.arena ELSE "none"

OpenStory ==
  \/ Pending # {}
  \/ \E i \in DOMAIN drafts : IsOpen(drafts[i]) /\ drafts[i].draft.arena \in SocialArenas
  \/ LivingStack # "none"

\* Same brief id, or any URL in common with any brief.
AlreadyTold(id, facts) ==
  \E i \in DOMAIN briefs :
    \/ briefs[i].id = id
    \/ Artifacts(briefs[i].b.facts) \cap Artifacts(facts) # {}
Repeats_UrlsOnly(id, facts) == AlreadyTold(id, facts)
Repeats(id, facts) ==
  \/ AlreadyTold(id, facts)
  \/ HnKey(facts) # <<"none", "none">> /\ \E i \in DOMAIN drafts : drafts[i].key = HnKey(facts)
  \/ \E i \in DOMAIN briefs : ReleaseKeys(briefs[i].b.facts) \cap ReleaseKeys(facts) # {}

Stored(packed, source, deaf) ==
  [id |-> packed.id, source |-> source, b |-> packed.b, pending |-> TRUE, at |-> week,
   flags |-> site.flags, readme |-> Readme(site, deaf).marks, deaf |-> deaf]
Admitted(packed, source, deaf) == briefs' = Append(briefs, Stored(packed, source, deaf))

Due == ~looked /\ ~OpenStory
Outage(deaf, calls) ==
  /\ deaf \subseteq calls
  /\ IF deaf = {} THEN UNCHANGED changes ELSE Change

\* collect_and_admit, in the window of the look; any open draft of the project
\* keeps it out.
Listen(deaf) ==
  /\ step = "idle"
  /\ step' = "listened"
  /\ Outage(deaf, IF Due THEN FeedbackCalls ELSE {})
  /\ LET packed == FeedbackBrief(site, week, deaf) IN
     IF \/ ~Due \/ \E i \in DOMAIN drafts : IsOpen(drafts[i])
        \/ FeedbackSilent(site, week, deaf)
        \/ AlreadyTold(packed.id, packed.b.facts)
     THEN UNCHANGED briefs
     ELSE Admitted(packed, "feedback", deaf)
  /\ UNCHANGED <<week, looked, site, drafts, outcome>>

\* scan_github_if_due: the look is recorded whatever comes of it.
Look(deaf) ==
  /\ step = "listened" /\ Due
  /\ step' = "looked" /\ looked' = TRUE
  /\ Outage(deaf, SurveyCalls)
  /\ IF SurveySilent(site, week, deaf) \/ PackSilent(site, week, deaf)
     THEN outcome' = [NoOutcome EXCEPT !.reason = "silent"] /\ UNCHANGED briefs
     ELSE LET packed == PackedBrief(site, week, deaf)
              facts == packed.b.facts
              Ended(reason) == outcome' = [reason |-> reason, id |-> packed.id, facts |-> facts]
          IN  IF AlreadyTold(packed.id, facts) THEN Ended("already_told") /\ UNCHANGED briefs
              ELSE IF Repeats(packed.id, facts) \/ ~Admissible(facts)
                THEN Ended("silent") /\ UNCHANGED briefs
              ELSE Ended("admitted") /\ Admitted(packed, "scan", deaf)
  /\ UNCHANGED <<week, site, drafts>>

NotDue ==
  /\ step = "listened" /\ ~Due
  /\ step' = "looked"
  /\ UNCHANGED <<week, looked, site, briefs, drafts, outcome, changes>>

------------------------------------------------------------------------------
(* The tick at the end of the pass, one pending brief after the other *)

Body(draft, fs) == <<draft.arena, draft.texts, UrlOf(fs, draft.url)>>

\* The newest draft of the project, held or not, with the same body; a release
\* that another brief told; a URL that was submitted to Hacker News.
Repeated(i, draft) ==
  LET fs == briefs[i].b.facts IN
  \/ /\ drafts # <<>>
     /\ LET last == drafts[Len(drafts)]
        IN  Body(last.draft, briefs[last.brief].b.facts) = Body(draft, fs)
  \/ \E k \in DOMAIN briefs \ {i} : ReleaseKeys(briefs[k].b.facts) \cap ReleaseKeys(fs) # {}
  \/ draft.arena = "hn" /\ DraftKey(draft, fs) # <<"none", "none">>
       /\ \E k \in DOMAIN drafts : drafts[k].key = DraftKey(draft, fs)
\* The transaction looks for the body among all the drafts that are not held.
BodyIsOpen(i, draft) ==
  \E k \in DOMAIN drafts :
    IsOpen(drafts[k]) /\ Body(drafts[k].draft, briefs[drafts[k].brief].b.facts)
                         = Body(draft, briefs[i].b.facts)

Queue(i, draft) ==
  IF draft = NoDraft \/ Repeated(i, draft) \/ BodyIsOpen(i, draft)
    THEN UNCHANGED drafts
    ELSE drafts' = Append(drafts, [brief |-> i, draft |-> draft, at |-> week, held |-> FALSE,
                                   key |-> DraftKey(draft, briefs[i].b.facts)])

ScoreNext ==
  /\ step = "looked"
  /\ \E i \in Pending :
       /\ \A k \in Pending : i <= k
       /\ briefs' = [briefs EXCEPT ![i].pending = FALSE]
       /\ Queue(i, ApplyBrief(briefs[i].b, Profile, LivingStack).draft)
  /\ UNCHANGED <<week, looked, step, site, outcome, changes>>

EmitAngle ==
  /\ step = "looked" /\ Pending = {}
  /\ step' = "idle"
  /\ UNCHANGED <<week, looked, site, briefs, drafts, outcome, changes>>

------------------------------------------------------------------------------
(* The operator and the calendar *)

Hold(d) ==
  /\ Change
  /\ d \in DOMAIN drafts /\ IsOpen(drafts[d])
  /\ drafts' = [drafts EXCEPT ![d].held = TRUE]
  /\ UNCHANGED <<week, looked, step, site, briefs, outcome>>

\* brief ingest goes past the lock and past every repeat.
Ingest(brief) ==
  /\ Change
  /\ \A i \in DOMAIN briefs : briefs[i].id # brief.id
  /\ Admitted(brief, "cli", {})
  /\ UNCHANGED <<week, looked, step, site, drafts, outcome>>

NextMonday ==
  /\ step = "idle" /\ week < MaxWeeks
  /\ week' = week + 1 /\ looked' = FALSE
  /\ UNCHANGED <<step, site, briefs, drafts, outcome, changes>>

Next ==
  \/ \E offer \in Offers : Post(offer)
  \/ \E home \in Homes : EditReadme(home)
  \/ \E flags \in FlagSets : SetFlags(flags)
  \/ \E deaf \in Outages : Listen(deaf) \/ Look(deaf)
  \/ NotDue \/ ScoreNext \/ EmitAngle
  \/ \E d \in DOMAIN drafts : Hold(d)
  \/ \E brief \in Ingests : Ingest(brief)
  \/ NextMonday

Spec == Init /\ [][Next]_vars

------------------------------------------------------------------------------
(* Properties *)

Drafted(i) == \E d \in DOMAIN drafts : drafts[d].brief = i

\* A release is told by its URL and by its tag; it is drafted once, whichever
\* look, tag or ingested brief came first, and however often the window, the
\* README and the held drafts let it come back.
ReleaseDraftedOnce ==
  \A d, e \in DOMAIN drafts :
    LET Told(k) == {f.of : f \in {g \in FactsOf(briefs[drafts[k].brief].b.facts) :
                                    g.url = "release" \/ g.kind = "tag"}}
    IN  d # e => Told(d) \cap Told(e) = {}

\* Each flag of a repository is asked by a probe of its own, and a probe that
\* fails says no.  A look tells of a copy, an empty tree or a template only
\* when that very probe failed, and never of a private or archived repository;
\* the comments are asked for no template, and for no museum a second time.
OnlyBlindLooksAdmit ==
  \A i \in DOMAIN briefs :
    LET b == briefs[i] IN
    /\ b.source = "scan" =>
         b.flags \subseteq (b.deaf \ {"private", "archived"})
    /\ b.source = "feedback" =>
         b.flags \subseteq (b.deaf \ {"private"}) \cup {"template"}

\* No brief is asked for its demo once it is admitted.  What goes on a stage
\* from a look was seen with an install line, a demo and a start to copy; what
\* came from comments never leaves the workshop.
StageWasSeen ==
  \A d \in DOMAIN drafts :
    LET b == briefs[drafts[d].brief] IN
    /\ b.source = "scan" /\ drafts[d].draft.arena # "github" =>
         {"install", "demo", "start"} \subseteq b.readme
    /\ b.source = "feedback" => drafts[d].draft.arena = "github"

\* A brief that is admitted and then not drafted has told its story for good:
\* its URLs and its release never come back.  The pack and the admission ask
\* most of what scoring asks, and these are the stories they still burn.
BurntWords ==
  {"dm_cta", "used_by", "prerelease", "login_gate", "captcha", "age_gate", "cookie_wall", "geo_block",
   "shortener", "utm_farm", "click_here", "dead_link", "dead_tls", "dead_release_asset", "roadmap",
   "server_splash", "dunk", "worse_clone", "press_release", "bait", "contest", "poll", "thread",
   "model_in_frame", "ranking", "hashtag_wall", "private_conversation", "world_commentary", "hire",
   "opinion", "quote", "misquote", "mention", "reply", "store_pitch", "launch_pitch", "brand_voice",
   "chain_bait"}
BurntTitles == {"emoji", "shouty", "listicle", "long_title", "long_fold", "long_post", "merged_pr"}
\* The oldest open draft alone has a window: one that is over hides the window
\* of a newer draft, until somebody holds it between the look and the tick.
StackUncovered(i) ==
  \E d, e \in DOMAIN drafts :
    /\ d < e /\ drafts[e].brief < i
    /\ {drafts[d].draft.arena, drafts[e].draft.arena} \subseteq StackArenas
    /\ drafts[d].held /\ drafts[d].at # drafts[e].at /\ drafts[e].at = briefs[i].at
Burns(i) ==
  LET fs == briefs[i].b.facts
      told == {t \in FactsOf(Worn(fs)) : "readme_install" \notin t}
  IN
  \/ TextShows(fs) \cap BurntWords # {}
  \/ fs[1].text \cap BurntTitles # {}
  \/ FakeOss(TextShows(fs))
  \/ \A f \in FactsOf(fs) : "commit_noise" \in f.text    \* a full pack has no room for the README
  \/ BotBumpWeek(fs) \/ DeadStarStory(fs)
  \/ BotBump(told) \/ DeadStars(told)         \* the description is weighed by dressing alone
  \/ EmptyRelease(fs)                         \* named by its tag alone, beside a merge
  \/ \E k \in DOMAIN briefs : k > i /\ ReleaseKeys(briefs[k].b.facts) \cap ReleaseKeys(fs) # {}
  \/ StackUncovered(i)
ScannedSpeaks ==
  Profile.voice = "own" /\ Profile.maintainer =>
  \A i \in DOMAIN briefs :
    briefs[i].source = "scan" /\ ~briefs[i].pending /\ ~Drafted(i) => Burns(i)

\* "already_told" (brief_admit.py) is silence about a story that was told: the
\* same brief, or a ship of the pack that another brief showed.
AlreadyToldWasTold ==
  outcome.reason = "already_told" =>
    \E i \in DOMAIN briefs :
      \/ briefs[i].id = outcome.id
      \/ ShipsOf(briefs[i].b.facts) \cap ShipsOf(outcome.facts) # {}

=============================================================================
