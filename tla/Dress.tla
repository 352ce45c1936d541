--------------------------------- MODULE Dress ---------------------------------
(***************************************************************************)
(* dress_brief: the body a scored brief wears in its arena, or nothing.    *)
(* Dressing reads the brief again and trusts no score: hom-draft takes the *)
(* two as JSON.  A draft is [arena, texts, url]; texts are the worn lines. *)
(***************************************************************************)
EXTENDS Score

NoDraft == [arena |-> "none", texts |-> <<>>, url |-> "none"]

------------------------------------------------------------------------------
(* Copy bits: what the brief has to wear *)

WornText(f, fs) ==
  LET said == Strip(f.text, "mention")
  IN  IF UnlicensedOss(TextShows(fs)) THEN Strip(said, "oss_claim") ELSE said
WornFacts(fs) ==
  LET Keep(f) == ~IsArtifactStub(f) /\ ~IsParentFact(f) /\ WornText(f, fs) # Gone
  IN  Picked(fs, {i \in DOMAIN fs : Keep(fs[i])})
Worn(fs) == LET kept == WornFacts(fs) IN [i \in DOMAIN kept |-> WornText(kept[i], fs)]

OneLiner(texts) == texts[1]
Rest(texts) == Picked(texts, {i \in DOMAIN texts : texts[i] # texts[1]})
Copy(texts) == <<OneLiner(texts)>> \o Rest(texts)

\* The last fact of the kind, else the first text that shows the mark.
Slot(fs, kind, mark) ==
  LET kept == WornFacts(fs)
      texts == Worn(fs)
      labelled == {i \in DOMAIN kept : kept[i].kind = kind}
      Shown(t) == mark \in t
      i == FirstWhere(texts, Shown)
  IN  IF labelled # {} THEN <<texts[CHOOSE k \in labelled : \A n \in labelled : n <= k]>>
      ELSE IF i # 0 THEN <<texts[i]>> ELSE <<>>

FirstShip(fs) ==
  LET IsShip(f) == f.url \in ShipUrls
      i == FirstWhere(fs, IsShip)
  IN  IF i # 0 THEN fs[i].url ELSE "none"

------------------------------------------------------------------------------
(* What is not dressed *)

\* Marks of the blob that end it, in any arena.
NotDressed ==
  {"waitlist", "pending_ci", "failed_ci", "prerelease", "login_gate", "captcha", "age_gate",
   "cookie_wall", "payment_gate", "geo_block", "shortener", "utm_farm", "click_here", "solicit",
   "chain_bait", "dead_link", "dead_tls", "dead_release_asset", "roadmap", "event", "sunset",
   "calendar_filler", "counter_thanks", "fog", "founder_journal", "lead_magnet", "fomo", "meme",
   "deck", "linktree", "cloud_drive", "logo_reveal", "press_release", "world_commentary", "hire",
   "dunk", "bait", "contest", "poll", "model_in_frame", "thread", "ranking", "hashtag_wall",
   "private_conversation", "secret", "paid", "fork", "empty_repo", "private_repo",
   "archived_repo", "server_splash"}
\* Marks of the body that end it.
NotInBody == (NotDressed \ {"waitlist", "pending_ci", "failed_ci", "prerelease", "login_gate", "captcha",
                            "age_gate", "cookie_wall", "payment_gate", "geo_block", "shortener",
                            "utm_farm", "click_here", "dead_link", "dead_tls", "dead_release_asset",
                            "roadmap", "event"})
             \cup {"mention"}
CloneTalk(marks) == "worse_clone" \in marks /\ "better_idea" \notin marks

\* A release tag with neither notes nor an asset is no ship.
EmptyRelease(fs) ==
  LET releases == {f \in FactsOf(fs) : f.kind = "release" \/ f.url = "release"}
  IN  /\ releases # {}
      /\ \A f \in releases : "version_diff" \in f.text /\ "bare" \in f.text
      /\ ~\E f \in FactsOf(fs) : f.kind \in {"asset", "release_asset"}

ArenaRefuses(arena, lines, marks, b) ==
  LET ship == HasShip(b.facts) IN
  CASE arena = "linkedin"   -> CourtReason(lines, b.claims) # "ok"
    [] arena = "discord"    -> TavernReason(marks) # "ok"
    [] arena = "newsletter" -> LetterReason(lines) # "ok"
    [] arena = "reddit"     -> RedditReason(marks, ship) # "ok"
    [] arena = "hn"         -> SeminarReason(marks) # "ok"
    [] arena = "youtube"    -> CinemaEndReason(marks) # "ok"
    [] OTHER                -> FALSE

Undressable(b, arena) ==
  LET fs == b.facts
      marks == Shows(fs)
      copy == Copy(Worn(fs))
      bits == {t \in {copy[i] : i \in DOMAIN copy} : "readme_install" \notin t}
  IN  \/ Worn(fs) = <<>>
      \/ marks \cap NotDressed # {}
      \/ FakeOss(marks) \/ CloneTalk(marks) \/ ApologyAlone(fs)
      \/ EmptyRelease(fs)
      \/ "superlative" \in marks /\ ~Proven(b)
      \/ ForeignWave(fs)
      \/ arena \in SocialArenas /\ "issues_disabled" \in marks
      \/ BotBumpWeek(fs) \/ BotBump(bits) \/ DeadStarStory(fs) \/ DeadStars(bits)
      \/ MondayWithoutHistory(b, arena)
      \/ ArenaRefuses(arena, Lines(fs), marks, b)
      \/ arena = "x" /\ (~HasParentPost(fs) \/ AgoraReason(fs) # "ok")
      \/ arena = "bluesky" /\ (CafeReason(marks) # "ok" \/ ~HasShip(fs))
      \/ arena = "newsletter" /\ ~(b.claims /\ b.tryable)
      \/ Unquotable(fs)

------------------------------------------------------------------------------
(* One dresser per arena: <<texts, url>>, or <<>> when the costume does not fit *)

Dressed(texts, url) == <<texts, url>>

DressGithub(copy, url, fs) ==
  IF copy[1] \cap {"shouty", "emoji"} # {} THEN <<>> ELSE Dressed(copy, url)

\* Title, URL and a first comment: the next fact, else the maintainer's name.
DressHn(copy, url, fs, brand) ==
  LET bits == {t \in {copy[i] : i \in DOMAIN copy} : "readme_install" \notin t}
      backstory == IF Len(copy) > 1 THEN <<copy[2]>> ELSE IF brand.maintainer THEN <<{}>> ELSE <<>>
  IN  IF \/ MergeLog(copy) \/ BotBump(bits)
         \/ copy[1] \cap ({"listicle", "shouty", "emoji"} \cup LongTitle) # {}
         \/ url \notin TryableUrls \ NotProof
         \/ (UNION {copy[i] : i \in DOMAIN copy}) \cap {"store_pitch", "launch_pitch"} # {}
         \/ backstory = <<>>
      THEN <<>> ELSE Dressed(<<copy[1]>> \o backstory, url)

DressX(copy, url) ==
  IF "long_post" \in copy[1] THEN <<>> ELSE Dressed(<<copy[1]>>, url)

\* The fold is the first line of insight; a profile with pillars must name one.
DressLinkedin(copy, url, brand) ==
  LET Fold(t) == t \cap ({"pitch", "url"} \cup LongFold) = {} /\ (brand.pillars => "pillar" \in t)
      i == FirstWhere(copy, Fold)
      left == {k \in DOMAIN copy : copy[k] # copy[i]}
  IN  IF i = 0 THEN <<>> ELSE Dressed(<<copy[i]>> \o Picked(copy, left), url)

DressYoutube(copy, url, fs) ==
  LET package == Slot(fs, "package", "package")
      Pays(t) == t # package[1]
      i == FirstWhere(copy, Pays)
  IN  IF package = <<>> \/ FairLoopReason(Shows(fs), {}) = "fair_cta_with_loop" THEN <<>>
      ELSE Dressed(IF i = 0 THEN package ELSE package \o <<copy[i]>>, url)

ShortsCut(hook, loop, copy) ==
  LET Pays(t) == t \notin {hook[1]} \cup {loop[k] : k \in DOMAIN loop}
      i == FirstWhere(copy, Pays)
  IN  IF loop # <<>> /\ loop # hook THEN hook \o loop
      ELSE IF i # 0 THEN hook \o <<copy[i]>> ELSE hook
NoCallToAct(texts) ==
  IF \E k \in DOMAIN texts : "cta" \in texts[k] THEN <<>> ELSE Dressed(texts, "none")
DressShorts(copy, fs) ==
  LET hook == Slot(fs, "none", "hook") IN
  IF \/ FairHookReason(Shows(fs)) # "ok" \/ FairLoopReason(Shows(fs), {}) # "ok"
     \/ hook = <<>>
    THEN <<>> ELSE NoCallToAct(ShortsCut(hook, Slot(fs, "loop", "loop"), copy))

DressReddit(copy, url, fs) ==
  LET room == Slot(fs, "subreddit", "room") IN
  IF room = <<>> THEN <<>>
  ELSE IF "room" \notin room[1] THEN <<>> ELSE Dressed(Append(copy, {"room", "short"}), url)

\* The parish hears its own talk, not the line of the agora or a clip of it.
DressMastodon(copy) ==
  LET talk == Picked(copy, {i \in 2..Len(copy) : "clip" \notin copy[i]})
  IN  IF talk = <<>> THEN <<>> ELSE Dressed(talk, "none")

Costume(arena, copy, url, fs, brand) ==
  CASE arena = "github"     -> DressGithub(copy, url, fs)
    [] arena = "hn"         -> DressHn(copy, url, fs, brand)
    [] arena = "x"          -> DressX(copy, url)
    [] arena = "linkedin"   -> DressLinkedin(copy, url, brand)
    [] arena = "youtube"    -> DressYoutube(copy, url, fs)
    [] arena = "shorts"     -> DressShorts(copy, fs)
    [] arena = "reddit"     -> DressReddit(copy, url, fs)
    [] arena = "newsletter" -> Dressed(copy, url)
    [] arena = "bluesky"    -> Dressed(<<copy[1]>>, FirstShip(fs))
    [] arena = "mastodon"   -> DressMastodon(copy)
    [] arena = "discord"    -> Dressed(copy, "none")

------------------------------------------------------------------------------
(* The gates of the body *)

BodyMarks(body) == (UNION {body[1][i] : i \in DOMAIN body[1]}) \cup UrlMarks(body[2])
BodyLines(body) == Append(body[1], {"url", "short"})

BodyRefused(body, b, arena) ==
  LET marks == BodyMarks(body)
      fs == b.facts
  IN  \/ UnquotableBody(marks, fs)
      \/ marks \cap NotInBody # {}
      \/ CloneTalk(marks) \/ FakeOss(marks)
      \/ "apology" \in marks /\ ApologyAlone(fs)
      \/ arena \in SocialArenas /\ "issues_disabled" \in marks
      \/ Overflows(arena, body[1][1])
      \/ arena = "reddit" /\ RedditReason(marks, body[2] \in ShipUrls) # "ok"
      \/ arena # "reddit" /\ ArenaRefuses(arena, BodyLines(body), marks, b)
      \/ arena = "x" /\ ~NewThought(body[1][1], fs)

\* An open-source sticker whose licence file was not worn is dropped at last.
LastStrip_Keeps(texts) == texts
LastStrip(texts) ==
  IF UnlicensedOss(UNION {texts[i] : i \in DOMAIN texts})
    THEN [i \in DOMAIN texts |-> Strip(texts[i], "oss_claim")] ELSE texts

Finished(body, b, arena) ==
  IF body = <<>> THEN NoDraft
  ELSE IF BodyRefused(body, b, arena) THEN NoDraft
  ELSE [arena |-> arena, texts |-> LastStrip(body[1]), url |-> body[2]]

DressBrief(b, score, brand) ==
  IF score.verdict # "draft" THEN NoDraft
  ELSE IF Undressable(b, score.arena) THEN NoDraft
  ELSE Finished(Costume(score.arena, Copy(Worn(b.facts)), ProofUrl(b.facts), b.facts, brand),
                b, score.arena)

------------------------------------------------------------------------------
(* apply_brief: whose voice, the score, the draft *)

\* brand is [voice, maintainer, pillars]; voice is "own", "other" or "empty".
ApplyBrief(b, brand, stack) ==
  IF brand.voice # "own"
    THEN [score |-> Silence("kill", IF brand.voice = "other" THEN "voice_cross_dress" ELSE "empty_brand"),
          draft |-> NoDraft]
    ELSE [score |-> ScoreBrief(b, stack), draft |-> DressBrief(b, ScoreBrief(b, stack), brand)]

\* hn_submission_url_key of a brief, hn_draft_url_key of what it wears.
SubmissionUrl(fs) ==
  LET IsTryable(f) == f.url \in TryableUrls
      i == FirstWhere(fs, IsTryable)
  IN  IF FirstShip(fs) # "none" THEN FirstShip(fs) ELSE IF i # 0 THEN fs[i].url ELSE "none"
SubmittedUrl(draft) ==
  IF draft.arena = "hn" /\ draft.url \in TryableUrls THEN draft.url ELSE "none"

=============================================================================
