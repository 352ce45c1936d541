--------------------------------- MODULE Score ---------------------------------
(***************************************************************************)
(* score_brief: speak or stay silent.  The checks are a chain of signs; the*)
(* first sign a brief gives decides, and a brief that gives none is drafted*)
(* in the one arena chosen for it.  The reason of a score is the sign.     *)
(***************************************************************************)
EXTENDS Playbook

\* A brief is [kind, claims, tryable, preferred, facts].
Social(b) == b.preferred \in SocialArenas
Proven(b) == b.tryable /\ HasShip(b.facts)

\* The signs that are no mark of their own.
Derived(b) ==
  LET fs == b.facts
      texts == Wearable(fs)
      Is(sign, holds) == IF holds THEN {sign} ELSE {}
  IN  Is("empty_brief", fs = <<>>)
      \cup Is("unquotable", Unquotable(fs))
      \cup Is("apology_without_ship", ApologyAlone(fs))
      \cup Is("patch_changelog_only", b.kind = "patch")
      \cup Is("commit_noise_changelog", \A f \in FactsOf(fs) : "commit_noise" \in f.text)
      \cup Is("bot_bump_week", BotBumpWeek(texts))
      \cup Is("merge_log_changelog", MergeLog([i \in DOMAIN texts |-> texts[i].text]))
      \cup Is("dead_star_count", DeadStarStory(texts))
      \cup Is("ship_claim_missing_artifact", b.claims /\ ~HasShip(fs))
      \cup Is("hype_without_demo", b.claims /\ ~b.tryable)
      \cup Is("unproven_social_proof", UnprovenProof(fs))
      \cup Is("issues_disabled_no_camp", Social(b) /\ "issues_disabled" \in Shows(fs))
      \cup Is("deck_only", OnlyUrls(fs, {"deck"}))
      \cup Is("linktree_only", OnlyUrls(fs, {"linktree"}))
      \cup Is("cloud_drive_only", OnlyUrls(fs, {"cloud"}))
      \cup Is("superlative_without_proof", "superlative" \in Shows(fs) /\ ~Proven(b))
      \cup Is("clone", "worse_clone" \in Shows(fs) /\ "better_idea" \notin Shows(fs))
      \cup Is("foreign_wave", ForeignWave(fs))
      \cup Is("news_only", OnlyUrls(fs, {"news"}))
      \cup Is("source_available_not_oss", FakeOss(Shows(fs)))
      \cup Is("exploration_not_a_post", b.kind = "exploration")
      \cup Is("decision_not_user_facing", b.kind = "decision" /\ ~b.tryable /\ ~b.claims)

\* The chain, first sign first.
Chain ==
  <<"empty_brief", "paid", "unquotable", "sunset", "apology_without_ship", "dm_cta",
    "patch_changelog_only", "commit_noise_changelog", "bot_bump_week", "merge_log_changelog",
    "dead_star_count", "ship_claim_missing_artifact", "hype_without_demo", "waitlist",
    "unproven_social_proof", "pending_ci", "failed_ci", "prerelease", "payment_gate",
    "login_gate", "captcha", "age_gate", "cookie_wall", "geo_block", "shortener", "utm_farm",
    "click_here", "dead_link", "dead_tls", "issues_disabled_no_camp", "fork", "empty_repo",
    "private_repo", "archived_repo", "server_splash", "dead_release_asset", "roadmap", "event",
    "calendar_filler", "counter_thanks", "fog", "founder_journal", "lead_magnet", "fomo", "meme",
    "deck", "deck_only", "linktree", "linktree_only", "cloud_drive", "cloud_drive_only",
    "logo_reveal", "superlative_without_proof", "dunk", "clone", "press_release", "foreign_wave",
    "bait", "contest", "poll", "model_in_frame", "thread", "ranking", "hashtag_wall", "secret",
    "private_conversation", "world_commentary", "news_only", "hire", "source_available_not_oss",
    "exploration_not_a_post", "decision_not_user_facing">>
Links == {Chain[i] : i \in DOMAIN Chain}

Always == {"patch_changelog_only", "commit_noise_changelog", "bot_bump_week",
           "merge_log_changelog", "dead_star_count"}
\* Silence on the list; a line in the changelog when nobody asked for a stage.
SoftSigns == {"sunset", "apology_without_ship", "waitlist", "pending_ci", "failed_ci", "prerelease",
              "payment_gate", "login_gate", "captcha", "age_gate", "cookie_wall", "geo_block",
              "shortener", "utm_farm", "click_here", "dead_link", "dead_tls", "dead_release_asset",
              "roadmap", "event", "logo_reveal", "clone", "press_release"}
AtHome == {"exploration_not_a_post", "decision_not_user_facing"}
Verdict(b, sign) ==
  IF \/ sign \in Always
     \/ sign \in SoftSigns /\ ~b.claims /\ ~Social(b)
     \/ sign = "dm_cta" /\ ~b.claims
     \/ sign \in AtHome /\ ~Social(b)
  THEN "changelog" ELSE "kill"

Silence(verdict, reason) == [verdict |-> verdict, reason |-> reason, arena |-> "none"]
FirstSign(order, signs) ==
  LET Given(sign) == sign \in signs IN FirstWhere(order, Given)

\* The gates of the arena a brief is to be worn in, first one first.  A story
\* of the wrong kind is a changelog line in the workshop and silence elsewhere.
GateOrder ==
  <<"kind", "not_tryable", "url_only", "store_pitch", "launch_pitch", "issues_disabled", "fork",
    "empty_repo", "private_repo", "archived_repo", "server_splash", "listicle", "shouty", "emoji",
    "overflow", "no_thread", "agora", "court", "tavern", "letter", "village", "seminar",
    "not_clickable", "no_artifact", "cafe", "ship_claim", "min_facts", "no_package",
    "cinema_end", "no_hook", "loop">>
GateSigns(b, arena) ==
  LET fs == b.facts
      marks == Shows(fs)
      kinds == {f.kind : f \in FactsOf(fs)}
      worn == Wearable(fs)
      title == IF worn = <<>> THEN {"no_title"} ELSE worn[1].text
      letter == LetterReason(Lines(fs))
      loop == FairLoopReason(marks, kinds)
      Is(sign, holds) == IF holds THEN {sign} ELSE {}
      At(here, sign, holds) == IF arena \in here /\ holds THEN {sign} ELSE {}
  IN  Is("kind", b.kind \notin Gate[arena].kinds)
      \cup At(RequireTryable, "not_tryable", ~b.tryable)
      \cup At({"hn"}, "url_only", \E h \in HostUrls :
                 OnlyUrls(fs, IF h = "ranking" THEN RankingUrls ELSE {h}))
      \cup At({"hn"}, "store_pitch", "store_pitch" \in TextShows(fs))
      \cup At({"hn"}, "launch_pitch", "launch_pitch" \in TextShows(fs))
      \cup At(SocialArenas, "issues_disabled", "issues_disabled" \in marks)
      \cup (marks \cap (DeadForShow \ {"issues_disabled"}))
      \cup At({"hn"}, "listicle", "listicle" \in title)
      \cup At({"hn", "github"}, "shouty", "shouty" \in title)
      \cup At({"hn", "github"}, "emoji", "emoji" \in title)
      \cup Is("overflow", Overflows(arena, title))
      \cup At({"x"}, "no_thread", ~HasParentPost(fs))
      \cup At({"x"}, "agora", AgoraReason(fs) # "ok")
      \cup At({"linkedin"}, "court", CourtReason(Lines(fs), b.claims) # "ok")
      \cup At({"discord"}, "tavern", TavernReason(marks) # "ok")
      \cup At({"newsletter"}, "letter",
              letter # "ok" /\ ~(letter = "letter_without_surname" /\ MondayWithoutHistory(b, arena)))
      \cup At({"reddit"}, "village", RedditReason(marks, HasShip(fs)) # "ok")
      \cup At({"hn"}, "seminar", SeminarReason(marks) # "ok")
      \cup At({"hn"}, "not_clickable", ProofUrl(fs) = "none")
      \cup At({"bluesky"}, "no_artifact", ~HasShip(fs))
      \cup At({"bluesky"}, "cafe", CafeReason(marks) # "ok")
      \cup At(ForbidShipClaim, "ship_claim", b.claims)
      \cup At(MinTwoFacts, "min_facts", Len(fs) < 2)
      \cup At({"youtube"}, "no_package", "package" \notin marks \cup kinds)
      \cup At({"youtube"}, "cinema_end", CinemaEndReason(marks) # "ok")
      \cup At({"shorts"}, "no_hook", FairHookReason(marks) # "ok")
      \cup At({"shorts"}, "loop", loop # "ok")
      \cup At({"youtube"}, "loop", loop = "fair_cta_with_loop")

EnoughSubstance(fs) ==
  HasShip(fs) \/ Cardinality({i \in DOMAIN fs : "short" \notin fs[i].text}) >= 2

\* A living stack leaves no arena; else one arena is chosen and its gates ask.
ScoreInArena(b, arena) ==
  LET gate == FirstSign(GateOrder, GateSigns(b, arena)) IN
  IF gate # 0
    THEN Silence(IF GateOrder[gate] = "kind" /\ arena = "github" THEN "changelog" ELSE "kill",
                 GateOrder[gate])
  ELSE IF MondayWithoutHistory(b, arena)
    THEN Silence(IF arena \in SocialArenas THEN "kill" ELSE "changelog", "monday_without_history")
  ELSE IF arena = "newsletter" /\ ~(b.claims /\ b.tryable)
    THEN Silence("changelog", "newsletter_no_user_facing_change")
  ELSE IF arena \in SocialArenas /\ ~EnoughSubstance(b.facts)
    THEN Silence("changelog", "thin_brief")
  ELSE [verdict |-> "draft", reason |-> "one_angle", arena |-> arena]

ScoreBrief(b, stack) ==
  LET sign == FirstSign(Chain, Shows(b.facts) \cup Derived(b)) IN
  IF sign # 0 THEN Silence(Verdict(b, Chain[sign]), Chain[sign])
  ELSE IF HnCamp(stack) THEN Silence("kill", "hn_camp")
  ELSE IF StackMismatch(b.preferred, stack) THEN Silence("kill", "living_stack")
  ELSE IF stack # "none" THEN Silence("changelog", "living_stack")
  ELSE ScoreInArena(b, ChooseArena(b, stack))

=============================================================================
