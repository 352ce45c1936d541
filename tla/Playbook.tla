------------------------------- MODULE Playbook -------------------------------
(***************************************************************************)
(* The playbook: which arenas there are, what each asks of copy, and what  *)
(* a text may look like.                                                   *)
(*                                                                         *)
(* A regular expression of the playbook is one mark: a text is the set of  *)
(* the marks it shows, the empty set being plain copy of ordinary length.  *)
(* "bare" says that the text is nothing but the phrase of its other marks. *)
(* A URL is one of the kinds the host tables tell apart.  A fact is        *)
(* [kind, text, url]; a brief holds a sequence of facts.  Reasons are kept *)
(* as in the code; canon links, checklists and wording are left out.       *)
(***************************************************************************)
EXTENDS Integers, Sequences, FiniteSets

Arenas == {"x", "linkedin", "youtube", "shorts", "github", "hn", "reddit",
           "newsletter", "discord", "bluesky", "mastodon"}
StackArenas == {"github", "hn"}
SocialArenas == Arenas \ {"github", "newsletter", "discord"}
StoryKinds == {"major", "hard_issue", "failure", "decision", "exploration", "patch"}

------------------------------------------------------------------------------
(* URLs *)

OurShip == {"repo", "release", "pull", "issue"}
ShipUrls == OurShip \cup {"foreign"}        \* SHIP_ARTIFACT_RE; "foreign" is another repository

\* https on github.com, and neither a diff, an action run nor a UTM farm.
\* "vanity" is a stargazers page, "comment" an issue with a fragment.
TryableUrls == ShipUrls \cup {"comment", "readme", "vanity"}

RankingUrls == {"ranking", "hn_item", "vanity"}
NotProof == RankingUrls \cup {"deck", "linktree", "cloud"}

\* The tables of hosts that are no product when nothing else is linked.
OnlyReason == [video |-> "hn_not_an_episode", store |-> "hn_not_a_store",
               blog |-> "hn_not_a_blog", launch |-> "hn_not_an_aggregator",
               ranking |-> "ranking_not_an_artifact", deck |-> "deck_not_an_artifact",
               linktree |-> "linktree_not_an_artifact", cloud |-> "cloud_drive_not_a_site",
               news |-> "world_commentary"]
HostUrls == DOMAIN OnlyReason
ParentUrls == {"post", "hn_item"}           \* social posts; a ship URL is none
PublicIssueUrls == {"issue", "pull", "comment"}
UrlKinds == TryableUrls \cup HostUrls \cup ParentUrls \cup
            {"none", "diff", "utm", "short_link", "model_chat", "slack"}

\* What a URL shows to the patterns that read it where it stands in the blob.
UrlMarks(url) ==
  CASE url = "utm"        -> {"utm_farm"}
    [] url = "short_link" -> {"shortener"}
    [] url = "model_chat" -> {"model_in_frame"}
    [] url = "news"       -> {"world_commentary"}
    [] url = "slack"      -> {"private_conversation"}
    [] OTHER              -> {}

------------------------------------------------------------------------------
(* Marks, in the order of the playbook's sections *)

NotYet == {"ranking", "waitlist", "used_by", "customer_named", "dm_cta", "pending_ci"}
NotReachable == {"failed_ci", "prerelease", "login_gate", "shortener", "utm_farm", "click_here"}
NotASite == {"dead_link", "dead_tls", "issues_disabled", "fork", "empty_repo", "private_repo"}
NotAShip == {"archived_repo", "server_splash", "dead_release_asset", "roadmap", "event", "apology"}
NotAStory == {"sunset", "calendar_filler", "counter_thanks", "fog", "founder_journal"}
NotNeeded == {"lead_magnet", "logo_reveal", "fomo", "meme", "deck", "linktree"}
NotOurs == {"cloud_drive", "press_release", "superlative", "dunk", "worse_clone", "better_idea", "reply"}
LookMarks == {"commit_noise", "merged_pr", "bot", "version_diff", "weekly", "star_count", "life",
              "readme_install"}
StageMarks == {"room", "package", "hook", "loop", "cta", "pack", "feed", "cinema_end"}
TalkMarks == {"private_conversation", "secret", "world_commentary", "hire", "source_available",
              "oss_claim", "license_file"}
BaitMarks == {"quote", "misquote", "opinion", "bait", "contest", "poll", "model_in_frame", "thread",
              "hashtag_wall", "mention"}
HostMarks == {"payment_gate", "captcha", "age_gate", "cookie_wall", "geo_block"}
ShapeMarks == {"short", "long_title", "long_fold", "long_post", "shouty", "emoji", "listicle",
               "url", "bare", "names_ship", "echo", "clip"}
CostumeMarks == {"store_pitch", "launch_pitch", "brand_voice", "launch_talk", "pitch", "intent_split",
                 "seed", "ask", "crush", "team_voice", "surname", "disclose", "paid", "pillar",
                 "solicit", "chain_bait"}
Marks == NotYet \cup NotReachable \cup NotASite \cup NotAShip \cup NotAStory \cup NotNeeded
         \cup NotOurs \cup LookMarks \cup StageMarks \cup TalkMarks \cup BaitMarks \cup HostMarks
         \cup ShapeMarks \cup CostumeMarks

------------------------------------------------------------------------------
(* Facts of a brief.  Every operator takes the sequence of facts. *)

FactsOf(fs) == {fs[i] : i \in DOMAIN fs}
Urls(fs) == {f.url : f \in FactsOf(fs)} \ {"none"}
Shows(fs) == UNION {f.text \cup UrlMarks(f.url) : f \in FactsOf(fs)}
TextShows(fs) == UNION {f.text : f \in FactsOf(fs)}

\* The lines of the blob: the text, the kind and the URL of each fact.
LongKinds == {"issue_comment", "pull_comment", "release_asset"}
Lines(fs) ==
  [n \in 1..(3 * Len(fs)) |->
     LET f == fs[((n - 1) \div 3) + 1] IN
       CASE n % 3 = 1 -> f.text
         [] n % 3 = 2 -> IF f.kind \in LongKinds THEN {} ELSE {"short"}
         [] OTHER     -> {"url", "short"}]

FirstWhere(s, P(_)) ==
  LET good == {i \in DOMAIN s : P(s[i])}
  IN  IF good = {} THEN 0 ELSE CHOOSE i \in good : \A j \in good : i <= j

\* What stands at the places I of a list, in the order of the list.
Picked(s, I) ==
  LET Rank(i) == Cardinality(I \cap (1..i))
  IN  [n \in 1..Cardinality(I) |-> s[CHOOSE i \in I : Rank(i) = n]]

HasShip(fs) == Urls(fs) \cap ShipUrls # {}
OnlyUrls_Any(fs, hosts) == Urls(fs) \cap hosts # {}
OnlyUrls(fs, hosts) == Urls(fs) # {} /\ Urls(fs) \subseteq hosts \ ShipUrls

\* The first ship URL, else the first tryable one that is no chart, deck,
\* link board or drive: the proof slot of scoring and dressing.
ProofUrl_FirstTryable(fs) ==
  LET IsProof(f) == f.url \in TryableUrls
      i == FirstWhere(fs, IsProof)
  IN  IF i # 0 THEN fs[i].url ELSE "none"
ProofUrl(fs) ==
  LET IsShip(f) == f.url \in ShipUrls
      IsProof(f) == f.url \in TryableUrls \ NotProof
      i == FirstWhere(fs, IsShip)
      j == FirstWhere(fs, IsProof)
  IN  IF i # 0 THEN fs[i].url ELSE IF j # 0 THEN fs[j].url ELSE "none"

IsArtifactStub(f) == f.kind = "artifact"
IsReplyFact(f) == f.kind = "parent" \/ "reply" \in f.text
IsParentFact(f) == IsReplyFact(f) \/ f.url \in ParentUrls
IsExcerpt(f) == f.kind \in {"excerpt", "issue_comment", "pull_comment"} /\ f.url \in PublicIssueUrls

Wearable(fs) == Picked(fs, {i \in DOMAIN fs : ~IsArtifactStub(fs[i])})
OperatorTexts(fs) == {f.text : f \in {g \in FactsOf(fs) : ~IsExcerpt(g)}}
Excerpts(fs) == {f \in FactsOf(fs) : IsExcerpt(f)}

------------------------------------------------------------------------------
(* What the facts amount to together *)

\* A reply sits under a post that is about nothing we ship: the post links no
\* repository of ours and its text does not name one.
Slugs(f) ==
  (IF f.url \in OurShip \/ "names_ship" \in f.text THEN {"ours"} ELSE {})
    \cup (IF f.url = "foreign" THEN {"theirs"} ELSE {})
OurSlugs(fs) == UNION {Slugs(f) : f \in {g \in FactsOf(fs) : ~IsReplyFact(g)}}
AboutOurShip(f, slugs) ==
  IF f.url \in ShipUrls
    THEN (IF f.url = "foreign" THEN "theirs" ELSE "ours") \in slugs
    ELSE "ours" \in slugs /\ "names_ship" \in f.text
ForeignWave(fs) == \E f \in FactsOf(fs) : IsReplyFact(f) /\ ~AboutOurShip(f, OurSlugs(fs))

\* The thread of an X reply: the reply facts, else the parent posts.
Parents(fs) ==
  LET replies == {f \in FactsOf(fs) : IsReplyFact(f)}
  IN  IF replies # {} THEN replies ELSE {f \in FactsOf(fs) : f.url \in ParentUrls}
HasParentPost(fs) == Parents(fs) # {}
NewThought(text, fs) == "short" \notin text /\ ~("echo" \in text /\ Parents(fs) # {})
\* A post fact that is no reply restates itself as its own parent.
AgoraReason(fs) ==
  IF HasParentPost(fs) /\ ~\E f \in FactsOf(fs) :
       /\ ~IsReplyFact(f) /\ ~IsArtifactStub(f) /\ f \notin Parents(fs)
       /\ NewThought(f.text, fs)
    THEN "agora_no_new_thought" ELSE "ok"

\* A used-by claim needs its customer named in another fact.
UnprovenProof(fs) ==
  \E i \in DOMAIN fs : "used_by" \in fs[i].text
    /\ ~\E j \in DOMAIN fs \ {i} : fs[j].text \cap {"customer_named", "used_by"} # {}

ApologyAlone(fs) ==
  /\ "apology" \in Shows(fs)
  /\ ~\E f \in FactsOf(fs) : f.kind \in {"release", "pull"} /\ f.url \in ShipUrls
                                /\ "apology" \notin f.text

\* A stack of "Merged PR #N" is led by one.
MergeLog(texts) == texts # <<>> /\ "merged_pr" \in texts[1]

\* The texts a look is judged by: those of the given kinds when there are any.
Structured(fs, kinds) ==
  LET ofKind == {f \in FactsOf(fs) : f.kind \in kinds}
      story == IF ofKind # {} THEN ofKind ELSE FactsOf(fs)
  IN  {f.text : f \in {g \in story : "readme_install" \notin g.text}}

BotBump(story) ==
  /\ story # {}
  /\ \A t \in story : /\ t \cap {"bot", "version_diff", "commit_noise", "merged_pr"} # {}
                      /\ ~("merged_pr" \in t /\ "bot" \notin t)
  /\ \E t \in story : {"merged_pr", "bot"} \subseteq t \/ "version_diff" \in t
BotBumpWeek(fs) == BotBump(Structured(fs, {"release", "tag", "pull"}))

DeadStars(story) ==
  /\ \A t \in story : /\ t \cap {"star_count", "ranking", "commit_noise"} # {}
                      /\ "life" \notin t
  /\ \E t \in story : "star_count" \in t
DeadStarStory(fs) == DeadStars(Structured(fs, {"release", "tag", "pull", "issue", "issue_comment"}))

\* A Monday with neither a ship, a demo nor public feedback has no history.
MondayWithoutHistory(b, arena) ==
  /\ ~b.tryable /\ ~HasShip(b.facts) /\ Excerpts(b.facts) = {}
  /\ b.kind = "major" \/ arena = "newsletter" \/ "weekly" \in Shows(b.facts)

\* An open-source sticker on a source-available licence, or without a licence file.
FakeOss(marks) == {"source_available", "oss_claim"} \subseteq marks
UnlicensedOss(marks) == "oss_claim" \in marks /\ "license_file" \notin marks

\* Copy loses a phrase; what was nothing but the phrase is gone.
Gone == {"bare", "short"}
Strip(text, mark) ==
  IF mark \notin text THEN text ELSE IF "bare" \in text THEN Gone ELSE text \ {mark}

QuoteUnsourced(texts, fs) ==
  \E t \in texts : "misquote" \in t \/ ("quote" \in t /\ Excerpts(fs) = {})

\* Marks that make a text unquotable wherever it comes from, and those that do
\* so in the operator's own words; a public excerpt may hold praise, a quote or
\* a mention.
NeverQuoted == {"model_in_frame", "calendar_filler", "counter_thanks", "fog", "founder_journal",
                "lead_magnet", "fomo", "meme", "deck", "linktree", "cloud_drive", "paid", "secret",
                "private_conversation", "world_commentary", "hire"}
NotOwnWords == {"opinion", "bait", "contest", "poll", "thread", "ranking", "hashtag_wall", "mention"}
Unquotable(fs) ==
  \/ Shows(fs) \cap NeverQuoted # {}
  \/ FakeOss(UNION OperatorTexts(fs))
  \/ ForeignWave(fs)
  \/ (UNION OperatorTexts(fs)) \cap NotOwnWords # {}
  \/ QuoteUnsourced(OperatorTexts(fs), fs)

\* The body of a draft beside the facts it was dressed from.
UnquotableBody_OwnWords(marks, fs) == marks \cap (NeverQuoted \cup NotOwnWords) # {}
UnquotableBody(marks, fs) ==
  \/ marks \cap (NeverQuoted \cup (NotOwnWords \ {"opinion"})) # {}
  \/ FakeOss(marks \cup UNION OperatorTexts(fs))
  \/ "opinion" \in marks /\ ~\E f \in Excerpts(fs) : "opinion" \in f.text

------------------------------------------------------------------------------
(* What each arena asks of copy; a sequence of lines, or the marks of the whole *)

\* A post of 280 characters, a fold of 210, a title of 63 behind its prefix.
LongTitle == {"long_title", "long_fold", "long_post"}
LongFold == {"long_fold", "long_post"}

Insight(line) == line \cap ({"launch_talk", "pitch", "url", "short"} \cup LongFold) = {}
CourtReason(lines, claims) ==
  IF claims \/ \E i \in DOMAIN lines : "launch_talk" \in lines[i] THEN "court_not_a_launch"
  ELSE IF \E i \in DOMAIN lines : Insight(lines[i]) THEN "ok" ELSE "court_not_ready"

TavernReason(marks) == IF {"intent_split", "seed"} \subseteq marks THEN "ok" ELSE "discord_pre_pmf"
CafeReason(marks) == IF {"pack", "feed"} \subseteq marks THEN "ok" ELSE "bluesky_pack_without_feed"

\* The first line of substance is a gift, and somebody signs.
LetterReason(lines) ==
  LET Full(line) == "short" \notin line
      marks == UNION {lines[i] : i \in DOMAIN lines}
      first == FirstWhere(lines, Full)
  IN  IF "crush" \in marks \/ first = 0 THEN "letter_ask_without_gift"
      ELSE IF "ask" \in lines[first] THEN "letter_ask_without_gift"
      ELSE IF "team_voice" \in marks \/ "surname" \notin marks THEN "letter_without_surname"
      ELSE "ok"

RedditReason(marks, ship) ==
  IF "room" \notin marks THEN "reddit_no_room"
  ELSE IF "disclose" \notin marks \/ ~(ship \/ "names_ship" \in marks) THEN "reddit_no_disclosure"
  ELSE "ok"

CinemaEndReason(marks) ==
  IF "cinema_end" \in marks THEN "cinema_announces_end"
  ELSE IF "package" \notin marks THEN "cinema_missing_package" ELSE "ok"
FairHookReason(marks) == IF "hook" \in marks THEN "ok" ELSE "fair_missing_hook"
FairLoopReason(marks, kinds) ==
  IF "loop" \notin marks \cup kinds THEN "fair_missing_loop"
  ELSE IF "cta" \in marks THEN "fair_cta_with_loop" ELSE "ok"
SeminarReason(marks) == IF "brand_voice" \in marks THEN "seminar_brand_voice" ELSE "ok"

Overflows(arena, text) ==
  \/ arena = "hn" /\ text \cap LongTitle # {}
  \/ arena = "x" /\ "long_post" \in text
  \/ arena = "linkedin" /\ text \cap LongFold # {}

------------------------------------------------------------------------------
(* Arenas: the gate table, the stack and the choice *)

Gate == [
  discord |-> [reason |-> "discord_pre_pmf", kinds |-> {"major"}],
  hn |-> [reason |-> "hn_not_tryable", kinds |-> {"major", "hard_issue"}],
  x |-> [reason |-> "x_empty_feed", kinds |-> {"major", "hard_issue", "failure"}],
  linkedin |-> [reason |-> "court_not_ready", kinds |-> {"major", "decision", "failure"}],
  youtube |-> [reason |-> "cinema_missing_package", kinds |-> {"major", "hard_issue", "failure"}],
  shorts |-> [reason |-> "fair_missing_hook", kinds |-> {"major", "hard_issue", "failure"}],
  reddit |-> [reason |-> "reddit_no_room", kinds |-> {"major", "hard_issue", "failure"}],
  bluesky |-> [reason |-> "bluesky_vibe_without_artifact", kinds |-> {"major", "hard_issue"}],
  mastodon |-> [reason |-> "mastodon_pr_tone", kinds |-> {"hard_issue", "failure"}],
  newsletter |-> [reason |-> "newsletter_no_user_facing_change", kinds |-> {"major", "decision", "failure"}],
  github |-> [reason |-> "workshop_not_a_story", kinds |-> {"major", "hard_issue", "failure", "decision"}]]
RequireTryable == {"hn", "x"}
ForbidShipClaim == {"linkedin", "mastodon"}
MinTwoFacts == {"discord", "linkedin"}

\* stack: the arena whose 48 hour window lives, or "none".
HnCamp(stack) == stack = "hn"
StackMismatch(preferred, stack) == stack # "none" /\ preferred \notin {"none", stack}

DeadForShow == {"issues_disabled", "fork", "empty_repo", "private_repo", "archived_repo", "server_splash"}
Seated(b) ==
  LET p == b.preferred IN
    \/ p = "github"
    \/ p = "hn" /\ b.kind \notin {"exploration", "decision", "failure"}
    \/ p \in {"mastodon", "shorts", "reddit", "bluesky", "newsletter", "youtube"}
    \/ p = "discord" /\ b.kind # "decision"
    \/ p = "x" /\ (HasParentPost(b.facts) \/ ~b.tryable)
    \/ p = "linkedin" /\ ~b.claims
ChooseArena_NoDemo(b, stack) ==
  IF stack # "none" THEN stack
  ELSE IF Seated(b) THEN b.preferred
  ELSE IF b.tryable /\ b.kind \in {"major", "hard_issue"} THEN "hn"
  ELSE "github"
ChooseArena(b, stack) ==
  IF stack # "none" THEN stack
  ELSE IF Seated(b) THEN b.preferred
  ELSE IF /\ b.tryable /\ b.kind \in {"major", "hard_issue"}
          /\ ProofUrl(b.facts) # "none"
          /\ Shows(b.facts) \cap DeadForShow = {}
    THEN "hn"
    ELSE "github"

=============================================================================
