-------------------------------- MODULE Survey --------------------------------
(***************************************************************************)
(* What a look makes of a repository: the survey, the pack of the survey,  *)
(* the pack of the comments, and what admission asks of either.            *)
(*                                                                         *)
(* A site is [flags, posts, readme, about]: what the repository is flagged *)
(* as, what was published in the order of publication, the README as [at,  *)
(* marks] ("none" when there is none) and the description.  A post is      *)
(* [what, of, words, seen]: its name, its marks, and the Mondays in whose  *)
(* window it falls.  A fact has, beside kind, text and url, the name "of"  *)
(* what its URL belongs to; its text shows that name like a mark.          *)
(*                                                                         *)
(* A call to gh fails or answers: "deaf" is the set of the calls that fail.*)
(* A failed probe, tag list or README says nothing; any other failed call  *)
(* ends the look.                                                          *)
(***************************************************************************)
EXTENDS Dress

Lists == INSTANCE SequencesExt

CONSTANT MaxFacts     \* facts of a pack: 8

ASSUME MaxFactsAssumption == MaxFacts \in Nat \ {0}

Fact(kind, words, url, of) == [kind |-> kind, text |-> words, url |-> url, of |-> of]
Artifact(f) == <<f.url, f.of>>
Artifacts(fs) == {Artifact(f) : f \in {g \in FactsOf(fs) : g.url # "none"}}

\* An order to the reader is cut out of inbound text; what was only an order is gone.
Inbound(fs) ==
  LET cut == [i \in DOMAIN fs |-> [fs[i] EXCEPT !.text = Strip(@, "order")]]
  IN  Picked(cut, {i \in DOMAIN cut : cut[i].text # Gone})
First(fs) == SubSeq(fs, 1, IF Len(fs) < MaxFacts THEN Len(fs) ELSE MaxFacts)

------------------------------------------------------------------------------
(* Survey: what gh tells of the site *)

Flags == {"fork", "empty", "private", "template", "archived"}
SurveyCalls == Flags \cup {"view", "prs", "releases", "tags", "readme"}
FeedbackCalls == {"fork", "empty", "private", "archived", "view", "comments", "pulls", "issues"}

\* A failed probe says no: look_only_gh answers with nothing.
Probed(site, probes, deaf) == site.flags \cap (probes \ deaf) # {}

Newest(site, kinds, week) ==
  LET posts == site.posts
  IN  Lists!Reverse(Picked(posts, {i \in DOMAIN posts : posts[i].what \in kinds /\ week \in posts[i].seen}))
Releases(site, week) == Newest(site, {"release"}, week)
Prs(site, week) == Newest(site, {"pull", "revert"}, week)
\* A ship title, and no patch, chore or typo.
Headlines(site, week) ==
  LET pulls == Newest(site, {"pull"}, week)
  IN  Picked(pulls, {i \in DOMAIN pulls : pulls[i].words \cap {"no_ship", "commit_noise"} = {}})
\* A release has its tag; the list of tags knows no window.
Tags(site, deaf) ==
  LET posts == site.posts
  IN  IF "tags" \in deaf THEN <<>>
      ELSE Lists!Reverse(Picked(posts, {i \in DOMAIN posts : posts[i].what \in {"release", "tag"}}))
Readme(site, deaf) == IF "readme" \in deaf THEN [at |-> "none", marks |-> {}] ELSE site.readme

Words(posts) == UNION {posts[i].words : i \in DOMAIN posts}

\* Probes, the survey's own calls, then what the payload says of itself.
SurveySilent_ProbesOnly(site, week, deaf) ==
  \/ Probed(site, Flags, deaf)
  \/ deaf \cap {"view", "prs", "releases"} # {}
  \/ Releases(site, week) = <<>> /\ Prs(site, week) = <<>> /\ Tags(site, deaf) = <<>>
  \/ Readme(site, deaf).at = "none"
SurveySilent(site, week, deaf) ==
  LET readme == Readme(site, deaf)
      own == readme.marks \cup site.about
      said == own \cup Words(Prs(site, week)) \cup Words(Releases(site, week)) \cup Words(Tags(site, deaf))
  IN  \/ Probed(site, Flags, deaf)
      \/ deaf \cap {"view", "prs", "releases"} # {}
      \/ site.flags \cap {"private", "archived"} # {}
      \/ Releases(site, week) = <<>> /\ Prs(site, week) = <<>> /\ Tags(site, deaf) = <<>>
      \/ readme.at = "none"
      \/ own \cap {"fork", "empty_repo", "private_repo", "archived_repo", "template_repo"} # {}
      \/ said \cap {"pending_ci", "failed_ci"} # {}

------------------------------------------------------------------------------
(* Pack: facts of the survey, or silence *)

ReleaseFact(p) == Fact("release", p.words \cup {p.of}, "release", p.of)
PullFact(p) == Fact("pull", p.words \cup {"merged_pr", p.of}, "pull", p.of)
TagFact(p) == Fact("tag", p.words \cup {p.of}, "none", p.of)
ReadmeFact(readme) == Fact("readme", {"readme_install"}, "readme", readme.at)

PackedFacts(site, week, deaf) ==
  LET releases == Releases(site, week)
      headlines == Headlines(site, week)
      released == {releases[i].of : i \in DOMAIN releases}
      Alone(p) == p.of \notin released /\ p.words \cap {"no_ship", "commit_noise"} = {}
      listed == Tags(site, deaf)
      tags == Picked(listed, {i \in DOMAIN listed : Alone(listed[i])})
      readme == Readme(site, deaf)
  IN  First(Inbound([i \in DOMAIN releases |-> ReleaseFact(releases[i])]
                    \o [i \in DOMAIN headlines |-> PullFact(headlines[i])]
                    \o [i \in DOMAIN tags |-> TagFact(tags[i])]
                    \o (IF "install" \in readme.marks THEN <<ReadmeFact(readme)>> ELSE <<>>)
                    \o (IF "short" \in site.about THEN <<>>
                        ELSE <<Fact("signal", site.about, "none", "about")>>)))

\* A merge and its revert in one window.
Reverted(site, week) ==
  LET merged == Prs(site, week) IN
  \E i, j \in DOMAIN merged :
    /\ merged[i].what = "revert" /\ merged[j].what = "pull"
    /\ merged[i].of = merged[j].of
    /\ merged[j].words \cap {"no_ship", "commit_noise"} = {}

PackSilences ==
  {"waitlist", "event", "calendar_filler", "counter_thanks", "fog", "founder_journal",
   "lead_magnet", "fomo", "meme", "deck", "linktree", "cloud_drive", "logo_reveal", "sunset", "paid"}
PackShip == ShipUrls \ {"repo"}
ShipsOf(fs) == {a \in Artifacts(fs) : a[1] \in PackShip}
\* The apology's own issue is no ship.
Apologised(fs) ==
  "apology" \in TextShows(fs)
    /\ ~\E f \in FactsOf(fs) : f.kind \in {"release", "pull"} /\ "apology" \notin f.text
                                 /\ f.url \in PackShip

\* Install line, demo and a start to copy are asked of the README apart.
PackSilent_AnyReadme(site, week, deaf) ==
  LET facts == PackedFacts(site, week, deaf) IN
    \/ Releases(site, week) = <<>> /\ Headlines(site, week) = <<>>
    \/ TextShows(facts) \cap PackSilences # {} \/ Apologised(facts)
    \/ Reverted(site, week)
    \/ ShipsOf(facts) = {} \/ "install" \notin Readme(site, deaf).marks
PackSilent(site, week, deaf) ==
  LET facts == PackedFacts(site, week, deaf)
      readme == Readme(site, deaf).marks
      evidence == TextShows(facts) \cup readme \cup site.about
      texts == [i \in DOMAIN facts |-> facts[i].text]
  IN  \/ Releases(site, week) = <<>> /\ Headlines(site, week) = <<>>
      \/ facts = <<>>
      \/ TextShows(facts) \cap PackSilences # {} \/ Apologised(facts)
      \/ evidence \cap {"payment_gate", "solicit"} # {}
      \/ Reverted(site, week)
      \/ MergeLog(texts) /\ Releases(site, week) = <<>>
      \/ ShipsOf(facts) = {}
      \/ ~({"install", "demo", "start"} \subseteq readme)

\* The brief of a pack: the newest release names it, else the newest merge.
PackedBrief(site, week, deaf) ==
  LET releases == Releases(site, week)
      headlines == Headlines(site, week)
  IN  [id |-> <<"scan", IF releases # <<>> THEN releases[1].of ELSE headlines[1].of>>,
       b |-> [kind |-> "major", claims |-> TRUE, tryable |-> TRUE, preferred |-> "none",
              facts |-> PackedFacts(site, week, deaf)]]

------------------------------------------------------------------------------
(* Feedback: the comments of the window, oldest first, one of each thread *)

CommentKind == [comment |-> "issue_comment", review |-> "pull_comment", issue |-> "excerpt"]
CommentUrl == [comment |-> "comment", review |-> "comment", issue |-> "issue"]
CommentFact(p) == Fact(CommentKind[p.what], p.words \cup {"mention", p.of}, CommentUrl[p.what], p.of)

\* Review comments and open issues are optional; bots, thanks and what carries
\* no signal are noise.
CommentFacts(site, week, deaf) ==
  LET heard == {"comment"} \cup (IF "pulls" \in deaf THEN {} ELSE {"review"})
                           \cup (IF "issues" \in deaf THEN {} ELSE {"issue"})
      Signal(p) == p.what \in heard /\ week \in p.seen /\ "noise" \notin p.words
      signals == Picked(site.posts, {i \in DOMAIN site.posts : Signal(site.posts[i])})
  IN  First(Inbound([i \in DOMAIN signals |-> CommentFact(signals[i])]))

FeedbackSilent(site, week, deaf) ==
  LET facts == CommentFacts(site, week, deaf) IN
    \/ Probed(site, {"fork", "empty", "private", "archived"}, deaf)
    \/ deaf \cap {"view", "comments"} # {}
    \/ "private" \in site.flags
    \/ facts = <<>>
    \/ TextShows(facts) \cap {"paid", "maintenance"} # {}
    \/ TextShows(facts) \cap {"fork", "empty_repo", "private_repo", "archived_repo"} # {}

FeedbackBrief(site, week, deaf) ==
  LET facts == CommentFacts(site, week, deaf)
  IN  [id |-> <<"fb", facts[1].of>>,
       b |-> [kind |-> "hard_issue", claims |-> FALSE, tryable |-> FALSE, preferred |-> "none",
              facts |-> facts]]

------------------------------------------------------------------------------
(* What was told before *)

\* A release URL and a tag fact are the same story, when one repository is
\* linked at all.
ReleaseKeys_UrlsOnly(fs) == {f.of : f \in {g \in FactsOf(fs) : g.url = "release"}}
ReleaseKeys(fs) ==
  LET linked == {f.url = "foreign" : f \in {g \in FactsOf(fs) : g.url \in TryableUrls}}
      tags == {f.of : f \in {g \in FactsOf(fs) : g.kind = "tag"}}
  IN  {f.of : f \in {g \in FactsOf(fs) : g.url = "release"}}
      \cup (IF Cardinality(linked) = 1 THEN tags ELSE {})

\* hn_submission_url_key, and the URL that a draft wears there.
UrlOf(fs, url) ==
  LET Shown(f) == f.url = url
      i == FirstWhere(fs, Shown)
  IN  IF url = "none" \/ i = 0 THEN <<"none", "none">> ELSE Artifact(fs[i])
HnKey(fs) == UrlOf(fs, SubmissionUrl(fs))
DraftKey(draft, fs) == UrlOf(fs, SubmittedUrl(draft))

\* What admission asks of the texts of a scanned pack once more.
AdmitSilences ==
  {"fork", "empty_repo", "private_repo", "archived_repo", "pending_ci", "failed_ci", "secret", "event",
   "sunset", "calendar_filler", "counter_thanks", "fog", "founder_journal", "lead_magnet", "fomo",
   "meme", "deck", "linktree", "cloud_drive", "logo_reveal"}
Admissible(facts) == TextShows(facts) \cap AdmitSilences = {} /\ ~Apologised(facts) /\ ShipsOf(facts) # {}

=============================================================================
