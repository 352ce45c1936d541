--------------------------------- MODULE Angle ---------------------------------
(***************************************************************************)
(* One brief at a time goes through scoring and dressing: apply_brief does *)
(* both; hom-draft dresses a brief under a score that comes as JSON and    *)
(* may say anything.                                                       *)
(***************************************************************************)
EXTENDS Dress

CONSTANTS
  Briefs,      \* the briefs that may arrive
  Brands,      \* the profiles they may be applied under
  Claimed      \* the arenas a JSON score may claim

ASSUME BriefAssumption ==
  \A b \in Briefs :
    /\ b = [kind |-> b.kind, claims |-> b.claims, tryable |-> b.tryable, preferred |-> b.preferred,
            facts |-> b.facts]
    /\ b.kind \in StoryKinds /\ b.preferred \in Arenas \cup {"none"}
    /\ b.claims \in BOOLEAN /\ b.tryable \in BOOLEAN
    /\ b.facts \in Seq(FactsOf(b.facts))
    /\ \A f \in FactsOf(b.facts) : f.url \in UrlKinds /\ f.text \subseteq Marks
ASSUME BrandAssumption ==
  /\ \A p \in Brands : p.voice \in {"own", "other", "empty"}
  /\ Claimed \subseteq Arenas

VARIABLES
  brief,    \* the brief at work
  brand,
  stack,    \* arena of the launch window that lives
  score,
  draft,
  phase     \* "empty", "waiting", "applied", "claimed"

vars == <<brief, brand, stack, score, draft, phase>>

NoBrief == [kind |-> "none", claims |-> FALSE, tryable |-> FALSE, preferred |-> "none", facts |-> <<>>]
NoBrand == [voice |-> "empty", maintainer |-> FALSE, pillars |-> FALSE]
Unscored == Silence("none", "none")

Init ==
  /\ brief = NoBrief /\ brand = NoBrand /\ stack = "none"
  /\ score = Unscored /\ draft = NoDraft
  /\ phase = "empty"

Arrive ==
  /\ phase = "empty"
  /\ brief' \in Briefs
  /\ phase' = "waiting"
  /\ UNCHANGED <<brand, stack, score, draft>>

\* The operator's round: the profile and the living stack are read here.
Apply(p, living) ==
  /\ phase = "waiting"
  /\ brand' = p /\ stack' = living
  /\ LET decision == ApplyBrief(brief, p, living)
     IN  score' = decision.score /\ draft' = decision.draft
  /\ phase' = "applied"
  /\ UNCHANGED brief

\* hom-draft: the score says draft, for whatever arena it names.
DressPayload(p, arena) ==
  /\ phase = "waiting"
  /\ brand' = p
  /\ score' = [verdict |-> "draft", reason |-> "one_angle", arena |-> arena]
  /\ draft' = DressBrief(brief, score', p)
  /\ phase' = "claimed"
  /\ UNCHANGED <<brief, stack>>

Leave ==
  /\ phase \in {"applied", "claimed"}
  /\ brief' = NoBrief /\ brand' = NoBrand /\ stack' = "none"
  /\ score' = Unscored /\ draft' = NoDraft
  /\ phase' = "empty"

Next ==
  \/ Arrive
  \/ \E p \in Brands, living \in StackArenas \cup {"none"} : Apply(p, living)
  \/ \E p \in Brands, arena \in Claimed : DressPayload(p, arena)
  \/ Leave

Spec == Init /\ [][Next]_vars

------------------------------------------------------------------------------
(* Properties *)

Spoken == draft # NoDraft
Said == UNION {draft.texts[i] : i \in DOMAIN draft.texts}
Without(b, i) == [b EXCEPT !.facts = [k \in 1..(Len(b.facts) - 1) |->
                                        IF k < i THEN b.facts[k] ELSE b.facts[k + 1]]]

\* The chain of scoring and the two lists of dressing name the same phrases by
\* hand, three times (hom.py:831-1010, hom_draft.py:358-398 and 818-965).
\* Whatever path a draft came by, its body shows none of them, summons nobody
\* and claims no open source that has no licence beside it.  A JSON score gets
\* past the two signs that only scoring knows.
OnlyCleanCopySpeaks ==
  Spoken =>
    /\ Said \cap ((Links \cup NotDressed \cup {"mention", "solicit", "chain_bait"})
                  \ (IF phase = "claimed" THEN {"dm_cta"} ELSE {})) = {}
    /\ ~FakeOss(Said) /\ ~UnlicensedOss(Said)
    /\ "misquote" \in Said => \E f \in Excerpts(brief.facts) : "misquote" \in f.text

\* "claims_ship" is checked on the brief when it is scored; the reader sees the
\* body.  A draft of a ship claim shows the ship's URL, even when the first URL
\* of the brief is another one; a tavern invite and a fair cut carry no URL.
ShipClaimShowsShip ==
  Spoken /\ phase = "applied" /\ brief.claims /\ draft.arena \notin {"discord", "shorts"} =>
    draft.url \in ShipUrls

\* A brief scored as a draft and then not dressed is processed, its story told
\* and never written: nobody is asked again.  Scoring and dressing part on copy
\* that dressing alone knows, on what is weighed and then not worn, and on what
\* one costume cannot show, and on nothing else.
Needed == {"intent_split", "seed", "room", "disclose", "names_ship", "surname", "package", "hook", "loop",
           "better_idea"}
Weighed == {"version_diff", "bot", "merged_pr", "star_count"}   \* dressing weighs stubs too
\* A label stands for the phrase: the labelled text is worn, whatever it says.
Mislabelled(fs, kind, mark) == LET slot == Slot(fs, kind, mark) IN slot # <<>> /\ mark \notin slot[1]
Uncut(fs, arena, p) ==
  LET copy == Worn(fs) IN
  \/ arena \in {"github", "hn"} /\ copy[1] \cap {"shouty", "emoji"} # {}
  \/ arena = "hn" /\ Len(Copy(copy)) = 1 /\ ~p.maintainer
  \/ arena = "hn" /\ copy[1] \cap (LongTitle \cup {"listicle", "merged_pr"}) # {}
  \/ arena = "x" /\ ("long_post" \in copy[1] \/ ~NewThought(copy[1], fs))
  \/ arena = "linkedin" /\ ~\E i \in DOMAIN copy : Insight(copy[i]) /\ (p.pillars => "pillar" \in copy[i])
  \/ arena = "newsletter" /\ LetterReason(BodyLines(<<Copy(copy)>>)) = "letter_ask_without_gift"
  \/ arena = "youtube" /\ Mislabelled(fs, "package", "package")
  \/ arena = "reddit" /\ Mislabelled(fs, "subreddit", "room")
  \/ arena = "shorts" /\ "loop" \notin Shows(fs)
  \/ arena = "mastodon" /\ DressMastodon(Copy(copy)) = <<>>
  \/ /\ arena \in {"hn", "x", "youtube", "shorts", "bluesky", "mastodon"}  \* these leave copy out
     /\ {"worse_clone", "better_idea"} \subseteq Shows(fs)
KnownGap(b, arena, p) ==
  LET fs == b.facts
      told == {t \in FactsOf(Worn(fs)) : "readme_install" \notin t}
      unworn == UNION {f.text : f \in FactsOf(fs) \ FactsOf(WornFacts(fs))}
  IN  \/ Worn(fs) = <<>>
      \/ unworn \cap (Needed \cup Weighed) # {}
      \/ Shows(fs) \cap {"solicit", "chain_bait"} # {}
      \/ EmptyRelease(fs)
      \/ BotBump(told) \/ DeadStars(told)      \* scoring asks the releases and pulls only
      \/ Uncut(fs, arena, p)
DraftIsWorn ==
  phase = "applied" /\ score.verdict = "draft" /\ ~Spoken => KnownGap(brief, score.arena, brand)

\* "A film [store, blog, card, deck, chart ...] next to a repo can stay as
\* evidence" (playbook.py:518-660): a plain fact that links one of those hosts
\* never silences a brief that speaks without it.  A newspaper does.  A costume
\* that cuts copy may cut something else when there is one line more: the better
\* idea that excused a clone, the only line that is no clip of the agora, or the
\* package beside a label that shows none.
EvidenceStays ==
  phase = "applied" =>
    \A i \in DOMAIN brief.facts :
      LET fact == brief.facts[i]
          other == Without(brief, i)
      IN  /\ fact.url \in (HostUrls \cup {"vanity"}) \ {"news"}
          /\ fact.kind = "signal" /\ fact.text = {}
          /\ HasShip(other.facts)
          /\ {"worse_clone", "clip"} \cap Shows(other.facts) = {}
          /\ ~Mislabelled(other.facts, "package", "package")
          /\ ApplyBrief(other, brand, stack).draft # NoDraft
          => Spoken

\* Silence is always safe and never useful: about a hundred rules may each end
\* a brief.  A demo that claims its ship and says nothing wrong is spoken on
\* the stage that is free, and the words "issues disabled" only take it home.
\* A reply of the brief has to be about the ship.
PlainShipSpeaks ==
  /\ phase = "applied" /\ brand.voice = "own" /\ brand.maintainer /\ stack = "none"
  /\ brief.kind \in {"major", "hard_issue"} /\ Proven(brief) /\ brief.claims
  /\ brief.preferred = "none" /\ Len(brief.facts) >= 1
  /\ Urls(brief.facts) \subseteq OurShip \cup {"readme", "comment"}
  /\ TextShows(brief.facts) \subseteq {"issues_disabled", "readme_install", "better_idea", "life",
                                       "license_file", "superlative", "surname", "bare"}
  /\ Worn(brief.facts) # <<>> /\ ~ForeignWave(brief.facts)
  => draft.arena = IF "issues_disabled" \in Shows(brief.facts) THEN "github" ELSE "hn"

=============================================================================
