------------------------------ MODULE AngleProofs ------------------------------
(***************************************************************************)
(* Proofs about Angle for any briefs, any brands and any claimed arenas.   *)
(***************************************************************************)
EXTENDS Angle, CopyProofs

AngleInv ==
  /\ phase \in {"empty", "waiting", "applied", "claimed"}
  /\ phase # "empty" => brief \in Briefs
  /\ phase \in {"empty", "waiting"} => draft = NoDraft
  /\ phase \in {"applied", "claimed"} => brand \in Brands
  /\ phase = "applied" => /\ score = ApplyBrief(brief, brand, stack).score
                          /\ draft = ApplyBrief(brief, brand, stack).draft
  /\ phase = "claimed" => /\ score.verdict = "draft" /\ score.arena \in Claimed
                          /\ draft = DressBrief(brief, score, brand)

LEMMA AngleAlways == Spec => []AngleInv
<1>1. Init => AngleInv
  BY DEF Init, AngleInv
<1>2. AngleInv /\ [Next]_vars => AngleInv'
  <2> SUFFICES ASSUME AngleInv, [Next]_vars PROVE AngleInv'
    OBVIOUS
  <2>1. CASE Arrive
    BY <2>1 DEF Arrive, AngleInv
  <2>2. ASSUME NEW p \in Brands, NEW living \in StackArenas \cup {"none"}, Apply(p, living)
        PROVE  AngleInv'
    BY <2>2 DEF Apply, AngleInv
  <2>3. ASSUME NEW p \in Brands, NEW arena \in Claimed, DressPayload(p, arena)
        PROVE  AngleInv'
    BY <2>3 DEF DressPayload, AngleInv
  <2>4. CASE Leave
    BY <2>4 DEF Leave, AngleInv
  <2>5. CASE UNCHANGED vars
    BY <2>5 DEF vars, AngleInv
  <2> QED
    BY <2>1, <2>2, <2>3, <2>4, <2>5 DEF Next
<1> QED
  BY <1>1, <1>2, PTL DEF Spec

------------------------------------------------------------------------------
(* A draft that is spoken *)

LEMMA AppliedScore ==
  ASSUME AngleInv, Spoken, phase = "applied"
  PROVE  /\ score = ScoreBrief(brief, stack) /\ score.verdict = "draft"
         /\ draft = DressBrief(brief, score, brand)
<1>1. brand.voice = "own"
  BY DEF AngleInv, ApplyBrief, Spoken
<1>2. score = ScoreBrief(brief, stack) /\ draft = DressBrief(brief, score, brand)
  BY <1>1 DEF AngleInv, ApplyBrief
<1> QED
  BY <1>2 DEF DressBrief, Spoken

LEMMA SpokenDraft ==
  ASSUME AngleInv, Spoken
  PROVE  /\ brief \in Briefs /\ brief.facts \in Seq(FactsOf(brief.facts))
         /\ score.arena \in Arenas
         /\ draft = DressBrief(brief, score, brand) /\ draft # NoDraft
         /\ phase \in {"applied", "claimed"}
<1>1. brief \in Briefs /\ phase \in {"applied", "claimed"}
  BY DEF AngleInv, Spoken
<1>2. CASE phase = "applied"
  <2>1. score = ScoreBrief(brief, stack) /\ score.verdict = "draft"
        /\ draft = DressBrief(brief, score, brand)
    BY <1>2, AppliedScore
  <2>2. score.arena = ChooseArena(brief, "none")
    BY <2>1, ScoreSpeaks
  <2>3. score.arena \in Arenas
    BY <1>1, <2>2, ChosenArena, BriefAssumption
  <2> QED
    BY <1>1, <2>1, <2>3, BriefAssumption DEF Spoken
<1>3. CASE phase = "claimed"
  BY <1>1, <1>3, BriefAssumption, BrandAssumption DEF AngleInv, Spoken
<1> QED
  BY <1>1, <1>2, <1>3

LEMMA MarksOfTheChain ==
  /\ \A mark \in Marks : mark \in Links => mark \in NotDressed \cup {"dm_cta"}
  /\ "mention" \notin Links \cup NotDressed
  /\ {"room", "short"} \cap (Links \cup NotDressed \cup {"mention", "solicit", "chain_bait"}) = {}
  /\ {"solicit", "chain_bait"} \subseteq NotDressed
  BY DEF Links, Chain, NotDressed, Marks, NotYet, NotReachable, NotASite, NotAShip, NotAStory,
         NotNeeded, NotOurs, LookMarks, StageMarks, TalkMarks, BaitMarks, HostMarks, ShapeMarks,
         CostumeMarks

\* A body never shows a phrase that scoring or dressing silences, a summons, or
\* an open-source claim without its licence, and a misquote only out of a public
\* excerpt, for any brief, profile, stack and claimed score (score_brief,
\* dress_brief).
THEOREM CleanCopy == Spec => []OnlyCleanCopySpeaks
<1>1. AngleInv => OnlyCleanCopySpeaks
  <2> SUFFICES ASSUME AngleInv, Spoken
               PROVE  /\ Said \cap ((Links \cup NotDressed \cup {"mention", "solicit", "chain_bait"})
                                    \ (IF phase = "claimed" THEN {"dm_cta"} ELSE {})) = {}
                      /\ ~FakeOss(Said) /\ ~UnlicensedOss(Said)
                      /\ "misquote" \in Said => \E f \in Excerpts(brief.facts) : "misquote" \in f.text
    BY DEF OnlyCleanCopySpeaks
  <2> DEFINE fs == brief.facts
  <2>1. /\ brief \in Briefs /\ fs \in Seq(FactsOf(fs)) /\ score.arena \in Arenas
        /\ draft = DressBrief(brief, score, brand) /\ draft # NoDraft
        /\ phase \in {"applied", "claimed"}
    BY SpokenDraft
  <2>2. /\ Said \subseteq TextShows(fs) \cup {"room", "short"}
        /\ "mention" \notin Said /\ ~UnlicensedOss(Said) /\ ~Undressable(brief, score.arena)
    <3>1. Said = SaidIn(draft.texts)
      BY DEF Said, SaidIn
    <3> QED
      BY <2>1, <3>1, DraftWears
  <2>3. TextShows(fs) \subseteq Shows(fs) /\ TextShows(fs) \subseteq Marks
    BY <2>1, BriefAssumption DEF TextShows, Shows
  <2>4. Shows(fs) \cap NotDressed = {} /\ ~FakeOss(Shows(fs)) /\ ~Unquotable(fs)
    BY <2>2 DEF Undressable
  <2>5. phase = "applied" => Links \cap Shows(fs) = {}
    BY AppliedScore, ScoreSpeaks
  <2>6. ASSUME NEW mark \in Said, mark \in Links \cup NotDressed \cup {"mention", "solicit", "chain_bait"}
        PROVE  mark = "dm_cta" /\ phase = "claimed"
    <3>1. mark \in TextShows(fs) /\ mark \in Marks /\ mark # "mention"
      BY <2>2, <2>3, <2>6, MarksOfTheChain
    <3>2. mark \notin NotDressed /\ (phase = "applied" => mark \notin Links)
      BY <2>3, <2>4, <2>5, <3>1
    <3>3. mark \in Links /\ mark = "dm_cta"
      BY <2>6, <3>1, <3>2, MarksOfTheChain
    <3> QED
      BY <2>1, <3>2, <3>3
  <2>7. ~FakeOss(Said)
    BY <2>2, <2>3, <2>4 DEF FakeOss
  <2>8. ASSUME "misquote" \in Said PROVE \E f \in Excerpts(fs) : "misquote" \in f.text
    <3>1. PICK f \in FactsOf(fs) : "misquote" \in f.text
      BY <2>2, <2>8 DEF TextShows
    <3>2. IsExcerpt(f)
      BY <2>4, <3>1 DEF Unquotable, QuoteUnsourced, OperatorTexts
    <3> QED
      BY <3>1, <3>2 DEF Excerpts
  <2> QED
    BY <2>2, <2>6, <2>7, <2>8
<1> QED
  BY <1>1, AngleAlways, PTL

\* A draft of a ship claim that has a place for a link shows a ship's URL, for
\* any order of the facts of the brief (proof slot of score_brief and
\* dress_brief, forbid_ship_claim of the parish).
THEOREM ShipShown == Spec => []ShipClaimShowsShip
<1>1. AngleInv => ShipClaimShowsShip
  <2> SUFFICES ASSUME AngleInv, Spoken, phase = "applied", brief.claims,
                      draft.arena \notin {"discord", "shorts"}
               PROVE  draft.url \in ShipUrls
    BY DEF ShipClaimShowsShip
  <2> DEFINE fs == brief.facts
             arena == score.arena
  <2>1. /\ fs \in Seq(FactsOf(fs)) /\ arena \in Arenas
        /\ draft = DressBrief(brief, score, brand) /\ draft # NoDraft
    BY SpokenDraft
  <2>2. draft.arena = arena /\ draft.url = WornUrl(arena, fs)
    BY <2>1, DraftWears
  <2>3. /\ arena = ChooseArena(brief, "none") /\ Links \cap Derived(brief) = {}
        /\ \A i \in DOMAIN GateOrder : GateOrder[i] \notin GateSigns(brief, arena)
    BY AppliedScore, ScoreSpeaks
  <2>4. HasShip(fs)
    BY <2>3, ClaimedShip
  <2>5. arena # "mastodon"
    <3>1. 26 \in DOMAIN GateOrder /\ GateOrder[26] = "ship_claim"
      BY DEF GateOrder
    <3>2. "ship_claim" \notin GateSigns(brief, arena)
      BY <2>3, <3>1
    <3> QED
      BY <3>2 DEF GateSigns, ForbidShipClaim
  <2>6. ProofUrl(fs) \in ShipUrls /\ FirstShip(fs) \in ShipUrls
    BY <2>1, <2>4, ShipIsShown
  <2> QED
    BY <2>2, <2>5, <2>6 DEF WornUrl
<1> QED
  BY <1>1, AngleAlways, PTL
------------------------------------------------------------------------------
(* What scoring speaks for, dressing finds nothing wrong with, but for the gap *)

Unworn(fs) == UNION {f.text : f \in FactsOf(fs) \ FactsOf(WornFacts(fs))}

\* Stubs are weighed by dressing alone, and have to show a weighed phrase to
\* tip it.
LEMMA StubsWeighNothing ==
  ASSUME NEW S, NEW fs \in Seq(S), Unworn(fs) \cap Weighed = {},
         ~BotBumpWeek(Wearable(fs)), ~DeadStarStory(Wearable(fs))
  PROVE  ~BotBumpWeek(fs) /\ ~DeadStarStory(fs)
<1> DEFINE places == {i \in DOMAIN fs : ~IsArtifactStub(fs[i])}
           plain == Wearable(fs)
<1>1. plain = Picked(fs, places) /\ places \subseteq DOMAIN fs
  BY DEF Wearable
<1> HIDE DEF places, plain
<1>2. /\ \A k \in DOMAIN plain : \E i \in places : plain[k] = fs[i]
      /\ \A i \in places : \E k \in DOMAIN plain : plain[k] = fs[i]
  BY <1>1, PickedIsList
<1>3. FactsOf(plain) = {f \in FactsOf(fs) : ~IsArtifactStub(f)}
  BY <1>1, <1>2 DEF FactsOf, places
<1>4. \A f \in FactsOf(fs) : IsArtifactStub(f) => f.text \cap Weighed = {}
  BY WornKeeps DEF Unworn
<1>5. ASSUME NEW kinds, "artifact" \notin kinds
      PROVE  /\ Structured(plain, kinds) \subseteq Structured(fs, kinds)
             /\ \A t \in Structured(fs, kinds) : t \cap Weighed # {} => t \in Structured(plain, kinds)
  <2>1. {f \in FactsOf(plain) : f.kind \in kinds} = {f \in FactsOf(fs) : f.kind \in kinds}
    BY <1>3, <1>5 DEF IsArtifactStub
  <2> QED
    BY <1>3, <1>4, <2>1 DEF Structured
<1>6. ~BotBumpWeek(fs)
  <2> DEFINE kinds == {"release", "tag", "pull"}
  <2>1. "artifact" \notin kinds
    OBVIOUS
  <2>2. ~BotBump(Structured(plain, kinds))
    BY DEF plain, BotBumpWeek
  <2> HIDE DEF kinds
  <2>3. ~BotBump(Structured(fs, kinds))
    BY <1>5, <2>1, <2>2 DEF BotBump, Weighed
  <2> QED
    BY <2>3 DEF BotBumpWeek, kinds
<1>7. ~DeadStarStory(fs)
  <2> DEFINE kinds == {"release", "tag", "pull", "issue", "issue_comment"}
  <2>1. "artifact" \notin kinds
    OBVIOUS
  <2>2. ~DeadStars(Structured(plain, kinds))
    BY DEF plain, DeadStarStory
  <2> HIDE DEF kinds
  <2>3. ~DeadStars(Structured(fs, kinds))
    BY <1>5, <2>1, <2>2 DEF DeadStars, Weighed
  <2> QED
    BY <2>3 DEF DeadStarStory, kinds
<1> QED
  BY <1>6, <1>7

\* What a brief is past that is scored as a draft for an arena.
Scored(b, arena) ==
  /\ b.facts \in Seq(FactsOf(b.facts)) /\ arena \in Arenas
  /\ Links \cap (Shows(b.facts) \cup Derived(b)) = {}
  /\ \A i \in DOMAIN GateOrder : GateOrder[i] \notin GateSigns(b, arena)
  /\ ~MondayWithoutHistory(b, arena)
  /\ arena = "newsletter" => b.claims /\ b.tryable

LEMMA NoGap ==
  ASSUME NEW b, NEW arena, NEW p, ~KnownGap(b, arena, p)
  PROVE  LET fs == b.facts IN
         /\ Worn(fs) # <<>> /\ Unworn(fs) \cap (Needed \cup Weighed) = {}
         /\ Shows(fs) \cap {"solicit", "chain_bait"} = {} /\ ~EmptyRelease(fs)
         /\ ~BotBump({t \in FactsOf(Worn(fs)) : "readme_install" \notin t})
         /\ ~DeadStars({t \in FactsOf(Worn(fs)) : "readme_install" \notin t})
         /\ ~Uncut(fs, arena, p)
  BY DEF KnownGap, Unworn

LEMMA WornCopy ==
  ASSUME NEW b, NEW arena, NEW p, Scored(b, arena), ~KnownGap(b, arena, p)
  PROVE  LET fs == b.facts
             copy == Copy(Worn(fs))
         IN  /\ Worn(fs) \in Seq(SUBSET TextShows(fs)) /\ copy \in Seq(SUBSET TextShows(fs))
             /\ copy # <<>> /\ copy[1] = Worn(fs)[1]
             /\ FactsOf(copy) = FactsOf(Worn(fs)) /\ SaidIn(copy) = SaidIn(Worn(fs))
             /\ "mention" \notin SaidIn(copy)
             /\ \A mark \in Needed : mark \in TextShows(fs) => mark \in SaidIn(copy)
<1> DEFINE fs == b.facts
<1>1. Worn(fs) # <<>> /\ Unworn(fs) \cap Needed = {} /\ fs \in Seq(FactsOf(fs))
  BY NoGap DEF Scored
<1>2. Worn(fs) \in Seq(SUBSET TextShows(fs))
  BY <1>1, WornIsSaid
<1>3. Copy(Worn(fs)) \in Seq(SUBSET TextShows(fs)) /\ Copy(Worn(fs)) # <<>>
  BY <1>1, <1>2, CopyIsList
<1>4. /\ Copy(Worn(fs))[1] = Worn(fs)[1] /\ FactsOf(Copy(Worn(fs))) = FactsOf(Worn(fs))
      /\ SaidIn(Copy(Worn(fs))) = SaidIn(Worn(fs))
  BY <1>1, <1>2, CopySays
<1>5. /\ "mention" \notin SaidIn(Worn(fs))
      /\ \A mark \in Needed : mark \in TextShows(fs) => mark \in SaidIn(Worn(fs))
  <2>1. "mention" \notin Needed /\ "oss_claim" \notin Needed
    BY DEF Needed
  <2> QED
    BY <1>1, <2>1, WornKeeps DEF Unworn
<1> QED
  BY <1>2, <1>3, <1>4, <1>5

LEMMA DressesWhatIsScored ==
  ASSUME NEW b, NEW arena, NEW p, Scored(b, arena), ~KnownGap(b, arena, p)
  PROVE  ~Undressable(b, arena)
<1> DEFINE fs == b.facts
           marks == Shows(fs)
           copy == Copy(Worn(fs))
           bits == {t \in {copy[i] : i \in DOMAIN copy} : "readme_install" \notin t}
<1>1. /\ Worn(fs) # <<>> /\ Unworn(fs) \cap Weighed = {}
      /\ marks \cap {"solicit", "chain_bait"} = {} /\ ~EmptyRelease(fs)
      /\ ~BotBump({t \in FactsOf(Worn(fs)) : "readme_install" \notin t})
      /\ ~DeadStars({t \in FactsOf(Worn(fs)) : "readme_install" \notin t})
  BY NoGap
<1>2. /\ marks \cap (NotDressed \ {"solicit", "chain_bait"}) = {}
      /\ ~FakeOss(marks) /\ ~CloneTalk(marks) /\ ~ApologyAlone(fs)
      /\ ("superlative" \in marks => Proven(b)) /\ ~ForeignWave(fs) /\ ~Unquotable(fs)
      /\ ~BotBumpWeek(Wearable(fs)) /\ ~DeadStarStory(Wearable(fs))
  BY ChainSilent DEF Scored
<1>3. marks \cap NotDressed = {}
  BY <1>1, <1>2
<1>4. ~BotBumpWeek(fs) /\ ~DeadStarStory(fs)
  BY <1>1, <1>2, StubsWeighNothing DEF Scored
<1>5. bits = {t \in FactsOf(Worn(fs)) : "readme_install" \notin t}
  <2>1. FactsOf(copy) = FactsOf(Worn(fs))
    BY WornCopy
  <2> HIDE DEF copy
  <2> QED
    BY <2>1 DEF FactsOf
<1>6. /\ arena \in SocialArenas => "issues_disabled" \notin marks
      /\ arena = "x" => HasParentPost(fs) /\ AgoraReason(fs) = "ok"
      /\ arena = "bluesky" => HasShip(fs) /\ CafeReason(marks) = "ok"
  BY GatesPassed DEF Scored
<1>7. ~ArenaRefuses(arena, Lines(fs), marks, b)
  <2>1. /\ arena = "hn" => SeminarReason(marks) = "ok"
        /\ arena = "linkedin" => CourtReason(Lines(fs), b.claims) = "ok"
        /\ arena = "discord" => TavernReason(marks) = "ok"
        /\ arena = "newsletter" => LetterReason(Lines(fs)) = "ok"
        /\ arena = "reddit" => RedditReason(marks, HasShip(fs)) = "ok"
        /\ arena = "youtube" => CinemaEndReason(marks) = "ok"
    BY GatesPassed DEF Scored
  <2> QED
    BY <2>1 DEF ArenaRefuses
<1>8. ~MondayWithoutHistory(b, arena) /\ (arena = "newsletter" => b.claims /\ b.tryable)
  BY DEF Scored
<1> HIDE DEF bits
<1>9. ~BotBump(bits) /\ ~DeadStars(bits)
  BY <1>1, <1>5
<1> QED
  BY <1>1, <1>2, <1>3, <1>4, <1>6, <1>7, <1>8, <1>9 DEF Undressable, bits

Body(b, arena, p) == Costume(arena, Copy(Worn(b.facts)), ProofUrl(b.facts), b.facts, p)

LEMMA GithubFits ==
  ASSUME NEW b, NEW p, Scored(b, "github"), ~KnownGap(b, "github", p)
  PROVE  Body(b, "github", p) = <<Copy(Worn(b.facts)), ProofUrl(b.facts)>>
<1> DEFINE copy == Copy(Worn(b.facts))
<1>1. copy[1] = Worn(b.facts)[1]
  BY WornCopy
<1>2. Worn(b.facts)[1] \cap {"shouty", "emoji"} = {}
  BY NoGap DEF Uncut
<1> HIDE DEF copy
<1>3. DressGithub(copy, ProofUrl(b.facts), b.facts) = <<copy, ProofUrl(b.facts)>>
  BY <1>1, <1>2 DEF DressGithub, Dressed
<1> QED
  BY <1>3 DEF Body, Costume, copy

LEMMA HnBody ==
  ASSUME NEW b, NEW p, Scored(b, "hn"), ~KnownGap(b, "hn", p)
  PROVE  /\ Body(b, "hn", p) # <<>> /\ Body(b, "hn", p)[1][1] = Worn(b.facts)[1]
         /\ Worn(b.facts)[1] \cap LongTitle = {}
<1> DEFINE fs == b.facts
           copy == Copy(Worn(fs))
           url == ProofUrl(fs)
<1>1. /\ copy \in Seq(SUBSET TextShows(fs)) /\ copy # <<>> /\ copy[1] = Worn(fs)[1]
      /\ FactsOf(copy) = FactsOf(Worn(fs))
  BY WornCopy
<1>2. /\ Worn(fs)[1] \cap {"shouty", "emoji"} = {}
      /\ Worn(fs)[1] \cap (LongTitle \cup {"listicle", "merged_pr"}) = {}
      /\ ~(Len(copy) = 1 /\ ~p.maintainer)
      /\ ~BotBump({t \in FactsOf(Worn(fs)) : "readme_install" \notin t})
  BY NoGap DEF Uncut
<1>3. {"store_pitch", "launch_pitch"} \cap TextShows(fs) = {} /\ url # "none"
  BY GatesPassed DEF Scored
<1>4. url \in TryableUrls \ NotProof
  BY <1>3, ProofUrlIsPlain DEF Scored
<1>5. SaidIn(copy) \cap {"store_pitch", "launch_pitch"} = {}
  <2> HIDE DEF copy, fs
  <2>1. SaidIn(copy) \subseteq TextShows(fs)
    BY <1>1 DEF SaidIn
  <2> QED
    BY <1>3, <2>1
<1>6. Body(b, "hn", p) = DressHn(copy, url, fs, p)
  BY DEF Body, Costume
<1> HIDE DEF copy, url, fs
<1>7. copy[1] \cap ({"listicle", "shouty", "emoji", "merged_pr"} \cup LongTitle) = {}
  BY <1>1, <1>2
<1>8. DressHn(copy, url, fs, p) # <<>>
  BY <1>1, <1>2, <1>4, <1>5, <1>7, HnFits
<1>9. {} \in SUBSET TextShows(fs)
  OBVIOUS
<1>10. DressHn(copy, url, fs, p)[1][1] = copy[1]
  BY <1>1, <1>8, <1>9, HnWears
<1> QED
  BY <1>1, <1>2, <1>6, <1>8, <1>10 DEF fs

LEMMA XBody ==
  ASSUME NEW b, NEW p, Scored(b, "x"), ~KnownGap(b, "x", p)
  PROVE  /\ Body(b, "x", p) # <<>> /\ Body(b, "x", p)[1][1] = Worn(b.facts)[1]
         /\ "long_post" \notin Worn(b.facts)[1] /\ NewThought(Worn(b.facts)[1], b.facts)
<1> DEFINE copy == Copy(Worn(b.facts))
<1>1. copy[1] = Worn(b.facts)[1]
  BY WornCopy
<1>2. "long_post" \notin Worn(b.facts)[1] /\ NewThought(Worn(b.facts)[1], b.facts)
  BY NoGap DEF Uncut
<1> HIDE DEF copy
<1>3. DressX(copy, ProofUrl(b.facts)) = <<<<copy[1]>>, ProofUrl(b.facts)>>
  BY <1>1, <1>2 DEF DressX, Dressed
<1>4. Body(b, "x", p) = <<<<copy[1]>>, ProofUrl(b.facts)>>
  BY <1>3 DEF Body, Costume, copy
<1> QED
  BY <1>1, <1>2, <1>4

\* The fold comes first and everything else after it.
LEMMA LinkedinBody ==
  ASSUME NEW b, NEW p, Scored(b, "linkedin"), ~KnownGap(b, "linkedin", p)
  PROVE  LET body == Body(b, "linkedin", p)
         IN  /\ body # <<>> /\ body[1][1] \cap LongFold = {}
             /\ SaidIn(Copy(Worn(b.facts))) \subseteq SaidIn(body[1])
             /\ \E i \in DOMAIN body[1] : Insight(body[1][i])
<1> DEFINE fs == b.facts
           copy == Copy(Worn(fs))
           url == ProofUrl(fs)
           body == DressLinkedin(copy, url, p)
<1>1. copy \in Seq(SUBSET TextShows(fs)) /\ FactsOf(copy) = FactsOf(Worn(fs))
  BY WornCopy
<1>2. \E n \in DOMAIN Worn(fs) : Insight(Worn(fs)[n]) /\ (p.pillars => "pillar" \in Worn(fs)[n])
  BY NoGap DEF Uncut
<1>3. Body(b, "linkedin", p) = body
  BY DEF Body, Costume
<1> HIDE DEF copy, url, fs, body
<1>4. \A t \in FactsOf(Worn(fs)) : \E n \in DOMAIN copy : copy[n] = t
  BY <1>1 DEF FactsOf
<1>5. PICK k \in DOMAIN copy : Insight(copy[k]) /\ (p.pillars => "pillar" \in copy[k])
  BY <1>2, <1>4 DEF FactsOf
<1>6. body # <<>>
  BY <1>1, <1>5, LinkedinFits DEF body
<1>7. /\ body[1][1] \cap LongFold = {}
      /\ \A n \in DOMAIN copy : \E m \in DOMAIN body[1] : body[1][m] = copy[n]
  BY <1>1, <1>6, LinkedinWears DEF body
<1>8. SaidIn(copy) \subseteq SaidIn(body[1]) /\ \E m \in DOMAIN body[1] : Insight(body[1][m])
  BY <1>5, <1>7 DEF SaidIn
<1> QED
  BY <1>3, <1>6, <1>7, <1>8 DEF copy, fs

\* A phrase that the village or the cinema asks for is in its slot.
LEMMA SlotShows ==
  ASSUME NEW b, NEW arena, NEW p, Scored(b, arena), ~KnownGap(b, arena, p),
         NEW mark \in {"package", "room", "hook"}, mark \in Shows(b.facts), NEW kind
  PROVE  Slot(b.facts, kind, mark) # <<>>
<1> DEFINE fs == b.facts
<1>1. mark \in TextShows(fs)
  <2>1. \A url : mark \notin UrlMarks(url)
    BY DEF UrlMarks
  <2> QED
    BY <2>1 DEF Shows, TextShows
<1>2. mark \in SaidIn(Worn(fs))
  <2>1. mark \in Needed
    BY DEF Needed
  <2> QED
    BY <1>1, <2>1, WornCopy
<1> QED
  BY <1>2, SlotHolds DEF Scored

LEMMA YoutubeBody ==
  ASSUME NEW b, NEW p, Scored(b, "youtube"), ~KnownGap(b, "youtube", p)
  PROVE  LET body == Body(b, "youtube", p)
         IN  body # <<>> /\ "package" \in SaidIn(body[1])
<1> DEFINE fs == b.facts
           copy == Copy(Worn(fs))
           url == ProofUrl(fs)
           slot == Slot(fs, "package", "package")
           body == DressYoutube(copy, url, fs)
           T == SUBSET TextShows(fs)
<1>1. copy \in Seq(T) /\ Worn(fs) \in Seq(T)
  BY WornCopy
<1>2. /\ CinemaEndReason(Shows(fs)) = "ok"
      /\ FairLoopReason(Shows(fs), Kinds(fs)) # "fair_cta_with_loop"
  BY GatesPassed DEF Scored
<1>3. "package" \in Shows(fs) /\ FairLoopReason(Shows(fs), {}) # "fair_cta_with_loop"
  BY <1>2 DEF CinemaEndReason, FairLoopReason
<1>4. slot # <<>>
  BY <1>3, SlotShows
<1>5. "package" \in slot[1]
  BY <1>4, NoGap DEF Uncut, Mislabelled
<1>6. Body(b, "youtube", p) = body
  BY DEF Body, Costume
<1>7. slot \in Seq(T)
  BY <1>1, SlotIsWorn DEF Scored
<1> HIDE DEF copy, url, fs, T, body
<1>8. body # <<>> /\ 1 \in DOMAIN body[1] /\ body[1][1] = slot[1]
  BY <1>1, <1>3, <1>4, <1>7, YoutubeFits DEF body
<1> QED
  BY <1>5, <1>6, <1>8 DEF SaidIn

LEMMA ShortsBody ==
  ASSUME NEW b, NEW p, Scored(b, "shorts"), ~KnownGap(b, "shorts", p)
  PROVE  Body(b, "shorts", p) # <<>>
<1> DEFINE fs == b.facts
           copy == Copy(Worn(fs))
           T == SUBSET TextShows(fs)
<1>1. copy \in Seq(T) /\ Worn(fs) \in Seq(T)
  BY WornCopy
<1>2. FairHookReason(Shows(fs)) = "ok" /\ FairLoopReason(Shows(fs), Kinds(fs)) = "ok"
  BY GatesPassed DEF Scored
<1>3. "loop" \in Shows(fs)
  BY NoGap DEF Uncut
<1>4. FairLoopReason(Shows(fs), {}) = "ok" /\ "cta" \notin Shows(fs) /\ "hook" \in Shows(fs)
  BY <1>2, <1>3 DEF FairLoopReason, FairHookReason
<1>5. Slot(fs, "none", "hook") # <<>>
  BY <1>4, SlotShows
<1>6. \A kind, mark : Slot(fs, kind, mark) \in Seq(T)
  BY <1>1, SlotIsWorn DEF Scored
<1>7. \A t \in T : "cta" \notin t
  BY <1>4 DEF Shows, TextShows
<1>8. Body(b, "shorts", p) = DressShorts(copy, fs)
  BY DEF Body, Costume
<1> HIDE DEF copy, fs, T
<1>9. DressShorts(copy, fs) # <<>>
  BY <1>1, <1>2, <1>4, <1>5, <1>6, <1>7, ShortsFits
<1> QED
  BY <1>8, <1>9

LEMMA RedditBody ==
  ASSUME NEW b, NEW p, Scored(b, "reddit"), ~KnownGap(b, "reddit", p)
  PROVE  Body(b, "reddit", p) = <<Append(Copy(Worn(b.facts)), {"room", "short"}), ProofUrl(b.facts)>>
<1> DEFINE fs == b.facts
           slot == Slot(fs, "subreddit", "room")
<1>1. RedditReason(Shows(fs), HasShip(fs)) = "ok"
  BY GatesPassed DEF Scored
<1>2. "room" \in Shows(fs)
  BY <1>1 DEF RedditReason
<1>3. slot # <<>>
  BY <1>2, SlotShows
<1>4. "room" \in slot[1]
  BY <1>3, NoGap DEF Uncut, Mislabelled
<1> QED
  BY <1>3, <1>4 DEF Body, Costume, DressReddit, Dressed

LEMMA PlainBody ==
  ASSUME NEW b, NEW arena \in {"newsletter", "bluesky", "discord", "mastodon"}, NEW p,
         Scored(b, arena), ~KnownGap(b, arena, p)
  PROVE  /\ Body(b, arena, p) # <<>>
         /\ arena \in {"newsletter", "discord"} => Body(b, arena, p)[1] = Copy(Worn(b.facts))
<1> DEFINE copy == Copy(Worn(b.facts))
<1>1. CASE arena = "newsletter"
  <2>1. Body(b, arena, p) = <<copy, ProofUrl(b.facts)>>
    BY <1>1 DEF Body, Costume, Dressed
  <2> QED
    BY <2>1
<1>2. CASE arena = "bluesky"
  <2>1. Body(b, arena, p) = <<<<copy[1]>>, FirstShip(b.facts)>>
    BY <1>2 DEF Body, Costume, Dressed
  <2> QED
    BY <1>2, <2>1
<1>3. CASE arena = "discord"
  <2>1. Body(b, arena, p) = <<copy, "none">>
    BY <1>3 DEF Body, Costume, Dressed
  <2> QED
    BY <2>1
<1>4. CASE arena = "mastodon"
  <2>1. DressMastodon(copy) # <<>>
    BY <1>4, NoGap DEF Uncut
  <2>2. Body(b, arena, p) = DressMastodon(copy)
    BY <1>4 DEF Body, Costume
  <2> QED
    BY <1>4, <2>1, <2>2
<1> QED
  BY <1>1, <1>2, <1>3, <1>4

\* What the blob may say, the body may repeat.
LEMMA SaidIsQuotable ==
  ASSUME NEW fs, NEW marks, marks \subseteq (TextShows(fs) \ {"mention"}) \cup {"room", "short"},
         ~Unquotable(fs), Shows(fs) \cap (NotOwnWords \ {"opinion", "mention"}) = {}, ~FakeOss(Shows(fs))
  PROVE  ~UnquotableBody(marks, fs) /\ ~FakeOss(marks)
<1>1. {"room", "short"} \cap (NeverQuoted \cup NotOwnWords \cup {"source_available", "oss_claim"}) = {}
  BY DEF NeverQuoted, NotOwnWords
<1>2. Shows(fs) \cap NeverQuoted = {} /\ (UNION OperatorTexts(fs)) \cap NotOwnWords = {}
  BY DEF Unquotable
<1>3. marks \cap NeverQuoted = {}
  BY <1>1, <1>2, TextIsShown
<1>4. marks \cap (NotOwnWords \ {"opinion"}) = {}
  BY <1>1, TextIsShown
<1>5. UNION OperatorTexts(fs) \subseteq TextShows(fs)
  BY DEF OperatorTexts, TextShows
<1>6. ~FakeOss(marks \cup UNION OperatorTexts(fs)) /\ ~FakeOss(marks)
  <2>1. \A mark \in {"source_available", "oss_claim"} :
          mark \in marks \cup UNION OperatorTexts(fs) => mark \in Shows(fs)
    BY <1>1, <1>5, TextIsShown
  <2> QED
    BY <2>1 DEF FakeOss
<1>7. "opinion" \in marks => \E f \in Excerpts(fs) : "opinion" \in f.text
  <2> SUFFICES ASSUME "opinion" \in marks PROVE \E f \in Excerpts(fs) : "opinion" \in f.text
    OBVIOUS
  <2>1. PICK f \in FactsOf(fs) : "opinion" \in f.text
    BY DEF TextShows
  <2>2. "opinion" \in NotOwnWords
    BY DEF NotOwnWords
  <2>3. IsExcerpt(f)
    BY <1>2, <2>1, <2>2 DEF OperatorTexts
  <2> QED
    BY <2>1, <2>3 DEF Excerpts
<1> QED
  BY <1>3, <1>4, <1>6, <1>7 DEF UnquotableBody

LEMMA BodySays ==
  ASSUME NEW b, NEW arena, NEW p, Scored(b, arena), Worn(b.facts) # <<>>, Body(b, arena, p) # <<>>
  PROVE  LET body == Body(b, arena, p)
             said == (TextShows(b.facts) \ {"mention"}) \cup {"room", "short"}
         IN  /\ body[1] \in Seq(SUBSET said) /\ body[2] = WornUrl(arena, b.facts)
             /\ BodyMarks(body) = SaidIn(body[1]) /\ BodyMarks(body) \subseteq said
<1> DEFINE fs == b.facts
           said == (TextShows(fs) \ {"mention"}) \cup {"room", "short"}
           T == SUBSET said
           copy == Copy(Worn(fs))
           url == ProofUrl(fs)
           body == Costume(arena, copy, url, fs, p)
<1>1. fs \in Seq(FactsOf(fs)) /\ arena \in Arenas
  BY DEF Scored
<1>2. Worn(fs) # <<>> /\ Worn(fs) \in Seq(SUBSET TextShows(fs)) /\ "mention" \notin SaidIn(Worn(fs))
  <2>1. Worn(fs) \in Seq(SUBSET TextShows(fs))
    BY <1>1, WornIsSaid
  <2>2. "mention" \notin SaidIn(Worn(fs))
    BY <1>1, WornKeeps
  <2> QED
    BY <2>1, <2>2
<1>3. Worn(fs) \in Seq(T)
  <2>1. \A i \in DOMAIN Worn(fs) : Worn(fs)[i] \in T
    BY <1>2 DEF SaidIn
  <2> HIDE DEF T, fs
  <2> QED
    BY <1>2, <2>1
<1>4. copy \in Seq(T) /\ copy # <<>>
  <2> HIDE DEF T, fs
  <2> QED
    BY <1>2, <1>3, CopyIsList
<1>5. \A kind, mark : Slot(fs, kind, mark) \in Seq(T)
  <2> HIDE DEF T, fs
  <2> QED
    BY <1>1, <1>3, SlotIsWorn
<1>6. {} \in T /\ {"room", "short"} \in T
  OBVIOUS
<1>7. body # <<>> /\ Body(b, arena, p) = body
  BY DEF Body
<1> HIDE DEF T, copy, url
<1>8. body[1] \in Seq(T) /\ body[2] = WornUrl(arena, fs)
  <2>1. body[1] \in Seq(T)
        /\ body[2] = IF arena \in {"shorts", "mastodon", "discord"} THEN "none"
                     ELSE IF arena = "bluesky" THEN FirstShip(fs) ELSE url
    <3> HIDE DEF fs
    <3> QED
      BY <1>1, <1>4, <1>5, <1>6, <1>7, CostumeWears
  <2> QED
    BY <2>1 DEF WornUrl, url
<1>9. UrlMarks(body[2]) = {}
  <2>1. WornUrl(arena, fs) \in (TryableUrls \ NotProof) \cup {"none"}
    BY <1>1, ProofUrlIsPlain DEF WornUrl
  <2>2. \A u \in (TryableUrls \ NotProof) \cup {"none"} : UrlMarks(u) = {}
    BY DEF UrlMarks, TryableUrls, ShipUrls, OurShip, NotProof, RankingUrls
  <2> QED
    BY <1>8, <2>1, <2>2
<1> HIDE DEF body
<1>10. BodyMarks(body) = SaidIn(body[1])
  BY <1>9 DEF BodyMarks, SaidIn
<1>11. SaidIn(body[1]) \subseteq said
  BY <1>8 DEF SaidIn, T
<1> QED
  BY <1>7, <1>8, <1>10, <1>11 DEF T

LEMMA BodyIsSaid ==
  ASSUME NEW b, NEW arena, NEW p, Scored(b, arena), ~KnownGap(b, arena, p), Body(b, arena, p) # <<>>
  PROVE  LET body == Body(b, arena, p)
             said == (TextShows(b.facts) \ {"mention"}) \cup {"room", "short"}
         IN  /\ body[1] \in Seq(SUBSET said) /\ body[2] = WornUrl(arena, b.facts)
             /\ BodyMarks(body) = SaidIn(body[1]) /\ BodyMarks(body) \subseteq said
<1>1. Worn(b.facts) # <<>>
  BY NoGap
<1> QED
  BY <1>1, BodySays

LEMMA BodyFits ==
  ASSUME NEW b, NEW arena, NEW p, Scored(b, arena), ~KnownGap(b, arena, p)
  PROVE  /\ Body(b, arena, p) # <<>>
         /\ arena \in {"github", "linkedin", "newsletter", "discord", "reddit"}
              => SaidIn(Copy(Worn(b.facts))) \subseteq SaidIn(Body(b, arena, p)[1])
         /\ arena = "reddit" => "room" \in SaidIn(Body(b, arena, p)[1])
<1> DEFINE copy == Copy(Worn(b.facts))
           body == Body(b, arena, p)
<1>1. copy \in Seq(SUBSET TextShows(b.facts))
  BY WornCopy
<1>2. CASE arena = "github"
  <2>1. body = <<copy, ProofUrl(b.facts)>>
    BY <1>2, GithubFits
  <2> QED
    BY <1>2, <2>1
<1>3. CASE arena = "reddit"
  <2>1. body = <<Append(copy, {"room", "short"}), ProofUrl(b.facts)>>
    BY <1>3, RedditBody
  <2> HIDE DEF copy
  <2>2. /\ Len(copy) + 1 \in DOMAIN Append(copy, {"room", "short"})
        /\ Append(copy, {"room", "short"})[Len(copy) + 1] = {"room", "short"}
        /\ \A i \in DOMAIN copy : i \in DOMAIN Append(copy, {"room", "short"})
                                  /\ Append(copy, {"room", "short"})[i] = copy[i]
    BY <1>1
  <2>3. body[1] = Append(copy, {"room", "short"}) /\ body # <<>>
    BY <2>1
  <2>4. SaidIn(copy) \subseteq SaidIn(body[1]) /\ "room" \in SaidIn(body[1])
    BY <2>2, <2>3 DEF SaidIn
  <2> QED
    BY <2>3, <2>4 DEF copy
<1>4. CASE arena = "linkedin"
  BY <1>4, LinkedinBody
<1>5. CASE arena \in {"newsletter", "discord"}
  <2>1. body # <<>> /\ body[1] = copy
    BY <1>5, PlainBody
  <2> QED
    BY <1>5, <2>1
<1>6. CASE arena \in {"bluesky", "mastodon"}
  BY <1>6, PlainBody
<1>7. CASE arena = "hn"
  BY <1>7, HnBody
<1>8. CASE arena = "x"
  BY <1>8, XBody
<1>9. CASE arena = "youtube"
  BY <1>9, YoutubeBody
<1>10. CASE arena = "shorts"
  BY <1>10, ShortsBody
<1>11. arena \in Arenas
  BY DEF Scored
<1> QED
  BY <1>2, <1>3, <1>4, <1>5, <1>6, <1>7, <1>8, <1>9, <1>10, <1>11 DEF Arenas

LEMMA Signed ==
  ASSUME NEW lines
  PROVE  /\ LetterReason(lines) = "ok" => "team_voice" \notin SaidIn(lines) /\ "surname" \in SaidIn(lines)
         /\ /\ LetterReason(lines) # "letter_ask_without_gift"
            /\ "team_voice" \notin SaidIn(lines) /\ "surname" \in SaidIn(lines)
            => LetterReason(lines) = "ok"
  BY DEF LetterReason, SaidIn

\* Lines of the body, after which comes the line of the URL.
LEMMA LinesOfBody ==
  ASSUME NEW T, NEW body, body[1] \in Seq(T)
  PROVE  /\ \A i \in DOMAIN body[1] : i \in DOMAIN BodyLines(body) /\ BodyLines(body)[i] = body[1][i]
         /\ \A i \in DOMAIN BodyLines(body) :
              BodyLines(body)[i] = {"url", "short"} \/ (i \in DOMAIN body[1] /\ BodyLines(body)[i] = body[1][i])
         /\ SaidIn(BodyLines(body)) = SaidIn(body[1]) \cup {"url", "short"}
<1> DEFINE texts == body[1]
           lines == BodyLines(body)
<1>1. lines = Append(texts, {"url", "short"}) /\ texts \in Seq(T)
  BY DEF BodyLines
<1> HIDE DEF texts, lines
<1>2. /\ DOMAIN lines = 1..(Len(texts) + 1) /\ DOMAIN texts = 1..Len(texts) /\ Len(texts) \in Nat
      /\ lines[Len(texts) + 1] = {"url", "short"}
      /\ \A i \in DOMAIN texts : lines[i] = texts[i]
  BY <1>1
<1>3. \A i \in DOMAIN lines : i = Len(texts) + 1 \/ i \in DOMAIN texts
  BY <1>2
<1>4. \A i \in DOMAIN texts : i \in DOMAIN lines
  BY <1>2
<1>5. Len(texts) + 1 \in DOMAIN lines
  BY <1>2
<1>6. SaidIn(lines) = SaidIn(texts) \cup {"url", "short"}
  BY <1>2, <1>3, <1>4, <1>5 DEF SaidIn
<1> QED
  BY <1>2, <1>3, <1>4, <1>6 DEF texts, lines

\* The needed phrases of a brief whose body is the whole copy are in the body.
LEMMA BodyHolds ==
  ASSUME NEW b, NEW arena \in {"github", "linkedin", "newsletter", "discord", "reddit"}, NEW p,
         Scored(b, arena), ~KnownGap(b, arena, p), NEW mark \in Needed, mark \in Shows(b.facts)
  PROVE  mark \in BodyMarks(Body(b, arena, p))
<1>1. mark \in TextShows(b.facts)
  <2>1. \A url : mark \notin UrlMarks(url)
    BY DEF UrlMarks, Needed
  <2> QED
    BY <2>1 DEF Shows, TextShows
<1>2. mark \in SaidIn(Copy(Worn(b.facts)))
  BY <1>1, WornCopy
<1> DEFINE body == Body(b, arena, p)
<1>3. body # <<>>
  BY BodyFits
<1>4. SaidIn(Copy(Worn(b.facts))) \subseteq SaidIn(body[1])
  BY BodyFits
<1>5. BodyMarks(body) = SaidIn(body[1])
  BY <1>3, BodyIsSaid
<1> HIDE DEF body
<1>6. mark \in BodyMarks(body)
  BY <1>2, <1>4, <1>5
<1> QED
  BY <1>6 DEF body

LEMMA CourtHears ==
  ASSUME NEW b, NEW p, Scored(b, "linkedin"), ~KnownGap(b, "linkedin", p)
  PROVE  CourtReason(BodyLines(Body(b, "linkedin", p)), b.claims) = "ok"
<1> DEFINE body == Body(b, "linkedin", p)
           fs == b.facts
<1>1. CourtReason(Lines(fs), b.claims) = "ok"
  BY GatesPassed DEF Scored
<1>2. ~b.claims /\ "launch_talk" \notin SaidIn(Lines(fs))
  BY <1>1 DEF CourtReason, SaidIn
<1>3. "launch_talk" \notin TextShows(fs)
  BY <1>2, TextIsLine DEF Scored
<1>4. /\ body # <<>> /\ \E i \in DOMAIN body[1] : Insight(body[1][i])
  BY LinkedinBody
<1>5. /\ body[1] \in Seq(SUBSET ((TextShows(fs) \ {"mention"}) \cup {"room", "short"}))
      /\ BodyMarks(body) = SaidIn(body[1])
      /\ BodyMarks(body) \subseteq (TextShows(fs) \ {"mention"}) \cup {"room", "short"}
  BY <1>4, BodyIsSaid
<1> HIDE DEF body, fs
<1>6. SaidIn(BodyLines(body)) = SaidIn(body[1]) \cup {"url", "short"}
      /\ \E i \in DOMAIN BodyLines(body) : Insight(BodyLines(body)[i])
  BY <1>4, <1>5, LinesOfBody
<1>7. "launch_talk" \notin SaidIn(BodyLines(body))
  BY <1>3, <1>5, <1>6
<1> QED
  BY <1>2, <1>6, <1>7 DEF CourtReason, SaidIn, body, fs

LEMMA LetterIsSigned ==
  ASSUME NEW b, NEW p, Scored(b, "newsletter"), ~KnownGap(b, "newsletter", p)
  PROVE  LetterReason(BodyLines(Body(b, "newsletter", p))) = "ok"
<1> DEFINE body == Body(b, "newsletter", p)
           fs == b.facts
           copy == Copy(Worn(fs))
<1>1. LetterReason(Lines(fs)) = "ok"
  BY GatesPassed DEF Scored
<1>2. "team_voice" \notin TextShows(fs) /\ "surname" \in TextShows(fs)
  <2>1. "team_voice" \notin SaidIn(Lines(fs)) /\ "surname" \in SaidIn(Lines(fs))
    BY <1>1, Signed
  <2>2. TextShows(fs) \subseteq SaidIn(Lines(fs)) /\ SaidIn(Lines(fs)) \subseteq TextShows(fs) \cup {"short", "url"}
    BY TextIsLine DEF Scored
  <2> QED
    BY <2>1, <2>2
<1>3. "surname" \in SaidIn(copy) /\ copy \in Seq(SUBSET TextShows(fs))
  <2>1. "surname" \in Needed
    BY DEF Needed
  <2> QED
    BY <1>2, <2>1, WornCopy
<1>4. body[1] = copy
  BY PlainBody
<1>5. LetterReason(BodyLines(<<copy>>)) # "letter_ask_without_gift"
  BY NoGap DEF Uncut
<1>6. BodyLines(body) = BodyLines(<<copy>>)
  BY <1>4 DEF BodyLines
<1> HIDE DEF body, copy, fs
<1>7. SaidIn(BodyLines(body)) = SaidIn(copy) \cup {"url", "short"}
  BY <1>3, <1>4, LinesOfBody
<1>8. SaidIn(copy) \subseteq TextShows(fs)
  BY <1>3 DEF SaidIn
<1>9. "team_voice" \notin SaidIn(BodyLines(body)) /\ "surname" \in SaidIn(BodyLines(body))
  BY <1>2, <1>3, <1>7, <1>8
<1> QED
  BY <1>5, <1>6, <1>9, Signed DEF body

LEMMA VillageKnows ==
  ASSUME NEW b, NEW p, Scored(b, "reddit"), ~KnownGap(b, "reddit", p)
  PROVE  RedditReason(BodyMarks(Body(b, "reddit", p)), Body(b, "reddit", p)[2] \in ShipUrls) = "ok"
<1> DEFINE body == Body(b, "reddit", p)
           fs == b.facts
<1>1. RedditReason(Shows(fs), HasShip(fs)) = "ok"
  BY GatesPassed DEF Scored
<1>2. "disclose" \in Shows(fs) /\ (HasShip(fs) \/ "names_ship" \in Shows(fs))
  BY <1>1 DEF RedditReason
<1>3. /\ "room" \in BodyMarks(body) /\ body[2] = ProofUrl(fs)
  <2>1. body # <<>> /\ "room" \in SaidIn(body[1])
    BY BodyFits
  <2>2. BodyMarks(body) = SaidIn(body[1]) /\ body[2] = WornUrl("reddit", fs)
    BY <2>1, BodyIsSaid
  <2>3. WornUrl("reddit", fs) = ProofUrl(fs)
    BY DEF WornUrl
  <2> QED
    BY <2>1, <2>2, <2>3
<1>4. "disclose" \in Needed /\ "names_ship" \in Needed
  BY DEF Needed
<1>5. /\ "disclose" \in BodyMarks(body)
      /\ "names_ship" \in Shows(fs) => "names_ship" \in BodyMarks(body)
  BY <1>2, <1>4, BodyHolds
<1>6. HasShip(fs) => body[2] \in ShipUrls
  BY <1>3, ShipIsShown DEF Scored
<1> HIDE DEF body
<1> QED
  BY <1>2, <1>3, <1>5, <1>6 DEF RedditReason, body

LEMMA ArenaAccepts ==
  ASSUME NEW b, NEW arena, NEW p, Scored(b, arena), ~KnownGap(b, arena, p), arena # "reddit"
  PROVE  ~ArenaRefuses(arena, BodyLines(Body(b, arena, p)), BodyMarks(Body(b, arena, p)), b)
<1> DEFINE body == Body(b, arena, p)
           fs == b.facts
<1>1. body # <<>>
  BY BodyFits
<1>2. BodyMarks(body) = SaidIn(body[1]) /\ BodyMarks(body) \subseteq Shows(fs) \cup {"room", "short"}
  BY <1>1, BodyIsSaid, TextIsShown
<1>3. CASE arena = "linkedin"
  BY <1>3, CourtHears DEF ArenaRefuses
<1>4. CASE arena = "discord"
  <2>1. {"intent_split", "seed"} \subseteq Shows(fs)
    BY <1>4, GatesPassed DEF Scored, TavernReason
  <2>2. {"intent_split", "seed"} \subseteq Needed
    BY DEF Needed
  <2>3. {"intent_split", "seed"} \subseteq BodyMarks(body)
    BY <1>4, <2>1, <2>2, BodyHolds
  <2> HIDE DEF body
  <2>4. TavernReason(BodyMarks(body)) = "ok"
    BY <2>3 DEF TavernReason
  <2> QED
    BY <1>4, <2>4 DEF ArenaRefuses, body
<1>5. CASE arena = "newsletter"
  BY <1>5, LetterIsSigned DEF ArenaRefuses
<1>6. CASE arena = "hn"
  <2>1. "brand_voice" \notin Shows(fs)
    BY <1>6, GatesPassed DEF Scored, SeminarReason
  <2> HIDE DEF body
  <2>2. SeminarReason(BodyMarks(body)) = "ok"
    BY <1>2, <2>1 DEF SeminarReason
  <2> QED
    BY <1>6, <2>2 DEF ArenaRefuses, body
<1>7. CASE arena = "youtube"
  <2>1. "cinema_end" \notin Shows(fs)
    BY <1>7, GatesPassed DEF Scored, CinemaEndReason
  <2>2. "package" \in SaidIn(body[1])
    BY <1>7, YoutubeBody
  <2> HIDE DEF body
  <2>3. CinemaEndReason(BodyMarks(body)) = "ok"
    BY <1>2, <2>1, <2>2 DEF CinemaEndReason
  <2> QED
    BY <1>7, <2>3 DEF ArenaRefuses, body
<1>8. CASE arena \notin {"linkedin", "discord", "newsletter", "reddit", "hn", "youtube"}
  BY <1>8 DEF ArenaRefuses
<1> QED
  BY <1>3, <1>4, <1>5, <1>6, <1>7, <1>8

LEMMA BodyPasses ==
  ASSUME NEW b, NEW arena, NEW p, Scored(b, arena), ~KnownGap(b, arena, p)
  PROVE  ~BodyRefused(Body(b, arena, p), b, arena)
<1> DEFINE body == Body(b, arena, p)
           fs == b.facts
           marks == BodyMarks(body)
<1>1. body # <<>>
  BY BodyFits
<1>2. marks = SaidIn(body[1]) /\ marks \subseteq (TextShows(fs) \ {"mention"}) \cup {"room", "short"}
  BY <1>1, BodyIsSaid
<1>3. /\ Shows(fs) \cap NotDressed = {} /\ ~FakeOss(Shows(fs)) /\ ~CloneTalk(Shows(fs))
      /\ ~ApologyAlone(fs) /\ ~Unquotable(fs) /\ Shows(fs) \cap (NotOwnWords \ {"opinion", "mention"}) = {}
  <2>1. Shows(fs) \cap {"solicit", "chain_bait"} = {}
    BY NoGap
  <2> QED
    BY <2>1, ChainSilent DEF Scored
<1>4. arena \in SocialArenas => "issues_disabled" \notin Shows(fs)
  BY GatesPassed DEF Scored
<1> HIDE DEF marks
<1>5. ~UnquotableBody(marks, fs) /\ ~FakeOss(marks)
  BY <1>2, <1>3, SaidIsQuotable
<1>6. marks \cap NotInBody = {}
  <2>1. NotInBody \subseteq NotDressed \cup {"mention"} /\ {"room", "short", "mention"} \cap NotDressed = {}
    BY DEF NotInBody, NotDressed
  <2>2. TextShows(fs) \subseteq Shows(fs)
    BY TextIsShown
  <2> HIDE DEF body, fs
  <2> QED
    BY <1>2, <1>3, <2>1, <2>2
<1>7. ~CloneTalk(marks)
  <2> SUFFICES ASSUME "worse_clone" \in marks PROVE "better_idea" \in marks
    BY DEF CloneTalk
  <2>1. "worse_clone" \in Shows(fs)
    BY <1>2, TextIsShown
  <2>2. "better_idea" \in Shows(fs)
    BY <1>3, <2>1 DEF CloneTalk
  <2>3. arena \notin {"hn", "x", "youtube", "shorts", "bluesky", "mastodon"}
    BY <2>1, <2>2, NoGap DEF Uncut
  <2>4. arena \in {"github", "linkedin", "newsletter", "discord", "reddit"}
    BY <2>3 DEF Scored, Arenas
  <2>5. "better_idea" \in Needed
    BY DEF Needed
  <2> QED
    BY <2>2, <2>4, <2>5, BodyHolds DEF marks
<1>8. arena \in SocialArenas => "issues_disabled" \notin marks
  BY <1>2, <1>4, TextIsShown
<1>9. ~Overflows(arena, body[1][1])
  <2>1. arena = "hn" => body[1][1] \cap LongTitle = {}
    BY HnBody
  <2>2. arena = "x" => "long_post" \notin body[1][1]
    BY XBody
  <2>3. arena = "linkedin" => body[1][1] \cap LongFold = {}
    BY LinkedinBody
  <2> QED
    BY <2>1, <2>2, <2>3 DEF Overflows
<1>10. arena = "reddit" => RedditReason(marks, body[2] \in ShipUrls) = "ok"
  BY VillageKnows DEF marks
<1>11. arena # "reddit" => ~ArenaRefuses(arena, BodyLines(body), marks, b)
  BY ArenaAccepts DEF marks
<1>12. arena = "x" => NewThought(body[1][1], fs)
  BY XBody
<1> HIDE DEF body
<1> QED
  BY <1>3, <1>5, <1>6, <1>7, <1>8, <1>9, <1>10, <1>11, <1>12 DEF BodyRefused, marks, body

\* Dressing finds nothing wrong with what scoring spoke for, but for the gap.
LEMMA ScoredIsDressed ==
  ASSUME NEW b, NEW score0, NEW p, score0.verdict = "draft", Scored(b, score0.arena),
         ~KnownGap(b, score0.arena, p)
  PROVE  DressBrief(b, score0, p) # NoDraft
<1> DEFINE body == Body(b, score0.arena, p)
<1>1. /\ ~Undressable(b, score0.arena) /\ body # <<>> /\ ~BodyRefused(body, b, score0.arena)
  BY DressesWhatIsScored, BodyFits, BodyPasses
<1>2. DressBrief(b, score0, p) = Finished(body, b, score0.arena)
  BY <1>1 DEF DressBrief, Body
<1>3. Finished(body, b, score0.arena) = [arena |-> score0.arena, texts |-> LastStrip(body[1]), url |-> body[2]]
  BY <1>1 DEF Finished
<1>4. score0.arena # "none"
  BY DEF Scored, Arenas
<1> HIDE DEF body
<1> QED
  BY <1>2, <1>3, <1>4 DEF NoDraft

\* A brief that was scored as a draft is worn, unless it is one of the kinds on
\* which scoring and dressing part, for any brief, profile and living stack
\* (score_brief, dress_brief: the story would be told and never written).
THEOREM DraftsAreWorn == Spec => []DraftIsWorn
<1>1. AngleInv => DraftIsWorn
  <2> SUFFICES ASSUME AngleInv, phase = "applied", score.verdict = "draft", ~Spoken,
                      ~KnownGap(brief, score.arena, brand)
               PROVE  FALSE
    BY DEF DraftIsWorn
  <2>1. brief \in Briefs /\ score = ApplyBrief(brief, brand, stack).score
        /\ draft = ApplyBrief(brief, brand, stack).draft
    BY DEF AngleInv
  <2>2. score = ScoreBrief(brief, stack) /\ draft = DressBrief(brief, score, brand)
    BY <2>1 DEF ApplyBrief, Silence
  <2>3. Scored(brief, score.arena)
    <3>1. /\ score.arena = ChooseArena(brief, "none")
          /\ Links \cap (Shows(brief.facts) \cup Derived(brief)) = {}
          /\ \A i \in DOMAIN GateOrder : GateOrder[i] \notin GateSigns(brief, score.arena)
          /\ ~MondayWithoutHistory(brief, score.arena)
          /\ score.arena = "newsletter" => brief.claims /\ brief.tryable
      BY <2>2, ScoreSpeaks
    <3>2. score.arena \in Arenas
      BY <2>1, <3>1, ChosenArena, BriefAssumption
    <3>3. brief.facts \in Seq(FactsOf(brief.facts))
      BY <2>1, BriefAssumption
    <3> QED
      BY <3>1, <3>2, <3>3 DEF Scored
  <2>4. DressBrief(brief, score, brand) # NoDraft
    BY <2>3, ScoredIsDressed
  <2> QED
    BY <2>2, <2>4 DEF Spoken
<1> QED
  BY <1>1, AngleAlways, PTL

------------------------------------------------------------------------------
(* A demo that claims its ship and says nothing wrong *)

PlainTalk == {"issues_disabled", "readme_install", "better_idea", "life", "license_file", "superlative",
              "surname", "bare"}
PlainShip(b) ==
  /\ b.kind \in {"major", "hard_issue"} /\ Proven(b) /\ b.claims /\ b.preferred = "none"
  /\ b.facts \in Seq(FactsOf(b.facts)) /\ b.facts # <<>>
  /\ Urls(b.facts) \subseteq OurShip \cup {"readme", "comment"}
  /\ TextShows(b.facts) \subseteq PlainTalk
  /\ Worn(b.facts) # <<>> /\ ~ForeignWave(b.facts)

LEMMA PlainShows ==
  ASSUME NEW b, PlainShip(b)
  PROVE  /\ Shows(b.facts) \subseteq PlainTalk
         /\ \A f \in FactsOf(b.facts) : f.text \subseteq PlainTalk
         /\ FactsOf(b.facts) # {} /\ Urls(b.facts) # {}
<1> DEFINE fs == b.facts
<1>1. \A f \in FactsOf(fs) : f.text \subseteq PlainTalk
  BY DEF PlainShip, TextShows
<1>2. \A f \in FactsOf(fs) : UrlMarks(f.url) = {}
  <2>1. \A f \in FactsOf(fs) : f.url \in OurShip \cup {"readme", "comment", "none"}
    BY DEF PlainShip, Urls
  <2>2. \A u \in OurShip \cup {"readme", "comment", "none"} : UrlMarks(u) = {}
    BY DEF UrlMarks, OurShip
  <2> QED
    BY <2>1, <2>2
<1>3. Shows(fs) \subseteq PlainTalk
  BY <1>1, <1>2 DEF Shows
<1>4. FactsOf(fs) # {}
  <2>1. 1 \in DOMAIN fs
    <3> DEFINE F == FactsOf(fs)
    <3>1. fs \in Seq(F) /\ fs # <<>>
      BY DEF PlainShip
    <3> HIDE DEF F
    <3> QED
      BY <3>1
  <2> QED
    BY <2>1 DEF FactsOf
<1>5. Urls(fs) # {}
  BY DEF PlainShip, Proven, HasShip
<1> QED
  BY <1>1, <1>3, <1>4, <1>5

LEMMA PlainTexts ==
  ASSUME NEW texts, \A t \in texts : t \subseteq PlainTalk
  PROVE  ~BotBump(texts) /\ ~DeadStars(texts)
  BY DEF BotBump, DeadStars, PlainTalk

\* What stands in a selection of the facts is plain too.
LEMMA PlainWearable ==
  ASSUME NEW b, PlainShip(b)
  PROVE  /\ ~BotBumpWeek(Wearable(b.facts)) /\ ~DeadStarStory(Wearable(b.facts))
         /\ ~BotBumpWeek(b.facts) /\ ~DeadStarStory(b.facts)
         /\ \A i \in DOMAIN Wearable(b.facts) : Wearable(b.facts)[i].text \subseteq PlainTalk
         /\ Wearable(b.facts) \in Seq(FactsOf(b.facts))
<1> DEFINE fs == b.facts
           places == {i \in DOMAIN fs : ~IsArtifactStub(fs[i])}
           plain == Wearable(fs)
<1>1. plain = Picked(fs, places) /\ places \subseteq DOMAIN fs /\ fs \in Seq(FactsOf(fs))
  BY DEF Wearable, PlainShip
<1> HIDE DEF places, plain
<1>2. plain \in Seq(FactsOf(fs)) /\ \A k \in DOMAIN plain : \E i \in places : plain[k] = fs[i]
  BY <1>1, PickedIsList
<1>3. \A f \in FactsOf(plain) : f \in FactsOf(fs)
  BY <1>1, <1>2 DEF FactsOf
<1>4. \A f \in FactsOf(fs) \cup FactsOf(plain) : f.text \subseteq PlainTalk
  BY <1>3, PlainShows
<1>5. \A kinds : /\ \A t \in Structured(fs, kinds) : t \subseteq PlainTalk
                 /\ \A t \in Structured(plain, kinds) : t \subseteq PlainTalk
  BY <1>4 DEF Structured
<1>6. \A i \in DOMAIN plain : plain[i].text \subseteq PlainTalk
  BY <1>4 DEF FactsOf
<1> HIDE DEF fs
<1>7. ~BotBumpWeek(fs) /\ ~DeadStarStory(fs)
  BY <1>5, PlainTexts DEF BotBumpWeek, DeadStarStory
<1>8. ~BotBumpWeek(plain) /\ ~DeadStarStory(plain)
  BY <1>5, PlainTexts DEF BotBumpWeek, DeadStarStory
<1> QED
  BY <1>2, <1>6, <1>7, <1>8 DEF fs, plain

LEMMA PlainIsSound ==
  ASSUME NEW b, PlainShip(b)
  PROVE  SoundShip(b)
<1> DEFINE fs == b.facts
           worn == Wearable(fs)
<1>1. /\ b.kind \in {"major", "hard_issue"} /\ Proven(b) /\ b.claims /\ b.preferred = "none"
      /\ fs \in Seq(FactsOf(fs)) /\ fs # <<>> /\ ~ForeignWave(fs) /\ Worn(fs) # <<>>
      /\ TextShows(fs) \subseteq PlainTalk
  BY DEF PlainShip
<1>2. /\ Shows(fs) \subseteq PlainTalk /\ FactsOf(fs) # {} /\ \A f \in FactsOf(fs) : f.text \subseteq PlainTalk
  BY PlainShows
<1>3. /\ ~BotBumpWeek(fs) /\ ~DeadStarStory(fs) /\ ~BotBumpWeek(worn) /\ ~DeadStarStory(worn)
      /\ \A i \in DOMAIN worn : worn[i].text \subseteq PlainTalk
      /\ worn \in Seq(FactsOf(fs))
  BY PlainWearable
<1>4. PlainTalk \cap (Unsound \cup Titles \cup {"source_available", "apology", "version_diff", "commit_noise"}) = {}
  BY DEF PlainTalk, Unsound, Titles, LongTitle, Links, Chain, NotDressed, NeverQuoted, NotOwnWords
<1>5. Worn(fs) \in Seq(SUBSET TextShows(fs))
  BY <1>1, WornIsSaid
<1> HIDE DEF fs, worn
<1>6. \A i \in DOMAIN Worn(fs) : Worn(fs)[i] \subseteq PlainTalk
  BY <1>1, <1>5
<1>7. Worn(fs)[1] \cap Titles = {}
  <2>1. 1 \in DOMAIN Worn(fs)
    BY <1>1, <1>5
  <2> QED
    BY <1>4, <1>6, <2>1
<1>8. worn # <<>> => worn[1].text \cap Titles = {}
  <2>1. worn # <<>> => 1 \in DOMAIN worn
    BY <1>3
  <2> QED
    BY <1>3, <1>4, <2>1
<1>9. ~BotBump(ToldTexts(fs)) /\ ~DeadStars(ToldTexts(fs))
  <2>1. \A t \in ToldTexts(fs) : t \subseteq PlainTalk
    BY <1>6 DEF ToldTexts, FactsOf
  <2> QED
    BY <2>1, PlainTexts
<1>10. Shows(fs) \cap Unsound = {} /\ ~FakeOss(Shows(fs)) /\ ~ApologyAlone(fs)
  BY <1>2, <1>4 DEF FakeOss, ApologyAlone
<1>11. ~EmptyRelease(fs) /\ ~\A f \in FactsOf(fs) : "commit_noise" \in f.text
  BY <1>2, <1>4 DEF EmptyRelease
<1>12. \A story \in {fs, worn} : ~BotBumpWeek(story) /\ ~DeadStarStory(story)
  BY <1>3
<1> QED
  BY <1>1, <1>7, <1>8, <1>9, <1>10, <1>11, <1>12 DEF SoundShip, fs, worn

\* A demo that claims its ship and says nothing wrong is drafted on the free
\* stage, or at home when its issues are disabled, for any number of plain facts
\* in any order: none of the hundred rules of score_brief, dress_brief and the
\* two costumes is in its way.
THEOREM PlainShips == Spec => []PlainShipSpeaks
<1>1. AngleInv => PlainShipSpeaks
  <2> SUFFICES ASSUME AngleInv, phase = "applied", brand.voice = "own", brand.maintainer, stack = "none",
                      PlainShip(brief)
               PROVE  draft.arena = FreeStage(brief)
    <3>1. ASSUME AngleInv, phase = "applied", Len(brief.facts) >= 1
          PROVE  brief.facts \in Seq(FactsOf(brief.facts)) /\ brief.facts # <<>>
      BY <3>1, BriefAssumption DEF AngleInv
    <3> QED
      BY <3>1 DEF PlainShipSpeaks, PlainShip, PlainTalk, FreeStage
  <2>1. draft = ApplyBrief(brief, brand, "none").draft
    BY DEF AngleInv
  <2>2. SoundShip(brief)
    BY PlainIsSound
  <2> QED
    BY <2>1, <2>2, SoundSpeaks
<1> QED
  BY <1>1, AngleAlways, PTL

------------------------------------------------------------------------------
(* Evidence beside a story *)

\* A plain fact that links one of the hosts, and a brief's facts with one more.
Evident(e) ==
  e.kind = "signal" /\ e.text = {} /\ e.url \in (HostUrls \cup {"vanity"}) \ {"news"}
OneMore(fs, gs, e) ==
  /\ fs \in Seq(FactsOf(fs)) /\ gs \in Seq(FactsOf(fs)) /\ Len(fs) = Len(gs) + 1
  /\ Beside(fs, gs, e) /\ Behind(fs, gs, e) /\ Evident(e) /\ HasShip(gs)
  /\ UnprovenProof(fs) => UnprovenProof(gs)

LEMMA EvidentIs ==
  ASSUME NEW e, Evident(e)
  PROVE  /\ e.kind = "signal" /\ e.text = {} /\ UrlMarks(e.url) = {}
         /\ e.url \notin ShipUrls \cup OurShip \cup ParentUrls \cup PublicIssueUrls
         /\ ~IsArtifactStub(e) /\ ~IsReplyFact(e) /\ ~IsParentFact(e) /\ ~IsExcerpt(e)
         /\ Slugs(e) = {} /\ \A fs : WornText(e, fs) = {}
         /\ e.url # "release" /\ e.url # "foreign"
<1>1. HostUrls = {"video", "store", "blog", "launch", "ranking", "deck", "linktree", "cloud", "news"}
  BY DEF HostUrls, OnlyReason
<1>2. /\ e.kind = "signal" /\ e.text = {}
      /\ e.url \in {"video", "store", "blog", "launch", "ranking", "deck", "linktree", "cloud", "vanity"}
  BY <1>1 DEF Evident
<1>3. e.url \notin ShipUrls \cup OurShip \cup ParentUrls \cup PublicIssueUrls
  BY <1>2 DEF ShipUrls, OurShip, ParentUrls, PublicIssueUrls
<1>4. UrlMarks(e.url) = {}
  BY <1>2 DEF UrlMarks
<1>5. ~IsArtifactStub(e) /\ ~IsReplyFact(e) /\ ~IsParentFact(e) /\ ~IsExcerpt(e)
  BY <1>2, <1>3 DEF IsArtifactStub, IsReplyFact, IsParentFact, IsExcerpt
<1>6. Slugs(e) = {}
  BY <1>2, <1>3 DEF Slugs, ShipUrls
<1>7. \A fs : WornText(e, fs) = {}
  BY <1>2 DEF WornText, Strip
<1>8. e.url # "release" /\ e.url # "foreign"
  BY <1>2
<1> QED
  BY <1>2, <1>3, <1>4, <1>5, <1>6, <1>7, <1>8

LEMMA OneMoreShows ==
  ASSUME NEW fs, NEW gs, NEW e, OneMore(fs, gs, e)
  PROVE  /\ FactsOf(fs) = FactsOf(gs) \cup {e} /\ gs \in Seq(FactsOf(gs)) /\ fs # <<>>
         /\ TextShows(fs) = TextShows(gs) /\ Shows(fs) = Shows(gs)
         /\ Excerpts(fs) = Excerpts(gs) /\ UNION OperatorTexts(fs) = UNION OperatorTexts(gs)
         /\ HasShip(fs)
         /\ ForeignWave(fs) <=> ForeignWave(gs)
         /\ QuoteUnsourced(OperatorTexts(fs), fs) <=> QuoteUnsourced(OperatorTexts(gs), gs)
         /\ Parents(fs) = Parents(gs)
<1>1. FactsOf(fs) = FactsOf(gs) \cup {e}
  BY DEF OneMore, Beside
<1>2. gs \in Seq(FactsOf(gs)) /\ fs # <<>>
  <2> DEFINE F == FactsOf(fs)
  <2>1. gs \in Seq(F) /\ Len(fs) = Len(gs) + 1
    BY DEF OneMore
  <2>2. \A i \in DOMAIN gs : gs[i] \in FactsOf(gs)
    BY DEF FactsOf
  <2> HIDE DEF F
  <2>3. gs \in Seq(FactsOf(gs))
    BY <2>1, <2>2
  <2> QED
    BY <2>1, <2>3
<1>3. /\ e.kind = "signal" /\ e.text = {} /\ UrlMarks(e.url) = {} /\ e.url \notin ShipUrls \cup ParentUrls
      /\ ~IsReplyFact(e) /\ ~IsExcerpt(e) /\ Slugs(e) = {}
  BY EvidentIs DEF OneMore
<1>4. TextShows(fs) = TextShows(gs) /\ Shows(fs) = Shows(gs)
  BY <1>1, <1>3 DEF TextShows, Shows
<1>5. Excerpts(fs) = Excerpts(gs)
  BY <1>1, <1>3 DEF Excerpts
<1>6. OperatorTexts(fs) = OperatorTexts(gs) \cup {{}}
  BY <1>1, <1>3 DEF OperatorTexts
<1>7. UNION OperatorTexts(fs) = UNION OperatorTexts(gs)
  BY <1>6
<1>8. HasShip(fs)
  BY <1>1 DEF OneMore, HasShip, Urls
<1>9. OurSlugs(fs) = OurSlugs(gs)
  BY <1>1, <1>3 DEF OurSlugs
<1>10. ForeignWave(fs) <=> ForeignWave(gs)
  BY <1>1, <1>3, <1>9 DEF ForeignWave
<1>11. QuoteUnsourced(OperatorTexts(fs), fs) <=> QuoteUnsourced(OperatorTexts(gs), gs)
  BY <1>5, <1>6 DEF QuoteUnsourced
<1>12. Parents(fs) = Parents(gs)
  <2>1. {f \in FactsOf(fs) : IsReplyFact(f)} = {f \in FactsOf(gs) : IsReplyFact(f)}
    BY <1>1, <1>3
  <2>2. {f \in FactsOf(fs) : f.url \in ParentUrls} = {f \in FactsOf(gs) : f.url \in ParentUrls}
    BY <1>1, <1>3
  <2> QED
    BY <2>1, <2>2 DEF Parents
<1> QED
  BY <1>1, <1>2, <1>4, <1>5, <1>7, <1>8, <1>10, <1>11, <1>12

LEMMA OneMoreWorn ==
  ASSUME NEW fs, NEW gs, NEW e, OneMore(fs, gs, e)
  PROVE  /\ Beside(Worn(fs), Worn(gs), {})
         /\ Worn(fs) \in Seq(SUBSET TextShows(fs)) /\ Worn(gs) \in Seq(SUBSET TextShows(fs))
         /\ WornFacts(fs) \in Seq(FactsOf(fs)) /\ WornFacts(gs) \in Seq(FactsOf(fs))
         /\ Behind(WornFacts(fs), WornFacts(gs), e)
         /\ \A f : WornText(f, fs) = WornText(f, gs)
         /\ Worn(fs) # <<>> /\ FactsOf(Worn(fs)) = FactsOf(Worn(gs)) \cup {{}}
         /\ Beside(WornFacts(fs), WornFacts(gs), e)
<1> DEFINE Keep(f) == ~IsArtifactStub(f) /\ ~IsParentFact(f) /\ WornText(f, fs) # Gone
           K == {f \in FactsOf(fs) : Keep(f)}
           F == FactsOf(fs)
           h == [f \in F |-> WornText(f, fs)]
           I == {i \in DOMAIN fs : Keep(fs[i])}
           J == {i \in DOMAIN gs : ~IsArtifactStub(gs[i]) /\ ~IsParentFact(gs[i]) /\ WornText(gs[i], gs) # Gone}
           p == WornFacts(fs)
           q == WornFacts(gs)
<1>1. /\ fs \in Seq(F) /\ gs \in Seq(F) /\ Beside(fs, gs, e) /\ Behind(fs, gs, e)
      /\ F = FactsOf(gs) \cup {e} /\ TextShows(fs) = TextShows(gs)
  BY OneMoreShows DEF OneMore
<1>2. \A f : WornText(f, fs) = WornText(f, gs)
  BY <1>1 DEF WornText
<1>3. e \in K /\ h[e] = {}
  <2>1. WornText(e, fs) = {} /\ ~IsArtifactStub(e) /\ ~IsParentFact(e) /\ e \in F
    BY <1>1, EvidentIs DEF OneMore
  <2> QED
    BY <2>1 DEF Gone
<1>4. \A i \in DOMAIN gs : gs[i] \in F
  BY <1>1 DEF FactsOf
<1>5. p = Picked(fs, I) /\ q = Picked(gs, J)
  BY DEF WornFacts
<1>6. /\ \A i : i \in I <=> i \in DOMAIN fs /\ fs[i] \in K
      /\ \A i : i \in J <=> i \in DOMAIN gs /\ gs[i] \in K
  <2>1. \A i \in DOMAIN fs : fs[i] \in FactsOf(fs)
    BY DEF FactsOf
  <2> QED
    BY <1>2, <1>4, <2>1
<1> HIDE DEF K, F, I, J, p, q
<1>7. p \in Seq(F) /\ q \in Seq(F) /\ Beside(p, q, e) /\ Behind(p, q, e)
  BY <1>1, <1>3, <1>5, <1>6, BesidePicked
<1>8. Worn(fs) = [i \in DOMAIN p |-> h[p[i]]] /\ Worn(gs) = [i \in DOMAIN q |-> h[q[i]]]
  <2>1. (\A i \in DOMAIN p : p[i] \in F) /\ (\A i \in DOMAIN q : q[i] \in F)
    BY <1>7
  <2>2. (\A i \in DOMAIN p : WornText(p[i], fs) = h[p[i]]) /\ (\A i \in DOMAIN q : WornText(q[i], gs) = h[q[i]])
    BY <1>2, <2>1
  <2> QED
    BY <2>2 DEF Worn, p, q
<1> HIDE DEF h
<1>9. Beside([i \in DOMAIN p |-> h[p[i]]], [i \in DOMAIN q |-> h[q[i]]], h[e])
  BY <1>7, BesideMapped
<1>10. Beside(Worn(fs), Worn(gs), {})
  BY <1>3, <1>8, <1>9
<1>11. Worn(fs) \in Seq(SUBSET TextShows(fs)) /\ Worn(gs) \in Seq(SUBSET TextShows(fs))
  BY <1>1, WornIsSaid
<1>12. FactsOf(Worn(fs)) = FactsOf(Worn(gs)) \cup {{}}
  BY <1>10 DEF Beside
<1>13. Worn(fs) # <<>>
  <2>1. {} \in FactsOf(Worn(fs))
    BY <1>12
  <2>2. FactsOf(<<>>) = {}
    BY DEF FactsOf
  <2> QED
    BY <2>1, <2>2
<1> QED
  BY <1>2, <1>7, <1>10, <1>11, <1>12, <1>13 DEF p, q, F

LEMMA OneMoreUrls ==
  ASSUME NEW fs, NEW gs, NEW e, OneMore(fs, gs, e)
  PROVE  ProofUrl(fs) = ProofUrl(gs) /\ FirstShip(fs) = FirstShip(gs)
<1> DEFINE F == FactsOf(fs)
           G == {g \in FactsOf(fs) : g.url \in ShipUrls}
           H == {g \in FactsOf(gs) : g.url \in ShipUrls}
<1>1. fs \in Seq(F) /\ gs \in Seq(F) /\ HasShip(fs) /\ HasShip(gs) /\ Beside(fs, gs, e)
  <2>1. HasShip(fs)
    BY OneMoreShows
  <2> QED
    BY <2>1 DEF OneMore
<1>2. G = H /\ e \notin G
  BY OneMoreShows, EvidentIs DEF OneMore
<1>3. PICK f : FirstIn(fs, G, f) /\ ProofUrl(fs) = f.url /\ FirstShip(fs) = f.url
  BY <1>1, FirstShipIs
<1>4. PICK g : FirstIn(gs, H, g) /\ ProofUrl(gs) = g.url /\ FirstShip(gs) = g.url
  BY <1>1, FirstShipIs
<1> HIDE DEF F, G, H
<1>5. FirstIn(gs, G, f)
  BY <1>1, <1>2, <1>3, SameFirst
<1>6. f = g
  BY <1>1, <1>2, <1>4, <1>5, OneFirst
<1> QED
  BY <1>3, <1>4, <1>6

LEMMA OneMoreSlot ==
  ASSUME NEW fs, NEW gs, NEW e, OneMore(fs, gs, e), NEW kind, kind # "signal", NEW mark
  PROVE  Slot(fs, kind, mark) = Slot(gs, kind, mark)
<1> DEFINE F == FactsOf(fs)
           T == SUBSET TextShows(fs)
           L == {f \in F : f.kind = kind}
           M == {t \in T : mark \in t}
           p == WornFacts(fs)
           q == WornFacts(gs)
           w == Worn(fs)
           v == Worn(gs)
<1>1. fs \in Seq(F) /\ gs \in Seq(F)
  BY DEF OneMore
<1>2. /\ Beside(w, v, {}) /\ w \in Seq(T) /\ v \in Seq(T) /\ p \in Seq(F) /\ q \in Seq(F)
      /\ Behind(p, q, e) /\ \A f : WornText(f, fs) = WornText(f, gs)
  BY OneMoreWorn
<1>3. e \notin L /\ {} \notin M
  BY EvidentIs DEF OneMore
<1>4. /\ \A f : LastIn(p, L, f) => Slot(fs, kind, mark) = <<WornText(f, fs)>>
      /\ (~\E f : LastIn(p, L, f)) =>
           /\ \A t : FirstIn(w, M, t) => Slot(fs, kind, mark) = <<t>>
           /\ (~\E t : FirstIn(w, M, t)) => Slot(fs, kind, mark) = <<>>
  <2>1. /\ \A f \in F : f \in L <=> f.kind = kind
        /\ \A t \in T : t \in M <=> mark \in t
    OBVIOUS
  <2>2. fs \in Seq(F) /\ Worn(fs) \in Seq(T)
    BY <1>1, <1>2
  <2> HIDE DEF F, T, L, M, p, q, w, v
  <2>4. Fills(Slot(fs, kind, mark), fs, L, M)
    BY <2>1, <2>2, SlotIs
  <2> QED
    BY <2>4 DEF Fills, p, w
<1>5. /\ \A f : LastIn(q, L, f) => Slot(gs, kind, mark) = <<WornText(f, gs)>>
      /\ (~\E f : LastIn(q, L, f)) =>
           /\ \A t : FirstIn(v, M, t) => Slot(gs, kind, mark) = <<t>>
           /\ (~\E t : FirstIn(v, M, t)) => Slot(gs, kind, mark) = <<>>
  <2>1. /\ \A f \in F : f \in L <=> f.kind = kind
        /\ \A t \in T : t \in M <=> mark \in t
    OBVIOUS
  <2>3. gs \in Seq(F) /\ Worn(gs) \in Seq(T)
    BY <1>1, <1>2
  <2> HIDE DEF F, T, L, M, p, q, w, v
  <2>4. Fills(Slot(gs, kind, mark), gs, L, M)
    BY <2>1, <2>3, SlotIs
  <2> QED
    BY <2>4 DEF Fills, q, v
<1>6. FactsOf(q) \subseteq FactsOf(p)
  <2>1. Beside(p, q, e)
    BY OneMoreWorn
  <2> HIDE DEF p, q
  <2> QED
    BY <2>1 DEF Beside
<1> HIDE DEF F, T, L, M, p, q, w, v
<1>7. \A t : FirstIn(w, M, t) <=> FirstIn(v, M, t)
  BY <1>2, <1>3, SameFirst
<1>8. \A f : LastIn(p, L, f) => LastIn(q, L, f)
  BY <1>2, <1>3 DEF Behind, LastIn
<1>9. (\E f : LastIn(q, L, f)) => \E f : LastIn(p, L, f)
  <2> SUFFICES ASSUME NEW f, LastIn(q, L, f) PROVE \E g : LastIn(p, L, g)
    OBVIOUS
  <2>1. PICK k \in DOMAIN p : p[k] \in L
    BY <1>6 DEF LastIn, FactsOf
  <2> QED
    BY <1>2, <2>1, SomeLast
<1>10. CASE \E f : LastIn(p, L, f)
  BY <1>2, <1>4, <1>5, <1>8, <1>10
<1>11. CASE ~\E f : LastIn(p, L, f)
  BY <1>4, <1>5, <1>7, <1>9, <1>11
<1> QED
  BY <1>10, <1>11

LEMMA LackingIsOneMore ==
  ASSUME NEW fs, fs \in Seq(FactsOf(fs)), NEW i \in DOMAIN fs, Evident(fs[i]),
         NEW gs, gs \in Seq(FactsOf(fs)), Lacking(gs, fs, i), HasShip(gs)
  PROVE  OneMore(fs, gs, fs[i])
<1> DEFINE F == FactsOf(fs)
<1>1. fs \in Seq(F) /\ gs \in Seq(F)
  OBVIOUS
<1> HIDE DEF F
<1>2. Beside(fs, gs, fs[i]) /\ Behind(fs, gs, fs[i]) /\ Len(fs) = Len(gs) + 1 /\ HasOwnPlace(gs, fs, i)
  BY <1>1, TakenOut
<1>3. ASSUME UnprovenProof(fs) PROVE UnprovenProof(gs)
  <2>1. PICK k \in DOMAIN fs : /\ "used_by" \in fs[k].text
                               /\ ~\E j \in DOMAIN fs \ {k} : fs[j].text \cap {"customer_named", "used_by"} # {}
    BY <1>3 DEF UnprovenProof
  <2>2. k # i
    BY <2>1 DEF Evident
  <2>3. PICK n \in DOMAIN gs :
           /\ gs[n] = fs[k]
           /\ \A m \in DOMAIN gs : m # n => \E j \in DOMAIN fs \ {i, k} : fs[j] = gs[m]
    BY <1>2, <2>2 DEF HasOwnPlace
  <2>4. "used_by" \in gs[n].text
    BY <2>1, <2>3
  <2>5. ~\E m \in DOMAIN gs \ {n} : gs[m].text \cap {"customer_named", "used_by"} # {}
    BY <2>1, <2>3
  <2> QED
    BY <2>4, <2>5 DEF UnprovenProof
<1> QED
  BY <1>1, <1>2, <1>3 DEF OneMore, F

LEMMA WithoutIsOneMore ==
  ASSUME NEW b, b.facts \in Seq(FactsOf(b.facts)), NEW i \in DOMAIN b.facts, Evident(b.facts[i]),
         HasShip(Without(b, i).facts)
  PROVE  OneMore(b.facts, Without(b, i).facts, b.facts[i])
<1> DEFINE fs == b.facts
           gs == [k \in 1..(Len(fs) - 1) |-> IF k < i THEN fs[k] ELSE fs[k + 1]]
           F == FactsOf(fs)
<1>1. Without(b, i).facts = gs
  BY DEF Without
<1>2. gs \in Seq(F) /\ Lacking(gs, fs, i)
  <2> HIDE DEF fs
  <2>1. Len(fs) \in Nat /\ DOMAIN fs = 1..Len(fs) /\ i \in 1..Len(fs)
    BY DEF fs
  <2>2. \A k \in 1..(Len(fs) - 1) : gs[k] = IF k < i THEN fs[k] ELSE fs[k + 1]
    OBVIOUS
  <2>3. \A k \in 1..(Len(fs) - 1) : gs[k] \in F
    BY <2>1, <2>2 DEF FactsOf
  <2>4. Len(fs) - 1 \in Nat /\ DOMAIN gs = 1..(Len(fs) - 1)
    BY <2>1
  <2> HIDE DEF F
  <2>5. gs \in Seq(F) /\ Len(gs) = Len(fs) - 1
    BY <2>3, <2>4
  <2> QED
    BY <2>2, <2>4, <2>5 DEF Lacking
<1> HIDE DEF gs
<1> QED
  BY <1>1, <1>2, LackingIsOneMore

\* A plain text among those that a look is weighed by weighs it down to nothing.
LEMMA PlainWeighsDown ==
  ASSUME NEW s, NEW r, NEW e, FactsOf(s) = FactsOf(r) \cup {e}, e.kind = "signal", e.text = {}
  PROVE  /\ BotBumpWeek(s) => BotBumpWeek(r)
         /\ DeadStarStory(s) => DeadStarStory(r)
<1>1. ASSUME NEW kinds, "signal" \notin kinds
      PROVE  Structured(s, kinds) = Structured(r, kinds) \/ {} \in Structured(s, kinds)
  <2>1. {f \in FactsOf(s) : f.kind \in kinds} = {f \in FactsOf(r) : f.kind \in kinds}
    BY <1>1
  <2>2. CASE {f \in FactsOf(r) : f.kind \in kinds} # {}
    BY <2>1, <2>2 DEF Structured
  <2>3. CASE {f \in FactsOf(r) : f.kind \in kinds} = {}
    <3>1. Structured(s, kinds) = {f.text : f \in {g \in FactsOf(s) : "readme_install" \notin g.text}}
      BY <2>1, <2>3 DEF Structured
    <3>2. e \in {g \in FactsOf(s) : "readme_install" \notin g.text}
      OBVIOUS
    <3> QED
      BY <3>1, <3>2
  <2> QED
    BY <2>2, <2>3
<1>2. \A story : {} \in story => ~BotBump(story) /\ ~DeadStars(story)
  BY DEF BotBump, DeadStars
<1>3. BotBumpWeek(s) => BotBumpWeek(r)
  <2> DEFINE kinds == {"release", "tag", "pull"}
  <2>1. "signal" \notin kinds
    OBVIOUS
  <2> HIDE DEF kinds
  <2>2. BotBump(Structured(s, kinds)) => BotBump(Structured(r, kinds))
    BY <1>1, <1>2, <2>1
  <2> QED
    BY <2>2 DEF BotBumpWeek, kinds
<1>4. DeadStarStory(s) => DeadStarStory(r)
  <2> DEFINE kinds == {"release", "tag", "pull", "issue", "issue_comment"}
  <2>1. "signal" \notin kinds
    OBVIOUS
  <2> HIDE DEF kinds
  <2>2. DeadStars(Structured(s, kinds)) => DeadStars(Structured(r, kinds))
    BY <1>1, <1>2, <2>1
  <2> QED
    BY <2>2 DEF DeadStarStory, kinds
<1> QED
  BY <1>3, <1>4

LEMMA OneMoreWearable ==
  ASSUME NEW fs, NEW gs, NEW e, OneMore(fs, gs, e)
  PROVE  /\ BotBumpWeek(Wearable(fs)) => BotBumpWeek(Wearable(gs))
         /\ DeadStarStory(Wearable(fs)) => DeadStarStory(Wearable(gs))
         /\ BotBumpWeek(fs) => BotBumpWeek(gs)
         /\ DeadStarStory(fs) => DeadStarStory(gs)
         /\ Wearable(fs) # <<>> /\ 1 \in DOMAIN Wearable(fs)
         /\ \/ Wearable(fs)[1].text = {}
            \/ Wearable(gs) # <<>> /\ 1 \in DOMAIN Wearable(gs) /\ Wearable(fs)[1] = Wearable(gs)[1]
<1> DEFINE F == FactsOf(fs)
           K == {f \in F : ~IsArtifactStub(f)}
           I == {i \in DOMAIN fs : ~IsArtifactStub(fs[i])}
           J == {i \in DOMAIN gs : ~IsArtifactStub(gs[i])}
           p == Picked(fs, I)
           q == Picked(gs, J)
<1>1. fs \in Seq(F) /\ gs \in Seq(F) /\ Beside(fs, gs, e) /\ F = FactsOf(gs) \cup {e}
  <2>1. FactsOf(fs) = FactsOf(gs) \cup {e}
    BY OneMoreShows
  <2> QED
    BY <2>1 DEF OneMore
<1>2. e \in K /\ e.kind = "signal" /\ e.text = {}
  BY <1>1, EvidentIs DEF OneMore
<1>3. Wearable(fs) = p /\ Wearable(gs) = q
  BY DEF Wearable
<1>4. /\ \A i : i \in I <=> i \in DOMAIN fs /\ fs[i] \in K
      /\ \A i : i \in J <=> i \in DOMAIN gs /\ gs[i] \in K
  BY <1>1 DEF FactsOf
<1> HIDE DEF F, K, I, J
<1>5. p \in Seq(F) /\ q \in Seq(F) /\ Beside(p, q, e)
  BY <1>1, <1>2, <1>4, BesidePicked
<1> USE DEF F
<1> HIDE DEF p, q
<1>6. FactsOf(p) = FactsOf(q) \cup {e}
  BY <1>5 DEF Beside
<1>7. p # <<>> /\ 1 \in DOMAIN p
  <2>1. e \in FactsOf(p)
    BY <1>6
  <2>2. PICK k \in DOMAIN p : p[k] = e
    BY <2>1 DEF FactsOf
  <2> HIDE DEF F
  <2> QED
    BY <1>5, <2>2
<1>8. p[1] = e \/ (q # <<>> /\ p[1] = q[1])
  <2> HIDE DEF F
  <2> QED
    BY <1>5, <1>7, BesideHead
<1>9. q # <<>> => 1 \in DOMAIN q
  <2> HIDE DEF F
  <2> QED
    BY <1>5
<1>10. /\ BotBumpWeek(p) => BotBumpWeek(q)
       /\ DeadStarStory(p) => DeadStarStory(q)
  BY <1>2, <1>6, PlainWeighsDown
<1>11. /\ BotBumpWeek(fs) => BotBumpWeek(gs)
       /\ DeadStarStory(fs) => DeadStarStory(gs)
  BY <1>1, <1>2, PlainWeighsDown
<1> HIDE DEF F
<1> QED
  BY <1>2, <1>3, <1>7, <1>8, <1>9, <1>10, <1>11

LEMMA OneMoreLetter ==
  ASSUME NEW fs, NEW gs, NEW e, OneMore(fs, gs, e), LetterReason(Lines(gs)) = "ok"
  PROVE  LetterReason(Lines(fs)) = "ok"
<1> DEFINE F == FactsOf(fs)
           ls == Lines(fs)
           ms == Lines(gs)
<1>1. /\ fs \in Seq(F) /\ gs \in Seq(F) /\ Beside(fs, gs, e) /\ e \in F /\ F = FactsOf(gs) \cup {e}
      /\ TextShows(fs) = TextShows(gs) /\ e.text = {}
  <2>1. FactsOf(fs) = FactsOf(gs) \cup {e} /\ TextShows(fs) = TextShows(gs)
    BY OneMoreShows
  <2> QED
    BY <2>1, EvidentIs DEF OneMore
<1>2. ls \in Seq(FactsOf(ls)) /\ ms \in Seq(FactsOf(ms))
  <2> HIDE DEF F
  <2> QED
    BY <1>1, LinesAre
<1>3. \A mark \in {"crush", "team_voice", "surname"} :
        /\ mark \in SaidIn(ls) <=> mark \in TextShows(fs)
        /\ mark \in SaidIn(ms) <=> mark \in TextShows(fs)
  <2> HIDE DEF F, ls, ms
  <2>1. /\ TextShows(fs) \subseteq SaidIn(ls) /\ SaidIn(ls) \subseteq TextShows(fs) \cup {"short", "url"}
        /\ TextShows(gs) \subseteq SaidIn(ms) /\ SaidIn(ms) \subseteq TextShows(gs) \cup {"short", "url"}
    BY <1>1, TextIsLine DEF ls, ms
  <2> QED
    BY <1>1, <2>1
<1>4. /\ \A t \in FactsOf(ls) : t \in FullLines(fs) <=> "short" \notin t
      /\ \A t \in FactsOf(ms) : t \in FullLines(gs) <=> "short" \notin t
  BY DEF FullLines
<1> HIDE DEF ls, ms
<1>5. /\ {"crush", "team_voice"} \cap SaidIn(ms) = {} /\ "surname" \in SaidIn(ms)
      /\ \E t : FirstIn(ms, FullLines(gs), t) /\ "ask" \notin t
  <2>1. LetterReason(ms) = "ok"
    BY DEF ms
  <2> QED
    BY <1>2, <1>4, <2>1, LetterIs
<1>6. PICK t : FirstIn(ms, FullLines(gs), t) /\ "ask" \notin t
  BY <1>5
<1>7. \E u : FirstIn(ls, FullLines(fs), u) /\ "ask" \notin u
  <2> DEFINE B == Substantial(fs)
             C == Substantial(gs)
  <2>1. e \in B /\ C = B \cap FactsOf(gs)
    BY <1>1 DEF Substantial
  <2>2. \A i \in DOMAIN gs : gs[i] \in B <=> gs[i] \in C
    BY <2>1 DEF FactsOf
  <2> HIDE DEF B, C
  <2>3. PICK k \in DOMAIN fs : fs[k] \in B
    BY <1>1, <2>1 DEF FactsOf
  <2> HIDE DEF F
  <2>4. PICK f : FirstIn(fs, B, f)
    BY <1>1, <2>3, SomeFirst
  <2>5. FirstIn(ls, FullLines(fs), Opening(f))
    BY <1>1, <2>4, OpeningLine DEF B, ls
  <2>6. CASE f = e
    BY <1>1, <2>5, <2>6 DEF Opening
  <2>7. CASE f # e
    <3>1. FirstIn(gs, B, f)
      BY <1>1, <2>4, <2>7 DEF Beside
    <3>2. FirstIn(gs, C, f)
      BY <2>2, <3>1 DEF FirstIn
    <3>3. FirstIn(ms, FullLines(gs), Opening(f))
      BY <1>1, <3>2, OpeningLine DEF C, ms
    <3>4. t = Opening(f)
      BY <1>2, <1>6, <3>3, OneFirst
    <3> QED
      BY <1>6, <2>5, <3>4
  <2> QED
    BY <2>6, <2>7
<1>8. {"crush", "team_voice"} \cap SaidIn(ls) = {} /\ "surname" \in SaidIn(ls)
  BY <1>3, <1>5
<1>9. LetterReason(ls) = "ok"
  BY <1>2, <1>4, <1>7, <1>8, LetterIs
<1> QED
  BY <1>9 DEF ls

LEMMA OneMoreCourt ==
  ASSUME NEW fs, NEW gs, NEW e, OneMore(fs, gs, e), NEW claims, CourtReason(Lines(gs), claims) = "ok"
  PROVE  CourtReason(Lines(fs), claims) = "ok"
<1> DEFINE F == FactsOf(fs)
           ls == Lines(fs)
           ms == Lines(gs)
<1>1. /\ fs \in Seq(F) /\ gs \in Seq(F) /\ e \in F /\ TextShows(fs) = TextShows(gs) /\ e.text = {}
  <2>1. FactsOf(fs) = FactsOf(gs) \cup {e} /\ TextShows(fs) = TextShows(gs)
    BY OneMoreShows
  <2> QED
    BY <2>1, EvidentIs DEF OneMore
<1>2. PICK k \in DOMAIN fs : fs[k] = e
  BY <1>1 DEF FactsOf
<1> HIDE DEF F
<1>3. /\ TextShows(gs) \subseteq SaidIn(ms) /\ SaidIn(ls) \subseteq TextShows(fs) \cup {"short", "url"}
      /\ \E n \in DOMAIN ls : ls[n] = fs[k].text
  BY <1>1, TextIsLine
<1>4. ~claims /\ "launch_talk" \notin SaidIn(ms)
  <2>1. CourtReason(ms, claims) = "ok"
    OBVIOUS
  <2> HIDE DEF ms
  <2> QED
    BY <2>1 DEF CourtReason, SaidIn
<1> HIDE DEF ls, ms
<1>5. "launch_talk" \notin SaidIn(ls)
  BY <1>1, <1>3, <1>4
<1>6. \E n \in DOMAIN ls : Insight(ls[n])
  BY <1>1, <1>2, <1>3 DEF Insight
<1>7. CourtReason(ls, claims) = "ok"
  BY <1>4, <1>5, <1>6 DEF CourtReason, SaidIn
<1> QED
  BY <1>7 DEF ls

LEMMA OneMoreTold ==
  ASSUME NEW fs, NEW gs, NEW e, OneMore(fs, gs, e)
  PROVE  /\ HasParentPost(fs) <=> HasParentPost(gs)
         /\ AgoraReason(gs) = "ok" => AgoraReason(fs) = "ok"
         /\ ApologyAlone(fs) <=> ApologyAlone(gs)
         /\ EmptyRelease(fs) <=> EmptyRelease(gs)
         /\ Excerpts(fs) = Excerpts(gs)
         /\ Unquotable(fs) => Unquotable(gs)
         /\ \A t : NewThought(t, fs) <=> NewThought(t, gs)
<1>1. /\ FactsOf(fs) = FactsOf(gs) \cup {e} /\ Shows(fs) = Shows(gs) /\ Parents(fs) = Parents(gs)
      /\ Excerpts(fs) = Excerpts(gs) /\ UNION OperatorTexts(fs) = UNION OperatorTexts(gs)
      /\ ForeignWave(fs) <=> ForeignWave(gs)
      /\ QuoteUnsourced(OperatorTexts(fs), fs) <=> QuoteUnsourced(OperatorTexts(gs), gs)
  BY OneMoreShows
<1>2. e.kind = "signal" /\ e.text = {} /\ e.url # "release" /\ ~IsReplyFact(e) /\ ~IsArtifactStub(e)
  BY EvidentIs DEF OneMore
<1>3. \A t : NewThought(t, fs) <=> NewThought(t, gs)
  BY <1>1 DEF NewThought
<1>4. HasParentPost(fs) <=> HasParentPost(gs)
  BY <1>1 DEF HasParentPost
<1>5. AgoraReason(gs) = "ok" => AgoraReason(fs) = "ok"
  BY <1>1, <1>3, <1>4 DEF AgoraReason
<1>6. ApologyAlone(fs) <=> ApologyAlone(gs)
  BY <1>1, <1>2 DEF ApologyAlone
<1>7. EmptyRelease(fs) <=> EmptyRelease(gs)
  <2>1. {f \in FactsOf(fs) : f.kind = "release" \/ f.url = "release"}
          = {f \in FactsOf(gs) : f.kind = "release" \/ f.url = "release"}
    BY <1>1, <1>2
  <2>2. (\E f \in FactsOf(fs) : f.kind \in {"asset", "release_asset"})
        <=> (\E f \in FactsOf(gs) : f.kind \in {"asset", "release_asset"})
    BY <1>1, <1>2
  <2> QED
    BY <2>1, <2>2 DEF EmptyRelease
<1>8. Unquotable(fs) => Unquotable(gs)
  BY <1>1 DEF Unquotable
<1> QED
  BY <1>1, <1>3, <1>4, <1>5, <1>6, <1>7, <1>8

------------------------------------------------------------------------------
(* Evidence leaves the score as it was *)

\* Brief b is brief c with one plain fact more.
Evidenced(b, c, e) ==
  /\ OneMore(b.facts, c.facts, e)
  /\ b.kind = c.kind /\ b.claims = c.claims /\ b.tryable = c.tryable /\ b.preferred = c.preferred

LEMMA EvidencedTitle ==
  ASSUME NEW fs, NEW gs, NEW e, OneMore(fs, gs, e)
  PROVE  /\ Wearable(fs) # <<>> /\ 1 \in DOMAIN Wearable(fs)
         /\ \/ Wearable(fs)[1].text = {}
            \/ Wearable(gs) # <<>> /\ 1 \in DOMAIN Wearable(gs) /\ Wearable(fs)[1].text = Wearable(gs)[1].text
         /\ MergeLog([i \in DOMAIN Wearable(fs) |-> Wearable(fs)[i].text])
            => MergeLog([i \in DOMAIN Wearable(gs) |-> Wearable(gs)[i].text])
<1> DEFINE p == Wearable(fs)
           q == Wearable(gs)
<1>1. /\ p # <<>> /\ 1 \in DOMAIN p
      /\ \/ p[1].text = {}
         \/ q # <<>> /\ 1 \in DOMAIN q /\ p[1] = q[1]
  BY OneMoreWearable
<1> HIDE DEF p, q
<1>2. /\ [i \in DOMAIN p |-> p[i].text][1] = p[1].text
      /\ 1 \in DOMAIN q => [i \in DOMAIN q |-> q[i].text][1] = q[1].text
  BY <1>1
<1>3. 1 \in DOMAIN q => [i \in DOMAIN q |-> q[i].text] # <<>>
  <2>1. 1 \notin DOMAIN <<>>
    OBVIOUS
  <2>2. DOMAIN [i \in DOMAIN q |-> q[i].text] = DOMAIN q
    OBVIOUS
  <2> QED
    BY <2>1, <2>2
<1>4. MergeLog([i \in DOMAIN p |-> p[i].text]) => MergeLog([i \in DOMAIN q |-> q[i].text])
  BY <1>1, <1>2, <1>3 DEF MergeLog
<1> QED
  BY <1>1, <1>4 DEF p, q

LEMMA EvidencedSigns ==
  ASSUME NEW b, NEW c, NEW e, Evidenced(b, c, e)
  PROVE  Shows(b.facts) = Shows(c.facts) /\ Derived(b) \subseteq Derived(c)
<1> DEFINE fs == b.facts
           gs == c.facts
<1>1. OneMore(fs, gs, e) /\ b.kind = c.kind /\ b.claims = c.claims /\ b.tryable = c.tryable /\ b.preferred = c.preferred
  BY DEF Evidenced
<1>2. /\ Shows(fs) = Shows(gs) /\ fs # <<>> /\ HasShip(fs) /\ HasShip(gs) /\ FactsOf(fs) = FactsOf(gs) \cup {e}
      /\ ForeignWave(fs) <=> ForeignWave(gs)
      /\ UnprovenProof(fs) => UnprovenProof(gs)
  BY <1>1, OneMoreShows DEF OneMore
<1>3. e.text = {}
  BY <1>1, EvidentIs DEF OneMore
<1>4. /\ ApologyAlone(fs) <=> ApologyAlone(gs)
      /\ Unquotable(fs) => Unquotable(gs)
  BY <1>1, OneMoreTold
<1>5. /\ BotBumpWeek(Wearable(fs)) => BotBumpWeek(Wearable(gs))
      /\ DeadStarStory(Wearable(fs)) => DeadStarStory(Wearable(gs))
  BY <1>1, OneMoreWearable
<1>6. MergeLog([i \in DOMAIN Wearable(fs) |-> Wearable(fs)[i].text])
      => MergeLog([i \in DOMAIN Wearable(gs) |-> Wearable(gs)[i].text])
  BY <1>1, EvidencedTitle
<1>7. ~\A f \in FactsOf(fs) : "commit_noise" \in f.text
  BY <1>2, <1>3
<1>8. \A hosts : ~OnlyUrls(fs, hosts)
  BY <1>2 DEF HasShip, OnlyUrls
<1>9. (Social(b) <=> Social(c)) /\ (Proven(b) <=> Proven(c))
  BY <1>1, <1>2 DEF Social, Proven
<1> HIDE DEF fs, gs
<1>10. ASSUME NEW sign \in Derived(b) PROVE sign \in Derived(c)
  BY <1>1, <1>2, <1>4, <1>5, <1>6, <1>7, <1>8, <1>9, <1>10 DEF Derived, fs, gs
<1> QED
  BY <1>2, <1>10 DEF fs, gs

\* The gates, those that ask about the brief apart from those that ask about
\* its lines.
TitleOf(fs) == IF Wearable(fs) = <<>> THEN {"no_title"} ELSE Wearable(fs)[1].text
OneHost(fs) == \E h \in HostUrls : OnlyUrls(fs, IF h = "ranking" THEN RankingUrls ELSE {h})
GateOfBrief(b, arena, sign) ==
  \/ sign = "kind" /\ b.kind \notin Gate[arena].kinds
  \/ sign = "not_tryable" /\ arena \in RequireTryable /\ ~b.tryable
  \/ sign = "url_only" /\ OneHost(b.facts)
  \/ sign = "not_clickable" /\ arena \in {"hn"} /\ ProofUrl(b.facts) = "none"
  \/ sign = "no_artifact" /\ arena \in {"bluesky"} /\ ~HasShip(b.facts)
  \/ sign = "ship_claim" /\ arena \in ForbidShipClaim /\ b.claims
  \/ sign = "min_facts" /\ arena \in MinTwoFacts /\ Len(b.facts) < 2
GateOfMarks(fs, arena, sign, marks) ==
  \/ sign = "store_pitch" /\ arena \in {"hn"} /\ "store_pitch" \in TextShows(fs)
  \/ sign = "launch_pitch" /\ arena \in {"hn"} /\ "launch_pitch" \in TextShows(fs)
  \/ sign = "issues_disabled" /\ arena \in SocialArenas /\ "issues_disabled" \in marks
  \/ sign \in marks \cap (DeadForShow \ {"issues_disabled"})
  \/ sign = "tavern" /\ arena \in {"discord"} /\ TavernReason(marks) # "ok"
  \/ sign = "village" /\ arena \in {"reddit"} /\ RedditReason(marks, HasShip(fs)) # "ok"
  \/ sign = "seminar" /\ arena \in {"hn"} /\ SeminarReason(marks) # "ok"
  \/ sign = "cafe" /\ arena \in {"bluesky"} /\ CafeReason(marks) # "ok"
  \/ sign = "cinema_end" /\ arena \in {"youtube"} /\ CinemaEndReason(marks) # "ok"
  \/ sign = "no_hook" /\ arena \in {"shorts"} /\ FairHookReason(marks) # "ok"
GateOfKinds(arena, sign, marks, kinds) ==
  \/ sign = "no_package" /\ arena \in {"youtube"} /\ "package" \notin marks \cup kinds
  \/ sign = "loop" /\ arena \in {"shorts"} /\ FairLoopReason(marks, kinds) # "ok"
  \/ sign = "loop" /\ arena \in {"youtube"} /\ FairLoopReason(marks, kinds) = "fair_cta_with_loop"
GateOfTitle(arena, sign, title) ==
  \/ sign = "listicle" /\ arena \in {"hn"} /\ "listicle" \in title
  \/ sign = "shouty" /\ arena \in {"hn", "github"} /\ "shouty" \in title
  \/ sign = "emoji" /\ arena \in {"hn", "github"} /\ "emoji" \in title
  \/ sign = "overflow" /\ Overflows(arena, title)
GateOfLines(b, arena, sign) ==
  \/ sign = "no_thread" /\ arena \in {"x"} /\ ~HasParentPost(b.facts)
  \/ sign = "agora" /\ arena \in {"x"} /\ AgoraReason(b.facts) # "ok"
  \/ sign = "court" /\ arena \in {"linkedin"} /\ CourtReason(Lines(b.facts), b.claims) # "ok"
  \/ /\ sign = "letter" /\ arena \in {"newsletter"} /\ LetterReason(Lines(b.facts)) # "ok"
     /\ ~(LetterReason(Lines(b.facts)) = "letter_without_surname" /\ MondayWithoutHistory(b, arena))

LEMMA GateGiven ==
  ASSUME NEW b, NEW arena, NEW sign \in GateSigns(b, arena)
  PROVE  \/ GateOfBrief(b, arena, sign) \/ GateOfMarks(b.facts, arena, sign, Shows(b.facts))
         \/ GateOfKinds(arena, sign, Shows(b.facts), Kinds(b.facts))
         \/ GateOfTitle(arena, sign, TitleOf(b.facts)) \/ GateOfLines(b, arena, sign)
<1>1. sign = "url_only" => OneHost(b.facts) \/ GateOfMarks(b.facts, arena, sign, Shows(b.facts))
  <2>1. "url_only" \notin DeadForShow
    BY DEF DeadForShow
  <2> QED
    BY <2>1 DEF GateSigns, OneHost
<1>2. CASE sign = "url_only"
  BY <1>1, <1>2 DEF GateOfBrief
<1>3. CASE sign \in {"kind", "not_tryable", "not_clickable", "no_artifact", "ship_claim", "min_facts"}
  BY <1>3 DEF GateSigns, GateOfBrief, GateOfMarks
<1>4. CASE sign \in {"no_package", "loop"}
  BY <1>4 DEF GateSigns, GateOfKinds, GateOfMarks, Kinds
<1>5. CASE sign \in {"listicle", "shouty", "emoji", "overflow"}
  BY <1>5 DEF GateSigns, GateOfTitle, GateOfMarks, TitleOf
<1>6. CASE sign \in {"no_thread", "agora", "court", "letter"}
  BY <1>6 DEF GateSigns, GateOfLines, GateOfMarks
<1>7. CASE sign \notin {"url_only", "kind", "not_tryable", "not_clickable", "no_artifact", "ship_claim",
                       "min_facts", "no_package", "loop", "listicle", "shouty", "emoji", "overflow",
                       "no_thread", "agora", "court", "letter"}
  BY <1>7 DEF GateSigns, GateOfMarks
<1> QED
  BY <1>2, <1>3, <1>4, <1>5, <1>6, <1>7

LEMMA GateTaken ==
  ASSUME NEW b, NEW arena, NEW sign, ~OneHost(b.facts),
         \/ GateOfBrief(b, arena, sign) \/ GateOfMarks(b.facts, arena, sign, Shows(b.facts))
         \/ GateOfKinds(arena, sign, Shows(b.facts), Kinds(b.facts))
         \/ GateOfTitle(arena, sign, TitleOf(b.facts)) \/ GateOfLines(b, arena, sign)
  PROVE  sign \in GateSigns(b, arena)
<1> DEFINE fs == b.facts
<1>1. CASE GateOfBrief(b, arena, sign)
  BY <1>1 DEF GateSigns, GateOfBrief
<1>2. CASE GateOfMarks(fs, arena, sign, Shows(fs))
  BY <1>2 DEF GateSigns, GateOfMarks
<1>3. CASE GateOfKinds(arena, sign, Shows(fs), Kinds(fs))
  BY <1>3 DEF GateSigns, GateOfKinds, Kinds
<1>4. CASE GateOfTitle(arena, sign, TitleOf(fs))
  BY <1>4 DEF GateSigns, GateOfTitle, TitleOf
<1>5. CASE GateOfLines(b, arena, sign)
  BY <1>5 DEF GateSigns, GateOfLines
<1> QED
  BY <1>1, <1>2, <1>3, <1>4, <1>5

LEMMA EvidencedGates ==
  ASSUME NEW b, NEW c, NEW e, Evidenced(b, c, e), NEW arena
  PROVE  GateSigns(b, arena) \subseteq GateSigns(c, arena) /\ ~MondayWithoutHistory(b, arena)
<1> DEFINE fs == b.facts
           gs == c.facts
           marks == Shows(fs)
           title == Wearable(fs)[1].text
           other == IF Wearable(gs) = <<>> THEN {"no_title"} ELSE Wearable(gs)[1].text
<1>1. OneMore(fs, gs, e) /\ b.kind = c.kind /\ b.claims = c.claims /\ b.tryable = c.tryable /\ b.preferred = c.preferred
  BY DEF Evidenced
<1>2. /\ marks = Shows(gs) /\ TextShows(fs) = TextShows(gs) /\ HasShip(fs) /\ HasShip(gs)
      /\ FactsOf(fs) = FactsOf(gs) \cup {e} /\ Len(fs) = Len(gs) + 1 /\ Len(gs) \in Nat
  BY <1>1, OneMoreShows DEF OneMore
<1>3. e.kind = "signal"
  BY <1>1, EvidentIs DEF OneMore
<1>4. Wearable(fs) # <<>> /\ (title = {} \/ title = other)
  BY <1>1, EvidencedTitle
<1>5. ~MondayWithoutHistory(b, arena) /\ ~MondayWithoutHistory(c, arena)
  BY <1>2 DEF MondayWithoutHistory
<1>6. ~OneHost(fs)
  BY <1>2 DEF HasShip, OnlyUrls, OneHost
<1>7. /\ LetterReason(Lines(gs)) = "ok" => LetterReason(Lines(fs)) = "ok"
      /\ CourtReason(Lines(gs), b.claims) = "ok" => CourtReason(Lines(fs), b.claims) = "ok"
  BY <1>1, OneMoreLetter, OneMoreCourt
<1>8. /\ HasParentPost(fs) <=> HasParentPost(gs)
      /\ AgoraReason(gs) = "ok" => AgoraReason(fs) = "ok"
      /\ ProofUrl(fs) = ProofUrl(gs)
  BY <1>1, OneMoreTold, OneMoreUrls
<1>9. Kinds(fs) = Kinds(gs) \cup {"signal"}
  BY <1>2, <1>3 DEF Kinds
<1>10. ~OneHost(gs)
  BY <1>2 DEF HasShip, OnlyUrls, OneHost
<1> HIDE DEF fs, gs, marks
<1>11. Len(fs) < 2 => Len(gs) < 2
  BY <1>2
<1>12. ASSUME NEW sign \in GateSigns(b, arena) PROVE sign \in GateSigns(c, arena)
  <2>1. \/ GateOfBrief(b, arena, sign) \/ GateOfMarks(fs, arena, sign, marks)
        \/ GateOfKinds(arena, sign, marks, Kinds(fs))
        \/ GateOfTitle(arena, sign, TitleOf(fs)) \/ GateOfLines(b, arena, sign)
    BY GateGiven DEF fs, marks
  <2>2. GateOfBrief(b, arena, sign) => GateOfBrief(c, arena, sign)
    BY <1>1, <1>2, <1>6, <1>8, <1>11 DEF GateOfBrief, fs, gs
  <2>3. GateOfMarks(fs, arena, sign, marks) => GateOfMarks(gs, arena, sign, marks)
    BY <1>2 DEF GateOfMarks
  <2>4. GateOfKinds(arena, sign, marks, Kinds(fs)) => GateOfKinds(arena, sign, marks, Kinds(gs))
    BY <1>9 DEF GateOfKinds, FairLoopReason
  <2>5. GateOfTitle(arena, sign, TitleOf(fs)) => GateOfTitle(arena, sign, TitleOf(gs))
    BY <1>4 DEF GateOfTitle, TitleOf, Overflows, title, other
  <2>6. GateOfLines(b, arena, sign) => GateOfLines(c, arena, sign)
    BY <1>1, <1>5, <1>7, <1>8 DEF GateOfLines, fs, gs
  <2>7. marks = Shows(c.facts)
    BY <1>2 DEF gs
  <2> QED
    BY <1>10, <2>1, <2>2, <2>3, <2>4, <2>5, <2>6, <2>7, GateTaken DEF gs
<1> QED
  BY <1>5, <1>12

\* Evidence leaves the score as it was.
LEMMA EvidenceIsScored ==
  ASSUME NEW b, NEW c, NEW e, Evidenced(b, c, e), NEW stack0, ScoreBrief(c, stack0).verdict = "draft"
  PROVE  /\ ScoreBrief(b, stack0) = [verdict |-> "draft", reason |-> "one_angle", arena |-> ChooseArena(c, "none")]
         /\ ScoreBrief(c, stack0).arena = ChooseArena(c, "none")
<1> DEFINE arena == ChooseArena(c, "none")
           signs == Shows(b.facts) \cup Derived(b)
<1>1. /\ stack0 = "none" /\ ScoreBrief(c, stack0).arena = arena
      /\ Links \cap (Shows(c.facts) \cup Derived(c)) = {}
      /\ \A i \in DOMAIN GateOrder : GateOrder[i] \notin GateSigns(c, arena)
      /\ arena = "newsletter" => c.claims /\ c.tryable
  BY ScoreSpeaks
<1>2. /\ Shows(b.facts) = Shows(c.facts) /\ Derived(b) \subseteq Derived(c)
      /\ GateSigns(b, arena) \subseteq GateSigns(c, arena) /\ ~MondayWithoutHistory(b, arena)
  BY EvidencedSigns, EvidencedGates
<1>3. /\ OneMore(b.facts, c.facts, e) /\ b.kind = c.kind /\ b.claims = c.claims /\ b.tryable = c.tryable
      /\ b.preferred = c.preferred
  BY DEF Evidenced
<1>4. ChooseArena(b, "none") = arena
  <2>1. (HasParentPost(b.facts) <=> HasParentPost(c.facts)) /\ ProofUrl(b.facts) = ProofUrl(c.facts)
    BY <1>3, OneMoreTold, OneMoreUrls
  <2>2. Seated(b) <=> Seated(c)
    BY <1>3, <2>1 DEF Seated
  <2> QED
    BY <1>2, <1>3, <2>1, <2>2 DEF ChooseArena
<1>5. FirstSign(Chain, signs) = 0
  <2>1. \A i \in DOMAIN Chain : Chain[i] \notin signs
    BY <1>1, <1>2 DEF Links
  <2> HIDE DEF signs
  <2> QED
    BY <2>1, NoneGiven
<1> HIDE DEF arena
<1>6. FirstSign(GateOrder, GateSigns(b, arena)) = 0
  <2>1. \A i \in DOMAIN GateOrder : GateOrder[i] \notin GateSigns(b, arena)
    BY <1>1, <1>2
  <2> QED
    BY <2>1, NoneGiven
<1>7. HasShip(b.facts)
  BY <1>3, OneMoreShows
<1>8. ScoreInArena(b, arena) = [verdict |-> "draft", reason |-> "one_angle", arena |-> arena]
  BY <1>1, <1>2, <1>3, <1>6, <1>7 DEF ScoreInArena, EnoughSubstance
<1>9. ~HnCamp("none") /\ ~StackMismatch(b.preferred, "none")
  BY DEF HnCamp, StackMismatch
<1> HIDE DEF signs
<1>10. ScoreBrief(b, stack0) = ScoreInArena(b, arena)
  BY <1>1, <1>4, <1>5, <1>9 DEF ScoreBrief, signs
<1> QED
  BY <1>1, <1>8, <1>10 DEF arena

------------------------------------------------------------------------------
(* Evidence leaves the costume as it was *)

LEMMA EvidencedCopy ==
  ASSUME NEW fs, NEW gs, NEW e, OneMore(fs, gs, e), Worn(gs) # <<>>
  PROVE  LET copy == Copy(Worn(fs))
             other == Copy(Worn(gs))
             T == SUBSET TextShows(fs)
         IN  /\ copy \in Seq(T) /\ copy # <<>> /\ copy[1] = Worn(fs)[1]
             /\ other \in Seq(T) /\ other # <<>>
             /\ FactsOf(copy) = FactsOf(other) \cup {{}} /\ SaidIn(copy) = SaidIn(other)
             /\ copy[1] = {} \/ copy[1] = other[1]
             /\ Len(other) > 1 => Len(copy) > 1
<1> DEFINE T == SUBSET TextShows(fs)
           w == Worn(fs)
           v == Worn(gs)
           copy == Copy(w)
           other == Copy(v)
<1>1. /\ w \in Seq(T) /\ v \in Seq(T) /\ w # <<>> /\ v # <<>> /\ Beside(w, v, {})
      /\ FactsOf(w) = FactsOf(v) \cup {{}}
  BY OneMoreWorn
<1> HIDE DEF T, w, v
<1>2. /\ copy \in Seq(T) /\ copy # <<>> /\ copy[1] = w[1] /\ FactsOf(copy) = FactsOf(w)
      /\ other \in Seq(T) /\ other # <<>> /\ other[1] = v[1] /\ FactsOf(other) = FactsOf(v)
  BY <1>1, CopyIsList, CopySays
<1>3. w[1] = {} \/ w[1] = v[1]
  BY <1>1, BesideHead
<1>4. \A s : SaidIn(s) = UNION FactsOf(s)
  BY DEF SaidIn, FactsOf
<1>5. SaidIn(copy) = SaidIn(other)
  BY <1>1, <1>2, <1>4
<1>6. ASSUME Len(other) > 1 PROVE Len(copy) > 1
  <2>1. /\ other[2] \in FactsOf(v) /\ v[1] \in FactsOf(v) /\ other[2] # v[1]
    BY <1>1, <1>6, CopyTellsTwo
  <2>2. other[2] \in FactsOf(copy) /\ v[1] \in FactsOf(copy)
    BY <1>1, <1>2, <2>1
  <2> HIDE DEF copy, other
  <2>3. PICK k \in DOMAIN copy, n \in DOMAIN copy : copy[k] # copy[n]
    BY <2>1, <2>2 DEF FactsOf
  <2>4. k \in 1..Len(copy) /\ n \in 1..Len(copy) /\ k # n /\ Len(copy) \in Nat
    BY <1>2, <2>3
  <2> QED
    BY <2>4
<1> QED
  BY <1>1, <1>2, <1>3, <1>5, <1>6 DEF T, w, v

\* Dressing finds nothing wrong with a brief that has a plain line more.
LEMMA EvidencedDressable ==
  ASSUME NEW b, NEW c, NEW e, NEW arena, Evidenced(b, c, e), Scored(b, arena), ~Undressable(c, arena)
  PROVE  ~Undressable(b, arena)
<1> DEFINE fs == b.facts
           gs == c.facts
           marks == Shows(fs)
           copy == Copy(Worn(fs))
           bits == {t \in {copy[i] : i \in DOMAIN copy} : "readme_install" \notin t}
<1>1. OneMore(fs, gs, e)
  BY DEF Evidenced
<1>2. /\ marks = Shows(gs) /\ marks \cap NotDressed = {} /\ Worn(gs) # <<>> /\ Worn(fs) # <<>>
      /\ ~EmptyRelease(fs) /\ ~BotBumpWeek(fs) /\ ~DeadStarStory(fs)
  <2>1. marks = Shows(gs) /\ Worn(fs) # <<>>
    BY <1>1, OneMoreShows, OneMoreWorn
  <2>2. /\ Shows(gs) \cap NotDressed = {} /\ Worn(gs) # <<>>
        /\ ~EmptyRelease(gs) /\ ~BotBumpWeek(gs) /\ ~DeadStarStory(gs)
    BY DEF Undressable
  <2>3. EmptyRelease(fs) <=> EmptyRelease(gs)
    BY <1>1, OneMoreTold
  <2>4. (BotBumpWeek(fs) => BotBumpWeek(gs)) /\ (DeadStarStory(fs) => DeadStarStory(gs))
    BY <1>1, OneMoreWearable
  <2> QED
    BY <2>1, <2>2, <2>3, <2>4
<1>3. /\ ~FakeOss(marks) /\ ~CloneTalk(marks) /\ ~ApologyAlone(fs)
      /\ ("superlative" \in marks => Proven(b)) /\ ~ForeignWave(fs) /\ ~Unquotable(fs)
  BY ChainSilent DEF Scored
<1>4. {} \in bits
  <2>1. FactsOf(copy) = FactsOf(Copy(Worn(gs))) \cup {{}}
    BY <1>1, <1>2, EvidencedCopy
  <2> HIDE DEF copy
  <2> QED
    BY <2>1 DEF FactsOf
<1> HIDE DEF bits
<1>5. ~BotBump(bits) /\ ~DeadStars(bits)
  BY <1>4 DEF BotBump, DeadStars
<1>6. /\ arena \in SocialArenas => "issues_disabled" \notin marks
      /\ arena = "x" => HasParentPost(fs) /\ AgoraReason(fs) = "ok"
      /\ arena = "bluesky" => HasShip(fs) /\ CafeReason(marks) = "ok"
  BY GatesPassed DEF Scored
<1>7. ~ArenaRefuses(arena, Lines(fs), marks, b)
  <2>1. /\ arena = "hn" => SeminarReason(marks) = "ok"
        /\ arena = "linkedin" => CourtReason(Lines(fs), b.claims) = "ok"
        /\ arena = "discord" => TavernReason(marks) = "ok"
        /\ arena = "newsletter" => LetterReason(Lines(fs)) = "ok"
        /\ arena = "reddit" => RedditReason(marks, HasShip(fs)) = "ok"
        /\ arena = "youtube" => CinemaEndReason(marks) = "ok"
    BY GatesPassed DEF Scored
  <2> QED
    BY <2>1 DEF ArenaRefuses
<1>8. ~MondayWithoutHistory(b, arena) /\ (arena = "newsletter" => b.claims /\ b.tryable)
  BY DEF Scored
<1> QED
  BY <1>2, <1>3, <1>5, <1>6, <1>7, <1>8 DEF Undressable, bits

\* Brief c is worn in the arena, and brief b is the same with evidence beside it.
Heard(b, c, e, arena, p) ==
  /\ Evidenced(b, c, e) /\ Scored(b, arena) /\ ~Undressable(c, arena)
  /\ {"worse_clone", "clip"} \cap Shows(c.facts) = {} /\ ~Mislabelled(c.facts, "package", "package")
  /\ Body(c, arena, p) # <<>> /\ ~BodyRefused(Body(c, arena, p), c, arena)

LEMMA HeardCopy ==
  ASSUME NEW b, NEW c, NEW e, NEW arena, NEW p, Heard(b, c, e, arena, p)
  PROVE  LET copy == Copy(Worn(b.facts))
             other == Copy(Worn(c.facts))
             T == SUBSET TextShows(b.facts)
         IN  /\ copy \in Seq(T) /\ copy # <<>> /\ copy[1] = Worn(b.facts)[1] /\ Worn(b.facts) # <<>>
             /\ other \in Seq(T) /\ other # <<>>
             /\ FactsOf(copy) = FactsOf(other) \cup {{}} /\ SaidIn(copy) = SaidIn(other)
             /\ copy[1] = {} \/ copy[1] = other[1]
             /\ Len(other) > 1 => Len(copy) > 1
             /\ ProofUrl(b.facts) = ProofUrl(c.facts) /\ Shows(b.facts) = Shows(c.facts)
             /\ OneMore(b.facts, c.facts, e) /\ b.claims = c.claims
<1>1. OneMore(b.facts, c.facts, e) /\ b.claims = c.claims /\ ~Undressable(c, arena)
  BY DEF Heard, Evidenced
<1>2. Worn(c.facts) # <<>>
  BY <1>1 DEF Undressable
<1>3. Worn(b.facts) # <<>> /\ ProofUrl(b.facts) = ProofUrl(c.facts) /\ Shows(b.facts) = Shows(c.facts)
  BY <1>1, OneMoreWorn, OneMoreUrls, OneMoreShows
<1> QED
  BY <1>1, <1>2, <1>3, EvidencedCopy

LEMMA GithubHears ==
  ASSUME NEW b, NEW c, NEW e, NEW p, Heard(b, c, e, "github", p)
  PROVE  Body(b, "github", p) = <<Copy(Worn(b.facts)), ProofUrl(b.facts)>>
<1> DEFINE copy == Copy(Worn(b.facts))
           other == Copy(Worn(c.facts))
<1>1. copy[1] = {} \/ copy[1] = other[1]
  BY HeardCopy
<1> HIDE DEF copy, other
<1>2. DressGithub(other, ProofUrl(c.facts), c.facts) # <<>>
  BY DEF Heard, Body, Costume, other
<1>3. copy[1] \cap {"shouty", "emoji"} = {}
  BY <1>1, <1>2 DEF DressGithub
<1>4. DressGithub(copy, ProofUrl(b.facts), b.facts) = <<copy, ProofUrl(b.facts)>>
  BY <1>3 DEF DressGithub, Dressed
<1> QED
  BY <1>4 DEF Body, Costume, copy

LEMMA HnHears ==
  ASSUME NEW b, NEW c, NEW e, NEW p, Heard(b, c, e, "hn", p)
  PROVE  Body(b, "hn", p) # <<>> /\ Body(b, "hn", p)[1][1] \cap LongTitle = {}
<1> DEFINE fs == b.facts
           copy == Copy(Worn(fs))
           other == Copy(Worn(c.facts))
           url == ProofUrl(fs)
           T == SUBSET TextShows(fs)
<1>1. /\ copy \in Seq(T) /\ copy # <<>> /\ other \in Seq(T) /\ other # <<>>
      /\ FactsOf(copy) = FactsOf(other) \cup {{}} /\ SaidIn(copy) = SaidIn(other)
      /\ copy[1] = {} \/ copy[1] = other[1]
      /\ Len(other) > 1 => Len(copy) > 1
      /\ url = ProofUrl(c.facts)
  BY HeardCopy
<1>2. Body(b, "hn", p) = DressHn(copy, url, fs, p) /\ DressHn(other, ProofUrl(c.facts), c.facts, p) # <<>>
  BY DEF Heard, Body, Costume
<1> HIDE DEF copy, other, url, T
<1>3. /\ ~MergeLog(other) /\ other[1] \cap ({"listicle", "shouty", "emoji"} \cup LongTitle) = {}
      /\ url \in TryableUrls \ NotProof /\ SaidIn(other) \cap {"store_pitch", "launch_pitch"} = {}
      /\ ~(Len(other) <= 1 /\ ~p.maintainer)
  <2>1. /\ ~MergeLog(other) /\ other[1] \cap ({"listicle", "shouty", "emoji"} \cup LongTitle) = {}
        /\ url \in TryableUrls \ NotProof
        /\ (UNION {other[i] : i \in DOMAIN other}) \cap {"store_pitch", "launch_pitch"} = {}
    BY <1>1, <1>2 DEF DressHn
  <2>2. (IF Len(other) > 1 THEN <<other[2]>> ELSE IF p.maintainer THEN <<{}>> ELSE <<>>) # <<>>
    BY <1>2 DEF DressHn
  <2>3. ~(Len(other) <= 1 /\ ~p.maintainer)
    <3>1. Len(other) \in Nat
      BY <1>1
    <3>2. ~(Len(other) <= 1) <=> Len(other) > 1
      BY <3>1
    <3> QED
      BY <2>2, <3>2
  <2> QED
    BY <2>1, <2>3 DEF SaidIn
<1>4. copy[1] \cap ({"listicle", "shouty", "emoji", "merged_pr"} \cup LongTitle) = {}
  BY <1>1, <1>3 DEF MergeLog
<1>5. ~(Len(copy) = 1 /\ ~p.maintainer)
  <2>1. Len(copy) \in Nat /\ Len(other) \in Nat
    BY <1>1
  <2>2. \A n \in Nat : (~(n <= 1) => n > 1) /\ (n > 1 => n # 1)
    OBVIOUS
  <2> QED
    BY <1>1, <1>3, <2>1, <2>2
<1>6. ~BotBump({t \in FactsOf(copy) : "readme_install" \notin t})
  <2>1. {} \in {t \in FactsOf(copy) : "readme_install" \notin t}
    BY <1>1
  <2> QED
    BY <2>1 DEF BotBump
<1>7. SaidIn(copy) \cap {"store_pitch", "launch_pitch"} = {}
  BY <1>1, <1>3
<1>8. DressHn(copy, url, fs, p) # <<>>
  BY <1>1, <1>3, <1>4, <1>5, <1>6, <1>7, HnFits
<1>9. DressHn(copy, url, fs, p)[1][1] = copy[1]
  <2>1. {} \in T
    BY DEF T
  <2> QED
    BY <1>1, <1>8, <2>1, HnWears
<1> QED
  BY <1>2, <1>4, <1>8, <1>9

LEMMA XHears ==
  ASSUME NEW b, NEW c, NEW e, NEW p, Heard(b, c, e, "x", p)
  PROVE  /\ Body(b, "x", p) # <<>> /\ "long_post" \notin Body(b, "x", p)[1][1]
         /\ NewThought(Body(b, "x", p)[1][1], b.facts)
<1> DEFINE copy == Copy(Worn(b.facts))
           other == Copy(Worn(c.facts))
<1>1. (copy[1] = {} \/ copy[1] = other[1]) /\ OneMore(b.facts, c.facts, e)
  BY HeardCopy
<1> HIDE DEF copy, other
<1>2. DressX(other, ProofUrl(c.facts)) = Body(c, "x", p) /\ Body(c, "x", p) # <<>>
      /\ ~BodyRefused(Body(c, "x", p), c, "x")
  BY DEF Heard, Body, Costume, other
<1>3. "long_post" \notin other[1] /\ Body(c, "x", p) = <<<<other[1]>>, ProofUrl(c.facts)>>
  BY <1>2 DEF DressX, Dressed
<1>4. NewThought(other[1], c.facts)
  BY <1>2, <1>3 DEF BodyRefused
<1>5. NewThought(copy[1], b.facts)
  <2>1. \A t : NewThought(t, b.facts) <=> NewThought(t, c.facts)
    BY <1>1, OneMoreTold
  <2>2. NewThought({}, b.facts)
    BY DEF NewThought
  <2> QED
    BY <1>1, <1>4, <2>1, <2>2
<1>6. "long_post" \notin copy[1]
  BY <1>1, <1>3
<1>7. Body(b, "x", p) = <<<<copy[1]>>, ProofUrl(b.facts)>>
  BY <1>6 DEF Body, Costume, DressX, Dressed, copy
<1> QED
  BY <1>5, <1>6, <1>7

LEMMA YoutubeHears ==
  ASSUME NEW b, NEW c, NEW e, NEW p, Heard(b, c, e, "youtube", p)
  PROVE  LET body == Body(b, "youtube", p) IN body # <<>> /\ "package" \in SaidIn(body[1])
<1> DEFINE fs == b.facts
           copy == Copy(Worn(fs))
           url == ProofUrl(fs)
           slot == Slot(fs, "package", "package")
           body == DressYoutube(copy, url, fs)
           T == SUBSET TextShows(fs)
<1>1. copy \in Seq(T) /\ Shows(fs) = Shows(c.facts) /\ OneMore(fs, c.facts, e)
  BY HeardCopy
<1>2. DressYoutube(Copy(Worn(c.facts)), ProofUrl(c.facts), c.facts) # <<>>
  BY DEF Heard, Body, Costume
<1>3. /\ Slot(c.facts, "package", "package") # <<>>
      /\ FairLoopReason(Shows(c.facts), {}) # "fair_cta_with_loop"
  BY <1>2 DEF DressYoutube
<1>4. slot = Slot(c.facts, "package", "package")
  BY <1>1, OneMoreSlot
<1>5. "package" \in slot[1]
  BY <1>3, <1>4 DEF Heard, Mislabelled
<1>6. slot \in Seq(T)
  <2>1. Worn(fs) \in Seq(T) /\ fs \in Seq(FactsOf(fs))
    BY <1>1, OneMoreWorn DEF OneMore
  <2> HIDE DEF T, fs
  <2> QED
    BY <2>1, SlotIsWorn
<1>7. Body(b, "youtube", p) = body
  BY DEF Body, Costume
<1> HIDE DEF copy, url, fs, T, body
<1>8. body # <<>> /\ 1 \in DOMAIN body[1] /\ body[1][1] = slot[1]
  BY <1>1, <1>3, <1>4, <1>6, YoutubeFits DEF body
<1> QED
  BY <1>5, <1>7, <1>8 DEF SaidIn

LEMMA ShortsHears ==
  ASSUME NEW b, NEW c, NEW e, NEW p, Heard(b, c, e, "shorts", p)
  PROVE  Body(b, "shorts", p) # <<>>
<1> DEFINE fs == b.facts
           copy == Copy(Worn(fs))
           T == SUBSET TextShows(fs)
<1>1. copy \in Seq(T) /\ Shows(fs) = Shows(c.facts) /\ OneMore(fs, c.facts, e)
  BY HeardCopy
<1>2. DressShorts(Copy(Worn(c.facts)), c.facts) # <<>>
  BY DEF Heard, Body, Costume
<1>3. /\ FairHookReason(Shows(fs)) = "ok" /\ FairLoopReason(Shows(fs), {}) = "ok"
      /\ Slot(c.facts, "none", "hook") # <<>>
  BY <1>1, <1>2 DEF DressShorts
<1>4. Slot(fs, "none", "hook") # <<>>
  BY <1>1, <1>3, OneMoreSlot
<1>5. \A kind, mark : Slot(fs, kind, mark) \in Seq(T)
  <2>1. Worn(fs) \in Seq(T) /\ fs \in Seq(FactsOf(fs))
    BY <1>1, OneMoreWorn DEF OneMore
  <2> HIDE DEF T, fs
  <2> QED
    BY <2>1, SlotIsWorn
<1>6. \A t \in T : "cta" \notin t
  BY <1>3 DEF FairLoopReason, Shows, TextShows
<1>7. Body(b, "shorts", p) = DressShorts(copy, fs)
  BY DEF Body, Costume
<1> HIDE DEF copy, fs, T
<1>8. DressShorts(copy, fs) # <<>>
  BY <1>1, <1>3, <1>4, <1>5, <1>6, ShortsFits
<1> QED
  BY <1>7, <1>8

LEMMA LinkedinHears ==
  ASSUME NEW b, NEW c, NEW e, NEW p, Heard(b, c, e, "linkedin", p)
  PROVE  LET body == Body(b, "linkedin", p)
         IN  /\ body # <<>> /\ body[1][1] \cap LongFold = {}
             /\ \E i \in DOMAIN body[1] : Insight(body[1][i])
<1> DEFINE fs == b.facts
           copy == Copy(Worn(fs))
           other == Copy(Worn(c.facts))
           url == ProofUrl(fs)
           T == SUBSET TextShows(fs)
           body == DressLinkedin(copy, url, p)
<1>1. copy \in Seq(T) /\ FactsOf(copy) = FactsOf(other) \cup {{}}
  BY HeardCopy
<1>2. DressLinkedin(other, ProofUrl(c.facts), p) # <<>> /\ Body(b, "linkedin", p) = body
  BY DEF Heard, Body, Costume
<1> HIDE DEF copy, other, url, T, body
<1>3. PICK n \in DOMAIN other : other[n] \cap ({"pitch", "url"} \cup LongFold) = {}
                                /\ (p.pillars => "pillar" \in other[n])
  BY <1>2, FoldFound
<1>4. PICK k \in DOMAIN copy : copy[k] = other[n]
  BY <1>1 DEF FactsOf
<1>5. body # <<>>
  BY <1>1, <1>3, <1>4, FoldFits DEF body
<1>6. /\ body[1][1] \cap LongFold = {}
      /\ \A i \in DOMAIN copy : \E m \in DOMAIN body[1] : body[1][m] = copy[i]
  BY <1>1, <1>5, LinkedinWears DEF body
<1>7. PICK i \in DOMAIN copy : copy[i] = {}
  BY <1>1 DEF FactsOf
<1>8. \E m \in DOMAIN body[1] : Insight(body[1][m])
  BY <1>6, <1>7 DEF Insight
<1> QED
  BY <1>2, <1>5, <1>6, <1>8

LEMMA MastodonHears ==
  ASSUME NEW b, NEW c, NEW e, NEW p, Heard(b, c, e, "mastodon", p)
  PROVE  Body(b, "mastodon", p) # <<>>
<1> DEFINE copy == Copy(Worn(b.facts))
           other == Copy(Worn(c.facts))
           T == SUBSET TextShows(b.facts)
           talk == {i \in 2..Len(copy) : "clip" \notin copy[i]}
<1>1. /\ copy \in Seq(T) /\ other \in Seq(T) /\ (Len(other) > 1 => Len(copy) > 1)
      /\ Shows(b.facts) = Shows(c.facts)
  BY HeardCopy
<1>2. DressMastodon(other) # <<>> /\ Body(b, "mastodon", p) = DressMastodon(copy)
      /\ "clip" \notin Shows(c.facts)
  BY DEF Heard, Body, Costume
<1>3. "clip" \notin TextShows(b.facts)
  BY <1>1, <1>2, TextIsShown
<1> HIDE DEF copy, other
<1>4. Len(other) > 1
  <2> DEFINE own == {i \in 2..Len(other) : "clip" \notin other[i]}
  <2>1. Picked(other, own) # <<>>
    BY <1>2 DEF DressMastodon
  <2>2. own \subseteq DOMAIN other
    BY <1>1
  <2> HIDE DEF own, T
  <2>5. PICK i \in own : TRUE
    BY <1>1, <2>1, <2>2, SomePicked
  <2>6. Len(other) \in Nat
    BY <1>1
  <2> QED
    BY <2>5, <2>6 DEF own
<1>5. 2 \in talk
  <2>1. Len(copy) \in Nat /\ Len(copy) > 1
    BY <1>1, <1>4
  <2>2. 2 \in 2..Len(copy) /\ 2 \in DOMAIN copy
    BY <1>1, <2>1
  <2>3. copy[2] \in T
    BY <1>1, <2>2
  <2> QED
    BY <1>3, <2>2, <2>3
<1>6. talk \subseteq DOMAIN copy
  BY <1>1
<1>7. DressMastodon(copy) = IF Picked(copy, talk) = <<>> THEN <<>> ELSE <<Picked(copy, talk), "none">>
  BY DEF DressMastodon, Dressed
<1> HIDE DEF talk, T
<1>8. Picked(copy, talk) # <<>>
  BY <1>1, <1>5, <1>6, SomePicked
<1> QED
  BY <1>2, <1>7, <1>8

LEMMA RedditHears ==
  ASSUME NEW b, NEW c, NEW e, NEW p, Heard(b, c, e, "reddit", p)
  PROVE  /\ Body(b, "reddit", p) = <<Append(Copy(Worn(b.facts)), {"room", "short"}), ProofUrl(b.facts)>>
         /\ Body(c, "reddit", p) = <<Append(Copy(Worn(c.facts)), {"room", "short"}), ProofUrl(c.facts)>>
<1>1. DressReddit(Copy(Worn(c.facts)), ProofUrl(c.facts), c.facts) # <<>>
  BY DEF Heard, Body, Costume
<1>2. Slot(b.facts, "subreddit", "room") = Slot(c.facts, "subreddit", "room")
  <2>1. OneMore(b.facts, c.facts, e)
    BY HeardCopy
  <2> QED
    BY <2>1, OneMoreSlot
<1>3. Slot(c.facts, "subreddit", "room") # <<>> /\ "room" \in Slot(c.facts, "subreddit", "room")[1]
  BY <1>1 DEF DressReddit
<1>4. \A copy, url : /\ DressReddit(copy, url, b.facts) = <<Append(copy, {"room", "short"}), url>>
                     /\ DressReddit(copy, url, c.facts) = <<Append(copy, {"room", "short"}), url>>
  BY <1>2, <1>3 DEF DressReddit, Dressed
<1> QED
  BY <1>4 DEF Body, Costume

\* In these arenas the body is the copy.
LEMMA CopyHears ==
  ASSUME NEW b, NEW arena \in {"newsletter", "discord"}, NEW p
  PROVE  Body(b, arena, p) # <<>> /\ Body(b, arena, p)[1] = Copy(Worn(b.facts))
<1> DEFINE copy == Copy(Worn(b.facts))
<1>1. CASE arena = "newsletter"
  <2>1. Body(b, arena, p) = <<copy, ProofUrl(b.facts)>>
    BY <1>1 DEF Body, Costume, Dressed
  <2> QED
    BY <2>1
<1>2. CASE arena = "discord"
  <2>1. Body(b, arena, p) = <<copy, "none">>
    BY <1>2 DEF Body, Costume, Dressed
  <2> QED
    BY <2>1
<1> QED
  BY <1>1, <1>2

LEMMA HeardFits ==
  ASSUME NEW b, NEW c, NEW e, NEW arena, NEW p, Heard(b, c, e, arena, p)
  PROVE  Body(b, arena, p) # <<>>
<1>1. CASE arena = "github"
  BY <1>1, GithubHears
<1>2. CASE arena = "hn"
  BY <1>2, HnHears
<1>3. CASE arena = "x"
  BY <1>3, XHears
<1>4. CASE arena = "linkedin"
  BY <1>4, LinkedinHears
<1>5. CASE arena = "youtube"
  BY <1>5, YoutubeHears
<1>6. CASE arena = "shorts"
  BY <1>6, ShortsHears
<1>7. CASE arena = "reddit"
  BY <1>7, RedditHears
<1>8. CASE arena \in {"newsletter", "discord"}
  BY <1>8, CopyHears
<1>9. CASE arena = "mastodon"
  BY <1>9, MastodonHears
<1>10. CASE arena = "bluesky"
  <2>1. Body(b, arena, p) = <<<<Copy(Worn(b.facts))[1]>>, FirstShip(b.facts)>>
    BY <1>10 DEF Body, Costume, Dressed
  <2> QED
    BY <2>1
<1>11. arena \in Arenas
  BY DEF Heard, Scored
<1> QED
  BY <1>1, <1>2, <1>3, <1>4, <1>5, <1>6, <1>7, <1>8, <1>9, <1>10, <1>11 DEF Arenas

LEMMA LetterHears ==
  ASSUME NEW b, NEW c, NEW e, NEW p, Heard(b, c, e, "newsletter", p)
  PROVE  LetterReason(BodyLines(Body(b, "newsletter", p))) = "ok"
<1> DEFINE fs == b.facts
           T == SUBSET TextShows(fs)
           S == SUBSET (TextShows(fs) \cup {"url", "short"})
           G == {t \in S : "short" \notin t}
           w == Worn(fs)
           v == Worn(c.facts)
           copy == Copy(w)
           other == Copy(v)
           last == {"url", "short"}
<1>1. /\ copy \in Seq(T) /\ other \in Seq(T) /\ SaidIn(copy) = SaidIn(other)
      /\ OneMore(fs, c.facts, e)
  BY HeardCopy
<1>2. /\ w \in Seq(T) /\ v \in Seq(T) /\ Beside(w, v, {}) /\ w # <<>> /\ FactsOf(w) = FactsOf(v) \cup {{}}
  BY <1>1, OneMoreWorn
<1>3. v # <<>> /\ ~BodyRefused(Body(c, "newsletter", p), c, "newsletter")
  BY DEF Heard, Undressable
<1>4. /\ BodyLines(Body(b, "newsletter", p)) = Append(copy, last)
      /\ BodyLines(Body(c, "newsletter", p)) = Append(other, last)
  <2>1. Body(b, "newsletter", p)[1] = copy /\ Body(c, "newsletter", p)[1] = other
    BY CopyHears
  <2> QED
    BY <2>1 DEF BodyLines
<1>5. LetterReason(Append(other, last)) = "ok"
  BY <1>3, <1>4 DEF BodyRefused, ArenaRefuses
<1>6. last \notin G /\ {} \in G /\ last \in S /\ T \subseteq S
  OBVIOUS
<1>7. \A t \in S : t \in G <=> "short" \notin t
  OBVIOUS
<1> HIDE DEF T, S, G, w, v, copy, other, last
<1>8. copy \in Seq(S) /\ other \in Seq(S)
  <2>1. \A s \in Seq(T) : s \in Seq(S)
    BY <1>6
  <2> QED
    BY <1>1, <2>1
<1>9. Append(copy, last) \in Seq(S) /\ Append(other, last) \in Seq(S)
  BY <1>6, <1>8
<1>10. /\ {"crush", "team_voice"} \cap SaidIn(Append(other, last)) = {}
       /\ "surname" \in SaidIn(Append(other, last))
       /\ \E t : FirstIn(Append(other, last), G, t) /\ "ask" \notin t
  BY <1>5, <1>7, <1>9, LetterIs
<1>11. SaidIn(Append(copy, last)) = SaidIn(Append(other, last))
  <2>1. \A s \in Seq(T) : SaidIn(Append(s, last)) = SaidIn(s) \cup last
    BY SaidOnTop
  <2> QED
    BY <1>1, <2>1
<1>12. \A t : /\ FirstIn(Append(copy, last), G, t) <=> FirstIn(w, G, t)
              /\ FirstIn(Append(other, last), G, t) <=> FirstIn(v, G, t)
  <2> TAKE t
  <2>1. FirstIn(Append(copy, last), G, t) <=> FirstIn(copy, G, t)
    BY <1>1, <1>6, AppendFirst
  <2>2. FirstIn(Append(other, last), G, t) <=> FirstIn(other, G, t)
    BY <1>1, <1>6, AppendFirst
  <2>3. FirstIn(copy, G, t) <=> FirstIn(w, G, t)
    BY <1>2, CopyFirst DEF copy
  <2>4. FirstIn(other, G, t) <=> FirstIn(v, G, t)
    BY <1>2, <1>3, CopyFirst DEF other, v
  <2> QED
    BY <2>1, <2>2, <2>3, <2>4
<1>13. \E t : FirstIn(w, G, t) /\ "ask" \notin t
  <2>1. PICK k \in DOMAIN w : w[k] = {}
    BY <1>2 DEF FactsOf
  <2>2. PICK t : FirstIn(w, G, t)
    BY <1>2, <1>6, <2>1, SomeFirst
  <2>3. PICK u : FirstIn(v, G, u) /\ "ask" \notin u
    BY <1>10, <1>12
  <2>4. CASE t = {}
    BY <2>2, <2>4
  <2>5. CASE t # {}
    <3>1. FirstIn(v, G, t)
      BY <1>2, <2>2, <2>5 DEF Beside
    <3>2. t = u
      BY <1>2, <2>3, <3>1, OneFirst
    <3> QED
      BY <2>2, <2>3, <3>2
  <2> QED
    BY <2>4, <2>5
<1>14. /\ {"crush", "team_voice"} \cap SaidIn(Append(copy, last)) = {}
       /\ "surname" \in SaidIn(Append(copy, last))
       /\ \E t : FirstIn(Append(copy, last), G, t) /\ "ask" \notin t
  BY <1>10, <1>11, <1>12, <1>13
<1>15. LetterReason(Append(copy, last)) = "ok"
  BY <1>7, <1>9, <1>14, LetterIs
<1> QED
  BY <1>4, <1>15

LEMMA CourtHearsMore ==
  ASSUME NEW b, NEW c, NEW e, NEW p, Heard(b, c, e, "linkedin", p)
  PROVE  CourtReason(BodyLines(Body(b, "linkedin", p)), b.claims) = "ok"
<1> DEFINE body == Body(b, "linkedin", p)
           fs == b.facts
<1>1. Scored(b, "linkedin")
  BY DEF Heard
<1>2. CourtReason(Lines(fs), b.claims) = "ok"
  BY <1>1, GatesPassed DEF Scored
<1>3. ~b.claims /\ "launch_talk" \notin SaidIn(Lines(fs))
  BY <1>2 DEF CourtReason, SaidIn
<1>4. "launch_talk" \notin TextShows(fs)
  BY <1>1, <1>3, TextIsLine DEF Scored
<1>5. body # <<>> /\ \E i \in DOMAIN body[1] : Insight(body[1][i])
  BY LinkedinHears
<1>6. Worn(fs) # <<>>
  BY HeardCopy
<1>7. /\ body[1] \in Seq(SUBSET ((TextShows(fs) \ {"mention"}) \cup {"room", "short"}))
      /\ BodyMarks(body) = SaidIn(body[1])
      /\ BodyMarks(body) \subseteq (TextShows(fs) \ {"mention"}) \cup {"room", "short"}
  BY <1>1, <1>5, <1>6, BodySays
<1> HIDE DEF body, fs
<1>8. SaidIn(BodyLines(body)) = SaidIn(body[1]) \cup {"url", "short"}
      /\ \E i \in DOMAIN BodyLines(body) : Insight(BodyLines(body)[i])
  BY <1>5, <1>7, LinesOfBody
<1>9. "launch_talk" \notin SaidIn(BodyLines(body))
  BY <1>4, <1>7, <1>8
<1> QED
  BY <1>3, <1>8, <1>9 DEF CourtReason, SaidIn, body, fs

\* The tavern and the village hear what they heard.
LEMMA MarksHeard ==
  ASSUME NEW b, NEW c, NEW e, NEW arena \in {"discord", "reddit"}, NEW p, Heard(b, c, e, arena, p)
  PROVE  BodyMarks(Body(b, arena, p)) = BodyMarks(Body(c, arena, p))
         /\ Body(b, arena, p)[2] = Body(c, arena, p)[2]
<1> DEFINE copy == Copy(Worn(b.facts))
           other == Copy(Worn(c.facts))
           T == SUBSET TextShows(b.facts)
<1>1. /\ copy \in Seq(T) /\ other \in Seq(T) /\ SaidIn(copy) = SaidIn(other)
      /\ ProofUrl(b.facts) = ProofUrl(c.facts)
  BY HeardCopy
<1>2. \A body : BodyMarks(body) = SaidIn(body[1]) \cup UrlMarks(body[2])
  BY DEF BodyMarks, SaidIn
<1>3. CASE arena = "discord"
  <2>1. Body(b, arena, p) = <<copy, "none">> /\ Body(c, arena, p) = <<other, "none">>
    BY <1>3 DEF Body, Costume, Dressed
  <2> HIDE DEF copy, other
  <2>2. /\ Body(b, arena, p)[1] = copy /\ Body(b, arena, p)[2] = "none"
        /\ Body(c, arena, p)[1] = other /\ Body(c, arena, p)[2] = "none"
    BY <2>1
  <2> QED
    BY <1>1, <1>2, <2>2
<1>4. CASE arena = "reddit"
  <2> DEFINE room == {"room", "short"}
  <2>1. /\ Body(b, arena, p) = <<Append(copy, room), ProofUrl(b.facts)>>
        /\ Body(c, arena, p) = <<Append(other, room), ProofUrl(c.facts)>>
    BY <1>4, RedditHears
  <2> HIDE DEF copy, other, T, room
  <2>2. SaidIn(Append(copy, room)) = SaidIn(Append(other, room))
    <3>1. \A s \in Seq(T) : SaidIn(Append(s, room)) = SaidIn(s) \cup room
      BY SaidOnTop
    <3> QED
      BY <1>1, <3>1
  <2>3. /\ Body(b, arena, p)[1] = Append(copy, room) /\ Body(b, arena, p)[2] = ProofUrl(b.facts)
        /\ Body(c, arena, p)[1] = Append(other, room) /\ Body(c, arena, p)[2] = ProofUrl(c.facts)
    BY <2>1
  <2> QED
    BY <1>1, <1>2, <2>2, <2>3
<1> QED
  BY <1>3, <1>4

LEMMA ArenaHears ==
  ASSUME NEW b, NEW c, NEW e, NEW arena, NEW p, Heard(b, c, e, arena, p), arena # "reddit"
  PROVE  ~ArenaRefuses(arena, BodyLines(Body(b, arena, p)), BodyMarks(Body(b, arena, p)), b)
<1> DEFINE body == Body(b, arena, p)
           fs == b.facts
<1>1. Scored(b, arena) /\ Worn(fs) # <<>> /\ body # <<>>
  <2>1. Worn(fs) # <<>> /\ body # <<>>
    BY HeardCopy, HeardFits
  <2> QED
    BY <2>1 DEF Heard
<1>2. BodyMarks(body) = SaidIn(body[1]) /\ BodyMarks(body) \subseteq Shows(fs) \cup {"room", "short"}
  BY <1>1, BodySays, TextIsShown
<1>3. CASE arena = "linkedin"
  BY <1>3, CourtHearsMore DEF ArenaRefuses
<1>4. CASE arena = "discord"
  <2>1. ~BodyRefused(Body(c, arena, p), c, arena)
    BY DEF Heard
  <2>2. TavernReason(BodyMarks(Body(c, arena, p))) = "ok"
    BY <1>4, <2>1 DEF BodyRefused, ArenaRefuses
  <2>3. TavernReason(BodyMarks(Body(b, arena, p))) = "ok"
    BY <1>4, <2>2, MarksHeard
  <2> QED
    BY <1>4, <2>3 DEF ArenaRefuses
<1>5. CASE arena = "newsletter"
  BY <1>5, LetterHears DEF ArenaRefuses
<1>6. CASE arena = "hn"
  <2>1. "brand_voice" \notin Shows(fs)
    BY <1>1, <1>6, GatesPassed DEF Scored, SeminarReason
  <2> HIDE DEF body
  <2>2. SeminarReason(BodyMarks(body)) = "ok"
    BY <1>2, <2>1 DEF SeminarReason
  <2> QED
    BY <1>6, <2>2 DEF ArenaRefuses, body
<1>7. CASE arena = "youtube"
  <2>1. "cinema_end" \notin Shows(fs)
    BY <1>1, <1>7, GatesPassed DEF Scored, CinemaEndReason
  <2>2. "package" \in SaidIn(body[1])
    BY <1>7, YoutubeHears
  <2> HIDE DEF body
  <2>3. CinemaEndReason(BodyMarks(body)) = "ok"
    BY <1>2, <2>1, <2>2 DEF CinemaEndReason
  <2> QED
    BY <1>7, <2>3 DEF ArenaRefuses, body
<1>8. CASE arena \notin {"linkedin", "discord", "newsletter", "reddit", "hn", "youtube"}
  BY <1>8 DEF ArenaRefuses
<1> QED
  BY <1>3, <1>4, <1>5, <1>6, <1>7, <1>8

LEMMA HeardPasses ==
  ASSUME NEW b, NEW c, NEW e, NEW arena, NEW p, Heard(b, c, e, arena, p)
  PROVE  ~BodyRefused(Body(b, arena, p), b, arena)
<1> DEFINE body == Body(b, arena, p)
           fs == b.facts
           marks == BodyMarks(body)
<1>1. /\ Scored(b, arena) /\ Worn(fs) # <<>> /\ body # <<>> /\ ~Undressable(c, arena)
      /\ "worse_clone" \notin Shows(fs) /\ Shows(fs) = Shows(c.facts)
      /\ ~BodyRefused(Body(c, arena, p), c, arena)
  <2>1. Worn(fs) # <<>> /\ body # <<>> /\ Shows(fs) = Shows(c.facts)
    BY HeardCopy, HeardFits
  <2> QED
    BY <2>1 DEF Heard
<1>2. marks = SaidIn(body[1]) /\ marks \subseteq (TextShows(fs) \ {"mention"}) \cup {"room", "short"}
  BY <1>1, BodySays
<1>3. /\ Shows(fs) \cap NotDressed = {} /\ ~FakeOss(Shows(fs))
      /\ ~ApologyAlone(fs) /\ ~Unquotable(fs) /\ Shows(fs) \cap (NotOwnWords \ {"opinion", "mention"}) = {}
  <2>1. Shows(c.facts) \cap NotDressed = {}
    BY <1>1 DEF Undressable
  <2> QED
    BY <1>1, <2>1, ChainSilent DEF Scored
<1>4. arena \in SocialArenas => "issues_disabled" \notin Shows(fs)
  BY <1>1, GatesPassed DEF Scored
<1> HIDE DEF marks
<1>5. ~UnquotableBody(marks, fs) /\ ~FakeOss(marks)
  BY <1>2, <1>3, SaidIsQuotable
<1>6. marks \cap NotInBody = {}
  <2>1. NotInBody \subseteq NotDressed \cup {"mention"} /\ {"room", "short", "mention"} \cap NotDressed = {}
    BY DEF NotInBody, NotDressed
  <2>2. TextShows(fs) \subseteq Shows(fs)
    BY TextIsShown
  <2> HIDE DEF body, fs
  <2> QED
    BY <1>2, <1>3, <2>1, <2>2
<1>7. ~CloneTalk(marks)
  BY <1>1, <1>2, TextIsShown DEF CloneTalk
<1>8. arena \in SocialArenas => "issues_disabled" \notin marks
  BY <1>2, <1>4, TextIsShown
<1>9. ~Overflows(arena, body[1][1])
  <2>1. arena = "hn" => body[1][1] \cap LongTitle = {}
    BY HnHears
  <2>2. arena = "x" => "long_post" \notin body[1][1]
    BY XHears
  <2>3. arena = "linkedin" => body[1][1] \cap LongFold = {}
    BY LinkedinHears
  <2> QED
    BY <2>1, <2>2, <2>3 DEF Overflows
<1>10. arena = "reddit" => RedditReason(marks, body[2] \in ShipUrls) = "ok"
  <2> SUFFICES ASSUME arena = "reddit" PROVE RedditReason(marks, body[2] \in ShipUrls) = "ok"
    OBVIOUS
  <2> DEFINE other == Body(c, arena, p)
  <2>1. marks = BodyMarks(other) /\ body[2] = other[2]
    BY MarksHeard DEF marks
  <2> HIDE DEF other, body
  <2>2. RedditReason(BodyMarks(other), other[2] \in ShipUrls) = "ok"
    BY <1>1 DEF BodyRefused, other
  <2> QED
    BY <2>1, <2>2
<1>11. arena # "reddit" => ~ArenaRefuses(arena, BodyLines(body), marks, b)
  BY ArenaHears DEF marks
<1>12. arena = "x" => NewThought(body[1][1], fs)
  BY XHears
<1> HIDE DEF body
<1> QED
  BY <1>3, <1>5, <1>6, <1>7, <1>8, <1>9, <1>10, <1>11, <1>12 DEF BodyRefused, marks, body

LEMMA WithoutIsEvidenced ==
  ASSUME NEW b \in Briefs, NEW i \in DOMAIN b.facts, Evident(b.facts[i]), HasShip(Without(b, i).facts)
  PROVE  Evidenced(b, Without(b, i), b.facts[i])
<1>1. /\ b = [kind |-> b.kind, claims |-> b.claims, tryable |-> b.tryable, preferred |-> b.preferred,
              facts |-> b.facts]
      /\ b.facts \in Seq(FactsOf(b.facts))
  BY BriefAssumption
<1>2. OneMore(b.facts, Without(b, i).facts, b.facts[i])
  BY <1>1, WithoutIsOneMore
<1>3. /\ Without(b, i).kind = b.kind /\ Without(b, i).claims = b.claims
      /\ Without(b, i).tryable = b.tryable /\ Without(b, i).preferred = b.preferred
  <2>1. \A fs : LET c == [b EXCEPT !.facts = fs] IN
                c.kind = b.kind /\ c.claims = b.claims /\ c.tryable = b.tryable /\ c.preferred = b.preferred
    BY <1>1
  <2> QED
    BY <2>1 DEF Without
<1> QED
  BY <1>2, <1>3 DEF Evidenced

\* Evidence leaves a spoken brief spoken.
LEMMA EvidenceIsWorn ==
  ASSUME NEW b, NEW c, NEW e, Evidenced(b, c, e), b.kind \in StoryKinds, b.preferred \in Arenas \cup {"none"},
         {"worse_clone", "clip"} \cap Shows(c.facts) = {}, ~Mislabelled(c.facts, "package", "package"),
         NEW p, NEW stack0, ApplyBrief(c, p, stack0).draft # NoDraft
  PROVE  ApplyBrief(b, p, stack0).draft # NoDraft
<1> DEFINE arena == ChooseArena(c, "none")
           body == Body(b, arena, p)
<1>1. p.voice = "own" /\ DressBrief(c, ScoreBrief(c, stack0), p) # NoDraft
  BY DEF ApplyBrief
<1>2. ScoreBrief(c, stack0).verdict = "draft"
  BY <1>1 DEF DressBrief
<1>3. /\ ScoreBrief(b, stack0) = [verdict |-> "draft", reason |-> "one_angle", arena |-> arena]
      /\ ScoreBrief(c, stack0).arena = arena
  BY <1>2, EvidenceIsScored
<1> HIDE DEF arena
<1>4. /\ ~Undressable(c, arena) /\ Body(c, arena, p) # <<>> /\ ~BodyRefused(Body(c, arena, p), c, arena)
  BY <1>1, <1>2, <1>3 DEF DressBrief, Finished, Body
<1>5. Scored(b, arena)
  <2>1. ScoreBrief(b, stack0).verdict = "draft" /\ ScoreBrief(b, stack0).arena = arena
    BY <1>3
  <2>2. /\ arena = ChooseArena(b, "none")
        /\ Links \cap (Shows(b.facts) \cup Derived(b)) = {}
        /\ \A i \in DOMAIN GateOrder : GateOrder[i] \notin GateSigns(b, arena)
        /\ ~MondayWithoutHistory(b, arena)
        /\ arena = "newsletter" => b.claims /\ b.tryable
    BY <2>1, ScoreSpeaks
  <2>3. arena \in Arenas
    BY <2>2, ChosenArena
  <2>4. b.facts \in Seq(FactsOf(b.facts))
    BY DEF Evidenced, OneMore
  <2> QED
    BY <2>2, <2>3, <2>4 DEF Scored
<1>6. Heard(b, c, e, arena, p)
  BY <1>4, <1>5 DEF Heard
<1>7. body # <<>> /\ ~BodyRefused(body, b, arena) /\ ~Undressable(b, arena)
  BY <1>4, <1>5, <1>6, HeardFits, HeardPasses, EvidencedDressable
<1>8. DressBrief(b, ScoreBrief(b, stack0), p) = Finished(body, b, arena)
  BY <1>3, <1>7 DEF DressBrief, Body
<1>9. Finished(body, b, arena) = [arena |-> arena, texts |-> LastStrip(body[1]), url |-> body[2]]
  BY <1>7 DEF Finished
<1>10. arena # "none"
  BY <1>5 DEF Scored, Arenas
<1> HIDE DEF body
<1> QED
  BY <1>1, <1>8, <1>9, <1>10 DEF ApplyBrief, NoDraft

\* A plain fact that links a film, a store, a blog, a launch, a ranking, a deck,
\* a card, a cloud drive or a vanity page leaves a brief that speaks without it
\* spoken, wherever it stands, for any brief, profile and living stack
\* (score_brief, dress_brief and the eleven costumes).
THEOREM EvidenceIsKept == Spec => []EvidenceStays
<1>1. AngleInv => EvidenceStays
  <2> SUFFICES ASSUME AngleInv, phase = "applied", NEW i \in DOMAIN brief.facts,
                      Evident(brief.facts[i]), HasShip(Without(brief, i).facts),
                      {"worse_clone", "clip"} \cap Shows(Without(brief, i).facts) = {},
                      ~Mislabelled(Without(brief, i).facts, "package", "package"),
                      ApplyBrief(Without(brief, i), brand, stack).draft # NoDraft
               PROVE  Spoken
    BY DEF EvidenceStays, Evident
  <2>1. brief \in Briefs /\ draft = ApplyBrief(brief, brand, stack).draft
    BY DEF AngleInv
  <2>2. Evidenced(brief, Without(brief, i), brief.facts[i])
    BY <2>1, WithoutIsEvidenced
  <2>3. brief.kind \in StoryKinds /\ brief.preferred \in Arenas \cup {"none"}
    BY <2>1, BriefAssumption
  <2>4. ApplyBrief(brief, brand, stack).draft # NoDraft
    BY <2>2, <2>3, EvidenceIsWorn
  <2> QED
    BY <2>1, <2>4 DEF Spoken
<1> QED
  BY <1>1, AngleAlways, PTL
=============================================================================
