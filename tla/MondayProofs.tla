----------------------------- MODULE MondayProofs -----------------------------
(***************************************************************************)
(* Proofs about Monday for every site, every offer, outage and ingested    *)
(* brief, every profile and any number of Mondays.                         *)
(***************************************************************************)
EXTENDS Monday, CopyProofs

Probes == {"install", "demo", "start"}

\* What an admitted brief says of the look that admitted it.
Row(e) ==
  /\ DOMAIN e = {"id", "source", "b", "pending", "at", "flags", "readme", "deaf"}
  /\ e.source = "scan" => /\ e.flags \subseteq (e.deaf \ {"private", "archived"})
                          /\ Probes \subseteq e.readme
  /\ e.source = "feedback" => /\ e.flags \subseteq (e.deaf \ {"private"}) \cup {"template"}
                              /\ e.b.tryable = FALSE /\ e.b.preferred = "none"
\* What a draft says of its brief.
Fits(d, rows) ==
  /\ DOMAIN d = {"brief", "draft", "at", "held", "key"}
  /\ d.brief \in DOMAIN rows
  /\ rows[d.brief].source = "feedback" => d.draft.arena = "github"

IsList(s) == \E S : s \in Seq(S)
SiteInv == DOMAIN site = {"flags", "posts", "readme", "about"} /\ site.flags \subseteq Flags
BriefsInv == IsList(briefs) /\ \A i \in DOMAIN briefs : Row(briefs[i])
DraftsInv == IsList(drafts) /\ \A d \in DOMAIN drafts : Fits(drafts[d], briefs)
LookInv == SiteInv /\ BriefsInv /\ DraftsInv

------------------------------------------------------------------------------
(* Lists *)

LEMMA Appended ==
  ASSUME NEW s, IsList(s), NEW e
  PROVE  /\ IsList(Append(s, e))
         /\ DOMAIN s \subseteq DOMAIN Append(s, e)
         /\ \A i \in DOMAIN s : Append(s, e)[i] = s[i]
         /\ \A i \in DOMAIN Append(s, e) : i \in DOMAIN s \/ Append(s, e)[i] = e
         /\ \A i, k \in DOMAIN Append(s, e) : i \in DOMAIN s \/ k \in DOMAIN s \/ i = k
<1>1. PICK S : s \in Seq(S)
  BY DEF IsList
<1> DEFINE T == S \cup {e}
<1>2. s \in Seq(T)
  BY <1>1
<1>3. Append(s, e) \in Seq(T)
  BY <1>2
<1> QED
  BY <1>1, <1>2, <1>3 DEF IsList

LEMMA Replaced ==
  ASSUME NEW s, IsList(s), NEW k \in DOMAIN s, NEW e
  PROVE  /\ IsList([s EXCEPT ![k] = e])
         /\ DOMAIN [s EXCEPT ![k] = e] = DOMAIN s
         /\ \A i \in DOMAIN s : [s EXCEPT ![k] = e][i] = IF i = k THEN e ELSE s[i]
<1>1. PICK S : s \in Seq(S)
  BY DEF IsList
<1> DEFINE T == S \cup {e}
<1>2. s \in Seq(T) /\ e \in T
  BY <1>1
<1>3. [s EXCEPT ![k] = e] \in Seq(T)
  BY <1>2
<1> QED
  BY <1>3 DEF IsList

------------------------------------------------------------------------------
(* Scoring: what claims no demo and asks for no stage stays in the workshop *)

LEMMA DraftWearsScore ==
  ASSUME NEW b, NEW score, NEW p, DressBrief(b, score, p) # NoDraft
  PROVE  score.verdict = "draft" /\ DressBrief(b, score, p).arena = score.arena
  BY DEF DressBrief, Finished

LEMMA WorkshopScore ==
  ASSUME NEW b, b.tryable = FALSE, b.preferred = "none", NEW stack,
         ScoreBrief(b, stack).verdict = "draft"
  PROVE  ScoreBrief(b, stack).arena = "github"
<1> DEFINE sign == FirstSign(Chain, Shows(b.facts) \cup Derived(b))
<1> HIDE DEF sign
<1>1. sign = 0 /\ stack = "none" /\ ScoreBrief(b, stack) = ScoreInArena(b, ChooseArena(b, stack))
  BY SilenceIsNoDraft DEF ScoreBrief, Silence, sign
<1>2. ChooseArena(b, stack) = "github"
  BY <1>1 DEF ChooseArena, Seated
<1>3. ScoreInArena(b, "github").verdict = "draft" => ScoreInArena(b, "github").arena = "github"
  BY DEF ScoreInArena, Silence
<1> QED
  BY <1>1, <1>2, <1>3

LEMMA WorkshopDraft ==
  ASSUME NEW b, b.tryable = FALSE, b.preferred = "none", NEW p, NEW stack,
         ApplyBrief(b, p, stack).draft # NoDraft
  PROVE  ApplyBrief(b, p, stack).draft.arena = "github"
<1> DEFINE score == ScoreBrief(b, stack)
<1>1. ApplyBrief(b, p, stack).draft = DressBrief(b, score, p)
  BY DEF ApplyBrief
<1>2. score.verdict = "draft" /\ DressBrief(b, score, p).arena = score.arena
  BY <1>1, DraftWearsScore
<1>3. score.arena = "github"
  BY <1>2, WorkshopScore
<1> QED
  BY <1>1, <1>2, <1>3

------------------------------------------------------------------------------
(* Looks *)

LEMMA SeenByLook ==
  ASSUME SiteInv, NEW deaf, ~SurveySilent(site, week, deaf), ~PackSilent(site, week, deaf)
  PROVE  Row(Stored(PackedBrief(site, week, deaf), "scan", deaf))
<1>1. site.flags \subseteq deaf \ {"private", "archived"}
  BY DEF SurveySilent, Probed, SiteInv
<1>2. Probes \subseteq Readme(site, deaf).marks
  BY DEF PackSilent, Probes
<1> QED
  BY <1>1, <1>2 DEF Row, Stored

LEMMA SeenByEar ==
  ASSUME SiteInv, NEW deaf, ~FeedbackSilent(site, week, deaf)
  PROVE  Row(Stored(FeedbackBrief(site, week, deaf), "feedback", deaf))
<1>1. site.flags \subseteq (deaf \ {"private"}) \cup {"template"}
  BY DEF FeedbackSilent, Probed, SiteInv, Flags
<1>2. FeedbackBrief(site, week, deaf).b.tryable = FALSE
      /\ FeedbackBrief(site, week, deaf).b.preferred = "none"
  BY DEF FeedbackBrief
<1> QED
  BY <1>1, <1>2 DEF Row, Stored

\* An admission leaves the rows and the drafts of before as they are.
LEMMA AdmissionKeeps ==
  ASSUME LookInv, NEW packed, NEW source, NEW deaf, Row(Stored(packed, source, deaf)),
         Admitted(packed, source, deaf), site' = site, drafts' = drafts
  PROVE  LookInv'
<1>1. BriefsInv'
  BY Appended DEF LookInv, BriefsInv, Admitted
<1>2. DraftsInv'
  BY Appended DEF LookInv, BriefsInv, DraftsInv, Fits, Admitted
<1>3. SiteInv'
  BY DEF LookInv, SiteInv
<1> QED
  BY <1>1, <1>2, <1>3 DEF LookInv

LEMMA Unchanged ==
  ASSUME LookInv, UNCHANGED <<site, briefs, drafts>>
  PROVE  LookInv'
  BY DEF LookInv, SiteInv, BriefsInv, DraftsInv

LEMMA ListenKeeps ==
  ASSUME LookInv, NEW deaf, Listen(deaf)
  PROVE  LookInv'
<1>1. site' = site /\ drafts' = drafts
  BY DEF Listen
<1>2. CASE UNCHANGED briefs
  BY <1>1, <1>2, Unchanged
<1>3. CASE briefs' # briefs
  <2>1. /\ ~FeedbackSilent(site, week, deaf)
        /\ Admitted(FeedbackBrief(site, week, deaf), "feedback", deaf)
    BY <1>3 DEF Listen
  <2> QED
    BY <1>1, <2>1, SeenByEar, AdmissionKeeps DEF LookInv
<1> QED
  BY <1>2, <1>3

LEMMA LookKeeps ==
  ASSUME LookInv, NEW deaf, Look(deaf)
  PROVE  LookInv'
<1>1. site' = site /\ drafts' = drafts
  BY DEF Look
<1>2. CASE UNCHANGED briefs
  BY <1>1, <1>2, Unchanged
<1>3. CASE briefs' # briefs
  <2>1. /\ ~SurveySilent(site, week, deaf) /\ ~PackSilent(site, week, deaf)
        /\ Admitted(PackedBrief(site, week, deaf), "scan", deaf)
    BY <1>3 DEF Look
  <2> QED
    BY <1>1, <2>1, SeenByLook, AdmissionKeeps DEF LookInv
<1> QED
  BY <1>2, <1>3

------------------------------------------------------------------------------
(* The round *)

LEMMA ScoreKeeps ==
  ASSUME LookInv, ScoreNext
  PROVE  LookInv'
<1>1. PICK i \in Pending :
        LET draft == ApplyBrief(briefs[i].b, Profile, LivingStack).draft
            key == DraftKey(draft, briefs[i].b.facts)
        IN  /\ briefs' = [briefs EXCEPT ![i].pending = FALSE]
            /\ \/ drafts' = drafts
               \/ draft # NoDraft
                    /\ drafts' = Append(drafts, [brief |-> i, draft |-> draft, at |-> week,
                                                 held |-> FALSE, key |-> key])
  BY DEF ScoreNext, Queue
<1> DEFINE draft == ApplyBrief(briefs[i].b, Profile, LivingStack).draft
           new == [brief |-> i, draft |-> draft, at |-> week, held |-> FALSE,
                   key |-> DraftKey(draft, briefs[i].b.facts)]
           done == [briefs[i] EXCEPT !.pending = FALSE]
<1>2. i \in DOMAIN briefs /\ site' = site /\ briefs' = [briefs EXCEPT ![i] = done]
  BY <1>1 DEF ScoreNext, Pending
<1>3. Row(briefs[i]) /\ Row(done) /\ done.source = briefs[i].source
  BY <1>2 DEF LookInv, BriefsInv, Row
<1>4. Fits(new, briefs) \/ draft = NoDraft
  <2>1. briefs[i].source = "feedback" /\ draft # NoDraft => draft.arena = "github"
    <3> SUFFICES ASSUME briefs[i].source = "feedback", draft # NoDraft PROVE draft.arena = "github"
      OBVIOUS
    <3>1. briefs[i].b.tryable = FALSE /\ briefs[i].b.preferred = "none"
      BY <1>3 DEF Row
    <3> QED
      BY <3>1, WorkshopDraft
  <2> QED
    BY <1>2, <2>1 DEF Fits
<1> HIDE DEF draft, new, done
<1>5. /\ IsList(briefs') /\ DOMAIN briefs' = DOMAIN briefs
      /\ \A k \in DOMAIN briefs : briefs'[k] = IF k = i THEN done ELSE briefs[k]
  BY <1>2, Replaced DEF LookInv, BriefsInv
<1>6. BriefsInv'
  BY <1>3, <1>5 DEF LookInv, BriefsInv
<1>7. ASSUME NEW d, Fits(d, briefs) PROVE Fits(d, briefs')
  BY <1>3, <1>5, <1>7 DEF Fits
<1>8. DraftsInv'
  <2>1. CASE drafts' = drafts
    BY <1>7, <2>1 DEF LookInv, DraftsInv
  <2>2. CASE draft # NoDraft /\ drafts' = Append(drafts, new)
    BY <1>4, <1>7, <2>2, Appended DEF LookInv, DraftsInv
  <2> QED
    BY <1>1, <2>1, <2>2 DEF draft, new
<1> QED
  BY <1>2, <1>6, <1>8 DEF LookInv, SiteInv

LEMMA HoldKeeps ==
  ASSUME LookInv, NEW d, Hold(d)
  PROVE  LookInv'
<1> DEFINE held == [drafts[d] EXCEPT !.held = TRUE]
<1>1. /\ site' = site /\ briefs' = briefs /\ d \in DOMAIN drafts
      /\ drafts' = [drafts EXCEPT ![d] = held]
  BY DEF Hold
<1>2. Fits(held, briefs)
  BY <1>1 DEF LookInv, DraftsInv, Fits
<1> HIDE DEF held
<1>3. DraftsInv'
  BY <1>1, <1>2, Replaced DEF LookInv, DraftsInv
<1> QED
  BY <1>1, <1>3 DEF LookInv, SiteInv, BriefsInv

------------------------------------------------------------------------------

LEMMA InitLook == Init => LookInv
<1> SUFFICES ASSUME Init PROVE LookInv
  OBVIOUS
<1>1. <<>> \in Seq({}) /\ DOMAIN <<>> = {}
  OBVIOUS
<1> QED
  BY <1>1, SiteAssumption DEF Init, LookInv, SiteInv, BriefsInv, DraftsInv, IsList

LEMMA StepLook == LookInv /\ [Next]_vars => LookInv'
<1> SUFFICES ASSUME LookInv, [Next]_vars PROVE LookInv'
  OBVIOUS
<1>1. ASSUME NEW offer \in Offers, Post(offer) PROVE LookInv'
  BY <1>1 DEF Post, LookInv, SiteInv, BriefsInv, DraftsInv
<1>2. ASSUME NEW home \in Homes, EditReadme(home) PROVE LookInv'
  BY <1>2 DEF EditReadme, LookInv, SiteInv, BriefsInv, DraftsInv
<1>3. ASSUME NEW flags \in FlagSets, SetFlags(flags) PROVE LookInv'
  BY <1>3, SiteAssumption DEF SetFlags, LookInv, SiteInv, BriefsInv, DraftsInv
<1>4. ASSUME NEW deaf \in Outages, Listen(deaf) \/ Look(deaf) PROVE LookInv'
  BY <1>4, ListenKeeps, LookKeeps
<1>5. CASE NotDue \/ EmitAngle \/ NextMonday \/ UNCHANGED vars
  BY <1>5, Unchanged DEF NotDue, EmitAngle, NextMonday, vars
<1>6. CASE ScoreNext
  BY <1>6, ScoreKeeps
<1>7. ASSUME NEW d \in DOMAIN drafts, Hold(d) PROVE LookInv'
  BY <1>7, HoldKeeps
<1>8. ASSUME NEW brief \in Ingests, Ingest(brief) PROVE LookInv'
  <2>1. Row(Stored(brief, "cli", {}))
    BY DEF Row, Stored
  <2> QED
    BY <1>8, <2>1, AdmissionKeeps DEF Ingest
<1> QED
  BY <1>1, <1>2, <1>3, <1>4, <1>5, <1>6, <1>7, <1>8 DEF Next

LEMMA LookAlways == Spec => []LookInv
  BY InitLook, StepLook, PTL DEF Spec

\* A look, or the ear for comments, admits a repository that is a copy, empty,
\* archived or a template only when the call that asks for just that failed
\* (repo_is_fork and its neighbours), however often flags and outages change.
THEOREM BlindLooksOnly == Spec => []OnlyBlindLooksAdmit
<1>1. LookInv => OnlyBlindLooksAdmit
  BY DEF LookInv, BriefsInv, Row, OnlyBlindLooksAdmit
<1> QED
  BY <1>1, LookAlways, PTL

\* A scanned brief is drafted for a stage only from a README that showed an
\* install line, a demo and a start, and comments are drafted for the workshop
\* only, whatever the profile, the stack and the words (pack_survey,
\* score_brief, choose_arena).
THEOREM StageSeen == Spec => []StageWasSeen
<1>1. LookInv => StageWasSeen
  BY DEF LookInv, BriefsInv, DraftsInv, Row, Fits, Probes, StageWasSeen
<1> QED
  BY <1>1, LookAlways, PTL

------------------------------------------------------------------------------
(* What a pack names *)

Told(fs) == {f.of : f \in {g \in FactsOf(fs) : g.url = "release" \/ g.kind = "tag"}}

Shaped(f, shapes) == DOMAIN f = {"kind", "text", "url", "of"} /\ <<f.kind, f.url>> \in shapes
PackShapes == {<<"release", "release">>, <<"pull", "pull">>, <<"tag", "none">>,
               <<"readme", "readme">>, <<"signal", "none">>}
EarShapes == {<<"issue_comment", "comment">>, <<"pull_comment", "comment">>, <<"excerpt", "issue">>}

LEMMA Cut ==
  ASSUME NEW S, NEW s \in Seq(S), NEW n \in Nat
  PROVE  LET short == SubSeq(s, 1, IF Len(s) < n THEN Len(s) ELSE n)
         IN  short \in Seq(S) /\ FactsOf(short) \subseteq FactsOf(s)
<1> DEFINE m == IF Len(s) < n THEN Len(s) ELSE n
<1>1. m \in Nat /\ m <= Len(s) /\ Len(s) \in Nat
  OBVIOUS
<1> HIDE DEF m
<1>2. SubSeq(s, 1, m) = [i \in 1..m |-> s[i]]
  BY <1>1
<1>3. \A i \in 1..m : i \in DOMAIN s /\ s[i] \in S
  BY <1>1
<1> QED
  BY <1>1, <1>2, <1>3 DEF FactsOf, m

\* The cut of orders and the cap leave of each fact its kind and its URL.
LEMMA InboundKeepsShape ==
  ASSUME NEW S, NEW fs \in Seq(S), NEW shapes, \A i \in DOMAIN fs : Shaped(fs[i], shapes)
  PROVE  \A f \in FactsOf(First(Inbound(fs))) : Shaped(f, shapes)
<1> DEFINE cut == [i \in DOMAIN fs |-> [fs[i] EXCEPT !.text = Strip(@, "order")]]
           T == FactsOf(cut)
           left == {i \in DOMAIN cut : cut[i].text # Gone}
<1>1. cut \in Seq(T) /\ left \subseteq DOMAIN cut
  BY DEF FactsOf
<1>2. \A i \in DOMAIN cut : Shaped(cut[i], shapes)
  BY DEF Shaped
<1>3. Inbound(fs) = Picked(cut, left)
  BY DEF Inbound
<1> HIDE DEF cut, left
<1>4. Inbound(fs) \in Seq(T)
  BY <1>1, <1>3, PickedIsList
<1>5. First(Inbound(fs)) \in Seq(T)
  <2>1. MaxFacts \in Nat
    BY MaxFactsAssumption
  <2> QED
    BY <1>4, <2>1, Cut DEF First
<1> QED
  BY <1>2, <1>5 DEF FactsOf

Published(home, kinds) == {p \in FactsOf(home.posts) : p.what \in kinds}

LEMMA NewestIsList ==
  ASSUME NEW S, NEW home, home.posts \in Seq(S), NEW kinds, NEW monday
  PROVE  Newest(home, kinds, monday) \in Seq(Published(home, kinds))
<1> DEFINE posts == home.posts
           seen == {i \in DOMAIN posts : posts[i].what \in kinds /\ monday \in posts[i].seen}
           P == Published(home, kinds)
           picked == Picked(posts, seen)
<1>1. seen \subseteq DOMAIN posts /\ \A i \in seen : posts[i] \in P
  BY DEF Published, FactsOf
<1>2. Newest(home, kinds, monday) = Lists!Reverse(picked)
  BY DEF Newest
<1> HIDE DEF seen, P
<1>3. picked \in Seq(S) /\ \A k \in DOMAIN picked : \E i \in seen : picked[k] = posts[i]
  BY <1>1, PickedIsList
<1> HIDE DEF picked
<1>4. picked \in Seq(P)
  BY <1>1, <1>3
<1> QED
  BY <1>2, <1>4 DEF Lists!Reverse, P

LEMMA TagsIsList ==
  ASSUME NEW S, NEW home, home.posts \in Seq(S), NEW deaf
  PROVE  Tags(home, deaf) \in Seq(Published(home, {"release", "tag"}))
<1> DEFINE posts == home.posts
           seen == {i \in DOMAIN posts : posts[i].what \in {"release", "tag"}}
           P == Published(home, {"release", "tag"})
           picked == Picked(posts, seen)
<1>1. seen \subseteq DOMAIN posts /\ \A i \in seen : posts[i] \in P
  BY DEF Published, FactsOf
<1>2. Tags(home, deaf) = IF "tags" \in deaf THEN <<>> ELSE Lists!Reverse(picked)
  BY DEF Tags
<1> HIDE DEF seen, P
<1>3. picked \in Seq(S) /\ \A k \in DOMAIN picked : \E i \in seen : picked[k] = posts[i]
  BY <1>1, PickedIsList
<1> HIDE DEF picked
<1>4. picked \in Seq(P)
  BY <1>1, <1>3
<1> QED
  BY <1>2, <1>4 DEF Lists!Reverse, P

\* What a pack is made of: releases and merges before tags, the README and the
\* description.
Heads(home) ==
  {ReleaseFact(p) : p \in Published(home, {"release"})} \cup {PullFact(p) : p \in Published(home, {"pull"})}
Makings(home, deaf) ==
  Heads(home) \cup {TagFact(p) : p \in Published(home, {"release", "tag"})}
    \cup {ReadmeFact(Readme(home, deaf)), Fact("signal", home.about, "none", "about")}

LEMMA Joined ==
  ASSUME NEW F, NEW s \in Seq(F), NEW t \in Seq(F)
  PROVE  /\ s \o t \in Seq(F)
         /\ s # <<>> => 1 \in DOMAIN (s \o t) /\ (s \o t)[1] = s[1]
         /\ s = <<>> => s \o t = t
<1>1. s # <<>> => 1 \in 1..Len(s)
  OBVIOUS
<1> QED
  BY <1>1

LEMMA PackIsMade ==
  ASSUME NEW S, NEW home, home.posts \in Seq(S), NEW monday, NEW deaf
  PROVE  \E all \in Seq(Makings(home, deaf)) :
           /\ PackedFacts(home, monday, deaf) = First(Inbound(all))
           /\ Releases(home, monday) # <<>> \/ Headlines(home, monday) # <<>>
                => 1 \in DOMAIN all /\ all[1] \in Heads(home)
<1> DEFINE releases == Releases(home, monday)
           pulls == Newest(home, {"pull"}, monday)
           ships == {i \in DOMAIN pulls : pulls[i].words \cap {"no_ship", "commit_noise"} = {}}
           headlines == Headlines(home, monday)
           released == {releases[i].of : i \in DOMAIN releases}
           listed == Tags(home, deaf)
           alone == {i \in DOMAIN listed : /\ listed[i].of \notin released
                                           /\ listed[i].words \cap {"no_ship", "commit_noise"} = {}}
           tags == Picked(listed, alone)
           readme == Readme(home, deaf)
           first == [i \in DOMAIN releases |-> ReleaseFact(releases[i])]
           second == [i \in DOMAIN headlines |-> PullFact(headlines[i])]
           third == [i \in DOMAIN tags |-> TagFact(tags[i])]
           fourth == IF "install" \in readme.marks THEN <<ReadmeFact(readme)>> ELSE <<>>
           fifth == IF "short" \in home.about THEN <<>> ELSE <<Fact("signal", home.about, "none", "about")>>
           F == Makings(home, deaf)
<1>1. /\ releases \in Seq(Published(home, {"release"})) /\ pulls \in Seq(Published(home, {"pull"}))
      /\ listed \in Seq(Published(home, {"release", "tag"}))
  BY NewestIsList, TagsIsList DEF Releases
<1>2. headlines \in Seq(Published(home, {"pull"}))
  <2>1. headlines = Picked(pulls, ships) /\ ships \subseteq DOMAIN pulls
    BY DEF Headlines
  <2> HIDE DEF ships, pulls, headlines
  <2> QED
    BY <1>1, <2>1, PickedIsList
<1>3. tags \in Seq(Published(home, {"release", "tag"}))
  <2>1. alone \subseteq DOMAIN listed
    OBVIOUS
  <2> HIDE DEF alone, listed
  <2> QED
    BY <1>1, <2>1, PickedIsList
<1> HIDE DEF alone
<1>4. PackedFacts(home, monday, deaf) = First(Inbound(first \o second \o third \o fourth \o fifth))
  BY DEF PackedFacts, alone
<1> HIDE DEF releases, pulls, headlines, listed, tags
<1>5. first \in Seq(Heads(home)) /\ second \in Seq(Heads(home))
  BY <1>1, <1>2 DEF Heads
<1>6. first \in Seq(F) /\ second \in Seq(F) /\ third \in Seq(F) /\ fourth \in Seq(F) /\ fifth \in Seq(F)
  <2>1. Heads(home) \subseteq F /\ ReadmeFact(readme) \in F /\ Fact("signal", home.about, "none", "about") \in F
        /\ \A p \in Published(home, {"release", "tag"}) : TagFact(p) \in F
    BY DEF Makings
  <2> HIDE DEF F, readme
  <2>2. third \in Seq(F)
    BY <1>3, <2>1
  <2>3. \A e \in F : <<e>> \in Seq(F)
    OBVIOUS
  <2>4. <<>> \in Seq(F)
    OBVIOUS
  <2>5. first \in Seq(F) /\ second \in Seq(F)
    <3> HIDE DEF first, second
    <3> QED
      BY <1>5, <2>1
  <2> QED
    BY <2>1, <2>2, <2>3, <2>4, <2>5
<1>7. (first # <<>> <=> releases # <<>>) /\ (second # <<>> <=> headlines # <<>>)
  BY <1>1, <1>2
<1>8. /\ first # <<>> => first[1] \in Heads(home)
      /\ second # <<>> => second[1] \in Heads(home)
  <2> HIDE DEF first, second
  <2> QED
    BY <1>5
<1> HIDE DEF first, second, third, fourth, fifth, F
<1> DEFINE two == first \o second
           three == two \o third
           four == three \o fourth
           all == four \o fifth
<1>9. two \in Seq(F) /\ (first # <<>> \/ second # <<>> => 1 \in DOMAIN two /\ two[1] \in Heads(home))
  <2>1. second # <<>> => 1 \in DOMAIN second
    BY <1>6
  <2> QED
    BY <1>6, <1>8, <2>1, Joined
<1> HIDE DEF two
<1>10. three \in Seq(F) /\ (two # <<>> => 1 \in DOMAIN three /\ three[1] = two[1])
  BY <1>6, <1>9, Joined
<1> HIDE DEF three
<1>11. four \in Seq(F) /\ (three # <<>> => 1 \in DOMAIN four /\ four[1] = three[1])
  BY <1>6, <1>10, Joined
<1> HIDE DEF four
<1>12. all \in Seq(F) /\ (four # <<>> => 1 \in DOMAIN all /\ all[1] = four[1])
  BY <1>6, <1>11, Joined
<1>13. 1 \notin DOMAIN <<>>
  OBVIOUS
<1>14. first # <<>> \/ second # <<>> => 1 \in DOMAIN all /\ all[1] \in Heads(home)
  BY <1>9, <1>10, <1>11, <1>12, <1>13
<1>15. PackedFacts(home, monday, deaf) = First(Inbound(all))
  BY <1>4 DEF two, three, four
<1> QED
  BY <1>7, <1>12, <1>14, <1>15 DEF F, releases, headlines

LEMMA PackIsShaped ==
  ASSUME NEW S, NEW home, home.posts \in Seq(S), NEW monday, NEW deaf
  PROVE  \A f \in FactsOf(PackedFacts(home, monday, deaf)) : Shaped(f, PackShapes)
<1> DEFINE F == Makings(home, deaf)
<1>1. PICK all \in Seq(F) : PackedFacts(home, monday, deaf) = First(Inbound(all))
  BY PackIsMade
<1>2. \A f \in F : Shaped(f, PackShapes)
  BY DEF Makings, Heads, ReleaseFact, PullFact, TagFact, ReadmeFact, Fact, Shaped, PackShapes
<1> HIDE DEF F
<1>3. \A i \in DOMAIN all : Shaped(all[i], PackShapes)
  BY <1>1, <1>2
<1> QED
  BY <1>1, <1>3, InboundKeepsShape

LEMMA EarIsShaped ==
  ASSUME NEW S, NEW home, home.posts \in Seq(S), NEW monday, NEW deaf
  PROVE  \A f \in FactsOf(CommentFacts(home, monday, deaf)) : Shaped(f, EarShapes)
<1> DEFINE posts == home.posts
           heard == {"comment"} \cup (IF "pulls" \in deaf THEN {} ELSE {"review"})
                               \cup (IF "issues" \in deaf THEN {} ELSE {"issue"})
           places == {i \in DOMAIN posts : /\ posts[i].what \in heard /\ monday \in posts[i].seen
                                           /\ "noise" \notin posts[i].words}
           signals == Picked(posts, places)
           said == [i \in DOMAIN signals |-> CommentFact(signals[i])]
<1>1. CommentFacts(home, monday, deaf) = First(Inbound(said))
  BY DEF CommentFacts
<1>2. places \subseteq DOMAIN posts /\ \A i \in places : posts[i].what \in DOMAIN CommentKind
  BY DEF CommentKind
<1> HIDE DEF places
<1>3. /\ signals \in Seq(S)
      /\ \A k \in DOMAIN signals : \E i \in places : signals[k] = posts[i]
  BY <1>2, PickedIsList
<1>4. \A k \in DOMAIN signals : signals[k].what \in DOMAIN CommentKind
  BY <1>2, <1>3
<1> HIDE DEF signals
<1>5. said \in Seq(FactsOf(said))
  BY <1>3 DEF FactsOf
<1>6. \A k \in DOMAIN said : Shaped(said[k], EarShapes)
  BY <1>4 DEF CommentFact, Fact, CommentKind, CommentUrl, Shaped, EarShapes
<1> HIDE DEF said
<1> QED
  BY <1>1, <1>5, <1>6, InboundKeepsShape

\* A pack that links a ship links one repository, so that its tags are keys.
LEMMA PackIsKeyed ==
  ASSUME NEW fs, \A f \in FactsOf(fs) : Shaped(f, PackShapes), ShipsOf(fs) # {}
  PROVE  Told(fs) \subseteq ReleaseKeys(fs)
<1> DEFINE linked == {f.url = "foreign" : f \in {g \in FactsOf(fs) : g.url \in TryableUrls}}
<1>1. \A f \in FactsOf(fs) : f.url \in {"release", "pull", "readme", "none"}
  BY DEF Shaped, PackShapes
<1>2. PICK f \in FactsOf(fs) : f.url \in ShipUrls
  BY DEF ShipsOf, Artifacts, Artifact, PackShip
<1>3. linked = {FALSE}
  BY <1>1, <1>2 DEF TryableUrls
<1>4. Cardinality(linked) = 1
  BY <1>3, FS_Singleton
<1> QED
  BY <1>4 DEF ReleaseKeys, Told

LEMMA EarTellsNone ==
  ASSUME NEW fs, \A f \in FactsOf(fs) : Shaped(f, EarShapes)
  PROVE  Told(fs) = {}
  BY DEF Shaped, EarShapes, Told

------------------------------------------------------------------------------
(* A release is drafted once *)

\* An ingested brief that names a tag links one repository.
IngestsKeyed == \A brief \in Ingests : Told(brief.b.facts) \subseteq ReleaseKeys(brief.b.facts)

Keys(d) == ReleaseKeys(briefs[drafts[d].brief].b.facts)
PostsInv == IsList(site.posts)
ToldInv == \A i \in DOMAIN briefs : Told(briefs[i].b.facts) \subseteq ReleaseKeys(briefs[i].b.facts)
OnceInv ==
  /\ \A d \in DOMAIN drafts : ~briefs[drafts[d].brief].pending
  /\ \A d, e \in DOMAIN drafts : d # e => Keys(d) \cap Keys(e) = {}
KeyInv == LookInv /\ PostsInv /\ ToldInv /\ OnceInv

LEMMA AdmissionKeepsKeys ==
  ASSUME KeyInv, NEW packed, NEW source, NEW deaf, Row(Stored(packed, source, deaf)),
         Admitted(packed, source, deaf), UNCHANGED <<site, drafts>>,
         Told(packed.b.facts) \subseteq ReleaseKeys(packed.b.facts)
  PROVE  KeyInv'
<1> DEFINE row == Stored(packed, source, deaf)
<1>1. LookInv'
  BY AdmissionKeeps DEF KeyInv
<1>2. /\ DOMAIN briefs \subseteq DOMAIN briefs'
      /\ \A i \in DOMAIN briefs : briefs'[i] = briefs[i]
      /\ \A i \in DOMAIN briefs' : i \in DOMAIN briefs \/ briefs'[i] = row
  BY Appended DEF KeyInv, LookInv, BriefsInv, Admitted
<1>3. row.b = packed.b
  BY DEF Stored
<1> HIDE DEF row
<1>4. ToldInv'
  BY <1>2, <1>3 DEF KeyInv, ToldInv
<1>5. \A d \in DOMAIN drafts : drafts'[d] = drafts[d] /\ briefs'[drafts[d].brief] = briefs[drafts[d].brief]
  BY <1>2 DEF KeyInv, LookInv, DraftsInv, Fits
<1>6. OnceInv'
  BY <1>5 DEF KeyInv, OnceInv, Keys
<1> QED
  BY <1>1, <1>4, <1>6 DEF KeyInv, PostsInv

LEMMA ListenKeepsKeys ==
  ASSUME KeyInv, NEW deaf, Listen(deaf)
  PROVE  KeyInv'
<1> DEFINE packed == FeedbackBrief(site, week, deaf)
<1>1. site' = site /\ drafts' = drafts
  BY DEF Listen
<1>2. CASE UNCHANGED briefs
  BY <1>1, <1>2, Unchanged DEF KeyInv, PostsInv, ToldInv, OnceInv, Keys
<1>3. CASE briefs' # briefs
  <2>1. ~FeedbackSilent(site, week, deaf) /\ Admitted(packed, "feedback", deaf)
    BY <1>3 DEF Listen
  <2>2. packed.b.facts = CommentFacts(site, week, deaf)
    BY DEF FeedbackBrief
  <2>3. PICK S : site.posts \in Seq(S)
    BY DEF KeyInv, PostsInv, IsList
  <2> HIDE DEF packed
  <2>4. \A f \in FactsOf(packed.b.facts) : Shaped(f, EarShapes)
    BY <2>2, <2>3, EarIsShaped
  <2>5. Told(packed.b.facts) \subseteq ReleaseKeys(packed.b.facts)
    BY <2>4, EarTellsNone
  <2>6. Row(Stored(packed, "feedback", deaf))
    BY <2>1, SeenByEar DEF KeyInv, LookInv, packed
  <2> QED
    BY <1>1, <2>1, <2>5, <2>6, AdmissionKeepsKeys
<1> QED
  BY <1>2, <1>3

LEMMA LookKeepsKeys ==
  ASSUME KeyInv, NEW deaf, Look(deaf)
  PROVE  KeyInv'
<1> DEFINE packed == PackedBrief(site, week, deaf)
<1>1. site' = site /\ drafts' = drafts
  BY DEF Look
<1>2. CASE UNCHANGED briefs
  BY <1>1, <1>2, Unchanged DEF KeyInv, PostsInv, ToldInv, OnceInv, Keys
<1>3. CASE briefs' # briefs
  <2>1. /\ ~SurveySilent(site, week, deaf) /\ ~PackSilent(site, week, deaf)
        /\ Admitted(packed, "scan", deaf)
    BY <1>3 DEF Look
  <2>2. packed.b.facts = PackedFacts(site, week, deaf)
    BY DEF PackedBrief
  <2>3. PICK S : site.posts \in Seq(S)
    BY DEF KeyInv, PostsInv, IsList
  <2>4. ShipsOf(PackedFacts(site, week, deaf)) # {}
    BY <2>1 DEF PackSilent
  <2> HIDE DEF packed
  <2>5. \A f \in FactsOf(packed.b.facts) : Shaped(f, PackShapes)
    BY <2>2, <2>3, PackIsShaped
  <2>6. Told(packed.b.facts) \subseteq ReleaseKeys(packed.b.facts)
    BY <2>2, <2>4, <2>5, PackIsKeyed
  <2>7. Row(Stored(packed, "scan", deaf))
    BY <2>1, SeenByLook DEF KeyInv, LookInv, packed
  <2> QED
    BY <1>1, <2>1, <2>6, <2>7, AdmissionKeepsKeys
<1> QED
  BY <1>2, <1>3

\* The draft that is written tells no release of another brief.
LEMMA ScoreKeepsKeys ==
  ASSUME KeyInv, ScoreNext
  PROVE  KeyInv'
<1>1. PICK i \in Pending :
        LET draft == ApplyBrief(briefs[i].b, Profile, LivingStack).draft
            key == DraftKey(draft, briefs[i].b.facts)
        IN  /\ briefs' = [briefs EXCEPT ![i].pending = FALSE]
            /\ \/ drafts' = drafts
               \/ ~Repeated(i, draft)
                    /\ drafts' = Append(drafts, [brief |-> i, draft |-> draft, at |-> week,
                                                 held |-> FALSE, key |-> key])
  BY DEF ScoreNext, Queue
<1> DEFINE draft == ApplyBrief(briefs[i].b, Profile, LivingStack).draft
           new == [brief |-> i, draft |-> draft, at |-> week, held |-> FALSE,
                   key |-> DraftKey(draft, briefs[i].b.facts)]
           done == [briefs[i] EXCEPT !.pending = FALSE]
<1>2. /\ i \in DOMAIN briefs /\ briefs[i].pending /\ site' = site
      /\ briefs' = [briefs EXCEPT ![i] = done] /\ new.brief = i
  BY <1>1 DEF ScoreNext, Pending
<1>3. done.b = briefs[i].b /\ ~done.pending
  BY <1>2 DEF KeyInv, LookInv, BriefsInv, Row
<1>4. /\ DOMAIN briefs' = DOMAIN briefs
      /\ \A k \in DOMAIN briefs : briefs'[k] = IF k = i THEN done ELSE briefs[k]
  BY <1>2, Replaced DEF KeyInv, LookInv, BriefsInv
<1>5. \/ drafts' = drafts
      \/ drafts' = Append(drafts, new) /\ ~Repeated(i, draft)
  BY <1>1
<1>6. LookInv'
  BY ScoreKeeps DEF KeyInv
<1> HIDE DEF done, new, draft
<1>7. \A k \in DOMAIN briefs : briefs'[k].b = briefs[k].b
  BY <1>3, <1>4
<1>8. ToldInv'
  BY <1>4, <1>7 DEF KeyInv, ToldInv
<1>9. \A d \in DOMAIN drafts :
        /\ drafts[d].brief \in DOMAIN briefs /\ drafts[d].brief # i
        /\ briefs'[drafts[d].brief] = briefs[drafts[d].brief]
  BY <1>2, <1>4 DEF KeyInv, LookInv, DraftsInv, OnceInv, Fits
<1>10. OnceInv'
  <2>1. CASE drafts' = drafts
    BY <1>9, <2>1 DEF KeyInv, OnceInv, Keys
  <2>2. CASE drafts' = Append(drafts, new) /\ ~Repeated(i, draft)
    <3>1. /\ \A d \in DOMAIN drafts : drafts'[d] = drafts[d]
          /\ \A d \in DOMAIN drafts' : d \in DOMAIN drafts \/ drafts'[d] = new
          /\ \A d, e \in DOMAIN drafts' : d \in DOMAIN drafts \/ e \in DOMAIN drafts \/ d = e
      BY <2>2, Appended DEF KeyInv, LookInv, DraftsInv
    <3>2. \A k \in DOMAIN briefs \ {i} : ReleaseKeys(briefs[k].b.facts) \cap ReleaseKeys(briefs[i].b.facts) = {}
      BY <2>2 DEF Repeated
    <3>3. \A d \in DOMAIN drafts : Keys(d)' = Keys(d) /\ Keys(d) \cap ReleaseKeys(briefs[i].b.facts) = {}
      BY <1>9, <3>1, <3>2 DEF Keys
    <3>4. \A d \in DOMAIN drafts' : d \notin DOMAIN drafts => Keys(d)' = ReleaseKeys(briefs[i].b.facts)
      BY <1>2, <1>7, <3>1 DEF Keys
    <3>5. \A d \in DOMAIN drafts' : ~briefs'[drafts'[d].brief].pending
      BY <1>2, <1>3, <1>4, <1>9, <3>1 DEF KeyInv, OnceInv
    <3>6. \A d, e \in DOMAIN drafts' : d # e => Keys(d)' \cap Keys(e)' = {}
      BY <3>1, <3>3, <3>4 DEF KeyInv, OnceInv
    <3> QED
      BY <3>5, <3>6 DEF OnceInv
  <2> QED
    BY <1>5, <2>1, <2>2
<1> QED
  BY <1>2, <1>6, <1>8, <1>10 DEF KeyInv, PostsInv

LEMMA HoldKeepsKeys ==
  ASSUME KeyInv, NEW d, Hold(d)
  PROVE  KeyInv'
<1> DEFINE held == [drafts[d] EXCEPT !.held = TRUE]
<1>1. /\ site' = site /\ briefs' = briefs /\ d \in DOMAIN drafts
      /\ drafts' = [drafts EXCEPT ![d] = held]
  BY DEF Hold
<1>2. held.brief = drafts[d].brief
  BY <1>1 DEF KeyInv, LookInv, DraftsInv, Fits
<1> HIDE DEF held
<1>3. DOMAIN drafts' = DOMAIN drafts /\ \A e \in DOMAIN drafts : drafts'[e].brief = drafts[e].brief
  BY <1>1, <1>2, Replaced DEF KeyInv, LookInv, DraftsInv
<1>4. OnceInv'
  BY <1>1, <1>3 DEF KeyInv, OnceInv, Keys
<1> QED
  BY <1>1, <1>4, HoldKeeps DEF KeyInv, PostsInv, ToldInv

LEMMA InitKeys == Init => KeyInv
<1> SUFFICES ASSUME Init PROVE KeyInv
  OBVIOUS
<1>1. LookInv
  BY InitLook
<1>2. PostsInv
  BY SiteAssumption DEF Init, PostsInv, IsList
<1>3. ToldInv /\ OnceInv
  BY DEF Init, ToldInv, OnceInv
<1> QED
  BY <1>1, <1>2, <1>3 DEF KeyInv

LEMMA StepKeys ==
  ASSUME IngestsKeyed
  PROVE  KeyInv /\ [Next]_vars => KeyInv'
<1> SUFFICES ASSUME KeyInv, [Next]_vars PROVE KeyInv'
  OBVIOUS
<1>1. LookInv'
  BY StepLook DEF KeyInv
<1>2. ASSUME UNCHANGED <<briefs, drafts>>, PostsInv' PROVE KeyInv'
  BY <1>1, <1>2 DEF KeyInv, ToldInv, OnceInv, Keys
<1>3. ASSUME NEW offer \in Offers, Post(offer) PROVE KeyInv'
  <2>1. PICK p : site' = [site EXCEPT !.posts = Append(site.posts, p)]
    BY <1>3 DEF Post
  <2>2. IsList(Append(site.posts, p))
    BY Appended DEF KeyInv, PostsInv
  <2>3. PostsInv'
    BY <2>1, <2>2 DEF KeyInv, LookInv, SiteInv, PostsInv
  <2> QED
    BY <1>2, <1>3, <2>3 DEF Post
<1>4. ASSUME NEW home \in Homes, EditReadme(home) PROVE KeyInv'
  BY <1>2, <1>4 DEF EditReadme, KeyInv, LookInv, SiteInv, PostsInv
<1>5. ASSUME NEW flags \in FlagSets, SetFlags(flags) PROVE KeyInv'
  BY <1>2, <1>5 DEF SetFlags, KeyInv, LookInv, SiteInv, PostsInv
<1>6. ASSUME NEW deaf \in Outages, Listen(deaf) \/ Look(deaf) PROVE KeyInv'
  BY <1>6, ListenKeepsKeys, LookKeepsKeys
<1>7. CASE NotDue \/ EmitAngle \/ NextMonday \/ UNCHANGED vars
  BY <1>2, <1>7 DEF NotDue, EmitAngle, NextMonday, vars, KeyInv, PostsInv
<1>8. CASE ScoreNext
  BY <1>8, ScoreKeepsKeys
<1>9. ASSUME NEW d \in DOMAIN drafts, Hold(d) PROVE KeyInv'
  BY <1>9, HoldKeepsKeys
<1>10. ASSUME NEW brief \in Ingests, Ingest(brief) PROVE KeyInv'
  <2>1. Row(Stored(brief, "cli", {}))
    BY DEF Row, Stored
  <2> QED
    BY <1>10, <2>1, AdmissionKeepsKeys DEF Ingest, IngestsKeyed
<1> QED
  BY <1>3, <1>4, <1>5, <1>6, <1>7, <1>8, <1>9, <1>10 DEF Next

\* A release is drafted once, under its URL or under its tag, whatever the window,
\* the README, held drafts and ingested briefs let come back
\* (release_story_keys, drop_repeat_release), for any number of Mondays.
THEOREM ReleaseOnce == ASSUME IngestsKeyed PROVE Spec => []ReleaseDraftedOnce
<1>1. KeyInv => ReleaseDraftedOnce
  <2> SUFFICES ASSUME KeyInv, NEW d \in DOMAIN drafts, NEW e \in DOMAIN drafts, d # e
               PROVE  Told(briefs[drafts[d].brief].b.facts) \cap Told(briefs[drafts[e].brief].b.facts) = {}
    BY DEF ReleaseDraftedOnce, Told
  <2>1. \A k \in DOMAIN drafts : Told(briefs[drafts[k].brief].b.facts) \subseteq Keys(k)
    BY DEF KeyInv, LookInv, DraftsInv, Fits, ToldInv, Keys
  <2> QED
    BY <2>1 DEF KeyInv, OnceInv
<1>2. Spec => []KeyInv
  BY InitKeys, StepKeys, PTL DEF Spec
<1> QED
  BY <1>1, <1>2, PTL

------------------------------------------------------------------------------
(* What an admitted pack is past *)

Spelled(home) == (\A p \in FactsOf(home.posts) : Worded(p)) /\ home.about \subseteq Copybook
\* A text that no cut leaves nothing of.
Named(text) ==
  /\ \E name \in text : name \notin Copybook
  /\ "bare" \in text => text \cap {"order", "mention", "oss_claim"} = {}
PackTalk == PackSilences \cup AdmitSilences \cup {"payment_gate", "solicit"} \cup (Links \ Marks)
Packed(b) ==
  LET fs == b.facts IN
  /\ b.kind = "major" /\ b.claims = TRUE /\ b.tryable = TRUE /\ b.preferred = "none"
  /\ fs \in Seq(FactsOf(fs)) /\ 1 \in DOMAIN fs /\ Named(fs[1].text)
  /\ \A f \in FactsOf(fs) : Shaped(f, PackShapes)
  /\ TextShows(fs) \cap PackTalk = {}
  /\ ~Apologised(fs) /\ ShipsOf(fs) # {}

\* A cut leaves the head of a pack, if it has a name.
LEMMA InboundCuts ==
  ASSUME NEW S, NEW fs \in Seq(S), NEW shapes, \A i \in DOMAIN fs : Shaped(fs[i], shapes)
  PROVE  LET short == First(Inbound(fs)) IN
         /\ short \in Seq(FactsOf(short))
         /\ \A f \in FactsOf(short) : \E i \in DOMAIN fs : f.text \subseteq fs[i].text
         /\ 1 \in DOMAIN fs /\ Named(fs[1].text) => 1 \in DOMAIN short /\ Named(short[1].text)
<1> DEFINE cut == [i \in DOMAIN fs |-> [fs[i] EXCEPT !.text = Strip(@, "order")]]
           T == FactsOf(cut)
           left == {i \in DOMAIN cut : cut[i].text # Gone}
           all == Inbound(fs)
           short == First(all)
<1>1. cut \in Seq(T) /\ left \subseteq DOMAIN cut /\ DOMAIN cut = DOMAIN fs
  BY DEF FactsOf
<1>2. \A i \in DOMAIN cut : cut[i].text = Strip(fs[i].text, "order")
  BY DEF Shaped
<1>3. all = Picked(cut, left)
  BY DEF Inbound
<1>4. \A i \in left : cut[i].text \subseteq fs[i].text
  <2>1. ASSUME NEW text, Strip(text, "order") # Gone PROVE Strip(text, "order") \subseteq text
    BY <2>1 DEF Strip
  <2>2. \A i \in left : cut[i].text # Gone
    OBVIOUS
  <2> HIDE DEF left, cut
  <2> QED
    BY <1>1, <1>2, <2>1, <2>2
<1>5. 1 \in DOMAIN fs /\ Named(fs[1].text) => 1 \in left /\ Named(cut[1].text)
  <2> SUFFICES ASSUME 1 \in DOMAIN fs, Named(fs[1].text) PROVE 1 \in left /\ Named(cut[1].text)
    OBVIOUS
  <2>1. cut[1].text = Strip(fs[1].text, "order")
    BY <1>1, <1>2
  <2>2. PICK name \in fs[1].text : name \notin Copybook
    BY DEF Named
  <2>3. "order" \in Copybook /\ Gone \subseteq Copybook
    BY DEF Copybook, Gone, Marks, ShapeMarks
  <2>4. cut[1].text = fs[1].text \ {"order"}
    BY <2>1 DEF Strip, Named
  <2> HIDE DEF cut
  <2>5. name \in cut[1].text /\ cut[1].text # Gone
    BY <2>2, <2>3, <2>4
  <2>6. Named(cut[1].text)
    BY <2>2, <2>4, <2>5 DEF Named
  <2> QED
    BY <1>1, <2>5, <2>6
<1> HIDE DEF cut, left, T
<1>6. /\ all \in Seq(T)
      /\ \A k \in DOMAIN all : \E i \in left : all[k] = cut[i]
      /\ 1 \in left => 1 \in DOMAIN all /\ all[1] = cut[1]
  BY <1>1, <1>3, PickedIsList, PickedHead
<1> HIDE DEF all
<1>7. /\ short \in Seq(T) /\ FactsOf(short) \subseteq FactsOf(all)
      /\ 1 \in DOMAIN all => 1 \in DOMAIN short /\ short[1] = all[1]
  <2>1. MaxFacts \in Nat /\ MaxFacts # 0
    BY MaxFactsAssumption
  <2>2. short \in Seq(T) /\ FactsOf(short) \subseteq FactsOf(all)
    BY <1>6, <2>1, Cut DEF First
  <2>3. 1 \in DOMAIN all => 1 \in DOMAIN short /\ short[1] = all[1]
    BY <1>6, <2>1 DEF First
  <2> QED
    BY <2>2, <2>3
<1> HIDE DEF short
<1>8. short \in Seq(FactsOf(short))
  BY <1>7 DEF FactsOf
<1>9. ASSUME NEW f \in FactsOf(short) PROVE \E i \in DOMAIN fs : f.text \subseteq fs[i].text
  <2>1. PICK k \in DOMAIN all : f = all[k]
    BY <1>7 DEF FactsOf
  <2>2. PICK i \in left : all[k] = cut[i]
    BY <1>6
  <2>3. i \in DOMAIN fs /\ cut[i].text \subseteq fs[i].text
    BY <1>1, <1>4
  <2> QED
    BY <2>1, <2>2, <2>3
<1> QED
  BY <1>5, <1>6, <1>7, <1>8, <1>9 DEF short, all

LEMMA MakingsAreNamed ==
  ASSUME NEW home, Spelled(home), NEW deaf
  PROVE  /\ \A f \in Makings(home, deaf) : f.text \cap (Links \ Marks) = {}
         /\ \A f \in Heads(home) : Named(f.text)
<1>1. \A p : p \in FactsOf(home.posts) => p.words \cap (Links \ Marks) = {} /\ p.of \notin Links
  BY DEF Spelled, Worded, Copybook, Links, Chain
<1>2. home.about \cap (Links \ Marks) = {}
  BY DEF Spelled, Copybook, Links, Chain
<1>3. {"merged_pr", "readme_install"} \subseteq Marks /\ {"merged_pr", "bare", "mention", "order", "oss_claim"} \subseteq Copybook
  BY DEF Copybook, Marks, LookMarks, BaitMarks, TalkMarks, ShapeMarks
<1>4. \A f \in Makings(home, deaf) : f.text \cap (Links \ Marks) = {}
  BY <1>1, <1>2, <1>3 DEF Makings, Heads, Published, ReleaseFact, PullFact, TagFact, ReadmeFact, Fact
<1>5. ASSUME NEW p \in FactsOf(home.posts), p.what \in {"release", "pull"},
             NEW text, text \in {p.words \cup {p.of}, p.words \cup {"merged_pr", p.of}}
      PROVE  Named(text)
  <2>1. /\ p.of \notin Copybook
        /\ "bare" \in p.words => p.words \cap {"order", "mention", "oss_claim"} = {}
    BY <1>5 DEF Spelled, Worded
  <2> QED
    BY <1>3, <1>5, <2>1 DEF Named
<1>6. \A f \in Heads(home) : Named(f.text)
  BY <1>5 DEF Heads, Published, ReleaseFact, PullFact, Fact
<1> QED
  BY <1>4, <1>6

LEMMA LookPacks ==
  ASSUME NEW home, Spelled(home), IsList(home.posts), NEW monday, NEW deaf,
         ~PackSilent(home, monday, deaf), Admissible(PackedFacts(home, monday, deaf))
  PROVE  Packed(PackedBrief(home, monday, deaf).b)
<1> DEFINE fs == PackedFacts(home, monday, deaf)
           F == Makings(home, deaf)
<1>1. PICK S : home.posts \in Seq(S)
  BY DEF IsList
<1>2. PICK all \in Seq(F) :
        /\ fs = First(Inbound(all))
        /\ Releases(home, monday) # <<>> \/ Headlines(home, monday) # <<>>
             => 1 \in DOMAIN all /\ all[1] \in Heads(home)
  BY <1>1, PackIsMade
<1>3. \A f \in F : Shaped(f, PackShapes)
  BY DEF Makings, Heads, ReleaseFact, PullFact, TagFact, ReadmeFact, Fact, Shaped, PackShapes
<1>4. \A i \in DOMAIN all : all[i] \in F
  OBVIOUS
<1>5. 1 \in DOMAIN all /\ Named(all[1].text)
  BY <1>2, MakingsAreNamed DEF PackSilent
<1>6. \A f \in F : f.text \cap (Links \ Marks) = {}
  BY MakingsAreNamed
<1>7. \A f \in FactsOf(fs) : Shaped(f, PackShapes)
  BY <1>1, PackIsShaped
<1>8. /\ PackedBrief(home, monday, deaf).b.facts = fs /\ PackedBrief(home, monday, deaf).b.kind = "major"
      /\ PackedBrief(home, monday, deaf).b.claims = TRUE /\ PackedBrief(home, monday, deaf).b.tryable = TRUE
      /\ PackedBrief(home, monday, deaf).b.preferred = "none"
  BY DEF PackedBrief
<1>9. /\ TextShows(fs) \cap (PackSilences \cup AdmitSilences \cup {"payment_gate", "solicit"}) = {}
      /\ ~Apologised(fs) /\ ShipsOf(fs) # {}
  BY DEF PackSilent, Admissible
<1> HIDE DEF F, fs
<1>10. \A i \in DOMAIN all : Shaped(all[i], PackShapes)
  BY <1>3, <1>4
<1>11. /\ fs \in Seq(FactsOf(fs)) /\ 1 \in DOMAIN fs /\ Named(fs[1].text)
       /\ \A f \in FactsOf(fs) : \E i \in DOMAIN all : f.text \subseteq all[i].text
  BY <1>2, <1>5, <1>10, InboundCuts
<1>12. TextShows(fs) \cap (Links \ Marks) = {}
  BY <1>4, <1>6, <1>11 DEF TextShows
<1>13. TextShows(fs) \cap PackTalk = {}
  BY <1>9, <1>12 DEF PackTalk
<1> QED
  BY <1>7, <1>8, <1>9, <1>11, <1>13 DEF Packed

\* What facts alone may burn an admitted pack (Burns).
BurntFacts(fs) ==
  \/ TextShows(fs) \cap BurntWords # {}
  \/ fs[1].text \cap BurntTitles # {}
  \/ FakeOss(TextShows(fs))
  \/ \A f \in FactsOf(fs) : "commit_noise" \in f.text
  \/ BotBumpWeek(fs) \/ DeadStarStory(fs)
  \/ BotBump(ToldTexts(fs)) \/ DeadStars(ToldTexts(fs))
  \/ EmptyRelease(fs)

LEMMA UnsoundIsBurnt ==
  Unsound \subseteq PackTalk \cup BurntWords
<1>1. Unsound \cap Marks \subseteq PackSilences \cup AdmitSilences \cup {"payment_gate", "solicit"} \cup BurntWords
  BY DEF Unsound, Links, Chain, NotDressed, NeverQuoted, NotOwnWords, PackSilences, AdmitSilences, BurntWords,
         Marks, NotYet, NotReachable, NotASite, NotAShip, NotAStory, NotNeeded, NotOurs, LookMarks, StageMarks,
         TalkMarks, BaitMarks, HostMarks, ShapeMarks, CostumeMarks
<1>2. Unsound \ Links \subseteq Marks
  BY DEF Unsound, NotDressed, NeverQuoted, NotOwnWords,
         Marks, NotYet, NotReachable, NotASite, NotAShip, NotAStory, NotNeeded, NotOurs, LookMarks, StageMarks,
         TalkMarks, BaitMarks, HostMarks, ShapeMarks, CostumeMarks
<1> QED
  BY <1>1, <1>2 DEF PackTalk

\* No pack holds a stub or a reply, so that all of it may be worn.
LEMMA PackIsWearable ==
  ASSUME NEW b, Packed(b), ~BurntFacts(b.facts)
  PROVE  LET fs == b.facts IN
         /\ Shows(fs) = TextShows(fs) /\ Shows(fs) \cap Unsound = {}
         /\ \A f \in FactsOf(fs) : ~IsArtifactStub(f) /\ ~IsReplyFact(f) /\ ~IsParentFact(f)
         /\ Wearable(fs) \in Seq(FactsOf(fs)) /\ FactsOf(Wearable(fs)) = FactsOf(fs) /\ Wearable(fs)[1] = fs[1]
<1> DEFINE fs == b.facts
           places == {i \in DOMAIN fs : ~IsArtifactStub(fs[i])}
           worn == Wearable(fs)
<1>1. /\ \A f \in FactsOf(fs) : Shaped(f, PackShapes)
      /\ fs \in Seq(FactsOf(fs)) /\ 1 \in DOMAIN fs /\ TextShows(fs) \cap PackTalk = {}
      /\ TextShows(fs) \cap BurntWords = {}
  BY DEF Packed, BurntFacts
<1>2. \A f \in FactsOf(fs) : /\ f.kind \in {"release", "pull", "tag", "readme", "signal"}
                             /\ f.url \in {"release", "pull", "readme", "none"}
  BY <1>1 DEF Shaped, PackShapes
<1>3. \A f \in FactsOf(fs) : UrlMarks(f.url) = {}
  BY <1>2 DEF UrlMarks
<1>4. Shows(fs) = TextShows(fs)
  BY <1>3 DEF Shows, TextShows
<1>5. Shows(fs) \cap Unsound = {}
  BY <1>1, <1>4, UnsoundIsBurnt
<1>6. \A f \in FactsOf(fs) : "reply" \notin f.text
  BY <1>1 DEF TextShows, BurntWords
<1>7. \A f \in FactsOf(fs) : ~IsArtifactStub(f) /\ ~IsReplyFact(f) /\ ~IsParentFact(f)
  BY <1>2, <1>6 DEF IsArtifactStub, IsReplyFact, IsParentFact, ParentUrls
<1>8. places = DOMAIN fs /\ worn = Picked(fs, places)
  BY <1>7 DEF FactsOf, Wearable
<1> HIDE DEF places, worn
<1>9. /\ worn \in Seq(FactsOf(fs)) /\ worn[1] = fs[1]
      /\ \A k \in DOMAIN worn : \E i \in places : worn[k] = fs[i]
      /\ \A i \in places : \E k \in DOMAIN worn : worn[k] = fs[i]
  BY <1>1, <1>8, PickedIsList, PickedHead
<1>10. FactsOf(worn) = FactsOf(fs)
  BY <1>8, <1>9 DEF FactsOf
<1> QED
  BY <1>4, <1>5, <1>7, <1>9, <1>10 DEF worn

\* The head of a pack is worn first, and no title of it ends the draft.
LEMMA PackIsHeaded ==
  ASSUME NEW b, Packed(b), ~BurntFacts(b.facts)
  PROVE  LET fs == b.facts IN
         /\ Worn(fs) # <<>> /\ Worn(fs)[1] \cap Titles = {}
         /\ fs[1].text \cap Titles = {}
<1> DEFINE fs == b.facts
           kept == {i \in DOMAIN fs : /\ ~IsArtifactStub(fs[i]) /\ ~IsParentFact(fs[i])
                                      /\ WornText(fs[i], fs) # Gone}
           worn == WornFacts(fs)
<1>1. /\ fs \in Seq(FactsOf(fs)) /\ 1 \in DOMAIN fs /\ Named(fs[1].text)
      /\ fs[1].text \cap BurntTitles = {} /\ TextShows(fs) \cap BurntWords = {}
  BY DEF Packed, BurntFacts
<1>2. Titles \subseteq BurntTitles
  BY DEF Titles, BurntTitles, LongTitle
<1>3. "mention" \notin fs[1].text
  <2>1. fs[1] \in FactsOf(fs) /\ "mention" \in BurntWords
    BY <1>1 DEF FactsOf, BurntWords
  <2> QED
    BY <1>1, <2>1 DEF TextShows
<1>4. WornText(fs[1], fs) \in {fs[1].text, fs[1].text \ {"oss_claim"}}
  BY <1>1, <1>3 DEF WornText, Strip, Named
<1>5. WornText(fs[1], fs) # Gone
  <2>1. PICK name \in fs[1].text : name \notin Copybook
    BY <1>1 DEF Named
  <2>2. Gone \subseteq Copybook /\ "oss_claim" \in Copybook
    BY DEF Copybook, Gone, Marks, ShapeMarks, TalkMarks
  <2>3. name \in WornText(fs[1], fs)
    BY <1>4, <2>1, <2>2
  <2> QED
    BY <2>1, <2>2, <2>3
<1>6. fs[1] \in FactsOf(fs) /\ ~IsArtifactStub(fs[1]) /\ ~IsParentFact(fs[1])
  <2>1. fs[1] \in FactsOf(fs)
    BY <1>1 DEF FactsOf
  <2> QED
    BY <2>1, PackIsWearable
<1>7. worn = Picked(fs, kept) /\ kept \subseteq DOMAIN fs /\ 1 \in kept
  BY <1>1, <1>5, <1>6 DEF WornFacts
<1> HIDE DEF kept, worn
<1>8. worn \in Seq(FactsOf(fs)) /\ 1 \in DOMAIN worn /\ worn[1] = fs[1]
  BY <1>1, <1>7, PickedIsList, PickedHead
<1>9. Worn(fs) = [i \in DOMAIN worn |-> WornText(worn[i], fs)]
  BY DEF Worn, worn
<1>10. 1 \in DOMAIN Worn(fs) /\ Worn(fs)[1] = WornText(fs[1], fs)
  BY <1>8, <1>9
<1> QED
  BY <1>1, <1>2, <1>4, <1>10

LEMMA PackedIsSound ==
  ASSUME NEW b, Packed(b), ~BurntFacts(b.facts)
  PROVE  SoundShip(b)
<1> DEFINE fs == b.facts
           worn == Wearable(fs)
<1>1. /\ b.kind = "major" /\ b.claims /\ b.tryable /\ b.preferred = "none"
      /\ fs \in Seq(FactsOf(fs)) /\ 1 \in DOMAIN fs /\ ~Apologised(fs) /\ ShipsOf(fs) # {}
  BY DEF Packed
<1>2. /\ ~FakeOss(TextShows(fs)) /\ ~\A f \in FactsOf(fs) : "commit_noise" \in f.text
      /\ ~BotBumpWeek(fs) /\ ~DeadStarStory(fs) /\ ~EmptyRelease(fs)
      /\ ~BotBump(ToldTexts(fs)) /\ ~DeadStars(ToldTexts(fs))
  BY DEF BurntFacts
<1>3. /\ Shows(fs) = TextShows(fs) /\ Shows(fs) \cap Unsound = {}
      /\ \A f \in FactsOf(fs) : ~IsReplyFact(f)
      /\ FactsOf(worn) = FactsOf(fs) /\ worn[1] = fs[1]
  BY PackIsWearable
<1>4. Worn(fs) # <<>> /\ Worn(fs)[1] \cap Titles = {} /\ fs[1].text \cap Titles = {}
  BY PackIsHeaded
<1>5. HasShip(fs)
  <2>1. PICK f \in FactsOf(fs) : f.url # "none" /\ f.url \in ShipUrls
    BY <1>1 DEF ShipsOf, Artifacts, Artifact, PackShip
  <2> QED
    BY <2>1 DEF HasShip, Urls
<1>6. ~ForeignWave(fs)
  BY <1>3 DEF ForeignWave
<1>7. ~ApologyAlone(fs)
  <2>1. PackShip \subseteq ShipUrls
    BY DEF PackShip
  <2> QED
    BY <1>1, <1>3, <2>1 DEF Apologised, ApologyAlone
<1>8. \A kinds : Structured(worn, kinds) = Structured(fs, kinds)
  BY <1>3 DEF Structured
<1> HIDE DEF worn, fs
<1>9. ~BotBumpWeek(worn) /\ ~DeadStarStory(worn)
  BY <1>2, <1>8 DEF BotBumpWeek, DeadStarStory
<1>10. fs # <<>>
  BY <1>1
<1>11. \A story \in {fs, worn} : ~BotBumpWeek(story) /\ ~DeadStarStory(story)
  BY <1>2, <1>9
<1>12. worn # <<>> => worn[1].text \cap Titles = {}
  BY <1>3, <1>4
<1> QED
  BY <1>1, <1>2, <1>3, <1>4, <1>5, <1>6, <1>7, <1>10, <1>11, <1>12 DEF SoundShip, Proven, worn, fs

------------------------------------------------------------------------------
(* What was scanned is drafted *)

Scanned(i) == briefs[i].source = "scan"
FactsInv == \A i \in DOMAIN briefs : IsList(briefs[i].b.facts) /\ (Scanned(i) => Packed(briefs[i].b))
\* A look admits what no brief before it has told.
Apart(fs, gs) == Artifacts(fs) \cap Artifacts(gs) = {} /\ ReleaseKeys(fs) \cap ReleaseKeys(gs) = {}
ApartInv ==
  \A i, k \in DOMAIN briefs : k < i /\ Scanned(i) => Apart(briefs[k].b.facts, briefs[i].b.facts)
\* Briefs are scored in the order of their admission.
OrderInv ==
  /\ \A i, k \in DOMAIN briefs : k < i /\ briefs[k].pending => briefs[i].pending
  /\ \A d \in DOMAIN drafts : ~briefs[drafts[d].brief].pending
KeyedInv == \A d \in DOMAIN drafts : drafts[d].key = DraftKey(drafts[d].draft, briefs[drafts[d].brief].b.facts)
\* A scanned brief is scored before the next Monday and before any other, with
\* no window alive but one that a hold uncovered.
StackInv ==
  \A i \in DOMAIN briefs : Scanned(i) /\ briefs[i].pending =>
    /\ step = "looked" /\ briefs[i].at = week
    /\ \A k \in DOMAIN briefs : k < i => ~briefs[k].pending
    /\ LivingStack = "none" \/ StackUncovered(i)
VoiceInv ==
  /\ LookInv /\ PostsInv /\ Spelled(site)
  /\ FactsInv /\ ApartInv /\ OrderInv /\ KeyedInv /\ StackInv
  /\ ScannedSpeaks

\* What no step takes back.
Grown ==
  /\ DOMAIN briefs \subseteq DOMAIN briefs' /\ DOMAIN drafts \subseteq DOMAIN drafts'
  /\ \A i \in DOMAIN briefs : briefs'[i].b = briefs[i].b /\ briefs'[i].at = briefs[i].at
  /\ \A d \in DOMAIN drafts :
       /\ drafts'[d].brief = drafts[d].brief /\ drafts'[d].draft = drafts[d].draft
       /\ drafts'[d].at = drafts[d].at /\ (drafts[d].held => drafts'[d].held)

LEMMA BurnsFor ==
  ASSUME NEW i
  PROVE  Burns(i) <=> \/ BurntFacts(briefs[i].b.facts)
                      \/ \E k \in DOMAIN briefs :
                           k > i /\ ReleaseKeys(briefs[k].b.facts) \cap ReleaseKeys(briefs[i].b.facts) # {}
                      \/ StackUncovered(i)
  BY DEF Burns, BurntFacts, ToldTexts

LEMMA UncoveredStays ==
  ASSUME Grown, NEW i \in DOMAIN briefs, StackUncovered(i)
  PROVE  StackUncovered(i)'
<1>1. PICK d \in DOMAIN drafts, e \in DOMAIN drafts :
        /\ d < e /\ drafts[e].brief < i
        /\ {drafts[d].draft.arena, drafts[e].draft.arena} \subseteq StackArenas
        /\ drafts[d].held /\ drafts[d].at # drafts[e].at /\ drafts[e].at = briefs[i].at
  BY DEF StackUncovered
<1>2. /\ d \in DOMAIN drafts' /\ e \in DOMAIN drafts' /\ briefs'[i].at = briefs[i].at
      /\ drafts'[d].draft = drafts[d].draft /\ drafts'[d].at = drafts[d].at /\ drafts'[d].held
      /\ drafts'[e].draft = drafts[e].draft /\ drafts'[e].at = drafts[e].at /\ drafts'[e].brief = drafts[e].brief
  BY <1>1 DEF Grown
<1> QED
  BY <1>1, <1>2 DEF StackUncovered

LEMMA BurnsStays ==
  ASSUME Grown, NEW i \in DOMAIN briefs, Burns(i)
  PROVE  Burns(i)'
<1>1. briefs'[i].b = briefs[i].b
  BY DEF Grown
<1>2. CASE BurntFacts(briefs[i].b.facts)
  <2>1. BurntFacts(briefs'[i].b.facts)
    BY <1>1, <1>2
  <2> QED
    BY <2>1 DEF Burns, BurntFacts, ToldTexts
<1>3. CASE \E k \in DOMAIN briefs :
             k > i /\ ReleaseKeys(briefs[k].b.facts) \cap ReleaseKeys(briefs[i].b.facts) # {}
  <2>1. \E k \in DOMAIN briefs' :
          k > i /\ ReleaseKeys(briefs'[k].b.facts) \cap ReleaseKeys(briefs'[i].b.facts) # {}
    BY <1>1, <1>3 DEF Grown
  <2> QED
    BY <2>1 DEF Burns
<1>4. CASE StackUncovered(i)
  <2>1. StackUncovered(i)'
    BY <1>4, UncoveredStays
  <2> QED
    BY <2>1 DEF Burns
<1> QED
  BY <1>2, <1>3, <1>4, BurnsFor

LEMMA DraftedStays ==
  ASSUME Grown, NEW i, Drafted(i)
  PROVE  Drafted(i)'
  BY DEF Grown, Drafted

\* The window is that of the oldest open draft on a stack.
IsStacked(d) == ~drafts[d].held /\ drafts[d].draft.arena \in StackArenas
LEMMA LivingStackIs ==
  ASSUME IsList(drafts)
  PROVE  LivingStack # "none" <=>
           \E e \in DOMAIN drafts : /\ IsStacked(e) /\ drafts[e].at = week
                                    /\ \A d \in DOMAIN drafts : IsStacked(d) => e <= d
<1> DEFINE open == {d \in DOMAIN drafts : IsStacked(d)}
           Oldest(e) == e \in open /\ \A d \in open : e <= d
           first == CHOOSE e \in open : \A d \in open : e <= d
           i == IF open = {} THEN 0 ELSE first
<1>1. LivingStack = IF i # 0 /\ drafts[i].at = week THEN drafts[i].draft.arena ELSE "none"
  BY DEF LivingStack, FirstWhere, IsOpen, IsStacked
<1>2. PICK S : drafts \in Seq(S)
  BY DEF IsList
<1>3. open \in SUBSET Nat /\ 0 \notin open /\ \A d \in open : drafts[d].draft.arena # "none"
  BY <1>2 DEF IsStacked, StackArenas
<1> HIDE DEF open
<1>4. open # {} => Oldest(first)
  <2> SUFFICES ASSUME open # {} PROVE Oldest(first)
    OBVIOUS
  <2>1. \E e \in open : \A d \in open : e <= d
    BY <1>3, Least
  <2> QED
    BY <2>1
<1> HIDE DEF first
<1>5. \A e : Oldest(e) => open # {} /\ e = first
  <2> SUFFICES ASSUME NEW e, Oldest(e) PROVE open # {} /\ e = first
    OBVIOUS
  <2>1. e \in Nat /\ first \in Nat /\ e <= first /\ first <= e
    BY <1>3, <1>4
  <2> QED
    BY <2>1
<1>6. LivingStack # "none" <=> open # {} /\ drafts[first].at = week
  BY <1>1, <1>3, <1>4
<1>7. LivingStack # "none" <=> \E e \in open : Oldest(e) /\ drafts[e].at = week
  BY <1>4, <1>5, <1>6
<1> QED
  BY <1>7 DEF open

LEMMA AdmissionKeepsVoice ==
  ASSUME VoiceInv, NEW packed, NEW source, NEW deaf, Row(Stored(packed, source, deaf)),
         Admitted(packed, source, deaf), UNCHANGED <<week, site, drafts>>,
         IsList(packed.b.facts),
         source = "scan" => /\ Packed(packed.b) /\ Pending = {} /\ LivingStack = "none" /\ step' = "looked"
                            /\ \A k \in DOMAIN briefs : Apart(briefs[k].b.facts, packed.b.facts),
         step' = step \/ \A i \in DOMAIN briefs : ~(Scanned(i) /\ briefs[i].pending)
  PROVE  VoiceInv'
<1> DEFINE row == Stored(packed, source, deaf)
           n == Len(briefs) + 1
<1>1. LookInv'
  BY AdmissionKeeps DEF VoiceInv
<1>2. PICK S : briefs \in Seq(S)
  BY DEF VoiceInv, LookInv, BriefsInv, IsList
<1>3. /\ DOMAIN briefs = 1..Len(briefs) /\ Len(briefs) \in Nat /\ DOMAIN briefs' = DOMAIN briefs \cup {n}
      /\ n \notin DOMAIN briefs /\ briefs'[n] = row
      /\ \A i \in DOMAIN briefs : i < n /\ ~(n < i) /\ briefs'[i] = briefs[i]
      /\ ~(n < n)
  BY <1>2 DEF Admitted
<1>4. /\ row.b = packed.b /\ row.source = source /\ row.pending = TRUE /\ row.at = week
  BY DEF Stored
<1>5. /\ \A d \in DOMAIN drafts : drafts[d].brief \in DOMAIN briefs
      /\ drafts' = drafts /\ week' = week /\ LivingStack' = LivingStack
  <2>1. \A d \in DOMAIN drafts : drafts[d].brief \in DOMAIN briefs
    BY DEF VoiceInv, LookInv, DraftsInv, Fits
  <2>2. LivingStack' = LivingStack
    BY DEF LivingStack, FirstWhere, IsOpen
  <2> QED
    BY <2>1, <2>2
<1> HIDE DEF n, row
<1>6. Grown
  BY <1>3, <1>5 DEF Grown
<1>7. PostsInv' /\ Spelled(site)'
  BY DEF VoiceInv, PostsInv, Spelled
<1>8. FactsInv'
  BY <1>3, <1>4 DEF VoiceInv, FactsInv, Scanned
<1>9. ApartInv'
  <2>1. \A i, k \in DOMAIN briefs' : k < i => k \in DOMAIN briefs
    BY <1>3
  <2>2. ASSUME NEW i \in DOMAIN briefs', NEW k \in DOMAIN briefs', k < i, briefs'[i].source = "scan"
        PROVE  Apart(briefs'[k].b.facts, briefs'[i].b.facts)
    <3>1. CASE i \in DOMAIN briefs
      BY <1>3, <2>1, <2>2, <3>1 DEF VoiceInv, ApartInv, Scanned
    <3>2. CASE i = n
      BY <1>3, <1>4, <2>1, <2>2, <3>2
    <3> QED
      BY <1>3, <2>2, <3>1, <3>2
  <2> QED
    BY <2>2 DEF ApartInv, Scanned, Apart
<1>10. OrderInv'
  <2>1. \A i, k \in DOMAIN briefs' : k < i => k \in DOMAIN briefs
    BY <1>3
  <2>2. ASSUME NEW i \in DOMAIN briefs', NEW k \in DOMAIN briefs', k < i, briefs'[k].pending
        PROVE  briefs'[i].pending
    BY <1>3, <1>4, <2>1, <2>2 DEF VoiceInv, OrderInv
  <2>3. \A d \in DOMAIN drafts : ~briefs'[drafts[d].brief].pending
    BY <1>3, <1>5 DEF VoiceInv, OrderInv
  <2> QED
    BY <1>5, <2>2, <2>3 DEF OrderInv
<1>11. KeyedInv'
  BY <1>3, <1>5 DEF VoiceInv, KeyedInv
<1>12. StackInv'
  <2> SUFFICES ASSUME NEW i \in DOMAIN briefs', briefs'[i].source = "scan", briefs'[i].pending
               PROVE  /\ step' = "looked" /\ briefs'[i].at = week
                      /\ \A k \in DOMAIN briefs' : k < i => ~briefs'[k].pending
                      /\ LivingStack = "none" \/ StackUncovered(i)'
    BY <1>5 DEF StackInv, Scanned
  <2>1. CASE i \in DOMAIN briefs
    <3>1. Scanned(i) /\ briefs[i].pending
      BY <1>3, <2>1 DEF Scanned
    <3>2. /\ step = "looked" /\ briefs[i].at = week /\ step' = step
          /\ \A k \in DOMAIN briefs : k < i => ~briefs[k].pending
          /\ LivingStack = "none" \/ StackUncovered(i)
      BY <2>1, <3>1 DEF VoiceInv, StackInv
    <3>3. StackUncovered(i) => StackUncovered(i)'
      BY <1>6, <2>1, UncoveredStays
    <3> QED
      BY <1>3, <2>1, <3>2, <3>3
  <2>2. CASE i = n
    <3>1. Pending = {} /\ LivingStack = "none" /\ step' = "looked"
      BY <1>3, <1>4, <2>2
    <3>2. \A k \in DOMAIN briefs : ~briefs[k].pending
      BY <3>1 DEF Pending
    <3>3. /\ briefs'[i] = row /\ row.at = week
          /\ \A k \in DOMAIN briefs' : k < i => k \in DOMAIN briefs
          /\ \A k \in DOMAIN briefs : briefs'[k] = briefs[k]
      BY <1>3, <1>4, <2>2
    <3> QED
      BY <3>1, <3>2, <3>3
  <2> QED
    BY <1>3, <2>1, <2>2
<1>13. ScannedSpeaks'
  <2> SUFFICES ASSUME Profile.voice = "own" /\ Profile.maintainer, NEW i \in DOMAIN briefs',
                      briefs'[i].source = "scan", ~briefs'[i].pending, ~Drafted(i)'
               PROVE  Burns(i)'
    BY DEF ScannedSpeaks
  <2>1. i \in DOMAIN briefs
    BY <1>3, <1>4
  <2>2. ~Drafted(i)
    BY <1>6, DraftedStays
  <2>3. Burns(i)
    BY <1>3, <2>1, <2>2 DEF VoiceInv, ScannedSpeaks
  <2> QED
    BY <1>6, <2>1, <2>3, BurnsStays
<1> QED
  BY <1>1, <1>7, <1>8, <1>9, <1>10, <1>11, <1>12, <1>13 DEF VoiceInv

LEMMA EarIsList ==
  ASSUME NEW home, IsList(home.posts), NEW monday, NEW deaf
  PROVE  IsList(FeedbackBrief(home, monday, deaf).b.facts)
<1> DEFINE posts == home.posts
           heard == {"comment"} \cup (IF "pulls" \in deaf THEN {} ELSE {"review"})
                               \cup (IF "issues" \in deaf THEN {} ELSE {"issue"})
           places == {i \in DOMAIN posts : /\ posts[i].what \in heard /\ monday \in posts[i].seen
                                           /\ "noise" \notin posts[i].words}
           signals == Picked(posts, places)
           said == [i \in DOMAIN signals |-> CommentFact(signals[i])]
<1>1. FeedbackBrief(home, monday, deaf).b.facts = First(Inbound(said))
  BY DEF CommentFacts, FeedbackBrief
<1>2. PICK S : posts \in Seq(S)
  BY DEF IsList
<1>3. places \subseteq DOMAIN posts
  OBVIOUS
<1> HIDE DEF places
<1>4. signals \in Seq(S)
  BY <1>2, <1>3, PickedIsList
<1> DEFINE shapes == {<<f.kind, f.url>> : f \in FactsOf(said)}
<1> HIDE DEF signals
<1>5. said \in Seq(FactsOf(said))
  BY <1>4 DEF FactsOf
<1>6. \A i \in DOMAIN said : Shaped(said[i], shapes)
  BY DEF CommentFact, Fact, Shaped, FactsOf
<1> HIDE DEF said, shapes
<1>7. First(Inbound(said)) \in Seq(FactsOf(First(Inbound(said))))
  BY <1>5, <1>6, InboundCuts
<1> QED
  BY <1>1, <1>7 DEF IsList

LEMMA VoiceUnchanged ==
  ASSUME VoiceInv, UNCHANGED <<site, briefs, drafts>>,
         \/ UNCHANGED <<week, step>>
         \/ \A i \in DOMAIN briefs : ~(Scanned(i) /\ briefs[i].pending)
  PROVE  VoiceInv'
<1>1. LookInv' /\ PostsInv' /\ Spelled(site)'
  BY Unchanged DEF VoiceInv, PostsInv
<1>2. FactsInv' /\ ApartInv' /\ OrderInv' /\ KeyedInv'
  BY DEF VoiceInv, FactsInv, ApartInv, OrderInv, KeyedInv, Scanned
<1>3. StackInv'
  <2>1. CASE UNCHANGED <<week, step>>
    <3>1. LivingStack' = LivingStack /\ \A i : StackUncovered(i)' = StackUncovered(i)
      BY <2>1 DEF LivingStack, FirstWhere, IsOpen, StackUncovered
    <3> QED
      BY <2>1, <3>1 DEF VoiceInv, StackInv, Scanned
  <2>2. CASE \A i \in DOMAIN briefs : ~(Scanned(i) /\ briefs[i].pending)
    BY <2>2 DEF StackInv, Scanned
  <2> QED
    BY <2>1, <2>2
<1>4. Grown
  BY DEF Grown
<1>5. ScannedSpeaks'
  BY <1>4, DraftedStays, BurnsStays DEF VoiceInv, ScannedSpeaks
<1> QED
  BY <1>1, <1>2, <1>3, <1>5 DEF VoiceInv

LEMMA ListenKeepsVoice ==
  ASSUME VoiceInv, NEW deaf, Listen(deaf)
  PROVE  VoiceInv'
<1> DEFINE packed == FeedbackBrief(site, week, deaf)
<1>1. /\ step = "idle" /\ UNCHANGED <<week, site, drafts>>
  BY DEF Listen
<1>2. \A i \in DOMAIN briefs : ~(Scanned(i) /\ briefs[i].pending)
  BY <1>1 DEF VoiceInv, StackInv
<1>3. CASE UNCHANGED briefs
  BY <1>1, <1>2, <1>3, VoiceUnchanged
<1>4. CASE briefs' # briefs
  <2>1. ~FeedbackSilent(site, week, deaf) /\ Admitted(packed, "feedback", deaf)
    BY <1>4 DEF Listen
  <2>2. Row(Stored(packed, "feedback", deaf))
    BY <2>1, SeenByEar DEF VoiceInv, LookInv
  <2>3. IsList(packed.b.facts)
    BY EarIsList DEF VoiceInv, PostsInv
  <2> HIDE DEF packed
  <2> QED
    BY <1>1, <1>2, <2>1, <2>2, <2>3, AdmissionKeepsVoice
<1> QED
  BY <1>3, <1>4

LEMMA LookKeepsVoice ==
  ASSUME VoiceInv, NEW deaf, Look(deaf)
  PROVE  VoiceInv'
<1> DEFINE packed == PackedBrief(site, week, deaf)
           facts == packed.b.facts
<1>1. /\ step = "listened" /\ step' = "looked" /\ UNCHANGED <<week, site, drafts>>
      /\ Pending = {} /\ LivingStack = "none"
  BY DEF Look, Due, OpenStory
<1>2. \A i \in DOMAIN briefs : ~(Scanned(i) /\ briefs[i].pending)
  BY <1>1 DEF Pending
<1>3. CASE UNCHANGED briefs
  BY <1>1, <1>2, <1>3, VoiceUnchanged
<1>4. CASE briefs' # briefs
  <2>1. /\ ~SurveySilent(site, week, deaf) /\ ~PackSilent(site, week, deaf)
        /\ ~Repeats(packed.id, facts) /\ Admissible(facts)
        /\ Admitted(packed, "scan", deaf)
    BY <1>4 DEF Look
  <2>2. Row(Stored(packed, "scan", deaf))
    BY <2>1, SeenByLook DEF VoiceInv, LookInv
  <2>3. facts = PackedFacts(site, week, deaf)
    BY DEF PackedBrief
  <2>4. Packed(packed.b)
    BY <2>1, <2>3, LookPacks DEF VoiceInv, PostsInv
  <2> HIDE DEF packed
  <2>5. IsList(facts)
    BY <2>4 DEF Packed, IsList
  <2>6. \A k \in DOMAIN briefs : Apart(briefs[k].b.facts, facts)
    BY <2>1 DEF Repeats, AlreadyTold, Apart
  <2> QED
    BY <1>1, <1>2, <2>1, <2>2, <2>4, <2>5, <2>6, AdmissionKeepsVoice
<1> QED
  BY <1>3, <1>4

NoUrl == <<"none", "none">>
LEMMA UrlIsArtifact ==
  ASSUME NEW fs, IsList(fs), NEW url
  PROVE  /\ UrlOf(fs, url) = NoUrl \/ UrlOf(fs, url) \in Artifacts(fs)
         /\ url \in Urls(fs) => UrlOf(fs, url) \in Artifacts(fs) /\ UrlOf(fs, url) # NoUrl
<1> DEFINE shown == {i \in DOMAIN fs : fs[i].url = url}
           first == CHOOSE i \in shown : \A j \in shown : i <= j
<1>1. PICK S : fs \in Seq(S)
  BY DEF IsList
<1>2. shown \subseteq 1..Len(fs) /\ Len(fs) \in Nat
  BY <1>1
<1>3. shown # {} => first \in shown /\ first # 0
  BY <1>2, FirstPlace
<1>4. UrlOf(fs, url) = IF url = "none" \/ (IF shown = {} THEN 0 ELSE first) = 0
                         THEN NoUrl ELSE Artifact(fs[IF shown = {} THEN 0 ELSE first])
  BY DEF UrlOf, FirstWhere, NoUrl
<1>5. url \in Urls(fs) => url # "none" /\ shown # {}
  BY DEF Urls, FactsOf
<1>6. \A i \in shown : fs[i].url = url /\ fs[i] \in FactsOf(fs)
  BY DEF FactsOf
<1> HIDE DEF shown, first
<1>7. url # "none" /\ shown # {} => /\ UrlOf(fs, url) = Artifact(fs[first])
                                    /\ fs[first].url = url /\ fs[first] \in FactsOf(fs)
  BY <1>3, <1>4, <1>6
<1>8. url # "none" /\ shown # {} => UrlOf(fs, url) \in Artifacts(fs) /\ UrlOf(fs, url) # NoUrl
  BY <1>7 DEF Artifacts, Artifact, NoUrl
<1>9. url = "none" \/ shown = {} => UrlOf(fs, url) = NoUrl
  BY <1>4
<1> QED
  BY <1>5, <1>8, <1>9

\* What is written was told by a brief before the ones that are pending.
LEMMA DraftsBefore ==
  ASSUME VoiceInv, NEW i \in Pending, NEW d \in DOMAIN drafts
  PROVE  drafts[d].brief \in DOMAIN briefs /\ drafts[d].brief < i
<1>1. PICK S : briefs \in Seq(S)
  BY DEF VoiceInv, LookInv, BriefsInv, IsList
<1>2. drafts[d].brief \in DOMAIN briefs /\ ~briefs[drafts[d].brief].pending
  BY DEF VoiceInv, LookInv, DraftsInv, Fits, OrderInv
<1>3. i \in DOMAIN briefs /\ briefs[i].pending
  BY DEF Pending
<1>4. i \in Nat /\ drafts[d].brief \in Nat
  BY <1>1, <1>2, <1>3
<1>5. ~(i < drafts[d].brief) /\ drafts[d].brief # i
  BY <1>2, <1>3 DEF VoiceInv, OrderInv
<1> QED
  BY <1>2, <1>4, <1>5

\* No draft shows an artifact of a scanned brief that is pending.
LEMMA UrlIsFresh ==
  ASSUME VoiceInv, NEW i \in Pending, Scanned(i), NEW url \in Urls(briefs[i].b.facts),
         NEW d \in DOMAIN drafts, NEW old
  PROVE  UrlOf(briefs[drafts[d].brief].b.facts, old) # UrlOf(briefs[i].b.facts, url)
<1> DEFINE k == drafts[d].brief
<1>1. k \in DOMAIN briefs /\ k < i /\ i \in DOMAIN briefs
  BY DraftsBefore DEF Pending
<1> HIDE DEF k
<1>2. IsList(briefs[k].b.facts) /\ IsList(briefs[i].b.facts)
  BY <1>1 DEF VoiceInv, FactsInv
<1>3. Artifacts(briefs[k].b.facts) \cap Artifacts(briefs[i].b.facts) = {}
  BY <1>1 DEF VoiceInv, ApartInv, Apart
<1>4. /\ UrlOf(briefs[k].b.facts, old) = NoUrl \/ UrlOf(briefs[k].b.facts, old) \in Artifacts(briefs[k].b.facts)
      /\ UrlOf(briefs[i].b.facts, url) \in Artifacts(briefs[i].b.facts) /\ UrlOf(briefs[i].b.facts, url) # NoUrl
  BY <1>2, UrlIsArtifact
<1> QED
  BY <1>3, <1>4 DEF k

\* No rule against repeats is in the way of a scanned brief: the look that
\* admitted it asked for all of them.
LEMMA ScannedIsNew ==
  ASSUME VoiceInv, NEW i \in Pending, Scanned(i), NEW draft, draft.url \in Urls(briefs[i].b.facts),
         \A k \in DOMAIN briefs :
           k > i => ReleaseKeys(briefs[k].b.facts) \cap ReleaseKeys(briefs[i].b.facts) = {}
  PROVE  ~Repeated(i, draft) /\ ~BodyIsOpen(i, draft)
<1> DEFINE fs == briefs[i].b.facts
           Was(d) == briefs[drafts[d].brief].b.facts
<1>1. i \in DOMAIN briefs
  BY DEF Pending
<1>2. \A d \in DOMAIN drafts : \A old : UrlOf(Was(d), old) # UrlOf(fs, draft.url)
  BY UrlIsFresh
<1> HIDE DEF fs, Was
<1>3. \A d \in DOMAIN drafts : Body(drafts[d].draft, Was(d)) # Body(draft, fs)
  BY <1>2 DEF Body
<1>4. drafts # <<>> => Len(drafts) \in DOMAIN drafts
  <2>1. PICK S : drafts \in Seq(S)
    BY DEF VoiceInv, LookInv, DraftsInv, IsList
  <2> QED
    BY <2>1
<1>5. \A k \in DOMAIN briefs \ {i} : ReleaseKeys(briefs[k].b.facts) \cap ReleaseKeys(fs) = {}
  <2> SUFFICES ASSUME NEW k \in DOMAIN briefs, k # i
               PROVE  ReleaseKeys(briefs[k].b.facts) \cap ReleaseKeys(fs) = {}
    OBVIOUS
  <2>1. PICK S : briefs \in Seq(S)
    BY DEF VoiceInv, LookInv, BriefsInv, IsList
  <2>2. k \in Nat /\ i \in Nat
    BY <1>1, <2>1
  <2>3. k < i \/ k > i
    BY <2>2
  <2> QED
    BY <1>1, <2>3 DEF VoiceInv, ApartInv, Apart, fs
<1>6. DraftKey(draft, fs) = NoUrl \/ \A d \in DOMAIN drafts : drafts[d].key # DraftKey(draft, fs)
  <2>1. \A d \in DOMAIN drafts : drafts[d].key = UrlOf(Was(d), SubmittedUrl(drafts[d].draft))
    BY DEF VoiceInv, KeyedInv, DraftKey, Was
  <2>2. CASE SubmittedUrl(draft) = draft.url
    BY <1>2, <2>1, <2>2 DEF DraftKey
  <2>3. CASE SubmittedUrl(draft) = "none"
    BY <2>3 DEF DraftKey, UrlOf, NoUrl
  <2> QED
    BY <2>2, <2>3 DEF SubmittedUrl
<1>7. ~BodyIsOpen(i, draft)
  BY <1>3 DEF BodyIsOpen, Was, fs
<1>8. ~Repeated(i, draft)
  BY <1>3, <1>4, <1>5, <1>6 DEF Repeated, NoUrl, Was, fs
<1> QED
  BY <1>7, <1>8

LEMMA ShipIsFound ==
  ASSUME NEW fs, fs \in Seq(FactsOf(fs)), HasShip(fs)
  PROVE  ProofUrl(fs) \in Urls(fs)
<1> DEFINE ships == {i \in DOMAIN fs : fs[i].url \in ShipUrls}
           place == CHOOSE i \in ships : \A j \in ships : i <= j
<1>1. ships \subseteq 1..Len(fs) /\ Len(fs) \in Nat
  OBVIOUS
<1>2. ships # {}
  BY DEF HasShip, Urls, FactsOf
<1>3. place \in ships /\ place # 0
  BY <1>1, <1>2, FirstPlace
<1>4. ProofUrl(fs) = fs[place].url
  BY <1>2, <1>3 DEF ProofUrl, FirstWhere
<1>5. "none" \notin ShipUrls
  BY DEF ShipUrls, OurShip
<1> HIDE DEF place
<1>6. fs[place].url \in Urls(fs)
  BY <1>3, <1>5 DEF Urls, FactsOf
<1> QED
  BY <1>4, <1>6

\* A scanned brief that nothing burns is drafted in its round.
LEMMA ScannedIsDrafted ==
  ASSUME VoiceInv, NEW i \in Pending, Scanned(i), ~Burns(i), Profile.voice = "own", Profile.maintainer
  PROVE  LET draft == ApplyBrief(briefs[i].b, Profile, LivingStack).draft
         IN  draft # NoDraft /\ ~Repeated(i, draft) /\ ~BodyIsOpen(i, draft)
<1> DEFINE b == briefs[i].b
           draft == ApplyBrief(b, Profile, LivingStack).draft
<1>1. /\ i \in DOMAIN briefs /\ briefs[i].pending
  BY DEF Pending
<1>2. /\ ~BurntFacts(b.facts) /\ ~StackUncovered(i)
      /\ \A k \in DOMAIN briefs :
           k > i => ReleaseKeys(briefs[k].b.facts) \cap ReleaseKeys(briefs[i].b.facts) = {}
  BY BurnsFor
<1>3. LivingStack = "none"
  BY <1>1, <1>2 DEF VoiceInv, StackInv
<1>4. Packed(b)
  BY <1>1 DEF VoiceInv, FactsInv
<1>5. SoundShip(b)
  BY <1>2, <1>4, PackedIsSound
<1>6. draft # NoDraft /\ draft.url = ProofUrl(b.facts)
  BY <1>3, <1>5, SoundSpeaks
<1>7. ProofUrl(b.facts) \in Urls(b.facts)
  <2>1. b.facts \in Seq(FactsOf(b.facts)) /\ HasShip(b.facts)
    BY <1>5 DEF SoundShip, Proven
  <2> HIDE DEF b
  <2> QED
    BY <2>1, ShipIsFound
<1> HIDE DEF draft
<1>8. ~Repeated(i, draft) /\ ~BodyIsOpen(i, draft)
  BY <1>2, <1>6, <1>7, ScannedIsNew
<1> QED
  BY <1>6, <1>8 DEF draft

\* What a round makes of the brief it takes.
LEMMA RoundGrows ==
  ASSUME VoiceInv, ScoreNext
  PROVE  \E i \in Pending :
           LET draft == ApplyBrief(briefs[i].b, Profile, LivingStack).draft
               new == [brief |-> i, draft |-> draft, at |-> week, held |-> FALSE,
                       key |-> DraftKey(draft, briefs[i].b.facts)]
           IN  /\ \A k \in Pending : i <= k
               /\ DOMAIN briefs' = DOMAIN briefs
               /\ \A k \in DOMAIN briefs :
                    /\ briefs'[k].b = briefs[k].b /\ briefs'[k].source = briefs[k].source
                    /\ briefs'[k].at = briefs[k].at
                    /\ briefs'[k].pending <=> briefs[k].pending /\ k # i
               /\ \/ drafts' = drafts /\ (draft = NoDraft \/ Repeated(i, draft) \/ BodyIsOpen(i, draft))
                  \/ drafts' = Append(drafts, new)
<1>1. PICK i \in Pending :
        LET draft == ApplyBrief(briefs[i].b, Profile, LivingStack).draft
            new == [brief |-> i, draft |-> draft, at |-> week, held |-> FALSE,
                    key |-> DraftKey(draft, briefs[i].b.facts)]
        IN  /\ \A k \in Pending : i <= k
            /\ briefs' = [briefs EXCEPT ![i].pending = FALSE]
            /\ \/ drafts' = drafts /\ (draft = NoDraft \/ Repeated(i, draft) \/ BodyIsOpen(i, draft))
               \/ drafts' = Append(drafts, new)
  BY DEF ScoreNext, Queue
<1> DEFINE done == [briefs[i] EXCEPT !.pending = FALSE]
<1>2. i \in DOMAIN briefs /\ briefs[i].pending /\ briefs' = [briefs EXCEPT ![i] = done]
  BY <1>1 DEF Pending
<1>3. /\ done.b = briefs[i].b /\ done.source = briefs[i].source /\ done.at = briefs[i].at
      /\ ~done.pending
  BY <1>2 DEF VoiceInv, LookInv, BriefsInv, Row
<1> HIDE DEF done
<1>4. /\ DOMAIN briefs' = DOMAIN briefs
      /\ \A k \in DOMAIN briefs : briefs'[k] = IF k = i THEN done ELSE briefs[k]
  BY <1>2, Replaced DEF VoiceInv, LookInv, BriefsInv
<1>5. \A k \in DOMAIN briefs :
        /\ briefs'[k].b = briefs[k].b /\ briefs'[k].source = briefs[k].source
        /\ briefs'[k].at = briefs[k].at
        /\ briefs'[k].pending <=> briefs[k].pending /\ k # i
  <2> SUFFICES ASSUME NEW k \in DOMAIN briefs
               PROVE  /\ briefs'[k].b = briefs[k].b /\ briefs'[k].source = briefs[k].source
                      /\ briefs'[k].at = briefs[k].at
                      /\ briefs'[k].pending <=> briefs[k].pending /\ k # i
    OBVIOUS
  <2>1. CASE k = i
    BY <1>3, <1>4, <2>1
  <2>2. CASE k # i
    BY <1>4, <2>2
  <2> QED
    BY <2>1, <2>2
<1> QED
  BY <1>1, <1>4, <1>5

LEMMA ScoreKeepsVoice ==
  ASSUME VoiceInv, ScoreNext
  PROVE  VoiceInv'
<1>1. PICK i \in Pending :
           LET draft == ApplyBrief(briefs[i].b, Profile, LivingStack).draft
               new == [brief |-> i, draft |-> draft, at |-> week, held |-> FALSE,
                       key |-> DraftKey(draft, briefs[i].b.facts)]
           IN  /\ \A k \in Pending : i <= k
               /\ DOMAIN briefs' = DOMAIN briefs
               /\ \A k \in DOMAIN briefs :
                    /\ briefs'[k].b = briefs[k].b /\ briefs'[k].source = briefs[k].source
                    /\ briefs'[k].at = briefs[k].at
                    /\ briefs'[k].pending <=> briefs[k].pending /\ k # i
               /\ \/ drafts' = drafts /\ (draft = NoDraft \/ Repeated(i, draft) \/ BodyIsOpen(i, draft))
                  \/ drafts' = Append(drafts, new)
  BY RoundGrows
<1> DEFINE draft == ApplyBrief(briefs[i].b, Profile, LivingStack).draft
           new == [brief |-> i, draft |-> draft, at |-> week, held |-> FALSE,
                   key |-> DraftKey(draft, briefs[i].b.facts)]
<1>2. /\ DOMAIN briefs' = DOMAIN briefs /\ \A k \in Pending : i <= k
      /\ \A k \in DOMAIN briefs : briefs'[k].b = briefs[k].b /\ briefs'[k].source = briefs[k].source
                                  /\ briefs'[k].at = briefs[k].at
      /\ \A k \in DOMAIN briefs : briefs'[k].pending <=> briefs[k].pending /\ k # i
      /\ \/ drafts' = drafts /\ (draft = NoDraft \/ Repeated(i, draft) \/ BodyIsOpen(i, draft))
         \/ drafts' = Append(drafts, new)
  BY <1>1
<1>3. new.brief = i /\ new.draft = draft /\ new.key = DraftKey(draft, briefs[i].b.facts)
  OBVIOUS
<1>4. i \in DOMAIN briefs /\ briefs[i].pending
  BY DEF Pending
<1>5. /\ week' = week /\ step' = step /\ site' = site
      /\ LookInv'
  BY ScoreKeeps DEF ScoreNext, VoiceInv
<1> HIDE DEF new, draft
<1>6. /\ DOMAIN drafts \subseteq DOMAIN drafts' /\ \A d \in DOMAIN drafts : drafts'[d] = drafts[d]
      /\ \A d \in DOMAIN drafts' : d \in DOMAIN drafts \/ drafts'[d] = new
  <2>1. CASE drafts' = drafts
    BY <2>1
  <2>2. CASE drafts' = Append(drafts, new)
    BY <2>2, Appended DEF VoiceInv, LookInv, DraftsInv
  <2> QED
    BY <1>2, <2>1, <2>2
<1>7. Grown
  BY <1>2, <1>6 DEF Grown
<1>8. PostsInv' /\ Spelled(site)'
  BY <1>5 DEF VoiceInv, PostsInv, Spelled
<1>9. FactsInv' /\ ApartInv'
  BY <1>2 DEF VoiceInv, FactsInv, ApartInv, Scanned
<1>10. \A d \in DOMAIN drafts : drafts[d].brief \in DOMAIN briefs
  BY DEF VoiceInv, LookInv, DraftsInv, Fits
<1>11. OrderInv'
  <2>1. ASSUME NEW k \in DOMAIN briefs', NEW l \in DOMAIN briefs', l < k, briefs'[l].pending
        PROVE  briefs'[k].pending
    <3>1. l \in Pending /\ k \in DOMAIN briefs /\ i <= l /\ l # i
      BY <1>2, <2>1 DEF Pending
    <3>2. briefs[k].pending
      BY <2>1, <3>1 DEF VoiceInv, OrderInv, Pending
    <3>3. k # i
      <4>1. PICK S : briefs \in Seq(S)
        BY DEF VoiceInv, LookInv, BriefsInv, IsList
      <4>2. i \in Nat /\ l \in Nat /\ k \in Nat
        BY <1>4, <3>1, <4>1 DEF Pending
      <4> QED
        BY <2>1, <3>1, <4>2
    <3> QED
      BY <1>2, <3>1, <3>2, <3>3
  <2>2. ASSUME NEW d \in DOMAIN drafts' PROVE ~briefs'[drafts'[d].brief].pending
    <3>1. CASE d \in DOMAIN drafts
      BY <1>2, <1>6, <1>10, <3>1 DEF VoiceInv, OrderInv
    <3>2. CASE drafts'[d] = new
      BY <1>2, <1>3, <1>4, <3>2
    <3> QED
      BY <1>6, <3>1, <3>2
  <2> QED
    BY <2>1, <2>2 DEF OrderInv
<1>12. KeyedInv'
  <2> SUFFICES ASSUME NEW d \in DOMAIN drafts'
               PROVE  drafts'[d].key = DraftKey(drafts'[d].draft, briefs'[drafts'[d].brief].b.facts)
    BY DEF KeyedInv, DraftKey, UrlOf, FirstWhere
  <2>1. CASE d \in DOMAIN drafts
    BY <1>2, <1>6, <1>10, <2>1 DEF VoiceInv, KeyedInv
  <2>2. CASE drafts'[d] = new
    BY <1>2, <1>3, <1>4, <2>2
  <2> QED
    BY <1>6, <2>1, <2>2
<1>13. StackInv'
  <2>1. ASSUME NEW k \in DOMAIN briefs, Scanned(k), briefs[k].pending PROVE k = i
    <3>1. ~(i < k)
      BY <1>4, <2>1 DEF VoiceInv, StackInv
    <3>2. PICK S : briefs \in Seq(S)
      BY DEF VoiceInv, LookInv, BriefsInv, IsList
    <3>3. i \in Nat /\ k \in Nat /\ i <= k
      BY <1>2, <1>4, <2>1, <3>2 DEF Pending
    <3> QED
      BY <3>1, <3>3
  <2>2. \A k \in DOMAIN briefs' : ~(briefs'[k].source = "scan" /\ briefs'[k].pending)
    BY <1>2, <2>1 DEF Scanned
  <2> QED
    BY <2>2 DEF StackInv, Scanned
<1>14. ScannedSpeaks'
  <2> SUFFICES ASSUME Profile.voice = "own" /\ Profile.maintainer, NEW k \in DOMAIN briefs',
                      briefs'[k].source = "scan", ~briefs'[k].pending, ~Drafted(k)'
               PROVE  Burns(k)'
    BY DEF ScannedSpeaks
  <2>1. k \in DOMAIN briefs /\ Scanned(k) /\ ~Drafted(k)
    BY <1>2, <1>7, DraftedStays DEF Scanned
  <2>2. CASE k # i
    <3>1. Burns(k)
      BY <1>2, <2>1, <2>2 DEF VoiceInv, ScannedSpeaks, Scanned
    <3> QED
      BY <1>7, <2>1, <3>1, BurnsStays
  <2>3. CASE k = i
    <3>1. CASE Burns(i)
      BY <1>7, <2>1, <2>3, <3>1, BurnsStays
    <3>2. CASE ~Burns(i)
      <4>1. draft # NoDraft /\ ~Repeated(i, draft) /\ ~BodyIsOpen(i, draft)
        BY <2>1, <2>3, <3>2, ScannedIsDrafted DEF draft
      <4>2. drafts' = Append(drafts, new)
        BY <1>2, <4>1
      <4>3. Len(drafts) + 1 \in DOMAIN drafts' /\ drafts'[Len(drafts) + 1] = new
        <5>1. PICK S : drafts \in Seq(S)
          BY DEF VoiceInv, LookInv, DraftsInv, IsList
        <5> QED
          BY <4>2, <5>1
      <4>4. Drafted(i)'
        BY <1>3, <4>3 DEF Drafted
      <4> QED
        BY <2>3, <4>4
    <3> QED
      BY <3>1, <3>2
  <2> QED
    BY <2>2, <2>3
<1> QED
  BY <1>5, <1>8, <1>9, <1>11, <1>12, <1>13, <1>14 DEF VoiceInv

StackSays ==
  IsList(drafts) =>
    (LivingStack # "none" <=>
       \E e \in DOMAIN drafts : /\ IsStacked(e) /\ drafts[e].at = week
                                /\ \A d \in DOMAIN drafts : IsStacked(d) => e <= d)
LEMMA StackAlwaysSays == StackSays
  BY LivingStackIs DEF StackSays

\* A draft that is held may uncover the window of the next one.
LEMMA HoldKeepsStack ==
  ASSUME VoiceInv, NEW d, Hold(d), Grown, NEW i \in Pending, Scanned(i)
  PROVE  LivingStack' = "none" \/ StackUncovered(i)'
<1> SUFFICES ASSUME LivingStack' # "none", LivingStack = "none" PROVE StackUncovered(i)'
  <2>1. i \in DOMAIN briefs /\ briefs[i].pending
    BY DEF Pending
  <2>2. LivingStack = "none" \/ StackUncovered(i)
    BY <2>1 DEF VoiceInv, StackInv
  <2> QED
    BY <2>1, <2>2, UncoveredStays
<1> DEFINE held == [drafts[d] EXCEPT !.held = TRUE]
<1>1. /\ week' = week /\ briefs' = briefs /\ d \in DOMAIN drafts /\ ~drafts[d].held
      /\ drafts' = [drafts EXCEPT ![d] = held]
  BY DEF Hold, IsOpen
<1>2. held.held = TRUE /\ held.brief = drafts[d].brief /\ held.draft = drafts[d].draft /\ held.at = drafts[d].at
  BY <1>1 DEF VoiceInv, LookInv, DraftsInv, Fits
<1> HIDE DEF held
<1>3. /\ DOMAIN drafts' = DOMAIN drafts /\ IsList(drafts) /\ IsList(drafts')
      /\ \A k \in DOMAIN drafts : drafts'[k] = IF k = d THEN held ELSE drafts[k]
  BY <1>1, Replaced DEF VoiceInv, LookInv, DraftsInv
<1>4. \A k \in DOMAIN drafts : IsStacked(k)' <=> IsStacked(k) /\ k # d
  BY <1>2, <1>3 DEF IsStacked
<1>5. IsList(drafts') =>
        (LivingStack' # "none" <=>
           \E e \in DOMAIN drafts' : /\ IsStacked(e)' /\ drafts'[e].at = week'
                                     /\ \A k \in DOMAIN drafts' : IsStacked(k)' => e <= k)
  <2>1. StackSays'
    BY StackAlwaysSays, PTL
  <2> QED
    BY <2>1 DEF StackSays, IsList
<1>6. PICK e \in DOMAIN drafts : /\ IsStacked(e) /\ e # d /\ drafts[e].at = week
                                 /\ \A k \in DOMAIN drafts : IsStacked(k) /\ k # d => e <= k
  BY <1>1, <1>3, <1>4, <1>5
<1>7. \A n \in DOMAIN drafts :
        ~(IsStacked(n) /\ drafts[n].at = week /\ \A k \in DOMAIN drafts : IsStacked(k) => n <= k)
  BY <1>3, LivingStackIs
<1>8. d \in Nat /\ e \in Nat /\ DOMAIN drafts \subseteq Nat
  <2>1. PICK S : drafts \in Seq(S)
    BY <1>3 DEF IsList
  <2> QED
    BY <1>1, <2>1
<1>9. IsStacked(d) /\ d < e
  BY <1>6, <1>7, <1>8
<1>10. \A k \in DOMAIN drafts : IsStacked(k) => d <= k
  BY <1>6, <1>8, <1>9
<1>11. drafts[d].at # week
  BY <1>1, <1>7, <1>9, <1>10
<1>12. drafts[e].brief < i
  BY DraftsBefore
<1>13. briefs[i].at = week
  BY DEF Pending, VoiceInv, StackInv
<1>14. /\ drafts'[d].held /\ drafts'[d].at = drafts[d].at /\ drafts'[d].draft = drafts[d].draft
       /\ drafts'[e] = drafts[e] /\ d \in DOMAIN drafts' /\ e \in DOMAIN drafts'
  BY <1>1, <1>2, <1>3, <1>6
<1>15. {drafts[d].draft.arena, drafts[e].draft.arena} \subseteq StackArenas
  BY <1>6, <1>9 DEF IsStacked
<1> QED
  BY <1>1, <1>6, <1>9, <1>11, <1>12, <1>13, <1>14, <1>15 DEF StackUncovered

LEMMA HoldKeepsVoice ==
  ASSUME VoiceInv, NEW d, Hold(d)
  PROVE  VoiceInv'
<1> DEFINE held == [drafts[d] EXCEPT !.held = TRUE]
<1>1. /\ site' = site /\ briefs' = briefs /\ week' = week /\ step' = step /\ d \in DOMAIN drafts
      /\ drafts' = [drafts EXCEPT ![d] = held]
  BY DEF Hold
<1>2. /\ held.held = TRUE /\ held.brief = drafts[d].brief /\ held.draft = drafts[d].draft
      /\ held.at = drafts[d].at /\ held.key = drafts[d].key
  BY <1>1 DEF VoiceInv, LookInv, DraftsInv, Fits
<1> HIDE DEF held
<1>3. /\ DOMAIN drafts' = DOMAIN drafts
      /\ \A k \in DOMAIN drafts : drafts'[k] = IF k = d THEN held ELSE drafts[k]
  BY <1>1, Replaced DEF VoiceInv, LookInv, DraftsInv
<1>4. \A k \in DOMAIN drafts :
        /\ drafts'[k].brief = drafts[k].brief /\ drafts'[k].draft = drafts[k].draft
        /\ drafts'[k].at = drafts[k].at /\ drafts'[k].key = drafts[k].key
        /\ drafts[k].held => drafts'[k].held
  BY <1>2, <1>3
<1>5. Grown
  BY <1>1, <1>3, <1>4 DEF Grown
<1>6. LookInv' /\ PostsInv' /\ Spelled(site)'
  BY <1>1, HoldKeeps DEF VoiceInv, PostsInv
<1>7. FactsInv' /\ ApartInv'
  BY <1>1 DEF VoiceInv, FactsInv, ApartInv, Scanned
<1>8. OrderInv' /\ KeyedInv'
  BY <1>1, <1>3, <1>4 DEF VoiceInv, OrderInv, KeyedInv
<1>9. StackInv'
  <2> SUFFICES ASSUME NEW i \in DOMAIN briefs, Scanned(i), briefs[i].pending
               PROVE  LivingStack' = "none" \/ StackUncovered(i)'
    BY <1>1 DEF VoiceInv, StackInv, Scanned
  <2>1. i \in Pending
    BY DEF Pending
  <2> QED
    BY <1>5, <2>1, HoldKeepsStack
<1>10. ScannedSpeaks'
  BY <1>1, <1>5, DraftedStays, BurnsStays DEF VoiceInv, ScannedSpeaks
<1> QED
  BY <1>6, <1>7, <1>8, <1>9, <1>10 DEF VoiceInv

LEMMA InitVoice == Init => VoiceInv
<1> SUFFICES ASSUME Init PROVE VoiceInv
  OBVIOUS
<1>1. LookInv
  BY InitLook
<1>2. PostsInv /\ Spelled(site)
  BY SiteAssumption, WordAssumption DEF Init, PostsInv, IsList, Spelled
<1> QED
  BY <1>1, <1>2 DEF Init, VoiceInv, FactsInv, ApartInv, OrderInv, KeyedInv, StackInv, ScannedSpeaks

\* The site may change, as long as what is written there is spelled like before.
LEMMA SiteKeepsVoice ==
  ASSUME VoiceInv, LookInv', PostsInv', Spelled(site)', UNCHANGED <<briefs, drafts, week, step>>
  PROVE  VoiceInv'
<1>1. FactsInv' /\ ApartInv' /\ OrderInv' /\ KeyedInv'
  BY DEF VoiceInv, FactsInv, ApartInv, OrderInv, KeyedInv, Scanned
<1>2. LivingStack' = LivingStack /\ \A i : StackUncovered(i)' = StackUncovered(i)
  BY DEF LivingStack, FirstWhere, IsOpen, StackUncovered
<1>3. StackInv'
  BY <1>2 DEF VoiceInv, StackInv, Scanned
<1>4. Grown
  BY DEF Grown
<1>5. ScannedSpeaks'
  BY <1>4, DraftedStays, BurnsStays DEF VoiceInv, ScannedSpeaks
<1> QED
  BY <1>1, <1>3, <1>5 DEF VoiceInv

LEMMA StepVoice == VoiceInv /\ [Next]_vars => VoiceInv'
<1> SUFFICES ASSUME VoiceInv, [Next]_vars PROVE VoiceInv'
  OBVIOUS
<1>1. LookInv'
  BY StepLook DEF VoiceInv
<1>2. ASSUME NEW offer \in Offers, Post(offer) PROVE VoiceInv'
  <2>1. PICK seen :
          site' = [site EXCEPT !.posts =
                     Append(site.posts, [what |-> offer.what, of |-> offer.of, words |-> offer.words, seen |-> seen])]
    BY <1>2 DEF Post
  <2> DEFINE p == [what |-> offer.what, of |-> offer.of, words |-> offer.words, seen |-> seen]
             list == Append(site.posts, p)
  <2>2. Worded(p)
    BY WordAssumption DEF Worded
  <2>3. /\ site' = [site EXCEPT !.posts = list] /\ site'.posts = list /\ site'.about = site.about
    BY <2>1 DEF VoiceInv, LookInv, SiteInv
  <2> HIDE DEF p
  <2>4. IsList(site.posts)
    BY DEF VoiceInv, PostsInv
  <2>5. /\ IsList(list)
        /\ \A i \in DOMAIN site.posts : list[i] = site.posts[i]
        /\ \A i \in DOMAIN list : i \in DOMAIN site.posts \/ list[i] = p
    BY <2>4, Appended
  <2> HIDE DEF list
  <2>6. \A q \in FactsOf(list) : Worded(q)
    BY <2>2, <2>5 DEF VoiceInv, Spelled, FactsOf
  <2>7. PostsInv' /\ Spelled(site)'
    BY <2>3, <2>5, <2>6 DEF VoiceInv, PostsInv, Spelled
  <2>8. UNCHANGED <<briefs, drafts, week, step>>
    BY <1>2 DEF Post
  <2> QED
    BY <1>1, <2>7, <2>8, SiteKeepsVoice
<1>3. ASSUME \/ \E home \in Homes : EditReadme(home)
             \/ \E flags \in FlagSets : SetFlags(flags)
      PROVE  VoiceInv'
  <2>1. /\ UNCHANGED <<briefs, drafts, week, step>>
        /\ site'.posts = site.posts /\ site'.about = site.about
    BY <1>3 DEF EditReadme, SetFlags, VoiceInv, LookInv, SiteInv
  <2>2. PostsInv' /\ Spelled(site)'
    BY <2>1 DEF VoiceInv, PostsInv, Spelled
  <2> QED
    BY <1>1, <2>1, <2>2, SiteKeepsVoice
<1>4. ASSUME NEW deaf \in Outages, Listen(deaf) \/ Look(deaf) PROVE VoiceInv'
  BY <1>4, ListenKeepsVoice, LookKeepsVoice
<1>5. CASE UNCHANGED vars
  BY <1>5, VoiceUnchanged DEF vars
<1>6. CASE NotDue \/ NextMonday
  <2>1. /\ UNCHANGED <<site, briefs, drafts>> /\ step # "looked"
    BY <1>6 DEF NotDue, NextMonday
  <2>2. \A i \in DOMAIN briefs : ~(Scanned(i) /\ briefs[i].pending)
    BY <2>1 DEF VoiceInv, StackInv
  <2> QED
    BY <2>1, <2>2, VoiceUnchanged
<1>7. CASE EmitAngle
  <2>1. UNCHANGED <<site, briefs, drafts>> /\ Pending = {}
    BY <1>7 DEF EmitAngle
  <2>2. \A i \in DOMAIN briefs : ~(Scanned(i) /\ briefs[i].pending)
    BY <2>1 DEF Pending
  <2> QED
    BY <2>1, <2>2, VoiceUnchanged
<1>8. CASE ScoreNext
  BY <1>8, ScoreKeepsVoice
<1>9. ASSUME NEW d \in DOMAIN drafts, Hold(d) PROVE VoiceInv'
  BY <1>9, HoldKeepsVoice
<1>10. ASSUME NEW brief \in Ingests, Ingest(brief) PROVE VoiceInv'
  <2>1. Row(Stored(brief, "cli", {}))
    BY DEF Row, Stored
  <2>2. IsList(brief.b.facts)
    BY SiteAssumption DEF IsList
  <2>3. Admitted(brief, "cli", {}) /\ UNCHANGED <<week, step, site, drafts>>
    BY <1>10 DEF Ingest
  <2> QED
    BY <2>1, <2>2, <2>3, AdmissionKeepsVoice
<1> QED
  BY <1>2, <1>3, <1>4, <1>5, <1>6, <1>7, <1>8, <1>9, <1>10 DEF Next

\* A story that a look admits is drafted, or is one of those that Burns lists:
\* no other rule of the chain, of dressing or against repeats (score_brief,
\* dress_brief, drop_repeat_release) silences it, whatever was posted, held,
\* ingested or failed, for any number of Mondays.
THEOREM ScannedStoriesSpeak == Spec => []ScannedSpeaks
<1>1. VoiceInv => ScannedSpeaks
  BY DEF VoiceInv
<1> QED
  BY <1>1, InitVoice, StepVoice, PTL DEF Spec

=============================================================================
