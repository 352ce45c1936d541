------------------------------- MODULE MC_Angle -------------------------------
(***************************************************************************)
(* Briefs made from a dozen shapes of facts: every header with each shape, *)
(* and for the headers that reach a stage every mark and every URL put in  *)
(* each place of the shape.                                                *)
(***************************************************************************)
EXTENDS Angle

F(kind, text, url) == [kind |-> kind, text |-> text, url |-> url]

Staged == {"room", "disclose", "package", "hook", "loop", "pack", "feed", "intent_split", "seed",
           "surname", "pillar"}
Shapes == {
  <<F("release", {}, "release"), F("readme", {"readme_install"}, "readme")>>,
  <<F("readme", {"readme_install"}, "readme"), F("release", {}, "release")>>,
  <<F("signal", {}, "repo")>>,
  <<F("signal", {}, "readme"), F("signal", {}, "none")>>,
  <<F("issue_comment", {}, "comment")>>,
  <<F("signal", {}, "pull"), F("excerpt", {"quote", "opinion"}, "comment")>>,
  <<F("parent", {"names_ship"}, "post"), F("signal", {}, "repo")>>,
  <<F("signal", {"surname"}, "repo"), F("signal", Staged, "none")>>,
  <<F("signal", {}, "repo"), F("artifact", {"license_file"}, "issue")>>}

Header(k, c, t, p) == [kind |-> k, claims |-> c, tryable |-> t, preferred |-> p, facts |-> <<>>]
AllHeaders == {Header(k, c, t, p) : k \in StoryKinds, c \in BOOLEAN, t \in BOOLEAN,
                                    p \in Arenas \cup {"none"}}
\* One header for each arena whose gates it can pass.
StageHeaders ==
  {Header("major", TRUE, TRUE, p) : p \in {"none", "hn", "discord", "newsletter", "youtube"}}
  \cup {Header("major", FALSE, FALSE, p) : p \in {"none", "github", "linkedin", "reddit"}}
  \cup {Header("hard_issue", TRUE, TRUE, p) : p \in {"bluesky", "x"}}
  \cup {Header("failure", FALSE, FALSE, p) : p \in {"mastodon", "shorts"}}

Variants(s) ==
  {[s EXCEPT ![i].text = @ \cup {m}] : i \in DOMAIN s, m \in Marks}
  \cup {[s EXCEPT ![i].text = {m, "bare"}] : i \in DOMAIN s, m \in {"mention", "oss_claim", "version_diff"}}
  \cup {[s EXCEPT ![i].url = u] : i \in DOMAIN s, u \in UrlKinds}
  \cup {Append(s, F("signal", {}, u)) : u \in HostUrls \cup {"vanity"}}

\* Two marks at once, in one story or beside it: the marks that excuse or
\* complete another one.
Excuses == {"better_idea", "version_diff", "bot", "merged_pr", "commit_noise", "star_count", "life",
            "license_file", "oss_claim", "source_available", "used_by", "customer_named", "apology"}
Pairs == {<<F("signal", {m}, "repo"), F(k, {"license_file", n}, "issue")>> :
            m \in Marks, n \in Excuses, k \in {"artifact", "pull"}}
         \cup {<<F("signal", {m, n}, "release"), F("signal", {}, "none")>> : m \in Marks, n \in Excuses}

\* What scoring weighs and a costume cannot show: a first line that is no
\* thought, a label without its phrase, a gift or an excuse that is left out.
With(kind, claims, stage, s) == [Header(kind, claims, claims, stage) EXCEPT !.facts = s]
Note(text) == F("signal", text, "none")
Link(text) == F("signal", text, "repo")
Torn ==
  {With("hard_issue", TRUE, "x", <<F("parent", {}, "release"), Link({m}), Note({"disclose"})>>) :
     m \in {"long_post", "short", "echo"}}
  \cup {With("major", TRUE, stage, <<Link({"worse_clone", "pack", "feed"}), Note({"life"}), Note({"better_idea"})>>) :
     stage \in {"bluesky", "hn", "newsletter"}}
  \cup {With("major", TRUE, "youtube", <<F("package", {}, "none"), Link({"life"}), Note({"package"})>>),
        With("failure", FALSE, "shorts", <<F("loop", {}, "none"), Link({"hook"})>>),
        With("major", FALSE, "reddit", <<F("subreddit", {}, "none"), Link({"room", "disclose"})>>),
        With("major", TRUE, "newsletter", <<F("issue_comment", {"short"}, "comment"), Link({"ask", "surname"})>>)}
  \cup {With("major", FALSE, "github", <<F("release", {"reply"}, "release"), Link({m}), Note({"readme_install"})>>) :
     m \in {"version_diff", "star_count"}}

\* Evidence beside a torn story, and a reply before a plain one.
Beside ==
  {With("major", TRUE, "youtube", <<F("package", {"life"}, "none"), F("signal", {}, "video"), Link({m}), Note({"package"})>>) :
     m \in {"package", "life"}}
  \cup {With("failure", FALSE, "mastodon", <<F("signal", {}, "blog"), Link({m}), Note(n)>>) :
     m \in {"clip", "life"}, n \in {{}, {"life"}}}
  \cup {With("major", TRUE, "none", <<F("parent", {m}, u), Link({})>>) :
     m \in {"life", "better_idea", "names_ship"}, u \in {"comment", "readme", "pull"}}

MCBriefs ==
  Torn \cup Beside \cup
  {[h EXCEPT !.facts = s] : h \in AllHeaders, s \in Shapes \cup {<<>>}}
  \cup {[h EXCEPT !.facts = s] : h \in StageHeaders, s \in UNION {Variants(s) : s \in Shapes}}
  \cup {[Header("major", TRUE, TRUE, "none") EXCEPT !.facts = s] : s \in Pairs}

Brand(voice, maintainer, pillars) == [voice |-> voice, maintainer |-> maintainer, pillars |-> pillars]
MCBrands == {Brand("own", TRUE, FALSE), Brand("own", FALSE, TRUE), Brand("other", TRUE, FALSE)}
MCClaimed == {"x", "linkedin", "newsletter", "mastodon"}
=============================================================================
