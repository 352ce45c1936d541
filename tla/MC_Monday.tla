------------------------------- MODULE MC_Monday -------------------------------
EXTENDS Monday

Offer(what, of, words) == [what |-> what, of |-> of, words |-> words]
Whole == {"install", "demo", "start"}

\* Two releases, one of them named by its tag alone, a tag that may be promoted,
\* a merge and its revert, and a comment.
MCOffers ==
  {Offer("release", "v1", {}), Offer("release", "v1", {"version_diff", "bare"}),
   Offer("tag", "v2", {}), Offer("release", "v2", {}),
   Offer("pull", "p1", {}), Offer("revert", "p1", {"no_ship"}),
   Offer("comment", "c1", {}), Offer("issue", "c2", {})}
MCHomes ==
  {[at |-> "readme", marks |-> Whole], [at |-> "moved", marks |-> Whole],
   [at |-> "readme", marks |-> Whole \ {"demo"}]}
\* Everything may happen to a plain site, with and without a past; and every
\* mark once in each text of a site that is left alone.
Posted(what, of, words) == [what |-> what, of |-> of, words |-> words, seen |-> {1}]
Site(posts, about, home) == [flags |-> {}, posts |-> posts, readme |-> home, about |-> about]
Home(marks) == [at |-> "readme", marks |-> Whole \cup marks]
Plain == {Site(<<>>, {"short"}, Home({})),
          Site(<<Posted("tag", "v2", {}), Posted("release", "v1", {})>>, {"short"}, Home({})),
          Site(<<Posted("pull", "p0", {}), Posted("pull", "p1", {}), Posted("release", "v1", {})>>,
               {}, Home({}))}
\* A name keeps its prefix when an order is cut out of it; other copy may be gone.
Single == {{m} : m \in Marks \cup {"order", "noise", "maintenance", "template_repo", "no_ship"}}
Tagged == {{"version_diff", "bare"}}
Cut == {{m, "bare"} : m \in {"order", "oss_claim"}}
Release(t) == Posted("release", "v1", t)
Quiet(posts) == Site(posts, {"short"}, Home({}))
Odd ==
  {Quiet(<<Release(t)>>) : t \in Single \cup Tagged}
  \cup {Quiet(<<Posted("pull", "p1", t), Release({})>>) : t \in Single}
  \cup {Quiet(<<Posted("pull", "p1", {}), Release(t)>>) : t \in Single \cup Tagged}
  \cup {Quiet(<<Posted("tag", "v2", t), Release({})>>) : t \in Single \cup Tagged}
  \cup {Quiet(<<Posted(what, "c1", t)>>) : what \in DOMAIN CommentKind, t \in Single \cup Cut}
  \cup {Site(<<Release({})>>, t, Home({})) : t \in Single \cup Cut}
  \cup {Site(<<Release({})>>, {"short"}, Home(t)) : t \in Single}
\* Marks that end a brief together: two in a text, one in each of two texts, and
\* a pack that is full before the README.
Noise(of) == Posted("release", of, {"commit_noise"})
Together ==
  {Quiet(<<Release({"source_available", "oss_claim"})>>), Quiet(<<Noise("v1"), Noise("v2"), Noise("v3")>>),
   Site(<<Noise("v1")>>, {"version_diff"}, Home({})), Site(<<Noise("v1")>>, {"star_count"}, Home({})),
   Site(<<Release({})>>, {"oss_claim", "bare", "surname"}, Home({}))}
\* A comment on the first Monday, a release on the second.
Later == Quiet(<<Posted("comment", "c0", {}), [Release({}) EXCEPT !.seen = {2}]>>)
MCStarts ==
  {[site |-> s, changes |-> 3] : s \in Plain} \cup {[site |-> Later, changes |-> 2]}
  \cup {[site |-> s, changes |-> 0] : s \in Odd \cup Together}
MCFlagSets == {{}} \cup {{f} : f \in Flags}
MCOutages == {{}} \cup {{c} : c \in SurveyCalls \cup FeedbackCalls}
\* A release that a look may find too, and a merge for the workshop.
Ingested(id, facts) ==
  [id |-> <<"cli", id>>,
   b |-> [kind |-> "major", claims |-> TRUE, tryable |-> TRUE, preferred |-> "none", facts |-> facts]]
MCIngests ==
  {Ingested("one", <<Fact("release", {"v1"}, "release", "v1")>>)}
  \cup {Ingested("two", <<Fact("pull", {"p9", "issues_disabled"}, "pull", "p9")>>)}
MCProfile == [voice |-> "own", maintainer |-> TRUE, pillars |-> FALSE]
MCPast == {[site |-> Site(<<Posted("release", "v1", {})>>, {"short"}, Home({})), changes |-> 2]}
=============================================================================
