--------------------------- MODULE StoryLockProofs ---------------------------
(***************************************************************************)
(* Proofs about StoryLock for every set of briefs, looks, tickers and      *)
(* operators, every window and every bound.                                *)
(***************************************************************************)
EXTENDS StoryLock, TLAPS

(* What a process holds between two of its steps is a row of the tables.    *)
ScoredOK ==
  \A t \in Tickers :
    /\ ticker[t].todo \subseteq Told
    /\ ticker[t].pc = "scored" => /\ ticker[t].brief \in Told
                                  /\ ticker[t].fate \in Outcome
PackedOK == \A l \in Looks : look[l].pc = "packed" => look[l].brief \in Briefs
PickedOK ==
  \A g \in Gates : gate[g].pc = "picked" => /\ gate[g].brief \in Drafted
                                            /\ gate[g].verdict \in {"pass", "hold"}
RowsOK == \A b \in Briefs : b \in Drafted <=> status[b] = "drafted"

TypeInv == TypeOK /\ ScoredOK /\ PackedOK /\ PickedOK /\ RowsOK

USE BriefAssumption, WardrobeAssumption, ActorAssumption, BoundAssumption

LEMMA InitTypeInv == Init => TypeInv
  BY DEF Init, TypeInv, TypeOK, ScoredOK, PackedOK, PickedOK, RowsOK, Told, Drafted,
         TickerState, LookState, GateState, Outcome, NoDraft, Out, NoLook, NoPick, NoBrief

LEMMA ListedType ==
  ASSUME NEW now \in 0..MaxClock, NEW todo \in SUBSET Briefs
  PROVE  Listed(now, todo) \in TickerState
  BY DEF Listed, Out, TickerState, NoBrief

LEMMA StepTypeInv == TypeInv /\ [Next]_vars => TypeInv'
<1> SUFFICES ASSUME TypeInv, [Next]_vars PROVE TypeInv'
  OBVIOUS
<1> DEFINE Tables == status' \in [Briefs -> {"absent", "pending", "silent", "same_release", "drafted"}]
                     /\ draft' \in [Briefs -> DraftRow \cup {NoDraft}]
<1>0. /\ clock \in 0..MaxClock /\ lock \in Tickers \cup {NoOne} /\ crashes \in 0..MaxCrashes
      /\ status \in [Briefs -> {"absent", "pending", "silent", "same_release", "drafted"}]
      /\ draft \in [Briefs -> DraftRow \cup {NoDraft}]
      /\ ticker \in [Tickers -> TickerState]
      /\ look \in [Looks -> LookState]
      /\ gate \in [Gates -> GateState]
      /\ Told \subseteq Briefs
  BY DEF TypeInv, TypeOK, Told
<1> HIDE DEF Tables
<1>1. CASE Advance
  BY <1>1 DEF Advance, TypeInv, TypeOK, ScoredOK, PackedOK, PickedOK, RowsOK, Told, Drafted
<1>2. ASSUME NEW l \in Looks, NEW b \in Briefs, Pack(l, b) PROVE TypeInv'
  <2>1. look' \in [Looks -> LookState]
    BY <1>0, <1>2 DEF Pack, LookState
  <2> QED
    BY <2>1, <1>2 DEF Pack, TypeInv, TypeOK, ScoredOK, PackedOK, PickedOK, RowsOK, Told, Drafted
<1>3. ASSUME NEW l \in Looks, Admit(l) PROVE TypeInv'
  <2>1. look[l].brief \in Briefs /\ look' \in [Looks -> LookState] /\ look'[l].pc = "idle"
    BY <1>0, <1>3 DEF Admit, LookState, NoLook, NoBrief, TypeInv, PackedOK
  <2> QED
    BY <2>1, <1>3 DEF Admit, MayAdmit, TypeInv, TypeOK, ScoredOK, PackedOK, PickedOK, RowsOK, Told, Drafted
<1>4. ASSUME NEW b \in Briefs, Ingest(b) PROVE TypeInv'
  BY <1>4 DEF Ingest, TypeInv, TypeOK, ScoredOK, PackedOK, PickedOK, RowsOK, Told, Drafted
<1>5. ASSUME NEW t \in Tickers,
             \/ AcquireTickLock(t) \/ ReleaseTickLock(t) \/ StartRound(t) \/ ListPending(t)
             \/ EndRound(t) \/ Crash(t) \/ Score(t)
      PROVE TypeInv'
  <2>1. UNCHANGED <<status, draft, look, gate>> /\ lock' \in Tickers \cup {NoOne}
        /\ crashes' \in 0..MaxCrashes /\ clock' = clock
    <3>1. CASE Crash(t)
      BY <1>0, <3>1 DEF Crash
    <3>2. CASE ~Crash(t)
      BY <1>0, <1>5, <3>2 DEF AcquireTickLock, ReleaseTickLock, StartRound, ListPending, EndRound,
                              Score, ScoreBrief
    <3> QED
      BY <3>1, <3>2
  <2>2. ticker' \in [Tickers -> TickerState] /\ ScoredOK'
    <3>1. CASE AcquireTickLock(t)
      BY <1>0, <2>1, <3>1 DEF AcquireTickLock, TickerState, TypeInv, ScoredOK, Told
    <3>2. CASE ReleaseTickLock(t) \/ EndRound(t) \/ Crash(t)
      BY <1>0, <2>1, <3>2 DEF ReleaseTickLock, EndRound, Crash, Out, NoBrief, TickerState, Outcome,
                              TypeInv, ScoredOK, Told
    <3>3. CASE StartRound(t)
      <4>1. ticker' \in [Tickers -> TickerState]
        <5> DEFINE r == [ticker[t] EXCEPT !.pc = "round", !.now = clock]
        <5>1. r \in TickerState
          BY <1>0 DEF TickerState
        <5>2. ticker' = [ticker EXCEPT ![t] = r]
          BY <1>0, <3>3 DEF StartRound
        <5> QED
          BY <1>0, <5>1, <5>2
      <4>2. \A u \in Tickers : /\ ticker'[u].todo = ticker[u].todo
                               /\ ticker'[u].pc = "scored" => ticker'[u] = ticker[u]
        BY <1>0, <3>3 DEF StartRound, TickerState
      <4> QED
        BY <2>1, <4>1, <4>2 DEF TypeInv, ScoredOK, Told
    <3>4. CASE ListPending(t)
      <4>1. ticker' \in [Tickers -> TickerState]
        BY <1>0, <3>4, ListedType DEF ListPending, Pending, TickerState
      <4>2. \A u \in Tickers : /\ ticker'[u].todo \in {ticker[u].todo, Pending}
                               /\ ticker'[u].pc = "scored" => ticker'[u] = ticker[u]
        BY <1>0, <3>4 DEF ListPending, Listed, Out
      <4>3. Pending \subseteq Told
        BY DEF Pending, Told
      <4> QED
        BY <2>1, <4>1, <4>2, <4>3 DEF TypeInv, ScoredOK, Told
    <3>5. ASSUME NEW b \in Briefs, NEW f \in Wardrobe \cup {"silent", "same_release"},
                 ScoreBrief(t, b, f)
          PROVE ticker' \in [Tickers -> TickerState] /\ ScoredOK'
      <4>1. f \in Outcome
        BY DEF Outcome
      <4>2. ticker' \in [Tickers -> TickerState]
        <5> DEFINE r == [ticker[t] EXCEPT !.pc = "scored", !.brief = b, !.fate = f]
        <5>1. r \in TickerState
          <6>1. ticker[t] \in TickerState
            BY <1>0
          <6>2. b \in Briefs \cup {NoBrief} /\ f \in Outcome \cup {"none"}
            BY <4>1
          <6> QED
            BY <6>1, <6>2 DEF TickerState
        <5>2. ticker' = [ticker EXCEPT ![t] = r]
          BY <1>0, <3>5 DEF ScoreBrief
        <5> QED
          BY <1>0, <5>1, <5>2
      <4>3. \A u \in Tickers : /\ ticker'[u].todo = ticker[u].todo
                               /\ u # t => ticker'[u] = ticker[u]
        BY <1>0, <3>5 DEF ScoreBrief, TickerState
      <4>4. ticker'[t].brief = b /\ ticker'[t].fate = f /\ b \in ticker[t].todo
        BY <1>0, <3>5 DEF ScoreBrief, TickerState
      <4> QED
        BY <2>1, <4>1, <4>2, <4>3, <4>4 DEF TypeInv, ScoredOK, Told
    <3> QED
      BY <1>5, <3>1, <3>2, <3>3, <3>4, <3>5 DEF Score
  <2> QED
    BY <2>1, <2>2 DEF TypeInv, TypeOK, PackedOK, PickedOK, RowsOK, Drafted
<1>6. ASSUME NEW t \in Tickers, Persist(t) PROVE TypeInv'
  <2> DEFINE b == ticker[t].brief
             f == Stored(b, ticker[t].fate)
  <2>1. /\ b \in Briefs /\ status[b] # "absent" /\ f \in Outcome
        /\ "none" \notin ArenaId /\ "pending" \notin ArenaId
    BY <1>6 DEF Persist, Stored, Outcome, ArenaId, TypeInv, ScoredOK, Told
  <2>2. CASE status[b] = "pending"
    <3> HIDE DEF f
    <3>1. /\ status' = [status EXCEPT ![b] = IF f \in ArenaId THEN "drafted" ELSE f]
          /\ draft' = IF f \in ArenaId
                        THEN [draft EXCEPT ![b] = [arena |-> f, at |-> ticker[t].now, gate |-> "none"]]
                        ELSE draft
          /\ ticker' = [ticker EXCEPT ![t] = Listed(@.now, @.todo \ {b})]
          /\ UNCHANGED <<clock, lock, look, gate, crashes>>
      BY <1>6, <2>2 DEF Persist, f
    <3>2. ticker' \in [Tickers -> TickerState]
      BY <1>0, <3>1, ListedType DEF TickerState
    <3>3. f \in ArenaId => [arena |-> f, at |-> ticker[t].now, gate |-> "none"] \in DraftRow
      BY <1>0 DEF DraftRow, TickerState
    <3>4. Tables
      BY <1>0, <2>1, <3>1, <3>3 DEF Outcome, Tables
    <3>5. Told' = Told
      BY <1>0, <2>1, <2>2, <3>1 DEF Told, Outcome
    <3>6. ScoredOK'
      <4>1. ticker'[t].todo \subseteq ticker[t].todo /\ ticker'[t].pc = "scoring"
        BY <1>0, <3>1 DEF Listed, Out
      <4>2. \A u \in Tickers \ {t} : ticker'[u] = ticker[u]
        BY <1>0, <3>1
      <4> QED
        BY <3>5, <4>1, <4>2 DEF TypeInv, ScoredOK
    <3>7. Drafted' = IF f \in ArenaId THEN Drafted \cup {b} ELSE Drafted
      BY <1>0, <2>1, <3>1 DEF Drafted
    <3>8. RowsOK'
      BY <1>0, <2>1, <2>2, <3>1, <3>7 DEF TypeInv, RowsOK, Outcome
    <3>9. PickedOK' /\ PackedOK'
      BY <3>1, <3>7 DEF TypeInv, PickedOK, PackedOK
    <3> QED
      BY <1>0, <3>1, <3>2, <3>4, <3>6, <3>8, <3>9 DEF TypeInv, TypeOK, Tables
  <2>3. CASE status[b] # "pending"
    <3>1. /\ ticker' = [ticker EXCEPT ![t] = [Out EXCEPT !.pc = "idle"]]
          /\ UNCHANGED <<status, draft, clock, lock, look, gate, crashes>>
      BY <1>6, <2>3 DEF Persist
    <3>2. ticker' \in [Tickers -> TickerState] /\ ScoredOK'
      BY <1>0, <3>1 DEF TickerState, Out, NoBrief, Outcome, TypeInv, ScoredOK, Told
    <3> QED
      BY <3>1, <3>2 DEF TypeInv, TypeOK, PackedOK, PickedOK, RowsOK, Drafted
  <2> QED
    BY <2>2, <2>3
<1>7. ASSUME NEW g \in Gates, NEW b \in Briefs, NEW v \in {"pass", "hold"}, PickDraft(g, b, v)
      PROVE TypeInv'
  <2>1. gate' \in [Gates -> GateState]
    BY <1>0, <1>7 DEF PickDraft, GateState
  <2> QED
    BY <2>1, <1>7 DEF PickDraft, Open, TypeInv, TypeOK, ScoredOK, PackedOK, PickedOK, RowsOK, Told, Drafted
<1>8. ASSUME NEW g \in Gates, RecordVerdict(g) PROVE TypeInv'
  <2>1. gate[g].brief \in Drafted /\ gate[g].verdict \in {"pass", "hold"}
    BY <1>8 DEF RecordVerdict, TypeInv, PickedOK
  <2>2. gate' \in [Gates -> GateState]
    BY <1>0, <1>8 DEF RecordVerdict, GateState, NoPick, NoBrief
  <2>3. draft[gate[g].brief] \in DraftRow
    BY <1>0, <2>1, draft[gate[g].brief] \in DraftRow \cup {NoDraft} DEF Drafted, NoDraft
  <2>4. draft' \in [Briefs -> DraftRow \cup {NoDraft}] /\ Drafted' = Drafted
    BY <1>0, <1>8, <2>1, <2>3 DEF RecordVerdict, Drafted, DraftRow
  <2>5. PickedOK'
    BY <1>0, <1>8, <2>4 DEF RecordVerdict, TypeInv, PickedOK, NoPick
  <2> QED
    BY <1>8, <2>2, <2>4, <2>5 DEF RecordVerdict, TypeInv, TypeOK, ScoredOK, PackedOK, RowsOK, Told
<1>9. CASE UNCHANGED vars
  BY <1>9 DEF vars, TypeInv, TypeOK, ScoredOK, PackedOK, PickedOK, RowsOK, Told, Drafted
<1> QED
  BY <1>1, <1>2, <1>3, <1>4, <1>5, <1>6, <1>7, <1>8, <1>9 DEF Next, Score

\* Type correctness for every instance: rows and local records are well formed
\* in every reachable state, and a draft row exists for the drafted briefs alone.
THEOREM TypeCorrect == Spec => []TypeOK
<1>1. Spec => []TypeInv
  BY InitTypeInv, StepTypeInv, PTL DEF Spec
<1>2. TypeInv => TypeOK
  BY DEF TypeInv
<1> QED
  BY <1>1, <1>2, PTL

------------------------------------------------------------------------------
(* The four transactions that write the tables, as the invariants see them. *)

NewRow(b) == /\ b \notin Told
             /\ status' = [status EXCEPT ![b] = "pending"]
             /\ UNCHANGED draft
AdmitsRow(b) == NewRow(b) /\ Pending = {} /\ SocialOpen = {} /\ ~ArtifactTold(b)
IngestsRow(b) == NewRow(b) /\ b \in Ingested
Decides(t) ==
  LET b == ticker[t].brief
      f == Stored(b, ticker[t].fate)
  IN  /\ ticker[t].pc = "scored" /\ status[b] = "pending"
      /\ status' = [status EXCEPT ![b] = IF f \in ArenaId THEN "drafted" ELSE f]
      /\ draft' = IF f \in ArenaId
                    THEN [draft EXCEPT ![b] = [arena |-> f, at |-> ticker[t].now, gate |-> "none"]]
                    ELSE draft
      /\ ticker' = [ticker EXCEPT ![t] = Listed(@.now, @.todo \ {b})]
      /\ UNCHANGED <<lock, gate>>
Stamps(g) ==
  /\ gate[g].pc = "picked"
  /\ draft' = [draft EXCEPT ![gate[g].brief].gate = gate[g].verdict]
  /\ gate' = [gate EXCEPT ![g] = NoPick]
  /\ UNCHANGED <<status, ticker, lock>>

LEMMA TableStep ==
  ASSUME TypeInv, [Next]_vars
  PROVE  \/ UNCHANGED <<status, draft>>
         \/ \E b \in Briefs : (AdmitsRow(b) \/ IngestsRow(b)) /\ UNCHANGED <<ticker, lock, gate>>
         \/ \E t \in Tickers : Decides(t)
         \/ \E g \in Gates : Stamps(g)
<1>1. CASE Advance \/ UNCHANGED vars
  BY <1>1 DEF Advance, vars
<1>2. ASSUME NEW l \in Looks, NEW b \in Briefs, Pack(l, b) PROVE UNCHANGED <<status, draft>>
  BY <1>2 DEF Pack
<1>3. ASSUME NEW l \in Looks, Admit(l)
      PROVE  \/ UNCHANGED <<status, draft>>
             \/ \E b \in Briefs : AdmitsRow(b) /\ UNCHANGED <<ticker, lock, gate>>
  BY <1>3 DEF Admit, MayAdmit, OpenStory, AdmitsRow, NewRow, TypeInv, PackedOK
<1>4. ASSUME NEW b \in Briefs, Ingest(b) PROVE IngestsRow(b) /\ UNCHANGED <<ticker, lock, gate>>
  BY <1>4 DEF Ingest, IngestsRow, NewRow
<1>5. ASSUME NEW t \in Tickers,
             \/ AcquireTickLock(t) \/ ReleaseTickLock(t) \/ StartRound(t) \/ ListPending(t)
             \/ EndRound(t) \/ Crash(t) \/ Score(t)
      PROVE UNCHANGED <<status, draft>>
  BY <1>5 DEF AcquireTickLock, ReleaseTickLock, StartRound, ListPending, EndRound, Crash, Score, ScoreBrief
<1>6. ASSUME NEW t \in Tickers, Persist(t) PROVE UNCHANGED <<status, draft>> \/ Decides(t)
  BY <1>6 DEF Persist, Decides
<1>7. ASSUME NEW g \in Gates, NEW b \in Briefs, NEW v \in {"pass", "hold"}, PickDraft(g, b, v)
      PROVE UNCHANGED <<status, draft>>
  BY <1>7 DEF PickDraft
<1>8. ASSUME NEW g \in Gates, RecordVerdict(g) PROVE Stamps(g)
  BY <1>8 DEF RecordVerdict, Stamps
<1> QED
  BY <1>1, <1>2, <1>3, <1>4, <1>5, <1>6, <1>7, <1>8 DEF Next

\* A decision writes one draft row or none, and never over another row.
LEMMA DecidesRow ==
  ASSUME TypeInv, NEW t \in Tickers, Decides(t)
  PROVE  LET b == ticker[t].brief
             f == Stored(b, ticker[t].fate)
         IN  /\ b \in Pending /\ b \notin Drafted /\ Told' = Told /\ Pending' = Pending \ {b}
             /\ f \in ArenaId => f = ticker[t].fate /\ ~SameBodyOpen(b)
             /\ \/ f \in ArenaId /\ Drafted' = Drafted \cup {b}
                   /\ draft'[b].arena = f /\ draft'[b].gate = "none"
                \/ f \notin ArenaId /\ draft' = draft
             /\ \A c \in Briefs \ {b} : draft'[c] = draft[c] /\ status'[c] = status[c]
             /\ \A u \in Tickers : ticker'[u].pc = "scored" => u # t /\ ticker'[u] = ticker[u]
<1> DEFINE b == ticker[t].brief
           f == Stored(b, ticker[t].fate)
<1>1. /\ b \in Pending /\ b \notin Drafted /\ b \in Briefs
      /\ f \in Outcome /\ (f \in ArenaId => f = ticker[t].fate /\ ~SameBodyOpen(b))
  BY DEF Decides, TypeInv, ScoredOK, RowsOK, Told, Pending, Stored, Outcome, ArenaId
<1>2. /\ status \in [Briefs -> {"absent", "pending", "silent", "same_release", "drafted"}]
      /\ DOMAIN draft = Briefs /\ ticker \in [Tickers -> TickerState]
      /\ "none" \notin ArenaId
  BY DEF TypeInv, TypeOK, ArenaId
<1> HIDE DEF f
<1>3. /\ status' = [status EXCEPT ![b] = IF f \in ArenaId THEN "drafted" ELSE f]
      /\ draft' = IF f \in ArenaId
                    THEN [draft EXCEPT ![b] = [arena |-> f, at |-> ticker[t].now, gate |-> "none"]]
                    ELSE draft
      /\ ticker' = [ticker EXCEPT ![t] = Listed(@.now, @.todo \ {b})]
  BY DEF Decides, f
<1>4. Told' = Told /\ Pending' = Pending \ {b}
  BY <1>1, <1>2, <1>3 DEF Told, Pending, Outcome
<1>5. \A c \in Briefs \ {b} : draft'[c] = draft[c] /\ status'[c] = status[c]
  BY <1>2, <1>3
<1>6. \A u \in Tickers : ticker'[u].pc = "scored" => u # t /\ ticker'[u] = ticker[u]
  BY <1>2, <1>3 DEF Listed, Out
<1>7. \/ f \in ArenaId /\ Drafted' = Drafted \cup {b}
         /\ draft'[b].arena = f /\ draft'[b].gate = "none"
      \/ f \notin ArenaId /\ draft' = draft
  BY <1>1, <1>2, <1>3 DEF Drafted
<1> QED
  BY <1>1, <1>4, <1>5, <1>6, <1>7 DEF f

\* A verdict touches the gate column of one row.
LEMMA StampsRow ==
  ASSUME TypeInv, NEW g \in Gates, Stamps(g)
  PROVE  /\ Told' = Told /\ Pending' = Pending /\ Drafted' = Drafted
         /\ gate[g].brief \in Drafted /\ gate[g].verdict \in {"pass", "hold"}
         /\ draft'[gate[g].brief].gate = gate[g].verdict
         /\ \A c \in Briefs : draft'[c].arena = draft[c].arena
         /\ \A c \in Briefs \ {gate[g].brief} : draft'[c] = draft[c]
<1>1. gate[g].brief \in Drafted /\ gate[g].verdict \in {"pass", "hold"}
  BY DEF Stamps, TypeInv, PickedOK
<1>2. draft \in [Briefs -> DraftRow \cup {NoDraft}] /\ gate[g].brief \in Briefs
  BY <1>1 DEF TypeInv, TypeOK, Drafted
<1>3. draft[gate[g].brief] \in DraftRow
  BY <1>1, <1>2, draft[gate[g].brief] \in DraftRow \cup {NoDraft} DEF Drafted, NoDraft
<1>4. /\ draft'[gate[g].brief].gate = gate[g].verdict
      /\ \A c \in Briefs : draft'[c].arena = draft[c].arena
      /\ \A c \in Briefs \ {gate[g].brief} : draft'[c] = draft[c]
  BY <1>2, <1>3 DEF Stamps, DraftRow
<1> QED
  BY <1>1, <1>4 DEF Stamps, Told, Pending, Drafted

LEMMA NewRowEffect ==
  ASSUME TypeInv, NEW b \in Briefs, NewRow(b)
  PROVE  Told' = Told \cup {b} /\ Pending' = Pending \cup {b} /\ Drafted' = Drafted /\ b \notin Drafted
BY DEF NewRow, TypeInv, TypeOK, RowsOK, Told, Pending, Drafted

LEMMA TypeInvAlways == Spec => []TypeInv
  BY InitTypeInv, StepTypeInv, PTL DEF Spec

------------------------------------------------------------------------------
(* One draft per release.  A brief that has been scored into a draft and    *)
(* not yet persisted already speaks for its release: whatever was told      *)
(* since is silenced by it.                                                 *)

Chosen == Drafted \cup {ticker[t].brief : t \in {u \in Tickers : /\ ticker[u].pc = "scored"
                                                                /\ ticker[u].fate \in ArenaId}}
ReleaseInv == \A b, c \in Chosen : Release[b] # NoKey /\ Release[b] = Release[c] => b = c

LEMMA TickerTyped == ASSUME TypeInv PROVE ticker \in [Tickers -> TickerState]
  BY DEF TypeInv, TypeOK

\* Scoring alone puts a fate in a ticker's hand.
LEMMA UnscoredStep ==
  ASSUME TypeInv, [Next]_vars, ~\E t \in Tickers : Score(t)
  PROVE  \A u \in Tickers : ticker'[u].pc = "scored" => ticker'[u] = ticker[u]
<1>1. ASSUME NEW t \in Tickers,
             \/ AcquireTickLock(t) \/ ReleaseTickLock(t) \/ EndRound(t) \/ Crash(t) \/ Persist(t)
             \/ StartRound(t) \/ ListPending(t)
      PROVE  ticker'[t].pc # "scored" /\ \A u \in Tickers \ {t} : ticker'[u] = ticker[u]
  <2>1. CASE AcquireTickLock(t) \/ StartRound(t)
    <3>1. ticker[t] \in TickerState
      BY TickerTyped
    <3>2. [ticker[t] EXCEPT !.pc = "held"].pc = "held"
          /\ [ticker[t] EXCEPT !.pc = "round", !.now = clock].pc = "round"
      BY <3>1 DEF TickerState
    <3>3. \/ ticker' = [ticker EXCEPT ![t] = [ticker[t] EXCEPT !.pc = "held"]]
          \/ ticker' = [ticker EXCEPT ![t] = [ticker[t] EXCEPT !.pc = "round", !.now = clock]]
      BY <2>1 DEF AcquireTickLock, StartRound
    <3> QED
      BY TickerTyped, <3>2, <3>3
  <2>2. CASE ReleaseTickLock(t) \/ EndRound(t) \/ Crash(t)
    BY TickerTyped, <2>2 DEF ReleaseTickLock, EndRound, Crash, Out
  <2>3. CASE ListPending(t)
    BY TickerTyped, <2>3 DEF ListPending, Listed, Out
  <2>4. CASE Persist(t)
    <3>1. \/ ticker' = [ticker EXCEPT ![t] = Listed(@.now, @.todo \ {ticker[t].brief})]
          \/ ticker' = [ticker EXCEPT ![t] = [Out EXCEPT !.pc = "idle"]]
      BY <2>4 DEF Persist
    <3> QED
      BY TickerTyped, <3>1 DEF Listed, Out
  <2> QED
    BY <1>1, <2>1, <2>2, <2>3, <2>4
<1>2. CASE UNCHANGED ticker
  BY <1>2
<1> QED
  BY <1>1, <1>2 DEF Next, Advance, Pack, Admit, Ingest, PickDraft, RecordVerdict, vars

LEMMA ChosenStep ==
  ASSUME TypeInv, [Next]_vars
  PROVE  \/ Chosen' \subseteq Chosen
         \/ \E b \in Told : ~ReleaseTold(b) /\ Chosen' \subseteq Chosen \cup {b}
<1>0. ticker \in [Tickers -> TickerState]
  BY DEF TypeInv, TypeOK
<1>1. CASE \E t \in Tickers : Decides(t)
  <2>1. PICK t \in Tickers : Decides(t)
    BY <1>1
  <2>2. Drafted' \subseteq Drafted \cup {c \in {ticker[t].brief} : ticker[t].fate \in ArenaId}
    BY <2>1, DecidesRow DEF Drafted
  <2>3. \A u \in Tickers : ticker'[u].pc = "scored" => u # t /\ ticker'[u] = ticker[u]
    BY <2>1, DecidesRow
  <2>4. ticker[t].pc = "scored"
    BY <2>1 DEF Decides
  <2> QED
    BY <2>2, <2>3, <2>4 DEF Chosen
<1>2. CASE \E t \in Tickers, b \in Briefs, f \in Wardrobe \cup {"silent", "same_release"} : ScoreBrief(t, b, f)
  <2>1. PICK t \in Tickers, b \in Briefs, f \in Wardrobe \cup {"silent", "same_release"} : ScoreBrief(t, b, f)
    BY <1>2
  <2>2. /\ ticker'[t].brief = b /\ ticker'[t].fate = f /\ b \in ticker[t].todo
        /\ \A u \in Tickers \ {t} : ticker'[u] = ticker[u]
        /\ f \in Fates(b, ticker[t].now)
        /\ UNCHANGED draft
    BY <1>0, <2>1 DEF ScoreBrief, TickerState
  <2>3. b \in Told
    BY <2>2 DEF TypeInv, ScoredOK
  <2>4. f \in ArenaId => ~ReleaseTold(b)
    BY <2>2 DEF Fates, ArenaId
  <2>5. Chosen' \subseteq Chosen \cup {c \in {b} : f \in ArenaId}
    BY <2>2 DEF Chosen, Drafted
  <2> QED
    BY <2>3, <2>4, <2>5
<1>3. CASE /\ ~\E t \in Tickers : Decides(t)
           /\ ~\E t \in Tickers : Score(t)
  <2>1. Drafted' = Drafted
    BY <1>3, TableStep, NewRowEffect, StampsRow DEF Drafted, AdmitsRow, IngestsRow
  <2>2. \A u \in Tickers : ticker'[u].pc = "scored" => ticker'[u] = ticker[u]
    BY <1>3, UnscoredStep
  <2> QED
    BY <2>1, <2>2 DEF Chosen
<1> QED
  BY <1>1, <1>2, <1>3 DEF Score

\* A tag or release never gets a second draft: for any number of looks, ticks,
\* crashes and ingested briefs, and even without tick.lock.
THEOREM ReleaseSpeaksOnce == Spec => []OneDraftPerRelease
<1>1. Init => ReleaseInv
  BY DEF Init, ReleaseInv, Chosen, Drafted, NoDraft, Out
<1>2. TypeInv /\ ReleaseInv /\ [Next]_vars => ReleaseInv'
  <2> SUFFICES ASSUME TypeInv, ReleaseInv, [Next]_vars PROVE ReleaseInv'
    OBVIOUS
  <2>1. CASE Chosen' \subseteq Chosen
    BY <2>1 DEF ReleaseInv
  <2>2. ASSUME NEW b \in Told, ~ReleaseTold(b), Chosen' \subseteq Chosen \cup {b} PROVE ReleaseInv'
    <3>1. Chosen \subseteq Told
      BY DEF Chosen, TypeInv, ScoredOK, RowsOK, Told, Drafted
    <3> QED
      BY <2>2, <3>1 DEF ReleaseInv, ReleaseTold
  <2> QED
    BY <2>1, <2>2, ChosenStep
<1>3. ReleaseInv => OneDraftPerRelease
  BY DEF ReleaseInv, OneDraftPerRelease, Chosen
<1> QED
  BY <1>1, <1>2, <1>3, TypeInvAlways, PTL DEF Spec

------------------------------------------------------------------------------
(* Admission.  ArtifactToldOnce needs nothing but the transaction of        *)
(* admit_brief.                                                             *)

\* Two admitted briefs never tell the same artifact, for any race of looks.
THEOREM ArtifactOnce == Spec => []ArtifactToldOnce
<1>1. Init => ArtifactToldOnce
  BY DEF Init, ArtifactToldOnce, Admitted, Told
<1>2. TypeInv /\ ArtifactToldOnce /\ [Next]_vars => ArtifactToldOnce'
  <2> SUFFICES ASSUME TypeInv, ArtifactToldOnce, [Next]_vars PROVE ArtifactToldOnce'
    OBVIOUS
  <2>1. ASSUME NEW b \in Briefs, AdmitsRow(b) PROVE ArtifactToldOnce'
    BY <2>1, NewRowEffect DEF AdmitsRow, ArtifactToldOnce, Admitted, ArtifactTold
  <2>2. ASSUME NEW b \in Briefs, IngestsRow(b) PROVE ArtifactToldOnce'
    BY <2>2, NewRowEffect DEF IngestsRow, ArtifactToldOnce, Admitted
  <2>3. CASE Told' = Told
    BY <2>3 DEF ArtifactToldOnce, Admitted
  <2>4. ASSUME NEW t \in Tickers, Decides(t) PROVE Told' = Told
    BY <2>4, DecidesRow
  <2>5. ASSUME NEW g \in Gates, Stamps(g) PROVE Told' = Told
    BY <2>5, StampsRow
  <2>6. CASE UNCHANGED <<status, draft>>
    BY <2>6, <2>3 DEF Told
  <2> QED
    BY <2>1, <2>2, <2>3, <2>4, <2>5, <2>6, TableStep
<1> QED
  BY <1>1, <1>2, TypeInvAlways, PTL DEF Spec

------------------------------------------------------------------------------
(* The properties of one operator: a draft that an operator holds in his    *)
(* hand has not been held meanwhile by another.                             *)

OneGate == \A g, h \in Gates : g = h
HandInv == \A g \in Gates : gate[g].pc = "picked" => draft[gate[g].brief].gate # "hold"

LEMMA StepHandInv ==
  ASSUME OneGate, TypeInv, HandInv, [Next]_vars
  PROVE  HandInv'
<1>0. gate \in [Gates -> GateState]
  BY DEF TypeInv, TypeOK
<1>1. ASSUME NEW g \in Gates, NEW b \in Briefs, NEW v \in {"pass", "hold"}, PickDraft(g, b, v)
      PROVE HandInv'
  BY <1>0, <1>1 DEF PickDraft, Open, HandInv
<1>2. ASSUME NEW g \in Gates, Stamps(g) PROVE HandInv'
  BY <1>0, <1>2 DEF Stamps, NoPick, HandInv, OneGate
<1>3. ASSUME NEW t \in Tickers, Decides(t) PROVE HandInv'
  <2>1. \A g \in Gates : gate[g].pc = "picked" => gate[g].brief \in Drafted
    BY DEF TypeInv, PickedOK
  <2>2. \A c \in Drafted : draft'[c] = draft[c]
    BY <1>3, DecidesRow DEF Drafted
  <2> QED
    BY <1>3, <2>1, <2>2 DEF Decides, HandInv
<1>4. CASE UNCHANGED <<draft, gate>>
  BY <1>4 DEF HandInv
<1>5. ASSUME NEW g \in Gates, RecordVerdict(g) PROVE Stamps(g)
  BY <1>5 DEF RecordVerdict, Stamps
<1>6. ASSUME NEW t \in Tickers, Persist(t) PROVE UNCHANGED <<draft, gate>> \/ Decides(t)
  BY <1>6 DEF Persist, Decides
<1> QED
  BY <1>1, <1>2, <1>3, <1>4, <1>5, <1>6
  DEF Next, Advance, Pack, Admit, Ingest, AcquireTickLock, ReleaseTickLock, StartRound, ListPending,
      Score, ScoreBrief, EndRound, Crash, vars

LEMMA HandInvAlways == ASSUME OneGate PROVE Spec => []HandInv
<1>1. Init => HandInv
  BY DEF Init, HandInv, NoPick
<1> QED
  BY <1>1, StepHandInv, TypeInvAlways, PTL DEF Spec

\* With one operator a hold is final: no verdict read before it or after it
\* opens the draft again.
THEOREM HoldIsFinal == ASSUME OneGate PROVE Spec => HeldStaysHeld
<1>1. TypeInv /\ HandInv /\ [Next]_vars
        => [\A b \in Briefs : draft[b].gate = "hold" => draft'[b].gate = "hold"]_vars
  <2> SUFFICES ASSUME TypeInv, HandInv, [Next]_vars,
                      NEW b \in Briefs, draft[b].gate = "hold"
               PROVE  draft'[b].gate = "hold"
    OBVIOUS
  <2>1. ASSUME NEW t \in Tickers, Decides(t) PROVE draft'[b].gate = "hold"
    <3>1. b \in Drafted
      BY draft[b] \in DraftRow \cup {NoDraft} DEF TypeInv, TypeOK, NoDraft, DraftRow, Drafted, ArenaId
    <3> QED
      BY <2>1, <3>1, DecidesRow
  <2>2. ASSUME NEW g \in Gates, Stamps(g) PROVE draft'[b].gate = "hold"
    BY <2>2, StampsRow DEF Stamps, HandInv
  <2> QED
    BY <2>1, <2>2, TableStep DEF AdmitsRow, IngestsRow, NewRow
<1> QED
  BY <1>1, TypeInvAlways, HandInvAlways, PTL DEF Spec, HeldStaysHeld

\* A verdict never opens a draft.
LEMMA StampsClose ==
  ASSUME TypeInv, HandInv, NEW g \in Gates, Stamps(g)
  PROVE  /\ Open' = IF gate[g].verdict = "hold" THEN Open \ {gate[g].brief} ELSE Open
         /\ SocialOpen' = IF gate[g].verdict = "hold" THEN SocialOpen \ {gate[g].brief} ELSE SocialOpen
<1> DEFINE d == gate[g].brief
<1>1. /\ d \in Open /\ Drafted' = Drafted
      /\ draft'[d].gate = gate[g].verdict /\ gate[g].verdict \in {"pass", "hold"}
      /\ \A c \in Briefs : draft'[c].arena = draft[c].arena
      /\ \A c \in Briefs \ {d} : draft'[c] = draft[c]
  BY StampsRow DEF Stamps, HandInv, Open
<1>2. \A c \in Briefs : c \in Open' <=> c \in Open /\ ~(c = d /\ gate[g].verdict = "hold")
  BY <1>1 DEF Open, Drafted
<1>3. Open \subseteq Briefs /\ Open' \subseteq Briefs
  BY DEF Open, Drafted
<1>4. Open' = IF gate[g].verdict = "hold" THEN Open \ {d} ELSE Open
  BY <1>2, <1>3
<1>5. SocialOpen' = {c \in Open' : draft[c].arena \in SocialArenas}
  BY <1>1, <1>3 DEF SocialOpen
<1> QED
  BY <1>4, <1>5 DEF SocialOpen

LEMMA DecidesOpen ==
  ASSUME TypeInv, NEW t \in Tickers, Decides(t)
  PROVE  LET b == ticker[t].brief IN
         /\ Open \subseteq Open' /\ Open' \subseteq Open \cup {b}
         /\ b \in Open' => ~SameBodyOpen(b)
         /\ SocialOpen \subseteq SocialOpen' /\ SocialOpen' \subseteq SocialOpen \cup {b}
<1> DEFINE b == ticker[t].brief
<1>1. b \notin Drafted /\ Drafted' \subseteq Drafted \cup {b}
      /\ \A c \in Briefs \ {b} : draft'[c] = draft[c]
  BY DecidesRow DEF Drafted
<1>2. b \in Drafted' => ~SameBodyOpen(b)
  BY <1>1, DecidesRow DEF Drafted
<1> QED
  BY <1>1, <1>2 DEF Open, SocialOpen, Drafted

\* With one operator two open drafts of a project never share a body.
THEOREM BodyOnce == ASSUME OneGate PROVE Spec => []NoBodyTwiceOpen
<1>1. Init => NoBodyTwiceOpen
  BY DEF Init, NoBodyTwiceOpen, Open, Drafted, NoDraft
<1>2. TypeInv /\ HandInv /\ NoBodyTwiceOpen /\ [Next]_vars => NoBodyTwiceOpen'
  <2> SUFFICES ASSUME TypeInv, HandInv, NoBodyTwiceOpen, [Next]_vars PROVE NoBodyTwiceOpen'
    OBVIOUS
  <2>1. ASSUME NEW t \in Tickers, Decides(t) PROVE NoBodyTwiceOpen'
    BY <2>1, DecidesOpen DEF NoBodyTwiceOpen, SameBodyOpen
  <2>2. ASSUME NEW g \in Gates, Stamps(g) PROVE NoBodyTwiceOpen'
    BY <2>2, StampsClose DEF NoBodyTwiceOpen
  <2>3. CASE UNCHANGED draft
    BY <2>3 DEF NoBodyTwiceOpen, Open, Drafted
  <2> QED
    BY <2>1, <2>2, <2>3, TableStep DEF AdmitsRow, IngestsRow, NewRow
<1> QED
  BY <1>1, <1>2, TypeInvAlways, HandInvAlways, PTL DEF Spec

------------------------------------------------------------------------------
(* One story at a time, and the promise it implements.                      *)

LEMMA FloorStep ==
  ASSUME OneGate, Ingested = {}, TypeInv, HandInv, OneOpenStory, [Next]_vars
  PROVE  \/ UNCHANGED <<Floor, Told>>
         \/ \E b \in Briefs : /\ Floor = {} /\ ~ArtifactTold(b)
                              /\ Floor' = {b} /\ Told' = Told \cup {b}
         \/ \E b \in Floor : Floor' = Floor \ {b} /\ UNCHANGED Told
<1>1. CASE UNCHANGED <<status, draft>>
  BY <1>1 DEF Floor, Told, Pending, SocialOpen, Open, Drafted
<1>2. ASSUME NEW b \in Briefs, AdmitsRow(b)
      PROVE  /\ Floor = {} /\ ~ArtifactTold(b) /\ Floor' = {b} /\ Told' = Told \cup {b}
  <2>1. SocialOpen' = SocialOpen
    BY <1>2 DEF AdmitsRow, NewRow, SocialOpen, Open, Drafted
  <2> QED
    BY <1>2, <2>1, NewRowEffect DEF AdmitsRow, Floor
<1>3. ASSUME NEW t \in Tickers, Decides(t)
      PROVE  UNCHANGED <<Floor, Told>> \/ \E b \in Floor : Floor' = Floor \ {b} /\ UNCHANGED Told
  <2> DEFINE b == ticker[t].brief
  <2>1. b \in Pending /\ b \notin SocialOpen /\ Told' = Told /\ Pending' = Pending \ {b}
    BY <1>3, DecidesRow DEF SocialOpen, Open
  <2>2. SocialOpen \subseteq SocialOpen' /\ SocialOpen' \subseteq SocialOpen \cup {b}
    BY <1>3, DecidesOpen
  <2>3. Floor' = Floor \/ Floor' = Floor \ {b}
    BY <2>1, <2>2 DEF Floor
  <2> QED
    BY <2>1, <2>3 DEF Floor
<1>4. ASSUME NEW g \in Gates, Stamps(g)
      PROVE  UNCHANGED <<Floor, Told>> \/ \E b \in Floor : Floor' = Floor \ {b} /\ UNCHANGED Told
  <2>1. Told' = Told /\ Pending' = Pending /\ gate[g].brief \notin Pending
    BY <1>4, StampsRow DEF TypeInv, RowsOK, Pending, Drafted
  <2>2. SocialOpen' = SocialOpen \/ SocialOpen' = SocialOpen \ {gate[g].brief}
    BY <1>4, StampsClose
  <2> QED
    BY <2>1, <2>2 DEF Floor
<1> QED
  BY <1>1, <1>2, <1>3, <1>4, TableStep DEF IngestsRow

\* One story at a time for the whole machine, for any number of looks, ticks
\* and crashes, as long as nothing is ingested and one operator gives verdicts.
THEOREM OneStoryOnTheMachine == ASSUME OneGate, Ingested = {} PROVE Spec => []OneOpenStory
<1>1. Init => OneOpenStory
  BY DEF Init, OneOpenStory, Floor, Pending, SocialOpen, Open, Drafted, NoDraft
<1>2. TypeInv /\ HandInv /\ OneOpenStory /\ [Next]_vars => OneOpenStory'
  BY FloorStep DEF OneOpenStory
<1> QED
  BY <1>1, <1>2, TypeInvAlways, HandInvAlways, PTL DEF Spec

\* Under the same conditions the lock implements the abstract promise.
THEOREM ImplementsOneStory == ASSUME OneGate, Ingested = {} PROVE Spec => OneStoryAtATime
<1>1. Init => Promise!Init
  BY DEF Init, Promise!Init, Floor, Told, Pending, SocialOpen, Open, Drafted, NoDraft
<1>2. TypeInv /\ HandInv /\ OneOpenStory /\ [Next]_vars => [Promise!Next]_(Promise!promise)
  BY FloorStep DEF Promise!Next, Promise!OpenStory, Promise!CloseStory, Promise!promise, ArtifactTold,
                   Floor, Pending, SocialOpen, Open, Drafted
<1> QED
  BY <1>1, <1>2, TypeInvAlways, HandInvAlways, OneStoryOnTheMachine, PTL DEF Spec, Promise!Spec, OneStoryAtATime

------------------------------------------------------------------------------
(* tick.lock.  Only its holder scores, so what the holder has read of the   *)
(* HN drafts is still true when it writes one.                              *)

LockInv == \A t \in Tickers : ticker[t].pc # "out" => lock = t
HnInv ==
  /\ OneHnPerUrl
  /\ \A t \in Tickers : ticker[t].pc = "scored" /\ ticker[t].fate = "hn" => ~UrlSubmitted(ticker[t].brief)

LEMMA StepLockInv == ASSUME TypeInv, LockInv, [Next]_vars PROVE LockInv'
<1>0. ticker \in [Tickers -> TickerState]
  BY DEF TypeInv, TypeOK
<1>1. ASSUME NEW t \in Tickers, AcquireTickLock(t) PROVE LockInv'
  BY <1>0, <1>1 DEF AcquireTickLock, LockInv
<1>2. ASSUME NEW t \in Tickers, ReleaseTickLock(t) \/ Crash(t) PROVE LockInv'
  BY <1>0, <1>2 DEF ReleaseTickLock, Crash, Out, LockInv
<1>3. ASSUME NEW t \in Tickers,
             StartRound(t) \/ ListPending(t) \/ Score(t) \/ Persist(t) \/ EndRound(t)
      PROVE LockInv'
  <2>1. ticker[t].pc # "out" /\ lock' = lock
    BY <1>3 DEF StartRound, ListPending, Score, ScoreBrief, Persist, EndRound
  <2>2. \A u \in Tickers \ {t} : ticker'[u] = ticker[u]
    BY <1>0, <1>3 DEF StartRound, ListPending, Score, ScoreBrief, Persist, EndRound
  <2> QED
    BY <2>1, <2>2 DEF LockInv
<1>4. CASE UNCHANGED <<lock, ticker>>
  BY <1>4 DEF LockInv
<1> QED
  BY <1>1, <1>2, <1>3, <1>4 DEF Next, Advance, Pack, Admit, Ingest, PickDraft, RecordVerdict, vars

LEMMA HnStep == ASSUME TypeInv, LockInv, HnInv, [Next]_vars PROVE HnInv'
<1>0. ticker \in [Tickers -> TickerState]
  BY DEF TypeInv, TypeOK
<1>1. ASSUME NEW t \in Tickers, Decides(t) PROVE HnInv'
  <2> DEFINE b == ticker[t].brief
  <2>1. \A u \in Tickers : ticker'[u].pc # "scored"
    <3>1. \A u \in Tickers : ticker'[u].pc = "scored" => u # t /\ ticker'[u] = ticker[u]
      BY <1>1, DecidesRow
    <3>2. ticker[t].pc = "scored"
      BY <1>1 DEF Decides
    <3> QED
      BY <3>1, <3>2 DEF LockInv
  <2>2. \/ HnDrafts' \subseteq HnDrafts
        \/ ticker[t].fate = "hn" /\ HnDrafts' \subseteq HnDrafts \cup {b}
    BY <1>1, DecidesRow DEF HnDrafts, Drafted
  <2>3. ticker[t].fate = "hn" => ~UrlSubmitted(b)
    BY <1>1 DEF Decides, HnInv
  <2> QED
    BY <2>1, <2>2, <2>3 DEF HnInv, OneHnPerUrl, UrlSubmitted, HnDrafts
<1>2. ASSUME NEW t \in Tickers, NEW b \in Briefs, NEW f \in Wardrobe \cup {"silent", "same_release"},
             ScoreBrief(t, b, f)
      PROVE HnInv'
  <2>1. /\ ticker'[t].brief = b /\ ticker'[t].fate = f
        /\ \A u \in Tickers \ {t} : ticker'[u] = ticker[u]
        /\ f \in Fates(b, ticker[t].now) /\ UNCHANGED draft
    BY <1>0, <1>2 DEF ScoreBrief, TickerState
  <2>2. f = "hn" => ~UrlSubmitted(b)
    BY <2>1 DEF Fates
  <2> QED
    BY <2>1, <2>2 DEF HnInv, OneHnPerUrl, HnDrafts, UrlSubmitted, Drafted
<1>3. CASE /\ ~\E t \in Tickers : Decides(t)
           /\ ~\E t \in Tickers : Score(t)
  <2>1. Drafted' = Drafted /\ \A c \in Briefs : draft'[c].arena = draft[c].arena
    BY <1>3, TableStep, NewRowEffect, StampsRow DEF Drafted, AdmitsRow, IngestsRow, NewRow
  <2>2. \A u \in Tickers : ticker'[u].pc = "scored" => ticker'[u] = ticker[u]
    BY <1>3, UnscoredStep
  <2> QED
    BY <2>1, <2>2 DEF HnInv, OneHnPerUrl, HnDrafts, UrlSubmitted, Drafted, TypeInv, ScoredOK, Told
<1> QED
  BY <1>1, <1>2, <1>3 DEF Score

\* A URL goes to HN once in the life of a state.db, for any number of tick
\* processes, crashes and ingested briefs: tick.lock is what makes it so.
THEOREM HnOncePerUrl == Spec => []OneHnPerUrl
<1>1. Init => LockInv /\ HnInv
  BY DEF Init, LockInv, HnInv, OneHnPerUrl, HnDrafts, Drafted, NoDraft, Out
<1>2. HnInv => OneHnPerUrl
  BY DEF HnInv
<1> QED
  BY <1>1, <1>2, StepLockInv, HnStep, TypeInvAlways, PTL DEF Spec

------------------------------------------------------------------------------
(* The launch window.  Hours only grow: a round stands after every draft    *)
(* that was written before it, so the first open github/hn draft that a     *)
(* score has read is the first of the history.                              *)

Rounding(t) == ticker[t].pc \in {"round", "scoring", "scored"}
First(o) == \A s \in StackHistory : draft[o].at <= draft[s].at
HourInv ==
  /\ \A b \in Drafted : draft[b].at <= clock
  /\ \A t \in Tickers : /\ ticker[t].now <= clock
                        /\ Rounding(t) => \A b \in Drafted : draft[b].at <= ticker[t].now
ClearInv ==
  \A t \in Tickers : ticker[t].pc = "scored" /\ ticker[t].fate \in ArenaId =>
    \A o \in Stacked : First(o) => draft[o].at + StackHours <= ticker[t].now
WindowInv == HourInv /\ ClearInv /\ WindowOfTheFirst

LEMMA Hours ==
  ASSUME TypeInv
  PROVE  /\ clock \in Nat /\ \A b \in Briefs : draft[b].at \in Nat
         /\ \A t \in Tickers : ticker[t].now \in Nat
         /\ Stacked \subseteq StackHistory /\ StackHistory \subseteq Drafted /\ Drafted \subseteq Briefs
<1>1. ASSUME NEW b \in Briefs PROVE draft[b].at \in Nat
  BY draft[b] \in DraftRow \cup {NoDraft} DEF TypeInv, TypeOK, DraftRow, NoDraft
<1>2. ASSUME NEW t \in Tickers PROVE ticker[t].now \in Nat
  BY TickerTyped DEF TickerState
<1> QED
  BY <1>1, <1>2 DEF TypeInv, TypeOK, Stacked, StackHistory, Open, Drafted

\* A decision writes its row at the hour of its round; every other step leaves
\* the arena and the hour of each row alone and opens none.
LEMMA RowsInTime ==
  ASSUME TypeInv, HandInv, [Next]_vars
  PROVE  \/ /\ Drafted' = Drafted /\ Open' \subseteq Open
            /\ \A c \in Briefs : draft'[c].arena = draft[c].arena /\ draft'[c].at = draft[c].at
         \/ \E t \in Tickers :
              /\ Decides(t) /\ ticker[t].fate \in ArenaId
              /\ Drafted' = Drafted \cup {ticker[t].brief} /\ ticker[t].brief \in Briefs \ Drafted
              /\ draft'[ticker[t].brief].at = ticker[t].now
              /\ \A c \in Briefs \ {ticker[t].brief} : draft'[c] = draft[c]
<1>1. CASE UNCHANGED draft
  BY <1>1 DEF Open, Drafted
<1>2. ASSUME NEW t \in Tickers, Decides(t), ~UNCHANGED draft
      PROVE  /\ ticker[t].fate \in ArenaId
             /\ Drafted' = Drafted \cup {ticker[t].brief} /\ ticker[t].brief \in Briefs \ Drafted
             /\ draft'[ticker[t].brief].at = ticker[t].now
             /\ \A c \in Briefs \ {ticker[t].brief} : draft'[c] = draft[c]
  <2> DEFINE b == ticker[t].brief
             f == Stored(b, ticker[t].fate)
  <2>1. f \in ArenaId /\ b \in Briefs
    BY <1>2, DecidesRow DEF Pending
  <2>2. draft' = [draft EXCEPT ![b] = [arena |-> f, at |-> ticker[t].now, gate |-> "none"]]
    BY <1>2, <2>1 DEF Decides
  <2>3. DOMAIN draft = Briefs
    BY DEF TypeInv, TypeOK
  <2>4. draft'[b].at = ticker[t].now
    BY <2>1, <2>2, <2>3
  <2> QED
    BY <1>2, <2>1, <2>4, DecidesRow
<1>3. ASSUME NEW g \in Gates, Stamps(g)
      PROVE  /\ Drafted' = Drafted /\ Open' \subseteq Open
             /\ \A c \in Briefs : draft'[c].arena = draft[c].arena /\ draft'[c].at = draft[c].at
  <2>1. gate[g].brief \in Drafted
    BY <1>3, StampsRow
  <2>2. draft[gate[g].brief] \in DraftRow /\ DOMAIN draft = Briefs /\ gate[g].brief \in Briefs
    BY <2>1, draft[gate[g].brief] \in DraftRow \cup {NoDraft} DEF TypeInv, TypeOK, Drafted, NoDraft
  <2>3. draft'[gate[g].brief].at = draft[gate[g].brief].at
    BY <1>3, <2>2 DEF Stamps, DraftRow
  <2> QED
    BY <1>3, <2>3, StampsRow, StampsClose
<1> QED
  BY <1>1, <1>2, <1>3, TableStep DEF AdmitsRow, IngestsRow, NewRow

\* A round starts at the clock and keeps its hour until it is over.
LEMMA RoundsInTime ==
  ASSUME TypeInv, [Next]_vars
  PROVE  /\ clock' \in Nat /\ clock <= clock'
         /\ \A u \in Tickers :
              \/ ticker'[u].now = ticker[u].now /\ (Rounding(u)' => Rounding(u))
              \/ ticker'[u].now = clock /\ UNCHANGED <<clock, draft>>
              \/ ticker'[u].now = 0 /\ ~Rounding(u)'
<1>1. CASE Advance
  BY <1>1, Hours DEF Advance, Rounding
<1>2. ASSUME NEW t \in Tickers,
             \/ AcquireTickLock(t) \/ ReleaseTickLock(t) \/ StartRound(t) \/ ListPending(t)
             \/ EndRound(t) \/ Crash(t) \/ Score(t) \/ Persist(t)
      PROVE  /\ clock' = clock
             /\ \A u \in Tickers \ {t} : ticker'[u] = ticker[u]
             /\ \/ ticker'[t].now = ticker[t].now /\ (Rounding(t)' => Rounding(t))
                \/ ticker'[t].now = clock /\ UNCHANGED <<clock, draft>>
                \/ ticker'[t].now = 0 /\ ~Rounding(t)'
  <2>0. ticker[t] \in TickerState
    BY TickerTyped
  <2>1. CASE AcquireTickLock(t)
    <3>1. [ticker[t] EXCEPT !.pc = "held"].pc = "held"
          /\ [ticker[t] EXCEPT !.pc = "held"].now = ticker[t].now
      BY <2>0 DEF TickerState
    <3> QED
      BY <2>1, <3>1, TickerTyped DEF AcquireTickLock, Rounding
  <2>2. CASE ReleaseTickLock(t) \/ EndRound(t) \/ Crash(t)
    BY <2>2, TickerTyped DEF ReleaseTickLock, EndRound, Crash, Out, Rounding
  <2>3. CASE StartRound(t)
    <3>1. [ticker[t] EXCEPT !.pc = "round", !.now = clock].now = clock
      BY <2>0 DEF TickerState
    <3>2. ticker' = [ticker EXCEPT ![t] = [ticker[t] EXCEPT !.pc = "round", !.now = clock]]
          /\ UNCHANGED <<clock, draft>>
      BY <2>3 DEF StartRound
    <3> QED
      BY <3>1, <3>2, TickerTyped
  <2>4. CASE ListPending(t)
    BY <2>4, TickerTyped DEF ListPending, Listed, Out, Rounding
  <2>5. CASE Score(t)
    <3>1. PICK b \in Briefs, f \in Wardrobe \cup {"silent", "same_release"} : ScoreBrief(t, b, f)
      BY <2>5 DEF Score
    <3>2. [ticker[t] EXCEPT !.pc = "scored", !.brief = b, !.fate = f].now = ticker[t].now
      BY <2>0 DEF TickerState
    <3>3. /\ ticker' = [ticker EXCEPT ![t] = [ticker[t] EXCEPT !.pc = "scored", !.brief = b, !.fate = f]]
          /\ ticker[t].pc = "scoring" /\ clock' = clock
      BY <3>1 DEF ScoreBrief
    <3> QED
      BY <3>2, <3>3, TickerTyped DEF Rounding
  <2>6. CASE Persist(t)
    <3>1. \/ ticker' = [ticker EXCEPT ![t] = Listed(@.now, @.todo \ {ticker[t].brief})]
          \/ ticker' = [ticker EXCEPT ![t] = [Out EXCEPT !.pc = "idle"]]
      BY <2>6 DEF Persist
    <3>2. clock' = clock /\ ticker[t].pc = "scored"
      BY <2>6 DEF Persist
    <3> QED
      BY <3>1, <3>2, TickerTyped DEF Listed, Out, Rounding
  <2> QED
    BY <1>2, <2>1, <2>2, <2>3, <2>4, <2>5, <2>6
<1>3. CASE UNCHANGED <<clock, ticker>>
  BY <1>3, Hours DEF Rounding
<1>4. CASE \E t \in Tickers :
             \/ AcquireTickLock(t) \/ ReleaseTickLock(t) \/ StartRound(t) \/ ListPending(t)
             \/ EndRound(t) \/ Crash(t) \/ Score(t) \/ Persist(t)
  BY <1>2, <1>4, Hours DEF Rounding
<1> QED
  BY <1>1, <1>3, <1>4 DEF Next, Pack, Admit, Ingest, PickDraft, RecordVerdict, vars

LEMMA HourStep == ASSUME TypeInv, HandInv, LockInv, HourInv, [Next]_vars PROVE HourInv'
<1>1. ASSUME NEW t \in Tickers, Decides(t), ticker[t].fate \in ArenaId,
             Drafted' = Drafted \cup {ticker[t].brief},
             draft'[ticker[t].brief].at = ticker[t].now,
             \A c \in Briefs \ {ticker[t].brief} : draft'[c] = draft[c]
      PROVE  HourInv'
  <2>1. Rounding(t) /\ clock <= clock' /\ clock' \in Nat /\ ticker[t].now <= clock
    BY <1>1, RoundsInTime DEF Decides, Rounding, HourInv
  <2>2. \A c \in Drafted' : draft'[c].at <= ticker[t].now /\ draft'[c].at \in Nat
    <3>1. \A c \in Drafted : draft[c].at <= ticker[t].now /\ draft[c].at \in Nat
      BY <2>1, Hours DEF HourInv
    <3>2. \A c \in Drafted' : c = ticker[t].brief \/ (c \in Drafted /\ draft'[c] = draft[c])
      BY <1>1, Hours
    <3> QED
      BY <1>1, <3>1, <3>2, Hours
  <2>3. ticker'[t].now = ticker[t].now /\ \A u \in Tickers \ {t} : ticker'[u] = ticker[u]
    BY <1>1, TickerTyped DEF Decides, Listed, Out
  <2>4. \A u \in Tickers \ {t} : ~Rounding(u)
    BY <2>1 DEF LockInv, Rounding
  <2> QED
    BY <2>1, <2>2, <2>3, <2>4, Hours DEF HourInv, Rounding
<1>2. ASSUME Drafted' = Drafted, \A c \in Briefs : draft'[c].at = draft[c].at
      PROVE  HourInv'
  <2>0. clock <= clock' /\ clock' \in Nat /\ clock \in Nat
    BY RoundsInTime, Hours
  <2>1. \A b \in Drafted' : draft'[b].at <= clock'
    <3> SUFFICES ASSUME NEW b \in Drafted PROVE draft[b].at <= clock'
      BY <1>2, Hours
    <3>1. draft[b].at <= clock /\ draft[b].at \in Nat
      BY Hours DEF HourInv
    <3> QED
      BY <2>0, <3>1
  <2>2. \A u \in Tickers : ticker'[u].now <= clock'
    <3> SUFFICES ASSUME NEW u \in Tickers PROVE ticker'[u].now <= clock'
      OBVIOUS
    <3>1. ticker'[u].now = ticker[u].now \/ ticker'[u].now = clock \/ ticker'[u].now = 0
      BY RoundsInTime
    <3>2. ticker[u].now \in Nat
      BY Hours
    <3> QED
      BY <2>0, <3>1, <3>2 DEF HourInv
  <2>3. \A u \in Tickers : Rounding(u)' => \A b \in Drafted' : draft'[b].at <= ticker'[u].now
    <3> SUFFICES ASSUME NEW u \in Tickers, Rounding(u)', NEW b \in Drafted
                 PROVE  draft[b].at <= ticker'[u].now
      BY <1>2, Hours
    <3>1. CASE ticker'[u].now = ticker[u].now /\ Rounding(u)
      BY <3>1 DEF HourInv
    <3>2. CASE ticker'[u].now = clock
      BY <3>2 DEF HourInv
    <3> QED
      BY <3>1, <3>2, RoundsInTime
  <2> QED
    BY <2>1, <2>2, <2>3 DEF HourInv
<1> QED
  BY <1>1, <1>2, RowsInTime

\* The window that scoring asks for is the window of the first.
LEMMA ClearStep == ASSUME TypeInv, HandInv, LockInv, ClearInv, [Next]_vars PROVE ClearInv'
<1>1. ASSUME NEW t \in Tickers, Decides(t) PROVE ClearInv'
  <2>1. \A u \in Tickers : ticker'[u].pc = "scored" => u # t /\ ticker'[u] = ticker[u]
    BY <1>1, DecidesRow
  <2>2. ticker[t].pc = "scored"
    BY <1>1 DEF Decides
  <2> QED
    BY <2>1, <2>2 DEF LockInv, ClearInv
<1>2. ASSUME NEW t \in Tickers, NEW b \in Briefs, NEW f \in Wardrobe \cup {"silent", "same_release"},
             ScoreBrief(t, b, f)
      PROVE  ClearInv'
  <2>1. /\ ticker'[t].fate = f /\ ticker'[t].now = ticker[t].now
        /\ \A u \in Tickers \ {t} : ticker'[u] = ticker[u]
        /\ f \in Fates(b, ticker[t].now) /\ UNCHANGED draft
    BY <1>2, TickerTyped DEF ScoreBrief, TickerState
  <2>2. f \in ArenaId => ~LivingStack(ticker[t].now)
    BY <2>1 DEF Fates, Dressable, ArenaId
  <2>3. ASSUME NEW o \in Stacked, First(o), f \in ArenaId PROVE draft[o].at + StackHours <= ticker[t].now
    <3>1. \A s \in Stacked : draft[o].at <= draft[s].at
      BY <2>3, Hours DEF First
    <3>2. ~(ticker[t].now < draft[o].at + StackHours)
      BY <2>2, <2>3, <3>1 DEF LivingStack
    <3> QED
      BY <3>2, Hours
  <2>4. Stacked' = Stacked /\ \A o \in Stacked : First(o)' => First(o)
    BY <2>1 DEF Stacked, Open, Drafted, First, StackHistory
  <2> QED
    BY <2>1, <2>3, <2>4 DEF ClearInv
<1>3. CASE /\ ~\E t \in Tickers : Decides(t)
           /\ ~\E t \in Tickers : Score(t)
  <2>1. \A u \in Tickers : ticker'[u].pc = "scored" => ticker'[u] = ticker[u]
    BY <1>3, UnscoredStep
  <2>2. /\ Drafted' = Drafted /\ Open' \subseteq Open
        /\ \A c \in Briefs : draft'[c].arena = draft[c].arena /\ draft'[c].at = draft[c].at
    BY <1>3, RowsInTime
  <2>3. Stacked' \subseteq Stacked /\ StackHistory' = StackHistory
    BY <2>2, Hours DEF Stacked, StackHistory, Open, Drafted
  <2>4. \A o \in Stacked' : First(o)' => First(o)
    BY <2>2, <2>3, Hours DEF First
  <2> QED
    BY <2>1, <2>2, <2>3, <2>4, Hours DEF ClearInv
<1> QED
  BY <1>1, <1>2, <1>3 DEF Score

LEMMA WindowStep ==
  ASSUME TypeInv, HandInv, HourInv, ClearInv, WindowOfTheFirst, [Next]_vars
  PROVE  WindowOfTheFirst'
<1>1. ASSUME NEW t \in Tickers, Decides(t), ticker[t].fate \in ArenaId,
             ticker[t].brief \in Briefs \ Drafted, Drafted' = Drafted \cup {ticker[t].brief},
             draft'[ticker[t].brief].at = ticker[t].now,
             \A c \in Briefs \ {ticker[t].brief} : draft'[c] = draft[c]
      PROVE  WindowOfTheFirst'
  <2> DEFINE b == ticker[t].brief
  <2> SUFFICES ASSUME NEW o \in Stacked', First(o)', NEW e \in Drafted' \ {o}
               PROVE  \/ draft'[e].at <= draft'[o].at
                      \/ draft'[e].at >= draft'[o].at + StackHours
    BY DEF WindowOfTheFirst, First
  <2>1. CASE o = b
    BY <1>1, <2>1 DEF HourInv, Decides, Rounding
  <2>2. CASE o # b
    <3>1. o \in Stacked /\ o \in Briefs /\ draft'[o] = draft[o]
      BY <1>1, <2>2 DEF Stacked, Open, Drafted
    <3>2. StackHistory \subseteq StackHistory' /\ \A s \in StackHistory : draft'[s] = draft[s]
      BY <1>1 DEF StackHistory, Drafted
    <3>3. First(o)
      BY <3>1, <3>2 DEF First
    <3>4. draft[o].at + StackHours <= ticker[t].now
      BY <1>1, <3>1, <3>3 DEF ClearInv, Decides
    <3>5. CASE e = b
      BY <1>1, <3>1, <3>4, <3>5, Hours
    <3>6. CASE e # b
      BY <1>1, <3>1, <3>3, <3>6, Hours DEF WindowOfTheFirst, First
    <3> QED
      BY <3>5, <3>6
  <2> QED
    BY <2>1, <2>2
<1>2. ASSUME Drafted' = Drafted, Open' \subseteq Open,
             \A c \in Briefs : draft'[c].arena = draft[c].arena /\ draft'[c].at = draft[c].at
      PROVE  WindowOfTheFirst'
  <2>1. Stacked' \subseteq Stacked /\ StackHistory' = StackHistory
    BY <1>2, Hours DEF Stacked, StackHistory, Open, Drafted
  <2> QED
    BY <1>2, <2>1, Hours DEF WindowOfTheFirst
<1> QED
  BY <1>1, <1>2, RowsInTime

\* The launch window belongs to the first angle: for any number of tick
\* processes, crashes and ingested briefs, as long as one operator stamps.
THEOREM WindowIsKept == ASSUME OneGate PROVE Spec => []WindowOfTheFirst
<1>1. Init => LockInv /\ WindowInv
  BY DEF Init, LockInv, WindowInv, HourInv, ClearInv, WindowOfTheFirst, Stacked, Open, Drafted, NoDraft,
         Out, Rounding
<1>2. TypeInv /\ HandInv /\ LockInv /\ WindowInv /\ [Next]_vars => LockInv' /\ WindowInv'
  BY StepLockInv, HourStep, ClearStep, WindowStep DEF WindowInv
<1>3. WindowInv => WindowOfTheFirst
  BY DEF WindowInv
<1> QED
  BY <1>1, <1>2, <1>3, TypeInvAlways, HandInvAlways, PTL DEF Spec

=============================================================================
