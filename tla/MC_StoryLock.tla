----------------------------- MODULE MC_StoryLock -----------------------------
(***************************************************************************)
(* Small instances of StoryLock with three briefs.  1 and 3 tell the same  *)
(* artifact, 2 and 3 name the same release, 1 and 2 submit the same URL to *)
(* HN and would be dressed in the same body; in the instance with two      *)
(* projects 3 belongs to the other one.  One tick of the clock is half a   *)
(* window when StackHours is 2.                                            *)
(***************************************************************************)
EXTENDS StoryLock, TLC

CONSTANTS p, q

OneProject == [b \in Briefs |-> p]
TwoProjects == [b \in Briefs |-> IF b = 3 THEN q ELSE p]
MCArtifact == [b \in Briefs |-> IF b = 2 THEN q ELSE p]
MCRelease == [b \in Briefs |-> IF b \in {2, 3} THEN p ELSE NoKey]
MCUrl == [b \in Briefs |-> IF b = 3 THEN NoKey ELSE p]
MCBody == [b \in Briefs |-> IF b = 3 THEN q ELSE p]
Own == [b \in Briefs |-> b]
None == [b \in Briefs |-> NoKey]

\* Tick processes are interchangeable in the safety runs.
TickSymmetry == Permutations(Tickers)
=============================================================================
