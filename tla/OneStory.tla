------------------------------- MODULE OneStory ------------------------------
(***************************************************************************)
(* What the admission lock of a state.db promises: one story at a time for *)
(* the whole machine, and the artifact of a story that was told once is    *)
(* never told again.                                                       *)
(***************************************************************************)
CONSTANTS Stories, Artifact

VARIABLES floor, told

promise == <<floor, told>>

Init == floor = {} /\ told = {}

OpenStory(s) ==
  /\ floor = {}
  /\ \A t \in told : Artifact[t] # Artifact[s]
  /\ floor' = {s}
  /\ told' = told \cup {s}

CloseStory(s) ==
  /\ s \in floor
  /\ floor' = floor \ {s}
  /\ UNCHANGED told

Next == \E s \in Stories : OpenStory(s) \/ CloseStory(s)

Spec == Init /\ [][Next]_promise

=============================================================================
