----------------------------- MODULE Migration -----------------------------
(***************************************************************************)
(* Opening state.db: every process migrates the database it opens, one     *)
(* autocommitted statement after the other, beside others that do the same *)
(* and others that are through and already write.  The last version adds   *)
(* a column to the brand profile and recovers the pillars that a profile   *)
(* lost from an event that holds the whole of it.                          *)
(***************************************************************************)
EXTENDS Naturals, Sequences, FiniteSets

CONSTANTS
  Openers,      \* processes that open the database
  Profiles,     \* brand profiles the project may have, each known by its hash
  PillarsOf,    \* [Profiles -> the pillars that reproduce the hash]
  NoPillars,    \* '[]'
  NoProfile,    \* the project has not been created
  MaxCrashes    \* bound on processes that die

ASSUME ProfileAssumption == NoProfile \notin Profiles
ASSUME CrashAssumption == MaxCrashes \in Nat

VARIABLES
  version,   \* schema_meta
  schema,    \* what exists: a script's tables or columns, and the pillars column
  profile,   \* the row of brand_profiles
  pillars,   \* its pillars_json
  events,    \* profiles that domain_events holds whole
  pc,        \* [Openers -> where the process is]
  todo,      \* [Openers -> number of the next script]
  seen,      \* [Openers -> profile whose pillars are about to be recovered]
  crashes

opener == <<pc, todo, seen>>
row == <<profile, pillars, events>>
vars == <<version, schema, row, opener, crashes>>

------------------------------------------------------------------------------
Latest == 5
Scripts == <<"base", "briefs", "gate", "watch">>
Complete == {Scripts[i] : i \in 1..4} \cup {"pillars"}

\* A database of any version that was ever stamped; one that is old has no
\* pillars column, and its events may have been pruned.
Init ==
  /\ version \in 0..4
  /\ schema = {Scripts[i] : i \in 1..version}
  /\ IF version = 0 THEN profile = NoProfile ELSE profile \in Profiles
  /\ pillars = NoPillars
  /\ events \in SUBSET ({profile} \ {NoProfile})
  /\ pc = [o \in Openers |-> "off"]
  /\ todo = [o \in Openers |-> 1]
  /\ seen = [o \in Openers |-> NoProfile]
  /\ crashes = 0

------------------------------------------------------------------------------
(* migrate.  A name with a suffix is a faulty variant of the definition     *)
(* after it.                                                                *)

Goto(o, to) == pc' = [pc EXCEPT ![o] = to]

\* The scripts that current_version leaves to run: those of later versions.
FirstScript_Past(v) == v + 2
FirstScript_Skips(v) == IF v = 2 THEN 4 ELSE v + 1
FirstScript(v) == v + 1

Connect(o) ==
  /\ pc[o] = "off"
  /\ IF version = Latest
       THEN Goto(o, "open") /\ UNCHANGED todo
       ELSE Goto(o, "script") /\ todo' = [todo EXCEPT ![o] = FirstScript(version)]
  /\ UNCHANGED <<version, schema, row, seen, crashes>>

\* Tables are created if they do not exist; ADD COLUMN has no such clause and
\* the error leaves the process.
Raises_Strict(script) == script \in schema
Raises(script) == script = "gate" /\ script \in schema

\* A brand_profiles that _SCHEMA creates has the pillars column.
Creates(script) ==
  IF script = "base" /\ "base" \notin schema THEN {"base", "pillars"} ELSE {script}

RunScript(o) ==
  /\ pc[o] = "script" /\ todo[o] <= 4
  /\ IF Raises(Scripts[todo[o]])
       THEN Goto(o, "off") /\ UNCHANGED <<schema, todo>>
       ELSE /\ schema' = schema \cup Creates(Scripts[todo[o]])
            /\ todo' = [todo EXCEPT ![o] = @ + 1]
            /\ UNCHANGED pc
  /\ UNCHANGED <<version, row, seen, crashes>>

\* _migrate_v5: the column is looked for, then added.
LookForColumn_Trusts(o) ==
  /\ pc[o] = "script" /\ todo[o] > 4
  /\ Goto(o, IF "pillars" \in schema THEN "stamp" ELSE "alter")
  /\ UNCHANGED <<version, schema, row, todo, seen, crashes>>
LookForColumn(o) ==
  /\ pc[o] = "script" /\ todo[o] > 4
  /\ Goto(o, IF "pillars" \in schema THEN "recover" ELSE "alter")
  /\ UNCHANGED <<version, schema, row, todo, seen, crashes>>

\* A column that another process added meanwhile is accepted.
AddColumn(o) ==
  /\ pc[o] = "alter"
  /\ schema' = schema \cup {"pillars"}
  /\ Goto(o, "recover")
  /\ UNCHANGED <<version, row, todo, seen, crashes>>

\* _recover_v5_pillars reads the row and its events, ...
Lost == profile # NoProfile /\ pillars = NoPillars /\ PillarsOf[profile] # NoPillars

FindLost(o) ==
  /\ pc[o] = "recover"
  /\ IF Lost /\ profile \in events
       THEN Goto(o, "update") /\ seen' = [seen EXCEPT ![o] = profile]
       ELSE Goto(o, "stamp") /\ UNCHANGED seen
  /\ UNCHANGED <<version, schema, row, todo, crashes>>

\* ... then writes, unless the row has changed.
StillLost_Unguarded(p) == pillars = NoPillars
StillLost(p) == pillars = NoPillars /\ profile = p

Recover(o) ==
  /\ pc[o] = "update"
  /\ pillars' = IF StillLost(seen[o]) THEN PillarsOf[seen[o]] ELSE pillars
  /\ seen' = [seen EXCEPT ![o] = NoProfile]
  /\ Goto(o, "stamp")
  /\ UNCHANGED <<version, schema, profile, events, todo, crashes>>

Stamp_OnlyLast(o) ==
  /\ pc[o] = "stamp"
  /\ version' = IF version = 4 THEN Latest ELSE version
  /\ Goto(o, "open")
  /\ UNCHANGED <<schema, row, todo, seen, crashes>>
Stamp(o) ==
  /\ pc[o] = "stamp"
  /\ version' = Latest
  /\ Goto(o, "open")
  /\ UNCHANGED <<schema, row, todo, seen, crashes>>

------------------------------------------------------------------------------
(* A process that is through.                                               *)

\* save_project and save_brand_profile: the hash must match the pillars.
Save(o, p) ==
  /\ pc[o] = "open"
  /\ profile' = p /\ pillars' = PillarsOf[p] /\ events' = events \cup {p}
  /\ UNCHANGED <<version, schema, opener, crashes>>

\* repair_brand_pillars; its event does not hold the evidence that recovery
\* asks for.
Repair(o) ==
  /\ pc[o] = "open" /\ profile # NoProfile
  /\ pillars' = PillarsOf[profile]
  /\ UNCHANGED <<version, schema, profile, events, opener, crashes>>

Close(o) ==
  /\ pc[o] = "open"
  /\ Goto(o, "off")
  /\ UNCHANGED <<version, schema, row, todo, seen, crashes>>

Crash(o) ==
  /\ crashes < MaxCrashes /\ pc[o] \notin {"off", "open"}
  /\ crashes' = crashes + 1
  /\ Goto(o, "off")
  /\ seen' = [seen EXCEPT ![o] = NoProfile]
  /\ UNCHANGED <<version, schema, row, todo>>

------------------------------------------------------------------------------
Migrate(o) ==
  \/ Connect(o) \/ RunScript(o) \/ LookForColumn(o) \/ AddColumn(o)
  \/ FindLost(o) \/ Recover(o) \/ Stamp(o)

Next ==
  \E o \in Openers :
    \/ Migrate(o)
    \/ \E p \in Profiles : Save(o, p)
    \/ Repair(o) \/ Close(o) \/ Crash(o)

Spec == Init /\ [][Next]_vars

\* A process that failed to open the database is started again.
FairSpec == Spec /\ \A o \in Openers : WF_vars(Migrate(o))

------------------------------------------------------------------------------
\* Every variable has its type; only a process about to recover remembers a
\* profile.
TypeOK ==
  /\ version \in 0..Latest /\ schema \subseteq Complete
  /\ profile \in Profiles \cup {NoProfile}
  /\ pillars \in {PillarsOf[p] : p \in Profiles} \cup {NoPillars}
  /\ events \subseteq Profiles
  /\ pc \in [Openers -> {"off", "script", "alter", "recover", "update", "stamp", "open"}]
  /\ todo \in [Openers -> 1..5]
  /\ seen \in [Openers -> Profiles \cup {NoProfile}]
  /\ \A o \in Openers : seen[o] # NoProfile <=> pc[o] = "update"
  /\ crashes \in 0..MaxCrashes

\* A database that is stamped, or that some process has opened, has every
\* table and column, whichever of several migrations at once came first.
StampIsTrue ==
  version = Latest \/ (\E o \in Openers : pc[o] = "open") => schema = Complete

\* Recovery never writes the pillars of one profile into the row of another
\* that was saved since it read (migrations.py:228).
PillarsFitProfile ==
  pillars # NoPillars => profile # NoProfile /\ pillars = PillarsOf[profile]

\* Once the database is stamped, no profile lacks its pillars for which an
\* event holds them, even if the migration was interrupted and begun again.
EvidenceIsUsed == version = Latest /\ Lost => profile \notin events

\* The column of version 3 exists, the stamp that would make the next opener
\* skip it does not, and nobody is under way to set it: no process can open
\* this database any more.
Stranded ==
  /\ "gate" \in schema /\ version < 3
  /\ \A o \in Openers : pc[o] \in {"off", "open"} \/ (pc[o] = "script" /\ todo[o] <= 3)

\* Openers that race for the column of version 3 do not strand the database;
\* it takes a process that dies after it.
StrandedByCrashOnly == Stranded => crashes > 0

\* A process that is started until it succeeds opens the database, unless that
\* is stranded.
EveryoneOpens == \A o \in Openers : pc[o] = "off" ~> (pc[o] = "open" \/ Stranded)

=============================================================================
