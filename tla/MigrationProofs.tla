--------------------------- MODULE MigrationProofs ---------------------------
(***************************************************************************)
(* Proofs about Migration for any processes, profiles and crashes.         *)
(***************************************************************************)
EXTENDS Migration, TLAPS

------------------------------------------------------------------------------
(* The inductive invariant.                                                 *)

\* The parts that the scripts before number n create.
Before(n) == {Scripts[i] : i \in {j \in 1..4 : j < n}}

Migrated(o) == pc[o] \in {"alter", "recover", "update", "stamp"}

\* The stamp promises the scripts up to its number, and a process has run, or
\* found promised, every script before its next one.
VersionInv == /\ version \in 0..4 => Before(version + 1) \subseteq schema
              /\ version = Latest => schema = Complete
ScriptInv ==
  \A o \in Openers :
    /\ pc[o] = "script" => Before(todo[o]) \subseteq schema
    /\ Migrated(o) => Before(5) \subseteq schema
    /\ pc[o] \in {"recover", "update", "stamp"} => "pillars" \in schema
    /\ pc[o] = "open" => version = Latest

\* A profile that a process is about to recover has not changed, unless the
\* database was stamped and opened meanwhile; one whose recovery is over has
\* nothing left to recover.
RecoverInv ==
  \A o \in Openers :
    /\ pc[o] = "update" => seen[o] = profile \/ version = Latest
    /\ pc[o] = "stamp" => ~(Lost /\ profile \in events)

LEMMA BeforeFacts ==
  /\ Before(1) = {}
  /\ \A n \in 1..4 : Before(n + 1) = Before(n) \cup {Scripts[n]}
  /\ Before(5) \cup {"pillars"} = Complete
  /\ \A n \in 1..4 : Scripts[n] \in {"base", "briefs", "gate", "watch"}
  /\ Scripts[3] = "gate"
<1>1. /\ Scripts[1] = "base" /\ Scripts[2] = "briefs"
      /\ Scripts[3] = "gate" /\ Scripts[4] = "watch"
  BY DEF Scripts
<1>2. \A n \in 1..4 : Scripts[n] \in {"base", "briefs", "gate", "watch"}
  BY <1>1
<1>3. Before(1) = {}
  BY DEF Before
<1>4. \A n \in 1..4 : Before(n + 1) = Before(n) \cup {Scripts[n]}
  BY DEF Before
<1>5. Before(5) \cup {"pillars"} = Complete
  BY DEF Before, Complete
<1>6. QED
  BY <1>1, <1>2, <1>3, <1>4, <1>5

------------------------------------------------------------------------------
(* Types                                                                    *)

LEMMA InitTypeOK == Init => TypeOK
<1>1. ASSUME Init PROVE schema \subseteq Complete
  BY <1>1 DEF Init, Complete
<1>2. QED
  BY <1>1, ProfileAssumption, CrashAssumption DEF Init, TypeOK, Latest

LEMMA CreatesParts ==
  ASSUME NEW n \in 1..4
  PROVE  Scripts[n] \in Creates(Scripts[n]) /\ Creates(Scripts[n]) \subseteq Complete
  BY BeforeFacts DEF Creates, Complete

LEMMA NextTypeOK == TypeOK /\ [Next]_vars => TypeOK'
<1> SUFFICES ASSUME TypeOK, [Next]_vars PROVE TypeOK'
  OBVIOUS
<1> USE DEF TypeOK, opener, row, Goto
<1>1. CASE UNCHANGED vars
  BY <1>1 DEF vars
<1>2. ASSUME NEW o \in Openers, Connect(o) PROVE TypeOK'
  BY <1>2 DEF Connect, FirstScript, Latest
<1>3. ASSUME NEW o \in Openers, RunScript(o) PROVE TypeOK'
  <2>1. todo[o] \in 1..4
    BY <1>3 DEF RunScript
  <2>2. schema' \subseteq Complete
    BY <1>3, <2>1, CreatesParts DEF RunScript
  <2>3. todo' \in [Openers -> 1..5]
    BY <1>3, <2>1 DEF RunScript
  <2>4. QED
    BY <1>3, <2>2, <2>3 DEF RunScript
<1>4. ASSUME NEW o \in Openers, LookForColumn(o) PROVE TypeOK'
  BY <1>4 DEF LookForColumn
<1>5. ASSUME NEW o \in Openers, AddColumn(o) PROVE TypeOK'
  BY <1>5 DEF AddColumn, Complete
<1>6. ASSUME NEW o \in Openers, FindLost(o) PROVE TypeOK'
  BY <1>6, ProfileAssumption DEF FindLost, Lost
<1>7. ASSUME NEW o \in Openers, Recover(o) PROVE TypeOK'
  BY <1>7 DEF Recover
<1>8. ASSUME NEW o \in Openers, Stamp(o) PROVE TypeOK'
  BY <1>8 DEF Stamp, Latest
<1>9. ASSUME NEW o \in Openers, NEW p \in Profiles, Save(o, p) PROVE TypeOK'
  BY <1>9 DEF Save
<1>10. ASSUME NEW o \in Openers, Repair(o) PROVE TypeOK'
  BY <1>10 DEF Repair
<1>11. ASSUME NEW o \in Openers, Close(o) PROVE TypeOK'
  BY <1>11 DEF Close
<1>12. ASSUME NEW o \in Openers, Crash(o) PROVE TypeOK'
  BY <1>12, CrashAssumption DEF Crash
<1>13. QED
  BY <1>1, <1>2, <1>3, <1>4, <1>5, <1>6, <1>7, <1>8, <1>9, <1>10, <1>11, <1>12
  DEF Next, Migrate

\* Every variable keeps its type, and only a process that is about to recover
\* a profile remembers one.
THEOREM TypeCorrect == Spec => []TypeOK
<1>1. QED
  BY InitTypeOK, NextTypeOK, PTL DEF Spec

------------------------------------------------------------------------------
(* The stamp tells the truth.                                               *)

StampInv == VersionInv /\ ScriptInv

LEMMA InitStampInv == Init => StampInv
<1> SUFFICES ASSUME Init PROVE StampInv
  OBVIOUS
<1>1. version \in 0..4 /\ Before(version + 1) = schema
  BY DEF Init, Before
<1>2. QED
  BY <1>1 DEF Init, StampInv, VersionInv, ScriptInv, Migrated, Latest

\* Whatever creates parts and leaves the stamp alone keeps what the stamp and
\* the other processes rely on.
LEMMA SchemaGrows ==
  ASSUME TypeOK, StampInv, NEW o \in Openers, schema \subseteq schema', schema' \subseteq Complete,
         version' = version,
         \A q \in Openers \ {o} : pc'[q] = pc[q] /\ todo'[q] = todo[q],
         pc'[o] = "script" => Before(todo'[o]) \subseteq schema',
         Migrated(o)' => Before(5) \subseteq schema',
         pc'[o] \in {"recover", "update", "stamp"} => "pillars" \in schema',
         pc'[o] = "open" => version = Latest
  PROVE  StampInv'
<1>1. VersionInv'
  BY DEF StampInv, VersionInv
<1>2. ScriptInv'
  <2> SUFFICES ASSUME NEW q \in Openers
               PROVE  /\ pc'[q] = "script" => Before(todo'[q]) \subseteq schema'
                      /\ Migrated(q)' => Before(5) \subseteq schema'
                      /\ pc'[q] \in {"recover", "update", "stamp"} => "pillars" \in schema'
                      /\ pc'[q] = "open" => version' = Latest
    BY DEF ScriptInv, Before
  <2>1. CASE q = o
    BY <2>1
  <2>2. CASE q # o
    BY <2>2 DEF StampInv, ScriptInv, Migrated
  <2>3. QED
    BY <2>1, <2>2
<1>3. QED
  BY <1>1, <1>2 DEF StampInv

LEMMA NextStampInv == TypeOK /\ StampInv /\ [Next]_vars => StampInv'
<1> SUFFICES ASSUME TypeOK, StampInv, [Next]_vars PROVE StampInv'
  OBVIOUS
<1>0. TypeOK'
  BY NextTypeOK
<1> USE DEF opener, row, Goto
<1>1. CASE UNCHANGED vars
  BY <1>1 DEF vars, StampInv, VersionInv, ScriptInv, Migrated
<1>2. ASSUME NEW o \in Openers, Connect(o) PROVE StampInv'
  <2>1. version # Latest => version \in 0..4
    BY DEF TypeOK, Latest
  <2>2. version # Latest => Before(version + 1) \subseteq schema
    BY <2>1 DEF StampInv, VersionInv
  <2>3. QED
    BY <1>2, <2>2, <1>0, SchemaGrows DEF Connect, FirstScript, TypeOK, Migrated
<1>3. ASSUME NEW o \in Openers, RunScript(o) PROVE StampInv'
  <2>1. todo[o] \in 1..4
    BY <1>3 DEF RunScript, TypeOK
  <2>2. Before(todo[o]) \subseteq schema
    BY <1>3 DEF RunScript, StampInv, ScriptInv
  <2>3. CASE Raises(Scripts[todo[o]])
    BY <2>3, <1>3, <1>0, SchemaGrows DEF RunScript, TypeOK, Migrated
  <2>4. CASE ~Raises(Scripts[todo[o]])
    <3>1. /\ schema' = schema \cup Creates(Scripts[todo[o]])
          /\ todo' = [todo EXCEPT ![o] = @ + 1] /\ pc' = pc /\ version' = version
          /\ pc[o] = "script"
      BY <2>4, <1>3 DEF RunScript
    <3>2. Before(todo[o] + 1) \subseteq schema'
      BY <2>1, <2>2, <3>1, BeforeFacts, CreatesParts
    <3>3. todo'[o] = todo[o] + 1 /\ \A q \in Openers \ {o} : todo'[q] = todo[q]
      BY <3>1 DEF TypeOK
    <3>4. QED
      BY <3>1, <3>2, <3>3, <1>0, SchemaGrows DEF TypeOK, Migrated
  <2>5. QED
    BY <2>3, <2>4
<1>4. ASSUME NEW o \in Openers, LookForColumn(o) PROVE StampInv'
  <2>1. todo[o] = 5 /\ Before(5) \subseteq schema
    BY <1>4 DEF LookForColumn, StampInv, ScriptInv, TypeOK
  <2>2. QED
    BY <1>4, <2>1, <1>0, SchemaGrows DEF LookForColumn, TypeOK, Migrated
<1>5. ASSUME NEW o \in Openers, AddColumn(o) PROVE StampInv'
  <2>1. Before(5) \subseteq schema
    BY <1>5 DEF AddColumn, StampInv, ScriptInv, Migrated
  <2>2. QED
    BY <1>5, <2>1, <1>0, SchemaGrows DEF AddColumn, TypeOK, Migrated
<1>6. ASSUME NEW o \in Openers, FindLost(o) \/ Recover(o) PROVE StampInv'
  <2>1. Before(5) \subseteq schema /\ "pillars" \in schema
    BY <1>6 DEF FindLost, Recover, StampInv, ScriptInv, Migrated
  <2>2. QED
    BY <1>6, <2>1, <1>0, SchemaGrows DEF FindLost, Recover, TypeOK, Migrated
<1>7. ASSUME NEW o \in Openers, Stamp(o) PROVE StampInv'
  <2>1. schema = Complete
    BY <1>7, BeforeFacts DEF Stamp, StampInv, ScriptInv, Migrated, TypeOK
  <2>2. VersionInv'
    BY <1>7, <2>1 DEF Stamp, VersionInv, Latest
  <2>3. ScriptInv'
    BY <1>7 DEF Stamp, StampInv, ScriptInv, Migrated, TypeOK
  <2>4. QED
    BY <2>2, <2>3 DEF StampInv
<1>8. ASSUME NEW o \in Openers, (\E p \in Profiles : Save(o, p)) \/ Repair(o) PROVE StampInv'
  BY <1>8 DEF Save, Repair, StampInv, VersionInv, ScriptInv, Migrated
<1>9. ASSUME NEW o \in Openers, Close(o) \/ Crash(o) PROVE StampInv'
  BY <1>9, <1>0, SchemaGrows DEF Close, Crash, TypeOK, Migrated
<1>10. QED
  BY <1>1, <1>2, <1>3, <1>4, <1>5, <1>6, <1>7, <1>8, <1>9 DEF Next, Migrate

\* A stamped or an opened database has every table and column, however many
\* processes migrate it at once and wherever they die.
THEOREM StampTrue == Spec => []StampIsTrue
<1>1. TypeOK /\ StampInv => StampIsTrue
  BY DEF StampInv, VersionInv, ScriptInv, StampIsTrue
<1>2. QED
  BY <1>1, InitTypeOK, NextTypeOK, InitStampInv, NextStampInv, PTL DEF Spec

------------------------------------------------------------------------------
(* Recovery.                                                                *)

PillarsInv == PillarsFitProfile /\ EvidenceIsUsed /\ RecoverInv

LEMMA InitPillarsInv == Init => PillarsInv
  BY DEF Init, PillarsInv, PillarsFitProfile, EvidenceIsUsed, RecoverInv, Latest

LEMMA NextPillarsInv == TypeOK /\ StampInv /\ PillarsInv /\ [Next]_vars => PillarsInv'
<1> SUFFICES ASSUME TypeOK, StampInv, PillarsInv, [Next]_vars PROVE PillarsInv'
  OBVIOUS
<1> USE DEF opener, row, Goto
<1>1. CASE UNCHANGED vars
  BY <1>1 DEF vars, PillarsInv, PillarsFitProfile, EvidenceIsUsed, RecoverInv, Lost
<1>2. ASSUME NEW o \in Openers, Connect(o) \/ RunScript(o) \/ LookForColumn(o) \/ AddColumn(o)
      PROVE  PillarsInv'
  <2>1. /\ UNCHANGED <<version, row, seen>>
        /\ \A q \in Openers : pc'[q] \in {"update", "stamp"} => pc'[q] = pc[q]
    BY <1>2 DEF Connect, RunScript, LookForColumn, AddColumn, TypeOK
  <2>2. QED
    BY <2>1 DEF PillarsInv, PillarsFitProfile, EvidenceIsUsed, RecoverInv, Lost
<1>3. ASSUME NEW o \in Openers, FindLost(o) PROVE PillarsInv'
  <2>1. UNCHANGED <<version, row>> /\ Lost' = Lost
    BY <1>3 DEF FindLost, Lost
  <2>2. RecoverInv'
    BY <1>3, <2>1 DEF FindLost, PillarsInv, RecoverInv, TypeOK
  <2>3. QED
    BY <2>1, <2>2 DEF PillarsInv, PillarsFitProfile, EvidenceIsUsed
<1>4. ASSUME NEW o \in Openers, Recover(o) PROVE PillarsInv'
  <2>1. seen[o] = profile \/ version = Latest
    BY <1>4 DEF Recover, PillarsInv, RecoverInv
  <2>2. UNCHANGED <<version, profile, events>> /\ seen[o] \in Profiles
    BY <1>4 DEF Recover, TypeOK
  <2>3. ~(Lost /\ profile \in events)'
    <3>1. CASE StillLost(seen[o])
      BY <3>1, <1>4, <2>2 DEF Recover, StillLost, Lost
    <3>2. CASE ~StillLost(seen[o]) /\ seen[o] = profile
      BY <3>2, <1>4, <2>2 DEF Recover, StillLost, Lost
    <3>3. CASE ~StillLost(seen[o]) /\ version = Latest
      BY <3>3, <1>4, <2>2 DEF Recover, Lost, PillarsInv, EvidenceIsUsed
    <3>4. QED
      BY <2>1, <3>1, <3>2, <3>3
  <2>4. PillarsFitProfile'
    BY <1>4, <2>2, ProfileAssumption
    DEF Recover, StillLost, PillarsInv, PillarsFitProfile
  <2>5. \A q \in Openers \ {o} : pc'[q] = pc[q] /\ seen'[q] = seen[q]
    BY <1>4 DEF Recover, TypeOK
  <2>6. pc'[o] = "stamp"
    BY <1>4 DEF Recover, TypeOK
  <2>7. RecoverInv'
    BY <2>2, <2>3, <2>5, <2>6 DEF PillarsInv, RecoverInv
  <2>8. QED
    BY <2>3, <2>4, <2>7 DEF PillarsInv, EvidenceIsUsed
<1>5. ASSUME NEW o \in Openers, Stamp(o) PROVE PillarsInv'
  <2>1. ~(Lost /\ profile \in events) /\ Lost' = Lost
    BY <1>5 DEF Stamp, PillarsInv, RecoverInv, Lost
  <2>2. QED
    BY <1>5, <2>1 DEF Stamp, PillarsInv, PillarsFitProfile, EvidenceIsUsed, RecoverInv, TypeOK
<1>6. ASSUME NEW o \in Openers, (\E p \in Profiles : Save(o, p)) \/ Repair(o) PROVE PillarsInv'
  <2>1. version = Latest /\ version' = version /\ UNCHANGED opener
    BY <1>6 DEF Save, Repair, StampInv, ScriptInv
  <2>2. profile' # NoProfile /\ pillars' = PillarsOf[profile']
    BY <1>6, ProfileAssumption DEF Save, Repair
  <2>3. QED
    BY <2>1, <2>2 DEF PillarsInv, PillarsFitProfile, EvidenceIsUsed, RecoverInv, Lost
<1>7. ASSUME NEW o \in Openers, Close(o) \/ Crash(o) PROVE PillarsInv'
  <2>1. UNCHANGED <<version, row>> /\ Lost' = Lost
    BY <1>7 DEF Close, Crash, Lost
  <2>2. \A q \in Openers : pc'[q] \in {"update", "stamp"} => pc'[q] = pc[q] /\ seen'[q] = seen[q]
    BY <1>7 DEF Close, Crash, TypeOK
  <2>3. QED
    BY <2>1, <2>2 DEF PillarsInv, PillarsFitProfile, EvidenceIsUsed, RecoverInv
<1>8. QED
  BY <1>1, <1>2, <1>3, <1>4, <1>5, <1>6, <1>7 DEF Next, Migrate

\* Recovery never gives a profile the pillars of another one.
THEOREM PillarsFit == Spec => []PillarsFitProfile
<1>1. QED
  BY InitTypeOK, NextTypeOK, InitStampInv, NextStampInv, InitPillarsInv, NextPillarsInv, PTL
  DEF Spec, PillarsInv

\* A stamped database has recovered every profile that an event holds whole.
THEOREM EvidenceUsed == Spec => []EvidenceIsUsed
<1>1. QED
  BY InitTypeOK, NextTypeOK, InitStampInv, NextStampInv, InitPillarsInv, NextPillarsInv, PTL
  DEF Spec, PillarsInv

------------------------------------------------------------------------------
(* Stranded databases.                                                      *)

LEMMA InitNotStranded == Init => StrandedByCrashOnly
<1> SUFFICES ASSUME Init, Stranded PROVE FALSE
  BY DEF StrandedByCrashOnly
<1>1. version \in 0..2 /\ "gate" \in {Scripts[i] : i \in 1..version}
  BY DEF Init, Stranded
<1>2. Scripts[1] # "gate" /\ Scripts[2] # "gate"
  BY DEF Scripts
<1>3. QED
  BY <1>1, <1>2

\* A process that is past the script of version 3 stays past it until it
\* stamps or dies.
PastGate(o) == pc[o] \notin {"off", "open"} /\ ~(pc[o] = "script" /\ todo[o] <= 3)

LEMMA PastGateStays ==
  ASSUME TypeOK, NEW o \in Openers, NEW q \in Openers, PastGate(o),
         Migrate(q) \/ (\E p \in Profiles : Save(q, p)) \/ Repair(q) \/ Close(q)
  PROVE  PastGate(o)' \/ version' = Latest
<1> USE DEF opener, row, Goto
<1>1. CASE RunScript(q)
  <2>1. ASSUME q = o PROVE pc'[o] = pc[o] /\ todo'[o] = todo[o] + 1 /\ todo[o] \in 3..4
    <3>1. todo[o] = 4
      BY <1>1, <2>1 DEF RunScript, PastGate, TypeOK
    <3>2. ~Raises(Scripts[todo[o]])
      BY <3>1 DEF Raises, Scripts
    <3>3. QED
      BY <1>1, <2>1, <3>1, <3>2 DEF RunScript, TypeOK
  <2>2. ASSUME q # o PROVE pc'[o] = pc[o] /\ todo'[o] = todo[o]
    BY <1>1, <2>2 DEF RunScript, TypeOK
  <2>3. QED
    BY <2>1, <2>2 DEF PastGate, TypeOK
<1>2. CASE Stamp(q)
  BY <1>2 DEF Stamp
<1>3. CASE Connect(q) \/ LookForColumn(q) \/ AddColumn(q) \/ FindLost(q) \/ Recover(q)
  BY <1>3 DEF Connect, LookForColumn, AddColumn, FindLost, Recover, PastGate, TypeOK
<1>4. CASE (\E p \in Profiles : Save(q, p)) \/ Repair(q) \/ Close(q)
  BY <1>4 DEF Save, Repair, Close, PastGate, TypeOK
<1>5. QED
  BY <1>1, <1>2, <1>3, <1>4 DEF Migrate

\* The column of version 3 comes from a process that is past its script.
LEMMA GateComesWithPast ==
  ASSUME TypeOK, [Next]_vars, "gate" \notin schema, "gate" \in schema'
  PROVE  \E o \in Openers : PastGate(o)'
<1>1. PICK o \in Openers : RunScript(o)
  BY DEF Next, Migrate, vars, opener, row, Connect, LookForColumn, AddColumn, FindLost, Recover,
         Stamp, Save, Repair, Close, Crash
<1>2. /\ schema' = schema \cup Creates(Scripts[todo[o]])
      /\ todo' = [todo EXCEPT ![o] = @ + 1] /\ pc' = pc
  BY <1>1 DEF RunScript
<1>3. todo[o] \in 1..4 /\ pc[o] = "script"
  BY <1>1 DEF RunScript, TypeOK
<1>4. todo[o] = 3
  BY <1>2, <1>3 DEF Creates, Scripts
<1>5. todo'[o] = 4 /\ pc'[o] = "script"
  BY <1>2, <1>3, <1>4 DEF TypeOK
<1>6. PastGate(o)'
  BY <1>5 DEF PastGate
<1>7. QED
  BY <1>6

LEMMA NextNotStranded ==
  TypeOK /\ StrandedByCrashOnly /\ [Next]_vars => StrandedByCrashOnly'
<1> SUFFICES ASSUME TypeOK, StrandedByCrashOnly, [Next]_vars, Stranded', ~(crashes' > 0)
             PROVE  FALSE
  BY DEF StrandedByCrashOnly
<1>1. /\ "gate" \in schema' /\ version' < 3 /\ version' # Latest
      /\ \A o \in Openers : ~PastGate(o)'
  BY DEF Stranded, PastGate, Latest
<1>2. "gate" \in schema
  BY <1>1, GateComesWithPast
<1>3. version' = version
  BY <1>1
  DEF Next, Migrate, vars, opener, row, Connect, RunScript, LookForColumn, AddColumn, FindLost,
      Recover, Stamp, Save, Repair, Close, Crash
<1>4. crashes' = crashes /\ ~(crashes > 0) /\ \A o \in Openers : ~Crash(o)
  BY DEF Next, Migrate, vars, opener, row, Connect, RunScript, LookForColumn, AddColumn, FindLost,
         Recover, Stamp, Save, Repair, Close, Crash, TypeOK
<1>5. PICK o \in Openers : PastGate(o)
  BY <1>1, <1>2, <1>3, <1>4 DEF StrandedByCrashOnly, Stranded, PastGate
<1>6. CASE UNCHANGED vars
  BY <1>1, <1>5, <1>6 DEF vars, opener, PastGate
<1>7. CASE Next
  <2>1. PICK q \in Openers :
          Migrate(q) \/ (\E p \in Profiles : Save(q, p)) \/ Repair(q) \/ Close(q)
    BY <1>4, <1>7 DEF Next
  <2>2. QED
    BY <1>1, <1>5, <2>1, PastGateStays
<1>8. QED
  BY <1>6, <1>7

\* Racing openers never strand a database; somebody must have died half-way.
THEOREM OnlyCrashStrands == Spec => []StrandedByCrashOnly
<1>1. QED
  BY InitTypeOK, NextTypeOK, InitNotStranded, NextNotStranded, PTL DEF Spec

=============================================================================
