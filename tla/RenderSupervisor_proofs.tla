------------------------ MODULE RenderSupervisor_proofs ------------------------
(***************************************************************************)
(* The safety of RenderSupervisor for every number of containers, scripts  *)
(* and failures.                                                           *)
(***************************************************************************)
EXTENDS RenderSupervisor, FiniteSetTheorems, TLAPS

USE LastAssumption, MaxCrashesAssumption

-----------------------------------------------------------------------------
(* The inductive invariant *)

MigratorTypes ==
    /\ table \in BOOLEAN
    /\ runs \in [Scripts -> Nat]
    /\ migrator \in [Migrators -> MigratorStates]

\* Of n recorded scripts: a migrator has the scripts from some place up to the next one
\* still to run, and an open transaction is for the next one.
Recorded(n) ==
    /\ n \in 0 .. Last
    /\ recorded = 1 .. n
    /\ \A m \in Migrators : migrator[m].pc = "applying" =>
          \E k \in 0 .. n : migrator[m].todo = k + 1 .. Last
    /\ \A m \in Migrators : migrator[m].pc = "committing" =>
          n < Last /\ migrator[m].todo = n + 1 .. Last
    /\ \A m \in Migrators : migrator[m].pc = "done" => n = Last
    /\ \A f \in Scripts : runs[f] = 0 \/ (runs[f] = 1 /\ f <= n)

OneCommits ==
    \A m, o \in Migrators :
        migrator[m].pc = "committing" /\ migrator[o].pc = "committing" => m = o

MInv == MigratorTypes /\ OneCommits /\ \E n \in Nat : Recorded(n)

Before == {"down", "migrating", "spawning api", "spawning worker", "installing"}

SupTypes ==
    /\ sup \in [Containers -> Locals]
    /\ child \in [Containers -> [Kids -> ChildStates]]
    /\ retired \subseteq Containers
    /\ crashes \in 0 .. MaxCrashes
    /\ asked \subseteq Containers \X Kids

\* What one supervisor knows of its children, and what it still owes them.
Orderly(s) ==
    /\ sup[s].pc \in Before =>
          ~sup[s].stopping /\ sup[s].polled = {} /\ sup[s].code = "none"
    /\ \A k \in sup[s].polled : HasCode(s, k)
    /\ sup[s].code = "zero" => sup[s].stopping
    /\ \A k \in Kids : <<s, k>> \in asked =>
          /\ s \in retired
          /\ sup[s].stopping
          /\ child[s][k] # "killed"
          /\ sup[s].pc = "cleaning" => ~IsAlive(s, k)

\* Once past its migrator, a container is on a database that has everything.
Serving(s) ==
    /\ sup[s].pc \notin {"down", "migrating", "exited"} => recorded = Scripts
    /\ \A k \in Kids : IsAlive(s, k) => recorded = Scripts

SInv == SupTypes /\ \A s \in Containers : Orderly(s) /\ Serving(s)

IInv == MInv /\ SInv

-----------------------------------------------------------------------------
(* The migrators *)

MigratorStep(m) ==
    \/ Migrate(m)
    \/ StartMigrator(m)
    \/ MigratorBreaks(m)
    \/ DropMigrator(m)

LEMMA FirstIs ==
    ASSUME NEW k \in Nat, k < Last
    PROVE  FirstOf(k + 1 .. Last) = k + 1
  <1>1. /\ k + 1 \in k + 1 .. Last
        /\ \A g \in k + 1 .. Last : k + 1 <= g
    OBVIOUS
  <1>2. \A f \in k + 1 .. Last : (\A g \in k + 1 .. Last : f <= g) => f = k + 1
    BY <1>1
  <1> QED
    BY <1>1, <1>2 DEF FirstOf

LEMMA MigratorType ==
    ASSUME MInv, NEW m \in Migrators, NEW pc \in {"idle", "creating", "reading", "applying",
                                                 "committing", "done", "failed"},
           NEW todo \in SUBSET Scripts
    PROVE  /\ [migrator EXCEPT ![m] = [pc |-> pc, todo |-> todo]]
                 \in [Migrators -> MigratorStates]
           /\ [migrator EXCEPT ![m].pc = pc] \in [Migrators -> MigratorStates]
  BY DEF MInv, MigratorTypes, MigratorStates

\* A migrator that turns to something else than a script leaves the rest in order.
LEMMA QuietMigrator ==
    ASSUME MInv, NEW m \in Migrators, NEW new \in MigratorStates,
           migrator' = [migrator EXCEPT ![m] = new],
           new.pc \in {"idle", "creating", "reading", "failed"},
           table' \in BOOLEAN, UNCHANGED <<recorded, runs>>
    PROVE  MInv'
  <1>1. PICK n \in Nat : Recorded(n)
    BY DEF MInv
  <1>2. /\ migrator'[m] = new
        /\ \A o \in Migrators \ {m} : migrator'[o] = migrator[o]
        /\ migrator' \in [Migrators -> MigratorStates]
    BY DEF MInv, MigratorTypes
  <1>3. MigratorTypes'
    BY <1>2 DEF MInv, MigratorTypes
  <1>4. OneCommits'
    BY <1>2 DEF MInv, OneCommits
  <1>5. Recorded(n)'
    BY <1>1, <1>2 DEF Recorded
  <1> QED
    BY <1>3, <1>4, <1>5 DEF MInv

LEMMA ReadStep ==
    ASSUME MInv, NEW m \in Migrators, ReadExisting(m)
    PROVE  MInv'
  <1>1. PICK n \in Nat : Recorded(n)
    BY DEF MInv
  <1>2. Scripts \ recorded = n + 1 .. Last
    BY <1>1 DEF Recorded, Scripts
  <1>3. /\ migrator' = [migrator EXCEPT ![m] = [pc |-> "applying", todo |-> n + 1 .. Last]]
        /\ UNCHANGED <<table, recorded, runs>>
    BY <1>2 DEF ReadExisting
  <1>4. migrator' \in [Migrators -> MigratorStates]
    BY <1>2, <1>3, MigratorType
  <1>5. /\ migrator'[m] = [pc |-> "applying", todo |-> n + 1 .. Last]
        /\ \A o \in Migrators \ {m} : migrator'[o] = migrator[o]
    BY <1>3 DEF MInv, MigratorTypes
  <1>6. MigratorTypes' /\ OneCommits'
    BY <1>3, <1>4, <1>5 DEF MInv, MigratorTypes, OneCommits
  <1>7. n \in 0 .. n
    OBVIOUS
  <1>8. Recorded(n)'
    BY <1>1, <1>3, <1>5, <1>7 DEF Recorded
  <1> QED
    BY <1>6, <1>8 DEF MInv

\* What runs is not recorded, so it is the next one; nobody else has it open.
LEMMA RunStep ==
    ASSUME MInv, NEW m \in Migrators, RunScript(m)
    PROVE  MInv'
  <1> DEFINE f == FirstOf(migrator[m].todo)
  <1>1. PICK n \in Nat : Recorded(n)
    BY DEF MInv
  <1>2. /\ migrator[m].pc = "applying"
        /\ migrator[m].todo # {}
        /\ \A o \in Migrators :
              migrator[o].pc = "committing" => FirstOf(migrator[o].todo) # f
        /\ UNCHANGED <<table, recorded, runs>>
    BY DEF RunScript
  <1>3. PICK k \in 0 .. n : migrator[m].todo = k + 1 .. Last
    BY <1>1, <1>2 DEF Recorded
  <1>4. k \in Nat /\ k < Last /\ n \in 0 .. Last
    BY <1>1, <1>2, <1>3 DEF Recorded
  <1>5. f = k + 1
    BY <1>3, <1>4, FirstIs
  <1>6. CASE IsRecorded(f)
    <2>1. migrator' = [migrator EXCEPT ![m] = [@ EXCEPT !.pc = "failed"]]
      BY <1>6 DEF RunScript, Becomes
    <2>2. [migrator[m] EXCEPT !.pc = "failed"] \in MigratorStates
      BY DEF MInv, MigratorTypes, MigratorStates
    <2>3. [migrator[m] EXCEPT !.pc = "failed"].pc = "failed"
      BY DEF MInv, MigratorTypes, MigratorStates
    <2> QED
      BY <1>2, <2>1, <2>2, <2>3, QuietMigrator DEF MInv, MigratorTypes
  <1>7. CASE ~IsRecorded(f)
    <2>1. k = n
      BY <1>1, <1>3, <1>4, <1>5, <1>7 DEF IsRecorded, Recorded
    <2>2. migrator' = [migrator EXCEPT ![m].pc = "committing"]
      BY <1>7 DEF RunScript, Becomes
    <2>3. /\ migrator'[m].pc = "committing" /\ migrator'[m].todo = n + 1 .. Last
          /\ \A o \in Migrators \ {m} : migrator'[o] = migrator[o]
          /\ migrator' \in [Migrators -> MigratorStates]
      BY <1>3, <2>1, <2>2 DEF MInv, MigratorTypes, MigratorStates
    <2>4. \A o \in Migrators \ {m} : migrator[o].pc # "committing"
      BY <1>1, <1>2, <1>4, <1>5, <2>1, FirstIs DEF Recorded
    <2>5. MigratorTypes' /\ OneCommits'
      BY <1>2, <2>3, <2>4 DEF MInv, MigratorTypes, OneCommits
    <2>6. Recorded(n)'
      BY <1>1, <1>2, <1>4, <2>1, <2>3 DEF Recorded
    <2> QED
      BY <2>5, <2>6 DEF MInv
  <1> QED
    BY <1>6, <1>7

\* The committed script is the next one, and was never committed before.
LEMMA CommitStep ==
    ASSUME MInv, NEW m \in Migrators, CommitScript(m)
    PROVE  MInv' /\ recorded \subseteq recorded'
  <1>1. PICK n \in Nat : Recorded(n)
    BY DEF MInv
  <1>2. n \in 0 .. Last /\ n < Last /\ migrator[m].todo = n + 1 .. Last
    BY <1>1 DEF CommitScript, Recorded
  <1>3. FirstOf(migrator[m].todo) = n + 1 /\ n + 1 \in Scripts
    BY <1>2, FirstIs DEF Scripts
  <1>4. /\ recorded' = recorded \cup {n + 1}
        /\ runs' = [runs EXCEPT ![n + 1] = @ + 1]
        /\ migrator' = [migrator EXCEPT ![m] = [pc |-> "applying",
                                                todo |-> (n + 1 .. Last) \ {n + 1}]]
        /\ table' = table
    BY <1>2, <1>3 DEF CommitScript
  <1>5. (n + 1 .. Last) \ {n + 1} = n + 1 + 1 .. Last
    BY <1>2
  <1>6. /\ migrator' \in [Migrators -> MigratorStates]
        /\ migrator'[m] = [pc |-> "applying", todo |-> n + 1 + 1 .. Last]
        /\ \A o \in Migrators \ {m} : migrator'[o] = migrator[o]
    <2>1. n + 1 + 1 .. Last \in SUBSET Scripts
      BY <1>2 DEF Scripts
    <2>2. migrator' = [migrator EXCEPT ![m] = [pc |-> "applying", todo |-> n + 1 + 1 .. Last]]
      BY <1>4, <1>5
    <2>3. migrator' \in [Migrators -> MigratorStates]
      BY <2>1, <2>2, MigratorType
    <2> QED
      BY <2>2, <2>3 DEF MInv, MigratorTypes
  <1>7. \A o \in Migrators \ {m} : migrator[o].pc # "committing"
    BY DEF CommitScript, MInv, OneCommits
  <1>8. recorded' = 1 .. n + 1 /\ recorded \subseteq recorded'
    BY <1>1, <1>2, <1>4 DEF Recorded
  <1>9. /\ runs' \in [Scripts -> Nat]
        /\ \A f \in Scripts : runs'[f] = 0 \/ (runs'[f] = 1 /\ f <= n + 1)
    <2>1. runs[n + 1] = 0
      BY <1>1, <1>2, <1>3 DEF Recorded
    <2>2. runs \in [Scripts -> Nat]
      BY DEF MInv, MigratorTypes
    <2>3. runs'[n + 1] = 1 /\ \A f \in Scripts \ {n + 1} : runs'[f] = runs[f]
      BY <1>3, <1>4, <2>1, <2>2
    <2>4. \A f \in Scripts : f \in Nat
      BY DEF Scripts
    <2>5. runs' \in [Scripts -> Nat]
      BY <1>3, <1>4, <2>2
    <2> QED
      BY <1>1, <1>2, <2>3, <2>4, <2>5 DEF Recorded
  <1>10. MigratorTypes' /\ OneCommits'
    BY <1>4, <1>6, <1>7, <1>9 DEF MInv, MigratorTypes, OneCommits
  <1>11. Recorded(n + 1)'
    <2>1. n + 1 \in 0 .. Last /\ n + 1 \in 0 .. n + 1 /\ 0 .. n \subseteq 0 .. n + 1
      BY <1>2
    <2>2. \A o \in Migrators \ {m} : migrator[o].pc # "done"
      BY <1>1, <1>2 DEF Recorded
    <2> QED
      BY <1>1, <1>6, <1>7, <1>8, <1>9, <2>1, <2>2 DEF Recorded
  <1> QED
    BY <1>8, <1>10, <1>11 DEF MInv

LEMMA FinishStep ==
    ASSUME MInv, NEW m \in Migrators, FinishMigrator(m)
    PROVE  MInv'
  <1>1. PICK n \in Nat : Recorded(n)
    BY DEF MInv
  <1>2. PICK k \in 0 .. n : migrator[m].todo = k + 1 .. Last
    BY <1>1 DEF Recorded, FinishMigrator
  <1>3. migrator[m].todo = {} /\ n \in 0 .. Last
    BY <1>1 DEF Recorded, FinishMigrator
  <1>4. n = Last
    <2>1. ~(k < Last)
      <3> SUFFICES ASSUME k < Last PROVE FALSE
        OBVIOUS
      <3>1. k + 1 \in k + 1 .. Last
        OBVIOUS
      <3> QED
        BY <1>2, <1>3, <3>1
    <2> QED
      BY <1>3, <2>1
  <1>5. /\ migrator' = [migrator EXCEPT ![m].pc = "done"]
        /\ UNCHANGED <<table, recorded, runs>>
    BY DEF FinishMigrator, Becomes
  <1>6. /\ migrator' \in [Migrators -> MigratorStates]
        /\ migrator'[m].pc = "done"
        /\ \A o \in Migrators \ {m} : migrator'[o] = migrator[o]
    BY <1>5 DEF MInv, MigratorTypes, MigratorStates
  <1>7. MigratorTypes' /\ OneCommits'
    BY <1>5, <1>6 DEF MInv, MigratorTypes, OneCommits
  <1>8. Recorded(n)'
    BY <1>1, <1>4, <1>5, <1>6 DEF Recorded
  <1> QED
    BY <1>7, <1>8 DEF MInv

LEMMA MigratorKeeps ==
    ASSUME MInv, NEW m \in Migrators, MigratorStep(m)
    PROVE  MInv' /\ recorded \subseteq recorded'
  <1> DEFINE Idle == [pc |-> "idle", todo |-> {}]
             With(pc) == [migrator[m] EXCEPT !.pc = pc]
  <1>1. \A pc \in {"idle", "creating", "reading", "applying", "committing", "done", "failed"} :
            With(pc) \in MigratorStates /\ With(pc).pc = pc
    BY DEF MInv, MigratorTypes, MigratorStates
  <1>2. \A pc \in {"idle", "creating", "reading"} :
            [pc |-> pc, todo |-> {}] \in MigratorStates
    BY DEF MigratorStates
  <1>3. table \in BOOLEAN
    BY DEF MInv, MigratorTypes
  <1> HIDE DEF With
  <1>4. CASE CreateTable(m)
    <2>1. migrator' = [migrator EXCEPT ![m] = With(IF table THEN "failed" ELSE "reading")]
      BY <1>4 DEF CreateTable, Becomes, With
    <2> QED
      BY <1>1, <1>4, <2>1, QuietMigrator DEF CreateTable
  <1>5. CASE ReadExisting(m)
    BY <1>5, ReadStep DEF ReadExisting
  <1>6. CASE RunScript(m)
    BY <1>6, RunStep DEF RunScript
  <1>7. CASE CommitScript(m)
    BY <1>7, CommitStep
  <1>8. CASE FinishMigrator(m)
    BY <1>8, FinishStep DEF FinishMigrator
  <1>9. CASE StartMigrator(m)
    BY <1>2, <1>3, <1>9, QuietMigrator DEF StartMigrator
  <1>10. CASE MigratorBreaks(m)
    <2>1. migrator' = [migrator EXCEPT ![m] = With("failed")]
      BY <1>10 DEF MigratorBreaks, Becomes, With
    <2> QED
      BY <1>1, <1>3, <1>10, <2>1, QuietMigrator DEF MigratorBreaks
  <1>11. CASE DropMigrator(m)
    BY <1>2, <1>3, <1>11, QuietMigrator DEF DropMigrator
  <1> QED
    BY <1>4, <1>5, <1>6, <1>7, <1>8, <1>9, <1>10, <1>11 DEF MigratorStep, Migrate

-----------------------------------------------------------------------------
(* The supervisors *)

\* What is known of one container.
LEMMA Known ==
    ASSUME SInv, NEW s \in Containers
    PROVE  /\ sup[s] \in Locals
           /\ child[s] \in [Kids -> ChildStates]
           /\ Orderly(s)
           /\ Serving(s)
  BY DEF SInv, SupTypes

\* A step of one container leaves the others as they are.
LEMMA Frame ==
    ASSUME SInv, NEW s \in Containers,
           NEW new \in Locals, sup' = [sup EXCEPT ![s] = new],
           NEW kids \in [Kids -> ChildStates], child' = [child EXCEPT ![s] = kids],
           retired' \subseteq Containers, retired \subseteq retired',
           crashes' \in 0 .. MaxCrashes,
           asked' \subseteq Containers \X Kids,
           \A t \in Containers \ {s} : \A k \in Kids : <<t, k>> \in asked' => <<t, k>> \in asked,
           recorded = Scripts => recorded' = Scripts,
           Orderly(s)', Serving(s)'
    PROVE  SInv'
  <1>1. SupTypes'
    BY DEF SInv, SupTypes
  <1>2. ASSUME NEW t \in Containers, t # s
        PROVE  Orderly(t)' /\ Serving(t)'
    <2>1. sup'[t] = sup[t] /\ child'[t] = child[t]
      BY <1>2 DEF SInv, SupTypes
    <2>2. Orderly(t) /\ Serving(t)
      BY DEF SInv
    <2>3. Orderly(t)'
      BY <1>2, <2>1, <2>2 DEF Orderly, HasCode, IsAlive, Fresh
    <2>4. Serving(t)'
      BY <2>1, <2>2 DEF Serving, IsAlive
    <2> QED
      BY <2>3, <2>4
  <1> QED
    BY <1>1, <1>2 DEF SInv

\* A container that gets a fresh supervisor without children.
LEMMA FreshIsOrderly ==
    ASSUME SInv, NEW s \in Containers, NEW pc \in {"down", "migrating"},
           sup' = [sup EXCEPT ![s] = Fresh(pc)],
           child' = [child EXCEPT ![s] = [k \in Kids |-> "none"]],
           UNCHANGED <<retired, crashes>>,
           asked' \subseteq asked, \A k \in Kids : <<s, k>> \notin asked',
           recorded = Scripts => recorded' = Scripts
    PROVE  SInv'
  <1>1. /\ Fresh(pc) \in Locals /\ Fresh(pc).pc = pc
        /\ ~Fresh(pc).stopping /\ Fresh(pc).polled = {} /\ Fresh(pc).code = "none"
    BY DEF Fresh, Locals, PCs
  <1>2. [k \in Kids |-> "none"] \in [Kids -> ChildStates]
    BY DEF ChildStates
  <1>3. sup'[s] = Fresh(pc) /\ child'[s] = [k \in Kids |-> "none"]
    BY DEF SInv, SupTypes
  <1>4. Orderly(s)'
    BY <1>1, <1>3 DEF Orderly
  <1>5. Serving(s)'
    BY <1>1, <1>3 DEF Serving, IsAlive
  <1> QED
    BY <1>1, <1>2, <1>4, <1>5, Frame DEF SInv, SupTypes

\* A step that moves the supervisor on and leaves its children alone.
LEMMA GoOn ==
    ASSUME SInv, NEW s \in Containers, NEW new \in Locals,
           sup' = [sup EXCEPT ![s] = new],
           UNCHANGED <<child, retired, asked>>, crashes' \in 0 .. MaxCrashes,
           recorded = Scripts => recorded' = Scripts,
           new.pc \in Before => ~new.stopping /\ new.polled = {} /\ new.code = "none",
           \A k \in new.polled : HasCode(s, k),
           new.code = "zero" => new.stopping,
           \A k \in Kids : <<s, k>> \in asked =>
               new.stopping /\ (new.pc = "cleaning" => ~IsAlive(s, k)),
           new.pc \notin {"down", "migrating", "exited"} => recorded' = Scripts
    PROVE  SInv'
  <1>1. /\ child[s] \in [Kids -> ChildStates] /\ Orderly(s) /\ Serving(s)
        /\ child' = [child EXCEPT ![s] = child[s]]
        /\ sup'[s] = new
    BY Known DEF SInv, SupTypes
  <1>2. Orderly(s)'
    BY <1>1 DEF Orderly, HasCode, IsAlive, Fresh
  <1>3. Serving(s)'
    BY <1>1 DEF Serving, IsAlive
  <1> QED
    BY <1>1, <1>2, <1>3, Frame DEF SInv, SupTypes

LEMMA CrashCounts ==
    ASSUME SInv, Crash
    PROVE  crashes' \in 0 .. MaxCrashes
  <1>1. crashes \in 0 .. MaxCrashes
    BY DEF SInv, SupTypes
  <1> QED
    BY <1>1 DEF Crash

LEMMA LaunchStep ==
    ASSUME SInv, NEW s \in Containers, Launch(s), recorded = Scripts => recorded' = Scripts
    PROVE  SInv'
  <1>1. \A k \in Kids : <<s, k>> \notin asked
    BY Known DEF Launch, Orderly
  <1> QED
    BY <1>1, FreshIsOrderly DEF Launch

LEMMA DestroyStep ==
    ASSUME SInv, NEW s \in Containers, Destroy(s), recorded = Scripts => recorded' = Scripts
    PROVE  SInv'
  <1>1. asked' \subseteq asked /\ \A k \in Kids : <<s, k>> \notin asked'
    BY DEF Destroy
  <1> QED
    BY <1>1, FreshIsOrderly DEF Destroy

LEMMA MigratedStep ==
    ASSUME MInv, SInv, NEW s \in Containers, Migrated(s),
           recorded = Scripts => recorded' = Scripts
    PROVE  SInv'
  <1> DEFINE new == IF MayServe(migrator[s].pc) THEN Fresh("spawning api")
                    ELSE [Fresh("exited") EXCEPT !.code = "nonzero"]
  <1>1. /\ sup' = [sup EXCEPT ![s] = new]
        /\ UNCHANGED <<child, retired, asked, crashes>>
        /\ sup[s].pc = "migrating"
    BY DEF Migrated, Quiet, At
  <1>2. \A k \in Kids : <<s, k>> \notin asked
    BY <1>1, Known DEF Orderly, Before
  <1>3. crashes' \in 0 .. MaxCrashes
    BY <1>1 DEF SInv, SupTypes
  <1>4. CASE MayServe(migrator[s].pc)
    <2>1. recorded = Scripts
      BY <1>4 DEF MayServe, MInv, Recorded, Scripts, Containers
    <2>2. new = Fresh("spawning api") /\ new \in Locals /\ new.pc = "spawning api"
          /\ ~new.stopping /\ new.polled = {} /\ new.code = "none"
      BY <1>4 DEF Fresh, Locals, PCs
    <2> HIDE DEF new
    <2> QED
      BY <1>1, <1>2, <1>3, <2>1, <2>2, GoOn
  <1>5. CASE ~MayServe(migrator[s].pc)
    <2>1. new \in Locals /\ new.pc = "exited" /\ new.polled = {} /\ new.code = "nonzero"
      BY <1>5 DEF Fresh, Locals, PCs
    <2> HIDE DEF new
    <2> QED
      BY <1>1, <1>2, <1>3, <2>1, GoOn DEF Before
  <1> QED
    BY <1>4, <1>5

\* Before the loop the supervisor is fresh, and a child is started.
LEMMA SpawnStep ==
    ASSUME SInv, NEW s \in Containers, NEW k \in Kids,
           NEW to \in {"spawning worker", "installing"},
           sup[s].pc \in {"spawning api", "spawning worker"},
           child' = [child EXCEPT ![s][k] = "running"], Goto(s, to),
           UNCHANGED <<mvars, retired, crashes, asked>>
    PROVE  SInv'
  <1> DEFINE new  == [sup[s] EXCEPT !.pc = to]
             kids == [child[s] EXCEPT ![k] = "running"]
  <1>1. /\ ~sup[s].stopping /\ sup[s].polled = {} /\ sup[s].code = "none"
        /\ recorded = Scripts
    BY Known DEF Orderly, Serving, Before
  <1>2. /\ new \in Locals /\ new.pc = to
        /\ ~new.stopping /\ new.polled = {} /\ new.code = "none"
    BY <1>1, Known DEF Locals, PCs
  <1>3. /\ sup' = [sup EXCEPT ![s] = new]
        /\ child' = [child EXCEPT ![s] = kids]
    BY DEF Goto, SInv, SupTypes
  <1>4. kids \in [Kids -> ChildStates]
    BY Known DEF ChildStates
  <1>5. \A l \in Kids : <<s, l>> \notin asked
    BY <1>1, Known DEF Orderly
  <1>6. sup'[s] = new /\ recorded' = Scripts
    BY <1>1, <1>3 DEF SInv, SupTypes, mvars
  <1> HIDE DEF new, kids
  <1>7. Orderly(s)'
    BY <1>2, <1>5, <1>6 DEF Orderly
  <1>8. Serving(s)'
    BY <1>6 DEF Serving
  <1> QED
    BY <1>1, <1>2, <1>3, <1>4, <1>6, <1>7, <1>8, Frame DEF SInv, SupTypes

LEMMA InstallStep ==
    ASSUME SInv, NEW s \in Containers, InstallHandlers(s)
    PROVE  SInv'
  <1> DEFINE new == [sup[s] EXCEPT !.pc = "polling api"]
  <1>1. /\ sup' = [sup EXCEPT ![s] = new]
        /\ UNCHANGED <<child, retired, asked, crashes, recorded>>
        /\ sup[s].pc = "installing"
    BY DEF InstallHandlers, Quiet, At, Goto, mvars
  <1>2. /\ ~sup[s].stopping /\ sup[s].polled = {} /\ sup[s].code = "none"
        /\ recorded = Scripts
    BY <1>1, Known DEF Orderly, Serving, Before
  <1>3. \A k \in Kids : <<s, k>> \notin asked
    BY <1>2, Known DEF Orderly
  <1>4. /\ new \in Locals /\ new.pc = "polling api" /\ new.polled = {} /\ new.code = "none"
    BY <1>2, Known DEF Locals, PCs
  <1>5. crashes' \in 0 .. MaxCrashes
    BY <1>1 DEF SInv, SupTypes
  <1> HIDE DEF new
  <1> QED
    BY <1>1, <1>2, <1>3, <1>4, <1>5, GoOn DEF Before

Turn == {"polling api", "polling worker", "deciding"}

\* A turn of the loop: what has been polled has a code.
LEMMA TurnStep ==
    ASSUME SInv, NEW s \in Containers, NEW to \in Turn, NEW polled \in SUBSET Kids,
           sup[s].pc \in Turn,
           sup' = [sup EXCEPT ![s].pc = to, ![s].polled = polled],
           \A k \in polled : HasCode(s, k),
           UNCHANGED <<mvars, child, retired, crashes, asked>>
    PROVE  SInv'
  <1> DEFINE new == [sup[s] EXCEPT !.pc = to, !.polled = polled]
  <1>1. sup' = [sup EXCEPT ![s] = new] /\ recorded' = recorded
    BY DEF SInv, SupTypes, mvars
  <1>2. recorded = Scripts
    BY Known DEF Serving, Turn
  <1>3. /\ new \in Locals /\ new.pc = to /\ new.polled = polled
        /\ new.code = sup[s].code /\ new.stopping = sup[s].stopping
    BY Known DEF Locals, PCs, Turn
  <1>4. /\ sup[s].code = "zero" => sup[s].stopping
        /\ \A k \in Kids : <<s, k>> \in asked => sup[s].stopping
    BY Known DEF Orderly
  <1>5. crashes' \in 0 .. MaxCrashes
    BY DEF SInv, SupTypes
  <1> HIDE DEF new
  <1> QED
    BY <1>1, <1>2, <1>3, <1>4, <1>5, GoOn DEF Before, Turn

LEMMA PollStep ==
    ASSUME SInv, NEW s \in Containers, NEW k \in Kids, NEW from \in Turn, NEW to \in Turn,
           Poll(s, k, from, to)
    PROVE  SInv'
  <1> DEFINE polled == IF HasCode(s, k) THEN sup[s].polled \cup {k} ELSE sup[s].polled \ {k}
  <1>1. /\ sup[s].pc \in Turn
        /\ sup' = [sup EXCEPT ![s].pc = to, ![s].polled = polled]
        /\ UNCHANGED <<mvars, child, retired, crashes, asked>>
    BY Known DEF Poll, At, Quiet, SInv, SupTypes, Locals
  <1>2. polled \in SUBSET Kids
    BY Known DEF Locals
  <1>3. \A l \in polled : HasCode(s, l)
    BY Known DEF Orderly
  <1> QED
    BY <1>1, <1>2, <1>3, TurnStep

LEMMA PollAgainStep ==
    ASSUME SInv, NEW s \in Containers, PollAgain(s)
    PROVE  SInv'
  <1>1. /\ sup[s].pc \in Turn
        /\ sup' = [sup EXCEPT ![s].pc = "polling api", ![s].polled = sup[s].polled]
        /\ UNCHANGED <<mvars, child, retired, crashes, asked>>
    BY Known DEF PollAgain, At, Goto, Quiet, SInv, SupTypes, Locals, Turn
  <1>2. sup[s].polled \in SUBSET Kids
    BY Known DEF Locals
  <1>3. \A l \in sup[s].polled : HasCode(s, l)
    BY Known DEF Orderly
  <1> QED
    BY <1>1, <1>2, <1>3, TurnStep DEF Turn

\* A supervisor that was asked to stop returns when both children have their codes.
LEMMA ReturnZeroStep ==
    ASSUME SInv, NEW s \in Containers, ReturnZero(s)
    PROVE  SInv'
  <1> DEFINE new == [sup[s] EXCEPT !.pc = "cleaning", !.code = "zero"]
  <1>1. /\ sup' = [sup EXCEPT ![s] = new]
        /\ UNCHANGED <<child, retired, asked, crashes, recorded>>
        /\ sup[s].pc = "deciding" /\ sup[s].stopping /\ sup[s].polled = Kids
    BY Known DEF ReturnZero, Return, Quiet, At, BothHaveExited, mvars, SInv, SupTypes, Locals
  <1>2. \A k \in Kids : HasCode(s, k)
    BY <1>1, Known DEF Orderly
  <1>3. \A k \in Kids : ~IsAlive(s, k)
    BY <1>2 DEF HasCode, IsAlive
  <1>4. recorded = Scripts
    BY <1>1, Known DEF Serving
  <1>5. /\ new \in Locals /\ new.pc = "cleaning" /\ new.stopping /\ new.polled = Kids
    BY <1>1, Known DEF Locals, PCs
  <1>6. crashes' \in 0 .. MaxCrashes
    BY <1>1 DEF SInv, SupTypes
  <1> HIDE DEF new
  <1> QED
    BY <1>1, <1>2, <1>3, <1>4, <1>5, <1>6, GoOn DEF Before

LEMMA SpawnFailsStep ==
    ASSUME SInv, NEW s \in Containers, SpawnFails(s)
    PROVE  SInv'
  <1> DEFINE new == [Fresh("exited") EXCEPT !.code = "nonzero"]
  <1>1. /\ sup' = [sup EXCEPT ![s] = new]
        /\ UNCHANGED <<child, retired, asked, recorded>>
        /\ sup[s].pc \in {"spawning api", "spawning worker"}
    BY DEF SpawnFails, At, mvars
  <1>2. \A k \in Kids : <<s, k>> \notin asked
    BY <1>1, Known DEF Orderly, Before
  <1>3. new \in Locals /\ new.pc = "exited" /\ new.polled = {} /\ new.code = "nonzero"
    BY DEF Fresh, Locals, PCs
  <1>4. crashes' \in 0 .. MaxCrashes
    BY CrashCounts DEF SpawnFails
  <1> HIDE DEF new
  <1> QED
    BY <1>1, <1>2, <1>3, <1>4, GoOn DEF Before

\* A supervisor that loses a child terminates the other one; it was not asked to stop, so
\* it owes nobody an orderly end.
LEMMA ReturnCodeStep ==
    ASSUME SInv, NEW s \in Containers, ReturnCode(s)
    PROVE  SInv'
  <1> DEFINE k    == IF "api" \in sup[s].polled THEN "api" ELSE "worker"
             new  == [sup[s] EXCEPT !.pc = "cleaning", !.code = "nonzero"]
             kids == [l \in Kids |-> IF l \in Kids \ {k} /\ child[s][l] = "running"
                                     THEN "terminating" ELSE child[s][l]]
  <1>1. /\ sup' = [sup EXCEPT ![s] = new]
        /\ child' = [child EXCEPT ![s] = kids]
        /\ UNCHANGED <<retired, asked, crashes, recorded>>
        /\ sup[s].pc = "deciding" /\ ~sup[s].stopping
    BY DEF ReturnCode, Return, Terminated, At, mvars, SInv, SupTypes
  <1>2. kids \in [Kids -> ChildStates]
    BY Known DEF ChildStates
  <1>3. \A l \in Kids : <<s, l>> \notin asked
    BY <1>1, Known DEF Orderly
  <1>4. \A l \in sup[s].polled : l \in Kids /\ kids[l] \in {"zero", "nonzero", "killed"}
    BY Known DEF Orderly, HasCode, Locals
  <1>5. /\ new \in Locals /\ new.pc = "cleaning" /\ new.code = "nonzero"
        /\ new.polled = sup[s].polled
    BY Known DEF Locals, PCs
  <1>6. recorded = Scripts
    BY <1>1, Known DEF Serving
  <1>7. sup'[s] = new /\ child'[s] = kids
    BY <1>1 DEF SInv, SupTypes
  <1> HIDE DEF new, kids
  <1>8. Orderly(s)'
    BY <1>1, <1>3, <1>4, <1>5, <1>7 DEF Orderly, Before, HasCode
  <1>9. Serving(s)'
    BY <1>1, <1>6 DEF Serving
  <1> QED
    BY <1>1, <1>2, <1>5, <1>8, <1>9, Frame DEF SInv, SupTypes

\* What is killed was not asked to end before the supervisor returned.
LEMMA CleanupStep ==
    ASSUME SInv, NEW s \in Containers, Cleanup(s)
    PROVE  SInv'
  <1> DEFINE new  == [sup[s] EXCEPT !.pc = "exited"]
             kids == [k \in Kids |-> IF IsAlive(s, k) THEN "killed" ELSE child[s][k]]
  <1>1. /\ sup' = [sup EXCEPT ![s] = new]
        /\ child' = [child EXCEPT ![s] = kids]
        /\ UNCHANGED <<retired, asked, crashes, recorded>>
        /\ sup[s].pc = "cleaning"
    BY DEF Cleanup, Goto, At, mvars, SInv, SupTypes
  <1>2. kids \in [Kids -> ChildStates]
    BY Known DEF ChildStates
  <1>3. \A k \in Kids : <<s, k>> \in asked =>
            s \in retired /\ sup[s].stopping /\ kids[k] # "killed"
    BY <1>1, Known DEF Orderly
  <1>4. \A k \in sup[s].polled : k \in Kids /\ kids[k] \in {"zero", "nonzero", "killed"}
    BY Known DEF Orderly, HasCode, IsAlive, Locals
  <1>5. /\ new \in Locals /\ new.pc = "exited" /\ new.code = sup[s].code
        /\ new.polled = sup[s].polled /\ new.stopping = sup[s].stopping
    BY Known DEF Locals, PCs
  <1>6. sup[s].code = "zero" => sup[s].stopping
    BY Known DEF Orderly
  <1>7. sup'[s] = new /\ child'[s] = kids
    BY <1>1 DEF SInv, SupTypes
  <1>8. \A k \in Kids : kids[k] \notin {"running", "terminating"}
    BY DEF IsAlive
  <1> HIDE DEF new, kids
  <1>9. Orderly(s)'
    BY <1>1, <1>3, <1>4, <1>5, <1>6, <1>7 DEF Orderly, Before, HasCode
  <1>10. Serving(s)'
    BY <1>5, <1>7, <1>8 DEF Serving, IsAlive
  <1> QED
    BY <1>1, <1>2, <1>5, <1>9, <1>10, Frame DEF SInv, SupTypes

\* The handler asks only children that run, and before the decision nothing kills them.
LEMMA StopStep ==
    ASSUME SInv, NEW s \in Containers, StopHandler(s)
    PROVE  SInv'
  <1> DEFINE new  == [sup[s] EXCEPT !.stopping = TRUE]
             kids == [k \in Kids |-> IF k \in Kids /\ child[s][k] = "running"
                                     THEN "terminating" ELSE child[s][k]]
  <1>1. /\ sup' = [sup EXCEPT ![s] = new]
        /\ child' = [child EXCEPT ![s] = kids]
        /\ retired' = retired \cup {s}
        /\ s \notin retired
        /\ UNCHANGED <<crashes, recorded>>
        /\ sup[s].pc \in {"polling api", "polling worker", "deciding", "cleaning"}
    BY DEF StopHandler, TerminatesBoth, Terminated, mvars, SInv, SupTypes
  <1>2. kids \in [Kids -> ChildStates]
    BY Known DEF ChildStates
  <1>3. \A k \in Kids : <<s, k>> \notin asked
    BY <1>1, Known DEF Orderly
  <1>4. /\ asked' \subseteq Containers \X Kids
        /\ \A t \in Containers \ {s} : \A k \in Kids : <<t, k>> \in asked' => <<t, k>> \in asked
    <2> DEFINE more == {<<s, k>> : k \in {l \in Kids : child[s][l] = "running"}}
    <2>1. asked' = asked \/ asked' = asked \cup more
      BY DEF StopHandler
    <2>2. /\ more \subseteq Containers \X Kids
          /\ \A t \in Containers \ {s} : \A k \in Kids : <<t, k>> \notin more
      OBVIOUS
    <2>3. asked \subseteq Containers \X Kids
      BY DEF SInv, SupTypes
    <2> HIDE DEF more
    <2> QED
      BY <2>1, <2>2, <2>3
  <1>5. \A k \in Kids : <<s, k>> \in asked' =>
            child[s][k] = "running" /\ sup[s].pc # "cleaning"
    BY <1>3 DEF StopHandler, At
  <1>6. \A k \in sup[s].polled : k \in Kids /\ kids[k] \in {"zero", "nonzero", "killed"}
    BY Known DEF Orderly, HasCode, Locals
  <1>7. /\ new \in Locals /\ new.pc = sup[s].pc /\ new.stopping
        /\ new.polled = sup[s].polled
    BY Known DEF Locals, PCs
  <1>8. \A k \in Kids : child[s][k] = "running" => kids[k] = "terminating"
    OBVIOUS
  <1>9. sup'[s] = new /\ child'[s] = kids /\ s \in retired'
    BY <1>1 DEF SInv, SupTypes
  <1>10. recorded = Scripts
    BY <1>1, Known DEF Serving
  <1> HIDE DEF new, kids
  <1>11. Orderly(s)'
    BY <1>1, <1>5, <1>6, <1>7, <1>8, <1>9 DEF Orderly, Before, HasCode
  <1>12. Serving(s)'
    BY <1>1, <1>10 DEF Serving
  <1>13. retired' \subseteq Containers /\ retired \subseteq retired' /\ crashes' \in 0 .. MaxCrashes
    BY <1>1 DEF SInv, SupTypes
  <1> QED
    BY <1>1, <1>2, <1>4, <1>7, <1>10, <1>11, <1>12, <1>13, Frame

LEMMA LostSignalStep ==
    ASSUME SInv, NEW s \in Containers, SignalIsLost(s)
    PROVE  SInv'
  <1>1. /\ UNCHANGED <<sup, child, crashes, asked, recorded>>
        /\ retired' = retired \cup {s}
    BY DEF SignalIsLost, mvars
  <1>2. SupTypes'
    BY <1>1 DEF SInv, SupTypes
  <1>3. \A t \in Containers : Orderly(t)' /\ Serving(t)'
    BY <1>1 DEF SInv, Orderly, Serving, HasCode, IsAlive
  <1> QED
    BY <1>2, <1>3 DEF SInv

\* A child that ends by itself has a code from then on.
LEMMA EndStep ==
    ASSUME SInv, NEW s \in Containers, NEW k \in Kids, NEW c \in {"zero", "nonzero"},
           child[s][k] \in {"running", "terminating"},
           child' = [child EXCEPT ![s][k] = c],
           UNCHANGED <<sup, retired, asked, recorded>>, crashes' \in 0 .. MaxCrashes
    PROVE  SInv'
  <1> DEFINE kids == [child[s] EXCEPT ![k] = c]
  <1>1. /\ child' = [child EXCEPT ![s] = kids]
        /\ sup' = [sup EXCEPT ![s] = sup[s]]
        /\ sup[s] \in Locals
    BY Known DEF SInv, SupTypes
  <1>2. kids \in [Kids -> ChildStates]
    BY Known DEF ChildStates
  <1>3. kids[k] = c /\ \A l \in Kids \ {k} : kids[l] = child[s][l]
    BY Known
  <1>4. child'[s] = kids
    BY <1>1 DEF SInv, SupTypes
  <1>5. sup[s].polled \subseteq Kids
    BY Known DEF Locals
  <1> HIDE DEF kids
  <1>6. Orderly(s)'
    BY <1>3, <1>4, <1>5, Known DEF Orderly, HasCode, IsAlive
  <1>7. Serving(s)'
    BY <1>3, <1>4, Known DEF Serving, IsAlive
  <1> QED
    BY <1>1, <1>2, <1>6, <1>7, Frame DEF SInv, SupTypes

LEMMA NothingElse ==
    ASSUME SInv, UNCHANGED <<sup, child, retired, asked>>, crashes' \in 0 .. MaxCrashes,
           recorded = Scripts => recorded' = Scripts
    PROVE  SInv'
  <1>1. SupTypes'
    BY DEF SInv, SupTypes
  <1>2. \A t \in Containers : Orderly(t)' /\ Serving(t)'
    BY DEF SInv, Orderly, Serving, HasCode, IsAlive
  <1> QED
    BY <1>1, <1>2 DEF SInv

-----------------------------------------------------------------------------
(* The invariant *)

LEMMA InitIInv == Init => IInv
  <1> SUFFICES ASSUME Init PROVE IInv
    OBVIOUS
  <1>1. PICK n \in 0 .. Last : recorded = 1 .. n
    <2>1. CASE table
      BY <2>1 DEF Init, MigrationsInit
    <2>2. CASE ~table
      <3>1. recorded = {} /\ 1 .. 0 = {} /\ 0 \in 0 .. Last
        BY <2>2 DEF Init, MigrationsInit
      <3> QED
        BY <3>1
    <2> QED
      BY <2>1, <2>2 DEF Init, MigrationsInit
  <1>2. MigratorTypes /\ OneCommits
    <2>1. table \in BOOLEAN /\ runs \in [Scripts -> Nat]
      BY DEF Init, MigrationsInit
    <2>2. migrator = [m \in Migrators |-> [pc |-> "idle", todo |-> {}]]
      BY DEF Init, MigrationsInit
    <2>3. [pc |-> "idle", todo |-> {}] \in MigratorStates
      BY DEF MigratorStates
    <2>4. migrator \in [Migrators -> MigratorStates]
      BY <2>2, <2>3
    <2>5. \A m \in Migrators : migrator[m].pc = "idle"
      BY <2>2
    <2> QED
      BY <2>1, <2>4, <2>5 DEF MigratorTypes, OneCommits
  <1>3. Recorded(n)
    <2>1. \A m \in Migrators : migrator[m].pc = "idle"
      BY DEF Init, MigrationsInit
    <2>2. \A f \in Scripts : runs[f] = 0
      BY DEF Init, MigrationsInit
    <2> QED
      BY <1>1, <2>1, <2>2 DEF Recorded
  <1>4. MInv
    <2>1. n \in Nat
      BY <1>1
    <2> QED
      BY <1>2, <1>3, <2>1 DEF MInv
  <1>5. SupTypes
    BY DEF Init, SupTypes, Fresh, Locals, PCs, ChildStates
  <1>6. ASSUME NEW s \in Containers
        PROVE  Orderly(s) /\ Serving(s)
    <2>1. /\ sup[s].pc = "down" /\ ~sup[s].stopping /\ sup[s].polled = {}
          /\ sup[s].code = "none"
      BY DEF Init, Fresh
    <2>2. asked = {} /\ \A k \in Kids : child[s][k] = "none"
      BY DEF Init
    <2> QED
      BY <2>1, <2>2 DEF Orderly, Serving, IsAlive
  <1> QED
    BY <1>4, <1>5, <1>6 DEF IInv, SInv

\* What a step does to the migrators.
LEMMA MInvStep ==
    ASSUME MInv, NEW s \in Containers, Main(s) \/ RunMigrator(s) \/ Platform(s) \/ Failure(s)
    PROVE  MInv' /\ (recorded = Scripts => recorded' = Scripts)
  <1>1. MigratorStep(s) \/ UNCHANGED mvars
    BY DEF MigratorStep, Main, RunMigrator, Platform, Failure, Migrated, SpawnApi, SpawnWorker,
           InstallHandlers, PollApi, PollWorker, Poll, ReturnZero, ReturnCode, PollAgain,
           Cleanup, Launch, StopHandler, SignalIsLost, Destroy, EndsOnTerm, EndsByItself,
           MigrationBreaks, SpawnFails
  <1>2. CASE UNCHANGED mvars
    BY <1>2 DEF mvars, MInv, MigratorTypes, OneCommits, Recorded
  <1>3. CASE MigratorStep(s)
    <2>1. MInv' /\ recorded \subseteq recorded'
      BY <1>3, MigratorKeeps DEF Containers
    <2>2. recorded' \subseteq Scripts
      BY <2>1 DEF MInv, Recorded, Scripts
    <2> QED
      BY <2>1, <2>2
  <1> QED
    BY <1>1, <1>2, <1>3

LEMMA SInvStep ==
    ASSUME MInv, SInv, NEW s \in Containers,
           Main(s) \/ RunMigrator(s) \/ Platform(s) \/ Failure(s)
    PROVE  SInv'
  <1>1. recorded = Scripts => recorded' = Scripts
    BY MInvStep
  <1>2. crashes \in 0 .. MaxCrashes
    BY DEF SInv, SupTypes
  <1>3. CASE Main(s)
    <2>1. CASE Migrated(s)
      BY <1>1, <2>1, MigratedStep
    <2>2. CASE SpawnApi(s)
      BY <2>2, SpawnStep DEF SpawnApi, At, Kids
    <2>3. CASE SpawnWorker(s)
      BY <2>3, SpawnStep DEF SpawnWorker, At, Kids
    <2>4. CASE InstallHandlers(s)
      BY <2>4, InstallStep
    <2>5. CASE PollApi(s)
      BY <2>5, PollStep DEF PollApi, Kids, Turn
    <2>6. CASE PollWorker(s)
      BY <2>6, PollStep DEF PollWorker, Kids, Turn
    <2>7. CASE ReturnZero(s)
      BY <2>7, ReturnZeroStep
    <2>8. CASE ReturnCode(s)
      BY <2>8, ReturnCodeStep
    <2>9. CASE PollAgain(s)
      BY <2>9, PollAgainStep
    <2>10. CASE Cleanup(s)
      BY <2>10, CleanupStep
    <2> QED
      BY <1>3, <2>1, <2>2, <2>3, <2>4, <2>5, <2>6, <2>7, <2>8, <2>9, <2>10 DEF Main
  <1>4. CASE RunMigrator(s)
    BY <1>1, <1>2, <1>4, NothingElse DEF RunMigrator, svars
  <1>5. CASE Platform(s)
    <2>1. CASE Launch(s)
      BY <1>1, <2>1, LaunchStep
    <2>2. CASE StopHandler(s)
      BY <2>2, StopStep
    <2>3. CASE SignalIsLost(s)
      BY <2>3, LostSignalStep
    <2>4. CASE Destroy(s)
      BY <1>1, <2>4, DestroyStep
    <2>5. ASSUME NEW k \in Kids, EndsOnTerm(s, k)
          PROVE  SInv'
      BY <1>2, <2>5, EndStep DEF EndsOnTerm, mvars
    <2> QED
      BY <1>5, <2>1, <2>2, <2>3, <2>4, <2>5 DEF Platform
  <1>6. CASE Failure(s)
    <2>1. CASE MigrationBreaks(s)
      BY <1>1, <2>1, CrashCounts, NothingElse DEF MigrationBreaks
    <2>2. CASE SpawnFails(s)
      BY <2>2, SpawnFailsStep
    <2>3. ASSUME NEW k \in Kids, EndsByItself(s, k)
          PROVE  SInv'
      <3>1. crashes' \in 0 .. MaxCrashes
        BY <2>3, CrashCounts DEF EndsByItself
      <3> QED
        BY <2>3, <3>1, EndStep DEF EndsByItself, mvars
    <2> QED
      BY <1>6, <2>1, <2>2, <2>3 DEF Failure
  <1> QED
    BY <1>3, <1>4, <1>5, <1>6

\* The invariant of containers and migrators holds, whatever breaks and is signalled when.
THEOREM Invariance == Spec => []IInv
  <1>1. Init => IInv
    BY InitIInv
  <1>2. IInv /\ [Next]_vars => IInv'
    <2> SUFFICES ASSUME IInv, [Next]_vars PROVE IInv'
      OBVIOUS
    <2>1. ASSUME NEW s \in Containers, Main(s) \/ RunMigrator(s) \/ Platform(s) \/ Failure(s)
          PROVE  IInv'
      BY <2>1, MInvStep, SInvStep DEF IInv
    <2>2. CASE UNCHANGED vars
      <3>1. UNCHANGED mvars /\ UNCHANGED svars
        BY <2>2 DEF vars
      <3>2. MInv'
        BY <3>1 DEF IInv, mvars, MInv, MigratorTypes, OneCommits, Recorded
      <3>3. SInv'
        BY <3>1, NothingElse DEF IInv, SInv, SupTypes, mvars, svars
      <3> QED
        BY <3>2, <3>3 DEF IInv
    <2> QED
      BY <2>1, <2>2 DEF Next
  <1> QED
    BY <1>1, <1>2, PTL DEF Spec

\* No script is committed twice or before its predecessors, however many migrators have
\* read the same table before one of them commits.
THEOREM AppliedOnce == Spec => []AppliedOnceInOrder
  <1>1. IInv => AppliedOnceInOrder
    <2> SUFFICES ASSUME IInv PROVE AppliedOnceInOrder
      OBVIOUS
    <2>1. PICK n \in Nat : Recorded(n)
      BY DEF IInv, MInv
    <2>2. n \in 0 .. Last /\ recorded = 1 .. n
      BY <2>1 DEF Recorded
    <2>3. Cardinality(recorded) = n
      BY <2>2, FS_Interval
    <2>4. \A f \in Scripts : runs[f] <= 1
      BY <2>1 DEF Recorded
    <2>5. \A m \in Migrators : migrator[m].pc = "committing" =>
              FirstOf(migrator[m].todo) = n + 1
      BY <2>1, FirstIs DEF Recorded
    <2> QED
      BY <2>2, <2>3, <2>4, <2>5 DEF AppliedOnceInOrder
  <1> QED
    BY <1>1, Invariance, PTL

\* Nothing serves before the database has every migration.
THEOREM ServesMigrated == Spec => []ServesOnlyMigrated
  <1>1. IInv => ServesOnlyMigrated
    BY DEF IInv, SInv, Serving, ServesOnlyMigrated
  <1> QED
    BY <1>1, Invariance, PTL

\* No child that the handler asked in time is killed, and code 0 means a stop.
THEOREM StopOrderly == Spec => []StopIsOrderly
  <1>1. IInv => StopIsOrderly
    <2> SUFFICES ASSUME IInv PROVE StopIsOrderly
      OBVIOUS
    <2>1. recorded \subseteq Scripts
      BY DEF IInv, MInv, Recorded, Scripts
    <2>2. TypeOK
      BY <2>1 DEF IInv, MInv, MigratorTypes, SInv, SupTypes, TypeOK
    <2>3. \A a \in asked : child[a[1]][a[2]] # "killed"
      BY DEF IInv, SInv, SupTypes, Orderly
    <2>4. \A s \in Containers : sup[s].code = "zero" => sup[s].stopping
      BY DEF IInv, SInv, Orderly
    <2> QED
      BY <2>2, <2>3, <2>4 DEF StopIsOrderly
  <1> QED
    BY <1>1, Invariance, PTL

=============================================================================
