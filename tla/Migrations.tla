------------------------------ MODULE Migrations ------------------------------
(***************************************************************************)
(* The boot of the API: packages/db/src/migrations.ts applies the files of *)
(* packages/db/migrations under an advisory lock, then bootstrapDefaultOrg *)
(* (apps/api/src/db.ts) gives the assets of an old single-user install an  *)
(* organization, with no lock.                                             *)
(*                                                                         *)
(* Several replicas boot at once.  A statement of DDL commits by itself; a *)
(* replica may die between any two statements, its connection then lets go *)
(* of the lock and its supervisor starts it again.  The schema is the set  *)
(* of the objects that later statements depend on.                         *)
(***************************************************************************)
EXTENDS Integers, Sequences, FiniteSets

CONSTANTS
    Replicas,     \* the API processes
    MaxCrashes    \* bound: deaths of a process over the whole run

ASSUME MigrationsAssumption ==
    MaxCrashes \in Nat /\ IsFiniteSet(Replicas) /\ "free" \notin Replicas

VARIABLES
    lock,      \* who holds GET_LOCK('hovod_migrations')
    table,     \* schema_migrations exists
    recorded,  \* its rows
    schema,    \* the objects the database has
    orphan,    \* tables with rows that belong to no organization
    default,   \* what there is of the default organization
    runs,      \* history: how often each statement of each file succeeded
    replica,   \* the processes
    crashes    \* how many have died

vars == <<lock, table, recorded, schema, orphan, default, runs, replica, crashes>>

Free == "free"

-----------------------------------------------------------------------------
(* The files.  A statement needs some objects, fails when one it must       *)
(* create is there already ("fresh"), adds some and drops some.             *)

Sql(needs, fresh, adds, drops) == [needs |-> needs, fresh |-> fresh, adds |-> adds, drops |-> drops]
Creates(needs, objects) == Sql(needs, objects, objects, {})
Ensures(needs, objects) == Sql(needs, {}, objects, {})
Data(needs)             == Sql(needs, {}, {}, {})

Baseline == << Creates({}, {"assets", "org_id", "org_index", "text"}),
               Creates({"assets"}, {"renditions", "file_size"}),
               Creates({"assets"}, {"events"}),
               Creates({}, {"users"}),
               Creates({"users"}, {"orgs", "tier", "keys"}) >>

PlaybackSessions == << Ensures({"assets"}, {"sessions"}),
                       Data({"events", "sessions", "org_id"}),
                       Sql({}, {}, {}, {"events"}) >>

ApiHardening == << Creates({"users"}, {"token_version"}),
                   Creates({"keys"}, {"scopes"}),
                   Data({"renditions"}),
                   Creates({"renditions"}, {"uq_quality"}) >>

Cloud == << Creates({"orgs"}, {"plan"}),
            Data({"tier", "plan"}),
            Sql({"tier"}, {}, {}, {"tier"}),
            Creates({"users", "orgs"}, {"invitations", "usage", "storage_bytes"}) >>

ListIndex  == << Ensures({"assets", "org_id"}, {"list_index"}) >>
RepairJson == << Data({"assets"}) >>

Scripts == <<Baseline, PlaybackSessions, ApiHardening, Cloud, ListIndex, RepairJson>>
Files   == DOMAIN Scripts
Steps   == UNION {{f} \X DOMAIN Scripts[f] : f \in Files}
Import  == <<2, 2>>     \* the statement that fills playback_sessions

Objects == UNION {Scripts[st[1]][st[2]].adds : st \in Steps}

(* What is there after the first n files.                                   *)
AddsOf(f)  == UNION {Scripts[f][i].adds : i \in DOMAIN Scripts[f]}
DropsOf(f) == UNION {Scripts[f][i].drops : i \in DOMAIN Scripts[f]}
After(n)   == (UNION {AddsOf(f) : f \in 1 .. n}) \ (UNION {DropsOf(f) : f \in 1 .. n})
Current    == After(Len(Scripts))

Tables == <<"renditions", "events", "users", "orgs">>
Repairs == Tables \o <<"org_id", "text", "file_size", "org_index">>

-----------------------------------------------------------------------------
PCs == {"down", "lock", "detect", "table", "repair", "baseline", "read", "file", "record",
        "unlock", "count", "org", "user", "insertOrg", "insertMember", "adopt",
        "adoptSettings", "adoptSessions", "up"}
Process == [pc : PCs, legacy : BOOLEAN, file : Nat, step : Nat, applied : SUBSET Files]
Down    == [pc |-> "down", legacy |-> FALSE, file |-> 0, step |-> 0, applied |-> {}]

TypeOK ==
    /\ lock \in Replicas \cup {Free}
    /\ table \in BOOLEAN
    /\ recorded \subseteq Files
    /\ schema \subseteq Objects
    /\ orphan \subseteq {"assets", "settings", "sessions"}
    /\ default \subseteq {"user", "org", "member"}
    /\ runs \in [Steps -> 0 .. 2]
    /\ replica \in [Replicas -> Process]
    /\ crashes \in 0 .. MaxCrashes

(* A new database, one of a version with migrations, or one from before:    *)
(* its older columns and tables are there or not, its assets perhaps have   *)
(* no organization.                                                         *)
FreshInstall  == /\ schema = {} /\ table = FALSE /\ recorded = {} /\ orphan = {}
Migrated      == /\ table = TRUE /\ orphan = {}
                 /\ \E n \in Files : recorded = 1 .. n /\ schema = After(n)
LegacyInstall == /\ table = FALSE /\ recorded = {}
                 /\ \/ schema = AddsOf(1) \ {"org_index"} /\ orphan = {}
                    \/ schema = {"assets", "renditions", "events"} /\ orphan = {"assets", "settings"}

Init ==
    /\ lock = Free
    /\ FreshInstall \/ Migrated \/ LegacyInstall
    /\ default = {}
    /\ runs = [st \in Steps |-> 0]
    /\ replica = [r \in Replicas |-> Down]
    /\ crashes = 0

At(r, pc)   == replica[r].pc = pc
Goto(r, pc) == replica' = [replica EXCEPT ![r].pc = pc]

(* The boot throws: the process exits and is started again.                 *)
Fail(r) == replica' = [replica EXCEPT ![r] = Down]
Give(r) == lock' = IF lock = r THEN Free ELSE lock

-----------------------------------------------------------------------------
(* The lock.                                                                *)

Start(r) ==
    /\ At(r, "down")
    /\ Goto(r, "lock")
    /\ UNCHANGED <<lock, table, recorded, schema, orphan, default, runs, crashes>>

(* Mistake: GET_LOCK's answer is not looked at.                             *)
LockAnyway(r) ==
    /\ At(r, "lock")
    /\ lock' = IF lock = Free THEN r ELSE lock
    /\ Goto(r, "detect")
    /\ UNCHANGED <<table, recorded, schema, orphan, default, runs, crashes>>

Lock(r) ==
    /\ At(r, "lock") /\ lock = Free
    /\ lock' = r
    /\ Goto(r, "detect")
    /\ UNCHANGED <<table, recorded, schema, orphan, default, runs, crashes>>

(* Two minutes have gone by.                                                *)
LockTimeout(r) ==
    /\ At(r, "lock") /\ lock # Free
    /\ Fail(r)
    /\ UNCHANGED <<lock, table, recorded, schema, orphan, default, runs, crashes>>

(* Mistake: the connection goes back to the pool with the lock.             *)
UnlockPooled(r) ==
    /\ At(r, "unlock")
    /\ Goto(r, "count")
    /\ UNCHANGED <<lock, table, recorded, schema, orphan, default, runs, crashes>>

Unlock(r) ==
    /\ At(r, "unlock")
    /\ Give(r)
    /\ Goto(r, "count")
    /\ UNCHANGED <<table, recorded, schema, orphan, default, runs, crashes>>

-----------------------------------------------------------------------------
(* runLocked.  "Legacy detection must happen before the migrations table is *)
(* created."                                                                *)

Detect(r) ==
    /\ At(r, "detect")
    /\ replica' = [replica EXCEPT ![r].pc = "table", ![r].legacy = ~table /\ "assets" \in schema]
    /\ UNCHANGED <<lock, table, recorded, schema, orphan, default, runs, crashes>>

CreateTable(r) ==
    /\ At(r, "table")
    /\ table' = TRUE
    /\ replica' = [replica EXCEPT ![r].pc = IF replica[r].legacy THEN "repair" ELSE "read", ![r].step = 1]
    /\ UNCHANGED <<lock, recorded, schema, orphan, default, runs, crashes>>

(* A missing table is created as the baseline says; a column, a type or an  *)
(* index is altered only when INFORMATION_SCHEMA says it must be.           *)
RepairAdds(i) ==
    IF i <= Len(Tables) THEN Baseline[i + 1].adds ELSE {Repairs[i]}

Repair(r) ==
    /\ At(r, "repair")
    /\ LET i == replica[r].step IN
         /\ schema' = IF Repairs[i] \in schema THEN schema ELSE schema \cup RepairAdds(i)
         /\ replica' = IF i = Len(Repairs) THEN [replica EXCEPT ![r].pc = "baseline"]
                       ELSE [replica EXCEPT ![r].step = i + 1]
    /\ UNCHANGED <<lock, table, recorded, orphan, default, runs, crashes>>

RecordBaseline(r) ==
    /\ At(r, "baseline")
    /\ recorded' = recorded \cup {1}
    /\ Goto(r, "read")
    /\ UNCHANGED <<lock, table, schema, orphan, default, runs, crashes>>

Pending(applied, f) == {g \in f .. Len(Scripts) : g \notin applied}
FirstOf(S) == CHOOSE f \in S : \A g \in S : f <= g

(* The next file of the list that was not applied when the list was read.   *)
NextFile(r, applied, f) ==
    replica' = IF Pending(applied, f) = {}
                 THEN [replica EXCEPT ![r].pc = "unlock", ![r].applied = {}, ![r].file = 0, ![r].step = 0]
                 ELSE [replica EXCEPT ![r].pc = "file", ![r].applied = applied,
                                      ![r].file = FirstOf(Pending(applied, f)), ![r].step = 1]

Read(r) ==
    /\ At(r, "read")
    /\ NextFile(r, recorded, 1)
    /\ UNCHANGED <<lock, table, recorded, schema, orphan, default, runs, crashes>>

Runs(sql) == sql.needs \subseteq schema /\ sql.fresh \cap schema = {}

StepDone(r) ==
    LET p == replica[r] IN
    replica' = IF p.step = Len(Scripts[p.file]) THEN [replica EXCEPT ![r].pc = "record"]
               ELSE [replica EXCEPT ![r].step = @ + 1]

Execute(r) ==
    /\ At(r, "file")
    /\ LET st == <<replica[r].file, replica[r].step>>
           sql == Scripts[st[1]][st[2]] IN
         /\ Runs(sql)
         /\ schema' = (schema \cup sql.adds) \ sql.drops
         /\ orphan' = IF st = Import /\ "assets" \in orphan THEN orphan \cup {"sessions"} ELSE orphan
         /\ runs' = [runs EXCEPT ![st] = IF @ = 2 THEN 2 ELSE @ + 1]
         /\ StepDone(r)
    /\ UNCHANGED <<lock, table, recorded, default, crashes>>

(* Mistake: the error of a statement is swallowed, as before there were     *)
(* migrations.                                                              *)
StatementFailsQuietly(r) ==
    /\ At(r, "file")
    /\ ~Runs(Scripts[replica[r].file][replica[r].step])
    /\ StepDone(r)
    /\ UNCHANGED <<lock, table, recorded, schema, orphan, default, runs, crashes>>

(* MigrationError: the lock is released, the boot is over.                  *)
StatementFails(r) ==
    /\ At(r, "file")
    /\ ~Runs(Scripts[replica[r].file][replica[r].step])
    /\ Give(r)
    /\ Fail(r)
    /\ UNCHANGED <<table, recorded, schema, orphan, default, runs, crashes>>

(* Mistake: the position after the file is recorded.                        *)
RecordAfter(r) ==
    /\ At(r, "record")
    /\ recorded' = recorded \cup {replica[r].file + 1}
    /\ NextFile(r, replica[r].applied, replica[r].file + 1)
    /\ UNCHANGED <<lock, table, schema, orphan, default, runs, crashes>>

Record(r) ==
    /\ At(r, "record")
    /\ recorded' = recorded \cup {replica[r].file}
    /\ NextFile(r, replica[r].applied, replica[r].file + 1)
    /\ UNCHANGED <<lock, table, schema, orphan, default, runs, crashes>>

-----------------------------------------------------------------------------
(* bootstrapDefaultOrg.  The e-mail address and the slug are unique.        *)

Count(r) ==
    /\ At(r, "count")
    /\ Goto(r, IF "assets" \in orphan THEN "org" ELSE "up")
    /\ UNCHANGED <<lock, table, recorded, schema, orphan, default, runs, crashes>>

FindOrg(r) ==
    /\ At(r, "org")
    /\ Goto(r, IF "org" \in default THEN "adopt" ELSE "user")
    /\ UNCHANGED <<lock, table, recorded, schema, orphan, default, runs, crashes>>

(* The administrator, then the organization, then its owner's membership:   *)
(* three statements, and no row of a member whose organization is new.      *)
Insert(r, pc, what, next) ==
    /\ At(r, pc)
    /\ IF what \in default THEN Fail(r) /\ UNCHANGED default
       ELSE default' = default \cup {what} /\ Goto(r, next)
    /\ UNCHANGED <<lock, table, recorded, schema, orphan, runs, crashes>>

InsertUser(r) == Insert(r, "user", "user", "insertOrg")
InsertOrg(r)  == Insert(r, "insertOrg", "org", "insertMember")

InsertMember(r) ==
    /\ At(r, "insertMember")
    /\ default' = default \cup {"member"}
    /\ Goto(r, "adopt")
    /\ UNCHANGED <<lock, table, recorded, schema, orphan, runs, crashes>>

Adopt(r, pc, what, next) ==
    /\ At(r, pc)
    /\ orphan' = orphan \ {what}
    /\ Goto(r, next)
    /\ UNCHANGED <<lock, table, recorded, schema, default, runs, crashes>>

AdoptAssets(r)   == Adopt(r, "adopt", "assets", "adoptSettings")
AdoptSettings(r) == Adopt(r, "adoptSettings", "settings", "adoptSessions")
AdoptSessions(r) == Adopt(r, "adoptSessions", "sessions", "up")

-----------------------------------------------------------------------------
(* The process dies; MySQL ends its connection.                             *)
Crash(r) ==
    /\ crashes < MaxCrashes /\ ~At(r, "down")
    /\ crashes' = crashes + 1
    /\ Give(r)
    /\ Fail(r)
    /\ UNCHANGED <<table, recorded, schema, orphan, default, runs>>

Boot(r) ==
    \/ Start(r) \/ Lock(r) \/ Unlock(r) \/ Detect(r) \/ CreateTable(r) \/ Repair(r)
    \/ RecordBaseline(r) \/ Read(r) \/ Execute(r) \/ StatementFails(r) \/ Record(r)
    \/ Count(r) \/ FindOrg(r) \/ InsertUser(r) \/ InsertOrg(r) \/ InsertMember(r)
    \/ AdoptAssets(r) \/ AdoptSettings(r) \/ AdoptSessions(r)

Next == \E r \in Replicas : Boot(r) \/ LockTimeout(r) \/ Crash(r)

Spec == Init /\ [][Next]_vars

(* A booting process goes on, and a supervisor starts it again.  The lock   *)
(* is handed to a waiter while it waits again and again.                    *)
FairSpec == Spec /\ \A r \in Replicas : WF_vars(Boot(r) /\ ~Lock(r)) /\ SF_vars(Lock(r))

-----------------------------------------------------------------------------
(* schema_migrations never says too much: the files it names are the first  *)
(* ones, without a gap, and what they create is there, but for what the     *)
(* next file is dropping; and a replica that serves requests has the whole  *)
(* schema and no asset without an organization.                             *)
RecordedIsApplied ==
    /\ \E n \in 0 .. Len(Scripts) :
         /\ recorded = 1 .. n
         /\ After(n) \ (IF n < Len(Scripts) THEN DropsOf(n + 1) ELSE {}) \subseteq schema
    /\ \A r \in Replicas : At(r, "up") => /\ recorded = Files /\ Current \subseteq schema
                                         /\ "assets" \notin orphan

(* Replicas that boot together do not run a statement twice, not even one   *)
(* that could be: only a death between a statement and the record of its    *)
(* file repeats one.                                                        *)
AppliedOnce == \A st \in Steps : runs[st] > 1 => crashes > 0

(* Unless a process is killed, every replica ends up serving, whatever the  *)
(* age of the database and however the replicas' boots overlap: a timed-out *)
(* wait for the lock, or a rival's default administrator, costs a restart.  *)
BootsUnlessKilled == [](crashes = 0) => <>[](\A r \in Replicas : At(r, "up"))

(* Not kept by the code (README, section on disagreements): once everybody  *)
(* serves, no row is left without an organization.                          *)
SessionsAdopted == (\A r \in Replicas : At(r, "up")) => orphan = {}
=============================================================================
