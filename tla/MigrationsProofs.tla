-------------------------- MODULE MigrationsProofs --------------------------
(***************************************************************************)
(* The migrations, for any number of replicas and of deaths:               *)
(*                                                                         *)
(*   MigrationsTyped  the types                                            *)
(*   RecordedApplied  what is recorded is applied, by RecordInv            *)
(*   Once             no statement is executed twice unless a replica      *)
(*                    died, by Exact                                       *)
(*                                                                         *)
(* All rest on LockInv: one replica at a time is between GET_LOCK and its  *)
(* release.  What the files say is used of them only through the lemmas of *)
(* the first section.                                                      *)
(***************************************************************************)
EXTENDS Migrations, TLAPS

Locked == {"detect", "table", "repair", "baseline", "read", "file", "record", "unlock"}
Booted == {"count", "org", "user", "insertOrg", "insertMember", "adopt", "adoptSettings",
           "adoptSessions", "up"}
AtFile == {"file", "record"}

LockInv == \A r \in Replicas : replica[r].pc \in Locked => lock = r

(* What the first n files leave, whoever executes the next one.             *)
Kept(n, objects) ==
    After(n) \ (IF n < Len(Scripts) THEN DropsOf(n + 1) ELSE {}) \subseteq objects

(* The first k statements of file f took effect.                            *)
Partly(f, k, objects) == \A j \in 1 .. k : Scripts[f][j].adds \ DropsOf(f) \subseteq objects

(* What a replica p may rest on, given whether the migrations table is      *)
(* there, its rows, the objects, and the tables with unowned rows.          *)
Placed(p, there, rows, objects, unowned) ==
    /\ p.pc \in {"table", "repair", "baseline"} /\ p.legacy => rows = {} /\ "assets" \in objects
    /\ p.pc \in {"repair", "baseline"} => p.legacy
    /\ p.pc \in Locked \ {"detect", "table"} => there
    /\ p.pc = "repair" =>
           p.step \in 1 .. 8 /\ \A j \in 1 .. p.step - 1 : Repairs[j] \in objects
    /\ p.pc = "baseline" => \A j \in 1 .. 8 : Repairs[j] \in objects
    /\ p.pc \in AtFile =>
           p.file \in Files /\ rows = 1 .. p.file - 1 /\ p.applied \subseteq rows
    /\ p.pc = "file" =>
           p.step \in 1 .. Len(Scripts[p.file]) /\ Partly(p.file, p.step - 1, objects)
    /\ p.pc = "record" => Partly(p.file, Len(Scripts[p.file]), objects)
    /\ p.pc \in Booted \cup {"unlock"} => rows = Files
    /\ p.pc \in {"adoptSettings", "adoptSessions", "up"} => "assets" \notin unowned

RowsInv ==
    /\ \E n \in 0 .. Len(Scripts) : recorded = 1 .. n /\ Kept(n, schema)
    /\ ~table => recorded = {}
    /\ recorded = {} /\ "orgs" \in schema => {"tier", "keys"} \subseteq schema

PlacedInv == \A r \in Replicas : Placed(replica[r], table, recorded, schema, orphan)

RecordInv == RowsInv /\ PlacedInv

(* The objects before statement i of file f, where nothing went wrong.      *)
Before(f, i) ==
    (After(f - 1) \cup UNION {Scripts[f][j].adds : j \in 1 .. i - 1})
        \ UNION {Scripts[f][j].drops : j \in 1 .. i - 1}

(* No statement from that one on has been executed.                         *)
Unrun(f, i, history) ==
    \A st \in Steps : st[1] > f \/ (st[1] = f /\ st[2] >= i) => history[st] = 0

InStep(p, objects, history) ==
    /\ p.pc = "file" => objects = Before(p.file, p.step) /\ Unrun(p.file, p.step, history)
    /\ p.pc = "record" => objects = After(p.file) /\ Unrun(p.file + 1, 1, history)

(* While no file is under way the objects are those of the files recorded,  *)
(* but for an old installation that has not been repaired.                  *)
Unrepaired ==
    /\ "assets" \in schema /\ schema \subseteq AddsOf(1)
    /\ \/ ~table
       \/ \E r \in Replicas : replica[r].pc \in {"repair", "baseline"}

AtRest ==
    (\A r \in Replicas : replica[r].pc \notin AtFile) =>
        \A n \in 0 .. Len(Scripts) : recorded = 1 .. n =>
            /\ Unrun(n + 1, 1, runs)
            /\ schema = After(n) \/ (n = 0 /\ Unrepaired)

Exact ==
    crashes = 0 =>
        /\ \A st \in Steps : runs[st] <= 1
        /\ \A r \in Replicas : InStep(replica[r], schema, runs)
        /\ \A r \in Replicas : replica[r].pc = "table" /\ ~replica[r].legacy =>
               table \/ "assets" \notin schema
        /\ AtRest

-----------------------------------------------------------------------------
(* The files.                                                               *)

LEMMA Shape ==
    /\ Len(Scripts) = 6 /\ Files = 1 .. 6
    /\ Scripts[1] = Baseline /\ Scripts[2] = PlaybackSessions /\ Scripts[3] = ApiHardening
    /\ Scripts[4] = Cloud /\ Scripts[5] = ListIndex /\ Scripts[6] = RepairJson
BY DEF Scripts, Files

LEMMA Lengths ==
    /\ Len(Baseline) = 5 /\ DOMAIN Baseline = 1 .. 5
    /\ Len(PlaybackSessions) = 3 /\ DOMAIN PlaybackSessions = 1 .. 3
    /\ Len(ApiHardening) = 4 /\ DOMAIN ApiHardening = 1 .. 4
    /\ Len(Cloud) = 4 /\ DOMAIN Cloud = 1 .. 4
    /\ Len(ListIndex) = 1 /\ DOMAIN ListIndex = 1 .. 1
    /\ Len(RepairJson) = 1 /\ DOMAIN RepairJson = 1 .. 1
BY DEF Baseline, PlaybackSessions, ApiHardening, Cloud, ListIndex, RepairJson

LEMMA StepNumbers ==
    ASSUME NEW f \in Files
    PROVE  Len(Scripts[f]) \in Nat \ {0} /\ DOMAIN Scripts[f] = 1 .. Len(Scripts[f])
<1>1. f \in 1 .. 6
    BY Shape
<1>2. CASE f \in {1, 2, 3}
    BY <1>2, Shape, Lengths
<1>3. CASE f \in {4, 5, 6}
    BY <1>3, Shape, Lengths
<1> QED
    BY <1>1, <1>2, <1>3

LEMMA IsStep ==
    ASSUME NEW f \in Files, NEW i \in 1 .. Len(Scripts[f])
    PROVE  <<f, i>> \in Steps
<1>1. <<f, i>> \in {f} \X DOMAIN Scripts[f]
    BY StepNumbers
<1> QED
    BY <1>1 DEF Steps

LEMMA StepIs ==
    ASSUME NEW st \in Steps
    PROVE  /\ st = <<st[1], st[2]>> /\ st[1] \in Files
           /\ st[2] \in 1 .. Len(Scripts[st[1]])
BY StepNumbers DEF Steps

(* What a file adds and drops, and what is left after it, element by element. *)
LEMMA InAdds ==
    ASSUME NEW f \in Files, NEW x
    PROVE  x \in AddsOf(f) <=> \E i \in 1 .. Len(Scripts[f]) : x \in Scripts[f][i].adds
BY StepNumbers DEF AddsOf

LEMMA InDrops ==
    ASSUME NEW f \in Files, NEW x
    PROVE  x \in DropsOf(f) <=> \E i \in 1 .. Len(Scripts[f]) : x \in Scripts[f][i].drops
BY StepNumbers DEF DropsOf

LEMMA InAfter ==
    ASSUME NEW n \in 0 .. 6, NEW x
    PROVE  x \in After(n) <=> /\ \E f \in 1 .. n : x \in AddsOf(f)
                              /\ \A f \in 1 .. n : x \notin DropsOf(f)
<1>1. x \in UNION {AddsOf(f) : f \in 1 .. n} <=> \E f \in 1 .. n : x \in AddsOf(f)
    OBVIOUS
<1>2. x \in UNION {DropsOf(f) : f \in 1 .. n} <=> \E f \in 1 .. n : x \in DropsOf(f)
    OBVIOUS
<1> QED
    BY <1>1, <1>2 DEF After

LEMMA InBefore ==
    ASSUME NEW f \in Files, NEW i \in Nat, NEW x
    PROVE  x \in Before(f, i) <=>
               /\ x \in After(f - 1) \/ \E j \in 1 .. i - 1 : x \in Scripts[f][j].adds
               /\ \A j \in 1 .. i - 1 : x \notin Scripts[f][j].drops
BY DEF Before

LEMMA AfterNone == After(0) = {}
<1>1. \A x : x \notin After(0)
    BY InAfter
<1> QED
    BY <1>1

(* The next file adds, then drops.                                          *)
LEMMA AfterNext ==
    ASSUME NEW n \in Files
    PROVE  After(n) \subseteq (After(n - 1) \cup AddsOf(n)) \ DropsOf(n)
<1> SUFFICES ASSUME NEW x \in After(n)
             PROVE  x \in After(n - 1) \cup AddsOf(n) /\ x \notin DropsOf(n)
    OBVIOUS
<1>1. n \in 1 .. 6 /\ n \in 0 .. 6 /\ n - 1 \in 0 .. 6
    BY Shape
<1>2. PICK f \in 1 .. n : x \in AddsOf(f)
    BY <1>1, InAfter
<1>3. \A g \in 1 .. n : x \notin DropsOf(g)
    BY <1>1, InAfter
<1>4. CASE f = n
    BY <1>1, <1>2, <1>3, <1>4
<1>5. CASE f # n
    <2>1. f \in 1 .. n - 1 /\ \A g \in 1 .. n - 1 : g \in 1 .. n
        BY <1>1, <1>2, <1>5
    <2> QED
        BY <1>1, <1>2, <1>3, <2>1, InAfter
<1> QED
    BY <1>4, <1>5

(* The first file, which an old installation has in part: it drops nothing, *)
(* and what it adds is what the repairs look for.                           *)
LEMMA BaselineIs ==
    /\ Baseline[1].adds = {"assets", "org_id", "org_index", "text"}
    /\ Baseline[2].adds = {"renditions", "file_size"}
    /\ Baseline[3].adds = {"events"} /\ Baseline[4].adds = {"users"}
    /\ Baseline[5].adds = {"orgs", "tier", "keys"}
    /\ \A i \in 1 .. 5 : Baseline[i].drops = {}
BY DEF Baseline, Creates, Sql

LEMMA FirstAdds ==
    AddsOf(1) = {"assets", "org_id", "org_index", "text", "renditions", "file_size", "events",
                 "users", "orgs", "tier", "keys"}
<1> DEFINE S == {"assets", "org_id", "org_index", "text", "renditions", "file_size", "events",
                 "users", "orgs", "tier", "keys"}
<1>1. ASSUME NEW x \in AddsOf(1) PROVE x \in S
    <2>1. PICK i \in 1 .. 5 : x \in Baseline[i].adds
        BY <1>1, Shape, Lengths, InAdds
    <2> QED
        BY <2>1, BaselineIs
<1>2. ASSUME NEW x, \E i \in 1 .. 5 : x \in Baseline[i].adds PROVE x \in AddsOf(1)
    BY <1>2, Shape, Lengths, InAdds
<1>3. S \subseteq AddsOf(1)
    BY <1>2, BaselineIs
<1> QED
    BY <1>1, <1>3

LEMMA FirstDrops == DropsOf(1) = {}
<1>1. \A x : x \notin DropsOf(1)
    BY Shape, Lengths, InDrops, BaselineIs
<1> QED
    BY <1>1

LEMMA RepairsAre ==
    /\ Len(Repairs) = 8 /\ Len(Tables) = 4
    /\ Repairs[1] = "renditions" /\ Repairs[2] = "events" /\ Repairs[3] = "users"
    /\ Repairs[4] = "orgs" /\ Repairs[5] = "org_id" /\ Repairs[6] = "text"
    /\ Repairs[7] = "file_size" /\ Repairs[8] = "org_index"
BY DEF Repairs, Tables

LEMMA RepairsAdd ==
    ASSUME NEW i \in 1 .. 8
    PROVE  /\ Repairs[i] \in RepairAdds(i) /\ RepairAdds(i) \subseteq AddsOf(1)
           /\ "orgs" \in RepairAdds(i) => {"tier", "keys"} \subseteq RepairAdds(i)
<1>1. CASE i \in 1 .. 4
    <2>1. RepairAdds(i) = Baseline[i + 1].adds
        BY <1>1, RepairsAre DEF RepairAdds
    <2>2. CASE i = 1
        BY <2>1, <2>2, RepairsAre, BaselineIs, FirstAdds
    <2>3. CASE i = 2
        BY <2>1, <2>3, RepairsAre, BaselineIs, FirstAdds
    <2>4. CASE i = 3
        BY <2>1, <2>4, RepairsAre, BaselineIs, FirstAdds
    <2>5. CASE i = 4
        BY <2>1, <2>5, RepairsAre, BaselineIs, FirstAdds
    <2> QED
        BY <1>1, <2>2, <2>3, <2>4, <2>5
<1>2. CASE i \in 5 .. 8
    <2>1. RepairAdds(i) = {Repairs[i]}
        BY <1>2, RepairsAre DEF RepairAdds
    <2>2. Repairs[i] \in {"org_id", "text", "file_size", "org_index"}
        BY <1>2, RepairsAre
    <2> QED
        BY <2>1, <2>2, FirstAdds
<1> QED
    BY <1>1, <1>2

LEMMA Repaired ==
    ASSUME NEW S, \A j \in 1 .. 8 : Repairs[j] \in S, "assets" \in S,
           "orgs" \in S => {"tier", "keys"} \subseteq S
    PROVE  AddsOf(1) \subseteq S
BY RepairsAre, FirstAdds

LEMMA AddsAreObjects == ASSUME NEW f \in Files PROVE AddsOf(f) \subseteq Objects
<1> SUFFICES ASSUME NEW x \in AddsOf(f) PROVE x \in Objects
    OBVIOUS
<1>1. PICK i \in 1 .. Len(Scripts[f]) : x \in Scripts[f][i].adds
    BY InAdds
<1>2. <<f, i>> \in Steps
    BY IsStep
<1>3. x \in Scripts[<<f, i>>[1]][<<f, i>>[2]].adds
    BY <1>1
<1> QED
    BY <1>2, <1>3 DEF Objects

LEMMA AfterAreObjects == ASSUME NEW n \in 0 .. 6 PROVE After(n) \subseteq Objects
<1> SUFFICES ASSUME NEW x \in After(n) PROVE x \in Objects
    OBVIOUS
<1>1. PICK f \in 1 .. n : x \in AddsOf(f)
    BY InAfter
<1>2. f \in Files
    BY Shape
<1> QED
    BY <1>1, <1>2, AddsAreObjects

-----------------------------------------------------------------------------
(* What is recorded is applied.                                             *)

MoveInv == TypeOK /\ LockInv /\ PlacedInv

(* One replica moves.  Unless it holds the lock it leaves the rows and the  *)
(* objects alone, and the lock stays with who has it.                       *)
LEMMA Moves ==
    ASSUME MigrationsAssumption, MoveInv, NEW r \in Replicas, NEW p \in Process,
           replica' = [replica EXCEPT ![r] = p],
           Placed(p, table', recorded', schema', orphan'),
           p.pc \in Locked => lock' = r,
           \/ lock' = lock
           \/ lock = Free /\ lock' = r
           \/ lock = r /\ lock' = Free,
           \/ UNCHANGED <<recorded, schema>>
           \/ replica[r].pc \in Locked /\ recorded \subseteq recorded' /\ recorded' \subseteq Files,
           "assets" \in orphan' => "assets" \in orphan,
           table => table'
    PROVE  replica' \in [Replicas -> Process] /\ LockInv' /\ PlacedInv'
<1>1. replica' \in [Replicas -> Process]
    BY DEF MoveInv, TypeOK
<1>2. \A s \in Replicas : replica'[s] = IF s = r THEN p ELSE replica[s]
    BY DEF MoveInv, TypeOK
<1>3. ASSUME NEW s \in Replicas, s # r, replica[s].pc \in Locked
      PROVE  lock' = s /\ UNCHANGED <<recorded, schema>>
    <2>1. lock = s /\ lock # Free
        BY <1>3, MigrationsAssumption DEF MoveInv, LockInv, MigrationsAssumption, Free
    <2>2. replica[r].pc \notin Locked
        BY <1>3, <2>1 DEF MoveInv, LockInv
    <2> QED
        BY <1>3, <2>1, <2>2
<1>4. LockInv'
    BY <1>2, <1>3 DEF MoveInv, LockInv
<1>5. ASSUME NEW s \in Replicas, s # r
      PROVE  Placed(replica[s], table', recorded', schema', orphan')
    <2>1. Placed(replica[s], table, recorded, schema, orphan)
        BY DEF MoveInv, PlacedInv
    <2>2. CASE replica[s].pc \in Locked
        BY <1>3, <1>5, <2>1, <2>2 DEF Placed
    <2>3. CASE replica[s].pc \notin Locked
        BY <2>1, <2>3 DEF Placed, Locked, AtFile
    <2> QED
        BY <2>2, <2>3
<1> QED
    BY <1>1, <1>2, <1>4, <1>5 DEF PlacedInv

Inv == MoveInv /\ RowsInv

(* A step that writes neither rows nor objects.                             *)
LEMMA Unwritten ==
    ASSUME MigrationsAssumption, Inv, NEW r \in Replicas, NEW p \in Process,
           replica' = [replica EXCEPT ![r] = p],
           Placed(p, table', recorded, schema, orphan'),
           p.pc \in Locked => lock' = r,
           \/ lock' = lock
           \/ lock = Free /\ lock' = r
           \/ lock = r /\ lock' = Free,
           UNCHANGED <<recorded, schema, runs>>, table' \in {table, TRUE},
           orphan' \subseteq orphan, default' \subseteq {"user", "org", "member"},
           crashes' \in 0 .. MaxCrashes
    PROVE  Inv'
<1>0. table \in BOOLEAN /\ (table => table')
    BY DEF Inv, MoveInv, TypeOK
<1>1. Placed(p, table', recorded', schema', orphan')
    BY DEF Placed
<1>2. replica' \in [Replicas -> Process] /\ LockInv' /\ PlacedInv'
    BY <1>0, <1>1, Moves DEF Inv
<1>3. TypeOK'
    BY <1>2 DEF Inv, MoveInv, TypeOK
<1>4. RowsInv'
    BY DEF Inv, RowsInv
<1> QED
    BY <1>2, <1>3, <1>4 DEF Inv, MoveInv

LEMMA ProcessAt ==
    ASSUME TypeOK, NEW r \in Replicas, NEW pc \in PCs
    PROVE  /\ [replica[r] EXCEPT !.pc = pc] \in Process
           /\ [replica[r] EXCEPT !.pc = pc].pc = pc
           /\ [replica[r] EXCEPT !.pc = pc].legacy = replica[r].legacy
           /\ [replica[r] EXCEPT !.pc = pc].step = replica[r].step
           /\ [replica[r] EXCEPT !.pc = pc].file = replica[r].file
           /\ [replica[r] EXCEPT !.pc = pc].applied = replica[r].applied
<1>1. replica[r] \in Process
    BY DEF TypeOK
<1> QED
    BY <1>1 DEF Process

LEMMA DownPlaced ==
    ASSUME NEW there, NEW rows, NEW objects, NEW unowned
    PROVE  Down \in Process /\ Down.pc = "down" /\ Placed(Down, there, rows, objects, unowned)
BY DEF Down, Process, PCs, Placed, AtFile, Booted, Locked

(* A boot that ends, in error or in death, gives the lock back.             *)
LEMMA EndKept ==
    ASSUME MigrationsAssumption, Inv, NEW r \in Replicas, Fail(r),
           Give(r) \/ UNCHANGED lock, UNCHANGED <<table, recorded, schema, orphan, default, runs>>,
           crashes' \in 0 .. MaxCrashes
    PROVE  Inv'
<1>1. replica' = [replica EXCEPT ![r] = Down]
    BY DEF Fail
<1>2. lock' = lock \/ (lock = r /\ lock' = Free)
    BY DEF Give
<1>3. default' \subseteq {"user", "org", "member"}
    BY DEF Inv, MoveInv, TypeOK
<1>4. Down.pc \notin Locked
    BY DownPlaced DEF Locked
<1> HIDE DEF Down
<1> QED
    BY <1>1, <1>2, <1>3, <1>4, DownPlaced, Unwritten

(* Waiting for the lock, and giving it back.                                *)
LEMMA LockKept ==
    ASSUME MigrationsAssumption, Inv, NEW r \in Replicas,
           Start(r) \/ Lock(r) \/ LockTimeout(r) \/ Unlock(r)
    PROVE  Inv'
<1>1. /\ UNCHANGED <<table, recorded, schema, orphan, default, runs, crashes>>
      /\ crashes \in 0 .. MaxCrashes /\ default \subseteq {"user", "org", "member"}
    BY DEF Start, Lock, LockTimeout, Unlock, Inv, MoveInv, TypeOK
<1>2. CASE Start(r)
    <2> DEFINE p == [replica[r] EXCEPT !.pc = "lock"]
    <2>1. p \in Process /\ p.pc = "lock"
        BY ProcessAt DEF PCs, Inv, MoveInv
    <2>2. replica' = [replica EXCEPT ![r] = p] /\ lock' = lock
        BY <1>2 DEF Start, Goto
    <2> HIDE DEF p
    <2>3. Placed(p, table', recorded, schema, orphan') /\ p.pc \notin Locked
        BY <2>1 DEF Placed, AtFile, Booted, Locked
    <2> QED
        BY <1>1, <2>1, <2>2, <2>3, Unwritten
<1>3. CASE Lock(r)
    <2> DEFINE p == [replica[r] EXCEPT !.pc = "detect"]
    <2>1. p \in Process /\ p.pc = "detect"
        BY ProcessAt DEF PCs, Inv, MoveInv
    <2>2. replica' = [replica EXCEPT ![r] = p] /\ lock = Free /\ lock' = r
        BY <1>3 DEF Lock, Goto
    <2> HIDE DEF p
    <2>3. Placed(p, table', recorded, schema, orphan')
        BY <2>1 DEF Placed, AtFile, Booted
    <2> QED
        BY <1>1, <2>1, <2>2, <2>3, Unwritten
<1>4. CASE LockTimeout(r)
    BY <1>1, <1>4, EndKept DEF LockTimeout
<1>5. CASE Unlock(r)
    <2> DEFINE p == [replica[r] EXCEPT !.pc = "count"]
    <2>1. p \in Process /\ p.pc = "count"
        BY ProcessAt DEF PCs, Inv, MoveInv
    <2>2. replica' = [replica EXCEPT ![r] = p] /\ replica[r].pc = "unlock" /\ Give(r)
        BY <1>5 DEF Unlock, Goto, At
    <2>3. lock' = lock \/ (lock = r /\ lock' = Free)
        BY <2>2 DEF Give
    <2>4. recorded = Files
        BY <2>2 DEF Inv, MoveInv, PlacedInv, Placed
    <2> HIDE DEF p
    <2>5. Placed(p, table', recorded, schema, orphan') /\ p.pc \notin Locked
        BY <2>1, <2>4 DEF Placed, AtFile, Booted, Locked
    <2> QED
        BY <1>1, <2>1, <2>2, <2>3, <2>5, Unwritten
<1> QED
    BY <1>2, <1>3, <1>4, <1>5

(* The default organization.  Nobody holds a lock here, nor needs one: the  *)
(* assets that have none are given one by a single statement.               *)
LEMMA BootstrapStep ==
    ASSUME MigrationsAssumption, Inv, NEW r \in Replicas, NEW pc \in Booted,
           replica[r].pc \in Booted, Goto(r, pc),
           pc \in {"adoptSettings", "adoptSessions", "up"} => "assets" \notin orphan',
           orphan' \subseteq orphan, default' \subseteq {"user", "org", "member"},
           UNCHANGED <<lock, table, recorded, schema, runs, crashes>>
    PROVE  Inv'
<1> DEFINE p == [replica[r] EXCEPT !.pc = pc]
<1>0. pc \in PCs
    BY DEF PCs, Booted
<1>1. p \in Process /\ p.pc = pc
    BY <1>0, ProcessAt DEF Inv, MoveInv
<1>2. replica' = [replica EXCEPT ![r] = p]
    BY DEF Goto
<1>3. recorded = Files
    BY DEF Inv, MoveInv, PlacedInv, Placed
<1> HIDE DEF p
<1>4. Placed(p, table', recorded, schema, orphan') /\ p.pc \notin Locked
    BY <1>1, <1>3 DEF Placed, AtFile, Booted, Locked
<1>5. crashes' \in 0 .. MaxCrashes
    BY DEF Inv, MoveInv, TypeOK
<1> QED
    BY <1>1, <1>2, <1>4, <1>5, Unwritten

LEMMA BootstrapKept ==
    ASSUME MigrationsAssumption, Inv, NEW r \in Replicas,
           \/ Count(r) \/ FindOrg(r) \/ InsertUser(r) \/ InsertOrg(r) \/ InsertMember(r)
           \/ AdoptAssets(r) \/ AdoptSettings(r) \/ AdoptSessions(r)
    PROVE  Inv'
<1>1. default \subseteq {"user", "org", "member"} /\ crashes \in 0 .. MaxCrashes
    BY DEF Inv, MoveInv, TypeOK
<1>2. CASE Count(r)
    BY <1>1, <1>2, BootstrapStep DEF Count, At, Booted
<1>3. CASE FindOrg(r)
    BY <1>1, <1>3, BootstrapStep DEF FindOrg, At, Booted
<1>4. ASSUME NEW pc \in Booted, NEW what \in {"user", "org"},
             NEW next \in {"insertOrg", "insertMember"}, Insert(r, pc, what, next)
      PROVE  Inv'
    <2>1. CASE what \in default
        <3>1. Fail(r) /\ UNCHANGED <<lock, table, recorded, schema, orphan, default, runs, crashes>>
            BY <1>4, <2>1 DEF Insert
        <3> QED
            BY <1>1, <3>1, EndKept
    <2>2. CASE what \notin default
        BY <1>1, <1>4, <2>2, BootstrapStep DEF Insert, At, Booted
    <2> QED
        BY <2>1, <2>2
<1>5. CASE InsertUser(r) \/ InsertOrg(r)
    BY <1>4, <1>5 DEF InsertUser, InsertOrg, Booted
<1>9. CASE InsertMember(r)
    BY <1>1, <1>9, BootstrapStep DEF InsertMember, At, Booted
<1>6. CASE AdoptAssets(r)
    BY <1>1, <1>6, BootstrapStep DEF AdoptAssets, Adopt, At, Booted
<1>7. ASSUME NEW pc \in {"adoptSettings", "adoptSessions"}, NEW what,
             NEW next \in {"adoptSessions", "up"}, Adopt(r, pc, what, next)
      PROVE  Inv'
    <2>1. replica[r].pc = pc /\ "assets" \notin orphan
        BY <1>7 DEF Adopt, At, Inv, MoveInv, PlacedInv, Placed
    <2> QED
        BY <1>1, <1>7, <2>1, BootstrapStep DEF Adopt, Booted
<1>8. CASE AdoptSettings(r) \/ AdoptSessions(r)
    BY <1>7, <1>8 DEF AdoptSettings, AdoptSessions
<1> QED
    BY <1>2, <1>3, <1>5, <1>6, <1>8, <1>9

(* The holder reads: what it found, and the next file.                      *)
LEMMA PendingIs ==
    ASSUME NEW n \in 0 .. 6, NEW applied, applied \subseteq 1 .. n,
           NEW f \in 1 .. n + 1, f .. n \subseteq applied
    PROVE  Pending(applied, f) = n + 1 .. 6
BY Shape DEF Pending

LEMMA FirstIs == ASSUME NEW n \in 0 .. 5 PROVE FirstOf(n + 1 .. 6) = n + 1
<1> DEFINE S == n + 1 .. 6
<1>1. n + 1 \in S /\ \A g \in S : n + 1 <= g
    OBVIOUS
<1>2. FirstOf(S) \in S /\ \A g \in S : FirstOf(S) <= g
    BY <1>1 DEF FirstOf
<1> QED
    BY <1>1, <1>2

LEMMA NextPlaced ==
    ASSUME TypeOK, NEW r \in Replicas, NEW n \in 0 .. 6, NEW applied, applied \subseteq 1 .. n,
           NEW f \in 1 .. n + 1, f .. n \subseteq applied, NextFile(r, applied, f)
    PROVE  \E p \in Process :
               /\ replica' = [replica EXCEPT ![r] = p]
               /\ \/ n = 6 /\ p.pc = "unlock"
                  \/ n \in 0 .. 5 /\ p.pc = "file" /\ p.file = n + 1 /\ p.step = 1
               /\ \A objects, unowned : Placed(p, TRUE, 1 .. n, objects, unowned)
<1>1. Pending(applied, f) = n + 1 .. 6
    BY PendingIs
<1>2. replica[r] \in Process
    BY DEF TypeOK
<1>3. CASE n = 6
    <2> DEFINE p == [replica[r] EXCEPT !.pc = "unlock", !.applied = {}, !.file = 0, !.step = 0]
    <2>0. Pending(applied, f) = {}
        BY <1>1, <1>3
    <2>1. replica' = [replica EXCEPT ![r] = p]
        BY <2>0 DEF NextFile
    <2>2. p \in Process /\ p.pc = "unlock"
        BY <1>2 DEF Process, PCs
    <2> HIDE DEF p
    <2>3. \A objects, unowned : Placed(p, TRUE, 1 .. n, objects, unowned)
        BY <1>3, <2>2, Shape DEF Placed, AtFile
    <2> QED
        BY <1>3, <2>1, <2>2, <2>3
<1>4. CASE n \in 0 .. 5
    <2> DEFINE p == [replica[r] EXCEPT !.pc = "file", !.applied = applied, !.file = n + 1,
                                       !.step = 1]
    <2>1. n + 1 .. 6 # {} /\ n + 1 \in Files /\ 1 .. n \subseteq Files
        BY <1>4, Shape
    <2>2. replica' = [replica EXCEPT ![r] = p]
        BY <1>1, <1>4, <2>1, FirstIs DEF NextFile
    <2>3. /\ p \in Process /\ p.pc = "file" /\ p.file = n + 1 /\ p.step = 1
          /\ p.applied = applied
        <3>1. applied \in SUBSET Files /\ n + 1 \in Nat /\ 1 \in Nat /\ "file" \in PCs
            BY <1>4, <2>1 DEF PCs
        <3> QED
            BY <1>2, <3>1 DEF Process
    <2> HIDE DEF p
    <2>4. p.step \in 1 .. Len(Scripts[p.file]) /\ 1 .. p.file - 1 = 1 .. n
        BY <2>1, <2>3, StepNumbers
    <2>5. \A objects : Partly(p.file, p.step - 1, objects)
        BY <2>3 DEF Partly
    <2>6. \A objects, unowned : Placed(p, TRUE, 1 .. n, objects, unowned)
        BY <2>1, <2>3, <2>4, <2>5 DEF Placed, AtFile, Booted
    <2> QED
        BY <1>4, <2>2, <2>3, <2>6
<1>5. n = 6 \/ n \in 0 .. 5
    OBVIOUS
<1> QED
    BY <1>3, <1>4, <1>5

LEMMA ReadKept ==
    ASSUME MigrationsAssumption, Inv, NEW r \in Replicas, Detect(r) \/ Read(r)
    PROVE  Inv'
<1>1. /\ UNCHANGED <<lock, table, recorded, schema, orphan, default, runs, crashes>>
      /\ crashes \in 0 .. MaxCrashes /\ default \subseteq {"user", "org", "member"}
    BY DEF Detect, Read, Inv, MoveInv, TypeOK
<1>2. lock = r
    BY DEF Detect, Read, At, Inv, MoveInv, LockInv, Locked
<1>3. CASE Detect(r)
    <2> DEFINE legacy == ~table /\ "assets" \in schema
               p == [replica[r] EXCEPT !.pc = "table", !.legacy = legacy]
    <2>1. replica[r] \in Process /\ legacy \in BOOLEAN
        BY DEF Inv, MoveInv, TypeOK
    <2>2. p \in Process /\ p.pc = "table" /\ p.legacy = legacy
        BY <2>1 DEF Process, PCs
    <2>3. replica' = [replica EXCEPT ![r] = p]
        BY <1>3 DEF Detect
    <2>4. legacy => recorded = {} /\ "assets" \in schema
        BY DEF Inv, RowsInv
    <2> HIDE DEF p, legacy
    <2>5. Placed(p, table', recorded, schema, orphan')
        BY <2>2, <2>4 DEF Placed, AtFile, Booted
    <2> QED
        BY <1>1, <1>2, <2>2, <2>3, <2>5, Unwritten
<1>4. CASE Read(r)
    <2>1. PICK n \in 0 .. 6 : recorded = 1 .. n
        BY Shape DEF Inv, RowsInv
    <2>2. NextFile(r, 1 .. n, 1)
        BY <1>4, <2>1 DEF Read
    <2>3. 1 \in 1 .. n + 1 /\ 1 .. n \subseteq 1 .. n
        OBVIOUS
    <2>4. table' = TRUE
        BY <1>4 DEF Read, At, Inv, MoveInv, TypeOK, PlacedInv, Placed, Locked
    <2>5. PICK p \in Process : /\ replica' = [replica EXCEPT ![r] = p]
                               /\ Placed(p, table', 1 .. n, schema, orphan')
        BY <2>2, <2>3, <2>4, NextPlaced DEF Inv, MoveInv
    <2> QED
        BY <1>1, <1>2, <2>1, <2>5, Unwritten
<1> QED
    BY <1>3, <1>4

(* The repair of an old installation.                                       *)
LEMMA CreateKept ==
    ASSUME MigrationsAssumption, Inv, NEW r \in Replicas, CreateTable(r)
    PROVE  Inv'
<1> DEFINE pc == IF replica[r].legacy THEN "repair" ELSE "read"
           p == [replica[r] EXCEPT !.pc = pc, !.step = 1]
<1>1. replica[r] \in Process /\ replica[r].pc = "table" /\ lock = r
    BY DEF CreateTable, At, Inv, MoveInv, TypeOK, LockInv, Locked
<1>2. p \in Process /\ p.pc = pc /\ p.step = 1 /\ p.legacy = replica[r].legacy
    BY <1>1 DEF Process, PCs
<1>3. replica' = [replica EXCEPT ![r] = p]
    BY DEF CreateTable
<1>4. replica[r].legacy => recorded = {} /\ "assets" \in schema
    BY <1>1 DEF Inv, MoveInv, PlacedInv, Placed
<1>5. pc \in {"repair", "read"} /\ (pc = "repair" => replica[r].legacy)
    OBVIOUS
<1> HIDE DEF p, pc
<1>6. /\ UNCHANGED <<lock, recorded, schema, orphan, default, runs, crashes>> /\ table' = TRUE
      /\ crashes \in 0 .. MaxCrashes /\ default \subseteq {"user", "org", "member"}
    BY DEF CreateTable, Inv, MoveInv, TypeOK
<1>7. Placed(p, table', recorded, schema, orphan')
    BY <1>2, <1>4, <1>5, <1>6 DEF Placed, AtFile, Booted
<1> QED
    BY <1>1, <1>2, <1>3, <1>6, <1>7, Unwritten

LEMMA RepairKept ==
    ASSUME MigrationsAssumption, Inv, NEW r \in Replicas, Repair(r)
    PROVE  Inv'
<1> DEFINE i == replica[r].step
           p == IF i = 8 THEN [replica[r] EXCEPT !.pc = "baseline"]
                ELSE [replica[r] EXCEPT !.step = i + 1]
<1>1. /\ replica[r] \in Process /\ replica[r].pc = "repair" /\ lock = r
      /\ replica[r].legacy /\ i \in 1 .. 8 /\ recorded = {} /\ "assets" \in schema
      /\ \A j \in 1 .. i - 1 : Repairs[j] \in schema
    BY DEF Repair, At, Inv, MoveInv, TypeOK, LockInv, Locked, PlacedInv, Placed
<1>2. /\ p \in Process /\ p.legacy
      /\ \/ p.pc = "repair" /\ i \in 1 .. 7 /\ p.step = i + 1
         \/ p.pc = "baseline" /\ i = 8
    BY <1>1 DEF Process, PCs
<1>3. replica' = [replica EXCEPT ![r] = p]
    BY <1>1, RepairsAre DEF Repair
<1>4. schema' = schema \/ schema' = schema \cup RepairAdds(i)
    BY DEF Repair
<1>5. /\ schema \subseteq schema' /\ Repairs[i] \in schema'
      /\ schema' \subseteq schema \cup AddsOf(1)
      /\ "orgs" \in schema' => {"tier", "keys"} \subseteq schema'
    <2>1. Repairs[i] \in schema' /\ schema \subseteq schema'
        BY <1>1, <1>4, RepairsAdd DEF Repair
    <2>2. "orgs" \in schema => {"tier", "keys"} \subseteq schema
        BY <1>1 DEF Inv, RowsInv
    <2> QED
        BY <1>1, <1>4, <2>1, <2>2, RepairsAdd
<1> HIDE DEF p
<1>6. \A j \in 1 .. i : Repairs[j] \in schema'
    BY <1>1, <1>5
<1>7. Placed(p, table', recorded', schema', orphan')
    <2>1. recorded' = {} /\ "assets" \in schema' /\ table'
        BY <1>1, <1>5 DEF Repair, Inv, MoveInv, PlacedInv, Placed, Locked
    <2>2. CASE p.pc = "repair" /\ i \in 1 .. 7 /\ p.step = i + 1
        BY <1>2, <1>6, <2>1, <2>2 DEF Placed, AtFile, Booted
    <2>3. CASE p.pc = "baseline" /\ i = 8
        BY <1>2, <1>6, <2>1, <2>3 DEF Placed, AtFile, Booted
    <2> QED
        BY <1>2, <2>2, <2>3
<1>8. UNCHANGED <<lock, table, recorded, orphan, default, runs, crashes>>
    BY DEF Repair
<1>9. recorded \subseteq recorded' /\ recorded' \subseteq Files
    BY <1>1, <1>8
<1>10. replica' \in [Replicas -> Process] /\ LockInv' /\ PlacedInv'
    BY <1>1, <1>2, <1>3, <1>7, <1>8, <1>9, Moves DEF Locked, Inv
<1>11. schema' \subseteq Objects
    BY <1>5, Shape, AddsAreObjects DEF Inv, MoveInv, TypeOK
<1>12. RowsInv'
    BY <1>1, <1>5, <1>8 DEF Inv, RowsInv, Kept
<1> QED
    BY <1>8, <1>10, <1>11, <1>12 DEF Inv, MoveInv, TypeOK

LEMMA BaselineKept ==
    ASSUME MigrationsAssumption, Inv, NEW r \in Replicas, RecordBaseline(r)
    PROVE  Inv'
<1> DEFINE p == [replica[r] EXCEPT !.pc = "read"]
<1>1. /\ replica[r].pc = "baseline" /\ lock = r /\ recorded = {} /\ "assets" \in schema
      /\ \A j \in 1 .. 8 : Repairs[j] \in schema
    BY DEF RecordBaseline, At, Inv, MoveInv, LockInv, Locked, PlacedInv, Placed
<1>2. p \in Process /\ p.pc = "read"
    BY ProcessAt DEF PCs, Inv, MoveInv
<1>3. replica' = [replica EXCEPT ![r] = p]
    BY DEF RecordBaseline, Goto
<1>4. /\ recorded' = {1} /\ {1} = 1 .. 1
      /\ UNCHANGED <<lock, table, schema, orphan, default, runs, crashes>>
    BY <1>1 DEF RecordBaseline
<1>11. table
    BY <1>1 DEF Inv, MoveInv, PlacedInv, Placed, Locked
<1> HIDE DEF p
<1>5. Placed(p, table', recorded', schema', orphan')
    BY <1>2, <1>4, <1>11 DEF Placed, AtFile, Booted
<1>6. recorded \subseteq recorded' /\ recorded' \subseteq Files
    BY <1>1, <1>4, Shape
<1>7. replica' \in [Replicas -> Process] /\ LockInv' /\ PlacedInv'
    BY <1>1, <1>2, <1>3, <1>4, <1>5, <1>6, Moves DEF Locked, Inv
<1>8. AddsOf(1) \subseteq schema
    BY <1>1, Repaired DEF Inv, RowsInv
<1>9. After(1) \subseteq AddsOf(1)
    <2>1. 1 \in 0 .. 6 /\ 1 .. 1 = {1}
        OBVIOUS
    <2> QED
        BY <2>1, InAfter
<1>10. Kept(1, schema')
    BY <1>4, <1>8, <1>9 DEF Kept
<1>12. RowsInv'
    <2>1. \E n \in 0 .. Len(Scripts) : recorded' = 1 .. n /\ Kept(n, schema')
        BY <1>4, <1>10, Shape
    <2> QED
        BY <1>4, <1>11, <2>1 DEF RowsInv
<1> QED
    BY <1>4, <1>6, <1>7, <1>12 DEF Inv, MoveInv, TypeOK

(* The statements of a file, and its record.                                *)
LEMMA SameCount ==
    ASSUME NEW m \in 0 .. 6, NEW n \in 0 .. 6, 1 .. m = 1 .. n
    PROVE  m = n
<1>1. m \in 1 .. m \/ m = 0
    OBVIOUS
<1>2. n \in 1 .. n \/ n = 0
    OBVIOUS
<1>3. m <= n
    BY <1>1
<1>4. n <= m
    BY <1>2
<1> QED
    BY <1>3, <1>4

(* The replica that is at a file, and the file.                             *)
LEMMA AtFileIs ==
    ASSUME Inv, NEW r \in Replicas, replica[r].pc \in AtFile
    PROVE  /\ lock = r /\ replica[r] \in Process /\ table = TRUE
           /\ replica[r].file \in Files /\ recorded = 1 .. replica[r].file - 1
           /\ replica[r].applied \subseteq recorded
           /\ Kept(replica[r].file - 1, schema)
<1> DEFINE f == replica[r].file
<1>1. /\ lock = r /\ replica[r] \in Process /\ table = TRUE
      /\ f \in Files /\ recorded = 1 .. f - 1 /\ replica[r].applied \subseteq recorded
    BY DEF Inv, MoveInv, TypeOK, LockInv, PlacedInv, Placed, Locked, AtFile
<1>2. PICK n \in 0 .. 6 : recorded = 1 .. n /\ Kept(n, schema)
    BY Shape DEF Inv, RowsInv
<1>3. n = f - 1
    BY <1>1, <1>2, Shape, SameCount
<1> QED
    BY <1>1, <1>2, <1>3

LEMMA ExecuteKept ==
    ASSUME MigrationsAssumption, Inv, NEW r \in Replicas, Execute(r)
    PROVE  Inv'
<1> DEFINE f == replica[r].file
           i == replica[r].step
           sql == Scripts[f][i]
           p == IF i = Len(Scripts[f]) THEN [replica[r] EXCEPT !.pc = "record"]
                ELSE [replica[r] EXCEPT !.step = i + 1]
<1>1. replica[r].pc = "file"
    BY DEF Execute, At
<1>2. /\ lock = r /\ replica[r] \in Process /\ table = TRUE
      /\ f \in Files /\ recorded = 1 .. f - 1 /\ replica[r].applied \subseteq recorded
      /\ Kept(f - 1, schema)
    BY <1>1, AtFileIs DEF AtFile
<1>3. i \in 1 .. Len(Scripts[f]) /\ Partly(f, i - 1, schema)
    BY <1>1 DEF Inv, MoveInv, PlacedInv, Placed
<1>4. Len(Scripts[f]) \in Nat /\ f \in 1 .. 6
    BY <1>2, StepNumbers, Shape
<1>5. sql.adds \subseteq AddsOf(f) /\ sql.drops \subseteq DropsOf(f)
    BY <1>2, <1>3, InAdds, InDrops
<1>6. schema' = (schema \cup sql.adds) \ sql.drops
    BY DEF Execute
<1>7. /\ UNCHANGED <<lock, table, recorded, default, crashes>>
      /\ replica' = [replica EXCEPT ![r] = p]
      /\ orphan' \subseteq orphan \cup {"sessions"}
    BY <1>2 DEF Execute, StepDone
<1>8. /\ p \in Process /\ p.file = f /\ p.applied = replica[r].applied
      /\ \/ p.pc = "record" /\ i = Len(Scripts[f])
         \/ p.pc = "file" /\ p.step = i + 1 /\ i + 1 \in 1 .. Len(Scripts[f])
    BY <1>1, <1>2, <1>3, <1>4 DEF Process, PCs
<1>9. <<f, i>> \in Steps
    BY <1>2, <1>3, IsStep
<1>10. runs' \in [Steps -> 0 .. 2]
    <2> DEFINE v == IF runs[<<f, i>>] = 2 THEN 2 ELSE runs[<<f, i>>] + 1
    <2>1. runs' = [runs EXCEPT ![<<f, i>>] = v]
        BY DEF Execute
    <2>2. runs \in [Steps -> 0 .. 2]
        BY DEF Inv, MoveInv, TypeOK
    <2>3. v \in 0 .. 2
        BY <1>9, <2>2
    <2> HIDE DEF v
    <2> QED
        BY <2>1, <2>2, <2>3
<1> HIDE DEF p, sql
<1>11. Partly(f, i, schema')
    <2> SUFFICES ASSUME NEW j \in 1 .. i, NEW x \in Scripts[f][j].adds \ DropsOf(f)
                 PROVE  x \in schema'
        BY DEF Partly
    <2>1. CASE j = i
        BY <1>5, <1>6, <2>1 DEF sql
    <2>2. CASE j # i
        <3>1. j \in 1 .. i - 1
            BY <1>3, <1>4, <2>2
        <3>2. x \in schema
            BY <1>3, <3>1 DEF Partly
        <3> QED
            BY <1>5, <1>6, <3>2
    <2> QED
        BY <2>1, <2>2
<1>12. Placed(p, table', recorded', schema', orphan')
    <2>1. CASE p.pc = "record" /\ i = Len(Scripts[f])
        BY <1>2, <1>7, <1>8, <1>11, <2>1 DEF Placed, AtFile, Booted
    <2>2. CASE p.pc = "file" /\ p.step = i + 1 /\ i + 1 \in 1 .. Len(Scripts[f])
        <3>1. Partly(p.file, p.step - 1, schema')
            BY <1>3, <1>8, <1>11, <2>2
        <3> QED
            BY <1>2, <1>7, <1>8, <2>2, <3>1 DEF Placed, AtFile, Booted
    <2> QED
        BY <1>8, <2>1, <2>2
<1>13. recorded \subseteq Files
    BY DEF Inv, MoveInv, TypeOK
<1>14. replica' \in [Replicas -> Process] /\ LockInv' /\ PlacedInv'
    BY <1>1, <1>2, <1>7, <1>8, <1>12, <1>13, Moves DEF Inv, Locked
<1>15. schema' \subseteq Objects
    BY <1>2, <1>5, <1>6, AddsAreObjects DEF Inv, MoveInv, TypeOK
<1>16. Kept(f - 1, schema')
    <2>1. f - 1 < Len(Scripts)
        BY <1>4, Shape
    <2> QED
        BY <1>2, <1>4, <1>5, <1>6, <2>1 DEF Kept
<1>17. recorded = {} /\ "orgs" \in schema' => {"tier", "keys"} \subseteq schema'
    <2> SUFFICES ASSUME recorded = {}, "orgs" \in schema' PROVE {"tier", "keys"} \subseteq schema'
        OBVIOUS
    <2>1. f = 1
        BY <1>2, <1>4
    <2>2. i \in 1 .. 5 /\ sql = Baseline[i]
        BY <1>3, <2>1, Shape, Lengths DEF sql
    <2>3. sql.drops = {} /\ ("orgs" \in sql.adds => {"tier", "keys"} \subseteq sql.adds)
        BY <2>2, BaselineIs
    <2>4. "orgs" \in schema => {"tier", "keys"} \subseteq schema
        BY DEF Inv, RowsInv
    <2> QED
        BY <1>6, <2>3, <2>4
<1>18. RowsInv'
    <2>1. f - 1 \in 0 .. Len(Scripts)
        BY <1>4, Shape
    <2> QED
        BY <1>2, <1>7, <1>16, <1>17, <2>1 DEF RowsInv
<1>19. orphan' \subseteq {"assets", "settings", "sessions"}
    BY <1>7 DEF Inv, MoveInv, TypeOK
<1> QED
    BY <1>7, <1>10, <1>14, <1>15, <1>18, <1>19 DEF Inv, MoveInv, TypeOK

LEMMA RecordKept ==
    ASSUME MigrationsAssumption, Inv, NEW r \in Replicas, Record(r)
    PROVE  Inv'
<1> DEFINE f == replica[r].file
<1>1. replica[r].pc = "record"
    BY DEF Record, At
<1>2. /\ lock = r /\ replica[r] \in Process /\ table = TRUE
      /\ f \in Files /\ recorded = 1 .. f - 1 /\ replica[r].applied \subseteq recorded
      /\ Kept(f - 1, schema)
    BY <1>1, AtFileIs DEF AtFile
<1>3. Partly(f, Len(Scripts[f]), schema)
    BY <1>1 DEF Inv, MoveInv, PlacedInv, Placed
<1>4. f \in 1 .. 6 /\ f \in 0 .. 6 /\ f - 1 \in 0 .. 5
    BY <1>2, Shape
<1>5. /\ UNCHANGED <<lock, table, schema, orphan, default, runs, crashes>>
      /\ recorded' = recorded \cup {f} /\ NextFile(r, replica[r].applied, f + 1)
    BY DEF Record
<1>6. recorded' = 1 .. f
    BY <1>2, <1>4, <1>5
<1>7. PICK p \in Process : /\ replica' = [replica EXCEPT ![r] = p]
                           /\ Placed(p, TRUE, 1 .. f, schema, orphan)
    <2>1. /\ replica[r].applied \subseteq 1 .. f /\ f + 1 \in 1 .. f + 1
          /\ f + 1 .. f \subseteq replica[r].applied
        BY <1>2, <1>4
    <2> QED
        BY <1>4, <1>5, <2>1, NextPlaced DEF Inv, MoveInv
<1>8. recorded \subseteq recorded' /\ recorded' \subseteq Files
    BY <1>4, <1>5, <1>6, Shape
<1>9. Placed(p, table', recorded', schema', orphan')
    BY <1>2, <1>5, <1>6, <1>7
<1>10. replica' \in [Replicas -> Process] /\ LockInv' /\ PlacedInv'
    BY <1>1, <1>2, <1>5, <1>7, <1>8, <1>9, Moves DEF Inv, Locked
<1>11. After(f) \subseteq schema
    <2> SUFFICES ASSUME NEW x \in After(f) PROVE x \in schema
        OBVIOUS
    <2>1. x \in After(f - 1) \cup AddsOf(f) /\ x \notin DropsOf(f)
        BY <1>2, AfterNext
    <2>2. CASE x \in After(f - 1)
        <3>1. f - 1 < Len(Scripts) /\ f - 1 + 1 = f
            BY <1>4, Shape
        <3> QED
            BY <1>2, <2>1, <2>2, <3>1 DEF Kept
    <2>3. CASE x \in AddsOf(f)
        BY <1>2, <1>3, <2>1, <2>3, InAdds DEF Partly
    <2> QED
        BY <2>1, <2>2, <2>3
<1>12. RowsInv'
    <2>1. Kept(f, schema') /\ f \in 0 .. Len(Scripts)
        BY <1>4, <1>5, <1>11, Shape DEF Kept
    <2>2. recorded' # {}
        BY <1>4, <1>6
    <2> QED
        BY <1>2, <1>5, <1>6, <2>1, <2>2 DEF RowsInv
<1> QED
    BY <1>5, <1>8, <1>10, <1>12 DEF Inv, MoveInv, TypeOK

LEMMA InitKept == MigrationsAssumption /\ Init => Inv
<1> SUFFICES ASSUME MigrationsAssumption, Init PROVE Inv
    OBVIOUS
<1>1. \A r \in Replicas : replica[r] = Down /\ Down.pc = "down"
    BY DownPlaced DEF Init
<1>2. LockInv
    BY <1>1 DEF LockInv, Locked
<1>3. PlacedInv
    BY <1>1, DownPlaced DEF PlacedInv
<1>4. /\ table \in BOOLEAN /\ recorded \subseteq Files /\ schema \subseteq Objects
      /\ orphan \subseteq {"assets", "settings", "sessions"}
      /\ RowsInv
    <2>1. Kept(0, schema) /\ 1 .. 0 = {} /\ 0 \in 0 .. Len(Scripts)
        BY AfterNone, Shape DEF Kept
    <2>2. AddsOf(1) \subseteq Objects
        BY Shape, AddsAreObjects
    <2>3. CASE FreshInstall
        BY <2>1, <2>3 DEF FreshInstall, RowsInv
    <2>4. CASE LegacyInstall
        BY <2>1, <2>2, <2>4, FirstAdds DEF LegacyInstall, RowsInv
    <2>5. CASE Migrated
        <3>1. PICK n \in Files : recorded = 1 .. n /\ schema = After(n)
            BY <2>5 DEF Migrated
        <3>2. n \in 1 .. 6 /\ n \in 0 .. 6 /\ 1 .. n \subseteq Files /\ 1 .. n # {}
            BY Shape
        <3>3. Kept(n, schema)
            BY <3>1 DEF Kept
        <3> QED
            BY <2>5, <3>1, <3>2, <3>3, Shape, AfterAreObjects DEF Migrated, RowsInv
    <2> QED
        BY <2>3, <2>4, <2>5 DEF Init
<1>5. /\ lock \in Replicas \cup {Free} /\ default \subseteq {"user", "org", "member"}
      /\ runs \in [Steps -> 0 .. 2] /\ crashes \in 0 .. MaxCrashes
      /\ replica \in [Replicas -> Process]
    BY DownPlaced DEF Init, MigrationsAssumption
<1> QED
    BY <1>2, <1>3, <1>4, <1>5 DEF Inv, MoveInv, TypeOK

LEMMA NextKept ==
    ASSUME MigrationsAssumption, Inv, [Next]_vars
    PROVE  Inv'
<1>1. ASSUME NEW r \in Replicas, StatementFails(r) PROVE Inv'
    BY <1>1, MigrationsAssumption, EndKept DEF StatementFails, Inv, MoveInv, TypeOK
<1>2. ASSUME NEW r \in Replicas, Crash(r) PROVE Inv'
    <2>1. crashes' \in 0 .. MaxCrashes
        BY <1>2, MigrationsAssumption DEF Crash, Inv, MoveInv, TypeOK, MigrationsAssumption
    <2> QED
        BY <1>2, <2>1, MigrationsAssumption, EndKept DEF Crash
<1>3. CASE UNCHANGED vars
    BY <1>3 DEF vars, Inv, MoveInv, RowsInv, TypeOK, LockInv, PlacedInv
<1> QED
    BY <1>1, <1>2, <1>3, MigrationsAssumption, LockKept, BootstrapKept, ReadKept, CreateKept,
       RepairKept, BaselineKept, ExecuteKept, RecordKept DEF Next, Boot

LEMMA Invariant == Spec => []Inv
<1>1. Init => Inv
    BY InitKept, MigrationsAssumption
<1>2. Inv /\ [Next]_vars => Inv'
    BY NextKept, MigrationsAssumption
<1> QED
    BY <1>1, <1>2, PTL DEF Spec

(* The lock, the tables, the objects and the replicas are ones the code can *)
(* produce (packages/db/src/migrations.ts).                                 *)
THEOREM MigrationsTyped == Spec => []TypeOK
<1>1. Inv => TypeOK
    BY DEF Inv, MoveInv
<1> QED
    BY <1>1, Invariant, PTL

(* A file that is recorded has done all it says, through deaths anywhere,   *)
(* old installations and replicas that race; and who serves requests has    *)
(* the whole schema (migrations.ts runLocked, repairLegacySchema, db.ts).   *)
THEOREM RecordedApplied == Spec => []RecordedIsApplied
<1>1. ASSUME Inv PROVE RecordedIsApplied
    <2>1. PICK n \in 0 .. Len(Scripts) : recorded = 1 .. n /\ Kept(n, schema)
        BY <1>1 DEF Inv, RowsInv
    <2>2. ASSUME NEW r \in Replicas, At(r, "up")
          PROVE  recorded = Files /\ Current \subseteq schema /\ "assets" \notin orphan
        <3>1. recorded = Files /\ "assets" \notin orphan
            BY <1>1, <2>2 DEF At, Inv, MoveInv, PlacedInv, Placed, Booted
        <3>2. n = 6
            <4>1. n \in 0 .. 6 /\ 6 \in 0 .. 6 /\ 1 .. n = 1 .. 6
                BY <2>1, <3>1, Shape
            <4> QED
                BY <4>1, SameCount
        <3>3. Current \subseteq schema
            BY <2>1, <3>2, Shape DEF Kept, Current
        <3> QED
            BY <3>1, <3>3
    <2> QED
        BY <2>1, <2>2 DEF RecordedIsApplied, Kept
<1> QED
    BY <1>1, Invariant, PTL

-----------------------------------------------------------------------------
(* What the files say of each other: nothing that was dropped is added      *)
(* again, what a statement needs is there before it, and what it must       *)
(* create is not.                                                           *)

LEMMA Dropped ==
    ASSUME NEW f \in Files, NEW i \in 1 .. Len(Scripts[f]), NEW x \in Scripts[f][i].drops
    PROVE  \/ f = 2 /\ i = 3 /\ x = "events"
           \/ f = 4 /\ i = 3 /\ x = "tier"
<1> USE Shape, Lengths DEF Sql, Creates, Ensures, Data
<1>1. CASE f = 1
    BY <1>1, BaselineIs
<1>2. CASE f = 2
    <2>1. /\ PlaybackSessions[1].drops = {} /\ PlaybackSessions[2].drops = {}
          /\ PlaybackSessions[3].drops = {"events"}
        BY DEF PlaybackSessions
    <2> QED
        BY <1>2, <2>1
<1>3. CASE f = 3
    BY <1>3 DEF ApiHardening
<1>4. CASE f = 4
    BY <1>4 DEF Cloud
<1>5. CASE f \in {5, 6}
    BY <1>5 DEF ListIndex, RepairJson
<1> QED
    BY <1>1, <1>2, <1>3, <1>4, <1>5

LEMMA NotAgain ==
    ASSUME NEW f \in Files, NEW i \in 1 .. Len(Scripts[f]), NEW x \in {"events", "tier"},
           x \in Scripts[f][i].adds
    PROVE  f = 1
<1> USE Shape, Lengths DEF Sql, Creates, Ensures, Data
<1>2. CASE f = 2
    BY <1>2 DEF PlaybackSessions
<1>3. CASE f = 3
    BY <1>3 DEF ApiHardening
<1>4. CASE f = 4
    BY <1>4 DEF Cloud
<1>5. CASE f \in {5, 6}
    BY <1>5 DEF ListIndex, RepairJson
<1> QED
    BY <1>2, <1>3, <1>4, <1>5

LEMMA AfterIs ==
    ASSUME NEW n \in Files
    PROVE  After(n) = (After(n - 1) \cup AddsOf(n)) \ DropsOf(n)
<1>1. n \in 1 .. 6 /\ n \in 0 .. 6 /\ n - 1 \in 0 .. 6 /\ 1 .. n \subseteq Files
    BY Shape
<1> SUFFICES ASSUME NEW x \in After(n - 1) \cup AddsOf(n), x \notin DropsOf(n)
             PROVE  x \in After(n)
    BY AfterNext
<1>2. \E f \in 1 .. n : x \in AddsOf(f)
    <2>1. CASE x \in AddsOf(n)
        BY <1>1, <2>1
    <2>2. CASE x \in After(n - 1)
        <3>1. PICK f \in 1 .. n - 1 : x \in AddsOf(f)
            BY <1>1, <2>2, InAfter
        <3> QED
            BY <1>1, <3>1
    <2> QED
        BY <2>1, <2>2
<1>3. ASSUME NEW f \in 1 .. n, x \in DropsOf(f) PROVE FALSE
    <2>1. f \in Files /\ f # n /\ f \in 1 .. n - 1
        BY <1>1, <1>3
    <2>2. x \notin After(n - 1)
        BY <1>1, <1>3, <2>1, InAfter
    <2>3. PICK i \in 1 .. Len(Scripts[n]) : x \in Scripts[n][i].adds
        BY <2>2, InAdds
    <2>4. x \in {"events", "tier"}
        BY <1>3, <2>1, InDrops, Dropped
    <2>5. n = 1
        BY <2>3, <2>4, NotAgain
    <2> QED
        BY <2>1, <2>5
<1> QED
    BY <1>1, <1>2, <1>3, InAfter

LEMMA BeforeFirst == ASSUME NEW n \in 0 .. 5 PROVE Before(n + 1, 1) = After(n)
<1>1. n + 1 \in Files /\ n + 1 - 1 = n /\ 1 .. 1 - 1 = {}
    BY Shape
<1>2. \A x : x \in Before(n + 1, 1) <=> x \in After(n)
    BY <1>1, InBefore
<1> QED
    BY <1>2 DEF Before, After

LEMMA BeforeNext ==
    ASSUME NEW f \in Files, NEW i \in 1 .. Len(Scripts[f])
    PROVE  Before(f, i + 1) = (Before(f, i) \cup Scripts[f][i].adds) \ Scripts[f][i].drops
<1>1. i \in Nat /\ i + 1 \in Nat /\ i + 1 - 1 = i
    BY StepNumbers
<1>2. \A j : j \in 1 .. i <=> j \in 1 .. i - 1 \/ j = i
    BY <1>1, StepNumbers
<1>3. ASSUME NEW x, NEW j \in 1 .. i - 1, x \in Scripts[f][j].drops
      PROVE  x \notin Scripts[f][i].adds
    <2>1. j \in 1 .. Len(Scripts[f])
        BY <1>1, StepNumbers
    <2>2. x \in {"events", "tier"} /\ f # 1
        BY <1>3, <2>1, Dropped
    <2> QED
        BY <2>2, NotAgain
<1>4. \A x : x \in Before(f, i + 1)
             <=> x \in (Before(f, i) \cup Scripts[f][i].adds) \ Scripts[f][i].drops
    <2> TAKE x
    <2>1. x \in Before(f, i + 1) <=>
              /\ x \in After(f - 1) \/ \E j \in 1 .. i : x \in Scripts[f][j].adds
              /\ \A j \in 1 .. i : x \notin Scripts[f][j].drops
        BY <1>1, InBefore
    <2>2. x \in Before(f, i) <=>
              /\ x \in After(f - 1) \/ \E j \in 1 .. i - 1 : x \in Scripts[f][j].adds
              /\ \A j \in 1 .. i - 1 : x \notin Scripts[f][j].drops
        BY <1>1, InBefore
    <2> QED
        BY <1>2, <1>3, <2>1, <2>2
<1> QED
    BY <1>4 DEF Before

LEMMA BeforeLast ==
    ASSUME NEW f \in Files
    PROVE  Before(f, Len(Scripts[f]) + 1) = After(f)
<1> DEFINE n == Len(Scripts[f])
<1>1. n \in Nat /\ n + 1 \in Nat /\ n + 1 - 1 = n
    BY StepNumbers
<1>2. \A x : x \in Before(f, n + 1) <=> x \in (After(f - 1) \cup AddsOf(f)) \ DropsOf(f)
    BY <1>1, InBefore, InAdds, InDrops
<1> QED
    BY <1>2, AfterIs DEF Before

LEMMA Stays ==
    ASSUME NEW x \in AddsOf(1), NEW n \in 1 .. 6, x = "events" => n < 2, x = "tier" => n < 4
    PROVE  x \in After(n)
<1>1. ASSUME NEW f \in 1 .. n, x \in DropsOf(f) PROVE FALSE
    <2>1. f \in Files
        BY Shape
    <2>2. (f = 2 /\ x = "events") \/ (f = 4 /\ x = "tier")
        BY <1>1, <2>1, InDrops, Dropped
    <2> QED
        BY <2>2
<1> QED
    BY <1>1, InAfter

LEMMA LaterAdds ==
    /\ AddsOf(2) = {"sessions"}
    /\ AddsOf(3) = {"token_version", "scopes", "uq_quality"}
<1> USE DEF Sql, Creates, Ensures, Data
<1>1. /\ PlaybackSessions[1].adds = {"sessions"} /\ PlaybackSessions[2].adds = {}
      /\ PlaybackSessions[3].adds = {}
    BY DEF PlaybackSessions
<1>2. /\ ApiHardening[1].adds = {"token_version"} /\ ApiHardening[2].adds = {"scopes"}
      /\ ApiHardening[3].adds = {} /\ ApiHardening[4].adds = {"uq_quality"}
    BY DEF ApiHardening
<1>3. \A x : x \in AddsOf(2) <=> x = "sessions"
    <2>1. \A x : x \in AddsOf(2) <=> \E i \in 1 .. 3 : x \in PlaybackSessions[i].adds
        BY Shape, Lengths, InAdds
    <2> QED
        BY <1>1, <2>1
<1>4. \A x : x \in AddsOf(3) <=> x \in {"token_version", "scopes", "uq_quality"}
    <2>1. \A x : x \in AddsOf(3) <=> \E i \in 1 .. 4 : x \in ApiHardening[i].adds
        BY Shape, Lengths, InAdds
    <2> QED
        BY <1>2, <2>1
<1> QED
    BY <1>3, <1>4

LEMMA FirstFileRuns ==
    ASSUME NEW i \in 1 .. 5
    PROVE  Baseline[i].needs \subseteq Before(1, i) /\ Baseline[i].fresh \cap Before(1, i) = {}
<1>1. \A x : x \in Before(1, i) <=>
          /\ \E j \in 1 .. i - 1 : x \in Baseline[j].adds
          /\ \A j \in 1 .. i - 1 : x \notin Baseline[j].drops
    BY Shape, InBefore, AfterNone
<1>2. /\ Baseline[1].needs = {} /\ Baseline[2].needs = {"assets"}
      /\ Baseline[3].needs = {"assets"} /\ Baseline[4].needs = {} /\ Baseline[5].needs = {"users"}
    BY DEF Baseline, Creates, Sql
<1>3. \A j \in 1 .. 5 : Baseline[j].fresh = Baseline[j].adds
    <2>1. /\ Baseline[1].fresh = Baseline[1].adds /\ Baseline[2].fresh = Baseline[2].adds
          /\ Baseline[3].fresh = Baseline[3].adds /\ Baseline[4].fresh = Baseline[4].adds
          /\ Baseline[5].fresh = Baseline[5].adds
        BY DEF Baseline, Creates, Sql
    <2> QED
        BY <2>1
<1>4. Baseline[i].needs \subseteq Before(1, i)
    <2>1. i > 1 => "assets" \in Before(1, i)
        BY <1>1, BaselineIs
    <2>2. i = 5 => "users" \in Before(1, i)
        BY <1>1, BaselineIs
    <2> QED
        BY <1>2, <2>1, <2>2
<1>5. ASSUME NEW x \in Baseline[i].adds, NEW j \in 1 .. i - 1, x \in Baseline[j].adds
      PROVE  FALSE
    BY <1>5, BaselineIs
<1> QED
    BY <1>1, <1>3, <1>4, <1>5

LEMMA FileRuns ==
    ASSUME NEW f \in Files, NEW i \in 1 .. Len(Scripts[f])
    PROVE  /\ Scripts[f][i].needs \subseteq Before(f, i)
           /\ Scripts[f][i].fresh \cap Before(f, i) = {}
<1> USE DEF Sql, Creates, Ensures, Data
<1>1. CASE f = 1
    BY <1>1, Shape, Lengths, FirstFileRuns
<1>2. \A x : x \in Before(f, i) <=>
          /\ x \in After(f - 1) \/ \E j \in 1 .. i - 1 : x \in Scripts[f][j].adds
          /\ \A j \in 1 .. i - 1 : x \notin Scripts[f][j].drops
    BY InBefore, StepNumbers
<1>3. \A n \in 1 .. 6 : /\ AddsOf(1) \ {"events", "tier"} \subseteq After(n)
                        /\ n < 2 => "events" \in After(n)
                        /\ n < 4 => "tier" \in After(n)
    BY Stays, FirstAdds
<1>4. CASE f = 2
    <2>1. Scripts[2] = PlaybackSessions /\ i \in 1 .. 3 /\ f - 1 = 1
        BY <1>4, Shape, Lengths
    <2>2. /\ PlaybackSessions[1].needs = {"assets"} /\ PlaybackSessions[1].adds = {"sessions"}
          /\ PlaybackSessions[2].needs = {"events", "sessions", "org_id"}
          /\ PlaybackSessions[3].needs = {}
          /\ \A j \in 1 .. 3 : PlaybackSessions[j].fresh = {}
          /\ PlaybackSessions[1].drops = {}
        BY DEF PlaybackSessions
    <2>3. "assets" \in After(1) /\ "events" \in After(1) /\ "org_id" \in After(1)
        BY <1>3, FirstAdds
    <2>4. CASE i = 1
        BY <1>2, <1>4, <2>1, <2>2, <2>3, <2>4
    <2>5. CASE i = 2
        <3>1. \A x : x \in Before(2, 2) <=> x \in After(1) \/ x = "sessions"
            BY <1>2, <1>4, <2>1, <2>2, <2>5
        <3> QED
            BY <1>4, <2>1, <2>2, <2>3, <2>5, <3>1
    <2>6. CASE i = 3
        BY <1>4, <2>1, <2>2, <2>6
    <2> QED
        BY <2>1, <2>4, <2>5, <2>6
<1>5. CASE f = 3
    <2>1. Scripts[3] = ApiHardening /\ i \in 1 .. 4 /\ f - 1 = 2
        BY <1>5, Shape, Lengths
    <2>2. /\ ApiHardening[1].needs = {"users"} /\ ApiHardening[2].needs = {"keys"}
          /\ ApiHardening[3].needs = {"renditions"} /\ ApiHardening[4].needs = {"renditions"}
          /\ ApiHardening[1].adds = {"token_version"} /\ ApiHardening[2].adds = {"scopes"}
          /\ ApiHardening[3].adds = {} /\ ApiHardening[4].adds = {"uq_quality"}
          /\ ApiHardening[1].fresh = {"token_version"} /\ ApiHardening[2].fresh = {"scopes"}
          /\ ApiHardening[3].fresh = {} /\ ApiHardening[4].fresh = {"uq_quality"}
          /\ \A j \in 1 .. 4 : ApiHardening[j].drops = {}
        BY DEF ApiHardening
    <2>3. {"users", "keys", "renditions"} \subseteq After(2)
        BY <1>3, FirstAdds
    <2>4. \A x \in After(2) : x \in AddsOf(1) \/ x \in AddsOf(2)
        BY InAfter
    <2>5. {"token_version", "scopes", "uq_quality"} \cap After(2) = {}
        BY <2>4, FirstAdds, LaterAdds
    <2>6. ApiHardening[i].needs \subseteq After(2)
        BY <2>1, <2>2, <2>3
    <2>7. After(2) \subseteq Before(3, i)
        BY <1>2, <1>5, <2>1, <2>2
    <2>8. ASSUME NEW x \in ApiHardening[i].fresh, NEW j \in 1 .. i - 1, x \in ApiHardening[j].adds
          PROVE  FALSE
        BY <2>1, <2>2, <2>8
    <2>9. ApiHardening[i].fresh \subseteq {"token_version", "scopes", "uq_quality"}
        BY <2>1, <2>2
    <2> QED
        BY <1>2, <1>5, <2>1, <2>5, <2>6, <2>7, <2>8, <2>9
<1>6. CASE f = 4
    <2>1. Scripts[4] = Cloud /\ i \in 1 .. 4 /\ f - 1 = 3
        BY <1>6, Shape, Lengths
    <2> DEFINE late == {"invitations", "usage", "storage_bytes"}
    <2>2. /\ Cloud[1].needs = {"orgs"} /\ Cloud[1].adds = {"plan"} /\ Cloud[1].fresh = {"plan"}
          /\ Cloud[2].needs = {"tier", "plan"} /\ Cloud[2].adds = {} /\ Cloud[2].fresh = {}
          /\ Cloud[3].needs = {"tier"} /\ Cloud[3].adds = {} /\ Cloud[3].fresh = {}
          /\ Cloud[4].needs = {"users", "orgs"} /\ Cloud[4].fresh = late
          /\ Cloud[1].drops = {} /\ Cloud[2].drops = {} /\ Cloud[3].drops = {"tier"}
        BY DEF Cloud
    <2>3. {"users", "orgs", "tier"} \subseteq After(3)
        BY <1>3, FirstAdds
    <2>4. \A x \in After(3) : x \in AddsOf(1) \/ x \in AddsOf(2) \/ x \in AddsOf(3)
        BY InAfter
    <2>5. {"plan"} \cap After(3) = {} /\ late \cap After(3) = {}
        BY <2>4, FirstAdds, LaterAdds
    <2>6. CASE i = 1
        BY <1>2, <1>6, <2>1, <2>2, <2>3, <2>5, <2>6
    <2>7. CASE i = 2
        BY <1>2, <1>6, <2>1, <2>2, <2>3, <2>7
    <2>8. CASE i = 3
        BY <1>2, <1>6, <2>1, <2>2, <2>3, <2>8
    <2>9. CASE i = 4
        <3>1. {"users", "orgs"} \subseteq Before(4, 4)
            BY <1>2, <1>6, <2>1, <2>2, <2>3, <2>9
        <3>2. \A x \in Before(4, 4) : x \in After(3) \/ x = "plan"
            BY <1>2, <1>6, <2>1, <2>2, <2>9
        <3> QED
            BY <1>6, <2>1, <2>2, <2>5, <2>9, <3>1, <3>2
    <2> QED
        BY <2>1, <2>6, <2>7, <2>8, <2>9
<1>7. CASE f = 5
    <2>1. Scripts[5] = ListIndex /\ i = 1 /\ f - 1 = 4
        BY <1>7, Shape, Lengths
    <2>2. ListIndex[1].needs = {"assets", "org_id"} /\ ListIndex[1].fresh = {}
        BY DEF ListIndex
    <2>3. {"assets", "org_id"} \subseteq After(4)
        BY <1>3, FirstAdds
    <2> QED
        BY <1>2, <1>7, <2>1, <2>2, <2>3
<1>8. CASE f = 6
    <2>1. Scripts[6] = RepairJson /\ i = 1 /\ f - 1 = 5
        BY <1>8, Shape, Lengths
    <2>2. RepairJson[1].needs = {"assets"} /\ RepairJson[1].fresh = {}
        BY DEF RepairJson
    <2>3. "assets" \in After(5)
        BY <1>3, FirstAdds
    <2> QED
        BY <1>2, <1>8, <2>1, <2>2, <2>3
<1> QED
    BY <1>1, <1>4, <1>5, <1>6, <1>7, <1>8, Shape

-----------------------------------------------------------------------------
(* No statement twice.                                                      *)

(* While one replica holds the lock nobody else is at a file, or repairs.   *)
LEMMA Alone ==
    ASSUME Inv, NEW r \in Replicas, replica[r].pc \in Locked
    PROVE  \A q \in Replicas : q # r => replica[q].pc \notin Locked
BY DEF Inv, MoveInv, LockInv

(* A step in which nothing is executed or recorded.                         *)
LEMMA ExactPlain ==
    ASSUME Inv, Exact, NEW r \in Replicas,
           \A q \in Replicas : q # r => replica'[q] = replica[q],
           replica[r].pc \notin AtFile, replica'[r].pc \notin AtFile,
           UNCHANGED <<recorded, schema, runs, crashes>>, table => table',
           replica'[r].pc = "table" /\ ~replica'[r].legacy => table' \/ "assets" \notin schema,
           Unrepaired => schema = After(0) \/ Unrepaired'
    PROVE  Exact'
<1> SUFFICES ASSUME crashes = 0 PROVE Exact'
    BY DEF Exact
<1>1. \A q \in Replicas : InStep(replica'[q], schema', runs')
    BY DEF Exact, InStep, AtFile
<1>2. \A q \in Replicas : replica'[q].pc = "table" /\ ~replica'[q].legacy =>
          table' \/ "assets" \notin schema'
    BY DEF Exact
<1>3. AtRest'
    <2> SUFFICES ASSUME \A q \in Replicas : replica'[q].pc \notin AtFile,
                        NEW n \in 0 .. Len(Scripts), recorded' = 1 .. n
                 PROVE  /\ Unrun(n + 1, 1, runs')
                        /\ schema' = After(n) \/ (n = 0 /\ Unrepaired')
        BY DEF AtRest
    <2>1. \A q \in Replicas : replica[q].pc \notin AtFile
        OBVIOUS
    <2>2. Unrun(n + 1, 1, runs) /\ (schema = After(n) \/ (n = 0 /\ Unrepaired))
        BY <2>1 DEF Exact, AtRest
    <2> QED
        BY <2>2
<1> QED
    BY <1>1, <1>2, <1>3 DEF Exact

(* Nor is anything written of the migrations.                               *)
LEMMA ExactAside ==
    ASSUME Inv, Exact, NEW r \in Replicas,
           \A q \in Replicas : q # r => replica'[q] = replica[q],
           replica[r].pc \notin AtFile \cup {"repair", "baseline"},
           replica'[r].pc \notin AtFile \cup {"table"},
           UNCHANGED <<table, recorded, schema, runs, crashes>>
    PROVE  Exact'
<1>1. Unrepaired => Unrepaired'
    <2> SUFFICES ASSUME Unrepaired PROVE Unrepaired'
        OBVIOUS
    <2>1. \A q \in Replicas : replica[q].pc \in {"repair", "baseline"} =>
              replica'[q].pc \in {"repair", "baseline"}
        OBVIOUS
    <2> QED
        BY <2>1 DEF Unrepaired
<1> QED
    BY <1>1, ExactPlain

LEMMA ExactOthers ==
    ASSUME Inv, Exact, NEW r \in Replicas,
           \/ Start(r) \/ Lock(r) \/ LockTimeout(r) \/ Unlock(r)
           \/ Count(r) \/ FindOrg(r) \/ InsertUser(r) \/ InsertOrg(r) \/ InsertMember(r)
           \/ AdoptAssets(r) \/ AdoptSettings(r) \/ AdoptSessions(r)
    PROVE  Exact'
<1>1. \A q \in Replicas : replica[q] \in Process
    BY DEF Inv, MoveInv, TypeOK
<1>2. replica \in [Replicas -> Process]
    BY DEF Inv, MoveInv, TypeOK
<1>3. ASSUME NEW pc, Goto(r, pc)
      PROVE  replica'[r].pc = pc /\ \A q \in Replicas : q # r => replica'[q] = replica[q]
    BY <1>1, <1>2, <1>3 DEF Goto, Process
<1>4. ASSUME Fail(r)
      PROVE  replica'[r].pc = "down" /\ \A q \in Replicas : q # r => replica'[q] = replica[q]
    BY <1>2, <1>4 DEF Fail, Down
<1>5. /\ UNCHANGED <<table, recorded, schema, runs, crashes>>
      /\ replica[r].pc \in Booted \cup {"down", "lock", "unlock"}
      /\ Fail(r) \/ \E pc \in Booted \cup {"lock", "detect"} : Goto(r, pc)
    BY DEF Start, Lock, LockTimeout, Unlock, Count, FindOrg, InsertUser, InsertOrg, InsertMember,
           Insert, AdoptAssets, AdoptSettings, AdoptSessions, Adopt, At, Booted
<1>6. /\ \A q \in Replicas : q # r => replica'[q] = replica[q]
      /\ replica'[r].pc \in Booted \cup {"down", "lock", "detect"}
    BY <1>3, <1>4, <1>5
<1> QED
    BY <1>5, <1>6, ExactAside DEF Booted, AtFile

LEMMA ExactDetect ==
    ASSUME Inv, Exact, NEW r \in Replicas, Detect(r)
    PROVE  Exact'
<1>1. /\ replica \in [Replicas -> Process] /\ replica[r] \in Process
      /\ replica[r].pc = "detect" /\ table \in BOOLEAN
    BY DEF Inv, MoveInv, TypeOK, Detect, At
<1>2. /\ replica'[r].pc = "table"
      /\ replica'[r].legacy = (~table /\ "assets" \in schema)
      /\ \A q \in Replicas : q # r => replica'[q] = replica[q]
      /\ UNCHANGED <<table, recorded, schema, runs, crashes>>
    BY <1>1 DEF Detect, Process
<1>3. Unrepaired => Unrepaired'
    BY <1>1, <1>2 DEF Unrepaired
<1> QED
    BY <1>1, <1>2, <1>3, ExactPlain DEF AtFile

LEMMA ExactCreate ==
    ASSUME Inv, Exact, crashes = 0, NEW r \in Replicas, CreateTable(r)
    PROVE  Exact'
<1>1. /\ replica \in [Replicas -> Process] /\ replica[r] \in Process
      /\ replica[r].pc = "table"
    BY DEF Inv, MoveInv, TypeOK, CreateTable, At
<1>2. /\ replica'[r].pc = IF replica[r].legacy THEN "repair" ELSE "read"
      /\ \A q \in Replicas : q # r => replica'[q] = replica[q]
      /\ UNCHANGED <<recorded, schema, runs, crashes>> /\ table' = TRUE
    BY <1>1 DEF CreateTable, Process
<1>3. Unrepaired => Unrepaired'
    <2> SUFFICES ASSUME Unrepaired PROVE Unrepaired'
        OBVIOUS
    <2>1. replica[r].legacy
        <3> SUFFICES ASSUME ~replica[r].legacy PROVE FALSE
            OBVIOUS
        <3>1. table
            BY <1>1 DEF Exact, Unrepaired
        <3>2. PICK q \in Replicas : replica[q].pc \in {"repair", "baseline"}
            BY <3>1 DEF Unrepaired
        <3> QED
            BY <1>1, <3>2, Alone DEF Locked
    <2>2. replica'[r].pc = "repair"
        BY <1>2, <2>1
    <2> QED
        BY <1>2, <2>2 DEF Unrepaired
<1> QED
    BY <1>1, <1>2, <1>3, ExactPlain DEF AtFile

(* Who holds the lock and is at no file finds everything at rest.           *)
LEMMA HolderRests ==
    ASSUME Inv, Exact, crashes = 0, NEW r \in Replicas, replica[r].pc \in Locked \ AtFile
    PROVE  \A n \in 0 .. 6 : recorded = 1 .. n =>
               Unrun(n + 1, 1, runs) /\ (schema = After(n) \/ (n = 0 /\ Unrepaired))
<1>1. \A q \in Replicas : replica[q].pc \notin AtFile
    BY Alone DEF Locked, AtFile
<1> QED
    BY <1>1, Shape DEF Exact, AtRest

LEMMA RepairingUnrepaired ==
    ASSUME Inv, Exact, crashes = 0, NEW r \in Replicas, replica[r].pc \in {"repair", "baseline"}
    PROVE  /\ recorded = {} /\ Unrepaired /\ Unrun(1, 1, runs)
<1>1. recorded = {} /\ "assets" \in schema
    BY DEF Inv, MoveInv, PlacedInv, Placed
<1>2. Unrun(0 + 1, 1, runs) /\ (schema = After(0) \/ Unrepaired)
    <2>1. recorded = 1 .. 0 /\ 0 \in 0 .. 6
        BY <1>1
    <2>2. replica[r].pc \in Locked \ AtFile
        BY DEF Locked, AtFile
    <2> QED
        BY <2>1, <2>2, HolderRests
<1> QED
    BY <1>1, <1>2, AfterNone

(* Of a step that leaves everybody else alone at no file.                   *)
LEMMA ExactOthersIdle ==
    ASSUME Inv, NEW r \in Replicas, replica[r].pc \in Locked,
           \A q \in Replicas : q # r => replica'[q] = replica[q]
    PROVE  \A q \in Replicas : q # r =>
               replica'[q].pc \notin Locked /\ InStep(replica'[q], schema', runs')
<1>1. \A q \in Replicas : q # r => replica'[q].pc \notin Locked
    BY Alone
<1> QED
    BY <1>1 DEF Locked, InStep

LEMMA ExactRepair ==
    ASSUME Inv, Exact, crashes = 0, NEW r \in Replicas, Repair(r)
    PROVE  Exact'
<1>1. /\ replica \in [Replicas -> Process] /\ replica[r] \in Process
      /\ replica[r].pc = "repair" /\ replica[r].step \in 1 .. 8
    BY DEF Inv, MoveInv, TypeOK, Repair, At, PlacedInv, Placed
<1>2. recorded = {} /\ Unrepaired /\ Unrun(1, 1, runs)
    BY <1>1, RepairingUnrepaired
<1>3. /\ replica'[r].pc \in {"repair", "baseline"}
      /\ \A q \in Replicas : q # r => replica'[q] = replica[q]
      /\ UNCHANGED <<table, recorded, runs, crashes>>
    BY <1>1 DEF Repair, Process
<1>4. "assets" \in schema' /\ schema' \subseteq AddsOf(1)
    <2>1. schema' = schema \/ schema' = schema \cup RepairAdds(replica[r].step)
        BY DEF Repair
    <2> QED
        BY <1>1, <1>2, <2>1, RepairsAdd DEF Unrepaired
<1>5. Unrepaired'
    BY <1>3, <1>4 DEF Unrepaired
<1>6. \A q \in Replicas : InStep(replica'[q], schema', runs') /\ replica'[q].pc # "table"
    BY <1>1, <1>3, ExactOthersIdle DEF Locked, InStep
<1>7. ASSUME NEW n \in 0 .. Len(Scripts), recorded' = 1 .. n
      PROVE  n = 0
    BY <1>2, <1>3, <1>7, Shape
<1>8. AtRest'
    BY <1>2, <1>3, <1>5, <1>7 DEF AtRest
<1> QED
    BY <1>3, <1>6, <1>8 DEF Exact

LEMMA ExactBaseline ==
    ASSUME Inv, Exact, crashes = 0, NEW r \in Replicas, RecordBaseline(r)
    PROVE  Exact'
<1>1. /\ replica \in [Replicas -> Process] /\ replica[r] \in Process
      /\ replica[r].pc = "baseline" /\ "assets" \in schema
      /\ \A j \in 1 .. 8 : Repairs[j] \in schema
    BY DEF Inv, MoveInv, TypeOK, RecordBaseline, At, PlacedInv, Placed
<1>2. recorded = {} /\ Unrepaired /\ Unrun(1, 1, runs)
    BY <1>1, RepairingUnrepaired
<1>3. /\ replica'[r].pc = "read" /\ recorded' = {1}
      /\ \A q \in Replicas : q # r => replica'[q] = replica[q]
      /\ UNCHANGED <<table, schema, runs, crashes>>
    BY <1>1, <1>2 DEF RecordBaseline, Goto, Process
<1>4. schema = After(1)
    <2>1. schema = AddsOf(1)
        BY <1>1, <1>2, Repaired DEF Inv, RowsInv, Unrepaired
    <2>2. 1 \in Files /\ 1 - 1 = 0
        BY Shape
    <2>3. After(1) = AddsOf(1)
        BY <2>2, AfterIs, AfterNone, FirstDrops
    <2> QED
        BY <2>1, <2>3
<1>5. \A q \in Replicas : InStep(replica'[q], schema', runs') /\ replica'[q].pc # "table"
    BY <1>1, <1>3, ExactOthersIdle DEF Locked, InStep
<1>6. ASSUME NEW n \in 0 .. Len(Scripts), recorded' = 1 .. n
      PROVE  n = 1
    <2>1. 1 .. n = 1 .. 1
        BY <1>3, <1>6
    <2> QED
        BY <2>1, Shape, SameCount
<1>7. Unrun(2, 1, runs')
    BY <1>2, <1>3, StepIs, Shape DEF Unrun
<1>8. AtRest'
    BY <1>3, <1>4, <1>6, <1>7 DEF AtRest
<1> QED
    BY <1>3, <1>5, <1>8 DEF Exact

(* The holder goes to the file after the n that are recorded, or to unlock. *)
LEMMA ExactNext ==
    ASSUME Inv, Exact, crashes = 0, NEW r \in Replicas, replica[r].pc \in Locked,
           NEW n \in 0 .. 6, recorded' = 1 .. n, Unrun(n + 1, 1, runs), schema = After(n),
           NEW p \in Process, replica' = [replica EXCEPT ![r] = p],
           \/ n = 6 /\ p.pc = "unlock"
           \/ n \in 0 .. 5 /\ p.pc = "file" /\ p.file = n + 1 /\ p.step = 1,
           UNCHANGED <<schema, runs, crashes>>
    PROVE  Exact'
<1>1. replica \in [Replicas -> Process]
    BY DEF Inv, MoveInv, TypeOK
<1>2. replica'[r] = p /\ \A q \in Replicas : q # r => replica'[q] = replica[q]
    BY <1>1
<1>3. InStep(p, schema', runs')
    <2>1. CASE n = 6 /\ p.pc = "unlock"
        BY <2>1 DEF InStep
    <2>2. CASE n \in 0 .. 5 /\ p.pc = "file" /\ p.file = n + 1 /\ p.step = 1
        <3>1. Before(p.file, p.step) = After(n)
            BY <2>2, BeforeFirst
        <3> QED
            BY <2>2, <3>1 DEF InStep
    <2> QED
        BY <2>1, <2>2
<1>4. \A q \in Replicas : InStep(replica'[q], schema', runs') /\ replica'[q].pc # "table"
    BY <1>2, <1>3, ExactOthersIdle DEF Locked
<1>5. AtRest'
    <2> SUFFICES ASSUME NEW m \in 0 .. Len(Scripts), recorded' = 1 .. m
                 PROVE  Unrun(m + 1, 1, runs') /\ schema' = After(m)
        BY DEF AtRest
    <2>1. m = n
        BY Shape, SameCount
    <2> QED
        BY <2>1
<1> QED
    BY <1>4, <1>5 DEF Exact

LEMMA ExactRead ==
    ASSUME Inv, Exact, crashes = 0, NEW r \in Replicas, Read(r)
    PROVE  Exact'
<1>1. replica[r].pc = "read" /\ table /\ UNCHANGED <<recorded, schema, runs, crashes>>
    BY DEF Read, At, Inv, MoveInv, PlacedInv, Placed, Locked
<1>2. PICK n \in 0 .. 6 : recorded = 1 .. n
    BY Shape DEF Inv, RowsInv
<1>3. Unrun(n + 1, 1, runs) /\ (schema = After(n) \/ (n = 0 /\ Unrepaired))
    BY <1>1, <1>2, HolderRests DEF Locked, AtFile
<1>4. ~Unrepaired
    BY <1>1, Alone DEF Unrepaired, Locked
<1>5. NextFile(r, 1 .. n, 1) /\ 1 \in 1 .. n + 1 /\ 1 .. n \subseteq 1 .. n
    BY <1>2 DEF Read
<1>6. PICK p \in Process :
          /\ replica' = [replica EXCEPT ![r] = p]
          /\ \/ n = 6 /\ p.pc = "unlock"
             \/ n \in 0 .. 5 /\ p.pc = "file" /\ p.file = n + 1 /\ p.step = 1
    BY <1>5, NextPlaced DEF Inv, MoveInv
<1> QED
    BY <1>1, <1>2, <1>3, <1>4, <1>6, ExactNext DEF Locked

LEMMA ExactRecord ==
    ASSUME Inv, Exact, crashes = 0, NEW r \in Replicas, Record(r)
    PROVE  Exact'
<1> DEFINE f == replica[r].file
<1>1. replica[r].pc = "record"
    BY DEF Record, At
<1>2. f \in Files /\ recorded = 1 .. f - 1 /\ replica[r].applied \subseteq recorded
    BY <1>1, AtFileIs DEF AtFile
<1>3. f \in 1 .. 6 /\ f \in 0 .. 6
    BY <1>2, Shape
<1>4. schema = After(f) /\ Unrun(f + 1, 1, runs)
    BY <1>1 DEF Exact, InStep
<1>5. /\ UNCHANGED <<schema, runs, crashes>> /\ recorded' = recorded \cup {f}
      /\ NextFile(r, replica[r].applied, f + 1)
    BY DEF Record
<1>6. recorded' = 1 .. f
    BY <1>2, <1>3, <1>5
<1>7. PICK p \in Process :
          /\ replica' = [replica EXCEPT ![r] = p]
          /\ \/ f = 6 /\ p.pc = "unlock"
             \/ f \in 0 .. 5 /\ p.pc = "file" /\ p.file = f + 1 /\ p.step = 1
    <2>1. /\ replica[r].applied \subseteq 1 .. f /\ f + 1 \in 1 .. f + 1
          /\ f + 1 .. f \subseteq replica[r].applied
        BY <1>2, <1>3
    <2> QED
        BY <1>3, <1>5, <2>1, NextPlaced DEF Inv, MoveInv
<1> QED
    BY <1>1, <1>3, <1>4, <1>5, <1>6, <1>7, ExactNext DEF Locked

(* As the objects are exactly those before the statement, it succeeds.      *)
LEMMA NoFailure ==
    ASSUME Inv, Exact, crashes = 0, NEW r \in Replicas
    PROVE  ~StatementFails(r)
<1> SUFFICES ASSUME StatementFails(r) PROVE FALSE
    OBVIOUS
<1> DEFINE f == replica[r].file
           i == replica[r].step
<1>1. replica[r].pc = "file" /\ ~Runs(Scripts[f][i])
    BY DEF StatementFails, At
<1>2. f \in Files /\ i \in 1 .. Len(Scripts[f])
    BY <1>1 DEF Inv, MoveInv, PlacedInv, Placed, AtFile
<1>3. schema = Before(f, i)
    BY <1>1 DEF Exact, InStep
<1> QED
    BY <1>1, <1>2, <1>3, FileRuns DEF Runs

LEMMA ExactExecute ==
    ASSUME Inv, Exact, crashes = 0, NEW r \in Replicas, Execute(r)
    PROVE  Exact'
<1> DEFINE f == replica[r].file
           i == replica[r].step
<1>1. /\ replica[r].pc = "file" /\ replica[r] \in Process
      /\ replica \in [Replicas -> Process] /\ runs \in [Steps -> 0 .. 2]
    BY DEF Execute, At, Inv, MoveInv, TypeOK
<1>2. f \in Files /\ i \in 1 .. Len(Scripts[f]) /\ Len(Scripts[f]) \in Nat /\ f \in Nat
    BY <1>1, StepNumbers, Shape DEF Inv, MoveInv, PlacedInv, Placed, AtFile
<1>3. schema = Before(f, i) /\ Unrun(f, i, runs)
    BY <1>1 DEF Exact, InStep
<1>4. <<f, i>> \in Steps /\ runs[<<f, i>>] = 0
    BY <1>2, <1>3, IsStep DEF Unrun
<1>5. /\ UNCHANGED <<table, recorded, crashes>>
      /\ schema' = (schema \cup Scripts[f][i].adds) \ Scripts[f][i].drops
      /\ runs' = [runs EXCEPT ![<<f, i>>] = IF @ = 2 THEN 2 ELSE @ + 1]
    BY DEF Execute
<1>6. \A st \in Steps : runs'[st] = IF st = <<f, i>> THEN 1 ELSE runs[st]
    BY <1>1, <1>4, <1>5
<1>7. schema' = Before(f, i + 1)
    BY <1>2, <1>3, <1>5, BeforeNext
<1>8. Unrun(f, i + 1, runs')
    <2> SUFFICES ASSUME NEW st \in Steps, st[1] > f \/ (st[1] = f /\ st[2] >= i + 1)
                 PROVE  runs'[st] = 0
        BY DEF Unrun
    <2>1. st[1] \in Files /\ st[2] \in Nat /\ st[1] \in Nat
        BY StepIs, StepNumbers, Shape
    <2>2. st # <<f, i>>
        BY <1>2, <2>1
    <2>3. st[1] > f \/ (st[1] = f /\ st[2] >= i)
        BY <1>2, <2>1
    <2> QED
        BY <1>3, <1>6, <2>2, <2>3 DEF Unrun
<1>9. \A q \in Replicas : q # r => replica'[q] = replica[q]
    BY <1>1 DEF Execute, StepDone
<1>10. InStep(replica'[r], schema', runs') /\ replica'[r].pc \in AtFile
    <2>1. CASE i = Len(Scripts[f])
        <3>1. replica'[r].pc = "record" /\ replica'[r].file = f
            BY <1>1, <2>1 DEF Execute, StepDone, Process
        <3>2. schema' = After(f)
            BY <1>2, <1>7, <2>1, BeforeLast
        <3>3. Unrun(f + 1, 1, runs')
            <4>1. \A st \in Steps : st[1] >= f + 1 => st[1] > f
                BY <1>2, StepIs, Shape
            <4> QED
                BY <1>2, <1>8, <4>1, StepIs, Shape DEF Unrun
        <3> QED
            BY <3>1, <3>2, <3>3 DEF InStep, AtFile
    <2>2. CASE i # Len(Scripts[f])
        <3>1. replica'[r].pc = "file" /\ replica'[r].file = f /\ replica'[r].step = i + 1
            BY <1>1, <2>2 DEF Execute, StepDone, Process
        <3> QED
            BY <1>7, <1>8, <3>1 DEF InStep, AtFile
    <2> QED
        BY <2>1, <2>2
<1>11. \A q \in Replicas : InStep(replica'[q], schema', runs') /\ replica'[q].pc # "table"
    BY <1>1, <1>9, <1>10, ExactOthersIdle DEF Locked, AtFile
<1>12. AtRest'
    BY <1>10 DEF AtRest
<1>13. \A st \in Steps : runs'[st] <= 1
    BY <1>1, <1>5, <1>6 DEF Exact
<1> QED
    BY <1>11, <1>12, <1>13 DEF Exact

LEMMA ExactInit == MigrationsAssumption /\ Init => Exact
<1> SUFFICES ASSUME MigrationsAssumption, Init PROVE Exact
    OBVIOUS
<1>1. \A r \in Replicas : replica[r] = Down /\ Down.pc = "down"
    BY DownPlaced DEF Init
<1>2. \A st \in Steps : runs[st] = 0
    BY DEF Init
<1>3. \A r \in Replicas : InStep(replica[r], schema, runs) /\ replica[r].pc # "table"
    BY <1>1 DEF InStep
<1>4. \A n \in 0 .. 6 : recorded = 1 .. n => schema = After(n) \/ (n = 0 /\ Unrepaired)
    <2> SUFFICES ASSUME NEW n \in 0 .. 6, recorded = 1 .. n
                 PROVE  schema = After(n) \/ (n = 0 /\ Unrepaired)
        OBVIOUS
    <2>1. CASE Migrated
        <3>1. PICK m \in Files : recorded = 1 .. m /\ schema = After(m)
            BY <2>1 DEF Migrated
        <3>2. m \in 0 .. 6 /\ m = n
            BY <3>1, Shape, SameCount
        <3> QED
            BY <3>1, <3>2
    <2>2. CASE recorded = {}
        <3>1. n = 0
            BY <2>2
        <3>2. CASE FreshInstall
            BY <3>1, <3>2, AfterNone DEF FreshInstall
        <3>3. CASE LegacyInstall
            BY <3>1, <3>3, FirstAdds DEF LegacyInstall, Unrepaired
        <3>4. CASE Migrated
            BY <2>1, <3>4
        <3> QED
            BY <3>2, <3>3, <3>4 DEF Init
    <2> QED
        BY <2>1, <2>2 DEF Init, FreshInstall, LegacyInstall
<1> QED
    BY <1>2, <1>3, <1>4, Shape DEF Exact, AtRest, Unrun

LEMMA ExactKept ==
    ASSUME MigrationsAssumption, Inv, Exact, [Next]_vars
    PROVE  Exact'
<1>1. ASSUME NEW r \in Replicas, Crash(r) PROVE Exact'
    <2>1. crashes' # 0
        BY <1>1 DEF Crash, Inv, MoveInv, TypeOK, MigrationsAssumption
    <2> QED
        BY <2>1 DEF Exact
<1>2. CASE UNCHANGED vars
    BY <1>2 DEF vars, Exact, AtRest, Unrepaired
<1>3. ASSUME NEW r \in Replicas, Boot(r) \/ LockTimeout(r) PROVE Exact'
    <2>1. UNCHANGED crashes
        BY <1>3 DEF Boot, Start, Lock, LockTimeout, Unlock, Detect, CreateTable, Repair,
            RecordBaseline, Read, Execute, StatementFails, Record, Count, FindOrg, InsertUser,
            InsertOrg, InsertMember, Insert, AdoptAssets, AdoptSettings, AdoptSessions, Adopt
    <2>2. CASE crashes = 0
        BY <1>3, <2>2, NoFailure, ExactOthers, ExactDetect, ExactCreate, ExactRepair,
           ExactBaseline, ExactRead, ExactRecord, ExactExecute DEF Boot
    <2>3. CASE crashes # 0
        BY <2>1, <2>3 DEF Exact
    <2> QED
        BY <2>2, <2>3
<1> QED
    BY <1>1, <1>2, <1>3 DEF Next

(* However many replicas boot together, no statement is executed twice, nor *)
(* does one fail that others would have to follow: only a death between a   *)
(* statement and the record of its file repeats one (migrations.ts:286-352).*)
THEOREM Once == Spec => []AppliedOnce
<1>1. Init => Inv /\ Exact
    BY InitKept, ExactInit, MigrationsAssumption
<1>2. (Inv /\ Exact) /\ [Next]_vars => (Inv /\ Exact)'
    BY NextKept, ExactKept, MigrationsAssumption
<1>3. Inv /\ Exact => AppliedOnce
    BY DEF Inv, MoveInv, TypeOK, Exact, AppliedOnce, MigrationsAssumption
<1> QED
    BY <1>1, <1>2, <1>3, PTL DEF Spec

=============================================================================
