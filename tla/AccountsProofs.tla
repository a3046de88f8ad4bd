---------------------------- MODULE AccountsProofs ----------------------------
(***************************************************************************)
(* Facts about Accounts, for any number of requests, processes, reset      *)
(* links, slots and videos, any lifetimes and any limits:                  *)
(*                                                                         *)
(*   PasswordsKept      a login proves the password in force, and a reset  *)
(*                      link changes it once, by LoginInv and LinkInv      *)
(*   RevokedTokensFade  a revoked token is let in no later than a cache    *)
(*                      lifetime and a read after, by RevokeInv            *)
(*   WithinPlan         a plan is exceeded by what is in flight at once    *)
(*                      and no further, by UsageInv and LimitsKept         *)
(*                                                                         *)
(* The first two rest on SessionsTyped, which counts the requests that may *)
(* still raise the version of the tokens; the third on UsageTyped, by      *)
(* which the length of a video at work stays what it was.                  *)
(*                                                                         *)
(* Before them, four about Membership alone (Spec is its specification),   *)
(* for any people, any number of requests that overlap, any plan, and any  *)
(* number of rows, invitations and keys:                                   *)
(*                                                                         *)
(*   OwnerUnique        the organization keeps its one owner, by OwnerInv  *)
(*   JoinedOnce         an invitation adds one member at most, and nobody  *)
(*                      is a member twice, by JoinsOnce and Distinct       *)
(*   LimitsKept         members, invitations and keys exceed the plan by   *)
(*                      no more than the requests in flight, by SeatInv    *)
(*                      and KeyInv                                         *)
(*   KeysFollow         a key outlives its author's membership only if the *)
(*                      removal missed it, by Followed                     *)
(*                                                                         *)
(* These rest on Typed: the types, and what the id of a request names.     *)
(***************************************************************************)
EXTENDS Accounts, FiniteSetTheorems, WellFoundedInduction, TLAPS

(* A request names a member or an invitation by an id, and a person where   *)
(* it can make one a member; only two kinds of requests look at the row     *)
(* they are about to write.                                                 *)
Sound(q) ==
    q.pc # "idle" =>
        /\ q.pc = "target" => q.kind \in {"setRole", "remove"}
        /\ q.kind \in {"setRole", "remove"} => q.id \in RowIds
        /\ q.kind \in {"revokeInvite", "accept"} => q.id \in InviteIds
        /\ q.kind \in {"invite", "signup"} => q.who \in People
        /\ q.kind = "accept" /\ q.pc # "load" => q.who \in People

Named == \A r \in Requests : Sound(req[r])

Addressed == \A i \in InviteIds : invite[i].state # "free" => invite[i].who \in People

Typed == TypeOK /\ Named /\ Addressed

(* The owner's row is the first; no other row, invitation or request that   *)
(* could become one is the owner's or makes an owner, and no write of a     *)
(* role, and no removal, is about to hit the first row.                     *)
FirstRowOwns == row[1] = [state |-> "live", who |-> Owner, role |-> "owner"]

OtherRows ==
    \A i \in RowIds \ {1} :
        row[i].role # "owner" /\ (row[i].state = "live" => row[i].who # Owner)

Invitations ==
    \A i \in InviteIds : invite[i].state # "free" =>
        invite[i].who # Owner /\ invite[i].role # "owner"

Inviting ==
    \A r \in Requests : req[r].kind = "invite" =>
        /\ req[r].pc # "idle" => req[r].role # "owner"
        /\ req[r].pc \in {"count", "replace", "write"} => req[r].who # Owner

Accepting ==
    \A r \in Requests :
        req[r].kind = "accept" /\ req[r].pc \in {"account", "create", "begin", "commit"} =>
            req[r].who # Owner /\ req[r].role # "owner"

Writing ==
    \A r \in Requests :
        /\ req[r].kind \in {"setRole", "remove"} /\ req[r].pc = "write" => req[r].id # 1
        /\ req[r].kind = "setRole" /\ req[r].pc # "idle" => req[r].role # "owner"

OwnerInv == FirstRowOwns /\ OtherRows /\ Invitations /\ Inviting /\ Accepting /\ Writing

(* Two live rows are of two people.  (JoinedOnce needs no more than this    *)
(* and JoinsOnce.)                                                          *)
Distinct ==
    \A i, j \in RowIds :
        row[i].state = "live" /\ row[j].state = "live" /\ row[i].who = row[j].who => i = j

-----------------------------------------------------------------------------
(* Types.                                                                   *)

(* Of the requests, one goes on or ends.                                    *)
LEMMA MovesTyped ==
    ASSUME Typed, NEW r \in Requests, NEW q \in Request, Sound(q),
           req' = [req EXCEPT ![r] = q]
    PROVE  req' \in [Requests -> Request] /\ Named'
<1>1. req' \in [Requests -> Request]
    BY DEF Typed, TypeOK
<1>2. \A s \in Requests : req'[s] = IF s = r THEN q ELSE req[s]
    BY DEF Typed, TypeOK
<1> QED
    BY <1>1, <1>2 DEF Typed, Named, Sound

LEMMA GotoTyped ==
    ASSUME Typed, NEW r \in Requests, NEW pc \in Steps, Goto(r, pc),
           req[r].pc \notin {"idle", "load"},
           pc = "target" => req[r].kind \in {"setRole", "remove"}
    PROVE  req' \in [Requests -> Request] /\ Named'
<1> DEFINE q == [req[r] EXCEPT !.pc = pc]
<1>1. req[r] \in Request
    BY DEF Typed, TypeOK
<1>2. q \in Request
    BY <1>1 DEF Request
<1>3. q.kind = req[r].kind /\ q.id = req[r].id /\ q.pc = pc /\ q.who = req[r].who
    BY <1>1 DEF Request
<1>4. Sound(q)
    BY <1>3 DEF Sound, Typed, Named
<1>5. req' = [req EXCEPT ![r] = q]
    BY DEF Goto
<1> QED
    BY <1>2, <1>4, <1>5, MovesTyped

LEMMA DoneTyped ==
    ASSUME Typed, NEW r \in Requests, Done(r)
    PROVE  req' \in [Requests -> Request] /\ Named'
<1>1. Idle \in Request /\ Sound(Idle)
    BY DEF Sound, Request, Idle, Steps, Kinds, Someone, Roles, NoId
<1> QED
    BY <1>1, MovesTyped DEF Done

LEMMA ArriveTyped ==
    ASSUME MembershipAssumption, Typed, NEW r \in Requests, Start(r)
    PROVE  Typed'
<1> DEFINE Arriving(kind, pc, by, id, who, role) ==
              [pc |-> pc, kind |-> kind, by |-> by, id |-> id, who |-> who, role |-> role,
               member |-> FALSE]
<1>1. ASSUME NEW kind \in Kinds, NEW pc \in Steps, NEW by \in Someone,
             NEW id \in RowIds \cup InviteIds \cup KeyIds \cup {NoId},
             NEW who \in Someone, NEW role \in Roles,
             pc # "target", kind \in {"setRole", "remove"} => id \in RowIds,
             kind \in {"revokeInvite", "accept"} => id \in InviteIds,
             kind \in {"invite", "signup"} => who \in People, kind = "accept" => pc = "load",
             Arrive(r, kind, pc, by, id, who, role)
      PROVE  Typed'
    <2>1. Arriving(kind, pc, by, id, who, role) \in Request
        BY <1>1 DEF Request
    <2>2. req' = [req EXCEPT ![r] = Arriving(kind, pc, by, id, who, role)]
        BY <1>1 DEF Arrive
    <2>3. req' \in [Requests -> Request] /\ Named'
        BY <1>1, <2>1, <2>2, MovesTyped DEF Sound
    <2>4. arrived' \in 0 .. MaxRequests
        BY <1>1 DEF Arrive, Typed, TypeOK, MembershipAssumption
    <2> QED
        BY <1>1, <2>3, <2>4 DEF Arrive, Typed, TypeOK, Addressed
<1>2. /\ account \subseteq Someone /\ Nobody \in Someone /\ People \subseteq Someone
      /\ {"admin", "member"} \subseteq Roles
      /\ Seen(row) \subseteq RowIds /\ Seen(invite) \subseteq InviteIds /\ Seen(key) \subseteq KeyIds
    BY DEF Typed, TypeOK, Someone, Roles, Seen
<1>3. {"role", "load", "account"} \subseteq Steps
    BY DEF Steps
<1> HIDE DEF Arriving
<1>4. CASE StartInvite(r)
    BY <1>1, <1>2, <1>3, <1>4 DEF StartInvite, Kinds
<1>5. CASE StartRevoke(r)
    BY <1>1, <1>2, <1>3, <1>5 DEF StartRevoke, Kinds
<1>6. CASE StartSetRole(r)
    BY <1>1, <1>2, <1>3, <1>6 DEF StartSetRole, Kinds
<1>7. CASE StartRemove(r)
    BY <1>1, <1>2, <1>3, <1>7 DEF StartRemove, Kinds
<1>8. CASE StartCreateKey(r)
    BY <1>1, <1>2, <1>3, <1>8 DEF StartCreateKey, Kinds
<1>9. CASE StartRevokeKey(r)
    BY <1>1, <1>2, <1>3, <1>9 DEF StartRevokeKey, Kinds
<1>10. CASE StartAccept(r)
    BY <1>1, <1>2, <1>3, <1>10 DEF StartAccept, Kinds
<1>11. CASE StartSignup(r)
    BY <1>1, <1>2, <1>3, <1>11 DEF StartSignup, Kinds
<1> QED
    BY <1>4, <1>5, <1>6, <1>7, <1>8, <1>9, <1>10, <1>11 DEF Start

(* Handlers that write nothing but their own progress (or die at it).       *)
Reads(r) ==
    \/ Role(r) \/ InviteKnown(r) \/ InviteCount(r) \/ Target(r) \/ CountKeys(r)
    \/ Load(r) \/ Account(r) \/ Begin(r) \/ Signup(r) \/ Die(r)

LEMMA ReadsTyped ==
    ASSUME Typed, NEW r \in Requests, Reads(r)
    PROVE  Typed'
<1>1. {"known", "target", "count", "replace", "write", "create", "begin", "commit"} \subseteq Steps
    BY DEF Steps
<1>2. UNCHANGED <<account, row, invite, joined, arrived>> /\ key' \in [KeyIds -> Key]
    <2>1. CASE Die(r)
        BY <2>1 DEF Die, Typed, TypeOK, Key
    <2>2. CASE ~Die(r)
        BY <2>2 DEF Reads, Role, InviteKnown, InviteCount, Target, CountKeys, Load, Account, Begin,
                    Signup, Typed, TypeOK
    <2> QED
        BY <2>1, <2>2
<1>3. req[r] \in Request /\ (\A i \in RowIds : row[i].who \in Someone)
      /\ (\A i \in InviteIds : invite[i].who \in Someone /\ invite[i].role \in Roles)
    BY DEF Typed, TypeOK, Member, Invitation
<1>4. /\ AfterRole(req[r].kind) \in Steps
      /\ AfterRole(req[r].kind) = "target" => req[r].kind \in {"setRole", "remove"}
    BY DEF AfterRole, Steps
<1>5. req' \in [Requests -> Request] /\ Named'
    <2>1. CASE Role(r)
        BY <2>1, <1>1, <1>4, GotoTyped, DoneTyped DEF Role
    <2>2. CASE InviteKnown(r)
        BY <2>2, <1>1, GotoTyped, DoneTyped DEF InviteKnown, At
    <2>3. CASE InviteCount(r)
        BY <2>3, <1>1, GotoTyped, DoneTyped DEF InviteCount, At
    <2>4. CASE Target(r)
        <3>1. CASE Done(r)
            BY <3>1, DoneTyped
        <3>2. CASE ~Done(r)
            <4> DEFINE q == [req[r] EXCEPT !.pc = "write", !.who = row[req[r].id].who]
            <4>1. req' = [req EXCEPT ![r] = q] /\ req[r].pc = "target"
                BY <3>2, <2>4 DEF Target
            <4>2. req[r].id \in RowIds
                BY <4>1 DEF Typed, Named, Sound
            <4>3. q \in Request
                BY <1>3, <4>2 DEF Request, Steps
            <4>4. q.kind = req[r].kind /\ q.id = req[r].id /\ q.pc = "write"
                BY <1>3 DEF Request
            <4>5. Sound(q)
                BY <4>1, <4>4 DEF Sound, Typed, Named
            <4> QED
                BY <4>1, <4>3, <4>5, MovesTyped
        <3> QED
            BY <3>1, <3>2
    <2>5. CASE CountKeys(r)
        BY <2>5, <1>1, GotoTyped, DoneTyped DEF CountKeys, At
    <2>6. CASE Load(r)
        <3>1. CASE Done(r)
            BY <3>1, DoneTyped
        <3>2. CASE ~Done(r)
            <4> DEFINE q == [req[r] EXCEPT !.pc = "account", !.who = invite[req[r].id].who,
                                           !.role = invite[req[r].id].role]
            <4>1. req' = [req EXCEPT ![r] = q] /\ req[r].pc = "load" /\ req[r].kind = "accept"
                BY <3>2, <2>6 DEF Load, At
            <4>2. req[r].id \in InviteIds
                BY <4>1 DEF Typed, Named, Sound
            <4>3. q \in Request
                BY <1>3, <4>2 DEF Request, Steps
            <4>4. /\ q.kind = req[r].kind /\ q.id = req[r].id /\ q.pc = "account"
                  /\ q.who = invite[req[r].id].who
                BY <1>3 DEF Request
            <4>5. invite[req[r].id].who \in People
                <5>1. invite[req[r].id].state = "open"
                    BY <2>6, <3>2 DEF Load
                <5> QED
                    BY <4>2, <5>1 DEF Typed, Addressed
            <4>6. Sound(q)
                BY <4>1, <4>2, <4>4, <4>5 DEF Sound
            <4> QED
                BY <4>1, <4>3, <4>6, MovesTyped
        <3> QED
            BY <3>1, <3>2
    <2>7. CASE Account(r)
        BY <2>7, <1>1, GotoTyped, DoneTyped DEF Account, At
    <2>8. CASE Begin(r)
        <3> DEFINE q == [req[r] EXCEPT !.pc = "commit", !.member = (RowsOf(req[r].who) # {})]
        <3>1. req' = [req EXCEPT ![r] = q] /\ req[r].pc # "idle"
            BY <2>8 DEF Begin, At
        <3>2. /\ q \in Request /\ q.kind = req[r].kind /\ q.id = req[r].id /\ q.pc = "commit"
              /\ q.who = req[r].who
            BY <1>1, <1>3 DEF Request
        <3>3. Sound(q)
            BY <2>8, <3>1, <3>2 DEF Sound, Typed, Named, Begin, At
        <3> QED
            BY <3>1, <3>2, <3>3, MovesTyped
    <2>9. CASE Signup(r)
        BY <2>9, <1>1, GotoTyped, DoneTyped DEF Signup, At
    <2>10. CASE Die(r)
        BY <2>10, DoneTyped DEF Die
    <2> QED
        BY <2>1, <2>2, <2>3, <2>4, <2>5, <2>6, <2>7, <2>8, <2>9, <2>10 DEF Reads
<1> QED
    BY <1>2, <1>5 DEF Typed, TypeOK, Addressed

(* Handlers that write.                                                     *)
Writes(r) ==
    \/ InviteReplace(r) \/ InviteInsert(r) \/ RevokeInvite(r) \/ SetRole(r) \/ Remove(r)
    \/ RemoveKeys(r) \/ InsertKey(r) \/ RevokeKey(r) \/ Create(r) \/ Commit(r) \/ SignupCommit(r)

LEMMA WritesTyped ==
    ASSUME MembershipAssumption, Typed, NEW r \in Requests, Writes(r)
    PROVE  Typed'
<1>1. req' \in [Requests -> Request] /\ Named'
    <2>1. {"write", "keys", "begin"} \subseteq Steps
        BY DEF Steps
    <2>2. CASE InviteReplace(r)
        BY <2>1, <2>2, GotoTyped DEF InviteReplace, At
    <2>3. CASE Remove(r)
        BY <2>1, <2>3, GotoTyped DEF Remove, At
    <2>4. CASE Create(r)
        BY <2>1, <2>4, GotoTyped, DoneTyped DEF Create, At
    <2> QED
        BY <2>2, <2>3, <2>4, DoneTyped
           DEF Writes, InviteInsert, RevokeInvite, SetRole, RemoveKeys, InsertKey, RevokeKey,
               Commit, SignupCommit
<1>2. /\ account' \subseteq People /\ row' \in [RowIds -> Member]
      /\ invite' \in [InviteIds -> Invitation] /\ key' \in [KeyIds -> Key]
      /\ joined' \in [InviteIds -> Nat] /\ arrived' \in 0 .. MaxRequests
    <2>1. req[r] \in Request
        BY DEF Typed, TypeOK
    <2> USE DEF Typed, TypeOK
    <2>2. CASE InviteReplace(r)
        BY <2>2 DEF InviteReplace, Invitation
    <2>3. CASE InviteInsert(r)
        BY <2>1, <2>3 DEF InviteInsert, NewId, Invitation, Request
    <2>4. CASE RevokeInvite(r)
        BY <2>4 DEF RevokeInvite, Invitation
    <2>5. CASE SetRole(r)
        BY <2>1, <2>5 DEF SetRole, Member, Request
    <2>6. CASE Remove(r)
        BY <2>6 DEF Remove, Member
    <2>7. CASE RemoveKeys(r)
        BY <2>7 DEF RemoveKeys, Key
    <2>8. CASE InsertKey(r)
        BY <2>1, <2>8 DEF InsertKey, NewId, Key, Request
    <2>9. CASE RevokeKey(r)
        BY <2>9 DEF RevokeKey, Key
    <2>10. CASE Create(r)
        <3>1. req[r].who \in People
            BY <2>10 DEF Create, At, Named, Sound
        <3> QED
            BY <2>10, <3>1 DEF Create
    <2>11. CASE Commit(r)
        <3>1. row' \in [RowIds -> Member] /\ joined' \in [InviteIds -> Nat]
            <4>1. CASE UNCHANGED <<row, joined>>
                BY <4>1
            <4>2. CASE ~UNCHANGED <<row, joined>>
                <5>1. PICK i \in NewId(row) :
                         /\ row' = [row EXCEPT ![i] = [state |-> "live", who |-> req[r].who,
                                                       role |-> req[r].role]]
                         /\ joined' = [joined EXCEPT ![req[r].id] = @ + 1]
                    BY <2>11, <4>2 DEF Commit, Join
                <5>2. [state |-> "live", who |-> req[r].who, role |-> req[r].role] \in Member
                    BY <2>1 DEF Member, Request
                <5>3. row' \in [RowIds -> Member]
                    BY <5>1, <5>2
                <5>4. joined' \in [InviteIds -> Nat]
                    <6>1. req[r].id \in InviteIds /\ joined \in [InviteIds -> Nat]
                        BY <2>11 DEF Commit, At, Named, Sound
                    <6>2. joined[req[r].id] + 1 \in Nat
                        BY <6>1
                    <6> QED
                        BY <5>1, <6>1, <6>2
                <5> QED
                    BY <5>3, <5>4
            <4> QED
                BY <4>1, <4>2
        <3>2. invite' \in [InviteIds -> Invitation]
            BY <2>11 DEF Commit, Invitation
        <3> QED
            BY <2>11, <3>1, <3>2 DEF Commit
    <2>12. CASE SignupCommit(r)
        <3>1. req[r].who \in People
            BY <2>12 DEF SignupCommit, At, Named, Sound
        <3> QED
            BY <2>12, <3>1 DEF SignupCommit
    <2> QED
        BY <2>2, <2>3, <2>4, <2>5, <2>6, <2>7, <2>8, <2>9, <2>10, <2>11, <2>12 DEF Writes
<1>3. Addressed'
    <2>1. invite \in [InviteIds -> Invitation] /\ Addressed
        BY DEF Typed, TypeOK
    <2>2. CASE InviteReplace(r)
        BY <2>1, <2>2 DEF InviteReplace, Addressed, Invitation
    <2>3. CASE InviteInsert(r)
        <3>1. req[r].who \in People
            BY <2>3 DEF InviteInsert, At, Typed, Named, Sound
        <3> QED
            BY <2>1, <2>3, <3>1 DEF InviteInsert, NewId, Addressed, Invitation
    <2>4. CASE RevokeInvite(r)
        BY <2>1, <2>4 DEF RevokeInvite, Addressed, Invitation
    <2>5. CASE Commit(r)
        BY <2>1, <2>5 DEF Commit, Addressed, Invitation
    <2>6. CASE UNCHANGED invite
        BY <2>1, <2>6 DEF Addressed
    <2> QED
        BY <2>2, <2>3, <2>4, <2>5, <2>6
           DEF Writes, SetRole, Remove, RemoveKeys, InsertKey, RevokeKey, Create, SignupCommit
<1> QED
    BY <1>1, <1>2, <1>3 DEF Typed, TypeOK

LEMMA LapseTyped ==
    ASSUME Typed, NEW i \in InviteIds, Lapse(i)
    PROVE  Typed'
BY DEF Typed, TypeOK, Named, Sound, Addressed, Lapse, Invitation

(* The steps, by what they touch.                                           *)
LEMMA NextCases ==
    ASSUME Next
    PROVE  \/ \E r \in Requests : Start(r) \/ Reads(r) \/ Writes(r)
           \/ \E i \in InviteIds : Lapse(i)
BY DEF Next, Handler, Reads, Writes

LEMMA TypedInit == MembershipAssumption /\ Init => Typed
<1> SUFFICES ASSUME MembershipAssumption, Init
             PROVE  Typed
    OBVIOUS
<1> USE DEF MembershipAssumption, Init
<1>1. account \subseteq People /\ arrived \in 0 .. MaxRequests /\ joined \in [InviteIds -> Nat]
    OBVIOUS
<1>2. row \in [RowIds -> Member] /\ invite \in [InviteIds -> Invitation] /\ key \in [KeyIds -> Key]
    BY DEF FreeRow, FreeInvite, FreeKey, Member, Invitation, Key, Someone, Roles
<1>3. Idle \in Request /\ Idle.pc = "idle"
    BY DEF Request, Idle, Steps, Kinds, Someone, Roles, NoId
<1>4. Addressed
    BY DEF Addressed, FreeInvite
<1> QED
    BY <1>1, <1>2, <1>3, <1>4 DEF Typed, TypeOK, Named, Sound

LEMMA TypedStep == MembershipAssumption /\ Typed /\ [Next]_vars => Typed'
<1> SUFFICES ASSUME MembershipAssumption, Typed, [Next]_vars
             PROVE  Typed'
    OBVIOUS
<1>1. CASE Next
    BY <1>1, NextCases, ArriveTyped, ReadsTyped, WritesTyped, LapseTyped
<1>2. CASE UNCHANGED vars
    BY <1>2 DEF vars, Typed, TypeOK, Named, Sound, Addressed
<1> QED
    BY <1>1, <1>2

(* Members, invitations, keys and requests have the types the handlers give *)
(* them, however many requests race (routes/orgs.ts, routes/invitations.ts, *)
(* the sign-up of routes/auth.ts).                                          *)
THEOREM MembersTyped == Spec => []TypeOK
<1>1. Init => Typed
    BY TypedInit, MembershipAssumption
<1>2. Typed /\ [Next]_vars => Typed'
    BY TypedStep, MembershipAssumption
<1>3. Typed => TypeOK
    BY DEF Typed
<1> QED
    BY <1>1, <1>2, <1>3, PTL DEF Spec

-----------------------------------------------------------------------------
(* One owner.                                                               *)

(* Only the first row is the owner's.                                       *)
LEMMA OwnersRows ==
    ASSUME MembershipAssumption, OwnerInv
    PROVE  RowsOf(Owner) = {1}
<1>1. 1 \in RowIds
    BY DEF MembershipAssumption, RowIds
<1> QED
    BY <1>1 DEF OwnerInv, FirstRowOwns, OtherRows, RowsOf

(* What OwnerInv says of one request.                                       *)
Harmless(q) ==
    /\ q.kind = "invite" => /\ q.pc # "idle" => q.role # "owner"
                            /\ q.pc \in {"count", "replace", "write"} => q.who # Owner
    /\ q.kind = "accept" /\ q.pc \in {"account", "create", "begin", "commit"} =>
         q.who # Owner /\ q.role # "owner"
    /\ q.kind \in {"setRole", "remove"} /\ q.pc = "write" => q.id # 1
    /\ q.kind = "setRole" /\ q.pc # "idle" => q.role # "owner"

LEMMA OwnerParts ==
    OwnerInv <=> FirstRowOwns /\ OtherRows /\ Invitations /\ (\A r \in Requests : Harmless(req[r]))
BY DEF OwnerInv, Inviting, Accepting, Writing, Harmless

(* One request goes on or ends, and the rest stands.                        *)
LEMMA MovesHarmless ==
    ASSUME Typed, OwnerInv, NEW r \in Requests, NEW q, Harmless(q),
           req' = [req EXCEPT ![r] = q]
    PROVE  \A s \in Requests : Harmless(req'[s])
<1>1. \A s \in Requests : req'[s] = IF s = r THEN q ELSE req[s]
    BY DEF Typed, TypeOK
<1> QED
    BY <1>1, OwnerParts

LEMMA DoneHarmless ==
    ASSUME Typed, OwnerInv, NEW r \in Requests, Done(r)
    PROVE  \A s \in Requests : Harmless(req'[s])
<1>1. Harmless(Idle)
    BY DEF Harmless, Idle
<1> QED
    BY <1>1, MovesHarmless DEF Done

(* A request may go on where OwnerInv asks nothing new of it.               *)
LEMMA GotoHarmless ==
    ASSUME Typed, OwnerInv, NEW r \in Requests, NEW pc, Goto(r, pc),
           req[r].pc # "idle",
           req[r].kind = "invite" /\ pc \in {"count", "replace", "write"} => req[r].who # Owner,
           req[r].kind = "accept" /\ pc \in {"account", "create", "begin", "commit"} =>
               req[r].pc \in {"account", "create", "begin", "commit"},
           req[r].kind \in {"setRole", "remove"} => pc # "write"
    PROVE  \A s \in Requests : Harmless(req'[s])
<1> DEFINE q == [req[r] EXCEPT !.pc = pc]
<1>1. q.kind = req[r].kind /\ q.id = req[r].id /\ q.pc = pc /\ q.who = req[r].who
      /\ q.role = req[r].role
    BY DEF Typed, TypeOK, Request
<1>2. Harmless(req[r])
    BY OwnerParts
<1>3. Harmless(q)
    BY <1>1, <1>2 DEF Harmless
<1> HIDE DEF q
<1>4. req' = [req EXCEPT ![r] = q]
    BY DEF Goto, q
<1> QED
    BY <1>3, <1>4, MovesHarmless

LEMMA StartKeepsOwner ==
    ASSUME Typed, OwnerInv, NEW r \in Requests, Start(r)
    PROVE  OwnerInv'
<1>1. ASSUME NEW kind, NEW pc, NEW by, NEW id, NEW who, NEW role,
             Arrive(r, kind, pc, by, id, who, role), pc \in {"role", "load"} \/ kind = "signup",
             kind \in {"invite", "setRole"} => role # "owner"
      PROVE  OwnerInv'
    <2> DEFINE q == [pc |-> pc, kind |-> kind, by |-> by, id |-> id, who |-> who, role |-> role,
                     member |-> FALSE]
    <2>1. Harmless(q)
        BY <1>1 DEF Harmless
    <2>2. req' = [req EXCEPT ![r] = q] /\ UNCHANGED <<row, invite>>
        BY <1>1 DEF Arrive
    <2> HIDE DEF q
    <2>3. \A s \in Requests : Harmless(req'[s])
        BY <2>1, <2>2, MovesHarmless
    <2> QED
        BY <2>2, <2>3 DEF OwnerInv, FirstRowOwns, OtherRows, Invitations, Inviting, Accepting,
                          Writing, Harmless
<1> QED
    BY <1>1 DEF Start, StartInvite, StartRevoke, StartSetRole, StartRemove, StartCreateKey,
                StartRevokeKey, StartAccept, StartSignup

LEMMA ReadsKeepOwner ==
    ASSUME MembershipAssumption, Typed, OwnerInv, NEW r \in Requests, Reads(r)
    PROVE  OwnerInv'
<1>1. UNCHANGED <<row, invite>>
    BY DEF Reads, Role, InviteKnown, InviteCount, Target, CountKeys, Load, Account, Begin, Signup, Die
<1>2. Harmless(req[r]) /\ Sound(req[r]) /\ req[r] \in Request
    BY OwnerParts DEF Typed, TypeOK, Named
<1>3. \A s \in Requests : Harmless(req'[s])
    <2>1. CASE Done(r)
        BY <2>1, DoneHarmless
    <2>2. CASE Role(r) /\ ~Done(r)
        BY <2>2, GotoHarmless DEF Role, AfterRole
    <2>3. CASE InviteKnown(r) /\ ~Done(r)
        <3>1. req[r].who # Owner
            BY <2>3, OwnersRows DEF InviteKnown
        <3> QED
            BY <2>3, <3>1, GotoHarmless DEF InviteKnown, At
    <2>4. CASE InviteCount(r) /\ ~Done(r)
        BY <1>2, <2>4, GotoHarmless DEF InviteCount, At, Harmless
    <2>5. CASE Target(r) /\ ~Done(r)
        <3> DEFINE q == [req[r] EXCEPT !.pc = "write", !.who = row[req[r].id].who]
        <3>1. Touchable(req[r].id) /\ req' = [req EXCEPT ![r] = q] /\ req[r].pc = "target"
            BY <2>5 DEF Target
        <3>2. req[r].id # 1
            BY <3>1 DEF Touchable, OwnerInv, FirstRowOwns
        <3>3. q.kind = req[r].kind /\ q.id = req[r].id /\ q.pc = "write" /\ q.role = req[r].role
            BY <1>2 DEF Request
        <3>4. Harmless(q)
            BY <1>2, <3>1, <3>2, <3>3 DEF Harmless, Sound
        <3> HIDE DEF q
        <3> QED
            BY <3>1, <3>4, MovesHarmless
    <2>6. CASE CountKeys(r) /\ ~Done(r)
        BY <2>6, GotoHarmless DEF CountKeys, At
    <2>7. CASE Load(r) /\ ~Done(r)
        <3> DEFINE q == [req[r] EXCEPT !.pc = "account", !.who = invite[req[r].id].who,
                                       !.role = invite[req[r].id].role]
        <3>1. /\ invite[req[r].id].state = "open" /\ req' = [req EXCEPT ![r] = q]
              /\ req[r].kind = "accept" /\ req[r].id \in InviteIds
            BY <1>2, <2>7 DEF Load, At, Sound
        <3>2. invite[req[r].id].who # Owner /\ invite[req[r].id].role # "owner"
            BY <3>1 DEF OwnerInv, Invitations
        <3>3. /\ q.kind = req[r].kind /\ q.who = invite[req[r].id].who
              /\ q.role = invite[req[r].id].role
            BY <1>2 DEF Request
        <3>4. Harmless(q)
            BY <3>1, <3>2, <3>3 DEF Harmless
        <3> HIDE DEF q
        <3> QED
            BY <3>1, <3>4, MovesHarmless
    <2>8. CASE Account(r) /\ ~Done(r)
        BY <2>8, GotoHarmless DEF Account, At
    <2>9. CASE Begin(r)
        <3> DEFINE q == [req[r] EXCEPT !.pc = "commit", !.member = (RowsOf(req[r].who) # {})]
        <3>1. req' = [req EXCEPT ![r] = q] /\ req[r].kind = "accept" /\ req[r].pc = "begin"
            BY <2>9 DEF Begin, At
        <3>2. q.kind = req[r].kind /\ q.who = req[r].who /\ q.role = req[r].role
            BY <1>2 DEF Request
        <3>3. Harmless(q)
            BY <1>2, <3>1, <3>2 DEF Harmless
        <3> HIDE DEF q
        <3> QED
            BY <3>1, <3>3, MovesHarmless
    <2>10. CASE Signup(r) /\ ~Done(r)
        BY <2>10, GotoHarmless DEF Signup, At
    <2> QED
        BY <2>1, <2>2, <2>3, <2>4, <2>5, <2>6, <2>7, <2>8, <2>9, <2>10 DEF Reads, Die
<1> QED
    BY <1>1, <1>3 DEF OwnerInv, FirstRowOwns, OtherRows, Invitations, Inviting, Accepting,
                      Writing, Harmless

LEMMA WritesKeepOwner ==
    ASSUME MembershipAssumption, Typed, OwnerInv, NEW r \in Requests, Writes(r)
    PROVE  OwnerInv'
<1>1. Harmless(req[r]) /\ Sound(req[r]) /\ req[r] \in Request
    BY OwnerParts DEF Typed, TypeOK, Named
<1>2. \A s \in Requests : Harmless(req'[s])
    <2>1. CASE Done(r)
        BY <2>1, DoneHarmless
    <2>2. CASE InviteReplace(r)
        BY <1>1, <2>2, GotoHarmless DEF InviteReplace, At, Harmless
    <2>3. CASE Remove(r)
        BY <2>3, GotoHarmless DEF Remove, At
    <2>4. CASE Create(r) /\ ~Done(r)
        BY <2>4, GotoHarmless DEF Create, At
    <2> QED
        BY <2>1, <2>2, <2>3, <2>4
           DEF Writes, InviteInsert, RevokeInvite, SetRole, RemoveKeys, InsertKey, RevokeKey,
               Commit, SignupCommit
<1>3. FirstRowOwns' /\ OtherRows'
    <2>1. 1 \in RowIds /\ row \in [RowIds -> Member]
        BY DEF MembershipAssumption, RowIds, Typed, TypeOK
    <2>2. FirstRowOwns /\ OtherRows
        BY DEF OwnerInv
    <2>3. CASE SetRole(r)
        <3>1. req[r].id # 1 /\ req[r].role # "owner"
            BY <1>1, <2>3 DEF SetRole, At, Harmless
        <3> QED
            BY <2>1, <2>2, <2>3, <3>1 DEF SetRole, FirstRowOwns, OtherRows, Member
    <2>4. CASE Remove(r)
        <3>1. req[r].id # 1
            BY <1>1, <2>4 DEF Remove, At, Harmless
        <3> QED
            BY <2>1, <2>2, <2>4, <3>1 DEF Remove, FirstRowOwns, OtherRows, Member
    <2>5. CASE Commit(r) /\ ~UNCHANGED row
        <3>1. PICK i \in NewId(row) :
                 row' = [row EXCEPT ![i] = [state |-> "live", who |-> req[r].who,
                                            role |-> req[r].role]]
            BY <2>5 DEF Commit, Join
        <3>2. i \in RowIds /\ i # 1
            BY <2>1, <2>2, <3>1 DEF NewId, FirstRowOwns
        <3>3. req[r].who # Owner /\ req[r].role # "owner"
            BY <1>1, <2>5 DEF Commit, At, Harmless
        <3> QED
            BY <2>1, <2>2, <3>1, <3>2, <3>3 DEF FirstRowOwns, OtherRows
    <2>6. CASE UNCHANGED row
        BY <2>2, <2>6 DEF FirstRowOwns, OtherRows
    <2> QED
        BY <2>3, <2>4, <2>5, <2>6
           DEF Writes, InviteReplace, InviteInsert, RevokeInvite, RemoveKeys, InsertKey, RevokeKey,
               Create, SignupCommit
<1>4. Invitations'
    <2>1. invite \in [InviteIds -> Invitation] /\ Invitations
        BY DEF Typed, TypeOK, OwnerInv
    <2>2. CASE InviteReplace(r)
        BY <2>1, <2>2 DEF InviteReplace, Invitations, Invitation
    <2>3. CASE InviteInsert(r)
        <3>1. req[r].who # Owner /\ req[r].role # "owner"
            BY <1>1, <2>3 DEF InviteInsert, At, Harmless
        <3> QED
            BY <2>1, <2>3, <3>1 DEF InviteInsert, NewId, Invitations, Invitation
    <2>4. CASE RevokeInvite(r)
        BY <2>1, <2>4 DEF RevokeInvite, Invitations, Invitation
    <2>5. CASE Commit(r)
        BY <2>1, <2>5 DEF Commit, Invitations, Invitation
    <2>6. CASE UNCHANGED invite
        BY <2>1, <2>6 DEF Invitations
    <2> QED
        BY <2>2, <2>3, <2>4, <2>5, <2>6
           DEF Writes, SetRole, Remove, RemoveKeys, InsertKey, RevokeKey, Create, SignupCommit
<1> QED
    BY <1>2, <1>3, <1>4 DEF OwnerInv, Inviting, Accepting, Writing, Harmless

LEMMA LapseKeepsOwner ==
    ASSUME Typed, OwnerInv, NEW i \in InviteIds, Lapse(i)
    PROVE  OwnerInv'
<1>1. Invitations'
    BY DEF Lapse, Typed, TypeOK, OwnerInv, Invitations, Invitation
<1> QED
    BY <1>1 DEF Lapse, OwnerInv, FirstRowOwns, OtherRows, Inviting, Accepting, Writing

(* The first row is the owner's for good, and nobody else's ever says so:   *)
(* no race of role changes, removals, invitations and acceptances leaves    *)
(* the organization without its owner, or gives it two (orgs.ts:459-514,    *)
(* invitations.ts:82-156).                                                  *)
THEOREM OwnerUnique == Spec => []OneOwner
<1>1. Init => OwnerInv
    BY MembershipAssumption
       DEF Init, OwnerInv, FirstRowOwns, OtherRows, Invitations, Inviting, Accepting, Writing,
           FreeRow, FreeInvite, Idle, RowIds, InviteIds, MembershipAssumption
<1>2. Typed /\ OwnerInv /\ [Next]_vars => OwnerInv'
    <2> SUFFICES ASSUME Typed, OwnerInv, [Next]_vars
                 PROVE  OwnerInv'
        OBVIOUS
    <2>1. CASE Next
        BY <2>1, NextCases, MembershipAssumption, StartKeepsOwner, ReadsKeepOwner,
           WritesKeepOwner, LapseKeepsOwner
    <2>2. CASE UNCHANGED vars
        BY <2>2 DEF vars, OwnerInv, FirstRowOwns, OtherRows, Invitations, Inviting, Accepting,
                    Writing
    <2> QED
        BY <2>1, <2>2
<1>3. OwnerInv => OneOwner
    <2> SUFFICES ASSUME OwnerInv
                 PROVE  OneOwner
        OBVIOUS
    <2>1. RowsOf(Owner) = {1}
        BY OwnersRows, MembershipAssumption
    <2>2. Cardinality({1}) = 1
        BY FS_Singleton
    <2>3. OwnerStays
        BY DEF OwnerInv, FirstRowOwns, OtherRows, OwnerStays, Members
    <2> QED
        BY <2>1, <2>2, <2>3 DEF OneOwner
<1>4. Init => Typed
    BY TypedInit, MembershipAssumption
<1>5. Typed /\ [Next]_vars => Typed'
    BY TypedStep, MembershipAssumption
<1> QED
    BY <1>1, <1>2, <1>3, <1>4, <1>5, PTL DEF Spec

-----------------------------------------------------------------------------
(* Joining.                                                                 *)

(* An invitation somebody joined with is settled: no statement but the      *)
(* claim touches row and count together, and none touches it again.         *)
LEMMA WritesKeepJoined ==
    ASSUME Typed, JoinsOnce, NEW r \in Requests, Writes(r)
    PROVE  JoinsOnce'
<1>1. /\ invite \in [InviteIds -> Invitation] /\ joined \in [InviteIds -> Nat]
      /\ Sound(req[r])
    BY DEF Typed, TypeOK, Named
<1>2. CASE InviteReplace(r)
    BY <1>1, <1>2 DEF InviteReplace, JoinsOnce, Invitation
<1>3. CASE InviteInsert(r)
    BY <1>1, <1>3 DEF InviteInsert, NewId, JoinsOnce, Invitation
<1>4. CASE RevokeInvite(r)
    BY <1>1, <1>4 DEF RevokeInvite, JoinsOnce, Invitation
<1>5. CASE Commit(r) /\ UNCHANGED joined
    BY <1>1, <1>5 DEF Commit, JoinsOnce, Invitation
<1>6. CASE Commit(r) /\ ~UNCHANGED joined
    <2>1. /\ invite[req[r].id].state \in {"open", "lapsed"} /\ req[r].id \in InviteIds
          /\ invite' = [invite EXCEPT ![req[r].id].state = "accepted"]
          /\ joined' = [joined EXCEPT ![req[r].id] = @ + 1]
        BY <1>1, <1>6 DEF Commit, Join, At, Sound
    <2>2. joined[req[r].id] = 0
        BY <1>1, <2>1 DEF JoinsOnce
    <2> QED
        BY <1>1, <2>1, <2>2 DEF JoinsOnce, Invitation
<1>7. CASE UNCHANGED <<invite, joined>>
    BY <1>7 DEF JoinsOnce
<1> QED
    BY <1>2, <1>3, <1>4, <1>5, <1>6, <1>7
       DEF Writes, SetRole, Remove, RemoveKeys, InsertKey, RevokeKey, Create, SignupCommit

LEMMA WritesKeepDistinct ==
    ASSUME Typed, Distinct, NEW r \in Requests, Writes(r)
    PROVE  Distinct'
<1>1. row \in [RowIds -> Member]
    BY DEF Typed, TypeOK
<1>2. CASE SetRole(r)
    BY <1>1, <1>2 DEF SetRole, Distinct, Member
<1>3. CASE Remove(r)
    BY <1>1, <1>3 DEF Remove, Distinct, Member
<1>4. CASE Commit(r) /\ ~UNCHANGED row
    <2>1. ~Twice(r) /\ ~req[r].member
        BY <1>4 DEF Commit, Join
    <2>2. \A i \in RowIds : row[i].state = "live" => row[i].who # req[r].who
        BY <2>1 DEF Twice, RowsOf
    <2>3. PICK i \in NewId(row) :
             row' = [row EXCEPT ![i] = [state |-> "live", who |-> req[r].who, role |-> req[r].role]]
        BY <1>4 DEF Commit, Join
    <2> QED
        BY <1>1, <2>2, <2>3 DEF Distinct, NewId
<1>5. CASE UNCHANGED row
    BY <1>5 DEF Distinct
<1> QED
    BY <1>2, <1>3, <1>4, <1>5
       DEF Writes, InviteReplace, InviteInsert, RevokeInvite, RemoveKeys, InsertKey, RevokeKey,
           Create, SignupCommit

(* An invitation is burnt by the first who joins with it, adds nobody once  *)
(* it was revoked or replaced, and nobody is a member twice, whoever else   *)
(* answers it at the same time (the transaction of invitations.ts:111-145). *)
THEOREM JoinedOnce == Spec => []InvitationJoinsOnce
<1> DEFINE JoinInv == JoinsOnce /\ Distinct
<1>1. Init => JoinInv
    BY MembershipAssumption DEF Init, JoinsOnce, Distinct, FreeRow, RowIds, InviteIds
<1>2. Typed /\ JoinInv /\ [Next]_vars => JoinInv'
    <2> SUFFICES ASSUME Typed, JoinInv, [Next]_vars
                 PROVE  JoinInv'
        OBVIOUS
    <2>1. ASSUME NEW r \in Requests, Start(r) \/ Reads(r)
          PROVE  JoinInv'
        <3>1. UNCHANGED <<row, invite, joined>>
            BY <2>1 DEF Start, StartInvite, StartRevoke, StartSetRole, StartRemove, StartCreateKey,
                        StartRevokeKey, StartAccept, StartSignup, Arrive, Reads, Role, InviteKnown,
                        InviteCount, Target, CountKeys, Load, Account, Begin, Signup, Die
        <3> QED
            BY <3>1 DEF JoinsOnce, Distinct
    <2>2. ASSUME NEW i \in InviteIds, Lapse(i)
          PROVE  JoinInv'
        BY <2>2 DEF Lapse, JoinsOnce, Distinct, Typed, TypeOK, Invitation
    <2>3. CASE UNCHANGED vars
        BY <2>3 DEF vars, JoinsOnce, Distinct
    <2> QED
        BY <2>1, <2>2, <2>3, NextCases, WritesKeepJoined, WritesKeepDistinct
<1>3. Typed /\ JoinInv => InvitationJoinsOnce
    <2>1. ASSUME Distinct, NEW u \in People
          PROVE  Cardinality(RowsOf(u)) <= 1
        <3>1. CASE RowsOf(u) = {}
            BY <3>1, FS_EmptySet
        <3>2. CASE RowsOf(u) # {}
            <4>1. PICK i \in RowIds : i \in RowsOf(u)
                BY <3>2 DEF RowsOf
            <4>2. RowsOf(u) = {i}
                BY <2>1, <4>1 DEF RowsOf, Distinct
            <4>3. Cardinality({i}) = 1
                BY FS_Singleton
            <4> QED
                BY <4>2, <4>3
        <3> QED
            BY <3>1, <3>2
    <2> QED
        BY <2>1 DEF InvitationJoinsOnce, OneRowPerPerson
<1>4. Init => Typed
    BY TypedInit, MembershipAssumption
<1>5. Typed /\ [Next]_vars => Typed'
    BY TypedStep, MembershipAssumption
<1> QED
    BY <1>1, <1>2, <1>3, <1>4, <1>5, PTL DEF Spec

-----------------------------------------------------------------------------
(* Limits.                                                                  *)

(* What a set of n elements loses or gains with one element.                *)
LEMMA Fewer ==
    ASSUME NEW A, NEW B, IsFiniteSet(A), B \subseteq A
    PROVE  /\ IsFiniteSet(B) /\ Cardinality(A) \in Nat /\ Cardinality(B) \in Nat
           /\ Cardinality(B) <= Cardinality(A)
BY FS_Subset, FS_CardinalityType

LEMMA OneMore ==
    ASSUME NEW A, NEW B, NEW x, IsFiniteSet(A), B \subseteq A \cup {x}
    PROVE  /\ IsFiniteSet(B) /\ Cardinality(A) \in Nat /\ Cardinality(B) \in Nat
           /\ Cardinality(B) <= Cardinality(A) + 1
<1>1. Cardinality(A) \in Nat
    BY FS_CardinalityType
<1>2. IsFiniteSet(A \cup {x}) /\ Cardinality(A \cup {x}) \in {Cardinality(A), Cardinality(A) + 1}
    BY FS_AddElement
<1>3. /\ IsFiniteSet(B) /\ Cardinality(A \cup {x}) \in Nat /\ Cardinality(B) \in Nat
      /\ Cardinality(B) <= Cardinality(A \cup {x})
    BY <1>2, Fewer
<1> QED
    BY <1>1, <1>2, <1>3

LEMMA OneLess ==
    ASSUME NEW A, NEW B, NEW x \in A, IsFiniteSet(A), B \subseteq A \ {x}
    PROVE  /\ IsFiniteSet(B) /\ Cardinality(A) \in Nat /\ Cardinality(B) \in Nat
           /\ Cardinality(B) <= Cardinality(A) - 1
<1>1. Cardinality(A) \in Nat
    BY FS_CardinalityType
<1>2. IsFiniteSet(A \ {x}) /\ Cardinality(A \ {x}) = Cardinality(A) - 1
    BY FS_RemoveElement
<1>3. /\ IsFiniteSet(B) /\ Cardinality(A \ {x}) \in Nat /\ Cardinality(B) \in Nat
      /\ Cardinality(B) <= Cardinality(A \ {x})
    BY <1>2, Fewer
<1> QED
    BY <1>1, <1>2, <1>3

(* Who has counted the keys and is about to insert one.                     *)
KeyWriters == {r \in Requests : At(r, "createKey", "write")}

KeyInv == Cardinality(Keys) + Cardinality(KeyWriters) <= KeyLimit + Cardinality(Requests) - 1

(* Who has counted the seats and is about to insert an invitation, and the  *)
(* invitations that lapsed after somebody began to accept them.             *)
Inviters == {r \in Requests : req[r].kind = "invite" /\ req[r].pc \in {"replace", "write"}}
Acceptors ==
    {r \in Requests : req[r].kind = "accept" /\ req[r].pc \in {"account", "create", "begin", "commit"}}
Taken == {i \in InviteIds : invite[i].state = "lapsed" /\ \E r \in Acceptors : req[r].id = i}

SeatInv ==
    Cardinality(Members) + Cardinality(Pending) + Cardinality(Inviters) + Cardinality(Taken)
      <= MemberLimit + Cardinality(Requests) - 1

LEMMA Finite ==
    ASSUME MembershipAssumption
    PROVE  /\ IsFiniteSet(Keys) /\ IsFiniteSet(KeyWriters) /\ IsFiniteSet(Members)
           /\ IsFiniteSet(Pending) /\ IsFiniteSet(Inviters) /\ IsFiniteSet(Acceptors)
           /\ IsFiniteSet(Taken) /\ IsFiniteSet(Requests)
           /\ Cardinality(Requests) \in Nat \ {0}
<1>1. /\ MaxRows \in Int /\ MaxInvites \in Int /\ MaxKeys \in Int
      /\ IsFiniteSet(Requests) /\ Requests # {}
    BY DEF MembershipAssumption
<1>2. IsFiniteSet(RowIds) /\ IsFiniteSet(InviteIds) /\ IsFiniteSet(KeyIds)
    <2>1. \A n \in Int : IsFiniteSet(1 .. n)
        BY FS_Interval
    <2> QED
        BY <1>1, <2>1 DEF RowIds, InviteIds, KeyIds
<1>3. /\ Keys \subseteq KeyIds /\ Members \subseteq RowIds /\ Pending \subseteq InviteIds
      /\ Taken \subseteq InviteIds /\ KeyWriters \subseteq Requests
      /\ Inviters \subseteq Requests /\ Acceptors \subseteq Requests
    BY DEF Keys, Members, Pending, Taken, KeyWriters, Inviters, Acceptors
<1> QED
    BY <1>1, <1>2, <1>3, FS_Subset, FS_EmptySet, FS_CardinalityType

LEMMA Aside ==
    ASSUME Typed, NEW r \in Requests, Start(r) \/ Reads(r) \/ Writes(r)
    PROVE  \A s \in Requests : s # r => req'[s] = req[s]
<1>1. req \in [Requests -> Request]
    BY DEF Typed, TypeOK
<1>2. CASE Start(r)
    BY <1>1, <1>2
       DEF Start, StartInvite, StartRevoke, StartSetRole, StartRemove, StartCreateKey,
           StartRevokeKey, StartAccept, StartSignup, Arrive
<1>3. CASE Reads(r)
    BY <1>1, <1>3
       DEF Reads, Role, InviteKnown, InviteCount, Target, CountKeys, Load, Account, Begin, Signup,
           Die, Goto, Done
<1>4. CASE Writes(r)
    BY <1>1, <1>4
       DEF Writes, InviteReplace, InviteInsert, RevokeInvite, SetRole, Remove, RemoveKeys,
           InsertKey, RevokeKey, Create, Commit, SignupCommit, Goto, Done
<1> QED
    BY <1>2, <1>3, <1>4

LEMMA KeyStep ==
    ASSUME MembershipAssumption, Typed, KeyInv, NEW r \in Requests,
           Start(r) \/ Reads(r) \/ Writes(r)
    PROVE  KeyInv'
<1>1. /\ req \in [Requests -> Request] /\ req[r] \in Request /\ key \in [KeyIds -> Key]
      /\ \A s \in Requests : s # r => req'[s] = req[s]
    BY Aside DEF Typed, TypeOK
<1>2. KeyLimit \in Nat /\ Cardinality(Requests) \in Nat
    BY Finite DEF MembershipAssumption
<1>3. CASE CountKeys(r) /\ ~Done(r)
    <2>1. Cardinality(Keys) < KeyLimit /\ Keys' = Keys
        BY <1>3 DEF CountKeys, KeyRoom, Keys
    <2>2. Cardinality(KeyWriters') <= Cardinality(Requests) /\ Cardinality(KeyWriters') \in Nat
        <3>1. KeyWriters' \subseteq Requests
            BY DEF KeyWriters
        <3> QED
            BY <3>1, Finite, Fewer
    <2>3. Cardinality(Keys) \in Nat
        BY Finite, FS_CardinalityType
    <2> QED
        BY <1>2, <2>1, <2>2, <2>3 DEF KeyInv
<1>4. CASE InsertKey(r)
    <2>1. PICK k : Keys' \subseteq Keys \cup {k}
        BY <1>1, <1>4 DEF InsertKey, NewId, Keys
    <2>2. KeyWriters' \subseteq KeyWriters \ {r} /\ r \in KeyWriters
        BY <1>1, <1>4 DEF InsertKey, KeyWriters, At, Done, Idle
    <2>3. /\ Cardinality(Keys') <= Cardinality(Keys) + 1
          /\ Cardinality(Keys) \in Nat /\ Cardinality(Keys') \in Nat
        BY <2>1, Finite, OneMore
    <2>4. /\ Cardinality(KeyWriters') <= Cardinality(KeyWriters) - 1
          /\ Cardinality(KeyWriters) \in Nat /\ Cardinality(KeyWriters') \in Nat
        BY <2>2, Finite, OneLess
    <2> QED
        BY <1>2, <2>3, <2>4 DEF KeyInv
<1>5. CASE ~InsertKey(r) /\ ~(CountKeys(r) /\ ~Done(r))
    <2>1. Keys' \subseteq Keys
        <3>1. CASE Start(r) \/ Reads(r)
            <4>1. CASE Start(r)
                BY <4>1
                   DEF Start, StartInvite, StartRevoke, StartSetRole, StartRemove, StartCreateKey,
                       StartRevokeKey, StartAccept, StartSignup, Arrive, Keys
            <4>2. CASE Die(r)
                BY <1>1, <4>2 DEF Die, Keys, Key
            <4>3. CASE Reads(r) /\ ~Die(r)
                BY <4>3
                   DEF Reads, Role, InviteKnown, InviteCount, Target, CountKeys, Load, Account,
                       Begin, Signup, Keys
            <4> QED
                BY <3>1, <4>1, <4>2, <4>3
        <3>2. CASE RemoveKeys(r)
            BY <1>1, <3>2 DEF RemoveKeys, Keys, Key
        <3>3. CASE RevokeKey(r)
            BY <1>1, <3>3 DEF RevokeKey, Keys, Key
        <3>4. CASE Writes(r) /\ ~RemoveKeys(r) /\ ~RevokeKey(r)
            BY <1>5, <3>4
               DEF Writes, InviteReplace, InviteInsert, RevokeInvite, SetRole, Remove, Create,
                   Commit, SignupCommit, Keys
        <3> QED
            BY <3>1, <3>2, <3>3, <3>4
    <2>2. KeyWriters' \subseteq KeyWriters
        <3>1. ~(req'[r].kind = "createKey" /\ req'[r].pc = "write")
            <4>1. CASE Start(r)
                BY <1>1, <4>1
                   DEF Start, StartInvite, StartRevoke, StartSetRole, StartRemove, StartCreateKey,
                       StartRevokeKey, StartAccept, StartSignup, Arrive
            <4>2. CASE Reads(r)
                <5>1. CASE Role(r)
                    BY <1>1, <1>5, <5>1 DEF Role, Goto, Done, Idle, AfterRole, Request
                <5>2. CASE CountKeys(r)
                    BY <1>1, <1>5, <5>2 DEF CountKeys, Goto, Done, Idle, At, Request
                <5>3. CASE InviteKnown(r) \/ InviteCount(r)
                    BY <1>1, <1>5, <5>3
                       DEF InviteKnown, InviteCount, Goto, Done, Idle, At, Request
                <5>4. CASE Target(r)
                    <6>1. req[r].kind # "createKey"
                        BY <5>4 DEF Target, Typed, Named, Sound
                    <6> QED
                        BY <1>1, <5>4, <6>1 DEF Target, Done, Idle, Request
                <5>5. CASE Load(r) \/ Account(r) \/ Begin(r)
                    BY <1>1, <1>5, <5>5 DEF Load, Account, Begin, Goto, Done, Idle, At, Request
                <5>6. CASE Signup(r) \/ Die(r)
                    BY <1>1, <1>5, <5>6 DEF Signup, Die, Goto, Done, Idle, At, Request
                <5> QED
                    BY <4>2, <5>1, <5>2, <5>3, <5>4, <5>5, <5>6 DEF Reads
            <4>3. CASE Writes(r)
                BY <1>1, <1>5, <4>3
                   DEF Writes, InviteReplace, InviteInsert, RevokeInvite, SetRole, Remove,
                       RemoveKeys, RevokeKey, Create, Commit, SignupCommit, Goto, Done, Idle, At,
                       Request
            <4> QED
                BY <4>1, <4>2, <4>3
        <3> QED
            BY <1>1, <3>1 DEF KeyWriters, At
    <2>3. /\ Cardinality(Keys') <= Cardinality(Keys)
          /\ Cardinality(Keys) \in Nat /\ Cardinality(Keys') \in Nat
        BY <2>1, Finite, Fewer
    <2>4. /\ Cardinality(KeyWriters') <= Cardinality(KeyWriters)
          /\ Cardinality(KeyWriters) \in Nat /\ Cardinality(KeyWriters') \in Nat
        BY <2>2, Finite, Fewer
    <2> QED
        BY <1>2, <2>3, <2>4 DEF KeyInv
<1> QED
    BY <1>3, <1>4, <1>5

(* Of different lapsed invitations different requests go on.                *)
LEMMA TakenFew ==
    ASSUME MembershipAssumption
    PROVE  Cardinality(Taken) <= Cardinality(Acceptors)
<1> DEFINE f == [i \in Taken |-> CHOOSE r \in Acceptors : req[r].id = i]
<1>1. \A i \in Taken : f[i] \in Acceptors /\ req[f[i]].id = i
    BY DEF Taken
<1> HIDE DEF f
<1>2. f \in [Taken -> Acceptors]
    BY <1>1 DEF f
<1>3. f \in Injection(Taken, Acceptors)
    BY <1>1, <1>2 DEF Injection, IsInjective
<1> QED
    BY <1>3, Finite, FS_Injection

(* Steps of a request other than counting the seats, inserting an           *)
(* invitation and joining add nothing to the four.                          *)
SeatSets == Members' \subseteq Members /\ Pending' \subseteq Pending
            /\ Inviters' \subseteq Inviters /\ Taken' \subseteq Taken

LEMMA SeatsShrink ==
    ASSUME MembershipAssumption, SeatInv, SeatSets
    PROVE  SeatInv'
<1>1. /\ Cardinality(Members') <= Cardinality(Members)
      /\ Cardinality(Members) \in Nat /\ Cardinality(Members') \in Nat
    BY Finite, Fewer DEF SeatSets
<1>2. /\ Cardinality(Pending') <= Cardinality(Pending)
      /\ Cardinality(Pending) \in Nat /\ Cardinality(Pending') \in Nat
    BY Finite, Fewer DEF SeatSets
<1>3. /\ Cardinality(Inviters') <= Cardinality(Inviters)
      /\ Cardinality(Inviters) \in Nat /\ Cardinality(Inviters') \in Nat
    BY Finite, Fewer DEF SeatSets
<1>4. /\ Cardinality(Taken') <= Cardinality(Taken)
      /\ Cardinality(Taken) \in Nat /\ Cardinality(Taken') \in Nat
    BY Finite, Fewer DEF SeatSets
<1>5. MemberLimit \in Nat /\ Cardinality(Requests) \in Nat
    BY Finite DEF MembershipAssumption
<1> QED
    BY <1>1, <1>2, <1>3, <1>4, <1>5 DEF SeatInv

(* The last to count them saw a seat free, and all others who go on from    *)
(* their count, or with a lapsed invitation, are one less than the requests.*)
LEMMA CountKeepsSeats ==
    ASSUME MembershipAssumption, Typed, SeatInv, NEW r \in Requests, InviteCount(r), ~Done(r)
    PROVE  SeatInv'
<1>1. /\ req \in [Requests -> Request] /\ req[r] \in Request
      /\ UNCHANGED <<row, invite>> /\ req' = [req EXCEPT ![r].pc = "replace"]
      /\ req[r].kind = "invite" /\ Seats < MemberLimit
    <2>1. Seats < MemberLimit
        <3>1. Cardinality(Members) \in Nat /\ Cardinality(Pending) \in Nat /\ MemberLimit \in Nat
            BY Finite, FS_CardinalityType DEF MembershipAssumption
        <3>2. ~(Seats >= MemberLimit)
            BY DEF InviteCount
        <3> QED
            BY <3>1, <3>2 DEF Seats
    <2> QED
        BY <2>1 DEF InviteCount, Goto, At, Typed, TypeOK
<1>2. Acceptors' = Acceptors /\ (\A s \in Acceptors : req'[s].id = req[s].id) /\ Inviters' \subseteq Requests
    BY <1>1 DEF Acceptors, Inviters, Request
<1>3. Members' = Members /\ Pending' = Pending /\ Taken' = Taken
    BY <1>1, <1>2 DEF Members, Pending, Taken
<1>4. Inviters' \cap Acceptors' = {}
    BY DEF Inviters, Acceptors
<1>5. Cardinality(Inviters') + Cardinality(Acceptors') <= Cardinality(Requests)
    <2>1. IsFiniteSet(Inviters') /\ IsFiniteSet(Acceptors')
        BY <1>2, Finite, Fewer
    <2>2. /\ IsFiniteSet(Inviters' \cup Acceptors')
          /\ Cardinality(Inviters' \cup Acceptors') =
               Cardinality(Inviters') + Cardinality(Acceptors') - Cardinality({})
        BY <1>4, <2>1, FS_Union
    <2>3. Inviters' \cup Acceptors' \subseteq Requests
        BY <1>2 DEF Acceptors
    <2>4. Cardinality(Inviters' \cup Acceptors') <= Cardinality(Requests)
        BY <2>3, Finite, Fewer
    <2>5. Cardinality(Inviters') \in Nat /\ Cardinality(Acceptors') \in Nat /\ Cardinality({}) = 0
        BY <2>1, FS_CardinalityType, FS_EmptySet
    <2> QED
        BY <2>2, <2>4, <2>5
<1>6. Cardinality(Taken) <= Cardinality(Acceptors)
    BY TakenFew
<1>7. /\ Cardinality(Inviters') \in Nat /\ Cardinality(Acceptors) \in Nat
      /\ Cardinality(Taken) \in Nat /\ Cardinality(Members) \in Nat
      /\ Cardinality(Pending) \in Nat /\ MemberLimit \in Nat /\ Cardinality(Requests) \in Nat
    BY <1>2, Finite, Fewer, FS_CardinalityType DEF MembershipAssumption
<1> QED
    BY <1>1, <1>2, <1>3, <1>5, <1>6, <1>7 DEF SeatInv, Seats

LEMMA InsertKeepsSeats ==
    ASSUME MembershipAssumption, Typed, SeatInv, NEW r \in Requests, InviteInsert(r)
    PROVE  SeatInv'
<1>1. /\ req \in [Requests -> Request] /\ invite \in [InviteIds -> Invitation]
      /\ row' = row /\ req' = [req EXCEPT ![r] = Idle]
    BY DEF InviteInsert, Done, Typed, TypeOK
<1>2. PICK i \in InviteIds : invite' = [invite EXCEPT ![i] = [state |-> "open", who |-> req[r].who,
                                                             role |-> req[r].role]]
    BY <1>1 DEF InviteInsert, NewId
<1>3. r \in Inviters /\ Inviters' \subseteq Inviters \ {r}
    BY <1>1 DEF InviteInsert, At, Inviters, Idle
<1>4. Members' = Members /\ Pending' \subseteq Pending \cup {i}
    BY <1>1, <1>2 DEF Members, Pending
<1>5. Taken' \subseteq Taken
    BY <1>1, <1>2 DEF Taken, Acceptors, Idle
<1>6. /\ Cardinality(Pending') <= Cardinality(Pending) + 1
      /\ Cardinality(Pending) \in Nat /\ Cardinality(Pending') \in Nat
    BY <1>4, Finite, OneMore
<1>7. /\ Cardinality(Inviters') <= Cardinality(Inviters) - 1
      /\ Cardinality(Inviters) \in Nat /\ Cardinality(Inviters') \in Nat
    BY <1>3, Finite, OneLess
<1>8. /\ Cardinality(Taken') <= Cardinality(Taken)
      /\ Cardinality(Taken) \in Nat /\ Cardinality(Taken') \in Nat
    BY <1>5, Finite, Fewer
<1>9. Cardinality(Members) \in Nat /\ MemberLimit \in Nat /\ Cardinality(Requests) \in Nat
    BY Finite, FS_CardinalityType DEF MembershipAssumption
<1> QED
    BY <1>4, <1>6, <1>7, <1>8, <1>9 DEF SeatInv

(* Joining takes the seat of the open invitation, or of the lapsed one.     *)
LEMMA CommitKeepsSeats ==
    ASSUME MembershipAssumption, Typed, SeatInv, NEW r \in Requests, Commit(r), ~UNCHANGED row
    PROVE  SeatInv'
<1>1. /\ req \in [Requests -> Request] /\ invite \in [InviteIds -> Invitation]
      /\ req' = [req EXCEPT ![r] = Idle] /\ req[r].id \in InviteIds
      /\ r \in Acceptors
    BY DEF Commit, At, Done, Typed, TypeOK, Named, Sound, Acceptors
<1>2. /\ invite[req[r].id].state \in {"open", "lapsed"}
      /\ invite' = [invite EXCEPT ![req[r].id].state = "accepted"]
    BY DEF Commit
<1>3. PICK j : Members' \subseteq Members \cup {j}
    BY DEF Commit, Join, Members, Typed, TypeOK, NewId
<1>4. Inviters' \subseteq Inviters /\ Acceptors' \subseteq Acceptors
      /\ \A s \in Acceptors' : req'[s].id = req[s].id
    BY <1>1 DEF Inviters, Acceptors, Idle
<1>5. \A i \in InviteIds :
         invite'[i].state = IF i = req[r].id THEN "accepted" ELSE invite[i].state
    BY <1>1, <1>2 DEF Invitation
<1>6. Pending' \subseteq Pending \ {req[r].id} /\ Taken' \subseteq Taken \ {req[r].id}
    BY <1>4, <1>5 DEF Pending, Taken
<1>7. req[r].id \in Pending \/ req[r].id \in Taken
    BY <1>1, <1>2 DEF Pending, Taken
<1>8. /\ Cardinality(Members') <= Cardinality(Members) + 1
      /\ Cardinality(Members) \in Nat /\ Cardinality(Members') \in Nat
    BY <1>3, Finite, OneMore
<1>9. /\ Cardinality(Inviters') <= Cardinality(Inviters)
      /\ Cardinality(Inviters) \in Nat /\ Cardinality(Inviters') \in Nat
    BY <1>4, Finite, Fewer
<1>10. /\ Cardinality(Pending') <= Cardinality(Pending)
       /\ Cardinality(Pending) \in Nat /\ Cardinality(Pending') \in Nat
       /\ req[r].id \in Pending => Cardinality(Pending') <= Cardinality(Pending) - 1
    <2>1. Pending' \subseteq Pending
        BY <1>6
    <2> QED
        BY <1>6, <2>1, Finite, Fewer, OneLess
<1>11. /\ Cardinality(Taken') <= Cardinality(Taken)
       /\ Cardinality(Taken) \in Nat /\ Cardinality(Taken') \in Nat
       /\ req[r].id \in Taken => Cardinality(Taken') <= Cardinality(Taken) - 1
    <2>1. Taken' \subseteq Taken
        BY <1>6
    <2> QED
        BY <1>6, <2>1, Finite, Fewer, OneLess
<1>12. MemberLimit \in Nat /\ Cardinality(Requests) \in Nat
    BY Finite DEF MembershipAssumption
<1> QED
    BY <1>7, <1>8, <1>9, <1>10, <1>11, <1>12 DEF SeatInv

LEMMA LapseKeepsSeats ==
    ASSUME MembershipAssumption, Typed, SeatInv, NEW i \in InviteIds, Lapse(i)
    PROVE  SeatInv'
<1>1. /\ invite \in [InviteIds -> Invitation] /\ UNCHANGED <<row, req>>
      /\ invite[i].state = "open" /\ invite' = [invite EXCEPT ![i].state = "lapsed"]
    BY DEF Lapse, Typed, TypeOK
<1>2. \A j \in InviteIds : invite'[j].state = IF j = i THEN "lapsed" ELSE invite[j].state
    BY <1>1 DEF Invitation
<1>3. /\ i \in Pending /\ Pending' \subseteq Pending \ {i} /\ Taken' \subseteq Taken \cup {i}
      /\ Members' = Members /\ Inviters' = Inviters
    BY <1>1, <1>2 DEF Pending, Taken, Members, Inviters, Acceptors
<1>4. /\ Cardinality(Pending') <= Cardinality(Pending) - 1
      /\ Cardinality(Pending) \in Nat /\ Cardinality(Pending') \in Nat
    BY <1>3, Finite, OneLess
<1>5. /\ Cardinality(Taken') <= Cardinality(Taken) + 1
      /\ Cardinality(Taken) \in Nat /\ Cardinality(Taken') \in Nat
    BY <1>3, Finite, OneMore
<1>6. /\ Cardinality(Members) \in Nat /\ Cardinality(Inviters) \in Nat
      /\ MemberLimit \in Nat /\ Cardinality(Requests) \in Nat
    BY Finite, FS_CardinalityType DEF MembershipAssumption
<1> QED
    BY <1>3, <1>4, <1>5, <1>6 DEF SeatInv

LEMMA OthersShrink ==
    ASSUME Typed, NEW r \in Requests, Start(r) \/ Reads(r) \/ Writes(r),
           ~(InviteCount(r) /\ ~Done(r)), ~InviteInsert(r), ~(Commit(r) /\ ~UNCHANGED row)
    PROVE  SeatSets
<1>1. /\ req \in [Requests -> Request] /\ req[r] \in Request
      /\ row \in [RowIds -> Member] /\ invite \in [InviteIds -> Invitation]
      /\ \A s \in Requests : s # r => req'[s] = req[s]
    BY Aside DEF Typed, TypeOK
<1>2. CASE UNCHANGED <<row, invite>>
    <2>1. /\ req'[r].kind = "invite" /\ req'[r].pc \in {"replace", "write"} => r \in Inviters
          /\ req'[r].kind = "accept" /\ req'[r].pc \in {"account", "create", "begin", "commit"} =>
                \/ r \in Acceptors /\ req'[r].id = req[r].id
                \/ invite[req'[r].id].state = "open"
        <3>1. CASE Start(r)
            BY <1>1, <3>1
               DEF Start, StartInvite, StartRevoke, StartSetRole, StartRemove, StartCreateKey,
                   StartRevokeKey, StartAccept, StartSignup, Arrive
        <3>2. CASE Done(r)
            BY <1>1, <3>2 DEF Done, Idle
        <3>3. CASE Load(r) /\ ~Done(r)
            BY <1>1, <3>3 DEF Load, At, Request
        <3>4. CASE Role(r) /\ ~Done(r)
            <4>1. req' = [req EXCEPT ![r].pc = AfterRole(req[r].kind)] /\ req[r].pc = "role"
                BY <3>4 DEF Role, Goto
            <4> QED
                BY <1>1, <4>1 DEF AfterRole, Request
        <3>5. CASE Reads(r) /\ ~Done(r) /\ ~Role(r) /\ ~Load(r)
            <4>1. CASE Target(r)
                <5>1. req[r].kind \notin {"invite", "accept"}
                    BY <4>1 DEF Target, Typed, Named, Sound
                <5> QED
                    BY <1>1, <3>5, <4>1, <5>1 DEF Target, Request
            <4>2. CASE InviteKnown(r) \/ CountKeys(r)
                BY <1>1, <3>5, <4>2 DEF InviteKnown, CountKeys, Goto, At, Request
            <4>3. CASE Account(r)
                BY <1>1, <3>5, <4>3 DEF Account, Goto, At, Request, Acceptors
            <4>4. CASE Begin(r)
                BY <1>1, <4>4 DEF Begin, At, Request, Acceptors
            <4>5. CASE Signup(r)
                BY <1>1, <3>5, <4>5 DEF Signup, Goto, At, Request
            <4>6. ~InviteCount(r) /\ ~Die(r)
                BY <3>5 DEF Die
            <4> QED
                BY <3>5, <4>1, <4>2, <4>3, <4>4, <4>5, <4>6 DEF Reads
        <3>6. CASE Writes(r) /\ ~Done(r)
            BY <1>1, <3>6
               DEF Writes, InviteReplace, InviteInsert, RevokeInvite, SetRole, Remove,
                   RemoveKeys, RevokeKey, InsertKey, Create, Commit, SignupCommit, Goto, At,
                   Request, Acceptors, Inviters
        <3> QED
            BY <3>1, <3>2, <3>3, <3>4, <3>5, <3>6
    <2>2. Members' = Members /\ Pending' = Pending
        BY <1>2 DEF Members, Pending
    <2>3. Inviters' \subseteq Inviters
        BY <1>1, <2>1 DEF Inviters
    <2>4. Taken' \subseteq Taken
        BY <1>1, <1>2, <2>1 DEF Taken, Acceptors
    <2> QED
        BY <2>2, <2>3, <2>4 DEF SeatSets
<1>3. CASE SetRole(r) \/ Remove(r)
    <2>1. Members' \subseteq Members /\ Pending' = Pending
        BY <1>1, <1>3 DEF SetRole, Remove, Members, Pending, Member
    <2>2. req'[r].kind # "invite" /\ req'[r].kind # "accept" /\ invite' = invite
        BY <1>1, <1>3 DEF SetRole, Remove, Done, Goto, At, Idle, Request
    <2> QED
        BY <1>1, <2>1, <2>2 DEF SeatSets, Inviters, Taken, Acceptors
<1>4. CASE InviteReplace(r) \/ RevokeInvite(r) \/ Commit(r)
    <2>1. \A i \in InviteIds : invite'[i].state \in {"open", "lapsed"} => invite'[i].state = invite[i].state
        BY <1>1, <1>4 DEF InviteReplace, RevokeInvite, Commit, Invitation
    <2>2. /\ req'[r].kind # "accept"
          /\ req'[r].kind = "invite" => r \in Inviters
        BY <1>1, <1>4
           DEF InviteReplace, RevokeInvite, Commit, Done, Goto, At, Idle, Request, Inviters
    <2>3. row' = row
        BY <1>4 DEF InviteReplace, RevokeInvite
    <2> QED
        BY <1>1, <2>1, <2>2, <2>3 DEF SeatSets, Members, Pending, Inviters, Taken, Acceptors
<1>5. SetRole(r) \/ Remove(r) \/ InviteReplace(r) \/ RevokeInvite(r) \/ Commit(r)
      \/ UNCHANGED <<row, invite>>
    <2>1. CASE Start(r) \/ Reads(r)
        BY <2>1
           DEF Start, StartInvite, StartRevoke, StartSetRole, StartRemove, StartCreateKey,
               StartRevokeKey, StartAccept, StartSignup, Arrive, Reads, Role, InviteKnown,
               InviteCount, Target, CountKeys, Load, Account, Begin, Signup, Die
    <2>2. CASE Writes(r)
        BY <2>2 DEF Writes, RemoveKeys, InsertKey, RevokeKey, Create, SignupCommit
    <2> QED
        BY <2>1, <2>2
<1> QED
    BY <1>2, <1>3, <1>4, <1>5

(* Count-then-insert exceeds a plan limit by the requests that overlap and  *)
(* no further: one less than run at once, also when an invitation lapses    *)
(* while it is being accepted (orgs.ts:391-399 and 279-287,                 *)
(* invitations.ts:111-145).                                                 *)
THEOREM LimitsKept == Spec => []LimitsHoldBut
<1>1. MembershipAssumption /\ Init => KeyInv /\ SeatInv
    <2> SUFFICES ASSUME MembershipAssumption, Init
                 PROVE  KeyInv /\ SeatInv
        OBVIOUS
    <2>1. Keys = {} /\ KeyWriters = {} /\ Members = {1} /\ Pending = {} /\ Inviters = {} /\ Taken = {}
        BY DEF Init, FreeRow, FreeInvite, FreeKey, Idle, Keys, KeyWriters, Members, Pending,
               Inviters, Taken, At, RowIds, MembershipAssumption
    <2>2. Cardinality({}) = 0 /\ Cardinality({1}) = 1
        BY FS_EmptySet, FS_Singleton
    <2>3. KeyLimit \in Nat /\ MemberLimit \in Nat \ {0} /\ Cardinality(Requests) \in Nat \ {0}
        BY Finite DEF MembershipAssumption
    <2> QED
        BY <2>1, <2>2, <2>3 DEF KeyInv, SeatInv
<1>2. MembershipAssumption /\ Typed /\ KeyInv /\ [Next]_vars => KeyInv'
    <2> SUFFICES ASSUME MembershipAssumption, Typed, KeyInv, [Next]_vars
                 PROVE  KeyInv'
        OBVIOUS
    <2>1. CASE UNCHANGED <<key, req>>
        BY <2>1 DEF KeyInv, Keys, KeyWriters, At
    <2> QED
        BY <2>1, NextCases, KeyStep DEF vars, Lapse
<1>3. MembershipAssumption /\ Typed /\ SeatInv /\ [Next]_vars => SeatInv'
    <2> SUFFICES ASSUME MembershipAssumption, Typed, SeatInv, [Next]_vars
                 PROVE  SeatInv'
        OBVIOUS
    <2>1. ASSUME NEW r \in Requests, Start(r) \/ Reads(r) \/ Writes(r)
          PROVE  SeatInv'
        BY <2>1, CountKeepsSeats, InsertKeepsSeats, CommitKeepsSeats, OthersShrink, SeatsShrink
    <2>2. CASE UNCHANGED vars
        BY <2>2 DEF vars, SeatInv, Members, Pending, Inviters, Taken, Acceptors
    <2> QED
        BY <2>1, <2>2, NextCases, LapseKeepsSeats
<1>4. MembershipAssumption /\ KeyInv /\ SeatInv => LimitsHoldBut
    <2> SUFFICES ASSUME MembershipAssumption, KeyInv, SeatInv
                 PROVE  LimitsHoldBut
        OBVIOUS
    <2>1. /\ Cardinality(Keys) \in Nat /\ Cardinality(KeyWriters) \in Nat
          /\ Cardinality(Members) \in Nat /\ Cardinality(Pending) \in Nat
          /\ Cardinality(Inviters) \in Nat /\ Cardinality(Taken) \in Nat
          /\ KeyLimit \in Nat /\ MemberLimit \in Nat /\ Cardinality(Requests) \in Nat
        BY Finite, FS_CardinalityType DEF MembershipAssumption
    <2> QED
        BY <2>1 DEF KeyInv, SeatInv, LimitsHoldBut
<1>5. Init => Typed
    BY TypedInit, MembershipAssumption
<1>6. Typed /\ [Next]_vars => Typed'
    BY TypedStep, MembershipAssumption
<1> QED
    BY <1>1, <1>2, <1>3, <1>4, <1>5, <1>6, MembershipAssumption, PTL DEF Spec

-----------------------------------------------------------------------------
(* The keys of those who leave.                                             *)

(* Whom a removal is about to take the row of, it will take the keys of.    *)
Aimed(q) ==
    q.kind = "remove" /\ q.pc = "write" =>
        row[q.id].state # "free" /\ row[q.id].who = q.who

Followed == \A r \in Requests : Aimed(req[r])

(* A request that is not at a removal goes on, and no row or key is lost.   *)
LEMMA KeepsPursued ==
    ASSUME Typed, KeysGoWithAuthor, NEW r \in Requests,
           \A s \in Requests : s # r => req'[s] = req[s],
           ~At(r, "remove", "keys"), UNCHANGED key,
           \A i \in RowIds : row[i].state = "live" =>
               row'[i].state = "live" /\ row'[i].who = row[i].who
    PROVE  KeysGoWithAuthor'
<1>1. \A u : RowsOf(u) # {} => RowsOf(u)' # {}
    BY DEF RowsOf
<1>2. \A s \in Requests : At(s, "remove", "keys") =>
          At(s, "remove", "keys")' /\ req'[s].who = req[s].who
    BY DEF At
<1>3. Keys' = Keys
    BY DEF Keys
<1> QED
    BY <1>1, <1>2, <1>3 DEF KeysGoWithAuthor

LEMMA RemoveKeepsPursued ==
    ASSUME Typed, KeysGoWithAuthor, Followed, NEW r \in Requests, Remove(r),
           \A s \in Requests : s # r => req'[s] = req[s]
    PROVE  KeysGoWithAuthor'
<1>1. /\ req \in [Requests -> Request] /\ req[r] \in Request /\ row \in [RowIds -> Member]
      /\ req[r].id \in RowIds /\ Aimed(req[r])
    BY DEF Typed, TypeOK, Named, Sound, Remove, At, Followed
<1>2. /\ req[r].kind = "remove" /\ req[r].pc = "write" /\ Keys' = Keys /\ key' = key
      /\ row' = [row EXCEPT ![req[r].id].state = "gone"]
    BY DEF Remove, At, Keys
<1>3. At(r, "remove", "keys")' /\ req'[r].who = req[r].who
    BY <1>1, <1>2 DEF Remove, At, Goto, Request
<1>4. \A u : u # req[r].who /\ RowsOf(u) # {} => RowsOf(u)' # {}
    BY <1>1, <1>2 DEF Aimed, RowsOf, Member
<1>5. \A s \in Requests : At(s, "remove", "keys") =>
          At(s, "remove", "keys")' /\ req'[s].who = req[s].who
    BY <1>2 DEF At
<1> QED
    BY <1>2, <1>3, <1>4, <1>5 DEF KeysGoWithAuthor

(* The steps that write keys.                                               *)
LEMMA KeyWritesKeepPursued ==
    ASSUME Typed, KeysGoWithAuthor, NEW r \in Requests,
           RemoveKeys(r) \/ InsertKey(r) \/ RevokeKey(r) \/ Die(r),
           \A s \in Requests : s # r => req'[s] = req[s]
    PROVE  KeysGoWithAuthor'
<1>1. key \in [KeyIds -> Key] /\ \A u : RowsOf(u)' = RowsOf(u)
    BY DEF Typed, TypeOK, RemoveKeys, InsertKey, RevokeKey, Die, RowsOf
<1>2. \A s \in Requests : s # r /\ At(s, "remove", "keys") =>
          At(s, "remove", "keys")' /\ req'[s].who = req[s].who
    BY DEF At
<1>3. CASE RemoveKeys(r)
    <2>1. \A k \in Keys' : k \in Keys /\ key'[k] = key[k] /\ key[k].by # req[r].who
        BY <1>1, <1>3 DEF RemoveKeys, Keys, Key
    <2> QED
        BY <1>1, <1>2, <2>1 DEF KeysGoWithAuthor
<1>4. CASE InsertKey(r)
    <2>1. PICK n \in NewId(key) :
             key' = [key EXCEPT ![n] = [state |-> "live", by |-> req[r].by,
                                        spared |-> RowsOf(req[r].by) = {}]]
        BY <1>4 DEF InsertKey
    <2>2. ~At(r, "remove", "keys") /\ n \in KeyIds
        BY <1>1, <1>4 DEF InsertKey, At, NewId
    <2>3. \A k \in Keys' : k = n \/ (k \in Keys /\ key'[k] = key[k])
        BY <1>1, <2>1, <2>2 DEF Keys
    <2>4. RowsOf(key'[n].by) # {} \/ key'[n].spared
        BY <1>1, <2>1, <2>2
    <2> QED
        BY <1>1, <1>2, <2>2, <2>3, <2>4 DEF KeysGoWithAuthor
<1>5. CASE RevokeKey(r)
    <2>1. \A k \in Keys' : k \in Keys /\ key'[k] = key[k]
        BY <1>1, <1>5 DEF RevokeKey, Keys, Key
    <2>2. ~At(r, "remove", "keys")
        BY <1>5 DEF RevokeKey, At
    <2> QED
        BY <1>1, <1>2, <2>1, <2>2 DEF KeysGoWithAuthor
<1>6. CASE Die(r)
    <2>1. \A k \in Keys' : /\ k \in Keys /\ key'[k].by = key[k].by
                           /\ key[k].spared \/ k \in Spared(r) => key'[k].spared
        BY <1>1, <1>6 DEF Die, Keys, Key
    <2>2. \A k \in Keys : At(r, "remove", "keys") /\ req[r].who = key[k].by => k \in Spared(r)
        BY DEF Spared
    <2> QED
        BY <1>1, <1>2, <2>1, <2>2 DEF KeysGoWithAuthor
<1> QED
    BY <1>3, <1>4, <1>5, <1>6

(* A removal looks at its row before it writes it, and a row is of one      *)
(* person for good.                                                         *)
LEMMA StepFollows ==
    ASSUME Typed, Followed, NEW r \in Requests, Start(r) \/ Reads(r) \/ Writes(r),
           \A s \in Requests : s # r => req'[s] = req[s]
    PROVE  Followed'
<1>1. /\ req \in [Requests -> Request] /\ req[r] \in Request /\ row \in [RowIds -> Member]
      /\ \A s \in Requests : Sound(req[s])
    BY DEF Typed, TypeOK, Named
<1>2. \A i \in RowIds : row[i].state # "free" =>
          row'[i].state # "free" /\ row'[i].who = row[i].who
    <2>1. CASE SetRole(r)
        BY <1>1, <2>1 DEF SetRole, Member
    <2>2. CASE Remove(r)
        BY <1>1, <2>2 DEF Remove, Member
    <2>3. CASE Commit(r)
        BY <1>1, <2>3 DEF Commit, Join, NewId
    <2>4. CASE UNCHANGED row
        BY <2>4
    <2> QED
        BY <2>1, <2>2, <2>3, <2>4
           DEF Start, StartInvite, StartRevoke, StartSetRole, StartRemove, StartCreateKey,
               StartRevokeKey, StartAccept, StartSignup, Arrive, Reads, Role, InviteKnown,
               InviteCount, Target, CountKeys, Load, Account, Begin, Signup, Die, Writes,
               InviteReplace, InviteInsert, RevokeInvite, RemoveKeys, InsertKey, RevokeKey, Create,
               SignupCommit
<1>3. ASSUME req'[r].kind = "remove", req'[r].pc = "write"
      PROVE  Target(r) /\ ~Done(r)
    <2>1. ~Done(r)
        BY <1>1, <1>3 DEF Done, Idle
    <2>2. ~Start(r)
        BY <1>1, <1>3
           DEF Start, StartInvite, StartRevoke, StartSetRole, StartRemove, StartCreateKey,
               StartRevokeKey, StartAccept, StartSignup, Arrive
    <2>3. ~Writes(r)
        BY <1>1, <1>3, <2>1
           DEF Writes, InviteReplace, InviteInsert, RevokeInvite, SetRole, Remove, RemoveKeys,
               InsertKey, RevokeKey, Create, Commit, SignupCommit, Goto, At, Request
    <2>4. ~Role(r)
        BY <1>1, <1>3, <2>1 DEF Role, AfterRole, Goto, Request
    <2>5. ~InviteKnown(r) /\ ~InviteCount(r) /\ ~CountKeys(r)
        BY <1>1, <1>3, <2>1 DEF InviteKnown, InviteCount, CountKeys, Goto, At, Request
    <2>6. ~Load(r) /\ ~Account(r) /\ ~Begin(r) /\ ~Signup(r) /\ ~Die(r)
        BY <1>1, <1>3, <2>1 DEF Load, Account, Begin, Signup, Die, Goto, At, Request
    <2> QED
        BY <2>1, <2>2, <2>3, <2>4, <2>5, <2>6 DEF Reads
<1>4. ASSUME Target(r), ~Done(r)
      PROVE  Aimed(req[r])' \/ req'[r].pc # "write" \/ req'[r].kind # "remove"
    <2>1. /\ req' = [req EXCEPT ![r].pc = "write", ![r].who = row[req[r].id].who]
          /\ Touchable(req[r].id) /\ row' = row /\ req[r].pc = "target"
        BY <1>4 DEF Target
    <2>2. req'[r].id = req[r].id /\ req'[r].who = row[req[r].id].who
        BY <1>1, <2>1 DEF Request
    <2> QED
        BY <2>1, <2>2 DEF Aimed, Touchable
<1>5. \A s \in Requests : s # r => Aimed(req[s])'
    BY <1>1, <1>2 DEF Followed, Aimed, Sound
<1> QED
    BY <1>3, <1>4, <1>5 DEF Followed, Aimed

(* A key outlives its author's membership only when the removal missed it:  *)
(* inserted by a request that was let in before, or left by a removal that  *)
(* died between its two statements (orgs.ts:257-300, 479-514).              *)
THEOREM KeysFollow == Spec => []KeysGoWithAuthor
<1>1. Init => Followed /\ KeysGoWithAuthor
    BY DEF Init, Followed, Aimed, Idle, KeysGoWithAuthor, Keys, FreeKey
<1>2. Typed /\ Followed /\ KeysGoWithAuthor /\ [Next]_vars => (Followed /\ KeysGoWithAuthor)'
    <2> SUFFICES ASSUME Typed, Followed, KeysGoWithAuthor, [Next]_vars
                 PROVE  Followed' /\ KeysGoWithAuthor'
        OBVIOUS
    <2>1. ASSUME NEW r \in Requests, Start(r) \/ Reads(r) \/ Writes(r)
          PROVE  Followed' /\ KeysGoWithAuthor'
        <3>1. \A s \in Requests : s # r => req'[s] = req[s]
            BY <2>1, Aside
        <3>2. Followed'
            BY <2>1, <3>1, StepFollows
        <3>3. CASE Remove(r)
            BY <3>1, <3>2, <3>3, RemoveKeepsPursued
        <3>4. CASE RemoveKeys(r) \/ InsertKey(r) \/ RevokeKey(r) \/ Die(r)
            BY <3>1, <3>2, <3>4, KeyWritesKeepPursued
        <3>5. CASE ~(Remove(r) \/ RemoveKeys(r) \/ InsertKey(r) \/ RevokeKey(r) \/ Die(r))
            <4>1. ~At(r, "remove", "keys")
                BY <2>1, <3>5
                   DEF Start, StartInvite, StartRevoke, StartSetRole, StartRemove, StartCreateKey,
                       StartRevokeKey, StartAccept, StartSignup, Arrive, Reads, Role, InviteKnown,
                       InviteCount, Target, CountKeys, Load, Account, Begin, Signup, Writes,
                       InviteReplace, InviteInsert, RevokeInvite, SetRole, Create, Commit,
                       SignupCommit, At
            <4>2. key' = key
                BY <2>1, <3>5
                   DEF Start, StartInvite, StartRevoke, StartSetRole, StartRemove, StartCreateKey,
                       StartRevokeKey, StartAccept, StartSignup, Arrive, Reads, Role, InviteKnown,
                       InviteCount, Target, CountKeys, Load, Account, Begin, Signup, Writes,
                       InviteReplace, InviteInsert, RevokeInvite, SetRole, Create, Commit,
                       SignupCommit
            <4>3. \A i \in RowIds : row[i].state = "live" =>
                      row'[i].state = "live" /\ row'[i].who = row[i].who
                <5>1. row \in [RowIds -> Member]
                    BY DEF Typed, TypeOK
                <5>2. CASE SetRole(r)
                    BY <5>1, <5>2 DEF SetRole, Member
                <5>3. CASE Commit(r)
                    BY <5>1, <5>3 DEF Commit, Join, NewId
                <5>4. CASE ~SetRole(r) /\ ~Commit(r)
                    BY <2>1, <3>5, <5>4
                       DEF Start, StartInvite, StartRevoke, StartSetRole, StartRemove,
                           StartCreateKey, StartRevokeKey, StartAccept, StartSignup, Arrive, Reads,
                           Role, InviteKnown, InviteCount, Target, CountKeys, Load, Account, Begin,
                           Signup, Writes, InviteReplace, InviteInsert, RevokeInvite, Create,
                           SignupCommit
                <5> QED
                    BY <5>2, <5>3, <5>4
            <4> QED
                BY <3>1, <3>2, <4>1, <4>2, <4>3, KeepsPursued
        <3> QED
            BY <3>2, <3>3, <3>4, <3>5
    <2>2. CASE UNCHANGED vars \/ \E i \in InviteIds : Lapse(i)
        BY <2>2 DEF vars, Lapse, Followed, Aimed, KeysGoWithAuthor, Keys, RowsOf, At
    <2> QED
        BY <2>1, <2>2, NextCases
<1>3. Init => Typed
    BY TypedInit, MembershipAssumption
<1>4. Typed /\ [Next]_vars => Typed'
    BY TypedStep, MembershipAssumption
<1> QED
    BY <1>1, <1>2, <1>3, <1>4, PTL DEF Spec

-----------------------------------------------------------------------------
(* Sessions, members and usage.                                            *)

(* A request that may still raise the version: each does so once.           *)
Ahead == {r \in Requests : call[r].pc \in {"auth", "fill", "handle", "bump"}}

Counted ==
    /\ user.pw <= user.tv
    /\ user.tv + Cardinality(Ahead) <= called

SessionsTyped == S!TypeOK /\ Counted

(* While a request is ahead there is a version left for it.                 *)
LEMMA RoomForOne ==
    ASSUME SessionsTyped, MembershipAssumption, SessionsAssumption, Ahead # {}
    PROVE  user.tv + 1 \in 0 .. MaxCalls /\ 1 \in 0 .. MaxCalls
<1>1. IsFiniteSet(Ahead)
    BY FS_Subset, MembershipAssumption DEF Ahead, MembershipAssumption
<1>2. Cardinality(Ahead) # 0 /\ Cardinality(Ahead) \in Nat
    BY <1>1, FS_EmptySet, FS_CardinalityType
<1> QED
    BY <1>2, SessionsAssumption
       DEF SessionsAssumption, SessionsTyped, Counted, S!TypeOK, S!UserRow, S!Versions

(* Of the requests, one goes on or ends; it is ahead only if it was.        *)
LEMMA CallMoves ==
    ASSUME SessionsTyped, MembershipAssumption, NEW r \in Requests, NEW q \in S!Request,
           q.pc \in {"auth", "fill", "handle", "bump"} => r \in Ahead,
           call' = [call EXCEPT ![r] = q],
           UNCHANGED <<user, called>>
    PROVE  call' \in [Requests -> S!Request] /\ Counted'
<1>1. call' \in [Requests -> S!Request]
    BY DEF SessionsTyped, S!TypeOK
<1>2. \A s \in Requests : call'[s] = IF s = r THEN q ELSE call[s]
    BY DEF SessionsTyped, S!TypeOK
<1>3. Ahead' \subseteq Ahead
    BY <1>2 DEF Ahead
<1>4. IsFiniteSet(Ahead)
    BY FS_Subset, MembershipAssumption DEF Ahead, MembershipAssumption
<1>5. Cardinality(Ahead') <= Cardinality(Ahead) /\ Cardinality(Ahead') \in Nat
      /\ Cardinality(Ahead) \in Nat
    BY <1>3, <1>4, FS_Subset, FS_CardinalityType
<1>6. user.tv \in Nat /\ called \in Nat
    BY DEF SessionsTyped, S!TypeOK, S!UserRow, S!Versions
<1> QED
    BY <1>1, <1>5, <1>6 DEF SessionsTyped, Counted

LEMMA CallGoes ==
    ASSUME SessionsTyped, MembershipAssumption, NEW r \in Requests,
           NEW pc \in {"fill", "handle", "bump", "invalidate", "sign"},
           pc \in {"fill", "handle", "bump"} => r \in Ahead,
           S!Goto(r, pc), UNCHANGED <<user, called>>
    PROVE  call' \in [Requests -> S!Request] /\ Counted'
<1> DEFINE q == [call[r] EXCEPT !.pc = pc]
<1>1. call[r] \in S!Request
    BY DEF SessionsTyped, S!TypeOK
<1>2. q \in S!Request /\ q.pc = pc
    BY <1>1 DEF S!Request
<1>3. call' = [call EXCEPT ![r] = q]
    BY DEF S!Goto
<1> HIDE DEF q
<1> QED
    BY <1>2, <1>3, CallMoves

LEMMA CallEnds ==
    ASSUME SessionsTyped, MembershipAssumption, SessionsAssumption, NEW r \in Requests,
           S!Done(r), UNCHANGED <<user, called>>
    PROVE  call' \in [Requests -> S!Request] /\ Counted'
<1>1. S!Idle \in S!Request /\ S!Idle.pc = "idle"
    <2>1. /\ 0 \in 0 .. MaxCalls
          /\ 0 \in S!Times
        BY SessionsAssumption DEF SessionsAssumption, S!Times
    <2> QED
        BY <2>1 DEF S!Idle, S!Request, S!Passwords, S!Versions, S!None, S!Protected, S!Public
<1> QED
    BY <1>1, CallMoves DEF S!Done

LEMMA CallJudged ==
    ASSUME SessionsTyped, MembershipAssumption, SessionsAssumption, NEW r \in Ahead, NEW tv,
           S!Judge(r, tv), UNCHANGED <<user, called>>
    PROVE  call' \in [Requests -> S!Request] /\ Counted'
<1>1. r \in Requests
    BY DEF Ahead
<1>2. CASE S!Done(r)
    BY <1>1, <1>2, CallEnds
<1>3. CASE ~S!Done(r)
    <2> DEFINE q == [call[r] EXCEPT !.pc = "handle", !.seen = 0]
    <2>1. call[r] \in S!Request
        BY <1>1 DEF SessionsTyped, S!TypeOK
    <2>2. 0 \in S!Versions
        BY SessionsAssumption DEF SessionsAssumption, S!Versions
    <2>3. q \in S!Request /\ q.pc = "handle"
        BY <2>1, <2>2 DEF S!Request
    <2>4. call' = [call EXCEPT ![r] = q]
        BY <1>3 DEF S!Judge
    <2> HIDE DEF q
    <2> QED
        BY <1>1, <2>3, <2>4, CallMoves
<1> QED
    BY <1>2, <1>3

(* The handlers that write nothing but their own progress.                  *)
CallReads(r) ==
    \/ S!AuthHit(r) \/ S!AuthRead(r) \/ S!Throttle(r) \/ S!Call(r) \/ S!Login(r)
    \/ S!Switch(r) \/ S!Change(r) \/ S!LogoutAll(r) \/ S!Reset(r)

LEMMA CallReadsTyped ==
    ASSUME SessionsTyped, MembershipAssumption, SessionsAssumption, NEW r \in Requests,
           CallReads(r)
    PROVE  SessionsTyped'
<1>1. UNCHANGED <<now, user, bumpedAt, cache, tokens, link, spent, called>>
    BY DEF CallReads, S!AuthHit, S!AuthRead, S!Throttle, S!Call, S!Login, S!Switch, S!Change,
           S!LogoutAll, S!Reset
<1>2. r \in Ahead
    BY DEF CallReads, S!AuthHit, S!AuthRead, S!Throttle, S!Call, S!Login, S!Switch, S!Change,
           S!LogoutAll, S!Reset, S!At, Ahead
<1>3. call[r] \in S!Request
    BY DEF SessionsTyped, S!TypeOK
<1>4. call' \in [Requests -> S!Request] /\ Counted'
    <2>1. CASE S!Done(r)
        BY <1>1, <2>1, CallEnds
    <2>2. CASE S!AuthHit(r)
        BY <1>1, <1>2, <2>2, CallJudged DEF S!AuthHit
    <2>3. CASE S!Goto(r, "sign") \/ S!Goto(r, "bump")
        BY <1>1, <1>2, <2>3, CallGoes
    <2>4. ASSUME NEW seen \in S!Versions, NEW pc \in {"fill", "sign"},
                 call' = [call EXCEPT ![r].pc = pc, ![r].seen = seen]
          PROVE  call' \in [Requests -> S!Request] /\ Counted'
        <3> DEFINE q == [call[r] EXCEPT !.pc = pc, !.seen = seen]
        <3>1. q \in S!Request
            BY <1>3, <2>4 DEF S!Request, SessionsTyped, S!TypeOK
        <3>2. call' = [call EXCEPT ![r] = q]
            BY <2>4
        <3> HIDE DEF q
        <3> QED
            BY <1>1, <1>2, <3>1, <3>2, CallMoves
    <2>5. CASE S!AuthRead(r) \/ (S!Login(r) /\ ~S!Done(r))
        <3>1. user.tv \in S!Versions
            BY DEF SessionsTyped, S!TypeOK, S!UserRow
        <3> QED
            BY <2>4, <2>5, <3>1 DEF S!AuthRead, S!Login, S!LoginVerdict
    <2>6. CASE S!Reset(r) /\ ~S!Done(r)
        <3> DEFINE q == [call[r] EXCEPT !.seen = 1]
        <3>3. 1 \in S!Versions
            BY <1>2, RoomForOne DEF S!Versions
        <3>4. q \in S!Request
            BY <3>3 DEF S!Request, SessionsTyped, S!TypeOK
        <3>5. call' = [call EXCEPT ![r] = q]
            BY <2>6 DEF S!Reset
        <3> HIDE DEF q
        <3> QED
            BY <1>1, <1>2, <3>4, <3>5, CallMoves
    <2> QED
        BY <2>1, <2>2, <2>3, <2>5, <2>6
           DEF CallReads, S!Throttle, S!Call, S!Login, S!Switch, S!Change, S!LogoutAll, S!Reset
<1> QED
    BY <1>1, <1>4 DEF SessionsTyped, S!TypeOK

LEMMA StartCallTyped ==
    ASSUME SessionsTyped, MembershipAssumption, SessionsAssumption, NEW r \in Requests,
           NEW p \in Procs, NEW kind \in S!Public \cup S!Protected,
           S!StartPublic(r, kind, p) \/ S!StartProtected(r, kind, p)
    PROVE  SessionsTyped'
<1>1. PICK tok \in tokens \cup {S!NoToken}, l \in Links \cup {S!None}, pw \in 0 .. user.pw :
         S!Arrive(r, kind, p, tok, l, pw)
    <2>1. 0 \in 0 .. user.pw
        BY DEF SessionsTyped, S!TypeOK, S!UserRow, S!Passwords
    <2> QED
        BY <2>1 DEF S!StartPublic, S!StartProtected
<1>2. UNCHANGED <<now, user, bumpedAt, cache, tokens, link, spent>>
    BY DEF S!StartPublic, S!StartProtected
<1> DEFINE q == [pc |-> IF kind \in S!Public THEN "handle" ELSE "auth", kind |-> kind,
                 proc |-> p, tok |-> tok, link |-> l, pw |-> pw, seen |-> 0, began |-> now]
<1>3. call' = [call EXCEPT ![r] = q] /\ called' = called + 1 /\ call[r].pc = "idle"
      /\ called < MaxCalls
    BY <1>1 DEF S!Arrive, S!At
<1>4. q \in S!Request
    <2>1. pw \in S!Passwords /\ 0 \in S!Versions /\ tok \in S!Token \cup {S!NoToken}
        BY SessionsAssumption
           DEF SessionsAssumption, SessionsTyped, S!TypeOK, S!UserRow, S!Passwords, S!Versions
    <2>2. now \in S!Times
        BY SessionsAssumption DEF SessionsAssumption, SessionsTyped, S!TypeOK, S!Times
    <2> QED
        BY <2>1, <2>2 DEF S!Request
<1> HIDE DEF q
<1>5. \A s \in Requests : s # r => call'[s] = call[s]
    BY <1>3 DEF SessionsTyped, S!TypeOK
<1>6. Ahead' \subseteq Ahead \cup {r} /\ IsFiniteSet(Ahead)
    BY <1>5, FS_Subset, MembershipAssumption DEF Ahead, MembershipAssumption
<1>7. /\ Cardinality(Ahead') <= Cardinality(Ahead) + 1
      /\ Cardinality(Ahead) \in Nat /\ Cardinality(Ahead') \in Nat
    <2>1. IsFiniteSet(Ahead \cup {r}) /\ Cardinality(Ahead \cup {r}) <= Cardinality(Ahead) + 1
          /\ Cardinality(Ahead) \in Nat
        <3>1. Cardinality(Ahead) \in Nat
            BY <1>6, FS_CardinalityType
        <3>2. /\ IsFiniteSet(Ahead \cup {r})
              /\ Cardinality(Ahead \cup {r}) =
                   IF r \in Ahead THEN Cardinality(Ahead) ELSE Cardinality(Ahead) + 1
            BY <1>6, FS_AddElement
        <3> QED
            BY <3>1, <3>2
    <2>2. IsFiniteSet(Ahead') /\ Cardinality(Ahead') <= Cardinality(Ahead \cup {r})
        BY <1>6, <2>1, FS_Subset
    <2>3. Cardinality(Ahead') \in Nat /\ Cardinality(Ahead \cup {r}) \in Nat
        BY <2>1, <2>2, FS_CardinalityType
    <2> QED
        BY <2>1, <2>2, <2>3
<1>8. user.tv \in Nat /\ called \in Nat /\ called' \in 0 .. MaxCalls
    BY <1>3, SessionsAssumption
       DEF SessionsAssumption, SessionsTyped, S!TypeOK, S!UserRow, S!Versions
<1>9. Counted'
    BY <1>2, <1>3, <1>7, <1>8 DEF SessionsTyped, Counted
<1> QED
    BY <1>2, <1>3, <1>4, <1>8, <1>9 DEF SessionsTyped, S!TypeOK

LEMMA BumpTyped ==
    ASSUME SessionsTyped, MembershipAssumption, SessionsAssumption, NEW r \in Requests,
           S!Bump(r)
    PROVE  SessionsTyped'
<1>1. r \in Ahead
    BY DEF S!Bump, S!At, Ahead
<1>2. /\ user.tv \in Nat /\ user.pw \in Nat /\ user.pw <= user.tv
      /\ user.tv + 1 <= MaxCalls /\ called \in Nat
    BY <1>1, RoomForOne DEF SessionsTyped, Counted, S!TypeOK, S!UserRow, S!Versions, S!Passwords
<1>3. /\ user'.tv = user.tv + 1 /\ user'.pw \in {user.pw, user.pw + 1}
      /\ user' \in S!UserRow /\ user'.pw \in S!Passwords
    <2>1. user' = [pw |-> IF S!Sets(r) THEN user.pw + 1 ELSE user.pw, tv |-> user.tv + 1]
        BY DEF S!Bump
    <2>2. user.tv + 1 \in 0 .. MaxCalls /\ {user.pw, user.pw + 1} \subseteq 0 .. MaxCalls
        BY <1>2, SessionsAssumption DEF SessionsAssumption
    <2> QED
        BY <2>1, <2>2 DEF S!UserRow, S!Versions, S!Passwords
<1> DEFINE q == [call[r] EXCEPT !.pc = "invalidate", !.pw = user'.pw]
<1>4. q \in S!Request /\ q.pc = "invalidate"
    BY <1>3 DEF S!Request, SessionsTyped, S!TypeOK
<1>5. call' = [call EXCEPT ![r] = q]
    BY DEF S!Bump
<1> HIDE DEF q
<1>6. call' \in [Requests -> S!Request]
    BY <1>4, <1>5 DEF SessionsTyped, S!TypeOK
<1>7. Ahead' = Ahead \ {r}
    BY <1>4, <1>5 DEF SessionsTyped, S!TypeOK, Ahead
<1>8. Cardinality(Ahead') = Cardinality(Ahead) - 1 /\ Cardinality(Ahead) \in Nat
    <2>1. IsFiniteSet(Ahead)
        BY FS_Subset, MembershipAssumption DEF Ahead, MembershipAssumption
    <2> QED
        BY <1>1, <1>7, <2>1, FS_RemoveElement, FS_CardinalityType
<1>9. Counted'
    BY <1>2, <1>3, <1>8 DEF Counted, SessionsTyped, S!Bump
<1>10. bumpedAt' \in [S!Versions -> S!Times] /\ spent' \in [Links -> Nat]
    <2>1. now \in S!Times
        BY SessionsAssumption DEF SessionsAssumption, SessionsTyped, S!TypeOK, S!Times
    <2>2. bumpedAt' = [bumpedAt EXCEPT ![user.tv] = now]
          /\ spent' = [l \in Links |-> IF l = call[r].link THEN spent[l] + 1 ELSE spent[l]]
        BY DEF S!Bump
    <2>3. bumpedAt \in [S!Versions -> S!Times] /\ spent \in [Links -> Nat]
        BY DEF SessionsTyped, S!TypeOK
    <2>4. bumpedAt' \in [S!Versions -> S!Times]
        BY <2>1, <2>2, <2>3
    <2>5. spent' \in [Links -> Nat]
        BY <2>2, <2>3
    <2> QED
        BY <2>4, <2>5
<1> QED
    BY <1>3, <1>6, <1>9, <1>10 DEF S!Bump, SessionsTyped, S!TypeOK

LEMMA SessionWritesTyped ==
    ASSUME SessionsTyped, MembershipAssumption, SessionsAssumption, NEW r \in Requests,
           \/ S!AuthFill(r) \/ S!Forgot(r) \/ S!ResetClaim(r)
           \/ S!Invalidate(r) \/ S!Sign(r)
    PROVE  SessionsTyped'
<1>1. call[r] \in S!Request
    BY DEF SessionsTyped, S!TypeOK
<1>2. /\ 0 \in S!Times /\ 0 \in S!Versions /\ 0 \in S!Passwords
      /\ now + TTL \in S!Times /\ now + Life \in S!Times /\ now + LinkLife \in S!Times
    <2>1. /\ TTL \in Nat /\ Life \in Nat /\ LinkLife \in Nat /\ MaxNow \in Nat
          /\ MaxCalls \in Nat /\ now \in 0 .. MaxNow
        BY SessionsAssumption DEF SessionsAssumption, SessionsTyped, S!TypeOK
    <2> QED
        BY <2>1 DEF S!Times, S!Versions, S!Passwords
<1>3. CASE S!AuthFill(r)
    <2>1. r \in Ahead /\ call' \in [Requests -> S!Request] /\ Counted'
        BY <1>3, CallJudged DEF S!AuthFill, S!At, Ahead
    <2>2. cache' \in [Procs -> S!Cached]
        BY <1>1, <1>2, <1>3 DEF S!AuthFill, SessionsTyped, S!TypeOK, S!Cached, S!Request
    <2> QED
        BY <1>3, <2>1, <2>2 DEF S!AuthFill, SessionsTyped, S!TypeOK
<1>4. CASE S!Forgot(r)
    <2>1. call' \in [Requests -> S!Request] /\ Counted'
        BY <1>4, CallEnds DEF S!Forgot
    <2>2. link' \in [Links -> S!LinkRow]
        BY <1>2, <1>4 DEF S!Forgot, SessionsTyped, S!TypeOK, S!LinkRow
    <2> QED
        BY <1>4, <2>1, <2>2 DEF S!Forgot, SessionsTyped, S!TypeOK
<1>5. CASE S!ResetClaim(r)
    <2>1. call' \in [Requests -> S!Request] /\ Counted'
        <3>1. r \in Ahead
            BY <1>5 DEF S!ResetClaim, S!At, Ahead
        <3> QED
            BY <1>5, <3>1, CallEnds, CallGoes DEF S!ResetClaim
    <2>2. link' \in [Links -> S!LinkRow]
        BY <1>2, <1>5 DEF S!ResetClaim, SessionsTyped, S!TypeOK, S!LinkRow
    <2> QED
        BY <1>5, <2>1, <2>2 DEF S!ResetClaim, SessionsTyped, S!TypeOK
<1>6. CASE S!Invalidate(r)
    <2>1. call' \in [Requests -> S!Request] /\ Counted'
        BY <1>6, CallGoes DEF S!Invalidate
    <2>2. cache' \in [Procs -> S!Cached]
        BY <1>2, <1>6 DEF S!Invalidate, SessionsTyped, S!TypeOK, S!Cached, S!Cold
    <2> QED
        BY <1>6, <2>1, <2>2 DEF S!Invalidate, SessionsTyped, S!TypeOK
<1>7. CASE S!Sign(r)
    <2>1. call' \in [Requests -> S!Request] /\ Counted'
        BY <1>7, CallEnds DEF S!Sign
    <2>2. S!SignedVersion(r) \in S!Versions /\ S!Proof(r) \in S!Passwords
        BY <1>1, <1>2
           DEF S!SignedVersion, S!Proof, SessionsTyped, S!TypeOK, S!UserRow, S!Request, S!Token,
               S!NoToken
    <2>3. tokens' \subseteq S!Token
        BY <1>2, <1>7, <2>2 DEF S!Sign, S!Signed, S!Token, SessionsTyped, S!TypeOK
    <2> QED
        BY <1>7, <2>1, <2>3 DEF S!Sign, SessionsTyped, S!TypeOK
<1> QED
    BY <1>3, <1>4, <1>5, <1>6, <1>7

LEMMA ClockTyped ==
    ASSUME SessionsTyped, SessionsAssumption, S!Tick
    PROVE  SessionsTyped'
<1>1. Ahead' = Ahead
    BY DEF S!Tick, Ahead
<1> QED
    BY <1>1, SessionsAssumption
       DEF S!Tick, SessionsTyped, S!TypeOK, Counted, SessionsAssumption

LEMMA RestartTyped ==
    ASSUME SessionsTyped, MembershipAssumption, SessionsAssumption, NEW p \in Procs, S!Restart(p)
    PROVE  SessionsTyped'
<1>1. /\ 0 \in S!Times /\ 0 \in S!Versions /\ 0 \in S!Passwords
    BY SessionsAssumption DEF SessionsAssumption, S!Times, S!Versions, S!Passwords
<1>2. S!Idle \in S!Request /\ S!Cold \in S!Cached
    BY <1>1 DEF S!Idle, S!Cold, S!Request, S!Cached, S!None, S!Protected, S!Public
<1>3. call' \in [Requests -> S!Request] /\ cache' \in [Procs -> S!Cached]
    BY <1>2 DEF S!Restart, SessionsTyped, S!TypeOK
<1>4. Ahead' \subseteq Ahead
    BY DEF S!Restart, Ahead, S!Idle
<1>5. Cardinality(Ahead') <= Cardinality(Ahead) /\ Cardinality(Ahead) \in Nat
      /\ Cardinality(Ahead') \in Nat
    <2>1. IsFiniteSet(Ahead)
        BY FS_Subset, MembershipAssumption DEF Ahead, MembershipAssumption
    <2> QED
        BY <1>4, <2>1, FS_Subset, FS_CardinalityType
<1>6. Counted'
    BY <1>5 DEF S!Restart, SessionsTyped, S!TypeOK, S!UserRow, S!Versions, Counted
<1> QED
    BY <1>3, <1>6 DEF S!Restart, SessionsTyped, S!TypeOK

(* A step of one request leaves the others where they are.                  *)
CallWrites(r) ==
    \/ S!AuthFill(r) \/ S!Forgot(r) \/ S!ResetClaim(r) \/ S!Bump(r) \/ S!Invalidate(r)
    \/ S!Sign(r)

CallStarts(r) ==
    \/ \E p \in Procs, kind \in S!Public : S!StartPublic(r, kind, p)
    \/ \E p \in Procs, kind \in S!Protected : S!StartProtected(r, kind, p)

LEMMA SessionCases ==
    ASSUME S!Next
    PROVE  \/ \E r \in Requests : CallStarts(r) \/ CallReads(r) \/ CallWrites(r)
           \/ \E p \in Procs : S!Restart(p)
           \/ S!Tick
BY DEF S!Next, S!Hook, S!Handler, CallStarts, CallReads, CallWrites

LEMMA OthersStay ==
    ASSUME SessionsTyped, NEW r \in Requests, CallStarts(r) \/ CallReads(r) \/ CallWrites(r)
    PROVE  \A s \in Requests : s # r => call'[s] = call[s]
<1>1. call \in [Requests -> S!Request]
    BY DEF SessionsTyped, S!TypeOK
<1>2. CASE CallStarts(r)
    BY <1>1, <1>2 DEF CallStarts, S!StartPublic, S!StartProtected, S!Arrive
<1>3. CASE CallReads(r)
    BY <1>1, <1>3
       DEF CallReads, S!AuthHit, S!AuthRead, S!Throttle, S!Call, S!Login, S!Switch, S!Change,
           S!LogoutAll, S!Reset, S!Judge, S!LoginVerdict, S!Goto, S!Done
<1>4. CASE CallWrites(r)
    BY <1>1, <1>4
       DEF CallWrites, S!AuthFill, S!Forgot, S!ResetClaim, S!Bump, S!Invalidate, S!Sign, S!Judge,
           S!Goto, S!Done
<1> QED
    BY <1>2, <1>3, <1>4

LEMMA SessionsTypedInit ==
    ASSUME S!Init, MembershipAssumption, SessionsAssumption
    PROVE  SessionsTyped
<1>1. /\ TTL \in Nat /\ Life \in Nat /\ LinkLife \in Nat /\ MaxNow \in Nat /\ MaxCalls \in Nat
    BY SessionsAssumption DEF SessionsAssumption
<1>2. 0 \in S!Times /\ 0 \in S!Versions /\ 0 \in S!Passwords /\ 0 + Life \in S!Times
    BY <1>1 DEF S!Times, S!Versions, S!Passwords
<1>3. S!Idle \in S!Request /\ S!Cold \in S!Cached /\ S!Unsent \in S!LinkRow
      /\ tokens \subseteq S!Token /\ user \in S!UserRow
    BY <1>2 DEF S!Idle, S!Cold, S!Unsent, S!Request, S!Cached, S!LinkRow, S!None, S!Protected,
                S!Public, S!Init, S!Signed, S!Token, S!UserRow
<1>4. Ahead = {}
    BY DEF Ahead, S!Init, S!Idle
<1>5. Counted
    BY <1>4, FS_EmptySet DEF Counted, S!Init
<1> QED
    BY <1>1, <1>2, <1>3, <1>5 DEF SessionsTyped, S!TypeOK, S!Init

LEMMA SessionsTypedStep ==
    ASSUME SessionsTyped, [S!Next]_sessions, MembershipAssumption, SessionsAssumption
    PROVE  SessionsTyped'
<1>1. CASE UNCHANGED sessions
    BY <1>1 DEF sessions, SessionsTyped, S!TypeOK, Counted, Ahead
<1>2. CASE S!Next
    BY <1>2, SessionCases, StartCallTyped, CallReadsTyped, SessionWritesTyped, BumpTyped,
       RestartTyped, ClockTyped DEF CallStarts, CallWrites
<1> QED
    BY <1>1, <1>2

-----------------------------------------------------------------------------
(* Passwords.                                                               *)

(* A login goes straight from the row it reads to the token it signs; only  *)
(* a reset has a link.                                                      *)
Routed(q) ==
    /\ q.kind = "login" => q.pc \in {"idle", "handle", "sign"}
    /\ q.kind = "reset" <=> q.link \in Links

LoginRests(t) == t.via = "login" => t.tv <= user.tv /\ (t.tv = user.tv => t.proof = user.pw)

LoginRead(q) ==
    q.kind = "login" /\ q.pc = "sign" =>
        q.seen <= user.tv /\ (q.seen = user.tv => q.pw = user.pw)

LoginInv ==
    /\ \A r \in Requests : Routed(call[r]) /\ LoginRead(call[r])
    /\ \A t \in tokens : LoginRests(t)

LEMMA StepRouted ==
    ASSUME SessionsTyped, SessionsAssumption, NEW r \in Requests, Routed(call[r]),
           CallStarts(r) \/ CallReads(r) \/ CallWrites(r)
    PROVE  Routed(call'[r])
<1>1. call \in [Requests -> S!Request] /\ call[r] \in S!Request
    BY DEF SessionsTyped, S!TypeOK
<1>2. Routed(S!Idle)
    BY SessionsAssumption DEF Routed, S!Idle, S!None, SessionsAssumption
<1>3. CASE S!Done(r)
    BY <1>1, <1>2, <1>3 DEF S!Done
<1>4. CASE CallStarts(r)
    <2>2. PICK p, kind, tok, l, pw : /\ S!Arrive(r, kind, p, tok, l, pw)
                                     /\ kind = "reset" <=> l \in Links
        <3>1. CASE \E p \in Procs, kind \in S!Public : S!StartPublic(r, kind, p)
            BY <3>1, SessionsAssumption DEF S!StartPublic, S!None, SessionsAssumption
        <3>2. CASE \E p \in Procs, kind \in S!Protected : S!StartProtected(r, kind, p)
            BY <3>2, SessionsAssumption
               DEF S!StartProtected, S!None, S!Protected, SessionsAssumption
        <3> QED
            BY <1>4, <3>1, <3>2 DEF CallStarts
    <2>3. /\ call'[r].kind = kind /\ call'[r].link = l
          /\ kind = "login" => call'[r].pc = "handle"
        BY <1>1, <2>2 DEF S!Arrive, S!Public
    <2> QED
        BY <2>2, <2>3 DEF Routed
<1>5. CASE CallReads(r) /\ ~S!Done(r)
    BY <1>1, <1>5
       DEF CallReads, S!AuthHit, S!AuthRead, S!Throttle, S!Call, S!Login, S!Switch, S!Change,
           S!LogoutAll, S!Reset, S!Judge, S!LoginVerdict, S!Goto, S!At, Routed, S!Request
<1>6. CASE CallWrites(r) /\ ~S!Done(r)
    BY <1>1, <1>6
       DEF CallWrites, S!AuthFill, S!Forgot, S!ResetClaim, S!Bump, S!Invalidate, S!Sign, S!Judge,
           S!Goto, S!At, Routed, S!Request
<1> QED
    BY <1>3, <1>4, <1>5, <1>6

LEMMA LoginStep ==
    ASSUME SessionsTyped, LoginInv, SessionsAssumption, NEW r \in Requests,
           CallStarts(r) \/ CallReads(r) \/ CallWrites(r)
    PROVE  LoginInv'
<1>1. call \in [Requests -> S!Request] /\ call[r] \in S!Request
      /\ (\A s \in Requests : s # r => call'[s] = call[s])
    BY OthersStay DEF SessionsTyped, S!TypeOK
<1>2. \A s \in Requests : Routed(call'[s])
    BY <1>1, StepRouted DEF LoginInv
<1>3. user.tv \in Nat /\ (\A t \in tokens : t.tv \in Nat) /\ (\A s \in Requests : call[s].seen \in Nat)
    BY DEF SessionsTyped, S!TypeOK, S!UserRow, S!Versions, S!Token, S!Request
<1>4. CASE S!Bump(r)
    <2>1. user'.tv = user.tv + 1 /\ tokens' = tokens /\ call'[r].pc = "invalidate"
        BY <1>1, <1>4 DEF S!Bump
    <2> QED
        BY <1>1, <1>2, <1>3, <2>1 DEF LoginInv, LoginRests, LoginRead
<1>5. CASE S!Sign(r)
    <2>1. user' = user /\ call'[r] = S!Idle
        BY <1>1, <1>5 DEF S!Sign, S!Done
    <2>2. \A s \in Requests : LoginRead(call[s])'
        BY <1>1, <2>1 DEF LoginInv, LoginRead, S!Idle
    <2>3. \A t \in tokens' \ tokens : LoginRests(t)
        BY <1>5 DEF S!Sign, S!Signed, S!SignedVersion, S!Proof, S!At, LoginRests, LoginInv, LoginRead
    <2> QED
        BY <1>2, <2>1, <2>2, <2>3 DEF LoginInv, LoginRests, LoginRead
<1>6. CASE S!Login(r)
    <2>1. UNCHANGED <<user, tokens>>
        BY <1>6 DEF S!Login
    <2>2. call'[r].kind = "login" /\ call'[r].pc = "sign" => call'[r].seen = user.tv /\ call'[r].pw = user.pw
        BY <1>1, <1>6 DEF S!Login, S!LoginVerdict, S!Done, S!Idle, S!Request
    <2> QED
        BY <1>1, <1>2, <1>3, <2>1, <2>2 DEF LoginInv, LoginRests, LoginRead
<1>7. CASE ~S!Bump(r) /\ ~S!Sign(r) /\ ~S!Login(r)
    <2>1. UNCHANGED <<user, tokens>>
        BY <1>7
           DEF CallStarts, CallReads, CallWrites, S!StartPublic, S!StartProtected, S!AuthHit,
               S!AuthRead, S!Throttle, S!Call, S!Switch, S!Change, S!LogoutAll, S!Reset,
               S!AuthFill, S!Forgot, S!ResetClaim, S!Invalidate
    <2>2. call'[r].kind = "login" => call'[r].pc # "sign"
        <3>1. call'[r].pc = "sign" => S!Switch(r) \/ S!Invalidate(r)
            <4>1. CASE CallStarts(r)
                BY <1>1, <4>1 DEF CallStarts, S!StartPublic, S!StartProtected, S!Arrive
            <4>2. CASE CallReads(r)
                BY <1>1, <1>7, <4>2
                   DEF CallReads, S!AuthHit, S!AuthRead, S!Throttle, S!Call, S!Change,
                       S!LogoutAll, S!Reset, S!Judge, S!Goto, S!Done, S!Idle, S!At, S!Request
            <4>3. CASE CallWrites(r)
                BY <1>1, <1>7, <4>3
                   DEF CallWrites, S!AuthFill, S!Forgot, S!ResetClaim, S!Judge, S!Goto, S!Done,
                       S!Idle, S!Request
            <4> QED
                BY <4>1, <4>2, <4>3
        <3>2. S!Switch(r) \/ S!Invalidate(r) => call'[r].kind # "login" \/ call'[r].pc # "sign"
            BY <1>1 DEF S!Switch, S!Invalidate, S!Goto, S!Done, S!Idle, S!At, LoginInv, Routed,
                       S!Request
        <3> QED
            BY <3>1, <3>2
    <2> QED
        BY <1>1, <1>2, <2>1, <2>2 DEF LoginInv, LoginRests, LoginRead
<1> QED
    BY <1>4, <1>5, <1>6, <1>7

-----------------------------------------------------------------------------
(* Reset links.                                                             *)

(* A link is claimed by one request at most, which then changes the         *)
(* password once; an unclaimed one has changed nothing.                     *)
Claims(r, l) == call[r].pc = "bump" /\ call[r].link = l

LinkInv ==
    \A l \in Links :
        /\ spent[l] <= 1
        /\ \A r, s \in Requests : Claims(r, l) /\ Claims(s, l) => r = s
        /\ \A r \in Requests : Claims(r, l) => spent[l] = 0 /\ link[l].state = "used"
        /\ link[l].state # "used" => spent[l] = 0

LEMMA LinkStep ==
    ASSUME SessionsTyped, LoginInv, LinkInv, SessionsAssumption, NEW r \in Requests,
           CallStarts(r) \/ CallReads(r) \/ CallWrites(r)
    PROVE  LinkInv'
<1>1. /\ call \in [Requests -> S!Request] /\ call[r] \in S!Request
      /\ \A s \in Requests : s # r => call'[s] = call[s]
      /\ spent \in [Links -> Nat] /\ link \in [Links -> S!LinkRow]
    BY OthersStay DEF SessionsTyped, S!TypeOK
<1>2. CASE S!Bump(r)
    <2>1. \A l \in Links : spent'[l] = IF l = call[r].link THEN spent[l] + 1 ELSE spent[l]
        BY <1>2 DEF S!Bump
    <2>2. link' = link /\ call'[r].pc = "invalidate" /\ call[r].pc = "bump"
        BY <1>1, <1>2 DEF S!Bump, S!At
    <2> QED
        BY <1>1, <2>1, <2>2 DEF LinkInv, Claims
<1>3. CASE S!ResetClaim(r) /\ ~UNCHANGED link
    <2>1. call[r].link \in Links /\ link[call[r].link].state = "open"
        BY <1>3 DEF S!ResetClaim, S!At, LoginInv, Routed
    <2>2. /\ link' = [link EXCEPT ![call[r].link].state = "used"]
          /\ call'[r].pc = "bump" /\ call'[r].link = call[r].link /\ spent' = spent
        BY <1>1, <1>3 DEF S!ResetClaim, S!Goto, S!Request
    <2>3. \A l \in Links : link'[l].state = IF l = call[r].link THEN "used" ELSE link[l].state
        BY <1>1, <2>1, <2>2 DEF S!LinkRow
    <2> QED
        BY <1>1, <2>1, <2>2, <2>3 DEF LinkInv, Claims
<1>4. CASE S!Forgot(r)
    <2>1. \A l \in Links : link'[l] = link[l] \/ (link[l].state = "unsent" /\ link'[l].state = "open")
        BY <1>1, <1>4 DEF S!Forgot
    <2>2. spent' = spent /\ call'[r].pc = "idle"
        BY <1>1, <1>4 DEF S!Forgot, S!Done, S!Idle
    <2> QED
        BY <1>1, <2>1, <2>2 DEF LinkInv, Claims
<1>5. ASSUME UNCHANGED <<link, spent>>
      PROVE  LinkInv'
    <2>1. call'[r].pc = "bump" => S!Change(r) \/ S!LogoutAll(r) \/ (S!ResetClaim(r) /\ ~UNCHANGED link)
        <3>1. CASE CallStarts(r)
            BY <1>1, <3>1 DEF CallStarts, S!StartPublic, S!StartProtected, S!Arrive
        <3>2. CASE CallReads(r)
            BY <1>1, <3>2
               DEF CallReads, S!AuthHit, S!AuthRead, S!Throttle, S!Call, S!Login, S!LoginVerdict,
                   S!Switch, S!Reset, S!Judge, S!Goto, S!Done, S!Idle, S!At, S!Request
        <3>3. CASE CallWrites(r)
            <4>1. S!ResetClaim(r) /\ UNCHANGED link => S!Done(r)
                <5>1. S!ResetClaim(r) => call[r].link \in Links
                    BY DEF S!ResetClaim, S!At, LoginInv, Routed
                <5> QED
                    BY <1>1, <5>1 DEF S!ResetClaim, S!LinkRow
            <4>2. call'[r].pc = "bump" => S!ResetClaim(r) /\ ~S!Done(r)
                BY <1>1, <3>3
                   DEF CallWrites, S!AuthFill, S!Forgot, S!Bump, S!Invalidate, S!Sign, S!Judge,
                       S!Goto, S!Done, S!Idle, S!Request
            <4> QED
                BY <4>1, <4>2
        <3> QED
            BY <3>1, <3>2, <3>3
    <2>2. S!Change(r) \/ S!LogoutAll(r) => call'[r].link \notin Links \/ call'[r].pc # "bump"
        BY <1>1
           DEF S!Change, S!LogoutAll, S!Goto, S!Done, S!Idle, S!At, LoginInv, Routed, S!Request
    <2>3. CASE call'[r].pc # "bump" \/ call'[r].link \notin Links
        BY <1>1, <1>5, <2>3 DEF LinkInv, Claims
    <2> QED
        BY <1>3, <2>1, <2>2, <2>3
<1>6. S!Bump(r) \/ (S!ResetClaim(r) /\ ~UNCHANGED link) \/ S!Forgot(r) \/ UNCHANGED <<link, spent>>
    <2>1. CASE CallStarts(r)
        BY <2>1 DEF CallStarts, S!StartPublic, S!StartProtected
    <2>2. CASE CallReads(r)
        BY <2>2 DEF CallReads, S!AuthHit, S!AuthRead, S!Throttle, S!Call, S!Login, S!Switch,
                    S!Change, S!LogoutAll, S!Reset
    <2>3. CASE CallWrites(r)
        BY <2>3 DEF CallWrites, S!AuthFill, S!ResetClaim, S!Invalidate, S!Sign
    <2> QED
        BY <2>1, <2>2, <2>3
<1> QED
    BY <1>2, <1>3, <1>4, <1>5, <1>6

(* The clock and a restart only take tokens and requests away.              *)
LEMMA LossKeepsPasswords ==
    ASSUME SessionsTyped, LoginInv, LinkInv, SessionsAssumption,
           S!Tick \/ (\E p \in Procs : S!Restart(p)) \/ UNCHANGED sessions
    PROVE  LoginInv' /\ LinkInv'
<1>1. Routed(S!Idle)
    BY SessionsAssumption DEF Routed, S!Idle, S!None, SessionsAssumption
<1>2. \A r \in Requests : call'[r] = call[r] \/ call'[r] = S!Idle
    BY DEF S!Tick, S!Restart, sessions
<1>3. tokens' \subseteq tokens /\ UNCHANGED <<user, link, spent>>
    BY DEF S!Tick, S!Restart, sessions
<1>4. S!Idle.pc = "idle"
    BY DEF S!Idle
<1>5. LoginInv'
    BY <1>1, <1>2, <1>3, <1>4 DEF LoginInv, LoginRests, LoginRead
<1>6. LinkInv'
    BY <1>2, <1>3, <1>4 DEF LinkInv, Claims
<1> QED
    BY <1>5, <1>6

(* Every behaviour of the composition is one of Sessions, as far as its     *)
(* variables go.                                                            *)
LEMMA SessionsPart ==
    AccountsSpec => S!Init /\ [][S!Next]_sessions
<1>1. AccountsInit => S!Init
    BY DEF AccountsInit
<1>2. [AccountsNext]_<<vars, sessions, usage, part>> => [S!Next]_sessions
    BY DEF AccountsNext, SessionsNext, MembersNext, UsageNext
<1> QED
    BY <1>1, <1>2, PTL DEF AccountsSpec

(* A session that login opened, and that the database still honours, rests  *)
(* on the password in force, however a login, changes of password and       *)
(* resets overlap (routes/auth.ts), because login signs the version it read *)
(* with the password; and of all who carry a reset link one changes the     *)
(* password, because the claim is one conditional UPDATE.                   *)
THEOREM PasswordsKept == AccountsSpec => []PasswordsGuarded
<1>1. S!Init => LoginInv /\ LinkInv
    <2> SUFFICES ASSUME S!Init
                 PROVE  LoginInv /\ LinkInv
        OBVIOUS
    <2>1. Routed(S!Idle)
        BY SessionsAssumption DEF Routed, S!Idle, S!None, SessionsAssumption
    <2>2. LoginInv
        BY <2>1 DEF S!Init, S!Idle, S!Signed, LoginInv, LoginRests, LoginRead
    <2>3. LinkInv
        BY DEF S!Init, S!Idle, S!Unsent, LinkInv, Claims
    <2> QED
        BY <2>2, <2>3
<1>2. SessionsTyped /\ LoginInv /\ LinkInv /\ [S!Next]_sessions => LoginInv' /\ LinkInv'
    BY SessionCases, LoginStep, LinkStep, LossKeepsPasswords, SessionsAssumption
<1>3. LoginInv /\ LinkInv => PasswordsGuarded
    BY DEF LoginInv, LoginRests, LinkInv, PasswordsGuarded, S!LoginProvesPassword, S!ResetOnce
<1>4. S!Init => SessionsTyped
    BY SessionsTypedInit, MembershipAssumption, SessionsAssumption
<1>5. SessionsTyped /\ [S!Next]_sessions => SessionsTyped'
    BY SessionsTypedStep, MembershipAssumption, SessionsAssumption
<1> QED
    BY <1>1, <1>2, <1>3, <1>4, <1>5, SessionsPart, PTL

-----------------------------------------------------------------------------
(* Revocation.                                                              *)

(* A request runs in a process and began no longer ago than the latency; a  *)
(* version read from the database or kept in a cache was in force when it   *)
(* was read.                                                                *)
OnTime(q) ==
    q.pc # "idle" => q.proc \in Procs /\ q.began <= now /\ now <= q.began + Latency

ReadInForce(q) ==
    q.pc = "fill" => q.seen <= user.tv /\ (q.seen < user.tv => q.began <= bumpedAt[q.seen])

CachedInForce(c) ==
    /\ c.tv <= user.tv /\ c.until <= now + TTL
    /\ c.tv < user.tv => c.until <= bumpedAt[c.tv] + TTL + Latency

RevokeInv ==
    /\ \A r \in Requests : OnTime(call[r]) /\ ReadInForce(call[r])
    /\ \A p \in Procs : CachedInForce(cache[p])

LEMMA RevokeNumbers ==
    ASSUME SessionsTyped, SessionsAssumption
    PROVE  /\ now \in Nat /\ user.tv \in S!Versions /\ user.tv \in Nat
           /\ TTL \in Nat \ {0} /\ Latency \in Nat
           /\ \A v \in S!Versions : v \in Nat /\ bumpedAt[v] \in Nat
           /\ \A r \in Requests : /\ call[r].seen \in S!Versions /\ call[r].seen \in Nat
                                  /\ call[r].began \in Nat
           /\ \A p \in Procs : /\ cache[p].tv \in S!Versions /\ cache[p].tv \in Nat
                               /\ cache[p].until \in Nat
<1>1. /\ \A t \in S!Times : t \in Nat
      /\ \A v \in S!Versions : v \in Nat
    BY SessionsAssumption DEF SessionsAssumption, S!Times, S!Versions
<1>2. now \in Nat /\ TTL \in Nat \ {0} /\ Latency \in Nat
    BY SessionsAssumption DEF SessionsAssumption, SessionsTyped, S!TypeOK
<1>3. user.tv \in S!Versions
    BY DEF SessionsTyped, S!TypeOK, S!UserRow
<1>4. \A v \in S!Versions : bumpedAt[v] \in S!Times
    BY DEF SessionsTyped, S!TypeOK
<1>5. \A r \in Requests : call[r].seen \in S!Versions /\ call[r].began \in S!Times
    BY DEF SessionsTyped, S!TypeOK, S!Request
<1>6. \A p \in Procs : cache[p].tv \in S!Versions /\ cache[p].until \in S!Times
    BY DEF SessionsTyped, S!TypeOK, S!Cached
<1> QED
    BY <1>1, <1>2, <1>3, <1>4, <1>5, <1>6

LEMMA RevokeStep ==
    ASSUME SessionsTyped, RevokeInv, SessionsAssumption, MembershipAssumption,
           NEW r \in Requests, CallStarts(r) \/ CallReads(r) \/ CallWrites(r)
    PROVE  RevokeInv'
<1>1. /\ call \in [Requests -> S!Request] /\ call[r] \in S!Request
      /\ \A s \in Requests : s # r => call'[s] = call[s]
      /\ cache \in [Procs -> S!Cached] /\ bumpedAt \in [S!Versions -> S!Times]
    BY OthersStay DEF SessionsTyped, S!TypeOK
<1>2. /\ now \in Nat /\ user.tv \in S!Versions /\ user.tv \in Nat
      /\ TTL \in Nat \ {0} /\ Latency \in Nat
      /\ \A v \in S!Versions : v \in Nat /\ bumpedAt[v] \in Nat
      /\ \A s \in Requests : /\ call[s].seen \in S!Versions /\ call[s].seen \in Nat
                             /\ call[s].began \in Nat
      /\ \A p \in Procs : /\ cache[p].tv \in S!Versions /\ cache[p].tv \in Nat
                          /\ cache[p].until \in Nat
    BY RevokeNumbers, SessionsAssumption
<1>3. now' = now
    <2>1. CASE CallStarts(r)
        BY <2>1 DEF CallStarts, S!StartPublic, S!StartProtected
    <2>2. CASE CallReads(r)
        BY <2>2 DEF CallReads, S!AuthHit, S!AuthRead, S!Throttle, S!Call, S!Login, S!Switch,
                    S!Change, S!LogoutAll, S!Reset
    <2>3. CASE CallWrites(r)
        BY <2>3 DEF CallWrites, S!AuthFill, S!Forgot, S!ResetClaim, S!Bump, S!Invalidate, S!Sign
    <2> QED
        BY <2>1, <2>2, <2>3
<1>4. OnTime(call[r])'
    <2>1. CASE CallStarts(r)
        BY <1>1, <1>2, <1>3, <2>1
           DEF CallStarts, S!StartPublic, S!StartProtected, S!Arrive, OnTime
    <2>2. \/ call'[r].pc = "idle" \/ CallStarts(r)
          \/ /\ call'[r].began = call[r].began /\ call'[r].proc = call[r].proc
             /\ call[r].pc # "idle"
        <3>1. CASE CallReads(r)
            BY <1>1, <3>1
               DEF CallReads, S!AuthHit, S!AuthRead, S!Throttle, S!Call, S!Login, S!LoginVerdict,
                   S!Switch, S!Change, S!LogoutAll, S!Reset, S!Judge, S!Goto, S!Done, S!Idle,
                   S!At, S!Request
        <3>2. CASE CallWrites(r)
            BY <1>1, <3>2
               DEF CallWrites, S!AuthFill, S!Forgot, S!ResetClaim, S!Bump, S!Invalidate, S!Sign,
                   S!Judge, S!Goto, S!Done, S!Idle, S!At, S!Request
        <3> QED
            BY <3>1, <3>2
    <2> QED
        BY <1>2, <1>3, <2>1, <2>2 DEF OnTime, RevokeInv
<1>5. CASE S!Bump(r)
    <2>1. /\ user'.tv = user.tv + 1 /\ cache' = cache /\ call'[r].pc = "invalidate"
          /\ bumpedAt' = [bumpedAt EXCEPT ![user.tv] = now]
        BY <1>1, <1>5 DEF S!Bump
    <2>2. \A v \in S!Versions : bumpedAt'[v] = IF v = user.tv THEN now ELSE bumpedAt[v]
        BY <1>1, <2>1
    <2>3. \A s \in Requests : ReadInForce(call[s])'
        BY <1>1, <1>2, <2>1, <2>2 DEF RevokeInv, ReadInForce, OnTime
    <2>4. \A p \in Procs : CachedInForce(cache[p])'
        BY <1>2, <1>3, <2>1, <2>2 DEF RevokeInv, CachedInForce
    <2>5. \A s \in Requests : OnTime(call[s])'
        BY <1>1, <1>3, <1>4 DEF RevokeInv, OnTime
    <2> QED
        BY <2>3, <2>4, <2>5 DEF RevokeInv
<1>6. CASE S!AuthFill(r)
    <2>1. /\ UNCHANGED <<user, bumpedAt>> /\ call'[r].pc \in {"handle", "idle"}
          /\ call[r].pc = "fill"
          /\ cache' = [cache EXCEPT ![call[r].proc] = [tv |-> call[r].seen, until |-> now + TTL]]
        BY <1>1, <1>6 DEF S!AuthFill, S!Judge, S!Done, S!Idle, S!At, S!Request
    <2>2. \A s \in Requests : ReadInForce(call[s])' /\ OnTime(call[s])'
        BY <1>1, <1>3, <1>4, <2>1 DEF RevokeInv, ReadInForce, OnTime
    <2>3. CachedInForce([tv |-> call[r].seen, until |-> now + TTL])
        BY <1>1, <1>2, <2>1 DEF RevokeInv, OnTime, ReadInForce, CachedInForce
    <2>4. \A p \in Procs : cache'[p] = cache[p] \/ cache'[p] = [tv |-> call[r].seen, until |-> now + TTL]
        BY <1>1, <2>1
    <2>5. \A p \in Procs : CachedInForce(cache'[p])
        BY <2>3, <2>4 DEF RevokeInv
    <2> QED
        BY <1>3, <2>1, <2>2, <2>5 DEF RevokeInv, CachedInForce
<1>7. CASE S!Invalidate(r)
    <2>1. /\ UNCHANGED <<user, bumpedAt>> /\ call'[r].pc = "sign"
          /\ \A p \in Procs : cache'[p] = cache[p] \/ cache'[p] = S!Cold
        BY <1>1, <1>7 DEF S!Invalidate, S!Goto, S!Request
    <2>2. CachedInForce(S!Cold)
        <3>1. 0 \in S!Versions
            BY SessionsAssumption DEF SessionsAssumption, S!Versions
        <3>2. bumpedAt[0] \in Nat
            BY <1>2, <3>1
        <3> QED
            BY <1>2, <3>2 DEF CachedInForce, S!Cold
    <2>3. \A p \in Procs : CachedInForce(cache'[p])
        BY <2>1, <2>2 DEF RevokeInv
    <2> QED
        BY <1>1, <1>3, <1>4, <2>1, <2>3 DEF RevokeInv, ReadInForce, OnTime, CachedInForce
<1>8. CASE UNCHANGED <<user, bumpedAt, cache>>
    <2>1. call'[r].pc = "fill" => call'[r].seen = user.tv
        <3>1. CASE CallStarts(r)
            BY <1>1, <3>1 DEF CallStarts, S!StartPublic, S!StartProtected, S!Arrive
        <3>2. CASE CallReads(r)
            BY <1>1, <3>2
               DEF CallReads, S!AuthHit, S!AuthRead, S!Throttle, S!Call, S!Login, S!LoginVerdict,
                   S!Switch, S!Change, S!LogoutAll, S!Reset, S!Judge, S!Goto, S!Done, S!Idle,
                   S!At, S!Request
        <3>3. CASE CallWrites(r)
            BY <1>1, <3>3
               DEF CallWrites, S!AuthFill, S!Forgot, S!ResetClaim, S!Bump, S!Invalidate, S!Sign,
                   S!Judge, S!Goto, S!Done, S!Idle, S!Request
        <3> QED
            BY <3>1, <3>2, <3>3
    <2>2. ReadInForce(call[r])'
        BY <1>2, <1>8, <2>1 DEF ReadInForce
    <2> QED
        BY <1>1, <1>3, <1>4, <1>8, <2>2 DEF RevokeInv, ReadInForce, OnTime, CachedInForce
<1>9. S!Bump(r) \/ S!AuthFill(r) \/ S!Invalidate(r) \/ UNCHANGED <<user, bumpedAt, cache>>
    <2>1. CASE CallStarts(r)
        BY <2>1 DEF CallStarts, S!StartPublic, S!StartProtected
    <2>2. CASE CallReads(r)
        BY <2>2 DEF CallReads, S!AuthHit, S!AuthRead, S!Throttle, S!Call, S!Login, S!Switch,
                    S!Change, S!LogoutAll, S!Reset
    <2>3. CASE CallWrites(r)
        BY <2>3 DEF CallWrites, S!Forgot, S!ResetClaim, S!Sign
    <2> QED
        BY <2>1, <2>2, <2>3
<1> QED
    BY <1>5, <1>6, <1>7, <1>8, <1>9

LEMMA LossKeepsRevoked ==
    ASSUME SessionsTyped, RevokeInv, SessionsAssumption,
           S!Tick \/ (\E p \in Procs : S!Restart(p)) \/ UNCHANGED sessions
    PROVE  RevokeInv'
<1>1. /\ now \in Nat /\ TTL \in Nat \ {0} /\ Latency \in Nat
      /\ \A r \in Requests : call[r].began \in Nat
      /\ \A p \in Procs : cache[p].tv \in Nat /\ cache[p].until \in Nat
    BY RevokeNumbers
<1>2. CASE S!Tick
    <2>1. now' = now + 1 /\ UNCHANGED <<user, bumpedAt, cache, call>>
        BY <1>2 DEF S!Tick
    <2>2. \A r \in Requests : OnTime(call[r])'
        BY <1>1, <1>2, <2>1 DEF S!Tick, S!At, RevokeInv, OnTime
    <2>3. \A p \in Procs : CachedInForce(cache[p])'
        BY <1>1, <2>1 DEF RevokeInv, CachedInForce
    <2> QED
        BY <2>1, <2>2, <2>3 DEF RevokeInv, ReadInForce
<1>3. ASSUME NEW p \in Procs, S!Restart(p)
      PROVE  RevokeInv'
    <2>1. /\ UNCHANGED <<now, user, bumpedAt>>
          /\ \A r \in Requests : call'[r] = call[r] \/ call'[r] = S!Idle
          /\ \A x \in Procs : cache'[x] = cache[x] \/ cache'[x] = S!Cold
        BY <1>3 DEF S!Restart, SessionsTyped, S!TypeOK
    <2>2. CachedInForce(S!Cold)
        <3>1. 0 \in S!Versions
            BY SessionsAssumption DEF SessionsAssumption, S!Versions
        <3>2. bumpedAt[0] \in Nat /\ user.tv \in Nat
            BY <3>1, RevokeNumbers
        <3> QED
            BY <1>1, <3>2 DEF CachedInForce, S!Cold
    <2>3. \A x \in Procs : CachedInForce(cache'[x])
        BY <2>1, <2>2 DEF RevokeInv
    <2>4. \A r \in Requests : OnTime(call'[r]) /\ ReadInForce(call'[r])
        BY <2>1 DEF RevokeInv, OnTime, ReadInForce, S!Idle
    <2> QED
        BY <2>1, <2>3, <2>4 DEF RevokeInv, OnTime, ReadInForce, CachedInForce
<1>4. CASE UNCHANGED sessions
    BY <1>4 DEF sessions, RevokeInv, OnTime, ReadInForce, CachedInForce
<1> QED
    BY <1>2, <1>3, <1>4

(* Who lets a request in has the version of its token from a cache entry    *)
(* that is still good, or from a read that just came back.                  *)
LEMMA LetInInTime ==
    ASSUME SessionsTyped, RevokeInv, SessionsAssumption, [S!Next]_sessions
    PROVE  S!FadesInTime
<1> SUFFICES ASSUME NEW r \in Requests, S!LetIn(r), call[r].tok.tv # user.tv
             PROVE  now < bumpedAt[call[r].tok.tv] + TTL + Latency
    BY DEF S!FadesInTime
<1>1. /\ call[r].pc \in {"auth", "fill"} /\ call'[r].pc = "handle"
      /\ call \in [Requests -> S!Request] /\ call[r] \in S!Request
    BY DEF S!LetIn, SessionsTyped, S!TypeOK
<1>2. /\ now \in Nat /\ user.tv \in Nat /\ TTL \in Nat \ {0} /\ Latency \in Nat
      /\ \A v \in S!Versions : v \in Nat /\ bumpedAt[v] \in Nat
      /\ call[r].seen \in S!Versions /\ call[r].began \in Nat
      /\ \A p \in Procs : cache[p].tv \in S!Versions /\ cache[p].until \in Nat
    BY RevokeNumbers
<1>3. S!AuthHit(r) \/ S!AuthFill(r)
    <2>1. ~UNCHANGED sessions /\ ~S!Tick
        BY <1>1 DEF sessions, S!Tick
    <2>2. ASSUME NEW p \in Procs, S!Restart(p)
          PROVE  FALSE
        BY <1>1, <2>2 DEF S!Restart, S!Idle
    <2>3. ASSUME NEW s \in Requests, CallStarts(s) \/ CallReads(s) \/ CallWrites(s)
          PROVE  s = r
        BY <1>1, <2>3, OthersStay
    <2>4. ~CallStarts(r)
        BY <1>1 DEF CallStarts, S!StartPublic, S!StartProtected, S!Arrive, S!At
    <2>5. CallReads(r) => S!AuthHit(r)
        BY <1>1 DEF CallReads, S!AuthRead, S!Throttle, S!Call, S!Login, S!Switch, S!Change,
                    S!LogoutAll, S!Reset, S!At, S!Request
    <2>6. CallWrites(r) => S!AuthFill(r)
        BY <1>1 DEF CallWrites, S!Forgot, S!ResetClaim, S!Bump, S!Invalidate, S!Sign, S!At
    <2> QED
        BY <2>1, <2>2, <2>3, <2>4, <2>5, <2>6, SessionCases
<1>4. CASE S!AuthHit(r)
    <2>1. /\ cache[call[r].proc].until > now /\ S!Judge(r, cache[call[r].proc].tv)
        BY <1>4 DEF S!AuthHit
    <2>2. cache[call[r].proc].tv = call[r].tok.tv
        BY <1>1, <2>1 DEF S!Judge, S!Done, S!Idle
    <2>3. call[r].proc \in Procs
        BY <1>1 DEF RevokeInv, OnTime
    <2>4. CachedInForce(cache[call[r].proc])
        BY <2>3 DEF RevokeInv
    <2> QED
        BY <1>2, <2>1, <2>2, <2>3, <2>4 DEF CachedInForce
<1>5. CASE S!AuthFill(r)
    <2>1. call[r].pc = "fill" /\ S!Judge(r, call[r].seen)
        BY <1>5 DEF S!AuthFill, S!At
    <2>2. call[r].seen = call[r].tok.tv
        BY <1>1, <2>1 DEF S!Judge, S!Done, S!Idle
    <2>3. OnTime(call[r]) /\ ReadInForce(call[r])
        BY DEF RevokeInv
    <2> QED
        BY <1>2, <2>1, <2>2, <2>3 DEF OnTime, ReadInForce
<1> QED
    BY <1>3, <1>4, <1>5

(* A revoked token is let in no later than one cache lifetime, and the      *)
(* latency of the read that filled the cache, after its revocation, in      *)
(* every process and whatever the read of the version raced                 *)
(* (currentTokenVersion and invalidateTokenVersion in middleware/auth.ts).  *)
THEOREM RevokedTokensFade == AccountsSpec => RevokedFades
<1>1. S!Init => RevokeInv
    <2> SUFFICES ASSUME S!Init
                 PROVE  RevokeInv
        OBVIOUS
    <2>1. TTL \in Nat /\ Latency \in Nat
        BY SessionsAssumption DEF SessionsAssumption
    <2> QED
        BY <2>1 DEF S!Init, S!Idle, S!Cold, RevokeInv, OnTime, ReadInForce, CachedInForce
<1>2. SessionsTyped /\ RevokeInv /\ [S!Next]_sessions => RevokeInv'
    BY SessionCases, RevokeStep, LossKeepsRevoked, SessionsAssumption, MembershipAssumption
<1>3. SessionsTyped /\ RevokeInv /\ [S!Next]_sessions => [S!FadesInTime]_sessions
    BY LetInInTime, SessionsAssumption
<1>4. S!Init => SessionsTyped
    BY SessionsTypedInit, MembershipAssumption, SessionsAssumption
<1>5. SessionsTyped /\ [S!Next]_sessions => SessionsTyped'
    BY SessionsTypedStep, MembershipAssumption, SessionsAssumption
<1> QED
    BY <1>1, <1>2, <1>3, <1>4, <1>5, SessionsPart, PTL DEF RevokedFades

-----------------------------------------------------------------------------
(* Usage.                                                                   *)

Begun(v) == video[v].status \notin {"none", "creating"}

(* A slot at work has a video whose length is known, for good.              *)
Attended == \A w \in Slots : slot[w].pc # "idle" => slot[w].video \in Videos /\ Begun(slot[w].video)

UsageTyped == U!TypeOK /\ Attended

LEMMA LengthsAreNumbers ==
    ASSUME UsageAssumption, NEW l \in Lengths \cup {0}
    PROVE  l \in Nat
<1>1. Lengths \subseteq Nat
    BY DEF UsageAssumption
<1> QED
    BY <1>1

LEMMA VideosStay ==
    ASSUME UsageTyped, UsageAssumption, U!Next
    PROVE  /\ video' \in [Videos -> [status : U!Statuses, length : Lengths \cup {0}, bytes : Nat,
                                     delivered : 0 .. MaxDeliveries]]
           /\ \A v \in Videos : Begun(v) => Begun(v)' /\ video'[v].length = video[v].length
<1> DEFINE Row == [status : U!Statuses, length : Lengths \cup {0}, bytes : Nat,
                   delivered : 0 .. MaxDeliveries]
           Keeps == /\ video' \in [Videos -> Row]
                    /\ \A v \in Videos : Begun(v) => Begun(v)' /\ video'[v].length = video[v].length
<1>1. video \in [Videos -> Row] /\ MaxDeliveries \in Nat /\ \A l \in Lengths : l \in Nat
    BY UsageAssumption DEF UsageAssumption, UsageTyped, U!TypeOK
<1>2. ASSUME NEW v \in Videos, NEW q \in Row, video' = [video EXCEPT ![v] = q],
             Begun(v) => q.status \notin {"none", "creating"} /\ q.length = video[v].length
      PROVE  Keeps
    BY <1>1, <1>2 DEF Begun
<1>3. ASSUME NEW v \in Videos, NEW from, NEW to \in U!Statuses \ {"none"}, U!Status(v, from, to),
             to = "creating" => from = {"none"}
      PROVE  Keeps
    <2> DEFINE q == [video[v] EXCEPT !.status = to]
    <2>1. q \in Row /\ q.status = to /\ q.length = video[v].length
        BY <1>1 DEF U!Statuses
    <2>2. video' = [video EXCEPT ![v] = q] /\ video[v].status \in from
        BY <1>3 DEF U!Status
    <2> HIDE DEF q
    <2> QED
        BY <1>2, <1>3, <2>1, <2>2 DEF Begun
<1>4. ASSUME NEW v \in Videos, U!Api(v)
      PROVE  Keeps
    <2>1. CASE U!Insert(v)
        <3>1. PICK len \in Lengths :
                video' = [video EXCEPT ![v].status = "uploaded", ![v].length = len]
            BY <2>1 DEF U!Insert
        <3> DEFINE q == [video[v] EXCEPT !.status = "uploaded", !.length = len]
        <3>2. q \in Row
            BY <1>1 DEF U!Statuses
        <3>3. video' = [video EXCEPT ![v] = q] /\ ~Begun(v)
            BY <2>1, <3>1 DEF U!Insert, Begun
        <3> HIDE DEF q
        <3> QED
            BY <1>2, <3>2, <3>3
    <2> QED
        BY <1>3, <1>4, <2>1
           DEF U!Api, U!Create, U!Process, U!Enqueue, U!Delete, U!Statuses
<1>5. ASSUME NEW w \in Slots, U!Worker(w)
      PROVE  Keeps
    <2>1. ASSUME NEW v \in Videos, U!Take(w, v)
          PROVE  Keeps
        <3> DEFINE q == [video[v] EXCEPT !.status = "processing", !.delivered = @ + 1]
        <3>1. q \in Row
            <4>1. video[v].delivered + 1 \in 0 .. MaxDeliveries
                BY <1>1, <2>1 DEF U!Take
            <4> QED
                BY <1>1, <4>1 DEF U!Statuses
        <3>2. video' = [video EXCEPT ![v] = q]
            BY <2>1 DEF U!Take
        <3>3. q.status = "processing" /\ q.length = video[v].length
            BY <1>1
        <3> HIDE DEF q
        <3> QED
            BY <1>2, <3>1, <3>2, <3>3
    <2>2. CASE slot[w].pc # "idle"
        <3>1. U!Works(w) \in Videos /\ U!Works(w) \in DOMAIN video
            BY <1>1, <2>2 DEF UsageTyped, Attended, U!Works
        <3> DEFINE old == video[U!Works(w)]
        <3>2. old \in Row
            BY <1>1, <3>1
        <3>7. 2 * old.length \in Nat /\ 2 * old.length + 1 \in Nat
            <4>1. old.length \in Lengths \cup {0}
                BY <3>2
            <4> HIDE DEF old, Row
            <4>2. old.length \in Nat
                BY <4>1, LengthsAreNumbers
            <4> QED
                BY <4>2
        <3>3. CASE U!Refused(w) \/ (U!Fail(w) /\ video' # video)
            <4>1. video' = [video EXCEPT ![U!Works(w)] = [old EXCEPT !.status = "error"]]
                BY <3>1, <3>3 DEF U!Refused, U!Fail
            <4>2. [old EXCEPT !.status = "error"] \in Row
                BY <3>2 DEF U!Statuses
            <4>3. [old EXCEPT !.status = "error"].status = "error"
                  /\ [old EXCEPT !.status = "error"].length = old.length
                BY <3>2
            <4> HIDE DEF old, Row
            <4> QED
                BY <1>2, <3>1, <4>1, <4>2, <4>3 DEF old
        <3>4. CASE U!Ready(w)
            <4> DEFINE q == [old EXCEPT !.status = "ready", !.bytes = 2 * old.length]
            <4>1. q \in Row
                <5> HIDE DEF old
                <5> QED
                    BY <3>2, <3>7 DEF U!Statuses
            <4>2. q.status = "ready" /\ q.length = old.length
                BY <3>2
            <4>3. video' = [video EXCEPT ![U!Works(w)] = q]
                BY <3>1, <3>4 DEF U!Ready
            <4> HIDE DEF q, Row
            <4> QED
                BY <1>2, <3>1, <4>1, <4>2, <4>3 DEF old
        <3>5. CASE U!Transcribe(w) /\ video' # video
            <4> DEFINE q == [old EXCEPT !.bytes = 2 * old.length + 1]
            <4>1. q \in Row
                <5> HIDE DEF old
                <5> QED
                    BY <3>2, <3>7 DEF U!Statuses
            <4>2. q.status = old.status /\ q.length = old.length
                BY <3>2
            <4>3. video' = [video EXCEPT ![U!Works(w)] = q]
                BY <3>1, <3>5 DEF U!Transcribe
            <4> HIDE DEF q, Row
            <4> QED
                BY <1>2, <3>1, <4>1, <4>2, <4>3 DEF old, Begun
        <3>6. CASE video' = video
            BY <1>1, <3>6 DEF Begun
        <3> QED
            BY <1>5, <2>1, <3>3, <3>4, <3>5, <3>6
               DEF U!Worker, U!Admitted, U!Count, U!AiQuota, U!AiCount, U!Crash
    <2> QED
        BY <1>5, <2>1, <2>2
           DEF U!Worker, U!Refused, U!Admitted, U!Ready, U!Fail, U!Count, U!AiQuota, U!Transcribe,
               U!AiCount, U!Crash, U!Step
<1>6. CASE U!NextMonth
    BY <1>1, <1>6 DEF U!NextMonth, Begun
<1> QED
    BY <1>4, <1>5, <1>6 DEF U!Next

(* Of the slots one moves, and the minutes count for the month alone.       *)
LEMMA SlotMoves ==
    ASSUME UsageTyped, NEW w \in Slots, U!Worker(w)
    PROVE  /\ slot' \in [Slots -> [pc : U!Pcs, video : Videos \cup {U!NoVideo}]]
           /\ \A x \in Slots : x # w => slot'[x] = slot[x]
           /\ slot'[w].pc # "idle" => \/ slot[w].pc # "idle" /\ slot'[w].video = slot[w].video
                                      \/ \E v \in Videos : U!Take(w, v) /\ slot'[w].video = v
           /\ month' = month
<1> DEFINE Job == [pc : U!Pcs, video : Videos \cup {U!NoVideo}]
<1>1. slot \in [Slots -> Job]
    BY DEF UsageTyped, U!TypeOK
<1>2. U!Free \in Job /\ U!Free.pc = "idle"
    BY DEF U!Free, U!Pcs
<1>3. ASSUME NEW from, NEW to \in U!Pcs, from # "idle", U!Step(w, from, to), month' = month
      PROVE  /\ slot' \in [Slots -> Job]
             /\ \A x \in Slots : x # w => slot'[x] = slot[x]
             /\ slot'[w].pc # "idle" => slot[w].pc # "idle" /\ slot'[w].video = slot[w].video
             /\ month' = month
    <2>1. CASE to = "idle"
        BY <1>1, <1>2, <1>3, <2>1 DEF U!Step
    <2>2. CASE to # "idle"
        <3> DEFINE q == [slot[w] EXCEPT !.pc = to]
        <3>1. q \in Job /\ q.video = slot[w].video
            BY <1>1
        <3>2. slot' = [slot EXCEPT ![w] = q] /\ slot[w].pc # "idle"
            BY <1>3, <2>2 DEF U!Step
        <3> HIDE DEF q, Job
        <3> QED
            BY <1>1, <1>3, <3>1, <3>2
    <2> QED
        BY <2>1, <2>2
<1>4. ASSUME NEW v \in Videos, U!Take(w, v)
      PROVE  /\ slot' \in [Slots -> Job]
             /\ \A x \in Slots : x # w => slot'[x] = slot[x]
             /\ slot'[w].video = v
             /\ month' = month
    BY <1>1, <1>4 DEF U!Take, U!Pcs
<1>5. CASE U!Crash(w)
    BY <1>1, <1>2, <1>5 DEF U!Crash
<1>6. {"idle", "encode", "count", "aiQuota", "ai", "aiCount"} \subseteq U!Pcs
    BY DEF U!Pcs
<1> HIDE DEF Job
<1> QED
    BY <1>3, <1>4, <1>5, <1>6
       DEF U!Worker, U!Refused, U!Admitted, U!Ready, U!Fail, U!Count, U!AiQuota, U!Transcribe,
           U!AiCount, Job

LEMMA RecordTyped ==
    ASSUME UsageTyped, UsageAssumption, NEW w \in Slots, slot[w].pc # "idle",
           NEW c \in U!Counters, U!RecordUsage(w, c), minutes = used
    PROVE  /\ used' \in [U!Months -> [U!Counters -> Nat]] /\ minutes' = used'
           /\ video[U!Works(w)].length \in Nat
           /\ \A m \in U!Months, d \in U!Counters :
                 m # month \/ d # c => minutes'[m][d] = minutes[m][d]
           /\ minutes'[month][c] \in {minutes[month][c],
                                      minutes[month][c] + video[U!Works(w)].length}
<1>1. /\ used \in [U!Months -> [U!Counters -> Nat]]
      /\ month \in U!Months
    BY DEF UsageTyped, U!TypeOK
<1>2. video[U!Works(w)].length \in Nat
    <2>1. U!Works(w) \in Videos
        BY DEF UsageTyped, Attended, U!Works
    <2>2. video[U!Works(w)].length \in Lengths \cup {0}
        BY <2>1 DEF UsageTyped, U!TypeOK
    <2> QED
        BY <2>2, LengthsAreNumbers
<1>3. CASE UNCHANGED <<used, minutes>>
    BY <1>1, <1>2, <1>3
<1>4. CASE ~UNCHANGED <<used, minutes>>
    <2> DEFINE len == video[U!Works(w)].length
    <2>1. used' = [used EXCEPT ![month][c] = @ + len]
          /\ minutes' = [minutes EXCEPT ![month][c] = @ + len]
        BY <1>4 DEF U!RecordUsage, U!Increment
    <2>2. len \in Nat
        BY <1>2
    <2> HIDE DEF len
    <2>3. used[month][c] + len \in Nat
        BY <1>1, <2>2
    <2>4. used' \in [U!Months -> [U!Counters -> Nat]] /\ minutes' = used'
        BY <1>1, <2>1, <2>3
    <2>5. /\ \A m \in U!Months, d \in U!Counters : m # month \/ d # c => used'[m][d] = used[m][d]
          /\ used'[month][c] = used[month][c] + len
        BY <1>1, <2>1
    <2> QED
        BY <1>2, <2>4, <2>5 DEF len
<1> QED
    BY <1>3, <1>4

(* What is paid for while it runs, and what the plan leaves for it.         *)
Paying(c) == IF c = "encoding" THEN {"encode", "count"} ELSE {"ai", "aiCount"}
Busy(c) == {w \in Slots : slot[w].pc \in Paying(c)}
Length(w) == video[U!Works(w)].length
Longest(c) == U!Longest(U!Limit[c])
Room(c) == U!Limit[c] + (Cardinality(Slots) - 1) * Longest(c)

(* A set of numbers below a limit has a largest, so that Longest is one.    *)
LEMMA LongestIsOne ==
    ASSUME UsageAssumption, NEW limit \in Nat
    PROVE  /\ U!Longest(limit) \in Nat /\ U!Longest(limit) <= limit
           /\ \A l \in Lengths : l <= limit => l <= U!Longest(limit)
<1> DEFINE Lower == {0} \cup {l \in Lengths : l <= limit}
           Gaps == {n \in Nat : limit - n \in Lower}
<1>1. \A s \in Lower : s \in Nat /\ s <= limit
    BY LengthsAreNumbers
<1>2. limit \in Gaps
    OBVIOUS
<1>3. PICK x \in Gaps : \A y \in Gaps : x <= y
    <2> DEFINE Less == {p \in Nat \X Nat : p[1] < p[2]}
    <2>1. IsWellFoundedOn(Less, Nat)
        BY NatLessThanWellFounded, Zenon DEF OpToRel
    <2> HIDE DEF Less
    <2>2. PICK x \in Gaps : \A y \in Gaps : <<y, x>> \notin Less
        BY <1>2, <2>1, WFMin
    <2>3. ASSUME NEW y \in Gaps
          PROVE  x <= y
        <3>1. <<y, x>> \notin Less /\ x \in Nat /\ y \in Nat
            BY <2>2
        <3> QED
            BY <3>1 DEF Less
    <2> QED
        BY <2>2, <2>3
<1>5. limit - x \in Lower /\ \A s \in Lower : limit - x >= s
    <2>1. ASSUME NEW s \in Lower
          PROVE  limit - s \in Gaps
        <3>1. s \in Nat /\ s <= limit
            BY <1>1
        <3>2. limit - (limit - s) = s /\ limit - s \in Nat
            BY <3>1
        <3> QED
            BY <3>2
    <2>2. ASSUME NEW s \in Lower
          PROVE  limit - x >= s
        <3>1. x <= limit - s
            BY <1>3, <2>1
        <3>2. x \in Nat /\ s \in Nat
            BY <1>1
        <3> HIDE DEF Lower, Gaps
        <3> QED
            BY <3>1, <3>2
    <2> QED
        BY <2>2
<1>6. U!Longest(limit) = U!Max(Lower)
    BY DEF U!Longest
<1>7. U!Max(Lower) \in Lower /\ \A s \in Lower : U!Max(Lower) >= s
    <2> HIDE DEF Lower, Gaps
    <2> QED
        BY <1>5 DEF U!Max
<1> QED
    BY <1>1, <1>6, <1>7

(* The sizes that the bound is made of, and its products.                   *)
LEMMA Sizes ==
    ASSUME UsageAssumption, NEW c \in U!Counters
    PROVE  /\ U!Limit[c] \in Nat /\ Longest(c) \in Nat
           /\ Cardinality(Slots) \in Nat \ {0}
           /\ \A l \in Lengths : l <= U!Limit[c] => l <= Longest(c)
           /\ IsFiniteSet(Busy(c)) /\ Cardinality(Busy(c)) \in 0 .. Cardinality(Slots)
<1>1. U!Limit[c] \in Nat
    BY DEF UsageAssumption, U!Limit, U!Counters
<1>2. Cardinality(Slots) \in Nat /\ Cardinality(Slots) # 0
    BY FS_CardinalityType, FS_EmptySet DEF UsageAssumption
<1>3. IsFiniteSet(Busy(c)) /\ Cardinality(Busy(c)) \in Nat
      /\ Cardinality(Busy(c)) <= Cardinality(Slots)
    BY Fewer DEF UsageAssumption, Busy
<1> QED
    BY <1>1, <1>2, <1>3, LongestIsOne DEF Longest

LEMMA Products ==
    ASSUME NEW n \in Nat, NEW m \in Nat, NEW l \in Nat
    PROVE  /\ n * l \in Nat /\ (n - 1) * l = n * l - l /\ (n - 2) * l = n * l - l - l
           /\ n <= m => n * l <= m * l
<1>1. n * l \in Nat /\ (n - 1) * l = n * l - l /\ (n - 2) * l = n * l - l - l
    OBVIOUS
<1>2. ASSUME n <= m
      PROVE  n * l <= m * l
    <2> DEFINE d == m - n
    <2>1. d \in Nat /\ m = n + d
        BY <1>2
    <2>2. d * l \in Nat /\ m * l = n * l + d * l
        <3> HIDE DEF d
        <3> QED
            BY <2>1
    <2>3. n * l \in Int
        OBVIOUS
    <2> HIDE DEF d
    <2> QED
        BY <2>2, <2>3
<1> QED
    BY <1>1, <1>2

LEMMA UsageTypedInit ==
    ASSUME U!Init, UsageAssumption
    PROVE  UsageTyped
<1>1. 0 \in U!Months /\ 0 \in 0 .. MaxDeliveries
    BY DEF UsageAssumption, U!Months
<1> QED
    BY <1>1
       DEF U!Init, UsageTyped, U!TypeOK, Attended, U!Unborn, U!Free, U!Statuses, U!Pcs

LEMMA UsageTypedStep ==
    ASSUME UsageTyped, minutes = used, [U!Next]_usage, UsageAssumption
    PROVE  UsageTyped' /\ minutes' = used'
<1>1. CASE UNCHANGED usage
    BY <1>1 DEF usage, UsageTyped, U!TypeOK, Attended, Begun
<1>2. CASE U!NextMonth
    <2>1. month' \in U!Months
        BY <1>2 DEF U!NextMonth, U!Months, UsageAssumption, UsageTyped, U!TypeOK
    <2> QED
        BY <1>2, <2>1 DEF U!NextMonth, UsageTyped, U!TypeOK, Attended, Begun
<1>3. ASSUME NEW v \in Videos, U!Api(v)
      PROVE  UsageTyped' /\ minutes' = used'
    <2>1. UNCHANGED <<month, used, slot, minutes>>
        BY <1>3 DEF U!Api, U!Create, U!Insert, U!Process, U!Enqueue, U!Delete, U!Status
    <2>2. U!Next
        BY <1>3 DEF U!Next
    <2> QED
        BY <2>1, <2>2, VideosStay DEF UsageTyped, U!TypeOK, Attended
<1>4. ASSUME NEW w \in Slots, U!Worker(w)
      PROVE  UsageTyped' /\ minutes' = used'
    <2>1. U!Next
        BY <1>4 DEF U!Next
    <2>2. /\ slot' \in [Slots -> [pc : U!Pcs, video : Videos \cup {U!NoVideo}]]
          /\ month' = month
        BY <1>4, SlotMoves
    <2>3. used' \in [U!Months -> [U!Counters -> Nat]] /\ minutes' = used'
        <3>1. CASE UNCHANGED <<used, minutes>>
            BY <3>1 DEF UsageTyped, U!TypeOK
        <3>2. CASE U!Count(w) \/ U!AiCount(w)
            <4>1. slot[w].pc # "idle" /\ \E c \in U!Counters : U!RecordUsage(w, c)
                BY <3>2 DEF U!Count, U!AiCount, U!Step, U!Counters
            <4> QED
                BY <4>1, RecordTyped
        <3> QED
            BY <1>4, <3>1, <3>2
               DEF U!Worker, U!Take, U!Refused, U!Admitted, U!Ready, U!Fail, U!AiQuota,
                   U!Transcribe, U!Crash
    <2>4. Attended'
        <3>1. ASSUME NEW x \in Slots, x # w, slot'[x].pc # "idle"
              PROVE  slot'[x].video \in Videos /\ Begun(slot[x].video)'
            <4>1. slot'[x] = slot[x]
                BY <1>4, <3>1, SlotMoves
            <4>2. slot[x].video \in Videos /\ Begun(slot[x].video)
                BY <3>1, <4>1 DEF UsageTyped, Attended
            <4> QED
                BY <2>1, <4>1, <4>2, VideosStay
        <3>2. ASSUME slot'[w].pc # "idle"
              PROVE  slot'[w].video \in Videos /\ Begun(slot[w].video)'
            <4>1. CASE slot[w].pc # "idle" /\ slot'[w].video = slot[w].video
                <5>1. slot[w].video \in Videos /\ Begun(slot[w].video)
                    BY <4>1 DEF UsageTyped, Attended
                <5> QED
                    BY <2>1, <4>1, <5>1, VideosStay
            <4>2. ASSUME NEW v \in Videos, U!Take(w, v), slot'[w].video = v
                  PROVE  slot'[w].video \in Videos /\ Begun(slot[w].video)'
                <5>1. Begun(v)
                    BY <4>2 DEF U!Take, Begun
                <5> QED
                    BY <2>1, <4>2, <5>1, VideosStay
            <4> QED
                BY <1>4, <3>2, <4>1, <4>2, SlotMoves
        <3>3. \A x \in Slots :
                slot'[x].pc # "idle" => slot'[x].video \in Videos /\ Begun(slot[x].video)'
            BY <3>1, <3>2
        <3> QED
            BY <3>3 DEF Attended, Begun
    <2> QED
        BY <2>1, <2>2, <2>3, <2>4, VideosStay DEF UsageTyped, U!TypeOK
<1> QED
    BY <1>1, <1>2, <1>3, <1>4 DEF U!Next

(* What a slot was admitted with is not yet in the counter that the next    *)
(* one is judged by: the last one admitted saw all that was counted, and    *)
(* each of the others still at work takes one video at most.                *)
InPlan(c) ==
    \/ minutes[month][c] + Cardinality(Busy(c)) * Longest(c) <= Room(c)
    \/ \E w \in Busy(c) :
         minutes[month][c] + Length(w) + (Cardinality(Busy(c)) - 1) * Longest(c) <= Room(c)

Fits(c) == \A w \in Busy(c) : Length(w) <= U!Limit[c]

Within(c) ==
    /\ InPlan(c) /\ Fits(c)
    /\ \A m \in U!Months : /\ m < month => minutes[m][c] <= Room(c)
                           /\ m > month => minutes[m][c] = 0

UsageInv == minutes = used /\ \A c \in U!Counters : Within(c)

(* A step of a worker, as one of the two counters sees it.                  *)
Same(w, c)   == slot[w].pc \in Paying(c) /\ slot'[w].pc \in Paying(c)
                /\ minutes'[month][c] = minutes[month][c]
Leaves(w, c) == slot[w].pc \in Paying(c) /\ slot'[w].pc \notin Paying(c)
                /\ minutes'[month][c] \in {minutes[month][c], minutes[month][c] + Length(w)}
Joins(w, c)  == slot[w].pc \notin Paying(c) /\ slot'[w].pc \in Paying(c) /\ slot[w].pc # "idle"
                /\ minutes'[month][c] = minutes[month][c]
                /\ minutes[month][c] + Length(w) <= U!Limit[c]
Bystands(w, c) == slot[w].pc \notin Paying(c) /\ slot'[w].pc \notin Paying(c)
                /\ minutes'[month][c] = minutes[month][c]

LEMMA WorkerMoves ==
    ASSUME UsageTyped, UsageAssumption, minutes = used, NEW w \in Slots, U!Worker(w),
           NEW c \in U!Counters
    PROVE  Same(w, c) \/ Leaves(w, c) \/ Joins(w, c) \/ Bystands(w, c)
<1>1. /\ slot \in [Slots -> [pc : U!Pcs, video : Videos \cup {U!NoVideo}]]
      /\ month \in U!Months /\ minutes[month][c] \in Nat /\ U!Limit[c] \in Nat
      /\ c \in {"encoding", "ai"}
    BY Sizes DEF UsageTyped, U!TypeOK, U!Counters
<1>2. slot[w].pc # "idle" => Length(w) \in Nat
    <2>1. ASSUME slot[w].pc # "idle"
          PROVE  video[U!Works(w)].length \in Lengths \cup {0}
        BY <2>1 DEF UsageTyped, U!TypeOK, Attended, U!Works
    <2> QED
        BY <2>1, LengthsAreNumbers DEF Length
<1>3. ASSUME NEW from, NEW to, U!Step(w, from, to)
      PROVE  slot[w].pc = from /\ slot'[w].pc = to
    BY <1>1, <1>3 DEF U!Step, U!Free
<1>4. CASE U!Count(w)
    <2>1. slot[w].pc = "count" /\ slot'[w].pc = "aiQuota" /\ U!RecordUsage(w, "encoding")
        BY <1>3, <1>4 DEF U!Count
    <2>2. /\ c # "encoding" => minutes'[month][c] = minutes[month][c]
          /\ c = "encoding" =>
                minutes'[month][c] \in {minutes[month][c], minutes[month][c] + Length(w)}
        BY <1>1, <2>1, RecordTyped DEF U!Counters, Length
    <2> QED
        BY <1>1, <2>1, <2>2 DEF Leaves, Bystands, Paying
<1>5. CASE U!AiCount(w)
    <2>1. slot[w].pc = "aiCount" /\ slot'[w].pc = "idle" /\ U!RecordUsage(w, "ai")
        BY <1>3, <1>5 DEF U!AiCount
    <2>2. /\ c # "ai" => minutes'[month][c] = minutes[month][c]
          /\ c = "ai" =>
                minutes'[month][c] \in {minutes[month][c], minutes[month][c] + Length(w)}
        BY <1>1, <2>1, RecordTyped DEF U!Counters, Length
    <2> QED
        BY <1>1, <2>1, <2>2 DEF Leaves, Bystands, Paying
<1>6. CASE U!Admitted(w)
    <2>1. slot[w].pc = "quota" /\ slot'[w].pc = "encode" /\ minutes' = minutes
        BY <1>3, <1>6 DEF U!Admitted
    <2>2. c = "encoding" => minutes[month][c] + Length(w) <= U!Limit[c]
        <3>1. ~(used[month]["encoding"] + Length(w) > U!Limit["encoding"])
            BY <1>6 DEF U!Admitted, U!WouldExceed, Length
        <3> QED
            BY <1>1, <1>2, <2>1, <3>1
    <2> QED
        BY <1>1, <2>1, <2>2 DEF Joins, Bystands, Paying
<1>7. CASE U!AiQuota(w)
    <2>1. /\ slot[w].pc = "aiQuota" /\ slot'[w].pc \in {"idle", "ai"} /\ minutes' = minutes
          /\ slot'[w].pc = "ai" => ~U!WouldExceed("ai", Length(w))
        BY <1>3, <1>7 DEF U!AiQuota, Length
    <2>2. c = "ai" /\ slot'[w].pc = "ai" => minutes[month][c] + Length(w) <= U!Limit[c]
        <3>1. slot'[w].pc = "ai" => ~(used[month]["ai"] + Length(w) > U!Limit["ai"])
            BY <2>1 DEF U!WouldExceed
        <3> QED
            BY <1>1, <1>2, <2>1, <3>1
    <2> QED
        BY <1>1, <2>1, <2>2 DEF Joins, Bystands, Paying
<1>8. CASE U!Crash(w)
    <2>1. slot'[w].pc = "idle" /\ minutes' = minutes
        BY <1>1, <1>8 DEF U!Crash, U!Free
    <2> QED
        BY <1>1, <2>1 DEF Leaves, Bystands, Paying
<1>9. CASE U!Ready(w) \/ U!Fail(w) \/ U!Transcribe(w) \/ U!Refused(w)
    <2>1. /\ minutes' = minutes
          /\ <<slot[w].pc, slot'[w].pc>> \in
               {<<"encode", "count">>, <<"encode", "idle">>, <<"ai", "aiCount">>, <<"ai", "idle">>,
                <<"quota", "idle">>}
        BY <1>3, <1>9 DEF U!Ready, U!Fail, U!Transcribe, U!Refused
    <2> QED
        BY <1>1, <2>1 DEF Leaves, Same, Bystands, Paying
<1>10. ASSUME NEW v \in Videos, U!Take(w, v)
       PROVE  Bystands(w, c)
    <2>1. slot[w].pc = "idle" /\ slot'[w].pc = "quota" /\ minutes' = minutes
        BY <1>1, <1>10 DEF U!Take
    <2> QED
        BY <1>1, <2>1 DEF Bystands, Paying
<1> QED
    BY <1>4, <1>5, <1>6, <1>7, <1>8, <1>9, <1>10 DEF U!Worker

(* Of the slots at work on a video none has its length change.              *)
LEMMA LengthsStay ==
    ASSUME UsageTyped, UsageAssumption, NEW w \in Slots, U!Worker(w)
    PROVE  /\ \A x \in Slots : slot[x].pc # "idle" /\ (slot'[x].pc # "idle") => Length(x)' = Length(x)
           /\ \A x \in Slots : slot[x].pc # "idle" => Length(x) \in Nat
<1>1. U!Next
    BY DEF U!Next
<1>2. ASSUME NEW x \in Slots, slot[x].pc # "idle", slot'[x].pc # "idle"
      PROVE  Length(x)' = Length(x)
    <2>1. slot[x].video \in Videos /\ Begun(slot[x].video)
        BY <1>2 DEF UsageTyped, Attended
    <2>2. slot'[x].video = slot[x].video
        <3>1. \A v \in Videos : U!Take(w, v) => slot[w].pc = "idle"
            BY DEF U!Take
        <3> QED
            BY <1>2, <3>1, SlotMoves
    <2> QED
        BY <1>1, <2>1, <2>2, VideosStay DEF Length, U!Works
<1>3. ASSUME NEW x \in Slots, slot[x].pc # "idle"
      PROVE  Length(x) \in Nat
    <2>1. video[U!Works(x)].length \in Lengths \cup {0}
        BY <1>3 DEF UsageTyped, U!TypeOK, Attended, U!Works
    <2> QED
        BY <2>1, LengthsAreNumbers DEF Length
<1> QED
    BY <1>2, <1>3

LEMMA BusyFits ==
    ASSUME UsageTyped, UsageAssumption, NEW c \in U!Counters, Fits(c), NEW w \in Busy(c)
    PROVE  Length(w) \in Nat /\ Length(w) <= Longest(c)
<1>1. w \in Slots /\ slot[w].pc # "idle" /\ Length(w) <= U!Limit[c]
    BY DEF Busy, Paying, Fits
<1>2. Length(w) \in Lengths \cup {0}
    BY <1>1 DEF UsageTyped, U!TypeOK, Attended, U!Works, Length
<1>3. Length(w) \in Nat
    BY <1>2, LengthsAreNumbers
<1>4. CASE Length(w) \in Lengths
    BY <1>1, <1>3, <1>4, Sizes
<1>5. CASE Length(w) = 0
    BY <1>5, Sizes
<1> QED
    BY <1>2, <1>3, <1>4, <1>5

LEMMA WorkerKeepsPlan ==
    ASSUME UsageTyped, UsageAssumption, UsageInv, NEW w \in Slots, U!Worker(w),
           NEW c \in U!Counters
    PROVE  InPlan(c)' /\ Fits(c)'
<1> DEFINE s == minutes[month][c]
           n == Cardinality(Busy(c))
           all == Cardinality(Slots)
           l == Longest(c)
<1>1. /\ slot \in [Slots -> [pc : U!Pcs, video : Videos \cup {U!NoVideo}]]
      /\ s \in Nat /\ l \in Nat /\ U!Limit[c] \in Nat /\ all \in Nat \ {0} /\ n \in 0 .. all
      /\ IsFiniteSet(Busy(c)) /\ IsFiniteSet(Slots)
    <2>1. /\ slot \in [Slots -> [pc : U!Pcs, video : Videos \cup {U!NoVideo}]]
          /\ month \in U!Months /\ minutes \in [U!Months -> [U!Counters -> Nat]]
        BY DEF UsageTyped, U!TypeOK
    <2> QED
        BY <2>1, Sizes DEF UsageAssumption
<1>2. InPlan(c) /\ Fits(c) /\ minutes = used
    BY DEF UsageInv, Within
<1>3. Room(c)' = Room(c) /\ Longest(c)' = Longest(c) /\ U!Limit[c]' = U!Limit[c]
    BY DEF Room, Longest, U!Limit, U!Longest
<1>4. Room(c) = U!Limit[c] + (all - 1) * l
    BY DEF Room
<1>5. month' = month /\ \A x \in Slots : x # w => slot'[x] = slot[x]
    BY SlotMoves
<1>6. /\ \A x \in Slots : slot[x].pc # "idle" /\ slot'[x].pc # "idle" => Length(x)' = Length(x)
      /\ \A x \in Slots : slot[x].pc # "idle" => Length(x) \in Nat
    BY LengthsStay
<1>7. \A p \in Paying(c) : p # "idle"
    BY DEF Paying
<1>8. CASE Same(w, c) \/ Bystands(w, c)
    <2>1. Busy(c)' = Busy(c)
        BY <1>5, <1>8 DEF Same, Bystands, Busy, Paying
    <2>2. \A x \in Busy(c) : Length(x)' = Length(x)
        BY <1>6, <1>7, <2>1 DEF Busy, Paying
    <2>3. minutes'[month][c] = s
        BY <1>8 DEF Same, Bystands
    <2>4. InPlan(c)'
        BY <1>2, <1>3, <1>5, <2>1, <2>2, <2>3 DEF InPlan
    <2> QED
        BY <1>2, <1>3, <2>1, <2>2, <2>4 DEF Fits
<1>9. CASE Joins(w, c)
    <2>1. Busy(c)' = Busy(c) \cup {w} /\ Length(w)' = Length(w) /\ w \notin Busy(c)
        BY <1>5, <1>6, <1>7, <1>9 DEF Joins, Busy, Paying
    <2>2. \A x \in Busy(c) : Length(x)' = Length(x)
        BY <1>6, <1>7, <2>1 DEF Busy, Paying
    <2>3. minutes'[month][c] = s /\ s + Length(w) <= U!Limit[c] /\ Length(w) \in Nat
        BY <1>6, <1>9 DEF Joins
    <2>4. Fits(c)'
        BY <1>1, <1>2, <1>3, <2>1, <2>2, <2>3 DEF Fits
    <2>5. Cardinality(Busy(c)') = n + 1 /\ n + 1 <= all
        <3>1. Cardinality(Busy(c)') = n + 1
            BY <1>1, <2>1, FS_AddElement
        <3>2. Busy(c)' \subseteq Slots
            BY DEF Busy
        <3>3. Cardinality(Busy(c)') <= Cardinality(Slots)
            BY <1>1, <3>2, Fewer
        <3> QED
            BY <3>1, <3>3
    <2>6. n * l <= (all - 1) * l /\ n * l \in Nat /\ (all - 1) * l \in Nat
        <3>1. n \in Nat /\ all - 1 \in Nat /\ n <= all - 1
            BY <1>1, <2>5
        <3> HIDE DEF n, all, l
        <3> QED
            BY <1>1, <3>1, Products
    <2>7. s + Length(w) + n * l <= Room(c)
        <3> HIDE DEF n, all, l, s
        <3> QED
            BY <1>1, <1>4, <2>3, <2>6
    <2>8. minutes'[month'][c] + Length(w)' + (Cardinality(Busy(c)') - 1) * Longest(c)' <= Room(c)'
        <3>1. Cardinality(Busy(c)') - 1 = n
            BY <1>1, <2>5
        <3> QED
            BY <1>3, <1>5, <2>1, <2>3, <2>7, <3>1
    <2>9. InPlan(c)'
        BY <2>1, <2>8 DEF InPlan
    <2> QED
        BY <2>4, <2>9
<1>10. CASE Leaves(w, c)
    <2>1. Busy(c)' = Busy(c) \ {w} /\ w \in Busy(c)
        BY <1>5, <1>10 DEF Leaves, Busy, Paying
    <2>2. \A x \in Busy(c)' : Length(x)' = Length(x) /\ x \in Busy(c)
        BY <1>5, <1>6, <1>7, <2>1 DEF Busy, Paying
    <2>3. Fits(c)'
        BY <1>2, <1>3, <2>2 DEF Fits
    <2>4. Cardinality(Busy(c)') = n - 1 /\ n - 1 \in Nat
        <3>1. Cardinality(Busy(c) \ {w}) = n - 1 /\ IsFiniteSet(Busy(c) \ {w})
            BY <1>1, <2>1, FS_RemoveElement
        <3>2. Cardinality(Busy(c) \ {w}) \in Nat
            BY <3>1, FS_CardinalityType
        <3> QED
            BY <2>1, <3>1, <3>2
    <2> DEFINE t == minutes'[month][c]
    <2>5. t \in Nat /\ t <= s + Length(w) /\ Length(w) \in Nat /\ Length(w) <= l
        <3>1. Length(w) \in Nat /\ Length(w) <= l
            BY <1>2, <2>1, BusyFits
        <3>2. t = s \/ t = s + Length(w)
            BY <1>10 DEF Leaves
        <3> HIDE DEF s, l, t
        <3> QED
            BY <1>1, <3>1, <3>2
    <2>6. /\ n * l \in Nat /\ (n - 1) * l = n * l - l /\ (n - 1 - 1) * l = n * l - l - l
        <3>1. n \in Nat /\ n - 1 - 1 = n - 2
            BY <1>1
        <3> HIDE DEF n, l
        <3> QED
            BY <1>1, <3>1, Products
    <2>7. Room(c) \in Int
        <3>1. (all - 1) * l \in Nat
            <4>1. all - 1 \in Nat
                BY <1>1
            <4> HIDE DEF all, l
            <4> QED
                BY <1>1, <4>1, Products
        <3> HIDE DEF all, l
        <3> QED
            BY <1>1, <1>4, <3>1
    <2>8. CASE s + n * l <= Room(c)
        <3>1. t + (n - 1) * l <= Room(c)
            <4> HIDE DEF s, l, t, n
            <4> QED
                BY <1>1, <2>5, <2>6, <2>7, <2>8
        <3> QED
            BY <1>3, <1>5, <2>3, <2>4, <3>1 DEF InPlan
    <2>9. CASE s + Length(w) + (n - 1) * l <= Room(c)
        <3>1. t + (n - 1) * l <= Room(c)
            <4> HIDE DEF s, l, t, n
            <4> QED
                BY <1>1, <2>5, <2>6, <2>7, <2>9
        <3> QED
            BY <1>3, <1>5, <2>3, <2>4, <3>1 DEF InPlan
    <2>10. ASSUME NEW x \in Busy(c), x # w, s + Length(x) + (n - 1) * l <= Room(c)
           PROVE  InPlan(c)' /\ Fits(c)'
        <3>1. x \in Busy(c)' /\ Length(x) \in Nat /\ Length(x)' = Length(x)
            BY <1>2, <2>1, <2>2, <2>10, BusyFits
        <3>2. t + Length(x) + (n - 1 - 1) * l <= Room(c)
            <4> HIDE DEF s, l, t, n
            <4> QED
                BY <1>1, <2>5, <2>6, <2>7, <2>10, <3>1
        <3> QED
            BY <1>3, <1>5, <2>3, <2>4, <3>1, <3>2 DEF InPlan
    <2> QED
        BY <1>2, <2>8, <2>9, <2>10 DEF InPlan
<1> QED
    BY <1>2, <1>8, <1>9, <1>10, WorkerMoves

LEMMA MonthInRoom ==
    ASSUME UsageTyped, UsageAssumption, UsageInv, NEW c \in U!Counters
    PROVE  /\ minutes[month][c] <= Room(c) /\ Room(c) \in Nat /\ minutes[month][c] \in Nat
           /\ Cardinality(Busy(c)) * Longest(c) <= Room(c)
              \/ \E w \in Busy(c) :
                   Length(w) + (Cardinality(Busy(c)) - 1) * Longest(c) <= Room(c)
<1> DEFINE s == minutes[month][c]
           n == Cardinality(Busy(c))
           all == Cardinality(Slots)
           l == Longest(c)
<1>1. /\ s \in Nat /\ l \in Nat /\ U!Limit[c] \in Nat /\ all \in Nat \ {0} /\ n \in 0 .. all
      /\ IsFiniteSet(Busy(c)) /\ InPlan(c) /\ Fits(c)
    <2>1. month \in U!Months /\ minutes \in [U!Months -> [U!Counters -> Nat]]
        BY DEF UsageTyped, U!TypeOK
    <2> QED
        BY <2>1, Sizes DEF UsageInv, Within
<1>2. Room(c) = U!Limit[c] + (all - 1) * l /\ all - 1 \in Nat
    BY <1>1 DEF Room
<1>3. (all - 1) * l \in Nat /\ n * l \in Nat /\ n \in Nat
    <2> HIDE DEF s, n, all, l
    <2> QED
        BY <1>1, <1>2, Products
<1>4. Room(c) \in Nat
    <2> HIDE DEF s, n, all, l
    <2> QED
        BY <1>1, <1>2, <1>3
<1>5. ASSUME NEW w \in Busy(c)
      PROVE  Length(w) \in Nat /\ n - 1 \in Nat /\ (n - 1) * l \in Nat
    <2>1. Length(w) \in Nat
        BY <1>1, BusyFits
    <2>2. n # 0
        BY <1>1, FS_EmptySet
    <2>3. n - 1 \in Nat
        BY <1>1, <2>2
    <2>4. (n - 1) * l \in Nat
        <3> HIDE DEF n, l
        <3> QED
            BY <1>1, <2>3, Products
    <2> QED
        BY <2>1, <2>3, <2>4
<1>6. CASE s + n * l <= Room(c)
    <2>1. s <= Room(c) /\ n * l <= Room(c)
        <3> HIDE DEF s, n, all, l
        <3> QED
            BY <1>1, <1>3, <1>4, <1>6
    <2> QED
        BY <1>1, <1>4, <2>1
<1>7. ASSUME NEW w \in Busy(c), s + Length(w) + (n - 1) * l <= Room(c)
      PROVE  s <= Room(c) /\ Length(w) + (n - 1) * l <= Room(c)
    <2>1. Length(w) \in Nat /\ (n - 1) * l \in Nat
        BY <1>5, <1>7
    <2> HIDE DEF s, n, all, l
    <2> QED
        BY <1>1, <1>4, <1>7, <2>1
<1> QED
    BY <1>1, <1>4, <1>6, <1>7 DEF InPlan

LEMMA UsageStep ==
    ASSUME UsageTyped, UsageInv, [U!Next]_usage, UsageAssumption
    PROVE  UsageInv'
<1>1. minutes' = used'
    BY UsageTypedStep DEF UsageInv
<1>2. \A c \in U!Counters : Room(c)' = Room(c) /\ Longest(c)' = Longest(c) /\ U!Limit[c]' = U!Limit[c]
    BY DEF Room, Longest, U!Limit, U!Longest
<1>3. month \in Nat /\ minutes \in [U!Months -> [U!Counters -> Nat]] /\ \A m \in U!Months : m \in Nat
    BY DEF UsageTyped, U!TypeOK, U!Months
<1>4. ASSUME NEW c \in U!Counters, UNCHANGED usage
      PROVE  Within(c)'
    BY <1>4 DEF usage, UsageInv, Within, InPlan, Fits, Busy, Length, U!Works, Room, Longest,
                U!Limit, U!Longest
<1>5. ASSUME NEW v \in Videos, U!Api(v), NEW c \in U!Counters
      PROVE  Within(c)'
    <2>1. UNCHANGED <<month, used, slot, minutes>> /\ U!Next
        BY <1>5 DEF U!Api, U!Create, U!Insert, U!Process, U!Enqueue, U!Delete, U!Status, U!Next
    <2>2. \A w \in Busy(c) : Length(w)' = Length(w)
        <3>1. \A w \in Busy(c) : slot[w].video \in Videos /\ Begun(slot[w].video)
            BY DEF Busy, Paying, UsageTyped, Attended
        <3> QED
            BY <2>1, <3>1, VideosStay DEF Length, U!Works
    <2>3. Busy(c)' = Busy(c)
        BY <2>1 DEF Busy
    <2>4. Within(c)
        BY DEF UsageInv
    <2>5. InPlan(c)'
        BY <1>2, <2>1, <2>2, <2>3, <2>4 DEF Within, InPlan
    <2>6. Fits(c)'
        BY <1>2, <2>2, <2>3, <2>4 DEF Within, Fits
    <2> QED
        BY <1>2, <2>1, <2>4, <2>5, <2>6 DEF Within
<1>6. ASSUME NEW w \in Slots, U!Worker(w), NEW c \in U!Counters
      PROVE  Within(c)'
    <2>1. InPlan(c)' /\ Fits(c)'
        BY <1>6, WorkerKeepsPlan
    <2>2. month' = month
        BY <1>6, SlotMoves
    <2>3. \A m \in U!Months : m # month => minutes'[m][c] = minutes[m][c]
        <3>1. CASE minutes' = minutes
            BY <3>1
        <3>2. CASE U!Count(w) \/ U!AiCount(w)
            <4>1. slot[w].pc # "idle" /\ \E d \in U!Counters : U!RecordUsage(w, d)
                BY <3>2 DEF U!Count, U!AiCount, U!Step, U!Counters
            <4> QED
                BY <4>1, RecordTyped DEF UsageInv
        <3> QED
            BY <1>6, <3>1, <3>2
               DEF U!Worker, U!Take, U!Refused, U!Admitted, U!Ready, U!Fail, U!AiQuota,
                   U!Transcribe, U!Crash
    <2>4. Within(c)
        BY DEF UsageInv
    <2> QED
        BY <1>2, <1>3, <2>1, <2>2, <2>3, <2>4 DEF Within
<1>7. ASSUME U!NextMonth, NEW c \in U!Counters
      PROVE  Within(c)'
    <2>1. month' = month + 1 /\ month + 1 \in U!Months /\ UNCHANGED <<video, slot, minutes>>
        BY <1>7 DEF U!NextMonth, U!Months, UsageTyped, U!TypeOK
    <2>2. Within(c)
        BY DEF UsageInv
    <2>3. minutes'[month'][c] = 0
        BY <1>3, <2>1, <2>2 DEF Within
    <2>4. Busy(c)' = Busy(c) /\ \A w \in Slots : Length(w)' = Length(w)
        BY <2>1 DEF Busy, Length, U!Works
    <2>5. Fits(c)'
        BY <1>2, <2>2, <2>4 DEF Within, Fits, Busy
    <2>6. InPlan(c)'
        <3>1. CASE Cardinality(Busy(c)) * Longest(c) <= Room(c)
            <4>1. 0 + Cardinality(Busy(c)) * Longest(c) = Cardinality(Busy(c)) * Longest(c)
                BY Sizes
            <4> QED
                BY <1>2, <2>3, <2>4, <3>1, <4>1 DEF InPlan
        <3>2. ASSUME NEW w \in Busy(c),
                     Length(w) + (Cardinality(Busy(c)) - 1) * Longest(c) <= Room(c)
              PROVE  InPlan(c)'
            <4>1. Length(w) \in Nat
                BY <2>2, BusyFits DEF Within
            <4>2. 0 + Length(w) = Length(w) /\ Length(w)' = Length(w)
                BY <2>4, <4>1 DEF Busy
            <4> QED
                BY <1>2, <2>3, <2>4, <3>2, <4>2 DEF InPlan
        <3> QED
            BY <3>1, <3>2, MonthInRoom
    <2>7. \A m \in U!Months : /\ m < month' => minutes'[m][c] <= Room(c)'
                              /\ m > month' => minutes'[m][c] = 0
        <3>1. ASSUME NEW m \in U!Months, m < month'
              PROVE  minutes[m][c] <= Room(c)
            BY <1>3, <2>1, <2>2, <3>1, MonthInRoom DEF Within
        <3> QED
            BY <1>2, <1>3, <2>1, <2>2, <3>1 DEF Within
    <2> QED
        BY <2>5, <2>6, <2>7 DEF Within
<1>8. \A c \in U!Counters : Within(c)'
    BY <1>4, <1>5, <1>6, <1>7 DEF U!Next
<1> QED
    BY <1>1, <1>8 DEF UsageInv

LEMMA UsageInit ==
    ASSUME U!Init, UsageAssumption
    PROVE  UsageInv
<1>1. ASSUME NEW c \in U!Counters
      PROVE  Within(c)
    <2> DEFINE all == Cardinality(Slots)
               l == Longest(c)
    <2>1. month = 0 /\ \A m \in U!Months : minutes[m][c] = 0
        BY DEF U!Init
    <2>2. Busy(c) = {} /\ Cardinality(Busy(c)) = 0
        <3>1. Busy(c) = {}
            BY DEF U!Init, U!Free, Busy, Paying
        <3> QED
            BY <3>1, FS_EmptySet
    <2>3. Room(c) \in Nat
        <3>1. U!Limit[c] \in Nat /\ all \in Nat /\ all - 1 \in Nat /\ l \in Nat
            BY Sizes
        <3>2. Room(c) = U!Limit[c] + (all - 1) * l
            BY DEF Room
        <3>3. (all - 1) * l \in Nat
            <4> HIDE DEF all, l
            <4> QED
                BY <3>1, Products
        <3> HIDE DEF all, l
        <3> QED
            BY <3>1, <3>2, <3>3
    <2>4. 0 + 0 * Longest(c) = 0
        BY Sizes
    <2>5. 0 \in U!Months
        BY DEF U!Months, UsageAssumption
    <2>6. InPlan(c)
        BY <2>1, <2>2, <2>3, <2>4, <2>5 DEF InPlan
    <2>7. Fits(c)
        BY <2>2 DEF Fits
    <2> QED
        BY <2>1, <2>3, <2>6, <2>7 DEF Within
<1> QED
    BY <1>1 DEF UsageInv, U!Init

LEMMA UsagePart ==
    AccountsSpec => U!Init /\ [][U!Next]_usage
<1>1. AccountsInit => U!Init
    BY DEF AccountsInit
<1>2. [AccountsNext]_<<vars, sessions, usage, part>> => [U!Next]_usage
    BY DEF AccountsNext, SessionsNext, MembersNext, UsageNext
<1> QED
    BY <1>1, <1>2, PTL DEF AccountsSpec

LEMMA MembersPart ==
    AccountsSpec => Spec
<1>1. AccountsInit => Init
    BY DEF AccountsInit
<1>2. [AccountsNext]_<<vars, sessions, usage, part>> => [Next]_vars
    BY DEF AccountsNext, SessionsNext, MembersNext, UsageNext
<1> QED
    BY <1>1, <1>2, PTL DEF AccountsSpec, Spec

(* What a plan limits is exceeded by what is in flight at once and no       *)
(* further: members with open invitations, and keys, by the requests that   *)
(* counted before the others wrote (routes/members.ts, routes/api-keys.ts); *)
(* the minutes of a month by one video for each slot but one, whatever      *)
(* crashes, comes twice or runs into another month (processTranscodeJob,    *)
(* runPostReadyPhase, recordUsage).                                         *)
THEOREM WithinPlan == AccountsSpec => []PlanLimitsHold
<1>1. UsageTyped /\ UsageInv => U!SpentWithinPlan
    <2> SUFFICES ASSUME UsageTyped, UsageInv, NEW m \in U!Months, NEW c \in U!Counters
                 PROVE  minutes[m][c] <= Room(c)
        <3>1. U!Cardinality(Slots) = Cardinality(Slots)
            BY Zenon DEF U!Cardinality, Cardinality
        <3> QED
            BY <3>1 DEF U!SpentWithinPlan, Room, Longest
    <2>1. m \in Nat /\ month \in Nat
        BY DEF UsageTyped, U!TypeOK, U!Months
    <2>2. CASE m = month
        BY <2>2, MonthInRoom, UsageAssumption
    <2>3. CASE m < month
        BY <2>3 DEF UsageInv, Within
    <2>4. CASE m > month
        <3>1. minutes[m][c] = 0
            BY <2>4 DEF UsageInv, Within
        <3>2. Room(c) \in Nat
            BY MonthInRoom, UsageAssumption
        <3> QED
            BY <3>1, <3>2
    <2> QED
        BY <2>1, <2>2, <2>3, <2>4
<1>2. U!Init => UsageTyped /\ UsageInv
    BY UsageTypedInit, UsageInit, UsageAssumption
<1>3. UsageTyped /\ UsageInv /\ [U!Next]_usage => UsageTyped' /\ UsageInv'
    BY UsageTypedStep, UsageStep, UsageAssumption DEF UsageInv
<1> QED
    BY <1>1, <1>2, <1>3, UsagePart, MembersPart, LimitsKept, PTL DEF PlanLimitsHold
===============================================================================
