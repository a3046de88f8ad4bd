----------------------------- MODULE Membership -----------------------------
(***************************************************************************)
(* One organization: members, invitations and API keys (routes/orgs.ts,    *)
(* routes/invitations.ts), sign-up, and what the dashboard's pages offer.  *)
(*                                                                         *)
(* Every handler is a read of the caller's role, more reads, and a write,  *)
(* each an await: other handlers run between them.  Only the acceptance of *)
(* an invitation and sign-up use a transaction.  A request may die after   *)
(* any of its statements.                                                  *)
(*                                                                         *)
(* Rows, invitations and keys have ids that are never used again: "free"   *)
(* before the INSERT, "gone" after the DELETE.                             *)
(***************************************************************************)
EXTENDS Integers, FiniteSets

CONSTANTS
    People,       \* everybody, with or without an account
    Owner,        \* who created the organization
    Requests,     \* the requests that may be in flight at once
    MaxRows, MaxInvites, MaxKeys, \* bounds: ids of org_members, org_invitations, api_keys
    MemberLimit, KeyLimit,       \* the plan's limits
    MaxRequests   \* bound: requests over the whole run

ASSUME MembershipAssumption ==
    /\ Owner \in People
    /\ {KeyLimit, MaxRequests, MaxInvites, MaxKeys} \subseteq Nat
    /\ {MaxRows, MemberLimit} \subseteq Nat \ {0}
    /\ IsFiniteSet(People) /\ IsFiniteSet(Requests) /\ Requests # {}

VARIABLES
    account,   \* who has a users row
    row,       \* org_members
    invite,    \* org_invitations
    key,       \* api_keys
    joined,    \* history: rows inserted on each invitation
    req,       \* the requests
    arrived    \* how many requests there have been

vars == <<account, row, invite, key, joined, req, arrived>>

RowIds    == 1 .. MaxRows
InviteIds == 1 .. MaxInvites
KeyIds    == 1 .. MaxKeys
NoId      == 0

Nobody == "nobody"
Someone == People \cup {Nobody}
Roles  == {"owner", "admin", "member"}
Admins == {"owner", "admin"}

Member     == [state : {"free", "live", "gone"}, who : Someone, role : Roles]
Invitation == [state : {"free", "open", "lapsed", "accepted", "gone"}, who : Someone, role : Roles]
(* spared (history): a removal of its author missed it.                     *)
Key        == [state : {"free", "live", "gone"}, by : Someone, spared : BOOLEAN]

FreeRow    == [state |-> "free", who |-> Nobody, role |-> "member"]
FreeInvite == [state |-> "free", who |-> Nobody, role |-> "member"]
FreeKey    == [state |-> "free", by |-> Nobody, spared |-> FALSE]

Kinds == {"invite", "revokeInvite", "accept", "setRole", "remove", "createKey", "revokeKey", "signup"}
Steps == {"idle", "role", "known", "count", "replace", "target", "write", "keys",
          "load", "account", "create", "begin", "commit"}
Idle  == [pc |-> "idle", kind |-> "signup", by |-> Nobody, id |-> NoId, who |-> Nobody,
          role |-> "member", member |-> FALSE]
Request == [pc : Steps, kind : Kinds, by : Someone,
            id : RowIds \cup InviteIds \cup KeyIds \cup {NoId},
            who : Someone, role : Roles, member : BOOLEAN]

TypeOK ==
    /\ account \subseteq People
    /\ row \in [RowIds -> Member]
    /\ invite \in [InviteIds -> Invitation]
    /\ key \in [KeyIds -> Key]
    /\ joined \in [InviteIds -> Nat]
    /\ req \in [Requests -> Request]
    /\ arrived \in 0 .. MaxRequests

(* POST /v1/orgs (and sign-up) inserts the organization and its owner's     *)
(* membership in one transaction.                                           *)
Init ==
    /\ account = {Owner}
    /\ row = [i \in RowIds |-> IF i = 1 THEN [state |-> "live", who |-> Owner, role |-> "owner"]
                                         ELSE FreeRow]
    /\ invite = [i \in InviteIds |-> FreeInvite]
    /\ key = [i \in KeyIds |-> FreeKey]
    /\ joined = [i \in InviteIds |-> 0]
    /\ req = [r \in Requests |-> Idle]
    /\ arrived = 0

At(r, kind, pc) == req[r].kind = kind /\ req[r].pc = pc
Goto(r, pc)     == req' = [req EXCEPT ![r].pc = pc]
Done(r)         == req' = [req EXCEPT ![r] = Idle]

RowsOf(u) == {i \in RowIds : row[i].state = "live" /\ row[i].who = u}
Members   == {i \in RowIds : row[i].state = "live"}
Pending   == {i \in InviteIds : invite[i].state = "open"}
Keys      == {i \in KeyIds : key[i].state = "live"}
HasRole(u, roles) == \E i \in RowsOf(u) : row[i].role \in roles

-----------------------------------------------------------------------------
(* Arrival.  A session names its account; an invitation's token names the   *)
(* invitation.  The ids a request names are ones the caller has seen.       *)

Seen(f) == {i \in DOMAIN f : f[i].state # "free"}
NewId(f) == {i \in DOMAIN f : f[i].state = "free" /\ \A j \in DOMAIN f \ Seen(f) : i <= j}

Arrive(r, kind, first, by, id, who, role) ==
    /\ req[r].pc = "idle" /\ arrived < MaxRequests
    /\ arrived' = arrived + 1
    /\ req' = [req EXCEPT ![r] = [pc |-> first, kind |-> kind, by |-> by, id |-> id, who |-> who,
                                  role |-> role, member |-> FALSE]]
    /\ UNCHANGED <<account, row, invite, key, joined>>

StartInvite(r)    == \E by \in account, who \in People, role \in {"admin", "member"} :
                       Arrive(r, "invite", "role", by, NoId, who, role)
StartRevoke(r)    == \E by \in account, i \in Seen(invite) :
                       Arrive(r, "revokeInvite", "role", by, i, Nobody, "member")
StartSetRole(r)   == \E by \in account, i \in Seen(row), role \in {"admin", "member"} :
                       Arrive(r, "setRole", "role", by, i, Nobody, role)
StartRemove(r)    == \E by \in account, i \in Seen(row) :
                       Arrive(r, "remove", "role", by, i, Nobody, "member")
StartCreateKey(r) == \E by \in account : Arrive(r, "createKey", "role", by, NoId, Nobody, "member")
StartRevokeKey(r) == \E by \in account, i \in Seen(key) :
                       Arrive(r, "revokeKey", "role", by, i, Nobody, "member")
StartAccept(r)    == \E by \in account \cup {Nobody}, i \in Seen(invite) :
                       Arrive(r, "accept", "load", by, i, Nobody, "member")
StartSignup(r)    == \E who \in People : Arrive(r, "signup", "account", Nobody, NoId, who, "member")

(* assertRole: ADMINS everywhere.  The handler goes on with the role it     *)
(* read, whatever becomes of the caller meanwhile.  (The SELECT has a LIMIT *)
(* 1: one of the caller's rows answers.)                                    *)
AfterRole(kind) == CASE kind = "invite" -> "known"
                     [] kind \in {"setRole", "remove"} -> "target"
                     [] kind = "createKey" -> "count"
                     [] OTHER -> "write"

Role(r) ==
    /\ req[r].pc = "role"
    /\ \/ \E i \in RowsOf(req[r].by) :
            IF /\ row[i].role \in Admins
               (* Only owners can assign the admin role to who they invite. *)
               /\ req[r].kind = "invite" /\ req[r].role = "admin" => row[i].role = "owner"
              THEN Goto(r, AfterRole(req[r].kind))
              ELSE Done(r)
       \/ RowsOf(req[r].by) = {} /\ Done(r)
    /\ UNCHANGED <<account, row, invite, key, joined, arrived>>

-----------------------------------------------------------------------------
(* POST .../members/invite: is the address a member, is there room, delete  *)
(* the open invitations of the address, insert the new one.                 *)

InviteKnown(r) ==
    /\ At(r, "invite", "known")
    /\ IF RowsOf(req[r].who) # {} THEN Done(r) ELSE Goto(r, "count")
    /\ UNCHANGED <<account, row, invite, key, joined, arrived>>

(* Mistake: invitations that are still open are not counted.                *)
SeatsMembersOnly == Cardinality(Members)
Seats == Cardinality(Members) + Cardinality(Pending)

InviteCount(r) ==
    /\ At(r, "invite", "count")
    /\ IF Seats >= MemberLimit THEN Done(r) ELSE Goto(r, "replace")
    /\ UNCHANGED <<account, row, invite, key, joined, arrived>>

InviteReplace(r) ==
    /\ At(r, "invite", "replace")
    /\ invite' = [i \in InviteIds |->
                    IF invite[i].who = req[r].who /\ invite[i].state \in {"open", "lapsed"}
                      THEN [invite[i] EXCEPT !.state = "gone"] ELSE invite[i]]
    /\ Goto(r, "write")
    /\ UNCHANGED <<account, row, key, joined, arrived>>

InviteInsert(r) ==
    /\ At(r, "invite", "write")
    /\ \E i \in NewId(invite) :
         /\ invite' = [invite EXCEPT ![i] = [state |-> "open", who |-> req[r].who,
                                             role |-> req[r].role]]
    /\ Done(r)
    /\ UNCHANGED <<account, row, key, joined, arrived>>

(* DELETE .../invitations/:id, if it has not been accepted.                 *)
RevokeInvite(r) ==
    /\ At(r, "revokeInvite", "write")
    /\ invite' = IF invite[req[r].id].state \in {"open", "lapsed"}
                   THEN [invite EXCEPT ![req[r].id].state = "gone"] ELSE invite
    /\ Done(r)
    /\ UNCHANGED <<account, row, key, joined, arrived>>

(* Seven days go by.                                                        *)
Lapse(i) ==
    /\ invite[i].state = "open"
    /\ invite' = [invite EXCEPT ![i].state = "lapsed"]
    /\ UNCHANGED <<account, row, key, joined, req, arrived>>

-----------------------------------------------------------------------------
(* PATCH and DELETE .../members/:id read the target, then write by id.      *)

(* Mistake: the owner is not spared.                                        *)
TouchableAny(i) == row[i].state = "live"
Touchable(i) == row[i].state = "live" /\ row[i].role # "owner"

Target(r) ==
    /\ req[r].pc = "target"
    /\ IF Touchable(req[r].id)
         THEN req' = [req EXCEPT ![r].pc = "write", ![r].who = row[req[r].id].who]
         ELSE Done(r)
    /\ UNCHANGED <<account, row, invite, key, joined, arrived>>

SetRole(r) ==
    /\ At(r, "setRole", "write")
    /\ row' = IF row[req[r].id].state = "live"
                THEN [row EXCEPT ![req[r].id].role = req[r].role] ELSE row
    /\ Done(r)
    /\ UNCHANGED <<account, invite, key, joined, arrived>>

Remove(r) ==
    /\ At(r, "remove", "write")
    /\ row' = [row EXCEPT ![req[r].id].state = "gone"]
    /\ Goto(r, "keys")
    /\ UNCHANGED <<account, invite, key, joined, arrived>>

(* Mistake: the keys are those of the admin who removes.                    *)
RemoveKeysOfCaller(r) ==
    /\ At(r, "remove", "keys")
    /\ key' = [k \in KeyIds |-> IF key[k].state = "live" /\ key[k].by = req[r].by
                                  THEN [key[k] EXCEPT !.state = "gone"] ELSE key[k]]
    /\ Done(r)
    /\ UNCHANGED <<account, row, invite, joined, arrived>>

RemoveKeys(r) ==
    /\ At(r, "remove", "keys")
    /\ key' = [k \in KeyIds |-> IF key[k].state = "live" /\ key[k].by = req[r].who
                                  THEN [key[k] EXCEPT !.state = "gone"] ELSE key[k]]
    /\ Done(r)
    /\ UNCHANGED <<account, row, invite, joined, arrived>>

-----------------------------------------------------------------------------
(* POST .../api-keys counts, then inserts.  DELETE .../api-keys/:id.        *)

(* Mistake: the limit is compared with the number before the new key.       *)
KeyRoomLate == Cardinality(Keys) <= KeyLimit
KeyRoom == Cardinality(Keys) < KeyLimit

CountKeys(r) ==
    /\ At(r, "createKey", "count")
    /\ IF KeyRoom THEN Goto(r, "write") ELSE Done(r)
    /\ UNCHANGED <<account, row, invite, key, joined, arrived>>

InsertKey(r) ==
    /\ At(r, "createKey", "write")
    /\ \E k \in NewId(key) :
         /\ key' = [key EXCEPT ![k] = [state |-> "live", by |-> req[r].by,
                                       spared |-> RowsOf(req[r].by) = {}]]
    /\ Done(r)
    /\ UNCHANGED <<account, row, invite, joined, arrived>>

RevokeKey(r) ==
    /\ At(r, "revokeKey", "write")
    /\ key' = IF key[req[r].id].state = "live"
                THEN [key EXCEPT ![req[r].id].state = "gone"] ELSE key
    /\ Done(r)
    /\ UNCHANGED <<account, row, invite, joined, arrived>>

-----------------------------------------------------------------------------
(* POST /v1/invitations/:token/accept.  loadInvitation refuses what is      *)
(* accepted, lapsed or gone.  An existing account must prove itself, by its *)
(* session or its password; otherwise an account is created, in a statement *)
(* of its own.                                                              *)

Load(r) ==
    /\ At(r, "accept", "load")
    /\ IF invite[req[r].id].state = "open"
         THEN req' = [req EXCEPT ![r].pc = "account", ![r].who = invite[req[r].id].who,
                                 ![r].role = invite[req[r].id].role]
         ELSE Done(r)
    /\ UNCHANGED <<account, row, invite, key, joined, arrived>>

Account(r) ==
    /\ At(r, "accept", "account")
    /\ IF req[r].who \notin account THEN Goto(r, "create")
       ELSE \/ Goto(r, "begin")                               \* the password is right
            \/ req[r].by # req[r].who /\ Done(r)              \* no password, not this session
    /\ UNCHANGED <<account, row, invite, key, joined, arrived>>

(* The e-mail address is unique: the second INSERT of two fails.            *)
Create(r) ==
    /\ At(r, "accept", "create")
    /\ IF req[r].who \in account
         THEN UNCHANGED account /\ Done(r)
         ELSE account' = account \cup {req[r].who} /\ Goto(r, "begin")
    /\ UNCHANGED <<row, invite, key, joined, arrived>>

(* The transaction: look for the membership, insert it, claim the           *)
(* invitation; the claim waits for a rival's and sees its outcome, and an   *)
(* invitation that was claimed or deleted takes the insert back.            *)
Begin(r) ==
    /\ At(r, "accept", "begin")
    /\ req' = [req EXCEPT ![r].pc = "commit", ![r].member = (RowsOf(req[r].who) # {})]
    /\ UNCHANGED <<account, row, invite, key, joined, arrived>>

(* org_members is unique on organization and user in the database (it is   *)
(* declared in 0001_baseline.sql only): the INSERT of a second row fails.   *)
Twice(r) == ~req[r].member /\ RowsOf(req[r].who) # {}

Join(r) ==
    IF req[r].member THEN UNCHANGED <<row, joined>>
    ELSE \E i \in NewId(row) :
           /\ row' = [row EXCEPT ![i] = [state |-> "live", who |-> req[r].who, role |-> req[r].role]]
           /\ joined' = [joined EXCEPT ![req[r].id] = @ + 1]

(* Mistake: nobody looks at how many rows the claim changed.                *)
CommitUnclaimed(r) ==
    /\ At(r, "accept", "commit")
    /\ Join(r)
    /\ invite' = IF invite[req[r].id].state = "gone" THEN invite
                 ELSE [invite EXCEPT ![req[r].id].state = "accepted"]
    /\ Done(r)
    /\ UNCHANGED <<account, key, arrived>>

Commit(r) ==
    /\ At(r, "accept", "commit")
    /\ IF invite[req[r].id].state \in {"open", "lapsed"} /\ ~Twice(r)
         THEN Join(r) /\ invite' = [invite EXCEPT ![req[r].id].state = "accepted"]
         ELSE UNCHANGED <<row, invite, joined>>
    /\ Done(r)
    /\ UNCHANGED <<account, key, arrived>>

(* POST /v1/auth/signup: the address is looked up, then user, organization  *)
(* and membership are inserted in one transaction (the organization is      *)
(* another one than this).                                                  *)
Signup(r) ==
    /\ At(r, "signup", "account")
    /\ IF req[r].who \in account THEN Done(r) ELSE Goto(r, "commit")
    /\ UNCHANGED <<account, row, invite, key, joined, arrived>>

SignupCommit(r) ==
    /\ At(r, "signup", "commit")
    /\ account' = account \cup {req[r].who}
    /\ Done(r)
    /\ UNCHANGED <<row, invite, key, joined, arrived>>

(* The process dies, or a statement fails: what is done stays done.         *)
Spared(r) == {k \in Keys : At(r, "remove", "keys") /\ key[k].by = req[r].who}

Die(r) ==
    /\ req[r].pc # "idle"
    /\ Done(r)
    /\ key' = [k \in KeyIds |-> IF k \in Spared(r) THEN [key[k] EXCEPT !.spared = TRUE]
                                ELSE key[k]]
    /\ UNCHANGED <<account, row, invite, joined, arrived>>

Start(r)   == \/ StartInvite(r) \/ StartRevoke(r) \/ StartSetRole(r) \/ StartRemove(r)
              \/ StartCreateKey(r) \/ StartRevokeKey(r) \/ StartAccept(r) \/ StartSignup(r)
Handler(r) == \/ Role(r) \/ Target(r)
              \/ InviteKnown(r) \/ InviteCount(r) \/ InviteReplace(r) \/ InviteInsert(r)
              \/ RevokeInvite(r) \/ SetRole(r) \/ Remove(r) \/ RemoveKeys(r)
              \/ CountKeys(r) \/ InsertKey(r) \/ RevokeKey(r)
              \/ Load(r) \/ Account(r) \/ Create(r) \/ Begin(r) \/ Commit(r)
              \/ Signup(r) \/ SignupCommit(r)

Next == \/ \E r \in Requests : Start(r) \/ Handler(r) \/ Die(r)
        \/ \E i \in InviteIds : Lapse(i)

Spec == Init /\ [][Next]_vars

-----------------------------------------------------------------------------
(* What the dashboard shows to u when its lists are fresh.  MembersPage:    *)
(* the role menu and the remove button on rows that are not the owner's and *)
(* not one's own, the invite dialog with its role buttons, the pending      *)
(* invitations.  ApiKeysPage: the create button until the limit, and a      *)
(* revoke button on every key, for every member.                            *)

PageTouches(u, i) == HasRole(u, Admins) /\ row[i].role # "owner" /\ row[i].who # u
PageRemoves(u, i) == PageTouches(u, i)
PageInvites(u, role) == HasRole(u, Admins) /\ (role = "admin" => HasRole(u, {"owner"}))
PageRevokes(u, i) == HasRole(u, Admins) /\ i \in Pending
PageCreatesKey(u) == RowsOf(u) # {} /\ Cardinality(Keys) < KeyLimit
PageRevokesKey(u, k) == RowsOf(u) # {} /\ k \in Keys

(* What the handlers let u do.                                              *)
MayTouch(u, i)      == HasRole(u, Admins) /\ Touchable(i)
MayRevoke(u, i)     == HasRole(u, Admins) /\ invite[i].state \in {"open", "lapsed"}
MayInvite(u, role)  == HasRole(u, IF role = "admin" THEN {"owner"} ELSE Admins)
MayCreateKey(u)     == HasRole(u, Admins) /\ KeyRoom
MayRevokeKey(u, k)  == HasRole(u, Admins) /\ key[k].state = "live"

-----------------------------------------------------------------------------
(* The organization always has exactly one owner, the one who created it,   *)
(* whatever role changes, removals and acceptances race each other.         *)
OwnerStays == \A i \in Members : (row[i].role = "owner") <=> (row[i].who = Owner)
OneOwner   == OwnerStays /\ Cardinality(RowsOf(Owner)) = 1

(* An invitation is burnt by the first who joins with it: it never adds two *)
(* rows, and adds none once it was revoked or replaced; and whatever        *)
(* invitations of one address are accepted at once, the person behind it is *)
(* a member once.                                                           *)
JoinsOnce == \A i \in InviteIds : /\ joined[i] <= 1
                                  /\ joined[i] = 1 => invite[i].state = "accepted"
OneRowPerPerson == \A u \in People : Cardinality(RowsOf(u)) <= 1
InvitationJoinsOnce == JoinsOnce /\ OneRowPerPerson

(* Count-then-insert can pass a plan limit, but only by the requests that   *)
(* overlap: one less than may run at once.                                  *)
LimitsHoldBut ==
    /\ Cardinality(Keys) <= KeyLimit + Cardinality(Requests) - 1
    /\ Cardinality(Members) + Cardinality(Pending) <= MemberLimit + Cardinality(Requests) - 1

(* A key outlives its author's membership in two ways only: it was inserted *)
(* by a request whose caller had been removed since it was let in, or the   *)
(* removal died before it came to the keys. Till then a removal that has    *)
(* taken the row is still to take the keys, whoever else removes, invites   *)
(* or lets the person in again meanwhile.                                   *)
KeysGoWithAuthor ==
    \A k \in Keys :
        \/ RowsOf(key[k].by) # {}
        \/ key[k].spared
        \/ \E r \in Requests : At(r, "remove", "keys") /\ req[r].who = key[k].by

-----------------------------------------------------------------------------
(* Not kept by the code (README, section on disagreements): a member who    *)
(* leaves leaves no key behind.                                             *)
KeysLeaveWithMember ==
    (\A r \in Requests : req[r].pc = "idle") => \A k \in Keys : RowsOf(key[k].by) # {}

(* Nor this: only owners and admins create and revoke API keys, so that     *)
(* what the pages offer on fresh data, the API does not refuse for lack of  *)
(* a role, or for a limit the page knows.                                   *)
OffersHonoured ==
    \A u \in account :
      /\ \A i \in Members : PageTouches(u, i) \/ PageRemoves(u, i) => MayTouch(u, i)
      /\ \A i \in InviteIds : PageRevokes(u, i) => MayRevoke(u, i)
      /\ \A role \in {"admin", "member"} : PageInvites(u, role) => MayInvite(u, role)
      /\ PageCreatesKey(u) => MayCreateKey(u)
      /\ \A k \in Keys : PageRevokesKey(u, k) => MayRevokeKey(u, k)
=============================================================================
