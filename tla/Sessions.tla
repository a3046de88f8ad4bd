------------------------------ MODULE Sessions ------------------------------
(***************************************************************************)
(* Accounts and sessions: routes/auth.ts behind the authentication hook of *)
(* middleware/auth.ts, for one account.                                    *)
(*                                                                         *)
(* A session is a JWT that carries users.token_version as it was when the  *)
(* token was signed.  Raising the version revokes every token; each API    *)
(* process looks the version up through a cache that keeps it for a while. *)
(* A request is a record that remembers what its handler has read, and     *)
(* takes one action per await of the handler.                              *)
(*                                                                         *)
(* Abstracted: passwords are numbered by the change that set them, the     *)
(* address and the signature of a token are always right, and which        *)
(* organization a token opens is left to Membership.                       *)
(***************************************************************************)
EXTENDS Integers

CONSTANTS
    Requests,    \* the requests that may be in flight at once
    Procs,       \* the API processes, each with its own cache
    Links,       \* the password-reset links that may be issued
    TTL,         \* how long a process trusts a cached version
    Life,        \* how long a JWT lives
    LinkLife,    \* how long a reset link can be used
    Latency,     \* bound: a request is answered within so many ticks
    MaxNow,      \* bound of the clock
    MaxRequests  \* bound: requests over the whole run

VARIABLES
    now,        \* the clock
    user,       \* the users row: password and token_version
    bumpedAt,   \* history: when each version was superseded
    cache,      \* per process: the cached version and when it stops being used
    tokens,     \* the tokens signed and not yet expired
    link,       \* the password_resets rows
    spent,      \* history: password changes made through each link
    req,        \* the requests
    arrived     \* how many requests there have been

vars == <<now, user, bumpedAt, cache, tokens, link, spent, req, arrived>>

Times     == 0 .. MaxNow + TTL + Life + LinkLife
Versions  == 0 .. MaxRequests   \* a request raises the version once at most
Passwords == 0 .. MaxRequests

(* "proof" is history: the password whose knowledge this session rests on.  *)
Token  == [tv : Versions, exp : Times, via : {"login", "session"}, proof : Passwords]
NoToken == [tv |-> 0, exp |-> 0, via |-> "nothing", proof |-> 0]
Signed(tv, via, proof) == [tv |-> tv, exp |-> now + Life, via |-> via, proof |-> proof]

Public    == {"login", "forgot", "reset"}
Protected == {"call", "switch", "change", "logoutAll"}

None == "none"
Idle == [pc |-> "idle", kind |-> "call", proc |-> None, tok |-> NoToken, link |-> None,
         pw |-> 0, seen |-> 0, began |-> 0]
Request == [pc : {"idle", "auth", "fill", "handle", "bump", "invalidate", "sign"},
            kind : Public \cup Protected, proc : Procs \cup {None},
            tok : Token \cup {NoToken}, link : Links \cup {None},
            pw : Passwords, seen : Versions, began : Times]

\* A users row, a password_resets row and a process's cached version.
UserRow == [pw : Passwords, tv : Versions]
LinkRow == [state : {"unsent", "open", "used"}, until : Times]
Cached  == [tv : Versions, until : Times]

Cold    == [tv |-> 0, until |-> 0]
Unsent  == [state |-> "unsent", until |-> 0]

TypeOK ==
    /\ now \in 0 .. MaxNow
    /\ user \in UserRow
    /\ bumpedAt \in [Versions -> Times]
    /\ cache \in [Procs -> Cached]
    /\ tokens \subseteq Token
    /\ link \in [Links -> LinkRow]
    /\ spent \in [Links -> Nat]
    /\ req \in [Requests -> Request]
    /\ arrived \in 0 .. MaxRequests

Init ==
    /\ now = 0
    /\ user = [pw |-> 0, tv |-> 0]
    /\ bumpedAt = [v \in Versions |-> 0]
    /\ cache = [p \in Procs |-> Cold]
    /\ tokens = {Signed(0, "login", 0)}      \* the sign-up's own session
    /\ link = [l \in Links |-> Unsent]
    /\ spent = [l \in Links |-> 0]
    /\ req = [r \in Requests |-> Idle]
    /\ arrived = 0

At(r, pc)   == req[r].pc = pc
Goto(r, pc) == req' = [req EXCEPT ![r].pc = pc]
Done(r)     == req' = [req EXCEPT ![r] = Idle]

-----------------------------------------------------------------------------
(* A request arrives at a process.  A public route goes to its handler, any *)
(* other through the hook with the token it carries: verifyJwt refuses an   *)
(* expired one at once.  A caller who is asked for the password presents    *)
(* the present one, or one that is no longer (or not) right.                *)

Arrive(r, kind, p, tok, l, pw) ==
    /\ At(r, "idle") /\ arrived < MaxRequests
    /\ arrived' = arrived + 1
    /\ req' = [req EXCEPT ![r] =
                 [pc |-> IF kind \in Public THEN "handle" ELSE "auth", kind |-> kind,
                  proc |-> p, tok |-> tok, link |-> l, pw |-> pw, seen |-> 0, began |-> now]]

StartPublic(r, kind, p) ==
    /\ \/ kind = "login"  /\ \E pw \in 0 .. user.pw : Arrive(r, kind, p, NoToken, None, pw)
       \/ kind = "forgot" /\ Arrive(r, kind, p, NoToken, None, 0)
       \/ kind = "reset"  /\ \E l \in Links : Arrive(r, kind, p, NoToken, l, 0)
    /\ UNCHANGED <<now, user, bumpedAt, cache, tokens, link, spent>>

StartProtected(r, kind, p) ==
    /\ \E tok \in tokens, pw \in 0 .. user.pw :
         /\ now <= tok.exp
         /\ kind # "change" => pw = 0
         /\ Arrive(r, kind, p, tok, None, pw)
    /\ UNCHANGED <<now, user, bumpedAt, cache, tokens, link, spent>>

(* currentTokenVersion: a cached version is used while it lasts ...         *)
Judge(r, tv) == IF tv = req[r].tok.tv
                  THEN req' = [req EXCEPT ![r].pc = "handle", ![r].seen = 0]
                  ELSE Done(r)

(* Mistake: an entry is used for as long as it is there.                    *)
AuthHitForever(r) ==
    /\ At(r, "auth")
    /\ cache[req[r].proc] # Cold
    /\ Judge(r, cache[req[r].proc].tv)
    /\ UNCHANGED <<now, user, bumpedAt, cache, tokens, link, spent, arrived>>

AuthHit(r) ==
    /\ At(r, "auth")
    /\ cache[req[r].proc].until > now
    /\ Judge(r, cache[req[r].proc].tv)
    /\ UNCHANGED <<now, user, bumpedAt, cache, tokens, link, spent, arrived>>

(* ... otherwise it is read from the database, and cached when the answer   *)
(* is back: the row may have changed, and been invalidated here, meanwhile. *)
AuthRead(r) ==
    /\ At(r, "auth")
    /\ cache[req[r].proc].until <= now
    /\ req' = [req EXCEPT ![r].pc = "fill", ![r].seen = user.tv]
    /\ UNCHANGED <<now, user, bumpedAt, cache, tokens, link, spent, arrived>>

AuthFill(r) ==
    /\ At(r, "fill")
    /\ cache' = [cache EXCEPT ![req[r].proc] = [tv |-> req[r].seen, until |-> now + TTL]]
    /\ Judge(r, req[r].seen)
    /\ UNCHANGED <<now, user, bumpedAt, tokens, link, spent, arrived>>

(* The limiter per organization refuses after the hook let the request in.  *)
Throttle(r) ==
    /\ At(r, "handle") /\ req[r].kind \in Protected
    /\ Done(r)
    /\ UNCHANGED <<now, user, bumpedAt, cache, tokens, link, spent, arrived>>

-----------------------------------------------------------------------------
(* The handlers.                                                            *)

(* GET /v1/auth/me and every other protected route: nothing here changes.   *)
Call(r) ==
    /\ At(r, "handle") /\ req[r].kind = "call"
    /\ Done(r)
    /\ UNCHANGED <<now, user, bumpedAt, cache, tokens, link, spent, arrived>>

(* POST /v1/auth/login reads password and version in one row; the token is  *)
(* signed after the membership has been looked up.                          *)
LoginVerdict(r) == IF req[r].pw = user.pw
                     THEN req' = [req EXCEPT ![r].pc = "sign", ![r].seen = user.tv]
                     ELSE Done(r)

Login(r) ==
    /\ At(r, "handle") /\ req[r].kind = "login"
    /\ LoginVerdict(r)
    /\ UNCHANGED <<now, user, bumpedAt, cache, tokens, link, spent, arrived>>

(* POST /v1/auth/switch-org: refused without a membership.                  *)
Switch(r) ==
    /\ At(r, "handle") /\ req[r].kind = "switch"
    /\ Goto(r, "sign") \/ Done(r)
    /\ UNCHANGED <<now, user, bumpedAt, cache, tokens, link, spent, arrived>>

(* POST /v1/auth/change-password verifies the present password.             *)
Change(r) ==
    /\ At(r, "handle") /\ req[r].kind = "change"
    /\ IF req[r].pw = user.pw THEN Goto(r, "bump") ELSE Done(r)
    /\ UNCHANGED <<now, user, bumpedAt, cache, tokens, link, spent, arrived>>

LogoutAll(r) ==
    /\ At(r, "handle") /\ req[r].kind = "logoutAll"
    /\ Goto(r, "bump")
    /\ UNCHANGED <<now, user, bumpedAt, cache, tokens, link, spent, arrived>>

(* POST /v1/auth/forgot-password inserts a row; the link is mailed.         *)
Forgot(r) ==
    /\ At(r, "handle") /\ req[r].kind = "forgot"
    /\ \E l \in Links :
         /\ link[l].state = "unsent"
         /\ link' = [link EXCEPT ![l] = [state |-> "open", until |-> now + LinkLife]]
    /\ Done(r)
    /\ UNCHANGED <<now, user, bumpedAt, cache, tokens, spent, arrived>>

(* POST /v1/auth/reset-password looks at the row, then claims it with an    *)
(* UPDATE ... WHERE used_at IS NULL.                                        *)
Usable(l) == link[l].state = "open" /\ link[l].until > now

Reset(r) ==
    /\ At(r, "handle") /\ req[r].kind = "reset" /\ req[r].seen = 0
    /\ IF Usable(req[r].link) THEN req' = [req EXCEPT ![r].seen = 1] ELSE Done(r)
    /\ UNCHANGED <<now, user, bumpedAt, cache, tokens, link, spent, arrived>>

(* Mistake: the claim trusts what was read and does not look at used_at.    *)
ResetClaimBlind(r) ==
    /\ At(r, "handle") /\ req[r].kind = "reset" /\ req[r].seen = 1
    /\ link' = [link EXCEPT ![req[r].link].state = "used"]
    /\ Goto(r, "bump")
    /\ UNCHANGED <<now, user, bumpedAt, cache, tokens, spent, arrived>>

ResetClaim(r) ==
    /\ At(r, "handle") /\ req[r].kind = "reset" /\ req[r].seen = 1
    /\ IF link[req[r].link].state = "open"
         THEN /\ link' = [link EXCEPT ![req[r].link].state = "used"]
              /\ Goto(r, "bump")
         ELSE UNCHANGED link /\ Done(r)
    /\ UNCHANGED <<now, user, bumpedAt, cache, tokens, spent, arrived>>

-----------------------------------------------------------------------------
(* bumpTokenVersion: an UPDATE that increments in SQL (with the new         *)
(* password, when there is one), then the cache of this process is dropped, *)
(* then the version is read back for the token of the answer.               *)

Sets(r) == req[r].kind \in {"change", "reset"}

(* Mistake: the UPDATE is sent again when its answer is late.               *)
BumpAgain(r) ==
    /\ At(r, "bump")
    /\ user' = [pw |-> IF Sets(r) THEN user.pw + 1 ELSE user.pw, tv |-> user.tv + 2]
    /\ bumpedAt' = [bumpedAt EXCEPT ![user.tv] = now]
    /\ spent' = spent
    /\ req' = [req EXCEPT ![r].pc = "invalidate", ![r].pw = user'.pw]
    /\ UNCHANGED <<now, cache, tokens, link, arrived>>

Bump(r) ==
    /\ At(r, "bump")
    /\ user' = [pw |-> IF Sets(r) THEN user.pw + 1 ELSE user.pw, tv |-> user.tv + 1]
    /\ bumpedAt' = [bumpedAt EXCEPT ![user.tv] = now]
    /\ spent' = [l \in Links |-> IF l = req[r].link THEN spent[l] + 1 ELSE spent[l]]
    /\ req' = [req EXCEPT ![r].pc = "invalidate", ![r].pw = user'.pw]
    /\ UNCHANGED <<now, cache, tokens, link, arrived>>

Invalidate(r) ==
    /\ At(r, "invalidate")
    /\ cache' = [cache EXCEPT ![req[r].proc] = Cold]
    /\ Goto(r, "sign")
    /\ UNCHANGED <<now, user, bumpedAt, tokens, link, spent, arrived>>

(* signJwt.  Login signs the version it read with the password; every other *)
(* handler reads the version again.  A reset or a login of a user without   *)
(* an organization gets no token.                                           *)
(* Mistake: login, too, reads the version again.                            *)
SignedVersionReread(r) == user.tv
SignedVersion(r) == IF req[r].kind = "login" THEN req[r].seen ELSE user.tv

Proof(r) == IF req[r].kind \in {"switch", "logoutAll"} THEN req[r].tok.proof ELSE req[r].pw

Sign(r) ==
    /\ At(r, "sign")
    /\ \/ tokens' = tokens \cup
            {Signed(SignedVersion(r), IF req[r].kind = "login" THEN "login" ELSE "session",
                    Proof(r))}
       \/ req[r].kind \in {"login", "reset"} /\ UNCHANGED tokens
    /\ Done(r)
    /\ UNCHANGED <<now, user, bumpedAt, cache, link, spent, arrived>>

-----------------------------------------------------------------------------
(* Time, and a process that is started again: its cache and its requests    *)
(* are gone.  A claimed link whose request dies stays claimed.              *)

Tick ==
    /\ now < MaxNow
    /\ \A r \in Requests : At(r, "idle") \/ now < req[r].began + Latency
    /\ now' = now + 1
    /\ tokens' = {t \in tokens : t.exp > now}     \* verifyJwt refuses the others from now on
    /\ UNCHANGED <<user, bumpedAt, cache, link, spent, req, arrived>>

Restart(p) ==
    /\ cache' = [cache EXCEPT ![p] = Cold]
    /\ req' = [r \in Requests |-> IF req[r].proc = p THEN Idle ELSE req[r]]
    /\ UNCHANGED <<now, user, bumpedAt, tokens, link, spent, arrived>>

Hook(r)    == AuthHit(r) \/ AuthRead(r) \/ AuthFill(r) \/ Throttle(r)
Handler(r) == \/ Call(r) \/ Login(r) \/ Switch(r) \/ Change(r) \/ LogoutAll(r)
              \/ Forgot(r) \/ Reset(r) \/ ResetClaim(r)
              \/ Bump(r) \/ Invalidate(r) \/ Sign(r)

Next ==
    \/ \E r \in Requests, p \in Procs, kind \in Public : StartPublic(r, kind, p)
    \/ \E r \in Requests, p \in Procs, kind \in Protected : StartProtected(r, kind, p)
    \/ \E r \in Requests : Hook(r) \/ Handler(r)
    \/ \E p \in Procs : Restart(p)
    \/ Tick

Spec == Init /\ [][Next]_vars

-----------------------------------------------------------------------------
(* A token that was revoked is let in no later than one cache lifetime (and *)
(* the latency of the read that filled the cache) after the revocation, in  *)
(* every process, whatever races the read of the version loses.  The code:  *)
(* currentTokenVersion and invalidateTokenVersion, which reaches only the   *)
(* process that runs it.                                                    *)
LetIn(r) == req[r].pc \in {"auth", "fill"} /\ req'[r].pc = "handle"

FadesInTime ==
    \A r \in Requests :
        LetIn(r) /\ req[r].tok.tv # user.tv
          => now < bumpedAt[req[r].tok.tv] + TTL + Latency

RevokedFades == [][FadesInTime]_vars

(* A session that login opened and that the database still honours rests on *)
(* the password that is in force: a change of password that overtakes a     *)
(* login leaves it with a dead token.                                       *)
LoginProvesPassword ==
    \A t \in tokens : t.via = "login" /\ t.tv = user.tv => t.proof = user.pw

(* "two concurrent submissions cannot both succeed": a reset link changes   *)
(* the password at most once, however many requests carry it.               *)
ResetOnce == \A l \in Links : spent[l] <= 1

(* What the comment in the change-password handler promises: once the       *)
(* password has changed, only sessions that rest on the new one are left.   *)
OnlyThisDevice == \A t \in tokens : t.tv = user.tv => t.proof = user.pw
=============================================================================
