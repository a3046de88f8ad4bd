------------------------------ MODULE Accounts ------------------------------
(***************************************************************************)
(* Accounts, for model checking: the sessions of one account, the members  *)
(* of one organization, or what it uses of its plan.  Of the others, each  *)
(* reads only identities, which never change (a token names an account, a  *)
(* row names a person, a video its organization), so that their steps      *)
(* commute, and a behaviour takes the steps of one.                        *)
(***************************************************************************)
EXTENDS Membership, TLC

CONSTANTS
    MaxCalls,           \* bound: requests of a behaviour of Sessions
    Procs, Links, TTL, Life, LinkLife, Latency, MaxNow,
    Slots, Videos, Lengths, EncodingLimit, AiLimit, StorageLimit, MaxMonth, MaxDeliveries

VARIABLES now, user, bumpedAt, cache, tokens, link, spent, call, called,
          month, video, used, slot, minutes, part

S == INSTANCE Sessions WITH MaxRequests <- MaxCalls, req <- call,
                            arrived <- called
U == INSTANCE Usage WITH spent <- minutes

ASSUME SessionsAssumption ==
    /\ {Life, LinkLife, Latency, MaxNow, MaxCalls} \subseteq Nat
    /\ TTL \in Nat \ {0} /\ "none" \notin Links

ASSUME UsageAssumption ==
    /\ {EncodingLimit, AiLimit, StorageLimit, MaxMonth, MaxDeliveries} \subseteq Nat
    /\ Lengths \subseteq Nat \ {0} /\ IsFiniteSet(Lengths)
    /\ IsFiniteSet(Videos) /\ IsFiniteSet(Slots) /\ Slots # {}

sessions == <<now, user, bumpedAt, cache, tokens, link, spent, call, called>>

usage == <<month, video, used, slot, minutes>>

AccountsInit == part \in {"sessions", "members", "usage"} /\ S!Init /\ Init /\ U!Init

SessionsNext == part = "sessions" /\ S!Next /\ UNCHANGED <<vars, usage>>
MembersNext  == part = "members" /\ Next /\ UNCHANGED <<sessions, usage>>
UsageNext    == part = "usage" /\ U!Next /\ UNCHANGED <<vars, sessions>>

AccountsNext == (SessionsNext \/ MembersNext \/ UsageNext) /\ UNCHANGED part

AccountsSpec == AccountsInit /\ [][AccountsNext]_<<vars, sessions, usage, part>>

\* Requests, processes, slots, videos and people other than the owner are alike.
\* The instance names its processes and videos as these people, whom a behaviour
\* of another part leaves as they were, and its slots as the requests: permuting
\* them at once is as sound, and cheaper.
Symmetry == Permutations(People \ {Owner}) \cup Permutations(Requests)

-----------------------------------------------------------------------------
\* The properties of Sessions and of Usage, of these instances of them.

\* A login's session that is still honoured rests on the password in force,
\* and a reset link changes the password at most once.
PasswordsGuarded == S!LoginProvesPassword /\ S!ResetOnce

\* What a plan limits is exceeded by the requests and jobs in flight at once and
\* no further: members and keys, minutes encoded and transcribed.
PlanLimitsHold == LimitsHoldBut /\ U!SpentWithinPlan

\* A revoked token is let in no later than a cache lifetime after.
RevokedFades == [][S!FadesInTime]_sessions
=============================================================================
