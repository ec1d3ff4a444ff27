------------------------------ MODULE Accounts ------------------------------
(***************************************************************************)
(* One user account: registration, login with its lockout, and the rotation *)
(* of refresh tokens.  Every handler is a chain of awaits over the users and *)
(* refresh_tokens tables with no transaction around it, so requests of the   *)
(* account's browsers interleave, and any of them can fail half way.        *)
(*                                                                          *)
(* Access tokens are signed and not stored: they are left out.              *)
(***************************************************************************)
EXTENDS Integers, FiniteSets

CONSTANTS
    Slots,      \* requests to /api/auth for the account served at one time
    Tokens,     \* refresh tokens, random and never drawn twice
    Nil,        \* no token
    MaxFailed,  \* MAX_FAILED_LOGINS
    MaxLapses   \* bound: how often a lockout runs out

ASSUME AccountsAssumption ==
    /\ IsFiniteSet(Slots) /\ Nil \notin Tokens
    /\ MaxFailed \in Nat \ {0} /\ MaxLapses \in Nat

VARIABLES
    registered, \* the users row exists
    failed,     \* users.failed_logins
    locked,     \* users.locked_until > now()
    lapses,     \* how often the lock has run out
    table,      \* unexpired rows of refresh_tokens
    root,       \* the first token of each token's session, Nil while not drawn
    pc,         \* what the request of a slot awaits next
    session,    \* the session it continues, Nil for a new one
    ended       \* sessions that a logout has ended

vars == <<registered, failed, locked, lapses, table, root, pc, session, ended>>

accountVars == <<registered, failed, locked, lapses>>
tokenVars == <<table, root, session, ended>>

Init ==
    /\ registered = FALSE /\ failed = 0 /\ locked = FALSE /\ lapses = 0
    /\ table = {} /\ ended = {}
    /\ root = [t \in Tokens |-> Nil]
    /\ pc = [s \in Slots |-> "idle"]
    /\ session = [s \in Slots |-> Nil]

At(s, label) == pc[s] = label
Goto(s, label) == pc' = [pc EXCEPT ![s] = label]
Drawn == {t \in Tokens : root[t] # Nil}
Sessions == {t \in Tokens : root[t] = t}

-----------------------------------------------------------------------------
(* POST /register and /login.                                               *)

\* The INSERT; a second one is refused by the UNIQUE email.
Register(s) ==
    /\ At(s, "idle")
    /\ registered' = TRUE
    /\ Goto(s, IF registered THEN "idle" ELSE "issue")
    /\ session' = [session EXCEPT ![s] = Nil]
    /\ UNCHANGED <<failed, locked, lapses, table, root, ended>>

\* Mutant: the lock is not looked at.
LookUpAlways(s) ==
    /\ At(s, "idle") /\ registered
    /\ Goto(s, "compare")
    /\ UNCHANGED <<accountVars, tokenVars>>

\* Mutant: a missing row is not looked for.
LookUpAnyone(s) ==
    /\ At(s, "idle") /\ ~locked
    /\ Goto(s, "compare")
    /\ UNCHANGED <<accountVars, tokenVars>>

\* The SELECT and the lockout check; 401 or 423 otherwise.
LookUp(s) ==
    /\ At(s, "idle") /\ registered /\ ~locked
    /\ Goto(s, "compare")
    /\ UNCHANGED <<accountVars, tokenVars>>

\* bcrypt.compare says no.  The lock is set from now, whether or not it was.
WrongPassword(s) ==
    /\ At(s, "compare")
    /\ failed' = failed + 1
    /\ locked' = (locked \/ failed + 1 >= MaxFailed)
    /\ Goto(s, "idle")
    /\ UNCHANGED <<registered, lapses, tokenVars>>

\* bcrypt.compare says yes: the count and the lock are reset, even a lock that
\* fell after this request had looked.
RightPassword(s) ==
    /\ At(s, "compare")
    /\ failed' = 0 /\ locked' = FALSE
    /\ session' = [session EXCEPT ![s] = Nil]
    /\ Goto(s, "issue")
    /\ UNCHANGED <<registered, lapses, table, root, ended>>

LockRunsOut ==
    /\ locked /\ lapses < MaxLapses
    /\ locked' = FALSE /\ lapses' = lapses + 1
    /\ UNCHANGED <<registered, failed, pc, tokenVars>>

-----------------------------------------------------------------------------
(* Refresh tokens.                                                          *)

\* issueRefreshToken: a new row, then the answer with its token.
Issue(s) ==
    /\ At(s, "issue")
    /\ \E t \in Tokens \ Drawn :
        /\ root' = [root EXCEPT ![t] = IF session[s] = Nil THEN t ELSE session[s]]
        /\ table' = table \cup {t}
    /\ Goto(s, "idle")
    /\ UNCHANGED <<accountVars, session, ended>>

\* Mutant: the old token is looked up and not claimed.
RefreshKeeps(s, t) ==
    /\ At(s, "idle") /\ t \in table
    /\ session' = [session EXCEPT ![s] = root[t]]
    /\ Goto(s, "issue")
    /\ UNCHANGED <<accountVars, table, root, ended>>

\* rotateRefreshToken up to its claim: DELETE ... RETURNING finds the row; for
\* a token that is no longer there the answer is 401.
Refresh(s, t) ==
    /\ At(s, "idle") /\ t \in table
    /\ table' = table \ {t}
    /\ session' = [session EXCEPT ![s] = root[t]]
    /\ Goto(s, "issue")
    /\ UNCHANGED <<accountVars, root, ended>>

\* Sessions whose token has been claimed and whose next one is not written yet.
Rotating == {session[s] : s \in {u \in Slots : At(u, "issue")}} \ {Nil}

\* Mutant: only one token of the user is revoked.
LogoutOne(s) ==
    /\ At(s, "idle") /\ Drawn # {}
    /\ \E t \in table : table' = table \ {t}
    /\ ended' = ended \cup (Sessions \ Rotating)
    /\ UNCHANGED <<accountVars, root, pc, session>>

\* revokeAllTokens, for whoever holds an access token.
Logout(s) ==
    /\ At(s, "idle") /\ Drawn # {}
    /\ table' = {}
    /\ ended' = ended \cup (Sessions \ Rotating)
    /\ UNCHANGED <<accountVars, root, pc, session>>

TokenExpires(t) ==
    /\ t \in table
    /\ table' = table \ {t}
    /\ UNCHANGED <<accountVars, root, pc, session, ended>>

\* A statement fails or the process dies; what has been done stays done.
Fails(s) ==
    /\ pc[s] \in {"compare", "issue"}
    /\ Goto(s, "idle")
    /\ UNCHANGED <<accountVars, tokenVars>>

Handle(s) ==
    \/ Register(s) \/ LookUp(s) \/ WrongPassword(s) \/ RightPassword(s)
    \/ Issue(s) \/ Logout(s) \/ Fails(s)
    \/ \E t \in Tokens : Refresh(s, t)

Next ==
    \/ \E s \in Slots : Handle(s)
    \/ \E t \in Tokens : TokenExpires(t)
    \/ LockRunsOut

Spec == Init /\ [][Next]_vars

-----------------------------------------------------------------------------
(* Properties.                                                              *)

AccountTypeOK ==
    /\ registered \in BOOLEAN /\ failed \in Nat
    /\ locked \in BOOLEAN /\ lapses \in 0..MaxLapses
    /\ pc \in [Slots -> {"idle", "compare", "issue"}]
    /\ ~registered => failed = 0 /\ \A s \in Slots : At(s, "idle")

TokenTypeOK ==
    /\ root \in [Tokens -> Tokens \cup {Nil}]
    /\ \A t \in Drawn : root[t] \in Sessions
    /\ session \in [Slots -> Sessions \cup {Nil}]
    /\ table \subseteq Drawn /\ ended \subseteq Sessions
    /\ ~registered => Drawn = {}

\* Types, and what the users row and the tokens' sessions mean to each other:
\* nothing is compared or issued for an account that is not there, and every
\* token's session has a first token.
AccountsTypeOK == AccountTypeOK /\ TokenTypeOK

\* Rotation is single-use: a session never has two tokens that work, nor one
\* that works while another is on its way, whatever browsers refresh at the
\* same moment with the same token and whatever fails half way.
OneTokenPerSession ==
    /\ \A t, u \in table : root[t] = root[u] => t = u
    /\ \A s \in Slots : At(s, "issue") =>
        /\ \A t \in table : root[t] # session[s]
        /\ \A r \in Slots : At(r, "issue") /\ session[r] = session[s] => r = s \/ session[s] = Nil

\* A logout is for all devices: no session that had started comes back to life,
\* unless its token was being exchanged at that moment.
LogoutEnds ==
    /\ \A t \in table : root[t] \notin ended
    /\ Rotating \cap ended = {}

\* Wrong guesses the earlier locks have let through.
Allowance == MaxFailed - 1 + Cardinality(Slots) * lapses

\* The lockout bounds wrong guesses in a row: MaxFailed - 1 of them, and then
\* each time the lock runs out only as many as had passed the check before the
\* next one fell.
GuessesBounded ==
    IF locked
    THEN failed + Cardinality({s \in Slots : At(s, "compare")}) <= Allowance + Cardinality(Slots)
    ELSE failed <= Allowance
=============================================================================
