------------------------------ MODULE Sessions ------------------------------
(***************************************************************************)
(* The tokens one user is signed in with: login and logout                 *)
(* (auth.controller.ts), authenticate (auth.middleware.ts), the blacklist  *)
(* in Redis and the two ways to a new password.  Clocks run in half        *)
(* seconds; what a token carries is in whole ones.                         *)
(***************************************************************************)
EXTENDS Integers

CONSTANTS
    Token, NoToken,     \* the tokens that may be signed, and none
    Visitor,    \* requests
    Life,       \* seconds a token lives ("1d")
    MaxTime     \* bound on the clock

ASSUME SessionsAssumption == NoToken \notin Token /\ Life \in Nat /\ MaxTime \in Nat

VARIABLES
    now,
    iat,        \* the second each token was issued in, or Never
    black,      \* when its blacklist key disappears
    changedAt,  \* passwordChangedAt, or Never
    visit,      \* each request: its next step, its token, the time or expiry it has computed,
                \* and whether its token had been signed out when it began
    out,        \* history: tokens signed out, by a logout or by a new password
    fresh,      \* history: tokens issued since the password was last written
    born        \* history: when each token was issued, to the half second

sessionState == <<now, iat, black, changedAt, visit, out, fresh>>
sessionVars == <<sessionState, born>>

Never == -1
NoVisit == [step |-> "idle", op |-> "get", token |-> NoToken, at |-> 0, barred |-> FALSE]

\* The clock starts halfway through a second
Sec(t) == (t + 1) \div 2
Issued == {t \in Token : iat[t] # Never}

SessionsInit ==
    /\ now = 0 /\ changedAt = Never
    /\ iat = [t \in Token |-> Never] /\ black = [t \in Token |-> 0]
    /\ visit = [p \in Visitor |-> NoVisit]
    /\ out = {} /\ fresh = {} /\ born = [t \in Token |-> Never]

On(p, s) == visit' = [visit EXCEPT ![p].step = s]
Gone(p) == visit' = [visit EXCEPT ![p] = NoVisit]

Sign(t) ==
    /\ t \notin Issued
    /\ iat' = [iat EXCEPT ![t] = Sec(now)]
    /\ fresh' = fresh \cup {t}

\* login compares a password and signs; a comparison with the old one counts as well
Login(t) == Sign(t) /\ UNCHANGED <<now, black, changedAt, visit, out>>

\* authenticate asks Redis, verifies the expiry, reads the user
Arrive(p, t) ==
    /\ visit[p].step = "idle" /\ t \in Issued
    /\ visit' = [visit EXCEPT ![p] = [NoVisit EXCEPT !.step = "blacklist", !.token = t, !.barred = t \in out]]
    /\ UNCHANGED <<now, iat, black, changedAt, out, fresh>>

IsBlacklisted(p) ==
    /\ visit[p].step = "blacklist"
    /\ IF black[visit[p].token] > now THEN Gone(p) ELSE On(p, "verify")
    /\ UNCHANGED <<now, iat, black, changedAt, out, fresh>>

Verify(p) ==
    /\ visit[p].step = "verify"
    /\ IF Sec(now) >= iat[visit[p].token] + Life THEN Gone(p) ELSE On(p, "user")
    /\ UNCHANGED <<now, iat, black, changedAt, out, fresh>>

\* The token's second is before that of the last change
Before(i) == changedAt # Never /\ i < Sec(changedAt)

ReadUser(p) ==
    /\ visit[p].step = "user"
    /\ IF Before(iat[visit[p].token]) THEN Gone(p) ELSE On(p, "in")
    /\ UNCHANGED <<now, iat, black, changedAt, out, fresh>>

-----------------------------------------------------------------------------
\* changePassword (of a request that was let in) and resetPassword take the time before they write it
TakeTime(p, op) ==
    /\ visit[p].step = IF op = "change" THEN "in" ELSE "idle"
    /\ visit' = [visit EXCEPT ![p].step = "write", ![p].op = op, ![p].at = now]
    /\ UNCHANGED <<now, iat, black, changedAt, out, fresh>>

\* What the new password signs out: the sessions that were a second old when it, and every other change
\* still under way, took its time
Outdated == {t \in Issued : \A q \in Visitor : visit[q].step = "write" => born[t] + 2 <= visit[q].at}

SetPassword(p) ==
    /\ visit[p].step = "write"
    /\ changedAt' = visit[p].at
    /\ out' = out \cup Outdated
    /\ fresh' = {}
    /\ IF visit[p].op = "change" THEN On(p, "revoke") ELSE Gone(p)
    /\ UNCHANGED <<now, iat, black>>

\* logout asks for no more than the token
Logout(p, t) ==
    /\ visit[p].step = "idle" /\ t \in Issued
    /\ visit' = [visit EXCEPT ![p] = [NoVisit EXCEPT !.step = "revoke", !.op = "logout", !.token = t]]
    /\ UNCHANGED <<now, iat, black, changedAt, out, fresh>>

\* Mutant: Math.round in place of Math.floor
SecondsRounded(t) == iat[t] + Life - (now + 2) \div 2

\* The seconds a token has left
Seconds(t) == iat[t] + Life - Sec(now)

\* What follows the blacklisting: logout answers, updatePassword signs a token for its caller
Revoked(p) ==
    /\ out' = out \cup {visit[p].token}
    /\ IF visit[p].op = "change" THEN On(p, "sign") ELSE Gone(p)

\* revokeToken computes them; there is nothing to keep if none are left
RevokeToken(p) ==
    /\ visit[p].step = "revoke"
    /\ IF Seconds(visit[p].token) > 0
       THEN visit' = [visit EXCEPT ![p].step = "set", ![p].at = Seconds(visit[p].token)] /\ UNCHANGED out
       ELSE Revoked(p)
    /\ UNCHANGED <<now, iat, black, changedAt, fresh>>

\* SET EX
Blacklist(p) ==
    /\ visit[p].step = "set"
    /\ black' = [black EXCEPT ![visit[p].token] = now + 2 * visit[p].at]
    /\ Revoked(p)
    /\ UNCHANGED <<now, iat, changedAt, fresh>>

SignAgain(p, t) ==
    /\ visit[p].step = "sign"
    /\ Sign(t)
    /\ Gone(p)
    /\ UNCHANGED <<now, black, changedAt, out>>

\* The answer, a wrong password, a failing Redis or database, or the end of the process
LeaveVisit(p) ==
    /\ visit[p].step # "idle"
    /\ Gone(p)
    /\ UNCHANGED <<now, iat, black, changedAt, out, fresh>>

HalfSecond ==
    /\ now < MaxTime
    /\ now' = now + 1
    /\ UNCHANGED <<iat, black, changedAt, visit, out, fresh>>

SessionsStep ==
    \/ \E t \in Token : Login(t)
    \/ \E p \in Visitor : \/ IsBlacklisted(p) \/ Verify(p) \/ ReadUser(p) \/ SetPassword(p)
                          \/ RevokeToken(p) \/ Blacklist(p) \/ LeaveVisit(p)
                          \/ \E op \in {"change", "reset"} : TakeTime(p, op)
                          \/ \E t \in Token : Arrive(p, t) \/ Logout(p, t) \/ SignAgain(p, t)
    \/ HalfSecond

SessionsNext ==
    /\ SessionsStep
    /\ born' = [t \in Token |-> IF t \in Issued' \ Issued THEN now ELSE born[t]]

SessionsTypeOK ==
    /\ now \in 0..MaxTime /\ changedAt \in {Never} \cup 0..MaxTime
    /\ iat \in [Token -> {Never} \cup 0..MaxTime] /\ black \in [Token -> Nat]
    /\ visit \in [Visitor -> [step : {"idle", "blacklist", "verify", "user", "in", "write", "revoke", "set", "sign"},
                              op : {"get", "change", "reset", "logout"}, token : Token \cup {NoToken}, at : Nat, barred : BOOLEAN]]
    /\ out \subseteq Token /\ fresh \subseteq Token /\ born \in [Token -> {Never} \cup 0..MaxTime]

\* "Changing or resetting a password signs out every session issued before it" (README.md:323), and so
\* does a logout: no request that begins with a token signed out by then is let in, at any fraction of a
\* second; and no token issued since the last change is taken for an older one.  Of the new password this
\* is true of sessions a full second older than it.  A token issued earlier in the second of the change
\* is as old, to authenticate, as the change, and stays in.  Two changes at once write the times they have
\* taken before, and the one written last may be the earlier: it lets in again what is younger than it,
\* so a session has to be older than every change under way (Outdated).
SignOutExact ==
    /\ \A p \in Visitor : visit[p].step = "in" => ~visit[p].barred
    /\ \A t \in fresh : ~Before(iat[t])
=============================================================================
