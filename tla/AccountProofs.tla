--------------------------- MODULE AccountProofs ---------------------------
(***************************************************************************)
(* What holds for every user's sessions, insights, deliveries, emailed     *)
(* links, PIN and spending limits: any number of tokens, requests,         *)
(* payments, webhooks, links, guesses and worker deaths; and the types of  *)
(* all the parts of MCAccounts together.                                   *)
(***************************************************************************)
EXTENDS MCAccounts, ConsoleProofs, Sums, TLAPS

-----------------------------------------------------------------------------
\* Sessions

\* A token of an earlier second than the last change and than every change under way is over, and so is
\* one past its life
Past(i) == Before(i) /\ \A q \in Visitor : visit[q].step = "write" => i < Sec(visit[q].at)
Expired(t) == Sec(now) >= iat[t] + Life
Dead(t) == Past(iat[t]) \/ Expired(t) \/ black[t] >= 2 * (iat[t] + Life) - 1

Carrying == {"blacklist", "verify", "user", "in", "revoke", "set"}

VisitSet == [step : {"idle", "blacklist", "verify", "user", "in", "write", "revoke", "set", "sign"},
             op : {"get", "change", "reset", "logout"}, token : Token \cup {NoToken}, at : Nat, barred : BOOLEAN]

\* What a request has established on its way
VisitOK(p) ==
    LET v == visit[p]
    IN /\ v.step \in Carrying \/ (v.step = "write" /\ v.op = "change") => v.token \in Issued
       /\ v.step = "blacklist" /\ v.barred => Dead(v.token)
       /\ v.step = "verify" /\ v.barred => Past(iat[v.token]) \/ Expired(v.token)
       /\ v.step = "user" /\ v.barred => Past(iat[v.token])
       /\ v.step = "in" => ~v.barred
       /\ v.step = "write" => v.at <= now
       /\ v.step = "set" => v.at + Sec(now) >= iat[v.token] + Life

TimesOK ==
    /\ now \in Nat /\ changedAt \in {Never} \cup Nat /\ changedAt <= now
    /\ iat \in [Token -> {Never} \cup Nat] /\ black \in [Token -> Nat]

SessionsRest ==
    /\ TimesOK
    /\ visit \in [Visitor -> VisitSet]
    /\ \A p \in Visitor : VisitOK(p)
    /\ \A t \in out : t \in Issued /\ Dead(t)
    /\ \A t \in fresh : t \in Issued /\ ~Before(iat[t])

\* A token carries the second it was issued in
Exact == \A t \in Issued : born[t] \in Nat /\ iat[t] = Sec(born[t])

SessionsInv == SessionsRest /\ Exact /\ born \in [Token -> {Never} \cup Nat]

SessionsSpec == SessionsInit /\ [][SessionsNext]_sessionVars

\* Whole seconds
LEMMA Seconds2 == \A t \in Nat : Sec(t) \in Nat /\ 2 * Sec(t) <= t + 1 /\ t < 2 * Sec(t) + 1
BY DEF Sec

LEMMA SecMonotone == \A s, t \in Nat : s <= t => Sec(s) <= Sec(t)
BY Seconds2, \A s, t \in Nat : s <= t /\ Sec(s) \in Nat /\ Sec(t) \in Nat /\ 2 * Sec(s) <= s + 1 /\ t < 2 * Sec(t) + 1 => Sec(s) <= Sec(t)

LEMMA SecondOlder == \A s, t \in Nat : s + 2 <= t => Sec(s) < Sec(t)
BY Seconds2, \A s, t \in Nat : s + 2 <= t /\ Sec(s) \in Nat /\ Sec(t) \in Nat /\ 2 * Sec(s) <= s + 1 /\ t < 2 * Sec(t) + 1 => Sec(s) < Sec(t)

LEMMA SessionsInitOK == SessionsInit => SessionsInv
<1> SUFFICES ASSUME SessionsInit PROVE SessionsInv
    OBVIOUS
<1>1. TimesOK
    BY DEF SessionsInit, TimesOK, Never
<1>2. NoVisit \in VisitSet /\ NoVisit.step = "idle"
    BY DEF NoVisit, VisitSet
<1>3. ASSUME NEW p \in Visitor PROVE visit[p] = NoVisit /\ VisitOK(p)
    BY <1>3, <1>2 DEF SessionsInit, VisitOK, Carrying
<1>4. Exact /\ born \in [Token -> {Never} \cup Nat]
    BY DEF SessionsInit, Exact, Issued
<1> QED BY <1>1, <1>2, <1>3, <1>4 DEF SessionsInit, SessionsInv, SessionsRest

\* What is over stays over: no token is issued twice, blacklist keys are not shortened, and a change of
\* the password has the present time, or one that another change under way has had
Onward ==
    /\ TimesOK' /\ now <= now'
    /\ \A t \in Issued : t \in Issued' /\ iat'[t] = iat[t]
    /\ \A t \in Issued : black'[t] = black[t] \/ black'[t] >= 2 * (iat[t] + Life) - 1
    /\ changedAt' = changedAt \/ \E p \in Visitor : visit[p].step = "write" /\ changedAt' = visit[p].at
    /\ \A p \in Visitor : visit'[p].step = "write" =>
            visit'[p].at = now \/ (visit[p].step = "write" /\ visit'[p].at = visit[p].at)

LEMMA OverStays ==
    ASSUME TimesOK, visit \in [Visitor -> VisitSet], Onward, NEW t \in Issued
    PROVE  /\ Past(iat[t]) => Past(iat[t])'
           /\ Expired(t) => Expired(t)'
           /\ Dead(t) => Dead(t)'
<1> USE SessionsAssumption
<1>1. iat[t] \in Nat /\ iat'[t] = iat[t] /\ t \in Token /\ black[t] \in Nat /\ black'[t] \in Nat
    BY DEF TimesOK, Onward, Issued, Never
<1>2. Past(iat[t]) => Past(iat[t])'
    <2> SUFFICES ASSUME Past(iat[t]) PROVE Past(iat[t])'
        OBVIOUS
    <2>1. changedAt \in Nat /\ changedAt <= now /\ now \in Nat /\ iat[t] < Sec(changedAt)
        BY DEF TimesOK, Past, Before, Never
    <2>2. Sec(changedAt) <= Sec(now) /\ Sec(changedAt) \in Nat /\ Sec(now) \in Nat
        BY <2>1, SecMonotone, Seconds2
    <2>3. iat[t] < Sec(now)
        BY <1>1, <2>1, <2>2
    <2>4. \A q \in Visitor : visit[q].step = "write" => iat[t] < Sec(visit[q].at) /\ visit[q].at \in Nat
        BY DEF Past, VisitSet
    <2>5. Before(iat[t])'
        BY <1>1, <2>1, <2>4 DEF Onward, Before, Never
    <2>6. \A q \in Visitor : visit'[q].step = "write" => iat[t] < Sec(visit'[q].at)
        BY <2>3, <2>4 DEF Onward
    <2> QED BY <1>1, <2>5, <2>6 DEF Past
<1>3. Expired(t) => Expired(t)'
    <2>1. Sec(now) <= Sec(now') /\ Sec(now) \in Nat /\ Sec(now') \in Nat
        BY SecMonotone, Seconds2 DEF TimesOK, Onward
    <2> QED BY <1>1, <2>1 DEF Expired
<1> QED BY <1>1, <1>2, <1>3 DEF Dead, Onward

\* Requests that a step leaves alone keep what they have established
LEMMA VisitStays ==
    ASSUME SessionsRest, Onward, NEW p \in Visitor, visit'[p] = visit[p]
    PROVE  VisitOK(p)'
<1> USE SessionsAssumption
<1>1. TimesOK /\ VisitOK(p) /\ visit[p] \in VisitSet /\ visit \in [Visitor -> VisitSet]
    BY DEF SessionsRest
<1>2. visit[p].step = "write" => visit[p].at \in Nat /\ visit[p].at <= now'
    BY <1>1 DEF VisitOK, TimesOK, Onward, VisitSet
<1>3. visit[p].step = "set" => visit[p].at + Sec(now') >= iat'[visit[p].token] + Life
    <2> SUFFICES ASSUME visit[p].step = "set" PROVE visit[p].at + Sec(now') >= iat'[visit[p].token] + Life
        OBVIOUS
    <2>1. Sec(now) <= Sec(now') /\ Sec(now) \in Nat /\ Sec(now') \in Nat
        BY <1>1, SecMonotone, Seconds2 DEF TimesOK, Onward
    <2>2. visit[p].token \in Issued /\ visit[p].at \in Nat /\ visit[p].at + Sec(now) >= iat[visit[p].token] + Life
        BY <1>1 DEF VisitOK, Carrying, VisitSet
    <2>3. iat'[visit[p].token] = iat[visit[p].token] /\ iat[visit[p].token] \in {Never} \cup Nat
        BY <2>2 DEF Onward, TimesOK, Issued
    <2> QED BY <2>1, <2>2, <2>3 DEF Never
<1>4. visit[p].step \in Carrying \/ (visit[p].step = "write" /\ visit[p].op = "change") =>
        visit[p].token \in Issued /\ visit[p].token \in Issued' /\ iat'[visit[p].token] = iat[visit[p].token]
    BY <1>1 DEF VisitOK, Onward
<1>5. visit[p].step \in Carrying =>
        LET t == visit[p].token
        IN /\ Past(iat[t]) => Past(iat[t])'
           /\ Expired(t) => Expired(t)'
           /\ Dead(t) => Dead(t)'
    BY <1>1, <1>4, OverStays
<1> QED BY <1>1, <1>2, <1>3, <1>4, <1>5 DEF VisitOK, Carrying

\* A step of the request p alone
LEMMA OneOnward ==
    ASSUME SessionsRest, NEW p \in Visitor, NEW v \in VisitSet,
           visit' = [visit EXCEPT ![p] = v], UNCHANGED <<now, iat, black, changedAt>>,
           v.step = "write" => v.at = now \/ (visit[p].step = "write" /\ v.at = visit[p].at)
    PROVE  Onward
<1>1. \A q \in Visitor : visit'[q] = IF q = p THEN v ELSE visit[q]
    BY DEF SessionsRest
<1> QED BY <1>1 DEF Onward, SessionsRest, TimesOK, Issued, Never

\* A step of the request p that changes neither the password nor the sets of tokens
LEMMA OneVisit ==
    ASSUME SessionsRest, NEW p \in Visitor, NEW v \in VisitSet,
           visit' = [visit EXCEPT ![p] = v], UNCHANGED <<now, iat, black, changedAt, out, fresh>>,
           v.step = "write" => v.at = now \/ (visit[p].step = "write" /\ v.at = visit[p].at),
           VisitOK(p)'
    PROVE  SessionsRest'
<1>1. Onward
    BY OneOnward
<1>2. ASSUME NEW q \in Visitor PROVE VisitOK(q)'
    <2>1. CASE q = p
        BY <2>1
    <2>2. CASE q # p
        <3>1. visit'[q] = visit[q]
            BY <2>2 DEF SessionsRest
        <3> QED BY <3>1, <1>1, VisitStays
    <2> QED BY <2>1, <2>2
<1>3. \A t \in Issued : Dead(t) => Dead(t)'
    BY <1>1, OverStays DEF SessionsRest
<1> QED BY <1>1, <1>2, <1>3 DEF SessionsRest, Onward, Issued, Before

LEMMA SessionsStepOK ==
    ASSUME SessionsRest, Exact, [SessionsStep]_sessionState
    PROVE  SessionsRest'
<1> USE SessionsAssumption
<1>0. TimesOK /\ visit \in [Visitor -> VisitSet] /\ NoVisit \in VisitSet
    BY DEF SessionsRest, NoVisit, VisitSet
<1>2. ASSUME NEW p \in Visitor, Gone(p), UNCHANGED <<now, iat, black, changedAt, out, fresh>> PROVE SessionsRest'
    <2>1. visit'[p] = NoVisit /\ visit' = [visit EXCEPT ![p] = NoVisit]
        BY <1>0, <1>2 DEF Gone
    <2>2. VisitOK(p)'
        BY <2>1 DEF VisitOK, NoVisit, Carrying
    <2> QED BY <1>0, <1>2, <2>1, <2>2, OneVisit DEF NoVisit
<1>3. ASSUME NEW p \in Visitor, NEW t \in Token, Arrive(p, t) PROVE SessionsRest'
    <2>0. PICK b \in BOOLEAN : b = (t \in out)
        <3>1. CASE t \in out
            <4>1. TRUE = (t \in out)
                BY <3>1
            <4> QED BY <4>1
        <3>2. CASE t \notin out
            <4>1. FALSE = (t \in out)
                BY <3>2
            <4> QED BY <4>1
        <3> QED BY <3>1, <3>2
    <2> DEFINE v == [NoVisit EXCEPT !.step = "blacklist", !.token = t, !.barred = b]
    <2>1. visit' = [visit EXCEPT ![p] = v] /\ v \in VisitSet /\ visit'[p] = v
        <3>1. v \in VisitSet
            BY DEF NoVisit, VisitSet
        <3>2. visit' = [visit EXCEPT ![p] = v]
            BY <1>3, <2>0 DEF Arrive
        <3> QED BY <1>0, <3>1, <3>2
    <2>2. t \in Issued /\ (t \in out => Dead(t)) /\ UNCHANGED <<now, iat, black, changedAt, out, fresh>>
        BY <1>3 DEF Arrive, SessionsRest
    <2>3. v.step = "blacklist" /\ v.token = t /\ (v.barred => t \in out)
        BY <2>0 DEF NoVisit
    <2>4. t \in Issued' /\ (v.barred => Dead(t)')
        <3>1. Onward
            <4> HIDE DEF v
            <4> QED BY <2>1, <2>2, <2>3, OneOnward
        <3> QED BY <1>0, <2>2, <2>3, <3>1, OverStays DEF Onward
    <2>5. VisitOK(p)'
        BY <2>1, <2>3, <2>4 DEF VisitOK, Carrying
    <2> HIDE DEF v
    <2> QED BY <2>1, <2>2, <2>3, <2>5, OneVisit
<1>4. ASSUME NEW p \in Visitor, IsBlacklisted(p) \/ Verify(p) \/ ReadUser(p) PROVE SessionsRest'
    <2>1. UNCHANGED <<now, iat, black, changedAt, out, fresh>>
        BY <1>4 DEF IsBlacklisted, Verify, ReadUser
    <2>2. CASE Gone(p)
        BY <2>1, <2>2, <1>2
    <2>3. CASE ~Gone(p)
        <3> DEFINE t == visit[p].token
        <3>1. PICK s \in {"verify", "user", "in"} :
                  /\ visit' = [visit EXCEPT ![p].step = s]
                  /\ visit[p].step \in {"blacklist", "verify", "user"}
                  /\ s = "verify" => visit[p].step = "blacklist" /\ ~(black[t] > now)
                  /\ s = "user" => visit[p].step = "verify" /\ ~(Sec(now) >= iat[t] + Life)
                  /\ s = "in" => visit[p].step = "user" /\ ~Past(iat[t])
            BY <1>4, <2>3 DEF IsBlacklisted, Verify, ReadUser, On, Past
        <3> DEFINE v == [visit[p] EXCEPT !.step = s]
        <3>2. visit' = [visit EXCEPT ![p] = v] /\ v \in VisitSet /\ visit'[p] = v
            BY <1>0, <3>1 DEF VisitSet
        <3>3. v.step = s /\ v.token = t /\ v.barred = visit[p].barred /\ v.op = visit[p].op
            BY <1>0 DEF VisitSet
        <3>4. VisitOK(p) /\ t \in Issued /\ visit[p].barred \in BOOLEAN
            BY <1>0, <3>1 DEF SessionsRest, VisitOK, Carrying, VisitSet
        <3>5. now \in Nat /\ iat[t] \in Nat /\ black[t] \in Nat /\ Sec(now) \in Nat /\ now < 2 * Sec(now) + 1
            BY <1>0, <3>4, Seconds2 DEF TimesOK, Issued, Never
        <3>6. black[t] >= 2 * (iat[t] + Life) - 1 /\ ~(black[t] > now) => Expired(t)
            BY <3>5 DEF Expired
        <3>7. /\ s = "verify" /\ v.barred => Past(iat[t]) \/ Expired(t)
              /\ s = "user" /\ v.barred => Past(iat[t])
              /\ s = "in" => ~v.barred
            <4> HIDE DEF v, t
            <4>1. CASE s = "verify"
                BY <4>1, <3>1, <3>3, <3>4, <3>6 DEF VisitOK, Dead, t
            <4>2. CASE s = "user"
                BY <4>2, <3>1, <3>3, <3>4 DEF VisitOK, Expired, t
            <4>3. CASE s = "in"
                BY <4>3, <3>1, <3>3, <3>4 DEF VisitOK, t
            <4> QED BY <3>1, <4>1, <4>2, <4>3
        <3>8. \A u \in Issued : /\ iat'[u] = iat[u] /\ u \in Issued'
                                /\ Past(iat[u]) => Past(iat[u])'
                                /\ Expired(u) => Expired(u)'
            <4>1. Onward
                <5> HIDE DEF v
                <5> QED BY <2>1, <3>1, <3>2, <3>3, OneOnward
            <4> QED BY <1>0, <4>1, OverStays DEF Onward
        <3>9. VisitOK(p)'
            <4> HIDE DEF v
            <4> QED BY <2>1, <3>1, <3>2, <3>3, <3>4, <3>7, <3>8 DEF VisitOK, Carrying
        <3> HIDE DEF v
        <3> QED BY <2>1, <3>1, <3>2, <3>3, <3>9, OneVisit
    <2> QED BY <2>2, <2>3
<1>5. ASSUME NEW p \in Visitor, NEW op \in {"change", "reset"}, TakeTime(p, op) PROVE SessionsRest'
    <2> DEFINE v == [visit[p] EXCEPT !.step = "write", !.op = op, !.at = now]
    <2>1. visit' = [visit EXCEPT ![p] = v] /\ v \in VisitSet /\ visit'[p] = v
        BY <1>0, <1>5 DEF TakeTime, VisitSet, TimesOK
    <2>2. v.step = "write" /\ v.op = op /\ v.at = now /\ v.token = visit[p].token
        BY <1>0 DEF VisitSet
    <2>3. UNCHANGED <<now, iat, black, changedAt, out, fresh>> /\ (op = "change" => visit[p].step = "in")
        BY <1>5 DEF TakeTime
    <2>4. op = "change" => v.token \in Issued'
        BY <2>2, <2>3 DEF SessionsRest, VisitOK, Carrying, Issued
    <2>5. VisitOK(p)'
        <3> HIDE DEF v
        <3> QED BY <1>0, <2>1, <2>2, <2>3, <2>4 DEF VisitOK, Carrying, TimesOK
    <2> HIDE DEF v
    <2> QED BY <2>1, <2>2, <2>3, <2>5, OneVisit
\* A request that goes on with its token to revoke it
<1>6. ASSUME NEW p \in Visitor, NEW t \in Token, Logout(p, t) PROVE SessionsRest'
    <2> DEFINE v == [NoVisit EXCEPT !.step = "revoke", !.op = "logout", !.token = t]
    <2>1. visit' = [visit EXCEPT ![p] = v] /\ v \in VisitSet /\ visit'[p] = v
        BY <1>0, <1>6 DEF Logout, NoVisit, VisitSet
    <2>2. v.step = "revoke" /\ v.token = t /\ t \in Issued' /\ UNCHANGED <<now, iat, black, changedAt, out, fresh>>
        BY <1>6 DEF Logout, NoVisit, Issued
    <2>3. VisitOK(p)'
        BY <2>1, <2>2 DEF VisitOK, Carrying
    <2> HIDE DEF v
    <2> QED BY <2>1, <2>2, <2>3, OneVisit
<1>7. ASSUME NEW p \in Visitor, RevokeToken(p), Seconds(visit[p].token) > 0 PROVE SessionsRest'
    <2> DEFINE t == visit[p].token
               v == [visit[p] EXCEPT !.step = "set", !.at = Seconds(t)]
    <2>1. VisitOK(p) /\ t \in Issued /\ iat[t] \in Nat
        BY <1>0, <1>7 DEF SessionsRest, RevokeToken, VisitOK, Carrying, TimesOK, Issued, Never
    <2>2. Sec(now) \in Nat /\ Seconds(t) \in Nat /\ Seconds(t) + Sec(now) = iat[t] + Life
        <3>1. Sec(now) \in Nat
            BY <1>0, Seconds2 DEF TimesOK
        <3> QED BY <1>7, <2>1, <3>1 DEF Seconds
    <2>3. visit' = [visit EXCEPT ![p] = v] /\ v \in VisitSet /\ visit'[p] = v
        BY <1>0, <1>7, <2>2 DEF RevokeToken, VisitSet
    <2>4. v.step = "set" /\ v.token = t /\ v.at = Seconds(t)
        BY <1>0 DEF VisitSet
    <2>5. UNCHANGED <<now, iat, black, changedAt, out, fresh>>
        BY <1>7 DEF RevokeToken
    <2>6. VisitOK(p)'
        <3> HIDE DEF v, t
        <3> QED BY <2>1, <2>2, <2>3, <2>4, <2>5 DEF VisitOK, Carrying, Issued
    <2> HIDE DEF v
    <2> QED BY <2>3, <2>4, <2>5, <2>6, OneVisit
\* The token is signed out: it is over, or its key has just been set for the rest of its life
<1>8. ASSUME NEW p \in Visitor, NEW t \in Issued, t = visit[p].token, Revoked(p), Onward, Dead(t)',
             UNCHANGED <<now, iat, changedAt, fresh>>, visit[p].step # "write"
      PROVE  SessionsRest'
    <2>1. PICK v \in VisitSet : visit' = [visit EXCEPT ![p] = v] /\ v.step \in {"sign", "idle"}
        <3>1. NoVisit.step = "idle" /\ [visit[p] EXCEPT !.step = "sign"] \in VisitSet
            BY <1>0 DEF NoVisit, VisitSet
        <3> QED BY <1>0, <1>8, <3>1 DEF Revoked, On, Gone, VisitSet
    <2>2. ASSUME NEW q \in Visitor PROVE VisitOK(q)'
        <3>1. CASE q = p
            <4>1. visit'[p] = v
                BY <1>0, <2>1
            <4> QED BY <2>1, <3>1, <4>1 DEF VisitOK, Carrying
        <3>2. CASE q # p
            <4>1. visit'[q] = visit[q]
                BY <1>0, <2>1, <3>2
            <4> QED BY <4>1, <1>8, VisitStays
        <3> QED BY <3>1, <3>2
    <2>3. visit' \in [Visitor -> VisitSet]
        BY <1>0, <2>1
    <2>4. \A u \in out' : u \in Issued' /\ Dead(u)'
        BY <1>0, <1>8, OverStays DEF Revoked, SessionsRest, Onward
    <2>5. \A u \in fresh' : u \in Issued' /\ ~Before(iat[u])'
        BY <1>8 DEF SessionsRest, Issued, Before
    <2> QED BY <1>8, <2>2, <2>3, <2>4, <2>5 DEF SessionsRest, Onward
<1>9. ASSUME NEW p \in Visitor, RevokeToken(p), ~(Seconds(visit[p].token) > 0) PROVE SessionsRest'
    <2> DEFINE t == visit[p].token
    <2>1. VisitOK(p) /\ t \in Issued /\ iat[t] \in Nat
        BY <1>0, <1>9 DEF SessionsRest, RevokeToken, VisitOK, Carrying, TimesOK, Issued, Never
    <2>2. Sec(now) \in Nat /\ Expired(t)
        <3>1. Sec(now) \in Nat
            BY <1>0, Seconds2 DEF TimesOK
        <3> QED BY <1>9, <2>1, <3>1 DEF Seconds, Expired
    <2>3. Revoked(p) /\ UNCHANGED <<now, iat, black, changedAt, fresh>> /\ visit[p].step = "revoke"
        BY <1>9 DEF RevokeToken
    <2>4. Onward
        BY <1>0, <2>3 DEF Onward, TimesOK, Issued, Never, Revoked, On, Gone, NoVisit, VisitSet
    <2>5. \A u \in Issued : Expired(u) => Dead(u)'
        BY <1>0, <2>4, OverStays DEF Dead
    <2> HIDE DEF t
    <2> QED BY <2>1, <2>2, <2>3, <2>4, <2>5, <1>8 DEF t
<1>10. ASSUME NEW p \in Visitor, Blacklist(p) PROVE SessionsRest'
    <2> DEFINE t == visit[p].token
    <2>1. VisitOK(p) /\ t \in Issued /\ iat[t] \in Nat /\ visit[p].at \in Nat /\ visit[p].step = "set"
        BY <1>0, <1>10 DEF SessionsRest, Blacklist, VisitOK, Carrying, TimesOK, Issued, Never, VisitSet
    <2>2. now \in Nat /\ Sec(now) \in Nat /\ 2 * Sec(now) <= now + 1 /\ visit[p].at + Sec(now) >= iat[t] + Life
        BY <1>0, <2>1, Seconds2 DEF TimesOK, VisitOK
    <2>3. black' = [black EXCEPT ![t] = now + 2 * visit[p].at] /\ Revoked(p) /\ UNCHANGED <<now, iat, changedAt, fresh>>
        BY <1>10 DEF Blacklist
    <2>4. now + 2 * visit[p].at \in Nat /\ now + 2 * visit[p].at >= 2 * (iat[t] + Life) - 1
        BY <2>1, <2>2
    <2> HIDE DEF t
    <2>5. t \in Token /\ black \in [Token -> Nat] /\ black'[t] >= 2 * (iat[t] + Life) - 1 /\ black' \in [Token -> Nat]
        BY <1>0, <2>1, <2>3, <2>4 DEF Issued, TimesOK
    <2>6. Onward
        BY <1>0, <2>3, <2>5 DEF Onward, TimesOK, Issued, Never, Revoked, On, Gone, NoVisit, VisitSet
    <2>7. \A u \in Issued : black'[u] >= 2 * (iat[u] + Life) - 1 => Dead(u)'
        BY <2>3 DEF Dead
    <2> QED BY <2>1, <2>3, <2>5, <2>6, <2>7, <1>8 DEF t
<1>11. ASSUME NEW p \in Visitor, SetPassword(p) PROVE SessionsRest'
    <2>1. VisitOK(p) /\ visit[p].step = "write" /\ visit[p].at \in Nat /\ visit[p].at <= now
        BY <1>0, <1>11 DEF SessionsRest, SetPassword, VisitOK, VisitSet
    <2>2. changedAt' = visit[p].at /\ UNCHANGED <<now, iat, black>> /\ fresh' = {}
          /\ out' = out \cup Outdated
        BY <1>11 DEF SetPassword
    <2>4. PICK v \in VisitSet : visit' = [visit EXCEPT ![p] = v] /\ v.step \in {"revoke", "idle"}
                               /\ (v.step = "revoke" => v.token \in Issued')
        <3>1. CASE visit[p].op = "change"
            <4> DEFINE w == [visit[p] EXCEPT !.step = "revoke"]
            <4>1. w \in VisitSet /\ w.step = "revoke" /\ w.token = visit[p].token
                BY <1>0 DEF VisitSet
            <4>2. w.token \in Issued'
                BY <2>1, <2>2, <3>1, <4>1 DEF VisitOK, Issued
            <4>3. visit' = [visit EXCEPT ![p] = w]
                BY <1>0, <1>11, <3>1 DEF SetPassword, On
            <4> HIDE DEF w
            <4> QED BY <4>1, <4>2, <4>3
        <3>2. CASE visit[p].op # "change"
            <4>1. NoVisit.step = "idle" /\ visit' = [visit EXCEPT ![p] = NoVisit]
                BY <1>11, <3>2 DEF SetPassword, Gone, NoVisit
            <4> QED BY <1>0, <4>1
        <3> QED BY <3>1, <3>2
    <2>3. Onward
        <3>1. \A q \in Visitor : visit'[q].step = "write" => visit'[q] = visit[q] /\ visit[q].step = "write"
            BY <1>0, <2>4
        <3> QED BY <1>0, <2>1, <2>2, <3>1 DEF Onward, TimesOK, Issued
    <2>5. ASSUME NEW q \in Visitor PROVE VisitOK(q)'
        <3>1. CASE q = p
            <4>1. visit'[p] = v
                BY <1>0, <2>4
            <4> QED BY <2>4, <3>1, <4>1 DEF VisitOK, Carrying
        <3>2. CASE q # p
            <4>1. visit'[q] = visit[q]
                BY <1>0, <2>4, <3>2
            <4> QED BY <4>1, <2>3, VisitStays
        <3> QED BY <3>1, <3>2
    <2>6. visit' \in [Visitor -> VisitSet]
        BY <1>0, <2>4
    <2>7. ASSUME NEW u \in out' PROVE u \in Issued' /\ Dead(u)'
        <3>1. CASE u \in out
            BY <1>0, <2>3, <3>1, OverStays DEF SessionsRest, Onward
        <3>2. CASE u \in Outdated
            <4>1. u \in Issued /\ born[u] \in Nat /\ iat[u] = Sec(born[u]) /\ iat'[u] = iat[u]
                BY <2>2, <3>2 DEF Outdated, Exact
            <4>2. \A q \in Visitor : visit[q].step = "write" => visit[q].at \in Nat /\ born[u] + 2 <= visit[q].at
                BY <1>0, <3>2 DEF Outdated, VisitSet
            <4>3. \A q \in Visitor : visit[q].step = "write" => iat[u] < Sec(visit[q].at)
                BY <4>1, <4>2, SecondOlder
            <4>4. Before(iat[u])'
                BY <2>1, <2>2, <4>1, <4>3 DEF Before, Never
            <4>5. \A q \in Visitor : visit'[q].step = "write" => visit'[q] = visit[q]
                BY <1>0, <2>4
            <4>6. Past(iat[u])'
                BY <4>1, <4>3, <4>4, <4>5 DEF Past
            <4> QED BY <2>2, <4>1, <4>6 DEF Issued, Dead
        <3> QED BY <2>2, <3>1, <3>2
    <2> QED BY <2>2, <2>3, <2>5, <2>6, <2>7 DEF SessionsRest, Onward
\* A new token is of this second, which is no earlier than that of the last change
<1>12. ASSUME NEW t \in Token, Sign(t), UNCHANGED <<now, black, changedAt, out>>,
              NEW W \in [Visitor -> VisitSet], visit' = W,
              \A q \in Visitor : W[q] = visit[q] \/ W[q] = NoVisit
       PROVE  SessionsRest'
    <2>1. t \notin Issued /\ iat' = [iat EXCEPT ![t] = Sec(now)] /\ fresh' = fresh \cup {t}
        BY <1>12 DEF Sign
    <2>2. now \in Nat /\ Sec(now) \in Nat /\ (changedAt # Never => Sec(changedAt) <= Sec(now) /\ Sec(changedAt) \in Nat)
        BY <1>0, Seconds2, SecMonotone DEF TimesOK, Never
    <2>3. t \in Issued' /\ iat'[t] = Sec(now) /\ \A u \in Issued : iat'[u] = iat[u] /\ u \in Issued'
        BY <1>0, <2>1, <2>2 DEF Issued, TimesOK, Never
    <2>4. Onward
        BY <1>0, <1>12, <2>1, <2>2, <2>3 DEF Onward, TimesOK, Never, NoVisit
    <2>5. ASSUME NEW q \in Visitor PROVE VisitOK(q)'
        <3>1. CASE W[q] = visit[q]
            BY <1>12, <2>4, <3>1, VisitStays
        <3>2. CASE W[q] = NoVisit
            BY <1>12, <3>2 DEF VisitOK, NoVisit, Carrying
        <3> QED BY <1>12, <3>1, <3>2
    <2>7. \A u \in out' : u \in Issued' /\ Dead(u)'
        BY <1>0, <1>12, <2>3, <2>4, OverStays DEF SessionsRest
    <2>8. ASSUME NEW u \in fresh' PROVE u \in Issued' /\ ~Before(iat[u])'
        <3>1. CASE u = t
            BY <1>12, <2>2, <2>3, <3>1 DEF Before
        <3>2. CASE u # t
            BY <1>12, <2>1, <2>3, <3>2 DEF SessionsRest, Before
        <3> QED BY <3>1, <3>2
    <2> QED BY <1>12, <2>4, <2>5, <2>7, <2>8 DEF SessionsRest, Onward
<1>1. ASSUME NEW t \in Token, Login(t) PROVE SessionsRest'
    BY <1>0, <1>1, <1>12 DEF Login
<1>13. ASSUME NEW p \in Visitor, NEW t \in Token, SignAgain(p, t) PROVE SessionsRest'
    <2> DEFINE W == [visit EXCEPT ![p] = NoVisit]
    <2>1. W \in [Visitor -> VisitSet] /\ \A q \in Visitor : W[q] = visit[q] \/ W[q] = NoVisit
        BY <1>0
    <2> HIDE DEF W
    <2> QED BY <1>13, <2>1, <1>12 DEF SignAgain, Gone, W
<1>14. ASSUME NEW p \in Visitor, LeaveVisit(p) PROVE SessionsRest'
    BY <1>14, <1>2 DEF LeaveVisit
<1>15. CASE HalfSecond
    <2>1. now' = now + 1 /\ UNCHANGED <<iat, black, changedAt, visit, out, fresh>>
        BY <1>15 DEF HalfSecond
    <2>2. Onward
        BY <1>0, <2>1 DEF Onward, TimesOK, Issued, Never
    <2>3. \A q \in Visitor : VisitOK(q)'
        BY <2>1, <2>2, VisitStays
    <2>4. \A u \in out : u \in Issued' /\ Dead(u)'
        BY <1>0, <2>2, OverStays DEF SessionsRest, Onward
    <2> QED BY <1>0, <2>1, <2>2, <2>3, <2>4 DEF SessionsRest, Onward, Issued, Before
<1>16. CASE UNCHANGED sessionState
    BY <1>16 DEF sessionState, SessionsRest, TimesOK, VisitOK, Issued, Dead, Past, Before, Expired
<1>17. ASSUME NEW p \in Visitor,
              IsBlacklisted(p) \/ Verify(p) \/ ReadUser(p) \/ SetPassword(p) \/ RevokeToken(p) \/ Blacklist(p) \/ LeaveVisit(p)
       PROVE  SessionsRest'
    BY <1>17, <1>4, <1>7, <1>9, <1>10, <1>11, <1>14
<1> QED BY <1>1, <1>3, <1>5, <1>6, <1>13, <1>15, <1>16, <1>17 DEF SessionsStep

\* Tokens are issued one at a time, in the present second.
LEMMA SignStep ==
    ASSUME SessionsStep, iat \in [Token -> {Never} \cup Nat], NEW t \in Token
    PROVE  iat'[t] = iat[t] \/ (iat[t] = Never /\ iat'[t] = Sec(now))
<1>1. \/ UNCHANGED iat
      \/ \E u \in Token : Sign(u)
    <2>1. \A p \in Visitor : IsBlacklisted(p) \/ Verify(p) \/ ReadUser(p) \/ SetPassword(p) => UNCHANGED iat
        BY DEF IsBlacklisted, Verify, ReadUser, SetPassword
    <2>2. \A p \in Visitor : RevokeToken(p) \/ Blacklist(p) \/ LeaveVisit(p) => UNCHANGED iat
        BY DEF RevokeToken, Blacklist, LeaveVisit
    <2>3. \A p \in Visitor, u \in Token : Arrive(p, u) \/ Logout(p, u) => UNCHANGED iat
        BY DEF Arrive, Logout
    <2>4. \A p \in Visitor : \A op \in {"change", "reset"} : TakeTime(p, op) => UNCHANGED iat
        BY DEF TakeTime
    <2>5. \A u \in Token : (Login(u) => Sign(u)) /\ \A p \in Visitor : SignAgain(p, u) => Sign(u)
        BY DEF Login, SignAgain
    <2> QED BY <2>1, <2>2, <2>3, <2>4, <2>5 DEF SessionsStep, HalfSecond
<1>2. ASSUME NEW u \in Token, Sign(u) PROVE iat'[t] = iat[t] \/ (iat[t] = Never /\ iat'[t] = Sec(now))
    BY <1>2 DEF Sign, Issued
<1> QED BY <1>1, <1>2

LEMMA SessionsNextOK == SessionsInv /\ [SessionsNext]_sessionVars => SessionsInv'
<1> SUFFICES ASSUME SessionsInv, [SessionsNext]_sessionVars PROVE SessionsInv'
    OBVIOUS
<1>1. SessionsRest'
    BY SessionsStepOK DEF SessionsInv, SessionsNext, sessionVars
<1>2. iat \in [Token -> {Never} \cup Nat] /\ now \in Nat /\ Sec(now) \in Nat
    BY Seconds2 DEF SessionsInv, SessionsRest, TimesOK
<1>3. CASE SessionsNext
    <2>1. born' \in [Token -> {Never} \cup Nat]
        BY <1>2, <1>3 DEF SessionsNext, SessionsInv
    <2>2. ASSUME NEW t \in Issued' PROVE born'[t] \in Nat /\ iat'[t] = Sec(born'[t])
        <3>0. t \in Token /\ born'[t] = IF t \in Issued THEN born[t] ELSE now
            BY <1>3, <2>2 DEF SessionsNext, Issued
        <3>1. CASE t \in Issued
            <4>1. iat'[t] = iat[t]
                BY <1>2, <1>3, <3>0, <3>1, SignStep DEF SessionsNext, Issued
            <4> QED BY <3>0, <3>1, <4>1 DEF SessionsInv, Exact
        <3>2. CASE t \notin Issued
            <4>1. iat'[t] = Sec(now)
                BY <1>2, <1>3, <2>2, <3>0, <3>2, SignStep DEF SessionsNext, Issued
            <4> QED BY <1>2, <3>0, <3>2, <4>1
        <3> QED BY <3>1, <3>2
    <2> QED BY <1>1, <2>1, <2>2 DEF SessionsInv, Exact
<1>4. CASE UNCHANGED sessionVars
    BY <1>1, <1>4 DEF sessionVars, sessionState, SessionsInv, Exact, Issued
<1> QED BY <1>3, <1>4

\* A logout signs out its token at any fraction of a second, and a new password every session a second
\* older than it and than every other change under way; no later token is taken for an older one, however
\* many changes of the password run at once (authenticate, revokeToken, changePassword, resetPassword).
THEOREM SignOutExactHolds == SessionsSpec => []SignOutExact
<1>1. SessionsInv => SignOutExact
    BY DEF SessionsInv, SessionsRest, VisitOK, SignOutExact
<1> QED BY <1>1, SessionsInitOK, SessionsNextOK, PTL DEF SessionsSpec

-----------------------------------------------------------------------------
\* Insights: a refresh that goes on is of a user who is in, or was when it started
InsightsInv ==
    /\ Running /\ ~enabled => early
    /\ optedOut => ~enabled
    /\ early \in BOOLEAN
    /\ enabled \in BOOLEAN /\ stored \in BOOLEAN /\ optedOut \in BOOLEAN
    /\ category \in [Spend -> {"absent", "none", "AI", "USER"}]
    /\ refresh \in [step : {"idle", "check", "rows", "fill", "write"}, rows : SUBSET Spend]

InsightsSpec == InsightsInit /\ [][InsightsNext]_insightVars

UserKept == \A s \in Spend : category[s] = "USER" => category'[s] = "USER"

NothingMore == optedOut' /\ stored' /\ ~(optedOut /\ stored) => early

LEMMA InsightsInitOK == InsightsInit => InsightsInv
<1> SUFFICES ASSUME InsightsInit PROVE InsightsInv
    OBVIOUS
<1>1. refresh = [step |-> "idle", rows |-> {}] /\ category = [s \in Spend |-> "absent"]
    BY DEF InsightsInit, Resting
<1>2. refresh \in [step : {"idle", "check", "rows", "fill", "write"}, rows : SUBSET Spend]
    BY <1>1
<1>3. category \in [Spend -> {"absent", "none", "AI", "USER"}] /\ refresh.step = "idle"
    BY <1>1
<1> QED BY <1>2, <1>3 DEF InsightsInit, InsightsInv, Running

\* The history of the running refresh
LEMMA InsightsEarly ==
    [InsightsNext]_insightVars =>
        /\ early \in BOOLEAN => early' \in BOOLEAN
        /\ InsightsNext => early' \in BOOLEAN /\ (early' <=> (Running /\ Running' /\ (early \/ (enabled /\ ~enabled'))))
<1>1. ASSUME InsightsNext PROVE early' \in BOOLEAN /\ (early' <=> (Running /\ Running' /\ (early \/ (enabled /\ ~enabled'))))
    <2> DEFINE x == Running /\ Running' /\ (early \/ (enabled /\ ~enabled'))
    <2>1. early' = x
        BY <1>1 DEF InsightsNext
    <2>2. CASE x
        <3>1. early' = TRUE
            BY <2>1, <2>2, Zenon
        <3> QED BY <2>1, <2>2, <3>1
    <2>3. CASE ~x
        <3>1. early' = FALSE
            BY <2>1, <2>3, Zenon
        <3> QED BY <2>1, <2>3, <3>1
    <2> QED BY <2>2, <2>3
<1> QED BY <1>1 DEF insightVars

LEMMA InsightsNextOK ==
    ASSUME InsightsInv, [InsightsNext]_insightVars
    PROVE  InsightsInv' /\ UserKept /\ NothingMore
<1> DEFINE Good == InsightsInv' /\ UserKept /\ NothingMore
<1>0. InsightsNext => early' \in BOOLEAN /\ (early' <=> (Running /\ Running' /\ (early \/ (enabled /\ ~enabled'))))
    BY InsightsEarly DEF insightVars
<1> USE DEF InsightsInv, choices, queue, UserKept, NothingMore, Running
<1>1. ASSUME InsightsNext, NEW p \in Asker, OptIn(p) \/ OptOut(p) \/ DeleteInsight(p) PROVE Good
    <2>1. CASE OptIn(p)
        BY <1>0, <1>1, <2>1 DEF OptIn
    <2>2. CASE OptOut(p)
        BY <1>0, <1>1, <2>2 DEF OptOut
    <2>3. CASE DeleteInsight(p)
        BY <1>0, <1>1, <2>3 DEF DeleteInsight
    <2> QED BY <1>1, <2>1, <2>2, <2>3
<1>2. ASSUME InsightsNext, NEW p \in Asker,
             Queue(p) \/ View(p) \/ IsRefreshPending(p) \/ AskRefresh(p) \/ CountRefresh(p) \/ LeaveAsker(p)
      PROVE  Good
    BY <1>0, <1>2 DEF Queue, View, IsRefreshPending, AskRefresh, CountRefresh, LeaveAsker
<1>3. ASSUME InsightsNext, StartRefresh \/ CheckEnabled \/ ReadRows \/ Filled PROVE Good
    <2>1. CASE StartRefresh
        BY <1>0, <1>3, <2>1 DEF StartRefresh, Goes
    <2>2. CASE CheckEnabled
        BY <1>0, <1>3, <2>2 DEF CheckEnabled, Goes, Rests, Resting
    <2>3. CASE ReadRows \/ Filled
        BY <1>0, <1>3, <2>3 DEF ReadRows, Filled, Goes
    <2> QED BY <1>3, <2>1, <2>2, <2>3
<1>4. ASSUME InsightsNext, StoreInsight \/ RefreshFails \/ EvictFailed \/ NextDay PROVE Good
    <2>1. CASE StoreInsight
        BY <1>0, <1>4, <2>1 DEF StoreInsight, Rests, Resting
    <2>2. CASE RefreshFails
        BY <1>0, <1>4, <2>2 DEF RefreshFails, Rests, Resting
    <2>3. CASE EvictFailed \/ NextDay
        BY <1>0, <1>4, <2>3 DEF EvictFailed, NextDay
    <2> QED BY <1>4, <2>1, <2>2, <2>3
<1>5. ASSUME InsightsNext, NEW s \in Spend, SetCategory(s) \/ Pay(s) PROVE Good
    BY <1>0, <1>5 DEF SetCategory, Pay
<1>6. ASSUME InsightsNext, NEW s \in Spend, Fill(s) PROVE Good
    BY <1>0, <1>6 DEF Fill
<1>7. CASE UNCHANGED insightVars
    BY <1>7 DEF insightVars, insightState
<1> QED BY <1>1, <1>2, <1>3, <1>4, <1>5, <1>6, <1>7 DEF InsightsNext, InsightsStep

\* A category the user has picked stays whatever the model answers, and after an answered opt-out only a
\* refresh that was under way when the choice was written stores anything (generateInsights,
\* setInsightsEnabled).
THEOREM UserChoiceStandsHolds == InsightsSpec => UserChoiceStands
<1>1. InsightsInv /\ [InsightsNext]_insightVars => [UserKept /\ NothingMore]_<<category, optedOut, stored>>
    BY InsightsNextOK
<1>2. InsightsInv /\ [InsightsNext]_insightVars => InsightsInv'
    BY InsightsNextOK
<1> QED BY <1>1, <1>2, InsightsInitOK, PTL DEF InsightsSpec, UserChoiceStands, UserKept, NothingMore

-----------------------------------------------------------------------------
\* Deliveries: how the calls, the rows of the history and the failed attempts of a job belong together
CalledSet == {"good", "bad"}
JobSet == [state : {"none", "waiting", "good", "bad", "completed", "failed"},
           failed : 0..HookAttempts, stalls : 0..MaxStalled + 1]
TallySet == [all : Nat, good : Nat]

JobOK(j) ==
    /\ job[j].state = "none" => calls[j] = Tally /\ history[j] = Tally /\ job[j].failed = 0
    /\ job[j].failed = HookAttempts \/ job[j].stalls > MaxStalled <=> job[j].state = "failed"
    /\ history[j].all + (IF job[j].state \in CalledSet THEN 1 ELSE 0) <= calls[j].all
    /\ history[j].good + (IF job[j].state = "good" THEN 1 ELSE 0) <= calls[j].good
    /\ job[j].failed + (IF job[j].state \in CalledSet THEN 1 ELSE 0) <= calls[j].all
    /\ calls[j].all <= job[j].failed + deaths + (IF job[j].state \in CalledSet \cup {"completed"} THEN 1 ELSE 0)
    /\ job[j].state = "completed" => history[j].good > 0

\* The job of a run is not there before the run
Ahead(j) == (j[2] = run /\ event # "done") \/ j[2] > run

HookInv ==
    /\ event \in {"none", "waiting", "done"} /\ run \in Nat /\ deaths \in 0..MaxDeaths
    /\ job \in [Job -> JobSet] /\ calls \in [Job -> TallySet] /\ history \in [Job -> TallySet]
    /\ \A j \in Job : JobOK(j) /\ (Ahead(j) => job[j].state = "none")

NoteInv ==
    /\ mail \in [state : {"none", "waiting", "good", "completed", "failed", "lost"}, failed : Nat, stalls : Nat]
    /\ inApp \in {0, 1}
    /\ mail.state \in {"good", "completed"} => inApp = 1

DeliverySpec == DeliveryInit /\ [][DeliveryNext]_deliveryVars

LEMMA DeliveryInitOK == DeliveryInit => HookInv /\ NoteInv
<1> SUFFICES ASSUME DeliveryInit PROVE HookInv /\ NoteInv
    OBVIOUS
<1> USE DeliveryAssumption DEF DeliveryInit, NoJob, Tally, JobSet, TallySet, MaxStalled
<1>1. NoteInv
    BY DEF NoteInv
<1>2. job \in [Job -> JobSet] /\ calls \in [Job -> TallySet] /\ history \in [Job -> TallySet]
    OBVIOUS
<1>3. ASSUME NEW j \in Job PROVE JobOK(j) /\ job[j].state = "none"
    BY DEF JobOK, CalledSet
<1> QED BY <1>1, <1>2, <1>3 DEF HookInv

\* A step of a job that is there, and of no other, leaves all in order if it leaves that one in order
LEMMA OneJob ==
    ASSUME HookInv, NEW j \in Job, UNCHANGED <<event, run>>, job[j].state # "none",
           deaths' \in {deaths, deaths + 1}, deaths' \in 0..MaxDeaths,
           NEW x \in JobSet, NEW c \in TallySet, NEW h \in TallySet,
           job' = [job EXCEPT ![j] = x], calls' = [calls EXCEPT ![j] = c], history' = [history EXCEPT ![j] = h],
           JobOK(j)'
    PROVE  HookInv'
<1>1. ASSUME NEW k \in Job, k # j PROVE JobOK(k)' /\ (Ahead(k)' => job'[k].state = "none")
    <2>1. job'[k] = job[k] /\ calls'[k] = calls[k] /\ history'[k] = history[k]
        BY <1>1 DEF HookInv
    <2>2. calls[k].all \in Nat /\ job[k].failed \in Nat /\ deaths \in Nat /\ deaths' \in Nat
        BY DeliveryAssumption DEF HookInv, TallySet, JobSet
    <2> QED BY <2>1, <2>2 DEF HookInv, JobOK, Ahead
<1>2. ~Ahead(j)'
    BY DEF HookInv, Ahead
<1> QED BY <1>1, <1>2 DEF HookInv

LEMMA HookNextOK == ASSUME HookInv, [DeliveryNext]_deliveryVars PROVE HookInv'
<1> USE DeliveryAssumption
<1> DEFINE Most == HookAttempts
<1>1. CASE MoneyMoved
    <2>1. ASSUME NEW j \in Job PROVE JobOK(j)' /\ (Ahead(j)' => Ahead(j))
        BY <1>1 DEF MoneyMoved, HookInv, JobOK, Ahead
    <2> QED BY <1>1, <2>1 DEF MoneyMoved, HookInv
<1>2. CASE Dispatch
    <2>1. PICK added \in SUBSET active :
              job' = [j \in Job |-> IF j[1] \in added /\ j[2] = run THEN [NoJob EXCEPT !.state = "waiting"] ELSE job[j]]
        BY <1>2 DEF Dispatch
    <2>2. ASSUME NEW j \in Job
          PROVE  job'[j] \in JobSet /\ JobOK(j)' /\ (Ahead(j)' => job'[j].state = "none")
        <3>1. CASE j[1] \in added /\ j[2] = run
            <4>1. Ahead(j) /\ ~Ahead(j)'
                BY <1>2, <3>1 DEF Dispatch, Ahead, HookInv
            <4>2. calls[j] = Tally /\ history[j] = Tally /\ calls' = calls /\ history' = history /\ deaths' = deaths
                BY <1>2, <4>1 DEF HookInv, JobOK, Dispatch
            <4>3. job'[j] = [state |-> "waiting", failed |-> 0, stalls |-> 0]
                BY <2>1, <3>1 DEF NoJob
            <4> QED BY <4>1, <4>2, <4>3 DEF JobOK, CalledSet, Tally, JobSet, HookInv, MaxStalled
        <3>2. CASE ~(j[1] \in added /\ j[2] = run)
            <4>1. job'[j] = job[j]
                BY <2>1, <3>2
            <4> QED BY <4>1, <1>2 DEF JobOK, Dispatch, HookInv, Ahead
        <3> QED BY <3>1, <3>2
    <2>3. job' \in [Job -> JobSet]
        BY <2>1, <2>2
    <2> QED BY <1>2, <2>2, <2>3 DEF Dispatch, HookInv
<1>3. CASE DispatchAgain
    <2>1. ASSUME NEW j \in Job PROVE JobOK(j)' /\ (Ahead(j)' => Ahead(j))
        <3>1. calls[j].all \in Nat /\ job[j].failed \in Nat /\ run \in Nat
            BY DEF HookInv, TallySet, JobSet
        <3>9. j[2] \in Nat
            BY DeliveryAssumption DEF Job
        <3>2. JobOK(j)'
            BY <1>3, <3>1 DEF DispatchAgain, HookInv, JobOK
        <3>3. Ahead(j)' => Ahead(j)
            BY <1>3, <3>1, <3>9 DEF DispatchAgain, Ahead
        <3> QED BY <3>2, <3>3
    <2> QED BY <1>3, <2>1 DEF DispatchAgain, HookInv
<1>4. ASSUME NEW j \in Job, NEW good \in BOOLEAN, Call(j, good) PROVE HookInv'
    <2>1. PICK received \in {good, TRUE} : calls' = [calls EXCEPT ![j] = Plus(@, received)]
        BY <1>4 DEF Call
    <2>2. job[j] \in JobSet /\ calls[j] \in TallySet /\ history[j] \in TallySet
        BY DEF HookInv
    <2> DEFINE x == [job[j] EXCEPT !.state = IF good THEN "good" ELSE "bad"]
               c == Plus(calls[j], received)
    <2>3. x \in JobSet /\ x.failed = job[j].failed /\ x.stalls = job[j].stalls /\ x.state = IF good THEN "good" ELSE "bad"
        BY <2>2 DEF JobSet
    <2>4. c \in TallySet /\ c.all = calls[j].all + 1 /\ c.good = IF received THEN calls[j].good + 1 ELSE calls[j].good
        BY <2>2 DEF Plus, TallySet
    <2>5. job' = [job EXCEPT ![j] = x] /\ calls' = [calls EXCEPT ![j] = c] /\ history' = [history EXCEPT ![j] = history[j]]
        BY <1>4, <2>1 DEF Call, HookInv
    <2>6. job'[j] = x /\ calls'[j] = c /\ history'[j] = history[j]
        BY <2>5 DEF HookInv
    <2>7. job[j].state = "waiting" /\ deaths' = deaths /\ event' = event /\ run' = run
        BY <1>4 DEF Call
    <2>8. deaths \in Nat /\ history[j].all \in Nat /\ history[j].good \in Nat /\ x.failed \in Nat /\ JobOK(j)
        BY <2>2, <2>3 DEF HookInv, JobSet, TallySet
    <2>10. c.good >= calls[j].good /\ (x.state = "good" => c.good = calls[j].good + 1) /\ x.state \in CalledSet
        <3>1. c.good >= calls[j].good /\ (received => c.good = calls[j].good + 1)
            BY <2>2, <2>4 DEF TallySet
        <3>2. x.state \in CalledSet /\ (x.state = "good" => good)
            BY <2>3 DEF CalledSet
        <3>3. good => received
            BY <2>1
        <3> QED BY <3>1, <3>2, <3>3
    <2>9. JobOK(j)'
        <3> HIDE DEF x, c
        <3> QED BY <2>2, <2>3, <2>4, <2>6, <2>7, <2>8, <2>10 DEF JobOK, CalledSet, TallySet
    <2> HIDE DEF x, c
    <2> QED BY <2>2, <2>3, <2>4, <2>5, <2>7, <2>9, OneJob DEF HookInv
<1>5. ASSUME NEW j \in Job, Record(j) \/ RecordFails(j) \/ CallerDies(j) PROVE HookInv'
    <2>1. job[j] \in JobSet /\ calls[j] \in TallySet /\ history[j] \in TallySet /\ JobOK(j)
        BY DEF HookInv
    <2>2. deaths \in Nat /\ job[j].failed \in Nat /\ calls[j].all \in Nat /\ calls[j].good \in Nat
          /\ history[j].all \in Nat /\ history[j].good \in Nat
        BY <2>1 DEF HookInv, JobSet, TallySet
    <2>3. job[j].state \in CalledSet /\ event' = event /\ run' = run /\ calls' = [calls EXCEPT ![j] = calls[j]]
        BY <1>5 DEF Record, RecordFails, CallerDies, CalledSet, HookInv
    <2>4. job[j].failed < HookAttempts /\ job[j].stalls <= MaxStalled /\ job[j].stalls \in 0..MaxStalled + 1
        BY <2>1, <2>3 DEF JobOK, CalledSet, JobSet, MaxStalled
    <2> DEFINE h == Plus(history[j], job[j].state = "good")
               a == Again(job[j], HookAttempts)
               w == Stalled(job[j])
               f == [job[j] EXCEPT !.state = "completed"]
    <2>5. h \in TallySet /\ h.all = history[j].all + 1
          /\ h.good = (IF job[j].state = "good" THEN history[j].good + 1 ELSE history[j].good)
        BY <2>1, <2>2 DEF Plus, TallySet
    <2>6. a \in JobSet /\ a.failed = job[j].failed + 1 /\ a.stalls = job[j].stalls
          /\ a.state = (IF job[j].failed + 1 = HookAttempts THEN "failed" ELSE "waiting")
        BY <2>1, <2>2, <2>4 DEF Again, JobSet
    <2>7. w \in JobSet /\ w.failed = job[j].failed /\ w.stalls = job[j].stalls + 1
          /\ w.state = (IF job[j].stalls < MaxStalled THEN "waiting" ELSE "failed")
        BY <2>1, <2>4 DEF Stalled, JobSet, MaxStalled
    <2>13. f \in JobSet /\ f.state = "completed" /\ f.failed = job[j].failed /\ f.stalls = job[j].stalls
        BY <2>1 DEF JobSet
    <2>8. /\ Record(j) => /\ deaths' = deaths /\ history' = [history EXCEPT ![j] = h]
                          /\ job' = [job EXCEPT ![j] = IF job[j].state = "good" THEN f ELSE a]
          /\ RecordFails(j) => /\ deaths' = deaths /\ history' = [history EXCEPT ![j] = history[j]]
                               /\ job' = [job EXCEPT ![j] = a]
          /\ CallerDies(j) => /\ deaths' = deaths + 1 /\ deaths' \in 0..MaxDeaths
                              /\ job' = [job EXCEPT ![j] = w]
                              /\ \/ history' = [history EXCEPT ![j] = h]
                                 \/ history' = [history EXCEPT ![j] = history[j]]
        BY <2>1 DEF Record, RecordFails, CallerDies, HookInv
    <2> HIDE DEF h, a, w, f
    <2> USE DEF JobOK, CalledSet, MaxStalled
    <2>9. PICK x \in {w, f, a}, y \in {h, history[j]} :
              /\ job' = [job EXCEPT ![j] = x] /\ history' = [history EXCEPT ![j] = y]
              /\ \/ deaths' = deaths /\ x = f /\ y = h /\ job[j].state = "good"
                 \/ deaths' = deaths /\ x = a
                 \/ deaths' = deaths + 1 /\ x = w
        BY <1>5, <2>8
    <2>10. job'[j] = x /\ history'[j] = y /\ calls'[j] = calls[j]
        BY <2>3, <2>9 DEF HookInv
    <2>11. JobOK(j)'
        BY <2>1, <2>2, <2>3, <2>4, <2>5, <2>6, <2>7, <2>9, <2>10, <2>13
    <2>12. deaths' \in {deaths, deaths + 1} /\ deaths' \in 0..MaxDeaths /\ x \in JobSet /\ y \in TallySet
        BY <1>5, <2>1, <2>5, <2>6, <2>7, <2>8, <2>13 DEF HookInv
    <2> QED BY <2>1, <2>3, <2>9, <2>11, <2>12, OneJob
<1>7. CASE MailerDies
    <2>1. UNCHANGED <<event, run, job, calls, history>> /\ deaths' = deaths + 1 /\ deaths' \in 0..MaxDeaths
        BY <1>7 DEF MailerDies, hookVars, HookInv
    <2>2. ASSUME NEW j \in Job PROVE JobOK(j)' /\ (Ahead(j)' => job'[j].state = "none")
        <3>1. calls[j].all \in Nat /\ job[j].failed \in Nat /\ deaths \in Nat
            BY DEF HookInv, TallySet, JobSet
        <3> QED BY <2>1, <3>1 DEF HookInv, JobOK, Ahead
    <2> QED BY <2>1, <2>2 DEF HookInv
<1>6. CASE (\E g \in Hook : DeleteWebhook(g)) \/ Store \/ SendEmail \/ MailFails \/ ChangeWish \/ UNCHANGED deliveryVars
    <2>1. UNCHANGED <<event, run, deaths, job, calls, history>>
        BY <1>6 DEF DeleteWebhook, Store, SendEmail, MailFails, ChangeWish, deliveryVars, hookVars
    <2> QED BY <2>1 DEF HookInv, JobOK, Ahead
<1> QED BY <1>1, <1>2, <1>3, <1>4, <1>5, <1>6, <1>7 DEF DeliveryNext

LEMMA NoteNextOK == ASSUME NoteInv, [DeliveryNext]_deliveryVars PROVE NoteInv'
<1> USE DEF NoteInv, noteVars
<1>1. CASE MoneyMoved \/ Store \/ SendEmail \/ ChangeWish
    BY <1>1 DEF MoneyMoved, Store, SendEmail, ChangeWish
<1>2. CASE MailFails \/ MailerDies
    BY <1>2 DEF MailFails, MailerDies, Again, Stalled, MaxStalled
<1>3. CASE UNCHANGED <<mail, inApp>>
    BY <1>3
<1> QED BY <1>1, <1>2, <1>3 DEF DeliveryNext, deliveryVars, Dispatch, DispatchAgain, DeleteWebhook, Call, Record, RecordFails,
                                CallerDies

\* The history of a webhook is true, a finished job has delivered, a job that was given up has tried as
\* often as it should, and a notification is stored once, for any webhooks, attempts and worker deaths
\* (processWebhookJob, deliverNotification).
THEOREM RecordsTrueHolds == DeliverySpec => []RecordsTrue
<1>1. HookInv /\ NoteInv => RecordsTrue
    <2> SUFFICES ASSUME HookInv, NoteInv, NEW j \in Job
                 PROVE  /\ job[j].state = "completed" => history[j].good > 0 /\ calls[j].good > 0
                        /\ history[j].all <= calls[j].all /\ history[j].good <= calls[j].good
                        /\ job[j].state = "failed" => calls[j].all >= HookAttempts \/ job[j].stalls > MaxStalled
                        /\ calls[j].all <= HookAttempts + MaxDeaths
        BY DEF RecordsTrue, NoteInv
    <2>1. JobOK(j) /\ deaths \in Nat /\ deaths <= MaxDeaths /\ MaxDeaths \in Nat /\ HookAttempts \in Nat
          /\ job[j].failed \in Nat /\ job[j].failed <= HookAttempts /\ job[j].stalls \in Nat
          /\ calls[j].all \in Nat /\ calls[j].good \in Nat /\ history[j].all \in Nat /\ history[j].good \in Nat
        BY DeliveryAssumption DEF HookInv, JobSet, TallySet, MaxStalled
    <2> QED BY <2>1 DEF JobOK, CalledSet, MaxStalled
<1> QED BY <1>1, DeliveryInitOK, HookNextOK, NoteNextOK, PTL DEF DeliverySpec

-----------------------------------------------------------------------------
\* Emailed links
LinkStates == {"none", "live", "expired", "used", "gone"}
MailerSet == [step : {"idle", "mint reset", "send", "mint verify", "claim", "write", "revoke"}, link : Link]

\* A change leaves no usable link behind, and links that are over stay over
LinksInv ==
    /\ link \in [Link -> LinkStates]
    /\ mailer \in [Mailer -> MailerSet]
    /\ revoked \subseteq ResetLink
    /\ \A l \in revoked : link[l] \in {"used", "gone"}

LinksSpec == LinksInit /\ [][LinksNext]_linkVars

LEMMA LinksInitOK == LinksInit => LinksInv
<1> SUFFICES ASSUME LinksInit PROVE LinksInv
    OBVIOUS
<1>1. NoLink \in Link
    BY LinksAssumption DEF NoLink
<1>2. Idle \in MailerSet /\ [Idle EXCEPT !.step = "send"] \in MailerSet
    BY <1>1 DEF Idle, MailerSet
<1> QED BY <1>2 DEF LinksInit, LinksInv, LinkStates

LEMMA MailerType ==
    ASSUME mailer \in [Mailer -> MailerSet], NEW m \in Mailer
    PROVE  /\ Answered(m) => mailer' \in [Mailer -> MailerSet]
           /\ \A s \in {"mint reset", "send", "mint verify", "write", "revoke"} :
                Then(m, s) => mailer' \in [Mailer -> MailerSet]
<1>1. Idle \in MailerSet
    BY LinksAssumption DEF Idle, NoLink, MailerSet
<1>2. ASSUME NEW s \in {"mint reset", "send", "mint verify", "write", "revoke"}, Then(m, s)
      PROVE  mailer' \in [Mailer -> MailerSet]
    BY <1>2 DEF Then, MailerSet
<1> QED BY <1>1, <1>2 DEF Answered

\* No step brings a used or deleted link back
LEMMA LinksNextOK ==
    ASSUME LinksInv, [LinksNext]_linkVars
    PROVE  LinksInv' /\ \A l \in Link : link[l] \in {"used", "gone"} => link'[l] = link[l]
<1> DEFINE Over == \A l \in Link : link[l] \in {"used", "gone"} => link'[l] = link[l]
<1> USE LinksAssumption DEF LinksInv, account
<1>0. ASSUME UNCHANGED <<link, revoked>>, mailer' \in [Mailer -> MailerSet] PROVE LinksInv' /\ Over
    BY <1>0
<1>1. ASSUME NEW m \in Mailer,
             RequestReset(m) \/ Resend(m) \/ Send(m) \/ Change(m) \/ WritePassword(m) \/ LeaveMailer(m)
      PROVE  LinksInv' /\ Over
    BY <1>0, <1>1, MailerType DEF RequestReset, Resend, Send, Change, WritePassword, LeaveMailer
<1>2. ASSUME NEW m \in Mailer, NEW l \in Link, Mint(m, l) PROVE LinksInv' /\ Over
    <2>1. mailer' \in [Mailer -> MailerSet] /\ revoked' = revoked
        BY <1>2, MailerType DEF Mint
    <2>2. link' \in [Link -> LinkStates] /\ Over
        BY <1>2 DEF Mint, Deleted, Unused, LinkStates
    <2> QED BY <2>1, <2>2, <1>2 DEF Link
<1>3. ASSUME NEW m \in Mailer, NEW l \in Link, Follow(m, l) PROVE LinksInv' /\ Over
    BY <1>0, <1>3 DEF Follow, MailerSet
<1>4. ASSUME NEW m \in Mailer, ClaimLink(m) PROVE LinksInv' /\ Over
    <2>1. mailer' \in [Mailer -> MailerSet] /\ revoked' = revoked
        BY <1>4, MailerType DEF ClaimLink
    <2>2. mailer[m].link \in Link
        BY DEF MailerSet
    <2>3. link' \in [Link -> LinkStates] /\ Over
        BY <1>4, <2>2 DEF ClaimLink, Deleted, Unused, LinkStates
    <2> QED BY <2>1, <2>3, <1>4 DEF Link
<1>5. ASSUME NEW m \in Mailer, Revoke(m) PROVE LinksInv' /\ Over
    <2>1. mailer' \in [Mailer -> MailerSet]
        BY <1>5, MailerType DEF Revoke
    <2>2. link' \in [Link -> LinkStates] /\ Over
        BY <1>5 DEF Revoke, Deleted, Unused, LinkStates
    <2>3. ASSUME NEW l \in revoked' PROVE link'[l] \in {"used", "gone"}
        <3>1. l \in Link /\ (l \in revoked \/ (l \in ResetLink /\ link[l] # "none"))
            BY <1>5, <2>3 DEF Revoke, Link
        <3> QED BY <1>5, <2>2, <3>1 DEF Revoke, Deleted, Unused, LinkStates
    <2> QED BY <1>5, <2>1, <2>2, <2>3 DEF Revoke
<1>6. ASSUME NEW l \in Link, ExpireLink(l) PROVE LinksInv' /\ Over
    BY <1>6 DEF ExpireLink, LinkStates, Link
<1>7. ASSUME NEW k, ExpireKey(k) PROVE LinksInv' /\ Over
    BY <1>0, <1>7 DEF ExpireKey
<1>8. CASE NewDay \/ UNCHANGED linkVars
    BY <1>0, <1>8 DEF NewDay, linkVars
<1> QED BY <1>1, <1>2, <1>3, <1>4, <1>5, <1>6, <1>7, <1>8 DEF LinksNext

\* However resets, changes, verifications and new links interleave, a change of the password is not
\* undone by a link of before, and no link works twice or after it was replaced (resetPassword,
\* changePassword, verifyEmail).
THEOREM ChangeNotUndoneHolds == LinksSpec => ChangeNotUndone
<1>1. LinksInv /\ [LinksNext]_linkVars =>
        [/\ \A l \in revoked : password' = l => password = l
         /\ \A l \in Link : link[l] \in {"used", "gone"} => link'[l] = link[l]]_<<password, link>>
    <2> SUFFICES ASSUME LinksInv, [LinksNext]_linkVars, NEW l \in revoked, password' = l, password # l PROVE FALSE
        BY LinksNextOK
    <2>1. l \in ResetLink /\ l \in Link /\ l # "changed"
        BY LinksAssumption DEF LinksInv, Link
    <2>2. PICK m \in Mailer : ClaimLink(m)
        BY <2>1 DEF LinksNext, linkVars, account, RequestReset, Resend, Send, Change, WritePassword, Revoke, LeaveMailer,
                    Mint, Follow, ExpireLink, ExpireKey, NewDay
    <2>3. mailer[m].link = l /\ link[l] \in Unused
        BY <2>2 DEF ClaimLink
    <2> QED BY <2>3 DEF LinksInv, Unused
<1> QED BY <1>1, LinksInitOK, LinksNextOK, PTL DEF LinksSpec, ChangeNotUndone

-----------------------------------------------------------------------------
\* The transaction PIN
PinSpec == PinInit /\ [][PinNext]_pinVars

GuessSet == [step : {"idle", "clear", "count", "lock", "write"}, read : Nat]

\* Requests with a wrong PIN that they have yet to count
ToCount == {g \in Guesser : guess[g].step = "count"}

PinTypes ==
    /\ attempts \in Nat /\ wrong \in Nat /\ lost \in 0..MaxLost
    /\ lock \in {"none", "ahead", "past"}
    /\ guess \in [Guesser -> GuessSet]
    /\ then \in [Guesser -> {"pay", "change"}]

\* While PINs may be tried, every wrong one is on the counter, about to be, or was lost; and once the
\* counter is full, a request that is about to lock stands for the last one.
GuessTally ==
    lock # "ahead" => /\ wrong <= attempts + Cardinality(ToCount) + lost
                      /\ wrong <= MaxAttempts - 1 + Cardinality(Pending) + lost

PinInv ==
    /\ PinTypes /\ most \in Nat
    /\ GuessTally
    /\ GuessesBounded

\* What every step gives, whatever the history remembers
PinKept ==
    /\ PinTypes' /\ GuessTally'
    /\ \/ wrong' = 0
       \/ wrong' = wrong /\ lost' >= lost
       \/ wrong' <= MaxAttempts - 1 + Cardinality(Pending') + lost'

LEMMA PendingFinite ==
    /\ IsFiniteSet(ToCount) /\ Cardinality(ToCount) \in Nat
    /\ IsFiniteSet(Pending) /\ Cardinality(Pending) \in Nat
    /\ Cardinality(ToCount) <= Cardinality(Pending)
    /\ Cardinality(Pending) <= Cardinality(Guesser) /\ Cardinality(Guesser) \in Nat
<1>1. ToCount \subseteq Pending /\ Pending \subseteq Guesser
    BY DEF ToCount, Pending
<1>2. IsFiniteSet(Guesser)
    BY PinAssumption
<1>3. IsFiniteSet(Pending) /\ Cardinality(Pending) <= Cardinality(Guesser)
    BY <1>1, <1>2, FS_Subset
<1>4. IsFiniteSet(ToCount) /\ Cardinality(ToCount) <= Cardinality(Pending)
    BY <1>1, <1>3, FS_Subset
<1> QED BY <1>2, <1>3, <1>4, FS_CardinalityType

\* A step of g moves g alone in or out of either set.
LEMMA OntoStep ==
    ASSUME PinTypes, NEW g \in Guesser, NEW s \in {"idle", "clear", "count", "lock", "write"}, Onto(g, s)
    PROVE  /\ guess' \in [Guesser -> GuessSet]
           /\ ToCount' = IF s = "count" THEN ToCount \cup {g} ELSE ToCount \ {g}
           /\ Pending' = IF s \in {"count", "lock"} THEN Pending \cup {g} ELSE Pending \ {g}
<1>1. guess \in [Guesser -> GuessSet] /\ attempts \in Nat
    BY DEF PinTypes
<1> DEFINE v == [step |-> s, read |-> IF s = "idle" THEN 0 ELSE attempts]
<1>2. v \in GuessSet /\ v.step = s
    BY <1>1 DEF GuessSet
<1>3. guess' = [guess EXCEPT ![g] = v]
    BY DEF Onto
<1> HIDE DEF v
<1>4. guess' \in [Guesser -> GuessSet]
    BY <1>1, <1>2, <1>3
<1>5. \A q \in Guesser : guess'[q].step = IF q = g THEN s ELSE guess[q].step
    BY <1>1, <1>2, <1>3
<1> QED BY <1>4, <1>5 DEF ToCount, Pending

LEMMA PendingCounts ==
    ASSUME PinTypes, NEW g \in Guesser, NEW s \in {"idle", "clear", "count", "lock", "write"}, Onto(g, s)
    PROVE  /\ Cardinality(ToCount') = Cardinality(ToCount)
                  + (IF s = "count" /\ g \notin ToCount THEN 1 ELSE 0)
                  - (IF s # "count" /\ g \in ToCount THEN 1 ELSE 0)
           /\ Cardinality(Pending') = Cardinality(Pending)
                  + (IF s \in {"count", "lock"} /\ g \notin Pending THEN 1 ELSE 0)
                  - (IF s \notin {"count", "lock"} /\ g \in Pending THEN 1 ELSE 0)
<1>1. /\ Cardinality(ToCount \cup {g}) = IF g \in ToCount THEN Cardinality(ToCount) ELSE Cardinality(ToCount) + 1
      /\ Cardinality(Pending \cup {g}) = IF g \in Pending THEN Cardinality(Pending) ELSE Cardinality(Pending) + 1
    BY PendingFinite, FS_AddElement
<1>2. /\ Cardinality(ToCount \ {g}) = IF g \in ToCount THEN Cardinality(ToCount) - 1 ELSE Cardinality(ToCount)
      /\ Cardinality(Pending \ {g}) = IF g \in Pending THEN Cardinality(Pending) - 1 ELSE Cardinality(Pending)
    BY PendingFinite, FS_RemoveElement
<1>3. /\ ToCount' = IF s = "count" THEN ToCount \cup {g} ELSE ToCount \ {g}
      /\ Pending' = IF s \in {"count", "lock"} THEN Pending \cup {g} ELSE Pending \ {g}
    BY OntoStep
<1>4. Cardinality(ToCount) \in Nat /\ Cardinality(Pending) \in Nat
    BY PendingFinite
<1>5. CASE s = "count"
    BY <1>1, <1>3, <1>4, <1>5
<1>6. CASE s = "lock"
    BY <1>1, <1>2, <1>3, <1>4, <1>6
<1>7. CASE s \notin {"count", "lock"}
    BY <1>2, <1>3, <1>4, <1>7
<1> QED BY <1>5, <1>6, <1>7

\* Whoever wipes the counter starts the count again
LEMMA WipedOK ==
    ASSUME PinInv, Wiped, UNCHANGED lost, guess' \in [Guesser -> GuessSet], then' \in [Guesser -> {"pay", "change"}]
    PROVE  PinKept
<1>1. PinTypes'
    BY DEF PinInv, PinTypes, Wiped
<1>2. MaxAttempts - 1 \in Nat /\ Cardinality(ToCount') \in Nat /\ Cardinality(Pending') \in Nat /\ Cardinality(Guesser) \in Nat
    <2>1. Cardinality(ToCount') \in Nat /\ Cardinality(Pending') \in Nat
        <3>1. ToCount' \subseteq Guesser /\ Pending' \subseteq Guesser
            BY DEF ToCount, Pending
        <3> QED BY <3>1, PinAssumption, FS_Subset, FS_CardinalityType
    <2> QED BY <2>1, PendingFinite, PinAssumption
<1>3. lost' \in Nat
    BY PinAssumption DEF PinInv, PinTypes
<1> QED BY <1>1, <1>2, <1>3 DEF PinKept, GuessTally, Wiped

LEMMA PinStep ==
    ASSUME PinInv, NEW g \in Guesser,
           \/ TryWrong(g) \/ Clear(g) \/ Count(g) \/ LockPin(g)
           \/ ByPassword(g) \/ WritePin(g) \/ ReadLocked(g) \/ Failed(g)
           \/ \E op \in {"pay", "change"} : TryRight(g, op)
    PROVE  PinKept
<1> DEFINE C == Cardinality(ToCount)
           R == Cardinality(Pending)
           N == Cardinality(Guesser)
<1>0. /\ PinTypes /\ attempts \in Nat /\ wrong \in Nat /\ lost \in Nat /\ MaxAttempts \in Nat \ {0} /\ MaxLost \in Nat
      /\ C \in Nat /\ R \in Nat /\ N \in Nat /\ C <= R /\ R <= N
      /\ guess[g].step = "count" <=> g \in ToCount
      /\ guess[g].step \in {"count", "lock"} <=> g \in Pending
    BY PendingFinite, PinAssumption DEF PinInv, PinTypes, ToCount, Pending
<1>1. lock # "ahead" => wrong <= attempts + C + lost /\ wrong <= MaxAttempts - 1 + R + lost
    BY DEF PinInv, GuessTally
<1>P. C' \in Nat /\ R' \in Nat /\ C' <= R' /\ R' <= N
    <2>1. ToCount' \subseteq Pending' /\ Pending' \subseteq Guesser
        BY DEF ToCount, Pending
    <2>2. IsFiniteSet(Pending') /\ R' <= N
        BY <2>1, PinAssumption, FS_Subset
    <2>3. IsFiniteSet(ToCount') /\ C' <= R'
        BY <2>1, <2>2, FS_Subset
    <2> QED BY <2>2, <2>3, FS_CardinalityType
<1>T. ASSUME NEW s \in {"idle", "clear", "count", "lock", "write"}, Onto(g, s), attempts' \in Nat, wrong' \in Nat,
             lost' \in 0..MaxLost, lock' \in {"none", "ahead", "past"}, then' \in [Guesser -> {"pay", "change"}]
      PROVE  PinTypes'
    BY <1>T, <1>0, OntoStep DEF PinTypes
<1>2. CASE TryWrong(g)
    <2>1. Onto(g, "count") /\ g \notin ToCount /\ g \notin Pending
        BY <1>0, <1>2 DEF TryWrong
    <2>2. C' = C + 1 /\ R' = R + 1
        BY <2>1, <1>0, PendingCounts
    <2>3. PinTypes'
        BY <1>2, <2>1, <1>0, <1>T DEF TryWrong, PinTypes
    <2> HIDE DEF C, R, N
    <2> QED BY <1>0, <1>1, <1>2, <1>P, <2>2, <2>3 DEF TryWrong, PinKept, GuessTally, C, R, N
<1>3. CASE Count(g)
    <2>1. PICK s \in {"lock", "idle"} : Onto(g, s) /\ (s = "lock" <=> attempts' >= MaxAttempts)
        BY <1>3, <1>0 DEF Count
    <2>2. C' = C - 1 /\ R' = (IF s = "lock" THEN R ELSE R - 1)
        BY <1>3, <2>1, <1>0, PendingCounts DEF Count
    <2>3. PinTypes'
        BY <1>3, <2>1, <1>0, <1>T DEF Count, PinTypes
    <2> HIDE DEF C, R, N
    <2> QED BY <1>0, <1>1, <1>3, <1>P, <2>1, <2>2, <2>3 DEF Count, PinKept, GuessTally, C, R, N
<1>4. CASE LockPin(g)
    <2>1. PinTypes'
        BY <1>4, <1>0, <1>T DEF LockPin, PinTypes
    <2>2. wrong' = wrong /\ lost' = lost /\ lock' = "ahead"
        BY <1>4 DEF LockPin
    <2> QED BY <1>0, <2>1, <2>2 DEF PinKept, GuessTally
<1>5. CASE Failed(g)
    <2>1. PinTypes'
        BY <1>5, <1>0, <1>T DEF Failed, PinTypes
    <2>2. C' >= C - 1 /\ R' >= R - 1
        BY <1>5, <1>0, PendingCounts DEF Failed
    <2> HIDE DEF C, R, N
    <2> QED BY <1>0, <1>1, <1>5, <1>P, <2>1, <2>2 DEF Failed, PinKept, GuessTally, C, R, N
<1>6. CASE ByPassword(g) \/ ReadLocked(g) \/ \E op \in {"pay", "change"} : TryRight(g, op)
    <2>1. PICK s \in {"idle", "clear", "write"} : Onto(g, s)
        BY <1>6 DEF ByPassword, ReadLocked, TryRight, Right
    <2>2. UNCHANGED <<attempts, lock, wrong, lost>> /\ then' \in [Guesser -> {"pay", "change"}] /\ g \notin ToCount /\ g \notin Pending
        BY <1>6, <1>0 DEF ByPassword, ReadLocked, TryRight, PinTypes
    <2>3. C' = C /\ R' = R
        BY <2>1, <2>2, <1>0, PendingCounts
    <2>4. PinTypes'
        BY <2>1, <2>2, <1>0, <1>T DEF PinTypes
    <2> HIDE DEF C, R
    <2> QED BY <1>0, <1>1, <2>2, <2>3, <2>4 DEF PinKept, GuessTally, C, R
<1>7. CASE Clear(g) \/ WritePin(g)
    <2>1. PICK s \in {"idle", "write"} : Onto(g, s)
        BY <1>7 DEF Clear, WritePin, Right
    <2>2. Wiped /\ UNCHANGED <<then, lost>>
        BY <1>7 DEF Clear, WritePin
    <2>3. guess' \in [Guesser -> GuessSet] /\ then' \in [Guesser -> {"pay", "change"}]
        BY <2>1, <2>2, <1>0, OntoStep DEF PinTypes
    <2> QED BY <2>2, <2>3, WipedOK
<1> QED BY <1>2, <1>3, <1>4, <1>5, <1>6, <1>7

LEMMA PinInitOK == PinInit => PinInv
<1> SUFFICES ASSUME PinInit PROVE PinInv
    OBVIOUS
<1>1. PinTypes /\ most = 0 /\ wrong = 0 /\ attempts = 0 /\ lost = 0
    BY PinAssumption DEF PinInit, PinTypes, GuessSet
<1> QED BY <1>1, PendingFinite, PinAssumption DEF PinInv, GuessTally, GuessesBounded

LEMMA PinNextOK == PinInv /\ [PinNext]_pinVars => PinInv'
<1> SUFFICES ASSUME PinInv, [PinNext]_pinVars PROVE PinInv'
    OBVIOUS
<1>1. ASSUME ResetWipes PROVE PinKept
    <2>1. Wiped /\ UNCHANGED <<guess, then, lost>>
        BY <1>1 DEF ResetWipes
    <2>2. guess \in [Guesser -> GuessSet] /\ then \in [Guesser -> {"pay", "change"}]
        BY DEF PinInv, PinTypes
    <2> QED BY <2>1, <2>2, WipedOK
<1>2. ASSUME Minutes30 PROVE PinKept
    <2>1. PinTypes' /\ ToCount' = ToCount /\ Pending' = Pending
        BY <1>2 DEF Minutes30, PinInv, PinTypes, ToCount, Pending
    <2>2. attempts' \in Nat /\ lost' \in Nat /\ wrong' = 0
        BY <1>2, PinAssumption DEF Minutes30, PinInv, PinTypes
    <2>3. Cardinality(ToCount') \in Nat /\ Cardinality(Pending') \in Nat /\ MaxAttempts - 1 \in Nat
        BY <2>1, PendingFinite, PinAssumption
    <2> QED BY <2>1, <2>2, <2>3 DEF PinKept, GuessTally
<1>3. ASSUME PinNext PROVE PinKept
    BY <1>1, <1>2, <1>3, PinStep DEF PinNext, PinMoves
<1>4. CASE PinNext
    <2> DEFINE n == Cardinality(Pending')
    <2>1. n \in Nat
        <3>1. Pending' \subseteq Guesser
            BY DEF Pending
        <3> QED BY <3>1, PinAssumption, FS_Subset, FS_CardinalityType
    <2>2. most' = IF wrong' = 0 \/ n > most THEN n ELSE most
        BY <1>4 DEF PinNext
    <2>3. PinKept /\ PinTypes' /\ GuessTally'
        BY <1>3, <1>4 DEF PinKept
    <2>4. /\ most \in Nat /\ wrong \in Nat /\ lost \in Nat /\ wrong' \in Nat /\ lost' \in Nat
          /\ MaxAttempts \in Nat \ {0} /\ wrong <= MaxAttempts - 1 + most + lost
        BY <2>3, PinAssumption DEF PinInv, PinTypes, GuessesBounded
    <2>5. most' \in Nat /\ n <= most' /\ (wrong' # 0 => most <= most')
        <3> HIDE DEF n
        <3> QED BY <2>1, <2>2, <2>4
    <2>6. wrong' <= MaxAttempts - 1 + most' + lost'
        <3>1. wrong' = 0 \/ (wrong' = wrong /\ lost' >= lost) \/ wrong' <= MaxAttempts - 1 + n + lost'
            BY <2>3 DEF PinKept
        <3>2. MaxAttempts \in Nat /\ MaxAttempts - 1 \in Nat
            BY PinAssumption
        <3> HIDE DEF n
        <3> PICK k \in Nat : k = MaxAttempts - 1
            BY <3>2
        <3>3. most \in Nat /\ lost \in Nat /\ wrong \in Nat /\ wrong <= k + most + lost
            BY <2>4
        <3>4. wrong' \in Nat /\ lost' \in Nat /\ (wrong' = 0 \/ (wrong' = wrong /\ lost' >= lost) \/ wrong' <= k + n + lost')
            BY <2>4, <3>1
        <3>5. wrong' <= k + most' + lost'
            BY <2>1, <2>5, <3>3, <3>4
        <3> QED BY <3>5
    <2> QED BY <2>3, <2>5, <2>6 DEF PinInv, GuessesBounded
<1>5. CASE UNCHANGED pinVars
    <2>1. PinTypes' /\ GuessTally' /\ most' = most
        BY <1>5 DEF pinVars, pinState, PinInv, PinTypes, GuessTally, ToCount, Pending
    <2> QED BY <1>5, <2>1 DEF pinVars, pinState, PinInv, GuessesBounded
<1> QED BY <1>4, <1>5

\* Guesses made one after the other are at most MAX_ATTEMPTS before the lock; those made at once are at
\* most MAX_ATTEMPTS - 1 and as many as were ever compared and not yet counted at one time; and one more
\* for every request that failed (verifyPin).
THEOREM GuessesBoundedHolds == PinSpec => [](PinTypeOK /\ GuessesBounded)
<1>1. PinInv => PinTypeOK /\ GuessesBounded
    BY DEF PinInv, PinTypes, PinTypeOK, GuessSet
<1> QED BY <1>1, PinInitOK, PinNextOK, PTL DEF PinSpec

-----------------------------------------------------------------------------
\* Spending limits
LimitsSpec == LimitsInit /\ [][LimitsNext]_limitVars

\* The payments Left adds up
GoneOn(d) == {p \in Payment : pay[p].gone /\ pay[p].day = d /\ pay[p].seen = d}

\* A payment is checked and committed under the lock; what it took out has a row that counts
PayOK(p) ==
    /\ pay[p].step \in {"check", "commit"} => holder = p
    /\ pay[p].step \in {"idle", "lock", "check", "commit"} =>
           ~pay[p].gone /\ pay[p].status = IF pay[p].kind = "transfer" /\ pay[p].step # "idle" THEN "PENDING" ELSE "none"
    /\ pay[p].gone => pay[p].status \in IF pay[p].kind = "transfer" THEN {"SUCCESSFUL"} ELSE {"PROCESSING", "SUCCESSFUL"}
    /\ pay[p].step = "commit" => Left(pay[p].seen) + pay[p].amount <= pay[p].limit

LimitsInv ==
    /\ LimitsTypeOK
    /\ IsFiniteSet({p \in Payment : pay[p].step # "idle"})
    /\ \A p \in Payment : PayOK(p)

PayStatus == {"none", "PENDING", "PROCESSING", "SUCCESSFUL", "FAILED", "REVERSED"}
PaySet == [step : {"idle", "lock", "check", "commit", "after", "done"}, kind : {"transfer", "withdrawal"},
           amount : Amount \cup {0}, day : {NoRow} \cup 0..Days, status : PayStatus,
           seen : 0..Days, limit : Nat, gone : BOOLEAN]

LEMMA PayTypes ==
    ASSUME LimitsTypeOK
    PROVE  /\ pay \in [Payment -> PaySet]
           /\ \A p \in Payment : pay[p].amount \in Nat
<1>1. pay \in [Payment -> PaySet]
    BY DEF LimitsTypeOK, PaySet, PayStatus
<1>2. ASSUME NEW v \in PaySet PROVE v.amount \in Nat
    <2>1. v.amount \in Amount \cup {0}
        BY <1>2 DEF PaySet
    <2>2. \A a \in Amount \cup {0} : a \in Nat
        BY LimitsAssumption
    <2> QED BY <2>1, <2>2
<1> QED BY <1>1, <1>2

LEMMA OnePay ==
    ASSUME LimitsTypeOK, NEW p \in Payment, NEW v \in PaySet, pay' = [pay EXCEPT ![p] = v],
           today' = today, tierOf' = tierOf, returned' = returned, holder' \in Payment \cup {NoPayment}
    PROVE  LimitsTypeOK'
<1>1. pay' \in [Payment -> PaySet]
    BY PayTypes
<1> QED BY <1>1 DEF LimitsTypeOK, PaySet, PayStatus

LEMMA LimitsTypesInit == LimitsInit => LimitsTypeOK
<1> SUFFICES ASSUME LimitsInit PROVE LimitsTypeOK
    OBVIOUS
<1>1. NoPay \in PaySet
    BY LimitsAssumption DEF NoPay, PaySet, PayStatus
<1> QED BY <1>1, LimitsAssumption DEF LimitsInit, LimitsTypeOK, PaySet, PayStatus

LEMMA LimitsTypes == LimitsTypeOK /\ [LimitsNext]_limitVars => LimitsTypeOK'
<1> SUFFICES ASSUME LimitsTypeOK, [LimitsNext]_limitVars PROVE LimitsTypeOK'
    OBVIOUS
<1>0. /\ today \in 0..Days /\ DailyOut[tierOf] \in Nat /\ holder \in Payment \cup {NoPayment}
      /\ \A p \in Payment : pay[p] \in PaySet
    BY LimitsAssumption, PayTypes DEF LimitsTypeOK
<1>1. ASSUME NEW p \in Payment, NEW a \in Amount, NEW kind \in {"transfer", "withdrawal"}, Ask(p, kind, a) PROVE LimitsTypeOK'
    <2> DEFINE v == [NoPay EXCEPT !.step = "lock", !.kind = kind, !.amount = a,
                                  !.day = IF kind = "transfer" THEN today ELSE NoRow,
                                  !.status = IF kind = "transfer" THEN "PENDING" ELSE "none"]
    <2>1. NoPay \in PaySet
        BY <1>0, LimitsAssumption DEF NoPay, PaySet, PayStatus
    <2>2. v \in PaySet
        BY <1>0, <1>1, <2>1, ZenonT(30) DEF PaySet, PayStatus
    <2>3. pay' = [pay EXCEPT ![p] = v]
        BY <1>1 DEF Ask
    <2> HIDE DEF v
    <2> QED BY <1>0, <1>1, <2>2, <2>3, OnePay DEF Ask
<1>2. ASSUME NEW p \in Payment, LockWallet(p) PROVE LimitsTypeOK'
    <2>1. [pay[p] EXCEPT !.step = "check"] \in PaySet
        BY <1>0 DEF PaySet
    <2> QED BY <1>0, <1>2, <2>1, OnePay DEF LockWallet
<1>3. ASSUME NEW p \in Payment, AssertCanSend(p) PROVE LimitsTypeOK'
    <2> DEFINE v == [pay[p] EXCEPT !.step = "commit", !.seen = today, !.limit = DailyOut[tierOf]]
    <2>1. v \in PaySet
        BY <1>0 DEF PaySet
    <2>2. pay' = [pay EXCEPT ![p] = v]
        BY <1>3 DEF AssertCanSend
    <2> HIDE DEF v
    <2> QED BY <1>0, <1>3, <2>1, <2>2, OnePay DEF AssertCanSend
<1>4. ASSUME NEW p \in Payment, Commit(p) PROVE LimitsTypeOK'
    <2> DEFINE v == [pay[p] EXCEPT !.step = "after", !.gone = TRUE,
                          !.day = IF pay[p].kind = "transfer" THEN @ ELSE pay[p].seen,
                          !.status = IF pay[p].kind = "transfer" THEN "SUCCESSFUL" ELSE "PROCESSING"]
    <2>1. v \in PaySet
        BY <1>0, ZenonT(30) DEF PaySet, PayStatus
    <2>2. pay' = [pay EXCEPT ![p] = v]
        BY <1>4 DEF Commit
    <2> HIDE DEF v
    <2> QED BY <1>0, <1>4, <2>1, <2>2, OnePay DEF Commit, Unlock
<1>5. ASSUME NEW p \in Payment, Refuse(p) PROVE LimitsTypeOK'
    <2> DEFINE v == [pay[p] EXCEPT !.step = "done", !.status = IF pay[p].kind = "transfer" THEN "FAILED" ELSE @]
    <2>1. v \in PaySet
        BY <1>0 DEF PaySet, PayStatus
    <2>2. pay' = [pay EXCEPT ![p] = v]
        BY <1>5 DEF Refuse
    <2> HIDE DEF v
    <2> QED BY <1>0, <1>5, <2>1, <2>2, OnePay DEF Refuse, Unlock
<1>6. ASSUME NEW p \in Payment, AfterCommit(p) PROVE LimitsTypeOK'
    <2> DEFINE v == [pay[p] EXCEPT !.step = "done"]
               w == [pay[p] EXCEPT !.step = "done", !.status = "FAILED"]
    <2>1. v \in PaySet /\ w \in PaySet
        BY <1>0 DEF PaySet, PayStatus
    <2>2. pay' = [pay EXCEPT ![p] = v] \/ pay' = [pay EXCEPT ![p] = w]
        BY <1>6 DEF AfterCommit
    <2> HIDE DEF v, w
    <2> QED BY <1>0, <1>6, <2>1, <2>2, OnePay DEF AfterCommit
<1>7. ASSUME NEW p \in Payment, GiveBack(p) \/ PaidOut(p) PROVE LimitsTypeOK'
    <2> DEFINE v == [pay[p] EXCEPT !.status = "REVERSED", !.gone = FALSE]
               w == [pay[p] EXCEPT !.status = "SUCCESSFUL"]
    <2>1. v \in PaySet /\ w \in PaySet
        BY <1>0 DEF PaySet, PayStatus
    <2>2. pay' = [pay EXCEPT ![p] = v] \/ pay' = [pay EXCEPT ![p] = w]
        BY <1>7 DEF GiveBack, PaidOut
    <2> HIDE DEF v, w
    <2> QED BY <1>0, <1>7, <2>1, <2>2, OnePay DEF GiveBack, PaidOut
<1>8. ASSUME NEW a \in Amount, TakeBack(a) PROVE LimitsTypeOK'
    BY <1>8, LimitsAssumption DEF TakeBack, LimitsTypeOK
<1>9. CASE (\E t \in Tier : SetTier(t)) \/ Midnight \/ UNCHANGED limitVars
    <2>1. ASSUME NEW t \in Tier, SetTier(t) PROVE LimitsTypeOK'
        BY <2>1 DEF SetTier, LimitsTypeOK
    <2>2. CASE Midnight
        BY <2>2, LimitsAssumption DEF Midnight, LimitsTypeOK
    <2>3. CASE UNCHANGED limitVars
        BY <2>3 DEF limitVars, LimitsTypeOK
    <2> QED BY <1>9, <2>1, <2>2, <2>3
<1> QED BY <1>1, <1>2, <1>3, <1>4, <1>5, <1>6, <1>7, <1>8, <1>9 DEF LimitsNext

\* What is gone is a finite sum
LEMMA LeftFacts ==
    ASSUME LimitsInv, NEW d
    PROVE  Left(d) = SumFunctionOnSet(Amounts, GoneOn(d)) /\ IsFiniteSet(GoneOn(d)) /\ Left(d) \in Nat
<1>1. GoneOn(d) \subseteq {p \in Payment : pay[p].step # "idle"}
    BY DEF LimitsInv, PayOK, GoneOn
<1>2. IsFiniteSet(GoneOn(d))
    BY <1>1, FS_Subset DEF LimitsInv
<1>3. \A p \in GoneOn(d) : Amounts[p] \in Nat
    BY PayTypes DEF LimitsInv, Amounts, GoneOn
<1>4. SumFunctionOnSet(Amounts, GoneOn(d)) \in Nat
    BY <1>2, <1>3, SumMonotone
<1> QED BY <1>2, <1>4 DEF Left, GoneOn

\* The money that is gone was gone before, and cost what it cost
LEMMA LeftStays ==
    ASSUME LimitsInv, NEW d, GoneOn(d)' = GoneOn(d), \A p \in GoneOn(d) : pay'[p].amount = pay[p].amount
    PROVE  Left(d)' = Left(d)
<1>1. \A p \in GoneOn(d) : Amounts'[p] = Amounts[p]
    BY DEF GoneOn, Amounts
<1>2. Left(d)' = SumFunctionOnSet(Amounts', GoneOn(d)')
    BY DEF Left, GoneOn
<1> QED BY <1>1, <1>2, LeftFacts, SumSame

\* What assertCanSend finds spent covers what has left the wallet
LEMMA SpentCoversLeft ==
    ASSUME LimitsInv
    PROVE  Spent(today) \in Int /\ Left(today) <= Spent(today)
<1> DEFINE C == {p \in Payment : Counted(p, today)}
<1>1. C \subseteq {p \in Payment : pay[p].step # "idle"}
    BY DEF LimitsInv, PayOK, Counted
<1>2. IsFiniteSet(C)
    BY <1>1, FS_Subset DEF LimitsInv
<1>3. \A p \in C : Amounts[p] \in Nat
    BY PayTypes DEF LimitsInv, Amounts
<1>4. GoneOn(today) \subseteq C
    BY DEF LimitsInv, PayOK, GoneOn, Counted, LimitsTypeOK
<1>5. returned[today] \in Nat
    BY DEF LimitsInv, LimitsTypeOK
<1>6. Spent(today) = SumFunctionOnSet(Amounts, C) + returned[today]
    BY DEF Spent
<1> HIDE DEF C
<1>7. SumFunctionOnSet(Amounts, C) \in Nat /\ SumFunctionOnSet(Amounts, GoneOn(today)) <= SumFunctionOnSet(Amounts, C)
    BY <1>2, <1>3, <1>4, SumMonotone
<1> QED BY <1>5, <1>6, <1>7, LeftFacts

\* A step of one payment that takes or gives back no money
LEMMA QuietPay ==
    ASSUME LimitsInv, LimitsTypeOK', NEW p \in Payment, NEW v \in PaySet, pay' = [pay EXCEPT ![p] = v],
           pay[p].gone \/ v.gone => v.gone = pay[p].gone /\ v.amount = pay[p].amount /\ v.day = pay[p].day /\ v.seen = pay[p].seen,
           pay[p].step # "idle" \/ v.step # "idle",
           \A q \in Payment \ {p} : pay[q].step \in {"check", "commit"} => holder' = q,
           v.step \in {"check", "commit"} => holder' = p,
           v.step \in {"idle", "lock", "check", "commit"} =>
               ~v.gone /\ v.status = IF v.kind = "transfer" /\ v.step # "idle" THEN "PENDING" ELSE "none",
           v.gone => v.status \in IF v.kind = "transfer" THEN {"SUCCESSFUL"} ELSE {"PROCESSING", "SUCCESSFUL"},
           v.step = "commit" => Left(v.seen) + v.amount <= v.limit
    PROVE  LimitsInv'
<1>1. pay \in [Payment -> PaySet] /\ pay'[p] = v /\ \A q \in Payment \ {p} : pay'[q] = pay[q]
    BY PayTypes DEF LimitsInv
<1>2. ASSUME NEW d PROVE Left(d)' = Left(d)
    <2>1. GoneOn(d)' = GoneOn(d) /\ \A q \in GoneOn(d) : pay'[q].amount = pay[q].amount
        BY <1>1 DEF GoneOn
    <2> QED BY <2>1, LeftStays
<1>3. IsFiniteSet({q \in Payment : pay[q].step # "idle"})'
    <2> DEFINE A == {q \in Payment : pay[q].step # "idle"}
    <2>1. A' \subseteq A \cup {p}
        BY <1>1
    <2>2. IsFiniteSet(A)
        BY DEF LimitsInv
    <2> HIDE DEF A
    <2>3. IsFiniteSet(A')
        BY <2>1, <2>2, FS_AddElement, FS_Subset
    <2> QED BY <2>3 DEF A
<1>4. ASSUME NEW q \in Payment PROVE PayOK(q)'
    <2>1. PayOK(q)
        BY <1>4 DEF LimitsInv
    <2>2. CASE q = p
        BY <1>1, <1>2, <2>2 DEF PayOK
    <2>3. CASE q # p
        BY <1>1, <1>2, <1>4, <2>1, <2>3 DEF PayOK
    <2> QED BY <2>2, <2>3
<1> QED BY <1>3, <1>4 DEF LimitsInv

\* The commit: what is gone is what was gone and, if the day is right, this payment
LEMMA CommitPays ==
    ASSUME LimitsInv, NEW p \in Payment, Commit(p)
    PROVE  /\ Left(pay[p].seen)' <= pay[p].limit
           /\ LimitsInv'
<1> DEFINE v == [pay[p] EXCEPT !.step = "after", !.gone = TRUE,
                          !.day = IF pay[p].kind = "transfer" THEN @ ELSE pay[p].seen,
                          !.status = IF pay[p].kind = "transfer" THEN "SUCCESSFUL" ELSE "PROCESSING"]
           s == pay[p].seen
<1>1. /\ pay \in [Payment -> PaySet] /\ pay' = [pay EXCEPT ![p] = v] /\ pay[p].step = "commit" /\ PayOK(p)
      /\ holder = p /\ ~pay[p].gone /\ pay[p].limit \in Nat
    BY PayTypes DEF LimitsInv, Commit, PayOK, PaySet
<1>2. /\ v.step = "after" /\ v.gone = TRUE /\ v.amount = pay[p].amount /\ v.seen = s /\ v.amount \in Nat /\ v.kind = pay[p].kind
      /\ v.status = IF v.kind = "transfer" THEN "SUCCESSFUL" ELSE "PROCESSING"
    <2>1. pay[p].amount \in Nat
        BY PayTypes DEF LimitsInv
    <2> QED BY <1>1, <2>1 DEF PaySet
<1> HIDE DEF v
<1>3. pay'[p] = v /\ \A q \in Payment \ {p} : pay'[q] = pay[q]
    BY <1>1
<1>4. p \notin GoneOn(s) /\ (GoneOn(s)' = GoneOn(s) \/ GoneOn(s)' = GoneOn(s) \cup {p})
    BY <1>1, <1>2, <1>3 DEF GoneOn
<1>5. Left(s) \in Nat /\ IsFiniteSet(GoneOn(s)) /\ Left(s) = SumFunctionOnSet(Amounts, GoneOn(s))
    BY LeftFacts
<1>6. Left(s)' = SumFunctionOnSet(Amounts', GoneOn(s)')
    BY <1>2, <1>3 DEF Left, GoneOn
<1>7. /\ \A q \in GoneOn(s) : Amounts'[q] = Amounts[q] /\ Amounts'[q] \in Nat
      /\ Amounts'[p] = v.amount
    BY <1>2, <1>3, PayTypes DEF Amounts, GoneOn, LimitsInv
<1>8. SumFunctionOnSet(Amounts', GoneOn(s)) = Left(s)
    BY <1>5, <1>7, SumSame
<1>9. SumFunctionOnSet(Amounts', GoneOn(s) \cup {p}) = v.amount + Left(s)
    <2>1. \A x \in GoneOn(s) \cup {p} : Amounts'[x] \in Int
        BY <1>2, <1>7
    <2> QED BY <1>4, <1>5, <1>7, <1>8, <2>1, SumAdd
<1>10. Left(s) + pay[p].amount <= pay[p].limit
    BY <1>1 DEF PayOK
<1>11. Left(s)' <= pay[p].limit
    BY <1>1, <1>2, <1>4, <1>5, <1>6, <1>8, <1>9, <1>10
<1>12. LimitsTypeOK'
    BY LimitsTypes DEF LimitsInv, LimitsNext
<1>13. IsFiniteSet({q \in Payment : pay[q].step # "idle"})'
    <2> DEFINE A == {q \in Payment : pay[q].step # "idle"}
    <2>1. A' \subseteq A
        BY <1>1, <1>3
    <2>2. IsFiniteSet(A)
        BY DEF LimitsInv
    <2> HIDE DEF A
    <2>3. IsFiniteSet(A')
        BY <2>1, <2>2, FS_Subset
    <2> QED BY <2>3 DEF A
<1>14. ASSUME NEW q \in Payment PROVE PayOK(q)'
    <2>1. CASE q = p
        BY <1>2, <1>3, <2>1 DEF PayOK
    <2>2. CASE q # p
        <3>1. PayOK(q) /\ pay[q].step \notin {"check", "commit"}
            BY <1>1, <1>14, <2>2 DEF LimitsInv, PayOK
        <3> QED BY <1>3, <1>14, <2>2, <3>1 DEF PayOK
    <2> QED BY <2>1, <2>2
<1> QED BY <1>11, <1>12, <1>13, <1>14 DEF LimitsInv

LEMMA LimitsNextOK == ~Faults /\ LimitsInv /\ [LimitsNext]_limitVars => LimitsInv'
<1> SUFFICES ASSUME ~Faults, LimitsInv, [LimitsNext]_limitVars PROVE LimitsInv'
    OBVIOUS
<1>0. /\ LimitsTypeOK' /\ NoPayment \notin Payment /\ today \in 0..Days /\ DailyOut[tierOf] \in Nat
      /\ pay \in [Payment -> PaySet] /\ \A p \in Payment : PayOK(p)
    BY LimitsTypes, PayTypes, LimitsAssumption DEF LimitsInv, LimitsTypeOK
<1>1. ASSUME NEW p \in Payment, NEW a \in Amount, NEW kind \in {"transfer", "withdrawal"}, Ask(p, kind, a) PROVE LimitsInv'
    <2> DEFINE v == [NoPay EXCEPT !.step = "lock", !.kind = kind, !.amount = a,
                                  !.day = IF kind = "transfer" THEN today ELSE NoRow,
                                  !.status = IF kind = "transfer" THEN "PENDING" ELSE "none"]
    <2>1. NoPay \in PaySet /\ NoPay.gone = FALSE
        BY <1>0, LimitsAssumption DEF NoPay, PaySet, PayStatus
    <2>2. v \in PaySet /\ v.step = "lock" /\ v.gone = FALSE /\ v.status = IF v.kind = "transfer" THEN "PENDING" ELSE "none"
        BY <1>0, <1>1, <2>1 DEF PaySet, PayStatus
    <2>3. pay' = [pay EXCEPT ![p] = v] /\ holder' = holder /\ pay[p].step = "idle" /\ ~pay[p].gone
        BY <1>0, <1>1 DEF Ask, PayOK
    <2> HIDE DEF v
    <2> QED BY <1>0, <2>2, <2>3, QuietPay DEF PayOK
<1>2. ASSUME NEW p \in Payment, LockWallet(p) PROVE LimitsInv'
    <2> DEFINE v == [pay[p] EXCEPT !.step = "check"]
    <2>1. /\ v \in PaySet /\ v.step = "check"
          /\ v.gone = pay[p].gone /\ v.amount = pay[p].amount /\ v.day = pay[p].day /\ v.seen = pay[p].seen
          /\ v.status = pay[p].status /\ v.kind = pay[p].kind
        BY <1>0 DEF PaySet
    <2>2. pay' = [pay EXCEPT ![p] = v] /\ holder = NoPayment /\ holder' = p /\ pay[p].step = "lock"
        BY <1>2 DEF LockWallet
    <2> HIDE DEF v
    <2> QED BY <1>0, <2>1, <2>2, QuietPay DEF PayOK
<1>3. ASSUME NEW p \in Payment, AssertCanSend(p) PROVE LimitsInv'
    <2> DEFINE v == [pay[p] EXCEPT !.step = "commit", !.seen = today, !.limit = DailyOut[tierOf]]
    <2>1. /\ v \in PaySet /\ v.step = "commit" /\ v.gone = pay[p].gone /\ v.amount = pay[p].amount
          /\ v.seen = today /\ v.limit = DailyOut[tierOf] /\ v.status = pay[p].status /\ v.kind = pay[p].kind
        BY <1>0 DEF PaySet
    <2>2. pay' = [pay EXCEPT ![p] = v] /\ holder' = holder /\ pay[p].step = "check" /\ ~pay[p].gone
        BY <1>0, <1>3 DEF AssertCanSend, PayOK
    <2>3. Left(v.seen) + v.amount <= v.limit
        <3>1. Spent(today) + pay[p].amount <= DailyOut[tierOf] /\ pay[p].amount \in Nat
            BY <1>3, PayTypes DEF AssertCanSend, CanSend, LimitsInv
        <3>2. Spent(today) \in Int /\ Left(today) <= Spent(today) /\ Left(today) \in Nat
            BY SpentCoversLeft, LeftFacts
        <3> QED BY <1>0, <2>1, <3>1, <3>2
    <2> HIDE DEF v
    <2> QED BY <1>0, <2>1, <2>2, <2>3, QuietPay DEF PayOK
<1>4. ASSUME NEW p \in Payment, Commit(p) PROVE LimitsInv'
    BY <1>4, CommitPays
<1>5. ASSUME NEW p \in Payment, Refuse(p) PROVE LimitsInv'
    <2> DEFINE v == [pay[p] EXCEPT !.step = "done", !.status = IF pay[p].kind = "transfer" THEN "FAILED" ELSE @]
    <2>1. v \in PaySet /\ v.step = "done" /\ v.gone = pay[p].gone
        BY <1>0, ZenonT(30) DEF PaySet, PayStatus
    <2>2. /\ pay' = [pay EXCEPT ![p] = v] /\ holder' = (IF holder = p THEN NoPayment ELSE holder)
          /\ pay[p].step # "idle" /\ ~pay[p].gone
        BY <1>0, <1>5 DEF Refuse, Unlock, PayOK
    <2> HIDE DEF v
    <2> QED BY <1>0, <2>1, <2>2, QuietPay DEF PayOK
<1>6. ASSUME NEW p \in Payment, AfterCommit(p) PROVE LimitsInv'
    <2> DEFINE v == [pay[p] EXCEPT !.step = "done"]
    <2>1. /\ v \in PaySet /\ v.step = "done"
          /\ v.gone = pay[p].gone /\ v.amount = pay[p].amount /\ v.day = pay[p].day /\ v.seen = pay[p].seen
          /\ v.status = pay[p].status /\ v.kind = pay[p].kind
        BY <1>0 DEF PaySet
    <2>2. pay' = [pay EXCEPT ![p] = v] /\ holder' = holder
        BY <1>6 DEF AfterCommit
    <2> HIDE DEF v
    <2> QED BY <1>0, <2>1, <2>2, QuietPay DEF PayOK
<1>8. ASSUME NEW p \in Payment, PaidOut(p) PROVE LimitsInv'
    <2> DEFINE v == [pay[p] EXCEPT !.status = "SUCCESSFUL"]
    <2>1. /\ v \in PaySet /\ v.step = pay[p].step /\ v.status = "SUCCESSFUL" /\ v.kind = pay[p].kind
          /\ v.gone = pay[p].gone /\ v.amount = pay[p].amount /\ v.day = pay[p].day /\ v.seen = pay[p].seen
        BY <1>0 DEF PaySet, PayStatus
    <2>2. pay' = [pay EXCEPT ![p] = v] /\ holder' = holder /\ pay[p].step \notin {"idle", "lock", "check", "commit"}
        BY <1>0, <1>8 DEF PaidOut, PayOK
    <2> HIDE DEF v
    <2> QED BY <1>0, <2>1, <2>2, QuietPay DEF PayOK
<1>9. CASE UNCHANGED <<pay, holder>>
    <2>1. ASSUME NEW d PROVE Left(d)' = Left(d)
        BY <1>9, LeftStays DEF GoneOn
    <2>2. ASSUME NEW p \in Payment PROVE PayOK(p)'
        BY <1>0, <1>9, <2>1 DEF PayOK
    <2>3. IsFiniteSet({q \in Payment : pay[q].step # "idle"})'
        BY <1>9 DEF LimitsInv
    <2> QED BY <1>0, <2>2, <2>3 DEF LimitsInv
<1>7. ASSUME NEW p \in Payment, GiveBack(p) PROVE LimitsInv'
    <2> DEFINE v == [pay[p] EXCEPT !.status = "REVERSED", !.gone = FALSE]
    <2>1. v \in PaySet /\ v.step = pay[p].step /\ v.gone = FALSE
        BY <1>0 DEF PaySet, PayStatus
    <2>2. /\ pay' = [pay EXCEPT ![p] = v] /\ holder' = NoPayment /\ holder = NoPayment
          /\ pay[p].step \notin {"idle", "lock", "check", "commit"}
        BY <1>0, <1>7 DEF GiveBack, PayOK
    <2> HIDE DEF v
    <2>3. pay'[p] = v /\ \A q \in Payment \ {p} : pay'[q] = pay[q]
        BY <1>0, <2>2
    <2>4. ASSUME NEW q \in Payment PROVE PayOK(q)'
        <3>1. PayOK(q) /\ pay[q].step \notin {"check", "commit"}
            BY <1>0, <2>2, <2>4 DEF PayOK
        <3> QED BY <2>1, <2>2, <2>3, <2>4, <3>1 DEF PayOK
    <2>5. {q \in Payment : pay[q].step # "idle"}' = {q \in Payment : pay[q].step # "idle"}
        BY <2>1, <2>3
    <2> QED BY <1>0, <2>4, <2>5 DEF LimitsInv
<1> QED BY <1>1, <1>2, <1>3, <1>4, <1>5, <1>6, <1>7, <1>8, <1>9 DEF LimitsNext, TakeBack, SetTier, Midnight, limitVars

\* The daily limit (assertCanSend, in the transaction and under the lock): no commit takes what has left
\* the wallet over the limit its check has seen, if nothing fails after a commit.
THEOREM AllowanceKeptHolds == ASSUME ~Faults PROVE LimitsSpec => AllowanceKept
<1>1. LimitsInit => LimitsInv
    <2> SUFFICES ASSUME LimitsInit PROVE LimitsInv
        OBVIOUS
    <2>1. NoPay \in PaySet /\ NoPay.step = "idle" /\ NoPay.status = "none" /\ NoPay.gone = FALSE
        BY LimitsAssumption DEF NoPay, PaySet, PayStatus
    <2>2. LimitsTypeOK
        BY LimitsTypesInit
    <2>3. \A p \in Payment : PayOK(p)
        BY <2>1 DEF LimitsInit, PayOK
    <2>4. {p \in Payment : pay[p].step # "idle"} = {}
        BY <2>1 DEF LimitsInit
    <2> QED BY <2>2, <2>3, <2>4, FS_EmptySet DEF LimitsInv
<1>2. LimitsInv /\ [LimitsNext]_limitVars => [\A p \in Payment : Commit(p) => Left(pay[p].seen)' <= pay[p].limit]_pay
    BY CommitPays
<1> QED BY <1>1, <1>2, LimitsNextOK, PTL DEF LimitsSpec, AllowanceKept

-----------------------------------------------------------------------------
\* The types of all the parts of MCAccounts, and what keeps them

\* A request carries a token, and the time it is about to write has been
SessionsTypes ==
    /\ SessionsTypeOK
    /\ \A p \in Visitor :
        /\ visit[p].step \in Carrying \/ (visit[p].step = "write" /\ visit[p].op = "change") => visit[p].token \in Token
        /\ visit[p].step = "write" => visit[p].at \in 0..MaxTime

\* A job that is not kept as failed has an attempt left
InsightsTypes ==
    /\ InsightsTypeOK
    /\ refresh.step # "idle" => task = "active"
    /\ task # "failed" => tried < RefreshAttempts

DeliveryTypes ==
    /\ DeliveryTypeOK /\ HookInv
    /\ mail.state # "failed" => mail.failed < MailAttempts /\ mail.stalls <= MaxStalled

\* Requests that have looked at the day's counter and not yet added to it
AboutToSend == {m \in Mailer : mailer[m].step = "send"}

LinksTypes == LinksTypeOK /\ sent + Cardinality(AboutToSend) <= DailyLimit + Cardinality(Mailer)

-----------------------------------------------------------------------------
LEMMA SessionsTypesInit == SessionsInit => SessionsTypes
<1> SUFFICES ASSUME SessionsInit PROVE SessionsTypes
    OBVIOUS
<1>1. NoVisit \in VisitSet /\ NoVisit.step = "idle"
    BY DEF NoVisit, VisitSet
<1>2. \A p \in Visitor : visit[p] = NoVisit
    BY DEF SessionsInit
<1>3. SessionsTypeOK
    <2>1. visit \in [Visitor -> VisitSet]
        BY <1>1 DEF SessionsInit
    <2> QED BY <2>1, SessionsAssumption DEF SessionsInit, SessionsTypeOK, VisitSet, Never
<1> QED BY <1>1, <1>2, <1>3 DEF SessionsTypes, Carrying

LEMMA SessionsTypesNext == SessionsTypes /\ [SessionsNext]_sessionVars => SessionsTypes'
<1> SUFFICES ASSUME SessionsTypes, [SessionsNext]_sessionVars PROVE SessionsTypes'
    OBVIOUS
<1> DEFINE Carries(v) == /\ v.step \in Carrying \/ (v.step = "write" /\ v.op = "change") => v.token \in Token
                         /\ v.step = "write" => v.at \in 0..MaxTime
           Rest == /\ now \in 0..MaxTime /\ changedAt \in {Never} \cup 0..MaxTime
                   /\ iat \in [Token -> {Never} \cup 0..MaxTime] /\ black \in [Token -> Nat]
                   /\ out \subseteq Token /\ fresh \subseteq Token
<1>b. born' \in [Token -> {Never} \cup 0..MaxTime]
    BY DEF SessionsTypes, SessionsTypeOK, SessionsNext, sessionVars
<1>0. /\ visit \in [Visitor -> VisitSet] /\ \A p \in Visitor : visit[p] \in VisitSet /\ Carries(visit[p])
      /\ Rest /\ NoVisit \in VisitSet /\ Carries(NoVisit) /\ MaxTime \in Nat /\ Life \in Nat
      /\ now \in Nat /\ Sec(now) \in 0..MaxTime
    <2>1. visit \in [Visitor -> VisitSet] /\ Rest /\ MaxTime \in Nat /\ Life \in Nat
        BY SessionsAssumption DEF SessionsTypes, SessionsTypeOK, VisitSet
    <2>2. NoVisit \in VisitSet /\ Carries(NoVisit)
        BY DEF NoVisit, VisitSet, Carrying
    <2>3. now \in Nat /\ Sec(now) \in Nat /\ 2 * Sec(now) <= now + 1 /\ now <= MaxTime
        BY <2>1, Seconds2
    <2>4. Sec(now) <= now
        BY <2>3
    <2>5. \A p \in Visitor : Carries(visit[p])
        BY DEF SessionsTypes
    <2> QED BY <2>1, <2>2, <2>3, <2>4, <2>5
<1>1. ASSUME visit' \in [Visitor -> VisitSet], \A p \in Visitor : Carries(visit'[p]), Rest' PROVE SessionsTypes'
    <2>1. SessionsTypeOK'
        BY <1>1, <1>b DEF SessionsTypeOK, VisitSet
    <2> QED BY <2>1, <1>1 DEF SessionsTypes
<1>2. ASSUME NEW p \in Visitor, NEW v \in VisitSet, visit' = [visit EXCEPT ![p] = v], Carries(v), Rest'
      PROVE  SessionsTypes'
    <2> HIDE DEF Carries, Rest
    <2>1. visit' \in [Visitor -> VisitSet] /\ \A q \in Visitor : visit'[q] = IF q = p THEN v ELSE visit[q]
        BY <1>0, <1>2
    <2> QED BY <1>0, <1>1, <1>2, <2>1
<1>3. ASSUME NEW p \in Visitor, Gone(p), Rest' PROVE SessionsTypes'
    BY <1>0, <1>2, <1>3 DEF Gone
<1>4. ASSUME NEW p \in Visitor, NEW s \in {"verify", "user", "in", "revoke", "sign"}, On(p, s), Rest',
             visit[p].token \in Token \/ s = "sign"
      PROVE  SessionsTypes'
    <2> DEFINE v == [visit[p] EXCEPT !.step = s]
    <2>1. v \in VisitSet /\ Carries(v)
        BY <1>0, <1>4 DEF VisitSet, Carrying
    <2>2. visit' = [visit EXCEPT ![p] = v]
        BY <1>4 DEF On
    <2> HIDE DEF v, Carries, Rest
    <2> QED BY <1>2, <1>4, <2>1, <2>2
<1>5. ASSUME NEW p \in Visitor, IsBlacklisted(p) \/ Verify(p) \/ ReadUser(p) PROVE SessionsTypes'
    <2>1. visit[p].token \in Token /\ Rest'
        BY <1>0, <1>5 DEF IsBlacklisted, Verify, ReadUser, Carrying
    <2>2. Gone(p) \/ \E s \in {"verify", "user", "in"} : On(p, s)
        BY <1>5 DEF IsBlacklisted, Verify, ReadUser
    <2> HIDE DEF Carries, Rest
    <2> QED BY <2>1, <2>2, <1>3, <1>4
<1>6. ASSUME NEW p \in Visitor, SetPassword(p) PROVE SessionsTypes'
    <2>1. Rest' /\ (visit[p].op = "change" => visit[p].token \in Token)
        BY <1>0, <1>6 DEF SetPassword, Outdated, Issued
    <2>2. IF visit[p].op = "change" THEN On(p, "revoke") ELSE Gone(p)
        BY <1>6 DEF SetPassword
    <2> HIDE DEF Carries, Rest
    <2> QED BY <2>1, <2>2, <1>3, <1>4
<1>7. ASSUME NEW p \in Visitor, Revoked(p), visit[p].token \in Token, now' = now, iat' = iat, changedAt' = changedAt,
             fresh' = fresh, black' \in [Token -> Nat]
      PROVE  SessionsTypes'
    <2>1. Rest'
        BY <1>0, <1>7 DEF Revoked
    <2>2. On(p, "sign") \/ Gone(p)
        BY <1>7 DEF Revoked
    <2> HIDE DEF Carries, Rest
    <2> QED BY <2>1, <2>2, <1>3, <1>4
<1>8. ASSUME NEW p \in Visitor, RevokeToken(p) PROVE SessionsTypes'
    <2>1. visit[p].token \in Token
        BY <1>0, <1>8 DEF RevokeToken, Carrying
    <2>2. CASE Seconds(visit[p].token) > 0
        <3> DEFINE n == Seconds(visit[p].token)
                   v == [visit[p] EXCEPT !.step = "set", !.at = n]
        <3>1. iat[visit[p].token] \in Int /\ Sec(now) \in Int
            BY <1>0, <2>1 DEF Never
        <3>2. n \in Nat
            BY <1>0, <2>2, <3>1 DEF Seconds
        <3> HIDE DEF n
        <3>3. v \in VisitSet /\ Carries(v)
            BY <1>0, <2>1, <3>2 DEF VisitSet, Carrying
        <3>4. visit' = [visit EXCEPT ![p] = v] /\ Rest'
            BY <1>0, <1>8, <2>2 DEF RevokeToken, n
        <3> HIDE DEF v, Carries, Rest
        <3> QED BY <3>3, <3>4, <1>2
    <2>3. CASE ~(Seconds(visit[p].token) > 0)
        BY <1>0, <1>7, <1>8, <2>1, <2>3 DEF RevokeToken
    <2> QED BY <2>2, <2>3
<1>9. ASSUME NEW p \in Visitor, Blacklist(p) PROVE SessionsTypes'
    <2>1. visit[p].token \in Token /\ visit[p].at \in Nat
        BY <1>0, <1>9 DEF Blacklist, Carrying, VisitSet
    <2>2. now + 2 * visit[p].at \in Nat
        BY <1>0, <2>1
    <2>3. black' \in [Token -> Nat]
        BY <1>0, <1>9, <2>2 DEF Blacklist
    <2> QED BY <1>7, <1>9, <2>1, <2>3 DEF Blacklist
<1>10. ASSUME NEW p \in Visitor, NEW op \in {"change", "reset"}, TakeTime(p, op) PROVE SessionsTypes'
    <2> DEFINE v == [visit[p] EXCEPT !.step = "write", !.op = op, !.at = now]
    <2>1. v \in VisitSet
        BY <1>0, <1>10 DEF VisitSet
    <2>2. Carries(v)
        BY <1>0, <1>10 DEF TakeTime, VisitSet, Carrying
    <2>3. visit' = [visit EXCEPT ![p] = v] /\ Rest'
        BY <1>0, <1>10 DEF TakeTime
    <2> HIDE DEF v, Carries, Rest
    <2> QED BY <1>2, <2>1, <2>2, <2>3
<1>11. ASSUME NEW p \in Visitor, NEW t \in Token, Arrive(p, t) \/ Logout(p, t) PROVE SessionsTypes'
    <2>1. PICK v \in VisitSet : visit' = [visit EXCEPT ![p] = v] /\ v.token = t /\ v.step # "write"
        <3>1. CASE Arrive(p, t)
            <4> DEFINE barred == t \in out
                       v == [NoVisit EXCEPT !.step = "blacklist", !.token = t, !.barred = barred]
            <4>0. barred \in BOOLEAN
                OBVIOUS
            <4>1. v \in VisitSet /\ v.token = t /\ v.step # "write"
                <5> HIDE DEF barred
                <5> QED BY <4>0 DEF NoVisit, VisitSet
            <4> QED BY <3>1, <4>1 DEF Arrive
        <3>2. CASE Logout(p, t)
            <4> DEFINE v == [NoVisit EXCEPT !.step = "revoke", !.op = "logout", !.token = t]
            <4>1. v \in VisitSet /\ v.token = t /\ v.step # "write"
                BY DEF NoVisit, VisitSet
            <4> QED BY <3>2, <4>1 DEF Logout
        <3> QED BY <1>11, <3>1, <3>2
    <2>2. Rest' /\ Carries(v)
        BY <1>0, <1>11, <2>1 DEF Arrive, Logout
    <2> HIDE DEF Carries, Rest
    <2> QED BY <1>2, <2>1, <2>2
<1>12. ASSUME NEW t \in Token, Sign(t), UNCHANGED <<now, black, changedAt, out>> PROVE Rest'
    BY <1>0, <1>12 DEF Sign
<1>13. ASSUME NEW t \in Token, Login(t) PROVE SessionsTypes'
    <2>1. Rest' /\ visit' = visit
        BY <1>12, <1>13 DEF Login
    <2> HIDE DEF Carries, Rest
    <2> QED BY <1>0, <1>1, <2>1
<1>14. ASSUME NEW p \in Visitor, NEW t \in Token, SignAgain(p, t) PROVE SessionsTypes'
    BY <1>3, <1>12, <1>14 DEF SignAgain
<1>15. ASSUME NEW p \in Visitor, LeaveVisit(p) PROVE SessionsTypes'
    <2>1. Rest' /\ Gone(p)
        BY <1>0, <1>15 DEF LeaveVisit
    <2> HIDE DEF Carries, Rest
    <2> QED BY <2>1, <1>3
<1>16. CASE HalfSecond \/ UNCHANGED sessionState
    <2>1. Rest' /\ visit' = visit
        BY <1>0, <1>16 DEF HalfSecond, sessionState
    <2> HIDE DEF Carries, Rest
    <2> QED BY <1>0, <1>1, <2>1
<1> QED BY <1>5, <1>6, <1>8, <1>9, <1>10, <1>11, <1>13, <1>14, <1>15, <1>16 DEF SessionsNext, SessionsStep, sessionVars

LEMMA InsightsTypesInit == InsightsInit => InsightsTypes
<1> SUFFICES ASSUME InsightsInit PROVE InsightsTypes
    OBVIOUS
<1>1. refresh \in [step : {"idle", "check", "rows", "fill", "write"}, rows : SUBSET Spend] /\ refresh.step = "idle"
    BY DEF InsightsInit, Resting
<1>2. category \in [Spend -> {"absent", "none", "AI", "USER"}] /\ asking \in [Asker -> {"idle", "queue", "delete", "pending", "count"}]
    BY DEF InsightsInit
<1>3. task = "none" /\ tried \in 0..RefreshAttempts /\ tried < RefreshAttempts /\ asked \in 0..MaxRefreshes + 1
    BY InsightsAssumption DEF InsightsInit
<1> QED BY <1>1, <1>2, <1>3 DEF InsightsInit, InsightsTypes, InsightsTypeOK

LEMMA InsightsTypesNext == InsightsTypes /\ [InsightsNext]_insightVars => InsightsTypes'
<1> SUFFICES ASSUME InsightsTypes, [InsightsNext]_insightVars PROVE InsightsTypes'
    OBVIOUS
<1>0. early' \in BOOLEAN
    BY InsightsEarly DEF InsightsTypes, InsightsTypeOK
<1> USE <1>0, InsightsAssumption DEF InsightsTypes, InsightsTypeOK, choices, queue
<1>1. ASSUME NEW p \in Asker, OptIn(p) \/ OptOut(p) \/ DeleteInsight(p) PROVE InsightsTypes'
    BY <1>1 DEF OptIn, OptOut, DeleteInsight, Asks
<1>2. ASSUME NEW p \in Asker, Queue(p) \/ View(p) \/ IsRefreshPending(p) \/ AskRefresh(p) \/ LeaveAsker(p)
      PROVE  InsightsTypes'
    BY <1>2 DEF Queue, View, IsRefreshPending, AskRefresh, LeaveAsker, Asks
<1>3. ASSUME NEW p \in Asker, CountRefresh(p) PROVE InsightsTypes'
    BY <1>3 DEF CountRefresh, Asks
<1>4. CASE StartRefresh \/ CheckEnabled \/ ReadRows \/ Filled
    BY <1>4 DEF StartRefresh, CheckEnabled, ReadRows, Filled, Goes, Rests, Resting
<1>5. CASE StoreInsight \/ RefreshFails \/ EvictFailed \/ NextDay
    <2>1. CASE StoreInsight
        BY <2>1 DEF StoreInsight, Rests, Resting
    <2>2. CASE RefreshFails
        <3>1. task = "active" /\ tried < RefreshAttempts
            BY <2>2 DEF RefreshFails
        <3>2. tried' \in 0..RefreshAttempts /\ task' \in {"waiting", "failed"} /\ (task' # "failed" => tried' < RefreshAttempts)
            BY <2>2, <3>1 DEF RefreshFails
        <3>3. refresh' = Resting /\ Resting.step = "idle"
              /\ Resting \in [step : {"idle", "check", "rows", "fill", "write"}, rows : SUBSET Spend]
            BY <2>2 DEF RefreshFails, Rests, Resting
        <3> QED BY <2>2, <3>2, <3>3 DEF RefreshFails
    <2>3. CASE EvictFailed \/ NextDay
        BY <2>3 DEF EvictFailed, NextDay
    <2> QED BY <1>5, <2>1, <2>2, <2>3
<1>6. ASSUME NEW s \in Spend, SetCategory(s) \/ Pay(s) \/ Fill(s) PROVE InsightsTypes'
    BY <1>6 DEF SetCategory, Pay, Fill
<1>7. CASE UNCHANGED insightVars
    BY <1>7 DEF insightVars, insightState
<1> QED BY <1>1, <1>2, <1>3, <1>4, <1>5, <1>6, <1>7 DEF InsightsNext, InsightsStep

LEMMA DeliveryTypesInit == DeliveryInit => DeliveryTypes
<1> SUFFICES ASSUME DeliveryInit PROVE DeliveryTypes
    OBVIOUS
<1>1. HookInv
    BY DeliveryInitOK
<1> QED BY <1>1, DeliveryAssumption DEF DeliveryInit, DeliveryTypes, DeliveryTypeOK, HookInv, JobSet, TallySet, NoJob, MaxStalled

LEMMA DeliveryTypesNext == DeliveryTypes /\ [DeliveryNext]_deliveryVars => DeliveryTypes'
<1> SUFFICES ASSUME DeliveryTypes, [DeliveryNext]_deliveryVars PROVE DeliveryTypes'
    OBVIOUS
<1> DEFINE MailSet == [state : {"none", "waiting", "good", "completed", "failed", "lost"},
                       failed : 0..MailAttempts, stalls : 0..MaxStalled + 1]
           Mail == /\ mail \in MailSet
                   /\ mail.state # "failed" => mail.failed < MailAttempts /\ mail.stalls <= MaxStalled
           Others == active \subseteq Hook /\ run \in Run /\ inApp \in Nat /\ mailed \in Nat /\ wanted \in BOOLEAN
<1>1. HookInv'
    BY HookNextOK DEF DeliveryTypes
<1>2. Mail'
    <2>0. Mail
        BY DEF DeliveryTypes, DeliveryTypeOK
    <2>1. CASE MoneyMoved \/ Store \/ SendEmail
        BY <2>0, <2>1 DEF MoneyMoved, Store, SendEmail
    <2>2. CASE MailFails
        BY <2>0, <2>2, DeliveryAssumption DEF MailFails, Again
    <2>4. CASE MailerDies
        BY <2>0, <2>4 DEF MailerDies, Stalled, MaxStalled
    <2>3. CASE mail' = mail
        BY <2>0, <2>3
    <2> QED BY <2>1, <2>2, <2>3, <2>4 DEF DeliveryNext, deliveryVars, noteVars, Dispatch, DispatchAgain, DeleteWebhook, Call,
                                    Record, RecordFails, CallerDies, ChangeWish
<1>3. Others'
    <2>0. Others
        BY DEF DeliveryTypes, DeliveryTypeOK
    <2>1. CASE DispatchAgain \/ \E h \in Hook : DeleteWebhook(h)
        BY <2>0, <2>1 DEF DispatchAgain, DeleteWebhook, noteVars
    <2>2. CASE Store \/ SendEmail
        BY <2>0, <2>2 DEF Store, SendEmail, hookVars
    <2>4. CASE MailFails \/ MailerDies
        <3>1. mailed' \in Nat
            BY <2>0, <2>4 DEF MailFails, MailerDies
        <3> QED BY <2>0, <2>4, <3>1 DEF MailFails, MailerDies, hookVars
    <2>5. CASE ChangeWish
        BY <2>0, <2>5 DEF ChangeWish, hookVars
    <2>3. CASE UNCHANGED <<active, run, inApp, mailed, wanted>>
        BY <2>0, <2>3
    <2> QED BY <2>1, <2>2, <2>3, <2>4, <2>5 DEF DeliveryNext, deliveryVars, noteVars, hookVars, MoneyMoved, Dispatch, Call,
                                    Record, RecordFails, CallerDies
<1> QED BY <1>1, <1>2, <1>3 DEF DeliveryTypes, DeliveryTypeOK, HookInv, JobSet, TallySet

LEMMA LinksTypesInit == LinksInit => LinksTypes
<1> SUFFICES ASSUME LinksInit PROVE LinksTypes
    OBVIOUS
<1>1. NoLink \in Link
    BY LinksAssumption DEF NoLink
<1>2. Idle \in MailerSet /\ Idle.step = "idle"
    BY <1>1 DEF Idle, MailerSet
<1>3. AboutToSend = {} /\ Cardinality(AboutToSend) = 0
    BY <1>2, FS_EmptySet DEF LinksInit, AboutToSend
<1>4. Cardinality(Mailer) \in Nat /\ DailyLimit \in Nat
    BY LinksAssumption, FS_CardinalityType
<1>5. LinksTypeOK
    <2>1. mailer \in [Mailer -> MailerSet]
        BY <1>2 DEF LinksInit
    <2>2. link \in [Link -> {"none", "live", "expired", "used", "gone"}]
        BY DEF LinksInit
    <2>3. sent \in 0..DailyLimit + Cardinality(Mailer)
        BY <1>4 DEF LinksInit
    <2> HIDE DEF AboutToSend
    <2> QED BY <2>1, <2>2, <2>3 DEF LinksInit, LinksTypeOK, MailerSet
<1> QED BY <1>3, <1>4, <1>5 DEF LinksTypes, LinksInit

\* A step of the request m brings it among those, or takes it away, and no other
LEMMA LinksTypesStep ==
    ASSUME LinksTypes, NEW m \in Mailer, NEW x \in MailerSet, mailer' = [mailer EXCEPT ![m] = x],
           link' \in [Link -> LinkStates], revoked' \subseteq ResetLink, cooling' \subseteq {"reset", "verify"},
           verified' \in BOOLEAN, password' \in {"initial", "changed"} \cup ResetLink,
           \/ x.step # "send" /\ sent' = sent
           \/ x.step = "send" /\ sent' = sent /\ sent < DailyLimit
           \/ x.step # "send" /\ mailer[m].step = "send" /\ sent' = sent + 1
    PROVE  LinksTypes'
<1> DEFINE A == AboutToSend
           M == Cardinality(Mailer)
<1>0. mailer \in [Mailer -> MailerSet] /\ sent \in Nat /\ DailyLimit \in Nat /\ M \in Nat
    <2>1. M \in Nat
        BY LinksAssumption, FS_CardinalityType
    <2>2. sent \in 0..DailyLimit + M
        BY DEF LinksTypes, LinksTypeOK
    <2>3. sent \in Nat /\ DailyLimit \in Nat
        BY <2>1, <2>2, LinksAssumption
    <2>4. mailer \in [Mailer -> MailerSet]
        BY DEF LinksTypes, LinksTypeOK, MailerSet
    <2> QED BY <2>1, <2>3, <2>4
<1>1. mailer' \in [Mailer -> MailerSet] /\ \A k \in Mailer : mailer'[k] = IF k = m THEN x ELSE mailer[k]
    BY <1>0
<1>2. A' = IF x.step = "send" THEN A \cup {m} ELSE A \ {m}
    BY <1>1 DEF AboutToSend
<1>3. A \subseteq Mailer /\ A' \subseteq Mailer /\ (m \in A <=> mailer[m].step = "send")
    BY DEF AboutToSend
<1>4. IsFiniteSet(A) /\ Cardinality(A) \in Nat /\ Cardinality(A') \in Nat /\ Cardinality(A') <= M
    <2>1. IsFiniteSet(Mailer)
        BY LinksAssumption
    <2>2. IsFiniteSet(A) /\ IsFiniteSet(A') /\ Cardinality(A') <= M
        BY <1>3, <2>1, FS_Subset
    <2> QED BY <2>2, FS_CardinalityType
<1>5. Cardinality(A \ {m}) = IF m \in A THEN Cardinality(A) - 1 ELSE Cardinality(A)
    BY <1>4, FS_RemoveElement
<1>6. sent + Cardinality(A) <= DailyLimit + M
    BY DEF LinksTypes
<1> HIDE DEF A, M
<1>7. sent' \in Nat /\ sent' + Cardinality(A') <= DailyLimit + M
    BY <1>0, <1>2, <1>3, <1>4, <1>5, <1>6
<1>8. sent' \in 0..DailyLimit + M
    BY <1>0, <1>4, <1>7
<1> QED BY <1>1, <1>7, <1>8 DEF LinksTypes, LinksTypeOK, MailerSet, LinkStates, A, M

LEMMA LinksTypesNext == LinksTypes /\ [LinksNext]_linkVars => LinksTypes'
<1> SUFFICES ASSUME LinksTypes, [LinksNext]_linkVars PROVE LinksTypes'
    OBVIOUS
<1>0. /\ mailer \in [Mailer -> MailerSet] /\ link \in [Link -> LinkStates]
      /\ revoked \subseteq ResetLink /\ cooling \subseteq {"reset", "verify"} /\ verified \in BOOLEAN
      /\ password \in {"initial", "changed"} \cup ResetLink
      /\ Idle \in MailerSet /\ Idle.step = "idle"
    <2>1. NoLink \in Link
        BY LinksAssumption DEF NoLink
    <2>2. Idle \in MailerSet /\ Idle.step = "idle"
        BY <2>1 DEF Idle, MailerSet
    <2> QED BY <2>2 DEF LinksTypes, LinksTypeOK, MailerSet, LinkStates
<1>1. \A k \in SUBSET Link : Deleted(k) \in [Link -> LinkStates]
    BY <1>0 DEF Deleted, LinkStates
<1>2. ASSUME NEW m \in Mailer, NEW s \in {"idle", "mint reset", "send", "mint verify", "claim", "write", "revoke"}, Then(m, s)
      PROVE  \E x \in MailerSet : x.step = s /\ mailer' = [mailer EXCEPT ![m] = x]
    <2> DEFINE x == [mailer[m] EXCEPT !.step = s]
    <2>1. x \in MailerSet /\ x.step = s
        BY <1>0 DEF MailerSet
    <2> QED BY <1>2, <2>1 DEF Then
<1>3. ASSUME NEW m \in Mailer, RequestReset(m) \/ Resend(m) \/ Change(m) \/ WritePassword(m) PROVE LinksTypes'
    <2>1. PICK s \in {"mint reset", "send", "write", "revoke"} : Then(m, s) /\ (s = "send" => sent < DailyLimit)
        BY <1>3 DEF RequestReset, Resend, Change, WritePassword
    <2>2. PICK x \in MailerSet : x.step = s /\ mailer' = [mailer EXCEPT ![m] = x]
        <3>1. s \in {"idle", "mint reset", "send", "mint verify", "claim", "write", "revoke"} /\ Then(m, s)
            BY <2>1
        <3> QED BY <1>2, <3>1
    <2>3. UNCHANGED <<link, sent, verified, revoked>> /\ cooling' \subseteq {"reset", "verify"}
          /\ password' \in {"initial", "changed"} \cup ResetLink
        BY <1>0, <1>3 DEF RequestReset, Resend, Change, WritePassword, account
    <2> QED BY <1>0, <2>1, <2>2, <2>3, LinksTypesStep
<1>4. ASSUME NEW m \in Mailer, Send(m) PROVE LinksTypes'
    <2>1. PICK x \in MailerSet : x.step = "mint verify" /\ mailer' = [mailer EXCEPT ![m] = x]
        BY <1>2, <1>4 DEF Send
    <2>2. UNCHANGED <<link, verified, password, revoked>> /\ cooling' \subseteq {"reset", "verify"} /\ sent' = sent + 1
          /\ mailer[m].step = "send"
        BY <1>0, <1>4 DEF Send, At, account
    <2> QED BY <1>0, <2>1, <2>2, LinksTypesStep
<1>5. ASSUME NEW m \in Mailer, Answered(m), UNCHANGED <<cooling, sent>>, link' \in [Link -> LinkStates],
             revoked' \subseteq ResetLink, verified' \in BOOLEAN, password' \in {"initial", "changed"} \cup ResetLink
      PROVE  LinksTypes'
    BY <1>0, <1>5, LinksTypesStep DEF Answered
<1>6. ASSUME NEW m \in Mailer, NEW l \in Link, Mint(m, l) PROVE LinksTypes'
    <2>1. link' \in [Link -> LinkStates]
        BY <1>1, <1>6 DEF Mint, Kind, Link, LinkStates
    <2> QED BY <1>0, <1>5, <1>6, <2>1 DEF Mint, account
<1>7. ASSUME NEW m \in Mailer, ClaimLink(m) PROVE LinksTypes'
    <2>1. mailer[m].link \in Link
        BY <1>0 DEF MailerSet
    <2>2. link' \in [Link -> LinkStates]
        BY <1>1, <1>7, <2>1 DEF ClaimLink, Kind, Link, LinkStates
    <2>3. verified' \in BOOLEAN /\ password' \in {"initial", "changed"} \cup ResetLink
        BY <1>0, <1>7, <2>1 DEF ClaimLink
    <2> QED BY <1>0, <1>5, <1>7, <2>2, <2>3 DEF ClaimLink
<1>8. ASSUME NEW m \in Mailer, Revoke(m) \/ LeaveMailer(m) PROVE LinksTypes'
    <2>1. link' \in [Link -> LinkStates] /\ revoked' \subseteq ResetLink
        BY <1>0, <1>1, <1>8 DEF Revoke, LeaveMailer, Link
    <2> QED BY <1>0, <1>5, <1>8, <2>1 DEF Revoke, LeaveMailer, account
<1>9. ASSUME NEW m \in Mailer, NEW l \in Link, Follow(m, l) PROVE LinksTypes'
    <2> DEFINE x == [step |-> "claim", link |-> l]
    <2>1. x \in MailerSet /\ x.step # "send"
        BY DEF MailerSet
    <2>2. mailer' = [mailer EXCEPT ![m] = x] /\ UNCHANGED <<link, cooling, sent, verified, password, revoked>>
        BY <1>9 DEF Follow, account
    <2> HIDE DEF x
    <2> QED BY <1>0, <2>1, <2>2, LinksTypesStep
<1>10. ASSUME mailer' = mailer, sent' = sent \/ sent' = 0, link' \in [Link -> LinkStates], cooling' \subseteq {"reset", "verify"},
              UNCHANGED <<verified, password, revoked>>
       PROVE  LinksTypes'
    <2>1. AboutToSend' = AboutToSend /\ AboutToSend \subseteq Mailer
        BY <1>10 DEF AboutToSend
    <2>2. Cardinality(AboutToSend) \in Nat /\ Cardinality(AboutToSend) <= Cardinality(Mailer) /\ Cardinality(Mailer) \in Nat
        BY <2>1, LinksAssumption, FS_Subset, FS_CardinalityType
    <2>3. sent \in 0..DailyLimit + Cardinality(Mailer) /\ sent + Cardinality(AboutToSend) <= DailyLimit + Cardinality(Mailer)
        BY DEF LinksTypes, LinksTypeOK
    <2>4. sent' \in 0..DailyLimit + Cardinality(Mailer) /\ sent' + Cardinality(AboutToSend) <= DailyLimit + Cardinality(Mailer)
        BY <1>10, <2>2, <2>3, LinksAssumption
    <2> QED BY <1>0, <1>10, <2>1, <2>4 DEF LinksTypes, LinksTypeOK, MailerSet, LinkStates
<1>11. ASSUME NEW l \in Link, ExpireLink(l) PROVE LinksTypes'
    BY <1>0, <1>10, <1>11 DEF ExpireLink, account, LinkStates
<1>12. ASSUME NEW k \in {"reset", "verify"}, ExpireKey(k) PROVE LinksTypes'
    BY <1>0, <1>10, <1>12 DEF ExpireKey, account
<1>13. CASE NewDay \/ UNCHANGED linkVars
    BY <1>0, <1>10, <1>13 DEF NewDay, linkVars, account
<1> QED BY <1>3, <1>4, <1>6, <1>7, <1>8, <1>9, <1>11, <1>12, <1>13 DEF LinksNext

-----------------------------------------------------------------------------
LEMMA PagingTypesInit == PagingInit => PagingTypeOK
BY PagingAssumption DEF PagingInit, PagingTypeOK

\* Whether or not the cursor's row stays
LEMMA PagingTypesNext == PagingTypeOK /\ [PagingNext]_pagingVars => PagingTypeOK'
<1> SUFFICES ASSUME PagingTypeOK, [PagingNext]_pagingVars PROVE PagingTypeOK'
    OBVIOUS
<1>1. CASE NextPage
    <2>0. Items \subseteq Taken /\ Taken \subseteq matching /\ matching \subseteq 1..Rows
        BY PagingAssumption DEF Items, Taken, FirstOf, FromCursor, PagingTypeOK
    <2>1. /\ shown' = [r \in 1..Rows |-> IF r \in Items THEN shown[r] + 1 ELSE shown[r]]
          /\ cursor' = IF Cardinality(Taken) > PageSize THEN (IF oldest THEN Max(Items) ELSE Min(Items)) ELSE -1
          /\ UNCHANGED <<made, matching, oldest, awaited>>
        BY <1>1 DEF NextPage, Items
    <2>2. shown' \in [1..Rows -> Nat]
        BY <2>1 DEF PagingTypeOK
    <2>3. cursor' \in -1..Rows
        <3>1. CASE Cardinality(Taken) > PageSize
            <4>1. Taken # {}
                BY <3>1, PagingAssumption, FS_EmptySet
            <4>2. Items # {} /\ Items \subseteq 1..Rows
                BY <2>0, <4>1, PagingAssumption, FirstOfSome DEF Items
            <4>3. (IF oldest THEN Max(Items) ELSE Min(Items)) \in Items
                BY <4>2, CursorIsLast DEF PagingTypeOK
            <4>4. cursor' \in 1..Rows
                BY <2>1, <3>1, <4>2, <4>3
            <4> QED BY <4>4, PagingAssumption
        <3>2. CASE ~(Cardinality(Taken) > PageSize)
            BY <2>1, <3>2, PagingAssumption
        <3> QED BY <3>1, <3>2
    <2> QED BY <2>1, <2>2, <2>3 DEF PagingTypeOK
<1>2. CASE NewRow
    BY <1>2, PagingAssumption DEF NewRow, PagingTypeOK
<1>3. ASSUME NEW r \in 1..Rows, LeaveList(r) PROVE PagingTypeOK'
    BY <1>3 DEF LeaveList, PagingTypeOK
<1>4. CASE UNCHANGED pagingVars
    BY <1>4 DEF pagingVars, PagingTypeOK
<1> QED BY <1>1, <1>2, <1>3, <1>4 DEF PagingNext

-----------------------------------------------------------------------------
\* Outside its own part, the console has no request under way.
AccountsInv ==
    /\ part \in Parts
    /\ IInv /\ (part # "console" => alone = {} /\ \A p \in Handler : call[p] = NoCall)
    /\ KycTypeOK /\ PinInv /\ LinksTypes /\ PagingTypeOK
    /\ SessionsTypes /\ InsightsTypes /\ DeliveryTypes /\ LimitsTypeOK

\* The variables of every part of the back office and of an account have their types, all parts together,
\* with whatever the environment does to them.
THEOREM AccountsTypeCorrect == Spec => []TypeOK
<1>1. Init => AccountsInv
    <2> SUFFICES ASSUME Init PROVE AccountsInv
        OBVIOUS
    <2>1. IInv /\ KycTypeOK /\ LinksTypes /\ PagingTypeOK /\ SessionsTypes /\ InsightsTypes /\ DeliveryTypes
        BY InitOK, KycTypeInit, LinksTypesInit, PagingTypesInit, SessionsTypesInit, InsightsTypesInit, DeliveryTypesInit DEF Init
    <2>2. PinInv
        BY PinInitOK DEF Init
    <2>3. LimitsTypeOK
        BY LimitsTypesInit DEF Init
    <2>4. part \in Parts /\ alone = {} /\ \A p \in Handler : call[p] = NoCall
        BY DEF Init, ConsoleInit, AdjInit
    <2> QED BY <2>1, <2>2, <2>3, <2>4 DEF AccountsInv
<1>2. AccountsInv /\ [Next]_vars => AccountsInv'
    <2> SUFFICES ASSUME AccountsInv, [Next]_vars PROVE AccountsInv'
        OBVIOUS
    <2>1. /\ part' = part
          /\ [KycNext]_kycVars /\ [PinNext]_pinVars /\ [LinksNext]_linkVars /\ [PagingNext]_pagingVars
          /\ [SessionsNext]_sessionVars /\ [InsightsNext]_insightVars /\ [DeliveryNext]_deliveryVars /\ [LimitsNext]_limitVars
        BY DEF Next, vars
    <2>2. [ConsoleNext]_consoleVars
        <3>1. NoCall.step = "idle"
            BY DEF NoCall
        <3>2. CASE part # "console"
            <4>1. alone = {} /\ alone' = alone /\ UNCHANGED adjVars /\ ((StaffNext \/ UNCHANGED staffVars) \/ UNCHANGED vars)
                BY <3>2 DEF AccountsInv, Next, vars, consoleVars
            <4>2. FindAlone
                BY <3>1, <3>2, <4>1 DEF AccountsInv, FindAlone, adjVars
            <4> QED BY <4>1, <4>2 DEF ConsoleNext, consoleVars, vars
        <3>3. CASE part = "console"
            BY <3>3 DEF Next, vars
        <3> QED BY <3>2, <3>3
    <2>3. part # "console" => alone' = {} /\ \A p \in Handler : call'[p] = NoCall
        BY DEF AccountsInv, Next, vars, consoleVars, adjVars
    <2>4. IInv' /\ KycTypeOK' /\ LinksTypes' /\ PagingTypeOK' /\ SessionsTypes' /\ InsightsTypes' /\ DeliveryTypes' /\ LimitsTypeOK'
        BY <2>1, <2>2, NextOK, KycTypeNext, LinksTypesNext, PagingTypesNext, SessionsTypesNext, InsightsTypesNext,
           DeliveryTypesNext, LimitsTypes DEF AccountsInv
    <2>5. PinInv'
        BY <2>1, PinNextOK DEF AccountsInv
    <2> QED BY <2>1, <2>3, <2>4, <2>5 DEF AccountsInv
<1>3. AccountsInv => TypeOK
    BY DEF AccountsInv, TypeOK, IInv, PinInv, PinTypes, PinTypeOK, GuessSet, LinksTypes, SessionsTypes, InsightsTypes, DeliveryTypes
<1> QED BY <1>1, <1>2, <1>3, PTL DEF Spec
=============================================================================
