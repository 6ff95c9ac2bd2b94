------------------------------- MODULE Links -------------------------------
(***************************************************************************)
(* The links the system emails to one user: password resets                *)
(* (password.service.ts) and verifications of the address                  *)
(* (verification.service.ts), with the password change that revokes the    *)
(* former.  A row is found by its hash; its expiry is compared with the    *)
(* time the handler started at, so a link may expire behind it.            *)
(***************************************************************************)
EXTENDS Integers, FiniteSets

CONSTANTS
    ResetLink, VerifyLink,  \* the tokens that may be drawn
    Mailer,                 \* requests to the endpoints
    DailyLimit              \* RESEND_DAILY_LIMIT

Link == ResetLink \cup VerifyLink

ASSUME LinksAssumption ==
    /\ Link # {} /\ ResetLink \cap VerifyLink = {} /\ "changed" \notin Link
    /\ DailyLimit \in Nat /\ IsFiniteSet(Mailer)

VARIABLES
    link,       \* each link's row: "none", "live", "expired", "used" (usedAt is set) or "gone"
    cooling,    \* the cooldown keys Redis holds, by kind
    sent,       \* the counter of verification emails
    verified,   \* emailVerifiedAt is set
    password,   \* what the password was last set by: "initial", "changed", or a link
    mailer,     \* the next step of each request, and its link
    revoked     \* reset links that existed when a change of the password was through

account == <<verified, password>>
linkVars == <<link, cooling, sent, account, mailer, revoked>>

NoLink == CHOOSE l \in Link : TRUE
Idle == [step |-> "idle", link |-> NoLink]

Kind(l) == IF l \in ResetLink THEN ResetLink ELSE VerifyLink

\* usedAt is null; an expired row still is
Unused == {"live", "expired"}

\* deleteMany of the unused rows of one kind
Deleted(kind) == [l \in Link |-> IF l \in kind /\ link[l] \in Unused THEN "gone" ELSE link[l]]

LinksInit ==
    /\ link = [l \in Link |-> "none"]
    /\ cooling = {} /\ sent = 0 /\ revoked = {}
    /\ verified = FALSE /\ password = "initial"
    /\ mailer = [m \in Mailer |-> Idle]

At(m, s) == mailer[m].step = s
Then(m, s) == mailer' = [mailer EXCEPT ![m].step = s]
Answered(m) == mailer' = [mailer EXCEPT ![m] = Idle]

-----------------------------------------------------------------------------
\* requestPasswordReset: the cooldown is taken with SET NX
RequestReset(m) ==
    /\ At(m, "idle") /\ "reset" \notin cooling
    /\ cooling' = cooling \cup {"reset"}
    /\ Then(m, "mint reset")
    /\ UNCHANGED <<link, sent, account, revoked>>

\* Mutant: the counter is kept and not looked at
ResendAlways(m) ==
    /\ At(m, "idle") /\ ~verified
    /\ "verify" \notin cooling
    /\ Then(m, "send")
    /\ UNCHANGED <<link, cooling, sent, account, revoked>>

\* resendVerification looks at the cooldown and the counter, sendVerificationEmail sets them; signup,
\* which calls the latter at once, finds nothing there, and so is the first of these
Resend(m) ==
    /\ At(m, "idle") /\ ~verified
    /\ "verify" \notin cooling /\ sent < DailyLimit
    /\ Then(m, "send")
    /\ UNCHANGED <<link, cooling, sent, account, revoked>>

Send(m) ==
    /\ At(m, "send")
    /\ cooling' = cooling \cup {"verify"}
    /\ sent' = sent + 1
    /\ Then(m, "mint verify")
    /\ UNCHANGED <<link, account, revoked>>

\* A new link replaces the unused ones of its kind
Mint(m, l) ==
    /\ At(m, IF l \in ResetLink THEN "mint reset" ELSE "mint verify")
    /\ link[l] = "none"
    /\ link' = [Deleted(Kind(l)) EXCEPT ![l] = "live"]
    /\ Answered(m)
    /\ UNCHANGED <<cooling, sent, account, revoked>>

\* resetPassword and verifyEmail find the row; a used or expired one is answered at once
Follow(m, l) ==
    /\ At(m, "idle")
    /\ link[l] = "live"
    /\ mailer' = [mailer EXCEPT ![m] = [step |-> "claim", link |-> l]]
    /\ UNCHANGED <<link, cooling, sent, account, revoked>>

\* The link is claimed, does its work, and the other unused ones of its kind are deleted
ClaimLink(m) ==
    /\ At(m, "claim")
    /\ LET l == mailer[m].link
       IN /\ link[l] \in Unused
          /\ link' = [Deleted(Kind(l)) EXCEPT ![l] = "used"]
          /\ IF l \in ResetLink THEN password' = l /\ UNCHANGED verified ELSE verified' = TRUE /\ UNCHANGED password
    /\ Answered(m)
    /\ UNCHANGED <<cooling, sent, revoked>>

-----------------------------------------------------------------------------
\* changePassword compares the current password, writes the new one, then deletes the unused links
Change(m) ==
    /\ At(m, "idle")
    /\ Then(m, "write")
    /\ UNCHANGED <<link, cooling, sent, account, revoked>>

WritePassword(m) ==
    /\ At(m, "write")
    /\ password' = "changed"
    /\ Then(m, "revoke")
    /\ UNCHANGED <<link, cooling, sent, verified, revoked>>

\* Mutant: earlier links stay
RevokeNone(m) ==
    /\ At(m, "revoke")
    /\ revoked' = revoked \cup {l \in ResetLink : link[l] # "none"}
    /\ Answered(m)
    /\ UNCHANGED <<link, cooling, sent, account>>

Revoke(m) ==
    /\ At(m, "revoke")
    /\ link' = Deleted(ResetLink)
    /\ revoked' = revoked \cup {l \in ResetLink : link[l] # "none"}
    /\ Answered(m)
    /\ UNCHANGED <<cooling, sent, account>>

\* A refusal, a claim that matched nothing, a failing database, or the end of the process
LeaveMailer(m) ==
    /\ ~At(m, "idle")
    /\ Answered(m)
    /\ UNCHANGED <<link, cooling, sent, account, revoked>>

\* Time: a link expires, a cooldown ends, the counter's day ends
ExpireLink(l) ==
    /\ link[l] = "live"
    /\ link' = [link EXCEPT ![l] = "expired"]
    /\ UNCHANGED <<cooling, sent, account, mailer, revoked>>

ExpireKey(k) ==
    /\ k \in cooling
    /\ cooling' = cooling \ {k}
    /\ UNCHANGED <<link, sent, account, mailer, revoked>>

NewDay ==
    /\ sent' = 0
    /\ UNCHANGED <<link, cooling, account, mailer, revoked>>

LinksNext ==
    \/ \E m \in Mailer : \/ RequestReset(m) \/ Resend(m) \/ Send(m) \/ ClaimLink(m) \/ Change(m)
                         \/ WritePassword(m) \/ Revoke(m) \/ LeaveMailer(m)
                         \/ \E l \in Link : Mint(m, l) \/ Follow(m, l)
    \/ \E l \in Link : ExpireLink(l)
    \/ \E k \in {"reset", "verify"} : ExpireKey(k)
    \/ NewDay

LinksTypeOK ==
    /\ link \in [Link -> {"none", "live", "expired", "used", "gone"}]
    /\ revoked \subseteq ResetLink
    /\ cooling \subseteq {"reset", "verify"} /\ sent \in 0..DailyLimit + Cardinality(Mailer)
    /\ verified \in BOOLEAN /\ password \in {"initial", "changed"} \cup ResetLink
    /\ mailer \in [Mailer -> [step : {"idle", "mint reset", "send", "mint verify", "claim", "write", "revoke"}, link : Link]]

\* "A reset link requested earlier must not be able to undo this change" (changePassword): once the
\* change is through, no link that existed by then sets the password again, not even for a reset that
\* had found its row before.  Nor does any link, of either kind, work twice or after it was replaced.
ChangeNotUndone ==
    [][/\ \A l \in revoked : password' = l => password = l
       /\ \A l \in Link : link[l] \in {"used", "gone"} => link'[l] = link[l]]_<<password, link>>
=============================================================================
