-------------------------------- MODULE Kyc --------------------------------
(***************************************************************************)
(* Tier upgrades (upgrade.service.ts): users send their ID, staff decide,  *)
(* photos of rejected requests are purged; setUserTier (admin.service.ts)  *)
(* changes a tier by hand meanwhile.                                       *)
(***************************************************************************)
EXTENDS Integers

CONSTANTS
    Upgrade,        \* submissions: each is one run of submitUpgrade and the row it may create
    Applicant, From,    \* the users, and who each submission is from
    Reviewer,       \* staff with the kyc.review permission, some of them applicants too
    Review          \* requests to the review endpoints

ASSUME KycAssumption == Upgrade # {} /\ Reviewer # {} /\ From \in [Upgrade -> Applicant]

VARIABLES
    tier,       \* the users on TIER_2
    row,        \* TierUpgradeRequest.status, "none" if there is no row
    raised,     \* how often a submission has raised its user's tier
    photos,     \* the submissions whose KycDocuments are stored
    due,        \* what a running purge has listed
    old,        \* submissions rejected over REJECTED_DOCUMENTS_KEPT_DAYS ago
    sending,    \* the next step of each submission
    review      \* what each review is doing

kycRows == <<tier, row, raised, photos, due, old>>
kycVars == <<kycRows, sending, review>>

NoReview == [verdict |-> "none", by |-> CHOOSE v \in Reviewer : TRUE, of |-> CHOOSE r \in Upgrade : TRUE]

\* The user's requests that wait for a decision; a partial unique index allows only one
Waiting(u) == {r \in Upgrade : From[r] = u /\ row[r] = "PENDING"}

KycInit ==
    /\ tier = {} /\ photos = {} /\ due = {} /\ old = {}
    /\ row = [r \in Upgrade |-> "none"]
    /\ raised = [r \in Upgrade |-> 0]
    /\ sending = [r \in Upgrade |-> "idle"]
    /\ review = [p \in Review |-> NoReview]

\* submitUpgrade reads the tier, counts the pending requests ...
ReadTier(r) ==
    /\ sending[r] = "idle" /\ row[r] = "none"
    /\ From[r] \notin tier
    /\ sending' = [sending EXCEPT ![r] = "count"]
    /\ UNCHANGED <<kycRows, review>>

CountPending(r) ==
    /\ sending[r] = "count"
    /\ sending' = [sending EXCEPT ![r] = IF Waiting(From[r]) = {} THEN "create" ELSE "idle"]
    /\ UNCHANGED <<kycRows, review>>

\* ... and creates the row with its photos, having spent a while on cleaning them
CreateUpgrade(r) ==
    /\ sending[r] = "create"
    /\ Waiting(From[r]) = {}
    /\ row' = [row EXCEPT ![r] = "PENDING"]
    /\ photos' = photos \cup {r}
    /\ sending' = [sending EXCEPT ![r] = "idle"]
    /\ UNCHANGED <<tier, raised, due, old, review>>

\* A bad photo, a unique violation (P2002), or the end of the process
LeaveSubmit(r) ==
    /\ sending[r] # "idle"
    /\ sending' = [sending EXCEPT ![r] = "idle"]
    /\ UNCHANGED <<kycRows, review>>

-----------------------------------------------------------------------------
\* decide finds the request and refuses the reviewer's own
ReadUpgrade(p, v, r, verdict) ==
    /\ review[p].verdict = "none"
    /\ row[r] # "none" /\ From[r] # v
    /\ review' = [review EXCEPT ![p] = [verdict |-> verdict, by |-> v, of |-> r]]
    /\ UNCHANGED <<kycRows, sending>>

\* Mutant: the claim does not look at the status
ClaimAnyway(p) ==
    /\ review[p].verdict # "none"
    /\ LET r == review[p].of
       IN /\ row' = [row EXCEPT ![r] = review[p].verdict]
          /\ IF review[p].verdict = "APPROVED"
             THEN tier' = tier \cup {From[r]} /\ raised' = [raised EXCEPT ![r] = @ + 1]
             ELSE UNCHANGED <<tier, raised>>
    /\ review' = [review EXCEPT ![p] = NoReview]
    /\ UNCHANGED <<photos, due, old, sending>>

\* The claim and, for an approval, the new tier, in one transaction
ClaimUpgrade(p) ==
    /\ review[p].verdict # "none"
    /\ LET r == review[p].of
       IN /\ row[r] = "PENDING"
          /\ row' = [row EXCEPT ![r] = review[p].verdict]
          /\ IF review[p].verdict = "APPROVED"
             THEN tier' = tier \cup {From[r]} /\ raised' = [raised EXCEPT ![r] = @ + 1]
             ELSE UNCHANGED <<tier, raised>>
    /\ review' = [review EXCEPT ![p] = NoReview]
    /\ UNCHANGED <<photos, due, old, sending>>

\* Somebody was faster, or the process ends
LeaveReview(p) ==
    /\ review[p].verdict # "none"
    /\ review' = [review EXCEPT ![p] = NoReview]
    /\ UNCHANGED <<kycRows, sending>>

\* setUserTier, either way, whatever is waiting
SetUserTier(v, u) ==
    /\ v # u
    /\ tier' = IF u \in tier THEN tier \ {u} ELSE tier \cup {u}
    /\ UNCHANGED <<row, raised, photos, due, old, sending, review>>

Age30Days(r) ==
    /\ row[r] = "REJECTED"
    /\ old' = old \cup {r}
    /\ UNCHANGED <<tier, row, raised, photos, due, sending, review>>

\* purgeRejectedDocuments lists its batch, then deletes
ListDue(r) ==
    /\ r \in old /\ r \in photos
    /\ due' = due \cup {r}
    /\ UNCHANGED <<tier, row, raised, photos, old, sending, review>>

PurgeDue ==
    /\ photos' = photos \ due
    /\ due' = {}
    /\ UNCHANGED <<tier, row, raised, old, sending, review>>

KycNext ==
    \/ \E r \in Upgrade : \/ ReadTier(r) \/ CountPending(r) \/ CreateUpgrade(r) \/ LeaveSubmit(r)
                          \/ Age30Days(r) \/ ListDue(r)
    \/ \E p \in Review : ClaimUpgrade(p) \/ LeaveReview(p)
    \/ \E p \in Review, v \in Reviewer, r \in Upgrade, verdict \in {"APPROVED", "REJECTED"} :
           ReadUpgrade(p, v, r, verdict)
    \/ \E v \in Reviewer, u \in Applicant : SetUserTier(v, u)
    \/ PurgeDue

KycSpec == KycInit /\ [][KycNext]_kycVars

-----------------------------------------------------------------------------
KycTypeOK ==
    /\ tier \subseteq Applicant
    /\ row \in [Upgrade -> {"none", "PENDING", "APPROVED", "REJECTED"}]
    /\ raised \in [Upgrade -> Nat]
    /\ photos \subseteq Upgrade /\ due \subseteq Upgrade /\ old \subseteq Upgrade
    /\ sending \in [Upgrade -> {"idle", "count", "create"}]
    /\ review \in [Review -> [verdict : {"none", "APPROVED", "REJECTED"}, by : Reviewer, of : Upgrade]]

Answer == [none |-> "absent", PENDING |-> "pending", APPROVED |-> "accepted", REJECTED |-> "refused"]

Reviewed == INSTANCE Decision WITH Item <- Upgrade, state <- [r \in Upgrade |-> Answer[row[r]]], effect <- raised

\* "Claims a pending request for one decision" (decide): of two reviewers one decides, and the tier
\* rises exactly when that one approves.
UpgradesDecidedOnce == Reviewed!Spec
=============================================================================
