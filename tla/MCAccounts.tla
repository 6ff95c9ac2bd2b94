----------------------------- MODULE MCAccounts -----------------------------
(***************************************************************************)
(* Instances for TLC of the back office and of what belongs to one user's  *)
(* account.  The parts share no state: a behaviour is one of a single      *)
(* part, the others standing still.  They share model values (requests p1  *)
(* and p2, h1 and h2; tokens, payments and spends x1 and x2), so that one  *)
(* permutation renames them in every part.                                 *)
(***************************************************************************)
EXTENDS Adjustments, Kyc, Pin, Links, Paging, Sessions, Insights, Delivery, Limits, TLC

CONSTANTS ann, ben, eve, big, cut, nobody, Parts

VARIABLE part

OfAdj == [a \in Adj |-> ann]
FromUpgrade == [r \in Upgrade |-> IF r = 3 THEN ben ELSE ann]
PerTier == (1 :> 2) @@ (2 :> 3)
OutTier == (1 :> 2) @@ (2 :> 4)

Init ==
    /\ part \in Parts
    /\ ConsoleInit /\ KycInit
    /\ PinInit /\ LinksInit /\ PagingInit /\ SessionsInit /\ InsightsInit /\ DeliveryInit /\ LimitsInit
    /\ part # "lists" => made = 0 /\ oldest
    /\ part # "deliveries" => wanted
    /\ part # "allowance" => tierOf = 1

Next ==
    /\ \/ part = "staff" /\ StaffNext
       \/ part = "console" /\ ConsoleNext
       \/ part = "upgrades" /\ KycNext
       \/ part = "pin" /\ PinNext
       \/ part = "links" /\ LinksNext
       \/ part = "lists" /\ PagingNext
       \/ part = "sessions" /\ SessionsNext
       \/ part = "insights" /\ InsightsNext
       \/ part = "deliveries" /\ DeliveryNext
       \/ part = "allowance" /\ LimitsNext
    /\ part \notin {"staff", "console"} => UNCHANGED staffVars
    /\ part # "console" => UNCHANGED <<adjVars, alone>>
    /\ part # "upgrades" => UNCHANGED kycVars
    /\ part # "pin" => UNCHANGED pinVars
    /\ part # "links" => UNCHANGED linkVars
    /\ part # "lists" => UNCHANGED pagingVars
    /\ part # "sessions" => UNCHANGED sessionVars
    /\ part # "insights" => UNCHANGED insightVars
    /\ part # "deliveries" => UNCHANGED deliveryVars
    /\ part # "allowance" => UNCHANGED limitVars
    /\ UNCHANGED part

vars == <<part, consoleVars, kycVars, pinVars, linkVars, pagingVars, sessionVars, insightVars, deliveryVars, limitVars>>

Spec == Init /\ [][Next]_vars

\* No more than two requests at a time at the console, no more than one of which changes the staff.  Where
\* adjustments are decided, the console makes approvers (FINANCE) and freezes; the script does the rest
TwoRequests ==
    part = "console" =>
        LET edits == {p \in Editor : edit[p] # NoEdit}
        IN /\ Cardinality(edits) <= 1
           /\ Cardinality(edits) + Cardinality({p \in Handler : call[p] # NoCall}) <= 2
           /\ \A p \in edits : edit[p].step = "freeze" \/ edit[p].to = "FINANCE"

\* A worker that dies on the event's job is the only one
LoneDeath == part = "deliveries" /\ run > 1 => deaths <= 1

\* When the clock has come to its bound, no more than one request is under way
LoneVisit ==
    part = "sessions" /\ now = MaxTime => \E p \in Visitor : visit[p] = NoVisit

\* Either ann or ben asks for a higher tier; what one does leaves the other's requests alone
LoneApplicant ==
    part = "upgrades" =>
        \E u \in Applicant : \A r \in Upgrade : row[r] # "none" \/ sending[r] # "idle" => From[r] = u

Symmetry == Permutations(Review) \cup Permutations(Handler) \cup Permutations(Payment)

TypeOK ==
    /\ part \in Parts
    /\ ConsoleTypeOK /\ KycTypeOK /\ PinTypeOK /\ LinksTypeOK /\ PagingTypeOK
    /\ SessionsTypeOK /\ InsightsTypeOK /\ DeliveryTypeOK /\ LimitsTypeOK
=============================================================================
