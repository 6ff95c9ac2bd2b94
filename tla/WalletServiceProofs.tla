------------------------ MODULE WalletServiceProofs ------------------------
(***************************************************************************)
(* Theorems about WalletService, for any set of requests, calls, wallets   *)
(* and opening balances.  Base says what a row owes to the call it was     *)
(* created for, and what a reversal under way has found; from it follows   *)
(* that a commit writes the balances its entry accounts for.  Tidy adds    *)
(* what LegsTogether needs, and History, on the sums of the rows, what a   *)
(* user's history needs.  The last part assumes nothing of the clients and *)
(* nothing of the failures.  RowsSettle stays with TLC.                    *)
(***************************************************************************)
EXTENDS WalletService, Sums, FiniteSetTheorems, TLAPS

Moves == {"credit", "debit", "transfer"}
Past == {"committed", "notify", "failing", "done"}
Leg == {1, 2}

\* The movement a request makes, or undoes
Source(r) == IF call[r].kind = "reverse" THEN call[r].target[1] ELSE r

LegUser(q, l) == IF l = 1 THEN call[q].user ELSE call[q].to
LegType(q, l) == IF call[q].kind = "credit" \/ (call[q].kind = "transfer" /\ l = 2) THEN "CREDIT" ELSE "DEBIT"

\* Clients wait for answers, and a transfer is reversed by its sender
Orderly == SerialRetries /\ \A c \in Calls : c.kind = "reverse" => c.target[2] = 1

Types ==
    /\ TypeOK
    /\ DOMAIN idem = {<<c.user, c.key>> : c \in Calls}

\* What a row says, it has from the call it was created for
RowOK(r, l) ==
    row[<<r, l>>] # NoRow =>
        LET q == Source(r)
            x == row[<<r, l>>]
        IN  /\ pc[r] \in {"pending"} \cup Past
            /\ q \in Req /\ call[q].kind \in Moves
            /\ call[r].kind = "reverse" => q # r /\ pc[q] \in Past /\ row[<<q, 1>>] # NoRow
            /\ l = 2 => call[q].kind = "transfer"
            /\ x.user = LegUser(q, l) /\ x.amount = call[q].amount
            /\ x.type = IF call[r].kind = "reverse" THEN Opposite(LegType(q, l)) ELSE LegType(q, l)
            /\ x.transfer = IF call[q].kind = "transfer" THEN q ELSE 0
            /\ x.reverses = IF call[r].kind = "reverse" THEN <<q, l>> ELSE NoId
            /\ x.status # "NONE"

\* What a reversal under way has found
ReversalOK(r) ==
    call[r].kind = "reverse" /\ Live(r) =>
        LET q == call[r].target[1]
        IN  /\ q \in Req \ {r} /\ call[r].target = <<q, 1>>
            /\ call[q].kind \in Moves /\ call[q].user = call[r].user
            /\ row[<<q, 1>>] # NoRow /\ pc[q] \in Past
            /\ pc[r] = "pair" => call[q].kind = "transfer"
            /\ pc[r] \in {"create", "pending"} =>
                   IF call[q].kind = "transfer" THEN pair[r] = <<q, 2>> /\ row[<<q, 2>>] # NoRow ELSE pair[r] = NoId
            /\ \A s \in Req \ {r} : call[s].kind = "reverse" /\ call[s].target[1] = q =>
                   pc[s] = "done" /\ \A l \in Leg : row[<<s, l>>].status # "SUCCESSFUL"

CallOK(r) ==
    /\ pc[r] = "idle" <=> call[r] = NoCall
    /\ pc[r] \in {"check", "pair"} => call[r].kind = "reverse"
    /\ pc[r] \in {"idle", "check", "pair"} => pair[r] = NoId
    /\ pc[r] = "pending" => row[<<r, 1>>] # NoRow /\ \A l \in Leg : row[<<r, l>>].status \in {"NONE", "PENDING"}
    /\ pc[r] = "pending" /\ call[Source(r)].kind = "transfer" => row[<<r, 2>>] # NoRow

\* A movement that was undone is not SUCCESSFUL any more
SpentOK(r) ==
    call[r].kind = "reverse" /\ (\E l \in Leg : row[<<r, l>>].status = "SUCCESSFUL") =>
        row[<<call[r].target[1], 1>>].status # "SUCCESSFUL"

Base ==
    /\ Orderly /\ Types
    /\ \A r \in Req : CallOK(r) /\ ReversalOK(r) /\ SpentOK(r) /\ \A l \in Leg : RowOK(r, l)

LEMMA Ids == /\ \A r \in Req, l \in Leg : <<r, l>> \in RowId
             /\ \A id \in RowId : id = <<id[1], id[2]>> /\ id[1] \in Req /\ id[2] \in Leg
             /\ NoId \notin RowId /\ 0 \notin Req /\ -1 \notin Req
BY ServiceAssumption DEF RowId, NoId, Leg

LEMMA CallFacts ==
    \A c \in Calls : /\ c.kind \in Kinds /\ c.user \in Wallet /\ c.amount \in Nat /\ c.to \in Wallet \cup {0}
                     /\ c.to # c.user /\ (c.to # 0 <=> c.kind = "transfer")
                     /\ c.target # NoId <=> c.kind = "reverse"
                     /\ c.target \in RowId \cup {NoId}
                     /\ c.kind = "reverse" => c.amount = 0 /\ c.key = NoKey
BY ServiceAssumption

LEMMA TargetFacts ==
    Orderly => \A c \in Calls : c.kind = "reverse" => c.target = <<c.target[1], 1>> /\ c.target[1] \in Req
BY CallFacts, Ids DEF Orderly

LEMMA InitOK == Orderly /\ Init => Base
<1> SUFFICES ASSUME Orderly, Init PROVE Base
    OBVIOUS
<1>1. Types
    <2>1. NoRow.user = 0 /\ NoRow.type = "NONE" /\ NoRow.status = "NONE" /\ NoRow.amount = 0 /\ NoRow.transfer = 0
          /\ NoRow.reverses = NoId
        BY DEF NoRow, NoId
    <2> QED BY <2>1, ServiceAssumption DEF Init, Types, TypeOK, NoRow
<1>2. ASSUME NEW r \in Req PROVE CallOK(r) /\ ReversalOK(r) /\ SpentOK(r) /\ \A l \in Leg : RowOK(r, l)
    BY <1>2, Ids DEF Init, CallOK, ReversalOK, SpentOK, RowOK, Live, NoCall
<1> QED BY <1>1, <1>2 DEF Base

\* What a reversal is about to undo
LEMMA ReversalFacts ==
    ASSUME Base, NEW r \in Req, pc[r] = "pending", call[r].kind = "reverse"
    PROVE  LET q == Source(r)
               d == call[q]
           IN  /\ q = call[r].target[1] /\ q \in Req /\ call[r].target = <<q, 1>> /\ d.kind \in Moves
               /\ d.user = call[r].user /\ d.user \in Wallet /\ d.amount \in Nat /\ d.to \in Wallet \cup {0}
               /\ d.to # d.user /\ (d.to # 0 <=> d.kind = "transfer")
               /\ row[<<q, 1>>].user = d.user /\ row[<<q, 1>>].amount = d.amount /\ row[<<q, 1>>].type = LegType(q, 1)
               /\ row[<<q, 1>>].transfer = IF d.kind = "transfer" THEN q ELSE 0
               /\ d.kind # "transfer" => pair[r] = NoId
               /\ d.kind = "transfer" => /\ pair[r] = <<q, 2>> /\ row[<<q, 2>>] # NoRow
                                         /\ row[pair[r]].user = d.to /\ row[pair[r]].amount = d.amount
<1> DEFINE q == Source(r)
           d == call[q]
<1>1. /\ q = call[r].target[1] /\ q \in Req /\ call[r].target = <<q, 1>> /\ row[<<q, 1>>] # NoRow
      /\ d.kind \in Moves /\ d.user = call[r].user
      /\ IF d.kind = "transfer" THEN pair[r] = <<q, 2>> /\ row[<<q, 2>>] # NoRow ELSE pair[r] = NoId
    BY DEF Base, ReversalOK, Source, Live
<1>2. d \in Calls
    BY <1>1 DEF Base, Types, TypeOK, NoCall, Moves
<1>3. d.user \in Wallet /\ d.amount \in Nat /\ d.to \in Wallet \cup {0} /\ d.to # d.user
      /\ (d.to # 0 <=> d.kind = "transfer")
    BY <1>2, CallFacts
<1>4. Source(q) = q
    BY <1>1 DEF Source, Moves
<1>5. \A l \in Leg : row[<<q, l>>] # NoRow =>
          /\ row[<<q, l>>].user = LegUser(q, l) /\ row[<<q, l>>].amount = d.amount
          /\ row[<<q, l>>].type = LegType(q, l)
          /\ row[<<q, l>>].transfer = IF d.kind = "transfer" THEN q ELSE 0
    BY <1>1, <1>4 DEF Base, RowOK, Moves
<1> QED BY <1>1, <1>3, <1>5, SMTT(30) DEF LegUser, Leg

\* What undoes a movement of an amount is one of the opposite amount
LEMMA NegativeMove ==
    ASSUME NEW u, NEW a \in Int
    PROVE  Negative(Move(u, a)) = Move(u, -a)
BY DEF Negative, Move

\* The transaction's balances are those of its entry
LEMMA CommitMoves ==
    ASSUME Base, NEW r \in Req, pc[r] = "pending"
    PROVE  Written(r) = Plus(balance, Entry(r))
<1> DEFINE c == call[r]
           q == Source(r)
           d == call[q]
<1>1. CASE c.kind # "reverse"
    BY <1>1 DEF Written, Entry, IsTransferReversal
<1>2. CASE c.kind = "reverse"
    <2>1. /\ q = c.target[1] /\ c.target = <<q, 1>> /\ d.kind \in Moves /\ q \in Req
          /\ d.user = c.user /\ d.user \in Wallet /\ d.amount \in Nat /\ d.to \in Wallet \cup {0} /\ d.to # d.user
          /\ row[<<q, 1>>].amount = d.amount /\ row[<<q, 1>>].type = LegType(q, 1)
          /\ row[<<q, 1>>].transfer = IF d.kind = "transfer" THEN q ELSE 0
          /\ d.kind = "transfer" => row[pair[r]].user = d.to /\ row[pair[r]].amount = d.amount /\ d.to # 0
        BY <1>2, ReversalFacts
    <2>2. balance \in [Wallet -> Nat]
        BY DEF Base, Types, TypeOK
    <2>3. CASE d.kind = "transfer"
        <3>1. Written(r) = [w \in Wallet |-> CASE w = d.to   -> balance[w] - d.amount
                                               [] w = d.user -> balance[w] + d.amount
                                               [] OTHER      -> balance[w]]
            BY <1>2, <2>1, <2>3, Ids DEF Written, IsTransferReversal
        <3>2. Entry(r) = Negative(Plus(Move(d.user, -d.amount), Move(d.to, d.amount)))
            BY <1>2, <2>1, <2>3 DEF Entry, Posted
        <3>3. d.user \in Wallet /\ d.to \in Wallet /\ d.to # d.user /\ d.amount \in Nat
            BY <2>1, <2>3
        <3> QED BY <2>2, <3>1, <3>2, <3>3 DEF Negative, Plus, Move
    <2>4. CASE d.kind = "credit"
        <3>1. Written(r) = Plus(balance, Move(d.user, -d.amount))
            BY <1>2, <2>1, <2>4 DEF Written, IsTransferReversal, LegType
        <3>2. Entry(r) = Negative(Move(d.user, d.amount))
            BY <1>2, <2>1, <2>4 DEF Entry, Posted
        <3>3. Negative(Move(d.user, d.amount)) = Move(d.user, -d.amount)
            BY <2>1, NegativeMove
        <3> QED BY <3>1, <3>2, <3>3
    <2>5. CASE d.kind = "debit"
        <3>1. Written(r) = Plus(balance, Move(d.user, d.amount))
            BY <1>2, <2>1, <2>5 DEF Written, IsTransferReversal, LegType
        <3>2. Entry(r) = Negative(Move(d.user, -d.amount))
            BY <1>2, <2>1, <2>5 DEF Entry, Posted
        <3>3. Negative(Move(d.user, -d.amount)) = Move(d.user, -(-d.amount)) /\ -(-d.amount) = d.amount
            BY <2>1, NegativeMove
        <3> QED BY <3>1, <3>2, <3>3
    <2> QED BY <2>1, <2>3, <2>4, <2>5 DEF Moves
<1> QED BY <1>1, <1>2

LEMMA PostedType ==
    ASSUME Types, NEW q \in Req, call[q] \in Calls
    PROVE  Posted(q) \in [Wallet -> Int]
<1>1. call[q].amount \in Nat
    BY CallFacts
<1>2. \A u, a : a \in Int => Move(u, a) \in [Wallet -> Int]
    BY DEF Move
<1>3. \A f, g \in [Wallet -> Int] : Plus(f, g) \in [Wallet -> Int]
    BY DEF Plus
<1> QED BY <1>1, <1>2, <1>3 DEF Posted

\* Only the wallet that is checked loses money, and no more than is checked
LEMMA OnlyCheckedPays ==
    ASSUME Base, NEW r \in Req, pc[r] = "pending", NEW w \in Wallet
    PROVE  /\ Entry(r)[w] \in Int /\ Checked(r)[2] \in Nat
           /\ Entry(r)[w] >= 0 \/ (w = Checked(r)[1] /\ Entry(r)[w] >= -Checked(r)[2])
<1> DEFINE c == call[r]
           q == Source(r)
           d == call[q]
<1>0. c \in Calls /\ c.user \in Wallet /\ c.amount \in Nat /\ c.to \in Wallet \cup {0} /\ c.to # c.user /\ c.kind \in Kinds
    BY CallFacts, ZenonT(30) DEF Base, Types, TypeOK, CallOK
<1>1. CASE c.kind \in Moves
    <2>1. Entry(r) = Posted(r)
        BY <1>1 DEF Entry, Moves
    <2>2. CASE c.kind = "credit"
        BY <1>0, <2>1, <2>2 DEF Posted, Checked, Move, IsTransferReversal
    <2>3. CASE c.kind = "debit"
        <3>1. Checked(r) = <<c.user, c.amount>> /\ Posted(r) = Move(c.user, -c.amount)
            BY <2>3 DEF Checked, Posted, IsTransferReversal
        <3> QED BY <1>0, <2>1, <3>1 DEF Move
    <2>4. CASE c.kind = "transfer"
        <3>1. Checked(r) = <<c.user, c.amount>> /\ Posted(r) = Plus(Move(c.user, -c.amount), Move(c.to, c.amount))
            BY <2>4 DEF Checked, Posted, IsTransferReversal
        <3> QED BY <1>0, <2>1, <3>1 DEF Move, Plus
    <2> QED BY <1>1, <2>2, <2>3, <2>4 DEF Moves
<1>2. CASE c.kind = "reverse"
    <2>1. /\ q = c.target[1] /\ c.target = <<q, 1>> /\ d.kind \in Moves /\ q \in Req
          /\ d.user = c.user /\ d.user \in Wallet /\ d.amount \in Nat /\ d.to \in Wallet \cup {0} /\ d.to # d.user
          /\ row[<<q, 1>>].amount = d.amount /\ row[<<q, 1>>].type = LegType(q, 1)
          /\ row[<<q, 1>>].transfer = IF d.kind = "transfer" THEN q ELSE 0
          /\ d.kind = "transfer" => row[pair[r]].user = d.to /\ row[pair[r]].amount = d.amount /\ d.to # 0
        BY <1>2, ReversalFacts
    <2>2. Entry(r) = Negative(Posted(q))
        BY <1>2, <2>1 DEF Entry
    <2>3. CASE d.kind = "credit"
        <3>1. Checked(r) = <<d.user, d.amount>>
            BY <1>2, <2>1, <2>3 DEF Checked, IsTransferReversal, LegType
        <3>2. Posted(q) = Move(d.user, d.amount) /\ d.amount \in Nat
            BY <2>1, <2>3 DEF Posted
        <3> QED BY <2>2, <3>1, <3>2 DEF Move, Negative
    <2>4. CASE d.kind = "debit"
        <3>1. Checked(r) = <<d.user, 0>>
            BY <1>2, <2>1, <2>4 DEF Checked, IsTransferReversal, LegType
        <3>2. Posted(q) = Move(d.user, -d.amount) /\ d.amount \in Nat
            BY <2>1, <2>4 DEF Posted
        <3> QED BY <2>2, <3>1, <3>2 DEF Move, Negative
    <2>5. CASE d.kind = "transfer"
        <3>1. Checked(r) = <<d.to, d.amount>>
            <4>1. row[c.target].transfer # 0
                BY <2>1, <2>5, Ids
            <4> QED BY <1>2, <2>1, <2>5, <4>1 DEF Checked, IsTransferReversal, LegType
        <3>2. Posted(q) = Plus(Move(d.user, -d.amount), Move(d.to, d.amount))
            BY <2>5 DEF Posted
        <3>3. d.user \in Wallet /\ d.to \in Wallet /\ d.to # d.user /\ d.amount \in Nat
            BY <2>1, <2>5
        <3> QED BY <2>2, <3>1, <3>2, <3>3 DEF Move, Negative, Plus
    <2> QED BY <2>1, <2>3, <2>4, <2>5 DEF Moves
<1> QED BY <1>0, <1>1, <1>2 DEF Kinds, Moves

LEMMA CommitAffordable ==
    ASSUME Base, NEW r \in Req, pc[r] = "pending", balance[Checked(r)[1]] >= Checked(r)[2]
    PROVE  Written(r) \in [Wallet -> Nat] /\ Entry(r) \in [Wallet -> Int]
<1>1. Entry(r) \in [Wallet -> Int]
    <2>1. call[r] \in Calls /\ (call[r].kind = "reverse" => Source(r) = call[r].target[1] /\ Source(r) \in Req /\ call[Source(r)] \in Calls)
        <3>1. call[r] \in Calls
            BY DEF Base, Types, TypeOK, CallOK
        <3>2. ASSUME call[r].kind = "reverse" PROVE Source(r) = call[r].target[1] /\ Source(r) \in Req /\ call[Source(r)] \in Calls
            <4>1. Source(r) = call[r].target[1] /\ Source(r) \in Req /\ call[Source(r)].kind \in Moves
                BY <3>2, ReversalFacts
            <4> QED BY <4>1 DEF Base, Types, TypeOK, NoCall, Moves
        <3> QED BY <3>1, <3>2
    <2>2. \A f \in [Wallet -> Int] : Negative(f) \in [Wallet -> Int]
        BY DEF Negative
    <2> QED BY <2>1, <2>2, PostedType DEF Entry, Base
<1>2. ASSUME NEW w \in Wallet PROVE balance[w] + Entry(r)[w] \in Nat
    BY <1>2, OnlyCheckedPays DEF Base, Types, TypeOK
<1> QED BY <1>1, <1>2, CommitMoves DEF Plus

-----------------------------------------------------------------------------
\* Every step keeps Base

RowSet == [user: Wallet \cup {0}, type: {"NONE", "CREDIT", "DEBIT"},
           status: {"NONE", "PENDING", "SUCCESSFUL", "FAILED", "REVERSED"},
           amount: Nat, transfer: Req \cup {0}, reverses: RowId \cup {NoId}]

\* A row stays one, whatever its status becomes
LEMMA StatusSet ==
    \A x \in RowSet, s \in {"NONE", "PENDING", "SUCCESSFUL", "FAILED", "REVERSED"} : [x EXCEPT !.status = s] \in RowSet
BY DEF RowSet

\* Requests of which one has no rows, and the calls that are not reversals
LEMMA BaseFacts ==
    ASSUME Base, NEW r \in Req
    PROVE  /\ pc[r] = "idle" => call[r] = NoCall /\ call[r].kind = "none"
           /\ pc[r] # "idle" => call[r] \in Calls /\ call[r].kind \in Kinds
           /\ pc[r] \in {"idle", "check", "pair", "create"} => \A l \in Leg : row[<<r, l>>] = NoRow
           /\ call[r].kind \in Moves => Source(r) = r
           /\ call[r].kind = "reverse" => Source(r) = call[r].target[1]
           /\ \A l \in Leg : row[<<r, l>>] = NoRow <=> row[<<r, l>>].status = "NONE"
           /\ \A l \in Leg : row[<<r, l>>] \in RowSet
<1>1. pc[r] = "idle" <=> call[r] = NoCall
    BY DEF Base, CallOK
<1>2. pc[r] # "idle" => call[r] \in Calls /\ call[r].kind \in Kinds
    BY <1>1, CallFacts DEF Base, Types, TypeOK
<1>3. ASSUME NEW l \in Leg
      PROVE  /\ pc[r] \in {"idle", "check", "pair", "create"} => row[<<r, l>>] = NoRow
             /\ row[<<r, l>>] = NoRow <=> row[<<r, l>>].status = "NONE"
             /\ row[<<r, l>>] \in RowSet
    <2>1. row[<<r, l>>] \in RowSet
        BY <1>3, Ids DEF Base, Types, TypeOK, RowSet
    <2>2. row[<<r, l>>] # NoRow => row[<<r, l>>].status # "NONE" /\ pc[r] \in {"pending"} \cup Past
        BY <1>3 DEF Base, RowOK
    <2>3. NoRow.status = "NONE"
        BY DEF NoRow
    <2> QED BY <2>1, <2>2, <2>3 DEF Past
<1> QED BY <1>1, <1>2, <1>3 DEF NoCall, Source, Moves

LEMMA SameReversal ==
    ASSUME NEW c \in Calls, NEW d \in Calls, c.kind = "reverse", d.kind = "reverse",
           c.target = d.target, c.user = d.user
    PROVE  c = d
<1>1. c.to = d.to /\ c.amount = d.amount /\ c.key = d.key
    BY CallFacts
<1> QED BY <1>1, ServiceAssumption

\* A request that is not at rest, moves on and touches no row
LEMMA MoveOn ==
    ASSUME Base, Types', NEW r \in Req, NEW s, Live(r),
           UNCHANGED <<row, call, pair>>, pc' = [pc EXCEPT ![r] = s],
           \/ s \in Past
           \/ pc[r] = "check" /\ s = "create" /\ call[Source(r)].kind # "transfer"
           \/ pc[r] = "check" /\ s = "pair" /\ call[Source(r)].kind = "transfer"
    PROVE  Base'
<1>0. pc \in [Req -> {"idle", "check", "pair", "create", "pending", "committed", "notify", "failing", "done"}]
    BY DEF Base, Types, TypeOK
<1>1. \A x \in Req : Source(x)' = Source(x)
    BY DEF Source
<1>2. ASSUME NEW x \in Req PROVE CallOK(x)'
    BY <1>0, <1>1, <1>2, BaseFacts DEF Base, CallOK, Live, Past
<1>3. ASSUME NEW x \in Req PROVE SpentOK(x)'
    BY <1>3 DEF Base, SpentOK
<1>4. ASSUME NEW x \in Req, NEW l \in Leg PROVE RowOK(x, l)'
    <2>1. pc[x] \in {"pending"} \cup Past => pc'[x] \in {"pending"} \cup Past
        BY <1>0, <1>4 DEF Past
    <2>2. \A y \in Req : pc[y] \in Past => pc'[y] \in Past
        BY <1>0 DEF Past
    <2>3. RowOK(x, l)
        BY <1>4 DEF Base
    <2> QED BY <1>1, <2>1, <2>2, <2>3, <1>4 DEF RowOK, LegUser, LegType
<1>5. ASSUME NEW x \in Req PROVE ReversalOK(x)'
    <2> SUFFICES ASSUME call[x].kind = "reverse", Live(x)' PROVE ReversalOK(x)'
        BY DEF ReversalOK
    <2>1. Live(x)
        BY <1>0, <1>5 DEF Live
    <2>2. \A y \in Req : pc[y] \in Past => pc'[y] \in Past
        BY <1>0 DEF Past
    <2>3. ReversalOK(x)
        BY <1>5 DEF Base
    <2>4. \A y \in Req : pc[y] = "done" => pc'[y] = "done"
        BY <1>0 DEF Live
    <2>5. pc'[x] = "pair" => pc[x] = "pair" \/ call[call[x].target[1]].kind = "transfer"
        BY <1>0, <1>5 DEF Past, Source
    <2>6. pc'[x] \in {"create", "pending"} =>
              pc[x] \in {"create", "pending"} \/ (call[call[x].target[1]].kind # "transfer" /\ pair[x] = NoId)
        BY <1>0, <1>5 DEF Past, Source, Base, CallOK
    <2> QED BY <2>1, <2>2, <2>3, <2>4, <2>5, <2>6 DEF ReversalOK
<1> QED BY <1>2, <1>3, <1>4, <1>5 DEF Base

LEMMA QuietStep ==
    ASSUME Base, NEW r \in Req,
           FindReversal(r) \/ Refuse(r) \/ Finish(r) \/ RedisFails(r) \/ Notify(r) \/ Rethrow(r) \/ Crash(r)
    PROVE  Base'
<1>1. Live(r) /\ UNCHANGED <<row, call, pair, balance, ledger>>
    BY DEF Live, FindReversal, Refuse, Finish, RedisFails, Notify, Rethrow, Crash
<1>2. \E s \in {"create", "pair"} \cup Past :
        /\ pc' = [pc EXCEPT ![r] = s]
        /\ s = "create" => pc[r] = "check" /\ ~IsTransferReversal(call[r])
        /\ s = "pair" => pc[r] = "check" /\ IsTransferReversal(call[r])
    BY DEF FindReversal, Refuse, Finish, RedisFails, Notify, Rethrow, Crash, Goto, Answer, Past
<1>3. pc[r] = "check" => (IsTransferReversal(call[r]) <=> call[Source(r)].kind = "transfer")
    <2> SUFFICES ASSUME pc[r] = "check" PROVE IsTransferReversal(call[r]) <=> call[Source(r)].kind = "transfer"
        OBVIOUS
    <2> DEFINE q == call[r].target[1]
    <2>1. call[r].kind = "reverse" /\ q \in Req /\ call[r].target = <<q, 1>> /\ row[<<q, 1>>] # NoRow
          /\ call[q].kind \in Moves /\ Source(r) = q
        BY BaseFacts DEF Base, CallOK, ReversalOK, Live
    <2>2. row[<<q, 1>>].transfer = IF call[q].kind = "transfer" THEN q ELSE 0
        <3>1. Source(q) = q /\ RowOK(q, 1)
            BY <2>1, BaseFacts DEF Base, Leg
        <3> QED BY <2>1, <3>1 DEF RowOK
    <2> QED BY <2>1, <2>2, Ids DEF IsTransferReversal
<1>4. Types'
    <2>1. idem' \in [DOMAIN idem -> Req \cup {0}] /\ DOMAIN idem' = DOMAIN idem /\ reply' \in [Req -> Req \cup {-1, 0}]
        <3>1. idem \in [DOMAIN idem -> Req \cup {0}] /\ reply \in [Req -> Req \cup {-1, 0}]
            BY DEF Base, Types, TypeOK
        <3> QED BY <3>1 DEF FindReversal, Refuse, Finish, RedisFails, Notify, Rethrow, Crash, Answer
    <2>2. pc' \in [Req -> {"idle", "check", "pair", "create", "pending", "committed", "notify", "failing", "done"}]
        BY <1>2 DEF Base, Types, TypeOK, Past
    <2> QED BY <1>1, <2>1, <2>2 DEF Base, Types, TypeOK
<1> QED
    <2>1. PICK s \in {"create", "pair"} \cup Past :
            /\ pc' = [pc EXCEPT ![r] = s]
            /\ s = "create" => pc[r] = "check" /\ ~IsTransferReversal(call[r])
            /\ s = "pair" => pc[r] = "check" /\ IsTransferReversal(call[r])
        BY <1>2
    <2> QED BY <1>1, <1>3, <1>4, <2>1, MoveOn

\* The row a reversal is about, and what it says of the call behind it
LEMMA RowFacts ==
    ASSUME Base, NEW q \in Req, NEW l \in Leg, row[<<q, l>>] # NoRow, call[q].kind # "reverse"
    PROVE  /\ call[q].kind \in Moves /\ pc[q] \in {"pending"} \cup Past
           /\ l = 2 => call[q].kind = "transfer"
           /\ row[<<q, l>>].user = LegUser(q, l) /\ row[<<q, l>>].amount = call[q].amount
           /\ row[<<q, l>>].type = LegType(q, l) /\ row[<<q, l>>].reverses = NoId
           /\ row[<<q, l>>].transfer = IF call[q].kind = "transfer" THEN q ELSE 0
<1>1. RowOK(q, l) /\ Source(q) = q
    BY DEF Base, Source
<1> QED BY <1>1 DEF RowOK

LEMMA StartStep ==
    ASSUME Base, NEW r \in Req, NEW c \in Calls, Start(r, c)
    PROVE  Base'
<1>t. SerialRetries /\ \A d \in Calls : d.kind = "reverse" => d.target = <<d.target[1], 1>> /\ d.target[1] \in Req
    BY TargetFacts DEF Base, Orderly
<1>0. /\ pc \in [Req -> {"idle", "check", "pair", "create", "pending", "committed", "notify", "failing", "done"}]
      /\ call \in [Req -> Calls \cup {NoCall}]
    BY DEF Base, Types, TypeOK
<1>1. /\ pc[r] = "idle" /\ call[r].kind = "none" /\ call' = [call EXCEPT ![r] = c]
      /\ \A l \in Leg : row[<<r, l>>] = NoRow
      /\ UNCHANGED <<row, balance, ledger, idem, pair>>
    BY BaseFacts DEF Start
<1>2. PICK s \in {"done", "create", "check"} :
        /\ pc' = [pc EXCEPT ![r] = s]
        /\ s = "check" <=> pc'[r] = "check"
        /\ s = "create" => c.kind # "reverse"
        /\ s = "check" => c.kind = "reverse" /\ row[c.target].user = c.user /\ row[c.target].reverses = NoId
                          /\ row[c.target].status = "SUCCESSFUL"
    BY <1>0 DEF Start, Goto, Answer
<1>3. c \in Calls /\ c # NoCall /\ c.kind \in Kinds
    BY CallFacts DEF NoCall, Kinds
<1>4. \A x \in Req \ {r} : call'[x] = call[x] /\ pc'[x] = pc[x]
    BY <1>0, <1>1, <1>2
<1>5. call'[r] = c /\ pc'[r] = s
    BY <1>0, <1>1, <1>2
<1>6. Types'
    <2>1. reply' \in [Req -> Req \cup {-1, 0}]
        BY DEF Start, Answer, Base, Types, TypeOK
    <2> QED BY <1>0, <1>1, <1>2, <2>1 DEF Base, Types, TypeOK
<1>7. ASSUME NEW x \in Req PROVE CallOK(x)'
    <2>1. CASE x = r
        <3>1. pair[r] = NoId
            BY <1>1 DEF Base, CallOK
        <3> QED BY <1>1, <1>2, <1>3, <1>5, <2>1, <3>1 DEF CallOK
    <2>2. CASE x # r
        <3>1. pc[x] = "pending" => Source(x) # r
            BY <1>1, <1>7, <2>2 DEF Base, CallOK, RowOK, Moves, Leg
        <3> QED BY <1>1, <1>4, <1>7, <2>2, <3>1 DEF Base, CallOK, Source
    <2> QED BY <2>1, <2>2
<1>8. ASSUME NEW x \in Req PROVE SpentOK(x)'
    <2>1. NoRow.status = "NONE"
        BY DEF NoRow
    <2> QED BY <1>1, <1>4, <1>8, <2>1 DEF Base, SpentOK
<1>9. ASSUME NEW x \in Req, NEW l \in Leg PROVE RowOK(x, l)'
    <2> SUFFICES ASSUME row[<<x, l>>] # NoRow PROVE RowOK(x, l)'
        BY <1>1 DEF RowOK
    <2>1. x # r /\ RowOK(x, l)
        BY <1>1, <1>9 DEF Base
    <2>2. Source(x) \in Req /\ Source(x) # r
        BY <1>1, <2>1 DEF RowOK, Moves
    <2>3. Source(x)' = Source(x)
        BY <1>4, <1>9, <2>1 DEF Source
    <2> QED BY <1>1, <1>4, <2>1, <2>2, <2>3, <1>9 DEF RowOK, LegUser, LegType
<1>10. ASSUME NEW x \in Req PROVE ReversalOK(x)'
    <2> SUFFICES ASSUME call'[x].kind = "reverse", Live(x)' PROVE ReversalOK(x)'
        BY DEF ReversalOK
    <2>1. CASE x = r
        <3> DEFINE q == c.target[1]
        <3>1. /\ c.kind = "reverse" /\ s = "check" /\ c.target = <<q, 1>> /\ q \in Req \ {r} /\ row[<<q, 1>>] # NoRow
              /\ row[<<q, 1>>].user = c.user /\ row[<<q, 1>>].reverses = NoId /\ row[<<q, 1>>].status = "SUCCESSFUL"
            BY <1>2, <1>5, <1>t, <2>1, CallFacts DEF Start, Live
        <3>2. call[q].kind # "reverse"
            <4> SUFFICES ASSUME call[q].kind = "reverse" PROVE FALSE
                OBVIOUS
            <4>1. RowOK(q, 1)
                BY <3>1 DEF Base, Leg
            <4> QED BY <3>1, <4>1, Ids DEF RowOK, Leg
        <3>3. call[q].kind \in Moves /\ call[q].user = c.user /\ pc[q] \in Past
            BY <3>1, <3>2, RowFacts DEF Leg, LegUser, Base, CallOK
        <3>4. ASSUME NEW y \in Req \ {r}, call[y].kind = "reverse", call[y].target[1] = q
              PROVE  pc[y] = "done" /\ \A l \in Leg : row[<<y, l>>].status # "SUCCESSFUL"
            <4>1. pc[y] # "idle" /\ call[y] \in Calls
                BY <3>4, BaseFacts
            <4>2. ASSUME Live(y) PROVE FALSE
                <5>1. call[y].user = c.user /\ call[y].target = c.target
                    <6>1. ReversalOK(y)
                        BY <3>4 DEF Base
                    <6> QED BY <3>1, <3>3, <3>4, <4>2, <6>1 DEF ReversalOK
                <5>2. call[y] = c
                    BY <3>1, <3>4, <4>1, <5>1, SameReversal
                <5> QED BY <4>2, <5>2, <1>t DEF Start, Live
            <4>3. \A l \in Leg : row[<<y, l>>].status # "SUCCESSFUL"
                BY <3>1, <3>4 DEF Base, SpentOK
            <4> QED BY <4>1, <4>2, <4>3 DEF Live
        <3> QED BY <1>1, <1>4, <1>5, <2>1, <3>1, <3>3, <3>4 DEF ReversalOK
    <2>2. CASE x # r
        <3> DEFINE q == call[x].target[1]
        <3>1. call[x].kind = "reverse" /\ Live(x) /\ ReversalOK(x)
            BY <1>4, <1>10, <2>2 DEF Live, Base
        <3>2. q \in Req \ {x} /\ call[x].target = <<q, 1>> /\ call[q].kind \in Moves /\ call[q].user = call[x].user
              /\ row[<<q, 1>>] # NoRow /\ q # r
            BY <1>1, <3>1 DEF ReversalOK, Moves
        <3>3. c.kind = "reverse" /\ c.target[1] = q => s = "done"
            <4> SUFFICES ASSUME c.kind = "reverse", c.target[1] = q, s = "check" PROVE FALSE
                BY <1>2
            <4>1. c.target = <<q, 1>> /\ row[<<q, 1>>].user = c.user
                BY <1>2, <1>t
            <4>2. row[<<q, 1>>].user = call[q].user
                BY <3>2, RowFacts DEF Leg, LegUser, Moves
            <4>3. call[x] \in Calls
                BY <1>10, <3>1, BaseFacts DEF Live
            <4>4. call[x] = c
                BY <3>1, <3>2, <4>1, <4>2, <4>3, SameReversal
            <4> QED BY <1>10, <3>1, <4>4, <1>t DEF Start, Live
        <3>4. NoRow.status = "NONE"
            BY DEF NoRow
        <3> QED BY <1>1, <1>4, <1>5, <2>2, <3>1, <3>2, <3>3, <3>4, <1>10 DEF ReversalOK
    <2> QED BY <2>1, <2>2
<1> QED BY <1>6, <1>7, <1>8, <1>9, <1>10 DEF Base

LEMMA FindPairStep ==
    ASSUME Base, NEW r \in Req, FindPair(r)
    PROVE  Base'
<1>0. /\ pc \in [Req -> {"idle", "check", "pair", "create", "pending", "committed", "notify", "failing", "done"}]
      /\ pair \in [Req -> RowId \cup {NoId}]
    BY DEF Base, Types, TypeOK
<1> DEFINE q == call[r].target[1]
<1>1. /\ pc[r] = "pair" /\ Live(r) /\ call[r].kind = "reverse" /\ Source(r) = q
      /\ q \in Req \ {r} /\ call[r].target = <<q, 1>> /\ call[q].kind = "transfer" /\ row[<<q, 1>>] # NoRow
    BY BaseFacts DEF FindPair, Base, CallOK, ReversalOK, Live
<1>2. row[<<q, 1>>].transfer = q /\ q # 0
    BY <1>1, RowFacts, Ids DEF Leg
<1>3. UNCHANGED <<row, balance, ledger, idem, call>>
    BY DEF FindPair
<1>4. PICK id \in RowId : /\ row[id].transfer = q /\ row[id].type = "CREDIT"
                          /\ IF row[id].status = "SUCCESSFUL"
                             THEN Goto(r, "create") /\ pair' = [pair EXCEPT ![r] = id] /\ UNCHANGED reply
                             ELSE Answer(r, -1) /\ UNCHANGED pair
    BY <1>1, <1>2 DEF FindPair
<1>5. CASE row[id].status # "SUCCESSFUL"
    <2>1. pc' = [pc EXCEPT ![r] = "done"] /\ UNCHANGED pair /\ reply' \in [Req -> Req \cup {-1, 0}]
        BY <1>4, <1>5 DEF Answer, Goto, Base, Types, TypeOK
    <2>2. Types'
        BY <1>0, <1>3, <2>1 DEF Base, Types, TypeOK
    <2> QED BY <1>1, <1>3, <2>1, <2>2, MoveOn DEF Past
<1>6. CASE row[id].status = "SUCCESSFUL"
    <2>1. PICK a \in Req, l \in Leg : id = <<a, l>>
        BY Ids
    <2>2. row[<<a, l>>] # NoRow /\ RowOK(a, l)
        BY <1>6, <2>1 DEF NoRow, Base
    <2>3. Source(a) = q
        BY <1>2, <1>4, <2>1, <2>2 DEF RowOK
    <2>4. call[a].kind # "reverse"
        <3> SUFFICES ASSUME call[a].kind = "reverse" PROVE FALSE
            OBVIOUS
        <3>1. a # r
            BY <1>1, <2>2 DEF RowOK, Past
        <3>2. call[a].target[1] = q
            BY <2>3 DEF Source
        <3>3. ReversalOK(r)
            BY DEF Base
        <3> QED BY <1>1, <1>6, <2>1, <3>1, <3>2, <3>3 DEF ReversalOK
    <2>5. id = <<q, 2>> /\ row[<<q, 2>>] # NoRow
        BY <1>1, <1>4, <2>1, <2>2, <2>3, <2>4 DEF Source, RowOK, LegType, Leg
    <2>6. pc' = [pc EXCEPT ![r] = "create"] /\ pair' = [pair EXCEPT ![r] = <<q, 2>>] /\ UNCHANGED reply
        BY <1>4, <1>6, <2>5 DEF Goto
    <2>7. Types'
        BY <1>0, <1>3, <2>5, <2>6 DEF Base, Types, TypeOK
    <2>8. \A x \in Req : /\ pc[x] \in {"pending"} \cup Past => pc'[x] = pc[x]
                         /\ x # r => pc'[x] = pc[x] /\ pair'[x] = pair[x]
                         /\ Source(x)' = Source(x)
        BY <1>0, <1>1, <1>3, <2>6 DEF Past, Source
    <2>9. ASSUME NEW x \in Req PROVE CallOK(x)'
        <3>1. pc'[r] = "create"
            BY <1>0, <2>6
        <3> QED BY <1>1, <1>3, <2>8, <2>9, <3>1, BaseFacts DEF Base, CallOK
    <2>10. ASSUME NEW x \in Req PROVE SpentOK(x)'
        BY <1>3, <2>10 DEF Base, SpentOK
    <2>11. ASSUME NEW x \in Req, NEW k \in Leg PROVE RowOK(x, k)'
        <3>1. RowOK(x, k)
            BY <2>11 DEF Base
        <3> QED BY <1>3, <2>8, <2>11, <3>1 DEF RowOK, LegUser, LegType
    <2>12. ASSUME NEW x \in Req PROVE ReversalOK(x)'
        <3> SUFFICES ASSUME call[x].kind = "reverse", Live(x)' PROVE ReversalOK(x)'
            BY <1>3 DEF ReversalOK
        <3>1. Live(x) /\ ReversalOK(x)
            BY <1>0, <1>1, <2>6, <2>12 DEF Live, Base
        <3>2. \A y \in Req : pc[y] = "done" => pc'[y] = "done"
            BY <2>8 DEF Past
        <3>3. CASE x = r
            <4>1. pc'[r] = "create" /\ pair'[r] = <<q, 2>>
                BY <1>0, <2>6
            <4>2. \A y \in Req : pc[y] \in Past => pc'[y] \in Past
                BY <2>8
            <4> QED BY <1>1, <1>3, <2>5, <3>1, <3>2, <3>3, <4>1, <4>2 DEF ReversalOK
        <3>4. CASE x # r
            BY <1>3, <2>8, <2>12, <3>1, <3>2, <3>4 DEF ReversalOK
        <3> QED BY <3>3, <3>4
    <2> QED BY <2>7, <2>9, <2>10, <2>11, <2>12 DEF Base
<1> QED BY <1>5, <1>6

\* The rows a request creates are what RowOK asks for
LEMMA NewRowFacts ==
    ASSUME Base, NEW r \in Req, pc[r] = "create"
    PROVE  LET q == Source(r)
           IN  /\ q \in Req /\ call[q].kind \in Moves
               /\ DOMAIN NewRows(r) = IF call[q].kind = "transfer" THEN {1, 2} ELSE {1}
               /\ \A l \in DOMAIN NewRows(r) :
                     NewRows(r)[l] = [user |-> LegUser(q, l),
                                      type |-> IF call[r].kind = "reverse" THEN Opposite(LegType(q, l)) ELSE LegType(q, l),
                                      status |-> "PENDING", amount |-> call[q].amount,
                                      transfer |-> IF call[q].kind = "transfer" THEN q ELSE 0,
                                      reverses |-> IF call[r].kind = "reverse" THEN <<q, l>> ELSE NoId]
<1> DEFINE c == call[r]
           q == Source(r)
<1>1. c \in Calls /\ c.kind \in Kinds
    BY BaseFacts
<1>2. CASE c.kind = "credit"
    BY <1>2 DEF NewRows, Pending, Source, LegUser, LegType, Moves, IsTransferReversal
<1>3. CASE c.kind = "debit"
    BY <1>3 DEF NewRows, Pending, Source, LegUser, LegType, Moves, IsTransferReversal
<1>4. CASE c.kind = "transfer"
    <2>1. NewRows(r) = <<Pending(c.user, "DEBIT", c.amount, r, NoId), Pending(c.to, "CREDIT", c.amount, r, NoId)>>
        BY <1>4 DEF NewRows, IsTransferReversal
    <2> QED BY <1>4, <2>1 DEF Pending, Source, LegUser, LegType, Moves
<1>5. CASE c.kind = "reverse"
    <2>1. /\ q = c.target[1] /\ q \in Req /\ c.target = <<q, 1>> /\ row[<<q, 1>>] # NoRow
          /\ call[q].kind \in Moves /\ call[q].user = c.user
          /\ call[q].kind = "transfer" => pair[r] = <<q, 2>> /\ row[<<q, 2>>] # NoRow
        BY <1>5 DEF Base, ReversalOK, Source, Live
    <2>2. /\ row[<<q, 1>>].user = call[q].user /\ row[<<q, 1>>].amount = call[q].amount
          /\ row[<<q, 1>>].type = LegType(q, 1)
          /\ row[<<q, 1>>].transfer = IF call[q].kind = "transfer" THEN q ELSE 0
        BY <2>1, RowFacts DEF Leg, LegUser, Moves
    <2>3. CASE call[q].kind = "transfer"
        <3>1. /\ row[<<q, 2>>].user = call[q].to /\ row[<<q, 2>>].amount = call[q].amount
              /\ row[<<q, 2>>].transfer = q
            BY <2>1, <2>3, RowFacts DEF Leg, LegUser, Moves
        <3>2. IsTransferReversal(c)
            BY <1>5, <2>1, <2>2, <2>3, Ids DEF IsTransferReversal
        <3>3. Originals(r)[1] = <<q, 1>> /\ Originals(r)[2] = <<q, 2>>
            BY <2>1, <2>3 DEF Originals
        <3>4. NewRows(r) = <<Pending(c.user, "CREDIT", call[q].amount, q, <<q, 1>>),
                             Pending(call[q].to, "DEBIT", call[q].amount, q, <<q, 2>>)>>
            BY <1>5, <2>1, <2>2, <2>3, <3>1, <3>2, <3>3 DEF NewRows
        <3> QED BY <1>5, <2>1, <2>3, <3>4, SMTT(30) DEF Pending, LegUser, LegType, Opposite
    <2>4. CASE call[q].kind # "transfer"
        <3>1. ~IsTransferReversal(c)
            BY <2>1, <2>2, <2>4 DEF IsTransferReversal
        <3>2. Originals(r)[1] = <<q, 1>>
            BY <2>1 DEF Originals
        <3>3. NewRows(r) = <<Pending(c.user, Opposite(LegType(q, 1)), call[q].amount, 0, <<q, 1>>)>>
            BY <1>5, <2>1, <2>2, <3>1, <3>2 DEF NewRows
        <3> QED BY <1>5, <2>1, <2>4, <3>3 DEF Pending, LegUser
    <2> QED BY <2>3, <2>4
<1> QED BY <1>1, <1>2, <1>3, <1>4, <1>5 DEF Kinds

LEMMA CreateStep ==
    ASSUME Base, NEW r \in Req, Create(r)
    PROVE  Base'
<1> DEFINE q == Source(r)
           new == NewRows(r)
<1>0. /\ pc \in [Req -> {"idle", "check", "pair", "create", "pending", "committed", "notify", "failing", "done"}]
      /\ row \in [RowId -> RowSet]
    BY DEF Base, Types, TypeOK, RowSet
<1>1. /\ pc[r] = "create" /\ Live(r) /\ UNCHANGED <<balance, ledger, idem, call, pair>>
      /\ \A l \in Leg : row[<<r, l>>] = NoRow
    BY BaseFacts DEF Create, Live
<1>2. PICK made \in SUBSET DOMAIN new, s \in {"pending", "done"} :
        /\ row' = [id \in RowId |-> IF id[1] = r /\ id[2] \in made THEN new[id[2]] ELSE row[id]]
        /\ pc' = [pc EXCEPT ![r] = s] /\ reply' \in [Req -> Req \cup {-1, 0}]
        /\ s = "pending" => made = DOMAIN new
    <2>1. reply \in [Req -> Req \cup {-1, 0}]
        BY DEF Base, Types, TypeOK
    <2>2. CASE Goto(r, "pending")
        <3>1. row' = [id \in RowId |-> IF id[1] = r /\ id[2] \in DOMAIN new THEN new[id[2]] ELSE row[id]] /\ UNCHANGED reply
            BY <1>0, <2>2 DEF Create, Answer, Goto
        <3> QED BY <2>1, <2>2, <3>1 DEF Goto
    <2>3. CASE Answer(r, -1)
        <3>1. PICK made \in SUBSET DOMAIN new :
                 row' = [id \in RowId |-> IF id[1] = r /\ id[2] \in made THEN new[id[2]] ELSE row[id]]
            BY <1>0, <2>3 DEF Create, Answer, Goto
        <3> QED BY <2>1, <2>3, <3>1 DEF Answer, Goto
    <2> QED BY <2>2, <2>3 DEF Create
<1>3. /\ q \in Req /\ call[q].kind \in Moves /\ call[q] \in Calls
      /\ DOMAIN new = IF call[q].kind = "transfer" THEN {1, 2} ELSE {1}
      /\ call[r].kind = "reverse" => q # r /\ pc[q] \in Past /\ row[<<q, 1>>] # NoRow
    <2>1. q \in Req /\ call[q].kind \in Moves /\ DOMAIN new = IF call[q].kind = "transfer" THEN {1, 2} ELSE {1}
        BY <1>1, NewRowFacts
    <2>2. call[q] \in Calls
        BY <2>1 DEF Base, Types, TypeOK, NoCall, Moves
    <2>3. call[r].kind = "reverse" => q # r /\ pc[q] \in Past /\ row[<<q, 1>>] # NoRow
        BY <1>1 DEF Base, ReversalOK, Source
    <2> QED BY <2>1, <2>2, <2>3
<1>4. ASSUME NEW l \in made
      PROVE  /\ l \in Leg /\ new[l] \in RowSet /\ new[l].status = "PENDING" /\ new[l] # NoRow
             /\ new[l].user = LegUser(q, l) /\ new[l].amount = call[q].amount
             /\ new[l].type = IF call[r].kind = "reverse" THEN Opposite(LegType(q, l)) ELSE LegType(q, l)
             /\ new[l].transfer = IF call[q].kind = "transfer" THEN q ELSE 0
             /\ new[l].reverses = IF call[r].kind = "reverse" THEN <<q, l>> ELSE NoId
             /\ l = 2 => call[q].kind = "transfer"
    <2>1. l \in DOMAIN new /\ l \in Leg /\ (l = 2 => call[q].kind = "transfer")
        BY <1>3, <1>4 DEF Leg
    <2>2. new[l] = [user |-> LegUser(q, l),
                    type |-> IF call[r].kind = "reverse" THEN Opposite(LegType(q, l)) ELSE LegType(q, l),
                    status |-> "PENDING", amount |-> call[q].amount,
                    transfer |-> IF call[q].kind = "transfer" THEN q ELSE 0,
                    reverses |-> IF call[r].kind = "reverse" THEN <<q, l>> ELSE NoId]
        BY <1>1, <2>1, NewRowFacts
    <2>3. LegUser(q, l) \in Wallet \cup {0} /\ call[q].amount \in Nat /\ LegType(q, l) \in {"CREDIT", "DEBIT"}
          /\ Opposite(LegType(q, l)) \in {"CREDIT", "DEBIT"} /\ <<q, l>> \in RowId
        BY <1>3, <2>1, CallFacts, Ids DEF LegUser, LegType, Opposite
    <2> QED BY <1>3, <2>1, <2>2, <2>3 DEF RowSet, NoRow
<1>5. /\ \A l \in Leg : row'[<<r, l>>] = IF l \in made THEN new[l] ELSE NoRow
      /\ \A x \in Req \ {r}, l \in Leg : row'[<<x, l>>] = row[<<x, l>>]
      /\ \A x \in Req \ {r} : pc'[x] = pc[x]
      /\ pc'[r] = s
    BY <1>0, <1>1, <1>2, Ids
<1>6. \A x \in Req : Source(x)' = Source(x)
    BY <1>1 DEF Source
<1>7. Types'
    <2>1. row' \in [RowId -> RowSet]
        BY <1>0, <1>2, <1>4
    <2> QED BY <1>0, <1>1, <1>2, <2>1 DEF Base, Types, TypeOK, RowSet
<1>8. NoRow.status = "NONE"
    BY DEF NoRow
<1>9. ASSUME NEW x \in Req PROVE CallOK(x)'
    <2>1. CASE x = r
        <3>1. call[r] # NoCall
            BY <1>1 DEF Base, CallOK
        <3>2. s = "pending" => 1 \in made /\ (call[q].kind = "transfer" => 2 \in made)
            BY <1>2, <1>3
        <3>3. call'[r] = call[r]
            BY <1>1
        <3>4. \A l \in Leg : row'[<<r, l>>].status \in {"NONE", "PENDING"} /\ (l \in made => row'[<<r, l>>] # NoRow)
            BY <1>4, <1>5, <1>8, ZenonT(30)
        <3>5. Source(r)' = q /\ call'[q] = call[q]
            BY <1>1, <1>6
        <3> QED BY <1>5, <2>1, <3>1, <3>2, <3>3, <3>4, <3>5 DEF CallOK, Leg
    <2>2. CASE x # r
        BY <1>1, <1>5, <1>6, <1>9, <2>2 DEF Base, CallOK, Leg
    <2> QED BY <2>1, <2>2
<1>10. ASSUME NEW x \in Req, NEW l \in Leg PROVE RowOK(x, l)'
    <2>1. \A y \in Req : pc[y] \in Past => pc'[y] \in Past
        BY <1>1, <1>5 DEF Past
    <2>2. \A y \in Req, k \in Leg : row[<<y, k>>] # NoRow => row'[<<y, k>>] # NoRow
        BY <1>1, <1>5
    <2>3. CASE x = r
        <3>1. l \in made \/ row'[<<r, l>>] = NoRow
            BY <1>5, <1>10
        <3>2. s \in {"pending"} \cup Past
            BY DEF Past
        <3> SUFFICES ASSUME l \in made PROVE RowOK(r, l)'
            BY <2>3, <3>1 DEF RowOK
        <3>3. row'[<<r, l>>] = new[l] /\ Source(r)' = q /\ call' = call
            BY <1>1, <1>5, <1>6, <1>10
        <3>4. pc'[r] \in {"pending"} \cup Past
            BY <1>5, <3>2
        <3>5. call[r].kind = "reverse" => q # r /\ pc'[q] \in Past /\ row'[<<q, 1>>] # NoRow
            BY <1>3, <2>1, <2>2 DEF Leg
        <3>6. LegUser(q, l)' = LegUser(q, l) /\ LegType(q, l)' = LegType(q, l)
            BY <3>3 DEF LegUser, LegType
        <3> QED BY <1>3, <1>4, <3>3, <3>4, <3>5, <3>6 DEF RowOK
    <2>4. CASE x # r
        <3>1. RowOK(x, l) /\ row'[<<x, l>>] = row[<<x, l>>] /\ pc'[x] = pc[x]
            BY <1>5, <1>10, <2>4 DEF Base
        <3> QED BY <1>1, <1>6, <1>10, <2>1, <2>2, <3>1 DEF RowOK, LegUser, LegType, Leg
    <2> QED BY <2>3, <2>4
<1>11. ASSUME NEW x \in Req PROVE SpentOK(x)'
    <2> SUFFICES ASSUME call[x].kind = "reverse", NEW l \in Leg, row'[<<x, l>>].status = "SUCCESSFUL"
                 PROVE  row'[<<call[x].target[1], 1>>].status # "SUCCESSFUL"
        BY <1>1 DEF SpentOK
    <2>1. x # r
        BY <1>4, <1>5, <1>8
    <2>2. row[<<x, l>>].status = "SUCCESSFUL" /\ SpentOK(x) /\ RowOK(x, l)
        BY <1>5, <1>11, <2>1 DEF Base
    <2>3. Source(x) = call[x].target[1] /\ Source(x) \in Req /\ Source(x) # r
        BY <1>1, <1>8, <2>2 DEF RowOK, Past, Source
    <2> QED BY <1>5, <2>2, <2>3 DEF SpentOK, Leg
<1>12. ASSUME NEW x \in Req PROVE ReversalOK(x)'
    <2> SUFFICES ASSUME call[x].kind = "reverse", Live(x)' PROVE ReversalOK(x)'
        BY <1>1 DEF ReversalOK
    <2>1. Live(x) /\ ReversalOK(x)
        BY <1>1, <1>5, <1>12 DEF Live, Base
    <2>2. \A y \in Req : pc[y] \in Past => pc'[y] = pc[y]
        BY <1>1, <1>5 DEF Past
    <2>3. \A y \in Req, k \in Leg : row[<<y, k>>] # NoRow => row'[<<y, k>>] # NoRow
        BY <1>1, <1>5
    <2>4. \A y \in Req : (\A k \in Leg : row[<<y, k>>].status # "SUCCESSFUL") => \A k \in Leg : row'[<<y, k>>].status # "SUCCESSFUL"
        BY <1>4, <1>5, <1>8, ZenonT(30)
    <2>5. pc'[x] = "pair" => pc[x] = "pair"
        BY <1>2, <1>5, <1>12
    <2>6. pc'[x] \in {"create", "pending"} => pc[x] \in {"create", "pending"}
        BY <1>1, <1>5, <1>12
    <2> QED BY <1>1, <2>1, <2>2, <2>3, <2>4, <2>5, <2>6 DEF ReversalOK, Leg, Past
<1> QED BY <1>7, <1>9, <1>10, <1>11, <1>12 DEF Base

\* A step that changes nothing of the rows but statuses
Restated == \A x \in Req, l \in Leg : /\ row[<<x, l>>] = NoRow <=> row'[<<x, l>>] = NoRow
                                      /\ row'[<<x, l>>].status = "NONE" <=> row[<<x, l>>].status = "NONE"
                                      /\ row'[<<x, l>>].user = row[<<x, l>>].user
                                      /\ row'[<<x, l>>].type = row[<<x, l>>].type
                                      /\ row'[<<x, l>>].amount = row[<<x, l>>].amount
                                      /\ row'[<<x, l>>].transfer = row[<<x, l>>].transfer
                                      /\ row'[<<x, l>>].reverses = row[<<x, l>>].reverses

LEMMA RestatedRows ==
    ASSUME Base, Restated, UNCHANGED call, NEW x \in Req, NEW l \in Leg,
           \A y \in Req : pc[y] \in Past => pc'[y] \in Past,
           \A y \in Req : pc[y] \in {"pending"} \cup Past => pc'[y] \in {"pending"} \cup Past
    PROVE  RowOK(x, l)'
<1>1. RowOK(x, l) /\ Source(x)' = Source(x)
    BY DEF Base, Source
<1>2. \A y \in Req, k \in Leg : LegUser(y, k)' = LegUser(y, k) /\ LegType(y, k)' = LegType(y, k)
    BY DEF LegUser, LegType
<1> SUFFICES ASSUME row'[<<x, l>>] # NoRow PROVE RowOK(x, l)'
    BY DEF RowOK
<1>3. row[<<x, l>>] # NoRow
    BY DEF Restated
<1>4. Source(x) \in Req /\ (call[x].kind = "reverse" => row[<<Source(x), 1>>] # NoRow)
    BY <1>1, <1>3 DEF RowOK
<1>5. call[x].kind = "reverse" => row'[<<Source(x), 1>>] # NoRow
    BY <1>4 DEF Restated, Leg
<1>6. /\ row'[<<x, l>>].user = row[<<x, l>>].user /\ row'[<<x, l>>].type = row[<<x, l>>].type
      /\ row'[<<x, l>>].amount = row[<<x, l>>].amount /\ row'[<<x, l>>].transfer = row[<<x, l>>].transfer
      /\ row'[<<x, l>>].reverses = row[<<x, l>>].reverses
      /\ row'[<<x, l>>].status = "NONE" <=> row[<<x, l>>].status = "NONE"
    BY DEF Restated
<1> QED BY <1>1, <1>2, <1>3, <1>4, <1>5, <1>6 DEF RowOK

\* The originals of a reversal that commits belong to an earlier movement
LEMMA CommitRows ==
    ASSUME Base, NEW r \in Req, Commit(r)
    PROVE  /\ row' \in [RowId -> RowSet] /\ Restated
           /\ \A l \in Leg : row[<<r, l>>] # NoRow => row'[<<r, l>>].status = "SUCCESSFUL"
           /\ \A x \in Req \ {r}, l \in Leg : row'[<<x, l>>].status \in {row[<<x, l>>].status, "REVERSED"}
           /\ \A x \in Req, l \in Leg : row'[<<x, l>>].status # row[<<x, l>>].status => x = r \/ (call[r].kind = "reverse" /\ x = Source(r))
           /\ call[r].kind = "reverse" => row'[<<Source(r), 1>>].status = "REVERSED"
                                          /\ (call[Source(r)].kind = "transfer" => row'[<<Source(r), 2>>].status = "REVERSED")
<1> DEFINE q == Source(r)
           Undone(id) == call[r].kind = "reverse" /\ (id = call[r].target \/ id = pair[r])
<1>1. pc[r] = "pending" /\ row \in [RowId -> RowSet]
    BY DEF Commit, Base, Types, TypeOK, RowSet
<1>2. row' = [id \in RowId |-> CASE id[1] = r /\ row[id] # NoRow -> [row[id] EXCEPT !.status = "SUCCESSFUL"]
                                 [] Undone(id) -> [row[id] EXCEPT !.status = "REVERSED"]
                                 [] OTHER -> row[id]]
    BY DEF Commit, Settled, Originals
<1>3. ASSUME call[r].kind = "reverse"
      PROVE  /\ q \in Req \ {r} /\ call[r].target = <<q, 1>> /\ row[<<q, 1>>] # NoRow
             /\ IF call[q].kind = "transfer" THEN pair[r] = <<q, 2>> /\ row[<<q, 2>>] # NoRow ELSE pair[r] = NoId
    <2>1. ReversalOK(r) /\ Live(r) /\ q = call[r].target[1]
        BY <1>1, <1>3 DEF Base, Live, Source
    <2> QED BY <1>1, <1>3, <2>1 DEF ReversalOK
<1>4. \A id \in RowId : Undone(id) => id[1] = q /\ q # r /\ row[id] # NoRow
    BY <1>3, Ids
<1>5. \A id \in RowId : row'[id] = IF id[1] = r /\ row[id] # NoRow THEN [row[id] EXCEPT !.status = "SUCCESSFUL"]
                                   ELSE IF Undone(id) THEN [row[id] EXCEPT !.status = "REVERSED"] ELSE row[id]
    BY <1>2, <1>4
<1>6. NoRow.status = "NONE"
    BY DEF NoRow
<1>7. \A x \in Req, l \in Leg : row[<<x, l>>] = NoRow <=> row[<<x, l>>].status = "NONE"
    BY BaseFacts
<1>8. row' \in [RowId -> RowSet]
    <2>1. ASSUME NEW id \in RowId PROVE row'[id] \in RowSet
        <3>1. row[id] \in RowSet
            BY <1>1, <2>1
        <3> QED BY <1>5, <2>1, <3>1, StatusSet
    <2> QED BY <1>2, <2>1
<1>9. ASSUME NEW x \in Req, NEW l \in Leg
      PROVE  /\ <<x, l>> \in RowId /\ row[<<x, l>>] \in RowSet
             /\ row'[<<x, l>>] = IF x = r /\ row[<<x, l>>] # NoRow THEN [row[<<x, l>>] EXCEPT !.status = "SUCCESSFUL"]
                                 ELSE IF Undone(<<x, l>>) THEN [row[<<x, l>>] EXCEPT !.status = "REVERSED"] ELSE row[<<x, l>>]
             /\ Undone(<<x, l>>) => x = q /\ q # r /\ row[<<x, l>>] # NoRow
    BY <1>1, <1>4, <1>5, <1>9, Ids
<1>10. Restated
    <2> SUFFICES ASSUME NEW x \in Req, NEW l \in Leg
                 PROVE  /\ row[<<x, l>>] = NoRow <=> row'[<<x, l>>] = NoRow
                        /\ row'[<<x, l>>].status = "NONE" <=> row[<<x, l>>].status = "NONE"
                        /\ row'[<<x, l>>].user = row[<<x, l>>].user
                        /\ row'[<<x, l>>].type = row[<<x, l>>].type
                        /\ row'[<<x, l>>].amount = row[<<x, l>>].amount
                        /\ row'[<<x, l>>].transfer = row[<<x, l>>].transfer
                        /\ row'[<<x, l>>].reverses = row[<<x, l>>].reverses
        BY DEF Restated
    <2>1. CASE row[<<x, l>>] = NoRow
        BY <1>9, <2>1
    <2>2. CASE row[<<x, l>>] # NoRow
        <3>1. row[<<x, l>>].status # "NONE"
            BY <1>7, <2>2
        <3>2. row'[<<x, l>>] \in {row[<<x, l>>], [row[<<x, l>>] EXCEPT !.status = "SUCCESSFUL"],
                                  [row[<<x, l>>] EXCEPT !.status = "REVERSED"]}
            BY <1>9
        <3>3. row'[<<x, l>>].status # "NONE"
            BY <1>9, <3>1, <3>2 DEF RowSet
        <3>4. row'[<<x, l>>] # NoRow
            BY <1>6, <3>3
        <3> QED BY <1>9, <2>2, <3>1, <3>2, <3>3, <3>4 DEF RowSet
    <2> QED BY <2>1, <2>2
<1>11. \A l \in Leg : row[<<r, l>>] # NoRow => row'[<<r, l>>].status = "SUCCESSFUL"
    BY <1>9 DEF RowSet
<1>12. \A x \in Req, l \in Leg :
          /\ x # r => row'[<<x, l>>].status \in {row[<<x, l>>].status, "REVERSED"}
          /\ row'[<<x, l>>].status # row[<<x, l>>].status => x = r \/ (call[r].kind = "reverse" /\ x = q)
    BY <1>9, ZenonT(30) DEF RowSet
<1>13. call[r].kind = "reverse" => row'[<<q, 1>>].status = "REVERSED"
                                   /\ (call[q].kind = "transfer" => row'[<<q, 2>>].status = "REVERSED")
    <2>1. ASSUME call[r].kind = "reverse" PROVE row'[<<q, 1>>].status = "REVERSED"
        BY <1>3, <1>9, <2>1 DEF RowSet, Leg
    <2>2. ASSUME call[r].kind = "reverse", call[q].kind = "transfer" PROVE row'[<<q, 2>>].status = "REVERSED"
        BY <1>3, <1>9, <2>2 DEF RowSet, Leg
    <2> QED BY <2>1, <2>2
<1> QED BY <1>8, <1>10, <1>11, <1>12, <1>13

LEMMA CommitStep ==
    ASSUME Base, NEW r \in Req, Commit(r)
    PROVE  Base'
<1>0. pc \in [Req -> {"idle", "check", "pair", "create", "pending", "committed", "notify", "failing", "done"}]
    BY DEF Base, Types, TypeOK
<1>1. /\ pc[r] = "pending" /\ Live(r) /\ UNCHANGED <<idem, call, pair, reply>>
      /\ pc' = [pc EXCEPT ![r] = "committed"]
    BY DEF Commit, Goto, Live
<1>2. /\ \A x \in Req \ {r} : pc'[x] = pc[x]
      /\ pc'[r] = "committed"
      /\ \A y \in Req : pc[y] \in Past => pc'[y] \in Past
      /\ \A y \in Req : pc[y] \in {"pending"} \cup Past => pc'[y] \in {"pending"} \cup Past
    BY <1>0, <1>1 DEF Past
<1>3. \A x \in Req : Source(x)' = Source(x)
    BY <1>1 DEF Source
<1>4. Types'
    <2>1. balance' \in [Wallet -> Nat]
        BY <1>1, CommitAffordable DEF Commit
    <2>2. ledger' \in [Wallet -> Int]
        <3>1. Entry(r) \in [Wallet -> Int] /\ ledger \in [Wallet -> Int]
            BY <1>1, CommitAffordable DEF Commit, Base, Types, TypeOK
        <3> QED BY <3>1 DEF Commit, Plus
    <2>3. row' \in [RowId -> RowSet]
        BY CommitRows
    <2> QED BY <1>0, <1>1, <2>1, <2>2, <2>3 DEF Base, Types, TypeOK, RowSet
<1>5. Restated
    BY CommitRows
<1>6. ASSUME NEW x \in Req, NEW l \in Leg PROVE RowOK(x, l)'
    BY <1>1, <1>2, <1>5, <1>6, RestatedRows
<1>7. ASSUME NEW x \in Req PROVE CallOK(x)'
    <2>1. CallOK(x)
        BY <1>7 DEF Base
    <2>2. CASE x = r
        BY <1>1, <1>2, <2>1, <2>2 DEF CallOK
    <2>3. CASE x # r
        <3>1. pc[x] = "pending" => \A l \in Leg : row'[<<x, l>>].status = row[<<x, l>>].status
            <4>1. ReversalOK(r)
                BY DEF Base
            <4>2. pc[x] = "pending" => ~(call[r].kind = "reverse" /\ x = Source(r))
                BY <1>1, <4>1 DEF ReversalOK, Source, Past
            <4>3. \A l \in Leg : row'[<<x, l>>].status # row[<<x, l>>].status => call[r].kind = "reverse" /\ x = Source(r)
                <5>1. \A y \in Req, l \in Leg : row'[<<y, l>>].status # row[<<y, l>>].status =>
                          y = r \/ (call[r].kind = "reverse" /\ y = Source(r))
                    BY CommitRows
                <5> QED BY <1>7, <2>3, <5>1
            <4> QED BY <4>2, <4>3
        <3> QED BY <1>1, <1>2, <1>3, <1>5, <1>7, <2>1, <2>3, <3>1 DEF CallOK, Restated, Leg
    <2> QED BY <2>2, <2>3
<1>8. ASSUME NEW x \in Req PROVE SpentOK(x)'
    <2> SUFFICES ASSUME call[x].kind = "reverse", NEW l \in Leg, row'[<<x, l>>].status = "SUCCESSFUL"
                 PROVE  row'[<<call[x].target[1], 1>>].status # "SUCCESSFUL"
        BY <1>1 DEF SpentOK
    <2>1. CASE x = r
        BY <2>1, CommitRows DEF Source
    <2>2. CASE x # r
        <3>1. row[<<x, l>>].status = "SUCCESSFUL"
            BY <1>8, <2>2, CommitRows
        <3>2. SpentOK(x) /\ RowOK(x, l) /\ row[<<x, l>>] # NoRow
            BY <1>8, <3>1 DEF Base, NoRow
        <3>3. call[x].target[1] \in Req \ {r} /\ row[<<call[x].target[1], 1>>].status # "SUCCESSFUL"
            BY <1>1, <3>1, <3>2 DEF SpentOK, RowOK, Source, Past
        <3>4. row'[<<call[x].target[1], 1>>].status \in {row[<<call[x].target[1], 1>>].status, "REVERSED"}
            BY <3>3, CommitRows, ZenonT(30) DEF Leg
        <3> QED BY <3>3, <3>4
    <2> QED BY <2>1, <2>2
<1>9. ASSUME NEW x \in Req PROVE ReversalOK(x)'
    <2> SUFFICES ASSUME call[x].kind = "reverse", Live(x)' PROVE ReversalOK(x)'
        BY <1>1 DEF ReversalOK
    <2>1. Live(x) /\ ReversalOK(x)
        BY <1>1, <1>2, <1>9 DEF Live, Base
    <2>2. \A y \in Req : pc[y] = "done" => pc'[y] = "done" /\ y # r
        BY <1>1, <1>2
    <2>3. \A y \in Req \ {r}, k \in Leg : row'[<<y, k>>].status = "SUCCESSFUL" => row[<<y, k>>].status = "SUCCESSFUL"
        BY CommitRows
    <2>4. pc'[x] \in {"pair", "create", "pending"} => pc'[x] = pc[x]
        BY <1>2, <1>9
    <2>5. \A y \in Req \ {x} : call[y].kind = "reverse" /\ call[y].target[1] = call[x].target[1] =>
              pc'[y] = "done" /\ \A k \in Leg : row'[<<y, k>>].status # "SUCCESSFUL"
        BY <2>1, <2>2, <2>3 DEF ReversalOK
    <2> QED BY <1>1, <1>2, <1>5, <2>1, <2>4, <2>5 DEF ReversalOK, Restated, Leg
<1> QED BY <1>4, <1>6, <1>7, <1>8, <1>9 DEF Base

LEMMA MarkFailedStep ==
    ASSUME Base, NEW r \in Req, NEW l \in Leg, MarkFailed(r, l)
    PROVE  Base'
<1>0. row \in [RowId -> RowSet]
    BY DEF Base, Types, TypeOK, RowSet
<1>1. /\ pc[r] = "failing" /\ row[<<r, l>>] # NoRow
      /\ UNCHANGED <<balance, ledger, idem, pc, call, pair, reply>>
      /\ row' = [row EXCEPT ![<<r, l>>].status = "FAILED"]
    BY DEF MarkFailed, Legs
<1>2. \A x \in Req, k \in Leg :
        /\ row[<<x, k>>] \in RowSet
        /\ row'[<<x, k>>] = IF x = r /\ k = l THEN [row[<<x, k>>] EXCEPT !.status = "FAILED"] ELSE row[<<x, k>>]
    BY <1>0, <1>1, Ids
<1>3. \A x \in Req, k \in Leg : row[<<x, k>>] = NoRow <=> row[<<x, k>>].status = "NONE"
    BY BaseFacts
<1>4. NoRow.status = "NONE"
    BY DEF NoRow
<1>5. Restated /\ row' \in [RowId -> RowSet]
    <2>1. Restated
        <3> SUFFICES ASSUME NEW x \in Req, NEW k \in Leg
                     PROVE  /\ row[<<x, k>>] = NoRow <=> row'[<<x, k>>] = NoRow
                            /\ row'[<<x, k>>].status = "NONE" <=> row[<<x, k>>].status = "NONE"
                            /\ row'[<<x, k>>].user = row[<<x, k>>].user
                            /\ row'[<<x, k>>].type = row[<<x, k>>].type
                            /\ row'[<<x, k>>].amount = row[<<x, k>>].amount
                            /\ row'[<<x, k>>].transfer = row[<<x, k>>].transfer
                            /\ row'[<<x, k>>].reverses = row[<<x, k>>].reverses
            BY DEF Restated
        <3>1. CASE x = r /\ k = l
            <4>1. row[<<x, k>>] # NoRow /\ row[<<x, k>>].status # "NONE"
                BY <1>1, <1>3, <3>1
            <4>2. row'[<<x, k>>] = [row[<<x, k>>] EXCEPT !.status = "FAILED"] /\ row[<<x, k>>] \in RowSet
                BY <1>2, <3>1
            <4>3. row'[<<x, k>>].status = "FAILED"
                BY <4>2 DEF RowSet
            <4> QED BY <1>4, <4>1, <4>2, <4>3 DEF RowSet
        <3>2. CASE ~(x = r /\ k = l)
            BY <1>2, <3>2
        <3> QED BY <3>1, <3>2
    <2> QED BY <1>0, <1>1, <2>1, Ids DEF RowSet
<1>6. \A x \in Req, k \in Leg : row'[<<x, k>>].status = "SUCCESSFUL" => row[<<x, k>>].status = "SUCCESSFUL"
    BY <1>2, ZenonT(30) DEF RowSet
<1>7. Types'
    BY <1>1, <1>5 DEF Base, Types, TypeOK, RowSet
<1>8. \A x \in Req : Source(x)' = Source(x)
    BY <1>1 DEF Source
<1>9. ASSUME NEW x \in Req PROVE CallOK(x)' /\ SpentOK(x)' /\ ReversalOK(x)' /\ \A k \in Leg : RowOK(x, k)'
    <2>1. CallOK(x) /\ SpentOK(x) /\ ReversalOK(x)
        BY <1>9 DEF Base
    <2>2. CallOK(x)'
        <3>1. pc[x] = "pending" => \A k \in Leg : row'[<<x, k>>] = row[<<x, k>>]
            BY <1>1, <1>2, <1>9
        <3> QED BY <1>1, <1>8, <2>1, <3>1 DEF CallOK, Leg
    <2>3. SpentOK(x)'
        <3> SUFFICES ASSUME call[x].kind = "reverse", NEW k \in Leg, row'[<<x, k>>].status = "SUCCESSFUL"
                     PROVE  row'[<<call[x].target[1], 1>>].status # "SUCCESSFUL"
            BY <1>1 DEF SpentOK
        <3>1. row[<<x, k>>].status = "SUCCESSFUL" /\ RowOK(x, k) /\ row[<<x, k>>] # NoRow
            BY <1>4, <1>6, <1>9 DEF Base
        <3>2. call[x].target[1] \in Req
            BY <3>1 DEF RowOK, Source
        <3> QED BY <1>6, <2>1, <3>1, <3>2 DEF SpentOK, Leg
    <2>4. ReversalOK(x)'
        <3> SUFFICES ASSUME call[x].kind = "reverse", Live(x) PROVE ReversalOK(x)'
            BY <1>1 DEF ReversalOK, Live
        <3> QED BY <1>1, <1>5, <1>6, <2>1 DEF ReversalOK, Restated, Leg
    <2>5. \A k \in Leg : RowOK(x, k)'
        BY <1>1, <1>5, <1>9, RestatedRows
    <2> QED BY <2>2, <2>3, <2>4, <2>5
<1> QED BY <1>7, <1>9 DEF Base

LEMMA NextOK == Base /\ [Next]_vars => Base'
<1> SUFFICES ASSUME Base, [Next]_vars PROVE Base'
    OBVIOUS
<1>1. ASSUME NEW r \in Req, Step(r) \/ Crash(r) PROVE Base'
    BY <1>1, QuietStep, FindPairStep, CreateStep, CommitStep, MarkFailedStep DEF Step, Leg
<1>2. ASSUME NEW r \in Req, NEW c \in Calls, Start(r, c) PROVE Base'
    BY <1>2, StartStep
<1>3. CASE UNCHANGED vars
    <2>1. UNCHANGED <<row, balance, ledger, idem, pc, call, pair, reply>>
        BY <1>3 DEF vars, service
    <2>2. Types'
        BY <2>1 DEF Base, Types, TypeOK
    <2>3. ASSUME NEW r \in Req PROVE CallOK(r)' /\ SpentOK(r)' /\ ReversalOK(r)' /\ \A l \in Leg : RowOK(r, l)'
        <3>1. CallOK(r) /\ SpentOK(r) /\ ReversalOK(r) /\ \A l \in Leg : RowOK(r, l)
            BY <2>3 DEF Base
        <3>2. CallOK(r)' /\ SpentOK(r)'
            BY <2>1, <3>1 DEF CallOK, SpentOK, Source
        <3>3. ReversalOK(r)'
            BY <2>1, <3>1 DEF ReversalOK, Live
        <3>4. \A l \in Leg : RowOK(r, l)'
            BY <2>1, <3>1, SMTT(30) DEF RowOK, Source, LegUser, LegType
        <3> QED BY <3>2, <3>3, <3>4
    <2> QED BY <2>2, <2>3 DEF Base
<1> QED BY <1>1, <1>2, <1>3 DEF Next, Serve

THEOREM Invariance == ASSUME Orderly PROVE Spec => []Base
<1>1. Init => Base
    BY InitOK
<1> QED BY <1>1, NextOK, PTL DEF Spec

\* Every reachable state of the services is well typed, and no balance is negative.
THEOREM TypeCorrect == ASSUME Orderly PROVE Spec => []TypeOK
<1>1. Base => TypeOK
    BY DEF Base, Types
<1> QED BY <1>1, Invariance, PTL

\* The journal explains every stored balance in every state (post and postReversal in the services'
\* transactions), whatever fails at whatever await, if clients wait for answers and senders reverse.
THEOREM LedgerMatchesBalanceHolds == ASSUME Orderly PROVE Spec => [](balance = ledger) /\ []LedgerMatchesBalance
<1>1. Init => balance = ledger
    BY DEF Init
<1>2. Base /\ balance = ledger /\ [Next]_vars => (balance = ledger)'
    <2> SUFFICES ASSUME Base, balance = ledger, [Next]_vars PROVE balance' = ledger'
        OBVIOUS
    <2>1. ASSUME NEW r \in Req, Commit(r) PROVE balance' = ledger'
        BY <2>1, CommitMoves DEF Commit
    <2>2. UNCHANGED <<balance, ledger>> \/ \E r \in Req : Commit(r)
        <3>1. ASSUME NEW r \in Req, Step(r) PROVE UNCHANGED <<balance, ledger>> \/ Commit(r)
            BY <3>1 DEF Step, FindReversal, FindPair, Create, Refuse, Finish, RedisFails, Notify, Rethrow, MarkFailed
        <3>2. ASSUME NEW r \in Req, Crash(r) \/ \E c \in Calls : Start(r, c) PROVE UNCHANGED <<balance, ledger>>
            BY <3>2 DEF Crash, Start
        <3> QED BY <3>1, <3>2 DEF Next, Serve, vars, service
    <2> QED BY <2>1, <2>2
<1>3. balance = ledger => LedgerMatchesBalance
    BY DEF LedgerMatchesBalance
<1> QED BY <1>1, <1>2, <1>3, Invariance, PTL DEF Spec

-----------------------------------------------------------------------------
\* What holds if nothing worse than a crash happens

\* A request that has not committed has moved nothing, and what is being reversed is not being given up
TidyOK(r) ==
    /\ pc[r] \in {"pending", "failing"} => \A l \in Leg : row[<<r, l>>].status \in {"NONE", "PENDING", "FAILED"}
    /\ call[r].kind = "reverse" /\ Live(r) => pc[Source(r)] # "failing"
    /\ row[<<r, 2>>] # NoRow =>
           row[<<r, 1>>] # NoRow /\ \A s \in {"SUCCESSFUL", "REVERSED"} : row[<<r, 1>>].status = s <=> row[<<r, 2>>].status = s

Tidy == \A r \in Req : TidyOK(r)

LEMMA TidyNext ==
    ASSUME Faults \subseteq {"crash"}
    PROVE  Base /\ Tidy /\ [Next]_vars => Tidy'
<1> SUFFICES ASSUME Base, Tidy, [Next]_vars PROVE Tidy'
    OBVIOUS
<1>0. /\ pc \in [Req -> {"idle", "check", "pair", "create", "pending", "committed", "notify", "failing", "done"}]
      /\ NoRow.status = "NONE"
    BY DEF Base, Types, TypeOK, NoRow
<1>1. ASSUME NEW r \in Req,
             FindReversal(r) \/ FindPair(r) \/ Refuse(r) \/ Finish(r) \/ Notify(r) \/ Rethrow(r) \/ Crash(r)
      PROVE  Tidy'
    <2>1. UNCHANGED <<row, call>> /\ Live(r)
        BY <1>1 DEF Live, FindReversal, FindPair, Refuse, Finish, Notify, Rethrow, Crash
    <2>2. PICK s : /\ pc' = [pc EXCEPT ![r] = s] /\ s # "pending"
                   /\ s = "failing" => pc[r] = "pending"
                   /\ s # "failing" => s \in {"create", "pair"} \cup Past
        BY <1>1 DEF FindReversal, FindPair, Refuse, Finish, Notify, Rethrow, Crash, Goto, Answer, Past
    <2>3. ASSUME NEW x \in Req PROVE TidyOK(x)'
        <3>1. TidyOK(x) /\ Source(x)' = Source(x)
            BY <2>1, <2>3 DEF Tidy, Source
        <3>2. pc'[x] \in {"pending", "failing"} => pc[x] \in {"pending", "failing"}
            BY <1>0, <2>2, <2>3
        <3>3. Live(x)' => Live(x)
            BY <1>0, <2>1, <2>2, <2>3 DEF Live
        <3>4. ASSUME call[x].kind = "reverse", Live(x) PROVE pc'[Source(x)] # "failing"
            <4>1. Source(x) \in Req /\ pc[Source(x)] \in Past \ {"failing"}
                BY <2>3, <3>1, <3>4 DEF Base, ReversalOK, TidyOK, Source
            <4> QED BY <1>0, <2>2, <4>1 DEF Past
        <3> QED BY <2>1, <3>1, <3>2, <3>3, <3>4 DEF TidyOK
    <2> QED BY <2>3 DEF Tidy
<1>2. ASSUME NEW r \in Req, NEW c \in Calls, Start(r, c) PROVE Tidy'
    <2>1. /\ pc[r] = "idle" /\ row' = row /\ call' = [call EXCEPT ![r] = c] /\ call \in [Req -> Calls \cup {NoCall}]
          /\ \A l \in Leg : row[<<r, l>>] = NoRow
        BY <1>2, BaseFacts DEF Start, Base, Types, TypeOK
    <2>2. PICK s \in {"done", "create", "check"} :
            /\ pc' = [pc EXCEPT ![r] = s]
            /\ s = "create" => c.kind # "reverse"
            /\ s = "check" => row[c.target].status = "SUCCESSFUL"
        BY <1>0, <1>2 DEF Start, Goto, Answer
    <2>3. ASSUME NEW x \in Req PROVE TidyOK(x)'
        <3>1. TidyOK(x)
            BY <2>3 DEF Tidy
        <3>2. CASE x = r
            <4>1. ASSUME c.kind = "reverse", s = "check" PROVE c.target[1] \in Req \ {r} /\ pc[c.target[1]] # "failing"
                <5>1. c.target = <<c.target[1], 1>> /\ c.target[1] \in Req
                    BY <4>1, TargetFacts DEF Base
                <5>2. c.target[1] # r
                    BY <1>0, <2>1, <2>2, <4>1, <5>1 DEF Leg
                <5> QED BY <2>2, <4>1, <5>1, <5>2 DEF Tidy, TidyOK, Leg
            <4>2. call'[r] = c /\ pc'[r] = s
                BY <1>0, <2>1, <2>2
            <4>3. \A y \in Req \ {r} : pc'[y] = pc[y]
                BY <1>0, <2>2
            <4> QED BY <2>1, <2>2, <3>1, <3>2, <4>1, <4>2, <4>3 DEF TidyOK, Live, Source, Leg
        <3>3. CASE x # r
            <4>1. pc'[x] = pc[x] /\ call'[x] = call[x]
                BY <1>0, <2>1, <2>2, <2>3, <3>3
            <4>2. ASSUME call[x].kind = "reverse", Live(x) PROVE Source(x) \in Req \ {r}
                BY <2>1, <2>3, <4>2 DEF Base, ReversalOK, Source, Past
            <4>3. \A y \in Req \ {r} : pc'[y] = pc[y]
                BY <1>0, <2>2
            <4> QED BY <2>1, <3>1, <4>1, <4>2, <4>3 DEF TidyOK, Live, Source
        <3> QED BY <3>2, <3>3
    <2> QED BY <2>3 DEF Tidy
<1>3. ASSUME NEW r \in Req, Create(r) PROVE Tidy'
    <2>1. /\ pc[r] = "create" /\ UNCHANGED call /\ pc' = [pc EXCEPT ![r] = "pending"]
          /\ row' = [id \in RowId |-> IF id[1] = r /\ id[2] \in DOMAIN NewRows(r) THEN NewRows(r)[id[2]] ELSE row[id]]
        BY <1>3 DEF Create, Goto
    <2>2. /\ 1 \in DOMAIN NewRows(r) /\ DOMAIN NewRows(r) \subseteq Leg
          /\ \A l \in DOMAIN NewRows(r) : NewRows(r)[l].status = "PENDING"
        BY <2>1, NewRowFacts DEF Leg
    <2>3. \A l \in Leg : row[<<r, l>>] = NoRow
        BY <2>1, BaseFacts
    <2>4. /\ \A l \in Leg : row'[<<r, l>>].status \in {"NONE", "PENDING"} /\ row'[<<r, 1>>] # NoRow
          /\ \A x \in Req \ {r}, l \in Leg : row'[<<x, l>>] = row[<<x, l>>]
        BY <1>0, <2>1, <2>2, <2>3, Ids DEF Leg
    <2>5. ASSUME NEW x \in Req PROVE TidyOK(x)'
        <3>1. TidyOK(x) /\ Source(x)' = Source(x)
            BY <2>1, <2>5 DEF Tidy, Source
        <3>2. Live(x)' => Live(x)
            BY <1>0, <2>1, <2>5 DEF Live
        <3>3. ASSUME call[x].kind = "reverse", Live(x) PROVE pc'[Source(x)] # "failing"
            <4>1. Source(x) \in Req /\ pc[Source(x)] \in Past \ {"failing"}
                BY <2>5, <3>1, <3>3 DEF Base, ReversalOK, TidyOK, Source
            <4> QED BY <1>0, <2>1, <4>1 DEF Past
        <3>4. CASE x = r
            BY <2>1, <2>4, <3>1, <3>2, <3>3, <3>4 DEF TidyOK, Leg
        <3>5. CASE x # r
            BY <1>0, <2>1, <2>4, <2>5, <3>1, <3>2, <3>3, <3>5 DEF TidyOK, Leg
        <3> QED BY <3>4, <3>5
    <2> QED BY <2>5 DEF Tidy
<1>4. ASSUME NEW r \in Req, Commit(r) PROVE Tidy'
    <2>1. pc[r] = "pending" /\ UNCHANGED call /\ pc' = [pc EXCEPT ![r] = "committed"] /\ Restated
        BY <1>4, CommitRows DEF Commit, Goto
    <2>2. /\ row[<<r, 1>>] # NoRow
          /\ \A l \in Leg : row[<<r, l>>] # NoRow => row'[<<r, l>>].status = "SUCCESSFUL"
          /\ \A y \in Req, l \in Leg : row'[<<y, l>>].status # row[<<y, l>>].status => y = r \/ (call[r].kind = "reverse" /\ y = Source(r))
          /\ call[r].kind = "reverse" => row'[<<Source(r), 1>>].status = "REVERSED"
                                         /\ (call[Source(r)].kind = "transfer" => row'[<<Source(r), 2>>].status = "REVERSED")
        BY <1>4, <2>1, CommitRows DEF Base, CallOK
    <2>3. ASSUME call[r].kind = "reverse"
          PROVE  /\ Source(r) \in Req \ {r} /\ pc[Source(r)] \in Past \ {"failing"}
                 /\ row[<<Source(r), 2>>] # NoRow => call[Source(r)].kind = "transfer"
        <3>1. ReversalOK(r) /\ TidyOK(r) /\ Live(r) /\ Source(r) = call[r].target[1]
            BY <2>1, <2>3 DEF Base, Tidy, Live, Source
        <3>2. Source(r) \in Req \ {r} /\ pc[Source(r)] \in Past \ {"failing"} /\ call[Source(r)].kind \in Moves
            BY <2>3, <3>1 DEF ReversalOK, TidyOK
        <3>3. row[<<Source(r), 2>>] # NoRow => call[Source(r)].kind = "transfer"
            BY <3>2, RowFacts DEF Leg, Moves
        <3> QED BY <3>2, <3>3
    <2>4. ASSUME NEW x \in Req PROVE TidyOK(x)'
        <3>1. TidyOK(x) /\ Source(x)' = Source(x)
            BY <2>1, <2>4 DEF Tidy, Source
        <3>2. Live(x)' => Live(x)
            BY <1>0, <2>1, <2>4 DEF Live
        <3>3. ASSUME call[x].kind = "reverse", Live(x) PROVE pc'[Source(x)] # "failing"
            <4>1. Source(x) \in Req /\ pc[Source(x)] \in Past \ {"failing"}
                BY <2>4, <3>1, <3>3 DEF Base, ReversalOK, TidyOK, Source
            <4> QED BY <1>0, <2>1, <4>1 DEF Past
        <3>4. \A l \in Leg : row'[<<x, l>>] = NoRow <=> row[<<x, l>>] = NoRow
            BY <2>1, <2>4 DEF Restated
        <3>5. CASE x = r
            BY <1>0, <2>1, <2>2, <3>1, <3>2, <3>3, <3>4, <3>5 DEF TidyOK, Leg
        <3>6. CASE x # r /\ call[r].kind = "reverse" /\ x = Source(r)
            <4>1. pc'[x] = pc[x]
                BY <1>0, <2>1, <2>4, <3>6
            <4> QED BY <2>1, <2>2, <2>3, <3>1, <3>2, <3>3, <3>4, <3>6, <4>1 DEF TidyOK, Leg, Past
        <3>7. CASE x # r /\ ~(call[r].kind = "reverse" /\ x = Source(r))
            <4>1. pc'[x] = pc[x]
                BY <1>0, <2>1, <2>4, <3>7
            <4>2. \A l \in Leg : row'[<<x, l>>].status = row[<<x, l>>].status
                BY <2>2, <2>4, <3>7
            <4> QED BY <2>1, <3>1, <3>2, <3>3, <3>4, <4>1, <4>2 DEF TidyOK, Leg
        <3> QED BY <3>5, <3>6, <3>7
    <2> QED BY <2>4 DEF Tidy
<1>5. ASSUME NEW r \in Req, NEW l \in Leg, MarkFailed(r, l) PROVE Tidy'
    <2>1. /\ pc[r] = "failing" /\ UNCHANGED <<pc, call>> /\ row[<<r, l>>] # NoRow
          /\ row' = [row EXCEPT ![<<r, l>>].status = "FAILED"] /\ row \in [RowId -> RowSet]
        BY <1>5 DEF MarkFailed, Legs, Base, Types, TypeOK, RowSet
    <2>2. \A x \in Req, k \in Leg :
            /\ row[<<x, k>>] \in RowSet
            /\ row'[<<x, k>>] = IF x = r /\ k = l THEN [row[<<x, k>>] EXCEPT !.status = "FAILED"] ELSE row[<<x, k>>]
        BY <2>1, Ids
    <2>3. row'[<<r, l>>].status = "FAILED" /\ row'[<<r, l>>] # NoRow
        BY <1>0, <2>2 DEF RowSet
    <2>4. ASSUME NEW x \in Req PROVE TidyOK(x)'
        <3>1. TidyOK(x) /\ Source(x)' = Source(x)
            BY <2>1, <2>4 DEF Tidy, Source
        <3>2. CASE x = r
            BY <2>1, <2>2, <2>3, <3>1, <3>2 DEF TidyOK, Live, Leg
        <3>3. CASE x # r
            BY <2>1, <2>2, <2>4, <3>1, <3>3 DEF TidyOK, Live, Leg
        <3> QED BY <3>2, <3>3
    <2> QED BY <2>4 DEF Tidy
<1>6. CASE UNCHANGED vars
    BY <1>6 DEF vars, service, Tidy, TidyOK, Live, Source
<1>7. \A r \in Req : ~RedisFails(r)
    BY DEF RedisFails
<1> QED BY <1>1, <1>2, <1>3, <1>4, <1>5, <1>6, <1>7 DEF Next, Serve, Step, Leg

\* Both legs of a transfer, and of its reversal, share their fate (transferFunds, reverseTransfer) if
\* nothing worse than a crash happens: the two rows change together wherever money moves.
THEOREM LegsTogetherHolds == ASSUME Orderly, Faults \subseteq {"crash"} PROVE Spec => []LegsTogether
<1>1. Init => Tidy
    <2> SUFFICES ASSUME Init, NEW r \in Req PROVE TidyOK(r)
        BY DEF Tidy
    <2>1. pc[r] = "idle" /\ ~Live(r) /\ row[<<r, 2>>] = NoRow
        BY Ids DEF Init, Live, Leg
    <2> QED BY <2>1 DEF TidyOK
<1>2. Tidy => LegsTogether
    BY DEF Tidy, TidyOK, LegsTogether
<1> QED BY <1>1, <1>2, TidyNext, Invariance, PTL DEF Spec

-----------------------------------------------------------------------------
\* What a user's history adds up to

Counting == {"SUCCESSFUL", "REVERSED"}      \* BALANCE_STATUSES

\* A reversal under way undoes a movement that counts; a row that counts is one of finitely many
History ==
    /\ HistoryMatchesBalance
    /\ IsFiniteSet({id \in RowId : row[id] # NoRow})
    /\ \A r \in Req : call[r].kind = "reverse" /\ Live(r) => row[<<Source(r), 1>>].status \in Counting

\* A row that counts goes on counting, as it is; one that starts to is of the request that commits
LEMMA CountingRows ==
    ASSUME Faults \subseteq {"crash"}, Base, Tidy, History, [Next]_vars, NEW x \in Req, NEW l \in Leg
    PROVE  LET old == row[<<x, l>>]
               new == row'[<<x, l>>]
           IN  /\ old.status \in Counting => new.status \in Counting
               /\ new.status \in Counting => old.status \in Counting \/ Commit(x)
               /\ old # NoRow => new.user = old.user /\ new.type = old.type /\ new.amount = old.amount
               /\ old = NoRow => new.status \notin Counting
               /\ new # NoRow => old # NoRow \/ Create(x)
<1> DEFINE old == row[<<x, l>>]
           new == row'[<<x, l>>]
           Goal == /\ old.status \in Counting => new.status \in Counting
                   /\ new.status \in Counting => old.status \in Counting \/ Commit(x)
                   /\ old # NoRow => new.user = old.user /\ new.type = old.type /\ new.amount = old.amount
                   /\ old = NoRow => new.status \notin Counting
                   /\ new # NoRow => old # NoRow \/ Create(x)
<1>0. NoRow.status = "NONE" /\ "NONE" \notin Counting
    BY DEF NoRow, Counting
<1>1. ASSUME NEW r \in Req, Commit(r) PROVE Goal
    <2>1. Restated
        BY <1>1, CommitRows
    <2>2. old = NoRow <=> new = NoRow
        BY <2>1 DEF Restated
    <2>3. new.user = old.user /\ new.type = old.type /\ new.amount = old.amount
        BY <2>1 DEF Restated
    <2>4. CASE x = r
        <3>1. old # NoRow => new.status = "SUCCESSFUL"
            BY <1>1, <2>4, CommitRows
        <3> QED BY <1>0, <1>1, <2>2, <2>3, <2>4, <3>1 DEF Counting
    <2>5. CASE x # r
        <3>1. new.status \in {old.status, "REVERSED"}
            BY <1>1, <2>5, CommitRows
        <3>2. new.status # old.status => call[r].kind = "reverse" /\ x = Source(r)
            <4>1. \A y \in Req, k \in Leg :
                    row'[<<y, k>>].status # row[<<y, k>>].status => y = r \/ (call[r].kind = "reverse" /\ y = Source(r))
                BY <1>1, CommitRows
            <4> QED BY <2>5, <4>1
        <3>3. call[r].kind = "reverse" => row[<<Source(r), 1>>].status \in Counting
            BY <1>1 DEF Commit, Live, History
        <3>4. TidyOK(x)
            BY DEF Tidy
        <3>5. x = Source(r) /\ call[r].kind = "reverse" /\ old # NoRow => old.status \in Counting
            BY <3>3, <3>4 DEF TidyOK, Counting, Leg
        <3> QED BY <1>0, <2>2, <2>3, <3>1, <3>2, <3>5 DEF Counting
    <2> QED BY <2>4, <2>5
<1>2. ASSUME NEW r \in Req, NEW k \in Leg, MarkFailed(r, k) PROVE Goal
    <2>1. /\ pc[r] = "failing" /\ TidyOK(r) /\ row[<<r, k>>] # NoRow
          /\ row' = [row EXCEPT ![<<r, k>>].status = "FAILED"] /\ row \in [RowId -> RowSet]
        BY <1>2 DEF MarkFailed, Tidy, Base, Types, TypeOK, RowSet, Legs
    <2>2. old \in RowSet /\ (new = old \/ (x = r /\ l = k /\ new = [old EXCEPT !.status = "FAILED"]))
        BY <2>1, Ids
    <2>3. x = r => old.status \notin Counting
        BY <2>1 DEF TidyOK, Counting
    <2> QED BY <1>0, <2>1, <2>2, <2>3 DEF RowSet, Counting
<1>3. ASSUME NEW r \in Req, Create(r) PROVE Goal
    <2>1. pc[r] = "create" /\ \A k \in Leg : row[<<r, k>>] = NoRow
        BY <1>3, BaseFacts DEF Create
    <2>2. PICK made \in SUBSET DOMAIN NewRows(r) :
             row' = [id \in RowId |-> IF id[1] = r /\ id[2] \in made THEN NewRows(r)[id[2]] ELSE row[id]]
        BY <1>3 DEF Create
    <2>3. \A k \in made : NewRows(r)[k].status = "PENDING"
        BY <2>1, <2>2, NewRowFacts
    <2>4. new = old \/ (x = r /\ old = NoRow /\ new.status = "PENDING")
        BY <2>1, <2>2, <2>3, Ids
    <2> QED BY <1>0, <1>3, <2>4 DEF Counting
<1>4. CASE UNCHANGED row
    BY <1>0, <1>4
<1> QED BY <1>1, <1>2, <1>3, <1>4 DEF Next, Serve, Step, Start, Crash, FindReversal, FindPair, Refuse, Finish, RedisFails,
                                      Notify, Rethrow, vars, service, Leg

\* What the entry of a commit makes of a balance, by the rows it settles
Signed(x) == IF x.type = "CREDIT" THEN x.amount ELSE -x.amount

LEMMA EntryValue ==
    ASSUME Base, NEW r \in Req, pc[r] = "pending"
    PROVE  LET d == call[Source(r)]
           IN  /\ d.user \in Wallet /\ d.to # d.user
               /\ row[<<r, 1>>] # NoRow /\ row[<<r, 1>>].user = d.user
               /\ row[<<r, 2>>] # NoRow <=> d.kind = "transfer"
               /\ d.kind = "transfer" => row[<<r, 2>>].user = d.to /\ d.to \in Wallet
               /\ \A l \in Leg : row[<<r, l>>] # NoRow => row[<<r, l>>].amount \in Nat /\ row[<<r, l>>].type \in {"CREDIT", "DEBIT"}
               /\ \A u \in Wallet : Entry(r)[u] = IF u = d.user THEN Signed(row[<<r, 1>>])
                                                  ELSE IF d.kind = "transfer" /\ u = d.to THEN Signed(row[<<r, 2>>])
                                                  ELSE 0
<1> DEFINE q == Source(r)
           d == call[q]
<1>1. CallOK(r) /\ \A l \in Leg : RowOK(r, l)
    BY DEF Base
<1>2. /\ row[<<r, 1>>] # NoRow /\ (d.kind = "transfer" => row[<<r, 2>>] # NoRow)
      /\ row[<<r, 2>>] # NoRow => d.kind = "transfer"
    BY <1>1 DEF CallOK, RowOK, Leg
<1>3. q \in Req /\ d.kind \in Moves /\ call[r].kind \in Moves \cup {"reverse"} /\ (call[r].kind # "reverse" => q = r)
    <2>1. call[r].kind \in Kinds
        BY BaseFacts
    <2> QED BY <1>1, <1>2, <2>1 DEF RowOK, Leg, Source, Kinds, Moves
<1>4. d \in Calls
    BY <1>3 DEF Base, Types, TypeOK, NoCall, Moves
<1>5. d.user \in Wallet /\ d.amount \in Nat /\ d.to \in Wallet \cup {0} /\ d.to # d.user /\ (d.to # 0 <=> d.kind = "transfer")
    BY <1>4, CallFacts
<1>6. \A l \in Leg : row[<<r, l>>] # NoRow =>
          /\ row[<<r, l>>].user = LegUser(q, l) /\ row[<<r, l>>].amount = d.amount
          /\ row[<<r, l>>].type = IF call[r].kind = "reverse" THEN Opposite(LegType(q, l)) ELSE LegType(q, l)
    BY <1>1 DEF RowOK
<1>7. \A l \in Leg : row[<<r, l>>] # NoRow => row[<<r, l>>].type \in {"CREDIT", "DEBIT"}
    BY <1>6 DEF Opposite, LegType
<1>8. Entry(r) = IF call[r].kind = "reverse" THEN Negative(Posted(q)) ELSE Posted(q)
    BY <1>3 DEF Entry, Source
<1>9. ASSUME NEW u \in Wallet
      PROVE  Posted(q)[u] = IF u = d.user THEN (IF d.kind = "credit" THEN d.amount ELSE -d.amount)
                            ELSE IF d.kind = "transfer" /\ u = d.to THEN d.amount ELSE 0
    <2>1. CASE d.kind = "credit"
        BY <1>5, <1>9, <2>1 DEF Posted, Move
    <2>2. CASE d.kind = "debit"
        BY <1>5, <1>9, <2>2 DEF Posted, Move
    <2>3. CASE d.kind = "transfer"
        BY <1>5, <1>9, <2>3 DEF Posted, Move, Plus
    <2> QED BY <1>3, <2>1, <2>2, <2>3 DEF Moves
<1>10. Signed(row[<<r, 1>>]) = LET s == IF d.kind = "credit" THEN d.amount ELSE -d.amount
                               IN  IF call[r].kind = "reverse" THEN -s ELSE s
    BY <1>2, <1>3, <1>5, <1>6 DEF Signed, LegType, Opposite, Leg
<1>11. d.kind = "transfer" => Signed(row[<<r, 2>>]) = IF call[r].kind = "reverse" THEN -d.amount ELSE d.amount
    BY <1>2, <1>5, <1>6 DEF Signed, LegType, Opposite, Leg
<1>12. ASSUME NEW u \in Wallet
       PROVE  Entry(r)[u] = IF u = d.user THEN Signed(row[<<r, 1>>])
                            ELSE IF d.kind = "transfer" /\ u = d.to THEN Signed(row[<<r, 2>>]) ELSE 0
    <2>1. Entry(r)[u] = IF call[r].kind = "reverse" THEN -Posted(q)[u] ELSE Posted(q)[u]
        BY <1>8, <1>12 DEF Negative
    <2> QED BY <1>5, <1>9, <1>10, <1>11, <1>12, <2>1
<1> QED BY <1>2, <1>5, <1>6, <1>7, <1>12 DEF LegUser, Leg

Amounts == [id \in RowId |-> row[id].amount]

LEMMA CountedFacts ==
    ASSUME Base, History, NEW u, NEW t
    PROVE  /\ Counted(u, t) \subseteq {id \in RowId : row[id] # NoRow} /\ IsFiniteSet(Counted(u, t))
           /\ Total(Counted(u, t)) = SumFunctionOnSet(Amounts, Counted(u, t))
           /\ Total(Counted(u, t)) \in Int
<1>1. Counted(u, t) \subseteq {id \in RowId : row[id] # NoRow}
    BY DEF Counted, NoRow
<1>2. IsFiniteSet(Counted(u, t))
    BY <1>1, FS_Subset DEF History
<1>3. \A id \in RowId : Amounts[id] \in Int
    BY DEF Base, Types, TypeOK, Amounts
<1>4. SumFunctionOnSet(Amounts, Counted(u, t)) \in Int
    BY <1>1, <1>2, <1>3, SumInt
<1> QED BY <1>1, <1>2, <1>4 DEF Total, Amounts

\* A step that settles no row leaves a user's totals alone; one that settles row e adds its amount
LEMMA TotalStep ==
    ASSUME Faults \subseteq {"crash"}, Base, Base', Tidy, History, [Next]_vars, NEW u, NEW t,
           NEW N, N \subseteq RowId, Counted(u, t)' = Counted(u, t) \cup N
    PROVE  /\ N = {} => Total(Counted(u, t))' = Total(Counted(u, t))
           /\ \A e \in N : N = {e} /\ row[e] # NoRow /\ e \notin Counted(u, t) =>
                  Total(Counted(u, t))' = Total(Counted(u, t)) + row[e].amount
<1> DEFINE C == Counted(u, t)
<1>1. C \subseteq {id \in RowId : row[id] # NoRow} /\ IsFiniteSet(C) /\ Total(C) = SumFunctionOnSet(Amounts, C)
      /\ Total(C) \in Int
    BY CountedFacts
<1>2. \A id \in RowId : /\ Amounts[id] = row[id].amount /\ Amounts'[id] = row'[id].amount
                        /\ row[id].amount \in Nat /\ row'[id].amount \in Nat
                        /\ row[id] # NoRow => row'[id].amount = row[id].amount
    <2>1. ASSUME NEW id \in RowId PROVE row[id].amount \in Nat /\ row'[id].amount \in Nat
        BY <2>1 DEF Base, Types, TypeOK
    <2>2. ASSUME NEW id \in RowId, row[id] # NoRow PROVE row'[id].amount = row[id].amount
        <3>1. PICK x \in Req, l \in Leg : id = <<x, l>>
            BY <2>2, Ids
        <3> QED BY <2>2, <3>1, CountingRows
    <2> QED BY <2>1, <2>2 DEF Amounts
<1>3. Total(C)' = SumFunctionOnSet(Amounts', C \cup N)
    BY DEF Total, Amounts
<1>4. SumFunctionOnSet(Amounts', C) = SumFunctionOnSet(Amounts, C)
    <2>1. \A id \in C : Amounts'[id] = Amounts[id]
        BY <1>1, <1>2
    <2> HIDE DEF C
    <2> QED BY <1>1, <2>1, SumSame
<1>5. ASSUME NEW e \in N, N = {e}, row[e] # NoRow, e \notin C
      PROVE  Total(C)' = Total(C) + row[e].amount
    <2>1. e \in RowId /\ \A x \in C \cup {e} : Amounts'[x] \in Int
        BY <1>1, <1>2, <1>5
    <2>2. Amounts'[e] = row[e].amount /\ row[e].amount \in Int
        BY <1>2, <1>5, <2>1
    <2> HIDE DEF C
    <2>3. SumFunctionOnSet(Amounts', C \cup {e}) = Amounts'[e] + SumFunctionOnSet(Amounts', C)
        BY <1>1, <1>5, <2>1, SumAdd
    <2> QED BY <1>1, <1>3, <1>4, <1>5, <2>2, <2>3
<1>6. N = {} => Total(C)' = Total(C)
    <2>1. N = {} => C \cup N = C
        OBVIOUS
    <2> HIDE DEF C
    <2> QED BY <1>1, <1>3, <1>4, <2>1
<1> QED BY <1>5, <1>6

LEMMA HistoryCommit ==
    ASSUME Faults \subseteq {"crash"}, Base, Base', Tidy, History, [Next]_vars, NEW r \in Req, Commit(r)
    PROVE  HistoryMatchesBalance'
<1> SUFFICES ASSUME NEW u \in Wallet PROVE ComputedBalance(u)' = balance'[u]
    BY DEF HistoryMatchesBalance
<1> DEFINE d == call[Source(r)]
           New(t) == {id \in RowId : id[1] = r /\ row[id] # NoRow /\ row[id].user = u /\ row[id].type = t}
<1>0. pc[r] = "pending" /\ TidyOK(r)
    BY DEF Commit, Tidy
<1>1. ASSUME NEW t \in {"CREDIT", "DEBIT"}
      PROVE  Counted(u, t)' = Counted(u, t) \cup New(t) /\ Counted(u, t) \cap New(t) = {}
    <2>1. ASSUME NEW x \in Req, NEW l \in Leg
          PROVE  /\ <<x, l>> \in Counted(u, t)' <=> <<x, l>> \in Counted(u, t) \cup New(t)
                 /\ ~(<<x, l>> \in Counted(u, t) /\ <<x, l>> \in New(t))
        <3> DEFINE old == row[<<x, l>>]
                   new == row'[<<x, l>>]
        <3>1. /\ old.status \in Counting => new.status \in Counting
              /\ new.status \in Counting => old.status \in Counting \/ Commit(x)
              /\ old # NoRow => new.user = old.user /\ new.type = old.type
              /\ old = NoRow => new.status \notin Counting
            BY <1>0, <2>1, CountingRows
        <3>2. Commit(x) => x = r
            <4>1. pc'[r] = "committed" /\ (x # r => pc'[x] = pc[x])
                BY DEF Commit, Goto, Base, Types, TypeOK
            <4>2. Commit(x) => pc'[x] = "committed" /\ pc[x] = "pending"
                BY DEF Commit, Goto, Base, Types, TypeOK
            <4> QED BY <4>1, <4>2
        <3>3. x = r /\ old # NoRow => new.status \in Counting /\ old.status \notin Counting
            <4>1. \A k \in Leg : row[<<r, k>>] # NoRow => row'[<<r, k>>].status = "SUCCESSFUL"
                BY CommitRows
            <4> QED BY <1>0, <4>1 DEF TidyOK, Counting
        <3>4. /\ <<x, l>> \in Counted(u, t) <=> old.user = u /\ old.type = t /\ old.status \in Counting
              /\ <<x, l>> \in Counted(u, t)' <=> new.user = u /\ new.type = t /\ new.status \in Counting
              /\ <<x, l>> \in New(t) <=> x = r /\ old # NoRow /\ old.user = u /\ old.type = t
              /\ old.status \in Counting => old # NoRow
            BY Ids DEF Counted, Counting, NoRow
        <3> HIDE DEF old, new, New
        <3> QED BY <3>1, <3>2, <3>3, <3>4
    <2>2. Counted(u, t)' \subseteq RowId /\ Counted(u, t) \subseteq RowId /\ New(t) \subseteq RowId
        BY DEF Counted
    <2> HIDE DEF New
    <2>3. \A id \in RowId : id \in Counted(u, t)' <=> id \in Counted(u, t) \cup New(t)
        BY <2>1, Ids
    <2>4. \A id \in RowId : ~(id \in Counted(u, t) /\ id \in New(t))
        BY <2>1, Ids
    <2> QED BY <2>2, <2>3, <2>4
<1>2. ASSUME NEW t \in {"CREDIT", "DEBIT"}
      PROVE  /\ New(t) = {} => Total(Counted(u, t))' = Total(Counted(u, t))
             /\ \A e \in RowId : New(t) = {e} => Total(Counted(u, t))' = Total(Counted(u, t)) + row[e].amount
    <2>1. New(t) \subseteq RowId /\ \A e \in New(t) : row[e] # NoRow
        OBVIOUS
    <2> HIDE DEF New
    <2>2. \A e \in New(t) : e \notin Counted(u, t)
        BY <1>1, <1>2
    <2>3. Counted(u, t)' = Counted(u, t) \cup New(t)
        BY <1>1, <1>2
    <2> QED BY <1>0, <2>1, <2>2, <2>3, TotalStep
<1>3. /\ d.user \in Wallet /\ d.to # d.user
      /\ row[<<r, 1>>] # NoRow /\ row[<<r, 1>>].user = d.user
      /\ row[<<r, 2>>] # NoRow <=> d.kind = "transfer"
      /\ d.kind = "transfer" => row[<<r, 2>>].user = d.to /\ d.to \in Wallet
      /\ \A l \in Leg : row[<<r, l>>] # NoRow => row[<<r, l>>].amount \in Nat /\ row[<<r, l>>].type \in {"CREDIT", "DEBIT"}
      /\ Entry(r)[u] = IF u = d.user THEN Signed(row[<<r, 1>>])
                       ELSE IF d.kind = "transfer" /\ u = d.to THEN Signed(row[<<r, 2>>]) ELSE 0
    BY <1>0, EntryValue
<1>4. balance'[u] = balance[u] + Entry(r)[u] /\ balance[u] \in Nat
    BY <1>0, CommitMoves DEF Commit, Plus, Base, Types, TypeOK
<1>5. /\ ComputedBalance(u) = balance[u] /\ InitBalance[u] \in Int
      /\ ComputedBalance(u) = InitBalance[u] + Total(Counted(u, "CREDIT")) - Total(Counted(u, "DEBIT"))
      /\ ComputedBalance(u)' = InitBalance[u] + Total(Counted(u, "CREDIT"))' - Total(Counted(u, "DEBIT"))'
      /\ \A t \in {"CREDIT", "DEBIT"} : Total(Counted(u, t)) \in Int
    <2>1. ComputedBalance(u) = balance[u] /\ InitBalance[u] \in Int
        BY ServiceAssumption DEF History, HistoryMatchesBalance
    <2>2. \A t \in {"CREDIT", "DEBIT"} : Total(Counted(u, t)) \in Int
        BY CountedFacts
    <2> QED BY <2>1, <2>2 DEF ComputedBalance
<1>6. ASSUME NEW l \in Leg, row[<<r, l>>] # NoRow, row[<<r, l>>].user = u,
             \A k \in Leg : k # l => row[<<r, k>>] = NoRow \/ row[<<r, k>>].user # u,
             Entry(r)[u] = Signed(row[<<r, l>>])
      PROVE  ComputedBalance(u)' = balance'[u]
    <2>1. \A t \in {"CREDIT", "DEBIT"} : New(t) = IF row[<<r, l>>].type = t THEN {<<r, l>>} ELSE {}
        BY <1>6, Ids
    <2>2. row[<<r, l>>].type \in {"CREDIT", "DEBIT"} /\ row[<<r, l>>].amount \in Nat /\ <<r, l>> \in RowId
        BY <1>3, <1>6, Ids
    <2> HIDE DEF New, d
    <2>3. CASE row[<<r, l>>].type = "CREDIT"
        <3>1. New("CREDIT") = {<<r, l>>} /\ New("DEBIT") = {}
            BY <2>1, <2>3
        <3>2. /\ Total(Counted(u, "CREDIT"))' = Total(Counted(u, "CREDIT")) + row[<<r, l>>].amount
              /\ Total(Counted(u, "DEBIT"))' = Total(Counted(u, "DEBIT"))
            BY <1>2, <2>2, <3>1
        <3> QED BY <1>4, <1>5, <1>6, <2>2, <2>3, <3>2 DEF Signed
    <2>4. CASE row[<<r, l>>].type = "DEBIT"
        <3>1. New("DEBIT") = {<<r, l>>} /\ New("CREDIT") = {}
            BY <2>1, <2>4
        <3>2. /\ Total(Counted(u, "DEBIT"))' = Total(Counted(u, "DEBIT")) + row[<<r, l>>].amount
              /\ Total(Counted(u, "CREDIT"))' = Total(Counted(u, "CREDIT"))
            BY <1>2, <2>2, <3>1
        <3> QED BY <1>4, <1>5, <1>6, <2>2, <2>4, <3>2 DEF Signed
    <2> QED BY <2>2, <2>3, <2>4
<1>7. CASE u = d.user
    BY <1>3, <1>6, <1>7 DEF Leg
<1>8. CASE u # d.user /\ d.kind = "transfer" /\ u = d.to
    BY <1>3, <1>6, <1>8 DEF Leg
<1>9. CASE u # d.user /\ ~(d.kind = "transfer" /\ u = d.to)
    <2>1. \A t \in {"CREDIT", "DEBIT"} : New(t) = {}
        BY <1>3, <1>9, Ids DEF Leg
    <2> HIDE DEF New
    <2> QED BY <1>2, <1>3, <1>4, <1>5, <1>9, <2>1
<1> QED BY <1>7, <1>8, <1>9

LEMMA HistoryNext ==
    ASSUME Faults \subseteq {"crash"}
    PROVE  Base /\ Tidy /\ History /\ [Next]_vars => History'
<1> SUFFICES ASSUME Base, Tidy, History, [Next]_vars PROVE History'
    OBVIOUS
<1>0. Base'
    BY NextOK
<1>1. HistoryMatchesBalance'
    <2>1. ASSUME NEW r \in Req, Commit(r) PROVE HistoryMatchesBalance'
        BY <1>0, <2>1, HistoryCommit
    <2>2. CASE \A r \in Req : ~Commit(r)
        <3> SUFFICES ASSUME NEW u \in Wallet PROVE ComputedBalance(u)' = balance'[u]
            BY DEF HistoryMatchesBalance
        <3>1. balance' = balance
            BY <2>2 DEF Next, Serve, Step, Crash, Start, FindReversal, FindPair, Create, Refuse, Finish, RedisFails, Notify,
                        Rethrow, MarkFailed, vars, service
        <3>2. ASSUME NEW t PROVE Total(Counted(u, t))' = Total(Counted(u, t))
            <4>1. ASSUME NEW x \in Req, NEW l \in Leg PROVE <<x, l>> \in Counted(u, t)' <=> <<x, l>> \in Counted(u, t)
                <5> DEFINE old == row[<<x, l>>]
                           new == row'[<<x, l>>]
                <5>1. /\ old.status \in Counting <=> new.status \in Counting
                      /\ old # NoRow => new.user = old.user /\ new.type = old.type
                      /\ old = NoRow => new.status \notin Counting
                    BY <2>2, <4>1, CountingRows
                <5>2. /\ <<x, l>> \in Counted(u, t) <=> old.user = u /\ old.type = t /\ old.status \in Counting
                      /\ <<x, l>> \in Counted(u, t)' <=> new.user = u /\ new.type = t /\ new.status \in Counting
                    BY Ids DEF Counted, Counting
                <5> HIDE DEF old, new
                <5> QED BY <5>1, <5>2
            <4>2. Counted(u, t)' \subseteq RowId /\ Counted(u, t) \subseteq RowId
                BY DEF Counted
            <4>3. \A id \in RowId : id \in Counted(u, t)' <=> id \in Counted(u, t)
                BY <4>1, Ids
            <4>4. Counted(u, t)' = Counted(u, t) \cup {}
                BY <4>2, <4>3
            <4> QED BY <1>0, <4>4, TotalStep
        <3>3. ComputedBalance(u) = balance[u]
            BY DEF History, HistoryMatchesBalance
        <3> QED BY <3>1, <3>2, <3>3 DEF ComputedBalance
    <2> QED BY <2>1, <2>2
<1>2. IsFiniteSet({id \in RowId : row[id] # NoRow})'
    <2> DEFINE made == {id \in RowId : row[id] # NoRow}
    <2>0. IsFiniteSet(made)
        BY DEF History
    <2>1. ASSUME NEW r \in Req, Create(r) PROVE IsFiniteSet(made')
        <3>1. \A x \in Req, l \in Leg : row'[<<x, l>>] # NoRow => row[<<x, l>>] # NoRow \/ x = r
            <4>1. \A x \in Req, l \in Leg : row'[<<x, l>>] # NoRow => row[<<x, l>>] # NoRow \/ Create(x)
                BY CountingRows
            <4>2. \A x \in Req : Create(x) => x = r
                BY <2>1 DEF Create, Goto, Answer, Base, Types, TypeOK
            <4> QED BY <4>1, <4>2
        <3>2. made' \subseteq (made \cup {<<r, 1>>}) \cup {<<r, 2>>}
            <4> SUFFICES ASSUME NEW id \in RowId, row'[id] # NoRow, row[id] = NoRow PROVE id \in {<<r, 1>>, <<r, 2>>}
                OBVIOUS
            <4>1. PICK x \in Req, l \in Leg : id = <<x, l>>
                BY Ids
            <4> QED BY <3>1, <4>1 DEF Leg
        <3> HIDE DEF made
        <3>3. IsFiniteSet((made \cup {<<r, 1>>}) \cup {<<r, 2>>})
            BY <2>0, FS_AddElement
        <3> QED BY <3>2, <3>3, FS_Subset
    <2>2. ASSUME \A r \in Req : ~Create(r) PROVE IsFiniteSet(made')
        <3>1. made' \subseteq made
            <4> SUFFICES ASSUME NEW id \in RowId, row'[id] # NoRow PROVE row[id] # NoRow
                OBVIOUS
            <4>1. PICK x \in Req, l \in Leg : id = <<x, l>>
                BY Ids
            <4> QED BY <2>2, <4>1, CountingRows
        <3> HIDE DEF made
        <3> QED BY <2>0, <3>1, FS_Subset
    <2>3. IsFiniteSet(made')
        BY <2>1, <2>2
    <2> QED BY <2>3
<1>3. ASSUME NEW r \in Req, call'[r].kind = "reverse", Live(r)'
      PROVE  row'[<<Source(r)', 1>>].status \in Counting
    <2>1. CASE \E c \in Calls : Start(r, c)
        <3>1. PICK c \in Calls : Start(r, c)
            BY <2>1
        <3>2. call'[r] = c /\ row' = row /\ c.kind = "reverse"
            BY <1>3, <3>1 DEF Start, Base, Types, TypeOK
        <3>3. row[c.target].status = "SUCCESSFUL"
            BY <1>3, <3>1, <3>2 DEF Start, Live, Answer, Goto, Base, Types, TypeOK
        <3>4. c.target = <<c.target[1], 1>>
            BY <3>2, TargetFacts DEF Base
        <3> QED BY <3>2, <3>3, <3>4 DEF Source, Counting
    <2>2. CASE ~\E c \in Calls : Start(r, c)
        <3>1. call'[r] = call[r] /\ Live(r)
            <4>1. ASSUME NEW x \in Req, Step(x) \/ Crash(x) PROVE call'[r] = call[r] /\ Live(r)
                <5>1. call' = call /\ Live(x) /\ (r # x => pc'[r] = pc[r])
                    BY <4>1 DEF Step, Crash, FindReversal, FindPair, Create, Commit, Refuse, Finish, RedisFails, Notify,
                                Rethrow, MarkFailed, Goto, Answer, Live, Base, Types, TypeOK
                <5> QED BY <1>3, <5>1 DEF Live
            <4>2. ASSUME NEW x \in Req, NEW c \in Calls, Start(x, c), x # r PROVE call'[r] = call[r] /\ Live(r)
                BY <1>3, <4>2 DEF Start, Goto, Answer, Live, Base, Types, TypeOK
            <4>3. CASE UNCHANGED vars
                BY <1>3, <4>3 DEF vars, service, Live
            <4> QED BY <2>2, <4>1, <4>2, <4>3 DEF Next, Serve
        <3>2. row[<<Source(r), 1>>].status \in Counting /\ Source(r)' = Source(r)
            BY <1>3, <3>1 DEF History, Source
        <3>3. Source(r) \in Req
            BY <1>3, <3>1 DEF Base, ReversalOK, Source
        <3> QED BY <3>2, <3>3, CountingRows DEF Leg
    <2> QED BY <2>1, <2>2
<1> QED BY <1>1, <1>2, <1>3 DEF History

\* A user's balance is what the user's history adds up to (computeBalance), a reversed movement and its
\* reversal included, in every state, if nothing worse than a crash happens.
THEOREM HistoryMatchesBalanceHolds ==
    ASSUME Orderly, Faults \subseteq {"crash"}
    PROVE  Spec => []HistoryMatchesBalance
<1>1. Init => History
    <2> SUFFICES ASSUME Init PROVE History
        OBVIOUS
    <2>1. \A id \in RowId : row[id] = NoRow
        BY DEF Init
    <2>2. {id \in RowId : row[id] # NoRow} = {}
        BY <2>1
    <2>3. ASSUME NEW u, NEW t \in {"CREDIT", "DEBIT"} PROVE Counted(u, t) = {} /\ Total(Counted(u, t)) = 0
        <3>1. Counted(u, t) = {}
            BY <2>1 DEF Counted, NoRow
        <3> QED BY <3>1, SumEmpty DEF Total
    <2>4. ASSUME NEW u \in Wallet PROVE ComputedBalance(u) = balance[u]
        <3>1. InitBalance[u] \in Nat /\ balance[u] = InitBalance[u]
            BY <2>4, ServiceAssumption DEF Init
        <3> QED BY <2>3, <3>1 DEF ComputedBalance
    <2>5. \A r \in Req : call[r] = NoCall /\ NoCall.kind # "reverse"
        BY DEF Init, NoCall
    <2> QED BY <2>2, <2>4, <2>5, FS_EmptySet DEF History, HistoryMatchesBalance
<1>2. Init => Tidy
    <2> SUFFICES ASSUME Init, NEW r \in Req PROVE TidyOK(r)
        BY DEF Tidy
    <2>1. pc[r] = "idle" /\ ~Live(r) /\ row[<<r, 2>>] = NoRow
        BY Ids DEF Init, Live, Leg
    <2> QED BY <2>1 DEF TidyOK
<1>3. History => HistoryMatchesBalance
    BY DEF History
<1> QED BY <1>1, <1>2, <1>3, TidyNext, HistoryNext, Invariance, PTL DEF Spec

-----------------------------------------------------------------------------
\* What holds whatever the clients do, at the same time too, and whatever fails

IsRow(x) ==
    /\ x = [user |-> x.user, type |-> x.type, status |-> x.status, amount |-> x.amount,
            transfer |-> x.transfer, reverses |-> x.reverses]
    /\ x.status = "NONE" => x = NoRow

Shape ==
    /\ pc \in [Req -> {"idle", "check", "pair", "create", "pending"} \cup Past]
    /\ call \in [Req -> Calls \cup {NoCall}] /\ pair \in [Req -> RowId \cup {NoId}]
    /\ moved \subseteq Req
    /\ row = [id \in RowId |-> row[id]] /\ \A id \in RowId : IsRow(row[id])
    /\ \A r \in Req : /\ call[r] = NoCall <=> pc[r] = "idle"
                      /\ call[r].kind = "reverse" => call[r].target \in RowId /\ call[r].target[1] # r
                      /\ pc[r] \in {"check", "pair"} => call[r].kind = "reverse"
                      /\ r \in moved => pc[r] \in Past
                      /\ \A l \in Leg : row[<<r, l>>] # NoRow => pc[r] \in {"pending"} \cup Past

\* A row that counts, or has counted, is of a request that has got past its commit
Committed(id) == pc[id[1]] \in Past

\* What a request looks at, and what its rows undo
Undone(r) == {call[r].target, pair[r]} \ {NoId}
Undoes(r, l) == row[<<r, l>>].reverses

UndoneOK(r) ==
    /\ pc[r] \in {"idle", "check", "pair"} => pair[r] = NoId
    /\ call[r].kind = "reverse" /\ Live(r) => \A id \in Undone(r) : id \in RowId /\ id[1] # r /\ Committed(id)
    /\ \A l \in Leg : Undoes(r, l) # NoId => call[r].kind = "reverse" /\ Undoes(r, l) \in Undone(r)
    /\ \A l \in Leg : Undoes(r, l) # NoId /\ r \in moved =>
           /\ Undoes(r, l) \in RowId /\ Committed(Undoes(r, l))
           /\ row[Undoes(r, l)].status \in {"REVERSED", "FAILED"}

\* A reversal that has yet to commit has been beside each that has undone the same
BesideOK(r) ==
    pc[r] \in {"check", "pair", "create", "pending"} /\ call[r].kind = "reverse" =>
        \A a \in moved : \A l \in Leg : Undoes(a, l) \in Undone(r) => <<a, r>> \in beside

Apart ==
    /\ Shape
    /\ \A id \in RowId : row[id].status = "SUCCESSFUL" => Committed(id)
    /\ \A a, b \in Req : <<a, b>> \in beside => <<b, a>> \in beside
    /\ \A r \in Req : UndoneOK(r) /\ BesideOK(r)
    /\ ReversedApart

LEMMA PendingFacts ==
    ASSUME NEW u, NEW t, NEW a, NEW tr, NEW rev
    PROVE  LET x == Pending(u, t, a, tr, rev) IN IsRow(x) /\ x.status = "PENDING" /\ x.reverses = rev
BY DEF Pending, IsRow

LEMMA Restatus ==
    ASSUME NEW x, IsRow(x), NEW s, s # "NONE", NEW y, y = [x EXCEPT !.status = s]
    PROVE  IsRow(y) /\ y.status = s /\ y.reverses = x.reverses
<1>1. x = [user |-> x.user, type |-> x.type, status |-> x.status, amount |-> x.amount,
           transfer |-> x.transfer, reverses |-> x.reverses]
    BY DEF IsRow
<1>2. y = [user |-> x.user, type |-> x.type, status |-> s, amount |-> x.amount,
           transfer |-> x.transfer, reverses |-> x.reverses]
    BY <1>1
<1> QED BY <1>2 DEF IsRow

\* The rows a request creates undo what it looks at
LEMMA NewUndoes ==
    ASSUME Shape, NEW r \in Req, pc[r] = "create"
    PROVE  /\ DOMAIN NewRows(r) \subseteq Leg
           /\ \A l \in DOMAIN NewRows(r) :
                 /\ IsRow(NewRows(r)[l]) /\ NewRows(r)[l].status = "PENDING"
                 /\ NewRows(r)[l].reverses # NoId =>
                       call[r].kind = "reverse" /\ NewRows(r)[l].reverses \in {call[r].target, pair[r]}
<1> DEFINE c == call[r]
           new == NewRows(r)
           Good(x) == /\ IsRow(x) /\ x.status = "PENDING"
                      /\ x.reverses # NoId => call[r].kind = "reverse" /\ x.reverses \in {call[r].target, pair[r]}
<1>1. c.kind \in Kinds
    BY CallFacts DEF Shape
<1>2. Originals(r)[1] = c.target /\ Originals(r)[2] = pair[r]
    BY DEF Originals
<1>3. CASE c.kind \in {"credit", "debit"}
    <2>1. PICK x : new = <<x>> /\ Good(x)
        BY <1>3, PendingFacts DEF NewRows, IsTransferReversal
    <2> HIDE DEF new, Good
    <2>2. \A l \in DOMAIN new : l = 1 /\ new[l] = x
        BY <2>1
    <2>3. \A l \in DOMAIN new : Good(new[l]) /\ l \in Leg
        BY <2>1, <2>2 DEF Leg
    <2> QED BY <2>3 DEF new, Good
<1>4. CASE c.kind = "transfer"
    <2>1. PICK x, y : new = <<x, y>> /\ Good(x) /\ Good(y)
        BY <1>4, PendingFacts DEF NewRows, IsTransferReversal
    <2> HIDE DEF new, Good
    <2>2. \A l \in DOMAIN new : l \in {1, 2} /\ new[l] \in {x, y}
        BY <2>1
    <2>3. \A l \in DOMAIN new : Good(new[l]) /\ l \in Leg
        BY <2>1, <2>2 DEF Leg
    <2> QED BY <2>3 DEF new, Good
<1>5. CASE c.kind = "reverse" /\ IsTransferReversal(c)
    <2>1. PICK x, y : new = <<x, y>> /\ Good(x) /\ Good(y)
        BY <1>2, <1>5, PendingFacts DEF NewRows
    <2> HIDE DEF new, Good
    <2>2. \A l \in DOMAIN new : l \in {1, 2} /\ new[l] \in {x, y}
        BY <2>1
    <2>3. \A l \in DOMAIN new : Good(new[l]) /\ l \in Leg
        BY <2>1, <2>2 DEF Leg
    <2> QED BY <2>3 DEF new, Good
<1>6. CASE c.kind = "reverse" /\ ~IsTransferReversal(c)
    <2>1. PICK x : new = <<x>> /\ Good(x)
        BY <1>2, <1>6, PendingFacts DEF NewRows
    <2> HIDE DEF new, Good
    <2>2. \A l \in DOMAIN new : l = 1 /\ new[l] = x
        BY <2>1
    <2>3. \A l \in DOMAIN new : Good(new[l]) /\ l \in Leg
        BY <2>1, <2>2 DEF Leg
    <2> QED BY <2>3 DEF new, Good
<1> QED BY <1>1, <1>3, <1>4, <1>5, <1>6 DEF Kinds

\* What Remember gives
LEMMA Remembered ==
    ASSUME Remember, \A a, b \in Req : <<a, b>> \in beside => <<b, a>> \in beside
    PROVE  /\ \A p \in beside : p \in beside'
           /\ \A a, b \in Req : <<a, b>> \in beside' => <<b, a>> \in beside'
           /\ \A a, b \in Req : (a # b /\ Live(a) /\ Live(b) /\ Rivals(a, b))' => <<a, b>> \in beside'
           /\ moved' = moved \cup {r \in Req : pc[r] = "pending" /\ pc'[r] = "committed"}
           /\ kept' = kept \cup {r \in Req : pc[r] = "committed" /\ (pc'[r] = "notify" \/ reply'[r] = r)}
<1> DEFINE Both(p) == p[1] # p[2] /\ Live(p[1]) /\ Live(p[2]) /\ Rivals(p[1], p[2])
<1>1. beside' = beside \cup {p \in Req \X Req : Both(p)'}
    BY DEF Remember
<1>2. \A a, b \in Req : Both(<<a, b>>)' <=> (a # b /\ Live(a) /\ Live(b) /\ Rivals(a, b))'
    OBVIOUS
<1>3. \A a, b \in Req : Both(<<a, b>>)' => Both(<<b, a>>)'
    BY DEF Rivals, OneKey
<1> HIDE DEF Both
<1> QED BY <1>1, <1>2, <1>3 DEF Remember

\* What the steps have in common
LEMMA Onward ==
    ASSUME Apart, Remember, NEW r \in Req, NEW s, pc' = [pc EXCEPT ![r] = s], pc[r] \in Past => s \in Past,
           ~(pc[r] = "pending" /\ s = "committed")
    PROVE  /\ pc'[r] = s /\ \A x \in Req \ {r} : pc'[x] = pc[x]
           /\ \A x \in Req : pc[x] \in Past => pc'[x] \in Past
           /\ \A id \in RowId : id[1] \in Req /\ (Committed(id) => Committed(id)')
           /\ moved' = moved /\ moved \subseteq Req /\ \A x \in moved : pc[x] \in Past
           /\ \A a, b \in Req : <<a, b>> \in beside => <<a, b>> \in beside'
           /\ \A a, b \in Req : <<a, b>> \in beside' => <<b, a>> \in beside'
<1>1. pc'[r] = s /\ \A x \in Req \ {r} : pc'[x] = pc[x]
    BY DEF Apart, Shape
<1>2. \A x \in Req : pc[x] \in Past => pc'[x] \in Past
    BY <1>1
<1>3. \A id \in RowId : id[1] \in Req /\ (Committed(id) => Committed(id)')
    BY <1>2, Ids DEF Committed
<1>4. moved' = moved
    BY <1>1, Remembered DEF Apart
<1>5. moved \subseteq Req /\ \A x \in moved : pc[x] \in Past
    BY DEF Apart, Shape
<1> QED BY <1>1, <1>2, <1>3, <1>4, <1>5, Remembered DEF Apart

LEMMA StillApart ==
    ASSUME ReversedApart, moved' = moved, moved \subseteq Req, \A a \in moved, l \in Leg : Undoes(a, l)' = Undoes(a, l),
           \A a, b \in Req : <<a, b>> \in beside => <<a, b>> \in beside'
    PROVE  ReversedApart'
<1> SUFFICES ASSUME NEW a \in moved', NEW b \in moved', NEW k \in {1, 2}, NEW l \in {1, 2}, a # b,
                    row'[<<a, k>>].reverses = row'[<<b, l>>].reverses, row'[<<a, k>>].reverses # NoId
             PROVE  <<a, b>> \in beside'
    BY DEF ReversedApart
<1>1. a \in moved /\ b \in moved /\ k \in Leg /\ l \in Leg
    BY DEF Leg
<1>2. Undoes(a, k)' = Undoes(b, l)' /\ Undoes(a, k)' # NoId
    BY DEF Undoes
<1>3. Undoes(a, k) = Undoes(b, l) /\ Undoes(a, k) # NoId
    BY <1>1, <1>2
<1>4. <<a, b>> \in beside
    BY <1>1, <1>3 DEF ReversedApart, Undoes
<1> QED BY <1>1, <1>4

LEMMA ApartStart ==
    ASSUME Apart, Remember, NEW r \in Req, NEW c \in Calls, Start(r, c)
    PROVE  Apart'
<1>1. PICK s \in {"done", "create", "check"} :
          /\ pc' = [pc EXCEPT ![r] = s]
          /\ s = "check" => c.kind = "reverse" /\ row[c.target].status = "SUCCESSFUL"
          /\ s = "create" => c.kind # "reverse"
    BY DEF Start, Goto, Answer
<1>2. /\ pc[r] = "idle" /\ call' = [call EXCEPT ![r] = c] /\ UNCHANGED <<row, pair>>
      /\ c.kind = "reverse" => c.target \in RowId /\ c.target[1] # r
      /\ c # NoCall
    BY CallFacts DEF Start, NoCall, Kinds
<1>3. pc[r] \notin Past /\ pc[r] # "pending"
    BY <1>2 DEF Past
<1>10. call'[r] = c /\ \A x \in Req \ {r} : call'[x] = call[x]
    BY <1>2 DEF Apart, Shape
<1>4. /\ pc'[r] = s /\ \A x \in Req \ {r} : pc'[x] = pc[x]
      /\ \A x \in Req : pc[x] \in Past => pc'[x] \in Past
      /\ \A id \in RowId : id[1] \in Req /\ (Committed(id) => Committed(id)')
      /\ moved' = moved /\ moved \subseteq Req /\ \A x \in moved : pc[x] \in Past
      /\ \A a, b \in Req : <<a, b>> \in beside => <<a, b>> \in beside'
      /\ \A a, b \in Req : <<a, b>> \in beside' => <<b, a>> \in beside'
    BY <1>1, <1>3, Onward
<1>5. \A l \in Leg : row[<<r, l>>] = NoRow /\ Undoes(r, l) = NoId
    <2>1. NoRow.reverses = NoId
        BY DEF NoRow, NoId
    <2> QED BY <1>3, <2>1 DEF Apart, Shape, Undoes
<1>6. Shape'
    <2>1. pc' \in [Req -> {"idle", "check", "pair", "create", "pending"} \cup Past] /\ call' \in [Req -> Calls \cup {NoCall}]
        BY <1>1, <1>2 DEF Apart, Shape, Past
    <2>2. ASSUME NEW x \in Req
          PROVE  /\ call'[x] = NoCall <=> pc'[x] = "idle"
                 /\ call'[x].kind = "reverse" => call'[x].target \in RowId /\ call'[x].target[1] # x
                 /\ pc'[x] \in {"check", "pair"} => call'[x].kind = "reverse"
                 /\ x \in moved' => pc'[x] \in Past
                 /\ \A l \in Leg : row'[<<x, l>>] # NoRow => pc'[x] \in {"pending"} \cup Past
        BY <1>1, <1>2, <1>3, <1>4, <1>5, <1>10 DEF Apart, Shape
    <2> QED BY <1>2, <1>4, <2>1, <2>2 DEF Apart, Shape
<1>7. \A id \in RowId : row'[id].status = "SUCCESSFUL" => Committed(id)'
    BY <1>2, <1>4 DEF Apart
<1>8. ASSUME NEW x \in Req PROVE UndoneOK(x)' /\ BesideOK(x)'
    <2>0. \A a \in Req, l \in Leg : Undoes(a, l)' = Undoes(a, l)
        BY <1>2 DEF Undoes
    <2>1. CASE x # r
        <3>1. Undone(x)' = Undone(x) /\ (Live(x)' <=> Live(x))
            BY <1>2, <1>4, <1>10, <2>1 DEF Undone, Live
        <3>2. UndoneOK(x)'
            BY <1>2, <1>4, <1>10, <2>0, <2>1, <3>1 DEF Apart, UndoneOK
        <3>3. BesideOK(x)'
            BY <1>4, <1>10, <2>0, <2>1, <3>1 DEF Apart, BesideOK
        <3> QED BY <3>2, <3>3
    <2>2. CASE x = r
        <3>1. pair[r] = NoId /\ Undone(r)' = {c.target} \ {NoId}
            BY <1>2, <1>4, <1>10 DEF Apart, UndoneOK, Undone
        <3>2. Live(r)' /\ c.kind = "reverse" => s = "check" /\ Committed(c.target) /\ c.target \in RowId
            BY <1>1, <1>2, <1>4, <1>10 DEF Apart, Live
        <3>3. UndoneOK(r)'
            BY <1>2, <1>3, <1>4, <1>5, <1>10, <2>0, <3>1, <3>2 DEF UndoneOK
        <3>4. ASSUME NEW a \in moved, NEW l \in Leg, s = "check" PROVE Undoes(a, l) # c.target
            <4>1. a \in Req /\ c.target # NoId
                BY <1>1, <1>2, <1>4, <3>4, Ids DEF Apart
            <4> QED BY <1>1, <3>4, <4>1 DEF Apart, UndoneOK
        <3>5. BesideOK(r)'
            BY <1>1, <1>4, <1>10, <2>0, <3>1, <3>4 DEF BesideOK
        <3> QED BY <2>2, <3>3, <3>5
    <2> QED BY <2>1, <2>2
<1>9. ReversedApart'
    <2>1. \A a \in moved, l \in Leg : Undoes(a, l)' = Undoes(a, l)
        BY <1>2 DEF Undoes
    <2> QED BY <1>4, <2>1, StillApart DEF Apart
<1> QED BY <1>4, <1>6, <1>7, <1>8, <1>9 DEF Apart

LEMMA ApartQuiet ==
    ASSUME Apart, Remember, NEW r \in Req, NEW s \in Past \cup {"pair", "create"}, Live(r),
           UNCHANGED <<row, call>>, pc' = [pc EXCEPT ![r] = s],
           s \in Past \/ pc[r] \in {"check", "pair"},
           s = "pair" => pair' = pair,
           ~(pc[r] = "pending" /\ s = "committed"),
           NEW id \in RowId \cup {NoId},
           pair' = pair \/ (pc[r] = "pair" /\ id # NoId /\ row[id].status = "SUCCESSFUL" /\ pair' = [pair EXCEPT ![r] = id])
    PROVE  Apart'
<1>1. pc[r] \in Past => s \in Past
    BY DEF Past
<1>2. /\ pc'[r] = s /\ \A x \in Req \ {r} : pc'[x] = pc[x]
      /\ \A x \in Req : pc[x] \in Past => pc'[x] \in Past
      /\ \A i \in RowId : i[1] \in Req /\ (Committed(i) => Committed(i)')
      /\ moved' = moved /\ moved \subseteq Req /\ \A x \in moved : pc[x] \in Past
      /\ \A a, b \in Req : <<a, b>> \in beside => <<a, b>> \in beside'
      /\ \A a, b \in Req : <<a, b>> \in beside' => <<b, a>> \in beside'
    BY <1>1, Onward
<1>3. \A x \in Req \ {r} : pair'[x] = pair[x]
    BY DEF Apart, Shape
<1>4. \A a \in Req, l \in Leg : Undoes(a, l)' = Undoes(a, l)
    BY DEF Undoes
<1>5. Shape'
    <2>1. pc' \in [Req -> {"idle", "check", "pair", "create", "pending"} \cup Past] /\ pair' \in [Req -> RowId \cup {NoId}]
        BY DEF Apart, Shape, Past
    <2>2. ASSUME NEW x \in Req
          PROVE  /\ call[x] = NoCall <=> pc'[x] = "idle"
                 /\ pc'[x] \in {"check", "pair"} => call[x].kind = "reverse"
                 /\ x \in moved => pc'[x] \in Past
                 /\ \A l \in Leg : row[<<x, l>>] # NoRow => pc'[x] \in {"pending"} \cup Past
        <3>1. CASE x = r
            <4>1. call[r] # NoCall /\ s # "idle" /\ (pc[r] \in {"check", "pair"} => call[r].kind = "reverse")
                BY DEF Apart, Shape, Live, Past
            <4>2. s = "pair" => call[r].kind = "reverse"
                BY <4>1 DEF Past
            <4>3. \A l \in Leg : row[<<r, l>>] # NoRow => pc[r] \in {"pending"} \cup Past
                BY DEF Apart, Shape
            <4>4. s # "check" /\ (pc[r] \in {"pending"} \cup Past => s \in Past)
                BY <1>1 DEF Past
            <4> QED BY <1>2, <3>1, <4>1, <4>2, <4>3, <4>4
        <3>2. CASE x # r
            BY <1>2, <3>2 DEF Apart, Shape
        <3> QED BY <3>1, <3>2
    <2> QED BY <1>2, <2>1, <2>2 DEF Apart, Shape
<1>6. \A i \in RowId : row'[i].status = "SUCCESSFUL" => Committed(i)'
    BY <1>2 DEF Apart
<1>7. ASSUME NEW x \in Req PROVE UndoneOK(x)' /\ BesideOK(x)'
    <2>1. CASE x # r \/ pair' = pair
        <3>1. Undone(x)' = Undone(x) /\ (Live(x)' => Live(x))
            BY <1>2, <1>3, <2>1 DEF Undone, Live
        <3>2. pc'[x] \in {"idle", "check", "pair"} => pair'[x] = NoId
            <4>1. CASE x # r
                BY <1>2, <1>3, <4>1 DEF Apart, UndoneOK
            <4>2. CASE x = r /\ pair' = pair
                <5>1. pc[r] \in {"check", "pair"} => pair[r] = NoId
                    BY DEF Apart, UndoneOK
                <5> QED BY <1>2, <4>2, <5>1 DEF Past
            <4> QED BY <2>1, <4>1, <4>2
        <3>3. UndoneOK(x)'
            BY <1>2, <1>4, <3>1, <3>2 DEF Apart, UndoneOK
        <3>4. pc'[x] \in {"check", "pair", "create", "pending"} => pc[x] \in {"check", "pair", "create", "pending"}
            BY <1>2 DEF Past
        <3>5. BesideOK(x)'
            BY <1>2, <1>4, <3>1, <3>4 DEF Apart, BesideOK
        <3> QED BY <3>3, <3>5
    <2>2. CASE x = r /\ pair' # pair
        <3>1. pc[r] = "pair" /\ s # "pair" /\ id \in RowId /\ row[id].status = "SUCCESSFUL" /\ pair'[r] = id
            BY <2>2 DEF Apart, Shape
        <3>2. call[r].kind = "reverse" /\ pair[r] = NoId /\ UndoneOK(r) /\ BesideOK(r)
            BY <3>1 DEF Apart, Shape, UndoneOK
        <3>3. Undone(r)' \subseteq Undone(r) \cup {id}
            BY <3>1, <3>2 DEF Undone
        <3>4. Committed(id) /\ id[1] # r
            <4>1. Committed(id)
                BY <3>1 DEF Apart
            <4> QED BY <3>1, <4>1 DEF Committed, Past
        <3>5. \A l \in Leg : Undoes(r, l) = NoId
            <4>1. NoRow.reverses = NoId
                BY DEF NoRow, NoId
            <4> QED BY <3>1, <4>1 DEF Apart, Shape, Undoes, Past
        <3>6. UndoneOK(r)'
            <4>1. pc'[r] \notin {"idle", "check", "pair"}
                BY <1>2, <3>1 DEF Past
            <4>2. \A i \in Undone(r)' : i \in RowId /\ i[1] # r /\ Committed(i)'
                BY <1>2, <3>1, <3>2, <3>3, <3>4 DEF UndoneOK
            <4> QED BY <1>4, <3>5, <4>1, <4>2 DEF UndoneOK
        <3>7. ASSUME NEW a \in moved, NEW l \in Leg PROVE Undoes(a, l) # id
            <4>1. a \in Req /\ id # NoId
                BY <1>2, <3>1, Ids
            <4> QED BY <3>1, <4>1 DEF Apart, UndoneOK
        <3>8. BesideOK(r)'
            BY <1>2, <1>4, <3>1, <3>2, <3>3, <3>7 DEF BesideOK
        <3> QED BY <2>2, <3>6, <3>8
    <2> QED BY <2>1, <2>2
<1>8. ReversedApart'
    BY <1>2, <1>4, StillApart DEF Apart
<1> QED BY <1>2, <1>5, <1>6, <1>7, <1>8 DEF Apart

LEMMA ApartCreate ==
    ASSUME Apart, Remember, NEW r \in Req, Create(r)
    PROVE  Apart'
<1>0. PICK s \in {"pending", "done"}, made \in SUBSET DOMAIN NewRows(r) :
          /\ pc' = [pc EXCEPT ![r] = s]
          /\ row' = [id \in RowId |-> IF id[1] = r /\ id[2] \in made THEN NewRows(r)[id[2]] ELSE row[id]]
    BY DEF Create, Goto, Answer
<1>1. /\ pc[r] = "create" /\ pc[r] \notin Past /\ pc[r] # "pending" /\ UNCHANGED <<call, pair>>
      /\ \A l \in made : /\ l \in Leg /\ IsRow(NewRows(r)[l]) /\ NewRows(r)[l].status = "PENDING"
                         /\ NewRows(r)[l].reverses # NoId =>
                               call[r].kind = "reverse" /\ NewRows(r)[l].reverses \in {call[r].target, pair[r]}
    BY NewUndoes DEF Create, Past, Apart
<1>2. /\ pc'[r] = s /\ \A x \in Req \ {r} : pc'[x] = pc[x]
      /\ \A x \in Req : pc[x] \in Past => pc'[x] \in Past
      /\ \A i \in RowId : i[1] \in Req /\ (Committed(i) => Committed(i)')
      /\ moved' = moved /\ moved \subseteq Req /\ \A x \in moved : pc[x] \in Past
      /\ \A a, b \in Req : <<a, b>> \in beside => <<a, b>> \in beside'
      /\ \A a, b \in Req : <<a, b>> \in beside' => <<b, a>> \in beside'
    BY <1>0, <1>1, Onward
<1>3. \A id \in RowId : row'[id] = row[id] \/ (id[1] = r /\ id[2] \in made /\ row'[id] = NewRows(r)[id[2]])
    BY <1>0
<1>4. r \notin moved /\ \A id \in RowId : Committed(id) => row'[id] = row[id]
    BY <1>1, <1>2, <1>3 DEF Committed
<1>5. \A x \in Req, l \in Leg : x # r => row'[<<x, l>>] = row[<<x, l>>] /\ Undoes(x, l)' = Undoes(x, l)
    BY <1>3, Ids DEF Undoes
<1>6. \A l \in Leg : /\ row[<<r, l>>] = NoRow
                     /\ Undoes(r, l)' # NoId => call[r].kind = "reverse" /\ Undoes(r, l)' \in {call[r].target, pair[r]}
    <2>1. \A l \in Leg : row[<<r, l>>] = NoRow
        BY <1>1 DEF Apart, Shape
    <2>2. NoRow.reverses = NoId
        BY DEF NoRow, NoId
    <2>3. ASSUME NEW l \in Leg, Undoes(r, l)' # NoId
          PROVE  call[r].kind = "reverse" /\ Undoes(r, l)' \in {call[r].target, pair[r]}
        <3>1. l \in made /\ row'[<<r, l>>] = NewRows(r)[l]
            BY <1>3, <2>1, <2>2, <2>3, Ids DEF Undoes
        <3> QED BY <1>1, <2>3, <3>1 DEF Undoes
    <2> QED BY <2>1, <2>3
<1>7. Shape'
    <2>1. pc' \in [Req -> {"idle", "check", "pair", "create", "pending"} \cup Past] /\ row' = [id \in RowId |-> row'[id]]
        BY <1>0 DEF Apart, Shape, Past
    <2>2. \A id \in RowId : IsRow(row'[id])
        BY <1>1, <1>3 DEF Apart, Shape
    <2>3. ASSUME NEW x \in Req
          PROVE  /\ call[x] = NoCall <=> pc'[x] = "idle"
                 /\ pc'[x] \in {"check", "pair"} => call[x].kind = "reverse"
                 /\ x \in moved => pc'[x] \in Past
                 /\ \A l \in Leg : row'[<<x, l>>] # NoRow => pc'[x] \in {"pending"} \cup Past
        <3>1. CASE x = r
            BY <1>1, <1>2, <1>4, <3>1 DEF Apart, Shape, Past
        <3>2. CASE x # r
            <4>1. /\ call[x] = NoCall <=> pc[x] = "idle"
                  /\ pc[x] \in {"check", "pair"} => call[x].kind = "reverse"
                  /\ x \in moved => pc[x] \in Past
                  /\ \A l \in Leg : row[<<x, l>>] # NoRow => pc[x] \in {"pending"} \cup Past
                BY DEF Apart, Shape
            <4>2. pc'[x] = pc[x] /\ \A l \in Leg : row'[<<x, l>>] = row[<<x, l>>]
                BY <1>2, <1>5, <3>2
            <4> QED BY <4>1, <4>2
        <3> QED BY <3>1, <3>2
    <2> QED BY <1>1, <1>2, <2>1, <2>2, <2>3 DEF Apart, Shape
<1>8. ASSUME NEW id \in RowId, row'[id].status = "SUCCESSFUL" PROVE Committed(id)'
    BY <1>1, <1>2, <1>3, <1>8 DEF Apart
<1>9. ASSUME NEW x \in Req PROVE UndoneOK(x)' /\ BesideOK(x)'
    <2>1. Undone(x)' = Undone(x) /\ (Live(x)' => Live(x))
        BY <1>1, <1>2 DEF Undone, Live
    <2>2. pc'[x] \in {"idle", "check", "pair"} => pair'[x] = NoId
        BY <1>1, <1>2 DEF Apart, UndoneOK
    <2>3. Live(x)' /\ call'[x].kind = "reverse" => \A id \in Undone(x)' : id \in RowId /\ id[1] # x /\ Committed(id)'
        BY <1>1, <1>2, <2>1 DEF Apart, UndoneOK
    <2>4. ASSUME NEW l \in Leg, Undoes(x, l)' # NoId PROVE call'[x].kind = "reverse" /\ Undoes(x, l)' \in Undone(x)'
        <3>1. CASE x = r
            BY <1>1, <1>6, <2>1, <2>4, <3>1 DEF Undone
        <3>2. CASE x # r
            <4>1. Undoes(x, l)' = Undoes(x, l) /\ Undoes(x, l) # NoId
                BY <1>5, <2>4, <3>2
            <4>2. call[x].kind = "reverse" /\ Undoes(x, l) \in Undone(x)
                BY <4>1 DEF Apart, UndoneOK
            <4> QED BY <1>1, <2>1, <4>1, <4>2
        <3> QED BY <3>1, <3>2
    <2>5. ASSUME NEW l \in Leg, Undoes(x, l)' # NoId, x \in moved'
          PROVE  /\ Undoes(x, l)' \in RowId /\ Committed(Undoes(x, l))'
                 /\ row'[Undoes(x, l)'].status \in {"REVERSED", "FAILED"}
        <3>1. Undoes(x, l)' = Undoes(x, l) /\ x \in moved
            BY <1>2, <1>4, <1>5, <2>5
        <3>2. Undoes(x, l) \in RowId /\ Committed(Undoes(x, l)) /\ row[Undoes(x, l)].status \in {"REVERSED", "FAILED"}
            BY <2>5, <3>1 DEF Apart, UndoneOK
        <3>3. \A id \in RowId : Committed(id) => (pc[id[1]] \in Past)' /\ row'[id] = row[id]
            BY <1>2, <1>4 DEF Committed
        <3> QED BY <3>1, <3>2, <3>3 DEF Committed
    <2>6. UndoneOK(x)'
        BY <2>2, <2>3, <2>4, <2>5 DEF UndoneOK
    <2>7. BesideOK(x)'
        <3>1. \A a \in moved, l \in Leg : Undoes(a, l)' = Undoes(a, l)
            BY <1>2, <1>4, <1>5
        <3>2. pc'[x] \in {"check", "pair", "create", "pending"} => pc[x] \in {"check", "pair", "create", "pending"}
            BY <1>1, <1>2
        <3> QED BY <1>1, <1>2, <2>1, <3>1, <3>2 DEF Apart, BesideOK
    <2> QED BY <2>6, <2>7
<1>10. ReversedApart'
    <2>1. \A a \in moved, l \in Leg : Undoes(a, l)' = Undoes(a, l)
        BY <1>2, <1>4, <1>5
    <2> QED BY <1>2, <2>1, StillApart DEF Apart
<1> QED BY <1>2, <1>7, <1>8, <1>9, <1>10 DEF Apart

\* A step that writes statuses only
LEMMA SameUndoes ==
    ASSUME Shape, NEW f, \A id \in RowId : f[id] # "NONE", NEW T \in SUBSET RowId,
           row' = [id \in RowId |-> IF id \in T THEN [row[id] EXCEPT !.status = f[id]] ELSE row[id]]
    PROVE  /\ row' = [id \in RowId |-> row'[id]]
           /\ \A id \in RowId : /\ IsRow(row'[id]) /\ row'[id].reverses = row[id].reverses
                                /\ row'[id].status = IF id \in T THEN f[id] ELSE row[id].status
                                /\ id \notin T => row'[id] = row[id]
           /\ \A a \in Req, l \in Leg : Undoes(a, l)' = Undoes(a, l)
<1>1. ASSUME NEW id \in RowId
      PROVE  /\ IsRow(row'[id]) /\ row'[id].reverses = row[id].reverses
             /\ row'[id].status = IF id \in T THEN f[id] ELSE row[id].status
             /\ id \notin T => row'[id] = row[id]
    <2>1. IsRow(row[id]) /\ f[id] # "NONE"
        BY DEF Shape
    <2>2. CASE id \in T
        <3>1. row'[id] = [row[id] EXCEPT !.status = f[id]]
            BY <2>2
        <3>2. IsRow(row'[id]) /\ row'[id].status = f[id] /\ row'[id].reverses = row[id].reverses
            <4> DEFINE x == row[id]
                       s == f[id]
                       y == row'[id]
            <4>1. IsRow(x) /\ s # "NONE" /\ y = [x EXCEPT !.status = s]
                BY <2>1, <3>1
            <4> HIDE DEF x, s, y
            <4>2. IsRow(y) /\ y.status = s /\ y.reverses = x.reverses
                BY <4>1, Restatus
            <4> QED BY <4>2 DEF x, s, y
        <3> QED BY <2>2, <3>2
    <2>3. CASE id \notin T
        BY <2>1, <2>3
    <2> QED BY <2>2, <2>3
<1>2. \A a \in Req, l \in Leg : Undoes(a, l)' = Undoes(a, l)
    BY <1>1, Ids DEF Undoes
<1> QED BY <1>1, <1>2

LEMMA ApartMark ==
    ASSUME Apart, Remember, NEW r \in Req, NEW k \in Leg, MarkFailed(r, k)
    PROVE  Apart'
<1>1. /\ UNCHANGED <<pc, call, pair>> /\ row[<<r, k>>] # NoRow /\ <<r, k>> \in RowId
      /\ row' = [row EXCEPT ![<<r, k>>].status = "FAILED"]
    BY Ids DEF MarkFailed, Legs
<1>2. /\ moved' = moved /\ moved \subseteq Req
      /\ \A a, b \in Req : <<a, b>> \in beside => <<a, b>> \in beside'
      /\ \A a, b \in Req : <<a, b>> \in beside' => <<b, a>> \in beside'
    BY <1>1, Remembered DEF Apart, Shape
<1>3. row' = [id \in RowId |-> IF id \in {<<r, k>>} THEN [row[id] EXCEPT !.status = [i \in RowId |-> "FAILED"][id]] ELSE row[id]]
    BY <1>1 DEF Apart, Shape
<1>4. /\ row' = [id \in RowId |-> row'[id]]
      /\ \A id \in RowId : /\ IsRow(row'[id])
                           /\ row'[id].status = (IF id = <<r, k>> THEN "FAILED" ELSE row[id].status)
                           /\ row'[id] # NoRow => row[id] # NoRow
      /\ \A a \in Req, l \in Leg : Undoes(a, l)' = Undoes(a, l)
    <2> DEFINE f == [i \in RowId |-> "FAILED"]
    <2>1. (\A id \in RowId : f[id] # "NONE") /\ {<<r, k>>} \in SUBSET RowId
        BY <1>1
    <2> HIDE DEF f
    <2>2. row' = [id \in RowId |-> IF id \in {<<r, k>>} THEN [row[id] EXCEPT !.status = f[id]] ELSE row[id]]
        BY <1>3 DEF f
    <2>3. /\ row' = [id \in RowId |-> row'[id]]
          /\ \A id \in RowId : /\ IsRow(row'[id])
                               /\ row'[id].status = IF id \in {<<r, k>>} THEN f[id] ELSE row[id].status
                               /\ id \notin {<<r, k>>} => row'[id] = row[id]
          /\ \A a \in Req, l \in Leg : Undoes(a, l)' = Undoes(a, l)
        BY <2>1, <2>2, SameUndoes DEF Apart
    <2> QED BY <1>1, <2>3 DEF f
<1>5. Shape'
    <2>1. ASSUME NEW x \in Req, NEW l \in Leg, row'[<<x, l>>] # NoRow PROVE pc[x] \in {"pending"} \cup Past
        <3>1. <<x, l>> \in RowId
            BY Ids
        <3>2. row[<<x, l>>] # NoRow
            BY <1>4, <2>1, <3>1
        <3> QED BY <3>2 DEF Apart, Shape
    <2> QED BY <1>1, <1>2, <1>4, <2>1 DEF Apart, Shape
<1>6. ASSUME NEW id \in RowId PROVE /\ row'[id].status = "SUCCESSFUL" => Committed(id)'
                                    /\ Committed(id)' <=> Committed(id)
    BY <1>1, <1>4 DEF Apart, Committed
<1>7. ASSUME NEW x \in Req PROVE UndoneOK(x)' /\ BesideOK(x)'
    <2>1. Undone(x)' = Undone(x) /\ (Live(x)' <=> Live(x))
        BY <1>1 DEF Undone, Live
    <2>2. ASSUME NEW l \in Leg, Undoes(x, l) # NoId, x \in moved
          PROVE  Undoes(x, l) \in RowId /\ Committed(Undoes(x, l))' /\ row'[Undoes(x, l)].status \in {"REVERSED", "FAILED"}
        <3>1. Undoes(x, l) \in RowId /\ Committed(Undoes(x, l)) /\ row[Undoes(x, l)].status \in {"REVERSED", "FAILED"}
            BY <2>2 DEF Apart, UndoneOK
        <3>2. \A id \in RowId : (Committed(id) => pc'[id[1]] \in Past)
                                /\ (row[id].status \in {"REVERSED", "FAILED"} => row'[id].status \in {"REVERSED", "FAILED"})
            BY <1>1, <1>4 DEF Committed
        <3> QED BY <1>4, <3>1, <3>2 DEF Committed
    <2>3. UndoneOK(x)'
        <3>1. pc'[x] \in {"idle", "check", "pair"} => pair'[x] = NoId
            BY <1>1 DEF Apart, UndoneOK
        <3>2. call'[x].kind = "reverse" /\ Live(x)' => \A id \in Undone(x)' : id \in RowId /\ id[1] # x /\ Committed(id)'
            BY <1>1, <1>6, <2>1 DEF Apart, UndoneOK
        <3>3. \A l \in Leg : Undoes(x, l)' # NoId => call'[x].kind = "reverse" /\ Undoes(x, l)' \in Undone(x)'
            BY <1>1, <1>4, <2>1 DEF Apart, UndoneOK
        <3>4. ASSUME NEW l \in Leg, Undoes(x, l)' # NoId, x \in moved'
              PROVE  /\ Undoes(x, l)' \in RowId /\ Committed(Undoes(x, l))'
                     /\ row'[Undoes(x, l)'].status \in {"REVERSED", "FAILED"}
            <4>1. Undoes(x, l)' = Undoes(x, l) /\ x \in moved
                BY <1>2, <1>4, <3>4
            <4> QED BY <2>2, <3>4, <4>1
        <3> QED BY <3>1, <3>2, <3>3, <3>4 DEF UndoneOK
    <2>4. BesideOK(x)'
        BY <1>1, <1>2, <1>4, <2>1 DEF Apart, BesideOK
    <2> QED BY <2>3, <2>4
<1>8. ReversedApart'
    BY <1>2, <1>4, StillApart DEF Apart
<1> QED BY <1>2, <1>5, <1>6, <1>7, <1>8 DEF Apart

LEMMA ApartCommit ==
    ASSUME Apart, Remember, NEW r \in Req, Commit(r)
    PROVE  Apart'
<1> DEFINE Own == {id \in RowId : id[1] = r /\ row[id] # NoRow}
           Old == {id \in RowId : id \notin Own /\ call[r].kind = "reverse" /\ (id = call[r].target \/ id = pair[r])}
           f == [id \in RowId |-> IF id \in Own THEN "SUCCESSFUL" ELSE "REVERSED"]
<1>1. /\ pc[r] = "pending" /\ pc[r] \notin Past /\ UNCHANGED <<call, pair>> /\ pc' = [pc EXCEPT ![r] = "committed"]
      /\ Live(r)
    BY DEF Commit, Goto, Past, Live
<1>2. row' = [id \in RowId |-> IF id \in Own \cup Old THEN [row[id] EXCEPT !.status = f[id]] ELSE row[id]]
    <2>1. Originals(r)[1] = call[r].target /\ Originals(r)[2] = pair[r]
        BY DEF Originals
    <2>2. row' = Settled(r)
        BY DEF Commit
    <2>3. ASSUME NEW id \in RowId
          PROVE  Settled(r)[id] = IF id \in Own \cup Old THEN [row[id] EXCEPT !.status = f[id]] ELSE row[id]
        <3>1. CASE id \in Own
            <4>1. f[id] = "SUCCESSFUL"
                BY <3>1
            <4>2. ~(call[r].kind = "reverse" /\ id \in {call[r].target, pair[r]})
                <5>1. id # NoId
                    BY Ids
                <5> QED BY <1>1, <3>1, <5>1 DEF Apart, UndoneOK, Undone
            <4>3. Settled(r)[id] = [row[id] EXCEPT !.status = "SUCCESSFUL"]
                BY <2>1, <3>1, <4>2 DEF Settled
            <4> QED BY <3>1, <4>1, <4>3
        <3>2. CASE id \in Old
            <4>1. f[id] = "REVERSED" /\ ~(id[1] = r /\ row[id] # NoRow)
                BY <3>2
            <4>2. Settled(r)[id] = [row[id] EXCEPT !.status = "REVERSED"]
                BY <2>1, <3>2, <4>1 DEF Settled
            <4> QED BY <3>2, <4>1, <4>2
        <3>3. CASE id \notin Own \cup Old
            BY <2>1, <3>3 DEF Settled
        <3> QED BY <3>1, <3>2, <3>3
    <2>4. Settled(r) = [id \in RowId |-> Settled(r)[id]]
        BY DEF Settled
    <2> QED BY <2>2, <2>3, <2>4
<1>3. /\ row' = [id \in RowId |-> row'[id]]
      /\ \A id \in RowId : /\ IsRow(row'[id])
                           /\ row'[id].status = IF id \in Own THEN "SUCCESSFUL" ELSE IF id \in Old THEN "REVERSED" ELSE row[id].status
                           /\ id \notin Own \cup Old => row'[id] = row[id]
      /\ \A a \in Req, l \in Leg : Undoes(a, l)' = Undoes(a, l)
    <2>1. \A id \in RowId : f[id] # "NONE" /\ f[id] = IF id \in Own THEN "SUCCESSFUL" ELSE "REVERSED"
        OBVIOUS
    <2>2. Own \cup Old \in SUBSET RowId
        OBVIOUS
    <2> HIDE DEF f, Own, Old
    <2>3. /\ row' = [id \in RowId |-> row'[id]]
          /\ \A id \in RowId : /\ IsRow(row'[id])
                               /\ row'[id].status = IF id \in Own \cup Old THEN f[id] ELSE row[id].status
                               /\ id \notin Own \cup Old => row'[id] = row[id]
          /\ \A a \in Req, l \in Leg : Undoes(a, l)' = Undoes(a, l)
        BY <1>2, <2>1, <2>2, SameUndoes DEF Apart
    <2> QED BY <2>1, <2>3
<1>4. /\ pc'[r] = "committed" /\ \A x \in Req \ {r} : pc'[x] = pc[x]
      /\ Live(r)' /\ \A x \in Req : pc[x] \in Past => pc'[x] \in Past
    BY <1>1 DEF Apart, Shape, Live, Past
<1>5. /\ \A id \in RowId : id[1] \in Req /\ (Committed(id) => Committed(id)' /\ id[1] # r)
      /\ moved' = moved \cup {r} /\ moved \subseteq Req /\ r \notin moved /\ \A x \in moved : pc[x] \in Past
      /\ \A a, b \in Req : <<a, b>> \in beside => <<a, b>> \in beside'
      /\ \A a, b \in Req : <<a, b>> \in beside' => <<b, a>> \in beside'
      /\ \A x \in Req : x # r /\ Live(x)' /\ call[x].kind = "reverse" /\ call[r].kind = "reverse" => <<r, x>> \in beside'
    <2>1. \A id \in RowId : id[1] \in Req /\ (Committed(id) => Committed(id)' /\ id[1] # r)
        BY <1>1, <1>4, Ids DEF Committed
    <2>2. moved' = moved \cup {r} /\ moved \subseteq Req /\ r \notin moved /\ \A x \in moved : pc[x] \in Past
        <3>1. moved' = moved \cup {x \in Req : pc[x] = "pending" /\ pc'[x] = "committed"}
            BY Remembered DEF Apart
        <3>2. {x \in Req : pc[x] = "pending" /\ pc'[x] = "committed"} = {r}
            BY <1>1, <1>4
        <3> QED BY <1>1, <3>1, <3>2 DEF Apart, Shape
    <2>3. \A x \in Req : x # r /\ Live(x)' /\ call[x].kind = "reverse" /\ call[r].kind = "reverse" => <<r, x>> \in beside'
        BY <1>1, <1>4, Remembered DEF Apart, Rivals
    <2> QED BY <2>1, <2>2, <2>3, Remembered DEF Apart
<1>6. \A id \in Old : Committed(id) /\ id[1] # r
    <2>1. UndoneOK(r)
        BY DEF Apart
    <2>2. \A id \in Old : id \in Undone(r) /\ call[r].kind = "reverse"
        BY Ids DEF Undone
    <2> QED BY <1>1, <2>1, <2>2 DEF UndoneOK
<1>7. Shape'
    <2>1. pc' \in [Req -> {"idle", "check", "pair", "create", "pending"} \cup Past] /\ moved' \subseteq Req
        BY <1>1, <1>5 DEF Apart, Shape, Past
    <2>2. ASSUME NEW x \in Req
          PROVE  /\ call[x] = NoCall <=> pc'[x] = "idle"
                 /\ pc'[x] \in {"check", "pair"} => call[x].kind = "reverse"
                 /\ x \in moved' => pc'[x] \in Past
        BY <1>1, <1>4, <1>5 DEF Apart, Shape, Past
    <2>3. ASSUME NEW x \in Req, NEW l \in Leg, row'[<<x, l>>] # NoRow PROVE pc'[x] \in {"pending"} \cup Past
        <3>1. CASE <<x, l>> \in Own
            BY <1>4, <3>1 DEF Past
        <3>2. CASE <<x, l>> \in Old
            BY <1>4, <1>6, <3>2 DEF Committed
        <3>3. CASE <<x, l>> \notin Own \cup Old
            <4>1. row[<<x, l>>] # NoRow
                BY <1>3, <2>3, <3>3, Ids
            <4>2. pc[x] \in {"pending"} \cup Past
                BY <4>1 DEF Apart, Shape
            <4> QED BY <1>4, <4>2 DEF Past
        <3> QED BY <3>1, <3>2, <3>3
    <2> QED BY <1>1, <1>3, <2>1, <2>2, <2>3 DEF Apart, Shape
<1>8. ASSUME NEW id \in RowId, row'[id].status = "SUCCESSFUL" PROVE Committed(id)'
    <2>1. CASE id \in Own
        BY <1>4, <2>1 DEF Committed, Past
    <2>2. CASE id \notin Own
        <3>1. row[id].status = "SUCCESSFUL"
            BY <1>3, <1>8, <2>2
        <3> QED BY <1>5, <3>1 DEF Apart
    <2> QED BY <2>1, <2>2
<1>9. ASSUME NEW x \in Req PROVE UndoneOK(x)'
    <2>1. Undone(x)' = Undone(x) /\ (Live(x)' => Live(x)) /\ UndoneOK(x)
        BY <1>1, <1>4 DEF Undone, Live, Apart
    <2>2. pc'[x] \in {"idle", "check", "pair"} => pair'[x] = NoId
        BY <1>1, <1>4, <2>1 DEF UndoneOK
    <2>3. call'[x].kind = "reverse" /\ Live(x)' => \A id \in Undone(x)' : id \in RowId /\ id[1] # x /\ Committed(id)'
        BY <1>1, <1>5, <2>1 DEF UndoneOK
    <2>4. \A l \in Leg : Undoes(x, l)' # NoId => call'[x].kind = "reverse" /\ Undoes(x, l)' \in Undone(x)'
        BY <1>1, <1>3, <2>1 DEF UndoneOK
    <2>5. ASSUME NEW l \in Leg, Undoes(x, l)' # NoId, x \in moved'
          PROVE  /\ Undoes(x, l)' \in RowId /\ Committed(Undoes(x, l))'
                 /\ row'[Undoes(x, l)'].status \in {"REVERSED", "FAILED"}
        <3> DEFINE id == Undoes(x, l)
        <3>1. Undoes(x, l)' = id /\ id # NoId
            BY <1>3, <2>5
        <3>2. CASE x = r
            <4>1. call[r].kind = "reverse" /\ id \in Undone(r)
                BY <2>1, <3>1, <3>2 DEF UndoneOK
            <4>2. id \in RowId /\ id[1] # r /\ Committed(id)
                BY <1>1, <2>1, <3>2, <4>1 DEF UndoneOK
            <4>3. id \notin Own /\ id \in Old
                BY <4>1, <4>2 DEF Undone
            <4> QED BY <1>3, <1>5, <3>1, <4>2, <4>3 DEF Committed
        <3>3. CASE x # r
            <4>1. id \in RowId /\ Committed(id) /\ row[id].status \in {"REVERSED", "FAILED"}
                BY <1>5, <2>1, <2>5, <3>1, <3>3 DEF UndoneOK
            <4>2. id \notin Own
                BY <1>5, <4>1
            <4> QED BY <1>3, <1>5, <3>1, <4>1, <4>2 DEF Committed
        <3> QED BY <3>2, <3>3
    <2> QED BY <2>2, <2>3, <2>4, <2>5 DEF UndoneOK
<1>10. ASSUME NEW x \in Req PROVE BesideOK(x)'
    <2> SUFFICES ASSUME pc'[x] \in {"check", "pair", "create", "pending"}, call'[x].kind = "reverse",
                        NEW a \in moved', NEW l \in Leg, Undoes(a, l)' \in Undone(x)'
                 PROVE  <<a, x>> \in beside'
        BY DEF BesideOK
    <2>1. x # r /\ pc[x] = pc'[x] /\ call[x].kind = "reverse" /\ Live(x)' /\ Undone(x)' = Undone(x)
        BY <1>1, <1>4 DEF Live, Undone
    <2>2. a \in Req /\ Undoes(a, l) \in Undone(x) /\ Undoes(a, l) # NoId
        <3>1. a \in Req
            BY <1>5
        <3>2. Undoes(a, l) \in Undone(x)
            BY <1>3, <2>1, <3>1
        <3> QED BY <3>1, <3>2 DEF Undone
    <2>3. CASE a = r
        <3>1. call[r].kind = "reverse"
            BY <2>2, <2>3 DEF Apart, UndoneOK
        <3> QED BY <1>5, <2>1, <2>3, <3>1
    <2>4. CASE a # r
        BY <1>5, <2>1, <2>2, <2>4 DEF Apart, BesideOK
    <2> QED BY <2>3, <2>4
<1>11. ReversedApart'
    <2> SUFFICES ASSUME NEW a \in moved', NEW b \in moved', NEW k \in {1, 2}, NEW l \in {1, 2}, a # b,
                        row'[<<a, k>>].reverses = row'[<<b, l>>].reverses, row'[<<a, k>>].reverses # NoId
                 PROVE  <<a, b>> \in beside'
        BY DEF ReversedApart
    <2>1. a \in Req /\ b \in Req /\ k \in Leg /\ l \in Leg
        BY <1>5 DEF Leg
    <2>2. Undoes(a, k) = Undoes(b, l) /\ Undoes(a, k) # NoId
        <3>1. Undoes(a, k)' = Undoes(b, l)' /\ Undoes(a, k)' # NoId
            BY DEF Undoes
        <3> QED BY <1>3, <2>1, <3>1
    <2>3. ASSUME NEW x \in moved, NEW m \in Leg, NEW n \in Leg, Undoes(x, m) = Undoes(r, n), Undoes(x, m) # NoId
          PROVE  <<x, r>> \in beside'
        <3>1. call[r].kind = "reverse" /\ Undoes(x, m) \in Undone(r)
            BY <2>3 DEF Apart, UndoneOK
        <3>2. <<x, r>> \in beside
            BY <1>1, <2>3, <3>1 DEF Apart, BesideOK
        <3> QED BY <1>5, <3>2
    <2>4. CASE a \in moved /\ b \in moved
        <3>1. <<a, b>> \in beside
            BY <2>1, <2>2, <2>4 DEF Apart, ReversedApart, Undoes
        <3> QED BY <1>5, <2>1, <3>1
    <2>5. CASE b = r
        BY <1>5, <2>1, <2>2, <2>3, <2>5
    <2>6. CASE a = r
        BY <1>5, <2>1, <2>2, <2>3, <2>6
    <2> QED BY <1>5, <2>4, <2>5, <2>6
<1> QED BY <1>5, <1>7, <1>8, <1>9, <1>10, <1>11 DEF Apart

LEMMA ApartNext == Apart /\ [Next]_vars => Apart'
<1> SUFFICES ASSUME Apart, [Next]_vars PROVE Apart'
    OBVIOUS
<1>1. CASE UNCHANGED vars
    <2>1. UNCHANGED <<row, pc, call, pair, beside, moved>>
        BY <1>1 DEF vars, service
    <2>2. Shape'
        BY <2>1 DEF Apart, Shape
    <2>3. \A id \in RowId : (row[id].status = "SUCCESSFUL")' => Committed(id)'
        BY <2>1 DEF Apart, Committed
    <2>4. ASSUME NEW r \in Req PROVE UndoneOK(r)' /\ BesideOK(r)'
        <3>1. UndoneOK(r) /\ BesideOK(r)
            BY DEF Apart
        <3>2. UndoneOK(r)'
            BY <2>1, <3>1 DEF UndoneOK, Undone, Undoes, Live, Committed
        <3>3. BesideOK(r)'
            BY <2>1, <3>1 DEF BesideOK, Undone, Undoes
        <3> QED BY <3>2, <3>3
    <2>5. ReversedApart'
        BY <2>1 DEF Apart, ReversedApart
    <2>6. \A a, b \in Req : <<a, b>> \in beside' => <<b, a>> \in beside'
        BY <2>1 DEF Apart
    <2> QED BY <2>2, <2>3, <2>4, <2>5, <2>6 DEF Apart
<1>2. CASE Next
    <2>1. Remember
        BY <1>2 DEF Next
    <2>2. ASSUME NEW r \in Req, NEW c \in Calls, Start(r, c) PROVE Apart'
        BY <2>1, <2>2, ApartStart
    <2>3. ASSUME NEW r \in Req, NEW s \in Past \cup {"pair", "create"}, Live(r), UNCHANGED <<row, call, pair>>,
                 pc' = [pc EXCEPT ![r] = s], s \in Past \/ pc[r] \in {"check", "pair"},
                 ~(pc[r] = "pending" /\ s = "committed")
          PROVE  Apart'
        <3> DEFINE id == NoId
        <3>1. id \in RowId \cup {NoId} /\ UNCHANGED <<row, call>> /\ pair' = pair
            BY <2>3
        <3> HIDE DEF id
        <3> QED BY <2>1, <2>3, <3>1, ApartQuiet
    <2>4. ASSUME NEW r \in Req, FindReversal(r) PROVE Apart'
        <3>1. PICK s \in {"done", "pair", "create"} : pc' = [pc EXCEPT ![r] = s]
            BY <2>4 DEF FindReversal, Goto, Answer
        <3>2. Live(r) /\ pc[r] = "check" /\ UNCHANGED <<row, call, pair>>
            BY <2>4 DEF FindReversal, Live
        <3>3. s \in Past \cup {"pair", "create"}
            BY DEF Past
        <3> QED BY <2>3, <3>1, <3>2, <3>3
    <2>5. ASSUME NEW r \in Req, FindPair(r) PROVE Apart'
        <3>1. PICK id \in RowId :
                  \/ row[id].status = "SUCCESSFUL" /\ pc' = [pc EXCEPT ![r] = "create"] /\ pair' = [pair EXCEPT ![r] = id]
                  \/ pc' = [pc EXCEPT ![r] = "done"] /\ pair' = pair
            BY <2>5 DEF FindPair, Goto, Answer
        <3>2. Live(r) /\ pc[r] = "pair" /\ UNCHANGED <<row, call>>
            BY <2>5 DEF FindPair, Live
        <3>3. CASE pc' = [pc EXCEPT ![r] = "done"] /\ pair' = pair
            <4> DEFINE s == "done"
            <4>1. s \in Past \cup {"pair", "create"} /\ pc' = [pc EXCEPT ![r] = s] /\ s \in Past /\ s # "committed"
                BY <3>3 DEF Past
            <4> HIDE DEF s
            <4> QED BY <2>3, <3>2, <3>3, <4>1
        <3>4. CASE row[id].status = "SUCCESSFUL" /\ pc' = [pc EXCEPT ![r] = "create"] /\ pair' = [pair EXCEPT ![r] = id]
            <4> DEFINE s == "create"
            <4>1. s \in Past \cup {"pair", "create"} /\ pc' = [pc EXCEPT ![r] = s] /\ s # "pair" /\ s # "committed"
                BY <3>4
            <4>2. id \in RowId \cup {NoId} /\ id # NoId /\ pc[r] \in {"check", "pair"}
                BY <3>2, Ids
            <4> HIDE DEF s
            <4> QED BY <2>1, <3>2, <3>4, <4>1, <4>2, ApartQuiet
        <3> QED BY <3>1, <3>3, <3>4
    <2>6. ASSUME NEW r \in Req, Create(r) PROVE Apart'
        BY <2>1, <2>6, ApartCreate
    <2>7. ASSUME NEW r \in Req, Commit(r) PROVE Apart'
        BY <2>1, <2>7, ApartCommit
    <2>8. ASSUME NEW r \in Req, Refuse(r) \/ Finish(r) \/ RedisFails(r) \/ Notify(r) \/ Rethrow(r) \/ Crash(r) PROVE Apart'
        <3>1. PICK s \in {"failing", "notify", "done"} : pc' = [pc EXCEPT ![r] = s]
            BY <2>8 DEF Refuse, Finish, RedisFails, Notify, Rethrow, Crash, Goto, Answer
        <3>2. Live(r) /\ UNCHANGED <<row, call, pair>>
            BY <2>8 DEF Refuse, Finish, RedisFails, Notify, Rethrow, Crash, Live
        <3>3. s \in Past /\ s # "committed"
            BY DEF Past
        <3> QED BY <2>3, <3>1, <3>2, <3>3
    <2>9. ASSUME NEW r \in Req, NEW l \in {1, 2}, MarkFailed(r, l) PROVE Apart'
        BY <2>1, <2>9, ApartMark DEF Leg
    <2> QED BY <1>2, <2>2, <2>4, <2>5, <2>6, <2>7, <2>8, <2>9 DEF Next, Serve, Step
<1> QED BY <1>1, <1>2

LEMMA ApartInit == Init => Apart
<1> SUFFICES ASSUME Init PROVE Apart
    OBVIOUS
<1>1. IsRow(NoRow) /\ NoRow.status = "NONE" /\ NoRow.reverses = NoId /\ NoCall.kind # "reverse"
    BY DEF IsRow, NoRow, NoId, NoCall
<1>2. \A id \in RowId : row[id] = NoRow
    BY DEF Init
<1>3. \A r \in Req : pc[r] = "idle" /\ call[r] = NoCall /\ pair[r] = NoId
    BY DEF Init
<1>4. Shape
    <2>1. pc \in [Req -> {"idle", "check", "pair", "create", "pending"} \cup Past] /\ call \in [Req -> Calls \cup {NoCall}]
          /\ pair \in [Req -> RowId \cup {NoId}] /\ moved = {} /\ row = [id \in RowId |-> row[id]]
        BY DEF Init
    <2> QED BY <1>1, <1>2, <1>3, <2>1, Ids DEF Shape, Leg
<1>5. \A r \in Req : UndoneOK(r) /\ BesideOK(r)
    BY <1>1, <1>2, <1>3, Ids DEF UndoneOK, BesideOK, Undoes, Leg
<1>6. beside = {} /\ moved = {}
    BY DEF Init
<1> QED BY <1>1, <1>2, <1>4, <1>5, <1>6 DEF Apart, ReversedApart

\* Two reversals that have undone one row were under way at the same time: a reversal that begins after
\* another has undone the transaction is refused, however many clients ask and whatever has failed
\* (reverseTransaction's check of the status and the REVERSED mark in the transaction).
THEOREM ReversedApartHolds == Spec => []ReversedApart
<1>1. Init => Apart
    BY ApartInit
<1>2. Apart /\ [Next]_vars => Apart'
    BY ApartNext
<1>3. Apart => ReversedApart
    BY DEF Apart
<1> QED BY <1>1, <1>2, <1>3, PTL DEF Spec

-----------------------------------------------------------------------------
\* A key moves money once

Excused(r, q) == <<r, q>> \in beside \/ Lost(r) \/ (q \in moved /\ Lost(q))

Together == \A r \in moved, q \in Req : r # q /\ OneKey(r, q) /\ (Live(q) \/ q \in moved) => Excused(r, q)

KeyOK(r) ==
    /\ pc[r] \in {"committed", "notify"} => r \in moved
    /\ r \in kept /\ call[r].key # NoKey => idem[<<call[r].user, call[r].key>>] # 0
    /\ pc[r] # "done" => reply[r] = 0
    /\ reply[r] \in Req => reply[r] \in moved

Keyed ==
    /\ idem \in [{<<c.user, c.key>> : c \in Calls} -> Req \cup {0}] /\ reply \in [Req -> Req \cup {-1, 0}]
    /\ kept \subseteq moved
    /\ \A k \in DOMAIN idem : idem[k] # 0 => idem[k] \in moved
    /\ \A r \in Req : KeyOK(r)
    /\ Together

\* A request of a key has been called
LEMMA KeyCalled ==
    ASSUME Shape, NEW r \in Req, call[r].key # NoKey
    PROVE  pc[r] # "idle" /\ call[r] \in Calls /\ (Live(r) \/ pc[r] = "done")
<1>1. NoCall.key = NoKey
    BY DEF NoCall
<1>2. call[r] # NoCall
    BY <1>1
<1> QED BY <1>2 DEF Shape, Live

\* A step of a request already called, other than its commit
LEMMA KeyedQuiet ==
    ASSUME Apart, Keyed, Remember, NEW r \in Req, NEW s \in {"check", "pair", "create", "pending", "notify", "failing", "done"},
           Live(r), UNCHANGED call, pc' = [pc EXCEPT ![r] = s], s = "notify" => pc[r] = "committed",
           NEW a \in {0, -1, r}, reply' = [reply EXCEPT ![r] = a], s # "done" => a = 0,
           a = r => pc[r] \in {"committed", "notify"},
           pc[r] = "committed" /\ (s = "notify" \/ a = r) =>
               idem' = IF call[r].kind # "reverse" /\ call[r].key # NoKey
                       THEN [idem EXCEPT ![<<call[r].user, call[r].key>>] = r] ELSE idem,
           ~(pc[r] = "committed" /\ (s = "notify" \/ a = r)) => idem' = idem
    PROVE  Keyed'
<1> DEFINE K == {<<c.user, c.key>> : c \in Calls}
           key == <<call[r].user, call[r].key>>
           Done == pc[r] = "committed" /\ (s = "notify" \/ a = r)
<1>0. 0 \notin Req /\ -1 \notin Req
    BY ServiceAssumption
<1>1. /\ pc'[r] = s /\ reply'[r] = a
      /\ \A x \in Req \ {r} : pc'[x] = pc[x] /\ reply'[x] = reply[x]
    BY DEF Apart, Shape, Keyed
<1>2. /\ moved' = moved /\ moved \subseteq Req
      /\ \A x \in Req : x \in kept' => x \in kept \/ (x = r /\ Done)
      /\ kept' \subseteq kept \cup {r}
      /\ \A p \in beside : p \in beside'
    <2>1. moved' = moved \cup {x \in Req : pc[x] = "pending" /\ pc'[x] = "committed"}
        BY Remembered DEF Apart
    <2>2. kept' = kept \cup {x \in Req : pc[x] = "committed" /\ (pc'[x] = "notify" \/ reply'[x] = x)}
        BY Remembered DEF Apart
    <2>3. \A x \in Req : ~(pc[x] = "pending" /\ pc'[x] = "committed")
        BY <1>1
    <2>4. ASSUME NEW x \in Req \ {r}, pc[x] = "committed" PROVE pc'[x] = "committed" /\ reply'[x] # x
        BY <1>0, <1>1, <2>4 DEF Keyed, KeyOK
    <2>5. \A p \in beside : p \in beside'
        BY Remembered DEF Apart
    <2> QED BY <1>1, <2>1, <2>2, <2>3, <2>4, <2>5 DEF Apart, Shape
<1>3. Done => r \in moved
    BY DEF Keyed, KeyOK
<1>4. call[r].key # NoKey => key \in K
    BY KeyCalled DEF Apart
<1>5. /\ idem' \in [K -> Req \cup {0}]
      /\ \A k \in K : idem'[k] = idem[k] \/ (Done /\ idem'[k] = r)
      /\ Done /\ call[r].key # NoKey => idem'[key] = r
    <2>1. call[r].key # NoKey => call[r].kind # "reverse"
        BY KeyCalled, CallFacts DEF Apart
    <2>2. CASE Done /\ call[r].key # NoKey
        <3>1. idem' = [idem EXCEPT ![key] = r]
            BY <2>1, <2>2
        <3> QED BY <1>4, <2>2, <3>1 DEF Keyed
    <2>3. CASE ~(Done /\ call[r].key # NoKey)
        <3>1. idem' = idem
            BY <2>3
        <3> QED BY <2>3, <3>1 DEF Keyed
    <2> QED BY <2>2, <2>3
<1> HIDE DEF Done, key, K
<1>6. reply' \in [Req -> Req \cup {-1, 0}]
    BY DEF Keyed
<1>7. kept' \subseteq moved'
    BY <1>2, <1>3 DEF Keyed
<1>8. \A k \in DOMAIN idem' : idem'[k] # 0 => idem'[k] \in moved'
    <2>1. DOMAIN idem' = K /\ DOMAIN idem = K
        BY <1>5 DEF Keyed, K
    <2> QED BY <1>2, <1>3, <1>5, <2>1 DEF Keyed
<1>9. ASSUME NEW x \in Req PROVE KeyOK(x)'
    <2>1. KeyOK(x)
        BY DEF Keyed
    <2>2. pc'[x] \in {"committed", "notify"} => x \in moved'
        BY <1>1, <1>2, <2>1 DEF KeyOK
    <2>3. ASSUME x \in kept', call[x].key # NoKey PROVE idem'[<<call[x].user, call[x].key>>] # 0
        <3>1. CASE x = r /\ Done
            BY <1>0, <1>5, <2>3, <3>1 DEF key
        <3>2. CASE x \in kept
            <4>1. <<call[x].user, call[x].key>> \in K
                BY <2>3, KeyCalled DEF Apart, K
            <4> QED BY <1>0, <1>5, <2>1, <2>3, <3>2, <4>1 DEF KeyOK
        <3> QED BY <1>2, <2>3, <3>1, <3>2
    <2>4. pc'[x] # "done" => reply'[x] = 0
        BY <1>1, <2>1 DEF KeyOK
    <2>5. reply'[x] \in Req => reply'[x] \in moved'
        BY <1>0, <1>1, <1>2, <2>1 DEF KeyOK, Keyed
    <2> QED BY <2>2, <2>3, <2>4, <2>5 DEF KeyOK
<1>10. Together'
    <2> SUFFICES ASSUME NEW x \in moved', NEW q \in Req, x # q, OneKey(x, q)', Live(q)' \/ q \in moved'
                 PROVE  Excused(x, q)'
        BY DEF Together
    <2>1. \A y \in Req : (Live(y)' => Live(y)) /\ (Lost(y) => Lost(y)')
        BY <1>1, <1>2 DEF Live, Lost, Done
    <2>2. x \in moved /\ x \in Req /\ OneKey(x, q) /\ (Live(q) \/ q \in moved)
        BY <1>2, <2>1 DEF OneKey
    <2>3. Excused(x, q)
        BY <2>2 DEF Keyed, Together
    <2> QED BY <1>2, <2>1, <2>2, <2>3 DEF Excused
<1> QED BY <1>5, <1>6, <1>7, <1>8, <1>9, <1>10 DEF Keyed, K

LEMMA KeyedStart ==
    ASSUME Apart, Keyed, Remember, NEW r \in Req, NEW c \in Calls, Start(r, c)
    PROVE  Keyed'
<1> DEFINE key == <<c.user, c.key>>
<1>0. 0 \notin Req /\ -1 \notin Req /\ key \in DOMAIN idem
    BY ServiceAssumption DEF Keyed
<1>1. PICK s \in {"done", "create", "check"}, a \in {0, -1, idem[key]} :
          /\ pc' = [pc EXCEPT ![r] = s] /\ reply' = [reply EXCEPT ![r] = a]
          /\ s # "done" => a = 0
          /\ s = "done" \/ c.kind = "reverse" \/ c.key = NoKey \/ idem[key] = 0
    <2>1. reply[r] = 0 /\ reply = [reply EXCEPT ![r] = reply[r]]
        BY DEF Start, Keyed, KeyOK
    <2> QED BY <2>1 DEF Start, Goto, Answer
<1>2. pc[r] = "idle" /\ call' = [call EXCEPT ![r] = c] /\ idem' = idem /\ (c.kind = "reverse" => c.key = NoKey)
    BY CallFacts DEF Start
<1>3. /\ pc'[r] = s /\ reply'[r] = a /\ call'[r] = c
      /\ \A x \in Req \ {r} : pc'[x] = pc[x] /\ reply'[x] = reply[x] /\ call'[x] = call[x]
    BY <1>1, <1>2 DEF Apart, Shape, Keyed
<1>4. /\ moved' = moved /\ kept' = kept /\ moved \subseteq Req /\ r \notin moved
      /\ \A p \in beside : p \in beside'
      /\ \A x, y \in Req : (x # y /\ Live(x) /\ Live(y) /\ Rivals(x, y))' => <<x, y>> \in beside'
    <2>1. /\ moved' = moved \cup {x \in Req : pc[x] = "pending" /\ pc'[x] = "committed"}
          /\ kept' = kept \cup {x \in Req : pc[x] = "committed" /\ (pc'[x] = "notify" \/ reply'[x] = x)}
        BY Remembered DEF Apart
    <2>2. \A x \in Req : ~(pc[x] = "pending" /\ pc'[x] = "committed")
        BY <1>2, <1>3
    <2>3. ASSUME NEW x \in Req, pc[x] = "committed" PROVE pc'[x] # "notify" /\ reply'[x] # x
        <3>1. reply[x] = 0 /\ x # 0 /\ x # r
            BY <1>0, <1>2, <2>3 DEF Keyed, KeyOK
        <3> QED BY <1>3, <2>3, <3>1
    <2>4. moved \subseteq Req /\ r \notin moved
        BY <1>2 DEF Apart, Shape, Past
    <2>5. /\ \A p \in beside : p \in beside'
          /\ \A x, y \in Req : (x # y /\ Live(x) /\ Live(y) /\ Rivals(x, y))' => <<x, y>> \in beside'
        BY Remembered DEF Apart
    <2> QED BY <2>1, <2>2, <2>3, <2>4, <2>5
<1>5. a \in Req => a \in moved
    BY <1>0, <1>1 DEF Keyed
<1>6. reply' \in [Req -> Req \cup {-1, 0}]
    BY <1>0, <1>1 DEF Keyed
<1>7. ASSUME NEW x \in Req PROVE KeyOK(x)'
    BY <1>1, <1>2, <1>3, <1>4, <1>5 DEF Keyed, KeyOK
<1>8. Together'
    <2> SUFFICES ASSUME NEW x \in moved', NEW q \in Req, x # q, OneKey(x, q)', Live(q)' \/ q \in moved'
                 PROVE  Excused(x, q)'
        BY DEF Together
    <2>1. x \in moved /\ x \in Req /\ x # r /\ call'[x] = call[x]
        BY <1>3, <1>4
    <2>2. CASE q # r
        <3>1. OneKey(x, q) /\ (Live(q) \/ q \in moved)
            BY <1>3, <1>4, <2>1, <2>2 DEF OneKey, Live
        <3>2. Excused(x, q)
            BY <2>1, <3>1 DEF Keyed, Together
        <3> QED BY <1>3, <1>4, <2>1, <2>2, <3>2 DEF Excused, Lost
    <2>3. CASE q = r
        <3>1. Live(r)' /\ s # "done" /\ call[x].key = c.key /\ call[x].user = c.user /\ c.key # NoKey
            BY <1>3, <1>4, <2>1, <2>3 DEF OneKey, Live
        <3>2. x \notin kept
            BY <1>1, <1>2, <2>1, <3>1 DEF Keyed, KeyOK
        <3>3. Live(x) \/ pc[x] = "done"
            BY <2>1, <3>1, KeyCalled DEF Apart
        <3>4. CASE pc[x] = "done"
            BY <1>3, <1>4, <2>1, <3>2, <3>4 DEF Excused, Lost
        <3>5. CASE Live(x)
            <4>1. Live(x)' /\ Rivals(x, q)'
                BY <1>3, <2>1, <3>5 DEF Live, Rivals
            <4> QED BY <1>4, <2>1, <2>3, <3>1, <4>1 DEF Excused
        <3> QED BY <3>3, <3>4, <3>5
    <2> QED BY <2>2, <2>3
<1> QED BY <1>2, <1>4, <1>6, <1>7, <1>8 DEF Keyed

LEMMA KeyedCommit ==
    ASSUME Apart, Keyed, Remember, NEW r \in Req, Commit(r)
    PROVE  Keyed'
<1>1. /\ pc[r] = "pending" /\ UNCHANGED <<idem, call, reply>>
      /\ pc'[r] = "committed" /\ \A x \in Req \ {r} : pc'[x] = pc[x]
    BY DEF Commit, Goto, Apart, Shape
<1>2. /\ moved' = moved \cup {r} /\ kept' = kept /\ moved \subseteq Req /\ r \notin moved
      /\ \A p \in beside : p \in beside'
      /\ \A x, y \in Req : <<x, y>> \in beside => <<y, x>> \in beside'
      /\ \A x, y \in Req : (x # y /\ Live(x) /\ Live(y) /\ Rivals(x, y))' => <<x, y>> \in beside'
    <2>1. /\ moved' = moved \cup {x \in Req : pc[x] = "pending" /\ pc'[x] = "committed"}
          /\ kept' = kept \cup {x \in Req : pc[x] = "committed" /\ (pc'[x] = "notify" \/ reply'[x] = x)}
        BY Remembered DEF Apart
    <2>2. {x \in Req : pc[x] = "pending" /\ pc'[x] = "committed"} = {r}
        BY <1>1
    <2>3. ASSUME NEW x \in Req, pc[x] = "committed" PROVE pc'[x] # "notify" /\ reply'[x] # x
        <3>1. reply[x] = 0 /\ x # 0
            BY <2>3, ServiceAssumption DEF Keyed, KeyOK
        <3> QED BY <1>1, <2>3, <3>1
    <2>4. moved \subseteq Req /\ r \notin moved
        BY <1>1 DEF Apart, Shape, Past
    <2>5. /\ \A p \in beside : p \in beside'
          /\ \A x, y \in Req : <<x, y>> \in beside' => <<y, x>> \in beside'
          /\ \A x, y \in Req : (x # y /\ Live(x) /\ Live(y) /\ Rivals(x, y))' => <<x, y>> \in beside'
        BY Remembered DEF Apart
    <2> QED BY <2>1, <2>2, <2>3, <2>4, <2>5
<1>3. ASSUME NEW x \in Req PROVE KeyOK(x)'
    BY <1>1, <1>2 DEF Keyed, KeyOK
<1>4. Together'
    <2> SUFFICES ASSUME NEW x \in moved', NEW q \in Req, x # q, OneKey(x, q)', Live(q)' \/ q \in moved'
                 PROVE  Excused(x, q)'
        BY DEF Together
    <2>0. x \in Req /\ OneKey(x, q) /\ OneKey(q, x) /\ (Live(q) \/ q \in moved)
        BY <1>1, <1>2 DEF OneKey, Live
    <2>1. \A y \in Req : Lost(y) => Lost(y)'
        BY <1>1, <1>2 DEF Lost
    <2>2. CASE x # r
        <3>1. Excused(x, q)
            BY <1>2, <2>0, <2>2 DEF Keyed, Together
        <3> QED BY <1>2, <2>0, <2>1, <3>1 DEF Excused
    <2>3. CASE x = r
        <3>1. CASE Live(q)
            <4>1. Live(q)' /\ Live(x)' /\ Rivals(x, q)'
                BY <1>1, <2>3, <3>1 DEF Live, Rivals
            <4> QED BY <1>2, <2>0, <4>1 DEF Excused
        <3>2. CASE ~Live(q)
            <4>1. q \in moved /\ Live(r)
                BY <1>1, <2>0, <3>2 DEF Live
            <4>2. Excused(q, r)
                BY <2>0, <2>3, <4>1 DEF Keyed, Together
            <4> QED BY <1>2, <2>0, <2>1, <2>3, <4>1, <4>2 DEF Excused
        <3> QED BY <3>1, <3>2
    <2> QED BY <2>2, <2>3
<1> QED BY <1>1, <1>2, <1>3, <1>4 DEF Keyed

LEMMA KeyedNext == Apart /\ Keyed /\ [Next]_vars => Keyed'
<1> SUFFICES ASSUME Apart, Keyed, [Next]_vars PROVE Keyed'
    OBVIOUS
<1>1. CASE UNCHANGED vars
    <2>1. UNCHANGED <<pc, call, idem, reply, beside, moved, kept>>
        BY <1>1 DEF vars, service
    <2>2. ASSUME NEW r \in Req PROVE KeyOK(r)'
        BY <2>1 DEF Keyed, KeyOK
    <2>3. Together'
        BY <2>1 DEF Keyed, Together, Excused, Lost, Live, OneKey
    <2> QED BY <2>1, <2>2, <2>3 DEF Keyed
<1>2. CASE Next
    <2>1. Remember
        BY <1>2 DEF Next
    <2>2. ASSUME NEW r \in Req, NEW c \in Calls, Start(r, c) PROVE Keyed'
        BY <2>1, <2>2, KeyedStart
    <2>3. ASSUME NEW r \in Req, Commit(r) PROVE Keyed'
        BY <2>1, <2>3, KeyedCommit
    <2>4. ASSUME NEW r \in Req, NEW s \in {"check", "pair", "create", "pending", "failing", "done"}, Live(r),
                 UNCHANGED <<call, idem>>, pc' = [pc EXCEPT ![r] = s],
                 NEW a \in {0, -1}, reply' = [reply EXCEPT ![r] = a], s # "done" => a = 0
          PROVE  Keyed'
        <3>1. a # r
            BY ServiceAssumption
        <3>2. s \in {"check", "pair", "create", "pending", "notify", "failing", "done"} /\ s # "notify" /\ a \in {0, -1, r}
            OBVIOUS
        <3> QED BY <2>1, <2>4, <3>1, <3>2, KeyedQuiet
    <2>5. ASSUME NEW r \in Req,
                 \/ FindReversal(r) \/ FindPair(r) \/ Create(r) \/ Refuse(r) \/ RedisFails(r) \/ Rethrow(r) \/ Crash(r)
          PROVE  Keyed'
        <3>1. Live(r) /\ UNCHANGED <<call, idem>>
            BY <2>5 DEF FindReversal, FindPair, Create, Refuse, RedisFails, Rethrow, Crash, Live
        <3>2. reply = [reply EXCEPT ![r] = 0]
            BY <3>1 DEF Keyed, KeyOK, Live
        <3>3. PICK s \in {"check", "pair", "create", "pending", "failing", "done"}, a \in {0, -1} :
                  pc' = [pc EXCEPT ![r] = s] /\ reply' = [reply EXCEPT ![r] = a] /\ (s # "done" => a = 0)
            BY <2>5, <3>2 DEF FindReversal, FindPair, Create, Refuse, RedisFails, Rethrow, Crash, Goto, Answer
        <3> QED BY <2>4, <3>1, <3>3
    <2>6. ASSUME NEW r \in Req, NEW l \in {1, 2}, MarkFailed(r, l) PROVE Keyed'
        <3> DEFINE s == "failing"
                   a == 0
        <3>1. Live(r) /\ UNCHANGED <<call, idem>> /\ pc' = [pc EXCEPT ![r] = s]
            BY <2>6 DEF MarkFailed, Live, Apart, Shape
        <3>2. reply' = [reply EXCEPT ![r] = a] /\ (s # "done" => a = 0)
            BY <2>6 DEF MarkFailed, Keyed, KeyOK
        <3>3. s \in {"check", "pair", "create", "pending", "failing", "done"} /\ a \in {0, -1}
            OBVIOUS
        <3> HIDE DEF s, a
        <3> QED BY <2>4, <3>1, <3>2, <3>3
    <2>7. ASSUME NEW r \in Req, Finish(r) \/ Notify(r) PROVE Keyed'
        <3>1. Live(r) /\ UNCHANGED call
            BY <2>7 DEF Finish, Notify, Live
        <3>2. reply = [reply EXCEPT ![r] = 0]
            BY <3>1 DEF Keyed, KeyOK, Live
        <3>3. r # 0 /\ r # -1
            BY ServiceAssumption
        <3>4. PICK s \in {"notify", "failing", "done"}, a \in {0, r} :
                  /\ pc' = [pc EXCEPT ![r] = s] /\ reply' = [reply EXCEPT ![r] = a] /\ (s # "done" => a = 0)
                  /\ pc[r] \in {"committed", "notify"} /\ (pc[r] = "committed" <=> Finish(r))
                  /\ s = "notify" => pc[r] = "committed"
                  /\ pc[r] = "committed" => s = "notify" \/ a = r
            BY <2>7, <3>2 DEF Finish, Notify, Goto, Answer
        <3>5. /\ pc[r] = "committed" =>
                    idem' = IF call[r].kind # "reverse" /\ call[r].key # NoKey
                            THEN [idem EXCEPT ![<<call[r].user, call[r].key>>] = r] ELSE idem
              /\ pc[r] # "committed" => idem' = idem
            BY <2>7, <3>4 DEF Finish, Notify
        <3>6. s \in {"check", "pair", "create", "pending", "notify", "failing", "done"} /\ a \in {0, -1, r}
            OBVIOUS
        <3> QED BY <2>1, <3>1, <3>4, <3>5, <3>6, KeyedQuiet
    <2> QED BY <1>2, <2>2, <2>3, <2>5, <2>6, <2>7 DEF Next, Serve, Step
<1> QED BY <1>1, <1>2

LEMMA KeyedInit == Init => Keyed
<1> SUFFICES ASSUME Init PROVE Keyed
    OBVIOUS
<1>1. 0 \notin Req /\ NoCall.key = NoKey
    BY ServiceAssumption DEF NoCall
<1>2. /\ idem \in [{<<c.user, c.key>> : c \in Calls} -> Req \cup {0}] /\ reply \in [Req -> Req \cup {-1, 0}]
      /\ \A k \in DOMAIN idem : idem[k] = 0
      /\ kept = {} /\ moved = {}
    BY DEF Init
<1>3. ASSUME NEW r \in Req PROVE KeyOK(r)
    BY <1>1, <1>2 DEF Init, KeyOK
<1> QED BY <1>2, <1>3 DEF Keyed, Together

\* A user's key moves money once, unless two calls with it were under way at the same time, or the first was
\* cut off between its commit and its record: so in every run, with every failure.  The lookup and the save
\* of idempotency.service.ts give this much and no more.
THEOREM KeyMovesOnceHolds == Spec => []KeyMovesOnce
<1>1. Init => Apart /\ Keyed
    BY ApartInit, KeyedInit
<1>2. Apart /\ Keyed /\ [Next]_vars => (Apart /\ Keyed)'
    BY ApartNext, KeyedNext
<1>3. Apart /\ Keyed => KeyMovesOnce
    <2> SUFFICES ASSUME Apart, Keyed PROVE KeyMovesOnce
        OBVIOUS
    <2>1. moved \subseteq Req
        BY DEF Apart, Shape
    <2>2. ASSUME NEW r \in moved, NEW q \in moved, r # q, OneKey(r, q) PROVE <<r, q>> \in beside \/ Lost(r) \/ Lost(q)
        BY <2>1, <2>2 DEF Keyed, Together, Excused
    <2>3. ASSUME NEW q \in Req, reply[q] \in Req PROVE reply[q] \in moved
        BY <2>3 DEF Keyed, KeyOK
    <2> QED BY <2>2, <2>3 DEF KeyMovesOnce
<1> QED BY <1>1, <1>2, <1>3, PTL DEF Spec
=============================================================================
