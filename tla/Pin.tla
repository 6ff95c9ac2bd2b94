-------------------------------- MODULE Pin --------------------------------
(***************************************************************************)
(* The transaction PIN of one user (pin.service.ts), with what clears its  *)
(* lock from elsewhere: unlockPin (admin.service.ts) and resetPassword.    *)
(* bcrypt compares what was read, so reading and comparing are one step.   *)
(***************************************************************************)
EXTENDS FiniteSets, Integers

CONSTANTS
    Guesser,        \* requests that ask for the PIN, at any one time
    MaxAttempts,    \* MAX_ATTEMPTS
    MaxLost         \* bound on failed requests

ASSUME PinAssumption ==
    IsFiniteSet(Guesser) /\ MaxAttempts \in Nat \ {0} /\ MaxLost \in Nat

VARIABLES
    attempts,   \* pinFailedAttempts
    lock,       \* pinLockedUntil: "none", "ahead" (it is in the future) or "past"
    guess,      \* the next step of each request, and the pinFailedAttempts it has read
    then,       \* what it does with a right PIN: "pay" or "change" it
    wrong,      \* wrong PINs tried since the user's last proof or the end of a lock
    lost,       \* requests that failed before their wrong PIN was counted or locked
    most        \* history: the most wrong PINs, of those in wrong, that were pending at one time

pinState == <<attempts, lock, guess, then, wrong, lost>>
pinVars  == <<pinState, most>>

PinInit ==
    /\ attempts = 0 /\ lock = "none" /\ wrong = 0 /\ lost = 0 /\ most = 0
    /\ guess = [g \in Guesser |-> [step |-> "idle", read |-> 0]]
    /\ then = [g \in Guesser |-> "pay"]

Onto(g, s) == guess' = [guess EXCEPT ![g] = [step |-> s, read |-> IF s = "idle" THEN 0 ELSE attempts]]

\* A right PIN: the payment goes on, or changePin writes the new PIN
Right(g, op) == IF op = "change" THEN "write" ELSE "idle"

\* verifyPin reads the user and compares
TryRight(g, op) ==
    /\ guess[g].step = "idle" /\ lock # "ahead"
    /\ Onto(g, IF attempts > 0 \/ lock # "none" THEN "clear" ELSE Right(g, op))
    /\ then' = [then EXCEPT ![g] = op]
    /\ UNCHANGED <<attempts, lock, wrong, lost>>

\* On a shared demo account that is all: the answer changes nothing and is left out
TryWrong(g) ==
    /\ guess[g].step = "idle" /\ lock # "ahead"
    /\ Onto(g, "count")
    /\ wrong' = wrong + 1
    /\ UNCHANGED <<attempts, lock, then, lost>>

\* The counter and the lock are wiped by someone who has proved to be the user, or by support
Wiped == attempts' = 0 /\ lock' = "none" /\ wrong' = 0

Clear(g) ==
    /\ guess[g].step = "clear"
    /\ Wiped
    /\ Onto(g, Right(g, then[g]))
    /\ UNCHANGED <<then, lost>>

\* Mutant: the counter that was read plus one, instead of an increment
CountRead(g) ==
    /\ guess[g].step = "count"
    /\ attempts' = guess[g].read + 1
    /\ Onto(g, IF attempts' >= MaxAttempts THEN "lock" ELSE "idle")
    /\ UNCHANGED <<lock, then, wrong, lost>>

Count(g) ==
    /\ guess[g].step = "count"
    /\ attempts' = attempts + 1
    /\ Onto(g, IF attempts' >= MaxAttempts THEN "lock" ELSE "idle")
    /\ UNCHANGED <<lock, then, wrong, lost>>

LockPin(g) ==
    /\ guess[g].step = "lock"
    /\ attempts' = 0 /\ lock' = "ahead"
    /\ Onto(g, "idle")
    /\ UNCHANGED <<then, wrong, lost>>

\* setPin and changePin by password start here; by PIN, changePin comes from TryRight
ByPassword(g) ==
    /\ guess[g].step = "idle"
    /\ Onto(g, "write")
    /\ UNCHANGED <<attempts, lock, then, wrong, lost>>

WritePin(g) ==
    /\ guess[g].step = "write"
    /\ Wiped
    /\ Onto(g, "idle")
    /\ UNCHANGED <<then, lost>>

\* unlockPin reads the lock, then wipes it
ReadLocked(g) ==
    /\ guess[g].step = "idle" /\ lock = "ahead"
    /\ Onto(g, "write")
    /\ UNCHANGED <<attempts, lock, then, wrong, lost>>

\* The database fails, or the process ends
Failed(g) ==
    /\ guess[g].step # "idle"
    /\ lost < MaxLost
    /\ lost' = lost + 1
    /\ Onto(g, "idle")
    /\ UNCHANGED <<attempts, lock, then, wrong>>

\* resetPassword's transaction
ResetWipes == Wiped /\ UNCHANGED <<guess, then, lost>>

Minutes30 ==
    /\ lock = "ahead"
    /\ lock' = "past" /\ wrong' = 0
    /\ UNCHANGED <<attempts, guess, then, lost>>

\* Requests whose PIN was compared and was wrong, and has yet to be counted or to set the lock
Pending == {g \in Guesser : guess[g].step \in {"count", "lock"}}

PinMoves ==
    \/ \E g \in Guesser : \/ TryWrong(g) \/ Clear(g) \/ Count(g) \/ LockPin(g)
                          \/ ByPassword(g) \/ WritePin(g) \/ ReadLocked(g) \/ Failed(g)
                          \/ \E op \in {"pay", "change"} : TryRight(g, op)
    \/ ResetWipes \/ Minutes30

PinNext ==
    /\ PinMoves
    /\ LET n == Cardinality(Pending') IN most' = IF wrong' = 0 \/ n > most THEN n ELSE most

PinTypeOK ==
    /\ attempts \in Nat /\ wrong \in Nat /\ lost \in 0..MaxLost /\ most \in Nat
    /\ lock \in {"none", "ahead", "past"}
    /\ guess \in [Guesser -> [step : {"idle", "clear", "count", "lock", "write"}, read : Nat]]
    /\ then \in [Guesser -> {"pay", "change"}]

\* Whoever does not know the PIN and tries one after the other gets MAX_ATTEMPTS of them ("5 wrong
\* attempts lock money movement for 30 minutes"), and one more for every request that fails before it
\* is counted.  Those who try several at once get one more for each that was compared beside another:
\* the atomic increment bounds the counter, not, as its comment says, the guesses.
GuessesBounded == wrong <= MaxAttempts - 1 + most + lost
=============================================================================
