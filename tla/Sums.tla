-------------------------------- MODULE Sums --------------------------------
(***************************************************************************)
(* Sums of the values of a function over a finite set of indices           *)
(* (SumFunctionOnSet): what the proofs about balances and allowances need. *)
(***************************************************************************)
EXTENDS Integers, Functions, FiniteSetTheorems, TLAPS

\* Element the fold takes out of a set first
Chosen(s) == CHOOSE x \in s : TRUE

\* f is the fold's recursive function, on the subsets of S
Unfolds(f, w, S) ==
    f = [s \in SUBSET S |-> IF s = {} THEN 0 ELSE w[Chosen(s)] + f[s \ {Chosen(s)}]]

Partial(w, S) == CHOOSE f : Unfolds(f, w, S)

LEMMA SumIsPartial == \A w, S : SumFunctionOnSet(w, S) = Partial(w, S)[S]
BY DEF SumFunctionOnSet, FoldFunctionOnSet, MapThenFoldSet, Partial, Unfolds, Chosen

\* Induction over the subsets of a finite set, for a set of good ones
LEMMA SubsetInduction ==
    ASSUME NEW S, IsFiniteSet(S), NEW G,
           \A T \in SUBSET S : (\A U \in SUBSET T : U # T => U \in G) => T \in G
    PROVE  S \in G
<1> DEFINE Bad == (SUBSET S) \ G
<1> SUFFICES ASSUME Bad # {} PROVE FALSE
    OBVIOUS
<1>1. Bad \subseteq FiniteSubsetsOf(S)
    BY FS_Subset DEF FiniteSubsetsOf
<1>2. PICK T \in Bad : \A U \in Bad : ~(<<U, T>> \in StrictSubsetOrdering(S))
    <2> HIDE DEF Bad
    <2> QED BY <1>1, FS_StrictSubsetOrderingWellFounded, WFMin
<1>3. \A U \in SUBSET T : U # T => U \in G
    BY <1>2 DEF StrictSubsetOrdering
<1> QED BY <1>2, <1>3

\* The fold's recursive function is unique, and it exists
LEMMA UnfoldsUnique ==
    ASSUME NEW w, NEW S, IsFiniteSet(S), NEW f, NEW g, Unfolds(f, w, S), Unfolds(g, w, S)
    PROVE  f = g
<1> DEFINE Same == {s \in SUBSET S : f[s] = g[s]}
<1>1. ASSUME NEW T \in SUBSET S, \A U \in SUBSET T : U # T => U \in Same PROVE T \in Same
    <2>1. CASE T = {}
        BY <2>1 DEF Unfolds
    <2>2. CASE T # {}
        <3>1. Chosen(T) \in T
            BY <2>2 DEF Chosen
        <3>2. T \ {Chosen(T)} \in Same
            BY <3>1, <1>1
        <3>3. f[T] = w[Chosen(T)] + f[T \ {Chosen(T)}] /\ g[T] = w[Chosen(T)] + g[T \ {Chosen(T)}]
            BY <2>2 DEF Unfolds
        <3> QED BY <3>2, <3>3
    <2> QED BY <2>1, <2>2
<1>2. \A T \in SUBSET S : T \in Same
    <2> SUFFICES ASSUME NEW T \in SUBSET S PROVE T \in Same
        OBVIOUS
    <2> HIDE DEF Same
    <2> QED BY <1>1, SubsetInduction, FS_Subset
<1>3. f = [s \in SUBSET S |-> f[s]] /\ g = [s \in SUBSET S |-> g[s]]
    BY DEF Unfolds
<1> QED BY <1>2, <1>3

LEMMA UnfoldsRestricted ==
    ASSUME NEW w, NEW S, NEW f, Unfolds(f, w, S), NEW T \in SUBSET S
    PROVE  Unfolds([s \in SUBSET T |-> f[s]], w, T)
<1> DEFINE g == [s \in SUBSET T |-> f[s]]
<1>1. ASSUME NEW s \in SUBSET T, s # {}
      PROVE  g[s] = w[Chosen(s)] + g[s \ {Chosen(s)}]
    <2>1. f[s] = w[Chosen(s)] + f[s \ {Chosen(s)}]
        BY <1>1 DEF Unfolds
    <2> QED BY <2>1
<1>2. g[{}] = 0
    BY DEF Unfolds
<1> QED BY <1>1, <1>2 DEF Unfolds

LEMMA PartialUnfolds ==
    ASSUME NEW w, NEW S, IsFiniteSet(S)
    PROVE  Unfolds(Partial(w, S), w, S)
<1> DEFINE Good == {s \in SUBSET S : Unfolds(Partial(w, s), w, s)}
<1>1. ASSUME NEW T \in SUBSET S, \A U \in SUBSET T : U # T => U \in Good PROVE T \in Good
    <2> DEFINE g == [s \in SUBSET T |-> IF s = {} THEN 0
                       ELSE w[Chosen(s)] + Partial(w, s \ {Chosen(s)})[s \ {Chosen(s)}]]
    <2>1. ASSUME NEW s \in SUBSET T, s # {} PROVE g[s] = w[Chosen(s)] + g[s \ {Chosen(s)}]
        <3> DEFINE u == s \ {Chosen(s)}
        <3>1. Chosen(s) \in s /\ u \in SUBSET T /\ u # T /\ u \in SUBSET S
            BY <2>1 DEF Chosen
        <3>2. Unfolds(Partial(w, u), w, u)
            BY <3>1, <1>1
        <3>3. g[u] = Partial(w, u)[u]
            <4>1. CASE u = {}
                BY <4>1, <3>1, <3>2 DEF Unfolds
            <4>2. CASE u # {}
                <5> DEFINE v == u \ {Chosen(u)}
                <5>1. Chosen(u) \in u /\ v \in SUBSET u /\ v # T /\ v \in SUBSET T
                    BY <4>2, <3>1 DEF Chosen
                <5>2. Partial(w, u)[u] = w[Chosen(u)] + Partial(w, u)[v]
                    BY <4>2, <3>2 DEF Unfolds
                <5>3. Unfolds(Partial(w, v), w, v)
                    BY <5>1, <1>1
                <5>4. Unfolds([x \in SUBSET v |-> Partial(w, u)[x]], w, v)
                    BY <5>1, <3>2, UnfoldsRestricted
                <5>5. [x \in SUBSET v |-> Partial(w, u)[x]] = Partial(w, v)
                    BY <5>1, <5>3, <5>4, UnfoldsUnique, FS_Subset
                <5>6. Partial(w, u)[v] = Partial(w, v)[v]
                    <6>1. v \in SUBSET v
                        OBVIOUS
                    <6> HIDE DEF v, u
                    <6> QED BY <5>5, <6>1
                <5>7. g[u] = w[Chosen(u)] + Partial(w, v)[v]
                    BY <4>2, <3>1
                <5> QED BY <5>2, <5>6, <5>7
            <4> QED BY <4>1, <4>2
        <3>4. g[s] = w[Chosen(s)] + Partial(w, u)[u]
            BY <2>1
        <3> QED BY <3>3, <3>4
    <2>2. g[{}] = 0
        OBVIOUS
    <2>3. Unfolds(g, w, T)
        <3>1. g = [s \in SUBSET T |-> IF s = {} THEN 0 ELSE w[Chosen(s)] + g[s \ {Chosen(s)}]]
            <4>1. g = [s \in SUBSET T |-> g[s]]
                OBVIOUS
            <4>2. \A s \in SUBSET T : g[s] = IF s = {} THEN 0 ELSE w[Chosen(s)] + g[s \ {Chosen(s)}]
                BY <2>1, <2>2
            <4> HIDE DEF g
            <4> QED BY <4>1, <4>2
        <3> HIDE DEF g
        <3> QED BY <3>1 DEF Unfolds
    <2> HIDE DEF g
    <2> QED BY <2>3 DEF Partial
<1> HIDE DEF Good
<1>2. S \in Good
    BY <1>1, SubsetInduction
<1> QED BY <1>2 DEF Good

\* The empty sum, and one element more
LEMMA SumEmpty == \A w : SumFunctionOnSet(w, {}) = 0
<1> SUFFICES ASSUME NEW w PROVE SumFunctionOnSet(w, {}) = 0
    OBVIOUS
<1>1. Unfolds(Partial(w, {}), w, {})
    BY PartialUnfolds, FS_EmptySet
<1>2. Partial(w, {})[{}] = 0
    BY <1>1 DEF Unfolds
<1> QED BY <1>2, SumIsPartial

LEMMA SumFirst ==
    ASSUME NEW w, NEW S, IsFiniteSet(S), S # {}
    PROVE  SumFunctionOnSet(w, S) = w[Chosen(S)] + SumFunctionOnSet(w, S \ {Chosen(S)})
<1> DEFINE R == S \ {Chosen(S)}
<1>1. R \in SUBSET S /\ IsFiniteSet(R)
    BY FS_Subset
<1>2. Partial(w, S)[S] = w[Chosen(S)] + Partial(w, S)[R]
    <2>1. Unfolds(Partial(w, S), w, S)
        BY PartialUnfolds
    <2> QED BY <2>1 DEF Unfolds
<1>3. [s \in SUBSET R |-> Partial(w, S)[s]] = Partial(w, R)
    <2> HIDE DEF R
    <2>1. Unfolds(Partial(w, S), w, S)
        BY PartialUnfolds
    <2>2. Unfolds([s \in SUBSET R |-> Partial(w, S)[s]], w, R)
        BY <1>1, <2>1, UnfoldsRestricted
    <2>3. Unfolds(Partial(w, R), w, R)
        BY <1>1, PartialUnfolds
    <2> QED BY <1>1, <2>2, <2>3, UnfoldsUnique
<1> HIDE DEF R
<1>4. Partial(w, S)[R] = Partial(w, R)[R]
    BY <1>3
<1> QED BY <1>2, <1>4, SumIsPartial DEF R

\* Integers sum up to an integer, whichever is taken first
LEMMA SumInt ==
    ASSUME NEW S, IsFiniteSet(S), NEW w, \A x \in S : w[x] \in Int
    PROVE  SumFunctionOnSet(w, S) \in Int
<1> DEFINE Good == {s \in SUBSET S : SumFunctionOnSet(w, s) \in Int}
<1>1. ASSUME NEW T \in SUBSET S, \A U \in SUBSET T : U # T => U \in Good PROVE T \in Good
    <2>1. CASE T = {}
        BY <2>1, SumEmpty
    <2>2. CASE T # {}
        <3>1. Chosen(T) \in T /\ T \ {Chosen(T)} \in Good /\ w[Chosen(T)] \in Int
            BY <2>2, <1>1 DEF Chosen
        <3>2. SumFunctionOnSet(w, T) = w[Chosen(T)] + SumFunctionOnSet(w, T \ {Chosen(T)})
            BY <2>2, SumFirst, FS_Subset
        <3> QED BY <3>1, <3>2
    <2> QED BY <2>1, <2>2
<1> HIDE DEF Good
<1>2. S \in Good
    BY <1>1, SubsetInduction
<1> QED BY <1>2 DEF Good

LEMMA SumRemove ==
    ASSUME NEW S, IsFiniteSet(S), NEW w, \A x \in S : w[x] \in Int, NEW e \in S
    PROVE  SumFunctionOnSet(w, S) = w[e] + SumFunctionOnSet(w, S \ {e})
<1> DEFINE Good == {s \in SUBSET S : \A x \in s : SumFunctionOnSet(w, s) = w[x] + SumFunctionOnSet(w, s \ {x})}
<1>1. ASSUME NEW T \in SUBSET S, \A U \in SUBSET T : U # T => U \in Good PROVE T \in Good
    <2> SUFFICES ASSUME NEW x \in T PROVE SumFunctionOnSet(w, T) = w[x] + SumFunctionOnSet(w, T \ {x})
        OBVIOUS
    <2> DEFINE c == Chosen(T)
    <2>1. c \in T /\ w[c] \in Int /\ w[x] \in Int
        BY DEF Chosen
    <2>2. \A U \in SUBSET S : IsFiniteSet(U) /\ SumFunctionOnSet(w, U) \in Int
        BY FS_Subset, SumInt
    <2>3. SumFunctionOnSet(w, T) = w[c] + SumFunctionOnSet(w, T \ {c})
        BY <2>1, <2>2, SumFirst
    <2> HIDE DEF c
    <2>4. CASE c # x
        <3>1. T \ {c} \in Good /\ T \ {x} \in Good /\ x \in T \ {c} /\ c \in T \ {x}
            BY <2>1, <2>4, <1>1
        <3>2. (T \ {c}) \ {x} = (T \ {x}) \ {c}
            OBVIOUS
        <3>3. SumFunctionOnSet(w, T \ {c}) = w[x] + SumFunctionOnSet(w, (T \ {c}) \ {x})
            BY <3>1
        <3>4. SumFunctionOnSet(w, T \ {x}) = w[c] + SumFunctionOnSet(w, (T \ {c}) \ {x})
            BY <3>1, <3>2
        <3>5. SumFunctionOnSet(w, (T \ {c}) \ {x}) \in Int
            BY <2>2
        <3> QED BY <2>1, <2>3, <3>3, <3>4, <3>5
    <2> QED BY <2>3, <2>4
<1> HIDE DEF Good
<1>2. S \in Good
    BY <1>1, SubsetInduction
<1> QED BY <1>2 DEF Good

\* The sum depends on the values it adds up alone
LEMMA SumSame ==
    ASSUME NEW S, IsFiniteSet(S), NEW w, NEW v, \A x \in S : w[x] = v[x]
    PROVE  SumFunctionOnSet(w, S) = SumFunctionOnSet(v, S)
<1> DEFINE Good == {s \in SUBSET S : SumFunctionOnSet(w, s) = SumFunctionOnSet(v, s)}
<1>1. ASSUME NEW T \in SUBSET S, \A U \in SUBSET T : U # T => U \in Good PROVE T \in Good
    <2>1. CASE T = {}
        BY <2>1, SumEmpty
    <2>2. CASE T # {}
        <3>1. Chosen(T) \in T /\ T \ {Chosen(T)} \in Good /\ w[Chosen(T)] = v[Chosen(T)]
            BY <2>2, <1>1 DEF Chosen
        <3>2. /\ SumFunctionOnSet(w, T) = w[Chosen(T)] + SumFunctionOnSet(w, T \ {Chosen(T)})
              /\ SumFunctionOnSet(v, T) = v[Chosen(T)] + SumFunctionOnSet(v, T \ {Chosen(T)})
            BY <2>2, SumFirst, FS_Subset
        <3> QED BY <3>1, <3>2
    <2> QED BY <2>1, <2>2
<1> HIDE DEF Good
<1>2. S \in Good
    BY <1>1, SubsetInduction
<1> QED BY <1>2 DEF Good

LEMMA SumAdd ==
    ASSUME NEW S, IsFiniteSet(S), NEW e, e \notin S, NEW w, \A x \in S \cup {e} : w[x] \in Int
    PROVE  SumFunctionOnSet(w, S \cup {e}) = w[e] + SumFunctionOnSet(w, S)
<1>1. (S \cup {e}) \ {e} = S /\ IsFiniteSet(S \cup {e})
    BY FS_AddElement
<1> QED BY <1>1, SumRemove

\* Terms that are not negative: neither is the sum, and a part of it is no more
LEMMA SumMonotone ==
    ASSUME NEW S, IsFiniteSet(S), NEW w, \A x \in S : w[x] \in Nat, NEW T \in SUBSET S
    PROVE  SumFunctionOnSet(w, T) \in Nat /\ SumFunctionOnSet(w, T) <= SumFunctionOnSet(w, S)
<1> DEFINE Good == {s \in SUBSET S : \A u \in SUBSET s : SumFunctionOnSet(w, u) \in Nat /\ SumFunctionOnSet(w, u) <= SumFunctionOnSet(w, s)}
<1>0. \A U \in SUBSET S : IsFiniteSet(U) /\ SumFunctionOnSet(w, U) \in Int
    <2> SUFFICES ASSUME NEW U \in SUBSET S PROVE IsFiniteSet(U) /\ SumFunctionOnSet(w, U) \in Int
        OBVIOUS
    <2>1. IsFiniteSet(U) /\ \A x \in U : w[x] \in Int
        BY FS_Subset
    <2> QED BY <2>1, SumInt
<1>1. ASSUME NEW s \in SUBSET S, \A U \in SUBSET s : U # s => U \in Good PROVE s \in Good
    <2> SUFFICES ASSUME NEW u \in SUBSET s
                 PROVE SumFunctionOnSet(w, u) \in Nat /\ SumFunctionOnSet(w, u) <= SumFunctionOnSet(w, s)
        OBVIOUS
    <2>1. CASE s = {}
        BY <2>1, SumEmpty
    <2>2. CASE u # s
        <3>1. PICK e \in s : e \notin u
            BY <2>2
        <3>2. s \ {e} \in Good /\ u \in SUBSET (s \ {e}) /\ w[e] \in Nat
            BY <3>1, <1>1
        <3>3. SumFunctionOnSet(w, s) = w[e] + SumFunctionOnSet(w, s \ {e})
            BY <1>0, SumRemove
        <3>4. SumFunctionOnSet(w, u) \in Nat /\ SumFunctionOnSet(w, u) <= SumFunctionOnSet(w, s \ {e})
            BY <3>2
        <3> QED BY <3>2, <3>3, <3>4, <1>0
    <2>3. CASE u = s /\ s # {}
        <3>1. Chosen(s) \in s /\ s \ {Chosen(s)} \in Good /\ w[Chosen(s)] \in Nat
            BY <2>3, <1>1 DEF Chosen
        <3>2. SumFunctionOnSet(w, s) = w[Chosen(s)] + SumFunctionOnSet(w, s \ {Chosen(s)})
            BY <1>0, <2>3, SumFirst
        <3>3. SumFunctionOnSet(w, s \ {Chosen(s)}) \in Nat
            BY <3>1
        <3> QED BY <2>3, <3>1, <3>2, <3>3
    <2> QED BY <2>1, <2>2, <2>3
<1> HIDE DEF Good
<1>2. S \in Good
    BY <1>1, SubsetInduction
<1> QED BY <1>2 DEF Good
=============================================================================
