------------------------ MODULE AdaptiveTraining_proof ------------------------
(***************************************************************************)
(* What restarts of an adaptive training stage cannot change, for every    *)
(* list of requests, capacity, block size, set of faults and number of     *)
(* sessions: the frozen q, the profile-to-slot assignment and the blocks.  *)
(***************************************************************************)
EXTENDS AdaptiveTraining, FiniteSetTheorems, SequenceTheorems, WellFoundedInduction, TLAPS

-----------------------------------------------------------------------------
\* Numbers and ascending lists.

\* Every set of numbers with a member has a least one.
LEMMA LeastMember ==
    ASSUME NEW S, S \subseteq Nat, S # {}
    PROVE  \E c \in S : \A d \in S : c <= d
<1> DEFINE Less == {ss \in Nat \X Nat : ss[1] < ss[2]}
<1>1. IsWellFoundedOn(Less, Nat)
    <2>1. OpToRel(<, Nat) = Less
        BY DEF OpToRel
    <2> QED BY <2>1, NatLessThanWellFounded, Zenon
<1>2. PICK c \in S : \A d \in S : ~ (<<d, c>> \in Less)
    <2> HIDE DEF Less
    <2> QED BY <1>1, WFMin, Zenon
<1>3. \A m, n \in Nat : m < n => <<m, n>> \in Less
    OBVIOUS
<1>4. \A d \in S : ~ (d < c)
    <2> HIDE DEF Less
    <2> QED BY <1>2, <1>3, Zenon
<1> QED BY <1>4

\* Induction up to a bound, for the members of a set.
LEMMA Stepwise ==
    ASSUME NEW M \in Nat, NEW S, 0 \in S, \A k \in 0 .. M - 1 : k \in S => k + 1 \in S
    PROVE  \A k \in 0 .. M : k \in S
<1> DEFINE missing == {k \in 0 .. M : k \notin S}
<1>1. SUFFICES ASSUME missing # {} PROVE FALSE
    OBVIOUS
<1>2. missing \subseteq Nat
    OBVIOUS
<1>3. PICK c \in missing : \A d \in missing : c <= d
    <2> HIDE DEF missing
    <2> QED BY <1>1, <1>2, LeastMember
<1>4. c # 0 /\ c - 1 \in 0 .. M - 1
    BY <1>3
<1>5. c - 1 \in S
    BY <1>3, <1>4
<1> QED BY <1>3, <1>4, <1>5

Ascending(s, S) == ToSet(s) = S /\ \A i, k \in DOMAIN s : i < k => s[i] < s[k]

\* Every finite set of numbers can be listed in ascending order ...
LEMMA SortedExists ==
    ASSUME NEW S \in SUBSET Nat, IsFiniteSet(S)
    PROVE  \E s \in [1 .. Cardinality(S) -> S] : Ascending(s, S)
<1> DEFINE listed == {n \in Nat : \A R \in SUBSET Nat : IsFiniteSet(R) /\ Cardinality(R) = n
                                    => \E s \in [1 .. n -> R] : Ascending(s, R)}
<1>1. 0 \in listed
    <2> SUFFICES ASSUME NEW R \in SUBSET Nat, IsFiniteSet(R), Cardinality(R) = 0
                 PROVE  \E s \in [1 .. 0 -> R] : Ascending(s, R)
        OBVIOUS
    <2>1. R = {}
        BY FS_EmptySet
    <2>2. <<>> \in [1 .. 0 -> R] /\ Ascending(<<>>, R)
        BY <2>1 DEF Ascending, ToSet
    <2> QED BY <2>2
<1>2. ASSUME NEW n \in Nat, n \in listed
      PROVE  n + 1 \in listed
    <2> SUFFICES ASSUME NEW R \in SUBSET Nat, IsFiniteSet(R), Cardinality(R) = n + 1
                 PROVE  \E s \in [1 .. n + 1 -> R] : Ascending(s, R)
        OBVIOUS
    <2>1. R # {}
        BY FS_EmptySet
    <2>2. PICK low \in R : \A m \in R : low <= m
        BY <2>1, LeastMember
    <2> DEFINE rest == R \ {low}
    <2>3. IsFiniteSet(rest) /\ Cardinality(rest) = n /\ rest \in SUBSET Nat
        BY FS_RemoveElement
    <2>4. PICK t \in [1 .. n -> rest] : Ascending(t, rest)
        BY <1>2, <2>3
    <2> DEFINE s == [i \in 1 .. n + 1 |-> IF i = 1 THEN low ELSE t[i - 1]]
    <2>5. s \in [1 .. n + 1 -> R]
        OBVIOUS
    <2>6. ToSet(s) = R
        <3>1. \A m \in rest : \E i \in 1 .. n : t[i] = m
            BY <2>4 DEF Ascending, ToSet
        <3>2. ASSUME NEW m \in rest PROVE \E i \in 1 .. n + 1 : s[i] = m
            <4>1. PICK i \in 1 .. n : t[i] = m
                BY <3>1
            <4>2. i + 1 \in 1 .. n + 1 /\ s[i + 1] = m
                BY <4>1
            <4> QED BY <4>2
        <3>3. s[1] = low /\ 1 \in 1 .. n + 1
            OBVIOUS
        <3>4. \A m \in R : \E i \in 1 .. n + 1 : s[i] = m
            BY <3>2, <3>3
        <3>5. DOMAIN s = 1 .. n + 1 /\ \A i \in 1 .. n + 1 : s[i] \in R
            BY <2>5
        <3> HIDE DEF s
        <3> QED BY <3>4, <3>5 DEF ToSet
    <2>7. ASSUME NEW i \in 1 .. n + 1, NEW k \in 1 .. n + 1, i < k PROVE s[i] < s[k]
        <3>1. k - 1 \in 1 .. n /\ s[k] = t[k - 1] /\ t[k - 1] \in rest
            BY <2>4, <2>7
        <3>2. CASE i = 1
            <4>1. s[i] = low
                BY <3>2
            <4>2. low \in Nat /\ t[k - 1] \in Nat /\ low <= t[k - 1] /\ low # t[k - 1]
                BY <2>2, <3>1
            <4> HIDE DEF s
            <4> QED BY <3>1, <4>1, <4>2
        <3>3. CASE i # 1
            <4>1. i - 1 \in 1 .. n /\ s[i] = t[i - 1] /\ i - 1 < k - 1
                BY <2>7, <3>3
            <4> QED BY <2>4, <3>1, <4>1 DEF Ascending
        <3> QED BY <3>2, <3>3
    <2>8. Ascending(s, R)
        BY <2>6, <2>7 DEF Ascending
    <2> QED BY <2>5, <2>8
<1>3. Cardinality(S) \in listed
    <2> HIDE DEF listed
    <2>1. Cardinality(S) \in Nat
        BY FS_CardinalityType
    <2>2. \A k \in 0 .. Cardinality(S) : k \in listed
        BY <1>1, <1>2, <2>1, Stepwise
    <2> QED BY <2>1, <2>2
<1> QED BY <1>3

\* ... and Sorted lists it so, with each member once.
LEMMA SortedLists ==
    ASSUME NEW S \in SUBSET Nat, IsFiniteSet(S)
    PROVE  /\ Sorted(S) \in Seq(S) /\ ToSet(Sorted(S)) = S
           /\ Len(Sorted(S)) = Cardinality(S)
           /\ S = {} => Sorted(S) = <<>>
<1>1. Sorted(S) \in [1 .. Cardinality(S) -> S] /\ ToSet(Sorted(S)) = S
    BY SortedExists DEF Sorted, Ascending
<1>2. Cardinality(S) \in Nat
    BY FS_CardinalityType
<1>3. Sorted(S) \in Seq(S) /\ Len(Sorted(S)) = Cardinality(S)
    BY <1>1, <1>2
<1>4. S = {} => Sorted(S) = <<>>
    BY <1>1, <1>3, FS_EmptySet
<1> QED BY <1>1, <1>3, <1>4

-----------------------------------------------------------------------------
\* The assignment of an uninterrupted search.

Requested == UNION {Requests[i] : i \in DOMAIN Requests}
N == Len(Requests)

LEMMA RequestsAreFinite ==
    /\ N \in Nat /\ DOMAIN Requests = 1 .. N
    /\ Capacity \in Nat /\ ChunkSize \in Nat /\ Capacity >= 1 /\ ChunkSize >= 1
    /\ Requested \in SUBSET Nat /\ 0 \notin Requested
    /\ IsFiniteSet(Requested) /\ Cardinality(Requested) <= Capacity
    /\ \A k \in 1 .. N : Requests[k] \subseteq Requested
    /\ \A R \in SUBSET Requested : R \in SUBSET Nat /\ IsFiniteSet(R)
<1>1. N \in Nat /\ DOMAIN Requests = 1 .. N
    BY TrainingAssumption DEF N
<1>2. \A k \in 1 .. N : Requests[k] \in SUBSET (Nat \ {0})
    BY TrainingAssumption DEF N
<1>3. /\ Requested \in SUBSET Nat /\ 0 \notin Requested
      /\ \A k \in 1 .. N : Requests[k] \subseteq Requested
    BY <1>1, <1>2 DEF Requested
<1>4. IsFiniteSet(Requested) /\ Cardinality(Requested) \in 1 .. Capacity
    BY TrainingAssumption DEF Requested
<1>5. \A R \in SUBSET Requested : R \in SUBSET Nat /\ IsFiniteSet(R)
    BY <1>3, <1>4, FS_Subset
<1>6. Capacity \in Nat /\ ChunkSize \in Nat /\ Capacity >= 1 /\ ChunkSize >= 1
    BY TrainingAssumption
<1> QED BY <1>1, <1>3, <1>4, <1>5, <1>6

\* Upto is a function that obeys its recursive definition.
After(g, k) == IF k = 0 THEN <<>> ELSE g[k - 1] \o Sorted(Requests[k] \ ToSet(g[k - 1]))

LEMMA UptoUnfolds == Upto = [k \in 0 .. N |-> After(Upto, k)]
<1> DEFINE Partial(g, n) == \A k \in 0 .. n : g[k] = After(g, k)
           reached == {n \in 0 .. N : \E g : Partial(g, n)}
<1>1. N \in Nat
    BY RequestsAreFinite
<1>2. 0 \in reached
    <2>1. Partial([k \in {0} |-> <<>>], 0)
        BY DEF After
    <2> QED BY <1>1, <2>1
<1>3. ASSUME NEW n \in 0 .. N - 1, n \in reached PROVE n + 1 \in reached
    <2>1. PICK g : Partial(g, n)
        BY <1>3
    <2> DEFINE h == [k \in 0 .. n + 1 |-> IF k <= n THEN g[k] ELSE After(g, n + 1)]
    <2>2. \A k \in 0 .. n : h[k] = g[k]
        OBVIOUS
    <2>3. h[n + 1] = After(g, n + 1)
        OBVIOUS
    <2> HIDE DEF h
    <2>4. ASSUME NEW k \in 0 .. n + 1 PROVE h[k] = After(h, k)
        <3>1. CASE k = 0
            <4>1. 0 \in 0 .. n
                BY <1>1
            <4>2. g[0] = After(g, 0) /\ h[0] = g[0]
                BY <2>1, <2>2, <4>1
            <4> QED BY <3>1, <4>2, Zenon DEF After
        <3>2. CASE k \in 1 .. n
            <4>1. k - 1 \in 0 .. n /\ k \in 0 .. n /\ k # 0
                BY <3>2
            <4>2. g[k] = After(g, k) /\ h[k] = g[k] /\ h[k - 1] = g[k - 1]
                BY <2>1, <2>2, <4>1
            <4> QED BY <4>1, <4>2, Zenon DEF After
        <3>3. CASE k = n + 1
            <4>1. k - 1 \in 0 .. n /\ k # 0
                BY <3>3
            <4>2. h[k - 1] = g[k - 1]
                BY <2>2, <4>1
            <4> QED BY <2>3, <3>3, <4>1, <4>2, Zenon DEF After
        <3> QED BY <3>1, <3>2, <3>3
    <2>5. Partial(h, n + 1)
        BY <2>4
    <2> HIDE DEF Partial
    <2> QED BY <1>1, <2>5
<1>4. PICK g : Partial(g, N)
    <2> HIDE DEF reached
    <2>1. N \in reached
        BY <1>1, <1>2, <1>3, Stepwise
    <2> QED BY <2>1 DEF reached
<1> DEFINE f == [k \in 0 .. N |-> g[k]]
<1>5. \A k \in 0 .. N : f[k] = g[k]
    OBVIOUS
<1>6. ASSUME NEW k \in 0 .. N PROVE g[k] = After(f, k)
    <2>1. CASE k = 0
        BY <1>4, <2>1 DEF After
    <2>2. CASE k # 0
        <3>1. k - 1 \in 0 .. N
            BY <1>1, <2>2
        <3>2. g[k] = After(g, k) /\ f[k - 1] = g[k - 1]
            BY <1>4, <1>5, <3>1
        <3> HIDE DEF f
        <3> QED BY <2>2, <3>2, Zenon DEF After
    <2> QED BY <2>1, <2>2
<1>7. f = [k \in 0 .. N |-> After(f, k)]
    BY <1>6
<1> HIDE DEF f
<1>8. Upto = CHOOSE u : u = [k \in 0 .. N |-> After(u, k)]
    BY Zenon DEF Upto, After, N
<1> QED BY <1>7, <1>8, Zenon

\* What a joined list holds.
LEMMA JoinedLists ==
    ASSUME NEW S, NEW s \in Seq(S), NEW t \in Seq(S)
    PROVE  /\ s \o t \in Seq(S) /\ Len(s \o t) = Len(s) + Len(t)
           /\ ToSet(s \o t) = ToSet(s) \cup ToSet(t)
           /\ \A i \in 1 .. Len(s) : (s \o t)[i] = s[i]
           /\ s \o <<>> = s
<1>1. s \o t \in Seq(S) /\ Len(s \o t) = Len(s) + Len(t)
    OBVIOUS
<1>2. \A i \in 1 .. Len(s) : (s \o t)[i] = s[i]
    OBVIOUS
<1>3. \A i \in 1 .. Len(t) : (s \o t)[Len(s) + i] = t[i]
    OBVIOUS
<1>4. ASSUME NEW i \in 1 .. Len(s) + Len(t)
      PROVE  (s \o t)[i] \in ToSet(s) \cup ToSet(t)
    <2>1. CASE i <= Len(s)
        BY <1>2, <2>1 DEF ToSet
    <2>2. CASE i > Len(s)
        <3>1. i - Len(s) \in 1 .. Len(t) /\ (s \o t)[i] = t[i - Len(s)]
            BY <2>2
        <3> QED BY <3>1 DEF ToSet
    <2> QED BY <2>1, <2>2
<1>5. ASSUME NEW x \in ToSet(s) \cup ToSet(t)
      PROVE  \E i \in 1 .. Len(s) + Len(t) : (s \o t)[i] = x
    <2>1. CASE x \in ToSet(s)
        <3>1. PICK i \in 1 .. Len(s) : s[i] = x
            BY <2>1 DEF ToSet
        <3>2. i \in 1 .. Len(s) + Len(t)
            OBVIOUS
        <3> QED BY <1>2, <3>1, <3>2
    <2>2. CASE x \in ToSet(t)
        <3>1. PICK i \in 1 .. Len(t) : t[i] = x
            BY <2>2 DEF ToSet
        <3>2. Len(s) + i \in 1 .. Len(s) + Len(t)
            OBVIOUS
        <3> QED BY <1>3, <3>1, <3>2
    <2> QED BY <2>1, <2>2
<1>6. ToSet(s \o t) = ToSet(s) \cup ToSet(t)
    <2> DEFINE u == s \o t
    <2>1. DOMAIN u = 1 .. Len(s) + Len(t)
        BY <1>1
    <2>2. \A i \in DOMAIN u : u[i] \in ToSet(s) \cup ToSet(t)
        BY <1>4, <2>1
    <2>3. \A x \in ToSet(s) \cup ToSet(t) : \E i \in DOMAIN u : u[i] = x
        BY <1>5, <2>1
    <2> HIDE DEF u
    <2>4. ToSet(u) = ToSet(s) \cup ToSet(t)
        BY <2>2, <2>3 DEF ToSet
    <2> QED BY <2>4 DEF u
<1>7. s \o <<>> = s
    OBVIOUS
<1> QED BY <1>1, <1>2, <1>6, <1>7

\* One request: what the list gains is exactly what it had not got, in slot order.
LEMMA UptoStep ==
    /\ Upto[0] = <<>>
    /\ \A k \in 1 .. N : Upto[k] = Upto[k - 1] \o Sorted(Requests[k] \ ToSet(Upto[k - 1]))
<1>1. N \in Nat
    BY RequestsAreFinite
<1>2. \A k \in 0 .. N : Upto[k] = After(Upto, k)
    BY UptoUnfolds, Zenon
<1>3. Upto[0] = <<>>
    <2>1. Upto[0] = After(Upto, 0)
        BY <1>1, <1>2
    <2> QED BY <2>1, Zenon DEF After
<1>4. ASSUME NEW k \in 1 .. N
      PROVE  Upto[k] = Upto[k - 1] \o Sorted(Requests[k] \ ToSet(Upto[k - 1]))
    <2>1. k \in 0 .. N /\ k # 0
        OBVIOUS
    <2>2. Upto[k] = After(Upto, k)
        BY <1>2, <2>1
    <2> QED BY <2>1, <2>2, Zenon DEF After
<1> QED BY <1>3, <1>4

\* After k requests the list holds each of their profiles once.
Holds(k) ==
    /\ Upto[k] \in Seq(Requested)
    /\ ToSet(Upto[k]) \subseteq Requested
    /\ \A i \in 1 .. k : Requests[i] \subseteq ToSet(Upto[k])
    /\ Len(Upto[k]) = Cardinality(ToSet(Upto[k]))

LEMMA UptoHolds == \A k \in 0 .. N : Holds(k)
<1> DEFINE good == {k \in 0 .. N : Holds(k)}
<1>1. N \in Nat
    BY RequestsAreFinite
<1>2. 0 \in good
    <2>1. ToSet(<<>>) = {} /\ Len(<<>>) = 0 /\ <<>> \in Seq(Requested) /\ 0 \in 0 .. N
        BY <1>1 DEF ToSet
    <2>2. Cardinality({}) = 0
        BY FS_EmptySet
    <2>3. Upto[0] = <<>>
        BY UptoStep
    <2>4. \A i \in 1 .. 0 : Requests[i] \subseteq ToSet(Upto[0])
        OBVIOUS
    <2>5. Holds(0)
        BY <2>1, <2>2, <2>3, <2>4 DEF Holds
    <2> QED BY <2>1, <2>5
<1>3. ASSUME NEW k \in 0 .. N - 1, k \in good PROVE k + 1 \in good
    <2> DEFINE old == ToSet(Upto[k])
               new == Requests[k + 1] \ old
    <2>1. k + 1 \in 1 .. N /\ (k + 1) - 1 = k
        BY <1>1
    <2>2. Upto[k + 1] = Upto[k] \o Sorted(new)
        BY <2>1, UptoStep
    <2>3. new \in SUBSET Requested /\ Requests[k + 1] \subseteq Requested
        BY <2>1, RequestsAreFinite
    <2>4. new \in SUBSET Nat /\ IsFiniteSet(new)
        <3> HIDE DEF new
        <3> QED BY <2>3, RequestsAreFinite
    <2>5. Sorted(new) \in Seq(new) /\ ToSet(Sorted(new)) = new /\ Len(Sorted(new)) = Cardinality(new)
        <3> HIDE DEF new
        <3> QED BY <2>4, SortedLists
    <2>6. Sorted(new) \in Seq(Requested)
        <3> HIDE DEF new
        <3> QED BY <2>3, <2>5
    <2>7. Upto[k] \in Seq(Requested)
        BY <1>3 DEF Holds
    <2>8. /\ Upto[k + 1] \in Seq(Requested)
          /\ Len(Upto[k + 1]) = Len(Upto[k]) + Len(Sorted(new))
          /\ ToSet(Upto[k + 1]) = old \cup ToSet(Sorted(new))
        <3> HIDE DEF new
        <3> QED BY <2>2, <2>6, <2>7, JoinedLists
    <2>9. ToSet(Upto[k + 1]) = old \cup Requests[k + 1]
        BY <2>5, <2>8
    <2>10. Len(Upto[k + 1]) = Cardinality(ToSet(Upto[k + 1]))
        <3>1. IsFiniteSet(old)
            BY <1>3, RequestsAreFinite DEF Holds
        <3>2. old \cap new = {} /\ old \cup new = ToSet(Upto[k + 1])
            BY <2>9
        <3>3. Cardinality({}) = 0 /\ Cardinality(old) \in Nat /\ Cardinality(new) \in Nat
            <4> HIDE DEF old, new
            <4> QED BY <2>4, <3>1, FS_EmptySet, FS_CardinalityType
        <3>4. Cardinality(old \cup new) = Cardinality(old) + Cardinality(new)
            <4> HIDE DEF old, new
            <4>1. Cardinality(old \cup new)
                  = Cardinality(old) + Cardinality(new) - Cardinality(old \cap new)
                BY <2>4, <3>1, FS_Union, Zenon
            <4>2. Cardinality(old \cap new) = 0
                BY <3>2, <3>3, Zenon
            <4> QED BY <3>3, <4>1, <4>2
        <3>5. Len(Upto[k]) = Cardinality(old)
            BY <1>3 DEF Holds
        <3> HIDE DEF old, new
        <3> QED BY <2>5, <2>8, <3>2, <3>4, <3>5
    <2>11. ASSUME NEW i \in 1 .. k + 1 PROVE Requests[i] \subseteq ToSet(Upto[k + 1])
        <3>1. CASE i = k + 1
            BY <2>9, <3>1
        <3>2. CASE i # k + 1
            <4>1. i \in 1 .. k
                BY <3>2
            <4>2. Requests[i] \subseteq old
                BY <1>3, <4>1 DEF Holds
            <4> QED BY <2>9, <4>2
        <3> QED BY <3>1, <3>2
    <2>12. ToSet(Upto[k + 1]) \subseteq Requested
        BY <1>3, <2>3, <2>9 DEF Holds
    <2>13. Holds(k + 1)
        <3> HIDE DEF old, new
        <3> QED BY <2>8, <2>10, <2>11, <2>12 DEF Holds
    <2> QED BY <1>1, <2>13
<1> HIDE DEF good
<1>4. \A k \in 0 .. N : k \in good
    BY <1>1, <1>2, <1>3, Stepwise
<1> QED BY <1>4 DEF good

\* No list is longer than the capacity, and none holds the padding.
LEMMA UptoFits ==
    ASSUME NEW k \in 0 .. N
    PROVE  /\ Upto[k] \in Seq(Nat) /\ Len(Upto[k]) \in 0 .. Capacity
           /\ \A i \in 1 .. Len(Upto[k]) : Upto[k][i] # Padding
           /\ Profiles(Upto[k]) = ToSet(Upto[k])
<1>1. Holds(k)
    BY UptoHolds
<1>2. IsFiniteSet(ToSet(Upto[k])) /\ Cardinality(ToSet(Upto[k])) <= Cardinality(Requested)
    BY <1>1, RequestsAreFinite, FS_Subset DEF Holds
<1>3. Cardinality(Requested) \in Nat
    BY RequestsAreFinite, FS_CardinalityType
<1>4. Len(Upto[k]) \in Nat /\ Len(Upto[k]) <= Capacity
    BY <1>1, <1>2, <1>3, RequestsAreFinite DEF Holds
<1>5. Upto[k] \in Seq(Nat)
    <2>1. Upto[k] \in Seq(Requested) /\ Requested \subseteq Nat
        BY <1>1, RequestsAreFinite DEF Holds
    <2> QED BY <2>1, SeqMonotonic
<1>6. \A i \in 1 .. Len(Upto[k]) : Upto[k][i] # Padding
    BY <1>1, RequestsAreFinite DEF Holds, Padding
<1>7. Padding \notin ToSet(Upto[k])
    BY <1>1, RequestsAreFinite DEF Holds, Padding
<1> QED BY <1>4, <1>5, <1>6, <1>7, RequestsAreFinite DEF Profiles

\* A list that has got every request so far does not change until one that brings
\* something new, and that one extends it as an uninterrupted search would.
LEMMA NextList ==
    ASSUME NEW k \in 0 .. N, NEW m \in 1 .. N,
           \A i \in 1 .. m - 1 : Requests[i] \subseteq ToSet(Upto[k])
    PROVE  \E n \in 0 .. N : /\ Upto[n] = Upto[k] \o Sorted(Requests[m] \ ToSet(Upto[k]))
                             /\ Requests[m] \subseteq ToSet(Upto[n])
<1>1. N \in Nat
    BY RequestsAreFinite
<1>2. Sorted({}) = <<>>
    BY SortedLists, FS_EmptySet
<1>3. Upto[k] \in Seq(Nat) /\ Upto[k] \o <<>> = Upto[k]
    BY UptoFits
<1>4. CASE m <= k
    <2>1. Requests[m] \subseteq ToSet(Upto[k])
        BY <1>4, UptoHolds DEF Holds
    <2>2. Requests[m] \ ToSet(Upto[k]) = {}
        BY <2>1
    <2> QED BY <1>2, <1>3, <2>1, <2>2
<1>5. CASE m > k
    <2> DEFINE same == {i \in 0 .. m - 1 : i >= k => Upto[i] = Upto[k]}
    <2>1. 0 \in same
        BY <1>1
    <2>2. ASSUME NEW i \in 0 .. (m - 1) - 1, i \in same PROVE i + 1 \in same
        <3>1. i + 1 \in 1 .. N /\ (i + 1) - 1 = i /\ i + 1 \in 0 .. m - 1 /\ i + 1 \in 1 .. m - 1
            BY <1>1
        <3>2. CASE i >= k
            <4>1. Upto[i] = Upto[k]
                BY <2>2, <3>2
            <4>2. Requests[i + 1] \ ToSet(Upto[i]) = {}
                BY <3>1, <4>1
            <4>3. Upto[i + 1] = Upto[i] \o Sorted(Requests[i + 1] \ ToSet(Upto[i]))
                BY <3>1, UptoStep
            <4>4. Upto[i + 1] = Upto[k]
                BY <1>2, <1>3, <4>1, <4>2, <4>3
            <4> QED BY <3>1, <4>4
        <3>3. CASE i < k
            <4>1. i + 1 >= k => i + 1 = k
                BY <3>3
            <4> QED BY <3>1, <4>1
        <3> QED BY <1>1, <3>2, <3>3
    <2>3. m - 1 \in same
        <3>1. m - 1 \in Nat
            BY <1>1
        <3> HIDE DEF same
        <3>2. \A i \in 0 .. m - 1 : i \in same
            BY <2>1, <2>2, <3>1, Stepwise
        <3> QED BY <3>1, <3>2
    <2>4. Upto[m - 1] = Upto[k]
        BY <1>1, <1>5, <2>3
    <2>5. Upto[m] = Upto[k] \o Sorted(Requests[m] \ ToSet(Upto[k]))
        BY <2>4, UptoStep
    <2>6. m \in 0 .. N /\ Requests[m] \subseteq ToSet(Upto[m])
        BY <1>1, UptoHolds DEF Holds
    <2> QED BY <2>5, <2>6
<1>6. m <= k \/ m > k
    BY <1>1
<1> QED BY <1>4, <1>5, <1>6, Zenon

\* t begins with s.
Begins(s, t) == Len(s) <= Len(t) /\ \A i \in 1 .. Len(s) : s[i] = t[i]

\* Later lists only add to earlier ones.
LEMMA UptoGrows ==
    ASSUME NEW k \in 0 .. N
    PROVE  \A m \in k .. N : Begins(Upto[k], Upto[m])
<1> DEFINE good == {m \in 0 .. N : m >= k => Begins(Upto[k], Upto[m])}
<1>1. N \in Nat
    BY RequestsAreFinite
<1>2. \A m \in 0 .. N : Upto[m] \in Seq(Nat) /\ Len(Upto[m]) \in Nat
    BY UptoFits
<1>3. Begins(Upto[k], Upto[k])
    BY <1>2 DEF Begins
<1>4. 0 \in good
    <2>1. 0 >= k => k = 0
        OBVIOUS
    <2> QED BY <1>1, <1>3, <2>1
<1>5. ASSUME NEW m \in 0 .. N - 1, m \in good PROVE m + 1 \in good
    <2>1. m + 1 \in 1 .. N /\ (m + 1) - 1 = m /\ m + 1 \in 0 .. N /\ m \in 0 .. N
        BY <1>1
    <2>2. CASE m >= k
        <3> DEFINE t == Sorted(Requests[m + 1] \ ToSet(Upto[m]))
        <3>1. Upto[m + 1] = Upto[m] \o t
            BY <2>1, UptoStep
        <3>2. Requests[m + 1] \ ToSet(Upto[m]) \in SUBSET Requested
            BY <2>1, RequestsAreFinite
        <3>3. t \in Seq(Nat)
            <4>1. Requests[m + 1] \ ToSet(Upto[m]) \subseteq Nat
                BY <3>2, RequestsAreFinite
            <4>2. t \in Seq(Requests[m + 1] \ ToSet(Upto[m]))
                BY <3>2, RequestsAreFinite, SortedLists
            <4> HIDE DEF t
            <4> QED BY <4>1, <4>2, SeqMonotonic
        <3> HIDE DEF t
        <3>4. /\ Len(Upto[m + 1]) = Len(Upto[m]) + Len(t) /\ Len(t) \in Nat
              /\ \A i \in 1 .. Len(Upto[m]) : Upto[m + 1][i] = Upto[m][i]
            <4>1. Upto[m] \in Seq(Nat)
                BY <1>2, <2>1
            <4>2. Len(Upto[m] \o t) = Len(Upto[m]) + Len(t)
                BY <3>3, <4>1, JoinedLists
            <4>3. \A i \in 1 .. Len(Upto[m]) : (Upto[m] \o t)[i] = Upto[m][i]
                BY <3>3, <4>1, JoinedLists
            <4>4. Len(t) \in Nat
                BY <3>3
            <4> QED BY <3>1, <4>2, <4>3, <4>4
        <3>5. Begins(Upto[k], Upto[m])
            BY <1>5, <2>2
        <3>6. Len(Upto[k]) \in Nat /\ Len(Upto[m]) \in Nat
            BY <1>2, <2>1
        <3>7. Begins(Upto[k], Upto[m + 1])
            BY <3>4, <3>5, <3>6 DEF Begins
        <3> QED BY <2>1, <3>7
    <2>3. CASE m < k
        <3>1. m + 1 >= k => m + 1 = k
            BY <2>3
        <3> QED BY <1>3, <2>1, <3>1
    <2> QED BY <1>1, <2>2, <2>3
<1> HIDE DEF good
<1>6. \A m \in 0 .. N : m \in good
    BY <1>1, <1>4, <1>5, Stepwise
<1> QED BY <1>1, <1>6 DEF good

\* A list that has got every request is the one of the whole search.
LEMMA WholeList ==
    ASSUME NEW k \in 0 .. N, Requested \subseteq ToSet(Upto[k])
    PROVE  Upto[k] = Uninterrupted
<1>1. N \in Nat
    BY RequestsAreFinite
<1>2. Holds(k) /\ Holds(N) /\ N \in 0 .. N
    BY <1>1, UptoHolds
<1>3. ToSet(Upto[N]) = ToSet(Upto[k])
    <2>1. Requested \subseteq ToSet(Upto[N])
        BY <1>2, RequestsAreFinite DEF Holds, Requested
    <2> QED BY <1>2, <2>1 DEF Holds
<1>4. Len(Upto[N]) = Len(Upto[k])
    BY <1>2, <1>3 DEF Holds
<1>5. Begins(Upto[k], Upto[N])
    BY <1>1, UptoGrows
<1>6. Upto[k] \in Seq(Nat) /\ Upto[N] \in Seq(Nat)
    BY <1>2, UptoFits
<1>7. Upto[k] = Upto[N]
    BY <1>4, <1>5, <1>6, SeqEqual DEF Begins
<1> QED BY <1>7 DEF Uninterrupted, N

-----------------------------------------------------------------------------
\* The list of a finished search, padded to the capacity.

LEMMA PaddedLists ==
    ASSUME NEW s \in Seq(Nat), Len(s) \in 0 .. Capacity
    PROVE  /\ Padded(s) \in Seq(Nat) /\ Len(Padded(s)) = Capacity
           /\ \A i \in 1 .. Len(s) : Padded(s)[i] = s[i]
           /\ \A i \in Len(s) + 1 .. Capacity : Padded(s)[i] = Padding
           /\ Profiles(Padded(s)) = Profiles(s)
           /\ Len(s) = Capacity => Padded(s) = s
<1> DEFINE t == [i \in 1 .. Capacity - Len(s) |-> Padding]
<1>1. Len(s) \in Nat /\ Capacity \in Nat /\ Capacity - Len(s) \in Nat
    BY RequestsAreFinite
<1>2. t \in Seq(Nat) /\ Len(t) = Capacity - Len(s)
    BY <1>1 DEF Padding
<1>3. \A i \in 1 .. Len(t) : t[i] = Padding
    BY <1>2
<1>4. Padded(s) = s \o t
    BY DEF Padded
<1>5. Len(s) = Capacity => t = <<>>
    BY <1>1, <1>2
<1> HIDE DEF t
<1>6. /\ s \o t \in Seq(Nat) /\ Len(s \o t) = Len(s) + Len(t)
      /\ ToSet(s \o t) = ToSet(s) \cup ToSet(t)
      /\ \A i \in 1 .. Len(s) : (s \o t)[i] = s[i]
      /\ s \o <<>> = s
    BY <1>2, JoinedLists
<1>7. Len(s \o t) = Capacity
    BY <1>1, <1>2, <1>6
<1>8. ASSUME NEW i \in Len(s) + 1 .. Capacity PROVE (s \o t)[i] = Padding
    <2>1. i - Len(s) \in 1 .. Len(t)
        BY <1>1, <1>2
    <2>2. (s \o t)[i] = t[i - Len(s)]
        BY <1>1, <1>2, <2>1
    <2> QED BY <1>3, <2>1, <2>2
<1>9. ToSet(t) \subseteq {Padding}
    BY <1>2, <1>3 DEF ToSet
<1>10. Profiles(s \o t) = Profiles(s)
    BY <1>6, <1>9 DEF Profiles
<1> QED BY <1>4, <1>5, <1>6, <1>7, <1>8, <1>10, Zenon

\* An assignment list as it may stand in a checkpoint: of some number of requests, and
\* padded when the search has ended.
Listed(s, f) ==
    /\ f \in BOOLEAN
    /\ \E k \in 0 .. N : s = IF f THEN Padded(Upto[k]) ELSE Upto[k]

\* Both forms hold the same profiles, and padding them gives the same list.
LEMMA ListedForms ==
    ASSUME NEW s, NEW f, Listed(s, f)
    PROVE  \E k \in 0 .. N : /\ s = IF f THEN Padded(Upto[k]) ELSE Upto[k]
                             /\ s \in Seq(Nat) /\ Len(s) \in 0 .. Capacity
                             /\ Profiles(s) = ToSet(Upto[k])
                             /\ Padded(s) = Padded(Upto[k])
                             /\ f => Padded(s) = s
                             /\ s \o <<>> = s
<1>1. PICK k \in 0 .. N : s = IF f THEN Padded(Upto[k]) ELSE Upto[k]
    BY DEF Listed
<1>2. /\ Upto[k] \in Seq(Nat) /\ Len(Upto[k]) \in 0 .. Capacity
      /\ Profiles(Upto[k]) = ToSet(Upto[k])
    BY UptoFits
<1>3. /\ Padded(Upto[k]) \in Seq(Nat) /\ Len(Padded(Upto[k])) = Capacity
      /\ Profiles(Padded(Upto[k])) = Profiles(Upto[k])
    BY <1>2, PaddedLists
<1>4. Len(Padded(Upto[k])) \in 0 .. Capacity
    BY <1>3, RequestsAreFinite
<1>5. Padded(Padded(Upto[k])) = Padded(Upto[k])
    BY <1>3, <1>4, PaddedLists
<1>6. \A u \in Seq(Nat) : u \o <<>> = u
    OBVIOUS
<1>7. CASE f
    BY <1>1, <1>2, <1>3, <1>4, <1>5, <1>6, <1>7, Zenon
<1>8. CASE ~f
    BY <1>1, <1>2, <1>6, <1>8, Zenon
<1> QED BY <1>7, <1>8, Zenon

\* Dropping the padding gives the list back.
LEMMA PaddingDropped ==
    ASSUME NEW k \in 0 .. N, slots = Padded(Upto[k])
    PROVE  Solved = Upto[k]
<1>1. /\ Upto[k] \in Seq(Nat) /\ Len(Upto[k]) \in 0 .. Capacity
      /\ \A i \in 1 .. Len(Upto[k]) : Upto[k][i] # Padding
    BY UptoFits
<1>2. /\ slots \in Seq(Nat) /\ Len(slots) = Capacity
      /\ \A i \in 1 .. Len(Upto[k]) : slots[i] = Upto[k][i]
      /\ \A i \in Len(Upto[k]) + 1 .. Capacity : slots[i] = Padding
    BY <1>1, PaddedLists
<1>3. Len(Upto[k]) \in Nat /\ Capacity \in Nat /\ Len(Upto[k]) <= Capacity
    BY <1>1, RequestsAreFinite
<1>4. DOMAIN slots = 1 .. Capacity
    BY <1>2
<1>5. {i \in DOMAIN slots : slots[i] # Padding} = 1 .. Len(Upto[k])
    <2>1. ASSUME NEW i \in 1 .. Capacity, slots[i] # Padding PROVE i \in 1 .. Len(Upto[k])
        <3>1. i \notin Len(Upto[k]) + 1 .. Capacity
            BY <1>2, <2>1
        <3> QED BY <1>3, <3>1
    <2>2. ASSUME NEW i \in 1 .. Len(Upto[k]) PROVE i \in 1 .. Capacity /\ slots[i] # Padding
        BY <1>1, <1>2, <1>3
    <2> QED BY <1>4, <2>1, <2>2
<1>6. Solved = [i \in 1 .. Len(Upto[k]) |-> slots[i]]
    BY <1>5, Zenon DEF Solved
<1>7. [i \in 1 .. Len(Upto[k]) |-> slots[i]] = [i \in 1 .. Len(Upto[k]) |-> Upto[k][i]]
    BY <1>2, Zenon
<1>8. Upto[k] = [i \in 1 .. Len(Upto[k]) |-> Upto[k][i]]
    BY <1>1
<1> QED BY <1>6, <1>7, <1>8, Zenon

\* The list of an interrupted search is the beginning of that of the whole one.
LEMMA ListsBegin ==
    ASSUME NEW k \in 0 .. N
    PROVE  /\ Uninterrupted \in Seq(Nat) /\ Len(Uninterrupted) \in 0 .. Capacity
           /\ Begins(Upto[k], Padded(Uninterrupted))
           /\ Begins(Padded(Uninterrupted), Padded(Uninterrupted))
<1>1. N \in 0 .. N /\ N \in k .. N
    BY RequestsAreFinite
<1>2. Uninterrupted \in Seq(Nat) /\ Len(Uninterrupted) \in 0 .. Capacity
    BY <1>1, UptoFits DEF Uninterrupted, N
<1>3. Begins(Upto[k], Uninterrupted)
    BY <1>1, UptoGrows DEF Uninterrupted, N
<1>4. /\ Len(Padded(Uninterrupted)) = Capacity
      /\ \A i \in 1 .. Len(Uninterrupted) : Padded(Uninterrupted)[i] = Uninterrupted[i]
    BY <1>2, PaddedLists
<1>5. Len(Upto[k]) \in Nat /\ Capacity \in Nat
    BY UptoFits, RequestsAreFinite
<1>6. Begins(Upto[k], Padded(Uninterrupted))
    BY <1>2, <1>3, <1>4, <1>5 DEF Begins
<1>7. Begins(Padded(Uninterrupted), Padded(Uninterrupted))
    BY <1>4, <1>5 DEF Begins
<1> QED BY <1>2, <1>6, <1>7

LEMMA PrefixBegins ==
    ASSUME NEW s \in Seq(Nat), NEW t \in Seq(Nat), Begins(s, t)
    PROVE  IsPrefix(s, t)
<1>1. Len(s) \in Nat /\ Len(t) \in Nat /\ Len(s) <= Len(t)
    BY DEF Begins
<1>2. /\ SubSeq(s, 1, Len(s)) \in Seq(Nat) /\ SubSeq(t, 1, Len(s)) \in Seq(Nat)
      /\ Len(SubSeq(s, 1, Len(s))) = Len(s) /\ Len(SubSeq(t, 1, Len(s))) = Len(s)
      /\ \A i \in 1 .. Len(s) : SubSeq(s, 1, Len(s))[i] = s[i] /\ SubSeq(t, 1, Len(s))[i] = t[i]
    BY <1>1
<1>3. \A i \in 1 .. Len(s) : SubSeq(s, 1, Len(s))[i] = SubSeq(t, 1, Len(s))[i]
    BY <1>2 DEF Begins
<1>4. SubSeq(s, 1, Len(s)) = SubSeq(t, 1, Len(s))
    BY <1>2, <1>3, SeqEqual
<1> QED BY <1>1, <1>4 DEF IsPrefix

\* A block of a list that reaches to its end is that block of any list it begins.
LEMMA BlocksBegin ==
    ASSUME NEW s \in Seq(Nat), NEW t \in Seq(Nat), Begins(s, t),
           NEW b \in Blocks, Stop(b) <= Len(s)
    PROVE  Slice(s, b) = Slice(t, b)
<1>1. Len(s) \in Nat /\ Len(t) \in Nat /\ Len(s) <= Len(t)
    BY DEF Begins
<1>2. Start(b) \in Nat /\ Start(b) >= 1 /\ Stop(b) \in Nat
    <2>1. b \in Int /\ b >= 1
        BY DEF Blocks
    <2>2. ChunkSize \in Nat /\ Capacity \in Nat
        BY RequestsAreFinite
    <2>3. b * ChunkSize \in Nat /\ (b - 1) * ChunkSize \in Nat
        BY <2>1, <2>2
    <2> QED BY <2>2, <2>3 DEF Start, Stop
<1>3. \A i \in Start(b) .. Stop(b) : s[i] = t[i]
    BY <1>1, <1>2 DEF Begins
<1> DEFINE m == Start(b)
           n == Stop(b)
<1>4. ASSUME NEW u \in Seq(Nat), n <= Len(u)
      PROVE  /\ SubSeq(u, m, n) \in Seq(Nat)
             /\ Len(SubSeq(u, m, n)) = IF m <= n THEN n - m + 1 ELSE 0
             /\ \A i \in 1 .. n - m + 1 : SubSeq(u, m, n)[i] = u[m + i - 1]
    <2>1. m \in Nat /\ m >= 1 /\ n \in Nat
        BY <1>2
    <2> HIDE DEF m, n
    <2>2. m \in 1 .. Len(u) + 1 \/ m > n
        BY <1>4, <2>1
    <2>3. n \in m - 1 .. Len(u) \/ m > n
        BY <1>4, <2>1
    <2> QED BY <1>4, <2>1, <2>2, <2>3
<1>5. /\ SubSeq(s, m, n) \in Seq(Nat) /\ SubSeq(t, m, n) \in Seq(Nat)
      /\ Len(SubSeq(s, m, n)) = Len(SubSeq(t, m, n))
    BY <1>1, <1>2, <1>4
<1>6. ASSUME NEW i \in 1 .. Len(SubSeq(s, m, n))
      PROVE  SubSeq(s, m, n)[i] = SubSeq(t, m, n)[i]
    <2>1. n <= Len(s) /\ n <= Len(t) /\ m \in Nat /\ n \in Nat
        BY <1>1, <1>2
    <2>2. Len(SubSeq(s, m, n)) = IF m <= n THEN n - m + 1 ELSE 0
        BY <1>4, <2>1
    <2>3. i \in 1 .. n - m + 1 /\ m + i - 1 \in m .. n
        <3> HIDE DEF m, n
        <3> QED BY <1>6, <2>1, <2>2
    <2>4. SubSeq(s, m, n)[i] = s[m + i - 1] /\ SubSeq(t, m, n)[i] = t[m + i - 1]
        BY <1>4, <2>1, <2>3
    <2>5. s[m + i - 1] = t[m + i - 1]
        BY <1>3, <2>3
    <2> QED BY <2>4, <2>5, Zenon
<1>7. SubSeq(s, m, n) = SubSeq(t, m, n)
    <2> HIDE DEF m, n
    <2> QED BY <1>5, <1>6, SeqEqual
<1> QED BY <1>7 DEF Slice

-----------------------------------------------------------------------------
\* The frozen q, on any host.

\* What is written as the assignment, in memory, on the disk and in the remote store.
Lists ==
    /\ Listed(slots, final)
    /\ Listed(file.slots, file.final)
    /\ Listed(digest.slots, digest.final)
    /\ Listed(pointer.digest.slots, pointer.digest.final)

\* What the runner has got from the search so far.
Running ==
    runner # "off" => worker = "command" /\ known \subseteq Profiles(slots) /\ turn \in Nat \ {0}
Searching ==
    runner \in {"search", "simulate", "record"} =>
        /\ result = None
        /\ \A i \in 1 .. N : i < turn => Requests[i] \subseteq known
Answering ==
    /\ runner \in {"simulate", "record"} => turn <= N /\ Requests[turn] \subseteq Profiles(slots)
    /\ runner = "record" => Requests[turn] \subseteq known
Ending ==
    /\ runner \in {"finalize", "fill"} /\ result = None => Requested \subseteq Profiles(slots)
    /\ runner = "fill" => final

Memory == Running /\ Searching /\ Answering /\ Ending
FreezeInv == Lists /\ Memory /\ QIsFrozen

\* Nothing has been assigned yet.
LEMMA EmptyListed == Listed(<<>>, FALSE)
<1>1. 0 \in 0 .. N /\ Upto[0] = <<>>
    BY UptoStep, RequestsAreFinite
<1> QED BY <1>1 DEF Listed

LEMMA FreezeInit == Init => FreezeInv
<1> SUFFICES ASSUME Init PROVE FreezeInv
    OBVIOUS
<1>1. slots = <<>> /\ final = FALSE /\ runner = "off"
    BY DEF Init
<1>2. file = Absent /\ digest = Absent /\ pointer.digest = Absent
    BY DEF Init
<1>3. Absent.slots = <<>> /\ Absent.final = FALSE
    BY DEF Absent
<1>5. Lists
    BY <1>1, <1>2, <1>3, EmptyListed DEF Lists
<1>6. Memory
    BY <1>1 DEF Memory, Running, Searching, Answering, Ending
<1>7. QIsFrozen
    BY DEF Init, QIsFrozen
<1> QED BY <1>5, <1>6, <1>7 DEF FreezeInv

\* The slots that an assignment adds, and what it holds then.
LEMMA AssignLists ==
    ASSUME FreezeInv, Assign, runner' = "simulate"
    PROVE  /\ Listed(slots', final) /\ slots' = slots \o Sorted(Unassigned)
           /\ Profiles(slots) \subseteq Profiles(slots')
           /\ Requests[turn] \subseteq Profiles(slots')
           /\ final => Unassigned = {}
           /\ Unassigned = {} => slots' = slots
<1>1. PICK k \in 0 .. N :
        /\ slots = IF final THEN Padded(Upto[k]) ELSE Upto[k]
        /\ slots \in Seq(Nat) /\ Len(slots) \in 0 .. Capacity
        /\ Profiles(slots) = ToSet(Upto[k])
        /\ Padded(slots) = Padded(Upto[k])
        /\ final => Padded(slots) = slots
        /\ slots \o <<>> = slots
    <2>1. Listed(slots, final)
        BY DEF FreezeInv, Lists
    <2> QED BY <2>1, ListedForms
<1>2. runner = "search" /\ turn <= N /\ turn \in 1 .. N
    <2>1. runner = "search" /\ turn <= N
        BY DEF Assign, N
    <2> QED BY <2>1, RequestsAreFinite DEF FreezeInv, Memory, Running
<1>3. /\ ~(final /\ Unassigned # {})
      /\ slots' = slots \o Sorted(Unassigned)
    <2>1. ~(final /\ Unassigned # {})
        BY DEF Assign, Fails
    <2> QED BY <2>1 DEF Assign
<1>4. Unassigned = Requests[turn] \ ToSet(Upto[k])
    BY <1>1, <1>2 DEF Unassigned, Asked, FreezeInv, Memory, Running
<1>5. \A i \in 1 .. turn - 1 : Requests[i] \subseteq ToSet(Upto[k])
    BY <1>1, <1>2, RequestsAreFinite DEF FreezeInv, Memory, Running, Searching
<1>6. PICK n \in 0 .. N : /\ Upto[n] = Upto[k] \o Sorted(Requests[turn] \ ToSet(Upto[k]))
                          /\ Requests[turn] \subseteq ToSet(Upto[n])
    BY <1>2, <1>5, NextList
<1>7. Sorted({}) = <<>>
    BY SortedLists, FS_EmptySet
<1>8. CASE Unassigned = {}
    <2>1. slots' = slots
        BY <1>1, <1>3, <1>7, <1>8, Zenon
    <2>2. Requests[turn] \subseteq Profiles(slots)
        BY <1>1, <1>4, <1>8
    <2>3. Listed(slots, final)
        BY DEF FreezeInv, Lists
    <2> QED BY <1>3, <1>8, <2>1, <2>2, <2>3
<1>9. CASE Unassigned # {}
    <2>1. ~final /\ slots = Upto[k]
        BY <1>1, <1>3, <1>9
    <2>2. slots' = Upto[n]
        BY <1>3, <1>4, <1>6, <2>1
    <2>3. final = FALSE
        BY <2>1 DEF FreezeInv, Lists, Listed
    <2>4. Listed(slots', final)
        BY <2>2, <2>3 DEF Listed
    <2>5. Profiles(slots') = ToSet(Upto[n])
        BY <2>2, UptoFits
    <2>6. ToSet(Upto[k]) \subseteq ToSet(Upto[n])
        <3>1. Requests[turn] \ ToSet(Upto[k]) \in SUBSET Requested
            BY <1>2, RequestsAreFinite
        <3>2. Sorted(Requests[turn] \ ToSet(Upto[k])) \in Seq(Nat)
            <4>1. Requests[turn] \ ToSet(Upto[k]) \subseteq Nat
                BY <3>1, RequestsAreFinite
            <4>2. Sorted(Requests[turn] \ ToSet(Upto[k])) \in Seq(Requests[turn] \ ToSet(Upto[k]))
                BY <3>1, RequestsAreFinite, SortedLists
            <4> QED BY <4>1, <4>2, SeqMonotonic
        <3>3. Upto[k] \in Seq(Nat)
            BY UptoFits
        <3> DEFINE t == Sorted(Requests[turn] \ ToSet(Upto[k]))
        <3>4. ToSet(Upto[k] \o t) = ToSet(Upto[k]) \cup ToSet(t)
            <4> HIDE DEF t
            <4> QED BY <3>2, <3>3, JoinedLists DEF t
        <3>5. Upto[n] = Upto[k] \o t
            BY <1>6
        <3> HIDE DEF t
        <3> QED BY <3>4, <3>5
    <2> QED BY <1>1, <1>3, <1>6, <1>9, <2>1, <2>4, <2>5, <2>6
<1> QED BY <1>8, <1>9

\* An assignment list is only ever copied, extended by Assign or padded by Finalize.
LEMMA ListsStep == FreezeInv /\ [Next]_vars => Lists'
<1> SUFFICES ASSUME FreezeInv, [Next]_vars PROVE Lists'
    OBVIOUS
<1> DEFINE lists == <<slots, final, file, digest, pointer>>
<1>1. Lists /\ Memory
    BY DEF FreezeInv
<1>2. UNCHANGED lists => Lists'
    BY <1>1 DEF Lists
<1>3. ASSUME \/ RestoreRaises \/ RestoreChunks \/ Repair \/ RepairRaises \/ RepairEnds
             \/ RequestCached \/ Simulate \/ Commit \/ Recorded \/ SearchEnds
             \/ Freeze \/ FreezeRaises \/ UploadBlock \/ StatSidecar \/ UploadSidecar
             \/ SkipSidecar \/ UploadResult \/ HeartbeatStarts \/ FullSyncStarts \/ SyncRaises
             \/ Finished
      PROVE  UNCHANGED lists
    <2>1. CASE RestoreRaises
        BY <2>1 DEF RestoreRaises, Fails, disk, remote, memory, sync, vars
    <2>2. CASE RestoreChunks
        BY <2>2 DEF RestoreChunks, Fails, disk, remote, memory, sync, vars
    <2>3. CASE Repair
        BY <2>3 DEF Repair, Fails, disk, remote, memory, sync, vars
    <2>4. CASE RepairRaises
        BY <2>4 DEF RepairRaises, Fails, disk, remote, memory, sync, vars
    <2>5. CASE RepairEnds
        BY <2>5 DEF RepairEnds, Fails, disk, remote, memory, sync, vars
    <2>6. CASE RequestCached
        BY <2>6 DEF RequestCached, Fails, disk, remote, memory, sync, vars
    <2>7. CASE Simulate
        BY <2>7 DEF Simulate, Fails, disk, remote, memory, sync, vars
    <2>8. CASE Commit
        BY <2>8 DEF Commit, Fails, disk, remote, memory, sync, vars
    <2>9. CASE Recorded
        BY <2>9 DEF Recorded, Fails, disk, remote, memory, sync, vars
    <2>10. CASE SearchEnds
        BY <2>10 DEF SearchEnds, Fails, disk, remote, memory, sync, vars
    <2>11. CASE Freeze
        BY <2>11 DEF Freeze, Fails, disk, remote, memory, sync, vars
    <2>12. CASE FreezeRaises
        BY <2>12 DEF FreezeRaises, Fails, disk, remote, memory, sync, vars
    <2>13. CASE UploadBlock
        BY <2>13 DEF UploadBlock, Fails, disk, remote, memory, sync, vars
    <2>14. CASE StatSidecar
        BY <2>14 DEF StatSidecar, Fails, disk, remote, memory, sync, vars
    <2>15. CASE UploadSidecar
        BY <2>15 DEF UploadSidecar, Fails, disk, remote, memory, sync, vars
    <2>16. CASE SkipSidecar
        BY <2>16 DEF SkipSidecar, Fails, disk, remote, memory, sync, vars
    <2>17. CASE UploadResult
        BY <2>17 DEF UploadResult, Fails, disk, remote, memory, sync, vars
    <2>18. CASE HeartbeatStarts
        BY <2>18 DEF HeartbeatStarts, Fails, disk, remote, memory, sync, vars
    <2>19. CASE FullSyncStarts
        BY <2>19 DEF FullSyncStarts, Fails, disk, remote, memory, sync, vars
    <2>20. CASE SyncRaises
        BY <2>20 DEF SyncRaises, Fails, disk, remote, memory, sync, vars
    <2>21. CASE Finished
        BY <2>21 DEF Finished, Fails, disk, remote, memory, sync, vars
    <2> QED BY <1>3, <2>1, <2>2, <2>3, <2>4, <2>5, <2>6, <2>7, <2>8, <2>9, <2>10, <2>11, <2>12, <2>13, <2>14, <2>15, <2>16, <2>17, <2>18, <2>19, <2>20, <2>21
<1>4. CASE RestoreSidecars
    <2>1. file' \in {file, pointer.digest} /\ UNCHANGED <<slots, final, digest, pointer>>
        BY <1>4 DEF RestoreSidecars, remote, memory, sync
    <2> QED BY <1>1, <2>1 DEF Lists
<1>5. CASE RunnerStarts
    <2>1. /\ file' \in {file, Whole(<<>>, FALSE)} /\ slots' = file.slots /\ final' = file.final
          /\ UNCHANGED <<digest, pointer>>
        BY <1>5 DEF RunnerStarts, remote, sync
    <2>2. Whole(<<>>, FALSE).slots = <<>> /\ Whole(<<>>, FALSE).final = FALSE
        BY DEF Whole
    <2> QED BY <1>1, <2>1, <2>2, EmptyListed DEF Lists
<1>6. CASE Assign
    <2>1. CASE runner' = "simulate"
        <3>1. Listed(slots', final)
            BY <1>6, <2>1, AssignLists
        <3>2. file' \in {file, Whole(slots', final)} /\ UNCHANGED <<final, digest, pointer>>
            BY <1>6, <2>1 DEF Assign, Fails, remote, sync
        <3>3. Whole(slots', final).slots = slots' /\ Whole(slots', final).final = final
            BY DEF Whole
        <3> QED BY <1>1, <3>1, <3>2, <3>3 DEF Lists
    <2>2. CASE runner' # "simulate"
        BY <1>2, <1>6, <2>2 DEF Assign, Fails, remote, sync
    <2> QED BY <2>1, <2>2
<1>7. CASE Finalize
    <2>1. /\ slots' = Padded(slots) /\ final' = TRUE
          /\ file' \in {file, Whole(slots', TRUE)} /\ UNCHANGED <<digest, pointer>>
        BY <1>7 DEF Finalize, remote, sync
    <2>2. Listed(slots', TRUE)
        <3>1. Listed(slots, final)
            BY <1>1 DEF Lists
        <3>2. PICK k \in 0 .. N : Padded(slots) = Padded(Upto[k])
            BY <3>1, ListedForms
        <3> QED BY <2>1, <3>2 DEF Listed
    <2>3. Whole(slots', TRUE).slots = slots' /\ Whole(slots', TRUE).final = TRUE
        BY DEF Whole
    <2> QED BY <1>1, <2>1, <2>2, <2>3 DEF Lists
<1>8. CASE DigestSidecar
    BY <1>1, <1>8 DEF DigestSidecar, disk, remote, memory, Lists
<1>9. CASE UploadPointer
    <2>1. pointer'.digest = digest /\ UNCHANGED <<slots, final, file, digest>>
        BY <1>9 DEF UploadPointer, disk, memory
    <2> QED BY <1>1, <2>1 DEF Lists
<1>10. CASE RestartKeepsDisk \/ RestartDamagesCheckpoint \/ RestartLosesDisk
    <2>1. /\ slots' = <<>> /\ final' = FALSE /\ digest' = Absent /\ pointer' = pointer
          /\ file' \in {file, Damaged, Absent}
        BY <1>10 DEF RestartKeepsDisk, RestartDamagesCheckpoint, RestartLosesDisk, Restarts,
                     disk, remote
    <2>2. /\ Damaged.slots = <<>> /\ Damaged.final = FALSE
          /\ Absent.slots = <<>> /\ Absent.final = FALSE
        BY DEF Damaged, Absent
    <2> QED BY <1>1, <2>1, <2>2, EmptyListed DEF Lists
<1>11. CASE UNCHANGED vars
    BY <1>2, <1>11 DEF vars, disk, remote, memory, sync
<1> QED BY <1>2, <1>3, <1>4, <1>5, <1>6, <1>7, <1>8, <1>9, <1>10, <1>11
        DEF Next, RestoreNext, RunnerNext, SyncNext

\* A part of a list holds only what the list holds.
LEMMA PartHolds ==
    ASSUME NEW s \in Seq(Nat), NEW m \in Nat, NEW n \in Nat, m >= 1, n <= Len(s)
    PROVE  Profiles(SubSeq(s, m, n)) \subseteq Profiles(s)
<1> DEFINE part == SubSeq(s, m, n)
<1>1. \A i \in m .. n : s[i] \in ToSet(s)
    BY DEF ToSet
<1>2. /\ part \in Seq(ToSet(s))
      /\ \A i \in 1 .. n - m + 1 : part[i] = s[m + i - 1]
    BY <1>1, SubSeqProperties
<1> HIDE DEF part
<1>3. \A i \in DOMAIN part : part[i] \in ToSet(s)
    BY <1>2
<1>4. ToSet(part) \subseteq ToSet(s)
    BY <1>3 DEF ToSet
<1> QED BY <1>4 DEF Profiles, part

\* Every block that repair loads or simulates again holds profiles of the list.
LEMMA AssignedPartHolds ==
    ASSUME slots \in Seq(Nat), NEW b \in Blocks
    PROVE  Profiles(AssignedPart(b)) \subseteq Profiles(slots)
<1>1. b \in Int /\ b >= 1 /\ ChunkSize \in Nat /\ Capacity \in Nat
    BY RequestsAreFinite DEF Blocks
<1>2. b * ChunkSize \in Nat /\ (b - 1) * ChunkSize \in Nat
    BY <1>1
<1>3. Start(b) \in Nat /\ Start(b) >= 1 /\ Stop(b) \in Nat /\ Len(slots) \in Nat
    BY <1>1, <1>2 DEF Start, Stop
<1>4. CASE Stop(b) < Len(slots)
    BY <1>3, <1>4, PartHolds DEF AssignedPart
<1>5. CASE ~(Stop(b) < Len(slots))
    BY <1>3, <1>5, PartHolds DEF AssignedPart
<1> QED BY <1>4, <1>5

\* The search loop knows what it has asked for, and leaves with everything asked for,
\* known and assigned; a stored q alone lets the runner skip it.
LEMMA MemoryStep == FreezeInv /\ [Next]_vars => Memory'
<1> SUFFICES ASSUME FreezeInv, [Next]_vars PROVE Memory'
    OBVIOUS
<1> DEFINE held == <<runner, worker, slots, final, known, turn, result>>
<1>1. Lists /\ Memory
    BY DEF FreezeInv
<1>2. UNCHANGED held => Memory'
    BY <1>1 DEF Memory, Running, Searching, Answering, Ending
<1>3. runner' = "off" => Memory'
    BY DEF Memory, Running, Searching, Answering, Ending
<1>4. slots \in Seq(Nat) /\ Profiles(Padded(slots)) = Profiles(slots)
    <2>1. Listed(slots, final)
        BY <1>1 DEF Lists
    <2>2. slots \in Seq(Nat) /\ Len(slots) \in 0 .. Capacity
        BY <2>1, ListedForms
    <2> QED BY <2>2, PaddedLists
<1>5. ASSUME \/ RestoreRaises \/ RepairRaises \/ Freeze \/ FreezeRaises \/ RestartKeepsDisk
             \/ RestartDamagesCheckpoint \/ RestartLosesDisk
      PROVE  runner' = "off"
    <2>1. CASE RestoreRaises
        BY <2>1 DEF RestoreRaises, Fails, Restarts
    <2>2. CASE RepairRaises
        BY <2>2 DEF RepairRaises, Fails, Restarts
    <2>3. CASE Freeze
        BY <2>3 DEF Freeze, Fails, Restarts
    <2>4. CASE FreezeRaises
        BY <2>4 DEF FreezeRaises, Fails, Restarts
    <2>5. CASE RestartKeepsDisk
        BY <2>5 DEF RestartKeepsDisk, Fails, Restarts
    <2>6. CASE RestartDamagesCheckpoint
        BY <2>6 DEF RestartDamagesCheckpoint, Fails, Restarts
    <2>7. CASE RestartLosesDisk
        BY <2>7 DEF RestartLosesDisk, Fails, Restarts
    <2> QED BY <1>5, <2>1, <2>2, <2>3, <2>4, <2>5, <2>6, <2>7
<1>6. ASSUME \/ UploadBlock \/ StatSidecar \/ DigestSidecar \/ UploadSidecar \/ UploadPointer
             \/ SkipSidecar \/ HeartbeatStarts \/ Commit \/ Finished
      PROVE  UNCHANGED held
    <2>1. CASE UploadBlock
        BY <2>1 DEF UploadBlock, disk, control, memory, vars
    <2>2. CASE StatSidecar
        BY <2>2 DEF StatSidecar, disk, control, memory, vars
    <2>3. CASE DigestSidecar
        BY <2>3 DEF DigestSidecar, disk, control, memory, vars
    <2>4. CASE UploadSidecar
        BY <2>4 DEF UploadSidecar, disk, control, memory, vars
    <2>5. CASE UploadPointer
        BY <2>5 DEF UploadPointer, disk, control, memory, vars
    <2>6. CASE SkipSidecar
        BY <2>6 DEF SkipSidecar, disk, control, memory, vars
    <2>7. CASE HeartbeatStarts
        BY <2>7 DEF HeartbeatStarts, disk, control, memory, vars
    <2>8. CASE Commit
        BY <2>8 DEF Commit, disk, control, memory, vars
    <2>9. CASE Finished
        BY <2>9 DEF Finished, disk, control, memory, vars
    <2> QED BY <1>6, <2>1, <2>2, <2>3, <2>4, <2>5, <2>6, <2>7, <2>8, <2>9
<1>7. CASE RestoreSidecars \/ RestoreChunks \/ FullSyncStarts
    <2>1. worker # "command" /\ runner' = runner
        BY <1>7 DEF RestoreSidecars, RestoreChunks, FullSyncStarts
    <2> QED BY <1>1, <1>3, <2>1 DEF Memory, Running
<1>8. CASE UploadResult
    <2>1. worker # "command" => runner' = "off"
        BY <1>1, <1>8 DEF UploadResult, Memory, Running
    <2>2. worker = "command" => UNCHANGED held
        BY <1>8 DEF UploadResult, disk, memory
    <2> QED BY <1>2, <1>3, <2>1, <2>2
<1>9. CASE SyncRaises
    BY <1>2, <1>3, <1>9 DEF SyncRaises, Fails, disk, control, memory
<1>10. CASE RunnerStarts
    <2>1. worker' = "command" /\ known' = {} /\ runner' = "repair" /\ turn' = 1
        BY <1>10 DEF RunnerStarts, control
    <2> QED BY <2>1 DEF Memory, Running, Searching, Answering, Ending
<1>11. CASE Repair
    <2>1. /\ worker' = worker /\ runner = "repair" /\ runner' = runner /\ slots' = slots
          /\ turn \in Blocks /\ turn' = turn + 1
          /\ known' = known \cup Profiles(AssignedPart(turn))
        BY <1>11 DEF Repair, control
    <2>2. known' \subseteq Profiles(slots')
        BY <1>1, <1>4, <2>1, AssignedPartHolds DEF Memory, Running
    <2> QED BY <1>1, <2>1, <2>2 DEF Memory, Running, Searching, Answering, Ending
<1>12. CASE RepairEnds
    <2>1. /\ runner = "repair" /\ runner' = IF result = None THEN "search" ELSE "finalize"
          /\ turn' = 1 /\ UNCHANGED <<worker, slots, known, result>>
        BY <1>12 DEF RepairEnds, disk, control
    <2> QED BY <1>1, <2>1, RequestsAreFinite DEF Memory, Running, Searching, Answering, Ending
<1>13. CASE RequestCached
    <2>1. /\ runner = "search" /\ Requests[turn] \subseteq known /\ turn' = turn + 1
          /\ UNCHANGED <<runner, worker, slots, known, result>>
        BY <1>13 DEF RequestCached, disk, control, Asked
    <2>2. turn \in Nat \ {0}
        BY <1>1, <2>1 DEF Memory, Running
    <2>3. ASSUME NEW i \in 1 .. N, i < turn + 1 PROVE Requests[i] \subseteq known
        <3>1. i < turn \/ i = turn
            BY <2>2, <2>3
        <3> QED BY <1>1, <2>1, <3>1 DEF Memory, Searching
    <2> QED BY <1>1, <2>1, <2>2, <2>3 DEF Memory, Running, Searching, Answering, Ending
<1>14. CASE Assign
    <2>1. CASE runner' = "simulate"
        <3>1. /\ runner = "search" /\ turn <= N /\ UNCHANGED <<worker, known, turn, result>>
            BY <1>14, <2>1 DEF Assign, Fails, control, N
        <3>2. Profiles(slots) \subseteq Profiles(slots') /\ Requests[turn] \subseteq Profiles(slots')
            BY <1>14, <2>1, AssignLists
        <3> QED BY <1>1, <2>1, <3>1, <3>2 DEF Memory, Running, Searching, Answering, Ending
    <2>2. CASE runner' # "simulate"
        BY <1>3, <1>14, <2>2 DEF Assign, Fails
    <2> QED BY <2>1, <2>2
<1>15. CASE Simulate
    <2>1. /\ runner = "simulate" /\ runner' = "record" /\ known' = known \cup Requests[turn]
          /\ UNCHANGED <<worker, slots, turn, result>>
        BY <1>15 DEF Simulate, disk, control
    <2> QED BY <1>1, <2>1 DEF Memory, Running, Searching, Answering, Ending
<1>16. CASE Recorded
    <2>1. /\ runner = "record" /\ runner' = "search" /\ turn' = turn + 1
          /\ UNCHANGED <<worker, slots, known, result>>
        BY <1>16 DEF Recorded, disk, control
    <2>2. turn \in Nat \ {0} /\ Requests[turn] \subseteq known
        BY <1>1, <2>1 DEF Memory, Running, Answering
    <2>3. ASSUME NEW i \in 1 .. N, i < turn + 1 PROVE Requests[i] \subseteq known
        <3>1. i < turn \/ i = turn
            BY <2>2, <2>3
        <3> QED BY <1>1, <2>1, <2>2, <3>1 DEF Memory, Searching
    <2> QED BY <1>1, <2>1, <2>2, <2>3 DEF Memory, Running, Searching, Answering, Ending
<1>17. CASE SearchEnds
    <2>1. /\ runner = "search" /\ turn > N /\ runner' = "finalize"
          /\ UNCHANGED <<worker, slots, known, turn, result>>
        BY <1>17 DEF SearchEnds, disk, control, memory, N
    <2>2. turn \in Nat
        BY <1>1, <2>1 DEF Memory, Running
    <2>3. \A i \in 1 .. N : Requests[i] \subseteq Profiles(slots)
        BY <1>1, <2>1, <2>2, RequestsAreFinite DEF Memory, Running, Searching
    <2>4. Requested \subseteq Profiles(slots)
        BY <2>3, RequestsAreFinite DEF Requested
    <2> QED BY <1>1, <2>1, <2>4 DEF Memory, Running, Searching, Answering, Ending
<1>18. CASE Finalize
    <2>1. /\ runner = "finalize" /\ runner' = "fill" /\ final' = TRUE /\ slots' = Padded(slots)
          /\ UNCHANGED <<worker, known, turn, result>>
        BY <1>18 DEF Finalize, control
    <2>2. Profiles(slots') = Profiles(slots)
        BY <1>4, <2>1
    <2> QED BY <1>1, <2>1, <2>2 DEF Memory, Running, Searching, Answering, Ending
<1>19. CASE UNCHANGED vars
    BY <1>2, <1>19 DEF vars, disk, control, memory
<1> QED BY <1>2, <1>3, <1>5, <1>6, <1>7, <1>8, <1>9, <1>10, <1>11, <1>12, <1>13, <1>14, <1>15, <1>16,
           <1>17, <1>18, <1>19
        DEF Next, RestoreNext, RunnerNext, SyncNext

\* The only action that makes a new q is Freeze, at the end of a whole search.
LEMMA FrozenStep == FreezeInv /\ [Next]_vars => QIsFrozen'
<1> SUFFICES ASSUME FreezeInv, [Next]_vars PROVE QIsFrozen'
    OBVIOUS
<1>1. QIsFrozen
    BY DEF FreezeInv
<1>2. \/ UNCHANGED <<result, remoteResult>> \/ Freeze
      \/ result' \in {None, result, remoteResult} /\ remoteResult' \in {result, remoteResult}
    <2>1. RestoreNext => result' \in {None, result, remoteResult} /\ remoteResult' \in {result, remoteResult}
        BY DEF RestoreNext, RestoreSidecars, RestoreRaises, RestoreChunks, disk, remote
    <2>2. RunnerNext /\ ~Freeze => UNCHANGED <<result, remoteResult>>
        BY DEF RunnerNext, RunnerStarts, Repair, RepairRaises, RepairEnds, RequestCached,
               Assign, Simulate, Commit, Recorded, SearchEnds, Finalize, FreezeRaises,
               disk, remote
    <2>3. SyncNext \/ HeartbeatStarts \/ FullSyncStarts \/ SyncRaises \/ Finished
          => result' \in {None, result, remoteResult} /\ remoteResult' \in {result, remoteResult}
        BY DEF SyncNext, UploadBlock, StatSidecar, DigestSidecar, UploadSidecar, UploadPointer,
               SkipSidecar, UploadResult, HeartbeatStarts, FullSyncStarts, SyncRaises, Finished,
               disk, remote, vars
    <2>4. RestartKeepsDisk \/ RestartDamagesCheckpoint \/ RestartLosesDisk
          => result' \in {None, result, remoteResult} /\ remoteResult' \in {result, remoteResult}
        BY DEF RestartKeepsDisk, RestartDamagesCheckpoint, RestartLosesDisk, Restarts,
               disk, remote
    <2>5. UNCHANGED vars => UNCHANGED <<result, remoteResult>>
        BY DEF vars, disk, remote
    <2> QED BY <2>1, <2>2, <2>3, <2>4, <2>5 DEF Next
<1>3. CASE Freeze
    <2>1. /\ runner = "fill" /\ result \in {None, Solved} /\ result' = Solved
          /\ UNCHANGED remoteResult
        BY <1>3 DEF Freeze, Filled, remote
    <2>2. CASE result = None
        <3>1. final /\ Requested \subseteq Profiles(slots) /\ Listed(slots, final)
            BY <2>1, <2>2 DEF FreezeInv, Memory, Ending, Lists
        <3>2. PICK k \in 0 .. N : slots = Padded(Upto[k]) /\ Profiles(slots) = ToSet(Upto[k])
            BY <3>1, ListedForms
        <3>3. Upto[k] = Uninterrupted
            BY <3>1, <3>2, WholeList
        <3>4. Solved = Upto[k]
            BY <3>2, PaddingDropped
        <3> QED BY <1>1, <2>1, <3>3, <3>4 DEF QIsFrozen
    <2>3. CASE result # None
        BY <1>1, <2>1, <2>3 DEF QIsFrozen
    <2> QED BY <2>2, <2>3
<1> QED BY <1>1, <1>2, <1>3 DEF QIsFrozen

\* In any case - whatever is lost, damaged or uploaded slowly - a frozen q was solved on
\* the profiles of a search that was never interrupted, here and in the remote store
\* (_run_or_load_training with ResumableTrainingPayoffCache, RUNNER_SIDECARS).
THEOREM FrozenQIsThatOfAWholeSearch == Spec => []QIsFrozen
<1>1. FreezeInv /\ [Next]_vars => FreezeInv'
    BY ListsStep, MemoryStep, FrozenStep DEF FreezeInv
<1>2. FreezeInv => QIsFrozen
    BY DEF FreezeInv
<1> QED BY FreezeInit, <1>1, <1>2, PTL DEF Spec

-----------------------------------------------------------------------------
\* The assignment and the blocks, on a host that at most loses its disk or at most
\* uploads slowly.

\* A list as an uninterrupted search would have it: its first requests, or all of them.
Kept(s, f) ==
    /\ f \in BOOLEAN
    /\ f => s = Padded(Uninterrupted)
    /\ ~f => \E k \in 0 .. N : s = Upto[k]

\* An undamaged checkpoint of such a list, or none.
Sound(c) == c = Absent \/ (c = Whole(c.slots, c.final) /\ Kept(c.slots, c.final))

Slow == "slow_upload" \in faults
Lossy == "disk_lost" \in faults

\* The running process and the checkpoint on its disk agree.
SoundFiles ==
    /\ Kept(slots, final)
    /\ Sound(file) /\ Sound(digest) /\ Sound(pointer.digest)
    /\ \A o \in object : Sound(o[1]) /\ Sound(o[2])
    /\ runner # "off" => file = Whole(slots, final)

\* A frozen q never comes without the finished assignment it was solved on.
SoundResults ==
    /\ result # None => file # Absent /\ file.final
    /\ remoteResult # None /\ file # Absent => result # None
    /\ ~Slow /\ remoteResult # None => pointer.digest # Absent /\ pointer.digest.final
    /\ ~Lossy /\ (remoteResult # None \/ pointer.digest # Absent) => file # Absent
    /\ remoteResult # None /\ worker \in {"chunks", "command"} => file # Absent

\* What a synchronization has read is still what the disk holds, unless uploads are slow.
SoundSync ==
    /\ beat \in {"digest", "object", "pointer"} => file # Absent
    /\ ~Slow /\ beat \in {"object", "pointer"} => digest = file
    /\ ~Slow /\ beat = "result" => file \in {Absent, pointer.digest}

\* Every block holds what the uninterrupted search has in those slots.
Holding(block) ==
    /\ DOMAIN block = Blocks
    /\ \A b \in Blocks : block[b] \in {None, Slice(Padded(Uninterrupted), b)}
SoundBlocks == Holding(chunk) /\ Holding(remoteChunk)

PlainInv == PlainHost => SoundFiles /\ SoundResults /\ SoundSync /\ SoundBlocks

LEMMA EmptyKept == Kept(<<>>, FALSE) /\ Sound(Absent) /\ Sound(Whole(<<>>, FALSE))
<1>1. 0 \in 0 .. N /\ Upto[0] = <<>>
    BY UptoStep, RequestsAreFinite
<1>2. Kept(<<>>, FALSE)
    BY <1>1 DEF Kept
<1>3. Whole(<<>>, FALSE).slots = <<>> /\ Whole(<<>>, FALSE).final = FALSE
    BY DEF Whole
<1> QED BY <1>2, <1>3, Zenon DEF Sound

LEMMA WholeIsSound ==
    ASSUME NEW s, NEW f, Kept(s, f)
    PROVE  /\ Sound(Whole(s, f)) /\ Whole(s, f).slots = s /\ Whole(s, f).final = f
           /\ Whole(s, f) # Absent /\ Whole(s, f).is = "whole" /\ Absent.is = "absent"
<1>1. Whole(s, f).slots = s /\ Whole(s, f).final = f /\ Whole(s, f).is = "whole"
    BY DEF Whole
<1>2. Absent.is = "absent"
    BY DEF Absent
<1>3. Whole(s, f) # Absent
    BY <1>1, <1>2
<1>4. Sound(Whole(s, f))
    BY <1>1, Zenon DEF Sound
<1> QED BY <1>1, <1>2, <1>3, <1>4

LEMMA SoundKinds ==
    ASSUME NEW c, Sound(c)
    PROVE  /\ c # Absent => /\ c = Whole(c.slots, c.final) /\ c.is = "whole"
                            /\ Kept(c.slots, c.final)
           /\ c = Absent => c.is = "absent" /\ c.slots = <<>> /\ c.final = FALSE
<1>1. c = Absent => c.is = "absent" /\ c.slots = <<>> /\ c.final = FALSE
    BY DEF Absent
<1>2. c # Absent => c = Whole(c.slots, c.final) /\ Kept(c.slots, c.final)
    BY Zenon DEF Sound
<1>3. Whole(c.slots, c.final).is = "whole"
    BY DEF Whole
<1> QED BY <1>1, <1>2, <1>3, Zenon

\* A kept list begins the padded list of the whole search.
LEMMA KeptBegins ==
    ASSUME NEW s, NEW f, Kept(s, f)
    PROVE  /\ s \in Seq(Nat) /\ Len(s) \in 0 .. Capacity
           /\ Padded(Uninterrupted) \in Seq(Nat)
           /\ Begins(s, Padded(Uninterrupted))
           /\ f => s = Padded(Uninterrupted) /\ Padded(s) = s
<1>1. 0 \in 0 .. N
    BY RequestsAreFinite
<1>2. Uninterrupted \in Seq(Nat) /\ Len(Uninterrupted) \in 0 .. Capacity
    BY <1>1, ListsBegin
<1>3. Padded(Uninterrupted) \in Seq(Nat) /\ Len(Padded(Uninterrupted)) = Capacity
    BY <1>2, PaddedLists
<1>4. Capacity \in 0 .. Capacity
    BY RequestsAreFinite
<1>5. CASE f
    <2>1. s = Padded(Uninterrupted)
        BY <1>5 DEF Kept
    <2>2. Begins(s, Padded(Uninterrupted))
        BY <1>1, <2>1, ListsBegin
    <2>3. s \in Seq(Nat) /\ Len(s) = Capacity
        BY <1>3, <2>1
    <2>4. Padded(s) = s
        BY <1>4, <2>3, PaddedLists
    <2> QED BY <1>3, <1>4, <2>1, <2>2, <2>3, <2>4
<1>6. CASE ~f
    <2>1. PICK k \in 0 .. N : s = Upto[k]
        BY <1>6 DEF Kept
    <2> QED BY <1>3, <1>6, <2>1, ListsBegin, UptoFits
<1> QED BY <1>5, <1>6

LEMMA PlainInit == Init => PlainInv
<1> SUFFICES ASSUME Init PROVE SoundFiles /\ SoundResults /\ SoundSync /\ SoundBlocks
    BY DEF PlainInv
<1>1. SoundFiles
    BY EmptyKept DEF Init, SoundFiles
<1>2. SoundResults
    BY DEF Init, SoundResults
<1>3. SoundSync
    BY DEF Init, SoundSync
<1>4. SoundBlocks
    BY DEF Init, SoundBlocks, Holding
<1> QED BY <1>1, <1>2, <1>3, <1>4

\* The faults of a plain host.
LEMMA PlainFaults ==
    ASSUME PlainHost
    PROVE  "checkpoint_damaged" \notin faults /\ ~(Slow /\ Lossy)
BY DEF PlainHost, Slow, Lossy

\* Assign extends a kept list to a kept list.
LEMMA AssignKeeps ==
    ASSUME FreezeInv, SoundFiles, Assign, runner' = "simulate"
    PROVE  Kept(slots', final) /\ file' = Whole(slots', final)
<1>1. Listed(slots', final) /\ (final => Unassigned = {}) /\ (Unassigned = {} => slots' = slots)
    BY AssignLists
<1>2. /\ runner = "search" /\ file' = IF Unassigned # {} THEN Whole(slots', final) ELSE file
    BY DEF Assign, Fails
<1>3. Kept(slots, final) /\ file = Whole(slots, final)
    BY <1>2 DEF SoundFiles
<1>4. CASE Unassigned = {}
    BY <1>1, <1>2, <1>3, <1>4
<1>5. CASE Unassigned # {}
    <2>1. final = FALSE
        BY <1>1, <1>3, <1>5 DEF Kept
    <2>2. Kept(slots', final)
        BY <1>1, <2>1 DEF Kept, Listed
    <2> QED BY <1>2, <1>5, <2>2
<1> QED BY <1>4, <1>5

\* Finalize pads the list of the whole search.
LEMMA FinalizeKeeps ==
    ASSUME FreezeInv, SoundFiles, SoundResults, Finalize
    PROVE  Kept(slots', TRUE) /\ file' = Whole(slots', TRUE) /\ final' = TRUE
<1>1. /\ runner = "finalize" /\ slots' = Padded(slots) /\ final' = TRUE
      /\ file' = IF final THEN file ELSE Whole(slots', TRUE)
    BY DEF Finalize
<1>2. Kept(slots, final) /\ file = Whole(slots, final) /\ final \in BOOLEAN
    BY <1>1 DEF SoundFiles, Kept
<1>3. CASE final
    <2>1. slots = Padded(Uninterrupted) /\ Padded(slots) = slots
        BY <1>2, <1>3, KeptBegins
    <2>2. final = TRUE
        BY <1>2, <1>3
    <2> QED BY <1>1, <1>2, <2>1, <2>2
<1>4. CASE ~final
    <2>1. file.final = final
        BY <1>2, WholeIsSound
    <2>2. result = None
        BY <1>4, <2>1 DEF SoundResults
    <2>3. Requested \subseteq Profiles(slots)
        BY <1>1, <2>2 DEF FreezeInv, Memory, Ending
    <2>4. PICK k \in 0 .. N : slots = Upto[k]
        BY <1>2, <1>4 DEF Kept
    <2>5. slots = Uninterrupted
        BY <2>3, <2>4, UptoFits, WholeList
    <2>6. Kept(slots', TRUE)
        BY <1>1, <2>5 DEF Kept
    <2> QED BY <1>1, <1>4, <2>6
<1> QED BY <1>3, <1>4

\* Every checkpoint that is written anywhere is a copy of a kept list.
LEMMA SoundFilesStep ==
    ASSUME PlainHost, FreezeInv, SoundFiles, SoundResults, [Next]_vars
    PROVE  SoundFiles'
<1> DEFINE written == <<slots, final, file, digest, pointer, object>>
<1>1. UNCHANGED written /\ (runner' = "off" \/ runner # "off") => SoundFiles'
    BY DEF SoundFiles
<1>2. runner # "off" => worker = "command"
    BY DEF FreezeInv, Memory, Running
<1>3. ASSUME \/ RestoreRaises \/ RestoreChunks \/ Repair \/ RepairRaises \/ RepairEnds
             \/ RequestCached \/ Simulate \/ Commit \/ Recorded \/ SearchEnds
             \/ Freeze \/ FreezeRaises \/ UploadBlock \/ StatSidecar \/ SkipSidecar
             \/ UploadResult \/ HeartbeatStarts \/ FullSyncStarts \/ SyncRaises \/ Finished
      PROVE  UNCHANGED written /\ (runner' = "off" \/ runner # "off")
    <2>1. CASE RestoreRaises
        BY <2>1 DEF RestoreRaises, Fails, disk, remote, control, memory, sync, vars
    <2>2. CASE RestoreChunks
        BY <2>2 DEF RestoreChunks, Fails, disk, remote, control, memory, sync, vars
    <2>3. CASE Repair
        BY <2>3 DEF Repair, Fails, disk, remote, control, memory, sync, vars
    <2>4. CASE RepairRaises
        BY <2>4 DEF RepairRaises, Fails, disk, remote, control, memory, sync, vars
    <2>5. CASE RepairEnds
        BY <2>5 DEF RepairEnds, Fails, disk, remote, control, memory, sync, vars
    <2>6. CASE RequestCached
        BY <2>6 DEF RequestCached, Fails, disk, remote, control, memory, sync, vars
    <2>7. CASE Simulate
        BY <2>7 DEF Simulate, Fails, disk, remote, control, memory, sync, vars
    <2>8. CASE Commit
        BY <2>8 DEF Commit, Fails, disk, remote, control, memory, sync, vars
    <2>9. CASE Recorded
        BY <2>9 DEF Recorded, Fails, disk, remote, control, memory, sync, vars
    <2>10. CASE SearchEnds
        BY <2>10 DEF SearchEnds, Fails, disk, remote, control, memory, sync, vars
    <2>11. CASE Freeze
        BY <2>11 DEF Freeze, Fails, disk, remote, control, memory, sync, vars
    <2>12. CASE FreezeRaises
        BY <2>12 DEF FreezeRaises, Fails, disk, remote, control, memory, sync, vars
    <2>13. CASE UploadBlock
        BY <2>13 DEF UploadBlock, Fails, disk, remote, control, memory, sync, vars
    <2>14. CASE StatSidecar
        BY <2>14 DEF StatSidecar, Fails, disk, remote, control, memory, sync, vars
    <2>15. CASE SkipSidecar
        BY <2>15 DEF SkipSidecar, Fails, disk, remote, control, memory, sync, vars
    <2>16. CASE UploadResult
        BY <2>16 DEF UploadResult, Fails, disk, remote, control, memory, sync, vars
    <2>17. CASE HeartbeatStarts
        BY <2>17 DEF HeartbeatStarts, Fails, disk, remote, control, memory, sync, vars
    <2>18. CASE FullSyncStarts
        BY <2>18 DEF FullSyncStarts, Fails, disk, remote, control, memory, sync, vars
    <2>19. CASE SyncRaises
        BY <2>19 DEF SyncRaises, Fails, disk, remote, control, memory, sync, vars
    <2>20. CASE Finished
        BY <2>20 DEF Finished, Fails, disk, remote, control, memory, sync, vars
    <2> QED BY <1>3, <2>1, <2>2, <2>3, <2>4, <2>5, <2>6, <2>7, <2>8, <2>9, <2>10, <2>11, <2>12, <2>13, <2>14, <2>15, <2>16, <2>17, <2>18, <2>19, <2>20
<1>4. CASE RestoreSidecars
    <2>1. /\ file' \in {file, pointer.digest} /\ UNCHANGED <<slots, final, digest, pointer, object>>
          /\ runner' = runner /\ worker # "command"
        BY <1>4 DEF RestoreSidecars, remote, memory, sync
    <2> QED BY <1>2, <2>1 DEF SoundFiles
<1>5. CASE RunnerStarts
    <2>1. /\ file' = IF file = Absent THEN Whole(<<>>, FALSE) ELSE file
          /\ slots' = file.slots /\ final' = file.final
          /\ UNCHANGED <<digest, pointer, object>>
        BY <1>5 DEF RunnerStarts, remote, sync
    <2>2. Kept(slots', final') /\ file' = Whole(slots', final') /\ Sound(file')
        <3>1. Sound(file)
            BY DEF SoundFiles
        <3>2. CASE file = Absent
            BY <2>1, <3>1, <3>2, SoundKinds, EmptyKept
        <3>3. CASE file # Absent
            BY <2>1, <3>1, <3>3, SoundKinds
        <3> QED BY <3>2, <3>3
    <2> QED BY <2>1, <2>2 DEF SoundFiles
<1>6. CASE Assign
    <2>1. CASE runner' = "simulate"
        <3>1. Kept(slots', final) /\ file' = Whole(slots', final)
            BY <1>6, <2>1, AssignKeeps
        <3>2. UNCHANGED <<final, digest, pointer, object>>
            BY <1>6 DEF Assign, remote, sync
        <3>3. Sound(file')
            BY <3>1, WholeIsSound
        <3> QED BY <3>1, <3>2, <3>3 DEF SoundFiles
    <2>2. CASE runner' # "simulate"
        BY <1>1, <1>6, <2>2 DEF Assign, Fails, remote, sync
    <2> QED BY <2>1, <2>2
<1>7. CASE Finalize
    <2>1. Kept(slots', TRUE) /\ file' = Whole(slots', TRUE) /\ final' = TRUE
        BY <1>7, FinalizeKeeps
    <2>2. UNCHANGED <<digest, pointer, object>>
        BY <1>7 DEF Finalize, remote, sync
    <2>3. Sound(file')
        BY <2>1, WholeIsSound
    <2> QED BY <2>1, <2>2, <2>3 DEF SoundFiles
<1>8. CASE DigestSidecar
    <2>1. digest' = file /\ UNCHANGED <<slots, final, file, pointer, object, runner>>
        BY <1>8 DEF DigestSidecar, disk, remote, memory
    <2> QED BY <2>1 DEF SoundFiles
<1>9. CASE UploadSidecar
    <2>1. /\ object' = object \cup {<<digest, file>>}
          /\ UNCHANGED <<slots, final, file, digest, pointer, runner>>
        BY <1>9 DEF UploadSidecar, disk, memory
    <2>2. <<digest, file>>[1] = digest /\ <<digest, file>>[2] = file
        OBVIOUS
    <2>3. \A o \in object' : Sound(o[1]) /\ Sound(o[2])
        BY <2>1, <2>2 DEF SoundFiles
    <2> QED BY <2>1, <2>3 DEF SoundFiles
<1>10. CASE UploadPointer
    <2>1. pointer'.digest = digest /\ UNCHANGED <<slots, final, file, digest, object, runner>>
        BY <1>10 DEF UploadPointer, disk, memory
    <2> QED BY <2>1 DEF SoundFiles
<1>11. CASE RestartKeepsDisk \/ RestartDamagesCheckpoint \/ RestartLosesDisk
    <2>1. /\ slots' = <<>> /\ final' = FALSE /\ digest' = Absent /\ runner' = "off"
          /\ file' \in {file, Absent} /\ UNCHANGED <<pointer, object>>
        BY <1>11, PlainFaults DEF RestartKeepsDisk, RestartDamagesCheckpoint, RestartLosesDisk,
                                 Restarts, disk, remote
    <2> QED BY <2>1, EmptyKept DEF SoundFiles
<1>12. CASE UNCHANGED vars
    BY <1>1, <1>12 DEF vars, disk, remote, memory, sync
<1> QED BY <1>1, <1>3, <1>4, <1>5, <1>6, <1>7, <1>8, <1>9, <1>10, <1>11, <1>12
        DEF Next, RestoreNext, RunnerNext, SyncNext

\* A stored q that is not on this disk is in the remote store with its assignment.
LEMMA RemotePair ==
    ASSUME PlainHost, SoundResults, remoteResult # None, file = Absent
    PROVE  pointer.digest # Absent /\ pointer.digest.final /\ ~Slow
<1>1. ~Lossy => FALSE
    BY DEF SoundResults
<1>2. ~Slow
    BY <1>1, PlainFaults
<1> QED BY <1>2 DEF SoundResults

\* The assignment reaches the disk and the remote store before the q that needs it.
LEMMA SoundResultsStep ==
    ASSUME PlainHost, FreezeInv, SoundFiles, SoundResults, SoundSync, [Next]_vars
    PROVE  SoundResults'
<1> DEFINE kept == <<file, result, pointer, remoteResult, faults>>
<1>1. ASSUME UNCHANGED kept, worker' \in {"chunks", "command"} => worker \in {"chunks", "command"}
      PROVE  SoundResults'
    BY <1>1 DEF SoundResults, Slow, Lossy
<1>2. ASSUME \/ RestoreRaises \/ Repair \/ RepairRaises \/ RepairEnds \/ RequestCached
             \/ Simulate \/ Commit \/ Recorded \/ SearchEnds \/ FreezeRaises
             \/ UploadBlock \/ StatSidecar \/ DigestSidecar \/ UploadSidecar \/ SkipSidecar
             \/ HeartbeatStarts \/ FullSyncStarts \/ SyncRaises \/ Finished
      PROVE  /\ UNCHANGED kept
             /\ worker' \in {"chunks", "command"} => worker \in {"chunks", "command"}
    <2>1. CASE RestoreRaises
        BY <2>1 DEF RestoreRaises, Fails, disk, remote, control, host, vars
    <2>2. CASE Repair
        BY <2>2 DEF Repair, Fails, disk, remote, control, host, vars
    <2>3. CASE RepairRaises
        BY <2>3 DEF RepairRaises, Fails, disk, remote, control, host, vars
    <2>4. CASE RepairEnds
        BY <2>4 DEF RepairEnds, Fails, disk, remote, control, host, vars
    <2>5. CASE RequestCached
        BY <2>5 DEF RequestCached, Fails, disk, remote, control, host, vars
    <2>6. CASE Simulate
        BY <2>6 DEF Simulate, Fails, disk, remote, control, host, vars
    <2>7. CASE Commit
        BY <2>7 DEF Commit, Fails, disk, remote, control, host, vars
    <2>8. CASE Recorded
        BY <2>8 DEF Recorded, Fails, disk, remote, control, host, vars
    <2>9. CASE SearchEnds
        BY <2>9 DEF SearchEnds, Fails, disk, remote, control, host, vars
    <2>10. CASE FreezeRaises
        BY <2>10 DEF FreezeRaises, Fails, disk, remote, control, host, vars
    <2>11. CASE UploadBlock
        BY <2>11 DEF UploadBlock, Fails, disk, remote, control, host, vars
    <2>12. CASE StatSidecar
        BY <2>12 DEF StatSidecar, Fails, disk, remote, control, host, vars
    <2>13. CASE DigestSidecar
        BY <2>13 DEF DigestSidecar, Fails, disk, remote, control, host, vars
    <2>14. CASE UploadSidecar
        BY <2>14 DEF UploadSidecar, Fails, disk, remote, control, host, vars
    <2>15. CASE SkipSidecar
        BY <2>15 DEF SkipSidecar, Fails, disk, remote, control, host, vars
    <2>16. CASE HeartbeatStarts
        BY <2>16 DEF HeartbeatStarts, Fails, disk, remote, control, host, vars
    <2>17. CASE FullSyncStarts
        BY <2>17 DEF FullSyncStarts, Fails, disk, remote, control, host, vars
    <2>18. CASE SyncRaises
        BY <2>18 DEF SyncRaises, Fails, disk, remote, control, host, vars
    <2>19. CASE Finished
        BY <2>19 DEF Finished, Fails, disk, remote, control, host, vars
    <2> QED BY <1>2, <2>1, <2>2, <2>3, <2>4, <2>5, <2>6, <2>7, <2>8, <2>9, <2>10, <2>11, <2>12, <2>13, <2>14, <2>15, <2>16, <2>17, <2>18, <2>19
<1>3. CASE RestoreChunks
    <2>1. UNCHANGED kept /\ worker = "chunks"
        BY <1>3 DEF RestoreChunks, remote, host
    <2> QED BY <1>1, <2>1
<1>4. CASE RestoreSidecars
    <2>1. /\ \/ file.is = "whole" /\ file' = file
             \/ file.is = "absent" /\ pointer.digest = Absent /\ file' = file
             \/ file.is # "whole" /\ pointer.digest # Absent /\ file' = pointer.digest
          /\ result' = IF result = None THEN remoteResult ELSE result
          /\ UNCHANGED <<pointer, remoteResult, faults>>
        BY <1>4 DEF RestoreSidecars, remote, host
    <2>2. file # Absent => file.is = "whole"
        BY SoundKinds DEF SoundFiles
    <2>3. file = Absent => file.is = "absent"
        BY SoundKinds DEF SoundFiles
    <2>4. CASE file # Absent
        <3>1. file' = file
            BY <2>1, <2>2, <2>4
        <3>2. remoteResult # None => result # None
            BY <2>4 DEF SoundResults
        <3>3. result' = result
            BY <2>1, <3>2
        <3> QED BY <2>1, <2>4, <3>1, <3>3 DEF SoundResults, Slow, Lossy
    <2>5. CASE file = Absent
        <3>1. result = None /\ result' = remoteResult
            BY <2>1, <2>5 DEF SoundResults
        <3>2. file' = pointer.digest
            BY <2>1, <2>3, <2>5
        <3>3. remoteResult # None => pointer.digest # Absent /\ pointer.digest.final
            BY <2>5, RemotePair
        <3>4. ~Lossy => remoteResult = None /\ pointer.digest = Absent
            BY <2>5 DEF SoundResults
        <3> QED BY <2>1, <3>1, <3>2, <3>3, <3>4 DEF SoundResults, Slow, Lossy
    <2> QED BY <2>4, <2>5
<1>5. CASE RunnerStarts
    <2>1. /\ file' = IF file = Absent THEN Whole(<<>>, FALSE) ELSE file
          /\ worker = "command" /\ UNCHANGED <<result, pointer, remoteResult, faults, worker>>
        BY <1>5 DEF RunnerStarts, remote, control, host
    <2>2. CASE file # Absent
        BY <1>1, <2>1, <2>2
    <2>3. CASE file = Absent
        <3>1. result = None /\ remoteResult = None
            BY <2>1, <2>3 DEF SoundResults
        <3>2. file' # Absent
            BY <2>1, <2>3, EmptyKept, WholeIsSound
        <3> QED BY <2>1, <3>1, <3>2 DEF SoundResults
    <2> QED BY <2>2, <2>3
<1>6. CASE Assign
    <2>1. CASE runner' = "simulate"
        <3>1. Kept(slots', final) /\ file' = Whole(slots', final)
            BY <1>6, <2>1, AssignKeeps
        <3>2. file' # Absent
            BY <3>1, WholeIsSound
        <3>3. runner = "search" /\ UNCHANGED <<result, pointer, remoteResult, faults, worker>>
            BY <1>6, <2>1 DEF Assign, Fails, remote, control, host
        <3>4. result = None
            BY <3>3 DEF FreezeInv, Memory, Searching
        <3>5. file # Absent
            BY <3>3, WholeIsSound DEF SoundFiles
        <3>6. remoteResult = None
            BY <3>4, <3>5 DEF SoundResults
        <3> QED BY <3>2, <3>3, <3>4, <3>6 DEF SoundResults
    <2>2. CASE runner' # "simulate"
        BY <1>1, <1>6, <2>2 DEF Assign, Fails, remote, host
    <2> QED BY <2>1, <2>2
<1>7. CASE Finalize
    <2>1. Kept(slots', TRUE) /\ file' = Whole(slots', TRUE)
        BY <1>7, FinalizeKeeps
    <2>2. file' # Absent /\ file'.final
        BY <2>1, WholeIsSound
    <2>3. runner = "finalize" /\ UNCHANGED <<result, pointer, remoteResult, faults, worker>>
        BY <1>7 DEF Finalize, remote, control, host
    <2>4. file # Absent
        BY <2>3, WholeIsSound DEF SoundFiles
    <2> QED BY <2>2, <2>3, <2>4 DEF SoundResults, Slow, Lossy
<1>8. CASE Freeze
    <2>1. /\ runner = "fill" /\ result \in {None, Solved} /\ result' = Solved /\ worker' = "sync"
          /\ UNCHANGED <<file, pointer, remoteResult, faults>>
        BY <1>8 DEF Freeze, Filled, remote, host
    <2>2. final /\ Kept(slots, final) /\ file = Whole(slots, final)
        BY <2>1 DEF FreezeInv, Memory, Ending, SoundFiles
    <2>3. file # Absent /\ file.final
        BY <2>2, WholeIsSound
    <2>4. remoteResult # None => result' # None
        BY <2>1, <2>3 DEF SoundResults
    <2> QED BY <2>1, <2>3, <2>4 DEF SoundResults, Slow, Lossy
<1>9. CASE UploadPointer
    <2>1. /\ beat = "pointer" /\ pointer'.digest = digest
          /\ UNCHANGED <<file, result, remoteResult, faults, worker>>
        BY <1>9 DEF UploadPointer, Beat, disk, control, host
    <2>2. file # Absent
        BY <2>1 DEF SoundSync
    <2>3. ~Slow => digest = file
        BY <2>1 DEF SoundSync
    <2>4. remoteResult # None => file.final
        BY <2>2 DEF SoundResults
    <2> QED BY <2>1, <2>2, <2>3, <2>4 DEF SoundResults, Slow, Lossy
<1>10. CASE UploadResult
    <2>1. /\ beat = "result" /\ remoteResult' = IF result = None THEN remoteResult ELSE result
          /\ worker' \in {worker, "complete"} /\ UNCHANGED <<file, result, pointer, faults>>
        BY <1>10 DEF UploadResult, Beat, disk, host
    <2>2. CASE result = None
        BY <1>1, <2>1, <2>2
    <2>3. CASE result # None
        <3>1. file # Absent /\ file.final
            BY <2>3 DEF SoundResults
        <3>2. ~Slow => pointer.digest = file
            BY <2>1, <3>1 DEF SoundSync
        <3> QED BY <2>1, <2>3, <3>1, <3>2 DEF SoundResults, Slow, Lossy
    <2> QED BY <2>2, <2>3
<1>11. CASE RestartKeepsDisk \/ RestartDamagesCheckpoint
    <2>1. RestartKeepsDisk
        BY <1>11, PlainFaults DEF RestartDamagesCheckpoint
    <2>2. UNCHANGED kept /\ worker' = "sidecars"
        BY <2>1 DEF RestartKeepsDisk, Restarts, disk, remote
    <2> QED BY <1>1, <2>2
<1>12. CASE RestartLosesDisk
    <2>1. /\ Lossy /\ file' = Absent /\ result' = None /\ worker' = "sidecars"
          /\ UNCHANGED <<pointer, remoteResult, faults>>
        BY <1>12 DEF RestartLosesDisk, Restarts, remote, Lossy
    <2> QED BY <2>1 DEF SoundResults, Slow, Lossy
<1>13. CASE UNCHANGED vars
    BY <1>1, <1>13 DEF vars, disk, remote, control, host
<1> QED BY <1>1, <1>2, <1>3, <1>4, <1>5, <1>6, <1>7, <1>8, <1>9, <1>10, <1>11, <1>12, <1>13
        DEF Next, RestoreNext, RunnerNext, SyncNext

\* runner_sync_lock, and the time an upload takes, keep the checkpoint still while it is
\* uploaded.
LEMMA SoundSyncStep ==
    ASSUME PlainHost, FreezeInv, SoundFiles, SoundResults, SoundSync, [Next]_vars
    PROVE  SoundSync'
<1> DEFINE seen == <<beat, file, digest, pointer, faults>>
<1>1. UNCHANGED seen => SoundSync'
    BY DEF SoundSync, Slow
<1>2. ASSUME \/ RestoreRaises \/ RestoreChunks \/ Repair \/ RepairRaises \/ RepairEnds
             \/ RequestCached \/ Simulate \/ Commit \/ Recorded \/ SearchEnds
             \/ Freeze \/ FreezeRaises \/ UploadBlock \/ Finished
      PROVE  UNCHANGED seen
    <2>1. CASE RestoreRaises
        BY <2>1 DEF RestoreRaises, disk, remote, sync, host, vars
    <2>2. CASE RestoreChunks
        BY <2>2 DEF RestoreChunks, disk, remote, sync, host, vars
    <2>3. CASE Repair
        BY <2>3 DEF Repair, disk, remote, sync, host, vars
    <2>4. CASE RepairRaises
        BY <2>4 DEF RepairRaises, disk, remote, sync, host, vars
    <2>5. CASE RepairEnds
        BY <2>5 DEF RepairEnds, disk, remote, sync, host, vars
    <2>6. CASE RequestCached
        BY <2>6 DEF RequestCached, disk, remote, sync, host, vars
    <2>7. CASE Simulate
        BY <2>7 DEF Simulate, disk, remote, sync, host, vars
    <2>8. CASE Commit
        BY <2>8 DEF Commit, disk, remote, sync, host, vars
    <2>9. CASE Recorded
        BY <2>9 DEF Recorded, disk, remote, sync, host, vars
    <2>10. CASE SearchEnds
        BY <2>10 DEF SearchEnds, disk, remote, sync, host, vars
    <2>11. CASE Freeze
        BY <2>11 DEF Freeze, disk, remote, sync, host, vars
    <2>12. CASE FreezeRaises
        BY <2>12 DEF FreezeRaises, disk, remote, sync, host, vars
    <2>13. CASE UploadBlock
        BY <2>13 DEF UploadBlock, Beat, disk, remote, sync, host, vars
    <2>14. CASE Finished
        BY <2>14 DEF Finished, disk, remote, sync, host, vars
    <2> QED BY <1>2, <2>1, <2>2, <2>3, <2>4, <2>5, <2>6, <2>7, <2>8, <2>9, <2>10, <2>11, <2>12, <2>13, <2>14
<1>3. beat' \in {"idle", "upload"} => SoundSync'
    BY DEF SoundSync
<1>4. CASE HeartbeatStarts \/ FullSyncStarts \/ SyncRaises \/ UploadResult
           \/ RestartKeepsDisk \/ RestartDamagesCheckpoint \/ RestartLosesDisk
    <2>1. beat' \in {"idle", "upload"}
        BY <1>4 DEF HeartbeatStarts, FullSyncStarts, SyncRaises, UploadResult, Beat,
                    RestartKeepsDisk, RestartDamagesCheckpoint, RestartLosesDisk, Restarts
    <2> QED BY <1>3, <2>1
<1>5. ASSUME MayWrite, beat' = beat, file' # Absent, UNCHANGED faults PROVE SoundSync'
    BY <1>5 DEF MayWrite, SoundSync, Slow
<1>6. CASE RunnerStarts
    <2>1. /\ MayWrite /\ file' = IF file = Absent THEN Whole(<<>>, FALSE) ELSE file
          /\ beat' = beat /\ UNCHANGED faults
        BY <1>6 DEF RunnerStarts, sync, host
    <2>2. file' # Absent
        BY <2>1, EmptyKept, WholeIsSound
    <2> QED BY <1>5, <2>1, <2>2
<1>7. CASE Assign
    <2>1. CASE runner' = "simulate"
        <3>1. Kept(slots', final) /\ file' = Whole(slots', final)
            BY <1>7, <2>1, AssignKeeps
        <3>2. file' # Absent
            BY <3>1, WholeIsSound
        <3>3. MayWrite /\ beat' = beat /\ UNCHANGED faults
            BY <1>7 DEF Assign, sync, host
        <3> QED BY <1>5, <3>2, <3>3
    <2>2. CASE runner' # "simulate"
        BY <1>1, <1>7, <2>2 DEF Assign, Fails, remote, sync, host
    <2> QED BY <2>1, <2>2
<1>8. CASE Finalize
    <2>1. Kept(slots', TRUE) /\ file' = Whole(slots', TRUE)
        BY <1>8, FinalizeKeeps
    <2>2. file' # Absent
        BY <2>1, WholeIsSound
    <2>3. MayWrite /\ beat' = beat /\ UNCHANGED faults
        BY <1>8 DEF Finalize, sync, host
    <2> QED BY <1>5, <2>2, <2>3
<1>9. CASE RestoreSidecars
    <2>1. /\ file' = file \/ (file.is # "whole" /\ file' = pointer.digest)
          /\ UNCHANGED <<beat, digest, pointer, faults>>
        BY <1>9 DEF RestoreSidecars, remote, sync, host
    <2>2. file.is # "whole" => file = Absent
        BY SoundKinds DEF SoundFiles
    <2>3. CASE file' = file
        BY <1>1, <2>1, <2>3
    <2>4. CASE file = Absent /\ file' = pointer.digest
        BY <2>1, <2>4 DEF SoundSync, Slow
    <2> QED BY <2>1, <2>2, <2>3, <2>4
<1>10. CASE StatSidecar
    BY <1>10 DEF StatSidecar, Beat, disk, SoundSync
<1>11. CASE DigestSidecar
    BY <1>11 DEF DigestSidecar, Beat, disk, host, SoundSync, Slow
<1>12. CASE UploadSidecar
    BY <1>12 DEF UploadSidecar, Beat, disk, host, SoundSync, Slow
<1>13. CASE UploadPointer
    <2>1. /\ beat = "pointer" /\ beat' = "result" /\ pointer'.digest = digest
          /\ UNCHANGED <<file, faults>>
        BY <1>13 DEF UploadPointer, Beat, disk, host
    <2> QED BY <2>1 DEF SoundSync, Slow
<1>14. CASE SkipSidecar
    BY <1>14 DEF SkipSidecar, Beat, disk, remote, host, SoundSync, Slow
<1>15. CASE UNCHANGED vars
    BY <1>1, <1>15 DEF vars, disk, remote, sync, host
<1> QED BY <1>1, <1>2, <1>4, <1>6, <1>7, <1>8, <1>9, <1>10, <1>11, <1>12, <1>13, <1>14, <1>15
        DEF Next, RestoreNext, RunnerNext, SyncNext

\* A block that is full in this session's list holds what the whole search has there.
LEMMA FullBlock ==
    ASSUME Kept(slots, final), NEW b \in Covered
    PROVE  /\ Slice(slots, b) = Slice(Padded(Uninterrupted), b)
           /\ Slice(Padded(slots), b) = Slice(Padded(Uninterrupted), b)
<1>1. /\ slots \in Seq(Nat) /\ Len(slots) \in 0 .. Capacity
      /\ Padded(Uninterrupted) \in Seq(Nat) /\ Begins(slots, Padded(Uninterrupted))
    BY KeptBegins
<1>2. b \in Blocks /\ Stop(b) <= Len(slots)
    BY DEF Covered
<1>3. Slice(slots, b) = Slice(Padded(Uninterrupted), b)
    BY <1>1, <1>2, BlocksBegin
<1>4. /\ Padded(slots) \in Seq(Nat) /\ Len(Padded(slots)) = Capacity
      /\ \A i \in 1 .. Len(slots) : Padded(slots)[i] = slots[i]
    BY <1>1, PaddedLists
<1>5. Begins(slots, Padded(slots))
    BY <1>1, <1>4 DEF Begins
<1>6. Slice(slots, b) = Slice(Padded(slots), b)
    BY <1>1, <1>2, <1>4, <1>5, BlocksBegin
<1> QED BY <1>3, <1>6

\* Blocks are copied, or committed from a list that reaches to their end.
LEMMA SoundBlocksStep ==
    ASSUME PlainHost, FreezeInv, SoundFiles, SoundBlocks, [Next]_vars
    PROVE  SoundBlocks'
<1> DEFINE all == <<chunk, remoteChunk>>
<1>1. UNCHANGED all => SoundBlocks'
    BY DEF SoundBlocks
<1>2. ASSUME \/ RestoreSidecars \/ RestoreRaises \/ RunnerStarts \/ RepairRaises \/ RepairEnds
             \/ RequestCached \/ Assign \/ Simulate \/ Recorded \/ SearchEnds
             \/ Finalize \/ Freeze \/ FreezeRaises \/ StatSidecar \/ DigestSidecar
             \/ UploadSidecar \/ UploadPointer \/ SkipSidecar \/ UploadResult \/ HeartbeatStarts
             \/ FullSyncStarts \/ SyncRaises \/ Finished
      PROVE  UNCHANGED all
    <2>1. CASE RestoreSidecars
        BY <2>1 DEF RestoreSidecars, disk, remote, vars
    <2>2. CASE RestoreRaises
        BY <2>2 DEF RestoreRaises, disk, remote, vars
    <2>3. CASE RunnerStarts
        BY <2>3 DEF RunnerStarts, disk, remote, vars
    <2>4. CASE RepairRaises
        BY <2>4 DEF RepairRaises, disk, remote, vars
    <2>5. CASE RepairEnds
        BY <2>5 DEF RepairEnds, disk, remote, vars
    <2>6. CASE RequestCached
        BY <2>6 DEF RequestCached, disk, remote, vars
    <2>7. CASE Assign
        BY <2>7 DEF Assign, disk, remote, vars
    <2>8. CASE Simulate
        BY <2>8 DEF Simulate, disk, remote, vars
    <2>9. CASE Recorded
        BY <2>9 DEF Recorded, disk, remote, vars
    <2>10. CASE SearchEnds
        BY <2>10 DEF SearchEnds, disk, remote, vars
    <2>11. CASE Finalize
        BY <2>11 DEF Finalize, disk, remote, vars
    <2>12. CASE Freeze
        BY <2>12 DEF Freeze, disk, remote, vars
    <2>13. CASE FreezeRaises
        BY <2>13 DEF FreezeRaises, disk, remote, vars
    <2>14. CASE StatSidecar
        BY <2>14 DEF StatSidecar, disk, remote, vars
    <2>15. CASE DigestSidecar
        BY <2>15 DEF DigestSidecar, disk, remote, vars
    <2>16. CASE UploadSidecar
        BY <2>16 DEF UploadSidecar, disk, remote, vars
    <2>17. CASE UploadPointer
        BY <2>17 DEF UploadPointer, disk, remote, vars
    <2>18. CASE SkipSidecar
        BY <2>18 DEF SkipSidecar, disk, remote, vars
    <2>19. CASE UploadResult
        BY <2>19 DEF UploadResult, disk, remote, vars
    <2>20. CASE HeartbeatStarts
        BY <2>20 DEF HeartbeatStarts, disk, remote, vars
    <2>21. CASE FullSyncStarts
        BY <2>21 DEF FullSyncStarts, disk, remote, vars
    <2>22. CASE SyncRaises
        BY <2>22 DEF SyncRaises, disk, remote, vars
    <2>23. CASE Finished
        BY <2>23 DEF Finished, disk, remote, vars
    <2> QED BY <1>2, <2>1, <2>2, <2>3, <2>4, <2>5, <2>6, <2>7, <2>8, <2>9, <2>10, <2>11, <2>12, <2>13, <2>14, <2>15, <2>16, <2>17, <2>18, <2>19, <2>20, <2>21, <2>22, <2>23
<1>3. Kept(slots, final) /\ Holding(chunk) /\ Holding(remoteChunk)
    BY DEF SoundFiles, SoundBlocks
<1>4. CASE RestoreChunks
    <2>1. /\ chunk' = [b \in Blocks |-> IF chunk[b] = None THEN remoteChunk[b] ELSE chunk[b]]
          /\ remoteChunk' = remoteChunk
        BY <1>4 DEF RestoreChunks, remote
    <2> QED BY <1>3, <2>1 DEF SoundBlocks, Holding
<1>5. CASE Repair
    <2>1. /\ turn \in Blocks /\ remoteChunk' = remoteChunk
          /\ chunk' = IF turn \in Covered THEN [chunk EXCEPT ![turn] = Slice(slots, turn)]
                                          ELSE chunk
        BY <1>5 DEF Repair, remote
    <2>2. turn \in Covered => Slice(slots, turn) = Slice(Padded(Uninterrupted), turn)
        BY <1>3, FullBlock
    <2> QED BY <1>3, <2>1, <2>2 DEF SoundBlocks, Holding
<1>6. CASE Commit
    <2> DEFINE b == Lowest(Committable)
    <2>1. /\ chunk' = [chunk EXCEPT ![b] = Slice(Padded(slots), b)]
          /\ remoteChunk' = remoteChunk /\ Committable # {}
        BY <1>6 DEF Commit, remote, Slice
    <2>2. Committable \subseteq Covered /\ Covered \subseteq Blocks /\ Blocks \subseteq Nat
        BY DEF Committable, Covered, Blocks
    <2>3. \E c \in Committable : \A d \in Committable : c <= d
        <3> HIDE DEF b
        <3>1. Committable \subseteq Nat
            BY <2>2
        <3> QED BY <2>1, <3>1, LeastMember
    <2>4. b \in Committable
        BY <2>3 DEF Lowest
    <2> HIDE DEF b
    <2>5. b \in Covered /\ b \in Blocks
        BY <2>2, <2>4
    <2>6. Slice(Padded(slots), b) = Slice(Padded(Uninterrupted), b)
        BY <1>3, <2>5, FullBlock
    <2> QED BY <1>3, <2>1, <2>5, <2>6 DEF SoundBlocks, Holding
<1>7. CASE UploadBlock
    <2> DEFINE b == Lowest(queue)
    <2>1. remoteChunk' = [remoteChunk EXCEPT ![b] = chunk[b]] /\ chunk' = chunk
        BY <1>7 DEF UploadBlock, disk
    <2> HIDE DEF b
    <2> QED BY <1>3, <2>1 DEF SoundBlocks, Holding
<1>8. CASE RestartKeepsDisk \/ RestartDamagesCheckpoint
    BY <1>1, <1>8 DEF RestartKeepsDisk, RestartDamagesCheckpoint, Restarts, disk, remote
<1>9. CASE RestartLosesDisk
    <2>1. chunk' = [b \in Blocks |-> None] /\ remoteChunk' = remoteChunk
        BY <1>9 DEF RestartLosesDisk, Restarts, remote
    <2> QED BY <1>3, <2>1 DEF SoundBlocks, Holding
<1>10. CASE UNCHANGED vars
    BY <1>1, <1>10 DEF vars, disk, remote
<1> QED BY <1>1, <1>2, <1>4, <1>5, <1>6, <1>7, <1>8, <1>9, <1>10
        DEF Next, RestoreNext, RunnerNext, SyncNext

LEMMA PlainStep == FreezeInv /\ PlainInv /\ [Next]_vars => PlainInv'
<1> SUFFICES ASSUME FreezeInv, PlainInv, [Next]_vars, PlainHost'
             PROVE  (SoundFiles /\ SoundResults /\ SoundSync /\ SoundBlocks)'
    BY DEF PlainInv
<1>1. faults' = faults
    BY DEF Next, RestoreNext, RestoreSidecars, RestoreRaises, RestoreChunks,
           RunnerNext, RunnerStarts, Repair, RepairRaises, RepairEnds, RequestCached, Assign,
           Simulate, Commit, Recorded, SearchEnds, Finalize, Freeze, FreezeRaises,
           SyncNext, UploadBlock, StatSidecar, DigestSidecar, UploadSidecar, UploadPointer,
           SkipSidecar, UploadResult, HeartbeatStarts, FullSyncStarts, SyncRaises, Finished,
           RestartKeepsDisk, RestartDamagesCheckpoint, RestartLosesDisk, Restarts, host, vars
<1>2. PlainHost
    BY <1>1 DEF PlainHost
<1>3. SoundFiles /\ SoundResults /\ SoundSync /\ SoundBlocks
    BY <1>2 DEF PlainInv
<1> QED BY <1>2, <1>3, SoundFilesStep, SoundResultsStep, SoundSyncStep, SoundBlocksStep

LEMMA PlainAlways == Spec => [](FreezeInv /\ PlainInv)
<1>1. FreezeInv /\ [Next]_vars => FreezeInv'
    BY ListsStep, MemoryStep, FrozenStep DEF FreezeInv
<1> QED BY FreezeInit, PlainInit, PlainStep, <1>1, PTL DEF Spec

\* On a host that at most loses its disk (a Spot VM) or at most uploads slowly, every
\* assignment list anywhere agrees, slot by slot, with that of a search that was never
\* interrupted (AdaptiveTrainingChunks, _sync_runner_sidecars).
THEOREM AssignmentIsFrozen == Spec => []SlotsStable
<1>1. FreezeInv /\ PlainInv => SlotsStable
    <2> SUFFICES ASSUME PlainInv, PlainHost PROVE AssignmentKept
        BY DEF SlotsStable
    <2>1. SoundFiles
        BY DEF PlainInv
    <2>2. ASSUME NEW s, NEW f, Kept(s, f) PROVE IsPrefix(s, Padded(Uninterrupted))
        BY <2>2, KeptBegins, PrefixBegins
    <2>3. ASSUME NEW c, Sound(c) PROVE IsPrefix(c.slots, Padded(Uninterrupted))
        <3>1. CASE c = Absent
            BY <2>2, <2>3, <3>1, SoundKinds, EmptyKept
        <3>2. CASE c # Absent
            BY <2>2, <2>3, <3>2, SoundKinds
        <3> QED BY <3>1, <3>2
    <2>4. IsPrefix(slots, Padded(Uninterrupted))
        BY <2>1, <2>2 DEF SoundFiles
    <2>5. \A c \in Checkpoints : Sound(c)
        BY <2>1 DEF SoundFiles, Checkpoints
    <2> QED BY <2>3, <2>4, <2>5 DEF AssignmentKept
<1> QED BY PlainAlways, <1>1, PTL

\* On such a host every block, here or in the remote store, holds what those slots say
\* (_commit_available, restore_or_repair, sync_runner_chunks).
THEOREM BlocksHoldTheirSlots == Spec => []BlocksMatchSlots
<1>1. FreezeInv /\ PlainInv => BlocksMatchSlots
    BY DEF PlainInv, SoundBlocks, Holding, BlocksMatchSlots
<1> QED BY PlainAlways, <1>1, PTL
=============================================================================
