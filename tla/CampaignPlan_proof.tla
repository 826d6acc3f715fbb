------------------------- MODULE CampaignPlan_proof -------------------------
(***************************************************************************)
(* What the plan guarantees for every design and every manifest: the check *)
(* accepts exactly the manifests that can be completed, the streams of the *)
(* evidence are fresh, every unit of the design is carried once, and no    *)
(* slot is given more than its share of the work.                          *)
(*                                                                         *)
(* The search for cycles: the visited jobs are closed under dependencies   *)
(* and well-founded, what a call in progress has left behind is visited,   *)
(* except the job the next call is about, and the calls form a path of     *)
(* dependencies; a manifest without a cycle completes in as many rounds as *)
(* it has jobs.  The design: a physical job is determined by its family    *)
(* and its game.                                                           *)
(***************************************************************************)
EXTENDS CampaignPlan, FiniteSetTheorems, SequenceTheorems, WellFoundedInduction, TLAPS

\* Every set of these jobs has one that waits for no other one of the set.
WellFounded(S) ==
    \A T \in SUBSET S : T # {} => \E j \in T : deps[j] \cap T = {}

Frame == [job : DOMAIN deps, left : SUBSET DOMAIN deps]

\* What a call has already dealt with.
Passed(i) == deps[stack[i].job] \ stack[i].left

VisitInv ==
    /\ \A j \in DOMAIN deps : deps[j] \subseteq DOMAIN deps
    /\ visited \subseteq DOMAIN deps
    /\ \A j \in visited : deps[j] \subseteq visited
    /\ WellFounded(visited)
    /\ stack \in Seq(Frame)
    /\ \A i \in 1 .. Len(stack) :
          Passed(i) \subseteq visited \cup {stack[k].job : k \in {i + 1} \cap 1 .. Len(stack)}

SearchInv ==
    /\ stage \in {"begin", "assign", "check"} => stack = <<>> /\ visited = {}
    /\ stage = "visit" => VisitInv
    /\ stage = "accepted" => WellFounded(DOMAIN deps)

-----------------------------------------------------------------------------
\* A job all of whose dependencies are visited can join the visited ones.
LEMMA JoinVisited ==
    ASSUME VisitInv, NEW j \in DOMAIN deps, deps[j] \subseteq visited
    PROVE  WellFounded(visited \cup {j})
<1>1. SUFFICES ASSUME NEW T \in SUBSET (visited \cup {j}), T # {}, j \notin visited
               PROVE  \E x \in T : deps[x] \cap T = {}
  BY DEF WellFounded, VisitInv
<1>2. CASE T \subseteq visited
  BY <1>1, <1>2 DEF WellFounded, VisitInv
<1>3. CASE T = {j}
  BY <1>1, <1>3
<1>4. CASE j \in T /\ T \ {j} # {}
  <2>1. T \ {j} \in SUBSET visited /\ T \ {j} # {}
    BY <1>1, <1>4
  <2>2. PICK x \in T \ {j} : deps[x] \cap (T \ {j}) = {}
    BY <2>1 DEF WellFounded, VisitInv
  <2>3. deps[x] \subseteq visited
    BY <2>1, <2>2 DEF VisitInv
  <2> QED
    BY <1>1, <2>2, <2>3
<1> QED
  BY <1>1, <1>2, <1>3, <1>4

LEMMA InitSearch == Init => SearchInv
BY DEF Init, InitBuild, InitLoad, SearchInv

\* The search begins with nothing visited, once no dependency is missing.
LEMMA StepCheck == SearchInv /\ Check => SearchInv'
<1> SUFFICES ASSUME SearchInv, Check PROVE SearchInv'
  OBVIOUS
<1>1. CASE JobsValid
  <2>1. stack' = <<>> /\ visited' = {} /\ deps' = deps /\ stage' = "visit"
    BY <1>1 DEF Check, SearchInv, search
  <2>2. \A j \in DOMAIN deps' : deps'[j] \subseteq DOMAIN deps'
    BY <1>1, <2>1 DEF JobsValid
  <2>3. VisitInv'
    BY <2>1, <2>2 DEF VisitInv, WellFounded, Frame, Passed
  <2> QED
    BY <2>1, <2>3 DEF SearchInv
<1>2. CASE ~JobsValid
  BY <1>2 DEF Check, SearchInv
<1> QED
  BY <1>1, <1>2

LEMMA StepRoot == SearchInv /\ VisitRoot => SearchInv'
<1> SUFFICES ASSUME SearchInv, VisitRoot PROVE SearchInv'
  OBVIOUS
<1> DEFINE r == CHOOSE j \in DOMAIN deps : j \notin visited
<1>1. VisitInv /\ stage = "visit"
  BY DEF SearchInv, VisitRoot
<1>2. r \in DOMAIN deps
  BY <1>1 DEF VisitInv, VisitRoot
<1>3. /\ stack' = <<Call(r)>> /\ visited' = visited /\ deps' = deps /\ stage' = "visit"
  BY <1>1 DEF VisitRoot
<1> HIDE DEF r
<1>4. Call(r) \in Frame
  BY <1>1, <1>2 DEF Call, Frame, VisitInv
<1>5. stack' \in Seq(Frame) /\ Len(stack') = 1 /\ stack'[1] = Call(r)
  BY <1>3, <1>4
<1>6. Passed(1)' = {}
  BY <1>3, <1>5 DEF Passed, Call
<1>7. VisitInv'
  BY <1>1, <1>3, <1>5, <1>6 DEF VisitInv, WellFounded, Frame
<1> QED
  BY <1>3, <1>7 DEF SearchInv

LEMMA StepDependency == SearchInv /\ VisitDependency => SearchInv'
<1> SUFFICES ASSUME SearchInv, VisitDependency PROVE SearchInv'
  OBVIOUS
<1> DEFINE n == Len(stack)
<1>1. VisitInv /\ stage = "visit" /\ stack # <<>>
  BY DEF SearchInv, VisitDependency
<1>2. n \in Nat \ {0} /\ stack \in Seq(Frame)
  BY <1>1, EmptySeq, LenProperties DEF VisitInv
<1>3. PICK d \in Top.left :
        LET rest == [stack EXCEPT ![n].left = @ \ {d}] IN
        /\ stage' = IF d \in Visiting \ visited THEN "refused" ELSE "visit"
        /\ stack' = IF d \in visited \cup Visiting THEN rest ELSE Append(rest, Call(d))
  BY DEF VisitDependency
<1>4. visited' = visited /\ deps' = deps
  BY DEF VisitDependency
<1> DEFINE rest == [stack EXCEPT ![n].left = @ \ {d}]
<1>5. n \in 1 .. n /\ stack[n] \in Frame /\ Top = stack[n]
  BY <1>2, ElementOfSeq DEF Top
<1>6. d \in DOMAIN deps
  BY <1>3, <1>5 DEF Frame
<1>7. /\ rest \in Seq(Frame) /\ Len(rest) = n
      /\ rest[n].job = stack[n].job /\ rest[n].left = stack[n].left \ {d}
      /\ \A i \in 1 .. n : i # n => rest[i] = stack[i]
      /\ \A i \in 1 .. n : rest[i].job = stack[i].job
  <2> DEFINE e == [stack[n] EXCEPT !.left = stack[n].left \ {d}]
  <2>1. rest = [stack EXCEPT ![n] = e]
    OBVIOUS
  <2>2. e \in Frame /\ e.job = stack[n].job /\ e.left = stack[n].left \ {d}
    BY <1>5 DEF Frame
  <2> HIDE DEF e, rest
  <2>3. /\ rest \in Seq(Frame) /\ Len(rest) = n
        /\ \A i \in 1 .. n : rest[i] = IF i = n THEN e ELSE stack[i]
    BY <1>2, <1>5, <2>1, <2>2, ExceptSeq
  <2> QED
    BY <1>5, <2>2, <2>3
<1> HIDE DEF rest
<1>8. CASE d \in visited
  <2>1. stack' = rest /\ stage' = "visit"
    BY <1>3, <1>8 DEF rest
  <2>2. ASSUME NEW i \in 1 .. n
        PROVE  Passed(i)' \subseteq visited \cup {rest[k].job : k \in {i + 1} \cap 1 .. n}
    <3>1. Passed(i)' \subseteq Passed(i) \cup {d}
      BY <1>4, <1>7, <2>1, <2>2 DEF Passed
    <3>2. Passed(i) \subseteq visited \cup {stack[k].job : k \in {i + 1} \cap 1 .. n}
      BY <1>1 DEF VisitInv
    <3> QED
      BY <1>7, <1>8, <3>1, <3>2
  <2>3. VisitInv'
    BY <1>1, <1>4, <1>7, <2>1, <2>2 DEF VisitInv, WellFounded, Frame
  <2> QED
    BY <2>1, <2>3 DEF SearchInv
<1>9. CASE d \notin visited /\ d \in Visiting
  BY <1>3, <1>9 DEF SearchInv
<1>10. CASE d \notin visited /\ d \notin Visiting
  <2>1. stack' = Append(rest, Call(d)) /\ stage' = "visit"
    BY <1>3, <1>10 DEF rest
  <2>2. Call(d) \in Frame
    BY <1>1, <1>6 DEF Call, Frame, VisitInv
  <2>3. /\ stack' \in Seq(Frame) /\ Len(stack') = n + 1
        /\ stack'[n + 1] = Call(d) /\ \A i \in 1 .. n : stack'[i] = rest[i]
    BY <1>2, <1>7, <2>1, <2>2, AppendProperties
  <2>4. ASSUME NEW i \in 1 .. n + 1
        PROVE  Passed(i)' \subseteq
                  visited \cup {stack'[k].job : k \in {i + 1} \cap 1 .. n + 1}
    <3>1. CASE i = n + 1
      BY <1>2, <1>4, <2>3, <3>1 DEF Passed, Call
    <3>2. CASE i = n
      <4>1. Passed(i)' \subseteq Passed(i) \cup {d}
        BY <1>2, <1>4, <1>7, <2>3, <3>2 DEF Passed
      <4>2. Passed(i) \subseteq visited
        BY <1>1, <1>2, <3>2 DEF VisitInv
      <4>3. stack'[n + 1].job = d /\ n + 1 \in {n + 1} \cap 1 .. n + 1
        BY <1>2, <2>3 DEF Call
      <4>4. d \in {stack'[k].job : k \in {n + 1} \cap 1 .. n + 1}
        BY <4>3
      <4> QED
        BY <3>2, <4>1, <4>2, <4>4
    <3>3. CASE i \in 1 .. n /\ i # n
      <4>1. i + 1 \in 1 .. n /\ stack'[i + 1].job = stack[i + 1].job
        BY <1>2, <1>7, <2>3, <3>3
      <4>2. Passed(i)' = Passed(i)
        BY <1>4, <1>7, <2>3, <3>3 DEF Passed
      <4>3. Passed(i) \subseteq visited \cup {stack[k].job : k \in {i + 1} \cap 1 .. n}
        BY <1>1, <3>3 DEF VisitInv
      <4>4. i + 1 \in {i + 1} \cap 1 .. n + 1
        BY <1>2, <4>1
      <4>5. stack[i + 1].job \in {stack'[k].job : k \in {i + 1} \cap 1 .. n + 1}
        BY <4>1, <4>4
      <4> QED
        BY <4>2, <4>3, <4>5
    <3> QED
      BY <1>2, <3>1, <3>2, <3>3
  <2>5. VisitInv'
    BY <1>1, <1>4, <2>3, <2>4 DEF VisitInv, WellFounded, Frame
  <2> QED
    BY <2>1, <2>5 DEF SearchInv
<1> QED
  BY <1>8, <1>9, <1>10

LEMMA StepReturns == SearchInv /\ VisitReturns => SearchInv'
<1> SUFFICES ASSUME SearchInv, VisitReturns PROVE SearchInv'
  OBVIOUS
<1> DEFINE n == Len(stack)
<1>1. VisitInv /\ stage = "visit" /\ stack # <<>> /\ Top.left = {}
  BY DEF SearchInv, VisitReturns
<1>2. n \in Nat \ {0} /\ stack \in Seq(Frame)
  BY <1>1, EmptySeq, LenProperties DEF VisitInv
<1>3. n \in 1 .. n /\ stack[n] \in Frame /\ Top = stack[n]
  BY <1>2, ElementOfSeq DEF Top
<1> DEFINE j == stack[n].job
<1>4. /\ visited' = visited \cup {j} /\ deps' = deps /\ stage' = "visit"
      /\ stack' = SubSeq(stack, 1, n - 1)
  BY <1>1, <1>3 DEF VisitReturns
<1>5. j \in DOMAIN deps
  BY <1>3 DEF Frame
<1>6. deps[j] \subseteq visited
  BY <1>1, <1>2, <1>3 DEF VisitInv, Passed
<1>7. /\ stack' \in Seq(Frame) /\ Len(stack') = n - 1
      /\ \A i \in 1 .. n - 1 : stack'[i] = stack[i]
  <2>1. 1 \in Int /\ n - 1 \in Int /\ \A i \in 1 .. n - 1 : stack[i] \in Frame
    BY <1>2, ElementOfSeq
  <2>2. /\ SubSeq(stack, 1, n - 1) \in Seq(Frame)
        /\ Len(SubSeq(stack, 1, n - 1)) = IF 1 <= n - 1 THEN (n - 1) - 1 + 1 ELSE 0
        /\ \A i \in 1 .. (n - 1) - 1 + 1 : SubSeq(stack, 1, n - 1)[i] = stack[1 + i - 1]
    BY <2>1, SubSeqProperties, SMTT(60)
  <2>3. stack' \in Seq(Frame)
    BY <1>4, <2>2, Zenon
  <2>4. Len(stack') = n - 1
    <3>1. n \in Nat \ {0} /\ Len(stack') = IF 1 <= n - 1 THEN (n - 1) - 1 + 1 ELSE 0
      BY <1>2, <1>4, <2>2, Zenon
    <3> HIDE DEF n
    <3> QED
      BY <3>1
  <2>5. \A i \in 1 .. n - 1 : stack'[i] = stack[i]
    <3> SUFFICES ASSUME NEW i \in 1 .. n - 1 PROVE stack'[i] = stack[i]
      OBVIOUS
    <3>1. i \in 1 .. (n - 1) - 1 + 1 /\ 1 + i - 1 = i
      BY <1>2
    <3> QED
      BY <1>4, <2>2, <3>1
  <2> QED
    BY <2>3, <2>4, <2>5
<1>8. ASSUME NEW i \in 1 .. n - 1
      PROVE  Passed(i)' \subseteq
                visited' \cup {stack'[k].job : k \in {i + 1} \cap 1 .. n - 1}
  <2>1. Passed(i)' = Passed(i)
    BY <1>4, <1>7 DEF Passed
  <2>2. Passed(i) \subseteq visited \cup {stack[k].job : k \in {i + 1} \cap 1 .. n}
    BY <1>1, <1>2 DEF VisitInv
  <2>3. CASE i + 1 = n
    BY <1>4, <2>1, <2>2, <2>3
  <2>4. CASE i + 1 # n
    <3>1. i + 1 \in {i + 1} \cap 1 .. n - 1 /\ stack'[i + 1] = stack[i + 1]
      BY <1>2, <1>7, <2>4
    <3>2. stack[i + 1].job \in {stack'[k].job : k \in {i + 1} \cap 1 .. n - 1}
      BY <3>1
    <3> QED
      BY <1>4, <2>1, <2>2, <3>2
  <2> QED
    BY <2>3, <2>4
<1>9. WellFounded(visited)'
  <2>1. WellFounded(visited \cup {j})
    BY <1>1, <1>5, <1>6, JoinVisited
  <2> QED
    BY <1>4, <2>1 DEF WellFounded
<1>10. VisitInv'
  BY <1>1, <1>4, <1>5, <1>6, <1>7, <1>8, <1>9 DEF VisitInv, WellFounded, Frame
<1> QED
  BY <1>4, <1>10 DEF SearchInv

LEMMA SearchStep == SearchInv /\ [Next]_vars => SearchInv'
<1> SUFFICES ASSUME SearchInv, [Next]_vars PROVE SearchInv'
  OBVIOUS
<1>1. CASE Begin
  BY <1>1 DEF Begin, SearchInv, search
<1>2. CASE AssignNext
  BY <1>2 DEF AssignNext, SearchInv, search
<1>3. CASE Freeze
  BY <1>3 DEF Freeze, SearchInv, search
<1>4. CASE Check
  BY <1>4, StepCheck
<1>5. CASE VisitRoot
  BY <1>5, StepRoot
<1>6. CASE VisitDependency
  BY <1>6, StepDependency
<1>7. CASE VisitReturns
  BY <1>7, StepReturns
<1>8. CASE Decide
  <2>1. VisitInv /\ visited = DOMAIN deps /\ deps' = deps
    BY <1>8 DEF Decide, SearchInv
  <2>2. WellFounded(DOMAIN deps)'
    BY <2>1 DEF VisitInv, WellFounded
  <2> QED
    BY <1>8, <2>2 DEF Decide, SearchInv
<1>9. CASE UNCHANGED vars
  BY <1>9 DEF SearchInv, VisitInv, WellFounded, Frame, Passed, vars, search
<1> QED
  BY <1>1, <1>2, <1>3, <1>4, <1>5, <1>6, <1>7, <1>8, <1>9 DEF Next, Ended

\* An accepted manifest has no set of jobs each of which waits for another one of the
\* set: CampaignManifest.validate lets no cycle through, whatever the jobs.
Acyclic == stage = "accepted" => WellFounded(DOMAIN deps)

\* CampaignManifest.validate: the search finds every cycle of a manifest of any size.
THEOREM AcceptedIsAcyclic == Spec => []Acyclic
<1>1. SearchInv => Acyclic
  BY DEF SearchInv, Acyclic
<1> QED
  BY InitSearch, SearchStep, <1>1, PTL DEF Spec

-----------------------------------------------------------------------------
\* What can be completed.

\* Every set of numbers with a member has a least one.
LEMMA LeastMember ==
    ASSUME NEW S, S \subseteq Nat, S # {}
    PROVE  \E c \in S : \A d \in S : c <= d
<1> DEFINE Less == {ss \in Nat \X Nat : ss[1] < ss[2]}
<1>1. IsWellFoundedOn(Less, Nat)
    <2>1. OpToRel(<, Nat) = Less
        BY DEF OpToRel
    <2> QED BY <2>1, NatLessThanWellFounded, Zenon
<1>2. PICK c \in S : \A d \in S : ~ (<<d, c>> \in Less)
    <2> HIDE DEF Less
    <2> QED BY <1>1, WFMin, Zenon
<1>3. \A m, n \in Nat : m < n => <<m, n>> \in Less
    OBVIOUS
<1>4. \A d \in S : ~ (d < c)
    <2> HIDE DEF Less
    <2> QED BY <1>2, <1>3, Zenon
<1> QED BY <1>4

\* Induction up to a bound, for the members of a set.
LEMMA Stepwise ==
    ASSUME NEW M \in Nat, NEW S, 0 \in S, \A k \in 0 .. M - 1 : k \in S => k + 1 \in S
    PROVE  \A k \in 0 .. M : k \in S
<1> DEFINE missing == {k \in 0 .. M : k \notin S}
<1>1. SUFFICES ASSUME missing # {} PROVE FALSE
    OBVIOUS
<1>2. missing \subseteq Nat
    OBVIOUS
<1>3. PICK c \in missing : \A d \in missing : c <= d
    <2> HIDE DEF missing
    <2> QED BY <1>1, <1>2, LeastMember
<1>4. c # 0 /\ c - 1 \in 0 .. M - 1
    BY <1>3
<1>5. c - 1 \in S
    BY <1>3, <1>4
<1> QED BY <1>3, <1>4, <1>5


\* Completable is a function that obeys its recursive definition.
Round(g, n) == IF n = 0 THEN {} ELSE {j \in DOMAIN deps : deps[j] \subseteq g[n - 1]}
Rounds == Cardinality(DOMAIN deps)

LEMMA CompletableUnfolds ==
    ASSUME IsFiniteSet(DOMAIN deps)
    PROVE  Completable = [n \in 0 .. Rounds |-> Round(Completable, n)]
<1> DEFINE Partial(g, m) == \A n \in 0 .. m : g[n] = Round(g, n)
           reached == {m \in 0 .. Rounds : \E g : Partial(g, m)}
<1>1. Rounds \in Nat
    BY FS_CardinalityType DEF Rounds
<1>2. 0 \in reached
    <2>1. Partial([n \in {0} |-> {}], 0)
        BY DEF Round
    <2> QED BY <1>1, <2>1
<1>3. ASSUME NEW m \in 0 .. Rounds - 1, m \in reached PROVE m + 1 \in reached
    <2>1. PICK g : Partial(g, m)
        BY <1>3
    <2> DEFINE h == [n \in 0 .. m + 1 |-> IF n <= m THEN g[n] ELSE Round(g, m + 1)]
    <2>2. \A n \in 0 .. m : h[n] = g[n]
        OBVIOUS
    <2>3. h[m + 1] = Round(g, m + 1)
        OBVIOUS
    <2> HIDE DEF h
    <2>4. ASSUME NEW n \in 0 .. m + 1 PROVE h[n] = Round(h, n)
        <3>1. CASE n = 0
            <4>1. 0 \in 0 .. m
                BY <1>1
            <4>2. g[0] = Round(g, 0) /\ h[0] = g[0]
                BY <2>1, <2>2, <4>1
            <4> QED BY <3>1, <4>2, Zenon DEF Round
        <3>2. CASE n \in 1 .. m
            <4>1. n - 1 \in 0 .. m /\ n \in 0 .. m /\ n # 0
                BY <3>2
            <4>2. g[n] = Round(g, n) /\ h[n] = g[n] /\ h[n - 1] = g[n - 1]
                BY <2>1, <2>2, <4>1
            <4> QED BY <4>1, <4>2, Zenon DEF Round
        <3>3. CASE n = m + 1
            <4>1. n - 1 \in 0 .. m /\ n # 0
                BY <3>3
            <4>2. h[n - 1] = g[n - 1]
                BY <2>2, <4>1
            <4> QED BY <2>3, <3>3, <4>1, <4>2, Zenon DEF Round
        <3> QED BY <3>1, <3>2, <3>3
    <2>5. Partial(h, m + 1)
        BY <2>4
    <2> HIDE DEF Partial
    <2> QED BY <1>1, <2>5
<1>4. PICK g : Partial(g, Rounds)
    <2> HIDE DEF reached
    <2>1. Rounds \in reached
        BY <1>1, <1>2, <1>3, Stepwise
    <2> QED BY <2>1 DEF reached
<1> DEFINE f == [n \in 0 .. Rounds |-> g[n]]
<1>5. \A n \in 0 .. Rounds : f[n] = g[n]
    OBVIOUS
<1>6. ASSUME NEW n \in 0 .. Rounds PROVE g[n] = Round(f, n)
    <2>1. g[n] = Round(g, n)
        BY <1>4
    <2>2. CASE n = 0
        BY <2>1, <2>2, Zenon DEF Round
    <2>3. CASE n # 0
        <3>1. n - 1 \in 0 .. Rounds
            BY <1>1, <2>3
        <3>2. f[n - 1] = g[n - 1]
            BY <1>5, <3>1
        <3> HIDE DEF f
        <3> QED BY <2>1, <2>3, <3>2, Zenon DEF Round
    <2> QED BY <2>2, <2>3
<1>7. f = [n \in 0 .. Rounds |-> Round(f, n)]
    BY <1>6
<1> HIDE DEF f
<1>8. Completable = CHOOSE c : c = [n \in 0 .. Rounds |-> Round(c, n)]
    BY Zenon DEF Completable, Round, Rounds
<1> QED BY <1>7, <1>8, Zenon

LEMMA CompletableRounds ==
    ASSUME IsFiniteSet(DOMAIN deps)
    PROVE  /\ Rounds \in Nat /\ Completable[0] = {}
           /\ \A n \in 1 .. Rounds :
                 Completable[n] = {j \in DOMAIN deps : deps[j] \subseteq Completable[n - 1]}
           /\ \A n \in 0 .. Rounds : Completable[n] \subseteq DOMAIN deps
<1>1. Rounds \in Nat
    BY FS_CardinalityType DEF Rounds
<1>2. \A n \in 0 .. Rounds : Completable[n] = Round(Completable, n)
    BY CompletableUnfolds, Zenon
<1>3. Completable[0] = {}
    <2>1. Completable[0] = Round(Completable, 0)
        BY <1>1, <1>2
    <2> QED BY <2>1, Zenon DEF Round
<1>4. ASSUME NEW n \in 1 .. Rounds
      PROVE  Completable[n] = {j \in DOMAIN deps : deps[j] \subseteq Completable[n - 1]}
    <2>1. n \in 0 .. Rounds /\ n # 0
        OBVIOUS
    <2>2. Completable[n] = Round(Completable, n)
        BY <1>2, <2>1
    <2> QED BY <2>1, <2>2, Zenon DEF Round
<1>5. ASSUME NEW n \in 0 .. Rounds PROVE Completable[n] \subseteq DOMAIN deps
    <2>1. n = 0 \/ n \in 1 .. Rounds
        BY <1>1
    <2> QED BY <1>3, <1>4, <2>1
<1> QED BY <1>1, <1>3, <1>4, <1>5

\* Jobs that wait for each other, or for a job that is not there.
Stuck == \E T \in SUBSET DOMAIN deps :
            T # {} /\ \A j \in T : ~(deps[j] \subseteq DOMAIN deps \ T)

LEMMA StuckIsNeverComplete ==
    ASSUME IsFiniteSet(DOMAIN deps), Stuck
    PROVE  Completable[Rounds] # DOMAIN deps
<1>1. PICK T \in SUBSET DOMAIN deps : T # {} /\ \A j \in T : ~(deps[j] \subseteq DOMAIN deps \ T)
    BY DEF Stuck
<1> DEFINE apart == {n \in 0 .. Rounds : Completable[n] \cap T = {}}
<1>2. Rounds \in Nat /\ 0 \in apart
    BY CompletableRounds
<1>3. ASSUME NEW n \in 0 .. Rounds - 1, n \in apart PROVE n + 1 \in apart
    <2>1. n + 1 \in 1 .. Rounds /\ (n + 1) - 1 = n /\ n \in 0 .. Rounds /\ n + 1 \in 0 .. Rounds
        BY <1>2
    <2>2. Completable[n + 1] = {j \in DOMAIN deps : deps[j] \subseteq Completable[n]}
        BY <2>1, CompletableRounds
    <2>3. Completable[n] \subseteq DOMAIN deps \ T
        BY <1>3, <2>1, CompletableRounds
    <2> QED BY <1>1, <2>1, <2>2, <2>3
<1> HIDE DEF apart
<1>4. Rounds \in apart
    BY <1>2, <1>3, Stepwise
<1> QED BY <1>1, <1>4 DEF apart

LEMMA WellFoundedCompletes ==
    ASSUME IsFiniteSet(DOMAIN deps), WellFounded(DOMAIN deps),
           \A j \in DOMAIN deps : deps[j] \subseteq DOMAIN deps
    PROVE  Completable[Rounds] = DOMAIN deps
<1> DEFINE C(n) == Completable[n]
           filled == {n \in 0 .. Rounds : /\ C(n) = DOMAIN deps \/ Cardinality(C(n)) >= n
                                          /\ \A j \in C(n) : deps[j] \subseteq C(n)}
<1>1. Rounds \in Nat
    BY CompletableRounds
<1>2. \A n \in 0 .. Rounds : C(n) \subseteq DOMAIN deps /\ IsFiniteSet(C(n)) /\ Cardinality(C(n)) \in Nat
    BY CompletableRounds, FS_Subset, FS_CardinalityType
<1>3. 0 \in filled
    <2>1. C(0) = {}
        BY CompletableRounds
    <2> QED BY <1>1, <2>1, FS_EmptySet
<1>4. ASSUME NEW n \in 0 .. Rounds - 1, n \in filled PROVE n + 1 \in filled
    <2>1. n + 1 \in 1 .. Rounds /\ (n + 1) - 1 = n /\ n \in 0 .. Rounds /\ n + 1 \in 0 .. Rounds
        BY <1>1
    <2>2. C(n + 1) = {j \in DOMAIN deps : deps[j] \subseteq C(n)}
        BY <2>1, CompletableRounds
    <2>3. C(n) \subseteq C(n + 1)
        BY <1>2, <1>4, <2>1, <2>2
    <2>4. \A j \in C(n + 1) : deps[j] \subseteq C(n + 1)
        BY <2>2, <2>3
    <2>5. CASE C(n) = DOMAIN deps
        BY <2>1, <2>2, <2>4, <2>5
    <2>6. CASE C(n) # DOMAIN deps
        <3>1. PICK j \in DOMAIN deps \ C(n) : deps[j] \cap (DOMAIN deps \ C(n)) = {}
            BY <1>2, <2>1, <2>6 DEF WellFounded
        <3>2. j \in C(n + 1)
            BY <2>2, <3>1
        <3>3. Cardinality(C(n) \cup {j}) = Cardinality(C(n)) + 1
            BY <1>2, <2>1, <3>1, FS_AddElement
        <3>4. Cardinality(C(n) \cup {j}) <= Cardinality(C(n + 1))
            <4>1. C(n) \cup {j} \in SUBSET C(n + 1)
                BY <2>3, <3>2
            <4> HIDE DEF C
            <4> QED BY <1>2, <2>1, <4>1, FS_Subset
        <3>5. Cardinality(C(n)) >= n
            BY <1>4, <2>6
        <3>6. Cardinality(C(n + 1)) >= n + 1
            <4>1. Cardinality(C(n)) \in Nat /\ Cardinality(C(n + 1)) \in Nat
                BY <1>2, <2>1
            <4> HIDE DEF C
            <4> QED BY <2>1, <3>3, <3>4, <3>5, <4>1
        <3> QED BY <2>1, <2>4, <3>6
    <2> QED BY <2>5, <2>6
<1>5. Rounds \in filled
    <2> HIDE DEF filled
    <2> QED BY <1>1, <1>3, <1>4, Stepwise
<1>6. C(Rounds) = DOMAIN deps \/ Cardinality(C(Rounds)) >= Rounds
    BY <1>5
<1>7. CASE Cardinality(C(Rounds)) >= Rounds
    <2>1. Rounds \in 0 .. Rounds
        BY <1>1
    <2>2. C(Rounds) \in SUBSET DOMAIN deps /\ Cardinality(C(Rounds)) \in Nat
        BY <1>2, <2>1
    <2>3. Cardinality(C(Rounds)) <= Cardinality(DOMAIN deps)
        BY <2>2, FS_Subset
    <2>4. Cardinality(DOMAIN deps) = Cardinality(C(Rounds))
        BY <1>1, <1>7, <2>2, <2>3 DEF Rounds
    <2> HIDE DEF C
    <2> QED BY <2>2, <2>4, FS_Subset DEF C
<1> QED BY <1>6, <1>7

-----------------------------------------------------------------------------
\* What the design says of a job.

TransplantGames ==
    {Game(<<4, 6>>, d[2], s, c, "base", d[1]) :
        d \in Directions, s \in CncSeeds, c \in CncConditions}

Measured(k) == [k EXCEPT !.exclusive = TRUE]
Selecting(k, s) == [k EXCEPT !.selectors = s]
Configured(k, c) == [k EXCEPT !.configs = c]

\* The physical job of a family that plays a game.
StagesOf(f) ==
    IF f \in {"solver_benchmark", "mixed_challenge", "scalability_exact", "scalability_sparse"}
    THEN {"training", "formal_audit"}
    ELSE IF f = "policy_transplant" THEN {"transplant_audit"}
    ELSE IF f = "mwu_tuning_pipeline"
    THEN {"runtime_measurement", "training", "mwu_tuning_audit"}
    ELSE IF f \in {"cnc_main", "policy_library_sensitivity", "parameter_robustness",
                   "selection_sensitivity"}
    THEN Evaluate
    ELSE {"runtime_measurement"}
SolversOf(f) ==
    IF f \in {"scalability_sparse", "scalability_sparse_runtime", "mwu_tuning_pipeline"}
    THEN SparseBundle
    ELSE IF f \in {"cnc_main", "policy_library_sensitivity", "parameter_robustness",
                   "policy_transplant"}
    THEN DSS
    ELSE IF f = "selection_sensitivity" THEN {"FullTensor-CCE-LP"}
    ELSE FullBundle
MeasuredFamilies == {"solver_benchmark_runtime", "scalability_exact_runtime",
                     "scalability_sparse_runtime", "mwu_tuning_pipeline"}
Pipeline(f, g) ==
    LET key == Key(f, g, StagesOf(f), SolversOf(f)) IN
    IF f = "mwu_tuning_pipeline" THEN Configured(Measured(key), TuningConfigs)
    ELSE IF f = "selection_sensitivity" THEN Selecting(key, Selectors)
    ELSE IF f \in MeasuredFamilies THEN Measured(key)
    ELSE key
Pipelines(f, games) == {Pipeline(f, g) : g \in games}

LEMMA EvidenceSets ==
    /\ solver_jobs = Pipelines("solver_benchmark", SolverGames)
    /\ mixed_challenge_jobs = Pipelines("mixed_challenge", MixedGames)
    /\ cnc_main_jobs = Pipelines("cnc_main", CncGames)
    /\ transplant_jobs = Pipelines("policy_transplant", TransplantGames)
    /\ policy_library_sensitivity_jobs["training"]
          = Pipelines("policy_library_sensitivity", LibraryGames)
    /\ parameter_robustness_jobs["training"]
          = Pipelines("parameter_robustness", RobustnessGames)
    /\ exact_scalability_jobs = Pipelines("scalability_exact", ExactGames)
    /\ sparse_scalability_jobs = Pipelines("scalability_sparse", SparseGames)
<1>1. ASSUME NEW f \in {"solver_benchmark", "mixed_challenge", "cnc_main", "policy_transplant",
                        "policy_library_sensitivity", "parameter_robustness",
                        "scalability_exact", "scalability_sparse"}, NEW games
      PROVE  Pipelines(f, games) = Jobs(f, games, StagesOf(f), SolversOf(f))
    <2>1. \A g : Pipeline(f, g) = Key(f, g, StagesOf(f), SolversOf(f))
        <3>1. f # "selection_sensitivity" /\ f # "mwu_tuning_pipeline" /\ f \notin MeasuredFamilies
            BY DEF MeasuredFamilies
        <3> QED BY <3>1, Zenon DEF Pipeline
    <2> QED BY <2>1, Zenon DEF Pipelines, Jobs
<1> QED
    BY <1>1 DEF StagesOf, SolversOf, solver_jobs, mixed_challenge_jobs, cnc_main_jobs,
        transplant_jobs, TransplantGames, policy_library_sensitivity_jobs,
        parameter_robustness_jobs, exact_scalability_jobs, sparse_scalability_jobs

LEMMA PipelineFields ==
    ASSUME NEW f, NEW g
    PROVE  LET k == Pipeline(f, g) IN
           /\ k.family = f /\ k.game = g /\ k.stages = StagesOf(f) /\ k.solvers = SolversOf(f)
           /\ k.selectors = IF f = "selection_sensitivity" THEN Selectors ELSE {}
           /\ k.configs = IF f = "mwu_tuning_pipeline" THEN TuningConfigs ELSE {}
<1> DEFINE key == Key(f, g, StagesOf(f), SolversOf(f))
           Fields(k) == /\ k.family = f /\ k.game = g
                        /\ k.stages = StagesOf(f) /\ k.solvers = SolversOf(f)
           All(k) == DOMAIN k = {"family", "game", "stages", "solvers", "selectors",
                                 "configs", "exclusive"}
<1>1. All(key) /\ Fields(key) /\ key.selectors = {} /\ key.configs = {}
    BY DEF Key
<1> HIDE DEF key
<1>2. ASSUME NEW k, All(k), Fields(k)
      PROVE  /\ All(Measured(k)) /\ Fields(Measured(k))
             /\ Measured(k).selectors = k.selectors /\ Measured(k).configs = k.configs
    BY <1>2 DEF Measured
<1>3. ASSUME NEW k, NEW x, All(k), Fields(k)
      PROVE  /\ Fields(Selecting(k, x))
             /\ Selecting(k, x).selectors = x /\ Selecting(k, x).configs = k.configs
    BY <1>3 DEF Selecting
<1>4. ASSUME NEW k, NEW x, All(k), Fields(k)
      PROVE  /\ Fields(Configured(k, x))
             /\ Configured(k, x).selectors = k.selectors /\ Configured(k, x).configs = x
    BY <1>4 DEF Configured
<1>5. Pipeline(f, g) = IF f = "mwu_tuning_pipeline" THEN Configured(Measured(key), TuningConfigs)
                       ELSE IF f = "selection_sensitivity" THEN Selecting(key, Selectors)
                       ELSE IF f \in MeasuredFamilies THEN Measured(key)
                       ELSE key
    BY DEF Pipeline, key
<1> HIDE DEF All, Fields
<1> DEFINE k == Pipeline(f, g)
<1>6. Fields(k) /\ k.selectors = (IF f = "selection_sensitivity" THEN Selectors ELSE {})
                /\ k.configs = (IF f = "mwu_tuning_pipeline" THEN TuningConfigs ELSE {})
    <2>1. CASE f = "mwu_tuning_pipeline"
        BY <1>1, <1>2, <1>4, <1>5, <2>1
    <2>2. CASE f = "selection_sensitivity"
        BY <1>1, <1>3, <1>5, <2>2
    <2>3. CASE f # "mwu_tuning_pipeline" /\ f # "selection_sensitivity"
        BY <1>1, <1>2, <1>5, <2>3
    <2> QED BY <2>1, <2>2, <2>3
<1> QED BY <1>6 DEF Fields

LEMMA MeasuringSets ==
    /\ solver_runtime_jobs = Pipelines("solver_benchmark_runtime", SolverGames)
    /\ exact_scalability_runtime_jobs = Pipelines("scalability_exact_runtime", ExactGames)
    /\ sparse_scalability_runtime_jobs = Pipelines("scalability_sparse_runtime", SparseGames)
<1>1. ASSUME NEW f \in {"solver_benchmark_runtime", "scalability_exact_runtime",
                        "scalability_sparse_runtime"}, NEW games
      PROVE  Pipelines(f, games) = Exclusive(Jobs(f, games, StagesOf(f), SolversOf(f)))
    <2> DEFINE h(g) == Key(f, g, StagesOf(f), SolversOf(f))
    <2>1. f # "selection_sensitivity" /\ f # "mwu_tuning_pipeline" /\ f \in MeasuredFamilies
        BY DEF MeasuredFamilies
    <2>2. \A g : Pipeline(f, g) = Measured(h(g))
        BY <2>1, Zenon DEF Pipeline
    <2>3. Jobs(f, games, StagesOf(f), SolversOf(f)) = {h(g) : g \in games}
        BY DEF Jobs
    <2> HIDE DEF h
    <2>4. Exclusive({h(g) : g \in games}) = {Measured(h(g)) : g \in games}
        BY DEF Exclusive, Measured
    <2> QED BY <2>2, <2>3, <2>4, Zenon DEF Pipelines
<1> QED
    BY <1>1 DEF StagesOf, SolversOf, solver_runtime_jobs, exact_scalability_runtime_jobs,
        sparse_scalability_runtime_jobs

LEMMA TuningSet == mwu_tuning_pipeline_jobs = Pipelines("mwu_tuning_pipeline", TuningGames)
<1> DEFINE f == "mwu_tuning_pipeline"
           plain(g) == Key(f, g, StagesOf(f), SolversOf(f))
           measured(g) == Measured(plain(g))
<1>1. f # "selection_sensitivity" /\ f \in MeasuredFamilies
    BY DEF MeasuredFamilies
<1>2. ASSUME NEW g PROVE Pipeline(f, g) = Configured(measured(g), TuningConfigs)
    BY Zenon DEF Pipeline
<1>3. Jobs(f, TuningGames, StagesOf(f), SolversOf(f)) = {plain(g) : g \in TuningGames}
    BY DEF Jobs
<1>4. StagesOf(f) = {"runtime_measurement", "training", "mwu_tuning_audit"}
      /\ SolversOf(f) = SparseBundle
    BY DEF StagesOf, SolversOf
<1>5. mwu_tuning_pipeline_jobs
        = WithConfigs(Exclusive({plain(g) : g \in TuningGames}), {TuningConfigs})
    BY <1>3, <1>4, Zenon DEF mwu_tuning_pipeline_jobs
<1> HIDE DEF f
<1> HIDE DEF plain
<1>6. Exclusive({plain(g) : g \in TuningGames}) = {measured(g) : g \in TuningGames}
    BY DEF Exclusive, Measured
<1> HIDE DEF measured
<1>7. WithConfigs({measured(g) : g \in TuningGames}, {TuningConfigs})
        = {Configured(measured(g), TuningConfigs) : g \in TuningGames}
    BY DEF WithConfigs, Configured
<1> QED BY <1>2, <1>5, <1>6, <1>7, Zenon DEF Pipelines, f

LEMMA SelectingSet ==
    selection_sensitivity_jobs = Pipelines("selection_sensitivity", SelectionGames)
<1> DEFINE f == "selection_sensitivity"
           plain(g) == Key(f, g, StagesOf(f), SolversOf(f))
<1>1. f # "mwu_tuning_pipeline" /\ f \notin MeasuredFamilies
    BY DEF MeasuredFamilies
<1>2. ASSUME NEW g PROVE Pipeline(f, g) = Selecting(plain(g), Selectors)
    BY <1>1, Zenon DEF Pipeline
<1>3. Jobs(f, SelectionGames, StagesOf(f), SolversOf(f)) = {plain(g) : g \in SelectionGames}
    BY DEF Jobs
<1>4. StagesOf(f) = Evaluate /\ SolversOf(f) = {"FullTensor-CCE-LP"}
    BY DEF StagesOf, SolversOf
<1>5. selection_sensitivity_jobs = WithSelectors({plain(g) : g \in SelectionGames}, {Selectors})
    BY <1>3, <1>4, Zenon DEF selection_sensitivity_jobs
<1> HIDE DEF f
<1> HIDE DEF plain
<1>6. WithSelectors({plain(g) : g \in SelectionGames}, {Selectors})
        = {Selecting(plain(g), Selectors) : g \in SelectionGames}
    BY DEF WithSelectors, Selecting
<1> QED BY <1>2, <1>5, <1>6, Zenon DEF Pipelines, f

-----------------------------------------------------------------------------
\* The physical jobs: each family with the games it plays.
Plays(f) ==
    IF f \in {"solver_benchmark", "solver_benchmark_runtime"} THEN SolverGames
    ELSE IF f = "mixed_challenge" THEN MixedGames
    ELSE IF f = "cnc_main" THEN CncGames
    ELSE IF f = "policy_transplant" THEN TransplantGames
    ELSE IF f = "policy_library_sensitivity" THEN LibraryGames
    ELSE IF f = "parameter_robustness" THEN RobustnessGames
    ELSE IF f \in {"scalability_exact", "scalability_exact_runtime"} THEN ExactGames
    ELSE IF f \in {"scalability_sparse", "scalability_sparse_runtime"} THEN SparseGames
    ELSE IF f = "mwu_tuning_pipeline" THEN TuningGames
    ELSE SelectionGames
Families == {"solver_benchmark", "solver_benchmark_runtime", "mixed_challenge", "cnc_main",
             "policy_transplant", "policy_library_sensitivity", "parameter_robustness",
             "scalability_exact", "scalability_exact_runtime", "scalability_sparse",
             "scalability_sparse_runtime", "mwu_tuning_pipeline", "selection_sensitivity"}

LEMMA PhysicalKinds ==
    physical_jobs = UNION {Pipelines(f, Plays(f)) : f \in Families}
<1>1. physical_jobs =
        Pipelines("mwu_tuning_pipeline", TuningGames)
        \cup Pipelines("solver_benchmark", SolverGames)
        \cup Pipelines("mixed_challenge", MixedGames) \cup Pipelines("cnc_main", CncGames)
        \cup Pipelines("selection_sensitivity", SelectionGames)
        \cup Pipelines("policy_transplant", TransplantGames)
        \cup Pipelines("policy_library_sensitivity", LibraryGames)
        \cup Pipelines("parameter_robustness", RobustnessGames)
        \cup Pipelines("scalability_exact", ExactGames)
        \cup Pipelines("scalability_sparse", SparseGames)
        \cup Pipelines("solver_benchmark_runtime", SolverGames)
        \cup Pipelines("scalability_exact_runtime", ExactGames)
        \cup Pipelines("scalability_sparse_runtime", SparseGames)
    BY EvidenceSets, MeasuringSets, TuningSet, SelectingSet, Zenon DEF physical_jobs
<1> QED
    BY <1>1 DEF Plays, Families

LEMMA PhysicalJob ==
    ASSUME NEW k
    PROVE  k \in physical_jobs <=>
              /\ k = Pipeline(k.family, k.game)
              /\ k.family \in Families /\ k.game \in Plays(k.family)
<1>1. \A f, g : Pipeline(f, g).family = f /\ Pipeline(f, g).game = g
    BY PipelineFields
<1> QED BY <1>1, PhysicalKinds DEF Pipelines

\* The fields of a game.
LEMMA GameFields ==
    ASSUME NEW size, NEW m, NEW s, NEW c, NEW i, NEW src
    PROVE  LET g == Game(size, m, s, c, i, src) IN
           /\ g.n = size[1] /\ g.j = size[2] /\ g.mechanism = m /\ g.seed = s
           /\ g.condition = c /\ g.item = i /\ g.source = src
BY DEF Game

AllSeeds == UNION {SolverSeeds, MixedSeeds, CncSeeds, SensitivitySeeds, RobustnessSeeds,
                   ScalabilitySeeds, TuningSeeds}

LEMMA GameOf ==
    ASSUME NEW sizes, NEW ms, NEW seeds, NEW cs, NEW items, NEW g \in Games(sizes, ms, seeds, cs, items)
    PROVE  \E size \in sizes, m \in ms, s \in seeds, c \in cs, i \in items :
              /\ g = Game(size, m, s, c, i, "none")
              /\ g.n = size[1] /\ g.j = size[2] /\ g.mechanism = m /\ g.seed = s
              /\ g.condition = c /\ g.item = i /\ g.source = "none"
<1>1. PICK size \in sizes, m \in ms, s \in seeds, c \in cs, i \in items :
        g = Game(size, m, s, c, i, "none")
    BY SMT DEF Games
<1> QED BY <1>1, GameFields

LEMMA PlayedSeeds ==
    ASSUME NEW f \in Families, NEW g \in Plays(f)
    PROVE  g.seed \in 0 .. SeedLimit - 1
<1>1. AllSeeds \subseteq 0 .. SeedLimit - 1
    BY SeedAssumption DEF AllSeeds
<1>2. g.seed \in AllSeeds
    <2>1. CASE g \in SolverGames
        BY <2>1, GameOf DEF SolverGames, AllSeeds
    <2>2. CASE g \in MixedGames
        BY <2>2, GameOf DEF MixedGames, AllSeeds
    <2>3. CASE g \in CncGames
        BY <2>3, GameOf DEF CncGames, AllSeeds
    <2>4. CASE g \in TransplantGames
        <3>1. PICK d \in Directions, s \in CncSeeds, c \in CncConditions :
                g = Game(<<4, 6>>, d[2], s, c, "base", d[1])
            BY <2>4 DEF TransplantGames
        <3> QED BY <3>1, GameFields DEF AllSeeds
    <2>5. CASE g \in LibraryGames
        <3>1. PICK v \in DOMAIN LibrarySizes :
                g \in Games({<<4, LibrarySizes[v]>>}, Mechanisms, SensitivitySeeds, Representative, {v})
            BY <2>5, Zenon DEF LibraryGames
        <3> QED BY <3>1, GameOf DEF AllSeeds
    <2>6. CASE g \in RobustnessGames
        BY <2>6, GameOf DEF RobustnessGames, AllSeeds
    <2>7. CASE g \in ExactGames
        BY <2>7, GameOf DEF ExactGames, AllSeeds
    <2>8. CASE g \in SparseGames
        BY <2>8, GameOf DEF SparseGames, AllSeeds
    <2>9. CASE g \in TuningGames
        BY <2>9, GameOf DEF TuningGames, AllSeeds
    <2>10. CASE g \in SelectionGames
        BY <2>10, GameOf DEF SelectionGames, AllSeeds
    <2> QED BY <2>1, <2>2, <2>3, <2>4, <2>5, <2>6, <2>7, <2>8, <2>9, <2>10 DEF Plays
<1> HIDE DEF AllSeeds
<1> QED BY <1>1, <1>2, Zenon

-----------------------------------------------------------------------------
\* The streams of a namespace lie in a window above its offset.
WidestBase == 550000
Window(ns) == Offsets[ns] .. Offsets[ns] + WidestBase + SeedLimit

LEMMA StreamWindow ==
    ASSUME NEW k \in physical_jobs, NEW ns \in DOMAIN Offsets, NEW x \in Streams(k, ns)
    PROVE  x \in Window(ns)
<1>1. k.game.seed \in 0 .. SeedLimit - 1
    BY PhysicalJob, PlayedSeeds
<1>2. Offsets[ns] \in Nat /\ SeedLimit \in Nat /\ WidestBase \in Nat
    BY SMT DEF Offsets, SeedLimit, WidestBase
<1>3. PICK f \in DynamicFields :
        x = (IF k.family \in CncSeedFamilies THEN CncSeedBase ELSE SeedBase)[f]
              + k.game.seed + Offsets[ns]
    BY SMT DEF Streams
<1>4. CncSeedBase[f] \in 0 .. WidestBase /\ SeedBase[f] \in 0 .. WidestBase
    <2>1. f \in {"order", "outside", "availability", "tie_break", "rollout_replication"}
        BY DEF DynamicFields
    <2>2. CncSeedBase[f] \in Nat /\ CncSeedBase[f] <= WidestBase
        <3>1. /\ CncSeedBase["order"] = 110000 /\ CncSeedBase["outside"] = 440000
              /\ CncSeedBase["availability"] = 550000 /\ CncSeedBase["tie_break"] = 220000
              /\ CncSeedBase["rollout_replication"] = 330000
            BY SMT DEF CncSeedBase
        <3> QED BY <2>1, <3>1, SMT DEF WidestBase
    <2>3. SeedBase[f] \in Nat /\ SeedBase[f] <= WidestBase
        <3>1. /\ SeedBase["order"] = 1000 /\ SeedBase["outside"] = 4000
              /\ SeedBase["availability"] = 5000 /\ SeedBase["tie_break"] = 2000
              /\ SeedBase["rollout_replication"] = 3000
            BY SMT DEF SeedBase
        <3> QED BY <2>1, <3>1, SMT DEF WidestBase
    <2> QED BY <1>2, <2>2, <2>3
<1> QED BY <1>1, <1>2, <1>3, <1>4 DEF Window

\* The windows of two namespaces do not meet.
LEMMA WindowsApart ==
    /\ Window("training") \cap Window("mwu_tuning_audit") = {}
    /\ \A low \in {"training", "mwu_tuning_audit"},
          high \in {"formal_audit", "outcome_evaluation", "transplant_audit"} :
          Window(low) \cap Window(high) = {}
<1>1. /\ Offsets["training"] = 0 /\ Offsets["mwu_tuning_audit"] = 15000000
      /\ Offsets["formal_audit"] = 20000000 /\ Offsets["outcome_evaluation"] = 30000000
      /\ Offsets["transplant_audit"] = 40000000
    BY SMT DEF Offsets
<1>2. WidestBase = 550000 /\ SeedLimit = 1000000
    BY SMT DEF WidestBase, SeedLimit
<1>3. ASSUME NEW low \in DOMAIN Offsets, NEW high \in DOMAIN Offsets,
             Offsets[low] \in Nat, Offsets[high] \in Nat, Offsets[low] + 1550000 < Offsets[high]
      PROVE  Window(low) \cap Window(high) = {}
    BY <1>2, <1>3, SMT DEF Window
<1>4. DOMAIN Offsets = {"training", "mwu_tuning_audit", "formal_audit", "outcome_evaluation",
                        "transplant_audit"}
    BY SMT DEF Offsets
<1>5. Window("training") \cap Window("mwu_tuning_audit") = {}
    BY <1>1, <1>3, <1>4, SMT
<1>6. ASSUME NEW low \in {"training", "mwu_tuning_audit"},
             NEW high \in {"formal_audit", "outcome_evaluation", "transplant_audit"}
      PROVE  Window(low) \cap Window(high) = {}
    <2>1. /\ Offsets[low] \in Nat /\ Offsets[low] <= 15000000
          /\ Offsets[high] \in Nat /\ Offsets[high] >= 20000000
        BY <1>1, SMT
    <2>2. low \in DOMAIN Offsets /\ high \in DOMAIN Offsets
        BY <1>4, SMT
    <2> QED BY <1>3, <2>1, <2>2, SMT
<1> QED
    BY <1>5, <1>6, Zenon

LEMMA NamespacesApart ==
    ASSUME NEW k \in physical_jobs, NEW l \in physical_jobs,
           NEW low \in {"training", "mwu_tuning_audit"},
           NEW high \in {"formal_audit", "outcome_evaluation", "transplant_audit"}
    PROVE  Streams(k, low) \cap Streams(l, high) = {}
<1>1. low \in DOMAIN Offsets /\ high \in DOMAIN Offsets
    BY SMT DEF Offsets
<1> QED BY <1>1, StreamWindow, WindowsApart

LEMMA PhysicalSeedsIsolated ==
    ASSUME NEW k \in physical_jobs
    PROVE  SeedsIsolated(k)
<1>1. CASE AuditNamespace(k) = "mwu_tuning_audit"
    <2>1. "training" \in DOMAIN Offsets /\ "mwu_tuning_audit" \in DOMAIN Offsets
        BY SMT DEF Offsets
    <2> QED BY <1>1, <2>1, StreamWindow, WindowsApart DEF SeedsIsolated
<1>2. CASE AuditNamespace(k) \in {"formal_audit", "outcome_evaluation", "transplant_audit"}
    BY <1>2, NamespacesApart DEF SeedsIsolated
<1> QED BY <1>1, <1>2 DEF AuditNamespace

-----------------------------------------------------------------------------
\* What is chosen at the start stays, and a plan draws its jobs from the matrix.
InputInv == phase \in {"all", "calibration", "formal", "loaded"}

LEMMA InputAlways == Spec => []InputInv
<1>1. Init => InputInv
    BY DEF Init, InitBuild, InitLoad, InputInv
<1>2. InputInv /\ [Next]_vars => InputInv'
    <2> SUFFICES ASSUME InputInv, [Next]_vars PROVE InputInv'
        OBVIOUS
    <2>1. UNCHANGED input
        BY DEF Next, vars, Begin, AssignNext, Freeze, Check, VisitRoot, VisitDependency,
            VisitReturns, Decide, Ended
    <2> QED BY <2>1 DEF InputInv, input
<1> QED BY <1>1, <1>2, PTL DEF Spec

LEMMA KeysOfMatrix ==
    ASSUME InputInv, phase # "loaded"
    PROVE  /\ Keys \subseteq physical_jobs
           /\ phase = "all" => Keys = physical_jobs
           /\ phase = "calibration" => Keys = Calibration
           /\ phase = "formal" => Keys = physical_jobs \ Calibration
BY DEF InputInv, Keys, Calibration

\* Whatever the seeds of the design, no audit or outcome stage of any of its jobs draws
\* from a stream that a job trains, measures or tunes with (FormalSeedNamespaces).
THEOREM NoStreamIsUsedTwice == Spec => []EvidenceIsFresh
<1>1. InputInv => EvidenceIsFresh
    <2> SUFFICES ASSUME InputInv, phase # "loaded",
                        NEW x \in StreamsOf(EvidenceStages),
                        x \in StreamsOf({"training", "runtime_measurement", "mwu_tuning_audit"})
                 PROVE  FALSE
        BY DEF EvidenceIsFresh
    <2>1. ASSUME NEW stages, NEW y \in StreamsOf(stages)
          PROVE  \E k \in Keys, st \in stages : y \in Streams(k, NamespaceOf(st))
        <3>1. PICK p \in Keys \X stages : y \in Streams(p[1], NamespaceOf(p[2]))
            BY Zenon DEF StreamsOf
        <3> QED BY <3>1
    <2>2. PICK k \in Keys, st \in EvidenceStages : x \in Streams(k, NamespaceOf(st))
        BY <2>1, Zenon
    <2>3. PICK l \in Keys, low \in {"training", "runtime_measurement", "mwu_tuning_audit"} :
            x \in Streams(l, NamespaceOf(low))
        BY <2>1
    <2>4. NamespaceOf(st) \in {"formal_audit", "outcome_evaluation", "transplant_audit"}
        BY DEF EvidenceStages, NamespaceOf
    <2>5. NamespaceOf(low) \in {"training", "mwu_tuning_audit"}
        BY DEF NamespaceOf
    <2>6. k \in physical_jobs /\ l \in physical_jobs
        BY KeysOfMatrix
    <2> QED BY <2>2, <2>3, <2>4, <2>5, <2>6, NamespacesApart
<1> QED BY <1>1, InputAlways, PTL

-----------------------------------------------------------------------------
\* Games with the same fields are the same.
Rebuilt(g) == Game(<<g.n, g.j>>, g.mechanism, g.seed, g.condition, g.item, g.source)

LEMMA GameRebuilt ==
    ASSUME NEW size, NEW m, NEW s, NEW c, NEW i, NEW src
    PROVE  LET g == Game(size, m, s, c, i, src) IN g = Rebuilt(g)
<1>1. <<size[1], size[2]>>[1] = size[1] /\ <<size[1], size[2]>>[2] = size[2]
    OBVIOUS
<1>2. Game(<<size[1], size[2]>>, m, s, c, i, src) = Game(size, m, s, c, i, src)
    BY <1>1, Zenon DEF Game
<1> DEFINE g == Game(size, m, s, c, i, src)
<1>3. /\ g.n = size[1] /\ g.j = size[2] /\ g.mechanism = m /\ g.seed = s
      /\ g.condition = c /\ g.item = i /\ g.source = src
    BY GameFields
<1> HIDE DEF g
<1>4. Rebuilt(g) = Game(<<size[1], size[2]>>, m, s, c, i, src)
    BY <1>3, Zenon DEF Rebuilt
<1> QED BY <1>2, <1>4, Zenon DEF g

LEMMA OneGame ==
    ASSUME NEW sizes, NEW ms, NEW seeds, NEW cs, NEW items,
           \A x, y \in cs : x = y, \A x, y \in items : x = y,
           NEW g \in Games(sizes, ms, seeds, cs, items),
           NEW h \in Games(sizes, ms, seeds, cs, items), SameGame(g, h)
    PROVE  g = h
<1>1. ASSUME NEW x \in Games(sizes, ms, seeds, cs, items)
      PROVE  x = Rebuilt(x) /\ x.condition \in cs /\ x.item \in items /\ x.source = "none"
    <2>1. PICK size \in sizes, m \in ms, s \in seeds, c \in cs, i \in items :
            x = Game(size, m, s, c, i, "none")
        BY GameOf
    <2> QED BY <2>1, GameRebuilt, GameFields
<1>2. g.n = h.n /\ g.j = h.j /\ g.mechanism = h.mechanism /\ g.seed = h.seed
    BY DEF SameGame
<1>3. g.condition = h.condition /\ g.item = h.item /\ g.source = h.source
    BY <1>1
<1>4. g = Rebuilt(g) /\ h = Rebuilt(h)
    BY <1>1
<1> QED BY <1>2, <1>3, <1>4, Zenon DEF Rebuilt

\* The dependencies of an evidence job: its runtime job.
LEMMA PairedIsOne ==
    ASSUME InputInv, phase # "loaded", NEW k \in Keys, k.family \in DOMAIN RuntimeFamily
    PROVE  Paired(k) = {Pipeline(RuntimeFamily[k.family], k.game)}
<1> DEFINE rf == RuntimeFamily[k.family]
           r == Pipeline(rf, k.game)
<1>1. /\ k.family \in {"solver_benchmark", "scalability_exact", "scalability_sparse"}
      /\ rf = IF k.family = "solver_benchmark" THEN "solver_benchmark_runtime"
              ELSE IF k.family = "scalability_exact" THEN "scalability_exact_runtime"
              ELSE "scalability_sparse_runtime"
    BY DEF RuntimeFamily
<1>2. k.game \in Plays(k.family) /\ Plays(rf) = Plays(k.family) /\ rf \in Families
    <2>1. k \in physical_jobs
        BY KeysOfMatrix
    <2> QED BY <1>1, <2>1, PhysicalJob DEF Plays, Families
<1>3. r.family = rf /\ r.game = k.game
    BY PipelineFields
<1> HIDE DEF r
<1>4. r \in physical_jobs
    BY <1>2, <1>3, PhysicalJob DEF r
<1>5. r \in Keys
    <2>1. k \notin Calibration /\ r \notin Calibration
        BY <1>1, <1>3 DEF Calibration
    <2> QED BY <1>4, <2>1, KeysOfMatrix DEF InputInv
<1>6. r \in Paired(k)
    BY <1>3, <1>5 DEF Paired, SameGame
<1>7. ASSUME NEW o \in Paired(k) PROVE o = r
    <2> HIDE DEF rf
    <2>1. o \in physical_jobs /\ o.family = rf /\ SameGame(o.game, k.game)
        BY KeysOfMatrix DEF Paired, rf
    <2>2. o = Pipeline(rf, o.game) /\ o.game \in Plays(k.family)
        BY <1>2, <2>1, PhysicalJob
    <2>3. o.game = k.game
        <3>1. Plays(k.family) \in {SolverGames, ExactGames, SparseGames}
            BY <1>1 DEF Plays
        <3>2. CASE Plays(k.family) = SolverGames
            <4>1. SolverGames = Games(SolverSizes, Mechanisms, SolverSeeds, {"base"}, {"base"})
                BY DEF SolverGames
            <4> QED BY <1>2, <2>1, <2>2, <3>2, <4>1, OneGame
        <3>3. CASE Plays(k.family) = ExactGames
            <4>1. ExactGames = Games(ExactSizes, Mechanisms, ScalabilitySeeds, {"base"}, {"exact"})
                BY DEF ExactGames
            <4> QED BY <1>2, <2>1, <2>2, <3>3, <4>1, OneGame
        <3>4. CASE Plays(k.family) = SparseGames
            <4>1. SparseGames = Games(SparseSizes, SparseMechanisms, ScalabilitySeeds, {"base"}, {"sparse"})
                BY DEF SparseGames
            <4> QED BY <1>2, <2>1, <2>2, <3>4, <4>1, OneGame
        <3> QED BY <3>1, <3>2, <3>3, <3>4
    <2> QED BY <2>2, <2>3 DEF r
<1> QED BY <1>6, <1>7 DEF r

LEMMA InGames ==
    ASSUME NEW sizes, NEW ms, NEW seeds, NEW cs, NEW items,
           NEW size \in sizes, NEW m \in ms, NEW s \in seeds, NEW c \in cs, NEW i \in items
    PROVE  Game(size, m, s, c, i, "none") \in Games(sizes, ms, seeds, cs, items)
BY SMT DEF Games

\* The dependencies of a transplant: the main jobs of both of its mechanisms.
MainGame(m, s, c) == Game(<<4, 6>>, m, s, c, "base", "none")

LEMMA MainGameFields ==
    ASSUME NEW m, NEW s, NEW c
    PROVE  LET g == MainGame(m, s, c) IN g.mechanism = m /\ g.seed = s /\ g.condition = c
BY GameFields DEF MainGame

LEMMA MainJobs ==
    cnc_main_jobs = {Pipeline("cnc_main", MainGame(m, s, c)) :
                        m \in Mechanisms, s \in CncSeeds, c \in CncConditions}
<1>1. CncGames = {MainGame(m, s, c) : m \in Mechanisms, s \in CncSeeds, c \in CncConditions}
    <2>1. ASSUME NEW g \in CncGames
          PROVE  \E m \in Mechanisms, s \in CncSeeds, c \in CncConditions : g = MainGame(m, s, c)
        <3>1. PICK size \in {<<4, 6>>}, m \in Mechanisms, s \in CncSeeds, c \in CncConditions,
                   i \in {"base"} : g = Game(size, m, s, c, i, "none")
            BY SMT DEF CncGames, Games
        <3> QED BY <3>1 DEF MainGame
    <2>2. ASSUME NEW m \in Mechanisms, NEW s \in CncSeeds, NEW c \in CncConditions
          PROVE  MainGame(m, s, c) \in CncGames
        <3>1. <<4, 6>> \in {<<4, 6>>} /\ "base" \in {"base"}
            OBVIOUS
        <3> QED BY <3>1, InGames DEF CncGames, MainGame
    <2> QED BY <2>1, <2>2
<1> QED BY <1>1, EvidenceSets DEF Pipelines

LEMMA TransplantedAreTwo ==
    ASSUME NEW k \in physical_jobs, k.family = "policy_transplant"
    PROVE  \E a, b : a # b /\ Transplanted(k) = {a, b}
<1>1. k.game \in TransplantGames
    BY PhysicalJob DEF Plays
<1>2. PICK d \in Directions, s \in CncSeeds, c \in CncConditions :
        k.game = Game(<<4, 6>>, d[2], s, c, "base", d[1])
    BY <1>1 DEF TransplantGames
<1>3. /\ k.game.source = d[1] /\ k.game.mechanism = d[2]
      /\ k.game.seed = s /\ k.game.condition = c
    BY <1>2, GameFields
<1>4. d[1] \in Mechanisms /\ d[2] \in Mechanisms /\ d[1] # d[2]
    BY MatrixAssumption
<1> DEFINE a == Pipeline("cnc_main", MainGame(d[1], s, c))
           b == Pipeline("cnc_main", MainGame(d[2], s, c))
<1>5. /\ a.game.mechanism = d[1] /\ a.game.seed = s /\ a.game.condition = c
      /\ b.game.mechanism = d[2] /\ b.game.seed = s /\ b.game.condition = c
    BY PipelineFields, MainGameFields
<1>6. a # b
    BY <1>4, <1>5
<1>7. a \in cnc_main_jobs /\ b \in cnc_main_jobs
    BY <1>4, MainJobs
<1>8. ASSUME NEW r \in Transplanted(k) PROVE r = a \/ r = b
    <2>1. /\ r \in cnc_main_jobs /\ r.game.mechanism \in {d[1], d[2]}
          /\ r.game.seed = s /\ r.game.condition = c
        BY <1>3 DEF Transplanted
    <2>2. PICK m \in Mechanisms, t \in CncSeeds, e \in CncConditions :
            r = Pipeline("cnc_main", MainGame(m, t, e))
        BY <2>1, MainJobs
    <2>3. m = r.game.mechanism /\ t = r.game.seed /\ e = r.game.condition
        BY <2>2, PipelineFields, MainGameFields
    <2> QED BY <2>1, <2>2, <2>3
<1> HIDE DEF a, b
<1>9. a \in Transplanted(k) /\ b \in Transplanted(k)
    BY <1>3, <1>5, <1>7 DEF Transplanted
<1>10. Transplanted(k) = {a, b}
    BY <1>8, <1>9
<1> QED BY <1>6, <1>10

\* The dependency of an expanded library: the base library of the same game.
LEMMA LibraryVariant ==
    ASSUME NEW g \in LibraryGames
    PROVE  \E m \in Mechanisms, s \in SensitivitySeeds, c \in Representative :
              /\ g.item \in DOMAIN LibrarySizes
              /\ g = Game(<<4, LibrarySizes[g.item]>>, m, s, c, g.item, "none")
<1>1. PICK v \in DOMAIN LibrarySizes :
        g \in Games({<<4, LibrarySizes[v]>>}, Mechanisms, SensitivitySeeds, Representative, {v})
    BY Zenon DEF LibraryGames
<1>2. PICK size \in {<<4, LibrarySizes[v]>>}, m \in Mechanisms, s \in SensitivitySeeds,
           c \in Representative, i \in {v} : g = Game(size, m, s, c, i, "none") /\ g.item = i
    BY <1>1, GameOf
<1> QED BY <1>2

LEMMA LibraryGame ==
    ASSUME NEW m \in Mechanisms, NEW s \in SensitivitySeeds, NEW c \in Representative,
           NEW v \in DOMAIN LibrarySizes
    PROVE  Game(<<4, LibrarySizes[v]>>, m, s, c, v, "none") \in LibraryGames
<1>1. <<4, LibrarySizes[v]>> \in {<<4, LibrarySizes[v]>>} /\ v \in {v}
    OBVIOUS
<1>2. Game(<<4, LibrarySizes[v]>>, m, s, c, v, "none")
        \in Games({<<4, LibrarySizes[v]>>}, Mechanisms, SensitivitySeeds, Representative, {v})
    BY <1>1, InGames
<1> QED BY <1>2, Zenon DEF LibraryGames

LEMMA ExpandedIsOne ==
    ASSUME InputInv, phase # "loaded", NEW k \in Keys,
           k.family = "policy_library_sensitivity", k.game.item = "expanded_a1_a8"
    PROVE  \E r : Expanded(k) = {r}
<1>1. k \in physical_jobs /\ k.game \in LibraryGames
    BY KeysOfMatrix, PhysicalJob DEF Plays
<1>2. PICK m \in Mechanisms, s \in SensitivitySeeds, c \in Representative :
        k.game = Game(<<4, LibrarySizes["expanded_a1_a8"]>>, m, s, c, "expanded_a1_a8", "none")
    BY <1>1, LibraryVariant
<1> DEFINE base == Game(<<4, LibrarySizes["base_a1_a6"]>>, m, s, c, "base_a1_a6", "none")
           r == Pipeline(k.family, base)
<1>3. /\ base.item = "base_a1_a6" /\ base.mechanism = m /\ base.seed = s /\ base.condition = c
      /\ k.game.mechanism = m /\ k.game.seed = s /\ k.game.condition = c
    BY <1>2, GameFields
<1>5. base \in LibraryGames
    BY MatrixAssumption, LibraryGame
<1> HIDE DEF base
<1>6. r.family = k.family /\ r.game = base
    BY PipelineFields
<1>7. r \in physical_jobs
    BY <1>5, <1>6, PhysicalJob DEF Plays, Families
<1>8. r \in Keys
    <2>1. k \notin Calibration /\ r \notin Calibration
        BY <1>6 DEF Calibration
    <2> QED BY <1>7, <2>1, KeysOfMatrix DEF InputInv
<1> HIDE DEF r
<1>9. r \in Expanded(k)
    BY <1>3, <1>6, <1>8 DEF Expanded
<1>10. ASSUME NEW o \in Expanded(k) PROVE o = r
    <2>1. /\ o \in physical_jobs /\ o.family = k.family /\ o.game.item = "base_a1_a6"
          /\ o.game.mechanism = m /\ o.game.seed = s /\ o.game.condition = c
        BY <1>3, KeysOfMatrix DEF Expanded
    <2>2. o = Pipeline(o.family, o.game) /\ o.game \in LibraryGames
        BY <2>1, PhysicalJob DEF Plays
    <2>3. PICK m1 \in Mechanisms, s1 \in SensitivitySeeds, c1 \in Representative :
            o.game = Game(<<4, LibrarySizes[o.game.item]>>, m1, s1, c1, o.game.item, "none")
        BY <2>2, LibraryVariant
    <2>4. m1 = m /\ s1 = s /\ c1 = c
        BY <2>1, <2>3, GameFields
    <2>5. o.game = base
        BY <2>1, <2>3, <2>4, Zenon DEF base
    <2> QED BY <2>1, <2>2, <2>5, Zenon DEF r
<1> QED BY <1>9, <1>10

\* Every job of a plan has the number of dependencies its family asks for.
LEMMA CountsAreRight ==
    ASSUME InputInv, phase # "loaded", NEW k \in Keys
    PROVE  Cardinality(DependsOn(k)) = DependencyCount(k)
<1>1. /\ Cardinality({}) = 0 /\ \A x : Cardinality({x}) = 1
      /\ \A x, y : x # y => Cardinality({x, y}) = 2
    <2>1. Cardinality({}) = 0 /\ \A x : Cardinality({x}) = 1 /\ IsFiniteSet({x})
        BY FS_EmptySet, FS_Singleton
    <2>2. ASSUME NEW x, NEW y, x # y PROVE Cardinality({x, y}) = 2
        <3>1. y \notin {x} /\ {x} \cup {y} = {x, y}
            BY <2>2
        <3>2. Cardinality({x} \cup {y}) = Cardinality({x}) + 1
            BY <2>1, <3>1, FS_AddElement
        <3> QED BY <2>1, <3>1, <3>2
    <2> QED BY <2>1, <2>2
<1>2. CASE k.family \in DOMAIN RuntimeFamily
    <2>1. k.family # "policy_transplant" /\ k.family # "policy_library_sensitivity"
        BY <1>2 DEF RuntimeFamily
    <2>2. Transplanted(k) = {} /\ Expanded(k) = {}
        BY <2>1 DEF Transplanted, Expanded
    <2>3. DependsOn(k) = {Pipeline(RuntimeFamily[k.family], k.game)}
        BY <1>2, <2>2, PairedIsOne DEF DependsOn
    <2>5. DependencyCount(k) = 1
        BY <1>2, <2>1, Zenon DEF DependencyCount
    <2> QED BY <1>1, <2>3, <2>5
<1>3. CASE k.family = "policy_transplant"
    <2>1. k.family \notin DOMAIN RuntimeFamily
        BY <1>3 DEF RuntimeFamily
    <2>2. Paired(k) = {} /\ Expanded(k) = {}
        BY <1>3, <2>1 DEF Paired, Expanded
    <2>3. k \in physical_jobs
        BY KeysOfMatrix
    <2>4. PICK a, b : a # b /\ Transplanted(k) = {a, b}
        BY <1>3, <2>3, TransplantedAreTwo
    <2>5. DependsOn(k) = {a, b}
        BY <2>2, <2>4 DEF DependsOn
    <2>6. DependencyCount(k) = 2
        BY <1>3, <2>1 DEF DependencyCount
    <2>7. Cardinality({a, b}) = 2
        BY <1>1, <2>4, Zenon
    <2> QED BY <2>5, <2>6, <2>7
<1>4. CASE k.family = "policy_library_sensitivity"
    <2>1. k.family \notin DOMAIN RuntimeFamily
        BY <1>4 DEF RuntimeFamily
    <2>2. Paired(k) = {} /\ Transplanted(k) = {}
        BY <1>4, <2>1 DEF Paired, Transplanted
    <2>3. CASE k.game.item = "expanded_a1_a8"
        <3>1. PICK r : DependsOn(k) = {r}
            BY <1>4, <2>2, <2>3, ExpandedIsOne DEF DependsOn
        <3> QED BY <1>1, <1>4, <2>1, <2>3, <3>1 DEF DependencyCount
    <2>4. CASE k.game.item # "expanded_a1_a8"
        <3>1. DependsOn(k) = {}
            BY <2>2, <2>4 DEF DependsOn, Expanded
        <3> QED BY <1>1, <1>4, <2>1, <2>4, <3>1 DEF DependencyCount
    <2> QED BY <2>3, <2>4
<1>5. CASE /\ k.family \notin DOMAIN RuntimeFamily
           /\ k.family \notin {"policy_transplant", "policy_library_sensitivity"}
    <2>1. DependsOn(k) = {}
        BY <1>5 DEF DependsOn, Paired, Transplanted, Expanded
    <2> QED BY <1>1, <1>5, <2>1 DEF DependencyCount
<1> QED BY <1>2, <1>3, <1>4, <1>5

-----------------------------------------------------------------------------
\* The check, from the beginning of the command to its verdict.  Once the command is
\* under way, what could have stopped it earlier is not there.
Built == phase # "loaded"

StageInv ==
    /\ InputInv
    /\ Built => flaw \in CommandFlaws \cup {"none"}
    /\ ~Built => /\ flaw \in JobFlaws \cup FileFlaws \cup {"none"}
                 /\ stage \notin {"begin", "assign"} /\ DOMAIN deps = LoadedIds
    /\ Built /\ stage \in {"check", "visit", "accepted"} => DOMAIN deps = Keys
    /\ Built /\ stage \in {"assign", "check", "visit", "accepted"} =>
          flaw \notin CommandFlaws /\ SelectionFits
    /\ stage \in {"visit", "accepted"} =>
          /\ flaw \notin JobFlaws
          /\ \A j \in DOMAIN deps : deps[j] \subseteq DOMAIN deps
    /\ stage = "accepted" => flaw \notin FileFlaws
    /\ IsFiniteSet(DOMAIN deps)

\* The calls in progress form a path of dependencies.
ChainInv ==
    stage = "visit" =>
        /\ \A i \in 1 .. Len(stack) : stack[i].left \subseteq deps[stack[i].job]
        /\ \A i \in 1 .. Len(stack) :
              i # Len(stack) => stack[i + 1].job \in deps[stack[i].job]

\* Whatever is refused has a reason.
RefusedInv ==
    stage = "refused" => flaw # "none" \/ (Built /\ ~SelectionFits) \/ Stuck

PlanInv == SearchInv /\ StageInv /\ ChainInv /\ RefusedInv

LEMMA FlawNames ==
    /\ "none" \notin CommandFlaws /\ "none" \notin JobFlaws /\ "none" \notin FileFlaws
BY DEF CommandFlaws, SourceFlaws, JobFlaws, FileFlaws

LEMMA KeysToDo ==
    ASSUME InputInv, Built
    PROVE  Keys # {} /\ IsFiniteSet(Keys)
<1>1. Calibration \subseteq physical_jobs
    BY DEF Calibration
<1>2. Keys # {}
    BY <1>1, PlanAssumption, KeysOfMatrix DEF InputInv, Built
<1>3. IsFiniteSet(Keys)
    BY PlanAssumption, KeysOfMatrix, FS_Subset DEF Built
<1> QED BY <1>2, <1>3

LEMMA InitPlan == Init => StageInv /\ ChainInv /\ RefusedInv
<1> SUFFICES ASSUME Init PROVE StageInv /\ ChainInv /\ RefusedInv
    OBVIOUS
<1>1. CASE InitBuild
    <2>1. DOMAIN deps = {} /\ stage = "begin" /\ Built /\ InputInv
        BY <1>1 DEF InitBuild, Built, InputInv
    <2> QED BY <1>1, <2>1, FS_EmptySet DEF InitBuild, StageInv, ChainInv, RefusedInv
<1>2. CASE InitLoad
    <2>1. DOMAIN deps = LoadedIds /\ stage = "check" /\ ~Built /\ InputInv
        BY <1>2 DEF InitLoad, Built, InputInv
    <2> QED BY <1>2, <2>1, PlanAssumption DEF InitLoad, StageInv, ChainInv, RefusedInv
<1> QED BY <1>1, <1>2 DEF Init

LEMMA StepBegin == StageInv /\ Begin => (StageInv /\ ChainInv /\ RefusedInv)'
<1> SUFFICES ASSUME StageInv, Begin PROVE (StageInv /\ ChainInv /\ RefusedInv)'
    OBVIOUS
<1>1. UNCHANGED input /\ UNCHANGED deps /\ Built
    BY DEF Begin, Built
<1>2. /\ InputInv' /\ Built' /\ (SelectionFits' <=> SelectionFits)
      /\ flaw' = flaw /\ deps' = deps
    BY <1>1 DEF StageInv, InputInv, Built, SelectionFits, input
<1>3. Keys # {}
    BY <1>1, KeysToDo DEF StageInv
<1>4. stage' = IF flaw \notin CommandFlaws /\ SelectionFits THEN "assign" ELSE "refused"
    BY <1>3 DEF Begin
<1> QED
    BY <1>1, <1>2, <1>4, FlawNames DEF StageInv, ChainInv, RefusedInv

LEMMA StepFreeze == StageInv /\ Freeze => (StageInv /\ ChainInv /\ RefusedInv)'
<1> SUFFICES ASSUME StageInv, Freeze PROVE (StageInv /\ ChainInv /\ RefusedInv)'
    OBVIOUS
<1>1. UNCHANGED input /\ Built /\ stage = "assign"
    BY DEF Freeze, StageInv
<1>2. /\ InputInv' /\ Built' /\ (SelectionFits' <=> SelectionFits) /\ flaw' = flaw
      /\ Keys' = Keys
    BY <1>1 DEF StageInv, InputInv, Built, SelectionFits, input, Keys
<1>3. \A k \in Keys : Cardinality(DependsOn(k)) = DependencyCount(k)
    BY <1>1, CountsAreRight DEF StageInv, Built
<1>4. stage' = "check" /\ DOMAIN deps' = Keys
    BY <1>3 DEF Freeze
<1>5. IsFiniteSet(Keys)
    BY <1>1, KeysToDo DEF StageInv
<1> QED
    BY <1>1, <1>2, <1>4, <1>5 DEF StageInv, ChainInv, RefusedInv

LEMMA StepChecked == StageInv /\ SearchInv /\ Check => (StageInv /\ ChainInv /\ RefusedInv)'
<1> SUFFICES ASSUME StageInv, SearchInv, Check PROVE (StageInv /\ ChainInv /\ RefusedInv)'
    OBVIOUS
<1>1. /\ UNCHANGED input /\ deps' = deps /\ stage = "check" /\ stack' = <<>>
    BY DEF Check, SearchInv, search
<1>2. /\ InputInv' /\ (Built' <=> Built) /\ (SelectionFits' <=> SelectionFits) /\ flaw' = flaw
      /\ Keys' = Keys /\ (Stuck' <=> Stuck)
    BY <1>1 DEF StageInv, InputInv, Built, SelectionFits, input, Keys, Stuck
<1>3. CASE JobsValid
    <2>1. stage' = "visit"
        BY <1>3 DEF Check
    <2> QED BY <1>1, <1>2, <1>3, <2>1 DEF StageInv, ChainInv, RefusedInv, JobsValid
<1>4. CASE ~JobsValid
    <2>1. stage' = "refused"
        BY <1>4 DEF Check
    <2>2. Built => \A k \in DOMAIN deps : SeedsIsolated(k)
        BY <1>1, PhysicalSeedsIsolated, KeysOfMatrix DEF StageInv, Built
    <2>3. flaw \in JobFlaws \/ \E j \in DOMAIN deps : j \in deps[j] \/ ~(deps[j] \subseteq DOMAIN deps)
        BY <1>4, <2>2 DEF JobsValid, Built
    <2>4. ASSUME NEW j \in DOMAIN deps, j \in deps[j] \/ ~(deps[j] \subseteq DOMAIN deps)
          PROVE  Stuck
        <3>1. {j} \in SUBSET DOMAIN deps /\ {j} # {} /\ ~(deps[j] \subseteq DOMAIN deps \ {j})
            BY <2>4
        <3> QED BY <3>1 DEF Stuck
    <2> QED BY <1>1, <1>2, <2>1, <2>3, <2>4, FlawNames DEF StageInv, ChainInv, RefusedInv
<1> QED BY <1>3, <1>4

LEMMA StepVisiting ==
    ASSUME PlanInv, VisitRoot \/ VisitReturns \/ Decide
    PROVE  (StageInv /\ ChainInv /\ RefusedInv)'
<1>1. /\ UNCHANGED input /\ deps' = deps /\ stage = "visit" /\ VisitInv
    BY DEF VisitRoot, VisitReturns, Decide, PlanInv, SearchInv
<1>2. /\ InputInv' /\ (Built' <=> Built) /\ (SelectionFits' <=> SelectionFits) /\ flaw' = flaw
      /\ Keys' = Keys
    BY <1>1 DEF PlanInv, StageInv, InputInv, Built, SelectionFits, input, Keys
<1>3. CASE VisitRoot
    <2> DEFINE r == CHOOSE j \in DOMAIN deps : j \notin visited
    <2>1. stage' = "visit" /\ stack' = <<Call(r)>>
        BY <1>1, <1>3 DEF VisitRoot
    <2> HIDE DEF r
    <2>2. Len(stack') = 1 /\ stack'[1].job = r /\ stack'[1].left = deps[r]
        BY <2>1 DEF Call
    <2>3. ChainInv'
        BY <1>1, <2>2 DEF ChainInv
    <2> QED BY <1>1, <1>2, <2>1, <2>3 DEF PlanInv, StageInv, RefusedInv
<1>4. CASE VisitReturns
    <2> DEFINE n == Len(stack)
    <2>1. stage' = "visit" /\ stack' = SubSeq(stack, 1, n - 1)
        BY <1>1, <1>4 DEF VisitReturns
    <2>2. /\ n \in Nat \ {0} /\ stack \in Seq(Frame)
        BY <1>1, <1>4, EmptySeq, LenProperties DEF VisitReturns, VisitInv
    <2>3. Len(stack') = n - 1 /\ \A i \in 1 .. n - 1 : stack'[i] = stack[i]
        <3>1. \A i \in 1 .. n - 1 : stack[i] \in Frame
            BY <2>2, ElementOfSeq
        <3>2. /\ Len(SubSeq(stack, 1, n - 1)) = IF 1 <= n - 1 THEN (n - 1) - 1 + 1 ELSE 0
              /\ \A i \in 1 .. (n - 1) - 1 + 1 : SubSeq(stack, 1, n - 1)[i] = stack[1 + i - 1]
            BY <2>2, <3>1, SubSeqProperties, SMTT(60)
        <3> HIDE DEF n
        <3> QED BY <2>1, <2>2, <3>2
    <2>4. ASSUME NEW i \in 1 .. n - 1
          PROVE  /\ stack'[i].left \subseteq deps[stack'[i].job]
                 /\ i # n - 1 => stack'[i + 1].job \in deps[stack'[i].job]
        <3>1. i \in 1 .. n /\ i # n
            BY <2>2
        <3>2. /\ stack[i].left \subseteq deps[stack[i].job]
              /\ stack[i + 1].job \in deps[stack[i].job]
            BY <1>1, <3>1 DEF PlanInv, ChainInv
        <3>3. i # n - 1 => i + 1 \in 1 .. n - 1
            BY <2>2
        <3> QED BY <2>3, <3>2, <3>3
    <2>5. ChainInv'
        BY <1>1, <2>3, <2>4 DEF ChainInv
    <2> QED BY <1>1, <1>2, <2>1, <2>5 DEF PlanInv, StageInv, RefusedInv
<1>5. CASE Decide
    <2>1. stage' = IF flaw \in FileFlaws THEN "refused" ELSE "accepted"
        BY <1>5 DEF Decide
    <2>2. CASE flaw \in FileFlaws
        BY <1>1, <1>2, <2>1, <2>2, FlawNames DEF PlanInv, StageInv, ChainInv, RefusedInv
    <2>3. CASE flaw \notin FileFlaws
        BY <1>1, <1>2, <2>1, <2>3 DEF PlanInv, StageInv, ChainInv, RefusedInv
    <2> QED BY <2>2, <2>3
<1> QED BY <1>3, <1>4, <1>5

\* A dependency that is being visited closes a cycle: the calls from its own to the last.
LEMMA CycleIsStuck ==
    ASSUME PlanInv, stage = "visit", NEW d, stack # <<>>, d \in Top.left, d \in Visiting
    PROVE  Stuck
<1> DEFINE n == Len(stack)
<1>1. VisitInv /\ stack \in Seq(Frame) /\ n \in Nat \ {0} /\ Top = stack[n]
    BY EmptySeq, LenProperties DEF PlanInv, SearchInv, VisitInv, Top
<1>2. \A i \in 1 .. n : stack[i].job \in DOMAIN deps
    <2>1. \A i \in 1 .. n : stack[i] \in Frame
        BY <1>1, ElementOfSeq
    <2> QED BY <2>1 DEF Frame
<1>3. PICK m \in 1 .. n : stack[m].job = d
    BY <1>1 DEF Visiting
<1> DEFINE T == {stack[i].job : i \in m .. n}
<1>4. T \in SUBSET DOMAIN deps /\ d \in T
    BY <1>1, <1>2, <1>3
<1>5. ASSUME NEW j \in T PROVE deps[j] \cap T # {}
    <2>1. PICK i \in m .. n : j = stack[i].job
        BY <1>5
    <2>2. CASE i = n
        <3>1. d \in deps[stack[n].job]
            BY <1>1 DEF PlanInv, ChainInv
        <3> QED BY <1>4, <2>1, <2>2, <3>1
    <2>3. CASE i # n
        <3>1. i + 1 \in m .. n /\ i \in 1 .. n
            BY <1>1, <2>1, <2>3
        <3>2. stack[i + 1].job \in deps[stack[i].job]
            BY <2>3, <3>1 DEF PlanInv, ChainInv
        <3> QED BY <2>1, <3>1, <3>2
    <2> QED BY <2>2, <2>3
<1> HIDE DEF T
<1>6. T # {} /\ \A j \in T : ~(deps[j] \subseteq DOMAIN deps \ T)
    BY <1>4, <1>5
<1> QED BY <1>4, <1>6 DEF Stuck

LEMMA StepVisited == PlanInv /\ VisitDependency => (StageInv /\ ChainInv /\ RefusedInv)'
<1> SUFFICES ASSUME PlanInv, VisitDependency PROVE (StageInv /\ ChainInv /\ RefusedInv)'
    OBVIOUS
<1> DEFINE n == Len(stack)
<1>1. /\ UNCHANGED input /\ deps' = deps /\ visited' = visited /\ stage = "visit" /\ VisitInv
      /\ stack # <<>>
    BY DEF VisitDependency, PlanInv, SearchInv
<1>2. /\ InputInv' /\ (Built' <=> Built) /\ (SelectionFits' <=> SelectionFits) /\ flaw' = flaw
      /\ Keys' = Keys /\ (Stuck' <=> Stuck)
    BY <1>1 DEF PlanInv, StageInv, InputInv, Built, SelectionFits, input, Keys, Stuck
<1>3. n \in Nat \ {0} /\ stack \in Seq(Frame)
    BY <1>1, EmptySeq, LenProperties DEF VisitInv
<1>4. PICK d \in Top.left :
        LET rest == [stack EXCEPT ![n].left = @ \ {d}] IN
        /\ stage' = IF d \in Visiting \ visited THEN "refused" ELSE "visit"
        /\ stack' = IF d \in visited \cup Visiting THEN rest ELSE Append(rest, Call(d))
    BY DEF VisitDependency
<1>5. CASE d \in Visiting \ visited
    <2>1. Stuck /\ stage' = "refused"
        BY <1>1, <1>4, <1>5, CycleIsStuck
    <2> QED BY <1>1, <1>2, <2>1 DEF PlanInv, StageInv, ChainInv, RefusedInv
<1>6. CASE d \notin Visiting \ visited
    <2> DEFINE rest == [stack EXCEPT ![n].left = @ \ {d}]
               e == [stack[n] EXCEPT !.left = stack[n].left \ {d}]
    <2>1. stage' = "visit" /\ stack' = IF d \in visited THEN rest ELSE Append(rest, Call(d))
        BY <1>4, <1>6
    <2>2. n \in 1 .. n /\ stack[n] \in Frame /\ Top = stack[n]
        BY <1>3, ElementOfSeq DEF Top
    <2>3. rest = [stack EXCEPT ![n] = e]
        OBVIOUS
    <2>4. e \in Frame /\ e.job = stack[n].job /\ e.left = stack[n].left \ {d}
        BY <2>2 DEF Frame
    <2> HIDE DEF e, rest
    <2>5. /\ rest \in Seq(Frame) /\ Len(rest) = n
          /\ \A i \in 1 .. n : rest[i] = IF i = n THEN e ELSE stack[i]
        BY <1>3, <2>2, <2>3, <2>4, ExceptSeq
    <2>6. /\ \A i \in 1 .. n : rest[i].job = stack[i].job /\ rest[i].left \subseteq stack[i].left
        BY <2>2, <2>4, <2>5
    <2>7. /\ \A i \in 1 .. n : rest[i].left \subseteq deps[rest[i].job]
          /\ \A i \in 1 .. n : i # n => rest[i + 1].job \in deps[rest[i].job]
        <3>1. \A i \in 1 .. n : stack[i].left \subseteq deps[stack[i].job]
            BY <1>1 DEF PlanInv, ChainInv
        <3>2. \A i \in 1 .. n : i # n => /\ i + 1 \in 1 .. n
                                         /\ stack[i + 1].job \in deps[stack[i].job]
            BY <1>1, <1>3 DEF PlanInv, ChainInv
        <3> QED BY <2>6, <3>1, <3>2
    <2>8. CASE d \in visited
        <3>1. ChainInv'
            BY <1>1, <2>1, <2>5, <2>7, <2>8 DEF ChainInv
        <3> QED BY <1>1, <1>2, <2>1, <3>1 DEF PlanInv, StageInv, RefusedInv
    <2>9. CASE d \notin visited
        <3>1. d \in deps[rest[n].job] /\ d \in DOMAIN deps
            <4>1. stack[n].left \subseteq deps[stack[n].job]
                BY <1>1, <2>2 DEF PlanInv, ChainInv
            <4> QED BY <1>4, <2>2, <2>6, <4>1 DEF Frame
        <3>2. Call(d) \in Frame /\ Call(d).job = d /\ Call(d).left = deps[d]
            BY <1>1, <3>1 DEF Call, Frame, VisitInv
        <3>3. /\ Len(stack') = n + 1 /\ stack'[n + 1] = Call(d)
              /\ \A i \in 1 .. n : stack'[i] = rest[i]
            BY <1>3, <2>1, <2>5, <2>9, <3>2, AppendProperties
        <3>4. ASSUME NEW i \in 1 .. n + 1
              PROVE  /\ stack'[i].left \subseteq deps[stack'[i].job]
                     /\ i # n + 1 => stack'[i + 1].job \in deps[stack'[i].job]
            <4>1. CASE i = n + 1
                BY <3>2, <3>3, <4>1
            <4>2. CASE i = n
                BY <2>2, <2>7, <3>1, <3>2, <3>3, <4>2
            <4>3. CASE i \in 1 .. n /\ i # n
                <5>1. i + 1 \in 1 .. n
                    BY <1>3, <4>3
                <5> QED BY <2>7, <3>3, <4>3, <5>1
            <4> QED BY <1>3, <4>1, <4>2, <4>3
        <3>5. ChainInv'
            BY <1>1, <3>3, <3>4 DEF ChainInv
        <3> QED BY <1>1, <1>2, <2>1, <3>5 DEF PlanInv, StageInv, RefusedInv
    <2> QED BY <2>8, <2>9
<1> QED BY <1>5, <1>6

LEMMA PlanAlways == Spec => []PlanInv
<1>1. PlanInv /\ [Next]_vars => (StageInv /\ ChainInv /\ RefusedInv)'
    <2> SUFFICES ASSUME PlanInv, [Next]_vars PROVE (StageInv /\ ChainInv /\ RefusedInv)'
        OBVIOUS
    <2>1. CASE Begin
        BY <2>1, StepBegin DEF PlanInv
    <2>2. CASE AssignNext
        BY <2>2 DEF AssignNext, PlanInv, StageInv, ChainInv, RefusedInv, InputInv, Built,
            SelectionFits, input, search, Keys
    <2>3. CASE Freeze
        BY <2>3, StepFreeze DEF PlanInv
    <2>4. CASE Check
        BY <2>4, StepChecked DEF PlanInv
    <2>5. CASE VisitRoot \/ VisitReturns \/ Decide
        BY <2>5, StepVisiting
    <2>6. CASE VisitDependency
        BY <2>6, StepVisited
    <2>7. CASE UNCHANGED vars
        BY <2>7 DEF vars, PlanInv, StageInv, ChainInv, RefusedInv, InputInv, Built,
            SelectionFits, input, search, Keys, Stuck
    <2> QED BY <2>1, <2>2, <2>3, <2>4, <2>5, <2>6, <2>7 DEF Next, Ended
<1>2. Init => PlanInv
    BY InitSearch, InitPlan DEF PlanInv
<1>3. PlanInv /\ [Next]_vars => PlanInv'
    BY <1>1, SearchStep DEF PlanInv
<1> QED BY <1>2, <1>3, PTL DEF Spec

\* A manifest is accepted exactly if nothing is wrong with it and its jobs can be completed
\* in some order: the search of CampaignManifest.validate misses no cycle, which would leave
\* slots polling for ever, and takes no diamond for one, in a manifest of any size.
THEOREM TheCheckIsExact == Spec => []CheckIsExact
<1>1. PlanInv => CheckIsExact
    <2> SUFFICES ASSUME PlanInv PROVE CheckIsExact
        OBVIOUS
    <2>1. IsFiniteSet(DOMAIN deps)
        BY DEF PlanInv, StageInv
    <2>2. ASSUME stage = "accepted"
          PROVE  /\ flaw = "none"
                 /\ phase # "loaded" => SelectionFits
                 /\ Completable[Cardinality(DOMAIN deps)] = DOMAIN deps
        <3>1. flaw = "none" /\ (Built => SelectionFits)
            BY <2>2 DEF PlanInv, StageInv
        <3>2. WellFounded(DOMAIN deps) /\ \A j \in DOMAIN deps : deps[j] \subseteq DOMAIN deps
            BY <2>2 DEF PlanInv, StageInv, SearchInv
        <3>3. Completable[Rounds] = DOMAIN deps
            BY <2>1, <3>2, WellFoundedCompletes
        <3> QED BY <3>1, <3>3 DEF Built, Rounds
    <2>3. ASSUME stage = "refused"
          PROVE  ~(/\ flaw = "none"
                   /\ phase # "loaded" => SelectionFits
                   /\ Completable[Cardinality(DOMAIN deps)] = DOMAIN deps)
        <3>1. flaw # "none" \/ (Built /\ ~SelectionFits) \/ Stuck
            BY <2>3 DEF PlanInv, RefusedInv
        <3>2. Stuck => Completable[Rounds] # DOMAIN deps
            BY <2>1, StuckIsNeverComplete
        <3> QED BY <3>1, <3>2 DEF Built, Rounds
    <2> QED BY <2>2, <2>3 DEF CheckIsExact
<1> QED BY <1>1, PlanAlways, PTL

-----------------------------------------------------------------------------
\* The jobs that others read read none themselves.
LEMMA DependenciesAreLeaves ==
    ASSUME InputInv, phase # "loaded", NEW k \in Keys, NEW d \in DependsOn(k)
    PROVE  d \in Keys /\ DependsOn(d) = {}
<1>1. CASE d \in Paired(k)
    <2>1. d \in Keys /\ d.family \in {"solver_benchmark_runtime", "scalability_exact_runtime",
                                      "scalability_sparse_runtime"}
        BY <1>1 DEF Paired, RuntimeFamily
    <2>2. d.family \notin DOMAIN RuntimeFamily
        BY <2>1 DEF RuntimeFamily
    <2> QED BY <2>1, <2>2 DEF DependsOn, Paired, Transplanted, Expanded
<1>2. CASE d \in Transplanted(k)
    <2>1. k.family = "policy_transplant" /\ d \in cnc_main_jobs
        BY <1>2 DEF Transplanted
    <2>2. d.family = "cnc_main" /\ d \in physical_jobs
        BY <2>1, MainJobs, PipelineFields DEF physical_jobs
    <2>3. d \in Keys
        BY <2>1, <2>2, KeysOfMatrix DEF Calibration, InputInv
    <2>4. d.family \notin DOMAIN RuntimeFamily
        BY <2>2 DEF RuntimeFamily
    <2> QED BY <2>2, <2>3, <2>4 DEF DependsOn, Paired, Transplanted, Expanded
<1>3. CASE d \in Expanded(k)
    <2>1. /\ d \in Keys /\ d.family = "policy_library_sensitivity"
          /\ d.game.item = "base_a1_a6"
        BY <1>3 DEF Expanded
    <2>2. d.family \notin DOMAIN RuntimeFamily
        BY <2>1 DEF RuntimeFamily
    <2> QED BY <2>1, <2>2 DEF DependsOn, Paired, Transplanted, Expanded
<1> QED BY <1>1, <1>2, <1>3 DEF DependsOn

\* The dependencies of a plan are those of the matrix.
DepsInv ==
    /\ InputInv
    /\ phase # "loaded" =>
          \/ deps = <<>> /\ stage \in {"begin", "assign", "refused"}
          \/ DOMAIN deps = Keys /\ \A k \in Keys : deps[k] = DependsOn(k)

LEMMA DepsAlways == Spec => []DepsInv
<1>1. Init => DepsInv
    BY DEF Init, InitBuild, InitLoad, DepsInv, InputInv
<1>2. DepsInv /\ [Next]_vars => DepsInv'
    <2> SUFFICES ASSUME DepsInv, [Next]_vars PROVE DepsInv'
        OBVIOUS
    <2>1. UNCHANGED input
        BY DEF Next, vars, Begin, AssignNext, Freeze, Check, VisitRoot, VisitDependency,
            VisitReturns, Decide, Ended
    <2>2. InputInv' /\ phase' = phase /\ Keys' = Keys /\ \A k : DependsOn(k)' = DependsOn(k)
        BY <2>1 DEF DepsInv, InputInv, input, Keys, DependsOn, Paired, Transplanted, Expanded
    <2>3. CASE Freeze
        BY <2>2, <2>3 DEF Freeze, DepsInv
    <2>4. CASE ~Freeze
        <3>1. deps' = deps
            BY <2>4 DEF Next, vars, Begin, AssignNext, Check, VisitRoot, VisitDependency,
                VisitReturns, Decide, Ended
        <3>2. stage \in {"begin", "assign", "refused"} => stage' \in {"begin", "assign", "refused"}
            BY <2>4 DEF Next, vars, Begin, AssignNext, Check, VisitRoot, VisitDependency,
                VisitReturns, Decide, Ended
        <3> QED BY <2>2, <3>1, <3>2 DEF DepsInv
    <2> QED BY <2>3, <2>4
<1> QED BY <1>1, <1>2, PTL DEF Spec

\* A plan is refused for its input only: whatever the design, no seed, no dependency and no
\* cycle of its own jobs stops the manifest from being made (build_campaign).
PlanGoesThrough ==
    stage = "refused" /\ phase # "loaded" => flaw # "none" \/ ~SelectionFits

THEOREM EveryPlanGoesThrough == Spec => []PlanGoesThrough
<1>1. PlanInv /\ DepsInv => PlanGoesThrough
    <2> SUFFICES ASSUME PlanInv, DepsInv, phase # "loaded", Stuck PROVE FALSE
        BY DEF PlanInv, RefusedInv, PlanGoesThrough
    <2>1. PICK T \in SUBSET DOMAIN deps :
            T # {} /\ \A j \in T : ~(deps[j] \subseteq DOMAIN deps \ T)
        BY DEF Stuck
    <2>2. DOMAIN deps = Keys /\ \A k \in Keys : deps[k] = DependsOn(k)
        BY <2>1 DEF DepsInv
    <2>3. PICK j \in T : \E d \in deps[j] : d \notin DOMAIN deps \ T
        BY <2>1
    <2>4. PICK d \in deps[j] : d \notin DOMAIN deps \ T
        BY <2>3
    <2>5. d \in Keys /\ DependsOn(d) = {}
        BY <2>2, <2>4, DependenciesAreLeaves DEF DepsInv
    <2>6. d \in T /\ deps[d] = {}
        BY <2>2, <2>4, <2>5
    <2> QED BY <2>1, <2>6
<1> QED BY <1>1, PlanAlways, DepsAlways, PTL

-----------------------------------------------------------------------------
\* The units of the design.
CarrierOf(f) == IF f \in DOMAIN Carrier THEN Carrier[f] ELSE f

LEMMA Carriers ==
    /\ \A f \in Families : CarrierOf(f) = f
    /\ CarrierOf("mwu_global_tuning") = "mwu_tuning_pipeline"
    /\ CarrierOf("mwu_tuning_dss_reference") = "mwu_tuning_pipeline"
    /\ CarrierOf("solver_benchmark_formal") = "solver_benchmark"
    /\ CarrierOf("mixed_challenge_formal") = "mixed_challenge"
    /\ CarrierOf("cnc_formal") = "cnc_main" /\ CarrierOf("cnc_outcomes") = "cnc_main"
    /\ CarrierOf("selection_sensitivity_formal") = "selection_sensitivity"
    /\ CarrierOf("selection_sensitivity_outcomes") = "selection_sensitivity"
    /\ CarrierOf("policy_library_sensitivity_formal") = "policy_library_sensitivity"
    /\ CarrierOf("policy_library_sensitivity_outcomes") = "policy_library_sensitivity"
    /\ CarrierOf("parameter_robustness_formal") = "parameter_robustness"
    /\ CarrierOf("parameter_robustness_outcomes") = "parameter_robustness"
    /\ CarrierOf("scalability_exact_formal") = "scalability_exact"
    /\ CarrierOf("scalability_sparse_formal") = "scalability_sparse"
BY SMT DEF CarrierOf, Carrier, Families

\* What a unit must ask of its pipeline.
Fits(u, f) ==
    /\ f = CarrierOf(u.family) /\ f \in Families /\ u.game \in Plays(f)
    /\ u.stages \subseteq StagesOf(f) /\ u.solvers \subseteq SolversOf(f)
    /\ u.selectors \subseteq (IF f = "selection_sensitivity" THEN Selectors ELSE {})
    /\ u.configs \subseteq (IF f = "mwu_tuning_pipeline" THEN TuningConfigs ELSE {})

LEMMA FittingUnit ==
    ASSUME NEW u, NEW f, Fits(u, f)
    PROVE  {k \in physical_jobs : Carries(k, u)} = {Pipeline(f, u.game)}
<1> DEFINE p == Pipeline(f, u.game)
<1>1. /\ p.family = f /\ p.game = u.game /\ p.stages = StagesOf(f) /\ p.solvers = SolversOf(f)
      /\ p.selectors = (IF f = "selection_sensitivity" THEN Selectors ELSE {})
      /\ p.configs = (IF f = "mwu_tuning_pipeline" THEN TuningConfigs ELSE {})
    BY PipelineFields, Zenon
<1>2. p \in physical_jobs
    BY <1>1, PhysicalJob DEF Fits
<1> HIDE DEF p
<1>3. Carries(p, u)
    BY <1>1, Zenon DEF Fits, Carries, CarrierOf
<1>4. ASSUME NEW k \in physical_jobs, Carries(k, u) PROVE k = p
    <2>1. k.family = f /\ k.game = u.game
        BY <1>4, Zenon DEF Fits, Carries, CarrierOf
    <2> QED BY <2>1, PhysicalJob DEF p
<1> QED BY <1>2, <1>3, <1>4 DEF p

LEMMA KeyFields ==
    ASSUME NEW f, NEW g, NEW st, NEW so
    PROVE  LET k == Key(f, g, st, so) IN
           /\ k.family = f /\ k.game = g /\ k.stages = st /\ k.solvers = so
           /\ k.selectors = {} /\ k.configs = {}
BY DEF Key

\* Units that are keys as they were made.
LEMMA PlainUnits ==
    ASSUME NEW uf, NEW f \in Families, f = CarrierOf(uf), NEW games, games = Plays(f),
           NEW st, st \subseteq StagesOf(f), NEW so, so \subseteq SolversOf(f),
           NEW u \in Jobs(uf, games, st, so)
    PROVE  Fits(u, f)
<1>1. PICK g \in games : u = Key(uf, g, st, so)
    BY DEF Jobs
<1>2. /\ u.family = uf /\ u.game = g /\ u.stages = st /\ u.solvers = so
      /\ u.selectors = {} /\ u.configs = {}
    BY <1>1, KeyFields
<1> QED BY <1>2 DEF Fits

LEMMA AuditUnits ==
    ASSUME NEW uf, NEW f \in Families, f = CarrierOf(uf), NEW games, games = Plays(f),
           NEW audits, "formal_audit" \in StagesOf(f), \A a \in audits : a \subseteq SolversOf(f),
           NEW u \in AuditJobs(uf, games, audits)
    PROVE  Fits(u, f)
<1>1. PICK g \in games, a \in audits : u = Key(uf, g, {"formal_audit"}, a)
    BY DEF AuditJobs
<1>2. /\ u.family = uf /\ u.game = g /\ u.stages = {"formal_audit"} /\ u.solvers = a
      /\ u.selectors = {} /\ u.configs = {}
    BY <1>1, KeyFields
<1> QED BY <1>2 DEF Fits

LEMMA ExceptFields ==
    ASSUME NEW f, NEW g, NEW st, NEW so, NEW x
    PROVE  LET k == [Key(f, g, st, so) EXCEPT !.selectors = x]
               l == [Key(f, g, st, so) EXCEPT !.configs = x] IN
           /\ k.family = f /\ k.game = g /\ k.stages = st /\ k.solvers = so
           /\ k.selectors = x /\ k.configs = {}
           /\ l.family = f /\ l.game = g /\ l.stages = st /\ l.solvers = so
           /\ l.selectors = {} /\ l.configs = x
BY DEF Key

LEMMA SelectingUnits ==
    ASSUME NEW uf, "selection_sensitivity" = CarrierOf(uf),
           NEW st, st \subseteq Evaluate,
           NEW u \in WithSelectors(Jobs(uf, SelectionGames, st, {"FullTensor-CCE-LP"}),
                                   {{s} : s \in Selectors})
    PROVE  Fits(u, "selection_sensitivity")
<1>1. PICK g \in SelectionGames, s \in Selectors :
        u = [Key(uf, g, st, {"FullTensor-CCE-LP"}) EXCEPT !.selectors = {s}]
    BY DEF WithSelectors, Jobs
<1>2. /\ u.family = uf /\ u.game = g /\ u.stages = st /\ u.solvers = {"FullTensor-CCE-LP"}
      /\ u.selectors = {s} /\ u.configs = {}
    BY <1>1, ExceptFields
<1> QED BY <1>2 DEF Fits, Families, Plays, StagesOf, SolversOf

LEMMA TuningUnits ==
    ASSUME NEW u \in mwu_tuning_jobs
    PROVE  Fits(u, "mwu_tuning_pipeline")
<1> DEFINE st == {"training", "mwu_tuning_audit"}
<1>1. PICK g \in TuningGames, c \in TuningConfigs :
        u = [Key("mwu_global_tuning", g, st, MWU) EXCEPT !.configs = {c}]
    BY DEF mwu_tuning_jobs, WithConfigs, Jobs
<1>2. /\ u.family = "mwu_global_tuning" /\ u.game = g /\ u.stages = st /\ u.solvers = MWU
      /\ u.selectors = {} /\ u.configs = {c}
    BY <1>1, ExceptFields
<1> QED BY <1>2, Carriers DEF Fits, Families, Plays, StagesOf, SolversOf, SparseBundle

LEMMA PipelineUnits ==
    ASSUME NEW u \in physical_jobs
    PROVE  Fits(u, u.family)
<1>1. u = Pipeline(u.family, u.game) /\ u.family \in Families /\ u.game \in Plays(u.family)
    BY PhysicalJob
<1>2. /\ u.stages = StagesOf(u.family) /\ u.solvers = SolversOf(u.family)
      /\ u.selectors = (IF u.family = "selection_sensitivity" THEN Selectors ELSE {})
      /\ u.configs = (IF u.family = "mwu_tuning_pipeline" THEN TuningConfigs ELSE {})
    BY <1>1, PipelineFields
<1> QED BY <1>1, <1>2, Carriers DEF Fits

LEMMA EveryUnitFits ==
    ASSUME NEW u \in all_compute_jobs
    PROVE  \E f : Fits(u, f)
<1>1. CASE u \in physical_jobs
    BY <1>1, PipelineUnits
<1>2. CASE u \in mwu_tuning_jobs
    BY <1>2, TuningUnits
<1>3. CASE u \in mwu_tuning_dss_reference_jobs
    <2>1. Fits(u, "mwu_tuning_pipeline")
        BY <1>3, Carriers, PlainUnits
            DEF mwu_tuning_dss_reference_jobs, Families, Plays, StagesOf, SolversOf, SparseBundle
    <2> QED BY <2>1
<1>4. CASE u \in solver_formal_audit_jobs
    <2>1. \A a \in FullAudits : a \subseteq FullBundle
        BY DEF FullAudits, FullBundle
    <2>2. Fits(u, "solver_benchmark")
        BY <1>4, <2>1, Carriers, AuditUnits
            DEF solver_formal_audit_jobs, Families, Plays, StagesOf, SolversOf
    <2> QED BY <2>2
<1>5. CASE u \in mixed_challenge_formal_audit_jobs
    <2>1. \A a \in FullAudits : a \subseteq FullBundle
        BY DEF FullAudits, FullBundle
    <2>2. Fits(u, "mixed_challenge")
        BY <1>5, <2>1, Carriers, AuditUnits
            DEF mixed_challenge_formal_audit_jobs, Families, Plays, StagesOf, SolversOf
    <2> QED BY <2>2
<1>6. CASE u \in exact_scalability_formal_audit_jobs
    <2>1. \A a \in FullAudits : a \subseteq FullBundle
        BY DEF FullAudits, FullBundle
    <2>2. Fits(u, "scalability_exact")
        BY <1>6, <2>1, Carriers, AuditUnits
            DEF exact_scalability_formal_audit_jobs, Families, Plays, StagesOf, SolversOf
    <2> QED BY <2>2
<1>7. CASE u \in sparse_scalability_formal_audit_jobs
    <2>1. \A a \in SparseAudits : a \subseteq SparseBundle
        BY DEF SparseAudits, SparseBundle
    <2>2. Fits(u, "scalability_sparse")
        BY <1>7, <2>1, Carriers, AuditUnits
            DEF sparse_scalability_formal_audit_jobs, Families, Plays, StagesOf, SolversOf
    <2> QED BY <2>2
<1>8. CASE u \in cnc_formal_audit_jobs \cup cnc_outcome_jobs
    <2>1. Fits(u, "cnc_main")
        BY <1>8, Carriers, PlainUnits DEF cnc_formal_audit_jobs, cnc_outcome_jobs,
            Families, Plays, StagesOf, SolversOf, Evaluate
    <2> QED BY <2>1
<1>9. CASE u \in selection_sensitivity_formal_audit_jobs \cup selection_sensitivity_outcome_jobs
    <2>1. Fits(u, "selection_sensitivity")
        BY <1>9, Carriers, SelectingUnits DEF selection_sensitivity_formal_audit_jobs,
            selection_sensitivity_outcome_jobs, Evaluate
    <2> QED BY <2>1
<1>10. CASE u \in policy_library_sensitivity_jobs["audit"]
                     \cup policy_library_sensitivity_jobs["evaluation"]
    <2>1. Fits(u, "policy_library_sensitivity")
        BY <1>10, Carriers, PlainUnits DEF policy_library_sensitivity_jobs,
            Families, Plays, StagesOf, SolversOf, Evaluate
    <2> QED BY <2>1
<1>11. CASE u \in parameter_robustness_jobs["audit"] \cup parameter_robustness_jobs["evaluation"]
    <2>1. Fits(u, "parameter_robustness")
        BY <1>11, Carriers, PlainUnits DEF parameter_robustness_jobs,
            Families, Plays, StagesOf, SolversOf, Evaluate
    <2> QED BY <2>1
<1> QED
    BY <1>1, <1>2, <1>3, <1>4, <1>5, <1>6, <1>7, <1>8, <1>9, <1>10, <1>11
        DEF all_compute_jobs, physical_jobs

LEMMA EveryJobCarriesOne ==
    ASSUME NEW k \in physical_jobs
    PROVE  \E u \in all_compute_jobs : Carries(k, u)
<1>1. CASE k \in mwu_tuning_pipeline_jobs
    <2>1. k.family = "mwu_tuning_pipeline" /\ k.game \in TuningGames /\ k = Pipeline(k.family, k.game)
        BY <1>1, TuningSet, PipelineFields DEF Pipelines
    <2> DEFINE u == Key("mwu_tuning_dss_reference", k.game, {"training"}, DSS)
    <2>2. u \in mwu_tuning_dss_reference_jobs
        BY <2>1 DEF mwu_tuning_dss_reference_jobs, Jobs
    <2>3. /\ u.family = "mwu_tuning_dss_reference" /\ u.game = k.game /\ u.stages = {"training"}
          /\ u.solvers = DSS /\ u.selectors = {} /\ u.configs = {}
        BY KeyFields
    <2>4. k.stages = StagesOf(k.family) /\ k.solvers = SolversOf(k.family)
        BY <2>1, PipelineFields
    <2> HIDE DEF u
    <2>5. CarrierOf(u.family) = k.family
        BY <2>1, <2>3, Carriers
    <2>6. u.stages \subseteq k.stages /\ u.solvers \subseteq k.solvers
        BY <2>1, <2>3, <2>4 DEF StagesOf, SolversOf, SparseBundle
    <2>7. Carries(k, u)
        BY <2>3, <2>5, <2>6 DEF Carries, CarrierOf
    <2>8. u \in all_compute_jobs
        BY <2>2 DEF all_compute_jobs
    <2> QED BY <2>7, <2>8
<1>2. CASE k \notin mwu_tuning_pipeline_jobs
    <2>1. k \in all_compute_jobs
        BY <1>2 DEF all_compute_jobs, physical_jobs
    <2>2. Carries(k, k)
        <3>1. k.family \in Families
            BY PhysicalJob
        <3>2. CarrierOf(k.family) = k.family
            BY <3>1, Carriers
        <3> QED BY <3>2, Zenon DEF Carries, CarrierOf
    <2> QED BY <2>1, <2>2
<1> QED BY <1>1, <1>2

\* The pipelines of a full campaign carry every unit of the design exactly once and nothing
\* else, whatever the sizes, seeds, conditions and variants of the design (physical_jobs).
THEOREM EveryUnitIsCarriedOnce == Spec => []UnitsAreCovered
<1>1. PlanInv => UnitsAreCovered
    <2> SUFFICES ASSUME PlanInv, stage = "accepted", phase = "all"
                 PROVE  /\ \A u \in all_compute_jobs :
                              Cardinality({k \in DOMAIN deps : Carries(k, u)}) = 1
                        /\ \A k \in DOMAIN deps : \E u \in all_compute_jobs : Carries(k, u)
        BY DEF UnitsAreCovered
    <2>1. DOMAIN deps = physical_jobs
        BY KeysOfMatrix DEF PlanInv, StageInv, Built
    <2>2. ASSUME NEW u \in all_compute_jobs
          PROVE  Cardinality({k \in physical_jobs : Carries(k, u)}) = 1
        <3>1. PICK f : Fits(u, f)
            BY EveryUnitFits
        <3>2. {k \in physical_jobs : Carries(k, u)} = {Pipeline(f, u.game)}
            BY <3>1, FittingUnit
        <3> QED BY <3>2, FS_Singleton
    <2> QED BY <2>1, <2>2, EveryJobCarriesOne
<1> QED BY <1>1, PlanAlways, PTL

-----------------------------------------------------------------------------
\* The sum of a function over a finite set, which the library adds up element by element.
Choice(S) == CHOOSE x \in S : TRUE
Rest(S) == S \ {Choice(S)}
IsTable(f, D, g) == g = [S \in D |-> IF S = {} THEN 0 ELSE f[Choice(S)] + g[Rest(S)]]

\* Of some finite sets one is minimal.
LEMMA Smallest ==
    ASSUME NEW C, C # {}, \A S \in C : IsFiniteSet(S)
    PROVE  \E S \in C : \A x \in S : S \ {x} \notin C
<1> DEFINE N == {Cardinality(S) : S \in C}
<1>1. N \subseteq Nat /\ N # {}
    BY FS_CardinalityType
<1>2. PICK n \in N : \A m \in N : n <= m
    BY <1>1, LeastMember
<1>3. PICK S \in C : n = Cardinality(S)
    OBVIOUS
<1>4. ASSUME NEW x \in S, S \ {x} \in C PROVE FALSE
    <2>1. Cardinality(S \ {x}) = Cardinality(S) - 1 /\ Cardinality(S) \in Nat
        BY FS_RemoveElement, FS_CardinalityType
    <2>2. Cardinality(S \ {x}) \in N
        BY <1>4
    <2> QED BY <1>2, <1>3, <2>1, <2>2
<1> QED BY <1>4

LEMMA RestIs ==
    ASSUME NEW S, IsFiniteSet(S), S # {}
    PROVE  /\ Choice(S) \in S /\ Rest(S) \subseteq S /\ IsFiniteSet(Rest(S))
           /\ Cardinality(Rest(S)) = Cardinality(S) - 1 /\ Cardinality(S) \in Nat
           /\ S = Rest(S) \cup {Choice(S)} /\ Choice(S) \notin Rest(S)
<1>1. Choice(S) \in S
    BY DEF Choice
<1> HIDE DEF Choice
<1> QED BY <1>1, FS_RemoveElement, FS_CardinalityType, FS_Subset DEF Rest

\* The sets of a limited size.
Sized(S, n) == {T \in SUBSET S : Cardinality(T) <= n}

LEMMA TableExists ==
    ASSUME NEW f, NEW S, IsFiniteSet(S)
    PROVE  \E g : IsTable(f, SUBSET S, g)
<1> DEFINE Missing == {n \in Nat : ~ \E g : IsTable(f, Sized(S, n), g)}
<1>0. \A T \in SUBSET S : IsFiniteSet(T) /\ Cardinality(T) \in Nat /\ Cardinality(T) <= Cardinality(S)
    BY FS_Subset, FS_CardinalityType
<1>1. Missing = {}
    <2> SUFFICES ASSUME Missing # {} PROVE FALSE
        OBVIOUS
    <2>1. PICK n \in Missing : \A m \in Missing : n <= m
        BY LeastMember
    <2>2. CASE n = 0
        <3>1. \A T \in Sized(S, 0) : T = {}
            <4> SUFFICES ASSUME NEW T \in Sized(S, 0) PROVE T = {}
                OBVIOUS
            <4>1. Cardinality(T) = 0 /\ IsFiniteSet(T)
                BY <1>0 DEF Sized
            <4> QED BY <4>1, FS_EmptySet
        <3> DEFINE g == [T \in Sized(S, 0) |-> 0]
        <3>2. IsTable(f, Sized(S, 0), g)
            BY <3>1 DEF IsTable
        <3> QED BY <2>1, <2>2, <3>2
    <2>3. CASE n # 0
        <3>1. n - 1 \in Nat /\ n - 1 \notin Missing
            BY <2>1, <2>3
        <3>2. PICK g : IsTable(f, Sized(S, n - 1), g)
            BY <3>1
        <3> DEFINE h == [T \in Sized(S, n) |-> IF T = {} THEN 0 ELSE f[Choice(T)] + g[Rest(T)]]
        <3>3. ASSUME NEW T \in Sized(S, n), T # {} PROVE Rest(T) \in Sized(S, n - 1) /\ Rest(T) \in Sized(S, n)
            <4>1. IsFiniteSet(T) /\ T \subseteq S /\ Cardinality(T) <= n
                BY <1>0 DEF Sized
            <4> QED BY <4>1, RestIs, <3>3 DEF Sized
        <3>4. ASSUME NEW T \in Sized(S, n - 1) PROVE T \in Sized(S, n)
            BY <1>0 DEF Sized
        <3>5. ASSUME NEW T \in Sized(S, n - 1) PROVE g[T] = h[T]
            BY <3>2, <3>4 DEF IsTable
        <3>6. ASSUME NEW T \in Sized(S, n), T # {} PROVE h[T] = f[Choice(T)] + h[Rest(T)]
            BY <3>3, <3>5, <3>6
        <3>7. IsTable(f, Sized(S, n), h)
            BY <3>6 DEF IsTable
        <3> QED BY <2>1, <3>7
    <2> QED BY <2>2, <2>3
<1>2. Cardinality(S) \in Nat /\ Sized(S, Cardinality(S)) = SUBSET S
    BY <1>0 DEF Sized
<1>3. Cardinality(S) \notin Missing
    BY <1>1
<1>4. PICK g : IsTable(f, Sized(S, Cardinality(S)), g)
    BY <1>2, <1>3
<1> QED BY <1>2, <1>4

LEMMA SumIs ==
    ASSUME NEW f, NEW S, IsFiniteSet(S)
    PROVE  \E g : IsTable(f, SUBSET S, g) /\ SumFunctionOnSet(f, S) = g[S]
<1>1. SumFunctionOnSet(f, S) = (CHOOSE g : IsTable(f, SUBSET S, g))[S]
    BY DEF SumFunctionOnSet, FoldFunctionOnSet, MapThenFoldSet, IsTable, Choice, Rest
<1> QED BY <1>1, TableExists

LEMMA TablesAgree ==
    ASSUME NEW f, NEW S, NEW T, NEW g, NEW h, T \subseteq S, IsFiniteSet(S),
           IsTable(f, SUBSET S, g), IsTable(f, SUBSET T, h)
    PROVE  g[T] = h[T]
<1> DEFINE C == {U \in SUBSET T : g[U] # h[U]}
<1>1. \A U \in C : IsFiniteSet(U)
    BY FS_Subset
<1>2. CASE C # {}
    <2>1. PICK U \in C : \A x \in U : U \ {x} \notin C
        BY <1>1, <1>2, Smallest
    <2>2. g[U] = IF U = {} THEN 0 ELSE f[Choice(U)] + g[Rest(U)]
        BY DEF IsTable
    <2>3. h[U] = IF U = {} THEN 0 ELSE f[Choice(U)] + h[Rest(U)]
        BY DEF IsTable
    <2>4. U # {} => Rest(U) \in SUBSET T /\ g[Rest(U)] = h[Rest(U)]
        BY <1>1, <2>1, RestIs DEF Rest
    <2> QED BY <2>2, <2>3, <2>4
<1> QED BY <1>2

LEMMA SumStep ==
    ASSUME NEW f, NEW S, IsFiniteSet(S)
    PROVE  /\ S = {} => SumFunctionOnSet(f, S) = 0
           /\ S # {} => SumFunctionOnSet(f, S) = f[Choice(S)] + SumFunctionOnSet(f, Rest(S))
<1>1. PICK g : IsTable(f, SUBSET S, g) /\ SumFunctionOnSet(f, S) = g[S]
    BY SumIs
<1>2. g[S] = IF S = {} THEN 0 ELSE f[Choice(S)] + g[Rest(S)]
    BY <1>1 DEF IsTable
<1>3. CASE S # {}
    <2> DEFINE R == Rest(S)
    <2>1. R \subseteq S /\ IsFiniteSet(R)
        BY <1>3, RestIs
    <2>2. g[S] = f[Choice(S)] + g[R]
        BY <1>2, <1>3
    <2> SUFFICES SumFunctionOnSet(f, R) = g[R]
        BY <1>1, <1>3, <2>2
    <2> HIDE DEF R
    <2>3. PICK h : IsTable(f, SUBSET R, h) /\ SumFunctionOnSet(f, R) = h[R]
        BY <2>1, SumIs
    <2>4. g[R] = h[R]
        <3>1. IsTable(f, SUBSET S, g)
            BY <1>1
        <3>2. IsTable(f, SUBSET R, h)
            BY <2>3
        <3>3. ASSUME NEW a, NEW b, IsTable(f, SUBSET S, a), IsTable(f, SUBSET R, b)
              PROVE a[R] = b[R]
            BY <2>1, <3>3, TablesAgree
        <3> QED BY <3>1, <3>2, <3>3
    <2> QED BY <2>3, <2>4
<1> QED BY <1>1, <1>2, <1>3

LEMMA SumIsNat ==
    ASSUME NEW f, NEW S, IsFiniteSet(S), \A x \in S : f[x] \in Nat
    PROVE  SumFunctionOnSet(f, S) \in Nat
<1> DEFINE C == {T \in SUBSET S : SumFunctionOnSet(f, T) \notin Nat}
<1>1. \A T \in C : IsFiniteSet(T)
    BY FS_Subset
<1>2. CASE C # {}
    <2>1. PICK T \in C : \A x \in T : T \ {x} \notin C
        BY <1>1, <1>2, Smallest
    <2>2. /\ T = {} => SumFunctionOnSet(f, T) = 0
          /\ T # {} => SumFunctionOnSet(f, T) = f[Choice(T)] + SumFunctionOnSet(f, Rest(T))
        BY <1>1, SumStep
    <2>3. T # {} => Choice(T) \in S /\ SumFunctionOnSet(f, Rest(T)) \in Nat
        BY <1>1, <2>1, RestIs DEF Rest
    <2> QED BY <2>2, <2>3
<1> QED BY <1>2

LEMMA SumRemoves ==
    ASSUME NEW f, NEW S, IsFiniteSet(S), \A x \in S : f[x] \in Nat, NEW x \in S
    PROVE  SumFunctionOnSet(f, S) = SumFunctionOnSet(f, S \ {x}) + f[x]
<1> DEFINE C == {T \in SUBSET S : \E y \in T : SumFunctionOnSet(f, T) # SumFunctionOnSet(f, T \ {y}) + f[y]}
<1>1. \A T \in SUBSET S : IsFiniteSet(T) /\ SumFunctionOnSet(f, T) \in Nat
    BY FS_Subset, SumIsNat
<1>2. CASE C # {}
    <2>1. PICK T \in C : \A y \in T : T \ {y} \notin C
        BY <1>1, <1>2, Smallest
    <2>2. PICK y \in T : SumFunctionOnSet(f, T) # SumFunctionOnSet(f, T \ {y}) + f[y]
        OBVIOUS
    <2> DEFINE z == Choice(T)
    <2>3. z \in T /\ SumFunctionOnSet(f, T) = f[z] + SumFunctionOnSet(f, T \ {z})
        BY <1>1, SumStep, RestIs DEF Rest
    <2> HIDE DEF z
    <2>4. CASE y # z
        <3>1. SumFunctionOnSet(f, T \ {z}) = SumFunctionOnSet(f, (T \ {z}) \ {y}) + f[y]
            BY <2>1, <2>3, <2>4
        <3>2. SumFunctionOnSet(f, T \ {y}) = SumFunctionOnSet(f, (T \ {y}) \ {z}) + f[z]
            BY <2>1, <2>3, <2>4
        <3>3. SumFunctionOnSet(f, (T \ {y}) \ {z}) = SumFunctionOnSet(f, (T \ {z}) \ {y})
            <4>1. (T \ {y}) \ {z} = (T \ {z}) \ {y}
                OBVIOUS
            <4> QED BY <4>1
        <3>4. /\ f[y] \in Nat /\ f[z] \in Nat
              /\ SumFunctionOnSet(f, (T \ {z}) \ {y}) \in Nat
            BY <1>1, <2>3
        <3> QED BY <2>2, <2>3, <3>1, <3>2, <3>3, <3>4
    <2>5. CASE y = z
        <3>1. f[z] \in Nat /\ SumFunctionOnSet(f, T \ {z}) \in Nat
            BY <1>1, <2>3
        <3> QED BY <2>2, <2>3, <2>5, <3>1
    <2> QED BY <2>4, <2>5
<1> QED BY <1>2

LEMMA SumAdds ==
    ASSUME NEW f, NEW S, IsFiniteSet(S), NEW x, x \notin S, \A y \in S \cup {x} : f[y] \in Nat
    PROVE  SumFunctionOnSet(f, S \cup {x}) = SumFunctionOnSet(f, S) + f[x]
<1>1. IsFiniteSet(S \cup {x}) /\ (S \cup {x}) \ {x} = S
    BY FS_AddElement
<1> QED BY <1>1, SumRemoves

LEMMA SumGrows ==
    ASSUME NEW f, NEW S, IsFiniteSet(S), \A x \in S : f[x] \in Nat, NEW T, T \subseteq S
    PROVE  SumFunctionOnSet(f, T) <= SumFunctionOnSet(f, S)
<1> DEFINE C == {U \in SUBSET S : T \subseteq U /\ ~ (SumFunctionOnSet(f, T) <= SumFunctionOnSet(f, U))}
<1>1. \A U \in SUBSET S : IsFiniteSet(U) /\ SumFunctionOnSet(f, U) \in Nat
    BY FS_Subset, SumIsNat
<1>2. CASE C # {}
    <2>1. PICK U \in C : \A x \in U : U \ {x} \notin C
        BY <1>1, <1>2, Smallest
    <2>2. U # T
        BY <1>1
    <2>3. PICK x \in U : x \notin T
        BY <2>2
    <2>4. SumFunctionOnSet(f, U) = SumFunctionOnSet(f, U \ {x}) + f[x] /\ f[x] \in Nat
        BY <1>1, SumRemoves
    <2>5. SumFunctionOnSet(f, T) <= SumFunctionOnSet(f, U \ {x}) /\ SumFunctionOnSet(f, U \ {x}) \in Nat
        BY <1>1, <2>1, <2>3
    <2> QED BY <1>1, <2>4, <2>5
<1> QED BY <1>2

\* Of some numbers in a finite set one is the greatest.
LEMMA Greatest ==
    ASSUME NEW S, IsFiniteSet(S), S # {}, S \subseteq Nat
    PROVE  Max(S) \in S /\ \A x \in S : x <= Max(S)
<1> DEFINE C == {T \in SUBSET S : T # {} /\ ~ \E m \in T : \A x \in T : m >= x}
<1>1. \A T \in C : IsFiniteSet(T)
    BY FS_Subset
<1>2. CASE C # {}
    <2>1. PICK T \in C : \A x \in T : T \ {x} \notin C
        BY <1>1, <1>2, Smallest
    <2>2. PICK x \in T : TRUE
        OBVIOUS
    <2>3. CASE T = {x}
        BY <2>3
    <2>4. CASE T # {x}
        <3>1. PICK m \in T \ {x} : \A y \in T \ {x} : m >= y
            BY <2>1, <2>2, <2>4
        <3>2. CASE m >= x
            BY <3>1, <3>2
        <3>3. CASE ~ (m >= x)
            <4>1. \A y \in T : x >= y
                BY <3>1, <3>3
            <4> QED BY <4>1
        <3> QED BY <3>2, <3>3
    <2> QED BY <2>3, <2>4
<1>3. \E m \in S : \A x \in S : m >= x
    BY <1>2
<1> QED BY <1>3 DEF Max

\* The costs are numbers.
LEMMA ProfilesAreFinite ==
    ASSUME NEW n \in Nat, NEW j \in Nat
    PROVE  Cardinality([1 .. n -> 1 .. j]) \in Nat
<1> DEFINE Pairs == (1 .. n) \X (1 .. j)
           Graph(h) == {p \in Pairs : p[2] = h[p[1]]}
           F == [h \in [1 .. n -> 1 .. j] |-> Graph(h)]
<1>1. IsFiniteSet(SUBSET Pairs)
    <2>1. IsFiniteSet(1 .. n) /\ IsFiniteSet(1 .. j)
        BY FS_Interval
    <2>2. IsFiniteSet(Pairs)
        BY <2>1, FS_Product
    <2> HIDE DEF Pairs
    <2> QED BY <2>2, FS_SUBSET
<1>2. ASSUME NEW g \in [1 .. n -> 1 .. j], NEW h \in [1 .. n -> 1 .. j], Graph(g) = Graph(h)
      PROVE  g = h
    <2>1. ASSUME NEW i \in 1 .. n PROVE g[i] = h[i]
        <3>1. <<i, g[i]>> \in Graph(g)
            OBVIOUS
        <3>2. <<i, g[i]>> \in Graph(h)
            BY <1>2, <3>1
        <3> QED BY <3>2
    <2> QED BY <2>1
<1>3. F \in Injection([1 .. n -> 1 .. j], SUBSET Pairs)
    <2>1. F \in [[1 .. n -> 1 .. j] -> SUBSET Pairs]
        OBVIOUS
    <2>2. \A g, h \in [1 .. n -> 1 .. j] : F[g] = F[h] => g = h
        <3> HIDE DEF Graph
        <3> QED BY <1>2
    <2> HIDE DEF F
    <2> QED BY <2>1, <2>2 DEF Injection, IsInjective
<1>4. IsFiniteSet([1 .. n -> 1 .. j])
    <2> HIDE DEF F, Pairs
    <2> QED BY <1>1, <1>3, FS_Injection
<1> QED BY <1>4, FS_CardinalityType

LEMMA PlayedSizes ==
    ASSUME NEW f \in Families, NEW g \in Plays(f)
    PROVE  g.n \in Nat /\ g.j \in Nat
<1>1. <<4, 6>> \in Nat \X Nat
    OBVIOUS
<1>2. \E size \in Nat \X Nat : g.n = size[1] /\ g.j = size[2]
    <2>1. CASE g \in SolverGames
        BY <2>1, GameOf, SizeAssumption DEF SolverGames, Sizes
    <2>2. CASE g \in MixedGames
        BY <2>2, <1>1, GameOf DEF MixedGames
    <2>3. CASE g \in CncGames
        BY <2>3, <1>1, GameOf DEF CncGames
    <2>4. CASE g \in TransplantGames
        <3>1. PICK d \in Directions, s \in CncSeeds, c \in CncConditions :
                g = Game(<<4, 6>>, d[2], s, c, "base", d[1])
            BY <2>4 DEF TransplantGames
        <3> QED BY <3>1, <1>1, GameFields
    <2>5. CASE g \in LibraryGames
        <3>1. PICK v \in DOMAIN LibrarySizes :
                g \in Games({<<4, LibrarySizes[v]>>}, Mechanisms, SensitivitySeeds, Representative, {v})
            BY <2>5, Zenon DEF LibraryGames
        <3>2. LibrarySizes[v] \in Nat
            BY SizeAssumption
        <3> DEFINE size == <<4, LibrarySizes[v]>>
        <3>3. size \in Nat \X Nat
            BY <3>2
        <3>4. g.n = size[1] /\ g.j = size[2]
            BY <3>1, GameOf
        <3> QED BY <3>3, <3>4
    <2>6. CASE g \in RobustnessGames
        BY <2>6, <1>1, GameOf DEF RobustnessGames
    <2>7. CASE g \in ExactGames
        BY <2>7, GameOf, SizeAssumption DEF ExactGames, Sizes
    <2>8. CASE g \in SparseGames
        BY <2>8, GameOf, SizeAssumption DEF SparseGames, Sizes
    <2>9. CASE g \in TuningGames
        BY <2>9, GameOf, SizeAssumption DEF TuningGames, Sizes
    <2>10. CASE g \in SelectionGames
        BY <2>10, <1>1, GameOf DEF SelectionGames
    <2> QED BY <2>1, <2>2, <2>3, <2>4, <2>5, <2>6, <2>7, <2>8, <2>9, <2>10 DEF Plays
<1> QED BY <1>2

LEMMA CostsAreNumbers == \A k \in physical_jobs : EstimatedCost[k] \in Nat
<1> SUFFICES ASSUME NEW k \in physical_jobs PROVE EstimatedCost[k] \in Nat
    OBVIOUS
<1> DEFINE n == k.game.n
           j == k.game.j
           full == Cardinality([1 .. n -> 1 .. j])
           sparse == AtMost(full, AtLeast(512, 32 * n * j))
           closure == AtMost(full, AtLeast(128, 24 * n * j))
           Part(st, cost) == IF st \in k.stages THEN cost ELSE 0
           training ==
               IF k.family \in {"solver_benchmark", "mixed_challenge", "scalability_exact"}
               THEN full ELSE Part("training", sparse)
           outcomes == AtMost(full, AtLeast(32, 4 * n * j))
           episodes ==
               2 * training + Part("formal_audit", 20 * closure)
               + Part("outcome_evaluation", 5 * outcomes)
               + Part("transplant_audit", 20 * AtMost(full, 3 * closure))
               + Part("mwu_tuning_audit", 5 * AtMost(full, 17 * closure))
<1>1. n \in Nat /\ j \in Nat
    BY PhysicalJob, PlayedSizes
<1>2. full \in Nat
    BY <1>1, ProfilesAreFinite
<1>3. 32 * n * j \in Nat /\ 24 * n * j \in Nat /\ 4 * n * j \in Nat
    BY <1>1
<1> HIDE DEF n, j, full
<1>4. sparse \in Nat /\ closure \in Nat /\ outcomes \in Nat
    BY <1>2, <1>3 DEF AtMost, AtLeast
<1> HIDE DEF sparse, closure, outcomes
<1>5. AtMost(full, 3 * closure) \in Nat /\ AtMost(full, 17 * closure) \in Nat
    BY <1>2, <1>4 DEF AtMost
<1>6. episodes \in Nat
    BY <1>2, <1>4, <1>5
<1> HIDE DEF episodes
<1>7. EstimatedCost[k] =
        CASE k.family \in {"solver_benchmark_runtime", "scalability_exact_runtime"} ->
                  2 * (2 * full + 2 * sparse)
          [] k.family = "scalability_sparse_runtime" -> 4 * sparse
          [] k.family = "mwu_tuning_pipeline" -> episodes + 34 * sparse
          [] OTHER -> episodes
    BY Zenon DEF EstimatedCost, n, j, full, sparse, closure, outcomes, episodes
<1> QED BY <1>2, <1>4, <1>6, <1>7

-----------------------------------------------------------------------------
\* The loads of the slots while the jobs are assigned.
OnSlot(i) == {k \in DOMAIN assigned : assigned[k] = i}
Measuring == {k \in DOMAIN assigned : k.exclusive}
SumOfLoads == Load(1) + Load(2) + Load(3) + Load(4) + Load(5) + Load(6) + Load(7)
Share == CostOf(Keys) \div Len(SlotList)
Longest == Max({EstimatedCost[k] : k \in Keys})

LoadsInv ==
    /\ stage = "begin" => assigned = <<>>
    /\ Built /\ stage = "check" => DOMAIN assigned = Keys
    /\ Built /\ stage \in {"begin", "assign", "check"} =>
          /\ DOMAIN assigned \subseteq Keys
          /\ SumOfLoads = CostOf(DOMAIN assigned)
          /\ \A i \in 1 .. 7 :
                Load(i) <= Share + Longest + (IF i = RuntimeSlot THEN CostOf(Measuring) ELSE 0)

LEMMA CostFacts ==
    ASSUME NEW keys \in SUBSET physical_jobs, IsFiniteSet(keys)
    PROVE  /\ CostOf(keys) \in Nat
           /\ \A part \in SUBSET keys : CostOf(part) \in Nat /\ CostOf(part) <= CostOf(keys)
           /\ \A k \in physical_jobs \ keys :
                 CostOf(keys \cup {k}) = CostOf(keys) + EstimatedCost[k]
           /\ keys = {} => CostOf(keys) = 0
<1>1. \A x \in physical_jobs : EstimatedCost[x] \in Nat
    BY CostsAreNumbers
<1>2. \A part \in SUBSET keys : IsFiniteSet(part)
    BY FS_Subset
<1>3. CostOf(keys) \in Nat
    BY <1>1, SumIsNat DEF CostOf
<1>4. ASSUME NEW part \in SUBSET keys PROVE CostOf(part) \in Nat /\ CostOf(part) <= CostOf(keys)
    <2>1. CostOf(part) \in Nat
        BY <1>1, <1>2, SumIsNat DEF CostOf
    <2>2. SumFunctionOnSet(EstimatedCost, part) <= SumFunctionOnSet(EstimatedCost, keys)
        BY <1>1, SumGrows
    <2> QED BY <2>1, <2>2 DEF CostOf
<1>5. ASSUME NEW k \in physical_jobs \ keys
      PROVE  CostOf(keys \cup {k}) = CostOf(keys) + EstimatedCost[k]
    <2>1. SumFunctionOnSet(EstimatedCost, keys \cup {k}) = SumFunctionOnSet(EstimatedCost, keys) + EstimatedCost[k]
        BY <1>1, SumAdds
    <2> QED BY <2>1 DEF CostOf
<1>6. keys = {} => CostOf(keys) = 0
    BY SumStep DEF CostOf
<1> QED BY <1>3, <1>4, <1>5, <1>6

\* The least loaded slot is one that the job may use and carries no more than any other.
LEMMA LeastLoaded ==
    ASSUME NEW k, \A i \in 1 .. 7 : Load(i) \in Nat
    PROVE  /\ LeastLoadedSlot(k) \in Eligible(k)
           /\ \A o \in Eligible(k) : Load(LeastLoadedSlot(k)) <= Load(o)
<1> DEFINE load == [i \in Eligible(k) |-> Load(i)]
<1>1. Eligible(k) \subseteq 1 .. 7 /\ Eligible(k) # {}
    BY DEF Eligible, SlotList, RuntimeSlot
<1>2. \A i \in Eligible(k) : load[i] \in Nat /\ load[i] = Load(i)
    BY <1>1
<1>3. PICK least \in Eligible(k) :
        \A o \in Eligible(k) : load[least] < load[o] \/ (load[least] = load[o] /\ least <= o)
    <2> DEFINE values == {load[i] : i \in Eligible(k)}
    <2>1. PICK v \in values : \A w \in values : v <= w
        BY <1>1, <1>2, LeastMember
    <2> DEFINE slots == {i \in Eligible(k) : load[i] = v}
    <2>2. slots \subseteq Nat /\ slots # {}
        BY <1>1
    <2>3. PICK first \in slots : \A o \in slots : first <= o
        BY <2>2, LeastMember
    <2> HIDE DEF load
    <2>4. ASSUME NEW o \in Eligible(k) PROVE load[first] < load[o] \/ (load[first] = load[o] /\ first <= o)
        <3>1. load[o] \in values /\ load[first] = v /\ load[o] \in Nat /\ v \in Nat
            BY <1>2
        <3>2. load[first] <= load[o]
            BY <2>1, <3>1
        <3>3. load[o] = v => first <= o
            BY <2>3
        <3> QED BY <3>1, <3>2, <3>3
    <2> QED BY <2>4
<1>4. LeastLoadedSlot(k) =
        CHOOSE i \in Eligible(k) :
            \A o \in Eligible(k) : load[i] < load[o] \/ (load[i] = load[o] /\ i <= o)
    BY DEF LeastLoadedSlot
<1> DEFINE s == LeastLoadedSlot(k)
<1> HIDE DEF load
<1>5. s \in Eligible(k) /\ \A o \in Eligible(k) : load[s] < load[o] \/ (load[s] = load[o] /\ s <= o)
    BY <1>3, <1>4
<1> HIDE DEF s
<1>6. \A o \in Eligible(k) : Load(s) <= Load(o)
    BY <1>2, <1>5
<1> QED BY <1>5, <1>6 DEF s

LEMMA Costliest ==
    ASSUME NEW keys, IsFiniteSet(keys), keys # {}, keys \subseteq physical_jobs
    PROVE  LET costs == {EstimatedCost[k] : k \in keys} IN
           /\ Max(costs) \in costs /\ Max(costs) \in Nat
           /\ \A k \in keys : EstimatedCost[k] <= Max(costs)
<1> DEFINE costs == {EstimatedCost[k] : k \in keys}
           F == [k \in keys |-> EstimatedCost[k]]
<1>1. IsFiniteSet(costs)
    <2>1. F \in Surjection(keys, costs)
        BY DEF Surjection
    <2> HIDE DEF F, costs
    <2> QED BY <2>1, FS_Surjection
<1>2. costs \subseteq Nat /\ costs # {}
    BY CostsAreNumbers
<1>3. \A k \in keys : EstimatedCost[k] \in costs
    OBVIOUS
<1> HIDE DEF costs
<1>4. Max(costs) \in costs /\ \A x \in costs : x <= Max(costs)
    BY <1>1, <1>2, Greatest
<1>5. \A k \in keys : EstimatedCost[k] <= Max(costs)
    BY <1>3, <1>4
<1> QED BY <1>2, <1>4, <1>5 DEF costs

LEMMA PlanNumbers ==
    ASSUME InputInv, Built
    PROVE  /\ Keys \subseteq physical_jobs /\ IsFiniteSet(Keys)
           /\ CostOf(Keys) \in Nat /\ Share \in Nat /\ Longest \in Nat
           /\ \A x \in Nat : 7 * x <= CostOf(Keys) => x <= Share
           /\ \A k \in Keys : EstimatedCost[k] \in Nat /\ EstimatedCost[k] <= Longest
<1>1. Keys \subseteq physical_jobs /\ IsFiniteSet(Keys) /\ Keys # {}
    BY KeysOfMatrix, KeysToDo DEF Built
<1>2. CostOf(Keys) \in Nat
    BY <1>1, CostFacts
<1>3. Share = CostOf(Keys) \div 7
    BY DEF Share, SlotList
<1>4. Share \in Nat /\ \A x \in Nat : 7 * x <= CostOf(Keys) => x <= Share
    BY <1>2, <1>3
<1>5. Longest \in Nat /\ \A k \in Keys : EstimatedCost[k] <= Longest
    BY <1>1, Costliest DEF Longest
<1> QED BY <1>1, <1>2, <1>4, <1>5, CostsAreNumbers

LEMMA InitLoads == Init => LoadsInv
<1> SUFFICES ASSUME Init PROVE LoadsInv
    OBVIOUS
<1>1. assigned = <<>> /\ DOMAIN assigned = {} /\ InputInv
    BY DEF Init, InitBuild, InitLoad, InputInv
<1>2. CostOf({}) = 0
    BY FS_EmptySet, CostFacts
<1>3. CASE Built
    <2>1. \A i \in 1 .. 7 : Load(i) = 0
        <3>1. \A i \in 1 .. 7 : {k \in DOMAIN assigned : assigned[k] = i} = {}
            BY <1>1
        <3> QED BY <1>2, <3>1, Zenon DEF Load
    <2>2. SumOfLoads = 0
        BY <2>1 DEF SumOfLoads
    <2>3. Measuring = {}
        BY <1>1 DEF Measuring
    <2>4. Share \in Nat /\ Longest \in Nat
        BY <1>1, <1>3, PlanNumbers
    <2>5. stage = "begin"
        BY <1>3 DEF Init, InitBuild, InitLoad, Built
    <2> QED BY <1>1, <1>2, <2>1, <2>2, <2>3, <2>4, <2>5 DEF LoadsInv
<1>4. CASE ~Built
    <2>1. stage # "begin"
        BY <1>4 DEF Init, InitBuild, InitLoad, Built
    <2> QED BY <1>4, <2>1 DEF LoadsInv
<1> QED BY <1>3, <1>4

LEMMA StepAssign == LoadsInv /\ InputInv /\ AssignNext /\ Built => LoadsInv'
<1> SUFFICES ASSUME LoadsInv, InputInv, AssignNext, Built PROVE LoadsInv'
    OBVIOUS
<1> DEFINE k == NextKey
           s == LeastLoadedSlot(k)
           D == DOMAIN assigned
           c == EstimatedCost[k]
<1>1. /\ stage = "assign" /\ stage' = "assign" /\ D # Keys /\ phase' = phase
      /\ assigned' = [o \in D \cup {k} |-> IF o = k THEN s ELSE assigned[o]]
    BY DEF AssignNext, input
<1>2. /\ D \subseteq Keys /\ SumOfLoads = CostOf(D)
      /\ \A i \in 1 .. 7 :
            Load(i) <= Share + Longest + (IF i = RuntimeSlot THEN CostOf(Measuring) ELSE 0)
    BY <1>1 DEF LoadsInv
<1>3. /\ Keys \subseteq physical_jobs /\ IsFiniteSet(Keys)
      /\ CostOf(Keys) \in Nat /\ Share \in Nat /\ Longest \in Nat
      /\ \A x \in Nat : 7 * x <= CostOf(Keys) => x <= Share
      /\ \A o \in Keys : EstimatedCost[o] \in Nat /\ EstimatedCost[o] <= Longest
    BY PlanNumbers
<1>4. k \in Keys \ D
    <2> DEFINE left == Keys \ D
    <2>1. left # {} /\ IsFiniteSet(left) /\ left \subseteq physical_jobs
        BY <1>1, <1>2, <1>3, FS_Subset
    <2> HIDE DEF left
    <2>2. PICK o \in left : EstimatedCost[o] = Max({EstimatedCost[x] : x \in left})
        BY <2>1, Costliest
    <2>3. \A x \in left : EstimatedCost[x] <= EstimatedCost[o]
        BY <2>1, <2>2, Costliest
    <2>4. \A x \in left : EstimatedCost[o] >= EstimatedCost[x]
        BY <2>1, <2>3, CostsAreNumbers
    <2>5. NextKey = CHOOSE o_1 \in left : \A x \in left : EstimatedCost[o_1] >= EstimatedCost[x]
        BY Zenon DEF NextKey, left
    <2>6. NextKey \in left
        BY <2>4, <2>5
    <2> QED BY <2>6 DEF left
<1>5. /\ IsFiniteSet(D) /\ D \in SUBSET physical_jobs
      /\ \A part \in SUBSET D : IsFiniteSet(part) /\ CostOf(part) \in Nat
    <2>1. IsFiniteSet(D) /\ D \in SUBSET physical_jobs
        BY <1>2, <1>3, FS_Subset
    <2>2. \A part \in SUBSET D : CostOf(part) \in Nat
        BY <2>1, CostFacts
    <2> QED BY <2>1, <2>2, FS_Subset
<1>6. c \in Nat /\ c <= Longest /\ k \in physical_jobs
    BY <1>3, <1>4
<1>7. \A i \in 1 .. 7 : OnSlot(i) \in SUBSET D /\ Load(i) = CostOf(OnSlot(i)) /\ Load(i) \in Nat
    <2>1. \A i \in 1 .. 7 : OnSlot(i) \in SUBSET D /\ Load(i) = CostOf(OnSlot(i))
        BY DEF OnSlot, Load
    <2> QED BY <1>5, <2>1
<1>8. s \in Eligible(k) /\ \A o \in Eligible(k) : Load(s) <= Load(o)
    BY <1>7, LeastLoaded
<1>9. s \in 1 .. 7 /\ (k.exclusive => s = RuntimeSlot)
    BY <1>8 DEF Eligible, SlotList, RuntimeSlot
<1>10. ~k.exclusive => Load(s) <= Share
    <2> SUFFICES ASSUME ~k.exclusive PROVE Load(s) <= Share
        OBVIOUS
    <2>1. \A o \in 1 .. 7 : Load(s) <= Load(o)
        BY <1>8 DEF Eligible, SlotList
    <2>2. 7 * Load(s) <= SumOfLoads
        BY <1>7, <1>9, <2>1 DEF SumOfLoads
    <2>3. CostOf(D) <= CostOf(Keys) /\ CostOf(D) \in Nat
        BY <1>2, <1>3, CostFacts
    <2> QED BY <1>2, <1>3, <1>7, <1>9, <2>2, <2>3
<1> HIDE DEF k, s, D, c
<1>11. /\ DOMAIN assigned' = D \cup {k} /\ assigned'[k] = s
       /\ \A o \in D : assigned'[o] = assigned[o]
    BY <1>1, <1>4
<1>12. k \notin D /\ CostOf(D \cup {k}) = CostOf(D) + c
    BY <1>4, <1>5, <1>6, CostFacts DEF c
<1>13. ASSUME NEW i \in 1 .. 7
       PROVE  Load(i)' = Load(i) + (IF i = s THEN c ELSE 0)
    <2>1. Load(i)' = CostOf({o \in D \cup {k} : assigned'[o] = i})
        BY <1>11 DEF Load
    <2>2. {o \in D \cup {k} : assigned'[o] = i} = IF i = s THEN OnSlot(i) \cup {k} ELSE OnSlot(i)
        BY <1>11, <1>12 DEF OnSlot, D
    <2>3. CostOf(OnSlot(i) \cup {k}) = CostOf(OnSlot(i)) + c
        <3>1. k \in physical_jobs \ OnSlot(i)
            BY <1>6, <1>7, <1>12
        <3>2. IsFiniteSet(OnSlot(i)) /\ OnSlot(i) \in SUBSET physical_jobs
            BY <1>5, <1>7
        <3> QED BY <3>1, <3>2, CostFacts DEF c
    <2>4. CASE i = s
        BY <1>7, <2>1, <2>2, <2>3, <2>4
    <2>5. CASE i # s
        BY <1>7, <2>1, <2>2, <2>5
    <2> QED BY <2>4, <2>5
<1>14. SumOfLoads' = SumOfLoads + c
    <2>1. SumOfLoads' = Load(1)' + Load(2)' + Load(3)' + Load(4)' + Load(5)' + Load(6)' + Load(7)'
        BY DEF SumOfLoads
    <2> QED BY <1>6, <1>7, <1>9, <1>13, <2>1 DEF SumOfLoads
<1>15. /\ CostOf(Measuring) \in Nat /\ CostOf(Measuring)' \in Nat
       /\ CostOf(Measuring)' = CostOf(Measuring) + (IF k.exclusive THEN c ELSE 0)
    <2>1. Measuring \in SUBSET D /\ Measuring' = {o \in D \cup {k} : o.exclusive}
        BY <1>11 DEF Measuring, D
    <2>2. Measuring' = IF k.exclusive THEN Measuring \cup {k} ELSE Measuring
        BY <2>1 DEF Measuring, D
    <2>3. /\ IsFiniteSet(Measuring) /\ Measuring \in SUBSET physical_jobs
          /\ k \in physical_jobs \ Measuring /\ CostOf(Measuring) \in Nat
        BY <1>5, <1>6, <1>12, <2>1
    <2>4. CostOf(Measuring \cup {k}) = CostOf(Measuring) + c
        BY <2>3, CostFacts DEF c
    <2>5. CostOf(Measuring)' = CostOf(Measuring')
        OBVIOUS
    <2>6. CASE k.exclusive
        BY <1>6, <2>2, <2>3, <2>4, <2>5, <2>6
    <2>7. CASE ~k.exclusive
        BY <2>2, <2>3, <2>5, <2>7
    <2> QED BY <2>6, <2>7
<1>16. Share' = Share /\ Longest' = Longest /\ Keys' = Keys /\ Built'
    BY <1>1 DEF Share, Longest, Keys, Built
<1>17. ASSUME NEW i \in 1 .. 7
       PROVE  Load(i)' <= Share + Longest + (IF i = RuntimeSlot THEN CostOf(Measuring)' ELSE 0)
    <2>1. CASE k.exclusive
        BY <1>2, <1>3, <1>6, <1>7, <1>9, <1>13, <1>15, <2>1
    <2>2. CASE ~k.exclusive
        <3>1. Load(s) + c <= Share + Longest
            BY <1>3, <1>6, <1>7, <1>9, <1>10, <2>2
        <3> QED BY <1>2, <1>3, <1>6, <1>7, <1>9, <1>13, <1>15, <2>2, <3>1
    <2> QED BY <2>1, <2>2
<1>18. DOMAIN assigned' \subseteq Keys'
    BY <1>2, <1>4, <1>11, <1>16
<1>19. SumOfLoads' = CostOf(DOMAIN assigned)'
    BY <1>2, <1>11, <1>12, <1>14
<1> QED BY <1>1, <1>16, <1>17, <1>18, <1>19 DEF LoadsInv

LEMMA LoadsAlways == Spec => []LoadsInv
<1>1. LoadsInv /\ InputInv /\ [Next]_vars => LoadsInv'
    <2> SUFFICES ASSUME LoadsInv, InputInv, [Next]_vars PROVE LoadsInv'
        OBVIOUS
    <2>1. CASE AssignNext
        <3>1. CASE Built
            BY <2>1, <3>1, StepAssign
        <3>2. CASE ~Built
            BY <2>1, <3>2 DEF AssignNext, LoadsInv, Built, input
        <3> QED BY <3>1, <3>2
    <2>2. CASE Begin \/ Freeze
        <3>1. /\ UNCHANGED phase /\ UNCHANGED assigned
              /\ stage' # "begin" /\ stage \in {"begin", "assign"}
              /\ stage' = "check" => DOMAIN assigned = Keys
            BY <2>2 DEF Begin, Freeze, input
        <3>2. /\ (Built' <=> Built) /\ Keys' = Keys /\ Share' = Share /\ Longest' = Longest
              /\ SumOfLoads' = SumOfLoads /\ Measuring' = Measuring
              /\ \A i \in 1 .. 7 : Load(i)' = Load(i)
            BY <3>1 DEF Built, Keys, Share, Longest, SumOfLoads, Measuring, Load
        <3> QED BY <3>1, <3>2 DEF LoadsInv
    <2>3. CASE Check \/ VisitRoot \/ VisitDependency \/ VisitReturns \/ Decide
        <3>1. stage' \in {"visit", "accepted", "refused"}
            BY <2>3 DEF Check, VisitRoot, VisitDependency, VisitReturns, Decide
        <3> QED BY <3>1 DEF LoadsInv
    <2>4. CASE UNCHANGED vars
        <3>1. UNCHANGED phase /\ UNCHANGED assigned /\ UNCHANGED stage
            BY <2>4 DEF vars, input
        <3>2. /\ (Built' <=> Built) /\ Keys' = Keys /\ Share' = Share /\ Longest' = Longest
              /\ SumOfLoads' = SumOfLoads /\ Measuring' = Measuring
              /\ \A i \in 1 .. 7 : Load(i)' = Load(i)
            BY <3>1 DEF Built, Keys, Share, Longest, SumOfLoads, Measuring, Load
        <3> QED BY <3>1, <3>2 DEF LoadsInv
    <2> QED BY <2>1, <2>2, <2>3, <2>4 DEF Next, Ended
<1> QED BY <1>1, InitLoads, InputAlways, PTL DEF Spec

\* Whatever the design, no slot of a campaign gets more than its share of the work and one
\* job, and the measuring slot at most its measurements on top (_assign_lpt).
THEOREM SlotsShareTheWork == Spec => []NoSlotOverloaded
<1>1. LoadsInv => NoSlotOverloaded
    <2> SUFFICES ASSUME LoadsInv, stage = "check", Built, NEW i \in DOMAIN SlotList
                 PROVE  Load(i) <= Share + Longest
                            + (IF i = RuntimeSlot THEN CostOf({k \in Keys : k.exclusive}) ELSE 0)
        BY DEF NoSlotOverloaded, Built, Share, Longest
    <2>1. i \in 1 .. 7
        BY DEF SlotList
    <2>2. Measuring = {k \in Keys : k.exclusive}
        BY DEF LoadsInv, Measuring
    <2> QED BY <2>1, <2>2 DEF LoadsInv
<1> QED BY <1>1, LoadsAlways, PTL
=============================================================================
