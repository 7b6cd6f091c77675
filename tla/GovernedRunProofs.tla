--------------------------- MODULE GovernedRunProofs ---------------------------
(***************************************************************************)
(* What the guards of a run achieve, whatever the adapter, the texts, the  *)
(* tools and the limits: proofs of RequestsScreened, BlockIsLastWord and   *)
(* AdapterContracts; and, in the last part, what the middleware does for   *)
(* the runs of the Microsoft Agent Framework, whose state is another one.  *)
(***************************************************************************)
EXTENDS GovernedRun, MafRun, FiniteSetTheorems, WellFoundedInduction, SequenceTheorems, TLAPS

-------------------------------------------------------------------------------
(***************************************************************************)
(* The concatenation of texts                                              *)
(***************************************************************************)

\* Every nonempty set of positions has a first one.  Inductions below are a search
\* for the first position that breaks the claim.
LEMMA FirstPosition ==
    ASSUME NEW n \in Nat, NEW B \in SUBSET (1 .. n), B # {}
    PROVE  \E m \in B : \A k \in B : m <= k
<1> DEFINE S == 1 .. n
           T == {1 .. k : k \in B}
<1>1. IsFiniteSet(S)
  BY FS_Interval
<1>2. IsWellFoundedOn(StrictSubsetOrdering(S), FiniteSubsetsOf(S))
  BY FS_StrictSubsetOrderingWellFounded
<1>3. FiniteSubsetsOf(S) = SUBSET S
  BY <1>1, FS_FiniteSubsetsOfFinite
<1>4. T \subseteq SUBSET S /\ T # {}
  <2>1. ASSUME NEW k \in B
        PROVE  1 .. k \in SUBSET S
    OBVIOUS
  <2>2. PICK b \in B : TRUE
    OBVIOUS
  <2>3. 1 .. b \in T
    OBVIOUS
  <2> QED
    BY <2>1, <2>3
<1> HIDE DEF S, T
<1>5. PICK I \in T : \A J \in T : ~ (<<J, I>> \in StrictSubsetOrdering(S))
  BY <1>2, <1>3, <1>4, WFMin
<1>6. PICK m \in B : I = 1 .. m
  BY DEF T
<1>7. ASSUME NEW k \in B, k < m
      PROVE  FALSE
  <2>1. 1 .. k \in T
    BY DEF T
  <2>2. 1 .. k \subseteq I /\ m \in I /\ m \notin 1 .. k
    BY <1>6, <1>7
  <2>3. <<1 .. k, I>> \in StrictSubsetOrdering(S)
    BY <1>4, <2>1, <2>2 DEF StrictSubsetOrdering
  <2> QED
    BY <1>5, <2>1, <2>3
<1> QED
  BY <1>7

\* Induction over positions: what holds of 0, and of each position if of the one before,
\* holds of all.
LEMMA EveryPosition ==
    ASSUME NEW n \in Nat, NEW S \in SUBSET (0 .. n), 0 \in S,
           \A k \in 1 .. n : k - 1 \in S => k \in S
    PROVE  S = 0 .. n
<1> DEFINE B == {k \in 1 .. n : k \notin S}
<1>1. ASSUME B # {} PROVE FALSE
  <2>1. B \in SUBSET (1 .. n)
    OBVIOUS
  <2> HIDE DEF B
  <2>2. PICK m \in B : \A k \in B : m <= k
    BY <1>1, <2>1, FirstPosition
  <2>3. m \in 1 .. n /\ m \notin S
    BY DEF B
  <2>4. m \in Nat /\ 1 <= m /\ m <= n
    BY <2>3
  <2>5. m - 1 \in S
    <3>1. CASE m = 1
      BY <3>1
    <3>2. CASE m # 1
      <4>1. m - 1 \in 1 .. n
        BY <2>4, <3>2
      <4>2. ~(m <= m - 1)
        BY <2>4
      <4>3. m - 1 \notin B
        BY <2>2, <4>2
      <4> QED BY <4>1, <4>3 DEF B
    <3> QED BY <3>1, <3>2
  <2> QED BY <2>3, <2>5
<1>2. ASSUME NEW k \in 0 .. n PROVE k \in S
  <2>1. k = 0 \/ k \in 1 .. n
    BY <1>2
  <2>2. k \notin B
    BY <1>1
  <2> QED BY <2>1, <2>2
<1> QED BY <1>2

\* The recursion by which Total adds up is well founded: some function has the sum of
\* the first i numbers at i, and so has the one that Total chooses.
LEMMA TotalIsSum ==
    ASSUME NEW s \in Seq(Nat)
    PROVE  \E sum \in [0 .. Len(s) -> Nat] :
              /\ sum[0] = 0
              /\ \A i \in 1 .. Len(s) : sum[i] = sum[i - 1] + s[i]
              /\ Total(s) = sum[Len(s)]
<1> DEFINE SumsTo(f, n) == f = [i \in 0 .. n |-> IF i = 0 THEN 0 ELSE f[i - 1] + s[i]]
           N == Len(s)
           S == {n \in 0 .. N : \E f : SumsTo(f, n)}
<1>1. N \in Nat /\ \A i \in 1 .. N : s[i] \in Nat
  OBVIOUS
<1>2. Total(s) = (CHOOSE f : SumsTo(f, N))[N]
  BY Zenon DEF Total
<1>3. \E f : SumsTo(f, 0)
  <2>1. SumsTo([i \in 0 .. 0 |-> 0], 0)
    OBVIOUS
  <2> QED BY <2>1
<1> HIDE DEF N
<1>4. ASSUME NEW m \in 1 .. N, NEW f, SumsTo(f, m - 1) PROVE \E g : SumsTo(g, m)
  <2> DEFINE g == [i \in 0 .. m |-> IF i \in 0 .. m - 1 THEN f[i] ELSE f[m - 1] + s[m]]
             h == [i \in 0 .. m |-> IF i = 0 THEN 0 ELSE g[i - 1] + s[i]]
  <2>1. ASSUME NEW i \in 0 .. m PROVE g[i] = h[i]
    <3>1. i # 0 => i - 1 \in 0 .. m /\ i - 1 \in 0 .. m - 1
      BY <1>1
    <3>2. i # 0 => g[i - 1] = f[i - 1]
      BY <3>1
    <3>3. i \in 0 .. m - 1 => f[i] = IF i = 0 THEN 0 ELSE f[i - 1] + s[i]
      BY <1>4
    <3>4. i \notin 0 .. m - 1 => i = m /\ i # 0
      BY <1>1
    <3> QED BY <3>2, <3>3, <3>4
  <2>2. g = h
    BY <2>1
  <2> QED BY <2>2
<1> HIDE DEF SumsTo
<1>5. S = 0 .. N
  <2>1. 0 \in S /\ S \in SUBSET (0 .. N)
    BY <1>1, <1>3
  <2>2. ASSUME NEW k \in 1 .. N, k - 1 \in S PROVE k \in S
    <3>1. \E f : SumsTo(f, k - 1)
      BY <2>2
    <3>2. \E g : SumsTo(g, k)
      BY <1>4, <3>1
    <3>3. k \in 0 .. N
      BY <1>1
    <3> QED BY <3>2, <3>3
  <2> HIDE DEF S
  <2> QED BY <1>1, <2>1, <2>2, EveryPosition
<1>6. \E f : SumsTo(f, N)
  <2>1. N \in 0 .. N
    BY <1>1
  <2> QED BY <1>5, <2>1
<1> DEFINE sum == CHOOSE f : SumsTo(f, N)
<1>7. SumsTo(sum, N)
  BY <1>6
<1> HIDE DEF sum, S
<1>8. /\ sum = [i \in 0 .. N |-> sum[i]] /\ sum[0] = 0
      /\ \A i \in 1 .. N : sum[i] = sum[i - 1] + s[i]
  <2>1. \A i \in 0 .. N : sum[i] = IF i = 0 THEN 0 ELSE sum[i - 1] + s[i]
    BY <1>7 DEF SumsTo
  <2>2. sum = [i \in 0 .. N |-> IF i = 0 THEN 0 ELSE sum[i - 1] + s[i]]
    BY <1>7 DEF SumsTo
  <2>3. 0 \in 0 .. N /\ \A i \in 1 .. N : i \in 0 .. N /\ i # 0
    BY <1>1
  <2> QED BY <2>1, <2>2, <2>3
<1>9. \A i \in 0 .. N : sum[i] \in Nat
  <2> DEFINE T == {i \in 0 .. N : sum[i] \in Nat}
  <2>1. 0 \in T /\ T \in SUBSET (0 .. N)
    BY <1>1, <1>8
  <2>2. ASSUME NEW k \in 1 .. N, k - 1 \in T PROVE k \in T
    <3>1. sum[k - 1] \in Nat /\ s[k] \in Nat
      BY <1>1, <2>2
    <3>2. sum[k] = sum[k - 1] + s[k]
      BY <1>8
    <3>3. sum[k] \in Nat
      BY <3>1, <3>2
    <3> QED BY <1>1, <3>3
  <2> HIDE DEF T
  <2>3. T = 0 .. N
    BY <1>1, <2>1, <2>2, EveryPosition
  <2> QED BY <2>3 DEF T
<1>10. sum \in [0 .. N -> Nat]
  BY <1>8, <1>9
<1>11. Total(s) = sum[N]
  BY <1>2 DEF sum
<1> QED BY <1>8, <1>10, <1>11 DEF N

\* A sum is at least each of its summands.
LEMMA TotalBoundsAll ==
    ASSUME NEW s \in Seq(Nat)
    PROVE  Total(s) \in Nat /\ \A i \in DOMAIN s : s[i] <= Total(s)
<1> DEFINE N == Len(s)
<1>1. PICK sum \in [0 .. N -> Nat] :
          /\ sum[0] = 0
          /\ \A i \in 1 .. N : sum[i] = sum[i - 1] + s[i]
          /\ Total(s) = sum[N]
  BY TotalIsSum
<1>2. N \in Nat /\ DOMAIN s = 1 .. N /\ \A i \in 1 .. N : s[i] \in Nat
  OBVIOUS
<1> HIDE DEF N
<1>3. ASSUME NEW i \in 1 .. N PROVE s[i] <= sum[N]
  <2> DEFINE T == {k \in 0 .. N : i <= k => s[i] <= sum[k]}
  <2>1. 0 \in T /\ T \in SUBSET (0 .. N)
    BY <1>2
  <2>2. ASSUME NEW k \in 1 .. N, k - 1 \in T PROVE k \in T
    <3>1. k - 1 \in 0 .. N /\ k \in 0 .. N /\ (i <= k - 1 => s[i] <= sum[k - 1])
      BY <1>2, <2>2
    <3>2. sum[k] = sum[k - 1] + s[k] /\ sum[k - 1] \in Nat /\ s[k] \in Nat /\ s[i] \in Nat
      BY <1>1, <1>2, <3>1
    <3>3. i <= k => s[i] <= sum[k]
      BY <3>1, <3>2
    <3> QED BY <3>1, <3>3
  <2>3. N \in 0 .. N /\ i <= N
    BY <1>2
  <2> HIDE DEF T
  <2>4. T = 0 .. N
    BY <1>2, <2>1, <2>2, EveryPosition
  <2> QED BY <2>3, <2>4 DEF T
<1>4. sum[N] \in Nat
  BY <1>1, <1>2
<1> QED BY <1>1, <1>2, <1>3, <1>4

\* A sum of smaller numbers is smaller.
LEMMA TotalIsMonotone ==
    ASSUME NEW a \in Seq(Nat), NEW b \in Seq(Nat), Len(a) = Len(b),
           \A i \in DOMAIN a : a[i] <= b[i]
    PROVE  Total(a) <= Total(b)
<1> DEFINE N == Len(a)
<1>1. PICK f \in [0 .. N -> Nat] :
          /\ f[0] = 0
          /\ \A i \in 1 .. N : f[i] = f[i - 1] + a[i]
          /\ Total(a) = f[N]
  BY TotalIsSum
<1>2. PICK g \in [0 .. N -> Nat] :
          /\ g[0] = 0
          /\ \A i \in 1 .. N : g[i] = g[i - 1] + b[i]
          /\ Total(b) = g[N]
  BY TotalIsSum
<1>3. N \in Nat /\ \A i \in 1 .. N : a[i] \in Nat /\ b[i] \in Nat /\ a[i] <= b[i]
  <2>1. N \in Nat /\ DOMAIN a = 1 .. N /\ \A i \in 1 .. N : a[i] \in Nat
    OBVIOUS
  <2>2. \A i \in 1 .. N : b[i] \in Nat
    OBVIOUS
  <2> QED BY <2>1, <2>2
<1> HIDE DEF N
<1> DEFINE T == {k \in 0 .. N : f[k] <= g[k]}
<1>4. 0 \in T /\ T \in SUBSET (0 .. N)
  BY <1>1, <1>2, <1>3
<1>5. ASSUME NEW k \in 1 .. N, k - 1 \in T PROVE k \in T
  <2>1. k - 1 \in 0 .. N /\ k \in 0 .. N /\ f[k - 1] <= g[k - 1]
    BY <1>3, <1>5
  <2>2. /\ f[k] = f[k - 1] + a[k] /\ g[k] = g[k - 1] + b[k]
        /\ f[k - 1] \in Nat /\ g[k - 1] \in Nat /\ a[k] \in Nat /\ b[k] \in Nat /\ a[k] <= b[k]
    BY <1>1, <1>2, <1>3, <2>1
  <2>3. f[k] <= g[k]
    BY <2>1, <2>2
  <2> QED BY <2>1, <2>3
<1> HIDE DEF T
<1>6. T = 0 .. N
  BY <1>3, <1>4, <1>5, EveryPosition
<1>7. N \in 0 .. N
  BY <1>3
<1> QED BY <1>1, <1>2, <1>6, <1>7 DEF T

\* The sizes of texts are numbers, by position.
LEMMA SizesOfTexts ==
    ASSUME NEW a \in Seq(Texts)
    PROVE  /\ [i \in DOMAIN a |-> a[i].size] \in Seq(Nat)
           /\ Len([i \in DOMAIN a |-> a[i].size]) = Len(a)
           /\ DOMAIN [i \in DOMAIN a |-> a[i].size] = DOMAIN a
<1>1. Len(a) \in Nat /\ DOMAIN a = 1 .. Len(a) /\ \A i \in DOMAIN a : a[i] \in Texts
  OBVIOUS
<1>2. \A i \in DOMAIN a : a[i].size \in Nat
  BY <1>1 DEF Texts
<1> QED BY <1>1, <1>2

\* A concatenation of texts that say less says less.
LEMMA JoinIsMonotone ==
    ASSUME NEW a \in Seq(Texts), NEW b \in Seq(Texts), Len(a) = Len(b),
           \A i \in DOMAIN a : a[i].marks \subseteq b[i].marks /\ a[i].size <= b[i].size
    PROVE  /\ Join(a).marks \subseteq Join(b).marks
           /\ Join(a).size \in Nat /\ Join(b).size \in Nat /\ Join(a).size <= Join(b).size
<1>1. DOMAIN a = DOMAIN b
  OBVIOUS
<1>2. Join(a).marks \subseteq Join(b).marks
  BY <1>1 DEF Join
<1> DEFINE x == [i \in DOMAIN a |-> a[i].size]
           y == [i \in DOMAIN b |-> b[i].size]
<1>3. /\ x \in Seq(Nat) /\ y \in Seq(Nat) /\ Len(x) = Len(y)
      /\ \A i \in DOMAIN x : x[i] <= y[i]
  BY <1>1, SizesOfTexts
<1> HIDE DEF x, y
<1>4. Total(x) <= Total(y) /\ Total(x) \in Nat /\ Total(y) \in Nat
  BY <1>3, TotalIsMonotone, TotalBoundsAll
<1>5. Join(a).size = Total(x) /\ Join(b).size = Total(y)
  BY DEF Join, x, y
<1> QED BY <1>2, <1>4, <1>5

\* The detectors find nothing in a concatenation of empty texts.
LEMMA EmptyJoin ==
    ASSUME NEW a \in Seq(Texts)
    PROVE  Join(a).size \in Nat /\ (Join(a).size = 0 => Join(a).marks = {})
<1> DEFINE x == [i \in DOMAIN a |-> a[i].size]
<1>1. x \in Seq(Nat) /\ DOMAIN x = DOMAIN a /\ \A i \in DOMAIN a : x[i] = a[i].size
  BY SizesOfTexts
<1>2. Join(a).size = Total(x)
  BY DEF Join
<1> HIDE DEF x
<1>3. Total(x) \in Nat /\ \A i \in DOMAIN x : x[i] <= Total(x)
  BY <1>1, TotalBoundsAll
<1>4. ASSUME Total(x) = 0, NEW i \in DOMAIN a PROVE a[i].marks = {}
  <2>1. a[i] \in Texts
    OBVIOUS
  <2>2. a[i].size \in Nat /\ a[i].size <= 0
    BY <1>1, <1>3, <1>4, <2>1 DEF Texts
  <2> QED BY <2>1, <2>2 DEF Texts
<1>5. Total(x) = 0 => Join(a).marks = {}
  BY <1>4 DEF Join
<1> QED BY <1>2, <1>3, <1>5

-------------------------------------------------------------------------------
(***************************************************************************)
(* The hooks                                                               *)
(***************************************************************************)

\* A trail in which only the last entry may be a denial.
Decided(entries) ==
    entries \in Seq(Entries) /\ \A i \in 1 .. Len(entries) - 1 : entries[i].decision # "deny"

\* The first denial of a hook is its last entry.
LEMMA DenialIsLast ==
    ASSUME NEW e \in Seq(Entries)
    PROVE  /\ Decided(UpToDenial(e))
           /\ Blocks(UpToDenial(e)) <=> Blocks(e)
           /\ ~Blocks(e) => UpToDenial(e) = e
<1> DEFINE denials == {i \in DOMAIN e : e[i].decision = "deny"}
           first == CHOOSE i \in denials : \A j \in denials : i <= j
<1>1. Blocks(e) <=> denials # {}
  BY DEF Blocks
<1>2. UpToDenial(e) = IF denials = {} THEN e ELSE SubSeq(e, 1, first)
  BY DEF UpToDenial
<1>3. Len(e) \in Nat /\ DOMAIN e = 1 .. Len(e) /\ denials \in SUBSET (1 .. Len(e))
  OBVIOUS
<1>4. CASE denials = {}
  <2>1. UpToDenial(e) = e /\ \A i \in DOMAIN e : e[i].decision # "deny"
    BY <1>2, <1>4
  <2> QED BY <1>1, <1>3, <1>4, <2>1 DEF Decided, Blocks
<1>5. CASE denials # {}
  <2>1. first \in denials /\ \A j \in denials : first <= j
    <3> HIDE DEF denials
    <3>1. \E i \in denials : \A j \in denials : i <= j
      BY <1>3, <1>5, FirstPosition
    <3> QED BY <3>1
  <2> HIDE DEF first
  <2>2. first \in 1 .. Len(e) /\ e[first].decision = "deny"
    BY <1>3, <2>1
  <2> DEFINE u == SubSeq(e, 1, first)
  <2>3. u \in Seq(Entries) /\ Len(u) = first /\ \A i \in 1 .. first : u[i] = e[i]
    BY <1>3, <2>2
  <2>4. \A i \in 1 .. first - 1 : e[i].decision # "deny"
    <3>1. ASSUME NEW i \in 1 .. first - 1, e[i].decision = "deny" PROVE FALSE
      <4>1. i \in DOMAIN e /\ ~(first <= i)
        BY <1>3, <2>2
      <4> QED BY <2>1, <3>1, <4>1
    <3> QED BY <3>1
  <2> HIDE DEF u
  <2>5. Decided(u)
    <3>1. \A i \in 1 .. first - 1 : i \in 1 .. first
      BY <2>2
    <3> QED BY <2>3, <2>4, <3>1 DEF Decided
  <2>6. Blocks(u)
    <3>1. first \in DOMAIN u
      BY <2>2, <2>3
    <3> QED BY <2>2, <2>3, <3>1 DEF Blocks
  <2>7. UpToDenial(e) = u
    BY <1>2, <1>5 DEF u
  <2> QED BY <1>1, <1>5, <2>5, <2>6, <2>7
<1> QED BY <1>4, <1>5

\* Two trails one after the other block if one of them does.
LEMMA BlocksJoined ==
    ASSUME NEW a \in Seq(Entries), NEW b \in Seq(Entries)
    PROVE  a \o b \in Seq(Entries) /\ (Blocks(a \o b) <=> Blocks(a) \/ Blocks(b))
<1>1. /\ a \o b \in Seq(Entries) /\ Len(a \o b) = Len(a) + Len(b)
      /\ Len(a) \in Nat /\ Len(b) \in Nat
      /\ DOMAIN a = 1 .. Len(a) /\ DOMAIN b = 1 .. Len(b)
      /\ DOMAIN (a \o b) = 1 .. Len(a) + Len(b)
      /\ \A i \in 1 .. Len(a) : (a \o b)[i] = a[i]
      /\ \A i \in 1 .. Len(b) : (a \o b)[Len(a) + i] = b[i]
  OBVIOUS
<1> DEFINE c == a \o b
<1> HIDE DEF c
<1>2. ASSUME NEW i \in DOMAIN a, a[i].decision = "deny" PROVE Blocks(c)
  <2>1. i \in DOMAIN c /\ c[i] = a[i]
    BY <1>1 DEF c
  <2> QED BY <1>2, <2>1 DEF Blocks
<1>3. ASSUME NEW i \in DOMAIN b, b[i].decision = "deny" PROVE Blocks(c)
  <2>1. Len(a) + i \in DOMAIN c /\ c[Len(a) + i] = b[i]
    BY <1>1 DEF c
  <2> QED BY <1>3, <2>1 DEF Blocks
<1>4. ASSUME NEW i \in DOMAIN c, c[i].decision = "deny" PROVE Blocks(a) \/ Blocks(b)
  <2>1. CASE i \in 1 .. Len(a)
    BY <1>1, <1>4, <2>1 DEF Blocks, c
  <2>2. CASE i \notin 1 .. Len(a)
    <3>1. i - Len(a) \in 1 .. Len(b) /\ i = Len(a) + (i - Len(a))
      BY <1>1, <2>2 DEF c
    <3>2. c[i] = b[i - Len(a)]
      BY <1>1, <3>1 DEF c
    <3> QED BY <1>1, <1>4, <3>1, <3>2 DEF Blocks
  <2> QED BY <2>1, <2>2
<1>5. Blocks(c) <=> Blocks(a) \/ Blocks(b)
  BY <1>2, <1>3, <1>4 DEF Blocks
<1> QED BY <1>1, <1>5 DEF c

\* A trail without a denial stays decided when a hook adds to it.
LEMMA DecidedJoined ==
    ASSUME NEW a, Decided(a), ~Blocks(a), NEW b, Decided(b)
    PROVE  Decided(a \o b) /\ (Blocks(a \o b) <=> Blocks(b))
<1>1. a \in Seq(Entries) /\ b \in Seq(Entries)
  BY DEF Decided
<1>2. a \o b \in Seq(Entries) /\ (Blocks(a \o b) <=> Blocks(b))
  BY <1>1, BlocksJoined
<1>3. /\ Len(a) \in Nat /\ Len(b) \in Nat /\ Len(a \o b) = Len(a) + Len(b)
      /\ DOMAIN a = 1 .. Len(a)
      /\ \A i \in 1 .. Len(a) : (a \o b)[i] = a[i]
      /\ \A i \in 1 .. Len(b) : (a \o b)[Len(a) + i] = b[i]
  BY <1>1
<1>4. ASSUME NEW i \in 1 .. Len(a) + Len(b) - 1 PROVE (a \o b)[i].decision # "deny"
  <2>1. CASE i \in 1 .. Len(a)
    BY <1>3, <2>1 DEF Blocks
  <2>2. CASE i \notin 1 .. Len(a)
    <3>1. i - Len(a) \in 1 .. Len(b) - 1 /\ i - Len(a) \in 1 .. Len(b)
          /\ i = Len(a) + (i - Len(a))
      BY <1>3, <2>2
    <3>2. (a \o b)[i] = b[i - Len(a)]
      BY <1>3, <3>1
    <3> QED BY <3>1, <3>2 DEF Decided
  <2> QED BY <2>1, <2>2
<1> QED BY <1>2, <1>3, <1>4 DEF Decided

\* A decided trail blocks if and only if its last entry is a denial.
LEMMA BlockedByLast ==
    ASSUME NEW e, Decided(e)
    PROVE  Blocks(e) <=> e # << >> /\ e[Len(e)].decision = "deny"
<1>1. /\ Len(e) \in Nat /\ DOMAIN e = 1 .. Len(e)
      /\ (e = << >> <=> Len(e) = 0)
  BY DEF Decided
<1>2. ASSUME NEW i \in DOMAIN e, e[i].decision = "deny" PROVE i = Len(e) /\ e # << >>
  BY <1>1, <1>2 DEF Decided
<1>3. e # << >> => Len(e) \in DOMAIN e
  BY <1>1
<1> QED BY <1>2, <1>3 DEF Blocks

\* A trail of one entry, or of none, by what the entry decides.
LEMMA ShortTrails ==
    /\ << >> \in Seq(Entries) /\ ~Blocks(<< >>) /\ Decided(<< >>)
    /\ \A x \in Entries : /\ <<x>> \in Seq(Entries) /\ Decided(<<x>>)
                          /\ Blocks(<<x>>) <=> x.decision = "deny"
<1>1. << >> \in Seq(Entries) /\ ~Blocks(<< >>) /\ Decided(<< >>)
  BY DEF Blocks, Decided
<1>2. ASSUME NEW x \in Entries
      PROVE  /\ <<x>> \in Seq(Entries) /\ Decided(<<x>>)
             /\ Blocks(<<x>>) <=> x.decision = "deny"
  <2>1. <<x>> \in Seq(Entries) /\ Len(<<x>>) = 1 /\ DOMAIN <<x>> = {1} /\ <<x>>[1] = x
    OBVIOUS
  <2> QED BY <2>1 DEF Blocks, Decided
<1> QED BY <1>1, <1>2

\* before_model logs a decided trail, and passes no text that it is there to block.
LEMMA BeforeModelDecides ==
    ASSUME NEW text, NEW credentialMode
    PROVE  /\ Decided(BeforeModel(text, credentialMode))
           /\ ~Blocks(BeforeModel(text, credentialMode)) =>
                  \/ text.size = 0
                  \/ /\ "attack" \notin text.marks
                     /\ credentialMode = "deny" => "secret" \notin text.marks
                     /\ ~(text.size > WindowTotal)
<1> DEFINE injection == InjectionCheck(text)
           credential == CredentialCheck(text, credentialMode)
           budget == BudgetCheck(text)
           checks == injection \o credential \o budget
<1>1. injection \in Seq(Entries) /\ ("attack" \in text.marks => Blocks(injection))
  <2> DEFINE d == CASE "attack" \in text.marks -> "deny"
                    [] "suspect" \in text.marks /\ "attack" \notin text.marks -> "audit"
                    [] OTHER -> "allow"
  <2>1. d \in {"allow", "audit", "deny"} /\ ("attack" \in text.marks => d = "deny")
    OBVIOUS
  <2>2. injection = <<Entry("prompt_injection_check", d)>>
    BY DEF InjectionCheck
  <2> HIDE DEF d, injection
  <2>3. /\ Entry("prompt_injection_check", d) \in Entries
        /\ Entry("prompt_injection_check", d).decision = d
    BY <2>1 DEF Entry, Entries
  <2> QED BY <2>1, <2>2, <2>3, ShortTrails
<1>2. /\ credential \in Seq(Entries)
      /\ "secret" \in text.marks /\ credentialMode = "deny" => Blocks(credential)
  <2> DEFINE d == IF credentialMode = "deny" THEN "deny" ELSE "audit"
             x == Entry("credential_check", d)
  <2>1. x \in Entries /\ x.decision = d
    BY DEF Entry, Entries
  <2>2. credential = IF "secret" \notin text.marks THEN << >> ELSE <<x>>
    BY DEF CredentialCheck
  <2> HIDE DEF x, credential
  <2> QED BY <2>1, <2>2, ShortTrails
<1>3. /\ budget \in Seq(Entries)
      /\ text.size > WindowTotal => Blocks(budget)
  <2> DEFINE d == IF text.size > WindowTotal THEN "deny" ELSE "allow"
             x == Entry("context_budget_check", d)
  <2>1. x \in Entries /\ x.decision = d
    BY DEF Entry, Entries
  <2>2. budget = <<x>>
    BY DEF BudgetCheck
  <2> HIDE DEF x, budget
  <2> QED BY <2>1, <2>2, ShortTrails
<1>4. BeforeModel(text, credentialMode) = IF text.size = 0 THEN << >> ELSE UpToDenial(checks)
  BY DEF BeforeModel
<1> HIDE DEF injection, credential, budget
<1>5. /\ checks \in Seq(Entries)
      /\ Blocks(checks) <=> Blocks(injection) \/ Blocks(credential) \/ Blocks(budget)
  <2>1. /\ injection \o credential \in Seq(Entries)
        /\ Blocks(injection \o credential) <=> Blocks(injection) \/ Blocks(credential)
    BY <1>1, <1>2, BlocksJoined
  <2> QED BY <1>3, <2>1, BlocksJoined
<1> HIDE DEF checks
<1>6. Decided(UpToDenial(checks)) /\ (Blocks(UpToDenial(checks)) <=> Blocks(checks))
  BY <1>5, DenialIsLast
<1> QED BY <1>1, <1>2, <1>3, <1>4, <1>5, <1>6, ShortTrails

\* before_tool logs a decided trail, and passes no call of a tool that is cut off.
LEMMA BeforeToolDecides ==
    ASSUME NEW call, NEW b
    PROVE  /\ Decided(BeforeTool(call, b))
           /\ ~Blocks(BeforeTool(call, b)) => AllowCall(b)
<1> DEFINE denial(event, denied) == IF denied THEN <<Entry(event, "deny")>> ELSE << >>
           listed == denial("capability_check", ~ToolAllowed(call.tool))
           pattern == denial("policy_check", call.args = "pattern")
           circuit == denial("policy_check", ~AllowCall(b))
           sweep == denial("policy_check", call.args = "refused")
           permit == IF call.args = "malformed" THEN << >> ELSE <<Entry("capability_check", "allow")>>
           checks == listed \o pattern \o circuit \o sweep \o permit
<1>1. BeforeTool(call, b) = UpToDenial(checks)
  BY DEF BeforeTool
<1>2. /\ Entry("capability_check", "deny") \in Entries
      /\ Entry("policy_check", "deny") \in Entries
      /\ Entry("capability_check", "allow") \in Entries
      /\ Entry("policy_check", "deny").decision = "deny"
  BY DEF Entry, Entries
<1>3. /\ listed \in Seq(Entries) /\ pattern \in Seq(Entries) /\ circuit \in Seq(Entries)
      /\ sweep \in Seq(Entries) /\ permit \in Seq(Entries)
      /\ ~AllowCall(b) => Blocks(circuit)
  BY <1>2, ShortTrails
<1> HIDE DEF listed, pattern, circuit, sweep, permit
<1>4. listed \o pattern \in Seq(Entries)
  BY <1>3, BlocksJoined
<1>5. listed \o pattern \o circuit \in Seq(Entries)
      /\ (Blocks(circuit) => Blocks(listed \o pattern \o circuit))
  BY <1>3, <1>4, BlocksJoined
<1>6. listed \o pattern \o circuit \o sweep \in Seq(Entries)
      /\ (Blocks(circuit) => Blocks(listed \o pattern \o circuit \o sweep))
  BY <1>3, <1>5, BlocksJoined
<1>7. checks \in Seq(Entries) /\ (Blocks(circuit) => Blocks(checks))
  BY <1>3, <1>6, BlocksJoined
<1> HIDE DEF checks
<1> QED BY <1>1, <1>3, <1>7, DenialIsLast

\* after_tool logs a decided trail, and passes no unsafe result.
LEMMA AfterToolDecides ==
    ASSUME NEW r
    PROVE  Decided(AfterTool(r)) /\ (Blocks(AfterTool(r)) <=> "unsafe" \in r.marks)
<1>1. /\ Entry("tool_output_check", "deny") \in Entries
      /\ Entry("tool_output_check", "deny").decision = "deny"
  BY DEF Entry, Entries
<1> QED BY <1>1, ShortTrails DEF AfterTool, ResultSafe

\* after_model logs no denial.
LEMMA AfterModelPasses ==
    ASSUME NEW text, NEW trace \in Capture(text)
    PROVE  Decided(AfterModel(text, trace)) /\ ~Blocks(AfterModel(text, trace))
<1> DEFINE x == Entry("output_check", "audit")
           y == Entry("reasoning_trace", "allow")
<1>1. /\ x \in Entries /\ x.decision # "deny" /\ y \in Entries /\ y.decision # "deny"
  BY DEF Entry, Entries
<1>2. trace \in {<< >>, <<y>>}
  BY DEF Capture
<1> DEFINE masked == IF "pii" \in text.marks THEN <<x>> ELSE << >>
<1>3. AfterModel(text, trace) = trace \o masked
  BY DEF AfterModel
<1>4. masked \in {<< >>, <<x>>}
  OBVIOUS
<1> HIDE DEF x, y, masked
<1>5. Decided(trace) /\ ~Blocks(trace) /\ Decided(masked) /\ ~Blocks(masked)
  BY <1>1, <1>2, <1>4, ShortTrails
<1> QED BY <1>3, <1>5, DecidedJoined

\* What the breaker library and the recovery make of a breaker is a breaker; a failure
\* leaves it closed below the threshold only.
LEMMA BreakerSteps ==
    ASSUME NEW b \in Breakers
    PROVE  /\ RecordSuccess(b) = [state |-> "closed", failures |-> 0]
           /\ RecordSuccess(b) \in Breakers
           /\ RecordFailure(b) \in Breakers
           /\ [b EXCEPT !.state = "half_open"] \in Breakers
           /\ \/ RecordFailure(b).state = "open"
              \/ /\ b.state = "closed" /\ RecordFailure(b).state = "closed"
                 /\ b.failures + 1 < FailureThreshold
                 /\ RecordFailure(b).failures = b.failures + 1
<1>1. FailureThreshold \in Nat \ {0}
  BY PostureAssumption
<1>2. /\ b.state \in {"closed", "open", "half_open"} /\ b.failures \in Nat
      /\ b.failures <= FailureThreshold /\ b = [state |-> b.state, failures |-> b.failures]
  BY <1>1 DEF Breakers
<1>3. CASE b.state # "closed" \/ b.failures + 1 >= FailureThreshold
  <2>1. RecordFailure(b) = [state |-> "open", failures |-> FailureThreshold]
    BY <1>3 DEF RecordFailure
  <2> QED BY <1>1, <1>2, <2>1 DEF RecordSuccess, ClosedBreaker, Breakers
<1>4. CASE ~(b.state # "closed" \/ b.failures + 1 >= FailureThreshold)
  <2>1. RecordFailure(b) = [state |-> "closed", failures |-> b.failures + 1]
    BY <1>2, <1>4 DEF RecordFailure
  <2>2. b.failures + 1 \in 0 .. FailureThreshold /\ b.failures + 1 < FailureThreshold
    BY <1>1, <1>2, <1>4
  <2> QED BY <1>1, <1>2, <1>4, <2>1, <2>2 DEF RecordSuccess, ClosedBreaker, Breakers
<1> QED BY <1>3, <1>4

\* A masked text is a text, with fewer marks.
LEMMA MaskedTexts ==
    ASSUME NEW text \in Texts
    PROVE  /\ Redact(text) \in Texts /\ Redact(text).marks = text.marks \ {"secret"}
           /\ Redact(text).size = text.size
           /\ MaskPii(text) \in Texts /\ MaskPii(text).marks = text.marks \ {"pii"}
<1>1. text = [marks |-> text.marks, size |-> text.size]
      /\ text.marks \in SUBSET Marks /\ text.size \in Nat
      /\ (text.size = 0 => text.marks = {})
  BY DEF Texts
<1>2. /\ Redact(text) = [marks |-> text.marks \ {"secret"}, size |-> text.size]
      /\ MaskPii(text) = [marks |-> text.marks \ {"pii"}, size |-> text.size]
  BY <1>1 DEF Redact, MaskPii
<1> QED BY <1>1, <1>2 DEF Texts

-------------------------------------------------------------------------------
(***************************************************************************)
(* Types, and how far a run has come                                       *)
(***************************************************************************)

Utterances == [role : {"user", "ai", "tool"}, text : Texts, editable : BOOLEAN]
Conversations == Seq(Utterances)

\* A conversation is a sequence of messages, each with a role and a text.
LEMMA ConversationMessages ==
    ASSUME NEW conv \in Conversations
    PROVE  /\ Len(conv) \in Nat /\ DOMAIN conv = 1 .. Len(conv)
           /\ \A i \in DOMAIN conv : conv[i] \in Utterances /\ conv[i].text \in Texts
<1>1. Len(conv) \in Nat /\ DOMAIN conv = 1 .. Len(conv) /\ \A i \in DOMAIN conv : conv[i] \in Utterances
  BY DEF Conversations
<1>2. \A m \in Utterances : m.text \in Texts
  BY DEF Utterances
<1> QED BY <1>1, <1>2

\* While a run goes on nothing has decided how it ends, and the model is asked within
\* the limit.
Underway ==
    /\ pc \notin {"idle", "unwinding"} => outcome = "none"
    /\ pc = "model" => iter < MaxIters

\* The texts of a conversation are the texts of its messages.
LEMMA ConversationTexts ==
    ASSUME NEW conv \in Conversations
    PROVE  /\ EmptyText \in Texts
           /\ [i \in DOMAIN conv |-> conv[i].text] \in Seq(Texts)
           /\ Len([i \in DOMAIN conv |-> conv[i].text]) = Len(conv)
           /\ Inbound(conv) \in Seq(Texts) /\ Len(Inbound(conv)) = Len(conv)
           /\ DOMAIN conv = 1 .. Len(conv) /\ DOMAIN Inbound(conv) = DOMAIN conv
<1>1. EmptyText \in Texts
  BY DEF EmptyText, Texts
<1>2. /\ Len(conv) \in Nat /\ DOMAIN conv = 1 .. Len(conv)
      /\ \A i \in DOMAIN conv : conv[i].text \in Texts
  BY ConversationMessages
<1> QED BY <1>1, <1>2 DEF Inbound

\* LangGraph redacts the conversation in place, the others leave it as it is.
LEMMA RedactedConversation ==
    ASSUME messages \in Conversations
    PROVE  /\ RedactedMessages \in Conversations /\ Len(RedactedMessages) = Len(messages)
           /\ \A i \in DOMAIN messages :
                 /\ RedactedMessages[i].role = messages[i].role
                 /\ RedactedMessages[i].editable = messages[i].editable
                 /\ RedactedMessages[i].text.size = messages[i].text.size
                 /\ RedactedMessages[i].text.marks \subseteq messages[i].text.marks
           /\ framework # "langgraph" => RedactedMessages = messages
           /\ framework = "langgraph" /\ ShouldRedact(Join(GuardedTexts), cred_mode) =>
                 \A i \in DOMAIN messages :
                    RedactedMessages[i].editable => "secret" \notin RedactedMessages[i].text.marks
<1> DEFINE redacted == [i \in DOMAIN messages |->
                          IF messages[i].editable THEN [messages[i] EXCEPT !.text = Redact(@)]
                          ELSE messages[i]]
<1>1. /\ Len(messages) \in Nat /\ DOMAIN messages = 1 .. Len(messages)
      /\ \A i \in DOMAIN messages : messages[i] \in Utterances /\ messages[i].text \in Texts
  BY ConversationMessages
<1>2. ASSUME NEW i \in DOMAIN messages
      PROVE  /\ redacted[i] \in Utterances
             /\ redacted[i].role = messages[i].role
             /\ redacted[i].editable = messages[i].editable
             /\ redacted[i].text = IF messages[i].editable THEN Redact(messages[i].text)
                                   ELSE messages[i].text
  <2>1. messages[i] \in Utterances /\ Redact(messages[i].text) \in Texts
    BY <1>1, MaskedTexts
  <2> QED BY <2>1 DEF Utterances
<1>3. redacted \in Conversations /\ Len(redacted) = Len(messages)
  <2>1. redacted = [i \in 1 .. Len(messages) |-> redacted[i]]
    BY <1>1
  <2> HIDE DEF redacted
  <2>2. redacted \in [1 .. Len(messages) -> Utterances]
    BY <1>1, <1>2, <2>1
  <2> QED BY <1>1, <2>2 DEF Conversations
<1>4. ASSUME NEW i \in DOMAIN messages
      PROVE  /\ redacted[i].text.size = messages[i].text.size
             /\ redacted[i].text.marks \subseteq messages[i].text.marks
             /\ redacted[i].editable => "secret" \notin redacted[i].text.marks
  BY <1>1, <1>2, MaskedTexts
<1> HIDE DEF redacted
<1>5. CASE framework = "langgraph" /\ ShouldRedact(Join(GuardedTexts), cred_mode)
  <2>1. RedactedMessages = redacted
    BY <1>5 DEF RedactedMessages, redacted
  <2> QED BY <1>2, <1>3, <1>4, <1>5, <2>1
<1>6. CASE ~(framework = "langgraph" /\ ShouldRedact(Join(GuardedTexts), cred_mode))
  <2>1. RedactedMessages = messages
    BY <1>6 DEF RedactedMessages
  <2> QED BY <1>6, <2>1
<1> QED BY <1>5, <1>6

\* What the caller is handed is a sequence of texts.
LEMMA DeliveredTexts ==
    ASSUME NEW conv \in Conversations
    PROVE  /\ Delivered(conv) \in Seq(Texts)
           /\ \A i \in DOMAIN Delivered(conv) :
                 /\ i + 1 \in DOMAIN conv
                 /\ framework = "raw" /\ conv[i + 1].role = "ai" =>
                       "pii" \notin Delivered(conv)[i].marks
<1>1. /\ Len(conv) \in Nat /\ DOMAIN conv = 1 .. Len(conv)
      /\ \A i \in DOMAIN conv : conv[i].text \in Texts
  BY ConversationMessages
<1> DEFINE turn(i) == IF framework = "raw" /\ conv[i + 1].role = "ai"
                      THEN MaskPii(conv[i + 1].text) ELSE conv[i + 1].text
<1>2. Delivered(conv) = [i \in 1 .. Len(conv) - 1 |-> turn(i)]
  BY DEF Delivered
<1>3. ASSUME NEW i \in 1 .. Len(conv) - 1
      PROVE  /\ i + 1 \in DOMAIN conv /\ turn(i) \in Texts
             /\ framework = "raw" /\ conv[i + 1].role = "ai" => "pii" \notin turn(i).marks
  <2>1. i + 1 \in DOMAIN conv
    BY <1>1
  <2>2. conv[i + 1].text \in Texts
    BY <1>1, <2>1
  <2> QED BY <2>1, <2>2, MaskedTexts
<1> HIDE DEF turn
<1>4. Delivered(conv) \in Seq(Texts)
  <2>1. CASE Len(conv) = 0
    <3>1. Delivered(conv) = << >>
      BY <1>2, <2>1
    <3> QED BY <3>1
  <2>2. CASE Len(conv) # 0
    <3>1. Len(conv) - 1 \in Nat
      BY <1>1, <2>2
    <3> QED BY <1>2, <1>3, <3>1
  <2> QED BY <2>1, <2>2
<1> QED BY <1>2, <1>3, <1>4

\* A call of the reply has a number, and is of a tool of the agent.
LEMMA CallsOfTools ==
    ASSUME TypeOK, NEW i \in Calls
    PROVE  /\ i \in Nat /\ 1 <= i
           /\ reply.calls[i].tool \in Tools /\ breaker[reply.calls[i].tool] \in Breakers
<1>1. reply.calls \in Seq(ToolCalls(Tools))
  <2>1. reply.calls \in CallLists \cup {<< >>}
    BY DEF TypeOK
  <2>2. << >> \in Seq(ToolCalls(Tools))
    OBVIOUS
  <2> QED BY <2>1, <2>2, LoopAssumption
<1>2. reply.calls[i] \in ToolCalls(Tools) /\ i \in Nat /\ 1 <= i
  BY <1>1 DEF Calls
<1> QED BY <1>2 DEF ToolCalls, TypeOK

\* A run begins, and each of its steps leads to, a state of the right type, within the
\* limit of model calls.
LEMMA TypedStep ==
    ASSUME TypeOK, Underway, [Next]_vars
    PROVE  TypeOK' /\ Underway'
<1> USE DEF TypeOK, Underway, deployment, conversation, toolVars, Conversations
<1>0. /\ Prompts \subseteq Texts /\ Replies \subseteq Texts /\ Results \subseteq Texts
      /\ CallLists \subseteq Seq(ToolCalls(Tools)) /\ EmptyText \in Texts
      /\ MaxIters \in Nat \ {0} /\ MaxRuns \in [Frameworks -> Nat]
  BY LoopAssumption DEF EmptyText, Texts
<1>1. CASE Invoke
  BY <1>0, <1>1 DEF Invoke, Message, NoReply, Calls
<1>2. CASE InputBlocked
  BY <1>2, BeforeModelDecides DEF InputBlocked, Decided, Calls
<1>3. CASE InputAllowed
  BY <1>3, BeforeModelDecides, RedactedConversation DEF InputAllowed, Decided, Calls, Utterances
<1>4. CASE ModelReplies
  BY <1>0, <1>4 DEF ModelReplies, Calls
<1>5. CASE ModelRaises
  BY <1>5 DEF ModelRaises, Calls
<1>6. CASE OutputGuarded
  <2>1. audit' \in Seq(Entries)
    <3>1. PICK trace \in Capture(reply.text) : audit' = audit \o AfterModel(reply.text, trace)
      BY <1>6 DEF OutputGuarded
    <3>2. AfterModel(reply.text, trace) \in Seq(Entries)
      BY AfterModelPasses DEF Decided
    <3> QED BY <3>1, <3>2
  <2>2. messages' \in Conversations
    <3>1. reply.text \in Texts
      BY <1>0
    <3>2. PICK form \in Forms(reply.text) :
              messages' = messages \/ messages' = Append(messages, Message("ai", reply.text, form))
      BY <1>6 DEF OutputGuarded
    <3>3. Message("ai", reply.text, form) \in Utterances
      BY <3>1 DEF Message, Utterances, Forms
    <3>4. messages \in Seq(Utterances)
      BY DEF Utterances
    <3>5. CASE messages' = messages
      BY <3>4, <3>5
    <3>6. CASE messages' = Append(messages, Message("ai", reply.text, form))
      BY <3>3, <3>4, <3>6
    <3> QED BY <3>2, <3>5, <3>6
  <2>3. turns' \in Seq(Texts)
    <3>1. Delivered(messages') \in Seq(Texts)
      BY <2>2, DeliveredTexts
    <3> QED BY <1>6, <3>1 DEF OutputGuarded
  <2>4. UNCHANGED <<framework, cred_mode, request, reply, iter, stage, result, breaker, streak, runs>>
    BY <1>6 DEF OutputGuarded
  <2>5. /\ pc' \in {"idle", "tools"} /\ outcome' \in {"none", "ok", "blocked", "failed"}
        /\ pc' = "tools" => outcome' = "none"
    BY <1>6 DEF OutputGuarded
  <2> QED BY <2>1, <2>2, <2>3, <2>4, <2>5 DEF Calls, Utterances
<1>7. CASE CallsGuarded
  BY <1>7 DEF CallsGuarded, Calls
<1>8. CASE NextIteration
  BY <1>8 DEF NextIteration, Calls
<1>9. CASE IterationsExhausted
  <2>1. turns' \in Seq(Texts)
    <3>1. messages \in Conversations
      BY DEF Utterances
    <3>2. Delivered(messages) \in Seq(Texts)
      BY <3>1, DeliveredTexts
    <3> QED BY <1>9, <3>2 DEF IterationsExhausted
  <2> QED BY <1>9, <2>1 DEF IterationsExhausted, Calls
<1>10. CASE Unwound
  BY <1>10 DEF Unwound, Calls
<1>11. ASSUME NEW i \in Calls, CallApproved(i) PROVE TypeOK' /\ Underway'
  BY <1>11, BeforeToolDecides DEF CallApproved, Calls, Decided
<1>12. ASSUME NEW i \in Calls, CallRefused(i) PROVE TypeOK' /\ Underway'
  BY <1>12, BeforeToolDecides DEF CallRefused, Calls, Decided, Raise
<1>19. ASSUME NEW i \in Calls, CallBreaks(i) PROVE TypeOK' /\ Underway'
  BY <1>19 DEF CallBreaks, Calls, Raise
<1>13. ASSUME NEW i \in Calls, ToolReturns(i) PROVE TypeOK' /\ Underway'
  BY <1>13 DEF ToolReturns, Calls
<1>14. ASSUME NEW i \in Calls, ToolRaises(i) PROVE TypeOK' /\ Underway'
  <2>1. reply.calls[i].tool \in Tools /\ breaker[reply.calls[i].tool] \in Breakers
    BY CallsOfTools
  <2>2. RecordFailure(breaker[reply.calls[i].tool]) \in Breakers
    BY <2>1, BreakerSteps
  <2>3. breaker' \in [Tools -> Breakers] /\ streak' \in [Tools -> Nat]
    BY <1>14, <2>1, <2>2 DEF ToolRaises
  <2>4. stage' \in [Calls -> {"pending", "approved", "executed", "done", "stopped"}]
    BY <1>14 DEF ToolRaises
  <2>5. UNCHANGED <<framework, cred_mode, messages, request, reply, iter, turns, result, audit, runs>>
    BY <1>14 DEF ToolRaises
  <2>6. outcome' \in {"none", "ok", "blocked", "failed"} /\ pc' = "unwinding"
    BY <1>14 DEF ToolRaises, Raise
  <2> QED BY <2>3, <2>4, <2>5, <2>6 DEF Calls
<1>15. ASSUME NEW i \in Calls, ResultAccepted(i) PROVE TypeOK' /\ Underway'
  <2>1. reply.calls[i].tool \in Tools /\ breaker[reply.calls[i].tool] \in Breakers
    BY CallsOfTools
  <2>2. RecordSuccess(breaker[reply.calls[i].tool]) \in Breakers
    BY <2>1, BreakerSteps
  <2>3. breaker' \in [Tools -> Breakers]
    BY <1>15, <2>1, <2>2 DEF ResultAccepted
  <2>4. messages' \in Conversations
    <3>1. result[i] \in Texts
      BY <1>0
    <3>2. PICK form \in Forms(result[i]) : messages' = Append(messages, Message("tool", result[i], form))
      BY <1>15 DEF ResultAccepted
    <3>3. Message("tool", result[i], form) \in Utterances
      BY <3>1 DEF Message, Utterances, Forms
    <3>4. messages \in Seq(Utterances)
      BY DEF Utterances
    <3> QED BY <3>2, <3>3, <3>4
  <2>5. stage' \in [Calls -> {"pending", "approved", "executed", "done", "stopped"}]
    BY <1>15 DEF ResultAccepted
  <2>6. UNCHANGED <<framework, cred_mode, pc, request, reply, iter, turns, result, audit, outcome,
                    runs, streak>>
    BY <1>15 DEF ResultAccepted
  <2> QED BY <2>3, <2>4, <2>5, <2>6 DEF Calls, Utterances
<1>16. ASSUME NEW i \in Calls, ResultRefused(i) PROVE TypeOK' /\ Underway'
  <2>1. reply.calls[i].tool \in Tools /\ breaker[reply.calls[i].tool] \in Breakers
    BY CallsOfTools
  <2>2. RecordSuccess(breaker[reply.calls[i].tool]) \in Breakers
    BY <2>1, BreakerSteps
  <2>3. breaker' \in [Tools -> Breakers]
    BY <1>16, <2>1, <2>2 DEF ResultRefused
  <2>4. audit' \in Seq(Entries)
    BY <1>16, AfterToolDecides DEF ResultRefused, Decided
  <2>5. stage' \in [Calls -> {"pending", "approved", "executed", "done", "stopped"}]
    BY <1>16 DEF ResultRefused
  <2>6. UNCHANGED <<framework, cred_mode, messages, request, reply, iter, turns, result, runs, streak>>
    BY <1>16 DEF ResultRefused
  <2>7. outcome' \in {"none", "ok", "blocked", "failed"} /\ pc' = "unwinding"
    BY <1>16 DEF ResultRefused, Raise
  <2> QED BY <2>3, <2>4, <2>5, <2>6, <2>7 DEF Calls
<1>17. ASSUME NEW t \in Tools, RecoveryElapses(t) PROVE TypeOK' /\ Underway'
  BY <1>17, BreakerSteps DEF RecoveryElapses, Calls
<1>18. CASE UNCHANGED vars
  BY <1>18 DEF vars, Calls
<1> QED
  BY <1>1, <1>2, <1>3, <1>4, <1>5, <1>6, <1>7, <1>8, <1>9, <1>10, <1>11, <1>12, <1>13, <1>14,
     <1>15, <1>16, <1>17, <1>18, <1>19 DEF Next, RunStep, CallStep

-------------------------------------------------------------------------------
(***************************************************************************)
(* The raw loop: one call at a time                                        *)
(***************************************************************************)

Active(i) == stage[i] \in {"approved", "executed"}
ToolOf(i) == reply.calls[i].tool

\* The calls of a reply are taken one after the other, while the loop is at the tools.  A
\* call is guarded by a breaker that lets it through, and a breaker has counted every
\* failure since its tool last succeeded or recovered.
RawInv ==
    framework = "raw" =>
        /\ \A i, j \in Calls : i < j /\ stage[j] # "pending" => stage[i] = "done"
        /\ \A i \in Calls : Active(i) => pc = "tools"
        /\ \A i \in Calls : stage[i] = "approved" => breaker[ToolOf(i)].state # "open"
        /\ \A i \in Calls : stage[i] = "executed" => streak[ToolOf(i)] = 0
        /\ \A t \in Tools :
              /\ streak[t] <= FailureThreshold
              /\ breaker[t].state = "closed" =>
                    streak[t] <= breaker[t].failures /\ breaker[t].failures < FailureThreshold
              /\ breaker[t].state = "half_open" => streak[t] = 0

\* No two calls of a reply are under way in the raw loop.
LEMMA OneCallAtATime ==
    ASSUME TypeOK, RawInv, framework = "raw", NEW i \in Calls, Active(i)
    PROVE  \A j \in Calls : j # i => ~Active(j)
<1>1. \A j \in Calls : j \in Nat
  BY CallsOfTools
<1>2. \A j \in Calls : j # i => i < j \/ j < i
  BY <1>1
<1> QED BY <1>2 DEF RawInv, Active

\* The adapter a bundle was built for does not change.
LEMMA SameFramework == [Next]_vars => framework' = framework /\ cred_mode' = cred_mode
BY DEF Next, RunStep, CallStep, vars, deployment, Invoke, InputBlocked, InputAllowed,
   ModelReplies, ModelRaises, OutputGuarded, CallsGuarded, NextIteration, IterationsExhausted,
   Unwound, CallApproved, CallRefused, CallBreaks, ToolReturns, ToolRaises, ResultAccepted, ResultRefused,
   RecoveryElapses

\* Each step keeps the order of the raw loop and the counts of its breakers.
LEMMA RawStep ==
    ASSUME TypeOK, Underway, RawInv, [Next]_vars
    PROVE  RawInv'
<1> SUFFICES ASSUME framework = "raw", framework' = "raw"
             PROVE  RawInv'
  BY SameFramework DEF RawInv
<1> USE DEF Calls, Active, ToolOf
<1>0. FailureThreshold \in Nat \ {0}
  BY PostureAssumption
<1>1. ASSUME UNCHANGED <<reply, stage, breaker, streak>>,
             pc' = pc \/ \A i \in Calls : ~Active(i)
      PROVE  RawInv'
  BY <1>1 DEF RawInv
<1>2. CASE \/ InputBlocked \/ InputAllowed \/ ModelRaises \/ OutputGuarded \/ CallsGuarded
           \/ NextIteration \/ IterationsExhausted \/ Unwound \/ UNCHANGED vars
  <2>1. UNCHANGED <<reply, stage, breaker, streak>>
    BY <1>2 DEF InputBlocked, InputAllowed, ModelRaises, OutputGuarded, CallsGuarded,
       NextIteration, IterationsExhausted, Unwound, vars, conversation, toolVars
  <2>2. pc' = pc \/ pc # "tools" \/ \A i \in Calls : stage[i] = "done"
    BY <1>2 DEF InputBlocked, InputAllowed, ModelRaises, OutputGuarded, CallsGuarded,
       NextIteration, IterationsExhausted, Unwound, vars
  <2>3. pc' = pc \/ \A i \in Calls : ~Active(i)
    BY <2>2 DEF RawInv
  <2> QED BY <1>1, <2>1, <2>3
<1>3. ASSUME UNCHANGED <<breaker, streak>>, \A i \in DOMAIN reply'.calls : stage'[i] = "pending"
      PROVE  RawInv'
  BY <1>3 DEF RawInv
<1>4. CASE Invoke \/ ModelReplies
  <2>1. UNCHANGED <<breaker, streak>>
    BY <1>4 DEF Invoke, ModelReplies
  <2>2. \A i \in DOMAIN reply'.calls : stage'[i] = "pending"
    <3>1. CASE Invoke
      <4>1. reply' = NoReply /\ NoReply.calls = << >>
        BY <3>1 DEF Invoke, NoReply
      <4> QED BY <4>1
    <3>2. CASE ModelReplies
      BY <3>2 DEF ModelReplies
    <3> QED BY <1>4, <3>1, <3>2
  <2> QED BY <1>3, <2>1, <2>2
<1>5. ASSUME NEW i \in Calls, CallApproved(i) PROVE RawInv'
  <2>1. /\ stage[i] = "pending" /\ pc = "tools" /\ pc' = pc
        /\ \A j \in 1 .. i - 1 : stage[j] = "done"
        /\ stage' = [stage EXCEPT ![i] = "approved"]
        /\ UNCHANGED <<reply, breaker, streak>>
    BY <1>5 DEF CallApproved, MayGuard, conversation
  <2>2. breaker[ToolOf(i)].state # "open"
    BY <1>5, BeforeToolDecides DEF CallApproved, AllowCall
  <2>3. \A j \in Calls : j \in Nat /\ 1 <= j
    BY CallsOfTools
  <2>4. \A j \in Calls : j < i => stage[j] = "done"
    BY <2>1, <2>3
  <2>5. stage \in [Calls -> {"pending", "approved", "executed", "done", "stopped"}]
    BY DEF TypeOK
  <2>6. \A j, k \in Calls : j < k /\ stage'[k] # "pending" => stage'[j] = "done"
    BY <2>1, <2>3, <2>4, <2>5 DEF RawInv
  <2> QED BY <2>1, <2>2, <2>5, <2>6 DEF RawInv
<1>6. ASSUME NEW i \in Calls, CallRefused(i) \/ CallBreaks(i) PROVE RawInv'
  <2>1. /\ stage[i] = "pending" /\ pc = "tools"
        /\ \A j \in 1 .. i - 1 : stage[j] = "done"
        /\ stage' = [stage EXCEPT ![i] = "stopped"]
        /\ UNCHANGED <<reply, breaker, streak>>
    BY <1>6 DEF CallRefused, CallBreaks, MayGuard, conversation
  <2>2. \A j \in Calls : j \in Nat /\ 1 <= j
    BY CallsOfTools
  <2>3. \A j \in Calls : j < i => stage[j] = "done"
    BY <2>1, <2>2
  <2>4. \A j \in Calls : i < j => stage[j] = "pending"
    BY <2>1 DEF RawInv
  <2>5. stage \in [Calls -> {"pending", "approved", "executed", "done", "stopped"}]
    BY DEF TypeOK
  <2>6. \A j, k \in Calls : j < k /\ stage'[k] # "pending" => stage'[j] = "done"
    BY <2>1, <2>2, <2>3, <2>5 DEF RawInv
  <2>7. \A j \in Calls : stage'[j] \notin {"approved", "executed"}
    BY <2>1, <2>2, <2>3, <2>4, <2>5
  <2> QED BY <2>1, <2>6, <2>7 DEF RawInv
<1>7. ASSUME NEW i \in Calls, Active(i), NEW x \in {"executed", "done", "stopped"},
             stage' = [stage EXCEPT ![i] = x], UNCHANGED reply,
             x = "executed" => streak'[ToolOf(i)] = 0 /\ pc' = "tools",
             \A t \in Tools :
                 /\ streak'[t] <= FailureThreshold
                 /\ breaker'[t].state = "closed" =>
                       streak'[t] <= breaker'[t].failures /\ breaker'[t].failures < FailureThreshold
                 /\ breaker'[t].state = "half_open" => streak'[t] = 0
      PROVE  RawInv'
  <2>1. stage \in [Calls -> {"pending", "approved", "executed", "done", "stopped"}]
    BY DEF TypeOK
  <2>2. \A j \in Calls : i < j => stage[j] = "pending"
    BY <1>7 DEF RawInv
  <2>3. \A j, k \in Calls : j < k /\ stage'[k] # "pending" => stage'[j] = "done"
    BY <1>7, <2>1, <2>2 DEF RawInv
  <2>4. \A j \in Calls : j # i => ~Active(j) /\ stage'[j] = stage[j]
    BY <1>7, <2>1, OneCallAtATime
  <2>5. stage'[i] = x
    BY <1>7, <2>1
  <2> QED BY <1>7, <2>3, <2>4, <2>5 DEF RawInv
<1>8. ASSUME NEW i \in Calls, ToolReturns(i) PROVE RawInv'
  <2>1. /\ stage[i] = "approved" /\ stage' = [stage EXCEPT ![i] = "executed"]
        /\ streak' = [streak EXCEPT ![ToolOf(i)] = 0] /\ pc = "tools" /\ pc' = pc
        /\ UNCHANGED <<reply, breaker>>
    BY <1>8 DEF ToolReturns, MayExecute, conversation
  <2>2. ToolOf(i) \in Tools
    BY CallsOfTools
  <2>3. \A t \in Tools : breaker[t].failures \in Nat /\ streak[t] \in Nat
    BY <1>0 DEF TypeOK, Breakers
  <2>4. streak'[ToolOf(i)] = 0 /\ \A t \in Tools : t # ToolOf(i) => streak'[t] = streak[t]
    BY <2>1, <2>2 DEF TypeOK
  <2>5. ASSUME NEW t \in Tools
        PROVE  /\ streak'[t] <= FailureThreshold
               /\ breaker'[t].state = "closed" =>
                     streak'[t] <= breaker'[t].failures /\ breaker'[t].failures < FailureThreshold
               /\ breaker'[t].state = "half_open" => streak'[t] = 0
    BY <1>0, <2>1, <2>3, <2>4 DEF RawInv
  <2> QED BY <1>7, <2>1, <2>4, <2>5
<1>9. ASSUME NEW i \in Calls, ToolRaises(i) PROVE RawInv'
  <2>1. /\ stage[i] = "approved" /\ stage' = [stage EXCEPT ![i] = "stopped"]
        /\ streak' = [streak EXCEPT ![ToolOf(i)] = @ + 1]
        /\ breaker' = [breaker EXCEPT ![ToolOf(i)] = RecordFailure(@)]
        /\ UNCHANGED reply
    BY <1>9 DEF ToolRaises, MayExecute, conversation
  <2> DEFINE b == breaker[ToolOf(i)]
  <2>2. ToolOf(i) \in Tools /\ b \in Breakers /\ b.state # "open"
    BY <2>1, CallsOfTools DEF RawInv
  <2>3. \A t \in Tools : breaker[t].failures \in Nat /\ streak[t] \in Nat
    BY <1>0 DEF TypeOK, Breakers
  <2>4. /\ streak'[ToolOf(i)] = streak[ToolOf(i)] + 1 /\ breaker'[ToolOf(i)] = RecordFailure(b)
        /\ \A t \in Tools : t # ToolOf(i) => streak'[t] = streak[t] /\ breaker'[t] = breaker[t]
    BY <2>1, <2>2 DEF TypeOK
  <2>5. \/ RecordFailure(b).state = "open"
        \/ /\ b.state = "closed" /\ RecordFailure(b).state = "closed"
           /\ b.failures + 1 < FailureThreshold
           /\ RecordFailure(b).failures = b.failures + 1
    BY <2>2, BreakerSteps
  <2>6. streak[ToolOf(i)] + 1 <= FailureThreshold
    <3>1. CASE b.state = "closed"
      BY <1>0, <2>2, <2>3, <3>1 DEF RawInv
    <3>2. CASE b.state = "half_open"
      BY <1>0, <2>2, <2>3, <3>2 DEF RawInv
    <3> QED BY <2>2, <3>1, <3>2 DEF Breakers
  <2>7. RecordFailure(b).state = "closed" =>
            /\ streak[ToolOf(i)] + 1 <= RecordFailure(b).failures
            /\ RecordFailure(b).failures < FailureThreshold
    BY <1>0, <2>2, <2>3, <2>5 DEF RawInv
  <2>8. RecordFailure(b).state # "half_open"
    BY <2>5
  <2> HIDE DEF b
  <2>9. ASSUME NEW t \in Tools
        PROVE  /\ streak'[t] <= FailureThreshold
               /\ breaker'[t].state = "closed" =>
                     streak'[t] <= breaker'[t].failures /\ breaker'[t].failures < FailureThreshold
               /\ breaker'[t].state = "half_open" => streak'[t] = 0
    BY <2>4, <2>6, <2>7, <2>8 DEF RawInv
  <2> QED BY <1>7, <2>1, <2>9
<1>10. ASSUME NEW i \in Calls, ResultAccepted(i) \/ ResultRefused(i) PROVE RawInv'
  <2>1. /\ stage[i] = "executed"
        /\ stage' = [stage EXCEPT ![i] = "done"] \/ stage' = [stage EXCEPT ![i] = "stopped"]
        /\ breaker' = [breaker EXCEPT ![ToolOf(i)] = RecordSuccess(@)]
        /\ UNCHANGED <<reply, streak>>
    BY <1>10 DEF ResultAccepted, ResultRefused, InspectsResults, conversation
  <2>2. ToolOf(i) \in Tools /\ breaker[ToolOf(i)] \in Breakers /\ streak[ToolOf(i)] = 0
    BY <2>1, CallsOfTools DEF RawInv
  <2>3. /\ breaker'[ToolOf(i)] = [state |-> "closed", failures |-> 0]
        /\ \A t \in Tools : t # ToolOf(i) => breaker'[t] = breaker[t]
    BY <2>1, <2>2, BreakerSteps DEF TypeOK
  <2>4. ASSUME NEW t \in Tools
        PROVE  /\ streak'[t] <= FailureThreshold
               /\ breaker'[t].state = "closed" =>
                     streak'[t] <= breaker'[t].failures /\ breaker'[t].failures < FailureThreshold
               /\ breaker'[t].state = "half_open" => streak'[t] = 0
    BY <1>0, <2>1, <2>2, <2>3 DEF RawInv
  <2> QED BY <1>7, <2>1, <2>4
<1>11. ASSUME NEW t \in Tools, RecoveryElapses(t) PROVE RawInv'
  <2>1. /\ breaker[t].state = "open"
        /\ breaker' = [breaker EXCEPT ![t].state = "half_open"]
        /\ streak' = [streak EXCEPT ![t] = 0]
        /\ UNCHANGED <<pc, reply, stage>>
    BY <1>11 DEF RecoveryElapses, conversation
  <2>2. /\ breaker'[t].state = "half_open" /\ streak'[t] = 0
        /\ \A u \in Tools : u # t => breaker'[u] = breaker[u] /\ streak'[u] = streak[u]
    BY <2>1 DEF TypeOK, Breakers
  <2>3. \A i \in Calls : ToolOf(i) \in Tools
    BY CallsOfTools
  <2> QED BY <1>0, <2>1, <2>2, <2>3 DEF RawInv
<1> QED
  BY <1>2, <1>4, <1>5, <1>6, <1>8, <1>9, <1>10, <1>11 DEF Next, RunStep, CallStep

-------------------------------------------------------------------------------
(***************************************************************************)
(* Pydantic AI: every call is guarded before any executes                  *)
(***************************************************************************)

\* No call of a reply has executed while its calls are still being guarded, and none is
\* stopped while the run goes on.
PydanticInv ==
    framework = "pydantic" =>
        /\ pc = "guard_calls" => \A i \in Calls : stage[i] \in {"pending", "approved"}
        /\ pc \notin {"idle", "unwinding"} => \A i \in Calls : stage[i] # "stopped"
        /\ NoPartialReply

\* Each step keeps a refused reply from executing in part.
LEMMA PydanticStep ==
    ASSUME TypeOK, Underway, PydanticInv, [Next]_vars
    PROVE  PydanticInv'
<1> SUFFICES ASSUME framework = "pydantic", framework' = "pydantic"
             PROVE  PydanticInv'
  BY SameFramework DEF PydanticInv
<1> USE DEF PydanticInv, NoPartialReply, Underway, Calls, conversation, toolVars
<1>0. stage \in [Calls -> {"pending", "approved", "executed", "done", "stopped"}]
  BY DEF TypeOK
<1>1. CASE Invoke
  BY <1>1 DEF Invoke, NoReply
<1>2. CASE InputBlocked
  BY <1>2 DEF InputBlocked
<1>3. CASE InputAllowed
  BY <1>3 DEF InputAllowed
<1>4. CASE ModelReplies
  BY <1>4 DEF ModelReplies
<1>5. CASE ModelRaises
  BY <1>5 DEF ModelRaises
<1>6. CASE OutputGuarded
  BY <1>6 DEF OutputGuarded
<1>7. CASE CallsGuarded
  BY <1>7 DEF CallsGuarded
<1>8. CASE NextIteration
  BY <1>8 DEF NextIteration
<1>9. CASE IterationsExhausted
  BY <1>9 DEF IterationsExhausted
<1>10. CASE Unwound
  BY <1>10 DEF Unwound
<1>11. ASSUME NEW i \in Calls, CallApproved(i) PROVE PydanticInv'
  BY <1>0, <1>11 DEF CallApproved, MayGuard
<1>12. ASSUME NEW i \in Calls, CallRefused(i) \/ CallBreaks(i) PROVE PydanticInv'
  BY <1>0, <1>12 DEF CallRefused, CallBreaks, MayGuard, Raise
<1>13. ASSUME NEW i \in Calls, ToolReturns(i) PROVE PydanticInv'
  BY <1>0, <1>13 DEF ToolReturns, MayExecute
<1>14. ASSUME NEW i \in Calls, ToolRaises(i) PROVE PydanticInv'
  BY <1>0, <1>14 DEF ToolRaises, MayExecute, Raise
<1>15. ASSUME NEW i \in Calls, ResultAccepted(i) PROVE PydanticInv'
  BY <1>0, <1>15 DEF ResultAccepted
<1>16. ASSUME NEW i \in Calls, ResultRefused(i) PROVE PydanticInv'
  BY <1>16 DEF ResultRefused, InspectsResults
<1>17. ASSUME NEW t \in Tools, RecoveryElapses(t) PROVE PydanticInv'
  BY <1>17 DEF RecoveryElapses
<1>18. CASE UNCHANGED vars
  BY <1>18 DEF vars
<1> QED
  BY <1>1, <1>2, <1>3, <1>4, <1>5, <1>6, <1>7, <1>8, <1>9, <1>10, <1>11, <1>12, <1>13, <1>14,
     <1>15, <1>16, <1>17, <1>18 DEF Next, RunStep, CallStep

-------------------------------------------------------------------------------
(***************************************************************************)
(* The trail and the verdict                                               *)
(***************************************************************************)

\* Where calls are guarded one after the other, a run is blocked exactly when its trail
\* holds a denial, and a denial ends the trail.
TrailInv ==
    framework # "langgraph" => Decided(audit) /\ (outcome = "blocked" <=> Blocks(audit))

\* Each step keeps the trail and the verdict together.
LEMMA TrailStep ==
    ASSUME TypeOK, Underway, RawInv, TrailInv, [Next]_vars
    PROVE  TrailInv'
<1> SUFFICES ASSUME framework # "langgraph", framework' = framework
             PROVE  TrailInv'
  BY SameFramework DEF TrailInv
<1>1. Decided(audit) /\ (outcome = "blocked" <=> Blocks(audit))
  BY DEF TrailInv
<1>2. framework \in {"raw", "pydantic"}
  BY DEF TypeOK, Frameworks
<1>3. ASSUME pc \notin {"idle", "unwinding"}, NEW e, Decided(e), audit' = audit \o e,
             outcome' = "blocked" <=> Blocks(e)
      PROVE  TrailInv'
  <2>1. ~Blocks(audit)
    BY <1>1, <1>3 DEF Underway
  <2> QED BY <1>1, <1>3, <2>1, DecidedJoined DEF TrailInv
<1>4. ASSUME UNCHANGED audit, outcome' = outcome \/ (~Blocks(audit) /\ outcome' # "blocked")
      PROVE  TrailInv'
  BY <1>1, <1>4 DEF TrailInv, Decided, Blocks
<1>5. pc \notin {"idle", "unwinding"} => ~Blocks(audit) /\ outcome = "none"
  BY <1>1 DEF Underway
<1>6. CASE Invoke
  BY <1>6, ShortTrails DEF Invoke, TrailInv
<1>7. CASE InputBlocked
  BY <1>3, <1>7, BeforeModelDecides DEF InputBlocked
<1>8. CASE InputAllowed
  BY <1>3, <1>5, <1>8, BeforeModelDecides DEF InputAllowed
<1>9. CASE OutputGuarded
  <2>1. PICK trace \in Capture(reply.text) : audit' = audit \o AfterModel(reply.text, trace)
    BY <1>9 DEF OutputGuarded
  <2>2. pc = "guard_output" /\ outcome' # "blocked"
    BY <1>5, <1>9 DEF OutputGuarded
  <2> QED BY <1>3, <2>1, <2>2, AfterModelPasses
<1>10. CASE \/ ModelReplies \/ ModelRaises \/ CallsGuarded \/ NextIteration
            \/ IterationsExhausted \/ Unwound \/ UNCHANGED vars
  BY <1>4, <1>5, <1>10 DEF ModelReplies, ModelRaises, CallsGuarded, NextIteration,
     IterationsExhausted, Unwound, vars
<1>11. ASSUME NEW i \in Calls, CallApproved(i) \/ CallRefused(i) PROVE TrailInv'
  <2> DEFINE e == BeforeTool(reply.calls[i], breaker[reply.calls[i].tool])
  <2>1. pc \in {"tools", "guard_calls"}
    BY <1>2, <1>11 DEF CallApproved, CallRefused, MayGuard
  <2>2. /\ audit' = audit \o e
        /\ \/ ~Blocks(e) /\ outcome' = outcome
           \/ Blocks(e) /\ outcome' = IF outcome = "none" THEN "blocked" ELSE outcome
    BY <1>11 DEF CallApproved, CallRefused, Raise
  <2>3. Decided(e)
    BY BeforeToolDecides
  <2>4. outcome' = "blocked" <=> Blocks(e)
    BY <1>5, <2>1, <2>2
  <2> HIDE DEF e
  <2> QED BY <1>3, <2>1, <2>2, <2>3, <2>4
<1>12. ASSUME NEW i \in Calls, ToolReturns(i) \/ ResultAccepted(i) PROVE TrailInv'
  BY <1>4, <1>12 DEF ToolReturns, ResultAccepted
<1>13. ASSUME NEW i \in Calls, ToolRaises(i) PROVE TrailInv'
  <2>1. pc = "tools" /\ audit' = audit
    BY <1>2, <1>13 DEF ToolRaises, MayExecute
  <2>2. outcome' = "failed"
    BY <1>5, <1>13, <2>1 DEF ToolRaises, Raise
  <2> QED BY <1>4, <1>5, <2>1, <2>2
<1>14. ASSUME NEW i \in Calls, ResultRefused(i) PROVE TrailInv'
  <2>1. framework = "raw" /\ stage[i] = "executed"
    BY <1>2, <1>14 DEF ResultRefused, InspectsResults
  <2>2. pc = "tools"
    BY <2>1 DEF RawInv, Active
  <2>3. /\ audit' = audit \o AfterTool(result[i]) /\ Blocks(AfterTool(result[i]))
        /\ outcome' = "blocked"
    BY <1>5, <1>14, <2>2 DEF ResultRefused, Raise
  <2> QED BY <1>3, <2>2, <2>3, AfterToolDecides
<1>15. ASSUME NEW t \in Tools, RecoveryElapses(t) PROVE TrailInv'
  BY <1>4, <1>15 DEF RecoveryElapses
<1>16. ASSUME NEW i \in Calls, CallBreaks(i) PROVE TrailInv'
  <2>1. pc \in {"tools", "guard_calls"} /\ audit' = audit
    BY <1>2, <1>16 DEF CallBreaks, MayGuard
  <2>2. outcome' = "failed"
    BY <1>5, <1>16, <2>1 DEF CallBreaks, Raise
  <2> QED BY <1>4, <1>5, <2>1, <2>2
<1> QED
  BY <1>6, <1>7, <1>8, <1>9, <1>10, <1>11, <1>12, <1>13, <1>14, <1>15, <1>16 DEF Next, RunStep, CallStep

-------------------------------------------------------------------------------
(***************************************************************************)
(* What is said: to the model, in the conversation, to the caller          *)
(***************************************************************************)

\* The raw loop hands out nothing the model wrote with personal data in it.
MaskedTurns ==
    framework = "raw" =>
        \A i \in DOMAIN turns :
            /\ i + 1 \in DOMAIN messages
            /\ messages[i + 1].role = "ai" => "pii" \notin turns[i].marks

\* LangGraph sends no credential in a message it can edit.
RedactedRequest ==
    framework = "langgraph" =>
        \A i \in DOMAIN request : request[i].editable => "secret" \notin request[i].text.marks

SafeConversation == framework # "pydantic" => UnsafeResultsStopped

SpeechInv == MaskedTurns /\ RedactedRequest /\ SafeConversation /\ RequestsScreened

NothingSent == request = << >>

\* No request has been made: there is nothing to screen.
LEMMA NoRequest == NothingSent => RequestsScreened /\ RedactedRequest
<1> SUFFICES ASSUME request = << >> PROVE RequestsScreened /\ RedactedRequest
  BY DEF NothingSent
<1>1. << >> \in Conversations /\ << >> \in Seq(Texts)
  BY DEF Conversations
<1>2. Inbound(request) = << >>
  BY DEF Inbound
<1>3. Join(<< >>).marks = {}
  BY DEF Join
<1>4. Join(<< >>).size = 0
  <2> DEFINE e == [i \in DOMAIN << >> |-> << >>[i].size]
  <2>1. Join(<< >>).size = Total(e)
    BY DEF Join
  <2>2. e = << >> /\ e \in Seq(Nat) /\ Len(e) = 0
    OBVIOUS
  <2> HIDE DEF e
  <2>3. Total(e) = 0
    BY <2>2, TotalIsSum
  <2> QED BY <2>1, <2>3
<1> QED BY <1>2, <1>3, <1>4, PostureAssumption DEF RequestsScreened, RedactedRequest

\* What before_model lets pass is screened, whatever the adapter hands it and does with
\* its answer.
LEMMA PassedIsScreened ==
    ASSUME TypeOK, InputAllowed
    PROVE  (RequestsScreened /\ RedactedRequest)'
<1> DEFINE given == Join(GuardedTexts)
           inbound == Inbound(request')
<1>1. messages \in Conversations
  BY DEF TypeOK, Conversations, Utterances
<1>2. /\ request' = RedactedMessages /\ ~Blocks(BeforeModel(given, cred_mode))
      /\ framework' = framework /\ cred_mode' = cred_mode
  BY DEF InputAllowed, deployment
<1>3. /\ request' \in Conversations /\ Len(request') = Len(messages)
      /\ \A i \in DOMAIN messages :
            /\ request'[i].role = messages[i].role
            /\ request'[i].text.size = messages[i].text.size
            /\ request'[i].text.marks \subseteq messages[i].text.marks
  BY <1>1, <1>2, RedactedConversation
<1>4. /\ GuardedTexts \in Seq(Texts) /\ Len(GuardedTexts) = Len(messages)
      /\ DOMAIN GuardedTexts = DOMAIN messages /\ DOMAIN request' = DOMAIN messages
      /\ inbound \in Seq(Texts) /\ Len(inbound) = Len(messages) /\ DOMAIN inbound = DOMAIN messages
  BY <1>1, <1>3, ConversationTexts DEF GuardedTexts
<1>5. ASSUME NEW i \in DOMAIN inbound
      PROVE  inbound[i].marks \subseteq GuardedTexts[i].marks /\ inbound[i].size <= GuardedTexts[i].size
  <2>1. messages[i].text \in Texts /\ messages[i].text.size \in Nat
    BY <1>1, <1>4, ConversationMessages DEF Texts
  <2>2. GuardedTexts[i] = IF framework = "langgraph" \/ messages[i].role # "ai"
                          THEN messages[i].text ELSE EmptyText
    BY <1>4 DEF GuardedTexts, Inbound
  <2>3. inbound[i] = IF messages[i].role # "ai" THEN request'[i].text ELSE EmptyText
    BY <1>3, <1>4 DEF Inbound
  <2>4. /\ request'[i].text.size = messages[i].text.size
        /\ request'[i].text.marks \subseteq messages[i].text.marks
    BY <1>3, <1>4
  <2>5. EmptyText.marks = {} /\ EmptyText.size = 0
    BY DEF EmptyText
  <2> HIDE DEF inbound
  <2>6. CASE messages[i].role # "ai"
    BY <2>1, <2>2, <2>3, <2>4, <2>6
  <2>7. CASE messages[i].role = "ai"
    <3>1. GuardedTexts[i].size \in Nat
      BY <2>1, <2>2, <2>5
    <3> QED BY <2>3, <2>5, <2>7, <3>1
  <2> QED BY <2>6, <2>7
<1> HIDE DEF inbound
<1>6. /\ Join(inbound).marks \subseteq given.marks
      /\ Join(inbound).size \in Nat /\ given.size \in Nat /\ Join(inbound).size <= given.size
  BY <1>4, <1>5, JoinIsMonotone
<1>7. given.size = 0 => given.marks = {}
  BY <1>4, EmptyJoin
<1> HIDE DEF given
<1>8. \/ given.size = 0
      \/ /\ "attack" \notin given.marks
         /\ cred_mode = "deny" => "secret" \notin given.marks
         /\ ~(given.size > WindowTotal)
  BY <1>2, BeforeModelDecides
<1>9. RequestsScreened'
  <2>1. /\ "attack" \notin Join(inbound).marks
        /\ cred_mode = "deny" => "secret" \notin Join(inbound).marks
        /\ Join(inbound).size <= WindowTotal
    BY <1>6, <1>7, <1>8, PostureAssumption
  <2>2. Inbound(request)' = inbound
    BY DEF Inbound, inbound
  <2> QED BY <1>2, <2>1, <2>2 DEF RequestsScreened, Join
<1>10. ASSUME framework = "langgraph", NEW i \in DOMAIN messages
       PROVE  request'[i].editable => "secret" \notin request'[i].text.marks
  <2>1. CASE ShouldRedact(given, cred_mode)
    BY <1>1, <1>2, <1>10, <2>1, RedactedConversation DEF given
  <2>2. CASE ~ShouldRedact(given, cred_mode)
    <3>1. "secret" \notin given.marks
      <4>1. given.size = 0 \/ "secret" \notin given.marks \/ cred_mode # "redact"
        BY <1>6, <2>2 DEF ShouldRedact
      <4>2. cred_mode \in {"redact", "deny"}
        BY DEF TypeOK
      <4> QED BY <1>7, <1>8, <4>1, <4>2
    <3>2. messages[i].text.marks \subseteq given.marks
      <4>1. GuardedTexts = [j \in DOMAIN messages |-> messages[j].text]
        BY <1>10 DEF GuardedTexts
      <4> QED BY <4>1 DEF Join, given
    <3> QED BY <1>3, <3>1, <3>2
  <2> QED BY <2>1, <2>2
<1>11. RedactedRequest'
  BY <1>2, <1>4, <1>10 DEF RedactedRequest
<1> QED BY <1>9, <1>11

\* A message is added at the end of a conversation.
LEMMA AddedMessage ==
    ASSUME NEW conv \in Conversations, NEW m \in Utterances
    PROVE  /\ Append(conv, m) \in Conversations
           /\ DOMAIN Append(conv, m) = DOMAIN conv \cup {Len(conv) + 1}
           /\ \A i \in DOMAIN conv : Append(conv, m)[i] = conv[i]
           /\ Append(conv, m)[Len(conv) + 1] = m
BY DEF Conversations

\* Each step keeps what is said within what the adapter promises.
LEMMA SpeechStep ==
    ASSUME TypeOK, SpeechInv, [Next]_vars
    PROVE  SpeechInv'
<1>0. framework' = framework /\ cred_mode' = cred_mode /\ messages \in Conversations
  BY SameFramework DEF TypeOK, Conversations, Utterances
<1>1. ASSUME UNCHANGED request PROVE (RequestsScreened /\ RedactedRequest)'
  BY <1>0, <1>1 DEF SpeechInv, RequestsScreened, RedactedRequest, Inbound, Join
<1>2. ASSUME UNCHANGED <<messages, turns>> PROVE (MaskedTurns /\ SafeConversation)'
  BY <1>0, <1>2 DEF SpeechInv, MaskedTurns, SafeConversation, UnsafeResultsStopped
<1>3. ASSUME NEW m \in Utterances, messages' = Append(messages, m), UNCHANGED turns,
             framework # "pydantic" /\ m.role = "tool" => "unsafe" \notin m.text.marks
      PROVE  (MaskedTurns /\ SafeConversation)'
  <2>1. /\ DOMAIN messages' = DOMAIN messages \cup {Len(messages) + 1}
        /\ \A i \in DOMAIN messages : messages'[i] = messages[i]
        /\ messages'[Len(messages) + 1] = m
    BY <1>0, <1>3, AddedMessage
  <2>2. MaskedTurns'
    BY <1>0, <1>3, <2>1 DEF SpeechInv, MaskedTurns
  <2>3. SafeConversation'
    BY <1>0, <1>3, <2>1 DEF SpeechInv, SafeConversation, UnsafeResultsStopped
  <2> QED BY <2>2, <2>3
<1>4. CASE Invoke
  <2>1. request' = << >> /\ turns' = << >> /\ \E p \in Prompts : messages' = <<Message("user", p, TRUE)>>
    BY <1>4 DEF Invoke
  <2>2. (RequestsScreened /\ RedactedRequest)'
    <3>1. NothingSent'
      BY <2>1 DEF NothingSent
    <3> QED BY <3>1, NoRequest, PTL
  <2>3. MaskedTurns'
    BY <2>1 DEF MaskedTurns
  <2>4. SafeConversation'
    BY <2>1 DEF SafeConversation, UnsafeResultsStopped, Message
  <2> QED BY <2>2, <2>3, <2>4 DEF SpeechInv
<1>5. CASE InputAllowed
  <2>1. (RequestsScreened /\ RedactedRequest)'
    BY <1>5, PassedIsScreened
  <2>2. messages' = RedactedMessages /\ turns' = turns
    BY <1>5 DEF InputAllowed
  <2>3. /\ DOMAIN messages' = DOMAIN messages
        /\ \A i \in DOMAIN messages :
              /\ messages'[i].role = messages[i].role
              /\ messages'[i].text.marks \subseteq messages[i].text.marks
    BY <1>0, <2>2, RedactedConversation, ConversationMessages
  <2>4. MaskedTurns'
    BY <1>0, <2>2, <2>3 DEF SpeechInv, MaskedTurns
  <2>5. SafeConversation'
    BY <1>0, <2>3 DEF SpeechInv, SafeConversation, UnsafeResultsStopped
  <2> QED BY <2>1, <2>4, <2>5 DEF SpeechInv
<1>6. CASE OutputGuarded
  <2>1. UNCHANGED request
    BY <1>6 DEF OutputGuarded
  <2>0. PICK form \in Forms(reply.text) :
            messages' = messages \/ messages' = Append(messages, Message("ai", reply.text, form))
    BY <1>6 DEF OutputGuarded
  <2> DEFINE m == Message("ai", reply.text, form)
  <2>2. m \in Utterances /\ m.role = "ai"
    <3>1. reply.text \in Texts
      BY LoopAssumption DEF TypeOK, EmptyText, Texts
    <3> QED BY <3>1 DEF Message, Utterances, Forms
  <2>3. messages' = messages \/ messages' = Append(messages, m)
    BY <2>0
  <2>4. turns' = turns \/ turns' = Delivered(messages')
    BY <1>6 DEF OutputGuarded
  <2> HIDE DEF m
  <2>5. messages' \in Conversations
    BY <1>0, <2>2, <2>3, AddedMessage
  <2>6. SafeConversation'
    <3>1. CASE messages' = messages
      BY <1>0, <3>1 DEF SpeechInv, SafeConversation, UnsafeResultsStopped
    <3>2. CASE messages' = Append(messages, m)
      <4>1. /\ DOMAIN messages' = DOMAIN messages \cup {Len(messages) + 1}
            /\ \A i \in DOMAIN messages : messages'[i] = messages[i]
            /\ messages'[Len(messages) + 1] = m
        BY <1>0, <2>2, <3>2, AddedMessage
      <4> QED BY <1>0, <2>2, <4>1 DEF SpeechInv, SafeConversation, UnsafeResultsStopped
    <3> QED BY <2>3, <3>1, <3>2
  <2>7. MaskedTurns'
    <3>1. CASE turns' = turns /\ messages' = messages
      BY <1>2, <3>1
    <3>2. CASE turns' = turns /\ messages' = Append(messages, m)
      BY <1>3, <2>2, <3>2
    <3>3. CASE turns' = Delivered(messages')
      BY <1>0, <2>5, <3>3, DeliveredTexts DEF MaskedTurns
    <3> QED BY <2>3, <2>4, <3>1, <3>2, <3>3
  <2> QED BY <1>1, <2>1, <2>6, <2>7 DEF SpeechInv
<1>7. CASE IterationsExhausted
  <2>1. UNCHANGED <<request, messages>> /\ (turns' = turns \/ turns' = Delivered(messages))
    BY <1>7 DEF IterationsExhausted
  <2>2. SafeConversation'
    BY <1>0, <2>1 DEF SpeechInv, SafeConversation, UnsafeResultsStopped
  <2>3. MaskedTurns'
    <3>1. CASE turns' = turns
      BY <1>2, <2>1, <3>1
    <3>2. CASE turns' = Delivered(messages)
      BY <1>0, <2>1, <3>2, DeliveredTexts DEF MaskedTurns
    <3> QED BY <2>1, <3>1, <3>2
  <2> QED BY <1>1, <2>1, <2>2, <2>3 DEF SpeechInv
<1>8. ASSUME NEW i \in Calls, ResultAccepted(i) PROVE SpeechInv'
  <2>0. PICK form \in Forms(result[i]) : messages' = Append(messages, Message("tool", result[i], form))
    BY <1>8 DEF ResultAccepted
  <2> DEFINE m == Message("tool", result[i], form)
  <2>1. m \in Utterances /\ m.text = result[i]
    <3>1. result[i] \in Texts
      BY LoopAssumption DEF TypeOK, EmptyText, Texts
    <3> QED BY <3>1 DEF Message, Utterances, Forms
  <2>2. messages' = Append(messages, m) /\ UNCHANGED <<request, turns>>
    BY <1>8, <2>0 DEF ResultAccepted
  <2>3. framework # "pydantic" => "unsafe" \notin result[i].marks
    BY <1>8, AfterToolDecides DEF ResultAccepted, InspectsResults
  <2> HIDE DEF m
  <2> QED BY <1>1, <1>3, <2>1, <2>2, <2>3 DEF SpeechInv
<1>9. ASSUME UNCHANGED <<request, messages, turns>> PROVE SpeechInv'
  BY <1>1, <1>2, <1>9 DEF SpeechInv
<1>10. CASE \/ InputBlocked \/ ModelReplies \/ ModelRaises \/ CallsGuarded \/ NextIteration
            \/ Unwound \/ UNCHANGED vars
            \/ \E i \in Calls : \/ CallApproved(i) \/ CallRefused(i) \/ CallBreaks(i)
                                \/ ToolReturns(i) \/ ToolRaises(i) \/ ResultRefused(i)
            \/ \E t \in Tools : RecoveryElapses(t)
  BY <1>9, <1>10 DEF InputBlocked, ModelReplies, ModelRaises, CallsGuarded, NextIteration,
     Unwound, vars, CallApproved, CallRefused, CallBreaks, ToolReturns, ToolRaises,
     ResultRefused, RecoveryElapses, conversation
<1> QED BY <1>4, <1>5, <1>6, <1>7, <1>8, <1>10 DEF Next, RunStep, CallStep

-------------------------------------------------------------------------------
(***************************************************************************)
(* The theorems                                                            *)
(***************************************************************************)

\* The inductive invariant.
RunInv == TypeOK /\ Underway /\ RawInv /\ PydanticInv /\ TrailInv /\ SpeechInv

\* Nothing has run.
LEMMA RunBegins == Init => RunInv
<1> SUFFICES ASSUME Init PROVE RunInv
  OBVIOUS
<1>1. << >> \in Seq(Entries) /\ Decided(<< >>) /\ ~Blocks(<< >>)
  BY ShortTrails
<1>2. TypeOK
  <2>1. ClosedBreaker \in Breakers
    BY PostureAssumption DEF ClosedBreaker, Breakers
  <2>2. MaxIters \in Nat \ {0} /\ MaxRuns[framework] \in Nat
    BY LoopAssumption DEF Init, Frameworks
  <2>3. NoReply \in [text : Replies \cup {EmptyText}, calls : CallLists \cup {<< >>}]
        /\ NoReply.calls = << >>
    BY DEF NoReply
  <2> QED BY <1>1, <2>1, <2>2, <2>3 DEF Init, TypeOK, Calls, Frameworks
<1>3. Underway
  BY DEF Init, Underway
<1>4. RawInv
  BY PostureAssumption DEF Init, RawInv, Calls, NoReply, ClosedBreaker
<1>5. PydanticInv
  BY DEF Init, PydanticInv, NoPartialReply
<1>6. TrailInv
  BY <1>1 DEF Init, TrailInv
<1>7. SpeechInv
  <2>1. RequestsScreened /\ RedactedRequest
    BY NoRequest DEF Init, NothingSent
  <2> QED BY <2>1 DEF Init, SpeechInv, MaskedTurns, SafeConversation, UnsafeResultsStopped
<1> QED BY <1>2, <1>3, <1>4, <1>5, <1>6, <1>7 DEF RunInv

\* Along every behaviour.
LEMMA RunInvariant == Spec => []RunInv
<1>1. RunInv /\ [Next]_vars => RunInv'
  BY TypedStep, RawStep, PydanticStep, TrailStep, SpeechStep DEF RunInv
<1> QED BY RunBegins, <1>1, PTL DEF Spec

\* Whatever the adapter and however often the loop turns, nothing that before_model
\* blocks is sent to the model: no attack, no more than the window holds, no credential
\* where credentials are denied, in a prompt or in what the tools returned, alone or
\* together.
THEOREM RequestsAreScreened == Spec => []RequestsScreened
<1>1. RunInv => RequestsScreened
  BY DEF RunInv, SpeechInv
<1> QED BY <1>1, RunInvariant, PTL

\* In the adapters that guard the calls of a reply one after the other, a run is blocked
\* exactly when the last entry of its trail is a denial, and no other entry is one.
THEOREM VerdictMatchesTrail == Spec => []BlockIsLastWord
<1>1. RunInv => BlockIsLastWord
  <2> SUFFICES ASSUME RunInv, framework # "langgraph"
               PROVE  /\ outcome = "blocked" <=> audit # << >> /\ audit[Len(audit)].decision = "deny"
                      /\ \A i \in 1 .. Len(audit) - 1 : audit[i].decision # "deny"
    BY DEF BlockIsLastWord
  <2>1. Decided(audit) /\ (outcome = "blocked" <=> Blocks(audit))
    BY DEF RunInv, TrailInv
  <2> QED BY <2>1, BlockedByLast DEF Decided
<1> QED BY <1>1, RunInvariant, PTL

\* Each adapter keeps what its own use of the hooks gives: the raw loop masks what it
\* hands out, cuts failing tools off and stops on unsafe results; LangGraph sends what it
\* reports redacted as redacted wherever it can edit the message, and stops on unsafe
\* results; Pydantic AI never executes part of a reply that is refused.
THEOREM AdaptersKeepContracts == Spec => []AdapterContracts
<1>1. RunInv => AdapterContracts
  <2> SUFFICES ASSUME RunInv PROVE AdapterContracts
    OBVIOUS
  <2>1. framework = "raw" => TurnsMasked
    BY DEF RunInv, SpeechInv, MaskedTurns, TurnsMasked
  <2>2. framework = "raw" => FailuresCutOff
    BY DEF RunInv, RawInv, FailuresCutOff
  <2>3. framework \in {"raw", "langgraph"} => UnsafeResultsStopped
    BY DEF RunInv, SpeechInv, SafeConversation
  <2>4. framework = "langgraph" => RedactionHappens
    BY DEF RunInv, SpeechInv, RedactedRequest, RedactionHappens, RedactionReported
  <2>5. framework = "pydantic" => NoPartialReply
    BY DEF RunInv, PydanticInv
  <2> QED BY <2>1, <2>2, <2>3, <2>4, <2>5 DEF RunInv, AdapterContracts
<1> QED BY <1>1, RunInvariant, PTL

-------------------------------------------------------------------------------
(***************************************************************************)
(* The runs of the Microsoft Agent Framework                               *)
(***************************************************************************)

\* A request is a sequence of messages.
LEMMA RequestType == ASSUME NEW msgs \in Requests PROVE msgs \in Seq(AllMessages)
<1>1. PICK n \in 0 .. MaxMessages : msgs \in [1 .. n -> Messages]
  BY DEF Requests
<1>2. n \in Nat
  BY MessageAssumption
<1>3. msgs \in [1 .. n -> AllMessages]
  BY <1>1, MessageAssumption
<1> QED
  BY <1>2, <1>3, SeqDef

\* What is not a finding of the guards leaves the last message's marks alone.
LEMMA RedactedType ==
    ASSUME NEW m \in AllMessages
    PROVE  /\ Redacted(m) \in AllMessages
           /\ Redacted(m).marks \subseteq m.marks
           /\ "secret" \in Redacted(m).marks => Redacted(Redacted(m)) = Redacted(m)
BY DEF Redacted, AllMessages

LEMMA CleanedType ==
    ASSUME NEW msgs \in Seq(AllMessages)
    PROVE  /\ Cleaned(msgs) \in Seq(AllMessages)
           /\ Len(Cleaned(msgs)) = Len(msgs)
           /\ msgs # << >> =>
                /\ Last(msgs) \in AllMessages
                /\ Last(Cleaned(msgs)) = IF "credential" \in guards /\ "secret" \in Last(msgs).marks
                                         THEN Redacted(Last(msgs)) ELSE Last(msgs)
<1>1. CASE msgs = << >>
  BY <1>1 DEF Cleaned, Has
<1>2. CASE msgs # << >>
  <2>1. Len(msgs) \in Nat \ {0}
    BY <1>2, EmptySeq
  <2>2. Last(msgs) \in AllMessages /\ Last(msgs) = msgs[Len(msgs)]
    BY <2>1, ElementOfSeq DEF Last
  <2>3. Redacted(Last(msgs)) \in AllMessages
    BY <2>2, RedactedType
  <2> DEFINE clean == [msgs EXCEPT ![Len(msgs)] = Redacted(Last(msgs))]
  <2>4. /\ clean \in Seq(AllMessages) /\ Len(clean) = Len(msgs)
        /\ clean[Len(msgs)] = Redacted(Last(msgs))
    BY <2>1, <2>3, ExceptSeq
  <2>5. Cleaned(msgs) = IF "credential" \in guards /\ "secret" \in Last(msgs).marks THEN clean ELSE msgs
    BY <1>2, <2>2 DEF Cleaned, Has, LastMessage
  <2> QED
    BY <1>2, <2>1, <2>2, <2>4, <2>5 DEF Last
<1> QED
  BY <1>1, <1>2

\* Concatenating sequences of one.
LEMMA OneAndOne ==
    ASSUME NEW a, NEW b
    PROVE  <<a>> \o <<b>> = <<a, b>> /\ <<a>> \o << >> = <<a>> /\ << >> \o <<b>> = <<b>>
<1> DEFINE s == <<a>>
           t == <<b>>
           u == <<a, b>>
           S == {a, b}
<1>1. /\ s \in Seq(S) /\ t \in Seq(S) /\ Len(s) = 1 /\ Len(t) = 1 /\ s[1] = a /\ t[1] = b
      /\ u \in Seq(S) /\ Len(u) = 2 /\ u[1] = a /\ u[2] = b
  OBVIOUS
<1> HIDE DEF s, t, u, S
<1>2. /\ s \o t \in Seq(S) /\ Len(s \o t) = 2 /\ (s \o t)[1] = a /\ (s \o t)[2] = b
  BY <1>1, ConcatProperties
<1>3. \A i \in 1 .. 2 : (s \o t)[i] = u[i]
  BY <1>1, <1>2
<1>4. s \o t = u
  BY <1>1, <1>2, <1>3, SeqEqual
<1>5. s \o << >> = s /\ << >> \o t = t
  BY <1>1, ConcatEmptySeq
<1> QED
  BY <1>4, <1>5 DEF s, t, u

\* What the guards ahead of the budget's log: at most one entry each, and nothing
\* after a denial.
LEMMA ScreenedShape ==
    ASSUME mode \in {"redact", "deny"}, NEW msgs
    PROVE  LET credentials == {ArchiveEntry("credential", d) : d \in {"deny", "audit"}}
               injections == {ArchiveEntry("injection", d) : d \in {"deny", "audit", "allow"}}
           IN  \/ Screened(msgs) = << >>
               \/ \E e \in credentials \cup injections : Screened(msgs) = <<e>>
               \/ \E i \in injections, c \in credentials :
                     Screened(msgs) = <<i, c>> /\ i.decision # "deny"
<1> DEFINE credentials == {ArchiveEntry("credential", d) : d \in {"deny", "audit"}}
           injections == {ArchiveEntry("injection", d) : d \in {"deny", "audit", "allow"}}
           I == InjectionVerdict(msgs)
           C == CredentialVerdict(msgs)
<1>1. I = << >> \/ \E i \in injections : I = <<i>>
  BY DEF InjectionVerdict
<1>2. C = << >> \/ \E c \in credentials : C = <<c>>
  BY DEF CredentialVerdict
<1>3. \A i \in injections : Denied(<<i>>) <=> i.decision = "deny"
  BY DEF Denied
<1>4. ~Denied(<< >>)
  BY DEF Denied
<1>5. Screened(msgs) = IF Denied(I) THEN I ELSE I \o C
  BY DEF Screened
<1> HIDE DEF I, C
<1>6. ASSUME NEW i \in injections, NEW c \in credentials
      PROVE  <<i>> \o <<c>> = <<i, c>> /\ <<i>> \o << >> = <<i>> /\ << >> \o <<c>> = <<c>>
  BY OneAndOne
<1>7. CASE I = << >>
  BY <1>2, <1>4, <1>5, <1>6, <1>7
<1>8. ASSUME NEW i \in injections, I = <<i>>
      PROVE  \/ Screened(msgs) = <<i>>
             \/ \E c \in credentials : Screened(msgs) = <<i, c>> /\ i.decision # "deny"
  BY <1>2, <1>3, <1>5, <1>6, <1>8
<1> QED
  BY <1>1, <1>7, <1>8

\* A sequence of entries is a function on an interval, and its range its entries.
LEMMA EntriesOf ==
    ASSUME NEW s \in Seq(ArchiveEntries)
    PROVE  /\ Range(s) \subseteq ArchiveEntries
           /\ Range(s) = {s[i] : i \in 1 .. Len(s)}
           /\ DOMAIN s = 1 .. Len(s) /\ Len(s) \in Nat
BY LenProperties, ElementOfSeq DEF Range

LEMMA RangeOfSome ==
    ASSUME NEW a \in ArchiveEntries, NEW b \in ArchiveEntries
    PROVE  /\ << >> \in Seq(ArchiveEntries) /\ Range(<< >>) = {}
           /\ <<a>> \in Seq(ArchiveEntries) /\ Range(<<a>>) = {a} /\ Last(<<a>>) = a
           /\ <<a, b>> \in Seq(ArchiveEntries) /\ Range(<<a, b>>) = {a, b} /\ Last(<<a, b>>) = b
BY DEF Range, Last

\* An entry at the end of others.
LEMMA EntryAdded ==
    ASSUME NEW s \in Seq(ArchiveEntries), NEW t \in Seq(ArchiveEntries), NEW e \in ArchiveEntries
    PROVE  /\ t \o <<e>> \in Seq(ArchiveEntries) /\ Range(t \o <<e>>) = Range(t) \cup {e}
           /\ Last(t \o <<e>>) = e /\ t \o <<e>> # << >>
           /\ s \o (t \o <<e>>) = (s \o t) \o <<e>>
<1> DEFINE u == <<e>>
           S == ArchiveEntries
<1>1. u \in Seq(S) /\ Range(u) = {e} /\ Len(u) = 1 /\ u[1] = e
  BY RangeOfSome
<1> HIDE DEF u, S
<1>2. Len(t) \in Nat /\ t \in Seq(S) /\ s \in Seq(S)
  BY EntriesOf DEF S
<1>3. /\ t \o u \in Seq(S) /\ Len(t \o u) = Len(t) + 1 /\ (t \o u)[Len(t) + 1] = e
  <2>1. /\ t \o u \in Seq(S) /\ Len(t \o u) = Len(t) + Len(u)
        /\ \A i \in 1 .. Len(t) + Len(u) : (t \o u)[i] = IF i <= Len(t) THEN t[i] ELSE u[i - Len(t)]
    BY <1>1, <1>2, ConcatProperties
  <2>2. Len(t) + 1 \in 1 .. Len(t) + Len(u) /\ ~ (Len(t) + 1 <= Len(t)) /\ Len(t) + 1 - Len(t) = 1
    BY <1>1, <1>2
  <2> QED
    BY <1>1, <2>1, <2>2
<1>4. Range(t \o u) = Range(t) \cup {e}
  BY <1>1, <1>2, RangeConcatenation
<1>5. s \o (t \o u) = (s \o t) \o u
  BY <1>1, <1>2, ConcatAssociative
<1>6. Last(t \o u) = e /\ t \o u # << >>
  BY <1>2, <1>3, EmptySeq DEF Last
<1> QED
  BY <1>3, <1>4, <1>5, <1>6 DEF u, S

\* What is on record before the budget guard's own entry.
LEMMA ScreenedEntries ==
    ASSUME mode \in {"redact", "deny"}, NEW msgs
    PROVE  LET entries == Screened(msgs)
           IN  /\ entries \in Seq(ArchiveEntries)
               /\ \A e \in Range(entries) : e.check \in {"injection", "credential"}
               /\ Denied(entries) <=> \E e \in Range(entries) : e.decision = "deny"
               /\ Denied(entries) => Last(entries) \in Range(entries) /\ Last(entries).decision = "deny"
<1> DEFINE credentials == {ArchiveEntry("credential", d) : d \in {"deny", "audit"}}
           injections == {ArchiveEntry("injection", d) : d \in {"deny", "audit", "allow"}}
           entries == Screened(msgs)
<1>1. credentials \subseteq ArchiveEntries /\ injections \subseteq ArchiveEntries
  BY DEF ArchiveEntries, ArchiveEntry
<1>2. /\ \A c \in credentials : c.check = "credential"
      /\ \A i \in injections : i.check = "injection"
  BY DEF ArchiveEntry
<1>3. \/ entries = << >>
      \/ \E e \in credentials \cup injections : entries = <<e>>
      \/ \E i \in injections, c \in credentials : entries = <<i, c>> /\ i.decision # "deny"
  BY ScreenedShape
<1> HIDE DEF entries, credentials, injections
<1>4. entries \in Seq(ArchiveEntries) /\ \A e \in Range(entries) : e.check \in {"injection", "credential"}
  <2>1. CASE entries = << >>
    BY <2>1, EmptySeq DEF Range
  <2>2. ASSUME NEW e \in ArchiveEntries, entries = <<e>>
        PROVE  Range(entries) = {e} /\ entries \in Seq(ArchiveEntries)
    BY <2>2, RangeOfSome
  <2>3. ASSUME NEW i \in ArchiveEntries, NEW c \in ArchiveEntries, entries = <<i, c>>
        PROVE  Range(entries) = {i, c} /\ entries \in Seq(ArchiveEntries)
    BY <2>3, RangeOfSome
  <2> QED
    BY <1>1, <1>2, <1>3, <2>1, <2>2, <2>3
<1>5. Denied(entries) <=> \E e \in Range(entries) : e.decision = "deny"
  BY DEF Denied, Range
<1>6. (\E e \in Range(entries) : e.decision = "deny") => Last(entries) \in Range(entries) /\ Last(entries).decision = "deny"
  <2>1. CASE entries = << >>
    BY <2>1 DEF Range
  <2>2. ASSUME NEW e \in ArchiveEntries, entries = <<e>>
        PROVE  Range(entries) = {e} /\ Last(entries) = e
    BY <2>2, RangeOfSome
  <2>3. ASSUME NEW i \in ArchiveEntries, NEW c \in ArchiveEntries, entries = <<i, c>>
        PROVE  Range(entries) = {i, c} /\ Last(entries) = c
    BY <2>3, RangeOfSome
  <2> QED
    BY <1>1, <1>3, <2>1, <2>2, <2>3
<1> QED
  BY <1>4, <1>5, <1>6 DEF entries

\* How often a check occurs in a trail, counted from what is known of its entries.
LEMMA Counting ==
    ASSUME NEW s \in Seq(ArchiveEntries), NEW check
    PROVE  /\ (\A e \in Range(s) : e.check # check) => Count(s, check) = 0
           /\ (\E e \in Range(s) : e.check = check) => Count(s, check) > 0
           /\ \A e \in ArchiveEntries :
                (\A d \in Range(s) : d.check # check) /\ e.check = check => Count(s \o <<e>>, check) = 1
<1>1. DOMAIN s = 1 .. Len(s) /\ Len(s) \in Nat /\ Range(s) = {s[i] : i \in 1 .. Len(s)}
  BY EntriesOf
<1>2. ASSUME \A e \in Range(s) : e.check # check
      PROVE  Count(s, check) = 0
  <2>1. {i \in DOMAIN s : s[i].check = check} = {}
    BY <1>1, <1>2
  <2> QED
    BY <2>1, FS_EmptySet DEF Count
<1>3. ASSUME \E e \in Range(s) : e.check = check
      PROVE  Count(s, check) > 0
  <2> DEFINE P == {i \in DOMAIN s : s[i].check = check}
  <2>1. P # {}
    BY <1>1, <1>3
  <2>2. IsFiniteSet(P)
    <3>1. IsFiniteSet(1 .. Len(s)) /\ P \in SUBSET (1 .. Len(s))
      BY <1>1, FS_Interval
    <3> QED
      BY <3>1, FS_Subset
  <2>3. Count(s, check) = Cardinality(P)
    BY DEF Count
  <2> HIDE DEF P
  <2>4. Cardinality(P) \in Nat /\ Cardinality(P) # 0
    BY <2>1, <2>2, FS_EmptySet, FS_CardinalityType
  <2> QED
    BY <2>3, <2>4
<1>4. ASSUME NEW e \in ArchiveEntries, \A d \in Range(s) : d.check # check, e.check = check
      PROVE  Count(s \o <<e>>, check) = 1
  <2> DEFINE t == s \o <<e>>
  <2>1. /\ t \in Seq(ArchiveEntries) /\ Len(t) = Len(s) + 1
        /\ \A i \in 1 .. Len(s) + 1 : t[i] = IF i <= Len(s) THEN s[i] ELSE e
    BY <1>1, RangeOfSome, ConcatProperties
  <2>2. DOMAIN t = 1 .. Len(s) + 1
    BY <2>1, EntriesOf
  <2> HIDE DEF t
  <2>3. {i \in DOMAIN t : t[i].check = check} = {Len(s) + 1}
    BY <1>1, <1>4, <2>1, <2>2
  <2> QED
    BY <2>3, FS_Singleton DEF Count, t
<1> QED
  BY <1>2, <1>3, <1>4

-------------------------------------------------------------------------------

\* What is on record of a run that its guards have let through.
GuardsPassed(entries) ==
    /\ \A e \in Range(entries) : e.check # "budget" /\ (e.decision = "deny" => e.check = "toolkit")
    /\ \E e \in Range(entries) : e.check = "toolkit"

\* The record of a run that waits for the model is one it passed with, and only of a
\* run that is over has the usage been lost.
WaitingInv == \A r \in Runs : state[r] = "dispatched" => GuardsPassed(trail[r])
LostInv == \A r \in unrecorded : state[r] = "over"

MafInv == MafTypeOK /\ WaitingInv /\ LostInv /\ TrailExplainsRun /\ LastMessageScreened /\ WindowHasRun

\* What Log does to a trail.
LEMMA Logged ==
    ASSUME MafTypeOK, NEW r \in Runs, NEW entries \in Seq(ArchiveEntries), Log(r, entries)
    PROVE  /\ trail' = [trail EXCEPT ![r] = trail[r] \o entries]
           /\ trail' \in [Runs -> Seq(ArchiveEntries)]
           /\ trail'[r] = trail[r] \o entries
           /\ state[r] = "new" => trail'[r] = entries
<1>1. trail' = [trail EXCEPT ![r] = trail[r] \o entries]
  BY DEF Log, Archived
<1>2. trail[r] \in Seq(ArchiveEntries) /\ trail \in [Runs -> Seq(ArchiveEntries)]
  BY DEF MafTypeOK
<1>3. trail[r] \o entries \in Seq(ArchiveEntries)
  BY <1>2, ConcatProperties
<1>4. << >> \o entries = entries
  BY ConcatEmptySeq
<1>5. state[r] = "new" => trail[r] = << >>
  BY DEF MafTypeOK
<1> QED
  BY <1>1, <1>2, <1>3, <1>4, <1>5

\* A denial of one of the guards, of entries that have one.
LEMMA DenialsOf ==
    ASSUME NEW entries \in Seq(ArchiveEntries)
    PROVE  (\E c \in {"injection", "credential", "budget"} : DeniedBy(entries, c))
              <=> \E e \in Range(entries) : e.decision = "deny" /\ e.check # "toolkit"
<1>1. Range(entries) \subseteq ArchiveEntries
  BY EntriesOf
<1>2. \A e \in ArchiveEntries : e = ArchiveEntry(e.check, e.decision)
                              /\ e.check \in {"injection", "credential", "budget", "toolkit"}
  BY DEF ArchiveEntries, ArchiveEntry
<1>3. \A c, d : ArchiveEntry(c, d).check = c /\ ArchiveEntry(c, d).decision = d
  BY DEF ArchiveEntry
<1>4. ASSUME NEW c \in {"injection", "credential", "budget"}, DeniedBy(entries, c)
      PROVE  \E e \in Range(entries) : e.decision = "deny" /\ e.check # "toolkit"
  BY <1>3, <1>4 DEF DeniedBy
<1>5. ASSUME NEW e \in Range(entries), e.decision = "deny", e.check # "toolkit"
      PROVE  \E c \in {"injection", "credential", "budget"} : DeniedBy(entries, c)
  BY <1>1, <1>2, <1>5 DEF DeniedBy
<1> QED
  BY <1>4, <1>5

\* A run that is denied ahead of the model is explained by its last entry.
LEMMA DenialExplains ==
    ASSUME MafTypeOK', NEW r \in Runs, sent'[r] = << >>, trail'[r] # << >>,
           \A e \in Range(trail'[r]) : e.check # "toolkit",
           Last(trail'[r]).decision = "deny", Last(trail'[r]) \in Range(trail'[r])
    PROVE  Explained(r)'
<1>1. trail'[r] \in Seq(ArchiveEntries)
  BY DEF MafTypeOK
<1>2. Count(trail'[r], "toolkit") = 0
  BY <1>1, Counting
<1>3. \E c \in {"injection", "credential", "budget"} : DeniedBy(trail'[r], c)
  BY <1>1, DenialsOf
<1> QED
  BY <1>2, <1>3 DEF Explained, Count, DeniedBy

\* The budget guard's finally explains a run that has passed the guards.
LEMMA UnwindExplains ==
    ASSUME MafTypeOK, MafTypeOK', NEW r \in Runs, NEW entries \in Seq(ArchiveEntries), NEW held,
           Unwind(r, entries, held), GuardsPassed(trail[r] \o entries), r \notin unrecorded,
           UNCHANGED guards
    PROVE  Explained(r)' /\ unrecorded' \in {unrecorded, unrecorded \cup {r}}
           /\ \A q \in Runs \ {r} : trail'[q] = trail[q]
<1> DEFINE base == trail[r] \o entries
           last == ArchiveEntry("budget", "allow")
<1>1. trail[r] \in Seq(ArchiveEntries) /\ base \in Seq(ArchiveEntries)
  BY ConcatProperties DEF MafTypeOK
<1>2. last \in ArchiveEntries /\ last.check = "budget" /\ last.decision = "allow"
  BY DEF ArchiveEntries, ArchiveEntry
<1> HIDE DEF last
<1>4. /\ entries \o <<last>> \in Seq(ArchiveEntries)
      /\ trail[r] \o (entries \o <<last>>) = base \o <<last>>
  <2> HIDE DEF Unwind, GuardsPassed
  <2>1. \A t \in Seq(ArchiveEntries) : /\ entries \o <<last>> \in Seq(ArchiveEntries)
                                      /\ t \o (entries \o <<last>>) = (t \o entries) \o <<last>>
    BY <1>2, EntryAdded
  <2> QED
    BY <1>1, <2>1
<1> HIDE DEF base
<1>5. Range(base \o <<last>>) = Range(base) \cup {last} /\ base \o <<last>> \in Seq(ArchiveEntries)
  BY <1>1, <1>2, EntryAdded
<1> GuardsPassed(base)
  BY DEF base
<1>6. /\ Count(base, "budget") = 0 /\ Count(base, "toolkit") > 0
      /\ Count(base \o <<last>>, "budget") = 1 /\ Count(base \o <<last>>, "toolkit") > 0
  BY <1>1, <1>2, <1>4, <1>5, Counting DEF GuardsPassed
<1>7. /\ ~ \E c \in {"injection", "credential", "budget"} : DeniedBy(base, c)
      /\ ~ \E c \in {"injection", "credential", "budget"} : DeniedBy(base \o <<last>>, c)
  BY <1>1, <1>2, <1>4, <1>5, DenialsOf DEF GuardsPassed
<1>8. CASE NoWindow(r, entries)
  <2>1. trail' = [trail EXCEPT ![r] = base] /\ trail'[r] = base /\ unrecorded' = unrecorded /\ "budget" \notin guards
    BY <1>8, Logged DEF NoWindow, base
  <2> QED
    BY <1>6, <1>7, <2>1 DEF Explained, MafTypeOK
<1>9. CASE Accounted(r, entries)
  <2>1. /\ trail' = [trail EXCEPT ![r] = base \o <<last>>] /\ trail'[r] = base \o <<last>>
        /\ unrecorded' = unrecorded /\ "budget" \in guards
    BY <1>4, <1>9, Logged DEF Accounted, last
  <2> QED
    BY <1>6, <1>7, <2>1 DEF Explained, MafTypeOK
<1>10. CASE Unaccounted(r, entries, held)
  <2>1. trail' = [trail EXCEPT ![r] = base] /\ trail'[r] = base /\ unrecorded' = unrecorded \cup {r} /\ "budget" \in guards
    BY <1>10, Logged DEF Unaccounted, base
  <2> QED
    BY <1>6, <1>7, <2>1 DEF Explained, MafTypeOK
<1> QED
  BY <1>8, <1>9, <1>10 DEF Unwind

-------------------------------------------------------------------------------

\* What the steps of a run have in common: they are about one run, whose entries they
\* log, and a message is sent with the run's dispatch only.
LEMMA MafTyped == MafTypeOK /\ [MafNext]_mafVars => MafTypeOK'
<1> SUFFICES ASSUME MafTypeOK, [MafNext]_mafVars
             PROVE  MafTypeOK'
  OBVIOUS
<1> USE DEF MafTypeOK
<1>0. ASSUME NEW c \in {"injection", "credential", "budget", "toolkit"}, NEW d \in {"allow", "audit", "deny"}
      PROVE  ArchiveEntry(c, d) \in ArchiveEntries
  BY DEF ArchiveEntries, ArchiveEntry
<1>1. ASSUME NEW r \in Runs, NEW msgs \in Requests
      PROVE  /\ Screened(msgs) \in Seq(ArchiveEntries)
             /\ \A e \in ArchiveEntries : Screened(msgs) \o <<e>> \in Seq(ArchiveEntries)
  <2>1. Screened(msgs) \in Seq(ArchiveEntries)
    BY ScreenedEntries
  <2>2. ASSUME NEW e \in ArchiveEntries
        PROVE  Screened(msgs) \o <<e>> \in Seq(ArchiveEntries)
    BY <2>1, EntryAdded
  <2> QED
    BY <2>1, <2>2
<1>2. ASSUME NEW r \in Runs, NEW entries \in Seq(ArchiveEntries), Log(r, entries)
      PROVE  trail' \in [Runs -> Seq(ArchiveEntries)] /\ \A q \in Runs \ {r} : trail'[q] = trail[q]
  BY <1>2, Logged
<1>3. ASSUME NEW r \in Runs, NEW msgs \in Requests, ScreenedOut(r, msgs)
      PROVE  MafTypeOK'
  BY <1>1, <1>2, <1>3 DEF ScreenedOut, Over
<1>4. ASSUME NEW r \in Runs, NEW msgs \in Requests, BudgetExhausted(r, msgs)
      PROVE  MafTypeOK'
  BY <1>0, <1>1, <1>2, <1>4 DEF BudgetExhausted, AuditDeny, Over
<1>5. ASSUME NEW r \in Runs, NEW msgs \in Requests, PromptTooBig(r, msgs)
      PROVE  MafTypeOK'
  BY <1>0, <1>1, <1>2, <1>5 DEF PromptTooBig, AuditDeny, Over
<1>6. ASSUME NEW r \in Runs, NEW msgs \in Requests, Dispatch(r, msgs)
      PROVE  MafTypeOK'
  <2>1. Cleaned(msgs) \in Seq(AllMessages)
    BY RequestType, CleanedType
  <2> DEFINE entries == Screened(msgs) \o <<ArchiveEntry("toolkit", "allow")>>
  <2>2. entries \in Seq(ArchiveEntries)
    BY <1>0, <1>1
  <2> HIDE DEF entries
  <2>3. trail' \in [Runs -> Seq(ArchiveEntries)] /\ \A q \in Runs \ {r} : trail'[q] = trail[q]
    BY <1>2, <1>6, <2>2 DEF Dispatch, entries
  <2>4. /\ window' = ("budget" \in guards) /\ state' = [state EXCEPT ![r] = "dispatched"]
        /\ sent' = [sent EXCEPT ![r] = Cleaned(msgs)] /\ UNCHANGED <<guards, mode, unrecorded>>
    BY <1>6 DEF Dispatch
  <2>5. window' \in BOOLEAN
    BY <2>4
  <2> QED
    BY <2>1, <2>3, <2>4, <2>5
<1>7. ASSUME NEW r \in Runs, NEW entries \in Seq(ArchiveEntries), NEW held \in BOOLEAN,
             Unwind(r, entries, held), held => "budget" \in guards
      PROVE  /\ trail' \in [Runs -> Seq(ArchiveEntries)] /\ \A q \in Runs \ {r} : trail'[q] = trail[q]
             /\ window' \in BOOLEAN /\ (window' => "budget" \in guards) /\ unrecorded' \subseteq Runs
  <2>1. \A t \in Seq(ArchiveEntries) : entries \o <<ArchiveEntry("budget", "allow")>> \in Seq(ArchiveEntries)
    BY <1>0, EntryAdded
  <2>2. entries \o <<ArchiveEntry("budget", "allow")>> \in Seq(ArchiveEntries)
    BY <2>1, EmptySeq
  <2> QED
    <3>1. CASE NoWindow(r, entries)
      BY <1>2, <3>1 DEF NoWindow
    <3>2. CASE Accounted(r, entries)
      BY <1>2, <2>2, <3>2 DEF Accounted
    <3>3. CASE Unaccounted(r, entries, held)
      BY <1>2, <1>7, <3>3 DEF Unaccounted
    <3> QED
      BY <1>7, <3>1, <3>2, <3>3 DEF Unwind
<1>8. ASSUME NEW r \in Runs, NEW msgs \in Requests, ToolkitDenies(r, msgs)
      PROVE  MafTypeOK'
  <2> DEFINE entries == Screened(msgs) \o <<ArchiveEntry("toolkit", "deny")>>
  <2>1. entries \in Seq(ArchiveEntries)
    BY <1>0, <1>1
  <2> HIDE DEF entries
  <2>2. Unwind(r, entries, TRUE)
    BY <1>8 DEF ToolkitDenies, entries
  <2>3. \/ "budget" \in guards
        \/ NoWindow(r, entries)
    BY <2>2 DEF Unwind, Accounted, Unaccounted
  <2>4. /\ trail' \in [Runs -> Seq(ArchiveEntries)] /\ \A q \in Runs \ {r} : trail'[q] = trail[q]
        /\ window' \in BOOLEAN /\ (window' => "budget" \in guards) /\ unrecorded' \subseteq Runs
    BY <1>2, <1>7, <2>1, <2>2, <2>3 DEF NoWindow
  <2> QED
    BY <1>8, <2>4 DEF ToolkitDenies, Over
<1>9. ASSUME NEW r \in Runs, ModelReturns(r)
      PROVE  MafTypeOK'
  <2>1. PICK closed \in {<< >>, <<ArchiveEntry("toolkit", "allow")>>} : Unwind(r, closed, window)
    BY <1>9 DEF ModelReturns
  <2>2. closed \in Seq(ArchiveEntries)
    <3>1. \A e \in ArchiveEntries : << >> \in Seq(ArchiveEntries) /\ <<e>> \in Seq(ArchiveEntries)
      BY RangeOfSome
    <3>2. ArchiveEntry("toolkit", "allow") \in ArchiveEntries
      BY <1>0
    <3> HIDE DEF MafTypeOK
    <3> QED
      BY <3>1, <3>2
  <2>3. /\ trail' \in [Runs -> Seq(ArchiveEntries)] /\ \A q \in Runs \ {r} : trail'[q] = trail[q]
        /\ window' \in BOOLEAN /\ (window' => "budget" \in guards) /\ unrecorded' \subseteq Runs
    BY <1>7, <2>1, <2>2
  <2> QED
    BY <1>9, <2>3 DEF ModelReturns, Over
<1>10. CASE UNCHANGED mafVars
  BY <1>10 DEF mafVars
<1> QED
  BY <1>3, <1>4, <1>5, <1>6, <1>8, <1>9, <1>10 DEF MafNext, Begin

\* A run that takes no part in a step stays explained.
LEMMA StaysExplained ==
    ASSUME NEW q \in Runs, Explained(q), trail'[q] = trail[q], sent'[q] = sent[q], guards' = guards,
           (q \in unrecorded') <=> (q \in unrecorded)
    PROVE  Explained(q)'
BY DEF Explained

\* What a step does that ends a run ahead of the model.
LEMMA DenialKeeps ==
    ASSUME MafInv, MafTypeOK', NEW r \in Runs, NEW entries \in Seq(ArchiveEntries),
           state[r] = "new", Over(r), Log(r, entries), UNCHANGED <<guards, mode, sent, unrecorded>>,
           \A e \in Range(entries) : e.check # "toolkit",
           Last(entries).decision = "deny", Last(entries) \in Range(entries)
    PROVE  WaitingInv' /\ LostInv' /\ TrailExplainsRun' /\ LastMessageScreened'
<1> USE DEF MafInv
<1>1. /\ trail'[r] = entries /\ sent'[r] = << >> /\ state' = [state EXCEPT ![r] = "over"]
      /\ trail' = [trail EXCEPT ![r] = trail[r] \o entries]
  BY Logged DEF MafTypeOK, Over
<1>2. /\ \A q \in Runs \ {r} : trail'[q] = trail[q] /\ state'[q] = state[q]
      /\ state'[r] = "over"
  BY <1>1 DEF MafTypeOK
<1>3. entries # << >>
  BY DEF Range
<1>4. Explained(r)'
  BY <1>1, <1>3, DenialExplains
<1>5. TrailExplainsRun'
  BY <1>2, <1>4, StaysExplained DEF TrailExplainsRun
<1>6. WaitingInv' /\ LostInv' /\ LastMessageScreened'
  BY <1>2 DEF WaitingInv, LostInv, LastMessageScreened, MafTypeOK
<1> QED
  BY <1>5, <1>6

\* What a step does that unwinds a run.
LEMMA UnwindKeeps ==
    ASSUME MafInv, MafTypeOK', NEW r \in Runs, NEW entries \in Seq(ArchiveEntries), NEW held,
           Unwind(r, entries, held), GuardsPassed(trail[r] \o entries), state[r] # "over",
           Over(r), UNCHANGED <<guards, mode, sent>>
    PROVE  /\ WaitingInv' /\ LostInv' /\ TrailExplainsRun' /\ LastMessageScreened'
           /\ "budget" \in guards => window' = FALSE \/ unrecorded' # {}
<1> USE DEF MafInv
<1>1. r \notin unrecorded
  BY DEF LostInv
<1>2. /\ Explained(r)' /\ unrecorded' \in {unrecorded, unrecorded \cup {r}}
      /\ \A q \in Runs \ {r} : trail'[q] = trail[q]
  BY <1>1, UnwindExplains
<1>3. state' = [state EXCEPT ![r] = "over"] /\ state'[r] = "over" /\ \A q \in Runs \ {r} : state'[q] = state[q]
  BY DEF Over, MafTypeOK
<1>4. TrailExplainsRun'
  BY <1>2, <1>3, StaysExplained DEF TrailExplainsRun
<1>5. WaitingInv' /\ LostInv' /\ LastMessageScreened'
  BY <1>2, <1>3 DEF WaitingInv, LostInv, LastMessageScreened, MafTypeOK
<1>6. "budget" \in guards => window' = FALSE \/ unrecorded' # {}
  BY DEF Unwind, NoWindow, Accounted, Unaccounted
<1> QED
  BY <1>4, <1>5, <1>6

\* The invariant is inductive.
LEMMA MafStays == MafInv /\ [MafNext]_mafVars => MafInv'
<1> SUFFICES ASSUME MafInv, [MafNext]_mafVars
             PROVE  MafInv'
  OBVIOUS
<1>0. MafTypeOK /\ MafTypeOK' /\ mode \in {"redact", "deny"}
  BY MafTyped DEF MafInv, MafTypeOK
<1>a. \A c \in {"injection", "credential", "budget", "toolkit"}, d \in {"allow", "audit", "deny"} :
          /\ ArchiveEntry(c, d) \in ArchiveEntries
          /\ ArchiveEntry(c, d).check = c /\ ArchiveEntry(c, d).decision = d
  BY DEF ArchiveEntries, ArchiveEntry
<1>b. ASSUME NEW msgs \in Requests
      PROVE  /\ Screened(msgs) \in Seq(ArchiveEntries)
             /\ \A e \in Range(Screened(msgs)) : e.check \in {"injection", "credential"}
             /\ Denied(Screened(msgs)) <=> \E e \in Range(Screened(msgs)) : e.decision = "deny"
             /\ Denied(Screened(msgs)) => /\ Last(Screened(msgs)) \in Range(Screened(msgs))
                                         /\ Last(Screened(msgs)).decision = "deny"
  BY <1>0, ScreenedEntries
<1>c. ASSUME NEW msgs \in Requests, NEW e \in ArchiveEntries
      PROVE  /\ Screened(msgs) \o <<e>> \in Seq(ArchiveEntries)
             /\ Range(Screened(msgs) \o <<e>>) = Range(Screened(msgs)) \cup {e}
             /\ Last(Screened(msgs) \o <<e>>) = e
  BY <1>b, EntryAdded
<1>1. ASSUME NEW r \in Runs, NEW msgs \in Requests, ScreenedOut(r, msgs)
      PROVE  MafInv'
  <2>1. WaitingInv' /\ LostInv' /\ TrailExplainsRun' /\ LastMessageScreened'
    BY <1>0, <1>1, <1>b, DenialKeeps DEF ScreenedOut
  <2>2. WindowHasRun'
    BY <1>0, <1>1 DEF ScreenedOut, Over, MafInv, WindowHasRun, MafTypeOK
  <2> QED
    BY <1>0, <2>1, <2>2 DEF MafInv
<1>2. ASSUME NEW r \in Runs, NEW msgs \in Requests, BudgetExhausted(r, msgs)
      PROVE  MafInv'
  <2>1. WaitingInv' /\ LostInv' /\ TrailExplainsRun' /\ LastMessageScreened'
    <3> DEFINE entries == Screened(msgs) \o <<ArchiveEntry("budget", "deny")>>
    <3>1. /\ entries \in Seq(ArchiveEntries) /\ Last(entries) \in Range(entries)
          /\ Last(entries).decision = "deny" /\ \A e \in Range(entries) : e.check # "toolkit"
      BY <1>a, <1>b, <1>c
    <3>2. /\ Log(r, entries) /\ state[r] = "new" /\ Over(r)
          /\ UNCHANGED <<guards, mode, sent, unrecorded>>
      BY <1>2 DEF BudgetExhausted, AuditDeny
    <3> HIDE DEF entries
    <3> QED
      BY <1>0, <3>1, <3>2, DenialKeeps
  <2>2. WindowHasRun'
    BY <1>0, <1>2 DEF BudgetExhausted, Over, MafInv, WindowHasRun, MafTypeOK
  <2> QED
    BY <1>0, <2>1, <2>2 DEF MafInv
<1>3. ASSUME NEW r \in Runs, NEW msgs \in Requests, PromptTooBig(r, msgs)
      PROVE  MafInv'
  <2>1. WaitingInv' /\ LostInv' /\ TrailExplainsRun' /\ LastMessageScreened'
    <3> DEFINE entries == Screened(msgs) \o <<ArchiveEntry("budget", "deny")>>
    <3>1. /\ entries \in Seq(ArchiveEntries) /\ Last(entries) \in Range(entries)
          /\ Last(entries).decision = "deny" /\ \A e \in Range(entries) : e.check # "toolkit"
      BY <1>a, <1>b, <1>c
    <3>2. /\ Log(r, entries) /\ state[r] = "new" /\ Over(r)
          /\ UNCHANGED <<guards, mode, sent, unrecorded>>
      BY <1>3 DEF PromptTooBig, AuditDeny
    <3> HIDE DEF entries
    <3> QED
      BY <1>0, <3>1, <3>2, DenialKeeps
  <2>2. WindowHasRun'
    BY <1>0, <1>3 DEF PromptTooBig, WindowHasRun
  <2> QED
    BY <1>0, <2>1, <2>2 DEF MafInv
<1>4. ASSUME NEW r \in Runs, NEW msgs \in Requests, ToolkitDenies(r, msgs)
      PROVE  MafInv'
  <2> DEFINE entries == Screened(msgs) \o <<ArchiveEntry("toolkit", "deny")>>
  <2>1. entries \in Seq(ArchiveEntries) /\ trail[r] \o entries = entries /\ GuardsPassed(entries)
    <3>1. entries \in Seq(ArchiveEntries) /\ GuardsPassed(entries)
      BY <1>4, <1>a, <1>b, <1>c DEF GuardsPassed, ToolkitDenies
    <3>2. trail[r] = << >>
      BY <1>0, <1>4 DEF ToolkitDenies, MafTypeOK
    <3> HIDE DEF entries
    <3> QED
      BY <3>1, <3>2, ConcatEmptySeq
  <2> HIDE DEF entries
  <2>2. /\ Unwind(r, entries, TRUE) /\ state[r] = "new" /\ Over(r) /\ UNCHANGED <<guards, mode, sent>>
    BY <1>4 DEF ToolkitDenies, entries
  <2>3. /\ WaitingInv' /\ LostInv' /\ TrailExplainsRun' /\ LastMessageScreened'
        /\ "budget" \in guards => window' = FALSE \/ unrecorded' # {}
    BY <1>0, <2>1, <2>2, UnwindKeeps
  <2>4. WindowHasRun'
    BY <1>0, <2>2, <2>3 DEF WindowHasRun, MafTypeOK
  <2> QED
    BY <1>0, <2>3, <2>4 DEF MafInv
<1>5. ASSUME NEW r \in Runs, NEW msgs \in Requests, Dispatch(r, msgs)
      PROVE  MafInv'
  <2> DEFINE entries == Screened(msgs) \o <<ArchiveEntry("toolkit", "allow")>>
  <2>1. entries \in Seq(ArchiveEntries) /\ GuardsPassed(entries)
    BY <1>5, <1>a, <1>b, <1>c DEF GuardsPassed, Dispatch
  <2>2. /\ Log(r, entries) /\ state[r] = "new" /\ state' = [state EXCEPT ![r] = "dispatched"]
        /\ sent' = [sent EXCEPT ![r] = Cleaned(msgs)] /\ UNCHANGED <<guards, mode, unrecorded>>
    BY <1>5 DEF Dispatch
  <2> HIDE DEF entries
  <2>3. /\ trail'[r] = entries /\ \A q \in Runs \ {r} : trail'[q] = trail[q]
        /\ state'[r] = "dispatched" /\ \A q \in Runs \ {r} : state'[q] = state[q]
        /\ sent'[r] = Cleaned(msgs) /\ \A q \in Runs \ {r} : sent'[q] = sent[q]
    BY <1>0, <2>1, <2>2, Logged DEF MafTypeOK
  <2>4. WaitingInv' /\ LostInv'
    BY <1>0, <2>1, <2>2, <2>3 DEF MafInv, WaitingInv, LostInv, MafTypeOK
  <2>5. TrailExplainsRun'
    BY <2>2, <2>3, StaysExplained DEF MafInv, TrailExplainsRun
  <2>6. LastMessageScreened'
    <3>1. ASSUME Cleaned(msgs) # << >>
          PROVE  LET last == Last(Cleaned(msgs))
                 IN  /\ "injection" \in guards => "attack" \notin last.marks
                     /\ "credential" \in guards /\ "secret" \in last.marks =>
                            mode = "redact" /\ Redacted(last) = last
      <4> DEFINE m == Last(msgs)
                 last == Last(Cleaned(msgs))
      <4>1. msgs \in Seq(AllMessages) /\ msgs # << >>
        BY <3>1, RequestType, CleanedType, EmptySeq
      <4>2. m \in AllMessages /\ last = IF "credential" \in guards /\ "secret" \in m.marks THEN Redacted(m) ELSE m
        BY <4>1, CleanedType
      <4>3. /\ Redacted(m).marks \subseteq m.marks
            /\ "secret" \in Redacted(m).marks => Redacted(Redacted(m)) = Redacted(m)
        BY <4>2, RedactedType
      <4>4. \A mark : Has(msgs, mark) <=> mark \in m.marks
        BY <4>1 DEF Has, LastMessage
      <4>5. ~Denied(InjectionVerdict(msgs)) /\ ~Denied(Screened(msgs))
        BY <1>5 DEF Dispatch, Screened
      <4>6. "injection" \in guards => "attack" \notin m.marks
        <5> SUFFICES ASSUME "injection" \in guards, "attack" \in m.marks
                     PROVE  FALSE
          OBVIOUS
        <5>1. InjectionVerdict(msgs) = <<ArchiveEntry("injection", "deny")>>
          BY <4>1, <4>4 DEF InjectionVerdict
        <5> QED
          BY <4>5, <5>1, <1>a DEF Denied
      <4>7. "credential" \in guards /\ "secret" \in m.marks => mode = "redact"
        <5> SUFFICES ASSUME "credential" \in guards, "secret" \in m.marks, mode = "deny"
                     PROVE  FALSE
          BY <1>0
        <5>1. CredentialVerdict(msgs) = <<ArchiveEntry("credential", "deny")>>
          BY <4>1, <4>4 DEF CredentialVerdict
        <5>2. InjectionVerdict(msgs) = << >> \/ \E e \in ArchiveEntries : InjectionVerdict(msgs) = <<e>>
          BY <1>a DEF InjectionVerdict
        <5>3. Screened(msgs) = InjectionVerdict(msgs) \o <<ArchiveEntry("credential", "deny")>>
          BY <4>5, <5>1 DEF Screened
        <5>4. InjectionVerdict(msgs) \in Seq(ArchiveEntries)
          BY <5>2, RangeOfSome, EmptySeq
        <5>5. ArchiveEntry("credential", "deny") \in Range(Screened(msgs))
          BY <1>a, <5>3, <5>4, EntryAdded
        <5> QED
          BY <1>a, <1>b, <4>5, <5>5
      <4> HIDE DEF m, last
      <4>8. /\ "injection" \in guards => "attack" \notin last.marks
            /\ "credential" \in guards /\ "secret" \in last.marks => mode = "redact" /\ Redacted(last) = last
        BY <4>2, <4>3, <4>6, <4>7
      <4> QED
        BY <4>8 DEF last
    <3> QED
      BY <2>2, <2>3, <3>1 DEF MafInv, LastMessageScreened
  <2>7. WindowHasRun'
    BY <1>0, <2>3 DEF WindowHasRun
  <2> QED
    BY <1>0, <2>4, <2>5, <2>6, <2>7 DEF MafInv
<1>6. ASSUME NEW r \in Runs, ModelReturns(r)
      PROVE  MafInv'
  <2>1. PICK closed \in {<< >>, <<ArchiveEntry("toolkit", "allow")>>} : Unwind(r, closed, window)
    BY <1>6 DEF ModelReturns
  <2>2. /\ state[r] = "dispatched" /\ Over(r) /\ UNCHANGED <<guards, mode, sent>>
    BY <1>6 DEF ModelReturns
  <2>3. trail[r] \in Seq(ArchiveEntries) /\ GuardsPassed(trail[r])
    BY <2>2 DEF MafInv, MafTypeOK, WaitingInv
  <2>4. closed \in Seq(ArchiveEntries) /\ GuardsPassed(trail[r] \o closed)
    <3>1. CASE closed = << >>
      BY <2>3, <3>1, ConcatEmptySeq, EmptySeq
    <3>2. CASE closed = <<ArchiveEntry("toolkit", "allow")>>
      <4>1. /\ <<ArchiveEntry("toolkit", "allow")>> \in Seq(ArchiveEntries)
            /\ Range(trail[r] \o <<ArchiveEntry("toolkit", "allow")>>) = Range(trail[r]) \cup {ArchiveEntry("toolkit", "allow")}
        BY <1>a, <2>3, EntryAdded, RangeOfSome
      <4> QED
        BY <1>a, <2>3, <3>2, <4>1 DEF GuardsPassed
    <3> QED
      BY <2>1, <3>1, <3>2
  <2>5. /\ WaitingInv' /\ LostInv' /\ TrailExplainsRun' /\ LastMessageScreened'
        /\ "budget" \in guards => window' = FALSE \/ unrecorded' # {}
    BY <1>0, <2>1, <2>2, <2>4, UnwindKeeps
  <2>6. WindowHasRun'
    BY <1>0, <2>2, <2>5 DEF WindowHasRun, MafTypeOK
  <2> QED
    BY <1>0, <2>5, <2>6 DEF MafInv
<1>7. CASE UNCHANGED mafVars
  <2>1. WaitingInv' /\ LostInv' /\ LastMessageScreened' /\ WindowHasRun'
    BY <1>0, <1>7 DEF mafVars, MafInv, WaitingInv, LostInv, LastMessageScreened, WindowHasRun
  <2>2. TrailExplainsRun'
    BY <1>7, StaysExplained DEF mafVars, MafInv, TrailExplainsRun
  <2> QED
    BY <1>0, <2>1, <2>2 DEF MafInv
<1> QED
  BY <1>1, <1>2, <1>3, <1>4, <1>5, <1>6, <1>7 DEF MafNext, Begin

\* No run has begun.
LEMMA MafBegins == MafInit => MafInv
<1> SUFFICES ASSUME MafInit
             PROVE  MafInv
  OBVIOUS
<1>1. MafTypeOK
  BY EmptySeq DEF MafInit, MafTypeOK
<1>2. WaitingInv /\ LostInv /\ TrailExplainsRun /\ LastMessageScreened /\ WindowHasRun
  BY <1>1 DEF MafInit, WaitingInv, LostInv, TrailExplainsRun, LastMessageScreened, WindowHasRun
<1> QED
  BY <1>1, <1>2 DEF MafInv

LEMMA MafInductive == MafSpec => []MafInv
BY MafBegins, MafStays, PTL DEF MafSpec

\* Whatever the messages and however many, whichever guards the configuration builds and
\* whatever else the agent's runs do: the last message the model gets has passed them.
THEOREM LastMessagesAreScreened == MafSpec => []LastMessageScreened
BY MafInductive, PTL DEF MafInv

\* The archive explains every run that is over, whichever other backend failed.
THEOREM TrailsExplainRuns == MafSpec => []TrailExplainsRun
BY MafInductive, PTL DEF MafInv

\* The state is well typed, and no window is left that nobody will release, except for a
\* usage that could not be recorded.
THEOREM WindowsHaveRuns == MafSpec => []WindowHasRun
BY MafInductive, PTL DEF MafInv
===============================================================================
