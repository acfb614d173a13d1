----------------------------- MODULE DocumentProofs -----------------------------
(***************************************************************************)
(* Proofs about what a scan derives from songs: AlbumIsOfItsSongs holds    *)
(* for every set of files, whatever their songs say and however often they *)
(* change.                                                                 *)
(*                                                                         *)
(* Each loop of ToAlbum is a function of the number of rounds.  Such a     *)
(* function exists (RoundsExist), and what it keeps is proved of the least *)
(* number of rounds that would break it (EveryRound).  What the loops      *)
(* leave is then what the properties mean: the least known and the         *)
(* greatest year, the oldest time, the warning, the cover.  The last       *)
(* part needs that sorting puts every song in its place (SortedIsOrder),   *)
(* and that a row, once built, is ToAlbum of the songs it was built from   *)
(* in one of their listings (AlbumInv): the properties alone do not say    *)
(* where the row comes from and would not survive a step.                  *)
(***************************************************************************)
EXTENDS AlbumFromSongs, FiniteSetTheorems, WellFoundedInduction, TLAPS

-------------------------------------------------------------------------------
(* Loops                                                                       *)

\* A set of numbers has a least one.
LEMMA HasLeast == ASSUME NEW S, S \subseteq Nat, S # {} PROVE \E x \in S : \A y \in S : x <= y
<1>1. PICK x \in S : \A y \in S : ~(<<y, x>> \in OpToRel(<, Nat)) BY NatLessThanWellFounded, WFMin
<1>2. \A y \in S : ~(y < x) BY <1>1 DEF OpToRel
<1>3. QED BY <1>2

\* What holds before the first round of a loop, and after each one when it held
\* before, holds after every round: there would be a first one that fails.
LEMMA EveryRound ==
    ASSUME NEW L \in Nat, NEW S, 0 \in S, \A n \in 1..L : n - 1 \in S => n \in S
    PROVE  \A n \in 0..L : n \in S
<1> DEFINE failed == {n \in 0..L : n \notin S}
<1> SUFFICES ASSUME failed # {} PROVE FALSE OBVIOUS
<1>1. failed \subseteq Nat OBVIOUS
<1> HIDE DEF failed
<1>2. PICK n \in failed : \A m \in failed : n <= m BY <1>1, HasLeast
<1>3. n \in 0..L /\ n \notin S BY DEF failed
<1>4. n \in 1..L /\ n - 1 \in 0..L BY <1>3
<1>5. n - 1 \notin failed BY <1>2, <1>4
<1>6. n - 1 \in S BY <1>4, <1>5 DEF failed
<1>7. QED BY <1>3, <1>4, <1>6

\* The function that a loop describes exists: g[n] is what n rounds leave.
AreRounds(g, L, a, step) == g = [n \in 0..L |-> IF n = 0 THEN a ELSE step[<<n, g[n - 1]>>]]

\* It does, and stays in any set that every round stays in.
LEMMA RoundsExist ==
    ASSUME NEW L \in Nat, NEW T, NEW a \in T, NEW step, \A n \in 1..L : \A x \in T : step[<<n, x>>] \in T
    PROVE  \E g : AreRounds(g, L, a, step) /\ \A n \in 0..L : g[n] \in T
<1> DEFINE S == {k \in 0..L : \E g : AreRounds(g, k, a, step) /\ \A n \in 0..k : g[n] \in T}
<1>1. 0 \in S
  <2>1. AreRounds([n \in 0..0 |-> a], 0, a, step) BY DEF AreRounds
  <2>2. QED BY <2>1
<1>2. ASSUME NEW k \in 1..L, k - 1 \in S PROVE k \in S
  <2>1. PICK g : AreRounds(g, k - 1, a, step) /\ \A n \in 0..(k - 1) : g[n] \in T BY <1>2
  <2>2. \A n \in 0..(k - 1) : g[n] = IF n = 0 THEN a ELSE step[<<n, g[n - 1]>>] BY <2>1 DEF AreRounds
  <2> DEFINE h == [n \in 0..k |-> IF n = k THEN step[<<k, g[k - 1]>>] ELSE g[n]]
  <2>3. ASSUME NEW n \in 0..k PROVE h[n] = (IF n = 0 THEN a ELSE step[<<n, h[n - 1]>>]) /\ h[n] \in T
    <3>1. CASE n = k
      <4>1. h[n] = step[<<n, g[n - 1]>>] /\ h[n - 1] = g[n - 1] /\ n - 1 \in 0..(k - 1) BY <3>1
      <4>2. QED BY <2>1, <3>1, <4>1
    <3>2. CASE n # k
      <4>1. n \in 0..(k - 1) /\ h[n] = g[n] BY <3>2
      <4>2. n # 0 => h[n - 1] = g[n - 1] BY <4>1
      <4>3. QED BY <2>1, <2>2, <4>1, <4>2
    <3>3. QED BY <3>1, <3>2
  <2>4. AreRounds(h, k, a, step) BY <2>3 DEF AreRounds
  <2>5. \A n \in 0..k : h[n] \in T BY <2>3
  <2> HIDE DEF h
  <2>6. QED BY <2>4, <2>5
<1> HIDE DEF S
<1>3. L \in S BY <1>1, <1>2, EveryRound
<1>4. QED BY <1>3 DEF S

-------------------------------------------------------------------------------
(* AlbumFromSongs: what the loops over the songs leave                         *)

\* minMax, round by round.
LEMMA WideningRounds ==
    ASSUME NEW years \in Seq(Nat), Len(years) \in Nat \ {0}
    PROVE  /\ Widening(years)[0] = <<years[1], years[1]>>
           /\ \A n \in 1..Len(years) : Widening(years)[n] = Widened(Widening(years)[n - 1], years[n])
<1> DEFINE L == Len(years)
           T == Nat \X Nat
           a == <<years[1], years[1]>>
           step == [x \in (1..L) \X T |-> Widened(x[2], years[x[1]])]
           W == Widening(years)
<1>1. \A n \in 1..L : \A x \in T : step[<<n, x>>] = Widened(x, years[n]) OBVIOUS
<1>2. \A n \in 1..L : \A x \in T : step[<<n, x>>] \in T
  <2>1. \A n \in 1..L : years[n] \in Nat OBVIOUS
  <2>2. \A x \in T, y \in Nat : Widened(x, y) \in T BY DEF Widened, MinOf, MaxOf
  <2> HIDE DEF step, T
  <2>3. QED BY <1>1, <2>1, <2>2
<1>3. a \in T OBVIOUS
<1> HIDE DEF step, T
<1>4. PICK g : AreRounds(g, L, a, step) /\ \A n \in 0..L : g[n] \in T BY <1>2, <1>3, RoundsExist
<1>5. g = [n \in 0..L |-> IF n = 0 THEN a ELSE Widened(g[n - 1], years[n])]
  <2>1. \A n \in 0..L : n # 0 => step[<<n, g[n - 1]>>] = Widened(g[n - 1], years[n])
    <3>1. \A n \in 0..L : n # 0 => n \in 1..L /\ n - 1 \in 0..L OBVIOUS
    <3>2. QED BY <1>1, <1>4, <3>1
  <2>2. QED BY <1>4, <2>1 DEF AreRounds
<1>6. W = CHOOSE f : f = [n \in 0..L |-> IF n = 0 THEN a ELSE Widened(f[n - 1], years[n])] BY DEF Widening
<1> HIDE DEF W, a
<1>7. W = [n \in 0..L |-> IF n = 0 THEN a ELSE Widened(W[n - 1], years[n])] BY <1>5, <1>6
<1>8. W[0] = a /\ \A n \in 1..L : W[n] = Widened(W[n - 1], years[n]) BY <1>7
<1>9. QED BY <1>8 DEF W, a

\* The range after n years: of those known, one is the least; one is the greatest.
IsRange(r, years, n) ==
    /\ r \in Nat \X Nat
    /\ r[1] = 0 => \A k \in 1..n : years[k] = 0
    /\ r[1] # 0 => (\E k \in 1..n : years[k] = r[1]) /\ \A k \in 1..n : years[k] # 0 => r[1] <= years[k]
    /\ (\E k \in 1..n : years[k] = r[2]) /\ \A k \in 1..n : years[k] <= r[2]

\* A round of minMax keeps the range one of the years seen so far.
LEMMA WidenedRange ==
    ASSUME NEW years \in Seq(Nat), NEW n \in 2..Len(years), NEW r, IsRange(r, years, n - 1)
    PROVE  IsRange(Widened(r, years[n]), years, n)
<1> DEFINE w == Widened(r, years[n])
<1>1. \A k \in 1..n : years[k] \in Nat /\ (k = n \/ k \in 1..(n - 1)) OBVIOUS
<1>2. 1..(n - 1) \subseteq 1..n /\ n \in 1..n OBVIOUS
<1>3. r[1] \in Nat /\ r[2] \in Nat /\ years[n] \in Nat BY <1>1, <1>2 DEF IsRange
<1>4. /\ w = <<w[1], w[2]>>
      /\ w[1] = IF r[1] = 0 THEN years[n] ELSE IF years[n] > 0 THEN MinOf(r[1], years[n]) ELSE r[1]
      /\ w[2] = MaxOf(r[2], years[n])
  BY DEF Widened
<1> HIDE DEF w
<1>5. w[1] \in Nat /\ w[2] \in Nat BY <1>3, <1>4 DEF MinOf, MaxOf
<1>6. w \in Nat \X Nat BY <1>4, <1>5
<1>p. /\ r[1] = 0 => \A k \in 1..(n - 1) : years[k] = 0
      /\ r[1] # 0 => /\ \E k \in 1..(n - 1) : years[k] = r[1]
                     /\ \A k \in 1..(n - 1) : years[k] # 0 => r[1] <= years[k]
      /\ \E k \in 1..(n - 1) : years[k] = r[2]
      /\ \A k \in 1..(n - 1) : years[k] <= r[2]
  BY DEF IsRange
<1>7. (\E k \in 1..n : years[k] = w[2]) /\ \A k \in 1..n : years[k] <= w[2]
  <2>1. CASE r[2] > years[n]
    <3>1. w[2] = r[2] BY <1>4, <2>1 DEF MaxOf
    <3>2. QED BY <1>1, <1>2, <1>3, <1>p, <2>1, <3>1
  <2>2. CASE ~(r[2] > years[n])
    <3>1. w[2] = years[n] BY <1>4, <2>2 DEF MaxOf
    <3>2. ASSUME NEW k \in 1..n PROVE years[k] <= years[n]
      <4>1. CASE k \in 1..(n - 1)
        <5>1. years[k] <= r[2] BY <1>p, <4>1
        <5>2. QED BY <1>1, <1>3, <2>2, <5>1
      <4>2. QED BY <1>1, <1>3, <4>1
    <3>3. QED BY <1>2, <3>1, <3>2
  <2>3. QED BY <2>1, <2>2
<1>8. w[1] = 0 => \A k \in 1..n : years[k] = 0 BY <1>1, <1>2, <1>3, <1>4, <1>p DEF MinOf
<1>9. w[1] # 0 => (\E k \in 1..n : years[k] = w[1]) /\ \A k \in 1..n : years[k] # 0 => w[1] <= years[k]
  <2> SUFFICES ASSUME w[1] # 0
               PROVE  (\E k \in 1..n : years[k] = w[1]) /\ \A k \in 1..n : years[k] # 0 => w[1] <= years[k]
    OBVIOUS
  <2>1. CASE r[1] = 0 BY <1>1, <1>2, <1>3, <1>4, <1>p, <2>1
  <2>2. CASE r[1] # 0 /\ years[n] = 0 BY <1>1, <1>2, <1>3, <1>4, <1>p, <2>2
  <2>3. CASE r[1] # 0 /\ years[n] # 0
    <3>1. w[1] = MinOf(r[1], years[n]) /\ w[1] \in {r[1], years[n]} /\ w[1] <= r[1] /\ w[1] <= years[n]
      BY <1>3, <1>4, <2>3 DEF MinOf
    <3>2. \E k \in 1..n : years[k] = w[1] BY <1>2, <1>p, <2>3, <3>1
    <3>3. ASSUME NEW k \in 1..n, years[k] # 0 PROVE w[1] <= years[k]
      <4>1. CASE k = n BY <3>1, <4>1
      <4>2. CASE k \in 1..(n - 1)
        <5>1. r[1] <= years[k] BY <1>p, <2>3, <3>3, <4>2
        <5>2. QED BY <1>1, <1>3, <1>5, <3>1, <5>1
      <4>3. QED BY <1>1, <4>1, <4>2
    <3>4. QED BY <3>2, <3>3
  <2>4. QED BY <2>1, <2>2, <2>3
<1>10. QED BY <1>6, <1>7, <1>8, <1>9 DEF IsRange, w

\* minMax of an album's years is their range.
LEMMA MinMaxIsRange ==
    ASSUME NEW years \in Seq(Nat), Len(years) \in Nat \ {0}
    PROVE  IsRange(minMax(years), years, Len(years))
<1> DEFINE L == Len(years)
           W == Widening(years)
           S == {n \in 0..L : n # 0 => IsRange(W[n], years, n)}
<1>0. L \in Nat \ {0} OBVIOUS
<1>1. /\ W[0] = <<years[1], years[1]>>
      /\ \A n \in 1..L : W[n] = Widened(W[n - 1], years[n])
  BY WideningRounds
<1> HIDE DEF W
<1>2. 0 \in S BY <1>0
<1>3. ASSUME NEW n \in 1..L, n - 1 \in S PROVE n \in S
  <2>1. CASE n = 1
    <3>1. years[1] \in Nat OBVIOUS
    <3>2. W[1] = <<years[1], years[1]>>
      <4>0. 1 \in 1..L /\ 1 - 1 = 0 BY <1>0
      <4>1. W[1] = Widened(<<years[1], years[1]>>, years[1]) BY <1>1, <4>0
      <4>2. QED BY <3>1, <4>1 DEF Widened, MinOf, MaxOf
    <3>3. IsRange(W[1], years, 1) BY <3>1, <3>2 DEF IsRange
    <3>4. QED BY <2>1, <3>3
  <2>2. CASE n # 1
    <3>1. n \in 2..L /\ n - 1 # 0 BY <2>2
    <3>2. IsRange(W[n - 1], years, n - 1) BY <1>3, <3>1
    <3>3. IsRange(W[n], years, n) BY <1>1, <3>1, <3>2, WidenedRange
    <3>4. QED BY <3>3
  <2>3. QED BY <2>1, <2>2
<1> HIDE DEF S, L
<1>4. L \in S
  <2>1. L \in Nat /\ L \in 0..L BY <1>0
  <2>2. \A n \in 1..L : n - 1 \in S => n \in S BY <1>3
  <2>3. \A n \in 0..L : n \in S BY <1>2, <2>1, <2>2, EveryRound
  <2>4. QED BY <2>1, <2>3
<1>5. QED BY <1>0, <1>4 DEF S, L, W, minMax

\* The least known and the greatest of some numbers.
LEMMA TheLowest == ASSUME NEW S, S \subseteq Nat, NEW x \in S, \A y \in S : x <= y PROVE Lowest(S) = x
<1> DEFINE l == Lowest(S)
<1>1. l \in S /\ \A y \in S : l <= y BY DEF Lowest
<1> HIDE DEF l
<1>2. l = x BY <1>1
<1>3. QED BY <1>2 DEF l

\* A greatest member is the greatest.
LEMMA TheGreatest == ASSUME NEW S, S \subseteq Nat, NEW x \in S, \A y \in S : y <= x PROVE Greatest(S) = x
<1> DEFINE l == Greatest(S)
<1>1. l \in S /\ \A y \in S : y <= l BY DEF Greatest
<1> HIDE DEF l
<1>2. l = x BY <1>1
<1>3. QED BY <1>2 DEF l

\* A range of all years is the least known and the greatest.
LEMMA RangeIsMeant ==
    ASSUME NEW items \in Seq(Nat), NEW n \in Nat, n = Len(items), NEW r, IsRange(r, items, n)
    PROVE  r = <<LeastKnown(Range(items)), Greatest(Range(items))>>
<1> DEFINE R == Range(items)
<1>1. R \subseteq Nat /\ \A v : v \in R <=> \E k \in 1..n : items[k] = v BY DEF Range
<1> HIDE DEF R
<1>2. r \in Nat \X Nat BY DEF IsRange
<1>3. r[2] \in R /\ \A v \in R : v <= r[2] BY <1>1 DEF IsRange
<1>4. Greatest(R) = r[2] BY <1>1, <1>3, TheGreatest
<1>5. CASE r[1] = 0
  <2>1. R \subseteq {0} BY <1>1, <1>5 DEF IsRange
  <2>2. LeastKnown(R) = 0 BY <2>1 DEF LeastKnown
  <2>3. QED BY <1>2, <1>4, <1>5, <2>2 DEF R
<1>6. CASE r[1] # 0
  <2>1. r[1] \in R \ {0} /\ \A v \in R \ {0} : r[1] <= v BY <1>1, <1>6 DEF IsRange
  <2>2. R \ {0} \subseteq Nat /\ ~(R \subseteq {0}) BY <1>1, <2>1
  <2>3. Lowest(R \ {0}) = r[1] BY <2>1, <2>2, TheLowest
  <2>4. LeastKnown(R) = r[1] BY <2>2, <2>3 DEF LeastKnown
  <2>5. QED BY <1>2, <1>4, <2>4 DEF R
<1>7. QED BY <1>5, <1>6

\* The oldest time that is known after n of them.
IsOldest(t, times, n) ==
    /\ t \in Nat
    /\ t = 0 => \A k \in 1..n : times[k] = 0
    /\ t # 0 => (\E k \in 1..n : times[k] = t) /\ \A k \in 1..n : times[k] # 0 => t <= times[k]

\* The loop over the times of birth, round by round.
LEMMA AgeingRounds ==
    ASSUME NEW times \in Seq(Nat)
    PROVE  /\ Ageing(times)[0] = 0
           /\ \A n \in 1..Len(times) : Ageing(times)[n] = older(Ageing(times)[n - 1], times[n])
<1> DEFINE L == Len(times)
           step == [x \in (1..L) \X Nat |-> older(x[2], times[x[1]])]
           A == Ageing(times)
<1>0. L \in Nat OBVIOUS
<1>1. \A n \in 1..L : \A x \in Nat : step[<<n, x>>] = older(x, times[n]) OBVIOUS
<1>2. \A n \in 1..L : \A x \in Nat : step[<<n, x>>] \in Nat
  <2>1. \A n \in 1..L : times[n] \in Nat OBVIOUS
  <2> HIDE DEF step
  <2>2. QED BY <1>1, <2>1 DEF older, MinOf
<1> HIDE DEF step
<1>4. PICK g : AreRounds(g, L, 0, step) /\ \A n \in 0..L : g[n] \in Nat BY <1>0, <1>2, RoundsExist
<1>5. g = [n \in 0..L |-> IF n = 0 THEN 0 ELSE older(g[n - 1], times[n])]
  <2>1. \A n \in 0..L : n # 0 => step[<<n, g[n - 1]>>] = older(g[n - 1], times[n])
    <3>1. \A n \in 0..L : n # 0 => n \in 1..L /\ n - 1 \in 0..L OBVIOUS
    <3>2. QED BY <1>1, <1>4, <3>1
  <2>2. QED BY <1>4, <2>1 DEF AreRounds
<1>6. A = CHOOSE f : f = [n \in 0..L |-> IF n = 0 THEN 0 ELSE older(f[n - 1], times[n])] BY DEF Ageing
<1> HIDE DEF A
<1>7. A = [n \in 0..L |-> IF n = 0 THEN 0 ELSE older(A[n - 1], times[n])] BY <1>5, <1>6
<1>8. A[0] = 0 /\ \A n \in 1..L : A[n] = older(A[n - 1], times[n]) BY <1>0, <1>7
<1>9. QED BY <1>8 DEF A

\* A round of it keeps the oldest time seen so far.
LEMMA OlderIsOldest ==
    ASSUME NEW times \in Seq(Nat), NEW n \in 1..Len(times), NEW t, IsOldest(t, times, n - 1)
    PROVE  IsOldest(older(t, times[n]), times, n)
<1> DEFINE o == older(t, times[n])
<1>1. \A k \in 1..n : times[k] \in Nat /\ (k = n \/ k \in 1..(n - 1)) OBVIOUS
<1>2. 1..(n - 1) \subseteq 1..n /\ n \in 1..n OBVIOUS
<1>3. t \in Nat /\ times[n] \in Nat BY <1>1, <1>2 DEF IsOldest
<1>4. /\ o = IF t = 0 THEN times[n] ELSE IF times[n] = 0 THEN t ELSE MinOf(t, times[n])
      /\ t = 0 => \A k \in 1..(n - 1) : times[k] = 0
      /\ t # 0 => /\ \E k \in 1..(n - 1) : times[k] = t
                  /\ \A k \in 1..(n - 1) : times[k] # 0 => t <= times[k]
  BY DEF older, IsOldest
<1> HIDE DEF o
<1>5. o \in Nat BY <1>3, <1>4 DEF MinOf
<1>6. o = 0 => \A k \in 1..n : times[k] = 0 BY <1>1, <1>3, <1>4 DEF MinOf
<1>7. CASE t = 0 \/ times[n] = 0 BY <1>1, <1>2, <1>3, <1>4, <1>5, <1>6, <1>7 DEF IsOldest, o
<1>8. CASE t # 0 /\ times[n] # 0
  <2>1. o \in {t, times[n]} /\ o <= t /\ o <= times[n] /\ o # 0 BY <1>3, <1>4, <1>8 DEF MinOf
  <2>2. \E k \in 1..n : times[k] = o BY <1>2, <1>4, <1>8, <2>1
  <2>3. ASSUME NEW k \in 1..n, times[k] # 0 PROVE o <= times[k]
    <3>1. CASE k = n BY <2>1, <3>1
    <3>2. CASE k \in 1..(n - 1)
      <4>1. t <= times[k] BY <1>4, <1>8, <2>3, <3>2
      <4>2. QED BY <1>1, <1>3, <1>5, <2>1, <4>1
    <3>3. QED BY <1>1, <3>1, <3>2
  <2>4. QED BY <1>5, <2>1, <2>2, <2>3 DEF IsOldest, o
<1>9. QED BY <1>7, <1>8

\* What it leaves is the oldest known time.
LEMMA AgeingIsMeant ==
    ASSUME NEW times \in Seq(Nat), NEW L \in Nat, L = Len(times)
    PROVE  Ageing(times)[L] = LeastKnown(Range(times))
<1> DEFINE A == Ageing(times)
           S == {n \in 0..L : IsOldest(A[n], times, n)}
           R == Range(times)
<1>1. A[0] = 0 /\ \A n \in 1..L : A[n] = older(A[n - 1], times[n]) BY AgeingRounds
<1> HIDE DEF A
<1>2. 0 \in S BY <1>1 DEF IsOldest
<1>3. \A n \in 1..L : n - 1 \in S => n \in S BY <1>1, OlderIsOldest
<1> HIDE DEF S
<1>4. \A n \in 0..L : n \in S BY <1>2, <1>3, EveryRound
<1>5. IsOldest(A[L], times, L) BY <1>4 DEF S
<1>6. R \subseteq Nat /\ \A v : v \in R <=> \E k \in 1..L : times[k] = v BY DEF Range
<1> HIDE DEF R
<1>7. CASE A[L] = 0
  <2>1. R \subseteq {0} BY <1>5, <1>6, <1>7 DEF IsOldest
  <2>2. QED BY <1>7, <2>1 DEF LeastKnown, A, R
<1>8. CASE A[L] # 0
  <2>1. A[L] \in R \ {0} /\ \A v \in R \ {0} : A[L] <= v BY <1>5, <1>6, <1>8 DEF IsOldest
  <2>2. R \ {0} \subseteq Nat /\ ~(R \subseteq {0}) BY <1>6, <2>1
  <2>3. Lowest(R \ {0}) = A[L] BY <2>1, <2>2, TheLowest
  <2>4. QED BY <2>2, <2>3 DEF LeastKnown, A, R
<1>9. QED BY <1>7, <1>8

\* What n songs warn of.
Warnings == {NoText, "c", "e"}
IsWarning(w, states, n) ==
    /\ w \in Warnings
    /\ w = "e" <=> \E k \in 1..n : states[k] = "e"
    /\ w = "c" <=> (\E k \in 1..n : states[k] = "c") /\ ~\E k \in 1..n : states[k] = "e"

\* No warning differs from both warnings.
LEMMA TextsDiffer == NoText # "c" /\ NoText # "e" BY DEF NoText

\* The loop over explicit statuses, round by round.
LEMMA WarningRounds ==
    ASSUME NEW states \in Seq(Warnings)
    PROVE  /\ Warning(states)[0] = NoText
           /\ \A n \in 1..Len(states) : Warning(states)[n] = Explicit(Warning(states)[n - 1], states[n])
<1> DEFINE L == Len(states)
           T == Warnings
           step == [x \in (1..L) \X T |-> Explicit(x[2], states[x[1]])]
           W == Warning(states)
<1>0. L \in Nat /\ NoText \in T BY DEF Warnings
<1>1. \A n \in 1..L : \A x \in T : step[<<n, x>>] = Explicit(x, states[n]) OBVIOUS
<1>2. \A n \in 1..L : \A x \in T : step[<<n, x>>] \in T
  <2>1. "c" \in T /\ "e" \in T BY DEF Warnings
  <2> HIDE DEF step, T
  <2>2. QED BY <1>1, <2>1 DEF Explicit
<1> HIDE DEF step, T
<1>4. PICK g : AreRounds(g, L, NoText, step) /\ \A n \in 0..L : g[n] \in T BY <1>0, <1>2, RoundsExist
<1>5. g = [n \in 0..L |-> IF n = 0 THEN NoText ELSE Explicit(g[n - 1], states[n])]
  <2>1. \A n \in 0..L : n # 0 => step[<<n, g[n - 1]>>] = Explicit(g[n - 1], states[n])
    <3>1. \A n \in 0..L : n # 0 => n \in 1..L /\ n - 1 \in 0..L OBVIOUS
    <3>2. QED BY <1>1, <1>4, <3>1
  <2>2. QED BY <1>4, <2>1 DEF AreRounds
<1>6. W = CHOOSE f : f = [n \in 0..L |-> IF n = 0 THEN NoText ELSE Explicit(f[n - 1], states[n])] BY DEF Warning
<1> HIDE DEF W
<1>7. W = [n \in 0..L |-> IF n = 0 THEN NoText ELSE Explicit(W[n - 1], states[n])] BY <1>5, <1>6
<1>8. W[0] = NoText /\ \A n \in 1..L : W[n] = Explicit(W[n - 1], states[n]) BY <1>0, <1>7
<1>9. QED BY <1>8 DEF W

\* A round of it keeps what the songs so far warn of.
LEMMA ExplicitIsWarning ==
    ASSUME NEW states \in Seq(Warnings), NEW n \in 1..Len(states), NEW w, IsWarning(w, states, n - 1)
    PROVE  IsWarning(Explicit(w, states[n]), states, n)
<1> DEFINE x == Explicit(w, states[n])
           some(s, m) == \E k \in 1..m : states[k] = s
<1>1. \A s : some(s, n) <=> some(s, n - 1) \/ states[n] = s
  <2>1. \A k \in 1..n : k = n \/ k \in 1..(n - 1) OBVIOUS
  <2>2. 1..(n - 1) \subseteq 1..n /\ n \in 1..n OBVIOUS
  <2>3. QED BY <2>1, <2>2
<1>2. /\ w \in Warnings
      /\ w = "e" <=> some("e", n - 1)
      /\ w = "c" <=> some("c", n - 1) /\ ~some("e", n - 1)
  BY DEF IsWarning
<1>3. x = IF states[n] = "c" /\ w # "e" THEN "c" ELSE IF states[n] = "e" THEN "e" ELSE w BY DEF Explicit
<1>4. "c" # "e" OBVIOUS
<1> HIDE DEF x, some
<1>5. x \in Warnings BY <1>2, <1>3 DEF Warnings
<1>6. x = "e" <=> some("e", n) BY <1>1, <1>2, <1>3, <1>4
<1>7. x = "c" <=> some("c", n) /\ ~some("e", n) BY <1>1, <1>2, <1>3, <1>4
<1>8. QED BY <1>5, <1>6, <1>7 DEF IsWarning, x, some

\* What it leaves: one explicit song makes the album explicit, else one clean version makes it clean.
LEMMA WarningIsMeant ==
    ASSUME NEW states \in Seq(Warnings), NEW L \in Nat, L = Len(states)
    PROVE  Warning(states)[L] = IF "e" \in Range(states) THEN "e" ELSE IF "c" \in Range(states) THEN "c" ELSE NoText
<1> DEFINE W == Warning(states)
           S == {n \in 0..L : IsWarning(W[n], states, n)}
<1>1. W[0] = NoText /\ \A n \in 1..L : W[n] = Explicit(W[n - 1], states[n]) BY WarningRounds
<1> HIDE DEF W
<1>2. 0 \in S BY <1>1, TextsDiffer DEF IsWarning, Warnings
<1>3. \A n \in 1..L : n - 1 \in S => n \in S BY <1>1, ExplicitIsWarning
<1> HIDE DEF S
<1>4. \A n \in 0..L : n \in S BY <1>2, <1>3, EveryRound
<1>5. IsWarning(W[L], states, L) BY <1>4 DEF S
<1>6. \A s : s \in Range(states) <=> \E k \in 1..L : states[k] = s BY DEF Range
<1>7. /\ W[L] \in Warnings
      /\ W[L] = "e" <=> "e" \in Range(states)
      /\ W[L] = "c" <=> "c" \in Range(states) /\ "e" \notin Range(states)
  BY <1>5, <1>6 DEF IsWarning
<1>8. QED BY <1>7 DEF W, Warnings

\* The cover after n songs: of the lowest disc that has one, the first song's.
HasCover(s) == s.cover /\ s.disc > 0
IsCover(c, songs, order, n) ==
    /\ c \in [path : Nat, disc : Nat]
    /\ c.disc = 0 => \A k \in 1..n : ~HasCover(songs[order[k]])
    /\ c.disc # 0 => /\ \E k \in 1..n : HasCover(songs[order[k]]) /\ songs[order[k]].disc = c.disc /\ order[k] = c.path
                     /\ \A k \in 1..n : HasCover(songs[order[k]]) =>
                          /\ c.disc <= songs[order[k]].disc
                          /\ songs[order[k]].disc = c.disc => c.path <= order[k]

\* The songs of an album, and an order in which each of them comes.
AreSongs(songs) == DOMAIN songs \subseteq Paths /\ songs \in [DOMAIN songs -> Songs]
IsOrder(order, songs) == order \in Seq(DOMAIN songs) /\ Len(order) \in Nat \ {0} /\ Range(order) = DOMAIN songs

\* What a song met in the loop may be.
LEMMA SongTypes ==
    ASSUME NEW songs, AreSongs(songs), NEW order, IsOrder(order, songs)
    PROVE  \A k \in 1..Len(order) :
             /\ order[k] \in DOMAIN songs /\ order[k] \in Nat \ {0} /\ songs[order[k]] \in Songs
             /\ songs[order[k]].disc \in Nat /\ songs[order[k]].cover \in BOOLEAN
<1>1. \A k \in 1..Len(order) : order[k] \in DOMAIN songs BY DEF IsOrder
<1>2. \A p \in DOMAIN songs : p \in Nat \ {0} /\ songs[p] \in Songs BY AlbumAssumption DEF AlbumAssumption, AreSongs
<1>3. \A s \in Songs : s.disc \in Nat /\ s.cover \in BOOLEAN BY DEF Songs
<1>4. QED BY <1>1, <1>2, <1>3

\* The loop over covers, round by round.
LEMMA CoveringRounds ==
    ASSUME NEW songs, AreSongs(songs), NEW order, IsOrder(order, songs)
    PROVE  /\ Covering(songs, order)[0] = [path |-> 0, disc |-> 0]
           /\ \A n \in 1..Len(order) :
                Covering(songs, order)[n] = firstArtPath(Covering(songs, order)[n - 1], order[n], songs[order[n]])
<1> DEFINE L == Len(order)
           T == [path : Nat, disc : Nat]
           a == [path |-> 0, disc |-> 0]
           step == [x \in (1..L) \X T |-> firstArtPath(x[2], order[x[1]], songs[order[x[1]]])]
           C == Covering(songs, order)
<1>0. L \in Nat /\ a \in T BY DEF IsOrder
<1>1. \A n \in 1..L : \A x \in T : step[<<n, x>>] = firstArtPath(x, order[n], songs[order[n]]) OBVIOUS
<1>2. \A n \in 1..L : \A x \in T : step[<<n, x>>] \in T
  <2>1. \A n \in 1..L : [path |-> order[n], disc |-> songs[order[n]].disc] \in T BY SongTypes
  <2> HIDE DEF step, T
  <2>2. QED BY <1>1, <2>1 DEF firstArtPath
<1> HIDE DEF step, T, a
<1>4. PICK g : AreRounds(g, L, a, step) /\ \A n \in 0..L : g[n] \in T BY <1>0, <1>2, RoundsExist
<1>5. g = [n \in 0..L |-> IF n = 0 THEN a ELSE firstArtPath(g[n - 1], order[n], songs[order[n]])]
  <2>1. \A n \in 0..L : n # 0 => step[<<n, g[n - 1]>>] = firstArtPath(g[n - 1], order[n], songs[order[n]])
    <3>1. \A n \in 0..L : n # 0 => n \in 1..L /\ n - 1 \in 0..L BY <1>0
    <3>2. QED BY <1>1, <1>4, <3>1
  <2>2. QED BY <1>4, <2>1 DEF AreRounds
<1>6. C = CHOOSE f : f = [n \in 0..L |-> IF n = 0 THEN a ELSE firstArtPath(f[n - 1], order[n], songs[order[n]])]
  BY DEF Covering, a
<1> HIDE DEF C
<1>7. C = [n \in 0..L |-> IF n = 0 THEN a ELSE firstArtPath(C[n - 1], order[n], songs[order[n]])] BY <1>5, <1>6
<1>8. C[0] = a /\ \A n \in 1..L : C[n] = firstArtPath(C[n - 1], order[n], songs[order[n]]) BY <1>0, <1>7
<1>9. QED BY <1>8 DEF C, a

\* A round of it keeps the cover of the songs so far, taken from this song or not.
LEMMA CoverStep ==
    ASSUME NEW songs, AreSongs(songs), NEW order, IsOrder(order, songs), NEW n \in 1..Len(order),
           NEW c, IsCover(c, songs, order, n - 1)
    PROVE  IsCover(firstArtPath(c, order[n], songs[order[n]]), songs, order, n)
<1> DEFINE s(k) == songs[order[k]]
           x == firstArtPath(c, order[n], s(n))
<1>0. Len(order) \in Nat BY DEF IsOrder
<1>1. \A k \in 1..n : k = n \/ k \in 1..(n - 1) BY <1>0
<1>2. 1..(n - 1) \subseteq 1..n /\ n \in 1..n BY <1>0
<1>3. \A k \in 1..n : order[k] \in Nat \ {0} /\ s(k).disc \in Nat /\ s(k).cover \in BOOLEAN BY <1>0, SongTypes
<1>4. /\ c \in [path : Nat, disc : Nat]
      /\ c.disc = 0 => \A k \in 1..(n - 1) : ~HasCover(s(k))
      /\ c.disc # 0 => /\ \E k \in 1..(n - 1) : HasCover(s(k)) /\ s(k).disc = c.disc /\ order[k] = c.path
                       /\ \A k \in 1..(n - 1) : HasCover(s(k)) =>
                            /\ c.disc <= s(k).disc
                            /\ s(k).disc = c.disc => c.path <= order[k]
  BY DEF IsCover
<1>5. c.path \in Nat /\ c.disc \in Nat BY <1>4
<1> HIDE DEF s
<1>6. c.disc # 0 => c.path # 0
  <2>1. SUFFICES ASSUME c.disc # 0 PROVE c.path # 0 OBVIOUS
  <2>2. PICK k \in 1..(n - 1) : order[k] = c.path BY <1>4, <2>1
  <2>3. QED BY <1>2, <1>3, <2>2
<1> DEFINE taken == /\ s(n).cover
                    /\ \/ c.disc = 0
                       \/ s(n).disc < c.disc /\ s(n).disc > 0
                       \/ s(n).disc = c.disc /\ (order[n] < c.path \/ c.path = 0)
<1>7. CASE taken
  <2>1. x = [path |-> order[n], disc |-> s(n).disc] BY <1>7 DEF firstArtPath
  <2>2. x.path = order[n] /\ x.disc = s(n).disc /\ x \in [path : Nat, disc : Nat] BY <1>2, <1>3, <2>1
  <2> HIDE DEF x
  <2>3. x.disc = 0 => \A k \in 1..n : ~HasCover(s(k))
    <3>1. SUFFICES ASSUME x.disc = 0, NEW k \in 1..n PROVE ~HasCover(s(k)) OBVIOUS
    <3>2. s(n).disc = 0 /\ c.disc = 0 BY <1>3, <1>5, <1>7, <2>2, <3>1
    <3>3. QED BY <1>1, <1>4, <3>2 DEF HasCover
  <2>4. x.disc # 0 => HasCover(s(n)) BY <1>2, <1>3, <1>7, <2>2 DEF HasCover
  <2>5. ASSUME x.disc # 0, NEW k \in 1..n, HasCover(s(k))
        PROVE  x.disc <= s(k).disc /\ (s(k).disc = x.disc => x.path <= order[k])
    <3>1. CASE k = n BY <1>2, <1>3, <2>2, <3>1
    <3>2. CASE k \in 1..(n - 1)
      <4>1. c.disc # 0 /\ c.disc <= s(k).disc /\ (s(k).disc = c.disc => c.path <= order[k]) BY <1>4, <2>5, <3>2
      <4>2. s(n).disc < c.disc \/ (s(n).disc = c.disc /\ order[n] < c.path) BY <1>6, <1>7, <4>1
      <4>3. QED BY <1>2, <1>3, <1>5, <2>2, <4>1, <4>2
    <3>3. QED BY <1>1, <3>1, <3>2
  <2>6. IsCover(x, songs, order, n) BY <1>2, <2>2, <2>3, <2>4, <2>5 DEF IsCover, s
  <2>7. QED BY <2>6 DEF x, s
<1>8. CASE ~taken
  <2>1. x = c BY <1>8 DEF firstArtPath
  <2>2. c.disc = 0 => ~HasCover(s(n)) BY <1>2, <1>3, <1>8 DEF HasCover
  <2>3. c.disc = 0 => \A k \in 1..n : ~HasCover(s(k)) BY <1>1, <1>4, <2>2
  <2>4. ASSUME c.disc # 0, HasCover(s(n))
        PROVE  c.disc <= s(n).disc /\ (s(n).disc = c.disc => c.path <= order[n])
    BY <1>2, <1>3, <1>5, <1>6, <1>8, <2>4 DEF HasCover
  <2>5. ASSUME c.disc # 0, NEW k \in 1..n, HasCover(s(k))
        PROVE  c.disc <= s(k).disc /\ (s(k).disc = c.disc => c.path <= order[k])
    BY <1>1, <1>4, <2>4, <2>5
  <2>6. c.disc # 0 => \E k \in 1..n : HasCover(s(k)) /\ s(k).disc = c.disc /\ order[k] = c.path BY <1>2, <1>4
  <2>7. IsCover(c, songs, order, n) BY <1>4, <2>3, <2>5, <2>6 DEF IsCover, s
  <2>8. QED BY <2>1, <2>7 DEF s
<1>9. QED BY <1>7, <1>8

\* What it leaves is the cover of the lowest numbered disc, of its first song.
LEMMA CoverIsMeant ==
    ASSUME NEW songs, AreSongs(songs), NEW order, IsOrder(order, songs)
    PROVE  LET covers == {p \in DOMAIN songs : songs[p].cover /\ songs[p].disc > 0}
               lowest == Lowest({songs[p].disc : p \in covers})
           IN  covers # {} => Covering(songs, order)[Len(order)].path = Lowest({p \in covers : songs[p].disc = lowest})
<1> DEFINE L == Len(order)
           C == Covering(songs, order)
           S == {n \in 0..L : IsCover(C[n], songs, order, n)}
           covers == {p \in DOMAIN songs : songs[p].cover /\ songs[p].disc > 0}
           discs == {songs[p].disc : p \in covers}
           firsts == {p \in covers : songs[p].disc = Lowest(discs)}
           c == C[L]
<1> SUFFICES ASSUME covers # {} PROVE c.path = Lowest(firsts) OBVIOUS
<1>0. L \in Nat BY DEF IsOrder
<1>1. /\ C[0] = [path |-> 0, disc |-> 0]
      /\ \A n \in 1..L : C[n] = firstArtPath(C[n - 1], order[n], songs[order[n]])
  BY CoveringRounds
<1> HIDE DEF C
<1>2. 0 \in S BY <1>0, <1>1 DEF IsCover
<1>3. \A n \in 1..L : n - 1 \in S => n \in S BY <1>1, CoverStep
<1> HIDE DEF S
<1>4. \A n \in 0..L : n \in S BY <1>0, <1>2, <1>3, EveryRound
<1>5. IsCover(c, songs, order, L) BY <1>0, <1>4 DEF S
<1>6. \A p : p \in DOMAIN songs <=> \E k \in 1..L : order[k] = p
  <2>1. DOMAIN order = 1..L BY DEF IsOrder
  <2>2. QED BY <2>1 DEF IsOrder, Range
<1>7. /\ \A p \in covers : p \in DOMAIN songs /\ HasCover(songs[p])
      /\ \A p \in DOMAIN songs : HasCover(songs[p]) => p \in covers
  BY DEF HasCover
<1>8. \A p \in covers : p \in Nat /\ songs[p].disc \in Nat
  <2>1. \A k \in 1..L : order[k] \in Nat /\ songs[order[k]].disc \in Nat BY SongTypes
  <2>2. QED BY <1>6, <1>7, <2>1
<1> HIDE DEF covers, c
<1>9. c.disc # 0 BY <1>5, <1>6, <1>7 DEF IsCover
<1>10. c.path \in covers /\ songs[c.path].disc = c.disc BY <1>5, <1>6, <1>7, <1>9 DEF IsCover
<1>11. \A p \in covers : c.disc <= songs[p].disc /\ (songs[p].disc = c.disc => c.path <= p)
  BY <1>5, <1>6, <1>7, <1>9 DEF IsCover
<1>12. discs \subseteq Nat /\ c.disc \in discs /\ \A d \in discs : c.disc <= d BY <1>8, <1>10, <1>11
<1>13. Lowest(discs) = c.disc BY <1>12, TheLowest
<1> HIDE DEF discs
<1>14. firsts \subseteq Nat /\ c.path \in firsts /\ \A p \in firsts : c.path <= p BY <1>8, <1>10, <1>11, <1>13
<1> HIDE DEF firsts
<1>15. QED BY <1>14, TheLowest

\* The songs by path: the number of those before a song is its place.
Under(S, i) == {j \in S : j < i}

\* The numbers of members below a member are different numbers less than their count.
LEMMA RankFacts ==
    ASSUME NEW S, IsFiniteSet(S), \A i \in S : i \in Int
    PROVE  /\ Cardinality(S) \in Nat
           /\ \A i \in S : Cardinality(Under(S, i)) \in 0..(Cardinality(S) - 1)
           /\ \A i, j \in S : Cardinality(Under(S, i)) = Cardinality(Under(S, j)) => i = j
<1>1. Cardinality(S) \in Nat BY FS_CardinalityType
<1>2. ASSUME NEW i \in S PROVE IsFiniteSet(Under(S, i)) /\ Cardinality(Under(S, i)) \in 0..(Cardinality(S) - 1)
  <2>1. Under(S, i) \subseteq S /\ i \notin Under(S, i) BY DEF Under
  <2>2. IsFiniteSet(Under(S, i)) /\ Cardinality(Under(S, i)) <= Cardinality(S) BY <2>1, FS_Subset
  <2>3. Cardinality(Under(S, i)) # Cardinality(S) BY <2>1, FS_Subset
  <2>4. Cardinality(Under(S, i)) \in Nat BY <2>2, FS_CardinalityType
  <2>5. QED BY <1>1, <2>2, <2>3, <2>4
<1>3. ASSUME NEW i \in S, NEW j \in S, i < j PROVE Cardinality(Under(S, i)) # Cardinality(Under(S, j))
  <2>1. Under(S, i) \subseteq Under(S, j)
    <3>1. \A k \in S : k < i => k < j BY <1>3
    <3>2. QED BY <3>1 DEF Under
  <2>2. i \in Under(S, j) /\ i \notin Under(S, i) BY <1>3 DEF Under
  <2>3. QED BY <1>2, <2>1, <2>2, FS_Subset
<1>4. ASSUME NEW i \in S, NEW j \in S, Cardinality(Under(S, i)) = Cardinality(Under(S, j)) PROVE i = j
  <2>1. i < j \/ j < i \/ i = j OBVIOUS
  <2>2. QED BY <1>3, <1>4, <2>1
<1>5. QED BY <1>1, <1>2, <1>4

\* Sorting a listing by path yields every song of the album.
LEMMA SortedIsOrder ==
    ASSUME NEW songs, AreSongs(songs), DOMAIN songs # {}, NEW given \in Listings(songs)
    PROVE  IsOrder(Sorted(songs, given), songs)
<1> DEFINE D == DOMAIN songs
           c == Cardinality(D)
           order == Sorted(songs, given)
           place == [p \in D |-> Cardinality(Under(D, p)) + 1]
<1>1. IsFiniteSet(D) /\ \A p \in D : p \in Int BY AlbumAssumption, FS_Subset DEF AlbumAssumption, AreSongs
<1>2. c \in Nat /\ c # 0 BY <1>1, FS_CardinalityType, FS_EmptySet
<1>3. DOMAIN given = 1..c BY DEF Listings
<1>4. \A p \in D : Cardinality(Under(D, p)) \in 0..(c - 1) BY <1>1, RankFacts
<1>u. \A p \in D : Under(D, p) = {q \in D : q < p} BY DEF Under
<1> HIDE DEF c
<1>p. \A p \in D : place[p] = Cardinality(Under(D, p)) + 1 OBVIOUS
<1>5. place \in [D -> 1..c]
  <2>1. \A p \in D : Cardinality(Under(D, p)) + 1 \in 1..c BY <1>2, <1>4
  <2>2. QED BY <2>1
<1>6. \A p, q \in D : place[p] = place[q] => p = q
  <2>1. \A p, q \in D : place[p] = place[q] => Cardinality(Under(D, p)) = Cardinality(Under(D, q)) BY <1>4, <1>p
  <2> HIDE DEF place
  <2>2. QED BY <1>1, <2>1, RankFacts
<1> HIDE DEF place
<1>7. place \in Injection(D, 1..c) BY <1>5, <1>6 DEF Injection, IsInjective
<1>8. IsFiniteSet(1..c) /\ Cardinality(1..c) = c BY <1>2, FS_Interval
<1>9. place \in Surjection(D, 1..c) BY <1>1, <1>7, <1>8, FS_Injection DEF c
<1>10. order = [n \in 1..c |-> CHOOSE p \in D : Cardinality({q \in D : q < p}) = n - 1] BY <1>3 DEF Sorted, c
<1>11. ASSUME NEW n \in 1..c PROVE order[n] \in D /\ place[order[n]] = n
  <2>1. PICK p \in D : place[p] = n BY <1>9 DEF Surjection
  <2>2. Cardinality({q \in D : q < p}) = n - 1
    <3>1. Cardinality(Under(D, p)) + 1 = n /\ Cardinality(Under(D, p)) \in Int BY <1>4, <1>p, <2>1
    <3>2. Cardinality(Under(D, p)) = n - 1 BY <3>1
    <3>3. QED BY <1>u, <3>2
  <2> HIDE DEF order
  <2>3. order[n] = CHOOSE x \in D : Cardinality({q \in D : q < x}) = n - 1 BY <1>10
  <2>4. order[n] \in D /\ Cardinality({q \in D : q < order[n]}) = n - 1 BY <2>2, <2>3
  <2>5. place[order[n]] = (n - 1) + 1 BY <1>p, <1>u, <2>4
  <2>6. QED BY <2>4, <2>5
<1>o. DOMAIN order = 1..c BY <1>10
<1> HIDE DEF order
<1>12. order \in Seq(D) /\ Len(order) = c
  <2>1. order \in [1..c -> D] BY <1>10, <1>11
  <2>2. QED BY <1>2, <2>1
<1>13. \A p \in D : \E n \in 1..c : order[n] = p
  <2>1. \A p \in D : place[p] \in 1..c BY <1>5
  <2>2. QED BY <1>6, <1>11, <2>1
<1>14. Range(order) = {order[n] : n \in 1..c} BY <1>o DEF Range
<1>15. Range(order) = D BY <1>11, <1>13, <1>14
<1>16. QED BY <1>2, <1>12, <1>15 DEF IsOrder, order

\* A column holds what the songs say, and nothing else.
LEMMA ColumnFacts ==
    ASSUME NEW songs, NEW order, IsOrder(order, songs), NEW field, NEW T, \A p \in DOMAIN songs : songs[p][field] \in T
    PROVE  /\ Column(songs, order, field) \in Seq(T)
           /\ Len(Column(songs, order, field)) = Len(order)
           /\ Range(Column(songs, order, field)) = {songs[p][field] : p \in DOMAIN songs}
<1> DEFINE L == Len(order)
           col == Column(songs, order, field)
<1>1. L \in Nat /\ DOMAIN order = 1..L /\ \A n \in 1..L : order[n] \in DOMAIN songs BY DEF IsOrder
<1>2. \A p \in DOMAIN songs : \E n \in 1..L : order[n] = p BY <1>1 DEF IsOrder, Range
<1> HIDE DEF L
<1>3. col = [n \in 1..L |-> songs[order[n]][field]] BY DEF Column, L
<1> HIDE DEF col
<1>4. col \in [1..L -> T] BY <1>1, <1>3
<1>5. col \in Seq(T) /\ Len(col) = L /\ DOMAIN col = 1..L BY <1>1, <1>4
<1>6. Range(col) = {songs[p][field] : p \in DOMAIN songs} BY <1>1, <1>2, <1>3, <1>5 DEF Range
<1>7. QED BY <1>5, <1>6 DEF col, L

\* What the row says of the songs together.
Follows(row, songs) ==
    LET said   == {songs[p] : p \in DOMAIN songs}
        states == {s.explicit : s \in said}
        dates  == {s.date : s \in said}
    IN  /\ row.missing = (\A s \in said : s.missing)
        /\ row.years = <<LeastKnown({s.year : s \in said}), Greatest({s.year : s \in said})>>
        /\ dates = {row.date} \/ (Cardinality(dates) > 1 /\ row.date = NoText)
        /\ row.explicit = IF "e" \in states THEN "e" ELSE IF "c" \in states THEN "c" ELSE NoText
        /\ row.created = LeastKnown({s.birth : s \in said})

\* ToAlbum of songs in any order that has them all follows them.
LEMMA RowIsOfItsSongs ==
    ASSUME NEW songs, AreSongs(songs), NEW order, IsOrder(order, songs), NEW row, row = AlbumOf(songs, order)
    PROVE  Follows(row, songs)
<1> DEFINE D == DOMAIN songs
           L == Len(order)
           said == {songs[p] : p \in D}
<1>0. /\ L \in Nat \ {0}
      /\ \A p \in D : /\ songs[p].year \in Nat /\ songs[p].birth \in Nat /\ songs[p].explicit \in Warnings
                      /\ songs[p].date \in STRING /\ songs[p].missing \in BOOLEAN
  BY DEF IsOrder, AreSongs, Songs, Warnings
<1>1. /\ row.missing = \A p \in D : songs[p].missing
      /\ row.years = minMax(Column(songs, order, "year"))
      /\ row.date = allOrNothing(Column(songs, order, "date"))
      /\ row.explicit = Warning(Column(songs, order, "explicit"))[L]
      /\ row.created = Ageing(Column(songs, order, "birth"))[L]
  BY DEF AlbumOf
<1>2. row.missing = (\A s \in said : s.missing) BY <1>1
<1>3. row.years = <<LeastKnown({s.year : s \in said}), Greatest({s.year : s \in said})>>
  <2> DEFINE c == Column(songs, order, "year")
  <2>1. \A p \in D : songs[p]["year"] \in Nat BY <1>0
  <2>2. c \in Seq(Nat) /\ Len(c) = L /\ Range(c) = {songs[p]["year"] : p \in D}
    <3> DEFINE T == Nat
               f == "year"
    <3>1. \A p \in DOMAIN songs : songs[p][f] \in T BY <2>1
    <3> HIDE DEF T, f
    <3>2. /\ Column(songs, order, f) \in Seq(T)
          /\ Len(Column(songs, order, f)) = Len(order)
          /\ Range(Column(songs, order, f)) = {songs[p][f] : p \in DOMAIN songs}
      BY <3>1, ColumnFacts
    <3>3. QED BY <3>2 DEF T, f
  <2>3. {songs[p]["year"] : p \in D} = {s.year : s \in said} OBVIOUS
  <2>4. row.years = minMax(c) BY <1>1
  <2> HIDE DEF c, said
  <2>5. IsRange(minMax(c), c, L) BY <1>0, <2>2, MinMaxIsRange
  <2>6. minMax(c) = <<LeastKnown(Range(c)), Greatest(Range(c))>> BY <1>0, <2>2, <2>5, RangeIsMeant
  <2>7. QED BY <2>2, <2>3, <2>4, <2>6
<1>4. {s.date : s \in said} = {row.date} \/ (Cardinality({s.date : s \in said}) > 1 /\ row.date = NoText)
  <2> DEFINE c == Column(songs, order, "date")
             dates == {s.date : s \in said}
             dateOf == [p \in D |-> songs[p]["date"]]
  <2>1. \A p \in D : songs[p]["date"] \in STRING BY <1>0
  <2>2. Len(c) = L /\ c \in Seq(STRING) /\ Range(c) = {songs[p]["date"] : p \in D} BY <2>1, ColumnFacts
  <2>3. {songs[p]["date"] : p \in D} = dates OBVIOUS
  <2>4. row.date = allOrNothing(c) BY <1>1
  <2>5. dateOf \in Surjection(D, dates)
    <3>1. dateOf \in [D -> dates] BY <2>3
    <3>2. \A v \in dates : \E p \in D : dateOf[p] = v BY <2>3
    <3>3. QED BY <3>1, <3>2 DEF Surjection
  <2> HIDE DEF c, dates, dateOf, said
  <2>6. IsFiniteSet(dates)
    <3>1. IsFiniteSet(D) BY AlbumAssumption, FS_Subset DEF AlbumAssumption, AreSongs
    <3>2. QED BY <2>5, <3>1, FS_Surjection
  <2>7. c[1] \in dates
    <3>1. DOMAIN c = 1..L /\ 1 \in 1..L BY <1>0, <2>2
    <3>2. c[1] \in Range(c) BY <3>1 DEF Range
    <3>3. QED BY <2>2, <2>3, <3>2
  <2>8. Cardinality(dates) \in Nat /\ Cardinality(dates) # 0 BY <2>6, <2>7, FS_CardinalityType, FS_EmptySet
  <2>9. Range(c) = dates BY <2>2, <2>3
  <2>10. CASE Cardinality(dates) = 1
    <3>1. PICK d : dates = {d} BY <2>6, <2>10, FS_Singleton
    <3>2. row.date = c[1] BY <2>4, <2>9, <2>10 DEF allOrNothing
    <3>3. dates = {row.date} BY <2>7, <3>1, <3>2
    <3>4. QED BY <3>3 DEF dates
  <2>11. CASE Cardinality(dates) # 1
    <3>1. row.date = NoText BY <2>4, <2>9, <2>11 DEF allOrNothing
    <3>2. Cardinality(dates) > 1 BY <2>8, <2>11
    <3>3. QED BY <3>1, <3>2 DEF dates
  <2>12. QED BY <2>10, <2>11
<1>5. LET states == {s.explicit : s \in said}
      IN  row.explicit = IF "e" \in states THEN "e" ELSE IF "c" \in states THEN "c" ELSE NoText
  <2> DEFINE c == Column(songs, order, "explicit")
  <2>1. \A p \in D : songs[p]["explicit"] \in Warnings BY <1>0
  <2>2. c \in Seq(Warnings) /\ Len(c) = L /\ Range(c) = {songs[p]["explicit"] : p \in D}
    <3> DEFINE T == Warnings
               f == "explicit"
    <3>1. \A p \in DOMAIN songs : songs[p][f] \in T BY <2>1
    <3> HIDE DEF T, f
    <3>2. /\ Column(songs, order, f) \in Seq(T)
          /\ Len(Column(songs, order, f)) = Len(order)
          /\ Range(Column(songs, order, f)) = {songs[p][f] : p \in DOMAIN songs}
      BY <3>1, ColumnFacts
    <3>3. QED BY <3>2 DEF T, f
  <2>3. {songs[p]["explicit"] : p \in D} = {s.explicit : s \in said} OBVIOUS
  <2>4. row.explicit = Warning(c)[L] BY <1>1
  <2> HIDE DEF c, said
  <2>5. Warning(c)[L] = IF "e" \in Range(c) THEN "e" ELSE IF "c" \in Range(c) THEN "c" ELSE NoText
    BY <1>0, <2>2, WarningIsMeant
  <2>6. Range(c) = {s.explicit : s \in said} BY <2>2, <2>3
  <2>7. QED BY <2>4, <2>5, <2>6
<1>6. row.created = LeastKnown({s.birth : s \in said})
  <2> DEFINE c == Column(songs, order, "birth")
  <2>1. \A p \in D : songs[p]["birth"] \in Nat BY <1>0
  <2>2. c \in Seq(Nat) /\ Len(c) = L /\ Range(c) = {songs[p]["birth"] : p \in D}
    <3> DEFINE T == Nat
               f == "birth"
    <3>1. \A p \in DOMAIN songs : songs[p][f] \in T BY <2>1
    <3> HIDE DEF T, f
    <3>2. /\ Column(songs, order, f) \in Seq(T)
          /\ Len(Column(songs, order, f)) = Len(order)
          /\ Range(Column(songs, order, f)) = {songs[p][f] : p \in DOMAIN songs}
      BY <3>1, ColumnFacts
    <3>3. QED BY <3>2 DEF T, f
  <2>3. {songs[p]["birth"] : p \in D} = {s.birth : s \in said} OBVIOUS
  <2>4. row.created = Ageing(c)[L] BY <1>1
  <2> HIDE DEF c, said
  <2>5. Ageing(c)[L] = LeastKnown(Range(c)) BY <1>0, <2>2, AgeingIsMeant
  <2>6. QED BY <2>2, <2>3, <2>4, <2>5
<1>7. QED BY <1>2, <1>3, <1>4, <1>5, <1>6 DEF Follows

-------------------------------------------------------------------------------
(* Every step of a scan                                                        *)

\* The order does not depend on how the songs are listed.
LEMMA SortedIsStable ==
    ASSUME NEW songs, NEW g \in Listings(songs), NEW h \in Listings(songs)
    PROVE  Sorted(songs, g) = Sorted(songs, h)
<1>1. DOMAIN g = DOMAIN h BY DEF Listings
<1>2. QED BY <1>1 DEF Sorted

\* The row, once built, is made of songs in some listing of them.
AlbumInv ==
    /\ AreSongs(songOf)
    /\ rowOf # NoAlbum =>
         /\ AreSongs(built)
         /\ DOMAIN built # {}
         /\ \E given \in Listings(built) : rowOf = ToAlbum(built, given)

\* No row is built at first.
LEMMA AlbumStarts == AlbumInit => AlbumInv
<1> SUFFICES ASSUME AlbumInit PROVE AlbumInv OBVIOUS
<1>1. DOMAIN songOf = Paths /\ songOf \in [Paths -> Songs] BY AlbumAssumption DEF AlbumInit, AlbumAssumption
<1>2. QED BY <1>1 DEF AlbumInit, AlbumInv, AreSongs

\* A refresh builds the row from the songs as they are; other steps change the songs only.
LEMMA AlbumSteps == AlbumInv /\ [AlbumNext]_albumVars => AlbumInv'
<1> SUFFICES ASSUME AlbumInv, [AlbumNext]_albumVars PROVE AlbumInv' OBVIOUS
<1>1. AreSongs(songOf) BY DEF AlbumInv
<1>2. CASE refreshAlbum
  <2>1. AreSongs(songOf)' BY <1>1, <1>2 DEF refreshAlbum, AreSongs
  <2>2. built' = songOf /\ DOMAIN songOf # {} BY <1>2 DEF refreshAlbum
  <2>3. \E given \in Listings(songOf) : rowOf' = ToAlbum(songOf, given) BY <1>2 DEF refreshAlbum
  <2>4. AreSongs(built)' /\ (DOMAIN built # {})' BY <1>1, <2>2 DEF AreSongs
  <2>5. (\E given \in Listings(built) : rowOf = ToAlbum(built, given))' BY <2>2, <2>3
  <2>6. QED BY <2>1, <2>4, <2>5 DEF AlbumInv
<1>3. ASSUME UNCHANGED <<rowOf, built>>, AreSongs(songOf)' PROVE AlbumInv'
  BY <1>3 DEF AlbumInv, AreSongs, Listings
<1>4. ASSUME NEW p \in Paths, ImportFile(p) PROVE AlbumInv'
  <2>1. PICK r \in Recordings : songOf' = [q \in DOMAIN songOf \cup {p} |-> IF q = p THEN r ELSE songOf[q]]
    BY <1>4 DEF ImportFile
  <2>2. r \in Songs BY AlbumAssumption DEF AlbumAssumption
  <2>3. AreSongs(songOf)' BY <1>1, <2>1, <2>2 DEF AreSongs
  <2>4. QED BY <1>3, <1>4, <2>3 DEF ImportFile
<1>5. ASSUME NEW p \in DOMAIN songOf, MissSong(p) PROVE AlbumInv'
  <2>1. songOf' = [songOf EXCEPT ![p] = [songOf[p] EXCEPT !.missing = TRUE]] BY <1>5 DEF MissSong
  <2>2. songOf[p] \in Songs BY <1>1 DEF AreSongs
  <2>3. [songOf[p] EXCEPT !.missing = TRUE] \in Songs BY <2>2 DEF Songs
  <2>4. AreSongs(songOf)' BY <1>1, <2>1, <2>3 DEF AreSongs
  <2>5. QED BY <1>3, <1>5, <2>4 DEF MissSong
<1>6. ASSUME NEW p \in DOMAIN songOf, PurgeSong(p) PROVE AlbumInv'
  <2>1. songOf' = [q \in DOMAIN songOf \ {p} |-> songOf[q]] BY <1>6 DEF PurgeSong
  <2>2. AreSongs(songOf)' BY <1>1, <2>1 DEF AreSongs
  <2>3. QED BY <1>3, <1>6, <2>2 DEF PurgeSong
<1>7. CASE UNCHANGED albumVars
  <2>1. AreSongs(songOf)' BY <1>1, <1>7 DEF albumVars, AreSongs
  <2>2. QED BY <1>3, <1>7, <2>1 DEF albumVars
<1>8. QED BY <1>2, <1>4, <1>5, <1>6, <1>7 DEF AlbumNext

\* A row built so is of its songs, and so is its cover.
LEMMA AlbumMeaning == AlbumInv => AlbumFollowsItsSongs /\ CoverIsOfTheFirstDisc
<1> SUFFICES ASSUME AlbumInv, rowOf # NoAlbum PROVE AlbumFollowsItsSongs /\ CoverIsOfTheFirstDisc
  BY DEF AlbumFollowsItsSongs, CoverIsOfTheFirstDisc
<1>1. AreSongs(built) /\ DOMAIN built # {} BY DEF AlbumInv
<1>2. PICK given \in Listings(built) : rowOf = ToAlbum(built, given) BY DEF AlbumInv
<1> DEFINE order == Sorted(built, given)
<1>3. IsOrder(order, built) BY <1>1, SortedIsOrder
<1>4. rowOf = AlbumOf(built, order) BY <1>2 DEF ToAlbum
<1> HIDE DEF order
<1>5. AlbumFollowsItsSongs
  <2>1. Follows(rowOf, built) BY <1>1, <1>3, <1>4, RowIsOfItsSongs
  <2>2. QED BY <2>1, Zenon DEF Follows, AlbumFollowsItsSongs
<1>6. CoverIsOfTheFirstDisc
  <2>1. rowOf.art = Covering(built, order)[Len(order)].path BY <1>4 DEF AlbumOf
  <2>2. QED BY <1>1, <1>3, <2>1, CoverIsMeant DEF CoverIsOfTheFirstDisc
<1>7. QED BY <1>5, <1>6

\* Only a refresh changes the row, and one of the same songs sorts them the same way.
LEMMA AlbumRepeats == AlbumInv /\ [AlbumNext]_albumVars => [rowOf # NoAlbum /\ built' = built => rowOf' = rowOf]_albumVars
<1> SUFFICES ASSUME AlbumInv, [AlbumNext]_albumVars, rowOf # NoAlbum, built' = built PROVE rowOf' = rowOf OBVIOUS
<1>1. CASE refreshAlbum
  <2>1. PICK g \in Listings(built) : rowOf = ToAlbum(built, g) BY DEF AlbumInv
  <2>2. songOf = built BY <1>1 DEF refreshAlbum
  <2>3. PICK h \in Listings(built) : rowOf' = ToAlbum(built, h) BY <1>1, <2>2 DEF refreshAlbum
  <2>4. Sorted(built, g) = Sorted(built, h) BY SortedIsStable
  <2>5. QED BY <2>1, <2>3, <2>4 DEF ToAlbum
<1>2. CASE ~refreshAlbum
  BY <1>2 DEF AlbumNext, albumVars, ImportFile, MissSong, PurgeSong
<1>3. QED BY <1>1, <1>2

\* However files are added, retagged, lost and purged, the row of an album, built by ToAlbum from the
\* songs in whatever order the query listed them, says what they say together, has the cover of
\* the lowest disc's first song, and is the same row when it is built again from the same songs.
THEOREM AlbumsHold == AlbumSpec => AlbumIsOfItsSongs
<1>1. AlbumInit => AlbumInv BY AlbumStarts
<1>2. AlbumInv /\ [AlbumNext]_albumVars => AlbumInv' BY AlbumSteps
<1>3. AlbumInv => AlbumFollowsItsSongs /\ CoverIsOfTheFirstDisc BY AlbumMeaning
<1>4. AlbumInv /\ [AlbumNext]_albumVars => [rowOf # NoAlbum /\ built' = built => rowOf' = rowOf]_albumVars BY AlbumRepeats
<1>5. QED BY <1>1, <1>2, <1>3, <1>4, PTL DEF AlbumSpec, AlbumIsOfItsSongs, RefreshIsRepeatable
===============================================================================
